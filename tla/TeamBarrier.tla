------------------------------ MODULE TeamBarrier ------------------------------
(***************************************************************************)
(* What the barriers of a team promise.  The members of a team go through  *)
(* the same sequence of Steps barriers, of which forking the team is the   *)
(* first and joining it the last: nobody gets past one before every member *)
(* has come to it, and when all have, everybody gets past it.  The join is *)
(* passed by the master alone; the other members come back, if they do,    *)
(* in a later team.                                                        *)
(***************************************************************************)
EXTENDS Naturals

CONSTANTS Threads, Master, Steps

VARIABLES team,      \* the threads of the present region
          entered,   \* how many of its barriers each thread has come to
          passed     \* how many of them it has got past

vars == <<team, entered, passed>>

\* Before the first region everybody is where the end of one would leave it.
Init == /\ team = {}
        /\ entered = [t \in Threads |-> Steps]
        /\ passed = [t \in Threads |-> IF t = Master THEN Steps ELSE Steps - 1]

\* The master forks a region; everybody waits for that already.
Fork(members) ==
  /\ passed[Master] = Steps
  /\ Master \in members
  /\ team' = members
  /\ entered' = [t \in Threads |-> IF t \in members THEN 1 ELSE entered[t]]
  /\ passed' = [t \in Threads |-> IF t \in members THEN 0 ELSE passed[t]]

Enter(t) == /\ t \in team
            /\ entered[t] = passed[t] /\ entered[t] < Steps
            /\ entered' = [entered EXCEPT ![t] = @ + 1]
            /\ UNCHANGED <<team, passed>>

Leave(t) == /\ t \in team
            /\ passed[t] < entered[t]
            /\ t = Master \/ entered[t] < Steps
            /\ \A u \in team : entered[u] >= entered[t]
            /\ passed' = [passed EXCEPT ![t] = @ + 1]
            /\ UNCHANGED <<team, entered>>

Next == \/ \E members \in SUBSET Threads : Fork(members)
        \/ \E t \in Threads : Enter(t) \/ Leave(t)

Spec == Init /\ [][Next]_vars

FairSpec == Spec /\ \A t \in Threads : WF_vars(Leave(t))
=============================================================================
