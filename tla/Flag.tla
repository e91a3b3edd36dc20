---------------------------------- MODULE Flag ----------------------------------
(***************************************************************************)
(* What a kmp_flag promises to the thread that waits on it and to the      *)
(* threads that release it: a wait returns only for a release of its own,  *)
(* each release ends one wait, and a wait whose release has come returns.  *)
(***************************************************************************)
EXTENDS Naturals

CONSTANTS Flags, NoFlag

VARIABLES waiting,    \* the flag the thread waits on
          released,   \* how often each flag has been released
          passed,     \* how often a wait on it has returned
          done        \* the library is being shut down

vars == <<waiting, released, passed, done>>

Init == /\ waiting = NoFlag
        /\ released = [f \in Flags |-> 0]
        /\ passed = [f \in Flags |-> 0]
        /\ done = FALSE

Wait(f) == /\ waiting = NoFlag
           /\ waiting' = f
           /\ UNCHANGED <<released, passed, done>>

Release(f) == /\ released[f] = passed[f]
              /\ released' = [released EXCEPT ![f] = @ + 1]
              /\ UNCHANGED <<waiting, passed, done>>

Pass(f) == /\ waiting = f
           /\ released[f] > passed[f]
           /\ passed' = [passed EXCEPT ![f] = @ + 1]
           /\ waiting' = NoFlag
           /\ UNCHANGED <<released, done>>

Shutdown == /\ ~done
            /\ done' = TRUE
            /\ UNCHANGED <<waiting, released, passed>>

\* Nothing is promised about a wait that a shutdown ends.
Abandon == /\ done
           /\ waiting # NoFlag
           /\ waiting' = NoFlag
           /\ UNCHANGED <<released, passed, done>>

Next == (\E f \in Flags : Wait(f) \/ Release(f) \/ Pass(f)) \/ Shutdown \/ Abandon

Spec == Init /\ [][Next]_vars
FairSpec == Spec /\ WF_vars((\E f \in Flags : Pass(f)) \/ Abandon)
=============================================================================
