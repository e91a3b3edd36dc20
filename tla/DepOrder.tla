------------------------------ MODULE DepOrder ------------------------------
(***************************************************************************)
(* What depend clauses promise: the tasks and waits of a program, in the   *)
(* order in which it creates them; each starts when all those before it    *)
(* that name an address of its own, one of the two to write it, have       *)
(* ended. A wait starts and ends in one.                                   *)
(***************************************************************************)
EXTENDS Naturals, Sequences

VARIABLES program,   \* what is to be done: [task : BOOLEAN, deps : Seq([addr, out])]
          started,   \* the members of the program that have started,
          ended      \* and ended
orderVars == <<program, started, ended>>

Conflict(a, b) ==
  \E i \in DOMAIN a.deps, j \in DOMAIN b.deps :
    a.deps[i].addr = b.deps[j].addr /\ (a.deps[i].out \/ b.deps[j].out)
Before(n) == {k \in 1..(n - 1) : Conflict(program[k], program[n])}

Init == started = {} /\ ended = {}

Start(n) ==
  /\ n \notin started /\ Before(n) \subseteq ended
  /\ started' = started \cup {n}
  /\ ended' = IF program[n].task THEN ended ELSE ended \cup {n}
  /\ UNCHANGED program
End(n) ==
  /\ n \in started \ ended
  /\ ended' = ended \cup {n}
  /\ UNCHANGED <<program, started>>

Next == \E n \in DOMAIN program : Start(n) \/ End(n)
Spec == Init /\ [][Next]_orderVars
=============================================================================
