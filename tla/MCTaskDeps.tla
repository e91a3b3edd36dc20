----------------------------- MODULE MCTaskDeps -----------------------------
(***************************************************************************)
(* The programs of the instance to check.                                  *)
(***************************************************************************)
EXTENDS TaskDeps

in(a) == [addr |-> a, out |-> FALSE]
out(a) == [addr |-> a, out |-> TRUE]
Task(deps) == [task |-> TRUE, deps |-> deps]
Wait(deps) == [task |-> FALSE, deps |-> deps]

\* All programs of four members that read and write one address,
One == {Task(<<in(1)>>), Task(<<out(1)>>), Wait(<<in(1)>>), Wait(<<out(1)>>)}
OneAddress == {<<Task(<<out(1)>>)>> \o p : p \in [1..3 -> One]}
\* and of three over two addresses, one of them named twice.
Two == {Task(<<>>), Task(<<in(1), out(2)>>), Task(<<out(1), in(2)>>), Task(<<out(1), out(2)>>),
        Task(<<in(2), out(2)>>), Wait(<<in(1), out(2)>>)}
TwoAddresses == [1..3 -> Two]
MCPrograms == OneAddress \cup TwoAddresses
=============================================================================
