------------------------------ MODULE MCTasking ------------------------------
(***************************************************************************)
(* The programs Tasking is checked with: a single construct in which       *)
(* thread 1 creates tasks of different kinds, two threads that both create *)
(* tied ones, and proxy tasks among others.                                *)
(***************************************************************************)
EXTENDS Tasking

P(team, kinds, tasks, creators, groups, proxies) ==
  [team |-> team, kinds |-> kinds, tasks |-> tasks, creators |-> creators, groups |-> groups,
   proxies |-> proxies]

SomePrograms ==
  {P(2, {"tied", "untied"}, 3, {1}, 0, "none"), P(2, {"tied"}, 3, {1}, 1, "none"),
   P(2, {"tied", "final", "if0"}, 2, {1}, 1, "none"), P(2, {"tied", "final", "if0"}, 3, {1}, 0, "none"),
   P(2, {"tied"}, 4, {1}, 0, "none"), P(2, {"tied"}, 3, {1, 2}, 0, "none"),
   P(3, {"tied"}, 3, {1}, 0, "none"),
   P(2, {"tied"}, 2, {1}, 1, "implicit"), P(3, {"tied"}, 2, {1}, 0, "implicit")}

\* An explicit task creates a proxy task and does not wait for it.
NestedProxies == {P(2, {"tied"}, 2, {1}, 0, "any")}
=============================================================================
