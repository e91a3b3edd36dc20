----------------------------- MODULE MCForkJoin -----------------------------
(* One root with nested regions, hot teams of both modes and no hot teams,   *)
(* and two roots that share the pool and run into the limits.                *)
(* Apart from that: the machine hierarchy for teams one after the other and  *)
(* for nested ones, on machines that are known or not.                       *)
EXTENDS ForkJoin, Hierarchy

Setting(mode, levels, cgMax, nested, requests, roots) ==
  [mode |-> mode, levels |-> levels, cgMax |-> cgMax, nested |-> nested,
   requests |-> requests, roots |-> roots]
MCConfigurations ==
  {Setting(0, 0, 4, TRUE, 1 .. 3, 1), Setting(0, 2, 4, TRUE, 1 .. 3, 1),
   Setting(1, 1, 4, TRUE, 1 .. 3, 1), Setting(0, 1, 4, FALSE, 1 .. 3, 1),
   Setting(0, 0, 3, TRUE, {3}, 2), Setting(0, 1, 3, TRUE, 2 .. 3, 2),
   Setting(0, 1, 3, FALSE, {1, 3}, 2)}

-----------------------------------------------------------------------------
OneByOne(machine, levels, sizes) ==
  [machine |-> machine, levels |-> levels, phases |-> [i \in DOMAIN sizes |-> <<sizes[i]>>]]
Nested(machine, sizes) == [machine |-> machine, levels |-> 4, phases |-> <<sizes>>]
\* The hierarchy is set up, deepened within its arrays, given larger ones; grows
\* twice; is narrowed; is used by one team while another resizes it.
MCHierScenarios ==
  {OneByOne(<< >>, 3, <<2, 5>>), OneByOne(<< >>, 4, <<2, 3, 4>>), OneByOne(<< >>, 4, <<5, 2>>),
   OneByOne(<<1, 2>>, 3, <<3, 4>>), OneByOne(<<3, 2>>, 4, <<6>>),
   Nested(<<2>>, <<2, 3>>)}
NoHier == [machine |-> << >>, levels |-> 2, phases |-> << << >> >>]

\* A small team reads the hierarchy while a large one gets new arrays.
NestedGrowing == {[machine |-> <<2>>, levels |-> 3, phases |-> << <<2, 5>> >>]}

\* Either the threads and teams, or the hierarchy.
NoRoots == Setting(0, 0, 1, FALSE, {}, 0)
MCInit == \/ Init /\ HierInitWith({NoHier})
          \/ InitWith({NoRoots}) /\ HierInit
MCNext == \/ Next /\ UNCHANGED hierVars
          \/ HierNext /\ UNCHANGED rt
MCSpec == MCInit /\ [][MCNext]_<<rt, hierVars>>
=============================================================================
