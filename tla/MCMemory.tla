------------------------------ MODULE MCMemory ------------------------------
\* Small instances of Memory: a pool of 14 units holds two blocks of 6 or four of 3, headers included.
EXTENDS Memory

Threads2 == 1 .. 2
Threads3 == 1 .. 3

\* One thread allocates blocks of two sizes, it and the other free them; in each mode of the search.
Owner(mode) == [threads |-> Threads2, roots |-> {}, allocators |-> {1}, sizes |-> {1, 4}, indices |-> {},
                mode |-> mode, pools |-> 2, blocks |-> 3]

\* Two threads allocate from their lists and from their pools, three free.
Crossing == [threads |-> Threads3, roots |-> {}, allocators |-> {1, 2}, sizes |-> {}, indices |-> {1},
             mode |-> "fifo", pools |-> 1, blocks |-> 3]

MCScenarios == {Owner(mode) : mode \in {"fifo", "lifo", "best"}} \union {Crossing}

\* Reproductions: a root ends before the others; a pool is released before it is looked at.
MCRoot == {[Crossing EXCEPT !.roots = {1}]}
MCLastPool == {[Owner("fifo") EXCEPT !.indices = {1}]}

MCBinSizes == <<0, 4, 6, 8, 10>>
MCFastSizes == <<1>>
=============================================================================
