------------------------------ MODULE Hierarchy ------------------------------
(***************************************************************************)
(* The machine hierarchy the hierarchical barrier runs along               *)
(* (hierarchy_info of kmp_affinity.h): one thread sets it up while the     *)
(* others wait, threads of a team that is larger than any before resize    *)
(* it, and every thread reads its own place from it (kmp_barrier.cpp).     *)
(*                                                                         *)
(* Teams run in phases, several at a time when regions are nested; the     *)
(* threads of a team come to its first barrier in any order.  The barrier  *)
(* itself is the module Barrier, for which the result is a constant.       *)
(***************************************************************************)
EXTENDS Integers, Sequences, FiniteSets

CONSTANTS HierScenarios,  \* machines, and the teams that run on them
          MaxLeaves,      \* of a parent, when nothing is known of the machine: 4
          MinBranch       \* the least a level is narrowed to: 4

\* A machine is what is known of it: the children of a node at each level, from
\* the leaves up; or nothing.  A fresh hierarchy has so many levels (7), which
\* are enough for the machine.  A phase is the sizes of the teams in it.
HierScenario == [machine : Seq(Nat \ {0}), levels : Nat \ {0, 1}, phases : Seq(Seq(Nat \ {0}))]

ASSUME HierarchyAssumption ==
  /\ HierScenarios \subseteq HierScenario
  /\ {MaxLeaves, MinBranch} \subseteq Nat \ {0, 1}
  /\ \A s \in HierScenarios : Len(s.machine) < s.levels

VARIABLES hscenario, phase, \* the phase the program is in
          uninitialized, resizing, base_num_threads, depth, maxLevels,
          tables,           \* the arrays allocated so far: numPerLevel, skipPerLevel
          table,            \* which of them is in use; 0 for a null pointer
          where, bar        \* of each thread: its next step, its kmp_bstate_t

hierVars == <<hscenario, phase, uninitialized, resizing, base_num_threads, depth, maxLevels,
              tables, table, where, bar>>
hierarchy == <<uninitialized, resizing, base_num_threads, depth, maxLevels, tables, table>>

-----------------------------------------------------------------------------
(* The arrays. *)

DivUp(a, b) == (a + b - 1) \div b

\* How often size must be doubled for n threads to find a place.
Doublings(size, n) == CHOOSE i \in 0 .. n : size * 2^i >= n /\ \A j \in 0 .. i - 1 : size * 2^j < n

\* A guess for n threads: leaves, and all their parents under one node.
Guess(machine, n) ==
  [i \in 0 .. hscenario.levels - 1 |->
     IF machine # << >> THEN IF i < Len(machine) THEN machine[i + 1] ELSE 1
     ELSE IF i = 0 THEN MaxLeaves ELSE IF i = 1 THEN DivUp(n, MaxLeaves) ELSE 1]

\* The levels that are not trivial, and one above them.
DepthOf(num) ==
  IF \A i \in DOMAIN num : num[i] = 1 THEN 1
  ELSE 2 + CHOOSE i \in DOMAIN num : num[i] # 1 /\ \A j \in DOMAIN num : j > i => num[j] = 1

AtLeastMin(branch) == IF branch < MinBranch THEN MinBranch ELSE branch

\* A level that is too wide is halved, the one above it doubled.
Narrowed(h, d) ==
  [num |-> [h.num EXCEPT ![d] = DivUp(@, 2), ![d + 1] = 2 * @],
   depth |-> IF h.num[d + 1] = 1 THEN h.depth + 1 ELSE h.depth]

Optimized(num, n) ==
  LET H == [num : [DOMAIN num -> Nat], depth : Nat]
      Opt[h \in H, d \in Nat, branch \in Nat] ==
        IF d >= h.depth - 1 THEN h
        ELSE IF h.num[d] > branch \/ (d = 0 /\ h.num[d] > MaxLeaves)
          THEN Opt[Narrowed(h, d), d, branch]
        ELSE Opt[h, d + 1, IF h.num[0] = 1 THEN AtLeastMin(branch \div 2) ELSE branch]
  IN  Opt[[num |-> num, depth |-> DepthOf(num)], 0,
          IF num[0] = 1 THEN AtLeastMin(n \div MaxLeaves) ELSE MinBranch]

\* The leaves under a node of each level; those above the machine double it.
Skips(h) ==
  LET S[i \in DOMAIN h.num] == IF i = 0 THEN 1
                               ELSE (IF i < h.depth THEN h.num[i - 1] ELSE 2) * S[i - 1]
  IN  S

Built(machine, n) ==
  LET h == Optimized(Guess(machine, n), n)
  IN  [num |-> h.num, skip |-> Skips(h), depth |-> h.depth]

-----------------------------------------------------------------------------
(* The threads. *)

Phase == hscenario.phases[phase]
MembersOf(team) == {<<team, tid>> : tid \in 0 .. Phase[team] - 1}
InPhase == UNION {MembersOf(team) : team \in DOMAIN Phase}
Nproc(t) == Phase[t[1]]
Everybody(s) == {<<j, tid>> \in (1 .. 2) \X (0 .. 15) :
                   \E p \in DOMAIN s.phases : j \in DOMAIN s.phases[p] /\ tid < s.phases[p][j]}

NoBar == [nproc |-> 0, depth |-> 0, kids |-> 0, skip |-> 0, level |-> 0, parent |-> -1]

\* With a machine that is known the hierarchy is set up before there are threads.
HierInitWith(scenarios) ==
  /\ hscenario \in scenarios
  /\ phase = 1
  /\ LET known == hscenario.machine # << >>
         procs == LET P[i \in 0 .. Len(hscenario.machine)] ==
                        IF i = 0 THEN 1 ELSE hscenario.machine[i] * P[i - 1]
                  IN  P[Len(hscenario.machine)]
         b == Built(hscenario.machine, procs)
     IN /\ uninitialized = IF known THEN "initialized" ELSE "not_initialized"
        /\ base_num_threads = IF known THEN procs ELSE 0
        /\ depth = IF known THEN b.depth ELSE 1
        /\ tables = IF known THEN <<[num |-> b.num, skip |-> b.skip]>> ELSE << >>
        /\ table = IF known THEN 1 ELSE 0
  /\ resizing = 0
  /\ maxLevels = hscenario.levels
  /\ where = [t \in Everybody(hscenario) |-> "arrives"]
  /\ bar = [t \in Everybody(hscenario) |-> NoBar]
HierInit == HierInitWith(HierScenarios)

GoTo(t, place) == where' = [where EXCEPT ![t] = place]
At(t, place) == t \in InPhase /\ where[t] = place

\* Mutant of Arrives: the size of the team is not compared.
ArrivesAsBefore(t) ==
  /\ At(t, "arrives")
  /\ GoTo(t, CASE bar[t].nproc # 0 -> "ready"
               [] bar[t].nproc = 0 /\ uninitialized # "initialized" -> "init"
               [] bar[t].nproc = 0 /\ uninitialized = "initialized" -> "compare")
  /\ UNCHANGED <<hscenario, phase, hierarchy, bar>>

\* The first barrier of the team: the place in it is kept while the size is.
Arrives(t) ==
  /\ At(t, "arrives")
  /\ GoTo(t, CASE bar[t].nproc = Nproc(t) -> "ready"
               [] bar[t].nproc # Nproc(t) /\ uninitialized # "initialized" -> "init"
               [] bar[t].nproc # Nproc(t) /\ uninitialized = "initialized" -> "compare")
  /\ UNCHANGED <<hscenario, phase, hierarchy, bar>>

BeginInit(t) ==
  /\ At(t, "init")
  /\ IF uninitialized = "not_initialized"
       THEN uninitialized' = "initializing" /\ GoTo(t, "builds")
       ELSE GoTo(t, "awaits") /\ UNCHANGED uninitialized
  /\ UNCHANGED <<hscenario, phase, resizing, base_num_threads, depth, maxLevels, tables, table, bar>>

Build(t) ==
  /\ At(t, "builds")
  /\ LET b == Built(<< >>, Nproc(t))
     IN  /\ depth' = b.depth
         /\ tables' = Append(tables, [num |-> b.num, skip |-> b.skip])
  /\ table' = Len(tables')
  /\ base_num_threads' = Nproc(t)
  /\ resizing' = 0
  /\ maxLevels' = hscenario.levels
  /\ uninitialized' = "initialized"
  /\ GoTo(t, "compare")
  /\ UNCHANGED <<hscenario, phase, bar>>

AwaitInit(t) ==
  /\ At(t, "awaits")
  /\ uninitialized = "initialized"
  /\ GoTo(t, "compare")
  /\ UNCHANGED <<hscenario, phase, hierarchy, bar>>

Compare(t) ==
  /\ At(t, "compare")
  /\ GoTo(t, IF Nproc(t) > base_num_threads THEN "claims" ELSE "reads")
  /\ UNCHANGED <<hscenario, phase, hierarchy, bar>>

\* The right to resize is taken with a compare-and-store.
Claim(t) ==
  /\ At(t, "claims")
  /\ IF resizing = 0 THEN resizing' = 1 /\ GoTo(t, "looks")
                     ELSE GoTo(t, "spins") /\ UNCHANGED resizing
  /\ UNCHANGED <<hscenario, phase, uninitialized, base_num_threads, depth, maxLevels, tables,
                 table, bar>>

\* While somebody else has it, that may do.
SpinForResize(t) ==
  /\ At(t, "spins")
  /\ GoTo(t, IF Nproc(t) <= base_num_threads THEN "reads" ELSE "claims")
  /\ UNCHANGED <<hscenario, phase, hierarchy, bar>>

\* "happy with other thread's resize": resizing stays as it was set.
LookAgain(t) ==
  /\ At(t, "looks")
  /\ GoTo(t, IF Nproc(t) <= base_num_threads THEN "reads" ELSE "deepens")
  /\ UNCHANGED <<hscenario, phase, hierarchy, bar>>

HasPlaces(t) == tables[table].skip[depth - 1]

\* Mutant of Deepen: the size is published first.
DeepenPublished(t) ==
  /\ At(t, "deepens")
  /\ LET more == Doublings(HasPlaces(t), Nproc(t))
         i == IF more > maxLevels - depth THEN maxLevels - depth ELSE more
     IN  /\ depth' = depth + i
         /\ GoTo(t, IF i = more THEN "unlocks" ELSE "expands")
  /\ base_num_threads' = Nproc(t)
  /\ UNCHANGED <<hscenario, phase, uninitialized, resizing, maxLevels, tables, table, bar>>

\* Levels the arrays have room for are taken in, each of them doubles the places.
Deepen(t) ==
  /\ At(t, "deepens")
  /\ LET more == Doublings(HasPlaces(t), Nproc(t))
         i == IF more > maxLevels - depth THEN maxLevels - depth ELSE more
     IN  /\ tables' = [tables EXCEPT ![table] =
                         [num |-> [l \in DOMAIN @.num |-> IF l \in depth - 1 .. depth + i - 2
                                                          THEN 2 * @.num[l] ELSE @.num[l]],
                          skip |-> [l \in DOMAIN @.skip |-> IF l \in depth .. depth + i - 1
                                                            THEN @.skip[depth - 1] * 2^(l - depth + 1)
                                                            ELSE @.skip[l]]]]
         /\ depth' = depth + i
         /\ GoTo(t, IF i = more THEN "published" ELSE "expands")
  /\ UNCHANGED <<hscenario, phase, uninitialized, resizing, base_num_threads, maxLevels, table, bar>>

\* Else there are new arrays; the old ones are freed.
TakeNewLevels(t) ==
  /\ At(t, "expands")
  /\ LET more == Doublings(HasPlaces(t), Nproc(t))
     IN depth' = depth + more /\ maxLevels' = maxLevels + more
  /\ table' = 0
  /\ GoTo(t, "copies")
  /\ UNCHANGED <<hscenario, phase, uninitialized, resizing, base_num_threads, tables, bar>>

CopyArrays(t) ==
  /\ At(t, "copies")
  /\ LET old == tables[Len(tables)]
         n == Cardinality(DOMAIN old.num)
     IN  tables' = Append(tables,
           [num |-> [l \in 0 .. maxLevels - 1 |-> IF l < n THEN old.num[l] ELSE 1],
            skip |-> [l \in 0 .. maxLevels - 1 |-> IF l < n THEN old.skip[l]
                                                   ELSE old.skip[n - 1] * 2^(l - n + 1)]])
  /\ table' = Len(tables')
  /\ GoTo(t, "published")
  /\ UNCHANGED <<hscenario, phase, uninitialized, resizing, base_num_threads, depth, maxLevels, bar>>

PublishSize(t) ==
  /\ At(t, "published")
  /\ base_num_threads' = Nproc(t)
  /\ GoTo(t, "unlocks")
  /\ UNCHANGED <<hscenario, phase, uninitialized, resizing, depth, maxLevels, tables, table, bar>>

Unlock(t) ==
  /\ At(t, "unlocks")
  /\ resizing' = 0
  /\ GoTo(t, "reads")
  /\ UNCHANGED <<hscenario, phase, uninitialized, base_num_threads, depth, maxLevels, tables,
                 table, bar>>

\* __kmp_get_hierarchy: the depth first,
ReadDepth(t) ==
  /\ At(t, "reads")
  /\ bar' = [bar EXCEPT ![t].depth = depth]
  /\ GoTo(t, "finds")
  /\ UNCHANGED <<hscenario, phase, hierarchy>>

\* The level below which thread tid is no root of a subtree, of depth d.
LevelOf(tid, d, skip) ==
  IF tid = 0 THEN d - 1
  ELSE CHOOSE i \in 0 .. d - 2 : /\ i = d - 2 \/ tid % skip[i + 1] # 0
                                 /\ \A j \in 0 .. i - 1 : tid % skip[j + 1] = 0
ParentOf(tid, d, skip) ==
  LET i == LevelOf(tid, d, skip)
  IN  IF tid = 0 THEN -1 ELSE IF i = d - 2 THEN 0 ELSE tid - (tid % skip[i + 1])

\* then the arrays, and from them the thread's place in the team.
FindPlace(t) ==
  /\ At(t, "finds")
  /\ table # 0
  /\ LET n == Nproc(t)
         d == bar[t].depth
         level == LevelOf(t[2], d, tables[table].skip)
         kids == tables[table].num[0] - 1
     IN  bar' = [bar EXCEPT ![t] =
           [nproc |-> n, depth |-> d, skip |-> table, level |-> level,
            parent |-> ParentOf(t[2], d, tables[table].skip),
            kids |-> IF level = 0 THEN 0 ELSE IF t[2] + kids + 1 > n THEN n - t[2] - 1 ELSE kids]]
  /\ GoTo(t, "ready")
  /\ UNCHANGED <<hscenario, phase, hierarchy>>

Gets(t) == \/ Arrives(t) \/ BeginInit(t) \/ Build(t) \/ AwaitInit(t) \/ Compare(t) \/ Claim(t)
           \/ SpinForResize(t) \/ LookAgain(t) \/ Deepen(t) \/ TakeNewLevels(t) \/ CopyArrays(t)
           \/ PublishSize(t) \/ Unlock(t) \/ ReadDepth(t) \/ FindPlace(t)

\* All teams have been through their barriers.
NextPhase ==
  /\ \A t \in InPhase : where[t] = "ready"
  /\ phase < Len(hscenario.phases)
  /\ phase' = phase + 1
  /\ where' = [t \in DOMAIN where |-> "arrives"]
  /\ UNCHANGED <<hscenario, hierarchy, bar>>

HierNext == (\E t \in InPhase : Gets(t)) \/ NextPhase
HierSpec == HierInit /\ [][HierNext]_hierVars

-----------------------------------------------------------------------------
\* Whom a thread gathers: the nodes of each level below its own under it, as
\* pairs of the level and the thread (__kmp_hierarchical_barrier_gather).
Gathers(t) ==
  LET skip == tables[bar[t].skip].skip
      n == Nproc(t)
  IN  UNION {{<<d, c>> : c \in {t[2] + skip[d] * m : m \in 1 .. n} \cap 0 .. n - 1
                               \cap 0 .. t[2] + skip[d + 1] - 1} : d \in 0 .. bar[t].level - 1}

\* Whatever was known of the machine, whoever set the hierarchy up or resized it and
\* whatever the others saw of that, the places the threads of a team work out for
\* themselves make up one tree: every thread but the master is gathered once, by the
\* one it takes for its parent, by way of its level; the bytes of the leaves are
\* as many as there are leaves; and nobody reads through a null pointer or keeps an
\* array that has been freed.
TreeSound ==
  /\ \A t \in InPhase : where[t] = "finds" => table # 0
  /\ \A team \in DOMAIN Phase :
       (\A t \in MembersOf(team) : where[t] = "ready") =>
         /\ \A t \in MembersOf(team) : bar[t].skip = Len(tables)
         /\ \A c \in MembersOf(team) : c[2] # 0 =>
              LET gatherers == UNION {{<<p[2], g[1]>> : g \in {g \in Gathers(p) : g[2] = c[2]}} :
                                        p \in MembersOf(team)}
              IN  gatherers = {<<bar[c].parent, bar[c].level>>} /\ bar[c].parent \in 0 .. c[2] - 1
         /\ \A t \in MembersOf(team) : bar[t].level > 0 =>
              bar[t].kids = Cardinality({c \in MembersOf(team) : bar[c].parent = t[2] /\ bar[c].level = 0})

\* "0=not resizing, 1=resizing" (kmp_affinity.h:663): does not hold once a thread has
\* come to resize just after another one of its team.
ResizingHeld ==
  resizing = 1 => \E t \in InPhase : where[t] \in {"looks", "deepens", "expands", "copies",
                                                   "published", "unlocks"}
=============================================================================
