------------------------------ MODULE BarrierProofs ------------------------------
(***************************************************************************)
(* The barriers, for any number of threads, any barriers in a region and   *)
(* any trees that span the team: the flags stay in step, a reduction has   *)
(* every share once, the internal control variables arrive, and nobody     *)
(* gets past a barrier before everybody has come to it.                    *)
(***************************************************************************)
EXTENDS Barrier, TLAPS, FiniteSetTheorems, WellFoundedInduction

\* How many barriers of the region the master has gathered: the members are at
\* the last of these or have come to the next one.
Past == IF pc[0] = "gather" THEN k[0] - 1 ELSE k[0]

\* A worker that has reported to the barrier being gathered, and one that is still
\* to be released from the one before.
Came(t) == pc[t] = "wait_go" /\ k[t] = Past + 1
Parked(t) == pc[t] = "wait_go" /\ k[t] = Past /\ go[Bt(t)][t] = 0

\* Where the master and the members are in the region.  The join barrier is left by
\* the master alone; threads cut off the team wait at a join as the rest do.
Position ==
  /\ \/ pc[0] = "gather" /\ k[0] > 0
     \/ pc[0] = "serial" /\ k[0] = JoinStep
     \/ pc[0] \in {"final", "release", "work"} /\ k[0] < JoinStep
  /\ pc[0] = "serial" \/ (region > 0 /\ nproc > 1)
  /\ \A t \in Members \ {0} :
       \/ k[t] = Past + 1 /\ pc[t] \in {"gather", "wait_go"}
       \/ /\ k[t] = Past
          /\ pc[t] \in {"wait_go", "reset_go", "release", "work"}
          /\ k[t] = JoinStep => pc[t] = "wait_go"
  /\ \A t \in Threads \ Members : pc[t] = "wait_go" /\ k[t] = JoinStep

\* The size of the team, and its count of arrivals, as the members know them.
Sized == /\ \A t \in Members : team_nproc[t] = nproc
         /\ \A t \in Members : pc[t] = "gather" => new_state[t] = team_arrived[Bt(t)] + BUMP

\* b_arrived and b_go are in step.
Arrivals == \A b \in Types, t \in Members \ {0} :
  arrived[b][t] = team_arrived[b] + (IF Came(t) /\ Bt(t) = b THEN BUMP ELSE 0)
Gos == \A b \in Types, t \in Workers :
  go[b][t] # 0 => /\ t \in Members /\ k[t] = Past /\ k[t] < JoinStep
                  /\ Bt(t) = b /\ pc[t] \in {"wait_go", "reset_go"}

\* In the gather a thread has taken in those of its children that it no longer
\* waits for, and has reported only after all of them.
GatherOf(t) ==
  /\ pc[t] = "gather" => /\ IsInjective(todo[t])
                         /\ Range(todo[t]) \subseteq Range(GatherKids(t, nproc))
                         /\ \A c \in Range(GatherKids(t, nproc)) : Came(c) \/ c \in Range(todo[t])
  /\ t # 0 /\ Came(t) => \A c \in Range(GatherKids(t, nproc)) : Came(c)
Gathering == nproc > 1 => \A t \in Members : GatherOf(t)

\* In the release a thread's children wait until it comes to them.
BeforeRelease(t) == \/ t # 0 /\ k[t] = Past /\ pc[t] \in {"wait_go", "reset_go"}
                    \/ t = 0 /\ pc[t] = "final"
ReleaseOf(t) ==
  /\ pc[t] = "release" => /\ IsInjective(todo[t])
                          /\ Range(todo[t]) \subseteq Range(ReleaseKids(t, nproc))
                          /\ \A c \in Range(todo[t]) : Parked(c)
  /\ BeforeRelease(t) => \A c \in Range(ReleaseKids(t, nproc)) : Parked(c)
Releasing == nproc > 1 => \A t \in Members : ReleaseOf(t)

\* Once the library is shut down the workers are let out one after the other.
Reaping ==
  /\ pc[0] = "reap" /\ k[0] = JoinStep
  /\ IsInjective(todo[0])
  /\ \A c \in Range(todo[0]) : go["forkjoin"][c] = 0
  /\ \A t \in Workers : k[t] = JoinStep /\ pc[t] \in {"wait_go", "reset_go", "done"}
  /\ \A b \in Types, t \in Workers : go[b][t] # 0 => b = "forkjoin"
  /\ \A b \in Types, t \in Members \ {0} : arrived[b][t] = team_arrived[b]

Running == Position /\ Sized /\ Arrivals /\ Gos /\ Gathering /\ Releasing

IInv == TypeOK /\ IF g_done THEN Reaping ELSE Running

-----------------------------------------------------------------------------
(* Lemmas about numbers, sequences and trees. *)

\* A set of natural numbers that is not empty has a least element: the initial
\* segments 0 .. n are well-founded under inclusion.
LEMMA LeastNumber ==
  ASSUME NEW S \in SUBSET Nat, S # {}
  PROVE  \E n \in S : \A m \in S : n <= m
<1>1. PICK z \in S : TRUE
  OBVIOUS
<1> DEFINE Z == 0 .. z
           Segments == {0 .. n : n \in {m \in S : m <= z}}
<1>2. IsWellFoundedOn(StrictSubsetOrdering(Z), SUBSET Z)
  <2>1. IsFiniteSet(Z)
    BY FS_Interval
  <2> QED
    BY <2>1, FS_StrictSubsetOrderingWellFounded, FS_FiniteSubsetsOfFinite
<1>3. Segments \subseteq SUBSET Z /\ Segments # {}
  BY <1>1
<1>4. PICK X \in Segments : \A Y \in Segments : ~ (<<Y, X>> \in StrictSubsetOrdering(Z))
  <2> HIDE DEF Segments, Z
  <2> QED
    BY <1>2, <1>3, WFMin
<1>5. \A Y \in Segments : Y \subseteq X => Y = X
  BY <1>3, <1>4 DEF StrictSubsetOrdering
<1>6. PICK n \in S : n <= z /\ X = 0 .. n
  OBVIOUS
<1>7. ASSUME NEW m \in S, m < n
      PROVE  FALSE
  <2>1. 0 .. m \in Segments /\ 0 .. m \subseteq X
    BY <1>6, <1>7
  <2>2. n \in X /\ n \notin 0 .. m
    BY <1>6, <1>7
  <2> QED
    BY <2>1, <2>2, <1>5
<1> QED
  BY <1>7

\* A set that has 0, and every worker of the team whose parent it has, has them all.
LEMMA TreeReachesAll ==
  ASSUME NEW n \in Nat, NEW tree, IsTree(tree, n), NEW S, 0 \in S,
         \A t \in 0 .. n-1 : t \in S => Range(tree[t]) \subseteq S
  PROVE  0 .. n-1 \subseteq S
<1> SUFFICES ASSUME (0 .. n-1) \ S # {}
             PROVE  FALSE
  OBVIOUS
<1>1. PICK c \in (0 .. n-1) \ S : \A d \in (0 .. n-1) \ S : c <= d
  BY LeastNumber, (0 .. n-1) \ S \in SUBSET Nat
<1>2. c \in 1 .. n-1
  BY <1>1
<1>3. PICK t \in 0 .. c-1 : c \in Range(tree[t])
  BY <1>2 DEF IsTree
<1>4. t \in 0 .. n-1 /\ t \in S
  BY <1>1, <1>2, <1>3
<1> QED
  BY <1>1, <1>3, <1>4

\* Taking the first of a sequence that names nobody twice.
LEMMA Popped ==
  ASSUME NEW S, NEW s \in Seq(S), IsInjective(s), s # << >>
  PROVE  /\ Tail(s) \in Seq(S) /\ IsInjective(Tail(s))
         /\ Head(s) \in S /\ Head(s) \in Range(s)
         /\ Range(Tail(s)) = Range(s) \ {Head(s)}
<1>1. /\ Len(s) \in Nat /\ Len(s) > 0 /\ DOMAIN s = 1 .. Len(s) /\ s[1] = Head(s)
      /\ DOMAIN Tail(s) = 1 .. Len(s) - 1
      /\ \A i \in 1 .. Len(s) - 1 : Tail(s)[i] = s[i + 1]
      /\ Tail(s) \in Seq(S)
  OBVIOUS
<1>2. \A i, j \in 1 .. Len(s) : s[i] = s[j] => i = j
  BY <1>1 DEF IsInjective
<1>3. IsInjective(Tail(s))
  BY <1>1, <1>2 DEF IsInjective
<1>4. Head(s) \in S /\ Head(s) \in Range(s)
  BY <1>1 DEF Range
<1>5. ASSUME NEW x \in Range(Tail(s))
      PROVE  x \in Range(s) \ {Head(s)}
  BY <1>1, <1>2 DEF Range
<1>6. ASSUME NEW x \in Range(s) \ {Head(s)}
      PROVE  x \in Range(Tail(s))
  <2>1. PICK i \in 1 .. Len(s) : x = s[i]
    BY <1>1 DEF Range
  <2>2. i - 1 \in 1 .. Len(s) - 1 /\ Tail(s)[i - 1] = x
    BY <1>1, <2>1
  <2> QED
    BY <1>1, <2>2 DEF Range
<1> QED
  BY <1>1, <1>3, <1>4, <1>5, <1>6

\* A sequence over a set is one over a larger set.
LEMMA SeqInLarger ==
  ASSUME NEW S, NEW T, S \subseteq T, NEW s \in Seq(S)
  PROVE  s \in Seq(T) /\ Range(s) \subseteq S
<1>1. Len(s) \in Nat /\ s \in [1 .. Len(s) -> S] /\ DOMAIN s = 1 .. Len(s)
  OBVIOUS
<1>2. s \in [1 .. Len(s) -> T]
  BY <1>1
<1> QED
  BY <1>1, <1>2 DEF Range

\* The trees of this run, for a team of any size a region may ask for.
LEMMA TeamTrees ==
  ASSUME <<gather, release>> \in Patterns, NEW n \in Sizes
  PROVE  /\ IsTree(GatherTree(gather, n), n)
         /\ \A t \in 0 .. n-1 :
              /\ GatherKids(t, n) \in Seq(Workers) /\ IsInjective(GatherKids(t, n))
              /\ Range(GatherKids(t, n)) \subseteq 1 .. n-1
              /\ ReleaseKids(t, n) \in Seq(Workers) /\ IsInjective(ReleaseKids(t, n))
              /\ Range(ReleaseKids(t, n)) \subseteq 1 .. n-1
         /\ release = "hierarchical" => \A t \in 1 .. n-1 : ParentInHierarchy(t) \in 0 .. n-1
         /\ \A t, u \in 0 .. n-1 :
              t # u => /\ Range(GatherKids(t, n)) \cap Range(GatherKids(u, n)) = {}
                       /\ Range(ReleaseKids(t, n)) \cap Range(ReleaseKids(u, n)) = {}
<1>1. TreesSpan(gather, release, n)
  BY TreesAssumption
<1>2. n \in 2 .. N /\ N \in Nat
  BY BarrierAssumption
<1>3. ASSUME NEW tree, IsTree(tree, n), NEW t \in 0 .. n-1
      PROVE  tree[t] \in Seq(Workers) /\ Range(tree[t]) \subseteq 1 .. n-1
  <2>1. tree[t] \in Seq(1 .. n-1)
    BY <1>3 DEF IsTree
  <2>2. 1 .. n-1 \subseteq Workers
    BY <1>2 DEF Workers
  <2> QED
    BY <2>1, <2>2, SeqInLarger
<1>4. ASSUME release = "hierarchical", NEW t \in 1 .. n-1
      PROVE  ParentInHierarchy(t) \in 0 .. n-1
  <2>1. PICK u \in 0 .. t-1 : t \in Range(ReleaseTree(release, n)[u])
    BY <1>1 DEF TreesSpan, IsTree
  <2>2. u \in 0 .. n-1
    BY <1>2
  <2> QED
    BY <1>1, <1>4, <2>1, <2>2 DEF TreesSpan
<1> QED
  BY <1>1, <1>3, <1>4 DEF TreesSpan, IsTree, GatherKids, ReleaseKids

\* A barrier of a region is of one of three types, the fork and the join of the last.
LEMMA TypesOfBarriers ==
  ASSUME body \in Bodies
  PROVE  /\ \A i \in 0 .. JoinStep : TypeOf(i) \in Types
         /\ TypeOf(0) = "forkjoin" /\ TypeOf(JoinStep) = "forkjoin"
         /\ JoinStep \in Nat /\ JoinStep > 0 /\ BodyLength \in Nat /\ JoinStep = BodyLength + 1
BY BarrierAssumption DEF TypeOf, Types, JoinStep

\* Who is a member.
LEMMA TeamOf ==
  ASSUME TypeOK
  PROVE  /\ N \in Nat /\ N > 1 /\ nproc \in 1 .. N /\ 0 \in Members /\ Members \subseteq Threads
         /\ Members \ {0} = 1 .. nproc-1 /\ Members \ {0} \subseteq Workers /\ Workers \subseteq Threads
         /\ Threads \ {0} = Workers
         /\ nproc > 1 => nproc \in Sizes
<1>1. N \in Nat /\ N > 1 /\ Sizes \subseteq 2 .. N /\ nproc \in {1} \cup Sizes
  BY BarrierAssumption DEF TypeOK
<1>2. nproc \in 1 .. N
  BY <1>1
<1> QED
  BY <1>1, <1>2 DEF Members, Threads, Workers

\* When the master has gathered the last of its children, everybody has come.
LEMMA EverybodyCame ==
  ASSUME IInv, pc[0] = "gather", todo[0] = << >>
  PROVE  \A t \in Members \ {0} : Came(t)
<1>1. TypeOK /\ Running
  BY DEF IInv, Reaping
<1>2. nproc \in Sizes /\ nproc > 1 /\ nproc \in Nat
  BY <1>1, TeamOf DEF Running, Position
<1>3. IsTree(GatherTree(gather, nproc), nproc)
  BY <1>1, <1>2, TeamTrees DEF TypeOK
<1> DEFINE S == {0} \cup {t \in Members \ {0} : Came(t)}
<1>4. \A t \in Members : t \in S => Range(GatherKids(t, nproc)) \subseteq S
  <2> SUFFICES ASSUME NEW t \in Members, t \in S, NEW c \in Range(GatherKids(t, nproc))
               PROVE  c \in S
    OBVIOUS
  <2>1. c \in Members \ {0}
    BY <1>1, <1>2, TeamTrees, TeamOf DEF TypeOK, Members
  <2>2. Range(todo[0]) = {}
    BY DEF Range
  <2>3. Came(c)
    BY <1>1, <1>2, <2>2 DEF Running, Gathering, GatherOf
  <2> QED
    BY <2>1, <2>3
<1>5. 0 .. nproc-1 \subseteq S
  <2> HIDE DEF S
  <2>1. \A t \in 0 .. nproc-1 : t \in S => Range(GatherTree(gather, nproc)[t]) \subseteq S
    BY <1>4 DEF GatherKids, Members
  <2>2. 0 \in S
    BY DEF S
  <2> QED
    BY <1>2, <1>3, <2>1, <2>2, TreeReachesAll
<1> QED
  BY <1>5 DEF Members

\* A thread that is between the fork and the end of the join is a member of the team.
LEMMA Active ==
  ASSUME IInv, NEW t \in Threads, pc[t] \in {"work", "gather", "release", "final"}
  PROVE  /\ ~g_done /\ TypeOK /\ Running
         /\ t \in Members /\ nproc \in Sizes /\ nproc > 1 /\ region > 0
         /\ pc[t] \in {"work", "release", "final"} => k[t] = Past /\ k[t] < JoinStep
         /\ pc[t] = "gather" => k[t] = Past + 1
         /\ pc[t] = "final" => t = 0
         /\ Past \in -1 .. JoinStep /\ k[t] \in 0 .. JoinStep /\ JoinStep \in Nat /\ pc[0] # "reap"
<1>1. TypeOK /\ t \in {0} \cup Workers /\ JoinStep \in Nat
  BY TeamOf, TypesOfBarriers DEF IInv, TypeOK
<1>2. k[t] \in 0 .. JoinStep /\ k[0] \in 0 .. JoinStep
  BY <1>1, TeamOf DEF TypeOK
<1>3. ~g_done /\ Running
  BY <1>1 DEF IInv, Reaping
<1>4. t \in Members
  BY <1>3, <1>1, TeamOf DEF Running, Position
<1>5. nproc > 1
  BY <1>1, <1>3, <1>4, TeamOf DEF Running, Position
<1>6. pc[0] # "serial" /\ region > 0
  <2>1. CASE t = 0
    BY <1>3, <2>1 DEF Running, Position
  <2>2. CASE t # 0 /\ pc[0] = "serial"
    <3>1. Past = JoinStep /\ t \in Members \ {0}
      BY <1>3, <1>4, <2>2 DEF Running, Position, Past
    <3>2. k[t] = JoinStep + 1 \/ pc[t] = "wait_go"
      BY <1>3, <3>1 DEF Running, Position
    <3> QED
      BY <1>1, <1>2, <3>2
  <2> QED
    BY <1>3, <2>1, <2>2 DEF Running, Position
<1> QED
  BY <1>1, <1>2, <1>3, <1>4, <1>5, <1>6, TeamOf DEF Running, Position, Past

\* What a step has to leave alone for a thread to stay as it is in the gather, and
\* in the release.
LEMMA GatherOfStays ==
  ASSUME NEW t \in Members, GatherOf(t), UNCHANGED <<gather, nproc>>,
         pc'[t] = pc[t], pc[t] = "gather" => todo'[t] = todo[t],
         Came(t)' => Came(t),
         \A c \in Range(GatherKids(t, nproc)) : Came(c) => Came(c)'
  PROVE  GatherOf(t)'
<1>1. GatherKids(t, nproc)' = GatherKids(t, nproc)
  BY DEF GatherKids, GatherTree, Levels, Level, HyperLevels, MyLevel
<1> QED
  BY <1>1 DEF GatherOf

LEMMA ReleaseOfStays ==
  ASSUME NEW t \in Members, ReleaseOf(t), UNCHANGED <<release, nproc>>,
         pc'[t] = pc[t], pc[t] = "release" => todo'[t] = todo[t],
         BeforeRelease(t)' => BeforeRelease(t),
         \A c \in Range(ReleaseKids(t, nproc)) : Parked(c) => Parked(c)'
  PROVE  ReleaseOf(t)'
<1>1. ReleaseKids(t, nproc)' = ReleaseKids(t, nproc)
  BY DEF ReleaseKids
<1> QED
  BY <1>1 DEF ReleaseOf

\* A step of one thread, or of the master, leaves the others as they are.
LEMMA OthersStay ==
  ASSUME IInv, ~g_done, nproc > 1, NEW t \in Members,
         UNCHANGED <<gather, release, nproc>>, Past' = Past,
         \A u \in Threads \ {t} : pc'[u] = pc[u] /\ k'[u] = k[u] /\ todo'[u] = todo[u],
         \A c \in Threads : Came(c) => Came(c)',
         \A u \in Members \ {t} : \A c \in Range(ReleaseKids(u, nproc)) : Parked(c) => Parked(c)'
  PROVE  \A u \in Members \ {t} : GatherOf(u)' /\ ReleaseOf(u)'
<1>1. TypeOK /\ Running /\ nproc \in Sizes
  BY TeamOf DEF IInv
<1> TAKE u \in Members \ {t}
<1>2. \A c \in Range(GatherKids(u, nproc)) : c \in Threads
  BY <1>1, TeamTrees, TeamOf DEF Members, TypeOK
<1>3. /\ pc'[u] = pc[u] /\ k'[u] = k[u] /\ todo'[u] = todo[u]
      /\ GatherOf(u) /\ ReleaseOf(u)
  BY <1>1, TeamOf DEF Running, Gathering, Releasing
<1>4. Came(u)' => Came(u)
  BY <1>3 DEF Came
<1>5. BeforeRelease(u)' => BeforeRelease(u)
  BY <1>3 DEF BeforeRelease
<1>6. GatherOf(u)'
  BY <1>2, <1>3, <1>4, GatherOfStays
<1>7. ReleaseOf(u)'
  BY <1>3, <1>5, ReleaseOfStays
<1> QED
  BY <1>6, <1>7

\* The invariant says nothing of the ICVs and of the data.
LEMMA RunningStays ==
  ASSUME UNCHANGED <<config, nproc, region, flags, team_nproc, pc, k, new_state, todo>>, Running
  PROVE  Running'
<1>1. /\ Past' = Past /\ Members' = Members /\ JoinStep' = JoinStep
      /\ \A u : Bt(u)' = Bt(u)
  BY DEF Past, Members, Bt, TypeOf, JoinStep, config
<1>2. /\ \A u : Came(u)' <=> Came(u)
      /\ \A u : BeforeRelease(u)' <=> BeforeRelease(u)
      /\ \A u : Parked(u)' <=> Parked(u)
  BY <1>1 DEF Came, BeforeRelease, Parked, Bt, TypeOf, JoinStep, config, flags
<1>3. \A u, n : GatherKids(u, n)' = GatherKids(u, n) /\ ReleaseKids(u, n)' = ReleaseKids(u, n)
  BY DEF GatherKids, ReleaseKids, config
<1>4. Position' /\ Sized'
  BY <1>1 DEF Running, Position, Sized, flags
<1>5. Arrivals' /\ Gos'
  <2>1. Arrivals'
    BY <1>1, <1>2 DEF Running, Arrivals, flags
  <2>2. Gos'
    BY <1>1 DEF Running, Gos, flags
  <2> QED
    BY <2>1, <2>2
<1>6. Gathering' /\ Releasing'
  BY <1>1, <1>2, <1>3 DEF Running, Gathering, GatherOf, Releasing, ReleaseOf
<1> QED
  BY <1>4, <1>5, <1>6 DEF Running

-----------------------------------------------------------------------------
(* Each action keeps the invariant. *)

LEMMA EnterKeeps ==
  ASSUME IInv, NEW t \in Threads, Enter(t)
  PROVE  IInv'
<1>0. /\ ~g_done /\ TypeOK /\ Running /\ t \in Members /\ nproc \in Sizes /\ nproc > 1 /\ region > 0
      /\ k[t] = Past /\ k[t] < JoinStep /\ k[t] \in 0 .. JoinStep /\ JoinStep \in Nat /\ pc[t] = "work"
  BY Active DEF Enter
<1>1. /\ pc' = [pc EXCEPT ![t] = "gather"] /\ k' = [k EXCEPT ![t] = k[t] + 1]
      /\ new_state' = [new_state EXCEPT ![t] = team_arrived[TypeOf(k[t] + 1)] + BUMP]
      /\ todo' = [todo EXCEPT ![t] = GatherKids(t, nproc)]
      /\ UNCHANGED <<config, nproc, region, flags, team_nproc, icvs, g_done>>
  BY <1>0 DEF Enter, Goto, Running, Sized
<1>2. /\ GatherKids(t, nproc) \in Seq(Workers) /\ IsInjective(GatherKids(t, nproc))
      /\ TypeOf(k[t] + 1) \in Types
  <2>1. <<gather, release>> \in Patterns /\ body \in Bodies
    BY <1>0 DEF TypeOK
  <2>2. k[t] + 1 \in 0 .. JoinStep
    BY <1>0
  <2> QED
    BY <1>0, <2>1, <2>2, TeamTrees, TypesOfBarriers DEF Members
<1>3. TypeOK'
  <2>1. data' \in [Threads -> [Threads -> Nat]]
    BY <1>0 DEF TypeOK, Enter, Share
  <2>2. new_state' \in [Threads -> Nat]
    <3>1. team_arrived[TypeOf(k[t] + 1)] \in Nat
      BY <1>0, <1>2 DEF TypeOK
    <3>2. team_arrived[TypeOf(k[t] + 1)] + BUMP \in Nat
      BY <3>1 DEF BUMP
    <3> QED
      BY <1>0, <1>1, <3>2 DEF TypeOK
  <2>3. k' \in [Threads -> 0 .. JoinStep]
    BY <1>0, <1>1, SMTT(20) DEF TypeOK
  <2> QED
    BY <1>0, <1>1, <1>2, <2>1, <2>2, <2>3 DEF TypeOK, config, flags, icvs, JoinStep
<1>4. /\ Past' = Past /\ Members' = Members
      /\ \A u \in Threads : u # t => pc'[u] = pc[u] /\ k'[u] = k[u] /\ todo'[u] = todo[u]
                                     /\ new_state'[u] = new_state[u]
      /\ pc'[t] = "gather" /\ k'[t] = k[t] + 1 /\ todo'[t] = GatherKids(t, nproc)
      /\ new_state'[t] = team_arrived[TypeOf(k[t] + 1)] + BUMP
  BY <1>0, <1>1 DEF Past, TypeOK, Members
<1>5. /\ \A u \in Threads : u # t => Bt(u)' = Bt(u)
       /\ Bt(t)' = TypeOf(k[t] + 1)
  BY <1>0, <1>1, <1>4 DEF Bt, TypeOf, config, JoinStep
<1>6. \A c \in Threads : Came(c) => Came(c)'
  BY <1>0, <1>4 DEF Came
<1>7. \A c \in Threads : Parked(c) => Parked(c)'
  BY <1>0, <1>1, <1>4, <1>5 DEF Parked, flags
<1>8. ASSUME NEW c \in Members \ {0}, NEW b \in Types
       PROVE  Came(c) /\ Bt(c) = b <=> Came(c)' /\ Bt(c)' = b
  <2>1. CASE c = t
    BY <1>0, <1>4, <2>1 DEF Came
  <2>2. CASE c # t
    BY <1>0, <1>4, <1>5, <2>2, TeamOf DEF Came
  <2> QED
    BY <2>1, <2>2
<1>9. Position'
  BY <1>0, <1>1, <1>4, TeamOf DEF Running, Position
<1>10. Sized'
  <2>1. UNCHANGED <<nproc, team_nproc, team_arrived>> /\ Members \subseteq Threads
    BY <1>0, <1>1, TeamOf DEF flags
  <2>2. \A u \in Members : pc'[u] = "gather" => new_state'[u] = team_arrived[Bt(u)'] + BUMP
    BY <1>0, <1>4, <1>5, <2>1 DEF Running, Sized
  <2> QED
    BY <1>0, <1>4, <2>1, <2>2 DEF Running, Sized
<1>11. Arrivals'
  BY <1>0, <1>1, <1>4, <1>8, TeamOf DEF Running, Arrivals, flags
<1>12. Gos'
  BY <1>0, <1>1, <1>4, <1>5, TeamOf DEF Running, Gos, flags, JoinStep
<1>13. \A u \in Members \ {t} : GatherOf(u)' /\ ReleaseOf(u)'
  <2>1. \A u \in Members \ {t} : \A c \in Range(ReleaseKids(u, nproc)) : c \in Threads
    BY <1>0, TeamTrees, TeamOf DEF Members, TypeOK
  <2>2. UNCHANGED <<gather, release, nproc>>
    BY <1>1 DEF config
  <2> QED
    BY <1>0, <1>4, <1>6, <1>7, <2>1, <2>2, OthersStay
<1>14. Gathering'
  <2>1. GatherOf(t)'
    BY <1>1, <1>2, <1>4 DEF GatherOf, Came, GatherKids, config
  <2> QED
    BY <1>4, <1>13, <2>1 DEF Gathering
<1>15. Releasing'
  <2>1. ReleaseOf(t)'
    BY <1>4 DEF ReleaseOf, BeforeRelease
  <2> QED
    BY <1>4, <1>13, <2>1 DEF Releasing
<1> QED
  BY <1>0, <1>1, <1>3, <1>9, <1>10, <1>11, <1>12, <1>14, <1>15 DEF IInv, Running

\* A child whose arrival a thread sees has come to the barrier being gathered.
LEMMA GatheredCame ==
  ASSUME IInv, NEW t \in Threads, GatherChild(t), NEW c \in Members \ {0}, c = Head(todo[t])
  PROVE  Came(c)
<1>0. /\ TypeOK /\ Running /\ t \in Members /\ k[t] \in 0 .. JoinStep /\ pc[t] = "gather"
      /\ body \in Bodies /\ arrived[Bt(t)][c] = new_state[t]
  BY Active DEF GatherChild, TypeOK
<1>1. new_state[t] = team_arrived[Bt(t)] + BUMP /\ Bt(t) \in Types
  BY <1>0, TypesOfBarriers DEF Running, Sized, Bt
<1>2. arrived[Bt(t)][c] = team_arrived[Bt(t)] + (IF Came(c) /\ Bt(c) = Bt(t) THEN BUMP ELSE 0)
  BY <1>0, <1>1 DEF Running, Arrivals
<1>3. team_arrived[Bt(t)] \in Nat
  BY <1>0, <1>1 DEF TypeOK
<1> QED
  BY <1>0, <1>1, <1>2, <1>3 DEF BUMP

LEMMA GatherChildKeeps ==
  ASSUME IInv, NEW t \in Threads, GatherChild(t)
  PROVE  IInv'
<1>0. /\ ~g_done /\ TypeOK /\ Running /\ t \in Members /\ nproc \in Sizes /\ nproc > 1
      /\ k[t] = Past + 1 /\ k[t] \in 0 .. JoinStep /\ JoinStep \in Nat /\ pc[t] = "gather"
      /\ body \in Bodies /\ <<gather, release>> \in Patterns /\ Past \in -1 .. JoinStep
  BY Active DEF GatherChild, TypeOK
<1>1. /\ todo[t] # << >> /\ todo' = [todo EXCEPT ![t] = Tail(todo[t])]
      /\ UNCHANGED <<config, nproc, region, flags, team_nproc, icvs, pc, k, new_state, g_done>>
  BY DEF GatherChild
<1>2. /\ todo[t] \in Seq(Workers) /\ IsInjective(todo[t]) /\ GatherOf(t)
      /\ Range(todo[t]) \subseteq Range(GatherKids(t, nproc))
  BY <1>0 DEF TypeOK, Running, Gathering, GatherOf
<1>3. /\ Tail(todo[t]) \in Seq(Workers) /\ IsInjective(Tail(todo[t]))
      /\ Head(todo[t]) \in Range(todo[t]) /\ Range(Tail(todo[t])) = Range(todo[t]) \ {Head(todo[t])}
  BY <1>1, <1>2, Popped
<1>4. PICK c \in Members \ {0} : c = Head(todo[t])
  BY <1>0, <1>2, <1>3, TeamTrees, TeamOf DEF Members
<1>5. Came(c)
  BY <1>4, GatheredCame
<1>6. TypeOK'
  <2>1. data' \in [Threads -> [Threads -> Nat]]
    <3>1. c \in Threads
      BY <1>4, <1>0, TeamOf
    <3>2. data[t] \in [Threads -> Nat] /\ data[c] \in [Threads -> Nat]
      BY <1>0, <3>1 DEF TypeOK
    <3>3. [u \in Threads |-> data[t][u] + data[c][u]] \in [Threads -> Nat]
      BY <3>2
    <3> QED
      BY <1>0, <1>4, <3>3 DEF TypeOK, GatherChild
  <2>2. todo' \in [Threads -> Seq(Workers)]
    BY <1>0, <1>1, <1>3 DEF TypeOK
  <2> QED
    BY <1>0, <1>1, <2>1, <2>2 DEF TypeOK, config, flags, icvs, JoinStep
<1>7. Past' = Past /\ Members' = Members /\ todo'[t] = Tail(todo[t])
  BY <1>0, <1>1 DEF Past, Members, TypeOK
<1>8. \A u \in Threads : Bt(u)' = Bt(u)
  BY <1>1 DEF Bt, TypeOf, config, JoinStep
<1>9. /\ \A u \in Threads : Came(u) <=> Came(u)'
      /\ \A u \in Threads : Parked(u) <=> Parked(u)'
  BY <1>1, <1>7, <1>8 DEF Came, Parked, flags
<1>10. Position' /\ Sized' /\ Arrivals' /\ Gos'
  <2>1. Position' /\ Sized' /\ Gos'
    BY <1>0, <1>1, <1>7, <1>8, TeamOf DEF Running, Position, Sized, Gos, flags, JoinStep
  <2>2. Arrivals'
    BY <1>0, <1>1, <1>7, <1>8, <1>9, TeamOf DEF Running, Arrivals, flags
  <2> QED
    BY <2>1, <2>2
<1>11. \A u \in Members \ {t} : GatherOf(u)' /\ ReleaseOf(u)'
  <2>1. \A u \in Members \ {t} : \A d \in Range(ReleaseKids(u, nproc)) : d \in Threads
    BY <1>0, TeamTrees, TeamOf DEF Members, TypeOK
  <2>2. UNCHANGED <<gather, release, nproc>>
    BY <1>1 DEF config
  <2>3. \A u \in Threads \ {t} : pc'[u] = pc[u] /\ k'[u] = k[u] /\ todo'[u] = todo[u]
    BY <1>0, <1>1 DEF TypeOK
  <2> QED
    BY <1>0, <1>7, <1>9, <2>1, <2>2, <2>3, OthersStay
<1>12. GatherOf(t)'
  <2>1. GatherKids(t, nproc)' = GatherKids(t, nproc)
    BY <1>1 DEF GatherKids, config
  <2>2. \A d \in Range(GatherKids(t, nproc)) : Came(d)' \/ d \in Range(todo[t])
    <3>1. \A d \in Range(GatherKids(t, nproc)) : d \in Threads
      BY <1>0, TeamTrees, TeamOf DEF Members, TypeOK
    <3> QED
      BY <1>0, <1>2, <1>9, <3>1 DEF GatherOf
  <2>3. Came(c)'
    BY <1>0, <1>4, <1>5, <1>9, TeamOf
  <2>4. ~Came(t)'
    BY <1>0, <1>1 DEF Came
  <2>5. Range(todo'[t]) = Range(todo[t]) \ {c} /\ IsInjective(todo'[t])
    BY <1>3, <1>4, <1>7
  <2>6. \A d \in Range(GatherKids(t, nproc)) : Came(d)' \/ d \in Range(todo'[t])
    BY <2>2, <2>3, <2>5
  <2> QED
    BY <1>1, <1>2, <2>1, <2>4, <2>5, <2>6 DEF GatherOf
<1>13. ReleaseOf(t)'
  BY <1>0, <1>1 DEF ReleaseOf, BeforeRelease
<1> QED
  BY <1>0, <1>1, <1>6, <1>7, <1>10, <1>11, <1>12, <1>13 DEF IInv, Running, Gathering, Releasing

LEMMA ReportKeeps ==
  ASSUME IInv, NEW t \in Threads, Report(t)
  PROVE  IInv'
<1>0. /\ ~g_done /\ TypeOK /\ Running /\ t \in Members \ {0} /\ nproc \in Sizes /\ nproc > 1
      /\ k[t] = Past + 1 /\ k[t] \in 0 .. JoinStep /\ JoinStep \in Nat /\ pc[t] = "gather"
      /\ body \in Bodies /\ <<gather, release>> \in Patterns /\ Past \in -1 .. JoinStep
  BY Active DEF Report, TypeOK
<1>1. /\ todo[t] = << >>
      /\ arrived' = [arrived EXCEPT ![Bt(t)][t] = @ + BUMP]
      /\ new_state' = [new_state EXCEPT ![t] = 0]
      /\ pc' = [pc EXCEPT ![t] = "wait_go"]
      /\ UNCHANGED <<config, nproc, region, go, team_arrived, team_nproc, icvs, data, k, todo, g_done>>
  BY DEF Report, Goto
<1>2. Bt(t) \in Types /\ \A u \in Threads : Bt(u)' = Bt(u)
  BY <1>0, <1>1, TypesOfBarriers DEF Bt, TypeOf, config, JoinStep
<1>3. TypeOK'
  <2>1. arrived' \in [Types -> [Threads -> Nat]]
    BY <1>0, <1>1, <1>2 DEF TypeOK, BUMP
  <2> QED
    BY <1>0, <1>1, <2>1 DEF TypeOK, config, icvs, JoinStep
<1>4. /\ Past' = Past /\ Members' = Members /\ pc'[t] = "wait_go" /\ k' = k /\ todo' = todo
      /\ \A u \in Threads \ {t} : pc'[u] = pc[u]
  BY <1>0, <1>1 DEF Past, Members, TypeOK
<1>5. Came(t)' /\ ~Came(t) /\ \A u \in Threads \ {t} : Came(u) <=> Came(u)'
  BY <1>0, <1>4 DEF Came
<1>6. \A u \in Threads : Parked(u) <=> Parked(u)'
  BY <1>0, <1>1, <1>2, <1>4 DEF Parked
<1>7. Position' /\ Sized' /\ Gos'
  BY <1>0, <1>1, <1>2, <1>4, TeamOf DEF Running, Position, Sized, Gos, JoinStep
<1>8. Arrivals'
  <2> SUFFICES ASSUME NEW b \in Types, NEW u \in Members \ {0}
               PROVE  arrived'[b][u] = team_arrived[b] + (IF Came(u)' /\ Bt(u)' = b THEN BUMP ELSE 0)
    BY <1>1, <1>4 DEF Arrivals
  <2>1. arrived[b][u] = team_arrived[b] + (IF Came(u) /\ Bt(u) = b THEN BUMP ELSE 0)
    BY <1>0 DEF Running, Arrivals
  <2>2. u \in Threads /\ team_arrived[b] \in Nat /\ arrived \in [Types -> [Threads -> Nat]]
    BY <1>0, TeamOf DEF TypeOK
  <2>3. CASE u = t /\ b = Bt(t)
    BY <1>1, <1>2, <1>5, <2>1, <2>2, <2>3 DEF BUMP
  <2>4. CASE u # t \/ b # Bt(t)
    <3>1. arrived'[b][u] = arrived[b][u]
      BY <1>1, <1>2, <2>2, <2>4
    <3>2. (Came(u)' /\ Bt(u)' = b) <=> (Came(u) /\ Bt(u) = b)
      BY <1>2, <1>5, <2>2, <2>4
    <3> QED
      BY <2>1, <3>1, <3>2
  <2> QED
    BY <2>3, <2>4
<1>9. \A u \in Members \ {t} : GatherOf(u)' /\ ReleaseOf(u)'
  <2>1. \A u \in Members \ {t} : \A d \in Range(ReleaseKids(u, nproc)) : d \in Threads
    BY <1>0, TeamTrees, TeamOf DEF Members, TypeOK
  <2>2. UNCHANGED <<gather, release, nproc>>
    BY <1>1 DEF config
  <2>3. \A u \in Threads : Came(u) => Came(u)'
    BY <1>5
  <2> QED
    BY <1>0, <1>4, <1>6, <2>1, <2>2, <2>3, OthersStay
<1>10. GatherOf(t)'
  <2>1. GatherKids(t, nproc)' = GatherKids(t, nproc)
    BY <1>1 DEF GatherKids, config
  <2>2. \A d \in Range(GatherKids(t, nproc)) : d \in Threads
    BY <1>0, TeamTrees, TeamOf DEF Members, TypeOK
  <2>3. Range(todo[t]) = {}
    BY <1>1 DEF Range
  <2>4. \A d \in Range(GatherKids(t, nproc)) : Came(d)
    BY <1>0, <2>3 DEF Running, Gathering, GatherOf
  <2>5. \A d \in Range(GatherKids(t, nproc)) : Came(d)'
    BY <1>5, <2>2, <2>4
  <2> QED
    BY <1>4, <2>1, <2>5 DEF GatherOf
<1>11. ReleaseOf(t)'
  BY <1>0, <1>4 DEF ReleaseOf, BeforeRelease
<1> QED
  BY <1>0, <1>1, <1>3, <1>4, <1>7, <1>8, <1>9, <1>10, <1>11 DEF IInv, Running, Gathering, Releasing

LEMMA GatheredKeeps ==
  ASSUME IInv, Gathered
  PROVE  IInv'
<1>0. /\ ~g_done /\ TypeOK /\ Running /\ 0 \in Members /\ nproc \in Sizes /\ nproc > 1 /\ region > 0
      /\ k[0] = Past + 1 /\ k[0] \in 0 .. JoinStep /\ JoinStep \in Nat /\ pc[0] = "gather"
      /\ body \in Bodies /\ <<gather, release>> \in Patterns /\ Past \in -1 .. JoinStep
  <2>1. 0 \in Threads
    BY TeamOf DEF IInv
  <2> QED
    BY <2>1, Active DEF Gathered, TypeOK
<1>1. /\ todo[0] = << >>
      /\ team_arrived' = [team_arrived EXCEPT ![Bt(0)] = new_state[0]]
      /\ new_state' = [new_state EXCEPT ![0] = 0]
      /\ UNCHANGED <<config, nproc, region, arrived, go, team_nproc, icvs, data, k, g_done>>
      /\ \/ /\ k[0] = JoinStep /\ pc' = [pc EXCEPT ![0] = "serial"] /\ UNCHANGED todo
         \/ /\ k[0] # JoinStep /\ IsSplit(k[0])
            /\ pc' = [pc EXCEPT ![0] = "final"] /\ UNCHANGED todo
         \/ /\ k[0] # JoinStep /\ pc' = [pc EXCEPT ![0] = "release"]
            /\ todo' = [todo EXCEPT ![0] = ReleaseKids(0, nproc)]
  BY <1>0 DEF Gathered, Goto, StartRelease, Running, Sized
<1>2. /\ Bt(0) \in Types /\ \A u \in Threads : Bt(u)' = Bt(u)
      /\ new_state[0] = team_arrived[Bt(0)] + BUMP /\ new_state[0] \in Nat
  <2>1. Bt(0) \in Types /\ new_state[0] = team_arrived[Bt(0)] + BUMP
    BY <1>0, TypesOfBarriers DEF Bt, Running, Sized
  <2>2. \A u \in Threads : Bt(u)' = Bt(u)
    BY <1>1 DEF Bt, TypeOf, config, JoinStep
  <2> QED
    BY <1>0, <2>1, <2>2, TeamOf DEF TypeOK
<1>3. \A u \in Members \ {0} : Came(u)
  BY <1>0, <1>1, EverybodyCame
<1>4. /\ \A u \in Members \ {0} : pc[u] = "wait_go" /\ k[u] = Past + 1 /\ Bt(u) = Bt(0)
      /\ \A b \in Types, u \in Workers : go[b][u] = 0
  BY <1>0, <1>3 DEF Came, Running, Gos, Bt
<1>5. /\ ReleaseKids(0, nproc) \in Seq(Workers) /\ IsInjective(ReleaseKids(0, nproc))
      /\ \A u \in Members : Range(ReleaseKids(u, nproc)) \subseteq Members \ {0}
      /\ ReleaseKids(0, nproc)' = ReleaseKids(0, nproc)
  BY <1>0, <1>1, TeamTrees, TeamOf DEF Members, ReleaseKids, config
<1>6. TypeOK'
  <2>1. team_arrived' \in [Types -> Nat] /\ new_state' \in [Threads -> Nat]
    BY <1>0, <1>1, <1>2 DEF TypeOK
  <2>2. todo' \in [Threads -> Seq(Workers)]
    BY <1>0, <1>1, <1>5 DEF TypeOK
  <2>3. pc' \in [Threads -> {"serial", "work", "gather", "final", "wait_go", "reset_go",
                             "release", "reap", "done"}]
    BY <1>0, <1>1 DEF TypeOK
  <2> QED
    BY <1>0, <1>1, <2>1, <2>2, <2>3 DEF TypeOK, config, icvs, JoinStep
<1>7. /\ Past' = Past + 1 /\ Members' = Members /\ k' = k
      /\ \/ pc'[0] = "serial" /\ k[0] = JoinStep
         \/ pc'[0] \in {"final", "release"} /\ k[0] < JoinStep
      /\ \A u \in Threads \ {0} : pc'[u] = pc[u] /\ todo'[u] = todo[u]
  <2>1. 0 \in Threads /\ DOMAIN pc = Threads /\ DOMAIN todo = Threads
    BY <1>0, TeamOf DEF TypeOK
  <2>2. \/ pc'[0] = "serial" /\ k[0] = JoinStep
        \/ pc'[0] \in {"final", "release"} /\ k[0] < JoinStep
    BY <1>0, <1>1, <2>1
  <2>3. \A u \in Threads \ {0} : pc'[u] = pc[u] /\ todo'[u] = todo[u]
    BY <1>0, <1>1, <2>1 DEF TypeOK
  <2>4. Past' = k[0]
    BY <1>1, <2>2 DEF Past
  <2>5. Past' = Past + 1
    BY <1>0, <2>4
  <2>6. Members' = Members /\ k' = k
    BY <1>1 DEF Members
  <2> QED
    BY <2>2, <2>3, <2>5, <2>6
<1>8. \A u \in Members \ {0} : Parked(u)' /\ ~Came(u)'
  <2> TAKE u \in Members \ {0}
  <2>1. u \in Threads \ {0} /\ u \in Workers
    BY <1>0, TeamOf
  <2>2. pc'[u] = "wait_go" /\ k'[u] = Past' /\ k'[u] # Past' + 1
    BY <1>0, <1>4, <1>7, <2>1
  <2>3. go'[Bt(u)'][u] = 0
    BY <1>1, <1>2, <1>4, <2>1
  <2> QED
    BY <2>2, <2>3 DEF Parked, Came
<1>9. Position'
  BY <1>0, <1>1, <1>4, <1>7, TeamOf DEF Running, Position, JoinStep
<1>10. Sized'
  BY <1>0, <1>1, <1>4, <1>7, TeamOf DEF Running, Sized
<1>11. Gos'
  BY <1>1, <1>4 DEF Gos
<1>12. Arrivals'
  <2> SUFFICES ASSUME NEW b \in Types, NEW u \in Members \ {0}
               PROVE  arrived'[b][u] = team_arrived'[b] + (IF Came(u)' /\ Bt(u)' = b THEN BUMP ELSE 0)
    BY <1>7 DEF Arrivals
  <2>1. arrived[b][u] = team_arrived[b] + (IF Bt(0) = b THEN BUMP ELSE 0)
    BY <1>0, <1>3, <1>4 DEF Running, Arrivals
  <2>2. team_arrived[b] \in Nat /\ team_arrived'[b] = IF b = Bt(0) THEN team_arrived[b] + BUMP ELSE team_arrived[b]
    BY <1>0, <1>1, <1>2 DEF TypeOK
  <2> QED
    BY <1>1, <1>8, <2>1, <2>2 DEF BUMP
<1>13. \A u \in Members : GatherOf(u)'
  <2>1. ~Came(0)' /\ \A u \in Members : pc'[u] # "gather"
    BY <1>4, <1>7, TeamOf, <1>0 DEF Came
  <2> QED
    BY <1>8, <2>1 DEF GatherOf
<1>14. \A u \in Members : ReleaseOf(u)'
  <2> TAKE u \in Members
  <2>1. \A c \in Range(ReleaseKids(u, nproc)) : Parked(c)'
    BY <1>5, <1>8
  <2>2. ReleaseKids(u, nproc)' = ReleaseKids(u, nproc)
    BY <1>1 DEF ReleaseKids, config
  <2>3. pc'[u] = "release" => todo'[u] = ReleaseKids(0, nproc) /\ u = 0
    BY <1>0, <1>1, <1>4, <1>7, TeamOf DEF TypeOK
  <2> QED
    BY <1>5, <2>1, <2>2, <2>3 DEF ReleaseOf
<1> QED
  BY <1>0, <1>1, <1>6, <1>7, <1>9, <1>10, <1>11, <1>12, <1>13, <1>14 DEF IInv, Running, Gathering, Releasing

LEMMA EndSplitKeeps ==
  ASSUME IInv, EndSplit
  PROVE  IInv'
<1>0. /\ ~g_done /\ TypeOK /\ Running /\ 0 \in Members /\ nproc \in Sizes /\ nproc > 1 /\ region > 0
      /\ k[0] = Past /\ k[0] < JoinStep /\ JoinStep \in Nat /\ pc[0] = "final"
      /\ body \in Bodies /\ <<gather, release>> \in Patterns /\ Past \in -1 .. JoinStep
  <2>1. 0 \in Threads
    BY TeamOf DEF IInv
  <2> QED
    BY <2>1, Active DEF EndSplit, TypeOK
<1>1. /\ pc' = [pc EXCEPT ![0] = "release"]
      /\ todo' = [todo EXCEPT ![0] = ReleaseKids(0, nproc)]
      /\ UNCHANGED <<config, nproc, region, flags, team_nproc, icvs, data, k, new_state, g_done>>
  BY <1>0 DEF EndSplit, Goto, StartRelease, Running, Sized
<1>2. /\ ReleaseKids(0, nproc) \in Seq(Workers) /\ IsInjective(ReleaseKids(0, nproc))
      /\ \A u \in Members : Range(ReleaseKids(u, nproc)) \subseteq Members \ {0}
      /\ ReleaseKids(0, nproc)' = ReleaseKids(0, nproc)
  BY <1>0, <1>1, TeamTrees, TeamOf DEF Members, ReleaseKids, config
<1>3. TypeOK'
  <2>1. todo' \in [Threads -> Seq(Workers)]
    BY <1>0, <1>1, <1>2 DEF TypeOK
  <2>2. pc' \in [Threads -> {"serial", "work", "gather", "final", "wait_go", "reset_go",
                             "release", "reap", "done"}]
    BY <1>0, <1>1 DEF TypeOK
  <2> QED
    BY <1>0, <1>1, <2>1, <2>2 DEF TypeOK, config, flags, icvs, JoinStep
<1>4. /\ Past' = Past /\ Members' = Members /\ k' = k /\ pc'[0] = "release"
      /\ \A u \in Threads \ {0} : pc'[u] = pc[u] /\ todo'[u] = todo[u]
  BY <1>0, <1>1, TeamOf DEF Past, Members, TypeOK
<1>5. \A u \in Threads : Bt(u)' = Bt(u)
  BY <1>1 DEF Bt, TypeOf, config, JoinStep
<1>6. /\ \A u \in Threads : Came(u) <=> Came(u)'
      /\ \A u \in Threads : Parked(u) <=> Parked(u)'
  BY <1>0, <1>1, <1>4, <1>5 DEF Came, Parked, flags
<1>7. Position' /\ Sized' /\ Gos'
  BY <1>0, <1>1, <1>4, <1>5, TeamOf DEF Running, Position, Sized, Gos, JoinStep, flags
<1>8. Arrivals'
  BY <1>0, <1>1, <1>4, <1>5, <1>6, TeamOf DEF Running, Arrivals, flags
<1>9. \A u \in Members \ {0} : GatherOf(u)' /\ ReleaseOf(u)'
  <2>1. \A u \in Members \ {0} : \A d \in Range(ReleaseKids(u, nproc)) : d \in Threads
    BY <1>0, TeamTrees, TeamOf DEF Members, TypeOK
  <2>2. UNCHANGED <<gather, release, nproc>>
    BY <1>1 DEF config
  <2> QED
    BY <1>0, <1>1, <1>4, <1>6, <2>1, <2>2, OthersStay
<1>10. GatherOf(0)'
  BY <1>4 DEF GatherOf
<1>11. ReleaseOf(0)'
  <2>1. \A c \in Range(ReleaseKids(0, nproc)) : Parked(c) /\ c \in Threads
    BY <1>0, <1>2, TeamOf DEF Running, Releasing, ReleaseOf, BeforeRelease
  <2>2. \A c \in Range(ReleaseKids(0, nproc)) : Parked(c)'
    BY <1>6, <2>1
  <2>3. todo'[0] = ReleaseKids(0, nproc)
    BY <1>0, <1>1, TeamOf DEF TypeOK
  <2> QED
    BY <1>2, <1>4, <2>2, <2>3 DEF ReleaseOf
<1> QED
  BY <1>0, <1>1, <1>3, <1>4, <1>7, <1>8, <1>9, <1>10, <1>11 DEF IInv, Running, Gathering, Releasing

\* A worker that is let go, or has been, in a region.
IsLetGo(t) == \/ pc[t] = "reset_go"
              \/ pc[t] = "wait_go" /\ go[Bt(t)][t] = BUMP

LEMMA LetGo ==
  ASSUME IInv, ~g_done, NEW t \in Threads, IsLetGo(t)
  PROVE  /\ TypeOK /\ Running /\ t \in Members \ {0} /\ nproc \in Sizes /\ nproc > 1
         /\ k[t] = Past /\ k[t] < JoinStep /\ k[t] \in 0 .. JoinStep /\ JoinStep \in Nat
         /\ body \in Bodies /\ <<gather, release>> \in Patterns
         /\ Bt(t) \in Types /\ BeforeRelease(t)
<1>1. TypeOK /\ Running /\ t \in Workers /\ JoinStep \in Nat /\ k[t] \in 0 .. JoinStep
  BY TeamOf, TypesOfBarriers DEF IInv, TypeOK, Running, Position, IsLetGo
<1>2. Bt(t) \in Types
  BY <1>1, TypesOfBarriers DEF Bt, TypeOK
<1>3. t \in Members \ {0} /\ k[t] = Past /\ k[t] < JoinStep
  <2>1. CASE pc[t] = "reset_go"
    <3>1. t \in Members \ {0}
      BY <1>1, <2>1, TeamOf DEF Running, Position
    <3> QED
      BY <1>1, <2>1, <3>1 DEF Running, Position
  <2>2. CASE pc[t] = "wait_go" /\ go[Bt(t)][t] = BUMP
    BY <1>1, <1>2, <2>2, TeamOf DEF Running, Gos, BUMP
  <2> QED
    BY <2>1, <2>2 DEF IsLetGo
<1>4. nproc > 1 /\ nproc \in Sizes
  BY <1>1, <1>3, TeamOf
<1>5. BeforeRelease(t)
  BY <1>3 DEF BeforeRelease, IsLetGo
<1> QED
  BY <1>1, <1>2, <1>3, <1>4, <1>5 DEF TypeOK

LEMMA SeeGoKeeps ==
  ASSUME IInv, ~g_done, NEW t \in Threads, SeeGo(t)
  PROVE  IInv'
<1>0. /\ TypeOK /\ Running /\ t \in Members \ {0} /\ nproc \in Sizes /\ nproc > 1
      /\ k[t] = Past /\ k[t] < JoinStep /\ k[t] \in 0 .. JoinStep /\ JoinStep \in Nat
      /\ body \in Bodies /\ <<gather, release>> \in Patterns
      /\ Bt(t) \in Types /\ BeforeRelease(t)
  <2>1. IsLetGo(t)
    BY DEF SeeGo, IsLetGo
  <2> QED
    BY <2>1, LetGo
<1>1. /\ pc[t] = "wait_go" /\ go[Bt(t)][t] = BUMP
      /\ pc' = [pc EXCEPT ![t] = "reset_go"]
      /\ UNCHANGED <<config, nproc, region, flags, team_nproc, icvs, data, k, new_state, todo, g_done>>
  BY DEF SeeGo, Goto
<1>2. \A u \in Threads : Bt(u)' = Bt(u)
  BY <1>1 DEF Bt, TypeOf, config, JoinStep
<1>3. TypeOK'
  BY <1>0, <1>1 DEF TypeOK, config, flags, icvs, JoinStep
<1>4. /\ Past' = Past /\ Members' = Members /\ pc'[t] = "reset_go" /\ k' = k /\ todo' = todo
      /\ \A u \in Threads \ {t} : pc'[u] = pc[u]
  BY <1>0, <1>1, TeamOf DEF Past, Members, TypeOK
<1>5. \A u \in Threads : Came(u) <=> Came(u)'
  BY <1>0, <1>4 DEF Came
<1>6. \A u \in Threads : Parked(u) <=> Parked(u)'
  BY <1>1, <1>2, <1>4 DEF Parked, flags, BUMP
<1>7. Position' /\ Sized' /\ Gos'
  BY <1>0, <1>1, <1>2, <1>4, TeamOf DEF Running, Position, Sized, Gos, JoinStep, flags
<1>8. Arrivals'
  BY <1>0, <1>1, <1>2, <1>4, <1>5, TeamOf DEF Running, Arrivals, flags
<1>9. UNCHANGED <<gather, release, nproc>> /\ \A u \in Members : Range(ReleaseKids(u, nproc)) \subseteq Threads
  BY <1>0, <1>1, TeamTrees, TeamOf DEF Members, config
<1>10. \A u \in Members \ {t} : GatherOf(u)' /\ ReleaseOf(u)'
  BY <1>0, <1>4, <1>5, <1>6, <1>9, OthersStay
<1>11. GatherOf(t)'
  BY <1>0, <1>4 DEF GatherOf, Came
<1>12. ReleaseOf(t)'
  <2>1. \A c \in Range(ReleaseKids(t, nproc)) : Parked(c)
    BY <1>0 DEF Running, Releasing, ReleaseOf
  <2>2. \A c \in Range(ReleaseKids(t, nproc)) : Parked(c)'
    BY <1>0, <1>6, <1>9, <2>1
  <2>3. ReleaseKids(t, nproc)' = ReleaseKids(t, nproc)
    BY <1>9 DEF ReleaseKids
  <2> QED
    BY <1>4, <2>2, <2>3 DEF ReleaseOf
<1> QED
  BY <1>0, <1>1, <1>3, <1>4, <1>7, <1>8, <1>10, <1>11, <1>12 DEF IInv, Running, Gathering, Releasing

LEMMA ResetGoKeeps ==
  ASSUME IInv, ~g_done, NEW t \in Threads, ResetGo(t)
  PROVE  IInv'
<1>0. /\ TypeOK /\ Running /\ t \in Members \ {0} /\ nproc \in Sizes /\ nproc > 1
      /\ k[t] = Past /\ k[t] < JoinStep /\ k[t] \in 0 .. JoinStep /\ JoinStep \in Nat
      /\ body \in Bodies /\ <<gather, release>> \in Patterns
      /\ Bt(t) \in Types /\ BeforeRelease(t)
  <2>1. IsLetGo(t)
    BY DEF ResetGo, IsLetGo
  <2> QED
    BY <2>1, LetGo
<1>1. /\ pc[t] = "reset_go"
      /\ go' = [go EXCEPT ![Bt(t)][t] = 0]
      /\ pc' = [pc EXCEPT ![t] = "release"]
      /\ PullIcvs(t)
      /\ todo' = [todo EXCEPT ![t] = ReleaseKids(t, nproc)]
      /\ UNCHANGED <<config, nproc, region, arrived, team_arrived, team_nproc, data, k, new_state, g_done>>
  BY <1>0 DEF ResetGo, Goto, Running, Sized
<1>2. \A u \in Threads : Bt(u)' = Bt(u)
  BY <1>1 DEF Bt, TypeOf, config, JoinStep
<1>3. /\ ReleaseKids(t, nproc) \in Seq(Workers) /\ IsInjective(ReleaseKids(t, nproc))
      /\ \A u \in Members : Range(ReleaseKids(u, nproc)) \subseteq Threads
      /\ ReleaseKids(t, nproc)' = ReleaseKids(t, nproc)
      /\ UNCHANGED <<gather, release, nproc>>
  BY <1>0, <1>1, TeamTrees, TeamOf DEF Members, ReleaseKids, config
<1>4. TypeOK'
  <2>1. todo' \in [Threads -> Seq(Workers)] /\ go' \in [Types -> [Threads -> {0, BUMP}]]
    BY <1>0, <1>1, <1>3 DEF TypeOK
  <2>2. icv' \in [Threads -> UserIcv .. MaxRegions] /\ fixed' \in [Threads -> 0 .. MaxRegions]
    <3>1. release = "hierarchical" => ParentInHierarchy(t) \in Threads
      BY <1>0, TeamTrees, TeamOf DEF Members
    <3>2. release = "hierarchical" => fixed[ParentInHierarchy(t)] \in 0 .. MaxRegions
      BY <1>0, <3>1 DEF TypeOK
    <3>3. fixed[ParentInHierarchy(t)] \in 0 .. MaxRegions
             => fixed[ParentInHierarchy(t)] \in UserIcv .. MaxRegions
      BY DEF UserIcv
    <3> QED
      BY <1>0, <1>1, <3>2, <3>3 DEF PullIcvs, icvs, TypeOK
  <2>3. pc' \in [Threads -> {"serial", "work", "gather", "final", "wait_go", "reset_go",
                             "release", "reap", "done"}]
    BY <1>0, <1>1 DEF TypeOK
  <2> QED
    BY <1>0, <1>1, <2>1, <2>2, <2>3 DEF TypeOK, config, JoinStep
<1>5. /\ Past' = Past /\ Members' = Members /\ pc'[t] = "release" /\ k' = k
      /\ todo'[t] = ReleaseKids(t, nproc)
      /\ \A u \in Threads \ {t} : pc'[u] = pc[u] /\ todo'[u] = todo[u]
  BY <1>0, <1>1, TeamOf DEF Past, Members, TypeOK
<1>6. \A u \in Threads : Came(u) <=> Came(u)'
  BY <1>0, <1>1, <1>5 DEF Came
<1>7. \A u \in Threads : Parked(u) => Parked(u)'
  <2> TAKE u \in Threads
  <2>1. CASE u = t
    BY <1>1, <2>1 DEF Parked
  <2>2. CASE u # t
    <3>1. Bt(u) \in Types
      BY <1>0, TypesOfBarriers DEF Bt, TypeOK
    <3>2. go'[Bt(u)][u] = go[Bt(u)][u]
      BY <1>0, <1>1, <2>2, <3>1 DEF TypeOK
    <3> QED
      BY <1>1, <1>2, <1>5, <2>2, <3>2 DEF Parked
  <2> QED
    BY <2>1, <2>2
<1>8. Position' /\ Sized'
  BY <1>0, <1>1, <1>2, <1>5, TeamOf DEF Running, Position, Sized, JoinStep
<1>9. Gos'
  <2> SUFFICES ASSUME NEW b \in Types, NEW u \in Workers, go'[b][u] # 0
               PROVE  /\ u \in Members /\ k[u] = Past /\ k[u] < JoinStep
                      /\ Bt(u) = b /\ pc'[u] \in {"wait_go", "reset_go"}
    BY <1>1, <1>2, <1>5, TeamOf, <1>0 DEF Gos, JoinStep
  <2>1. go[b][u] # 0 /\ (u # t \/ b # Bt(t))
    BY <1>0, <1>1, TeamOf DEF TypeOK
  <2> QED
    BY <1>0, <1>5, <2>1, TeamOf DEF Running, Gos
<1>10. Arrivals'
  BY <1>0, <1>1, <1>2, <1>5, <1>6, TeamOf DEF Running, Arrivals
<1>11. \A u \in Members \ {t} : GatherOf(u)' /\ ReleaseOf(u)'
  BY <1>0, <1>3, <1>5, <1>6, <1>7, OthersStay
<1>12. GatherOf(t)'
  BY <1>0, <1>5 DEF GatherOf, Came
<1>13. ReleaseOf(t)'
  <2>1. \A c \in Range(ReleaseKids(t, nproc)) : Parked(c)
    BY <1>0 DEF Running, Releasing, ReleaseOf
  <2>2. \A c \in Range(ReleaseKids(t, nproc)) : Parked(c)'
    BY <1>0, <1>3, <1>7, <2>1
  <2> QED
    BY <1>3, <1>5, <2>2 DEF ReleaseOf
<1> QED
  BY <1>0, <1>1, <1>4, <1>5, <1>8, <1>9, <1>10, <1>11, <1>12, <1>13 DEF IInv, Running, Gathering, Releasing

LEMMA ReleaseChildKeeps ==
  ASSUME IInv, NEW t \in Threads, ReleaseChild(t)
  PROVE  IInv'
<1>0. /\ ~g_done /\ TypeOK /\ Running /\ t \in Members /\ nproc \in Sizes /\ nproc > 1
      /\ k[t] = Past /\ k[t] < JoinStep /\ k[t] \in 0 .. JoinStep /\ JoinStep \in Nat /\ pc[t] = "release"
      /\ body \in Bodies /\ <<gather, release>> \in Patterns
  BY Active DEF ReleaseChild, TypeOK
<1>1. /\ todo[t] # << >> /\ todo' = [todo EXCEPT ![t] = Tail(todo[t])]
      /\ PushIcvs(t, Head(todo[t]))
      /\ go' = [go EXCEPT ![Bt(t)][Head(todo[t])] = @ + BUMP]
      /\ UNCHANGED <<config, nproc, region, arrived, team_arrived, team_nproc, data, pc, k,
                     new_state, g_done>>
  BY DEF ReleaseChild
<1>2. /\ todo[t] \in Seq(Workers) /\ IsInjective(todo[t]) /\ ReleaseOf(t)
      /\ Range(todo[t]) \subseteq Range(ReleaseKids(t, nproc))
      /\ \A c \in Range(todo[t]) : Parked(c)
  BY <1>0 DEF TypeOK, Running, Releasing, ReleaseOf
<1>3. /\ Tail(todo[t]) \in Seq(Workers) /\ IsInjective(Tail(todo[t]))
      /\ Head(todo[t]) \in Range(todo[t]) /\ Range(Tail(todo[t])) = Range(todo[t]) \ {Head(todo[t])}
  BY <1>1, <1>2, Popped
<1>4. PICK c \in Members \ {0} : c = Head(todo[t])
  BY <1>0, <1>2, <1>3, TeamTrees, TeamOf DEF Members
<1>5. /\ c \in Workers /\ c \in Threads /\ Bt(t) \in Types
      /\ Parked(c) /\ Bt(c) = Bt(t) /\ go[Bt(t)][c] = 0 /\ pc[c] = "wait_go" /\ k[c] = Past
      /\ c \in Range(ReleaseKids(t, nproc))
  <2>1. c \in Workers /\ c \in Threads /\ Parked(c) /\ c \in Range(ReleaseKids(t, nproc))
    BY <1>0, <1>2, <1>3, <1>4, TeamOf
  <2>2. Bt(t) \in Types
    BY <1>0, TypesOfBarriers DEF Bt
  <2> QED
    BY <1>0, <2>1, <2>2 DEF Parked, Bt
<1>6. go' = [go EXCEPT ![Bt(t)][c] = BUMP]
  BY <1>0, <1>1, <1>4, <1>5 DEF TypeOK, BUMP
<1>7. TypeOK'
  <2>1. todo' \in [Threads -> Seq(Workers)]
    BY <1>0, <1>1, <1>3 DEF TypeOK
  <2>2. go' \in [Types -> [Threads -> {0, BUMP}]]
    BY <1>0, <1>5, <1>6 DEF TypeOK
  <2>3. icv' \in [Threads -> UserIcv .. MaxRegions] /\ fixed' \in [Threads -> 0 .. MaxRegions]
    <3>1. /\ icv \in [Threads -> UserIcv .. MaxRegions] /\ fixed \in [Threads -> 0 .. MaxRegions]
          /\ icv[0] \in UserIcv .. MaxRegions /\ fixed[t] \in 0 .. MaxRegions
      BY <1>0, TeamOf DEF TypeOK
    <3>2. \/ icv' = [icv EXCEPT ![c] = icv[0]] /\ UNCHANGED fixed
          \/ fixed' = [fixed EXCEPT ![c] = fixed[t]] /\ UNCHANGED icv
          \/ UNCHANGED <<icv, fixed>>
      BY <1>1, <1>4 DEF PushIcvs, icvs
    <3> QED
      BY <3>1, <3>2
  <2> QED
    BY <1>0, <1>1, <2>1, <2>2, <2>3 DEF TypeOK, config, JoinStep
<1>8. /\ Past' = Past /\ Members' = Members /\ k' = k /\ pc' = pc
      /\ todo'[t] = Tail(todo[t])
      /\ \A u \in Threads \ {t} : todo'[u] = todo[u]
      /\ UNCHANGED <<gather, release, nproc>>
  BY <1>0, <1>1 DEF Past, Members, TypeOK, config
<1>9. \A u \in Threads : Bt(u)' = Bt(u)
  BY <1>1 DEF Bt, TypeOf, config, JoinStep
<1>10. \A u \in Threads : Came(u) <=> Came(u)'
  BY <1>8 DEF Came
<1>11. \A u \in Threads \ {c} : Parked(u) => Parked(u)'
  <2> TAKE u \in Threads \ {c}
  <2>1. Bt(u) \in Types
    BY <1>0, TypesOfBarriers DEF Bt, TypeOK
  <2>2. go'[Bt(u)][u] = go[Bt(u)][u]
    BY <1>0, <1>5, <1>6, <2>1 DEF TypeOK
  <2> QED
    BY <1>8, <1>9, <2>2 DEF Parked
<1>12. Position' /\ Sized'
  BY <1>0, <1>1, <1>8, <1>9, TeamOf DEF Running, Position, Sized, JoinStep
<1>13. Gos'
  <2> SUFFICES ASSUME NEW b \in Types, NEW u \in Workers, go'[b][u] # 0
               PROVE  /\ u \in Members /\ k[u] = Past /\ k[u] < JoinStep
                      /\ Bt(u) = b /\ pc[u] \in {"wait_go", "reset_go"}
    BY <1>0, <1>1, <1>8, <1>9, TeamOf DEF Gos, JoinStep
  <2>1. CASE u = c /\ b = Bt(t)
    BY <1>0, <1>4, <1>5, <2>1
  <2>2. CASE u # c \/ b # Bt(t)
    <3>1. go'[b][u] = go[b][u]
      BY <1>0, <1>5, <1>6, <2>2, TeamOf DEF TypeOK
    <3> QED
      BY <1>0, <3>1 DEF Running, Gos
  <2> QED
    BY <2>1, <2>2
<1>14. Arrivals'
  BY <1>0, <1>1, <1>8, <1>9, <1>10, TeamOf DEF Running, Arrivals
<1>15. \A u \in Members \ {t} : GatherOf(u)' /\ ReleaseOf(u)'
  <2>1. \A u \in Members \ {t} : c \notin Range(ReleaseKids(u, nproc))
    BY <1>0, <1>5, TeamTrees DEF Members
  <2>2. \A u \in Members : Range(ReleaseKids(u, nproc)) \subseteq Threads
    BY <1>0, TeamTrees, TeamOf DEF Members
  <2>3. \A u \in Members \ {t} : \A d \in Range(ReleaseKids(u, nproc)) : Parked(d) => Parked(d)'
    BY <1>11, <2>1, <2>2
  <2>4. \A u \in Threads \ {t} : pc'[u] = pc[u] /\ k'[u] = k[u] /\ todo'[u] = todo[u]
    BY <1>8
  <2> QED
    BY <1>0, <1>8, <1>10, <2>3, <2>4, OthersStay
<1>16. GatherOf(t)'
  BY <1>0, <1>8 DEF GatherOf, Came
<1>17. ReleaseOf(t)'
  <2>1. ReleaseKids(t, nproc)' = ReleaseKids(t, nproc)
    BY <1>8 DEF ReleaseKids
  <2>2. Range(ReleaseKids(t, nproc)) \subseteq Threads
    BY <1>0, TeamTrees, TeamOf DEF Members
  <2>3. \A d \in Range(todo'[t]) : d \in Threads \ {c} /\ Parked(d)
    BY <1>2, <1>3, <1>4, <1>8, <2>2
  <2>4. \A d \in Range(todo'[t]) : Parked(d)'
    BY <1>11, <2>3
  <2>5. Range(todo'[t]) \subseteq Range(ReleaseKids(t, nproc)) /\ IsInjective(todo'[t])
    BY <1>2, <1>3, <1>8
  <2>6. ~BeforeRelease(t)'
    BY <1>0, <1>8 DEF BeforeRelease
  <2> QED
    BY <2>1, <2>4, <2>5, <2>6 DEF ReleaseOf
<1> QED
  BY <1>0, <1>1, <1>7, <1>8, <1>12, <1>13, <1>14, <1>15, <1>16, <1>17
     DEF IInv, Running, Gathering, Releasing

LEMMA FinishReleaseKeeps ==
  ASSUME IInv, NEW t \in Threads, FinishRelease(t)
  PROVE  IInv'
<1>0. /\ ~g_done /\ TypeOK /\ Running /\ t \in Members /\ nproc \in Sizes /\ nproc > 1 /\ region > 0
      /\ k[t] = Past /\ k[t] < JoinStep /\ k[t] \in 0 .. JoinStep /\ JoinStep \in Nat /\ pc[t] = "release"
      /\ body \in Bodies /\ <<gather, release>> \in Patterns
  BY Active DEF FinishRelease, TypeOK
<1>1. /\ todo[t] = << >>
      /\ icv' = IF k[t] = 0 /\ t # 0 /\ KeepsOwnFixed(t) THEN [icv EXCEPT ![t] = fixed[t]] ELSE icv
      /\ pc' = [pc EXCEPT ![t] = "work"]
      /\ UNCHANGED <<config, nproc, region, flags, team_nproc, fixed, data, k, new_state, todo, g_done>>
  BY DEF FinishRelease, Goto
<1>2. TypeOK'
  <2>1. fixed[t] \in UserIcv .. MaxRegions
    <3>1. fixed[t] \in 0 .. MaxRegions
      BY <1>0 DEF TypeOK
    <3> QED
      BY <3>1 DEF UserIcv
  <2>2. icv' \in [Threads -> UserIcv .. MaxRegions]
    BY <1>0, <1>1, <2>1 DEF TypeOK
  <2>3. pc' \in [Threads -> {"serial", "work", "gather", "final", "wait_go", "reset_go",
                             "release", "reap", "done"}]
    BY <1>0, <1>1 DEF TypeOK
  <2> QED
    BY <1>0, <1>1, <2>2, <2>3 DEF TypeOK, config, flags, JoinStep
<1>3. /\ Past' = Past /\ Members' = Members /\ k' = k /\ todo' = todo /\ pc'[t] = "work"
      /\ \A u \in Threads \ {t} : pc'[u] = pc[u]
      /\ UNCHANGED <<gather, release, nproc>>
  BY <1>0, <1>1, TeamOf DEF Past, Members, TypeOK, config
<1>4. \A u \in Threads : Bt(u)' = Bt(u)
  BY <1>1 DEF Bt, TypeOf, config, JoinStep
<1>5. /\ \A u \in Threads : Came(u) <=> Came(u)'
      /\ \A u \in Threads : Parked(u) <=> Parked(u)'
  BY <1>0, <1>1, <1>3, <1>4 DEF Came, Parked, flags
<1>6. Position'
  BY <1>0, <1>1, <1>3, TeamOf DEF Running, Position, JoinStep
<1>7. Sized' /\ Gos'
  BY <1>0, <1>1, <1>3, <1>4, TeamOf DEF Running, Sized, Gos, JoinStep, flags
<1>8. Arrivals'
  BY <1>0, <1>1, <1>3, <1>4, <1>5, TeamOf DEF Running, Arrivals, flags
<1>9. \A u \in Members \ {t} : GatherOf(u)' /\ ReleaseOf(u)'
  <2>1. \A u \in Members : Range(ReleaseKids(u, nproc)) \subseteq Threads
    BY <1>0, TeamTrees, TeamOf DEF Members
  <2> QED
    BY <1>0, <1>3, <1>5, <2>1, OthersStay
<1>10. GatherOf(t)' /\ ReleaseOf(t)'
  BY <1>0, <1>3 DEF GatherOf, Came, ReleaseOf, BeforeRelease
<1> QED
  BY <1>0, <1>1, <1>2, <1>3, <1>6, <1>7, <1>8, <1>9, <1>10 DEF IInv, Running, Gathering, Releasing

LEMMA SetNumThreadsKeeps ==
  ASSUME IInv, NEW t \in Threads, SetNumThreads(t)
  PROVE  IInv'
<1>1. /\ icv' = [icv EXCEPT ![t] = UserIcv]
      /\ UNCHANGED <<config, nproc, region, flags, team_nproc, fixed, data, pc, k, new_state, todo, g_done>>
      /\ TypeOK /\ Running /\ ~g_done
  BY Active DEF SetNumThreads
<1>2. icv' \in [Threads -> UserIcv .. MaxRegions]
  BY <1>1, BarrierAssumption DEF TypeOK, UserIcv
<1>3. TypeOK'
  BY <1>1, <1>2 DEF TypeOK, config, flags, JoinStep
<1>4. Running'
  BY <1>1, RunningStays
<1> QED
  BY <1>1, <1>3, <1>4 DEF IInv

\* Between regions every worker waits, at the join, and no flag of it is set.
LEMMA AllWait ==
  ASSUME IInv, ~g_done, pc[0] = "serial"
  PROVE  /\ TypeOK /\ Running /\ JoinStep \in Nat /\ JoinStep > 0 /\ k[0] = JoinStep
         /\ \A t \in Workers : pc[t] = "wait_go" /\ k[t] = JoinStep /\ Bt(t) = "forkjoin"
         /\ \A b \in Types, t \in Workers : go[b][t] = 0
         /\ \A b \in Types, t \in Members \ {0} : arrived[b][t] = team_arrived[b]
<1>1. TypeOK /\ Running /\ JoinStep \in Nat /\ JoinStep > 0 /\ k[0] = JoinStep /\ Past = JoinStep
      /\ body \in Bodies
  BY TypesOfBarriers DEF IInv, TypeOK, Running, Position, Past
<1>2. \A t \in Workers : pc[t] = "wait_go" /\ k[t] = JoinStep
  <2> TAKE t \in Workers
  <2>1. k[t] \in 0 .. JoinStep /\ t \in Threads
    BY <1>1, TeamOf DEF TypeOK
  <2>2. CASE t \in Members
    BY <1>1, <2>1, <2>2, TeamOf DEF Running, Position
  <2>3. CASE t \notin Members
    BY <1>1, <2>1, <2>3 DEF Running, Position
  <2> QED
    BY <2>2, <2>3
<1>3. \A b \in Types, t \in Workers : go[b][t] = 0
  BY <1>1, <1>2 DEF Running, Gos
<1>4. \A b \in Types, t \in Members \ {0} : arrived[b][t] = team_arrived[b]
  <2> TAKE b \in Types, t \in Members \ {0}
  <2>1. t \in Workers
    BY <1>1, TeamOf
  <2>2. ~Came(t) /\ team_arrived[b] \in Nat
    BY <1>1, <1>2, <2>1 DEF Came, TypeOK
  <2> QED
    BY <1>1, <2>2 DEF Running, Arrivals
<1> QED
  BY <1>1, <1>2, <1>3, <1>4, TypesOfBarriers DEF Bt

LEMMA ForkKeeps ==
  ASSUME IInv, NEW n \in Sizes, Fork(n)
  PROVE  IInv'
<1>1. /\ pc[0] = "serial" /\ ~g_done /\ region < MaxRegions /\ region' = region + 1
      /\ nproc' = n
      /\ team_nproc' = [t \in Threads |-> IF t < n THEN n ELSE team_nproc[t]]
      /\ arrived' = [b \in Types |-> [t \in Threads |->
                       IF t >= nproc /\ t < n THEN team_arrived[b] ELSE arrived[b][t]]]
      /\ icv' = [t \in Threads |-> IF t = 0 \/ (release = "linear" /\ t < n) THEN region' ELSE icv[t]]
      /\ fixed' = IF release \in {"hyper", "hierarchical"} THEN [fixed EXCEPT ![0] = region'] ELSE fixed
      /\ k' = [t \in Threads |-> IF t < n THEN 0 ELSE k[t]]
      /\ pc' = [pc EXCEPT ![0] = "release"]
      /\ todo' = [todo EXCEPT ![0] = ReleaseKids(0, n)]
      /\ UNCHANGED <<config, go, team_arrived, data, new_state, g_done>>
  BY DEF Fork, Resize, StoreIcvs, StartRelease, Goto
<1>2. /\ TypeOK /\ Running /\ JoinStep \in Nat /\ JoinStep > 0 /\ k[0] = JoinStep
      /\ \A t \in Workers : pc[t] = "wait_go" /\ k[t] = JoinStep
      /\ \A b \in Types, t \in Workers : go[b][t] = 0
      /\ \A b \in Types, t \in Members \ {0} : arrived[b][t] = team_arrived[b]
  BY <1>1, AllWait
<1>3. /\ n \in 2 .. N /\ N \in Nat /\ MaxRegions \in Nat /\ 0 \in Threads
      /\ Threads = {0} \cup Workers /\ 0 \notin Workers /\ nproc \in 1 .. N
      /\ body \in Bodies /\ <<gather, release>> \in Patterns
  <2>1. N \in Nat /\ N > 1 /\ Sizes \subseteq 2 .. N /\ MaxRegions \in Nat
    BY BarrierAssumption
  <2>2. 0 \in Threads /\ Threads = {0} \cup Workers /\ 0 \notin Workers /\ nproc \in 1 .. N
    BY <1>2, <2>1, TeamOf DEF Workers
  <2> QED
    BY <1>2, <2>1, <2>2 DEF TypeOK
<1>4. /\ Members' = 0 .. n-1 /\ Members' \ {0} = 1 .. n-1 /\ Members' \subseteq Threads
      /\ Members' \ {0} \subseteq Workers /\ Threads \ Members' = n .. N-1
  BY <1>1, <1>3 DEF Members, Threads, Workers
<1>5. /\ ReleaseKids(0, n) \in Seq(Workers) /\ IsInjective(ReleaseKids(0, n))
      /\ \A u \in 0 .. n-1 : Range(ReleaseKids(u, n)) \subseteq 1 .. n-1
      /\ \A u : ReleaseKids(u, n)' = ReleaseKids(u, n)
  <2>1. /\ \A u \in 0 .. n-1 : /\ ReleaseKids(u, n) \in Seq(Workers) /\ IsInjective(ReleaseKids(u, n))
                               /\ Range(ReleaseKids(u, n)) \subseteq 1 .. n-1
    BY <1>3, TeamTrees
  <2>2. \A u : ReleaseKids(u, n)' = ReleaseKids(u, n)
    BY <1>1 DEF ReleaseKids, config
  <2>3. 0 \in 0 .. n-1
    BY <1>3
  <2> QED
    BY <2>1, <2>2, <2>3
<1>6. TypeOK'
  <2>1. region' \in 0 .. MaxRegions /\ region' \in UserIcv .. MaxRegions
    BY <1>1, <1>2, <1>3 DEF TypeOK, UserIcv
  <2>2. arrived' \in [Types -> [Threads -> Nat]]
    BY <1>1, <1>2 DEF TypeOK
  <2>3. team_nproc' \in [Threads -> 1 .. N]
    BY <1>1, <1>2, <1>3 DEF TypeOK
  <2>4. icv' \in [Threads -> UserIcv .. MaxRegions]
    BY <1>1, <1>2, <2>1 DEF TypeOK
  <2>5. fixed' \in [Threads -> 0 .. MaxRegions]
    BY <1>1, <1>2, <2>1 DEF TypeOK
  <2>6. k' \in [Threads -> 0 .. JoinStep]
    BY <1>1, <1>2 DEF TypeOK
  <2>7. pc' \in [Threads -> {"serial", "work", "gather", "final", "wait_go", "reset_go",
                             "release", "reap", "done"}]
    BY <1>1, <1>2 DEF TypeOK
  <2>8. todo' \in [Threads -> Seq(Workers)]
    BY <1>1, <1>2, <1>5 DEF TypeOK
  <2> QED
    BY <1>1, <1>2, <2>1, <2>2, <2>3, <2>4, <2>5, <2>6, <2>7, <2>8 DEF TypeOK, config, JoinStep
<1>7. /\ pc'[0] = "release" /\ k'[0] = 0 /\ todo'[0] = ReleaseKids(0, n) /\ Past' = 0
      /\ \A t \in Workers : pc'[t] = "wait_go"
      /\ \A t \in 1 .. n-1 : k'[t] = 0 /\ t \in Workers
      /\ \A t \in n .. N-1 : k'[t] = JoinStep /\ t \in Workers
  <2>1. pc'[0] = "release" /\ k'[0] = 0 /\ todo'[0] = ReleaseKids(0, n)
        /\ \A t \in Workers : pc'[t] = "wait_go"
    BY <1>1, <1>2, <1>3 DEF TypeOK
  <2>2. \A t \in 1 .. n-1 : k'[t] = 0 /\ t \in Workers
    BY <1>1, <1>3 DEF Workers
  <2>3. \A t \in n .. N-1 : k'[t] = JoinStep /\ t \in Workers
    BY <1>1, <1>2, <1>3 DEF Workers
  <2> QED
    BY <2>1, <2>2, <2>3 DEF Past
<1>8. \A t \in Members' \ {0} : Parked(t)' /\ ~Came(t)'
  <2> TAKE t \in Members' \ {0}
  <2>1. t \in Workers /\ k'[t] = 0 /\ pc'[t] = "wait_go"
    BY <1>4, <1>7
  <2>2. Bt(t)' = "forkjoin" /\ "forkjoin" \in Types
    BY <2>1 DEF Bt, TypeOf, Types
  <2> QED
    BY <1>1, <1>2, <1>7, <2>1, <2>2 DEF Parked, Came
<1>9. Position'
  <2>1. region' > 0 /\ nproc' > 1 /\ JoinStep' = JoinStep
    BY <1>1, <1>2, <1>3 DEF TypeOK, JoinStep
  <2>2. \A t \in Members' \ {0} : k'[t] = Past' /\ pc'[t] = "wait_go" /\ k'[t] # JoinStep
    BY <1>2, <1>4, <1>7
  <2>3. \A t \in Threads \ Members' : pc'[t] = "wait_go" /\ k'[t] = JoinStep
    BY <1>4, <1>7
  <2> QED
    BY <1>2, <1>7, <2>1, <2>2, <2>3 DEF Position
<1>10. Sized'
  BY <1>1, <1>3, <1>4, <1>7 DEF Sized
<1>11. Arrivals'
  <2> SUFFICES ASSUME NEW b \in Types, NEW t \in Members' \ {0}
               PROVE  arrived'[b][t] = team_arrived[b]
    <3>1. team_arrived' = team_arrived /\ \A b \in Types : team_arrived[b] \in Nat
      BY <1>1, <1>2 DEF TypeOK
    <3> QED
      BY <1>8, <3>1 DEF Arrivals
  <2>1. t \in 1 .. n-1 /\ t \in Threads
    BY <1>4
  <2>2. CASE t >= nproc
    BY <1>1, <1>3, <2>1, <2>2
  <2>3. CASE ~(t >= nproc)
    BY <1>1, <1>2, <1>3, <2>1, <2>3 DEF Members
  <2> QED
    BY <2>2, <2>3
<1>12. Gos'
  BY <1>1, <1>2 DEF Gos
<1>13. Gathering'
  BY <1>4, <1>7, <1>8 DEF Gathering, GatherOf, Came
<1>14. Releasing'
  <2> SUFFICES ASSUME NEW t \in Members'
               PROVE  ReleaseOf(t)'
    BY DEF Releasing
  <2>1. Range(ReleaseKids(t, n)) \subseteq Members' \ {0}
    BY <1>4, <1>5
  <2>2. ReleaseKids(t, nproc)' = ReleaseKids(t, n)
    BY <1>1, <1>5 DEF ReleaseKids, config
  <2>3. \A c \in Range(ReleaseKids(t, n)) : Parked(c)'
    BY <1>8, <2>1
  <2>4. pc'[t] = "release" => t = 0
    BY <1>4, <1>7
  <2> QED
    BY <1>5, <1>7, <2>2, <2>3, <2>4 DEF ReleaseOf
<1> QED
  BY <1>1, <1>6, <1>9, <1>10, <1>11, <1>12, <1>13, <1>14 DEF IInv, Running

LEMMA ShutdownKeeps ==
  ASSUME IInv, Shutdown
  PROVE  IInv'
<1>1. /\ pc[0] = "serial" /\ ~g_done /\ g_done' = TRUE
      /\ pc' = [pc EXCEPT ![0] = "reap"]
      /\ todo' = [todo EXCEPT ![0] = [i \in 1 .. N-1 |-> i]]
      /\ UNCHANGED <<config, nproc, region, flags, team_nproc, icvs, data, k, new_state>>
  BY DEF Shutdown, Goto
<1>2. /\ TypeOK /\ Running /\ k[0] = JoinStep
      /\ \A t \in Workers : pc[t] = "wait_go" /\ k[t] = JoinStep
      /\ \A b \in Types, t \in Workers : go[b][t] = 0
      /\ \A b \in Types, t \in Members \ {0} : arrived[b][t] = team_arrived[b]
  BY <1>1, AllWait
<1>3. N \in Nat /\ N > 1 /\ 0 \in Threads /\ Threads \ {0} = Workers
  BY <1>2, BarrierAssumption DEF Threads, Workers
<1> DEFINE all == [i \in 1 .. N-1 |-> i]
<1>4. all \in Seq(Workers) /\ IsInjective(all) /\ Range(all) = Workers
  BY <1>3 DEF Workers, IsInjective, Range
<1>5. TypeOK'
  <2>1. todo' \in [Threads -> Seq(Workers)]
    BY <1>1, <1>2, <1>4 DEF TypeOK
  <2>2. pc' \in [Threads -> {"serial", "work", "gather", "final", "wait_go", "reset_go",
                             "release", "reap", "done"}]
    BY <1>1, <1>2 DEF TypeOK
  <2> QED
    BY <1>1, <1>2, <2>1, <2>2 DEF TypeOK, config, flags, icvs, JoinStep
<1>6. /\ pc'[0] = "reap" /\ todo'[0] = all /\ k' = k /\ JoinStep' = JoinStep /\ Members' = Members
      /\ go' = go /\ arrived' = arrived /\ team_arrived' = team_arrived
      /\ \A t \in Workers : pc'[t] = "wait_go"
  BY <1>1, <1>2, <1>3 DEF TypeOK, JoinStep, Members, flags
<1>7. Reaping'
  BY <1>2, <1>4, <1>6 DEF Reaping, Types
<1> QED
  BY <1>1, <1>5, <1>7 DEF IInv

\* After the shutdown the workers are let out of the fork barrier, and nothing else
\* happens.
LEMMA ReapingKeeps ==
  ASSUME IInv, g_done,
         Reap \/ \E t \in Threads : SeeGo(t) \/ SeeDone(t) \/ ResetGo(t)
  PROVE  IInv'
<1>1. /\ TypeOK /\ Reaping /\ body \in Bodies /\ 0 \in Threads /\ 0 \notin Workers
      /\ Threads = {0} \cup Workers /\ Members \ {0} \subseteq Workers
  <2>1. TypeOK /\ Reaping /\ body \in Bodies
    BY DEF IInv, TypeOK
  <2> QED
    BY <2>1, TeamOf DEF Workers
<1>2. CASE Reap
  <2>1. /\ todo[0] # << >> /\ todo' = [todo EXCEPT ![0] = Tail(todo[0])]
        /\ go' = [go EXCEPT !["forkjoin"][Head(todo[0])] = @ + BUMP]
        /\ UNCHANGED <<config, nproc, region, arrived, team_arrived, team_nproc, icvs,
                       data, pc, k, new_state, g_done>>
    BY <1>2 DEF Reap
  <2>2. /\ todo[0] \in Seq(Workers) /\ IsInjective(todo[0])
        /\ \A c \in Range(todo[0]) : go["forkjoin"][c] = 0
    BY <1>1 DEF TypeOK, Reaping
  <2>3. /\ Tail(todo[0]) \in Seq(Workers) /\ IsInjective(Tail(todo[0]))
        /\ Head(todo[0]) \in Workers /\ Head(todo[0]) \in Range(todo[0])
        /\ Range(Tail(todo[0])) = Range(todo[0]) \ {Head(todo[0])}
    BY <2>1, <2>2, Popped
  <2>4. PICK c \in Workers : c = Head(todo[0])
    BY <2>3
  <2>5. go' = [go EXCEPT !["forkjoin"][c] = BUMP]
    <3>1. go["forkjoin"][c] = 0
      BY <2>2, <2>3, <2>4
    <3> QED
      BY <1>1, <2>1, <2>4, <3>1 DEF TypeOK, Types, BUMP
  <2>6. TypeOK'
    <3>1. todo' \in [Threads -> Seq(Workers)]
      BY <1>1, <2>1, <2>3 DEF TypeOK
    <3>2. go' \in [Types -> [Threads -> {0, BUMP}]]
      BY <1>1, <2>4, <2>5 DEF TypeOK, Types
    <3> QED
      BY <1>1, <2>1, <3>1, <3>2 DEF TypeOK, config, icvs, JoinStep
  <2>7. /\ todo'[0] = Tail(todo[0])
        /\ \A u \in Workers : u # c => go'["forkjoin"][u] = go["forkjoin"][u]
        /\ \A b \in Types, u \in Workers : go'[b][u] # 0 => go[b][u] # 0 \/ b = "forkjoin"
    BY <1>1, <2>1, <2>4, <2>5 DEF TypeOK, Types
  <2>8. \A d \in Range(todo'[0]) : go'["forkjoin"][d] = 0
    <3>1. Range(Tail(todo[0])) \subseteq Workers
      BY <2>3, SeqInLarger
    <3> QED
      BY <2>2, <2>3, <2>4, <2>7, <3>1
  <2>9. Reaping'
    BY <1>1, <2>1, <2>3, <2>7, <2>8 DEF Reaping, JoinStep, Members
  <2> QED
    BY <2>1, <2>6, <2>9 DEF IInv
<1>3. ASSUME NEW t \in Threads, SeeGo(t) \/ SeeDone(t)
      PROVE  IInv'
  <2>1. /\ pc[t] = "wait_go" /\ pc' = [pc EXCEPT ![t] = "reset_go"]
        /\ UNCHANGED <<config, nproc, region, flags, team_nproc, icvs, data, k, new_state, todo, g_done>>
    BY <1>3 DEF SeeGo, SeeDone, Goto
  <2>2. TypeOK'
    BY <1>1, <2>1 DEF TypeOK, config, flags, icvs, JoinStep
  <2>3. pc'[0] = "reap" /\ \A u \in Workers : pc'[u] \in {"wait_go", "reset_go", "done"}
    BY <1>1, <2>1 DEF TypeOK, Reaping
  <2>4. Reaping'
    BY <1>1, <2>1, <2>3 DEF Reaping, JoinStep, Members, flags
  <2> QED
    BY <2>1, <2>2, <2>4 DEF IInv
<1>4. ASSUME NEW t \in Threads, ResetGo(t)
      PROVE  IInv'
  <2>1. t \in Workers /\ Bt(t) = "forkjoin" /\ pc[t] = "reset_go"
    <3>1. pc[t] = "reset_go"
      BY <1>4 DEF ResetGo
    <3>2. t \in Workers
      BY <1>1, <3>1 DEF Reaping
    <3> QED
      BY <1>1, <3>1, <3>2, TypesOfBarriers DEF Reaping, Bt
  <2>2. /\ go' = go \/ go' = [go EXCEPT !["forkjoin"][t] = 0]
        /\ pc' = [pc EXCEPT ![t] = "done"]
        /\ UNCHANGED <<config, nproc, region, arrived, team_arrived, team_nproc, icvs, data, k,
                       new_state, todo, g_done>>
    BY <1>4, <2>1 DEF ResetGo, Goto
  <2>3. TypeOK'
    <3>1. go' \in [Types -> [Threads -> {0, BUMP}]]
      <4>1. go \in [Types -> [Threads -> {0, BUMP}]] /\ "forkjoin" \in Types
        BY <1>1 DEF TypeOK, Types
      <4> QED
        BY <2>2, <4>1
    <3>2. pc' \in [Threads -> {"serial", "work", "gather", "final", "wait_go", "reset_go",
                               "release", "reap", "done"}]
      BY <1>1, <2>2 DEF TypeOK
    <3> QED
      BY <1>1, <2>2, <3>1, <3>2 DEF TypeOK, config, icvs, JoinStep
  <2>4. pc'[0] = "reap" /\ \A u \in Workers : pc'[u] \in {"wait_go", "reset_go", "done"}
    BY <1>1, <2>1, <2>2 DEF TypeOK, Reaping
  <2>5. \A b \in Types, u \in Workers : go'[b][u] # 0 => go[b][u] # 0
    <3>1. go \in [Types -> [Threads -> {0, BUMP}]] /\ "forkjoin" \in Types
      BY <1>1 DEF TypeOK, Types
    <3> QED
      BY <1>1, <2>1, <2>2, <3>1
  <2>6. \A c \in Range(todo[0]) : c \in Workers
    BY <1>1, SeqInLarger DEF TypeOK
  <2>7. \A c \in Range(todo[0]) : go'["forkjoin"][c] = 0
    BY <1>1, <2>5, <2>6 DEF Reaping, Types
  <2>8. Reaping'
    BY <1>1, <2>2, <2>4, <2>5, <2>7 DEF Reaping, JoinStep, Members
  <2> QED
    BY <2>2, <2>3, <2>8 DEF IInv
<1> QED
  BY <1>2, <1>3, <1>4

LEMMA InitEstablishes == Init => IInv
<1> SUFFICES ASSUME Init
             PROVE  IInv
  OBVIOUS
<1>1. /\ N \in Nat /\ N > 1 /\ MaxRegions \in Nat /\ JoinStep \in Nat /\ 0 \in Threads
      /\ Members = {0} /\ Sizes \subseteq 2 .. N
  BY BarrierAssumption DEF JoinStep, Threads, Members, Init
<1>2. TypeOK
  <2>1. <<gather, release>> \in Patterns
    <3>1. PICK p \in Patterns : gather = p[1] /\ release = p[2]
      BY DEF Init
    <3>2. p = <<p[1], p[2]>>
      BY BarrierAssumption
    <3> QED
      BY <3>1, <3>2
  <2>2. /\ \A t \in Threads : << >> \in Seq(Workers)
        /\ go \in [Types -> [Threads -> {0, BUMP}]] /\ arrived \in [Types -> [Threads -> Nat]]
        /\ icv \in [Threads -> UserIcv .. MaxRegions] /\ fixed \in [Threads -> 0 .. MaxRegions]
    BY <1>1 DEF Init, UserIcv
  <2>3. /\ nproc \in {1} \cup Sizes /\ region \in 0 .. MaxRegions /\ body \in Bodies
        /\ team_arrived \in [Types -> Nat] /\ team_nproc \in [Threads -> 1 .. N]
        /\ data \in [Threads -> [Threads -> Nat]] /\ new_state \in [Threads -> Nat]
        /\ k \in [Threads -> 0 .. JoinStep] /\ g_done \in BOOLEAN
    BY <1>1 DEF Init
  <2>4. /\ todo \in [Threads -> Seq(Workers)]
        /\ pc \in [Threads -> {"serial", "work", "gather", "final", "wait_go", "reset_go",
                               "release", "reap", "done"}]
    BY <1>1, <2>2 DEF Init
  <2> QED
    BY <2>1, <2>2, <2>3, <2>4 DEF TypeOK
<1>3. ~g_done /\ pc[0] = "serial" /\ k[0] = JoinStep /\ nproc = 1
  BY <1>1 DEF Init
<1>4. Position /\ Sized /\ Arrivals
  BY <1>1, <1>3 DEF Init, Position, Sized, Arrivals, Threads
<1>5. Gos
  BY TeamOf, <1>2 DEF Init, Gos
<1>6. Gathering /\ Releasing
  BY <1>3 DEF Gathering, Releasing
<1> QED
  BY <1>2, <1>3, <1>4, <1>5, <1>6 DEF IInv, Running

LEMMA NextPreserves == IInv /\ [Next]_vars => IInv'
<1> SUFFICES ASSUME IInv, [Next]_vars
             PROVE  IInv'
  OBVIOUS
<1>1. ASSUME NEW n \in Sizes, Fork(n)
      PROVE  IInv'
  BY <1>1, ForkKeeps
<1>2. ASSUME NEW t \in Threads, Enter(t) \/ SetNumThreads(t)
      PROVE  IInv'
  BY <1>2, EnterKeeps, SetNumThreadsKeeps
<1>3. ASSUME NEW t \in Threads, GatherChild(t) \/ Report(t) \/ ReleaseChild(t) \/ FinishRelease(t)
      PROVE  IInv'
  BY <1>3, GatherChildKeeps, ReportKeeps, ReleaseChildKeeps, FinishReleaseKeeps
<1>4. ASSUME NEW t \in Threads, SeeGo(t) \/ ResetGo(t) \/ SeeDone(t)
      PROVE  IInv'
  <2>1. CASE g_done
    BY <1>4, <2>1, ReapingKeeps
  <2>2. CASE ~g_done
    <3>1. ~SeeDone(t)
      BY <2>2 DEF SeeDone
    <3> QED
      BY <1>4, <2>2, <3>1, SeeGoKeeps, ResetGoKeeps
  <2> QED
    BY <2>1, <2>2
<1>5. CASE Gathered \/ EndSplit
  BY <1>5, GatheredKeeps, EndSplitKeeps
<1>6. CASE Reap
  <2>1. g_done
    BY <1>6 DEF Reap, IInv, Running, Position
  <2> QED
    BY <1>6, <2>1, ReapingKeeps
<1>7. CASE Shutdown
  BY <1>7, ShutdownKeeps
<1>8. CASE UNCHANGED vars
  <2>1. TypeOK'
    BY <1>8 DEF vars, IInv, TypeOK, config, flags, icvs, JoinStep
  <2>2. CASE g_done
    BY <1>8, <2>1, <2>2 DEF vars, IInv, Reaping, flags, JoinStep, Members
  <2>3. CASE ~g_done
    BY <1>8, <2>1, <2>3, RunningStays DEF vars, IInv
  <2> QED
    BY <2>2, <2>3
<1>9. CASE Terminated
  BY <1>8, <1>9 DEF Terminated
<1> QED
  BY <1>1, <1>2, <1>3, <1>4, <1>5, <1>6, <1>7, <1>8, <1>9 DEF Next, Master, Inside

\* The inductive invariant holds of every behaviour of the barriers.
LEMMA Invariance == Spec => []IInv
<1>1. Init => IInv
  BY InitEstablishes
<1>2. IInv /\ [Next]_vars => IInv'
  BY NextPreserves
<1> QED
  BY <1>1, <1>2, PTL DEF Spec

-----------------------------------------------------------------------------
(* What the barriers promise. *)

\* The flags of every kind of barrier stay in step with the team's count of arrivals,
\* whatever the trees and however the team grows and shrinks between regions: a
\* member's b_arrived is ahead exactly while its report waits for the master, and
\* b_go is set only for a thread that waits for it there, so that no fork barrier
\* meets a flag that is set already.
THEOREM BarrierFlags == Spec => []FlagsInStep
<1>1. IInv => FlagsInStep
  <2> SUFFICES ASSUME IInv
               PROVE  FlagsInStep
    OBVIOUS
  <2>1. TypeOK /\ JoinStep \in Nat /\ TypeOf(JoinStep) = "forkjoin" /\ 0 \in Threads
    BY TypesOfBarriers, TeamOf DEF IInv, TypeOK
  <2> SUFFICES ASSUME NEW b \in Types, NEW t \in Workers
               PROVE  /\ t < nproc => arrived[b][t] = team_arrived[b] + (IF Reported(t, b) THEN BUMP ELSE 0)
                      /\ go[b][t] # 0 => Bt(t) = b /\ pc[t] \in {"wait_go", "reset_go", "done"}
    BY <2>1 DEF FlagsInStep
  <2>2. /\ t < nproc => t \in Members \ {0}
        /\ k[t] \in 0 .. JoinStep /\ k[0] \in 0 .. JoinStep /\ team_arrived[b] \in Nat
    <3>1. /\ nproc \in Nat /\ t \in Nat /\ t > 0 /\ t \in Threads
      BY <2>1, TeamOf DEF Workers
    <3> QED
      BY <2>1, <3>1 DEF TypeOK, Members
  <2>3. CASE g_done
    <3>1. ~Reported(t, b)
      BY <2>1, <2>2, <2>3 DEF IInv, Reaping, Reported
    <3> QED
      BY <2>1, <2>2, <2>3, <3>1 DEF IInv, Reaping, Bt
  <2>4. CASE ~g_done
    <3>1. ASSUME t < nproc
          PROVE  Reported(t, b) <=> (Came(t) /\ Bt(t) = b)
      <4>1. k[t] \in {Past, Past + 1}
        BY <2>2, <2>4, <3>1 DEF IInv, Running, Position
      <4>2. CASE pc[0] = "gather"
        BY <2>2, <4>1, <4>2 DEF Reported, Came, Past
      <4>3. CASE pc[0] # "gather"
        BY <2>2, <4>1, <4>3 DEF Reported, Came, Past
      <4> QED
        BY <4>2, <4>3
    <3> QED
      BY <2>2, <2>4, <3>1 DEF IInv, Running, Arrivals, Gos
  <2> QED
    BY <2>3, <2>4
<1> QED
  BY <1>1, Invariance, PTL

\* What a step has to do for the team's barriers to see nothing of it.
LEMMA NotSeen ==
  ASSUME UNCHANGED <<region, nproc, k>>, \A t \in Threads : Outside(t)' <=> Outside(t)
  PROVE  UNCHANGED Team!vars
BY DEF Team!vars, Members

\* Getting past a barrier: at a release, for the master of the join at the gather.
LEMMA SeenToLeave ==
  ASSUME IInv, ~g_done, NEW t \in Threads, t \in Members, region > 0,
         pc' = [pc EXCEPT ![t] = IF k[t] = JoinStep THEN "serial" ELSE "work"],
         ~Outside(t), k[t] = JoinStep => t = 0,
         \A u \in Members : k[u] >= k[t],
         UNCHANGED <<region, nproc, k>>
  PROVE  Team!Leave(t)
<1>1. TypeOK /\ JoinStep \in Nat /\ JoinStep = BodyLength + 1 /\ BodyLength \in Nat
      /\ k[t] \in 0 .. JoinStep /\ \A u \in Members : k[u] \in 0 .. JoinStep
  BY TypesOfBarriers, TeamOf DEF IInv, TypeOK
<1>2. Outside(t)' /\ \A u \in Threads : u # t => (Outside(u)' <=> Outside(u))
  BY <1>1 DEF Outside, TypeOK
<1>3. Members \subseteq Threads
  BY <1>1, TeamOf
<1>4. /\ t = 0 \/ k[t] + 1 < BodyLength + 2
      /\ \A u \in Members : u \in Threads /\ k[u] + 1 >= k[t] + 1
  BY <1>1, <1>3
<1>5. /\ (IF region = 0 THEN {} ELSE Members) = Members
      /\ (IF region = 0 THEN {} ELSE Members)' = Members
  BY DEF Members
<1>6. [u \in Threads |-> IF Outside(u) THEN k[u] + 1 ELSE k[u]]'
      = [[u \in Threads |-> IF Outside(u) THEN k[u] + 1 ELSE k[u]] EXCEPT ![t] = k[t] + 1]
  BY <1>2
<1>7. [u \in Threads |-> k[u] + 1]' = [u \in Threads |-> k[u] + 1]
  OBVIOUS
<1>8. /\ [u \in Threads |-> IF Outside(u) THEN k[u] + 1 ELSE k[u]][t] = k[t]
      /\ k[t] < [u \in Threads |-> k[u] + 1][t]
  BY <1>1
<1> QED
  BY <1>4, <1>5, <1>6, <1>7, <1>8 DEF Team!Leave

LEMMA StepSimulates == IInv /\ [Next]_vars => [Team!Next]_(Team!vars)
<1> SUFFICES ASSUME IInv, [Next]_vars
             PROVE  Team!Next \/ UNCHANGED Team!vars
  OBVIOUS
<1>0. TypeOK /\ JoinStep \in Nat /\ JoinStep = BodyLength + 1 /\ BodyLength \in Nat /\ 0 \in Threads
  BY TypesOfBarriers, TeamOf DEF IInv, TypeOK
<1>1. ASSUME NEW n \in Sizes, Fork(n)
      PROVE  Team!Next
  <2>1. /\ pc[0] = "serial" /\ ~g_done /\ region' = region + 1 /\ nproc' = n
        /\ k' = [t \in Threads |-> IF t < n THEN 0 ELSE k[t]]
        /\ pc' = [pc EXCEPT ![0] = "release"]
    BY <1>1 DEF Fork, Resize, StartRelease, Goto
  <2>2. k[0] = JoinStep /\ \A t \in Workers : pc[t] = "wait_go"
    BY <2>1, AllWait
  <2>3. n \in 2 .. N /\ N \in Nat /\ region \in Nat /\ Threads = {0} \cup Workers
    <3>1. N \in Nat /\ N > 1 /\ Sizes \subseteq 2 .. N /\ MaxRegions \in Nat
      BY BarrierAssumption
    <3>2. Threads = {0} \cup Workers
      BY <1>0, TeamOf
    <3>3. region \in Nat
      BY <1>0, <3>1 DEF TypeOK
    <3> QED
      BY <3>1, <3>2, <3>3
  <2>4. /\ Members' = 0 .. n-1 /\ Members' \subseteq Threads /\ 0 \in Members' /\ region' # 0
        /\ \A t \in Threads : t < n <=> t \in Members'
    BY <2>1, <2>3 DEF Members, Threads
  <2>5. PICK members \in SUBSET Threads : members = Members'
    BY <2>4
  <2>6. Outside(0) /\ \A t \in Threads : ~Outside(t)' /\ (t # 0 => ~Outside(t))
    BY <1>0, <2>1, <2>2, <2>3 DEF Outside, TypeOK
  <2>7. Team!Fork(members)
    BY <1>0, <2>1, <2>2, <2>4, <2>5, <2>6 DEF Team!Fork
  <2> QED
    BY <2>7 DEF Team!Next
<1>2. ASSUME NEW t \in Threads, Enter(t)
      PROVE  Team!Next
  <2>1. /\ pc[t] = "work" /\ k' = [k EXCEPT ![t] = k[t] + 1] /\ pc' = [pc EXCEPT ![t] = "gather"]
        /\ UNCHANGED <<region, nproc>>
    BY <1>2 DEF Enter, Goto
  <2>2. k[t] < JoinStep /\ k[t] \in 0 .. JoinStep /\ t \in Members /\ region > 0
    BY <2>1, Active
  <2>3. Outside(t) /\ ~Outside(t)' /\ \A u \in Threads : u # t => (Outside(u)' <=> Outside(u))
    BY <1>0, <2>1 DEF Outside, TypeOK
  <2>4. k \in [Threads -> 0 .. JoinStep] /\ Members' = Members
    BY <1>0, <2>1 DEF TypeOK, Members
  <2>5. /\ [u \in Threads |-> IF Outside(u) THEN k[u] + 1 ELSE k[u]]'
           = [u \in Threads |-> IF Outside(u) THEN k[u] + 1 ELSE k[u]]
        /\ [u \in Threads |-> k[u] + 1]'
           = [[u \in Threads |-> k[u] + 1] EXCEPT ![t] = [u \in Threads |-> k[u] + 1][t] + 1]
    BY <2>1, <2>2, <2>3, <2>4
  <2>6. /\ t \in (IF region = 0 THEN {} ELSE Members)
        /\ (IF region = 0 THEN {} ELSE Members)' = IF region = 0 THEN {} ELSE Members
    BY <2>1, <2>2, <2>4
  <2>7. /\ [u \in Threads |-> k[u] + 1][t]
           = [u \in Threads |-> IF Outside(u) THEN k[u] + 1 ELSE k[u]][t]
        /\ [u \in Threads |-> k[u] + 1][t] < BodyLength + 2
    BY <1>0, <2>2, <2>3
  <2>8. Team!Enter(t)
    BY <2>5, <2>6, <2>7 DEF Team!Enter
  <2> QED
    BY <2>8 DEF Team!Next
<1>3. ASSUME Gathered
      PROVE  Team!Next \/ UNCHANGED Team!vars
  <2>1. /\ pc[0] = "gather" /\ todo[0] = << >> /\ UNCHANGED <<region, nproc, k>>
        /\ \/ k[0] = JoinStep /\ pc' = [pc EXCEPT ![0] = "serial"]
           \/ pc' = [pc EXCEPT ![0] = "final"]
           \/ pc' = [pc EXCEPT ![0] = "release"]
    BY <1>3 DEF Gathered, Goto, StartRelease
  <2>2. CASE k[0] = JoinStep /\ pc' = [pc EXCEPT ![0] = "serial"]
    <3>1. 0 \in Members /\ ~g_done /\ region > 0 /\ k[0] = Past + 1 /\ k[0] \in 0 .. JoinStep
      BY <1>0, <2>1, Active
    <3>2. \A u \in Members : k[u] >= k[0]
      BY <2>1, <3>1, EverybodyCame DEF Came
    <3>3. ~Outside(0)
      BY <2>1 DEF Outside
    <3>4. Team!Leave(0)
      BY <1>0, <2>1, <2>2, <3>1, <3>2, <3>3, SeenToLeave
    <3> QED
      BY <1>0, <3>4 DEF Team!Next
  <2>3. CASE pc' = [pc EXCEPT ![0] = "final"] \/ pc' = [pc EXCEPT ![0] = "release"]
    <3>1. \A t \in Threads : Outside(t)' <=> Outside(t)
      BY <1>0, <2>1, <2>3 DEF Outside, TypeOK
    <3> QED
      BY <2>1, <3>1, NotSeen
  <2> QED
    BY <2>1, <2>2, <2>3
<1>4. ASSUME NEW t \in Threads, FinishRelease(t)
      PROVE  Team!Next
  <2>1. pc[t] = "release" /\ pc' = [pc EXCEPT ![t] = "work"] /\ UNCHANGED <<region, nproc, k>>
    BY <1>4 DEF FinishRelease, Goto
  <2>2. /\ t \in Members /\ ~g_done /\ region > 0 /\ Running
        /\ k[t] = Past /\ k[t] < JoinStep /\ k[t] \in 0 .. JoinStep
    BY <2>1, Active
  <2>3. \A u \in Members : k[u] >= k[t]
    <3> TAKE u \in Members
    <3>1. k[u] \in 0 .. JoinStep /\ k[0] \in 0 .. JoinStep
      BY <1>0, TeamOf DEF TypeOK
    <3>2. CASE u = 0
      BY <2>2, <3>1, <3>2 DEF Past
    <3>3. CASE u # 0
      BY <2>2, <3>1, <3>3 DEF Running, Position
    <3> QED
      BY <3>2, <3>3
  <2>4. ~Outside(t) /\ k[t] # JoinStep
    BY <1>0, <2>1, <2>2 DEF Outside
  <2>5. Team!Leave(t)
    BY <1>0, <2>1, <2>2, <2>3, <2>4, SeenToLeave
  <2> QED
    BY <2>5 DEF Team!Next
<1>5. ASSUME NEW t \in Threads, GatherChild(t) \/ SetNumThreads(t) \/ ReleaseChild(t)
      PROVE  UNCHANGED Team!vars
  <2>1. UNCHANGED <<region, nproc, k, pc>>
    BY <1>5 DEF GatherChild, SetNumThreads, ReleaseChild
  <2> QED
    BY <2>1, NotSeen DEF Outside
<1>6. ASSUME NEW t \in Threads, Report(t) \/ SeeGo(t) \/ SeeDone(t) \/ ResetGo(t)
      PROVE  UNCHANGED Team!vars
  <2>1. /\ pc[t] \in {"gather", "wait_go", "reset_go"} /\ UNCHANGED <<region, nproc, k>>
        /\ \E l \in {"wait_go", "reset_go", "release", "done"} : pc' = [pc EXCEPT ![t] = l]
    BY <1>6 DEF Report, SeeGo, SeeDone, ResetGo, Goto
  <2>2. \A u \in Threads : Outside(u)' <=> Outside(u)
    BY <1>0, <2>1 DEF Outside, TypeOK
  <2> QED
    BY <2>1, <2>2, NotSeen
<1>7. ASSUME EndSplit \/ Shutdown
      PROVE  UNCHANGED Team!vars
  <2>1. /\ UNCHANGED <<region, nproc, k>>
        /\ \/ pc[0] = "final" /\ pc' = [pc EXCEPT ![0] = "release"]
           \/ pc[0] = "serial" /\ pc' = [pc EXCEPT ![0] = "reap"]
    BY <1>7 DEF EndSplit, Shutdown, StartRelease, Goto
  <2>2. \A u \in Threads : Outside(u)' <=> Outside(u)
    BY <1>0, <2>1 DEF Outside, TypeOK
  <2> QED
    BY <2>1, <2>2, NotSeen
<1>8. ASSUME Reap \/ Terminated \/ UNCHANGED vars
      PROVE  UNCHANGED Team!vars
  <2>1. UNCHANGED <<region, nproc, k, pc>>
    BY <1>8 DEF Reap, Terminated, vars
  <2> QED
    BY <2>1, NotSeen DEF Outside
<1> QED
  BY <1>1, <1>2, <1>3, <1>4, <1>5, <1>6, <1>7, <1>8 DEF Next, Master, Inside

\* The barriers do what a team may rely on, for every pattern: nobody gets past a
\* barrier before every member has come to it, and none is skipped or passed twice.
\* (That everybody gets past it in the end is checked by TLC.)
THEOREM BarrierImplements == Spec => Team!Spec
<1>1. Init => Team!Init
  <2> SUFFICES ASSUME Init
               PROVE  Team!Init
    OBVIOUS
  <2>1. JoinStep = BodyLength + 1 /\ BodyLength \in Nat
    BY BarrierAssumption DEF JoinStep
  <2>2. \A t \in Threads : Outside(t) <=> t = 0
    BY DEF Init, Outside
  <2> QED
    BY <2>1, <2>2 DEF Init, Team!Init
<1>2. IInv /\ [Next]_vars => [Team!Next]_(Team!vars)
  BY StepSimulates
<1> QED
  BY <1>1, <1>2, Invariance, PTL DEF Spec, Team!Spec

-----------------------------------------------------------------------------
(* The internal control variables. *)

\* What a member may have once it is out of the fork barrier.
Right(t) == icv[t] = region \/ (t \in Setters /\ icv[t] = UserIcv)
OutOfFork(t) == pc[t] = "work" \/ k[t] # 0

\* In the fork barrier: a worker that has been let go, and one that lets others go.
Going(t) == /\ k[t] = 0
            /\ pc[t] = "reset_go" \/ (pc[t] = "wait_go" /\ go["forkjoin"][t] # 0)
Passing(t) == k[t] = 0 /\ pc[t] = "release"

\* Where the ICVs of the fork are on their way to each worker: stored by the master,
\* pushed by the parent before it lets its child go, or pulled from it after.
OnTheWay(t) ==
  /\ OutOfFork(t) \/ release = "linear" => Right(t)
  /\ release = "hyper" /\ (Going(t) \/ Passing(t)) => fixed[t] = region
  /\ release = "hierarchical" /\ Going(t) => fixed[ParentInHierarchy(t)] = region
  /\ release = "hierarchical" /\ Passing(t) =>
       IF MyLevel(t) = 0 THEN icv[t] = region ELSE fixed[t] = region
Icvs == /\ Right(0)
        /\ release \in {"hyper", "hierarchical"} => fixed[0] = region
        /\ release # "tree" => \A t \in Members \ {0} : OnTheWay(t)

\* In the hierarchy the parent a worker pulls from is the one that releases it, and
\* a thread of the lowest level releases nobody.
LEMMA HierarchyTree ==
  ASSUME <<gather, release>> \in Patterns, release = "hierarchical", NEW n \in Sizes,
         NEW t \in 0 .. n-1
  PROVE  /\ \A c \in Range(ReleaseKids(t, n)) : ParentInHierarchy(c) = t /\ MyLevel(t) # 0
         /\ t # 0 => /\ ParentInHierarchy(t) \in 0 .. n-1
                     /\ t \in Range(ReleaseKids(ParentInHierarchy(t), n))
<1>1. TreesSpan(gather, release, n)
  BY TreesAssumption
<1>2. n \in 2 .. N /\ N \in Nat
  BY BarrierAssumption
<1>3. /\ MyLevel(t) = 0 => ReleaseKids(t, n) = << >>
      /\ \A u \in 0 .. n-1 : \A c \in Range(ReleaseKids(u, n)) : ParentInHierarchy(c) = u
  BY <1>1 DEF TreesSpan, ReleaseKids
<1>4. \A c \in Range(ReleaseKids(t, n)) : MyLevel(t) # 0
  BY <1>3 DEF Range
<1>5. ASSUME t # 0
      PROVE  \E u \in 0 .. n-1 : t \in Range(ReleaseKids(u, n))
  <2>1. t \in 1 .. n-1
    BY <1>2, <1>5
  <2>2. PICK u \in 0 .. t-1 : t \in Range(ReleaseTree(release, n)[u])
    BY <1>1, <2>1 DEF TreesSpan, IsTree
  <2>3. u \in 0 .. n-1
    BY <1>2
  <2> QED
    BY <2>2, <2>3 DEF ReleaseKids
<1> QED
  BY <1>3, <1>4, <1>5

\* Every thread has a level in the hierarchy.
LEMMA LevelsCount == \A t : MyLevel(t) \in Nat
<1> TAKE t
<1>1. Depth \in Nat /\ Depth > 1
  BY BarrierAssumption
<1> DEFINE Ends == {d \in 0 .. Depth-2 : d = Depth - 2 \/ t % A^(d+1) # 0}
<1>2. PICK d \in Ends : \A e \in Ends : d <= e
  <2>1. Ends \in SUBSET Nat /\ Depth - 2 \in Ends
    BY <1>1
  <2> HIDE DEF Ends
  <2> QED
    BY <2>1, LeastNumber
<1>3. \A e \in 0 .. d-1 : t % A^(e+1) = 0
  <2> TAKE e \in 0 .. d-1
  <2>1. e \in 0 .. Depth-2 /\ ~(d <= e)
    BY <1>1
  <2> QED
    BY <1>2, <2>1
<1> DEFINE Is(c) == /\ c = Depth - 2 \/ t % A^(c+1) # 0
                    /\ \A e \in 0 .. c-1 : t % A^(e+1) = 0
<1>4. \E c \in 0 .. Depth-2 : Is(c)
  BY <1>2, <1>3
<1>5. MyLevel(t) = IF t = 0 THEN Depth - 1 ELSE CHOOSE c \in 0 .. Depth-2 : Is(c)
  BY DEF MyLevel
<1>6. (CHOOSE c \in 0 .. Depth-2 : Is(c)) \in 0 .. Depth-2
  <2> HIDE DEF Is
  <2> QED
    BY <1>4
<1> QED
  BY <1>1, <1>5, <1>6

\* A step that touches no ICVs, and brings no worker on its way.
LEMMA IcvsStay ==
  ASSUME Icvs, UNCHANGED <<release, nproc, region, icvs>>,
         \A t \in Members \ {0} : /\ OutOfFork(t)' => OutOfFork(t)
                                  /\ Going(t)' => Going(t)
                                  /\ Passing(t)' => Passing(t)
  PROVE  Icvs'
<1>1. /\ Members' = Members
      /\ \A t : Right(t)' <=> Right(t)
      /\ icv' = icv /\ fixed' = fixed /\ region' = region /\ release' = release
  BY DEF Members, Right, icvs
<1>2. ASSUME release # "tree", NEW t \in Members \ {0}
      PROVE  OnTheWay(t)'
  <2>1. OnTheWay(t)
    BY <1>2 DEF Icvs
  <2>2. /\ OutOfFork(t)' => OutOfFork(t)
        /\ Going(t)' => Going(t)
        /\ Passing(t)' => Passing(t)
    OBVIOUS
  <2> QED
    BY <1>1, <2>1, <2>2 DEF OnTheWay
<1> QED
  BY <1>1, <1>2 DEF Icvs

LEMMA ForkIcvs ==
  ASSUME IInv, NEW n \in Sizes, Fork(n)
  PROVE  Icvs'
<1>1. /\ pc[0] = "serial" /\ ~g_done /\ region' = region + 1 /\ nproc' = n
      /\ icv' = [t \in Threads |-> IF t = 0 \/ (release = "linear" /\ t < n) THEN region' ELSE icv[t]]
      /\ fixed' = IF release \in {"hyper", "hierarchical"} THEN [fixed EXCEPT ![0] = region'] ELSE fixed
      /\ k' = [t \in Threads |-> IF t < n THEN 0 ELSE k[t]]
      /\ pc' = [pc EXCEPT ![0] = "release"]
      /\ UNCHANGED <<config, go>>
  BY DEF Fork, Resize, StoreIcvs, StartRelease, Goto
<1>2. /\ TypeOK /\ 0 \in Threads
      /\ \A t \in Workers : pc[t] = "wait_go" /\ go["forkjoin"][t] = 0
  BY <1>1, AllWait, TeamOf DEF Types
<1>3. n \in 2 .. N /\ N \in Nat
  BY BarrierAssumption
<1>4. Members' = 0 .. n-1 /\ Members' \subseteq Threads /\ Members' \ {0} \subseteq Workers
  BY <1>1, <1>3 DEF Members, Threads, Workers
<1>5. Right(0)' /\ (release' \in {"hyper", "hierarchical"} => fixed'[0] = region')
  BY <1>1, <1>2 DEF Right, config, TypeOK
<1>6. ASSUME NEW t \in Members' \ {0}
      PROVE  OnTheWay(t)'
  <2>1. t \in Threads /\ t \in Workers /\ t < n
    BY <1>3, <1>4
  <2>2. k'[t] = 0 /\ pc'[t] = "wait_go" /\ go'["forkjoin"][t] = 0
    BY <1>1, <1>2, <2>1 DEF TypeOK, Workers
  <2>3. ~OutOfFork(t)' /\ ~Going(t)' /\ ~Passing(t)'
    BY <2>2 DEF OutOfFork, Going, Passing
  <2>4. release' = "linear" => Right(t)'
    BY <1>1, <2>1 DEF Right, config
  <2> QED
    BY <2>3, <2>4 DEF OnTheWay
<1> QED
  BY <1>5, <1>6 DEF Icvs

LEMMA SetNumThreadsIcvs ==
  ASSUME IInv, Icvs, NEW t \in Threads, SetNumThreads(t)
  PROVE  Icvs'
<1>1. /\ pc[t] = "work" /\ t \in Setters /\ icv' = [icv EXCEPT ![t] = UserIcv]
      /\ UNCHANGED <<config, nproc, region, go, fixed, pc, k>> /\ TypeOK
  BY DEF SetNumThreads, IInv, flags
<1>2. \A u \in Threads : Right(u) => Right(u)'
  BY <1>1 DEF Right, TypeOK
<1>3. Members' = Members /\ release' = release /\ Members \subseteq Threads /\ 0 \in Threads
  BY <1>1, TeamOf DEF Members, config
<1>4. ASSUME release # "tree", NEW u \in Members \ {0}
      PROVE  OnTheWay(u)'
  <2>1. OnTheWay(u) /\ u \in Threads
    BY <1>3, <1>4 DEF Icvs
  <2>2. (OutOfFork(u)' <=> OutOfFork(u)) /\ (Going(u)' <=> Going(u)) /\ (Passing(u)' <=> Passing(u))
    BY <1>1 DEF OutOfFork, Going, Passing
  <2>3. Passing(u) => icv'[u] = icv[u]
    BY <1>1, <2>1 DEF Passing, TypeOK
  <2> QED
    BY <1>1, <1>2, <1>3, <2>1, <2>2, <2>3 DEF OnTheWay
<1> QED
  BY <1>1, <1>2, <1>3, <1>4 DEF Icvs

LEMMA ResetGoIcvs ==
  ASSUME IInv, Icvs, ~g_done, NEW t \in Threads, ResetGo(t)
  PROVE  Icvs'
<1>1. /\ TypeOK /\ Running /\ t \in Members \ {0} /\ nproc \in Sizes /\ nproc > 1
      /\ k[t] = Past /\ k[t] < JoinStep /\ k[t] \in 0 .. JoinStep /\ JoinStep \in Nat
      /\ pc[t] = "reset_go" /\ BeforeRelease(t)
      /\ body \in Bodies /\ <<gather, release>> \in Patterns
      /\ Members \subseteq Threads /\ 0 \in Members
  <2>1. IsLetGo(t) /\ pc[t] = "reset_go"
    BY DEF ResetGo, IsLetGo
  <2>2. TypeOK
    BY DEF IInv
  <2> QED
    BY <2>1, <2>2, LetGo, TeamOf
<1>2. /\ go' = [go EXCEPT ![Bt(t)][t] = 0] /\ pc' = [pc EXCEPT ![t] = "release"]
      /\ PullIcvs(t)
      /\ UNCHANGED <<config, nproc, region, k>>
  BY DEF ResetGo, Goto
<1>3. /\ Members' = Members /\ release' = release /\ region' = region /\ k' = k
      /\ \A u \in Threads \ {t} : pc'[u] = pc[u] /\ go'["forkjoin"][u] = go["forkjoin"][u]
      /\ pc'[t] = "release"
  BY <1>1, <1>2, TypesOfBarriers DEF Members, config, TypeOK, Types, Bt
<1>4. ASSUME NEW u \in Members \ {0}, u # t
      PROVE  (OutOfFork(u)' <=> OutOfFork(u)) /\ (Going(u)' <=> Going(u)) /\ (Passing(u)' <=> Passing(u))
  BY <1>1, <1>3, <1>4 DEF OutOfFork, Going, Passing
<1>5. ~Going(t)' /\ (OutOfFork(t)' => OutOfFork(t)) /\ (Passing(t)' => Going(t))
  BY <1>1, <1>3 DEF OutOfFork, Going, Passing
<1>6. CASE k[t] # 0 \/ release # "hierarchical"
  <2>1. UNCHANGED icvs
    <3>1. k[t] # 0 => Bt(t) # "forkjoin"
      BY <1>1, TypesOfBarriers DEF Bt, TypeOf
    <3> QED
      BY <1>2, <1>6, <3>1 DEF PullIcvs
  <2>2. \A u : Right(u)' <=> Right(u)
    BY <2>1, <1>3 DEF Right, icvs
  <2>3. ASSUME release # "tree", NEW u \in Members \ {0}
        PROVE  OnTheWay(u)'
    <3>1. OnTheWay(u)
      BY <2>3 DEF Icvs
    <3>2. ~(release = "hierarchical" /\ Passing(t)')
      BY <1>3, <1>6 DEF Passing
    <3> QED
      BY <1>3, <1>4, <1>5, <2>1, <2>2, <3>1, <3>2 DEF OnTheWay, icvs
  <2> QED
    BY <1>3, <2>1, <2>2, <2>3 DEF Icvs, icvs
<1>7. CASE k[t] = 0 /\ release = "hierarchical"
  <2>1. /\ ParentInHierarchy(t) \in Members /\ t \in Members
        /\ t \in Range(ReleaseKids(ParentInHierarchy(t), nproc))
    BY <1>1, <1>7, HierarchyTree DEF Members
  <2>2. fixed[ParentInHierarchy(t)] = region
    BY <1>1, <1>7 DEF Icvs, OnTheWay, Going
  <2>3. IF MyLevel(t) = 0 THEN icv' = [icv EXCEPT ![t] = region] /\ fixed' = fixed
        ELSE fixed' = [fixed EXCEPT ![t] = region] /\ icv' = icv
    BY <1>1, <1>2, <1>7, <2>2, TypesOfBarriers DEF PullIcvs, Bt, TypeOf
  <2>4. /\ \A u \in Threads : u # t => icv'[u] = icv[u] /\ fixed'[u] = fixed[u]
        /\ IF MyLevel(t) = 0 THEN icv'[t] = region ELSE fixed'[t] = region
    BY <1>1, <2>3 DEF TypeOK
  <2>5. \A u \in Threads : Right(u) => Right(u)'
    BY <1>1, <1>3, <2>3, <2>4 DEF Right
  <2>6. ASSUME NEW u \in Members \ {0}
        PROVE  OnTheWay(u)'
    <3>1. OnTheWay(u) /\ u \in Threads
      BY <1>1, <1>7 DEF Icvs
    <3>2. CASE u = t
      BY <1>3, <1>5, <1>7, <2>4, <2>5, <3>1, <3>2 DEF OnTheWay
    <3>3. CASE u # t
      <4>1. (OutOfFork(u)' <=> OutOfFork(u)) /\ (Going(u)' <=> Going(u)) /\ (Passing(u)' <=> Passing(u))
        BY <1>4, <3>3
      <4>2. Going(u) => ParentInHierarchy(u) # t
        <5> SUFFICES ASSUME Going(u), ParentInHierarchy(u) = t
                     PROVE  FALSE
          OBVIOUS
        <5>1. u \in Range(ReleaseKids(t, nproc))
          BY <1>1, <1>7, HierarchyTree DEF Members
        <5>2. Parked(u)
          BY <1>1, <5>1 DEF Running, Releasing, ReleaseOf
        <5> QED
          BY <1>1, <5>2, TypesOfBarriers DEF Parked, Going, Bt
      <4>3. Going(u) => ParentInHierarchy(u) \in Threads
        BY <1>1, <1>7, HierarchyTree DEF Members
      <4> QED
        BY <1>3, <1>7, <2>4, <2>5, <3>1, <3>3, <4>1, <4>2, <4>3 DEF OnTheWay
    <3> QED
      BY <3>2, <3>3
  <2>7. Right(0)' /\ fixed'[0] = region'
    BY <1>1, <1>3, <1>7, <2>4, <2>5 DEF Icvs
  <2> QED
    BY <1>3, <1>7, <2>6, <2>7 DEF Icvs
<1> QED
  BY <1>6, <1>7

LEMMA ReleaseChildIcvs ==
  ASSUME IInv, Icvs, NEW t \in Threads, ReleaseChild(t)
  PROVE  Icvs'
<1>1. /\ TypeOK /\ Running /\ t \in Members /\ nproc \in Sizes /\ nproc > 1
      /\ k[t] = Past /\ k[t] < JoinStep /\ k[t] \in 0 .. JoinStep /\ JoinStep \in Nat /\ pc[t] = "release"
      /\ body \in Bodies /\ <<gather, release>> \in Patterns
      /\ Members \subseteq Threads /\ 0 \in Members
  BY Active, TeamOf DEF ReleaseChild, TypeOK
<1>2. /\ todo[t] # << >> /\ PushIcvs(t, Head(todo[t]))
      /\ go' = [go EXCEPT ![Bt(t)][Head(todo[t])] = @ + BUMP]
      /\ UNCHANGED <<config, nproc, region, pc, k>>
  BY DEF ReleaseChild
<1>3. Head(todo[t]) \in Range(ReleaseKids(t, nproc)) /\ Parked(Head(todo[t]))
  <2>1. /\ todo[t] \in Seq(Workers) /\ IsInjective(todo[t])
        /\ Range(todo[t]) \subseteq Range(ReleaseKids(t, nproc))
        /\ \A c \in Range(todo[t]) : Parked(c)
    BY <1>1 DEF TypeOK, Running, Releasing, ReleaseOf
  <2>2. Head(todo[t]) \in Range(todo[t])
    BY <1>2, <2>1, Popped
  <2> QED
    BY <2>1, <2>2
<1>4. PICK c \in Members \ {0} : c = Head(todo[t])
  BY <1>1, <1>3, TeamTrees, TeamOf DEF Members
<1>5. c \in Range(ReleaseKids(t, nproc)) /\ k[c] = k[t] /\ pc[c] = "wait_go"
  BY <1>1, <1>3, <1>4 DEF Parked
<1>6. /\ Members' = Members /\ release' = release /\ region' = region /\ k' = k /\ pc' = pc
      /\ \A u \in Threads \ {c} : go'["forkjoin"][u] = go["forkjoin"][u]
  <2>1. go \in [Types -> [Threads -> {0, BUMP}]] /\ "forkjoin" \in Types
    BY <1>1 DEF TypeOK, Types
  <2> QED
    BY <1>2, <1>4, <2>1 DEF Members, config
<1>7. \A u \in Members : OutOfFork(u)' <=> OutOfFork(u)
  BY <1>6 DEF OutOfFork
<1>8. \A u \in Members : Passing(u)' <=> Passing(u)
  BY <1>6 DEF Passing
<1>9. \A u \in Members \ {c} : Going(u)' <=> Going(u)
  BY <1>1, <1>6 DEF Going
<1>10. Going(c)' => k[t] = 0
  BY <1>5, <1>6 DEF Going
<1>11. ~Passing(c) /\ (OutOfFork(c) => k[t] # 0)
  BY <1>5 DEF Passing, OutOfFork
<1>12. CASE k[t] = 0 /\ release = "hyper"
  <2>1. fixed' = [fixed EXCEPT ![c] = fixed[t]] /\ icv' = icv
    BY <1>2, <1>4, <1>12 DEF PushIcvs
  <2>2. fixed[t] = region
    BY <1>1, <1>12 DEF Icvs, OnTheWay, Passing
  <2>3. fixed'[c] = region /\ \A u \in Members \ {c} : fixed'[u] = fixed[u]
    BY <1>1, <1>4, <2>1, <2>2 DEF TypeOK
  <2>4. \A u : Right(u)' <=> Right(u)
    BY <1>6, <2>1 DEF Right
  <2>5. ASSUME NEW u \in Members \ {0}
        PROVE  OnTheWay(u)'
    <3>1. OnTheWay(u)
      BY <1>12 DEF Icvs
    <3> QED
      BY <1>6, <1>7, <1>8, <1>9, <1>12, <2>3, <2>4, <3>1 DEF OnTheWay
  <2> QED
    BY <1>1, <1>4, <1>6, <2>3, <2>4, <2>5 DEF Icvs
<1>13. CASE k[t] # 0 \/ release \notin {"hyper", "tree"}
  <2>1. icv' = icv /\ fixed' = fixed
    BY <1>2, <1>13 DEF PushIcvs, icvs
  <2>2. \A u : Right(u)' <=> Right(u)
    BY <1>6, <2>1 DEF Right
  <2>3. ASSUME release = "hierarchical", Going(c)'
        PROVE  fixed[ParentInHierarchy(c)] = region
    <3>1. ParentInHierarchy(c) = t /\ MyLevel(t) # 0
      BY <1>1, <1>5, <2>3, HierarchyTree DEF Members
    <3>2. Passing(t)
      BY <1>1, <1>10, <2>3 DEF Passing
    <3> QED
      BY <1>1, <2>3, <3>1, <3>2 DEF Icvs, OnTheWay
  <2>4. ASSUME release # "tree", NEW u \in Members \ {0}
        PROVE  OnTheWay(u)'
    <3>1. OnTheWay(u)
      BY <2>4 DEF Icvs
    <3>2. CASE u # c
      BY <1>6, <1>7, <1>8, <1>9, <2>1, <2>2, <3>1, <3>2 DEF OnTheWay
    <3>3. CASE u = c
      <4>1. ~(release = "hyper" /\ Going(c)')
        BY <1>10, <1>13
      <4> QED
        BY <1>6, <1>7, <1>8, <1>11, <2>1, <2>2, <2>3, <3>1, <3>3, <4>1 DEF OnTheWay
    <3> QED
      BY <3>2, <3>3
  <2> QED
    BY <1>6, <2>1, <2>2, <2>4 DEF Icvs
<1>14. CASE k[t] = 0 /\ release = "tree"
  <2>1. icv' = [icv EXCEPT ![c] = icv[0]] /\ fixed' = fixed
    BY <1>2, <1>4, <1>14 DEF PushIcvs
  <2>2. Right(0)'
    BY <1>1, <1>4, <1>6, <2>1 DEF Icvs, Right, TypeOK
  <2> QED
    BY <1>6, <1>14, <2>2 DEF Icvs
<1> QED
  BY <1>12, <1>13, <1>14

LEMMA FinishReleaseIcvs ==
  ASSUME IInv, Icvs, NEW t \in Threads, FinishRelease(t)
  PROVE  Icvs'
<1>1. /\ pc[t] = "release"
      /\ icv' = IF k[t] = 0 /\ t # 0 /\ KeepsOwnFixed(t) THEN [icv EXCEPT ![t] = fixed[t]] ELSE icv
      /\ pc' = [pc EXCEPT ![t] = "work"]
      /\ UNCHANGED <<config, nproc, region, go, fixed, k>>
  BY DEF FinishRelease, Goto, flags
<1>2. /\ TypeOK /\ t \in Members /\ Members \subseteq Threads /\ 0 \in Members
      /\ <<gather, release>> \in Patterns
  BY <1>1, Active, TeamOf DEF TypeOK
<1>3. release \in PatternNames
  BY <1>2, BarrierAssumption
<1>4. /\ Members' = Members /\ release' = release /\ region' = region /\ k' = k /\ go' = go
      /\ fixed' = fixed
      /\ pc'[t] = "work" /\ \A u \in Threads : u # t => pc'[u] = pc[u] /\ icv'[u] = icv[u]
  BY <1>1, <1>2 DEF Members, config, TypeOK
<1>5. ASSUME release # "tree", t # 0
      PROVE  Right(t)'
  <2>1. OnTheWay(t)
    BY <1>2, <1>5 DEF Icvs
  <2>2. CASE k[t] # 0
    <3>1. Right(t) /\ icv' = icv
      BY <1>1, <2>1, <2>2 DEF OnTheWay, OutOfFork
    <3> QED
      BY <1>4, <3>1 DEF Right
  <2>3. CASE k[t] = 0 /\ KeepsOwnFixed(t)
    <3>1. fixed[t] = region
      BY <1>1, <2>1, <2>3 DEF OnTheWay, Passing, KeepsOwnFixed
    <3> QED
      BY <1>1, <1>2, <1>4, <1>5, <2>3, <3>1 DEF Right, TypeOK
  <2>4. CASE k[t] = 0 /\ ~KeepsOwnFixed(t)
    <3>1. icv' = icv
      BY <1>1, <2>4
    <3>2. Right(t)
      <4>1. CASE release = "linear"
        BY <2>1, <4>1 DEF OnTheWay
      <4>2. CASE release = "hierarchical"
        BY <1>1, <2>1, <2>4, <4>2, LevelsCount DEF OnTheWay, Passing, KeepsOwnFixed, Right
      <4> QED
        BY <1>3, <1>5, <2>4, <4>1, <4>2 DEF PatternNames, KeepsOwnFixed
    <3> QED
      BY <1>4, <3>1, <3>2 DEF Right
  <2> QED
    BY <2>2, <2>3, <2>4
<1>6. ASSUME release # "tree", NEW u \in Members \ {0}
      PROVE  OnTheWay(u)'
  <2>1. OnTheWay(u) /\ u \in Threads
    BY <1>2, <1>6 DEF Icvs
  <2>2. CASE u = t
    <3>1. ~Going(t)' /\ ~Passing(t)'
      BY <1>4 DEF Going, Passing
    <3> QED
      BY <1>5, <1>6, <2>2, <3>1 DEF OnTheWay
  <2>3. CASE u # t
    <3>1. (OutOfFork(u)' <=> OutOfFork(u)) /\ (Going(u)' <=> Going(u)) /\ (Passing(u)' <=> Passing(u))
      BY <1>4, <2>1, <2>3 DEF OutOfFork, Going, Passing
    <3>2. (Right(u)' <=> Right(u)) /\ icv'[u] = icv[u]
      BY <1>4, <2>1, <2>3 DEF Right
    <3> QED
      BY <1>4, <2>1, <3>1, <3>2 DEF OnTheWay
  <2> QED
    BY <2>2, <2>3
<1>7. Right(0)'
  <2>1. icv'[0] = icv[0]
    BY <1>1, <1>2, <1>4
  <2> QED
    BY <1>4, <2>1 DEF Right, Icvs
<1> QED
  BY <1>4, <1>6, <1>7 DEF Icvs

\* The ICVs of the fork are where the release has brought them.
LEMMA IcvsPreserved == IInv /\ Icvs /\ [Next]_vars => Icvs'
<1> SUFFICES ASSUME IInv, Icvs, [Next]_vars
             PROVE  Icvs'
  OBVIOUS
<1>0. TypeOK /\ Members \subseteq Threads /\ 0 \in Threads /\ JoinStep \in Nat
  BY TeamOf, TypesOfBarriers DEF IInv, TypeOK
<1>1. ASSUME NEW t \in Threads, Enter(t)
      PROVE  Icvs'
  <2>1. /\ pc[t] = "work" /\ k' = [k EXCEPT ![t] = k[t] + 1] /\ pc' = [pc EXCEPT ![t] = "gather"]
        /\ UNCHANGED <<config, nproc, region, go, icvs>>
    BY <1>1 DEF Enter, Goto, flags
  <2>2. k[t] + 1 # 0
    BY <1>0, SMTT(20) DEF TypeOK
  <2>3. \A u \in Members \ {0} : /\ OutOfFork(u)' => OutOfFork(u)
                                 /\ Going(u)' => Going(u)
                                 /\ Passing(u)' => Passing(u)
    BY <1>0, <2>1, <2>2 DEF OutOfFork, Going, Passing, TypeOK
  <2> QED
    BY <2>1, <2>3, IcvsStay DEF config
<1>2. ASSUME NEW t \in Threads, Report(t)
      PROVE  Icvs'
  <2>1. /\ pc[t] = "gather" /\ k' = k /\ pc' = [pc EXCEPT ![t] = "wait_go"]
        /\ UNCHANGED <<config, nproc, region, go, icvs>>
    BY <1>2 DEF Report, Goto
  <2>2. k[t] # 0
    <3>1. k[t] = Past + 1 /\ k[t] \in 0 .. JoinStep /\ Past \in -1 .. JoinStep /\ Running
      BY <2>1, Active
    <3>2. Past # -1
      <4>1. k[0] \in 0 .. JoinStep
        BY <1>0 DEF TypeOK
      <4> QED
        BY <1>0, <3>1, <4>1 DEF Running, Position, Past
    <3> QED
      BY <3>1, <3>2
  <2>3. \A u \in Members \ {0} : /\ OutOfFork(u)' => OutOfFork(u)
                                 /\ Going(u)' => Going(u)
                                 /\ Passing(u)' => Passing(u)
    BY <1>0, <2>1, <2>2 DEF OutOfFork, Going, Passing, TypeOK
  <2> QED
    BY <2>1, <2>3, IcvsStay DEF config
<1>3. ASSUME NEW t \in Threads, SeeGo(t) \/ SeeDone(t)
      PROVE  Icvs'
  <2>1. /\ pc[t] = "wait_go" /\ k' = k /\ pc' = [pc EXCEPT ![t] = "reset_go"]
        /\ UNCHANGED <<config, nproc, region, go, icvs>>
    BY <1>3 DEF SeeGo, SeeDone, Goto, flags
  <2>2. k[t] = 0 => go["forkjoin"][t] # 0
    <3>1. CASE g_done
      <4>1. t \in Workers
        BY <1>0, <2>1, <3>1, TeamOf DEF IInv, Reaping
      <4>2. JoinStep # 0
        BY <1>0, TypesOfBarriers DEF TypeOK
      <4> QED
        BY <3>1, <4>1, <4>2 DEF IInv, Reaping
    <3>2. CASE ~g_done
      <4>1. go[Bt(t)][t] = BUMP
        BY <1>3, <3>2 DEF SeeGo, SeeDone
      <4>2. k[t] = 0 => Bt(t) = "forkjoin"
        BY DEF Bt, TypeOf
      <4> QED
        BY <4>1, <4>2 DEF BUMP
    <3> QED
      BY <3>1, <3>2
  <2>3. \A u \in Members \ {0} : /\ OutOfFork(u)' => OutOfFork(u)
                                 /\ Going(u)' => Going(u)
                                 /\ Passing(u)' => Passing(u)
    BY <1>0, <2>1, <2>2 DEF OutOfFork, Going, Passing, TypeOK
  <2> QED
    BY <2>1, <2>3, IcvsStay DEF config
<1>4. ASSUME g_done, Reap \/ \E t \in Threads : ResetGo(t)
      PROVE  Icvs'
  <2>1. JoinStep # 0 /\ \A t \in Workers : k[t] = JoinStep
    BY <1>0, <1>4, TypesOfBarriers DEF IInv, TypeOK, Reaping
  <2>2. k' = k /\ UNCHANGED <<config, nproc, region, icvs>>
    <3>1. CASE Reap
      BY <3>1 DEF Reap
    <3>2. ASSUME NEW t \in Threads, ResetGo(t)
          PROVE  k' = k /\ UNCHANGED <<config, nproc, region, icvs>>
      <4>1. t \in Workers /\ Bt(t) = "forkjoin"
        <5>1. pc[t] = "reset_go"
          BY <3>2 DEF ResetGo
        <5>2. t # 0
          BY <1>4, <5>1 DEF IInv, Reaping
        <5>3. t \in Workers
          BY <1>0, <5>2, TeamOf
        <5> QED
          BY <2>1, <5>3, TypesOfBarriers, <1>0 DEF Bt, TypeOK
      <4> QED
        BY <1>4, <3>2, <4>1 DEF ResetGo, icvs
    <3> QED
      BY <1>4, <3>1, <3>2
  <2>3. \A u \in Members \ {0} : OutOfFork(u) /\ ~Going(u)' /\ ~Passing(u)'
    BY <1>0, <2>1, <2>2, TeamOf DEF OutOfFork, Going, Passing
  <2> QED
    BY <2>2, <2>3, IcvsStay DEF config
<1>5. CASE Gathered \/ EndSplit \/ Shutdown
  <2>1. /\ k' = k /\ UNCHANGED <<config, nproc, region, go, icvs>>
        /\ \E l \in {"serial", "final", "release", "reap"} : pc' = [pc EXCEPT ![0] = l]
    BY <1>5 DEF Gathered, EndSplit, Shutdown, StartRelease, Goto, flags
  <2>2. \A u \in Members \ {0} : /\ OutOfFork(u)' => OutOfFork(u)
                                 /\ Going(u)' => Going(u)
                                 /\ Passing(u)' => Passing(u)
    BY <1>0, <2>1 DEF OutOfFork, Going, Passing, TypeOK
  <2> QED
    BY <2>1, <2>2, IcvsStay DEF config
<1>6. ASSUME \/ \E t \in Threads : GatherChild(t)
             \/ UNCHANGED vars
      PROVE  Icvs'
  <2>1. UNCHANGED <<config, nproc, region, go, icvs, pc, k>>
    BY <1>6 DEF GatherChild, vars, flags
  <2>2. \A u \in Members \ {0} : /\ OutOfFork(u)' => OutOfFork(u)
                                 /\ Going(u)' => Going(u)
                                 /\ Passing(u)' => Passing(u)
    BY <2>1 DEF OutOfFork, Going, Passing
  <2> QED
    BY <2>1, <2>2, IcvsStay DEF config
<1>7. ASSUME NEW t \in Threads, ResetGo(t), ~g_done
      PROVE  Icvs'
  BY <1>7, ResetGoIcvs
<1>8. ASSUME NEW t \in Threads, SetNumThreads(t) \/ ReleaseChild(t) \/ FinishRelease(t)
      PROVE  Icvs'
  BY <1>8, SetNumThreadsIcvs, ReleaseChildIcvs, FinishReleaseIcvs
<1>9. ASSUME NEW n \in Sizes, Fork(n)
      PROVE  Icvs'
  BY <1>9, ForkIcvs
<1>10. CASE Reap
  <2>1. g_done
    BY <1>10 DEF Reap, IInv, Running, Position
  <2> QED
    BY <1>4, <1>10, <2>1
<1>11. CASE Terminated
  BY <1>6, <1>11 DEF Terminated
<1> QED
  BY <1>1, <1>2, <1>3, <1>4, <1>5, <1>6, <1>7, <1>8, <1>9, <1>10, <1>11 DEF Next, Master, Inside

\* Unless the release is the plain tree's, a member gets out of the fork barrier with
\* the ICVs of the fork, and nothing that a slower thread does overwrites them: they
\* are pushed before the child is let go and pulled before it goes on.
THEOREM BarrierIcvs == Spec => []IcvsPropagated
<1>1. Init => Icvs
  BY BarrierAssumption DEF Init, Icvs, Right, OnTheWay, Members, Threads
<1>2. IInv /\ Icvs /\ [Next]_vars => Icvs'
  BY IcvsPreserved
<1>3. IInv /\ Icvs => IcvsPropagated
  <2> SUFFICES ASSUME IInv, Icvs, release # "tree", NEW t \in Threads
               PROVE  HasIcvs(t)
    BY DEF IcvsPropagated
  <2>1. t \in Members => Right(t) \/ ~OutOfFork(t)
    BY DEF Icvs, OnTheWay
  <2>2. k[t] \in 1 .. BodyLength => k[t] # 0
    BY BarrierAssumption
  <2> QED
    BY <2>1, <2>2 DEF HasIcvs, Right, OutOfFork
<1> QED
  BY <1>1, <1>2, <1>3, Invariance, PTL DEF Spec

-----------------------------------------------------------------------------
(* The reduction. *)

\* The threads below t in a tree of n threads, with itself: the least set that has t
\* and everybody's children.
Closed(tree, n, S) == \A u \in 0 .. n-1 : u \in S => Range(tree[u]) \subseteq S
Below(tree, n, t) ==
  {u \in 0 .. n-1 : \A S \in SUBSET (0 .. n-1) : t \in S /\ Closed(tree, n, S) => u \in S}
Sub(t) == Below(GatherTree(gather, nproc), nproc, t)

\* Whose shares a thread has taken in, of those below it.
Taken(t) == Sub(t) \ UNION {Sub(c) : c \in Range(todo[t])}
HasShares(t, S) == data[t] = [u \in Threads |-> IF u \in S THEN 1 ELSE 0]

Shares == /\ \A t \in Members : pc[t] = "gather" /\ Reduces(k[t]) => HasShares(t, Taken(t))
          /\ \A t \in Members \ {0} : Came(t) /\ Reduces(k[t]) => HasShares(t, Sub(t))
          /\ pc[0] \in {"final", "release", "work"} /\ Reduces(k[0]) => HasShares(0, Members)

\* A thread is below itself, and what is below a child of it is below it.
LEMMA BelowClosed ==
  ASSUME NEW n \in Nat, NEW tree, IsTree(tree, n), NEW t \in 0 .. n-1
  PROVE  /\ t \in Below(tree, n, t) /\ Below(tree, n, t) \subseteq t .. n-1
         /\ Closed(tree, n, Below(tree, n, t))
         /\ \A S \in SUBSET (0 .. n-1) : t \in S /\ Closed(tree, n, S) => Below(tree, n, t) \subseteq S
<1>1. t \in Below(tree, n, t)
  BY DEF Below
<1>2. \A S \in SUBSET (0 .. n-1) : t \in S /\ Closed(tree, n, S) => Below(tree, n, t) \subseteq S
  BY DEF Below
<1>3. \A u \in 0 .. n-1 : Range(tree[u]) \subseteq u+1 .. n-1
  <2> TAKE u \in 0 .. n-1
  <2> SUFFICES ASSUME NEW c \in Range(tree[u])
               PROVE  c \in u+1 .. n-1
    OBVIOUS
  <2>1. c \in 1 .. n-1
    BY SeqInLarger DEF IsTree
  <2>2. PICK v \in 0 .. c-1 : c \in Range(tree[v])
    BY <2>1 DEF IsTree
  <2>3. v \in 0 .. n-1
    BY <2>1
  <2>4. v = u
    BY <2>2, <2>3 DEF IsTree
  <2> QED
    BY <2>1, <2>2, <2>4
<1>4. Closed(tree, n, Below(tree, n, t))
  <2> SUFFICES ASSUME NEW u \in 0 .. n-1, u \in Below(tree, n, t), NEW c \in Range(tree[u])
               PROVE  c \in Below(tree, n, t)
    BY DEF Closed
  <2>1. c \in 0 .. n-1
    BY <1>3
  <2>2. \A S \in SUBSET (0 .. n-1) : t \in S /\ Closed(tree, n, S) => c \in S
    BY DEF Below, Closed
  <2> QED
    BY <2>1, <2>2 DEF Below
<1>5. Below(tree, n, t) \subseteq t .. n-1
  <2>1. Closed(tree, n, t .. n-1)
    <3> SUFFICES ASSUME NEW u \in t .. n-1, NEW c \in Range(tree[u])
                 PROVE  c \in t .. n-1
      BY DEF Closed
    <3>1. u \in 0 .. n-1
      OBVIOUS
    <3>2. c \in u+1 .. n-1
      BY <1>3, <3>1
    <3> QED
      BY <3>2
  <2>2. t .. n-1 \in SUBSET (0 .. n-1) /\ t \in t .. n-1
    OBVIOUS
  <2> QED
    BY <1>2, <2>1, <2>2
<1> QED
  BY <1>1, <1>2, <1>4, <1>5

\* Who is below a thread, and is not it, has its parent there.
LEMMA ParentBelow ==
  ASSUME NEW n \in Nat, NEW tree, IsTree(tree, n), NEW t \in 0 .. n-1,
         NEW p \in 0 .. n-1, NEW u \in Range(tree[p]), u \in Below(tree, n, t), u # t
  PROVE  p \in Below(tree, n, t)
<1> SUFFICES ASSUME p \notin Below(tree, n, t)
             PROVE  FALSE
  OBVIOUS
<1> DEFINE B == Below(tree, n, t)
<1>1. t \in B /\ Closed(tree, n, B) /\ B \subseteq 0 .. n-1
  BY BelowClosed DEF Below
<1>2. Closed(tree, n, B \ {u})
  <2> SUFFICES ASSUME NEW v \in 0 .. n-1, v \in B \ {u}, NEW c \in Range(tree[v])
               PROVE  c \in B \ {u}
    BY DEF Closed
  <2>1. c \in B
    BY <1>1 DEF Closed
  <2>2. c # u
    BY DEF IsTree
  <2> QED
    BY <2>1, <2>2
<1>3. B \subseteq B \ {u}
  <2>1. B \ {u} \in SUBSET (0 .. n-1) /\ t \in B \ {u}
    BY <1>1
  <2> HIDE DEF B
  <2> QED
    BY <1>2, <2>1, BelowClosed DEF B
<1> QED
  BY <1>3

\* What is below two children of a thread has nothing in common, and is all there is
\* below it; and everybody is below the master.
LEMMA BelowParts ==
  ASSUME NEW n \in Nat, NEW tree, IsTree(tree, n), NEW t \in 0 .. n-1
  PROVE  /\ \A c \in Range(tree[t]) : c \in 1 .. n-1 /\ t \notin Below(tree, n, c)
         /\ \A c, d \in Range(tree[t]) :
              c # d => Below(tree, n, c) \cap Below(tree, n, d) = {}
         /\ Below(tree, n, t) = {t} \cup UNION {Below(tree, n, c) : c \in Range(tree[t])}
         /\ t = 0 => Below(tree, n, t) = 0 .. n-1
<1>1. \A c \in Range(tree[t]) : c \in 1 .. n-1 /\ c > t
  <2> TAKE c \in Range(tree[t])
  <2>1. c \in 1 .. n-1
    BY SeqInLarger DEF IsTree
  <2>2. PICK v \in 0 .. c-1 : c \in Range(tree[v])
    BY <2>1 DEF IsTree
  <2>3. v \in 0 .. n-1
    BY <2>1
  <2>4. v = t
    BY <2>2, <2>3 DEF IsTree
  <2> QED
    BY <2>1, <2>2, <2>4
<1>2. \A c \in Range(tree[t]) : t \notin Below(tree, n, c)
  <2> TAKE c \in Range(tree[t])
  <2>1. c \in 0 .. n-1 /\ t \notin c .. n-1
    BY <1>1
  <2> QED
    BY <2>1, BelowClosed
<1>3. ASSUME NEW c \in Range(tree[t]), NEW d \in Range(tree[t]), c # d
      PROVE  Below(tree, n, c) \cap Below(tree, n, d) = {}
  <2> SUFFICES ASSUME Below(tree, n, c) \cap Below(tree, n, d) # {}
               PROVE  FALSE
    OBVIOUS
  <2>1. c \in 0 .. n-1 /\ d \in 0 .. n-1
    BY <1>1
  <2>2. Below(tree, n, c) \cap Below(tree, n, d) \in SUBSET Nat
    BY DEF Below
  <2>3. PICK u \in Below(tree, n, c) \cap Below(tree, n, d) :
          \A v \in Below(tree, n, c) \cap Below(tree, n, d) : u <= v
    BY <2>2, LeastNumber
  <2>4. u # c
    <3>1. c \in Below(tree, n, d) => t \in Below(tree, n, d)
      BY <1>3, <2>1, ParentBelow
    <3> QED
      BY <1>2, <2>3, <3>1
  <2>5. u # d
    <3>1. d \in Below(tree, n, c) => t \in Below(tree, n, c)
      BY <1>3, <2>1, ParentBelow
    <3> QED
      BY <1>2, <2>3, <3>1
  <2>6. u \in 1 .. n-1
    <3>1. u \in c .. n-1
      BY <2>1, <2>3, BelowClosed
    <3> QED
      BY <1>1, <3>1
  <2>7. PICK p \in 0 .. u-1 : u \in Range(tree[p])
    BY <2>6 DEF IsTree
  <2>8. p \in 0 .. n-1 /\ p < u
    BY <2>6
  <2>9. p \in Below(tree, n, c) /\ p \in Below(tree, n, d)
    BY <2>1, <2>3, <2>4, <2>5, <2>7, <2>8, ParentBelow
  <2> QED
    BY <2>3, <2>6, <2>8, <2>9
<1>4. Below(tree, n, t) = {t} \cup UNION {Below(tree, n, c) : c \in Range(tree[t])}
  <2> DEFINE R == {t} \cup UNION {Below(tree, n, c) : c \in Range(tree[t])}
  <2>1. ASSUME NEW c \in Range(tree[t])
        PROVE  Below(tree, n, c) \subseteq Below(tree, n, t)
    <3>1. c \in Below(tree, n, t) /\ c \in 0 .. n-1 /\ Closed(tree, n, Below(tree, n, t))
      BY <1>1, <2>1, BelowClosed DEF Closed
    <3>2. Below(tree, n, t) \in SUBSET (0 .. n-1)
      BY DEF Below
    <3> QED
      BY <3>1, <3>2, BelowClosed
  <2>2. R \subseteq Below(tree, n, t)
    BY <2>1, BelowClosed
  <2>3. Closed(tree, n, R)
    <3> SUFFICES ASSUME NEW u \in 0 .. n-1, u \in R, NEW d \in Range(tree[u])
                 PROVE  d \in R
      BY DEF Closed
    <3>1. CASE u = t
      <4>1. d \in Below(tree, n, d)
        BY <1>1, <3>1, BelowClosed
      <4> QED
        BY <3>1, <4>1
    <3>2. CASE u # t
      <4>1. PICK c \in Range(tree[t]) : u \in Below(tree, n, c)
        BY <3>2
      <4>2. d \in Below(tree, n, c)
        BY <1>1, <4>1, BelowClosed DEF Closed
      <4> QED
        BY <4>2
    <3> QED
      BY <3>1, <3>2
  <2>4. R \in SUBSET (0 .. n-1) /\ t \in R
    BY <2>2 DEF Below
  <2>5. Below(tree, n, t) \subseteq R
    <3> HIDE DEF R
    <3> QED
      BY <2>3, <2>4, BelowClosed
  <2> QED
    BY <2>2, <2>5
<1>5. ASSUME t = 0
      PROVE  Below(tree, n, t) = 0 .. n-1
  <2>1. 0 .. n-1 \subseteq Below(tree, n, 0)
    <3>1. 0 \in Below(tree, n, 0) /\ Closed(tree, n, Below(tree, n, 0))
      BY <1>5, BelowClosed
    <3> QED
      BY <3>1, TreeReachesAll DEF Closed
  <2> QED
    BY <1>5, <2>1 DEF Below
<1> QED
  BY <1>1, <1>2, <1>3, <1>4, <1>5

\* The same, for the team of the run.
LEMMA SubParts ==
  ASSUME TypeOK, nproc > 1, NEW t \in Members
  PROVE  /\ nproc \in Sizes
         /\ \A c \in Range(GatherKids(t, nproc)) : c \in Members \ {0} /\ t \notin Sub(c)
         /\ \A c, d \in Range(GatherKids(t, nproc)) : c # d => Sub(c) \cap Sub(d) = {}
         /\ Sub(t) = {t} \cup UNION {Sub(c) : c \in Range(GatherKids(t, nproc))}
         /\ t = 0 => Sub(t) = Members
<1>1. nproc \in Sizes /\ nproc \in Nat /\ Members \ {0} = 1 .. nproc-1
  BY TeamOf
<1>2. IsTree(GatherTree(gather, nproc), nproc)
  BY <1>1, TeamTrees DEF TypeOK
<1>3. t \in 0 .. nproc-1 /\ Members = 0 .. nproc-1
  BY DEF Members
<1> DEFINE tree == GatherTree(gather, nproc)
<1>4. /\ \A c \in Range(tree[t]) : c \in 1 .. nproc-1 /\ t \notin Below(tree, nproc, c)
      /\ \A c, d \in Range(tree[t]) : c # d => Below(tree, nproc, c) \cap Below(tree, nproc, d) = {}
      /\ Below(tree, nproc, t) = {t} \cup UNION {Below(tree, nproc, c) : c \in Range(tree[t])}
      /\ t = 0 => Below(tree, nproc, t) = 0 .. nproc-1
  <2> HIDE DEF tree
  <2>1. IsTree(tree, nproc)
    BY <1>2 DEF tree
  <2> QED
    BY <1>1, <1>3, <2>1, BelowParts
<1> QED
  BY <1>1, <1>3, <1>4 DEF Sub, GatherKids

\* A step that leaves alone what has been gathered.
LEMMA SharesStay ==
  ASSUME Shares, UNCHANGED <<config, nproc, data>>,
         \A t \in Members : pc'[t] = "gather" => pc[t] = "gather" /\ k'[t] = k[t] /\ todo'[t] = todo[t],
         \A t \in Members \ {0} : Came(t)' => Came(t) /\ k'[t] = k[t],
         pc'[0] \in {"final", "release", "work"} =>
           pc[0] \in {"final", "release", "work"} /\ k'[0] = k[0]
  PROVE  Shares'
<1>1. /\ Members' = Members /\ \A t : Sub(t)' = Sub(t)
      /\ \A i : Reduces(i)' <=> Reduces(i)
  BY DEF Members, Sub, Reduces, config
<1>2. \A t : Reduces(k[t])' <=> Reduces(k'[t])
  BY DEF Reduces, config
<1>3. \A t \in Members : pc'[t] = "gather" => Taken(t)' = Taken(t)
  BY <1>1 DEF Taken
<1>4. \A t, S : HasShares(t, S) <=> data'[t] = [u \in Threads |-> IF u \in S THEN 1 ELSE 0]
  BY DEF HasShares
<1>5. ASSUME NEW t \in Members, pc'[t] = "gather", Reduces(k[t])'
      PROVE  HasShares(t, Taken(t))'
  <2>1. HasShares(t, Taken(t))
    BY <1>2, <1>5 DEF Shares
  <2> QED
    BY <1>3, <1>5, <2>1 DEF HasShares
<1>6. ASSUME NEW t \in Members \ {0}, Came(t)', Reduces(k[t])'
      PROVE  HasShares(t, Sub(t))'
  <2>1. HasShares(t, Sub(t))
    BY <1>2, <1>6 DEF Shares
  <2> QED
    BY <1>1, <2>1 DEF HasShares
<1>7. ASSUME pc'[0] \in {"final", "release", "work"}, Reduces(k[0])'
      PROVE  HasShares(0, Members)'
  <2>1. HasShares(0, Members)
    BY <1>2, <1>7 DEF Shares
  <2> QED
    BY <1>1, <2>1 DEF HasShares
<1> QED
  BY <1>1, <1>5, <1>6, <1>7 DEF Shares

LEMMA EnterShares ==
  ASSUME IInv, Shares, NEW t \in Threads, Enter(t)
  PROVE  Shares'
<1>0. /\ TypeOK /\ Running /\ t \in Members /\ nproc \in Sizes /\ nproc > 1
      /\ k[t] = Past /\ k[t] < JoinStep /\ k[t] \in 0 .. JoinStep /\ pc[t] = "work"
      /\ Members \subseteq Threads
  BY Active, TeamOf DEF Enter
<1>1. /\ pc' = [pc EXCEPT ![t] = "gather"] /\ k' = [k EXCEPT ![t] = k[t] + 1]
      /\ todo' = [todo EXCEPT ![t] = GatherKids(t, nproc)]
      /\ data' = IF Reduces(k[t] + 1) THEN [data EXCEPT ![t] = Share(t)] ELSE data
      /\ UNCHANGED <<config, nproc>>
  BY <1>0 DEF Enter, Goto, Running, Sized
<1>2. /\ Members' = Members /\ \A u : Sub(u)' = Sub(u)
      /\ pc'[t] = "gather" /\ k'[t] = k[t] + 1 /\ todo'[t] = GatherKids(t, nproc) /\ Past' = Past
      /\ \A u \in Threads : u # t => pc'[u] = pc[u] /\ k'[u] = k[u] /\ todo'[u] = todo[u]
                                     /\ data'[u] = data[u]
  <2>1. Members' = Members /\ \A u : Sub(u)' = Sub(u)
    BY <1>1 DEF Members, Sub, config
  <2> QED
    BY <1>0, <1>1, <2>1 DEF TypeOK, Past
<1>3. \A u : Reduces(k[u])' <=> Reduces(k'[u])
  BY <1>1 DEF Reduces, config
<1>4. ASSUME NEW u \in Members, pc'[u] = "gather", Reduces(k[u])'
      PROVE  HasShares(u, Taken(u))'
  <2>1. CASE u = t
    <3>1. Taken(t)' = {t}
      BY <1>0, <1>2, SubParts DEF Taken
    <3>2. data'[t] = Share(t)
      BY <1>0, <1>1, <1>2, <1>3, <1>4, <2>1 DEF TypeOK
    <3> QED
      BY <2>1, <3>1, <3>2 DEF HasShares, Share
  <2>2. CASE u # t
    <3>1. HasShares(u, Taken(u)) /\ Taken(u)' = Taken(u)
      BY <1>0, <1>2, <1>3, <1>4, <2>2 DEF Shares, Taken
    <3> QED
      BY <1>0, <1>2, <2>2, <3>1 DEF HasShares
  <2> QED
    BY <2>1, <2>2
<1>5. ASSUME NEW u \in Members \ {0}, Came(u)', Reduces(k[u])'
      PROVE  HasShares(u, Sub(u))'
  <2>1. u # t /\ Came(u) /\ k'[u] = k[u]
    BY <1>0, <1>2, <1>5 DEF Came
  <2>2. HasShares(u, Sub(u))
    BY <1>3, <1>5, <2>1 DEF Shares
  <2> QED
    BY <1>0, <1>2, <2>1, <2>2 DEF HasShares
<1>6. ASSUME pc'[0] \in {"final", "release", "work"}, Reduces(k[0])'
      PROVE  HasShares(0, Members)'
  <2>1. t # 0 /\ 0 \in Threads
    BY <1>0, <1>2, <1>6, TeamOf
  <2>2. HasShares(0, Members)
    BY <1>2, <1>3, <1>6, <2>1 DEF Shares
  <2> QED
    BY <1>2, <2>1, <2>2 DEF HasShares
<1> QED
  BY <1>2, <1>4, <1>5, <1>6 DEF Shares

LEMMA GatherChildShares ==
  ASSUME IInv, Shares, NEW t \in Threads, GatherChild(t)
  PROVE  Shares'
<1>0. /\ TypeOK /\ Running /\ t \in Members /\ nproc \in Sizes /\ nproc > 1
      /\ k[t] = Past + 1 /\ k[t] \in 0 .. JoinStep /\ pc[t] = "gather"
      /\ Members \subseteq Threads
  BY Active, TeamOf DEF GatherChild
<1>1. /\ todo[t] # << >> /\ todo' = [todo EXCEPT ![t] = Tail(todo[t])]
      /\ data' = IF Reduces(k[t])
                 THEN [data EXCEPT ![t] = [u \in Threads |-> data[t][u] + data[Head(todo[t])][u]]]
                 ELSE data
      /\ UNCHANGED <<config, nproc, pc, k>>
  BY DEF GatherChild
<1>2. /\ todo[t] \in Seq(Workers) /\ IsInjective(todo[t])
      /\ Range(todo[t]) \subseteq Range(GatherKids(t, nproc))
  BY <1>0 DEF TypeOK, Running, Gathering, GatherOf
<1>3. Head(todo[t]) \in Range(todo[t]) /\ Range(Tail(todo[t])) = Range(todo[t]) \ {Head(todo[t])}
  BY <1>1, <1>2, Popped
<1>4. PICK c \in Members \ {0} : c = Head(todo[t])
  BY <1>0, <1>2, <1>3, SubParts
<1>5. c \in Range(GatherKids(t, nproc)) /\ Came(c) /\ k[c] = k[t] /\ c # t
  <2>1. c \in Range(GatherKids(t, nproc))
    BY <1>2, <1>3, <1>4
  <2>2. Came(c)
    BY <1>4, GatheredCame
  <2> QED
    BY <1>0, <2>1, <2>2 DEF Came
<1>6. /\ Members' = Members /\ \A u : Sub(u)' = Sub(u) /\ k' = k /\ pc' = pc
      /\ \A u : Reduces(k[u])' <=> Reduces(k[u])
      /\ \A u : Came(u)' <=> Came(u)
      /\ \A u \in Threads : u # t => todo'[u] = todo[u] /\ data'[u] = data[u]
      /\ todo'[t] = Tail(todo[t])
  <2>1. Members' = Members /\ \A u : Sub(u)' = Sub(u)
    BY <1>1 DEF Members, Sub, config
  <2>2. \A u : (Reduces(k[u])' <=> Reduces(k[u])) /\ (Came(u)' <=> Came(u))
    BY <1>1 DEF Reduces, Came, Past, config
  <2> QED
    BY <1>0, <1>1, <2>1, <2>2 DEF TypeOK
<1>7. ASSUME Reduces(k[t])
      PROVE  HasShares(t, Taken(t))'
  <2>1. HasShares(t, Taken(t)) /\ HasShares(c, Sub(c))
    BY <1>0, <1>4, <1>5, <1>7 DEF Shares
  <2>2. Taken(t) \cap Sub(c) = {}
    BY <1>3, <1>4 DEF Taken
  <2>3. Taken(t)' = Taken(t) \cup Sub(c)
    <3>1. Sub(c) \subseteq Sub(t)
      BY <1>0, <1>5, SubParts
    <3>2. \A d \in Range(todo[t]) \ {c} : Sub(d) \cap Sub(c) = {}
      BY <1>0, <1>2, <1>5, SubParts
    <3>3. Taken(t)' = Sub(t) \ UNION {Sub(d) : d \in Range(todo[t]) \ {c}}
      BY <1>3, <1>4, <1>6 DEF Taken
    <3>4. UNION {Sub(d) : d \in Range(todo[t])}
            = Sub(c) \cup UNION {Sub(d) : d \in Range(todo[t]) \ {c}}
      BY <1>3, <1>4
    <3> QED
      BY <3>1, <3>2, <3>3, <3>4 DEF Taken
  <2>4. data'[t] = [u \in Threads |-> data[t][u] + data[c][u]]
    BY <1>0, <1>1, <1>4, <1>7 DEF TypeOK
  <2>5. \A u \in Threads : data[t][u] + data[c][u] = IF u \in Taken(t) \cup Sub(c) THEN 1 ELSE 0
    BY <2>1, <2>2 DEF HasShares
  <2> QED
    BY <2>3, <2>4, <2>5 DEF HasShares
<1>8. ASSUME NEW u \in Members, u # t, pc'[u] = "gather", Reduces(k[u])'
      PROVE  HasShares(u, Taken(u))'
  <2>1. HasShares(u, Taken(u)) /\ Taken(u)' = Taken(u) /\ data'[u] = data[u]
    BY <1>0, <1>6, <1>8 DEF Shares, Taken
  <2> QED
    BY <2>1 DEF HasShares
<1>9. ASSUME NEW u \in Members \ {0}, Came(u)', Reduces(k[u])'
      PROVE  HasShares(u, Sub(u))'
  <2>1. HasShares(u, Sub(u)) /\ u # t
    BY <1>0, <1>6, <1>9 DEF Shares, Came
  <2> QED
    BY <1>0, <1>6, <2>1 DEF HasShares
<1>10. ASSUME pc'[0] \in {"final", "release", "work"}, Reduces(k[0])'
       PROVE  HasShares(0, Members)'
  <2>1. HasShares(0, Members) /\ t # 0 /\ 0 \in Threads
    BY <1>0, <1>6, <1>10, TeamOf DEF Shares
  <2> QED
    BY <1>6, <2>1 DEF HasShares
<1> QED
  BY <1>6, <1>7, <1>8, <1>9, <1>10 DEF Shares

LEMMA ReportShares ==
  ASSUME IInv, Shares, NEW t \in Threads, Report(t)
  PROVE  Shares'
<1>0. /\ TypeOK /\ t \in Members /\ t # 0 /\ k[t] = Past + 1 /\ pc[t] = "gather"
      /\ Members \subseteq Threads
  BY Active, TeamOf DEF Report
<1>1. /\ todo[t] = << >> /\ pc' = [pc EXCEPT ![t] = "wait_go"]
      /\ UNCHANGED <<config, nproc, data, k, todo>>
  BY DEF Report, Goto
<1>2. /\ Members' = Members /\ \A u : Sub(u)' = Sub(u)
      /\ \A u : Reduces(k[u])' <=> Reduces(k[u])
      /\ pc'[t] = "wait_go" /\ \A u \in Threads : u # t => pc'[u] = pc[u]
      /\ Past' = Past
  <2>1. Members' = Members /\ \A u : Sub(u)' = Sub(u)
    BY <1>1 DEF Members, Sub, config
  <2>2. \A u : Reduces(k[u])' <=> Reduces(k[u])
    BY <1>1 DEF Reduces, config
  <2> QED
    BY <1>0, <1>1, <2>1, <2>2 DEF TypeOK, Past
<1>3. \A u : Taken(u)' = Taken(u)
  BY <1>1, <1>2 DEF Taken
<1>4. \A u, S : HasShares(u, S)' <=> HasShares(u, S)
  BY <1>1 DEF HasShares
<1>5. Taken(t) = Sub(t)
  BY <1>1 DEF Taken, Range
<1>6. ASSUME NEW u \in Members, pc'[u] = "gather", Reduces(k[u])'
      PROVE  HasShares(u, Taken(u))'
  <2>1. HasShares(u, Taken(u))
    BY <1>0, <1>2, <1>6 DEF Shares
  <2> QED
    BY <1>1, <1>3, <2>1 DEF HasShares
<1>7. ASSUME NEW u \in Members \ {0}, Came(u)', Reduces(k[u])'
      PROVE  HasShares(u, Sub(u))'
  <2>1. HasShares(u, Sub(u))
    BY <1>0, <1>1, <1>2, <1>5, <1>7 DEF Shares, Came
  <2> QED
    BY <1>1, <1>2, <2>1 DEF HasShares
<1>8. ASSUME pc'[0] \in {"final", "release", "work"}, Reduces(k[0])'
      PROVE  HasShares(0, Members)'
  <2>1. HasShares(0, Members)
    BY <1>0, <1>2, <1>8, TeamOf DEF Shares
  <2> QED
    BY <1>1, <1>2, <2>1 DEF HasShares
<1> QED
  BY <1>2, <1>6, <1>7, <1>8 DEF Shares

LEMMA GatheredShares ==
  ASSUME IInv, Shares, Gathered
  PROVE  Shares'
<1>0. /\ TypeOK /\ Running /\ 0 \in Members /\ nproc > 1 /\ k[0] = Past + 1 /\ pc[0] = "gather"
      /\ Members \subseteq Threads /\ Past \in -1 .. JoinStep /\ JoinStep \in Nat
  BY Active, TeamOf DEF Gathered, IInv
<1>1. /\ todo[0] = << >>
      /\ \E l \in {"serial", "final", "release"} : pc' = [pc EXCEPT ![0] = l]
      /\ UNCHANGED <<config, nproc, data, k>>
  BY DEF Gathered, Goto, StartRelease
<1>2. \A u \in Members \ {0} : pc[u] = "wait_go" /\ k[u] = Past + 1
  BY <1>0, <1>1, EverybodyCame DEF Came
<1>3. /\ Members' = Members /\ \A u : Reduces(k[u])' <=> Reduces(k[u])
      /\ pc'[0] \in {"serial", "final", "release"} /\ \A u \in Members \ {0} : pc'[u] = "wait_go"
  <2>1. Members' = Members /\ \A u : Reduces(k[u])' <=> Reduces(k[u])
    BY <1>1 DEF Members, Reduces, config
  <2> QED
    BY <1>0, <1>1, <1>2, <2>1 DEF TypeOK
<1>4. \A u \in Members \ {0} : ~Came(u)'
  BY <1>0, <1>1, <1>2, <1>3 DEF Came, Past
<1>5. ASSUME Reduces(k[0])
      PROVE  HasShares(0, Members)'
  <2>1. HasShares(0, Taken(0))
    BY <1>0, <1>5 DEF Shares
  <2>2. Taken(0) = Members
    BY <1>0, <1>1, SubParts DEF Taken, Range
  <2> QED
    BY <1>1, <1>3, <2>1, <2>2 DEF HasShares
<1> QED
  BY <1>3, <1>4, <1>5 DEF Shares

\* The other steps of a thread gather nothing.
LEMMA ElsewhereShares ==
  ASSUME TypeOK, Shares, NEW t \in Threads, NEW l \in {"reset_go", "release", "work", "reap", "done"},
         pc' = [pc EXCEPT ![t] = l], pc[t] # "gather",
         l \in {"release", "work"} => t # 0 \/ pc[0] \in {"final", "release"},
         UNCHANGED <<config, nproc, data, k>>, \A u \in Threads : u # t => todo'[u] = todo[u]
  PROVE  Shares'
<1>1. /\ pc'[t] = l /\ l # "gather" /\ l # "wait_go"
      /\ \A u \in Threads : u # t => pc'[u] = pc[u]
      /\ 0 \in Threads /\ Members \subseteq Threads
  BY TeamOf DEF TypeOK
<1>2. pc'[0] = "gather" <=> pc[0] = "gather"
  BY <1>1
<1>3. Past' = Past
  BY <1>2 DEF Past
<1>4. \A u \in Members \ {0} : Came(u)' => Came(u) /\ k'[u] = k[u]
  BY <1>1, <1>3 DEF Came
<1>5. \A u \in Members : pc'[u] = "gather" => pc[u] = "gather" /\ k'[u] = k[u] /\ todo'[u] = todo[u]
  BY <1>1
<1>6. pc'[0] \in {"final", "release", "work"} =>
        pc[0] \in {"final", "release", "work"} /\ k'[0] = k[0]
  BY <1>1
<1> QED
  BY <1>4, <1>5, <1>6, SharesStay

\* Every thread has the shares it should have.
LEMMA SharesPreserved == IInv /\ Shares /\ [Next]_vars => Shares'
<1> SUFFICES ASSUME IInv, Shares, [Next]_vars
             PROVE  Shares'
  OBVIOUS
<1>0. TypeOK /\ 0 \in Threads /\ DOMAIN todo = Threads
  BY TeamOf DEF IInv, TypeOK
<1>1. ASSUME NEW n \in Sizes, Fork(n)
      PROVE  Shares'
  <2>1. /\ pc[0] = "serial" /\ ~g_done /\ nproc' = n
        /\ k' = [t \in Threads |-> IF t < n THEN 0 ELSE k[t]]
        /\ pc' = [pc EXCEPT ![0] = "release"]
    BY <1>1 DEF Fork, Resize, StartRelease, Goto
  <2>2. n \in 2 .. N /\ N \in Nat /\ \A t \in Workers : pc[t] = "wait_go"
    BY <2>1, AllWait, BarrierAssumption
  <2>3. Members' = 0 .. n-1 /\ Members' \subseteq Threads /\ Members' \ {0} \subseteq Workers
    BY <2>1, <2>2 DEF Members, Threads, Workers
  <2>4. \A t \in Members' : k'[t] = 0 /\ pc'[t] # "gather"
    BY <1>0, <2>1, <2>2, <2>3 DEF TypeOK
  <2>5. \A t \in Members' : ~Reduces(k[t])'
    BY <2>4 DEF Reduces
  <2>6. 0 \in Members'
    BY <2>2, <2>3
  <2> QED
    BY <2>4, <2>5, <2>6 DEF Shares
<1>2. ASSUME NEW t \in Threads, SetNumThreads(t)
      PROVE  Shares'
  <2>1. UNCHANGED <<config, nproc, data, k, pc, todo>>
    BY <1>2 DEF SetNumThreads
  <2> QED
    BY <2>1, SharesStay DEF Came, Past
<1>3. ASSUME NEW t \in Threads, SeeGo(t) \/ SeeDone(t) \/ ResetGo(t) \/ FinishRelease(t)
      PROVE  Shares'
  <2>1. /\ pc[t] \in {"wait_go", "reset_go", "release"}
        /\ pc[t] = "reset_go" => t # 0
        /\ \A u \in Threads : u # t => todo'[u] = todo[u]
        /\ UNCHANGED <<config, nproc, data, k>>
    BY <1>0, <1>3 DEF SeeGo, SeeDone, ResetGo, FinishRelease, IInv, Reaping, Running, Position
  <2>2. \E l \in {"reset_go", "release", "work", "done"} :
          /\ pc' = [pc EXCEPT ![t] = l]
          /\ l \in {"release", "work"} => pc[t] \in {"reset_go", "release"}
    BY <1>3 DEF SeeGo, SeeDone, ResetGo, FinishRelease, Goto
  <2> QED
    BY <1>0, <2>1, <2>2, ElsewhereShares
<1>4. ASSUME NEW t \in Threads, ReleaseChild(t)
      PROVE  Shares'
  <2>1. /\ pc[t] = "release" /\ todo' = [todo EXCEPT ![t] = Tail(todo[t])]
        /\ UNCHANGED <<config, nproc, data, k, pc>>
    BY <1>4 DEF ReleaseChild
  <2>2. \A u \in Members : pc'[u] = "gather" => todo'[u] = todo[u]
    BY <1>0, <2>1, TeamOf
  <2> QED
    BY <2>1, <2>2, SharesStay DEF Came, Past
<1>5. CASE EndSplit \/ Shutdown
  <2>1. /\ pc[0] \in {"final", "serial"} /\ UNCHANGED <<config, nproc, data, k>>
        /\ \A u \in Threads : u # 0 => todo'[u] = todo[u]
        /\ \E l \in {"release", "reap"} : /\ pc' = [pc EXCEPT ![0] = l]
                                          /\ l = "release" => pc[0] = "final"
    BY <1>0, <1>5 DEF EndSplit, Shutdown, StartRelease, Goto
  <2> QED
    BY <1>0, <2>1, ElsewhereShares
<1>6. CASE Reap
  <2>1. /\ pc[0] = "reap" /\ todo' = [todo EXCEPT ![0] = Tail(todo[0])]
        /\ UNCHANGED <<config, nproc, data, k, pc>>
    BY <1>6 DEF Reap
  <2>2. \A u \in Members : pc'[u] = "gather" => todo'[u] = todo[u]
    BY <1>0, <2>1, TeamOf
  <2> QED
    BY <2>1, <2>2, SharesStay DEF Came, Past
<1>7. CASE Gathered
  BY <1>7, GatheredShares
<1>8. CASE UNCHANGED vars
  BY <1>8, SharesStay DEF vars, Came, Past
<1>9. CASE Terminated
  BY <1>8, <1>9 DEF Terminated
<1>10. ASSUME NEW t \in Threads, Enter(t) \/ GatherChild(t) \/ Report(t)
       PROVE  Shares'
  BY <1>10, EnterShares, GatherChildShares, ReportShares
<1> QED
  BY <1>1, <1>2, <1>3, <1>4, <1>5, <1>6, <1>7, <1>8, <1>9, <1>10 DEF Next, Master, Inside

\* What the master goes on with after a reduction has the share of every member once,
\* and of nobody else, whatever the tree and the order in which the children come.
THEOREM BarrierReduction == Spec => []ReductionExact
<1>1. Init => Shares
  <2> SUFFICES ASSUME Init
               PROVE  Shares
    OBVIOUS
  <2>1. Members = {0} /\ 0 \in Threads
    BY BarrierAssumption DEF Init, Members, Threads
  <2> QED
    BY <2>1 DEF Init, Shares
<1>2. IInv /\ Shares /\ [Next]_vars => Shares'
  BY SharesPreserved
<1>3. Shares => ReductionExact
  BY DEF Shares, ReductionExact, HasShares
<1> QED
  BY <1>1, <1>2, <1>3, Invariance, PTL DEF Spec
==================================================================================
