-------------------------------- MODULE Barrier --------------------------------
(***************************************************************************)
(* The barriers of runtime/src/kmp_barrier.cpp: a gather of every member's *)
(* arrival to the master and a release that spreads from it, in one of     *)
(* four patterns; the barriers inside a region (plain, reduction, split    *)
(* reduction); the fork barrier, which is a release, and the join barrier, *)
(* which is a gather; the hot team that grows and shrinks between regions; *)
(* the reduction of data on the way up and the push of the internal        *)
(* control variables (ICVs) on the way down; the reaping of the threads.   *)
(*                                                                         *)
(* Threads are named by their tid in the hot team, which is also the order *)
(* in which the pool hands them out.  A flag holds a number, here without  *)
(* its sleep bit (module FlagWait); a step is one access to a flag of      *)
(* another thread with the local work next to it.                          *)
(***************************************************************************)
EXTENDS Integers, Sequences, FiniteSets, SequencesExt

CONSTANTS N,              \* threads: 0 .. N-1, the master is 0
          F,              \* branch factor of the trees, 1 << branch_bits
          A, Depth,       \* machine hierarchy: fan-out of a level, levels
          Patterns,       \* pairs <<gather pattern, release pattern>>
          Bodies,         \* sequences of the barriers of a region
          BodyLength,     \* how many these are
          Sizes,          \* sizes a parallel region may ask for
          Setters,        \* threads that call omp_set_num_threads in a region
          MaxRegions      \* bound

Threads == 0 .. N-1
Workers == 1 .. N-1
Kinds == {"plain", "reduce", "reduce_nowait"}
PatternNames == {"linear", "tree", "hyper", "hierarchical"}

ASSUME BarrierAssumption ==
  /\ N \in Nat /\ N > 1 /\ F \in Nat /\ F > 1
  /\ A \in Nat /\ A > 1 /\ Depth \in Nat /\ Depth > 1
  /\ A^(Depth-1) >= N
  /\ Patterns \subseteq PatternNames \X PatternNames
  /\ \A p \in Patterns : p[1] = "hierarchical" <=> p[2] = "hierarchical"
  /\ BodyLength \in Nat
  /\ \A b \in Bodies : b \in Seq(Kinds) /\ Len(b) = BodyLength
  /\ Sizes \subseteq 2 .. N
  /\ Setters \subseteq Threads
  /\ MaxRegions \in Nat

VARIABLES gather, release, body,     \* the patterns, and what a region does
          nproc,                     \* t_nproc
          region,                    \* regions forked so far
          arrived, go, team_arrived, \* b_arrived and b_go by type of barrier
          team_nproc,                \* th_team_nproc
          icv,                       \* t_implicit_task_taskdata[t].td_icvs
          fixed,                     \* th_fixed_icvs
          data,                      \* reduce_data: whose shares, how often
          pc, k,                     \* where a thread is, in which barrier
          new_state, todo,           \* locals of gather and release
          g_done

config == <<gather, release, body>>
flags == <<arrived, go, team_arrived>>
icvs == <<icv, fixed>>
vars == <<config, nproc, region, flags, team_nproc, icvs, data, pc, k,
          new_state, todo, g_done>>

BUMP == 4
Types == {"plain", "reduction", "forkjoin"}

\* The barriers of a region: the fork, those of the body, the join.
JoinStep == BodyLength + 1
TypeOf(i) == CASE i \in {0, JoinStep} -> "forkjoin"
               [] i \in 1 .. BodyLength -> IF body[i] = "plain" THEN "plain" ELSE "reduction"
Reduces(i) == i \in 1 .. BodyLength /\ body[i] # "plain"
IsSplit(i) == i \in 1 .. BodyLength /\ body[i] = "reduce"
Bt(t) == TypeOf(k[t])

Members == 0 .. nproc-1
UserIcv == -1                        \* what omp_set_num_threads leaves there

-----------------------------------------------------------------------------
\* The trees.  A thread's children come level by level; the gather goes up,
\* the release comes down.

Level(t, base, d, n) ==              \* children of t at level d of a tree
  SelectSeq([i \in 1 .. base-1 |-> t + (i * base^d)], LAMBDA c : c < n)

HyperLevels(t, n) ==                 \* below the level t reports at
  Cardinality({d \in 0 .. N : F^d < n /\ t % F^(d+1) = 0})

MyLevel(t) ==
  IF t = 0 THEN Depth - 1
  ELSE CHOOSE d \in 0 .. Depth-2 :
         /\ d = Depth - 2 \/ t % A^(d+1) # 0
         /\ \A e \in 0 .. d-1 : t % A^(e+1) = 0

ParentInHierarchy(t) ==
  IF MyLevel(t) = Depth - 2 THEN 0 ELSE t - (t % A^(MyLevel(t)+1))

Levels(pattern, t, n) ==
  CASE pattern = "linear" ->
         IF t = 0 THEN << [i \in 1 .. n-1 |-> i] >> ELSE << >>
    [] pattern = "tree" ->
         << SelectSeq([i \in 1 .. F |-> (t * F) + i], LAMBDA c : c < n) >>
    [] pattern = "hyper" ->
         [d \in 1 .. HyperLevels(t, n) |-> Level(t, F, d-1, n)]
    [] pattern = "hierarchical" ->
         [d \in 1 .. MyLevel(t) |-> Level(t, A, d-1, n)]

GatherTree(pattern, n) == [t \in 0 .. n-1 |-> FlattenSeq(Levels(pattern, t, n))]
GatherKids(t, n) == GatherTree(gather, n)[t]

\* The hyper release runs backward at both levels, the hierarchical one takes
\* the levels from the top and each in order.
ReleaseTree(pattern, n) ==
  [t \in 0 .. n-1 |->
    LET levels == Levels(pattern, t, n)
    IN CASE pattern = "hyper" -> Reverse(FlattenSeq(levels))
         [] pattern = "hierarchical" -> FlattenSeq(Reverse(levels))
         [] OTHER -> FlattenSeq(levels)]
ReleaseKids(t, n) == ReleaseTree(release, n)[t]

\* A tree names each worker of the team once, below a thread with a smaller tid.
IsTree(tree, n) ==
  /\ \A t \in 0 .. n-1 : tree[t] \in Seq(1 .. n-1) /\ IsInjective(tree[t])
  /\ \A t, u \in 0 .. n-1 : t # u => Range(tree[t]) \cap Range(tree[u]) = {}
  /\ \A c \in 1 .. n-1 : \E t \in 0 .. c-1 : c \in Range(tree[t])

\* So do the trees of every pattern; and a worker of the hierarchy pulls from the
\* thread that releases it, and has nobody to release at the lowest level.
TreesSpan(up, down, n) ==
  /\ IsTree(GatherTree(up, n), n) /\ IsTree(ReleaseTree(down, n), n)
  /\ down = "hierarchical" =>
       \A t \in 0 .. n-1 : /\ MyLevel(t) = 0 => ReleaseTree(down, n)[t] = << >>
                           /\ \A c \in Range(ReleaseTree(down, n)[t]) : ParentInHierarchy(c) = t
ASSUME TreesAssumption == \A p \in Patterns, n \in Sizes : TreesSpan(p[1], p[2], n)

-----------------------------------------------------------------------------
Init == /\ \E p \in Patterns : gather = p[1] /\ release = p[2]
        /\ body \in Bodies
        /\ nproc = 1
        /\ region = 0
        /\ arrived = [b \in Types |-> [t \in Threads |-> 0]]
        /\ go = [b \in Types |-> [t \in Threads |-> 0]]
        /\ team_arrived = [b \in Types |-> 0]
        /\ team_nproc = [t \in Threads |-> 1]
        /\ icv = [t \in Threads |-> 0]
        /\ fixed = [t \in Threads |-> 0]
        /\ data = [t \in Threads |-> [u \in Threads |-> 0]]
        /\ pc = [t \in Threads |-> IF t = 0 THEN "serial" ELSE "wait_go"]
        /\ k = [t \in Threads |-> JoinStep]
        /\ new_state = [t \in Threads |-> 0]
        /\ todo = [t \in Threads |-> << >>]
        /\ g_done = FALSE

Goto(t, label) == pc' = [pc EXCEPT ![t] = label]

\* The master starts a release; at a fork it stores the ICVs for the members.
StartRelease(n) == /\ Goto(0, "release")
                   /\ todo' = [todo EXCEPT ![0] = ReleaseKids(0, n)]

\* Mutant of Resize: threads that join keep the arrivals they had.
ResizeOnly(n) ==
  /\ nproc' = n
  /\ team_nproc' = [t \in Threads |-> IF t < n THEN n ELSE team_nproc[t]]
  /\ UNCHANGED arrived

\* A parallel region of n threads on the hot team.  Threads that join the
\* team, out of the pool or new, take over its count of arrivals.
Resize(n) ==
  /\ nproc' = n
  /\ team_nproc' = [t \in Threads |-> IF t < n THEN n ELSE team_nproc[t]]
  /\ arrived' = [b \in Types |-> [t \in Threads |->
                   IF t >= nproc /\ t < n THEN team_arrived[b] ELSE arrived[b][t]]]

StoreIcvs(n, v) ==
  /\ icv' = [t \in Threads |-> IF t = 0 \/ (release = "linear" /\ t < n) THEN v ELSE icv[t]]
  /\ fixed' = IF release \in {"hyper", "hierarchical"} THEN [fixed EXCEPT ![0] = v]
              ELSE fixed

Fork(n) == /\ pc[0] = "serial" /\ ~g_done
           /\ region < MaxRegions
           /\ region' = region + 1
           /\ Resize(n)
           /\ StoreIcvs(n, region')
           /\ k' = [t \in Threads |-> IF t < n THEN 0 ELSE k[t]]
           /\ StartRelease(n)
           /\ UNCHANGED <<config, go, team_arrived, data, new_state, g_done>>

\* omp_set_num_threads in the region changes the ICVs of the caller's task.
SetNumThreads(t) == /\ pc[t] = "work"
                    /\ t \in Setters
                    /\ icv[t] # UserIcv
                    /\ icv' = [icv EXCEPT ![t] = UserIcv]
                    /\ UNCHANGED <<config, nproc, region, flags, team_nproc, fixed,
                                   data, pc, k, new_state, todo, g_done>>

-----------------------------------------------------------------------------
\* The gather.

Share(t) == [u \in Threads |-> IF u = t THEN 1 ELSE 0]

Enter(t) ==
  LET i == k[t] + 1
  IN /\ pc[t] = "work"
     /\ k' = [k EXCEPT ![t] = i]
     /\ data' = IF Reduces(i) THEN [data EXCEPT ![t] = Share(t)] ELSE data
     /\ new_state' = [new_state EXCEPT ![t] = team_arrived[TypeOf(i)] + BUMP]
     /\ todo' = [todo EXCEPT ![t] = GatherKids(t, team_nproc[t])]
     /\ Goto(t, "gather")
     /\ UNCHANGED <<config, nproc, region, flags, team_nproc, icvs, g_done>>

\* Waits for the next child and takes in its data.
GatherChild(t) ==
  /\ pc[t] = "gather"
  /\ todo[t] # << >>
  /\ LET c == Head(todo[t])
     IN /\ arrived[Bt(t)][c] = new_state[t]
        /\ data' = IF Reduces(k[t])
                   THEN [data EXCEPT ![t] = [u \in Threads |-> data[t][u] + data[c][u]]]
                   ELSE data
  /\ todo' = [todo EXCEPT ![t] = Tail(@)]
  /\ UNCHANGED <<config, nproc, region, flags, team_nproc, icvs, pc, k, new_state, g_done>>

\* Mutant of Report: before the children have come.
ReportEarly(t) ==
  /\ t # 0
  /\ pc[t] = "gather"
  /\ arrived' = [arrived EXCEPT ![Bt(t)][t] = @ + BUMP]
  /\ new_state' = [new_state EXCEPT ![t] = 0]
  /\ Goto(t, "wait_go")
  /\ UNCHANGED <<config, nproc, region, go, team_arrived, team_nproc, icvs, data,
                 k, todo, g_done>>

\* A worker tells its parent, and goes to wait for the release: in a join, for
\* the next fork, wherever its team may be by then.
Report(t) ==
  /\ t # 0
  /\ pc[t] = "gather"
  /\ todo[t] = << >>
  /\ arrived' = [arrived EXCEPT ![Bt(t)][t] = @ + BUMP]
  /\ new_state' = [new_state EXCEPT ![t] = 0]
  /\ Goto(t, "wait_go")
  /\ UNCHANGED <<config, nproc, region, go, team_arrived, team_nproc, icvs, data,
                 k, todo, g_done>>

\* Mutant of Gathered: the master does not wait for all its children.
GatheredEarly ==
  /\ pc[0] = "gather"
  /\ team_arrived' = [team_arrived EXCEPT ![Bt(0)] = new_state[0]]
  /\ new_state' = [new_state EXCEPT ![0] = 0]
  /\ IF k[0] = JoinStep \/ IsSplit(k[0])
     THEN Goto(0, IF k[0] = JoinStep THEN "serial" ELSE "final") /\ UNCHANGED todo
     ELSE StartRelease(team_nproc[0])
  /\ UNCHANGED <<config, nproc, region, arrived, go, team_nproc, icvs, data, k, g_done>>

\* The master has gathered everybody.  A split barrier returns to the program.
Gathered ==
  /\ pc[0] = "gather"
  /\ todo[0] = << >>
  /\ team_arrived' = [team_arrived EXCEPT ![Bt(0)] = new_state[0]]
  /\ new_state' = [new_state EXCEPT ![0] = 0]
  /\ IF k[0] = JoinStep \/ IsSplit(k[0])
     THEN Goto(0, IF k[0] = JoinStep THEN "serial" ELSE "final") /\ UNCHANGED todo
     ELSE StartRelease(team_nproc[0])
  /\ UNCHANGED <<config, nproc, region, arrived, go, team_nproc, icvs, data, k, g_done>>

EndSplit ==
  /\ pc[0] = "final"
  /\ StartRelease(team_nproc[0])
  /\ UNCHANGED <<config, nproc, region, flags, team_nproc, icvs, data, k, new_state, g_done>>

-----------------------------------------------------------------------------
\* The release.

SeeGo(t) ==
  /\ pc[t] = "wait_go"
  /\ go[Bt(t)][t] = BUMP
  /\ Goto(t, "reset_go")
  /\ UNCHANGED <<config, nproc, region, flags, team_nproc, icvs, data, k, new_state,
                 todo, g_done>>

\* In the hierarchy a worker pulls the ICVs from its parent.
PullIcvs(t) ==
  IF Bt(t) # "forkjoin" \/ release # "hierarchical" THEN UNCHANGED icvs
  ELSE IF MyLevel(t) = 0
       THEN icv' = [icv EXCEPT ![t] = fixed[ParentInHierarchy(t)]] /\ UNCHANGED fixed
       ELSE fixed' = [fixed EXCEPT ![t] = fixed[ParentInHierarchy(t)]] /\ UNCHANGED icv

\* The wait loop also ends when the library is shut down, for a thread that
\* still spins; one that sleeps has to be released.
SeeDone(t) ==
  /\ pc[t] = "wait_go"
  /\ g_done
  /\ Goto(t, "reset_go")
  /\ UNCHANGED <<config, nproc, region, flags, team_nproc, icvs, data, k, new_state,
                 todo, g_done>>

\* Mutant of ResetGo: the flag of the plain barrier stays.
ResetSome(t) ==
  /\ pc[t] = "reset_go"
  /\ LET reaped == Bt(t) = "forkjoin" /\ g_done
     IN /\ go' = IF (reaped /\ release # "hierarchical") \/ Bt(t) = "plain" THEN go
                 ELSE [go EXCEPT ![Bt(t)][t] = 0]
        /\ IF reaped THEN Goto(t, "done") /\ UNCHANGED <<icvs, todo>>
           ELSE /\ Goto(t, "release")
                /\ PullIcvs(t)
                /\ todo' = [todo EXCEPT ![t] = ReleaseKids(t, team_nproc[t])]
  /\ UNCHANGED <<config, nproc, region, arrived, team_arrived, team_nproc, data, k,
                 new_state, g_done>>

\* A worker released resets its flag and turns to its children, by the size of
\* the team it is in now.  A thread to be reaped leaves before the reset,
\* except in the hierarchical barrier.
ResetGo(t) ==
  /\ pc[t] = "reset_go"
  /\ LET reaped == Bt(t) = "forkjoin" /\ g_done
     IN /\ go' = IF reaped /\ release # "hierarchical" THEN go
                 ELSE [go EXCEPT ![Bt(t)][t] = 0]
        /\ IF reaped THEN Goto(t, "done") /\ UNCHANGED <<icvs, todo>>
           ELSE /\ Goto(t, "release")
                /\ PullIcvs(t)
                /\ todo' = [todo EXCEPT ![t] = ReleaseKids(t, team_nproc[t])]
  /\ UNCHANGED <<config, nproc, region, arrived, team_arrived, team_nproc, data, k,
                 new_state, g_done>>

\* What a parent stores for a child before it lets it go.
PushIcvs(t, c) ==
  CASE k[t] = 0 /\ release = "tree"  -> icv' = [icv EXCEPT ![c] = icv[0]] /\ UNCHANGED fixed
    [] k[t] = 0 /\ release = "hyper" -> fixed' = [fixed EXCEPT ![c] = fixed[t]] /\ UNCHANGED icv
    [] OTHER -> UNCHANGED icvs

ReleaseChild(t) ==
  /\ pc[t] = "release"
  /\ todo[t] # << >>
  /\ LET c == Head(todo[t])
     IN /\ PushIcvs(t, c)
        /\ go' = [go EXCEPT ![Bt(t)][c] = @ + BUMP]
  /\ todo' = [todo EXCEPT ![t] = Tail(@)]
  /\ UNCHANGED <<config, nproc, region, arrived, team_arrived, team_nproc, data, pc, k,
                 new_state, g_done>>

KeepsOwnFixed(t) == \/ release = "hyper"
                    \/ release = "hierarchical" /\ MyLevel(t) > 0

\* Mutant of FinishRelease: what the parent pushed stays in th_fixed_icvs.
FinishOnly(t) ==
  /\ pc[t] = "release"
  /\ todo[t] = << >>
  /\ Goto(t, "work")
  /\ UNCHANGED <<config, nproc, region, flags, team_nproc, icvs, data, k, new_state,
                 todo, g_done>>

FinishRelease(t) ==
  /\ pc[t] = "release"
  /\ todo[t] = << >>
  /\ icv' = IF k[t] = 0 /\ t # 0 /\ KeepsOwnFixed(t) THEN [icv EXCEPT ![t] = fixed[t]]
            ELSE icv
  /\ Goto(t, "work")
  /\ UNCHANGED <<config, nproc, region, flags, team_nproc, fixed, data, k, new_state,
                 todo, g_done>>

-----------------------------------------------------------------------------
\* Shutdown: between regions every worker waits at the fork barrier; it is
\* released out of it and joined, one after the other.

\* Mutant of Shutdown: only the workers of the last team are released.
ShutdownTeam == /\ pc[0] = "serial" /\ ~g_done
                /\ g_done' = TRUE
                /\ Goto(0, "reap")
                /\ todo' = [todo EXCEPT ![0] = [i \in 1 .. nproc-1 |-> i]]
                /\ UNCHANGED <<config, nproc, region, flags, team_nproc, icvs, data, k,
                               new_state>>

Shutdown == /\ pc[0] = "serial" /\ ~g_done
            /\ g_done' = TRUE
            /\ Goto(0, "reap")
            /\ todo' = [todo EXCEPT ![0] = [i \in 1 .. N-1 |-> i]]
            /\ UNCHANGED <<config, nproc, region, flags, team_nproc, icvs, data, k, new_state>>

Reap == /\ pc[0] = "reap"
        /\ todo[0] # << >>
        /\ \A t \in 1 .. Head(todo[0])-1 : pc[t] = "done"
        /\ go' = [go EXCEPT !["forkjoin"][Head(todo[0])] = @ + BUMP]
        /\ todo' = [todo EXCEPT ![0] = Tail(@)]
        /\ UNCHANGED <<config, nproc, region, arrived, team_arrived, team_nproc, icvs,
                       data, pc, k, new_state, g_done>>

Terminated == /\ pc[0] = "reap" /\ todo[0] = << >>
              /\ \A t \in Workers : pc[t] = "done"
              /\ UNCHANGED vars

Inside(t) == GatherChild(t) \/ Report(t) \/ SeeGo(t) \/ ResetGo(t)
             \/ ReleaseChild(t) \/ FinishRelease(t)
Master == Gathered \/ EndSplit \/ Reap

Next == \/ \E n \in Sizes : Fork(n)
        \/ \E t \in Threads : Enter(t) \/ SetNumThreads(t) \/ Inside(t) \/ SeeDone(t)
        \/ Master \/ Shutdown \/ Terminated

Spec == Init /\ [][Next]_vars

\* A thread inside a barrier runs on; nothing is assumed of the program, which
\* need not come to its next barrier or fork its next region.  Between the
\* halves of a split barrier there is only the final reduction.
FairSpec == Spec /\ WF_vars(Master) /\ \A t \in Threads : WF_vars(Inside(t))

-----------------------------------------------------------------------------
\* The variables keep their types: b_go of a worker is at its initial value or one
\* bump ahead and never further, however barriers follow each other, and the
\* threads a thread has still to gather or release are workers.
TypeOK ==
  /\ <<gather, release>> \in Patterns /\ body \in Bodies
  /\ nproc \in {1} \cup Sizes /\ region \in 0 .. MaxRegions
  /\ arrived \in [Types -> [Threads -> Nat]]
  /\ go \in [Types -> [Threads -> {0, BUMP}]]
  /\ team_arrived \in [Types -> Nat]
  /\ team_nproc \in [Threads -> 1 .. N]
  /\ icv \in [Threads -> UserIcv .. MaxRegions]
  /\ fixed \in [Threads -> 0 .. MaxRegions]
  /\ data \in [Threads -> [Threads -> Nat]]
  /\ pc \in [Threads -> {"serial", "work", "gather", "final", "wait_go", "reset_go",
                         "release", "reap", "done"}]
  /\ k \in [Threads -> 0 .. JoinStep]
  /\ new_state \in [Threads -> Nat]
  /\ todo \in [Threads -> Seq(Workers)]
  /\ g_done \in BOOLEAN

\* The flags of every kind of barrier stay in step with the team's count of
\* arrivals, however the team grew and shrank: a member's b_arrived is one
\* bump ahead exactly when it has reported to a barrier the master has not
\* gathered yet, and b_go is set only for a thread that waits for it there.
\* (The assertion of __kmp_fork_barrier on b_go is the case of a fork.)
Reported(t, b) == /\ pc[t] = "wait_go" /\ Bt(t) = b
                  /\ k[0] < k[t] \/ (k[0] = k[t] /\ pc[0] = "gather")
FlagsInStep ==
  /\ TypeOK
  /\ \A b \in Types, t \in Workers :
       /\ t < nproc => arrived[b][t] = team_arrived[b] + (IF Reported(t, b) THEN BUMP ELSE 0)
       /\ go[b][t] # 0 => /\ Bt(t) = b
                          /\ pc[t] \in {"wait_go", "reset_go", "done"}

\* When the master has gathered a reduction, the data it goes on with has the
\* share of every member exactly once, through every tree.
ReductionExact ==
  (Reduces(k[0]) /\ pc[0] \in {"final", "release", "work"}) =>
     data[0] = [u \in Threads |-> IF u \in Members THEN 1 ELSE 0]

\* A member gets out of the fork barrier with the ICVs of the fork, and no
\* slower part of the release overwrites them.  The tree pattern is left out:
\* see IcvsPropagatedByTree.
HasIcvs(t) == (t \in Members /\ (pc[t] = "work" \/ k[t] \in 1 .. BodyLength)) =>
                 \/ icv[t] = region
                 \/ t \in Setters /\ icv[t] = UserIcv
IcvsPropagated == release # "tree" => \A t \in Threads : HasIcvs(t)

\* "Master thread's copy of the ICVs was set up on the implicit taskdata"
\* (kmp_barrier.cpp:1902) before the fork, and each member starts with it; so
\* also when an inner thread of the tree copies it for its children after the
\* master has gone on.
IcvsPropagatedByTree == \A t \in Threads : HasIcvs(t)

\* Every thread gets out of the fork barrier when the library is shut down,
\* in a team at the time, cut off it, or never used.
AllReaped == g_done ~> \A t \in Workers : pc[t] = "done"

\* The barriers implement TeamBarrier.
Outside(t) == pc[t] \in {"work", "serial", "reap"}
Team == INSTANCE TeamBarrier WITH
          Master <- 0, Steps <- BodyLength + 2,
          team <- IF region = 0 THEN {} ELSE Members,
          entered <- [t \in Threads |-> k[t] + 1],
          passed  <- [t \in Threads |-> IF Outside(t) THEN k[t] + 1 ELSE k[t]]
ImplementsTeamBarrier == Team!FairSpec
=============================================================================
