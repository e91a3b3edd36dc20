------------------------------ MODULE TaskTeamProofs ------------------------------
(***************************************************************************)
(* Task teams, for any number of threads, tasks, regions and barriers: the *)
(* count of unfinished threads is exact, so the master that finds it zero  *)
(* has no task of the region left, in a deque or in a thread's hands.      *)
(* (Hot teams of mode 0; what goes wrong in mode 1 is in the README.)      *)
(***************************************************************************)
EXTENDS TaskTeam, TLAPS, FiniteSetTheorems

\* The master is between coming to a barrier and letting the others go; barriers of
\* the region that it has passed.
InBarrier == pc[0] \notin {"serial", "work", "release"}
Past == IF InBarrier THEN k[0] - 1 ELSE k[0]

\* The task team of the coming barrier, and the one of the barrier before.
Cur == IF pc[0] \in {"serial", "release"} THEN 1 - th_task_state[0] ELSE th_task_state[0]
Other == 1 - Cur

\* A thread that has left the last barrier is on the task team of the coming one.
Executing == {"own", "steal", "stealing", "run", "none"}
Waits == {"wait", "drowsy", "asleep"} \cup Executing
On(t) == /\ t \in Members /\ pc[0] # "serial"
         /\ IF t = 0 THEN pc[0] # "release"
            ELSE \/ pc[t] = "work" /\ k[t] = Past
                 \/ pc[t] \in Waits /\ k[t] = Past + 1
Behind(t) == pc[t] \in Waits /\ k[t] = Past

Places ==
  /\ k[0] <= JoinStep /\ (pc[0] \in {"work", "release"} => k[0] < JoinStep)
  /\ InBarrier => k[0] > 0
  /\ pc[0] \in {"serial", "work", "release", "gather", "task_wait"} \cup Executing
  /\ pc[0] # "serial" => nproc > 1 /\ region > 0
  /\ pc[0] = "gather" => ~gathered
  /\ pc[0] = "task_wait" => gathered
  /\ gathered => InBarrier
  /\ \A t \in Members \ {0} : On(t) \/ Behind(t)
  /\ \A t \in Threads \ Members : pc[t] \in Waits
  /\ \A t \in Threads : go[t] <=> t \in Members \ {0} /\ Behind(t) /\ pc[0] # "serial"
  /\ arrived = IF gathered THEN {} ELSE {t \in Members \ {0} : k[t] = Past + 1}
  /\ gathered => \A t \in Members \ {0} : k[t] = Past + 1

\* Which task team a thread has, and which one it looks for tasks in.
OwnTeam(t) ==
  /\ On(t) => th_task_state[t] = Cur /\ th_task_team[t] = Cur /\ local_team[t] \in {None, Cur}
  /\ t \in Members /\ ~On(t) => th_task_state[t] = Other
  /\ t # 0 /\ ~On(t) => /\ th_task_team[t] \in {None, Other}
                        /\ local_team[t] = Cur => th_task_team[t] = None
  /\ t \notin Members => th_task_team[t] = None
  /\ pc[t] \in Executing => local_team[t] # None
  /\ pc[t] \notin Executing \cup {"gather", "task_wait"} => local_team[t] = None
  /\ pc[t] \in {"stealing", "run"} => ~thread_finished[t]
OwnTeams == /\ hot_team_nth = nproc
            /\ \A t \in Threads : OwnTeam(t)
            /\ InBarrier /\ ~gathered => ~thread_finished[0]
            /\ pc[0] = "task_wait" /\ local_team[0] # None => ~thread_finished[0]

\* A task team is idle, and made ready, when nobody has used it; closed to the threads
\* that are still in it, who have all finished, when it has no task.
Idle(p) == task_team[p].active => /\ ~task_team[p].found
                                  /\ task_team[p].unfinished = task_team[p].nproc
Ready(p) == task_team[p].active /\ task_team[p].nproc = nproc
Shut(p) == \A t \in Threads : deque[p][t] = << >> /\ (local_team[t] = p => thread_finished[t])

\* Members that have not finished in the coming barrier; threads that steal there
\* without being due.
Finished(t) == On(t) /\ pc[t] # "work" /\ thread_finished[t]
Due == {t \in Members : ~Finished(t)}
Thieves == {t \in Threads : ~On(t) /\ local_team[t] = Cur /\ ~thread_finished[t]}

Teams ==
  /\ region > 0 => task_team[0].alloc /\ task_team[1].alloc
  /\ Idle(Other) /\ Shut(Other)
  /\ pc[0] = "serial" => Idle(Cur) /\ Shut(Cur)
  /\ pc[0] # "serial" => Ready(Cur)
  /\ InBarrier /\ k[0] # JoinStep => Ready(Other)
  /\ ~task_team[Cur].found => Shut(Cur) /\ \A t \in Members : ~Finished(t)
Counted == pc[0] # "serial" =>
  task_team[Cur].unfinished = Cardinality(Due) + Cardinality(Thieves)

\* A thread with tasks in its deque has not finished with this barrier; who steals
\* from it holds the lock.
Queues == \A t \in Threads : deque[Cur][t] # << >> =>
            /\ task_team[Cur].found /\ On(t) /\ pc[t] \notin {"steal", "stealing", "none"}
            /\ pc[t] # "work" => ~thread_finished[t]
Locks == \A p \in 0..1, v \in Threads : stealing[p][v] # None =>
           /\ pc[stealing[p][v]] = "stealing" /\ local_team[stealing[p][v]] = p
           /\ deque[p][v] # << >>
           /\ \A q \in 0..1, w \in Threads :
                stealing[q][w] = stealing[p][v] => q = p /\ w = v

\* The children of an implicit task, in deques and in hands.
QueuedIn(d, u) == {x \in (0..1) \X Threads \X (1 .. MaxTasks) :
                     x[3] <= Len(d[x[1]][x[2]]) /\ d[x[1]][x[2]][x[3]].parent = u}
QueuedOf(u) == QueuedIn(deque, u)
RunningOf(u) == {t \in Threads : pc[t] = "run" /\ current[t].parent = u}
Children == \A u \in Threads : incomplete[u] = Cardinality(QueuedOf(u)) + Cardinality(RunningOf(u))

\* Tasks that are left belong to the present stretch of the program.
Tasks == [parent : Threads \cup {None}, phase : Nat \X Nat]
Recent(task) == /\ task.phase[1] = region /\ task.phase[2] >= Past
                /\ task.parent # None => On(task.parent)
Left == /\ \A p \in 0..1, t \in Threads : \A i \in 1 .. Len(deque[p][t]) : Recent(deque[p][t][i])
        /\ \A t \in Threads : pc[t] = "run" => Recent(current[t])

Types == /\ TypeOK
         /\ deque \in [0..1 -> [Threads -> Seq(Tasks)]]
         /\ stealing \in [0..1 -> [Threads -> Threads \cup {None}]]
         /\ k \in [Threads -> Nat] /\ current \in [Threads -> Tasks]
         /\ \A p \in 0..1, t \in Threads : Len(deque[p][t]) <= spawned

IInv == Types /\ Places /\ OwnTeams /\ Teams /\ Counted /\ Queues /\ Locks /\ Children /\ Left
-----------------------------------------------------------------------------
(* Lemmas about deques. *)

Deques == [0..1 -> [Threads -> Seq(Tasks)]]
One(task, u) == IF task.parent = u THEN 1 ELSE 0

\* One deque changes: by a task at its end, or at its front.
Elsewhere(d, e, p, t) == \A q \in 0..1, v \in Threads : q # p \/ v # t => e[q][v] = d[q][v]
OneMore(s, r, task) == /\ Len(r) = Len(s) + 1 /\ r[Len(s) + 1] = task
                      /\ \A i \in 1 .. Len(s) : r[i] = s[i]
MovedUp(s, r) == Len(r) = Len(s) - 1 /\ \A i \in 1 .. Len(s) - 1 : r[i] = s[i + 1]

\* The positions of the deques are finite.
LEMMA QueuedFinite == ASSUME NEW d, NEW u PROVE IsFiniteSet(QueuedIn(d, u))
<1> DEFINE Triples == (0..1) \X Threads \X (1 .. MaxTasks)
           Pairs == ((0..1) \X Threads) \X (1 .. MaxTasks)
           f == [x \in Triples |-> << <<x[1], x[2]>>, x[3] >>]
<1>1. N - 1 \in Int /\ MaxTasks \in Int
  BY TaskTeamAssumption
<1>2. IsFiniteSet(0..1) /\ IsFiniteSet(0 .. N-1) /\ IsFiniteSet(1 .. MaxTasks)
  <2>1. IsFiniteSet(0..1)
    <3>1. 0 \in Int /\ 1 \in Int
      OBVIOUS
    <3> QED
      BY <3>1, FS_Interval, Zenon
  <2>2. IsFiniteSet(0 .. N-1)
    BY <1>1, FS_Interval
  <2>3. IsFiniteSet(1 .. MaxTasks)
    BY <1>1, FS_Interval
  <2> QED
    BY <2>1, <2>2, <2>3
<1>3. IsFiniteSet((0..1) \X Threads)
  BY <1>2, FS_Product DEF Threads
<1>4. IsFiniteSet(Pairs)
  BY <1>2, <1>3, FS_Product
<1>5. f \in Injection(Triples, Pairs)
  BY DEF Injection, IsInjective
<1>6. IsFiniteSet(Triples)
  BY <1>4, <1>5, FS_Injection
<1>7. QueuedIn(d, u) \subseteq Triples
  BY DEF QueuedIn
<1> QED
  BY <1>6, <1>7, FS_Subset

\* A task is pushed to the end of a deque.
LEMMA Pushed ==
  ASSUME NEW d \in Deques, NEW p \in 0..1, NEW t \in Threads, NEW u,
         NEW e \in Deques, NEW task,
         Len(d[p][t]) < MaxTasks, OneMore(d[p][t], e[p][t], task),
         Elsewhere(d, e, p, t)
  PROVE  Cardinality(QueuedIn(e, u)) =
           Cardinality(QueuedIn(d, u)) + One(task, u)
<1> DEFINE last == <<p, t, Len(d[p][t]) + 1>>
<1>1. Len(d[p][t]) \in Nat /\ MaxTasks \in Nat
  BY TaskTeamAssumption DEF Deques
<1>2. last \notin QueuedIn(d, u) /\ IsFiniteSet(QueuedIn(d, u))
  <2>1. last[1] = p /\ last[2] = t /\ last[3] > Len(d[p][t])
    BY <1>1
  <2>2. last \notin QueuedIn(d, u)
    BY <1>1, <2>1 DEF QueuedIn
  <2> QED
    BY <2>2, QueuedFinite
<1>3. ASSUME NEW q \in 0..1, NEW v \in Threads, NEW i \in 1 .. MaxTasks
      PROVE  <<q, v, i>> \in QueuedIn(e, u) <=>
               <<q, v, i>> \in QueuedIn(d, u) \/ (<<q, v, i>> = last /\ task.parent = u)
  <2>1. /\ <<q, v, i>> \in QueuedIn(e, u) <=> i <= Len(e[q][v]) /\ e[q][v][i].parent = u
        /\ <<q, v, i>> \in QueuedIn(d, u) <=> i <= Len(d[q][v]) /\ d[q][v][i].parent = u
    BY DEF QueuedIn
  <2>2. <<q, v, i>> = last <=> q = p /\ v = t /\ i = Len(d[p][t]) + 1
    OBVIOUS
  <2> HIDE DEF last
  <2>3. CASE q # p \/ v # t
    BY <2>1, <2>2, <2>3 DEF Elsewhere
  <2>4. CASE q = p /\ v = t
    <3>1. /\ <<p, t, i>> \in QueuedIn(e, u) <=> i <= Len(e[p][t]) /\ e[p][t][i].parent = u
          /\ <<p, t, i>> \in QueuedIn(d, u) <=> i <= Len(d[p][t]) /\ d[p][t][i].parent = u
          /\ <<p, t, i>> = last <=> i = Len(d[p][t]) + 1
      BY <2>1, <2>2, <2>4
    <3>2. CASE i <= Len(d[p][t])
      <4>1. e[p][t][i] = d[p][t][i] /\ i <= Len(e[p][t]) /\ i # Len(d[p][t]) + 1
        BY <1>1, <3>2 DEF OneMore
      <4> QED
        BY <2>4, <3>1, <3>2, <4>1
    <3>3. CASE i = Len(d[p][t]) + 1
      <4>1. e[p][t][i] = task /\ i <= Len(e[p][t]) /\ ~(i <= Len(d[p][t]))
        BY <1>1, <3>3 DEF OneMore
      <4> QED
        BY <2>4, <3>1, <3>3, <4>1
    <3>4. CASE i > Len(d[p][t]) + 1
      <4>1. ~(i <= Len(d[p][t])) /\ ~(i <= Len(e[p][t])) /\ i # Len(d[p][t]) + 1
        BY <1>1, <3>4 DEF OneMore
      <4> QED
        BY <2>4, <3>1, <4>1
    <3>5. i <= Len(d[p][t]) \/ i = Len(d[p][t]) + 1 \/ i > Len(d[p][t]) + 1
      BY <1>1
    <3> QED
      BY <3>2, <3>3, <3>4, <3>5
  <2> QED
    BY <2>3, <2>4
<1>4. QueuedIn(e, u) = IF task.parent = u THEN QueuedIn(d, u) \cup {last} ELSE QueuedIn(d, u)
  <2>1. last \in (0..1) \X Threads \X (1 .. MaxTasks)
    BY <1>1
  <2>2. /\ QueuedIn(e, u) \subseteq (0..1) \X Threads \X (1 .. MaxTasks)
        /\ QueuedIn(d, u) \subseteq (0..1) \X Threads \X (1 .. MaxTasks)
    BY DEF QueuedIn
  <2>3. ASSUME NEW x \in (0..1) \X Threads \X (1 .. MaxTasks)
        PROVE  x \in QueuedIn(e, u) <=> x \in QueuedIn(d, u) \/ (x = last /\ task.parent = u)
    <3>1. PICK q \in 0..1, v \in Threads, i \in 1 .. MaxTasks : x = <<q, v, i>>
      BY <2>3
    <3> QED
      BY <1>3, <3>1
  <2> HIDE DEF last
  <2> QED
    BY <2>1, <2>2, <2>3
<1>5. Cardinality(QueuedIn(d, u)) \in Nat
  BY <1>2, FS_CardinalityType
<1>6. Cardinality(QueuedIn(d, u) \cup {last}) = Cardinality(QueuedIn(d, u)) + 1
  BY <1>2, FS_AddElement
<1> QED
  BY <1>4, <1>5, <1>6 DEF One

\* The owner takes the last one.
LEMMA Popped ==
  ASSUME NEW d \in Deques, NEW p \in 0..1, NEW t \in Threads, NEW u,
         d[p][t] # << >>, Len(d[p][t]) <= MaxTasks,
         NEW e \in Deques, e[p][t] = Front(d[p][t]),
         Elsewhere(d, e, p, t)
  PROVE  /\ Last(d[p][t]) \in Tasks
         /\ Cardinality(QueuedIn(d, u)) =
              Cardinality(QueuedIn(e, u)) + One(Last(d[p][t]), u)
<1>1. /\ Len(d[p][t]) \in Nat /\ Len(d[p][t]) > 0 /\ MaxTasks \in Nat /\ d[p][t] \in Seq(Tasks)
  BY TaskTeamAssumption DEF Deques
<1>2. /\ Len(Front(d[p][t])) = Len(d[p][t]) - 1
      /\ \A i \in 1 .. Len(d[p][t]) - 1 : Front(d[p][t])[i] = d[p][t][i]
  BY <1>1 DEF Front
<1>3. OneMore(e[p][t], d[p][t], Last(d[p][t])) /\ Len(e[p][t]) < MaxTasks
  BY <1>1, <1>2 DEF Last, OneMore
<1>4. Elsewhere(e, d, p, t)
  BY DEF Elsewhere
<1>5. Cardinality(QueuedIn(d, u)) = Cardinality(QueuedIn(e, u)) + One(Last(d[p][t]), u)
  BY <1>3, <1>4, Pushed
<1> QED
  BY <1>1, <1>5 DEF Last

\* In one deque the first task is gone and the others have moved up.
LEMMA Shifted ==
  ASSUME NEW d \in Deques, NEW p \in 0..1, NEW t \in Threads, NEW u,
         NEW e \in Deques,
         Len(d[p][t]) > 0, Len(d[p][t]) <= MaxTasks, MovedUp(d[p][t], e[p][t]),
         Elsewhere(d, e, p, t)
  PROVE  Cardinality(QueuedIn(d, u)) = Cardinality(QueuedIn(e, u)) + One(d[p][t][1], u)
<1> DEFINE first == <<p, t, 1>>
           S == QueuedIn(e, u)
           T == QueuedIn(d, u) \ {first}
           f == [x \in S |-> <<x[1], x[2], IF x[1] = p /\ x[2] = t THEN x[3] + 1 ELSE x[3]>>]
<1>0. Len(d[p][t]) \in Nat /\ MaxTasks \in Nat
  BY TaskTeamAssumption DEF Deques
<1>4. \A q, v, i : <<q, v, i>> \in S <=> /\ q \in 0..1 /\ v \in Threads /\ i \in 1 .. MaxTasks
                                         /\ i <= Len(e[q][v]) /\ e[q][v][i].parent = u
  BY DEF QueuedIn
<1>5. \A q, v, i : <<q, v, i>> \in T <=> /\ q \in 0..1 /\ v \in Threads /\ i \in 1 .. MaxTasks
                                         /\ i <= Len(d[q][v]) /\ d[q][v][i].parent = u
                                         /\ <<q, v, i>> # first
  BY DEF QueuedIn
<1>6. /\ \A x \in S : \E q \in 0..1, v \in Threads, i \in 1 .. MaxTasks : x = <<q, v, i>>
      /\ \A x \in T : \E q \in 0..1, v \in Threads, i \in 1 .. MaxTasks : x = <<q, v, i>>
  BY DEF QueuedIn
<1> HIDE DEF S, T
<1>7. f \in Bijection(S, T)
  <2>1. ASSUME NEW x \in S PROVE f[x] \in T
    <3>1. PICK q \in 0..1, v \in Threads, i \in 1 .. MaxTasks : x = <<q, v, i>>
      BY <1>6
    <3>2. i <= Len(e[q][v]) /\ e[q][v][i].parent = u
      BY <1>4, <3>1
    <3>3. CASE q = p /\ v = t
      <4>1. i + 1 \in 1 .. Len(d[p][t]) /\ i + 1 \in 1 .. MaxTasks /\ e[p][t][i] = d[p][t][i + 1]
        BY <1>0, <3>2, <3>3 DEF MovedUp
      <4>2. f[x] = <<p, t, i + 1>>
        BY <3>1, <3>3
      <4> QED
        BY <1>5, <3>2, <3>3, <4>1, <4>2
    <3>4. CASE q # p \/ v # t
      <4>1. f[x] = <<q, v, i>> /\ e[q][v] = d[q][v]
        BY <3>1, <3>4 DEF Elsewhere
      <4> QED
        BY <1>5, <3>2, <3>4, <4>1
    <3> QED
      BY <3>3, <3>4
  <2>2. ASSUME NEW x \in S, NEW y \in S, f[x] = f[y] PROVE x = y
    <3>1. PICK q \in 0..1, v \in Threads, i \in 1 .. MaxTasks : x = <<q, v, i>>
      BY <1>6
    <3>2. PICK r \in 0..1, w \in Threads, j \in 1 .. MaxTasks : y = <<r, w, j>>
      BY <1>6
    <3> QED
      BY <2>2, <3>1, <3>2
  <2>3. ASSUME NEW y \in T PROVE \E x \in S : f[x] = y
    <3>1. PICK q \in 0..1, v \in Threads, i \in 1 .. MaxTasks : y = <<q, v, i>>
      BY <1>6
    <3>2. CASE q = p /\ v = t
      <4>0. /\ q = p /\ v = t /\ i # 1 /\ i <= Len(d[p][t]) /\ d[p][t][i].parent = u
            /\ i - 1 \in 1 .. MaxTasks /\ i - 1 \in 1 .. Len(d[p][t]) - 1
        BY <1>0, <1>5, <3>1, <3>2
      <4>1. i - 1 \in 1 .. MaxTasks /\ <<p, t, i - 1>> \in S
        <5>1. e[p][t][i - 1] = d[p][t][i] /\ i - 1 <= Len(e[p][t])
          BY <1>0, <4>0 DEF MovedUp
        <5> DEFINE j == i - 1
        <5>2. /\ j \in 1 .. MaxTasks /\ j <= Len(e[p][t]) /\ e[p][t][j].parent = u
              /\ p \in 0..1 /\ t \in Threads
          BY <4>0, <5>1
        <5> HIDE DEF j
        <5>3. <<p, t, j>> \in S
          BY <1>4, <5>2
        <5> QED
          BY <5>2, <5>3 DEF j
      <4>2. f[<<p, t, i - 1>>] = y
        BY <3>1, <3>2, <4>1
      <4> QED
        BY <4>1, <4>2
    <3>3. CASE q # p \/ v # t
      <4>1. y \in S
        BY <1>4, <1>5, <3>1, <3>3 DEF Elsewhere
      <4>2. f[y] = y
        BY <3>1, <3>3, <4>1
      <4> QED
        BY <4>1, <4>2
    <3> QED
      BY <3>2, <3>3
  <2>4. f \in [S -> T]
    BY <2>1
  <2> HIDE DEF f
  <2> QED
    BY <2>2, <2>3, <2>4 DEF Bijection, Injection, IsInjective, Surjection
<1>8. Cardinality(T) = Cardinality(S) /\ IsFiniteSet(S)
  <2>1. IsFiniteSet(S)
    BY QueuedFinite DEF S
  <2> QED
    BY <1>7, <2>1, FS_Bijection DEF ExistsBijection
<1>9. first \in QueuedIn(d, u) <=> d[p][t][1].parent = u
  BY <1>0 DEF QueuedIn
<1>10. QueuedIn(d, u) = IF d[p][t][1].parent = u THEN T \cup {first} ELSE T
  BY <1>9 DEF T
<1>11. first \notin T /\ IsFiniteSet(T)
  BY QueuedFinite, FS_RemoveElement DEF T
<1>12. Cardinality(T) \in Nat /\ Cardinality(T \cup {first}) = Cardinality(T) + 1
  BY <1>11, FS_AddElement, FS_CardinalityType
<1> QED
  BY <1>0, <1>8, <1>10, <1>12 DEF S, One

\* A thief takes the first one.
LEMMA Stolen ==
  ASSUME NEW d \in Deques, NEW p \in 0..1, NEW t \in Threads, NEW u,
         d[p][t] # << >>, Len(d[p][t]) <= MaxTasks,
         NEW e \in Deques, e[p][t] = Tail(d[p][t]),
         Elsewhere(d, e, p, t)
  PROVE  /\ Head(d[p][t]) \in Tasks
         /\ Cardinality(QueuedIn(d, u)) =
              Cardinality(QueuedIn(e, u)) + One(Head(d[p][t]), u)
<1>1. /\ Len(d[p][t]) \in Nat /\ Len(d[p][t]) > 0 /\ d[p][t] \in Seq(Tasks)
      /\ Head(d[p][t]) = d[p][t][1] /\ Head(d[p][t]) \in Tasks
  BY DEF Deques
<1>2. MovedUp(d[p][t], e[p][t])
  BY <1>1 DEF MovedUp
<1> QED
  BY <1>1, <1>2, Shifted
-----------------------------------------------------------------------------
(* Lemmas about threads. *)

LEMMA Basics ==
  ASSUME Types
  PROVE  /\ N \in Nat /\ N > 1 /\ nproc \in 1 .. N /\ (nproc > 1 => nproc \in Sizes)
         /\ 0 \in Members /\ Members \subseteq Threads /\ 0 \in Threads
         /\ Members \ {0} = 1 .. nproc-1 /\ Workers = Threads \ {0}
         /\ Cur \in 0..1 /\ Other \in 0..1 /\ Cur # Other /\ (0..1) = {Cur, Other}
         /\ None \notin 0..1 /\ None \notin Threads
         /\ region \in Nat /\ k[0] \in Nat /\ Past \in Int /\ JoinStep \in Nat
<1>1. /\ N \in Nat /\ N > 1 /\ Sizes \subseteq 2 .. N /\ nproc \in {1} \cup Sizes
      /\ Bodies \subseteq Nat /\ body \in Bodies \cup {0} /\ region \in Nat
      /\ k \in [Threads -> Nat] /\ th_task_state \in [Threads -> 0..1]
  BY TaskTeamAssumption DEF Types, TypeOK
<1>2. 0 \in Threads
  BY <1>1 DEF Threads
<1>3. Cur \in 0..1 /\ Other \in 0..1 /\ Cur # Other /\ (0..1) = {Cur, Other}
  BY <1>1, <1>2 DEF Cur, Other
<1> QED
  BY <1>1, <1>2, <1>3 DEF Members, Threads, Workers, Past, JoinStep, None

\* A step that leaves everybody at its barrier.
Loops == {"gather", "task_wait"} \cup Executing
Still ==
  /\ UNCHANGED <<team, th_task_state, barrier>>
  /\ \A t \in Workers : pc'[t] = pc[t] \/ (pc[t] \in Waits /\ pc'[t] \in Waits)
  /\ \/ pc'[0] = pc[0]
     \/ /\ pc[0] \in Loops /\ pc'[0] \in Loops
        /\ (pc'[0] = "gather" => ~gathered) /\ (pc'[0] = "task_wait" => gathered)

LEMMA StillPlaces ==
  ASSUME Types, Places, Still
  PROVE  /\ InBarrier' <=> InBarrier
         /\ Past' = Past /\ Cur' = Cur /\ Other' = Other /\ JoinStep' = JoinStep
         /\ Members' = Members
         /\ \A t \in Threads : /\ On(t)' <=> On(t)
                               /\ t # 0 => (Behind(t)' <=> Behind(t))
                               /\ pc'[t] = "work" <=> pc[t] = "work"
         /\ pc'[0] = "serial" <=> pc[0] = "serial"
         /\ pc'[0] = "release" <=> pc[0] = "release"
         /\ Places'
<1>1. UNCHANGED <<region, body, nproc, th_task_state, k, arrived, go, gathered>>
  BY DEF Still, team, barrier
<1>2. /\ Workers = Threads \ {0} /\ 0 \in Threads /\ 0 \in Members /\ Members \subseteq Threads
  BY Basics
<1>3. /\ InBarrier' <=> InBarrier
      /\ pc'[0] = "serial" <=> pc[0] = "serial"
      /\ pc'[0] = "release" <=> pc[0] = "release"
      /\ pc'[0] = "work" <=> pc[0] = "work"
  BY DEF Still, InBarrier, Loops, Executing
<1>4. Past' = Past /\ Cur' = Cur /\ JoinStep' = JoinStep /\ Members' = Members
  BY <1>1, <1>3 DEF Past, Cur, JoinStep, Members
<1>5. Other' = Other
  BY <1>4 DEF Other
<1>6. ASSUME NEW t \in Threads
      PROVE  /\ On(t)' <=> On(t)
             /\ t # 0 => (Behind(t)' <=> Behind(t))
             /\ pc'[t] = "work" <=> pc[t] = "work"
             /\ t # 0 => (pc'[t] \in Waits <=> pc[t] \in Waits)
  <2>1. CASE t = 0
    BY <1>1, <1>3, <1>4, <2>1 DEF On, Behind, Still, Loops, Waits, Executing
  <2>2. CASE t # 0
    <3>1. pc'[t] = "work" <=> pc[t] = "work"
      BY <1>2, <2>2 DEF Still, Waits, Executing
    <3>2. pc'[t] \in Waits <=> pc[t] \in Waits
      BY <1>2, <2>2 DEF Still
    <3> QED
      BY <1>1, <1>3, <1>4, <2>2, <3>1, <3>2 DEF On, Behind
  <2> QED
    BY <2>1, <2>2
<1>7. Places'
  <2>1. /\ k'[0] <= JoinStep' /\ (pc'[0] \in {"work", "release"} => k'[0] < JoinStep')
        /\ InBarrier' => k'[0] > 0
        /\ pc'[0] # "serial" => nproc' > 1 /\ region' > 0
        /\ gathered' => InBarrier'
    BY <1>1, <1>3, <1>4 DEF Places
  <2>2. /\ pc'[0] \in {"serial", "work", "release", "gather", "task_wait"} \cup Executing
        /\ pc'[0] = "gather" => ~gathered'
        /\ pc'[0] = "task_wait" => gathered'
    BY <1>1 DEF Places, Still, Loops
  <2>3. /\ \A t \in Members' \ {0} : On(t)' \/ Behind(t)'
        /\ \A t \in Threads \ Members' : pc'[t] \in Waits
        /\ \A t \in Threads : go'[t] <=> t \in Members' \ {0} /\ Behind(t)' /\ pc'[0] # "serial"
    BY <1>1, <1>2, <1>3, <1>4, <1>6 DEF Places
  <2>4. /\ arrived' = IF gathered' THEN {} ELSE {t \in Members' \ {0} : k'[t] = Past' + 1}
        /\ gathered' => \A t \in Members' \ {0} : k'[t] = Past' + 1
    BY <1>1, <1>4 DEF Places
  <2> QED
    BY <2>1, <2>2, <2>3, <2>4 DEF Places
<1> QED
  BY <1>3, <1>4, <1>5, <1>6, <1>7

\* So the threads that are due, and those that steal without it, are the same if
\* nobody finishes or changes its team.
LEMMA StillDue ==
  ASSUME Types, Places, Still,
         NEW t \in Threads,
         \A u \in Threads : u # t => /\ thread_finished'[u] = thread_finished[u]
                                    /\ local_team'[u] = local_team[u]
  PROVE  /\ \A u \in Members : u # t => (u \in Due' <=> u \in Due)
         /\ \A u \in Threads : u # t => (u \in Thieves' <=> u \in Thieves)
         /\ Due' \subseteq Members /\ Due \subseteq Members
         /\ Thieves' \subseteq Threads /\ Thieves \subseteq Threads
         /\ t \in Due <=> t \in Members /\ ~(On(t) /\ pc[t] # "work" /\ thread_finished[t])
         /\ t \in Due' <=> t \in Members /\ ~(On(t) /\ pc[t] # "work" /\ thread_finished'[t])
         /\ t \in Thieves <=> ~On(t) /\ local_team[t] = Cur /\ ~thread_finished[t]
         /\ t \in Thieves' <=> ~On(t) /\ local_team'[t] = Cur /\ ~thread_finished'[t]
<1>1. Members \subseteq Threads
  BY Basics
<1> QED
  BY <1>1, StillPlaces DEF Due, Thieves, Finished

LEMMA Finite ==
  ASSUME Types
  PROVE  /\ IsFiniteSet(Threads) /\ IsFiniteSet(Due) /\ IsFiniteSet(Thieves)
         /\ Cardinality(Due) \in Nat /\ Cardinality(Thieves) \in Nat
         /\ Cardinality(Due) = 0 <=> Due = {}
         /\ Cardinality(Thieves) = 0 <=> Thieves = {}
<1>1. N - 1 \in Int /\ 0 \in Int
  BY Basics
<1>2. IsFiniteSet(Threads)
  BY <1>1, FS_Interval DEF Threads
<1>3. Due \subseteq Threads /\ Thieves \subseteq Threads
  BY Basics DEF Due, Thieves
<1>4. IsFiniteSet(Due) /\ IsFiniteSet(Thieves)
  BY <1>2, <1>3, FS_Subset
<1> QED
  BY <1>2, <1>4, FS_CardinalityType, FS_EmptySet

LEMMA FiniteNext == (Types => IsFiniteSet(Due) /\ IsFiniteSet(Thieves))'
<1>1. Types => IsFiniteSet(Due) /\ IsFiniteSet(Thieves)
  BY Finite
<1> QED
  BY <1>1, PTL

-----------------------------------------------------------------------------
(* Steps of a thread that waits. *)

\* The other threads sleep or wake at most.
Naps == {"wait", "drowsy", "asleep"}
Alone(t) == \A u \in Threads \ {t} :
  /\ pc'[u] = pc[u] \/ (pc[u] \in Naps /\ pc'[u] \in Naps)
  /\ th_task_team'[u] = th_task_team[u] /\ local_team'[u] = local_team[u]
  /\ thread_finished'[u] = thread_finished[u] /\ current'[u] = current[u]

LEMMA AloneOwn ==
  ASSUME IInv, Still, NEW t \in Threads, Alone(t), OwnTeam(t)',
         t = 0 => /\ InBarrier /\ ~gathered => ~thread_finished'[0]
                  /\ pc'[0] = "task_wait" /\ local_team'[0] # None => ~thread_finished'[0]
  PROVE  OwnTeams'
<1>1. Types /\ Places /\ OwnTeams
  BY DEF IInv
<1>2. ASSUME NEW u \in Threads, u # t
      PROVE  OwnTeam(u)'
  <2>1. OwnTeam(u)
    BY <1>1 DEF OwnTeams
  <2>2. /\ pc'[u] \in Executing <=> pc[u] \in Executing
        /\ pc'[u] \in {"stealing", "run"} <=> pc[u] \in {"stealing", "run"}
        /\ pc'[u] \in {"gather", "task_wait"} <=> pc[u] \in {"gather", "task_wait"}
    BY <1>2 DEF Alone, Naps, Executing
  <2>3. th_task_state' = th_task_state
    BY DEF Still
  <2> QED
    BY <1>1, <1>2, <2>1, <2>2, <2>3, StillPlaces DEF OwnTeam, Alone
<1>3. hot_team_nth' = nproc' /\ gathered' = gathered
  BY <1>1 DEF OwnTeams, Still, team, barrier
<1>4. t # 0 => /\ InBarrier /\ ~gathered => ~thread_finished'[0]
               /\ pc'[0] = "task_wait" /\ local_team'[0] # None => ~thread_finished'[0]
  <2>1. 0 \in Threads /\ Workers = Threads \ {0}
    BY <1>1, Basics
  <2> QED
    BY <1>1, <2>1 DEF OwnTeams, Alone, Naps
<1> QED
  BY <1>1, <1>2, <1>3, <1>4, StillPlaces DEF OwnTeams

\* A task team changes in its count, and comes to have tasks, at most.
SameTeam(p) == /\ task_team'[p].alloc = task_team[p].alloc
               /\ task_team'[p].active = task_team[p].active
               /\ task_team'[p].nproc = task_team[p].nproc

LEMMA StillTeams ==
  ASSUME IInv, Still, task_team'[Other] = task_team[Other], SameTeam(Cur),
         Shut(Other)',
         pc[0] = "serial" => task_team'[Cur] = task_team[Cur] /\ Shut(Cur)',
         ~task_team'[Cur].found => Shut(Cur)' /\ \A t \in Members : ~Finished(t)'
  PROVE  Teams'
<1>1. Types /\ Places /\ Teams
  BY DEF IInv
<1>2. region' = region /\ nproc' = nproc /\ k' = k
  BY DEF Still, team, barrier
<1>3. (0..1) = {Cur, Other} /\ 0 \in 0..1 /\ 1 \in 0..1
  BY <1>1, Basics
<1>4. region' > 0 => task_team'[0].alloc /\ task_team'[1].alloc
  <2>1. \A p \in {Cur, Other} : task_team'[p].alloc = task_team[p].alloc
    BY DEF SameTeam
  <2> QED
    BY <1>1, <1>2, <1>3, <2>1 DEF Teams
<1>5. Idle(Other)' /\ (pc'[0] = "serial" => Idle(Cur)')
  BY <1>1, StillPlaces DEF Teams, Idle
<1>6. /\ pc'[0] # "serial" => Ready(Cur)'
      /\ InBarrier' /\ k'[0] # JoinStep' => Ready(Other)'
  BY <1>1, <1>2, StillPlaces DEF Teams, Ready, SameTeam
<1> QED
  BY <1>1, <1>4, <1>5, <1>6, StillPlaces DEF Teams

\* The count follows when one thread finishes, or is unfinished again.
LEMMA StillCounted ==
  ASSUME IInv, Types', Still, NEW t \in Threads, Alone(t), pc[0] # "serial",
         \/ /\ thread_finished'[t] = thread_finished[t]
            /\ On(t) \/ thread_finished[t] \/ local_team'[t] = local_team[t]
            /\ task_team'[Cur].unfinished = task_team[Cur].unfinished
         \/ /\ thread_finished[t] /\ ~thread_finished'[t] /\ pc[t] # "work"
            /\ local_team'[t] = Cur
            /\ task_team'[Cur].unfinished = task_team[Cur].unfinished + 1
         \/ /\ ~thread_finished[t] /\ thread_finished'[t] /\ pc[t] # "work"
            /\ local_team[t] = Cur
            /\ task_team'[Cur].unfinished = task_team[Cur].unfinished - 1
  PROVE  Counted'
<1>1. Types /\ Places /\ Counted /\ OwnTeams
  BY DEF IInv
<1>2. /\ IsFiniteSet(Due) /\ IsFiniteSet(Thieves) /\ IsFiniteSet(Due') /\ IsFiniteSet(Thieves')
      /\ Cardinality(Due) \in Nat /\ Cardinality(Thieves) \in Nat
  BY <1>1, Finite, FiniteNext, FS_CardinalityType
<1>3. Cur' = Cur /\ task_team[Cur].unfinished \in Nat
  BY <1>1, StillPlaces, Basics DEF Types, TypeOK
<1>4. \A u \in Threads : u # t => /\ thread_finished'[u] = thread_finished[u]
                                 /\ local_team'[u] = local_team[u]
  BY DEF Alone
<1>5. /\ \A u \in Members : u # t => (u \in Due' <=> u \in Due)
      /\ \A u \in Threads : u # t => (u \in Thieves' <=> u \in Thieves)
      /\ Due' \subseteq Members /\ Due \subseteq Members
      /\ Thieves' \subseteq Threads /\ Thieves \subseteq Threads
      /\ t \in Due <=> t \in Members /\ ~(On(t) /\ pc[t] # "work" /\ thread_finished[t])
      /\ t \in Due' <=> t \in Members /\ ~(On(t) /\ pc[t] # "work" /\ thread_finished'[t])
      /\ t \in Thieves <=> ~On(t) /\ local_team[t] = Cur /\ ~thread_finished[t]
      /\ t \in Thieves' <=> ~On(t) /\ local_team'[t] = Cur /\ ~thread_finished'[t]
  BY <1>1, <1>4, StillDue
<1>6. On(t) => t \in Members
  BY DEF On
<1>7. task_team[Cur].unfinished = Cardinality(Due) + Cardinality(Thieves)
  BY <1>1 DEF Counted
<1>8. CASE /\ thread_finished'[t] = thread_finished[t]
           /\ On(t) \/ thread_finished[t] \/ local_team'[t] = local_team[t]
           /\ task_team'[Cur].unfinished = task_team[Cur].unfinished
  <2>1. Due' = Due /\ Thieves' = Thieves
    BY <1>5, <1>8
  <2> QED
    BY <1>3, <1>7, <1>8, <2>1 DEF Counted
<1>9. CASE /\ thread_finished[t] /\ ~thread_finished'[t] /\ pc[t] # "work"
           /\ local_team'[t] = Cur
           /\ task_team'[Cur].unfinished = task_team[Cur].unfinished + 1
  <2>1. CASE On(t)
    <3>1. Due' = Due \cup {t} /\ t \notin Due /\ Thieves' = Thieves
      BY <1>5, <1>6, <1>9, <2>1
    <3>2. Cardinality(Due') = Cardinality(Due) + 1
      BY <1>2, <3>1, FS_AddElement
    <3> QED
      BY <1>2, <1>3, <1>7, <1>9, <3>1, <3>2 DEF Counted
  <2>2. CASE ~On(t)
    <3>1. Thieves' = Thieves \cup {t} /\ t \notin Thieves /\ Due' = Due
      BY <1>5, <1>9, <2>2
    <3>2. Cardinality(Thieves') = Cardinality(Thieves) + 1
      BY <1>2, <3>1, FS_AddElement
    <3> QED
      BY <1>2, <1>3, <1>7, <1>9, <3>1, <3>2 DEF Counted
  <2> QED
    BY <2>1, <2>2
<1>10. CASE /\ ~thread_finished[t] /\ thread_finished'[t] /\ pc[t] # "work"
            /\ local_team[t] = Cur
            /\ task_team'[Cur].unfinished = task_team[Cur].unfinished - 1
  <2>1. CASE On(t)
    <3>1. Due' = Due \ {t} /\ t \in Due /\ Thieves' = Thieves
      BY <1>5, <1>6, <1>10, <2>1
    <3>2. Cardinality(Due') = Cardinality(Due) - 1
      BY <1>2, <3>1, FS_RemoveElement
    <3> QED
      BY <1>2, <1>3, <1>7, <1>10, <3>1, <3>2 DEF Counted
  <2>2. CASE ~On(t)
    <3>1. Thieves' = Thieves \ {t} /\ t \in Thieves /\ Due' = Due
      BY <1>5, <1>10, <2>2
    <3>2. Cardinality(Thieves') = Cardinality(Thieves) - 1
      BY <1>2, <3>1, FS_RemoveElement
    <3> QED
      BY <1>2, <1>3, <1>7, <1>10, <3>1, <3>2 DEF Counted
  <2> QED
    BY <2>1, <2>2
<1> QED
  BY <1>8, <1>9, <1>10

\* Tasks stay where they are.
LEMMA StillTasks ==
  ASSUME IInv, Still, NEW t \in Threads, Alone(t), UNCHANGED <<deque, incomplete, current>>,
         pc'[t] = "run" <=> pc[t] = "run"
  PROVE  Children' /\ Left'
<1>1. Types /\ Places /\ Children /\ Left
  BY DEF IInv
<1>2. \A u \in Threads : pc'[u] = "run" <=> pc[u] = "run"
  BY DEF Alone, Naps
<1>3. Children'
  BY <1>1, <1>2 DEF Children, QueuedOf, QueuedIn, RunningOf
<1>4. Left'
  <2>1. \A task \in Tasks : Recent(task) => Recent(task)'
    <3>1. region' = region
      BY DEF Still, team
    <3> QED
      BY <1>1, <3>1, StillPlaces DEF Recent, Tasks
  <2>2. /\ \A p \in 0..1, u \in Threads : \A i \in 1 .. Len(deque[p][u]) : deque[p][u][i] \in Tasks
        /\ \A u \in Threads : current[u] \in Tasks
    BY <1>1 DEF Types
  <2> QED
    BY <1>1, <1>2, <2>1, <2>2 DEF Left
<1> QED
  BY <1>3, <1>4

\* A thread that waits looks about, without touching a task.
Quiet(t) ==
  /\ UNCHANGED <<deque, stealing, incomplete, current>>
  /\ pc[t] \notin {"work", "stealing", "run"} /\ pc'[t] \notin {"stealing", "run"}
  /\ task_team'[Other] = task_team[Other] /\ SameTeam(Cur)
  /\ task_team'[Cur].found = task_team[Cur].found
  /\ pc[0] = "serial" => task_team'[Cur] = task_team[Cur]
  /\ local_team'[t] = Cur => \/ pc[0] # "serial" /\ task_team[Cur].found
                            \/ local_team[t] = Cur
  /\ local_team'[t] = Other => local_team[t] = Other
  /\ \/ thread_finished'[t] = thread_finished[t]
     \/ /\ ~thread_finished[t] /\ thread_finished'[t]
        /\ local_team[t] = Cur /\ deque[Cur][t] = << >>
  /\ pc'[t] \in {"steal", "none"} => deque[Cur][t] = << >>

LEMMA QuietKeeps ==
  ASSUME IInv, Types', Still, NEW t \in Threads, Alone(t), Quiet(t), OwnTeams', Counted'
  PROVE  IInv'
<1>1. Types /\ Places /\ OwnTeams /\ Teams /\ Queues /\ Locks
  BY DEF IInv
<1>2. /\ Places' /\ Cur' = Cur /\ Other' = Other /\ Members' = Members
      /\ pc'[0] = "serial" <=> pc[0] = "serial"
      /\ \A u \in Threads : (On(u)' <=> On(u)) /\ (pc'[u] = "work" <=> pc[u] = "work")
      /\ Members \subseteq Threads /\ None \notin Threads /\ Cur # Other
  BY <1>1, StillPlaces, Basics
<1>3. Teams'
  <2>1. Shut(Other)'
    BY <1>1, <1>2 DEF Teams, Shut, Quiet, Alone
  <2>2. Shut(Cur) /\ (pc[0] = "serial" \/ ~task_team[Cur].found) => Shut(Cur)'
    BY <1>2 DEF Shut, Quiet, Alone
  <2>3. ~task_team[Cur].found => \A u \in Members : ~Finished(u)'
    <3>1. \A u \in Members : u # t /\ ~Finished(u) => ~Finished(u)'
      BY <1>2 DEF Finished, Alone
    <3>2. ~task_team[Cur].found /\ t \in Members /\ ~Finished(t) => ~Finished(t)'
      <4>1. ~task_team[Cur].found => (local_team[t] = Cur => thread_finished[t])
        BY <1>1 DEF Teams, Shut
      <4> QED
        BY <1>2, <4>1 DEF Finished, Quiet
    <3> QED
      BY <1>1, <3>1, <3>2 DEF Teams
  <2> QED
    BY <1>1, <2>1, <2>2, <2>3, StillTeams DEF Teams, Quiet
<1>4. Queues'
  <2> SUFFICES ASSUME NEW u \in Threads, deque[Cur][u] # << >>
               PROVE  /\ task_team'[Cur].found /\ On(u)
                      /\ pc'[u] \notin {"steal", "stealing", "none"}
                      /\ pc'[u] # "work" => ~thread_finished'[u]
    BY <1>2 DEF Queues, Quiet
  <2>1. /\ task_team[Cur].found /\ On(u) /\ pc[u] \notin {"steal", "stealing", "none"}
        /\ pc[u] # "work" => ~thread_finished[u]
    BY <1>1 DEF Queues
  <2>2. CASE u # t
    BY <1>2, <2>1, <2>2 DEF Quiet, Alone, Naps
  <2>3. CASE u = t
    BY <2>1, <2>3 DEF Quiet
  <2> QED
    BY <2>2, <2>3
<1>5. Locks'
  <2> SUFFICES ASSUME NEW p \in 0..1, NEW v \in Threads, stealing[p][v] # None
               PROVE  /\ pc'[stealing[p][v]] = "stealing" /\ local_team'[stealing[p][v]] = p
                      /\ deque[p][v] # << >>
                      /\ \A q \in 0..1, w \in Threads :
                           stealing[q][w] = stealing[p][v] => q = p /\ w = v
    BY DEF Locks, Quiet
  <2>1. /\ pc[stealing[p][v]] = "stealing" /\ local_team[stealing[p][v]] = p
        /\ deque[p][v] # << >>
        /\ \A q \in 0..1, w \in Threads : stealing[q][w] = stealing[p][v] => q = p /\ w = v
    BY <1>1 DEF Locks
  <2>2. stealing[p][v] \in Threads /\ stealing[p][v] # t
    BY <1>1, <2>1 DEF Types, Quiet
  <2> QED
    BY <2>1, <2>2 DEF Alone, Naps
<1>6. Children' /\ Left'
  BY StillTasks DEF Quiet
<1> QED
  BY <1>2, <1>3, <1>4, <1>5, <1>6 DEF IInv

\* Falling asleep and waking up.
LEMMA NapKeeps ==
  ASSUME IInv, Types', NEW t \in Workers, pc[t] \in Naps, pc' = [pc EXCEPT ![t] = pc'[t]],
         pc'[t] \in Naps, UNCHANGED <<team, task_team, tasks, own, barrier, locals>>
  PROVE  IInv'
<1>1. Types /\ Places /\ OwnTeams /\ Teams /\ Counted
  BY DEF IInv
<1>2. Workers = Threads \ {0} /\ t \in Threads /\ 0 \in Threads /\ pc = [u \in Threads |-> pc[u]]
  BY <1>1, Basics DEF Types, TypeOK
<1>3. Still
  BY <1>2 DEF Still, Naps, Waits, own
<1>4. Alone(t)
  BY <1>2 DEF Alone, own, locals
<1>5. Quiet(t)
  BY <1>1 DEF Quiet, Naps, tasks, locals, SameTeam
<1>6. OwnTeam(t)'
  <2>1. OwnTeam(t)
    BY <1>1, <1>2 DEF OwnTeams
  <2> QED
    BY <1>1, <1>2, <1>3, <2>1, StillPlaces DEF OwnTeam, Naps, Executing, own, locals
<1>7. OwnTeams'
  BY <1>2, <1>3, <1>4, <1>6, AloneOwn
<1>8. Counted'
  <2>1. CASE pc[0] # "serial"
    BY <1>2, <1>3, <1>4, <2>1, StillCounted DEF locals
  <2>2. CASE pc[0] = "serial"
    BY <1>1, <1>3, <2>2, StillPlaces DEF Counted
  <2> QED
    BY <2>1, <2>2
<1> QED
  BY <1>2, <1>3, <1>4, <1>5, <1>7, <1>8, QuietKeeps

\* A thread that looks for a task team finds the one of its barrier, with tasks, or
\* sees that the one it has left is no longer active.
LEMMA LookKeeps == ASSUME IInv, Types', NEW t \in Threads, Look(t) PROVE IInv'
<1>1. Types /\ Places /\ OwnTeams /\ Teams /\ Counted /\ Queues
  BY DEF IInv
<1>2. /\ Workers = Threads \ {0} /\ 0 \in Threads /\ None \notin Threads /\ None \notin 0..1
      /\ Cur \in 0..1 /\ Other \in 0..1 /\ Cur # Other /\ Members \subseteq Threads
      /\ pc = [u \in Threads |-> pc[u]]
      /\ local_team = [u \in Threads |-> local_team[u]]
      /\ th_task_team = [u \in Threads |-> th_task_team[u]]
  BY <1>1, Basics DEF Types, TypeOK
<1>3. OwnTeam(t)
  BY <1>1 DEF OwnTeams
<1>4. IF t = 0 THEN pc[t] \in {"gather", "task_wait"} ELSE pc[t] = "wait"
  BY DEF Look, WaitLabel
<1>5. t = 0 => On(t)
  <2>1. 0 \in Members
    BY <1>1, Basics
  <2> QED
    BY <1>4, <2>1 DEF On
<1>6. pc[0] # "serial" \/ ~On(t)
  BY DEF On
<1>7. CASE task_team[th_task_team[t]].active
  <2>1. /\ task_team[th_task_team[t]].found /\ th_task_team[t] # None
        /\ local_team' = [local_team EXCEPT ![t] = th_task_team[t]]
        /\ pc' = [pc EXCEPT ![t] = "own"]
        /\ UNCHANGED <<own, team, task_team, tasks, barrier, thread_finished, current>>
    BY <1>7 DEF Look, Goto
  <2>2. On(t) /\ th_task_team[t] = Cur /\ pc[0] # "serial"
    <3>1. th_task_team[t] # Other
      BY <1>1, <1>7, <2>1 DEF Teams, Idle
    <3> QED
      BY <1>3, <1>5, <1>6, <2>1, <3>1 DEF OwnTeam
  <2>3. Still
    BY <1>2, <1>4, <1>5, <2>1 DEF Still, Naps, Waits, Executing, Loops, own
  <2>4. Alone(t)
    BY <1>2, <2>1 DEF Alone, own
  <2>5. Quiet(t)
    BY <1>2, <1>4, <2>1, <2>2 DEF Quiet, Naps, tasks, SameTeam
  <2>6. OwnTeam(t)'
    BY <1>1, <1>2, <1>3, <2>1, <2>2, <2>3, StillPlaces DEF OwnTeam, Executing, own
  <2>7. OwnTeams'
    <3>1. t = 0 => /\ InBarrier /\ ~gathered => ~thread_finished'[0]
                   /\ pc'[0] = "task_wait" /\ local_team'[0] # None => ~thread_finished'[0]
      BY <1>1, <1>2, <2>1 DEF OwnTeams
    <3> QED
      BY <2>3, <2>4, <2>6, <3>1, AloneOwn
  <2>8. Counted'
    BY <2>1, <2>2, <2>3, <2>4, StillCounted
  <2> QED
    BY <2>3, <2>4, <2>5, <2>7, <2>8, QuietKeeps
<1>8. CASE ~task_team[th_task_team[t]].active
  <2>1. /\ th_task_team' = [th_task_team EXCEPT ![t] = None] /\ th_task_team[t] # None
        /\ UNCHANGED <<pc, th_task_state, local_team>>
        /\ UNCHANGED <<team, task_team, tasks, barrier, thread_finished, current>>
    BY <1>8 DEF Look
  <2>2. ~On(t)
    BY <1>1, <1>3, <1>6, <1>8 DEF OwnTeam, Teams, Ready
  <2>3. Still
    BY <2>1 DEF Still
  <2>4. Alone(t)
    BY <1>2, <2>1 DEF Alone
  <2>5. Quiet(t)
    BY <1>2, <1>4, <2>1, <2>2 DEF Quiet, Naps, tasks, SameTeam
  <2>6. OwnTeam(t)'
    BY <1>1, <1>2, <1>3, <1>5, <2>1, <2>2, <2>3, StillPlaces DEF OwnTeam
  <2>7. OwnTeams'
    BY <1>5, <2>2, <2>3, <2>4, <2>6, AloneOwn
  <2>8. Counted'
    <3>1. CASE pc[0] # "serial"
      BY <2>1, <2>3, <2>4, <3>1, StillCounted
    <3>2. CASE pc[0] = "serial"
      BY <1>1, <2>3, <3>2, StillPlaces DEF Counted
    <3> QED
      BY <3>1, <3>2
  <2> QED
    BY <2>3, <2>4, <2>5, <2>7, <2>8, QuietKeeps
<1> QED
  BY <1>7, <1>8

\* The team a thread looks for tasks in is that of its barrier, or one it has finished
\* with and that has no tasks.
LEMMA Executes ==
  ASSUME IInv, NEW t \in Threads, pc[t] \in Executing
  PROVE  /\ local_team[t] \in {Cur, Other}
         /\ local_team[t] = Other => ~On(t) /\ deque[Cur][t] = << >> /\ thread_finished[t]
         /\ pc[0] = "serial" => deque[Cur][t] = << >> /\ thread_finished[t]
         /\ t = 0 => On(t)
         /\ \A v \in Threads : /\ deque[Other][v] = << >>
                               /\ pc[0] = "serial" => deque[Cur][v] = << >>
         /\ ~task_team[Cur].found => thread_finished[t] /\ \A v \in Threads : deque[Cur][v] = << >>
<1>1. Types /\ Places /\ OwnTeams /\ Teams /\ Queues
  BY DEF IInv
<1>2. OwnTeam(t)
  BY <1>1 DEF OwnTeams
<1>3. local_team[t] \in {Cur, Other}
  <2>1. local_team[t] # None /\ local_team[t] \in {None, 0, 1}
    BY <1>1, <1>2 DEF OwnTeam, Types, TypeOK
  <2> QED
    BY <1>1, <2>1, Basics
<1>4. local_team[t] = Other => ~On(t) /\ deque[Cur][t] = << >> /\ thread_finished[t]
  <2>1. Other # Cur /\ Other # None
    BY <1>1, Basics
  <2> QED
    BY <1>1, <1>2, <2>1 DEF OwnTeam, Teams, Shut, Queues
<1>5. t = 0 => On(t)
  BY <1>1, Basics DEF On, Executing
<1> QED
  BY <1>1, <1>3, <1>4, <1>5 DEF Teams, Shut

LEMMA ExecutingStill ==
  ASSUME IInv, NEW t \in Threads, pc[t] \in Executing, pc' = [pc EXCEPT ![t] = pc'[t]],
         \/ pc'[t] \in Executing
         \/ t # 0 /\ pc'[t] \in Naps
         \/ t = 0 /\ pc'[t] = IF gathered THEN "task_wait" ELSE "gather",
         UNCHANGED <<team, th_task_state, barrier>>
  PROVE  Still
<1>1. Workers = Threads \ {0} /\ pc = [u \in Threads |-> pc[u]]
  BY Basics DEF IInv, Types, TypeOK
<1>2. t = 0 => /\ pc[0] \in Loops /\ pc'[0] \in Loops
              /\ (pc'[0] = "gather" => ~gathered) /\ (pc'[0] = "task_wait" => gathered)
  BY DEF Loops, Executing
<1>3. t # 0 => pc[t] \in Waits /\ pc'[t] \in Waits
  BY DEF Waits, Naps
<1>4. \A u \in Threads \ {t} : pc'[u] = pc[u]
  BY <1>1
<1>5. 0 \in Threads
  BY Basics DEF IInv
<1> QED
  BY <1>1, <1>2, <1>3, <1>4, <1>5 DEF Still

\* A task that one thread comes to run, and one that it has run.
LEMMA Starts ==
  ASSUME NEW t \in Threads, Types, Alone(t), pc[t] # "run", pc'[t] = "run", NEW u
  PROVE  /\ Cardinality(RunningOf(u)') = Cardinality(RunningOf(u)) +
                                         One(current'[t], u)
         /\ Cardinality(RunningOf(u)) \in Nat
<1>1. RunningOf(u) \subseteq Threads /\ t \notin RunningOf(u)
  BY DEF RunningOf
<1>2. IsFiniteSet(RunningOf(u))
  BY <1>1, Finite, FS_Subset
<1>3. RunningOf(u)' = IF current'[t].parent = u THEN RunningOf(u) \cup {t} ELSE RunningOf(u)
  BY DEF RunningOf, Alone, Naps
<1>4. /\ Cardinality(RunningOf(u)) \in Nat
      /\ Cardinality(RunningOf(u) \cup {t}) = Cardinality(RunningOf(u)) + 1
  BY <1>1, <1>2, FS_CardinalityType, FS_AddElement
<1> QED
  BY <1>3, <1>4 DEF One

LEMMA Ends ==
  ASSUME NEW t \in Threads, Types, Alone(t), pc[t] = "run", pc'[t] # "run", NEW u
  PROVE  /\ Cardinality(RunningOf(u)) = Cardinality(RunningOf(u)') +
                                        One(current[t], u)
         /\ Cardinality(RunningOf(u)') \in Nat
<1>1. RunningOf(u)' \subseteq Threads /\ t \notin RunningOf(u)'
  BY DEF RunningOf
<1>2. IsFiniteSet(RunningOf(u)')
  BY <1>1, Finite, FS_Subset
<1>3. RunningOf(u) = IF current[t].parent = u THEN RunningOf(u)' \cup {t} ELSE RunningOf(u)'
  BY DEF RunningOf, Alone, Naps
<1>4. /\ Cardinality(RunningOf(u)') \in Nat
      /\ Cardinality(RunningOf(u)' \cup {t}) = Cardinality(RunningOf(u)') + 1
  BY <1>1, <1>2, FS_CardinalityType, FS_AddElement
<1> QED
  BY <1>3, <1>4 DEF One

\* All tasks that are left were left before.
LEMMA StillLeft ==
  ASSUME IInv, Types', Still,
         \A p \in 0..1, v \in Threads : \A i \in 1 .. Len(deque'[p][v]) : Recent(deque'[p][v][i]),
         \A v \in Threads : pc'[v] = "run" => Recent(current'[v])
  PROVE  Left'
<1>1. \A task \in Tasks : Recent(task) => Recent(task)'
  BY StillPlaces DEF IInv, Recent, Tasks, Still, team
<1>2. /\ \A p \in 0..1, v \in Threads : \A i \in 1 .. Len(deque'[p][v]) : deque'[p][v][i] \in Tasks
      /\ \A v \in Threads : current'[v] \in Tasks
  <2>1. deque' \in [0..1 -> [Threads -> Seq(Tasks)]] /\ current' \in [Threads -> Tasks]
    BY DEF Types, Tasks
  <2>2. \A p \in 0..1, v \in Threads : deque'[p][v] \in Seq(Tasks)
    BY <2>1
  <2> QED
    BY <2>1, <2>2
<1> QED
  BY <1>1, <1>2 DEF Left

LEMMA TakeOwnKeeps == ASSUME IInv, Types', NEW t \in Threads, TakeOwn(t) PROVE IInv'
<1>1. Types /\ Places /\ OwnTeams /\ Teams /\ Counted /\ Queues /\ Locks /\ Children /\ Left
  BY DEF IInv
<1>2. /\ Workers = Threads \ {0} /\ 0 \in Threads /\ None \notin Threads /\ None \notin 0..1
      /\ Cur \in 0..1 /\ Other \in 0..1 /\ Cur # Other /\ Members \subseteq Threads
      /\ pc = [u \in Threads |-> pc[u]] /\ current = [u \in Threads |-> current[u]]
      /\ (0..1) = {Cur, Other}
  BY <1>1, Basics DEF Types, TypeOK
<1>3. OwnTeam(t) /\ pc[t] = "own" /\ pc[t] \in Executing
  BY <1>1 DEF OwnTeams, TakeOwn, Executing
<1>4. pc' = [pc EXCEPT ![t] = pc'[t]] /\ pc'[t] \in {"steal", "run"}
  BY <1>2 DEF TakeOwn, Goto
<1>5. UNCHANGED <<team, task_team, stealing, incomplete, spawned, own, barrier,
                   local_team, thread_finished>>
  BY DEF TakeOwn
<1>6. Still
  BY <1>3, <1>4, <1>5, ExecutingStill DEF Executing, own
<1>7. Alone(t)
  BY <1>2, <1>4, <1>5 DEF Alone, own, TakeOwn
<1>8. CASE deque[local_team[t]][t] = << >>
  <2>1. pc' = [pc EXCEPT ![t] = "steal"] /\ UNCHANGED <<deque, current>>
    BY <1>8 DEF TakeOwn, Goto
  <2>2. deque[Cur][t] = << >>
    BY <1>3, <1>8, Executes
  <2>3. Quiet(t)
    BY <1>2, <1>3, <1>5, <2>1, <2>2 DEF Quiet, SameTeam
  <2>4. OwnTeam(t)'
    BY <1>1, <1>2, <1>3, <1>5, <1>6, <2>1, StillPlaces DEF OwnTeam, Executing, own
  <2>5. OwnTeams'
    BY <1>1, <1>2, <1>5, <1>6, <1>7, <2>1, <2>4, AloneOwn DEF OwnTeams
  <2>6. Counted'
    <3>1. CASE pc[0] # "serial"
      BY <1>5, <1>6, <1>7, <3>1, StillCounted
    <3>2. CASE pc[0] = "serial"
      BY <1>1, <1>6, <3>2, StillPlaces DEF Counted
    <3> QED
      BY <3>1, <3>2
  <2> QED
    BY <1>6, <1>7, <2>3, <2>5, <2>6, QuietKeeps
<1>9. CASE deque[local_team[t]][t] # << >>
  <2>1. /\ stealing[local_team[t]][t] = None
        /\ deque' = [deque EXCEPT ![local_team[t]][t] = Front(@)]
        /\ current' = [current EXCEPT ![t] = Last(deque[local_team[t]][t])]
        /\ pc' = [pc EXCEPT ![t] = "run"]
    BY <1>9 DEF TakeOwn, Goto
  <2>2. local_team[t] = Cur /\ pc[0] # "serial"
    BY <1>3, <1>9, Executes
  <2>3. task_team[Cur].found /\ On(t) /\ ~thread_finished[t]
    BY <1>1, <1>3, <1>9, <2>2 DEF Queues
  <2>4. /\ deque \in Deques /\ Len(deque[Cur][t]) \in Nat /\ Len(deque[Cur][t]) <= MaxTasks
        /\ Len(deque[Cur][t]) > 0 /\ deque[Cur][t] \in Seq(Tasks)
    <3>1. deque \in Deques /\ Len(deque[Cur][t]) <= MaxTasks
      BY <1>1, <1>2 DEF Types, TypeOK, Deques
    <3>2. deque[Cur][t] \in Seq(Tasks)
      BY <1>2, <3>1 DEF Deques
    <3> QED
      BY <1>9, <2>2, <3>1, <3>2
  <2>5. /\ \A p \in 0..1, v \in Threads : <<p, v>> # <<Cur, t>> => deque'[p][v] = deque[p][v]
        /\ Len(deque'[Cur][t]) = Len(deque[Cur][t]) - 1
        /\ \A i \in 1 .. Len(deque[Cur][t]) - 1 : deque'[Cur][t][i] = deque[Cur][t][i]
        /\ current'[t] = deque[Cur][t][Len(deque[Cur][t])]
    BY <1>2, <2>1, <2>2, <2>4 DEF Deques, Front, Last
  <2>6. OwnTeams'
    <3>1. OwnTeam(t)'
      BY <1>1, <1>2, <1>3, <1>5, <1>6, <2>1, <2>2, <2>3, StillPlaces DEF OwnTeam, Executing, own
    <3> QED
      BY <1>1, <1>2, <1>5, <1>6, <1>7, <2>1, <3>1, AloneOwn DEF OwnTeams
  <2>7. Teams'
    <3>1. Shut(Other)'
      BY <1>1, <1>2, <1>5, <1>6, <2>5, StillPlaces DEF Teams, Shut
    <3> QED
      BY <1>5, <1>6, <2>2, <2>3, <3>1, StillTeams DEF SameTeam
  <2>8. Counted'
    BY <1>5, <1>6, <1>7, <2>2, StillCounted
  <2>9. Queues'
    BY <1>1, <1>2, <1>5, <1>6, <2>1, <2>3, <2>5, StillPlaces DEF Queues
  <2>10. Locks'
    <3> SUFFICES ASSUME NEW p \in 0..1, NEW v \in Threads, stealing[p][v] # None
                 PROVE  /\ pc'[stealing[p][v]] = "stealing" /\ local_team'[stealing[p][v]] = p
                        /\ deque'[p][v] # << >>
                        /\ \A q \in 0..1, w \in Threads :
                             stealing[q][w] = stealing[p][v] => q = p /\ w = v
      BY <1>5 DEF Locks
    <3>1. /\ pc[stealing[p][v]] = "stealing" /\ local_team[stealing[p][v]] = p
          /\ deque[p][v] # << >>
          /\ \A q \in 0..1, w \in Threads : stealing[q][w] = stealing[p][v] => q = p /\ w = v
      BY <1>1 DEF Locks
    <3>2. stealing[p][v] \in Threads /\ stealing[p][v] # t /\ <<p, v>> # <<Cur, t>>
      BY <1>1, <1>3, <2>1, <2>2, <3>1 DEF Types
    <3> QED
      BY <1>2, <1>5, <2>1, <2>5, <3>1, <3>2
  <2>11. Children'
    <3> SUFFICES ASSUME NEW u \in Threads
                 PROVE  incomplete[u] = Cardinality(QueuedIn(deque', u)) + Cardinality(RunningOf(u)')
      BY <1>5 DEF Children, QueuedOf, QueuedIn
    <3>1. Cardinality(QueuedIn(deque, u)) =
            Cardinality(QueuedIn(deque', u)) + One(current'[t], u)
      <4>1. /\ deque' \in Deques /\ deque'[Cur][t] = Front(deque[Cur][t])
            /\ Elsewhere(deque, deque', Cur, t)
            /\ deque[Cur][t] # << >>
        BY <1>2, <1>9, <2>1, <2>2, <2>4 DEF Types, Deques, Tasks, Elsewhere
      <4>2. current'[t] = Last(deque[Cur][t])
        BY <1>2, <2>1, <2>2
      <4> QED
        BY <1>2, <2>4, <4>1, <4>2, Popped, SMTT(20)
    <3>2. Cardinality(RunningOf(u)') = Cardinality(RunningOf(u)) + One(current'[t], u)
      BY <1>1, <1>2, <1>3, <1>7, <2>1, Starts
    <3>3. Cardinality(QueuedIn(deque', u)) \in Nat /\ Cardinality(RunningOf(u)) \in Nat
      BY <1>1, <1>2, <1>3, <1>7, <2>1, QueuedFinite, FS_CardinalityType, Starts
    <3> QED
      BY <1>1, <3>1, <3>2, <3>3 DEF Children, QueuedOf, One
  <2>12. Left'
    <3>1. \A p \in 0..1, v \in Threads : \A i \in 1 .. Len(deque'[p][v]) : Recent(deque'[p][v][i])
      <4> SUFFICES ASSUME NEW p \in 0..1, NEW v \in Threads, NEW i \in 1 .. Len(deque'[p][v])
                   PROVE  i \in 1 .. Len(deque[p][v]) /\ deque'[p][v][i] = deque[p][v][i]
        BY <1>1 DEF Left
      <4>1. CASE <<p, v>> # <<Cur, t>>
        BY <2>5, <4>1
      <4>2. CASE p = Cur /\ v = t
        BY <2>4, <2>5, <4>2
      <4> QED
        BY <4>1, <4>2
    <3>2. \A v \in Threads : pc'[v] = "run" => Recent(current'[v])
      BY <1>1, <1>2, <1>7, <2>4, <2>5 DEF Left, Alone, Naps
    <3> QED
      BY <1>6, <3>1, <3>2, StillLeft
  <2> QED
    BY <1>1, <1>6, <2>6, <2>7, <2>8, <2>9, <2>10, <2>11, <2>12, StillPlaces DEF IInv
<1> QED
  BY <1>8, <1>9

\* What most of the steps need.
LEMMA Sorts ==
  ASSUME Types
  PROVE  /\ Workers = Threads \ {0} /\ 0 \in Threads /\ None \notin Threads /\ None \notin 0..1
         /\ Cur \in 0..1 /\ Other \in 0..1 /\ Cur # Other /\ Members \subseteq Threads
         /\ (0..1) = {Cur, Other}
         /\ pc = [u \in Threads |-> pc[u]] /\ current = [u \in Threads |-> current[u]]
         /\ thread_finished = [u \in Threads |-> thread_finished[u]]
         /\ local_team = [u \in Threads |-> local_team[u]]
         /\ th_task_team = [u \in Threads |-> th_task_team[u]]
         /\ incomplete = [u \in Threads |-> incomplete[u]]
         /\ \A q \in 0..1, x \in Threads : stealing[q][x] \in Threads \cup {None}
<1>1. \A q \in 0..1, x \in Threads : stealing[q][x] \in Threads \cup {None}
  BY DEF Types, TypeOK
<1> QED
  BY <1>1, Basics DEF Types, TypeOK

LEMMA StealKeeps ==
  ASSUME IInv, Types', NEW t \in Threads, NEW v \in Threads, Steal(t, v)
  PROVE  IInv'
<1>1. Types /\ Places /\ OwnTeams /\ Teams /\ Counted /\ Queues /\ Locks
  BY DEF IInv
<1>2. /\ Workers = Threads \ {0} /\ 0 \in Threads /\ None \notin Threads /\ None \notin 0..1
      /\ Cur \in 0..1 /\ Other \in 0..1 /\ Cur # Other
      /\ pc = [u \in Threads |-> pc[u]]
      /\ thread_finished = [u \in Threads |-> thread_finished[u]]
  BY <1>1, Sorts
<1>3. OwnTeam(t) /\ pc[t] = "steal" /\ pc[t] \in Executing
  BY <1>1 DEF OwnTeams, Steal, Executing
<1>4. pc' = [pc EXCEPT ![t] = pc'[t]] /\ pc'[t] \in {"none", "stealing"}
  BY <1>2 DEF Steal, Goto
<1>5. UNCHANGED <<team, deque, incomplete, spawned, own, barrier, local_team, current>>
  BY DEF Steal
<1>6. Still
  BY <1>3, <1>4, <1>5, ExecutingStill DEF Executing, own
<1>7. deque[Cur][t] = << >>
  BY <1>1, <1>3 DEF Queues
<1>8. CASE deque[local_team[t]][v] = << >> \/ th_task_team[v] # local_team[t]
  <2>1. pc' = [pc EXCEPT ![t] = "none"] /\ UNCHANGED <<task_team, stealing, thread_finished>>
    BY <1>8 DEF Steal, Goto
  <2>2. Alone(t)
    BY <1>2, <1>5, <2>1 DEF Alone, own
  <2>3. Quiet(t)
    BY <1>2, <1>3, <1>5, <1>7, <2>1 DEF Quiet, SameTeam
  <2>4. OwnTeam(t)'
    BY <1>1, <1>2, <1>3, <1>5, <1>6, <2>1, StillPlaces DEF OwnTeam, Executing, own
  <2>5. OwnTeams'
    BY <1>1, <1>2, <1>5, <1>6, <2>1, <2>2, <2>4, AloneOwn DEF OwnTeams
  <2>6. Counted'
    <3>1. CASE pc[0] # "serial"
      BY <1>5, <1>6, <2>1, <2>2, <3>1, StillCounted
    <3>2. CASE pc[0] = "serial"
      BY <1>1, <1>6, <3>2, StillPlaces DEF Counted
    <3> QED
      BY <3>1, <3>2
  <2> QED
    BY <1>6, <2>2, <2>3, <2>5, <2>6, QuietKeeps
<1>9. CASE ~(deque[local_team[t]][v] = << >> \/ th_task_team[v] # local_team[t])
  <2>1. /\ stealing[local_team[t]][v] = None
        /\ stealing' = [stealing EXCEPT ![local_team[t]][v] = t]
        /\ task_team' = IF thread_finished[t]
                        THEN [task_team EXCEPT ![local_team[t]].unfinished = @ + 1] ELSE task_team
        /\ thread_finished' = [thread_finished EXCEPT ![t] = FALSE]
        /\ pc' = [pc EXCEPT ![t] = "stealing"]
    BY <1>9 DEF Steal, Goto
  <2>2. local_team[t] = Cur /\ pc[0] # "serial" /\ deque[Cur][v] # << >>
    BY <1>3, <1>9, Executes
  <2>3. task_team[Cur].found
    BY <1>1, <2>2 DEF Queues
  <2>4. /\ task_team'[Other] = task_team[Other] /\ SameTeam(Cur)
        /\ task_team'[Cur].found = task_team[Cur].found
        /\ thread_finished[t] => task_team'[Cur].unfinished = task_team[Cur].unfinished + 1
        /\ ~thread_finished[t] => task_team'[Cur].unfinished = task_team[Cur].unfinished
        /\ ~thread_finished'[t]
    BY <1>1, <1>2, <2>1, <2>2 DEF SameTeam, Types, TypeOK
  <2>5. Alone(t)
    BY <1>2, <1>5, <2>1 DEF Alone, own
  <2>6. OwnTeams'
    <3>1. OwnTeam(t)'
      BY <1>1, <1>2, <1>3, <1>5, <1>6, <2>1, <2>4, StillPlaces DEF OwnTeam, Executing, own
    <3> QED
      BY <1>6, <2>4, <2>5, <3>1, AloneOwn
  <2>7. Teams'
    <3>1. Shut(Other)'
      BY <1>1, <1>2, <1>5, <1>6, <2>2, <2>5, StillPlaces DEF Teams, Shut, Alone
    <3> QED
      BY <1>6, <2>2, <2>3, <2>4, <3>1, StillTeams
  <2>8. Counted'
    <3>1. CASE thread_finished[t]
      <4>1. local_team'[t] = Cur /\ pc[t] # "work"
        BY <1>3, <1>5, <2>2
      <4> QED
        BY <1>6, <2>2, <2>4, <2>5, <3>1, <4>1, StillCounted
    <3>2. CASE ~thread_finished[t]
      <4>1. thread_finished'[t] = thread_finished[t]
        <5>1. thread_finished[t] \in BOOLEAN /\ thread_finished'[t] = FALSE
          BY <1>1, <2>1 DEF Types, TypeOK
        <5> QED
          BY <3>2, <5>1, Zenon
      <4>2. local_team'[t] = local_team[t]
        BY <1>5
      <4> QED
        BY <1>6, <2>2, <2>4, <2>5, <3>2, <4>1, <4>2, StillCounted
    <3> QED
      BY <3>1, <3>2
  <2>9. Queues'
    <3> SUFFICES ASSUME NEW u \in Threads, deque[Cur][u] # << >>
                 PROVE  /\ task_team'[Cur].found /\ On(u)
                        /\ pc'[u] \notin {"steal", "stealing", "none"}
                        /\ pc'[u] # "work" => ~thread_finished'[u]
      BY <1>1, <1>5, <1>6, StillPlaces DEF Queues
    <3> QED
      BY <1>1, <1>2, <1>7, <2>1, <2>4 DEF Queues
  <2>10. Locks'
    <3> SUFFICES ASSUME NEW p \in 0..1, NEW w \in Threads, stealing'[p][w] # None
                 PROVE  /\ pc'[stealing'[p][w]] = "stealing" /\ local_team[stealing'[p][w]] = p
                        /\ deque[p][w] # << >>
                        /\ \A q \in 0..1, x \in Threads :
                             stealing'[q][x] = stealing'[p][w] => q = p /\ x = w
      BY <1>5 DEF Locks
    <3>1. \A q \in 0..1, x \in Threads : stealing[q][x] \in Threads \cup {None} /\ stealing[q][x] # t
      <4>1. \A q \in 0..1, x \in Threads : stealing[q][x] \in Threads \cup {None}
        BY <1>1, Sorts
      <4>2. ASSUME NEW q \in 0..1, NEW x \in Threads, stealing[q][x] = t
            PROVE  FALSE
        <5>1. stealing[q][x] # None
          BY <1>2, <4>2
        <5>2. pc[stealing[q][x]] = "stealing"
          BY <1>1, <5>1 DEF Locks
        <5> QED
          BY <1>3, <4>2, <5>2
      <4> QED
        BY <4>1, <4>2
    <3>2. /\ \A q \in 0..1, x \in Threads : <<q, x>> # <<Cur, v>> => stealing'[q][x] = stealing[q][x]
          /\ stealing'[Cur][v] = t
      BY <1>1, <1>2, <2>1, <2>2 DEF Types
    <3>3. CASE p = Cur /\ w = v
      BY <1>2, <2>1, <2>2, <3>1, <3>2, <3>3
    <3>4. CASE <<p, w>> # <<Cur, v>>
      <4>1. stealing'[p][w] = stealing[p][w] /\ stealing[p][w] \in Threads /\ stealing[p][w] # t
        BY <3>1, <3>2, <3>4
      <4>2. /\ pc[stealing[p][w]] = "stealing" /\ local_team[stealing[p][w]] = p
            /\ deque[p][w] # << >>
            /\ \A q \in 0..1, x \in Threads : stealing[q][x] = stealing[p][w] => q = p /\ x = w
        BY <1>1, <4>1 DEF Locks
      <4> QED
        BY <1>2, <2>1, <3>2, <4>1, <4>2
    <3> QED
      BY <3>3, <3>4
  <2>11. Children' /\ Left'
    BY <1>3, <1>4, <1>5, <1>6, <2>1, <2>5, StillTasks
  <2> QED
    BY <1>1, <1>6, <2>6, <2>7, <2>8, <2>9, <2>10, <2>11, StillPlaces DEF IInv
<1> QED
  BY <1>8, <1>9

LEMMA TakeStolenKeeps ==
  ASSUME IInv, Types', NEW t \in Threads, NEW v \in Threads, TakeStolen(t, v)
  PROVE  IInv'
<1>1. Types /\ Places /\ OwnTeams /\ Teams /\ Counted /\ Queues /\ Locks /\ Children /\ Left
  BY DEF IInv
<1>2. /\ Workers = Threads \ {0} /\ 0 \in Threads /\ None \notin Threads /\ None \notin 0..1
      /\ Cur \in 0..1 /\ Other \in 0..1 /\ Cur # Other
      /\ pc = [u \in Threads |-> pc[u]] /\ current = [u \in Threads |-> current[u]]
      /\ (0..1) = {Cur, Other}
  BY <1>1, Sorts
<1>3. OwnTeam(t) /\ pc[t] = "stealing" /\ pc[t] \in Executing /\ stealing[local_team[t]][v] = t
  BY <1>1 DEF OwnTeams, TakeStolen, Executing
<1>4. /\ current' = [current EXCEPT ![t] = Head(deque[local_team[t]][v])]
      /\ deque' = [deque EXCEPT ![local_team[t]][v] = Tail(@)]
      /\ stealing' = [stealing EXCEPT ![local_team[t]][v] = None]
      /\ pc' = [pc EXCEPT ![t] = "run"]
      /\ UNCHANGED <<team, task_team, incomplete, spawned, own, barrier, local_team, thread_finished>>
  BY DEF TakeStolen, Goto
<1>5. local_team[t] \in 0..1 /\ deque[local_team[t]][v] # << >>
  <2>1. local_team[t] \in 0..1
    BY <1>2, <1>3, Executes
  <2> QED
    BY <1>1, <1>2, <1>3, <2>1 DEF Locks
<1>6. local_team[t] = Cur /\ pc[0] # "serial" /\ ~thread_finished[t]
  BY <1>3, <1>5, Executes DEF OwnTeam
<1>7. task_team[Cur].found
  BY <1>1, <1>5, <1>6 DEF Queues
<1>8. Still
  BY <1>2, <1>3, <1>4, ExecutingStill DEF Executing, own
<1>9. Alone(t)
  BY <1>2, <1>4 DEF Alone, own
<1>10. /\ deque \in Deques /\ Len(deque[Cur][v]) \in Nat /\ Len(deque[Cur][v]) <= MaxTasks
       /\ Len(deque[Cur][v]) > 0 /\ deque[Cur][v] \in Seq(Tasks)
  <2>1. deque \in Deques /\ Len(deque[Cur][v]) <= MaxTasks
    BY <1>1, <1>2 DEF Types, TypeOK, Deques
  <2>2. deque[Cur][v] \in Seq(Tasks)
    BY <1>2, <2>1 DEF Deques
  <2> QED
    BY <1>5, <1>6, <2>1, <2>2
<1>11. /\ \A q \in 0..1, w \in Threads : <<q, w>> # <<Cur, v>> => deque'[q][w] = deque[q][w]
       /\ Len(deque'[Cur][v]) = Len(deque[Cur][v]) - 1
       /\ \A i \in 1 .. Len(deque[Cur][v]) - 1 : deque'[Cur][v][i] = deque[Cur][v][i + 1]
       /\ current'[t] = deque[Cur][v][1]
  BY <1>2, <1>4, <1>6, <1>10 DEF Deques
<1>12. OwnTeams'
  <2>1. OwnTeam(t)'
    BY <1>1, <1>2, <1>3, <1>4, <1>6, <1>8, StillPlaces DEF OwnTeam, Executing, own
  <2> QED
    BY <1>1, <1>2, <1>4, <1>8, <1>9, <2>1, AloneOwn DEF OwnTeams
<1>13. Teams'
  <2>1. Shut(Other)'
    BY <1>1, <1>2, <1>4, <1>8, <1>11, StillPlaces DEF Teams, Shut
  <2> QED
    BY <1>4, <1>6, <1>7, <1>8, <2>1, StillTeams DEF SameTeam
<1>14. Counted'
  BY <1>4, <1>6, <1>8, <1>9, StillCounted
<1>15. Queues'
  <2> SUFFICES ASSUME NEW u \in Threads, deque'[Cur][u] # << >>
               PROVE  /\ task_team[Cur].found /\ On(u)
                      /\ pc'[u] \notin {"steal", "stealing", "none"}
                      /\ pc'[u] # "work" => ~thread_finished[u]
    BY <1>1, <1>4, <1>8, StillPlaces DEF Queues
  <2>1. deque[Cur][u] # << >>
    BY <1>5, <1>6, <1>11
  <2>2. /\ On(u) /\ pc[u] \notin {"steal", "stealing", "none"}
        /\ pc[u] # "work" => ~thread_finished[u]
    BY <1>1, <2>1 DEF Queues
  <2> QED
    BY <1>2, <1>4, <1>6, <1>7, <2>2
<1>16. Locks'
  <2> SUFFICES ASSUME NEW p \in 0..1, NEW w \in Threads, stealing'[p][w] # None
               PROVE  /\ pc'[stealing'[p][w]] = "stealing" /\ local_team[stealing'[p][w]] = p
                      /\ deque'[p][w] # << >>
                      /\ \A q \in 0..1, x \in Threads :
                           stealing'[q][x] = stealing'[p][w] => q = p /\ x = w
    BY <1>4 DEF Locks
  <2>1. /\ \A q \in 0..1, x \in Threads : <<q, x>> # <<Cur, v>> => stealing'[q][x] = stealing[q][x]
        /\ stealing'[Cur][v] = None
    BY <1>1, <1>2, <1>4, <1>6 DEF Types
  <2>2. <<p, w>> # <<Cur, v>> /\ stealing'[p][w] = stealing[p][w] /\ stealing[p][w] \in Threads
    BY <1>1, <2>1, Sorts
  <2>3. /\ pc[stealing[p][w]] = "stealing" /\ local_team[stealing[p][w]] = p
        /\ deque[p][w] # << >>
        /\ \A q \in 0..1, x \in Threads : stealing[q][x] = stealing[p][w] => q = p /\ x = w
    BY <1>1, <2>2 DEF Locks
  <2>4. stealing[p][w] # t
    BY <1>2, <1>3, <1>6, <2>2, <2>3
  <2>5. \A q \in 0..1, x \in Threads : stealing'[q][x] = stealing'[p][w] => q = p /\ x = w
    BY <2>1, <2>2, <2>3
  <2> QED
    BY <1>2, <1>4, <1>11, <2>2, <2>3, <2>4, <2>5
<1>17. Children'
  <2> SUFFICES ASSUME NEW u \in Threads
               PROVE  incomplete[u] = Cardinality(QueuedIn(deque', u)) + Cardinality(RunningOf(u)')
    BY <1>4 DEF Children, QueuedOf, QueuedIn
  <2>1. Cardinality(QueuedIn(deque, u)) = Cardinality(QueuedIn(deque', u)) + One(current'[t], u)
    <3>1. /\ deque' \in Deques /\ deque'[Cur][v] = Tail(deque[Cur][v])
          /\ Elsewhere(deque, deque', Cur, v)
          /\ deque[Cur][v] # << >>
      BY <1>2, <1>4, <1>5, <1>6, <1>10 DEF Types, Deques, Tasks, Elsewhere
    <3>2. current'[t] = Head(deque[Cur][v])
      BY <1>2, <1>4, <1>6
    <3> QED
      BY <1>2, <1>10, <3>1, <3>2, Stolen, SMTT(20)
  <2>2. Cardinality(RunningOf(u)') = Cardinality(RunningOf(u)) + One(current'[t], u)
    BY <1>1, <1>2, <1>3, <1>4, <1>9, Starts
  <2>3. Cardinality(QueuedIn(deque', u)) \in Nat /\ Cardinality(RunningOf(u)) \in Nat
    BY <1>1, <1>2, <1>3, <1>4, <1>9, QueuedFinite, FS_CardinalityType, Starts
  <2> QED
    BY <1>1, <2>1, <2>2, <2>3 DEF Children, QueuedOf, One
<1>18. Left'
  <2>1. \A p \in 0..1, w \in Threads : \A i \in 1 .. Len(deque'[p][w]) : Recent(deque'[p][w][i])
    <3> SUFFICES ASSUME NEW p \in 0..1, NEW w \in Threads, NEW i \in 1 .. Len(deque'[p][w])
                 PROVE  \E j \in 1 .. Len(deque[p][w]) : deque'[p][w][i] = deque[p][w][j]
      BY <1>1 DEF Left
    <3>1. CASE <<p, w>> # <<Cur, v>>
      BY <1>11, <3>1
    <3>2. CASE p = Cur /\ w = v
      <4>1. i + 1 \in 1 .. Len(deque[p][w]) /\ deque'[p][w][i] = deque[p][w][i + 1]
        BY <1>10, <1>11, <3>2
      <4> QED
        BY <4>1
    <3> QED
      BY <3>1, <3>2
  <2>2. \A w \in Threads : pc'[w] = "run" => Recent(current'[w])
    BY <1>1, <1>2, <1>9, <1>10, <1>11 DEF Left, Alone, Naps
  <2> QED
    BY <1>8, <2>1, <2>2, StillLeft
<1> QED
  BY <1>1, <1>8, <1>12, <1>13, <1>14, <1>15, <1>16, <1>17, <1>18, StillPlaces DEF IInv

\* A thread that has not left the last barrier has no child left.
LEMMA Childless ==
  ASSUME IInv, NEW t \in Threads, ~On(t)
  PROVE  incomplete[t] = 0
<1>1. Types /\ Children /\ Left
  BY DEF IInv
<1>2. None \notin Threads
  BY <1>1, Sorts
<1>3. QueuedOf(t) = {}
  <2> SUFFICES ASSUME NEW x \in QueuedOf(t) PROVE FALSE
    OBVIOUS
  <2>1. PICK p \in 0..1, v \in Threads, i \in 1 .. MaxTasks : x = <<p, v, i>>
    BY DEF QueuedOf, QueuedIn
  <2>2. i <= Len(deque[p][v]) /\ deque[p][v][i].parent = t
    BY <2>1 DEF QueuedOf, QueuedIn
  <2>3. Len(deque[p][v]) \in Nat
    BY <1>1 DEF Types
  <2>4. i \in 1 .. Len(deque[p][v])
    BY <2>2, <2>3
  <2>5. Recent(deque[p][v][i])
    BY <1>1, <2>4 DEF Left
  <2> QED
    BY <1>2, <2>2, <2>5 DEF Recent
<1>4. RunningOf(t) = {}
  BY <1>1, <1>2 DEF RunningOf, Left, Recent
<1> QED
  BY <1>1, <1>3, <1>4, FS_EmptySet DEF Children

LEMMA NoTaskFoundKeeps == ASSUME IInv, Types', NEW t \in Threads, NoTaskFound(t) PROVE IInv'
<1>1. Types /\ Places /\ OwnTeams /\ Teams /\ Counted /\ Queues /\ Locks
  BY DEF IInv
<1>2. /\ Workers = Threads \ {0} /\ 0 \in Threads /\ None \notin Threads /\ None \notin 0..1
      /\ Cur \in 0..1 /\ Other \in 0..1 /\ Cur # Other
      /\ pc = [u \in Threads |-> pc[u]] /\ (0..1) = {Cur, Other}
      /\ thread_finished = [u \in Threads |-> thread_finished[u]]
      /\ local_team = [u \in Threads |-> local_team[u]]
  BY <1>1, Sorts
<1>3. OwnTeam(t) /\ pc[t] = "none" /\ pc[t] \in Executing
  BY <1>1 DEF OwnTeams, NoTaskFound, Executing
<1>4. /\ pc' = [pc EXCEPT ![t] = WaitLabel(t)]
      /\ local_team' = [local_team EXCEPT ![t] = None]
      /\ UNCHANGED <<team, tasks, own, barrier, current>>
  BY DEF NoTaskFound, Goto
<1>5. /\ WaitLabel(t) = IF t # 0 THEN "wait" ELSE IF gathered THEN "task_wait" ELSE "gather"
      /\ pc'[t] = WaitLabel(t) /\ local_team'[t] = None
  BY <1>2, <1>4 DEF WaitLabel
<1>6. Still
  BY <1>2, <1>3, <1>4, <1>5, ExecutingStill DEF Naps, own
<1>7. deque[Cur][t] = << >>
  BY <1>1, <1>3 DEF Queues
<1>8. CASE Final(t) /\ incomplete[t] = 0 /\ ~thread_finished[t]
  <2>1. /\ task_team' = [task_team EXCEPT ![local_team[t]].unfinished = @ - 1]
        /\ thread_finished' = [thread_finished EXCEPT ![t] = TRUE]
    BY <1>8 DEF NoTaskFound
  <2>2. local_team[t] = Cur /\ pc[0] # "serial" /\ task_team[Cur].found
    BY <1>3, <1>8, Executes
  <2>3. /\ task_team'[Other] = task_team[Other] /\ SameTeam(Cur)
        /\ task_team'[Cur].found = task_team[Cur].found
        /\ task_team'[Cur].unfinished = task_team[Cur].unfinished - 1
        /\ thread_finished'[t]
    <3>1. /\ task_team'[Cur] = [task_team[Cur] EXCEPT !.unfinished = @ - 1]
          /\ task_team'[Other] = task_team[Other]
          /\ task_team[Cur] \in [alloc : BOOLEAN, nproc : 0 .. N, unfinished : Nat,
                                 active : BOOLEAN, found : BOOLEAN]
      BY <1>1, <1>2, <2>1, <2>2, ZenonT(30) DEF Types, TypeOK
    <3>2. thread_finished'[t]
      BY <1>2, <2>1
    <3> QED
      BY <3>1, <3>2 DEF SameTeam
  <2>4. Alone(t)
    BY <1>2, <1>4, <2>1 DEF Alone, own
  <2>5. Quiet(t)
    BY <1>2, <1>3, <1>4, <1>5, <1>7, <1>8, <2>2, <2>3 DEF Quiet, tasks
  <2>6. OwnTeams'
    <3>1. OwnTeam(t)'
      BY <1>1, <1>2, <1>3, <1>4, <1>5, <1>6, StillPlaces DEF OwnTeam, Executing, own
    <3>2. t = 0 => gathered
      BY <1>8 DEF Final
    <3> QED
      BY <1>5, <1>6, <2>4, <3>1, <3>2, AloneOwn
  <2>7. Counted'
    <3>1. pc[t] # "work"
      BY <1>3
    <3> QED
      BY <1>6, <1>8, <2>2, <2>3, <2>4, <3>1, StillCounted
  <2> QED
    BY <1>6, <2>4, <2>5, <2>6, <2>7, QuietKeeps
<1>9. CASE ~(Final(t) /\ incomplete[t] = 0 /\ ~thread_finished[t])
  <2>1. UNCHANGED <<task_team, thread_finished>>
    BY <1>9 DEF NoTaskFound
  <2>2. Alone(t)
    BY <1>2, <1>4, <2>1 DEF Alone, own
  <2>3. Quiet(t)
    BY <1>2, <1>3, <1>4, <1>5, <1>7, <2>1 DEF Quiet, tasks, SameTeam
  <2>4. OwnTeams'
    <3>1. OwnTeam(t)'
      BY <1>1, <1>2, <1>3, <1>4, <1>5, <1>6, <2>1, StillPlaces DEF OwnTeam, Executing, own
    <3>2. t = 0 => (InBarrier /\ ~gathered => ~thread_finished'[0])
      BY <1>1, <2>1 DEF OwnTeams
    <3> QED
      BY <1>5, <1>6, <2>2, <3>1, <3>2, AloneOwn
  <2>5. On(t) \/ thread_finished[t]
    <3>1. ~On(t) => incomplete[t] = 0 /\ Final(t)
      BY <1>3, Childless, Executes DEF Final
    <3> QED
      BY <1>9, <3>1
  <2>6. Counted'
    <3>1. CASE pc[0] # "serial"
      BY <1>6, <2>1, <2>2, <2>5, <3>1, StillCounted
    <3>2. CASE pc[0] = "serial"
      BY <1>1, <1>6, <3>2, StillPlaces DEF Counted
    <3> QED
      BY <3>1, <3>2
  <2> QED
    BY <1>6, <2>2, <2>3, <2>4, <2>6, QuietKeeps
<1> QED
  BY <1>8, <1>9

LEMMA FinishTaskKeeps == ASSUME IInv, Types', NEW t \in Threads, FinishTask(t) PROVE IInv'
<1>1. Types /\ Places /\ OwnTeams /\ Teams /\ Counted /\ Queues /\ Locks /\ Children /\ Left
  BY DEF IInv
<1>2. /\ Workers = Threads \ {0} /\ 0 \in Threads /\ None \notin Threads /\ None \notin 0..1
      /\ Cur \in 0..1 /\ Other \in 0..1 /\ Cur # Other
      /\ pc = [u \in Threads |-> pc[u]] /\ current = [u \in Threads |-> current[u]]
      /\ incomplete = [u \in Threads |-> incomplete[u]]
  BY <1>1, Sorts
<1>3. OwnTeam(t) /\ pc[t] = "run" /\ pc[t] \in Executing
  BY <1>1 DEF OwnTeams, FinishTask, Executing
<1>4. /\ current' = [current EXCEPT ![t] = NoTask]
      /\ pc' = [pc EXCEPT ![t] = pc'[t]]
      /\ pc'[t] = IF ~Final(t) /\ DoneCheck(t) THEN "gather"
                  ELSE IF th_task_team[t] = None THEN "none" ELSE "own"
      /\ incomplete' = IF current[t].parent = None THEN incomplete
                       ELSE [incomplete EXCEPT ![current[t].parent] = @ - 1]
      /\ UNCHANGED <<team, task_team, deque, stealing, spawned, own, barrier, local_team,
                     thread_finished>>
  BY <1>2 DEF FinishTask, Goto
<1>5. /\ pc'[t] \in {"gather", "none", "own"}
      /\ pc'[t] = "gather" => t = 0 /\ ~gathered
      /\ pc'[t] = "none" => th_task_team[t] = None
  BY <1>4 DEF Final
<1>6. Still
  BY <1>2, <1>3, <1>4, <1>5, ExecutingStill DEF Executing, own
<1>7. Alone(t)
  BY <1>2, <1>4 DEF Alone, own
<1>8. OwnTeams'
  <2>1. OwnTeam(t)'
    BY <1>1, <1>2, <1>3, <1>4, <1>5, <1>6, StillPlaces DEF OwnTeam, Executing, own
  <2>2. t = 0 => /\ InBarrier /\ ~gathered => ~thread_finished'[0]
                 /\ pc'[0] = "task_wait" /\ local_team'[0] # None => ~thread_finished'[0]
    BY <1>1, <1>4, <1>5 DEF OwnTeams
  <2> QED
    BY <1>6, <1>7, <2>1, <2>2, AloneOwn
<1>9. Teams'
  <2>1. Shut(Other)'
    BY <1>1, <1>2, <1>4, <1>6, StillPlaces DEF Teams, Shut
  <2>2. pc[0] = "serial" \/ ~task_team[Cur].found => Shut(Cur)'
    BY <1>1, <1>2, <1>4, <1>6, StillPlaces DEF Teams, Shut
  <2>3. ~task_team[Cur].found => \A u \in Members : ~Finished(u)'
    <3>1. Members \subseteq Threads
      BY <1>1, Sorts
    <3> QED
      BY <1>1, <1>4, <1>6, <3>1, StillPlaces DEF Teams, Finished
  <2> QED
    BY <1>4, <1>6, <2>1, <2>2, <2>3, StillTeams DEF SameTeam
<1>10. Counted'
  <2>1. CASE pc[0] # "serial"
    BY <1>4, <1>6, <1>7, <2>1, StillCounted
  <2>2. CASE pc[0] = "serial"
    BY <1>1, <1>6, <2>2, StillPlaces DEF Counted
  <2> QED
    BY <2>1, <2>2
<1>11. Queues'
  <2> SUFFICES ASSUME NEW u \in Threads, deque[Cur][u] # << >>
               PROVE  /\ task_team[Cur].found /\ On(u)
                      /\ pc'[u] \notin {"steal", "stealing", "none"}
                      /\ pc'[u] # "work" => ~thread_finished[u]
    BY <1>1, <1>4, <1>6, StillPlaces DEF Queues
  <2>1. /\ task_team[Cur].found /\ On(u) /\ pc[u] \notin {"steal", "stealing", "none"}
        /\ pc[u] # "work" => ~thread_finished[u]
    BY <1>1 DEF Queues
  <2>2. u = t => pc'[t] # "none"
    BY <1>2, <1>3, <1>5, <2>1 DEF OwnTeam
  <2> QED
    BY <1>2, <1>3, <1>4, <1>5, <2>1, <2>2
<1>12. Locks'
  <2> SUFFICES ASSUME NEW p \in 0..1, NEW w \in Threads, stealing[p][w] # None
               PROVE  pc'[stealing[p][w]] = "stealing"
    BY <1>1, <1>4 DEF Locks
  <2>1. pc[stealing[p][w]] = "stealing" /\ stealing[p][w] \in Threads
    BY <1>1, Sorts DEF Locks
  <2> QED
    BY <1>2, <1>3, <1>4, <2>1
<1>13. Children'
  <2> SUFFICES ASSUME NEW u \in Threads
               PROVE  incomplete'[u] = Cardinality(QueuedOf(u)) + Cardinality(RunningOf(u)')
    BY <1>4 DEF Children, QueuedOf, QueuedIn
  <2>1. Cardinality(RunningOf(u)) = Cardinality(RunningOf(u)') + One(current[t], u)
    BY <1>1, <1>3, <1>5, <1>7, Ends
  <2>2. Cardinality(QueuedOf(u)) \in Nat /\ Cardinality(RunningOf(u)') \in Nat
    BY <1>1, <1>3, <1>5, <1>7, QueuedFinite, FS_CardinalityType, Ends DEF QueuedOf
  <2>3. incomplete[u] = Cardinality(QueuedOf(u)) + Cardinality(RunningOf(u))
    BY <1>1 DEF Children
  <2>4. CASE current[t].parent = u
    BY <1>2, <1>4, <2>1, <2>2, <2>3, <2>4 DEF One
  <2>5. CASE current[t].parent # u
    <3>1. incomplete'[u] = incomplete[u]
      BY <1>2, <1>4, <2>5
    <3> QED
      BY <2>1, <2>2, <2>3, <2>5, <3>1 DEF One
  <2> QED
    BY <2>4, <2>5
<1>14. Left'
  <2>1. \A w \in Threads : pc'[w] = "run" => Recent(current'[w])
    BY <1>1, <1>2, <1>4, <1>5 DEF Left
  <2>2. \A p \in 0..1, w \in Threads : \A i \in 1 .. Len(deque'[p][w]) : Recent(deque'[p][w][i])
    BY <1>1, <1>4 DEF Left
  <2> QED
    BY <1>6, <2>1, <2>2, StillLeft
<1> QED
  BY <1>1, <1>6, <1>8, <1>9, <1>10, <1>11, <1>12, <1>13, <1>14, StillPlaces DEF IInv

\* A thread that creates a task is on the team of the coming barrier.
LEMMA SpawnKeeps == ASSUME IInv, Types', NEW t \in Threads, Spawn(t) PROVE IInv'
<1> DEFINE task == IF pc[t] = "work" THEN [parent |-> t, phase |-> Phase(t)]
                   ELSE [parent |-> None, phase |-> current[t].phase]
<1>1. Types /\ Places /\ OwnTeams /\ Teams /\ Counted /\ Queues /\ Locks /\ Children /\ Left
  BY DEF IInv
<1>2. /\ Workers = Threads \ {0} /\ 0 \in Threads /\ None \notin Threads /\ None \notin 0..1
      /\ Cur \in 0..1 /\ Other \in 0..1 /\ Cur # Other
      /\ pc = [u \in Threads |-> pc[u]]
      /\ incomplete = [u \in Threads |-> incomplete[u]]
  BY <1>1, Sorts
<1>3. /\ pc[t] \in {"work", "run"} /\ spawned < MaxTasks /\ th_task_team[t] # None
      /\ spawned' = spawned + 1
      /\ deque' = [deque EXCEPT ![th_task_team[t]][t] = Append(@, task)]
      /\ task_team' = [task_team EXCEPT ![th_task_team[t]].found = TRUE]
      /\ pc' = IF task_team[th_task_team[t]].found THEN pc
               ELSE [u \in Threads |-> IF u < task_team[th_task_team[t]].nproc /\ pc[u] = "asleep"
                                       THEN "wait" ELSE pc[u]]
      /\ incomplete' = IF pc[t] = "work" THEN [incomplete EXCEPT ![t] = @ + 1] ELSE incomplete
      /\ UNCHANGED <<team, stealing, own, barrier, locals>>
  BY DEF Spawn
<1>4. OwnTeam(t)
  BY <1>1 DEF OwnTeams
<1>5. On(t) /\ pc[0] # "serial" /\ th_task_team[t] = Cur /\ (pc[t] = "run" => ~thread_finished[t])
  <2>1. CASE pc[t] = "work"
    <3>1. t \in Members
      BY <1>1, <2>1 DEF Places, Waits, Executing
    <3>2. t = 0 => On(t)
      BY <1>1, <2>1, <3>1 DEF On
    <3>3. t # 0 => On(t)
      BY <1>1, <2>1, <3>1 DEF Places, Behind, Waits, Executing
    <3> QED
      BY <1>4, <2>1, <3>2, <3>3 DEF OwnTeam, On
  <2>2. CASE pc[t] = "run"
    <3>1. ~thread_finished[t] /\ pc[t] \in Executing
      BY <1>4, <2>2 DEF OwnTeam, Executing
    <3>2. local_team[t] = Cur /\ pc[0] # "serial" /\ (t = 0 => On(t))
      BY <3>1, Executes
    <3>3. On(t)
      BY <1>3, <1>4, <3>2 DEF OwnTeam
    <3> QED
      BY <1>4, <3>1, <3>2, <3>3 DEF OwnTeam
  <2> QED
    BY <1>3, <2>1, <2>2
<1>6. \A u \in Threads : /\ pc'[u] = pc[u] \/ (pc[u] = "asleep" /\ pc'[u] = "wait")
                         /\ pc[u] # "asleep" => pc'[u] = pc[u]
  BY <1>2, <1>3
<1>7. pc'[t] = pc[t] /\ pc'[0] = pc[0]
  <2>1. pc[0] # "asleep"
    BY <1>1 DEF Places, Executing
  <2> QED
    BY <1>2, <1>3, <1>6, <2>1
<1>8. Still
  BY <1>2, <1>3, <1>6, <1>7 DEF Still, Waits, own
<1>9. Alone(t)
  BY <1>3, <1>6 DEF Alone, Naps, own, locals
<1>10. /\ deque \in Deques /\ Len(deque[Cur][t]) \in Nat /\ Len(deque[Cur][t]) < MaxTasks
       /\ deque[Cur][t] \in Seq(Tasks) /\ deque' \in Deques
  <2>1. deque \in Deques /\ Len(deque[Cur][t]) <= spawned /\ deque' \in Deques
    BY <1>1, <1>2 DEF Types, Deques, Tasks
  <2>2. deque[Cur][t] \in Seq(Tasks)
    BY <1>2, <2>1 DEF Deques
  <2>3. spawned \in Nat /\ MaxTasks \in Nat
    BY <1>1, TaskTeamAssumption DEF Types, TypeOK
  <2> QED
    BY <1>3, <2>1, <2>2, <2>3
<1>11. /\ Elsewhere(deque, deque', Cur, t) /\ OneMore(deque[Cur][t], deque'[Cur][t], task)
       /\ deque'[Other] = deque[Other]
  <2> HIDE DEF task
  <2>1. deque'[Cur][t] = Append(deque[Cur][t], task)
    BY <1>2, <1>3, <1>5, <1>10 DEF Deques
  <2>2. OneMore(deque[Cur][t], deque'[Cur][t], task)
    BY <1>10, <2>1 DEF OneMore
  <2>3. Elsewhere(deque, deque', Cur, t) /\ deque'[Other] = deque[Other]
    BY <1>2, <1>3, <1>5, <1>10 DEF Deques, Elsewhere
  <2> QED
    BY <2>2, <2>3
<1>12. /\ task_team'[Other] = task_team[Other] /\ SameTeam(Cur) /\ task_team'[Cur].found
       /\ task_team'[Cur].unfinished = task_team[Cur].unfinished
  <2>1. /\ task_team'[Cur] = [task_team[Cur] EXCEPT !.found = TRUE]
        /\ task_team'[Other] = task_team[Other]
        /\ task_team[Cur] \in [alloc : BOOLEAN, nproc : 0 .. N, unfinished : Nat,
                               active : BOOLEAN, found : BOOLEAN]
    BY <1>1, <1>2, <1>3, <1>5 DEF Types, TypeOK
  <2> QED
    BY <2>1 DEF SameTeam
<1>13. OwnTeams'
  <2>1. OwnTeam(t)'
    BY <1>2, <1>3, <1>4, <1>7, <1>8, <1>1, StillPlaces DEF OwnTeam, Executing, own, locals
  <2> QED
    BY <1>1, <1>3, <1>7, <1>8, <1>9, <2>1, AloneOwn DEF OwnTeams, locals
<1>14. Teams'
  <2>1. Shut(Other)'
    BY <1>1, <1>2, <1>3, <1>8, <1>11, StillPlaces DEF Teams, Shut, locals
  <2> QED
    BY <1>5, <1>8, <1>12, <2>1, StillTeams
<1>15. Counted'
  BY <1>3, <1>5, <1>8, <1>9, <1>12, StillCounted DEF locals
<1>16. Queues'
  <2> SUFFICES ASSUME NEW u \in Threads, deque'[Cur][u] # << >>
               PROVE  On(u) /\ /\ pc'[u] \notin {"steal", "stealing", "none"}
                               /\ pc'[u] # "work" => ~thread_finished[u]
    BY <1>1, <1>3, <1>8, <1>12, StillPlaces DEF Queues, locals
  <2>1. CASE u = t
    BY <1>3, <1>5, <1>7, <2>1
  <2>2. CASE u # t
    <3>1. deque[Cur][u] # << >>
      BY <1>2, <1>11, <2>2 DEF Elsewhere
    <3>2. /\ On(u) /\ pc[u] \notin {"steal", "stealing", "none"}
          /\ pc[u] # "work" => ~thread_finished[u]
      BY <1>1, <3>1 DEF Queues
    <3> QED
      BY <1>6, <3>2
  <2> QED
    BY <2>1, <2>2
<1>17. Locks'
  <2> SUFFICES ASSUME NEW p \in 0..1, NEW w \in Threads, stealing[p][w] # None
               PROVE  pc'[stealing[p][w]] = "stealing" /\ deque'[p][w] # << >>
    <3>1. stealing' = stealing /\ local_team' = local_team
      BY <1>3 DEF locals
    <3> QED
      BY <1>1, <3>1 DEF Locks
  <2>1. pc[stealing[p][w]] = "stealing" /\ stealing[p][w] \in Threads /\ deque[p][w] # << >>
    BY <1>1, Sorts DEF Locks
  <2>2. deque'[p][w] # << >>
    <3>1. CASE p # Cur \/ w # t
      BY <1>11, <2>1, <3>1 DEF Elsewhere
    <3>2. CASE p = Cur /\ w = t
      <4>1. Len(deque'[Cur][t]) = Len(deque[Cur][t]) + 1
        BY <1>11 DEF OneMore
      <4>2. Len(deque'[Cur][t]) > 0
        BY <1>10, <4>1
      <4> QED
        BY <3>2, <4>2
    <3> QED
      BY <3>1, <3>2
  <2> QED
    BY <1>6, <2>1, <2>2
<1>18. Children'
  <2> SUFFICES ASSUME NEW u \in Threads
               PROVE  incomplete'[u] = Cardinality(QueuedIn(deque', u)) + Cardinality(RunningOf(u))
    <3>1. \A u \in Threads : RunningOf(u)' = RunningOf(u)
      BY <1>3, <1>6 DEF RunningOf, locals
    <3> QED
      BY <3>1 DEF Children, QueuedOf, QueuedIn
  <2>1. Cardinality(QueuedIn(deque', u)) = Cardinality(QueuedIn(deque, u)) + One(task, u)
    <3> HIDE DEF task
    <3> QED
      BY <1>2, <1>10, <1>11, Pushed
  <2>2. incomplete[u] = Cardinality(QueuedIn(deque, u)) + Cardinality(RunningOf(u))
    BY <1>1 DEF Children, QueuedOf
  <2>3. Cardinality(QueuedIn(deque, u)) \in Nat /\ Cardinality(RunningOf(u)) \in Nat
    <3>1. IsFiniteSet(RunningOf(u))
      BY <1>1, Finite, FS_Subset DEF RunningOf
    <3> QED
      BY <3>1, QueuedFinite, FS_CardinalityType
  <2>4. incomplete'[u] = incomplete[u] + One(task, u)
    <3>1. incomplete[u] \in Int
      BY <2>2, <2>3
    <3>2. CASE pc[t] = "work"
      BY <1>2, <1>3, <3>1, <3>2 DEF One
    <3>3. CASE pc[t] # "work"
      BY <1>2, <1>3, <3>1, <3>3 DEF One
    <3> QED
      BY <3>2, <3>3
  <2>5. One(task, u) \in Nat
    BY DEF One
  <2> HIDE DEF task
  <2> QED
    BY <2>1, <2>2, <2>3, <2>4, <2>5
<1>19. Left'
  <2>1. Recent(task)
    <3>1. CASE pc[t] = "work"
      <4>1. k[t] = Past
        BY <1>5, <3>1 DEF On, Past, InBarrier, Waits, Executing
      <4>2. k[t] \in Nat /\ region \in Nat
        BY <1>1 DEF Types, TypeOK
      <4> QED
        BY <1>5, <3>1, <4>1, <4>2 DEF Recent, Phase
    <3>2. CASE pc[t] = "run"
      BY <1>1, <3>2 DEF Left, Recent
    <3> QED
      BY <1>3, <3>1, <3>2
  <2> HIDE DEF task
  <2>2. \A p \in 0..1, w \in Threads : \A i \in 1 .. Len(deque'[p][w]) : Recent(deque'[p][w][i])
    <3> SUFFICES ASSUME NEW p \in 0..1, NEW w \in Threads, NEW i \in 1 .. Len(deque'[p][w])
                 PROVE  Recent(deque'[p][w][i])
      OBVIOUS
    <3>1. CASE p # Cur \/ w # t
      BY <1>1, <1>11, <3>1 DEF Left, Elsewhere
    <3>2. CASE p = Cur /\ w = t
      <4>1. CASE i = Len(deque[Cur][t]) + 1
        BY <1>11, <2>1, <3>2, <4>1 DEF OneMore
      <4>2. CASE i # Len(deque[Cur][t]) + 1
        <5>1. i \in 1 .. Len(deque[Cur][t])
          BY <1>10, <1>11, <3>2, <4>2 DEF OneMore
        <5> QED
          BY <1>1, <1>2, <1>11, <3>2, <5>1 DEF Left, OneMore
      <4> QED
        BY <4>1, <4>2
    <3> QED
      BY <3>1, <3>2
  <2>3. \A w \in Threads : pc'[w] = "run" => Recent(current'[w])
    BY <1>1, <1>3, <1>6 DEF Left, locals
  <2> QED
    BY <1>8, <2>2, <2>3, StillLeft
<1> QED
  BY <1>1, <1>8, <1>13, <1>14, <1>15, <1>16, <1>17, <1>18, <1>19, StillPlaces DEF IInv

LEMMA NapsKeep ==
  ASSUME IInv, Types', NEW t \in Threads, NEW v \in Threads,
         Doze(t) \/ Sleep(t) \/ WakeVictim(t, v)
  PROVE  IInv'
<1>1. Types /\ Places
  BY DEF IInv
<1>2. Workers = Threads \ {0} /\ pc = [u \in Threads |-> pc[u]] /\ 0 \in Threads
  BY <1>1, Sorts
<1>3. pc[0] \notin Naps
  BY <1>1 DEF Places, Naps, Executing
<1>4. CASE Doze(t)
  BY <1>2, <1>3, <1>4, NapKeeps DEF Doze, Goto, Naps
<1>5. CASE Sleep(t)
  BY <1>2, <1>3, <1>5, NapKeeps DEF Sleep, Goto, Naps
<1>6. CASE WakeVictim(t, v)
  BY <1>2, <1>3, <1>6, NapKeeps DEF WakeVictim, Goto, Naps
<1> QED
  BY <1>4, <1>5, <1>6
-----------------------------------------------------------------------------
(* Steps from one barrier to the next. *)

\* One member moves on, the master perhaps; it comes to be on the team of the coming
\* barrier, or stays there, and has not finished with it.
LEMMA MovesKeep ==
  ASSUME IInv, Types', Places', NEW t \in Members,
         Members' = Members, Cur' = Cur, Past' = Past,
         pc[0] # "serial", pc'[0] # "serial",
         UNCHANGED <<team, deque, stealing, incomplete, local_team, current>>,
         task_team'[Cur] = task_team[Cur], task_team'[Other].alloc = task_team[Other].alloc,
         Idle(Other)', InBarrier' /\ k'[0] # JoinStep' => Ready(Other)',
         \A u \in Threads \ {t} : /\ On(u)' <=> On(u)
                                  /\ pc'[u] = pc[u] /\ thread_finished'[u] = thread_finished[u]
                                  /\ th_task_state'[u] = th_task_state[u]
                                  /\ th_task_team'[u] = th_task_team[u],
         pc[t] \notin Executing, pc'[t] \notin Executing,
         On(t)', OwnTeam(t)', ~Finished(t), ~Finished(t)',
         local_team[t] # Other, local_team[t] = Cur => On(t),
         InBarrier' /\ ~gathered' => ~thread_finished'[0],
         pc'[0] = "task_wait" /\ local_team'[0] # None => ~thread_finished'[0]
  PROVE  IInv'
<1>1. Types /\ Places /\ OwnTeams /\ Teams /\ Counted /\ Queues /\ Locks /\ Children /\ Left
  BY DEF IInv
<1>2. /\ Members \subseteq Threads /\ None \notin Threads
      /\ Cur # Other /\ Cur \in 0..1 /\ Other \in 0..1
      /\ None \notin 0..1 /\ (0..1) = {Cur, Other} /\ Other' = Other
  BY <1>1, Sorts DEF Other
<1>3. region' = region /\ nproc' = nproc /\ hot_team_nth' = hot_team_nth
  BY DEF team
<1>4. OwnTeams'
  <2>1. ASSUME NEW u \in Threads, u # t PROVE OwnTeam(u)'
    <3>1. OwnTeam(u)
      BY <1>1 DEF OwnTeams
    <3> QED
      BY <1>2, <2>1, <3>1 DEF OwnTeam
  <2> QED
    BY <1>1, <1>3, <2>1 DEF OwnTeams
<1>5. Teams'
  <2>1. region' > 0 => task_team'[0].alloc /\ task_team'[1].alloc
    <3>1. \A p \in {Cur, Other} : task_team'[p].alloc = task_team[p].alloc
      OBVIOUS
    <3> QED
      BY <1>1, <1>2, <1>3, <3>1 DEF Teams
  <2>2. Shut(Other)' /\ (Shut(Cur) /\ (local_team[t] = Cur => thread_finished'[t]) => Shut(Cur)')
    BY <1>1, <1>2 DEF Teams, Shut
  <2>3. Ready(Cur)'
    BY <1>1, <1>3 DEF Teams, Ready
  <2>4. ~task_team'[Cur].found => Shut(Cur)' /\ \A u \in Members : ~Finished(u)'
    <3> SUFFICES ASSUME ~task_team[Cur].found
                 PROVE  Shut(Cur)' /\ \A u \in Members : ~Finished(u)'
      OBVIOUS
    <3>1. Shut(Cur) /\ \A u \in Members : ~Finished(u)
      BY <1>1 DEF Teams
    <3>2. local_team[t] # Cur
      <4>1. local_team[t] = Cur => thread_finished[t] /\ On(t)
        BY <1>2, <3>1 DEF Shut
      <4>2. local_team[t] # None => pc[t] # "work"
        BY <1>1, <1>2 DEF OwnTeams, OwnTeam, Executing
      <4> QED
        BY <1>2, <4>1, <4>2 DEF Finished
    <3>3. \A u \in Members : ~Finished(u)'
      BY <1>2, <3>1 DEF Finished
    <3> QED
      BY <2>2, <3>1, <3>2, <3>3
  <2> QED
    BY <1>2, <2>1, <2>2, <2>3, <2>4 DEF Teams
<1>6. Counted'
  <2>1. Due' = Due
    BY <1>2 DEF Due, Finished
  <2>2. Thieves' = Thieves
    BY <1>2 DEF Thieves
  <2> QED
    BY <1>1, <2>1, <2>2 DEF Counted
<1>7. Queues'
  <2> SUFFICES ASSUME NEW u \in Threads, deque[Cur][u] # << >>
               PROVE  /\ task_team[Cur].found /\ On(u)'
                      /\ pc'[u] \notin {"steal", "stealing", "none"}
                      /\ pc'[u] # "work" => ~thread_finished'[u]
    BY <1>1 DEF Queues
  <2>1. /\ task_team[Cur].found /\ On(u) /\ pc[u] \notin {"steal", "stealing", "none"}
        /\ pc[u] # "work" => ~thread_finished[u]
    BY <1>1 DEF Queues
  <2>2. CASE u = t
    BY <2>1, <2>2 DEF Executing, Finished
  <2>3. CASE u # t
    BY <2>1, <2>3
  <2> QED
    BY <2>2, <2>3
<1>8. Locks'
  <2> SUFFICES ASSUME NEW p \in 0..1, NEW w \in Threads, stealing[p][w] # None
               PROVE  pc'[stealing[p][w]] = "stealing"
    BY <1>1 DEF Locks
  <2>1. pc[stealing[p][w]] = "stealing" /\ stealing[p][w] \in Threads
    BY <1>1, Sorts DEF Locks
  <2> QED
    BY <2>1 DEF Executing
<1>9. \A u \in Threads : pc'[u] = "run" <=> pc[u] = "run"
  BY DEF Executing
<1>10. Children'
  BY <1>1, <1>9 DEF Children, QueuedOf, QueuedIn, RunningOf
<1>11. Left'
  <2>1. \A task \in Tasks : Recent(task) => Recent(task)'
    BY <1>2, <1>3 DEF Recent, Tasks
  <2>2. /\ \A p \in 0..1, u \in Threads : \A i \in 1 .. Len(deque[p][u]) : deque[p][u][i] \in Tasks
        /\ \A u \in Threads : current[u] \in Tasks
    BY <1>1 DEF Types
  <2> QED
    BY <1>1, <1>9, <2>1, <2>2 DEF Left
<1> QED
  BY <1>4, <1>5, <1>6, <1>7, <1>8, <1>10, <1>11 DEF IInv

\* A worker moves, and the master stays where it is.
LEMMA MasterStays ==
  ASSUME Types, UNCHANGED <<team, gathered>>, NEW t \in Workers,
         \A u \in Threads \ {t} : /\ pc'[u] = pc[u] /\ k'[u] = k[u]
                                  /\ th_task_state'[u] = th_task_state[u]
  PROVE  /\ InBarrier' <=> InBarrier
         /\ Past' = Past /\ Cur' = Cur /\ Other' = Other /\ JoinStep' = JoinStep
         /\ Members' = Members
         /\ \A u \in Threads \ {t} : (On(u)' <=> On(u)) /\ (Behind(u)' <=> Behind(u))
         /\ pc'[0] = pc[0] /\ k'[0] = k[0]
<1>1. 0 \in Threads \ {t}
  BY Sorts
<1>2. InBarrier' <=> InBarrier
  BY <1>1 DEF InBarrier
<1>3. Past' = Past /\ Cur' = Cur /\ JoinStep' = JoinStep /\ Members' = Members
  BY <1>1, <1>2 DEF Past, Cur, JoinStep, Members, team
<1>4. Other' = Other
  BY <1>3 DEF Other
<1>5. \A u \in Threads \ {t} : (On(u)' <=> On(u)) /\ (Behind(u)' <=> Behind(u))
  BY <1>1, <1>3 DEF On, Behind
<1> QED
  BY <1>1, <1>2, <1>3, <1>4, <1>5

\* Unready, or ready for what is to come.
LEMMA OtherTeam ==
  ASSUME IInv, UNCHANGED <<team, task_team>>, Cur' = Cur, Other' = Other,
         InBarrier' <=> InBarrier, JoinStep' = JoinStep, k'[0] = k[0]
  PROVE  Idle(Other)' /\ (InBarrier' /\ k'[0] # JoinStep' => Ready(Other)')
BY DEF IInv, Teams, Idle, Ready, team

LEMMA LeaveKeeps == ASSUME IInv, Types', NEW t \in Threads, Leave(t) PROVE IInv'
<1>1. Types /\ Places /\ OwnTeams /\ Teams
  BY DEF IInv
<1>2. /\ Workers = Threads \ {0} /\ 0 \in Threads /\ None \notin 0..1
      /\ Cur \in 0..1 /\ Other \in 0..1 /\ Cur # Other /\ Members \subseteq Threads
      /\ pc = [u \in Threads |-> pc[u]]
  BY <1>1, Sorts
<1>3. /\ pc[t] = "wait" /\ go[t] /\ go' = [go EXCEPT ![t] = FALSE]
      /\ th_task_state' = [th_task_state EXCEPT ![t] = 1 - th_task_state[t]]
      /\ th_task_team' = [th_task_team EXCEPT ![t] = IF task_team[1 - th_task_state[t]].alloc
                                                     THEN 1 - th_task_state[t] ELSE None]
      /\ pc' = [pc EXCEPT ![t] = "work"]
      /\ UNCHANGED <<team, task_team, tasks, k, arrived, gathered, locals>>
  BY DEF Leave, Sync, Goto
<1>4. t \in Members \ {0} /\ Behind(t) /\ pc[0] # "serial"
  BY <1>1, <1>3 DEF Places
<1>5. k[t] \in Nat /\ Past \in Int
  BY <1>1, Basics DEF Types
<1>6. ~On(t) /\ k[t] = Past
  BY <1>3, <1>4, <1>5 DEF On, Behind
<1>7. OwnTeam(t)
  BY <1>1 DEF OwnTeams
<1>8. th_task_state[t] = Other /\ 1 - Other = Cur /\ task_team[Cur].alloc /\ local_team[t] = None
  <2>1. th_task_state[t] = Other /\ local_team[t] = None
    BY <1>3, <1>4, <1>6, <1>7 DEF OwnTeam, Executing
  <2>2. region > 0
    BY <1>1, <1>4 DEF Places
  <2> QED
    BY <1>1, <1>2, <2>1, <2>2 DEF Teams, Other
<1>9. /\ th_task_state'[t] = Cur /\ th_task_team'[t] = Cur /\ pc'[t] = "work" /\ ~go'[t]
      /\ \A u \in Threads \ {t} : /\ pc'[u] = pc[u] /\ k'[u] = k[u] /\ go'[u] = go[u]
                                  /\ th_task_state'[u] = th_task_state[u]
                                  /\ th_task_team'[u] = th_task_team[u]
  BY <1>1, <1>2, <1>3, <1>8 DEF Types, TypeOK
<1>10. /\ InBarrier' <=> InBarrier
       /\ Past' = Past /\ Cur' = Cur /\ Other' = Other /\ JoinStep' = JoinStep
       /\ Members' = Members
       /\ \A u \in Threads \ {t} : (On(u)' <=> On(u)) /\ (Behind(u)' <=> Behind(u))
       /\ pc'[0] = pc[0] /\ k'[0] = k[0]
  BY <1>1, <1>2, <1>3, <1>4, <1>9, MasterStays
<1>11. On(t)' /\ ~Behind(t)'
  BY <1>3, <1>4, <1>6, <1>9, <1>10 DEF On, Behind, Waits, Executing
<1>12. Places'
  <2>1. /\ k'[0] <= JoinStep' /\ (pc'[0] \in {"work", "release"} => k'[0] < JoinStep')
        /\ InBarrier' => k'[0] > 0
        /\ pc'[0] \in {"serial", "work", "release", "gather", "task_wait"} \cup Executing
        /\ pc'[0] # "serial" => nproc' > 1 /\ region' > 0
        /\ pc'[0] = "gather" => ~gathered'
        /\ pc'[0] = "task_wait" => gathered'
        /\ gathered' => InBarrier'
    BY <1>1, <1>3, <1>10 DEF Places, team
  <2>2. /\ \A u \in Members' \ {0} : On(u)' \/ Behind(u)'
        /\ \A u \in Threads \ Members' : pc'[u] \in Waits
        /\ \A u \in Threads : go'[u] <=> u \in Members' \ {0} /\ Behind(u)' /\ pc'[0] # "serial"
    BY <1>1, <1>2, <1>4, <1>9, <1>10, <1>11 DEF Places
  <2>3. /\ arrived' = IF gathered' THEN {} ELSE {u \in Members' \ {0} : k'[u] = Past' + 1}
        /\ gathered' => \A u \in Members' \ {0} : k'[u] = Past' + 1
    BY <1>1, <1>3, <1>10 DEF Places
  <2> QED
    BY <2>1, <2>2, <2>3 DEF Places
<1>13. OwnTeam(t)'
  BY <1>3, <1>4, <1>8, <1>9, <1>10, <1>11 DEF OwnTeam, Executing, locals
<1>14. /\ Idle(Other)' /\ (InBarrier' /\ k'[0] # JoinStep' => Ready(Other)')
       /\ InBarrier' /\ ~gathered' => ~thread_finished'[0]
       /\ pc'[0] = "task_wait" /\ local_team'[0] # None => ~thread_finished'[0]
  BY <1>1, <1>3, <1>10, OtherTeam DEF OwnTeams, locals
<1>15. ~Finished(t) /\ ~Finished(t)' /\ local_team[t] # Other /\ local_team[t] # Cur
  BY <1>2, <1>6, <1>8, <1>9 DEF Finished
<1>16. pc[t] \notin Executing /\ pc'[t] \notin Executing
  BY <1>3, <1>9 DEF Executing
<1>17. /\ UNCHANGED <<team, deque, stealing, incomplete, local_team, current,
                       thread_finished, task_team>>
       /\ t \in Members
  BY <1>3, <1>4 DEF tasks, locals
<1> QED
  BY <1>4, <1>9, <1>10, <1>11, <1>12, <1>13, <1>14, <1>15, <1>16, <1>17, MovesKeep

LEMMA WorkerArrives == ASSUME IInv, Types', NEW t \in Workers, Arrive(t) PROVE IInv'
<1>1. Types /\ Places /\ OwnTeams /\ Teams
  BY DEF IInv
<1>2. /\ Workers = Threads \ {0} /\ 0 \in Threads /\ None \notin 0..1 /\ t \in Threads /\ t # 0
      /\ Cur \in 0..1 /\ Other \in 0..1 /\ Cur # Other /\ Members \subseteq Threads
      /\ pc = [u \in Threads |-> pc[u]]
  BY <1>1, Sorts
<1>3. /\ pc[t] = "work" /\ k' = [k EXCEPT ![t] = @ + 1]
      /\ thread_finished' = [thread_finished EXCEPT ![t] = FALSE]
      /\ arrived' = arrived \cup {t} /\ pc' = [pc EXCEPT ![t] = "wait"]
      /\ UNCHANGED <<team, task_team, tasks, own, go, gathered, local_team, current>>
  BY <1>2 DEF Arrive, Goto
<1>4. t \in Members \ {0} /\ ~Behind(t)
  BY <1>1, <1>2, <1>3 DEF Places, Behind, Waits, Executing
<1>5. On(t) /\ k[t] = Past /\ pc[0] # "serial"
  <2>1. On(t)
    BY <1>1, <1>4 DEF Places
  <2> QED
    BY <1>2, <1>3, <2>1 DEF On, Waits, Executing
<1>6. k[t] \in Nat /\ Past \in Int /\ ~gathered
  <2>1. k[t] \in Nat /\ Past \in Int
    BY <1>1, <1>2, Basics DEF Types
  <2>2. gathered => k[t] = Past + 1
    BY <1>1, <1>4 DEF Places
  <2> QED
    BY <1>5, <2>1, <2>2
<1>7. OwnTeam(t) /\ local_team[t] = None
  BY <1>1, <1>2, <1>3 DEF OwnTeams, OwnTeam, Executing
<1>8. /\ pc'[t] = "wait" /\ k'[t] = Past + 1 /\ ~thread_finished'[t]
      /\ \A u \in Threads \ {t} : /\ pc'[u] = pc[u] /\ k'[u] = k[u]
                                  /\ thread_finished'[u] = thread_finished[u]
                                  /\ th_task_state'[u] = th_task_state[u]
                                  /\ th_task_team'[u] = th_task_team[u]
      /\ th_task_state' = th_task_state /\ th_task_team' = th_task_team
  BY <1>1, <1>2, <1>3, <1>5 DEF Types, TypeOK, own
<1>9. /\ InBarrier' <=> InBarrier
      /\ Past' = Past /\ Cur' = Cur /\ Other' = Other /\ JoinStep' = JoinStep
      /\ Members' = Members
      /\ \A u \in Threads \ {t} : (On(u)' <=> On(u)) /\ (Behind(u)' <=> Behind(u))
      /\ pc'[0] = pc[0] /\ k'[0] = k[0]
  BY <1>1, <1>3, <1>8, MasterStays
<1>10. On(t)' /\ ~Behind(t)'
  BY <1>2, <1>4, <1>5, <1>6, <1>8, <1>9 DEF On, Behind, Waits, Executing
<1>11. Places'
  <2>1. /\ k'[0] <= JoinStep' /\ (pc'[0] \in {"work", "release"} => k'[0] < JoinStep')
        /\ InBarrier' => k'[0] > 0
        /\ pc'[0] \in {"serial", "work", "release", "gather", "task_wait"} \cup Executing
        /\ pc'[0] # "serial" => nproc' > 1 /\ region' > 0
        /\ pc'[0] = "gather" => ~gathered'
        /\ pc'[0] = "task_wait" => gathered'
        /\ gathered' => InBarrier'
    BY <1>1, <1>3, <1>9 DEF Places, team
  <2>2. /\ \A u \in Members' \ {0} : On(u)' \/ Behind(u)'
        /\ \A u \in Threads \ Members' : pc'[u] \in Waits
        /\ \A u \in Threads : go'[u] <=> u \in Members' \ {0} /\ Behind(u)' /\ pc'[0] # "serial"
    BY <1>1, <1>2, <1>3, <1>4, <1>8, <1>9, <1>10 DEF Places
  <2>3. /\ arrived' = IF gathered' THEN {} ELSE {u \in Members' \ {0} : k'[u] = Past' + 1}
        /\ gathered' => \A u \in Members' \ {0} : k'[u] = Past' + 1
    <3>1. arrived = {u \in Members \ {0} : k[u] = Past + 1} /\ ~gathered'
      BY <1>1, <1>3, <1>6 DEF Places
    <3>2. \A u \in Members \ {0} : k'[u] = Past + 1 <=> k[u] = Past + 1 \/ u = t
      BY <1>2, <1>8
    <3> QED
      BY <1>3, <1>4, <1>9, <3>1, <3>2
  <2> QED
    BY <2>1, <2>2, <2>3 DEF Places
<1>12. OwnTeam(t)'
  BY <1>2, <1>3, <1>4, <1>5, <1>7, <1>8, <1>9, <1>10 DEF OwnTeam, Executing
<1>13. /\ Idle(Other)' /\ (InBarrier' /\ k'[0] # JoinStep' => Ready(Other)')
       /\ InBarrier' /\ ~gathered' => ~thread_finished'[0]
       /\ pc'[0] = "task_wait" /\ local_team'[0] # None => ~thread_finished'[0]
  BY <1>1, <1>2, <1>3, <1>8, <1>9, OtherTeam DEF OwnTeams
<1>14. ~Finished(t) /\ ~Finished(t)' /\ local_team[t] # Other /\ local_team[t] # Cur
  BY <1>2, <1>3, <1>7, <1>8 DEF Finished
<1>15. pc[t] \notin Executing /\ pc'[t] \notin Executing
  BY <1>3, <1>8 DEF Executing
<1>16. /\ UNCHANGED <<team, deque, stealing, incomplete, local_team, current, task_team>>
       /\ t \in Members
  BY <1>3, <1>4 DEF tasks
<1> QED
  BY <1>5, <1>8, <1>9, <1>10, <1>11, <1>12, <1>13, <1>14, <1>15, <1>16, MovesKeep

\* The master moves without letting the others go: they stay where they are.
LEMMA OthersStay ==
  ASSUME Types, UNCHANGED <<team, go>>, Cur' = Cur, Past' = Past, pc[0] # "serial", pc'[0] # "serial",
         \A u \in Workers : pc'[u] = pc[u] /\ k'[u] = k[u]
  PROVE  /\ Members' = Members /\ Other' = Other /\ JoinStep' = JoinStep
         /\ \A u \in Workers : (On(u)' <=> On(u)) /\ (Behind(u)' <=> Behind(u))
<1>1. Members' = Members /\ Other' = Other /\ JoinStep' = JoinStep
  BY DEF Members, Other, JoinStep, team
<1>2. \A u \in Workers : (On(u)' <=> On(u)) /\ (Behind(u)' <=> Behind(u))
  <2>1. 0 \notin Workers
    BY Sorts
  <2> QED
    BY <1>1, <2>1 DEF On, Behind
<1> QED
  BY <1>1, <1>2

LEMMA OthersPlaces ==
  ASSUME Types, Places, UNCHANGED <<team, go>>, Cur' = Cur, Past' = Past,
         pc[0] # "serial", pc'[0] # "serial",
         \A u \in Workers : pc'[u] = pc[u] /\ k'[u] = k[u],
         k'[0] <= JoinStep, pc'[0] \in {"work", "release"} => k'[0] < JoinStep,
         InBarrier' => k'[0] > 0, pc'[0] \in {"work", "gather", "task_wait"},
         pc'[0] = "gather" => ~gathered', pc'[0] = "task_wait" => gathered',
         gathered' => InBarrier',
         arrived' = IF gathered' THEN {} ELSE {u \in Members \ {0} : k'[u] = Past + 1},
         gathered' => \A u \in Members \ {0} : k'[u] = Past + 1
  PROVE  Places'
<1>1. /\ Members' = Members /\ Other' = Other /\ JoinStep' = JoinStep
      /\ \A u \in Workers : (On(u)' <=> On(u)) /\ (Behind(u)' <=> Behind(u))
      /\ Workers = Threads \ {0} /\ 0 \in Members /\ Members \subseteq Threads
  BY OthersStay, Sorts, Basics
<1>2. /\ \A u \in Members' \ {0} : On(u)' \/ Behind(u)'
      /\ \A u \in Threads \ Members' : pc'[u] \in Waits
  BY <1>1 DEF Places
<1>3. \A u \in Threads : go'[u] <=> u \in Members' \ {0} /\ Behind(u)' /\ pc'[0] # "serial"
  BY <1>1 DEF Places
<1>4. pc'[0] # "serial" => nproc' > 1 /\ region' > 0
  BY DEF Places, team
<1> QED
  BY <1>1, <1>2, <1>3, <1>4 DEF Places

\* The master comes to a barrier: the other task team is made ready, unless it is the
\* join.
LEMMA MasterArrives == ASSUME IInv, Types', Arrive(0) PROVE IInv'
<1>1. Types /\ Places /\ OwnTeams /\ Teams
  BY DEF IInv
<1>2. /\ Workers = Threads \ {0} /\ 0 \in Threads /\ None \notin 0..1 /\ 0 \in Members
      /\ Cur \in 0..1 /\ Other \in 0..1 /\ Cur # Other /\ Members \subseteq Threads
      /\ (0..1) = {Cur, Other}
      /\ pc = [u \in Threads |-> pc[u]]
      /\ k[0] \in Nat /\ JoinStep \in Nat
  BY <1>1, Sorts, Basics
<1>3. /\ pc[0] = "work" /\ k' = [k EXCEPT ![0] = @ + 1]
      /\ thread_finished' = [thread_finished EXCEPT ![0] = FALSE]
      /\ task_team' = IF k'[0] = JoinStep THEN task_team ELSE Setup(th_task_state[0], nproc)
      /\ pc' = [pc EXCEPT ![0] = "gather"]
      /\ UNCHANGED <<arrived, team, tasks, own, go, gathered, local_team, current>>
  BY DEF Arrive, Goto
<1>4. /\ pc'[0] = "gather" /\ k'[0] = k[0] + 1 /\ ~thread_finished'[0]
      /\ \A u \in Workers : /\ pc'[u] = pc[u] /\ k'[u] = k[u]
                            /\ thread_finished'[u] = thread_finished[u]
      /\ th_task_state' = th_task_state /\ th_task_team' = th_task_team
  BY <1>1, <1>2, <1>3 DEF Types, TypeOK, own
<1>5. ~InBarrier /\ InBarrier' /\ Past = k[0] /\ Past' = Past /\ Cur' = Cur /\ Cur = th_task_state[0]
  BY <1>2, <1>3, <1>4 DEF InBarrier, Past, Cur
<1>6. ~gathered /\ gathered' = gathered /\ k[0] < JoinStep /\ region > 0
  BY <1>1, <1>3, <1>5 DEF Places
<1>7. /\ Members' = Members /\ Other' = Other /\ JoinStep' = JoinStep
      /\ \A u \in Workers : (On(u)' <=> On(u)) /\ (Behind(u)' <=> Behind(u))
  BY <1>1, <1>3, <1>4, <1>5, OthersStay
<1>8. Places'
  <2>1. arrived = {u \in Members \ {0} : k[u] = Past + 1}
    BY <1>1, <1>6 DEF Places
  <2>2. arrived' = {u \in Members \ {0} : k'[u] = Past + 1}
    BY <1>2, <1>3, <1>4, <2>1
  <2>3. k'[0] <= JoinStep /\ k'[0] > 0
    BY <1>2, <1>4, <1>6
  <2>4. UNCHANGED <<team, go>> /\ pc[0] # "serial" /\ ~gathered'
    BY <1>3, <1>6
  <2>5. /\ pc'[0] # "serial" /\ pc'[0] # "task_wait" /\ pc'[0] \notin {"work", "release"}
        /\ pc'[0] \in {"work", "gather", "task_wait"}
    BY <1>4
  <2>6. \A u \in Workers : pc'[u] = pc[u] /\ k'[u] = k[u]
    BY <1>4
  <2> QED
    BY <1>1, <1>5, <2>2, <2>3, <2>4, <2>5, <2>6, OthersPlaces
<1>9. On(0) /\ On(0)'
  BY <1>2, <1>3, <1>4, <1>7 DEF On
<1>10. OwnTeam(0) /\ local_team[0] = None /\ local_team' = local_team
  BY <1>1, <1>2, <1>3 DEF OwnTeams, OwnTeam, Executing
<1>11. OwnTeam(0)'
  BY <1>2, <1>3, <1>4, <1>5, <1>7, <1>9, <1>10 DEF OwnTeam, Executing
<1>12. /\ task_team'[Cur] = task_team[Cur] /\ task_team'[Other].alloc = task_team[Other].alloc
       /\ Idle(Other)' /\ (InBarrier' /\ k'[0] # JoinStep' => Ready(Other)')
  <2>1. task_team[0].alloc /\ task_team[1].alloc /\ Idle(Other) /\ nproc' = nproc
    BY <1>1, <1>3, <1>6 DEF Teams, team
  <2>2. task_team[Cur].alloc /\ task_team[Other].alloc
    BY <1>2, <2>1
  <2>3. CASE k'[0] = JoinStep
    <3>1. task_team' = task_team
      BY <1>3, <2>3
    <3> QED
      BY <1>7, <2>1, <2>3, <3>1 DEF Idle
  <2>4. CASE k'[0] # JoinStep
    <3>1. task_team' = Setup(Cur, nproc)
      BY <1>3, <1>5, <2>4
    <3>2. /\ task_team'[Cur] = task_team[Cur]
          /\ task_team'[Other] = Fresh(nproc)
             \/ (task_team'[Other] = task_team[Other] /\ Ready(Other))
      BY <1>2, <2>2, <3>1 DEF Setup, Ready
    <3>3. CASE task_team'[Other] = Fresh(nproc)
      <4>1. /\ task_team'[Other].alloc = TRUE /\ task_team'[Other].active = TRUE
            /\ task_team'[Other].nproc = nproc /\ task_team'[Other].unfinished = nproc
            /\ task_team'[Other].found = FALSE
        BY <3>3 DEF Fresh
      <4>2. task_team[Other].alloc = TRUE
        BY <1>1, <1>2, <2>2 DEF Types, TypeOK
      <4> QED
        BY <1>7, <2>1, <3>2, <4>1, <4>2 DEF Idle, Ready
    <3>4. CASE task_team'[Other] = task_team[Other] /\ Ready(Other)
      BY <1>7, <2>1, <3>2, <3>4 DEF Idle, Ready
    <3> QED
      BY <3>2, <3>3, <3>4
  <2> QED
    BY <2>3, <2>4
<1>13. ~Finished(0) /\ ~Finished(0)' /\ local_team[0] # Other /\ local_team[0] # Cur
  BY <1>2, <1>3, <1>4, <1>10 DEF Finished
<1>14. /\ InBarrier' /\ ~gathered' => ~thread_finished'[0]
       /\ pc'[0] = "task_wait" /\ local_team'[0] # None => ~thread_finished'[0]
       /\ pc[0] \notin Executing /\ pc'[0] \notin Executing /\ pc[0] # "serial" /\ pc'[0] # "serial"
  BY <1>3, <1>4 DEF Executing
<1>15. /\ UNCHANGED <<team, deque, stealing, incomplete, local_team, current>>
       /\ \A u \in Threads \ {0} : /\ On(u)' <=> On(u)
                                  /\ pc'[u] = pc[u] /\ thread_finished'[u] = thread_finished[u]
                                  /\ th_task_state'[u] = th_task_state[u]
                                  /\ th_task_team'[u] = th_task_team[u]
  BY <1>2, <1>3, <1>4, <1>7 DEF tasks
<1> QED
  BY <1>2, <1>5, <1>7, <1>8, <1>9, <1>11, <1>12, <1>13, <1>14, <1>15, MovesKeep

LEMMA MasterLeavesKeeps == ASSUME IInv, Types', MasterLeaves PROVE IInv'
<1>1. Types /\ Places /\ OwnTeams /\ Teams
  BY DEF IInv
<1>2. /\ Workers = Threads \ {0} /\ 0 \in Threads /\ None \notin 0..1 /\ 0 \in Members
      /\ Cur \in 0..1 /\ Other \in 0..1 /\ Cur # Other /\ Members \subseteq Threads
      /\ (0..1) = {Cur, Other}
      /\ pc = [u \in Threads |-> pc[u]]
  BY <1>1, Sorts, Basics
<1>3. /\ pc[0] = "release"
      /\ th_task_state' = [th_task_state EXCEPT ![0] = 1 - th_task_state[0]]
      /\ th_task_team' = [th_task_team EXCEPT ![0] = IF task_team[1 - th_task_state[0]].alloc
                                                     THEN 1 - th_task_state[0] ELSE None]
      /\ pc' = [pc EXCEPT ![0] = "work"]
      /\ UNCHANGED <<team, task_team, tasks, barrier, locals>>
  BY DEF MasterLeaves, Sync, Goto
<1>4. Cur = 1 - th_task_state[0] /\ task_team[Cur].alloc /\ ~gathered
  <2>1. region > 0 /\ ~gathered
    BY <1>1, <1>3 DEF Places, InBarrier
  <2> QED
    BY <1>1, <1>2, <1>3, <2>1 DEF Cur, Teams
<1>5. /\ pc'[0] = "work" /\ th_task_state'[0] = Cur /\ th_task_team'[0] = Cur
      /\ \A u \in Workers : /\ pc'[u] = pc[u]
                            /\ th_task_state'[u] = th_task_state[u]
                            /\ th_task_team'[u] = th_task_team[u]
      /\ k' = k /\ gathered' = gathered /\ arrived' = arrived /\ go' = go
  BY <1>1, <1>2, <1>3, <1>4 DEF Types, TypeOK, barrier
<1>6. ~InBarrier /\ ~InBarrier' /\ Past' = Past /\ Cur' = Cur
  BY <1>3, <1>5 DEF InBarrier, Past, Cur
<1>7. /\ Members' = Members /\ Other' = Other /\ JoinStep' = JoinStep
      /\ \A u \in Workers : (On(u)' <=> On(u)) /\ (Behind(u)' <=> Behind(u))
  BY <1>1, <1>3, <1>5, <1>6, OthersStay
<1>8. Places'
  <2>1. arrived = {u \in Members \ {0} : k[u] = Past + 1} /\ k[0] < JoinStep /\ k[0] <= JoinStep
    BY <1>1, <1>3, <1>4 DEF Places
  <2> QED
    BY <1>1, <1>3, <1>4, <1>5, <1>6, <2>1, OthersPlaces
<1>9. ~On(0) /\ On(0)'
  BY <1>2, <1>3, <1>5, <1>7 DEF On
<1>10. OwnTeam(0) /\ local_team[0] = None /\ local_team' = local_team
  BY <1>1, <1>2, <1>3 DEF OwnTeams, OwnTeam, Executing, locals
<1>11. OwnTeam(0)'
  BY <1>2, <1>5, <1>6, <1>7, <1>9, <1>10 DEF OwnTeam, Executing
<1>12. /\ Idle(Other)' /\ (InBarrier' /\ k'[0] # JoinStep' => Ready(Other)')
       /\ task_team' = task_team
  BY <1>1, <1>3, <1>6, <1>7 DEF Teams, Idle
<1>13. ~Finished(0) /\ ~Finished(0)' /\ local_team[0] # Other /\ local_team[0] # Cur
  BY <1>2, <1>5, <1>9, <1>10 DEF Finished
<1>14. /\ InBarrier' /\ ~gathered' => ~thread_finished'[0]
       /\ pc'[0] = "task_wait" /\ local_team'[0] # None => ~thread_finished'[0]
       /\ pc[0] \notin Executing /\ pc'[0] \notin Executing /\ pc[0] # "serial" /\ pc'[0] # "serial"
  BY <1>3, <1>5, <1>6 DEF Executing
<1>15. /\ UNCHANGED <<team, deque, stealing, incomplete, local_team, current>>
       /\ \A u \in Threads \ {0} : /\ On(u)' <=> On(u)
                                  /\ pc'[u] = pc[u] /\ thread_finished'[u] = thread_finished[u]
                                  /\ th_task_state'[u] = th_task_state[u]
                                  /\ th_task_team'[u] = th_task_team[u]
  BY <1>2, <1>3, <1>5, <1>7 DEF tasks, locals
<1> QED
  BY <1>2, <1>6, <1>7, <1>8, <1>9, <1>11, <1>12, <1>13, <1>14, <1>15, MovesKeep

\* Everybody has come to the barrier, and there are tasks.
LEMMA GatheredFoundKeeps ==
  ASSUME IInv, Types', Gathered, task_team[th_task_state[0]].found PROVE IInv'
<1>1. Types /\ Places /\ OwnTeams /\ Teams
  BY DEF IInv
<1>2. /\ Workers = Threads \ {0} /\ 0 \in Threads /\ None \notin 0..1 /\ 0 \in Members
      /\ Cur \in 0..1 /\ Other \in 0..1 /\ Cur # Other /\ Members \subseteq Threads
      /\ (0..1) = {Cur, Other}
      /\ pc = [u \in Threads |-> pc[u]]
  BY <1>1, Sorts, Basics
<1>3. /\ pc[0] = "gather" /\ arrived = Members \ {0} /\ arrived' = {} /\ gathered' = TRUE
      /\ pc' = [pc EXCEPT ![0] = "task_wait"]
      /\ thread_finished' = [thread_finished EXCEPT ![0] = FALSE]
      /\ UNCHANGED <<go, th_task_team, team, task_team, tasks, th_task_state, k, local_team, current>>
  BY DEF Gathered, Goto
<1>4. InBarrier /\ InBarrier' /\ ~gathered /\ ~thread_finished[0]
  BY <1>1, <1>2, <1>3 DEF InBarrier, Places, OwnTeams
<1>5. /\ pc'[0] = "task_wait" /\ ~thread_finished'[0]
      /\ \A u \in Workers : pc'[u] = pc[u] /\ thread_finished'[u] = thread_finished[u]
  BY <1>1, <1>2, <1>3 DEF Types, TypeOK
<1>6. Past' = Past /\ Cur' = Cur
  BY <1>3, <1>4, <1>5 DEF Past, Cur
<1>7. /\ Members' = Members /\ Other' = Other /\ JoinStep' = JoinStep
      /\ \A u \in Workers : (On(u)' <=> On(u)) /\ (Behind(u)' <=> Behind(u))
  BY <1>1, <1>3, <1>5, <1>6, OthersStay
<1>8. Places'
  <2>1. arrived = {u \in Members \ {0} : k[u] = Past + 1} /\ k[0] <= JoinStep /\ k[0] > 0
    BY <1>1, <1>4 DEF Places
  <2>2. \A u \in Members \ {0} : k'[u] = Past + 1
    BY <1>3, <2>1
  <2> QED
    BY <1>1, <1>3, <1>4, <1>5, <1>6, <2>1, <2>2, OthersPlaces
<1>9. On(0) /\ On(0)'
  BY <1>2, <1>3, <1>5, <1>7 DEF On
<1>10. OwnTeam(0)
  BY <1>1, <1>2 DEF OwnTeams
<1>11. OwnTeam(0)' /\ local_team[0] # Other
  BY <1>2, <1>3, <1>5, <1>6, <1>7, <1>9, <1>10 DEF OwnTeam, Executing
<1>12. /\ Idle(Other)' /\ (InBarrier' /\ k'[0] # JoinStep' => Ready(Other)')
       /\ task_team' = task_team
  BY <1>3, <1>4, <1>6, <1>7, OtherTeam
<1>13. ~Finished(0) /\ ~Finished(0)'
  BY <1>4, <1>5 DEF Finished
<1>14. /\ InBarrier' /\ ~gathered' => ~thread_finished'[0]
       /\ pc'[0] = "task_wait" /\ local_team'[0] # None => ~thread_finished'[0]
       /\ pc[0] \notin Executing /\ pc'[0] \notin Executing /\ pc[0] # "serial" /\ pc'[0] # "serial"
  BY <1>3, <1>5 DEF Executing
<1>15. /\ UNCHANGED <<team, deque, stealing, incomplete, local_team, current>>
       /\ \A u \in Threads \ {0} : /\ On(u)' <=> On(u)
                                  /\ pc'[u] = pc[u] /\ thread_finished'[u] = thread_finished[u]
                                  /\ th_task_state'[u] = th_task_state[u]
                                  /\ th_task_team'[u] = th_task_team[u]
  BY <1>2, <1>3, <1>5, <1>7 DEF tasks
<1> QED
  BY <1>2, <1>6, <1>7, <1>8, <1>9, <1>11, <1>12, <1>13, <1>14, <1>15, MovesKeep

\* When both task teams are shut no task is left, and none comes when the threads that
\* run tasks go on to do so.
LEMMA Emptied ==
  ASSUME IInv, Types', Shut(Cur), Cur' \in {Cur, Other},
         UNCHANGED <<deque, stealing, incomplete, local_team, current>>,
         \A u \in Threads : pc'[u] # pc[u] => pc[u] \notin Executing /\ pc'[u] \notin Executing
  PROVE  /\ Queues' /\ Locks' /\ Children' /\ Left'
         /\ \A p \in 0..1, u \in Threads : deque[p][u] = << >>
<1>1. Types /\ OwnTeams /\ Teams /\ Locks /\ Children
  BY DEF IInv
<1>2. (0..1) = {Cur, Other} /\ None \notin 0..1 /\ Cur \in 0..1 /\ Other \in 0..1
  BY <1>1, Sorts
<1>3. Shut(Other)
  BY <1>1 DEF Teams
<1>4. \A p \in 0..1, u \in Threads : deque[p][u] = << >>
  BY <1>2, <1>3 DEF Shut
<1>5. \A u \in Threads : pc[u] # "run" /\ pc'[u] # "run"
  <2> SUFFICES ASSUME NEW u \in Threads, pc[u] = "run" PROVE FALSE
    BY DEF Executing
  <2>1. ~thread_finished[u] /\ local_team[u] # None /\ local_team[u] \in {None, 0, 1}
    BY <1>1 DEF OwnTeams, OwnTeam, Executing, Types, TypeOK
  <2>2. local_team[u] \in {Cur, Other}
    BY <1>2, <2>1
  <2> QED
    BY <1>3, <2>1, <2>2 DEF Shut
<1>6. Queues'
  BY <1>2, <1>4 DEF Queues
<1>7. Locks'
  BY <1>1, <1>4 DEF Locks
<1>8. Children'
  BY <1>1, <1>5 DEF Children, QueuedOf, QueuedIn, RunningOf
<1>9. Left'
  <2>1. \A p \in 0..1, u \in Threads : deque'[p][u] = << >>
    BY <1>4
  <2>2. \A p \in 0..1, u \in Threads : Len(deque'[p][u]) = 0
    BY <2>1
  <2>3. \A p \in 0..1, u \in Threads : 1 .. Len(deque'[p][u]) = {}
    BY <2>2
  <2> QED
    BY <1>5, <2>3 DEF Left
<1> QED
  BY <1>4, <1>6, <1>7, <1>8, <1>9

LEMMA HowMany == ASSUME Types PROVE Cardinality(Members) = nproc /\ IsFiniteSet(Members)
<1>1. nproc \in Nat /\ nproc > 0
  BY Basics
<1>2. 0 \in Int /\ nproc - 1 \in Int /\ 0 <= nproc - 1
  BY <1>1
<1> QED
  BY <1>1, <1>2, FS_Interval DEF Members

\* A task team that is ready and not in use counts all the members.
LEMMA AllDue ==
  ASSUME Types, \A t \in Threads : ~On(t), Ready(Cur), Idle(Cur), Shut(Cur)
  PROVE  Counted
<1>1. task_team[Cur].unfinished = nproc
  BY DEF Ready, Idle
<1>2. Due = Members
  BY Sorts DEF Due, Finished
<1>3. Thieves = {}
  BY DEF Thieves, Shut
<1>4. Cardinality({}) = 0 /\ nproc \in Nat
  BY FS_EmptySet, Basics
<1> QED
  BY <1>1, <1>2, <1>3, <1>4, HowMany DEF Counted

LEMMA AllDueNext ==
  (Types /\ (\A t \in Threads : ~On(t)) /\ Ready(Cur) /\ Idle(Cur) /\ Shut(Cur) => Counted)'
<1>1. Types /\ (\A t \in Threads : ~On(t)) /\ Ready(Cur) /\ Idle(Cur) /\ Shut(Cur) => Counted
  BY AllDue
<1> QED
  BY <1>1, PTL

\* The master is past a barrier: all have come to it, and the task team they were on
\* has no task and is not in use any more.
LEMMA PassKeeps ==
  ASSUME IInv, Types', NEW in_use, Pass(in_use), InBarrier,
         \A t \in Members \ {0} : k[t] = Past + 1,
         UNCHANGED <<team, tasks, th_task_state, k, local_team, current>>,
         task_team'[Other] = task_team[Other], task_team'[Cur].alloc = task_team[Cur].alloc,
         Shut(Cur), ~task_team'[Cur].active \/ (task_team'[Cur] = task_team[Cur] /\ Idle(Cur)),
         local_team[0] = None, \A t \in Workers : thread_finished'[t] = thread_finished[t],
         pc[0] \notin Executing, ~gathered', arrived' = {}
  PROVE  IInv'
<1> DEFINE join == k[0] = JoinStep
<1>1. Types /\ Places /\ OwnTeams /\ Teams
  BY DEF IInv
<1>2. /\ Workers = Threads \ {0} /\ 0 \in Threads /\ None \notin 0..1 /\ 0 \in Members
      /\ Cur \in 0..1 /\ Other \in 0..1 /\ Cur # Other /\ Members \subseteq Threads
      /\ (0..1) = {Cur, Other} /\ None \notin Threads /\ Members = 0 .. nproc-1
      /\ pc = [u \in Threads |-> pc[u]]
      /\ th_task_team = [u \in Threads |-> th_task_team[u]]
      /\ k[0] \in Nat /\ JoinStep \in Nat /\ th_task_state[0] \in 0..1
      /\ Members \ {0} = 1 .. nproc-1
  BY <1>1, Sorts, Basics DEF Members, Types, TypeOK
<1>3. /\ pc' = IF join THEN [pc EXCEPT ![0] = "serial"] ELSE Released(nproc)
      /\ go' = IF join THEN go ELSE [t \in Threads |-> t \in Workers \cap Members]
      /\ th_task_team' = IF join \/ in_use THEN [th_task_team EXCEPT ![0] = None]
                         ELSE th_task_team
  BY DEF Pass
<1>4. /\ pc'[0] = IF join THEN "serial" ELSE "release"
      /\ \A u \in Workers : pc'[u] = pc[u] \/ (pc[u] = "asleep" /\ pc'[u] = "wait")
      /\ \A u \in Workers : th_task_team'[u] = th_task_team[u]
  BY <1>2, <1>3 DEF Released
<1>5. \A u \in Workers : pc'[u] \in Waits <=> pc[u] \in Waits
  BY <1>4 DEF Waits, Executing
<1>6. /\ ~InBarrier' /\ Past = k[0] - 1 /\ Past' = k[0] /\ Past + 1 = k[0] /\ JoinStep' = JoinStep
      /\ Members' = Members /\ nproc' = nproc /\ region' = region /\ k' = k
      /\ hot_team_nth' = hot_team_nth
  BY <1>2, <1>4 DEF InBarrier, Past, JoinStep, Members, team
<1>7. Cur' = Other /\ Other' = Cur
  BY <1>2, <1>4 DEF Cur, Other, InBarrier
<1>8. pc[0] # "serial" /\ region > 0 /\ k[0] > 0 /\ nproc > 1 /\ k[0] <= JoinStep
  BY <1>1 DEF InBarrier, Places
<1>9. ASSUME NEW t \in Members \ {0}
      PROVE  On(t) /\ Behind(t)' /\ pc[t] # "work"
  <2>1. t \in Workers /\ k[t] = k[0] /\ k[t] # Past
    BY <1>2, <1>6
  <2>2. On(t)
    BY <1>1, <2>1 DEF Places, Behind
  <2>3. pc[t] \in Waits /\ pc[t] # "work"
    BY <1>2, <2>1, <2>2 DEF On, Waits, Executing
  <2> QED
    BY <1>5, <1>6, <2>1, <2>2, <2>3 DEF Behind
<1>10. \A t \in Threads : ~On(t)'
  <2>1. ~On(0)'
    BY <1>4 DEF On
  <2>2. ASSUME NEW t \in Threads, t # 0 PROVE ~On(t)'
    <3>1. CASE t \in Members
      <4>1. k'[t] = Past' /\ k'[t] # Past' + 1 /\ pc'[t] \in Waits /\ pc'[t] # "work"
        <5>1. Behind(t)'
          BY <1>9, <2>2, <3>1
        <5>2. k'[t] = Past' /\ pc'[t] \in Waits
          BY <5>1 DEF Behind
        <5>3. Past' # Past' + 1
          BY <1>2, <1>6
        <5> QED
          BY <5>2, <5>3 DEF Waits, Executing
      <4> QED
        BY <2>2, <4>1 DEF On
    <3>2. CASE t \notin Members
      BY <1>6, <3>2 DEF On
    <3> QED
      BY <3>1, <3>2
  <2> QED
    BY <2>1, <2>2
<1>11. Places'
  <2>1. /\ k'[0] <= JoinStep' /\ (pc'[0] \in {"work", "release"} => k'[0] < JoinStep')
        /\ InBarrier' => k'[0] > 0
        /\ pc'[0] \in {"serial", "work", "release", "gather", "task_wait"} \cup Executing
        /\ pc'[0] # "serial" => nproc' > 1 /\ region' > 0
        /\ pc'[0] = "gather" => ~gathered'
        /\ pc'[0] = "task_wait" => gathered'
        /\ gathered' => InBarrier'
    BY <1>2, <1>4, <1>6, <1>8
  <2>2. /\ \A t \in Members' \ {0} : On(t)' \/ Behind(t)'
        /\ \A t \in Threads \ Members' : pc'[t] \in Waits
    BY <1>1, <1>2, <1>5, <1>6, <1>9 DEF Places
  <2>3. \A t \in Threads : go'[t] <=> t \in Members' \ {0} /\ Behind(t)' /\ pc'[0] # "serial"
    <3>1. CASE join
      <4>1. \A t \in Threads : ~go[t]
        <5>1. \A t \in Members \ {0} : ~Behind(t)
          BY <1>2, <1>6 DEF Behind
        <5> QED
          BY <1>1, <5>1 DEF Places
      <4> QED
        BY <1>3, <1>4, <3>1, <4>1
    <3>2. CASE ~join
      <4>1. \A t \in Threads : go'[t] <=> t \in Members \ {0}
        BY <1>2, <1>3, <3>2
      <4> QED
        BY <1>4, <1>6, <1>9, <3>2, <4>1
    <3> QED
      BY <3>1, <3>2
  <2>4. arrived' = {t \in Members' \ {0} : k'[t] = Past' + 1}
    BY <1>2, <1>6
  <2> QED
    BY <2>1, <2>2, <2>3, <2>4 DEF Places
<1>12. OwnTeams'
  <2>1. ASSUME NEW t \in Threads PROVE OwnTeam(t)'
    <3>1. OwnTeam(t)
      BY <1>1 DEF OwnTeams
    <3>2. CASE t = 0
      <4>1. On(0)
        BY <1>2, <1>8 DEF On, InBarrier
      <4>2. th_task_state[0] = Cur
        BY <3>1, <3>2, <4>1 DEF OwnTeam
      <4>3. local_team'[0] = None /\ pc'[0] \notin Executing /\ pc'[0] \notin {"stealing", "run"}
        BY <1>4 DEF Executing
      <4> QED
        BY <1>2, <1>6, <1>7, <1>10, <3>2, <4>2, <4>3 DEF OwnTeam
    <3>3. CASE t # 0
      <4>1. /\ pc'[t] \in Executing <=> pc[t] \in Executing
            /\ pc'[t] \in {"stealing", "run"} <=> pc[t] \in {"stealing", "run"}
            /\ pc'[t] \in {"gather", "task_wait"} <=> pc[t] \in {"gather", "task_wait"}
            /\ th_task_team'[t] = th_task_team[t] /\ thread_finished'[t] = thread_finished[t]
        BY <1>2, <1>4, <3>3 DEF Executing
      <4>2. CASE t \in Members
        <5>1. On(t)
          BY <1>9, <3>3, <4>2
        <5>2. th_task_state[t] = Cur /\ th_task_team[t] = Cur /\ local_team[t] \in {None, Cur}
          BY <3>1, <5>1 DEF OwnTeam
        <5> QED
          BY <1>2, <1>6, <1>7, <1>10, <3>1, <3>3, <4>1, <4>2, <5>2 DEF OwnTeam
      <4>3. CASE t \notin Members
        <5>1. th_task_team[t] = None
          BY <3>1, <4>3 DEF OwnTeam
        <5> QED
          BY <1>2, <1>6, <1>7, <1>10, <3>1, <3>3, <4>1, <4>3, <5>1 DEF OwnTeam
      <4> QED
        BY <4>2, <4>3
    <3> QED
      BY <3>2, <3>3
  <2> QED
    BY <1>1, <1>4, <1>6, <2>1 DEF OwnTeams
<1>13. /\ Shut(Cur)' /\ Shut(Other)' /\ Idle(Cur)' /\ Idle(Other)'
       /\ ~join => Ready(Cur)'
  <2>1. Shut(Other) /\ Idle(Other) /\ (~join => Ready(Other))
    BY <1>1 DEF Teams
  <2>2. deque' = deque /\ local_team' = local_team
    BY DEF tasks
  <2>3. Shut(Cur)' /\ Shut(Other)'
    <3>1. \A u \in Threads : u # 0 => thread_finished'[u] = thread_finished[u]
      BY <1>2
    <3> QED
      BY <1>2, <1>7, <2>1, <2>2, <3>1 DEF Shut
  <2>4. Idle(Cur)' /\ Idle(Other)' /\ (~join => Ready(Cur)')
    BY <1>6, <1>7, <2>1 DEF Idle, Ready
  <2> QED
    BY <2>3, <2>4
<1>14. Teams'
  <2>1. task_team'[0].alloc /\ task_team'[1].alloc
    <3>1. \A p \in {Cur, Other} : task_team'[p].alloc = task_team[p].alloc
      OBVIOUS
    <3> QED
      BY <1>1, <1>2, <1>8, <3>1 DEF Teams
  <2>2. \A t \in Members' : ~Finished(t)'
    BY <1>2, <1>6, <1>10 DEF Finished
  <2> QED
    BY <1>4, <1>6, <1>13, <2>1, <2>2 DEF Teams
<1>15. Counted'
  <2>1. CASE join
    BY <1>4, <2>1 DEF Counted
  <2>2. CASE ~join
    BY <1>10, <1>13, <2>2, AllDueNext
  <2> QED
    BY <2>1, <2>2
<1>16. Queues' /\ Locks' /\ Children' /\ Left'
  <2>1. \A u \in Threads : pc'[u] # pc[u] => pc[u] \notin Executing /\ pc'[u] \notin Executing
    BY <1>2, <1>4 DEF Executing
  <2> QED
    BY <1>7, <2>1, Emptied DEF tasks
<1> QED
  BY <1>11, <1>12, <1>14, <1>15, <1>16 DEF IInv

LEMMA GatheredPassKeeps ==
  ASSUME IInv, Types', Gathered, ~task_team[th_task_state[0]].found PROVE IInv'
<1>1. Types /\ Places /\ OwnTeams /\ Teams /\ Counted
  BY DEF IInv
<1>2. /\ Workers = Threads \ {0} /\ 0 \in Threads /\ None \notin 0..1 /\ 0 \in Members
      /\ Cur \in 0..1 /\ Other \in 0..1 /\ Cur # Other /\ Members \subseteq Threads
  BY <1>1, Sorts, Basics
<1>3. /\ pc[0] = "gather" /\ arrived = Members \ {0} /\ arrived' = {}
      /\ Pass(FALSE) /\ gathered' = gathered
      /\ thread_finished' = [thread_finished EXCEPT ![0] = FALSE]
      /\ UNCHANGED <<team, task_team, tasks, th_task_state, k, local_team, current>>
  BY DEF Gathered
<1>4. InBarrier /\ ~gathered /\ ~thread_finished[0] /\ Cur = th_task_state[0]
  BY <1>1, <1>2, <1>3 DEF InBarrier, Places, OwnTeams, Cur
<1>5. \A t \in Members \ {0} : k[t] = Past + 1
  BY <1>1, <1>3, <1>4 DEF Places
<1>6. ~task_team[Cur].found /\ Shut(Cur) /\ \A t \in Members : ~Finished(t)
  BY <1>1, <1>4 DEF Teams
<1>7. Idle(Cur)
  <2>1. Due = Members /\ Thieves = {}
    BY <1>6 DEF Due, Thieves, Shut
  <2>2. Cardinality({}) = 0 /\ nproc \in Nat
    BY <1>1, FS_EmptySet, Basics
  <2>3. task_team[Cur].unfinished = nproc
    BY <1>1, <1>3, <2>1, <2>2, HowMany DEF Counted
  <2> QED
    BY <1>1, <1>3, <1>6, <2>3 DEF Idle, Teams, Ready
<1>8. local_team[0] = None
  <2>1. On(0)
    BY <1>2, <1>3 DEF On
  <2> QED
    BY <1>1, <1>2, <1>4, <1>6, <2>1 DEF OwnTeams, OwnTeam, Shut
<1>9. \A t \in Workers : thread_finished'[t] = thread_finished[t]
  BY <1>1, <1>2, <1>3 DEF Types, TypeOK
<1>10. pc[0] \notin Executing
  BY <1>3 DEF Executing
<1> QED
  BY <1>3, <1>4, <1>5, <1>6, <1>7, <1>8, <1>9, <1>10, PassKeeps

\* No thread is unfinished, so none has a task.
LEMMA TasksCompletedKeeps == ASSUME IInv, Types', TasksCompleted PROVE IInv'
<1>1. Types /\ Places /\ OwnTeams /\ Teams /\ Counted /\ Queues
  BY DEF IInv
<1>2. /\ Workers = Threads \ {0} /\ 0 \in Threads /\ None \notin 0..1 /\ 0 \in Members
      /\ Cur \in 0..1 /\ Other \in 0..1 /\ Cur # Other /\ Members \subseteq Threads
  BY <1>1, Sorts, Basics
<1>3. /\ pc[0] = "task_wait" /\ task_team[th_task_state[0]].unfinished = 0
      /\ task_team' = [task_team EXCEPT ![th_task_state[0]].active = FALSE]
      /\ ~gathered' /\ Pass(TRUE)
      /\ UNCHANGED <<team, tasks, th_task_state, k, arrived, locals>>
  BY DEF TasksCompleted
<1>4. InBarrier /\ gathered /\ Cur = th_task_state[0]
  BY <1>1, <1>3 DEF InBarrier, Places, Cur
<1>5. (\A t \in Members \ {0} : k[t] = Past + 1) /\ arrived = {}
  BY <1>1, <1>4 DEF Places
<1>6. Due = {} /\ Thieves = {}
  <2>1. Cardinality(Due) + Cardinality(Thieves) = 0
    BY <1>1, <1>3, <1>4 DEF Counted
  <2>2. Cardinality(Due) \in Nat /\ Cardinality(Thieves) \in Nat
    BY <1>1, Finite
  <2>3. Cardinality(Due) = 0 /\ Cardinality(Thieves) = 0
    BY <2>1, <2>2
  <2> QED
    BY <1>1, <2>3, Finite
<1>7. \A t \in Members : Finished(t)
  BY <1>6 DEF Due
<1>8. Shut(Cur)
  <2>1. ASSUME NEW t \in Threads PROVE deque[Cur][t] = << >>
    <3>1. deque[Cur][t] # << >> => On(t) /\ (pc[t] # "work" => ~thread_finished[t])
      BY <1>1 DEF Queues
    <3>2. On(t) => pc[t] # "work" /\ thread_finished[t]
      BY <1>7 DEF Finished, On
    <3> QED
      BY <3>1, <3>2
  <2>2. ASSUME NEW t \in Threads, local_team[t] = Cur PROVE thread_finished[t]
    BY <1>6, <1>7, <2>2 DEF Thieves, Finished, On
  <2> QED
    BY <2>1, <2>2 DEF Shut
<1>9. local_team[0] = None
  <2>1. thread_finished[0]
    BY <1>2, <1>7 DEF Finished
  <2> QED
    BY <1>1, <1>3, <2>1 DEF OwnTeams
<1>10. /\ task_team'[Other] = task_team[Other] /\ task_team'[Cur].alloc = task_team[Cur].alloc
       /\ ~task_team'[Cur].active
  <2>1. /\ task_team'[Cur] = [task_team[Cur] EXCEPT !.active = FALSE]
        /\ task_team'[Other] = task_team[Other]
        /\ task_team[Cur] \in [alloc : BOOLEAN, nproc : 0 .. N, unfinished : Nat,
                               active : BOOLEAN, found : BOOLEAN]
    BY <1>1, <1>2, <1>3, <1>4 DEF Types, TypeOK
  <2> QED
    BY <2>1
<1>11. pc[0] \notin Executing /\ arrived' = {}
  BY <1>3, <1>5 DEF Executing
<1>12. UNCHANGED <<team, tasks, th_task_state, k, local_team, current, thread_finished>>
  BY <1>3 DEF locals
<1> QED
  BY <1>3, <1>4, <1>5, <1>8, <1>9, <1>10, <1>11, <1>12, PassKeeps

\* A region is forked for n threads: those that come to the team, or stay, are let go.
LEMMA ForkKeeps ==
  ASSUME IInv, Types', HotTeamsMode = 0, NEW n \in Sizes, NEW b \in Bodies, Fork(n, b)
  PROVE  IInv'
<1>1. Types /\ Places /\ OwnTeams /\ Teams
  BY DEF IInv
<1>2. /\ Workers = Threads \ {0} /\ 0 \in Threads /\ None \notin 0..1 /\ 0 \in Members
      /\ Cur \in 0..1 /\ Other \in 0..1 /\ Cur # Other /\ Members \subseteq Threads
      /\ (0..1) = {Cur, Other} /\ None \notin Threads /\ Members = 0 .. nproc-1
      /\ pc = [u \in Threads |-> pc[u]]
      /\ nproc \in 1 .. N /\ region \in Nat /\ Past \in Int
  BY <1>1, Sorts, Basics DEF Members
<1>3. n \in 2 .. N /\ b \in Nat /\ N \in Nat
  BY TaskTeamAssumption
<1>4. /\ pc[0] = "serial" /\ region' = region + 1 /\ body' = b
      /\ nproc' = n /\ hot_team_nth' = n
      /\ th_task_team' = [t \in Threads |-> IF t \in n .. nproc-1 THEN None ELSE th_task_team[t]]
      /\ th_task_state' = [t \in Threads |-> IF t \in n .. nproc-1 THEN 0
                                             ELSE IF t \in hot_team_nth .. n-1 THEN th_task_state[0]
                                             ELSE th_task_state[t]]
      /\ task_team' = Setup(th_task_state[0], n)
      /\ go' = [t \in Threads |-> t \in 1 .. n-1]
      /\ k' = [t \in Threads |-> IF t < n THEN 0 ELSE k[t]]
      /\ pc' = Released(n)
      /\ UNCHANGED <<tasks, arrived, gathered, locals>>
  BY DEF Fork, Resize
<1>5. /\ pc'[0] = "release"
      /\ \A u \in Workers : pc'[u] = pc[u] \/ (pc[u] = "asleep" /\ pc'[u] = "wait")
  BY <1>2, <1>4 DEF Released
<1>6. \A u \in Workers : pc'[u] \in Waits <=> pc[u] \in Waits
  BY <1>5 DEF Waits, Executing
<1>7. /\ Members' = 0 .. n-1 /\ JoinStep' = b + 1 /\ k'[0] = 0 /\ Past' = 0 /\ ~InBarrier'
      /\ \A u \in Members' : k'[u] = 0 /\ u \in Threads
  BY <1>2, <1>3, <1>4, <1>5 DEF Members, JoinStep, InBarrier, Past, Threads
<1>8. th_task_state'[0] = th_task_state[0] /\ Cur' = Cur /\ Other' = Other /\ Other = th_task_state[0]
  <2>1. th_task_state'[0] = th_task_state[0] /\ th_task_state[0] \in 0..1
    BY <1>1, <1>2, <1>3, <1>4 DEF Types, TypeOK
  <2> QED
    BY <1>4, <1>5, <2>1 DEF Cur, Other
<1>9. \A t \in Threads : ~On(t) /\ ~On(t)'
  <2>1. \A t \in Threads : ~On(t)
    BY <1>4 DEF On
  <2>2. ~On(0)'
    BY <1>5 DEF On
  <2>3. ASSUME NEW t \in Workers PROVE ~On(t)'
    <3>1. pc[t] \in Waits
      BY <1>1, <1>2, <2>1 DEF Places, Behind
    <3>2. pc'[t] # "work"
      BY <1>6, <3>1 DEF Waits, Executing
    <3>3. t \in Members' => k'[t] # Past' + 1
      BY <1>7
    <3> QED
      BY <1>2, <3>2, <3>3 DEF On
  <2> QED
    BY <1>2, <2>1, <2>2, <2>3
<1>10. ~gathered /\ arrived = {}
  <2>1. ~gathered
    BY <1>1, <1>4 DEF Places, InBarrier
  <2>2. ASSUME NEW t \in Members \ {0} PROVE k[t] # Past + 1
    <3>1. ~On(t)
      BY <1>2, <1>9
    <3>2. k[t] = Past
      BY <1>1, <3>1 DEF Places, Behind
    <3> QED
      BY <1>2, <3>2
  <2> QED
    BY <1>1, <2>1, <2>2 DEF Places
<1>11. Places'
  <2>1. /\ k'[0] <= JoinStep' /\ (pc'[0] \in {"work", "release"} => k'[0] < JoinStep')
        /\ InBarrier' => k'[0] > 0
        /\ pc'[0] \in {"serial", "work", "release", "gather", "task_wait"} \cup Executing
        /\ pc'[0] # "serial" => nproc' > 1 /\ region' > 0
        /\ pc'[0] = "gather" => ~gathered'
        /\ pc'[0] = "task_wait" => gathered'
        /\ gathered' => InBarrier'
    BY <1>2, <1>3, <1>4, <1>5, <1>7, <1>10
  <2>2. \A t \in Workers : pc'[t] \in Waits
    BY <1>1, <1>2, <1>6, <1>9 DEF Places, Behind
  <2>3. \A t \in Members' \ {0} : Behind(t)'
    BY <1>2, <1>7, <2>2 DEF Behind
  <2>4. /\ \A t \in Members' \ {0} : On(t)' \/ Behind(t)'
        /\ \A t \in Threads \ Members' : pc'[t] \in Waits
    BY <1>2, <1>3, <1>7, <2>2, <2>3
  <2>5. \A t \in Threads : go'[t] <=> t \in Members' \ {0} /\ Behind(t)' /\ pc'[0] # "serial"
    <3>1. Members' \ {0} = 1 .. n-1
      BY <1>3, <1>7
    <3> QED
      BY <1>4, <1>5, <2>3, <3>1
  <2>6. arrived' = {t \in Members' \ {0} : k'[t] = Past' + 1} /\ ~gathered'
    <3>1. arrived' = {} /\ ~gathered'
      BY <1>4, <1>10
    <3>2. \A t \in Members' : k'[t] # Past' + 1
      BY <1>7
    <3> QED
      BY <3>1, <3>2
  <2> QED
    BY <2>1, <2>4, <2>5, <2>6 DEF Places
<1>12. OwnTeams'
  <2>1. ASSUME NEW t \in Threads PROVE OwnTeam(t)'
    <3>1. OwnTeam(t) /\ OwnTeam(0) /\ hot_team_nth = nproc
      BY <1>1, <1>2 DEF OwnTeams
    <3>2. t \in Members' => th_task_state'[t] = Other
      <4>1. CASE t \in Members
        BY <1>2, <1>3, <1>4, <1>7, <1>9, <3>1, <4>1 DEF OwnTeam
      <4>2. CASE t \notin Members
        BY <1>2, <1>3, <1>4, <1>7, <1>8, <3>1, <4>2 DEF Threads
      <4> QED
        BY <4>1, <4>2
    <3>3. /\ t # 0 => /\ th_task_team'[t] \in {None, Other}
                      /\ local_team[t] = Cur => th_task_team'[t] = None
          /\ t \notin Members' => th_task_team'[t] = None
      <4>1. /\ th_task_team'[t] = th_task_team[t] \/ th_task_team'[t] = None
            /\ t \in Members /\ t \notin Members' => th_task_team'[t] = None
        BY <1>2, <1>3, <1>4, <1>7
      <4> QED
        BY <1>9, <3>1, <4>1 DEF OwnTeam
    <3>4. local_team' = local_team /\ thread_finished' = thread_finished
      BY <1>4 DEF locals
    <3>5. /\ pc'[t] \in Executing <=> pc[t] \in Executing
          /\ pc'[t] \in {"stealing", "run"} <=> pc[t] \in {"stealing", "run"}
          /\ pc'[t] \notin {"gather", "task_wait"}
          /\ pc[t] \notin {"gather", "task_wait"}
      <4>1. CASE t = 0
        BY <1>4, <1>5, <4>1 DEF Executing
      <4>2. CASE t # 0
        <5>1. pc[t] \in Waits
          BY <1>1, <1>2, <1>9, <4>2 DEF Places, Behind
        <5> QED
          BY <1>2, <1>5, <4>2, <5>1 DEF Executing, Waits
      <4> QED
        BY <4>1, <4>2
    <3> QED
      BY <1>8, <1>9, <3>1, <3>2, <3>3, <3>4, <3>5 DEF OwnTeam
  <2> QED
    BY <1>4, <1>5, <1>7, <2>1 DEF OwnTeams
<1>13. Shut(Cur) /\ Shut(Other) /\ Shut(Cur)' /\ Shut(Other)'
  BY <1>1, <1>4, <1>8 DEF Teams, Shut, tasks, locals
<1>14. /\ task_team'[0].alloc /\ task_team'[1].alloc
       /\ Ready(Cur)' /\ Idle(Cur)' /\ Idle(Other)'
  <2>1. Idle(Cur) /\ Idle(Other)
    BY <1>1, <1>4 DEF Teams
  <2>2. /\ Fresh(n).alloc = TRUE /\ Fresh(n).active = TRUE /\ Fresh(n).found = FALSE
        /\ Fresh(n).nproc = n /\ Fresh(n).unfinished = n
    BY DEF Fresh
  <2>3. \A p \in 0..1 : task_team'[p] = Fresh(n) \/ (task_team'[p] = task_team[p] /\ task_team[p].alloc)
    BY <1>4 DEF Setup
  <2>4. task_team'[Cur] = Fresh(n)
        \/ (task_team'[Cur] = task_team[Cur] /\ task_team[Cur].active /\ n = task_team[Cur].nproc)
    BY <1>2, <1>4, <1>8 DEF Setup
  <2> HIDE DEF Fresh
  <2>5. task_team'[0].alloc /\ task_team'[1].alloc
    BY <2>2, <2>3
  <2>6. Ready(Cur)'
    BY <1>4, <1>8, <2>2, <2>4 DEF Ready
  <2>7. Idle(Cur)'
    BY <1>8, <2>1, <2>2, <2>4 DEF Idle
  <2>8. Idle(Other)'
    <3>1. task_team'[Other] = Fresh(n) \/ task_team'[Other] = task_team[Other]
      BY <1>2, <2>3
    <3> QED
      BY <1>8, <2>1, <2>2, <3>1 DEF Idle
  <2> QED
    BY <2>5, <2>6, <2>7, <2>8
<1>15. Teams'
  <2>1. \A t \in Members' : ~Finished(t)'
    BY <1>7, <1>9 DEF Finished
  <2> QED
    BY <1>5, <1>7, <1>13, <1>14, <2>1 DEF Teams
<1>16. Counted'
  BY <1>9, <1>13, <1>14, AllDueNext
<1>17. Queues' /\ Locks' /\ Children' /\ Left'
  <2>1. \A u \in Threads : pc'[u] # pc[u] => pc[u] \notin Executing /\ pc'[u] \notin Executing
    BY <1>2, <1>4, <1>5 DEF Executing
  <2> QED
    BY <1>4, <1>8, <1>13, <2>1, Emptied DEF tasks, locals
<1> QED
  BY <1>11, <1>12, <1>15, <1>16, <1>17 DEF IInv
-----------------------------------------------------------------------------
(* Types, and the theorems. *)

TeamRecords == [alloc : BOOLEAN, nproc : 0 .. N, unfinished : Nat, active : BOOLEAN, found : BOOLEAN]
Labels == {"serial", "work", "release", "gather", "task_wait", "wait",
           "drowsy", "asleep", "own", "steal", "stealing", "run", "none"}
TeamTypes == /\ region \in 0 .. MaxRegions /\ body \in Bodies \cup {0}
             /\ nproc \in {1} \cup Sizes /\ hot_team_nth \in 1 .. N
             /\ task_team \in [0..1 -> TeamRecords]
ThreadTypes == /\ th_task_state \in [Threads -> 0..1]
               /\ th_task_team \in [Threads -> {None, 0, 1}]
               /\ k \in [Threads -> Nat]
               /\ arrived \subseteq Workers /\ go \in [Threads -> BOOLEAN] /\ gathered \in BOOLEAN
               /\ pc \in [Threads -> Labels]
               /\ local_team \in [Threads -> {None, 0, 1}]
               /\ thread_finished \in [Threads -> BOOLEAN]
TaskTypes == /\ deque \in Deques /\ stealing \in [0..1 -> [Threads -> Threads \cup {None}]]
             /\ incomplete \in [Threads -> Nat] /\ current \in [Threads -> Tasks]
             /\ spawned \in 0 .. MaxTasks
             /\ \A p \in 0..1, t \in Threads : Len(deque[p][t]) <= spawned

LEMMA TypesSplit == Types <=> TeamTypes /\ ThreadTypes /\ TaskTypes
<1>1. Types => TeamTypes
  BY DEF Types, TypeOK, TeamTypes, TeamRecords
<1>2. Types => ThreadTypes
  BY DEF Types, TypeOK, ThreadTypes, Labels
<1>3. Types => TaskTypes
  BY DEF Types, TypeOK, TaskTypes, Deques
<1>4. ASSUME TeamTypes, ThreadTypes, TaskTypes PROVE Types
  <2>1. /\ deque \in [0..1 -> [Threads -> Seq(Tasks)]]
        /\ stealing \in [0..1 -> [Threads -> Threads \cup {None}]]
        /\ k \in [Threads -> Nat] /\ current \in [Threads -> Tasks]
        /\ \A p \in 0..1, t \in Threads : Len(deque[p][t]) <= spawned
    BY <1>4 DEF ThreadTypes, TaskTypes, Deques
  <2>2. \A p \in 0..1, t \in Threads : /\ Len(deque[p][t]) <= MaxTasks
                                       /\ stealing[p][t] \in Threads \cup {None}
    <3> SUFFICES ASSUME NEW p \in 0..1, NEW t \in Threads
                 PROVE  /\ Len(deque[p][t]) <= MaxTasks
                        /\ stealing[p][t] \in Threads \cup {None}
      OBVIOUS
    <3>1. deque[p][t] \in Seq(Tasks) /\ Len(deque[p][t]) <= spawned
      BY <2>1
    <3>2. Len(deque[p][t]) \in Nat /\ spawned \in 0 .. MaxTasks /\ MaxTasks \in Nat
      BY <1>4, <3>1, TaskTeamAssumption DEF TaskTypes
    <3> QED
      BY <2>1, <3>1, <3>2
  <2>3. \A t \in Threads : k[t] \in Nat
    BY <2>1
  <2>4. /\ region \in 0 .. MaxRegions /\ body \in Bodies \cup {0}
        /\ nproc \in {1} \cup Sizes /\ hot_team_nth \in 1 .. N
        /\ task_team \in [0..1 -> [alloc : BOOLEAN, nproc : 0 .. N, unfinished : Nat,
                                   active : BOOLEAN, found : BOOLEAN]]
        /\ incomplete \in [Threads -> Nat] /\ spawned \in 0 .. MaxTasks
    BY <1>4 DEF TeamTypes, TaskTypes, TeamRecords
  <2>5. /\ th_task_state \in [Threads -> 0..1]
        /\ th_task_team \in [Threads -> {None, 0, 1}]
        /\ arrived \subseteq Workers /\ go \in [Threads -> BOOLEAN] /\ gathered \in BOOLEAN
        /\ pc \in [Threads -> {"serial", "work", "release", "gather", "task_wait", "wait",
                               "drowsy", "asleep", "own", "steal", "stealing", "run", "none"}]
        /\ local_team \in [Threads -> {None, 0, 1}]
        /\ thread_finished \in [Threads -> BOOLEAN]
    BY <1>4 DEF ThreadTypes, Labels
  <2>6. TypeOK
    BY <2>2, <2>3, <2>4, <2>5 DEF TypeOK
  <2> QED
    BY <2>1, <2>6 DEF Types
<1> QED
  BY <1>1, <1>2, <1>3, <1>4

LEMMA TypesSplitNext == (TeamTypes /\ ThreadTypes /\ TaskTypes => Types)'
<1>1. TeamTypes /\ ThreadTypes /\ TaskTypes => Types
  BY TypesSplit
<1> QED
  BY <1>1, PTL

\* Starting a task team afresh.
LEMMA SetupTypes ==
  ASSUME TeamTypes, NEW s, NEW n \in 0 .. N
  PROVE  Setup(s, n) \in [0..1 -> TeamRecords]
<1>1. Fresh(n) \in TeamRecords
  BY TaskTeamAssumption DEF Fresh, TeamRecords
<1> QED
  BY <1>1 DEF Setup, TeamTypes

LEMMA PassTypes ==
  ASSUME ThreadTypes, NEW in_use, Pass(in_use)
  PROVE  pc' \in [Threads -> Labels] /\ go' \in [Threads -> BOOLEAN]
         /\ th_task_team' \in [Threads -> {None, 0, 1}]
<1>1. Released(nproc) \in [Threads -> Labels]
  BY DEF Released, ThreadTypes, Labels
<1>2. pc' \in [Threads -> Labels]
  BY <1>1 DEF Pass, ThreadTypes, Labels
<1>3. go' \in [Threads -> BOOLEAN]
  BY DEF Pass, ThreadTypes
<1>4. th_task_team' \in [Threads -> {None, 0, 1}]
  BY DEF Pass, ThreadTypes
<1> QED
  BY <1>2, <1>3, <1>4

\* A thread that is not finished, and on the task team of the barrier, is counted.
LEMMA Counts ==
  ASSUME IInv, NEW t \in Threads, pc[t] \in Executing, ~thread_finished[t]
  PROVE  local_team[t] = Cur /\ task_team[Cur].unfinished \in Nat \ {0}
<1>1. Types /\ Counted
  BY DEF IInv
<1>2. local_team[t] = Cur /\ pc[0] # "serial"
  BY Executes
<1>3. t \in Due \/ t \in Thieves
  BY <1>2 DEF Due, Thieves, Finished, On
<1>4. Cardinality(Due) + Cardinality(Thieves) \in Nat \ {0}
  <2>1. Due # {} \/ Thieves # {}
    BY <1>3
  <2> QED
    BY <1>1, <2>1, Finite
<1> QED
  BY <1>1, <1>2, <1>4 DEF Counted

LEMMA StepTypes ==
  ASSUME IInv, HotTeamsMode = 0, [Next]_vars
  PROVE  Types'
<1>1. TeamTypes /\ ThreadTypes /\ TaskTypes /\ Types
  BY TypesSplit DEF IInv
<1>2. /\ 0 \in Threads /\ N \in Nat /\ N > 1 /\ nproc \in 0 .. N /\ MaxTasks \in Nat
      /\ Sizes \subseteq 2 .. N /\ Bodies \subseteq Nat /\ MaxRegions \in Nat
  BY <1>1, Basics, TaskTeamAssumption
<1>3. ASSUME NEW n \in Sizes, NEW b \in Bodies, Fork(n, b)
      PROVE  Types'
  <2>1. TeamTypes'
    <3>1. Setup(th_task_state[0], n) \in [0..1 -> TeamRecords]
      BY <1>1, <1>2, SetupTypes
    <3>2. region' \in 0 .. MaxRegions /\ body' \in Bodies \cup {0} /\ nproc' \in {1} \cup Sizes
      BY <1>1, <1>2, <1>3 DEF Fork, Resize, TeamTypes
    <3>3. hot_team_nth' \in 1 .. N
      BY <1>2, <1>3 DEF Fork, Resize
    <3> QED
      BY <1>3, <3>1, <3>2, <3>3 DEF Fork, TeamTypes
  <2>2. ThreadTypes'
    <3>1. Released(n) \in [Threads -> Labels]
      BY <1>1 DEF Released, ThreadTypes, Labels
    <3>2. th_task_state' \in [Threads -> 0..1] /\ th_task_team' \in [Threads -> {None, 0, 1}]
      BY <1>1, <1>2, <1>3 DEF Fork, Resize, ThreadTypes
    <3>3. go' \in [Threads -> BOOLEAN] /\ k' \in [Threads -> Nat]
      BY <1>1, <1>3 DEF Fork, ThreadTypes
    <3> QED
      BY <1>1, <1>3, <3>1, <3>2, <3>3 DEF Fork, ThreadTypes, locals
  <2>3. TaskTypes'
    BY <1>1, <1>3 DEF Fork, TaskTypes, tasks, locals
  <2> QED
    BY <2>1, <2>2, <2>3, TypesSplitNext
<1>4. ASSUME NEW t \in Threads, Arrive(t)
      PROVE  Types'
  <2>1. TeamTypes'
    <3>1. Setup(th_task_state[0], nproc) \in [0..1 -> TeamRecords]
      BY <1>1, <1>2, SetupTypes
    <3> QED
      BY <1>1, <1>4, <3>1 DEF Arrive, TeamTypes, team
  <2>2. ThreadTypes'
    <3>1. k' \in [Threads -> Nat] /\ thread_finished' \in [Threads -> BOOLEAN]
      BY <1>1, <1>4 DEF Arrive, ThreadTypes
    <3>2. arrived' \subseteq Workers
      BY <1>1, <1>4, Sorts DEF Arrive, ThreadTypes
    <3>3. pc' \in [Threads -> Labels]
      BY <1>1, <1>4 DEF Arrive, Goto, ThreadTypes, Labels
    <3> QED
      BY <1>1, <1>4, <3>1, <3>2, <3>3 DEF Arrive, ThreadTypes, own
  <2>3. TaskTypes'
    BY <1>1, <1>4 DEF Arrive, TaskTypes, tasks
  <2> QED
    BY <2>1, <2>2, <2>3, TypesSplitNext
<1>5. ASSUME NEW t \in Threads, NEW v \in Threads, Doze(t) \/ Sleep(t) \/ WakeVictim(t, v)
      PROVE  Types'
  <2>1. UNCHANGED <<team, task_team, tasks, own, barrier, locals>>
    BY <1>5 DEF Doze, Sleep, WakeVictim
  <2>2. pc' \in [Threads -> Labels]
    BY <1>1, <1>5 DEF Doze, Sleep, WakeVictim, Goto, ThreadTypes, Labels
  <2>3. TeamTypes' /\ TaskTypes'
    BY <1>1, <2>1 DEF TeamTypes, TaskTypes, team, tasks, locals
  <2>4. ThreadTypes'
    BY <1>1, <2>1, <2>2 DEF ThreadTypes, own, barrier, locals
  <2> QED
    BY <2>3, <2>4, TypesSplitNext
<1>6. ASSUME NEW t \in Threads, Spawn(t)
      PROVE  Types'
  <2> DEFINE task == IF pc[t] = "work" THEN [parent |-> t, phase |-> Phase(t)]
                     ELSE [parent |-> None, phase |-> current[t].phase]
             p == th_task_team[t]
  <2>1. p \in 0..1 /\ spawned < MaxTasks /\ spawned' = spawned + 1
        /\ deque' = [deque EXCEPT ![p][t] = Append(@, task)]
    BY <1>1, <1>6 DEF Spawn, ThreadTypes
  <2>2. task \in Tasks
    <3>1. region \in Nat /\ k[t] \in Nat /\ current[t] \in Tasks
      BY <1>1 DEF TeamTypes, ThreadTypes, TaskTypes
    <3>2. Phase(t) \in Nat \X Nat /\ current[t].phase \in Nat \X Nat
      BY <3>1 DEF Phase, Tasks
    <3> QED
      BY <3>2 DEF Tasks
  <2>3. deque' \in Deques /\ \A q \in 0..1, u \in Threads : Len(deque'[q][u]) <= spawned'
    <3> HIDE DEF task, p
    <3>1. deque \in Deques /\ spawned \in Nat /\ deque[p][t] \in Seq(Tasks)
          /\ \A q \in 0..1, u \in Threads : Len(deque[q][u]) <= spawned /\ Len(deque[q][u]) \in Nat
      BY <1>1, <2>1 DEF TaskTypes, Deques
    <3>2. Append(deque[p][t], task) \in Seq(Tasks)
          /\ Len(Append(deque[p][t], task)) = Len(deque[p][t]) + 1
      BY <2>2, <3>1
    <3>3. deque' \in Deques
      BY <2>1, <3>1, <3>2 DEF Deques
    <3>4. ASSUME NEW q \in 0..1, NEW u \in Threads PROVE Len(deque'[q][u]) <= spawned'
      <4>1. CASE q = p /\ u = t
        <5>1. deque'[q][u] = Append(deque[p][t], task)
          BY <2>1, <3>1, <4>1 DEF Deques
        <5> QED
          BY <2>1, <3>1, <3>2, <5>1
      <4>2. CASE q # p \/ u # t
        <5>1. deque'[q][u] = deque[q][u]
          BY <2>1, <3>1, <4>2 DEF Deques
        <5> QED
          BY <2>1, <3>1, <5>1
      <4> QED
        BY <4>1, <4>2
    <3> QED
      BY <3>3, <3>4
  <2>4. TaskTypes'
    <3>1. incomplete' \in [Threads -> Nat] /\ spawned' \in 0 .. MaxTasks
      BY <1>1, <1>2, <1>6 DEF Spawn, TaskTypes
    <3>2. stealing' = stealing /\ current' = current
      BY <1>6 DEF Spawn, locals
    <3> QED
      BY <1>1, <2>3, <3>1, <3>2 DEF TaskTypes
  <2>5. TeamTypes'
    <3>1. task_team' \in [0..1 -> TeamRecords]
      BY <1>1, <1>6 DEF Spawn, TeamTypes, TeamRecords
    <3>2. UNCHANGED team
      BY <1>6 DEF Spawn
    <3> QED
      BY <1>1, <3>1, <3>2 DEF TeamTypes, team
  <2>6. ThreadTypes'
    <3>1. pc' \in [Threads -> Labels]
      BY <1>1, <1>6 DEF Spawn, ThreadTypes, Labels
    <3>2. UNCHANGED <<own, barrier, locals>>
      BY <1>6 DEF Spawn
    <3> QED
      BY <1>1, <3>1, <3>2 DEF ThreadTypes, own, barrier, locals
  <2> QED
    BY <2>4, <2>5, <2>6, TypesSplitNext
<1>7. ASSUME NEW t \in Threads, Look(t)
      PROVE  Types'
  <2>1. UNCHANGED <<team, task_team, tasks, barrier, thread_finished, current>>
    BY <1>7 DEF Look
  <2>2. /\ pc' \in [Threads -> Labels] /\ local_team' \in [Threads -> {None, 0, 1}]
        /\ th_task_state' \in [Threads -> 0..1] /\ th_task_team' \in [Threads -> {None, 0, 1}]
    BY <1>1, <1>7 DEF Look, Goto, ThreadTypes, Labels, own
  <2>3. TeamTypes' /\ TaskTypes'
    BY <1>1, <2>1 DEF TeamTypes, TaskTypes, team, tasks
  <2>4. ThreadTypes'
    BY <1>1, <2>1, <2>2 DEF ThreadTypes, barrier
  <2> QED
    BY <2>3, <2>4, TypesSplitNext
<1>8. ASSUME NEW t \in Threads, Leave(t)
      PROVE  Types'
  <2>1. UNCHANGED <<team, task_team, tasks, k, arrived, gathered, locals>>
    BY <1>8 DEF Leave
  <2>2. /\ pc' \in [Threads -> Labels] /\ go' \in [Threads -> BOOLEAN]
        /\ th_task_state' \in [Threads -> 0..1] /\ th_task_team' \in [Threads -> {None, 0, 1}]
    BY <1>1, <1>8 DEF Leave, Sync, Goto, ThreadTypes, Labels
  <2>3. TeamTypes' /\ TaskTypes'
    BY <1>1, <2>1 DEF TeamTypes, TaskTypes, team, tasks, locals
  <2>4. ThreadTypes'
    BY <1>1, <2>1, <2>2 DEF ThreadTypes, locals
  <2> QED
    BY <2>3, <2>4, TypesSplitNext
<1>9. ASSUME NEW t \in Threads, TakeOwn(t)
      PROVE  Types'
  <2>1. UNCHANGED <<team, task_team, stealing, incomplete, spawned, own, barrier, local_team,
                    thread_finished>>
    BY <1>9 DEF TakeOwn
  <2>2. pc' \in [Threads -> Labels]
    BY <1>1, <1>9 DEF TakeOwn, Goto, ThreadTypes, Labels
  <2>3. TaskTypes'
    <3>1. CASE deque[local_team[t]][t] = << >>
      BY <1>1, <1>9, <2>1, <3>1 DEF TakeOwn, TaskTypes
    <3>2. CASE deque[local_team[t]][t] # << >>
      <4> DEFINE p == local_team[t]
      <4>1. p \in 0..1
        <5>1. pc[t] \in Executing
          BY <1>9 DEF TakeOwn, Executing
        <5> QED
          BY <1>1, <5>1, Executes, Sorts
      <4>2. /\ deque' = [deque EXCEPT ![p][t] = Front(@)]
            /\ current' = [current EXCEPT ![t] = Last(deque[p][t])]
        BY <1>9, <3>2 DEF TakeOwn
      <4> HIDE DEF p
      <4>3. /\ deque \in Deques /\ deque[p][t] \in Seq(Tasks) /\ spawned \in Nat
            /\ \A q \in 0..1, u \in Threads : Len(deque[q][u]) <= spawned /\ Len(deque[q][u]) \in Nat
        BY <1>1, <4>1 DEF TaskTypes, Deques
      <4>4. /\ Front(deque[p][t]) \in Seq(Tasks) /\ Len(Front(deque[p][t])) = Len(deque[p][t]) - 1
            /\ Last(deque[p][t]) \in Tasks
        BY <3>2, <4>3 DEF Front, Last, p
      <4>5. deque' \in Deques /\ current' \in [Threads -> Tasks]
        BY <1>1, <4>1, <4>2, <4>3, <4>4 DEF Deques, TaskTypes
      <4>6. ASSUME NEW q \in 0..1, NEW u \in Threads PROVE Len(deque'[q][u]) <= spawned
        <5>1. CASE q = p /\ u = t
          <6>1. deque'[q][u] = Front(deque[p][t])
            BY <4>1, <4>2, <4>3, <5>1 DEF Deques
          <6> QED
            BY <4>1, <4>3, <4>4, <6>1
        <5>2. CASE q # p \/ u # t
          <6>1. deque'[q][u] = deque[q][u]
            BY <4>1, <4>2, <4>3, <5>2 DEF Deques
          <6> QED
            BY <4>3, <6>1
        <5> QED
          BY <5>1, <5>2
      <4> QED
        BY <1>1, <2>1, <4>5, <4>6 DEF TaskTypes
    <3> QED
      BY <3>1, <3>2
  <2>4. TeamTypes' /\ ThreadTypes'
    BY <1>1, <2>1, <2>2 DEF TeamTypes, ThreadTypes, team, own, barrier
  <2> QED
    BY <2>3, <2>4, TypesSplitNext
<1>10. ASSUME NEW t \in Threads, NEW v \in Threads, Steal(t, v)
       PROVE  Types'
  <2>1. UNCHANGED <<team, deque, incomplete, spawned, own, barrier, local_team, current>>
    BY <1>10 DEF Steal
  <2>2. pc' \in [Threads -> Labels] /\ thread_finished' \in [Threads -> BOOLEAN]
    BY <1>1, <1>10 DEF Steal, Goto, ThreadTypes, Labels
  <2>3. stealing' \in [0..1 -> [Threads -> Threads \cup {None}]]
    <3> DEFINE p == local_team[t]
    <3>1. stealing' = stealing \/ stealing' = [stealing EXCEPT ![p][v] = t]
      BY <1>10 DEF Steal
    <3>2. stealing \in [0..1 -> [Threads -> Threads \cup {None}]]
      BY <1>1 DEF TaskTypes
    <3> HIDE DEF p
    <3> QED
      BY <3>1, <3>2
  <2>4. task_team' \in [0..1 -> TeamRecords]
    BY <1>1, <1>10 DEF Steal, TeamTypes, TeamRecords
  <2>5. TeamTypes' /\ ThreadTypes'
    BY <1>1, <2>1, <2>2, <2>4 DEF TeamTypes, ThreadTypes, team, own, barrier
  <2>6. TaskTypes'
    BY <1>1, <2>1, <2>3 DEF TaskTypes
  <2> QED
    BY <2>5, <2>6, TypesSplitNext
<1>11. ASSUME NEW t \in Threads, NEW v \in Threads, TakeStolen(t, v)
       PROVE  Types'
  <2> DEFINE p == local_team[t]
  <2>1. UNCHANGED <<team, task_team, incomplete, spawned, own, barrier, local_team, thread_finished>>
    BY <1>11 DEF TakeStolen
  <2>2. pc' \in [Threads -> Labels] /\ stealing' \in [0..1 -> [Threads -> Threads \cup {None}]]
    BY <1>1, <1>11 DEF TakeStolen, Goto, ThreadTypes, Labels, TaskTypes
  <2>3. p \in 0..1 /\ deque[p][v] # << >>
    <3>1. pc[t] \in Executing /\ stealing[p][v] = t /\ t # None
      BY <1>1, <1>11, Sorts DEF TakeStolen, Executing
    <3>2. p \in 0..1
      BY <1>1, <3>1, Executes, Sorts
    <3> QED
      BY <3>1, <3>2 DEF IInv, Locks
  <2>4. /\ deque' = [deque EXCEPT ![p][v] = Tail(@)]
        /\ current' = [current EXCEPT ![t] = Head(deque[p][v])]
    BY <1>11 DEF TakeStolen
  <2> HIDE DEF p
  <2>5. /\ deque \in Deques /\ deque[p][v] \in Seq(Tasks) /\ spawned \in Nat
        /\ \A q \in 0..1, u \in Threads : Len(deque[q][u]) <= spawned /\ Len(deque[q][u]) \in Nat
    BY <1>1, <2>3 DEF TaskTypes, Deques
  <2>6. /\ Tail(deque[p][v]) \in Seq(Tasks) /\ Len(Tail(deque[p][v])) = Len(deque[p][v]) - 1
        /\ Head(deque[p][v]) \in Tasks
    BY <2>3, <2>5
  <2>7. deque' \in Deques /\ current' \in [Threads -> Tasks]
    BY <1>1, <2>3, <2>4, <2>5, <2>6 DEF Deques, TaskTypes
  <2>8. ASSUME NEW q \in 0..1, NEW u \in Threads PROVE Len(deque'[q][u]) <= spawned
    <3>1. CASE q = p /\ u = v
      <4>1. deque'[q][u] = Tail(deque[p][v])
        BY <2>3, <2>4, <2>5, <3>1 DEF Deques
      <4> QED
        BY <2>3, <2>5, <2>6, <4>1
    <3>2. CASE q # p \/ u # v
      <4>1. deque'[q][u] = deque[q][u]
        BY <2>3, <2>4, <2>5, <3>2 DEF Deques
      <4> QED
        BY <2>5, <4>1
    <3> QED
      BY <3>1, <3>2
  <2>9. TaskTypes'
    BY <1>1, <2>1, <2>2, <2>7, <2>8 DEF TaskTypes
  <2>10. TeamTypes' /\ ThreadTypes'
    BY <1>1, <2>1, <2>2 DEF TeamTypes, ThreadTypes, team, own, barrier
  <2> QED
    BY <2>9, <2>10, TypesSplitNext
<1>12. ASSUME NEW t \in Threads, FinishTask(t)
       PROVE  Types'
  <2>1. UNCHANGED <<team, task_team, deque, stealing, spawned, own, barrier, local_team,
                    thread_finished>>
    BY <1>12 DEF FinishTask
  <2>2. pc' \in [Threads -> Labels]
    BY <1>1, <1>12 DEF FinishTask, Goto, ThreadTypes, Labels
  <2>3. current' \in [Threads -> Tasks]
    <3>1. NoTask \in Tasks
      BY DEF NoTask, Tasks
    <3> QED
      BY <1>1, <1>12, <3>1 DEF FinishTask, TaskTypes
  <2>4. incomplete' \in [Threads -> Nat]
    <3>1. CASE current[t].parent = None
      BY <1>1, <1>12, <3>1 DEF FinishTask, TaskTypes
    <3>2. CASE current[t].parent # None
      <4> DEFINE u == current[t].parent
      <4>1. u \in Threads
        BY <1>1, <3>2 DEF TaskTypes, Tasks
      <4>2. incomplete' = [incomplete EXCEPT ![u] = @ - 1]
        BY <1>12, <3>2 DEF FinishTask
      <4>3. t \in RunningOf(u) /\ RunningOf(u) \subseteq Threads
        BY <1>12 DEF FinishTask, RunningOf
      <4> HIDE DEF u
      <4>4. Cardinality(RunningOf(u)) \in Nat /\ Cardinality(RunningOf(u)) # 0
        <5>1. IsFiniteSet(RunningOf(u))
          BY <1>1, <4>3, Finite, FS_Subset
        <5> QED
          BY <4>3, <5>1, FS_CardinalityType, FS_EmptySet
      <4>5. Cardinality(QueuedOf(u)) \in Nat
        BY QueuedFinite, FS_CardinalityType DEF QueuedOf
      <4>6. incomplete[u] = Cardinality(QueuedOf(u)) + Cardinality(RunningOf(u))
        BY <4>1 DEF IInv, Children
      <4>7. incomplete[u] - 1 \in Nat
        BY <4>4, <4>5, <4>6
      <4> QED
        BY <1>1, <4>1, <4>2, <4>7 DEF TaskTypes
    <3> QED
      BY <3>1, <3>2
  <2>5. TaskTypes'
    BY <1>1, <2>1, <2>3, <2>4 DEF TaskTypes
  <2>6. TeamTypes' /\ ThreadTypes'
    BY <1>1, <2>1, <2>2 DEF TeamTypes, ThreadTypes, team, own, barrier
  <2> QED
    BY <2>5, <2>6, TypesSplitNext
<1>13. ASSUME NEW t \in Threads, NoTaskFound(t)
       PROVE  Types'
  <2>1. UNCHANGED <<team, tasks, own, barrier, current>>
    BY <1>13 DEF NoTaskFound
  <2>2. /\ pc' \in [Threads -> Labels] /\ local_team' \in [Threads -> {None, 0, 1}]
        /\ thread_finished' \in [Threads -> BOOLEAN]
    BY <1>1, <1>13 DEF NoTaskFound, WaitLabel, Goto, ThreadTypes, Labels
  <2>3. task_team' \in [0..1 -> TeamRecords]
    <3>1. CASE Final(t) /\ incomplete[t] = 0 /\ ~thread_finished[t]
      <4>1. pc[t] \in Executing
        BY <1>13 DEF NoTaskFound, Executing
      <4>2. local_team[t] = Cur /\ task_team[Cur].unfinished \in Nat \ {0}
        BY <3>1, <4>1, Counts
      <4>3. task_team' = [task_team EXCEPT ![Cur].unfinished = @ - 1]
        BY <1>13, <3>1, <4>2 DEF NoTaskFound
      <4>4. task_team[Cur].unfinished - 1 \in Nat
        BY <4>2
      <4> QED
        BY <1>1, <4>3, <4>4 DEF TeamTypes, TeamRecords
    <3>2. CASE ~(Final(t) /\ incomplete[t] = 0 /\ ~thread_finished[t])
      BY <1>1, <1>13, <3>2 DEF NoTaskFound, TeamTypes
    <3> QED
      BY <3>1, <3>2
  <2>4. TeamTypes' /\ ThreadTypes'
    BY <1>1, <2>1, <2>2, <2>3 DEF TeamTypes, ThreadTypes, team, own, barrier
  <2>5. TaskTypes'
    BY <1>1, <2>1 DEF TaskTypes, tasks
  <2> QED
    BY <2>4, <2>5, TypesSplitNext
<1>14. ASSUME MasterLeaves PROVE Types'
  <2>1. UNCHANGED <<team, task_team, tasks, barrier, locals>>
    BY <1>14 DEF MasterLeaves
  <2>2. /\ pc' \in [Threads -> Labels]
        /\ th_task_state' \in [Threads -> 0..1] /\ th_task_team' \in [Threads -> {None, 0, 1}]
    BY <1>1, <1>2, <1>14 DEF MasterLeaves, Sync, Goto, ThreadTypes, Labels
  <2>3. TeamTypes' /\ TaskTypes' /\ ThreadTypes'
    BY <1>1, <2>1, <2>2 DEF TeamTypes, TaskTypes, ThreadTypes, team, tasks, barrier, locals
  <2> QED
    BY <2>3, TypesSplitNext
<1>15. ASSUME Gathered PROVE Types'
  <2>1. UNCHANGED <<team, task_team, tasks, th_task_state, k, local_team, current>>
    BY <1>15 DEF Gathered
  <2>2. thread_finished' \in [Threads -> BOOLEAN] /\ arrived' \subseteq Workers
    BY <1>1, <1>15 DEF Gathered, ThreadTypes
  <2>3. /\ pc' \in [Threads -> Labels] /\ go' \in [Threads -> BOOLEAN] /\ gathered' \in BOOLEAN
        /\ th_task_team' \in [Threads -> {None, 0, 1}]
    <3>1. CASE task_team[th_task_state[0]].found
      BY <1>1, <1>15, <3>1 DEF Gathered, Goto, ThreadTypes, Labels
    <3>2. CASE ~task_team[th_task_state[0]].found
      <4>1. Pass(FALSE) /\ gathered' = gathered
        BY <1>15, <3>2 DEF Gathered
      <4>2. gathered' \in BOOLEAN
        BY <1>1, <4>1 DEF ThreadTypes
      <4> QED
        BY <1>1, <4>1, <4>2, PassTypes
    <3> QED
      BY <3>1, <3>2
  <2>4. TeamTypes' /\ TaskTypes' /\ ThreadTypes'
    BY <1>1, <2>1, <2>2, <2>3 DEF TeamTypes, TaskTypes, ThreadTypes, team, tasks
  <2> QED
    BY <2>4, TypesSplitNext
<1>16. ASSUME TasksCompleted PROVE Types'
  <2>1. UNCHANGED <<team, tasks, th_task_state, k, arrived, locals>> /\ Pass(TRUE) /\ gathered' = FALSE
    BY <1>16 DEF TasksCompleted
  <2>2. /\ pc' \in [Threads -> Labels] /\ go' \in [Threads -> BOOLEAN]
        /\ th_task_team' \in [Threads -> {None, 0, 1}]
    BY <1>1, <2>1, PassTypes
  <2>3. task_team' \in [0..1 -> TeamRecords]
    BY <1>1, <1>16 DEF TasksCompleted, TeamTypes, TeamRecords
  <2>4. TeamTypes' /\ TaskTypes' /\ ThreadTypes'
    BY <1>1, <2>1, <2>2, <2>3 DEF TeamTypes, TaskTypes, ThreadTypes, team, tasks, locals
  <2> QED
    BY <2>4, TypesSplitNext
<1>17. ASSUME UNCHANGED vars PROVE Types'
  <2>1. TeamTypes' /\ TaskTypes' /\ ThreadTypes'
    BY <1>1, <1>17 DEF TeamTypes, TaskTypes, ThreadTypes, vars, team, tasks, own, barrier, locals
  <2> QED
    BY <2>1, TypesSplitNext
<1> QED
  BY <1>3, <1>4, <1>5, <1>6, <1>7, <1>8, <1>9, <1>10, <1>11, <1>12, <1>13, <1>14, <1>15, <1>16, <1>17
     DEF Next, Inside, Master, AtBound

LEMMA InitIInv == Init => IInv
<1> SUFFICES ASSUME Init PROVE IInv
  OBVIOUS
<1>1. /\ N \in Nat /\ N > 1 /\ Sizes \subseteq 2 .. N /\ Bodies \subseteq Nat /\ MaxRegions \in Nat
      /\ MaxTasks \in Nat /\ 0 \in Threads /\ Workers = Threads \ {0} /\ Members = {0}
      /\ None \notin Threads /\ None \notin 0..1
  <2>1. Members = {0}
    BY DEF Init, Members
  <2> QED
    BY <2>1, TaskTeamAssumption DEF Threads, Workers, None
<1>2. Types
  <2>1. TeamTypes
    BY <1>1 DEF Init, TeamTypes, TeamRecords
  <2>2. ThreadTypes
    BY <1>1 DEF Init, ThreadTypes, Labels
  <2>3. TaskTypes
    <3>1. NoTask \in Tasks /\ << >> \in Seq(Tasks) /\ Len(<< >>) = 0
      BY DEF NoTask, Tasks
    <3> QED
      BY <1>1, <3>1 DEF Init, TaskTypes, Deques
  <2> QED
    BY <2>1, <2>2, <2>3, TypesSplit
<1>3. /\ pc[0] = "serial" /\ \A t \in Workers : pc[t] = "wait"
      /\ \A t \in Threads : pc[t] \notin {"work", "run", "stealing"} /\ pc[t] \notin Executing
      /\ th_task_state[0] = 0 /\ k[0] = 0
      /\ \A t \in Threads : th_task_team[t] = None /\ local_team[t] = None /\ ~go[t]
      /\ \A p \in 0..1, t \in Threads : deque[p][t] = << >> /\ stealing[p][t] = None
      /\ \A p \in 0..1 : task_team[p].active = FALSE
  BY <1>1 DEF Init, Executing
<1>4. Cur = 1 /\ Other = 0 /\ Past = 0 /\ ~InBarrier /\ JoinStep = 1
  BY <1>3 DEF Cur, Other, Past, InBarrier, JoinStep, Init
<1>5. \A t \in Threads : ~On(t)
  BY <1>3 DEF On
<1>6. Places
  BY <1>1, <1>3, <1>4 DEF Init, Places, Waits
<1>7. OwnTeams
  BY <1>1, <1>3, <1>4, <1>5 DEF Init, OwnTeams, OwnTeam
<1>8. Teams
  <2>1. Idle(Cur) /\ Idle(Other) /\ Shut(Cur) /\ Shut(Other)
    BY <1>1, <1>3, <1>4 DEF Idle, Shut
  <2>2. \A t \in Members : ~Finished(t)
    BY <1>1, <1>5 DEF Finished
  <2> QED
    BY <1>3, <1>4, <2>1, <2>2 DEF Teams, Init
<1>9. Counted /\ Queues /\ Locks
  BY <1>3, <1>4 DEF Counted, Queues, Locks
<1>10. Children
  <2> SUFFICES ASSUME NEW u \in Threads
               PROVE  incomplete[u] = Cardinality(QueuedOf(u)) + Cardinality(RunningOf(u))
    BY DEF Children
  <2>1. QueuedOf(u) = {}
    <3> SUFFICES ASSUME NEW x \in QueuedOf(u) PROVE FALSE
      OBVIOUS
    <3>1. PICK p \in 0..1, v \in Threads, i \in 1 .. MaxTasks : x = <<p, v, i>>
      BY DEF QueuedOf, QueuedIn
    <3>2. i <= Len(deque[p][v])
      BY <3>1 DEF QueuedOf, QueuedIn
    <3>3. Len(deque[p][v]) = 0
      BY <1>3
    <3> QED
      BY <3>2, <3>3
  <2>2. RunningOf(u) = {}
    BY <1>3 DEF RunningOf
  <2>3. incomplete[u] = 0
    BY DEF Init
  <2> QED
    BY <2>1, <2>2, <2>3, FS_EmptySet
<1>11. Left
  <2>1. \A p \in 0..1, t \in Threads : Len(deque[p][t]) = 0
    BY <1>3
  <2>2. \A p \in 0..1, t \in Threads : 1 .. Len(deque[p][t]) = {}
    BY <2>1
  <2> QED
    BY <1>3, <2>2 DEF Left
<1> QED
  BY <1>2, <1>6, <1>7, <1>8, <1>9, <1>10, <1>11 DEF IInv

LEMMA Stutters == ASSUME IInv, Types', UNCHANGED vars PROVE IInv'
<1>1. Types /\ Places /\ OwnTeams /\ Teams /\ Counted /\ Queues /\ Locks /\ Children /\ Left
  BY DEF IInv
<1>2. UNCHANGED <<team, task_team, tasks, own, barrier, pc, locals>>
  BY DEF vars
<1>3. /\ UNCHANGED <<region, body, nproc, hot_team_nth>>
      /\ UNCHANGED <<deque, stealing, incomplete, spawned>>
      /\ UNCHANGED <<th_task_state, th_task_team>> /\ UNCHANGED <<k, arrived, go, gathered>>
      /\ UNCHANGED <<local_team, thread_finished, current>> /\ pc' = pc /\ task_team' = task_team
  BY <1>2 DEF team, tasks, own, barrier, locals
<1>4. Still
  BY <1>2 DEF Still, own
<1>5. OwnTeams'
  BY <1>1, <1>3, <1>4, StillPlaces DEF OwnTeams, OwnTeam
<1>6. Teams'
  BY <1>1, <1>3, <1>4, StillPlaces, Basics DEF Teams, Idle, Shut, Ready, Finished
<1>7. Counted'
  <2>1. Due' = Due /\ Thieves' = Thieves
    BY <1>1, <1>3, <1>4, StillPlaces, Basics DEF Due, Thieves, Finished
  <2> QED
    BY <1>1, <1>3, <1>4, <2>1, StillPlaces DEF Counted
<1>8. Queues' /\ Locks'
  <2>1. Queues'
    BY <1>1, <1>3, <1>4, StillPlaces DEF Queues
  <2>2. Locks'
    BY <1>1, <1>3 DEF Locks
  <2> QED
    BY <2>1, <2>2
<1>9. Children'
  BY <1>1, <1>3 DEF Children, QueuedOf, QueuedIn, RunningOf
<1>10. Left'
  BY <1>1, <1>3, <1>4, StillLeft DEF Left
<1> QED
  BY <1>1, <1>4, <1>5, <1>6, <1>7, <1>8, <1>9, <1>10, StillPlaces DEF IInv

LEMMA StepIInv == ASSUME HotTeamsMode = 0, IInv, [Next]_vars PROVE IInv'
<1>1. Types'
  BY StepTypes
<1>2. ASSUME NEW n \in Sizes, NEW b \in Bodies, Fork(n, b) PROVE IInv'
  BY <1>1, <1>2, ForkKeeps
<1>3. ASSUME NEW t \in Threads, Arrive(t) PROVE IInv'
  <2>1. CASE t = 0
    BY <1>1, <1>3, <2>1, MasterArrives
  <2>2. CASE t # 0
    BY <1>1, <1>3, <2>2, WorkerArrives, Sorts DEF IInv
  <2> QED
    BY <2>1, <2>2
<1>4. ASSUME NEW t \in Threads, NEW v \in Threads, Doze(t) \/ Sleep(t) \/ WakeVictim(t, v)
      PROVE IInv'
  BY <1>1, <1>4, NapsKeep
<1>5. ASSUME NEW t \in Threads, Spawn(t) PROVE IInv'
  BY <1>1, <1>5, SpawnKeeps
<1>6. ASSUME NEW t \in Threads, Look(t) PROVE IInv'
  BY <1>1, <1>6, LookKeeps
<1>7. ASSUME NEW t \in Threads, Leave(t) PROVE IInv'
  BY <1>1, <1>7, LeaveKeeps
<1>8. ASSUME NEW t \in Threads, TakeOwn(t) PROVE IInv'
  BY <1>1, <1>8, TakeOwnKeeps
<1>9. ASSUME NEW t \in Threads, NEW v \in Threads, Steal(t, v) PROVE IInv'
  BY <1>1, <1>9, StealKeeps
<1>10. ASSUME NEW t \in Threads, NEW v \in Threads, TakeStolen(t, v) PROVE IInv'
  BY <1>1, <1>10, TakeStolenKeeps
<1>11. ASSUME NEW t \in Threads, FinishTask(t) PROVE IInv'
  BY <1>1, <1>11, FinishTaskKeeps
<1>12. ASSUME NEW t \in Threads, NoTaskFound(t) PROVE IInv'
  BY <1>1, <1>12, NoTaskFoundKeeps
<1>13. ASSUME MasterLeaves PROVE IInv'
  BY <1>1, <1>13, MasterLeavesKeeps
<1>14. ASSUME Gathered PROVE IInv'
  BY <1>1, <1>14, GatheredFoundKeeps, GatheredPassKeeps
<1>15. ASSUME TasksCompleted PROVE IInv'
  BY <1>1, <1>15, TasksCompletedKeeps
<1>16. ASSUME UNCHANGED vars PROVE IInv'
  BY <1>1, <1>16, Stutters
<1>17. 0 \in Threads
  BY Sorts DEF IInv
<1> QED
  BY <1>2, <1>3, <1>4, <1>5, <1>6, <1>7, <1>8, <1>9, <1>10, <1>11, <1>12, <1>13, <1>14, <1>15,
     <1>16, <1>17
     DEF Next, Inside, Master, AtBound

\* For any number of threads, tasks, regions and barriers, the inductive invariant holds.
LEMMA Invariance == ASSUME HotTeamsMode = 0 PROVE Spec => []IInv
<1>1. IInv /\ [Next]_vars => IInv'
  BY StepIInv
<1> QED
  BY InitIInv, <1>1, PTL DEF Spec

\* __kmp_task_team_wait: when the master is past a barrier no task created before it is
\* in a deque or in the hands of a thread.
THEOREM TaskTeamDone == ASSUME HotTeamsMode = 0 PROVE Spec => []TasksDone
<1>1. IInv => TasksDone
  <2> SUFFICES ASSUME IInv, NEW task \in Outstanding
               PROVE  task.phase[1] = region /\ task.phase[2] >= Passed
    BY DEF TasksDone
  <2>1. Types /\ Places /\ Left
    BY DEF IInv
  <2>2. Passed = Past
    BY <2>1, Basics, SMT DEF Passed, Past, InBarrier, Places, Executing
  <2>3. CASE task \in Queued
    <3>1. PICK p \in 0..1, t \in Threads : task \in Range(deque[p][t])
      BY <2>3 DEF Queued
    <3>2. deque[p][t] \in Seq(Tasks)
      BY <2>1 DEF Types
    <3>3. PICK i \in 1 .. Len(deque[p][t]) : task = deque[p][t][i]
      BY <3>1, <3>2 DEF Range
    <3> QED
      BY <2>1, <2>2, <3>3 DEF Left, Recent
  <2>4. CASE task \in {current[t] : t \in {u \in Threads : pc[u] = "run"}}
    BY <2>1, <2>2, <2>4 DEF Left, Recent
  <2> QED
    BY <2>3, <2>4 DEF Outstanding
<1> QED
  BY <1>1, Invariance, PTL

\* tt_unfinished_threads counts the members that have not finished with the barrier and
\* the threads that steal without being due, at any time; so it is never below zero.
THEOREM TaskTeamCount == ASSUME HotTeamsMode = 0 PROVE Spec => []CountExact
<1>1. IInv => CountExact
  <2> SUFFICES ASSUME IInv PROVE CountExact
    OBVIOUS
  <2>1. Types /\ TypeOK /\ Places /\ Counted
    BY DEF IInv, Types
  <2> SUFFICES ASSUME pc[0] \notin {"serial", "release"}
               PROVE  task_team[th_task_state[0]].unfinished =
                        Cardinality({t \in Members : ~FinishedHere(t)})
                          + Cardinality({t \in Threads : /\ Late(t)
                                                         /\ local_team[t] = th_task_state[0]
                                                         /\ ~thread_finished[t]})
    BY <2>1 DEF CountExact
  <2>2. /\ Cur = th_task_state[0] /\ Coming = Past + 1 /\ Past \in Int /\ k[0] \in Nat
        /\ 0 \in Members /\ Members \subseteq Threads
    BY <2>1, Basics DEF Cur, Coming, Past, InBarrier
  <2>3. ASSUME NEW t \in Threads
        PROVE  /\ Late(t) <=> ~On(t)
               /\ t \in Members => (FinishedHere(t) <=> Finished(t))
    <3>1. CASE t = 0
      BY <2>2, <3>1 DEF Late, On, FinishedHere, Finished, Coming
    <3>2. CASE t # 0 /\ t \notin Members
      BY <3>2 DEF Late, On
    <3>3. CASE t # 0 /\ t \in Members
      <4>1. On(t) \/ Behind(t)
        BY <2>1, <3>3 DEF Places
      <4>2. On(t) <=> pc[t] = "work" \/ k[t] = Coming
        BY <2>2, <3>3, <4>1 DEF On, Behind, Waits, Executing
      <4> QED
        BY <3>3, <4>2 DEF Late, FinishedHere, Finished
    <3> QED
      BY <3>1, <3>2, <3>3
  <2>4. /\ Due = {t \in Members : ~FinishedHere(t)}
        /\ Thieves = {t \in Threads : /\ Late(t) /\ local_team[t] = th_task_state[0]
                                      /\ ~thread_finished[t]}
    BY <2>2, <2>3 DEF Due, Thieves
  <2> QED
    BY <2>1, <2>2, <2>4 DEF Counted
<1> QED
  BY <1>1, Invariance, PTL

\* th_task_team == t_task_team[th_task_state]: the members come to a barrier with the
\* task team that their master waits for.
THEOREM TaskTeamShared == ASSUME HotTeamsMode = 0 PROVE Spec => []SameTaskTeam
<1>1. IInv => SameTaskTeam
  <2> SUFFICES ASSUME IInv, NEW t \in Members, pc[t] = "work"
               PROVE  /\ th_task_team[t] = th_task_state[t]
                      /\ pc[0] # "release" => th_task_state[t] = th_task_state[0]
    BY DEF SameTaskTeam
  <2>1. Types /\ Places /\ OwnTeams /\ t \in Threads
    BY Sorts DEF IInv
  <2>2. On(t)
    BY <2>1 DEF Places, Behind, On, Waits, Executing
  <2>3. th_task_state[t] = Cur /\ th_task_team[t] = Cur /\ pc[0] # "serial"
    BY <2>1, <2>2 DEF OwnTeams, OwnTeam, On
  <2> QED
    BY <2>3 DEF Cur
<1> QED
  BY <1>1, Invariance, PTL
=============================================================================
