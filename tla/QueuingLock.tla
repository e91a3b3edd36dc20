----------------------------- MODULE QueuingLock -----------------------------
(***************************************************************************)
(* The queuing locks of runtime/src/kmp_lock.cpp.  A lock is two words,    *)
(* head_id and tail_id; the queue between them is threaded through the     *)
(* th_next_waiting fields of the waiting threads, and each waiter spins on *)
(* its own th_spin_here.  These two fields belong to the thread and serve  *)
(* every queuing lock of the program, so the module has a set of locks.    *)
(*                                                                         *)
(* In head_id 0 is no thread, and -1 says that the lock is held and nobody *)
(* waits.  Each access to a word another thread writes is a step.          *)
(***************************************************************************)
EXTENDS LockClients, Sequences

CONSTANTS Locks,       \* the locks of the program, in the order it nests them
          NestLocks,   \* the omp_nest_lock_t among them
          Programs     \* sets of locks a program uses

VARIABLES program,                       \* the locks this program uses
          initialized, head_id, tail_id, owner_id, depth_locked,   \* per lock
          spin_here, next_waiting,       \* th_spin_here, th_next_waiting
          pc, lck, head, tail,           \* the call each thread is in
          held                           \* sets not yet unset, <<thread, lock>>

lockVars   == <<initialized, head_id, tail_id, owner_id, depth_locked>>
threadVars == <<spin_here, next_waiting>>
state == <<lockVars, threadVars, pc, lck, head, tail, held>>
vars == <<program, state>>

NoLock == -1
Fresh(l) == IF l \in NestLocks THEN 0 ELSE -1

Init == /\ program \in Programs
        /\ initialized = [l \in Locks |-> FALSE]
        /\ head_id = [l \in Locks |-> 0]
        /\ tail_id = [l \in Locks |-> 0]
        /\ owner_id = [l \in Locks |-> 0]
        /\ depth_locked = [l \in Locks |-> Fresh(l)]
        /\ spin_here = [t \in Threads |-> FALSE]
        /\ next_waiting = [t \in Threads |-> 0]
        /\ pc = [t \in Threads |-> "idle"]
        /\ lck = [t \in Threads |-> NoLock]
        /\ head = [t \in Threads |-> 0]
        /\ tail = [t \in Threads |-> 0]
        /\ held = [tl \in Threads \X Locks |-> 0]

-----------------------------------------------------------------------------
\* Control of a call: it starts on a lock, moves, and returns; its locals do
\* not outlive it.
At(t, label) == pc[t] = label
Goto(t, label) == pc' = [pc EXCEPT ![t] = label] /\ UNCHANGED lck
Call(t, l, label) == /\ pc' = [pc EXCEPT ![t] = label]
                     /\ lck' = [lck EXCEPT ![t] = l]
                     /\ UNCHANGED <<head, tail>>
Return(t) == /\ pc' = [pc EXCEPT ![t] = "idle"]
             /\ lck' = [lck EXCEPT ![t] = NoLock]
             /\ head' = [head EXCEPT ![t] = 0]
             /\ tail' = [tail EXCEPT ![t] = 0]
ReadHead(t) == head' = [head EXCEPT ![t] = head_id[lck[t]]]
ReadTail(t) == tail' = [tail EXCEPT ![t] = tail_id[lck[t]]]

Holds(t, l) == held[<<t, l>>] > 0

\* A program sets locks in increasing order, a simple lock only once.
MaySet(t, l) == /\ At(t, "idle")
                /\ initialized[l]
                /\ held[<<t, l>>] < MaxLevel
                /\ \A m \in Locks : Holds(t, m) => m < l \/ (m = l /\ l \in NestLocks)

InitLock(t, l) ==
  /\ At(t, "idle")
  /\ l \in program
  /\ ~initialized[l]
  /\ initialized' = [initialized EXCEPT ![l] = TRUE]
  /\ head_id' = [head_id EXCEPT ![l] = 0]
  /\ tail_id' = [tail_id EXCEPT ![l] = 0]
  /\ owner_id' = [owner_id EXCEPT ![l] = 0]
  /\ depth_locked' = [depth_locked EXCEPT ![l] = Fresh(l)]
  /\ UNCHANGED <<threadVars, pc, lck, head, tail, held>>

\* The program destroys a lock that nobody uses; LockStillOwned otherwise.
DestroyLock(t, l) ==
  /\ At(t, "idle")
  /\ initialized[l]
  /\ \A u \in Threads : lck[u] # l /\ ~Holds(u, l)
  /\ IF owner_id[l] # 0
       THEN Goto(t, "fatal") /\ UNCHANGED lockVars
       ELSE /\ initialized' = [initialized EXCEPT ![l] = FALSE]
            /\ head_id' = [head_id EXCEPT ![l] = 0]
            /\ tail_id' = [tail_id EXCEPT ![l] = 0]
            /\ depth_locked' = [depth_locked EXCEPT ![l] = Fresh(l)]
            /\ UNCHANGED <<owner_id, pc, lck>>
  /\ UNCHANGED <<threadVars, head, tail, held>>

-----------------------------------------------------------------------------
\* Setting a lock.

\* A set or a test of a nestable lock by its owner counts one level more.
Reenter(t, l) ==
  /\ l \in NestLocks
  /\ owner_id[l] = t
  /\ depth_locked' = [depth_locked EXCEPT ![l] = @ + 1]
  /\ held' = [held EXCEPT ![<<t, l>>] = @ + 1]
  /\ UNCHANGED <<initialized, head_id, tail_id, owner_id, threadVars, pc, lck, head, tail>>

\* LockIsAlreadyOwned, or announce the wait: th_spin_here is raised before the
\* thread can be seen on the queue.
SetLock(t, l) ==
  /\ MaySet(t, l)
  /\ \/ Reenter(t, l)
     \/ /\ owner_id[l] = t
        /\ l \notin NestLocks
        /\ Call(t, l, "fatal")
        /\ UNCHANGED <<lockVars, threadVars, held>>
     \/ /\ owner_id[l] # t
        /\ spin_here' = [spin_here EXCEPT ![t] = TRUE]
        /\ Call(t, l, "acq_read")
        /\ UNCHANGED <<lockVars, next_waiting, held>>

AcqReadHead(t) ==
  /\ At(t, "acq_read")
  /\ ReadHead(t)
  /\ tail' = [tail EXCEPT ![t] = 0]
  /\ Goto(t, CASE head_id[lck[t]] = -1 -> "acq_cas_held"
               [] head_id[lck[t]] = 0  -> "acq_cas_free"
               [] OTHER                -> "acq_tail")
  /\ UNCHANGED <<lockVars, threadVars, held>>

\* (0,0) -> (-1,0): the lock is free.
AcqCasFree(t) ==
  /\ At(t, "acq_cas_free")
  /\ IF head_id[lck[t]] = 0
       THEN /\ head_id' = [head_id EXCEPT ![lck[t]] = -1]
            /\ spin_here' = [spin_here EXCEPT ![t] = FALSE]
            /\ Goto(t, "own")
       ELSE UNCHANGED <<head_id, spin_here>> /\ Goto(t, "acq_read")
  /\ UNCHANGED <<initialized, tail_id, owner_id, depth_locked, next_waiting, head, tail, held>>

\* (-1,0) -> (t,t): the first to wait.
AcqCasHeld(t) ==
  /\ At(t, "acq_cas_held")
  /\ IF head_id[lck[t]] = -1 /\ tail_id[lck[t]] = 0
       THEN /\ head_id' = [head_id EXCEPT ![lck[t]] = t]
            /\ tail_id' = [tail_id EXCEPT ![lck[t]] = t]
            /\ Goto(t, "acq_spin")
       ELSE UNCHANGED <<head_id, tail_id>> /\ Goto(t, "acq_read")
  /\ UNCHANGED <<initialized, owner_id, depth_locked, threadVars, head, tail, held>>

AcqReadTail(t) ==
  /\ At(t, "acq_tail")
  /\ ReadTail(t)
  /\ Goto(t, IF tail_id[lck[t]] = 0 THEN "acq_read" ELSE "acq_cas_tail")
  /\ UNCHANGED <<lockVars, threadVars, head, held>>

\* Mutant of AcqCasTail: an exchange that does not look at the tail again.
AcqSwapTail(t) ==
  /\ At(t, "acq_cas_tail")
  /\ tail_id' = [tail_id EXCEPT ![lck[t]] = t]
  /\ Goto(t, "acq_link")
  /\ UNCHANGED <<initialized, head_id, owner_id, depth_locked, threadVars, head, tail, held>>

\* (h,tail) -> (h,t): behind the last waiter, which must then be told.
AcqCasTail(t) ==
  /\ At(t, "acq_cas_tail")
  /\ IF tail_id[lck[t]] = tail[t]
       THEN tail_id' = [tail_id EXCEPT ![lck[t]] = t] /\ Goto(t, "acq_link")
       ELSE UNCHANGED tail_id /\ Goto(t, "acq_read")
  /\ UNCHANGED <<initialized, head_id, owner_id, depth_locked, threadVars, head, tail, held>>

AcqLink(t) ==
  /\ At(t, "acq_link")
  /\ next_waiting' = [next_waiting EXCEPT ![tail[t]] = t]
  /\ Goto(t, "acq_spin")
  /\ UNCHANGED <<lockVars, spin_here, head, tail, held>>

AcqSpin(t) ==
  /\ At(t, "acq_spin")
  /\ ~spin_here[t]
  /\ Goto(t, "own")
  /\ UNCHANGED <<lockVars, threadVars, head, tail, held>>

\* The stores of the entry points once the thread has the lock.
Own(t) ==
  LET l == lck[t] IN
  /\ At(t, "own")
  /\ depth_locked' = IF l \in NestLocks THEN [depth_locked EXCEPT ![l] = 1] ELSE depth_locked
  /\ owner_id' = [owner_id EXCEPT ![l] = t]
  /\ held' = [held EXCEPT ![<<t, l>>] = 1]
  /\ Return(t)
  /\ UNCHANGED <<initialized, head_id, tail_id, threadVars>>

-----------------------------------------------------------------------------
\* Testing a lock.

TestLock(t, l) ==
  /\ At(t, "idle")
  /\ initialized[l]
  /\ l \in NestLocks => held[<<t, l>>] < MaxLevel
  /\ \/ Reenter(t, l)
     \/ /\ ~(l \in NestLocks /\ owner_id[l] = t)
        /\ Call(t, l, "test_read")
        /\ UNCHANGED <<lockVars, threadVars, held>>

TestRead(t) ==
  /\ At(t, "test_read")
  /\ IF head_id[lck[t]] = 0
       THEN Goto(t, "test_cas") /\ UNCHANGED <<head, tail>>
       ELSE Return(t)
  /\ UNCHANGED <<lockVars, threadVars, held>>

TestCas(t) ==
  /\ At(t, "test_cas")
  /\ IF head_id[lck[t]] = 0
       THEN /\ head_id' = [head_id EXCEPT ![lck[t]] = -1]
            /\ Goto(t, "own")
            /\ UNCHANGED <<head, tail>>
       ELSE UNCHANGED head_id /\ Return(t)
  /\ UNCHANGED <<initialized, tail_id, owner_id, depth_locked, threadVars, held>>

-----------------------------------------------------------------------------
\* Unsetting a lock.

\* LockUnsettingFree and LockUnsettingSetByAnother.
UnsetLock(t, l) ==
  /\ At(t, "idle")
  /\ Holds(t, l)
  /\ Call(t, l, IF owner_id[l] = t THEN "unset" ELSE "fatal")
  /\ UNCHANGED <<lockVars, threadVars, held>>

UnsetInner(t) ==
  LET l == lck[t] IN
  /\ At(t, "unset")
  /\ l \in NestLocks /\ depth_locked[l] # 1
  /\ depth_locked' = [depth_locked EXCEPT ![l] = @ - 1]
  /\ held' = [held EXCEPT ![<<t, l>>] = @ - 1]
  /\ Return(t)
  /\ UNCHANGED <<initialized, head_id, tail_id, owner_id, threadVars>>

UnsetLast(t) ==
  LET l == lck[t] IN
  /\ At(t, "unset")
  /\ l \in NestLocks => depth_locked[l] = 1
  /\ depth_locked' = [depth_locked EXCEPT ![l] = Fresh(l)]
  /\ owner_id' = [owner_id EXCEPT ![l] = 0]
  /\ Goto(t, "rel_read")
  /\ UNCHANGED <<initialized, head_id, tail_id, threadVars, head, tail, held>>

RelReadHead(t) ==
  /\ At(t, "rel_read")
  /\ ReadHead(t)
  /\ Goto(t, IF head_id[lck[t]] = -1 THEN "rel_cas_free" ELSE "rel_tail")
  /\ UNCHANGED <<lockVars, threadVars, tail, held>>

\* (-1,0) -> (0,0): nobody waits.
RelCasFree(t) ==
  /\ At(t, "rel_cas_free")
  /\ IF head_id[lck[t]] = -1
       THEN /\ head_id' = [head_id EXCEPT ![lck[t]] = 0]
            /\ held' = [held EXCEPT ![<<t, lck[t]>>] = 0]
            /\ Return(t)
       ELSE UNCHANGED <<head_id, held, head, tail>> /\ Goto(t, "rel_read")
  /\ UNCHANGED <<initialized, tail_id, owner_id, depth_locked, threadVars>>

RelReadTail(t) ==
  /\ At(t, "rel_tail")
  /\ ReadTail(t)
  /\ Goto(t, IF head[t] = tail_id[lck[t]] THEN "rel_cas_pop" ELSE "rel_next")
  /\ UNCHANGED <<lockVars, threadVars, head, held>>

\* Mutant of RelCasPop: the tail is not compared, and a new waiter is lost.
RelPopHead(t) ==
  /\ At(t, "rel_cas_pop")
  /\ head_id' = [head_id EXCEPT ![lck[t]] = -1]
  /\ tail_id' = [tail_id EXCEPT ![lck[t]] = 0]
  /\ Goto(t, "rel_clear")
  /\ UNCHANGED <<initialized, owner_id, depth_locked, threadVars, head, tail, held>>

\* (h,h) -> (-1,0): the only waiter leaves the queue.
RelCasPop(t) ==
  /\ At(t, "rel_cas_pop")
  /\ IF head_id[lck[t]] = head[t] /\ tail_id[lck[t]] = head[t]
       THEN /\ head_id' = [head_id EXCEPT ![lck[t]] = -1]
            /\ tail_id' = [tail_id EXCEPT ![lck[t]] = 0]
            /\ Goto(t, "rel_clear")
       ELSE UNCHANGED <<head_id, tail_id>> /\ Goto(t, "rel_read")
  /\ UNCHANGED <<initialized, owner_id, depth_locked, threadVars, head, tail, held>>

\* (h,tail) -> (h',tail), once the waiter behind h has linked itself.
RelNext(t) ==
  /\ At(t, "rel_next")
  /\ next_waiting[head[t]] # 0
  /\ head_id' = [head_id EXCEPT ![lck[t]] = next_waiting[head[t]]]
  /\ Goto(t, "rel_clear")
  /\ UNCHANGED <<initialized, tail_id, owner_id, depth_locked, threadVars, head, tail, held>>

\* Mutant of RelClear: the link of the thread that leaves is kept.
RelKeepLink(t) ==
  /\ At(t, "rel_clear")
  /\ Goto(t, "rel_wake")
  /\ UNCHANGED <<lockVars, threadVars, head, tail, held>>

RelClear(t) ==
  /\ At(t, "rel_clear")
  /\ next_waiting' = [next_waiting EXCEPT ![head[t]] = 0]
  /\ Goto(t, "rel_wake")
  /\ UNCHANGED <<lockVars, spin_here, head, tail, held>>

\* The hand-over: from here on the lock belongs to the thread dequeued.
RelWake(t) ==
  /\ At(t, "rel_wake")
  /\ spin_here' = [spin_here EXCEPT ![head[t]] = FALSE]
  /\ held' = [held EXCEPT ![<<t, lck[t]>>] = 0]
  /\ Return(t)
  /\ UNCHANGED <<lockVars, next_waiting>>

-----------------------------------------------------------------------------
Step(t) == \/ AcqReadHead(t) \/ AcqCasFree(t) \/ AcqCasHeld(t) \/ AcqReadTail(t)
           \/ AcqCasTail(t) \/ AcqLink(t) \/ AcqSpin(t) \/ Own(t)
           \/ TestRead(t) \/ TestCas(t)
           \/ UnsetInner(t) \/ UnsetLast(t) \/ RelReadHead(t) \/ RelCasFree(t)
           \/ RelReadTail(t) \/ RelCasPop(t) \/ RelNext(t) \/ RelClear(t) \/ RelWake(t)

Next == /\ UNCHANGED program
        /\ \E t \in Threads :
          \/ Step(t)
          \/ \E l \in Locks : \/ InitLock(t, l) \/ DestroyLock(t, l)
                              \/ SetLock(t, l) \/ TestLock(t, l) \/ UnsetLock(t, l)

Spec == Init /\ [][Next]_vars

-----------------------------------------------------------------------------
Acquiring == {"acq_read", "acq_cas_free", "acq_cas_held", "acq_tail", "acq_cas_tail",
              "acq_link", "acq_spin"}
Releasing == {"rel_read", "rel_cas_free", "rel_tail", "rel_cas_pop", "rel_next",
              "rel_clear", "rel_wake"}

\* The variables keep their types; the depth of a nestable lock that is in use is
\* never negative, and a waiter is linked to threads only.
TypeOK == /\ initialized \in [Locks -> BOOLEAN]
          /\ head_id \in [Locks -> Threads \cup {0, -1}]
          /\ tail_id \in [Locks -> Threads \cup {0}]
          /\ owner_id \in [Locks -> Threads \cup {0}]
          /\ depth_locked \in [Locks -> Nat \cup {-1}]
          /\ spin_here \in [Threads -> BOOLEAN]
          /\ next_waiting \in [Threads -> Threads \cup {0}]
          /\ pc \in [Threads -> Acquiring \cup Releasing
                     \cup {"idle", "own", "test_read", "test_cas", "unset", "fatal"}]
          /\ lck \in [Threads -> Locks \cup {NoLock}]
          /\ head \in [Threads -> Threads \cup {0, -1}]
          /\ tail \in [Threads -> Threads \cup {0}]
          /\ held \in [Threads \X Locks -> Nat]

Inside(t, l) == Holds(t, l) \/ (lck[t] = l /\ pc[t] = "own")

\* The assertions of the acquire and release code: a thread enters it, and is
\* let go, with its th_spin_here and th_next_waiting at rest; it never finds
\* itself at the tail, and a release finds somebody to pass the lock to.  Nor do
\* the ownership checks of the entry points fail a lawful program, and the depth
\* of a nestable lock is the number of sets still to be unset.
AssertionsHold == \A t \in Threads :
  /\ pc[t] \in {"idle", "own", "test_read", "rel_read"} 
       => ~spin_here[t] /\ next_waiting[t] = 0
  /\ pc[t] = "acq_spin" /\ ~spin_here[t] => next_waiting[t] = 0
  /\ pc[t] = "acq_cas_tail" => tail[t] # t
  /\ pc[t] = "rel_tail" => head[t] # 0
  /\ pc[t] \in {"rel_cas_pop", "rel_next", "rel_clear"} => head[t] > 0 /\ tail[t] > 0
  /\ pc[t] # "fatal"
  /\ \A l \in NestLocks : pc[t] = "idle" /\ Holds(t, l) => depth_locked[l] = held[<<t, l>>]

\* The queue of a lock: from head_id along th_next_waiting to tail_id, across
\* the gap a waiter leaves between taking the tail and linking itself.  A
\* thread off the queue that has not yet seen its th_spin_here fall is first.
Linking(l, u) == {v \in Threads : pc[v] = "acq_link" /\ lck[v] = l /\ tail[v] = u}
Successor(l, u) == IF next_waiting[u] # 0 THEN next_waiting[u]
                   ELSE IF Linking(l, u) # {} THEN CHOOSE v \in Linking(l, u) : TRUE
                   ELSE 0
Chain(l) ==
  LET C[n \in 0 .. Cardinality(Threads)] ==
        IF n = 0 THEN IF head_id[l] > 0 THEN <<head_id[l]>> ELSE <<>>
        ELSE LET c == C[n - 1] IN
             IF c = <<>> \/ Successor(l, c[Len(c)]) = 0 THEN c
             ELSE Append(c, Successor(l, c[Len(c)]))
  IN C[Cardinality(Threads)]
Dequeued(l) == LET c == Chain(l)
               IN  {u \in Threads : /\ pc[u] = "acq_spin" /\ lck[u] = l
                                    /\ \A i \in DOMAIN c : c[i] # u}
Queue(l) == LET off == Dequeued(l)
            IN  (IF off = {} THEN <<>> ELSE <<CHOOSE u \in off : TRUE>>) \o Chain(l)

\* The linked list is the queue: it ends at tail_id, holds nobody twice, and
\* holds exactly the threads that have taken a place and not yet the lock.
QueueWellFormed == \A l \in Locks :
  LET c == Chain(l)
      on == {c[i] : i \in DOMAIN c}
      off == Dequeued(l)
  IN /\ tail_id[l] = IF c = <<>> THEN 0 ELSE c[Len(c)]
     /\ Cardinality(on) = Len(c)
     /\ Cardinality(off) <= 1
     /\ on \cup off = {t \in Threads : lck[t] = l /\ pc[t] \in {"acq_link", "acq_spin"}}

\* The lock of a program that uses only one is first-come first-served: a place
\* in the queue is taken by the compare-exchange on the tail and lost to nobody,
\* and the lock does not stay free while there is a queue.
Holder(l) == LET H == {t \in Threads : Inside(t, l)}
             IN  IF H = {} THEN 0 ELSE CHOOSE t \in H : TRUE
F(l) == INSTANCE FifoLock WITH
          NoThread <- 0,
          Nestable <- l \in NestLocks,
          holder <- Holder(l),
          level <- IF Holder(l) = 0 THEN 0 ELSE IF pc[Holder(l)] = "own" /\ lck[Holder(l)] = l THEN 1
                   ELSE held[<<Holder(l), l>>],
          queue <- Queue(l)
Stalled == \E t \in Threads : /\ pc[t] \in {"acq_link", "acq_spin"}
                             /\ program = {lck[t]}
                             /\ Holder(lck[t]) = 0
=============================================================================
