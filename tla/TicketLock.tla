----------------------------- MODULE TicketLock -----------------------------
(***************************************************************************)
(* The ticket (bakery) lock of runtime/src/kmp_lock.cpp: the checked entry *)
(* points of the simple lock and of the nestable lock, which differ in     *)
(* what a thread that already owns the lock may do.                        *)
(*                                                                         *)
(* The atomics are sequentially consistent here; a store only its own      *)
(* thread reads back is part of the step before it.  Tickets are naturals: *)
(* the bound MaxTicket stands for fewer than 2^32 acquisitions between     *)
(* init and destroy.                                                       *)
(***************************************************************************)
EXTENDS LockClients

VARIABLES initialized,   \* lk.initialized and lk.self
          next_ticket, now_serving, owner_id,
          depth_locked,  \* -1 for a simple lock
          my_ticket,     \* the local of that name, per thread
          pc,            \* where each thread is in the lock code
          held           \* sets a thread has not yet unset (the client's view)

lockVars == <<initialized, next_ticket, now_serving, owner_id, depth_locked>>
vars == <<lockVars, my_ticket, pc, held>>

Fresh == IF Nestable THEN 0 ELSE -1

Init == /\ initialized = FALSE
        /\ next_ticket = 0
        /\ now_serving = 0
        /\ owner_id = NoThread
        /\ depth_locked = Fresh
        /\ my_ticket = [t \in Threads |-> 0]
        /\ pc = [t \in Threads |-> "idle"]
        /\ held = [t \in Threads |-> 0]

Goto(t, label) == pc' = [pc EXCEPT ![t] = label]

Callers == {t \in Threads : pc[t] # "idle"}

\* Between calls the OpenMP rules leave a thread these choices: a simple lock
\* is not set twice, and only its holder unsets a lock.
MayCall(t) == /\ pc[t] = "idle"
              /\ initialized
              /\ next_ticket + Cardinality(Callers) < MaxTicket

MaySet(t) == MayCall(t) /\ (Nestable \/ held[t] = 0) /\ held[t] < MaxLevel

InitLock(t) ==
  /\ pc[t] = "idle"
  /\ ~initialized
  /\ initialized' = TRUE
  /\ next_ticket' = 0
  /\ now_serving' = 0
  /\ owner_id' = NoThread
  /\ depth_locked' = Fresh
  /\ UNCHANGED <<my_ticket, pc, held>>

\* The program destroys a lock that nobody uses.
DestroyLock(t) ==
  /\ initialized
  /\ \A u \in Threads : pc[u] = "idle" /\ held[u] = 0
  /\ IF owner_id # NoThread
       THEN Goto(t, "fatal") /\ UNCHANGED lockVars
       ELSE /\ initialized' = FALSE
            /\ next_ticket' = 0
            /\ now_serving' = 0
            /\ owner_id' = NoThread
            /\ depth_locked' = Fresh
            /\ UNCHANGED pc
  /\ UNCHANGED <<my_ticket, held>>

\* What a set or a test of a nestable lock does for the thread that owns it.
Reenter(t) ==
  /\ Nestable
  /\ owner_id = t
  /\ depth_locked' = depth_locked + 1
  /\ held' = [held EXCEPT ![t] = @ + 1]
  /\ UNCHANGED <<initialized, next_ticket, now_serving, owner_id, my_ticket, pc>>

\* omp_set_lock finds the caller registered as the owner: LockIsAlreadyOwned.
SetLock(t) ==
  /\ MaySet(t)
  /\ \/ Reenter(t)
     \/ /\ ~(Nestable /\ owner_id = t)
        /\ Goto(t, IF owner_id = t THEN "fatal" ELSE "take_ticket")
        /\ UNCHANGED <<lockVars, my_ticket, held>>

TakeTicket(t) ==
  /\ pc[t] = "take_ticket"
  /\ my_ticket' = [my_ticket EXCEPT ![t] = next_ticket]
  /\ next_ticket' = next_ticket + 1
  /\ Goto(t, "wait")
  /\ UNCHANGED <<initialized, now_serving, owner_id, depth_locked, held>>

BakeryCheck(t) ==
  /\ pc[t] = "wait"
  /\ now_serving = my_ticket[t]
  /\ Goto(t, "own")
  /\ UNCHANGED <<lockVars, my_ticket, held>>

\* Mutant of Own: the depth keeps the value it had before.
OwnKeepingDepth(t) ==
  /\ pc[t] = "own"
  /\ owner_id' = t
  /\ held' = [held EXCEPT ![t] = 1]
  /\ Goto(t, "idle")
  /\ UNCHANGED <<initialized, next_ticket, now_serving, depth_locked, my_ticket>>

\* The stores after a successful set or test.
Own(t) ==
  /\ pc[t] = "own"
  /\ depth_locked' = IF Nestable THEN 1 ELSE depth_locked
  /\ owner_id' = t
  /\ held' = [held EXCEPT ![t] = 1]
  /\ Goto(t, "idle")
  /\ UNCHANGED <<initialized, next_ticket, now_serving, my_ticket>>

TestLock(t) ==
  /\ MayCall(t) /\ (Nestable => held[t] < MaxLevel)
  /\ \/ Reenter(t)
     \/ /\ ~(Nestable /\ owner_id = t)
        /\ my_ticket' = [my_ticket EXCEPT ![t] = next_ticket]
        /\ Goto(t, "test_serving")
        /\ UNCHANGED <<lockVars, held>>

TestServing(t) ==
  /\ pc[t] = "test_serving"
  /\ Goto(t, IF now_serving = my_ticket[t] THEN "test_cas" ELSE "idle")
  /\ UNCHANGED <<lockVars, my_ticket, held>>

\* Mutant of TestCas: a store instead of the compare-exchange.
TestStore(t) ==
  /\ pc[t] = "test_cas"
  /\ next_ticket' = my_ticket[t] + 1
  /\ Goto(t, "own")
  /\ UNCHANGED <<initialized, now_serving, owner_id, depth_locked, my_ticket, held>>

TestCas(t) ==
  /\ pc[t] = "test_cas"
  /\ IF next_ticket = my_ticket[t]
       THEN next_ticket' = next_ticket + 1 /\ Goto(t, "own")
       ELSE UNCHANGED next_ticket /\ Goto(t, "idle")
  /\ UNCHANGED <<initialized, now_serving, owner_id, depth_locked, my_ticket, held>>

\* An unset by the holder: LockUnsettingFree and LockUnsettingSetByAnother.
UnsetLock(t) ==
  /\ pc[t] = "idle"
  /\ held[t] > 0
  /\ Goto(t, IF owner_id = t THEN "unset" ELSE "fatal")
  /\ UNCHANGED <<lockVars, my_ticket, held>>

\* Mutant of UnsetInner: every unset frees the lock.
UnsetInnerReleasing(t) ==
  /\ pc[t] = "unset"
  /\ Nestable /\ depth_locked # 1
  /\ depth_locked' = Fresh
  /\ owner_id' = NoThread
  /\ Goto(t, "release")
  /\ UNCHANGED <<initialized, next_ticket, now_serving, my_ticket, held>>

\* An unset that leaves the nestable lock set.
UnsetInner(t) ==
  /\ pc[t] = "unset"
  /\ Nestable /\ depth_locked # 1
  /\ depth_locked' = depth_locked - 1
  /\ held' = [held EXCEPT ![t] = @ - 1]
  /\ Goto(t, "idle")
  /\ UNCHANGED <<initialized, next_ticket, now_serving, owner_id, my_ticket>>

\* Mutant of UnsetLast: owner_id is not reset.
UnsetKeepingOwner(t) ==
  /\ pc[t] = "unset"
  /\ Nestable => depth_locked = 1
  /\ depth_locked' = Fresh
  /\ Goto(t, "release")
  /\ UNCHANGED <<initialized, next_ticket, now_serving, owner_id, my_ticket, held>>

\* The last unset gives up ownership before it serves the next ticket.
UnsetLast(t) ==
  /\ pc[t] = "unset"
  /\ Nestable => depth_locked = 1
  /\ depth_locked' = Fresh
  /\ owner_id' = NoThread
  /\ Goto(t, "release")
  /\ UNCHANGED <<initialized, next_ticket, now_serving, my_ticket, held>>

\* Mutants of Release: the counter moves the wrong way, or only when somebody waits.
ReleaseBackwards(t) ==
  /\ pc[t] = "release"
  /\ now_serving' = now_serving - 1
  /\ held' = [held EXCEPT ![t] = 0]
  /\ Goto(t, "idle")
  /\ UNCHANGED <<initialized, next_ticket, owner_id, depth_locked, my_ticket>>

ReleaseIfContended(t) ==
  /\ pc[t] = "release"
  /\ now_serving' = IF next_ticket - now_serving > 1 THEN now_serving + 1 ELSE now_serving
  /\ held' = [held EXCEPT ![t] = 0]
  /\ Goto(t, "idle")
  /\ UNCHANGED <<initialized, next_ticket, owner_id, depth_locked, my_ticket>>

Release(t) ==
  /\ pc[t] = "release"
  /\ now_serving' = now_serving + 1
  /\ held' = [held EXCEPT ![t] = 0]
  /\ Goto(t, "idle")
  /\ UNCHANGED <<initialized, next_ticket, owner_id, depth_locked, my_ticket>>

\* The lock code a thread runs without waiting for another call of the program.
Step(t) == \/ TakeTicket(t) \/ BakeryCheck(t) \/ Own(t)
           \/ TestServing(t) \/ TestCas(t)
           \/ UnsetInner(t) \/ UnsetLast(t) \/ Release(t)

Next == \E t \in Threads : \/ InitLock(t) \/ DestroyLock(t)
                           \/ SetLock(t) \/ TestLock(t) \/ UnsetLock(t)
                           \/ Step(t)

Spec == Init /\ [][Next]_vars

-----------------------------------------------------------------------------
Locations == {"idle", "take_ticket", "wait", "own", "test_serving", "test_cas",
              "unset", "release", "fatal"}

\* The variables keep their types: tickets are naturals, and owner_id is a thread
\* or nobody.
TypeOK == /\ initialized \in BOOLEAN
          /\ next_ticket \in Nat
          /\ now_serving \in Nat
          /\ owner_id \in Threads \cup {NoThread}
          /\ depth_locked \in Nat \cup {-1}
          /\ my_ticket \in [Threads -> Nat]
          /\ pc \in [Threads -> Locations]
          /\ held \in [Threads -> Nat]

\* The thread has the lock, whatever it is doing with it.
Inside(t) == pc[t] \in {"own", "release"} \/ held[t] > 0

\* Two threads never hold the lock together: the ticket handed out by the
\* fetch_add of a set or by the compare-exchange of a test is served to one.
MutualExclusion == \A t, u \in Threads : Inside(t) /\ Inside(u) => t = u

\* A program that follows the rules never runs into a fatal error of the
\* checked entry points: owner_id is never seen stale by the thread that
\* compares itself with it.
NoSpuriousFatal == \A t \in Threads : pc[t] # "fatal"

\* The depth the lock counts is the number of sets the holder has to unset.
DepthIsHeld == \A t \in Threads : 
                 Nestable /\ held[t] > 0 /\ pc[t] = "idle" => depth_locked = held[t]

\* The lock implements FifoLock: a ticket is a place in the queue.
Holders == {t \in Threads : Inside(t)}
Holder == IF Holders = {} THEN NoThread ELSE CHOOSE t \in Holders : TRUE
Level == IF Holders = {} THEN 0 ELSE IF pc[Holder] = "own" THEN 1 ELSE held[Holder]
FirstWaiting == IF Holders = {} THEN now_serving ELSE now_serving + 1
Waiter(k) == LET W == {t \in Threads : pc[t] = "wait" /\ my_ticket[t] = k}
             IN  IF W = {} THEN NoThread ELSE CHOOSE t \in W : TRUE
Queue == [i \in 1 .. next_ticket - FirstWaiting |-> Waiter(FirstWaiting + i - 1)]

F == INSTANCE FifoLock WITH holder <- Holder, level <- Level, queue <- Queue
=============================================================================
