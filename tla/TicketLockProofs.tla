--------------------------- MODULE TicketLockProofs ---------------------------
(***************************************************************************)
(* Mutual exclusion, order and the absence of spurious fatal errors of the *)
(* ticket lock, for any finite set of threads and both kinds of lock.      *)
(***************************************************************************)
EXTENDS TicketLock, Sequences, TLAPS

\* Tickets are served in turn, and while a thread is inside its ticket is: it has
\* been handed out, and the next one is not served yet.
Serving ==
  /\ now_serving <= next_ticket
  /\ \A t \in Threads : Inside(t) => now_serving < next_ticket

\* A waiter's ticket is handed out, not served before, and nobody else's; it
\* is not the one being served while a thread is inside.
Waiting ==
  /\ \A t \in Threads : pc[t] = "wait" => /\ now_serving <= my_ticket[t]
                                          /\ my_ticket[t] < next_ticket
  /\ \A t, u \in Threads : pc[t] = "wait" /\ pc[u] = "wait" /\ t # u
                             => my_ticket[t] # my_ticket[u]
  /\ \A t, u \in Threads : Inside(t) /\ pc[u] = "wait" => my_ticket[u] # now_serving

\* A test that saw the lock free holds a ticket number that was served.
Testing == \A t \in Threads : pc[t] = "test_cas" => my_ticket[t] <= now_serving

\* owner_id names the thread that holds the lock outside of the lock code.
Settled == {"idle", "unset", "test_serving", "test_cas"}
Owner == \A t \in Threads :
           /\ pc[t] # "fatal"
           /\ owner_id = t <=> pc[t] \in Settled /\ held[t] > 0
           /\ pc[t] \in {"take_ticket", "wait", "own"} => held[t] = 0
           /\ pc[t] \in {"unset", "release"} => held[t] > 0

\* Nobody is in the code of a lock that is not initialised.
Unused == ~initialized => \A t \in Threads : pc[t] = "idle" /\ held[t] = 0

\* The depth counts the sets the holder has to unset.
Depth == \A t \in Threads :
           Nestable /\ pc[t] \in Settled /\ held[t] > 0 => depth_locked = held[t]

\* The inductive invariant: what is known of the tickets, and of the owner.
Tickets == MutualExclusion /\ Serving /\ Waiting /\ Testing
Ownership == Owner /\ Depth /\ Unused
IInv == TypeOK /\ Tickets /\ Ownership

\* Initially the lock is not even initialised, and no thread is in its code.
LEMMA InitEstablishes == Init => IInv
<1> SUFFICES ASSUME Init PROVE IInv
  OBVIOUS
<1> USE DEF Init
<1>1. TypeOK
  BY DEF TypeOK, Locations, Fresh
<1>2. \A t \in Threads : ~Inside(t) /\ pc[t] = "idle" /\ held[t] = 0 /\ owner_id # t
  BY ClientAssumption DEF Inside
<1>3. MutualExclusion /\ Serving /\ Waiting /\ Testing /\ Depth /\ Unused
  BY <1>1, <1>2 DEF MutualExclusion, Serving, Waiting, Testing, Depth, Unused, TypeOK
<1>4. Owner
  BY <1>2 DEF Owner
<1> QED
  BY <1>1, <1>3, <1>4 DEF IInv, Tickets, Ownership

\* A set or a test by the owner of a nestable lock counts one level more.
LEMMA ReenterKeeps == ASSUME IInv, NEW t \in Threads, pc[t] = "idle", initialized, Reenter(t)
                      PROVE  IInv'
<1>1. /\ Nestable /\ owner_id = t /\ depth_locked' = depth_locked + 1
      /\ held' = [held EXCEPT ![t] = held[t] + 1]
      /\ UNCHANGED <<initialized, next_ticket, now_serving, owner_id, my_ticket, pc>>
  BY DEF Reenter
<1>2. held[t] > 0 /\ depth_locked = held[t]
  BY <1>1 DEF IInv, Ownership, Owner, Depth, Settled
<1>3. TypeOK'
  BY <1>1, <1>2, ClientAssumption DEF IInv, TypeOK, Locations, Fresh
<1>4. Tickets'
  BY <1>1, <1>2, ClientAssumption
  DEF IInv, TypeOK, Tickets, MutualExclusion, Serving, Waiting, Testing, Ownership, Owner, Inside
<1>5. Ownership'
  BY <1>1, <1>2, ClientAssumption
  DEF IInv, TypeOK, Tickets, MutualExclusion, Ownership, Owner, Depth, Unused, Inside, Settled
<1> QED
  BY <1>3, <1>4, <1>5 DEF IInv

\* Nobody can be in the code of a lock that is made only now.
LEMMA InitLockKeeps == ASSUME IInv, NEW t \in Threads, InitLock(t) PROVE IInv'
<1>1. /\ ~initialized /\ initialized' = TRUE /\ next_ticket' = 0 /\ now_serving' = 0
      /\ owner_id' = NoThread /\ depth_locked' = Fresh /\ UNCHANGED <<my_ticket, pc, held>>
  BY DEF InitLock
<1>2. \A u \in Threads : pc[u] = "idle" /\ held[u] = 0
  BY <1>1 DEF IInv, Ownership, Unused
<1>3. TypeOK'
  BY <1>1, <1>2, ClientAssumption DEF IInv, TypeOK, Locations, Fresh
<1>4. Tickets'
  BY <1>1, <1>2, ClientAssumption
  DEF IInv, TypeOK, Tickets, MutualExclusion, Serving, Waiting, Testing, Ownership, Owner, Inside
<1>5. Ownership'
  BY <1>1, <1>2, ClientAssumption
  DEF IInv, TypeOK, Tickets, MutualExclusion, Ownership, Owner, Depth, Unused, Inside, Settled
<1> QED
  BY <1>3, <1>4, <1>5 DEF IInv

\* A lock that nobody uses has no owner: its destruction does not fail.
LEMMA DestroyLockKeeps == ASSUME IInv, NEW t \in Threads, DestroyLock(t) PROVE IInv'
<1>1. \A u \in Threads : pc[u] = "idle" /\ held[u] = 0
  BY DEF DestroyLock
<1>2. owner_id = NoThread
  BY <1>1 DEF IInv, TypeOK, Ownership, Owner, Settled
<1>3. /\ initialized' = FALSE /\ next_ticket' = 0 /\ now_serving' = 0
      /\ owner_id' = NoThread /\ depth_locked' = Fresh /\ UNCHANGED <<my_ticket, pc, held>>
  BY <1>2 DEF DestroyLock
<1>4. TypeOK'
  BY <1>1, <1>3, ClientAssumption DEF IInv, TypeOK, Locations, Fresh
<1>5. Tickets'
  BY <1>1, <1>3, ClientAssumption
  DEF IInv, TypeOK, Tickets, MutualExclusion, Serving, Waiting, Testing, Ownership, Owner, Inside
<1>6. Ownership'
  BY <1>1, <1>3, ClientAssumption
  DEF IInv, TypeOK, Tickets, MutualExclusion, Ownership, Owner, Depth, Unused, Inside, Settled
<1> QED
  BY <1>4, <1>5, <1>6 DEF IInv

\* A set goes in by the owner's way or takes a ticket; it does not fail.
LEMMA SetLockKeeps == ASSUME IInv, NEW t \in Threads, SetLock(t) PROVE IInv'
<1>1. pc[t] = "idle" /\ initialized /\ (Nestable \/ held[t] = 0)
  BY DEF SetLock, MaySet, MayCall
<1>2. CASE Reenter(t)
  BY <1>1, <1>2, ReenterKeeps
<1>3. CASE ~Reenter(t)
  <2>1. ~(Nestable /\ owner_id = t) /\ UNCHANGED <<lockVars, my_ticket, held>>
    BY <1>3 DEF SetLock
  <2>2. owner_id # t /\ held[t] = 0
    BY <1>1, <2>1 DEF IInv, TypeOK, Ownership, Owner, Settled
  <2>3. pc' = [pc EXCEPT ![t] = "take_ticket"]
    BY <1>3, <2>2 DEF SetLock, Goto
  <2>4. TypeOK'
    BY <1>1, <2>1, <2>2, <2>3, ClientAssumption DEF lockVars, IInv, TypeOK, Locations, Fresh
  <2>5. Tickets'
    BY <1>1, <2>1, <2>2, <2>3, ClientAssumption
    DEF lockVars, IInv, TypeOK, Tickets, MutualExclusion, Serving, Waiting, Testing, Ownership,
        Owner, Inside
  <2>6. Ownership'
    BY <1>1, <2>1, <2>2, <2>3, ClientAssumption
    DEF lockVars, IInv, TypeOK, Tickets, MutualExclusion, Ownership, Owner, Depth, Unused,
        Inside, Settled
  <2> QED
    BY <2>4, <2>5, <2>6 DEF IInv
<1> QED
  BY <1>2, <1>3

\* A test goes in by the owner's way or remembers next_ticket.
LEMMA TestLockKeeps == ASSUME IInv, NEW t \in Threads, TestLock(t) PROVE IInv'
<1>1. pc[t] = "idle" /\ initialized
  BY DEF TestLock, MayCall
<1>2. CASE Reenter(t)
  BY <1>1, <1>2, ReenterKeeps
<1>3. CASE ~Reenter(t)
  <2>1. /\ pc' = [pc EXCEPT ![t] = "test_serving"]
        /\ my_ticket' = [my_ticket EXCEPT ![t] = next_ticket]
        /\ UNCHANGED <<lockVars, held>>
    BY <1>3 DEF TestLock, Goto
  <2>2. TypeOK'
    BY <1>1, <2>1, ClientAssumption DEF lockVars, IInv, TypeOK, Locations, Fresh
  <2>3. Tickets'
    BY <1>1, <2>1, ClientAssumption
    DEF lockVars, IInv, TypeOK, Tickets, MutualExclusion, Serving, Waiting, Testing, Ownership,
        Owner, Inside
  <2>4. Ownership'
    BY <1>1, <2>1, ClientAssumption
    DEF lockVars, IInv, TypeOK, Tickets, MutualExclusion, Ownership, Owner, Depth, Unused,
        Inside, Settled
  <2> QED
    BY <2>2, <2>3, <2>4 DEF IInv
<1> QED
  BY <1>2, <1>3

\* The ownership check of an unset does not fail.
LEMMA UnsetLockKeeps == ASSUME IInv, NEW t \in Threads, UnsetLock(t) PROVE IInv'
<1>1. pc[t] = "idle" /\ held[t] > 0 /\ UNCHANGED <<lockVars, my_ticket, held>>
  BY DEF UnsetLock
<1>2. owner_id = t
  BY <1>1 DEF IInv, Ownership, Owner, Settled
<1>3. pc' = [pc EXCEPT ![t] = "unset"]
  BY <1>2 DEF UnsetLock, Goto
<1>4. TypeOK'
  BY <1>1, <1>2, <1>3, ClientAssumption DEF lockVars, IInv, TypeOK, Locations, Fresh
<1>5. Tickets'
  BY <1>1, <1>2, <1>3, ClientAssumption
  DEF lockVars, IInv, TypeOK, Tickets, MutualExclusion, Serving, Waiting, Testing, Ownership,
      Owner, Inside
<1>6. Ownership'
  BY <1>1, <1>2, <1>3, ClientAssumption
  DEF lockVars, IInv, TypeOK, Tickets, MutualExclusion, Ownership, Owner, Depth, Unused, Inside,
      Settled
<1> QED
  BY <1>4, <1>5, <1>6 DEF IInv

\* A ticket is new: no waiter has it, and it is served only to an empty lock.
LEMMA TakeTicketKeeps == ASSUME IInv, NEW t \in Threads, TakeTicket(t) PROVE IInv'
<1>1. /\ pc[t] = "take_ticket" /\ pc' = [pc EXCEPT ![t] = "wait"]
      /\ my_ticket' = [my_ticket EXCEPT ![t] = next_ticket] /\ next_ticket' = next_ticket + 1
      /\ UNCHANGED <<initialized, now_serving, owner_id, depth_locked, held>>
  BY DEF TakeTicket, Goto
<1>2. TypeOK'
  BY <1>1, ClientAssumption DEF IInv, TypeOK, Locations, Fresh
<1>3. Tickets'
  BY <1>1, ClientAssumption
  DEF IInv, TypeOK, Tickets, MutualExclusion, Serving, Waiting, Testing, Ownership, Owner, Inside
<1>4. Ownership'
  BY <1>1, ClientAssumption
  DEF IInv, TypeOK, Tickets, MutualExclusion, Ownership, Owner, Depth, Unused, Inside, Settled
<1> QED
  BY <1>2, <1>3, <1>4 DEF IInv

\* Who is served finds nobody inside.
LEMMA BakeryCheckKeeps == ASSUME IInv, NEW t \in Threads, BakeryCheck(t) PROVE IInv'
<1>1. /\ pc[t] = "wait" /\ now_serving = my_ticket[t] /\ pc' = [pc EXCEPT ![t] = "own"]
      /\ UNCHANGED <<lockVars, my_ticket, held>>
  BY DEF BakeryCheck, Goto
<1>2. TypeOK'
  BY <1>1, ClientAssumption DEF lockVars, IInv, TypeOK, Locations, Fresh
<1>3. Tickets'
  BY <1>1, ClientAssumption
  DEF lockVars, IInv, TypeOK, Tickets, MutualExclusion, Serving, Waiting, Testing, Ownership,
      Owner, Inside
<1>4. Ownership'
  BY <1>1, ClientAssumption
  DEF lockVars, IInv, TypeOK, Tickets, MutualExclusion, Ownership, Owner, Depth, Unused, Inside,
      Settled
<1> QED
  BY <1>2, <1>3, <1>4 DEF IInv

\* The holder registers as the owner.
LEMMA OwnKeeps == ASSUME IInv, NEW t \in Threads, Own(t) PROVE IInv'
<1>1. /\ pc[t] = "own" /\ pc' = [pc EXCEPT ![t] = "idle"] /\ held' = [held EXCEPT ![t] = 1]
      /\ owner_id' = t /\ depth_locked' = IF Nestable THEN 1 ELSE depth_locked
      /\ UNCHANGED <<initialized, next_ticket, now_serving, my_ticket>>
  BY DEF Own, Goto
<1>2. TypeOK'
  BY <1>1, ClientAssumption DEF IInv, TypeOK, Locations, Fresh
<1>3. Tickets'
  BY <1>1, ClientAssumption
  DEF IInv, TypeOK, Tickets, MutualExclusion, Serving, Waiting, Testing, Ownership, Owner, Inside
<1>4. Ownership'
  BY <1>1, ClientAssumption
  DEF IInv, TypeOK, Tickets, MutualExclusion, Ownership, Owner, Depth, Unused, Inside, Settled
<1> QED
  BY <1>2, <1>3, <1>4 DEF IInv

\* A test that goes on has seen its number served.
LEMMA TestServingKeeps == ASSUME IInv, NEW t \in Threads, TestServing(t) PROVE IInv'
<1>1. /\ pc[t] = "test_serving"
      /\ pc' = [pc EXCEPT ![t] = IF now_serving = my_ticket[t] THEN "test_cas" ELSE "idle"]
      /\ UNCHANGED <<lockVars, my_ticket, held>>
  BY DEF TestServing, Goto
<1>2. TypeOK'
  BY <1>1, ClientAssumption DEF lockVars, IInv, TypeOK, Locations, Fresh
<1>3. Tickets'
  BY <1>1, ClientAssumption
  DEF lockVars, IInv, TypeOK, Tickets, MutualExclusion, Serving, Waiting, Testing, Ownership,
      Owner, Inside
<1>4. Ownership'
  BY <1>1, ClientAssumption
  DEF lockVars, IInv, TypeOK, Tickets, MutualExclusion, Ownership, Owner, Depth, Unused, Inside,
      Settled
<1> QED
  BY <1>2, <1>3, <1>4 DEF IInv

\* The compare-exchange gets in only if the number it saw served is the next.
LEMMA TestCasKeeps == ASSUME IInv, NEW t \in Threads, TestCas(t) PROVE IInv'
<1>1. /\ pc[t] = "test_cas"
      /\ UNCHANGED <<initialized, now_serving, owner_id, depth_locked, my_ticket, held>>
  BY DEF TestCas
<1>2. CASE next_ticket # my_ticket[t]
  <2>1. pc' = [pc EXCEPT ![t] = "idle"] /\ next_ticket' = next_ticket
    BY <1>2 DEF TestCas, Goto
  <2>2. TypeOK'
    BY <1>1, <2>1, ClientAssumption DEF IInv, TypeOK, Locations, Fresh
  <2>3. Tickets'
    BY <1>1, <2>1, ClientAssumption
    DEF IInv, TypeOK, Tickets, MutualExclusion, Serving, Waiting, Testing, Ownership, Owner,
        Inside
  <2>4. Ownership'
    BY <1>1, <2>1, ClientAssumption
    DEF IInv, TypeOK, Tickets, MutualExclusion, Ownership, Owner, Depth, Unused, Inside, Settled
  <2> QED
    BY <2>2, <2>3, <2>4 DEF IInv
<1>3. CASE next_ticket = my_ticket[t]
  <2>1. pc' = [pc EXCEPT ![t] = "own"] /\ next_ticket' = next_ticket + 1
    BY <1>3 DEF TestCas, Goto
  <2>2. next_ticket = now_serving /\ \A u \in Threads : ~Inside(u) /\ pc[u] # "wait"
    BY <1>1, <1>3 DEF IInv, TypeOK, Tickets, Serving, Waiting, Testing
  <2>3. TypeOK'
    BY <1>1, <2>1, <2>2, ClientAssumption DEF IInv, TypeOK, Locations, Fresh
  <2>4. Tickets'
    BY <1>1, <2>1, <2>2, ClientAssumption
    DEF IInv, TypeOK, Tickets, MutualExclusion, Serving, Waiting, Testing, Ownership, Owner,
        Inside
  <2>5. Ownership'
    BY <1>1, <2>1, <2>2, ClientAssumption
    DEF IInv, TypeOK, Tickets, MutualExclusion, Ownership, Owner, Depth, Unused, Inside, Settled
  <2> QED
    BY <2>3, <2>4, <2>5 DEF IInv
<1> QED
  BY <1>2, <1>3

\* An inner unset takes one level off.
LEMMA UnsetInnerKeeps == ASSUME IInv, NEW t \in Threads, UnsetInner(t) PROVE IInv'
<1>1. /\ pc[t] = "unset" /\ Nestable /\ depth_locked # 1 /\ pc' = [pc EXCEPT ![t] = "idle"]
      /\ depth_locked' = depth_locked - 1 /\ held' = [held EXCEPT ![t] = held[t] - 1]
      /\ UNCHANGED <<initialized, next_ticket, now_serving, owner_id, my_ticket>>
  BY DEF UnsetInner, Goto
<1>2. held[t] > 1 /\ depth_locked = held[t] /\ owner_id = t
  BY <1>1 DEF IInv, TypeOK, Ownership, Owner, Depth, Settled
<1>3. TypeOK'
  BY <1>1, <1>2, ClientAssumption DEF IInv, TypeOK, Locations, Fresh
<1>4. Tickets'
  BY <1>1, <1>2, ClientAssumption
  DEF IInv, TypeOK, Tickets, MutualExclusion, Serving, Waiting, Testing, Ownership, Owner, Inside
<1>5. Ownership'
  BY <1>1, <1>2, ClientAssumption
  DEF IInv, TypeOK, Tickets, MutualExclusion, Ownership, Owner, Depth, Unused, Inside, Settled
<1> QED
  BY <1>3, <1>4, <1>5 DEF IInv

\* The last unset gives up ownership while its ticket is still being served.
LEMMA UnsetLastKeeps == ASSUME IInv, NEW t \in Threads, UnsetLast(t) PROVE IInv'
<1>1. /\ pc[t] = "unset" /\ pc' = [pc EXCEPT ![t] = "release"]
      /\ depth_locked' = Fresh /\ owner_id' = NoThread
      /\ UNCHANGED <<initialized, next_ticket, now_serving, my_ticket, held>>
  BY DEF UnsetLast, Goto
<1>2. TypeOK'
  BY <1>1, ClientAssumption DEF IInv, TypeOK, Locations, Fresh
<1>3. Tickets'
  BY <1>1, ClientAssumption
  DEF IInv, TypeOK, Tickets, MutualExclusion, Serving, Waiting, Testing, Ownership, Owner, Inside
<1>4. Ownership'
  BY <1>1, ClientAssumption
  DEF IInv, TypeOK, Tickets, MutualExclusion, Ownership, Owner, Depth, Unused, Inside, Settled
<1> QED
  BY <1>2, <1>3, <1>4 DEF IInv

\* The next ticket is served when nobody is inside any more.
LEMMA ReleaseKeeps == ASSUME IInv, NEW t \in Threads, Release(t) PROVE IInv'
<1>1. /\ pc[t] = "release" /\ pc' = [pc EXCEPT ![t] = "idle"] /\ held' = [held EXCEPT ![t] = 0]
      /\ now_serving' = now_serving + 1
      /\ UNCHANGED <<initialized, next_ticket, owner_id, depth_locked, my_ticket>>
  BY DEF Release, Goto
<1>2. TypeOK'
  BY <1>1, ClientAssumption DEF IInv, TypeOK, Locations, Fresh
<1>3. Tickets'
  BY <1>1, ClientAssumption
  DEF IInv, TypeOK, Tickets, MutualExclusion, Serving, Waiting, Testing, Ownership, Owner, Inside
<1>4. Ownership'
  BY <1>1, ClientAssumption
  DEF IInv, TypeOK, Tickets, MutualExclusion, Ownership, Owner, Depth, Unused, Inside, Settled
<1> QED
  BY <1>2, <1>3, <1>4 DEF IInv

\* Every step of every thread keeps the inductive invariant.
LEMMA NextPreserves == IInv /\ [Next]_vars => IInv'
<1>1. IInv /\ UNCHANGED vars => IInv'
  BY DEF vars, lockVars, IInv, TypeOK, Tickets, Ownership, Depth, Unused, MutualExclusion,
         Serving, Waiting, Testing, Owner, Inside
<1> QED
  BY <1>1, InitLockKeeps, DestroyLockKeeps, SetLockKeeps, TestLockKeeps, UnsetLockKeeps,
     TakeTicketKeeps, BakeryCheckKeeps, OwnKeeps, TestServingKeeps, TestCasKeeps,
     UnsetInnerKeeps, UnsetLastKeeps, ReleaseKeeps
  DEF Next, Step

\* The inductive invariant holds in every reachable state.
LEMMA Invariance == Spec => []IInv
<1>1. Init => IInv
  BY InitEstablishes
<1>2. IInv /\ [Next]_vars => IInv'
  BY NextPreserves
<1> QED
  BY <1>1, <1>2, PTL DEF Spec

\* Two threads never hold the ticket lock together.
THEOREM TicketMutualExclusion == Spec => []MutualExclusion
<1>1. IInv => MutualExclusion
  BY DEF IInv, Tickets
<1> QED
  BY <1>1, Invariance, PTL

\* The ownership checks never fail in a program that follows the rules.
THEOREM TicketNoSpuriousFatal == Spec => []NoSpuriousFatal
<1>1. IInv => NoSpuriousFatal
  BY DEF IInv, Ownership, Owner, NoSpuriousFatal
<1> QED
  BY <1>1, Invariance, PTL

\* The nest depth is the number of sets the holder has to unset.
THEOREM TicketDepth == Spec => []DepthIsHeld
<1>1. IInv => DepthIsHeld
  BY DEF IInv, Ownership, Depth, DepthIsHeld, Settled
<1> QED
  BY <1>1, Invariance, PTL

\* The variables of the ticket lock keep their types.
THEOREM TicketTypeCorrect == Spec => []TypeOK
<1>1. IInv => TypeOK
  BY DEF IInv
<1> QED
  BY <1>1, Invariance, PTL

\* Waiters get the lock in the order of their tickets: who is let in has a lower
\* one than anybody who goes on waiting.
THEOREM TicketOrder ==
  Spec => [][\A t, u \in Threads :
               pc[t] = "wait" /\ pc'[t] = "own" /\ pc[u] = "wait" /\ u # t
                 => my_ticket[t] < my_ticket[u]]_vars
<1>1. ASSUME IInv, Next, NEW t \in Threads, NEW u \in Threads,
             pc[t] = "wait", pc'[t] = "own", pc[u] = "wait", u # t
      PROVE  my_ticket[t] < my_ticket[u]
  <2>1. now_serving = my_ticket[t]
    <3>1. PICK v \in Threads : \/ InitLock(v) \/ DestroyLock(v)
                               \/ SetLock(v) \/ TestLock(v) \/ UnsetLock(v) \/ Step(v)
      BY <1>1 DEF Next
    <3> QED
      BY <1>1, <3>1
      DEF InitLock, DestroyLock, SetLock, TestLock, UnsetLock, Step, Reenter, MaySet, MayCall,
          TakeTicket, BakeryCheck, Own, TestServing, TestCas, UnsetInner, UnsetLast, Release,
          Goto, IInv, TypeOK
  <2> QED
    BY <1>1, <2>1 DEF IInv, TypeOK, Tickets, Waiting
<1>2. IInv /\ [Next]_vars =>
        [\A t, u \in Threads :
           pc[t] = "wait" /\ pc'[t] = "own" /\ pc[u] = "wait" /\ u # t
             => my_ticket[t] < my_ticket[u]]_vars
  BY <1>1
<1> QED
  BY <1>2, Invariance, PTL DEF Spec
-----------------------------------------------------------------------------
\* Every ticket that is handed out and not yet served has a thread that waits with it,
\* the sets of a thread that releases are down to one, and a simple lock is set once.
Covered == \A k \in Nat : FirstWaiting <= k /\ k < next_ticket
                            => \E t \in Threads : pc[t] = "wait" /\ my_ticket[t] = k
Counts == \A t \in Threads : /\ pc[t] = "release" => held[t] = 1
                             /\ ~Nestable => held[t] <= 1

LEMMA CountsKept == IInv /\ Counts /\ [Next]_vars => Counts'
<1> SUFFICES ASSUME IInv, Counts, [Next]_vars PROVE Counts'
  OBVIOUS
<1>0. pc \in [Threads -> Locations] /\ held \in [Threads -> Nat]
  BY DEF IInv, TypeOK
<1>1. ASSUME NEW t \in Threads, InitLock(t) \/ DestroyLock(t)
      PROVE  Counts'
  BY <1>0, <1>1 DEF InitLock, DestroyLock, Goto, Counts
<1>2. ASSUME NEW t \in Threads, SetLock(t) \/ TestLock(t) \/ UnsetLock(t)
      PROVE  Counts'
  <2>1. CASE Reenter(t)
    BY <1>0, <1>2, <2>1
    DEF Reenter, SetLock, TestLock, UnsetLock, MaySet, MayCall, Counts
  <2>2. CASE ~Reenter(t)
    <3>1. held' = held /\ \E place \in {"fatal", "take_ticket", "test_serving", "unset"} :
                            pc' = [pc EXCEPT ![t] = place]
      BY <1>2, <2>2 DEF SetLock, TestLock, UnsetLock, Goto
    <3> QED
      BY <1>0, <3>1 DEF Counts
  <2> QED
    BY <2>1, <2>2
<1>3. ASSUME NEW t \in Threads,
             TakeTicket(t) \/ BakeryCheck(t) \/ TestServing(t) \/ TestCas(t)
      PROVE  Counts'
  <2>1. held' = held /\ \E place \in {"wait", "own", "test_cas", "idle"} :
                          pc' = [pc EXCEPT ![t] = place]
    BY <1>3 DEF TakeTicket, BakeryCheck, TestServing, TestCas, Goto
  <2> QED
    BY <1>0, <2>1 DEF Counts
<1>4. ASSUME NEW t \in Threads, Own(t) \/ UnsetInner(t) \/ Release(t)
      PROVE  Counts'
  <2>1. /\ pc' = [pc EXCEPT ![t] = "idle"]
        /\ \/ held' = [held EXCEPT ![t] = 1]
           \/ held' = [held EXCEPT ![t] = 0]
           \/ held' = [held EXCEPT ![t] = @ - 1] /\ Nestable
    BY <1>4 DEF Own, UnsetInner, Release, Goto
  <2> QED
    BY <1>0, <2>1 DEF Counts
<1>5. ASSUME NEW t \in Threads, UnsetLast(t)
      PROVE  Counts'
  <2>1. /\ pc[t] = "unset" /\ pc' = [pc EXCEPT ![t] = "release"] /\ held' = held
        /\ Nestable => depth_locked = 1
    BY <1>5 DEF UnsetLast, Goto
  <2>2. held[t] > 0 /\ (Nestable => depth_locked = held[t])
    BY <2>1 DEF IInv, Ownership, Owner, Depth, Settled
  <2>3. held[t] = 1
    BY <1>0, <2>1, <2>2 DEF Counts
  <2> QED
    BY <1>0, <2>1, <2>3 DEF Counts
<1>6. CASE UNCHANGED vars
  BY <1>6 DEF vars, Counts
<1> QED
  BY <1>1, <1>2, <1>3, <1>4, <1>5, <1>6 DEF Next, Step

\* What FifoLock sees of the lock while a thread is inside, and while none is.
LEMMA WithHolder ==
  ASSUME MutualExclusion, NEW t \in Threads, Inside(t)
  PROVE  /\ Holder = t /\ Level = IF pc[t] = "own" THEN 1 ELSE held[t]
         /\ FirstWaiting = now_serving + 1
<1>1. Holders = {t}
  BY DEF Holders, MutualExclusion
<1>2. Holder = t
  BY <1>1 DEF Holders, Holder
<1> QED
  BY <1>1, <1>2 DEF Level, FirstWaiting

LEMMA WithoutHolder ==
  ASSUME \A t \in Threads : ~Inside(t)
  PROVE  Holder = NoThread /\ Level = 0 /\ FirstWaiting = now_serving
<1>1. Holders = {}
  BY DEF Holders
<1> QED
  BY <1>1 DEF Holder, Level, FirstWaiting

\* A step that lets nobody in or out.
LEMMA SameHolder ==
  ASSUME \A t \in Threads : Inside(t)' <=> Inside(t), now_serving' = now_serving
  PROVE  Holder' = Holder /\ FirstWaiting' = FirstWaiting /\ Holders' = Holders
<1>1. Holders' = Holders
  BY DEF Holders
<1> QED
  BY <1>1 DEF Holder, FirstWaiting

\* The same after the step.
LEMMA WithHolderNext ==
  ASSUME MutualExclusion', NEW t \in Threads, Inside(t)'
  PROVE  /\ Holder' = t /\ Level' = IF pc'[t] = "own" THEN 1 ELSE held'[t]
         /\ FirstWaiting' = now_serving' + 1
<1>1. Holders' = {t}
  BY DEF Holders, MutualExclusion
<1>2. Holder' = t
  BY <1>1 DEF Holders, Holder
<1> QED
  BY <1>1, <1>2 DEF Level, FirstWaiting

LEMMA WithoutHolderNext ==
  ASSUME \A t \in Threads : ~Inside(t)'
  PROVE  Holder' = NoThread /\ Level' = 0 /\ FirstWaiting' = now_serving'
<1>1. Holders' = {}
  BY DEF Holders
<1> QED
  BY <1>1 DEF Holder, Level, FirstWaiting
\* The queue of FifoLock has the waiters, each at the place its ticket gives it.
Line == TypeOK /\ Tickets /\ Covered
Places == next_ticket - FirstWaiting
InLine == /\ FirstWaiting \in Nat /\ Places \in Nat
          /\ Queue \in Seq(Threads) /\ Len(Queue) = Places
          /\ \A i \in 1 .. Places : /\ pc[Queue[i]] = "wait"
                                    /\ my_ticket[Queue[i]] = FirstWaiting + i - 1
          /\ \A t \in Threads : pc[t] = "wait" => /\ my_ticket[t] - FirstWaiting + 1 \in 1 .. Places
                                                  /\ Queue[my_ticket[t] - FirstWaiting + 1] = t

LEMMA LineIsQueue == Line => InLine
<1> SUFFICES ASSUME Line PROVE InLine
  OBVIOUS
<1>1. /\ next_ticket \in Nat /\ now_serving \in Nat /\ my_ticket \in [Threads -> Nat]
      /\ now_serving <= next_ticket
      /\ FirstWaiting \in {now_serving, now_serving + 1}
      /\ Holders # {} => now_serving < next_ticket
      /\ Holders = {} <=> FirstWaiting = now_serving
  BY DEF Line, TypeOK, Tickets, Serving, FirstWaiting, Holders
<1>2. FirstWaiting \in Nat /\ FirstWaiting <= next_ticket /\ Places \in Nat
  BY <1>1 DEF Places
<1>3. ASSUME NEW k \in Nat, FirstWaiting <= k, k < next_ticket
      PROVE  Waiter(k) \in Threads /\ pc[Waiter(k)] = "wait" /\ my_ticket[Waiter(k)] = k
  <2> DEFINE W == {t \in Threads : pc[t] = "wait" /\ my_ticket[t] = k}
  <2>1. W # {}
    BY <1>3 DEF Line, Covered
  <2>2. (CHOOSE t \in W : TRUE) \in W
    BY <2>1
  <2>3. Waiter(k) = CHOOSE t \in W : TRUE
    BY <2>1 DEF Waiter
  <2> QED
    BY <2>2, <2>3
<1>4. ASSUME NEW i \in 1 .. Places
      PROVE  /\ FirstWaiting + i - 1 \in Nat /\ FirstWaiting <= FirstWaiting + i - 1
             /\ FirstWaiting + i - 1 < next_ticket
             /\ Queue[i] = Waiter(FirstWaiting + i - 1)
  BY <1>1, <1>2, <1>4 DEF Places, Queue
<1>5. \A i \in 1 .. Places : /\ Queue[i] \in Threads /\ pc[Queue[i]] = "wait"
                             /\ my_ticket[Queue[i]] = FirstWaiting + i - 1
  BY <1>3, <1>4
<1>6. Queue \in [1 .. Places -> Threads]
  BY <1>5 DEF Queue, Places
<1>7. Queue \in Seq(Threads) /\ Len(Queue) = Places
  BY <1>2, <1>6
<1>8. ASSUME NEW t \in Threads, pc[t] = "wait"
      PROVE  /\ my_ticket[t] - FirstWaiting + 1 \in 1 .. Places
             /\ Queue[my_ticket[t] - FirstWaiting + 1] = t
  <2>1. now_serving <= my_ticket[t] /\ my_ticket[t] < next_ticket
    BY <1>8 DEF Line, Tickets, Waiting
  <2>2. Holders # {} => my_ticket[t] # now_serving
    BY <1>8 DEF Line, Tickets, Waiting, Holders
  <2>3. FirstWaiting <= my_ticket[t]
    BY <1>1, <2>1, <2>2
  <2>4. my_ticket[t] - FirstWaiting + 1 \in 1 .. Places
    BY <1>1, <1>2, <2>1, <2>3 DEF Places
  <2>5. my_ticket[Queue[my_ticket[t] - FirstWaiting + 1]] = my_ticket[t]
    BY <1>1, <1>2, <1>5, <2>4
  <2>6. Queue[my_ticket[t] - FirstWaiting + 1] = t
    BY <1>5, <1>8, <2>4, <2>5 DEF Line, Tickets, Waiting
  <2> QED
    BY <2>4, <2>6
<1> QED
  BY <1>2, <1>5, <1>7, <1>8 DEF InLine

LEMMA LineIsQueueNext == (Line => InLine)'
BY LineIsQueue, PTL

\* Who waits is in the queue, and nobody else is.
LEMMA QueuedWait == ASSUME Line PROVE \A t \in Threads : t \in F!Queued <=> pc[t] = "wait"
<1>1. InLine
  BY LineIsQueue
<1>2. DOMAIN Queue = 1 .. Places
  BY <1>1 DEF InLine
<1> QED
  BY <1>1, <1>2 DEF InLine, F!Queued

\* A step after which the same threads wait for the same tickets, and the same is first.
LEMMA QueueStays ==
  ASSUME Line, Line', FirstWaiting' = FirstWaiting, next_ticket' = next_ticket,
         \A t \in Threads : pc[t] = "wait" => pc'[t] = "wait" /\ my_ticket'[t] = my_ticket[t]
  PROVE  Queue' = Queue
<1>1. InLine /\ InLine' /\ Places' = Places
  BY LineIsQueue, LineIsQueueNext DEF Places
<1>2. ASSUME NEW i \in 1 .. Places
      PROVE  Queue'[i] = Queue[i]
  <2> DEFINE t == Queue[i]
  <2>1. t \in Threads /\ pc[t] = "wait" /\ my_ticket[t] = FirstWaiting + i - 1
    BY <1>1, <1>2 DEF InLine
  <2>2. pc'[t] = "wait" /\ my_ticket'[t] = FirstWaiting + i - 1
    BY <2>1
  <2>3. Queue'[my_ticket'[t] - FirstWaiting + 1] = t
    BY <1>1, <2>1, <2>2 DEF InLine
  <2>4. my_ticket'[t] - FirstWaiting + 1 = i
    BY <1>1, <2>2 DEF InLine
  <2> QED
    BY <2>3, <2>4
<1> QED
  BY <1>1, <1>2 DEF InLine, Queue, Places
\* A step that lets nobody in or out and after which the same threads wait.
LEMMA CoveredStays ==
  ASSUME Covered, FirstWaiting' = FirstWaiting, next_ticket' = next_ticket,
         \A t \in Threads : pc[t] = "wait" => pc'[t] = "wait" /\ my_ticket'[t] = my_ticket[t]
  PROVE  Covered'
BY DEF Covered

\* While everybody is outside, a lock nobody waits for has no ticket out.
LEMMA NobodyWaits ==
  ASSUME IInv, Covered, \A t \in Threads : ~Inside(t) /\ pc[t] # "wait"
  PROVE  FirstWaiting = now_serving /\ next_ticket = now_serving
<1>1. FirstWaiting = now_serving
  BY WithoutHolder
<1>2. now_serving \in Nat /\ next_ticket \in Nat /\ now_serving <= next_ticket
  BY DEF IInv, TypeOK, Tickets, Serving
<1> QED
  BY <1>1, <1>2 DEF Covered

\* What a step does to who is inside and who waits, and so to the tickets covered.
LEMMA TakeTicketCovers == ASSUME IInv, Covered, NEW t \in Threads, TakeTicket(t) PROVE Covered'
<1>1. /\ pc[t] = "take_ticket" /\ pc' = [pc EXCEPT ![t] = "wait"]
      /\ my_ticket' = [my_ticket EXCEPT ![t] = next_ticket]
      /\ next_ticket' = next_ticket + 1 /\ UNCHANGED <<now_serving, held>>
  BY DEF TakeTicket, Goto
<1>2. /\ pc \in [Threads -> Locations] /\ my_ticket \in [Threads -> Nat] /\ next_ticket \in Nat
  BY DEF IInv, TypeOK
<1>3. \A u \in Threads : Inside(u)' <=> Inside(u)
  BY <1>1, <1>2 DEF Inside
<1>4. FirstWaiting' = FirstWaiting
  BY <1>1, <1>3, SameHolder
<1>5. ASSUME NEW k \in Nat, FirstWaiting <= k, k < next_ticket + 1
      PROVE  \E u \in Threads : pc'[u] = "wait" /\ my_ticket'[u] = k
  <2>1. CASE k = next_ticket
    BY <1>1, <1>2, <2>1
  <2>2. CASE k # next_ticket
    <3>1. k < next_ticket
      BY <1>2, <1>5, <2>2
    <3>2. PICK u \in Threads : pc[u] = "wait" /\ my_ticket[u] = k
      BY <1>5, <3>1 DEF Covered
    <3> QED
      BY <1>1, <1>2, <3>2
  <2> QED
    BY <2>1, <2>2
<1> QED
  BY <1>1, <1>4, <1>5 DEF Covered

LEMMA BakeryCheckCovers == ASSUME IInv, IInv', Covered, NEW t \in Threads, BakeryCheck(t)
                           PROVE  /\ Covered' /\ \A u \in Threads : ~Inside(u)
                                  /\ FirstWaiting = now_serving /\ FirstWaiting' = now_serving + 1
<1>1. /\ pc[t] = "wait" /\ now_serving = my_ticket[t] /\ pc' = [pc EXCEPT ![t] = "own"]
      /\ UNCHANGED <<my_ticket, next_ticket, now_serving, held>>
  BY DEF BakeryCheck, Goto, lockVars
<1>2. /\ pc \in [Threads -> Locations] /\ my_ticket \in [Threads -> Nat] /\ now_serving \in Nat
  BY DEF IInv, TypeOK
<1>3. \A u \in Threads : ~Inside(u)
  BY <1>1 DEF IInv, Tickets, Waiting
<1>4. FirstWaiting = now_serving
  BY <1>3, WithoutHolder
<1>5. Inside(t)' /\ MutualExclusion'
  BY <1>1, <1>2 DEF Inside, IInv, Tickets
<1>6. FirstWaiting' = now_serving + 1
  BY <1>1, <1>5, WithHolderNext
<1>7. ASSUME NEW k \in Nat, now_serving + 1 <= k, k < next_ticket
      PROVE  \E u \in Threads : pc'[u] = "wait" /\ my_ticket'[u] = k
  <2>1. now_serving <= k /\ k # now_serving
    BY <1>2, <1>7
  <2>2. PICK u \in Threads : pc[u] = "wait" /\ my_ticket[u] = k
    BY <1>4, <1>7, <2>1 DEF Covered
  <2>3. u # t
    BY <1>1, <2>1, <2>2
  <2> QED
    BY <1>1, <2>2, <2>3
<1>8. Covered'
  BY <1>1, <1>6, <1>7 DEF Covered
<1> QED
  BY <1>3, <1>4, <1>6, <1>8

LEMMA TestCasCovers ==
  ASSUME IInv, IInv', Covered, NEW t \in Threads, TestCas(t), next_ticket = my_ticket[t]
  PROVE  /\ Covered' /\ \A u \in Threads : ~Inside(u) /\ pc[u] # "wait"
         /\ FirstWaiting = next_ticket /\ FirstWaiting' = next_ticket'
<1>1. /\ pc[t] = "test_cas" /\ next_ticket' = next_ticket + 1 /\ pc' = [pc EXCEPT ![t] = "own"]
      /\ UNCHANGED <<now_serving, my_ticket, held>>
  BY DEF TestCas, Goto
<1>2. /\ pc \in [Threads -> Locations] /\ my_ticket \in [Threads -> Nat]
      /\ now_serving \in Nat /\ next_ticket \in Nat /\ now_serving <= next_ticket
  BY DEF IInv, TypeOK, Tickets, Serving
<1>3. next_ticket = now_serving
  BY <1>1, <1>2 DEF IInv, Tickets, Testing
<1>4. \A u \in Threads : ~Inside(u) /\ pc[u] # "wait"
  BY <1>2, <1>3 DEF IInv, Tickets, Serving, Waiting
<1>5. FirstWaiting = next_ticket
  BY <1>3, <1>4, WithoutHolder
<1>6. Inside(t)' /\ MutualExclusion'
  BY <1>1, <1>2 DEF Inside, IInv, Tickets
<1>7. FirstWaiting' = next_ticket'
  BY <1>1, <1>3, <1>6, WithHolderNext
<1>8. Covered'
  BY <1>1, <1>2, <1>7 DEF Covered
<1> QED
  BY <1>4, <1>5, <1>7, <1>8

LEMMA ReleaseCovers ==
  ASSUME IInv, IInv', Covered, NEW t \in Threads, Release(t)
  PROVE  /\ Covered' /\ Inside(t) /\ \A u \in Threads : ~Inside(u)' /\ (pc'[u] = "wait" <=> pc[u] = "wait")
         /\ FirstWaiting' = FirstWaiting /\ next_ticket' = next_ticket
<1>1. /\ pc[t] = "release" /\ now_serving' = now_serving + 1
      /\ held' = [held EXCEPT ![t] = 0] /\ pc' = [pc EXCEPT ![t] = "idle"]
      /\ UNCHANGED <<next_ticket, my_ticket>>
  BY DEF Release, Goto
<1>2. pc \in [Threads -> Locations] /\ held \in [Threads -> Nat] /\ now_serving \in Nat
  BY DEF IInv, TypeOK
<1>3. Inside(t) /\ MutualExclusion
  BY <1>1 DEF Inside, IInv, Tickets
<1>4. FirstWaiting = now_serving + 1
  BY <1>3, WithHolder
<1>5. \A u \in Threads : ~Inside(u)'
  BY <1>1, <1>2, <1>3 DEF Inside, MutualExclusion
<1>6. FirstWaiting' = now_serving + 1
  BY <1>1, <1>5, WithoutHolderNext
<1>7. \A u \in Threads : pc'[u] = "wait" <=> pc[u] = "wait"
  BY <1>1, <1>2
<1>8. Covered'
  BY <1>1, <1>4, <1>6, <1>7, CoveredStays
<1> QED
  BY <1>1, <1>3, <1>4, <1>5, <1>6, <1>7, <1>8

\* A lock is initialised and destroyed while nobody uses it.
LEMMA UnusedCovers ==
  ASSUME IInv, IInv', Covered, NEW t \in Threads, InitLock(t) \/ DestroyLock(t)
  PROVE  /\ Covered' /\ \A u \in Threads : ~Inside(u) /\ ~Inside(u)' /\ pc[u] # "wait" /\ pc'[u] # "wait"
         /\ FirstWaiting = next_ticket /\ FirstWaiting' = next_ticket'
<1>1. \A u \in Threads : pc[u] = "idle" /\ held[u] = 0
  BY DEF InitLock, DestroyLock, IInv, Ownership, Unused
<1>2. owner_id = NoThread /\ \A u \in Threads : pc'[u] # "fatal"
  BY <1>1 DEF InitLock, IInv, TypeOK, Ownership, Owner
<1>3. next_ticket' = 0 /\ now_serving' = 0 /\ UNCHANGED <<pc, held>>
  BY <1>2 DEF InitLock, DestroyLock
<1>4. \A u \in Threads : ~Inside(u) /\ ~Inside(u)' /\ pc[u] # "wait" /\ pc'[u] # "wait"
  BY <1>1, <1>3 DEF Inside
<1>5. FirstWaiting = next_ticket
  BY <1>4, NobodyWaits
<1>6. FirstWaiting' = 0
  BY <1>3, <1>4, WithoutHolderNext
<1>7. Covered'
  BY <1>3, <1>6 DEF Covered
<1> QED
  BY <1>3, <1>4, <1>5, <1>6, <1>7

\* The other steps let nobody in or out, and make nobody wait.
Quiet(t) == \/ SetLock(t) \/ TestLock(t) \/ UnsetLock(t) \/ Own(t) \/ TestServing(t)
            \/ (TestCas(t) /\ next_ticket # my_ticket[t]) \/ UnsetInner(t) \/ UnsetLast(t)

LEMMA QuietCovers ==
  ASSUME IInv, IInv', Covered, NEW t \in Threads, Quiet(t)
  PROVE  /\ Covered' /\ UNCHANGED <<next_ticket, now_serving>>
         /\ \A u \in Threads : /\ Inside(u)' <=> Inside(u)
                               /\ pc'[u] = "wait" <=> pc[u] = "wait"
                               /\ u # t => pc'[u] = pc[u] /\ held'[u] = held[u]
                               /\ pc[u] = "wait" => my_ticket'[u] = my_ticket[u]
<1>0. /\ pc \in [Threads -> Locations] /\ held \in [Threads -> Nat] /\ my_ticket \in [Threads -> Nat]
      /\ \A u \in Threads : pc'[u] # "fatal"
  BY DEF IInv, TypeOK, Ownership, Owner
<1>1. UNCHANGED <<next_ticket, now_serving>>
  BY DEF Quiet, SetLock, TestLock, UnsetLock, Own, TestServing, TestCas, UnsetInner, UnsetLast,
         Reenter, lockVars
<1>2. \/ /\ pc[t] = "idle" /\ pc' = pc /\ my_ticket' = my_ticket
         /\ held' = [held EXCEPT ![t] = @ + 1] /\ owner_id = t
      \/ /\ pc[t] \in {"idle", "test_serving", "test_cas"} /\ held' = held
         /\ \E place \in {"idle", "take_ticket", "test_serving", "test_cas", "unset", "fatal"} :
              pc' = [pc EXCEPT ![t] = place]
         /\ my_ticket' = my_ticket \/ my_ticket' = [my_ticket EXCEPT ![t] = next_ticket]
      \/ /\ pc[t] = "own" /\ pc' = [pc EXCEPT ![t] = "idle"] /\ my_ticket' = my_ticket
         /\ held' = [held EXCEPT ![t] = 1]
      \/ /\ pc[t] = "unset" /\ pc' = [pc EXCEPT ![t] = "idle"] /\ my_ticket' = my_ticket
         /\ held' = [held EXCEPT ![t] = @ - 1] /\ held[t] > 1
      \/ /\ pc[t] = "unset" /\ pc' = [pc EXCEPT ![t] = "release"] /\ my_ticket' = my_ticket
         /\ held' = held
  <2>1. CASE SetLock(t) \/ TestLock(t)
    BY <2>1 DEF SetLock, TestLock, MaySet, MayCall, Reenter, Goto
  <2>2. CASE UnsetLock(t) \/ TestServing(t) \/ (TestCas(t) /\ next_ticket # my_ticket[t])
    BY <2>2 DEF UnsetLock, TestServing, TestCas, Goto
  <2>3. CASE Own(t) \/ UnsetLast(t)
    BY <2>3 DEF Own, UnsetLast, Goto
  <2>4. CASE UnsetInner(t)
    <3>1. pc[t] = "unset" /\ Nestable /\ depth_locked # 1
      BY <2>4 DEF UnsetInner
    <3>2. held[t] > 0 /\ depth_locked = held[t]
      BY <3>1 DEF IInv, Ownership, Owner, Depth, Settled
    <3>3. held[t] > 1
      BY <1>0, <3>1, <3>2
    <3> QED
      BY <2>4, <3>3 DEF UnsetInner, Goto
  <2> QED
    BY <2>1, <2>2, <2>3, <2>4 DEF Quiet
<1>3. owner_id = t => held[t] > 0
  BY DEF IInv, Ownership, Owner
<1>4. pc[t] = "unset" => held[t] > 0
  BY DEF IInv, Ownership, Owner
<1>5. \A u \in Threads : /\ u # t => pc'[u] = pc[u] /\ held'[u] = held[u]
                         /\ pc'[u] = "wait" <=> pc[u] = "wait"
                         /\ pc[u] = "wait" => my_ticket'[u] = my_ticket[u]
  BY <1>0, <1>2
<1>6. Inside(t)' <=> Inside(t)
  BY <1>0, <1>2, <1>3, <1>4 DEF Inside
<1>7. \A u \in Threads : Inside(u)' <=> Inside(u)
  BY <1>5, <1>6 DEF Inside
<1>8. FirstWaiting' = FirstWaiting
  BY <1>1, <1>7, SameHolder
<1>9. Covered'
  BY <1>1, <1>5, <1>8, CoveredStays
<1> QED
  BY <1>1, <1>5, <1>7, <1>9

LEMMA CoveredKept == IInv /\ IInv' /\ Covered /\ [Next]_vars => Covered'
<1> SUFFICES ASSUME IInv, IInv', Covered, [Next]_vars PROVE Covered'
  OBVIOUS
<1>1. CASE UNCHANGED vars
  <2>1. \A u \in Threads : Inside(u)' <=> Inside(u)
    BY <1>1 DEF vars, Inside
  <2> QED
    BY <1>1, <2>1, SameHolder, CoveredStays DEF vars, lockVars
<1> QED
  BY <1>1, TakeTicketCovers, BakeryCheckCovers, TestCasCovers, ReleaseCovers, UnusedCovers,
     QuietCovers DEF Next, Step, Quiet
-----------------------------------------------------------------------------
\* A ticket is the last place in the queue, and the one served next the first.
LEMMA TakeTicketSeen ==
  ASSUME IInv, IInv', Covered, NEW t \in Threads, TakeTicket(t)
  PROVE  F!Next
<1>1. /\ pc[t] = "take_ticket" /\ pc' = [pc EXCEPT ![t] = "wait"]
      /\ my_ticket' = [my_ticket EXCEPT ![t] = next_ticket]
      /\ next_ticket' = next_ticket + 1 /\ UNCHANGED <<now_serving, held>>
  BY DEF TakeTicket, Goto
<1>2. /\ pc \in [Threads -> Locations] /\ my_ticket \in [Threads -> Nat] /\ next_ticket \in Nat
  BY DEF IInv, TypeOK
<1>3. Line /\ Line'
  BY TakeTicketCovers DEF Line, IInv
<1>4. InLine /\ InLine'
  BY <1>3, LineIsQueue, LineIsQueueNext
<1>5. \A u \in Threads : Inside(u)' <=> Inside(u)
  BY <1>1, <1>2 DEF Inside
<1>6. Holder' = Holder /\ FirstWaiting' = FirstWaiting /\ Holders' = Holders
  BY <1>1, <1>5, SameHolder
<1>7. Places' = Places + 1
  BY <1>1, <1>2, <1>4, <1>6 DEF Places, InLine
<1>8. ~Inside(t)
  BY <1>1 DEF Inside, IInv, Ownership, Owner
<1>9. Holder # t /\ (Holders # {} => Holder \in Threads /\ Holder # t)
  BY <1>8, ClientAssumption DEF Holder, Holders
<1>10. Level' = Level
  BY <1>1, <1>2, <1>6, <1>9 DEF Level
<1>11. ASSUME NEW i \in 1 .. Places
       PROVE  Queue'[i] = Queue[i]
  <2>1. /\ Queue[i] \in Threads /\ pc[Queue[i]] = "wait"
        /\ my_ticket[Queue[i]] = FirstWaiting + i - 1
    BY <1>4, <1>11 DEF InLine
  <2>2. \A u \in Threads : pc[u] = "wait" => pc'[u] = "wait" /\ my_ticket'[u] = my_ticket[u]
    BY <1>1, <1>2
  <2>3. pc'[Queue[i]] = "wait" /\ my_ticket'[Queue[i]] = FirstWaiting + i - 1
    BY <2>1, <2>2
  <2>4. Queue'[my_ticket'[Queue[i]] - FirstWaiting + 1] = Queue[i]
    BY <1>4, <1>6, <2>1, <2>3 DEF InLine
  <2>5. my_ticket'[Queue[i]] - FirstWaiting + 1 = i
    BY <1>4, <2>3 DEF InLine
  <2> QED
    BY <2>4, <2>5
<1>12. Queue'[Places + 1] = t
  <2>1. pc'[t] = "wait" /\ my_ticket'[t] = next_ticket
    BY <1>1, <1>2
  <2>2. next_ticket - FirstWaiting + 1 = Places + 1
    BY <1>2, <1>4 DEF Places, InLine
  <2> QED
    BY <1>4, <1>6, <2>1, <2>2 DEF InLine
<1>13. Queue' = Append(Queue, t)
  <2>1. /\ Queue \in Seq(Threads) /\ Len(Queue) = Places /\ Places \in Nat
        /\ Queue' \in Seq(Threads) /\ Len(Queue') = Places + 1
    BY <1>4, <1>7 DEF InLine
  <2>2. Append(Queue, t) \in Seq(Threads) /\ Len(Append(Queue, t)) = Places + 1
    BY <2>1
  <2>3. \A i \in 1 .. Places + 1 : Append(Queue, t)[i] = Queue'[i]
    BY <1>11, <1>12, <2>1
  <2> QED
    BY <2>1, <2>2, <2>3
<1>14. t \notin F!Queued
  BY <1>1, <1>3, QueuedWait
<1>15. F!Join(t)
  BY <1>6, <1>9, <1>10, <1>13, <1>14 DEF F!Join
<1> QED
  BY <1>15 DEF F!Next

\* A sequence without its first element.
LEMMA WithoutFirst ==
  ASSUME NEW S, NEW s \in Seq(S), NEW r \in Seq(S), Len(s) = Len(r) + 1,
         \A i \in 1 .. Len(r) : r[i] = s[i + 1]
  PROVE  s # <<>> /\ Head(s) = s[1] /\ r = Tail(s)
<1>1. s # <<>> /\ Len(s) \in Nat /\ Len(r) \in Nat
  OBVIOUS
<1>2. Head(s) = s[1]
  BY <1>1
<1>3. /\ Tail(s) \in Seq(S) /\ Len(Tail(s)) = Len(r)
      /\ \A i \in 1 .. Len(r) : Tail(s)[i] = s[i + 1]
  BY <1>1
<1>4. r = Tail(s)
  BY <1>1, <1>3
<1> QED
  BY <1>1, <1>2, <1>4

LEMMA BakeryCheckSeen ==
  ASSUME IInv, IInv', Covered, NEW t \in Threads, BakeryCheck(t)
  PROVE  F!Next
<1>1. /\ pc[t] = "wait" /\ now_serving = my_ticket[t] /\ pc' = [pc EXCEPT ![t] = "own"]
      /\ UNCHANGED <<my_ticket, next_ticket, now_serving, held>>
  BY DEF BakeryCheck, Goto, lockVars
<1>2. /\ pc \in [Threads -> Locations] /\ my_ticket \in [Threads -> Nat]
      /\ now_serving \in Nat /\ next_ticket \in Nat
  BY DEF IInv, TypeOK
<1>3. /\ Covered' /\ \A u \in Threads : ~Inside(u)
      /\ FirstWaiting = now_serving /\ FirstWaiting' = now_serving + 1
  BY BakeryCheckCovers
<1>4. Line /\ Line'
  BY <1>3 DEF Line, IInv
<1>5. InLine /\ InLine'
  BY <1>4, LineIsQueue, LineIsQueueNext
<1>6. Inside(t)' /\ MutualExclusion' /\ pc'[t] = "own"
  BY <1>1, <1>2 DEF Inside, IInv, Tickets
<1>7. Holder = NoThread /\ Holder' = t /\ Level' = 1
  BY <1>3, <1>6, WithoutHolder, WithHolderNext
<1>8. Places = Places' + 1 /\ Places' \in Nat
  <2>1. Places = next_ticket - now_serving
    BY <1>3 DEF Places
  <2>2. Places' = next_ticket - (now_serving + 1)
    BY <1>1, <1>3 DEF Places
  <2>3. Places' \in Nat
    BY <1>5 DEF InLine
  <2> QED
    BY <1>2, <2>1, <2>2, <2>3
<1>9. Queue[1] = t
  <2>1. my_ticket[t] - FirstWaiting + 1 = 1
    BY <1>1, <1>2, <1>3
  <2> QED
    BY <1>1, <1>5, <2>1 DEF InLine
<1>10. ASSUME NEW i \in 1 .. Places'
       PROVE  Queue'[i] = Queue[i + 1]
  <2>1. /\ Queue'[i] \in Threads /\ pc'[Queue'[i]] = "wait"
        /\ my_ticket'[Queue'[i]] = now_serving + 1 + i - 1
    BY <1>3, <1>5, <1>10 DEF InLine
  <2>2. \A u \in Threads : pc'[u] = "wait" => pc[u] = "wait" /\ my_ticket'[u] = my_ticket[u]
    BY <1>1, <1>2
  <2>3. pc[Queue'[i]] = "wait" /\ my_ticket[Queue'[i]] = now_serving + i
    BY <1>2, <2>1, <2>2
  <2>4. my_ticket[Queue'[i]] - FirstWaiting + 1 = i + 1
    BY <1>2, <1>3, <2>3
  <2> QED
    BY <1>5, <2>1, <2>3, <2>4 DEF InLine
<1>11. /\ Queue \in Seq(Threads) /\ Len(Queue) = Places' + 1
       /\ Queue' \in Seq(Threads) /\ Len(Queue') = Places'
  BY <1>5, <1>8 DEF InLine
<1>12. Queue # <<>> /\ Head(Queue) = t /\ Queue' = Tail(Queue)
  BY <1>9, <1>10, <1>11, WithoutFirst
<1>13. F!Grant
  BY <1>7, <1>12 DEF F!Grant
<1> QED
  BY <1>13 DEF F!Next

\* A queue without places is empty.
LEMMA NoPlaces == ASSUME Line, FirstWaiting = next_ticket PROVE Queue = <<>>
<1>1. InLine
  BY LineIsQueue
<1>2. Places = 0
  BY <1>1 DEF InLine, Places
<1> QED
  BY <1>1, <1>2 DEF InLine

LEMMA NoPlacesNext == (Line /\ FirstWaiting = next_ticket => Queue = <<>>)'
<1>1. Line /\ FirstWaiting = next_ticket => Queue = <<>>
  BY NoPlaces
<1> QED
  BY <1>1, PTL

\* A test gets the lock if nobody has it and nobody waits.
LEMMA TestCasSeen ==
  ASSUME IInv, IInv', Covered, NEW t \in Threads, TestCas(t), next_ticket = my_ticket[t]
  PROVE  F!Next
<1>1. /\ Covered' /\ \A u \in Threads : ~Inside(u) /\ pc[u] # "wait"
      /\ FirstWaiting = next_ticket /\ FirstWaiting' = next_ticket'
  BY TestCasCovers
<1>2. Line /\ Line'
  BY <1>1 DEF Line, IInv
<1>3. Queue = <<>> /\ Queue' = <<>>
  BY <1>1, <1>2, NoPlaces, NoPlacesNext
<1>4. pc'[t] = "own" /\ Inside(t)' /\ MutualExclusion'
  BY DEF TestCas, Goto, IInv, TypeOK, Tickets, Inside
<1>5. Holder = NoThread /\ Holder' = t /\ Level' = 1
  BY <1>1, <1>4, WithoutHolder, WithHolderNext
<1>6. F!Grab(t)
  BY <1>3, <1>5 DEF F!Grab
<1> QED
  BY <1>6 DEF F!Next

LEMMA ReleaseSeen ==
  ASSUME IInv, IInv', Covered, Counts, NEW t \in Threads, Release(t)
  PROVE  F!Next
<1>1. pc[t] = "release" /\ held[t] = 1 /\ MutualExclusion
  BY DEF Release, Counts, IInv, Tickets
<1>2. /\ Covered' /\ Inside(t)
      /\ \A u \in Threads : ~Inside(u)' /\ (pc'[u] = "wait" <=> pc[u] = "wait")
      /\ FirstWaiting' = FirstWaiting /\ next_ticket' = next_ticket
  BY ReleaseCovers
<1>3. Line /\ Line' /\ my_ticket' = my_ticket
  BY <1>2 DEF Line, IInv, Release
<1>4. Queue' = Queue
  BY <1>2, <1>3, QueueStays
<1>5. Holder = t /\ Level = 1 /\ Holder' = NoThread /\ Level' = 0
  BY <1>1, <1>2, WithHolder, WithoutHolderNext
<1>6. F!Release(t)
  BY <1>4, <1>5 DEF F!Release
<1> QED
  BY <1>6 DEF F!Next

LEMMA UnusedUnseen ==
  ASSUME IInv, IInv', Covered, NEW t \in Threads, InitLock(t) \/ DestroyLock(t)
  PROVE  UNCHANGED F!vars
<1>1. /\ Covered' /\ \A u \in Threads : ~Inside(u) /\ ~Inside(u)'
      /\ FirstWaiting = next_ticket /\ FirstWaiting' = next_ticket'
  BY UnusedCovers
<1>2. Line /\ Line'
  BY <1>1 DEF Line, IInv
<1>3. Queue = <<>> /\ Queue' = <<>>
  BY <1>1, <1>2, NoPlaces, NoPlacesNext
<1>4. Holder = NoThread /\ Holder' = NoThread /\ Level = 0 /\ Level' = 0
  BY <1>1, WithoutHolder, WithoutHolderNext
<1> QED
  BY <1>3, <1>4 DEF F!vars

\* The other steps are seen only if they move the nest level.
LEMMA QuietSeen ==
  ASSUME IInv, IInv', Covered, NEW t \in Threads, Quiet(t)
  PROVE  [F!Next]_(F!vars)
<1>1. /\ Covered' /\ UNCHANGED <<next_ticket, now_serving>>
      /\ \A u \in Threads : /\ Inside(u)' <=> Inside(u)
                            /\ pc'[u] = "wait" <=> pc[u] = "wait"
                            /\ u # t => pc'[u] = pc[u] /\ held'[u] = held[u]
                            /\ pc[u] = "wait" => my_ticket'[u] = my_ticket[u]
  BY QuietCovers
<1>2. Line /\ Line'
  BY <1>1 DEF Line, IInv
<1>3. Holder' = Holder /\ FirstWaiting' = FirstWaiting /\ Holders' = Holders
  BY <1>1, SameHolder
<1>4. Queue' = Queue
  BY <1>1, <1>2, <1>3, QueueStays
<1>5. MutualExclusion /\ MutualExclusion' /\ t # NoThread
      /\ pc \in [Threads -> Locations] /\ held \in [Threads -> Nat]
  BY ClientAssumption DEF IInv, Tickets, TypeOK
<1>6. CASE ~Inside(t)
  <2>1. Holders # {} => Holder \in Threads /\ Holder # t
    BY <1>6 DEF Holder, Holders
  <2>2. Level' = Level
    BY <1>1, <1>3, <2>1 DEF Level
  <2> QED
    BY <1>3, <1>4, <2>2 DEF F!vars
<1>7. CASE Inside(t) /\ Reenter(t) /\ (SetLock(t) \/ TestLock(t))
  <2>1. /\ Nestable /\ pc[t] = "idle" /\ pc' = pc /\ held[t] < MaxLevel
        /\ held' = [held EXCEPT ![t] = @ + 1]
    BY <1>7 DEF Reenter, SetLock, TestLock, MaySet, MayCall
  <2>2. pc'[t] = "idle" /\ held'[t] = held[t] + 1
    BY <1>5, <2>1
  <2>3. Holder = t /\ Level = held[t] /\ Holder' = t /\ Level' = held[t] + 1
    BY <1>1, <1>5, <1>7, <2>1, <2>2, WithHolder, WithHolderNext
  <2>4. F!Reenter(t)
    BY <1>4, <2>1, <2>3 DEF F!Reenter
  <2> QED
    BY <2>4 DEF F!Next
<1>8. CASE Inside(t) /\ UnsetInner(t)
  <2>1. /\ Nestable /\ pc[t] = "unset" /\ depth_locked # 1
        /\ pc' = [pc EXCEPT ![t] = "idle"] /\ held' = [held EXCEPT ![t] = @ - 1]
    BY <1>8 DEF UnsetInner, Goto
  <2>2. held[t] > 0 /\ depth_locked = held[t]
    BY <2>1 DEF IInv, Ownership, Owner, Depth, Settled
  <2>3. held[t] > 1 /\ pc'[t] = "idle" /\ held'[t] = held[t] - 1
    BY <1>5, <2>1, <2>2
  <2>4. Holder = t /\ Level = held[t] /\ Holder' = t /\ Level' = held[t] - 1
    BY <1>1, <1>5, <1>8, <2>1, <2>3, WithHolder, WithHolderNext
  <2>5. F!Leave(t)
    BY <1>4, <2>1, <2>3, <2>4 DEF F!Leave
  <2> QED
    BY <2>5 DEF F!Next
<1>9. CASE Inside(t) /\ ~UnsetInner(t) /\ ~(Reenter(t) /\ (SetLock(t) \/ TestLock(t)))
  <2>1. (IF pc'[t] = "own" THEN 1 ELSE held'[t]) = IF pc[t] = "own" THEN 1 ELSE held[t]
    <3>1. CASE Own(t)
      BY <1>5, <3>1 DEF Own, Goto
    <3>2. CASE ~Own(t)
      <4>1. held' = held /\ pc[t] # "own" /\ \E place \in {"idle", "take_ticket", "test_serving",
                               "test_cas", "unset", "release", "fatal"} : pc' = [pc EXCEPT ![t] = place]
        BY <1>9, <3>2
        DEF Quiet, SetLock, TestLock, UnsetLock, TestServing, TestCas, UnsetLast, MaySet,
            MayCall, Goto
      <4> QED
        BY <1>5, <4>1
    <3> QED
      BY <3>1, <3>2
  <2>2. Holder = t /\ Holder' = t /\ Level' = Level
    BY <1>1, <1>5, <1>9, <2>1, WithHolder, WithHolderNext
  <2> QED
    BY <1>4, <2>2 DEF F!vars
<1> QED
  BY <1>6, <1>7, <1>8, <1>9

\* What the queue needs beyond the invariant, and the first state and each step as
\* FifoLock sees them.
Fair == IInv /\ Covered /\ Counts

LEMMA InitSeen == Init => Fair /\ F!Init
<1> SUFFICES ASSUME Init PROVE Fair /\ F!Init
  OBVIOUS
<1>1. \A t \in Threads : ~Inside(t)
  BY DEF Init, Inside
<1>2. Holder = NoThread /\ Level = 0 /\ FirstWaiting = 0 /\ next_ticket = 0
  BY <1>1, WithoutHolder DEF Init
<1>3. Covered /\ Counts
  BY <1>2 DEF Covered, Counts, Init
<1>4. Line
  BY <1>3, InitEstablishes DEF IInv, Line
<1>5. Queue = <<>>
  BY <1>2, <1>4, NoPlaces
<1> QED
  BY <1>2, <1>3, <1>5, InitEstablishes DEF Fair, F!Init

LEMMA FairKept == Fair /\ [Next]_vars => Fair'
BY NextPreserves, CoveredKept, CountsKept DEF Fair

LEMMA StepSeen == Fair /\ Fair' /\ [Next]_vars => [F!Next]_(F!vars)
<1> SUFFICES ASSUME Fair, Fair', [Next]_vars PROVE [F!Next]_(F!vars)
  OBVIOUS
<1>0. IInv /\ IInv' /\ Covered /\ Counts
  BY DEF Fair
<1>1. CASE UNCHANGED vars
  <2>1. \A u \in Threads : Inside(u)' <=> Inside(u)
    BY <1>1 DEF vars, Inside
  <2>2. Holder' = Holder /\ FirstWaiting' = FirstWaiting /\ Holders' = Holders
    BY <1>1, <2>1, SameHolder DEF vars, lockVars
  <2>3. Level' = Level
    BY <1>1, <2>2 DEF vars, Level
  <2>4. Line /\ Line'
    BY <1>0, CoveredKept DEF Line, IInv
  <2>5. Queue' = Queue
    BY <1>1, <2>2, <2>4, QueueStays DEF vars, lockVars
  <2> QED
    BY <2>2, <2>3, <2>5 DEF F!vars
<1>2. ASSUME NEW t \in Threads, TakeTicket(t) \/ BakeryCheck(t) \/ TestCas(t) \/ Release(t)
      PROVE  [F!Next]_(F!vars)
  BY <1>0, <1>2, TakeTicketSeen, BakeryCheckSeen, TestCasSeen, ReleaseSeen, QuietSeen DEF Quiet
<1> QED
  BY <1>0, <1>1, <1>2, UnusedUnseen, QuietSeen DEF Next, Step, Quiet

\* Each step of the ticket lock is one of FifoLock or is not seen: waiters are served in
\* the order in which they joined, a test overtakes nobody, and only the holder moves the
\* nest level.
THEOREM TicketImplements == Spec => F!Safety
BY InitSeen, FairKept, StepSeen, PTL DEF Spec, F!Safety
=============================================================================
