------------------------------ MODULE DrdpaLock ------------------------------
(***************************************************************************)
(* The "dynamically reconfigurable distributed polling area" lock of       *)
(* runtime/src/kmp_lock.cpp: a ticket lock whose waiters poll different    *)
(* cells of an array.  The holder may replace the array by a larger one    *)
(* when many threads wait, or by a single cell when the machine is         *)
(* oversubscribed, while other threads are polling: they read mask and     *)
(* polls in two steps.  The old array is freed by a later holder.          *)
(*                                                                         *)
(* Polling arrays are never reused here, so that an access to a freed one  *)
(* shows.  What a thread does after it read outside a live array is not    *)
(* defined by the code; in the model it stops.                             *)
(***************************************************************************)
EXTENDS LockClients, Sequences

CONSTANTS Testers,       \* the threads that call omp_test_lock
          Uses           \* what the lock meets: "grow" or "all", see use

VARIABLES use,           \* with "grow" the machine is never oversubscribed, so that
                         \* the area only grows, and nobody tests the lock
          areas,         \* the polling arrays allocated so far
          polls, mask, num_polls, old_polls, cleanup_ticket,
          next_ticket, now_serving, owner_id, depth_locked,
          pc, my,        \* each thread's place in the lock code and its locals
          held           \* sets a thread has not yet unset

config == <<areas, polls, mask, num_polls, old_polls, cleanup_ticket>>
lockVars == <<config, next_ticket, now_serving, owner_id, depth_locked>>
vars == <<use, lockVars, pc, my, held>>

Null == 0
Fresh == IF Nestable THEN 0 ELSE -1
NoLocals == [ticket |-> 0, mask |-> 0, polls |-> Null, num |-> 0]

Zeroed(n) == [poll |-> [i \in 0 .. n - 1 |-> 0], freed |-> FALSE]

Init == /\ use \in Uses
        /\ areas = <<Zeroed(1)>>
        /\ polls = 1
        /\ mask = 0
        /\ num_polls = 1
        /\ old_polls = Null
        /\ cleanup_ticket = 0
        /\ next_ticket = 0
        /\ now_serving = 0
        /\ owner_id = NoThread
        /\ depth_locked = Fresh
        /\ pc = [t \in Threads |-> "idle"]
        /\ my = [t \in Threads |-> NoLocals]
        /\ held = [t \in Threads |-> 0]

At(t, label) == pc[t] = label
Goto(t, label) == pc' = [pc EXCEPT ![t] = label]
Return(t) == Goto(t, "idle") /\ my' = [my EXCEPT ![t] = NoLocals]
Callers == {t \in Threads : pc[t] # "idle"}

MayCall(t) == At(t, "idle") /\ next_ticket + Cardinality(Callers) < MaxTicket

\* "ticket & mask": masks are one less than a power of two.
Cell(t) == my[t].ticket % (my[t].mask + 1)
CellAlive(t) == /\ ~areas[my[t].polls].freed
                /\ Cell(t) \in DOMAIN areas[my[t].polls].poll
Poll(t) == areas[my[t].polls].poll[Cell(t)]
Stray(t) == Goto(t, IF areas[my[t].polls].freed THEN "freed" ELSE "beyond")

-----------------------------------------------------------------------------
\* Setting the lock.

Reenter(t) ==
  /\ Nestable
  /\ owner_id = t
  /\ depth_locked' = depth_locked + 1
  /\ held' = [held EXCEPT ![t] = @ + 1]
  /\ UNCHANGED <<config, next_ticket, now_serving, owner_id, pc, my>>

SetLock(t) ==
  /\ MayCall(t)
  /\ IF Nestable THEN held[t] < MaxLevel ELSE held[t] = 0
  /\ \/ Reenter(t)
     \/ /\ ~(Nestable /\ owner_id = t)
        /\ Goto(t, IF owner_id = t THEN "fatal" ELSE "take_ticket")
        /\ UNCHANGED <<lockVars, my, held>>

TakeTicket(t) ==
  /\ At(t, "take_ticket")
  /\ my' = [my EXCEPT ![t].ticket = next_ticket]
  /\ next_ticket' = next_ticket + 1
  /\ Goto(t, "read_mask")
  /\ UNCHANGED <<config, now_serving, owner_id, depth_locked, held>>

ReadMask(t) ==
  /\ At(t, "read_mask")
  /\ my' = [my EXCEPT ![t].mask = mask]
  /\ Goto(t, "read_polls")
  /\ UNCHANGED <<lockVars, held>>

\* Mutant of ReadPolls: the pointer is read once, the mask again and again.
ReadPollsOnce(t) ==
  /\ At(t, "read_polls")
  /\ my' = [my EXCEPT ![t].polls = IF @ = Null THEN polls ELSE @]
  /\ Goto(t, "poll")
  /\ UNCHANGED <<lockVars, held>>

ReadPolls(t) ==
  /\ At(t, "read_polls")
  /\ my' = [my EXCEPT ![t].polls = polls]
  /\ Goto(t, "poll")
  /\ UNCHANGED <<lockVars, held>>

\* Mutant of PollCell: one ticket early.
PollCellEarly(t) ==
  /\ At(t, "poll")
  /\ IF CellAlive(t)
       THEN Goto(t, IF Poll(t) + 1 < my[t].ticket THEN "read_mask" ELSE "enter")
       ELSE Stray(t)
  /\ UNCHANGED <<lockVars, my, held>>

PollCell(t) ==
  /\ At(t, "poll")
  /\ IF CellAlive(t)
       THEN Goto(t, IF Poll(t) < my[t].ticket THEN "read_mask" ELSE "enter")
       ELSE Stray(t)
  /\ UNCHANGED <<lockVars, my, held>>

\* Mutant of Enter: a reconfiguration does not wait for the garbage of the one
\* before.
EnterImpatient(t) ==
  LET clean == old_polls # Null /\ my[t].ticket >= cleanup_ticket
  IN /\ At(t, "enter")
     /\ now_serving' = my[t].ticket
     /\ IF clean
          THEN /\ areas' = [areas EXCEPT ![old_polls].freed = TRUE]
               /\ old_polls' = Null
               /\ cleanup_ticket' = 0
          ELSE UNCHANGED <<areas, old_polls, cleanup_ticket>>
     /\ Goto(t, "reconfigure")
     /\ UNCHANGED <<polls, mask, num_polls, next_ticket, owner_id, depth_locked, my, held>>

\* The holder frees the garbage of an earlier reconfiguration, once every
\* ticket handed out before it was completed has been served.
Enter(t) ==
  LET clean == old_polls # Null /\ my[t].ticket >= cleanup_ticket
  IN /\ At(t, "enter")
     /\ now_serving' = my[t].ticket
     /\ IF clean
          THEN /\ areas' = [areas EXCEPT ![old_polls].freed = TRUE]
               /\ old_polls' = Null
               /\ cleanup_ticket' = 0
          ELSE UNCHANGED <<areas, old_polls, cleanup_ticket>>
     /\ Goto(t, IF old_polls = Null \/ clean THEN "reconfigure" ELSE "own")
     /\ UNCHANGED <<polls, mask, num_polls, next_ticket, owner_id, depth_locked, my, held>>

\* The array to wait on becomes area, of n cells, seen through the mask msk.
Install(t, area, n, msk) ==
  /\ areas' = Append(areas, area)
  /\ old_polls' = my[t].polls
  /\ polls' = Len(areas) + 1
  /\ my' = [my EXCEPT ![t].num = n, ![t].mask = msk]
  /\ Goto(t, "write_mask")

\* Twice the cells until there are more of them than waiters.
Enlarged(waiting) == CHOOSE n \in {num_polls * 2 ^ k : k \in 1 .. MaxTicket} :
                       n > waiting /\ (n = 2 * num_polls \/ n \div 2 <= waiting)

Reconfigure(t) ==
  LET waiting == next_ticket - my[t].ticket - 1
      n == Enlarged(waiting)
  IN /\ At(t, "reconfigure")
     /\ \E oversubscribed \in IF use = "grow" THEN {FALSE} ELSE BOOLEAN :
          IF oversubscribed /\ num_polls > 1 
            THEN Install(t, [Zeroed(1) EXCEPT !.poll[0] = my[t].ticket], 1, 0)
          ELSE IF ~oversubscribed /\ waiting > num_polls
            THEN Install(t, [poll |-> [i \in 0 .. n - 1 |-> IF i < num_polls
                                         THEN areas[my[t].polls].poll[i] ELSE 0],
                             freed |-> FALSE],
                         n, (my[t].mask + 1) * (n \div num_polls) - 1)
          ELSE Goto(t, "own") /\ UNCHANGED <<areas, polls, old_polls, my>>
     /\ UNCHANGED <<mask, num_polls, cleanup_ticket, next_ticket, now_serving,
                    owner_id, depth_locked, held>>

WriteMask(t) ==
  /\ At(t, "write_mask")
  /\ num_polls' = my[t].num
  /\ mask' = my[t].mask
  /\ Goto(t, "write_cleanup")
  /\ UNCHANGED <<areas, polls, old_polls, cleanup_ticket, next_ticket, now_serving,
                 owner_id, depth_locked, my, held>>

WriteCleanup(t) ==
  /\ At(t, "write_cleanup")
  /\ cleanup_ticket' = next_ticket
  /\ Goto(t, "own")
  /\ UNCHANGED <<areas, polls, mask, num_polls, old_polls, next_ticket, now_serving,
                 owner_id, depth_locked, my, held>>

Own(t) ==
  /\ At(t, "own")
  /\ depth_locked' = IF Nestable THEN 1 ELSE depth_locked
  /\ owner_id' = t
  /\ held' = [held EXCEPT ![t] = 1]
  /\ Return(t)
  /\ UNCHANGED <<config, next_ticket, now_serving>>

-----------------------------------------------------------------------------
\* Testing the lock: the ticket is only looked at, then polls, then mask.

TestLock(t) ==
  /\ use = "all" /\ t \in Testers
  /\ MayCall(t)
  /\ Nestable => held[t] < MaxLevel
  /\ \/ Reenter(t)
     \/ /\ ~(Nestable /\ owner_id = t)
        /\ my' = [my EXCEPT ![t].ticket = next_ticket]
        /\ Goto(t, "test_polls")
        /\ UNCHANGED <<lockVars, held>>

TestReadPolls(t) ==
  /\ At(t, "test_polls")
  /\ my' = [my EXCEPT ![t].polls = polls]
  /\ Goto(t, "test_mask")
  /\ UNCHANGED <<lockVars, held>>

TestReadMask(t) ==
  /\ At(t, "test_mask")
  /\ my' = [my EXCEPT ![t].mask = mask]
  /\ Goto(t, "test_poll")
  /\ UNCHANGED <<lockVars, held>>

TestPoll(t) ==
  /\ At(t, "test_poll")
  /\ IF ~CellAlive(t) THEN Stray(t) /\ UNCHANGED my
     ELSE IF Poll(t) = my[t].ticket THEN Goto(t, "test_cas") /\ UNCHANGED my
     ELSE Return(t)
  /\ UNCHANGED <<lockVars, held>>

\* Mutant of TestCas: a store instead of the compare-and-store.
TestStore(t) ==
  /\ At(t, "test_cas")
  /\ next_ticket' = my[t].ticket + 1
  /\ Goto(t, "test_serve")
  /\ UNCHANGED <<config, now_serving, owner_id, depth_locked, my, held>>

TestCas(t) ==
  /\ At(t, "test_cas")
  /\ IF next_ticket = my[t].ticket
       THEN /\ next_ticket' = next_ticket + 1
            /\ Goto(t, "test_serve")
            /\ UNCHANGED my
       ELSE UNCHANGED next_ticket /\ Return(t)
  /\ UNCHANGED <<config, now_serving, owner_id, depth_locked, held>>

TestServe(t) ==
  /\ At(t, "test_serve")
  /\ now_serving' = my[t].ticket
  /\ Goto(t, "own")
  /\ UNCHANGED <<config, next_ticket, owner_id, depth_locked, my, held>>

-----------------------------------------------------------------------------
\* Unsetting the lock.

UnsetLock(t) ==
  /\ At(t, "idle")
  /\ held[t] > 0
  /\ Goto(t, IF owner_id = t THEN "unset" ELSE "fatal")
  /\ UNCHANGED <<lockVars, my, held>>

UnsetInner(t) ==
  /\ At(t, "unset")
  /\ Nestable /\ depth_locked # 1
  /\ depth_locked' = depth_locked - 1
  /\ held' = [held EXCEPT ![t] = @ - 1]
  /\ Return(t)
  /\ UNCHANGED <<config, next_ticket, now_serving, owner_id>>

\* The holder alone changes now_serving, polls and mask: it reads them at once.
UnsetLast(t) ==
  /\ At(t, "unset")
  /\ Nestable => depth_locked = 1
  /\ depth_locked' = Fresh
  /\ owner_id' = NoThread
  /\ my' = [my EXCEPT ![t].ticket = now_serving + 1, ![t].polls = polls, ![t].mask = mask]
  /\ Goto(t, "release")
  /\ UNCHANGED <<config, next_ticket, now_serving, held>>

Release(t) ==
  /\ At(t, "release")
  /\ IF CellAlive(t)
       THEN /\ areas' = [areas EXCEPT ![my[t].polls].poll[Cell(t)] = my[t].ticket]
            /\ held' = [held EXCEPT ![t] = 0]
            /\ Return(t)
       ELSE Stray(t) /\ UNCHANGED <<areas, my, held>>
  /\ UNCHANGED <<polls, mask, num_polls, old_polls, cleanup_ticket,
                 next_ticket, now_serving, owner_id, depth_locked>>

-----------------------------------------------------------------------------
\* The program destroys a lock that nobody uses; LockStillOwned otherwise.
DestroyLock(t) ==
  /\ polls # Null
  /\ \A u \in Threads : pc[u] = "idle" /\ held[u] = 0
  /\ IF owner_id # NoThread
       THEN Goto(t, "fatal") /\ UNCHANGED lockVars
       ELSE /\ areas' = [a \in DOMAIN areas |->
                           [areas[a] EXCEPT !.freed = @ \/ a \in {polls, old_polls}]]
            /\ polls' = Null
            /\ old_polls' = Null
            /\ mask' = 0
            /\ num_polls' = 0
            /\ cleanup_ticket' = 0
            /\ next_ticket' = MaxTicket   \* the model stops here: nobody calls any more
            /\ now_serving' = 0
            /\ depth_locked' = Fresh
            /\ UNCHANGED <<owner_id, pc>>
  /\ UNCHANGED <<my, held>>

Step(t) == \/ TakeTicket(t) \/ ReadMask(t) \/ ReadPolls(t) \/ PollCell(t) \/ Enter(t)
           \/ Reconfigure(t) \/ WriteMask(t) \/ WriteCleanup(t) \/ Own(t)
           \/ TestReadPolls(t) \/ TestReadMask(t) \/ TestPoll(t) \/ TestCas(t) \/ TestServe(t)
           \/ UnsetInner(t) \/ UnsetLast(t) \/ Release(t)

Next == /\ UNCHANGED use
        /\ \E t \in Threads : \/ SetLock(t) \/ TestLock(t) \/ UnsetLock(t) \/ DestroyLock(t)
                              \/ Step(t)

Spec == Init /\ [][Next]_vars

-----------------------------------------------------------------------------
Waiting == {"read_mask", "read_polls", "poll"}
Entering == {"enter", "reconfigure", "write_mask", "write_cleanup", "test_serve", "own"}

\* The variables keep their types: polling areas are arrays from 0, polls and
\* old_polls point to areas that were allocated, and the nest depth does not fall
\* below what an initialized lock starts from.
TypeOK == /\ \A a \in DOMAIN areas : /\ areas[a].freed \in BOOLEAN
                                     /\ \E n \in 1 .. 2 * MaxTicket : 
                                          areas[a].poll \in [0 .. n - 1 -> Nat]
          /\ polls \in DOMAIN areas \cup {Null}
          /\ old_polls \in DOMAIN areas \cup {Null}
          /\ {mask, num_polls, cleanup_ticket, next_ticket, now_serving} \subseteq Nat
          /\ owner_id \in Threads \cup {NoThread}
          /\ depth_locked \in Nat \cup {Fresh}
          /\ pc \in [Threads -> Waiting \cup Entering \cup
                {"idle", "take_ticket", "test_polls", "test_mask", "test_poll", "test_cas",
                 "unset", "release", "freed", "beyond", "fatal"}]
          /\ held \in [Threads -> Nat]

Inside(t) == pc[t] \in Entering \/ held[t] > 0

\* Two threads never hold the lock together, whatever the polling areas do.
MutualExclusion == \A t, u \in Threads : Inside(t) /\ Inside(u) => t = u

\* No thread reads or writes a cell past the end of the array it polls: what
\* the order of the loads of mask and polls is for (kmp_lock.cpp:2328).
CellsInBounds == \A t \in Threads : pc[t] # "beyond"

\* While the area only grows that is so, and no thread touches an array that has
\* been freed: a cleanup ticket is handed out after all who may poll the old one.
GrowingAreaSafe == use = "grow" => \A t \in Threads : pc[t] \notin {"beyond", "freed"}

\* At most one old array waits to be freed: nothing else is leaked, and a
\* destroyed lock leaves nothing allocated.
NothingLeaked == \A a \in DOMAIN areas : areas[a].freed <=> a \notin {polls, old_polls}

\* Tickets are places in the queue of a first-come first-served lock, as long as
\* the area only grows: a thread that strays loses its place.
Holder == LET H == {t \in Threads : Inside(t)}
          IN  IF H = {} THEN NoThread ELSE CHOOSE t \in H : TRUE
Waiters == {t \in Threads : pc[t] \in Waiting}
F == INSTANCE FifoLock WITH
       holder <- Holder,
       level  <- IF Holder = NoThread THEN 0 ELSE IF pc[Holder] \in Entering THEN 1 ELSE held[Holder],
       queue  <- [i \in 1 .. Cardinality(Waiters) |->
                    CHOOSE t \in Waiters : 
                      Cardinality({u \in Waiters : my[u].ticket < my[t].ticket}) = i - 1]
Stalled == use = "grow" /\ Holder = NoThread /\ Waiters # {}
=============================================================================
