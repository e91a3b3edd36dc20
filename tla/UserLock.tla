------------------------------ MODULE UserLock ------------------------------
(***************************************************************************)
(* The lock behind an omp_lock_t or an omp_nest_lock_t: the environment    *)
(* variable KMP_LOCK_KIND, or the hint it is initialised with, chooses one *)
(* of five implementations for good, and every call is dispatched to it    *)
(* (runtime/src/kmp_lock.cpp).  The sixth kind is the lock of a critical   *)
(* section, which the threads install on their way in.                     *)
(*                                                                         *)
(* As in union kmp_user_lock the implementations share the memory of the   *)
(* lock: a variable that several of them have is declared once, and one    *)
(* that the chosen kind does not use is Unused.  Those of Critical come     *)
(* with it, pc among them.                                                 *)
(***************************************************************************)
EXTENDS Critical

CONSTANTS LockKinds,                     \* the kinds to choose from
          Locks, NestLocks, Programs,    \* see QueuingLock
          Testers, Uses                  \* see DrdpaLock

VARIABLES lock_kind,     \* __kmp_user_lock_kind, or the tag of the lock
          \* words of several kinds, and the client's view of the lock
          initialized, next_ticket, now_serving, owner_id, depth_locked, held,
          my_ticket,                                                        \* ticket
          poll, poll_val, lsb,                                              \* tas, futex
          program, head_id, tail_id, spin_here, next_waiting, lck, head, tail,  \* queuing
          use, areas, polls, mask, num_polls, old_polls, cleanup_ticket, my     \* drdpa

Ticket == INSTANCE TicketLockProofs
Tas == INSTANCE TasLockProofs WITH kind <- lock_kind
Queuing == INSTANCE QueuingLock
Drdpa == INSTANCE DrdpaLock

ticketWords == <<initialized, next_ticket, now_serving, owner_id>>
tasWords == <<poll, poll_val, lsb>>
queuingWords == <<program, head_id, tail_id, spin_here, next_waiting, lck, head, tail>>
drdpaWords == <<use, areas, polls, mask, num_polls, old_polls, cleanup_ticket, my>>
criticalWords == <<uses, crit, table, pool, user_lock, ilk>>
vars == <<lock_kind, ticketWords, tasWords, queuingWords, drdpaWords, criticalWords,
          my_ticket, depth_locked, pc, held>>

Unused == 0
UnusedTicket == /\ initialized = Unused /\ next_ticket = Unused
                /\ now_serving = Unused /\ owner_id = Unused
UnusedTas == poll = Unused /\ poll_val = Unused /\ lsb = Unused
UnusedQueuing == /\ program = Unused /\ head_id = Unused /\ tail_id = Unused
                 /\ spin_here = Unused /\ next_waiting = Unused
                 /\ lck = Unused /\ head = Unused /\ tail = Unused
UnusedDrdpa == /\ use = Unused /\ areas = Unused /\ polls = Unused /\ mask = Unused
               /\ num_polls = Unused /\ old_polls = Unused /\ cleanup_ticket = Unused
               /\ my = Unused
UnusedCritical == /\ uses = Unused /\ crit = Unused /\ table = Unused /\ pool = Unused
                  /\ user_lock = Unused /\ ilk = Unused

TasKinds == {"tas", "futex"}

Init == /\ lock_kind \in LockKinds
        /\ \/ /\ lock_kind = "ticket" /\ Ticket!Init
              /\ UnusedTas /\ UnusedQueuing /\ UnusedDrdpa /\ UnusedCritical
           \/ /\ lock_kind \in TasKinds /\ Tas!Init
              /\ UnusedTicket /\ UnusedQueuing /\ UnusedDrdpa /\ UnusedCritical
              /\ my_ticket = Unused
           \/ /\ lock_kind = "queuing" /\ Queuing!Init
              /\ next_ticket = Unused /\ now_serving = Unused /\ my_ticket = Unused
              /\ UnusedTas /\ UnusedDrdpa /\ UnusedCritical
           \/ /\ lock_kind = "drdpa" /\ Drdpa!Init
              /\ initialized = Unused /\ my_ticket = Unused
              /\ UnusedTas /\ UnusedQueuing /\ UnusedCritical
           \/ /\ lock_kind = "critical" /\ CriticalInit
              /\ UnusedTicket /\ UnusedTas /\ UnusedQueuing /\ UnusedDrdpa
              /\ my_ticket = Unused /\ depth_locked = Unused /\ held = Unused

-----------------------------------------------------------------------------
\* Every call goes to the implementation of the kind, which leaves the words of
\* the others alone.
Ticketed(Act) == /\ lock_kind = "ticket"
                 /\ Act
                 /\ UNCHANGED <<lock_kind, tasWords, queuingWords, drdpaWords, criticalWords>>
Tested(Act) == /\ lock_kind \in TasKinds
               /\ Act
               /\ UNCHANGED <<lock_kind, ticketWords, my_ticket,
                              queuingWords, drdpaWords, criticalWords>>
Queued(Act) == /\ lock_kind = "queuing"
               /\ Act
               /\ UNCHANGED <<lock_kind, next_ticket, now_serving, my_ticket,
                              tasWords, drdpaWords, criticalWords>>
Polled(Act) == /\ lock_kind = "drdpa"
               /\ Act
               /\ UNCHANGED <<lock_kind, initialized, my_ticket,
                              tasWords, queuingWords, criticalWords>>
Installed(Act) == /\ lock_kind = "critical"
                  /\ Act
                  /\ UNCHANGED <<lock_kind, ticketWords, my_ticket, depth_locked, held,
                                 tasWords, queuingWords, drdpaWords>>

Next == \/ Ticketed(Ticket!Next) \/ Tested(Tas!Next) \/ Queued(Queuing!Next)
        \/ Polled(Drdpa!Next) \/ Installed(CriticalNext)

Spec == Init /\ [][Next]_vars

\* A thread inside the lock code runs.
Step(t) == \/ Ticketed(Ticket!Step(t)) \/ Tested(Tas!Step(t))
           \/ Queued(UNCHANGED program /\ Queuing!Step(t))
           \/ Polled(UNCHANGED use /\ Drdpa!Step(t)) \/ Installed(CriticalStep(t))
FairSpec == Spec /\ \A t \in Threads : WF_vars(Step(t))

-----------------------------------------------------------------------------
\* What is checked of each kind, the types of its variables first.

\* Ticket lock: two threads never hold it together, a program that follows the
\* rules meets no fatal error, and the depth is the number of sets to be unset.
TicketSound == lock_kind = "ticket" =>
  Ticket!TypeOK /\ Ticket!MutualExclusion /\ Ticket!NoSpuriousFatal /\ Ticket!DepthIsHeld

\* Test-and-set and futex locks: the word names the holder, and no thread sleeps
\* in the kernel without somebody bound to wake it.
TasSound == lock_kind \in TasKinds => Tas!TypeOK /\ Tas!OwnershipExact /\ Tas!SleepersRemembered

\* Locks whose waiters poll a place of their own.  Queuing locks: the list through
\* the threads is the queue, and the assertions of the code hold.  Drdpa lock: one
\* holder, one old polling area at most, and while the area only grows no waiter
\* polls outside a live one.
LocalSpinSound ==
  /\ lock_kind = "queuing" => Queuing!TypeOK /\ Queuing!QueueWellFormed /\ Queuing!AssertionsHold
  /\ lock_kind = "drdpa" =>
       Drdpa!TypeOK /\ Drdpa!MutualExclusion /\ Drdpa!GrowingAreaSafe /\ Drdpa!NothingLeaked

\* Critical sections: all threads agree on one lock, and no lock object has two
\* users; it is held by the thread inside alone, and leaving releases it.
CriticalSound == lock_kind = "critical" => OneLock /\ LeavingReleases

\* The ticket, queuing and drdpa locks implement FifoLock, the last while its area
\* only grows: waiters are served in the order in which they joined. The
\* test-and-set and futex locks implement MutexLock: one holder at a time.
TicketIsFifo ==
  /\ lock_kind = "ticket" => Ticket!F!Init
  /\ [][lock_kind = "ticket" => UNCHANGED Ticket!F!vars \/ Ticket!F!Next]_vars
QueuingIsFifo ==
  /\ lock_kind = "queuing" => \A l \in Locks : program = {l} => Queuing!F(l)!Init
  /\ [][lock_kind = "queuing" => \A l \in Locks :
          program = {l} => UNCHANGED Queuing!F(l)!vars \/ Queuing!F(l)!Next]_vars
DrdpaIsFifo ==
  /\ lock_kind = "drdpa" => Drdpa!F!Init
  /\ [][lock_kind = "drdpa" /\ use = "grow" =>
          UNCHANGED Drdpa!F!vars \/ Drdpa!F!Next]_vars
TasIsMutex ==
  /\ lock_kind \in TasKinds => Tas!M!Init
  /\ [][(lock_kind \in TasKinds) => UNCHANGED Tas!M!vars \/ Tas!M!Next]_vars
ImplementsLock == TicketIsFifo /\ QueuingIsFifo /\ DrdpaIsFifo /\ TasIsMutex

\* No lock stays free while a thread waits or sleeps for it, the drdpa lock as
\* long as its area only grows.
Stalled == \/ lock_kind = "ticket" /\ Ticket!F!Stalled
           \/ lock_kind \in TasKinds /\ Tas!M!Stalled
           \/ lock_kind = "queuing" /\ Queuing!Stalled
           \/ lock_kind = "drdpa" /\ Drdpa!Stalled
LockGranted == Stalled ~> ~Stalled
=============================================================================
