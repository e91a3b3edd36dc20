------------------------------- MODULE TasLock -------------------------------
(***************************************************************************)
(* The test-and-set lock and the futex lock of runtime/src/kmp_lock.cpp,   *)
(* "really just test and set locks, with a different method of handling    *)
(* contention".  The one word poll holds 0 or the holder; in a futex lock  *)
(* its least significant bit says that somebody may sleep in the kernel.   *)
(*                                                                         *)
(* The futex system calls are the kernel's (external): wait sleeps only if *)
(* poll still has the value given, wake wakes one sleeper of its choice,   *)
(* and a signal may end a wait.                                            *)
(***************************************************************************)
EXTENDS LockClients

VARIABLES kind,      \* the method this lock waits by, for good
          poll, depth_locked,
          pc,        \* where each thread is in the lock code
          poll_val,  \* the value its compare-and-store found
          lsb,       \* the bit it ors to its gtid_code: 1 once it has slept
          held       \* sets a thread has not yet unset

vars == <<kind, poll, depth_locked, pc, poll_val, lsb, held>>

Kinds == {"tas", "futex"}   \* the methods of waiting
UseFutex == kind = "futex"
Free == 0
Fresh == IF Nestable THEN 0 ELSE -1
Code(t) == IF UseFutex THEN 2 * t ELSE t
Owner == IF UseFutex THEN poll \div 2 ELSE poll
Contended(v) == UseFutex /\ v % 2 = 1

Init == /\ kind \in Kinds
        /\ poll = Free
        /\ depth_locked = Fresh
        /\ pc = [t \in Threads |-> "idle"]
        /\ poll_val = [t \in Threads |-> Free]
        /\ lsb = [t \in Threads |-> 0]
        /\ held = [t \in Threads |-> 0]

At(t, label) == pc[t] = label
Goto(t, label) == pc' = [pc EXCEPT ![t] = label]

\* What a set or a test of a nestable lock does for its owner.
Reenter(t) ==
  /\ Nestable
  /\ Owner = t
  /\ depth_locked' = depth_locked + 1
  /\ held' = [held EXCEPT ![t] = @ + 1]
  /\ UNCHANGED <<kind, poll, pc, poll_val, lsb>>

SetLock(t) ==
  /\ At(t, "idle")
  /\ IF Nestable THEN held[t] < MaxLevel ELSE held[t] = 0
  /\ \/ Reenter(t)
     \/ /\ ~(Nestable /\ Owner = t)
        /\ Goto(t, IF Owner = t THEN "fatal" ELSE "cas")
        /\ UNCHANGED <<kind, poll, depth_locked, poll_val, lsb, held>>

\* Mutants of Cas: a store instead of the compare-and-store; a thread that has
\* slept does not leave the bit behind.
StoreCode(t) ==
  /\ At(t, "cas")
  /\ poll' = Code(t) + lsb[t]
  /\ Goto(t, "own")
  /\ UNCHANGED <<kind, depth_locked, poll_val, lsb, held>>

CasForgetting(t) ==
  /\ At(t, "cas")
  /\ IF poll = Free
       THEN /\ poll' = Code(t)
            /\ poll_val' = [poll_val EXCEPT ![t] = Free]
            /\ lsb' = [lsb EXCEPT ![t] = 0]
            /\ Goto(t, "own")
       ELSE /\ UseFutex
            /\ poll_val' = [poll_val EXCEPT ![t] = poll]
            /\ Goto(t, IF Contended(poll) THEN "futex_wait" ELSE "set_lsb")
            /\ UNCHANGED <<poll, lsb>>
  /\ UNCHANGED <<kind, depth_locked, held>>

\* A test-and-set lock tries until it succeeds; a futex lock sees to it that
\* the release will wake it up.
Cas(t) ==
  /\ At(t, "cas")
  /\ IF poll = Free
       THEN /\ poll' = Code(t) + lsb[t]
            /\ poll_val' = [poll_val EXCEPT ![t] = Free]
            /\ lsb' = [lsb EXCEPT ![t] = 0]
            /\ Goto(t, "own")
       ELSE /\ UseFutex
            /\ poll_val' = [poll_val EXCEPT ![t] = poll]
            /\ Goto(t, IF Contended(poll) THEN "futex_wait" ELSE "set_lsb")
            /\ UNCHANGED <<poll, lsb>>
  /\ UNCHANGED <<kind, depth_locked, held>>

SetLsb(t) ==
  /\ At(t, "set_lsb")
  /\ IF poll = poll_val[t]
       THEN /\ poll' = poll + 1
            /\ poll_val' = [poll_val EXCEPT ![t] = @ + 1]
            /\ Goto(t, "futex_wait")
       ELSE UNCHANGED <<poll, poll_val>> /\ Goto(t, "cas")
  /\ UNCHANGED <<kind, depth_locked, lsb, held>>

FutexWait(t) ==
  /\ At(t, "futex_wait")
  /\ Goto(t, IF poll = poll_val[t] THEN "sleep" ELSE "cas")
  /\ UNCHANGED <<kind, poll, depth_locked, poll_val, lsb, held>>

\* A signal ends the system call with an error: the loop goes round.
Interrupt(t) ==
  /\ At(t, "sleep")
  /\ Goto(t, "cas")
  /\ UNCHANGED <<kind, poll, depth_locked, poll_val, lsb, held>>

\* Mutant of Own: the depth is not set.
OwnKeepingDepth(t) ==
  /\ At(t, "own")
  /\ held' = [held EXCEPT ![t] = 1]
  /\ Goto(t, "idle")
  /\ UNCHANGED <<kind, poll, depth_locked, poll_val, lsb>>

Own(t) ==
  /\ At(t, "own")
  /\ depth_locked' = IF Nestable THEN 1 ELSE depth_locked
  /\ held' = [held EXCEPT ![t] = 1]
  /\ Goto(t, "idle")
  /\ UNCHANGED <<kind, poll, poll_val, lsb>>

TestLock(t) ==
  /\ At(t, "idle")
  /\ Nestable => held[t] < MaxLevel
  /\ \/ Reenter(t)
     \/ /\ ~(Nestable /\ Owner = t)
        /\ poll = Free
        /\ poll' = Code(t)
        /\ Goto(t, "own")
        /\ UNCHANGED <<kind, depth_locked, poll_val, lsb, held>>

\* LockUnsettingFree and LockUnsettingSetByAnother.
UnsetLock(t) ==
  /\ At(t, "idle")
  /\ held[t] > 0
  /\ Goto(t, IF Owner = t THEN "unset" ELSE "fatal")
  /\ UNCHANGED <<kind, poll, depth_locked, poll_val, lsb, held>>

UnsetInner(t) ==
  /\ At(t, "unset")
  /\ Nestable /\ depth_locked # 1
  /\ depth_locked' = depth_locked - 1
  /\ held' = [held EXCEPT ![t] = @ - 1]
  /\ Goto(t, "idle")
  /\ UNCHANGED <<kind, poll, poll_val, lsb>>

UnsetLast(t) ==
  /\ At(t, "unset")
  /\ Nestable => depth_locked = 1
  /\ depth_locked' = Fresh
  /\ Goto(t, "release")
  /\ UNCHANGED <<kind, poll, poll_val, lsb, held>>

\* Mutant of Release: nobody is woken.
ReleaseQuietly(t) ==
  /\ At(t, "release")
  /\ poll' = Free
  /\ held' = [held EXCEPT ![t] = 0]
  /\ Goto(t, "idle")
  /\ UNCHANGED <<kind, depth_locked, poll_val, lsb>>

\* The exchange frees the lock; whoever sleeps is woken in a step of its own.
Release(t) ==
  /\ At(t, "release")
  /\ poll' = Free
  /\ held' = [held EXCEPT ![t] = 0]
  /\ Goto(t, IF Contended(poll) THEN "wake" ELSE "idle")
  /\ UNCHANGED <<kind, depth_locked, poll_val, lsb>>

Sleepers == {t \in Threads : pc[t] = "sleep"}

\* The waiter returns from its system call with success.
FutexWake(t) ==
  /\ At(t, "wake")
  /\ \/ /\ Sleepers = {}
        /\ Goto(t, "idle")
        /\ UNCHANGED lsb
     \/ \E u \in Sleepers :
          /\ pc' = [pc EXCEPT ![t] = "idle", ![u] = "cas"]
          /\ lsb' = [lsb EXCEPT ![u] = 1]
  /\ UNCHANGED <<kind, poll, depth_locked, poll_val, held>>

\* The program destroys a lock that nobody uses; LockStillOwned otherwise.
DestroyLock(t) ==
  /\ \A u \in Threads : pc[u] = "idle" /\ held[u] = 0
  /\ IF Owner # 0 THEN Goto(t, "fatal") /\ UNCHANGED <<poll, depth_locked>>
     ELSE poll' = 0 /\ depth_locked' = Fresh /\ UNCHANGED pc
  /\ UNCHANGED <<kind, poll_val, lsb, held>>

Step(t) == \/ Cas(t) \/ SetLsb(t) \/ FutexWait(t) \/ Own(t)
           \/ UnsetInner(t) \/ UnsetLast(t) \/ Release(t) \/ FutexWake(t)

Next == \E t \in Threads : \/ SetLock(t) \/ TestLock(t) \/ UnsetLock(t) \/ DestroyLock(t)
                           \/ Interrupt(t) \/ Step(t)

Spec == Init /\ [][Next]_vars

-----------------------------------------------------------------------------
Acquiring == {"cas", "set_lsb", "futex_wait", "sleep"}

\* The variables keep their types: the word of a test-and-set lock is 0 or the
\* holder, only that of a futex lock has the bit for sleepers set, and only beside
\* a holder.
TypeOK == /\ kind \in Kinds
          /\ poll \in {Free} \cup {Code(t) : t \in Threads} 
                      \cup (IF UseFutex THEN {Code(t) + 1 : t \in Threads} ELSE {})
          /\ depth_locked \in Nat \cup {-1}
          /\ pc \in [Threads -> Acquiring \cup {"idle", "own", "unset", "release", "wake", "fatal"}]
          /\ poll_val \in [Threads -> Nat]
          /\ lsb \in [Threads -> {0, 1}]
          /\ held \in [Threads -> Nat]

Inside(t) == pc[t] = "own" \/ held[t] > 0

\* poll names the holder, so that the ownership checks never fail a lawful
\* program; and the depth of a nestable lock counts the sets of its owner.
OwnershipExact == \A t \in Threads :
  /\ pc[t] # "fatal"
  /\ Inside(t) <=> Owner = t
  /\ Nestable /\ pc[t] = "idle" /\ held[t] > 0 => depth_locked = held[t]

\* While a thread sleeps in the kernel, somebody is bound to wake it: the
\* holder, because it will find the bit set; a releaser on its way to the wake
\* call; or a thread just woken, which will set the bit when it gets the lock.
SleepersRemembered ==
  Sleepers # {} => \/ Contended(poll)
                   \/ \E t \in Threads : pc[t] = "wake"
                   \/ \E t \in Threads : pc[t] \in {"cas", "set_lsb", "futex_wait"}
                                           /\ lsb[t] = 1

\* The lock implements MutexLock, which has no order of service.
Holder == IF \E t \in Threads : Inside(t) THEN CHOOSE t \in Threads : Inside(t) ELSE 0
Level == IF Holder = 0 THEN 0 ELSE IF pc[Holder] = "own" THEN 1 ELSE held[Holder]
M == INSTANCE MutexLock WITH
       NoThread <- 0,
       holder <- Holder,
       level <- Level,
       waiting <- {t \in Threads : pc[t] \in Acquiring}
=============================================================================
