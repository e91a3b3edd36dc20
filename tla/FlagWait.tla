-------------------------------- MODULE FlagWait --------------------------------
(***************************************************************************)
(* Waiting on a flag of runtime/src/kmp_wait_release.h and sleeping on it  *)
(* (__kmp_suspend_template, __kmp_resume_template in z_Linux_util.cpp).    *)
(*                                                                         *)
(* One thread waits, in turn, on the flags of its own th_bar: on b_go,     *)
(* which it resets after the wait, and on b_arrived, which only grows.     *)
(* Every flag has one releaser; other threads ("pokers") resume the        *)
(* waiter through th_sleep_loc, which they read without its mutex.  The    *)
(* flag object behind th_sleep_loc lives on the stack of the waiter's      *)
(* call: when the waiter has left, its type field is any value.            *)
(*                                                                         *)
(* The word of a flag is a number: bit 0 says that the waiter sleeps, bit  *)
(* 1 is never set, and the release adds KMP_BARRIER_STATE_BUMP.            *)
(***************************************************************************)
EXTENDS Integers, FiniteSets

CONSTANTS GoFlags, ArrivedFlags,   \* the flags, by what their users do with them
          NoFlag,
          Pokers,                  \* threads that resume through th_sleep_loc
          Waiter, Nobody,          \* holders of th_suspend_mx besides the resumers
          Blocktimes,              \* of KMP_BLOCKTIME: "finite", "infinite"
          Rounds                   \* bound: releases of each flag

Flags == GoFlags \cup ArrivedFlags
Resumers == Flags \cup Pokers      \* the releaser of a flag bears its name

ASSUME FlagAssumption == /\ GoFlags \cap ArrivedFlags = {}
                         /\ Flags \cap Pokers = {}
                         /\ NoFlag \notin Flags
                         /\ {Waiter, Nobody} \cap Resumers = {} /\ Waiter # Nobody
                         /\ Blocktimes \subseteq {"finite", "infinite"}
                         /\ Rounds \in Nat

VARIABLES word,                  \* the memory each flag is about
          blocktime, g_done,
          mx,                    \* who holds the waiter's th_suspend_mx
          th_sleep_loc, th_in_pool, th_active, th_active_in_pool,
          thread_pool_active_nth,
          pc, flag,              \* where the waiter is, and on which flag
          rpc, target,           \* where each resumer is, and the flag it resumes
          cast,                  \* the type a poker has found fits the flag
          released, passed       \* releases of a flag, waits on it that returned

pool == <<th_in_pool, th_active, th_active_in_pool, thread_pool_active_nth>>
waiter == <<pc, flag, passed>>
resumer == <<rpc, target, cast, released>>
vars == <<word, blocktime, g_done, mx, th_sleep_loc, pool, waiter, resumer>>

BUMP == 4
Asleep(v) == v % 2 = 1
Awake(v) == v - (v % 2)

\* The value a wait of the present round looks for.
Checker(f) == IF f \in GoFlags THEN BUMP ELSE BUMP * (passed[f] + 1)

Init == /\ word = [f \in Flags |-> 0]
        /\ blocktime \in Blocktimes
        /\ g_done = FALSE
        /\ mx = Nobody
        /\ th_sleep_loc = NoFlag
        /\ th_in_pool \in BOOLEAN
        /\ th_active = TRUE
        /\ th_active_in_pool = th_in_pool
        /\ thread_pool_active_nth = IF th_in_pool THEN 1 ELSE 0
        /\ pc = "idle"
        /\ flag = NoFlag
        /\ rpc = [r \in Resumers |-> "idle"]
        /\ target = [r \in Resumers |-> NoFlag]
        /\ cast = [r \in Resumers |-> TRUE]
        /\ released = [f \in Flags |-> 0]
        /\ passed = [f \in Flags |-> 0]

Goto(label) == pc' = label
RGoto(r, label) == rpc' = [rpc EXCEPT ![r] = label]

-----------------------------------------------------------------------------
\* The wait loop.

Wait(f) ==
  /\ pc = "idle"
  /\ passed[f] < Rounds
  /\ g_done => f \in GoFlags
  /\ flag' = f
  /\ Goto("check")
  /\ UNCHANGED <<word, blocktime, g_done, mx, th_sleep_loc, pool, passed, resumer>>

Check ==
  /\ pc = "check"
  /\ Goto(IF word[flag] = Checker(flag) THEN "return" ELSE "spin")
  /\ UNCHANGED <<word, blocktime, g_done, mx, th_sleep_loc, pool, flag, passed, resumer>>

\* A thread that was moved to the pool, or from it, since it last looked
\* counts itself among the pool's active threads, or no longer.
Spin ==
  /\ pc = "spin"
  /\ IF g_done
       THEN Goto("return") /\ UNCHANGED pool
       ELSE /\ th_active_in_pool' = th_in_pool
            /\ thread_pool_active_nth' = thread_pool_active_nth
                 + (IF th_in_pool THEN 1 ELSE 0) - (IF th_active_in_pool THEN 1 ELSE 0)
            /\ \/ Goto("check")
               \/ blocktime = "finite" /\ Goto("suspend")
            /\ UNCHANGED <<th_in_pool, th_active>>
  /\ UNCHANGED <<word, blocktime, g_done, mx, th_sleep_loc, flag, passed, resumer>>

\* The caller of the wait: a go flag is reset for the next round.  A thread
\* that finds the library shut down leaves.
Return ==
  /\ pc = "return"
  /\ IF g_done
       THEN Goto("gone") /\ UNCHANGED <<word, passed>>
       ELSE /\ Goto("idle")
            /\ word' = IF flag \in GoFlags THEN [word EXCEPT ![flag] = 0] ELSE word
            /\ passed' = [passed EXCEPT ![flag] = @ + 1]
  /\ flag' = NoFlag
  /\ UNCHANGED <<blocktime, g_done, mx, th_sleep_loc, pool, resumer>>

-----------------------------------------------------------------------------
\* __kmp_suspend_template.

Lock ==
  /\ pc \in {"suspend", "woken"}
  /\ mx = Nobody
  /\ mx' = Waiter
  /\ Goto(IF pc = "suspend" THEN "set_sleeping" ELSE "test")
  /\ UNCHANGED <<word, blocktime, g_done, th_sleep_loc, pool, flag, passed, resumer>>

\* Mutant of SetSleeping: the old value is not looked at.
SetSleepingBlindly ==
  /\ pc = "set_sleeping"
  /\ word' = [word EXCEPT ![flag] = Awake(@) + 1]
  /\ Goto("set_loc")
  /\ UNCHANGED <<blocktime, g_done, mx, th_sleep_loc, pool, flag, passed, resumer>>

SetSleeping ==
  /\ pc = "set_sleeping"
  /\ word' = [word EXCEPT ![flag] = Awake(@) + 1]
  /\ Goto(IF word[flag] = Checker(flag) THEN "false_alarm" ELSE "set_loc")
  /\ UNCHANGED <<blocktime, g_done, mx, th_sleep_loc, pool, flag, passed, resumer>>

FalseAlarm ==
  /\ pc = "false_alarm"
  /\ word' = [word EXCEPT ![flag] = Awake(@)]
  /\ Goto("unlock")
  /\ UNCHANGED <<blocktime, g_done, mx, th_sleep_loc, pool, flag, passed, resumer>>

SetLoc ==
  /\ pc = "set_loc"
  /\ th_sleep_loc' = flag
  /\ Goto("test")
  /\ UNCHANGED <<word, blocktime, g_done, mx, pool, flag, passed, resumer>>

\* Mutant of Test: each turn of the loop takes the thread from the pool's count.
TestEveryTime ==
  /\ pc = "test"
  /\ IF Asleep(word[flag])
       THEN /\ th_active' = FALSE
            /\ th_active_in_pool' = FALSE
            /\ thread_pool_active_nth' = thread_pool_active_nth - (IF th_in_pool THEN 1 ELSE 0)
            /\ mx' = Nobody
            /\ Goto("asleep")
       ELSE /\ th_active' = TRUE
            /\ th_active_in_pool' = th_in_pool
            /\ thread_pool_active_nth' = thread_pool_active_nth + (IF th_in_pool THEN 1 ELSE 0)
            /\ Goto("unlock")
            /\ UNCHANGED mx
  /\ UNCHANGED <<word, blocktime, g_done, th_sleep_loc, th_in_pool, flag, passed, resumer>>

\* One turn of the loop: pthread_cond_wait gives the mutex back.  A thread is
\* deactivated at most once, and activated again if it was.
Test ==
  /\ pc = "test"
  /\ IF Asleep(word[flag])
       THEN /\ th_active' = FALSE
            /\ IF th_active /\ th_active_in_pool
                 THEN /\ th_active_in_pool' = FALSE
                      /\ thread_pool_active_nth' = thread_pool_active_nth - 1
                 ELSE UNCHANGED <<th_active_in_pool, thread_pool_active_nth>>
            /\ mx' = Nobody
            /\ Goto("asleep")
       ELSE /\ th_active' = TRUE
            /\ IF ~th_active /\ th_in_pool
                 THEN /\ th_active_in_pool' = TRUE
                      /\ thread_pool_active_nth' = thread_pool_active_nth + 1
                 ELSE UNCHANGED <<th_active_in_pool, thread_pool_active_nth>>
            /\ Goto("unlock")
            /\ UNCHANGED mx
  /\ UNCHANGED <<word, blocktime, g_done, th_sleep_loc, th_in_pool, flag, passed, resumer>>

\* pthread_cond_wait may return for no reason.
WakeSpuriously ==
  /\ pc = "asleep"
  /\ Goto("woken")
  /\ UNCHANGED <<word, blocktime, g_done, mx, th_sleep_loc, pool, flag, passed, resumer>>

Unlock ==
  /\ pc = "unlock"
  /\ mx' = Nobody
  /\ Goto(IF g_done THEN "return" ELSE "check")
  /\ UNCHANGED <<word, blocktime, g_done, th_sleep_loc, pool, flag, passed, resumer>>

-----------------------------------------------------------------------------
\* The releases, and __kmp_resume_template.

\* The program releases a flag again when the thread has passed it.
MayRelease(f) == rpc[f] = "idle" /\ released[f] = passed[f] /\ released[f] < Rounds /\ ~g_done

\* __kmp_reap_thread: the last release of a go flag, with g_done set, of a
\* thread that waits for no other flag.
Shutdown(f) ==
  /\ f \in GoFlags
  /\ flag \in {f, NoFlag}
  /\ MayRelease(f)
  /\ g_done' = TRUE
  /\ RGoto(f, "bump")
  /\ UNCHANGED <<word, blocktime, mx, th_sleep_loc, pool, waiter, target, cast, released>>

\* Mutant of Release: the wrong bit is added.
ReleaseUnused(f) ==
  /\ MayRelease(f) \/ rpc[f] = "bump"
  /\ word' = [word EXCEPT ![f] = @ + 2]
  /\ released' = [released EXCEPT ![f] = @ + 1]
  /\ RGoto(f, IF blocktime = "finite" THEN "peek" ELSE "idle")
  /\ UNCHANGED <<blocktime, g_done, mx, th_sleep_loc, pool, waiter, target, cast>>

Release(f) ==
  /\ MayRelease(f) \/ rpc[f] = "bump"
  /\ word' = [word EXCEPT ![f] = @ + BUMP]
  /\ released' = [released EXCEPT ![f] = @ + 1]
  /\ RGoto(f, IF blocktime = "finite" THEN "peek" ELSE "idle")
  /\ UNCHANGED <<blocktime, g_done, mx, th_sleep_loc, pool, waiter, target, cast>>

Peek(f) ==
  /\ rpc[f] = "peek"
  /\ IF Asleep(word[f])
       THEN RGoto(f, "lock") /\ target' = [target EXCEPT ![f] = f]
       ELSE RGoto(f, "idle") /\ UNCHANGED target
  /\ UNCHANGED <<word, blocktime, g_done, mx, th_sleep_loc, pool, waiter, cast, released>>

\* __kmp_null_resume_wrapper(gtid, th_sleep_loc): the pointer is read, then
\* the type of the flag it points to, if the flag is still there.
Poke(p) ==
  /\ rpc[p] = "idle"
  /\ th_sleep_loc # NoFlag
  /\ target' = [target EXCEPT ![p] = th_sleep_loc]
  /\ RGoto(p, "read_type")
  /\ UNCHANGED <<word, blocktime, g_done, mx, th_sleep_loc, pool, waiter, cast, released>>

ReadType(p) ==
  /\ rpc[p] = "read_type"
  /\ IF th_sleep_loc = target[p]
       THEN /\ cast' = [cast EXCEPT ![p] = TRUE]
            /\ RGoto(p, "lock")
       ELSE \E label \in {"lock", "idle"} : /\ \E c \in BOOLEAN : cast' = [cast EXCEPT ![p] = c]
                                            /\ RGoto(p, label)
  /\ UNCHANGED <<word, blocktime, g_done, mx, th_sleep_loc, pool, waiter, target, released>>

\* A poker takes the flag from th_sleep_loc now.
ResumeLock(r) ==
  /\ rpc[r] = "lock"
  /\ mx = Nobody
  /\ mx' = r
  /\ target' = [target EXCEPT ![r] = IF r \in Pokers THEN th_sleep_loc ELSE @]
  /\ RGoto(r, "unset_sleeping")
  /\ UNCHANGED <<word, blocktime, g_done, th_sleep_loc, pool, waiter, cast, released>>

\* Mutant of ResumeUnset: whoever holds the mutex clears th_sleep_loc.
ResumeUnsetAlways(r) ==
  LET f == target[r]
  IN /\ rpc[r] = "unset_sleeping"
     /\ IF f # NoFlag /\ cast[r]
          THEN word' = [word EXCEPT ![f] = Awake(@)] /\ RGoto(r, "clear_loc")
          ELSE UNCHANGED word /\ RGoto(r, "clear_loc")
     /\ UNCHANGED <<blocktime, g_done, mx, th_sleep_loc, pool, waiter, target, cast, released>>

\* Somebody else may have woken the thread: nothing to do then.
ResumeUnset(r) ==
  LET f == target[r]
  IN /\ rpc[r] = "unset_sleeping"
     /\ IF f # NoFlag /\ cast[r]
          THEN /\ word' = [word EXCEPT ![f] = Awake(@)]
               /\ RGoto(r, IF Asleep(word[f]) THEN "clear_loc" ELSE "unlock")
          ELSE UNCHANGED word /\ RGoto(r, "unlock")
     /\ UNCHANGED <<blocktime, g_done, mx, th_sleep_loc, pool, waiter, target, cast, released>>

\* Mutant of ResumeClear: no signal.
ResumeQuietly(r) ==
  /\ rpc[r] = "clear_loc"
  /\ th_sleep_loc' = NoFlag
  /\ RGoto(r, "unlock")
  /\ UNCHANGED <<word, blocktime, g_done, mx, pool, waiter, target, cast, released>>

\* th_sleep_loc is cleared and the condition variable signalled.
ResumeClear(r) ==
  /\ rpc[r] = "clear_loc"
  /\ th_sleep_loc' = NoFlag
  /\ Goto(IF pc = "asleep" THEN "woken" ELSE pc)
  /\ RGoto(r, "unlock")
  /\ UNCHANGED <<word, blocktime, g_done, mx, pool, flag, passed, target, cast, released>>

ResumeUnlock(r) ==
  /\ rpc[r] = "unlock"
  /\ mx' = Nobody
  /\ RGoto(r, "idle")
  /\ target' = [target EXCEPT ![r] = NoFlag]
  /\ cast' = [cast EXCEPT ![r] = TRUE]
  /\ UNCHANGED <<word, blocktime, g_done, th_sleep_loc, pool, waiter, released>>

-----------------------------------------------------------------------------
\* The master moves the thread to the pool, and back to a team.
ChangePool ==
  /\ th_in_pool' = ~th_in_pool
  /\ UNCHANGED <<word, blocktime, g_done, mx, th_sleep_loc, th_active, th_active_in_pool,
                 thread_pool_active_nth, waiter, resumer>>

WaiterStep == \/ Check \/ Spin \/ Return \/ Lock \/ SetSleeping \/ FalseAlarm
              \/ SetLoc \/ Test \/ Unlock
ResumerStep(r) == \/ r \in Flags /\ (Peek(r) \/ (rpc[r] = "bump" /\ Release(r)))
                  \/ ReadType(r) \/ ResumeUnset(r) \/ ResumeClear(r) \/ ResumeUnlock(r)

Next == \/ \E f \in Flags : Wait(f) \/ Release(f) \/ Shutdown(f) \/ Peek(f)
        \/ \E p \in Pokers : Poke(p) \/ ReadType(p)
        \/ \E r \in Resumers : \/ ResumeLock(r) \/ ResumeUnset(r)
                               \/ ResumeClear(r) \/ ResumeUnlock(r)
        \/ Check \/ Spin \/ Return \/ Lock \/ SetSleeping \/ FalseAlarm
        \/ SetLoc \/ Test \/ WakeSpuriously \/ Unlock \/ ChangePool

Spec == Init /\ [][Next]_vars

\* Threads run, and a thread that keeps asking for a mutex gets it.
FairSpec == Spec /\ WF_vars(WaiterStep) /\ SF_vars(Lock)
                 /\ \A r \in Resumers : WF_vars(ResumerStep(r)) /\ SF_vars(ResumeLock(r))

-----------------------------------------------------------------------------
Inside == {"set_sleeping", "false_alarm", "set_loc", "test", "unlock"}

\* The variables keep their types; a flag's word is a whole number of bumps and
\* the sleep bit: bit 1, KMP_BARRIER_UNUSED_STATE, is never set.
TypeOK == /\ word \in [Flags -> Nat]
          /\ blocktime \in Blocktimes
          /\ mx \in Resumers \cup {Waiter, Nobody}
          /\ th_sleep_loc \in Flags \cup {NoFlag}
          /\ {g_done, th_in_pool, th_active, th_active_in_pool} \subseteq BOOLEAN
          /\ thread_pool_active_nth \in Int
          /\ pc \in Inside \cup {"idle", "check", "spin", "return", "suspend", "asleep",
                                 "woken", "gone"}
          /\ flag \in Flags \cup {NoFlag}
          /\ rpc \in [Resumers -> {"idle", "bump", "peek", "read_type", "lock",
                                   "unset_sleeping", "clear_loc", "unlock"}]
          /\ target \in [Resumers -> Flags \cup {NoFlag}]
          /\ cast \in [Resumers -> BOOLEAN]
          /\ released \in [Flags -> Nat]
          /\ passed \in [Flags -> Nat]
          /\ \A f \in Flags : word[f] % BUMP \in {0, 1}

\* A thread sleeps with the flag released only while somebody is on the way to
\* wake it: a releaser that will find the sleep bit, or a resumer that has
\* cleared the bit and is about to signal.
NoLostWakeup ==
  pc = "asleep" /\ released[flag] > passed[flag]
    => IF Asleep(word[flag])
         THEN rpc[flag] \in {"peek", "lock"} \/ (rpc[flag] = "unset_sleeping" /\ mx = flag)
         ELSE \E r \in Resumers : mx = r /\ rpc[r] = "clear_loc"

\* The sleep bit and th_sleep_loc speak of the flag the thread is suspended on
\* and of no other: whoever reads them with the mutex in hand may trust them.
\* And __kmp_thread_pool_active_nth counts the threads that say they are in it,
\* of which a sleeping thread is none.
SleepStateExact ==
  /\ TypeOK
  /\ \A f \in Flags : Asleep(word[f]) => flag = f /\ pc \in {"false_alarm", "set_loc", "test",
                                                             "asleep", "woken"}
  /\ mx = Nobody => \A f \in Flags : th_sleep_loc = f <=> Asleep(word[f])
  /\ thread_pool_active_nth = IF th_active_in_pool THEN 1 ELSE 0
  /\ pc = "asleep" => ~th_active_in_pool

\* The flag's promise, with the wait that is released always returning.
Promise == INSTANCE Flag WITH waiting <- flag, done <- g_done
ImplementsFlag == Promise!FairSpec
=============================================================================
