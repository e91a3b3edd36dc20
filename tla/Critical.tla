------------------------------ MODULE Critical ------------------------------
(***************************************************************************)
(* The lock of a critical section, which the first threads to arrive       *)
(* install while others arrive (runtime/src/kmp_csupport.cpp), and the     *)
(* table and pool the lock objects come from (kmp_lock.cpp).               *)
(*                                                                         *)
(* The word of the section is a direct lock, with a tag in its low bits,   *)
(* or points to an indirect one.  Which it is follows from the hint of the *)
(* construct; how it is left follows from the user's default lock.  The    *)
(* program also initialises and destroys a lock of its own of the same     *)
(* indirect type.  Locks themselves are atomic here: see UserLock.         *)
(***************************************************************************)
EXTENDS LockClients, Sequences

CONSTANTS CriticalUses,   \* pairs <<default lock, lock the hint maps to>>, each
                          \* "tas", "futex" (direct locks) or "queuing" (indirect)
          MaxObjects      \* bound: lock objects the table has room for

\* A hint maps to the default lock, to a test-and-set lock or to an indirect one.
ASSUME HintAssumption == \A u \in CriticalUses :
  /\ u \in {"tas", "futex", "queuing"} \X {"tas", "futex", "queuing"}
  /\ u[2] \in {u[1], "tas", "queuing"}

VARIABLES uses,        \* __kmp_user_lock_seq and __kmp_map_hint_to_lock(hint)
          crit,        \* the word: its tag, and the holder or the object
          table,       \* the holder of each lock object allocated so far
          pool,        \* __kmp_indirect_lock_pool of the tag
          user_lock,   \* the object of the program's own lock, or Null
          ilk,         \* the object each thread means to install, or Null
          pc

criticalVars == <<uses, crit, table, pool, user_lock, ilk, pc>>

Null == 0
DefaultSeq == uses[1]
HintedSeq == uses[2]
IsDirect(seq) == seq \in {"tas", "futex"}
Direct(holder) == [tag |-> "direct", holder |-> holder, object |-> Null]
Indirect(i) == [tag |-> "indirect", holder |-> NoThread, object |-> i]
Untagged == [tag |-> "none", holder |-> NoThread, object |-> Null]

CriticalInit ==
  /\ uses \in CriticalUses
  /\ crit = Untagged
  /\ table = <<>>
  /\ pool = <<>>
  /\ user_lock = Null
  /\ ilk = [t \in Threads |-> Null]
  /\ pc = [t \in Threads |-> "idle"]

At(t, label) == pc[t] = label
Goto(t, label) == pc' = [pc EXCEPT ![t] = label]

\* A lock object from the pool, or a new one, under the global lock.
Allocate(i) ==
  IF pool # <<>>
    THEN i = Head(pool) /\ pool' = Tail(pool) /\ UNCHANGED table
    ELSE /\ Len(table) < MaxObjects
         /\ i = Len(table) + 1
         /\ table' = Append(table, NoThread)
         /\ UNCHANGED pool

Objects == 1 .. MaxObjects

EnterCritical(t) ==
  /\ At(t, "idle")
  /\ Goto(t, IF crit # Untagged THEN "set" ELSE IF IsDirect(HintedSeq) THEN "tag" ELSE "create")
  /\ UNCHANGED <<uses, crit, table, pool, user_lock, ilk>>

InstallTag(t) ==
  /\ At(t, "tag")
  /\ crit' = IF crit = Untagged THEN Direct(NoThread) ELSE crit
  /\ Goto(t, "set")
  /\ UNCHANGED <<uses, table, pool, user_lock, ilk>>

CreateLock(t) ==
  /\ At(t, "create")
  /\ \E i \in Objects : Allocate(i) /\ ilk' = [ilk EXCEPT ![t] = i]
  /\ Goto(t, "install")
  /\ UNCHANGED <<uses, crit, user_lock>>

\* Mutant of InstallLock: the pointer is stored without a look at the word.
StoreLock(t) ==
  /\ At(t, "install")
  /\ crit' = Indirect(ilk[t])
  /\ ilk' = [ilk EXCEPT ![t] = Null]
  /\ Goto(t, "set")
  /\ UNCHANGED <<uses, table, pool, user_lock>>

\* The object of a thread that comes second stays unclaimed until the program ends.
InstallLock(t) ==
  /\ At(t, "install")
  /\ crit' = IF crit = Untagged THEN Indirect(ilk[t]) ELSE crit
  /\ ilk' = [ilk EXCEPT ![t] = Null]
  /\ Goto(t, "set")
  /\ UNCHANGED <<uses, table, pool, user_lock>>

SetCritical(t) ==
  /\ At(t, "set")
  /\ \/ /\ crit.tag = "direct" /\ crit.holder = NoThread
        /\ crit' = Direct(t)
        /\ UNCHANGED table
     \/ /\ crit.tag = "indirect" /\ table[crit.object] = NoThread
        /\ table' = [table EXCEPT ![crit.object] = t]
        /\ UNCHANGED crit
  /\ Goto(t, "inside")
  /\ UNCHANGED <<uses, pool, user_lock, ilk>>

\* How the section is left follows from the default lock, whatever the word is. With
\* an indirect default it is followed as a pointer. With a direct one it is stored to
\* (tas, inlined), or goes to the function of its tag, and that of no tag takes it for
\* an index into the table of locks, which the pointer to a section's lock is not.
Understood == crit.tag = IF IsDirect(DefaultSeq) THEN "direct" ELSE "indirect"

\* Mutant of EndCritical: the section is left and its direct lock stays taken.
EndKeepingLock(t) ==
  /\ At(t, "inside") /\ Understood
  /\ table' = IF crit.tag = "direct" THEN table ELSE [table EXCEPT ![crit.object] = NoThread]
  /\ Goto(t, "idle")
  /\ UNCHANGED <<uses, crit, pool, user_lock, ilk>>

EndCritical(t) ==
  /\ At(t, "inside")
  /\ \/ /\ Understood /\ crit.tag = "direct"
        /\ crit' = Direct(NoThread)
        /\ Goto(t, "idle")
        /\ UNCHANGED table
     \/ /\ Understood /\ crit.tag = "indirect"
        /\ table' = [table EXCEPT ![crit.object] = NoThread]
        /\ Goto(t, "idle")
        /\ UNCHANGED crit
     \/ /\ ~Understood
        /\ Goto(t, "wild")
        /\ UNCHANGED <<crit, table>>
  /\ UNCHANGED <<uses, pool, user_lock, ilk>>

\* The program's own lock: init, set, unset and destroy.
InitUserLock(t) ==
  /\ At(t, "idle")
  /\ user_lock = Null
  /\ \E i \in Objects : Allocate(i) /\ user_lock' = i
  /\ UNCHANGED <<uses, crit, ilk, pc>>

SetUserLock(t) ==
  /\ At(t, "idle")
  /\ user_lock # Null
  /\ table[user_lock] = NoThread
  /\ table' = [table EXCEPT ![user_lock] = t]
  /\ Goto(t, "user")
  /\ UNCHANGED <<uses, crit, pool, user_lock, ilk>>

UnsetUserLock(t) ==
  /\ At(t, "user")
  /\ table' = [table EXCEPT ![user_lock] = NoThread]
  /\ Goto(t, "idle")
  /\ UNCHANGED <<uses, crit, pool, user_lock, ilk>>

\* Mutant of DestroyUserLock: the object stays the program's when it is pooled.
DestroyKeeping(t) ==
  /\ At(t, "idle")
  /\ user_lock # Null /\ table[user_lock] = NoThread
  /\ pool' = <<user_lock>> \o pool
  /\ UNCHANGED <<uses, crit, table, user_lock, ilk, pc>>

DestroyUserLock(t) ==
  /\ At(t, "idle")
  /\ user_lock # Null /\ table[user_lock] = NoThread
  /\ pool' = <<user_lock>> \o pool
  /\ user_lock' = Null
  /\ UNCHANGED <<uses, crit, table, ilk, pc>>

CriticalStep(t) ==
  \/ InstallTag(t) \/ CreateLock(t) \/ InstallLock(t) \/ SetCritical(t) \/ EndCritical(t)

CriticalNext == \E t \in Threads :
  \/ EnterCritical(t) \/ CriticalStep(t)
  \/ InitUserLock(t) \/ SetUserLock(t) \/ UnsetUserLock(t) \/ DestroyUserLock(t)

CriticalSpec == CriticalInit /\ [][CriticalNext]_criticalVars

-----------------------------------------------------------------------------
\* All threads agree on one lock, however their first entries race: no two are
\* in the section together, and no lock object has two users, the section, the
\* program's own lock, a thread about to install it and the pool among them.
Users(i) == (IF crit.object = i THEN {<<"section", i>>} ELSE {})
            \cup (IF user_lock = i THEN {<<"program", i>>} ELSE {})
            \cup {<<"thread", t>> : t \in {u \in Threads : ilk[u] = i}}
            \cup {<<"pool", k>> : k \in {n \in DOMAIN pool : pool[n] = i}}
OneLock == /\ \A t, u \in Threads : At(t, "inside") /\ At(u, "inside") => t = u
           /\ \A i \in DOMAIN table : Cardinality(Users(i)) <= 1

\* kmp_csupport.cpp:1250, of __kmpc_end_critical: "Leave a critical section,
\* releasing any lock that was held during its execution." So the lock that the word
\* names at any time is held by the thread inside and by nobody else, also when it has
\* just been installed, and leaving goes by that word.
SectionHolder == IF crit.tag = "indirect" THEN table[crit.object] ELSE crit.holder
LeavingReleases == \A t \in Threads : ~At(t, "wild") /\ (SectionHolder = t <=> At(t, "inside"))

\* The uses of a section for which LeavingReleases is proved (UserLockProofs): hint and
\* default lock are both direct or both indirect.
Matching(u) == IsDirect(u[1]) <=> IsDirect(u[2])
=============================================================================
