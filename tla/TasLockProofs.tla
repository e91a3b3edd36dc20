---------------------------- MODULE TasLockProofs ----------------------------
(***************************************************************************)
(* The word of a test-and-set or futex lock names its holder, and a futex  *)
(* lock forgets no thread that sleeps in the kernel: for any finite set of *)
(* threads, both kinds of lock and any nest level.                         *)
(***************************************************************************)
EXTENDS TasLock, TLAPS

\* What a thread's place in the lock code says of its locals: it has or has not
\* sets to unset, and the value its compare-and-store found has the bit or not.
Locals == \A t \in Threads :
  /\ pc[t] \in Acquiring \cup {"own", "wake"} => held[t] = 0
  /\ pc[t] \in {"unset", "release"} => held[t] > 0
  /\ lsb[t] = 1 => UseFutex /\ pc[t] \in Acquiring
  /\ pc[t] \in {"set_lsb", "futex_wait", "sleep", "wake"} => UseFutex
  /\ pc[t] = "set_lsb" => poll_val[t] # Free /\ ~Contended(poll_val[t])
  /\ pc[t] = "futex_wait" => Contended(poll_val[t])

\* The depth counts the sets of the owner also on its way to an unset.
Depth == \A t \in Threads :
  Nestable /\ pc[t] \in {"idle", "unset"} /\ held[t] > 0 => depth_locked = held[t]

\* The ownership half of the invariant, and all of it.
Owned == TypeOK /\ OwnershipExact /\ Locals /\ Depth
IInv == Owned /\ SleepersRemembered

-----------------------------------------------------------------------------
\* The word with a thread's code in it, and with the bit beside, names the thread.
LEMMA CodeNames ==
  ASSUME NEW t \in Threads, UseFutex
  PROVE  /\ Code(t) \div 2 = t /\ (Code(t) + 1) \div 2 = t
         /\ Code(t) % 2 = 0 /\ (Code(t) + 1) % 2 = 1
         /\ Code(t) > 0
BY ClientAssumption DEF Code

\* A word of the right type is free or names a thread.
LEMMA WordNames ==
  ASSUME TypeOK
  PROVE  /\ poll \in Nat
         /\ Owner \in Threads \cup {0}
         /\ Owner = 0 <=> poll = Free
         /\ poll # Free => Owner \in Threads
<1>1. CASE poll = Free
  BY <1>1, ClientAssumption DEF Owner, Free
<1>2. ASSUME NEW t \in Threads, UseFutex, poll = Code(t) \/ poll = Code(t) + 1
      PROVE  poll \in Nat /\ Owner = t /\ poll # Free
  BY <1>2, CodeNames, ClientAssumption DEF Owner, Free, Code
<1>3. ASSUME NEW t \in Threads, ~UseFutex, poll = Code(t)
      PROVE  poll \in Nat /\ Owner = t /\ poll # Free
  BY <1>3, ClientAssumption DEF Owner, Free, Code
<1> QED
  BY <1>1, <1>2, <1>3, ClientAssumption DEF TypeOK

-----------------------------------------------------------------------------
\* A fresh lock is free and nobody is in its code.
LEMMA InitEstablishes == Init => IInv
<1> SUFFICES ASSUME Init PROVE IInv
  OBVIOUS
<1>1. TypeOK
  BY ClientAssumption DEF Init, TypeOK, Free, Fresh
<1>2. Owner = 0
  BY <1>1, WordNames DEF Init
<1>3. OwnershipExact
  BY <1>2, ClientAssumption DEF Init, OwnershipExact, Inside
<1>4. Locals /\ Depth /\ SleepersRemembered
  BY DEF Init, Locals, Depth, SleepersRemembered, Sleepers, Acquiring
<1> QED
  BY <1>1, <1>3, <1>4 DEF IInv, Owned

\* A set or test by the owner of a nestable lock counts one level more.
LEMMA ReenterKeeps == ASSUME Owned, NEW t \in Threads, pc[t] = "idle", Reenter(t) PROVE Owned'
<1>1. held[t] > 0 /\ held[t] \in Nat /\ depth_locked = held[t] /\ Nestable
  BY DEF Reenter, Owned, TypeOK, OwnershipExact, Inside, Depth
<1>2. /\ UNCHANGED <<kind, poll, pc, poll_val, lsb>>
      /\ depth_locked' = held[t] + 1
      /\ held' = [held EXCEPT ![t] = held[t] + 1]
  BY <1>1 DEF Reenter
<1>3. TypeOK'
  BY <1>1, <1>2 DEF Owned, TypeOK, Code, UseFutex, Free
<1>4. Owner' = Owner
  BY <1>2 DEF Owner, UseFutex
<1>5. OwnershipExact'
  BY <1>1, <1>2, <1>4 DEF Owned, TypeOK, OwnershipExact, Inside
<1>6. Locals'
  BY <1>1, <1>2 DEF Owned, TypeOK, Locals, Contended, UseFutex, Acquiring
<1>7. \A u \in Threads : u # t => held[u] = 0
  BY <1>1 DEF Owned, TypeOK, OwnershipExact, Inside
<1>8. Depth'
  BY <1>1, <1>2, <1>7 DEF Owned, TypeOK, Depth
<1> QED
  BY <1>3, <1>5, <1>6, <1>8 DEF Owned
\* A thread inside the lock is alone there.
LEMMA Alone == ASSUME Owned, NEW t \in Threads, Inside(t)
               PROVE  \A u \in Threads : u # t => ~Inside(u) /\ held[u] = 0 /\ pc[u] # "own"
BY DEF Owned, TypeOK, OwnershipExact, Inside

\* Nobody is inside a lock whose word is free.
LEMMA NobodyInside == ASSUME Owned, poll = Free
                      PROVE  \A u \in Threads : ~Inside(u) /\ held[u] = 0 /\ pc[u] # "own"
<1>1. Owner = 0
  BY WordNames DEF Owned
<1>2. \A u \in Threads : u # 0 /\ held[u] \in Nat
  BY ClientAssumption DEF Owned, TypeOK
<1>3. \A u \in Threads : ~Inside(u)
  BY <1>1, <1>2 DEF Owned, OwnershipExact
<1> QED
  BY <1>2, <1>3 DEF Inside

\* Steps that change neither the word, nor who is inside, nor the depth.
LEMMA MoveKeeps ==
  ASSUME Owned, NEW t \in Threads, NEW place \in Acquiring \cup {"idle", "unset"},
         pc' = [pc EXCEPT ![t] = place], pc[t] # "own",
         UNCHANGED <<kind, poll, depth_locked, held>>,
         lsb' = lsb, poll_val' \in [Threads -> Nat],
         \A u \in Threads : u # t => poll_val'[u] = poll_val[u],
         Locals', Depth'
  PROVE  Owned'
<1>1. TypeOK'
  BY DEF Owned, TypeOK, Code, UseFutex, Free
<1>2. Owner' = Owner
  BY DEF Owner, UseFutex
<1>3. \A u \in Threads : Inside(u)' <=> Inside(u)
  BY DEF Owned, TypeOK, Inside, Acquiring
<1>4. \A u \in Threads : pc'[u] # "fatal"
  BY DEF Owned, TypeOK, OwnershipExact, Acquiring
<1>5. OwnershipExact'
  BY <1>2, <1>3, <1>4 DEF Owned, OwnershipExact, Depth
<1> QED
  BY <1>1, <1>5 DEF Owned

\* A set goes in by the owner's way or to the compare-and-store; it does not fail.
LEMMA SetKeeps == ASSUME Owned, NEW t \in Threads, SetLock(t) PROVE Owned'
<1>1. pc[t] = "idle"
  BY DEF SetLock, At
<1>2. CASE Reenter(t)
  BY <1>1, <1>2, ReenterKeeps
<1>3. CASE ~Reenter(t)
  <2>1. ~(Nestable /\ Owner = t) /\ UNCHANGED <<kind, poll, depth_locked, poll_val, lsb, held>>
    BY <1>3 DEF SetLock
  <2>2. held[t] = 0 /\ Owner # t
    BY <1>1, <1>3, <2>1 DEF SetLock, Owned, TypeOK, OwnershipExact, Inside
  <2>3. pc' = [pc EXCEPT ![t] = "cas"]
    BY <1>3, <2>2 DEF SetLock, Goto
  <2>4. Locals' /\ Depth'
    BY <1>1, <2>1, <2>2, <2>3
    DEF Owned, TypeOK, Locals, Depth, Acquiring, Contended, UseFutex
  <2> QED
    BY <1>1, <2>1, <2>3, <2>4, MoveKeeps DEF Acquiring, Owned, TypeOK
<1> QED
  BY <1>2, <1>3

\* The holder's step into the lock, by a set or by a test.
LEMMA EnterKeeps ==
  ASSUME Owned, NEW t \in Threads, poll = Free, held[t] = 0,
         UNCHANGED <<kind, depth_locked, held>>,
         NEW bit \in {0, 1}, bit = 1 => UseFutex, poll' = Code(t) + bit,
         pc' = [pc EXCEPT ![t] = "own"],
         poll_val' \in [Threads -> Nat], \A u \in Threads : u # t => poll_val'[u] = poll_val[u],
         lsb' = [lsb EXCEPT ![t] = 0]
  PROVE  Owned'
<1>1. Owner' = t
  <2>1. CASE UseFutex
    BY <2>1, CodeNames, ClientAssumption DEF Owner, UseFutex, Code
  <2>2. CASE ~UseFutex
    BY <2>2, ClientAssumption DEF Owner, UseFutex, Code
  <2> QED
    BY <2>1, <2>2
<1>2. TypeOK'
  <2>1. poll' \in {Free} \cup {Code(u)' : u \in Threads}
                     \cup (IF UseFutex' THEN {Code(u)' + 1 : u \in Threads} ELSE {})
    <3>1. Code(t)' = Code(t) /\ UseFutex' = UseFutex /\ Code(t) \in Nat
      BY ClientAssumption DEF Code, UseFutex
    <3> QED
      BY <3>1
  <2> QED
    BY <2>1 DEF Owned, TypeOK, Free, Acquiring
<1>3. \A u \in Threads : ~Inside(u) /\ held[u] = 0 /\ pc[u] # "own"
  BY NobodyInside
<1>4. OwnershipExact'
  BY <1>1, <1>3 DEF Owned, TypeOK, OwnershipExact, Inside
<1>5. Locals'
  BY <1>3 DEF Owned, TypeOK, Locals, Acquiring, Contended, UseFutex
<1>6. Depth'
  BY <1>3 DEF Owned, TypeOK, Depth
<1> QED
  BY <1>2, <1>4, <1>5, <1>6 DEF Owned

\* A test goes in by the owner's way or takes a free word at once.
LEMMA TestKeeps == ASSUME Owned, NEW t \in Threads, TestLock(t) PROVE Owned'
<1>1. pc[t] = "idle"
  BY DEF TestLock, At
<1>2. CASE Reenter(t)
  BY <1>1, <1>2, ReenterKeeps
<1>3. CASE ~Reenter(t)
  <2>1. /\ poll = Free /\ poll' = Code(t) /\ pc' = [pc EXCEPT ![t] = "own"]
        /\ UNCHANGED <<kind, depth_locked, poll_val, lsb, held>>
    BY <1>3 DEF TestLock, Goto
  <2>2. held[t] = 0 /\ lsb[t] = 0
    BY <1>1, <2>1, NobodyInside DEF Owned, TypeOK, Locals, Acquiring
  <2>3. lsb' = [lsb EXCEPT ![t] = 0]
    BY <2>1, <2>2 DEF Owned, TypeOK
  <2>4. poll_val' \in [Threads -> Nat] /\ \A u \in Threads : u # t => poll_val'[u] = poll_val[u]
    BY <2>1 DEF Owned, TypeOK
  <2>5. PICK bit \in {0, 1} : bit # 1 /\ poll' = Code(t) + bit
    BY <2>1, ClientAssumption DEF Code
  <2> QED
    BY <2>1, <2>2, <2>3, <2>4, <2>5, EnterKeeps
<1> QED
  BY <1>2, <1>3

\* A compare-and-store takes a free word, or remembers the holder's.
LEMMA CasKeeps == ASSUME Owned, NEW t \in Threads, Cas(t) PROVE Owned'
<1>1. pc[t] = "cas" /\ held[t] = 0 /\ UNCHANGED <<kind, depth_locked, held>>
  BY DEF Cas, At, Owned, Locals, Acquiring
<1>2. CASE poll = Free
  <2>1. /\ poll' = Code(t) + lsb[t] /\ pc' = [pc EXCEPT ![t] = "own"]
        /\ lsb' = [lsb EXCEPT ![t] = 0] /\ poll_val' = [poll_val EXCEPT ![t] = Free]
    BY <1>2 DEF Cas, Goto
  <2>2. lsb[t] \in {0, 1} /\ (lsb[t] = 1 => UseFutex)
    BY <1>1 DEF Owned, TypeOK, Locals, Acquiring
  <2> QED
    <3>1. /\ poll_val' \in [Threads -> Nat]
          /\ \A u \in Threads : u # t => poll_val'[u] = poll_val[u]
      BY <2>1 DEF Owned, TypeOK, Free
    <3> QED
      BY <1>1, <1>2, <2>1, <2>2, <3>1, EnterKeeps
<1>3. CASE poll # Free
  <2>1. /\ UseFutex /\ UNCHANGED <<poll, lsb>>
        /\ poll_val' = [poll_val EXCEPT ![t] = poll]
        /\ pc' = [pc EXCEPT ![t] = IF Contended(poll) THEN "futex_wait" ELSE "set_lsb"]
    BY <1>3 DEF Cas, Goto
  <2>2. poll_val' \in [Threads -> Nat]
    BY <2>1, WordNames DEF Owned, TypeOK
  <2>3. Locals' /\ Depth'
    BY <1>1, <1>3, <2>1, <2>2
    DEF Owned, TypeOK, Locals, Depth, Acquiring, Contended, UseFutex
  <2>4. \A u \in Threads : u # t => poll_val'[u] = poll_val[u]
    BY <2>1 DEF Owned, TypeOK
  <2>5. PICK place \in {"futex_wait", "set_lsb"} : pc' = [pc EXCEPT ![t] = place]
    BY <2>1
  <2>6. place \in Acquiring \cup {"idle", "unset"}
    BY <2>5 DEF Acquiring
  <2> QED
    BY <1>1, <2>1, <2>2, <2>3, <2>4, <2>5, <2>6, MoveKeeps
<1> QED
  BY <1>2, <1>3

\* The bit is added to the word only beside a holder.
LEMMA SetLsbKeeps == ASSUME Owned, NEW t \in Threads, SetLsb(t) PROVE Owned'
<1>1. /\ pc[t] = "set_lsb" /\ UseFutex /\ held[t] = 0
      /\ poll_val[t] # Free /\ ~Contended(poll_val[t])
      /\ UNCHANGED <<kind, depth_locked, lsb, held>>
  BY DEF SetLsb, At, Owned, Locals, Acquiring
<1>2. CASE poll = poll_val[t]
  <2>1. /\ poll' = poll + 1 /\ poll_val' = [poll_val EXCEPT ![t] = poll + 1]
        /\ pc' = [pc EXCEPT ![t] = "futex_wait"]
    BY <1>2 DEF SetLsb, Goto
  <2>2. PICK u \in Threads : poll = Code(u)
    <3>1. ASSUME NEW u \in Threads, poll = Code(u) + 1 PROVE FALSE
      BY <1>1, <1>2, <3>1, CodeNames DEF Contended
    <3> QED
      BY <1>1, <1>2, <3>1 DEF Owned, TypeOK
  <2>3. /\ poll' = Code(u) + 1 /\ Owner = u /\ Owner' = u
        /\ Contended(poll + 1) /\ poll + 1 \in Nat
    BY <1>1, <2>1, <2>2, CodeNames, ClientAssumption DEF Owner, UseFutex, Contended, Code
  <2>4. TypeOK'
    <3>1. UseFutex' /\ Code(u)' = Code(u)
      BY <1>1 DEF UseFutex, Code
    <3>2. poll' \in {Code(v)' + 1 : v \in Threads}
      BY <2>3, <3>1
    <3> QED
      BY <1>1, <2>1, <2>3, <3>1, <3>2 DEF Owned, TypeOK, Acquiring
  <2>5. OwnershipExact'
    BY <1>1, <2>1, <2>3 DEF Owned, TypeOK, OwnershipExact, Inside
  <2>6. Locals' /\ Depth'
    BY <1>1, <2>1, <2>3 DEF Owned, TypeOK, Locals, Depth, Acquiring, Contended, UseFutex
  <2> QED
    BY <2>4, <2>5, <2>6 DEF Owned
<1>3. CASE poll # poll_val[t]
  <2>1. UNCHANGED <<poll, poll_val>> /\ pc' = [pc EXCEPT ![t] = "cas"]
    BY <1>3 DEF SetLsb, Goto
  <2>2. Locals' /\ Depth'
    BY <1>1, <2>1 DEF Owned, TypeOK, Locals, Depth, Acquiring, Contended, UseFutex
  <2> QED
    BY <1>1, <2>1, <2>2, MoveKeeps DEF Acquiring, Owned, TypeOK
<1> QED
  BY <1>2, <1>3

\* The kernel lets the thread sleep or sends it round.
LEMMA FutexWaitKeeps == ASSUME Owned, NEW t \in Threads, FutexWait(t) PROVE Owned'
<1>1. pc[t] = "futex_wait" /\ held[t] = 0 /\ UseFutex
  BY DEF FutexWait, At, Owned, Locals, Acquiring
<1>2. PICK place \in {"sleep", "cas"} : pc' = [pc EXCEPT ![t] = place]
  BY DEF FutexWait, Goto
<1>3. UNCHANGED <<kind, poll, depth_locked, poll_val, lsb, held>>
  BY DEF FutexWait
<1>4. Locals' /\ Depth'
  BY <1>1, <1>2, <1>3 DEF Owned, TypeOK, Locals, Depth, Acquiring, Contended, UseFutex
<1> QED
  BY <1>1, <1>2, <1>3, <1>4, MoveKeeps DEF Acquiring, Owned, TypeOK

\* A signal sends the thread round.
LEMMA InterruptKeeps == ASSUME Owned, NEW t \in Threads, Interrupt(t) PROVE Owned'
<1>1. /\ pc[t] = "sleep" /\ held[t] = 0 /\ pc' = [pc EXCEPT ![t] = "cas"]
      /\ UNCHANGED <<kind, poll, depth_locked, poll_val, lsb, held>>
  BY DEF Interrupt, At, Goto, Owned, Locals, Acquiring
<1>2. Locals' /\ Depth'
  BY <1>1 DEF Owned, TypeOK, Locals, Depth, Acquiring, Contended, UseFutex
<1> QED
  BY <1>1, <1>2, MoveKeeps DEF Acquiring, Owned, TypeOK

\* The depth of a nestable lock is set after the word.
LEMMA OwnKeeps == ASSUME Owned, NEW t \in Threads, Own(t) PROVE Owned'
<1>1. /\ pc[t] = "own" /\ pc' = [pc EXCEPT ![t] = "idle"]
      /\ held' = [held EXCEPT ![t] = 1]
      /\ depth_locked' = IF Nestable THEN 1 ELSE depth_locked
      /\ UNCHANGED <<kind, poll, poll_val, lsb>>
  BY DEF Own, At, Goto
<1>2. \A u \in Threads : u # t => held[u] = 0
  BY <1>1, Alone DEF Inside
<1>3. TypeOK'
  BY <1>1 DEF Owned, TypeOK, Code, UseFutex, Free
<1>4. Owner' = Owner
  BY <1>1 DEF Owner, UseFutex
<1>5. OwnershipExact'
  BY <1>1, <1>2, <1>4 DEF Owned, TypeOK, OwnershipExact, Inside
<1>6. Locals'
  BY <1>1 DEF Owned, TypeOK, Locals, Acquiring, Contended, UseFutex
<1>7. Depth'
  BY <1>1, <1>2 DEF Owned, TypeOK, Depth
<1> QED
  BY <1>3, <1>5, <1>6, <1>7 DEF Owned

\* The ownership check of an unset does not fail.
LEMMA UnsetKeeps == ASSUME Owned, NEW t \in Threads, UnsetLock(t) PROVE Owned'
<1>1. /\ pc[t] = "idle" /\ held[t] > 0
      /\ UNCHANGED <<kind, poll, depth_locked, poll_val, lsb, held>>
  BY DEF UnsetLock, At
<1>2. Owner = t
  BY <1>1 DEF Owned, OwnershipExact, Inside
<1>3. pc' = [pc EXCEPT ![t] = "unset"]
  BY <1>2 DEF UnsetLock, Goto
<1>4. Locals' /\ Depth'
  BY <1>1, <1>3 DEF Owned, TypeOK, Locals, Depth, Acquiring, Contended, UseFutex
<1> QED
  BY <1>1, <1>3, <1>4, MoveKeeps DEF Owned, TypeOK

\* An inner unset takes one level off.
LEMMA UnsetInnerKeeps == ASSUME Owned, NEW t \in Threads, UnsetInner(t) PROVE Owned'
<1>1. /\ pc[t] = "unset" /\ Nestable /\ depth_locked # 1
      /\ pc' = [pc EXCEPT ![t] = "idle"]
      /\ held' = [held EXCEPT ![t] = held[t] - 1] /\ depth_locked' = depth_locked - 1
      /\ UNCHANGED <<kind, poll, poll_val, lsb>>
  BY DEF UnsetInner, At, Goto
<1>2. held[t] \in Nat /\ held[t] > 1 /\ depth_locked = held[t]
  BY <1>1 DEF Owned, TypeOK, Locals, Depth
<1>3. \A u \in Threads : u # t => held[u] = 0
  BY <1>2, Alone DEF Inside
<1>4. TypeOK'
  BY <1>1, <1>2 DEF Owned, TypeOK, Code, UseFutex, Free
<1>5. Owner' = Owner
  BY <1>1 DEF Owner, UseFutex
<1>6. OwnershipExact'
  BY <1>1, <1>2, <1>3, <1>5 DEF Owned, TypeOK, OwnershipExact, Inside
<1>7. Locals'
  BY <1>1, <1>2 DEF Owned, TypeOK, Locals, Acquiring, Contended, UseFutex
<1>8. Depth'
  BY <1>1, <1>2, <1>3 DEF Owned, TypeOK, Depth
<1> QED
  BY <1>4, <1>6, <1>7, <1>8 DEF Owned

\* The last unset resets the depth before the word.
LEMMA UnsetLastKeeps == ASSUME Owned, NEW t \in Threads, UnsetLast(t) PROVE Owned'
<1>1. /\ pc[t] = "unset" /\ pc' = [pc EXCEPT ![t] = "release"]
      /\ depth_locked' = Fresh
      /\ UNCHANGED <<kind, poll, poll_val, lsb, held>>
  BY DEF UnsetLast, At, Goto
<1>2. held[t] > 0 /\ \A u \in Threads : u # t => held[u] = 0
  BY <1>1, Alone DEF Owned, Locals, Inside
<1>3. TypeOK'
  BY <1>1 DEF Owned, TypeOK, Code, UseFutex, Free, Fresh
<1>4. Owner' = Owner
  BY <1>1 DEF Owner, UseFutex
<1>5. OwnershipExact'
  BY <1>1, <1>2, <1>4 DEF Owned, TypeOK, OwnershipExact, Inside
<1>6. Locals'
  BY <1>1, <1>2 DEF Owned, TypeOK, Locals, Acquiring, Contended, UseFutex
<1>7. Depth'
  BY <1>1, <1>2 DEF Owned, TypeOK, Depth
<1> QED
  BY <1>3, <1>5, <1>6, <1>7 DEF Owned

\* The release empties the lock.
LEMMA ReleaseKeeps == ASSUME Owned, NEW t \in Threads, Release(t) PROVE Owned'
<1>1. /\ pc[t] = "release" /\ poll' = Free /\ held' = [held EXCEPT ![t] = 0]
      /\ UNCHANGED <<kind, depth_locked, poll_val, lsb>>
  BY DEF Release, At
<1>2. PICK place \in {"wake", "idle"} : (place = "wake" => UseFutex) /\ pc' = [pc EXCEPT ![t] = place]
  BY DEF Release, Goto, Contended
<1>3. held[t] > 0 /\ \A u \in Threads : u # t => held[u] = 0 /\ pc[u] # "own"
  BY <1>1, Alone DEF Owned, Locals, Inside
<1>4. TypeOK'
  BY <1>1, <1>2 DEF Owned, TypeOK
<1>5. Owner' = 0
  BY <1>4, <1>1, WordNames, ClientAssumption DEF Owner, Free
<1>6. OwnershipExact'
  BY <1>1, <1>2, <1>3, <1>5, ClientAssumption DEF Owned, TypeOK, OwnershipExact, Inside
<1>7. Locals'
  BY <1>1, <1>2 DEF Owned, TypeOK, Locals, Acquiring, Contended, UseFutex
<1>8. Depth'
  BY <1>1, <1>2, <1>3 DEF Owned, TypeOK, Depth
<1> QED
  BY <1>4, <1>6, <1>7, <1>8 DEF Owned

\* A wake moves at most one other thread, out of its sleep.
LEMMA WakeKeeps == ASSUME Owned, NEW t \in Threads, FutexWake(t) PROVE Owned'
<1>1. /\ pc[t] = "wake" /\ held[t] = 0 /\ UseFutex
      /\ UNCHANGED <<kind, poll, depth_locked, poll_val, held>>
  BY DEF FutexWake, At, Owned, Locals, Acquiring
<1>2. CASE Sleepers = {} /\ pc' = [pc EXCEPT ![t] = "idle"] /\ lsb' = lsb
  <2>1. Locals' /\ Depth'
    BY <1>1, <1>2 DEF Owned, TypeOK, Locals, Depth, Acquiring, Contended, UseFutex
  <2> QED
    BY <1>1, <1>2, <2>1, MoveKeeps DEF Owned, TypeOK
<1>3. ASSUME NEW u \in Sleepers, pc' = [pc EXCEPT ![t] = "idle", ![u] = "cas"],
             lsb' = [lsb EXCEPT ![u] = 1]
      PROVE  Owned'
  <2>1. u \in Threads /\ pc[u] = "sleep" /\ u # t /\ held[u] = 0
    BY <1>1, <1>3 DEF Sleepers, Owned, Locals, Acquiring
  <2>2. TypeOK'
    BY <1>1, <1>3, <2>1 DEF Owned, TypeOK, Code, UseFutex, Free, Acquiring
  <2>3. Owner' = Owner
    BY <1>1 DEF Owner, UseFutex
  <2>4. OwnershipExact'
    BY <1>1, <1>3, <2>1, <2>3 DEF Owned, TypeOK, OwnershipExact, Inside
  <2>5. Locals' /\ Depth'
    BY <1>1, <1>3, <2>1 DEF Owned, TypeOK, Locals, Depth, Acquiring, Contended, UseFutex
  <2> QED
    BY <2>2, <2>4, <2>5 DEF Owned
<1> QED
  BY <1>2, <1>3 DEF FutexWake, Goto

\* A lock nobody uses is free: its destruction does not fail.
LEMMA DestroyKeeps == ASSUME Owned, NEW t \in Threads, DestroyLock(t) PROVE Owned'
<1>1. \A u \in Threads : pc[u] = "idle" /\ held[u] = 0
  BY DEF DestroyLock
<1>2. Owner = 0
  BY <1>1, WordNames DEF Owned, OwnershipExact, Inside
<1>3. /\ poll' = Free /\ depth_locked' = Fresh
      /\ UNCHANGED <<kind, pc, poll_val, lsb, held>>
  BY <1>2 DEF DestroyLock, Free
<1>4. TypeOK'
  <2>1. depth_locked' \in Nat \cup {-1}
    BY <1>3 DEF Fresh
  <2> QED
    BY <1>3, <2>1 DEF Owned, TypeOK
<1>5. Owner' = 0
  BY <1>3, ClientAssumption DEF Owner, Free
<1>6. \A u \in Threads : pc'[u] = "idle" /\ held'[u] = 0
  BY <1>1, <1>3
<1>7. OwnershipExact'
  BY <1>5, <1>6, ClientAssumption DEF OwnershipExact, Inside
<1>8. Locals' /\ Depth'
  BY <1>3, <1>6 DEF Owned, TypeOK, Locals, Depth, Acquiring, Contended, UseFutex
<1> QED
  BY <1>4, <1>7, <1>8 DEF Owned

\* Nothing is lost when nothing happens.
LEMMA StutterKeeps == Owned /\ UNCHANGED vars => Owned'
<1> SUFFICES ASSUME Owned, UNCHANGED vars PROVE Owned'
  OBVIOUS
<1>1. TypeOK' /\ Owner' = Owner
  BY DEF vars, Owned, TypeOK, Code, UseFutex, Owner
<1> QED
  BY <1>1 DEF vars, Owned, OwnershipExact, Inside, Locals, Depth, Contended, UseFutex

\* The ownership half is inductive by itself.
LEMMA NextKeepsOwned == Owned /\ [Next]_vars => Owned'
BY SetKeeps, TestKeeps, UnsetKeeps, DestroyKeeps, InterruptKeeps, CasKeeps, SetLsbKeeps,
   FutexWaitKeeps, OwnKeeps, UnsetInnerKeeps, UnsetLastKeeps, ReleaseKeeps, WakeKeeps,
   StutterKeeps
DEF Next, Step

-----------------------------------------------------------------------------
\* A thread that will mark the word when it gets the lock, or wake a sleeper.
Minder(t) == pc[t] = "wake" \/ (pc[t] \in {"cas", "set_lsb", "futex_wait"} /\ lsb[t] = 1)

\* A step under which no thread falls asleep, the word keeps its bit and the
\* minders go on to mind.
LEMMA MindersStay ==
  ASSUME SleepersRemembered, Sleepers' \subseteq Sleepers,
         Contended(poll) => Contended(poll)',
         \A t \in Threads : Minder(t) => Minder(t)' \/ Contended(poll)'
  PROVE  SleepersRemembered'
<1>1. Sleepers = {} \/ Contended(poll) \/ \E t \in Threads : Minder(t)
  BY DEF SleepersRemembered, Minder
<1> QED
  BY <1>1 DEF SleepersRemembered, Minder

\* Nobody sleeps unremembered after a step of the lock's code or of its users.
LEMMA NextKeepsSleepers == IInv /\ [Next]_vars => SleepersRemembered'
<1> SUFFICES ASSUME Owned, SleepersRemembered, [Next]_vars PROVE SleepersRemembered'
  BY DEF IInv
<1>1. Owned'
  BY NextKeepsOwned
<1>2. pc \in [Threads -> Acquiring \cup {"idle", "own", "unset", "release", "wake", "fatal"}]
      /\ lsb \in [Threads -> {0, 1}]
  BY DEF Owned, TypeOK
<1>3. ASSUME NEW t \in Threads, NEW place, pc' = [pc EXCEPT ![t] = place],
             ~Minder(t), place # "sleep", lsb' = lsb, poll' = poll, kind' = kind
      PROVE  SleepersRemembered'
  <2>1. Sleepers' \subseteq Sleepers /\ Contended(poll)' = Contended(poll)
    BY <1>2, <1>3 DEF Sleepers, Contended, UseFutex
  <2>2. \A u \in Threads : Minder(u) => Minder(u)'
    BY <1>2, <1>3 DEF Minder
  <2> QED
    BY <2>1, <2>2, MindersStay
<1>4. ASSUME UNCHANGED <<kind, poll, pc, lsb>> PROVE SleepersRemembered'
  BY <1>4 DEF SleepersRemembered, Sleepers, Contended, UseFutex
<1>5. ASSUME NEW t \in Threads, SetLock(t) PROVE SleepersRemembered'
  <2>1. CASE Reenter(t)
    BY <1>4, <2>1 DEF Reenter
  <2>2. CASE ~Reenter(t)
    <3>1. ~Minder(t)
      BY <1>5 DEF SetLock, At, Minder
    <3> QED
      BY <1>3, <1>5, <2>2, <3>1 DEF SetLock, Goto
  <2> QED
    BY <2>1, <2>2
\* A free word has no bit to lose, and the thread minds nobody.
<1>6. ASSUME NEW t \in Threads, poll = Free, pc' = [pc EXCEPT ![t] = "own"], lsb[t] = 0,
             lsb' = lsb, pc[t] # "wake"
      PROVE  SleepersRemembered'
  <2>1. Sleepers' \subseteq Sleepers /\ ~Contended(poll)
    BY <1>2, <1>6 DEF Sleepers, Contended, Free
  <2>2. \A u \in Threads : Minder(u) => Minder(u)'
    BY <1>2, <1>6 DEF Minder
  <2> QED
    BY <2>1, <2>2, MindersStay
<1>7. ASSUME NEW t \in Threads, TestLock(t) PROVE SleepersRemembered'
  <2>1. CASE Reenter(t)
    BY <1>4, <2>1 DEF Reenter
  <2>2. CASE ~Reenter(t)
    <3>1. lsb[t] = 0 /\ pc[t] = "idle"
      BY <1>2, <1>7 DEF TestLock, At, Owned, Locals, Acquiring
    <3> QED
      BY <1>6, <1>7, <2>2, <3>1 DEF TestLock, Goto
  <2> QED
    BY <2>1, <2>2
<1>8. ASSUME NEW t \in Threads, UnsetLock(t) PROVE SleepersRemembered'
  BY <1>3, <1>8 DEF UnsetLock, At, Goto, Minder
<1>9. ASSUME NEW t \in Threads, DestroyLock(t) PROVE SleepersRemembered'
  <2>1. Sleepers' = {}
    BY <1>2, <1>9 DEF DestroyLock, Sleepers, Goto
  <2> QED
    BY <2>1 DEF SleepersRemembered
<1>10. ASSUME NEW t \in Threads, Interrupt(t) PROVE SleepersRemembered'
  BY <1>3, <1>10 DEF Interrupt, At, Goto, Minder
<1>11. ASSUME NEW t \in Threads, Cas(t) PROVE SleepersRemembered'
  <2>1. pc[t] = "cas" /\ lsb[t] \in {0, 1} /\ kind' = kind
    BY <1>2, <1>11 DEF Cas, At
  <2>2. CASE poll = Free /\ lsb[t] = 0
    <3>1. pc' = [pc EXCEPT ![t] = "own"] /\ lsb' = lsb
      BY <1>2, <1>11, <2>2 DEF Cas, Goto
    <3> QED
      BY <1>6, <2>1, <2>2, <3>1
  \* It leaves the bit behind.
  <2>3. CASE poll = Free /\ lsb[t] = 1
    <3>1. UseFutex /\ poll' = Code(t) + 1
      BY <1>11, <2>1, <2>3 DEF Cas, Owned, Locals
    <3>2. Contended(poll)'
      BY <2>1, <3>1, CodeNames DEF Contended, UseFutex
    <3> QED
      BY <3>2 DEF SleepersRemembered
  \* It goes round, with its bit.
  <2>4. CASE poll # Free
    <3>1. PICK place \in {"futex_wait", "set_lsb"} : pc' = [pc EXCEPT ![t] = place]
      BY <1>11, <2>4 DEF Cas, Goto
    <3>2. UNCHANGED <<poll, lsb>>
      BY <1>11, <2>4 DEF Cas
    <3>3. Sleepers' \subseteq Sleepers /\ Contended(poll)' = Contended(poll)
      BY <1>2, <2>1, <3>1, <3>2 DEF Sleepers, Contended, UseFutex
    <3>4. \A u \in Threads : Minder(u) => Minder(u)'
      BY <1>2, <2>1, <3>1, <3>2 DEF Minder
    <3> QED
      BY <3>3, <3>4, MindersStay
  <2> QED
    BY <2>1, <2>2, <2>3, <2>4
<1>12. ASSUME NEW t \in Threads, SetLsb(t) PROVE SleepersRemembered'
  <2>1. /\ pc[t] = "set_lsb" /\ UNCHANGED <<kind, lsb>>
        /\ UseFutex /\ ~Contended(poll_val[t])
    BY <1>12 DEF SetLsb, At, Owned, Locals
  <2>2. PICK place \in {"futex_wait", "cas"} : pc' = [pc EXCEPT ![t] = place]
    BY <1>12 DEF SetLsb, Goto
  <2>3. Contended(poll) => Contended(poll)'
    <3>1. CASE poll = poll_val[t]
      BY <2>1, <3>1
    <3>2. CASE poll # poll_val[t]
      BY <1>12, <2>1, <3>2 DEF SetLsb, Contended, UseFutex
    <3> QED
      BY <3>1, <3>2
  <2>4. Sleepers' \subseteq Sleepers
    BY <1>2, <2>1, <2>2 DEF Sleepers
  <2>5. \A u \in Threads : Minder(u) => Minder(u)'
    BY <1>2, <2>1, <2>2 DEF Minder
  <2> QED
    BY <2>3, <2>4, <2>5, MindersStay
\* A thread falls asleep only if the word has the bit.
<1>13. ASSUME NEW t \in Threads, FutexWait(t) PROVE SleepersRemembered'
  <2>1. /\ pc[t] = "futex_wait" /\ UNCHANGED <<kind, poll, poll_val, lsb>>
        /\ Contended(poll_val[t])
    BY <1>13 DEF FutexWait, At, Owned, Locals
  <2>2. CASE poll = poll_val[t]
    <3>1. Contended(poll)'
      BY <2>1, <2>2 DEF Contended, UseFutex
    <3> QED
      BY <3>1 DEF SleepersRemembered
  <2>3. CASE poll # poll_val[t]
    <3>1. pc' = [pc EXCEPT ![t] = "cas"]
      BY <1>13, <2>3 DEF FutexWait, Goto
    <3>2. Sleepers' \subseteq Sleepers /\ Contended(poll)' = Contended(poll)
      BY <1>2, <2>1, <3>1 DEF Sleepers, Contended, UseFutex
    <3>3. \A u \in Threads : Minder(u) => Minder(u)'
      BY <1>2, <2>1, <3>1 DEF Minder
    <3> QED
      BY <3>2, <3>3, MindersStay
  <2> QED
    BY <2>2, <2>3
<1>14. ASSUME NEW t \in Threads, Own(t) PROVE SleepersRemembered'
  <2>1. kind' = kind
    BY <1>14 DEF Own
  <2> QED
    BY <1>3, <1>14, <2>1 DEF Own, At, Goto, Minder
<1>15. ASSUME NEW t \in Threads, UnsetInner(t) PROVE SleepersRemembered'
  BY <1>3, <1>15 DEF UnsetInner, At, Goto, Minder
<1>16. ASSUME NEW t \in Threads, UnsetLast(t) PROVE SleepersRemembered'
  BY <1>3, <1>16 DEF UnsetLast, At, Goto, Minder
\* The bit a release takes away makes the releaser wake somebody.
<1>17. ASSUME NEW t \in Threads, Release(t) PROVE SleepersRemembered'
  <2>1. /\ pc[t] = "release" /\ lsb' = lsb
        /\ pc' = [pc EXCEPT ![t] = IF Contended(poll) THEN "wake" ELSE "idle"]
    BY <1>17 DEF Release, At, Goto
  <2>2. CASE Contended(poll)
    BY <1>2, <2>1, <2>2 DEF SleepersRemembered
  <2>3. CASE ~Contended(poll)
    <3>1. Sleepers' \subseteq Sleepers
      BY <1>2, <2>1, <2>3 DEF Sleepers
    <3>2. \A u \in Threads : Minder(u) => Minder(u)'
      BY <1>2, <2>1, <2>3 DEF Minder
    <3> QED
      BY <2>3, <3>1, <3>2, MindersStay
  <2> QED
    BY <2>2, <2>3
\* Who is woken minds the others.
<1>18. ASSUME NEW t \in Threads, FutexWake(t) PROVE SleepersRemembered'
  <2>1. pc[t] = "wake"
    BY <1>18 DEF FutexWake, At
  <2>2. CASE Sleepers = {} /\ pc' = [pc EXCEPT ![t] = "idle"]
    <3>1. Sleepers' = {}
      BY <1>2, <2>2 DEF Sleepers
    <3> QED
      BY <3>1 DEF SleepersRemembered
  <2>3. ASSUME NEW u \in Sleepers, pc' = [pc EXCEPT ![t] = "idle", ![u] = "cas"],
               lsb' = [lsb EXCEPT ![u] = 1]
        PROVE  SleepersRemembered'
    <3>1. u \in Threads /\ pc'[u] = "cas" /\ lsb'[u] = 1
      BY <1>2, <2>1, <2>3 DEF Sleepers
    <3> QED
      BY <3>1 DEF SleepersRemembered
  <2> QED
    BY <1>18, <2>2, <2>3 DEF FutexWake, Goto
<1>19. CASE UNCHANGED vars
  BY <1>4, <1>19 DEF vars
<1> QED
  BY <1>5, <1>7, <1>8, <1>9, <1>10, <1>11, <1>12, <1>13, <1>14, <1>15, <1>16, <1>17, <1>18,
     <1>19 DEF Next, Step

\* The inductive invariant holds in every reachable state.
LEMMA Invariance == Spec => []IInv
<1>1. Init => IInv
  BY InitEstablishes
<1>2. IInv /\ [Next]_vars => IInv'
  BY NextKeepsOwned, NextKeepsSleepers DEF IInv
<1> QED
  BY <1>1, <1>2, PTL DEF Spec

\* The word names the holder: the ownership checks never fail a lawful program,
\* and the depth of a nestable lock is the number of sets still to be unset.
THEOREM TasOwnership == Spec => []OwnershipExact
<1>1. IInv => OwnershipExact
  BY DEF IInv, Owned
<1> QED
  BY <1>1, Invariance, PTL

\* Two threads are never inside the lock together.
THEOREM TasMutualExclusion ==
  Spec => [](\A t, u \in Threads : Inside(t) /\ Inside(u) => t = u)
<1>1. IInv => \A t, u \in Threads : Inside(t) /\ Inside(u) => t = u
  BY DEF IInv, Owned, OwnershipExact
<1> QED
  BY <1>1, Invariance, PTL

\* No thread sleeps in the kernel without somebody bound to wake it.
THEOREM TasSleepers == Spec => []SleepersRemembered
<1>1. IInv => SleepersRemembered
  BY DEF IInv
<1> QED
  BY <1>1, Invariance, PTL

\* The variables of the lock keep their types.
THEOREM TasTypeCorrect == Spec => []TypeOK
<1>1. IInv => TypeOK
  BY DEF IInv, Owned
<1> QED
  BY <1>1, Invariance, PTL
-----------------------------------------------------------------------------
\* The sets of a thread that releases are down to one; a simple lock is set once.
Counts == \A t \in Threads : /\ pc[t] = "release" => held[t] = 1
                             /\ ~Nestable => held[t] <= 1

LEMMA CountsKept == Owned /\ Counts /\ [Next]_vars => Counts'
<1> SUFFICES ASSUME Owned, Counts, [Next]_vars PROVE Counts'
  OBVIOUS
<1>0. pc \in [Threads -> Acquiring \cup {"idle", "own", "unset", "release", "wake", "fatal"}]
      /\ held \in [Threads -> Nat]
  BY DEF Owned, TypeOK
<1>1. ASSUME NEW t \in Threads, pc[t] = "idle", Reenter(t)
      PROVE  Counts'
  BY <1>0, <1>1 DEF Reenter, Counts
<1>2. ASSUME NEW t \in Threads, SetLock(t) \/ TestLock(t) \/ UnsetLock(t)
      PROVE  Counts'
  <2>1. CASE Reenter(t)
    BY <1>1, <1>2, <2>1 DEF SetLock, TestLock, UnsetLock, At
  <2>2. CASE ~Reenter(t)
    <3>1. held' = held /\ \E place \in {"fatal", "cas", "own", "unset"} :
                            pc' = [pc EXCEPT ![t] = place]
      BY <1>2, <2>2 DEF SetLock, TestLock, UnsetLock, Goto
    <3> QED
      BY <1>0, <3>1 DEF Counts
  <2> QED
    BY <2>1, <2>2
<1>3. ASSUME NEW t \in Threads, Cas(t) \/ SetLsb(t) \/ FutexWait(t) \/ Interrupt(t)
      PROVE  Counts'
  <2>1. held' = held /\ \E place \in {"own", "futex_wait", "set_lsb", "cas", "sleep"} :
                          pc' = [pc EXCEPT ![t] = place]
    BY <1>3 DEF Cas, SetLsb, FutexWait, Interrupt, Goto
  <2> QED
    BY <1>0, <2>1 DEF Counts
<1>4. ASSUME NEW t \in Threads, Own(t) \/ UnsetInner(t) \/ Release(t)
      PROVE  Counts'
  <2>1. /\ pc' = [pc EXCEPT ![t] = IF Release(t) /\ Contended(poll) THEN "wake" ELSE "idle"]
           \/ pc' = [pc EXCEPT ![t] = "idle"]
        /\ \/ held' = [held EXCEPT ![t] = 1]
           \/ held' = [held EXCEPT ![t] = 0]
           \/ held' = [held EXCEPT ![t] = @ - 1] /\ Nestable
    BY <1>4 DEF Own, UnsetInner, Release, Goto
  <2> QED
    BY <1>0, <2>1 DEF Counts
<1>5. ASSUME NEW t \in Threads, UnsetLast(t)
      PROVE  Counts'
  <2>1. /\ pc[t] = "unset" /\ pc' = [pc EXCEPT ![t] = "release"] /\ held' = held
        /\ Nestable => depth_locked = 1
    BY <1>5 DEF UnsetLast, At, Goto
  <2>2. held[t] > 0 /\ (Nestable => depth_locked = held[t])
    BY <2>1 DEF Owned, Locals, Depth
  <2>3. held[t] = 1
    BY <1>0, <2>1, <2>2 DEF Counts
  <2> QED
    BY <1>0, <2>1, <2>3 DEF Counts
<1>6. ASSUME NEW t \in Threads, FutexWake(t)
      PROVE  Counts'
  <2>1. held' = held /\ \/ pc' = [pc EXCEPT ![t] = "idle"]
                        \/ \E u \in Threads : pc' = [pc EXCEPT ![t] = "idle", ![u] = "cas"]
    BY <1>6 DEF FutexWake, Goto, Sleepers
  <2> QED
    BY <1>0, <2>1 DEF Counts
<1>7. ASSUME NEW t \in Threads, DestroyLock(t)
      PROVE  Counts'
  BY <1>0, <1>7 DEF DestroyLock, Goto, Counts
<1>8. CASE UNCHANGED vars
  BY <1>8 DEF vars, Counts
<1> QED
  BY <1>2, <1>3, <1>4, <1>5, <1>6, <1>7, <1>8 DEF Next, Step

\* The word names a thread or nobody after a step too.
LEMMA OwnerIsThread == (Owned => Owner \in Threads \cup {0})'
<1>1. Owned => Owner \in Threads \cup {0}
  BY WordNames DEF Owned
<1> QED
  BY <1>1, PTL

\* The holder is the thread the word names.
LEMMA HolderIsOwner == Owned => Holder = Owner
<1> SUFFICES ASSUME Owned PROVE Holder = Owner
  OBVIOUS
<1>1. Owner \in Threads \cup {0} /\ 0 \notin Threads
  BY WordNames, ClientAssumption DEF Owned
<1>2. \A t \in Threads : Inside(t) <=> Owner = t
  BY DEF Owned, OwnershipExact
<1> QED
  BY <1>1, <1>2 DEF Holder

LEMMA HolderIsOwnerNext == (Owned => Holder = Owner)'
BY HolderIsOwner, PTL
\* What MutexLock sees of a lock, before and after a step.
LEMMA LevelIs ==
  ASSUME Owned
  PROVE  Level = IF Owner = 0 THEN 0 ELSE IF pc[Owner] = "own" THEN 1 ELSE held[Owner]
BY HolderIsOwner DEF Level

LEMMA LevelIsNext ==
  (Owned => Level = IF Owner = 0 THEN 0 ELSE IF pc[Owner] = "own" THEN 1 ELSE held[Owner])'
<1>1. Owned => Level = IF Owner = 0 THEN 0 ELSE IF pc[Owner] = "own" THEN 1 ELSE held[Owner]
  BY LevelIs
<1> QED
  BY <1>1, PTL

\* A step that neither lets a thread in or out nor makes one wait is not seen.
LEMMA Unseen ==
  ASSUME Owned, Owned', poll' = poll, kind' = kind,
         \A t \in Threads : pc'[t] \in Acquiring <=> pc[t] \in Acquiring,
         Owner \in Threads => (IF pc'[Owner] = "own" THEN 1 ELSE held'[Owner])
                                = IF pc[Owner] = "own" THEN 1 ELSE held[Owner]
  PROVE  UNCHANGED M!vars
<1>1. Owner' = Owner /\ Owner \in Threads \cup {0} /\ 0 \notin Threads
  BY WordNames, ClientAssumption DEF Owned, Owner, UseFutex
<1>2. Holder' = Holder
  BY <1>1, HolderIsOwner, HolderIsOwnerNext
<1>3. Level' = Level
  BY <1>1, LevelIs, LevelIsNext
<1>4. {t \in Threads : pc[t] \in Acquiring}' = {t \in Threads : pc[t] \in Acquiring}
  BY DEF Acquiring
<1> QED
  BY <1>2, <1>3, <1>4 DEF M!vars

\* A thread gets the free lock, by a set or by a test.
LEMMA EnterSeen ==
  ASSUME Owned, Owned', NEW t \in Threads, poll = Free, Owner' = t,
         pc[t] \in {"idle", "cas"}, pc' = [pc EXCEPT ![t] = "own"], held' = held
  PROVE  M!Next
<1>1. Owner = 0 /\ t # 0
  BY WordNames, ClientAssumption DEF Owned
<1>2. Holder = 0 /\ Holder' = t
  BY <1>1, HolderIsOwner, HolderIsOwnerNext
<1>3. pc'[t] = "own" /\ pc \in [Threads -> Acquiring \cup {"idle", "own", "unset", "release", "wake", "fatal"}]
  BY DEF Owned, TypeOK
<1>4. Level' = 1
  BY <1>1, <1>3, LevelIsNext
<1>5. CASE pc[t] = "idle"
  <2>1. {u \in Threads : pc[u] \in Acquiring}' = {u \in Threads : pc[u] \in Acquiring}
    BY <1>3, <1>5 DEF Acquiring
  <2>2. t \notin {u \in Threads : pc[u] \in Acquiring}
    BY <1>5 DEF Acquiring
  <2>3. M!Grab(t)
    BY <1>2, <1>4, <2>1, <2>2 DEF M!Grab
  <2> QED
    BY <2>3 DEF M!Next
<1>6. CASE pc[t] = "cas"
  <2>1. {u \in Threads : pc[u] \in Acquiring}' = {u \in Threads : pc[u] \in Acquiring} \ {t}
    BY <1>3, <1>6 DEF Acquiring
  <2>2. t \in {u \in Threads : pc[u] \in Acquiring}
    BY <1>6 DEF Acquiring
  <2>3. M!Grant(t)
    BY <1>2, <1>4, <2>1, <2>2 DEF M!Grant
  <2> QED
    BY <2>3 DEF M!Next
<1> QED
  BY <1>5, <1>6

\* The owner of a nestable lock sets it again, or takes one set back.
LEMMA ReenterSeen ==
  ASSUME Owned, Owned', NEW t \in Threads, pc[t] = "idle", held[t] < MaxLevel, Reenter(t)
  PROVE  M!Next
<1>1. /\ Nestable /\ Owner = t /\ UNCHANGED <<kind, poll, pc>>
      /\ held' = [held EXCEPT ![t] = @ + 1] /\ held \in [Threads -> Nat]
  BY DEF Reenter, Owned, TypeOK
<1>2. Owner' = t /\ t # 0
  BY <1>1, ClientAssumption DEF Owner, UseFutex
<1>3. Holder = t /\ Holder' = t
  BY <1>1, <1>2, HolderIsOwner, HolderIsOwnerNext
<1>4. Level = held[t] /\ Level' = held[t] + 1
  BY <1>1, <1>2, LevelIs, LevelIsNext
<1>5. {u \in Threads : pc[u] \in Acquiring}' = {u \in Threads : pc[u] \in Acquiring}
  BY <1>1
<1>6. M!Reenter(t)
  BY <1>1, <1>3, <1>4, <1>5 DEF M!Reenter
<1> QED
  BY <1>6 DEF M!Next

LEMMA UnsetInnerSeen ==
  ASSUME Owned, Owned', NEW t \in Threads, UnsetInner(t)
  PROVE  M!Next
<1>1. /\ pc[t] = "unset" /\ Nestable /\ depth_locked # 1 /\ UNCHANGED <<kind, poll>>
      /\ pc' = [pc EXCEPT ![t] = "idle"]
      /\ held' = [held EXCEPT ![t] = @ - 1]
  BY DEF UnsetInner, At, Goto
<1>2. held[t] > 1 /\ held \in [Threads -> Nat] /\ pc'[t] = "idle" /\ held'[t] = held[t] - 1
      /\ \A u \in Threads : pc'[u] \in Acquiring <=> pc[u] \in Acquiring
  BY <1>1 DEF Owned, TypeOK, Locals, Depth, Acquiring
<1>3. Owner = t /\ Owner' = t /\ t # 0
  BY <1>1, <1>2, ClientAssumption DEF Owned, OwnershipExact, Inside, Owner, UseFutex
<1>4. Holder = t /\ Holder' = t
  BY <1>3, HolderIsOwner, HolderIsOwnerNext
<1>5. Level = held[t] /\ Level' = held[t] - 1
  BY <1>1, <1>2, <1>3, LevelIs, LevelIsNext
<1>6. {u \in Threads : pc[u] \in Acquiring}' = {u \in Threads : pc[u] \in Acquiring}
  BY <1>2
<1>7. M!Leave(t)
  BY <1>1, <1>2, <1>4, <1>5, <1>6 DEF M!Leave
<1> QED
  BY <1>7 DEF M!Next

LEMMA ReleaseSeen ==
  ASSUME Owned, Owned', Counts, NEW t \in Threads, Release(t)
  PROVE  M!Next
<1>1. /\ pc[t] = "release" /\ poll' = Free
      /\ pc' = [pc EXCEPT ![t] = IF Contended(poll) THEN "wake" ELSE "idle"]
  BY DEF Release, At, Goto
<1>2. held[t] = 1 /\ \A u \in Threads : pc'[u] \in Acquiring <=> pc[u] \in Acquiring
  BY <1>1 DEF Owned, TypeOK, Counts, Acquiring
<1>3. Owner = t /\ t # 0
  BY <1>2, ClientAssumption DEF Owned, OwnershipExact, Inside
<1>4. Owner' = 0
  BY <1>1, ClientAssumption DEF Owner, Free
<1>5. Holder = t /\ Holder' = 0
  BY <1>3, <1>4, HolderIsOwner, HolderIsOwnerNext
<1>6. Level = 1 /\ Level' = 0
  BY <1>1, <1>2, <1>3, <1>4, LevelIs, LevelIsNext
<1>7. {u \in Threads : pc[u] \in Acquiring}' = {u \in Threads : pc[u] \in Acquiring}
  BY <1>2
<1>8. M!Release(t)
  BY <1>5, <1>6, <1>7 DEF M!Release
<1> QED
  BY <1>8 DEF M!Next
LEMMA SetSeen ==
  ASSUME Owned, Owned', NEW t \in Threads, SetLock(t)
  PROVE  M!Next
<1>1. pc[t] = "idle" /\ (Nestable => held[t] < MaxLevel)
  BY DEF SetLock, At
<1>2. CASE Reenter(t)
  BY <1>1, <1>2, ReenterSeen DEF Reenter
<1>3. CASE ~Reenter(t)
  <2>1. ~(Nestable /\ Owner = t) /\ UNCHANGED <<kind, poll, held>>
    BY <1>3 DEF SetLock
  <2>2. held[t] = 0 /\ Owner # t /\ pc \in [Threads -> Acquiring \cup
                                {"idle", "own", "unset", "release", "wake", "fatal"}]
    BY <1>1, <1>3, <2>1 DEF SetLock, Owned, TypeOK, OwnershipExact, Inside
  <2>3. pc' = [pc EXCEPT ![t] = "cas"]
    BY <1>3, <2>2 DEF SetLock, Goto
  <2>4. Owner' = Owner /\ Owner \in Threads \cup {0} /\ 0 \notin Threads
    BY <2>1, WordNames, ClientAssumption DEF Owned, Owner, UseFutex
  <2>5. Holder' = Holder /\ Holder # t
    BY <2>2, <2>4, HolderIsOwner, HolderIsOwnerNext
  <2>6. Level' = Level
    BY <2>1, <2>2, <2>3, <2>4, LevelIs, LevelIsNext
  <2>7. /\ {u \in Threads : pc[u] \in Acquiring}' = {u \in Threads : pc[u] \in Acquiring} \cup {t}
        /\ t \notin {u \in Threads : pc[u] \in Acquiring}
    BY <1>1, <2>2, <2>3 DEF Acquiring
  <2>8. M!Join(t)
    BY <2>5, <2>6, <2>7 DEF M!Join
  <2> QED
    BY <2>8 DEF M!Next
<1> QED
  BY <1>2, <1>3

LEMMA TestSeen ==
  ASSUME Owned, Owned', NEW t \in Threads, TestLock(t)
  PROVE  M!Next
<1>1. pc[t] = "idle" /\ (Nestable => held[t] < MaxLevel)
  BY DEF TestLock, At
<1>2. CASE Reenter(t)
  BY <1>1, <1>2, ReenterSeen DEF Reenter
<1>3. CASE ~Reenter(t)
  <2>1. poll = Free /\ pc' = [pc EXCEPT ![t] = "own"] /\ held' = held
    BY <1>3 DEF TestLock, Goto
  <2>2. pc'[t] = "own"
    BY <2>1 DEF Owned, TypeOK
  <2>3. Owner' = t
    BY <2>2 DEF Owned, OwnershipExact, Inside
  <2> QED
    BY <1>1, <2>1, <2>3, EnterSeen
<1> QED
  BY <1>2, <1>3

\* A compare-and-store that finds the lock free gets it, any other is not seen.
LEMMA CasSeen ==
  ASSUME Owned, Owned', NEW t \in Threads, Cas(t)
  PROVE  [M!Next]_(M!vars)
<1>1. pc[t] = "cas" /\ held' = held /\ kind' = kind
  BY DEF Cas, At
<1>2. CASE poll = Free
  <2>1. pc' = [pc EXCEPT ![t] = "own"]
    BY <1>2 DEF Cas, Goto
  <2>2. pc'[t] = "own"
    BY <2>1 DEF Owned, TypeOK
  <2>3. Owner' = t
    BY <2>2 DEF Owned, OwnershipExact, Inside
  <2> QED
    BY <1>1, <1>2, <2>1, <2>3, EnterSeen
<1>3. CASE poll # Free
  <2>1. poll' = poll /\ pc' = [pc EXCEPT ![t] = IF Contended(poll) THEN "futex_wait" ELSE "set_lsb"]
    BY <1>3 DEF Cas, Goto
  <2>2. /\ \A u \in Threads : pc'[u] \in Acquiring <=> pc[u] \in Acquiring
        /\ Owner \in Threads => (pc'[Owner] = "own" <=> pc[Owner] = "own")
    BY <1>1, <2>1 DEF Owned, TypeOK, Acquiring
  <2> QED
    BY <1>1, <2>1, <2>2, Unseen
<1> QED
  BY <1>2, <1>3

\* Setting the bit, sleeping and waking, and the stores after the word, are not seen.
LEMMA OthersUnseen ==
  ASSUME Owned, Owned', NEW t \in Threads,
         \/ SetLsb(t) \/ FutexWait(t) \/ Interrupt(t) \/ FutexWake(t) \/ Own(t)
         \/ UnsetLock(t) \/ UnsetLast(t) \/ DestroyLock(t)
  PROVE  UNCHANGED M!vars
<1>0. /\ pc \in [Threads -> Acquiring \cup {"idle", "own", "unset", "release", "wake", "fatal"}]
      /\ held \in [Threads -> Nat] /\ \A u \in Threads : pc'[u] # "fatal"
      /\ Owner \in Threads \cup {0} /\ 0 \notin Threads
  BY WordNames, ClientAssumption DEF Owned, TypeOK, OwnershipExact
<1>1. CASE SetLsb(t)
  <2>1. /\ pc[t] = "set_lsb" /\ held' = held /\ kind' = kind
        /\ \E place \in {"futex_wait", "cas"} : pc' = [pc EXCEPT ![t] = place]
    BY <1>1 DEF SetLsb, At, Goto
  <2>2. /\ \A u \in Threads : pc'[u] \in Acquiring <=> pc[u] \in Acquiring
        /\ \A u \in Threads : (pc'[u] = "own" <=> pc[u] = "own") /\ held'[u] = held[u]
    BY <1>0, <2>1 DEF Acquiring
  <2>3. \A u \in Threads : Inside(u)' <=> Inside(u)
    BY <2>2 DEF Inside
  <2>4. Owner' \in Threads \cup {0}
    BY OwnerIsThread
  <2>5. Owner' = Owner
    BY <1>0, <2>3, <2>4 DEF Owned, OwnershipExact
  <2>6. Holder' = Holder
    BY <2>5, HolderIsOwner, HolderIsOwnerNext
  <2>7. Level' = Level
    BY <1>0, <2>2, <2>5, LevelIs, LevelIsNext
  <2>8. {u \in Threads : pc[u] \in Acquiring}' = {u \in Threads : pc[u] \in Acquiring}
    BY <2>2
  <2> QED
    BY <2>6, <2>7, <2>8 DEF M!vars
<1>2. CASE FutexWait(t) \/ Interrupt(t)
  <2>1. /\ pc[t] \in Acquiring /\ UNCHANGED <<kind, poll, held>>
        /\ \E place \in {"sleep", "cas"} : pc' = [pc EXCEPT ![t] = place]
    BY <1>2 DEF FutexWait, Interrupt, At, Goto, Acquiring
  <2>2. \A u \in Threads : /\ pc'[u] \in Acquiring <=> pc[u] \in Acquiring
                           /\ pc'[u] = "own" <=> pc[u] = "own"
    BY <1>0, <2>1 DEF Acquiring
  <2> QED
    BY <2>1, <2>2, Unseen
<1>3. CASE FutexWake(t)
  <2>1. /\ pc[t] = "wake" /\ UNCHANGED <<kind, poll, held>>
        /\ \/ pc' = [pc EXCEPT ![t] = "idle"]
           \/ \E u \in Sleepers : pc' = [pc EXCEPT ![t] = "idle", ![u] = "cas"]
    BY <1>3 DEF FutexWake, At, Goto
  <2>2. \A u \in Threads : /\ pc'[u] \in Acquiring <=> pc[u] \in Acquiring
                           /\ pc'[u] = "own" <=> pc[u] = "own"
    BY <1>0, <2>1 DEF Acquiring, Sleepers
  <2> QED
    BY <2>1, <2>2, Unseen
<1>4. CASE Own(t)
  <2>1. /\ pc[t] = "own" /\ UNCHANGED <<kind, poll>>
        /\ pc' = [pc EXCEPT ![t] = "idle"] /\ held' = [held EXCEPT ![t] = 1]
    BY <1>4 DEF Own, At, Goto
  <2>2. /\ \A u \in Threads : pc'[u] \in Acquiring <=> pc[u] \in Acquiring
        /\ \A u \in Threads : u # t => pc'[u] = pc[u] /\ held'[u] = held[u]
        /\ pc'[t] = "idle" /\ held'[t] = 1
    BY <1>0, <2>1 DEF Acquiring
  <2> QED
    BY <2>1, <2>2, Unseen
<1>5. CASE UnsetLock(t) \/ UnsetLast(t)
  <2>1. /\ pc[t] \in {"idle", "unset"} /\ UNCHANGED <<kind, poll, held>>
        /\ \E place \in {"unset", "release"} : pc' = [pc EXCEPT ![t] = place]
    BY <1>0, <1>5 DEF UnsetLock, UnsetLast, At, Goto
  <2>2. \A u \in Threads : /\ pc'[u] \in Acquiring <=> pc[u] \in Acquiring
                           /\ pc'[u] = "own" <=> pc[u] = "own"
    BY <1>0, <2>1 DEF Acquiring
  <2> QED
    BY <2>1, <2>2, Unseen
<1>6. CASE DestroyLock(t)
  <2>1. Owner = 0
    BY <1>0, <1>6 DEF DestroyLock, Owned, OwnershipExact, Inside
  <2>2. UNCHANGED <<kind, pc, held>> /\ poll' = 0 /\ poll = 0
    BY <1>6, <2>1, WordNames DEF DestroyLock, Owned, Free
  <2> QED
    BY <2>2, Unseen
<1> QED
  BY <1>1, <1>2, <1>3, <1>4, <1>5, <1>6

\* The first state and each step as MutexLock sees them.
LEMMA InitSeen == Init => Owned /\ Counts /\ M!Init
<1> SUFFICES ASSUME Init PROVE Owned /\ Counts /\ M!Init
  OBVIOUS
<1>1. \A t \in Threads : ~Inside(t)
  BY DEF Init, Inside
<1>2. Holder = 0
  BY <1>1 DEF Holder
<1>3. Level = 0
  BY <1>2 DEF Level
<1> QED
  BY <1>2, <1>3, InitEstablishes DEF IInv, Init, M!Init, Counts, Acquiring

LEMMA StepSeen == Owned /\ Owned' /\ Counts /\ [Next]_vars => [M!Next]_(M!vars)
<1> SUFFICES ASSUME Owned, Owned', Counts, [Next]_vars PROVE [M!Next]_(M!vars)
  OBVIOUS
<1>1. ASSUME NEW t \in Threads,
             \/ SetLock(t) \/ TestLock(t) \/ Cas(t) \/ UnsetInner(t) \/ Release(t)
      PROVE  [M!Next]_(M!vars)
  BY <1>1, SetSeen, TestSeen, CasSeen, UnsetInnerSeen, ReleaseSeen
<1>2. CASE UNCHANGED vars
  BY <1>2, Unseen DEF vars
<1> QED
  BY <1>1, <1>2, OthersUnseen DEF Next, Step

\* Each step of the lock is one of MutexLock or is not seen, whichever the method of
\* waiting: one holder at a time, whose nest level only he moves, and who gets the lock
\* has asked for it.
THEOREM TasImplements == Spec => M!Safety
<1>1. Owned /\ Counts /\ [Next]_vars => Owned' /\ Counts'
  BY NextKeepsOwned, CountsKept
<1> QED
  BY <1>1, InitSeen, StepSeen, PTL DEF Spec, M!Safety
=============================================================================
