--------------------------- MODULE FlagWaitProofs ---------------------------
(***************************************************************************)
(* No release of a flag is lost on a thread that goes to sleep, and the    *)
(* sleep bit, th_sleep_loc and the count of active threads of the pool are *)
(* right: for any flags, any number of threads that resume through         *)
(* th_sleep_loc, and any number of rounds.                                 *)
(***************************************************************************)
EXTENDS FlagWait, TLAPS

\* The releases a flag's word shows: a go flag is reset after each wait.
Bumps(f) == IF f \in GoFlags THEN released[f] - passed[f] ELSE released[f]

\* A release comes after the wait before it, and a word is made of bumps and a bit.
Words == \A f \in Flags : /\ passed[f] <= released[f] /\ released[f] <= passed[f] + 1
                          /\ word[f] \in {BUMP * Bumps(f), BUMP * Bumps(f) + 1}

\* The waiter waits on a flag, sleeps only for a finite blocktime, and returns for a
\* release.  It has set the bit when it is about to say where.
Waits == /\ pc \in {"idle", "gone"} <=> flag = NoFlag
         /\ pc \in Inside \cup {"suspend", "asleep", "woken"} => blocktime = "finite"
         /\ pc = "return" /\ ~g_done => released[flag] = passed[flag] + 1
         /\ pc \in {"false_alarm", "set_loc"} => Asleep(word[flag])
         /\ pc \in Inside <=> mx = Waiter

\* Who resumes holds the mutex while it looks; a releaser resumes its own flag.
Resumes == \A r \in Resumers :
  /\ rpc[r] \in {"unset_sleeping", "clear_loc", "unlock"} <=> mx = r
  /\ r \in Flags => /\ rpc[r] # "read_type" /\ cast[r]
                    /\ rpc[r] \in {"lock", "unset_sleeping", "clear_loc", "unlock"} => target[r] = r
  /\ rpc[r] = "bump" => r \in Flags /\ g_done /\ released[r] = passed[r]

\* The bit is on the word of the flag the waiter sleeps on, and no other.
Bits == \A f \in Flags : Asleep(word[f]) =>
          flag = f /\ pc \in {"false_alarm", "set_loc", "test", "asleep", "woken"}

\* th_sleep_loc says which flag has the bit, but for the two places where it is
\* about to be set and cleared.
Located == \A f \in Flags : th_sleep_loc = f <=> Asleep(word[f])
Locs == /\ mx = Nobody => Located
        /\ \A r \in Resumers : mx = r => IF rpc[r] = "clear_loc"
                                           THEN \A f \in Flags : ~Asleep(word[f])
                                           ELSE Located
        /\ mx = Waiter => IF pc \in {"set_sleeping", "false_alarm", "set_loc"}
                            THEN th_sleep_loc = NoFlag
                            ELSE Located

\* A thread counts itself at most once.
Counted == /\ thread_pool_active_nth = IF th_active_in_pool THEN 1 ELSE 0
           /\ th_active_in_pool => th_active
           /\ pc \notin {"test", "asleep", "woken"} => th_active
           /\ pc = "asleep" => ~th_active

\* A thread that sleeps without the bit is about to be signalled; one that sleeps, or
\* is about to, with the bit, though the flag was released, is about to be found.
Woken ==
  /\ pc = "asleep" /\ ~Asleep(word[flag]) => \E r \in Resumers : mx = r /\ rpc[r] = "clear_loc"
  /\ /\ pc \in {"set_loc", "test", "asleep", "woken"}
     /\ Asleep(word[flag]) /\ released[flag] > passed[flag]
     => rpc[flag] \in {"peek", "lock"} \/ (rpc[flag] = "unset_sleeping" /\ mx = flag)

IInv == TypeOK /\ Words /\ Waits /\ Resumes /\ Bits /\ Locs /\ Counted /\ Woken

\* What the parts of a word are.
LEMMA WordParts ==
  ASSUME NEW n \in Nat
  PROVE  /\ ~Asleep(BUMP * n) /\ Awake(BUMP * n) = BUMP * n /\ (BUMP * n) % BUMP = 0
         /\ Asleep(BUMP * n + 1) /\ Awake(BUMP * n + 1) = BUMP * n /\ (BUMP * n + 1) % BUMP = 1
         /\ BUMP * n \in Nat /\ BUMP * n + 1 \in Nat
BY DEF Asleep, Awake, BUMP

\* What is left of a word, and what is added to it.
LEMMA PutAwake ==
  ASSUME TypeOK, Words, NEW f \in Flags, word' = [word EXCEPT ![f] = Awake(@)]
  PROVE  /\ word' \in [Flags -> Nat]
         /\ \A g \in Flags : /\ word'[g] % BUMP \in {0, 1}
                             /\ Asleep(word'[g]) <=> g # f /\ Asleep(word[g])
                             /\ word'[g] \in {BUMP * Bumps(g), BUMP * Bumps(g) + 1}
<1>1. \A g \in Flags : Bumps(g) \in Nat /\ word[g] \in {BUMP * Bumps(g), BUMP * Bumps(g) + 1}
  BY DEF TypeOK, Words, Bumps
<1>2. Awake(word[f]) = BUMP * Bumps(f)
  BY <1>1, WordParts
<1>3. \A g \in Flags : word'[g] = IF g = f THEN BUMP * Bumps(f) ELSE word[g]
  BY <1>2 DEF TypeOK
<1>4. word' \in [Flags -> Nat]
  BY <1>1, <1>2, WordParts DEF TypeOK
<1> QED
  BY <1>1, <1>3, <1>4, WordParts DEF TypeOK

LEMMA PutAsleep ==
  ASSUME TypeOK, Words, NEW f \in Flags, word' = [word EXCEPT ![f] = Awake(@) + 1]
  PROVE  /\ word' \in [Flags -> Nat]
         /\ \A g \in Flags : /\ word'[g] % BUMP \in {0, 1}
                             /\ Asleep(word'[g]) <=> g = f \/ Asleep(word[g])
                             /\ word'[g] \in {BUMP * Bumps(g), BUMP * Bumps(g) + 1}
<1>1. \A g \in Flags : Bumps(g) \in Nat /\ word[g] \in {BUMP * Bumps(g), BUMP * Bumps(g) + 1}
  BY DEF TypeOK, Words, Bumps
<1>2. Awake(word[f]) = BUMP * Bumps(f)
  BY <1>1, WordParts
<1>3. \A g \in Flags : word'[g] = IF g = f THEN BUMP * Bumps(f) + 1 ELSE word[g]
  BY <1>2 DEF TypeOK
<1>4. word' \in [Flags -> Nat]
  BY <1>1, <1>2, WordParts DEF TypeOK
<1> QED
  BY <1>1, <1>3, <1>4, WordParts DEF TypeOK

LEMMA PutBump ==
  ASSUME TypeOK, Words, NEW f \in Flags, word' = [word EXCEPT ![f] = @ + BUMP]
  PROVE  /\ word' \in [Flags -> Nat]
         /\ \A g \in Flags : /\ word'[g] % BUMP \in {0, 1}
                             /\ Asleep(word'[g]) <=> Asleep(word[g])
         /\ word'[f] \in {BUMP * (Bumps(f) + 1), BUMP * (Bumps(f) + 1) + 1}
         /\ \A g \in Flags : g # f => word'[g] = word[g]
<1>1. Bumps(f) \in Nat /\ word[f] \in {BUMP * Bumps(f), BUMP * Bumps(f) + 1}
  BY DEF TypeOK, Words, Bumps
<1>2. word'[f] = word[f] + BUMP /\ \A g \in Flags : g # f => word'[g] = word[g]
  BY DEF TypeOK
<1>3. \/ word'[f] = BUMP * (Bumps(f) + 1) /\ ~Asleep(word[f])
      \/ word'[f] = BUMP * (Bumps(f) + 1) + 1 /\ Asleep(word[f])
  <2>1. BUMP * (Bumps(f) + 1) = BUMP * Bumps(f) + BUMP
    BY <1>1 DEF BUMP
  <2>2. BUMP * Bumps(f) \in Nat
    BY <1>1 DEF BUMP
  <2>3. \/ word[f] = BUMP * Bumps(f) /\ ~Asleep(word[f])
        \/ word[f] = BUMP * Bumps(f) + 1 /\ Asleep(word[f])
    BY <1>1, WordParts
  <2>4. BUMP \in Nat
    BY DEF BUMP
  <2> QED
    BY <1>2, <2>1, <2>2, <2>3, <2>4
<1>4. word' \in [Flags -> Nat]
  BY DEF TypeOK, BUMP
<1>5. Bumps(f) + 1 \in Nat
  BY <1>1
<1> QED
  BY <1>2, <1>3, <1>4, <1>5, WordParts DEF TypeOK

LEMMA Matches ==
  ASSUME TypeOK, Words, NEW f \in Flags
  PROVE  word[f] = Checker(f) <=> ~Asleep(word[f]) /\ released[f] = passed[f] + 1
<1>1. Bumps(f) \in Nat /\ word[f] \in {BUMP * Bumps(f), BUMP * Bumps(f) + 1}
  BY DEF TypeOK, Words, Bumps
<1>2. \/ word[f] = BUMP * Bumps(f) /\ ~Asleep(word[f])
      \/ word[f] = BUMP * Bumps(f) + 1 /\ Asleep(word[f])
  BY <1>1, WordParts
<1>3. CASE f \in GoFlags
  <2>1. Bumps(f) = released[f] - passed[f] /\ released[f] \in Nat /\ passed[f] \in Nat
    BY <1>3 DEF Bumps, TypeOK
  <2>2. \A n \in Nat : (BUMP * n = BUMP <=> n = 1) /\ BUMP * n + 1 # BUMP
    BY DEF BUMP
  <2>3. Checker(f) = BUMP
    BY <1>3 DEF Checker
  <2>4. Bumps(f) = 1 <=> released[f] = passed[f] + 1
    BY <2>1
  <2> QED
    BY <1>1, <1>2, <2>2, <2>3, <2>4
<1>4. CASE f \notin GoFlags
  BY <1>1, <1>2, <1>4 DEF Checker, BUMP, Bumps, TypeOK
<1> QED
  BY <1>3, <1>4

LEMMA InitEstablishes == Init => IInv
<1> SUFFICES ASSUME Init PROVE IInv
  OBVIOUS
<1>1. \A f \in Flags : word[f] = BUMP * 0 /\ ~Asleep(word[f]) /\ word[f] % BUMP = 0
  BY WordParts DEF Init, BUMP
<1>2. TypeOK
  <2>1. {g_done, th_in_pool, th_active, th_active_in_pool} \subseteq BOOLEAN
    BY Zenon DEF Init
  <2>2. thread_pool_active_nth \in Int
    BY DEF Init
  <2>3. /\ word \in [Flags -> Nat] /\ released \in [Flags -> Nat] /\ passed \in [Flags -> Nat]
        /\ \A f \in Flags : word[f] % BUMP \in {0, 1}
    BY <1>1 DEF Init
  <2>4. /\ target \in [Resumers -> Flags \cup {NoFlag}] /\ cast \in [Resumers -> BOOLEAN]
        /\ rpc \in [Resumers -> {"idle", "bump", "peek", "read_type", "lock",
                                 "unset_sleeping", "clear_loc", "unlock"}]
    BY DEF Init
  <2> QED
    BY <2>1, <2>2, <2>3, <2>4 DEF Init, TypeOK
<1>3. Words
  BY <1>1 DEF Init, Words, Bumps, BUMP
<1>4. Waits /\ Counted /\ Woken
  BY FlagAssumption DEF Init, Waits, Counted, Woken, Inside
<1>5. Resumes /\ Bits
  BY <1>1, FlagAssumption DEF Init, Resumes, Bits, Flags, Resumers
<1>6. Locs
  BY <1>1, FlagAssumption DEF Init, Locs, Located, Resumers
<1> QED
  BY <1>2, <1>3, <1>4, <1>5, <1>6 DEF IInv

LEMMA WaitKeeps == ASSUME IInv, NEW f \in Flags, Wait(f) PROVE IInv'
<1> USE FlagAssumption DEF Wait, Goto, RGoto, pool, waiter, resumer, Inside, Flags, Resumers
<1>0. TypeOK /\ Words /\ Waits /\ Resumes /\ Bits /\ Locs /\ Counted /\ Woken
  BY DEF IInv
<1>1. TypeOK'
  BY <1>0 DEF TypeOK
<1>2. Waits'
  BY <1>0 DEF TypeOK, Waits
<1>3. (Words /\ Resumes)'
  BY <1>0 DEF Words, Bumps, Resumes
<1>4. Bits'
  BY <1>0 DEF TypeOK, Bits
<1>5. Locs'
  BY <1>0 DEF TypeOK, Locs, Located
<1>6. Counted'
  BY <1>0 DEF TypeOK, Counted
<1>7. Woken'
  BY <1>0 DEF TypeOK, Woken
<1> QED
  BY <1>1, <1>2, <1>3, <1>4, <1>5, <1>6, <1>7 DEF IInv

LEMMA CheckKeeps == ASSUME IInv, Check PROVE IInv'
<1> USE FlagAssumption DEF Check, Goto, RGoto, pool, waiter, resumer, Inside, Flags, Resumers
<1>0. TypeOK /\ Words /\ Waits /\ Resumes /\ Bits /\ Locs /\ Counted /\ Woken
  BY DEF IInv
<1>1. TypeOK'
  BY <1>0 DEF TypeOK
<1>2. Waits'
  BY <1>0, Matches DEF TypeOK, Waits
<1>3. (Words /\ Resumes)'
  BY <1>0 DEF Words, Bumps, Resumes
<1>4. Bits'
  BY <1>0 DEF TypeOK, Bits
<1>5. Locs'
  BY <1>0 DEF TypeOK, Locs, Located
<1>6. Counted'
  BY <1>0 DEF TypeOK, Counted
<1>7. Woken'
  BY <1>0 DEF TypeOK, Woken
<1> QED
  BY <1>1, <1>2, <1>3, <1>4, <1>5, <1>6, <1>7 DEF IInv

LEMMA SpinKeeps == ASSUME IInv, Spin PROVE IInv'
<1> USE FlagAssumption DEF Spin, Goto, RGoto, pool, waiter, resumer, Inside, Flags, Resumers
<1>0. TypeOK /\ Words /\ Waits /\ Resumes /\ Bits /\ Locs /\ Counted /\ Woken
  BY DEF IInv
<1>1. TypeOK'
  BY <1>0 DEF TypeOK
<1>2. Waits'
  BY <1>0 DEF TypeOK, Waits
<1>3. (Words /\ Resumes)'
  BY <1>0 DEF Words, Bumps, Resumes
<1>4. Bits'
  BY <1>0 DEF TypeOK, Bits
<1>5. Locs'
  BY <1>0 DEF TypeOK, Locs, Located
<1>6. Counted'
  <2>1. CASE g_done
    BY <1>0, <2>1 DEF Counted
  <2>2. CASE ~g_done
    <3>1. /\ th_active_in_pool' = th_in_pool /\ th_active' = th_active /\ th_active
          /\ pc' \in {"check", "suspend"}
      BY <1>0, <2>2 DEF Counted
    <3>2. thread_pool_active_nth' = IF th_in_pool THEN 1 ELSE 0
      BY <1>0, <2>2 DEF Counted, TypeOK
    <3> QED
      BY <3>1, <3>2 DEF Counted
  <2> QED
    BY <2>1, <2>2
<1>7. Woken'
  BY <1>0 DEF TypeOK, Woken
<1> QED
  BY <1>1, <1>2, <1>3, <1>4, <1>5, <1>6, <1>7 DEF IInv

LEMMA ReturnKeeps == ASSUME IInv, Return PROVE IInv'
<1> USE FlagAssumption DEF Return, Goto, RGoto, pool, waiter, resumer, Inside, Flags, Resumers
<1>0. TypeOK /\ Words /\ Waits /\ Resumes /\ Bits /\ Locs /\ Counted /\ Woken
  BY DEF IInv
<1>a. flag \in Flags /\ \A f \in Flags : ~Asleep(word[f])
  BY <1>0 DEF TypeOK, Waits, Bits
<1>b. 0 = BUMP * 0 /\ ~Asleep(0) /\ 0 % BUMP = 0
  BY DEF BUMP, Asleep
<1>c. /\ word' \in [Flags -> Nat]
      /\ \A f \in Flags : ~Asleep(word'[f]) /\ word'[f] % BUMP \in {0, 1}
  BY <1>0, <1>a, <1>b DEF TypeOK
<1>1. TypeOK'
  BY <1>0, <1>a, <1>c DEF TypeOK
<1>2. Words'
  <2>1. CASE g_done
    BY <1>0, <2>1 DEF Words, Bumps
  <2>2. CASE ~g_done
    <3>1. released[flag] = passed[flag] + 1
      BY <1>0, <2>2 DEF Waits
    <3>2. \A f \in Flags : passed'[f] = IF f = flag THEN passed[f] + 1 ELSE passed[f]
      BY <1>0, <1>a, <2>2 DEF TypeOK
    <3>3. \A f \in Flags : word'[f] = IF f = flag /\ f \in GoFlags THEN 0 ELSE word[f]
      BY <1>0, <1>a, <2>2 DEF TypeOK
    <3>4. released' = released
      OBVIOUS
    <3> QED
      BY <1>0, <1>a, <1>b, <3>1, <3>2, <3>3, <3>4 DEF TypeOK, Words, Bumps
  <2> QED
    BY <2>1, <2>2
<1>3. Waits'
  BY <1>0 DEF TypeOK, Waits
<1>4. Resumes'
  BY <1>0 DEF TypeOK, Resumes
<1>5. Bits'
  BY <1>c DEF Bits
<1>6. Locs'
  BY <1>0, <1>a, <1>c DEF TypeOK, Waits, Resumes, Locs, Located
<1>7. Counted'
  BY <1>0 DEF TypeOK, Counted
<1>8. Woken'
  BY <1>0 DEF TypeOK, Woken
<1> QED
  BY <1>1, <1>2, <1>3, <1>4, <1>5, <1>6, <1>7, <1>8 DEF IInv

LEMMA LockKeeps == ASSUME IInv, Lock PROVE IInv'
<1> USE FlagAssumption DEF Lock, Goto, RGoto, pool, waiter, resumer, Inside, Flags, Resumers
<1>0. TypeOK /\ Words /\ Waits /\ Resumes /\ Bits /\ Locs /\ Counted /\ Woken
  BY DEF IInv
<1>1. TypeOK'
  BY <1>0 DEF TypeOK
<1>2. Words'
  BY <1>0 DEF TypeOK, Words, Bumps
<1>3. Waits'
  BY <1>0 DEF TypeOK, Waits
<1>4. Resumes'
  BY <1>0 DEF TypeOK, Resumes
<1>5. Bits'
  BY <1>0 DEF TypeOK, Bits
<1>6. Locs'
  BY <1>0 DEF TypeOK, Waits, Resumes, Bits, Locs, Located
<1>7. Counted'
  BY <1>0 DEF TypeOK, Counted
<1>8. Woken'
  BY <1>0 DEF TypeOK, Waits, Resumes, Bits, Locs, Located, Woken
<1> QED
  BY <1>1, <1>2, <1>3, <1>4, <1>5, <1>6, <1>7, <1>8 DEF IInv

LEMMA SetSleepingKeeps == ASSUME IInv, SetSleeping PROVE IInv'
<1> USE FlagAssumption DEF SetSleeping, Goto, RGoto, pool, waiter, resumer, Inside, Flags, Resumers
<1>0. TypeOK /\ Words /\ Waits /\ Resumes /\ Bits /\ Locs /\ Counted /\ Woken
  BY DEF IInv
<1>a. flag \in Flags
  BY <1>0 DEF TypeOK, Waits
<1>b. /\ word' \in [Flags -> Nat]
      /\ \A g \in Flags : /\ word'[g] % BUMP \in {0, 1}
                          /\ Asleep(word'[g]) <=> g = flag \/ Asleep(word[g])
                          /\ word'[g] \in {BUMP * Bumps(g), BUMP * Bumps(g) + 1}
  BY <1>0, <1>a, PutAsleep
<1>1. TypeOK'
  BY <1>0, <1>a, <1>b DEF TypeOK
<1>2. Words'
  BY <1>0, <1>b DEF TypeOK, Words, Bumps
<1>3. Waits'
  BY <1>0, <1>a, <1>b DEF TypeOK, Waits
<1>4. Resumes'
  BY <1>0 DEF TypeOK, Resumes
<1>5. Bits'
  BY <1>0, <1>a, <1>b DEF TypeOK, Bits
<1>6. Locs'
  BY <1>0, <1>a, <1>b DEF TypeOK, Waits, Resumes, Bits, Locs, Located
<1>7. Counted'
  BY <1>0 DEF TypeOK, Counted
<1>8. Woken'
  BY <1>0, <1>a, <1>b, Matches DEF TypeOK, Words, Waits, Resumes, Bits, Woken
<1> QED
  BY <1>1, <1>2, <1>3, <1>4, <1>5, <1>6, <1>7, <1>8 DEF IInv

LEMMA FalseAlarmKeeps == ASSUME IInv, FalseAlarm PROVE IInv'
<1> USE FlagAssumption DEF FalseAlarm, Goto, RGoto, pool, waiter, resumer, Inside, Flags, Resumers
<1>0. TypeOK /\ Words /\ Waits /\ Resumes /\ Bits /\ Locs /\ Counted /\ Woken
  BY DEF IInv
<1>a. flag \in Flags
  BY <1>0 DEF TypeOK, Waits
<1>b. /\ word' \in [Flags -> Nat]
      /\ \A g \in Flags : /\ word'[g] % BUMP \in {0, 1}
                          /\ Asleep(word'[g]) <=> g # flag /\ Asleep(word[g])
                          /\ word'[g] \in {BUMP * Bumps(g), BUMP * Bumps(g) + 1}
  BY <1>0, <1>a, PutAwake
<1>1. TypeOK'
  BY <1>0, <1>a, <1>b DEF TypeOK
<1>2. Words'
  BY <1>0, <1>b DEF TypeOK, Words, Bumps
<1>3. Waits'
  BY <1>0, <1>a, <1>b DEF TypeOK, Waits
<1>4. Resumes'
  BY <1>0 DEF TypeOK, Resumes
<1>5. Bits'
  BY <1>0, <1>a, <1>b DEF TypeOK, Bits
<1>6. Locs'
  BY <1>0, <1>a, <1>b DEF TypeOK, Waits, Resumes, Bits, Locs, Located
<1>7. Counted'
  BY <1>0 DEF TypeOK, Counted
<1>8. Woken'
  BY <1>0, <1>a, <1>b DEF TypeOK, Waits, Resumes, Bits, Woken
<1> QED
  BY <1>1, <1>2, <1>3, <1>4, <1>5, <1>6, <1>7, <1>8 DEF IInv

LEMMA SetLocKeeps == ASSUME IInv, SetLoc PROVE IInv'
<1> USE FlagAssumption DEF SetLoc, Goto, RGoto, pool, waiter, resumer, Inside, Flags, Resumers
<1>0. TypeOK /\ Words /\ Waits /\ Resumes /\ Bits /\ Locs /\ Counted /\ Woken
  BY DEF IInv
<1>1. TypeOK'
  BY <1>0 DEF TypeOK
<1>2. Waits'
  BY <1>0 DEF TypeOK, Waits
<1>3. (Words /\ Resumes)'
  BY <1>0 DEF Words, Bumps, Resumes
<1>4. Bits'
  BY <1>0 DEF TypeOK, Bits
<1>5. Locs'
  BY <1>0 DEF TypeOK, Waits, Resumes, Bits, Locs, Located
<1>6. Counted'
  BY <1>0 DEF TypeOK, Counted
<1>7. Woken'
  BY <1>0 DEF TypeOK, Woken
<1> QED
  BY <1>1, <1>2, <1>3, <1>4, <1>5, <1>6, <1>7 DEF IInv

LEMMA TestKeeps == ASSUME IInv, Test PROVE IInv'
<1> USE FlagAssumption DEF Test, Goto, RGoto, pool, waiter, resumer, Inside, Flags, Resumers
<1>0. TypeOK /\ Words /\ Waits /\ Resumes /\ Bits /\ Locs /\ Counted /\ Woken
  BY DEF IInv
<1>1. TypeOK'
  <2>1. {th_in_pool, th_active, th_active_in_pool}' \subseteq BOOLEAN
    BY <1>0 DEF TypeOK
  <2> QED
    BY <1>0, <2>1 DEF TypeOK
<1>2. Words'
  BY <1>0 DEF TypeOK, Words, Bumps
<1>3. Waits'
  BY <1>0 DEF TypeOK, Waits
<1>4. Resumes'
  BY <1>0 DEF TypeOK, Waits, Resumes, Words
<1>5. Bits'
  BY <1>0 DEF TypeOK, Bits
<1>6. Locs'
  BY <1>0 DEF TypeOK, Waits, Resumes, Bits, Locs, Located
<1>7. Counted'
  BY <1>0 DEF TypeOK, Counted
<1>8. Woken'
  BY <1>0 DEF TypeOK, Waits, Resumes, Bits, Locs, Located, Woken
<1> QED
  BY <1>1, <1>2, <1>3, <1>4, <1>5, <1>6, <1>7, <1>8 DEF IInv

LEMMA WakeSpuriouslyKeeps == ASSUME IInv, WakeSpuriously PROVE IInv'
<1> USE FlagAssumption DEF WakeSpuriously, Goto, RGoto, pool, waiter, resumer, Inside, Flags, Resumers
<1>0. TypeOK /\ Words /\ Waits /\ Resumes /\ Bits /\ Locs /\ Counted /\ Woken
  BY DEF IInv
<1>1. TypeOK'
  BY <1>0 DEF TypeOK
<1>2. Waits'
  BY <1>0 DEF TypeOK, Waits
<1>3. (Words /\ Resumes)'
  BY <1>0 DEF Words, Bumps, Resumes
<1>4. Bits'
  BY <1>0 DEF TypeOK, Bits
<1>5. Locs'
  BY <1>0 DEF TypeOK, Locs, Located
<1>6. Counted'
  BY <1>0 DEF TypeOK, Counted
<1>7. Woken'
  BY <1>0 DEF TypeOK, Woken
<1> QED
  BY <1>1, <1>2, <1>3, <1>4, <1>5, <1>6, <1>7 DEF IInv

LEMMA UnlockKeeps == ASSUME IInv, Unlock PROVE IInv'
<1> USE FlagAssumption DEF Unlock, Goto, RGoto, pool, waiter, resumer, Inside, Flags, Resumers
<1>0. TypeOK /\ Words /\ Waits /\ Resumes /\ Bits /\ Locs /\ Counted /\ Woken
  BY DEF IInv
<1>1. TypeOK'
  BY <1>0 DEF TypeOK
<1>2. Words'
  BY <1>0 DEF TypeOK, Words, Bumps
<1>3. Waits'
  BY <1>0 DEF TypeOK, Waits
<1>4. Resumes'
  BY <1>0 DEF TypeOK, Waits, Resumes, Words
<1>5. Bits'
  BY <1>0 DEF TypeOK, Bits
<1>6. Locs'
  BY <1>0 DEF TypeOK, Waits, Resumes, Bits, Locs, Located
<1>7. Counted'
  BY <1>0 DEF TypeOK, Counted
<1>8. Woken'
  BY <1>0 DEF TypeOK, Woken
<1> QED
  BY <1>1, <1>2, <1>3, <1>4, <1>5, <1>6, <1>7, <1>8 DEF IInv

LEMMA ShutdownKeeps == ASSUME IInv, NEW f \in Flags, Shutdown(f) PROVE IInv'
<1> USE FlagAssumption DEF Shutdown, Goto, RGoto, pool, waiter, resumer, Inside, Flags, Resumers
<1>0. TypeOK /\ Words /\ Waits /\ Resumes /\ Bits /\ Locs /\ Counted /\ Woken
  BY DEF IInv
<1>1. TypeOK'
  BY <1>0 DEF TypeOK
<1>2. Waits'
  BY <1>0 DEF TypeOK, Waits
<1>3. Resumes'
  BY <1>0 DEF TypeOK, Words, Resumes, MayRelease
<1>4. Locs'
  BY <1>0 DEF TypeOK, Resumes, Locs, Located, MayRelease
<1>5. (Words /\ Bits /\ Counted)'
  BY <1>0 DEF Words, Bumps, Bits, Counted
<1>6. Woken'
  BY <1>0 DEF TypeOK, Words, Resumes, Woken, MayRelease
<1> QED
  BY <1>1, <1>2, <1>3, <1>4, <1>5, <1>6 DEF IInv

LEMMA ReleaseKeeps == ASSUME IInv, NEW f \in Flags, Release(f) PROVE IInv'
<1> USE FlagAssumption DEF Release, Goto, RGoto, pool, waiter, resumer, Inside, Flags, Resumers
<1>0. TypeOK /\ Words /\ Waits /\ Resumes /\ Bits /\ Locs /\ Counted /\ Woken
  BY DEF IInv
<1>a. /\ word' \in [Flags -> Nat]
      /\ \A g \in Flags : /\ word'[g] % BUMP \in {0, 1}
                          /\ Asleep(word'[g]) <=> Asleep(word[g])
      /\ word'[f] \in {BUMP * (Bumps(f) + 1), BUMP * (Bumps(f) + 1) + 1}
      /\ \A g \in Flags : g # f => word'[g] = word[g]
  BY <1>0, PutBump
<1>b. released[f] = passed[f] /\ rpc[f] \in {"idle", "bump"}
  BY <1>0 DEF Resumes, MayRelease
<1>c. /\ \A g \in Flags : released'[g] = IF g = f THEN released[g] + 1 ELSE released[g]
      /\ \A r \in Resumers : rpc'[r] = IF r = f THEN IF blocktime = "finite" THEN "peek" ELSE "idle"
                                               ELSE rpc[r]
      /\ UNCHANGED <<blocktime, g_done, mx, th_sleep_loc, pool, waiter, target, cast>>
  BY <1>0 DEF TypeOK
<1>1. TypeOK'
  BY <1>0, <1>a DEF TypeOK
<1>2. Words'
  <2>1. \A g \in Flags : Bumps(g)' = IF g = f THEN Bumps(g) + 1 ELSE Bumps(g)
    BY <1>0, <1>c DEF TypeOK, Bumps
  <2> QED
    BY <1>0, <1>a, <1>b, <1>c, <2>1 DEF TypeOK, Words
<1>3. Waits'
  <2> HIDE DEF Release
  <2> QED
    BY <1>0, <1>a, <1>b, <1>c DEF TypeOK, Words, Waits
<1>4. Resumes'
  <2> HIDE DEF Release
  <2> QED
    BY <1>0, <1>b, <1>c DEF TypeOK, Resumes
<1>5. Bits'
  <2> HIDE DEF Release
  <2> QED
    BY <1>0, <1>a, <1>c DEF TypeOK, Bits
<1>6. Locs'
  <2> HIDE DEF Release
  <2> QED
    BY <1>0, <1>a, <1>b, <1>c DEF TypeOK, Resumes, Locs, Located
<1>7. Counted'
  BY <1>0 DEF TypeOK, Counted
<1>8. Woken'
  <2> HIDE DEF Release
  <2> QED
    BY <1>0, <1>a, <1>b, <1>c DEF TypeOK, Waits, Resumes, Woken
<1> QED
  BY <1>1, <1>2, <1>3, <1>4, <1>5, <1>6, <1>7, <1>8 DEF IInv

LEMMA PeekKeeps == ASSUME IInv, NEW f \in Flags, Peek(f) PROVE IInv'
<1> USE FlagAssumption DEF Peek, Goto, RGoto, pool, waiter, resumer, Inside, Flags, Resumers
<1>0. TypeOK /\ Words /\ Waits /\ Resumes /\ Bits /\ Locs /\ Counted /\ Woken
  BY DEF IInv
<1>1. TypeOK'
  BY <1>0 DEF TypeOK
<1>2. Resumes'
  BY <1>0 DEF TypeOK, Resumes
<1>3. Locs'
  BY <1>0 DEF TypeOK, Locs, Located
<1>4. (Words /\ Waits /\ Bits /\ Counted)'
  BY <1>0 DEF Words, Bumps, Waits, Bits, Counted
<1>5. Woken'
  BY <1>0 DEF TypeOK, Waits, Resumes, Bits, Locs, Located, Woken
<1> QED
  BY <1>1, <1>2, <1>3, <1>4, <1>5 DEF IInv

LEMMA PokeKeeps == ASSUME IInv, NEW p \in Pokers, Poke(p) PROVE IInv'
<1> USE FlagAssumption DEF Poke, Goto, RGoto, pool, waiter, resumer, Inside, Flags, Resumers
<1>0. TypeOK /\ Words /\ Waits /\ Resumes /\ Bits /\ Locs /\ Counted /\ Woken
  BY DEF IInv
<1>1. TypeOK'
  BY <1>0 DEF TypeOK
<1>2. Resumes'
  BY <1>0 DEF TypeOK, Resumes
<1>3. Locs'
  BY <1>0 DEF TypeOK, Locs, Located
<1>4. (Words /\ Waits /\ Bits /\ Counted)'
  BY <1>0 DEF Words, Bumps, Waits, Bits, Counted
<1>5. Woken'
  BY <1>0 DEF TypeOK, Woken
<1> QED
  BY <1>1, <1>2, <1>3, <1>4, <1>5 DEF IInv

LEMMA ReadTypeKeeps == ASSUME IInv, NEW p \in Pokers, ReadType(p) PROVE IInv'
<1> USE FlagAssumption DEF ReadType, Goto, RGoto, pool, waiter, resumer, Inside, Flags, Resumers
<1>0. TypeOK /\ Words /\ Waits /\ Resumes /\ Bits /\ Locs /\ Counted /\ Woken
  BY DEF IInv
<1>1. TypeOK'
  <2>1. \E c \in BOOLEAN : cast' = [cast EXCEPT ![p] = c]
    OBVIOUS
  <2>2. cast' \in [Resumers -> BOOLEAN]
    BY <1>0, <2>1 DEF TypeOK
  <2>3. \E label \in {"lock", "idle"} : rpc' = [rpc EXCEPT ![p] = label]
    OBVIOUS
  <2>4. rpc' \in [Resumers -> {"idle", "bump", "peek", "read_type", "lock", "unset_sleeping",
                              "clear_loc", "unlock"}]
    BY <1>0, <2>3 DEF TypeOK
  <2> QED
    BY <1>0, <2>2, <2>4 DEF TypeOK
<1>2. Resumes'
  BY <1>0 DEF TypeOK, Resumes
<1>3. Locs'
  BY <1>0 DEF TypeOK, Locs, Located
<1>4. (Words /\ Waits /\ Bits /\ Counted)'
  BY <1>0 DEF Words, Bumps, Waits, Bits, Counted
<1>5. Woken'
  BY <1>0 DEF TypeOK, Waits, Resumes, Bits, Locs, Located, Woken
<1> QED
  BY <1>1, <1>2, <1>3, <1>4, <1>5 DEF IInv

LEMMA ResumeLockKeeps == ASSUME IInv, NEW r \in Resumers, ResumeLock(r) PROVE IInv'
<1> USE FlagAssumption DEF ResumeLock, Goto, RGoto, pool, waiter, resumer, Inside, Flags, Resumers
<1>0. TypeOK /\ Words /\ Waits /\ Resumes /\ Bits /\ Locs /\ Counted /\ Woken
  BY DEF IInv
<1>1. TypeOK'
  BY <1>0 DEF TypeOK
<1>2. Waits'
  BY <1>0 DEF TypeOK, Waits
<1>3. Resumes'
  BY <1>0 DEF TypeOK, Resumes
<1>4. Locs'
  BY <1>0 DEF TypeOK, Locs, Located
<1>5. (Words /\ Bits /\ Counted)'
  BY <1>0 DEF Words, Bumps, Bits, Counted
<1>6. Woken'
  BY <1>0 DEF TypeOK, Waits, Resumes, Bits, Locs, Located, Woken
<1> QED
  BY <1>1, <1>2, <1>3, <1>4, <1>5, <1>6 DEF IInv

LEMMA ResumeUnsetKeeps == ASSUME IInv, NEW r \in Resumers, ResumeUnset(r) PROVE IInv'
<1> USE FlagAssumption DEF ResumeUnset, Goto, RGoto, pool, waiter, resumer, Inside, Flags, Resumers
<1>0. TypeOK /\ Words /\ Waits /\ Resumes /\ Bits /\ Locs /\ Counted /\ Woken
  BY DEF IInv
<1>a. \/ /\ target[r] \in Flags /\ Asleep(word[target[r]])
         /\ word' \in [Flags -> Nat]
         /\ \A g \in Flags : /\ word'[g] % BUMP \in {0, 1}
                             /\ Asleep(word'[g]) <=> g # target[r] /\ Asleep(word[g])
                             /\ word'[g] \in {BUMP * Bumps(g), BUMP * Bumps(g) + 1}
         /\ rpc' = [rpc EXCEPT ![r] = "clear_loc"]
      \/ /\ \A g \in Flags : Asleep(word'[g]) <=> Asleep(word[g])
         /\ target[r] = NoFlag \/ cast[r] = FALSE \/ ~Asleep(word[target[r]])
         /\ word' \in [Flags -> Nat]
         /\ \A g \in Flags : /\ word'[g] % BUMP \in {0, 1}
                             /\ word'[g] \in {BUMP * Bumps(g), BUMP * Bumps(g) + 1}
         /\ rpc' = [rpc EXCEPT ![r] = "unlock"]
  <2>1. CASE target[r] # NoFlag /\ cast[r]
    <3>1. target[r] \in Flags
      BY <1>0, <2>1 DEF TypeOK
    <3>2. word' = [word EXCEPT ![target[r]] = Awake(@)]
      BY <2>1
    <3>3. /\ word' \in [Flags -> Nat]
          /\ \A g \in Flags : /\ word'[g] % BUMP \in {0, 1}
                              /\ Asleep(word'[g]) <=> g # target[r] /\ Asleep(word[g])
                              /\ word'[g] \in {BUMP * Bumps(g), BUMP * Bumps(g) + 1}
      BY <1>0, <3>1, <3>2, PutAwake
    <3> QED
      BY <2>1, <3>1, <3>3
  <2>2. CASE ~(target[r] # NoFlag /\ cast[r])
    BY <1>0, <2>2 DEF TypeOK, Words
  <2> QED
    BY <2>1, <2>2
<1>b. /\ rpc[r] = "unset_sleeping" /\ mx = r
      /\ UNCHANGED <<blocktime, g_done, mx, th_sleep_loc, pool, waiter, target, cast, released>>
  BY <1>0 DEF Resumes
<1>1. TypeOK'
  <2> HIDE DEF ResumeUnset
  <2> QED
    BY <1>0, <1>a, <1>b DEF TypeOK
<1>2. Words'
  <2> HIDE DEF ResumeUnset
  <2> QED
    BY <1>0, <1>a, <1>b DEF TypeOK, Words, Bumps
<1>3. Waits'
  <2> HIDE DEF ResumeUnset
  <2> QED
    BY <1>0, <1>a, <1>b DEF TypeOK, Waits
<1>4. Resumes'
  BY <1>0 DEF TypeOK, Resumes
<1>5. Bits'
  <2> HIDE DEF ResumeUnset
  <2> QED
    BY <1>0, <1>a, <1>b DEF TypeOK, Bits
<1>6. Locs'
  <2> HIDE DEF ResumeUnset
  <2> QED
    BY <1>0, <1>a, <1>b DEF TypeOK, Bits, Resumes, Locs, Located
<1>7. Counted'
  BY <1>0 DEF TypeOK, Counted
<1>8. Woken'
  <2> HIDE DEF ResumeUnset
  <2> QED
    BY <1>0, <1>a, <1>b DEF TypeOK, Waits, Resumes, Bits, Woken
<1> QED
  BY <1>1, <1>2, <1>3, <1>4, <1>5, <1>6, <1>7, <1>8 DEF IInv

LEMMA ResumeClearKeeps == ASSUME IInv, NEW r \in Resumers, ResumeClear(r) PROVE IInv'
<1> USE FlagAssumption DEF ResumeClear, Goto, RGoto, pool, waiter, resumer, Inside, Flags, Resumers
<1>0. TypeOK /\ Words /\ Waits /\ Resumes /\ Bits /\ Locs /\ Counted /\ Woken
  BY DEF IInv
<1>1. TypeOK'
  BY <1>0 DEF TypeOK
<1>2. Words'
  BY <1>0 DEF TypeOK, Words, Bumps
<1>3. Waits'
  BY <1>0 DEF TypeOK, Waits
<1>4. Resumes'
  BY <1>0 DEF TypeOK, Resumes
<1>5. Bits'
  BY <1>0 DEF TypeOK, Bits
<1>6. Locs'
  BY <1>0 DEF TypeOK, Waits, Resumes, Bits, Locs, Located
<1>7. Counted'
  BY <1>0 DEF TypeOK, Counted
<1>8. Woken'
  BY <1>0 DEF TypeOK, Woken
<1> QED
  BY <1>1, <1>2, <1>3, <1>4, <1>5, <1>6, <1>7, <1>8 DEF IInv

LEMMA ResumeUnlockKeeps == ASSUME IInv, NEW r \in Resumers, ResumeUnlock(r) PROVE IInv'
<1> USE FlagAssumption DEF ResumeUnlock, Goto, RGoto, pool, waiter, resumer, Inside, Flags, Resumers
<1>0. TypeOK /\ Words /\ Waits /\ Resumes /\ Bits /\ Locs /\ Counted /\ Woken
  BY DEF IInv
<1>1. TypeOK'
  BY <1>0 DEF TypeOK
<1>2. Waits'
  BY <1>0 DEF TypeOK, Waits, Resumes
<1>3. Resumes'
  BY <1>0 DEF TypeOK, Resumes
<1>4. Locs'
  BY <1>0 DEF TypeOK, Waits, Resumes, Bits, Locs, Located
<1>5. (Words /\ Bits /\ Counted)'
  BY <1>0 DEF Words, Bumps, Bits, Counted
<1>6. Woken'
  BY <1>0 DEF TypeOK, Waits, Resumes, Bits, Locs, Located, Woken
<1> QED
  BY <1>1, <1>2, <1>3, <1>4, <1>5, <1>6 DEF IInv

LEMMA ChangePoolKeeps == ASSUME IInv, ChangePool PROVE IInv'
<1> USE FlagAssumption DEF ChangePool, Goto, RGoto, pool, waiter, resumer, Inside, Flags, Resumers
<1>0. TypeOK /\ Words /\ Waits /\ Resumes /\ Bits /\ Locs /\ Counted /\ Woken
  BY DEF IInv
<1>1. TypeOK'
  BY <1>0 DEF TypeOK
<1>2. Counted'
  BY <1>0 DEF TypeOK, Counted
<1>3. (Words /\ Waits /\ Resumes /\ Bits /\ Locs /\ Woken)'
  BY <1>0 DEF Words, Bumps, Waits, Resumes, Bits, Locs, Located, Woken
<1> QED
  BY <1>1, <1>2, <1>3 DEF IInv

\* The invariant is kept by every step.
LEMMA NextPreserves == IInv /\ [Next]_vars => IInv'
<1> SUFFICES ASSUME IInv, [Next]_vars PROVE IInv'
  OBVIOUS
<1>1. CASE UNCHANGED vars
  BY <1>1 DEF IInv, TypeOK, Words, Bumps, Waits, Resumes, Bits, Located, Locs, Counted, Woken,
              vars, pool, waiter, resumer
<1>2. CASE \E f \in Flags : Wait(f) \/ Release(f) \/ Shutdown(f) \/ Peek(f)
  BY <1>2, WaitKeeps, ReleaseKeeps, ShutdownKeeps, PeekKeeps
<1>3. CASE \E p \in Pokers : Poke(p) \/ ReadType(p)
  BY <1>3, PokeKeeps, ReadTypeKeeps
<1>4. CASE \E r \in Resumers : ResumeLock(r) \/ ResumeUnset(r) \/ ResumeClear(r) \/ ResumeUnlock(r)
  BY <1>4, ResumeLockKeeps, ResumeUnsetKeeps, ResumeClearKeeps, ResumeUnlockKeeps
<1>5. CASE \/ Check \/ Spin \/ Return \/ Lock \/ SetSleeping \/ FalseAlarm
           \/ SetLoc \/ Test \/ WakeSpuriously \/ Unlock \/ ChangePool
  BY <1>5, CheckKeeps, SpinKeeps, ReturnKeeps, LockKeeps, SetSleepingKeeps, FalseAlarmKeeps,
     SetLocKeeps, TestKeeps, WakeSpuriouslyKeeps, UnlockKeeps, ChangePoolKeeps
<1> QED
  BY <1>1, <1>2, <1>3, <1>4, <1>5 DEF Next

\* So it holds in every state.
LEMMA Invariance == Spec => []IInv
BY InitEstablishes, NextPreserves, PTL DEF Spec

\* No release is lost on a thread that sleeps: while it sleeps on a flag that has been
\* released, a releaser is bound to find the sleep bit, or a resumer is bound to signal.
THEOREM FlagNoLostWakeup == Spec => []NoLostWakeup
<1>1. IInv => NoLostWakeup
  BY DEF IInv, Woken, NoLostWakeup
<1> QED
  BY Invariance, <1>1, PTL

\* The sleep bit and th_sleep_loc speak of the flag the thread is suspended on, and the
\* count of the pool's active threads is right, whatever the order in which the thread is
\* woken, moved to the pool and put to sleep again.
THEOREM FlagSleepState == Spec => []SleepStateExact
<1>1. IInv => SleepStateExact
  BY DEF IInv, TypeOK, Bits, Locs, Located, Counted, SleepStateExact
<1> QED
  BY Invariance, <1>1, PTL
-----------------------------------------------------------------------------
\* A step the promise does not see.
LEMMA Unseen == UNCHANGED <<flag, released, passed, g_done>> => [Promise!Next]_(Promise!vars)
BY DEF Promise!vars

\* A wait begins, and it returns for a release of its own unless the library shuts down.
LEMMA WaitPromised == ASSUME IInv, NEW f \in Flags, Wait(f) PROVE Promise!Wait(f)
<1>1. flag = NoFlag
  BY DEF IInv, Waits, Wait
<1> QED
  BY <1>1 DEF Wait, Promise!Wait, resumer

LEMMA ReturnPromised == ASSUME IInv, Return PROVE [Promise!Next]_(Promise!vars)
<1>1. flag \in Flags
  BY DEF IInv, TypeOK, Waits, Return
<1>2. CASE g_done
  <2>1. Promise!Abandon
    BY <1>1, <1>2, FlagAssumption DEF Return, Promise!Abandon, resumer
  <2> QED
    BY <2>1 DEF Promise!Next
<1>3. CASE ~g_done
  <2>1. released[flag] = passed[flag] + 1 /\ passed[flag] \in Nat
    BY <1>1, <1>3 DEF IInv, TypeOK, Waits, Return
  <2>2. released[flag] > passed[flag]
    BY <2>1
  <2>3. Promise!Pass(flag)
    BY <1>3, <2>2 DEF Return, Promise!Pass, resumer
  <2> QED
    BY <1>1, <2>3 DEF Promise!Next
<1> QED
  BY <1>2, <1>3

\* A flag is released again only when the thread has passed it, at the shutdown too.
LEMMA ReleasePromised == ASSUME IInv, NEW f \in Flags, Release(f) PROVE Promise!Release(f)
<1>1. released[f] = passed[f]
  BY DEF IInv, Resumes, Release, MayRelease, Resumers
<1> QED
  BY <1>1 DEF Release, Promise!Release, waiter

LEMMA ShutdownPromised == ASSUME NEW f \in Flags, Shutdown(f) PROVE Promise!Shutdown
BY DEF Shutdown, MayRelease, Promise!Shutdown, waiter

\* Sleeping, waking and resuming are nobody's business but the flag's: each step of the
\* wait and of the releases keeps the promise of Flag.
THEOREM FlagImplements == Spec => Promise!Spec
<1>1. Init => Promise!Init
  BY DEF Init, Promise!Init
<1>2. IInv /\ [Next]_vars => [Promise!Next]_(Promise!vars)
  <2> SUFFICES ASSUME IInv, [Next]_vars PROVE [Promise!Next]_(Promise!vars)
    OBVIOUS
  <2>1. ASSUME NEW f \in Flags, Wait(f) \/ Release(f) \/ Shutdown(f)
        PROVE  [Promise!Next]_(Promise!vars)
    BY <2>1, WaitPromised, ReleasePromised, ShutdownPromised DEF Promise!Next
  <2>2. CASE Return
    BY <2>2, ReturnPromised
  <2>3. ASSUME NEW r \in Resumers, \/ r \in Flags /\ Peek(r)
                                   \/ Poke(r) \/ ReadType(r) \/ ResumeLock(r)
                                   \/ ResumeUnset(r) \/ ResumeClear(r) \/ ResumeUnlock(r)
        PROVE  UNCHANGED <<flag, released, passed, g_done>>
    BY <2>3 DEF Peek, Poke, ReadType, ResumeLock, ResumeUnset, ResumeClear, ResumeUnlock,
                waiter, resumer
  <2>4. CASE \/ Check \/ Spin \/ Lock \/ SetSleeping \/ FalseAlarm \/ SetLoc
             \/ Test \/ WakeSpuriously \/ Unlock \/ ChangePool
    BY <2>4, Unseen DEF Check, Spin, Lock, SetSleeping, FalseAlarm, SetLoc, Test,
                        WakeSpuriously, Unlock, ChangePool, waiter, resumer
  <2>5. CASE UNCHANGED vars
    BY <2>5, Unseen DEF vars, waiter, resumer
  <2> QED
    BY <2>1, <2>2, <2>3, <2>4, <2>5, Unseen DEF Next, Resumers
<1> QED
  BY <1>1, <1>2, Invariance, PTL DEF Spec, Promise!Spec
=============================================================================
