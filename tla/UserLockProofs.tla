--------------------------- MODULE UserLockProofs ---------------------------
(***************************************************************************)
(* The lock of a critical section is one lock, however the first entries   *)
(* race, and its object is nobody else's: for any number of threads, any   *)
(* room for lock objects, and any kinds of locks.  This, and what is       *)
(* proved of the ticket lock and of the test-and-set and futex locks,      *)
(* holds of the lock the program sees, whose kind is chosen once and which *)
(* shares its memory with the other kinds.                                 *)
(***************************************************************************)
EXTENDS UserLock, FiniteSetTheorems, TLAPS

Holders == Threads \cup {NoThread}
SectionTypes ==
  /\ table \in Seq(Holders)
  /\ pool \in Seq(DOMAIN table)
  /\ user_lock \in {Null} \cup DOMAIN table
  /\ ilk \in [Threads -> {Null} \cup DOMAIN table]
  /\ pc \in [Threads -> {"idle", "tag", "create", "install", "set", "inside", "user", "wild"}]
  /\ crit \in {Untagged} \cup {Direct(h) : h \in Holders} \cup {Indirect(i) : i \in DOMAIN table}

\* The word is a direct lock or a pointer as the hint says, and whoever is about to
\* set or leave the lock has found it installed.
Kinds ==
  /\ crit.tag = "direct" => IsDirect(HintedSeq)
  /\ crit.tag = "indirect" => ~IsDirect(HintedSeq)
  /\ \A t \in Threads : /\ At(t, "tag") => IsDirect(HintedSeq)
                        /\ At(t, "create") \/ At(t, "install") => ~IsDirect(HintedSeq)
                        /\ At(t, "set") \/ At(t, "inside") => crit # Untagged

\* No object is claimed twice.
Claims ==
  /\ crit.object # Null => user_lock # crit.object
  /\ \A t \in Threads : ilk[t] # Null => /\ ilk[t] # crit.object
                                         /\ ilk[t] # user_lock
                                         /\ \A u \in Threads : ilk[u] = ilk[t] => u = t
  /\ \A k \in DOMAIN pool : /\ pool[k] # crit.object
                            /\ pool[k] # user_lock
                            /\ \A t \in Threads : ilk[t] # pool[k]
                            /\ \A j \in DOMAIN pool : pool[j] = pool[k] => j = k
  /\ \A t \in Threads : At(t, "install") => ilk[t] # Null

\* The section, and the program's lock, are held by whoever is inside.
HeldBy(t) == IF crit.tag = "direct" THEN crit.holder = t ELSE table[crit.object] = t
Held == \A t \in Threads : /\ At(t, "inside") => HeldBy(t)
                           /\ At(t, "user") => user_lock # Null /\ table[user_lock] = t

SectionInv == SectionTypes /\ Kinds /\ Claims /\ Held

LEMMA SectionBegins == CriticalInit => SectionInv
<1> SUFFICES ASSUME CriticalInit PROVE SectionInv
  OBVIOUS
<1> USE DEF CriticalInit
<1>1. SectionTypes
  BY DEF SectionTypes, Untagged
<1>2. Kinds
  BY DEF Kinds, At, Untagged
<1>3. Claims
  BY DEF Claims, At, Untagged, Null
<1>4. Held
  BY DEF Held, At
<1> QED
  BY <1>1, <1>2, <1>3, <1>4 DEF SectionInv

-----------------------------------------------------------------------------
\* The three forms the word of the section has.
LEMMA WordForms ==
  ASSUME SectionTypes
  PROVE  \/ crit = Untagged /\ crit.tag = "none" /\ crit.object = Null
         \/ /\ crit.tag = "direct" /\ crit.object = Null /\ crit # Untagged
            /\ \E h \in Holders : crit = Direct(h)
         \/ /\ crit.tag = "indirect" /\ crit.object \in DOMAIN table /\ crit # Untagged
            /\ crit = Indirect(crit.object)
BY DEF SectionTypes, Untagged, Direct, Indirect

LEMMA NullIsNone == ASSUME SectionTypes PROVE Null \notin DOMAIN table
BY DEF SectionTypes, Null

\* An object just allocated is there, is nobody's, and has left the pool.
LEMMA Allocated ==
  ASSUME SectionTypes, Claims, NEW i \in Objects, Allocate(i)
  PROVE  /\ table' \in Seq(Holders)
         /\ DOMAIN table \subseteq DOMAIN table'
         /\ \A j \in DOMAIN table : table'[j] = table[j]
         /\ i \in DOMAIN table' /\ i # Null
         /\ i # crit.object /\ i # user_lock /\ \A t \in Threads : ilk[t] # i
         /\ pool' \in Seq(DOMAIN table')
         /\ \A k \in DOMAIN pool' : pool'[k] # i
         /\ \E shift \in 0 .. 1 : \A k \in DOMAIN pool' :
              k + shift \in DOMAIN pool /\ pool'[k] = pool[k + shift]
<1> USE DEF SectionTypes
<1>1. CASE pool # <<>>
  <2>1. i = pool[1] /\ 1 \in DOMAIN pool /\ pool' = Tail(pool) /\ table' = table
    BY <1>1 DEF Allocate
  <2>2. pool' \in Seq(DOMAIN table) /\ \A k \in DOMAIN pool' : k + 1 \in DOMAIN pool /\ pool'[k] = pool[k + 1]
    BY <1>1, <2>1
  <2>3. i \in DOMAIN table /\ i # Null
    BY <2>1, NullIsNone
  <2>4. i # crit.object /\ i # user_lock /\ \A t \in Threads : ilk[t] # i
    BY <2>1 DEF Claims
  <2>5. \A k \in DOMAIN pool' : pool'[k] # i
    <3> SUFFICES ASSUME NEW k \in DOMAIN pool', pool'[k] = i PROVE FALSE
      OBVIOUS
    <3>1. k + 1 \in DOMAIN pool /\ pool[k + 1] = pool[1]
      BY <2>1, <2>2
    <3>2. k + 1 = 1
      BY <3>1, <2>1 DEF Claims
    <3> QED
      BY <3>2, <2>2
  <2> QED
    BY <2>1, <2>2, <2>3, <2>4, <2>5
<1>2. CASE pool = <<>>
  <2>1. i = Len(table) + 1 /\ table' = Append(table, NoThread) /\ pool' = pool
    BY <1>2 DEF Allocate
  <2>2. /\ table' \in Seq(Holders) /\ DOMAIN table' = 1 .. Len(table) + 1
        /\ \A j \in DOMAIN table : table'[j] = table[j]
    BY <2>1 DEF Holders
  <2>3. i \in DOMAIN table' /\ i \notin DOMAIN table /\ i # Null
    BY <2>1, <2>2 DEF Null
  <2>4. crit.object \in {Null} \cup DOMAIN table
    BY WordForms
  <2> QED
    BY <1>2, <2>1, <2>2, <2>3, <2>4
<1> QED
  BY <1>1, <1>2

-----------------------------------------------------------------------------
(* The steps of a thread on its way into and out of the section. *)

LEMMA EnterKeeps == ASSUME SectionInv, NEW t \in Threads, EnterCritical(t) PROVE SectionInv'
<1> USE DEF SectionInv, EnterCritical, At, Goto
<1>1. SectionTypes'
  BY DEF SectionTypes
<1>2. Kinds'
  BY DEF SectionTypes, Kinds, HintedSeq
<1>3. Claims'
  BY DEF SectionTypes, Claims
<1>4. Held'
  BY DEF SectionTypes, Held, HeldBy
<1> QED
  BY <1>1, <1>2, <1>3, <1>4

LEMMA InstallTagKeeps == ASSUME SectionInv, NEW t \in Threads, InstallTag(t) PROVE SectionInv'
<1> USE DEF SectionInv, InstallTag, At, Goto
<1>1. SectionTypes'
  BY DEF SectionTypes, Holders
<1>2. IsDirect(HintedSeq) /\ crit' # Untagged /\ (crit # Untagged => crit' = crit)
  BY DEF Kinds, Direct, Untagged
<1>3. crit'.object = crit.object /\ (crit'.tag = crit.tag \/ crit'.tag = "direct")
  BY DEF Direct, Untagged
<1>4. Kinds'
  <2>1. HintedSeq' = HintedSeq
    BY DEF HintedSeq
  <2> QED
    BY <1>2, <1>3, <2>1 DEF SectionTypes, Kinds, IsDirect
<1>5. Claims'
  BY <1>3 DEF SectionTypes, Claims
<1>6. Held'
  <2>1. \A u \in Threads : pc'[u] = "inside" => crit' = crit /\ pc[u] = "inside"
    BY <1>2 DEF SectionTypes, Kinds
  <2>2. \A u \in Threads : pc'[u] = "user" => pc[u] = "user"
    BY DEF SectionTypes
  <2> QED
    BY <2>1, <2>2 DEF Held, HeldBy
<1> QED
  BY <1>1, <1>4, <1>5, <1>6

\* Allocation as such keeps the claims of everybody.
LEMMA AllocatePool ==
  ASSUME SectionTypes, Claims, NEW i \in Objects, Allocate(i), NEW k \in DOMAIN pool'
  PROVE  /\ pool'[k] # crit.object /\ pool'[k] # user_lock /\ \A u \in Threads : ilk[u] # pool'[k]
         /\ \A j \in DOMAIN pool' : pool'[j] = pool'[k] => j = k
<1>1. PICK shift \in 0 .. 1 : \A l \in DOMAIN pool' : l + shift \in DOMAIN pool /\ pool'[l] = pool[l + shift]
  BY Allocated
<1>2. DOMAIN pool' \subseteq Nat
  BY Allocated
<1>3. ASSUME NEW j \in DOMAIN pool', pool'[j] = pool'[k] PROVE j = k
  <2>1. j + shift = k + shift
    BY <1>1, <1>3 DEF Claims
  <2> QED
    BY <2>1, <1>2
<1> QED
  BY <1>1, <1>3 DEF Claims

LEMMA CreateKeeps == ASSUME SectionInv, NEW t \in Threads, CreateLock(t) PROVE SectionInv'
<1> USE DEF SectionInv
<1>1. PICK i \in Objects : Allocate(i) /\ ilk' = [ilk EXCEPT ![t] = i]
  BY DEF CreateLock
<1>2. /\ pc[t] = "create" /\ pc' = [pc EXCEPT ![t] = "install"]
      /\ crit' = crit /\ user_lock' = user_lock /\ uses' = uses
  BY DEF CreateLock, At, Goto
<1>3. SectionTypes'
  <2>1. /\ table' \in Seq(Holders) /\ DOMAIN table \subseteq DOMAIN table' /\ i \in DOMAIN table'
        /\ pool' \in Seq(DOMAIN table')
    BY <1>1, Allocated
  <2> QED
    BY <1>1, <1>2, <2>1 DEF SectionTypes
<1>4. Kinds'
  BY <1>2 DEF SectionTypes, Kinds, HintedSeq, At
<1>5. Claims'
  <2>1. /\ i # Null /\ i # crit.object /\ i # user_lock /\ \A u \in Threads : ilk[u] # i
        /\ \A k \in DOMAIN pool' : pool'[k] # i
    BY <1>1, Allocated
  <2>2. \A u \in Threads : ilk'[u] = IF u = t THEN i ELSE ilk[u]
    BY <1>1 DEF SectionTypes
  <2>3. \A u \in Threads : ilk'[u] # Null =>
          /\ ilk'[u] # crit.object /\ ilk'[u] # user_lock
          /\ \A v \in Threads : ilk'[v] = ilk'[u] => v = u
    BY <2>1, <2>2 DEF Claims
  <2>4. \A k \in DOMAIN pool' :
          /\ pool'[k] # crit.object /\ pool'[k] # user_lock /\ \A u \in Threads : ilk'[u] # pool'[k]
          /\ \A j \in DOMAIN pool' : pool'[j] = pool'[k] => j = k
    BY <1>1, <2>1, <2>2, AllocatePool
  <2>5. \A u \in Threads : pc'[u] = "install" => ilk'[u] # Null
    BY <1>2, <2>1, <2>2 DEF SectionTypes, Claims, At
  <2> QED
    BY <1>2, <2>3, <2>4, <2>5 DEF Claims, At
<1>6. Held'
  <2>1. \A j \in DOMAIN table : table'[j] = table[j]
    BY <1>1, Allocated
  <2>2. \A u \in Threads : /\ pc'[u] = "inside" => pc[u] = "inside"
                           /\ pc'[u] = "user" => pc[u] = "user"
    BY <1>2 DEF SectionTypes
  <2>3. \A u \in Threads : pc[u] = "inside" => crit.tag = "direct" \/ crit.object \in DOMAIN table
    BY WordForms DEF Kinds, At
  <2>4. user_lock # Null => user_lock \in DOMAIN table
    BY DEF SectionTypes
  <2> QED
    BY <1>2, <2>1, <2>2, <2>3, <2>4 DEF Held, HeldBy, At
<1> QED
  BY <1>3, <1>4, <1>5, <1>6

LEMMA InstallLockKeeps == ASSUME SectionInv, NEW t \in Threads, InstallLock(t) PROVE SectionInv'
<1> USE DEF SectionInv, InstallLock, At, Goto
<1>1. ilk[t] # Null /\ ilk[t] \in DOMAIN table
  BY DEF SectionTypes, Claims
<1>2. SectionTypes'
  BY <1>1 DEF SectionTypes
<1>3. ~IsDirect(HintedSeq) /\ crit' # Untagged /\ (crit # Untagged => crit' = crit)
  BY DEF Kinds, Indirect, Untagged
<1>4. /\ crit = Untagged => crit'.object = ilk[t] /\ crit'.tag = "indirect"
      /\ Untagged.object = Null
  BY DEF Indirect, Untagged
<1>5. Kinds'
  <2>1. HintedSeq' = HintedSeq
    BY DEF HintedSeq
  <2> QED
    BY <1>3, <1>4, <2>1 DEF SectionTypes, Kinds, IsDirect
<1>6. Claims'
  <2>1. \A u \in Threads : ilk'[u] = IF u = t THEN Null ELSE ilk[u]
    BY DEF SectionTypes
  <2>2. crit'.object # Null => user_lock # crit'.object
    BY <1>1, <1>3, <1>4 DEF Claims
  <2>3. \A u \in Threads : ilk'[u] # Null =>
          /\ ilk'[u] # crit'.object /\ ilk'[u] # user_lock
          /\ \A v \in Threads : ilk'[v] = ilk'[u] => v = u
    BY <1>1, <1>3, <1>4, <2>1 DEF Claims
  <2>4. \A k \in DOMAIN pool : pool[k] # Null
    BY NullIsNone DEF SectionTypes
  <2>5. \A k \in DOMAIN pool :
          /\ pool[k] # crit'.object /\ pool[k] # user_lock /\ \A u \in Threads : ilk'[u] # pool[k]
          /\ \A j \in DOMAIN pool : pool[j] = pool[k] => j = k
    BY <1>1, <1>3, <1>4, <2>1, <2>4 DEF Claims
  <2>6. \A u \in Threads : pc'[u] = "install" => ilk'[u] # Null
    BY <2>1 DEF SectionTypes, Claims
  <2> QED
    BY <2>2, <2>3, <2>5, <2>6 DEF Claims
<1>7. Held'
  <2>1. \A u \in Threads : pc'[u] = "inside" => crit' = crit /\ pc[u] = "inside"
    BY <1>3 DEF SectionTypes, Kinds
  <2>2. \A u \in Threads : pc'[u] = "user" => pc[u] = "user"
    BY DEF SectionTypes
  <2> QED
    BY <2>1, <2>2 DEF Held, HeldBy
<1> QED
  BY <1>2, <1>5, <1>6, <1>7

LEMMA SetKeeps == ASSUME SectionInv, NEW t \in Threads, SetCritical(t) PROVE SectionInv'
<1> USE DEF SectionInv, SetCritical, At, Goto
<1>1. /\ pc[t] = "set" /\ pc' = [pc EXCEPT ![t] = "inside"]
      /\ UNCHANGED <<uses, pool, user_lock, ilk>> /\ crit # Untagged
  BY DEF Kinds
<1>2. CASE crit.tag = "direct" /\ crit.holder = NoThread /\ crit' = Direct(t) /\ table' = table
  <2>1. crit'.object = crit.object /\ crit'.tag = "direct" /\ crit'.holder = t /\ crit' # Untagged
    BY <1>2, WordForms DEF Direct, Untagged
  <2>2. SectionTypes'
    BY <1>1, <1>2 DEF SectionTypes, Holders
  <2>3. Kinds'
    BY <1>1, <1>2, <2>1 DEF SectionTypes, Kinds, HintedSeq
  <2>4. Claims'
    BY <1>1, <1>2, <2>1 DEF SectionTypes, Claims
  <2>5. Held'
    <3>1. \A u \in Threads : pc[u] # "inside"
      BY <1>2, ClientAssumption DEF Held, HeldBy
    <3> QED
      BY <1>1, <1>2, <2>1, <3>1 DEF SectionTypes, Held, HeldBy
  <2> QED
    BY <2>2, <2>3, <2>4, <2>5
<1>3. CASE /\ crit.tag = "indirect" /\ table[crit.object] = NoThread
           /\ table' = [table EXCEPT ![crit.object] = t] /\ crit' = crit
  <2>1. /\ crit.object \in DOMAIN table /\ DOMAIN table' = DOMAIN table /\ table' \in Seq(Holders)
        /\ \A j \in DOMAIN table : table'[j] = IF j = crit.object THEN t ELSE table[j]
    BY <1>3, WordForms DEF SectionTypes, Holders
  <2>2. SectionTypes'
    BY <1>1, <1>3, <2>1 DEF SectionTypes
  <2>3. Kinds'
    BY <1>1, <1>3 DEF SectionTypes, Kinds, HintedSeq
  <2>4. Claims'
    BY <1>1, <1>3 DEF SectionTypes, Claims
  <2>5. Held'
    <3>1. \A u \in Threads : pc[u] # "inside"
      BY <1>3, ClientAssumption DEF Held, HeldBy
    <3>2. \A u \in Threads : pc'[u] = "inside" => u = t
      BY <1>1, <3>1 DEF SectionTypes
    <3>3. crit.object # user_lock
      BY <2>1, NullIsNone DEF Claims
    <3>4. \A u \in Threads : pc'[u] = "user" => user_lock # Null /\ table'[user_lock] = u
      BY <1>1, <2>1, <3>3 DEF SectionTypes, Held
    <3> QED
      BY <1>1, <1>3, <2>1, <3>2, <3>4 DEF Held, HeldBy
  <2> QED
    BY <2>2, <2>3, <2>4, <2>5
<1> QED
  BY <1>2, <1>3

LEMMA EndKeeps == ASSUME SectionInv, NEW t \in Threads, EndCritical(t) PROVE SectionInv'
<1> USE DEF SectionInv, At, Goto
<1>1. pc[t] = "inside" /\ UNCHANGED <<uses, pool, user_lock, ilk>> /\ crit # Untagged /\ HeldBy(t)
  BY DEF EndCritical, Kinds, Held
<1>2. CASE crit.tag = "direct" /\ crit' = Direct(NoThread) /\ table' = table /\ pc' = [pc EXCEPT ![t] = "idle"]
  <2>1. crit'.object = crit.object /\ crit'.tag = "direct" /\ crit' # Untagged
    BY <1>2, WordForms DEF Direct, Untagged
  <2>2. SectionTypes'
    BY <1>1, <1>2 DEF SectionTypes, Holders
  <2>3. Kinds'
    BY <1>1, <1>2, <2>1 DEF SectionTypes, Kinds, HintedSeq
  <2>4. Claims'
    BY <1>1, <1>2, <2>1 DEF SectionTypes, Claims
  <2>5. Held'
    <3>1. \A u \in Threads : pc'[u] # "inside"
      BY <1>1, <1>2 DEF SectionTypes, Held, HeldBy
    <3> QED
      BY <1>1, <1>2, <3>1 DEF SectionTypes, Held
  <2> QED
    BY <2>2, <2>3, <2>4, <2>5
<1>3. CASE /\ crit.tag = "indirect" /\ table' = [table EXCEPT ![crit.object] = NoThread]
           /\ crit' = crit /\ pc' = [pc EXCEPT ![t] = "idle"]
  <2>1. /\ crit.object \in DOMAIN table /\ DOMAIN table' = DOMAIN table /\ table' \in Seq(Holders)
        /\ \A j \in DOMAIN table : table'[j] = IF j = crit.object THEN NoThread ELSE table[j]
    BY <1>3, WordForms DEF SectionTypes, Holders
  <2>2. SectionTypes'
    BY <1>1, <1>3, <2>1 DEF SectionTypes
  <2>3. Kinds'
    BY <1>1, <1>3 DEF SectionTypes, Kinds, HintedSeq
  <2>4. Claims'
    BY <1>1, <1>3 DEF SectionTypes, Claims
  <2>5. Held'
    <3>1. \A u \in Threads : pc'[u] # "inside"
      BY <1>1, <1>3 DEF SectionTypes, Held, HeldBy
    <3>2. crit.object # user_lock
      BY <2>1, NullIsNone DEF Claims
    <3> QED
      BY <1>1, <1>3, <2>1, <3>1, <3>2 DEF SectionTypes, Held
  <2> QED
    BY <2>2, <2>3, <2>4, <2>5
<1>4. CASE pc' = [pc EXCEPT ![t] = "wild"] /\ UNCHANGED <<crit, table>>
  <2>1. SectionTypes' /\ Kinds' /\ Claims'
    BY <1>1, <1>4 DEF SectionTypes, Kinds, Claims, HintedSeq
  <2>2. Held'
    BY <1>1, <1>4 DEF SectionTypes, Held, HeldBy
  <2> QED
    BY <2>1, <2>2
<1> QED
  BY <1>2, <1>3, <1>4 DEF EndCritical

-----------------------------------------------------------------------------
(* The program's own lock. *)

LEMMA InitUserKeeps == ASSUME SectionInv, NEW t \in Threads, InitUserLock(t) PROVE SectionInv'
<1> USE DEF SectionInv
<1>1. PICK i \in Objects : Allocate(i) /\ user_lock' = i
  BY DEF InitUserLock
<1>2. user_lock = Null /\ UNCHANGED <<uses, crit, ilk, pc>>
  BY DEF InitUserLock
<1>3. /\ table' \in Seq(Holders) /\ DOMAIN table \subseteq DOMAIN table' /\ i \in DOMAIN table'
      /\ pool' \in Seq(DOMAIN table') /\ \A j \in DOMAIN table : table'[j] = table[j]
      /\ i # Null /\ i # crit.object /\ \A u \in Threads : ilk[u] # i
      /\ \A k \in DOMAIN pool' : pool'[k] # i
  BY <1>1, Allocated
<1>4. SectionTypes'
  BY <1>1, <1>2, <1>3 DEF SectionTypes
<1>5. Kinds'
  BY <1>2 DEF Kinds, HintedSeq, At
<1>6. Claims'
  <2>1. \A k \in DOMAIN pool' :
          /\ pool'[k] # crit.object /\ \A u \in Threads : ilk[u] # pool'[k]
          /\ \A j \in DOMAIN pool' : pool'[j] = pool'[k] => j = k
    BY <1>1, AllocatePool
  <2> QED
    BY <1>1, <1>2, <1>3, <2>1 DEF Claims, At
<1>7. Held'
  <2>1. \A u \in Threads : pc[u] # "user"
    BY <1>2 DEF Held, At
  <2>2. \A u \in Threads : pc[u] = "inside" => crit.tag = "direct" \/ crit.object \in DOMAIN table
    BY WordForms DEF Kinds, At
  <2> QED
    BY <1>2, <1>3, <2>1, <2>2 DEF Held, HeldBy, At
<1> QED
  BY <1>4, <1>5, <1>6, <1>7

\* The program's lock changes hands.
LEMMA UserLockKeeps ==
  ASSUME SectionInv, NEW t \in Threads, SetUserLock(t) \/ UnsetUserLock(t)
  PROVE  SectionInv'
<1> USE DEF SectionInv, SetUserLock, UnsetUserLock, At, Goto
<1>1. /\ user_lock \in DOMAIN table /\ user_lock # Null
      /\ UNCHANGED <<uses, crit, pool, user_lock, ilk>>
  BY DEF SectionTypes, Held
<1>2. /\ DOMAIN table' = DOMAIN table /\ table' \in Seq(Holders)
      /\ \A j \in DOMAIN table : j # user_lock => table'[j] = table[j]
  <2>1. table \in Seq(Holders) /\ t \in Holders /\ NoThread \in Holders
    BY DEF SectionTypes, Holders
  <2>2. \E h \in Holders : table' = [table EXCEPT ![user_lock] = h]
    BY <2>1
  <2> HIDE DEF SectionInv, SetUserLock, UnsetUserLock
  <2> QED
    BY <1>1, <2>1, <2>2
<1>3. SectionTypes'
  BY <1>1, <1>2 DEF SectionTypes
<1>4. Kinds'
  BY <1>1 DEF SectionTypes, Kinds, HintedSeq
<1>5. Claims'
  BY <1>1 DEF SectionTypes, Claims
<1>6. Held'
  <2>1. \A u \in Threads : pc'[u] = "inside" => pc[u] = "inside"
    BY DEF SectionTypes
  <2>2. \A u \in Threads : pc[u] = "inside" =>
          crit.tag = "direct" \/ (crit.object \in DOMAIN table /\ crit.object # user_lock)
    BY WordForms, NullIsNone DEF Kinds, Claims
  <2>3. \A u \in Threads : pc'[u] = "inside" => HeldBy(u)'
    BY <1>1, <1>2, <2>1, <2>2 DEF Held, HeldBy
  <2>4. ASSUME NEW u \in Threads, pc'[u] = "user" PROVE table'[user_lock] = u
    <3>1. CASE SetUserLock(t)
      <4>1. \A v \in Threads : pc[v] # "user"
        BY <3>1, ClientAssumption DEF Held
      <4> QED
        BY <1>1, <2>4, <3>1, <4>1 DEF SectionTypes
    <3>2. CASE UnsetUserLock(t)
      <4>1. pc[u] = "user" /\ u # t
        BY <2>4, <3>2 DEF SectionTypes
      <4> QED
        BY <3>2, <4>1 DEF Held
    <3> QED
      BY <3>1, <3>2
  <2> QED
    BY <1>1, <2>3, <2>4 DEF Held
<1> QED
  BY <1>3, <1>4, <1>5, <1>6

LEMMA DestroyKeeps == ASSUME SectionInv, NEW t \in Threads, DestroyUserLock(t) PROVE SectionInv'
<1> USE DEF SectionInv, DestroyUserLock, At
<1>1. user_lock \in DOMAIN table /\ user_lock # Null /\ user_lock' = Null
  BY DEF SectionTypes
<1>2. /\ pool' \in Seq(DOMAIN table) /\ 1 \in DOMAIN pool' /\ pool'[1] = user_lock
      /\ \A k \in DOMAIN pool' : k # 1 => k - 1 \in DOMAIN pool /\ pool'[k] = pool[k - 1]
  BY <1>1 DEF SectionTypes
<1>3. SectionTypes'
  BY <1>1, <1>2 DEF SectionTypes
<1>4. Kinds'
  BY DEF Kinds, HintedSeq
<1>5. Claims'
  <2>1. \A k \in DOMAIN pool' :
          pool'[k] # Null /\ pool'[k] # crit.object /\ \A u \in Threads : ilk[u] # pool'[k]
    BY <1>1, <1>2, NullIsNone DEF SectionTypes, Claims
  <2>2. ASSUME NEW j \in DOMAIN pool', NEW k \in DOMAIN pool', pool'[j] = pool'[k] PROVE j = k
    <3>1. \A l \in DOMAIN pool' : l # 1 => pool'[l] # user_lock
      BY <1>2 DEF Claims
    <3>2. CASE j # 1 /\ k # 1
      <4>1. j - 1 = k - 1
        BY <1>2, <2>2, <3>2 DEF Claims
      <4>2. j \in Nat /\ k \in Nat
        BY <1>2
      <4> QED
        BY <4>1, <4>2
    <3> QED
      BY <1>2, <2>2, <3>1, <3>2
  <2> QED
    BY <1>1, <2>1, <2>2 DEF Claims
<1>6. Held'
  <2>1. \A u \in Threads : pc[u] # "user"
    BY ClientAssumption DEF Held
  <2> QED
    BY <2>1 DEF Held, HeldBy
<1> QED
  BY <1>3, <1>4, <1>5, <1>6

-----------------------------------------------------------------------------
LEMMA SectionKept == SectionInv /\ [CriticalNext]_criticalVars => SectionInv'
<1> SUFFICES ASSUME SectionInv, [CriticalNext]_criticalVars PROVE SectionInv'
  OBVIOUS
<1>1. CASE UNCHANGED criticalVars
  BY <1>1 DEF criticalVars, SectionInv, SectionTypes, Kinds, Claims, Held, HeldBy, HintedSeq, At
<1>2. ASSUME NEW t \in Threads,
             \/ EnterCritical(t) \/ CriticalStep(t) \/ InitUserLock(t) \/ SetUserLock(t)
             \/ UnsetUserLock(t) \/ DestroyUserLock(t)
      PROVE  SectionInv'
  BY <1>2, EnterKeeps, InstallTagKeeps, CreateKeeps, InstallLockKeeps, SetKeeps, EndKeeps,
     InitUserKeeps, UserLockKeeps, DestroyKeeps DEF CriticalStep
<1> QED
  BY <1>1, <1>2 DEF CriticalNext

LEMMA SectionInvariance == CriticalSpec => []SectionInv
BY SectionBegins, SectionKept, PTL DEF CriticalSpec

\* An object in the table has one user, if any.
LEMMA OneUser == SectionInv => \A i \in DOMAIN table : Cardinality(Users(i)) <= 1
<1> SUFFICES ASSUME SectionInv, NEW i \in DOMAIN table PROVE Cardinality(Users(i)) <= 1
  OBVIOUS
<1>1. i # Null
  BY NullIsNone DEF SectionInv
<1>2. ASSUME NEW a \in Users(i), NEW b \in Users(i) PROVE a = b
  BY <1>1, <1>2 DEF Users, SectionInv, Claims
<1>3. CASE Users(i) = {}
  BY <1>3, FS_EmptySet
<1>4. CASE Users(i) # {}
  <2>1. PICK a : Users(i) = {a}
    BY <1>2, <1>4
  <2> QED
    BY <2>1, FS_Singleton, Cardinality({a}) = 1
<1> QED
  BY <1>3, <1>4

LEMMA SectionGivesOneLock == SectionInv => OneLock
<1> SUFFICES ASSUME SectionInv PROVE OneLock
  OBVIOUS
<1>1. \A t, u \in Threads : At(t, "inside") /\ At(u, "inside") => t = u
  BY DEF SectionInv, Held, HeldBy
<1> QED
  BY <1>1, OneUser DEF OneLock

\* All threads that enter the section enter by one lock, whichever of them
\* installed it, and nobody else has that lock (__kmpc_critical).
THEOREM CriticalOneLock == CriticalSpec => []OneLock
BY SectionGivesOneLock, SectionInvariance, PTL

\* The objects that wait to be used, by a thread about to install one or in the pool,
\* are held by nobody.
Spare == /\ \A t \in Threads : ilk[t] # Null => table[ilk[t]] = NoThread
         /\ \A k \in DOMAIN pool : table[pool[k]] = NoThread
Leaving == uses \in CriticalUses /\ LeavingReleases /\ Spare

LEMMA InitLeaves == CriticalInit => Leaving
BY ClientAssumption DEF CriticalInit, Leaving, LeavingReleases, SectionHolder, Spare, At, Untagged

\* What a new object does not disturb.
LEMMA AllocateSpares ==
  ASSUME SectionInv, Leaving, NEW i \in Objects, Allocate(i), crit' = crit
  PROVE  /\ table'[i] = NoThread /\ SectionHolder' = SectionHolder
         /\ \A t \in Threads : ilk[t] # Null => table'[ilk[t]] = NoThread
         /\ \A k \in DOMAIN pool' : table'[pool'[k]] = NoThread
<1> USE DEF SectionInv
<1>1. \A j \in DOMAIN table : table'[j] = table[j]
  BY Allocated
<1>2. table'[i] = NoThread
  <2>1. CASE pool # <<>>
    BY <2>1 DEF Allocate, Leaving, Spare, SectionTypes
  <2>2. CASE pool = <<>>
    BY <2>2 DEF Allocate, SectionTypes
  <2> QED
    BY <2>1, <2>2
<1>3. SectionHolder' = SectionHolder
  BY <1>1, WordForms DEF SectionHolder
<1>4. \A t \in Threads : ilk[t] # Null => table'[ilk[t]] = NoThread
  BY <1>1 DEF SectionTypes, Leaving, Spare
<1>5. ASSUME NEW k \in DOMAIN pool' PROVE table'[pool'[k]] = NoThread
  <2>1. PICK shift \in 0 .. 1 : k + shift \in DOMAIN pool /\ pool'[k] = pool[k + shift]
    BY Allocated
  <2>2. pool[k + shift] \in DOMAIN table
    BY <2>1 DEF SectionTypes
  <2> QED
    BY <1>1, <2>1, <2>2 DEF Leaving, Spare
<1> QED
  BY <1>2, <1>3, <1>4, <1>5

LEMMA CreateLeaves == ASSUME SectionInv, Leaving, NEW t \in Threads, CreateLock(t) PROVE Leaving'
<1>1. PICK i \in Objects : Allocate(i) /\ ilk' = [ilk EXCEPT ![t] = i]
  BY DEF CreateLock
<1>2. crit' = crit /\ uses' = uses /\ pc[t] = "create" /\ pc' = [pc EXCEPT ![t] = "install"]
  BY DEF CreateLock, At, Goto
<1>3. \A u \in Threads : ilk'[u] = IF u = t THEN i ELSE ilk[u]
  BY <1>1 DEF SectionInv, SectionTypes
<1>4. \A u \in Threads : /\ pc'[u] # "wild" \/ pc[u] = "wild"
                         /\ pc'[u] = "inside" <=> pc[u] = "inside"
  BY <1>2 DEF SectionInv, SectionTypes
<1>5. SectionHolder' = SectionHolder /\ Spare'
  BY <1>1, <1>2, <1>3, AllocateSpares DEF Spare
<1> QED
  BY <1>2, <1>4, <1>5 DEF Leaving, LeavingReleases, At

\* The object that becomes the section's lock is held by nobody.
LEMMA InstallLeaves == ASSUME SectionInv, Leaving, NEW t \in Threads, InstallLock(t) PROVE Leaving'
<1> USE DEF SectionInv, InstallLock, At, Goto
<1>1. table[ilk[t]] = NoThread /\ table' = table /\ pool' = pool /\ uses' = uses
  BY DEF Leaving, Spare, Claims
<1>2. SectionHolder' = SectionHolder
  BY <1>1 DEF SectionHolder, Indirect, Untagged
<1>3. \A u \in Threads : ilk'[u] # Null => ilk'[u] = ilk[u]
  BY DEF SectionTypes
<1>4. Spare'
  BY <1>1, <1>3 DEF Leaving, Spare
<1>5. \A u \in Threads : /\ pc'[u] # "wild" \/ pc[u] = "wild"
                         /\ pc'[u] = "inside" <=> pc[u] = "inside"
  BY DEF SectionTypes
<1> QED
  BY <1>1, <1>2, <1>4, <1>5 DEF Leaving, LeavingReleases

\* A change of the section's lock leaves the objects that wait to be used.
LEMMA HolderLeaves ==
  ASSUME SectionInv, Leaving, NEW j \in {crit.object, user_lock}, NEW h \in Holders,
         table' = [table EXCEPT ![j] = h], UNCHANGED <<ilk, pool>>
  PROVE  Spare'
<1>1. j \notin {ilk[t] : t \in {u \in Threads : ilk[u] # Null}} /\ j \notin {pool[k] : k \in DOMAIN pool}
  BY DEF SectionInv, Claims
<1> QED
  BY <1>1 DEF Leaving, Spare, SectionInv, SectionTypes

LEMMA SetLeaves == ASSUME SectionInv, Leaving, NEW t \in Threads, SetCritical(t) PROVE Leaving'
<1> USE DEF SectionInv, SetCritical, At, Goto
<1>1. pc' = [pc EXCEPT ![t] = "inside"] /\ UNCHANGED <<uses, pool, user_lock, ilk>> /\ t \in Holders
  BY DEF Holders
<1>2. SectionHolder = NoThread /\ SectionHolder' = t /\ Spare'
  <2>1. CASE crit.tag = "direct" /\ crit.holder = NoThread /\ crit' = Direct(t) /\ table' = table
    BY <1>1, <2>1 DEF SectionHolder, Direct, Leaving, Spare
  <2>2. CASE /\ crit.tag = "indirect" /\ table[crit.object] = NoThread
             /\ table' = [table EXCEPT ![crit.object] = t] /\ crit' = crit
    <3>1. SectionHolder = NoThread /\ SectionHolder' = t
      BY <2>2, WordForms DEF SectionHolder, SectionTypes
    <3>2. Spare'
      BY <1>1, <2>2, HolderLeaves
    <3> QED
      BY <3>1, <3>2
  <2> QED
    BY <2>1, <2>2
<1>3. \A u \in Threads : pc[u] # "inside" /\ pc[u] # "wild"
  BY <1>2, ClientAssumption DEF Leaving, LeavingReleases
<1> QED
  BY <1>1, <1>2, <1>3 DEF Leaving, LeavingReleases, SectionTypes

\* Where default lock and hint match, the word is what the release takes it for.
LEMMA EndLeaves ==
  ASSUME \A u \in CriticalUses : Matching(u), SectionInv, Leaving, NEW t \in Threads, EndCritical(t)
  PROVE  Leaving'
<1> USE DEF SectionInv, At, Goto
<1>1. pc[t] = "inside" /\ UNCHANGED <<uses, pool, user_lock, ilk>> /\ NoThread \in Holders
  BY DEF EndCritical, Holders
<1>2. Understood
  <2>1. crit.tag \in {"direct", "indirect"}
    BY <1>1, WordForms DEF Kinds
  <2> QED
    BY <2>1 DEF Understood, Matching, DefaultSeq, HintedSeq, Kinds, Leaving
<1>3. pc' = [pc EXCEPT ![t] = "idle"]
  BY <1>2 DEF EndCritical
<1>4. SectionHolder' = NoThread /\ Spare'
  <2>1. CASE crit.tag = "direct" /\ crit' = Direct(NoThread) /\ table' = table
    BY <1>1, <2>1 DEF SectionHolder, Direct, Leaving, Spare
  <2>2. CASE crit.tag = "indirect" /\ table' = [table EXCEPT ![crit.object] = NoThread] /\ crit' = crit
    <3>1. SectionHolder' = NoThread
      BY <2>2, WordForms DEF SectionHolder, SectionTypes
    <3>2. Spare'
      BY <1>1, <2>2, HolderLeaves
    <3> QED
      BY <3>1, <3>2
  <2> QED
    BY <1>2, <2>1, <2>2 DEF EndCritical
<1>5. \A u \in Threads : pc[u] # "wild" /\ (pc[u] = "inside" => u = t)
  BY <1>1 DEF Leaving, LeavingReleases
<1> QED
  BY <1>1, <1>3, <1>4, <1>5, ClientAssumption DEF Leaving, LeavingReleases, SectionTypes

LEMMA UserLockLeaves ==
  ASSUME SectionInv, Leaving, NEW t \in Threads, SetUserLock(t) \/ UnsetUserLock(t)
  PROVE  Leaving'
<1> USE DEF SectionInv, At, Goto
<1>1. /\ user_lock \in DOMAIN table /\ user_lock # Null /\ UNCHANGED <<uses, crit, pool, ilk>>
      /\ \E h \in Holders : table' = [table EXCEPT ![user_lock] = h]
  BY DEF SetUserLock, UnsetUserLock, SectionTypes, Held, Holders
<1>2. Spare'
  BY <1>1, HolderLeaves
<1>3. SectionHolder' = SectionHolder
  BY <1>1, WordForms, NullIsNone DEF SectionHolder, Claims, SectionTypes
<1>4. \A u \in Threads : /\ pc'[u] # "wild" \/ pc[u] = "wild"
                         /\ pc'[u] = "inside" <=> pc[u] = "inside"
  BY DEF SetUserLock, UnsetUserLock, SectionTypes
<1> QED
  BY <1>1, <1>2, <1>3, <1>4 DEF Leaving, LeavingReleases

\* The steps that neither set nor leave the section, nor touch the holder of a lock.
LEMMA OthersLeave ==
  ASSUME SectionInv, Leaving, NEW t \in Threads,
         EnterCritical(t) \/ InstallTag(t) \/ InitUserLock(t) \/ DestroyUserLock(t)
  PROVE  Leaving'
<1> USE DEF SectionInv, At, Goto
<1>1. \A u \in Threads : /\ pc'[u] # "wild" \/ pc[u] = "wild"
                         /\ pc'[u] = "inside" <=> pc[u] = "inside"
  BY DEF EnterCritical, InstallTag, InitUserLock, DestroyUserLock, SectionTypes
<1>2. uses' = uses /\ ilk' = ilk
  BY DEF EnterCritical, InstallTag, InitUserLock, DestroyUserLock
<1>3. SectionHolder' = SectionHolder /\ Spare'
  <2>1. CASE EnterCritical(t)
    BY <2>1 DEF EnterCritical, SectionHolder, Leaving, Spare
  <2>2. CASE InstallTag(t)
    BY <2>2 DEF InstallTag, SectionHolder, Direct, Untagged, Leaving, Spare
  <2>3. CASE InitUserLock(t)
    <3>1. PICK i \in Objects : Allocate(i) /\ crit' = crit
      BY <2>3 DEF InitUserLock
    <3> QED
      BY <1>2, <3>1, AllocateSpares DEF Spare
  <2>4. CASE DestroyUserLock(t)
    <3>1. /\ table[user_lock] = NoThread /\ UNCHANGED <<crit, table>> /\ pool \in Seq(DOMAIN table)
          /\ pool' = <<user_lock>> \o pool /\ user_lock \in DOMAIN table
      BY <2>4 DEF DestroyUserLock, SectionTypes
    <3>2. \A k \in DOMAIN pool' : pool'[k] = user_lock \/ \E j \in DOMAIN pool : pool'[k] = pool[j]
      <4> SUFFICES ASSUME NEW k \in DOMAIN pool', k # 1 PROVE \E j \in DOMAIN pool : pool'[k] = pool[j]
        BY <3>1
      <4>1. k - 1 \in DOMAIN pool /\ pool'[k] = pool[k - 1]
        BY <3>1
      <4> QED
        BY <4>1
    <3> QED
      BY <1>2, <3>1, <3>2 DEF SectionHolder, Leaving, Spare
  <2> QED
    BY <2>1, <2>2, <2>3, <2>4
<1> QED
  BY <1>1, <1>2, <1>3 DEF Leaving, LeavingReleases

LEMMA NextLeaves ==
  ASSUME \A u \in CriticalUses : Matching(u)
  PROVE  SectionInv /\ Leaving /\ [CriticalNext]_criticalVars => Leaving'
<1> SUFFICES ASSUME SectionInv, Leaving, [CriticalNext]_criticalVars PROVE Leaving'
  OBVIOUS
<1>1. CASE UNCHANGED criticalVars
  BY <1>1 DEF criticalVars, Leaving, LeavingReleases, SectionHolder, Spare, At
<1>2. ASSUME NEW t \in Threads,
             \/ EnterCritical(t) \/ CriticalStep(t) \/ InitUserLock(t) \/ SetUserLock(t)
             \/ UnsetUserLock(t) \/ DestroyUserLock(t)
      PROVE  Leaving'
  BY <1>2, CreateLeaves, InstallLeaves, SetLeaves, EndLeaves, UserLockLeaves, OthersLeave DEF CriticalStep
<1> QED
  BY <1>1, <1>2 DEF CriticalNext

\* A section is left by the lock by which it was entered (__kmpc_end_critical), and its
\* lock is held by the thread inside and by nobody else, whenever hint and default lock
\* match; where they do not, it is not: see Understood.
THEOREM CriticalLeaves ==
  ASSUME \A u \in CriticalUses : Matching(u)
  PROVE  CriticalSpec => []LeavingReleases
<1>1. Leaving => LeavingReleases
  BY DEF Leaving
<1> QED
  BY <1>1, InitLeaves, NextLeaves, SectionInvariance, PTL DEF CriticalSpec

-----------------------------------------------------------------------------
\* The lock that the program sees.

\* The invariant of the implementation holds while that is the kind of the lock.
TicketInv == lock_kind = "ticket" => Ticket!Fair
TasInv == lock_kind \in TasKinds => Tas!IInv /\ Tas!Counts
CriticalInv == lock_kind = "critical" => SectionInv /\ Leaving

\* No call changes the kind.
LEMMA KindStays == [Next]_vars => lock_kind' = lock_kind
BY DEF Next, vars, Ticketed, Tested, Queued, Polled, Installed

\* The steps of a user lock are those of its kind, which leaves other words alone.
LEMMA TicketSteps == lock_kind = "ticket" /\ [Next]_vars => [Ticket!Next]_(Ticket!vars)
BY DEF Next, Ticketed, Tested, Queued, Polled, Installed, TasKinds,
       vars, ticketWords, Ticket!vars, Ticket!lockVars

LEMMA TasSteps == lock_kind \in TasKinds /\ [Next]_vars => [Tas!Next]_(Tas!vars)
BY DEF Next, Ticketed, Tested, Queued, Polled, Installed, TasKinds, vars, tasWords, Tas!vars

\* A ticket lock starts, and goes on, as one.
LEMMA TicketInvariance == Spec => []TicketInv
<1>1. Init => TicketInv
  <2>1. Ticket!Init => Ticket!Fair
    BY ClientAssumption, Ticket!InitSeen
  <2> QED
    BY <2>1 DEF Init, TicketInv, TasKinds
<1>2. TicketInv /\ [Next]_vars => TicketInv'
  <2>1. Ticket!Fair /\ [Ticket!Next]_(Ticket!vars) => Ticket!Fair'
    BY ClientAssumption, Ticket!FairKept
  <2> QED
    BY <2>1, TicketSteps, KindStays DEF TicketInv
<1> QED
  BY <1>1, <1>2, PTL DEF Spec

\* So does a test-and-set or futex lock.
LEMMA TasInvariance == Spec => []TasInv
<1>1. Init => TasInv
  <2>1. Tas!Init => Tas!IInv /\ Tas!Counts
    BY ClientAssumption, Tas!InitEstablishes, Tas!InitSeen
  <2> QED
    BY <2>1 DEF Init, TasInv, TasKinds
<1>2. TasInv /\ [Next]_vars => TasInv'
  <2>1. Tas!IInv /\ Tas!Counts /\ [Tas!Next]_(Tas!vars) => Tas!IInv' /\ Tas!Counts'
    BY ClientAssumption, Tas!NextKeepsOwned, Tas!NextKeepsSleepers, Tas!CountsKept DEF Tas!IInv
  <2> QED
    BY <2>1, TasSteps, KindStays DEF TasInv
<1> QED
  BY <1>1, <1>2, PTL DEF Spec

\* So does the lock of a critical section, where default lock and hint match.
LEMMA CriticalInvariance ==
  ASSUME \A u \in CriticalUses : Matching(u)
  PROVE  Spec => []CriticalInv
<1>1. Init => CriticalInv
  <2>1. CriticalInit => SectionInv /\ Leaving
    BY ClientAssumption, SectionBegins, InitLeaves
  <2> QED
    BY <2>1 DEF Init, CriticalInv, TasKinds
<1>2. CriticalInv /\ [Next]_vars => CriticalInv'
  <2> SUFFICES ASSUME CriticalInv, [Next]_vars, lock_kind = "critical"
               PROVE  SectionInv' /\ Leaving'
    BY KindStays DEF CriticalInv
  <2>1. SectionInv /\ [CriticalNext]_criticalVars => SectionInv'
    BY ClientAssumption, SectionKept
  <2>2. SectionInv /\ Leaving /\ [CriticalNext]_criticalVars => Leaving'
    BY ClientAssumption, NextLeaves
  <2>3. CASE Next
    BY <2>1, <2>2, <2>3 DEF Next, CriticalInv, Ticketed, Tested, Queued, Polled, Installed, TasKinds
  <2>4. CASE UNCHANGED vars
    BY <2>1, <2>2, <2>4 DEF CriticalInv, vars, criticalWords, criticalVars
  <2> QED
    BY <2>3, <2>4
<1> QED
  BY <1>1, <1>2, PTL DEF Spec

\* A user lock of the ticket kind excludes, never fails a lawful program, and
\* counts its nest depth right.
THEOREM UserTicket == Spec => []TicketSound
<1>1. TicketInv => TicketSound
  BY DEF TicketInv, TicketSound, Ticket!Fair, Ticket!IInv, Ticket!Tickets, Ticket!Ownership,
         Ticket!Owner, Ticket!Depth, Ticket!Settled, Ticket!NoSpuriousFatal, Ticket!DepthIsHeld
<1> QED
  BY <1>1, TicketInvariance, PTL

\* A user lock of the test-and-set or futex kind names its holder and forgets no
\* sleeper.
THEOREM UserTas == Spec => []TasSound
<1>1. TasInv => TasSound
  BY DEF TasInv, TasSound, Tas!IInv, Tas!Owned
<1> QED
  BY <1>1, TasInvariance, PTL

\* The threads that come to a critical section share one lock, whichever of them
\* installed it, its object has no other user, and it is released when the section
\* is left, where default lock and hint match.
THEOREM UserCritical ==
  ASSUME \A u \in CriticalUses : Matching(u)
  PROVE  Spec => []CriticalSound
<1>1. CriticalInv => CriticalSound
  <2>1. SectionInv => OneLock
    BY ClientAssumption, SectionGivesOneLock
  <2> QED
    BY <2>1 DEF CriticalInv, CriticalSound, Leaving
<1> QED
  BY <1>1, CriticalInvariance, PTL

\* A user lock of the ticket kind serves its waiters in the order in which they joined,
\* and each of its steps is one of FifoLock.
THEOREM UserTicketIsFifo == Spec => TicketIsFifo
<1>1. Init /\ lock_kind = "ticket" => Ticket!F!Init
  <2>1. Ticket!Init => Ticket!F!Init
    BY ClientAssumption, Ticket!InitSeen
  <2> QED
    BY <2>1 DEF Init, TasKinds
<1>2. TicketInv /\ TicketInv' /\ [Next]_vars =>
        [lock_kind = "ticket" => UNCHANGED Ticket!F!vars \/ Ticket!F!Next]_vars
  <2>1. Ticket!Fair /\ Ticket!Fair' /\ [Ticket!Next]_(Ticket!vars)
          => [Ticket!F!Next]_(Ticket!F!vars)
    BY ClientAssumption, Ticket!StepSeen
  <2> QED
    BY <2>1, TicketSteps, KindStays DEF TicketInv
<1> QED
  BY <1>1, <1>2, TicketInvariance, PTL DEF Spec, TicketIsFifo

\* A user lock of the test-and-set or futex kind has one holder at a time, and each of
\* its steps is one of MutexLock.
THEOREM UserTasIsMutex == Spec => TasIsMutex
<1>1. Init /\ lock_kind \in TasKinds => Tas!M!Init
  <2>1. Tas!Init => Tas!M!Init
    BY ClientAssumption, Tas!InitSeen
  <2> QED
    BY <2>1 DEF Init, TasKinds
<1>2. TasInv /\ TasInv' /\ [Next]_vars =>
        [(lock_kind \in TasKinds) => UNCHANGED Tas!M!vars \/ Tas!M!Next]_vars
  <2>1. Tas!Owned /\ Tas!Owned' /\ Tas!Counts /\ [Tas!Next]_(Tas!vars) => [Tas!M!Next]_(Tas!M!vars)
    BY ClientAssumption, Tas!StepSeen
  <2> QED
    BY <2>1, TasSteps, KindStays DEF TasInv, Tas!IInv
<1> QED
  BY <1>1, <1>2, TasInvariance, PTL DEF Spec, TasIsMutex
=============================================================================
