--------------------------- MODULE TaskDepsProofs ---------------------------
(***************************************************************************)
(* Task dependences, for any programs and threads: a task is queued once,  *)
(* when all that it depends on has ended (DepOrder), and a node has as     *)
(* many references as it counts.                                           *)
(***************************************************************************)
EXTENDS TaskDeps, TLAPS, FiniteSetTheorems

Started == {n \in Members : state[n] \in {"running", "ran"}}
Ended == {n \in Members : state[n] = "ran"}
Before(n) == Order!Before(n)

\* The addresses a member names, and those it writes; where it is with them.
Uses(n, a) == \E i \in DOMAIN program[n].deps : program[n].deps[i].addr = a
Writes(n, a) == \E i \in DOMAIN program[n].deps :
                  program[n].deps[i].addr = a /\ program[n].deps[i].out
Conflicts(k, n, a) == Uses(k, a) /\ Uses(n, a) /\ (Writes(k, a) \/ Writes(n, a))
IsEntered(n, a) == /\ Uses(n, a) /\ n <= at
                   /\ n = at /\ cpc = "process" => \E i \in 1..(dep - 1) : Deps(n)[i].addr = a
IsReached(n, a) == /\ Uses(n, a) /\ n <= at
                   /\ n = at /\ cpc = "process" =>
                        \E i \in 1..dep : i <= Len(Deps(n)) /\ Deps(n)[i].addr = a

\* What has ended when p has.
Below(p) == {p} \cup Before(p) \cup UNION {Before(w) : w \in Before(p)}

Linking(n) == n = at /\ cpc \in {"process", "account"}
WaitOn == cpc \in {"process", "account", "wait"} /\ ~program[at].task

\* The lists of the nodes, those that threads are releasing, and what of these is
\* not yet counted down.
Succs == [m \in Members |-> node[m].successors]
Helds == [t \in DepThreads |-> exec[t].succs]
Lefts == [t \in DepThreads |->
            IF exec[t].pc \in {"offer", "drop"} THEN Tail(exec[t].succs) ELSE exec[t].succs]
Total(d, n) == Cardinality(Places(d, n))
Open(n) == Total(Succs, n) + Total(Lefts, n)
-----------------------------------------------------------------------------
Node == [task : BOOLEAN, npredecessors : Int, successors : Seq(Members), nrefs : Int,
         mem : {"none", "heap", "freed", "frame", "gone"}]
Exec == [pc : {"idle", "body", "mark", "release", "offer", "drop"},
         task : Members \cup {None}, succs : Seq(Members)]
Types ==
  /\ program \in DepPrograms
  /\ node \in [Members -> Node]
  /\ hash \in [Addresses -> [last_out : Members \cup {None}, last_ins : Seq(Members)]]
  /\ queued \in [Members -> Nat]
  /\ state \in [Members -> {"new", "created", "running", "ran"}]
  /\ at \in 0..Len(program) /\ dep \in Nat \ {0} /\ found \in Nat /\ todo \in Seq(Members)
  /\ cpc \in {"next", "process", "account", "queue", "wait", "end"}
  /\ exec \in [DepThreads -> Exec]

\* Where the creator is.
Place ==
  /\ cpc \in {"process", "account", "queue", "wait"} => at \in Members /\ state[at] = "created"
  /\ cpc \in {"process", "account", "wait"} => program[at].deps # <<>>
  /\ cpc = "wait" => ~program[at].task
  /\ cpc = "queue" => program[at].task
  /\ cpc = "process" => dep <= Len(Deps(at)) + 1 /\ (dep > Len(Deps(at)) => todo = <<>>)
  /\ cpc # "process" => todo = <<>>
  /\ cpc = "end" => at = Len(program)
  /\ \A p \in Range(todo) : p < at /\ program[p].task /\ program[p].deps # <<>>

\* The nodes of the members the creator has come to, and of the others.
Nodes == \A n \in Members :
  /\ n > at <=> state[n] = "new"
  /\ n > at => queued[n] = 0
  /\ n > at \/ program[n].deps = <<>> =>
       node[n].mem = "none" /\ ~node[n].task /\ node[n].npredecessors = 0 /\ node[n].nrefs = 0
  /\ n <= at /\ program[n].deps # <<>> =>
       /\ node[n].mem \in IF program[n].task THEN {"heap", "freed"} ELSE {"frame", "gone"}
       /\ program[n].task => (~node[n].task => state[n] = "ran" \/ (n = at /\ cpc = "process"))
  /\ n <= at /\ ~program[n].task => state[n] = "ran" \/ (n = at /\ WaitOn)
  /\ node[n].task => program[n].task /\ ~(n = at /\ cpc = "process")
  /\ ~node[n].task => node[n].successors = <<>>

\* What the threads do.
Runs ==
  /\ \A t \in DepThreads :
       /\ exec[t].pc = "idle" => exec[t] = Idle
       /\ exec[t].pc # "idle" => exec[t].task \in Members
       /\ exec[t].pc = "body" => state[exec[t].task] = "running"
       /\ exec[t].pc \notin {"idle", "body"} => state[exec[t].task] = "ran" /\ node[exec[t].task].mem # "none"
       /\ exec[t].pc # "idle" => program[exec[t].task].task
       /\ exec[t].pc \in {"body", "mark"} => exec[t].succs = <<>>
       /\ exec[t].pc \in {"offer", "drop"} => exec[t].succs # <<>>
  /\ \A t, u \in DepThreads : exec[t].task = exec[u].task => t = u \/ exec[t].task = None

\* A count of predecessors is that of the links not yet counted down; the creator has
\* yet to add those it found.
Counted == \A n \in Members :
  /\ node[n].npredecessors = Open(n) - IF Linking(n) THEN found + 1 ELSE 0
  /\ Linking(n) => Open(n) <= found

\* A node counts its references.
Own(n) == IF node[n].mem = "none" THEN 0
          ELSE IF ~program[n].task \/ state[n] # "ran" \/ (\E t \in DepThreads : exec[t].task = n)
          THEN 1 ELSE 0
Referred == \A n \in Members :
  /\ node[n].nrefs = Total(Entries, n) + Total(Succs, n) + Total(Helds, n) + Own(n)
  /\ node[n].mem = "heap" => node[n].nrefs > 0
  /\ node[n].mem = "freed" => node[n].nrefs = 0

\* Whoever is to queue a task, or has started it, is alone, and has nothing to wait for.
Offers(t, n) == exec[t].pc = "offer" /\ Head(exec[t].succs) = n
ToQueue(n) == cpc = "queue" /\ at = n
Due(n) == ToQueue(n) \/ queued[n] > 0 \/ n \in Started \/ \E t \in DepThreads : Offers(t, n)
Once == \A n \in Members :
  /\ Due(n) => n <= at /\ ~Linking(n) /\ Open(n) = 0
  /\ queued[n] <= 1 /\ (queued[n] > 0 => program[n].task)
  /\ queued[n] > 0 => n \notin Started /\ ~ToQueue(n) /\ \A t \in DepThreads : ~Offers(t, n)
  /\ program[n].task /\ n \in Started => ~ToQueue(n) /\ \A t \in DepThreads : ~Offers(t, n)
  /\ ToQueue(n) => \A t \in DepThreads : ~Offers(t, n)
  /\ \A t, u \in DepThreads : Offers(t, n) /\ Offers(u, n) => t = u

\* The hash knows all that has not ended: the last writer, what is behind it, and the
\* readers since; or a wait that is under way does.
Known(k, a) ==
  \/ k \in Ended
  \/ k = hash[a].last_out \/ k \in Range(hash[a].last_ins)
  \/ hash[a].last_out # None /\ k < hash[a].last_out
  \/ WaitOn /\ IsEntered(at, a) /\ k \in Below(at)
Hash == cpc # "end" => \A a \in Addresses :
  /\ \A r \in Range(hash[a].last_ins) :
       program[r].task /\ IsEntered(r, a) /\ ~Writes(r, a) /\ hash[a].last_out < r
  /\ hash[a].last_out # None =>
       /\ program[hash[a].last_out].task /\ IsEntered(hash[a].last_out, a)
       /\ Writes(hash[a].last_out, a)
  /\ \A k \in Members : IsEntered(k, a) => Known(k, a)

\* What a member depends on has ended, or is below a node it is linked to, or will be.
Behind(n, p) == n \in Range(node[p].successors) \/ (n = at /\ p \in Range(todo))
Covered == \A n \in Members, a \in Addresses : IsReached(n, a) =>
  \A k \in 1..(n - 1) : Conflicts(k, n, a) =>
    k \in Ended \/ \E p \in Members : Behind(n, p) /\ k \in Below(p)
Ordered == \A n \in Started : Before(n) \subseteq Ended

IInv == /\ Types /\ Place /\ Nodes /\ Runs /\ Counted /\ Referred /\ Once
        /\ Hash /\ Covered /\ Ordered
-----------------------------------------------------------------------------
(* Lemmas about lists. *)

Positions(s, n) == {i \in DOMAIN s : s[i] = n}
One(x, n) == IF x = n THEN 1 ELSE 0

LEMMA CountType ==
  ASSUME NEW S, NEW s \in Seq(S), NEW n
  PROVE  IsFiniteSet(Positions(s, n)) /\ Count(s, n) = Cardinality(Positions(s, n)) /\ Count(s, n) \in Nat
<1>1. IsFiniteSet(1 .. Len(s)) /\ Positions(s, n) \subseteq 1 .. Len(s)
  BY FS_Interval DEF Positions
<1>2. IsFiniteSet(Positions(s, n))
  BY <1>1, FS_Subset
<1> QED
  BY <1>2, FS_CardinalityType DEF Count, Positions

LEMMA CountNone ==
  ASSUME NEW S, NEW s \in Seq(S), NEW n
  PROVE  /\ Count(s, n) = 0 <=> n \notin Range(s)
         /\ s = <<>> => Count(s, n) = 0
<1>1. Count(s, n) = 0 <=> Positions(s, n) = {}
  BY CountType, FS_EmptySet
<1> QED
  BY <1>1 DEF Positions, Range

\* The two parts of a concatenation are counted one by one.
LEMMA CountCat ==
  ASSUME NEW S, NEW s \in Seq(S), NEW r \in Seq(S), NEW n
  PROVE  s \o r \in Seq(S) /\ Count(s \o r, n) = Count(s, n) + Count(r, n)
<1> DEFINE P == Positions(s, n)
           R == Positions(r, n)
           Q == {i \in Len(s) + 1 .. Len(s) + Len(r) : r[i - Len(s)] = n}
           f == [i \in R |-> i + Len(s)]
<1>1. /\ s \o r \in Seq(S) /\ DOMAIN (s \o r) = 1 .. Len(s) + Len(r)
      /\ Len(s) \in Nat /\ Len(r) \in Nat /\ DOMAIN s = 1 .. Len(s) /\ DOMAIN r = 1 .. Len(r)
      /\ \A i \in 1 .. Len(s) : (s \o r)[i] = s[i]
      /\ \A i \in Len(s) + 1 .. Len(s) + Len(r) : (s \o r)[i] = r[i - Len(s)]
  OBVIOUS
<1>2. Positions(s \o r, n) = P \cup Q /\ P \cap Q = {}
  BY <1>1 DEF Positions
<1>3. f \in Bijection(R, Q)
  <2>1. \A i \in R : i \in Int /\ f[i] = i + Len(s) /\ f[i] \in Q
    BY <1>1 DEF Positions
  <2>2. \A i \in Q : i - Len(s) \in R /\ f[i - Len(s)] = i
    BY <1>1 DEF Positions
  <2>3. \A i, j \in R : f[i] = f[j] => i = j
    BY <1>1, <2>1
  <2>4. f \in [R -> Q]
    BY <2>1
  <2> HIDE DEF f, R, Q
  <2> QED
    BY <2>2, <2>3, <2>4 DEF Bijection, Injection, Surjection, IsInjective
<1>4. IsFiniteSet(P) /\ IsFiniteSet(R)
  BY CountType
<1>5. IsFiniteSet(Q) /\ Cardinality(Q) = Cardinality(R)
  BY <1>3, <1>4, FS_Bijection DEF ExistsBijection
<1>6. Cardinality(P \cup Q) = Cardinality(P) + Cardinality(Q)
  <2> HIDE DEF P, Q
  <2>1. Cardinality(P \cup Q) = Cardinality(P) + Cardinality(Q) - Cardinality(P \cap Q)
    BY <1>4, <1>5, FS_Union
  <2>2. Cardinality(P \cap Q) = 0
    BY <1>2, FS_EmptySet
  <2>3. Cardinality(P) \in Nat /\ Cardinality(Q) \in Nat
    BY <1>4, <1>5, FS_CardinalityType
  <2> QED
    BY <2>1, <2>2, <2>3
<1>7. /\ Count(s \o r, n) = Cardinality(Positions(s \o r, n))
      /\ Count(s, n) = Cardinality(P) /\ Count(r, n) = Cardinality(R)
  BY <1>1, CountType
<1> HIDE DEF P, Q, R
<1> QED
  BY <1>1, <1>2, <1>5, <1>6, <1>7

LEMMA CountOne ==
  ASSUME NEW S, NEW x \in S, NEW n
  PROVE  <<x>> \in Seq(S) /\ Count(<<x>>, n) = One(x, n)
<1>1. Positions(<<x>>, n) = IF x = n THEN {1} ELSE {}
  BY DEF Positions
<1>2. Cardinality(Positions(<<x>>, n)) = One(x, n)
  <2>1. Cardinality({1}) = 1 /\ Cardinality({}) = 0
    BY FS_Singleton, FS_EmptySet
  <2> QED
    BY <1>1, <2>1 DEF One
<1>3. <<x>> \in Seq(S)
  OBVIOUS
<1>4. Count(<<x>>, n) = Cardinality(Positions(<<x>>, n))
  BY <1>3, CountType
<1> QED
  BY <1>2, <1>3, <1>4

LEMMA CountTail ==
  ASSUME NEW S, NEW s \in Seq(S), s # <<>>, NEW n
  PROVE  /\ Tail(s) \in Seq(S) /\ Head(s) \in S /\ Head(s) \in Range(s)
         /\ Count(s, n) = Count(Tail(s), n) + One(Head(s), n)
<1> DEFINE h == <<Head(s)>>
           r == Tail(s)
<1>1. r \in Seq(S) /\ Head(s) \in S /\ s = h \o r /\ 1 \in DOMAIN s /\ s[1] = Head(s)
  OBVIOUS
<1>2. h \in Seq(S) /\ Count(h, n) = One(Head(s), n)
  BY <1>1, CountOne
<1> HIDE DEF h, r
<1>3. Count(s, n) = Count(h, n) + Count(r, n)
  BY <1>1, <1>2, CountCat
<1>4. Count(r, n) \in Nat /\ One(Head(s), n) \in Nat
  BY <1>1, CountType DEF One
<1> QED
  BY <1>1, <1>2, <1>3, <1>4 DEF Range, r

\* Lists by key, and what becomes of the total when one of them changes.
Lists(d, K, S) == DOMAIN d = K /\ \A j \in K : d[j] \in Seq(S)

LEMMA TotalType ==
  ASSUME NEW S, NEW K, IsFiniteSet(K), NEW d, Lists(d, K, S), NEW n
  PROVE  /\ IsFiniteSet(Places(d, n)) /\ Total(d, n) \in Nat
         /\ Total(d, n) = 0 => \A k \in K : n \notin Range(d[k])
         /\ (\A k \in K : n \notin Range(d[k])) => Total(d, n) = 0
<1> DEFINE At(k) == {k} \X Positions(d[k], n)
           f == [k \in K |-> At(k)]
           All == {At(k) : k \in K}
<1>1. Places(d, n) = UNION All
  BY DEF Places, Lists, Positions
<1>2. IsFiniteSet(All)
  <2>1. f \in Surjection(K, All)
    BY DEF Surjection
  <2> QED
    BY <2>1, FS_Surjection
<1>3. \A T \in All : IsFiniteSet(T)
  <2> SUFFICES ASSUME NEW k \in K PROVE IsFiniteSet(At(k))
    OBVIOUS
  <2>1. IsFiniteSet({k}) /\ IsFiniteSet(Positions(d[k], n))
    BY FS_Singleton, CountType DEF Lists
  <2> QED
    BY <2>1, FS_Product
<1>4. IsFiniteSet(Places(d, n))
  <2> HIDE DEF All
  <2> QED
    BY <1>1, <1>2, <1>3, FS_UNION
<1>5. Places(d, n) = {} <=> \A k \in K : n \notin Range(d[k])
  <2>1. \A k \in K : Positions(d[k], n) = {} <=> n \notin Range(d[k])
    BY DEF Positions, Range
  <2>2. Places(d, n) = {} <=> \A k \in K : Positions(d[k], n) = {}
    <3>1. ASSUME NEW k \in K, NEW i \in Positions(d[k], n) PROVE <<k, i>> \in UNION All
      BY <3>1
    <3>2. ASSUME NEW x \in UNION All PROVE \E k \in K : Positions(d[k], n) # {}
      BY <3>2
    <3> HIDE DEF All
    <3> QED
      BY <1>1, <3>1, <3>2
  <2> QED
    BY <2>1, <2>2
<1> QED
  BY <1>4, <1>5, FS_CardinalityType, FS_EmptySet DEF Total

LEMMA TotalChanges ==
  ASSUME NEW S, NEW K, IsFiniteSet(K), NEW d, NEW e, Lists(d, K, S), Lists(e, K, S),
         NEW k \in K, \A j \in K \ {k} : e[j] = d[j], NEW n
  PROVE  Total(e, n) = Total(d, n) + Count(e[k], n) - Count(d[k], n)
<1> DEFINE Rest == UNION {{j} \X Positions(d[j], n) : j \in K \ {k}}
           D == {k} \X Positions(d[k], n)
           E == {k} \X Positions(e[k], n)
<1>1. Places(d, n) = Rest \cup D /\ Rest \cap D = {}
  BY DEF Places, Positions, Lists
<1>2. Places(e, n) = Rest \cup E /\ Rest \cap E = {}
  BY DEF Places, Positions, Lists
<1>3. IsFiniteSet(Places(d, n)) /\ IsFiniteSet(Places(e, n))
  BY TotalType
<1>4. IsFiniteSet(Rest) /\ IsFiniteSet(D) /\ IsFiniteSet(E)
  <2> HIDE DEF Rest, D, E
  <2> QED
    BY <1>1, <1>2, <1>3, FS_Subset
<1>5. Cardinality(D) = Count(d[k], n) /\ Cardinality(E) = Count(e[k], n)
  <2>1. /\ IsFiniteSet({k}) /\ Cardinality({k}) = 1
        /\ IsFiniteSet(Positions(d[k], n)) /\ Count(d[k], n) = Cardinality(Positions(d[k], n))
        /\ IsFiniteSet(Positions(e[k], n)) /\ Count(e[k], n) = Cardinality(Positions(e[k], n))
        /\ Count(d[k], n) \in Nat /\ Count(e[k], n) \in Nat
    BY FS_Singleton, CountType DEF Lists
  <2>2. /\ Cardinality(D) = Cardinality({k}) * Cardinality(Positions(d[k], n))
        /\ Cardinality(E) = Cardinality({k}) * Cardinality(Positions(e[k], n))
    BY <2>1, FS_Product
  <2> QED
    BY <2>1, <2>2
<1> HIDE DEF Rest, D, E
<1>6. /\ Cardinality(Rest \cup D) = Cardinality(Rest) + Cardinality(D)
      /\ Cardinality(Rest \cup E) = Cardinality(Rest) + Cardinality(E)
      /\ Cardinality(Rest) \in Nat /\ Cardinality(D) \in Nat /\ Cardinality(E) \in Nat
  <2>1. Cardinality(Rest) \in Nat /\ Cardinality(D) \in Nat /\ Cardinality(E) \in Nat
    BY <1>4, FS_CardinalityType
  <2>2. /\ Cardinality(Rest \cup D) = Cardinality(Rest) + Cardinality(D) - Cardinality(Rest \cap D)
        /\ Cardinality(Rest \cup E) = Cardinality(Rest) + Cardinality(E) - Cardinality(Rest \cap E)
    BY <1>4, FS_Union
  <2>3. Cardinality(Rest \cap D) = 0 /\ Cardinality(Rest \cap E) = 0
    BY <1>1, <1>2, FS_EmptySet
  <2> QED
    BY <2>1, <2>2, <2>3
<1> QED
  BY <1>1, <1>2, <1>5, <1>6 DEF Total

-----------------------------------------------------------------------------
(* Lemmas about programs. *)

LEMMA Basics ==
  ASSUME Types
  PROVE  /\ Len(program) \in Nat /\ Members = 1 .. Len(program) /\ None \notin Members
         /\ IsFiniteSet(Members) /\ IsFiniteSet(Addresses) /\ IsFiniteSet(DepThreads)
         /\ Addresses \subseteq Nat /\ Void \notin Addresses
         /\ \A n \in Members : /\ program[n].deps \in Seq(Dependence)
                               /\ program[n].task \in BOOLEAN
                               /\ \A a : Uses(n, a) => a \in Addresses
         /\ Creator \in DepThreads
<1>1. program \in Seq([task : BOOLEAN, deps : Seq(Dependence)]) /\ IsFiniteSet(DepThreads)
      /\ Creator \in DepThreads
  BY DepAssumption DEF Types
<1>2. /\ Len(program) \in Nat /\ Members = 1 .. Len(program) /\ None \notin Members
      /\ \A n \in Members : program[n] \in [task : BOOLEAN, deps : Seq(Dependence)]
  <2> DEFINE T == [task : BOOLEAN, deps : Seq(Dependence)]
  <2>1. program \in Seq(T)
    BY <1>1
  <2> HIDE DEF T
  <2>2. Len(program) \in Nat /\ DOMAIN program = 1 .. Len(program)
    BY <2>1
  <2>3. \A n \in 1 .. Len(program) : program[n] \in T
    BY <2>1
  <2>4. 0 \notin 1 .. Len(program)
    BY <2>2
  <2> QED
    BY <2>2, <2>3, <2>4 DEF Members, None, T
<1>3. \A n \in Members : program[n].deps \in Seq(Dependence) /\ program[n].task \in BOOLEAN
  BY <1>2
<1>4. IsFiniteSet(Members)
  BY <1>2, FS_Interval
<1> DEFINE Named(n) == {program[n].deps[i].addr : i \in DOMAIN program[n].deps}
           All == {Named(n) : n \in Members}
<1>5. \A n \in Members : IsFiniteSet(Named(n)) /\ Named(n) \subseteq Nat \ {0}
  <2> SUFFICES ASSUME NEW n \in Members PROVE IsFiniteSet(Named(n)) /\ Named(n) \subseteq Nat \ {0}
    OBVIOUS
  <2> DEFINE D == DOMAIN program[n].deps
             f == [i \in D |-> program[n].deps[i].addr]
  <2>1. D = 1 .. Len(program[n].deps) /\ Len(program[n].deps) \in Nat
        /\ \A i \in D : program[n].deps[i] \in Dependence
    BY <1>3
  <2>2. IsFiniteSet(D)
    BY <2>1, FS_Interval
  <2>3. f \in Surjection(D, Named(n))
    BY DEF Surjection
  <2>4. IsFiniteSet(Named(n))
    <3> HIDE DEF D, f, Named
    <3> QED
      BY <2>2, <2>3, FS_Surjection
  <2> QED
    BY <2>1, <2>4 DEF Dependence
<1>6. IsFiniteSet(All)
  <2> DEFINE f == [n \in Members |-> Named(n)]
  <2>1. f \in Surjection(Members, All)
    BY DEF Surjection
  <2> HIDE DEF f, All
  <2> QED
    BY <1>4, <2>1, FS_Surjection
<1>7. Addresses = UNION All
  BY DEF Addresses
<1>8. IsFiniteSet(UNION All)
  BY <1>5, <1>6, FS_UNION
<1>9. Addresses \subseteq Nat /\ Void \notin Addresses
  BY <1>5, <1>7 DEF Void
<1>10. \A n \in Members : \A a : Uses(n, a) => a \in Addresses
  BY DEF Uses, Addresses
<1> QED
  BY <1>1, <1>2, <1>3, <1>4, <1>7, <1>8, <1>9, <1>10

\* A number that has a property has a least one below it that has.
LEMMA LeastNumber ==
  ASSUME NEW S \in SUBSET Nat, S # {}
  PROVE  \E n \in S : \A m \in S : n <= m
<1>1. PICK z \in S : TRUE
  OBVIOUS
<1> DEFINE Z == 0 .. z
           Segments == {0 .. n : n \in {m \in S : m <= z}}
<1>2. IsWellFoundedOn(StrictSubsetOrdering(Z), SUBSET Z)
  <2>1. IsFiniteSet(Z)
    BY FS_Interval
  <2> QED
    BY <2>1, FS_StrictSubsetOrderingWellFounded, FS_FiniteSubsetsOfFinite
<1>3. Segments \subseteq SUBSET Z /\ Segments # {}
  BY <1>1
<1>4. PICK X \in Segments : \A Y \in Segments : ~ (<<Y, X>> \in StrictSubsetOrdering(Z))
  <2> HIDE DEF Segments, Z
  <2> QED
    BY <1>2, <1>3, WFMin
<1>5. \A Y \in Segments : Y \subseteq X => Y = X
  BY <1>3, <1>4 DEF StrictSubsetOrdering
<1>6. PICK n \in S : n <= z /\ X = 0 .. n
  OBVIOUS
<1>7. ASSUME NEW m \in S, m < n
      PROVE  FALSE
  <2>1. 0 .. m \in Segments /\ 0 .. m \subseteq X
    BY <1>6, <1>7
  <2>2. n \in X /\ n \notin 0 .. m
    BY <1>6, <1>7
  <2> QED
    BY <2>1, <2>2, <1>5
<1> QED
  BY <1>7

\* __kmp_check_deps leaves one entry for each address, which writes if one of them did.
LEMMA DepsAre ==
  ASSUME Types, NEW n \in Members
  PROVE  /\ Len(Deps(n)) \in Nat /\ DOMAIN Deps(n) = 1 .. Len(Deps(n))
         /\ Len(Deps(n)) = Len(program[n].deps)
         /\ \A i \in 1 .. Len(Deps(n)) :
              /\ Deps(n)[i].out \in BOOLEAN
              /\ Deps(n)[i].addr # Void =>
                   /\ Deps(n)[i].addr \in Addresses /\ Uses(n, Deps(n)[i].addr)
                   /\ Deps(n)[i].out <=> Writes(n, Deps(n)[i].addr)
                   /\ \A j \in 1 .. Len(Deps(n)) : Deps(n)[j].addr = Deps(n)[i].addr => j = i
         /\ \A a : Uses(n, a) => \E i \in 1 .. Len(Deps(n)) : Deps(n)[i].addr = a
<1> DEFINE deps == program[n].deps
           first(i) == ~\E j \in 1 .. (i - 1) : deps[j].addr = deps[i].addr
<1>1. deps \in Seq(Dependence)
  BY Basics
<1>2. /\ Len(deps) \in Nat /\ DOMAIN deps = 1 .. Len(deps)
      /\ \A i \in 1 .. Len(deps) : deps[i].addr \in Nat \ {0} /\ deps[i].out \in BOOLEAN
  <2> HIDE DEF deps
  <2>1. Len(deps) \in Nat /\ DOMAIN deps = 1 .. Len(deps) /\ \A i \in 1 .. Len(deps) : deps[i] \in Dependence
    BY <1>1
  <2> QED
    BY <2>1 DEF Dependence
<1>3. /\ DOMAIN Deps(n) = 1 .. Len(deps)
      /\ \A i \in 1 .. Len(deps) :
           /\ Deps(n)[i].addr = IF first(i) THEN deps[i].addr ELSE Void
           /\ Deps(n)[i].out = \E j \in 1 .. Len(deps) : deps[j].addr = deps[i].addr /\ deps[j].out
  BY <1>2 DEF Deps, Filtered
<1>4. Len(Deps(n)) = Len(deps)
  BY <1>2, <1>3 DEF Deps, Filtered
<1>5. ASSUME NEW i \in 1 .. Len(deps), Deps(n)[i].addr # Void
      PROVE  /\ Deps(n)[i].addr = deps[i].addr /\ first(i) /\ Uses(n, Deps(n)[i].addr)
             /\ Deps(n)[i].out <=> Writes(n, Deps(n)[i].addr)
  <2>1. Deps(n)[i].addr = deps[i].addr /\ first(i)
    BY <1>3, <1>5
  <2>2. Uses(n, deps[i].addr)
    BY <1>2 DEF Uses
  <2>3. Writes(n, deps[i].addr) <=> \E j \in 1 .. Len(deps) : deps[j].addr = deps[i].addr /\ deps[j].out
    BY <1>2 DEF Writes
  <2> QED
    BY <1>3, <2>1, <2>2, <2>3
<1>6. ASSUME NEW i \in 1 .. Len(deps), NEW j \in 1 .. Len(deps),
             Deps(n)[i].addr # Void, Deps(n)[j].addr = Deps(n)[i].addr
      PROVE  j = i
  <2>1. first(i) /\ first(j) /\ deps[i].addr = deps[j].addr
    BY <1>5, <1>6
  <2>2. i \in Int /\ j \in Int /\ i >= 1 /\ j >= 1
    OBVIOUS
  <2> QED
    BY <2>1, <2>2
<1>7. ASSUME NEW a, Uses(n, a)
      PROVE  \E i \in 1 .. Len(deps) : Deps(n)[i].addr = a
  <2> DEFINE S == {i \in 1 .. Len(deps) : deps[i].addr = a}
  <2>1. S \in SUBSET Nat /\ S # {}
    BY <1>2, <1>7 DEF Uses
  <2>2. PICK i \in S : \A m \in S : i <= m
    BY <2>1, LeastNumber
  <2>3. \A j \in 1 .. (i - 1) : j \in 1 .. Len(deps) /\ ~(i <= j)
    BY <1>2, <2>2
  <2>4. first(i)
    BY <2>2, <2>3
  <2> QED
    BY <1>3, <2>2, <2>4
<1>8. \A i \in 1 .. Len(deps) : Deps(n)[i].out \in BOOLEAN
  BY <1>3
<1>9. \A i \in 1 .. Len(deps) : Deps(n)[i].addr # Void => Deps(n)[i].addr \in Addresses
  BY <1>5, Basics
<1> HIDE DEF deps, first
<1> QED
  BY <1>2, <1>3, <1>4, <1>5, <1>6, <1>7, <1>8, <1>9 DEF deps

LEMMA BeforeIs ==
  ASSUME Types, NEW n \in Members
  PROVE  /\ \A k : k \in Before(n) <=> /\ k \in 1 .. (n - 1)
                                       /\ \E a \in Addresses : Conflicts(k, n, a)
         /\ Before(n) \subseteq Members
         /\ program[n].deps = <<>> => Before(n) = {}
<1>1. n \in Int /\ 1 .. (n - 1) \subseteq Members
  BY Basics
<1>2. ASSUME NEW k \in 1 .. (n - 1)
      PROVE  Order!Conflict(program[k], program[n]) <=> \E a \in Addresses : Conflicts(k, n, a)
  <2>1. ASSUME Order!Conflict(program[k], program[n])
        PROVE  \E a \in Addresses : Conflicts(k, n, a)
    <3>1. PICK i \in DOMAIN program[k].deps, j \in DOMAIN program[n].deps :
            /\ program[k].deps[i].addr = program[n].deps[j].addr
            /\ program[k].deps[i].out \/ program[n].deps[j].out
      BY <2>1 DEF Order!Conflict
    <3>2. Conflicts(k, n, program[n].deps[j].addr)
      BY <3>1 DEF Conflicts, Uses, Writes
    <3> QED
      BY <3>2, Basics DEF Conflicts
  <2>2. ASSUME NEW a \in Addresses, Conflicts(k, n, a)
        PROVE  Order!Conflict(program[k], program[n])
    BY <2>2 DEF Conflicts, Uses, Writes, Order!Conflict
  <2> QED
    BY <2>1, <2>2
<1>3. Before(n) = {k \in 1 .. (n - 1) : Order!Conflict(program[k], program[n])}
  BY DEF Before, Order!Before
<1>4. program[n].deps = <<>> => \A k, a : ~Conflicts(k, n, a)
  BY DEF Conflicts, Uses
<1> QED
  BY <1>1, <1>2, <1>3, <1>4

\* What has ended had all below it end.
LEMMA BelowEnded ==
  ASSUME Types, Ordered, NEW p \in Ended
  PROVE  Below(p) \subseteq Ended
<1>1. Ended \subseteq Started
  BY DEF Ended, Started
<1> QED
  BY <1>1 DEF Below, Ordered

\* A program stays what it is.
LEMMA Static ==
  ASSUME program' = program
  PROVE  /\ Members' = Members /\ Addresses' = Addresses
         /\ \A n : Deps(n)' = Deps(n) /\ Before(n)' = Before(n) /\ Below(n)' = Below(n)
         /\ \A n, a : (Uses(n, a)' <=> Uses(n, a)) /\ (Writes(n, a)' <=> Writes(n, a))
         /\ \A k, n, a : Conflicts(k, n, a)' <=> Conflicts(k, n, a)
<1>1. Members' = Members
  BY DEF Members
<1>2. Addresses' = Addresses
  BY <1>1 DEF Addresses
<1>3. \A n : Deps(n)' = Deps(n)
  BY DEF Deps
<1>4. \A n : Before(n)' = Before(n)
  BY DEF Before, Order!Before
<1>5. \A n : Below(n)' = Below(n)
  BY <1>4 DEF Below
<1>6. \A n, a : (Uses(n, a)' <=> Uses(n, a)) /\ (Writes(n, a)' <=> Writes(n, a))
  BY DEF Uses, Writes
<1>7. \A k, n, a : Conflicts(k, n, a)' <=> Conflicts(k, n, a)
  BY <1>6 DEF Conflicts
<1> QED
  BY <1>1, <1>2, <1>3, <1>4, <1>5, <1>6, <1>7

-----------------------------------------------------------------------------
(* What steps do to the nodes. *)

LEMMA RefIs ==
  ASSUME NEW nodes \in [Members -> Node], NEW n \in Members
  PROVE  /\ Ref(nodes, n) \in [Members -> Node]
         /\ \A m \in Members : /\ Ref(nodes, n)[m].task = nodes[m].task
                               /\ Ref(nodes, n)[m].npredecessors = nodes[m].npredecessors
                               /\ Ref(nodes, n)[m].successors = nodes[m].successors
                               /\ Ref(nodes, n)[m].mem = nodes[m].mem
                               /\ Ref(nodes, n)[m].nrefs = nodes[m].nrefs + One(n, m)
<1> DEFINE c == nodes[n].nrefs + 1
<1>1. Ref(nodes, n)[n] = [nodes[n] EXCEPT !.nrefs = c] /\ nodes[n] \in Node /\ c \in Int
  BY DEF Ref, Node
<1>2. \A m \in Members \ {n} : Ref(nodes, n)[m] = nodes[m]
  BY DEF Ref
<1>3. /\ Ref(nodes, n)[n] \in Node
      /\ Ref(nodes, n)[n].task = nodes[n].task
      /\ Ref(nodes, n)[n].npredecessors = nodes[n].npredecessors
      /\ Ref(nodes, n)[n].successors = nodes[n].successors
      /\ Ref(nodes, n)[n].mem = nodes[n].mem
      /\ Ref(nodes, n)[n].nrefs = nodes[n].nrefs + 1
  <2> HIDE DEF c
  <2>1. /\ Ref(nodes, n)[n] \in Node
        /\ Ref(nodes, n)[n].task = nodes[n].task
        /\ Ref(nodes, n)[n].npredecessors = nodes[n].npredecessors
        /\ Ref(nodes, n)[n].successors = nodes[n].successors
        /\ Ref(nodes, n)[n].mem = nodes[n].mem
        /\ Ref(nodes, n)[n].nrefs = c
    BY <1>1 DEF Node
  <2> QED
    BY <2>1 DEF c
<1>4. \A m \in Members : nodes[m].nrefs \in Int /\ nodes[m] \in Node
  BY DEF Node
<1>5. Ref(nodes, n) \in [Members -> Node]
  <2>1. \A m \in Members : Ref(nodes, n)[m] \in Node
    BY <1>2, <1>3, <1>4
  <2>2. Ref(nodes, n) = [m \in Members |-> Ref(nodes, n)[m]]
    BY DEF Ref
  <2> QED
    BY <2>1, <2>2
<1> QED
  BY <1>2, <1>3, <1>4, <1>5 DEF One

LEMMA DerefIs ==
  ASSUME NEW nodes \in [Members -> Node], NEW lost \in [Members -> Nat]
  PROVE  /\ Deref(nodes, lost) \in [Members -> Node]
         /\ \A m \in Members :
              /\ Deref(nodes, lost)[m].task = nodes[m].task
              /\ Deref(nodes, lost)[m].npredecessors = nodes[m].npredecessors
              /\ Deref(nodes, lost)[m].successors = nodes[m].successors
              /\ Deref(nodes, lost)[m].nrefs = nodes[m].nrefs - lost[m]
              /\ Deref(nodes, lost)[m].mem = IF lost[m] # 0 /\ nodes[m].nrefs - lost[m] = 0
                                             THEN "freed" ELSE nodes[m].mem
<1> SUFFICES ASSUME NEW m \in Members
             PROVE  /\ Deref(nodes, lost)[m] \in Node
                    /\ Deref(nodes, lost)[m].task = nodes[m].task
                    /\ Deref(nodes, lost)[m].npredecessors = nodes[m].npredecessors
                    /\ Deref(nodes, lost)[m].successors = nodes[m].successors
                    /\ Deref(nodes, lost)[m].nrefs = nodes[m].nrefs - lost[m]
                    /\ Deref(nodes, lost)[m].mem = IF lost[m] # 0 /\ nodes[m].nrefs - lost[m] = 0
                                                   THEN "freed" ELSE nodes[m].mem
  <2>1. Deref(nodes, lost) = [m \in Members |-> Deref(nodes, lost)[m]]
    BY DEF Deref
  <2> QED
    BY <2>1
<1> DEFINE left == nodes[m].nrefs - lost[m]
           gone == IF left = 0 THEN "freed" ELSE nodes[m].mem
<1>1. nodes[m] \in Node /\ nodes[m].nrefs \in Int /\ lost[m] \in Nat
  BY DEF Node
<1>2. CASE lost[m] = 0
  <2>1. Deref(nodes, lost)[m] = nodes[m]
    BY <1>2 DEF Deref
  <2> QED
    BY <1>1, <1>2, <2>1
<1>3. CASE lost[m] # 0
  <2>1. Deref(nodes, lost)[m] = [nodes[m] EXCEPT !.nrefs = left, !.mem = gone]
    BY <1>3 DEF Deref
  <2>2. left \in Int /\ gone \in {"none", "heap", "freed", "frame", "gone"}
    BY <1>1 DEF Node
  <2> HIDE DEF left, gone
  <2>3. /\ Deref(nodes, lost)[m] \in Node
        /\ Deref(nodes, lost)[m].task = nodes[m].task
        /\ Deref(nodes, lost)[m].npredecessors = nodes[m].npredecessors
        /\ Deref(nodes, lost)[m].successors = nodes[m].successors
        /\ Deref(nodes, lost)[m].nrefs = left /\ Deref(nodes, lost)[m].mem = gone
    BY <1>1, <2>1, <2>2 DEF Node
  <2> QED
    BY <1>3, <2>3 DEF left, gone
<1> QED
  BY <1>2, <1>3

LEMMA DerefAllIs ==
  ASSUME NEW nodes \in [Members -> Node], NEW s \in Seq(Members)
  PROVE  /\ DerefAll(nodes, s) \in [Members -> Node]
         /\ \A m \in Members :
              /\ DerefAll(nodes, s)[m].task = nodes[m].task
              /\ DerefAll(nodes, s)[m].npredecessors = nodes[m].npredecessors
              /\ DerefAll(nodes, s)[m].successors = nodes[m].successors
              /\ DerefAll(nodes, s)[m].nrefs = nodes[m].nrefs - Count(s, m)
              /\ DerefAll(nodes, s)[m].mem = IF Count(s, m) # 0 /\ nodes[m].nrefs - Count(s, m) = 0
                                             THEN "freed" ELSE nodes[m].mem
<1> DEFINE lost == [n \in DOMAIN nodes |-> Count(s, n)]
<1>1. lost \in [Members -> Nat] /\ \A m \in Members : lost[m] = Count(s, m)
  BY CountType
<1>2. DerefAll(nodes, s) = Deref(nodes, lost)
  BY DEF DerefAll
<1> HIDE DEF lost
<1> QED
  BY <1>1, <1>2, DerefIs

LEMMA MaybeIs ==
  ASSUME NEW n \in Members \cup {None}, None \notin Members, NEW m \in Members
  PROVE  /\ Maybe(n) \in Seq(Members)
         /\ Count(Maybe(n), m) = One(n, m)
         /\ m \in Range(Maybe(n)) <=> m = n
<1>1. CASE n = None
  <2>1. Maybe(n) = <<>> /\ <<>> \in Seq(Members)
    BY <1>1 DEF Maybe
  <2>2. m \notin Range(Maybe(n))
    BY <2>1 DEF Range
  <2> QED
    BY <1>1, <2>1, <2>2, CountNone DEF One
<1>2. CASE n # None
  <2>1. Maybe(n) = <<n>> /\ n \in Members
    BY <1>2 DEF Maybe
  <2>2. m \in Range(<<n>>) <=> m = n
    BY DEF Range
  <2> QED
    BY <2>1, <2>2, CountOne
<1> QED
  BY <1>1, <1>2

LEMMA PredecessorsAre ==
  ASSUME Types, NEW n \in Members, NEW i \in 1 .. Len(Deps(n))
  PROVE  /\ Predecessors(n, i) \in Seq(Members)
         /\ Deps(n)[i].addr = Void => Predecessors(n, i) = <<>>
         /\ Deps(n)[i].addr # Void =>
              \A p \in Members : p \in Range(Predecessors(n, i)) <=>
                IF Writes(n, Deps(n)[i].addr) /\ hash[Deps(n)[i].addr].last_ins # <<>>
                THEN p \in Range(hash[Deps(n)[i].addr].last_ins)
                ELSE p = hash[Deps(n)[i].addr].last_out
<1> DEFINE d == Deps(n)[i]
<1>1. CASE d.addr = Void
  <2>1. <<>> \in Seq(Members)
    OBVIOUS
  <2> QED
    BY <1>1, <2>1 DEF Predecessors
<1>2. CASE d.addr # Void
  <2>1. d.addr \in Addresses /\ (d.out <=> Writes(n, d.addr)) /\ d.out \in BOOLEAN
    BY <1>2, DepsAre
  <2>2. hash[d.addr].last_ins \in Seq(Members) /\ hash[d.addr].last_out \in Members \cup {None}
    BY <2>1 DEF Types
  <2>3. /\ Maybe(hash[d.addr].last_out) \in Seq(Members)
        /\ \A p \in Members : p \in Range(Maybe(hash[d.addr].last_out)) <=> p = hash[d.addr].last_out
    BY <2>2, MaybeIs, Basics
  <2>4. Predecessors(n, i) = IF d.out /\ hash[d.addr].last_ins # <<>>
                             THEN hash[d.addr].last_ins ELSE Maybe(hash[d.addr].last_out)
    BY <1>2 DEF Predecessors
  <2> HIDE DEF d
  <2>5. CASE d.out /\ hash[d.addr].last_ins # <<>>
    BY <1>2, <2>1, <2>2, <2>4, <2>5 DEF d
  <2>6. CASE ~(d.out /\ hash[d.addr].last_ins # <<>>)
    BY <1>2, <2>1, <2>3, <2>4, <2>6 DEF d
  <2> QED
    BY <2>5, <2>6
<1> QED
  BY <1>1, <1>2

-----------------------------------------------------------------------------
(* The lists of successors and of the hash, and how often a node is in them. *)

LEMMA ListsAre ==
  ASSUME Types, Runs
  PROVE  /\ Lists(Succs, Members, Members) /\ Lists(Helds, DepThreads, Members)
         /\ Lists(Lefts, DepThreads, Members) /\ Lists(Entries, Addresses, Members)
         /\ \A n : /\ Total(Succs, n) \in Nat /\ Total(Helds, n) \in Nat
                   /\ Total(Lefts, n) \in Nat /\ Total(Entries, n) \in Nat /\ Open(n) \in Nat
<1>1. Lists(Succs, Members, Members)
  BY DEF Lists, Succs, Types, Node
<1>2. \A t \in DepThreads : exec[t].succs \in Seq(Members)
  BY DEF Types, Exec
<1>3. Lists(Helds, DepThreads, Members)
  BY <1>2 DEF Lists, Helds
<1>4. Lists(Lefts, DepThreads, Members)
  <2>1. \A t \in DepThreads : exec[t].succs # <<>> => Tail(exec[t].succs) \in Seq(Members)
    BY <1>2
  <2> QED
    BY <1>2, <2>1 DEF Lists, Lefts, Runs
<1>5. Lists(Entries, Addresses, Members)
  <2> SUFFICES ASSUME NEW a \in Addresses
               PROVE  hash[a].last_ins \o Maybe(hash[a].last_out) \in Seq(Members)
    BY DEF Lists, Entries
  <2>1. hash[a].last_ins \in Seq(Members) /\ hash[a].last_out \in Members \cup {None}
    BY DEF Types
  <2>2. Maybe(hash[a].last_out) \in Seq(Members)
    BY <2>1 DEF Maybe
  <2> QED
    BY <2>1, <2>2
<1>6. IsFiniteSet(Members) /\ IsFiniteSet(DepThreads) /\ IsFiniteSet(Addresses)
  BY Basics
<1>7. \A n : /\ Total(Succs, n) \in Nat /\ Total(Helds, n) \in Nat
             /\ Total(Lefts, n) \in Nat /\ Total(Entries, n) \in Nat
  BY <1>1, <1>3, <1>4, <1>5, <1>6, TotalType
<1> QED
  BY <1>1, <1>3, <1>4, <1>5, <1>7 DEF Open

LEMMA ListsAreNext == (Types /\ Runs => /\ Lists(Succs, Members, Members) /\ Lists(Helds, DepThreads, Members)
         /\ Lists(Lefts, DepThreads, Members) /\ Lists(Entries, Addresses, Members)
         /\ \A n : /\ Total(Succs, n) \in Nat /\ Total(Helds, n) \in Nat
                   /\ Total(Lefts, n) \in Nat /\ Total(Entries, n) \in Nat /\ Open(n) \in Nat)'
  BY ListsAre, PTL

LEMMA SuccsStill ==
  ASSUME program' = program, \A m \in Members : node'[m].successors = node[m].successors, NEW n
  PROVE  Total(Succs, n)' = Total(Succs, n)
<1>1. Succs' = Succs
  BY DEF Succs, Members
<1> QED
  BY <1>1

LEMMA SuccsChange ==
  ASSUME Types, Runs, Types', Runs', program' = program, NEW k \in Members,
         \A m \in Members \ {k} : node'[m].successors = node[m].successors, NEW n
  PROVE  Total(Succs, n)' = Total(Succs, n) + Count(node'[k].successors, n) - Count(node[k].successors, n)
<1>1. Lists(Succs, Members, Members) /\ Lists(Succs', Members, Members) /\ IsFiniteSet(Members)
  BY ListsAre, ListsAreNext, Basics, Static
<1>2. /\ Succs'[k] = node'[k].successors /\ Succs[k] = node[k].successors
      /\ \A m \in Members \ {k} : Succs'[m] = Succs[m]
  BY DEF Succs, Members
<1> QED
  BY <1>1, <1>2, TotalChanges

LEMMA ThreadsStill ==
  ASSUME exec' = exec, NEW n
  PROVE  Total(Helds, n)' = Total(Helds, n) /\ Total(Lefts, n)' = Total(Lefts, n)
<1>1. Helds' = Helds /\ Lefts' = Lefts
  BY DEF Helds, Lefts
<1> QED
  BY <1>1

Left(e) == IF e.pc \in {"offer", "drop"} THEN Tail(e.succs) ELSE e.succs

LEMMA ThreadsChange ==
  ASSUME Types, Runs, Types', Runs', program' = program, NEW t \in DepThreads,
         \A u \in DepThreads \ {t} : exec'[u] = exec[u], NEW n
  PROVE  /\ Total(Helds, n)' = Total(Helds, n) + Count(exec'[t].succs, n) - Count(exec[t].succs, n)
         /\ Total(Lefts, n)' = Total(Lefts, n) + Count(Left(exec'[t]), n) - Count(Left(exec[t]), n)
<1>1. /\ Lists(Helds, DepThreads, Members) /\ Lists(Helds', DepThreads, Members)
      /\ Lists(Lefts, DepThreads, Members) /\ Lists(Lefts', DepThreads, Members)
      /\ IsFiniteSet(DepThreads)
  BY ListsAre, ListsAreNext, Basics, Static
<1>2. /\ Helds'[t] = exec'[t].succs /\ Helds[t] = exec[t].succs
      /\ \A u \in DepThreads \ {t} : Helds'[u] = Helds[u]
  BY DEF Helds
<1>3. /\ Lefts'[t] = Left(exec'[t]) /\ Lefts[t] = Left(exec[t])
      /\ \A u \in DepThreads \ {t} : Lefts'[u] = Lefts[u]
  BY DEF Lefts, Left
<1>4. Total(Helds', n) = Total(Helds, n) + Count(Helds'[t], n) - Count(Helds[t], n)
  <2> DEFINE d == Helds
             e == Helds'
  <2>1. /\ Lists(d, DepThreads, Members) /\ Lists(e, DepThreads, Members) /\ IsFiniteSet(DepThreads)
        /\ \A u \in DepThreads \ {t} : e[u] = d[u]
    BY <1>1, <1>2
  <2> HIDE DEF d, e
  <2>2. Total(e, n) = Total(d, n) + Count(e[t], n) - Count(d[t], n)
    BY <2>1, TotalChanges
  <2> QED
    BY <2>2 DEF d, e
<1>5. Total(Lefts', n) = Total(Lefts, n) + Count(Lefts'[t], n) - Count(Lefts[t], n)
  BY <1>1, <1>3, TotalChanges
<1> QED
  BY <1>2, <1>3, <1>4, <1>5

LEMMA EntriesStill ==
  ASSUME program' = program, hash' = hash, NEW n
  PROVE  Total(Entries, n)' = Total(Entries, n)
<1>1. Entries' = Entries
  BY Static DEF Entries
<1> QED
  BY <1>1

LEMMA EntriesChange ==
  ASSUME Types, Runs, Types', Runs', program' = program, NEW a \in Addresses,
         \A b \in Addresses \ {a} : hash'[b] = hash[b], NEW n
  PROVE  Total(Entries, n)' = Total(Entries, n)
           + Count(hash'[a].last_ins \o Maybe(hash'[a].last_out), n)
           - Count(hash[a].last_ins \o Maybe(hash[a].last_out), n)
<1>1. /\ Lists(Entries, Addresses, Members) /\ Lists(Entries', Addresses, Members)
      /\ IsFiniteSet(Addresses)
  BY ListsAre, ListsAreNext, Basics, Static
<1>2. /\ Entries'[a] = hash'[a].last_ins \o Maybe(hash'[a].last_out)
      /\ Entries[a] = hash[a].last_ins \o Maybe(hash[a].last_out)
      /\ \A b \in Addresses \ {a} : Entries'[b] = Entries[b]
  BY Static DEF Entries
<1>3. Total(Entries', n) = Total(Entries, n) + Count(Entries'[a], n) - Count(Entries[a], n)
  <2> DEFINE d == Entries
             e == Entries'
  <2>1. /\ Lists(d, Addresses, Members) /\ Lists(e, Addresses, Members) /\ IsFiniteSet(Addresses)
        /\ \A b \in Addresses \ {a} : e[b] = d[b]
    BY <1>1, <1>2
  <2> HIDE DEF d, e
  <2>2. Total(e, n) = Total(d, n) + Count(e[a], n) - Count(d[a], n)
    BY <2>1, TotalChanges
  <2> QED
    BY <2>2 DEF d, e
<1> QED
  BY <1>2, <1>3

\* A list is its first and the rest.
LEMMA HeadAndTail ==
  ASSUME NEW s \in Seq(Members), s # <<>>
  PROVE  /\ Head(s) \in Members /\ Head(s) \in Range(s) /\ Tail(s) \in Seq(Members)
         /\ \A x : x \in Range(s) <=> x = Head(s) \/ x \in Range(Tail(s))
<1> SUFFICES ASSUME NEW x PROVE x \in Range(s) <=> x = Head(s) \/ x \in Range(Tail(s))
  BY CountTail
<1>1. /\ Tail(s) \in Seq(Members)
      /\ Count(s, x) = Count(Tail(s), x) + One(Head(s), x)
  BY CountTail
<1>2. Count(s, x) \in Nat /\ Count(Tail(s), x) \in Nat
  BY <1>1, CountType
<1>3. (Count(s, x) = 0 <=> x \notin Range(s)) /\ (Count(Tail(s), x) = 0 <=> x \notin Range(Tail(s)))
  BY <1>1, CountNone
<1>4. Head(s) = x <=> One(Head(s), x) = 1
  BY DEF One
<1> QED
  BY <1>1, <1>2, <1>3, <1>4 DEF One

\* One more in front.
LEMMA PushIs ==
  ASSUME NEW x \in Members, NEW s \in Seq(Members)
  PROVE  /\ <<x>> \o s \in Seq(Members)
         /\ \A n : Count(<<x>> \o s, n) = Count(s, n) + One(x, n)
         /\ \A n : n \in Range(<<x>> \o s) <=> n = x \/ n \in Range(s)
<1> DEFINE r == <<x>> \o s
           h == <<x>>
<1> SUFFICES ASSUME NEW n
             PROVE  /\ r \in Seq(Members) /\ Count(r, n) = Count(s, n) + One(x, n)
                    /\ n \in Range(r) <=> n = x \/ n \in Range(s)
  OBVIOUS
<1>1. h \in Seq(Members) /\ Count(h, n) = One(x, n)
  BY CountOne
<1>2. r = h \o s
  OBVIOUS
<1> HIDE DEF h, r
<1>3. r \in Seq(Members) /\ Count(r, n) = Count(h, n) + Count(s, n)
  BY <1>1, <1>2, CountCat
<1>4. Count(s, n) \in Nat /\ (Count(s, n) = 0 <=> n \notin Range(s)) /\ (Count(r, n) = 0 <=> n \notin Range(r))
  BY <1>3, CountType, CountNone
<1>5. One(x, n) \in Nat /\ (One(x, n) = 0 <=> n # x)
  BY DEF One
<1> QED
  BY <1>1, <1>3, <1>4, <1>5

-----------------------------------------------------------------------------
(* What the hash knows, and what is behind what. *)

LEMMA HashStill ==
  ASSUME Types, Place, Hash, program' = program, hash' = hash, cpc' # "end" => cpc # "end",
         Ended \subseteq Ended',
         \A n \in Members, a \in Addresses : IsEntered(n, a)' <=> IsEntered(n, a),
         WaitOn => (WaitOn' /\ at' = at) \/ Below(at) \subseteq Ended'
  PROVE  Hash'
<1> SUFFICES ASSUME cpc' # "end", NEW a \in Addresses
             PROVE  /\ \A r \in Range(hash[a].last_ins) :
                         program[r].task /\ IsEntered(r, a)' /\ ~Writes(r, a) /\ hash[a].last_out < r
                    /\ hash[a].last_out # None =>
                         /\ program[hash[a].last_out].task /\ IsEntered(hash[a].last_out, a)'
                         /\ Writes(hash[a].last_out, a)
                    /\ \A k \in Members : IsEntered(k, a)' => Known(k, a)'
  <2>1. /\ Addresses' = Addresses /\ Members' = Members
        /\ \A n, b : Writes(n, b)' <=> Writes(n, b)
    BY Static
  <2> QED
    BY Static DEF Hash
<1>1. hash[a].last_ins \in Seq(Members) /\ hash[a].last_out \in Members \cup {None}
  BY DEF Types
<1>2. Range(hash[a].last_ins) \subseteq Members
  BY <1>1 DEF Range
<1>3. ASSUME NEW k \in Members, IsEntered(k, a)' PROVE Known(k, a)'
  <2>1. Known(k, a)
    BY <1>3 DEF Hash
  <2>2. ASSUME WaitOn, IsEntered(at, a), k \in Below(at)
        PROVE  Known(k, a)'
    <3>1. at \in Members
      BY <2>2 DEF WaitOn, Place
    <3>2. Below(at)' = Below(at')
      BY Static
    <3>3. CASE WaitOn' /\ at' = at
      <4>1. IsEntered(at, a)'
        BY <2>2, <3>1, <3>3
      <4>2. k \in Below(at)'
        BY <2>2, <3>2, <3>3
      <4> QED
        BY <3>3, <4>1, <4>2 DEF Known
    <3>4. CASE Below(at) \subseteq Ended'
      BY <2>2, <3>4 DEF Known
    <3> QED
      BY <2>2, <3>3, <3>4
  <2> QED
    BY <2>1, <2>2 DEF Known
<1> QED
  BY <1>1, <1>2, <1>3 DEF Hash

\* What a member depends on may only come to an end, or below what it is linked to.
LEMMA CoveredStill ==
  ASSUME Types, Covered, program' = program, Ended \subseteq Ended',
         \A n, p \in Members : Behind(n, p) => Behind(n, p)' \/ Below(p) \subseteq Ended',
         \A n \in Members, a \in Addresses : IsReached(n, a)' =>
           \/ IsReached(n, a)
           \/ \A k \in 1 .. (n - 1) : Conflicts(k, n, a) =>
                k \in Ended \/ \E p \in Members : Behind(n, p)' /\ k \in Below(p)
  PROVE  Covered'
<1> SUFFICES ASSUME NEW n \in Members, NEW a \in Addresses, IsReached(n, a)',
                    NEW k \in 1 .. (n - 1), Conflicts(k, n, a)
             PROVE  k \in Ended' \/ \E p \in Members : Behind(n, p)' /\ k \in Below(p)
  BY Static DEF Covered
<1>1. CASE IsReached(n, a)
  <2>1. k \in Ended \/ \E p \in Members : Behind(n, p) /\ k \in Below(p)
    BY <1>1 DEF Covered
  <2> QED
    BY <2>1
<1>2. CASE ~IsReached(n, a)
  <2>1. k \in Ended \/ \E p \in Members : Behind(n, p)' /\ k \in Below(p)
    BY <1>2
  <2> QED
    BY <2>1
<1> QED
  BY <1>1, <1>2

\* The predecessors found for a dependence are tasks before the member, and all it
\* comes behind has ended or is below one of them.
LEMMA Arrives ==
  ASSUME Types, Hash, cpc # "end", NEW n \in Members, NEW i \in 1 .. Len(Deps(n)),
         \A k \in Members, a \in Addresses : k < n /\ Uses(k, a) => IsEntered(k, a),
         \A k \in Members : k >= n => ~IsEntered(k, Deps(n)[i].addr),
         ~(WaitOn /\ IsEntered(at, Deps(n)[i].addr))
  PROVE  /\ \A p \in Range(Predecessors(n, i)) :
              p \in Members /\ p < n /\ program[p].task /\ program[p].deps # <<>>
         /\ Deps(n)[i].addr # Void =>
              \A k \in 1 .. (n - 1) : Conflicts(k, n, Deps(n)[i].addr) =>
                k \in Ended \/ \E p \in Members : p \in Range(Predecessors(n, i)) /\ k \in Below(p)
<1>1. Range(Predecessors(n, i)) \subseteq Members
  BY PredecessorsAre DEF Range
<1>2. CASE Deps(n)[i].addr = Void
  <2>1. Range(Predecessors(n, i)) = {}
    BY <1>2, PredecessorsAre DEF Range
  <2> QED
    BY <1>2, <2>1
<1>3. CASE Deps(n)[i].addr # Void
  <2> DEFINE a == Deps(n)[i].addr
             w == hash[a].last_out
             ins == hash[a].last_ins
  <2>1. a \in Addresses
    BY <1>3, DepsAre
  <2>2. \A p \in Members : p \in Range(Predecessors(n, i)) <=>
          IF Writes(n, a) /\ ins # <<>> THEN p \in Range(ins) ELSE p = w
    BY <1>3, PredecessorsAre
  <2>3. ins \in Seq(Members) /\ w \in Members \cup {None}
    BY <2>1 DEF Types
  <2>4. /\ \A r \in Range(ins) : /\ r \in Members /\ program[r].task /\ IsEntered(r, a)
                                 /\ ~Writes(r, a) /\ w < r
        /\ w # None => w \in Members /\ program[w].task /\ IsEntered(w, a) /\ Writes(w, a)
        /\ \A k \in Members : IsEntered(k, a) => Known(k, a)
    <3>1. \A r \in Range(ins) : r \in Members
      BY <2>3 DEF Range
    <3> QED
      BY <2>1, <2>3, <3>1 DEF Hash
  <2>5. /\ \A k \in Members : k < n /\ Uses(k, a) => IsEntered(k, a)
        /\ \A k \in Members : k >= n => ~IsEntered(k, a)
        /\ ~(WaitOn /\ IsEntered(at, a))
    BY <2>1
  <2>6. \A k, m \in Members : k < m /\ Conflicts(k, m, a) => k \in Before(m)
    <3>1. Members \subseteq Nat
      BY Basics
    <3>2. \A k, m \in Members : k < m => k \in 1 .. (m - 1)
      BY Basics
    <3> QED
      BY <2>1, <3>2, BeforeIs
  <2>7. n \in Nat /\ Members \subseteq Nat /\ (\A k \in 1 .. (n - 1) : k \in Members /\ k < n) /\ None = 0 /\ 0 \notin Members
    BY Basics DEF None
  <2>8. ASSUME NEW p \in Members, p \in Range(Predecessors(n, i))
        PROVE  p < n /\ program[p].task /\ program[p].deps # <<>>
    <3>1. program[p].task /\ IsEntered(p, a)
      BY <2>2, <2>4, <2>7, <2>8
    <3>2. p < n
      BY <2>5, <2>7, <3>1
    <3>3. program[p].deps # <<>>
      BY <3>1 DEF IsEntered, Uses
    <3> QED
      BY <3>1, <3>2, <3>3
  <2>9. ASSUME NEW k \in 1 .. (n - 1), Conflicts(k, n, a)
        PROVE  k \in Ended \/ \E p \in Members : p \in Range(Predecessors(n, i)) /\ k \in Below(p)
    <3>1. k \in Members /\ k < n /\ Uses(k, a) /\ Uses(n, a) /\ (Writes(k, a) \/ Writes(n, a))
      BY <2>7, <2>9 DEF Conflicts
    <3>2. \/ k \in Ended \/ k = w \/ k \in Range(ins)
          \/ w # None /\ k < w
      <4>1. Known(k, a)
        BY <2>4, <2>5, <3>1
      <4> QED
        BY <2>5, <4>1 DEF Known
    <3> HIDE DEF w, ins, a
    <3>3. CASE k \in Range(ins)
      <4>1. Writes(n, a)
        BY <2>4, <3>1, <3>3
      <4>2. ins # <<>>
        BY <3>3 DEF Range
      <4>3. k \in Range(Predecessors(n, i))
        BY <2>2, <3>1, <3>3, <4>1, <4>2
      <4> QED
        BY <3>1, <4>3 DEF Below
    <3>4. CASE w # None /\ (k = w \/ k < w)
      <4>1. w \in Members /\ IsEntered(w, a) /\ Writes(w, a) /\ Uses(w, a)
        BY <2>4, <3>4 DEF IsEntered
      <4>2. k = w \/ k \in Before(w)
        <5>1. CASE k < w
          <6>1. Conflicts(k, w, a)
            BY <3>1, <4>1 DEF Conflicts
          <6> QED
            BY <2>6, <3>1, <4>1, <5>1, <6>1
        <5> QED
          BY <3>4, <5>1
      <4>3. CASE Writes(n, a) /\ ins # <<>>
        <5>1. PICK r \in Range(ins) : TRUE
          BY <2>3, <4>3, HeadAndTail
        <5>2. r \in Members /\ IsEntered(r, a) /\ w < r /\ r \in Range(Predecessors(n, i))
          BY <2>2, <2>4, <4>3, <5>1
        <5>3. Conflicts(w, r, a)
          BY <4>1, <5>2 DEF Conflicts, IsEntered
        <5>4. w \in Before(r)
          BY <2>6, <4>1, <5>2, <5>3
        <5>5. k \in Below(r)
          BY <4>2, <5>4 DEF Below
        <5> QED
          BY <5>2, <5>5
      <4>4. CASE ~(Writes(n, a) /\ ins # <<>>)
        <5>1. w \in Range(Predecessors(n, i))
          BY <2>2, <4>1, <4>4
        <5>2. k \in Below(w)
          BY <4>2 DEF Below
        <5> QED
          BY <4>1, <5>1, <5>2
      <4> QED
        BY <4>3, <4>4
    <3> QED
      BY <2>7, <3>1, <3>2, <3>3, <3>4
  <2> QED
    BY <1>1, <2>8, <2>9
<1> QED
  BY <1>2, <1>3

\* All that a member depends on has ended, once all its dependences are linked and
\* no list has it.
LEMMA ReadyEnded ==
  ASSUME Types, Place, Runs, Covered, NEW n \in Members, n <= at, ~Linking(n), Open(n) = 0
  PROVE  Before(n) \subseteq Ended
<1> SUFFICES ASSUME NEW k \in Before(n) PROVE k \in Ended
  OBVIOUS
<1>1. PICK a \in Addresses : k \in 1 .. (n - 1) /\ Conflicts(k, n, a)
  BY BeforeIs
<1>2. ~(n = at /\ cpc = "process")
  BY DEF Linking
<1>3. IsReached(n, a)
  BY <1>1, <1>2 DEF IsReached, Conflicts
<1>4. k \in Ended \/ \E p \in Members : Behind(n, p) /\ k \in Below(p)
  BY <1>1, <1>3 DEF Covered
<1>5. ASSUME NEW p \in Members PROVE ~Behind(n, p)
  <2>1. Total(Succs, n) = 0
    <3>1. Total(Succs, n) \in Nat /\ Total(Lefts, n) \in Nat
      BY ListsAre
    <3> QED
      BY <3>1 DEF Open
  <2>2. n \notin Range(Succs[p])
    BY <2>1, ListsAre, TotalType, Basics
  <2>3. n = at => todo = <<>>
    BY <1>2 DEF Place
  <2> QED
    BY <2>2, <2>3 DEF Behind, Succs, Range
<1> QED
  BY <1>4, <1>5

-----------------------------------------------------------------------------
(* The parts of the invariant a step leaves alone. *)

LEMMA TypesNext ==
  ASSUME Types, program' = program, node' \in [Members -> Node],
         hash' \in [Addresses -> [last_out : Members \cup {None}, last_ins : Seq(Members)]],
         queued' \in [Members -> Nat],
         state' \in [Members -> {"new", "created", "running", "ran"}],
         at' \in 0 .. Len(program), dep' \in Nat \ {0}, found' \in Nat, todo' \in Seq(Members),
         cpc' \in {"next", "process", "account", "queue", "wait", "end"},
         exec' \in [DepThreads -> Exec]
  PROVE  Types'
<1>1. Members' = Members /\ Addresses' = Addresses
  BY Static
<1>2. Node' = Node /\ Exec' = Exec
  BY <1>1 DEF Node, Exec
<1> QED
  BY <1>1, <1>2 DEF Types

LEMMA RunsStill ==
  ASSUME Types, Runs, program' = program, state' = state, exec' = exec,
         \A n \in Members : node'[n].mem = "none" => node[n].mem = "none"
  PROVE  Runs'
<1>1. Members' = Members
  BY Static
<1> QED
  BY <1>1 DEF Runs

LEMMA OrderedStill ==
  ASSUME Ordered, program' = program, Ended \subseteq Ended',
         \A n \in Started' : n \in Started \/ Before(n) \subseteq Ended'
  PROVE  Ordered'
<1>1. \A n : Before(n)' = Before(n)
  BY Static
<1> QED
  BY <1>1 DEF Ordered

LEMMA OnceStill ==
  ASSUME Once, program' = program, queued' = queued,
         \A n \in Members :
           /\ n \in Started' <=> n \in Started
           /\ ToQueue(n)' <=> ToQueue(n)
           /\ \A t \in DepThreads : Offers(t, n)' <=> Offers(t, n)
           /\ n <= at /\ ~Linking(n) /\ Open(n) = 0 => n <= at' /\ ~Linking(n)' /\ Open(n)' = 0
  PROVE  Once'
<1>1. Members' = Members
  BY Static
<1>2. \A n \in Members : Due(n)' <=> Due(n)
  BY DEF Due
<1> QED
  BY <1>1, <1>2 DEF Once

LEMMA CountedStill ==
  ASSUME Counted, program' = program, found' = found,
         \A n \in Members : /\ node'[n].npredecessors = node[n].npredecessors
                            /\ Open(n)' = Open(n) /\ (Linking(n)' <=> Linking(n))
  PROVE  Counted'
<1>1. Members' = Members
  BY Static
<1> QED
  BY <1>1 DEF Counted

LEMMA ReferredStill ==
  ASSUME Referred, program' = program,
         \A n \in Members :
           /\ node'[n].nrefs = node[n].nrefs /\ Own(n)' = Own(n)
           /\ node'[n].mem = "heap" => node[n].mem = "heap"
           /\ node'[n].mem = "freed" => node[n].mem = "freed"
           /\ Total(Entries, n)' + Total(Succs, n)' + Total(Helds, n)'
                = Total(Entries, n) + Total(Succs, n) + Total(Helds, n)
  PROVE  Referred'
<1>1. Members' = Members
  BY Static
<1> QED
  BY <1>1 DEF Referred

\* Lists that nobody touches.
LEMMA ListsStill ==
  ASSUME program' = program, hash' = hash, exec' = exec,
         \A m \in Members : node'[m].successors = node[m].successors, NEW n
  PROVE  /\ Total(Succs, n)' = Total(Succs, n) /\ Total(Helds, n)' = Total(Helds, n)
         /\ Total(Lefts, n)' = Total(Lefts, n) /\ Total(Entries, n)' = Total(Entries, n)
         /\ Open(n)' = Open(n)
<1>1. /\ Total(Succs, n)' = Total(Succs, n) /\ Total(Helds, n)' = Total(Helds, n)
      /\ Total(Lefts, n)' = Total(Lefts, n) /\ Total(Entries, n)' = Total(Entries, n)
  BY SuccsStill, ThreadsStill, EntriesStill
<1> QED
  BY <1>1 DEF Open

\* What is known of a state.
LEMMA Plain ==
  ASSUME IInv
  PROVE  /\ Types /\ Place /\ Nodes /\ Runs /\ Counted /\ Referred /\ Once /\ Hash /\ Covered /\ Ordered
         /\ Members \subseteq Nat \ {0} /\ at \in Nat /\ dep \in Nat \ {0} /\ found \in Nat
         /\ \A n \in Members : /\ node[n] \in Node /\ node[n].npredecessors \in Int
                               /\ node[n].nrefs \in Int /\ node[n].successors \in Seq(Members)
                               /\ node[n].task \in BOOLEAN
<1>1. Types
  BY DEF IInv
<1>2. Members \subseteq Nat \ {0} /\ Len(program) \in Nat
  BY <1>1, Basics
<1>3. at \in Nat /\ dep \in Nat \ {0} /\ found \in Nat
  BY <1>1, <1>2 DEF Types
<1>4. \A n \in Members : node[n] \in Node
  BY <1>1 DEF Types
<1> QED
  BY <1>2, <1>3, <1>4 DEF IInv, Node

-----------------------------------------------------------------------------
(* The steps of the creator. *)

LEMMA LinkKeeps ==
  ASSUME IInv, Link
  PROVE  IInv'
<1> DEFINE p == Head(todo)
           after == [node EXCEPT ![p].successors = <<at>> \o @]
           linked == node[p].task
<1>1. Types /\ Place /\ Nodes /\ Runs /\ Counted /\ Referred /\ Once /\ Hash /\ Covered /\ Ordered
  BY Plain
<1>2. /\ cpc = "process" /\ todo # <<>> /\ todo' = Tail(todo) /\ program' = program
      /\ hash' = hash /\ queued' = queued /\ state' = state /\ at' = at /\ cpc' = cpc
      /\ dep' = dep /\ exec' = exec
      /\ linked => node' = Ref(after, at) /\ found' = found + 1
      /\ ~linked => node' = node /\ found' = found
  BY DEF Link
<1>3. /\ at \in Members /\ state[at] = "created" /\ p \in Members /\ p < at
      /\ program[p].task /\ program[p].deps # <<>> /\ program[at].deps # <<>>
      /\ Tail(todo) \in Seq(Members)
      /\ \A x : x \in Range(todo) <=> x = p \/ x \in Range(Tail(todo))
  <2>1. todo \in Seq(Members)
    BY <1>1 DEF Types
  <2> QED
    BY <1>1, <1>2, <2>1, HeadAndTail DEF Place
<1>4. Members' = Members /\ Addresses' = Addresses /\ Members \subseteq Nat /\ at \in Nat
  BY <1>2, Static, Plain
<1>5. /\ node' \in [Members -> Node]
      /\ \A m \in Members :
           /\ node'[m].task = node[m].task /\ node'[m].mem = node[m].mem
           /\ node'[m].npredecessors = node[m].npredecessors
           /\ node'[m].nrefs = node[m].nrefs + IF linked THEN One(at, m) ELSE 0
           /\ node'[m].successors = IF linked /\ m = p THEN <<at>> \o node[m].successors
                                    ELSE node[m].successors
  <2>1. CASE linked
    <3> DEFINE c == <<at>> \o node[p].successors
    <3>1. c \in Seq(Members) /\ node \in [Members -> Node] /\ node[p] \in Node
      <4>1. node[p].successors \in Seq(Members)
        BY <1>3, Plain
      <4> QED
        BY <1>1, <1>3, <4>1, CountOne, CountCat DEF Types
    <3>2. after[p] = [node[p] EXCEPT !.successors = c]
      BY <1>3, <3>1
    <3>3. \A m \in Members \ {p} : after[m] = node[m]
      BY <3>1
    <3>4. DOMAIN after = Members /\ after = [m \in Members |-> after[m]]
      BY <3>1
    <3> HIDE DEF c, after
    <3>5. /\ after[p] \in Node /\ after[p].task = node[p].task /\ after[p].mem = node[p].mem
          /\ after[p].npredecessors = node[p].npredecessors /\ after[p].nrefs = node[p].nrefs
          /\ after[p].successors = c
      BY <3>1, <3>2 DEF Node
    <3>6. after \in [Members -> Node]
      BY <3>1, <3>3, <3>4, <3>5
    <3>7. /\ node' \in [Members -> Node]
          /\ \A m \in Members :
               /\ node'[m].task = after[m].task /\ node'[m].mem = after[m].mem
               /\ node'[m].npredecessors = after[m].npredecessors
               /\ node'[m].nrefs = after[m].nrefs + One(at, m)
               /\ node'[m].successors = after[m].successors
      BY <1>2, <1>3, <2>1, <3>6, RefIs
    <3>8. \A m \in Members :
            /\ after[m].task = node[m].task /\ after[m].mem = node[m].mem
            /\ after[m].npredecessors = node[m].npredecessors /\ after[m].nrefs = node[m].nrefs
            /\ after[m].successors = IF m = p THEN c ELSE node[m].successors
      BY <3>3, <3>5
    <3> HIDE DEF linked, p
    <3> QED
      BY <2>1, <3>7, <3>8 DEF c
  <2>2. CASE ~linked
    <3> HIDE DEF linked, p
    <3>1. node' = node /\ node \in [Members -> Node]
      BY <1>1, <1>2, <2>2 DEF Types
    <3>2. \A m \in Members : node[m].nrefs \in Int
      BY Plain
    <3> QED
      BY <2>2, <3>1, <3>2
  <2> QED
    BY <2>1, <2>2
<1>6. /\ \A n \in Members, a \in Addresses : IsEntered(n, a)' <=> IsEntered(n, a)
      /\ \A n \in Members, a \in Addresses : IsReached(n, a)' <=> IsReached(n, a)
      /\ \A n \in Members : Linking(n)' <=> Linking(n)
      /\ WaitOn' <=> WaitOn
      /\ Ended' = Ended /\ Started' = Started
      /\ \A n \in Members : ToQueue(n)' <=> ToQueue(n)
      /\ \A n \in Members : \A t \in DepThreads : Offers(t, n)' <=> Offers(t, n)
      /\ \A n \in Members : node'[n].mem = node[n].mem => Own(n)' = Own(n)
  BY <1>2, <1>4, Static DEF IsEntered, IsReached, Linking, WaitOn, Ended, Started, ToQueue, Offers, Own
<1>7. Types'
  <2>1. found' \in Nat
    BY <1>2, Plain
  <2> QED
    BY <1>1, <1>2, <1>3, <1>5, <2>1, TypesNext DEF Types
<1>8. Place'
  BY <1>1, <1>2, <1>3, Static DEF Place
<1> HIDE DEF p, after
<1>9. Nodes'
  <2> SUFFICES ASSUME NEW n \in Members
               PROVE  /\ n > at \/ program[n].deps = <<>> => node'[n].nrefs = 0
                      /\ ~node[n].task => node'[n].successors = <<>>
    BY <1>1, <1>2, <1>4, <1>5, <1>6, Static DEF Nodes
  <2>1. n > at \/ program[n].deps = <<>> => n # at /\ node[n].nrefs = 0
    BY <1>1, <1>3, <1>4 DEF Nodes
  <2> QED
    BY <1>1, <1>5, <2>1 DEF Nodes, One
<1>10. Runs'
  BY <1>1, <1>2, <1>5, RunsStill
<1> DEFINE gain(n) == IF linked THEN One(at, n) ELSE 0
<1>11. /\ \A n \in Members : gain(n) \in {0, 1} /\ (n # at => gain(n) = 0)
       /\ found' = found + gain(at) /\ found \in Nat
       /\ \A n \in Members : node'[n].nrefs = node[n].nrefs + gain(n)
  <2>1. found \in Nat
    BY Plain
  <2> HIDE DEF linked
  <2> QED
    BY <1>2, <1>5, <2>1 DEF One
<1>12. ASSUME NEW n \in Members
       PROVE  /\ Total(Succs, n)' = Total(Succs, n) + gain(n)
              /\ Total(Helds, n)' = Total(Helds, n) /\ Total(Lefts, n)' = Total(Lefts, n)
              /\ Total(Entries, n)' = Total(Entries, n) /\ Open(n)' = Open(n) + gain(n)
              /\ Total(Succs, n) \in Nat /\ Total(Helds, n) \in Nat /\ Total(Lefts, n) \in Nat
              /\ Total(Entries, n) \in Nat
  <2>1. /\ Total(Succs, n) \in Nat /\ Total(Helds, n) \in Nat /\ Total(Lefts, n) \in Nat
        /\ Total(Entries, n) \in Nat
    BY <1>1, ListsAre
  <2>2. Total(Succs, n)' = Total(Succs, n) + gain(n)
    <3>1. CASE linked
      <4>1. node[p].successors \in Seq(Members) /\ p \in Members
        BY <1>3, Plain
      <4>2. node'[p].successors = <<at>> \o node[p].successors
        BY <1>5, <3>1, <4>1
      <4>3. Count(node'[p].successors, n) = Count(node[p].successors, n) + One(at, n)
        BY <1>3, <4>1, <4>2, PushIs
      <4>4. \A m \in Members \ {p} : node'[m].successors = node[m].successors
        BY <1>5
      <4>5. Total(Succs, n)' = Total(Succs, n) + Count(node'[p].successors, n) - Count(node[p].successors, n)
        BY <1>1, <1>2, <1>7, <1>10, <4>1, <4>4, SuccsChange
      <4>6. Count(node[p].successors, n) \in Nat /\ One(at, n) \in Nat
        BY <4>1, CountType DEF One
      <4> QED
        BY <2>1, <3>1, <4>3, <4>5, <4>6
    <3>2. CASE ~linked
      BY <1>2, <1>5, <2>1, <3>2, SuccsStill
    <3> QED
      BY <3>1, <3>2
  <2>3. /\ Total(Helds, n)' = Total(Helds, n) /\ Total(Lefts, n)' = Total(Lefts, n)
        /\ Total(Entries, n)' = Total(Entries, n)
    BY <1>2, ThreadsStill, EntriesStill
  <2>4. gain(n) \in Nat
    BY <1>11
  <2> HIDE DEF gain
  <2> QED
    BY <2>1, <2>2, <2>3, <2>4 DEF Open
<1> HIDE DEF gain, linked
<1>13. Counted'
  <2> SUFFICES ASSUME NEW n \in Members
               PROVE  /\ node'[n].npredecessors = Open(n)' - IF Linking(n)' THEN found' + 1 ELSE 0
                      /\ Linking(n)' => Open(n)' <= found'
    BY <1>4 DEF Counted
  <2>1. Open(n) \in Nat /\ gain(n) \in Nat
    BY <1>1, <1>11, ListsAre
  <2>2. CASE n = at
    <3>1. Linking(n)
      BY <1>2, <2>2 DEF Linking
    <3>2. node[n].npredecessors = Open(n) - (found + 1) /\ Open(n) <= found
      BY <1>1, <3>1 DEF Counted
    <3> QED
      BY <1>5, <1>6, <1>11, <1>12, <2>1, <2>2, <3>1, <3>2
  <2>3. CASE n # at
    <3>1. ~Linking(n)
      BY <2>3 DEF Linking
    <3>2. node[n].npredecessors = Open(n)
      BY <1>1, <2>1, <3>1 DEF Counted
    <3> QED
      BY <1>5, <1>6, <1>11, <1>12, <2>1, <2>3, <3>1, <3>2
  <2> QED
    BY <2>2, <2>3
<1>14. Referred'
  <2> SUFFICES ASSUME NEW n \in Members
               PROVE  /\ node'[n].nrefs = Total(Entries, n)' + Total(Succs, n)' + Total(Helds, n)' + Own(n)'
                      /\ node'[n].mem = "heap" => node'[n].nrefs > 0
                      /\ node'[n].mem = "freed" => node'[n].nrefs = 0
    BY <1>4 DEF Referred
  <2>1. /\ node[n].nrefs = Total(Entries, n) + Total(Succs, n) + Total(Helds, n) + Own(n)
        /\ node[n].mem = "heap" => node[n].nrefs > 0
        /\ node[n].mem = "freed" => node[n].nrefs = 0
    BY <1>1 DEF Referred
  <2>2. Own(n) \in {0, 1} /\ Own(n)' = Own(n) /\ node'[n].mem = node[n].mem
    BY <1>5, <1>6 DEF Own
  <2>3. n = at => node[n].mem # "freed"
    <3>1. n = at /\ node[n].mem = "freed" => Own(n) = 1
      BY <1>3 DEF Own
    <3> QED
      BY <1>12, <2>1, <2>2, <3>1
  <2>4. node'[n].nrefs = node[n].nrefs + gain(n) /\ gain(n) \in {0, 1} /\ (n # at => gain(n) = 0)
    BY <1>11
  <2>5. node'[n].nrefs = Total(Entries, n)' + Total(Succs, n)' + Total(Helds, n)' + Own(n)'
    BY <1>12, <2>1, <2>2, <2>4
  <2>6. node[n].nrefs \in Int
    BY Plain
  <2> QED
    BY <2>1, <2>2, <2>3, <2>4, <2>5, <2>6
<1>15. Once'
  <2> SUFFICES ASSUME NEW n \in Members, n <= at, ~Linking(n), Open(n) = 0
               PROVE  Open(n)' = 0
    BY <1>1, <1>2, <1>6, OnceStill
  <2>1. n # at
    BY <1>2 DEF Linking
  <2> QED
    BY <1>11, <1>12, <2>1
<1>16. Hash'
  BY <1>1, <1>2, <1>6, HashStill
<1>17. Covered'
  <2> SUFFICES ASSUME NEW n \in Members, NEW q \in Members, Behind(n, q)
               PROVE  Behind(n, q)' \/ Below(q) \subseteq Ended'
    BY <1>1, <1>2, <1>6, CoveredStill
  <2>1. CASE n \in Range(node[q].successors)
    <3>1. n \in Range(node'[q].successors)
      <4>1. CASE linked /\ q = p
        <5>1. node[q].successors \in Seq(Members)
          BY Plain
        <5>2. n \in Range(<<at>> \o node[q].successors)
          BY <1>3, <2>1, <5>1, PushIs
        <5> QED
          BY <1>5, <4>1, <5>2
      <4>2. CASE ~(linked /\ q = p)
        BY <1>5, <2>1, <4>2
      <4> QED
        BY <4>1, <4>2
    <3> QED
      BY <3>1 DEF Behind
  <2>2. CASE n = at /\ q \in Range(todo)
    <3>1. CASE q \in Range(Tail(todo))
      BY <1>2, <2>2, <3>1 DEF Behind
    <3>2. CASE q = p /\ linked
      <4>1. node[q].successors \in Seq(Members)
        BY Plain
      <4>2. n \in Range(<<at>> \o node[q].successors)
        BY <1>3, <2>2, <4>1, PushIs
      <4> QED
        BY <1>5, <3>2, <4>2 DEF Behind
    <3>3. CASE q = p /\ ~linked
      <4>1. state[p] = "ran"
        <5>1. p <= at /\ p # at
          BY <1>3, <1>4
        <5>2. ~node[p].task
          BY <3>3 DEF linked
        <5> QED
          BY <1>1, <1>3, <5>1, <5>2 DEF Nodes
      <4>2. p \in Ended
        BY <1>3, <4>1 DEF Ended
      <4> QED
        BY <1>1, <1>6, <3>3, <4>2, BelowEnded
    <3> QED
      BY <1>3, <2>2, <3>1, <3>2, <3>3
  <2> QED
    BY <2>1, <2>2 DEF Behind
<1>18. Ordered'
  BY <1>1, <1>2, <1>6, OrderedStill
<1> QED
  BY <1>7, <1>8, <1>9, <1>10, <1>13, <1>14, <1>15, <1>16, <1>17, <1>18 DEF IInv

LEMMA NextIs ==
  ASSUME IInv, cpc = "process", todo = <<>>, dep <= Len(Deps(at)), NextDependence
  PROVE  /\ at \in Members /\ dep' = dep + 1 /\ dep' <= Len(Deps(at)) + 1 /\ dep' \in Nat \ {0}
         /\ todo' \in Seq(Members) /\ (dep' > Len(Deps(at)) => todo' = <<>>)
         /\ \A p \in Range(todo') : p < at /\ program[p].task /\ program[p].deps # <<>>
         /\ \A a \in Addresses :
              (\E i \in 1 .. dep + 1 : i <= Len(Deps(at)) /\ Deps(at)[i].addr = a) =>
                \/ \E i \in 1 .. dep : i <= Len(Deps(at)) /\ Deps(at)[i].addr = a
                \/ \A k \in 1 .. (at - 1) : Conflicts(k, at, a) =>
                     k \in Ended \/ \E p \in Members : p \in Range(todo') /\ k \in Below(p)
<1>1. /\ Types /\ Place /\ Hash /\ dep \in Nat \ {0} /\ Members \subseteq Nat /\ at \in Members
  BY Plain DEF Place
<1>2. Len(Deps(at)) \in Nat
  BY <1>1, DepsAre
<1>3. dep' = dep + 1 /\ todo' = IF dep < Len(Deps(at)) THEN Predecessors(at, dep + 1) ELSE <<>>
  BY DEF NextDependence
<1>4. CASE dep < Len(Deps(at))
  <2>1. dep + 1 \in 1 .. Len(Deps(at)) /\ todo' = Predecessors(at, dep + 1)
    BY <1>1, <1>2, <1>3, <1>4
  <2>2. \A k \in Members, a \in Addresses : k < at /\ Uses(k, a) => IsEntered(k, a)
    BY <1>1 DEF IsEntered
  <2>3. ~IsEntered(at, Deps(at)[dep + 1].addr)
    <3>1. CASE Deps(at)[dep + 1].addr = Void
      BY <1>1, <3>1, Basics DEF IsEntered
    <3>2. CASE Deps(at)[dep + 1].addr # Void
      <4>1. \A j \in 1 .. Len(Deps(at)) : Deps(at)[j].addr = Deps(at)[dep + 1].addr => j = dep + 1
        BY <1>1, <2>1, <3>2, DepsAre
      <4>2. \A j \in 1 .. (dep - 1) : j \in 1 .. Len(Deps(at)) /\ j # dep + 1
        BY <1>1, <1>2, <1>4
      <4> QED
        BY <4>1, <4>2 DEF IsEntered
    <3> QED
      BY <3>1, <3>2
  <2>4. \A k \in Members : k >= at => ~IsEntered(k, Deps(at)[dep + 1].addr)
    BY <1>1, <2>3 DEF IsEntered
  <2>5. /\ \A p \in Range(todo') : p \in Members /\ p < at /\ program[p].task /\ program[p].deps # <<>>
        /\ Deps(at)[dep + 1].addr # Void =>
             \A k \in 1 .. (at - 1) : Conflicts(k, at, Deps(at)[dep + 1].addr) =>
               k \in Ended \/ \E p \in Members : p \in Range(todo') /\ k \in Below(p)
    BY <1>1, <2>1, <2>2, <2>3, <2>4, Arrives
  <2>6. ASSUME NEW a \in Addresses, NEW i \in 1 .. dep + 1, i <= Len(Deps(at)), Deps(at)[i].addr = a
        PROVE  \/ \E j \in 1 .. dep : j <= Len(Deps(at)) /\ Deps(at)[j].addr = a
               \/ \A k \in 1 .. (at - 1) : Conflicts(k, at, a) =>
                    k \in Ended \/ \E p \in Members : p \in Range(todo') /\ k \in Below(p)
    <3>1. i \in 1 .. dep \/ i = dep + 1
      BY <1>1
    <3>2. a # Void
      BY <1>1, Basics
    <3> QED
      BY <2>5, <2>6, <3>1, <3>2
  <2>7. todo' \in Seq(Members)
    BY <1>1, <2>1, PredecessorsAre
  <2>8. dep' <= Len(Deps(at)) + 1 /\ dep' \in Nat \ {0} /\ ~(dep' > Len(Deps(at)))
    BY <1>1, <1>2, <1>3, <1>4
  <2> QED
    BY <1>1, <1>3, <2>5, <2>6, <2>7, <2>8
<1>5. CASE ~(dep < Len(Deps(at)))
  <2>1. todo' = <<>> /\ Range(<<>>) = {} /\ <<>> \in Seq(Members)
    BY <1>3, <1>5 DEF Range
  <2>2. dep = Len(Deps(at)) /\ dep' <= Len(Deps(at)) + 1 /\ dep' \in Nat \ {0}
    BY <1>1, <1>2, <1>3, <1>5
  <2>3. \A i \in 1 .. dep + 1 : i <= Len(Deps(at)) => i \in 1 .. dep
    BY <1>1, <1>2, <2>2
  <2> QED
    BY <1>1, <1>3, <2>1, <2>2, <2>3
<1> QED
  BY <1>4, <1>5

LEMMA SkipKeeps ==
  ASSUME IInv, Skip
  PROVE  IInv'
<1>1. Types /\ Place /\ Nodes /\ Runs /\ Counted /\ Referred /\ Once /\ Hash /\ Covered /\ Ordered
  BY Plain
<1>2. /\ cpc = "process" /\ todo = <<>> /\ dep <= Len(Deps(at)) /\ Deps(at)[dep].addr = Void
      /\ NextDependence /\ program' = program /\ node' = node /\ hash' = hash /\ queued' = queued
      /\ state' = state /\ at' = at /\ cpc' = cpc /\ found' = found /\ exec' = exec
  BY DEF Skip
<1>3. /\ at \in Members /\ dep' = dep + 1 /\ dep' <= Len(Deps(at)) + 1 /\ dep' \in Nat \ {0}
      /\ todo' \in Seq(Members) /\ (dep' > Len(Deps(at)) => todo' = <<>>)
      /\ \A p \in Range(todo') : p < at /\ program[p].task /\ program[p].deps # <<>>
      /\ \A a \in Addresses :
           (\E i \in 1 .. dep + 1 : i <= Len(Deps(at)) /\ Deps(at)[i].addr = a) =>
             \/ \E i \in 1 .. dep : i <= Len(Deps(at)) /\ Deps(at)[i].addr = a
             \/ \A k \in 1 .. (at - 1) : Conflicts(k, at, a) =>
                  k \in Ended \/ \E p \in Members : p \in Range(todo') /\ k \in Below(p)
  BY <1>2, NextIs
<1>4. /\ Members' = Members /\ Addresses' = Addresses /\ Members \subseteq Nat
      /\ dep \in Nat \ {0} /\ Void \notin Addresses
  BY <1>1, <1>2, Static, Plain, Basics
<1>5. \A n \in Members, a \in Addresses : IsEntered(n, a)' <=> IsEntered(n, a)
  <2> SUFFICES ASSUME NEW a \in Addresses
               PROVE  (\E i \in 1 .. dep : Deps(at)[i].addr = a)
                        <=> (\E i \in 1 .. (dep - 1) : Deps(at)[i].addr = a)
    BY <1>2, <1>3, <1>4, Static DEF IsEntered
  <2>1. \A i \in 1 .. dep : i = dep \/ i \in 1 .. (dep - 1)
    BY <1>4
  <2>2. 1 .. (dep - 1) \subseteq 1 .. dep /\ Deps(at)[dep].addr # a
    BY <1>2, <1>4
  <2> QED
    BY <2>1, <2>2
<1>6. ASSUME NEW n \in Members, NEW a \in Addresses, IsReached(n, a)'
      PROVE  \/ IsReached(n, a)
             \/ \A k \in 1 .. (n - 1) : Conflicts(k, n, a) =>
                  k \in Ended \/ \E p \in Members : Behind(n, p)' /\ k \in Below(p)
  <2>1. Uses(n, a) /\ n <= at
    BY <1>2, <1>6, Static DEF IsReached
  <2>2. CASE n # at
    BY <2>1, <2>2 DEF IsReached
  <2>3. CASE n = at
    <3>1. \E i \in 1 .. dep + 1 : i <= Len(Deps(at)) /\ Deps(at)[i].addr = a
      BY <1>2, <1>3, <1>6, <2>3, Static DEF IsReached
    <3>2. CASE \E i \in 1 .. dep : i <= Len(Deps(at)) /\ Deps(at)[i].addr = a
      BY <1>2, <2>1, <2>3, <3>2 DEF IsReached
    <3>3. CASE \A k \in 1 .. (at - 1) : Conflicts(k, at, a) =>
                 k \in Ended \/ \E p \in Members : p \in Range(todo') /\ k \in Below(p)
      BY <1>2, <2>3, <3>3 DEF Behind
    <3> QED
      BY <1>3, <3>1, <3>2, <3>3
  <2> QED
    BY <2>2, <2>3
<1>7. /\ \A n \in Members : Linking(n)' <=> Linking(n)
      /\ WaitOn' <=> WaitOn
      /\ Ended' = Ended /\ Started' = Started
      /\ \A n \in Members : ToQueue(n)' <=> ToQueue(n)
      /\ \A n \in Members : \A t \in DepThreads : Offers(t, n)' <=> Offers(t, n)
      /\ \A n \in Members : Own(n)' = Own(n)
  BY <1>2, <1>4 DEF Linking, WaitOn, Ended, Started, ToQueue, Offers, Own
<1>8. \A n \in Members : /\ Total(Succs, n)' = Total(Succs, n) /\ Total(Helds, n)' = Total(Helds, n)
                         /\ Total(Entries, n)' = Total(Entries, n) /\ Open(n)' = Open(n)
  BY <1>2, ListsStill
<1>9. Types'
  BY <1>1, <1>2, <1>3, TypesNext DEF Types
<1>10. Place'
  BY <1>1, <1>2, <1>3, Static DEF Place
<1>11. Nodes'
  BY <1>1, <1>2, <1>4, <1>7, Static DEF Nodes
<1>12. Runs'
  BY <1>1, <1>2, RunsStill
<1>13. Counted'
  BY <1>1, <1>2, <1>7, <1>8, CountedStill
<1>14. Referred'
  BY <1>1, <1>2, <1>7, <1>8, ReferredStill
<1>15. Once'
  BY <1>1, <1>2, <1>7, <1>8, OnceStill
<1>16. Hash'
  BY <1>1, <1>2, <1>5, <1>7, HashStill
<1>17. Covered'
  <2>1. \A n, p \in Members : Behind(n, p) => Behind(n, p)'
    BY <1>2 DEF Behind, Range
  <2> QED
    BY <1>1, <1>2, <1>6, <1>7, <2>1, CoveredStill
<1>18. Ordered'
  BY <1>1, <1>2, <1>7, OrderedStill
<1> QED
  BY <1>9, <1>10, <1>11, <1>12, <1>13, <1>14, <1>15, <1>16, <1>17, <1>18 DEF IInv

LEMMA SetTaskKeeps ==
  ASSUME IInv, SetTask
  PROVE  IInv'
<1>1. Types /\ Place /\ Nodes /\ Runs /\ Counted /\ Referred /\ Once /\ Hash /\ Covered /\ Ordered
  BY Plain
<1>2. /\ cpc = "process" /\ dep > Len(Deps(at)) /\ cpc' = "account"
      /\ node' = [node EXCEPT ![at].task = program[at].task]
      /\ program' = program /\ hash' = hash /\ queued' = queued /\ state' = state /\ at' = at
      /\ dep' = dep /\ todo' = todo /\ found' = found /\ exec' = exec
  BY DEF SetTask
<1>3. /\ at \in Members /\ state[at] = "created" /\ program[at].deps # <<>>
      /\ todo = <<>> /\ dep <= Len(Deps(at)) + 1
      /\ Len(Deps(at)) \in Nat /\ program[at].task \in BOOLEAN
  BY <1>1, <1>2, DepsAre, Basics DEF Place
<1>4. Members' = Members /\ Addresses' = Addresses /\ Members \subseteq Nat /\ dep \in Nat \ {0}
  BY <1>2, Static, Plain
<1>5. /\ node' \in [Members -> Node]
      /\ \A m \in Members :
           /\ node'[m].mem = node[m].mem /\ node'[m].npredecessors = node[m].npredecessors
           /\ node'[m].nrefs = node[m].nrefs /\ node'[m].successors = node[m].successors
           /\ node'[m].task = IF m = at THEN program[at].task ELSE node[m].task
  <2> DEFINE c == program[at].task
  <2>1. node \in [Members -> Node] /\ node[at] \in Node /\ c \in BOOLEAN
    BY <1>1, <1>3 DEF Types
  <2>2. node'[at] = [node[at] EXCEPT !.task = c] /\ \A m \in Members \ {at} : node'[m] = node[m]
    BY <1>2, <1>3, <2>1
  <2>3. node' = [m \in Members |-> node'[m]]
    BY <1>2, <2>1
  <2> HIDE DEF c
  <2>4. /\ node'[at] \in Node /\ node'[at].mem = node[at].mem
        /\ node'[at].npredecessors = node[at].npredecessors /\ node'[at].nrefs = node[at].nrefs
        /\ node'[at].successors = node[at].successors /\ node'[at].task = c
    BY <2>1, <2>2 DEF Node
  <2>5. node' \in [Members -> Node]
    BY <2>1, <2>2, <2>3, <2>4
  <2> QED
    BY <2>2, <2>4, <2>5 DEF c
<1>6. /\ \A i \in 1 .. Len(Deps(at)) : i \in 1 .. (dep - 1) /\ i \in 1 .. dep /\ i <= Len(Deps(at))
      /\ \A a \in Addresses : Uses(at, a) => \E i \in 1 .. Len(Deps(at)) : Deps(at)[i].addr = a
  BY <1>1, <1>2, <1>3, <1>4, DepsAre
<1>7. \A n \in Members, a \in Addresses : IsEntered(n, a)' <=> IsEntered(n, a)
  BY <1>2, <1>6, Static DEF IsEntered
<1>8. \A n \in Members, a \in Addresses : IsReached(n, a)' <=> IsReached(n, a)
  BY <1>2, <1>6, Static DEF IsReached
<1>9. /\ \A n \in Members : Linking(n)' <=> Linking(n)
      /\ WaitOn' <=> WaitOn
      /\ Ended' = Ended /\ Started' = Started
      /\ \A n \in Members : ToQueue(n)' <=> ToQueue(n)
      /\ \A n \in Members : \A t \in DepThreads : Offers(t, n)' <=> Offers(t, n)
      /\ \A n \in Members : Own(n)' = Own(n)
  BY <1>2, <1>4, <1>5 DEF Linking, WaitOn, Ended, Started, ToQueue, Offers, Own
<1>10. \A n \in Members : /\ Total(Succs, n)' = Total(Succs, n) /\ Total(Helds, n)' = Total(Helds, n)
                          /\ Total(Entries, n)' = Total(Entries, n) /\ Open(n)' = Open(n)
  BY <1>2, <1>5, ListsStill
<1>11. Types'
  BY <1>1, <1>2, <1>5, TypesNext DEF Types
<1>12. Place'
  BY <1>1, <1>2, <1>3, Static DEF Place
<1>13. Nodes'
  <2> SUFFICES ASSUME NEW n \in Members
               PROVE  /\ n > at => ~node'[n].task
                      /\ program[n].deps = <<>> => ~node'[n].task
                      /\ node'[n].task => program[n].task
                      /\ n <= at /\ program[n].deps # <<>> /\ program[n].task
                           => (~node'[n].task => state[n] = "ran")
                      /\ ~node'[n].task => node'[n].successors = <<>>
    BY <1>1, <1>2, <1>4, <1>5, <1>9, Static DEF Nodes
  <2>1. CASE n = at
    <3>1. n <= at /\ ~(n > at)
      BY <1>3, <1>4, <2>1
    <3>2. node[at].successors = <<>>
      BY <1>1, <1>2, <1>3 DEF Nodes
    <3> QED
      BY <1>3, <1>5, <2>1, <3>1, <3>2
  <2>2. CASE n # at
    BY <1>1, <1>5, <2>2 DEF Nodes
  <2> QED
    BY <2>1, <2>2
<1>14. Runs'
  BY <1>1, <1>2, <1>5, RunsStill
<1>15. Counted'
  BY <1>1, <1>2, <1>5, <1>9, <1>10, CountedStill
<1>16. Referred'
  BY <1>1, <1>2, <1>5, <1>9, <1>10, ReferredStill
<1>17. Once'
  BY <1>1, <1>2, <1>9, <1>10, OnceStill
<1>18. Hash'
  BY <1>1, <1>2, <1>7, <1>9, HashStill
<1>19. Covered'
  <2>1. \A n, p \in Members : Behind(n, p) => Behind(n, p)'
    BY <1>2, <1>5 DEF Behind
  <2> QED
    BY <1>1, <1>2, <1>8, <1>9, <2>1, CoveredStill
<1>20. Ordered'
  BY <1>1, <1>2, <1>9, OrderedStill
<1> QED
  BY <1>11, <1>12, <1>13, <1>14, <1>15, <1>16, <1>17, <1>18, <1>19, <1>20 DEF IInv

LEMMA AccountKeeps ==
  ASSUME IInv, Account
  PROVE  IInv'
<1> DEFINE c == node[at].npredecessors + found + 1
<1>1. Types /\ Place /\ Nodes /\ Runs /\ Counted /\ Referred /\ Once /\ Hash /\ Covered /\ Ordered
  BY Plain
<1>2. /\ cpc = "account"
      /\ node' = [node EXCEPT ![at].npredecessors = c]
      /\ cpc' = IF program[at].task THEN (IF node'[at].npredecessors > 0 THEN "next" ELSE "queue") ELSE "wait"
      /\ program' = program /\ hash' = hash /\ queued' = queued /\ state' = state /\ at' = at
      /\ dep' = dep /\ todo' = todo /\ found' = found /\ exec' = exec
  BY DEF Account
<1>3. /\ at \in Members /\ state[at] = "created" /\ program[at].deps # <<>>
      /\ todo = <<>> /\ program[at].task \in BOOLEAN
  BY <1>1, <1>2, Basics DEF Place
<1>4. /\ Members' = Members /\ Addresses' = Addresses /\ Members \subseteq Nat
      /\ found \in Nat /\ c \in Int
  <2>1. node[at].npredecessors \in Int /\ found \in Nat
    BY <1>3, Plain
  <2> QED
    BY <1>2, <2>1, Static, Plain
<1>5. c = Open(at) /\ Open(at) \in Nat
  <2>1. Linking(at)
    BY <1>2 DEF Linking
  <2>2. node[at].npredecessors = Open(at) - (found + 1)
    BY <1>1, <1>3, <2>1 DEF Counted
  <2>3. Open(at) \in Nat
    BY <1>1, ListsAre
  <2> QED
    BY <1>4, <2>2, <2>3
<1> HIDE DEF c
<1>6. /\ node' \in [Members -> Node]
      /\ \A m \in Members :
           /\ node'[m].mem = node[m].mem /\ node'[m].task = node[m].task
           /\ node'[m].nrefs = node[m].nrefs /\ node'[m].successors = node[m].successors
           /\ node'[m].npredecessors = IF m = at THEN c ELSE node[m].npredecessors
  <2>1. node \in [Members -> Node] /\ node[at] \in Node
    BY <1>1, <1>3 DEF Types
  <2>2. node'[at] = [node[at] EXCEPT !.npredecessors = c] /\ \A m \in Members \ {at} : node'[m] = node[m]
    BY <1>2, <1>3, <2>1
  <2>3. node' = [m \in Members |-> node'[m]]
    BY <1>2, <2>1
  <2>4. /\ node'[at] \in Node /\ node'[at].mem = node[at].mem
        /\ node'[at].task = node[at].task /\ node'[at].nrefs = node[at].nrefs
        /\ node'[at].successors = node[at].successors /\ node'[at].npredecessors = c
    BY <1>4, <2>1, <2>2 DEF Node
  <2>5. node' \in [Members -> Node]
    BY <2>1, <2>2, <2>3, <2>4
  <2> QED
    BY <2>2, <2>4, <2>5
<1>7. /\ cpc' = "wait" <=> ~program[at].task
      /\ cpc' = "queue" <=> program[at].task /\ Open(at) = 0
      /\ cpc' \in {"next", "queue", "wait"}
  BY <1>2, <1>3, <1>5, <1>6
<1>8. /\ \A n \in Members, a \in Addresses : IsEntered(n, a)' <=> IsEntered(n, a)
      /\ \A n \in Members, a \in Addresses : IsReached(n, a)' <=> IsReached(n, a)
  <2>1. cpc # "process" /\ cpc' # "process"
    BY <1>2, <1>7
  <2> QED
    BY <1>2, <2>1, Static DEF IsEntered, IsReached
<1>9. /\ \A n \in Members : ~Linking(n)' /\ (Linking(n) <=> n = at)
      /\ WaitOn' <=> WaitOn
      /\ Ended' = Ended /\ Started' = Started
      /\ \A n \in Members : ToQueue(n)' <=> n = at /\ program[n].task /\ Open(n) = 0
      /\ \A n \in Members : ~ToQueue(n)
      /\ \A n \in Members : \A t \in DepThreads : Offers(t, n)' <=> Offers(t, n)
      /\ \A n \in Members : Own(n)' = Own(n)
  BY <1>2, <1>4, <1>6, <1>7 DEF Linking, WaitOn, Ended, Started, ToQueue, Offers, Own
<1>10. \A n \in Members : /\ Total(Succs, n)' = Total(Succs, n) /\ Total(Helds, n)' = Total(Helds, n)
                          /\ Total(Entries, n)' = Total(Entries, n) /\ Open(n)' = Open(n)
  BY <1>2, <1>6, ListsStill
<1>11. Types'
  <2>1. cpc' \in {"next", "process", "account", "queue", "wait", "end"}
    BY <1>7
  <2> QED
    BY <1>1, <1>2, <1>6, <2>1, TypesNext DEF Types
<1>12. Place'
  BY <1>1, <1>2, <1>3, <1>7, Static DEF Place
<1>13. Nodes'
  <2> SUFFICES ASSUME NEW n \in Members
               PROVE  /\ n > at \/ program[n].deps = <<>> => node'[n].npredecessors = 0
                      /\ node[n].task => program[n].task
    BY <1>1, <1>2, <1>4, <1>6, <1>7, <1>9, Static DEF Nodes
  <2>1. n > at \/ program[n].deps = <<>> => n # at
    BY <1>3, <1>4
  <2> QED
    BY <1>1, <1>6, <2>1 DEF Nodes
<1>14. Runs'
  BY <1>1, <1>2, <1>6, RunsStill
<1>15. Counted'
  <2> SUFFICES ASSUME NEW n \in Members
               PROVE  node'[n].npredecessors = Open(n)'
    <3>1. \A n \in Members : Open(n)' \in Nat
      BY <1>1, <1>10, ListsAre
    <3> QED
      BY <1>4, <1>9, <3>1 DEF Counted
  <2>1. CASE n = at
    BY <1>5, <1>6, <1>10, <2>1
  <2>2. CASE n # at
    <3>1. Open(n) \in Nat
      BY <1>1, ListsAre
    <3> QED
      BY <1>1, <1>6, <1>9, <1>10, <2>2, <3>1 DEF Counted
  <2> QED
    BY <2>1, <2>2
<1>16. Referred'
  BY <1>1, <1>2, <1>6, <1>9, <1>10, ReferredStill
<1>17. Once'
  <2> SUFFICES ASSUME NEW n \in Members
               PROVE  /\ Due(n)' => n <= at /\ Open(n) = 0
                      /\ queued[n] <= 1 /\ (queued[n] > 0 => program[n].task)
                      /\ queued[n] > 0 => n \notin Started /\ ~ToQueue(n)' /\ \A t \in DepThreads : ~Offers(t, n)
                      /\ program[n].task /\ n \in Started => ~ToQueue(n)' /\ \A t \in DepThreads : ~Offers(t, n)
                      /\ ToQueue(n)' => \A t \in DepThreads : ~Offers(t, n)
                      /\ \A t, u \in DepThreads : Offers(t, n) /\ Offers(u, n) => t = u
    BY <1>2, <1>4, <1>9, <1>10, Static DEF Once
  <2>1. Due(n)' => Due(n) \/ ToQueue(n)'
    BY <1>2, <1>9 DEF Due
  <2>2. n = at => ~Due(n)
    BY <1>1, <1>9 DEF Once
  <2>3. n = at => n <= at
    BY <1>3, <1>4
  <2>4. ToQueue(n)' => n = at /\ Open(n) = 0
    BY <1>9
  <2>5. /\ Due(n) => n <= at /\ Open(n) = 0
        /\ queued[n] <= 1 /\ (queued[n] > 0 => program[n].task)
        /\ queued[n] > 0 => n \notin Started /\ \A t \in DepThreads : ~Offers(t, n)
        /\ program[n].task /\ n \in Started => \A t \in DepThreads : ~Offers(t, n)
        /\ \A t, u \in DepThreads : Offers(t, n) /\ Offers(u, n) => t = u
    BY <1>1 DEF Once
  <2>6. ~Due(n) => ~(queued[n] > 0) /\ n \notin Started /\ \A t \in DepThreads : ~Offers(t, n)
    BY DEF Due
  <2> QED
    BY <2>1, <2>2, <2>3, <2>4, <2>5, <2>6
<1>18. Hash'
  <2>1. WaitOn => WaitOn' /\ at' = at
    BY <1>2, <1>9
  <2>2. cpc # "end"
    BY <1>2
  <2> QED
    BY <1>1, <1>2, <1>8, <1>9, <2>1, <2>2, HashStill
<1>19. Covered'
  <2>1. \A n, p \in Members : Behind(n, p) => Behind(n, p)'
    BY <1>2, <1>6 DEF Behind
  <2> QED
    BY <1>1, <1>2, <1>8, <1>9, <2>1, CoveredStill
<1>20. Ordered'
  BY <1>1, <1>2, <1>9, OrderedStill
<1> QED
  BY <1>11, <1>12, <1>13, <1>14, <1>15, <1>16, <1>17, <1>18, <1>19, <1>20 DEF IInv

LEMMA QueueKeeps ==
  ASSUME IInv, Queue
  PROVE  IInv'
<1>1. Types /\ Place /\ Nodes /\ Runs /\ Counted /\ Referred /\ Once /\ Hash /\ Covered /\ Ordered
  BY Plain
<1>2. /\ cpc = "queue" /\ cpc' = "next" /\ queued' = [queued EXCEPT ![at] = @ + 1]
      /\ program' = program /\ node' = node /\ hash' = hash /\ state' = state /\ at' = at
      /\ dep' = dep /\ todo' = todo /\ found' = found /\ exec' = exec
  BY DEF Queue
<1>3. at \in Members /\ state[at] = "created" /\ program[at].task /\ todo = <<>>
  BY <1>1, <1>2 DEF Place
<1>4. Members' = Members /\ Addresses' = Addresses /\ Members \subseteq Nat
  BY <1>2, Static, Plain
<1>5. /\ queued' \in [Members -> Nat] /\ queued'[at] = queued[at] + 1
      /\ \A n \in Members : queued[n] \in Nat /\ (n # at => queued'[n] = queued[n])
  BY <1>1, <1>2, <1>3 DEF Types
<1>6. /\ \A n \in Members, a \in Addresses : IsEntered(n, a)' <=> IsEntered(n, a)
      /\ \A n \in Members, a \in Addresses : IsReached(n, a)' <=> IsReached(n, a)
  BY <1>2, Static DEF IsEntered, IsReached
<1>7. /\ \A n \in Members : ~Linking(n)' /\ ~Linking(n)
      /\ ~WaitOn' /\ ~WaitOn
      /\ Ended' = Ended /\ Started' = Started
      /\ \A n \in Members : ~ToQueue(n)' /\ (ToQueue(n) <=> n = at)
      /\ \A n \in Members : \A t \in DepThreads : Offers(t, n)' <=> Offers(t, n)
      /\ \A n \in Members : Own(n)' = Own(n)
  BY <1>2, <1>4 DEF Linking, WaitOn, Ended, Started, ToQueue, Offers, Own
<1>8. \A n \in Members : /\ Total(Succs, n)' = Total(Succs, n) /\ Total(Helds, n)' = Total(Helds, n)
                         /\ Total(Entries, n)' = Total(Entries, n) /\ Open(n)' = Open(n)
  BY <1>2, ListsStill
<1>9. Types'
  BY <1>1, <1>2, <1>5, TypesNext DEF Types
<1>10. Place'
  BY <1>1, <1>2, <1>3, Static DEF Place
<1>11. Nodes'
  <2> SUFFICES ASSUME NEW n \in Members
               PROVE  n > at => queued'[n] = 0
    BY <1>1, <1>2, <1>4, <1>7, Static DEF Nodes
  <2>1. n > at => n # at
    BY <1>3, <1>4
  <2> QED
    BY <1>1, <1>5, <2>1 DEF Nodes
<1>12. Runs'
  BY <1>1, <1>2, RunsStill
<1>13. Counted'
  BY <1>1, <1>2, <1>7, <1>8, CountedStill
<1>14. Referred'
  BY <1>1, <1>2, <1>7, <1>8, ReferredStill
<1>15. Once'
  <2> SUFFICES ASSUME NEW n \in Members
               PROVE  /\ Due(n)' => n <= at /\ Open(n) = 0
                      /\ queued'[n] <= 1 /\ (queued'[n] > 0 => program[n].task)
                      /\ queued'[n] > 0 => n \notin Started /\ \A t \in DepThreads : ~Offers(t, n)
                      /\ program[n].task /\ n \in Started => \A t \in DepThreads : ~Offers(t, n)
                      /\ \A t, u \in DepThreads : Offers(t, n) /\ Offers(u, n) => t = u
    BY <1>2, <1>4, <1>7, <1>8, Static DEF Once
  <2>1. /\ Due(n) => n <= at /\ Open(n) = 0
        /\ queued[n] <= 1 /\ (queued[n] > 0 => program[n].task)
        /\ queued[n] > 0 => n \notin Started /\ ~ToQueue(n) /\ \A t \in DepThreads : ~Offers(t, n)
        /\ program[n].task /\ n \in Started => ~ToQueue(n) /\ \A t \in DepThreads : ~Offers(t, n)
        /\ ToQueue(n) => \A t \in DepThreads : ~Offers(t, n)
        /\ \A t, u \in DepThreads : Offers(t, n) /\ Offers(u, n) => t = u
    BY <1>1 DEF Once
  <2>2. CASE n = at
    <3>1. ToQueue(n) /\ Due(n) /\ ~(queued[n] > 0) /\ n \notin Started
      BY <1>3, <1>7, <2>1, <2>2 DEF Due
    <3>2. queued'[n] = 1
      BY <1>5, <2>2, <3>1
    <3> QED
      BY <1>3, <2>1, <2>2, <3>1, <3>2
  <2>3. CASE n # at
    <3>1. queued'[n] = queued[n]
      BY <1>5, <2>3
    <3>2. Due(n)' => Due(n)
      BY <1>7, <3>1 DEF Due
    <3> QED
      BY <2>1, <3>1, <3>2
  <2> QED
    BY <2>2, <2>3
<1>16. Hash'
  BY <1>1, <1>2, <1>6, <1>7, HashStill
<1>17. Covered'
  <2>1. \A n, p \in Members : Behind(n, p) => Behind(n, p)'
    BY <1>2 DEF Behind
  <2> QED
    BY <1>1, <1>2, <1>6, <1>7, <2>1, CoveredStill
<1>18. Ordered'
  BY <1>1, <1>2, <1>7, OrderedStill
<1> QED
  BY <1>9, <1>10, <1>11, <1>12, <1>13, <1>14, <1>15, <1>16, <1>17, <1>18 DEF IInv

LEMMA EndWaitKeeps ==
  ASSUME IInv, EndWait
  PROVE  IInv'
<1>1. Types /\ Place /\ Nodes /\ Runs /\ Counted /\ Referred /\ Once /\ Hash /\ Covered /\ Ordered
  BY Plain
<1>2. /\ cpc = "wait" /\ cpc' = "next" /\ node[at].npredecessors <= 0
      /\ node' = [node EXCEPT ![at].mem = "gone"] /\ state' = [state EXCEPT ![at] = "ran"]
      /\ program' = program /\ hash' = hash /\ queued' = queued /\ at' = at
      /\ dep' = dep /\ todo' = todo /\ found' = found /\ exec' = exec
  BY DEF EndWait
<1>3. /\ at \in Members /\ state[at] = "created" /\ ~program[at].task /\ program[at].deps # <<>>
      /\ todo = <<>>
  BY <1>1, <1>2 DEF Place
<1>4. Members' = Members /\ Addresses' = Addresses /\ Members \subseteq Nat /\ at <= at
  BY <1>2, <1>3, Static, Plain
<1>5. /\ node' \in [Members -> Node]
      /\ \A m \in Members :
           /\ node'[m].npredecessors = node[m].npredecessors /\ node'[m].task = node[m].task
           /\ node'[m].nrefs = node[m].nrefs /\ node'[m].successors = node[m].successors
           /\ node'[m].mem = IF m = at THEN "gone" ELSE node[m].mem
  <2>1. node \in [Members -> Node] /\ node[at] \in Node
    BY <1>1, <1>3 DEF Types
  <2>2. node'[at] = [node[at] EXCEPT !.mem = "gone"] /\ \A m \in Members \ {at} : node'[m] = node[m]
    BY <1>2, <1>3, <2>1
  <2>3. node' = [m \in Members |-> node'[m]]
    BY <1>2, <2>1
  <2>4. /\ node'[at] \in Node /\ node'[at].npredecessors = node[at].npredecessors
        /\ node'[at].task = node[at].task /\ node'[at].nrefs = node[at].nrefs
        /\ node'[at].successors = node[at].successors /\ node'[at].mem = "gone"
    BY <2>1, <2>2 DEF Node
  <2>5. node' \in [Members -> Node]
    BY <2>1, <2>2, <2>3, <2>4
  <2> QED
    BY <2>2, <2>4, <2>5
<1>6. /\ state' \in [Members -> {"new", "created", "running", "ran"}] /\ state'[at] = "ran"
      /\ \A n \in Members : n # at => state'[n] = state[n]
  BY <1>1, <1>2, <1>3 DEF Types
<1>7. /\ \A n \in Members, a \in Addresses : IsEntered(n, a)' <=> IsEntered(n, a)
      /\ \A n \in Members, a \in Addresses : IsReached(n, a)' <=> IsReached(n, a)
  BY <1>2, Static DEF IsEntered, IsReached
<1>8. /\ \A n \in Members : ~Linking(n)' /\ ~Linking(n)
      /\ WaitOn /\ ~WaitOn'
      /\ \A n \in Members : ~ToQueue(n)' /\ ~ToQueue(n)
      /\ \A n \in Members : \A t \in DepThreads : Offers(t, n)' <=> Offers(t, n)
  BY <1>2, <1>3, <1>4 DEF Linking, WaitOn, ToQueue, Offers
<1>9. /\ \A n \in Members : n \in Ended' <=> n = at \/ n \in Ended
      /\ \A n \in Members : n \in Started' <=> n = at \/ n \in Started
      /\ Ended \subseteq Ended' /\ Ended \subseteq Members /\ Started' \subseteq Members
  BY <1>3, <1>4, <1>6 DEF Ended, Started
<1>10. \A n \in Members : Own(n)' = Own(n)
  <2> SUFFICES ASSUME NEW n \in Members PROVE Own(n)' = Own(n)
    OBVIOUS
  <2>1. CASE n = at
    <3>1. node[at].mem # "none"
      BY <1>1, <1>3, <1>4 DEF Nodes
    <3> QED
      BY <1>2, <1>3, <1>5, <2>1, <3>1 DEF Own
  <2>2. CASE n # at
    BY <1>2, <1>5, <1>6, <2>2 DEF Own
  <2> QED
    BY <2>1, <2>2
<1>11. \A n \in Members : /\ Total(Succs, n)' = Total(Succs, n) /\ Total(Helds, n)' = Total(Helds, n)
                          /\ Total(Entries, n)' = Total(Entries, n) /\ Open(n)' = Open(n)
  BY <1>2, <1>5, ListsStill
<1>12. Open(at) = 0
  <2>1. Open(at) \in Nat /\ node[at].npredecessors = Open(at)
    BY <1>1, <1>3, <1>8, ListsAre DEF Counted
  <2> QED
    BY <1>2, <2>1
<1>13. Before(at) \subseteq Ended /\ Below(at) \subseteq Ended'
  <2>1. Before(at) \subseteq Ended
    BY <1>1, <1>3, <1>4, <1>8, <1>12, ReadyEnded
  <2>2. \A w \in Before(at) : Before(w) \subseteq Ended
    BY <1>1, <2>1 DEF Ordered, Ended, Started
  <2>3. Below(at) \subseteq Ended \cup {at}
    BY <2>1, <2>2 DEF Below
  <2> QED
    BY <1>3, <1>9, <2>1, <2>3
<1>14. Types'
  BY <1>1, <1>2, <1>5, <1>6, TypesNext DEF Types
<1>15. Place'
  BY <1>1, <1>2, <1>3, Static DEF Place
<1>16. Nodes'
  <2> SUFFICES ASSUME NEW n \in Members
               PROVE  /\ n > at <=> state'[n] = "new"
                      /\ n > at \/ program[n].deps = <<>> => node'[n].mem = "none"
                      /\ n <= at /\ program[n].deps # <<>> =>
                           /\ node'[n].mem \in IF program[n].task THEN {"heap", "freed"} ELSE {"frame", "gone"}
                           /\ program[n].task => (~node[n].task => state'[n] = "ran")
                      /\ n <= at /\ ~program[n].task => state'[n] = "ran"
    BY <1>1, <1>2, <1>4, <1>5, Static DEF Nodes
  <2>1. CASE n = at
    <3>1. n <= at /\ ~(n > at)
      BY <1>3, <1>4, <2>1
    <3> QED
      BY <1>3, <1>5, <1>6, <2>1, <3>1
  <2>2. CASE n # at
    BY <1>1, <1>5, <1>6, <2>2 DEF Nodes
  <2> QED
    BY <2>1, <2>2
<1>17. Runs'
  <2>1. \A n \in Members : state[n] \in {"running", "ran"} => n # at
    BY <1>3
  <2> SUFFICES ASSUME NEW t \in DepThreads
               PROVE  /\ exec[t].pc = "body" => state'[exec[t].task] = "running"
                      /\ exec[t].pc \notin {"idle", "body"} =>
                           state'[exec[t].task] = "ran" /\ node'[exec[t].task].mem # "none"
    BY <1>1, <1>2, <1>4, Static DEF Runs
  <2>2. exec[t].pc # "idle" => exec[t].task \in Members
    BY <1>1 DEF Runs
  <2> QED
    BY <1>1, <1>5, <1>6, <2>1, <2>2 DEF Runs
<1>18. Counted'
  BY <1>1, <1>2, <1>5, <1>8, <1>11, CountedStill
<1>19. Referred'
  <2>1. \A n \in Members : /\ node'[n].mem = "heap" => node[n].mem = "heap"
                           /\ node'[n].mem = "freed" => node[n].mem = "freed"
    BY <1>5
  <2> QED
    BY <1>1, <1>2, <1>5, <1>10, <1>11, <2>1, ReferredStill
<1>20. Once'
  <2> SUFFICES ASSUME NEW n \in Members
               PROVE  /\ Due(n)' => n <= at /\ Open(n) = 0
                      /\ queued[n] <= 1 /\ (queued[n] > 0 => program[n].task)
                      /\ queued[n] > 0 => n \notin Started' /\ \A t \in DepThreads : ~Offers(t, n)
                      /\ program[n].task /\ n \in Started' => \A t \in DepThreads : ~Offers(t, n)
                      /\ \A t, u \in DepThreads : Offers(t, n) /\ Offers(u, n) => t = u
    BY <1>2, <1>4, <1>8, <1>11, Static DEF Once
  <2>1. /\ Due(n) => n <= at /\ Open(n) = 0
        /\ queued[n] <= 1 /\ (queued[n] > 0 => program[n].task)
        /\ queued[n] > 0 => n \notin Started /\ \A t \in DepThreads : ~Offers(t, n)
        /\ program[n].task /\ n \in Started => \A t \in DepThreads : ~Offers(t, n)
        /\ \A t, u \in DepThreads : Offers(t, n) /\ Offers(u, n) => t = u
    BY <1>1 DEF Once
  <2>2. Due(n)' => n = at \/ Due(n)
    BY <1>2, <1>8, <1>9 DEF Due
  <2> QED
    BY <1>3, <1>4, <1>9, <1>12, <2>1, <2>2
<1>21. Hash'
  <2>1. WaitOn => Below(at) \subseteq Ended'
    BY <1>13
  <2>2. cpc # "end"
    BY <1>2
  <2> QED
    BY <1>1, <1>2, <1>7, <1>9, <2>1, <2>2, HashStill
<1>22. Covered'
  <2>1. \A n, p \in Members : Behind(n, p) => Behind(n, p)'
    BY <1>2, <1>5 DEF Behind
  <2> QED
    BY <1>1, <1>2, <1>7, <1>9, <2>1, CoveredStill
<1>23. Ordered'
  <2>1. \A n \in Started' : n \in Started \/ Before(n) \subseteq Ended'
    BY <1>9, <1>13
  <2> QED
    BY <1>1, <1>2, <1>9, <2>1, OrderedStill
<1> QED
  BY <1>14, <1>15, <1>16, <1>17, <1>18, <1>19, <1>20, <1>21, <1>22, <1>23 DEF IInv

-----------------------------------------------------------------------------
(* The steps that give references back. *)

\* A node whose last reference goes is that of a task, and was there.
LEMMA GivenBack ==
  ASSUME IInv, NEW n \in Members, NEW nrefs \in Nat, NEW gain \in Nat, NEW lost \in Nat, NEW mem,
         nrefs = node[n].nrefs + gain - lost,
         mem = IF lost # 0 /\ nrefs = 0 THEN "freed" ELSE node[n].mem,
         gain # 0 => Own(n) = 1,
         ~program[n].task /\ node[n].mem # "none" => nrefs > 0
  PROVE  /\ mem # node[n].mem => node[n].mem = "heap" /\ mem = "freed" /\ program[n].task
         /\ mem = "none" <=> node[n].mem = "none"
         /\ mem = "heap" => nrefs > 0
         /\ mem = "freed" => nrefs = 0
         /\ n > at \/ program[n].deps = <<>> => nrefs = 0
<1>1. /\ Nodes /\ Runs /\ Types /\ Referred /\ Members \subseteq Nat /\ at \in Nat
      /\ node[n].nrefs \in Int /\ program[n].task \in BOOLEAN
  BY Plain, Basics
<1>2. /\ node[n].nrefs = Total(Entries, n) + Total(Succs, n) + Total(Helds, n) + Own(n)
      /\ node[n].mem = "heap" => node[n].nrefs > 0
      /\ node[n].mem = "freed" => node[n].nrefs = 0
      /\ Total(Entries, n) \in Nat /\ Total(Succs, n) \in Nat /\ Total(Helds, n) \in Nat
      /\ Own(n) \in {0, 1}
  BY <1>1, ListsAre DEF Referred, Own
<1> DEFINE old == node[n].nrefs
<1>3. old \in Nat /\ (gain # 0 => old > 0) /\ nrefs + lost = old + gain
  BY <1>1, <1>2
<1>4. node[n].nrefs > 0 => ~(n > at) /\ n <= at /\ program[n].deps # <<>>
  BY <1>1 DEF Nodes
<1>5. CASE lost # 0 /\ nrefs = 0
  <2>1. mem = "freed" /\ node[n].nrefs > 0
    <3>1. lost # 0 /\ nrefs = 0
      BY <1>5
    <3> HIDE DEF old
    <3>2. old > 0
      BY <1>3, <3>1
    <3> QED
      BY <1>5, <3>2 DEF old
  <2>2. node[n].mem \in IF program[n].task THEN {"heap", "freed"} ELSE {"frame", "gone"}
    BY <1>1, <1>4, <2>1 DEF Nodes
  <2>3. program[n].task
    BY <1>5, <2>2
  <2> QED
    BY <1>2, <1>5, <2>1, <2>2, <2>3
<1>6. CASE ~(lost # 0 /\ nrefs = 0)
  <2>1. mem = node[n].mem
    BY <1>6
  <2>2. old = 0 => gain = 0 /\ nrefs = 0 /\ lost = 0
    <3> HIDE DEF old
    <3> QED
      BY <1>3
  <2>3. nrefs = 0 => lost = 0 /\ old = 0
    <3>1. nrefs = 0 => lost = 0
      BY <1>6
    <3> HIDE DEF old
    <3> QED
      BY <1>3, <3>1
  <2>4. node[n].mem = "heap" => nrefs > 0
    <3>1. node[n].mem = "heap" => old # 0
      BY <1>2, <1>3
    <3> HIDE DEF old
    <3> QED
      BY <2>3, <3>1
  <2>5. node[n].mem = "freed" => nrefs = 0
    BY <1>2, <2>2
  <2>6. n > at \/ program[n].deps = <<>> => nrefs = 0
    <3>1. old > 0 => ~(n > at) /\ program[n].deps # <<>>
      BY <1>4
    <3>2. old \in Nat
      BY <1>3
    <3> HIDE DEF old
    <3> QED
      BY <2>2, <3>1, <3>2
  <2> QED
    BY <2>1, <2>4, <2>5, <2>6
<1> QED
  BY <1>5, <1>6

LEMMA NodesStill ==
  ASSUME Nodes, program' = program, at' = at, state' = state, queued' = queued,
         cpc' = "process" <=> cpc = "process", WaitOn => WaitOn',
         \A n \in Members :
           /\ node'[n].task = node[n].task /\ node'[n].npredecessors = node[n].npredecessors
           /\ node'[n].successors = node[n].successors
           /\ n > at \/ program[n].deps = <<>> => node'[n].nrefs = 0
           /\ node'[n].mem # node[n].mem =>
                node[n].mem = "heap" /\ node'[n].mem = "freed" /\ program[n].task
  PROVE  Nodes'
<1> SUFFICES ASSUME NEW n \in Members
             PROVE  /\ n > at \/ program[n].deps = <<>> => node'[n].mem = "none"
                    /\ n <= at /\ program[n].deps # <<>> =>
                         node'[n].mem \in IF program[n].task THEN {"heap", "freed"} ELSE {"frame", "gone"}
  BY Static DEF Nodes
<1>1. CASE node'[n].mem = node[n].mem
  BY <1>1 DEF Nodes
<1>2. CASE node'[n].mem # node[n].mem
  BY <1>2 DEF Nodes
<1> QED
  BY <1>1, <1>2

LEMMA FreeHashKeeps ==
  ASSUME IInv, FreeHash
  PROVE  IInv'
<1> DEFINE lost == [n \in Members |-> Cardinality(Places(Entries, n))]
<1>1. Types /\ Place /\ Nodes /\ Runs /\ Counted /\ Referred /\ Once /\ Hash /\ Covered /\ Ordered
  BY Plain
<1>2. /\ cpc = "next" /\ at = Len(program) /\ cpc' = "end" /\ node' = Deref(node, lost)
      /\ hash' = [a \in Addresses |-> [last_out |-> None, last_ins |-> <<>>]]
      /\ program' = program /\ queued' = queued /\ state' = state /\ at' = at
      /\ dep' = dep /\ todo' = todo /\ found' = found /\ exec' = exec
  BY DEF FreeHash
<1>3. todo = <<>>
  BY <1>1, <1>2 DEF Place
<1>4. Members' = Members /\ Addresses' = Addresses /\ Members \subseteq Nat
  BY <1>2, Static, Plain
<1>5. lost \in [Members -> Nat] /\ \A n \in Members : lost[n] = Total(Entries, n)
  BY <1>1, ListsAre DEF Total
<1> HIDE DEF lost
<1>6. /\ node' \in [Members -> Node]
      /\ \A m \in Members :
           /\ node'[m].task = node[m].task /\ node'[m].npredecessors = node[m].npredecessors
           /\ node'[m].successors = node[m].successors
           /\ node'[m].nrefs = node[m].nrefs - lost[m]
           /\ node'[m].mem = IF lost[m] # 0 /\ node[m].nrefs - lost[m] = 0 THEN "freed" ELSE node[m].mem
  <2>1. node \in [Members -> Node]
    BY <1>1 DEF Types
  <2> QED
    BY <1>2, <1>5, <2>1, DerefIs
<1>7. /\ \A n \in Members : ~Linking(n)' /\ ~Linking(n)
      /\ ~WaitOn' /\ ~WaitOn
      /\ Ended' = Ended /\ Started' = Started
      /\ \A n \in Members : ~ToQueue(n)' /\ ~ToQueue(n)
      /\ \A n \in Members : \A t \in DepThreads : Offers(t, n)' <=> Offers(t, n)
      /\ \A n \in Members, a \in Addresses : IsReached(n, a)' <=> IsReached(n, a)
  BY <1>2, <1>4, Static DEF Linking, WaitOn, Ended, Started, ToQueue, Offers, IsReached
<1>8. Types'
  <2>1. hash' \in [Addresses -> [last_out : Members \cup {None}, last_ins : Seq(Members)]]
    BY <1>2
  <2> QED
    BY <1>1, <1>2, <1>6, <2>1, TypesNext DEF Types
<1>9. \A n \in Members : /\ Total(Succs, n)' = Total(Succs, n) /\ Total(Helds, n)' = Total(Helds, n)
                         /\ Total(Lefts, n)' = Total(Lefts, n) /\ Open(n)' = Open(n)
  <2>1. \A n \in Members : /\ Total(Succs, n)' = Total(Succs, n) /\ Total(Helds, n)' = Total(Helds, n)
                           /\ Total(Lefts, n)' = Total(Lefts, n)
    BY <1>2, <1>6, SuccsStill, ThreadsStill
  <2> QED
    BY <2>1 DEF Open
<1>10. \A n \in Members : Total(Entries, n)' = 0
  <2>1. \A a \in Addresses : Entries'[a] = <<>>
    BY <1>2, <1>4 DEF Entries, Maybe
  <2>2. DOMAIN Entries' = Addresses
    BY <1>4 DEF Entries
  <2>3. Lists(Entries', Addresses, Members) /\ IsFiniteSet(Addresses)
    <3>1. IsFiniteSet(Addresses) /\ <<>> \in Seq(Members)
      BY <1>1, Basics
    <3> QED
      BY <2>1, <2>2, <3>1 DEF Lists
  <2> DEFINE e == Entries'
  <2>4. \A a \in Addresses : Range(e[a]) = {}
    BY <2>1 DEF Range
  <2>5. Lists(e, Addresses, Members)
    BY <2>3
  <2> HIDE DEF e
  <2>6. \A n : Total(e, n) = 0
    BY <2>3, <2>4, <2>5, TotalType
  <2> QED
    BY <2>6 DEF e
<1>11. ASSUME NEW n \in Members
       PROVE  /\ node'[n].nrefs \in Nat
              /\ node'[n].nrefs = Total(Entries, n)' + Total(Succs, n)' + Total(Helds, n)' + Own(n)
              /\ node'[n].mem # node[n].mem =>
                   node[n].mem = "heap" /\ node'[n].mem = "freed" /\ program[n].task
              /\ node'[n].mem = "none" <=> node[n].mem = "none"
              /\ node'[n].mem = "heap" => node'[n].nrefs > 0
              /\ node'[n].mem = "freed" => node'[n].nrefs = 0
              /\ n > at \/ program[n].deps = <<>> => node'[n].nrefs = 0
  <2>1. /\ node[n].nrefs = Total(Entries, n) + Total(Succs, n) + Total(Helds, n) + Own(n)
        /\ Total(Entries, n) \in Nat /\ Total(Succs, n) \in Nat /\ Total(Helds, n) \in Nat
        /\ Own(n) \in {0, 1} /\ lost[n] = Total(Entries, n) /\ lost[n] \in Nat
    BY <1>1, <1>5, ListsAre DEF Referred, Own
  <2>2. node'[n].nrefs = node[n].nrefs + 0 - lost[n] /\ node'[n].nrefs = Total(Succs, n) + Total(Helds, n) + Own(n)
    BY <1>6, <2>1
  <2>3. node'[n].nrefs \in Nat
    BY <2>1, <2>2
  <2>4. ~program[n].task /\ node[n].mem # "none" => node'[n].nrefs > 0
    BY <2>1, <2>2 DEF Own
  <2>5. node'[n].mem = IF lost[n] # 0 /\ node'[n].nrefs = 0 THEN "freed" ELSE node[n].mem
    BY <1>6
  <2> DEFINE r == node'[n].nrefs
             mem == node'[n].mem
             l == lost[n]
  <2>6. r \in Nat /\ l \in Nat /\ r = node[n].nrefs + 0 - l
    BY <2>1, <2>2, <2>3
  <2>7. /\ mem = IF l # 0 /\ r = 0 THEN "freed" ELSE node[n].mem
        /\ ~program[n].task /\ node[n].mem # "none" => r > 0
    BY <2>4, <2>5
  <2> HIDE DEF r, mem, l
  <2>8. /\ mem # node[n].mem => node[n].mem = "heap" /\ mem = "freed" /\ program[n].task
        /\ mem = "none" <=> node[n].mem = "none"
        /\ mem = "heap" => r > 0
        /\ mem = "freed" => r = 0
        /\ n > at \/ program[n].deps = <<>> => r = 0
    BY <2>6, <2>7, GivenBack
  <2> QED
    BY <1>9, <1>10, <2>1, <2>2, <2>3, <2>8 DEF r, mem
<1>12. Place'
  BY <1>1, <1>2, <1>3, Static DEF Place
<1>13. Nodes'
  BY <1>1, <1>2, <1>6, <1>7, <1>11, NodesStill
<1>14. Runs'
  BY <1>1, <1>2, <1>11, RunsStill
<1>15. Counted'
  BY <1>1, <1>2, <1>6, <1>7, <1>9, CountedStill
<1>16. Referred'
  <2>1. \A n \in Members : Own(n)' = Own(n)
    BY <1>2, <1>11 DEF Own
  <2> QED
    BY <1>4, <1>11, <2>1 DEF Referred
<1>17. Once'
  BY <1>1, <1>2, <1>7, <1>9, OnceStill
<1>18. Hash'
  BY <1>2 DEF Hash
<1>19. Covered'
  <2>1. \A n, p \in Members : Behind(n, p) => Behind(n, p)'
    BY <1>2, <1>6 DEF Behind
  <2> QED
    BY <1>1, <1>2, <1>7, <2>1, CoveredStill
<1>20. Ordered'
  BY <1>1, <1>2, <1>7, OrderedStill
<1> QED
  BY <1>8, <1>12, <1>13, <1>14, <1>15, <1>16, <1>17, <1>18, <1>19, <1>20 DEF IInv

\* What the hash loses and gains when a dependence is entered.
LEMMA EnteredIs ==
  ASSUME Types, NEW a \in Addresses, NEW d, d.out \in BOOLEAN, NEW n \in Members, NEW m \in Members
  PROVE  /\ Dropped(hash[a], d, n) \in Seq(Members)
         /\ Entered(hash[a], d, n) \in [last_out : Members \cup {None}, last_ins : Seq(Members)]
         /\ Count(Entered(hash[a], d, n).last_ins \o Maybe(Entered(hash[a], d, n).last_out), m)
              = Count(hash[a].last_ins \o Maybe(hash[a].last_out), m)
                  + (IF program[n].task THEN One(n, m) ELSE 0) - Count(Dropped(hash[a], d, n), m)
<1> DEFINE ins == hash[a].last_ins
           w == hash[a].last_out
           new == Entered(hash[a], d, n)
           none == <<>>
           last == Maybe(w)
           own == <<n>> \o ins
           at1 == Maybe(n)
<1>1. /\ ins \in Seq(Members) /\ w \in Members \cup {None} /\ None \notin Members
      /\ program[n].task \in BOOLEAN
  BY Basics DEF Types
<1>2. /\ none \in Seq(Members) /\ Count(none, m) = 0 /\ Maybe(None) = none
  <2>1. none \in Seq(Members)
    OBVIOUS
  <2> QED
    BY <2>1, CountNone DEF Maybe
<1>3. /\ last \in Seq(Members) /\ at1 \in Seq(Members) /\ Count(at1, m) = One(n, m)
  BY <1>1, MaybeIs
<1>4. own \in Seq(Members) /\ Count(own, m) = Count(ins, m) + One(n, m)
  BY <1>1, PushIs
<1>5. new.last_ins = IF d.out THEN none ELSE IF program[n].task THEN own ELSE ins
  BY DEF Entered
<1>6. new.last_out = IF ~program[n].task THEN None ELSE IF d.out THEN n ELSE w
  BY DEF Entered
<1>7. new = [last_ins |-> new.last_ins, last_out |-> new.last_out]
  BY DEF Entered
<1>8. Dropped(hash[a], d, n) = (IF d.out THEN ins ELSE none) \o (IF d.out \/ ~program[n].task THEN last ELSE none)
  BY DEF Dropped
<1>9. /\ Count(ins, m) \in Nat /\ Count(last, m) \in Nat /\ One(n, m) \in Nat
  BY <1>1, <1>3, CountType DEF One
<1> DEFINE i == new.last_ins
           o == new.last_out
           dropped == Dropped(hash[a], d, n)
<1> HIDE DEF new, ins, w, none, last, own, at1
<1>10. \A r, s \in Seq(Members) : r \o s \in Seq(Members) /\ Count(r \o s, m) = Count(r, m) + Count(s, m)
  BY CountCat
<1>11. i \in Seq(Members) /\ o \in Members \cup {None}
  BY <1>1, <1>2, <1>4, <1>5, <1>6
<1>12. new \in [last_out : Members \cup {None}, last_ins : Seq(Members)]
  BY <1>7, <1>11
<1>13. Maybe(o) = IF ~program[n].task THEN none ELSE IF d.out THEN at1 ELSE last
  BY <1>2, <1>6 DEF at1, last
<1>14. /\ dropped \in Seq(Members)
       /\ Count(dropped, m) = (IF d.out THEN Count(ins, m) ELSE 0)
                                + (IF d.out \/ ~program[n].task THEN Count(last, m) ELSE 0)
  BY <1>1, <1>2, <1>3, <1>8, <1>9, <1>10
<1> HIDE DEF i, o, dropped
<1>15. Count(i \o Maybe(o), m) = Count(i, m) + Count(Maybe(o), m)
  BY <1>2, <1>3, <1>10, <1>11, <1>13
<1>16. Count(i, m) = IF d.out THEN 0 ELSE IF program[n].task THEN Count(ins, m) + One(n, m) ELSE Count(ins, m)
  BY <1>2, <1>4, <1>5 DEF i
<1>17. Count(Maybe(o), m) = IF ~program[n].task THEN 0 ELSE IF d.out THEN One(n, m) ELSE Count(last, m)
  BY <1>2, <1>3, <1>13
<1>18. Count(ins \o last, m) = Count(ins, m) + Count(last, m)
  BY <1>1, <1>3, <1>10
<1>19. Count(i \o Maybe(o), m) = Count(ins \o last, m) + (IF program[n].task THEN One(n, m) ELSE 0) - Count(dropped, m)
  BY <1>1, <1>9, <1>14, <1>15, <1>16, <1>17, <1>18
<1> QED
  BY <1>12, <1>14, <1>19 DEF i, o, dropped, new, ins, last, w

LEMMA EnterKeeps ==
  ASSUME IInv, Enter
  PROVE  IInv'
<1> DEFINE d == Deps(at)[dep]
           z == d.addr
           ins == hash[z].last_ins
           w == hash[z].last_out
           dropped == Dropped(hash[z], d, at)
           after == IF program[at].task THEN Ref(node, at) ELSE node
           gain(n) == IF program[at].task THEN One(at, n) ELSE 0
<1>1. Types /\ Place /\ Nodes /\ Runs /\ Counted /\ Referred /\ Once /\ Hash /\ Covered /\ Ordered
  BY Plain
<1>2. /\ cpc = "process" /\ todo = <<>> /\ dep <= Len(Deps(at)) /\ z # Void
      /\ hash' = [hash EXCEPT ![z] = Entered(hash[z], d, at)]
      /\ node' = DerefAll(after, dropped)
      /\ NextDependence /\ program' = program /\ queued' = queued
      /\ state' = state /\ at' = at /\ cpc' = cpc /\ found' = found /\ exec' = exec
  BY DEF Enter
<1>3. /\ at \in Members /\ dep' = dep + 1 /\ dep' <= Len(Deps(at)) + 1 /\ dep' \in Nat \ {0}
      /\ todo' \in Seq(Members) /\ (dep' > Len(Deps(at)) => todo' = <<>>)
      /\ \A p \in Range(todo') : p < at /\ program[p].task /\ program[p].deps # <<>>
      /\ \A a \in Addresses :
           (\E i \in 1 .. dep + 1 : i <= Len(Deps(at)) /\ Deps(at)[i].addr = a) =>
             \/ \E i \in 1 .. dep : i <= Len(Deps(at)) /\ Deps(at)[i].addr = a
             \/ \A k \in 1 .. (at - 1) : Conflicts(k, at, a) =>
                  k \in Ended \/ \E p \in Members : p \in Range(todo') /\ k \in Below(p)
  BY <1>2, NextIs
<1>4. /\ Members' = Members /\ Addresses' = Addresses /\ Members \subseteq Nat \ {0} /\ at \in Nat
      /\ dep \in Nat \ {0} /\ Void \notin Addresses /\ None = 0
      /\ state[at] = "created" /\ program[at].deps # <<>> /\ program[at].task \in BOOLEAN
  BY <1>1, <1>2, <1>3, Static, Plain, Basics DEF Place, None
<1>5. /\ dep \in 1 .. Len(Deps(at)) /\ Len(Deps(at)) \in Nat
      /\ z \in Addresses /\ Uses(at, z) /\ d.out \in BOOLEAN /\ (d.out <=> Writes(at, z))
      /\ \A j \in 1 .. Len(Deps(at)) : Deps(at)[j].addr = z => j = dep
  <2>1. dep \in 1 .. Len(Deps(at)) /\ Len(Deps(at)) \in Nat
    BY <1>1, <1>2, <1>3, <1>4, DepsAre
  <2> QED
    BY <1>1, <1>2, <1>3, <2>1, DepsAre
<1>6. ins \in Seq(Members) /\ w \in Members \cup {None}
  BY <1>1, <1>5 DEF Types
<1>7. /\ hash' \in [Addresses -> [last_out : Members \cup {None}, last_ins : Seq(Members)]]
      /\ hash'[z].last_ins = IF d.out THEN <<>> ELSE IF program[at].task THEN <<at>> \o ins ELSE ins
      /\ hash'[z].last_out = IF ~program[at].task THEN None ELSE IF d.out THEN at ELSE w
      /\ \A a \in Addresses : a # z => hash'[a] = hash[a]
      /\ dropped \in Seq(Members)
      /\ \A m \in Members : Count(hash'[z].last_ins \o Maybe(hash'[z].last_out), m)
            = Count(ins \o Maybe(w), m) + gain(m) - Count(dropped, m)
  <2> DEFINE e == Entered(hash[z], d, at)
  <2>1. /\ dropped \in Seq(Members)
        /\ e \in [last_out : Members \cup {None}, last_ins : Seq(Members)]
        /\ \A m \in Members : Count(e.last_ins \o Maybe(e.last_out), m)
             = Count(ins \o Maybe(w), m) + gain(m) - Count(dropped, m)
    BY <1>1, <1>3, <1>5, EnteredIs
  <2>2. /\ e.last_ins = IF d.out THEN <<>> ELSE IF program[at].task THEN <<at>> \o ins ELSE ins
        /\ e.last_out = IF ~program[at].task THEN None ELSE IF d.out THEN at ELSE w
    BY DEF Entered
  <2> HIDE DEF e
  <2>3. hash' = [hash EXCEPT ![z] = e] /\ hash \in [Addresses -> [last_out : Members \cup {None}, last_ins : Seq(Members)]]
    BY <1>1, <1>2 DEF Types, e
  <2> HIDE DEF z
  <2>4. /\ hash' \in [Addresses -> [last_out : Members \cup {None}, last_ins : Seq(Members)]]
        /\ hash'[z] = e /\ \A a \in Addresses : a # z => hash'[a] = hash[a]
    BY <1>5, <2>1, <2>3
  <2> QED
    BY <2>1, <2>2, <2>4
<1>8. /\ \A n \in Members : gain(n) \in {0, 1} /\ (gain(n) # 0 => n = at)
      /\ \A n \in Members : Count(dropped, n) \in Nat
  BY <1>4, <1>7, CountType DEF One
<1> HIDE DEF z, ins, w, d
<1>9. /\ node' \in [Members -> Node]
      /\ \A m \in Members :
           /\ node'[m].task = node[m].task /\ node'[m].npredecessors = node[m].npredecessors
           /\ node'[m].successors = node[m].successors
           /\ node'[m].nrefs = node[m].nrefs + gain(m) - Count(dropped, m)
           /\ node'[m].mem = IF Count(dropped, m) # 0 /\ node[m].nrefs + gain(m) - Count(dropped, m) = 0
                             THEN "freed" ELSE node[m].mem
  <2>1. node \in [Members -> Node] /\ \A m \in Members : node[m].nrefs \in Int
    BY <1>1, Plain DEF Types
  <2>2. /\ after \in [Members -> Node]
        /\ \A m \in Members :
             /\ after[m].task = node[m].task /\ after[m].npredecessors = node[m].npredecessors
             /\ after[m].successors = node[m].successors /\ after[m].mem = node[m].mem
             /\ after[m].nrefs = node[m].nrefs + gain(m)
    <3>1. CASE program[at].task
      BY <1>3, <2>1, <3>1, RefIs
    <3>2. CASE ~program[at].task
      BY <2>1, <3>2
    <3> QED
      BY <3>1, <3>2
  <2> HIDE DEF after, dropped, gain
  <2>3. /\ node' \in [Members -> Node]
        /\ \A m \in Members :
             /\ node'[m].task = after[m].task /\ node'[m].npredecessors = after[m].npredecessors
             /\ node'[m].successors = after[m].successors
             /\ node'[m].nrefs = after[m].nrefs - Count(dropped, m)
             /\ node'[m].mem = IF Count(dropped, m) # 0 /\ after[m].nrefs - Count(dropped, m) = 0
                               THEN "freed" ELSE after[m].mem
    BY <1>2, <1>7, <2>2, DerefAllIs
  <2>4. ASSUME NEW m \in Members
        PROVE  /\ node'[m].nrefs = node[m].nrefs + gain(m) - Count(dropped, m)
               /\ node'[m].mem = IF Count(dropped, m) # 0 /\ node[m].nrefs + gain(m) - Count(dropped, m) = 0
                                 THEN "freed" ELSE node[m].mem
    <3>1. after[m].nrefs = node[m].nrefs + gain(m) /\ after[m].mem = node[m].mem
      BY <2>2
    <3>2. /\ node'[m].nrefs = after[m].nrefs - Count(dropped, m)
          /\ node'[m].mem = IF Count(dropped, m) # 0 /\ after[m].nrefs - Count(dropped, m) = 0
                            THEN "freed" ELSE after[m].mem
      BY <2>3
    <3>3. node[m].nrefs \in Int /\ gain(m) \in {0, 1} /\ Count(dropped, m) \in Nat
      BY <1>8, <2>1
    <3> QED
      BY <3>1, <3>2, <3>3
  <2> QED
    BY <2>2, <2>3, <2>4
<1> HIDE DEF after, dropped, gain, z, ins, w, d
<1>10. /\ \A n \in Members : Linking(n)' <=> Linking(n)
       /\ WaitOn' <=> WaitOn
       /\ WaitOn <=> ~program[at].task
       /\ Ended' = Ended /\ Started' = Started
       /\ \A n \in Members : ToQueue(n)' <=> ToQueue(n)
       /\ \A n \in Members : \A t \in DepThreads : Offers(t, n)' <=> Offers(t, n)
  BY <1>2, <1>4 DEF Linking, WaitOn, Ended, Started, ToQueue, Offers
<1>11. /\ \A n \in Members, a \in Addresses : a # z \/ n # at => (IsEntered(n, a)' <=> IsEntered(n, a))
       /\ \A a \in Addresses : a = z => IsEntered(at, a)' /\ ~IsEntered(at, a)
  <2>1. /\ \A i \in 1 .. dep : i = dep \/ i \in 1 .. (dep - 1)
        /\ 1 .. (dep - 1) \subseteq 1 .. dep /\ dep \in 1 .. dep /\ dep \notin 1 .. (dep - 1)
        /\ 1 .. dep \subseteq 1 .. Len(Deps(at))
    BY <1>2, <1>4, <1>5
  <2>2. \A a \in Addresses : a # z =>
          ((\E i \in 1 .. dep : Deps(at)[i].addr = a) <=> (\E i \in 1 .. (dep - 1) : Deps(at)[i].addr = a))
    BY <2>1 DEF z, d
  <2>3. dep' - 1 = dep
    BY <1>3, <1>4
  <2>4. \A n \in Members, a \in Addresses : a # z \/ n # at => (IsEntered(n, a)' <=> IsEntered(n, a))
    BY <1>2, <2>2, <2>3, Static DEF IsEntered
  <2>5. \A a \in Addresses : a = z => IsEntered(at, a)'
    <3> SUFFICES ASSUME NEW a \in Addresses, a = z PROVE IsEntered(at, a)'
      OBVIOUS
    <3>1. \E i \in 1 .. dep : Deps(at)[i].addr = a
      BY <2>1 DEF z, d
    <3>2. Uses(at, a)' /\ at <= at /\ Deps(at)' = Deps(at)
      BY <1>2, <1>4, <1>5, Static
    <3> QED
      BY <1>2, <2>3, <3>1, <3>2 DEF IsEntered
  <2>6. ~IsEntered(at, z)
    BY <1>2, <1>5, <2>1 DEF IsEntered
  <2> QED
    BY <2>4, <2>5, <2>6
<1>12. ASSUME NEW n \in Members, NEW a \in Addresses, IsReached(n, a)'
       PROVE  \/ IsReached(n, a)
              \/ \A k \in 1 .. (n - 1) : Conflicts(k, n, a) =>
                   k \in Ended \/ \E p \in Members : Behind(n, p)' /\ k \in Below(p)
  <2>1. Uses(n, a) /\ n <= at
    BY <1>2, <1>12, Static DEF IsReached
  <2>2. CASE n # at
    BY <2>1, <2>2 DEF IsReached
  <2>3. CASE n = at
    <3>1. \E i \in 1 .. dep + 1 : i <= Len(Deps(at)) /\ Deps(at)[i].addr = a
      BY <1>2, <1>3, <1>12, <2>3, Static DEF IsReached
    <3>2. CASE \E i \in 1 .. dep : i <= Len(Deps(at)) /\ Deps(at)[i].addr = a
      BY <1>2, <2>1, <2>3, <3>2 DEF IsReached
    <3>3. CASE \A k \in 1 .. (at - 1) : Conflicts(k, at, a) =>
                 k \in Ended \/ \E p \in Members : p \in Range(todo') /\ k \in Below(p)
      BY <1>2, <2>3, <3>3 DEF Behind
    <3> QED
      BY <1>3, <3>1, <3>2, <3>3
  <2> QED
    BY <2>2, <2>3
<1>13. Types'
  BY <1>1, <1>2, <1>3, <1>7, <1>9, TypesNext DEF Types
<1>14. \A n \in Members : /\ Total(Succs, n)' = Total(Succs, n) /\ Total(Helds, n)' = Total(Helds, n)
                          /\ Total(Lefts, n)' = Total(Lefts, n) /\ Open(n)' = Open(n)
  <2>1. \A n \in Members : /\ Total(Succs, n)' = Total(Succs, n) /\ Total(Helds, n)' = Total(Helds, n)
                           /\ Total(Lefts, n)' = Total(Lefts, n)
    BY <1>2, <1>9, SuccsStill, ThreadsStill
  <2> QED
    BY <2>1 DEF Open
<1>15. Place'
  BY <1>1, <1>2, <1>3, Static DEF Place
<1>16. ASSUME NEW n \in Members
       PROVE  /\ node'[n].nrefs \in Nat
              /\ node'[n].nrefs = Total(Entries, n)' + Total(Succs, n)' + Total(Helds, n)' + Own(n)
              /\ node'[n].mem # node[n].mem =>
                   node[n].mem = "heap" /\ node'[n].mem = "freed" /\ program[n].task
              /\ node'[n].mem = "none" <=> node[n].mem = "none"
              /\ node'[n].mem = "heap" => node'[n].nrefs > 0
              /\ node'[n].mem = "freed" => node'[n].nrefs = 0
              /\ n > at \/ program[n].deps = <<>> => node'[n].nrefs = 0
  <2> DEFINE r == node'[n].nrefs
             mem == node'[n].mem
             l == Count(dropped, n)
             g == gain(n)
             total == Total(Entries, n)
             new == Total(Entries, n)'
             rest == Total(Succs, n) + Total(Helds, n)
  <2>1. /\ node[n].nrefs = total + rest + Own(n)
        /\ total \in Nat /\ rest \in Nat /\ Own(n) \in {0, 1} /\ l \in Nat /\ g \in {0, 1}
    BY <1>1, <1>8, ListsAre DEF Referred, Own
  <2>2. Runs'
    <3>1. /\ \A t \in DepThreads : exec[t].pc # "idle" => exec[t].task \in Members
          /\ \A t \in DepThreads : exec[t].pc \notin {"idle", "body"} =>
               node[exec[t].task].mem # "none" /\ exec[t].task \in Members
      BY <1>1 DEF Runs
    <3>2. \A m \in Members : node'[m].mem = "none" => node[m].mem = "none"
      BY <1>9
    <3> QED
      BY <1>1, <1>2, <3>2, RunsStill
  <2>3. new = total + g - l
    <3>1. /\ \A b \in Addresses \ {z} : hash'[b] = hash[b]
          /\ Count(hash'[z].last_ins \o Maybe(hash'[z].last_out), n)
               = Count(hash[z].last_ins \o Maybe(hash[z].last_out), n) + g - l
      BY <1>7 DEF ins, w
    <3>2. new = total + Count(hash'[z].last_ins \o Maybe(hash'[z].last_out), n)
                      - Count(hash[z].last_ins \o Maybe(hash[z].last_out), n)
      BY <1>1, <1>2, <1>5, <1>13, <2>2, <3>1, EntriesChange
    <3>3. Count(hash[z].last_ins \o Maybe(hash[z].last_out), n) \in Nat
      <4>1. hash[z].last_ins \in Seq(Members) /\ Maybe(hash[z].last_out) \in Seq(Members)
        BY <1>1, <1>5, <1>6, MaybeIs, Basics DEF ins, w
      <4>2. hash[z].last_ins \o Maybe(hash[z].last_out) \in Seq(Members)
        BY <4>1, CountCat
      <4> QED
        BY <4>2, CountType
    <3> HIDE DEF new, total, g, l
    <3> QED
      BY <2>1, <3>1, <3>2, <3>3
  <2>4. new \in Nat
    BY <1>13, <2>2, ListsAreNext
  <2>5. r = node[n].nrefs + g - l /\ mem = IF l # 0 /\ r = 0 THEN "freed" ELSE node[n].mem
    BY <1>9
  <2>6. n = at => Own(n) = 1
    <3>1. n = at => n <= at /\ ~(n > at) /\ program[n].deps # <<>>
      BY <1>4
    <3>2. n = at => node[n].mem # "none"
      BY <1>1, <1>4, <3>1 DEF Nodes
    <3> QED
      BY <1>4, <3>2 DEF Own
  <2>7. g # 0 => Own(n) = 1
    BY <1>8, <2>6
  <2>8. ~program[n].task /\ node[n].mem # "none" => Own(n) = 1
    BY DEF Own
  <2>9. /\ Total(Succs, n)' + Total(Helds, n)' = rest
        /\ Total(Succs, n)' \in Nat /\ Total(Helds, n)' \in Nat
    BY <1>13, <1>14, <2>2, ListsAreNext
  <2> HIDE DEF r, mem, l, g, total, rest, new
  <2>10. r = new + rest + Own(n) /\ r \in Nat
    BY <2>1, <2>3, <2>4, <2>5
  <2>11. ~program[n].task /\ node[n].mem # "none" => r > 0
    BY <2>1, <2>4, <2>8, <2>10
  <2>12. g \in Nat
    BY <2>1
  <2>13. /\ mem # node[n].mem => node[n].mem = "heap" /\ mem = "freed" /\ program[n].task
         /\ mem = "none" <=> node[n].mem = "none"
         /\ mem = "heap" => r > 0
         /\ mem = "freed" => r = 0
         /\ n > at \/ program[n].deps = <<>> => r = 0
    BY <2>1, <2>5, <2>7, <2>10, <2>11, <2>12, GivenBack
  <2>14. node'[n].nrefs = Total(Entries, n)' + Total(Succs, n)' + Total(Helds, n)' + Own(n)
    BY <2>1, <2>4, <2>9, <2>10 DEF r, new
  <2> QED
    BY <2>10, <2>13, <2>14 DEF r, mem
<1>17. Nodes'
  BY <1>1, <1>2, <1>9, <1>10, <1>16, NodesStill
<1>18. Runs'
  BY <1>1, <1>2, <1>16, RunsStill
<1>19. Counted'
  BY <1>1, <1>2, <1>9, <1>10, <1>14, CountedStill
<1>20. Referred'
  <2>1. \A n \in Members : Own(n)' = Own(n)
    BY <1>2, <1>16 DEF Own
  <2> QED
    BY <1>4, <1>16, <2>1 DEF Referred
<1>21. Once'
  BY <1>1, <1>2, <1>10, <1>14, OnceStill
<1>22. Hash'
  <2> SUFFICES ASSUME NEW a \in Addresses
               PROVE  /\ \A r \in Range(hash'[a].last_ins) :
                           program[r].task /\ IsEntered(r, a)' /\ ~Writes(r, a) /\ hash'[a].last_out < r
                      /\ hash'[a].last_out # None =>
                           /\ program[hash'[a].last_out].task /\ IsEntered(hash[a].last_out, a)'
                           /\ Writes(hash'[a].last_out, a)
                      /\ \A k \in Members : IsEntered(k, a)' => Known(k, a)'
    <3>1. \A n, b : Writes(n, b)' <=> Writes(n, b)
      BY <1>2, Static
    <3> QED
      BY <1>2, <1>4, <3>1 DEF Hash
  <2>1. /\ \A r \in Range(hash[a].last_ins) :
             r \in Members /\ program[r].task /\ IsEntered(r, a) /\ ~Writes(r, a) /\ hash[a].last_out < r
        /\ hash[a].last_out # None =>
             /\ hash[a].last_out \in Members
             /\ program[hash[a].last_out].task /\ IsEntered(hash[a].last_out, a)
             /\ Writes(hash[a].last_out, a)
        /\ \A k \in Members : IsEntered(k, a) => Known(k, a)
    <3>1. hash[a].last_ins \in Seq(Members) /\ hash[a].last_out \in Members \cup {None}
      BY <1>1 DEF Types
    <3>2. \A r \in Range(hash[a].last_ins) : r \in Members
      BY <3>1 DEF Range
    <3> QED
      BY <1>1, <1>2, <3>1, <3>2 DEF Hash
  <2>2. \A k : Below(k)' = Below(k)
    BY <1>2, Static
  <2>3. CASE a # z
    <3>1. hash'[a] = hash[a] /\ \A n \in Members : IsEntered(n, a)' <=> IsEntered(n, a)
      BY <1>7, <1>11, <2>3
    <3>2. \A k \in Members : Known(k, a) => Known(k, a)'
      BY <1>2, <1>3, <1>10, <2>2, <3>1 DEF Known
    <3>3. hash'[a].last_out # None => IsEntered(hash[a].last_out, a)'
      <4>1. \A x \in Members : IsEntered(x, a) => IsEntered(x, a)'
        BY <3>1
      <4>2. \A x : x = hash'[a].last_out /\ x # None => IsEntered(x, a)'
        BY <2>1, <3>1, <4>1
      <4> QED
        BY <4>2
    <3> QED
      BY <2>1, <3>1, <3>2, <3>3
  <2>4. CASE a = z
    <3>1. /\ \A n \in Members : n # at => (IsEntered(n, a)' <=> IsEntered(n, a))
          /\ IsEntered(at, a)' /\ ~IsEntered(at, a)
      BY <1>11, <2>4
    <3>2. /\ hash'[a].last_ins = IF d.out THEN <<>> ELSE IF program[at].task THEN <<at>> \o ins ELSE ins
          /\ hash'[a].last_out = IF ~program[at].task THEN None ELSE IF d.out THEN at ELSE w
          /\ hash[a].last_ins = ins /\ hash[a].last_out = w
          /\ d.out \in BOOLEAN /\ (d.out <=> Writes(at, a)) /\ Uses(at, a)
      BY <1>5, <1>7, <2>4 DEF ins, w
    <3>3. /\ \A r \in Range(ins) : r \in Members /\ r # at /\ program[r].task /\ IsEntered(r, a)
                                   /\ ~Writes(r, a) /\ w < r
          /\ w # None => w \in Members /\ w # at /\ w < at /\ program[w].task /\ IsEntered(w, a) /\ Writes(w, a)
      <4>1. \A r \in Members : IsEntered(r, a) => r # at /\ r <= at
        BY <3>1 DEF IsEntered
      <4>2. \A r \in Members : IsEntered(r, a) => r < at
        BY <1>4, <4>1
      <4> QED
        BY <2>1, <3>2, <4>1, <4>2
    <3>4. \A x : x \in Range(hash'[a].last_ins) =>
            \/ x \in Range(ins) /\ ~d.out
            \/ x = at /\ program[at].task /\ ~d.out
      <4>1. CASE d.out
        BY <3>2, <4>1 DEF Range
      <4>2. CASE ~d.out /\ program[at].task
        BY <1>3, <1>6, <3>2, <4>2, PushIs
      <4>3. CASE ~d.out /\ ~program[at].task
        BY <3>2, <4>3
      <4> QED
        BY <3>2, <4>1, <4>2, <4>3
    <3>5. ~d.out => \A x : x \in Range(ins) => x \in Range(hash'[a].last_ins)
      BY <1>3, <1>6, <3>2, PushIs
    <3>6. program[at].task /\ ~d.out => at \in Range(hash'[a].last_ins)
      BY <1>3, <1>6, <3>2, PushIs
    <3>7. ASSUME NEW r \in Range(hash'[a].last_ins)
          PROVE  program[r].task /\ IsEntered(r, a)' /\ ~Writes(r, a) /\ hash'[a].last_out < r
      <4>1. ~d.out /\ (hash'[a].last_out = None \/ hash'[a].last_out = w)
        BY <3>2, <3>4, <3>7
      <4>2. CASE r \in Range(ins)
        <5>1. r \in Members /\ r # at /\ program[r].task /\ IsEntered(r, a) /\ ~Writes(r, a) /\ w < r
          BY <3>3, <4>2
        <5>2. IsEntered(r, a)'
          BY <3>1, <5>1
        <5>3. None < r
          <6>1. r \in Nat \ {0} /\ None = 0
            BY <1>4, <5>1
          <6> QED
            BY <6>1
        <5> QED
          BY <4>1, <5>1, <5>2, <5>3
      <4>3. CASE r = at /\ program[at].task
        <5>1. w < at /\ None < at
          BY <1>3, <1>4, <1>6, <3>3
        <5>2. hash'[a].last_out < at
          BY <4>1, <5>1
        <5>3. ~Writes(at, a)
          BY <3>2, <4>1
        <5>4. \A x : x = at => IsEntered(x, a)'
          BY <1>2, <3>1
        <5> QED
          BY <4>3, <5>2, <5>3, <5>4
      <4> QED
        BY <3>4, <4>2, <4>3
    <3>8. ASSUME hash'[a].last_out # None
          PROVE  /\ program[hash'[a].last_out].task /\ IsEntered(hash[a].last_out, a)'
                 /\ Writes(hash'[a].last_out, a)
      <4>1. CASE d.out
        <5>1. hash'[a].last_out = at /\ program[at].task
          BY <3>2, <3>8, <4>1
        <5>2. \A x : x = at => IsEntered(x, a)'
          BY <1>2, <3>1
        <5>3. IsEntered(hash[a].last_out, a)'
          BY <5>1, <5>2
        <5> QED
          BY <3>2, <4>1, <5>1, <5>3
      <4>2. CASE ~d.out
        <5>1. hash'[a].last_out = w /\ w # None
          BY <3>2, <3>8, <4>2
        <5>2. \A x \in Members : x = w => IsEntered(x, a)'
          BY <3>1, <3>3, <5>1
        <5>3. IsEntered(hash[a].last_out, a)'
          BY <3>3, <5>1, <5>2
        <5> QED
          BY <3>3, <5>1, <5>3
      <4> QED
        BY <3>2, <4>1, <4>2
    <3>9. ASSUME NEW k \in Members, IsEntered(k, a)'
          PROVE  Known(k, a)'
      <4>1. ~program[at].task /\ k \in Below(at) => Known(k, a)'
        BY <1>2, <1>10, <2>2, <3>1 DEF Known
      <4>2. CASE k = at
        <5>1. CASE program[at].task
          BY <1>3, <3>2, <3>6, <4>2, <5>1 DEF Known
        <5>2. CASE ~program[at].task
          BY <4>1, <4>2, <5>2 DEF Below
        <5> QED
          BY <5>1, <5>2
      <4>3. CASE k # at
        <5>1. IsEntered(k, a) /\ Uses(k, a) /\ k <= at
          BY <3>1, <3>9, <4>3 DEF IsEntered
        <5>2. k < at /\ k \in 1 .. (at - 1)
          BY <1>4, <4>3, <5>1
        <5>3. k \in Ended \/ k = w \/ k \in Range(ins) \/ (w # None /\ k < w)
          BY <2>1, <3>1, <3>2, <5>1 DEF Known
        <5>4. CASE k \in Ended
          BY <1>10, <5>4 DEF Known
        <5>5. CASE program[at].task /\ d.out
          <6>1. hash'[a].last_out = at /\ at # None /\ k < at
            BY <1>3, <1>4, <3>2, <5>2, <5>5
          <6> QED
            BY <6>1 DEF Known
        <5>6. CASE program[at].task /\ ~d.out
          <6>1. hash'[a].last_out = w
            BY <3>2, <5>6
          <6> QED
            BY <3>5, <5>3, <5>4, <5>6, <6>1 DEF Known
        <5>7. CASE ~program[at].task /\ d.out
          <6>1. Conflicts(k, at, a)
            BY <3>2, <5>1, <5>7 DEF Conflicts
          <6>2. k \in Before(at)
            BY <1>1, <1>3, <5>2, <6>1, BeforeIs
          <6> QED
            BY <4>1, <5>7, <6>2 DEF Below
        <5>8. CASE ~program[at].task /\ ~d.out
          <6>1. CASE k \in Range(ins)
            BY <3>5, <5>8, <6>1 DEF Known
          <6>2. CASE w # None /\ (k = w \/ k < w)
            <7>1. w \in Members /\ w \in 1 .. (at - 1) /\ Writes(w, a) /\ Uses(w, a)
              <8>1. w \in Members /\ w < at /\ IsEntered(w, a) /\ Writes(w, a)
                BY <3>3, <6>2
              <8>2. w \in 1 .. (at - 1)
                BY <1>4, <8>1
              <8> QED
                BY <8>1, <8>2 DEF IsEntered
            <7>2. Conflicts(w, at, a)
              BY <3>2, <7>1 DEF Conflicts
            <7>3. w \in Before(at)
              BY <1>1, <1>3, <7>1, <7>2, BeforeIs
            <7>4. k = w \/ k \in Before(w)
              <8>1. CASE k < w
                <9>1. Conflicts(k, w, a) /\ k \in 1 .. (w - 1)
                  BY <1>4, <5>1, <7>1, <8>1 DEF Conflicts
                <9> QED
                  BY <1>1, <7>1, <9>1, BeforeIs
              <8> QED
                BY <6>2, <8>1
            <7>5. k \in Below(at)
              BY <7>3, <7>4 DEF Below
            <7> QED
              BY <4>1, <5>8, <7>5
          <6> QED
            BY <1>4, <5>3, <5>4, <6>1, <6>2
        <5> QED
          BY <3>2, <5>5, <5>6, <5>7, <5>8
      <4> QED
        BY <4>2, <4>3
    <3> QED
      BY <3>7, <3>8, <3>9
  <2> QED
    BY <2>3, <2>4
<1>23. Covered'
  <2>1. \A n, p \in Members : Behind(n, p) => Behind(n, p)'
    BY <1>2, <1>9 DEF Behind, Range
  <2> QED
    BY <1>1, <1>2, <1>10, <1>12, <2>1, CoveredStill
<1>24. Ordered'
  BY <1>1, <1>2, <1>10, OrderedStill
<1> QED
  BY <1>13, <1>15, <1>17, <1>18, <1>19, <1>20, <1>21, <1>22, <1>23, <1>24 DEF IInv

-----------------------------------------------------------------------------
(* The next member. *)

LEMMA BeginMemberKeeps ==
  ASSUME IInv, BeginMember
  PROVE  IInv'
<1> DEFINE n == at + 1
           empty == program[n].deps = <<>>
           c == IF program[n].task THEN "heap" ELSE "frame"
<1>1. Types /\ Place /\ Nodes /\ Runs /\ Counted /\ Referred /\ Once /\ Hash /\ Covered /\ Ordered
  BY Plain
<1>2. /\ cpc = "next" /\ at < Len(program) /\ at' = n /\ dep' = 1 /\ found' = 0
      /\ program' = program /\ hash' = hash /\ queued' = queued /\ exec' = exec
      /\ empty => /\ cpc' = IF program[n].task THEN "queue" ELSE "next"
                  /\ state' = [state EXCEPT ![n] = IF program[n].task THEN "created" ELSE "ran"]
                  /\ node' = node /\ todo' = todo
      /\ ~empty => /\ cpc' = "process" /\ state' = [state EXCEPT ![n] = "created"]
                   /\ todo' = Predecessors(n, 1)
                   /\ node' = [node EXCEPT ![n] = [@ EXCEPT !.npredecessors = -1, !.nrefs = 1, !.mem = c]]
  BY DEF BeginMember
<1>3. /\ n \in Members /\ n \in Nat /\ n > at /\ at \in Nat /\ todo = <<>> /\ program[n].task \in BOOLEAN
      /\ Len(Deps(n)) \in Nat /\ (empty <=> Len(Deps(n)) = 0)
      /\ \A m \in Members : m # n => (m > n <=> m > at) /\ (m <= n <=> m <= at)
      /\ ~(n > n) /\ n <= n /\ ~(n <= at) /\ n # at
  <2>1. n \in Members /\ at \in Nat /\ Members \subseteq Nat
    <3>1. /\ at \in 0 .. Len(program) /\ Len(program) \in Nat /\ Members = 1 .. Len(program)
          /\ at < Len(program)
      BY <1>1, <1>2, Basics DEF Types
    <3> QED
      BY <3>1
  <2>2. program[n].deps \in Seq(Dependence) /\ Len(Deps(n)) = Len(program[n].deps) /\ program[n].task \in BOOLEAN
    BY <1>1, <2>1, Basics, DepsAre
  <2>3. Len(Deps(n)) \in Nat /\ (empty <=> Len(Deps(n)) = 0)
    BY <2>2
  <2>4. todo = <<>>
    BY <1>1, <1>2 DEF Place
  <2> QED
    BY <2>1, <2>2, <2>3, <2>4
<1>4. Members' = Members /\ Addresses' = Addresses /\ Members \subseteq Nat
  BY <1>2, Static, Plain
<1>5. /\ state[n] = "new" /\ queued[n] = 0 /\ node[n].mem = "none" /\ ~node[n].task
      /\ node[n].npredecessors = 0 /\ node[n].nrefs = 0 /\ node[n].successors = <<>>
  BY <1>1, <1>3 DEF Nodes
<1> HIDE DEF n, empty
<1>6. /\ node' \in [Members -> Node]
      /\ \A m \in Members : /\ m # n \/ empty => node'[m] = node[m]
                            /\ node'[m].task = node[m].task
                            /\ node'[m].successors = node[m].successors
      /\ ~empty => node'[n].npredecessors = -1 /\ node'[n].nrefs = 1 /\ node'[n].mem = c
  <2>1. node \in [Members -> Node] /\ node[n] \in Node
    BY <1>1, <1>3 DEF Types
  <2>2. CASE empty
    BY <1>2, <2>1, <2>2
  <2>3. CASE ~empty
    <3> DEFINE r == [node[n] EXCEPT !.npredecessors = -1, !.nrefs = 1, !.mem = c]
    <3>1. r \in Node /\ r.task = node[n].task /\ r.successors = node[n].successors
          /\ r.npredecessors = -1 /\ r.nrefs = 1 /\ r.mem = c
      <4>1. -1 \in Int /\ 1 \in Int /\ c \in {"none", "heap", "freed", "frame", "gone"}
        OBVIOUS
      <4> HIDE DEF c
      <4> QED
        BY <2>1, <4>1 DEF Node
    <3>2. node' = [node EXCEPT ![n] = r]
      BY <1>2, <2>3
    <3> HIDE DEF r
    <3>3. node' \in [Members -> Node] /\ node'[n] = r /\ \A m \in Members : m # n => node'[m] = node[m]
      BY <1>3, <2>1, <3>1, <3>2
    <3> QED
      BY <2>3, <3>1, <3>3
  <2> QED
    BY <2>2, <2>3
<1>7. /\ state' \in [Members -> {"new", "created", "running", "ran"}]
      /\ \A m \in Members : m # n => state'[m] = state[m]
      /\ state'[n] = IF empty /\ ~program[n].task THEN "ran" ELSE "created"
  BY <1>1, <1>2, <1>3 DEF Types
<1>8. /\ cpc' = IF ~empty THEN "process" ELSE IF program[n].task THEN "queue" ELSE "next"
      /\ cpc' # "end" /\ cpc # "end"
  BY <1>2
<1>9. ~empty => /\ todo' \in Seq(Members)
                /\ \A p \in Range(todo') : p < n /\ program[p].task /\ program[p].deps # <<>>
                /\ \A a \in Addresses : Deps(n)[1].addr = a =>
                     \A k \in 1 .. (n - 1) : Conflicts(k, n, a) =>
                       k \in Ended \/ \E p \in Members : p \in Range(todo') /\ k \in Below(p)
  <2> SUFFICES ASSUME ~empty
               PROVE  /\ todo' \in Seq(Members)
                      /\ \A p \in Range(todo') : p < n /\ program[p].task /\ program[p].deps # <<>>
                      /\ \A a \in Addresses : Deps(n)[1].addr = a =>
                           \A k \in 1 .. (n - 1) : Conflicts(k, n, a) =>
                             k \in Ended \/ \E p \in Members : p \in Range(todo') /\ k \in Below(p)
    OBVIOUS
  <2>1. 1 \in 1 .. Len(Deps(n)) /\ todo' = Predecessors(n, 1)
    BY <1>2, <1>3
  <2>2. todo' \in Seq(Members)
    BY <1>1, <1>3, <2>1, PredecessorsAre
  <2>3. \A k \in Members, a \in Addresses : k < n /\ Uses(k, a) => IsEntered(k, a)
    <3>1. \A k \in Members : k < n => k # n /\ k <= n
      BY <1>3, <1>4
    <3> QED
      BY <1>2, <1>3, <3>1 DEF IsEntered
  <2>4. \A k \in Members : \A a : k >= n => ~IsEntered(k, a)
    BY <1>3, <1>4 DEF IsEntered
  <2>5. \A a : ~(WaitOn /\ IsEntered(at, a))
    BY <1>2 DEF WaitOn
  <2>6. cpc # "end" /\ Void \notin Addresses
    BY <1>1, <1>2, Basics
  <2>7. /\ \A p \in Range(todo') : p \in Members /\ p < n /\ program[p].task /\ program[p].deps # <<>>
        /\ Deps(n)[1].addr # Void =>
             \A k \in 1 .. (n - 1) : Conflicts(k, n, Deps(n)[1].addr) =>
               k \in Ended \/ \E p \in Members : p \in Range(todo') /\ k \in Below(p)
    BY <1>1, <1>3, <2>1, <2>3, <2>4, <2>5, <2>6, Arrives
  <2> QED
    BY <2>2, <2>6, <2>7
<1>10. /\ \A m \in Members : Linking(m)' <=> m = n /\ ~empty
       /\ \A m \in Members : ~Linking(m)
       /\ WaitOn' <=> ~empty /\ ~program[n].task
       /\ ~WaitOn
       /\ \A m \in Members : m \in Ended' <=> m \in Ended \/ (m = n /\ empty /\ ~program[n].task)
       /\ \A m \in Members : m \in Started' <=> m \in Started \/ (m = n /\ empty /\ ~program[n].task)
       /\ Ended \subseteq Ended' /\ Started' \subseteq Members
       /\ \A m \in Members : ToQueue(m)' <=> m = n /\ empty /\ program[n].task
       /\ \A m \in Members : ~ToQueue(m)
       /\ \A m \in Members : \A t \in DepThreads : Offers(t, m)' <=> Offers(t, m)
  BY <1>2, <1>3, <1>4, <1>5, <1>7, <1>8 DEF Linking, WaitOn, Ended, Started, ToQueue, Offers
<1>11. \A m \in Members : /\ Total(Succs, m)' = Total(Succs, m) /\ Total(Helds, m)' = Total(Helds, m)
                          /\ Total(Entries, m)' = Total(Entries, m) /\ Open(m)' = Open(m)
  BY <1>2, <1>6, ListsStill
<1>12. /\ Total(Entries, n) + Total(Succs, n) + Total(Helds, n) = 0 /\ Open(n) = 0
  <2>1. /\ Total(Entries, n) \in Nat /\ Total(Succs, n) \in Nat /\ Total(Helds, n) \in Nat
        /\ Open(n) \in Nat
    BY <1>1, ListsAre
  <2>2. node[n].nrefs = Total(Entries, n) + Total(Succs, n) + Total(Helds, n) + Own(n)
    BY <1>1, <1>3 DEF Referred
  <2>3. Own(n) = 0
    BY <1>5 DEF Own
  <2>4. node[n].npredecessors = Open(n)
    BY <1>1, <1>3, <1>10, <2>1 DEF Counted
  <2> QED
    BY <1>5, <2>1, <2>2, <2>3, <2>4
<1>13. Types'
  <2>1. cpc' \in {"next", "process", "account", "queue", "wait", "end"} /\ found' \in Nat /\ dep' \in Nat \ {0}
    BY <1>2, <1>8
  <2>2. at' \in 0 .. Len(program) /\ todo' \in Seq(Members)
    <3>1. <<>> \in Seq(Members)
      OBVIOUS
    <3>2. Members = 1 .. Len(program) /\ Len(program) \in Nat
      BY <1>1, Basics
    <3>3. at' \in 0 .. Len(program)
      <4>1. at' = n /\ n \in 1 .. Len(program)
        BY <1>2, <1>3, <3>2
      <4> QED
        BY <3>2, <4>1
    <3>4. todo' \in Seq(Members)
      BY <1>2, <1>3, <1>9, <3>1
    <3> QED
      BY <3>3, <3>4
  <2> QED
    BY <1>1, <1>2, <1>6, <1>7, <2>1, <2>2, TypesNext DEF Types
<1>14. Place'
  <2>1. empty => todo' = <<>>
    BY <1>2, <1>3
  <2>2. Range(<<>>) = {}
    BY DEF Range
  <2>3. ~empty => 1 <= Len(Deps(n)) + 1 /\ ~(1 > Len(Deps(n)))
    BY <1>3
  <2>4. ~empty => program[n].deps # <<>>
    BY DEF empty
  <2> QED
    BY <1>2, <1>3, <1>4, <1>7, <1>8, <1>9, <2>1, <2>2, <2>3, <2>4, Static DEF Place
<1>15. Nodes'
  <2> SUFFICES ASSUME NEW m \in Members
               PROVE  /\ m > n <=> state'[m] = "new"
                      /\ m > n => queued[m] = 0
                      /\ m > n \/ program[m].deps = <<>> =>
                           /\ node'[m].mem = "none" /\ ~node'[m].task
                           /\ node'[m].npredecessors = 0 /\ node'[m].nrefs = 0
                      /\ m <= n /\ program[m].deps # <<>> =>
                           /\ node'[m].mem \in IF program[m].task THEN {"heap", "freed"} ELSE {"frame", "gone"}
                           /\ program[m].task => (~node'[m].task => state'[m] = "ran" \/ (m = n /\ cpc' = "process"))
                      /\ m <= n /\ ~program[m].task => state'[m] = "ran" \/ (m = n /\ WaitOn')
                      /\ node'[m].task => program[m].task /\ ~(m = n /\ cpc' = "process")
                      /\ ~node'[m].task => node'[m].successors = <<>>
    BY <1>2, <1>4, Static DEF Nodes
  <2>1. CASE m = n
    <3>1. empty <=> program[m].deps = <<>>
      BY <2>1 DEF empty
    <3>2. program[m].deps = <<>> => node'[m] = node[m]
      BY <1>6, <2>1, <3>1
    <3> QED
      BY <1>3, <1>5, <1>6, <1>7, <1>8, <1>10, <2>1, <3>1, <3>2
  <2>2. CASE m # n
    <3>1. node'[m] = node[m] /\ state'[m] = state[m]
      BY <1>6, <1>7, <2>2
    <3>2. (m > n <=> m > at) /\ (m <= n <=> m <= at)
      BY <1>3, <2>2
    <3> QED
      BY <1>1, <1>2, <1>10, <2>2, <3>1, <3>2 DEF Nodes
  <2> QED
    BY <2>1, <2>2
<1>16. Runs'
  <2>1. \A m \in Members : state[m] \in {"running", "ran"} => m # n
    BY <1>5
  <2> SUFFICES ASSUME NEW t \in DepThreads
               PROVE  /\ exec[t].pc = "body" => state'[exec[t].task] = "running"
                      /\ exec[t].pc \notin {"idle", "body"} =>
                           state'[exec[t].task] = "ran" /\ node'[exec[t].task].mem # "none"
    BY <1>1, <1>2, <1>4, Static DEF Runs
  <2>2. exec[t].pc # "idle" => exec[t].task \in Members
    BY <1>1 DEF Runs
  <2> QED
    BY <1>1, <1>6, <1>7, <2>1, <2>2 DEF Runs
<1>17. Counted'
  <2> SUFFICES ASSUME NEW m \in Members
               PROVE  /\ node'[m].npredecessors = Open(m) - IF Linking(m)' THEN 0 + 1 ELSE 0
                      /\ Linking(m)' => Open(m) <= 0
    BY <1>2, <1>4, <1>11 DEF Counted
  <2>1. CASE Linking(m)'
    BY <1>6, <1>10, <1>12, <2>1
  <2>2. CASE ~Linking(m)'
    <3>1. node'[m] = node[m] /\ ~Linking(m)
      BY <1>6, <1>10, <2>2
    <3> QED
      BY <1>1, <2>2, <3>1 DEF Counted
  <2> QED
    BY <2>1, <2>2
<1>18. Referred'
  <2> SUFFICES ASSUME NEW m \in Members
               PROVE  /\ node'[m].nrefs = Total(Entries, m) + Total(Succs, m) + Total(Helds, m) + Own(m)'
                      /\ node'[m].mem = "heap" => node'[m].nrefs > 0
                      /\ node'[m].mem = "freed" => node'[m].nrefs = 0
    BY <1>4, <1>11 DEF Referred
  <2>1. CASE m = n /\ ~empty
    <3>1. Own(m)' = 1
      BY <1>2, <1>6, <1>7, <2>1 DEF Own
    <3> QED
      BY <1>6, <1>12, <2>1, <3>1
  <2>2. CASE m = n /\ empty
    <3>1. node'[m] = node[m] /\ Own(m)' = Own(m)
      BY <1>5, <1>6, <2>2 DEF Own
    <3> QED
      BY <1>1, <3>1 DEF Referred
  <2>3. CASE m # n
    <3>1. node'[m] = node[m] /\ Own(m)' = Own(m)
      BY <1>2, <1>6, <1>7, <2>3 DEF Own
    <3> QED
      BY <1>1, <3>1 DEF Referred
  <2> QED
    BY <2>1, <2>2, <2>3
<1>19. Once'
  <2> SUFFICES ASSUME NEW m \in Members
               PROVE  /\ Due(m)' => m <= n /\ ~Linking(m)' /\ Open(m) = 0
                      /\ queued[m] <= 1 /\ (queued[m] > 0 => program[m].task)
                      /\ queued[m] > 0 => m \notin Started' /\ ~ToQueue(m)' /\ \A t \in DepThreads : ~Offers(t, m)
                      /\ program[m].task /\ m \in Started' => ~ToQueue(m)' /\ \A t \in DepThreads : ~Offers(t, m)
                      /\ ToQueue(m)' => \A t \in DepThreads : ~Offers(t, m)
                      /\ \A t, u \in DepThreads : Offers(t, m) /\ Offers(u, m) => t = u
    BY <1>2, <1>4, <1>10, <1>11, Static DEF Once
  <2>1. /\ Due(m) => m <= at /\ Open(m) = 0
        /\ queued[m] <= 1 /\ (queued[m] > 0 => program[m].task)
        /\ queued[m] > 0 => m \notin Started /\ \A t \in DepThreads : ~Offers(t, m)
        /\ program[m].task /\ m \in Started => \A t \in DepThreads : ~Offers(t, m)
        /\ \A t, u \in DepThreads : Offers(t, m) /\ Offers(u, m) => t = u
    BY <1>1 DEF Once
  <2>2. CASE m = n
    <3>1. ~Due(m)
      BY <1>3, <2>1, <2>2
    <3>2. ~(queued[m] > 0) /\ m \notin Started /\ \A t \in DepThreads : ~Offers(t, m)
      BY <3>1 DEF Due
    <3>3. Due(m)' => empty
      BY <1>2, <1>10, <3>2 DEF Due
    <3> QED
      BY <1>3, <1>10, <1>12, <2>1, <2>2, <3>2, <3>3
  <2>3. CASE m # n
    <3>1. Due(m)' => Due(m)
      BY <1>2, <1>10, <2>3 DEF Due
    <3> QED
      BY <1>3, <1>10, <2>1, <2>3, <3>1
  <2> QED
    BY <2>2, <2>3
<1>20. Hash'
  <2>1. \A m \in Members, a \in Addresses : IsEntered(m, a)' <=> IsEntered(m, a)
    <3> SUFFICES ASSUME NEW m \in Members, NEW a \in Addresses PROVE IsEntered(m, a)' <=> IsEntered(m, a)
      OBVIOUS
    <3>1. CASE m = n
      <4>1. ~IsEntered(m, a)
        BY <1>3, <3>1 DEF IsEntered
      <4>2. empty => ~Uses(m, a)
        BY <3>1 DEF empty, Uses
      <4>3. 1 .. (dep' - 1) = {}
        BY <1>2
      <4>4. ~IsEntered(m, a)'
        BY <1>2, <1>8, <3>1, <4>2, <4>3, Static DEF IsEntered
      <4> QED
        BY <4>1, <4>4
    <3>2. CASE m # n
      <4>1. m <= n <=> m <= at
        BY <1>3, <3>2
      <4>2. IsEntered(m, a) <=> Uses(m, a) /\ m <= at
        BY <1>2 DEF IsEntered
      <4>3. IsEntered(m, a)' <=> Uses(m, a) /\ m <= n
        BY <1>2, <3>2, Static DEF IsEntered
      <4> QED
        BY <4>1, <4>2, <4>3
    <3> QED
      BY <3>1, <3>2
  <2> QED
    BY <1>1, <1>2, <1>8, <1>10, <2>1, HashStill
<1>21. Covered'
  <2>1. \A m, p \in Members : Behind(m, p) => Behind(m, p)'
    BY <1>3, <1>6 DEF Behind, Range
  <2>2. ASSUME NEW m \in Members, NEW a \in Addresses, IsReached(m, a)'
        PROVE  \/ IsReached(m, a)
               \/ \A k \in 1 .. (m - 1) : Conflicts(k, m, a) =>
                    k \in Ended \/ \E p \in Members : Behind(m, p)' /\ k \in Below(p)
    <3>1. Uses(m, a) /\ m <= n
      BY <1>2, <2>2, Static DEF IsReached
    <3>2. CASE m # n
      <4>1. m <= at
        BY <1>3, <3>1, <3>2
      <4> QED
        BY <1>2, <3>1, <4>1 DEF IsReached
    <3>3. CASE m = n
      <4>1. ~empty
        BY <3>1, <3>3 DEF empty, Uses
      <4>2. \E i \in 1 .. 1 : Deps(n)[i].addr = a
        BY <1>2, <1>8, <2>2, <3>3, <4>1, Static DEF IsReached
      <4>3. Deps(n)[1].addr = a
        BY <4>2
      <4>4. \A k \in 1 .. (n - 1) : Conflicts(k, n, a) =>
              k \in Ended \/ \E p \in Members : p \in Range(todo') /\ k \in Below(p)
        BY <1>9, <4>1, <4>3
      <4> QED
        BY <1>2, <3>3, <4>4 DEF Behind
    <3> QED
      BY <3>2, <3>3
  <2> QED
    BY <1>1, <1>2, <1>10, <2>1, <2>2, CoveredStill
<1>22. Ordered'
  <2>1. empty => Before(n) = {}
    BY <1>1, <1>3, BeforeIs DEF empty
  <2>2. \A m \in Started' : m \in Started \/ Before(m) \subseteq Ended'
    BY <1>10, <2>1
  <2> QED
    BY <1>1, <1>2, <1>10, <2>2, OrderedStill
<1> QED
  BY <1>13, <1>14, <1>15, <1>16, <1>17, <1>18, <1>19, <1>20, <1>21, <1>22 DEF IInv

-----------------------------------------------------------------------------
(* The steps of the threads. *)

LEMMA CreatorStill ==
  ASSUME program' = program, UNCHANGED creator
  PROVE  /\ at' = at /\ cpc' = cpc /\ dep' = dep /\ todo' = todo /\ found' = found
         /\ Members' = Members /\ Addresses' = Addresses
         /\ \A n \in Members, a \in Addresses : IsEntered(n, a)' <=> IsEntered(n, a)
         /\ \A n \in Members, a \in Addresses : IsReached(n, a)' <=> IsReached(n, a)
         /\ \A n \in Members : (Linking(n)' <=> Linking(n)) /\ (ToQueue(n)' <=> ToQueue(n))
         /\ WaitOn' <=> WaitOn
<1>1. at' = at /\ cpc' = cpc /\ dep' = dep /\ todo' = todo /\ found' = found
  BY DEF creator
<1> QED
  BY <1>1, Static DEF IsEntered, IsReached, Linking, ToQueue, WaitOn

LEMMA PlaceStill ==
  ASSUME Place, program' = program, UNCHANGED creator,
         cpc \in {"process", "account", "queue", "wait"} => state'[at] = "created"
  PROVE  Place'
<1>1. Members' = Members /\ \A n : Deps(n)' = Deps(n)
  BY Static
<1> QED
  BY <1>1, CreatorStill DEF Place

LEMMA ThreadsKeep ==
  ASSUME \A u \in DepThreads : exec'[u].succs = exec[u].succs /\ Left(exec'[u]) = Left(exec[u]), NEW n
  PROVE  Total(Helds, n)' = Total(Helds, n) /\ Total(Lefts, n)' = Total(Lefts, n)
<1>1. Helds' = Helds
  BY DEF Helds
<1>2. Lefts' = Lefts
  BY DEF Lefts, Left
<1> QED
  BY <1>1, <1>2

\* Nobody but t runs what t runs, and nobody runs what has not been started.
LEMMA RunsAlone ==
  ASSUME Types, Runs
  PROVE  /\ \A t \in DepThreads, n \in Members : exec[t].task = n =>
              exec[t].pc # "idle" /\ state[n] \in {"running", "ran"} /\ program[n].task
         /\ \A t, u \in DepThreads, n \in Members : exec[t].task = n /\ exec[u].task = n => t = u
<1>1. None \notin Members
  BY Basics
<1> QED
  BY <1>1 DEF Runs, Idle

LEMMA StartTaskKeeps ==
  ASSUME IInv, NEW t \in DepThreads, StartTask(t)
  PROVE  IInv'
<1>1. Types /\ Place /\ Nodes /\ Runs /\ Counted /\ Referred /\ Once /\ Hash /\ Covered /\ Ordered
  BY Plain
<1>2. PICK n \in Members :
        /\ exec[t].pc = "idle" /\ queued[n] > 0
        /\ queued' = [queued EXCEPT ![n] = @ - 1]
        /\ state' = [state EXCEPT ![n] = "running"]
        /\ exec' = [exec EXCEPT ![t] = [Idle EXCEPT !.pc = "body", !.task = n]]
        /\ program' = program /\ node' = node /\ hash' = hash /\ UNCHANGED creator
  BY DEF StartTask
<1>3. /\ at' = at /\ cpc' = cpc /\ dep' = dep /\ todo' = todo /\ found' = found
      /\ Members' = Members /\ Addresses' = Addresses
      /\ \A m \in Members, a \in Addresses : IsEntered(m, a)' <=> IsEntered(m, a)
      /\ \A m \in Members, a \in Addresses : IsReached(m, a)' <=> IsReached(m, a)
      /\ \A m \in Members : (Linking(m)' <=> Linking(m)) /\ (ToQueue(m)' <=> ToQueue(m))
      /\ WaitOn' <=> WaitOn
  BY <1>2, CreatorStill
<1>4. /\ queued[n] = 1 /\ program[n].task /\ Due(n) /\ n <= at /\ ~Linking(n) /\ Open(n) = 0
      /\ n \notin Started /\ ~ToQueue(n) /\ \A u \in DepThreads : ~Offers(u, n)
  <2>1. Due(n) /\ queued[n] \in Nat
    BY <1>1, <1>2 DEF Due, Types
  <2> QED
    BY <1>1, <1>2, <2>1 DEF Once
<1>5. /\ state[n] \notin {"running", "ran"} /\ state[n] # "new"
      /\ \A u \in DepThreads : exec[u].task # n
      /\ ~(n > at)
  <2>1. state[n] \notin {"running", "ran"}
    BY <1>4 DEF Started
  <2>2. ~(n > at)
    BY <1>4, Plain
  <2> QED
    BY <1>1, <2>1, <2>2, RunsAlone DEF Nodes
<1>6. /\ queued' \in [Members -> Nat] /\ queued'[n] = 0
      /\ \A m \in Members : m # n => queued'[m] = queued[m]
      /\ state' \in [Members -> {"new", "created", "running", "ran"}] /\ state'[n] = "running"
      /\ \A m \in Members : m # n => state'[m] = state[m]
  BY <1>1, <1>2, <1>4 DEF Types
<1>7. /\ exec' \in [DepThreads -> Exec]
      /\ exec'[t].pc = "body" /\ exec'[t].task = n /\ exec'[t].succs = <<>>
      /\ \A u \in DepThreads : u # t => exec'[u] = exec[u]
      /\ exec[t] = Idle /\ exec[t].succs = <<>> /\ exec[t].task = None /\ None \notin Members
  <2> DEFINE s == [Idle EXCEPT !.pc = "body", !.task = n]
  <2>1. Idle \in Exec /\ Idle.succs = <<>>
    <3>1. <<>> \in Seq(Members)
      OBVIOUS
    <3> QED
      BY <3>1 DEF Exec, Idle
  <2>2. s \in Exec /\ s.pc = "body" /\ s.task = n /\ s.succs = Idle.succs
    BY <2>1 DEF Exec
  <2>3. exec \in [DepThreads -> Exec] /\ exec[t] = Idle
    BY <1>1, <1>2 DEF Types, Runs
  <2> HIDE DEF s
  <2>5. exec' = [exec EXCEPT ![t] = s]
    BY <1>2 DEF s
  <2> QED
    BY <1>1, <2>1, <2>2, <2>3, <2>5, Basics DEF Idle
<1>8. \A u \in DepThreads : exec'[u].succs = exec[u].succs /\ Left(exec'[u]) = Left(exec[u])
  BY <1>2, <1>7 DEF Left
<1>9. /\ Ended' = Ended
      /\ \A m \in Members : m \in Started' <=> m = n \/ m \in Started
      /\ Started' \subseteq Members
      /\ \A u \in DepThreads : \A m \in Members : Offers(u, m)' => Offers(u, m)
  BY <1>3, <1>5, <1>6, <1>7 DEF Ended, Started, Offers
<1>10. \A m \in Members : Own(m)' = Own(m)
  <2> SUFFICES ASSUME NEW m \in Members PROVE Own(m)' = Own(m)
    OBVIOUS
  <2>1. CASE m = n
    BY <1>2, <1>5, <1>6, <2>1 DEF Own
  <2>2. CASE m # n
    <3>1. (\E u \in DepThreads : exec'[u].task = m) <=> (\E u \in DepThreads : exec[u].task = m)
      BY <1>7, <2>2
    <3> QED
      BY <1>2, <1>6, <2>2, <3>1 DEF Own
  <2> QED
    BY <2>1, <2>2
<1>11. \A m \in Members : /\ Total(Succs, m)' = Total(Succs, m) /\ Total(Helds, m)' = Total(Helds, m)
                          /\ Total(Entries, m)' = Total(Entries, m) /\ Open(m)' = Open(m)
  <2>1. \A m \in Members : /\ Total(Succs, m)' = Total(Succs, m) /\ Total(Helds, m)' = Total(Helds, m)
                           /\ Total(Lefts, m)' = Total(Lefts, m) /\ Total(Entries, m)' = Total(Entries, m)
    BY <1>2, <1>8, SuccsStill, ThreadsKeep, EntriesStill
  <2> QED
    BY <2>1 DEF Open
<1>12. Types'
  BY <1>1, <1>2, <1>3, <1>6, <1>7, TypesNext DEF Types
<1>13. Place'
  <2>1. cpc \in {"process", "account", "queue", "wait"} => at # n
    BY <1>1, <1>4 DEF Place, Linking, ToQueue
  <2> QED
    BY <1>1, <1>2, <1>6, <2>1, PlaceStill DEF Place
<1>14. Nodes'
  <2> SUFFICES ASSUME NEW m \in Members
               PROVE  /\ m > at <=> state'[m] = "new"
                      /\ m > at => queued'[m] = 0
                      /\ m <= at /\ program[m].deps # <<>> /\ program[m].task =>
                           (~node[m].task => state'[m] = "ran" \/ (m = at /\ cpc = "process"))
                      /\ m <= at /\ ~program[m].task => state'[m] = "ran" \/ (m = at /\ WaitOn)
    BY <1>1, <1>2, <1>3, Static DEF Nodes
  <2>1. CASE m = n
    <3>1. ~(m = at /\ cpc = "process")
      BY <1>4, <2>1 DEF Linking
    <3>2. m <= at /\ program[m].deps # <<>> => node[m].task
      BY <1>1, <1>4, <1>5, <2>1, <3>1 DEF Nodes
    <3> QED
      BY <1>4, <1>5, <1>6, <2>1, <3>2
  <2>2. CASE m # n
    BY <1>1, <1>6, <2>2 DEF Nodes
  <2> QED
    BY <2>1, <2>2
<1>15. Runs'
  <2>1. ASSUME NEW u \in DepThreads
        PROVE  /\ exec'[u].pc = "idle" => exec'[u] = Idle
               /\ exec'[u].pc # "idle" => exec'[u].task \in Members
               /\ exec'[u].pc = "body" => state'[exec'[u].task] = "running"
               /\ exec'[u].pc \notin {"idle", "body"} => state'[exec'[u].task] = "ran" /\ node[exec'[u].task].mem # "none"
               /\ exec'[u].pc # "idle" => program[exec'[u].task].task
               /\ exec'[u].pc \in {"body", "mark"} => exec'[u].succs = <<>>
               /\ exec'[u].pc \in {"offer", "drop"} => exec'[u].succs # <<>>
    <3>1. CASE u = t
      BY <1>4, <1>6, <1>7, <3>1
    <3>2. CASE u # t
      <4>1. exec'[u] = exec[u] /\ exec[u].task # n
        BY <1>5, <1>7, <3>2
      <4>2. exec[u].pc # "idle" => state'[exec[u].task] = state[exec[u].task]
        BY <1>1, <1>6, <4>1 DEF Runs
      <4> QED
        BY <1>1, <4>1, <4>2 DEF Runs
    <3> QED
      BY <3>1, <3>2
  <2>2. ASSUME NEW u \in DepThreads, NEW v \in DepThreads, exec'[u].task = exec'[v].task
        PROVE  u = v \/ exec'[u].task = None
    BY <1>1, <1>5, <1>7, <2>2 DEF Runs
  <2> QED
    BY <1>2, <1>3, <2>1, <2>2, Static DEF Runs
<1>16. Counted'
  BY <1>1, <1>2, <1>3, <1>11, CountedStill
<1>17. Referred'
  BY <1>1, <1>2, <1>10, <1>11, ReferredStill
<1>18. Once'
  <2> SUFFICES ASSUME NEW m \in Members
               PROVE  /\ Due(m)' => m <= at /\ ~Linking(m) /\ Open(m) = 0
                      /\ queued'[m] <= 1 /\ (queued'[m] > 0 => program[m].task)
                      /\ queued'[m] > 0 => m \notin Started' /\ ~ToQueue(m) /\ \A u \in DepThreads : ~Offers(u, m)'
                      /\ program[m].task /\ m \in Started' => ~ToQueue(m) /\ \A u \in DepThreads : ~Offers(u, m)'
                      /\ ToQueue(m) => \A u \in DepThreads : ~Offers(u, m)'
                      /\ \A u, v \in DepThreads : Offers(u, m)' /\ Offers(v, m)' => u = v
    BY <1>2, <1>3, <1>11, Static DEF Once
  <2>1. /\ Due(m) => m <= at /\ ~Linking(m) /\ Open(m) = 0
        /\ queued[m] <= 1 /\ (queued[m] > 0 => program[m].task)
        /\ queued[m] > 0 => m \notin Started /\ ~ToQueue(m) /\ \A u \in DepThreads : ~Offers(u, m)
        /\ program[m].task /\ m \in Started => ~ToQueue(m) /\ \A u \in DepThreads : ~Offers(u, m)
        /\ ToQueue(m) => \A u \in DepThreads : ~Offers(u, m)
        /\ \A u, v \in DepThreads : Offers(u, m) /\ Offers(v, m) => u = v
    BY <1>1 DEF Once
  <2>2. Due(m)' => Due(m)
    <3>1. CASE m = n
      BY <1>4, <3>1
    <3>2. CASE m # n
      BY <1>3, <1>6, <1>9, <3>2 DEF Due
    <3> QED
      BY <3>1, <3>2
  <2>3. CASE m = n
    BY <1>4, <1>6, <1>9, <2>1, <2>2, <2>3
  <2>4. CASE m # n
    BY <1>6, <1>9, <2>1, <2>2, <2>4
  <2> QED
    BY <2>3, <2>4
<1>19. Hash'
  <2>1. cpc' # "end" => cpc # "end"
    BY <1>3
  <2> QED
    BY <1>1, <1>2, <1>3, <1>9, <2>1, HashStill
<1>20. Covered'
  <2>1. \A m, p \in Members : Behind(m, p) => Behind(m, p)'
    BY <1>2, <1>3 DEF Behind
  <2> QED
    BY <1>1, <1>2, <1>3, <1>9, <2>1, CoveredStill
<1>21. Ordered'
  <2>1. Before(n) \subseteq Ended
    BY <1>1, <1>4, ReadyEnded
  <2> QED
    BY <1>1, <1>2, <1>9, <2>1, OrderedStill
<1> QED
  BY <1>12, <1>13, <1>14, <1>15, <1>16, <1>17, <1>18, <1>19, <1>20, <1>21 DEF IInv

\* A step of thread t in the task it runs.
LEMMA RunsNext ==
  ASSUME Types, Runs, program' = program, NEW t \in DepThreads, exec[t].pc # "idle",
         \A u \in DepThreads : u # t => exec'[u] = exec[u],
         \A m \in Members : /\ state[m] = "running" /\ m # exec[t].task => state'[m] = "running"
                            /\ state[m] = "ran" => state'[m] = "ran"
                            /\ node'[m].mem = "none" => node[m].mem = "none",
         exec'[t] = Idle \/ /\ exec'[t].task = exec[t].task /\ exec'[t].pc \notin {"idle", "body"}
                            /\ state'[exec[t].task] = "ran" /\ node[exec[t].task].mem # "none"
                            /\ exec'[t].pc = "mark" => exec'[t].succs = <<>>
                            /\ exec'[t].pc \in {"offer", "drop"} => exec'[t].succs # <<>>
  PROVE  Runs'
<1>1. Members' = Members /\ None \notin Members
  BY Static, Basics
<1>2. exec[t].task \in Members /\ program[exec[t].task].task
  BY DEF Runs
<1>3. ASSUME NEW u \in DepThreads
      PROVE  /\ exec'[u].pc = "idle" => exec'[u] = Idle
             /\ exec'[u].pc # "idle" => exec'[u].task \in Members
             /\ exec'[u].pc = "body" => state'[exec'[u].task] = "running"
             /\ exec'[u].pc \notin {"idle", "body"} => state'[exec'[u].task] = "ran" /\ node'[exec'[u].task].mem # "none"
             /\ exec'[u].pc # "idle" => program[exec'[u].task].task
             /\ exec'[u].pc \in {"body", "mark"} => exec'[u].succs = <<>>
             /\ exec'[u].pc \in {"offer", "drop"} => exec'[u].succs # <<>>
  <2>1. CASE u = t /\ exec'[t] = Idle
    BY <2>1 DEF Idle
  <2>2. CASE u = t /\ exec'[t] # Idle
    BY <1>2, <2>2
  <2>3. CASE u # t
    <3>1. exec'[u] = exec[u]
      BY <2>3
    <3>2. exec[u].pc # "idle" => exec[u].task \in Members /\ exec[u].task # exec[t].task
      BY <1>1, <1>2, <2>3 DEF Runs
    <3> QED
      BY <3>1, <3>2 DEF Runs
  <2> QED
    BY <2>1, <2>2, <2>3
<1>4. ASSUME NEW u \in DepThreads, NEW v \in DepThreads, exec'[u].task = exec'[v].task
      PROVE  u = v \/ exec'[u].task = None
  <2>1. exec'[t].task = exec[t].task \/ exec'[t].task = None
    BY DEF Idle
  <2> QED
    BY <1>4, <2>1 DEF Runs
<1> QED
  BY <1>1, <1>3, <1>4 DEF Runs

LEMMA EndTaskKeeps ==
  ASSUME IInv, NEW t \in DepThreads, EndTask(t)
  PROVE  IInv'
<1> DEFINE n == exec[t].task
<1>1. Types /\ Place /\ Nodes /\ Runs /\ Counted /\ Referred /\ Once /\ Hash /\ Covered /\ Ordered
  BY Plain
<1>2. /\ exec[t].pc = "body" /\ state' = [state EXCEPT ![n] = "ran"]
      /\ exec' = [exec EXCEPT ![t] = IF node[n].mem = "none" THEN Idle ELSE [exec[t] EXCEPT !.pc = "mark"]]
      /\ program' = program /\ node' = node /\ hash' = hash /\ queued' = queued /\ UNCHANGED creator
  BY DEF EndTask
<1>3. /\ at' = at /\ cpc' = cpc /\ dep' = dep /\ todo' = todo /\ found' = found
      /\ Members' = Members /\ Addresses' = Addresses
      /\ \A m \in Members, a \in Addresses : IsEntered(m, a)' <=> IsEntered(m, a)
      /\ \A m \in Members, a \in Addresses : IsReached(m, a)' <=> IsReached(m, a)
      /\ \A m \in Members : (Linking(m)' <=> Linking(m)) /\ (ToQueue(m)' <=> ToQueue(m))
      /\ WaitOn' <=> WaitOn
  BY <1>2, CreatorStill
<1>4. /\ n \in Members /\ state[n] = "running" /\ program[n].task /\ exec[t].succs = <<>>
      /\ None \notin Members
  BY <1>1, <1>2, Basics DEF Runs
<1>5. /\ state' \in [Members -> {"new", "created", "running", "ran"}] /\ state'[n] = "ran"
      /\ \A m \in Members : m # n => state'[m] = state[m]
  <2> HIDE DEF n
  <2> QED
    BY <1>1, <1>2, <1>4 DEF Types
<1>6. /\ exec' \in [DepThreads -> Exec]
      /\ \A u \in DepThreads : u # t => exec'[u] = exec[u]
      /\ exec'[t].succs = <<>> /\ exec'[t].pc \in {"idle", "mark"}
      /\ node[n].mem = "none" => exec'[t] = Idle
      /\ node[n].mem # "none" => exec'[t].task = n /\ exec'[t].pc = "mark"
  <2> DEFINE s == IF node[n].mem = "none" THEN Idle ELSE [exec[t] EXCEPT !.pc = "mark"]
  <2>1. exec \in [DepThreads -> Exec] /\ exec[t] \in Exec
    BY <1>1 DEF Types
  <2>2. /\ s \in Exec /\ s.succs = <<>> /\ s.pc \in {"idle", "mark"}
        /\ node[n].mem = "none" => s = Idle
        /\ node[n].mem # "none" => s.task = n /\ s.pc = "mark"
    <3>1. Idle \in Exec /\ Idle.succs = <<>> /\ Idle.pc = "idle"
      <4>1. <<>> \in Seq(Members)
        OBVIOUS
      <4> QED
        BY <4>1 DEF Exec, Idle
    <3>2. CASE node[n].mem = "none"
      BY <3>1, <3>2
    <3>3. CASE node[n].mem # "none"
      <4>1. s = [exec[t] EXCEPT !.pc = "mark"]
        BY <3>3
      <4> HIDE DEF s
      <4>2. s \in Exec /\ s.pc = "mark" /\ s.task = exec[t].task /\ s.succs = exec[t].succs
        BY <2>1, <4>1 DEF Exec
      <4> QED
        BY <1>4, <3>3, <4>2
    <3> QED
      BY <3>2, <3>3
  <2>3. exec' = [exec EXCEPT ![t] = s]
    BY <1>2
  <2> HIDE DEF s
  <2> QED
    BY <2>1, <2>2, <2>3
<1>7. \A u \in DepThreads : exec'[u].succs = exec[u].succs /\ Left(exec'[u]) = Left(exec[u])
  BY <1>2, <1>4, <1>6 DEF Left
<1>8. /\ \A m \in Members : m \in Ended' <=> m = n \/ m \in Ended
      /\ Ended \subseteq Ended'
      /\ \A m \in Members : m \in Started' <=> m \in Started
      /\ Started' \subseteq Members
      /\ \A u \in DepThreads : \A m \in Members : Offers(u, m)' <=> Offers(u, m)
  BY <1>2, <1>3, <1>4, <1>5, <1>6 DEF Ended, Started, Offers
<1>9. \A m \in Members : Own(m)' = Own(m)
  <2> SUFFICES ASSUME NEW m \in Members PROVE Own(m)' = Own(m)
    OBVIOUS
  <2>1. CASE m = n
    BY <1>2, <1>4, <1>6, <2>1 DEF Own
  <2>2. CASE m # n
    <3>1. exec'[t].task # m /\ exec[t].task # m
      BY <1>4, <1>6, <2>2 DEF Idle
    <3>2. (\E u \in DepThreads : exec'[u].task = m) <=> (\E u \in DepThreads : exec[u].task = m)
      BY <1>6, <3>1
    <3> QED
      BY <1>2, <1>5, <2>2, <3>2 DEF Own
  <2> QED
    BY <2>1, <2>2
<1>10. \A m \in Members : /\ Total(Succs, m)' = Total(Succs, m) /\ Total(Helds, m)' = Total(Helds, m)
                          /\ Total(Entries, m)' = Total(Entries, m) /\ Open(m)' = Open(m)
  <2>1. \A m \in Members : /\ Total(Succs, m)' = Total(Succs, m) /\ Total(Helds, m)' = Total(Helds, m)
                           /\ Total(Lefts, m)' = Total(Lefts, m) /\ Total(Entries, m)' = Total(Entries, m)
    BY <1>2, <1>7, SuccsStill, ThreadsKeep, EntriesStill
  <2> QED
    BY <2>1 DEF Open
<1>11. Types'
  BY <1>1, <1>2, <1>3, <1>5, <1>6, TypesNext DEF Types
<1>12. Place'
  <2>1. cpc \in {"process", "account", "queue", "wait"} => at # n /\ at \in Members /\ state[at] = "created"
    BY <1>1, <1>4 DEF Place
  <2>2. cpc \in {"process", "account", "queue", "wait"} => state'[at] = "created"
    BY <1>5, <2>1
  <2> QED
    BY <1>1, <1>2, <2>2, PlaceStill
<1>13. Nodes'
  <2> SUFFICES ASSUME NEW m \in Members
               PROVE  /\ m > at <=> state'[m] = "new"
                      /\ m <= at /\ program[m].deps # <<>> /\ program[m].task =>
                           (~node[m].task => state'[m] = "ran" \/ (m = at /\ cpc = "process"))
                      /\ m <= at /\ ~program[m].task => state'[m] = "ran" \/ (m = at /\ WaitOn)
    BY <1>1, <1>2, <1>3, Static DEF Nodes
  <2>1. CASE m = n
    <3>1. ~(m > at)
      BY <1>1, <1>4, <2>1 DEF Nodes
    <3> QED
      BY <1>5, <2>1, <3>1
  <2>2. CASE m # n
    BY <1>1, <1>5, <2>2 DEF Nodes
  <2> QED
    BY <2>1, <2>2
<1>14. Runs'
  <2>1. \A m \in Members : /\ state[m] = "running" /\ m # exec[t].task => state'[m] = "running"
                           /\ state[m] = "ran" => state'[m] = "ran"
                           /\ node'[m].mem = "none" => node[m].mem = "none"
    BY <1>2, <1>4, <1>5
  <2>2. exec'[t] = Idle \/ /\ exec'[t].task = exec[t].task /\ exec'[t].pc \notin {"idle", "body"}
                           /\ state'[exec[t].task] = "ran" /\ node[exec[t].task].mem # "none"
                           /\ exec'[t].pc = "mark" => exec'[t].succs = <<>>
                           /\ exec'[t].pc \in {"offer", "drop"} => exec'[t].succs # <<>>
    BY <1>5, <1>6
  <2>3. exec[t].pc # "idle"
    BY <1>2
  <2> QED
    BY <1>1, <1>2, <1>6, <2>1, <2>2, <2>3, RunsNext
<1>15. Counted'
  BY <1>1, <1>2, <1>3, <1>10, CountedStill
<1>16. Referred'
  BY <1>1, <1>2, <1>9, <1>10, ReferredStill
<1>17. Once'
  BY <1>1, <1>2, <1>3, <1>8, <1>10, OnceStill
<1>18. Hash'
  <2>1. cpc' # "end" => cpc # "end"
    BY <1>3
  <2> QED
    BY <1>1, <1>2, <1>3, <1>8, <2>1, HashStill
<1>19. Covered'
  <2>1. \A m, p \in Members : Behind(m, p) => Behind(m, p)'
    BY <1>2, <1>3 DEF Behind
  <2> QED
    BY <1>1, <1>2, <1>3, <1>8, <2>1, CoveredStill
<1>20. Ordered'
  <2>1. \A m \in Started' : m \in Started
    BY <1>8
  <2> QED
    BY <1>1, <1>2, <1>8, <2>1, OrderedStill
<1> QED
  BY <1>11, <1>12, <1>13, <1>14, <1>15, <1>16, <1>17, <1>18, <1>19, <1>20 DEF IInv

LEMMA OfferKeeps ==
  ASSUME IInv, NEW t \in DepThreads, Offer(t)
  PROVE  IInv'
<1> DEFINE s == Head(exec[t].succs)
<1>1. Types /\ Place /\ Nodes /\ Runs /\ Counted /\ Referred /\ Once /\ Hash /\ Covered /\ Ordered
  BY Plain
<1>2. /\ exec[t].pc = "offer" /\ queued' = IF node[s].task THEN [queued EXCEPT ![s] = @ + 1] ELSE queued
      /\ exec' = [exec EXCEPT ![t].pc = "drop"]
      /\ program' = program /\ node' = node /\ hash' = hash /\ state' = state /\ UNCHANGED creator
  BY DEF Offer
<1>3. /\ at' = at /\ cpc' = cpc /\ dep' = dep /\ todo' = todo /\ found' = found
      /\ Members' = Members /\ Addresses' = Addresses
      /\ \A m \in Members, a \in Addresses : IsEntered(m, a)' <=> IsEntered(m, a)
      /\ \A m \in Members, a \in Addresses : IsReached(m, a)' <=> IsReached(m, a)
      /\ \A m \in Members : (Linking(m)' <=> Linking(m)) /\ (ToQueue(m)' <=> ToQueue(m))
      /\ WaitOn' <=> WaitOn
  BY <1>2, CreatorStill
<1>4. /\ exec[t] \in Exec /\ exec[t].succs \in Seq(Members) /\ exec[t].succs # <<>> /\ s \in Members
      /\ exec[t].task \in Members /\ state[exec[t].task] = "ran" /\ node[exec[t].task].mem # "none"
  <2>1. exec[t] \in Exec /\ exec[t].succs \in Seq(Members)
    BY <1>1 DEF Types, Exec
  <2>2. exec[t].succs # <<>> /\ exec[t].task \in Members /\ state[exec[t].task] = "ran" /\ node[exec[t].task].mem # "none"
    BY <1>1, <1>2 DEF Runs
  <2> QED
    BY <2>1, <2>2, HeadAndTail
<1>5. /\ Offers(t, s) /\ Due(s) /\ s <= at /\ ~Linking(s) /\ Open(s) = 0 /\ ~(s > at)
      /\ ~(queued[s] > 0) /\ ~ToQueue(s)
      /\ \A u \in DepThreads : Offers(u, s) => u = t
  <2>1. Offers(t, s) /\ Due(s)
    BY <1>2 DEF Offers, Due
  <2>2. s <= at => ~(s > at)
    BY <1>4, Plain
  <2> QED
    BY <1>1, <1>4, <2>1, <2>2 DEF Once
<1> HIDE DEF s
<1>6. /\ exec' \in [DepThreads -> Exec]
      /\ \A u \in DepThreads : u # t => exec'[u] = exec[u]
      /\ exec'[t].pc = "drop" /\ exec'[t].task = exec[t].task /\ exec'[t].succs = exec[t].succs
  <2> DEFINE e == [exec[t] EXCEPT !.pc = "drop"]
  <2>1. exec \in [DepThreads -> Exec]
    BY <1>1 DEF Types
  <2>2. e \in Exec /\ e.pc = "drop" /\ e.task = exec[t].task /\ e.succs = exec[t].succs
    BY <1>4 DEF Exec
  <2>3. exec' = [exec EXCEPT ![t] = e]
    BY <1>2
  <2> HIDE DEF e
  <2> QED
    BY <2>1, <2>2, <2>3
<1>7. /\ queued' \in [Members -> Nat]
      /\ \A m \in Members : m # s => queued'[m] = queued[m]
      /\ queued'[s] = IF node[s].task THEN 1 ELSE 0
  <2>1. queued \in [Members -> Nat] /\ queued[s] = 0
    <3>1. queued[s] \in Nat
      BY <1>1, <1>4 DEF Types
    <3> QED
      BY <1>1, <1>5, <3>1 DEF Types
  <2> QED
    BY <1>2, <1>4, <2>1
<1>8. \A u \in DepThreads : exec'[u].succs = exec[u].succs /\ Left(exec'[u]) = Left(exec[u])
  BY <1>2, <1>6 DEF Left
<1>9. /\ Ended' = Ended /\ Started' = Started
      /\ \A u \in DepThreads : \A m \in Members : Offers(u, m)' <=> u # t /\ Offers(u, m)
      /\ \A m \in Members : Offers(t, m) => m = s
  BY <1>2, <1>3, <1>6 DEF Ended, Started, Offers, s
<1>10. \A m \in Members : Own(m)' = Own(m)
  <2>1. \A u \in DepThreads : exec'[u].task = exec[u].task
    BY <1>6
  <2> QED
    BY <1>2, <2>1 DEF Own
<1>11. \A m \in Members : /\ Total(Succs, m)' = Total(Succs, m) /\ Total(Helds, m)' = Total(Helds, m)
                          /\ Total(Entries, m)' = Total(Entries, m) /\ Open(m)' = Open(m)
  <2>1. \A m \in Members : /\ Total(Succs, m)' = Total(Succs, m) /\ Total(Helds, m)' = Total(Helds, m)
                           /\ Total(Lefts, m)' = Total(Lefts, m) /\ Total(Entries, m)' = Total(Entries, m)
    BY <1>2, <1>8, SuccsStill, ThreadsKeep, EntriesStill
  <2> QED
    BY <2>1 DEF Open
<1>12. Types'
  BY <1>1, <1>2, <1>3, <1>6, <1>7, TypesNext DEF Types
<1>13. Place'
  BY <1>1, <1>2, PlaceStill DEF Place
<1>14. Nodes'
  <2> SUFFICES ASSUME NEW m \in Members PROVE m > at => queued'[m] = 0
    BY <1>1, <1>2, <1>3, Static DEF Nodes
  <2> QED
    BY <1>1, <1>5, <1>7 DEF Nodes
<1>15. Runs'
  <2>1. exec[t].pc # "idle" /\ \A m \in Members : node'[m].mem = node[m].mem /\ state'[m] = state[m]
    BY <1>2
  <2> QED
    BY <1>1, <1>2, <1>4, <1>6, <2>1, RunsNext
<1>16. Counted'
  BY <1>1, <1>2, <1>3, <1>11, CountedStill
<1>17. Referred'
  BY <1>1, <1>2, <1>10, <1>11, ReferredStill
<1>18. Once'
  <2> SUFFICES ASSUME NEW m \in Members
               PROVE  /\ Due(m)' => m <= at /\ ~Linking(m) /\ Open(m) = 0
                      /\ queued'[m] <= 1 /\ (queued'[m] > 0 => program[m].task)
                      /\ queued'[m] > 0 => m \notin Started /\ ~ToQueue(m) /\ \A u \in DepThreads : ~Offers(u, m)'
                      /\ program[m].task /\ m \in Started => ~ToQueue(m) /\ \A u \in DepThreads : ~Offers(u, m)'
                      /\ ToQueue(m) => \A u \in DepThreads : ~Offers(u, m)'
                      /\ \A u, v \in DepThreads : Offers(u, m)' /\ Offers(v, m)' => u = v
    BY <1>2, <1>3, <1>9, <1>11, Static DEF Once
  <2>1. /\ Due(m) => m <= at /\ ~Linking(m) /\ Open(m) = 0
        /\ queued[m] <= 1 /\ (queued[m] > 0 => program[m].task)
        /\ queued[m] > 0 => m \notin Started /\ ~ToQueue(m) /\ \A u \in DepThreads : ~Offers(u, m)
        /\ program[m].task /\ m \in Started => ~ToQueue(m) /\ \A u \in DepThreads : ~Offers(u, m)
        /\ ToQueue(m) => \A u \in DepThreads : ~Offers(u, m)
        /\ \A u, v \in DepThreads : Offers(u, m) /\ Offers(v, m) => u = v
    BY <1>1 DEF Once
  <2>2. Due(m)' => Due(m)
    <3>1. CASE m = s
      BY <1>5, <3>1
    <3>2. CASE m # s
      BY <1>3, <1>7, <1>9, <3>2 DEF Due
    <3> QED
      BY <3>1, <3>2
  <2>3. CASE m = s
    <3>1. queued'[m] <= 1 /\ (queued'[m] > 0 => node[m].task)
      BY <1>7, <2>3
    <3>2. node[m].task => program[m].task
      BY <1>1 DEF Nodes
    <3>3. program[m].task => m \notin Started
      BY <1>5, <2>1, <2>3
    <3>4. \A u \in DepThreads : ~Offers(u, m)'
      BY <1>5, <1>9, <2>3
    <3> QED
      BY <1>5, <2>1, <2>2, <2>3, <3>1, <3>2, <3>3, <3>4
  <2>4. CASE m # s
    BY <1>7, <1>9, <2>1, <2>2, <2>4
  <2> QED
    BY <2>3, <2>4
<1>19. Hash'
  <2>1. cpc' # "end" => cpc # "end"
    BY <1>3
  <2> QED
    BY <1>1, <1>2, <1>3, <1>9, <2>1, HashStill
<1>20. Covered'
  <2>1. \A m, p \in Members : Behind(m, p) => Behind(m, p)'
    BY <1>2, <1>3 DEF Behind
  <2> QED
    BY <1>1, <1>2, <1>3, <1>9, <2>1, CoveredStill
<1>21. Ordered'
  BY <1>1, <1>2, <1>9, OrderedStill
<1> QED
  BY <1>12, <1>13, <1>14, <1>15, <1>16, <1>17, <1>18, <1>19, <1>20, <1>21 DEF IInv

-----------------------------------------------------------------------------
(* A thread releases what is linked behind its task. *)

LEMMA MarkFinishedKeeps ==
  ASSUME IInv, NEW t \in DepThreads, MarkFinished(t)
  PROVE  IInv'
<1> DEFINE n == exec[t].task
           list == node[n].successors
<1>1. Types /\ Place /\ Nodes /\ Runs /\ Counted /\ Referred /\ Once /\ Hash /\ Covered /\ Ordered
  BY Plain
<1>2. /\ exec[t].pc = "mark" /\ node' = [node EXCEPT ![n].task = FALSE, ![n].successors = <<>>]
      /\ exec' = [exec EXCEPT ![t].pc = "release", ![t].succs = list]
      /\ program' = program /\ hash' = hash /\ queued' = queued /\ state' = state /\ UNCHANGED creator
  BY DEF MarkFinished
<1>3. /\ at' = at /\ cpc' = cpc /\ dep' = dep /\ todo' = todo /\ found' = found
      /\ Members' = Members /\ Addresses' = Addresses
      /\ \A m \in Members, a \in Addresses : IsEntered(m, a)' <=> IsEntered(m, a)
      /\ \A m \in Members, a \in Addresses : IsReached(m, a)' <=> IsReached(m, a)
      /\ \A m \in Members : (Linking(m)' <=> Linking(m)) /\ (ToQueue(m)' <=> ToQueue(m))
      /\ WaitOn' <=> WaitOn
  BY <1>2, CreatorStill
<1>4. /\ n \in Members /\ state[n] = "ran" /\ node[n].mem # "none" /\ exec[t].succs = <<>>
      /\ exec[t] \in Exec /\ node[n] \in Node /\ list \in Seq(Members) /\ n \in Ended
      /\ ~(n = at /\ cpc = "process")
  <2>1. n \in Members /\ state[n] = "ran" /\ node[n].mem # "none" /\ exec[t].succs = <<>>
    BY <1>1, <1>2 DEF Runs
  <2>2. exec[t] \in Exec /\ node[n] \in Node /\ list \in Seq(Members)
    BY <1>1, <2>1, Plain DEF Types
  <2> QED
    BY <1>1, <2>1, <2>2 DEF Place, Ended
<1>5. /\ node' \in [Members -> Node]
      /\ \A m \in Members : m # n => node'[m] = node[m]
      /\ ~node'[n].task /\ node'[n].successors = <<>>
      /\ node'[n].npredecessors = node[n].npredecessors
      /\ node'[n].nrefs = node[n].nrefs /\ node'[n].mem = node[n].mem
  <2> DEFINE e == [node[n] EXCEPT !.task = FALSE, !.successors = <<>>]
  <2>1. node \in [Members -> Node]
    BY <1>1 DEF Types
  <2>2. /\ e \in Node /\ ~e.task /\ e.successors = <<>> /\ e.npredecessors = node[n].npredecessors
        /\ e.nrefs = node[n].nrefs /\ e.mem = node[n].mem
    <3>1. <<>> \in Seq(Members)
      OBVIOUS
    <3> QED
      BY <1>4, <3>1 DEF Node
  <2>3. node' = [node EXCEPT ![n] = e]
    BY <1>2, <1>4, <2>1
  <2> HIDE DEF e
  <2> QED
    BY <1>4, <2>1, <2>2, <2>3
<1> HIDE DEF list
<1>6. /\ exec' \in [DepThreads -> Exec]
      /\ \A u \in DepThreads : u # t => exec'[u] = exec[u]
      /\ exec'[t].pc = "release" /\ exec'[t].task = n /\ exec'[t].succs = list
  <2> DEFINE e == [exec[t] EXCEPT !.pc = "release", !.succs = list]
  <2>1. exec \in [DepThreads -> Exec]
    BY <1>1 DEF Types
  <2>2. e \in Exec /\ e.pc = "release" /\ e.task = n /\ e.succs = list
    BY <1>4 DEF Exec
  <2>3. exec' = [exec EXCEPT ![t] = e]
    BY <1>2, <2>1
  <2> HIDE DEF e
  <2> QED
    BY <2>1, <2>2, <2>3
<1>7. /\ Ended' = Ended /\ Started' = Started
      /\ \A u \in DepThreads : \A m \in Members : Offers(u, m)' <=> Offers(u, m)
  BY <1>2, <1>3, <1>6 DEF Ended, Started, Offers
<1>8. Types'
  BY <1>1, <1>2, <1>3, <1>5, <1>6, TypesNext DEF Types
<1>9. Runs'
  <2>1. exec[t].pc # "idle" /\ \A m \in Members : node'[m].mem = node[m].mem /\ state'[m] = state[m]
    BY <1>2, <1>5
  <2>2. exec'[t] = Idle \/ /\ exec'[t].task = exec[t].task /\ exec'[t].pc \notin {"idle", "body"}
                           /\ state'[exec[t].task] = "ran" /\ node[exec[t].task].mem # "none"
                           /\ exec'[t].pc = "mark" => exec'[t].succs = <<>>
                           /\ exec'[t].pc \in {"offer", "drop"} => exec'[t].succs # <<>>
    BY <1>2, <1>4, <1>6
  <2>3. \A m \in Members : /\ state[m] = "running" /\ m # exec[t].task => state'[m] = "running"
                           /\ state[m] = "ran" => state'[m] = "ran"
                           /\ node'[m].mem = "none" => node[m].mem = "none"
    BY <1>2, <2>1
  <2> HIDE DEF n
  <2> QED
    BY <1>1, <1>2, <1>6, <2>1, <2>2, <2>3, RunsNext
<1>10. ASSUME NEW m \in Members
       PROVE  /\ Total(Succs, m)' + Total(Helds, m)' = Total(Succs, m) + Total(Helds, m)
              /\ Total(Entries, m)' = Total(Entries, m) /\ Open(m)' = Open(m)
  <2>1. Total(Succs, m)' = Total(Succs, m) + Count(node'[n].successors, m) - Count(list, m)
    <3>1. \A k \in Members \ {n} : node'[k].successors = node[k].successors
      BY <1>5
    <3> QED
      BY <1>1, <1>2, <1>4, <1>8, <1>9, <3>1, SuccsChange DEF list
  <2>2. /\ Total(Helds, m)' = Total(Helds, m) + Count(exec'[t].succs, m) - Count(exec[t].succs, m)
        /\ Total(Lefts, m)' = Total(Lefts, m) + Count(Left(exec'[t]), m) - Count(Left(exec[t]), m)
    <3>1. \A u \in DepThreads \ {t} : exec'[u] = exec[u]
      BY <1>6
    <3> QED
      BY <1>1, <1>2, <1>8, <1>9, <3>1, ThreadsChange
  <2>3. Left(exec'[t]) = list /\ Left(exec[t]) = <<>>
    BY <1>2, <1>4, <1>6 DEF Left
  <2>4. Count(<<>>, m) = 0 /\ Count(list, m) \in Nat
    <3>1. <<>> \in Seq(Members)
      OBVIOUS
    <3> QED
      BY <1>4, <3>1, CountNone, CountType
  <2>5. /\ Total(Succs, m) \in Nat /\ Total(Helds, m) \in Nat /\ Total(Lefts, m) \in Nat
        /\ Open(m) = Total(Succs, m) + Total(Lefts, m) /\ Open(m)' = Total(Succs, m)' + Total(Lefts, m)'
    BY <1>1, ListsAre DEF Open
  <2>6. Total(Entries, m)' = Total(Entries, m)
    BY <1>2, EntriesStill
  <2>7. /\ Total(Succs, m)' = Total(Succs, m) - Count(list, m)
        /\ Total(Helds, m)' = Total(Helds, m) + Count(list, m)
        /\ Total(Lefts, m)' = Total(Lefts, m) + Count(list, m)
    BY <1>4, <1>5, <1>6, <2>1, <2>2, <2>3, <2>4, <2>5
  <2> QED
    BY <2>4, <2>5, <2>6, <2>7
<1>11. Place'
  BY <1>1, <1>2, PlaceStill DEF Place
<1>12. Nodes'
  <2> SUFFICES ASSUME NEW m \in Members
               PROVE  /\ m > at \/ program[m].deps = <<>> =>
                           node'[m].mem = "none" /\ ~node'[m].task /\ node'[m].npredecessors = 0 /\ node'[m].nrefs = 0
                      /\ m <= at /\ program[m].deps # <<>> =>
                           /\ node'[m].mem \in IF program[m].task THEN {"heap", "freed"} ELSE {"frame", "gone"}
                           /\ program[m].task => (~node'[m].task => state[m] = "ran" \/ (m = at /\ cpc = "process"))
                      /\ node'[m].task => program[m].task /\ ~(m = at /\ cpc = "process")
                      /\ ~node'[m].task => node'[m].successors = <<>>
    BY <1>1, <1>2, <1>3, Static DEF Nodes
  <2> HIDE DEF n
  <2>1. CASE m = n
    BY <1>1, <1>4, <1>5, <2>1 DEF Nodes
  <2>2. CASE m # n
    BY <1>1, <1>5, <2>2 DEF Nodes
  <2> QED
    BY <2>1, <2>2
<1>13. Counted'
  <2>1. \A m \in Members : node'[m].npredecessors = node[m].npredecessors
    BY <1>5
  <2> QED
    BY <1>1, <1>2, <1>3, <1>10, <2>1, CountedStill
<1>14. Referred'
  <2>1. \A m \in Members : node'[m].nrefs = node[m].nrefs /\ node'[m].mem = node[m].mem
    BY <1>5
  <2>2. \A u \in DepThreads : exec'[u].task = exec[u].task
    BY <1>6
  <2>3. \A m \in Members : Own(m)' = Own(m)
    BY <1>2, <2>1, <2>2, ZenonT(30) DEF Own
  <2>4. ASSUME NEW m \in Members
        PROVE  Total(Entries, m)' + Total(Succs, m)' + Total(Helds, m)'
                 = Total(Entries, m) + Total(Succs, m) + Total(Helds, m)
    <3>1. /\ Total(Succs, m) \in Nat /\ Total(Helds, m) \in Nat /\ Total(Entries, m) \in Nat
          /\ Total(Succs, m)' \in Nat /\ Total(Helds, m)' \in Nat
      BY <1>1, <1>8, <1>9, ListsAre, ListsAreNext
    <3> QED
      BY <1>10, <3>1
  <2> QED
    BY <1>1, <1>2, <2>1, <2>3, <2>4, ReferredStill
<1>15. Once'
  BY <1>1, <1>2, <1>3, <1>7, <1>10, OnceStill
<1>16. Hash'
  <2>1. cpc' # "end" => cpc # "end"
    BY <1>3
  <2> QED
    BY <1>1, <1>2, <1>3, <1>7, <2>1, HashStill
<1>17. Covered'
  <2>1. ASSUME NEW m \in Members, NEW p \in Members, Behind(m, p)
        PROVE  Behind(m, p)' \/ Below(p) \subseteq Ended'
    <3>1. CASE p = n
      BY <1>1, <1>4, <1>7, <3>1, BelowEnded
    <3>2. CASE p # n
      BY <1>3, <1>5, <2>1, <3>2 DEF Behind
    <3> QED
      BY <3>1, <3>2
  <2> QED
    BY <1>1, <1>2, <1>3, <1>7, <2>1, CoveredStill
<1>18. Ordered'
  BY <1>1, <1>2, <1>7, OrderedStill
<1> QED
  BY <1>8, <1>9, <1>11, <1>12, <1>13, <1>14, <1>15, <1>16, <1>17, <1>18 DEF IInv

LEMMA CountDownKeeps ==
  ASSUME IInv, NEW t \in DepThreads, CountDown(t)
  PROVE  IInv'
<1> DEFINE s == Head(exec[t].succs)
           control == IF node[s].npredecessors = 1 THEN "offer" ELSE "drop"
<1>1. Types /\ Place /\ Nodes /\ Runs /\ Counted /\ Referred /\ Once /\ Hash /\ Covered /\ Ordered
  BY Plain
<1>2. /\ exec[t].pc = "release" /\ exec[t].succs # <<>>
      /\ node' = [node EXCEPT ![s].npredecessors = @ - 1]
      /\ exec' = [exec EXCEPT ![t].pc = control]
      /\ program' = program /\ hash' = hash /\ queued' = queued /\ state' = state /\ UNCHANGED creator
  BY DEF CountDown
<1>3. /\ at' = at /\ cpc' = cpc /\ dep' = dep /\ todo' = todo /\ found' = found
      /\ Members' = Members /\ Addresses' = Addresses
      /\ \A m \in Members, a \in Addresses : IsEntered(m, a)' <=> IsEntered(m, a)
      /\ \A m \in Members, a \in Addresses : IsReached(m, a)' <=> IsReached(m, a)
      /\ \A m \in Members : (Linking(m)' <=> Linking(m)) /\ (ToQueue(m)' <=> ToQueue(m))
      /\ WaitOn' <=> WaitOn
  BY <1>2, CreatorStill
<1>4. /\ exec[t] \in Exec /\ exec[t].succs \in Seq(Members) /\ s \in Members
      /\ s \in Range(exec[t].succs) /\ node[s] \in Node /\ node[s].npredecessors \in Int
      /\ exec[t].task \in Members /\ state[exec[t].task] = "ran" /\ node[exec[t].task].mem # "none"
  <2>1. exec[t] \in Exec /\ exec[t].succs \in Seq(Members)
    BY <1>1 DEF Types, Exec
  <2>2. exec[t].task \in Members /\ state[exec[t].task] = "ran" /\ node[exec[t].task].mem # "none"
    BY <1>1, <1>2 DEF Runs
  <2>3. s \in Members /\ s \in Range(exec[t].succs)
    BY <1>2, <2>1, HeadAndTail
  <2> QED
    BY <2>1, <2>2, <2>3, Plain
<1> HIDE DEF s
\* What is held is not yet counted down, so nobody is to queue it yet.
<1>5. Open(s) \in Nat /\ Open(s) > 0
  <2>1. /\ Lists(Lefts, DepThreads, Members) /\ IsFiniteSet(DepThreads)
        /\ Total(Succs, s) \in Nat /\ Total(Lefts, s) \in Nat
    BY <1>1, Basics, ListsAre
  <2>2. Lefts[t] = exec[t].succs
    BY <1>2 DEF Lefts
  <2> DEFINE d == Lefts
  <2>3. Lists(d, DepThreads, Members) /\ s \in Range(d[t])
    BY <1>4, <2>1, <2>2
  <2> HIDE DEF d
  <2>4. Total(d, s) # 0
    BY <2>1, <2>3, TotalType
  <2> QED
    BY <2>1, <2>4 DEF Open, d
<1>6. /\ ~Due(s) /\ ~(s > at) /\ s <= at /\ program[s].deps # <<>>
      /\ node[s].npredecessors = Open(s) - IF Linking(s) THEN found + 1 ELSE 0
      /\ Linking(s) => Open(s) <= found
  <2>1. /\ node[s].npredecessors = Open(s) - IF Linking(s) THEN found + 1 ELSE 0
        /\ Linking(s) => Open(s) <= found
    BY <1>1, <1>4 DEF Counted
  <2>2. ~Due(s)
    BY <1>1, <1>4, <1>5 DEF Once
  <2>3. s \in Nat /\ at \in Nat
    BY <1>4, Plain
  <2>4. Linking(s) => s = at /\ program[s].deps # <<>>
    BY <1>1 DEF Place, Linking
  <2>5. s > at \/ program[s].deps = <<>> => node[s].npredecessors = 0
    BY <1>1, <1>4 DEF Nodes
  <2>6. ~(s > at \/ program[s].deps = <<>>)
    <3>1. Linking(s) => ~(s > at)
      BY <2>3, <2>4
    <3>2. ~Linking(s) => node[s].npredecessors # 0
      BY <1>5, <2>1
    <3> QED
      BY <2>4, <2>5, <3>1, <3>2
  <2> QED
    BY <2>1, <2>2, <2>3, <2>6
<1>7. /\ node' \in [Members -> Node]
      /\ \A m \in Members : m # s => node'[m] = node[m]
      /\ node'[s].npredecessors = node[s].npredecessors - 1
      /\ \A m \in Members : /\ node'[m].task = node[m].task /\ node'[m].successors = node[m].successors
                            /\ node'[m].nrefs = node[m].nrefs /\ node'[m].mem = node[m].mem
  <2> DEFINE p == node[s].npredecessors - 1
             e == [node[s] EXCEPT !.npredecessors = p]
  <2>1. node \in [Members -> Node] /\ p \in Int
    BY <1>1, <1>4 DEF Types
  <2>2. node' = [node EXCEPT ![s] = e]
    BY <1>2, <2>1
  <2> HIDE DEF p
  <2>3. /\ e \in Node /\ e.npredecessors = p /\ e.task = node[s].task
        /\ e.successors = node[s].successors /\ e.nrefs = node[s].nrefs /\ e.mem = node[s].mem
    BY <1>4, <2>1 DEF Node
  <2> HIDE DEF e
  <2>4. node' \in [Members -> Node] /\ node'[s] = e /\ \A m \in Members : m # s => node'[m] = node[m]
    BY <1>4, <2>1, <2>2, <2>3
  <2> QED
    BY <2>3, <2>4 DEF p
<1>8. /\ exec' \in [DepThreads -> Exec]
      /\ \A u \in DepThreads : u # t => exec'[u] = exec[u]
      /\ exec'[t].pc = control /\ exec'[t].task = exec[t].task /\ exec'[t].succs = exec[t].succs
      /\ control \in {"offer", "drop"}
  <2>1. exec \in [DepThreads -> Exec] /\ control \in {"offer", "drop"}
    BY <1>1 DEF Types
  <2> DEFINE c == control
             e == [exec[t] EXCEPT !.pc = c]
  <2>2. c \in {"offer", "drop"}
    BY <2>1
  <2>3. exec' = [exec EXCEPT ![t] = e]
    BY <1>2, <2>1
  <2> HIDE DEF c
  <2>4. e \in Exec /\ e.pc = c /\ e.task = exec[t].task /\ e.succs = exec[t].succs
    BY <1>4, <2>2 DEF Exec
  <2> HIDE DEF e
  <2>5. /\ exec' \in [DepThreads -> Exec] /\ exec'[t] = e
        /\ \A u \in DepThreads : u # t => exec'[u] = exec[u]
    BY <2>1, <2>3, <2>4
  <2> QED
    BY <2>1, <2>4, <2>5 DEF c
<1>9. Types'
  BY <1>1, <1>2, <1>3, <1>7, <1>8, TypesNext DEF Types
<1>10. Runs'
  <2>1. exec[t].pc # "idle" /\ \A m \in Members : node'[m].mem = node[m].mem /\ state'[m] = state[m]
    BY <1>2, <1>7
  <2>2. exec'[t].pc \notin {"idle", "body", "mark"}
    BY <1>8
  <2> QED
    BY <1>1, <1>2, <1>4, <1>8, <2>1, <2>2, RunsNext
<1>11. ASSUME NEW m \in Members
       PROVE  /\ Total(Succs, m)' = Total(Succs, m) /\ Total(Helds, m)' = Total(Helds, m)
              /\ Total(Entries, m)' = Total(Entries, m) /\ Open(m)' = Open(m) - One(s, m)
              /\ Open(m) \in Nat
  <2>1. Total(Succs, m)' = Total(Succs, m)
    BY <1>2, <1>7, SuccsStill
  <2>2. /\ Total(Helds, m)' = Total(Helds, m) + Count(exec'[t].succs, m) - Count(exec[t].succs, m)
        /\ Total(Lefts, m)' = Total(Lefts, m) + Count(Left(exec'[t]), m) - Count(Left(exec[t]), m)
    <3>1. \A u \in DepThreads \ {t} : exec'[u] = exec[u]
      BY <1>8
    <3> QED
      BY <1>1, <1>2, <1>9, <1>10, <3>1, ThreadsChange
  <2>3. Left(exec'[t]) = Tail(exec[t].succs) /\ Left(exec[t]) = exec[t].succs
    BY <1>2, <1>8 DEF Left
  <2>4. /\ Count(exec[t].succs, m) \in Nat /\ Count(Tail(exec[t].succs), m) \in Nat
        /\ Count(exec[t].succs, m) = Count(Tail(exec[t].succs), m) + One(s, m)
    BY <1>2, <1>4, CountTail, CountType DEF s
  <2>5. /\ Total(Succs, m) \in Nat /\ Total(Helds, m) \in Nat /\ Total(Lefts, m) \in Nat
        /\ Open(m) = Total(Succs, m) + Total(Lefts, m) /\ Open(m)' = Total(Succs, m)' + Total(Lefts, m)'
    BY <1>1, ListsAre DEF Open
  <2>6. Total(Entries, m)' = Total(Entries, m) /\ One(s, m) \in {0, 1}
    BY <1>2, EntriesStill DEF One
  <2>7. /\ Total(Helds, m)' = Total(Helds, m)
        /\ Total(Lefts, m)' = Total(Lefts, m) - One(s, m)
    BY <1>8, <2>2, <2>3, <2>4, <2>5, <2>6
  <2> QED
    BY <2>1, <2>5, <2>6, <2>7
<1>12. /\ Ended' = Ended /\ Started' = Started
       /\ \A m \in Members : \A u \in DepThreads : m # s => (Offers(u, m)' <=> Offers(u, m))
       /\ \A m \in Members : \A u \in DepThreads :
            m = s /\ Offers(u, m)' => u = t /\ node[s].npredecessors = 1
  <2>1. /\ \A u \in DepThreads : \A m \in Members : u # t => (Offers(u, m)' <=> Offers(u, m))
        /\ \A m \in Members : ~Offers(t, m) /\ (Offers(t, m)' => m = s /\ node[s].npredecessors = 1)
    BY <1>2, <1>3, <1>8 DEF Offers, s
  <2>2. \A u \in DepThreads : ~Offers(u, s)
    BY <1>6 DEF Due
  <2>3. \A m \in Members : \A u \in DepThreads :
          m = s /\ Offers(u, m)' => u = t /\ node[s].npredecessors = 1
    BY <2>1, <2>2
  <2>4. \A m \in Members : \A u \in DepThreads : m # s => (Offers(u, m)' <=> Offers(u, m))
    BY <2>1
  <2>5. Ended' = Ended /\ Started' = Started
    BY <1>2, <1>3 DEF Ended, Started
  <2> QED
    BY <2>3, <2>4, <2>5
<1>13. Place'
  BY <1>1, <1>2, PlaceStill DEF Place
<1>14. Nodes'
  <2> SUFFICES ASSUME NEW m \in Members
               PROVE  m > at \/ program[m].deps = <<>> => node'[m].npredecessors = 0
    BY <1>1, <1>2, <1>3, <1>7, Static DEF Nodes
  <2>1. CASE m = s
    BY <1>6, <2>1
  <2>2. CASE m # s
    BY <1>1, <1>7, <2>2 DEF Nodes
  <2> QED
    BY <2>1, <2>2
<1>15. Counted'
  <2> SUFFICES ASSUME NEW m \in Members
               PROVE  /\ node'[m].npredecessors = Open(m)' - IF Linking(m) THEN found + 1 ELSE 0
                      /\ Linking(m) => Open(m)' <= found
    BY <1>3 DEF Counted
  <2>1. CASE m = s
    <3>1. Open(m)' = Open(m) - 1
      BY <1>11, <2>1 DEF One
    <3>2. Open(m) \in Nat /\ found \in Nat /\ node[s].npredecessors \in Int
      BY <1>4, <1>5, <2>1, Plain
    <3> QED
      BY <1>6, <1>7, <2>1, <3>1, <3>2
  <2>2. CASE m # s
    <3>1. Open(m)' = Open(m)
      BY <1>11, <2>2 DEF One
    <3> QED
      BY <1>1, <1>7, <2>2, <3>1 DEF Counted
  <2> QED
    BY <2>1, <2>2
<1>16. Referred'
  <2>1. \A u \in DepThreads : exec'[u].task = exec[u].task
    BY <1>8
  <2>2. \A m \in Members : Own(m)' = Own(m)
    BY <1>2, <1>7, <2>1 DEF Own
  <2>3. \A m \in Members : node'[m].nrefs = node[m].nrefs /\ node'[m].mem = node[m].mem
    BY <1>7
  <2>4. \A m \in Members : Total(Entries, m)' + Total(Succs, m)' + Total(Helds, m)'
                             = Total(Entries, m) + Total(Succs, m) + Total(Helds, m)
    BY <1>11
  <2> QED
    BY <1>1, <1>2, <2>2, <2>3, <2>4, ReferredStill
<1>17. ~(queued[s] > 0) /\ ~ToQueue(s) /\ s \notin Started
  BY <1>6 DEF Due
<1>18. ASSUME NEW m \in Members, m = s, Due(m)'
       PROVE  ~Linking(m) /\ Open(m)' = 0
  <2>1. \E u \in DepThreads : Offers(u, m)'
    BY <1>2, <1>3, <1>12, <1>17, <1>18 DEF Due
  <2>2. node[s].npredecessors = 1
    BY <1>12, <1>18, <2>1
  <2>3. ~Linking(s) /\ Open(s) = 1
    <3>1. found \in Nat
      BY Plain
    <3> QED
      BY <1>5, <1>6, <2>2, <3>1
  <2>4. Open(m)' = Open(m) - 1
    BY <1>11, <1>18 DEF One
  <2> QED
    BY <1>18, <2>3, <2>4
<1>19. Once'
  <2> SUFFICES ASSUME NEW m \in Members
               PROVE  /\ Due(m)' => m <= at /\ ~Linking(m) /\ Open(m)' = 0
                      /\ queued[m] <= 1 /\ (queued[m] > 0 => program[m].task)
                      /\ queued[m] > 0 => m \notin Started /\ ~ToQueue(m) /\ \A u \in DepThreads : ~Offers(u, m)'
                      /\ program[m].task /\ m \in Started => ~ToQueue(m) /\ \A u \in DepThreads : ~Offers(u, m)'
                      /\ ToQueue(m) => \A u \in DepThreads : ~Offers(u, m)'
                      /\ \A u, v \in DepThreads : Offers(u, m)' /\ Offers(v, m)' => u = v
    BY <1>2, <1>3, <1>12, Static DEF Once
  <2>1. /\ Due(m) => m <= at /\ ~Linking(m) /\ Open(m) = 0
        /\ queued[m] <= 1 /\ (queued[m] > 0 => program[m].task)
        /\ queued[m] > 0 => m \notin Started /\ ~ToQueue(m) /\ \A u \in DepThreads : ~Offers(u, m)
        /\ program[m].task /\ m \in Started => ~ToQueue(m) /\ \A u \in DepThreads : ~Offers(u, m)
        /\ ToQueue(m) => \A u \in DepThreads : ~Offers(u, m)
        /\ \A u, v \in DepThreads : Offers(u, m) /\ Offers(v, m) => u = v
    BY <1>1 DEF Once
  <2>2. CASE m = s
    <3>1. ~(queued[m] > 0) /\ ~ToQueue(m) /\ m \notin Started /\ m <= at
      BY <1>6, <1>17, <2>2
    <3>2. Due(m)' => ~Linking(m) /\ Open(m)' = 0
      BY <1>18, <2>2
    <3>3. \A u \in DepThreads : Offers(u, m)' => u = t
      BY <1>12, <2>2
    <3> QED
      BY <2>1, <3>1, <3>2, <3>3
  <2>3. CASE m # s
    <3>1. Open(m)' = Open(m)
      BY <1>11, <2>3 DEF One
    <3>2. Due(m)' => Due(m)
      BY <1>2, <1>3, <1>12, <2>3 DEF Due
    <3> QED
      BY <1>12, <2>1, <2>3, <3>1, <3>2
  <2> QED
    BY <2>2, <2>3
<1>20. Hash'
  <2>1. cpc' # "end" => cpc # "end"
    BY <1>3
  <2> QED
    BY <1>1, <1>2, <1>3, <1>12, <2>1, HashStill
<1>21. Covered'
  <2>1. \A m, p \in Members : Behind(m, p) => Behind(m, p)'
    BY <1>3, <1>7 DEF Behind
  <2> QED
    BY <1>1, <1>2, <1>3, <1>12, <2>1, CoveredStill
<1>22. Ordered'
  BY <1>1, <1>2, <1>12, OrderedStill
<1> QED
  BY <1>9, <1>10, <1>13, <1>14, <1>15, <1>16, <1>19, <1>20, <1>21, <1>22 DEF IInv

LEMMA DropKeeps ==
  ASSUME IInv, NEW t \in DepThreads, Drop(t)
  PROVE  IInv'
<1> DEFINE s == Head(exec[t].succs)
           rest == Tail(exec[t].succs)
<1>1. Types /\ Place /\ Nodes /\ Runs /\ Counted /\ Referred /\ Once /\ Hash /\ Covered /\ Ordered
  BY Plain
<1>2. /\ exec[t].pc = "drop" /\ node' = DerefAll(node, <<s>>)
      /\ exec' = [exec EXCEPT ![t].pc = "release", ![t].succs = rest]
      /\ program' = program /\ hash' = hash /\ queued' = queued /\ state' = state /\ UNCHANGED creator
  BY DEF Drop
<1>3. /\ at' = at /\ cpc' = cpc /\ dep' = dep /\ todo' = todo /\ found' = found
      /\ Members' = Members /\ Addresses' = Addresses
      /\ \A m \in Members, a \in Addresses : IsEntered(m, a)' <=> IsEntered(m, a)
      /\ \A m \in Members, a \in Addresses : IsReached(m, a)' <=> IsReached(m, a)
      /\ \A m \in Members : (Linking(m)' <=> Linking(m)) /\ (ToQueue(m)' <=> ToQueue(m))
      /\ WaitOn' <=> WaitOn
  BY <1>2, CreatorStill
<1>4. /\ exec[t] \in Exec /\ exec[t].succs \in Seq(Members) /\ exec[t].succs # <<>>
      /\ s \in Members /\ rest \in Seq(Members)
      /\ exec[t].task \in Members /\ state[exec[t].task] = "ran" /\ node[exec[t].task].mem # "none"
  <2>1. exec[t] \in Exec /\ exec[t].succs \in Seq(Members)
    BY <1>1 DEF Types, Exec
  <2>2. /\ exec[t].succs # <<>> /\ exec[t].task \in Members /\ state[exec[t].task] = "ran"
        /\ node[exec[t].task].mem # "none"
    BY <1>1, <1>2 DEF Runs
  <2> QED
    BY <2>1, <2>2, HeadAndTail
<1> HIDE DEF s, rest
<1>5. /\ node' \in [Members -> Node]
      /\ \A m \in Members :
           /\ node'[m].task = node[m].task /\ node'[m].npredecessors = node[m].npredecessors
           /\ node'[m].successors = node[m].successors
           /\ node'[m].nrefs = node[m].nrefs - One(s, m)
           /\ node'[m].mem = IF One(s, m) # 0 /\ node[m].nrefs - One(s, m) = 0 THEN "freed" ELSE node[m].mem
  <2>1. node \in [Members -> Node] /\ <<s>> \in Seq(Members) /\ \A m : Count(<<s>>, m) = One(s, m)
    BY <1>1, <1>4, CountOne DEF Types
  <2> DEFINE l == <<s>>
  <2>2. node' = DerefAll(node, l) /\ l \in Seq(Members) /\ \A m : Count(l, m) = One(s, m)
    BY <1>2, <2>1
  <2> HIDE DEF l
  <2> QED
    BY <2>1, <2>2, DerefAllIs
<1>6. /\ exec' \in [DepThreads -> Exec]
      /\ \A u \in DepThreads : u # t => exec'[u] = exec[u]
      /\ exec'[t].pc = "release" /\ exec'[t].task = exec[t].task /\ exec'[t].succs = rest
  <2> DEFINE e == [exec[t] EXCEPT !.pc = "release", !.succs = rest]
  <2>1. exec \in [DepThreads -> Exec]
    BY <1>1 DEF Types
  <2>2. e \in Exec /\ e.pc = "release" /\ e.task = exec[t].task /\ e.succs = rest
    BY <1>4 DEF Exec
  <2>3. exec' = [exec EXCEPT ![t] = e]
    BY <1>2, <2>1
  <2> HIDE DEF e
  <2> QED
    BY <2>1, <2>2, <2>3
<1>7. /\ Ended' = Ended /\ Started' = Started
      /\ \A u \in DepThreads : \A m \in Members : Offers(u, m)' <=> Offers(u, m)
  BY <1>2, <1>3, <1>6 DEF Ended, Started, Offers
<1>8. Types'
  BY <1>1, <1>2, <1>3, <1>5, <1>6, TypesNext DEF Types
<1>9. ASSUME NEW m \in Members
      PROVE  node'[m].mem = "none" => node[m].mem = "none"
  BY <1>5
<1>10. Runs'
  <2>1. exec[t].pc # "idle" /\ \A m \in Members : state'[m] = state[m]
    BY <1>2
  <2> QED
    BY <1>1, <1>2, <1>4, <1>6, <1>9, <2>1, RunsNext
<1>11. ASSUME NEW m \in Members
       PROVE  /\ Total(Succs, m)' = Total(Succs, m) /\ Total(Entries, m)' = Total(Entries, m)
              /\ Total(Helds, m)' = Total(Helds, m) - One(s, m) /\ Open(m)' = Open(m)
              /\ Total(Helds, m)' \in Nat
  <2>1. Total(Succs, m)' = Total(Succs, m) /\ Total(Entries, m)' = Total(Entries, m)
    BY <1>2, <1>5, SuccsStill, EntriesStill
  <2>2. /\ Total(Helds, m)' = Total(Helds, m) + Count(exec'[t].succs, m) - Count(exec[t].succs, m)
        /\ Total(Lefts, m)' = Total(Lefts, m) + Count(Left(exec'[t]), m) - Count(Left(exec[t]), m)
    <3>1. \A u \in DepThreads \ {t} : exec'[u] = exec[u]
      BY <1>6
    <3> QED
      BY <1>1, <1>2, <1>8, <1>10, <3>1, ThreadsChange
  <2>3. Left(exec'[t]) = rest /\ Left(exec[t]) = rest
    BY <1>2, <1>6 DEF Left, rest
  <2>4. /\ Count(exec[t].succs, m) \in Nat /\ Count(rest, m) \in Nat
        /\ Count(exec[t].succs, m) = Count(rest, m) + One(s, m)
    BY <1>4, CountTail, CountType DEF s, rest
  <2>5. /\ Total(Succs, m) \in Nat /\ Total(Helds, m) \in Nat /\ Total(Lefts, m) \in Nat
        /\ Open(m) = Total(Succs, m) + Total(Lefts, m) /\ Open(m)' = Total(Succs, m)' + Total(Lefts, m)'
        /\ Total(Helds, m)' \in Nat
    BY <1>1, <1>8, <1>10, ListsAre, ListsAreNext DEF Open
  <2>6. One(s, m) \in {0, 1}
    BY DEF One
  <2>7. Total(Helds, m)' = Total(Helds, m) - One(s, m)
    BY <1>6, <2>2, <2>4, <2>5, <2>6
  <2>8. Total(Lefts, m)' = Total(Lefts, m)
    BY <2>2, <2>3, <2>4, <2>5
  <2> QED
    BY <2>1, <2>5, <2>7, <2>8
<1>12. ASSUME NEW m \in Members
       PROVE  /\ node'[m].nrefs = Total(Entries, m)' + Total(Succs, m)' + Total(Helds, m)' + Own(m)
              /\ node'[m].mem # node[m].mem =>
                   node[m].mem = "heap" /\ node'[m].mem = "freed" /\ program[m].task
              /\ node'[m].mem = "none" <=> node[m].mem = "none"
              /\ node'[m].mem = "heap" => node'[m].nrefs > 0
              /\ node'[m].mem = "freed" => node'[m].nrefs = 0
              /\ m > at \/ program[m].deps = <<>> => node'[m].nrefs = 0
  <2>1. /\ node[m].nrefs = Total(Entries, m) + Total(Succs, m) + Total(Helds, m) + Own(m)
        /\ Total(Entries, m) \in Nat /\ Total(Succs, m) \in Nat /\ Total(Helds, m) \in Nat
        /\ Own(m) \in {0, 1} /\ One(s, m) \in Nat
    BY <1>1, ListsAre DEF Referred, Own, One
  <2>2. /\ node'[m].nrefs = node[m].nrefs + 0 - One(s, m)
        /\ node'[m].nrefs = Total(Entries, m) + Total(Succs, m) + Total(Helds, m)' + Own(m)
    <3>1. node'[m].nrefs = node[m].nrefs - One(s, m)
      BY <1>5
    <3>2. Total(Helds, m)' = Total(Helds, m) - One(s, m)
      BY <1>11
    <3> QED
      BY <2>1, <3>1, <3>2
  <2>3. node'[m].nrefs \in Nat /\ Total(Helds, m)' \in Nat
    BY <1>11, <2>1, <2>2
  <2>4. ~program[m].task /\ node[m].mem # "none" => node'[m].nrefs > 0
    <3>1. ~program[m].task /\ node[m].mem # "none" => Own(m) = 1
      BY DEF Own
    <3> QED
      BY <2>1, <2>2, <2>3, <3>1
  <2>5. node'[m].mem = IF One(s, m) # 0 /\ node'[m].nrefs = 0 THEN "freed" ELSE node[m].mem
    BY <1>5
  <2> DEFINE r == node'[m].nrefs
             mem == node'[m].mem
             l == One(s, m)
             g == 0
  <2>6. /\ r \in Nat /\ l \in Nat /\ g \in Nat /\ r = node[m].nrefs + g - l
        /\ g # 0 => Own(m) = 1
    BY <2>1, <2>2, <2>3
  <2>7. /\ mem = IF l # 0 /\ r = 0 THEN "freed" ELSE node[m].mem
        /\ ~program[m].task /\ node[m].mem # "none" => r > 0
    BY <2>4, <2>5
  <2> HIDE DEF r, mem, l, g
  <2>8. /\ mem # node[m].mem => node[m].mem = "heap" /\ mem = "freed" /\ program[m].task
        /\ mem = "none" <=> node[m].mem = "none"
        /\ mem = "heap" => r > 0
        /\ mem = "freed" => r = 0
        /\ m > at \/ program[m].deps = <<>> => r = 0
    BY <2>6, <2>7, GivenBack
  <2> QED
    BY <1>11, <2>2, <2>8 DEF r, mem
<1>13. Place'
  BY <1>1, <1>2, PlaceStill DEF Place
<1>14. Nodes'
  BY <1>1, <1>2, <1>3, <1>5, <1>12, NodesStill
<1>15. Counted'
  BY <1>1, <1>2, <1>3, <1>5, <1>11, CountedStill
<1>16. Referred'
  <2>1. \A u \in DepThreads : exec'[u].task = exec[u].task
    BY <1>6
  <2>2. \A m \in Members : Own(m)' = Own(m)
    <3>1. \A m \in Members : node'[m].mem = "none" <=> node[m].mem = "none"
      BY <1>12
    <3> QED
      BY <1>2, <2>1, <3>1 DEF Own
  <2> QED
    BY <1>3, <1>12, <2>2 DEF Referred
<1>17. Once'
  BY <1>1, <1>2, <1>3, <1>7, <1>11, OnceStill
<1>18. Hash'
  <2>1. cpc' # "end" => cpc # "end"
    BY <1>3
  <2> QED
    BY <1>1, <1>2, <1>3, <1>7, <2>1, HashStill
<1>19. Covered'
  <2>1. \A m, p \in Members : Behind(m, p) => Behind(m, p)'
    BY <1>3, <1>5 DEF Behind
  <2> QED
    BY <1>1, <1>2, <1>3, <1>7, <2>1, CoveredStill
<1>20. Ordered'
  BY <1>1, <1>2, <1>7, OrderedStill
<1> QED
  BY <1>8, <1>10, <1>13, <1>14, <1>15, <1>16, <1>17, <1>18, <1>19, <1>20 DEF IInv

LEMMA DropOwnKeeps ==
  ASSUME IInv, NEW t \in DepThreads, DropOwn(t)
  PROVE  IInv'
<1> DEFINE n == exec[t].task
<1>1. Types /\ Place /\ Nodes /\ Runs /\ Counted /\ Referred /\ Once /\ Hash /\ Covered /\ Ordered
  BY Plain
<1>2. /\ exec[t].pc = "release" /\ exec[t].succs = <<>> /\ node' = DerefAll(node, <<n>>)
      /\ exec' = [exec EXCEPT ![t] = Idle]
      /\ program' = program /\ hash' = hash /\ queued' = queued /\ state' = state /\ UNCHANGED creator
  BY DEF DropOwn
<1>3. /\ at' = at /\ cpc' = cpc /\ dep' = dep /\ todo' = todo /\ found' = found
      /\ Members' = Members /\ Addresses' = Addresses
      /\ \A m \in Members, a \in Addresses : IsEntered(m, a)' <=> IsEntered(m, a)
      /\ \A m \in Members, a \in Addresses : IsReached(m, a)' <=> IsReached(m, a)
      /\ \A m \in Members : (Linking(m)' <=> Linking(m)) /\ (ToQueue(m)' <=> ToQueue(m))
      /\ WaitOn' <=> WaitOn
  BY <1>2, CreatorStill
<1>4. /\ n \in Members /\ state[n] = "ran" /\ program[n].task /\ node[n].mem # "none"
      /\ None \notin Members
  BY <1>1, <1>2, Basics DEF Runs
<1> HIDE DEF n
<1>5. /\ node' \in [Members -> Node]
      /\ \A m \in Members :
           /\ node'[m].task = node[m].task /\ node'[m].npredecessors = node[m].npredecessors
           /\ node'[m].successors = node[m].successors
           /\ node'[m].nrefs = node[m].nrefs - One(n, m)
           /\ node'[m].mem = IF One(n, m) # 0 /\ node[m].nrefs - One(n, m) = 0 THEN "freed" ELSE node[m].mem
  <2>1. node \in [Members -> Node] /\ <<n>> \in Seq(Members) /\ \A m : Count(<<n>>, m) = One(n, m)
    BY <1>1, <1>4, CountOne DEF Types
  <2> DEFINE l == <<n>>
  <2>2. node' = DerefAll(node, l) /\ l \in Seq(Members) /\ \A m : Count(l, m) = One(n, m)
    BY <1>2, <2>1
  <2> HIDE DEF l
  <2> QED
    BY <2>1, <2>2, DerefAllIs
<1>6. /\ exec' \in [DepThreads -> Exec]
      /\ \A u \in DepThreads : u # t => exec'[u] = exec[u]
      /\ exec'[t] = Idle
  <2>1. exec \in [DepThreads -> Exec] /\ Idle \in Exec
    <3>1. <<>> \in Seq(Members)
      OBVIOUS
    <3> QED
      BY <1>1, <3>1 DEF Types, Exec, Idle
  <2> DEFINE e == Idle
  <2>2. exec' = [exec EXCEPT ![t] = e] /\ e \in Exec
    BY <1>2, <2>1
  <2> HIDE DEF e
  <2>3. /\ exec' \in [DepThreads -> Exec] /\ exec'[t] = e
        /\ \A u \in DepThreads : u # t => exec'[u] = exec[u]
    BY <2>1, <2>2
  <2> QED
    BY <2>3 DEF e
<1>7. /\ Ended' = Ended /\ Started' = Started
      /\ \A u \in DepThreads : \A m \in Members : Offers(u, m)' <=> Offers(u, m)
  BY <1>2, <1>3, <1>6 DEF Ended, Started, Offers, Idle
<1>8. Types'
  BY <1>1, <1>2, <1>3, <1>5, <1>6, TypesNext DEF Types
<1>9. ASSUME NEW m \in Members
      PROVE  node'[m].mem = "none" <=> node[m].mem = "none"
  <2>1. CASE m = n
    <3>1. node'[m].mem = "freed" \/ node'[m].mem = node[m].mem
      BY <1>5
    <3> QED
      BY <1>4, <2>1, <3>1
  <2>2. CASE m # n
    BY <1>5, <2>2 DEF One
  <2> QED
    BY <2>1, <2>2
<1>10. Runs'
  <2>1. exec[t].pc # "idle" /\ \A m \in Members : state'[m] = state[m]
    BY <1>2
  <2> QED
    BY <1>1, <1>2, <1>4, <1>6, <1>9, <2>1, RunsNext
<1>11. ASSUME NEW m \in Members
       PROVE  /\ Total(Succs, m)' = Total(Succs, m) /\ Total(Entries, m)' = Total(Entries, m)
              /\ Total(Helds, m)' = Total(Helds, m) /\ Open(m)' = Open(m)
  <2>1. \A u \in DepThreads : exec'[u].succs = exec[u].succs /\ Left(exec'[u]) = Left(exec[u])
    BY <1>2, <1>6 DEF Left, Idle
  <2>2. /\ Total(Succs, m)' = Total(Succs, m) /\ Total(Entries, m)' = Total(Entries, m)
        /\ Total(Helds, m)' = Total(Helds, m) /\ Total(Lefts, m)' = Total(Lefts, m)
    BY <1>2, <1>5, <2>1, SuccsStill, EntriesStill, ThreadsKeep
  <2> QED
    BY <2>2 DEF Open
\* The own reference goes with the thread that runs the task.
<1>12. \A m \in Members : Own(m)' = Own(m) - One(n, m)
  <2> SUFFICES ASSUME NEW m \in Members PROVE Own(m)' = Own(m) - One(n, m)
    OBVIOUS
  <2>1. node'[m].mem = "none" <=> node[m].mem = "none"
    BY <1>9
  <2>2. CASE m = n
    <3>1. \A u \in DepThreads : exec'[u].task # m
      <4>1. exec'[t].task # m
        BY <1>4, <1>6, <2>2 DEF Idle
      <4>2. \A u \in DepThreads : u # t => exec[u].task # m
        BY <1>1, <1>4, <2>2, RunsAlone DEF n
      <4> QED
        BY <1>6, <4>1, <4>2
    <3>2. Own(m)' = 0
      BY <1>2, <1>4, <2>2, <3>1 DEF Own
    <3>3. Own(m) = 1
      BY <1>4, <2>2 DEF Own, n
    <3> QED
      BY <2>2, <3>2, <3>3 DEF One
  <2>3. CASE m # n
    <3>1. exec'[t].task # m /\ exec[t].task # m
      BY <1>4, <1>6, <2>3 DEF Idle, n
    <3>2. (\E u \in DepThreads : exec'[u].task = m) <=> (\E u \in DepThreads : exec[u].task = m)
      BY <1>6, <3>1
    <3>3. Own(m)' = Own(m)
      BY <1>2, <2>1, <3>2 DEF Own
    <3>4. Own(m) \in {0, 1} /\ One(n, m) = 0
      BY <2>3 DEF Own, One
    <3> QED
      BY <3>3, <3>4
  <2> QED
    BY <2>2, <2>3
<1>13. ASSUME NEW m \in Members
       PROVE  /\ node'[m].nrefs = Total(Entries, m)' + Total(Succs, m)' + Total(Helds, m)' + Own(m)'
              /\ node'[m].mem # node[m].mem =>
                   node[m].mem = "heap" /\ node'[m].mem = "freed" /\ program[m].task
              /\ node'[m].mem = "heap" => node'[m].nrefs > 0
              /\ node'[m].mem = "freed" => node'[m].nrefs = 0
              /\ m > at \/ program[m].deps = <<>> => node'[m].nrefs = 0
  <2>1. /\ node[m].nrefs = Total(Entries, m) + Total(Succs, m) + Total(Helds, m) + Own(m)
        /\ Total(Entries, m) \in Nat /\ Total(Succs, m) \in Nat /\ Total(Helds, m) \in Nat
        /\ Own(m) \in {0, 1} /\ Own(m)' \in {0, 1} /\ One(n, m) \in Nat
    BY <1>1, ListsAre DEF Referred, Own, One
  <2>2. /\ node'[m].nrefs = node[m].nrefs + 0 - One(n, m)
        /\ node'[m].nrefs = Total(Entries, m) + Total(Succs, m) + Total(Helds, m) + Own(m)'
    <3>1. node'[m].nrefs = node[m].nrefs - One(n, m) /\ Own(m)' = Own(m) - One(n, m)
      BY <1>5, <1>12
    <3> DEFINE o == Own(m)
               p == Own(m)'
    <3>2. p = o - One(n, m) /\ o \in {0, 1} /\ p \in {0, 1}
      BY <2>1, <3>1
    <3>3. node[m].nrefs = Total(Entries, m) + Total(Succs, m) + Total(Helds, m) + o
      BY <2>1
    <3> HIDE DEF o, p
    <3>4. /\ node'[m].nrefs = node[m].nrefs + 0 - One(n, m)
          /\ node'[m].nrefs = Total(Entries, m) + Total(Succs, m) + Total(Helds, m) + p
      BY <2>1, <3>1, <3>2, <3>3
    <3> QED
      BY <3>4 DEF p
  <2>3. node'[m].nrefs \in Nat
    BY <2>1, <2>2
  <2>4. ~program[m].task /\ node[m].mem # "none" => node'[m].nrefs > 0
    <3>1. ~program[m].task /\ node[m].mem # "none" => Own(m)' = 1
      <4>1. node'[m].mem = "none" <=> node[m].mem = "none"
        BY <1>9
      <4> QED
        BY <1>2, <4>1 DEF Own
    <3> QED
      BY <2>1, <2>2, <2>3, <3>1
  <2>5. node'[m].mem = IF One(n, m) # 0 /\ node'[m].nrefs = 0 THEN "freed" ELSE node[m].mem
    BY <1>5
  <2> DEFINE r == node'[m].nrefs
             mem == node'[m].mem
             l == One(n, m)
             g == 0
  <2>6. /\ r \in Nat /\ l \in Nat /\ g \in Nat /\ r = node[m].nrefs + g - l
        /\ g # 0 => Own(m) = 1
    BY <2>1, <2>2, <2>3
  <2>7. /\ mem = IF l # 0 /\ r = 0 THEN "freed" ELSE node[m].mem
        /\ ~program[m].task /\ node[m].mem # "none" => r > 0
    BY <2>4, <2>5
  <2> HIDE DEF r, mem, l, g
  <2>8. /\ mem # node[m].mem => node[m].mem = "heap" /\ mem = "freed" /\ program[m].task
        /\ mem = "none" <=> node[m].mem = "none"
        /\ mem = "heap" => r > 0
        /\ mem = "freed" => r = 0
        /\ m > at \/ program[m].deps = <<>> => r = 0
    BY <2>6, <2>7, GivenBack
  <2> QED
    BY <1>11, <2>2, <2>8 DEF r, mem
<1>14. Place'
  BY <1>1, <1>2, PlaceStill DEF Place
<1>15. Nodes'
  BY <1>1, <1>2, <1>3, <1>5, <1>13, NodesStill
<1>16. Counted'
  BY <1>1, <1>2, <1>3, <1>5, <1>11, CountedStill
<1>17. Referred'
  BY <1>3, <1>13 DEF Referred
<1>18. Once'
  BY <1>1, <1>2, <1>3, <1>7, <1>11, OnceStill
<1>19. Hash'
  <2>1. cpc' # "end" => cpc # "end"
    BY <1>3
  <2> QED
    BY <1>1, <1>2, <1>3, <1>7, <2>1, HashStill
<1>20. Covered'
  <2>1. \A m, p \in Members : Behind(m, p) => Behind(m, p)'
    BY <1>3, <1>5 DEF Behind
  <2> QED
    BY <1>1, <1>2, <1>3, <1>7, <2>1, CoveredStill
<1>21. Ordered'
  BY <1>1, <1>2, <1>7, OrderedStill
<1> QED
  BY <1>8, <1>10, <1>14, <1>15, <1>16, <1>17, <1>18, <1>19, <1>20, <1>21 DEF IInv

-----------------------------------------------------------------------------
(* The invariant, and what follows from it. *)

\* Empty lists have nothing in them.
LEMMA AllEmpty ==
  ASSUME NEW S, NEW K, IsFiniteSet(K), NEW d, Lists(d, K, S), \A k \in K : d[k] = <<>>, NEW n
  PROVE  Total(d, n) = 0
<1>1. \A k \in K : n \notin Range(d[k])
  BY DEF Range
<1> QED
  BY <1>1, TotalType

LEMMA InitIInv ==
  ASSUME DepInit
  PROVE  IInv
<1>1. /\ program \in DepPrograms /\ at = 0 /\ cpc = "next" /\ dep = 1 /\ todo = <<>> /\ found = 0
      /\ node = [n \in Members |-> [task |-> FALSE, npredecessors |-> 0, successors |-> <<>>, nrefs |-> 0, mem |-> "none"]]
      /\ hash = [a \in Addresses |-> [last_out |-> None, last_ins |-> <<>>]]
      /\ queued = [n \in Members |-> 0] /\ state = [n \in Members |-> "new"]
      /\ exec = [t \in DepThreads |-> Idle]
  BY DEF DepInit
<1>2. Types
  <2>1. <<>> \in Seq(Members)
    OBVIOUS
  <2>2. program \in Seq([task : BOOLEAN, deps : Seq(Dependence)])
    BY <1>1, DepAssumption
  <2>3. Len(program) \in Nat
    BY <2>2
  <2>4. at \in 0 .. Len(program) /\ dep \in Nat \ {0} /\ found \in Nat /\ todo \in Seq(Members)
    BY <1>1, <2>1, <2>3
  <2>5. Idle \in Exec
    BY <2>1 DEF Idle, Exec
  <2>6. exec \in [DepThreads -> Exec]
    BY <1>1, <2>5
  <2> DEFINE e == [task |-> FALSE, npredecessors |-> 0, successors |-> <<>>, nrefs |-> 0, mem |-> "none"]
  <2>7. e \in Node
    BY <2>1 DEF Node
  <2>8. node \in [Members -> Node]
    BY <1>1, <2>7
  <2> QED
    BY <1>1, <2>1, <2>4, <2>6, <2>8 DEF Types
<1>3. /\ Members \subseteq Nat \ {0} /\ None \notin Members /\ IsFiniteSet(Members)
      /\ IsFiniteSet(DepThreads) /\ IsFiniteSet(Addresses) /\ Len(program) \in Nat
  BY <1>2, Basics
<1>4. /\ \A n \in Members : /\ ~node[n].task /\ node[n].npredecessors = 0 /\ node[n].successors = <<>>
                            /\ node[n].nrefs = 0 /\ node[n].mem = "none"
                            /\ queued[n] = 0 /\ state[n] = "new" /\ n > at /\ ~(n <= at)
      /\ \A t \in DepThreads : exec[t] = Idle
      /\ \A a \in Addresses : hash[a].last_out = None /\ hash[a].last_ins = <<>>
  BY <1>1, <1>3
<1>5. Range(<<>>) = {}
  BY DEF Range
<1>6. Place
  BY <1>1, <1>3, <1>5 DEF Place
<1>7. Nodes
  BY <1>4 DEF Nodes
<1>8. Runs
  BY <1>4 DEF Runs, Idle
<1>9. \A n \in Members : /\ Total(Succs, n) = 0 /\ Total(Helds, n) = 0 /\ Total(Entries, n) = 0
                         /\ Open(n) = 0
  <2>1. /\ Lists(Succs, Members, Members) /\ Lists(Helds, DepThreads, Members)
        /\ Lists(Lefts, DepThreads, Members) /\ Lists(Entries, Addresses, Members)
    BY <1>2, <1>8, ListsAre
  <2>2. /\ \A m \in Members : Succs[m] = <<>>
        /\ \A t \in DepThreads : Helds[t] = <<>> /\ Lefts[t] = <<>>
        /\ \A a \in Addresses : Entries[a] = <<>>
    BY <1>4 DEF Succs, Helds, Lefts, Entries, Idle, Maybe
  <2> DEFINE d == Succs
             e == Helds
             f == Lefts
             g == Entries
  <2>3. Lists(d, Members, Members) /\ \A m \in Members : d[m] = <<>>
    BY <2>1, <2>2
  <2>4. Lists(e, DepThreads, Members) /\ \A t \in DepThreads : e[t] = <<>>
    BY <2>1, <2>2
  <2>5. Lists(f, DepThreads, Members) /\ \A t \in DepThreads : f[t] = <<>>
    BY <2>1, <2>2
  <2>6. Lists(g, Addresses, Members) /\ \A a \in Addresses : g[a] = <<>>
    BY <2>1, <2>2
  <2> HIDE DEF d, e, f, g
  <2>7. \A n : Total(d, n) = 0
    BY <1>3, <2>3, AllEmpty
  <2>8. \A n : Total(e, n) = 0
    BY <1>3, <2>4, AllEmpty
  <2>9. \A n : Total(f, n) = 0
    BY <1>3, <2>5, AllEmpty
  <2>10. \A n : Total(g, n) = 0
    BY <1>3, <2>6, AllEmpty
  <2> QED
    BY <2>7, <2>8, <2>9, <2>10 DEF d, e, f, g, Open
<1>10. Counted
  BY <1>1, <1>4, <1>9 DEF Counted, Linking
<1>11. Referred
  <2>1. \A n \in Members : Own(n) = 0
    BY <1>4 DEF Own
  <2> QED
    BY <1>4, <1>9, <2>1 DEF Referred
<1>12. Once
  <2>1. \A n \in Members : ~Due(n) /\ n \notin Started
    BY <1>1, <1>4 DEF Due, ToQueue, Started, Offers, Idle
  <2>2. \A n \in Members : \A t \in DepThreads : ~Offers(t, n)
    BY <1>4 DEF Offers, Idle
  <2> QED
    BY <1>1, <1>4, <2>1, <2>2 DEF Once, ToQueue
<1>13. Hash
  BY <1>4, <1>5 DEF Hash, IsEntered
<1>14. Covered
  BY <1>4 DEF Covered, IsReached
<1>15. Ordered
  BY <1>4 DEF Ordered, Started
<1> QED
  BY <1>2, <1>6, <1>7, <1>8, <1>10, <1>11, <1>12, <1>13, <1>14, <1>15 DEF IInv

LEMMA StutterKeeps ==
  ASSUME IInv, UNCHANGED depVars
  PROVE  IInv'
<1>1. Types /\ Place /\ Nodes /\ Runs /\ Counted /\ Referred /\ Once /\ Hash /\ Covered /\ Ordered
  BY Plain
<1>2. /\ program' = program /\ node' = node /\ hash' = hash /\ queued' = queued /\ state' = state
      /\ exec' = exec /\ UNCHANGED creator
  BY DEF depVars
<1>3. /\ at' = at /\ cpc' = cpc /\ dep' = dep /\ todo' = todo /\ found' = found
      /\ Members' = Members /\ Addresses' = Addresses
      /\ \A m \in Members, a \in Addresses : IsEntered(m, a)' <=> IsEntered(m, a)
      /\ \A m \in Members, a \in Addresses : IsReached(m, a)' <=> IsReached(m, a)
      /\ \A m \in Members : (Linking(m)' <=> Linking(m)) /\ (ToQueue(m)' <=> ToQueue(m))
      /\ WaitOn' <=> WaitOn
  BY <1>2, CreatorStill
<1>4. /\ Ended' = Ended /\ Started' = Started
      /\ \A u \in DepThreads : \A m \in Members : Offers(u, m)' <=> Offers(u, m)
  BY <1>2, <1>3 DEF Ended, Started, Offers
<1>5. \A m \in Members : /\ Total(Succs, m)' = Total(Succs, m) /\ Total(Helds, m)' = Total(Helds, m)
                         /\ Total(Entries, m)' = Total(Entries, m) /\ Open(m)' = Open(m)
  BY <1>2, ListsStill
<1>6. \A m \in Members : Own(m)' = Own(m)
  BY <1>2 DEF Own
<1>7. Types'
  BY <1>1, <1>2, <1>3, TypesNext DEF Types
<1>8. Place'
  BY <1>1, <1>2, PlaceStill DEF Place
<1>9. Nodes'
  BY <1>1, <1>2, <1>3, Static DEF Nodes
<1>10. Runs'
  BY <1>1, <1>2, RunsStill
<1>11. Counted'
  BY <1>1, <1>2, <1>3, <1>5, CountedStill
<1>12. Referred'
  BY <1>1, <1>2, <1>5, <1>6, ReferredStill
<1>13. Once'
  BY <1>1, <1>2, <1>3, <1>4, <1>5, OnceStill
<1>14. Hash'
  <2>1. cpc' # "end" => cpc # "end"
    BY <1>3
  <2> QED
    BY <1>1, <1>2, <1>3, <1>4, <2>1, HashStill
<1>15. Covered'
  <2>1. \A m, p \in Members : Behind(m, p) => Behind(m, p)'
    BY <1>2, <1>3 DEF Behind
  <2> QED
    BY <1>1, <1>2, <1>3, <1>4, <2>1, CoveredStill
<1>16. Ordered'
  BY <1>1, <1>2, <1>4, OrderedStill
<1> QED
  BY <1>7, <1>8, <1>9, <1>10, <1>11, <1>12, <1>13, <1>14, <1>15, <1>16 DEF IInv

LEMMA StepIInv ==
  ASSUME IInv, [DepNext]_depVars
  PROVE  IInv'
<1>1. CASE Create
  BY <1>1, BeginMemberKeeps, LinkKeeps, SkipKeeps, EnterKeeps, SetTaskKeeps, AccountKeeps,
     QueueKeeps, EndWaitKeeps, FreeHashKeeps DEF Create
<1>2. ASSUME NEW t \in DepThreads, Execute(t)
      PROVE  IInv'
  BY <1>2, StartTaskKeeps, EndTaskKeeps, MarkFinishedKeeps, CountDownKeeps, OfferKeeps,
     DropKeeps, DropOwnKeeps DEF Execute
<1>3. CASE UNCHANGED depVars
  BY <1>3, StutterKeeps
<1> QED
  BY <1>1, <1>2, <1>3 DEF DepNext

\* What the proofs below rest on holds in every state.
THEOREM Invariance == DepSpec => []IInv
<1>1. DepInit => IInv
  BY InitIInv
<1>2. IInv /\ [DepNext]_depVars => IInv'
  BY StepIInv
<1> QED
  BY <1>1, <1>2, PTL DEF DepSpec

\* The creator that finds no predecessors and the threads that count the last of them
\* down queue a task once between them, and a wait never (__kmp_check_deps,
\* __kmp_release_deps).
THEOREM DepsQueuedOnce == DepSpec => []QueuedOnce
<1>1. IInv => QueuedOnce
  <2> SUFFICES ASSUME IInv PROVE QueuedOnce
    OBVIOUS
  <2>1. /\ Types /\ Place /\ Nodes /\ Runs /\ Counted /\ Once /\ found \in Nat
        /\ \A n \in Members : node[n] \in Node /\ program[n].task \in BOOLEAN
    BY Plain, Basics
  <2>2. TypeOK
    <3>1. ASSUME NEW n \in Members, node[n].npredecessors < 0 PROVE Linking(n)
      <4>1. Open(n) \in Nat
        BY <2>1, ListsAre
      <4>2. ~Linking(n) => node[n].npredecessors = Open(n)
        BY <2>1, <4>1 DEF Counted
      <4> QED
        BY <3>1, <4>1, <4>2
    <3>2. \A n \in Members : state[n] \in {"new", "created", "running", "ran"}
      BY <2>1 DEF Types
    <3>3. \A n \in Members : node[n].mem \in {"none", "heap", "freed", "frame", "gone"}
      BY <2>1 DEF Node
    <3>4. at \in 0 .. Len(program)
      BY <2>1 DEF Types
    <3> QED
      BY <2>1, <3>1, <3>2, <3>3, <3>4 DEF TypeOK, Linking
  <2>3. ASSUME NEW n \in Members
        PROVE  queued[n] + (IF state[n] \in {"running", "ran"} THEN 1 ELSE 0)
                 <= IF program[n].task \/ state[n] = "ran" THEN 1 ELSE 0
    <3>1. queued[n] \in Nat /\ queued[n] <= 1 /\ (queued[n] > 0 => program[n].task /\ n \notin Started)
      BY <2>1 DEF Types, Once
    <3>2. state[n] = "running" => program[n].task
      <4>1. state[n] = "running" => ~(n > at)
        BY <2>1 DEF Nodes
      <4>2. n \in Nat /\ at \in Nat
        BY Plain
      <4>3. n = at /\ WaitOn => state[n] = "created"
        BY <2>1 DEF Place, WaitOn
      <4>4. n <= at /\ ~program[n].task => state[n] = "ran" \/ (n = at /\ WaitOn)
        BY <2>1 DEF Nodes
      <4>5. n > at \/ n <= at
        BY <4>2
      <4> QED
        BY <4>1, <4>3, <4>4, <4>5
    <3>3. state[n] \in {"running", "ran"} => queued[n] = 0
      BY <3>1 DEF Started
    <3>4. CASE state[n] \in {"running", "ran"}
      <4>1. program[n].task \/ state[n] = "ran"
        BY <3>2, <3>4
      <4> QED
        BY <3>3, <3>4, <4>1
    <3>5. CASE state[n] \notin {"running", "ran"}
      BY <3>1, <3>5
    <3> QED
      BY <3>4, <3>5
  <2> QED
    BY <2>2, <2>3 DEF QueuedOnce
<1> QED
  BY <1>1, Invariance, PTL

\* The node of a task counts the references of the hash, of the lists of successors and
\* its own (__kmp_node_ref, __kmp_node_deref): while it has one it is there, and once
\* it has none it is freed.
THEOREM DepsReferencesExact == DepSpec => []ReferencesExact
<1>1. IInv => ReferencesExact
  <2> SUFFICES ASSUME IInv, NEW n \in Members, program[n].task
               PROVE  /\ node[n].mem = "heap" => node[n].nrefs = References(n) /\ node[n].nrefs > 0
                      /\ node[n].mem = "freed" => References(n) = 0
    BY DEF ReferencesExact
  <2>1. /\ node[n].nrefs = Total(Entries, n) + Total(Succs, n) + Total(Helds, n) + Own(n)
        /\ node[n].mem = "heap" => node[n].nrefs > 0
        /\ node[n].mem = "freed" => node[n].nrefs = 0
    BY Plain DEF Referred
  <2>2. node[n].mem # "none" =>
          Own(n) = IF state[n] # "ran" \/ (\E t \in DepThreads : exec[t].task = n) THEN 1 ELSE 0
    BY DEF Own
  <2>3. node[n].mem # "none" =>
          References(n) = Total(Entries, n) + Total(Succs, n) + Total(Helds, n) + Own(n)
    BY <2>2 DEF References, Total, Succs, Helds
  <2> QED
    BY <2>1, <2>3
<1> QED
  BY <1>1, Invariance, PTL

\* What a step that gives member n a new state does to the two sets.
LEMMA StartedEnded ==
  ASSUME Types, program' = program, NEW n \in Members, NEW v \in {"created", "running", "ran"},
         state' = [state EXCEPT ![n] = v]
  PROVE  /\ v = "created" /\ n \notin Started => Started' = Started /\ Ended' = Ended
         /\ v = "running" /\ n \notin Started => Started' = Started \cup {n} /\ Ended' = Ended
         /\ v = "ran" => Started' = Started \cup {n} /\ Ended' = Ended \cup {n}
         /\ v = "ran" /\ n \in Started => Started' = Started
<1>1. Members' = Members
  BY Static
<1>2. \A m \in Members : state'[m] = IF m = n THEN v ELSE state[m]
  BY DEF Types
<1>3. /\ Started' = {m \in Members : state'[m] \in {"running", "ran"}}
      /\ Ended' = {m \in Members : state'[m] = "ran"}
  BY <1>1 DEF Started, Ended
<1>4. CASE v = "created" /\ n \notin Started
  BY <1>2, <1>3, <1>4 DEF Started, Ended
<1>5. CASE v = "running" /\ n \notin Started
  BY <1>2, <1>3, <1>5 DEF Started, Ended
<1>6. CASE v = "ran"
  BY <1>2, <1>3, <1>6 DEF Started, Ended
<1> QED
  BY <1>4, <1>5, <1>6

\* Whatever the threads do, no task starts and no wait ends before all that it depends
\* on has ended: the program the creator and the threads carry out is DepOrder's.
THEOREM DepsOrder == DepSpec => ImplementsOrder
<1>1. DepInit => Order!Init
  BY DEF DepInit, Order!Init
<1>2. IInv /\ IInv' /\ [DepNext]_depVars => [Order!Next]_(Order!orderVars)
  <2> SUFFICES ASSUME IInv, IInv', [DepNext]_depVars
               PROVE  Order!Next \/ UNCHANGED Order!orderVars
    OBVIOUS
  <2>1. /\ Types /\ Place /\ Nodes /\ Runs /\ Once /\ Members \subseteq Nat \ {0} /\ at \in Nat
        /\ state \in [Members -> {"new", "created", "running", "ran"}]
    BY Plain DEF Types
  <2>2. Ordered'
    BY DEF IInv
  <2>3. program' = program /\ Started' = Started /\ Ended' = Ended => UNCHANGED Order!orderVars
    BY DEF Order!orderVars, Started, Ended
  <2>4. ASSUME NEW n \in Members, n \notin Started, Before(n) \subseteq Ended,
                Started' = Started \cup {n}, program' = program,
                Ended' = IF program[n].task THEN Ended ELSE Ended \cup {n}
         PROVE  Order!Next
    BY <2>4 DEF Order!Next, Order!Start, Started, Ended, Before, Members
  <2>5. ASSUME NEW n \in Members, n \in Started \ Ended, Ended' = Ended \cup {n},
                Started' = Started, program' = program
         PROVE  Order!Next
    BY <2>5 DEF Order!Next, Order!End, Started, Ended, Members
  <2>6. CASE program' = program /\ state' = state
    <3>1. Started' = Started /\ Ended' = Ended
      BY <2>6, Static DEF Started, Ended
    <3> QED
      BY <2>6, <2>3, <3>1
  <2>7. CASE BeginMember
    <3> DEFINE n == at + 1
               empty == program[n].deps = <<>> /\ ~program[n].task
    <3>1. /\ program' = program /\ at < Len(program)
          /\ state' = [state EXCEPT ![n] = IF empty THEN "ran" ELSE "created"]
      BY <2>7 DEF BeginMember
    <3>2. n \in Members /\ state[n] = "new"
      <4>1. Members = 1 .. Len(program) /\ Len(program) \in Nat /\ at \in Nat /\ at < Len(program)
        BY <2>1, <3>1, Basics
      <4>2. n \in Members /\ n > at
        BY <4>1
      <4> QED
        BY <2>1, <4>2 DEF Nodes
    <3> HIDE DEF n
    <3>3. CASE empty
      <4>1. Before(n) = {}
        BY <2>1, <3>2, <3>3, BeforeIs
      <4>2. /\ Started' = Started \cup {n} /\ Ended' = Ended \cup {n} /\ n \notin Started
        <5>1. state' = [state EXCEPT ![n] = "ran"] /\ n \notin Started
          BY <3>1, <3>2, <3>3 DEF Started
        <5> QED
          BY <2>1, <3>1, <3>2, <5>1, StartedEnded
      <4> QED
        BY <2>4, <3>1, <3>2, <3>3, <4>1, <4>2
    <3>4. CASE ~empty
      <4>1. Started' = Started /\ Ended' = Ended
        <5>1. state' = [state EXCEPT ![n] = "created"] /\ n \notin Started /\ n \notin Ended
          BY <3>1, <3>2, <3>4 DEF Started, Ended
        <5> QED
          BY <2>1, <3>1, <3>2, <5>1, StartedEnded
      <4> QED
        BY <2>3, <3>1, <4>1
    <3> QED
      BY <3>3, <3>4
  <2>8. CASE EndWait
    <3>1. /\ program' = program /\ cpc = "wait" /\ state' = [state EXCEPT ![at] = "ran"]
      BY <2>8 DEF EndWait
    <3>2. at \in Members /\ state[at] = "created" /\ ~program[at].task
      BY <2>1, <3>1 DEF Place
    <3> DEFINE n == at
    <3>3. /\ n \in Members /\ n \in Nat \ {0} /\ state[n] = "created" /\ ~program[n].task
          /\ state' = [state EXCEPT ![n] = "ran"]
      BY <2>1, <3>1, <3>2
    <3> HIDE DEF n
    <3>4. /\ Started' = Started \cup {n} /\ Ended' = Ended \cup {n} /\ n \notin Started
      <4>1. n \notin Started
        BY <3>3 DEF Started
      <4> QED
        BY <2>1, <3>1, <3>3, <4>1, StartedEnded
    <3>5. Before(n) \subseteq Ended
      <4>1. \A m \in Started' : Before(m) \subseteq Ended'
        BY <2>2, <3>1, Static DEF Ordered
      <4>2. n \notin Before(n)
        BY <2>1, <3>3, BeforeIs
      <4> QED
        BY <3>4, <4>1, <4>2
    <3> QED
      BY <2>4, <3>1, <3>3, <3>4, <3>5
  <2>9. ASSUME NEW t \in DepThreads, StartTask(t)
        PROVE  Order!Next
    <3>1. PICK n \in Members : queued[n] > 0 /\ state' = [state EXCEPT ![n] = "running"]
      BY <2>9 DEF StartTask
    <3>2. program' = program
      BY <2>9 DEF StartTask
    <3>3. program[n].task /\ n \notin Started
      BY <2>1, <3>1 DEF Once
    <3>4. /\ Started' = Started \cup {n} /\ Ended' = Ended
      BY <2>1, <3>1, <3>2, <3>3, StartedEnded
    <3>5. Before(n) \subseteq Ended
      <4>1. \A m \in Started' : Before(m) \subseteq Ended'
        BY <2>2, <3>2, Static DEF Ordered
      <4> QED
        BY <3>4, <4>1
    <3> QED
      BY <2>4, <3>2, <3>3, <3>4, <3>5
  <2>10. ASSUME NEW t \in DepThreads, EndTask(t)
        PROVE  Order!Next
    <3> DEFINE n == exec[t].task
    <3>1. program' = program /\ state' = [state EXCEPT ![n] = "ran"]
      BY <2>10 DEF EndTask
    <3>2. n \in Members /\ state[n] = "running"
      BY <2>1, <2>10 DEF EndTask, Runs
    <3> HIDE DEF n
    <3>3. /\ Started' = Started /\ Ended' = Ended \cup {n} /\ n \in Started \ Ended
      <4>1. n \in Started \ Ended
        BY <3>2 DEF Started, Ended
      <4> QED
        BY <2>1, <3>1, <3>2, <4>1, StartedEnded
    <3> QED
      BY <2>5, <3>1, <3>2, <3>3
  <2>11. CASE Link \/ Skip \/ Enter \/ SetTask \/ Account \/ Queue \/ FreeHash
    BY <2>6, <2>11 DEF Link, Skip, Enter, SetTask, Account, Queue, FreeHash
  <2>12. ASSUME NEW t \in DepThreads,
               MarkFinished(t) \/ CountDown(t) \/ Offer(t) \/ Drop(t) \/ DropOwn(t)
        PROVE  program' = program /\ state' = state
    BY <2>12 DEF MarkFinished, CountDown, Offer, Drop, DropOwn
  <2>13. CASE UNCHANGED depVars
    BY <2>6, <2>13 DEF depVars
  <2>14. CASE Create
    BY <2>7, <2>8, <2>11, <2>14 DEF Create
  <2>15. ASSUME NEW t \in DepThreads, Execute(t)
         PROVE  Order!Next \/ UNCHANGED Order!orderVars
    BY <2>6, <2>9, <2>10, <2>12, <2>15 DEF Execute
  <2> QED
    BY <2>13, <2>14, <2>15 DEF DepNext
<1> QED
  BY <1>1, <1>2, Invariance, PTL DEF DepSpec, ImplementsOrder, Order!Spec

=============================================================================
