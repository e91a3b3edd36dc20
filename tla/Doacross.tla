------------------------------- MODULE Doacross -------------------------------
(***************************************************************************)
(* Loop nests with cross-iteration dependences (kmp_csupport.cpp). Each    *)
(* thread calls __kmpc_doacross_init before its first iteration and _fini  *)
(* after its last; in between it calls _wait for every sink of an          *)
(* iteration and _post at its source. The flags of the iterations are in   *)
(* an array that the first thread allocates and the last one frees,        *)
(* reached through the shared buffers of Dispatch's ring, with an index    *)
(* of their own; every loop here is nowait.                                *)
(***************************************************************************)
EXTENDS Dispatch

\* Teams and the nests they run, one after another. A nest has dimensions with
\* inclusive bounds and a step, and sinks: how many iterations, in every
\* dimension, lies behind what an iteration depends on.
CONSTANT Nests

NestTeam == [nproc : Nat \ {0}, nests : Seq([dims : Seq([lo : Int, up : Int, st : Int \ {0}]),
                                             sinks : Seq(Seq(Int))])]
ASSUME DoacrossAssumption == Nests \subseteq NestTeam

VARIABLES
  crew,      \* the team and its nests
  ring,      \* doacross_buf_idx, doacross_flags and doacross_num_done of t_disp_buffer
  arrays,    \* the arrays of flags allocated so far
  mine,      \* th_doacross_buf_idx, _info (the place in the ring or Null) and _flags
  at,        \* where each thread is: its step, its nest, iteration and sinks left
  given,     \* how many iterations of each nest were given out
  posted     \* the iterations of each nest whose source was passed

doacrossVars == <<crew, ring, arrays, mine, at, given, posted>>

Crew == 0..(crew.nproc - 1)
Alone == crew.nproc = 1             \* t_serialized: every call returns at once
Nest(t) == crew.nests[at[t].nest]
Buffer(t) == (mine[t].idx - 1) % NumBuffers
\* doacross_flags is NULL, 1 while the array is being allocated, or a pointer.
NULL == 0
InProgress == 1
Array(t) == arrays[mine[t].flags - InProgress]
Step(t, from, to) == at[t].step = from /\ at' = [at EXCEPT ![t].step = to]

-----------------------------------------------------------------------------
\* The number of iterations of a dimension, and of the nest.
RangeLength(d) == IF d.st > 0 THEN (d.up - d.lo) \div d.st + 1 ELSE (d.lo - d.up) \div (-d.st) + 1
TraceCount(dims) ==
  LET upto[i \in 0..Len(dims)] == IF i = 0 THEN 1 ELSE upto[i - 1] * RangeLength(dims[i])
  IN upto[Len(dims)]

Beyond(d, x) == IF d.st > 0 THEN x < d.lo \/ x > d.up ELSE x > d.lo \/ x < d.up
StepsFrom(d, x) == IF d.st > 0 THEN (x - d.lo) \div d.st ELSE (d.lo - x) \div (-d.st)

\* Mutant of IterNumber: the range of the dimension before is the factor.
IterNumberSkewed(dims, vec) ==
  LET upto[i \in DOMAIN dims] ==
        IF i = 1 THEN StepsFrom(dims[1], vec[1])
        ELSE StepsFrom(dims[i], vec[i]) + RangeLength(dims[i - 1]) * upto[i - 1]
  IN upto[Len(dims)]

\* The number of an iteration in the collapsed nest: its bit in the array.
IterNumber(dims, vec) ==
  LET upto[i \in DOMAIN dims] ==
        IF i = 1 THEN StepsFrom(dims[1], vec[1])
        ELSE StepsFrom(dims[i], vec[i]) + RangeLength(dims[i]) * upto[i - 1]
  IN upto[Len(dims)]

\* The iterations in the order of the sequential program, each as its distance
\* in every dimension from the first one, and the loop variables there.
Distance(dims, n) ==
  LET inner[i \in 1..Len(dims)] ==
        IF i = Len(dims) THEN 1 ELSE inner[i + 1] * RangeLength(dims[i + 1])
  IN [i \in DOMAIN dims |-> (n \div inner[i]) % RangeLength(dims[i])]
Vector(dims, distance) == [i \in DOMAIN dims |-> dims[i].lo + distance[i] * dims[i].st]
Sink(t, offset) ==
  LET d == Distance(Nest(t).dims, at[t].iteration) IN [i \in DOMAIN d |-> d[i] - offset[i]]

-----------------------------------------------------------------------------
\* __kmpc_doacross_init: the next index, and the bounds in a private buffer;
DoacrossInit(t) ==
  /\ at[t].step = "outside" /\ at[t].nest < Len(crew.nests)
  /\ at' = [at EXCEPT ![t].nest = @ + 1, ![t].step = IF Alone THEN "iterate" ELSE "await"]
  /\ mine' = IF Alone THEN mine
             ELSE [mine EXCEPT ![t].idx = @ + 1, ![t].info = mine[t].idx % NumBuffers]
  /\ UNCHANGED <<crew, ring, arrays, given, posted>>

\* a wait for the buffer while an older nest occupies it;
AwaitDoacross(t) ==
  /\ Step(t, "await", "claim")
  /\ ring[Buffer(t)].buf_idx = mine[t].idx - 1
  /\ UNCHANGED <<crew, ring, arrays, mine, given, posted>>

\* Mutant of ClaimFlags: a test and a store that two threads can pass together.
ClaimFlagsTwice(t) ==
  LET flags == ring[Buffer(t)].flags IN
  /\ Step(t, "claim", IF flags = NULL THEN "allocate" ELSE "spin")
  /\ UNCHANGED <<crew, ring, arrays, mine, given, posted>>

\* the thread whose compare-and-store finds NULL is the first,
ClaimFlags(t) ==
  LET flags == ring[Buffer(t)].flags IN
  /\ Step(t, "claim", CASE flags = NULL -> "allocate" [] flags = InProgress -> "spin" [] OTHER -> "keep")
  /\ ring' = IF flags = NULL THEN [ring EXCEPT ![Buffer(t)].flags = InProgress] ELSE ring
  /\ UNCHANGED <<crew, arrays, mine, given, posted>>

\* it allocates the array, trace_count / 8 + 8 bytes of zero,
AllocateFlags(t) ==
  /\ Step(t, "allocate", "keep")
  /\ arrays' = Append(arrays, [nest |-> at[t].nest, bits |-> {}, live |-> TRUE,
                               bytes |-> TraceCount(Nest(t).dims) \div 8 + 8])
  /\ ring' = [ring EXCEPT ![Buffer(t)].flags = Len(arrays) + 1 + InProgress]
  /\ UNCHANGED <<crew, mine, given, posted>>

\* the others spin until it has,
SpinForFlags(t) ==
  /\ Step(t, "spin", "keep")
  /\ ring[Buffer(t)].flags # InProgress
  /\ UNCHANGED <<crew, ring, arrays, mine, given, posted>>

\* and everybody keeps a copy of the pointer.
KeepFlags(t) ==
  /\ Step(t, "keep", "iterate")
  /\ mine' = [mine EXCEPT ![t].flags = ring[Buffer(t)].flags]
  /\ UNCHANGED <<crew, ring, arrays, given, posted>>

\* The iterations are given out in order, to any thread (see Dispatch).
TakeIteration(t) ==
  LET n == at[t].nest IN
  /\ at[t].step = "iterate" /\ given[n] < TraceCount(Nest(t).dims)
  /\ given' = [given EXCEPT ![n] = @ + 1]
  /\ at' = [at EXCEPT ![t].step = "wait", ![t].iteration = given[n], ![t].sinks = Nest(t).sinks]
  /\ UNCHANGED <<crew, ring, arrays, mine, posted>>

\* __kmpc_doacross_wait returns at once for a vector that is out of bounds in
\* one dimension, and otherwise when the bit of that iteration is set.
Answered(t, vec) ==
  LET dims == Nest(t).dims IN
  \/ Alone
  \/ \E i \in DOMAIN dims : Beyond(dims[i], vec[i])
  \/ ~Alone /\ IterNumber(dims, vec) \in Array(t).bits

WaitSink(t) ==
  /\ at[t].step = "wait" /\ at[t].sinks # <<>>
  /\ Answered(t, Vector(Nest(t).dims, Sink(t, Head(at[t].sinks))))
  /\ at' = [at EXCEPT ![t].sinks = Tail(@)]
  /\ UNCHANGED <<crew, ring, arrays, mine, given, posted>>

\* The body, and __kmpc_doacross_post: the bit is set unless it is already.
Post(t) ==
  LET n == at[t].nest
      dims == Nest(t).dims
      bit == IterNumber(dims, Vector(dims, Distance(dims, at[t].iteration)))
  IN /\ at[t].sinks = <<>> /\ Step(t, "wait", "iterate")
     /\ posted' = [posted EXCEPT ![n] = @ \cup {at[t].iteration}]
     /\ arrays' = IF Alone THEN arrays ELSE [arrays EXCEPT ![mine[t].flags - InProgress].bits = @ \cup {bit}]
     /\ UNCHANGED <<crew, ring, mine, given>>

AllGiven(t) == at[t].step = "iterate" /\ given[at[t].nest] = TraceCount(Nest(t).dims)

\* Mutant of CountFini: the thread before the last frees the array.
CountFiniEarly(t) ==
  /\ AllGiven(t) /\ ~Alone
  /\ Step(t, "iterate", IF ring[mine[t].info].num_done + 2 = crew.nproc THEN "free" ELSE "forget")
  /\ ring' = [ring EXCEPT ![mine[t].info].num_done = @ + 1]
  /\ UNCHANGED <<crew, arrays, mine, given, posted>>

\* __kmpc_doacross_fini: the last thread of the team to be counted
CountFini(t) ==
  /\ AllGiven(t) /\ ~Alone
  /\ Step(t, "iterate", IF ring[mine[t].info].num_done + 1 = crew.nproc THEN "free" ELSE "forget")
  /\ ring' = [ring EXCEPT ![mine[t].info].num_done = @ + 1]
  /\ UNCHANGED <<crew, arrays, mine, given, posted>>

SerialFini(t) ==
  /\ AllGiven(t) /\ Alone
  /\ Step(t, "iterate", "outside")
  /\ UNCHANGED <<crew, ring, arrays, mine, given, posted>>

\* frees the array and clears the buffer,
FreeFlags(t) ==
  /\ Step(t, "free", "rearm")
  /\ arrays' = [arrays EXCEPT ![ring[Buffer(t)].flags - InProgress].live = FALSE]
  /\ ring' = [ring EXCEPT ![Buffer(t)].flags = NULL, ![Buffer(t)].num_done = 0]
  /\ UNCHANGED <<crew, mine, given, posted>>

\* hands it to the nest of a round later,
RearmBuffer(t) ==
  /\ Step(t, "rearm", "forget")
  /\ ring' = [ring EXCEPT ![Buffer(t)].buf_idx = @ + NumBuffers]
  /\ UNCHANGED <<crew, arrays, mine, given, posted>>

\* and everybody frees its private buffer.
ForgetInfo(t) ==
  /\ Step(t, "forget", "outside")
  /\ mine' = [mine EXCEPT ![t].info = Null]
  /\ UNCHANGED <<crew, ring, arrays, given, posted>>

-----------------------------------------------------------------------------
DoacrossInitially(teams) ==
  /\ crew \in teams
  /\ ring = [b \in Places |-> [buf_idx |-> b, flags |-> NULL, num_done |-> 0]]
  /\ arrays = <<>>
  /\ mine = [t \in Crew |-> [idx |-> 0, info |-> Null, flags |-> NULL]]
  /\ at = [t \in Crew |-> [step |-> "outside", nest |-> 0, iteration |-> 0, sinks |-> <<>>]]
  /\ given = [n \in DOMAIN crew.nests |-> 0]
  /\ posted = [n \in DOMAIN crew.nests |-> {}]

RunNest(t) ==
  \/ DoacrossInit(t) \/ AwaitDoacross(t) \/ ClaimFlags(t) \/ AllocateFlags(t) \/ SpinForFlags(t)
  \/ KeepFlags(t) \/ TakeIteration(t) \/ WaitSink(t) \/ Post(t) \/ CountFini(t) \/ SerialFini(t)
  \/ FreeFlags(t) \/ RearmBuffer(t) \/ ForgetInfo(t)
RunNests == \E t \in Crew : RunNest(t)

-----------------------------------------------------------------------------
\* Everybody is through with all the nests.
NestsDone == \A t \in Crew : at[t].step = "outside" /\ at[t].nest = Len(crew.nests)

\* An iteration passes its source only when all it depends on had passed theirs:
\* those of its sinks that are iterations of the nest.
SinksFirst ==
  [][\A n \in DOMAIN posted :
       LET dims == crew.nests[n].dims
           sinks == {crew.nests[n].sinks[s] : s \in DOMAIN crew.nests[n].sinks}
           Behind(i, s) == [k \in DOMAIN dims |-> Distance(dims, i)[k] - s[k]]
       IN \A i \in posted'[n] \ posted[n], s \in sinks, b \in 0..(TraceCount(dims) - 1) :
            Distance(dims, b) = Behind(i, s) => b \in posted[n]]_doacrossVars

\* Between _init and _fini the array a thread looks into is there, belongs to its
\* nest and has room for the word of every iteration; when all are through with
\* their nests every array was freed.
FlagsThere ==
  /\ ~Alone => \A t \in Crew : at[t].step \in {"iterate", "wait"} =>
       /\ Array(t).live /\ Array(t).nest = at[t].nest
       /\ 4 * ((TraceCount(Nest(t).dims) - 1) \div 32) + 4 <= Array(t).bytes
       /\ mine[t].info = Buffer(t)
  /\ NestsDone => \A a \in DOMAIN arrays : ~arrays[a].live
=============================================================================
