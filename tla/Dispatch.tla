------------------------------ MODULE Dispatch ------------------------------
(***************************************************************************)
(* Loops whose chunks are dispatched at run time (kmp_dispatch.cpp): the   *)
(* threads of a team run a program of loops, with or without a barrier     *)
(* after each, over a ring of num_buffers shared buffers. A loop is        *)
(* prepared by __kmp_dispatch_init, chunks are taken by                    *)
(* __kmp_dispatch_next until there are none, and ordered regions are       *)
(* serialized by __kmp_dispatch_deo, _dxo and _finish. Iterations are      *)
(* counted from zero: the bounds a chunk gets are lb + iteration * st.     *)
(***************************************************************************)
EXTENDS Integers, Sequences, FiniteSetsExt

CONSTANTS Regions,      \* parallel regions: the size of the team and the loops it runs
          NumBuffers,   \* __kmp_dispatch_num_buffers
          Span,         \* 2^w, for a loop variable of w bits
          IndexSpan,    \* 2^32, for the index of a loop
          KmpStatic,    \* __kmp_static, __kmp_guided and __kmp_auto: what these
          KmpGuided,    \* schedules stand for
          KmpAuto,
          RSched        \* t_sched: the kind and chunk of schedule(runtime)

\* A loop is asked for with a kind, a trip count, a chunk, an ordered clause
\* (gomp: its compiler calls the end of a chunk, not of every iteration), the
\* right to be given in parts when serialized, an 8 byte variable, and nowait.
Kinds == {"static", "static_chunked", "dynamic_chunked", "guided_chunked", "guided_simd",
          "guided_iterative", "guided_analytical", "trapezoidal", "static_greedy", "static_balanced",
          "static_steal", "runtime", "runtime_simd", "auto"}
Loop == [kind : Kinds, tc : Nat, chunk : Int, ordered : BOOLEAN, gomp : BOOLEAN,
         nomerge : BOOLEAN, wide : BOOLEAN, nowait : BOOLEAN]

ASSUME DispatchAssumption ==
  /\ Regions \subseteq [nproc : Nat \ {0}, loops : Seq(Loop)]
  /\ NumBuffers \in Nat \ {0} /\ Span \in Nat \ {0} /\ IndexSpan \in Nat \ {0}

VARIABLES
  program,        \* the loops of the region
  nproc,          \* t_nproc; a team of one is serialized
  sh,             \* t_disp_buffer: the ring of shared buffers
  pr,             \* th_disp_buffer: the private buffers, per thread and place in the ring
  current,        \* th_dispatch_pr_current, th_dispatch_sh_current: a place, or Null
  disp_index,     \* th_disp_index
  steal_lock,     \* th_steal_lock: NoLock, FreeLock, or the thread that has it
  pc, my,         \* control and local variables of the threads
  loop,           \* the number of loops a thread is through with
  handed,         \* how often each iteration of each loop was handed out, and as the last
  turn            \* the last iteration of each loop whose ordered region was entered

shared == <<sh, steal_lock>>
private == <<pr, current, disp_index, loop>>
record == <<handed, turn>>
dispatchVars == <<program, nproc, shared, private, pc, my, record>>

Null == -1
NoLock == -2
FreeLock == -1
Tids == 0..(nproc - 1)
Places == 0..(NumBuffers - 1)
Serialized == nproc = 1
CeilDiv(a, b) == (a + b - 1) \div b
Least(a, b) == IF a < b THEN a ELSE b
Wrap(x) == x % Span

L(t) == program[loop[t] + 1]
\* The local variables of a thread in the loop of an index, between two calls.
Idle(index) == [index |-> index, i |-> 0, init |-> 0, limit |-> 0, tries |-> 0, victim |-> 0, place |-> 0]
Place(t) == IF Serialized THEN 0 ELSE my[t].index % NumBuffers
Mine(t) == pr[t][Place(t)]
Shared(t) == sh[current[t]]
At(t, l) == t \in Tids /\ pc[t] = l
Goto(t, l) == pc' = [pc EXCEPT ![t] = l]

-----------------------------------------------------------------------------
\* The schedule a kind stands for, and its chunk.
Resolved(l) ==
  LET chunk == IF l.chunk <= 0 THEN 1 ELSE l.chunk
      Detail(k) == CASE k = "static" -> KmpStatic
                     [] k = "guided_chunked" -> KmpGuided
                     [] k = "auto" -> KmpAuto
                     [] OTHER -> k
  IN CASE l.kind = "runtime" -> [schedule |-> Detail(RSched.kind), chunk |-> RSched.chunk]
       [] l.kind = "runtime_simd" ->
            IF RSched.kind \in {"static", "auto", KmpStatic}
              THEN [schedule |-> "static_balanced_chunked", chunk |-> chunk]
              ELSE [schedule |-> IF RSched.kind \in {"guided_chunked", KmpGuided} THEN "guided_simd"
                                 ELSE RSched.kind, chunk |-> RSched.chunk * chunk]
       [] OTHER -> [schedule |-> Detail(l.kind), chunk |-> chunk]

\* The share of the iterations, in units, of thread t of n, and the first of it.
Share(units, n, t) == units \div n + IF t < units % n THEN 1 ELSE 0
ShareStart(units, n, t) == t * (units \div n) + Least(t, units % n)

\* guided, analytical: iterations left after idx chunks, (1 - 1/2n)^idx of all,
\* and the first idx whose chunk is not larger than the minimum.
Remaining(tc, n, idx) == CeilDiv(tc * (2 * n - 1)^idx, (2 * n)^idx)
Cross(tc, n, chunk) ==
  LET Below(c) == tc * (2 * n - 1)^c <= (2 * chunk + 1) * n * (2 * n)^c
  IN CHOOSE c \in 1..(n * tc) : Below(c) /\ ~Below(c - 1)

\* What the switch of __kmp_dispatch_init makes of a loop for a team of n:
\* the schedule, and the parameters all threads compute alike.
Plan(l, n) ==
  LET s == Resolved(l).schedule
      chunk == Resolved(l).chunk
      tc == l.tc
      P(k, p1, p2, p3, p4) == [schedule |-> k, parm1 |-> p1, parm2 |-> p2, parm3 |-> p3, parm4 |-> p4]
      Balanced == P("static_balanced", IF tc > 0 /\ n = 1 THEN 1 ELSE 0, 0, 0, 0)
      Greedy == P("static_greedy", IF n > 1 THEN CeilDiv(tc, n) ELSE tc, 0, 0, 0)
      TooLarge == (2 * chunk + 1) * n >= tc
      F == IF tc \div (2 * n) < 1 THEN 1 ELSE tc \div (2 * n)
      l1 == Least(IF chunk < 1 THEN 1 ELSE chunk, F)
      N == IF CeilDiv(2 * tc, F + l1) < 2 THEN 2 ELSE CeilDiv(2 * tc, F + l1)
  IN CASE s = "static_steal" ->
            IF n > 1 /\ CeilDiv(tc, chunk) >= n THEN P(s, chunk, 0, 0, 0) ELSE Balanced
       [] s = "static_balanced" -> Balanced
       [] s = "static_greedy" -> Greedy
       [] s = "static_balanced_chunked" ->
            P("static_greedy", IF n > 1 THEN CeilDiv(CeilDiv(tc, n), chunk) * chunk ELSE tc, 0, 0, 0)
       [] s \in {"guided_iterative", "guided_simd"} ->
            IF n = 1 THEN Greedy
            ELSE IF TooLarge THEN P("dynamic_chunked", chunk, 0, 0, 0)
            ELSE P(s, chunk, 2 * n * (chunk + 1), 2 * n, 0)
       [] s = "guided_analytical" ->
            IF n = 1 THEN Greedy
            ELSE IF TooLarge THEN P("dynamic_chunked", chunk, 0, 0, 0)
            ELSE LET c == Cross(tc, n, chunk)
                 IN P(s, chunk, c, Wrap(tc - Remaining(tc, n, c) - c * chunk), 0)
       [] s = "trapezoidal" -> P(s, l1, F, N, (F - l1) \div (N - 1))
       [] OTHER -> P(s, IF chunk <= 0 THEN 1 ELSE chunk, 0, 0, 0)

MyPlan(t) == Mine(t).plan

-----------------------------------------------------------------------------
\* A place of the private ring, as __kmp_dispatch_init leaves it for a loop. The
\* counter is that of the loops with stealing this place had (see Publish).
Fresh == [plan |-> [schedule |-> "none"], tc |-> 0, count |-> 0, ub |-> 0, parm4 |-> 0,
          lower |-> 1, upper |-> 0, bumped |-> 0, counter |-> 0]
Prepared(t, l, p) ==
  LET plan == Plan(l, nproc)
      chunks == CeilDiv(l.tc, plan.parm1)
      idle == IF nproc > 1 THEN t >= l.tc ELSE l.tc = 0
      all == [p EXCEPT !.plan = plan, !.tc = l.tc, !.lower = 1, !.upper = 0, !.bumped = 0]
  IN CASE plan.schedule = "static_steal" ->
            [all EXCEPT !.count = ShareStart(chunks, nproc, t), !.parm4 = (t + 1) % nproc,
                        !.ub = ShareStart(chunks, nproc, t) + Share(chunks, nproc, t)]
       [] plan.schedule = "static_balanced" /\ idle -> [all EXCEPT !.count = 1]
       [] plan.schedule = "static_balanced" /\ ~idle ->
            LET init == ShareStart(l.tc, nproc, t)
                limit == init + Share(l.tc, nproc, t) - 1
            IN [all EXCEPT !.count = 0, !.ub = limit, !.lower = IF l.ordered THEN init ELSE 1,
                           !.upper = IF l.ordered THEN limit ELSE 0]
       [] OTHER -> [all EXCEPT !.count = IF plan.schedule = "guided_analytical" THEN plan.parm3 ELSE 0,
                               !.ub = l.tc - 1]

HasLock(t) == L(t).wide /\ MyPlan(t).schedule = "static_steal"

\* __kmp_dispatch_init up to the wait for the shared buffer. A loop that is not
\* nowait ends with a barrier.
EnterLoop(t) ==
  LET k == loop[t]
      place == IF Serialized THEN 0 ELSE disp_index[t] % NumBuffers
  IN /\ At(t, "outside") /\ k < Len(program)
     /\ k > 0 /\ ~program[k].nowait => \A u \in Tids : loop[u] >= k
     /\ pr' = [pr EXCEPT ![t][place] = Prepared(t, L(t), @)]
     /\ disp_index' = [disp_index EXCEPT ![t] = IF Serialized THEN @ ELSE (@ + 1) % IndexSpan]
     /\ my' = [my EXCEPT ![t].index = disp_index[t]]
     /\ steal_lock' = IF L(t).wide /\ pr'[t][place].plan.schedule = "static_steal"
                        THEN [steal_lock EXCEPT ![t] = FreeLock] ELSE steal_lock
     /\ Goto(t, IF Serialized THEN "next" ELSE "await_buffer")
     /\ UNCHANGED <<program, nproc, sh, current, loop, record>>

AwaitBuffer(t) ==
  /\ At(t, "await_buffer")
  /\ sh[Place(t)].buffer_index = my[t].index
  /\ current' = [current EXCEPT ![t] = Place(t)]
  /\ Goto(t, IF MyPlan(t).schedule = "static_steal" THEN "publish" ELSE "next")
  /\ UNCHANGED <<program, nproc, shared, pr, disp_index, loop, my, record>>

\* static_steal_counter: from now on others may steal from this thread.
Publish(t) ==
  /\ At(t, "publish")
  /\ pr' = [pr EXCEPT ![t][Place(t)].counter = @ + 1]
  /\ Goto(t, "next")
  /\ UNCHANGED <<program, nproc, shared, current, disp_index, loop, my, record>>

-----------------------------------------------------------------------------
\* The body of an iteration of an ordered loop has its ordered region or does
\* without (the program decides, not the runtime).
Bodies == {"enter_ordered", "end_iteration"}

\* The chunk lo..hi goes to thread t. When the loop is ordered its iterations
\* are followed one at a time; pr' is p, with the bounds for ordered regions.
Hand(t, p, lo, hi, last) ==
  LET k == loop[t] + 1
      range == 0..(L(t).tc - 1)
  IN /\ handed' = [handed EXCEPT ![k] =
                     [times |-> [i \in range |-> @.times[i] + IF i \in lo..hi THEN 1 ELSE 0],
                      last |-> @.last + IF last THEN 1 ELSE 0,
                      sound |-> /\ @.sound /\ lo..hi \subseteq range
                                /\ last => L(t).tc - 1 \in lo..hi]]
     /\ pr' = [pr EXCEPT ![t][Place(t)] =
                 IF L(t).ordered THEN [p EXCEPT !.lower = lo, !.upper = hi] ELSE p]
     /\ my' = [my EXCEPT ![t] = [Idle(@.index) EXCEPT !.i = IF L(t).ordered THEN lo ELSE 0]]
     /\ \E l \in IF L(t).ordered /\ ~Serialized /\ lo <= hi THEN Bodies ELSE {"next"} : Goto(t, l)

NoChunk(t, p) ==
  /\ pr' = [pr EXCEPT ![t][Place(t)] = p]
  /\ my' = [my EXCEPT ![t] = Idle(@.index)]
  /\ Goto(t, IF Serialized THEN "leave" ELSE "count_done")
  /\ UNCHANGED handed

\* The chunk lo..hi when lo is an iteration of the loop, the last cut short.
HandIfAny(t, p, lo, hi) ==
  LET trip == L(t).tc - 1
  IN IF lo <= trip THEN Hand(t, p, lo, Least(hi, trip), hi >= trip) ELSE NoChunk(t, p)

Takes(t, schedules) == At(t, "next") /\ ~Serialized /\ Mine(t).tc # 0 /\ MyPlan(t).schedule \in schedules

ZeroTrip(t) ==
  /\ At(t, "next") /\ Mine(t).tc = 0
  /\ NoChunk(t, Mine(t))
  /\ UNCHANGED <<program, nproc, shared, current, disp_index, loop, turn>>

\* A serialized team: the loop at once, or chunk by chunk when it asks for it.
TakeSerial(t) ==
  LET p == Mine(t)
      init == Wrap(MyPlan(t).parm1 * p.count)
  IN /\ At(t, "next") /\ Serialized /\ p.tc # 0
     /\ IF L(t).nomerge
          THEN HandIfAny(t, [p EXCEPT !.count = @ + 1], init, MyPlan(t).parm1 + init - 1)
          ELSE Hand(t, [p EXCEPT !.tc = 0], 0, L(t).tc - 1, TRUE)
     /\ UNCHANGED <<program, nproc, shared, current, disp_index, loop, turn>>

\* Mutant of TakeBalanced: the threads with one iteration more are not counted.
TakeBalancedShort(t) ==
  LET p == Mine(t) IN
  /\ Takes(t, {"static_balanced"})
  /\ IF p.count = 0
       THEN Hand(t, [p EXCEPT !.count = 1], t * (L(t).tc \div nproc),
                 (t + 1) * (L(t).tc \div nproc) - 1, t = nproc - 1)
       ELSE NoChunk(t, p)
  /\ UNCHANGED <<program, nproc, shared, current, disp_index, loop, turn>>

TakeBalanced(t) ==
  LET p == Mine(t)
      init == ShareStart(L(t).tc, nproc, t)
  IN /\ Takes(t, {"static_balanced"})
     /\ IF p.count = 0
          THEN Hand(t, [p EXCEPT !.count = 1], init, p.ub, t = Least(L(t).tc, nproc) - 1)
          ELSE NoChunk(t, p)
     /\ UNCHANGED <<program, nproc, shared, current, disp_index, loop, turn>>

TakeChunked(t) ==
  LET p == Mine(t)
      init == Wrap(MyPlan(t).parm1 * (p.count + t))
      more == IF init <= L(t).tc - 1 THEN [p EXCEPT !.count = @ + nproc] ELSE p
  IN /\ Takes(t, {"static_greedy", "static_chunked"})
     /\ HandIfAny(t, more, init, MyPlan(t).parm1 + init - 1)
     /\ UNCHANGED <<program, nproc, shared, current, disp_index, loop, turn>>

\* The shared counter, of chunks or of iterations.
Bump(t, by) == sh' = [sh EXCEPT ![current[t]].iteration = Wrap(@ + by)]

\* Mutant of TakeDynamic: the counter is read and written apart from the chunk
\* another thread takes.
TakeDynamicUnbumped(t) ==
  LET init == Wrap(MyPlan(t).parm1 * Shared(t).iteration) IN
  /\ Takes(t, {"dynamic_chunked"})
  /\ IF init = 0 THEN UNCHANGED sh ELSE Bump(t, 1)
  /\ HandIfAny(t, Mine(t), init, MyPlan(t).parm1 + init - 1)
  /\ UNCHANGED <<program, nproc, steal_lock, current, disp_index, loop, turn>>

TakeDynamic(t) ==
  LET init == Wrap(MyPlan(t).parm1 * Shared(t).iteration) IN
  /\ Takes(t, {"dynamic_chunked"})
  /\ Bump(t, 1)
  /\ HandIfAny(t, Mine(t), init, MyPlan(t).parm1 + init - 1)
  /\ UNCHANGED <<program, nproc, steal_lock, current, disp_index, loop, turn>>

\* parm2 the first chunk, parm3 the number of chunks, parm4 what each is smaller.
TakeTrapezoidal(t) ==
  LET p == MyPlan(t)
      index == Shared(t).iteration
      Start(i) == Wrap(i * (2 * p.parm2 - (i - 1) * p.parm4)) \div 2
  IN /\ Takes(t, {"trapezoidal"})
     /\ Bump(t, 1)
     /\ IF index < p.parm3 THEN HandIfAny(t, Mine(t), Start(index), Start(index + 1) - 1)
                           ELSE NoChunk(t, Mine(t))
     /\ UNCHANGED <<program, nproc, steal_lock, current, disp_index, loop, turn>>

\* Chunks below parm2, the crossover, get smaller; an empty one is passed over.
TakeAnalytical(t) ==
  LET p == MyPlan(t)
      index == Shared(t).iteration
      Start(i) == L(t).tc - Remaining(L(t).tc, nproc, i)
      init == Wrap(index * p.parm1 + Mine(t).count)
  IN /\ Takes(t, {"guided_analytical"})
     /\ Bump(t, 1)
     /\ \/ /\ index >= p.parm2
           /\ IF init > 0 THEN HandIfAny(t, Mine(t), init, init + p.parm1 - 1) ELSE NoChunk(t, Mine(t))
        \/ /\ index < p.parm2 /\ Start(index) < Start(index + 1)
           /\ Hand(t, Mine(t), Start(index), Start(index + 1) - 1, FALSE)
        \/ /\ index < p.parm2 /\ Start(index) >= Start(index + 1)
           /\ UNCHANGED <<pr, pc, my, handed>>
     /\ UNCHANGED <<program, nproc, steal_lock, current, disp_index, loop, turn>>

\* guided, iterative or simd: a share of what remains by compare-exchange, and
\* chunks of the minimum by fetch-and-add when less than parm2 remains.
ReadRemaining(t) ==
  LET init == Shared(t).iteration
      remaining == L(t).tc - init
  IN /\ Takes(t, {"guided_iterative", "guided_simd"})
     /\ IF remaining <= 0
          THEN NoChunk(t, Mine(t))
          ELSE /\ my' = [my EXCEPT ![t].init = init]
               /\ Goto(t, IF remaining < MyPlan(t).parm2 THEN "guided_add" ELSE "guided_cas")
               /\ UNCHANGED <<pr, handed>>
     /\ UNCHANGED <<program, nproc, shared, current, disp_index, loop, turn>>

GuidedAdd(t) ==
  LET init == Shared(t).iteration
      chunk == MyPlan(t).parm1
  IN /\ At(t, "guided_add")
     /\ Bump(t, chunk)
     /\ IF init < L(t).tc
          THEN Hand(t, Mine(t), init, Least(init + chunk, L(t).tc) - 1, L(t).tc - init <= chunk)
          ELSE NoChunk(t, Mine(t))
     /\ UNCHANGED <<program, nproc, steal_lock, current, disp_index, loop, turn>>

\* Mutant of GuidedCas: a store, whatever the counter is by now.
GuidedStore(t) ==
  LET init == my[t].init
      span == (L(t).tc - init) \div MyPlan(t).parm3
  IN /\ At(t, "guided_cas")
     /\ sh' = [sh EXCEPT ![current[t]].iteration = init + span]
     /\ Hand(t, Mine(t), init, init + span - 1, FALSE)
     /\ UNCHANGED <<program, nproc, steal_lock, current, disp_index, loop, turn>>

GuidedCas(t) ==
  LET init == my[t].init
      chunk == MyPlan(t).parm1
      part == (L(t).tc - init) \div MyPlan(t).parm3
      span == IF MyPlan(t).schedule = "guided_simd" THEN CeilDiv(part, chunk) * chunk ELSE part
  IN /\ At(t, "guided_cas")
     /\ IF Shared(t).iteration = init
          THEN Bump(t, span) /\ Hand(t, Mine(t), init, init + span - 1, FALSE)
          ELSE Goto(t, "next") /\ UNCHANGED <<sh, pr, my, handed>>
     /\ UNCHANGED <<program, nproc, steal_lock, current, disp_index, loop, turn>>

-----------------------------------------------------------------------------
\* static_steal. count..ub - 1 are the chunks a thread has left: a pair of 4 byte
\* values changed by one compare-exchange, or, when they are 8 bytes wide, under
\* the thread's lock (a bootstrap lock, seen as an abstract mutex).
HandStolen(t, p, init) ==
  LET chunk == MyPlan(t).parm1
      trip == L(t).tc - 1
  IN Hand(t, p, init * chunk, Least(chunk + init * chunk - 1, trip), chunk + init * chunk - 1 >= trip)

\* Mutant of TakeOwn: the count is advanced whatever others stole by now.
TakeOwnBlindly(t) ==
  LET p == Mine(t)
      q == [p EXCEPT !.count = @ + 1]
  IN /\ \/ Takes(t, {"static_steal"}) /\ ~L(t).wide /\ UNCHANGED steal_lock
        \/ At(t, "take_own") /\ steal_lock' = [steal_lock EXCEPT ![t] = FreeLock]
     /\ IF p.count <= p.ub
          THEN HandStolen(t, q, p.count)
          ELSE /\ pr' = [pr EXCEPT ![t][Place(t)] = q]
               /\ my' = [my EXCEPT ![t].tries = 0]
               /\ Goto(t, "find_victim")
               /\ UNCHANGED handed
     /\ UNCHANGED <<program, nproc, sh, current, disp_index, loop, turn>>

TakeOwn(t) ==
  LET p == Mine(t)
      q == [p EXCEPT !.count = @ + 1]
  IN /\ \/ Takes(t, {"static_steal"}) /\ ~L(t).wide /\ UNCHANGED steal_lock
        \/ At(t, "take_own") /\ steal_lock' = [steal_lock EXCEPT ![t] = FreeLock]
     /\ IF p.count < p.ub
          THEN HandStolen(t, q, p.count)
          ELSE /\ pr' = [pr EXCEPT ![t][Place(t)] = q]
               /\ my' = [my EXCEPT ![t].tries = 0]
               /\ Goto(t, "find_victim")
               /\ UNCHANGED handed
     /\ UNCHANGED <<program, nproc, sh, current, disp_index, loop, turn>>

\* 8 bytes: a look without the lock first.
CheckOwn(t) ==
  /\ Takes(t, {"static_steal"}) /\ L(t).wide
  /\ my' = [my EXCEPT ![t].tries = 0]
  /\ Goto(t, IF Mine(t).count < Mine(t).ub THEN "lock_own" ELSE "find_victim")
  /\ UNCHANGED <<program, nproc, shared, private, record>>

\* __kmp_acquire_lock of the lock of thread v; one that is gone is the business
\* of LocksThere.
Acquire(t, v) == steal_lock[v] \in {FreeLock, NoLock} /\ steal_lock' = [steal_lock EXCEPT ![v] = t]

LockOwn(t) ==
  /\ At(t, "lock_own") /\ Acquire(t, t)
  /\ Goto(t, "take_own")
  /\ UNCHANGED <<program, nproc, sh, private, my, record>>

\* The first thread from parm4 on that is in a loop whose counter is that of this
\* thread, or else the one before parm4.
Inviting(t, v) ==
  current[v] # Null /\ pr[v][current[v]].counter = Mine(t).counter
Victim(t) ==
  LET from == Mine(t).parm4
      nth(i) == (from + i) % nproc
      good == {i \in 0..(nproc - 1) : nth(i) # t /\ Inviting(t, nth(i))}
  IN nth(IF good = {} THEN nproc - 1 ELSE Min(good))
TooFew(p) == p.ub - p.count < 2
Quarter(p) == IF p.ub - p.count > 3 THEN (p.ub - p.count) \div 4 ELSE 1

\* The next victim: with 8 bytes one too poor is passed over without its lock.
FindVictim(t) ==
  LET v == Victim(t)
      p == pr[v][current[v]]
      mine == pr[t][Place(t)]
      last == my[t].tries + 1 = nproc
      pass == ~last /\ (~Inviting(t, v) \/ (L(t).wide /\ TooFew(p)))
      more == [my[t] EXCEPT !.tries = @ + 1]
  IN /\ At(t, "find_victim")
     /\ my' = [my EXCEPT ![t] = IF last THEN Idle(@.index) ELSE IF pass THEN more
                                ELSE [more EXCEPT !.victim = v, !.place = current[v]]]
     /\ Goto(t, IF last THEN "count_done" ELSE IF pass THEN "find_victim"
                ELSE IF L(t).wide THEN "lock_victim" ELSE "look")
     /\ pr' = IF last \/ ~Inviting(t, v) THEN pr
              ELSE IF ~L(t).wide THEN [pr EXCEPT ![t][Place(t)].parm4 = v]
              ELSE IF pass THEN [pr EXCEPT ![t][Place(t)].parm4 = (v + 1) % nproc] ELSE pr
     /\ UNCHANGED <<program, nproc, shared, current, disp_index, loop, record>>

Robbed(t) == pr[my[t].victim][my[t].place]

\* Mutant of NextVictim: the threads do not go round.
NextVictimUnwrapped(t) == [pr EXCEPT ![t][Place(t)].parm4 = my[t].victim + 1]

NextVictim(t) == [pr EXCEPT ![t][Place(t)].parm4 = (my[t].victim + 1) % nproc]

\* 4 bytes: the pair is read,
LookAtVictim(t) ==
  /\ At(t, "look")
  /\ IF TooFew(Robbed(t))
       THEN pr' = NextVictim(t) /\ Goto(t, "find_victim") /\ UNCHANGED my
       ELSE /\ my' = [my EXCEPT ![t].init = Robbed(t).count, ![t].limit = Robbed(t).ub]
            /\ Goto(t, "cas_victim") /\ UNCHANGED pr
  /\ UNCHANGED <<program, nproc, shared, current, disp_index, loop, record>>

\* Mutant of CasVictim: the pair is stored, whatever it is by now.
StoreVictim(t) ==
  LET old == [count |-> my[t].init, ub |-> my[t].limit]
  IN /\ At(t, "cas_victim")
     /\ pr' = [pr EXCEPT ![my[t].victim][my[t].place].ub = old.ub - Quarter(old),
                         ![my[t].victim][my[t].place].count = old.count]
     /\ my' = [my EXCEPT ![t].init = old.ub - Quarter(old)]
     /\ Goto(t, "install")
     /\ UNCHANGED <<program, nproc, shared, current, disp_index, loop, record>>

\* and made smaller at its end, if it still is what was read.
CasVictim(t) ==
  LET old == [count |-> my[t].init, ub |-> my[t].limit]
  IN /\ At(t, "cas_victim")
     /\ IF Robbed(t).count = old.count /\ Robbed(t).ub = old.ub
          THEN /\ pr' = [pr EXCEPT ![my[t].victim][my[t].place].ub = @ - Quarter(old)]
               /\ my' = [my EXCEPT ![t].init = old.ub - Quarter(old)]
               /\ Goto(t, "install")
          ELSE Goto(t, "look") /\ UNCHANGED <<pr, my>>
     /\ UNCHANGED <<program, nproc, shared, current, disp_index, loop, record>>

LockVictim(t) ==
  /\ At(t, "lock_victim") /\ Acquire(t, my[t].victim)
  /\ Goto(t, "steal")
  /\ UNCHANGED <<program, nproc, sh, private, my, record>>

\* 8 bytes: under the lock of the victim.
Steal(t) ==
  LET p == Robbed(t) IN
  /\ At(t, "steal")
  /\ steal_lock' = [steal_lock EXCEPT ![my[t].victim] = FreeLock]
  /\ IF TooFew(p)
       THEN pr' = NextVictim(t) /\ Goto(t, "find_victim") /\ UNCHANGED my
       ELSE /\ pr' = [pr EXCEPT ![my[t].victim][my[t].place].ub = @ - Quarter(p),
                                ![t][Place(t)].parm4 = my[t].victim]
            /\ my' = [my EXCEPT ![t].init = p.ub - Quarter(p), ![t].limit = p.ub]
            /\ Goto(t, "relock_own")
  /\ UNCHANGED <<program, nproc, sh, current, disp_index, loop, record>>

RelockOwn(t) ==
  /\ At(t, "relock_own") /\ Acquire(t, t)
  /\ Goto(t, "install")
  /\ UNCHANGED <<program, nproc, sh, private, my, record>>

\* The stolen chunks but the first become the thread's own.
Install(t) ==
  /\ At(t, "install")
  /\ steal_lock' = IF L(t).wide THEN [steal_lock EXCEPT ![t] = FreeLock] ELSE steal_lock
  /\ HandStolen(t, [Mine(t) EXCEPT !.count = my[t].init + 1, !.ub = my[t].limit], my[t].init)
  /\ UNCHANGED <<program, nproc, sh, current, disp_index, loop, turn>>

-----------------------------------------------------------------------------
\* An ordered region waits for the first iteration of the chunk (__kmp_dispatch_deo),
MyTurn(t) == Shared(t).ordered_iteration >= Mine(t).lower
PassTurn(t, by) == sh' = [sh EXCEPT ![current[t]].ordered_iteration = @ + by]

\* Mutant of EnterOrdered: nobody is waited for.
EnterOrderedAtOnce(t) ==
  /\ At(t, "enter_ordered")
  /\ turn' = [turn EXCEPT ![loop[t] + 1] = my[t].i]
  /\ Goto(t, "in_ordered")
  /\ UNCHANGED <<program, nproc, shared, private, my, handed>>

EnterOrdered(t) ==
  /\ At(t, "enter_ordered") /\ MyTurn(t)
  /\ turn' = [turn EXCEPT ![loop[t] + 1] = my[t].i]
  /\ Goto(t, "in_ordered")
  /\ UNCHANGED <<program, nproc, shared, private, my, handed>>

\* and then lets the next iteration in (__kmp_dispatch_dxo).
LeaveOrdered(t) ==
  /\ At(t, "in_ordered")
  /\ pr' = [pr EXCEPT ![t][Place(t)].bumped = @ + 1]
  /\ PassTurn(t, 1)
  /\ Goto(t, "end_iteration")
  /\ UNCHANGED <<program, nproc, steal_lock, current, disp_index, loop, my, record>>

\* The next iteration of the chunk, or the end of it.
Iterate(t) ==
  /\ my' = [my EXCEPT ![t].i = @ + 1]
  /\ \E l \in IF my[t].i < Mine(t).upper THEN Bodies
             ELSE {IF L(t).gomp THEN "end_chunk" ELSE "next"} : Goto(t, l)

\* Mutant of Finish: an iteration without an ordered region does not pass the turn.
FinishForgetting(t) ==
  /\ At(t, "end_iteration") /\ ~L(t).gomp
  /\ pr' = [pr EXCEPT ![t][Place(t)].bumped = 0]
  /\ Iterate(t)
  /\ UNCHANGED <<program, nproc, shared, current, disp_index, loop, record>>

\* __kmp_dispatch_finish, after every iteration.
Finish(t) ==
  /\ At(t, "end_iteration") /\ ~L(t).gomp
  /\ \/ Mine(t).bumped # 0 /\ UNCHANGED sh
     \/ Mine(t).bumped = 0 /\ MyTurn(t) /\ PassTurn(t, 1)
  /\ pr' = [pr EXCEPT ![t][Place(t)].bumped = 0]
  /\ Iterate(t)
  /\ UNCHANGED <<program, nproc, steal_lock, current, disp_index, loop, record>>

EndIteration(t) ==
  /\ At(t, "end_iteration") /\ L(t).gomp
  /\ Iterate(t)
  /\ UNCHANGED <<program, nproc, shared, private, record>>

\* __kmp_dispatch_finish_chunk, after every chunk.
FinishChunk(t) ==
  LET inc == Mine(t).upper - Mine(t).lower + 1 IN
  /\ At(t, "end_chunk")
  /\ \/ Mine(t).bumped = inc /\ UNCHANGED sh
     \/ Mine(t).bumped # inc /\ MyTurn(t) /\ PassTurn(t, inc - Mine(t).bumped)
  /\ pr' = [pr EXCEPT ![t][Place(t)].bumped = 0]
  /\ Goto(t, "next")
  /\ UNCHANGED <<program, nproc, steal_lock, current, disp_index, loop, my, record>>

-----------------------------------------------------------------------------
\* Mutant of CountDone: the one before the last takes itself for the last.
CountDoneEarly(t) ==
  /\ At(t, "count_done")
  /\ sh' = [sh EXCEPT ![current[t]].num_done = @ + 1]
  /\ Goto(t, IF Shared(t).num_done = nproc - 2 THEN "reset" ELSE "leave")
  /\ UNCHANGED <<program, nproc, steal_lock, private, my, record>>

\* No more chunks: the last of the team resets the shared buffer,
CountDone(t) ==
  /\ At(t, "count_done")
  /\ sh' = [sh EXCEPT ![current[t]].num_done = @ + 1]
  /\ Goto(t, IF Shared(t).num_done = nproc - 1 THEN "reset" ELSE "leave")
  /\ UNCHANGED <<program, nproc, steal_lock, private, my, record>>

\* Mutant of Reset: the counter of chunks keeps its value.
ResetKeeping(t) ==
  /\ At(t, "reset")
  /\ steal_lock' = IF HasLock(t) THEN [u \in DOMAIN steal_lock |-> NoLock] ELSE steal_lock
  /\ sh' = [sh EXCEPT ![current[t]].num_done = 0,
                      ![current[t]].ordered_iteration = IF L(t).ordered THEN 0 ELSE @]
  /\ Goto(t, "release")
  /\ UNCHANGED <<program, nproc, private, my, record>>

\* and destroys the locks of everybody, 'loop complete, safe to destroy locks',
Reset(t) ==
  /\ At(t, "reset")
  /\ steal_lock' = IF HasLock(t) THEN [u \in DOMAIN steal_lock |-> NoLock] ELSE steal_lock
  /\ sh' = [sh EXCEPT ![current[t]].num_done = 0, ![current[t]].iteration = 0,
                      ![current[t]].ordered_iteration = IF L(t).ordered THEN 0 ELSE @]
  /\ Goto(t, "release")
  /\ UNCHANGED <<program, nproc, private, my, record>>

\* Mutant of Release: the buffer goes to the next loop, not to that of a round later.
ReleaseToNext(t) ==
  /\ At(t, "release")
  /\ sh' = [sh EXCEPT ![current[t]].buffer_index = (@ + 1) % IndexSpan]
  /\ Goto(t, "leave")
  /\ UNCHANGED <<program, nproc, steal_lock, private, my, record>>

\* and gives it the index of the loop that comes a round of the ring later.
Release(t) ==
  /\ At(t, "release")
  /\ sh' = [sh EXCEPT ![current[t]].buffer_index = (@ + NumBuffers) % IndexSpan]
  /\ Goto(t, "leave")
  /\ UNCHANGED <<program, nproc, steal_lock, private, my, record>>

Leave(t) ==
  /\ At(t, "leave")
  /\ current' = [current EXCEPT ![t] = Null]
  /\ loop' = [loop EXCEPT ![t] = @ + 1]
  /\ Goto(t, "outside")
  /\ UNCHANGED <<program, nproc, shared, pr, disp_index, my, record>>

-----------------------------------------------------------------------------
InitWith(regions) ==
  /\ \E r \in regions : nproc = r.nproc /\ program = r.loops
  /\ sh = [b \in Places |-> [iteration |-> 0, num_done |-> 0, ordered_iteration |-> 0, buffer_index |-> b]]
  /\ pr = [t \in Tids |-> [b \in Places |-> Fresh]]
  /\ current = [t \in Tids |-> Null]
  /\ disp_index = [t \in Tids |-> 0]
  /\ steal_lock = [t \in Tids |-> NoLock]
  /\ pc = [t \in Tids |-> "outside"]
  /\ my = [t \in Tids |-> Idle(0)]
  /\ loop = [t \in Tids |-> 0]
  /\ handed = [k \in DOMAIN program |->
                [times |-> [i \in 0..(program[k].tc - 1) |-> 0], last |-> 0, sound |-> TRUE]]
  /\ turn = [k \in DOMAIN program |-> -1]
Init == InitWith(Regions)

Take(t) ==
  \/ ZeroTrip(t) \/ TakeSerial(t) \/ TakeBalanced(t) \/ TakeChunked(t) \/ TakeDynamic(t)
  \/ TakeTrapezoidal(t) \/ TakeAnalytical(t) \/ ReadRemaining(t) \/ GuidedAdd(t) \/ GuidedCas(t)
StealSteps(t) ==
  \/ TakeOwn(t) \/ CheckOwn(t) \/ LockOwn(t) \/ FindVictim(t) \/ LookAtVictim(t) \/ CasVictim(t)
  \/ LockVictim(t) \/ Steal(t) \/ RelockOwn(t) \/ Install(t)
Ordered(t) ==
  \/ EnterOrdered(t) \/ LeaveOrdered(t) \/ Finish(t) \/ EndIteration(t) \/ FinishChunk(t)
Run(t) ==
  \/ EnterLoop(t) \/ AwaitBuffer(t) \/ Publish(t) \/ Take(t) \/ StealSteps(t) \/ Ordered(t)
  \/ CountDone(t) \/ Reset(t) \/ Release(t) \/ Leave(t)
Threads == 0..(Max({r.nproc : r \in Regions}) - 1)
Next == \E t \in Threads : Run(t)

Spec == Init /\ [][Next]_dispatchVars

-----------------------------------------------------------------------------
Through(k) == \A t \in Tids : loop[t] >= k

TypeOK ==
  /\ program # <<>> => [nproc |-> nproc, loops |-> program] \in Regions
  /\ \A b \in Places : sh[b].iteration \in 0..(Span - 1) /\ sh[b].buffer_index \in 0..(IndexSpan - 1)
  /\ \A t \in Tids :
       /\ current[t] \in Places \cup {Null} /\ steal_lock[t] \in Tids \cup {NoLock, FreeLock}
       /\ \A b \in Places : pr[t][b].count \in 0..(Span - 1) /\ pr[t][b].parm4 \in Tids
       /\ my[t].victim \in Tids

\* Whatever the schedule and the steps of the team, no iteration is handed out
\* twice and none that is not of the loop; when all threads are through with the
\* loop each iteration was handed out, and the last one as the last, once.
IterationsOnce ==
  TypeOK /\ \A k \in DOMAIN program :
    /\ handed[k].sound
    /\ \A i \in DOMAIN handed[k].times : handed[k].times[i] <= 1
    /\ Through(k) => /\ \A i \in DOMAIN handed[k].times : handed[k].times[i] = 1
                     /\ handed[k].last = IF program[k].tc > 0 THEN 1 ELSE 0

\* A thread works on the shared buffer of its own loop: the buffer goes to the
\* loop a round later only when all threads have been counted.
BufferOfLoop ==
  \A t \in Tids : current[t] # Null /\ pc[t] # "leave" => sh[current[t]].buffer_index = my[t].index

\* Ordered regions of a loop are entered in the order of its iterations, and not
\* before the one before is left.
OrderedInTurn ==
  [][\A k \in DOMAIN turn : turn'[k] # turn[k] =>
        /\ turn'[k] > turn[k]
        /\ \A t \in Tids : pc[t] = "in_ordered" => loop[t] + 1 # k]_dispatchVars

\* While a thread is in a loop with stealing over 8 byte variables its lock is
\* there: 'loop complete, safe to destroy locks used for stealing'.
LocksThere ==
  \A t \in Tids :
    /\ pc[t] \in {"await_buffer", "publish", "next", "lock_own", "take_own", "find_victim",
                   "relock_own", "count_done"} /\ HasLock(t)
         => steal_lock[t] # NoLock
    /\ pc[t] \in {"lock_victim", "steal"} => steal_lock[my[t].victim] # NoLock

\* The regions for which SharedThere is proved (LoopProofs): indices do not wrap,
\* and a loop with stealing over 8 byte variables is not reached while others are
\* still in the loop before it.
StealsWide(l, n) == l.wide /\ Plan(l, n).schedule = "static_steal"
Apart(region) ==
  /\ Len(region.loops) + NumBuffers <= IndexSpan
  /\ \A k \in DOMAIN region.loops \ {1} :
       StealsWide(region.loops[k], region.nproc) => ~region.loops[k - 1].nowait

\* All the threads are through with all the loops.
LoopsDone == Through(Len(program))
=============================================================================
