--------------------------- MODULE StaticSchedule ---------------------------
(***************************************************************************)
(* Loops shared out before they start (kmp_sched.cpp): every worker works  *)
(* out its part of lb, lb + incr, .. ub on its own, in the arithmetic of   *)
(* the type of the loop variable. A worker is thread tid of team team_id   *)
(* of a league; 'for' shares among the threads of a team, 'distribute'     *)
(* among the teams, and 'distribute parallel for' among the threads of all *)
(* teams.  The workers of a taskloop are the tasks it is cut into, by one  *)
(* task after the other or by halves (kmp_tasking.cpp).                    *)
(***************************************************************************)
EXTENDS Integers, FiniteSets

CONSTANTS StaticLoops,       \* the loops, with what shares them out
          Size, Signed,      \* the type of the variable: 2^w values, signed or not
          StaticKinds,       \* values of __kmp_static: greedy, balanced
          TaskloopMinTasks   \* __kmp_taskloop_min_tasks

Constructs == {"for", "distribute", "dist_for", "team_chunked", "dist_dispatch", "taskloop", "taskloop_if0"}
OfTasks(l) == l.construct \in {"taskloop", "taskloop_if0"}
\* The chunk of a taskloop is its grainsize, or how many tasks it is to have.
StaticLoop == [construct : Constructs,
               schedule : {"static", "chunked", "balanced_chunked", "default", "grainsize", "num_tasks"},
               lb : Int, ub : Int, incr : Int \ {0}, chunk : Int, nteams : Nat \ {0}, nth : Nat \ {0}]

ASSUME StaticAssumption ==
  /\ StaticLoops \subseteq StaticLoop
  \* the compiled code skips a taskloop without iterations
  /\ \A l \in StaticLoops : OfTasks(l) => /\ l.chunk > 0
                                         /\ IF l.incr > 0 THEN l.lb <= l.ub ELSE l.ub <= l.lb
  /\ TaskloopMinTasks \in Nat
  \* the width of a simd unit, which the code rounds up to with a bit mask
  /\ \A l \in StaticLoops : l.schedule = "balanced_chunked" => \E e \in 0..8 : l.chunk = 2^e
  /\ Size \in Nat \ {0} /\ Size % 2 = 0 /\ Signed \in BOOLEAN
  /\ StaticKinds \subseteq {"greedy", "balanced"}

VARIABLES sloop,        \* the loop
          static_kind,  \* __kmp_static
          part          \* what each worker that has called was given

staticVars == <<sloop, static_kind, part>>

TypeMin == IF Signed THEN -(Size \div 2) ELSE 0
TypeMax == TypeMin + Size - 1
T(x) == TypeMin + ((x - TypeMin) % Size)    \* x as a value of the type,
UT(x) == x % Size                          \* and of its unsigned flavour
Lesser(a, b) == IF a < b THEN a ELSE b
RoundUp(a, b) == (a + b - 1) \div b

\* The arguments, in the direction of the loop.
Up(l) == l.incr > 0
Before(l, a, b) == IF Up(l) THEN a < b ELSE a > b
Cut(l, x, bound) == IF Before(l, bound, x) THEN bound ELSE x
Limit(l) == IF Up(l) THEN TypeMax ELSE TypeMin

TripCount(l, lower, upper) ==
  UT(IF Up(l) THEN UT(upper - lower) \div l.incr + 1 ELSE UT(lower - upper) \div (-l.incr) + 1)
NoTrip(l) == Before(l, l.ub, l.lb)

-----------------------------------------------------------------------------
\* A part: the bounds and the stride a call returns, the bound the compiled code
\* cuts further chunks at, and whether it has the last iteration.
Part(lower, upper, stride, bound, last) ==
  [lower |-> lower, upper |-> upper, stride |-> stride, bound |-> bound, last |-> last]

\* The share of worker w of n, in one piece: one iteration each when there are no
\* more than workers (fewer, in a 'for'),
OneEach(l, lower, upper, tc, w) ==
  LET x == T(lower + w * l.incr)
  IN IF w < tc THEN Part(x, x, 0, x, w = tc - 1)
               ELSE Part(T(upper + l.incr), upper, 0, upper, FALSE)

\* shares that differ by one at most,
Balanced(l, lower, upper, tc, w, n) ==
  LET small == tc \div n
      extras == tc % n
      lo == T(lower + l.incr * (w * small + Lesser(w, extras)))
      hi == T(lo + small * l.incr - IF w < extras THEN 0 ELSE l.incr)
  IN Part(lo, hi, 0, hi, w = n - 1)

\* or equal shares, the last of them cut.
Greedy(l, lower, upper, tc, w, n) ==
  LET big == T(RoundUp(tc, n) * l.incr)
      lo == T(lower + w * big)
      end == T(lo + big - l.incr)
      hi == IF Before(l, end, lo) THEN Limit(l) ELSE end
  IN Part(lo, Cut(l, hi, upper), 0, upper, ~Before(l, upper, lo) /\ Before(l, T(upper - l.incr), hi))

\* Mutant of Piece: the threads of a balanced share are one short.
PieceShort(l, lower, upper, tc, w, n) ==
  IF static_kind = "balanced" THEN Balanced(l, lower, upper, tc - (tc % n), w, n) ELSE Greedy(l, lower, upper, tc, w, n)

Piece(l, lower, upper, tc, w, n) ==
  IF static_kind = "balanced" THEN Balanced(l, lower, upper, tc, w, n) ELSE Greedy(l, lower, upper, tc, w, n)

\* Chunks dealt out in turn: the first of worker w, and the stride to the next.
Dealt(l, lower, bound, tc, chunk, w, n) ==
  LET span == T(chunk * l.incr)
      lo == T(lower + span * w)
  IN Part(lo, T(lo + span - l.incr), T(span * n), bound, w = ((tc - 1) \div chunk) % n)

AtLeastOne(chunk) == IF chunk < 1 THEN 1 ELSE chunk

\* __kmp_for_static_init: worker w of n; 'distribute' calls it with the team's
\* number among the teams.
ForStatic(l, w, n) ==
  LET tc == TripCount(l, l.lb, l.ub)
      simd == RoundUp(RoundUp(tc, n), l.chunk) * l.chunk
      dealt == Dealt(l, l.lb, l.ub, tc, simd, w, n)
  IN CASE NoTrip(l) -> Part(l.lb, l.ub, l.incr, l.ub, FALSE)
       [] ~NoTrip(l) /\ n = 1 -> Part(l.lb, l.ub, 0, l.ub, TRUE)
       [] ~NoTrip(l) /\ n > 1 /\ l.schedule = "static" ->
            IF tc < n THEN OneEach(l, l.lb, l.ub, tc, w) ELSE Piece(l, l.lb, l.ub, tc, w, n)
       [] ~NoTrip(l) /\ n > 1 /\ l.schedule = "chunked" ->
            Dealt(l, l.lb, l.ub, tc, AtLeastOne(l.chunk), w, n)
       [] ~NoTrip(l) /\ n > 1 /\ l.schedule = "balanced_chunked" ->
            [dealt EXCEPT !.upper = Cut(l, @, l.ub), !.stride = 0, !.last = w = (tc - 1) \div simd]

\* __kmp_dist_get_bounds: the piece of a team, for a loop dispatched in the team.
TeamBounds(l, team) ==
  LET tc == TripCount(l, l.lb, l.ub)
  IN IF tc <= l.nteams THEN OneEach(l, l.lb, l.ub, tc, team) ELSE Piece(l, l.lb, l.ub, tc, team, l.nteams)

\* __kmp_dist_for_static_init: the piece of the team, and in it that of the thread.
DistFor(l, team, tid) ==
  LET tc == TripCount(l, l.lb, l.ub)
      d == TeamBounds(l, team)
      tcd == TripCount(l, d.lower, d.upper)
      p == IF l.schedule = "chunked" THEN Dealt(l, d.lower, d.upper, tcd, AtLeastOne(l.chunk), tid, l.nth)
           ELSE IF tcd <= l.nth THEN OneEach(l, d.lower, d.upper, tcd, tid)
           ELSE Piece(l, d.lower, d.upper, tcd, tid, l.nth)
  IN IF tc <= l.nteams
       THEN IF tid = 0 THEN d ELSE Part(T(l.ub + l.incr), l.ub, 0, l.ub, FALSE)
     ELSE IF static_kind = "greedy" /\ Before(l, d.upper, d.lower) THEN d
     ELSE [p EXCEPT !.last = @ /\ d.last]

\* __kmp_team_static_init: chunks dealt out to the teams.
TeamChunked(l, team) ==
  LET d == Dealt(l, l.lb, l.ub, TripCount(l, l.lb, l.ub), AtLeastOne(l.chunk), team, l.nteams)
      hi == IF Before(l, d.upper, d.lower) THEN Limit(l) ELSE d.upper
  IN [d EXCEPT !.upper = Cut(l, hi, l.ub)]

-----------------------------------------------------------------------------
(* The tasks of a taskloop: a range of iterations for so many of them, grain *)
(* iterations each and one more in the first extras.                         *)

\* __kmpc_taskloop: ten tasks for a thread, if nothing else is asked for.
WholeRange(l) ==
  LET tc == TripCount(l, l.lb, l.ub)
      n == CASE l.schedule = "default" -> Lesser(10 * l.nth, tc)
             [] l.schedule = "num_tasks" -> Lesser(l.chunk, tc)
             [] l.schedule = "grainsize" -> IF l.chunk > tc THEN 1 ELSE tc \div l.chunk
  IN [lower |-> l.lb, tasks |-> n, grain |-> tc \div n, extras |-> tc % n, tc |-> tc]

\* __kmp_taskloop_linear: task i of a range.
LinearTask(l, r, i) ==
  LET lo == T(r.lower + l.incr * (i * r.grain + Lesser(i, r.extras)))
      hi == T(lo + l.incr * (IF i < r.extras THEN r.grain ELSE r.grain - 1))
      left == IF Up(l) THEN UT(l.ub - hi) < l.incr ELSE UT(hi - l.ub) < -l.incr
  IN Part(lo, hi, 0, hi, i = r.tasks - 1 /\ left)

\* Mutant of Halves: the extra iterations of the first half are left in the second.
HalvesWithExtras(l, r) ==
  LET n == r.tasks \div 2
      even == n <= r.extras
      grain == IF even THEN r.grain + 1 ELSE r.grain
      tc == IF even THEN grain * n ELSE r.tc - r.grain * (r.tasks - n)
  IN <<[r EXCEPT !.tasks = n, !.grain = grain, !.extras = IF even THEN 0 ELSE @, !.tc = tc],
       [r EXCEPT !.tasks = @ - n, !.extras = IF even THEN @ ELSE 0, !.tc = @ - tc,
                 !.lower = T(@ + l.incr * tc)]>>

\* __kmp_taskloop_recur: a half for the task itself, one to be queued.
Halves(l, r) ==
  LET n == r.tasks \div 2
      even == n <= r.extras
      grain == IF even THEN r.grain + 1 ELSE r.grain
      tc == IF even THEN grain * n ELSE r.tc - r.grain * (r.tasks - n)
  IN <<[r EXCEPT !.tasks = n, !.grain = grain, !.extras = IF even THEN 0 ELSE @, !.tc = tc],
       [r EXCEPT !.tasks = @ - n, !.extras = IF even THEN @ - n ELSE 0, !.tc = @ - tc,
                 !.lower = T(@ + l.incr * tc)]>>

\* So many tasks are made one after the other.
MinTasks(l) == IF TaskloopMinTasks = 0 THEN Lesser(10 * l.nth, 256) ELSE TaskloopMinTasks
Subloop == [lower : Int, tasks : Nat, grain : Nat, extras : Nat, tc : Nat]
TaskPart(l, i) ==
  LET TaskOf[r \in Subloop, k \in Nat] ==
        IF r.tasks <= MinTasks(l) \/ l.construct = "taskloop_if0" THEN LinearTask(l, r, k)
        ELSE LET h == Halves(l, r)
             IN IF k < h[1].tasks THEN TaskOf[h[1], k] ELSE TaskOf[h[2], k - h[1].tasks]
  IN TaskOf[WholeRange(l), i]

-----------------------------------------------------------------------------
\* What the compiled code runs of a part: lower to upper, and the same again a
\* stride further until the bound.
Values(l, lower, upper) ==
  {i \in TypeMin..TypeMax : ~Before(l, i, lower) /\ ~Before(l, upper, i) /\ (i - lower) % (IF Up(l) THEN l.incr ELSE -l.incr) = 0}
Iterations(l, p) ==
  IF p.stride = 0 \/ NoTrip(l) THEN Values(l, p.lower, p.upper)
  ELSE UNION {Values(l, p.lower + k * p.stride, Cut(l, p.upper + k * p.stride, p.bound)) : k \in 0..Cardinality(Values(l, l.lb, l.ub))}

OfTeam(l) == l.construct \in {"distribute", "team_chunked", "dist_dispatch"}
Workers(l) == IF OfTasks(l) THEN {0} \X (0..(WholeRange(l).tasks - 1))
              ELSE (IF l.construct = "for" THEN {0} ELSE 0..(l.nteams - 1))
                   \X (IF OfTeam(l) THEN {0} ELSE 0..(l.nth - 1))
NotYet == Part(0, 0, 0, 0, FALSE)
Called == DOMAIN part

PartOf(l, w) ==
  CASE l.construct = "for" -> ForStatic(l, w[2], l.nth)
    [] l.construct = "distribute" -> ForStatic(l, w[1], l.nteams)
    [] l.construct = "dist_for" -> DistFor(l, w[1], w[2])
    [] l.construct = "team_chunked" -> TeamChunked(l, w[1])
    [] l.construct = "dist_dispatch" -> TeamBounds(l, w[1])
    [] OfTasks(l) -> TaskPart(l, w[2])

StaticInitWith(loops) ==
  /\ sloop \in loops
  /\ static_kind \in StaticKinds
  /\ part = [w \in {} |-> NotYet]
StaticInit == StaticInitWith(StaticLoops)

\* A worker asks for its part; a task is given its own when it is made.
CallStatic(w) ==
  /\ w \in Workers(sloop) \ Called
  /\ part' = [v \in Called \cup {w} |-> IF v = w THEN PartOf(sloop, w) ELSE part[v]]
  /\ UNCHANGED <<sloop, static_kind>>

StaticNext == \E team \in 0..5, tid \in 0..5 : CallStatic(<<team, tid>>)
StaticSpec == StaticInit /\ [][StaticNext]_staticVars

-----------------------------------------------------------------------------
AllCalled == Called = Workers(sloop)
Wanted(l) == IF NoTrip(l) THEN {} ELSE Values(l, l.lb, l.ub)

\* Whatever shares out the loop, no two workers run an iteration both, none runs
\* one that is not of the loop, all together run all, and just the one that runs
\* the last iteration is told so.
PartsPartition ==
  /\ \A v, w \in Called : v # w => Iterations(sloop, part[v]) \cap Iterations(sloop, part[w]) = {}
  /\ \A w \in Called :
       /\ Iterations(sloop, part[w]) \subseteq Wanted(sloop)
       /\ part[w].last => \E i \in Iterations(sloop, part[w]) :
                             \A j \in Wanted(sloop) : ~Before(sloop, i, j)
  /\ AllCalled => /\ UNION {Iterations(sloop, part[w]) : w \in Called} = Wanted(sloop)
                  /\ Wanted(sloop) # {} => \E w \in Called : part[w].last
=============================================================================
