-------------------------------- MODULE MCLoop --------------------------------
(***************************************************************************)
(* The regions and loops of the instance to check.                         *)
(***************************************************************************)
EXTENDS Loop

MCRSched == [kind |-> "dynamic_chunked", chunk |-> 2]

l(kind, tc, chunk) == [kind |-> kind, tc |-> tc, chunk |-> chunk, ordered |-> FALSE, gomp |-> FALSE,
                       nomerge |-> FALSE, wide |-> FALSE, nowait |-> TRUE]
Region(n, loops) == [nproc |-> n, loops |-> loops]

\* One thread, two and three, on every kind of loop.
Serial == {Region(1, <<[l(k, tc, 2) EXCEPT !.nomerge = m]>>) : k \in Kinds, tc \in {0, 3}, m \in BOOLEAN}
Two == {Region(2, <<l(k, tc, chunk)>>) :
          k \in Kinds \ {"guided_simd"}, tc \in {0, 1, 11}, chunk \in {0, 2}}
       \cup {Region(2, <<l("guided_simd", tc, c)>>) : tc \in {4, 11}, c \in {1, 2}}
Three == {Region(3, <<l(k, 7, 1)>>) : k \in Kinds \ {"static_steal"}}
\* Loops with ordered regions, called in both ways.
Ordereds(n, tc, kinds) ==
  {Region(n, <<[l(k, tc, 1) EXCEPT !.ordered = TRUE, !.gomp = g]>>) : k \in kinds, g \in BOOLEAN}
\* Three threads that steal from each other, with pairs of both widths.
Stealing == {Region(n[1], <<[l("static_steal", n[2], 1) EXCEPT !.wide = w]>>) :
               n \in {<<3, 4>>, <<2, 18>>}, w \in BOOLEAN}
\* Stealing again after a barrier, and a loop of another kind without one.
Again == {Region(2, <<[l("static_steal", 4, 1) EXCEPT !.wide = w, !.nowait = FALSE],
                      [l("static_steal", 4, 1) EXCEPT !.wide = w]>>) : w \in BOOLEAN}
After == {Region(2, <<[l("static_steal", 4, 1) EXCEPT !.wide = w], l("dynamic_chunked", 4, 1)>>) :
            w \in BOOLEAN}
\* Once around the ring of two buffers.
Ring == {Region(n, <<l("dynamic_chunked", 1, 1), l("static", 2, 1), l("dynamic_chunked", 1, 1)>>) :
           n \in {2, 3}}

MCRegions == Serial \cup Two \cup Three \cup Stealing \cup Again \cup After \cup Ring
             \cup Ordereds(2, 4, {"dynamic_chunked", "static_steal"}) \cup Ordereds(2, 3, {"static", "trapezoidal"})
             \cup Ordereds(3, 2, {"dynamic_chunked"})

\* Two loops with stealing over 8 byte variables, the first of them nowait.
NowaitStealing == {Region(2, <<[l("static_steal", 4, 1) EXCEPT !.wide = TRUE],
                               [l("static_steal", 4, 1) EXCEPT !.wide = TRUE]>>)}

\* A loop with stealing, and another straight after a loop in whose place of the
\* ring the counter of the first still stands.
StaleCounter == {Region(2, <<[l("static_steal", 4, 1) EXCEPT !.wide = TRUE, !.nowait = FALSE],
                             l("dynamic_chunked", 4, 1), l("dynamic_chunked", 4, 1),
                             [l("static_steal", 4, 1) EXCEPT !.wide = TRUE]>>)}

\* The proof about the ring of buffers speaks of these regions.
ASSUME RegionsApart == \A region \in MCRegions : Apart(region)

-----------------------------------------------------------------------------
S(c, s, lb, ub, incr, chunk, nteams, nth) ==
  [construct |-> c, schedule |-> s, lb |-> lb, ub |-> ub, incr |-> incr, chunk |-> chunk,
   nteams |-> nteams, nth |-> nth]
MCStaticLoops ==
  {S("for", s, lb, ub, incr, c, 1, nth) : s \in {"static", "chunked", "balanced_chunked"},
     lb \in {-2}, ub \in {-5, -3, -2, 1, 4, 5}, incr \in {-2, -1, 1, 2}, c \in {1, 2}, nth \in {1, 3, 4}}
  \cup {S(c, s, lb, ub, incr, 2, nt, 2) : c \in {"distribute", "dist_for", "team_chunked", "dist_dispatch"},
          s \in {"static", "chunked"}, lb \in {-2}, ub \in {-2, 0, 3, 6}, incr \in {1, 2}, nt \in {1, 3}}
  \cup {S(c, s, lb, ub, incr, 2, nt, 2) : c \in {"distribute", "dist_for", "team_chunked", "dist_dispatch"},
          s \in {"static", "chunked"}, lb \in {2}, ub \in {-6, -3, 2}, incr \in {-1, -2}, nt \in {1, 3}}
  \cup {S("taskloop", s, x[1], x[2], x[3], c, 1, 2) : s \in {"grainsize", "num_tasks"}, c \in {2, 3, 5},
          x \in {<<-2, 6, 1>>, <<-2, 9, 2>>, <<4, -5, -1>>, <<2, -7, -2>>, <<3, 3, 1>>}}
  \cup {S(c, "default", -2, ub, 1, 1, 1, 1) : c \in {"taskloop", "taskloop_if0"}, ub \in {-2, 1, 3}}

-----------------------------------------------------------------------------
d(lo, up, st) == [lo |-> lo, up |-> up, st |-> st]
N(n, nests) == [nproc |-> n, nests |-> nests]
Line == [dims |-> <<d(2, 8, 3)>>, sinks |-> <<<<1>>>>]
Grid == [dims |-> <<d(0, 1, 1), d(7, 3, -2)>>, sinks |-> <<<<1, 0>>, <<0, 1>>>>]
Skew == [dims |-> <<d(1, 3, 2), d(5, 4, -1)>>, sinks |-> <<<<1, -1>>>>]
Cube == [dims |-> <<d(0, 1, 1), d(3, 4, 1), d(2, 0, -2)>>, sinks |-> <<<<1, 0, 1>>, <<0, 1, 0>>>>]
One == [dims |-> <<d(1, 1, 1)>>, sinks |-> <<<<1>>>>]
\* Nests of one to three dimensions up and down, and once around the ring.
MCNests == {N(1, <<Grid>>), N(3, <<Line>>), N(2, <<Skew>>), N(2, <<Grid>>), N(2, <<Cube>>),
            N(2, <<One, Line, One>>), N(3, <<One>>)}

P(kind, cancels, points, end) == [kind |-> kind, cancels |-> cancels, points |-> points, end |-> end]
Plain == P("parallel", FALSE, FALSE, "barrier")
C(n, parts) == [nproc |-> n, parts |-> parts, runs |-> IF n = 3 THEN 1 ELSE 2]
\* A loop, then sections, as in test/misc_bugs/cancellation_for_sections.c, in a
\* region that can be cancelled too or not; the region cancelled before a loop.
\* After a cancel barrier nothing is cancelled before there was a plain one.
MCCancellations ==
  {C(2, <<P("loop", TRUE, TRUE, "barrier"), P("sections", TRUE, TRUE, "barrier")>>),
   C(3, <<P("loop", TRUE, FALSE, "barrier"), P("sections", FALSE, TRUE, "barrier")>>)}
  \cup {C(2, <<P("loop", TRUE, TRUE, "cancel_barrier"), Plain, P("sections", TRUE, FALSE, "cancel_barrier")>>),
        C(3, <<P("parallel", TRUE, TRUE, "cancel_barrier"), P("loop", FALSE, FALSE, "cancel_barrier")>>),
        C(2, <<P("parallel", TRUE, FALSE, "cancel_barrier"), Plain, P("parallel", TRUE, TRUE, "cancel_barrier")>>),
        C(1, <<P("parallel", FALSE, TRUE, "barrier"), P("loop", TRUE, TRUE, "cancel_barrier")>>)}

\* The proof about cancellation speaks of these regions.
ASSUME RegionsOrderly == \A region \in MCCancellations : Orderly(region)

\* Two parts with cancellation and only a cancel barrier between them; a team
\* of one that cancels a loop and then comes to a point in sections.
AgainAtOnce == {C(2, <<P("loop", TRUE, FALSE, "cancel_barrier"), P("sections", TRUE, FALSE, "barrier")>>)}
AloneInTurn == {C(1, <<P("loop", TRUE, FALSE, "barrier"), P("sections", FALSE, TRUE, "barrier")>>)}
=============================================================================
