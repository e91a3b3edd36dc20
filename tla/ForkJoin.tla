------------------------------ MODULE ForkJoin ------------------------------
(***************************************************************************)
(* Parallel regions and what they are made of (kmp_runtime.cpp): roots,    *)
(* the slots of __kmp_threads, the sorted pool of workers, teams and their *)
(* pool, hot teams, nested regions, serialized regions, the limits.        *)
(*                                                                         *)
(* Every operation below is one critical section of __kmp_forkjoin_lock;   *)
(* what a thread reads before it takes the lock is its own or cannot be    *)
(* changed while the thread is running.  So the whole state is one record, *)
(* s or rt, and an operation is a function on it.  Barriers, tasks, the    *)
(* teams construct and the adjustment of team sizes to the load            *)
(* (dyn-var) are left out: the first two are the modules Barrier and       *)
(* TaskTeam, the last is covered by the choice of the request.             *)
(***************************************************************************)
EXTENDS Integers, FiniteSets, Sequences, FiniteSetsExt, SequencesExt

CONSTANTS
  SysMax,          \* __kmp_sys_max_nth: as far as __kmp_threads can grow
  FirstCapacity,   \* the first __kmp_threads_capacity
  MaxNth,          \* __kmp_max_nth, KMP_DEVICE_THREAD_LIMIT
  Configurations,  \* the settings, the sizes programs ask for with num_threads or the ICV, and
                   \* a bound, roots: so many are registered in all
  MaxActiveLevels, \* the max-active-levels-var ICV
  MaxSerialized    \* bound: serialized regions a thread is in

ASSUME ForkJoinAssumption ==
  /\ SysMax \in Nat \ {0} /\ FirstCapacity \in 1 .. SysMax
  /\ {MaxNth, MaxActiveLevels, MaxSerialized} \subseteq Nat \ {0}
  \* __kmp_hot_teams_mode, __kmp_hot_teams_max_level, __kmp_cg_max_nth, the nest-var ICV
  /\ Configurations \subseteq [mode: {0, 1}, levels: 0 .. 2, cgMax: Nat \ {0}, nested: BOOLEAN,
                               requests: SUBSET (Nat \ {0}), roots: Nat]

VARIABLE rt

Gtids == 0 .. SysMax - 1
No == -1              \* a null thread

\* A team has the name of what it is for: the team of a root, its hot team, the k-th serial team
\* of a thread, the team of a thread for a region at active level k.  Which structure of the pool
\* of teams it is, and the room in it, are left out.
NoTeam == <<"none", No, 0>>
RootTeam(g) == <<"root", g, 0>>
HotTeam(g) == <<"hot", g, 0>>
NoHot == [team |-> NoTeam, nth |-> 0]
Levels(s) == 0 .. s.levels - 1

\* t_nproc, t_threads, t_parent, t_active_level, t_serialized, t_master_tid, t_master_active of a
\* team set up for n threads; it has no threads yet.
NewTeam(n) ==
  [nproc |-> n, threads |-> [f \in Gtids |-> No], parent |-> NoTeam, active |-> 0,
   serialized |-> IF n > 1 THEN 0 ELSE 1, mtid |-> 0, mactive |-> FALSE]

\* A slot of __kmp_threads, with the thread in it: th_root, th_team, ds_tid, th_serial_team,
\* th_hot_teams, th_in_pool, th_next_pool.
Free == [kind |-> "free", root |-> No, team |-> NoTeam, tid |-> 0, serial |-> NoTeam,
         hot |-> << >>, inPool |-> FALSE, next |-> No]

\* A root: r_root_team, r_hot_team, r_active, r_in_parallel, r_cg_nthreads.
NoRoot == [rootTeam |-> NoTeam, hotTeam |-> NoTeam, active |-> FALSE, inParallel |-> 0, cg |-> 0]

InitWith(configurations) == \E c \in configurations :
  rt = [mode |-> c.mode, levels |-> c.levels, cgMax |-> c.cgMax, nested |-> c.nested,
        requests |-> c.requests, roots |-> c.roots, registered |-> 0, capacity |-> FirstCapacity,
        done |-> FALSE, nth |-> 0, all |-> 0, pool |-> No, insert |-> No,
        th |-> [g \in Gtids |-> Free], root |-> [g \in Gtids |-> NoRoot],
        team |-> << >>, lost |-> {}]
Init == InitWith(Configurations)

Team(s, g) == s.th[g].team
Master(s, t) == s.team[t].threads[0]
UsedSlots(s) == {g \in Gtids : s.th[g].kind # "free"}
Roots(s) == {g \in Gtids : s.th[g].kind = "root"}
Workers(s) == {g \in Gtids : s.th[g].kind = "worker"}

-----------------------------------------------------------------------------
(* The list of workers to spare, and the insertion point it is scanned from. *)

\* The threads from x on, along th_next_pool.
RECURSIVE From(_, _)
From(s, x) == IF x = No THEN << >> ELSE <<x>> \o From(s, s.th[x].next)

Pooled(s) == Range(From(s, s.pool))

\* Mutant of FreeThread: the scan starts from the last thread even when that is past the place.
FreeThreadFromLast(s, g) ==
  LET scan == From(s, IF s.insert = No THEN s.pool ELSE s.th[s.insert].next)
      stop == SelectInSeq(scan \o <<SysMax>>, LAMBDA h : h > g)
      before == IF stop = 1 THEN s.insert ELSE scan[stop - 1]
      after == IF stop > Len(scan) THEN No ELSE scan[stop]
      th1 == [s.th EXCEPT ![g] = [@ EXCEPT !.team = NoTeam, !.root = No, !.tid = 0,
                                           !.inPool = TRUE, !.next = after]]
  IN  [s EXCEPT !.th = IF before = No THEN th1 ELSE [th1 EXCEPT ![before].next = g],
                !.pool = IF before = No THEN g ELSE @, !.insert = g,
                !.nth = @ - 1, !.root[s.th[g].root].cg = @ - 1]

\* The worker leaves its team for the list, which stays sorted: the scan starts from where the
\* last thread went unless that is past the place.
FreeThread(s, g) ==
  LET start == IF s.insert # No /\ s.insert <= g THEN s.insert ELSE No
      scan == From(s, IF start = No THEN s.pool ELSE s.th[start].next)
      stop == SelectInSeq(scan \o <<SysMax>>, LAMBDA h : h > g)
      before == IF stop = 1 THEN start ELSE scan[stop - 1]
      after == IF stop > Len(scan) THEN No ELSE scan[stop]
      th1 == [s.th EXCEPT ![g] = [@ EXCEPT !.team = NoTeam, !.root = No, !.tid = 0,
                                           !.inPool = TRUE, !.next = after]]
  IN  [s EXCEPT !.th = IF before = No THEN th1 ELSE [th1 EXCEPT ![before].next = g],
                !.pool = IF before = No THEN g ELSE @,
                !.insert = g,
                !.nth = @ - 1,
                !.root[s.th[g].root].cg = @ - 1]

-----------------------------------------------------------------------------
(* Teams. *)

Without(teams, t) == [u \in DOMAIN teams \ {t} |-> teams[u]]

\* __kmp_allocate_team, not hot.
AllocateTeam(s, t, n) == [s EXCEPT !.team = (t :> NewTeam(n)) @@ @]

\* __kmp_free_team, not hot: the workers go to their pool, the team to its own.
FreeTeam(s, t) ==
  LET freed == FoldLeft(LAMBDA u, f : FreeThread(u, s.team[t].threads[f]), s,
                        [i \in 1 .. s.team[t].nproc - 1 |-> i])
  IN  [freed EXCEPT !.team = Without(@, t)]

\* __kmp_initialize_info: thread g becomes thread tid of the team.
Install(s, g, t, tid) ==
  [s EXCEPT !.team[t].threads[tid] = g,
            !.th[g].team = t, !.th[g].tid = tid, !.th[g].next = No,
            !.th[g].root = IF tid = 0 THEN @ ELSE s.th[Master(s, t)].root]

\* Mutant of AllocateThread: the insertion point is left on a thread that is no longer in the pool.
AllocateThreadKeepingPoint(s, r, t, tid) ==
  IF s.pool # No
  THEN LET g == s.pool
       IN  Install([s EXCEPT !.pool = s.th[g].next, !.th[g].inPool = FALSE, !.nth = @ + 1,
                             !.root[r].cg = @ + 1], g, t, tid)
  ELSE LET g == Min(Gtids \ (UsedSlots(s) \union {0}))
           mine == <<"serial", g, 1>>
           a == AllocateTeam(s, mine, 1)
       IN  Install([a EXCEPT !.team[mine].serialized = 0, !.team[mine].threads[0] = g,
                                  !.th[g].kind = "worker", !.th[g].serial = mine,
                                  !.th[g].hot = [l \in Levels(s) |-> NoHot],
                                  !.all = @ + 1, !.nth = @ + 1, !.root[r].cg = @ + 1],
                   g, t, tid)

\* __kmp_allocate_thread: the first of the pool, or a new worker in the first slot but 0 with
\* its serial team in reserve.
AllocateThread(s, r, t, tid) ==
  IF s.pool # No
  THEN LET g == s.pool
       IN  Install([s EXCEPT !.pool = s.th[g].next, !.insert = IF @ = g THEN No ELSE @,
                             !.th[g].inPool = FALSE, !.nth = @ + 1, !.root[r].cg = @ + 1],
                   g, t, tid)
  ELSE LET g == Min(Gtids \ (UsedSlots(s) \union {0}))
           mine == <<"serial", g, 1>>
           a == AllocateTeam(s, mine, 1)
       IN  Install([a EXCEPT !.team[mine].serialized = 0, !.team[mine].threads[0] = g,
                                  !.th[g].kind = "worker", !.th[g].serial = mine,
                                  !.th[g].hot = [l \in Levels(s) |-> NoHot],
                                  !.all = @ + 1, !.nth = @ + 1, !.root[r].cg = @ + 1],
                   g, t, tid)

\* Workers for the places from..to of the team, in that order.
Hire(s, r, t, from, to) ==
  FoldLeft(LAMBDA u, tid : AllocateThread(u, r, t, tid), s, [i \in 1 .. to - from + 1 |-> from + i - 1])

\* The hot team of thread g at the level is too large: release the others (mode 0), or keep
\* them in reserve (mode 1).
ShrinkHot(s, g, level, n) ==
  LET t == s.th[g].hot[level].team
      extra == [i \in 1 .. s.team[t].nproc - n |-> n + i - 1]
      freed == FoldLeft(LAMBDA u, f : [FreeThread(u, s.team[t].threads[f]) EXCEPT !.team[t].threads[f] = No],
                        s, extra)
  IN  IF s.mode = 0 THEN [freed EXCEPT !.th[g].hot[level].nth = n, !.team[t].nproc = n]
      ELSE [s EXCEPT !.team[t].nproc = n]

\* It is too small: the reserve first, then the pool; all its threads are set up again.
GrowHot(s, r, g, level, n) ==
  LET t == s.th[g].hot[level].team
      had == s.th[g].hot[level].nth
      hired == IF had >= n THEN s
               ELSE Hire([s EXCEPT !.th[g].hot[level].nth = n], r, t, had, n - 1)
      set == [hired EXCEPT !.team[t].nproc = n, !.team[t].serialized = IF n > 1 THEN 0 ELSE 1,
                           !.team[t].mtid = 0, !.team[t].mactive = FALSE]
  IN  FoldLeft(LAMBDA u, f : Install(u, u.team[t].threads[f], t, f), set, [i \in 1 .. n |-> i - 1])

\* __kmp_expand_threads(need, need): twice the size until it is enough, never beyond the
\* system's limit; not at all if that is too little.
Expand(s, need) ==
  LET doubled[c \in 1 .. SysMax] ==
        LET d == IF c <= SysMax \div 2 THEN 2 * c ELSE SysMax
        IN  IF d >= s.capacity + need THEN d ELSE doubled[d]
  IN  IF SysMax - s.capacity < need THEN s ELSE [s EXCEPT !.capacity = doubled[@]]

\* Mutant of Reserve: the threads of the hot team count as free inside a region too.
ReserveTwice(s, r, n) ==
  LET hot == s.team[s.root[r].hotTeam].nproc
      Within(used, limit, wanted) ==
        IF used + wanted - hot > limit THEN Max({1, limit - used + hot}) ELSE wanted
      device == Within(s.nth, MaxNth, n)
      group == IF device = 1 THEN 1 ELSE Within(s.root[r].cg, s.cgMax, device)
  IN  [s |-> [s EXCEPT !.capacity = SysMax], n |-> group]

\* __kmp_reserve_threads: how many threads a region that asks for n can have, in .n, within the
\* two limits and the slots there are; slot 0 is not for workers.
Reserve(s, r, n) ==
  LET hot == IF s.root[r].active THEN 1 ELSE s.team[s.root[r].hotTeam].nproc
      Within(used, limit, wanted) ==
        IF used + wanted - hot > limit THEN Max({1, limit - used + hot}) ELSE wanted
      device == Within(s.nth, MaxNth, n)
      group == IF device = 1 THEN 1 ELSE Within(s.root[r].cg, s.cgMax, device)
      slots(u) == u.capacity - (IF u.th[0].kind = "free" THEN 1 ELSE 0)
      short == s.nth + group - hot - slots(s)
      grown == IF short > 0 THEN Expand(s, short) ELSE s
      missing == short - (grown.capacity - s.capacity)
  IN  IF group = 1 THEN [s |-> s, n |-> 1]
      ELSE [s |-> grown, n |-> IF missing > 0 THEN group - missing ELSE group]

-----------------------------------------------------------------------------
(* Regions. *)

\* The teams thread g is in: its own, the one around it, and so on to its root's.
RECURSIVE Around(_, _)
Around(s, t) == IF t \notin DOMAIN s.team THEN {} ELSE {t} \union Around(s, s.team[t].parent)
Chain(s, g) == Around(s, Team(s, g))

\* Thread g executes the program: it is the master of its team, or the region of its team goes
\* on and has a place for it.
Running(s, g) ==
  /\ Team(s, g) # NoTeam /\ g \notin s.lost
  /\ \/ Master(s, Team(s, g)) = g
     \/ /\ Team(s, g) \in Chain(s, Master(s, Team(s, g)))
        /\ s.th[g].tid < s.team[Team(s, g)].nproc

RootOf(s, g) == s.th[g].root

\* __kmp_serialized_parallel: one more level of the serial team, the serial team in reserve,
\* or a new one when that is in use further out.
Serialize(s, g) ==
  LET serial == s.th[g].serial
      further == <<"serial", g, serial[3] + 1>>
      new == [AllocateTeam(s, further, 1) EXCEPT !.team[further].threads[0] = g,
                                                    !.th[g].serial = further]
      Enter(u, t) == [u EXCEPT !.team[t] = [@ EXCEPT !.serialized = 1, !.nproc = 1,
                                                     !.parent = Team(s, g), !.mtid = s.th[g].tid,
                                                     !.active = s.team[Team(s, g)].active],
                               !.th[g].team = t, !.th[g].tid = 0]
  IN  IF Team(s, g) = serial THEN [s EXCEPT !.team[serial].serialized = @ + 1]
      ELSE IF s.team[serial].serialized = 0 THEN Enter(s, serial)
      ELSE Enter(new, further)

\* __kmpc_end_serialized_parallel.
EndSerialized(s, g) ==
  LET t == Team(s, g)
  IN  IF s.team[t].serialized > 1 THEN [s EXCEPT !.team[t].serialized = @ - 1]
      ELSE [s EXCEPT !.team[t].serialized = 0,
                     !.th[g].team = s.team[t].parent, !.th[g].tid = s.team[t].mtid]

\* __kmp_fork_call from the reservation on, with n > 1: the hot team of this level if there is
\* one, or else a team from the pool and workers for it.
Activate(s0, g, n) ==
  LET r == RootOf(s0, g)
      outer == Team(s0, g)
      level == s0.team[outer].active
      wasActive == s0.root[r].active
      \* th_hot_teams is made at the first region of the thread
      s == IF level \in Levels(s0) /\ s0.th[g].hot[0].team = NoTeam
           THEN [s0 EXCEPT !.th[g].hot[0] = [team |-> s0.root[r].hotTeam, nth |-> 1]] ELSE s0
      isHot == level \in Levels(s) /\ s.th[g].hot[level].team # NoTeam
      hotTeam == s.th[g].hot[level].team
      t == IF isHot THEN hotTeam ELSE <<"team", g, level>>
      a == CASE ~isHot -> AllocateTeam(s, t, n)
             [] isHot /\ s.team[t].nproc = n -> s
             [] isHot /\ s.team[t].nproc > n -> ShrinkHot(s, g, level, n)
             [] isHot /\ s.team[t].nproc < n -> GrowHot(s, r, g, level, n)
      set == [a EXCEPT !.team[t] = [@ EXCEPT !.mtid = s0.th[g].tid, !.parent = outer,
                                               !.active = level + 1, !.mactive = wasActive],
                         !.root[r] = [@ EXCEPT !.active = TRUE, !.inParallel = @ + 1],
                         !.th[g].team = t, !.th[g].tid = 0]
      kept == IF ~isHot /\ level \in Levels(s) THEN [set EXCEPT !.th[g].hot[level] = [team |-> t, nth |-> n]] ELSE set
  IN  IF isHot THEN kept ELSE Hire(Install(kept, g, t, 0), r, t, 1, n - 1)

\* Mutant of Deactivate: the end of any region makes the root idle.
DeactivateRoot(s, g) ==
  LET r == RootOf(s, g)
      t == Team(s, g)
      outer == s.team[t].parent
      left == [s EXCEPT !.root[r] = [@ EXCEPT !.inParallel = @ - 1, !.active = FALSE],
                        !.th[g].tid = s.team[t].mtid]
      freed == IF t = s.root[r].hotTeam \/ s.team[t].active - 1 \in Levels(s) THEN left
               ELSE FreeTeam(left, t)
  IN  [freed EXCEPT !.th[g].team = outer]

\* __kmp_join_call of the master: the team, unless hot, and its workers go back; the master
\* returns to the outer team, and to that as its serial team if it is one.  What a hot team
\* keeps but does not read before it is set again is cleared.
Deactivate(s, g) ==
  LET r == RootOf(s, g)
      t == Team(s, g)
      outer == s.team[t].parent
      isHot == t = s.root[r].hotTeam \/ s.team[t].active - 1 \in Levels(s)
      left == [s EXCEPT !.root[r] = [@ EXCEPT !.inParallel = @ - 1, !.active = s.team[t].mactive],
                        !.th[g].tid = s.team[t].mtid]
      freed == IF ~isHot THEN FreeTeam(left, t)
               ELSE [left EXCEPT !.team[t] = [@ EXCEPT !.parent = NoTeam, !.active = 0,
                                                       !.mtid = 0, !.mactive = FALSE]]
      back == [freed EXCEPT !.th[g].team = outer]
  IN  IF s.team[outer].serialized > 0 /\ outer # s.th[g].serial /\ outer # s.root[r].rootTeam
      THEN [FreeTeam(back, s.th[g].serial) EXCEPT !.th[g].serial = outer] ELSE back

\* Thread g reaches a parallel construct for n threads.
Fork(g, n) ==
  LET s == rt
      t == Team(s, g)
      outermost == s.root[RootOf(s, g)].inParallel = 0
      serial == \/ s.team[t].active >= MaxActiveLevels \/ n = 1
                \/ ~s.nested /\ ~outermost
      res == IF serial THEN [s |-> s, n |-> 1] ELSE Reserve(s, RootOf(s, g), n)
  IN  /\ ~s.done /\ Running(s, g)
      /\ res.n = 1 => MapThenSumSet(LAMBDA u : s.team[u].serialized, Chain(s, g)) <= MaxSerialized
      /\ rt' = IF res.n = 1 THEN Serialize(res.s, g) ELSE Activate(res.s, g, res.n)

\* The master leaves its region; the workers, through with theirs, are at the join barrier.
Join(g) ==
  LET s == rt
      t == Team(s, g)
  IN  /\ ~s.done /\ Running(s, g) /\ Master(s, t) = g
      /\ t # s.root[RootOf(s, g)].rootTeam
      /\ IF s.team[t].serialized > 0 THEN rt' = EndSerialized(s, g)
         ELSE /\ \A f \in 1 .. s.team[t].nproc - 1 : Team(s, s.team[t].threads[f]) = t
              /\ rt' = Deactivate(s, g)

\* omp_set_num_threads outside of regions: the hot team is reduced at once (mode 0).
SetNumThreads(g, n) ==
  LET s == rt
      r == RootOf(s, g)
      t == s.root[r].hotTeam
      m == Min({n, MaxNth})
  IN  /\ ~s.done /\ Running(s, g)
      /\ ~s.root[r].active /\ s.team[t].nproc > m /\ s.levels > 0 /\ s.mode = 0
      /\ rt' = ShrinkHot(s, g, 0, m)

-----------------------------------------------------------------------------
(* Roots. *)

\* __kmp_register_root: the thread that initializes the library gets slot 0, any other thread
\* the first free slot but 0; its root gets a root team and a hot team, the thread a serial team.
RegisterRoot ==
  LET first == IF rt.registered = 0 THEN 0 ELSE 1
      room == rt.capacity - (IF first = 1 /\ rt.th[0].kind = "free" THEN 1 ELSE 0)
      s == IF rt.all >= room THEN Expand(rt, 1) ELSE rt
      g == Min({h \in first .. SysMax - 1 : s.th[h].kind = "free"})
      serial == <<"serial", g, 1>>
      a == AllocateTeam(s, RootTeam(g), 1)
      b == AllocateTeam(a, HotTeam(g), 1)
      c == AllocateTeam(b, serial, 1)
  IN  /\ ~rt.done /\ rt.registered < rt.roots
      /\ rt.all >= room => s.capacity > rt.capacity   \* or else the program is ended
      /\ rt' = [c EXCEPT !.registered = @ + 1, !.all = @ + 1, !.nth = @ + 1,
                  !.root[g] = [rootTeam |-> RootTeam(g), hotTeam |-> HotTeam(g), active |-> FALSE,
                               inParallel |-> 0, cg |-> 1],
                  !.team[RootTeam(g)].threads[0] = g, !.team[HotTeam(g)].threads[0] = g,
                  !.team[serial].threads[0] = g, !.team[serial].serialized = 0,
                  !.th[g] = [kind |-> "root", root |-> g, team |-> RootTeam(g), tid |-> 0, serial |-> serial,
                             hot |-> [l \in Levels(s) |-> NoHot], inPool |-> FALSE, next |-> No]]

\* The workers a team keeps in reserve, beyond its size.
Reserved(s, t) == {s.team[t].threads[f] : f \in s.team[t].nproc .. SysMax - 1} \ {No}

\* __kmp_free_hot_teams: the hot team of thread h at the level, after those of its threads at
\* the next.
RECURSIVE FreeHotTeams(_, _, _)
FreeHotTeams(s, h, level) ==
  IF level \notin Levels(s) \/ s.th[h].hot[level].team = NoTeam THEN s
  ELSE LET t == s.th[h].hot[level].team
           Deeper(u, f) ==
             LET w == s.team[t].threads[f]
                 v == FreeHotTeams(u, w, level + 1)
             IN  IF f > 0 THEN [v EXCEPT !.th[w].hot = [l \in Levels(s) |-> NoHot]] ELSE v
           inner == IF level + 1 \notin Levels(s) THEN s
                    ELSE FoldLeft(Deeper, s, [i \in 1 .. s.th[h].hot[level].nth |-> i - 1])
       IN  [FreeTeam(inner, t) EXCEPT !.lost = @ \union Reserved(s, t)]

\* __kmp_unregister_root_current_thread, __kmp_reset_root: the teams of the root and those
\* their threads hold go back, then its slot.
UnregisterRoot(g) ==
  LET s == rt
      hot == s.root[g].hotTeam
      rootFreed == FreeTeam(s, s.root[g].rootTeam)
      Nest(u, f) ==
        LET h == s.team[hot].threads[f]
        IN  [FreeHotTeams(u, h, 1) EXCEPT !.th[h].hot = [l \in Levels(s) |-> NoHot]]
      nests == IF s.levels = 0 THEN rootFreed
               ELSE FoldLeft(Nest, rootFreed, [i \in 1 .. s.team[hot].nproc |-> i - 1])
      u == [FreeTeam(nests, hot) EXCEPT !.lost = @ \union Reserved(s, hot)]
  IN  /\ ~s.done /\ s.th[g].kind = "root" /\ ~s.root[g].active
      /\ Team(s, g) = s.root[g].rootTeam
      /\ rt' = [u EXCEPT !.nth = @ - 1, !.all = @ - 1, !.th[g] = Free,
                         !.root[g] = [@ EXCEPT !.rootTeam = NoTeam, !.hotTeam = NoTeam, !.cg = @ - 1],
                         !.team = Without(@, s.th[g].serial)]

\* __kmp_internal_end_thread of the last root, __kmp_internal_end: the workers in the pool are
\* reaped, each with its serial team, and the teams in theirs.
InternalEnd ==
  LET s == rt
      reaped == Pooled(s)
  IN  /\ ~s.done /\ s.registered > 0 /\ Roots(s) = {}
      /\ rt' = [s EXCEPT !.done = TRUE, !.pool = No, !.insert = No,
                         !.all = @ - Cardinality(reaped),
                         !.th = [g \in Gtids |-> IF g \in reaped THEN Free ELSE @[g]],
                         !.team = [t \in DOMAIN @ \ {s.th[g].serial : g \in reaped} |-> @[t]]]

Next ==
  \/ RegisterRoot
  \/ \E g \in Gtids : UnregisterRoot(g)
  \/ \E g \in Gtids, n \in rt.requests : Fork(g, n)
  \/ \E g \in Gtids : Join(g)
  \/ \E g \in Gtids, n \in rt.requests : SetNumThreads(g, n)
  \/ InternalEnd

Spec == Init /\ [][Next]_rt

-----------------------------------------------------------------------------
TypeOK ==
  /\ rt.nth \in 0 .. SysMax /\ rt.all \in 0 .. SysMax /\ rt.capacity \in 1 .. SysMax
  /\ UsedSlots(rt) \subseteq 0 .. rt.capacity - 1
  /\ \A g \in Gtids \ rt.lost : rt.th[g].team \in DOMAIN rt.team \union {NoTeam}

\* The list of workers to spare is sorted by slot and ends; it holds just the threads marked as
\* pooled, which are of no team; the insertion point is on it or unset.
PoolInOrder ==
  /\ Pooled(rt) = {g \in Gtids : rt.th[g].inPool}
  /\ \A g \in Pooled(rt) : rt.th[g].kind = "worker" /\ rt.th[g].team = NoTeam
                           /\ (rt.th[g].next # No => g < rt.th[g].next)
  /\ rt.insert \in Pooled(rt) \union {No}

\* The places, but a master's, that thread g has in the arrays of teams.
Places(g) == {<<t, f>> \in (DOMAIN rt.team) \X (1 .. SysMax - 1) : rt.team[t].threads[f] = g}

\* A worker is in the pool, or in one place of one team; the places of a team are taken.
ThreadsPlaced ==
  /\ \A g \in Workers(rt) \ rt.lost : Cardinality(Places(g)) = IF rt.th[g].inPool THEN 0 ELSE 1
  /\ \A t \in DOMAIN rt.team, f \in Gtids : f < rt.team[t].nproc => rt.team[t].threads[f] # No

\* The active regions that go on.
Regions == {t \in UNION {Chain(rt, g) : g \in {h \in UsedSlots(rt) : Running(rt, h)}} :
              rt.team[t].serialized = 0}

\* __kmp_all_nth, __kmp_nth, and per root r_cg_nthreads, r_in_parallel and r_active.
CountsExact ==
  /\ rt.all = Cardinality(UsedSlots(rt))
  /\ rt.nth = rt.all - Cardinality(Pooled(rt))
  /\ \A r \in Roots(rt) :
       /\ rt.root[r].cg = Cardinality({g \in UsedSlots(rt) \ Pooled(rt) : RootOf(rt, g) = r})
       /\ rt.root[r].active = (rt.root[r].inParallel > 0)
  /\ \A r \in Roots(rt) : rt.root[r].inParallel = Cardinality({t \in Regions : RootOf(rt, Master(rt, t)) = r})

\* Whatever regions are forked, joined, serialized or nested, and whatever roots come and go,
\* every thread is in the sorted pool or in one place of one team, and the counts that limits
\* and reservations are computed from are the numbers of threads there are (__kmp_fork_call,
\* __kmp_join_call, __kmp_allocate_thread, __kmp_free_thread).  When the library has ended no
\* thread is left, but for those lost with a reserve (mode 1) and, with two levels of hot teams,
\* those of a nested hot team whose master is in the pool.
Accounted ==
  /\ TypeOK /\ PoolInOrder /\ ThreadsPlaced /\ CountsExact
  /\ rt.done /\ rt.levels < 2 =>
       UsedSlots(rt) = rt.lost /\ DOMAIN rt.team \subseteq {rt.th[g].serial : g \in rt.lost}

\* A step takes threads out of one region at most, never out of one another thread is the master
\* of or that goes on inside; and no region gets threads beyond the limits of the device and of
\* the root (__kmp_reserve_threads, __kmp_free_team).
RegionsKept ==
  [][ LET moved == {g \in Gtids : rt'.th[g].team # Team(rt, g) /\ Running(rt, g)}
      IN  /\ \A g, h \in moved : Team(rt, g) = Team(rt, h)
          /\ \A g \in moved : \/ Team(rt, g) \in Chain(rt', g)
                              \/ ~\E h \in Gtids : /\ Team(rt, h) # Team(rt, g)
                                                   /\ Team(rt, g) \in Chain(rt, h) /\ Running(rt, h)
          /\ rt'.registered = rt.registered =>
               /\ rt'.nth > rt.nth => rt'.nth <= MaxNth
               /\ \A r \in Roots(rt) : rt'.root[r].cg > rt.root[r].cg => rt'.root[r].cg <= rt.cgMax
    ]_rt
=============================================================================
