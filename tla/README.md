# A verification project for the LLVM OpenMP runtime

TLA+ modules that model `libomp` (and the data mapping of `libomptarget`), the
TLC configurations that check them on small instances, and theorems about them
that the TLA+ proof system checks. The reference is the C++ of the repository
as built for Linux, x86-64, with 64-bit flags; comments in each module name the
functions it models. `PROJECT.json` gives the lines of every definition
(`map`), the runs, a mutation of the code that breaks each checked property
(`mutants`), the hazards of this code at their lines, and what was found.

Contents: [1 the system](#1-the-system) · [2 modules](#2-modules) ·
[3 conventions](#3-conventions) · [4 runs](#4-runs) ·
[5 fairness](#5-fairness) · [6 proofs](#6-proofs) · [7 findings](#7-findings) ·
[8 not modelled](#8-not-modelled) · [9 what could follow](#9-what-could-follow)

## 1 The system

The repository holds three libraries. `runtime/` is libomp, the host runtime a
compiled OpenMP program calls for its parallel regions, loops, tasks and locks.
`libomptarget/` maps data to devices and launches kernels there, through
plugins and device runtimes. `offload/` is Intel's older offload library for
MIC cards. The project is about libomp, the part with threads, and about the
mapping tables of libomptarget, which threads of the host share.

### Components, their state, their operations

| component | source (`runtime/src/` unless named) | state | operations |
|---|---|---|---|
| ticket lock | `kmp_lock.cpp` 616-1000 | `next_ticket`, `now_serving`, `owner_id`, `depth_locked` | init, destroy, set, test, unset, nestable forms |
| queuing lock | `kmp_lock.cpp` 1050-1785 | `head_id`, `tail_id` of the lock; `th_next_waiting`, `th_spin_here` **of the thread**, shared by all locks it waits for | the same |
| drdpa lock | `kmp_lock.cpp` 2276-2755 | ticket words, polling area `polls` with its `mask` and size, old area, `cleanup_ticket` | the same; the holder resizes the area |
| test-and-set, futex locks | `kmp_lock.cpp` 60-615 | `poll` (owner; a futex has "somebody sleeps" in its low bit), depth | the same |
| user locks, critical sections | `kmp_lock.cpp` 2758-3893, `kmp_csupport.cpp` | kind of lock, tag of the lock word, table and pools of lock objects | choose, look up, allocate, install on first use |
| flags | `kmp_wait_release.h`, `z_Linux_util.cpp` 1380-1680 | a 64-bit word: go or arrived count plus sleep bit; `th_sleep_loc`, `th_active`, `th_active_in_pool`, `th_in_pool`, a mutex and a condition per thread | wait, suspend, resume, release, null resume |
| barriers | `kmp_barrier.cpp` | `b_arrived` and `b_go` per thread and kind, `t_bar.b_arrived` per team, the reduction data, the ICVs | gather, release, split, fork, join |
| task teams | `kmp_tasking.cpp` 2070-2950 | two task teams per hot team, `tt_found_tasks`, `tt_unfinished_threads`, `th_task_state` | setup, sync, wait, enable, execute/steal loop |
| explicit tasks | `kmp_tasking.cpp` 200-2070, 2975-3180 | task data with counts of children and of unfreed children, deques, taskgroups | create, omp_task, if0, taskwait, taskgroup, taskyield, steal, finish, free; completion of proxy tasks |
| loop dispatch | `kmp_dispatch.cpp` | a ring of shared buffers per team, private buffers, `th_steal_lock` | init, next, fini, ordered |
| static schedules, taskloops | `kmp_sched.cpp`, `kmp_tasking.cpp` 3270-3641 | none: arithmetic in the type of the loop variable | for, distribute, distribute parallel for, team chunks; a loop cut into tasks by grain size or number, linearly or in halves |
| doacross loops | `kmp_csupport.cpp` 3000-3330 | fields of their own in the ring, an array of flags per nest | init, wait, post, fini |
| task dependences | `kmp_taskdeps.cpp` | hash of last writer and readers per address, nodes with counts | task_with_deps, wait_deps, release |
| cancellation | `kmp_cancel.cpp` | `t_cancel_request`, `cancel_request` of a taskgroup | cancel, point, barrier, status |
| fork, join, pool | `kmp_runtime.cpp` | teams, roots, the sorted pool of idle threads, hot teams, limits | fork_call, join_call, serialized regions, allocate and free of teams and threads, register and unregister roots, shutdown |
| memory | `kmp_alloc.cpp` | BGET pools per thread, lists of blocks handed back by others | bget, brel, fast allocate and free, finalize |
| atomics | `kmp_atomic.cpp` | `__kmp_atomic_mode`, a lock per type | some 500 generated entry points, five ways to be atomic |
| data mapping | `libomptarget/src/omptarget.cpp` | list of mappings with counts, shadow pointers, pending globals | data begin, end, update, target |
| machine hierarchy | `kmp_affinity.h` 600-850 | levels, children per level, `uninitialized`, `resizing` | init, resize |
| entry points | `kmp_csupport.cpp`, `kmp_gsupport.cpp` | little of their own | single, sections, reductions, API |
| the rest | `kmp_settings.cpp`, `kmp_affinity.cpp`, `kmp_taskq.cpp`, `kmp_threadprivate.cpp`, `z_*`, plugins, device runtimes | | settings, topology, workqueuing, platform, drivers |

The full list is in `PROJECT.json`, each with its status.

### How they interact

* A thread that forks takes its workers from the **pool** or finds them in its
  hot team, **releases** them by the fork barrier's `b_go` flags, runs its own
  implicit task, and **gathers** them at the join barrier. Workers live in
  `__kmp_launch_thread`: wait at the fork barrier, run, join barrier, again.
* Every barrier wait is a **flag wait**. A waiter spins, then *executes tasks* of
  its task team, and after the blocktime suspends itself. A releaser that sees
  the sleep bit **resumes** it.
* Task teams are **set up** by the master before a barrier, taken over by each
  worker on its own when it is **released**, and drained in the barrier between
  gather and release (`__kmp_task_team_wait`).
* Explicit tasks live in the deques of a task team. A thread that creates the
  first task enables tasking and wakes sleepers through `th_sleep_loc`, a
  pointer to a flag whose type it has to guess from that flag.
* A task with **dependences** is queued when the last node before it is released,
  by the thread that finishes that task.
* Dispatched loops and doacross loops go around **one ring of buffers** of the
  team, each with an index of its own; a buffer is handed on by the last thread
  that is through with it, the first of the next loop waits for that.
* A **cancellation** is one word of the team, reset in a barrier.
* Queuing locks keep their list in fields of the *threads*, so all queuing locks
  of the program share them; so do critical sections, reductions and atomics.
* Task data, nodes and buffers are **blocks of the fast allocator**: whoever frees
  one hands it to the thread that allocated it.

### What is hard about it

Almost all of it is lock-free: a handful of words that several threads read and
compare-and-store, with the reasons for their order in comments. The hard parts
are a value read before and used after somebody else changed it (queuing and
drdpa locks, flag resumption, ICVs in the tree barrier, task teams of threads
cut off a team), sleeping at the wrong moment (flags, futexes, tasking enabled
while a worker suspends), counters that decide who frees what (task data,
dependence nodes, mappings), resources handed on in a ring or to their owner
(loop buffers, blocks of memory), and threads that keep state from a team or a
loop they have left. A test reaches such an interleaving by luck only. The 40
entries of `hazards` place each at its line.

### What makes each component correct

| component | correct when |
|---|---|
| every lock | one holder; a nestable lock is free exactly after as many unsets as sets; the owner checks of the library never fail for a correct program; a lock that is free with somebody waiting does not stay so |
| FIFO locks | and threads get it in the order in which they took their place |
| critical sections | all threads use one lock, however many arrive first, and leave the one they entered |
| flags | a wait ends exactly when the flag was released, a released thread does not sleep on, nobody who is not asleep is woken, the count of active pool threads is the number there are |
| barriers | nobody leaves before all arrived, all leave after; the reduction has every contribution once; every thread has the master's ICVs; at shutdown everybody gets out |
| task teams | no task of a region is unfinished when its threads pass the barrier; nobody sleeps or spins for ever while there are tasks; threads of one team use one task team |
| explicit tasks | each runs once, its data is freed once and when nobody uses it, waits return when the awaited tasks have ended, and always do |
| loops | each iteration is handed out once, to threads, to parts or to tasks; what a thread of a loop uses is there and of that loop; ordered sections and sinks keep their order; everybody gets through |
| dependences | a task runs after, and only after, those it depends on; nodes are freed once, and when nobody has them |
| cancellation | all threads of a team decide alike; nobody cancels what nobody asked for; no request survives into the next construct |
| fork, join, pool | every thread is in one place, a team, the pool or its slot's owner, and the counts of threads say so; a region has as many threads as it asked for and the limits allow |
| memory | buffers tile their pools; a block is held by one user or is on one list; what is handed back reaches its owner |
| atomics | each call takes effect at one moment, on the value the location has then, and returns |
| machine hierarchy | the places that the threads of a team work out for themselves make up one tree, whoever set it up or resized it |
| data mapping | the count of a mapping is the number of regions that hold it; nothing stays mapped or copied out of turn; data ends up as if all regions had run on the host |

## 2 Modules

Abstract specifications say what a user of a component may rely on; the detailed
modules are shown to implement them by a refinement mapping
(`INSTANCE ... WITH` at the end of each detailed module).

```
LockClients   the program that uses a lock: EXTENDed by the lock modules
MutexLock   <--implements--  TasLock           (test-and-set, futex)     \
FifoLock    <--implements--  TicketLock  QueuingLock  DrdpaLock           > UserLock  <- MCUserLock
                             Critical  <-EXTENDS-- UserLock  (sections)  /
Flag        <--implements--  FlagWait          <- what a wait in the two modules below rests on
TeamBarrier <--implements--  Barrier           <- MCBarrier (patterns, bodies)
                             TaskTeam          between the halves of Barrier
                             Tasking           <- MCTasking (programs); its regions end when TaskTeam's do
DepOrder    <--implements--  TaskDeps          <- MCTaskDeps (programs)
                             Dispatch  <-EXTENDS-- Doacross   \
                             StaticSchedule                    >  Loop  <- MCLoop (loops, nests, regions)
                             Cancel                           /
AtomicMemory <-implements--  Atomics           <- MCAtomics (calls, classes)
                             TargetMap         <- MCTargetMap (cases)
                             ForkJoin          \ <- MCForkJoin (settings,
                             Hierarchy         /    machines, teams)
                             Memory            <- MCMemory (scenarios)
TicketLockProofs  EXTENDS TicketLock, TLAPS     \
TasLockProofs     EXTENDS TasLock, TLAPS        /  UserLockProofs  EXTENDS UserLock, TLAPS
FlagWaitProofs    EXTENDS FlagWait, TLAPS
BarrierProofs     EXTENDS Barrier, TLAPS
TaskTeamProofs    EXTENDS TaskTeam, TLAPS
TaskDepsProofs    EXTENDS TaskDeps, TLAPS
LoopProofs        EXTENDS Loop, TLAPS
```

Compositions. `UserLock` puts the five locks and `Critical` behind the table of
functions that the kind of lock selects: the words of a lock are those of the
chosen kind, as in `union kmp_user_lock`. `Loop` is what happens between two
forks outside of tasks: dispatched loops and nests share the ring of buffers
(`Doacross` EXTENDS `Dispatch`); static schedules and cancellation share nothing
with it but the team. The other interactions are assume-guarantee: `FlagWait`
shows that a wait on a flag returns exactly when it was released, so `Barrier`
models a wait as a guard on the flag; `Hierarchy` shows that the threads of a
team see one tree (`TreeSound`), which `Barrier` takes as a constant of its
hierarchical pattern; the lock modules show that a lock is one,
so the atomics and critical sections hold one in a step; `TaskTeam` shows that
the master passes a barrier only when no task of the region is unfinished
(`TasksDone`), so `Tasking`, which also counts the threads off the task team,
ends a region when all have been; `Tasking` shows
that a task that is queued is run (`RegionEnds`), so `TaskDeps` runs what is
queued.

| module | state ↔ code | actions ↔ code |
|---|---|---|
| `MutexLock`, `FifoLock` | holder, nest level, who waits (a set, a queue) | join, be granted, grab without waiting, reenter, leave a level, release; `Granted`: a free lock does not stay free while somebody waits |
| `TicketLock` | `next_ticket`, `now_serving`, `owner_id`, `depth_locked`, `initialized`; `my_ticket` of each caller; `held`, the client's own count | `InitLock`, `DestroyLock`, `SetLock`, `TestLock`, `UnsetLock` call the checked entry points; `Step(t)` is one access to a shared word |
| `QueuingLock` | head, tail, owner and depth per lock; `spin_here`, `next_waiting` per thread; `head`, `tail` are locals | the loop of `__kmp_acquire_queuing_lock_timed_template` and the release, one access each, for several locks at once |
| `DrdpaLock` | `areas` is the heap of polling areas, with the freed ones; `polls`, `mask`, `num_polls`, `old_polls`, `cleanup_ticket` | the polling loop, with its two reads; the holder's resizing and cleanup |
| `TasLock` | `poll` is 0, the owner, or the owner with the bit "sleepers" | the loops of both kinds; `futex_wait` and `futex_wake` are external |
| `Critical` | `crit`, the word of the section: its tag, and the holder or the lock object; `table` and `pool` of objects; `ilk`, the object a thread means to install | `__kmp_init_direct` by compare-and-store, `__kmp_init_indirect_csptr` with its loser, whose object stays unclaimed, enter, leave; a lock of the program that comes and goes in the same pool |
| `Flag` | releases and passes of each flag | wait, release, pass, shutdown |
| `FlagWait` | the flag words with the sleep bit; the mutex, the condition, `th_sleep_loc`, `th_in_pool`, `th_active_in_pool` of one waiter | `__kmp_wait_template`, `__kmp_suspend_template`, `__kmp_resume_template`, `__kmp_release_64`, `__kmp_null_resume_wrapper`, a line or a section under the mutex each |
| `TeamBarrier` | barriers each thread has come to and got past | fork, enter, leave (only when all have entered) |
| `Barrier` | `arrived`, `go` per kind of barrier and thread; `team_arrived`; `icv` and `fixed`; `data`, the reduction as a bag of contributions; `todo`, the threads the loop has not visited | four gathers, four releases, `Master` for what the master does between them, `Fork` with the resizing of the hot team, `Shutdown` and reaping |
| `TaskTeam` | the two task teams (found, unfinished, active, threads seen), which one each thread uses, who still counts, `deque` as a number of tasks | setup, sync, wait, enable and wake, remove, steal, give up, sleep; `Fork` cuts threads off and takes them back, in both hot team modes |
| `Tasking` | `td`: parent, flags, counts, complete, freed of each task; a `stack` of suspended tasks per thread; deques; taskgroups; `outside`, the proxy tasks a foreign thread is to complete; `finished`, the threads counted off the task team | create (defer, or run now when the deque is full, final or if0), remove, steal with the constraint, taskwait, taskgroup, parts of untied tasks, finish and free; proxy tasks run and completed by the team or out of order, in two halves with `__kmp_give_task`; giving up and being woken |
| `Dispatch` | `sh` the ring, `pr` the private buffers, `th_steal_lock`, one record of locals per thread; `handed` and `turn` are history | `__kmp_dispatch_init` for every schedule, `__kmp_dispatch_next` with one step per access to a shared word, stealing over 4 and 8 byte variables, `__kmp_dispatch_finish`, `_deo`, `_dxo` |
| `StaticSchedule` | `part`, what each worker was given | one call of `__kmp_for_static_init`, `__kmp_dist_for_static_init`, `__kmp_team_static_init` per worker, in wrapping arithmetic; `__kmp_taskloop` and its tasks, `_linear` and `_recur` |
| `Doacross` | `ring`, the three doacross fields of the ring's buffers; `arrays`; `mine`, the thread's index, buffer and array | `__kmpc_doacross_init` (claim, allocate or wait), `_wait`, `_post`, `_fini`; the compiler's order of the calls is external |
| `Cancel` | `request`, the barriers each thread has come to, and those opened | `__kmpc_cancel`, `_cancellationpoint`, `_cancel_barrier` with both of its barriers, the reset in `__kmp_barrier` |
| `DepOrder` | what has started and ended, of a program of tasks and waits in order | start when all conflicting ones before have ended, end |
| `TaskDeps` | `node`: counts of predecessors and references, successors, whether its memory is there; `hash` | `__kmp_process_deps` one entry at a time (`Link`, `Enter`; `Skip` for one the filter has made void), `__kmp_check_deps`, `__kmpc_omp_wait_deps`, `__kmp_release_deps` one successor at a time |
| `TargetMap` | `HostDataToTargetMap`, `ShadowPtrMap`, host and device memory; `holds` and `as_if` are what the program is owed | `target_data_begin`, `_end`, `_update`, `target`, an operation under a mutex or a transfer per step, transfers that fail |
| `AtomicMemory` | the location, the call of each thread | start, perform in one step, return |
| `Atomics` | `x`, in two parts for types that are not one word; `holder` of each atomic lock | the five macros families: one locked instruction, compare-and-exchange loop, critical section of a type; both modes |
| `ForkJoin` | one record: slots of `__kmp_threads`, roots, teams with their threads, the pool and its insertion point, the counts | fork, join, serialized fork and join, register and unregister a root, hot teams kept, shrunk and grown, shutdown and reaping, each one critical section of `__kmp_forkjoin_lock` |
| `Hierarchy` | `uninitialized`, `resizing`, `base_num_threads`, `depth`; `tables`, the arrays allocated so far; `bar`, what each thread keeps of its place | `init` by whoever comes first, `resize` an access at a time, `__kmp_get_hierarchy` and what `kmp_barrier.cpp` keeps of it |
| `Memory` | headers and free lists of every pool, `bget_list`, the three kinds of free lists with their links | `bget` in three modes with merging and splitting, `brel`, the list of the owner, `__kmp_fast_allocate` and `_free` with their compare-and-stores, `__kmp_finalize_bget` |

## 3 Conventions

* **Grain.** Every access to a word that another thread writes is a step of its
  own, in the order of the code, and locals carry the values read (`head`,
  `tail`, `poll_val`, `my`). Code under a lock that guards all it touches
  (`th_suspend_mx`, `td_deque_lock`, `__kmp_forkjoin_lock`, the mutexes of
  libomptarget) is one step.
* **Memory** is sequentially consistent. The code runs on x86-64 with fences
  where a store must not pass a load; reorderings of weaker machines are not
  modelled.
* **Clients** follow the rules OpenMP gives them: no unset of a lock that is not
  held, no second set of a simple lock, no destruction of a lock in use,
  iterations within a loop's bounds, data mapped before it is used. `held` is
  what the program knows, `owner_id` and `depth_locked` what the library does.
* **Programs** of tasks, loops, dependences, mappings and regions are elements of
  constant sets; the MC modules list them and say why each is there. What a
  program does not fix (which thread gets there first, where a task is created,
  which transfer fails) is left to the steps.
* **Asserts** and fatal errors of the library are part of the invariants
  (`AssertionsHold`, `NoSpuriousFatal`, the non-negative counts of the types).
* **Bounds** are constants (`Max...`, `Rounds`, `Capacity`, `NumBuffers`, `Size`,
  `Span`, `PoolSize`, `ListLimit`); each stands in a guard of a client's action or
  is a size the code is built with, so that whatever is begun is ended. `AtBound`
  and `Terminated` are the stuttering steps of a program that is through, which
  keeps the check for deadlock meaningful.
* **Widths.** Where the code counts on wrapping or meets the end of a type the
  arithmetic is modulo a constant: `Size` for loop variables (`StaticSchedule`),
  `Span` and `IndexSpan` for the counters of a stealing loop (`Dispatch`), `M` for
  the values of the atomics.
* Threads that stay symmetric are model values; no symmetry set is declared,
  since nearly every passing run checks liveness or a refinement with a liveness
  part.

## 4 Runs

A passing run checks all its properties; the run with a violation shows one
statement of a comment that the code does not keep (section 7).

| run | what it shows | bounds, and why they are enough | states |
|---|---|---|---|
| `user_lock` | whatever the kind: one holder, the structures of that kind are in order, waiters are served as its specification says, a free lock is granted; a critical section has one lock | 3 threads (holder and two waiters, so that order matters), two levels; 6 tickets: two waiters make the area of a drdpa lock grow from one cell to four, and tickets go on past the cleanup; 2 queuing locks, used alone and nested, since they share the threads' fields; 4 lock objects for three threads that install one and a user's lock in the same pool | 523,844 |
| `flag_wait` | no lost wake-up; the sleep bit and `th_sleep_loc` agree; implements `Flag` | one waiter, a `b_go` and a `b_arrived` flag, two rounds each, so that a late releaser meets the *next* sleep; a third thread that pokes; both blocktimes | 140,370 |
| `barrier` | flags in step; reductions exact; ICVs propagated; all reaped; implements `TeamBarrier` | 4 threads with fan-out 2: the least with two levels and an incomplete one; three regions of 3 or 4 threads, so that a thread is cut off and comes back; 5 pairs of patterns; two barriers per region | 210,244 |
| `task_team` | no task is left when the master passes; the count is that of unfinished threads; one team, one task team; the wait ends | 3 threads, 2 regions with one barrier or none: a thread cut off by the second region still steals in the first's task team; 2 tasks | 316,258 |
| `tasking` | task data is freed once and in time; the constraint as coded; waits are sound; every region ends | 3 threads, 4 tasks, deques of 2 places so that they fill, untied tasks of 2 parts; nine programs: tied, untied, final, if0 tasks, a taskgroup, one or several creators, teams of two and three; proxy tasks completed by a thread of the team or by another | 485,454 |
| `loops` | each iteration once; what a thread works on is there; static parts and tasks of taskloops partition; order is kept; cancellation stays where it was asked for; all get through | teams of 1 to 3 threads, up to 18 iterations, a ring of two buffers and up to three loops, so that a buffer is reused while somebody is late; loop variables of 6 bits, signed, so that bounds meet the ends of the type; nests of one to three dimensions | 162,033 |
| `task_deps` | a task is queued once and after those it depends on; nodes are freed with the last reference; implements `DepOrder`; all run | 3 threads: a creator and two that release; 3 or 4 tasks and waits over one or two addresses, in every combination of in and out that differs | 239,478 |
| `wait_deps_frame` | the finding of section 7 | the same | |
| `target_map` | counts are exact; nothing is left mapped; data ends as on the host | six programs of 3 threads, up to seven calls each: the same scalar or struct mapped by all, a struct with a pointer and what it points to with updates between, data that is deleted or associated, private arrays; two with up to three transfers that fail | 558,455 |
| `atomics` | implements `AtomicMemory`, in safety and in that each call returns | 3 threads of a call each, so that one is disturbed twice by others; every class of type, both modes; values modulo 4, so that sums wrap | 300,653 |
| `fork_join` | every thread is in one place and counted; regions are left alone and within limits; the machine hierarchy is one tree | 4 slots of which 2 at first, so that the table grows; levels of nesting 2, requests up to 3, 2 roots that compete; both hot team modes and 0, 1, 2 levels of hot teams. Teams of 2 to 6 on machines of 2 leaves per parent: levels are added within the arrays and beyond them, and narrowed | 217,455 |
| `memory` | pools stay tiled, recombined and listed; no block is lost or given twice | pools that hold two or three blocks, two pools, three blocks of two sizes, the three modes of search; lists of two blocks, three threads, so that one is full while another hands over | 260,530 |

`CHECK_DEADLOCK FALSE` stands in eight of the configurations of passing runs,
where the program is through with all it was given (`MCFlagWait`, `MCLoop`,
`MCTaskDeps`, `MCTargetMap`, `MCAtomics`, `MCForkJoin`, `MCMemory`) or, in
`MCUserLock`, also where a lock has been destroyed or a ticket bound is reached.
In `MCLoop`, `MCTaskDeps`, `MCAtomics` and `MCUserLock` a liveness property says
that nobody is left waiting then.

### What the less obvious properties say

* `ImplementsLock` (locks): taking a ticket, or the successful compare-and-store
  on the tail, is joining a queue, and the lock goes to its head. It covers
  barging, overtaking and a lost waiter; `LockGranted` adds the lock nobody gets
  any more.
* `LocalSpinSound`: for the queuing lock, starting from `head_id` and following
  `th_next_waiting` one meets exactly the threads that have taken their place
  and not yet the lock, once each, the last being `tail_id`; for the drdpa lock,
  while its area grows, a waiter indexes the polling area it dereferenced within
  its size and before it is freed, and every area but the present and one old
  one has been freed.
* `TicketSound`, `TasSound`: mutual exclusion, the library's owner checks and the
  depth; and, if a thread sleeps in the kernel on a futex lock, the word says so,
  or a thread is under way that will wake or mark it.
* `CriticalSound`: whoever arrives first, all threads enter by one lock, and no
  lock object has two users, the program's own lock and those still to be installed
  or pooled among them; the lock the word names is held by the thread inside and by
  nobody else, so a thread that leaves releases the lock it entered by. This is for
  hints that match the default lock: both direct (test-and-set, futex), or both
  indirect. The others are in section 7.
* `NoLostWakeup`: a thread that is asleep though its flag was released has a
  resumer that has not yet had its mutex, or holds it and is about to signal.
  `SleepStateExact`: who holds the mutex may trust the bit and `th_sleep_loc`,
  and the count of active threads in the pool is the number of them.
* `FlagsInStep`: counts of arrivals per thread and per team agree whenever a
  barrier may begin, also for threads that sat out some regions; `b_go` is set
  only for a thread that waits for it.
* `ReductionExact`: after the gather the master's data holds each member's
  contribution exactly once, whichever tree, and for split reductions too.
  `IcvsPropagated`: a member has the ICVs of the fork even though the master may
  by then have changed its own.
* `CountExact`: `tt_unfinished_threads` counts the members that have not given
  up, and the stragglers that were cut off and still steal. `SameTaskTeam`:
  members come to a barrier with the task team their master will wait for.
* `TaskDataExact`: the two counts of a task are those of its unfinished children
  (and of the imaginary one of a proxy that is half completed) and of its unfreed
  ones; whoever is on a stack, in a deque, outside, or has a child not yet freed
  is not freed. `SchedulingConstraint`: a tied task is begun at a wait only if it
  descends from the task below it on the stack (what the code checks).
  `WaitsSound`, `RegionEnds`: waits return when the awaited tasks have ended, and
  neither the constraint nor a late proxy makes a region hang.
* `SharedThere`: a thread that reads or writes a shared buffer does so in the
  buffer of its own loop, a stealing thread finds the locks of its victims, and
  the flags of a nest are freed once, after everybody.
  `PartsPartition`: no iteration is given twice or to nobody, none outside the
  loop, and exactly one worker has the last one, even where `ub + st` would wrap.
* `CancelSound`: no later construct is found cancelled, no request of another kind
  is found, and a thread that was told so finds the request at its own point.
* `QueuedOnce`, `ReferencesExact`: a task is queued by the one who takes its count
  to zero, the creator or one of its predecessors; its node's count is the
  number of places that refer to it (hash, lists of successors, its task).
* `RefsExact`: the count of a mapping is what the regions that use it are owed,
  also after one of them failed half-way. `AsOnHost`: the host's memory, pointers
  included, ends as if all regions had run there.
* `ImplementsMemory`: a call reads, computes and writes in one step of the
  abstract location, though the code reads, computes and then tries.
* `Accounted`: the sorted pool, the teams, the slots and all the counts agree.
  `RegionsKept`: a step takes threads out of one region at most, and never out of
  one that goes on; no region exceeds what the device and its root allow.
* `TreeSound`: the places threads work out from whatever they read of the
  hierarchy make each thread but the master gathered once, by its parent.
* `MemoryExact`: buffers and free buffers tile each pool, neighbours are never
  both free, each free one is on the list of its size; a block is in one place
  (its user, a list, under way) and the lists handed over have the length they
  say.

## 5 Fairness

* **Locks.** `WF` of each thread's step in the code of the lock: the operating
  system runs every thread. Nothing is assumed of the program; a holder need
  never unset. So the liveness promised is that a free lock is granted, not
  starvation freedom, which the order adds for the FIFO kinds.
* **FlagWait.** Weak fairness of the waiter and each resumer, and strong fairness
  of taking `th_suspend_mx`: both sides may take it again and again, and a
  thread that keeps asking for a pthread mutex gets it sometime. Spurious
  returns of `pthread_cond_wait`, pokes and pool changes have none.
* **Barrier.** Weak fairness inside barriers and of the master between gather
  and release. The program need not come to its next barrier.
* **TaskTeam.** The same, tasks end, and strong fairness of the master's waking
  a victim: it picks victims at random for as long as it waits, and one that
  sleeps is met in the end.
* **Tasking.** Something happens as long as anything can (`WF(Next)`). Spinning
  is a step that changes nothing, and a region has finitely many others, so this
  is no more than that threads run, user code ends, and whoever is to complete a
  proxy task does so.
* **Loop.** The team runs as long as one of its threads can
  (`WF(Running)`): a waiting thread has nothing else to do, and every retry of a
  compare-and-store answers a step of another.
* **TaskDeps.** `WF(Create)`, and `WF(Execute(t))` for each thread: programs are
  finite, and threads that have nothing to do take what is queued.
* **Atomics.** `WF` of each thread's step; a program makes finitely many calls,
  which is what lets a compare-and-exchange loop end.
* **TargetMap, ForkJoin, Hierarchy, Memory** are checked for safety only. What
  could fail to end in `Hierarchy` does (section 7).

## 6 Proofs

Proved for every value of the constants (threads, simple and nestable locks,
nest levels, tickets; flags, resumers, rounds; kinds of critical sections; size of
the hot team, regions, barriers in a region, pairs of patterns; tasks; programs of
tasks and waits with dependences, and teams that run them; teams and regions with
cancellation; rings of any number of buffers, loops of any schedule, and nests). The assumptions are
those on the constants: `ClientAssumption` for everything about locks, alone and
composed (`HintAssumption`, what a hint can map to, no proof needs);
`FlagAssumption` for the flags, `BarrierAssumption` and
`TreesAssumption` for the barriers, `TaskTeamAssumption` for the task teams, and
`DepAssumption` for the dependences: a program is a sequence of tasks and waits
with sequences of addresses, none of them zero, which the code takes for a void
entry, and the creator is a thread of a finite team; `CancelAssumption` for
cancellation; `DispatchAssumption` and `DoacrossAssumption` for loops and nests,
which say no more than what the constants are.
Four have one more, without which they are false, as section 7 shows:
`CriticalLeaves`, that the two locks of each use of a section match (`Matching`,
which TLC evaluates for the run's as `UsesMatch`): both are direct, or both indirect;
those about task teams, that hot teams keep no reserve (`HotTeamsMode = 0`, the
default of `KMP_HOT_TEAMS_MODE`); `LoopCancel`, that the regions are `Orderly`;
and `LoopShared`, that they are `Apart`: the indices of a region's loops do not
wrap, and no loop with stealing over 8 byte variables comes straight after a
`nowait` loop. TLC evaluates the last two for the regions of the run
(`RegionsOrderly`, `RegionsApart`).

| theorem | says |
|---|---|
| `TicketMutualExclusion` | `Spec => []MutualExclusion` |
| `TicketOrder` | who is let in has a lower ticket than everybody who goes on waiting |
| `TicketNoSpuriousFatal` | `Spec => []NoSpuriousFatal`: the owner checks of the checked entry points never fail for a program that follows the rules |
| `TicketDepth` | `Spec => []DepthIsHeld` |
| `TasOwnership` | `Spec => []OwnershipExact`: `poll` names the holder, and the depth is its number of sets |
| `TasMutualExclusion` | two threads are never inside together |
| `TasSleepers` | `Spec => []SleepersRemembered`: nobody sleeps on a futex without somebody bound to wake or mark |
| `TicketTypeCorrect`, `TasTypeCorrect` | `Spec => []TypeOK` |
| `UserTicket`, `UserTas` | `Spec => []TicketSound`, `Spec => []TasSound` for the lock behind the table of functions, which may be of any kind: what the run `user_lock` checks for three threads |
| `CriticalOneLock`, `CriticalLeaves`, `UserCritical` | `CriticalSpec => []OneLock`, `CriticalSpec => []LeavingReleases`: all threads that enter a critical section enter by one lock, which has no other user; that lock is held by the thread inside and by nobody else, and leaving releases it, if hint and default lock match; the same inside `UserLock` (`CriticalSound`) |
| `FlagNoLostWakeup` | `Spec => []NoLostWakeup`: a thread that sleeps on a released flag is about to be woken |
| `TicketImplements`, `UserTicketIsFifo` | `Spec => F!Safety`: each step of the ticket lock is one of `FifoLock`, alone and behind the table of functions (`TicketIsFifo`, a part of `ImplementsLock`) |
| `TasImplements`, `UserTasIsMutex` | `Spec => M!Safety`: the same of test-and-set and futex locks and `MutexLock` |
| `FlagImplements` | `Spec => Promise!Spec`: each step of a wait and of the releases is one of `Flag` |
| `BarrierFlags` | `Spec => []FlagsInStep` |
| `BarrierReduction` | `Spec => []ReductionExact` |
| `BarrierIcvs` | `Spec => []IcvsPropagated` |
| `BarrierImplements` | `Spec => Team!Spec`: each step of a barrier is one of `TeamBarrier`, nobody gets past before all have come |
| `TaskTeamDone` | `Spec => []TasksDone`: when the master is past a barrier, no task created before it is left, queued or running |
| `TaskTeamCount` | `Spec => []CountExact`: `tt_unfinished_threads` is at all times the number of members that have not finished plus that of the threads which steal without being due |
| `TaskTeamShared` | `Spec => []SameTaskTeam`: members come to a barrier with the task team their master waits for |
| `DepsQueuedOnce` | `DepSpec => []QueuedOnce`: of the creator and the threads that count a task down one queues it, and a wait nobody |
| `DepsReferencesExact` | `DepSpec => []ReferencesExact`: a node counts the references to it, is there as long as there is one and freed with the last |
| `DepsOrder` | `DepSpec => ImplementsOrder`: each step is one of `DepOrder`; what starts comes after all earlier members of the program that conflict with it |
| `LoopCancel` | `LoopSpec => []CancelSound`: nobody cancels what nobody asked for, nobody works on a part whose end another thread has passed, and no assertion about the kind of a request fails |
| `LoopShared` | `LoopSpec => []SharedThere`: the buffer a thread works on is that of its loop, the locks of those it steals from are there, the flags of a nest are there while a thread of it uses them, and freed once |
| `FlagSleepState` | `Spec => []SleepStateExact`: sleep bit, `th_sleep_loc` and the count of active pool threads are right |

**Ticket lock.** Mutual exclusion is not inductive: it speaks of threads inside,
while what keeps a second one out is which tickets are out and which is served.
The inductive invariant `IInv` is `TypeOK`, `Tickets` (`MutualExclusion`,
`Serving`, `Waiting`, `Testing`) and `Ownership` (`Owner`, `Depth`, `Unused`):

* `Waiting`: a waiter's ticket lies in `now_serving .. next_ticket - 1`, and no
  two waiters have the same; while somebody is inside, no waiter has the ticket
  being served. So at most one waiter is let in, and only into an empty lock.
* `Serving`: `now_serving <= next_ticket`, strictly with somebody inside.
* `Testing`: a tester remembers a value of `next_ticket` that was being served
  once, so it is at most `now_serving`; its compare-and-store succeeds only if
  `next_ticket` is still that number, and then nobody is inside or waits.
* `Owner`, `Depth`, `Unused`: `owner_id` and `depth_locked` follow the holder at
  every point of its program, and an uninitialized lock has no callers.

**Test-and-set and futex lock.** The ownership half, `Owned`, is inductive by
itself: `OwnershipExact` with `Locals` (a thread about to set the bit saw a held
word without it; one about to sleep saw the bit) and `Depth`. The lemmas
`CodeNames` and `WordNames` turn the arithmetic of the word (twice the thread's
number, plus the bit) into names. `SleepersRemembered` needs `Owned` in each
step: the word gets the bit only beside a holder, so the release that takes it
away wakes; the thread that is woken carries the bit on (`Minder`), and leaves
it in the word when it gets the lock. `MindersStay` is the common argument of
all steps that neither put a thread to sleep nor take the bit away.

In each module each action has its lemma (`...Keeps`), `NextPreserves` or
`NextKeepsOwned` and `NextKeepsSleepers` combine them, and
`Invariance == Spec => []IInv` gives the theorems.

**User lock.** The kind is chosen once, so a behaviour of `UserLock` with that
kind is one of the module of the kind, and the variables of the others stand
still. The inductive invariant is "if the kind is this one, then its `IInv`";
initial states and steps are mapped to those of the instance, whose step lemmas
are cited.

**Critical sections.** That the section's lock has no other user says nothing
of a thread that has an object in its hand and has not yet tried to install it.
`Claims` covers it: the objects of the section, of the program's lock, in a
thread's hand and in the pool are all different, each thread's and each place's
of the pool too. `Kinds` says that the word of the section is of the kind its
hint asks for, and installed wherever a thread is about to set it or to leave;
`Held` that a thread inside holds what the word names. That nobody else holds it
(`LeavingReleases`) is not a consequence: the object a thread installs becomes the
section's lock at that moment, and has to be free. `Spare` says so of all objects in
hand and in the pool; it lasts because only the section's and the program's lock are
ever set, and by `Claims` they are none of these. `EndLeaves` is where the kinds
matter: by `Kinds` the word is what the hint asks for, and the release takes it for
what the default lock is.

**Flags.** `NoLostWakeup` is a case distinction that a step leaves in the middle,
so the invariant has to know the whole protocol. `Words`: a word is the bumps of
the releases not yet reset, plus the sleep bit, which is what makes a comparison
with the awaited value say "released, and nobody marked" (`Matches`). `Waits`,
`Resumes`: where the waiter and each resumer hold the mutex and on which flag.
`Bits`, `Locs`: the bit is on one flag at most, the one waited on, and
`th_sleep_loc` names it whenever nobody holds the mutex, with the two moments at
which the holder is between them named exactly; this is why a flag that a poker
finds there, with the mutex in hand, is that of a thread that still waits.
`Counted`: the pool's count is one or nothing. `Woken` extends `NoLostWakeup` to
every place between setting the bit and waking up: a release that came after the
bit was set is on its way to find it, and one that came before was in the old
value that `SetSleeping` looks at.

`FlagImplements` needs little more: a wait returns on its own flag, and a flag is
released again only after it was passed, which `Waits` and `Resumes` say.

**The locks as abstract locks.** The ticket lock has no queue; the tickets that
are out and not yet served are one, if each has its waiter (`Covered`): `Queue`,
the mapping to `FifoLock`, has at each place the waiter with that ticket, and
`LineIsQueue` shows it to be a sequence of the waiters. Then taking a ticket
appends to it, and who sees its ticket served is its head. The lemmas `...Seen`
map each action to its abstract one. Levels need `Counts`: a thread about to
release has one set left, and a simple lock is set once. The test-and-set lock
needs only the holder and `Counts`: who waits is a set.

**Barriers.** A barrier goes right because every thread below has come when a
thread reports, and waits when it is released; both follow a tree, and the trees
differ. What all have in common is `TreesSpan`: each worker is named once, below
a thread with a smaller number. The proofs take that as their assumption on the
patterns (`TreesAssumption`), since the trees are built by folds over levels;
TLC evaluates it for the teams of the run and, in `MCBarrier`
(`TreesOfOtherTeams`), for all teams of 2 to 14 threads with fan-outs of 2 to 4
and four shapes of the hierarchy. From it follows by the least thread that would
be missed (`TreeReachesAll`) that the master, who has everybody below it, goes
on only when all have come.

The inductive invariant has one part per question. `Position` is where the
members can be when the master is at barrier `Past`, and that the threads cut
off the team wait at a join; `Sized`, that they know the team's size and its
count of arrivals; `Arrivals`, `Gos`, that the flags are in step with those
positions; `Gathering`, `Releasing`, what a thread that is in the middle of its
tree may conclude of its children; `Reaping` replaces all of it after the
shutdown. For the reduction, `Shares` says where each contribution is: with the
thread that has not reported, or once in what its parent has. What lies below a
thread is not defined by recursion but as the least set with the thread and
everybody's children (`Below`), of which the lemmas show that children's are
disjoint and make up the parent's. For the ICVs, `OnTheWay` says of each pattern
where those of the fork are before a thread has them: stored by the master,
pushed before the child is let go, or to be pulled from the parent after.

**Task teams.** The master waits until a count is zero, and the claim is about
tasks; what joins them is that a thread with tasks is counted. Neither that nor
`CountExact` is inductive: a worker may take the state of its task team over long
after the master has gone on, and threads that a smaller team has left behind go
on looking for tasks. `IInv` names things relative to the master. `Cur` is the
task team of the barrier to come and `Other` the one of the barrier before; a
thread is `On` the first once it has left the last barrier, and `Behind` until
then. The parts:

* `Places`: every member is one or the other, a released flag is that of a member
  behind, and the arrivals are those of the barrier to come.
* `OwnTeams`: a thread that is on has `th_task_state` and `th_task_team` of `Cur`;
  one that is not has those of `Other` or none, so that what it still steals, it
  steals as one that is not due.
* `Teams`: `Other` is closed, no deque of it has a task and those who still look at
  it have counted themselves off; it is made ready before it is needed.
* `Counted`: the count of `Cur` is `Due` plus `Thieves`, which is `CountExact` in
  these terms; `Queues`: a deque with tasks belongs to a thread that has not
  counted itself off; `Locks`: one thief at a deque, and only while it has tasks.
* `Children`: `td_incomplete_child_tasks` of an implicit task is the number of its
  children in deques and in hands, so that taking one from it never wraps.
* `Left`: what is left was created in the present stretch, by a thread that is on.
  With `Children`: a thread that is not on has no children (`Childless`), so when
  it finds no more to steal it does count itself off (2257), and none leaves
  `Thieves` without that.

Then a zero count leaves nobody due and no thief, so no deque has a task and
nobody runs one; that is what the next barrier needs when it goes over to the other
task team (`PassKeeps`, `Emptied`). The lemmas `Pushed`, `Popped`, `Shifted`
and `Stolen` say what a step does to the children in the deques. `IInv` itself was
checked by TLC under the constants of the run before it was proved.

**Task dependences.** A task is linked only to those that the hash has at its
address, the readers since the last writer or that writer, while `DepOrder`
speaks of all earlier members it conflicts with; and the links are counted down
while they are still being made. The parts of `IInv`:

* `Types`, `Place`, `Nodes`, `Runs`: where the creator and the threads are, and
  what that says of the members. A node's `task` is set from `SetTask` until its
  task is marked finished, and a node without it has no successors: this is what
  makes a look at `dn.task` under the lock of the node enough.
* `Counted`: a node's count is `Open`, the links to it that nobody has counted
  down yet, whether in the list of a node or in the hands of a releasing thread;
  as long as the creator is at it (`Linking`) less what it has found, and one. So
  the count cannot come to zero before `Account`, and exactly one step takes it
  there.
* `Once`: whoever is to queue a task, the creator or the thread with `Offers`,
  is alone, the task has not started, and no link to it is open.
* `Referred`: `nrefs` is the number of places (`Places`, of which the lemmas count
  what a step adds and takes away) in the hash, in the lists and in the hands of
  threads, plus the node's own reference.
* `Hash`: every member that was entered at an address and has not ended is
  `Known` there: it is the last writer, comes before that writer, or is a reader
  since. With a wait, which leaves no writer behind, it is below the wait.
* `Covered`: all that a member conflicts with has ended or is `Below` a node it is
  linked behind, or will be when `todo` is done. `Below` goes two levels down,
  to what a node has to wait for and what those have to: the second level is what
  a wait leads through, since no node is ever linked behind that of a wait.
* `Ordered`: what has started has nothing before it that has not ended. Then a
  node that ends takes all that is below it along (`Covered` is kept when a link
  is counted down), and a node with no open link may start.

`Types` to `Ordered` were checked by TLC under the constants of the run before
they were proved. `ReadyEnded` is the step from `Covered` to `DepOrder`'s guard;
`DepsOrder` is all of `ImplementsOrder`, which is safety only.

**Cancellation.** One word stands for all the requests of a region, so the claim is
about when it is looked at: a thread that is slow to leave a barrier looks at it
while others are in the next part. The inductive invariant says that the whole
team is at one stage. `AtPart(n)`: each thread is `Late` (behind the barrier that
ends part n - 1, which is open), `In` part n up to its own barrier, or `Gone` when
there is no such part; a pending request is of the kind of part n and was asked for
there (`Request`), and whoever knows it from a query is in that part (`SeenIn`).
`AtCancelled(n)`: the cancel barrier of part n has opened over a request to cancel
the region, and nobody gets past the second barrier before all have seen it.
`AtEnd`: that one has opened, and nobody works. When the barrier of part n opens,
all are behind it, so those who were late at n - 1 have looked, and `ClearRequest`
or the second barrier takes the request away before the next part can ask again;
but a late thread at a cancel barrier may see one of the next part, which is why
`Orderly` wants none there. A team of one passes its barriers without any reset,
and has stages of its own (`AtPartAlone`, `AtEndAlone`). `Joins` says that the join
barrier is the threads' own, so that the next run finds all at the end. `IInv` was
checked by TLC on 900 orderly regions of one to three threads.

**The ring of buffers.** A buffer serves the loops `k`, `k + NumBuffers`, and so on;
who comes early waits (`await_buffer`), and the last through a loop hands its
buffer on. `RingInv` has these parts beside the types:

* `Turning`, of each buffer: its index is of its place, no thread is past the loop a
  round later, and `num_done` counts those who are past the loop whose buffer it
  is. When that comes to the size of the team there is one `Finisher`, all are past,
  and it resets the count and then moves the index on: between these two steps
  nobody else can count. `InBuffer` says which buffer a thread has in its hands, and
  that from getting through the wait until it has counted itself it is of its loop.
* `Located`: the index a thread has taken is that of its loop, and the plan in its
  private buffer is that of the loop, so that it steals only where the loop does.
* `Locked`, of a loop with stealing over 8 byte variables: nobody has come to it
  while others are still in a loop before it; and who has come
  has its lock until all are past. `Apart` is what makes the first half inductive;
  with it the thread that destroys the locks of all (2316) destroys none of the next
  loop.
* `Robbing`: the victim a thread is about to rob has come to the loop. A thread only
  chooses one that has a current buffer, and by `Locked` that is not one of an
  earlier loop, whose counter might be that of the round before: the second thing
  `Apart` is needed for.

All steps of a loop that leave the ring alone, whatever the schedule, are of the
form `Works`, for which one lemma keeps the invariant (`ByOne` is a team of one,
which has no shared buffer). A nest has its own half, `NestInv`, with the same
argument for its fields of the ring (`HasBuffer`, `HandsOn`). `SeesFlags`: one thread
is between claiming the flags and storing them, and who iterates has the pointer in the
buffer. `PointsRight` and `Reached`: a pointer is to a living array of the nest and
of its size, and each living array is pointed to, so that the one who frees it frees
the last reference and none is lost. Both were checked by TLC before they were
proved, `NestInv` on all nests of the run and `RingInv` on 2.4 million states.

**Only model-checked**: the other modules; every liveness property, and of the
refinements the liveness halves (liveness under fairness and `ENABLED` are
beyond the proof system), so that `ImplementsTeamBarrier` and `ImplementsFlag`
are proved as far as they are about safety; of `ImplementsLock`, the queuing and
drdpa locks. What a recursive operator computes for every argument cannot be
proved, since the induction theorems of the library take an operator as a
parameter; where a proof needs induction it takes the least element of a set of
numbers (`LeastNumber`), which exists because the subsets of a finite set are
well-founded under inclusion.

## 7 Findings

The run `wait_deps_frame` shows, on `kmp_taskdeps.cpp:421`, that
`__kmpc_omp_wait_deps` returns as soon as its count is zero while the task that
took it there is still going to read its node, a local variable of the wait
(`FrameThere`; 417 and 610).

One configuration beside the runs shows one more statement that does not hold;
`tlc -config <cfg> <module>` gives the behaviour.

| configuration | property | what happens |
|---|---|---|
| `MCLoopStealNowait` | `LocksThere` | `kmp_dispatch.cpp:2316`: of two `nowait` stealing loops the last thread of the first destroys `th_steal_lock` of every thread, also of one that is in the second |

Others have definitions but no configuration; the change that shows each is:

* **Barriers**, `MCBarrier.cfg` with `SPECIFICATION Spec`, `Patterns <- MCTree`,
  `Bodies <- MCPlain`, `BodyLength = 1`, `MaxRegions = 1` and
  `IcvsPropagatedByTree`: inner threads of the tree copy the master's ICVs to
  their children when they get to it (`kmp_barrier.cpp:439`), while the master
  may already be running and change them. The hyper and hierarchical releases
  keep a copy for that.
* **Task teams**, `MCTaskTeam.cfg` with `HotTeamsMode = 1`: `TasksDone` fails.
  A reserve thread that looks for tasks counts itself off the task team of the
  smaller team (`kmp_runtime.cpp:4955`), and the master leaves the barrier with a
  task running. `SameTaskTeam` and `CountExact` fail as well (5100: the old size
  is read after it was changed).
* **Machine hierarchy**, `MCForkJoin.cfg` with `ResizingHeld`
  ("0=not resizing, 1=resizing", `kmp_affinity.h:663`): a thread that comes to
  resize just after another takes the right, sees that nothing is to be done and
  returns at 785 without giving it back; the next larger team spins for ever.
  With `HierScenarios <- NestedGrowing`, `TreeSound` fails: a small team reads
  the hierarchy while a larger one gets new arrays (808-826).
* **Cancellation**, `MCLoop.cfg` with `Regions <- NowaitStealing`, `StaticLoops = {}`,
  `Nests = {}` and `Cancellations <- AgainAtOnce`: `AllEnd` fails
  (`kmp_cancel.cpp:222`). A thread that has passed the reset cancels the next
  construct before another one has reset the first's request. With
  `Cancellations <- AloneInTurn`, the pattern of
  `test/misc_bugs/cancellation_for_sections.c`, `CancelSound` fails too. These regions are not `Orderly`.
* **Stealing**, `MCLoop.cfg` with `Regions <- StaleCounter`, `StaticLoops = {}`,
  `Nests = {}` and `Cancellations = {}`: `SharedThere` and `IterationsOnce` fail.
  `static_steal_counter` is there so that a thief does not take a thread that is not
  yet in the loop for a victim (comment at `kmp_dispatch.cpp:1220`), but it belongs to
  a place in the ring and is not reset when another kind of loop uses the place. A
  thief looks at a thread that is still in a `nowait` dynamic loop, finds the value
  of the stealing loop a round earlier (1617, 1718), and robs what that loop left.
  Such regions, and `NowaitStealing`, are not `Apart`.
* **DRDPA lock**, `MCUserLock.cfg` with `Drdpa!CellsInBounds` and `MaxTicket = 7`:
  waiters read `mask` before `polls` so that they never use a new mask with an
  old pointer (`kmp_lock.cpp:2331`). That protects growing areas; when the
  machine becomes oversubscribed the area shrinks to one cell, which a waiter
  between its two reads indexes with the old mask.
* **Critical sections**, `MCUserLock.cfg` with `CriticalUses <- OtherKind`: a section
  with a hint is entered by its own kind of lock and left by the default's, so
  `LeavingReleases`, a part of `CriticalSound`, fails for each of the three uses
  ("releasing any lock that was held during its execution", `kmp_csupport.cpp:1250`).
  An indirect default follows a direct word as a pointer (1282). A test-and-set
  default stores to the word, which is a pointer (1270). A futex default calls the
  function of its tag (1278), which is 0 for a pointer:
  `__kmp_unset_indirect_lock` (`kmp_lock.cpp:3174`) takes its low 32 bits for an
  index of the lock table, since `OMP_LOCK_T_SIZE` is that of an `int`
  (`kmp_lock.h:56`, 1264). The entry avoids that by a branch of its own ("lock table
  is not used", `kmp_csupport.cpp:1198`).
* **Tasking**, `TaskSchedulingConstraint` (`kmp_tasking.cpp:1919`): the code
  compares a candidate with the current task only; with an untied task in
  between, a tied task is begun that does not descend from a suspended tied one.
  `NoBottomHalfLeft` (comment 3061-3065): with proxy tasks of the implicit task,
  data of a proxy that is completed late is still there after the barrier.
  `WaitsSound` with `Programs <- NestedProxies`: a proxy created by an explicit
  task can outlive its region, which asks only for the children of the implicit
  task (2253-2258; compare `test/tasking/bug_nested_proxy_task.c`).
* **Data mapping**, `MCTargetMap.cfg` with `ZeroMeansTransferred` instead of its
  invariants ("returns 0 if it was able to transfer the execution",
  `omptarget.cpp:1977`): when the copy back fails after the region has run, the
  call returns a failure, and the program runs the region again on the host.
* **Memory**, `MCMemory.cfg` with `Scenarios <- MCRoot` and `OwnersThere`: a list
  gathered of another thread's blocks is handed back after that thread (a root)
  has ended (`kmp_alloc.cpp:1826`). With `MCLastPool` and `LastPoolThere`: the
  blocks released when a thread ends may give back its last pool, at which
  `__kmp_finalize_bget` then looks (1892).

Seen by reading, and outside the models or their bounds:

* Threads and teams: in mode 1 `__kmp_reset_root` frees `t_nproc` threads and
  loses the reserve (against the comment at `kmp_runtime.cpp:5320`), and at the
  limit of threads the reserve counts in `__kmp_nth` but only `t_nproc` is
  subtracted; with two levels of hot teams the nested team of a worker in the
  pool is never freed. `Accounted` is stated for what is left. A thread cut off
  the team may still steal a task of a later barrier, which the comment at
  `kmp_tasking.cpp:2275` rules out; the count survives it.
* Loops: a cancellation of another kind that is pending reaches `KMP_ASSERT(0)`;
  `th_doacross_info` shares a word with `th_steal_lock` (`kmp.h:1672`);
  `doacross_num_done` has 32 bits and is incremented by a 64-bit operation
  (`kmp_csupport.cpp:3304`); the debug assertion of a taskloop on `upper + st`
  is unsigned and fails for loops that count down to zero, and a taskloop of no
  trips returns with its taskgroup open (`kmp_tasking.cpp:3566`).
* The hierarchy: `skip_per_level` of another kind of barrier keeps pointing to
  arrays that `resize` has freed.
* Atomics: a minimum or maximum that has nothing to do returns `rhs` instead of
  the old value when captured by compare-and-exchange, and an uninitialized one
  under a lock (`kmp_atomic.cpp:2561`); a `_Quad` is compared outside of the
  lock; some types are guarded by one means for one operation and by another
  for the next (`cmplx4`, the sized 16-byte entries).
* libomptarget: a failed submission in begin still copies back in end; `IsLast`
  is decided, then the lock given up, then used; a zero-length section drops a
  reference it never took; `InitLibrary` indexes a table before its bounds are
  checked; `loopTripCnt` is shared by all threads.

## 8 Not modelled

* **Hardware transactions** of the speculative locks: an abort undoes memory,
  which a model at this level would have to invent.
* **Entry points** (`kmp_csupport.cpp`, `kmp_gsupport.cpp`, `kmp_ftn_*`): mostly
  calls of the parts that are modelled; those that keep state (critical sections,
  doacross, static loops) are in.
* **Settings, messages, strings, environment, topology, binding, statistics, tools
  and debugger interfaces, threadprivate tables, tests**: sequential, under one
  lock, or observers.
* **Workqueuing** is superseded by tasks. **Plugins and device runtimes** are calls
  of drivers, and code that runs in warps on a GPU. **liboffload** is another
  library on top of one that is not in the repository.
* **On-core release** of the hierarchical barrier (infinite blocktime): leaves
  wait on a byte of their parent's word; `Barrier` has the other release of that
  pattern.
* Within modelled parts: serialized teams' tasks, cancelled task groups,
  dependences of proxy tasks and task reductions; nested teams in `Barrier` and
  `TaskTeam` (`ForkJoin` has them); growth of a deque that another thread gives a
  proxy to; the teams construct and load-dependent team sizes; registration of
  device libraries and device pointers returned to the caller; buffers larger
  than a pool.
* Everywhere: weak memory; the wrap-around of 32-bit tickets and 64-bit arrival
  counts (a stale value would have to come round in full, 2^32 tickets or 2^62
  barriers, between two accesses of one thread), and of `buffer_index` with a
  ring whose size does not divide 2^32; Windows and the monitor thread's timing,
  of which only "the blocktime is over" at any time is left.
* One hazard has no property: `omptarget.cpp:1555`, a mapping that is visible
  before its data has been copied. A second thread computes on the old contents;
  OpenMP leaves it to the program to order such regions, so `AsOnHost` speaks of
  data that is not shared.

## 9 What could follow

* Proofs: `QueueWellFormed` of the queuing lock (the token that is handed on: one
  thread is inside, or has been told and not yet seen it); safety of the drdpa
  lock while it grows; `FifoLock` implements `MutexLock`; `PartsPartition` as a
  lemma about integers; `CountsExact` of `Tasking`; the counts of `TargetMap`.
* Models: nested teams in `Barrier` (the stack of `th_task_state`), the on-core
  release, cancelled task groups, the registration of device libraries.
