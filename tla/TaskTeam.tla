------------------------------- MODULE TaskTeam -------------------------------
(***************************************************************************)
(* The task teams of runtime/src/kmp_tasking.cpp: how the threads of a     *)
(* team run explicit tasks while they wait at a barrier, and how the       *)
(* master learns that none is left.                                        *)
(*                                                                         *)
(* A team has two task teams, used by turns: a barrier ends on the one the *)
(* team is on while the other is made ready, and each thread goes over     *)
(* when it is released (th_task_state is the one it is on).  A task team   *)
(* counts its unfinished threads: a thread in the last wait of a barrier   *)
(* that finds no task takes itself off, a thread that steals puts itself   *)
(* on again, and the master, which has gathered everybody, waits for zero. *)
(*                                                                         *)
(* The barrier is the one of module Barrier, here in two steps: everybody  *)
(* has reported, everybody is released.  What a task is, beyond its        *)
(* parent's count of children, is left to module Tasking.                  *)
(***************************************************************************)
EXTENDS Integers, Sequences, FiniteSets, SequencesExt

CONSTANTS N,            \* threads: 0 .. N-1, the master is 0
          Sizes,        \* sizes a parallel region may ask for
          Bodies,       \* how many plain barriers a region may have
          HotTeamsMode, \* 0: threads cut off a team go to the pool, 1: stay
          MaxRegions, MaxTasks  \* bounds

Threads == 0 .. N-1
Workers == 1 .. N-1
None == -1

ASSUME TaskTeamAssumption ==
  /\ N \in Nat /\ N > 1
  /\ Sizes \subseteq 2 .. N
  /\ Bodies \subseteq Nat
  /\ HotTeamsMode \in {0, 1}
  /\ MaxRegions \in Nat /\ MaxTasks \in Nat

VARIABLES region, body,          \* regions forked; plain barriers of this one
          nproc, hot_team_nth,   \* t_nproc; the threads the hot team keeps
          task_team,             \* t_task_team[0..1]
          deque,                 \* td_deque of each thread in each task team
          stealing,              \* who holds td_deque_lock for a theft
          th_task_state, th_task_team,
          incomplete,            \* td_incomplete_child_tasks, implicit tasks
          k,                     \* barriers after the fork a thread has come to
          arrived, go,           \* reported to the master; released by it
          gathered,              \* the master is past the gather
          pc,
          local_team,            \* task_team of __kmp_execute_tasks_template
          thread_finished,       \* ... and of the present wait
          current,               \* the task a thread runs
          spawned                \* tasks created so far

team == <<region, body, nproc, hot_team_nth>>
tasks == <<deque, stealing, incomplete, spawned>>
own == <<th_task_state, th_task_team>>
barrier == <<k, arrived, go, gathered>>
locals == <<local_team, thread_finished, current>>
vars == <<team, task_team, tasks, own, barrier, pc, locals>>

Members == 0 .. nproc-1
JoinStep == body + 1                \* the barriers after the fork, and the join
Phase(t) == <<region, k[t]>>        \* the stretch of program t is in
NoTask == [parent |-> None, phase |-> <<0, 0>>]
Final(t) == t # 0 \/ gathered       \* final_spin

Init ==
  /\ region = 0 /\ body = 0
  /\ nproc = 1 /\ hot_team_nth = 1
  /\ task_team = [p \in 0..1 |-> [alloc |-> FALSE, nproc |-> 0, unfinished |-> 0,
                                  active |-> FALSE, found |-> FALSE]]
  /\ deque = [p \in 0..1 |-> [t \in Threads |-> << >>]]
  /\ stealing = [p \in 0..1 |-> [t \in Threads |-> None]]
  /\ th_task_state = [t \in Threads |-> 0]
  /\ th_task_team = [t \in Threads |-> None]
  /\ incomplete = [t \in Threads |-> 0]
  /\ k = [t \in Threads |-> 0]
  /\ arrived = {} /\ go = [t \in Threads |-> FALSE] /\ gathered = FALSE
  /\ pc = [t \in Threads |-> IF t = 0 THEN "serial" ELSE "wait"]
  /\ local_team = [t \in Threads |-> None]
  /\ thread_finished = [t \in Threads |-> FALSE]
  /\ current = [t \in Threads |-> NoTask]
  /\ spawned = 0

Goto(t, label) == pc' = [pc EXCEPT ![t] = label]

\* Where __kmp_execute_tasks_template returns to.
WaitLabel(t) == IF t # 0 THEN "wait" ELSE IF gathered THEN "task_wait" ELSE "gather"

\* The flag of the wait t is in.
DoneCheck(t) == IF t # 0 THEN go[t]
                ELSE IF gathered THEN task_team[th_task_state[0]].unfinished = 0
                ELSE arrived = Members \ {0}

-----------------------------------------------------------------------------
\* The master's part: setup before a barrier, wait and release after it.

Fresh(n) == [alloc |-> TRUE, nproc |-> n, unfinished |-> n, active |-> TRUE, found |-> FALSE]

\* The present task team may be in use; the other is made ready.
Setup(s, n) ==
  [p \in 0..1 |->
     IF \/ ~task_team[p].alloc
        \/ p # s /\ (~task_team[p].active \/ n # task_team[p].nproc)
     THEN Fresh(n) ELSE task_team[p]]

\* Mutant of Resize: threads that join keep th_task_state as they have it.
ResizeStale(n) ==
  LET cut == IF HotTeamsMode = 0 THEN n .. nproc-1 ELSE {}
  IN /\ nproc' = n
     /\ hot_team_nth' = IF HotTeamsMode = 0 \/ n > hot_team_nth THEN n ELSE hot_team_nth
     /\ th_task_team' = [t \in Threads |-> IF t \in cut THEN None ELSE th_task_team[t]]
     /\ th_task_state' = [t \in Threads |-> IF t \in cut THEN 0 ELSE th_task_state[t]]

\* Threads cut off forget their task team, unless they stay in reserve.  New
\* ones get the master's state; those out of the reserve count as old ones.
Resize(n) ==
  LET cut == IF HotTeamsMode = 0 THEN n .. nproc-1 ELSE {}
      new == hot_team_nth .. n-1
  IN /\ nproc' = n
     /\ hot_team_nth' = IF HotTeamsMode = 0 \/ n > hot_team_nth THEN n ELSE hot_team_nth
     /\ th_task_team' = [t \in Threads |-> IF t \in cut THEN None ELSE th_task_team[t]]
     /\ th_task_state' = [t \in Threads |-> IF t \in cut THEN 0
                                            ELSE IF t \in new THEN th_task_state[0]
                                            ELSE th_task_state[t]]

\* Released threads that sleep wake up.
Released(n) == [t \in Threads |-> IF t = 0 THEN "release"
                                  ELSE IF t < n /\ pc[t] = "asleep" THEN "wait"
                                  ELSE pc[t]]

Fork(n, b) ==
  /\ pc[0] = "serial" /\ region < MaxRegions
  /\ region' = region + 1 /\ body' = b
  /\ Resize(n)
  /\ task_team' = Setup(th_task_state[0], n)
  /\ go' = [t \in Threads |-> t \in 1 .. n-1]
  /\ k' = [t \in Threads |-> IF t < n THEN 0 ELSE k[t]]
  /\ pc' = Released(n)
  /\ UNCHANGED <<tasks, arrived, gathered, locals>>

\* A thread leaves a barrier: it goes over to the other task team.
Sync(t) ==
  LET s == 1 - th_task_state[t]
  IN /\ th_task_state' = [th_task_state EXCEPT ![t] = s]
     /\ th_task_team' = [th_task_team EXCEPT ![t] = IF task_team[s].alloc THEN s ELSE None]

\* Everybody has been let go; the master, too, leaves the barrier.
MasterLeaves ==
  /\ pc[0] = "release"
  /\ Sync(0)
  /\ Goto(0, "work")
  /\ UNCHANGED <<team, task_team, tasks, barrier, locals>>

Arrive(t) ==
  /\ pc[t] = "work"
  /\ k' = [k EXCEPT ![t] = @ + 1]
  /\ thread_finished' = [thread_finished EXCEPT ![t] = FALSE]
  /\ IF t = 0
     THEN /\ task_team' = IF k'[0] = JoinStep THEN task_team ELSE Setup(th_task_state[0], nproc)
          /\ Goto(0, "gather")
          /\ UNCHANGED arrived
     ELSE /\ arrived' = arrived \cup {t}
          /\ Goto(t, "wait")
          /\ UNCHANGED task_team
  /\ UNCHANGED <<team, tasks, own, go, gathered, local_team, current>>

\* The master is through: it releases the others, or a join returns to the
\* program.  Its own task team is gone if it was in use, or with the region.
Pass(in_use) ==
  LET join == k[0] = JoinStep
  IN /\ pc' = IF join THEN [pc EXCEPT ![0] = "serial"] ELSE Released(nproc)
     /\ go' = IF join THEN go ELSE [t \in Threads |-> t \in Workers \cap Members]
     /\ th_task_team' = IF join \/ in_use THEN [th_task_team EXCEPT ![0] = None]
                        ELSE th_task_team

Gathered ==
  /\ pc[0] = "gather"
  /\ arrived = Members \ {0}
  /\ arrived' = {}
  /\ IF task_team[th_task_state[0]].found
     THEN /\ gathered' = TRUE
          /\ Goto(0, "task_wait")
          /\ UNCHANGED <<go, th_task_team>>
     ELSE /\ Pass(FALSE)
          /\ UNCHANGED gathered
  /\ thread_finished' = [thread_finished EXCEPT ![0] = FALSE]
  /\ UNCHANGED <<team, task_team, tasks, th_task_state, k, local_team, current>>

\* No thread is unfinished: the task team is made inactive.
TasksCompleted ==
  /\ pc[0] = "task_wait"
  /\ task_team[th_task_state[0]].unfinished = 0
  /\ task_team' = [task_team EXCEPT ![th_task_state[0]].active = FALSE]
  /\ gathered' = FALSE
  /\ Pass(TRUE)
  /\ UNCHANGED <<team, tasks, th_task_state, k, arrived, locals>>

-----------------------------------------------------------------------------
\* A thread that waits at a barrier.

Leave(t) ==
  /\ pc[t] = "wait" /\ go[t]
  /\ go' = [go EXCEPT ![t] = FALSE]
  /\ Sync(t)
  /\ Goto(t, "work")
  /\ UNCHANGED <<team, task_team, tasks, k, arrived, gathered, locals>>

\* The wait loop: is there a task team, is it active, has it found tasks?
Look(t) ==
  /\ pc[t] = WaitLabel(t) /\ ~DoneCheck(t)
  /\ th_task_team[t] # None
  /\ LET tt == task_team[th_task_team[t]]
     IN IF tt.active
        THEN /\ tt.found
             /\ local_team' = [local_team EXCEPT ![t] = th_task_team[t]]
             /\ Goto(t, "own")
             /\ UNCHANGED own
        ELSE /\ th_task_team' = [th_task_team EXCEPT ![t] = None]
             /\ UNCHANGED <<pc, th_task_state, local_team>>
  /\ UNCHANGED <<team, task_team, tasks, barrier, thread_finished, current>>

\* A worker that has waited for long and sees no task suspends itself: first
\* it decides so, then it sleeps, unless released meanwhile.
SeesTasks(t) == th_task_team[t] # None /\ task_team[th_task_team[t]].found
Doze(t) ==
  /\ t # 0
  /\ pc[t] = "wait" /\ ~go[t]
  /\ ~SeesTasks(t)
  /\ Goto(t, "drowsy")
  /\ UNCHANGED <<team, task_team, tasks, own, barrier, locals>>

Sleep(t) ==
  /\ pc[t] = "drowsy"
  /\ Goto(t, IF go[t] THEN "wait" ELSE "asleep")
  /\ UNCHANGED <<team, task_team, tasks, own, barrier, locals>>

-----------------------------------------------------------------------------
\* __kmp_execute_tasks_template

\* The last task pushed to the thread's own deque.
TakeOwn(t) ==
  LET mine == deque[local_team[t]][t]
  IN /\ pc[t] = "own"
     /\ IF mine = << >>
        THEN Goto(t, "steal") /\ UNCHANGED <<deque, current>>
        ELSE /\ stealing[local_team[t]][t] = None
             /\ deque' = [deque EXCEPT ![local_team[t]][t] = Front(@)]
             /\ current' = [current EXCEPT ![t] = Last(mine)]
             /\ Goto(t, "run")
     /\ UNCHANGED <<team, task_team, stealing, incomplete, spawned, own, barrier,
                    local_team, thread_finished>>

\* __kmp_get_random(thread) % (nthreads - 1), made to exclude tid.
Victims(t, n) == {IF v >= t THEN v + 1 ELSE v : v \in 0 .. n-2}

\* Mutant of WakeVictim: sleepers are left alone.
PassSleeper(t, v) ==
  /\ pc[t] = "steal"
  /\ v \in Victims(t, task_team[local_team[t]].nproc)
  /\ pc[v] = "asleep"
  /\ Goto(t, "none")
  /\ UNCHANGED <<team, task_team, tasks, own, barrier, locals>>

\* A victim that sleeps is woken and another one chosen.
WakeVictim(t, v) ==
  /\ pc[t] = "steal"
  /\ v \in Victims(t, task_team[local_team[t]].nproc)
  /\ pc[v] = "asleep"
  /\ Goto(v, "wait")
  /\ UNCHANGED <<team, task_team, tasks, own, barrier, locals>>

\* Mutant of Steal: a finished thread that steals stays finished.
StealFinished(t, v) ==
  LET p == local_team[t]
  IN /\ pc[t] = "steal"
     /\ v \in Victims(t, task_team[p].nproc)
     /\ pc[v] # "asleep"
     /\ IF deque[p][v] = << >> \/ th_task_team[v] # p
        THEN Goto(t, "none") /\ UNCHANGED <<task_team, stealing, thread_finished>>
        ELSE /\ stealing[p][v] = None
             /\ stealing' = [stealing EXCEPT ![p][v] = t]
             /\ UNCHANGED <<task_team, thread_finished>>
             /\ Goto(t, "stealing")
     /\ UNCHANGED <<team, deque, incomplete, spawned, own, barrier, local_team, current>>

\* Under the lock of the victim's deque a finished thread counts itself as
\* unfinished again before the task is gone from the deque.
Steal(t, v) ==
  LET p == local_team[t]
  IN /\ pc[t] = "steal"
     /\ v \in Victims(t, task_team[p].nproc)
     /\ pc[v] # "asleep"
     /\ IF deque[p][v] = << >> \/ th_task_team[v] # p
        THEN Goto(t, "none") /\ UNCHANGED <<task_team, stealing, thread_finished>>
        ELSE /\ stealing[p][v] = None
             /\ stealing' = [stealing EXCEPT ![p][v] = t]
             /\ task_team' = IF thread_finished[t]
                             THEN [task_team EXCEPT ![p].unfinished = @ + 1] ELSE task_team
             /\ thread_finished' = [thread_finished EXCEPT ![t] = FALSE]
             /\ Goto(t, "stealing")
     /\ UNCHANGED <<team, deque, incomplete, spawned, own, barrier, local_team, current>>

\* The oldest task of the victim.
TakeStolen(t, v) ==
  LET p == local_team[t]
  IN /\ pc[t] = "stealing"
     /\ stealing[p][v] = t
     /\ current' = [current EXCEPT ![t] = Head(deque[p][v])]
     /\ deque' = [deque EXCEPT ![p][v] = Tail(@)]
     /\ stealing' = [stealing EXCEPT ![p][v] = None]
     /\ Goto(t, "run")
     /\ UNCHANGED <<team, task_team, incomplete, spawned, own, barrier, local_team,
                    thread_finished>>

\* The program creates a task: in its own stretch, or inside another task.
\* The first one in a task team wakes who sleeps.
Spawn(t) ==
  LET p == th_task_team[t]
      task == IF pc[t] = "work" THEN [parent |-> t, phase |-> Phase(t)]
              ELSE [parent |-> None, phase |-> current[t].phase]
  IN /\ pc[t] \in {"work", "run"}
     /\ spawned < MaxTasks
     /\ p # None
     /\ stealing[p][t] = None
     /\ spawned' = spawned + 1
     /\ deque' = [deque EXCEPT ![p][t] = Append(@, task)]
     /\ task_team' = [task_team EXCEPT ![p].found = TRUE]
     /\ pc' = IF task_team[p].found THEN pc
              ELSE [u \in Threads |-> IF u < task_team[p].nproc /\ pc[u] = "asleep"
                                      THEN "wait" ELSE pc[u]]
     /\ incomplete' = IF pc[t] = "work" THEN [incomplete EXCEPT ![t] = @ + 1]
                      ELSE incomplete
     /\ UNCHANGED <<team, stealing, own, barrier, locals>>

FinishTask(t) ==
  /\ pc[t] = "run"
  /\ incomplete' = LET u == current[t].parent
                   IN IF u = None THEN incomplete ELSE [incomplete EXCEPT ![u] = @ - 1]
  /\ current' = [current EXCEPT ![t] = NoTask]
  /\ Goto(t, IF ~Final(t) /\ DoneCheck(t) THEN "gather"
             ELSE IF th_task_team[t] = None THEN "none" ELSE "own")
  /\ UNCHANGED <<team, task_team, deque, stealing, spawned, own, barrier, local_team,
                 thread_finished>>

\* Mutant of NoTaskFound: also in the gather, while others are on their way.
FinishAnywhere(t) ==
  /\ pc[t] = "none"
  /\ IF incomplete[t] = 0 /\ ~thread_finished[t]
     THEN /\ task_team' = [task_team EXCEPT ![local_team[t]].unfinished = @ - 1]
          /\ thread_finished' = [thread_finished EXCEPT ![t] = TRUE]
     ELSE UNCHANGED <<task_team, thread_finished>>
  /\ local_team' = [local_team EXCEPT ![t] = None]
  /\ Goto(t, WaitLabel(t))
  /\ UNCHANGED <<team, tasks, own, barrier, current>>

\* Mutant of NoTaskFound: once for every time it finds no task.
FinishAgain(t) ==
  /\ pc[t] = "none"
  /\ IF Final(t) /\ incomplete[t] = 0
     THEN /\ task_team' = [task_team EXCEPT ![local_team[t]].unfinished = @ - 1]
          /\ thread_finished' = [thread_finished EXCEPT ![t] = TRUE]
     ELSE UNCHANGED <<task_team, thread_finished>>
  /\ local_team' = [local_team EXCEPT ![t] = None]
  /\ Goto(t, WaitLabel(t))
  /\ UNCHANGED <<team, tasks, own, barrier, current>>

\* No task found: in the last wait of a barrier the thread is finished, once
\* its own tasks are.
NoTaskFound(t) ==
  /\ pc[t] = "none"
  /\ IF Final(t) /\ incomplete[t] = 0 /\ ~thread_finished[t]
     THEN /\ task_team' = [task_team EXCEPT ![local_team[t]].unfinished = @ - 1]
          /\ thread_finished' = [thread_finished EXCEPT ![t] = TRUE]
     ELSE UNCHANGED <<task_team, thread_finished>>
  /\ local_team' = [local_team EXCEPT ![t] = None]
  /\ Goto(t, WaitLabel(t))
  /\ UNCHANGED <<team, tasks, own, barrier, current>>

-----------------------------------------------------------------------------
Inside(t) == \/ Look(t) \/ Leave(t) \/ Sleep(t) \/ TakeOwn(t) \/ FinishTask(t)
             \/ NoTaskFound(t)
             \/ \E v \in Threads : Steal(t, v) \/ TakeStolen(t, v)
Master == MasterLeaves \/ Gathered \/ TasksCompleted

\* The bound on the regions is reached.
AtBound == pc[0] = "serial" /\ region = MaxRegions /\ UNCHANGED vars

Next == \/ \E n \in Sizes, b \in Bodies : Fork(n, b)
        \/ \E t \in Threads : \/ Arrive(t) \/ Doze(t) \/ Spawn(t) \/ Inside(t)
                             \/ \E v \in Threads : WakeVictim(t, v)
        \/ Master \/ AtBound

Spec == Init /\ [][Next]_vars

\* Threads inside a barrier run on and tasks end.  The master, which looks for
\* tasks as long as it waits, comes upon a sleeping victim in the end.
FairSpec ==
  /\ Spec
  /\ WF_vars(Master)
  /\ \A t \in Threads : WF_vars(Inside(t))
  /\ SF_vars(\E v \in Threads : WakeVictim(0, v))

-----------------------------------------------------------------------------
\* The variables keep their types; in particular tt_unfinished_threads does not
\* fall below zero (asserted at kmp_tasking.cpp:2125).
TypeOK ==
  /\ region \in 0 .. MaxRegions /\ body \in Bodies \cup {0}
  /\ nproc \in {1} \cup Sizes /\ hot_team_nth \in 1 .. N
  /\ task_team \in [0..1 -> [alloc : BOOLEAN, nproc : 0 .. N, unfinished : Nat,
                             active : BOOLEAN, found : BOOLEAN]]
  /\ \A p \in 0..1, t \in Threads : /\ Len(deque[p][t]) <= MaxTasks
                                    /\ stealing[p][t] \in Threads \cup {None}
  /\ th_task_state \in [Threads -> 0..1]
  /\ th_task_team \in [Threads -> {None, 0, 1}]
  /\ incomplete \in [Threads -> Nat]
  /\ \A t \in Threads : k[t] \in Nat
  /\ arrived \subseteq Workers /\ go \in [Threads -> BOOLEAN] /\ gathered \in BOOLEAN
  /\ pc \in [Threads -> {"serial", "work", "release", "gather", "task_wait", "wait",
                         "drowsy", "asleep", "own", "steal", "stealing", "run", "none"}]
  /\ local_team \in [Threads -> {None, 0, 1}]
  /\ thread_finished \in [Threads -> BOOLEAN]
  /\ spawned \in 0 .. MaxTasks

Queued == UNION {Range(deque[p][t]) : p \in 0..1, t \in Threads}
Outstanding == Queued \cup {current[t] : t \in {u \in Threads : pc[u] = "run"}}

\* "Wait here for tasks to complete" (kmp_tasking.cpp:2912-2914): when the
\* master is past a barrier, no task created before it, in this region or an
\* earlier one, is left, in a deque or in the hands of a thread.
Passed == IF pc[0] \in {"work", "release", "serial"} THEN k[0] ELSE k[0] - 1
TasksDone == \A task \in Outstanding : task.phase[1] = region /\ task.phase[2] >= Passed

\* While the master is in a region, the task team it is on counts exactly the
\* members that have not finished with it in this barrier, and those threads
\* that steal from it without being due: the ones a smaller team left behind.
Coming == IF pc[0] \in {"work", "release"} THEN k[0] + 1 ELSE k[0]    \* the master's barrier
FinishedHere(t) == thread_finished[t] /\ pc[t] # "work" /\ k[t] = Coming
Late(t) == t \notin Members \/ (pc[t] # "work" /\ k[t] # Coming)
CountExact ==
  TypeOK /\ ((pc[0] \notin {"serial", "release"}) =>
     LET p == th_task_state[0]
     IN task_team[p].unfinished =
          Cardinality({t \in Members : ~FinishedHere(t)})
            + Cardinality({t \in Threads : /\ Late(t) /\ local_team[t] = p
                                          /\ ~thread_finished[t]}))

\* th_task_team == t_task_team[th_task_state] (kmp_barrier.cpp:1622): a member
\* comes to a barrier with the task team that its master will wait for.
SameTaskTeam ==
  \A t \in Members : pc[t] = "work" =>
     /\ th_task_team[t] = th_task_state[t]
     /\ pc[0] # "release" => th_task_state[t] = th_task_state[0]

\* The master gets out of its wait for tasks.
TasksEnd == (pc[0] = "gather" /\ arrived = Members \ {0}) ~> (pc[0] \in {"serial", "work"})
=============================================================================
