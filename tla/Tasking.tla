------------------------------ MODULE Tasking ------------------------------
(***************************************************************************)
(* Explicit tasks of runtime/src/kmp_tasking.cpp: creation, deques with    *)
(* stealing, taskwait, taskgroup and taskyield, the counts of children     *)
(* that a wait and the freeing of task structures rest on.                 *)
(*                                                                         *)
(* Tied, untied, final and undeferred (if(0)) tasks; each thread runs a    *)
(* stack of tasks, the bottom one its implicit task.  The code of a task   *)
(* is any sequence of these calls.  A proxy task is begun by its creator   *)
(* and completed from outside of the team, say by a device.  What a deque  *)
(* operation does under td_deque_lock is one step; so is a fetch-and-add.  *)
(*                                                                         *)
(* The barrier at the end of a region is TaskTeam's: here it is passed     *)
(* when all threads have given up looking for tasks.  One region follows   *)
(* another.  Cancellation and dependences are left out.                    *)
(***************************************************************************)
EXTENDS Integers, Sequences, FiniteSets

CONSTANTS N,          \* threads 1 .. N
          MaxTasks,   \* bound: explicit tasks in a region
          Programs,   \* the programs checked: see Program
          Capacity,   \* TASK_DEQUE_SIZE
          MaxParts    \* bound: parts of an untied task

\* A program: the size of its team, the kinds of tasks it creates and how many,
\* the threads whose implicit tasks create some, the taskgroups it opens, and
\* which tasks create proxy tasks.
Program == [team : 1 .. N, kinds : SUBSET {"tied", "untied", "final", "if0"},
            tasks : 0 .. MaxTasks, creators : SUBSET (1 .. N), groups : Nat,
            proxies : {"none", "implicit", "any"}]

ASSUME TaskingAssumption == /\ {N, Capacity, MaxParts} \subseteq Nat \ {0}
                            /\ MaxTasks \in Nat
                            /\ \A p \in Programs : p \in Program

VARIABLES program,    \* one of Programs
          created,    \* explicit tasks allocated so far
          td,         \* kmp_taskdata_t of each task
          taskgroup,  \* the kmp_taskgroup_t a task has opened (one at most);
                      \* since: tasks created before (history, nothing reads it)
          deque,      \* td_deque of each thread, head first
          stack,      \* the tasks each thread has begun, th_current_task last
          finished,   \* the threads that have counted themselves off
                      \* tt_unfinished_threads
          outside     \* how far a proxy task is with whoever completes it

barrier == <<finished, outside>>
vars == <<program, created, td, taskgroup, deque, stack, barrier>>

Threads == 1 .. N
Team == 1 .. program.team
Tasks == 1 .. N + MaxTasks            \* task t of a thread t is its implicit task
Explicit(x) == x > N
Created == N + 1 .. N + created

TaskData(parent, tied, final, serial, group) ==
  [parent |-> parent, tied |-> tied, final |-> final, serial |-> serial, group |-> group,
   untied_count |-> IF tied THEN 0 ELSE 1, parts |-> 1,
   incomplete |-> 0, allocated |-> IF parent = 0 THEN 0 ELSE 1,
   complete |-> FALSE, freed |-> FALSE]

\* No task data yet, and that of an implicit task.
Blank == TaskData(0, TRUE, FALSE, TRUE, 0)

\* The threads of the team begin their implicit tasks.
Started == [t \in Threads |-> <<[task |-> t, at |-> IF t \in Team THEN "body" ELSE "barrier"]>>]

Init == /\ program \in Programs
        /\ created = 0
        /\ td = [x \in Tasks |-> Blank]
        /\ taskgroup = [x \in Tasks |-> [state |-> "none", count |-> 0, parent |-> 0, since |-> 0]]
        /\ deque = [t \in Threads |-> << >>]
        /\ stack = Started
        /\ finished = {}
        /\ outside = [x \in Tasks |-> "none"]

Top(t) == stack[t][Len(stack[t])]
At(t, label) == Top(t).at = label
Current(t) == Top(t).task
Goto(t, label) == stack' = [stack EXCEPT ![t][Len(stack[t])].at = label]
IsProxy(x) == outside[x] # "none"
\* A proxy task is taken from a deque for the bottom half of its completion.
Begin(t, x) == Append(stack[t], [task |-> x, at |-> IF IsProxy(x) THEN "bottom" ELSE "body"])

\* A task under a finished one goes on; a wait sees if it is over (done_check).
Waiting(frame) == frame.at \in {"taskwait", "groupwait"}
Over(frame) == IF frame.at = "taskwait" THEN td[frame.task].incomplete = 0
               ELSE taskgroup[frame.task].count = 0
Pop(t) == LET below == SubSeq(stack[t], 1, Len(stack[t]) - 1)
              frame == below[Len(below)]
          IN  stack' = [stack EXCEPT ![t] =
                IF Waiting(frame) /\ Over(frame)
                THEN [below EXCEPT ![Len(below)].at = 
                        IF frame.at = "taskwait" THEN "taskwait_over" ELSE "groupwait_over"]
                ELSE below]

\* The tasks x is a descendant of.
Ancestors(x) ==
  LET A[y \in Tasks] == IF Explicit(y) THEN {td[y].parent} \cup A[td[y].parent] ELSE {}
  IN  A[x]

-----------------------------------------------------------------------------
(* Creating tasks. *)

\* Mutant of GroupOf: the task does not belong to its parent's taskgroup.
NoGroup(x) == 0

GroupOf(x) == td[x].group

Room(t) == Len(deque[t]) < Capacity

\* A task is queued unless it must or, its deque being full, had better be
\* executed at once.
CreateTask(t, kind) ==
  LET x == Current(t)
      n == N + created + 1
      queued == kind # "if0" /\ ~td[x].final /\ Room(t)
      g == GroupOf(x)
  IN /\ At(t, "body")
     /\ created < program.tasks
     /\ Explicit(x) \/ x \in program.creators
     /\ created' = created + 1
     /\ UNCHANGED <<barrier, program>>
     /\ td' = [td EXCEPT ![n] = TaskData(x, kind # "untied", kind = "final" \/ td[x].final,
                                         ~queued, g),
                         ![x].incomplete = @ + 1,
                         ![x].allocated = IF Explicit(x) THEN @ + 1 ELSE @]
     /\ taskgroup' = IF g = 0 THEN taskgroup ELSE [taskgroup EXCEPT ![g].count = @ + 1]
     /\ IF queued
          THEN deque' = [deque EXCEPT ![t] = Append(@, n)] /\ UNCHANGED stack
          ELSE stack' = [stack EXCEPT ![t] = Begin(t, n)] /\ UNCHANGED deque

\* An untied task ends a part: it queues itself for the next one, or begins it
\* on top of this one if it cannot be queued.
EndPart(t) ==
  LET x == Current(t)
      queued == ~td[x].serial /\ Room(t)
      ending == [stack[t] EXCEPT ![Len(stack[t])].at = "finish"]
  IN /\ At(t, "body")
     /\ ~td[x].tied /\ td[x].parts < MaxParts
     /\ td' = [td EXCEPT ![x].untied_count = @ + 1,
                         ![x].parts = @ + 1,
                         ![x].serial = ~queued]
     /\ deque' = IF queued THEN [deque EXCEPT ![t] = Append(@, x)] ELSE deque
     /\ stack' = [stack EXCEPT ![t] =
                    IF queued THEN ending ELSE Append(ending, [task |-> x, at |-> "body"])]
     /\ UNCHANGED <<barrier, program, created, taskgroup>>

-----------------------------------------------------------------------------
(* Taking tasks: at a barrier any, at a task scheduling point of a task only *)
(* its descendants, and untied ones of the thread's own deque.               *)

Looking(t) == Top(t).at \in {"body", "taskwait", "groupwait", "barrier"}
Constrained(t) == Top(t).at # "barrier"

\* Mutants of MayRun: children only; no constraint.
MayRunChild(t, x) == Constrained(t) => td[x].parent = Current(t)
MayRunAny(t, x) == TRUE

MayRun(t, x) == Constrained(t) => Current(t) \in Ancestors(x)

OwnTask(t) == deque[t][Len(deque[t])]
HasOwnTask(t) == /\ deque[t] # << >>
                 /\ td[OwnTask(t)].tied => MayRun(t, OwnTask(t))

RemoveMyTask(t) ==
  /\ Looking(t)
  /\ HasOwnTask(t)
  /\ stack' = [stack EXCEPT ![t] = Begin(t, OwnTask(t))]
  /\ deque' = [deque EXCEPT ![t] = SubSeq(@, 1, Len(@) - 1)]
  /\ UNCHANGED <<barrier, program, created, td, taskgroup>>

CanSteal(t, victim) == deque[victim] # << >> /\ MayRun(t, Head(deque[victim]))

StealTask(t, victim) ==
  /\ Looking(t)
  /\ ~HasOwnTask(t)
  /\ victim # t
  /\ CanSteal(t, victim)
  /\ stack' = [stack EXCEPT ![t] = Begin(t, Head(deque[victim]))]
  /\ deque' = [deque EXCEPT ![victim] = Tail(@)]
  /\ finished' = finished \ {t}
  /\ UNCHANGED <<program, created, td, taskgroup, outside>>

-----------------------------------------------------------------------------
(* Waiting. *)

\* Nothing is waited for in a final task, unless the team has proxy tasks.
Taskwait(t) ==
  /\ At(t, "body")
  /\ td[Current(t)].final => \E x \in Created : IsProxy(x)
  /\ td[Current(t)].incomplete # 0
  /\ Goto(t, "taskwait")
  /\ UNCHANGED <<barrier, program, created, td, taskgroup, deque>>

\* A wait that finds nothing to run spins.
Spin(t) == /\ Waiting(Top(t)) \/ At(t, "barrier")
           /\ ~HasOwnTask(t)
           /\ \E victim \in Team \ {t} : ~CanSteal(t, victim)
           /\ UNCHANGED vars

EndTaskwait(t) ==
  /\ Top(t).at \in {"taskwait", "taskwait_over"}
  /\ td[Current(t)].incomplete = 0
  /\ Goto(t, "body")
  /\ UNCHANGED <<barrier, program, created, td, taskgroup, deque>>

Groups == {x \in Tasks : taskgroup[x].state # "none"}

\* Bounds: a task opens one taskgroup at most, and a program so many.
Taskgroup(t) ==
  LET x == Current(t)
  IN /\ At(t, "body")
     /\ taskgroup[x].state = "none"
     /\ Cardinality(Groups) < program.groups
     /\ Explicit(x) \/ x \in program.creators
     /\ taskgroup' = [taskgroup EXCEPT ![x] =
                        [state |-> "open", count |-> 0, parent |-> td[x].group,
                         since |-> created]]
     /\ td' = [td EXCEPT ![x].group = x]
     /\ UNCHANGED <<barrier, program, created, deque, stack>>

WaitTaskgroup(t) ==
  /\ At(t, "body")
  /\ taskgroup[Current(t)].state = "open"
  /\ taskgroup[Current(t)].count # 0
  /\ Goto(t, "groupwait")
  /\ UNCHANGED <<barrier, program, created, td, taskgroup, deque>>

EndTaskgroup(t) ==
  LET x == Current(t)
  IN /\ Top(t).at \in {"body", "groupwait", "groupwait_over"}
     /\ taskgroup[x].state = "open"
     /\ taskgroup[x].count = 0
     /\ td' = [td EXCEPT ![x].group = taskgroup[x].parent]
     /\ taskgroup' = [taskgroup EXCEPT ![x].state = "closed"]
     /\ Goto(t, "body")
     /\ UNCHANGED <<barrier, program, created, deque>>

-----------------------------------------------------------------------------
(* Finishing tasks. *)

EndBody(t) ==
  /\ At(t, "body")
  /\ taskgroup[Current(t)].state # "open"
  /\ Goto(t, IF Explicit(Current(t)) THEN "finish" ELSE "barrier")
  /\ UNCHANGED <<barrier, program, created, td, taskgroup, deque>>

\* Mutants of Finish: an untied task is finished with any of its parts; a task
\* that was executed at once is not counted.
FinishPart(t) ==
  LET x == Current(t)
  IN /\ At(t, "finish")
     /\ td' = [td EXCEPT ![x].complete = TRUE, ![td[x].parent].incomplete = @ - 1]
     /\ Goto(t, IF td[x].group # 0 THEN "finish_group" ELSE "free")
     /\ UNCHANGED <<barrier, program, created, taskgroup, deque>>

FinishDeferred(t) ==
  LET x == Current(t)
  IN /\ At(t, "finish")
     /\ td' = [td EXCEPT ![x].complete = TRUE,
                         ![td[x].parent].incomplete = IF td[x].serial THEN @ ELSE @ - 1]
     /\ Goto(t, IF td[x].group # 0 THEN "finish_group" ELSE "free")
     /\ UNCHANGED <<barrier, program, created, taskgroup, deque>>

\* A part of an untied task is over, or the task: its parent has one incomplete
\* child less.
Finish(t) ==
  LET x == Current(t)
      count == IF td[x].tied THEN 0 ELSE td[x].untied_count - 1
  IN /\ At(t, "finish")
     /\ IF count > 0
          THEN td' = [td EXCEPT ![x].untied_count = count] /\ Pop(t)
          ELSE /\ td' = [td EXCEPT ![x].untied_count = count, ![x].complete = TRUE,
                                   ![td[x].parent].incomplete = @ - 1]
               /\ Goto(t, IF td[x].group # 0 THEN "finish_group" ELSE "free")
     /\ UNCHANGED <<barrier, program, created, taskgroup, deque>>

FinishGroup(t) ==
  /\ At(t, "finish_group")
  /\ taskgroup' = [taskgroup EXCEPT ![td[Current(t)].group].count = @ - 1]
  /\ Goto(t, "free")
  /\ UNCHANGED <<barrier, program, created, td, deque>>

\* The task data that is left of a task: its counts, and once it is freed only
\* what the properties ask of it.
Counted(x, children) ==
  IF children > 0 THEN [td[x] EXCEPT !.allocated = children]
  ELSE [Blank EXCEPT !.parent = td[x].parent, !.allocated = children,
                     !.complete = td[x].complete, !.freed = TRUE]

\* Mutant of Free: a task is freed with its last child, itself not counted.
FreeEarly(t) ==
  LET x == Current(t)
      children == td[x].allocated - 2
      up == td[x].parent
  IN /\ At(t, "free")
     /\ td' = [td EXCEPT ![x] = Counted(x, children)]
     /\ IF children <= 0 /\ Explicit(up)
          THEN stack' = [stack EXCEPT ![t][Len(stack[t])].task = up]
          ELSE Pop(t)
     /\ UNCHANGED <<barrier, program, created, taskgroup, deque>>

\* One turn of the walk up the ancestors: whoever takes the count of a task and
\* its children to zero frees it.  The task is off the stack, where its place
\* stands for the walk.
Free(t) ==
  LET x == Current(t)
      children == td[x].allocated - 1
      up == td[x].parent
  IN /\ At(t, "free")
     /\ td' = [td EXCEPT ![x] = Counted(x, children)]
     /\ IF children = 0 /\ Explicit(up)
          THEN stack' = [stack EXCEPT ![t][Len(stack[t])].task = up]
          ELSE Pop(t)
     /\ UNCHANGED <<barrier, program, created, taskgroup, deque>>

-----------------------------------------------------------------------------
(* Proxy tasks: completed in two halves, the first of them, in two parts,    *)
(* by anybody, the other by a thread of the team that finds the task in a    *)
(* deque again.                                                              *)

\* A proxy task is never queued; its routine only sets off what is done outside.
CreateProxy(t) ==
  LET x == Current(t)
      n == N + created + 1
      g == GroupOf(x)
  IN /\ At(t, "body")
     /\ created < program.tasks
     /\ \/ x \in program.creators /\ program.proxies # "none"
        \/ Explicit(x) /\ program.proxies = "any"
     /\ created' = created + 1
     /\ td' = [td EXCEPT ![n] = TaskData(x, FALSE, td[x].final, TRUE, g),
                         ![x].incomplete = @ + 1,
                         ![x].allocated = IF Explicit(x) THEN @ + 1 ELSE @]
     /\ taskgroup' = IF g = 0 THEN taskgroup ELSE [taskgroup EXCEPT ![g].count = @ + 1]
     /\ outside' = [outside EXCEPT ![n] = "runs"]
     /\ UNCHANGED <<program, deque, stack, finished>>

\* The task is complete, and off its taskgroup.  It gets an imaginary child, so
\* that the bottom half cannot free it before the top half is through.
FirstTopHalf(x, stage) ==
  LET g == td[x].group
  IN /\ outside[x] = "runs"
     /\ td' = [td EXCEPT ![x].complete = TRUE, ![x].incomplete = @ + 1]
     /\ taskgroup' = IF g = 0 THEN taskgroup ELSE [taskgroup EXCEPT ![g].count = @ - 1]
     /\ outside' = [outside EXCEPT ![x] = stage]
     /\ UNCHANGED <<program, created, finished>>

CompleteOutside(x) == FirstTopHalf(x, "complete") /\ UNCHANGED <<deque, stack>>

\* A thread of the team completes the task and goes on to the bottom half at once.
CompleteInTeam(t, x) ==
  /\ At(t, "body")
  /\ FirstTopHalf(x, "given")
  /\ stack' = [stack EXCEPT ![t] = Begin(t, x)]
  /\ UNCHANGED deque

\* The first deque with room gets the task; which there are when the search comes
\* by, and whether they have been allocated, is left open.
GiveTask(x, k) ==
  /\ outside[x] = "complete"
  /\ Room(k)
  /\ deque' = [deque EXCEPT ![k] = Append(@, x)]
  /\ outside' = [outside EXCEPT ![x] = "given"]
  /\ UNCHANGED <<program, created, td, taskgroup, stack, finished>>

\* The parent has a child less, and the threads can leave the barrier,
SecondTopHalf(x) ==
  /\ outside[x] = "given"
  /\ td' = [td EXCEPT ![td[x].parent].incomplete = @ - 1]
  /\ outside' = [outside EXCEPT ![x] = "counted"]
  /\ UNCHANGED <<program, created, taskgroup, deque, stack, finished>>

\* then the imaginary child is taken away.
ForgetChild(x) ==
  /\ outside[x] = "counted"
  /\ td' = [td EXCEPT ![x].incomplete = @ - 1]
  /\ outside' = [outside EXCEPT ![x] = "over"]
  /\ UNCHANGED <<program, created, taskgroup, deque, stack, finished>>

Outside(x) == \/ CompleteOutside(x) \/ SecondTopHalf(x) \/ ForgetChild(x)
              \/ \E k \in Team : GiveTask(x, k)

\* Mutant of BottomHalf: it does not wait for the top half.
BottomHalfAtOnce(t) ==
  /\ At(t, "bottom")
  /\ Goto(t, "free")
  /\ UNCHANGED <<barrier, program, created, td, taskgroup, deque>>

BottomHalf(t) ==
  /\ At(t, "bottom")
  /\ td[Current(t)].incomplete = 0
  /\ Goto(t, "free")
  /\ UNCHANGED <<barrier, program, created, td, taskgroup, deque>>

-----------------------------------------------------------------------------
\* Mutant of GiveUp: the children of the implicit task are not asked for.
GiveUpAnyway(t) ==
  /\ At(t, "barrier") /\ t \notin finished
  /\ ~HasOwnTask(t) /\ \E victim \in Team \ {t} : ~CanSteal(t, victim)
  /\ finished' = finished \cup {t}
  /\ UNCHANGED <<program, created, td, taskgroup, deque, stack, outside>>

\* A thread in the barrier that finds nothing, in its own deque and in that of
\* the victim it happened to choose, counts itself off: unless a task its implicit
\* task has created is not completed, by a device, say.  That the deques were looked
\* at earlier than this count is covered by the victims that were not chosen.
GiveUp(t) ==
  /\ At(t, "barrier") /\ t \notin finished
  /\ ~HasOwnTask(t) /\ \E victim \in Team \ {t} : ~CanSteal(t, victim)
  /\ td[t].incomplete = 0
  /\ finished' = finished \cup {t}
  /\ UNCHANGED <<program, created, td, taskgroup, deque, stack, outside>>

\* The master passes the barrier, and the region is over, when all have.
Ended == finished = Team /\ At(1, "barrier")
AllFreed == \A x \in Created : td[x].freed

\* Whoever runs something finishes it, and leaves the barrier.  A bottom half may
\* be left in a deque: whoever looks for tasks in that task team again finds it.
NextRegion == /\ Ended
              /\ \A t \in Threads : At(t, "barrier")
              /\ finished' = {}
              /\ IF AllFreed
                   THEN /\ program' \in Programs
                        /\ created' = 0
                        /\ td' = [x \in Tasks |-> Blank]
                        /\ taskgroup' = [x \in Tasks |-> [state |-> "none", count |-> 0, parent |-> 0, since |-> 0]]
                        /\ outside' = [x \in Tasks |-> "none"]
                   ELSE UNCHANGED <<program, created, td, taskgroup, outside>>
              /\ stack' = Started'
              /\ UNCHANGED deque

Next == \/ \E t \in Team :
             \/ \E kind \in program.kinds : CreateTask(t, kind)
             \/ \E victim \in Team : StealTask(t, victim)
             \/ RemoveMyTask(t) \/ EndPart(t) \/ EndBody(t)
             \/ Taskwait(t) \/ Spin(t) \/ EndTaskwait(t)
             \/ Taskgroup(t) \/ WaitTaskgroup(t) \/ EndTaskgroup(t)
             \/ Finish(t) \/ FinishGroup(t) \/ Free(t)
             \/ CreateProxy(t) \/ BottomHalf(t) \/ GiveUp(t)
             \/ \E x \in Created : CompleteInTeam(t, x)
        \/ \E x \in Created : Outside(x)
        \/ NextRegion

Spec == Init /\ [][Next]_vars

\* Threads run, and the code of a task ends: a region has only finitely many steps.
FairSpec == Spec /\ WF_vars(Next)

-----------------------------------------------------------------------------
Labels == {"body", "taskwait", "taskwait_over", "groupwait", "groupwait_over", "barrier",
           "finish", "finish_group", "bottom", "free"}
Frames == UNION {{stack[t][i] : i \in DOMAIN stack[t]} : t \in Threads}
Queued == UNION {{deque[t][i] : i \in DOMAIN deque[t]} : t \in Threads}

\* The variables keep their types; the counts of a task and of a taskgroup do not
\* fall below zero (asserted at kmp_tasking.cpp:584, 606 and 686), and a deque
\* holds no more than its capacity.
TypeOK ==
  /\ program \in Programs
  /\ created \in 0 .. MaxTasks
  /\ \A x \in Tasks : 
       /\ td[x].parent \in Tasks \cup {0} /\ td[x].group \in Tasks \cup {0}
       /\ {td[x].untied_count, td[x].incomplete, td[x].allocated} \subseteq Nat
       /\ taskgroup[x] \in [state : {"none", "open", "closed"}, count : Nat, parent : Tasks \cup {0},
                               since : 0 .. MaxTasks]
  /\ \A t \in Threads : deque[t] \in Seq(Created) /\ Len(deque[t]) <= Capacity
  /\ \A f \in Frames : f.task \in Tasks /\ f.at \in Labels
  /\ finished \subseteq Team
  /\ outside \in [Tasks -> {"none", "runs", "complete", "given", "counted", "over"}]

\* The taskgroup a task was created in, until it has left it.
HomeGroup(x) == IF taskgroup[x].state = "open" THEN taskgroup[x].parent ELSE td[x].group
Finishing(x) == [task |-> x, at |-> "finish_group"] \in Frames
InGroup(x, g) == HomeGroup(x) = g /\ (~td[x].complete \/ Finishing(x))

\* A task that has been freed is nowhere any more: in no deque, not running, no
\* parent of a task that is left, and no walk has still to count it down; who
\* completes it from outside is through.  The taskgroup of a task is there until
\* the task has left it.
NoUseAfterFree ==
  \A x \in Created :
    /\ td[x].freed => /\ x \notin Queued
                      /\ \A f \in Frames : f.task # x
                      /\ outside[x] \in {"none", "over"}
                      /\ \A c \in Created : td[c].parent = x => td[c].freed
    /\ \A g \in Tasks : InGroup(x, g) => taskgroup[g].state = "open"

\* A child its parent waits for; the imaginary child of a proxy task; whether a
\* task itself keeps its task data.
Pending(c) == ~td[c].complete \/ outside[c] \in {"complete", "given"}
Imaginary(x) == IF outside[x] \in {"complete", "given", "counted"} THEN 1 ELSE 0
KeepsItself(x) == IF IsProxy(x) THEN ~td[x].freed /\ [task |-> x, at |-> "free"] \notin Frames
                  ELSE ~td[x].complete \/ Finishing(x)

\* The counts are what the waits and the walk take them for: tasks to wait for;
\* children, walks and the task itself that keep the task data.
CountsExact ==
  /\ TypeOK
  /\ \A x \in 1 .. N + created :
    /\ td[x].incomplete = Cardinality({c \in Created : td[c].parent = x /\ Pending(c)}) + Imaginary(x)
    /\ taskgroup[x].count = Cardinality({c \in Created : InGroup(c, x)})
    /\ Explicit(x) =>
         td[x].allocated =
           Cardinality({c \in Created : td[c].parent = x /\ ~td[c].freed})
           + Cardinality({t \in Threads : Top(t) = [task |-> x, at |-> "free"]})
           + (IF KeepsItself(x) THEN 1 ELSE 0)

\* Both: task data is freed once, in time, and by the one whom the counts name.
TaskDataExact == NoUseAfterFree /\ CountsExact

Children(x) == {c \in Created : td[c].parent = x}

\* The tasks a taskgroup waits for: those its task creates in it, and all their
\* descendants.
Members(x) == {c \in Created : \E k \in Children(x) : /\ k > N + taskgroup[x].since
                                                      /\ c = k \/ k \in Ancestors(c)}

\* When a taskwait ends all children of the task are complete, and in a final
\* task they always are; when a taskgroup ends all its members are, and when a
\* region ends all its tasks are.
WaitsSound ==
  [][\A t \in Threads :
       LET x == Current(t)
       IN /\ Top(t).at \in {"taskwait", "taskwait_over"} /\ Len(stack'[t]) = Len(stack[t])
               /\ Top(t)'.at = "body"
            => \A c \in Children(x) : td[c].complete
          /\ At(t, "body") /\ td[x].final => \A c \in Children(x) : td[c].complete
          /\ taskgroup[x].state = "open" /\ taskgroup'[x].state = "closed"
            => \A c \in Members(x) : td[c].complete
          /\ finished = Team /\ finished' = {} => \A c \in Created : td[c].complete]_vars

\* "Once the td_incomplete_child_task counter of the parent is decremented the
\* threads can leave the barriers. So, the bottom half needs to be queued before
\* the counter is decremented." (kmp_tasking.cpp:3063): then no bottom half is
\* left when they do.  A thread that has counted itself off is not asked.
NoBottomHalfLeft == Ended => AllFreed

\* The task scheduling constraint: a tied task begins only on top of tied tasks
\* it descends from, unless they are in a barrier.  KeptBetween says which pairs
\* of tasks of a stack it is asked of.
ConstraintKept(KeptBetween(_, _, _)) ==
  \A t \in Threads : \A j \in DOMAIN stack[t] : \A i \in 1 .. j - 1 :
    LET lower == stack[t][i]
        upper == stack[t][j]
    IN td[lower.task].tied /\ td[upper.task].tied /\ lower.at # "barrier" /\ upper.at # "free"
         /\ KeptBetween(t, i, j)
       => lower.task \in Ancestors(upper.task)

\* It is kept where no untied task lies between: each is checked against the
\* task below only.
SchedulingConstraint ==
  LET AllTied(t, i, j) == \A k \in i .. j : td[stack[t][k].task].tied
  IN  ConstraintKept(AllTied)

\* "we need to check if the candidate obeys task scheduling constraint"
\* (kmp_tasking.cpp:1920, 2020)
TaskSchedulingConstraint == LET All(t, i, j) == TRUE IN ConstraintKept(All)

\* Every region ends: no wait is for ever, and all its tasks are freed by then.
RegionEnds == []<>(Ended /\ AllFreed)
=============================================================================
