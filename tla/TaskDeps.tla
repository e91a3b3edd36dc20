------------------------------ MODULE TaskDeps ------------------------------
(***************************************************************************)
(* Task dependences (kmp_taskdeps.cpp): a region creates tasks and waits   *)
(* with depend clauses, in the order of its program, and links the node of *)
(* each behind those of the last readers and the last writer of its        *)
(* addresses, while other threads run the tasks and release what is        *)
(* linked behind them.                                                     *)
(*                                                                         *)
(* The lock of a node covers nothing but the test of its task and the new  *)
(* link, or the reset of the task, so each of these is one step.           *)
(***************************************************************************)
EXTENDS Integers, Sequences, FiniteSets

CONSTANTS DepPrograms,   \* sequences of [task : BOOLEAN, deps : Seq([addr, out])]
          DepThreads,    \* the threads of the team
          Creator        \* the thread whose region creates the tasks

Dependence == [addr : Nat \ {0}, out : BOOLEAN]
ASSUME DepAssumption ==
  /\ \A p \in DepPrograms : p \in Seq([task : BOOLEAN, deps : Seq(Dependence)])
  /\ Creator \in DepThreads /\ IsFiniteSet(DepThreads)

VARIABLES program,
          node,      \* the nodes, one for each member of the program that has dependences
          hash,      \* td_dephash: last_out (0: none) and last_ins of every address
          queued,    \* the tasks given to __kmp_omp_task, how often
          state,     \* of every task: "new", "created", "running", "ran"
          at, cpc,   \* the member of the program the creator is at, and its control
          dep, todo, found,   \* locals of __kmp_process_deps: i, the rest of the list, npredecessors
          exec       \* what each thread runs: control, task, rest of the successors

creator == <<at, cpc, dep, todo, found>>
depVars == <<program, node, hash, queued, state, creator, exec>>

None == 0
Members == DOMAIN program
Addresses == UNION {{program[n].deps[i].addr : i \in DOMAIN program[n].deps} : n \in Members}
Idle == [pc |-> "idle", task |-> None, succs |-> <<>>]

\* __kmp_check_deps makes one entry of those with the same address, the first, and
\* voids the others.
Void == 0
Filtered(deps) ==
  [i \in DOMAIN deps |->
     [addr |-> IF \E j \in 1..(i - 1) : deps[j].addr = deps[i].addr THEN Void ELSE deps[i].addr,
      out |-> \E j \in DOMAIN deps : deps[j].addr = deps[i].addr /\ deps[j].out]]
Deps(n) == Filtered(program[n].deps)
Maybe(n) == IF n = None THEN <<>> ELSE <<n>>

\* The nodes the i-th dependence of member n comes behind.
Predecessors(n, i) ==
  LET d == Deps(n)[i]
      info == hash[d.addr]
  IN IF d.addr = Void THEN <<>>
     ELSE IF d.out /\ info.last_ins # <<>> THEN info.last_ins ELSE Maybe(info.last_out)

\* Where n is in the lists of d, and how often.
Places(d, n) == UNION {{k} \X {i \in DOMAIN d[k] : d[k][i] = n} : k \in DOMAIN d}
Count(s, n) == Cardinality({i \in DOMAIN s : s[i] = n})
Entries == [a \in Addresses |-> hash[a].last_ins \o Maybe(hash[a].last_out)]

\* __kmp_node_ref, and __kmp_node_deref of every node as often as it is lost.
Ref(nodes, n) == [nodes EXCEPT ![n].nrefs = @ + 1]
Deref(nodes, lost) ==
  [n \in DOMAIN nodes |->
     LET left == nodes[n].nrefs - lost[n]
     IN IF lost[n] = 0 THEN nodes[n]
        ELSE [nodes[n] EXCEPT !.nrefs = left, !.mem = IF left = 0 THEN "freed" ELSE @]]
DerefAll(nodes, s) == Deref(nodes, [n \in DOMAIN nodes |-> Count(s, n)])

-----------------------------------------------------------------------------
\* The creator. A member without dependences has no node.
BeginMember ==
  LET n == at + 1 IN
  /\ cpc = "next" /\ at < Len(program)
  /\ at' = n /\ dep' = 1 /\ found' = 0
  /\ IF program[n].deps = <<>>
       THEN /\ cpc' = IF program[n].task THEN "queue" ELSE "next"
            /\ state' = [state EXCEPT ![n] = IF program[n].task THEN "created" ELSE "ran"]
            /\ UNCHANGED <<node, todo>>
       ELSE /\ cpc' = "process"
            /\ state' = [state EXCEPT ![n] = "created"]
            /\ todo' = Predecessors(n, 1)
            /\ node' = [node EXCEPT ![n] = [@ EXCEPT !.npredecessors = -1, !.nrefs = 1,
                                                    !.mem = IF program[n].task THEN "heap" ELSE "frame"]]
  /\ UNCHANGED <<program, hash, queued, exec>>

\* Mutant of Link: the predecessor may have finished since it was looked at.
LinkBlindly ==
  /\ cpc = "process" /\ todo # <<>>
  /\ LET p == Head(todo)
     IN /\ node' = Ref([node EXCEPT ![p].successors = <<at>> \o @], at)
        /\ found' = found + 1
  /\ todo' = Tail(todo)
  /\ UNCHANGED <<program, hash, queued, state, at, cpc, dep, exec>>

Link ==
  /\ cpc = "process" /\ todo # <<>>
  /\ LET p == Head(todo)
     IN IF node[p].task
          THEN /\ node' = Ref([node EXCEPT ![p].successors = <<at>> \o @], at)
               /\ found' = found + 1
          ELSE UNCHANGED <<node, found>>
  /\ todo' = Tail(todo)
  /\ UNCHANGED <<program, hash, queued, state, at, cpc, dep, exec>>

\* The references of the hash when a dependence is entered in it: readers behind
\* which a writer was linked are dropped; a wait leaves nothing of the writer
\* ('guaranteed to be completed').
Entered(info, d, n) ==
  [last_ins |-> IF d.out THEN <<>> ELSE IF program[n].task THEN <<n>> \o info.last_ins ELSE info.last_ins,
   last_out |-> IF ~program[n].task THEN None ELSE IF d.out THEN n ELSE info.last_out]

\* Mutant of Dropped: the reference of the last writer is not given back.
DroppedButWriter(info, d, n) ==
  (IF d.out THEN info.last_ins ELSE <<>>) \o (IF program[n].task THEN <<>> ELSE Maybe(info.last_out))
Dropped(info, d, n) ==
  (IF d.out THEN info.last_ins ELSE <<>>)
    \o (IF d.out \/ ~program[n].task THEN Maybe(info.last_out) ELSE <<>>)

NextDependence ==
  /\ dep' = dep + 1
  /\ todo' = IF dep < Len(Deps(at)) THEN Predecessors(at, dep + 1) ELSE <<>>

\* A void entry is passed over,
Skip ==
  /\ cpc = "process" /\ todo = <<>> /\ dep <= Len(Deps(at)) /\ Deps(at)[dep].addr = Void
  /\ NextDependence
  /\ UNCHANGED <<program, node, hash, queued, state, at, cpc, found, exec>>

\* another one entered.
Enter ==
  LET d == Deps(at)[dep] IN
  /\ cpc = "process" /\ todo = <<>> /\ dep <= Len(Deps(at)) /\ d.addr # Void
  /\ hash' = [hash EXCEPT ![d.addr] = Entered(@, d, at)]
  /\ node' = DerefAll(IF program[at].task THEN Ref(node, at) ELSE node, Dropped(hash[d.addr], d, at))
  /\ NextDependence
  /\ UNCHANGED <<program, queued, state, at, cpc, found, exec>>

\* From here on the task is one others come behind (a wait has none),
SetTask ==
  /\ cpc = "process" /\ dep > Len(Deps(at))
  /\ node' = [node EXCEPT ![at].task = program[at].task]
  /\ cpc' = "account"
  /\ UNCHANGED <<program, hash, queued, state, at, dep, todo, found, exec>>

\* Mutant of Account: the initial -1 is not taken back.
AccountFound ==
  /\ cpc = "account"
  /\ node' = [node EXCEPT ![at].npredecessors = @ + found]
  /\ cpc' = IF program[at].task THEN (IF node'[at].npredecessors > 0 THEN "next" ELSE "queue") ELSE "wait"
  /\ UNCHANGED <<program, hash, queued, state, at, dep, todo, found, exec>>

\* and from here on whoever takes the count to zero is to queue it.
Account ==
  /\ cpc = "account"
  /\ node' = [node EXCEPT ![at].npredecessors = @ + found + 1]
  /\ cpc' = IF program[at].task THEN (IF node'[at].npredecessors > 0 THEN "next" ELSE "queue") ELSE "wait"
  /\ UNCHANGED <<program, hash, queued, state, at, dep, todo, found, exec>>

\* Without predecessors the creator queues the task itself.
Queue ==
  /\ cpc = "queue"
  /\ queued' = [queued EXCEPT ![at] = @ + 1]
  /\ cpc' = "next"
  /\ UNCHANGED <<program, node, hash, state, at, dep, todo, found, exec>>

\* __kmpc_omp_wait_deps returns, and with it goes the frame its node is in.
EndWait ==
  /\ cpc = "wait" /\ exec[Creator] = Idle
  /\ node[at].npredecessors <= 0
  /\ node' = [node EXCEPT ![at].mem = "gone"]
  /\ state' = [state EXCEPT ![at] = "ran"]
  /\ cpc' = "next"
  /\ UNCHANGED <<program, hash, queued, at, dep, todo, found, exec>>

\* The region ends: __kmp_dephash_free.
FreeHash ==
  /\ cpc = "next" /\ at = Len(program)
  /\ node' = Deref(node, [n \in Members |-> Cardinality(Places(Entries, n))])
  /\ hash' = [a \in Addresses |-> [last_out |-> None, last_ins |-> <<>>]]
  /\ cpc' = "end"
  /\ UNCHANGED <<program, queued, state, at, dep, todo, found, exec>>

-----------------------------------------------------------------------------
\* A thread runs a queued task: the creator, inside a wait or when it is done.
StartTask(t) ==
  /\ exec[t].pc = "idle" /\ (t = Creator => cpc \in {"wait", "end"})
  /\ \E n \in Members :
       /\ queued[n] > 0
       /\ queued' = [queued EXCEPT ![n] = @ - 1]
       /\ state' = [state EXCEPT ![n] = "running"]
       /\ exec' = [exec EXCEPT ![t] = [Idle EXCEPT !.pc = "body", !.task = n]]
  /\ UNCHANGED <<program, node, hash, creator>>

EndTask(t) ==
  LET n == exec[t].task IN
  /\ exec[t].pc = "body"
  /\ state' = [state EXCEPT ![n] = "ran"]
  /\ exec' = [exec EXCEPT ![t] = IF node[n].mem = "none" THEN Idle ELSE [@ EXCEPT !.pc = "mark"]]
  /\ UNCHANGED <<program, node, hash, queued, creator>>

\* __kmp_release_deps: 'no new dependencies are generated' from here on, and the
\* list is for this thread alone;
MarkFinished(t) ==
  LET n == exec[t].task IN
  /\ exec[t].pc = "mark"
  /\ node' = [node EXCEPT ![n].task = FALSE, ![n].successors = <<>>]
  /\ exec' = [exec EXCEPT ![t].pc = "release", ![t].succs = node[n].successors]
  /\ UNCHANGED <<program, hash, queued, state, creator>>

\* Mutant of CountDown: one whose links are still being counted looks ready.
CountDownLoosely(t) ==
  LET s == Head(exec[t].succs) IN
  /\ exec[t].pc = "release" /\ exec[t].succs # <<>>
  /\ node' = [node EXCEPT ![s].npredecessors = @ - 1]
  /\ exec' = [exec EXCEPT ![t].pc = IF node[s].npredecessors <= 1 THEN "offer" ELSE "drop"]
  /\ UNCHANGED <<program, hash, queued, state, creator>>

\* each successor is counted down,
CountDown(t) ==
  LET s == Head(exec[t].succs) IN
  /\ exec[t].pc = "release" /\ exec[t].succs # <<>>
  /\ node' = [node EXCEPT ![s].npredecessors = @ - 1]
  /\ exec' = [exec EXCEPT ![t].pc = IF node[s].npredecessors = 1 THEN "offer" ELSE "drop"]
  /\ UNCHANGED <<program, hash, queued, state, creator>>

\* queued if that was the last, unless it is a wait,
Offer(t) ==
  LET s == Head(exec[t].succs) IN
  /\ exec[t].pc = "offer"
  /\ queued' = IF node[s].task THEN [queued EXCEPT ![s] = @ + 1] ELSE queued
  /\ exec' = [exec EXCEPT ![t].pc = "drop"]
  /\ UNCHANGED <<program, node, hash, state, creator>>

\* and dropped from the list;
Drop(t) ==
  /\ exec[t].pc = "drop"
  /\ node' = DerefAll(node, <<Head(exec[t].succs)>>)
  /\ exec' = [exec EXCEPT ![t].pc = "release", ![t].succs = Tail(@)]
  /\ UNCHANGED <<program, hash, queued, state, creator>>

\* at the end the node of the task itself is.
DropOwn(t) ==
  /\ exec[t].pc = "release" /\ exec[t].succs = <<>>
  /\ node' = DerefAll(node, <<exec[t].task>>)
  /\ exec' = [exec EXCEPT ![t] = Idle]
  /\ UNCHANGED <<program, hash, queued, state, creator>>

-----------------------------------------------------------------------------
DepInit ==
  /\ program \in DepPrograms
  /\ node = [n \in Members |-> [task |-> FALSE, npredecessors |-> 0, successors |-> <<>>, nrefs |-> 0, mem |-> "none"]]
  /\ hash = [a \in Addresses |-> [last_out |-> None, last_ins |-> <<>>]]
  /\ queued = [n \in Members |-> 0]
  /\ state = [n \in Members |-> "new"]
  /\ at = 0 /\ cpc = "next" /\ dep = 1 /\ todo = <<>> /\ found = 0
  /\ exec = [t \in DepThreads |-> Idle]

Create ==
  \/ BeginMember \/ Link \/ Skip \/ Enter \/ SetTask \/ Account \/ Queue \/ EndWait \/ FreeHash
Execute(t) ==
  \/ StartTask(t) \/ EndTask(t) \/ MarkFinished(t) \/ CountDown(t) \/ Offer(t) \/ Drop(t) \/ DropOwn(t)
DepNext == Create \/ \E t \in DepThreads : Execute(t)

\* The creator and the threads of the team run; a free thread takes any task.
DepSpec == DepInit /\ [][DepNext]_depVars
FairDepSpec ==
  DepSpec /\ WF_depVars(Create) /\ \A t \in DepThreads : WF_depVars(Execute(t))

-----------------------------------------------------------------------------
\* Waiting tasks and threads, and the queue, agree with the program: the creator's
\* locals are in range, and a count below zero is that of a member being linked.
TypeOK ==
  /\ at \in 0..Len(program) /\ found \in Nat
  /\ \A n \in Members :
       /\ state[n] \in {"new", "created", "running", "ran"}
       /\ node[n].mem \in {"none", "heap", "freed", "frame", "gone"}
       /\ node[n].npredecessors < 0 => n = at /\ cpc \in {"process", "account"}

\* The creator and the releasing threads between them queue a task once, and a
\* wait never.
QueuedOnce ==
  TypeOK /\ \A n \in Members :
    queued[n] + (IF state[n] \in {"running", "ran"} THEN 1 ELSE 0) <= IF program[n].task \/ state[n] = "ran" THEN 1 ELSE 0

\* References to a node from the hash, from lists of successors, and its own.
References(n) ==
  Cardinality(Places(Entries, n))
    + Cardinality(Places([m \in Members |-> node[m].successors], n))
    + Cardinality(Places([t \in DepThreads |-> exec[t].succs], n))
    + IF state[n] # "ran" \/ (\E t \in DepThreads : exec[t].task = n) THEN 1 ELSE 0

\* Every reference to the node of a task is counted, whoever takes and drops them:
\* a node that is referred to is there, and one that is not is freed.
ReferencesExact ==
  \A n \in Members :
    program[n].task => /\ node[n].mem = "heap" => node[n].nrefs = References(n) /\ node[n].nrefs > 0
                       /\ node[n].mem = "freed" => References(n) = 0

\* 'successor task can be NULL for wait_depends': a thread that releases what a
\* wait waits for finds the node of the wait in its frame.
FrameThere ==
  \A t \in DepThreads :
    exec[t].pc \in {"release", "offer", "drop"} /\ exec[t].succs # <<>> => node[Head(exec[t].succs)].mem # "gone"

\* Nothing starts before what it depends on has ended.
Order == INSTANCE DepOrder WITH
  started <- {n \in Members : state[n] \in {"running", "ran"}},
  ended <- {n \in Members : state[n] = "ran"}
ImplementsOrder == Order!Spec

\* Every task runs and every wait ends.
AllRun == <>(\A n \in Members : state[n] = "ran")
=============================================================================
