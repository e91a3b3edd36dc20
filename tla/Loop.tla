-------------------------------- MODULE Loop --------------------------------
(***************************************************************************)
(* The worksharing of a region. A loop is either given out chunk by chunk  *)
(* while it runs (Dispatch: __kmp_dispatch_init and _next) or shared out   *)
(* before it starts (StaticSchedule: __kmp_for_static_init and its         *)
(* relatives), the compiler chooses by the schedule clause; the iterations *)
(* of a nest may depend on each other (Doacross), and a construct or the   *)
(* region may be cancelled (Cancel). The four keep no common state beyond  *)
(* the ring of buffers, in which dispatch and doacross have fields of      *)
(* their own: those that are not used stand still.                         *)
(***************************************************************************)
EXTENDS Doacross, StaticSchedule, Cancel

\* No region with dispatched loops, no loop shared out statically, no nest with
\* dependences, and no region that can be cancelled.
NoRegion == [nproc |-> 1, loops |-> <<>>]
NoLoop == [construct |-> "for", schedule |-> "static", lb |-> 1, ub |-> 0, incr |-> 1, chunk |-> 1,
           nteams |-> 0, nth |-> 0]
NoNest == [nproc |-> 1, nests |-> <<>>]
NoParts == [nproc |-> 1, parts |-> <<>>, runs |-> 0]

NoStatic == sloop = NoLoop /\ static_kind = "greedy" /\ part = <<>>
NoDispatch == InitWith({NoRegion})
NoDoacross == DoacrossInitially({NoNest})
NoCancel == CancelInit({NoParts})

LoopInit ==
  \/ Init /\ NoStatic /\ NoDoacross /\ NoCancel
  \/ NoDispatch /\ StaticInit /\ NoDoacross /\ NoCancel
  \/ NoDispatch /\ NoStatic /\ DoacrossInitially(Nests) /\ NoCancel
  \/ NoDispatch /\ NoStatic /\ NoDoacross /\ CancelInit(Cancellations)

Running ==
  \/ (\E t \in Threads : Run(t)) /\ UNCHANGED <<staticVars, doacrossVars, cancelVars>>
  \/ RunNests /\ UNCHANGED <<dispatchVars, staticVars, cancelVars>>
  \/ RunCancel /\ UNCHANGED <<dispatchVars, staticVars, doacrossVars>>
LoopNext == Running \/ (StaticNext /\ UNCHANGED <<dispatchVars, doacrossVars, cancelVars>>)

loopVars == <<dispatchVars, staticVars, doacrossVars, cancelVars>>
LoopSpec == LoopInit /\ [][LoopNext]_loopVars
\* The team runs as long as one of its threads can: a thread that waits has
\* nothing else to do, and all retries are answers to a step of another thread.
FairLoopSpec == LoopSpec /\ WF_loopVars(Running)

-----------------------------------------------------------------------------
\* Whatever a thread of a loop works on is there and is of that loop: the shared
\* buffer (BufferOfLoop), the locks for stealing (LocksThere), and the flags of
\* a nest with dependences, which are freed once all are through (FlagsThere).
SharedThere == BufferOfLoop /\ LocksThere /\ FlagsThere

\* Iterations that have an order keep it: ordered regions are entered in turn
\* (OrderedInTurn), and an iteration of a nest with dependences is through only
\* after those it depends on (SinksFirst).
OrderKept == OrderedInTurn /\ SinksFirst

\* All the threads get through all their loops: the ring moves on, the ordered
\* regions take their turns, the search for victims ends; through all nests; and
\* through all regions, cancelled or not.
AllEnd == <>(LoopsDone /\ NestsDone /\ RegionsDone)
=============================================================================
