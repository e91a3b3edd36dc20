-------------------------------- MODULE Cancel --------------------------------
(***************************************************************************)
(* Cancellation of worksharing constructs and of parallel regions          *)
(* (kmp_cancel.cpp), OMP_CANCELLATION=true. A team goes through a region   *)
(* made of parts, each a worksharing construct or code between two of      *)
(* them; in a part a thread may ask for cancellation, come to cancellation *)
(* points and query the status, as the part has the directives; a part     *)
(* ends with a barrier, __kmpc_barrier or __kmpc_cancel_barrier. The       *)
(* request is one word of the team, t_cancel_request. Whoever is to cancel *)
(* a construct goes to the barrier that ends it; whoever is to cancel the  *)
(* region goes to its end, through a cancel barrier first when it was told *)
(* so anywhere else (the code the compiler makes).                         *)
(***************************************************************************)
EXTENDS Integers, Sequences

CONSTANTS Cancellations,   \* the regions: the team, the parts, how often it runs
          MaxVisits        \* how many directives a thread comes to in a part

\* What a cancel directive names: cancel_parallel, cancel_loop, cancel_sections.
CancelKinds == {"parallel", "loop", "sections"}
NoRequest == "noreq"
RegionPart == [kind : CancelKinds, cancels : BOOLEAN, points : BOOLEAN,
               end : {"barrier", "cancel_barrier"}]
ASSUME CancelAssumption ==
  /\ Cancellations \subseteq [nproc : Nat \ {0}, parts : Seq(RegionPart) \ {<<>>}, runs : Nat]
  /\ MaxVisits \in Nat

VARIABLES
  plan,       \* the region that is run
  request,    \* t_cancel_request
  arrived,    \* how many plain and join barriers each thread has come to,
  released,   \* and how many of each the master has opened
  act,        \* where each thread is: its step and part, the directives it came to,
              \* and whether it is on its way out of the region
  ret,        \* what __kmpc_cancel_barrier is to return, and the case it is in
  runs,       \* how often the region was run
  asked,      \* the kinds asked for in each part, in this run
  told,       \* whether a thread was told to cancel what nobody asked for,
  seen,       \* and the threads whose query said that the part is cancelled
  aborted     \* KMP_ASSERT(0) was reached

cancelVars == <<plan, request, arrived, released, act, ret, runs, asked, told, seen, aborted>>

Members == 0..(plan.nproc - 1)
OneMember == plan.nproc = 1
NthPart(t) == plan.parts[act[t].part]
Working(t) == act[t].step = "work" /\ act[t].visits < MaxVisits
Move(t, step) == act' = [act EXCEPT ![t].step = step]
\* After a directive: on with the part, or out of what it names.
Visited(t, cancelled) ==
  act' = [act EXCEPT ![t].visits = @ + 1, ![t].out = cancelled /\ NthPart(t).kind = "parallel",
                     ![t].step = IF ~cancelled THEN "work"
                                 ELSE IF NthPart(t).kind = "parallel" THEN "cancel_barrier"
                                 ELSE NthPart(t).end]
\* Somebody asked for this in the part, or for the end of the region up to it.
Asked(t, kind) == \/ kind \in asked[act[t].part]
                  \/ \E p \in 1..act[t].part : kind = "parallel" /\ kind \in asked[p]

-----------------------------------------------------------------------------
\* __kmpc_cancel: a compare-and-store of the request. One of another kind that
\* is pending leaves this one without effect (0 is returned).
Ask(t) ==
  LET kind == NthPart(t).kind IN
  /\ Working(t) /\ NthPart(t).cancels /\ t \notin seen
  /\ request' = IF request = NoRequest THEN kind ELSE request
  /\ asked' = [asked EXCEPT ![act[t].part] = @ \cup {kind}]
  /\ Visited(t, request \in {NoRequest, kind})
  /\ UNCHANGED <<plan, arrived, released, ret, runs, told, seen, aborted>>

\* __kmpc_cancellationpoint: a pending request has to be of this kind.
CancellationPoint(t) ==
  LET kind == NthPart(t).kind IN
  /\ Working(t) /\ NthPart(t).points
  /\ aborted' = (aborted \/ request \notin {NoRequest, kind})
  /\ told' = (told \/ (request = kind /\ ~Asked(t, kind)) \/ (t \in seen /\ request # kind))
  /\ Visited(t, request = kind)
  /\ UNCHANGED <<plan, request, arrived, released, ret, runs, asked, seen>>

\* __kmp_get_cancellation_status: meant for code that cleans up and then comes
\* to the cancellation point.
QueryStatus(t) ==
  /\ Working(t) /\ act[t].visits + 1 < MaxVisits /\ NthPart(t).points /\ t \notin seen
  /\ seen' = IF request = NthPart(t).kind THEN seen \cup {t} ELSE seen
  /\ Visited(t, FALSE)
  /\ UNCHANGED <<plan, request, arrived, released, ret, runs, asked, told, aborted>>

FinishPart(t) ==
  /\ act[t].step = "work" /\ t \notin seen
  /\ Move(t, NthPart(t).end)
  /\ UNCHANGED <<plan, request, arrived, released, ret, runs, asked, told, seen, aborted>>

-----------------------------------------------------------------------------
\* __kmpc_barrier: all arrive (a serialized team goes through),
Arrive(t, from, to) ==
  /\ act[t].step = from
  /\ Move(t, to)
  /\ arrived' = IF OneMember THEN arrived ELSE [arrived EXCEPT ![t].plain = @ + 1]
  /\ seen' = seen \ {t}
  /\ UNCHANGED <<plan, request, released, ret, runs, asked, told, aborted>>

\* Mutant of ClearRequest: the barrier leaves the request as it is.
ClearNoRequest == request

\* the master resets the request of a worksharing construct,
ClearRequest == IF request \in {"loop", "sections"} THEN NoRequest ELSE request

\* and lets everybody go.
OpenBarrier ==
  /\ ~OneMember
  /\ arrived[0].plain > released.plain
  /\ \A t \in Members : arrived[t].plain > released.plain
  /\ released' = [released EXCEPT !.plain = @ + 1]
  /\ request' = ClearRequest
  /\ UNCHANGED <<plan, arrived, act, ret, runs, asked, told, seen, aborted>>

Opened(t) == OneMember \/ released.plain >= arrived[t].plain
Begin(n) == [step |-> "work", part |-> n, visits |-> 0, out |-> FALSE]
NextPart(t) == [act EXCEPT ![t] = IF @.out \/ @.part = Len(plan.parts)
                                    THEN [@ EXCEPT !.step = "join"] ELSE Begin(@.part + 1)]

LeaveBarrier(t) ==
  /\ act[t].step = "in_barrier" /\ Opened(t)
  /\ act' = NextPart(t)
  /\ UNCHANGED <<plan, request, arrived, released, ret, runs, asked, told, seen, aborted>>

\* __kmpc_cancel_barrier: a barrier, and the request decides on the rest; 1 sends
\* the thread to the end of the region.
LookAtRequest(t) ==
  /\ act[t].step = "in_first" /\ Opened(t)
  /\ ret' = [ret EXCEPT ![t] = request]
  /\ told' = (told \/ (request # NoRequest /\ ~Asked(t, request)))
  /\ act' = IF request = NoRequest THEN NextPart(t) ELSE [act EXCEPT ![t].step = "second_barrier"]
  /\ UNCHANGED <<plan, request, arrived, released, runs, asked, seen, aborted>>

\* Mutant of WayToReset: the request is reset without a second barrier.
ResetAtOnce(t) == act[t].step = "second_barrier"

\* 'Ensure that threads have checked the flag, when leaving the above barrier':
WayToReset(t) == act[t].step = "in_second" /\ Opened(t)

\* the request is reset behind a second barrier, and a construct that is not
\* the region needs a third one.
ResetRequest(t) ==
  /\ WayToReset(t)
  /\ request' = NoRequest
  /\ Move(t, IF ret[t] = "parallel" THEN "join" ELSE "third_barrier")
  /\ UNCHANGED <<plan, arrived, released, ret, runs, asked, told, seen, aborted>>

LeaveThird(t) ==
  /\ act[t].step = "in_third" /\ Opened(t)
  /\ Move(t, "join")
  /\ UNCHANGED <<plan, request, arrived, released, ret, runs, asked, told, seen, aborted>>

\* The join barrier, of a kind of its own, and the fork of the next run, which
\* clears the request (__kmp_fork_call, __kmp_serialized_parallel).
Join(t) ==
  /\ act[t].step = "join"
  /\ Move(t, "joined")
  /\ arrived' = [arrived EXCEPT ![t].join = @ + 1]
  /\ UNCHANGED <<plan, request, released, ret, runs, asked, told, seen, aborted>>

ForkAgain ==
  /\ \A t \in Members : arrived[t].join > released.join
  /\ runs < plan.runs
  /\ released' = [released EXCEPT !.join = @ + 1]
  /\ runs' = runs + 1
  /\ request' = NoRequest
  /\ act' = [t \in Members |-> Begin(1)]
  /\ asked' = [p \in DOMAIN plan.parts |-> {}]
  /\ UNCHANGED <<plan, arrived, ret, told, seen, aborted>>

-----------------------------------------------------------------------------
CancelInit(regions) ==
  /\ plan \in regions
  /\ request = NoRequest
  /\ arrived = [t \in Members |-> [plain |-> 0, join |-> 1]]
  /\ released = [plain |-> 0, join |-> 0]
  /\ act = [t \in Members |-> [Begin(0) EXCEPT !.step = "joined"]]
  /\ ret = [t \in Members |-> NoRequest]
  /\ runs = 0 /\ asked = <<>> /\ told = FALSE /\ seen = {} /\ aborted = FALSE

Directive(t) == Ask(t) \/ CancellationPoint(t) \/ QueryStatus(t) \/ FinishPart(t)
Barrier(t) == \/ Arrive(t, "barrier", "in_barrier")
              \/ Arrive(t, "cancel_barrier", "in_first")
              \/ Arrive(t, "second_barrier", "in_second")
              \/ Arrive(t, "third_barrier", "in_third")
              \/ LeaveBarrier(t) \/ LookAtRequest(t) \/ ResetRequest(t) \/ LeaveThird(t)
RunCancel ==
  \/ OpenBarrier \/ ForkAgain
  \/ \E t \in Members : Directive(t) \/ Barrier(t) \/ Join(t)

-----------------------------------------------------------------------------
\* A request is for the construct, or the region, in which it was made: no later
\* one is found cancelled, no point finds a request of another kind pending (the
\* KMP_ASSERT), a thread whose query said so finds the request at the cancellation
\* point too, and nobody works on a part whose end another thread has passed.
CancelSound ==
  /\ ~aborted /\ ~told
  /\ \A t, u \in Members :
       act[u].step = "work" /\ act[t].step \notin {"join", "joined"} => act[t].part <= act[u].part

\* The region was run as often as it is to be, cancelled or not.
RegionsDone == runs = plan.runs /\ \A t \in Members : act[t].step = "joined"

\* The regions for which CancelSound is proved (LoopProofs): nothing is cancelled
\* right behind a cancel barrier, at which a late thread still looks at the request;
\* the region is cancelled only where all come to a cancel barrier; and a team of
\* one, whose barriers reset nothing, cancels only there.
Orderly(region) == \A n \in DOMAIN region.parts : region.parts[n].cancels =>
  /\ n > 1 => region.parts[n - 1].end = "barrier"
  /\ region.parts[n].kind = "parallel" \/ region.nproc = 1 => region.parts[n].end = "cancel_barrier"
=============================================================================
