----------------------------- MODULE LoopProofs -----------------------------
(***************************************************************************)
(* Worksharing, for teams of any size. Cancellation is sound in regions of *)
(* any parts in which the two patterns do not occur that break it          *)
(* (Orderly). Whatever a thread works on is there, and is of its loop: in  *)
(* the ring of shared buffers, for any loops in a region that does not     *)
(* come to a loop with stealing over 8 byte variables while others may     *)
(* still be in the loop before it (Apart), and in nests with dependences.  *)
(***************************************************************************)
EXTENDS Loop, FiniteSetTheorems, SequenceTheorems, WellFoundedInduction, TLAPS

(* Cancellation. *)

Requests == CancelKinds \cup {NoRequest}
Steps == {"work", "barrier", "cancel_barrier", "second_barrier", "third_barrier",
          "in_barrier", "in_first", "in_second", "in_third", "join", "joined"}
Nth(n) == plan.parts[n]
Last == Len(plan.parts)
\* The step behind the barrier that ends part n.
Inside(n) == IF Nth(n).end = "barrier" THEN "in_barrier" ELSE "in_first"
Waits(t) == arrived[t].plain = released.plain + 1
Free(t) == arrived[t].plain = released.plain

Whereabouts == [step : Steps, part : Nat, visits : Nat, out : BOOLEAN]
Types ==
  /\ plan \in [nproc : Nat \ {0}, parts : Seq(RegionPart), runs : Nat]
  /\ Orderly(plan) /\ (plan.parts = <<>> => plan.runs = 0)
  /\ request \in Requests
  /\ arrived \in [Members -> [plain : Nat, join : Nat]]
  /\ released \in [plain : Nat, join : Nat]
  /\ act \in [Members -> Whereabouts]
  /\ ret \in [Members -> Requests]
  /\ runs \in Nat /\ seen \subseteq Members
  /\ told \in BOOLEAN /\ aborted \in BOOLEAN
Joins == \A t \in Members :
  arrived[t].join = released.join + IF act[t].step = "joined" THEN 1 ELSE 0

\* What is asked for in part n is known as such.
Request(n) ==
  /\ asked \in [DOMAIN plan.parts -> SUBSET CancelKinds]
  /\ \/ request = NoRequest
     \/ n <= Last /\ request = Nth(n).kind /\ Nth(n).cancels /\ Nth(n).kind \in asked[n]
SeenIn(n) == \A t \in seen :
  n <= Last /\ act[t].part = n /\ act[t].step \in {"work", Nth(n).end} /\ request = Nth(n).kind

\* The team is at part n: a thread is late at the end of the one before, or is in this
\* one, or waits at its end; or it is out when there is no such part.
Late(t, n) == /\ n > 1 /\ act[t].part = n - 1 /\ act[t].step = Inside(n - 1)
              /\ Free(t) /\ ~act[t].out
In(t, n) == /\ n <= Last /\ act[t].part = n
            /\ \/ act[t].step \in {"work", Nth(n).end} /\ Free(t)
               \/ act[t].step = Inside(n) /\ Waits(t)
            /\ act[t].out => request = "parallel"
Gone(t, n) == n = Last + 1 /\ act[t].step \in {"join", "joined"} /\ Free(t)
AtPart(n) == /\ Request(n) /\ SeenIn(n)
             /\ \A t \in Members : Late(t, n) \/ In(t, n) \/ Gone(t, n)

\* The request of part n to cancel the region was there when its barrier opened.
AtCancelled(n) ==
  /\ asked \in [DOMAIN plan.parts -> SUBSET CancelKinds]
  /\ request = "parallel" /\ "parallel" \in asked[n] /\ seen = {}
  /\ \A t \in Members :
       /\ act[t].part = n
       /\ \/ act[t].step = "in_first" /\ Free(t)
          \/ act[t].step = "second_barrier" /\ ret[t] = "parallel" /\ Free(t)
          \/ act[t].step = "in_second" /\ ret[t] = "parallel" /\ Waits(t)

\* It was there for all: nobody works any more.
AtEnd ==
  /\ seen = {}
  /\ \A t \in Members :
       /\ Free(t)
       /\ \/ act[t].step = "in_second" /\ ret[t] = "parallel"
          \/ act[t].step \in {"join", "joined"}

\* A team of one.
AtPartAlone(n) ==
  /\ Request(n) /\ SeenIn(n)
  /\ act[0].part = n /\ act[0].step \in {"work", Nth(n).end, Inside(n)}
  /\ act[0].out => request = "parallel"
AtEndAlone ==
  /\ seen = {}
  /\ act[0].step \in {"second_barrier", "third_barrier", "in_second", "in_third", "join", "joined"}

Together == AtEnd \/ (\E n \in 1..(Last + 1) : AtPart(n)) \/ \E n \in 1..Last : AtCancelled(n)
ByItself == AtEndAlone \/ \E n \in 1..Last : AtPartAlone(n)

IInv == Types /\ Joins /\ ~told /\ ~aborted /\ IF OneMember THEN ByItself ELSE Together

-----------------------------------------------------------------------------
(* Who works, works on a part. *)
LEMMA Worker ==
  ASSUME IInv, NEW t \in Members, act[t].step \in {"work", "barrier", "cancel_barrier", "in_barrier", "in_first"}
  PROVE  act[t].part \in DOMAIN plan.parts /\ NthPart(t) \in RegionPart /\ Last \in Nat
<1>1. Last \in Nat /\ DOMAIN plan.parts = 1..Last /\ \A n \in 1..Last : Nth(n) \in RegionPart
  BY DEF IInv, Types, Last, Nth
<1>a. act[t].part \in Nat
  BY DEF IInv, Types, Whereabouts
<1>2. CASE OneMember
  <2>1. t = 0
    BY <1>2 DEF OneMember, IInv, Types, Members
  <2>2. PICK n \in 1..Last : AtPartAlone(n)
    BY <1>2, <2>1 DEF IInv, ByItself, AtEndAlone
  <2> QED
    BY <1>1, <2>1, <2>2 DEF AtPartAlone, NthPart, Nth
<1>3. CASE ~OneMember
  <2>1. \/ \E n \in 1..(Last + 1) : AtPart(n)
        \/ \E n \in 1..Last : AtCancelled(n)
    BY <1>3 DEF IInv, Together, AtEnd
  <2>2. CASE \E n \in 1..Last : AtCancelled(n)
    BY <1>1, <2>2 DEF AtCancelled, NthPart, Nth
  <2>3. ASSUME NEW n \in 1..(Last + 1), AtPart(n)
        PROVE  act[t].part \in 1..Last
    <3>1. Late(t, n) \/ In(t, n)
      BY <2>3 DEF AtPart, Gone
    <3> QED
      BY <1>1, <1>a, <3>1 DEF Late, In
  <2> QED
    BY <1>1, <2>1, <2>2, <2>3 DEF NthPart, Nth
<1> QED
  BY <1>2, <1>3

LEMMA TypesKeep ==
  ASSUME IInv, RunCancel
  PROVE  Types' /\ plan' = plan
<1>0. Types /\ plan' = plan
  BY DEF IInv, RunCancel, OpenBarrier, ForkAgain, Directive, Ask, CancellationPoint, QueryStatus, FinishPart,
         Barrier, Arrive, LeaveBarrier, LookAtRequest, ResetRequest, LeaveThird, Join
<1>1. Last \in Nat /\ Members' = Members /\ Orderly(plan')
  BY <1>0 DEF Last, Types, Members
<1>2. {"work", "barrier", "cancel_barrier", "second_barrier", "third_barrier", "in_barrier", "in_first", "in_second",
       "in_third", "join", "joined"} \subseteq Steps /\ NoRequest \in Requests /\ CancelKinds \subseteq Requests
  BY DEF Steps, Requests
<1> DEFINE Rest == /\ request \in Requests /\ arrived \in [Members -> [plain : Nat, join : Nat]]
                   /\ released \in [plain : Nat, join : Nat] /\ ret \in [Members -> Requests]
                   /\ runs \in Nat /\ seen \subseteq Members /\ told \in BOOLEAN /\ aborted \in BOOLEAN
<1>3. Rest /\ act \in [Members -> Whereabouts]
  BY <1>0 DEF Types
<1>4. ASSUME Rest', act' \in [Members -> Whereabouts]
      PROVE  Types'
  BY <1>0, <1>1, <1>4 DEF Types
<1>5. ASSUME NEW t \in Members, NEW s \in Steps, Move(t, s)
      PROVE  act' \in [Members -> Whereabouts]
  BY <1>3, <1>5 DEF Move, Whereabouts
<1>6. CASE OpenBarrier
  <2>1. request' \in Requests /\ released' \in [plain : Nat, join : Nat]
    BY <1>2, <1>3, <1>6 DEF OpenBarrier, ClearRequest
  <2> QED
    BY <1>1, <1>3, <1>4, <1>6, <2>1 DEF OpenBarrier
<1>7. CASE ForkAgain
  <2>1. request' \in Requests /\ released' \in [plain : Nat, join : Nat] /\ runs' \in Nat
    BY <1>2, <1>3, <1>7 DEF ForkAgain
  <2>2. Begin(1) \in Whereabouts
    BY <1>2 DEF Begin, Whereabouts
  <2>3. act' \in [Members -> Whereabouts]
    BY <1>7, <2>2 DEF ForkAgain
  <2> QED
    BY <1>1, <1>3, <1>4, <1>7, <2>1, <2>3 DEF ForkAgain
<1>8. ASSUME NEW t \in Members, Directive(t)
      PROVE  Types'
  <2>1. act[t].step = "work"
    BY <1>8 DEF Directive, Ask, CancellationPoint, QueryStatus, FinishPart, Working
  <2>2. NthPart(t) \in RegionPart
    BY <2>1, Worker
  <2>3. NthPart(t).end \in Steps /\ NthPart(t).kind \in CancelKinds
    BY <2>2 DEF RegionPart, Steps
  <2>4. ASSUME NEW c \in BOOLEAN, Visited(t, c)
        PROVE  act' \in [Members -> Whereabouts]
    <3>1. PICK s \in Steps, b \in BOOLEAN :
            act' = [act EXCEPT ![t].visits = @ + 1, ![t].out = b, ![t].step = s]
      <4>1. (c /\ NthPart(t).kind = "parallel") \in BOOLEAN
        OBVIOUS
      <4>2. (IF ~c THEN "work" ELSE IF NthPart(t).kind = "parallel" THEN "cancel_barrier" ELSE NthPart(t).end) \in Steps
        BY <1>2, <2>3
      <4> QED
        BY <2>4, <4>1, <4>2 DEF Visited
    <3>2. act[t] \in Whereabouts
      BY <1>3
    <3>3. [act[t] EXCEPT !.visits = @ + 1, !.out = b, !.step = s] \in Whereabouts
      <4>1. PICK n \in Nat : n = act[t].visits + 1
        BY <3>2 DEF Whereabouts
      <4>2. [act[t] EXCEPT !.visits = n, !.out = b, !.step = s] \in Whereabouts
        BY <3>2, Zenon DEF Whereabouts
      <4> QED
        BY <4>1, <4>2
    <3>4. act' = [act EXCEPT ![t] = [act[t] EXCEPT !.visits = @ + 1, !.out = b, !.step = s]]
      BY <1>3, <3>1, <3>2 DEF Whereabouts
    <3> QED
      BY <1>3, <3>3, <3>4
  <2>5. CASE Ask(t)
    <3>1. act' \in [Members -> Whereabouts]
      <4>1. (request \in {NoRequest, NthPart(t).kind}) \in BOOLEAN
        OBVIOUS
      <4> QED
        BY <2>4, <2>5, <4>1 DEF Ask
    <3>2. request' \in Requests
      BY <1>2, <1>3, <2>3, <2>5 DEF Ask
    <3> QED
      BY <1>1, <1>3, <1>4, <2>5, <3>1, <3>2 DEF Ask
  <2>6. CASE CancellationPoint(t)
    <3>1. act' \in [Members -> Whereabouts]
      <4>1. (request = NthPart(t).kind) \in BOOLEAN
        OBVIOUS
      <4> QED
        BY <2>4, <2>6, <4>1 DEF CancellationPoint
    <3>2. told' \in BOOLEAN /\ aborted' \in BOOLEAN
      BY <2>6 DEF CancellationPoint
    <3> QED
      BY <1>1, <1>3, <1>4, <2>6, <3>1, <3>2 DEF CancellationPoint
  <2>7. CASE QueryStatus(t)
    <3>1. act' \in [Members -> Whereabouts]
      BY <2>4, <2>7 DEF QueryStatus
    <3>2. seen' \subseteq Members
      BY <1>3, <2>7 DEF QueryStatus
    <3> QED
      BY <1>1, <1>3, <1>4, <2>7, <3>1, <3>2 DEF QueryStatus
  <2>8. CASE FinishPart(t)
    <3>1. act' \in [Members -> Whereabouts]
      BY <1>5, <2>3, <2>8 DEF FinishPart
    <3> QED
      BY <1>1, <1>3, <1>4, <2>8, <3>1 DEF FinishPart
  <2> QED
    BY <1>8, <2>5, <2>6, <2>7, <2>8 DEF Directive
<1>9. ASSUME NEW t \in Members, NEW from \in Steps, NEW to \in Steps, Arrive(t, from, to)
      PROVE  Types'
  <2>1. act' \in [Members -> Whereabouts]
    BY <1>5, <1>9 DEF Arrive
  <2>2. arrived' \in [Members -> [plain : Nat, join : Nat]] /\ seen' \subseteq Members
    BY <1>3, <1>9 DEF Arrive
  <2> QED
    BY <1>1, <1>3, <1>4, <1>9, <2>1, <2>2 DEF Arrive
<1>10. ASSUME NEW t \in Members
       PROVE  NextPart(t) \in [Members -> Whereabouts]
  <2>1. ASSUME NEW n \in Nat
        PROVE  Begin(n + 1) \in Whereabouts
    BY <1>2 DEF Begin, Whereabouts
  <2>2. act[t] \in Whereabouts /\ act[t].part \in Nat
    BY <1>3 DEF Whereabouts
  <2>3. [act[t] EXCEPT !.step = "join"] \in Whereabouts
    BY <1>2, <2>2 DEF Whereabouts
  <2>4. Begin(act[t].part + 1) \in Whereabouts
    BY <2>1, <2>2
  <2> QED
    BY <1>3, <2>3, <2>4 DEF NextPart
<1>11. ASSUME NEW t \in Members, Barrier(t) \/ Join(t)
       PROVE  Types'
  <2>1. CASE LeaveBarrier(t)
    <3>1. act' \in [Members -> Whereabouts]
      BY <1>10, <2>1 DEF LeaveBarrier
    <3> QED
      BY <1>1, <1>3, <1>4, <2>1, <3>1 DEF LeaveBarrier
  <2>2. CASE LookAtRequest(t)
    <3>1. [act EXCEPT ![t].step = "second_barrier"] \in [Members -> Whereabouts]
      BY <1>2, <1>3 DEF Whereabouts
    <3>2. act' \in [Members -> Whereabouts]
      BY <1>10, <2>2, <3>1 DEF LookAtRequest
    <3>3. ret' \in [Members -> Requests] /\ told' \in BOOLEAN
      BY <1>3, <2>2 DEF LookAtRequest
    <3> QED
      BY <1>1, <1>3, <1>4, <2>2, <3>2, <3>3 DEF LookAtRequest
  <2>3. CASE ResetRequest(t)
    <3>1. act' \in [Members -> Whereabouts]
      BY <1>2, <1>5, <2>3 DEF ResetRequest
    <3> QED
      BY <1>1, <1>2, <1>3, <1>4, <2>3, <3>1 DEF ResetRequest
  <2>4. CASE LeaveThird(t)
    <3>1. act' \in [Members -> Whereabouts]
      BY <1>2, <1>5, <2>4 DEF LeaveThird
    <3> QED
      BY <1>1, <1>3, <1>4, <2>4, <3>1 DEF LeaveThird
  <2>5. CASE Join(t)
    <3>1. act' \in [Members -> Whereabouts]
      BY <1>2, <1>5, <2>5 DEF Join
    <3>2. arrived' \in [Members -> [plain : Nat, join : Nat]]
      BY <1>3, <2>5 DEF Join
    <3> QED
      BY <1>1, <1>3, <1>4, <2>5, <3>1, <3>2 DEF Join
  <2> QED
    BY <1>2, <1>9, <1>11, <2>1, <2>2, <2>3, <2>4, <2>5 DEF Barrier
<1> QED
  BY <1>0, <1>6, <1>7, <1>8, <1>11 DEF RunCancel

(* Who has joined is counted. *)
LEMMA JoinsKeep ==
  ASSUME IInv, RunCancel
  PROVE  Joins'
<1>1. Types /\ Joins /\ Types' /\ Members' = Members
  BY TypesKeep DEF IInv, Members
<1>2. ASSUME released'.join = released.join,
             \A u \in Members : /\ arrived'[u].join = arrived[u].join
                                /\ act'[u].step = "joined" <=> act[u].step = "joined"
      PROVE  Joins'
  BY <1>1, <1>2, Zenon DEF Joins
<1>3. ASSUME NEW t \in Members, act[t].step # "joined", act'[t].step # "joined",
             \A u \in Members \ {t} : act'[u] = act[u],
             \A u \in Members : arrived'[u].join = arrived[u].join, released' = released
      PROVE  Joins'
  BY <1>2, <1>3
<1>4. CASE OpenBarrier
  <2>1. released'.join = released.join
    BY <1>1, <1>4 DEF OpenBarrier, Types
  <2> QED
    BY <1>2, <1>4, <2>1 DEF OpenBarrier
<1>5. CASE ForkAgain
  <2>1. \A t \in Members : arrived[t].join = released.join + 1
    BY <1>1, <1>5 DEF ForkAgain, Joins, Types
  <2>2. released'.join = released.join + 1 /\ \A t \in Members : act'[t].step = "work"
    BY <1>1, <1>5 DEF ForkAgain, Types, Begin
  <2>3. arrived' = arrived /\ released.join \in Nat
    BY <1>1, <1>5 DEF ForkAgain, Types
  <2> QED
    BY <1>1, <2>1, <2>2, <2>3 DEF Joins
<1>6. ASSUME NEW t \in Members, Directive(t)
      PROVE  Joins'
  <2>1. act[t].step = "work" /\ arrived' = arrived /\ released' = released
    BY <1>6 DEF Directive, Ask, CancellationPoint, QueryStatus, FinishPart, Working
  <2>2. NthPart(t).end # "joined"
    BY <2>1, Worker DEF RegionPart
  <2>3. act'[t].step # "joined" /\ \A u \in Members \ {t} : act'[u] = act[u]
    <3>1. ASSUME NEW c \in BOOLEAN, Visited(t, c)
          PROVE  act'[t].step # "joined" /\ \A u \in Members \ {t} : act'[u] = act[u]
      BY <1>1, <2>2, <3>1 DEF Visited, Types, Whereabouts
    <3>2. CASE Ask(t)
      <4>1. (request \in {NoRequest, NthPart(t).kind}) \in BOOLEAN
        OBVIOUS
      <4> QED
        BY <3>1, <3>2, <4>1 DEF Ask
    <3>3. CASE CancellationPoint(t)
      BY <3>1, <3>3 DEF CancellationPoint
    <3>4. CASE QueryStatus(t)
      BY <3>1, <3>4 DEF QueryStatus
    <3>5. CASE FinishPart(t)
      BY <1>1, <2>2, <3>5 DEF FinishPart, Move, Types, Whereabouts
    <3> QED
      BY <1>6, <3>2, <3>3, <3>4, <3>5 DEF Directive
  <2> QED
    BY <1>3, <2>1, <2>3
<1>7. ASSUME NEW t \in Members, NEW to, to # "joined", NEW from, from # "joined", Arrive(t, from, to)
      PROVE  Joins'
  <2>1. \A u \in Members : arrived'[u].join = arrived[u].join
    BY <1>1, <1>7 DEF Arrive, Types
  <2>2. act[t].step # "joined" /\ act'[t].step # "joined" /\ \A u \in Members \ {t} : act'[u] = act[u]
    BY <1>1, <1>7 DEF Arrive, Move, Types, Whereabouts
  <2> QED
    BY <1>3, <1>7, <2>1, <2>2 DEF Arrive
<1>8. ASSUME NEW t \in Members, LeaveBarrier(t) \/ LookAtRequest(t) \/ ResetRequest(t) \/ LeaveThird(t)
      PROVE  Joins'
  <2>1. act[t].step # "joined" /\ arrived' = arrived /\ released' = released
    BY <1>8 DEF LeaveBarrier, LookAtRequest, ResetRequest, WayToReset, LeaveThird
  <2>2. ASSUME act' = NextPart(t)
        PROVE  act'[t].step # "joined" /\ \A u \in Members \ {t} : act'[u] = act[u]
    BY <1>1, <2>2 DEF NextPart, Begin, Types, Whereabouts
  <2>3. act'[t].step # "joined" /\ \A u \in Members \ {t} : act'[u] = act[u]
    <3>1. CASE LeaveBarrier(t)
      BY <2>2, <3>1 DEF LeaveBarrier
    <3>2. CASE LookAtRequest(t)
      <4>1. CASE request = NoRequest
        BY <2>2, <3>2, <4>1 DEF LookAtRequest
      <4>2. CASE request # NoRequest
        BY <1>1, <3>2, <4>2 DEF LookAtRequest, Types, Whereabouts
      <4> QED
        BY <4>1, <4>2
    <3>3. CASE ResetRequest(t)
      BY <1>1, <3>3 DEF ResetRequest, Move, Types, Whereabouts
    <3>4. CASE LeaveThird(t)
      BY <1>1, <3>4 DEF LeaveThird, Move, Types, Whereabouts
    <3> QED
      BY <1>8, <3>1, <3>2, <3>3, <3>4
  <2> QED
    BY <1>3, <2>1, <2>3
<1>9. ASSUME NEW t \in Members, Join(t)
      PROVE  Joins'
  <2>1. act[t].step = "join" /\ act'[t].step = "joined" /\ released' = released
        /\ arrived'[t].join = arrived[t].join + 1
    BY <1>1, <1>9 DEF Join, Move, Types, Whereabouts
  <2>2. \A u \in Members \ {t} : act'[u] = act[u] /\ arrived'[u] = arrived[u]
    BY <1>1, <1>9 DEF Join, Move, Types, Whereabouts
  <2>3. released.join \in Nat /\ \A u \in Members : arrived[u].join \in Nat
    BY <1>1 DEF Types
  <2> QED
    BY <1>1, <2>1, <2>2, <2>3 DEF Joins
<1>10. ASSUME NEW t \in Members, Barrier(t)
       PROVE  Joins'
  BY <1>7, <1>8, <1>10 DEF Barrier
<1> QED
  BY <1>4, <1>5, <1>6, <1>9, <1>10 DEF RunCancel

-----------------------------------------------------------------------------
(* The parts of the region, and what Orderly says of them. *)
LEMMA Parts ==
  ASSUME Types
  PROVE  /\ Last \in Nat /\ DOMAIN plan.parts = 1..Last
         /\ \A n \in 1..Last :
              /\ Nth(n).kind \in CancelKinds /\ Nth(n).end \in {"barrier", "cancel_barrier"}
              /\ Nth(n).cancels =>
                   /\ n > 1 => Nth(n - 1).end = "barrier"
                   /\ Nth(n).kind = "parallel" => Nth(n).end = "cancel_barrier"
                   /\ OneMember => Nth(n).end = "cancel_barrier"
<1>1. Last \in Nat /\ DOMAIN plan.parts = 1..Last /\ \A n \in 1..Last : Nth(n) \in RegionPart
  BY DEF Types, Last, Nth
<1> QED
  BY <1>1 DEF Types, Orderly, Nth, RegionPart, OneMember

(* What a directive does to the thread that comes to it, in a part whose request is *)
(* what its own kind says.                                                          *)
LEMMA AfterDirective ==
  ASSUME Types, NEW t \in Members, NEW n \in 1..Last, act[t].part = n, act[t].step = "work",
         Request(n), act[t].out => request = "parallel", Directive(t),
         t \in seen => request = Nth(n).kind
  PROVE  /\ plan' = plan /\ released' = released /\ arrived' = arrived
         /\ \A u \in Members \ {t} : act'[u] = act[u]
         /\ request # NoRequest => request' = request
         /\ Request(n)'
         /\ act'[t].part = n /\ act'[t].step \in {"work", Nth(n).end}
         /\ act'[t].out => request' = "parallel"
         /\ seen' \ {t} \subseteq seen /\ seen \subseteq seen' /\ seen' \subseteq Members
         /\ t \in seen' => request' = Nth(n).kind
         /\ told' = told /\ aborted' = aborted
<1>1. NthPart(t) = Nth(n) /\ Last \in Nat /\ DOMAIN plan.parts = 1..Last /\ Nth(n).kind \in CancelKinds
  BY Parts DEF NthPart, Nth
<1>2. NoRequest \notin CancelKinds /\ "parallel" \in CancelKinds
  BY DEF NoRequest, CancelKinds
<1>3. request \in {NoRequest, Nth(n).kind}
      /\ (request # NoRequest => Nth(n).cancels /\ Nth(n).kind \in asked[n])
      /\ asked \in [1..Last -> SUBSET CancelKinds]
  BY <1>1 DEF Request
<1>4. ASSUME NEW c \in BOOLEAN, Visited(t, c), c => Nth(n).cancels
      PROVE  /\ act'[t].part = n /\ act'[t].step \in {"work", Nth(n).end}
             /\ act'[t].out <=> c /\ Nth(n).kind = "parallel"
             /\ \A u \in Members \ {t} : act'[u] = act[u]
  <2>1. Nth(n).cancels /\ Nth(n).kind = "parallel" => Nth(n).end = "cancel_barrier"
    BY Parts
  <2> QED
    BY <1>1, <1>4, <2>1 DEF Visited, Types, Whereabouts
<1>5. ASSUME plan' = plan, asked' \in [1..Last -> SUBSET CancelKinds],
             request' = NoRequest \/ (request' = Nth(n).kind /\ Nth(n).cancels /\ Nth(n).kind \in asked'[n])
      PROVE  Request(n)'
  BY <1>1, <1>5 DEF Request, Nth, Last
<1>6. CASE Ask(t)
  <2>1. Nth(n).cancels /\ request' = Nth(n).kind
    BY <1>1, <1>3, <1>6 DEF Ask
  <2>2. asked' \in [1..Last -> SUBSET CancelKinds] /\ Nth(n).kind \in asked'[n]
    BY <1>1, <1>3, <1>6 DEF Ask
  <2>3. Visited(t, TRUE)
    <3>1. (request \in {NoRequest, NthPart(t).kind}) = TRUE
      BY <1>1, <1>3
    <3> QED
      BY <1>6, <3>1 DEF Ask
  <2> QED
    BY <1>1, <1>2, <1>3, <1>4, <1>5, <1>6, <2>1, <2>2, <2>3 DEF Ask, Types
<1>7. CASE CancellationPoint(t)
  <2>1. (request = NthPart(t).kind) \in BOOLEAN
    OBVIOUS
  <2>2. /\ act'[t].part = n /\ act'[t].step \in {"work", Nth(n).end}
        /\ act'[t].out <=> (request = Nth(n).kind) /\ Nth(n).kind = "parallel"
        /\ \A u \in Members \ {t} : act'[u] = act[u]
    BY <1>1, <1>2, <1>3, <1>4, <1>7, <2>1 DEF CancellationPoint
  <2>3. told' = told /\ aborted' = aborted
    <3>1. request = Nth(n).kind => Asked(t, Nth(n).kind)
      BY <1>2, <1>1, <1>3 DEF Asked
    <3> QED
      BY <1>1, <1>3, <1>7, <3>1 DEF CancellationPoint, Types
  <2>4. plan' = plan /\ request' = request /\ asked' = asked /\ seen' = seen /\ arrived' = arrived /\ released' = released
    BY <1>7 DEF CancellationPoint
  <2>5. Request(n)'
    BY <1>3, <1>5, <2>4
  <2> QED
    BY <2>2, <2>3, <2>4, <2>5 DEF Types
<1>8. CASE QueryStatus(t)
  <2>1. /\ act'[t].part = n /\ act'[t].step \in {"work", Nth(n).end} /\ ~act'[t].out
        /\ \A u \in Members \ {t} : act'[u] = act[u]
    BY <1>4, <1>8 DEF QueryStatus
  <2>2. plan' = plan /\ request' = request /\ asked' = asked /\ arrived' = arrived /\ released' = released
        /\ told' = told /\ aborted' = aborted
        /\ seen' = IF request = Nth(n).kind THEN seen \cup {t} ELSE seen
    BY <1>1, <1>8 DEF QueryStatus
  <2>3. Request(n)'
    BY <1>3, <1>5, <2>2
  <2> QED
    BY <2>1, <2>2, <2>3 DEF Types
<1>9. CASE FinishPart(t)
  <2>1. /\ act'[t].part = n /\ act'[t].step = Nth(n).end /\ act'[t].out = act[t].out
        /\ \A u \in Members \ {t} : act'[u] = act[u]
    BY <1>1, <1>9 DEF FinishPart, Move, Types, Whereabouts
  <2>2. UNCHANGED <<plan, arrived, released, request, asked, seen, told, aborted>>
    BY <1>9 DEF FinishPart
  <2>3. Request(n)'
    BY <1>3, <1>5, <2>2
  <2> QED
    BY <2>1, <2>2, <2>3 DEF Types
<1> QED
  BY <1>6, <1>7, <1>8, <1>9 DEF Directive

-----------------------------------------------------------------------------
(* The next run. *)
LEMMA NextRun ==
  ASSUME IInv, ForkAgain
  PROVE  /\ 1 <= Last /\ plan' = plan /\ told' = told /\ aborted' = aborted /\ arrived' = arrived
         /\ released'.plain = released.plain
         /\ \A t \in Members : act[t].step = "joined" /\ act'[t] = Begin(1)
         /\ request' = NoRequest /\ asked' \in [DOMAIN plan.parts -> SUBSET CancelKinds]
         /\ seen' = seen
<1>1. Types /\ Joins
  BY DEF IInv
<1>2. plan.parts # <<>> /\ Last \in Nat
  BY <1>1, Parts DEF ForkAgain, Types
<1>3. 1 <= Last
  BY <1>1, <1>2 DEF Last, Types
<1>4. \A t \in Members : act[t].step = "joined"
  BY <1>1 DEF ForkAgain, Joins, Types
<1>5. released'.plain = released.plain
  BY <1>1 DEF ForkAgain, Types
<1>6. asked' \in [DOMAIN plan.parts -> SUBSET CancelKinds]
  BY DEF ForkAgain
<1> QED
  BY <1>3, <1>4, <1>5, <1>6 DEF ForkAgain

(* Past a barrier, with nothing to look for. *)
LEMMA OnToNext ==
  ASSUME Types, NEW t \in Members, NEW n \in 1..Last, act[t].part = n, ~act[t].out, act' = NextPart(t)
  PROVE  /\ \A u \in Members \ {t} : act'[u] = act[u]
         /\ n = Last => act'[t].step = "join"
         /\ n # Last => act'[t] = Begin(n + 1)
BY DEF NextPart, Types, Whereabouts, Last

LEMMA ByItselfKeeps ==
  ASSUME IInv, RunCancel, OneMember
  PROVE  ByItself' /\ ~told' /\ ~aborted'
<1>1. Types /\ Joins /\ ByItself /\ ~told /\ ~aborted /\ Members = {0} /\ 0 \in Members
  BY DEF IInv, OneMember, Members
<1>2. plan' = plan /\ Last' = Last /\ \A n : Nth(n)' = Nth(n) /\ Inside(n)' = Inside(n)
  BY TypesKeep DEF Last, Nth, Inside
<1>3. /\ Last \in Nat /\ DOMAIN plan.parts = 1..Last
      /\ \A n \in 1..Last :
           /\ Nth(n).kind \in CancelKinds /\ Nth(n).end \in {"barrier", "cancel_barrier"}
           /\ Nth(n).cancels => Nth(n).end = "cancel_barrier"
  BY <1>1, Parts
<1>4. NoRequest \notin CancelKinds /\ "parallel" \in CancelKinds
  BY DEF NoRequest, CancelKinds
<1>5. ASSUME NEW n \in 1..Last, AtPartAlone(n)
      PROVE  /\ act[0].part = n /\ act[0].step \in {"work", Nth(n).end, Inside(n)}
             /\ act[0].out => request = "parallel"
             /\ Request(n) /\ (0 \in seen => request = Nth(n).kind /\ act[0].step \in {"work", Nth(n).end})
             /\ seen \subseteq {0}
  BY <1>1, <1>5 DEF AtPartAlone, SeenIn, Types
<1>6. ASSUME NEW n \in 1..Last, Request(n)', act'[0].part = n, act'[0].step \in {"work", Nth(n).end, Inside(n)},
             act'[0].out => request' = "parallel", seen' \subseteq {0},
             0 \in seen' => request' = Nth(n).kind /\ act'[0].step \in {"work", Nth(n).end}
      PROVE  ByItself'
  BY <1>2, <1>6 DEF ByItself, AtPartAlone, SeenIn
<1>7. ASSUME seen' = {}, act'[0].step \in {"second_barrier", "third_barrier", "in_second", "in_third", "join", "joined"}
      PROVE  ByItself'
  BY <1>7 DEF ByItself, AtEndAlone
<1>8. ASSUME NEW s, s \in {"work", "barrier", "cancel_barrier", "in_barrier", "in_first"}, act[0].step = s
      PROVE  \E n \in 1..Last : AtPartAlone(n)
  BY <1>1, <1>8 DEF ByItself, AtEndAlone
<1>9. ASSUME NEW s, s \notin {"work", "barrier", "cancel_barrier", "in_barrier", "in_first"}, act[0].step = s
      PROVE  seen = {}
  <2>1. ASSUME NEW n \in 1..Last, AtPartAlone(n)
        PROVE  FALSE
    BY <1>3, <1>5, <1>9, <2>1 DEF Inside
  <2> QED
    BY <1>1, <2>1 DEF ByItself, AtEndAlone
<1>10. CASE OpenBarrier
  BY <1>10 DEF OpenBarrier
<1>11. CASE ForkAgain
  <2>1. /\ 1 <= Last /\ told' = told /\ aborted' = aborted /\ seen' = seen
        /\ act[0].step = "joined" /\ act'[0] = Begin(1)
        /\ request' = NoRequest /\ asked' \in [DOMAIN plan.parts -> SUBSET CancelKinds]
    BY <1>1, <1>11, NextRun
  <2>2. seen' = {}
    BY <1>9, <2>1
  <2>3. Request(1)'
    BY <1>2, <2>1 DEF Request
  <2>4. 1 \in 1..Last
    BY <1>3, <2>1
  <2> QED
    BY <1>1, <1>6, <2>1, <2>2, <2>3, <2>4 DEF Begin
<1>12. ASSUME Directive(0)
       PROVE  ByItself' /\ ~told' /\ ~aborted'
  <2>1. act[0].step = "work"
    BY <1>12 DEF Directive, Ask, CancellationPoint, QueryStatus, FinishPart, Working
  <2>2. PICK n \in 1..Last : AtPartAlone(n)
    BY <1>8, <2>1
  <2>3. /\ Request(n)' /\ act'[0].part = n /\ act'[0].step \in {"work", Nth(n).end}
        /\ act'[0].out => request' = "parallel"
        /\ seen' \subseteq Members /\ (0 \in seen' => request' = Nth(n).kind)
        /\ told' = told /\ aborted' = aborted
    BY <1>1, <1>5, <1>12, <2>1, <2>2, AfterDirective
  <2> QED
    BY <1>1, <1>6, <2>3
<1>13. ASSUME NEW from \in {"barrier", "cancel_barrier"}, NEW to, Arrive(0, from, to),
              to = IF from = "barrier" THEN "in_barrier" ELSE "in_first"
       PROVE  ByItself' /\ ~told' /\ ~aborted'
  <2>1. /\ act[0].step \in {"barrier", "cancel_barrier"} /\ UNCHANGED <<request, asked, told, aborted>>
        /\ seen' = seen \ {0} /\ act' = [act EXCEPT ![0].step = to]
        /\ to = IF act[0].step = "barrier" THEN "in_barrier" ELSE "in_first"
    BY <1>13 DEF Arrive, Move
  <2>2. PICK n \in 1..Last : AtPartAlone(n)
    BY <1>8, <2>1
  <2>3. act[0].step = Nth(n).end
    BY <1>3, <1>5, <2>1, <2>2 DEF Inside
  <2>4. act'[0].part = n /\ act'[0].step = Inside(n) /\ act'[0].out = act[0].out
    BY <1>1, <1>5, <2>1, <2>2, <2>3 DEF Inside, Types, Whereabouts
  <2>5. Request(n)'
    BY <1>2, <1>5, <2>1, <2>2 DEF Request
  <2> QED
    BY <1>1, <1>5, <1>6, <2>1, <2>2, <2>4, <2>5
<1>14. ASSUME act' = NextPart(0), request = NoRequest, act[0].step \in {"in_barrier", "in_first"},
              UNCHANGED <<request, asked, seen>>
       PROVE  ByItself'
  <2>1. PICK n \in 1..Last : AtPartAlone(n)
    BY <1>8, <1>14
  <2>2. ~act[0].out /\ act[0].part = n /\ seen = {}
    BY <1>3, <1>4, <1>5, <1>14, <2>1
  <2>3. CASE n = Last
    <3>1. act'[0].step = "join"
      BY <1>1, <1>14, <2>2, <2>3, OnToNext
    <3> QED
      BY <1>7, <1>14, <2>2, <3>1
  <2>4. CASE n # Last
    <3>1. act'[0] = Begin(n + 1) /\ n + 1 \in 1..Last
      BY <1>1, <1>3, <1>14, <2>2, <2>4, OnToNext
    <3>2. Request(n + 1)'
      BY <1>2, <1>5, <1>14, <2>1 DEF Request
    <3> QED
      BY <1>6, <1>14, <2>2, <3>1, <3>2 DEF Begin
  <2> QED
    BY <2>3, <2>4
<1>15. CASE LeaveBarrier(0)
  <2>1. PICK n \in 1..Last : AtPartAlone(n)
    BY <1>8, <1>15 DEF LeaveBarrier
  <2>2. request = NoRequest
    BY <1>3, <1>5, <1>15, <2>1 DEF LeaveBarrier, Inside, Request
  <2> QED
    BY <1>1, <1>14, <1>15, <2>2 DEF LeaveBarrier
<1>16. CASE LookAtRequest(0)
  <2>1. PICK n \in 1..Last : AtPartAlone(n)
    BY <1>8, <1>16 DEF LookAtRequest
  <2>2. request # NoRequest => Asked(0, request)
    BY <1>5, <2>1 DEF Asked, Request
  <2>3. ~told' /\ ~aborted' /\ UNCHANGED <<request, asked, seen>>
    BY <1>1, <1>16, <2>2 DEF LookAtRequest
  <2>4. CASE request = NoRequest
    BY <1>14, <1>16, <2>3, <2>4 DEF LookAtRequest
  <2>5. CASE request # NoRequest
    <3>1. act'[0].step = "second_barrier"
      BY <1>1, <1>16, <2>5 DEF LookAtRequest, Types, Whereabouts
    <3>2. seen = {}
      BY <1>3, <1>5, <1>16, <2>1 DEF LookAtRequest
    <3> QED
      BY <1>7, <2>3, <3>1, <3>2
  <2> QED
    BY <2>3, <2>4, <2>5
<1>17. ASSUME NEW s, act[0].step \notin {"work", "barrier", "cancel_barrier", "in_barrier", "in_first"}, Move(0, s),
              s \in {"second_barrier", "third_barrier", "in_second", "in_third", "join", "joined"},
              seen' \subseteq seen
       PROVE  ByItself'
  <2>1. seen' = {}
    BY <1>9, <1>17
  <2>2. act'[0].step = s
    BY <1>1, <1>17 DEF Move, Types, Whereabouts
  <2> QED
    BY <1>7, <1>17, <2>1, <2>2
<1>18. CASE Arrive(0, "second_barrier", "in_second") \/ Arrive(0, "third_barrier", "in_third")
  BY <1>1, <1>17, <1>18 DEF Arrive
<1>19. CASE ResetRequest(0)
  BY <1>1, <1>17, <1>19 DEF ResetRequest, WayToReset
<1>20. CASE LeaveThird(0) \/ Join(0)
  BY <1>1, <1>17, <1>20 DEF LeaveThird, Join
<1>21. CASE Barrier(0)
  <2>1. CASE Arrive(0, "barrier", "in_barrier")
    BY <1>13, <2>1
  <2>2. CASE Arrive(0, "cancel_barrier", "in_first")
    BY <1>13, <2>2
  <2>3. CASE Arrive(0, "second_barrier", "in_second") \/ Arrive(0, "third_barrier", "in_third")
    BY <1>18, <2>3
  <2> QED
    BY <1>15, <1>16, <1>19, <1>20, <1>21, <2>1, <2>2, <2>3 DEF Barrier
<1> QED
  BY <1>1, <1>10, <1>11, <1>12, <1>20, <1>21 DEF RunCancel, ForkAgain

-----------------------------------------------------------------------------
(* A step of one thread, while the team is at part n. *)
LEMMA AtPartStep ==
  ASSUME Types, plan' = plan, released' = released, NEW n \in 1..(Last + 1), AtPart(n),
         NEW t \in Members,
         \A u \in Members \ {t} : act'[u] = act[u] /\ arrived'[u].plain = arrived[u].plain,
         request # NoRequest => request' = request, Request(n)',
         seen' \ {t} \subseteq seen,
         t \in seen' => n <= Last /\ act'[t].part = n /\ act'[t].step \in {"work", Nth(n).end} /\ request' = Nth(n).kind,
         Late(t, n)' \/ In(t, n)' \/ Gone(t, n)'
  PROVE  AtPart(n)'
<1>1. Last' = Last /\ Members' = Members /\ \A i : Nth(i)' = Nth(i) /\ Inside(i)' = Inside(i)
  BY DEF Last, Members, Nth, Inside
<1>2. SeenIn(n)'
  <2> SUFFICES ASSUME NEW u \in seen', u # t
               PROVE  n <= Last /\ act'[u].part = n /\ act'[u].step \in {"work", Nth(n).end} /\ request' = Nth(n).kind
    BY <1>1 DEF SeenIn
  <2>1. u \in seen /\ u \in Members
    BY DEF Types
  <2>2. n <= Last /\ act[u].part = n /\ act[u].step \in {"work", Nth(n).end} /\ request = Nth(n).kind
    BY <2>1 DEF AtPart, SeenIn
  <2>3. request # NoRequest
    <3>1. Nth(n).kind \in CancelKinds
      BY <2>2, Parts
    <3> QED
      BY <2>2, <3>1 DEF CancelKinds, NoRequest
  <2> QED
    BY <2>1, <2>2, <2>3
<1>3. ASSUME NEW u \in Members, u # t
      PROVE  Late(u, n)' \/ In(u, n)' \/ Gone(u, n)'
  <2>1. act'[u] = act[u] /\ Free(u)' = Free(u) /\ Waits(u)' = Waits(u)
    BY <1>3 DEF Free, Waits
  <2>2. act[u].out => request # "parallel" \/ request' = "parallel"
    BY DEF NoRequest
  <2> QED
    BY <1>1, <1>3, <2>1, <2>2 DEF AtPart, Late, In, Gone
<1> QED
  BY <1>1, <1>2, <1>3 DEF AtPart

LEMMA AtPartKeeps ==
  ASSUME IInv, ~OneMember, NEW n \in 1..(Last + 1), AtPart(n), NEW t \in Members,
         Directive(t) \/ Barrier(t) \/ Join(t)
  PROVE  AtPart(n)' /\ told' = told /\ aborted' = aborted
<1>1. Types /\ Types' /\ plan' = plan /\ Members' = Members
  <2>1. RunCancel
    BY DEF RunCancel
  <2> QED
    BY <2>1, TypesKeep DEF IInv, Members
<1>2. Last' = Last /\ \A i : Nth(i)' = Nth(i) /\ Inside(i)' = Inside(i)
  BY <1>1 DEF Last, Nth, Inside
<1>3. /\ Last \in Nat /\ DOMAIN plan.parts = 1..Last
      /\ \A i \in 1..Last :
           /\ Nth(i).kind \in CancelKinds /\ Nth(i).end \in {"barrier", "cancel_barrier"}
           /\ Nth(i).cancels => (i > 1 => Nth(i - 1).end = "barrier")
  BY <1>1, Parts
<1>4. NoRequest \notin CancelKinds /\ "parallel" \in CancelKinds
  BY DEF NoRequest, CancelKinds
<1>5. \A u \in Members : arrived[u].plain \in Nat /\ released.plain \in Nat
  BY <1>1 DEF Types
<1>6. Request(n) /\ SeenIn(n) /\ (Late(t, n) \/ In(t, n) \/ Gone(t, n))
  BY DEF AtPart
<1>7. ASSUME act[t].step \notin {"work", "barrier", "cancel_barrier"}
      PROVE  t \notin seen
  <2>1. ASSUME t \in seen
        PROVE  FALSE
    <3>1. n <= Last /\ act[t].step \in {"work", Nth(n).end}
      BY <1>6, <2>1 DEF SeenIn
    <3> QED
      BY <1>3, <1>7, <3>1
  <2> QED
    BY <2>1
<1>8. CASE Directive(t)
  <2>1. act[t].step = "work"
    BY <1>8 DEF Directive, Ask, CancellationPoint, QueryStatus, FinishPart, Working
  <2>2. In(t, n) /\ n \in 1..Last /\ Free(t)
    BY <1>3, <1>6, <2>1 DEF Late, In, Gone, Inside
  <2>3. /\ released' = released /\ arrived' = arrived
        /\ \A u \in Members \ {t} : act'[u] = act[u]
        /\ request # NoRequest => request' = request
        /\ Request(n)'
        /\ act'[t].part = n /\ act'[t].step \in {"work", Nth(n).end}
        /\ act'[t].out => request' = "parallel"
        /\ seen' \ {t} \subseteq seen
        /\ t \in seen' => request' = Nth(n).kind
        /\ told' = told /\ aborted' = aborted
    <3>1. act[t].part = n /\ (act[t].out => request = "parallel") /\ (t \in seen => request = Nth(n).kind)
      BY <1>6, <2>2 DEF In, SeenIn
    <3> QED
      BY <1>1, <1>6, <1>8, <2>1, <2>2, <3>1, AfterDirective
  <2>4. In(t, n)'
    BY <1>2, <2>2, <2>3 DEF In, Free
  <2>5. n <= Last
    BY <1>3, <2>2
  <2> QED
    BY <1>1, <2>3, <2>4, <2>5, AtPartStep
<1>9. ASSUME NEW from \in {"barrier", "cancel_barrier"}, NEW to, Arrive(t, from, to),
             to = IF from = "barrier" THEN "in_barrier" ELSE "in_first"
      PROVE  AtPart(n)' /\ told' = told /\ aborted' = aborted
  <2>1. /\ act[t].step \in {"barrier", "cancel_barrier"} /\ UNCHANGED <<request, asked, told, aborted, released>>
        /\ seen' = seen \ {t} /\ act' = [act EXCEPT ![t].step = to]
        /\ arrived' = [arrived EXCEPT ![t].plain = @ + 1]
        /\ to = IF act[t].step = "barrier" THEN "in_barrier" ELSE "in_first"
    BY <1>9 DEF Arrive, Move
  <2>2. In(t, n) /\ n \in 1..Last /\ Free(t) /\ act[t].step = Nth(n).end
    BY <1>3, <1>6, <2>1 DEF Late, In, Gone, Inside
  <2>3. act'[t].part = n /\ act'[t].step = Inside(n) /\ act'[t].out = act[t].out
    BY <1>1, <2>1, <2>2 DEF Inside, Types, Whereabouts, In
  <2>4. /\ arrived'[t].plain = arrived[t].plain + 1
        /\ \A u \in Members \ {t} : act'[u] = act[u] /\ arrived'[u].plain = arrived[u].plain
    BY <1>1, <2>1 DEF Types, Whereabouts
  <2>5. Waits(t)'
    BY <2>1, <2>2, <2>4 DEF Waits, Free
  <2>6. Request(n)'
    BY <1>1, <1>2, <1>6, <2>1 DEF Request
  <2>7. In(t, n)'
    BY <1>2, <2>1, <2>2, <2>3, <2>5 DEF In
  <2> QED
    BY <1>1, <2>1, <2>4, <2>6, <2>7, AtPartStep
<1>10. ASSUME act' = NextPart(t), act[t].step \in {"in_barrier", "in_first"}, Opened(t),
              UNCHANGED <<request, asked, seen, arrived, released>>
       PROVE  AtPart(n)'
  <2>1. ~Waits(t)
    BY <1>5, <1>10 DEF Opened, Waits
  <2>2. Late(t, n)
    BY <1>3, <1>6, <1>10, <2>1 DEF In, Gone
  <2>3. act[t].part = n - 1 /\ n - 1 \in 1..Last /\ ~act[t].out /\ Free(t) /\ Free(t)'
    BY <1>3, <1>10, <2>2 DEF Late, Free
  <2>4. /\ \A u \in Members \ {t} : act'[u] = act[u]
        /\ n - 1 = Last => act'[t].step = "join"
        /\ n - 1 # Last => act'[t] = Begin((n - 1) + 1)
    BY <1>1, <1>10, <2>3, OnToNext
  <2>5. Late(t, n)' \/ In(t, n)' \/ Gone(t, n)'
    <3>1. CASE n - 1 = Last
      BY <1>2, <1>3, <2>3, <2>4, <3>1 DEF Gone
    <3>2. CASE n - 1 # Last
      <4>1. act'[t] = Begin(n) /\ n <= Last
        BY <1>3, <2>3, <2>4, <3>2
      <4> QED
        BY <1>2, <2>3, <4>1 DEF In, Begin
    <3> QED
      BY <3>1, <3>2
  <2>6. Request(n)'
    BY <1>1, <1>2, <1>6, <1>10 DEF Request
  <2>7. t \notin seen
    BY <1>7, <1>10
  <2> QED
    BY <1>1, <1>10, <2>4, <2>5, <2>6, <2>7, AtPartStep
<1>11. CASE LeaveBarrier(t)
  BY <1>10, <1>11 DEF LeaveBarrier
<1>12. CASE LookAtRequest(t)
  <2>1. ~Waits(t) /\ act[t].step = "in_first"
    BY <1>5, <1>12 DEF LookAtRequest, Opened, Waits
  <2>2. Late(t, n)
    BY <1>3, <1>6, <2>1 DEF In, Gone
  <2>3. Nth(n - 1).end = "cancel_barrier" /\ n > 1
    BY <1>3, <2>1, <2>2 DEF Late, Inside
  <2>4. request = NoRequest
    BY <1>3, <1>6, <2>3 DEF Request
  <2>5. act' = NextPart(t) /\ Opened(t) /\ UNCHANGED <<request, asked, seen, arrived, released>>
    BY <1>12, <2>4 DEF LookAtRequest
  <2>6. told' = told /\ aborted' = aborted
    BY <1>1, <1>12, <2>4 DEF LookAtRequest, Types
  <2> QED
    BY <1>10, <2>1, <2>5, <2>6
<1>13. act[t].step \notin {"second_barrier", "third_barrier", "in_second", "in_third"}
  BY <1>3, <1>6 DEF Late, In, Gone, Inside
<1>14. CASE Join(t)
  <2>1. act[t].step = "join" /\ UNCHANGED <<request, asked, told, aborted, released, seen>>
    BY <1>14 DEF Join
  <2>2. Gone(t, n)
    BY <1>3, <1>6, <2>1 DEF Late, In, Inside
  <2>3. /\ act'[t].step = "joined" /\ arrived'[t].plain = arrived[t].plain
        /\ \A u \in Members \ {t} : act'[u] = act[u] /\ arrived'[u].plain = arrived[u].plain
    BY <1>1, <1>14 DEF Join, Move, Types, Whereabouts
  <2>4. Gone(t, n)'
    BY <1>2, <2>1, <2>2, <2>3 DEF Gone, Free
  <2>5. Request(n)' /\ t \notin seen
    BY <1>1, <1>2, <1>6, <1>7, <2>1 DEF Request
  <2> QED
    BY <1>1, <2>1, <2>3, <2>4, <2>5, AtPartStep
<1>15. CASE Barrier(t)
  <2>1. CASE Arrive(t, "barrier", "in_barrier")
    BY <1>9, <2>1
  <2>2. CASE Arrive(t, "cancel_barrier", "in_first")
    BY <1>9, <2>2
  <2>3. ~Arrive(t, "second_barrier", "in_second") /\ ~Arrive(t, "third_barrier", "in_third")
    BY <1>13 DEF Arrive
  <2>4. ~ResetRequest(t) /\ ~LeaveThird(t)
    BY <1>13 DEF ResetRequest, WayToReset, LeaveThird
  <2>5. CASE LeaveBarrier(t)
    BY <1>11, <2>5 DEF LeaveBarrier
  <2> QED
    BY <1>12, <1>15, <2>1, <2>2, <2>3, <2>4, <2>5 DEF Barrier
<1> QED
  BY <1>8, <1>14, <1>15

LEMMA AtCancelledKeeps ==
  ASSUME IInv, ~OneMember, NEW n \in 1..Last, AtCancelled(n), NEW t \in Members,
         Directive(t) \/ Barrier(t) \/ Join(t)
  PROVE  AtCancelled(n)' /\ told' = told /\ aborted' = aborted
<1>1. Types /\ plan' = plan /\ Members' = Members
  <2>1. RunCancel
    BY DEF RunCancel
  <2> QED
    BY <2>1, TypesKeep DEF IInv, Members
<1>2. /\ asked \in [DOMAIN plan.parts -> SUBSET CancelKinds]
      /\ request = "parallel" /\ "parallel" \in asked[n] /\ seen = {} /\ act[t].part = n
      /\ \/ act[t].step = "in_first" /\ Free(t)
         \/ act[t].step = "second_barrier" /\ ret[t] = "parallel" /\ Free(t)
         \/ act[t].step = "in_second" /\ ret[t] = "parallel" /\ Waits(t)
  BY DEF AtCancelled
<1>3. ASSUME UNCHANGED <<request, asked, released>>, seen' \subseteq seen, act'[t].part = n,
             \A u \in Members \ {t} : act'[u] = act[u] /\ ret'[u] = ret[u] /\ arrived'[u].plain = arrived[u].plain,
             \/ act'[t].step = "second_barrier" /\ ret'[t] = "parallel" /\ Free(t)'
             \/ act'[t].step = "in_second" /\ ret'[t] = "parallel" /\ Waits(t)'
      PROVE  AtCancelled(n)'
  <2>1. ASSUME NEW u \in Members, u # t
        PROVE  /\ act'[u].part = n
               /\ \/ act'[u].step = "in_first" /\ Free(u)'
                  \/ act'[u].step = "second_barrier" /\ ret'[u] = "parallel" /\ Free(u)'
                  \/ act'[u].step = "in_second" /\ ret'[u] = "parallel" /\ Waits(u)'
    <3>1. act'[u] = act[u] /\ ret'[u] = ret[u] /\ (Free(u)' <=> Free(u)) /\ (Waits(u)' <=> Waits(u))
      BY <1>3, <2>1 DEF Free, Waits
    <3> QED
      BY <2>1, <3>1 DEF AtCancelled
  <2>2. asked' \in [DOMAIN plan'.parts -> SUBSET CancelKinds] /\ request' = "parallel" /\ "parallel" \in asked'[n]
        /\ seen' = {}
    BY <1>1, <1>2, <1>3
  <2> QED
    BY <1>1, <1>3, <2>1, <2>2 DEF AtCancelled
<1>4. ~Directive(t) /\ ~Join(t)
  BY <1>2 DEF Directive, Ask, CancellationPoint, QueryStatus, FinishPart, Working, Join
<1>5. ~LeaveBarrier(t) /\ ~LeaveThird(t)
  BY <1>2 DEF LeaveBarrier, LeaveThird
<1>6. ~ResetRequest(t)
  BY <1>1, <1>2 DEF ResetRequest, WayToReset, Opened, Waits, Types
<1>7. ~Arrive(t, "barrier", "in_barrier") /\ ~Arrive(t, "cancel_barrier", "in_first")
      /\ ~Arrive(t, "third_barrier", "in_third")
  BY <1>2 DEF Arrive
<1>8. CASE Arrive(t, "second_barrier", "in_second")
  <2>1. /\ act[t].step = "second_barrier" /\ UNCHANGED <<request, asked, told, aborted, released, ret>>
        /\ seen' = seen \ {t} /\ act' = [act EXCEPT ![t].step = "in_second"]
        /\ arrived' = [arrived EXCEPT ![t].plain = @ + 1]
    BY <1>8 DEF Arrive, Move
  <2>2. act'[t].part = n /\ act'[t].step = "in_second" /\ arrived'[t].plain = arrived[t].plain + 1
    BY <1>1, <1>2, <2>1 DEF Types, Whereabouts
  <2>3. \A u \in Members \ {t} : act'[u] = act[u] /\ ret'[u] = ret[u] /\ arrived'[u].plain = arrived[u].plain
    BY <1>1, <2>1 DEF Types
  <2>4. Waits(t)' /\ ret'[t] = "parallel"
    BY <1>2, <2>1, <2>2 DEF Waits, Free
  <2> QED
    BY <1>3, <2>1, <2>2, <2>3, <2>4
<1>9. CASE LookAtRequest(t)
  <2>1. Asked(t, "parallel") /\ request # NoRequest
    BY <1>2 DEF Asked, NoRequest
  <2>2. /\ act' = [act EXCEPT ![t].step = "second_barrier"] /\ ret' = [ret EXCEPT ![t] = "parallel"]
        /\ UNCHANGED <<request, asked, aborted, released, arrived, seen>> /\ act[t].step = "in_first"
    BY <1>2, <1>9, <2>1 DEF LookAtRequest
  <2>3. told' = told
    BY <1>1, <1>2, <1>9, <2>1 DEF LookAtRequest, Types
  <2>4. act'[t].part = n /\ act'[t].step = "second_barrier" /\ ret'[t] = "parallel"
    BY <1>1, <1>2, <2>2 DEF Types, Whereabouts
  <2>5. \A u \in Members \ {t} : act'[u] = act[u] /\ ret'[u] = ret[u] /\ arrived'[u].plain = arrived[u].plain
    BY <1>1, <2>2 DEF Types
  <2>6. Free(t)'
    BY <1>2, <2>2 DEF Free
  <2> QED
    BY <1>3, <2>2, <2>3, <2>4, <2>5, <2>6
<1> QED
  BY <1>4, <1>5, <1>6, <1>7, <1>8, <1>9 DEF Barrier

LEMMA AtEndKeeps ==
  ASSUME IInv, ~OneMember, AtEnd, NEW t \in Members, Directive(t) \/ Barrier(t) \/ Join(t)
  PROVE  AtEnd' /\ told' = told /\ aborted' = aborted
<1>1. Types /\ plan' = plan /\ Members' = Members
  <2>1. RunCancel
    BY DEF RunCancel
  <2> QED
    BY <2>1, TypesKeep DEF IInv, Members
<1>2. /\ seen = {} /\ Free(t)
      /\ \/ act[t].step = "in_second" /\ ret[t] = "parallel"
         \/ act[t].step \in {"join", "joined"}
  BY DEF AtEnd
<1>3. ASSUME UNCHANGED <<released, seen, ret>>, act'[t].step \in {"join", "joined"},
             \A u \in Members \ {t} : act'[u] = act[u],
             \A u \in Members : arrived'[u].plain = arrived[u].plain
      PROVE  AtEnd'
  <2>1. ASSUME NEW u \in Members
        PROVE  Free(u)' /\ (u # t => act'[u] = act[u] /\ ret'[u] = ret[u])
    BY <1>3, <2>1 DEF Free, AtEnd
  <2> QED
    BY <1>1, <1>2, <1>3, <2>1 DEF AtEnd
<1>4. ~Directive(t)
  BY <1>2 DEF Directive, Ask, CancellationPoint, QueryStatus, FinishPart, Working
<1>5. ~LeaveBarrier(t) /\ ~LookAtRequest(t) /\ ~LeaveThird(t)
  BY <1>2 DEF LeaveBarrier, LookAtRequest, LeaveThird
<1>6. /\ ~Arrive(t, "barrier", "in_barrier") /\ ~Arrive(t, "cancel_barrier", "in_first")
      /\ ~Arrive(t, "second_barrier", "in_second") /\ ~Arrive(t, "third_barrier", "in_third")
  BY <1>2 DEF Arrive
<1>7. CASE ResetRequest(t)
  <2>1. act' = [act EXCEPT ![t].step = "join"]
    BY <1>2, <1>7 DEF ResetRequest, WayToReset, Move
  <2>2. act'[t].step = "join" /\ \A u \in Members \ {t} : act'[u] = act[u]
    BY <1>1, <2>1 DEF Types, Whereabouts
  <2> QED
    BY <1>3, <1>7, <2>2 DEF ResetRequest
<1>8. CASE Join(t)
  <2>1. act'[t].step = "joined" /\ \A u \in Members \ {t} : act'[u] = act[u]
    BY <1>1, <1>8 DEF Join, Move, Types, Whereabouts
  <2>2. \A u \in Members : arrived'[u].plain = arrived[u].plain
    BY <1>1, <1>8 DEF Join, Types
  <2> QED
    BY <1>3, <1>8, <2>1, <2>2 DEF Join
<1> QED
  BY <1>4, <1>5, <1>6, <1>7, <1>8 DEF Barrier

(* Every team has a master. *)
LEMMA MasterIsThere == Types => 0 \in Members
BY DEF Types, Members

(* The master opens the barrier when all have come to it. *)
LEMMA OpenKeeps ==
  ASSUME IInv, ~OneMember, OpenBarrier
  PROVE  Together' /\ told' = told /\ aborted' = aborted
<1>1. Types /\ Together /\ plan' = plan /\ Members' = Members /\ 0 \in Members
  <2>1. RunCancel
    BY DEF RunCancel
  <2>2. plan' = plan
    BY <2>1, TypesKeep
  <2>3. Types /\ Together
    BY DEF IInv
  <2> QED
    BY <2>2, <2>3, MasterIsThere DEF Members
<1>2. Last' = Last /\ \A i : Nth(i)' = Nth(i) /\ Inside(i)' = Inside(i)
  BY <1>1 DEF Last, Nth, Inside
<1>3. /\ Last \in Nat /\ DOMAIN plan.parts = 1..Last
      /\ \A i \in 1..Last :
           /\ Nth(i).kind \in CancelKinds /\ Nth(i).end \in {"barrier", "cancel_barrier"}
           /\ Nth(i).cancels /\ Nth(i).kind = "parallel" => Nth(i).end = "cancel_barrier"
  BY <1>1, Parts
<1>4. /\ UNCHANGED <<plan, arrived, act, ret, asked, told, seen, aborted>>
      /\ released'.plain = released.plain + 1 /\ request' = ClearRequest
  BY <1>1 DEF OpenBarrier, Types
<1>5. ASSUME NEW t \in Members
      PROVE  ~Free(t) /\ (Waits(t) => Free(t)')
  BY <1>1, <1>4 DEF OpenBarrier, Free, Waits, Types
<1>6. ~AtEnd
  BY <1>1, <1>5 DEF AtEnd
<1>7. ASSUME NEW n \in 1..Last, AtCancelled(n)
      PROVE  AtEnd'
  BY <1>1, <1>4, <1>5, <1>7 DEF AtCancelled, AtEnd
<1>8. ASSUME NEW n \in 1..(Last + 1), AtPart(n)
      PROVE  Together'
  <2>1. \A t \in Members : In(t, n) /\ act[t].step = Inside(n) /\ Waits(t)
    BY <1>5, <1>8 DEF AtPart, Late, In, Gone
  <2>2. n \in 1..Last
    BY <1>1, <1>3, <2>1 DEF In
  <2>3. seen = {}
    <3>1. ASSUME NEW u \in seen
          PROVE  FALSE
      <4>1. u \in Members
        BY <1>1, <3>1 DEF Types
      <4>2. act[u].step \in {"work", Nth(n).end} /\ act[u].step = Inside(n)
        BY <1>8, <2>1, <3>1, <4>1 DEF AtPart, SeenIn
      <4> QED
        BY <1>3, <2>2, <4>2 DEF Inside
    <3> QED
      BY <3>1
  <2>4. /\ asked \in [DOMAIN plan.parts -> SUBSET CancelKinds]
        /\ request \in {NoRequest, Nth(n).kind}
        /\ request # NoRequest => Nth(n).cancels /\ Nth(n).kind \in asked[n]
    BY <1>8 DEF AtPart, Request
  <2>5. CASE request = "parallel"
    <3>1. Nth(n).end = "cancel_barrier" /\ "parallel" \in asked[n] /\ request' = "parallel"
      BY <1>3, <1>4, <2>2, <2>4, <2>5 DEF ClearRequest, NoRequest
    <3>2. \A t \in Members : act[t].part = n /\ act[t].step = "in_first"
      BY <2>1, <3>1 DEF In, Inside
    <3>3. AtCancelled(n)'
      BY <1>1, <1>4, <1>5, <2>1, <2>3, <2>4, <3>1, <3>2 DEF AtCancelled
    <3> QED
      BY <1>2, <2>2, <3>3 DEF Together
  <2>6. CASE request # "parallel"
    <3>1. request' = NoRequest
      BY <1>3, <1>4, <2>2, <2>4, <2>6 DEF ClearRequest, CancelKinds
    <3>2. Request(n + 1)' /\ SeenIn(n + 1)'
      BY <1>1, <1>4, <2>3, <2>4, <3>1 DEF Request, SeenIn
    <3>3. ASSUME NEW t \in Members
          PROVE  Late(t, n + 1)'
      <4>1. act'[t].part = (n + 1) - 1 /\ act'[t].step = Inside((n + 1) - 1)' /\ Free(t)' /\ ~act'[t].out
        BY <1>2, <1>4, <1>5, <2>1, <2>2, <2>6, <3>3 DEF In
      <4>2. n + 1 > 1
        BY <2>2
      <4> QED
        BY <4>1, <4>2 DEF Late
    <3>4. AtPart(n + 1)'
      BY <1>1, <3>2, <3>3 DEF AtPart
    <3>5. n + 1 \in 1..(Last' + 1)
      BY <1>2, <1>3, <2>2
    <3> QED
      BY <3>4, <3>5 DEF Together
  <2> QED
    BY <2>5, <2>6
<1> QED
  BY <1>1, <1>4, <1>6, <1>7, <1>8 DEF Together

LEMMA TogetherKeeps ==
  ASSUME IInv, RunCancel, ~OneMember
  PROVE  Together' /\ ~told' /\ ~aborted'
<1>1. Types /\ Together /\ ~told /\ ~aborted /\ plan' = plan /\ Members' = Members /\ Last' = Last /\ 0 \in Members
  <2>1. plan' = plan
    BY TypesKeep
  <2>2. Types /\ Together /\ ~told /\ ~aborted
    BY DEF IInv
  <2> QED
    BY <2>1, <2>2, MasterIsThere DEF Members, Last
<1>2. CASE OpenBarrier
  BY <1>1, <1>2, OpenKeeps
<1>3. CASE ForkAgain
  <2>1. /\ 1 <= Last /\ told' = told /\ aborted' = aborted /\ arrived' = arrived
        /\ released'.plain = released.plain
        /\ \A t \in Members : act[t].step = "joined" /\ act'[t] = Begin(1)
        /\ request' = NoRequest /\ asked' \in [DOMAIN plan.parts -> SUBSET CancelKinds]
        /\ seen' = seen
    BY <1>3, NextRun
  <2>2. \A t \in Members : Free(t)
    <3>1. ASSUME NEW n \in 1..Last, AtCancelled(n)
          PROVE  FALSE
      BY <1>1, <2>1, <3>1 DEF AtCancelled
    <3>2. ASSUME NEW n \in 1..(Last + 1), AtPart(n), NEW t \in Members
          PROVE  Free(t)
      BY <1>1, <2>1, <3>2, Parts DEF AtPart, Late, In, Gone, Inside
    <3> QED
      BY <1>1, <3>1, <3>2 DEF Together, AtEnd
  <2>3. seen = {}
    <3>1. ASSUME NEW n \in 1..Last, AtCancelled(n)
          PROVE  FALSE
      BY <1>1, <2>1, <3>1 DEF AtCancelled
    <3>2. ASSUME NEW n \in 1..(Last + 1), AtPart(n), NEW t \in seen
          PROVE  FALSE
      <4>1. t \in Members /\ act[t].step = "joined"
        BY <1>1, <2>1, <3>2 DEF Types
      <4>2. n <= Last /\ act[t].step \in {"work", Nth(n).end}
        BY <3>2 DEF AtPart, SeenIn
      <4> QED
        BY <1>1, <3>2, <4>1, <4>2, Parts
    <3> QED
      BY <1>1, <3>1, <3>2 DEF Together, AtEnd
  <2>4. Request(1)' /\ SeenIn(1)'
    BY <1>1, <2>1, <2>3 DEF Request, SeenIn
  <2>5. ASSUME NEW t \in Members
        PROVE  In(t, 1)'
    <3>1. Free(t)' /\ act'[t].part = 1 /\ act'[t].step = "work" /\ ~act'[t].out
      BY <2>1, <2>2 DEF Free, Begin
    <3> QED
      BY <1>1, <2>1, <3>1 DEF In
  <2>6. AtPart(1)'
    BY <1>1, <2>4, <2>5 DEF AtPart
  <2>7. 1 \in 1..(Last' + 1)
    BY <1>1, <2>1, Parts
  <2> QED
    BY <1>1, <2>1, <2>6, <2>7 DEF Together
<1>4. ASSUME NEW t \in Members, Directive(t) \/ Barrier(t) \/ Join(t)
      PROVE  Together' /\ ~told' /\ ~aborted'
  <2>1. CASE AtEnd
    BY <1>1, <1>4, <2>1, AtEndKeeps DEF Together
  <2>2. ASSUME NEW n \in 1..(Last + 1), AtPart(n)
        PROVE  Together' /\ ~told' /\ ~aborted'
    BY <1>1, <1>4, <2>2, AtPartKeeps DEF Together
  <2>3. ASSUME NEW n \in 1..Last, AtCancelled(n)
        PROVE  Together' /\ ~told' /\ ~aborted'
    BY <1>1, <1>4, <2>3, AtCancelledKeeps DEF Together
  <2> QED
    BY <1>1, <2>1, <2>2, <2>3 DEF Together
<1> QED
  BY <1>2, <1>3, <1>4 DEF RunCancel

-----------------------------------------------------------------------------
LEMMA RegionKeeps ==
  ASSUME IInv, RunCancel
  PROVE  IInv'
<1>1. Types' /\ Joins' /\ OneMember' = OneMember
  BY TypesKeep, JoinsKeep DEF OneMember
<1>2. CASE OneMember
  BY <1>1, <1>2, ByItselfKeeps DEF IInv
<1>3. CASE ~OneMember
  BY <1>1, <1>3, TogetherKeeps DEF IInv
<1> QED
  BY <1>2, <1>3

LEMMA RegionBegins ==
  ASSUME NEW S, CancelInit(S),
         \A r \in S : /\ r \in [nproc : Nat \ {0}, parts : Seq(RegionPart), runs : Nat]
                      /\ Orderly(r) /\ (r.parts = <<>> => r.runs = 0)
  PROVE  IInv
<1>1. /\ plan \in [nproc : Nat \ {0}, parts : Seq(RegionPart), runs : Nat]
      /\ Orderly(plan) /\ (plan.parts = <<>> => plan.runs = 0)
  BY DEF CancelInit
<1>2. /\ arrived \in [Members -> [plain : Nat, join : Nat]] /\ released \in [plain : Nat, join : Nat]
      /\ \A t \in Members : arrived[t].plain = 0 /\ arrived[t].join = 1
      /\ released.plain = 0 /\ released.join = 0
  BY DEF CancelInit
<1>3. act \in [Members -> Whereabouts] /\ \A t \in Members : act[t].step = "joined"
  <2>1. [Begin(0) EXCEPT !.step = "joined"] \in Whereabouts
    BY DEF Begin, Whereabouts, Steps
  <2>2. [Begin(0) EXCEPT !.step = "joined"].step = "joined"
    BY DEF Begin
  <2> QED
    BY <2>1, <2>2 DEF CancelInit
<1>4. /\ request \in Requests /\ ret \in [Members -> Requests] /\ runs \in Nat /\ seen = {}
      /\ told = FALSE /\ aborted = FALSE
  BY DEF CancelInit, Requests
<1>5. Types
  BY <1>1, <1>2, <1>3, <1>4 DEF Types
<1>6. Joins
  BY <1>2, <1>3 DEF Joins
<1>7. AtEnd
  BY <1>2, <1>3, <1>4 DEF AtEnd, Free
<1>8. OneMember => AtEndAlone
  BY <1>1, <1>3, <1>4 DEF AtEndAlone, OneMember, Members
<1> QED
  BY <1>4, <1>5, <1>6, <1>7, <1>8 DEF IInv, Together, ByItself

LEMMA RegionStays ==
  ASSUME IInv, UNCHANGED cancelVars
  PROVE  IInv'
<1> USE DEF cancelVars
<1>1. Types' /\ Joins' /\ (OneMember' <=> OneMember) /\ ~told' /\ ~aborted'
  BY DEF IInv, Types, Joins, Members, OneMember
<1>2. Last' = Last /\ Members' = Members /\ \A i : Nth(i)' = Nth(i) /\ Inside(i)' = Inside(i)
  BY DEF Last, Members, Nth, Inside
<1>3. \A n : (Request(n)' <=> Request(n)) /\ (SeenIn(n)' <=> SeenIn(n))
  BY <1>2 DEF Request, SeenIn
<1>4. \A t : (Free(t)' <=> Free(t)) /\ (Waits(t)' <=> Waits(t))
  BY DEF Free, Waits
<1>5. AtEnd' <=> AtEnd
  BY <1>2, <1>4 DEF AtEnd
<1>6. \A n : AtPart(n)' <=> AtPart(n)
  BY <1>2, <1>3, <1>4 DEF AtPart, Late, In, Gone
<1>7. \A n : AtCancelled(n)' <=> AtCancelled(n)
  BY <1>2, <1>4 DEF AtCancelled
<1>8. AtEndAlone' <=> AtEndAlone
  BY DEF AtEndAlone
<1>9. \A n : AtPartAlone(n)' <=> AtPartAlone(n)
  BY <1>2, <1>3 DEF AtPartAlone
<1> QED
  BY <1>1, <1>2, <1>5, <1>6, <1>7, <1>8, <1>9 DEF IInv, Together, ByItself

LEMMA RegionSound ==
  ASSUME IInv
  PROVE  CancelSound
<1>1. Types /\ ~told /\ ~aborted
  BY DEF IInv
<1> SUFFICES ASSUME NEW t \in Members, NEW u \in Members,
                    act[u].step = "work", act[t].step \notin {"join", "joined"}
             PROVE  act[t].part <= act[u].part
  BY <1>1 DEF CancelSound
<1>2. act[t].part \in Nat /\ act[u].part \in Nat
  BY <1>1 DEF Types, Whereabouts
<1>3. CASE OneMember
  BY <1>1, <1>2, <1>3 DEF OneMember, Members
<1>4. CASE ~OneMember
  <2>1. ~AtEnd /\ \A n : ~AtCancelled(n)
    BY DEF AtEnd, AtCancelled
  <2>2. PICK n \in 1..(Last + 1) : AtPart(n)
    BY <1>4, <2>1 DEF IInv, Together
  <2>3. n \in Nat
    BY <1>1, <2>2, Parts
  <2>4. act[u].part = n
    BY <2>2 DEF AtPart, Late, In, Gone, Inside
  <2>5. act[t].part = n - 1 \/ act[t].part = n
    BY <2>2 DEF AtPart, Late, In, Gone
  <2> QED
    BY <2>3, <2>4, <2>5
<1> QED
  BY <1>3, <1>4

(* Nothing that a region asked for, or has not, is found by what comes after it, the   *)
(* assertion of __kmpc_cancellationpoint holds, and nobody works on a part whose end   *)
(* another thread has passed (__kmpc_cancel, __kmpc_cancellationpoint,                 *)
(* __kmpc_cancel_barrier and the reset in __kmp_barrier): for teams of any size.       *)
THEOREM LoopCancel ==
  ASSUME \A r \in Cancellations : Orderly(r)
  PROVE  LoopSpec => []CancelSound
<1>1. LoopInit => IInv
  <2>1. CASE CancelInit(Cancellations)
    BY <2>1, RegionBegins, CancelAssumption
  <2>2. CASE NoCancel
    <3>1. /\ NoParts \in [nproc : Nat \ {0}, parts : Seq(RegionPart), runs : Nat]
          /\ Orderly(NoParts) /\ NoParts.runs = 0
      BY DEF NoParts, Orderly
    <3>2. CancelInit({NoParts})
      BY <2>2 DEF NoCancel
    <3> QED
      BY <3>1, <3>2, RegionBegins
  <2> QED
    BY <2>1, <2>2 DEF LoopInit
<1>2. IInv /\ [LoopNext]_loopVars => IInv'
  <2> SUFFICES ASSUME IInv, [LoopNext]_loopVars
               PROVE  IInv'
    OBVIOUS
  <2>1. RunCancel \/ UNCHANGED cancelVars
    BY DEF LoopNext, Running, loopVars
  <2> QED
    BY <2>1, RegionKeeps, RegionStays
<1>3. IInv => CancelSound
  BY RegionSound
<1> QED
  BY <1>1, <1>2, <1>3, PTL DEF LoopSpec

-----------------------------------------------------------------------------
(* The ring of the buffers of dispatched loops. *)

\* Where a thread is: at work in a loop with its shared buffer, or the last there.
Locking == {"take_own", "lock_own", "lock_victim", "steal", "relock_own"}
Stealing == Locking \cup {"find_victim", "look", "cas_victim", "install"}
AtWork == Stealing \cup {"publish", "next", "guided_add", "guided_cas", "enter_ordered",
                         "in_ordered", "end_iteration", "end_chunk", "count_done"}
Finishing == {"reset", "release"}
Labels == AtWork \cup Finishing \cup {"outside", "await_buffer", "leave"}

BufferFields == {"iteration", "num_done", "ordered_iteration", "buffer_index"}
PlaceFields == {"plan", "tc", "count", "ub", "parm4", "lower", "upper", "bumped", "counter"}
LocalFields == {"index", "i", "init", "limit", "tries", "victim", "place"}

ProgramTypes ==
  /\ nproc \in Nat \ {0} /\ program \in Seq(Loop)
  /\ program # <<>> => Apart([nproc |-> nproc, loops |-> program])
PcTypes == pc \in [Tids -> Labels] /\ loop \in [Tids -> 0..Len(program)]
LockTypes == steal_lock \in [Tids -> Tids \cup {NoLock, FreeLock}]
SharedTypes == /\ DOMAIN sh = Places
               /\ \A b \in Places : /\ DOMAIN sh[b] = BufferFields
                                    /\ sh[b].num_done \in Nat /\ sh[b].buffer_index \in Nat
LocalTypes == /\ DOMAIN my = Tids
              /\ \A t \in Tids : DOMAIN my[t] = LocalFields /\ my[t].victim \in Tids
PrivateTypes == /\ DOMAIN pr = Tids
                /\ \A t \in Tids :
                     /\ DOMAIN pr[t] = Places
                     /\ \A b \in Places : DOMAIN pr[t][b] = PlaceFields /\ pr[t][b].parm4 \in Tids
RingTypes == /\ ProgramTypes /\ PcTypes /\ LockTypes /\ SharedTypes /\ LocalTypes /\ PrivateTypes
             /\ current \in [Tids -> Places \cup {Null}] /\ disp_index \in [Tids -> Nat]

\* A thread in loop k knows its index and has its plan; the loop has stealing over
\* 8 byte variables when it is at a lock.
Spot(t) == IF Serialized THEN 0 ELSE loop[t] % NumBuffers
Wide(k) == StealsWide(program[k + 1], nproc)
Located(t) ==
  /\ pc[t] = "outside" /\ ~Serialized => disp_index[t] = loop[t]
  /\ pc[t] # "outside" => /\ loop[t] < Len(program)
                          /\ ~Serialized => my[t].index = loop[t] /\ disp_index[t] = loop[t] + 1
                          /\ pr[t][Spot(t)].plan = Plan(L(t), nproc)
  /\ pc[t] \in Stealing => Plan(L(t), nproc).schedule = "static_steal"
  /\ pc[t] \in Locking => L(t).wide

Came(t, k) == loop[t] > k \/ (loop[t] = k /\ pc[t] # "outside")
Past(t, k) == loop[t] > k \/ (loop[t] = k /\ pc[t] \in Finishing \cup {"leave"})
Robbing(t) == pc[t] \in {"lock_victim", "steal"} => Came(my[t].victim, loop[t])

\* All come to such a loop from the one before, and those who came have their locks
\* until all are past it.
Locked(k) == Wide(k) =>
  /\ (\E t \in Tids : Came(t, k)) => \A u \in Tids : loop[u] >= k
  /\ (\E t \in Tids : ~Past(t, k)) => \A u \in Tids : Came(u, k) => steal_lock[u] # NoLock

\* A team of one uses no shared buffer.
ByOne == \A t \in Tids : current[t] = Null /\ pc[t] \in {"outside", "next", "leave"}

\* The buffer b is that of a loop that no thread is a round beyond, and counts those
\* who are past it; the last of them finishes it, and then it is the next loop's.
Counted(k) == {t \in Tids : Past(t, k)}
BufferOf(b) == sh[b].buffer_index
Finisher(t, b) == t \in Tids /\ pc[t] \in Finishing /\ loop[t] = BufferOf(b)
InBuffer(t) ==
  /\ current[t] = IF pc[t] \in {"outside", "await_buffer"} THEN Null ELSE Spot(t)
  /\ pc[t] \in AtWork \cup Finishing => BufferOf(Spot(t)) = loop[t]
Counting(b) == IF \E t \in Tids : Finisher(t, b)
  THEN \E t \in Tids :
         /\ Finisher(t, b) /\ \A u \in Tids : Past(u, BufferOf(b)) /\ (Finisher(u, b) => u = t)
         /\ sh[b].num_done = IF pc[t] = "reset" THEN nproc ELSE 0
  ELSE sh[b].num_done = Cardinality(Counted(BufferOf(b))) /\ sh[b].num_done < nproc
Turning(b) ==
  /\ BufferOf(b) % NumBuffers = b /\ BufferOf(b) < Len(program) + NumBuffers
  /\ \A t \in Tids : ~Past(t, BufferOf(b) + NumBuffers)
  /\ Counting(b)

Ring == IF Serialized THEN ByOne
        ELSE (\A t \in Tids : InBuffer(t)) /\ (\A b \in Places : Turning(b))
Loops == 0..(Len(program) - 1)
RingInv == /\ RingTypes /\ Ring
           /\ \A t \in Tids : Located(t) /\ Robbing(t)
           /\ \A k \in Loops : Locked(k)

-----------------------------------------------------------------------------
\* One thread more of a team is past its loop.
LEMMA OneMoreCounted ==
  ASSUME NEW Team, IsFiniteSet(Team), NEW S, S \subseteq Team, NEW t, t \notin S
  PROVE  Cardinality(S \cup {t}) = Cardinality(S) + 1
<1>1. IsFiniteSet(S)
  BY FS_Subset
<1> QED
  BY <1>1, FS_AddElement

LEMMA InBuffersHolds ==
  ASSUME RingInv, DispatchAssumption
  PROVE  BufferOfLoop /\ LocksThere
<1> USE DEF RingInv
<1>1. BufferOfLoop
  <2> SUFFICES ASSUME NEW t \in Tids, current[t] # Null, pc[t] # "leave"
               PROVE  sh[current[t]].buffer_index = my[t].index
    BY DEF BufferOfLoop
  <2>1. ~Serialized
    BY DEF Ring, ByOne
  <2>2. InBuffer(t) /\ Located(t) /\ pc[t] \in Labels
    BY <2>1 DEF Ring, RingTypes, PcTypes
  <2> QED
    BY <2>1, <2>2 DEF InBuffer, Located, BufferOf, Labels
<1>2. LocksThere
  <2> SUFFICES ASSUME NEW t \in Tids
               PROVE  /\ pc[t] \in {"await_buffer", "publish", "next", "lock_own", "take_own", "find_victim",
                                    "relock_own", "count_done"} /\ HasLock(t)
                             => steal_lock[t] # NoLock
                      /\ pc[t] \in {"lock_victim", "steal"} => steal_lock[my[t].victim] # NoLock
    BY DEF LocksThere
  <2>1. /\ Located(t) /\ Robbing(t) /\ loop[t] \in Nat /\ my[t].victim \in Tids
        /\ loop[t] < Len(program) => Locked(loop[t])
    BY DEF RingTypes, PcTypes, LocalTypes, ProgramTypes, Loops
  <2>2. pc[t] # "outside" => Place(t) = Spot(t) /\ loop[t] < Len(program)
    BY <2>1 DEF Located, Place, Spot
  <2>3. pc[t] # "outside" /\ HasLock(t) => Wide(loop[t])
    BY <2>1, <2>2 DEF HasLock, MyPlan, Mine, Located, Wide, StealsWide, L
  <2>4. CASE pc[t] \in {"await_buffer", "publish", "next", "lock_own", "take_own", "find_victim",
                        "relock_own", "count_done"} /\ HasLock(t)
    <3>1. Came(t, loop[t]) /\ ~Past(t, loop[t]) /\ Wide(loop[t])
      BY <2>4, <2>3, <2>1 DEF Came, Past, Finishing
    <3> QED
      BY <3>1, <2>1, <2>2, <2>4 DEF Locked
  <2>5. CASE pc[t] \in {"lock_victim", "steal"}
    <3>1. Came(my[t].victim, loop[t]) /\ ~Past(t, loop[t]) /\ Wide(loop[t])
      BY <2>5, <2>1 DEF Past, Finishing, Stealing, Locking, Located, Wide, StealsWide, L, Robbing
    <3> QED
      BY <3>1, <2>1, <2>2, <2>5 DEF Locked
  <2> QED
    BY <2>4, <2>5
<1> QED
  BY <1>1, <1>2

-----------------------------------------------------------------------------
\* What a thread at work does in its loop, whatever the schedule, as far as the
\* ring is concerned.
Works(t) ==
  /\ t \in Tids /\ UNCHANGED <<program, nproc, current, disp_index, loop>>
  /\ pc[t] \in AtWork \ {"count_done"}
  /\ \E l \in AtWork : /\ pc' = [pc EXCEPT ![t] = l]
                       /\ l \in Stealing => Plan(L(t), nproc).schedule = "static_steal"
                       /\ l \in Locking => L(t).wide
                       /\ l \in {"lock_victim", "steal"} => Came(my'[t].victim, loop[t])
  /\ LocalTypes' /\ SharedTypes' /\ PrivateTypes' /\ LockTypes'
  /\ \A u \in Tids : my'[u].index = my[u].index /\ (u # t => my'[u] = my[u])
  /\ \A b \in Places : sh'[b].num_done = sh[b].num_done /\ sh'[b].buffer_index = sh[b].buffer_index
  /\ \A u \in Tids : \A b \in Places : pr'[u][b].plan = pr[u][b].plan
  /\ \A u \in Tids : steal_lock[u] # NoLock => steal_lock'[u] # NoLock

LEMMA SpotInPlaces ==
  ASSUME RingTypes, DispatchAssumption, NEW t \in Tids
  PROVE  Spot(t) \in Places
BY DEF RingTypes, PcTypes, ProgramTypes, Spot, Places, DispatchAssumption

\* A buffer turns as before when nobody gets past its loop or the one a round later.
LEMMA TurningStays ==
  ASSUME program' = program, nproc' = nproc, NEW b \in Places, Turning(b),
         sh'[b].num_done = sh[b].num_done, sh'[b].buffer_index = sh[b].buffer_index,
         \A u \in Tids : \A k \in {BufferOf(b), BufferOf(b) + NumBuffers} : Past(u, k)' <=> Past(u, k),
         \A u \in Tids : Finisher(u, b)' <=> Finisher(u, b),
         \A u \in Tids : Finisher(u, b) => pc'[u] = pc[u]
  PROVE  Turning(b)'
<1>1. Tids' = Tids /\ BufferOf(b)' = BufferOf(b)
  BY DEF Tids, BufferOf
<1>2. Counted(BufferOf(b))' = Counted(BufferOf(b))
  BY <1>1 DEF Counted
<1>3. Counting(b)'
  BY <1>1, <1>2 DEF Turning, Counting
<1> QED
  BY <1>1, <1>3 DEF Turning

LEMMA WorksKeeps ==
  ASSUME RingInv, DispatchAssumption, ~Serialized, NEW t, Works(t)
  PROVE  RingInv'
<1>0. /\ t \in Tids /\ Tids' = Tids /\ Places' = Places /\ ~Serialized' /\ Labels' = Labels
      /\ pc \in [Tids -> Labels] /\ loop \in [Tids -> 0..Len(program)] /\ pc[t] \in AtWork
  BY DEF Works, Tids, Places, Serialized, Labels, RingInv, RingTypes, PcTypes
<1>1. PICK l \in AtWork : /\ pc' = [pc EXCEPT ![t] = l]
                          /\ l \in Stealing => Plan(L(t), nproc).schedule = "static_steal"
                          /\ l \in Locking => L(t).wide
                          /\ l \in {"lock_victim", "steal"} => Came(my'[t].victim, loop[t])
  BY DEF Works
<1>2. /\ pc'[t] = l /\ \A u \in Tids : pc'[u] = IF u = t THEN l ELSE pc[u]
      /\ l \in Labels /\ l \notin Finishing \cup {"outside", "await_buffer", "leave"}
      /\ pc[t] \notin Finishing \cup {"outside", "await_buffer", "leave"}
  BY <1>0, <1>1 DEF Labels, AtWork, Stealing, Locking, Finishing
<1>3. RingTypes'
  <2>1. PcTypes'
    BY <1>0, <1>1, <1>2 DEF PcTypes, Works
  <2>2. ProgramTypes' /\ current' \in [Tids -> Places \cup {Null}] /\ disp_index' \in [Tids -> Nat]
    BY DEF Works, RingInv, RingTypes, ProgramTypes
  <2> QED
    BY <2>1, <2>2, <1>0 DEF RingTypes, Works, Null
<1>4. \A u \in Tids : /\ loop'[u] = loop[u] /\ current'[u] = current[u] /\ Spot(u)' = Spot(u)
                      /\ L(u)' = L(u)
                      /\ \A k \in Int : (Came(u, k)' <=> Came(u, k)) /\ (Past(u, k)' <=> Past(u, k))
  BY <1>0, <1>2 DEF Works, Spot, Serialized, L, Came, Past
<1>5. ASSUME NEW u \in Tids
      PROVE  Located(u)'
  <2>1. Located(u) /\ Spot(u) \in Places
    BY SpotInPlaces DEF RingInv
  <2>2. pr'[u][Spot(u)].plan = pr[u][Spot(u)].plan /\ my'[u].index = my[u].index
    BY <2>1 DEF Works
  <2>3. CASE u = t
    BY <2>1, <2>2, <2>3, <1>1, <1>2, <1>4 DEF Located, Works, Serialized
  <2>4. CASE u # t
    BY <2>1, <2>2, <2>4, <1>2, <1>4 DEF Located, Works, Serialized
  <2> QED
    BY <2>3, <2>4
<1>6. ASSUME NEW u \in Tids
      PROVE  Robbing(u)'
  <2>1. Robbing(u) /\ my'[u].victim \in Tids /\ loop[u] \in Int
    BY <1>0 DEF RingInv, Works, LocalTypes
  <2>2. pc'[u] \in {"lock_victim", "steal"} => Came(my'[u].victim, loop[u])
    BY <2>1, <1>1, <1>2 DEF Robbing, Works
  <2> QED
    BY <2>1, <2>2, <1>4 DEF Robbing
<1>9. ASSUME NEW k \in Loops
      PROVE  Locked(k)'
  <2>1. Locked(k) /\ k \in Int /\ Wide(k)' = Wide(k)
    BY DEF RingInv, Loops, Wide, Works
  <2> QED
    BY <2>1, <1>0, <1>4 DEF Locked, Works
<1>7. ASSUME NEW u \in Tids
      PROVE  InBuffer(u)'
  <2>1. InBuffer(u) /\ Spot(u) \in Places
    BY SpotInPlaces DEF RingInv, Ring
  <2>2. BufferOf(Spot(u))' = BufferOf(Spot(u))
    BY <2>1, <1>4 DEF BufferOf, Works
  <2> QED
    BY <2>1, <2>2, <1>0, <1>1, <1>2, <1>4 DEF InBuffer
<1>8. ASSUME NEW b \in Places
      PROVE  Turning(b)'
  <2>1. Turning(b) /\ BufferOf(b) \in Int /\ NumBuffers \in Int
    BY DEF RingInv, Ring, RingTypes, SharedTypes, BufferOf, DispatchAssumption
  <2>2. BufferOf(b)' = BufferOf(b)
    BY DEF BufferOf, Works
  <2>3. \A u \in Tids : (Finisher(u, b)' <=> Finisher(u, b)) /\ (Finisher(u, b) => pc'[u] = pc[u])
    BY <2>2, <1>2, <1>4, <1>0 DEF Finisher
  <2>4. BufferOf(b) + NumBuffers \in Int
    BY <2>1
  <2>5. \A u \in Tids : \A k \in {BufferOf(b), BufferOf(b) + NumBuffers} : Past(u, k)' <=> Past(u, k)
    BY <2>1, <2>4, <1>4
  <2>6. /\ program' = program /\ nproc' = nproc
        /\ sh'[b].num_done = sh[b].num_done /\ sh'[b].buffer_index = sh[b].buffer_index
    BY DEF Works, RingInv
  <2> QED
    BY <2>1, <2>3, <2>5, <2>6, TurningStays
<1> QED
  <2>1. Loops' = Loops
    BY DEF Loops, Works
  <2> QED
    BY <2>1, <1>0, <1>3, <1>5, <1>6, <1>7, <1>8, <1>9 DEF RingInv, Ring

-----------------------------------------------------------------------------
\* A round of a ring leads to the same place.
LEMMA ModAdd ==
  ASSUME NEW n \in Nat \ {0}, NEW x \in Int
  PROVE  (x + n) % n = x % n
<1> DEFINE q == x \div n
           p == (x + n) \div n
           r == x % n
           s == (x + n) % n
<1>1. q \in Int /\ r \in 0..(n - 1) /\ x = n * q + r
  OBVIOUS
<1>2. p \in Int /\ s \in 0..(n - 1) /\ x + n = n * p + s
  OBVIOUS
<1> HIDE DEF q, p, r, s
<1> DEFINE d == p - q - 1
<1>3. d \in Int /\ n * d = r - s
  <2>1. n * (p - q - 1) = n * p - n * q - n
    BY <1>1, <1>2
  <2> QED
    BY <2>1, <1>1, <1>2
<1>4. d = 0
  <2>1. r - s < n /\ r - s > -n
    BY <1>1, <1>2
  <2> HIDE DEF d
  <2>2. d >= 1 => n * d >= n
    BY <1>3
  <2>3. d <= -1 => n * d <= -n
    BY <1>3
  <2> QED
    BY <2>1, <2>2, <2>3, <1>3, <1>1, <1>2
<1>5. r = s
  <2> HIDE DEF d
  <2> QED
    BY <1>3, <1>4, <1>1, <1>2
<1> QED
  BY <1>5 DEF r, s

LEMMA SmallMod ==
  ASSUME NEW n \in Nat \ {0}, NEW x \in 0..(n - 1)
  PROVE  x % n = x
<1> DEFINE q == x \div n
           r == x % n
<1>1. q \in Int /\ r \in 0..(n - 1) /\ x = n * q + r
  OBVIOUS
<1> HIDE DEF q, r
<1>2. (q >= 1 => n * q >= n) /\ (q <= -1 => n * q <= -n)
  BY <1>1
<1>3. q = 0
  BY <1>1, <1>2
<1>4. r = x
  BY <1>1, <1>3
<1> QED
  BY <1>4 DEF r

-----------------------------------------------------------------------------
(* The steps that move the ring, of a team of several threads. *)

LEMMA PreparedFields ==
  ASSUME NEW t \in Tids, NEW l, NEW p, DOMAIN p = PlaceFields, p.parm4 \in Tids, nproc \in Nat \ {0}
  PROVE  /\ DOMAIN Prepared(t, l, p) = PlaceFields /\ Prepared(t, l, p).plan = Plan(l, nproc)
         /\ Prepared(t, l, p).parm4 \in Tids
<1>1. (t + 1) % nproc \in Tids
  BY DEF Tids
<1> QED
  BY <1>1 DEF Prepared, PlaceFields

\* A step of a thread that leaves what it does to the rings aside.
LEMMA EnterLoopKeeps ==
  ASSUME RingInv, DispatchAssumption, ~Serialized, NEW t \in Tids, EnterLoop(t)
  PROVE  RingInv'
<1>0. /\ Tids' = Tids /\ Places' = Places /\ ~Serialized' /\ nproc \in Nat \ {0} /\ NumBuffers \in Nat \ {0}
      /\ pc \in [Tids -> Labels] /\ loop \in [Tids -> 0..Len(program)] /\ pc[t] = "outside"
      /\ Located(t) /\ disp_index[t] = loop[t] /\ loop[t] \in Nat /\ loop[t] < Len(program)
  BY DEF EnterLoop, At, Tids, Places, Serialized, RingInv, RingTypes, ProgramTypes, PcTypes, Located,
         DispatchAssumption
<1>1. /\ UNCHANGED <<program, nproc, sh, current, loop>>
      /\ pc' = [pc EXCEPT ![t] = "await_buffer"]
      /\ my' = [my EXCEPT ![t].index = loop[t]]
      /\ pr' = [pr EXCEPT ![t][Spot(t)] = Prepared(t, L(t), @)]
      /\ disp_index' = [disp_index EXCEPT ![t] = (@ + 1) % IndexSpan]
      /\ loop[t] > 0 /\ ~program[loop[t]].nowait => \A u \in Tids : loop[u] >= loop[t]
      /\ steal_lock' = IF L(t).wide /\ pr'[t][Spot(t)].plan.schedule = "static_steal"
                        THEN [steal_lock EXCEPT ![t] = FreeLock] ELSE steal_lock
  BY <1>0 DEF EnterLoop, Goto, Spot
<1>2. /\ pc'[t] = "await_buffer" /\ \A u \in Tids : u # t => pc'[u] = pc[u]
      /\ \A u \in Tids : Spot(u)' = Spot(u) /\ L(u)' = L(u) /\ loop'[u] = loop[u] /\ Spot(u) \in Places
  BY <1>0, <1>1, SpotInPlaces DEF Spot, L, Serialized, RingInv
<1>3. LocalTypes' /\ (\A u \in Tids : my'[u].index = IF u = t THEN loop[t] ELSE my[u].index)
  BY <1>0, <1>1 DEF RingInv, RingTypes, LocalTypes, LocalFields
<1>4. /\ PrivateTypes' /\ pr'[t][Spot(t)].plan = Plan(L(t), nproc)
      /\ \A u \in Tids : u # t => pr'[u] = pr[u]
  <2> DEFINE p == pr[t][Spot(t)]
             q == Prepared(t, L(t), p)
  <2>1. DOMAIN p = PlaceFields /\ p.parm4 \in Tids /\ DOMAIN pr = Tids /\ DOMAIN pr[t] = Places
    BY <1>2 DEF RingInv, RingTypes, PrivateTypes
  <2>2. DOMAIN q = PlaceFields /\ q.plan = Plan(L(t), nproc) /\ q.parm4 \in Tids
    BY <2>1, <1>0, PreparedFields
  <2>3. /\ DOMAIN pr' = Tids /\ DOMAIN pr'[t] = Places /\ \A u \in Tids : u # t => pr'[u] = pr[u]
        /\ \A b \in Places : pr'[t][b] = IF b = Spot(t) THEN q ELSE pr[t][b]
    BY <1>1, <1>2, <2>1
  <2>4. PrivateTypes'
    <3>1. PrivateTypes
      BY DEF RingInv, RingTypes
    <3> HIDE DEF p, q
    <3>2. \A u \in Tids, b \in Places : DOMAIN pr'[u][b] = PlaceFields /\ pr'[u][b].parm4 \in Tids
      <4> SUFFICES ASSUME NEW u \in Tids, NEW b \in Places
                   PROVE  DOMAIN pr'[u][b] = PlaceFields /\ pr'[u][b].parm4 \in Tids
        OBVIOUS
      <4>1. CASE u = t /\ b = Spot(t)
        BY <4>1, <2>2, <2>3
      <4>2. CASE u = t /\ b # Spot(t)
        BY <4>2, <3>1, <2>3 DEF PrivateTypes
      <4>3. CASE u # t
        BY <4>3, <3>1, <2>3 DEF PrivateTypes
      <4> QED
        BY <4>1, <4>2, <4>3
    <3> QED
      BY <3>1, <3>2, <2>3, <1>0 DEF PrivateTypes
  <2> QED
    BY <2>2, <2>3, <2>4, <1>2
<1>5. disp_index' \in [Tids -> Nat] /\ \A u \in Tids : disp_index'[u] = IF u = t THEN loop[t] + 1 ELSE disp_index[u]
  <2>1. loop[t] + 1 < IndexSpan /\ IndexSpan \in Nat
    BY <1>0 DEF RingInv, RingTypes, ProgramTypes, Apart, DispatchAssumption
  <2>2. (loop[t] + 1) % IndexSpan = loop[t] + 1
    BY <2>1, <1>0, SmallMod
  <2> QED
    BY <2>2, <1>0, <1>1 DEF RingInv, RingTypes
<1>6. /\ LockTypes' /\ \A u \in Tids : steal_lock[u] # NoLock => steal_lock'[u] # NoLock
      /\ Wide(loop[t]) => steal_lock'[t] # NoLock
  BY <1>0, <1>1, <1>4 DEF RingInv, RingTypes, LockTypes, Wide, StealsWide, L, NoLock, FreeLock
<1>7. RingTypes'
  BY <1>0, <1>1, <1>3, <1>4, <1>5, <1>6
     DEF RingInv, RingTypes, ProgramTypes, PcTypes, SharedTypes, Labels
<1>8. ASSUME NEW u \in Tids
      PROVE  Located(u)'
  <2>1. Located(u)
    BY DEF RingInv
  <2> QED
    BY <2>1, <1>0, <1>1, <1>2, <1>3, <1>4, <1>5 DEF Located, Stealing, Locking
<1>9. \A u \in Tids : \A k \in Int : /\ Past(u, k)' <=> Past(u, k)
                                     /\ Came(u, k)' <=> Came(u, k) \/ (u = t /\ k = loop[t])
  BY <1>0, <1>1, <1>2 DEF Past, Came, Finishing
<1>10. ASSUME NEW k \in Loops
       PROVE  Locked(k)'
  <2>1. Locked(k) /\ k \in Nat /\ (Wide(k)' <=> Wide(k))
    BY <1>1 DEF RingInv, Loops, Wide
  <2>2. CASE k # loop[t]
    BY <2>1, <2>2, <1>0, <1>1, <1>6, <1>9 DEF Locked
  <2>3. CASE k = loop[t]
    <3> SUFFICES ASSUME Wide(k)
                 PROVE  /\ \A u \in Tids : loop[u] >= k
                        /\ \A u \in Tids : Came(u, k)' => steal_lock'[u] # NoLock
      BY <2>1, <1>0, <1>1 DEF Locked
    <3>1. ASSUME loop[t] > 0
          PROVE  ~program[loop[t]].nowait
      <4>1. PICK i \in DOMAIN program \ {1} : i = loop[t] + 1
        BY <1>0, <3>1 DEF RingInv, RingTypes, ProgramTypes
      <4>2. StealsWide(program[i], nproc) => ~program[i - 1].nowait
        BY DEF RingInv, RingTypes, ProgramTypes, Apart
      <4>3. i - 1 = loop[t]
        BY <4>1, <1>0
      <4> QED
        BY <4>1, <4>2, <4>3, <2>3 DEF Wide
    <3>2. \A u \in Tids : loop[u] \in Nat /\ loop[u] >= loop[t]
      BY <3>1, <1>0, <1>1
    <3>3. ~Past(t, k)
      BY <2>3, <1>0 DEF Past, Finishing
    <3> QED
      BY <3>2, <3>3, <2>1, <2>3, <1>0, <1>6, <1>9 DEF Locked
  <2> QED
    BY <2>2, <2>3
<1>13. ASSUME NEW u \in Tids
       PROVE  Robbing(u)'
  <2>1. Robbing(u) /\ loop[u] \in Nat /\ my'[u].victim = my[u].victim /\ my[u].victim \in Tids
    BY <1>0, <1>1 DEF RingInv, RingTypes, LocalTypes, LocalFields
  <2> QED
    BY <2>1, <1>0, <1>1, <1>2, <1>9 DEF Robbing
<1>11. ASSUME NEW u \in Tids
       PROVE  InBuffer(u)'
  <2>1. InBuffer(u)
    BY DEF RingInv, Ring
  <2>2. BufferOf(Spot(u))' = BufferOf(Spot(u))
    BY <1>1, <1>2 DEF BufferOf
  <2> QED
    BY <2>1, <2>2, <1>0, <1>1, <1>2 DEF InBuffer, AtWork, Finishing, Stealing, Locking
<1>12. ASSUME NEW b \in Places
       PROVE  Turning(b)'
  <2>1. Turning(b) /\ BufferOf(b) \in Int /\ BufferOf(b) + NumBuffers \in Int
    BY <1>0 DEF RingInv, Ring, RingTypes, SharedTypes, BufferOf
  <2>2. \A u \in Tids : (Finisher(u, b)' <=> Finisher(u, b)) /\ (Finisher(u, b) => pc'[u] = pc[u])
    BY <1>0, <1>1, <1>2 DEF Finisher, Finishing, BufferOf
  <2> QED
    BY <2>1, <2>2, <1>1, <1>9, TurningStays DEF RingInv
<1> QED
  <2>1. Loops' = Loops
    BY <1>1 DEF Loops
  <2> QED
    BY <2>1, <1>0, <1>7, <1>8, <1>10, <1>11, <1>12, <1>13 DEF RingInv, Ring

\* A step within the loop that changes neither the private ring nor a local variable.
LEMMA LocatedStays ==
  ASSUME RingInv, ~Serialized, NEW t \in Tids, pc[t] # "outside",
         NEW l \in Labels \ {"outside"}, pc' = [pc EXCEPT ![t] = l],
         l \in Stealing => Plan(L(t), nproc).schedule = "static_steal", l \notin Locking,
         program' = program, nproc' = nproc, my' = my, pr' = pr, disp_index' = disp_index, loop' = loop
  PROVE  /\ Tids' = Tids /\ Places' = Places /\ Loops' = Loops /\ ~Serialized'
         /\ ProgramTypes' /\ PcTypes' /\ LocalTypes' /\ PrivateTypes' /\ disp_index' \in [Tids -> Nat]
         /\ \A u \in Tids : /\ Located(u)' /\ Robbing(u)' /\ Spot(u)' = Spot(u)
                            /\ pc'[u] = IF u = t THEN l ELSE pc[u]
                            /\ \A k \in Int : Came(u, k)' <=> Came(u, k)
<1>1. /\ Tids' = Tids /\ Places' = Places /\ Loops' = Loops /\ ~Serialized'
      /\ ProgramTypes' /\ LocalTypes' /\ PrivateTypes' /\ disp_index' \in [Tids -> Nat]
  BY DEF Tids, Places, Loops, Serialized, RingInv, RingTypes, ProgramTypes, LocalTypes, PrivateTypes
<1>2. pc \in [Tids -> Labels] /\ loop \in [Tids -> 0..Len(program)]
  BY DEF RingInv, RingTypes, PcTypes
<1>3. PcTypes' /\ \A u \in Tids : pc'[u] = IF u = t THEN l ELSE pc[u]
  BY <1>1, <1>2 DEF PcTypes, Labels
<1>4. \A u \in Tids : Spot(u)' = Spot(u) /\ L(u)' = L(u) /\ \A k \in Int : Came(u, k)' <=> Came(u, k)
  BY <1>1, <1>3 DEF Spot, Serialized, L, Came
<1>5. ASSUME NEW u \in Tids
      PROVE  Located(u)' /\ Robbing(u)'
  <2>1. Located(u) /\ Robbing(u) /\ my[u].victim \in Tids /\ loop[u] \in Int
    BY <1>2 DEF RingInv, RingTypes, LocalTypes
  <2>2. Located(u)'
    BY <2>1, <1>1, <1>3, <1>4 DEF Located
  <2>3. Robbing(u)'
    BY <2>1, <1>3, <1>4 DEF Robbing, Locking
  <2> QED
    BY <2>2, <2>3
<1> QED
  BY <1>1, <1>3, <1>4, <1>5

LEMMA LockedStays ==
  ASSUME NEW k, Locked(k), program' = program, nproc' = nproc, steal_lock' = steal_lock,
         \A u \in Tids : /\ loop[u] >= k => loop'[u] >= k
                         /\ Came(u, k)' <=> Came(u, k)
                         /\ Past(u, k) => Past(u, k)'
  PROVE  Locked(k)'
BY DEF Locked, Wide, Tids

LEMMA AwaitBufferKeeps ==
  ASSUME RingInv, DispatchAssumption, ~Serialized, NEW t \in Tids, AwaitBuffer(t)
  PROVE  RingInv'
<1>0. /\ Located(t) /\ InBuffer(t) /\ pc[t] = "await_buffer" /\ Place(t) = Spot(t) /\ Spot(t) \in Places
      /\ pc \in [Tids -> Labels] /\ loop \in [Tids -> 0..Len(program)]
      /\ current \in [Tids -> Places \cup {Null}]
      /\ NumBuffers \in Nat \ {0}
  BY SpotInPlaces
     DEF AwaitBuffer, At, RingInv, RingTypes, PcTypes, Ring, Located, Place, Spot, DispatchAssumption
<1> DEFINE l == IF MyPlan(t).schedule = "static_steal" THEN "publish" ELSE "next"
<1>1. /\ UNCHANGED <<program, nproc, sh, steal_lock, pr, disp_index, loop, my>>
      /\ pc' = [pc EXCEPT ![t] = l] /\ current' = [current EXCEPT ![t] = Spot(t)]
      /\ sh[Spot(t)].buffer_index = loop[t]
  <2>1. my[t].index = loop[t]
    BY <1>0 DEF Located
  <2> QED
    BY <2>1, <1>0 DEF AwaitBuffer, Goto, shared
<1>2. l \in Labels \ {"outside"} /\ l \in AtWork /\ l \notin Stealing /\ l \notin Finishing \cup {"leave", "await_buffer"}
  BY DEF Labels, AtWork, Stealing, Locking, Finishing
<1> HIDE DEF l
<1>3. /\ Tids' = Tids /\ Places' = Places /\ Loops' = Loops /\ ~Serialized'
      /\ ProgramTypes' /\ PcTypes' /\ LocalTypes' /\ PrivateTypes' /\ disp_index' \in [Tids -> Nat]
      /\ \A u \in Tids : /\ Located(u)' /\ Robbing(u)' /\ Spot(u)' = Spot(u)
                         /\ pc'[u] = IF u = t THEN l ELSE pc[u]
                         /\ \A k \in Int : Came(u, k)' <=> Came(u, k)
  BY <1>0, <1>1, <1>2, LocatedStays DEF Stealing
<1>4. RingTypes'
  BY <1>0, <1>1, <1>3 DEF RingInv, RingTypes, SharedTypes, LockTypes, Null
<1>5. \A u \in Tids : \A k \in Int : Past(u, k)' <=> Past(u, k)
  BY <1>0, <1>1, <1>2, <1>3 DEF Past, Finishing
<1>6. ASSUME NEW k \in Loops
      PROVE  Locked(k)'
  <2>1. k \in Int /\ Locked(k)
    BY DEF RingInv, Loops
  <2> QED
    BY <2>1, <1>1, <1>3, <1>5, LockedStays
<1>7. ASSUME NEW u \in Tids
      PROVE  InBuffer(u)'
  <2>1. InBuffer(u) /\ BufferOf(Spot(u))' = BufferOf(Spot(u))
    BY <1>1, <1>3 DEF RingInv, Ring, BufferOf
  <2>2. CASE u = t
    BY <2>1, <2>2, <1>0, <1>1, <1>2, <1>3 DEF InBuffer, BufferOf
  <2>3. CASE u # t
    BY <2>1, <2>3, <1>0, <1>1, <1>3 DEF InBuffer
  <2> QED
    BY <2>2, <2>3
<1>8. ASSUME NEW b \in Places
      PROVE  Turning(b)'
  <2>1. Turning(b) /\ BufferOf(b) \in Int /\ BufferOf(b) + NumBuffers \in Int
    BY <1>0 DEF RingInv, Ring, RingTypes, SharedTypes, BufferOf
  <2>2. \A u \in Tids : (Finisher(u, b)' <=> Finisher(u, b)) /\ (Finisher(u, b) => pc'[u] = pc[u])
    BY <1>0, <1>1, <1>2, <1>3 DEF Finisher, Finishing, BufferOf
  <2> QED
    BY <2>1, <2>2, <1>1, <1>5, TurningStays
<1> QED
  BY <1>3, <1>4, <1>6, <1>7, <1>8 DEF RingInv, Ring

LEMMA CountDoneKeeps ==
  ASSUME RingInv, DispatchAssumption, ~Serialized, NEW t \in Tids, CountDone(t)
  PROVE  RingInv'
<1> DEFINE b == Spot(t)
           l == IF sh[b].num_done = nproc - 1 THEN "reset" ELSE "leave"
<1>0. /\ Located(t) /\ InBuffer(t) /\ pc[t] = "count_done" /\ b \in Places
      /\ current[t] = b /\ BufferOf(b) = loop[t] /\ loop[t] \in Nat /\ loop[t] < Len(program)
      /\ pc \in [Tids -> Labels] /\ loop \in [Tids -> 0..Len(program)]
      /\ current \in [Tids -> Places \cup {Null}] /\ SharedTypes /\ LockTypes
      /\ NumBuffers \in Nat \ {0} /\ nproc \in Nat \ {0}
  <2>1. Located(t) /\ InBuffer(t) /\ pc[t] = "count_done" /\ b \in Places
    BY SpotInPlaces DEF CountDone, At, RingInv, Ring
  <2>2. pc[t] \in AtWork /\ pc[t] \notin {"outside", "await_buffer"}
    BY <2>1 DEF AtWork
  <2> QED
    BY <2>1, <2>2 DEF RingInv, RingTypes, PcTypes, ProgramTypes, DispatchAssumption, InBuffer, Located
<1>1. /\ UNCHANGED <<program, nproc, steal_lock, pr, disp_index, loop, my, current>>
      /\ pc' = [pc EXCEPT ![t] = l] /\ sh' = [sh EXCEPT ![b].num_done = @ + 1]
  BY <1>0 DEF CountDone, Goto, private, Shared
<1>2. l \in Labels \ {"outside", "await_buffer"} /\ l \notin AtWork /\ l \in Finishing \cup {"leave"} /\ l \notin Stealing
  BY DEF Labels, AtWork, Stealing, Locking, Finishing
<1>3. /\ Tids' = Tids /\ Places' = Places /\ Loops' = Loops /\ ~Serialized'
      /\ ProgramTypes' /\ PcTypes' /\ LocalTypes' /\ PrivateTypes' /\ disp_index' \in [Tids -> Nat]
      /\ \A u \in Tids : /\ Located(u)' /\ Robbing(u)' /\ Spot(u)' = Spot(u)
                         /\ pc'[u] = IF u = t THEN l ELSE pc[u]
                         /\ \A k \in Int : Came(u, k)' <=> Came(u, k)
  <2> HIDE DEF l
  <2> QED
    BY <1>0, <1>1, <1>2, LocatedStays DEF Stealing
<1>4. /\ SharedTypes' /\ \A c \in Places : /\ sh'[c].buffer_index = sh[c].buffer_index
                                           /\ sh'[c].num_done = sh[c].num_done + IF c = b THEN 1 ELSE 0
  BY <1>0, <1>1, SMTT(30) DEF SharedTypes, BufferFields, Places
<1>5. RingTypes'
  BY <1>0, <1>1, <1>3, <1>4 DEF RingTypes, LockTypes, Null
<1>6. \A u \in Tids : \A k \in Int : Past(u, k)' <=> Past(u, k) \/ (u = t /\ k = loop[t])
  <2> HIDE DEF l
  <2> QED
    BY <1>0, <1>1, <1>2, <1>3 DEF Past, Finishing
<1>7. ASSUME NEW k \in Loops
      PROVE  Locked(k)'
  <2>1. k \in Int /\ Locked(k)
    BY DEF RingInv, Loops
  <2> QED
    BY <2>1, <1>1, <1>3, <1>6, LockedStays
<1>8. ASSUME NEW u \in Tids
      PROVE  InBuffer(u)'
  <2>1. InBuffer(u) /\ BufferOf(Spot(u))' = BufferOf(Spot(u))
    BY <1>1, <1>3, <1>4, SpotInPlaces DEF RingInv, Ring, BufferOf
  <2>2. CASE u = t
    <3> HIDE DEF l
    <3> QED
      BY <2>1, <2>2, <1>0, <1>1, <1>2, <1>3 DEF InBuffer
  <2>3. CASE u # t
    BY <2>1, <2>3, <1>0, <1>1, <1>3 DEF InBuffer
  <2> QED
    BY <2>2, <2>3
<1>9. ASSUME NEW c \in Places, c # b
      PROVE  Turning(c)'
  <2>1. Turning(c) /\ BufferOf(c) \in Int /\ BufferOf(c) + NumBuffers \in Int
    BY <1>0 DEF RingInv, Ring, SharedTypes, BufferOf
  <2>2. BufferOf(c) % NumBuffers = c /\ loop[t] % NumBuffers = b
    BY <2>1 DEF Turning, Spot
  <2>3. loop[t] # BufferOf(c) /\ loop[t] # BufferOf(c) + NumBuffers
    <3>1. (BufferOf(c) + NumBuffers) % NumBuffers = BufferOf(c) % NumBuffers
      BY <2>1, <1>0, ModAdd
    <3> QED
      BY <3>1, <2>2, <1>9
  <2>4. \A u \in Tids : (Finisher(u, c)' <=> Finisher(u, c)) /\ (Finisher(u, c) => pc'[u] = pc[u])
    BY <2>3, <1>0, <1>1, <1>3, <1>4 DEF Finisher, Finishing, BufferOf
  <2> QED
    BY <2>1, <2>3, <2>4, <1>1, <1>4, <1>6, <1>9, TurningStays
<1>10. Turning(b)'
  <2>1. PICK k \in Int : k = loop[t] /\ k < Len(program)
    BY <1>0
  <2>2. Turning(b) /\ ~Past(t, k) /\ BufferOf(b) = k
    BY <2>1, <1>0 DEF RingInv, Ring, Past, Finishing
  <2>3. /\ ~(\E u \in Tids : Finisher(u, b))
        /\ sh[b].num_done = Cardinality(Counted(k)) /\ sh[b].num_done < nproc
    BY <2>2, <1>0 DEF Turning, Counting
  <2>4. BufferOf(b)' = k /\ Counted(k)' = Counted(k) \cup {t} /\ t \notin Counted(k)
    BY <2>1, <2>2, <1>0, <1>3, <1>4, <1>6, <1>1 DEF BufferOf, Counted
  <2>5. IsFiniteSet(Tids) /\ Cardinality(Tids) = nproc
    BY <1>0, FS_Interval DEF Tids
  <2>6. IsFiniteSet(Counted(k)) /\ Cardinality(Counted(k)') = sh[b].num_done + 1
    <3>1. Counted(k) \subseteq Tids
      BY DEF Counted
    <3>2. Cardinality(Counted(k) \cup {t}) = Cardinality(Counted(k)) + 1
      BY <2>4, <2>5, <3>1, OneMoreCounted
    <3> QED
      BY <2>3, <2>4, <2>5, <3>1, <3>2, FS_Subset
  <2>7. \A u \in Tids : Finisher(u, b)' => u = t /\ sh[b].num_done = nproc - 1
    BY <2>1, <2>2, <2>3, <2>4, <1>0, <1>1, <1>3 DEF Finisher, Finishing
  <2>10. SUFFICES Counting(b)'
    <3>1. \A u \in Tids : ~Past(u, k + NumBuffers) /\ (Past(u, k + NumBuffers)' => Past(u, k + NumBuffers))
      BY <2>1, <2>2, <1>0, <1>6 DEF Turning
    <3>2. BufferOf(b)' + NumBuffers = k + NumBuffers
      BY <2>4
    <3> QED
      BY <3>1, <3>2, <2>1, <2>2, <2>4, <1>1, <1>3 DEF Turning
  <2>8. CASE sh[b].num_done = nproc - 1
    <3>1. Counted(k)' = Tids
      BY <2>3, <2>4, <2>5, <2>6, <2>8, <1>0, FS_Subset DEF Counted
    <3>2. Finisher(t, b)' /\ \A u \in Tids : Past(u, k)'
      BY <3>1, <2>1, <2>2, <2>4, <2>8, <1>0, <1>1, <1>3 DEF Counted, Finisher, Finishing
    <3>3. sh'[b].num_done = nproc /\ pc'[t] = "reset"
      BY <2>8, <1>0, <1>3, <1>4 DEF SharedTypes
    <3> QED
      BY <3>2, <3>3, <2>4, <2>7, <1>1, <1>3 DEF Counting
  <2>9. CASE sh[b].num_done # nproc - 1
    <3>1. sh'[b].num_done = Cardinality(Counted(k))' /\ sh'[b].num_done < nproc
      BY <2>3, <2>6, <2>9, <1>0, <1>4 DEF SharedTypes
    <3>2. ~\E u \in Tids : Finisher(u, b)'
      BY <2>7, <2>9
    <3> QED
      BY <3>1, <3>2, <2>4, <1>1, <1>3 DEF Counting
  <2> QED
    BY <2>8, <2>9
<1> QED
  BY <1>3, <1>5, <1>7, <1>8, <1>9, <1>10 DEF RingInv, Ring

\* All are past the loop that a thread finishes, and nobody else finishes it.
LEMMA FinisherAlone ==
  ASSUME RingInv, DispatchAssumption, ~Serialized, NEW t \in Tids, pc[t] \in Finishing
  PROVE  /\ Spot(t) \in Places /\ current[t] = Spot(t) /\ BufferOf(Spot(t)) = loop[t]
         /\ loop[t] \in Loops /\ Finisher(t, Spot(t)) /\ Turning(Spot(t))
         /\ \A u \in Tids : Past(u, loop[t]) /\ (pc[u] \in Finishing /\ loop[u] = loop[t] => u = t)
         /\ sh[Spot(t)].num_done = IF pc[t] = "reset" THEN nproc ELSE 0
<1>1. /\ Located(t) /\ InBuffer(t) /\ Spot(t) \in Places /\ Turning(Spot(t))
      /\ loop[t] \in Nat /\ Len(program) \in Nat /\ pc[t] \notin {"outside", "await_buffer"}
  BY SpotInPlaces DEF RingInv, Ring, RingTypes, PcTypes, ProgramTypes, Finishing
<1>2. /\ current[t] = Spot(t) /\ BufferOf(Spot(t)) = loop[t] /\ loop[t] \in Loops /\ Finisher(t, Spot(t))
  BY <1>1 DEF InBuffer, Located, Loops, Finisher
<1>3. PICK w \in Tids :
        /\ Finisher(w, Spot(t)) /\ \A u \in Tids : Past(u, loop[t]) /\ (Finisher(u, Spot(t)) => u = w)
        /\ sh[Spot(t)].num_done = IF pc[w] = "reset" THEN nproc ELSE 0
  BY <1>1, <1>2 DEF Turning, Counting
<1>4. w = t
  BY <1>2, <1>3
<1>5. \A u \in Tids : pc[u] \in Finishing /\ loop[u] = loop[t] => u = t
  BY <1>2, <1>3, <1>4 DEF Finisher
<1> QED
  BY <1>1, <1>2, <1>3, <1>4, <1>5

LEMMA ResetKeeps ==
  ASSUME RingInv, DispatchAssumption, ~Serialized, NEW t \in Tids, Reset(t)
  PROVE  RingInv'
<1> DEFINE b == Spot(t)
<1>0. /\ pc[t] = "reset" /\ pc[t] \in Finishing /\ Located(t)
      /\ pc \in [Tids -> Labels] /\ loop \in [Tids -> 0..Len(program)]
      /\ current \in [Tids -> Places \cup {Null}] /\ SharedTypes /\ LockTypes
      /\ NumBuffers \in Nat \ {0} /\ nproc \in Nat \ {0}
  BY DEF Reset, At, Finishing, RingInv, RingTypes, PcTypes, ProgramTypes, DispatchAssumption
<1>a. /\ b \in Places /\ current[t] = b /\ BufferOf(b) = loop[t] /\ loop[t] \in Loops /\ Finisher(t, b)
      /\ Turning(b)
      /\ \A u \in Tids : Past(u, loop[t]) /\ (pc[u] \in Finishing /\ loop[u] = loop[t] => u = t)
  BY <1>0, FinisherAlone
<1>1. /\ UNCHANGED <<program, nproc, pr, disp_index, loop, my, current>>
      /\ steal_lock' = IF HasLock(t) THEN [u \in DOMAIN steal_lock |-> NoLock] ELSE steal_lock
      /\ pc' = [pc EXCEPT ![t] = "release"]
      /\ sh' = [sh EXCEPT ![b].num_done = 0, ![b].iteration = 0,
                          ![b].ordered_iteration = IF L(t).ordered THEN 0 ELSE @]
  BY <1>a DEF Reset, Goto, private
<1>2. "release" \in Labels \ {"outside"} /\ "release" \notin Stealing /\ "release" \notin Locking
  BY DEF Labels, Finishing, Stealing, Locking
<1>3. /\ Tids' = Tids /\ Places' = Places /\ Loops' = Loops /\ ~Serialized'
      /\ ProgramTypes' /\ PcTypes' /\ LocalTypes' /\ PrivateTypes' /\ disp_index' \in [Tids -> Nat]
      /\ \A u \in Tids : /\ Located(u)' /\ Robbing(u)' /\ Spot(u)' = Spot(u)
                         /\ pc'[u] = IF u = t THEN "release" ELSE pc[u]
                         /\ \A k \in Int : Came(u, k)' <=> Came(u, k)
  BY <1>0, <1>1, <1>2, LocatedStays
<1>4. /\ SharedTypes' /\ \A c \in Places : /\ sh'[c].buffer_index = sh[c].buffer_index
                                           /\ sh'[c].num_done = IF c = b THEN 0 ELSE sh[c].num_done
  BY <1>0, <1>a, <1>1 DEF SharedTypes, BufferFields
<1>5. RingTypes'
  BY <1>0, <1>1, <1>3, <1>4 DEF RingTypes, LockTypes, Null
<1>6. \A u \in Tids : \A k \in Int : Past(u, k)' <=> Past(u, k)
  BY <1>0, <1>1, <1>3 DEF Past, Finishing
<1>7. ASSUME NEW k \in Loops
      PROVE  Locked(k)'
  <2>1. k \in Int /\ Locked(k)
    BY DEF RingInv, Loops
  <2>2. CASE ~HasLock(t)
    BY <2>1, <2>2, <1>1, <1>3, <1>6, LockedStays
  <2>3. CASE HasLock(t)
    <3>1. Wide(loop[t]) /\ Locked(loop[t]) /\ \A u \in Tids : loop[u] \in Int
      <4>1. Place(t) = Spot(t) /\ Locked(loop[t])
        BY <1>0, <1>a DEF Place, Spot, Located, RingInv
      <4>2. Plan(L(t), nproc) = MyPlan(t)
        BY <4>1, <1>0 DEF Located, MyPlan, Mine
      <4> QED
        BY <4>1, <4>2, <2>3, <1>0 DEF HasLock, Wide, StealsWide, L
    <3>2. Came(t, loop[t])
      BY <1>0 DEF Came
    <3>3. \A u \in Tids : loop[u] >= loop[t]
      BY <3>1, <3>2 DEF Locked
    <3>4. CASE k <= loop[t]
      <4>1. \A u \in Tids : Past(u, k)'
        BY <3>1, <3>4, <2>1, <1>a, <1>6 DEF Past
      <4>2. \A u \in Tids : loop'[u] >= k
        BY <3>1, <3>3, <3>4, <2>1, <1>1
      <4> QED
        BY <4>1, <4>2, <1>3 DEF Locked
    <3>5. CASE k > loop[t]
      <4>1. Wide(k) => ~\E u \in Tids : Came(u, k)
        BY <3>1, <3>5, <2>1 DEF Locked
      <4> QED
        BY <4>1, <2>1, <1>1, <1>3 DEF Locked, Wide
    <3> QED
      BY <3>1, <3>4, <3>5, <2>1
  <2> QED
    BY <2>2, <2>3
<1>8. ASSUME NEW u \in Tids
      PROVE  InBuffer(u)'
  <2>1. InBuffer(u) /\ BufferOf(Spot(u))' = BufferOf(Spot(u))
    BY <1>1, <1>3, <1>4, SpotInPlaces DEF RingInv, Ring, BufferOf
  <2> QED
    BY <2>1, <1>0, <1>1, <1>3 DEF InBuffer, AtWork, Stealing, Locking, Finishing
<1>9. ASSUME NEW c \in Places, c # b
      PROVE  Turning(c)'
  <2>1. Turning(c) /\ BufferOf(c) \in Int /\ BufferOf(c) + NumBuffers \in Int
    BY <1>0 DEF RingInv, Ring, SharedTypes, BufferOf
  <2>2. loop[t] # BufferOf(c)
    BY <2>1, <1>9 DEF Turning, Spot
  <2>3. \A u \in Tids : (Finisher(u, c)' <=> Finisher(u, c)) /\ (Finisher(u, c) => pc'[u] = pc[u])
    BY <2>2, <1>0, <1>1, <1>3, <1>4 DEF Finisher, Finishing, BufferOf
  <2> QED
    BY <2>1, <2>3, <1>1, <1>4, <1>6, <1>9, TurningStays
<1>10. Turning(b)'
  <2>1. PICK k \in Int : k = loop[t] /\ k + NumBuffers \in Int
    BY <1>0
  <2>2. BufferOf(b) = k /\ BufferOf(b)' = k
    BY <2>1, <1>a, <1>3, <1>4 DEF BufferOf
  <2>3. Finisher(t, b)' /\ \A u \in Tids : Past(u, k)' /\ (Finisher(u, b)' => u = t)
    BY <2>1, <2>2, <1>0, <1>a, <1>1, <1>3, <1>6 DEF Finisher, Finishing
  <2>4. Counting(b)'
    <3>1. sh'[b].num_done = 0 /\ pc'[t] = "release" /\ Spot(t)' = b
      BY <1>a, <1>3, <1>4
    <3> QED
      BY <3>1, <2>2, <2>3, <1>3 DEF Counting
  <2>5. \A u \in Tids : ~Past(u, k + NumBuffers)'
    BY <2>1, <2>2, <1>a, <1>6 DEF Turning
  <2> QED
    BY <2>2, <2>4, <2>5, <1>a, <1>1, <1>3 DEF Turning
<1> QED
  BY <1>3, <1>5, <1>7, <1>8, <1>9, <1>10 DEF RingInv, Ring

LEMMA ReleaseKeeps ==
  ASSUME RingInv, DispatchAssumption, ~Serialized, NEW t \in Tids, Release(t)
  PROVE  RingInv'
<1> DEFINE b == Spot(t)
<1>0. /\ pc[t] = "release" /\ pc[t] \in Finishing /\ Located(t)
      /\ pc \in [Tids -> Labels] /\ loop \in [Tids -> 0..Len(program)] /\ Len(program) \in Nat
      /\ current \in [Tids -> Places \cup {Null}] /\ SharedTypes /\ LockTypes
      /\ NumBuffers \in Nat \ {0} /\ nproc \in Nat \ {0}
  BY DEF Release, At, Finishing, RingInv, RingTypes, PcTypes, ProgramTypes, DispatchAssumption
<1>a. /\ b \in Places /\ current[t] = b /\ BufferOf(b) = loop[t] /\ loop[t] \in Loops /\ Finisher(t, b)
      /\ Turning(b)
      /\ \A u \in Tids : Past(u, loop[t]) /\ (pc[u] \in Finishing /\ loop[u] = loop[t] => u = t)
      /\ sh[b].num_done = 0
  BY <1>0, FinisherAlone
<1>b. (loop[t] + NumBuffers) % IndexSpan = loop[t] + NumBuffers
  <2>1. /\ loop[t] + NumBuffers < IndexSpan /\ IndexSpan \in Nat /\ loop[t] \in Nat
    BY <1>0, <1>a DEF RingInv, RingTypes, ProgramTypes, Apart, DispatchAssumption, Loops
  <2> QED
    BY <2>1, <1>0, SmallMod
<1>1. /\ UNCHANGED <<program, nproc, steal_lock, pr, disp_index, loop, my, current>>
      /\ pc' = [pc EXCEPT ![t] = "leave"]
      /\ sh' = [sh EXCEPT ![b].buffer_index = loop[t] + NumBuffers]
  BY <1>a, <1>b DEF Release, Goto, private, BufferOf
<1>2. "leave" \in Labels \ {"outside"} /\ "leave" \notin Stealing /\ "leave" \notin Locking
  BY DEF Labels, Stealing, Locking
<1>3. /\ Tids' = Tids /\ Places' = Places /\ Loops' = Loops /\ ~Serialized'
      /\ ProgramTypes' /\ PcTypes' /\ LocalTypes' /\ PrivateTypes' /\ disp_index' \in [Tids -> Nat]
      /\ \A u \in Tids : /\ Located(u)' /\ Robbing(u)' /\ Spot(u)' = Spot(u)
                         /\ pc'[u] = IF u = t THEN "leave" ELSE pc[u]
                         /\ \A k \in Int : Came(u, k)' <=> Came(u, k)
  BY <1>0, <1>1, <1>2, LocatedStays
<1>4. /\ SharedTypes' /\ \A c \in Places : /\ sh'[c].num_done = sh[c].num_done
                                           /\ sh'[c].buffer_index = IF c = b THEN loop[t] + NumBuffers
                                                                             ELSE sh[c].buffer_index
  BY <1>0, <1>a, <1>1 DEF SharedTypes, BufferFields, Loops
<1>5. RingTypes'
  BY <1>0, <1>1, <1>3, <1>4 DEF RingTypes, LockTypes, Null
<1>6. \A u \in Tids : \A k \in Int : Past(u, k)' <=> Past(u, k)
  BY <1>0, <1>1, <1>3 DEF Past, Finishing
<1>7. ASSUME NEW k \in Loops
      PROVE  Locked(k)'
  <2>1. k \in Int /\ Locked(k)
    BY DEF RingInv, Loops
  <2> QED
    BY <2>1, <1>1, <1>3, <1>6, LockedStays
<1>8. ASSUME NEW u \in Tids
      PROVE  InBuffer(u)'
  <2>1. InBuffer(u) /\ Spot(u) \in Places
    BY SpotInPlaces DEF RingInv, Ring
  <2>2. current'[u] = IF pc'[u] \in {"outside", "await_buffer"} THEN Null ELSE Spot(u)
    BY <2>1, <1>0, <1>1, <1>3 DEF InBuffer
  <2>3. ASSUME pc'[u] \in AtWork \cup Finishing
        PROVE  BufferOf(Spot(u))' = loop[u]
    <3>1. u # t /\ pc[u] \in AtWork \cup Finishing /\ BufferOf(Spot(u)) = loop[u]
      BY <2>1, <2>3, <1>3 DEF InBuffer, AtWork, Stealing, Locking, Finishing
    <3>2. Spot(u) # b
      <4> SUFFICES ASSUME Spot(u) = b
                   PROVE  FALSE
        OBVIOUS
      <4>1. loop[u] = loop[t] /\ loop[t] \in Int
        BY <3>1, <1>0, <1>a
      <4>2. pc[u] \in Finishing \cup {"leave"}
        BY <4>1, <1>a DEF Past
      <4> QED
        BY <4>1, <4>2, <3>1, <1>a DEF AtWork, Stealing, Locking
    <3> QED
      BY <2>1, <3>1, <3>2, <1>3, <1>4 DEF BufferOf
  <2> QED
    BY <2>2, <2>3, <1>1, <1>3 DEF InBuffer
<1>9. ASSUME NEW c \in Places, c # b
      PROVE  Turning(c)'
  <2>1. Turning(c) /\ BufferOf(c) \in Int /\ BufferOf(c) + NumBuffers \in Int
    BY <1>0 DEF RingInv, Ring, SharedTypes, BufferOf
  <2>2. loop[t] # BufferOf(c)
    BY <2>1, <1>9 DEF Turning, Spot
  <2>3. \A u \in Tids : (Finisher(u, c)' <=> Finisher(u, c)) /\ (Finisher(u, c) => pc'[u] = pc[u])
    BY <2>2, <1>0, <1>1, <1>3, <1>4, <1>9 DEF Finisher, Finishing, BufferOf
  <2> QED
    BY <2>1, <2>3, <1>1, <1>4, <1>6, <1>9, TurningStays
<1>10. Turning(b)'
  <2>1. PICK k \in Nat : k = loop[t] + NumBuffers /\ k < Len(program) + NumBuffers
    BY <1>0, <1>a DEF Loops
  <2>2. Spot(t)' = b /\ BufferOf(b)' = k /\ sh'[b].num_done = 0
    BY <2>1, <1>a, <1>3, <1>4 DEF BufferOf
  <2>3. k % NumBuffers = b
    <3>1. (loop[t] + NumBuffers) % NumBuffers = loop[t] % NumBuffers
      <4>1. loop[t] \in Int
        BY <1>0
      <4> QED
        BY <4>1, <1>0, ModAdd
    <3>2. loop[t] % NumBuffers = b
      BY <1>a DEF Turning
    <3> QED
      BY <3>1, <3>2, <2>1
  <2>4. \A u \in Tids : ~Past(u, k) /\ ~Past(u, k)'
    BY <2>1, <1>a, <1>6 DEF Turning
  <2>5. \A u \in Tids : ~Past(u, k + NumBuffers)'
    <3> TAKE u \in Tids
    <3>1. loop[u] \in Int /\ k + NumBuffers \in Int /\ k < k + NumBuffers
      BY <2>1, <1>0
    <3>2. loop[u] <= k
      BY <3>1, <2>1, <2>4 DEF Past
    <3>3. ~Past(u, k + NumBuffers)
      BY <3>1, <3>2, <2>1, <1>0 DEF Past
    <3> QED
      BY <3>1, <3>3, <1>6
  <2>6. ~\E u \in Tids : Finisher(u, b)'
    BY <2>1, <2>2, <2>4, <1>3 DEF Finisher, Past
  <2>7. Counted(k)' = {}
    BY <2>4, <1>3 DEF Counted
  <2>8. Counting(b)'
    BY <2>2, <2>6, <2>7, <1>0, <1>1, <1>3, FS_EmptySet DEF Counting
  <2> QED
    BY <2>1, <2>2, <2>3, <2>5, <2>8, <1>1, <1>3 DEF Turning
<1> QED
  BY <1>3, <1>5, <1>7, <1>8, <1>9, <1>10 DEF RingInv, Ring

LEMMA LeaveKeeps ==
  ASSUME RingInv, DispatchAssumption, ~Serialized, NEW t \in Tids, Leave(t)
  PROVE  RingInv'
<1>0. /\ pc[t] = "leave" /\ Located(t) /\ loop[t] \in Nat /\ loop[t] < Len(program)
      /\ pc \in [Tids -> Labels] /\ loop \in [Tids -> 0..Len(program)] /\ Len(program) \in Nat
      /\ current \in [Tids -> Places \cup {Null}] /\ SharedTypes
      /\ NumBuffers \in Nat \ {0} /\ nproc \in Nat \ {0}
  BY DEF Leave, At, RingInv, RingTypes, PcTypes, ProgramTypes, DispatchAssumption, Located
<1>1. /\ UNCHANGED <<program, nproc, sh, steal_lock, pr, disp_index, my>>
      /\ pc' = [pc EXCEPT ![t] = "outside"] /\ loop' = [loop EXCEPT ![t] = @ + 1]
      /\ current' = [current EXCEPT ![t] = Null]
  BY DEF Leave, Goto, shared
<1>2. /\ Tids' = Tids /\ Places' = Places /\ Loops' = Loops /\ ~Serialized'
      /\ \A u \in Tids : /\ pc'[u] = IF u = t THEN "outside" ELSE pc[u]
                         /\ loop'[u] = loop[u] + IF u = t THEN 1 ELSE 0
                         /\ current'[u] = IF u = t THEN Null ELSE current[u]
                         /\ u # t => Spot(u)' = Spot(u) /\ L(u)' = L(u)
  BY <1>0, <1>1 DEF Tids, Places, Loops, Serialized, Spot, L
<1>3. RingTypes'
  BY <1>0, <1>1, <1>2
     DEF RingInv, RingTypes, ProgramTypes, PcTypes, LockTypes, SharedTypes, LocalTypes, PrivateTypes, Null, Labels
<1>4. \A u \in Tids : \A k \in Int : /\ Past(u, k)' <=> Past(u, k)
                                     /\ Came(u, k)' <=> Came(u, k)
  BY <1>0, <1>2 DEF Past, Came, Finishing
<1>5. ASSUME NEW u \in Tids
      PROVE  Located(u)' /\ Robbing(u)'
  <2>1. Located(u) /\ Robbing(u) /\ my[u].victim \in Tids /\ loop[u] \in Int
    BY <1>0 DEF RingInv, RingTypes, LocalTypes
  <2>2. Located(u)'
    BY <2>1, <1>0, <1>1, <1>2 DEF Located, Stealing, Locking
  <2>3. Robbing(u)'
    BY <2>1, <1>1, <1>2, <1>4 DEF Robbing
  <2> QED
    BY <2>2, <2>3
<1>6. ASSUME NEW k \in Loops
      PROVE  Locked(k)'
  <2>1. k \in Int /\ Locked(k)
    BY DEF RingInv, Loops
  <2>2. \A u \in Tids : loop[u] >= k => loop'[u] >= k
    BY <2>1, <1>0, <1>2
  <2> QED
    BY <2>1, <2>2, <1>1, <1>4, LockedStays
<1>7. ASSUME NEW u \in Tids
      PROVE  InBuffer(u)'
  <2>1. InBuffer(u)
    BY DEF RingInv, Ring
  <2>2. CASE u = t
    BY <2>2, <1>2 DEF InBuffer, AtWork, Stealing, Locking, Finishing
  <2>3. CASE u # t
    <3>1. BufferOf(Spot(u))' = BufferOf(Spot(u))
      BY <2>3, <1>1, <1>2 DEF BufferOf
    <3> QED
      BY <3>1, <2>1, <2>3, <1>0, <1>2 DEF InBuffer
  <2> QED
    BY <2>2, <2>3
<1>8. ASSUME NEW b \in Places
      PROVE  Turning(b)'
  <2>1. Turning(b) /\ BufferOf(b) \in Int /\ BufferOf(b) + NumBuffers \in Int
    BY <1>0 DEF RingInv, Ring, SharedTypes, BufferOf
  <2>2. \A u \in Tids : (Finisher(u, b)' <=> Finisher(u, b)) /\ (Finisher(u, b) => pc'[u] = pc[u])
    BY <1>0, <1>1, <1>2 DEF Finisher, Finishing, BufferOf
  <2> QED
    BY <2>1, <2>2, <1>1, <1>4, TurningStays
<1> QED
  BY <1>2, <1>3, <1>5, <1>6, <1>7, <1>8 DEF RingInv, Ring

-----------------------------------------------------------------------------
(* What the threads do at work: the shared buffers, the private ones. *)

\* Nothing of a shared buffer that the ring depends on, and no lock less.
SameShared ==
  /\ SharedTypes' /\ LockTypes'
  /\ \A b \in Places : sh'[b].num_done = sh[b].num_done /\ sh'[b].buffer_index = sh[b].buffer_index
  /\ \A u \in Tids : steal_lock[u] # NoLock => steal_lock'[u] # NoLock

\* Nothing of a private buffer but what a thread knows of its chunks.
SamePlans == PrivateTypes' /\ \A u \in Tids, b \in Places : pr'[u][b].plan = pr[u][b].plan
SameIndices(t) == LocalTypes' /\ \A u \in Tids : my'[u].index = my[u].index /\ (u # t => my'[u] = my[u])

\* A chunk is taken, or there is none.
AfterChunk == IF Serialized THEN {"next", "leave"}
              ELSE {"next", "enter_ordered", "end_iteration", "count_done"}
Taken(t) == SamePlans /\ SameIndices(t) /\ \E l \in AfterChunk : pc' = [pc EXCEPT ![t] = l]

LEMMA PlaceSame ==
  ASSUME RingTypes, nproc' = nproc, NEW t \in Tids, NEW b, NEW q, pr' = [pr EXCEPT ![t][b] = q],
         b \in Places => DOMAIN q = PlaceFields /\ q.plan = pr[t][b].plan /\ q.parm4 \in Tids
  PROVE  SamePlans
<1>1. PrivateTypes /\ Tids' = Tids /\ Places' = Places
  BY DEF RingTypes, Tids, Places
<1>2. /\ DOMAIN pr' = Tids /\ DOMAIN pr'[t] = Places /\ \A u \in Tids : u # t => pr'[u] = pr[u]
      /\ \A c \in Places : pr'[t][c] = IF c = b THEN q ELSE pr[t][c]
  BY <1>1 DEF PrivateTypes
<1>3. ASSUME NEW u \in Tids, NEW c \in Places
      PROVE  DOMAIN pr'[u][c] = PlaceFields /\ pr'[u][c].parm4 \in Tids /\ pr'[u][c].plan = pr[u][c].plan
  <2>1. CASE u = t /\ c = b
    BY <2>1, <1>2
  <2>2. CASE u = t /\ c # b
    BY <2>2, <1>1, <1>2 DEF PrivateTypes
  <2>3. CASE u # t
    BY <2>3, <1>1, <1>2 DEF PrivateTypes
  <2> QED
    BY <2>1, <2>2, <2>3
<1>4. \A u \in Tids : DOMAIN pr'[u] = Places
  BY <1>1, <1>2 DEF PrivateTypes
<1> QED
  BY <1>1, <1>2, <1>3, <1>4 DEF PrivateTypes, SamePlans

LEMMA IndexSame ==
  ASSUME RingTypes, nproc' = nproc, NEW t \in Tids, NEW q, DOMAIN q = LocalFields,
         q.index = my[t].index, q.victim \in Tids, my' = [my EXCEPT ![t] = q]
  PROVE  SameIndices(t)
BY DEF RingTypes, LocalTypes, SameIndices, Tids

LEMMA HandTakes ==
  ASSUME RingTypes, nproc' = nproc, NEW t \in Tids, Place(t) \in Places,
         NEW p, DOMAIN p = PlaceFields, p.plan = Mine(t).plan, p.parm4 \in Tids,
         NEW lo, NEW hi, NEW last, Hand(t, p, lo, hi, last)
  PROVE  Taken(t)
<1> DEFINE q == IF L(t).ordered THEN [p EXCEPT !.lower = lo, !.upper = hi] ELSE p
           m == [Idle(my[t].index) EXCEPT !.i = IF L(t).ordered THEN lo ELSE 0]
<1>1. /\ pr' = [pr EXCEPT ![t][Place(t)] = q]
      /\ my' = [my EXCEPT ![t] = m]
      /\ \E l \in IF L(t).ordered /\ ~Serialized /\ lo <= hi THEN Bodies ELSE {"next"} : pc' = [pc EXCEPT ![t] = l]
  BY DEF Hand, Goto, RingTypes, LocalTypes
<1>2. DOMAIN q = PlaceFields /\ q.plan = pr[t][Place(t)].plan /\ q.parm4 \in Tids
  BY DEF Mine, PlaceFields
<1>3. DOMAIN m = LocalFields /\ m.index = my[t].index /\ m.victim \in Tids
  BY DEF Idle, LocalFields, RingTypes, ProgramTypes, Tids
<1>4. SamePlans
  <2> HIDE DEF q
  <2> QED
    BY <1>1, <1>2, PlaceSame
<1>5. SameIndices(t)
  <2> HIDE DEF m
  <2> QED
    BY <1>1, <1>3, IndexSame
<1>6. \E l \in AfterChunk : pc' = [pc EXCEPT ![t] = l]
  BY <1>1 DEF AfterChunk, Bodies
<1> QED
  BY <1>4, <1>5, <1>6 DEF Taken

LEMMA NoChunkTakes ==
  ASSUME RingTypes, nproc' = nproc, NEW t \in Tids, Place(t) \in Places,
         NEW p, DOMAIN p = PlaceFields, p.plan = Mine(t).plan, p.parm4 \in Tids, NoChunk(t, p)
  PROVE  Taken(t)
<1> DEFINE m == Idle(my[t].index)
<1>1. /\ pr' = [pr EXCEPT ![t][Place(t)] = p]
      /\ my' = [my EXCEPT ![t] = m]
      /\ pc' = [pc EXCEPT ![t] = IF Serialized THEN "leave" ELSE "count_done"]
  BY DEF NoChunk, Goto, RingTypes, LocalTypes
<1>2. DOMAIN m = LocalFields /\ m.index = my[t].index /\ m.victim \in Tids
  BY DEF Idle, LocalFields, RingTypes, ProgramTypes, Tids
<1>3. SamePlans
  BY <1>1, PlaceSame DEF Mine
<1>4. SameIndices(t)
  <2> HIDE DEF m
  <2> QED
    BY <1>1, <1>2, IndexSame
<1>5. \E l \in AfterChunk : pc' = [pc EXCEPT ![t] = l]
  BY <1>1 DEF AfterChunk
<1> QED
  BY <1>3, <1>4, <1>5 DEF Taken

LEMMA HandIfAnyTakes ==
  ASSUME RingTypes, nproc' = nproc, NEW t \in Tids, Place(t) \in Places,
         NEW p, DOMAIN p = PlaceFields, p.plan = Mine(t).plan, p.parm4 \in Tids,
         NEW lo, NEW hi, HandIfAny(t, p, lo, hi)
  PROVE  Taken(t)
<1>1. CASE lo <= L(t).tc - 1
  <2>1. Hand(t, p, lo, Least(hi, L(t).tc - 1), hi >= L(t).tc - 1)
    BY <1>1 DEF HandIfAny
  <2> QED
    BY <2>1, HandTakes
<1>2. CASE ~(lo <= L(t).tc - 1)
  <2>1. NoChunk(t, p)
    BY <1>2 DEF HandIfAny
  <2> QED
    BY <2>1, NoChunkTakes
<1> QED
  BY <1>1, <1>2

LEMMA BumpSame ==
  ASSUME RingTypes, nproc' = nproc, steal_lock' = steal_lock, NEW t, current[t] \in Places, NEW by,
         \/ Bump(t, by)
         \/ PassTurn(t, by)
         \/ sh' = sh
  PROVE  SameShared
<1>1. Tids' = Tids /\ Places' = Places /\ SharedTypes /\ LockTypes
  BY DEF Tids, Places, RingTypes
<1>2. LockTypes' /\ \A u \in Tids : steal_lock[u] # NoLock => steal_lock'[u] # NoLock
  BY <1>1 DEF LockTypes
<1>3. SharedTypes' /\ \A b \in Places : sh'[b].num_done = sh[b].num_done /\ sh'[b].buffer_index = sh[b].buffer_index
  <2>1. CASE Bump(t, by)
    BY <2>1, <1>1 DEF Bump, SharedTypes, BufferFields
  <2>2. CASE PassTurn(t, by)
    BY <2>2, <1>1 DEF PassTurn, SharedTypes, BufferFields
  <2>3. CASE sh' = sh
    BY <2>3, <1>1 DEF SharedTypes
  <2> QED
    BY <2>1, <2>2, <2>3
<1> QED
  BY <1>2, <1>3 DEF SameShared

\* Where a thread at work finds its loop.
LEMMA AtWorkPlace ==
  ASSUME RingInv, DispatchAssumption, ~Serialized, NEW t \in Tids, pc[t] \in AtWork
  PROVE  /\ Place(t) = Spot(t) /\ Place(t) \in Places /\ current[t] = Place(t) /\ current[t] \in Places
         /\ DOMAIN Mine(t) = PlaceFields /\ Mine(t).parm4 \in Tids /\ MyPlan(t) = Plan(L(t), nproc)
         /\ DOMAIN my[t] = LocalFields /\ my[t].victim \in Tids /\ RingTypes
<1>1. /\ RingTypes /\ Located(t) /\ InBuffer(t) /\ Spot(t) \in Places
      /\ pc[t] \notin {"outside", "await_buffer"}
  BY SpotInPlaces DEF RingInv, Ring, AtWork, Stealing, Locking
<1>2. Place(t) = Spot(t) /\ current[t] = Spot(t)
  BY <1>1 DEF Located, Place, Spot, InBuffer
<1>3. DOMAIN Mine(t) = PlaceFields /\ Mine(t).parm4 \in Tids /\ MyPlan(t) = Plan(L(t), nproc)
  BY <1>1, <1>2 DEF Mine, MyPlan, Located, RingTypes, PrivateTypes
<1>4. DOMAIN my[t] = LocalFields /\ my[t].victim \in Tids
  BY <1>1 DEF RingTypes, LocalTypes
<1> QED
  BY <1>1, <1>2, <1>3, <1>4

LEMMA UnchangedSame ==
  ASSUME RingTypes, nproc' = nproc, NEW t \in Tids
  PROVE  (pr' = pr => SamePlans) /\ (my' = my => SameIndices(t))
<1>1. Tids' = Tids /\ Places' = Places
  BY DEF Tids, Places
<1> QED
  BY <1>1 DEF RingTypes, PrivateTypes, LocalTypes, SamePlans, SameIndices

LEMMA TakenWorks ==
  ASSUME ~Serialized, NEW t \in Tids, pc[t] \in AtWork \ {"count_done"},
         Taken(t), SameShared, UNCHANGED <<program, nproc, current, disp_index, loop>>
  PROVE  Works(t)
<1>1. PICK l \in AfterChunk : pc' = [pc EXCEPT ![t] = l]
  BY DEF Taken
<1>2. l \in AtWork /\ l \notin Stealing /\ l \notin Locking /\ l \notin {"lock_victim", "steal"}
  BY DEF AfterChunk, AtWork, Stealing, Locking
<1> QED
  BY <1>1, <1>2 DEF Works, Taken, SamePlans, SameIndices, SameShared

\* A step inside the work, not yet to a lock.
LEMMA InsideWorks ==
  ASSUME ~Serialized, NEW t \in Tids, pc[t] \in AtWork \ {"count_done"},
         NEW l \in AtWork \ Locking, pc' = [pc EXCEPT ![t] = l],
         l \in Stealing => Plan(L(t), nproc).schedule = "static_steal",
         SamePlans, SameIndices(t), SameShared, UNCHANGED <<program, nproc, current, disp_index, loop>>
  PROVE  Works(t)
BY DEF Works, SamePlans, SameIndices, SameShared, Locking

LEMMA TakeWorks ==
  ASSUME RingInv, DispatchAssumption, ~Serialized, NEW t \in Tids, Take(t)
  PROVE  Works(t)
<1>1. pc[t] \in {"next", "guided_add", "guided_cas"} /\ pc[t] \in AtWork \ {"count_done"}
  BY DEF Take, ZeroTrip, TakeSerial, TakeBalanced, TakeChunked, TakeDynamic, TakeTrapezoidal,
         TakeAnalytical, ReadRemaining, GuidedAdd, GuidedCas, Takes, At, AtWork
<1>2. /\ Place(t) \in Places /\ current[t] \in Places
      /\ DOMAIN Mine(t) = PlaceFields /\ Mine(t).parm4 \in Tids
      /\ DOMAIN my[t] = LocalFields /\ my[t].victim \in Tids /\ RingTypes
  BY <1>1, AtWorkPlace
<1>3. UNCHANGED <<program, nproc, steal_lock, current, disp_index, loop>>
  BY DEF Take, ZeroTrip, TakeSerial, TakeBalanced, TakeChunked, TakeDynamic, TakeTrapezoidal,
         TakeAnalytical, ReadRemaining, GuidedAdd, GuidedCas, shared
<1>4. SUFFICES /\ (\E by : Bump(t, by)) \/ sh' = sh
               /\ \/ Taken(t)
                  \/ /\ SamePlans /\ SameIndices(t)
                     /\ \E l \in {"next", "guided_add", "guided_cas"} : pc' = [pc EXCEPT ![t] = l]
  <2>1. SameShared
    BY <1>2, <1>3, <1>4, BumpSame
  <2>2. CASE Taken(t)
    BY <2>1, <2>2, <1>1, <1>3, TakenWorks
  <2>3. ASSUME SamePlans, SameIndices(t),
               NEW l \in {"next", "guided_add", "guided_cas"}, pc' = [pc EXCEPT ![t] = l]
        PROVE  Works(t)
    <3>1. l \in AtWork \ Locking /\ l \notin Stealing
      BY DEF AtWork, Locking, Stealing
    <3> QED
      BY <3>1, <2>1, <2>3, <1>1, <1>3, InsideWorks
  <2> QED
    BY <2>2, <2>3, <1>4
<1>5. CASE ZeroTrip(t)
  <2>1. NoChunk(t, Mine(t)) /\ sh' = sh
    BY <1>5 DEF ZeroTrip, shared
  <2> QED
    BY <2>1, <1>2, <1>3, NoChunkTakes
<1>6. CASE TakeSerial(t)
  BY <1>6 DEF TakeSerial
<1>7. CASE TakeBalanced(t)
  <2>1. sh' = sh /\ \/ NoChunk(t, Mine(t))
                    \/ \E lo, hi, last : Hand(t, [Mine(t) EXCEPT !.count = 1], lo, hi, last)
    BY <1>7 DEF TakeBalanced, shared
  <2>2. LET p == [Mine(t) EXCEPT !.count = 1]
        IN  DOMAIN p = PlaceFields /\ p.plan = Mine(t).plan /\ p.parm4 \in Tids
    BY <1>2 DEF PlaceFields
  <2> QED
    BY <2>1, <2>2, <1>2, <1>3, NoChunkTakes, HandTakes
<1>8. CASE TakeChunked(t)
  <2> DEFINE more == [Mine(t) EXCEPT !.count = @ + nproc]
  <2>1. sh' = sh /\ \E p \in {Mine(t), more} : \E lo, hi : HandIfAny(t, p, lo, hi)
    BY <1>8 DEF TakeChunked, shared
  <2>2. \A p \in {Mine(t), more} : DOMAIN p = PlaceFields /\ p.plan = Mine(t).plan /\ p.parm4 \in Tids
    BY <1>2 DEF PlaceFields
  <2> HIDE DEF more
  <2> QED
    BY <2>1, <2>2, <1>2, <1>3, HandIfAnyTakes
<1>9. CASE TakeDynamic(t)
  <2>1. (\E by : Bump(t, by)) /\ \E lo, hi : HandIfAny(t, Mine(t), lo, hi)
    BY <1>9 DEF TakeDynamic
  <2> QED
    BY <2>1, <1>2, <1>3, HandIfAnyTakes
<1>10. CASE TakeTrapezoidal(t)
  <2>1. /\ \E by : Bump(t, by)
        /\ NoChunk(t, Mine(t)) \/ \E lo, hi : HandIfAny(t, Mine(t), lo, hi)
    BY <1>10 DEF TakeTrapezoidal
  <2> QED
    BY <2>1, <1>2, <1>3, HandIfAnyTakes, NoChunkTakes
<1>11. CASE TakeAnalytical(t)
  <2>1. /\ \E by : Bump(t, by)
        /\ \/ NoChunk(t, Mine(t))
           \/ \E lo, hi : HandIfAny(t, Mine(t), lo, hi)
           \/ \E lo, hi, last : Hand(t, Mine(t), lo, hi, last)
           \/ pr' = pr /\ pc' = pc /\ my' = my
    BY <1>11 DEF TakeAnalytical
  <2>2. ASSUME pr' = pr, pc' = pc, my' = my
        PROVE  /\ SamePlans /\ SameIndices(t)
               /\ \E l \in {"next", "guided_add", "guided_cas"} : pc' = [pc EXCEPT ![t] = l]
    BY <2>2, <1>1, <1>2, <1>3, UnchangedSame DEF RingTypes, PcTypes
  <2> QED
    BY <2>1, <2>2, <1>2, <1>3, HandIfAnyTakes, NoChunkTakes, HandTakes
<1>12. CASE ReadRemaining(t)
  <2>1. sh' = sh
    BY <1>12 DEF ReadRemaining, shared
  <2>2. CASE NoChunk(t, Mine(t))
    BY <2>1, <2>2, <1>2, <1>3, NoChunkTakes
  <2>3. CASE ~NoChunk(t, Mine(t))
    <3>1. /\ my' = [my EXCEPT ![t].init = Shared(t).iteration] /\ pr' = pr
          /\ \E l \in {"next", "guided_add", "guided_cas"} : pc' = [pc EXCEPT ![t] = l]
      BY <2>3, <1>12 DEF ReadRemaining, Goto
    <3>2. SameIndices(t)
      <4> DEFINE q == [my[t] EXCEPT !.init = Shared(t).iteration]
      <4>1. DOMAIN q = LocalFields /\ q.index = my[t].index /\ q.victim \in Tids /\ my' = [my EXCEPT ![t] = q]
        BY <3>1, <1>2 DEF LocalFields
      <4> HIDE DEF q
      <4> QED
        BY <4>1, <1>2, <1>3, IndexSame
    <3> QED
      BY <2>1, <3>1, <3>2, <1>2, <1>3, UnchangedSame
  <2> QED
    BY <2>2, <2>3
<1>13. CASE GuidedAdd(t)
  <2>1. /\ \E by : Bump(t, by)
        /\ NoChunk(t, Mine(t)) \/ \E lo, hi, last : Hand(t, Mine(t), lo, hi, last)
    BY <1>13 DEF GuidedAdd
  <2> QED
    BY <2>1, <1>2, <1>3, HandTakes, NoChunkTakes
<1>14. CASE GuidedCas(t)
  <2>1. \/ (\E by : Bump(t, by)) /\ (\E lo, hi, last : Hand(t, Mine(t), lo, hi, last))
        \/ pc' = [pc EXCEPT ![t] = "next"] /\ sh' = sh /\ pr' = pr /\ my' = my
    BY <1>14 DEF GuidedCas, Goto
  <2> QED
    BY <2>1, <1>2, <1>3, HandTakes, UnchangedSame
<1> QED
  BY <1>5, <1>6, <1>7, <1>8, <1>9, <1>10, <1>11, <1>12, <1>13, <1>14 DEF Take

\* One field of a place of a thread, and one variable of a thread.
LEMMA FieldSame ==
  ASSUME RingTypes, nproc' = nproc, NEW t \in Tids, NEW b, NEW f, f # "plan", NEW x, f = "parm4" => x \in Tids,
         pr' = [pr EXCEPT ![t][b] = [@ EXCEPT ![f] = x]]
  PROVE  SamePlans
<1> DEFINE q == [pr[t][b] EXCEPT ![f] = x]
<1>1. pr' = [pr EXCEPT ![t][b] = q]
  <2>1. DOMAIN pr = Tids
    BY DEF RingTypes, PrivateTypes
  <2> QED
    BY <2>1
<1>2. b \in Places => DOMAIN q = PlaceFields /\ q.plan = pr[t][b].plan /\ q.parm4 \in Tids
  BY DEF RingTypes, PrivateTypes, PlaceFields
<1> HIDE DEF q
<1> QED
  BY <1>1, <1>2, PlaceSame

LEMMA LocalSame ==
  ASSUME RingTypes, nproc' = nproc, NEW t \in Tids, NEW f, f # "index", NEW x, f = "victim" => x \in Tids,
         my' = [my EXCEPT ![t] = [@ EXCEPT ![f] = x]]
  PROVE  SameIndices(t)
<1> DEFINE q == [my[t] EXCEPT ![f] = x]
<1>1. my' = [my EXCEPT ![t] = q]
  BY DEF RingTypes, LocalTypes
<1>2. DOMAIN q = LocalFields /\ q.index = my[t].index /\ q.victim \in Tids
  BY DEF RingTypes, LocalTypes, LocalFields
<1> HIDE DEF q
<1> QED
  BY <1>1, <1>2, IndexSame

LEMMA LeastNumber ==
  ASSUME NEW S \in SUBSET Nat, S # {}
  PROVE  \E n \in S : \A m \in S : n <= m
<1>1. PICK z \in S : TRUE
  OBVIOUS
<1> DEFINE Z == 0 .. z
           Segments == {0 .. n : n \in {m \in S : m <= z}}
<1>2. IsWellFoundedOn(StrictSubsetOrdering(Z), SUBSET Z)
  <2>1. IsFiniteSet(Z)
    BY FS_Interval
  <2> QED
    BY <2>1, FS_StrictSubsetOrderingWellFounded, FS_FiniteSubsetsOfFinite
<1>3. Segments \subseteq SUBSET Z /\ Segments # {}
  BY <1>1
<1>4. PICK X \in Segments : \A Y \in Segments : ~ (<<Y, X>> \in StrictSubsetOrdering(Z))
  <2> HIDE DEF Segments, Z
  <2> QED
    BY <1>2, <1>3, WFMin
<1>5. \A Y \in Segments : Y \subseteq X => Y = X
  BY <1>3, <1>4 DEF StrictSubsetOrdering
<1>6. PICK n \in S : n <= z /\ X = 0 .. n
  OBVIOUS
<1>7. ASSUME NEW m \in S, m < n
      PROVE  FALSE
  <2>1. 0 .. m \in Segments /\ 0 .. m \subseteq X
    BY <1>6, <1>7
  <2>2. n \in X /\ n \notin 0 .. m
    BY <1>6, <1>7
  <2> QED
    BY <2>1, <2>2, <1>5
<1> QED
  BY <1>7

\* A victim is a thread of the team, whatever the search finds.
LEMMA VictimInTeam ==
  ASSUME RingInv, DispatchAssumption, ~Serialized, NEW t \in Tids, pc[t] = "find_victim"
  PROVE  Victim(t) \in Tids
<1>1. nproc \in Nat \ {0} /\ Mine(t).parm4 \in Int
  BY AtWorkPlace DEF AtWork, Stealing, RingTypes, ProgramTypes, Tids
<1> DEFINE from == Mine(t).parm4
           good == {i \in 0..(nproc - 1) : (from + i) % nproc # t /\ Inviting(t, (from + i) % nproc)}
<1>2. \A i \in Int : (from + i) % nproc \in Tids
  BY <1>1 DEF Tids
<1>3. good # {} => Min(good) \in good
  <2>1. good \in SUBSET Nat
    BY <1>1
  <2> HIDE DEF good
  <2> QED
    BY <2>1, LeastNumber DEF Min
<1>4. (IF good = {} THEN nproc - 1 ELSE Min(good)) \in Int
  BY <1>1, <1>3
<1>5. Victim(t) = (from + (IF good = {} THEN nproc - 1 ELSE Min(good))) % nproc
  BY DEF Victim
<1> HIDE DEF good, from
<1> QED
  BY <1>2, <1>4, <1>5

\* A thread that has its shared buffer came to the loop of one who steals from it.
LEMMA InvitingCame ==
  ASSUME RingInv, DispatchAssumption, ~Serialized, NEW t \in Tids, pc[t] \in Stealing, L(t).wide,
         NEW v \in Tids, current[v] # Null
  PROVE  Came(v, loop[t])
<1>1. /\ Located(t) /\ InBuffer(v) /\ pc[t] # "outside"
      /\ loop[t] \in Int /\ loop[v] \in Int
  BY DEF RingInv, Ring, RingTypes, PcTypes, Stealing, Locking
<1>2. Wide(loop[t]) /\ Locked(loop[t])
  BY <1>1 DEF Located, Wide, StealsWide, L, Loops, RingInv, RingTypes, ProgramTypes, PcTypes
<1>3. Came(t, loop[t]) /\ pc[v] # "outside"
  BY <1>1 DEF Came, InBuffer
<1> QED
  BY <1>1, <1>2, <1>3 DEF Locked, Came

\* A lock is taken, or given back.
LEMMA LockSame ==
  ASSUME RingTypes, nproc' = nproc, sh' = sh, NEW v \in Tids, NEW x \in Tids \cup {FreeLock},
         steal_lock' = [steal_lock EXCEPT ![v] = x]
  PROVE  SameShared
BY DEF RingTypes, SharedTypes, LockTypes, SameShared, Tids, Places, NoLock, FreeLock

LEMMA StealingWorks ==
  ASSUME RingInv, DispatchAssumption, ~Serialized, NEW t \in Tids, StealSteps(t)
  PROVE  Works(t)
<1>1. /\ pc[t] \in {"next", "take_own", "lock_own", "find_victim", "look", "cas_victim", "lock_victim",
                    "steal", "relock_own", "install"}
      /\ pc[t] = "next" => Takes(t, {"static_steal"})
      /\ UNCHANGED <<program, nproc, sh, current, disp_index, loop>>
  BY DEF StealSteps, TakeOwn, CheckOwn, LockOwn, FindVictim, LookAtVictim, CasVictim, LockVictim, Steal,
         RelockOwn, Install, Takes, At, private, shared
<1>2. pc[t] \in AtWork \ {"count_done"} /\ Located(t) /\ Robbing(t) /\ (pc[t] = "next" \/ pc[t] \in Stealing)
  BY <1>1 DEF AtWork, Stealing, Locking, RingInv
<1>3. /\ Place(t) = Spot(t) /\ Place(t) \in Places /\ current[t] \in Places
      /\ DOMAIN Mine(t) = PlaceFields /\ Mine(t).parm4 \in Tids /\ MyPlan(t) = Plan(L(t), nproc)
      /\ DOMAIN my[t] = LocalFields /\ my[t].victim \in Tids /\ RingTypes
  BY <1>2, AtWorkPlace
<1>4. Plan(L(t), nproc).schedule = "static_steal"
  BY <1>1, <1>2, <1>3 DEF Located, Takes
<1>5. nproc \in Nat \ {0} /\ 0 \in Tids /\ \A v \in Tids : (v + 1) % nproc \in Tids
  BY SMTT(30) DEF Tids, RingInv, RingTypes, ProgramTypes
<1>6. steal_lock' = steal_lock => SameShared
  BY <1>1, <1>3, BumpSame
<1>7. \A v \in Tids, x \in Tids \cup {FreeLock} : steal_lock' = [steal_lock EXCEPT ![v] = x] => SameShared
  BY <1>1, <1>3, LockSame
<1>8. pr' = pr => SamePlans
  BY <1>1, <1>3, UnchangedSame
<1>9. my' = my => SameIndices(t)
  BY <1>1, <1>3, UnchangedSame
<1>10. ASSUME SameShared, Taken(t)
       PROVE  Works(t)
  BY <1>10, <1>1, <1>2, TakenWorks
<1>11. ASSUME SameShared, SamePlans, SameIndices(t),
              NEW l \in Stealing \ Locking, pc' = [pc EXCEPT ![t] = l]
       PROVE  Works(t)
  BY <1>11, <1>1, <1>2, <1>4, InsideWorks DEF AtWork
<1>12. ASSUME SameShared, SamePlans, SameIndices(t), L(t).wide,
              NEW l \in Locking, pc' = [pc EXCEPT ![t] = l],
              l \in {"lock_victim", "steal"} => Came(my'[t].victim, loop[t])
       PROVE  Works(t)
  BY <1>12, <1>1, <1>2, <1>4 DEF Works, SamePlans, SameIndices, SameShared, AtWork, Stealing
<1>13. CASE TakeOwn(t)
  <2> DEFINE q == [Mine(t) EXCEPT !.count = @ + 1]
  <2>1. /\ \/ steal_lock' = steal_lock
           \/ steal_lock' = [steal_lock EXCEPT ![t] = FreeLock]
        /\ \/ \E lo, hi, last : Hand(t, q, lo, hi, last)
           \/ /\ pr' = [pr EXCEPT ![t][Place(t)] = q]
              /\ my' = [my EXCEPT ![t] = [@ EXCEPT !["tries"] = 0]]
              /\ pc' = [pc EXCEPT ![t] = "find_victim"]
    BY <1>13 DEF TakeOwn, HandStolen, Goto
  <2>2. DOMAIN q = PlaceFields /\ q.plan = Mine(t).plan /\ q.parm4 \in Tids
    BY <1>3 DEF PlaceFields
  <2>3. SameShared
    BY <2>1, <1>6, <1>7
  <2> HIDE DEF q
  <2>4. CASE \E lo, hi, last : Hand(t, q, lo, hi, last)
    BY <2>2, <2>3, <2>4, <1>1, <1>3, <1>10, HandTakes
  <2>5. CASE /\ pr' = [pr EXCEPT ![t][Place(t)] = q]
             /\ my' = [my EXCEPT ![t] = [@ EXCEPT !["tries"] = 0]]
             /\ pc' = [pc EXCEPT ![t] = "find_victim"]
    <3>1. SamePlans /\ SameIndices(t)
      BY <2>2, <2>5, <1>1, <1>3, PlaceSame, LocalSame DEF Mine
    <3> QED
      BY <3>1, <2>3, <2>5, <1>11 DEF Stealing, Locking
  <2> QED
    BY <2>1, <2>4, <2>5
<1>14. CASE CheckOwn(t)
  <2>1. /\ my' = [my EXCEPT ![t] = [@ EXCEPT !["tries"] = 0]] /\ pr' = pr /\ steal_lock' = steal_lock /\ L(t).wide
        /\ \/ pc' = [pc EXCEPT ![t] = "lock_own"]
           \/ pc' = [pc EXCEPT ![t] = "find_victim"]
    BY <1>14 DEF CheckOwn, Goto, shared, private
  <2>2. SamePlans /\ SameIndices(t) /\ SameShared
    <3> DEFINE m == [my[t] EXCEPT !.tries = 0]
    <3>1. my' = [my EXCEPT ![t] = m] /\ DOMAIN m = LocalFields /\ m.index = my[t].index /\ m.victim \in Tids
      BY <2>1, <1>3 DEF LocalFields, RingTypes, LocalTypes
    <3> HIDE DEF m
    <3> QED
      BY <3>1, <2>1, <1>1, <1>3, <1>6, <1>8, IndexSame
  <2> QED
    BY <2>1, <2>2, <1>11, <1>12 DEF Stealing, Locking
<1>15. CASE LockOwn(t)
  <2>1. /\ pr' = pr /\ my' = my /\ steal_lock' = [steal_lock EXCEPT ![t] = t]
        /\ pc' = [pc EXCEPT ![t] = "take_own"] /\ pc[t] = "lock_own"
    BY <1>15 DEF LockOwn, Acquire, At, Goto, private
  <2>2. L(t).wide
    BY <2>1, <1>2 DEF Located, Locking
  <2> QED
    BY <2>1, <2>2, <1>7, <1>8, <1>9, <1>12 DEF Locking
<1>16. CASE FindVictim(t)
  <2> DEFINE v == Victim(t)
             wide == L(t).wide
  <2>1. v \in Tids /\ pc[t] = "find_victim" /\ pc[t] \in Stealing
    BY <1>16, VictimInTeam DEF FindVictim, At, Stealing
  <2> HIDE DEF v, wide
  <2>2. /\ steal_lock' = steal_lock
        /\ \/ pr' = pr
           \/ pr' = [pr EXCEPT ![t][Place(t)] = [@ EXCEPT !["parm4"] = v]]
           \/ pr' = [pr EXCEPT ![t][Place(t)] = [@ EXCEPT !["parm4"] = (v + 1) % nproc]]
    BY <1>16 DEF FindVictim, shared, v
  <2>3. SamePlans
    <3>1. (v + 1) % nproc \in Tids
      BY <2>1, <1>5
    <3> QED
      BY <3>1, <2>1, <2>2, <1>1, <1>3, <1>8, FieldSame
  <2> DEFINE last == my[t].tries + 1 = nproc
             pass == ~last /\ (~Inviting(t, v) \/ (wide /\ TooFew(pr[v][current[v]])))
             more == [my[t] EXCEPT !.tries = @ + 1]
             m == IF last THEN Idle(my[t].index) ELSE IF pass THEN more
                  ELSE [more EXCEPT !.victim = v, !.place = current[v]]
  <2>4. /\ my' = [my EXCEPT ![t] = m]
        /\ pc' = [pc EXCEPT ![t] = IF last THEN "count_done" ELSE IF pass THEN "find_victim"
                                   ELSE IF wide THEN "lock_victim" ELSE "look"]
    <3>1. pc' = [pc EXCEPT ![t] = IF last THEN "count_done" ELSE IF pass THEN "find_victim"
                                 ELSE IF wide THEN "lock_victim" ELSE "look"]
      BY <1>16 DEF FindVictim, Goto, v, wide
    <3>2. my' = [my EXCEPT ![t] = m]
      BY <1>16 DEF FindVictim, v, wide
    <3> QED
      BY <3>1, <3>2
  <2>5. ~last /\ ~pass => Inviting(t, v)
    OBVIOUS
  <2>6. DOMAIN my = Tids
    BY <1>3 DEF RingTypes, LocalTypes
  <2> HIDE DEF last, pass
  <2>7. DOMAIN my' = Tids /\ (\A u \in Tids : u # t => my'[u] = my[u]) /\ my'[t] = m
    <3> HIDE DEF m
    <3> QED
      BY <2>4, <2>6
  <2>8. /\ DOMAIN my'[t] = LocalFields /\ my'[t].index = my[t].index /\ my'[t].victim \in Tids
        /\ ~last /\ ~pass => my'[t].victim = v
    <3>1. CASE last
      BY <3>1, <2>7, <1>5 DEF Idle, LocalFields
    <3>2. CASE ~last /\ pass
      BY <3>2, <2>7, <1>3 DEF LocalFields
    <3>3. CASE ~last /\ ~pass
      BY <3>3, <2>1, <2>7, <1>3 DEF LocalFields
    <3> QED
      BY <3>1, <3>2, <3>3
  <2>9. SameIndices(t) /\ SameShared
    BY <2>2, <2>7, <2>8, <1>1, <1>3, <1>6 DEF SameIndices, RingTypes, LocalTypes, Tids
  <2>10. CASE last
    <3>1. pc' = [pc EXCEPT ![t] = "count_done"]
      BY <2>4, <2>10
    <3> QED
      BY <3>1, <2>3, <2>9, <1>1, <1>2, InsideWorks DEF AtWork, Stealing, Locking
  <2>11. CASE ~last /\ pass
    <3>1. pc' = [pc EXCEPT ![t] = "find_victim"]
      BY <2>4, <2>11
    <3> QED
      BY <3>1, <2>3, <2>9, <1>11 DEF Stealing, Locking
  <2>12. CASE ~last /\ ~pass
    <3>1. pc' = [pc EXCEPT ![t] = IF wide THEN "lock_victim" ELSE "look"] /\ my'[t].victim = v
      BY <2>4, <2>8, <2>12
    <3>2. CASE wide
      <4>1. current[v] # Null
        BY <2>5, <2>12 DEF Inviting
      <4>2. Came(v, loop[t])
        BY <4>1, <3>2, <2>1, InvitingCame DEF wide
      <4> QED
        BY <4>2, <3>1, <3>2, <2>3, <2>9, <1>12 DEF Locking, wide
    <3>3. CASE ~wide
      BY <3>1, <3>3, <2>3, <2>9, <1>11 DEF Stealing, Locking
    <3> QED
      BY <3>2, <3>3
  <2> QED
    BY <2>10, <2>11, <2>12
<1>17. CASE LookAtVictim(t)
  <2>1. /\ steal_lock' = steal_lock
        /\ \/ pr' = NextVictim(t) /\ pc' = [pc EXCEPT ![t] = "find_victim"] /\ my' = my
           \/ /\ my' = [my EXCEPT ![t].init = Robbed(t).count, ![t].limit = Robbed(t).ub]
              /\ pc' = [pc EXCEPT ![t] = "cas_victim"] /\ pr' = pr
    BY <1>17 DEF LookAtVictim, Goto, shared
  <2>2. SameShared
    BY <2>1, <1>6
  <2>3. CASE pr' = NextVictim(t) /\ pc' = [pc EXCEPT ![t] = "find_victim"] /\ my' = my
    <3>1. SamePlans
      <4>1. pr' = [pr EXCEPT ![t][Place(t)] = [@ EXCEPT !["parm4"] = (my[t].victim + 1) % nproc]]
        BY <2>3 DEF NextVictim
      <4>2. (my[t].victim + 1) % nproc \in Tids
        BY <1>3, <1>5
      <4> QED
        BY <4>1, <4>2, <1>1, <1>3, FieldSame
    <3> QED
      BY <3>1, <2>2, <2>3, <1>9, <1>11 DEF Stealing, Locking
  <2>4. CASE /\ my' = [my EXCEPT ![t].init = Robbed(t).count, ![t].limit = Robbed(t).ub]
             /\ pc' = [pc EXCEPT ![t] = "cas_victim"] /\ pr' = pr
    <3> DEFINE m == [my[t] EXCEPT !.init = Robbed(t).count, !.limit = Robbed(t).ub]
    <3>1. my' = [my EXCEPT ![t] = m]
      BY <2>4, <1>3 DEF RingTypes, LocalTypes
    <3>2. DOMAIN m = LocalFields /\ m.index = my[t].index /\ m.victim \in Tids
      BY <1>3 DEF LocalFields
    <3> HIDE DEF m
    <3>3. SameIndices(t)
      BY <3>1, <3>2, <1>1, <1>3, IndexSame
    <3> QED
      BY <3>3, <2>2, <2>4, <1>8, <1>11 DEF Stealing, Locking
  <2> QED
    BY <2>1, <2>3, <2>4
<1>18. CASE CasVictim(t)
  <2> DEFINE v == my[t].victim
             c == my[t].place
             old == [count |-> my[t].init, ub |-> my[t].limit]
             q == [pr[v][c] EXCEPT !.ub = @ - Quarter(old)]
             m == [my[t] EXCEPT !.init = old.ub - Quarter(old)]
  <2>1. /\ steal_lock' = steal_lock
        /\ \/ pr' = [pr EXCEPT ![v][c] = q] /\ my' = [my EXCEPT ![t] = m] /\ pc' = [pc EXCEPT ![t] = "install"]
           \/ pc' = [pc EXCEPT ![t] = "look"] /\ pr' = pr /\ my' = my
    <3>1. DOMAIN my = Tids /\ DOMAIN pr = Tids /\ v \in Tids
      BY <1>3 DEF RingTypes, LocalTypes, PrivateTypes
    <3> QED
      BY <3>1, <1>18 DEF CasVictim, Goto, shared, Robbed
  <2>2. /\ c \in Places => DOMAIN q = PlaceFields /\ q.plan = pr[v][c].plan /\ q.parm4 \in Tids
        /\ DOMAIN m = LocalFields /\ m.index = my[t].index /\ m.victim \in Tids /\ v \in Tids
    BY <1>3 DEF RingTypes, PrivateTypes, PlaceFields, LocalFields
  <2> HIDE DEF q, m
  <2>3. CASE pr' = [pr EXCEPT ![v][c] = q] /\ my' = [my EXCEPT ![t] = m] /\ pc' = [pc EXCEPT ![t] = "install"]
    <3>1. SamePlans
      BY <2>2, <2>3, <1>1, <1>3, PlaceSame
    <3>2. SameIndices(t)
      BY <2>2, <2>3, <1>1, <1>3, IndexSame
    <3> QED
      BY <3>1, <3>2, <2>1, <2>3, <1>6, <1>11 DEF Stealing, Locking
  <2>4. CASE pc' = [pc EXCEPT ![t] = "look"] /\ pr' = pr /\ my' = my
    BY <2>1, <2>4, <1>6, <1>8, <1>9, <1>11 DEF Stealing, Locking
  <2> QED
    BY <2>1, <2>3, <2>4
<1>19. CASE LockVictim(t)
  <2>1. /\ pr' = pr /\ my' = my /\ steal_lock' = [steal_lock EXCEPT ![my[t].victim] = t]
        /\ pc' = [pc EXCEPT ![t] = "steal"] /\ pc[t] = "lock_victim"
    BY <1>19 DEF LockVictim, Acquire, At, Goto, private
  <2>2. L(t).wide /\ Came(my[t].victim, loop[t])
    BY <2>1, <1>2 DEF Located, Locking, Robbing
  <2>3. SameShared
    BY <2>1, <1>3, <1>7
  <2> QED
    BY <2>1, <2>2, <2>3, <1>8, <1>9, <1>12 DEF Locking
<1>20. CASE Steal(t)
  <2> DEFINE v == my[t].victim
             c == my[t].place
             p == Robbed(t)
             m == [my[t] EXCEPT !.init = p.ub - Quarter(p), !.limit = p.ub]
  <2>1. /\ steal_lock' = [steal_lock EXCEPT ![v] = FreeLock] /\ pc[t] = "steal"
        /\ \/ pr' = NextVictim(t) /\ pc' = [pc EXCEPT ![t] = "find_victim"] /\ my' = my
           \/ /\ pr' = [pr EXCEPT ![v][c].ub = @ - Quarter(p), ![t][Place(t)].parm4 = v]
              /\ my' = [my EXCEPT ![t] = m] /\ pc' = [pc EXCEPT ![t] = "relock_own"]
    <3>1. DOMAIN my = Tids
      BY <1>3 DEF RingTypes, LocalTypes
    <3> QED
      BY <3>1, <1>20 DEF Steal, Goto, At
  <2>2. DOMAIN m = LocalFields /\ m.index = my[t].index /\ m.victim \in Tids /\ v \in Tids
    BY <1>3 DEF LocalFields
  <2>3. SameShared
    BY <2>1, <2>2, <1>7
  <2>4. CASE pr' = NextVictim(t) /\ pc' = [pc EXCEPT ![t] = "find_victim"] /\ my' = my
    <3>1. SamePlans
      <4>1. pr' = [pr EXCEPT ![t][Place(t)] = [@ EXCEPT !["parm4"] = (v + 1) % nproc]]
        BY <2>4 DEF NextVictim
      <4>2. (v + 1) % nproc \in Tids
        BY <1>3, <1>5
      <4> QED
        BY <4>1, <4>2, <1>1, <1>3, FieldSame
    <3> QED
      BY <3>1, <2>3, <2>4, <1>9, <1>11 DEF Stealing, Locking
  <2> HIDE DEF p
  <2>5. CASE /\ pr' = [pr EXCEPT ![v][c].ub = @ - Quarter(p), ![t][Place(t)].parm4 = v]
             /\ my' = [my EXCEPT ![t] = m] /\ pc' = [pc EXCEPT ![t] = "relock_own"]
    <3>1. SameIndices(t)
      <4> HIDE DEF m
      <4> QED
        BY <2>2, <2>5, <1>1, <1>3, IndexSame
    <3>2. SamePlans
      <4> DEFINE a == [pr EXCEPT ![v][c].ub = @ - Quarter(p)]
      <4>1. PrivateTypes /\ Tids' = Tids /\ Places' = Places
        BY <1>1, <1>3 DEF RingTypes, Tids, Places
      <4>2. /\ DOMAIN a = Tids
            /\ \A u \in Tids : /\ DOMAIN a[u] = Places
                               /\ \A b \in Places : /\ DOMAIN a[u][b] = PlaceFields /\ a[u][b].parm4 \in Tids
                                                     /\ a[u][b].plan = pr[u][b].plan
        <5> DEFINE x == pr[v][c].ub - Quarter(p)
                   y == [pr[v][c] EXCEPT !.ub = x]
        <5>1. a = [pr EXCEPT ![v][c] = y]
          OBVIOUS
        <5> HIDE DEF a, x
        <5>2. c \in Places => DOMAIN y = PlaceFields /\ y.parm4 \in Tids /\ y.plan = pr[v][c].plan
          BY <4>1, <2>2 DEF PrivateTypes, PlaceFields
        <5> HIDE DEF y
        <5>3. \A u \in Tids, b \in Places :
                a[u][b] = IF u = v /\ b = c THEN y ELSE pr[u][b]
          BY <5>1, <4>1, <2>2 DEF PrivateTypes
        <5>4. DOMAIN a = Tids /\ \A u \in Tids : DOMAIN a[u] = Places
          BY <5>1, <4>1, <2>2 DEF PrivateTypes
        <5>5. \A u \in Tids, b \in Places :
                DOMAIN a[u][b] = PlaceFields /\ a[u][b].parm4 \in Tids /\ a[u][b].plan = pr[u][b].plan
          BY <5>2, <5>3, <4>1 DEF PrivateTypes
        <5> QED
          BY <5>4, <5>5
      <4>3. pr' = [a EXCEPT ![t][Place(t)].parm4 = v]
        BY <2>5
      <4> HIDE DEF a
      <4>4. /\ DOMAIN pr' = Tids
            /\ \A u \in Tids : /\ DOMAIN pr'[u] = Places
                               /\ \A b \in Places : /\ DOMAIN pr'[u][b] = PlaceFields /\ pr'[u][b].parm4 \in Tids
                                                     /\ pr'[u][b].plan = pr[u][b].plan
        BY <4>2, <4>3, <2>2 DEF PlaceFields
      <4> QED
        BY <4>1, <4>4 DEF SamePlans, PrivateTypes
    <3>3. L(t).wide
      BY <2>1, <1>2 DEF Located, Locking
    <3> QED
      BY <3>1, <3>2, <3>3, <2>3, <2>5, <1>12 DEF Locking
  <2> QED
    BY <2>1, <2>4, <2>5
<1>21. CASE RelockOwn(t)
  <2>1. /\ pr' = pr /\ my' = my /\ steal_lock' = [steal_lock EXCEPT ![t] = t]
        /\ pc' = [pc EXCEPT ![t] = "install"] /\ pc[t] = "relock_own"
    BY <1>21 DEF RelockOwn, Acquire, At, Goto, private
  <2> QED
    BY <2>1, <1>7, <1>8, <1>9, <1>11 DEF Stealing, Locking
<1>22. CASE Install(t)
  <2> DEFINE q == [Mine(t) EXCEPT !.count = my[t].init + 1, !.ub = my[t].limit]
  <2>1. /\ \/ steal_lock' = steal_lock
           \/ steal_lock' = [steal_lock EXCEPT ![t] = FreeLock]
        /\ \E lo, hi, last : Hand(t, q, lo, hi, last)
    BY <1>22 DEF Install, HandStolen
  <2>2. DOMAIN q = PlaceFields /\ q.plan = Mine(t).plan /\ q.parm4 \in Tids
    BY <1>3 DEF PlaceFields
  <2>3. SameShared
    BY <2>1, <1>6, <1>7
  <2> HIDE DEF q
  <2> QED
    BY <2>1, <2>2, <2>3, <1>1, <1>3, <1>10, HandTakes
<1> QED
  BY <1>13, <1>14, <1>15, <1>16, <1>17, <1>18, <1>19, <1>20, <1>21, <1>22 DEF StealSteps

LEMMA PublishWorks ==
  ASSUME RingInv, DispatchAssumption, ~Serialized, NEW t \in Tids, Publish(t)
  PROVE  Works(t)
<1>1. /\ pc[t] = "publish" /\ pc[t] \in AtWork \ {"count_done"} /\ pc' = [pc EXCEPT ![t] = "next"]
      /\ UNCHANGED <<program, nproc, sh, steal_lock, my, current, disp_index, loop>>
  BY DEF Publish, At, Goto, AtWork, shared
<1>2. /\ Place(t) \in Places /\ current[t] \in Places /\ RingTypes
      /\ DOMAIN Mine(t) = PlaceFields /\ Mine(t).parm4 \in Tids
  BY <1>1, AtWorkPlace
<1> DEFINE q == [Mine(t) EXCEPT !.counter = @ + 1]
<1>3. pr' = [pr EXCEPT ![t][Place(t)] = q]
  BY DEF Publish, Mine
<1>4. DOMAIN q = PlaceFields /\ q.plan = Mine(t).plan /\ q.parm4 \in Tids
  BY <1>2 DEF PlaceFields
<1> HIDE DEF q
<1>5. SamePlans
  BY <1>1, <1>2, <1>3, <1>4, PlaceSame DEF Mine
<1>6. SameIndices(t) /\ SameShared
  BY <1>1, <1>2, UnchangedSame, BumpSame
<1>7. "next" \in AtWork \ Locking /\ "next" \notin Stealing
  BY DEF AtWork, Locking, Stealing
<1> QED
  BY <1>1, <1>5, <1>6, <1>7, InsideWorks

LEMMA OrderedWorks ==
  ASSUME RingInv, DispatchAssumption, ~Serialized, NEW t \in Tids, Ordered(t)
  PROVE  Works(t)
<1>1. /\ pc[t] \in {"enter_ordered", "in_ordered", "end_iteration", "end_chunk"}
      /\ UNCHANGED <<program, nproc, steal_lock, current, disp_index, loop>>
  BY DEF Ordered, EnterOrdered, LeaveOrdered, Finish, EndIteration, FinishChunk, At, private, shared
<1>2. pc[t] \in AtWork \ {"count_done"}
  BY <1>1 DEF AtWork
<1>3. /\ Place(t) \in Places /\ current[t] \in Places /\ RingTypes
      /\ DOMAIN Mine(t) = PlaceFields /\ Mine(t).parm4 \in Tids /\ DOMAIN my[t] = LocalFields /\ my[t].victim \in Tids
  BY <1>2, AtWorkPlace
<1> DEFINE Next1 == {"in_ordered", "end_iteration", "enter_ordered", "end_chunk", "next"}
<1>4. \A l \in Next1 : l \in AtWork \ Locking /\ l \notin Stealing
  BY DEF AtWork, Locking, Stealing
<1> DEFINE q(x) == [Mine(t) EXCEPT !.bumped = x]
           m == [my[t] EXCEPT !.i = @ + 1]
<1>5. SUFFICES /\ (\E by : PassTurn(t, by)) \/ sh' = sh
               /\ pr' = pr \/ \E x : pr' = [pr EXCEPT ![t][Place(t)] = q(x)]
               /\ my' = my \/ my' = [my EXCEPT ![t] = m]
               /\ \E l \in Next1 : pc' = [pc EXCEPT ![t] = l]
  <2>1. SameShared
    BY <1>5, <1>1, <1>3, BumpSame
  <2>2. SamePlans
    <3>1. CASE pr' = pr
      BY <3>1, <1>1, <1>3, UnchangedSame
    <3>2. ASSUME NEW x, pr' = [pr EXCEPT ![t][Place(t)] = q(x)]
          PROVE  SamePlans
      <4>1. DOMAIN q(x) = PlaceFields /\ q(x).plan = Mine(t).plan /\ q(x).parm4 \in Tids
        BY <1>3 DEF PlaceFields
      <4> HIDE DEF q
      <4> QED
        BY <4>1, <3>2, <1>1, <1>3, PlaceSame DEF Mine
    <3> QED
      BY <3>1, <3>2, <1>5
  <2>3. SameIndices(t)
    <3>1. CASE my' = my
      BY <3>1, <1>1, <1>3, UnchangedSame
    <3>2. CASE my' = [my EXCEPT ![t] = m]
      <4>1. DOMAIN m = LocalFields /\ m.index = my[t].index /\ m.victim \in Tids
        BY <1>3 DEF LocalFields
      <4> HIDE DEF m
      <4> QED
        BY <4>1, <3>2, <1>1, <1>3, IndexSame
    <3> QED
      BY <3>1, <3>2, <1>5
  <2> HIDE DEF Next1
  <2> QED
    BY <2>1, <2>2, <2>3, <1>1, <1>2, <1>4, <1>5, InsideWorks
<1>6. CASE EnterOrdered(t)
  BY <1>6 DEF EnterOrdered, Goto, shared, private
<1>7. CASE LeaveOrdered(t)
  <2>1. /\ PassTurn(t, 1) /\ my' = my /\ pc' = [pc EXCEPT ![t] = "end_iteration"]
        /\ pr' = [pr EXCEPT ![t][Place(t)] = q(Mine(t).bumped + 1)]
    BY <1>7 DEF LeaveOrdered, Goto, Mine
  <2> QED
    BY <2>1
<1>8. ASSUME Iterate(t)
      PROVE  my' = [my EXCEPT ![t] = m] /\ \E l \in Next1 : pc' = [pc EXCEPT ![t] = l]
  BY <1>8 DEF Iterate, Bodies, Goto
<1>9. CASE Finish(t)
  <2>1. /\ PassTurn(t, 1) \/ sh' = sh
        /\ Iterate(t)
        /\ pr' = [pr EXCEPT ![t][Place(t)] = q(0)]
    BY <1>9 DEF Finish, Mine
  <2> QED
    BY <2>1, <1>8
<1>10. CASE EndIteration(t)
  <2>1. sh' = sh /\ pr' = pr /\ Iterate(t)
    BY <1>10 DEF EndIteration, shared, private
  <2> QED
    BY <2>1, <1>8
<1>11. CASE FinishChunk(t)
  <2>1. /\ (\E by : PassTurn(t, by)) \/ sh' = sh
        /\ my' = my /\ pc' = [pc EXCEPT ![t] = "next"]
        /\ pr' = [pr EXCEPT ![t][Place(t)] = q(0)]
    BY <1>11 DEF FinishChunk, Goto, Mine
  <2> QED
    BY <2>1
<1> QED
  BY <1>6, <1>7, <1>9, <1>10, <1>11 DEF Ordered

-----------------------------------------------------------------------------
\* One thread alone steals from nobody.
LEMMA NoStealingAlone ==
  ASSUME NEW l
  PROVE  Plan(l, 1).schedule # "static_steal"
BY DEF Plan

LEMMA SerialKeeps ==
  ASSUME RingInv, DispatchAssumption, Serialized, NEW t \in Tids, Run(t)
  PROVE  RingInv'
<1>1. /\ nproc = 1 /\ Tids = {0} /\ t = 0 /\ Spot(t) = 0 /\ 0 \in Places /\ Place(t) = 0
      /\ Located(t) /\ current[t] = Null /\ pc[t] \in {"outside", "next", "leave"}
      /\ RingTypes /\ ProgramTypes /\ PcTypes /\ LockTypes /\ SharedTypes /\ LocalTypes /\ PrivateTypes
      /\ current \in [Tids -> Places \cup {Null}] /\ disp_index \in [Tids -> Nat]
  BY DEF RingInv, Ring, ByOne, Serialized, Tids, Spot, Place, Places, DispatchAssumption, RingTypes
<1>2. EnterLoop(t) \/ Take(t) \/ TakeOwn(t) \/ CheckOwn(t) \/ Leave(t)
  BY <1>1 DEF Run, StealSteps, Ordered, EnterLoop, AwaitBuffer, Publish, LockOwn, FindVictim, LookAtVictim,
              CasVictim, LockVictim, Steal, RelockOwn, Install, EnterOrdered, LeaveOrdered, Finish,
              EndIteration, FinishChunk, CountDone, Reset, Release, At
<1>3. EnterLoop(t) \/ ZeroTrip(t) \/ TakeSerial(t) \/ Leave(t)
  BY <1>1, <1>2 DEF Take, TakeBalanced, TakeChunked, TakeDynamic, TakeTrapezoidal, TakeAnalytical,
              ReadRemaining, GuidedAdd, GuidedCas, TakeOwn, CheckOwn, Takes, At
<1>4. SUFFICES /\ program' = program /\ nproc' = nproc /\ RingTypes' /\ Located(t)' /\ current'[t] = Null
               /\ pc'[t] \in {"outside", "next", "leave"}
  <2>1. Tids' = Tids /\ Serialized' /\ Loops' = Loops
    BY <1>4 DEF Tids, Serialized, Loops
  <2>2. \A k \in Loops : ~Wide(k)'
    BY <1>1, <1>4, NoStealingAlone DEF Wide, StealsWide
  <2>3. \A k \in Loops : Locked(k)'
    BY <2>2 DEF Locked
  <2>4. Robbing(t)'
    BY <1>4 DEF Robbing
  <2> QED
    BY <2>1, <2>3, <2>4, <1>1, <1>4 DEF RingInv, Ring, ByOne
<1>5. CASE EnterLoop(t)
  <2>1. /\ UNCHANGED <<program, nproc, sh, current, loop>> /\ loop[t] < Len(program) /\ pc[t] = "outside"
        /\ pc' = [pc EXCEPT ![t] = "next"] /\ disp_index' = disp_index
        /\ my' = [my EXCEPT ![t].index = disp_index[t]]
        /\ pr' = [pr EXCEPT ![t][0] = Prepared(t, L(t), @)]
        /\ steal_lock' = IF L(t).wide /\ pr'[t][0].plan.schedule = "static_steal"
                          THEN [steal_lock EXCEPT ![t] = FreeLock] ELSE steal_lock
    BY <1>1, <1>5 DEF EnterLoop, Goto, At
  <2>2. Tids' = Tids /\ Places' = Places /\ L(t)' = L(t) /\ Spot(t)' = 0 /\ Serialized'
    BY <2>1, <1>1 DEF Tids, Places, L, Spot, Serialized
  <2> DEFINE q == Prepared(t, L(t), pr[t][0])
  <2>3. DOMAIN q = PlaceFields /\ q.plan = Plan(L(t), nproc) /\ q.parm4 \in Tids
    <3>1. DOMAIN pr[t][0] = PlaceFields /\ pr[t][0].parm4 \in Tids
      BY <1>1 DEF PrivateTypes
    <3> QED
      BY <3>1, <1>1, PreparedFields
  <2>4. pr' = [pr EXCEPT ![t][0] = q]
    BY <2>1
  <2> HIDE DEF q
  <2>5. PrivateTypes' /\ pr'[t][0] = q
    BY <2>2, <2>3, <2>4, <1>1 DEF PrivateTypes
  <2>6. LocalTypes'
    BY <2>1, <2>2, <1>1 DEF LocalTypes, LocalFields
  <2>7. LockTypes'
    BY <2>1, <2>2, <1>1 DEF LockTypes
  <2>8. PcTypes' /\ SharedTypes' /\ ProgramTypes' /\ pc'[t] = "next"
    BY <2>1, <2>2, <1>1 DEF PcTypes, SharedTypes, ProgramTypes, Labels, AtWork
  <2>9. RingTypes'
    BY <2>1, <2>2, <2>5, <2>6, <2>7, <2>8, <1>1 DEF RingTypes, Null
  <2>10. Located(t)'
    BY <2>1, <2>2, <2>3, <2>5, <2>8 DEF Located, Stealing, Locking
  <2> QED
    BY <2>1, <2>8, <2>9, <2>10, <1>1
<1>6. CASE ZeroTrip(t) \/ TakeSerial(t)
  <2>1. /\ UNCHANGED <<program, nproc, sh, steal_lock, current, disp_index, loop>> /\ pc[t] = "next"
    BY <1>6 DEF ZeroTrip, TakeSerial, At, shared
  <2>2. DOMAIN Mine(t) = PlaceFields /\ Mine(t).parm4 \in Tids
    BY <1>1 DEF Mine, PrivateTypes
  <2>3. Taken(t)
    <3>1. CASE ZeroTrip(t)
      <4>1. NoChunk(t, Mine(t))
        BY <3>1 DEF ZeroTrip
      <4> QED
        BY <4>1, <2>1, <2>2, <1>1, NoChunkTakes
    <3>2. CASE TakeSerial(t)
      <4> DEFINE p == [Mine(t) EXCEPT !.count = @ + 1]
                 q == [Mine(t) EXCEPT !.tc = 0]
      <4>1. (\E lo, hi : HandIfAny(t, p, lo, hi)) \/ (\E lo, hi, last : Hand(t, q, lo, hi, last))
        BY <3>2 DEF TakeSerial
      <4>2. /\ DOMAIN p = PlaceFields /\ p.plan = Mine(t).plan /\ p.parm4 \in Tids
            /\ DOMAIN q = PlaceFields /\ q.plan = Mine(t).plan /\ q.parm4 \in Tids
        BY <2>2 DEF PlaceFields
      <4> HIDE DEF p, q
      <4> QED
        BY <4>1, <4>2, <2>1, <1>1, HandTakes, HandIfAnyTakes
    <3> QED
      BY <3>1, <3>2, <1>6
  <2>4. /\ Tids' = Tids /\ Places' = Places /\ Serialized' /\ L(t)' = L(t) /\ Spot(t)' = 0
        /\ pr'[t][0].plan = pr[t][0].plan /\ PrivateTypes' /\ LocalTypes'
    BY <2>1, <2>3, <1>1 DEF Tids, Places, Serialized, L, Spot, Taken, SamePlans, SameIndices
  <2>5. PcTypes' /\ pc'[t] \in {"next", "leave"}
    BY <2>1, <2>3, <2>4, <1>1 DEF Taken, AfterChunk, PcTypes, Labels, AtWork
  <2>6. RingTypes'
    BY <2>1, <2>4, <2>5, <1>1 DEF RingTypes, ProgramTypes, SharedTypes, LockTypes, Null
  <2>7. Located(t)'
    BY <2>1, <2>4, <2>5, <1>1 DEF Located, Stealing, Locking
  <2> QED
    BY <2>1, <2>5, <2>6, <2>7, <1>1
<1>7. CASE Leave(t)
  <2>1. /\ UNCHANGED <<program, nproc, sh, steal_lock, pr, disp_index, my>> /\ pc[t] = "leave"
        /\ pc' = [pc EXCEPT ![t] = "outside"] /\ loop' = [loop EXCEPT ![t] = @ + 1]
        /\ current' = [current EXCEPT ![t] = Null]
    BY <1>7 DEF Leave, Goto, At, shared
  <2>2. Tids' = Tids /\ Places' = Places /\ Serialized' /\ loop[t] < Len(program)
    BY <2>1, <1>1 DEF Tids, Places, Serialized, Located
  <2>3. RingTypes'
    BY <2>1, <2>2, <1>1
       DEF RingTypes, ProgramTypes, PcTypes, SharedTypes, LockTypes, LocalTypes, PrivateTypes, Null, Labels
  <2>4. pc'[t] = "outside" /\ current'[t] = Null /\ Located(t)'
    BY <2>1, <2>2, <1>1 DEF Located, Stealing, Locking, PcTypes
  <2> QED
    BY <2>1, <2>3, <2>4
<1> QED
  BY <1>3, <1>5, <1>6, <1>7

LEMMA RunKeeps ==
  ASSUME RingInv, DispatchAssumption, NEW t, Run(t)
  PROVE  RingInv'
<1>1. t \in Tids
  BY DEF Run, EnterLoop, AwaitBuffer, Publish, Take, ZeroTrip, TakeSerial, TakeBalanced, TakeChunked,
         TakeDynamic, TakeTrapezoidal, TakeAnalytical, ReadRemaining, GuidedAdd, GuidedCas, Takes,
         StealSteps, TakeOwn, CheckOwn, LockOwn, FindVictim, LookAtVictim, CasVictim, LockVictim, Steal,
         RelockOwn, Install, Ordered, EnterOrdered, LeaveOrdered, Finish, EndIteration, FinishChunk,
         CountDone, Reset, Release, Leave, At
<1>2. CASE Serialized
  BY <1>1, <1>2, SerialKeeps
<1>3. CASE ~Serialized
  <2>1. CASE Publish(t) \/ Take(t) \/ StealSteps(t) \/ Ordered(t)
    <3>1. Works(t)
      BY <2>1, <1>1, <1>3, PublishWorks, TakeWorks, StealingWorks, OrderedWorks
    <3> QED
      BY <3>1, <1>3, WorksKeeps
  <2>2. CASE EnterLoop(t) \/ AwaitBuffer(t)
    BY <2>2, <1>1, <1>3, EnterLoopKeeps, AwaitBufferKeeps
  <2>3. CASE CountDone(t) \/ Reset(t) \/ Release(t) \/ Leave(t)
    BY <2>3, <1>1, <1>3, CountDoneKeeps, ResetKeeps, ReleaseKeeps, LeaveKeeps
  <2> QED
    BY <2>1, <2>2, <2>3 DEF Run
<1> QED
  BY <1>2, <1>3

\* The regions that start: those of the instance, or one without loops.
LEMMA RingStarts ==
  ASSUME DispatchAssumption, NEW regions, \A r \in regions : r \in [nproc : Nat \ {0}, loops : Seq(Loop)],
         \A r \in regions : r.loops # <<>> => Apart(r),
         InitWith(regions)
  PROVE  RingInv
<1>1. /\ ProgramTypes /\ \A t \in Tids : /\ pc[t] = "outside" /\ loop[t] = 0 /\ steal_lock[t] = NoLock
                                         /\ current[t] = Null /\ disp_index[t] = 0 /\ my[t] = Idle(0)
                                         /\ pr[t] = [b \in Places |-> Fresh]
      /\ \A b \in Places : /\ DOMAIN sh[b] = BufferFields
                           /\ sh[b].num_done = 0 /\ sh[b].buffer_index = b
  <2>1. PICK r \in regions : nproc = r.nproc /\ program = r.loops
    BY DEF InitWith
  <2>2. r = [nproc |-> nproc, loops |-> program]
    BY <2>1
  <2> QED
    BY <2>1, <2>2 DEF InitWith, ProgramTypes, BufferFields
<1>2. /\ NumBuffers \in Nat \ {0} /\ 0 \in Places /\ Places = 0..(NumBuffers - 1) /\ 0 \in Tids
      /\ nproc \in Nat \ {0} /\ program \in Seq(Loop) /\ Len(program) \in Nat
  BY <1>1 DEF Places, Tids, ProgramTypes, DispatchAssumption
<1>3. RingTypes
  <2>1. PcTypes /\ LockTypes
    BY <1>1, <1>2 DEF InitWith, PcTypes, LockTypes, Labels
  <2>2. SharedTypes
    BY <1>1, <1>2 DEF InitWith, SharedTypes
  <2>3. LocalTypes
    BY <1>1, <1>2 DEF InitWith, LocalTypes, Idle, LocalFields
  <2>4. PrivateTypes
    BY <1>1, <1>2 DEF InitWith, PrivateTypes, Fresh, PlaceFields
  <2> QED
    BY <2>1, <2>2, <2>3, <2>4, <1>1 DEF RingTypes, InitWith
<1>4. ASSUME NEW t \in Tids PROVE Located(t) /\ Robbing(t)
  BY <1>1 DEF Located, Robbing, Stealing, Locking
<1>5. ASSUME NEW k \in Loops PROVE Locked(k)
  <2>1. \A t \in Tids : ~Came(t, k)
    BY <1>1, <1>2 DEF Came, Loops
  <2> QED
    BY <2>1, <1>2 DEF Locked
<1>6. CASE Serialized
  BY <1>1, <1>3, <1>4, <1>5, <1>6 DEF RingInv, Ring, ByOne
<1>7. CASE ~Serialized
  <2>1. ASSUME NEW t \in Tids PROVE InBuffer(t)
    BY <1>1 DEF InBuffer, AtWork, Stealing, Locking, Finishing
  <2>2. ASSUME NEW b \in Places PROVE Turning(b)
    <3>1. /\ BufferOf(b) = b /\ b \in Nat /\ b < NumBuffers /\ b % NumBuffers = b
      BY <1>1, <1>2, SmallMod DEF BufferOf
    <3>2. \A t \in Tids : ~Finisher(t, b) /\ ~Past(t, b) /\ ~Past(t, b + NumBuffers)
      BY <1>1, <1>2, <3>1 DEF Finisher, Past, Finishing
    <3>3. Cardinality(Counted(b)) = 0
      <4>1. Counted(b) = {}
        BY <3>2 DEF Counted
      <4> QED
        BY <4>1, FS_EmptySet
    <3> QED
      BY <1>1, <1>2, <3>1, <3>2, <3>3 DEF Turning, Counting
  <2> QED
    BY <2>1, <2>2, <1>3, <1>4, <1>5, <1>7 DEF RingInv, Ring
<1> QED
  BY <1>6, <1>7

LEMMA RingStays ==
  ASSUME RingInv, UNCHANGED dispatchVars
  PROVE  RingInv'
<1>1. /\ program' = program /\ nproc' = nproc /\ sh' = sh /\ pr' = pr /\ current' = current
      /\ disp_index' = disp_index /\ steal_lock' = steal_lock /\ pc' = pc /\ my' = my /\ loop' = loop
  BY DEF dispatchVars, shared, private
<1> USE <1>1
<1>2. Tids' = Tids /\ Places' = Places /\ (Serialized' <=> Serialized) /\ Loops' = Loops
  BY DEF Tids, Places, Serialized, Loops
<1>3. RingTypes'
  BY <1>2 DEF RingInv, RingTypes, ProgramTypes, PcTypes, LockTypes, SharedTypes, LocalTypes, PrivateTypes
<1>4. \A t \in Tids : Located(t)' /\ Robbing(t)'
  BY <1>2 DEF RingInv, Located, Robbing, Spot, L, Came
<1>5. \A k \in Loops : Locked(k)'
  BY <1>2 DEF RingInv, Locked, Wide, Came, Past
<1>6. Ring'
  <2>1. ByOne' <=> ByOne
    BY <1>2 DEF ByOne
  <2>2. \A t \in Tids : InBuffer(t)' <=> InBuffer(t)
    BY <1>2 DEF InBuffer, BufferOf, Spot
  <2>3. \A b \in Places : (BufferOf(b)' = BufferOf(b)) /\ \A t \in Tids : Finisher(t, b)' <=> Finisher(t, b)
    BY <1>2 DEF Finisher, BufferOf
  <2>4. \A t \in Tids : \A k : Past(t, k)' <=> Past(t, k)
    BY <1>2 DEF Past
  <2>5. \A b \in Places : Turning(b)' <=> Turning(b)
    <3> TAKE b \in Places
    <3>1. Counted(BufferOf(b))' = Counted(BufferOf(b))
      BY <2>3, <2>4, <1>2 DEF Counted
    <3> QED
      BY <3>1, <2>3, <2>4, <1>2 DEF Turning, Counting, Counted, BufferOf, Past, Finisher
  <2> QED
    BY <2>1, <2>2, <2>5, <1>2 DEF RingInv, Ring
<1> QED
  BY <1>2, <1>3, <1>4, <1>5, <1>6 DEF RingInv

-----------------------------------------------------------------------------
(* The arrays of flags of the nests with dependences. *)

Calling == {"keep", "iterate", "wait", "free"}
Holding == Calling \cup {"claim", "allocate", "spin", "rearm"}
Ending == {"free", "rearm"}
NestSteps == Holding \cup {"outside", "await", "forget"}

ArrayTypes == /\ Len(arrays) \in Nat /\ arrays = [a \in 1..Len(arrays) |-> arrays[a]]
              /\ \A a \in DOMAIN arrays : DOMAIN arrays[a] = {"nest", "bits", "live", "bytes"}
AtTypes ==
  /\ DOMAIN at = Crew
  /\ \A t \in Crew : /\ DOMAIN at[t] = {"step", "nest", "iteration", "sinks"}
                     /\ at[t].step \in NestSteps /\ at[t].nest \in 0..Len(crew.nests)
MineTypes == mine \in [Crew -> [idx : Nat, info : Places \cup {Null}, flags : Nat]]
BufferTypes == ring \in [Places -> [buf_idx : Nat, flags : Nat, num_done : Nat]]
NestTypes == crew \in NestTeam /\ BufferTypes /\ ArrayTypes /\ MineTypes /\ AtTypes

\* The nest a buffer is for, or was until it is handed on.
NestOf(b) == ring[b].buf_idx + 1
GotPast(t, n) == at[t].nest > n \/ (at[t].nest = n /\ at[t].step \in Ending \cup {"forget", "outside"})

\* A thread with a buffer has that of its nest, one that iterates knows the array, and
\* one allocates it.
HasBuffer(t) ==
  /\ mine[t].idx = at[t].nest
  /\ at[t].step # "outside" => at[t].nest > 0 /\ mine[t].info = Buffer(t)
  /\ at[t].step \in Holding => NestOf(Buffer(t)) = at[t].nest
SeesFlags(t) == LET flags == ring[Buffer(t)].flags IN
  /\ at[t].step = "spin" => flags # NULL
  /\ at[t].step = "allocate" =>
       /\ flags = InProgress
       /\ \A u \in Crew : at[u].step = "allocate" /\ at[u].nest = at[t].nest => u = t
  /\ at[t].step \in Calling => flags > InProgress
  /\ at[t].step = "rearm" => flags = NULL
  /\ at[t].step \in {"iterate", "wait"} => mine[t].flags = flags

\* A buffer counts those who are past its nest; the last of them ends it.
CountedPast(n) == {t \in Crew : GotPast(t, n)}
EndsNest(t, b) == at[t].step \in Ending /\ at[t].nest = NestOf(b)
CountsPast(b) == IF \E t \in Crew : EndsNest(t, b)
  THEN \E t \in Crew :
         /\ EndsNest(t, b) /\ \A u \in Crew : GotPast(u, NestOf(b)) /\ (EndsNest(u, b) => u = t)
         /\ at[t].step = "rearm" => ring[b].num_done = 0
  ELSE ring[b].num_done = Cardinality(CountedPast(NestOf(b))) /\ ring[b].num_done < crew.nproc
HandsOn(b) ==
  /\ ring[b].buf_idx % NumBuffers = b
  /\ \A t \in Crew : ~GotPast(t, NestOf(b) + NumBuffers)
  /\ CountsPast(b)

\* What a buffer points to is the array of its nest, and no array is lost.
ArrayOf(a, n) ==
  /\ a \in DOMAIN arrays /\ arrays[a].live /\ arrays[a].nest = n
  /\ n \in DOMAIN crew.nests /\ arrays[a].bytes = TraceCount(crew.nests[n].dims) \div 8 + 8
PointsRight(b) == ring[b].flags > InProgress => ArrayOf(ring[b].flags - InProgress, NestOf(b))
Reached(a) == arrays[a].live => \E b \in Places : ring[b].flags = a + InProgress

NestInv ==
  /\ NestTypes
  /\ IF Alone THEN arrays = <<>> /\ \A t \in Crew : at[t].step \in {"outside", "iterate", "wait"}
     ELSE /\ \A t \in Crew : HasBuffer(t) /\ SeesFlags(t)
          /\ \A b \in Places : HandsOn(b) /\ PointsRight(b)
          /\ \A a \in DOMAIN arrays : Reached(a)
-----------------------------------------------------------------------------
LEMMA TraceCountInt ==
  ASSUME NEW dims \in Seq([lo : Int, up : Int, st : Int \ {0}])
  PROVE  TraceCount(dims) \in Int
<1> DEFINE N == Len(dims)
           Rule(n, f) == f = [i \in 0..n |-> IF i = 0 THEN 1 ELSE f[i - 1] * RangeLength(dims[i])]
<1>1. N \in Nat /\ \A i \in 1..N : RangeLength(dims[i]) \in Int
  <2> DEFINE Dim == [lo : Int, up : Int, st : Int \ {0}]
  <2>1. \A i \in 1..N : dims[i] \in Dim
    <3> HIDE DEF Dim
    <3>1. dims \in Seq(Dim)
      BY DEF Dim
    <3> QED
      BY <3>1
  <2>2. ASSUME NEW d \in [lo : Int, up : Int, st : Int \ {0}] PROVE RangeLength(d) \in Int
    BY DEF RangeLength
  <2> QED
    BY <2>1, <2>2
<1>2. \E f : Rule(N, f)
  <2> DEFINE S == {n \in 0..N : ~ \E f : Rule(n, f)}
  <2>1. ASSUME NEW n \in S, \A m \in S : n <= m PROVE FALSE
    <3>1. n \in 0..N /\ N \in Nat /\ n \in Nat
      BY <1>1
    <3>2. n # 0
      <4>1. Rule(0, [i \in 0..0 |-> 1])
        OBVIOUS
      <4> QED
        BY <4>1
    <3>3. PICK f : Rule(n - 1, f)
      <4> DEFINE m == n - 1
      <4>1. m \in 0..N /\ m < n
        BY <3>1, <3>2
      <4>2. m \notin S
        <5> HIDE DEF m, S, Rule
        <5>1. ~ (n <= m)
          BY <4>1, <3>1
        <5> QED
          BY <5>1, <2>1
      <4>3. \E f : Rule(m, f)
        <5> HIDE DEF m, Rule
        <5> QED
          BY <4>1, <4>2
      <4> QED
        BY <4>3
    <3> DEFINE g == [i \in 0..n |-> IF i = n THEN f[n - 1] * RangeLength(dims[n]) ELSE f[i]]
    <3>4. ASSUME NEW i \in 0..n PROVE g[i] = IF i = 0 THEN 1 ELSE g[i - 1] * RangeLength(dims[i])
      <4>1. CASE i = n
        BY <4>1, <3>1, <3>2
      <4>2. CASE i # n
        <5>1. i \in 0..(n - 1) /\ g[i] = f[i] /\ (i # 0 => g[i - 1] = f[i - 1])
          BY <4>2, <3>1
        <5>2. f[i] = IF i = 0 THEN 1 ELSE f[i - 1] * RangeLength(dims[i])
          BY <5>1, <3>3
        <5> QED
          BY <5>1, <5>2
      <4> QED
        BY <4>1, <4>2
    <3>5. Rule(n, g)
      BY <3>4
    <3> QED
      BY <3>5
  <2>2. S = {}
    <3>1. S \in SUBSET Nat
      BY <1>1
    <3> HIDE DEF S
    <3> QED
      BY <3>1, <2>1, LeastNumber
  <2> QED
    BY <2>2, <1>1
<1>3. ASSUME NEW f, Rule(N, f)
      PROVE  \A i \in 0..N : f[i] \in Int
  <2> DEFINE S == {n \in 0..N : f[n] \notin Int}
  <2>1. ASSUME NEW n \in S, \A m \in S : n <= m PROVE FALSE
    <3>1. n \in 0..N /\ N \in Nat /\ n \in Nat
      BY <1>1
    <3>2. n # 0
      BY <1>3, <3>1
    <3>3. f[n - 1] \in Int
      BY <3>1, <3>2, <2>1
    <3>4. RangeLength(dims[n]) \in Int
      BY <1>1, <3>1, <3>2
    <3>5. f[n] = f[n - 1] * RangeLength(dims[n])
      BY <1>3, <3>1, <3>2
    <3> QED
      BY <3>3, <3>4, <3>5
  <2>2. S = {}
    <3>1. S \in SUBSET Nat
      BY <1>1
    <3> HIDE DEF S
    <3> QED
      BY <3>1, <2>1, LeastNumber
  <2> QED
    BY <2>2
<1>4. TraceCount(dims) = (CHOOSE f : Rule(N, f))[N]
  BY DEF TraceCount
<1> HIDE DEF Rule
<1>5. Rule(N, CHOOSE f : Rule(N, f))
  BY <1>2
<1> QED
  BY <1>1, <1>3, <1>4, <1>5

LEMMA RoomForAll ==
  ASSUME NEW n \in Int
  PROVE  4 * ((n - 1) \div 32) + 4 <= n \div 8 + 8
OBVIOUS

-----------------------------------------------------------------------------
LEMMA NestFacts ==
  ASSUME NestTypes, DispatchAssumption
  PROVE  /\ crew.nproc \in Nat \ {0} /\ Len(crew.nests) \in Nat /\ DOMAIN crew.nests = 1..Len(crew.nests)
         /\ Crew = 0..(crew.nproc - 1) /\ NumBuffers \in Nat \ {0} /\ Places = 0..(NumBuffers - 1)
         /\ \A n \in DOMAIN crew.nests : TraceCount(crew.nests[n].dims) \in Int
         /\ \A t \in Crew : Buffer(t) \in Places
         /\ \A b \in Places : NestOf(b) \in Nat \ {0}
<1>1. /\ crew.nproc \in Nat \ {0} /\ Len(crew.nests) \in Nat /\ DOMAIN crew.nests = 1..Len(crew.nests)
      /\ \A n \in DOMAIN crew.nests : crew.nests[n].dims \in Seq([lo : Int, up : Int, st : Int \ {0}])
  <2> DEFINE Dims == Seq([lo : Int, up : Int, st : Int \ {0}])
             Sinks == Seq(Seq(Int))
  <2>1. crew.nproc \in Nat \ {0} /\ crew.nests \in Seq([dims : Dims, sinks : Sinks])
    BY DEF NestTypes, NestTeam
  <2> HIDE DEF Dims, Sinks
  <2> DEFINE Nested == [dims : Dims, sinks : Sinks]
  <2>2. \A n \in Nested : n.dims \in Dims
    OBVIOUS
  <2> HIDE DEF Nested
  <2>3. /\ Len(crew.nests) \in Nat /\ DOMAIN crew.nests = 1..Len(crew.nests)
        /\ \A n \in DOMAIN crew.nests : crew.nests[n] \in Nested
    <3>1. crew.nests \in Seq(Nested)
      BY <2>1 DEF Nested
    <3> QED
      BY <3>1
  <2>4. \A n \in DOMAIN crew.nests : crew.nests[n].dims \in Dims
    BY <2>2, <2>3
  <2> QED
    BY <2>1, <2>3, <2>4 DEF Dims
<1>2. \A n \in DOMAIN crew.nests : TraceCount(crew.nests[n].dims) \in Int
  BY <1>1, TraceCountInt
<1>3. NumBuffers \in Nat \ {0} /\ Crew = 0..(crew.nproc - 1) /\ Places = 0..(NumBuffers - 1)
  BY DEF DispatchAssumption, Crew, Places
<1>4. \A t \in Crew : Buffer(t) \in Places
  BY <1>3 DEF NestTypes, MineTypes, Buffer
<1>5. \A b \in Places : NestOf(b) \in Nat \ {0}
  BY DEF NestTypes, BufferTypes, NestOf
<1> QED
  BY <1>1, <1>2, <1>3, <1>4, <1>5

LEMMA FlagsAreThere ==
  ASSUME NestInv, DispatchAssumption
  PROVE  FlagsThere
<1>1. NestTypes
  BY DEF NestInv
<1>2. ASSUME ~Alone, NEW t \in Crew, at[t].step \in {"iterate", "wait"}
      PROVE  /\ Array(t).live /\ Array(t).nest = at[t].nest
             /\ 4 * ((TraceCount(Nest(t).dims) - 1) \div 32) + 4 <= Array(t).bytes
             /\ mine[t].info = Buffer(t)
  <2>1. HasBuffer(t) /\ SeesFlags(t) /\ Buffer(t) \in Places
    BY <1>1, <1>2, NestFacts DEF NestInv
  <2>2. /\ NestOf(Buffer(t)) = at[t].nest /\ mine[t].info = Buffer(t)
        /\ mine[t].flags = ring[Buffer(t)].flags /\ ring[Buffer(t)].flags > InProgress
    BY <2>1, <1>2 DEF HasBuffer, SeesFlags, Holding, Calling
  <2>3. ArrayOf(mine[t].flags - InProgress, at[t].nest)
    BY <1>2, <2>1, <2>2 DEF NestInv, PointsRight
  <2>4. /\ Array(t).live /\ Array(t).nest = at[t].nest /\ at[t].nest \in DOMAIN crew.nests
        /\ Array(t).bytes = TraceCount(Nest(t).dims) \div 8 + 8
    BY <2>3 DEF ArrayOf, Array, Nest
  <2>5. TraceCount(Nest(t).dims) \in Int
    BY <2>4, <1>1, NestFacts DEF Nest
  <2> QED
    BY <2>2, <2>4, <2>5, RoomForAll
<1>3. ASSUME NestsDone, NEW a \in DOMAIN arrays
      PROVE  ~arrays[a].live
  <2>1. CASE Alone
    BY <2>1, <1>3 DEF NestInv
  <2>2. CASE ~Alone /\ arrays[a].live
    <3>1. PICK b \in Places : ring[b].flags = a + InProgress
      BY <2>2, <1>3 DEF NestInv, Reached
    <3>2. a \in Nat \ {0}
      BY <1>1, <1>3 DEF NestTypes, ArrayTypes
    <3>3. NestOf(b) \in 1..Len(crew.nests) /\ NestOf(b) \in Nat
      BY <3>1, <3>2, <2>2, <1>1, NestFacts DEF NestInv, PointsRight, ArrayOf, InProgress
    <3>4. \A t \in Crew : GotPast(t, NestOf(b)) /\ ~EndsNest(t, b)
      BY <3>3, <1>3, <1>1, NestFacts DEF NestsDone, GotPast, EndsNest, Ending
    <3>5. ring[b].num_done = Cardinality(CountedPast(NestOf(b))) /\ ring[b].num_done < crew.nproc
      BY <3>4, <2>2 DEF NestInv, HandsOn, CountsPast
    <3>6. CountedPast(NestOf(b)) = 0..(crew.nproc - 1)
      BY <3>4, <1>1, NestFacts DEF CountedPast
    <3>7. Cardinality(0..(crew.nproc - 1)) = crew.nproc
      <4>1. crew.nproc - 1 \in Int /\ crew.nproc \in Nat \ {0}
        BY <1>1, NestFacts
      <4> QED
        BY <4>1, FS_Interval
    <3> QED
      BY <3>5, <3>6, <3>7, <1>1, NestFacts
  <2> QED
    BY <2>1, <2>2
<1> QED
  BY <1>2, <1>3 DEF FlagsThere

-----------------------------------------------------------------------------
\* A buffer hands on as before when nobody gets past a nest.
LEMMA HandsSame ==
  ASSUME NestTypes, DispatchAssumption, crew' = crew, NEW b \in Places, HandsOn(b),
         ring'[b].buf_idx = ring[b].buf_idx, ring'[b].num_done = ring[b].num_done,
         \A u \in Crew : \A k \in {NestOf(b), NestOf(b) + NumBuffers} : GotPast(u, k)' <=> GotPast(u, k),
         \A u \in Crew : EndsNest(u, b)' <=> EndsNest(u, b),
         \A u \in Crew : EndsNest(u, b) => at'[u].step = at[u].step
  PROVE  HandsOn(b)'
<1>1. Crew' = Crew /\ NestOf(b)' = NestOf(b)
  BY DEF Crew, NestOf
<1>2. CountedPast(NestOf(b))' = CountedPast(NestOf(b))
  BY <1>1 DEF CountedPast
<1>3. CountsPast(b)'
  BY <1>1, <1>2 DEF HandsOn, CountsPast
<1> QED
  BY <1>1, <1>3 DEF HandsOn

\* What a thread does that leaves the ring alone.
OthersStay(t) == \A u \in Crew : u # t => at'[u] = at[u] /\ mine'[u] = mine[u]
ArraysStay ==
  /\ DOMAIN arrays' = DOMAIN arrays
  /\ \A a \in DOMAIN arrays : /\ arrays'[a].live = arrays[a].live /\ arrays'[a].nest = arrays[a].nest
                              /\ arrays'[a].bytes = arrays[a].bytes
PastStays(t) ==
  /\ at[t].step \notin Ending /\ at'[t].step \notin Ending
  /\ \A k \in Int : GotPast(t, k)' <=> GotPast(t, k)

LEMMA QuietKeeps ==
  ASSUME NestInv, DispatchAssumption, ~Alone, crew' = crew, ring' = ring, NestTypes', NEW t \in Crew,
         OthersStay(t), ArraysStay, PastStays(t),
         HasBuffer(t)', SeesFlags(t)', at'[t].step # "allocate"
  PROVE  NestInv'
<1>0. NestTypes /\ Crew' = Crew /\ Places' = Places /\ ~Alone'
  BY DEF NestInv, Crew, Places, Alone
<1>1. \A u \in Crew : u # t => Buffer(u)' = Buffer(u)
  BY DEF OthersStay, Buffer
<1>2. \A b \in Places : NestOf(b)' = NestOf(b) /\ NestOf(b) \in Int /\ NestOf(b) + NumBuffers \in Int
  BY <1>0, NestFacts DEF NestOf
<1>3. ASSUME NEW u \in Crew
      PROVE  HasBuffer(u)' /\ SeesFlags(u)'
  <2>1. CASE u # t
    <3>1. HasBuffer(u) /\ SeesFlags(u) /\ at'[u] = at[u] /\ mine'[u] = mine[u] /\ Buffer(u)' = Buffer(u)
      BY <2>1, <1>1 DEF NestInv, OthersStay
    <3>2. NestOf(Buffer(u))' = NestOf(Buffer(u))
      BY <3>1 DEF NestOf
    <3>3. \A v \in Crew : at'[v].step = "allocate" => at'[v] = at[v]
      BY DEF OthersStay
    <3> QED
      BY <3>1, <3>2, <3>3, <1>0 DEF HasBuffer, SeesFlags
  <2> QED
    BY <2>1
<1>4. ASSUME NEW b \in Places
      PROVE  HandsOn(b)' /\ PointsRight(b)'
  <2>1. HandsOn(b) /\ PointsRight(b)
    BY <1>0 DEF NestInv
  <2>2. \A u \in Crew : /\ EndsNest(u, b)' <=> EndsNest(u, b)
                        /\ EndsNest(u, b) => at'[u].step = at[u].step
    BY <1>2 DEF EndsNest, OthersStay, PastStays
  <2>3. \A u \in Crew : \A k \in Int : GotPast(u, k)' <=> GotPast(u, k)
    BY DEF GotPast, OthersStay, PastStays
  <2>4. HandsOn(b)'
    BY <2>1, <2>2, <2>3, <1>0, <1>2, HandsSame
  <2>5. PointsRight(b)'
    BY <2>1, <1>2 DEF PointsRight, ArrayOf, ArraysStay
  <2> QED
    BY <2>4, <2>5
<1>5. ASSUME NEW a \in DOMAIN arrays'
      PROVE  Reached(a)'
  BY <1>0 DEF NestInv, Reached, ArraysStay
<1> QED
  BY <1>0, <1>3, <1>4, <1>5 DEF NestInv

\* A step of a thread that goes on to another, the rest as it is.
LEMMA StepTypes ==
  ASSUME AtTypes, crew' = crew, NEW t \in Crew, NEW from, NEW to \in NestSteps, Step(t, from, to)
  PROVE  /\ AtTypes' /\ at[t].step = from /\ at'[t].step = to /\ at'[t].nest = at[t].nest
         /\ at'[t].sinks = at[t].sinks
         /\ \A u \in Crew : u # t => at'[u] = at[u]
BY DEF AtTypes, Step, Crew, NestSteps, Holding, Calling

\* Who waits, keeps the pointer, iterates or forgets leaves the ring alone.
LEMMA StartsNestKeeps ==
  ASSUME NestInv, DispatchAssumption, ~Alone, NEW t \in Crew, DoacrossInit(t)
  PROVE  NestInv'
<1>0. NestTypes /\ AtTypes /\ MineTypes /\ HasBuffer(t) /\ SeesFlags(t) /\ NumBuffers \in Nat \ {0}
  BY NestFacts DEF NestInv, NestTypes
<1>1. /\ UNCHANGED <<crew, ring, arrays>> /\ at[t].step = "outside" /\ at[t].nest < Len(crew.nests)
      /\ at' = [at EXCEPT ![t].nest = @ + 1, ![t].step = "await"]
      /\ mine' = [mine EXCEPT ![t].idx = @ + 1, ![t].info = mine[t].idx % NumBuffers]
  BY DEF DoacrossInit
<1>2. Crew' = Crew /\ Places' = Places /\ at[t].nest \in Nat /\ mine[t].idx = at[t].nest /\ mine[t].idx \in Nat
  BY <1>0, <1>1 DEF Crew, Places, AtTypes, HasBuffer, MineTypes
<1>3. /\ AtTypes' /\ at'[t].step = "await" /\ at'[t].nest = at[t].nest + 1
      /\ \A u \in Crew : u # t => at'[u] = at[u]
  BY <1>0, <1>1, <1>2, NestFacts, SMTT(30) DEF AtTypes, NestSteps
<1>4. mine[t].idx % NumBuffers \in Places
  BY <1>0, <1>2, NestFacts
<1>5. /\ MineTypes' /\ mine'[t].idx = at[t].nest + 1 /\ mine'[t].info = mine[t].idx % NumBuffers
      /\ \A u \in Crew : u # t => mine'[u] = mine[u]
  <2> DEFINE q == mine[t].idx % NumBuffers
             m == [mine[t] EXCEPT !.idx = mine[t].idx + 1, !.info = q]
  <2>1. mine' = [mine EXCEPT ![t] = m] /\ q \in Places
    BY <1>1, <1>4
  <2> HIDE DEF q
  <2>2. m \in [idx : Nat, info : Places \cup {Null}, flags : Nat] /\ m.idx = at[t].nest + 1 /\ m.info = q
    <3>1. mine[t] \in [idx : Nat, info : Places \cup {Null}, flags : Nat]
      BY <1>0 DEF MineTypes
    <3>2. mine[t].idx + 1 \in Nat /\ q \in Places \cup {Null}
      BY <2>1, <1>2
    <3>3. m \in [idx : Nat, info : Places \cup {Null}, flags : Nat]
      BY <3>1, <3>2
    <3>4. m.idx = mine[t].idx + 1 /\ m.info = q
      BY <3>1
    <3> QED
      BY <3>3, <3>4, <1>2
  <2> HIDE DEF m
  <2>3. MineTypes' /\ mine'[t] = m /\ \A u \in Crew : u # t => mine'[u] = mine[u]
    BY <2>1, <2>2, <1>0, <1>2 DEF MineTypes
  <2> QED
    BY <2>2, <2>3 DEF q
<1>6. NestTypes'
  BY <1>0, <1>1, <1>2, <1>3, <1>5 DEF NestTypes, BufferTypes, ArrayTypes
<1>7. HasBuffer(t)'
  <2>1. (mine'[t].idx - 1) = mine[t].idx
    BY <1>2, <1>5
  <2>2. Buffer(t)' = mine[t].idx % NumBuffers
    BY <2>1 DEF Buffer
  <2> QED
    BY <2>2, <1>2, <1>3, <1>5 DEF HasBuffer, Holding, Calling
<1>8. SeesFlags(t)'
  BY <1>3 DEF SeesFlags, Calling
<1>9. PastStays(t)
  <2>1. ASSUME NEW k \in Int PROVE GotPast(t, k)' <=> GotPast(t, k)
    <3>1. GotPast(t, k)' <=> at[t].nest + 1 > k
      BY <1>3 DEF GotPast, Ending
    <3>2. GotPast(t, k) <=> at[t].nest >= k
      BY <1>1, <1>2 DEF GotPast, Ending
    <3> QED
      BY <3>1, <3>2, <1>2
  <2> QED
    BY <2>1, <1>1, <1>3 DEF PastStays, Ending
<1> QED
  BY <1>1, <1>3, <1>5, <1>6, <1>7, <1>8, <1>9, QuietKeeps DEF OthersStay, ArraysStay

LEMMA WaitsForFlagsKeeps ==
  ASSUME NestInv, DispatchAssumption, ~Alone, NEW t \in Crew, AwaitDoacross(t) \/ SpinForFlags(t)
  PROVE  NestInv'
<1>0. /\ NestTypes /\ AtTypes /\ HasBuffer(t) /\ SeesFlags(t) /\ at[t].nest \in Int
      /\ ring[Buffer(t)].flags \in Nat /\ mine[t].idx \in Nat
      /\ ring[Buffer(t)].buf_idx \in Nat
  <2>1. NestTypes /\ AtTypes /\ HasBuffer(t) /\ SeesFlags(t) /\ BufferTypes /\ MineTypes
    BY DEF NestInv, NestTypes
  <2>2. Buffer(t) \in Places
    BY <2>1, NestFacts
  <2>3. at[t].nest \in Int
    BY <2>1 DEF AtTypes
  <2> QED
    BY <2>1, <2>2, <2>3 DEF BufferTypes, MineTypes
<1>1. UNCHANGED <<crew, ring, arrays, mine>>
  BY DEF AwaitDoacross, SpinForFlags
<1>2. /\ AtTypes' /\ at'[t].nest = at[t].nest /\ \A u \in Crew : u # t => at'[u] = at[u]
      /\ \/ at[t].step = "await" /\ at'[t].step = "claim" /\ ring[Buffer(t)].buf_idx = mine[t].idx - 1
         \/ at[t].step = "spin" /\ at'[t].step = "keep" /\ ring[Buffer(t)].flags # InProgress
  <2>1. CASE AwaitDoacross(t)
    <3>1. "claim" \in NestSteps
      BY DEF NestSteps, Holding
    <3> QED
      BY <2>1, <3>1, <1>0, <1>1, StepTypes DEF AwaitDoacross
  <2>2. CASE SpinForFlags(t)
    <3>1. "keep" \in NestSteps
      BY DEF NestSteps, Holding, Calling
    <3> QED
      BY <2>2, <3>1, <1>0, <1>1, StepTypes DEF SpinForFlags
  <2> QED
    BY <2>1, <2>2
<1>3. NestTypes'
  BY <1>0, <1>1, <1>2 DEF NestTypes, BufferTypes, ArrayTypes, MineTypes, Crew, Places
<1>4. Buffer(t)' = Buffer(t)
  BY <1>1 DEF Buffer
<1>5. HasBuffer(t)'
  BY <1>0, <1>1, <1>2, <1>4 DEF HasBuffer, NestOf, Holding, Calling
<1>6. SeesFlags(t)'
  BY <1>0, <1>1, <1>2, <1>4 DEF SeesFlags, NULL, InProgress, Calling
<1>7. PastStays(t)
  BY <1>0, <1>2 DEF PastStays, GotPast, Ending
<1> QED
  BY <1>1, <1>2, <1>3, <1>5, <1>6, <1>7, QuietKeeps DEF OthersStay, ArraysStay

LEMMA KeepsFlagsKeeps ==
  ASSUME NestInv, DispatchAssumption, ~Alone, NEW t \in Crew, KeepFlags(t)
  PROVE  NestInv'
<1>0. /\ NestTypes /\ AtTypes /\ MineTypes /\ HasBuffer(t) /\ SeesFlags(t) /\ at[t].nest \in Int
      /\ ring[Buffer(t)].flags \in Nat
  BY NestFacts DEF NestInv, NestTypes, AtTypes, BufferTypes
<1>1. /\ UNCHANGED <<crew, ring, arrays>> /\ Step(t, "keep", "iterate")
      /\ mine' = [mine EXCEPT ![t].flags = ring[Buffer(t)].flags]
  BY DEF KeepFlags
<1>2. /\ AtTypes' /\ at'[t].nest = at[t].nest /\ (\A u \in Crew : u # t => at'[u] = at[u])
      /\ at[t].step = "keep" /\ at'[t].step = "iterate"
  <2>1. "iterate" \in NestSteps
    BY DEF NestSteps, Holding, Calling
  <2> QED
    BY <2>1, <1>0, <1>1, StepTypes
<1>3. /\ MineTypes' /\ mine'[t].idx = mine[t].idx /\ mine'[t].info = mine[t].info
      /\ mine'[t].flags = ring[Buffer(t)].flags /\ \A u \in Crew : u # t => mine'[u] = mine[u]
  <2> DEFINE f == ring[Buffer(t)].flags
  <2>1. f \in Nat /\ mine' = [mine EXCEPT ![t].flags = f]
    BY <1>0, <1>1
  <2> HIDE DEF f
  <2>2. /\ MineTypes' /\ mine'[t].idx = mine[t].idx /\ mine'[t].info = mine[t].info
        /\ mine'[t].flags = f /\ \A u \in Crew : u # t => mine'[u] = mine[u]
    BY <2>1, <1>0, <1>1 DEF MineTypes, Crew, Places
  <2> QED
    BY <2>2 DEF f
<1>4. NestTypes'
  BY <1>0, <1>1, <1>2, <1>3 DEF NestTypes, BufferTypes, ArrayTypes, Crew, Places
<1>5. Buffer(t)' = Buffer(t)
  BY <1>3 DEF Buffer
<1>6. HasBuffer(t)'
  BY <1>0, <1>1, <1>2, <1>3, <1>5 DEF HasBuffer, NestOf, Holding, Calling
<1>7. SeesFlags(t)'
  BY <1>0, <1>1, <1>2, <1>3, <1>5 DEF SeesFlags, Calling
<1>8. PastStays(t)
  BY <1>0, <1>2 DEF PastStays, GotPast, Ending
<1> QED
  BY <1>1, <1>2, <1>3, <1>4, <1>6, <1>7, <1>8, QuietKeeps DEF OthersStay, ArraysStay

LEMMA IteratesKeeps ==
  ASSUME NestInv, DispatchAssumption, ~Alone, NEW t \in Crew, TakeIteration(t) \/ WaitSink(t) \/ Post(t)
  PROVE  NestInv'
<1>0. NestTypes /\ AtTypes /\ HasBuffer(t) /\ SeesFlags(t) /\ ArrayTypes
  BY DEF NestInv, NestTypes
<1>1. UNCHANGED <<crew, ring, mine>>
  BY DEF TakeIteration, WaitSink, Post
<1>2. /\ AtTypes' /\ at'[t].nest = at[t].nest /\ (\A u \in Crew : u # t => at'[u] = at[u])
      /\ at[t].step \in {"iterate", "wait"} /\ at'[t].step \in {"iterate", "wait"}
  <2>0. "iterate" \in NestSteps /\ "wait" \in NestSteps /\ Crew' = Crew
    BY <1>1 DEF NestSteps, Holding, Calling, Crew
  <2>1. CASE TakeIteration(t)
    <3> DEFINE g == given[at[t].nest]
               s == Nest(t).sinks
    <3>1. /\ at' = [at EXCEPT ![t].step = "wait", ![t].iteration = g, ![t].sinks = s]
          /\ at[t].step = "iterate"
      BY <2>1 DEF TakeIteration
    <3> HIDE DEF g, s
    <3> QED
      BY <3>1, <2>0, <1>0, <1>1 DEF AtTypes
  <2>2. CASE WaitSink(t)
    <3> DEFINE s == Tail(at[t].sinks)
    <3>1. at' = [at EXCEPT ![t].sinks = s] /\ at[t].step = "wait"
      BY <2>2 DEF WaitSink
    <3> HIDE DEF s
    <3> QED
      BY <3>1, <2>0, <1>0, <1>1 DEF AtTypes
  <2>3. CASE Post(t)
    <3>1. Step(t, "wait", "iterate")
      BY <2>3 DEF Post
    <3> QED
      BY <3>1, <2>0, <1>0, <1>1, StepTypes
  <2> QED
    BY <2>1, <2>2, <2>3
<1>3. ArrayTypes' /\ ArraysStay
  <2>1. CASE arrays' = arrays
    BY <2>1, <1>0 DEF ArrayTypes, ArraysStay
  <2>2. CASE Post(t)
    <3>1. PICK a, bits : arrays' = [arrays EXCEPT ![a].bits = bits]
      <4>1. PICK bit : arrays' = [arrays EXCEPT ![mine[t].flags - InProgress].bits = @ \cup {bit}]
        BY <2>2 DEF Post
      <4> DEFINE a == mine[t].flags - InProgress
      <4>2. arrays' = [arrays EXCEPT ![a].bits = arrays[a].bits \cup {bit}]
        BY <4>1
      <4> HIDE DEF a
      <4> QED
        BY <4>2
    <3> DEFINE n == Len(arrays)
    <3>2. n \in Nat /\ arrays = [i \in 1..n |-> arrays[i]]
      BY <1>0 DEF ArrayTypes
    <3> HIDE DEF n
    <3>3. DOMAIN arrays' = 1..n /\ DOMAIN arrays = 1..n /\ arrays' = [i \in 1..n |-> arrays'[i]]
      BY <3>1, <3>2
    <3>4. Len(arrays') = n
      BY <3>2, <3>3
    <3>5. \A i \in 1..n : /\ DOMAIN arrays'[i] = DOMAIN arrays[i]
                          /\ arrays'[i].live = arrays[i].live /\ arrays'[i].nest = arrays[i].nest
                          /\ arrays'[i].bytes = arrays[i].bytes
      BY <3>1, <3>3, <1>0 DEF ArrayTypes
    <3> QED
      BY <3>2, <3>3, <3>4, <3>5, <1>0 DEF ArrayTypes, ArraysStay
  <2> QED
    BY <2>1, <2>2 DEF TakeIteration, WaitSink
<1>4. NestTypes'
  BY <1>0, <1>1, <1>2, <1>3 DEF NestTypes, BufferTypes, MineTypes, Crew, Places
<1>5. Buffer(t)' = Buffer(t)
  BY <1>1 DEF Buffer
<1>6. HasBuffer(t)'
  BY <1>0, <1>1, <1>2, <1>5 DEF HasBuffer, NestOf, Holding, Calling
<1>7. SeesFlags(t)'
  BY <1>0, <1>1, <1>2, <1>5 DEF SeesFlags, Calling
<1>8. PastStays(t)
  BY <1>0, <1>2 DEF PastStays, GotPast, Ending
<1> QED
  BY <1>1, <1>2, <1>3, <1>4, <1>6, <1>7, <1>8, QuietKeeps DEF OthersStay

LEMMA ForgetsKeeps ==
  ASSUME NestInv, DispatchAssumption, ~Alone, NEW t \in Crew, ForgetInfo(t)
  PROVE  NestInv'
<1>0. NestTypes /\ AtTypes /\ MineTypes /\ HasBuffer(t)
  BY DEF NestInv, NestTypes
<1>1. /\ UNCHANGED <<crew, ring, arrays>> /\ mine' = [mine EXCEPT ![t].info = Null]
      /\ Step(t, "forget", "outside")
  BY DEF ForgetInfo
<1>2. /\ AtTypes' /\ at'[t].nest = at[t].nest /\ (\A u \in Crew : u # t => at'[u] = at[u])
      /\ at[t].step = "forget" /\ at'[t].step = "outside"
  <2>1. "outside" \in NestSteps
    BY DEF NestSteps
  <2> QED
    BY <2>1, <1>0, <1>1, StepTypes
<1>3. MineTypes' /\ mine'[t].idx = mine[t].idx /\ \A u \in Crew : u # t => mine'[u] = mine[u]
  BY <1>0, <1>1 DEF MineTypes, Crew, Places
<1>4. NestTypes'
  BY <1>0, <1>1, <1>2, <1>3 DEF NestTypes, BufferTypes, ArrayTypes, Crew, Places
<1>5. HasBuffer(t)' /\ SeesFlags(t)'
  BY <1>0, <1>1, <1>2, <1>3 DEF HasBuffer, SeesFlags, Holding, Calling
<1>6. PastStays(t)
  BY <1>0, <1>2 DEF PastStays, GotPast, Ending
<1> QED
  BY <1>1, <1>2, <1>3, <1>4, <1>5, <1>6, QuietKeeps DEF OthersStay, ArraysStay

-----------------------------------------------------------------------------
\* Buffers of two places are of two nests; threads of a nest have one buffer, and once
\* its last thread ends a nest no other has the buffer.
LEMMA PlacesOfNests ==
  ASSUME NestInv, ~Alone, NEW b \in Places, NEW c \in Places, NestOf(b) = NestOf(c)
  PROVE  b = c
<1>1. ring[b].buf_idx % NumBuffers = b /\ ring[c].buf_idx % NumBuffers = c
  BY DEF NestInv, HandsOn
<1>2. ring[b].buf_idx \in Nat /\ ring[c].buf_idx \in Nat
  BY DEF NestInv, NestTypes, BufferTypes
<1>3. ring[b].buf_idx = ring[c].buf_idx
  BY <1>2 DEF NestOf
<1> QED
  BY <1>1, <1>3

LEMMA SameNest ==
  ASSUME NestInv, ~Alone, NEW t \in Crew, NEW u \in Crew
  PROVE  /\ at[t].nest = at[u].nest => Buffer(t) = Buffer(u)
         /\ at[t].step \in Holding /\ at[u].step \in Holding /\ Buffer(t) = Buffer(u) => at[t].nest = at[u].nest
BY DEF NestInv, HasBuffer, Buffer

LEMMA LastInNest ==
  ASSUME NestInv, DispatchAssumption, ~Alone, NEW b \in Places, NEW t \in Crew, EndsNest(t, b)
  PROVE  /\ Buffer(t) = b
         /\ \A u \in Crew : /\ GotPast(u, NestOf(b))
                            /\ at[u].step \in Holding /\ Buffer(u) = b => u = t
<1>1. NestTypes /\ HasBuffer(t) /\ HandsOn(b) /\ Buffer(t) \in Places /\ NestOf(b) \in Nat
  BY NestFacts DEF NestInv
<1>2. Buffer(t) = b
  <2>1. NestOf(Buffer(t)) = NestOf(b)
    BY <1>1 DEF HasBuffer, EndsNest, Holding, Calling, Ending
  <2> QED
    BY <2>1, <1>1, PlacesOfNests
<1>3. \A u \in Crew : GotPast(u, NestOf(b)) /\ (EndsNest(u, b) => u = t)
  BY <1>1 DEF HandsOn, CountsPast
<1>4. ASSUME NEW u \in Crew, at[u].step \in Holding, Buffer(u) = b
      PROVE  u = t
  <2>1. at[u].nest = NestOf(b) /\ GotPast(u, NestOf(b))
    BY <1>3, <1>4 DEF NestInv, HasBuffer
  <2>2. at[u].step \in Ending
    BY <2>1, <1>1, <1>4 DEF GotPast, Holding, Calling, Ending
  <2> QED
    BY <2>1, <2>2, <1>3 DEF EndsNest
<1> QED
  BY <1>2, <1>3, <1>4

LEMMA HandsStay ==
  ASSUME NestInv, DispatchAssumption, ~Alone, crew' = crew, NEW t \in Crew, OthersStay(t), PastStays(t),
         \A b \in Places : ring'[b].buf_idx = ring[b].buf_idx /\ ring'[b].num_done = ring[b].num_done
  PROVE  \A b \in Places : HandsOn(b)' /\ NestOf(b)' = NestOf(b)
<1> TAKE b \in Places
<1>1. NestTypes /\ HandsOn(b)
  BY DEF NestInv
<1>2. NestOf(b)' = NestOf(b) /\ NestOf(b) \in Int /\ NestOf(b) + NumBuffers \in Int
  BY <1>1, NestFacts DEF NestOf
<1>3. \A u \in Crew : /\ EndsNest(u, b)' <=> EndsNest(u, b)
                      /\ EndsNest(u, b) => at'[u].step = at[u].step
  BY <1>2 DEF EndsNest, OthersStay, PastStays
<1>4. \A u \in Crew : \A k \in Int : GotPast(u, k)' <=> GotPast(u, k)
  BY DEF GotPast, OthersStay, PastStays
<1> QED
  BY <1>1, <1>2, <1>3, <1>4, HandsSame

LEMMA ClaimsKeeps ==
  ASSUME NestInv, DispatchAssumption, ~Alone, NEW t \in Crew, ClaimFlags(t)
  PROVE  NestInv'
<1> DEFINE b == Buffer(t)
<1>0. /\ NestTypes /\ AtTypes /\ BufferTypes /\ HasBuffer(t) /\ SeesFlags(t) /\ b \in Places
      /\ ring[b].flags \in Nat /\ at[t].nest \in Int
  <2>1. NestTypes /\ AtTypes /\ BufferTypes /\ HasBuffer(t) /\ SeesFlags(t) /\ b \in Places
    BY NestFacts DEF NestInv, NestTypes
  <2> QED
    BY <2>1 DEF BufferTypes, AtTypes
<1>1. UNCHANGED <<crew, arrays, mine>>
  BY DEF ClaimFlags
<1>2. PICK to \in {"allocate", "spin", "keep"} :
        /\ Step(t, "claim", to)
        /\ ring' = IF ring[b].flags = NULL THEN [ring EXCEPT ![b].flags = InProgress] ELSE ring
        /\ to = "allocate" <=> ring[b].flags = NULL
        /\ to = "keep" => ring[b].flags > InProgress
  BY <1>0 DEF ClaimFlags, NULL, InProgress
<1>3. /\ AtTypes' /\ at'[t].nest = at[t].nest /\ (\A u \in Crew : u # t => at'[u] = at[u])
      /\ at[t].step = "claim" /\ at'[t].step = to
  <2>1. to \in NestSteps
    BY DEF NestSteps, Holding, Calling
  <2> QED
    BY <2>1, <1>0, <1>1, <1>2, StepTypes
<1>4. /\ BufferTypes' /\ ring'[b].flags = IF ring[b].flags = NULL THEN InProgress ELSE ring[b].flags
      /\ \A c \in Places : /\ ring'[c].buf_idx = ring[c].buf_idx /\ ring'[c].num_done = ring[c].num_done
                           /\ c # b => ring'[c] = ring[c]
  <2> HIDE DEF b
  <2> QED
    BY <1>0, <1>2 DEF BufferTypes, Places, InProgress
<1>5. NestTypes'
  BY <1>0, <1>1, <1>3, <1>4 DEF NestTypes, ArrayTypes, MineTypes, Crew, Places
<1>6. \A u \in Crew : Buffer(u)' = Buffer(u)
  BY <1>1 DEF Buffer
<1>7. OthersStay(t) /\ ArraysStay /\ PastStays(t)
  BY <1>0, <1>1, <1>2, <1>3 DEF OthersStay, ArraysStay, PastStays, GotPast, Ending
<1>8. \A c \in Places : HandsOn(c)' /\ NestOf(c)' = NestOf(c)
  BY <1>1, <1>4, <1>7, HandsStay
<1>9. HasBuffer(t)'
  BY <1>0, <1>1, <1>2, <1>3, <1>6, <1>8 DEF HasBuffer, Holding, Calling
<1>10. CASE ring[b].flags # NULL
  <2>1. ring' = ring /\ to # "allocate"
    BY <1>2, <1>10
  <2>2. SeesFlags(t)'
    BY <2>1, <1>0, <1>2, <1>3, <1>6, <1>10 DEF SeesFlags, Calling
  <2> QED
    BY <2>1, <2>2, <1>1, <1>3, <1>5, <1>7, <1>9, QuietKeeps
<1>11. CASE ring[b].flags = NULL
  <2>1. to = "allocate" /\ ring'[b].flags = InProgress
    BY <1>2, <1>4, <1>11
  <2>2. ASSUME NEW u \in Crew, u # t, Buffer(u) = b
        PROVE  at[u].step \notin Calling \cup {"allocate", "spin", "rearm"}
    <3>1. SeesFlags(u) /\ HasBuffer(u)
      BY DEF NestInv
    <3>2. at[u].step \notin Calling \cup {"allocate", "spin"}
      BY <3>1, <2>2, <1>11 DEF SeesFlags, NULL, InProgress
    <3>3. at[u].step # "rearm"
      <4>1. SUFFICES ASSUME EndsNest(u, b) PROVE FALSE
        BY <3>1, <2>2 DEF HasBuffer, EndsNest, Holding, Ending
      <4>2. t = u
        BY <4>1, <1>0, <1>3, LastInNest DEF Holding
      <4> QED
        BY <4>2, <2>2
    <3> QED
      BY <3>2, <3>3
  <2>3. ASSUME NEW u \in Crew
        PROVE  HasBuffer(u)' /\ SeesFlags(u)'
    <3>1. CASE u = t
      <4>1. ASSUME NEW v \in Crew, at'[v].step = "allocate", at'[v].nest = at'[t].nest
            PROVE  v = t
        BY <4>1, <2>2, <1>3, SameNest
      <4>2. Crew' = Crew /\ Buffer(t)' = b
        BY <1>1, <1>6 DEF Crew
      <4> HIDE DEF b
      <4>3. SeesFlags(t)'
        BY <4>1, <4>2, <2>1, <1>3 DEF SeesFlags, Calling
      <4> QED
        BY <3>1, <4>3, <1>9
    <3>2. CASE u # t /\ Buffer(u) = b
      <4>1. HasBuffer(u)'
        BY <3>2, <1>0, <1>1, <1>3, <1>6, <1>8 DEF NestInv, HasBuffer
      <4>2. SeesFlags(u)'
        BY <3>2, <2>2, <1>3 DEF SeesFlags, Calling
      <4> QED
        BY <4>1, <4>2
    <3>3. CASE u # t /\ Buffer(u) # b
      <4>1. HasBuffer(u) /\ SeesFlags(u) /\ Buffer(u) \in Places /\ at'[u] = at[u] /\ mine'[u] = mine[u]
        BY <3>3, <1>0, <1>1, <1>3, NestFacts DEF NestInv
      <4>2. ring'[Buffer(u)] = ring[Buffer(u)] /\ NestOf(Buffer(u))' = NestOf(Buffer(u))
        BY <4>1, <3>3, <1>4, <1>6, <1>8 DEF NestOf
      <4>3. \A v \in Crew : at'[v].nest = at'[u].nest => v # t /\ at'[v] = at[v]
        BY <3>3, <1>3, <4>1, SameNest
      <4>4. Crew' = Crew /\ Buffer(u)' = Buffer(u)
        BY <1>1, <1>6 DEF Crew
      <4> HIDE DEF b
      <4>5. HasBuffer(u)'
        BY <4>1, <4>2, <4>4 DEF HasBuffer
      <4>6. SeesFlags(u)'
        BY <4>1, <4>2, <4>3, <4>4 DEF SeesFlags
      <4> QED
        BY <4>5, <4>6
    <3> QED
      BY <3>1, <3>2, <3>3
  <2>4. ASSUME NEW c \in Places
        PROVE  PointsRight(c)'
    <3>1. CASE c = b
      BY <3>1, <2>1 DEF PointsRight, InProgress
    <3>2. CASE c # b
      BY <3>2, <1>1, <1>4, <1>8 DEF NestInv, PointsRight, ArrayOf
    <3> QED
      BY <3>1, <3>2
  <2>5. ASSUME NEW a \in DOMAIN arrays'
        PROVE  Reached(a)'
    <3>1. Reached(a) /\ arrays' = arrays /\ a \in Nat /\ Places' = Places
      BY <2>5, <1>0, <1>1 DEF NestInv, NestTypes, ArrayTypes, Places
    <3> SUFFICES ASSUME arrays[a].live
                 PROVE  \E c \in Places : ring'[c].flags = a + InProgress
      BY <3>1 DEF Reached
    <3>2. PICK c \in Places : ring[c].flags = a + InProgress
      BY <3>1 DEF Reached
    <3>3. c # b
      BY <3>1, <3>2, <1>11 DEF NULL, InProgress
    <3> QED
      BY <3>2, <3>3, <1>4
  <2> QED
    BY <2>3, <2>4, <2>5, <1>1, <1>5, <1>8 DEF NestInv, Alone, Crew, Places
<1> QED
  BY <1>10, <1>11

\* One more array behind the others.
LEMMA OneMoreArray ==
  ASSUME ArrayTypes, NEW x, DOMAIN x = {"nest", "bits", "live", "bytes"}, arrays' = Append(arrays, x)
  PROVE  /\ ArrayTypes' /\ DOMAIN arrays' = DOMAIN arrays \cup {Len(arrays) + 1}
         /\ arrays'[Len(arrays) + 1] = x /\ \A a \in DOMAIN arrays : arrays'[a] = arrays[a]
<1> DEFINE n == Len(arrays)
           X == {arrays[a] : a \in 1..n} \cup {x}
<1>1. n \in Nat /\ arrays = [a \in 1..n |-> arrays[a]]
  BY DEF ArrayTypes
<1>2. arrays \in Seq(X) /\ x \in X
  <2>1. arrays \in [1..n -> X]
    BY <1>1
  <2> HIDE DEF X
  <2>2. arrays \in Seq(X)
    BY <2>1, <1>1, SeqDef
  <2> QED
    BY <2>2 DEF X
<1>3. /\ Append(arrays, x) \in Seq(X) /\ Len(Append(arrays, x)) = n + 1
      /\ \A a \in 1..n : Append(arrays, x)[a] = arrays[a]
      /\ Append(arrays, x)[n + 1] = x
  <2> HIDE DEF X
  <2> QED
    BY <1>2
<1>4. DOMAIN arrays' = 1..(n + 1) /\ Len(arrays') = n + 1 /\ DOMAIN arrays = 1..n
      /\ arrays' = [a \in 1..Len(arrays') |-> arrays'[a]]
  <2> HIDE DEF X
  <2>1. arrays' \in Seq(X) /\ Len(arrays') = n + 1
    BY <1>3
  <2>2. arrays' \in [1..(n + 1) -> X]
    BY <2>1, LenProperties
  <2> QED
    BY <2>1, <2>2, <1>1
<1> QED
  BY <1>1, <1>3, <1>4 DEF ArrayTypes

LEMMA AllocatesKeeps ==
  ASSUME NestInv, DispatchAssumption, ~Alone, NEW t \in Crew, AllocateFlags(t)
  PROVE  NestInv'
<1> DEFINE b == Buffer(t)
           n == Len(arrays)
           x == [nest |-> at[t].nest, bits |-> {}, live |-> TRUE, bytes |-> TraceCount(Nest(t).dims) \div 8 + 8]
<1>0. /\ NestTypes /\ AtTypes /\ BufferTypes /\ ArrayTypes /\ HasBuffer(t) /\ SeesFlags(t) /\ b \in Places
      /\ at[t].nest \in 0..Len(crew.nests) /\ n \in Nat /\ DOMAIN arrays = 1..n
      /\ DOMAIN crew.nests = 1..Len(crew.nests)
  <2>1. /\ NestTypes /\ AtTypes /\ BufferTypes /\ HasBuffer(t) /\ SeesFlags(t) /\ b \in Places /\ ArrayTypes
        /\ DOMAIN crew.nests = 1..Len(crew.nests)
    BY NestFacts DEF NestInv, NestTypes
  <2> QED
    BY <2>1 DEF AtTypes, ArrayTypes
<1>1. /\ UNCHANGED <<crew, mine>> /\ Step(t, "allocate", "keep") /\ arrays' = Append(arrays, x)
      /\ ring' = [ring EXCEPT ![b].flags = n + 1 + InProgress]
  BY DEF AllocateFlags
<1>2. /\ AtTypes' /\ at'[t].nest = at[t].nest /\ (\A u \in Crew : u # t => at'[u] = at[u])
      /\ at[t].step = "allocate" /\ at'[t].step = "keep"
  <2>1. "keep" \in NestSteps
    BY DEF NestSteps, Holding, Calling
  <2> QED
    BY <2>1, <1>0, <1>1, StepTypes
<1>3. /\ ring[b].flags = InProgress /\ at[t].nest = NestOf(b) /\ at[t].nest \in DOMAIN crew.nests
      /\ \A u \in Crew : at[u].step = "allocate" /\ at[u].nest = at[t].nest => u = t
  BY <1>0, <1>2 DEF SeesFlags, HasBuffer, Holding
<1>4. /\ BufferTypes' /\ ring'[b].flags = n + 2
      /\ \A c \in Places : /\ ring'[c].buf_idx = ring[c].buf_idx /\ ring'[c].num_done = ring[c].num_done
                           /\ c # b => ring'[c] = ring[c]
  <2> DEFINE q == n + 1 + InProgress
  <2>1. q \in Nat /\ q = n + 2 /\ ring' = [ring EXCEPT ![b].flags = q]
    BY <1>0, <1>1 DEF InProgress
  <2> HIDE DEF b, q
  <2>2. /\ BufferTypes' /\ ring'[b].flags = q
        /\ \A c \in Places : /\ ring'[c].buf_idx = ring[c].buf_idx /\ ring'[c].num_done = ring[c].num_done
                             /\ c # b => ring'[c] = ring[c]
    BY <2>1, <1>0 DEF BufferTypes, Places
  <2> QED
    BY <2>1, <2>2
<1>5. /\ ArrayTypes' /\ DOMAIN arrays' = DOMAIN arrays \cup {n + 1}
      /\ arrays'[n + 1] = x /\ \A a \in DOMAIN arrays : arrays'[a] = arrays[a]
  <2>1. DOMAIN x = {"nest", "bits", "live", "bytes"}
    OBVIOUS
  <2> HIDE DEF x
  <2> QED
    BY <2>1, <1>0, <1>1, OneMoreArray
<1>6. NestTypes'
  BY <1>0, <1>1, <1>2, <1>4, <1>5 DEF NestTypes, MineTypes, Crew, Places
<1>7. \A u \in Crew : Buffer(u)' = Buffer(u)
  BY <1>1 DEF Buffer
<1>8. OthersStay(t) /\ PastStays(t)
  BY <1>0, <1>1, <1>2 DEF OthersStay, PastStays, GotPast, Ending
<1>9. \A c \in Places : HandsOn(c)' /\ NestOf(c)' = NestOf(c)
  BY <1>1, <1>4, <1>8, HandsStay
<1>10. ASSUME NEW u \in Crew
       PROVE  HasBuffer(u)' /\ SeesFlags(u)'
  <2>1. /\ HasBuffer(u) /\ SeesFlags(u) /\ Buffer(u) \in Places /\ Buffer(u)' = Buffer(u)
        /\ mine'[u] = mine[u] /\ at'[u].nest = at[u].nest /\ Crew' = Crew
    BY <1>0, <1>1, <1>2, <1>7, NestFacts DEF NestInv, Crew
  <2>2. HasBuffer(u)'
    BY <2>1, <1>2, <1>9 DEF HasBuffer, Holding, Calling
  <2>3. CASE u = t
    <3>1. ring'[b].flags > InProgress
      BY <1>0, <1>4 DEF InProgress
    <3> QED
      BY <2>1, <2>2, <2>3, <3>1, <1>2 DEF SeesFlags, Calling
  <2>4. CASE u # t /\ Buffer(u) = b
    <3>1. at[u].step \notin Calling \cup {"allocate", "rearm"}
      BY <2>1, <2>4, <1>3, <1>2, SameNest DEF SeesFlags, Calling, Holding, NULL, InProgress
    <3>2. ring'[b].flags # NULL
      BY <1>0, <1>4 DEF NULL
    <3> HIDE DEF b
    <3> QED
      BY <2>1, <2>2, <2>4, <3>1, <3>2, <1>2 DEF SeesFlags, Calling
  <2>5. CASE u # t /\ Buffer(u) # b
    <3>1. ring'[Buffer(u)] = ring[Buffer(u)] /\ at'[u] = at[u]
      BY <2>1, <2>5, <1>2, <1>4
    <3>2. \A v \in Crew : at'[v].step = "allocate" => at'[v] = at[v]
      BY <1>2
    <3> HIDE DEF b
    <3>3. SeesFlags(u)'
      BY <2>1, <3>1, <3>2 DEF SeesFlags
    <3> QED
      BY <2>2, <3>3
  <2> QED
    BY <2>3, <2>4, <2>5
<1>11. ASSUME NEW c \in Places
       PROVE  PointsRight(c)'
  <2>1. CASE c = b
    <3>1. ring'[c].flags - InProgress = n + 1
      BY <2>1, <1>0, <1>4 DEF InProgress
    <3> DEFINE m == NestOf(b)
    <3>2. x.live /\ x.nest = m /\ x.bytes = TraceCount(crew.nests[m].dims) \div 8 + 8
      BY <1>3 DEF Nest
    <3>3. NestOf(c)' = m /\ crew' = crew /\ m \in DOMAIN crew.nests
      BY <2>1, <1>1, <1>3, <1>9
    <3> HIDE DEF x, m, b, n
    <3>4. ArrayOf(ring[c].flags - InProgress, NestOf(c))'
      BY <1>5, <3>1, <3>2, <3>3 DEF ArrayOf
    <3> QED
      BY <3>4 DEF PointsRight
  <2>2. CASE c # b
    BY <2>2, <1>1, <1>4, <1>5, <1>9 DEF NestInv, PointsRight, ArrayOf
  <2> QED
    BY <2>1, <2>2
<1>12. ASSUME NEW a \in DOMAIN arrays'
       PROVE  Reached(a)'
  <2>0. Places' = Places
    BY DEF Places
  <2>1. CASE a = n + 1
    <3>1. ring'[b].flags = a + InProgress
      BY <2>1, <1>4, <1>0 DEF InProgress
    <3> QED
      BY <3>1, <2>0, <1>0 DEF Reached
  <2>2. CASE a \in DOMAIN arrays
    <3>1. Reached(a) /\ arrays'[a] = arrays[a] /\ a \in Nat \ {0}
      BY <2>2, <1>0, <1>5 DEF NestInv
    <3> SUFFICES ASSUME arrays[a].live
                 PROVE  \E c \in Places : ring'[c].flags = a + InProgress
      BY <3>1, <2>0 DEF Reached
    <3>2. PICK c \in Places : ring[c].flags = a + InProgress
      BY <3>1 DEF Reached
    <3>3. c # b
      BY <3>1, <3>2, <1>3 DEF InProgress
    <3> QED
      BY <3>2, <3>3, <1>4
  <2> QED
    BY <2>1, <2>2, <1>5
<1> QED
  BY <1>1, <1>6, <1>9, <1>10, <1>11, <1>12 DEF NestInv, Alone, Crew, Places

\* Who has another buffer does not notice what happens to this one.
LEMMA OtherBuffers ==
  ASSUME NestInv, DispatchAssumption, ~Alone, crew' = crew, NEW u \in Crew, NEW t \in Crew,
         mine'[u] = mine[u], at'[u] = at[u], Buffer(u) # Buffer(t),
         \A c \in Places : c # Buffer(t) => ring'[c] = ring[c],
         \A v \in Crew : at'[v].step = "allocate" => at'[v] = at[v]
  PROVE  HasBuffer(u)' /\ SeesFlags(u)'
<1>1. /\ HasBuffer(u) /\ SeesFlags(u) /\ Buffer(u) \in Places /\ Buffer(u)' = Buffer(u)
      /\ Crew' = Crew
  BY NestFacts DEF NestInv, Buffer, Crew
<1>2. ring'[Buffer(u)] = ring[Buffer(u)] /\ NestOf(Buffer(u))' = NestOf(Buffer(u))
  BY <1>1 DEF NestOf
<1>3. HasBuffer(u)'
  BY <1>1, <1>2 DEF HasBuffer
<1>4. SeesFlags(u)'
  BY <1>1, <1>2 DEF SeesFlags
<1> QED
  BY <1>3, <1>4

LEMMA FreesKeeps ==
  ASSUME NestInv, DispatchAssumption, ~Alone, NEW t \in Crew, FreeFlags(t)
  PROVE  NestInv'
<1> DEFINE b == Buffer(t)
           p == ring[b].flags - InProgress
           n == Len(arrays)
<1>0. /\ NestTypes /\ AtTypes /\ BufferTypes /\ ArrayTypes /\ HasBuffer(t) /\ SeesFlags(t) /\ b \in Places
      /\ at[t].nest \in Int /\ n \in Nat /\ DOMAIN arrays = 1..n /\ ring[b].flags \in Nat
      /\ \A c \in Places : NestOf(c) \in Int /\ NestOf(c) + NumBuffers \in Int /\ HandsOn(c) /\ PointsRight(c)
  <2>1. /\ NestTypes /\ AtTypes /\ BufferTypes /\ HasBuffer(t) /\ SeesFlags(t) /\ b \in Places /\ ArrayTypes
        /\ \A c \in Places : NestOf(c) \in Int /\ NestOf(c) + NumBuffers \in Int /\ HandsOn(c) /\ PointsRight(c)
    BY NestFacts DEF NestInv, NestTypes
  <2> QED
    BY <2>1 DEF AtTypes, ArrayTypes, BufferTypes
<1>1. /\ UNCHANGED <<crew, mine>> /\ Step(t, "free", "rearm") /\ arrays' = [arrays EXCEPT ![p].live = FALSE]
      /\ ring' = [ring EXCEPT ![b].flags = NULL, ![b].num_done = 0]
  BY DEF FreeFlags
<1>2. /\ AtTypes' /\ at'[t].nest = at[t].nest /\ (\A u \in Crew : u # t => at'[u] = at[u])
      /\ at[t].step = "free" /\ at'[t].step = "rearm"
  <2>1. "rearm" \in NestSteps
    BY DEF NestSteps, Holding
  <2> QED
    BY <2>1, <1>0, <1>1, StepTypes
<1>3. /\ EndsNest(t, b) /\ at[t].nest = NestOf(b) /\ ring[b].flags > InProgress /\ ArrayOf(p, NestOf(b))
  BY <1>0, <1>2 DEF SeesFlags, HasBuffer, Holding, Calling, EndsNest, Ending, PointsRight
<1>4. \A u \in Crew : GotPast(u, NestOf(b)) /\ (at[u].step \in Holding /\ Buffer(u) = b => u = t)
  BY <1>0, <1>3, LastInNest
<1>5. /\ BufferTypes' /\ ring'[b].flags = NULL /\ ring'[b].num_done = 0 /\ ring'[b].buf_idx = ring[b].buf_idx
      /\ \A c \in Places : c # b => ring'[c] = ring[c]
  <2> HIDE DEF b
  <2> QED
    BY <1>0, <1>1 DEF BufferTypes, Places, NULL
<1>6. /\ ArrayTypes' /\ DOMAIN arrays' = DOMAIN arrays /\ ~arrays'[p].live
      /\ \A a \in DOMAIN arrays : a # p => arrays'[a] = arrays[a]
  <2>1. p \in DOMAIN arrays
    BY <1>3 DEF ArrayOf
  <2> HIDE DEF p, n
  <2>2. arrays = [a \in 1..n |-> arrays[a]]
    BY <1>0 DEF ArrayTypes, n
  <2>3. DOMAIN arrays' = 1..n /\ arrays' = [a \in 1..n |-> arrays'[a]]
    BY <2>2, <1>0, <1>1
  <2>4. Len(arrays') = n
    BY <2>3, <1>0
  <2>5. ~arrays'[p].live /\ DOMAIN arrays'[p] = DOMAIN arrays[p] /\ \A a \in 1..n : a # p => arrays'[a] = arrays[a]
    BY <2>1, <2>2, <1>0, <1>1 DEF ArrayTypes
  <2>6. ArrayTypes'
    BY <2>1, <2>3, <2>4, <2>5, <1>0 DEF ArrayTypes
  <2> QED
    BY <2>3, <2>5, <2>6, <1>0
<1>7. NestTypes'
  BY <1>0, <1>1, <1>2, <1>5, <1>6 DEF NestTypes, MineTypes, Crew, Places
<1>8. Crew' = Crew /\ Places' = Places /\ ~Alone' /\ Buffer(t)' = b
  BY <1>1 DEF Crew, Places, Alone, Buffer
<1>9. \A c \in Places : NestOf(c)' = NestOf(c)
  BY <1>5 DEF NestOf
<1>10. ASSUME NEW u \in Crew
       PROVE  HasBuffer(u)' /\ SeesFlags(u)'
  <2>1. CASE u = t
    <3>1. HasBuffer(t)'
      BY <1>0, <1>1, <1>2, <1>8, <1>9 DEF HasBuffer, Holding, Calling
    <3>2. SeesFlags(t)'
      BY <1>2, <1>5, <1>8 DEF SeesFlags, Calling
    <3> QED
      BY <2>1, <3>1, <3>2
  <2>2. CASE u # t /\ Buffer(u) = b
    <3>1. at[u].step \notin Holding /\ at'[u] = at[u] /\ HasBuffer(u) /\ Buffer(u)' = Buffer(u) /\ mine' = mine
      BY <2>2, <1>1, <1>2, <1>4 DEF NestInv, Buffer
    <3> HIDE DEF b
    <3> QED
      BY <3>1 DEF HasBuffer, SeesFlags, Holding, Calling
  <2>3. CASE u # t /\ Buffer(u) # b
    <3>1. crew' = crew /\ mine'[u] = mine[u] /\ at'[u] = at[u] /\ Buffer(u) # b
      BY <2>3, <1>1, <1>2
    <3>2. \A v \in Crew : at'[v].step = "allocate" => at'[v] = at[v]
      BY <1>2
    <3> QED
      BY <3>1, <3>2, <1>5, OtherBuffers
  <2> QED
    BY <2>1, <2>2, <2>3
<1>11. ASSUME NEW c \in Places
       PROVE  HandsOn(c)'
  <2>1. \A u \in Crew : \A k \in Int : GotPast(u, k)' <=> GotPast(u, k)
    BY <1>2 DEF GotPast, Ending
  <2>2. CASE c = b
    <3>1. \A u \in Crew : /\ GotPast(u, NestOf(c))' /\ ~GotPast(u, NestOf(c) + NumBuffers)'
                          /\ EndsNest(u, c)' => u = t
      <4>1. \A u \in Crew : GotPast(u, NestOf(c)) /\ ~GotPast(u, NestOf(c) + NumBuffers) /\ (EndsNest(u, c) => u = t)
        BY <2>2, <1>0, <1>3, <1>4, LastInNest DEF HandsOn, EndsNest, Holding, Calling, Ending
      <4>2. (NestOf(c) + NumBuffers)' = NestOf(c) + NumBuffers /\ NestOf(c)' = NestOf(c)
        BY <1>9
      <4> QED
        BY <4>1, <4>2, <2>1, <1>0, <1>2 DEF EndsNest
    <3>2. EndsNest(t, c)' /\ ring'[c].num_done = 0
      BY <2>2, <1>2, <1>3, <1>5, <1>9 DEF EndsNest, Ending
    <3>3. CountsPast(c)'
      BY <3>1, <3>2, <1>8 DEF CountsPast
    <3> QED
      BY <3>1, <3>3, <2>2, <1>0, <1>5, <1>8 DEF HandsOn
  <2>3. CASE c # b
    <3>1. NestOf(c) # NestOf(b)
      BY <2>3, <1>0, PlacesOfNests
    <3>2. ~EndsNest(t, c) /\ ~EndsNest(t, c)'
      BY <3>1, <1>2, <1>3, <1>9 DEF EndsNest
    <3>3. \A u \in Crew : (EndsNest(u, c)' <=> EndsNest(u, c)) /\ (EndsNest(u, c) => at'[u].step = at[u].step)
      BY <3>2, <1>2, <1>9 DEF EndsNest
    <3>4. ring'[c] = ring[c] /\ HandsOn(c) /\ NestOf(c) \in Int /\ NestOf(c) + NumBuffers \in Int
      BY <2>3, <1>0, <1>5
    <3> HIDE DEF b
    <3> QED
      BY <3>3, <3>4, <2>1, <1>0, <1>1, HandsSame
  <2> QED
    BY <2>2, <2>3
<1>12. ASSUME NEW c \in Places
       PROVE  PointsRight(c)'
  <2>1. CASE c = b
    BY <2>1, <1>5 DEF PointsRight, NULL, InProgress
  <2>2. CASE c # b /\ ring'[c].flags > InProgress
    <3> DEFINE q == ring[c].flags - InProgress
    <3>1. ring'[c] = ring[c] /\ ArrayOf(q, NestOf(c)) /\ NestOf(c) # NestOf(b)
      BY <2>2, <1>0, <1>5, PlacesOfNests DEF PointsRight
    <3>2. q # p
      BY <3>1, <1>3 DEF ArrayOf
    <3> HIDE DEF q, p, b
    <3>3. ArrayOf(q, NestOf(c))'
      BY <3>1, <3>2, <1>1, <1>6, <1>9 DEF ArrayOf, q
    <3> QED
      BY <3>1, <3>3 DEF PointsRight, q
  <2> QED
    BY <2>1, <2>2 DEF PointsRight
<1>13. ASSUME NEW a \in DOMAIN arrays'
       PROVE  Reached(a)'
  <2>1. CASE a = p
    BY <2>1, <1>6 DEF Reached
  <2>2. CASE a # p
    <3>1. Reached(a) /\ arrays'[a] = arrays[a] /\ a \in Nat
      BY <2>2, <1>0, <1>6 DEF NestInv
    <3> SUFFICES ASSUME arrays[a].live
                 PROVE  \E c \in Places : ring'[c].flags = a + InProgress
      BY <3>1, <1>8 DEF Reached
    <3>2. PICK c \in Places : ring[c].flags = a + InProgress
      BY <3>1 DEF Reached
    <3>3. c # b
      BY <3>1, <3>2, <2>2 DEF InProgress
    <3> QED
      BY <3>2, <3>3, <1>5
  <2> QED
    BY <2>1, <2>2
<1> QED
  BY <1>7, <1>8, <1>10, <1>11, <1>12, <1>13 DEF NestInv

LEMMA RearmsKeeps ==
  ASSUME NestInv, DispatchAssumption, ~Alone, NEW t \in Crew, RearmBuffer(t)
  PROVE  NestInv'
<1>a. PICK b \in Places : b = Buffer(t)
  BY NestFacts DEF NestInv
<1>b. PICK n \in Nat : n = NestOf(b)
  BY NestFacts DEF NestInv
<1>0. /\ NestTypes /\ AtTypes /\ BufferTypes /\ HasBuffer(t) /\ SeesFlags(t)
      /\ (\A u \in Crew : at[u].nest \in Int) /\ NumBuffers \in Nat \ {0}
      /\ ring[b].buf_idx \in Nat /\ crew.nproc \in Nat \ {0}
      /\ \A c \in Places : NestOf(c) \in Int /\ NestOf(c) + NumBuffers \in Int /\ HandsOn(c) /\ PointsRight(c)
  <2>1. /\ NestTypes /\ AtTypes /\ BufferTypes /\ HasBuffer(t) /\ SeesFlags(t)
        /\ NumBuffers \in Nat \ {0} /\ crew.nproc \in Nat \ {0}
        /\ \A c \in Places : NestOf(c) \in Int /\ NestOf(c) + NumBuffers \in Int /\ HandsOn(c) /\ PointsRight(c)
    BY NestFacts DEF NestInv, NestTypes
  <2> QED
    BY <2>1 DEF AtTypes, BufferTypes
<1>1. /\ UNCHANGED <<crew, mine, arrays>> /\ Step(t, "rearm", "forget")
      /\ ring' = [ring EXCEPT ![b].buf_idx = @ + NumBuffers]
  BY <1>a DEF RearmBuffer
<1>2. /\ AtTypes' /\ at'[t].nest = at[t].nest /\ (\A u \in Crew : u # t => at'[u] = at[u])
      /\ at[t].step = "rearm" /\ at'[t].step = "forget"
  <2>1. "forget" \in NestSteps
    BY DEF NestSteps
  <2> QED
    BY <2>1, <1>0, <1>1, StepTypes
<1>3. EndsNest(t, b) /\ at[t].nest = n /\ ring[b].flags = NULL
  BY <1>0, <1>2, <1>a, <1>b DEF SeesFlags, HasBuffer, Holding, EndsNest, Ending
<1>4. /\ \A u \in Crew : GotPast(u, n) /\ (at[u].step \in Holding /\ Buffer(u) = b => u = t)
      /\ ring[b].num_done = 0
  <2>1. \A u \in Crew : GotPast(u, n) /\ (at[u].step \in Holding /\ Buffer(u) = b => u = t)
    BY <1>0, <1>3, <1>b, LastInNest
  <2>2. PICK u \in Crew : EndsNest(u, b) /\ (EndsNest(t, b) => t = u) /\ (at[u].step = "rearm" => ring[b].num_done = 0)
    BY <1>0, <1>3 DEF HandsOn, CountsPast
  <2> QED
    BY <2>1, <2>2, <1>2, <1>3
<1>5. /\ BufferTypes' /\ ring'[b].flags = NULL /\ ring'[b].num_done = 0
      /\ ring'[b].buf_idx = ring[b].buf_idx + NumBuffers
      /\ \A c \in Places : c # b => ring'[c] = ring[c]
  <2> DEFINE q == ring[b].buf_idx + NumBuffers
  <2>1. q \in Nat /\ ring' = [ring EXCEPT ![b].buf_idx = q]
    BY <1>0, <1>1
  <2> HIDE DEF q
  <2>2. /\ BufferTypes' /\ ring'[b].flags = ring[b].flags /\ ring'[b].num_done = ring[b].num_done
        /\ ring'[b].buf_idx = q /\ \A c \in Places : c # b => ring'[c] = ring[c]
    BY <2>1, <1>0 DEF BufferTypes, Places
  <2> QED
    BY <2>2, <1>3, <1>4 DEF q
<1>6. NestTypes'
  BY <1>0, <1>1, <1>2, <1>5 DEF NestTypes, ArrayTypes, MineTypes, Crew, Places
<1>7. /\ Crew' = Crew /\ Places' = Places /\ ~Alone' /\ \A u \in Crew : Buffer(u)' = Buffer(u)
  BY <1>1 DEF Crew, Places, Alone, Buffer
<1>8. NestOf(b)' = n + NumBuffers /\ \A c \in Places : c # b => NestOf(c)' = NestOf(c)
  BY <1>0, <1>5, <1>b DEF NestOf
<1>9. ASSUME NEW u \in Crew
      PROVE  HasBuffer(u)' /\ SeesFlags(u)'
  <2>1. CASE u = t \/ Buffer(u) = b
    <3>1. at'[u].step \notin Holding /\ at'[u].nest = at[u].nest /\ at[u].step # "outside"
            => HasBuffer(u)' /\ SeesFlags(u)'
      BY <1>1, <1>7 DEF NestInv, HasBuffer, SeesFlags, Holding, Calling
    <3>2. at'[u].step = "outside" => HasBuffer(u)' /\ SeesFlags(u)'
      BY <1>1, <1>2, <1>7 DEF NestInv, HasBuffer, SeesFlags, Holding, Calling
    <3>3. at'[u].step \notin Holding /\ at'[u].nest = at[u].nest
      BY <2>1, <1>2, <1>4 DEF Holding, Calling
    <3>4. at[u].step = "outside" => at'[u].step = "outside"
      BY <1>2
    <3> QED
      BY <3>1, <3>2, <3>3, <3>4
  <2>2. CASE u # t /\ Buffer(u) # b
    <3>1. crew' = crew /\ mine'[u] = mine[u] /\ at'[u] = at[u] /\ Buffer(u) # b
      BY <2>2, <1>1, <1>2
    <3>2. \A v \in Crew : at'[v].step = "allocate" => at'[v] = at[v]
      BY <1>2
    <3> QED
      BY <3>1, <3>2, <1>5, <1>a, OtherBuffers
  <2> QED
    BY <2>1, <2>2
<1>10. \A u \in Crew : \A k \in Int : GotPast(u, k)' <=> GotPast(u, k)
  BY <1>2 DEF GotPast, Ending
<1>11. HandsOn(b)'
  <2>1. /\ \A u \in Crew : ~GotPast(u, n + NumBuffers)
        /\ ring[b].buf_idx % NumBuffers = b
    BY <1>0, <1>b DEF HandsOn
  <2>2. ring'[b].buf_idx % NumBuffers = b
    <3>1. ring[b].buf_idx \in Int
      BY <1>0
    <3>2. (ring[b].buf_idx + NumBuffers) % NumBuffers = ring[b].buf_idx % NumBuffers
      BY <3>1, <1>0, ModAdd
    <3> QED
      BY <3>2, <2>1, <1>5
  <2>3. \A u \in Crew : ~GotPast(u, n + NumBuffers)' /\ ~GotPast(u, n + NumBuffers + NumBuffers)'
    <3> TAKE u \in Crew
    <3>1. at[u].nest <= n + NumBuffers
      BY <2>1, <1>0 DEF GotPast
    <3>2. ~GotPast(u, n + NumBuffers + NumBuffers)
      BY <3>1, <1>0 DEF GotPast
    <3> QED
      BY <3>2, <2>1, <1>0, <1>10
  <2>4. \A u \in Crew : ~EndsNest(u, b)'
    <3> SUFFICES ASSUME NEW u \in Crew, EndsNest(u, b)' PROVE FALSE
      OBVIOUS
    <3>1. u # t /\ at[u].step \in Ending /\ at[u].nest = n + NumBuffers
      BY <1>2, <1>8 DEF EndsNest, Ending
    <3> QED
      BY <3>1, <2>1 DEF GotPast
  <2>5. CountedPast(NestOf(b))' = {}
    BY <2>3, <1>7, <1>8 DEF CountedPast
  <2>6. CountsPast(b)'
    <3>1. Cardinality({}) = 0
      BY FS_EmptySet
    <3> QED
      BY <3>1, <2>4, <2>5, <1>0, <1>1, <1>5, <1>7 DEF CountsPast
  <2>7. \A u \in Crew : ~GotPast(u, NestOf(b) + NumBuffers)'
    BY <2>3, <1>8
  <2> QED
    BY <2>2, <2>6, <2>7, <1>7 DEF HandsOn
<1>12. ASSUME NEW c \in Places, c # b
       PROVE  HandsOn(c)'
  <2>1. NestOf(c) # n
    BY <1>12, <1>b, PlacesOfNests
  <2>2. \A u \in Crew : (EndsNest(u, c)' <=> EndsNest(u, c)) /\ (EndsNest(u, c) => at'[u].step = at[u].step)
    BY <2>1, <1>2, <1>3, <1>8, <1>12 DEF EndsNest, Ending
  <2>3. ring'[c] = ring[c] /\ HandsOn(c) /\ NestOf(c) \in Int /\ NestOf(c) + NumBuffers \in Int
    BY <1>0, <1>5, <1>12
  <2> QED
    BY <2>2, <2>3, <1>0, <1>1, <1>10, HandsSame
<1>13. ASSUME NEW c \in Places
       PROVE  PointsRight(c)'
  <2>1. CASE c = b
    BY <2>1, <1>5 DEF PointsRight, NULL, InProgress
  <2>2. CASE c # b
    BY <2>2, <1>0, <1>1, <1>5, <1>8 DEF PointsRight, ArrayOf
  <2> QED
    BY <2>1, <2>2
<1>14. ASSUME NEW a \in DOMAIN arrays'
       PROVE  Reached(a)'
  <2>1. \A c \in Places : ring'[c].flags = ring[c].flags
    BY <1>3, <1>5
  <2> QED
    BY <2>1, <1>1, <1>7 DEF NestInv, Reached
<1> QED
  BY <1>6, <1>7, <1>9, <1>11, <1>12, <1>13, <1>14 DEF NestInv

LEMMA CountsKeeps ==
  ASSUME NestInv, DispatchAssumption, ~Alone, NEW t \in Crew, CountFini(t)
  PROVE  NestInv'
<1>a. PICK b \in Places : b = Buffer(t)
  BY NestFacts DEF NestInv
<1>b. PICK n \in Nat : n = NestOf(b)
  BY NestFacts DEF NestInv
<1>0. /\ NestTypes /\ AtTypes /\ BufferTypes /\ HasBuffer(t) /\ SeesFlags(t)
      /\ (\A u \in Crew : at[u].nest \in Int) /\ NumBuffers \in Nat \ {0}
      /\ crew.nproc \in Nat \ {0} /\ Crew = 0..(crew.nproc - 1)
      /\ \A c \in Places : /\ HandsOn(c) /\ PointsRight(c)
                           /\ NestOf(c) \in Int /\ NestOf(c) + NumBuffers \in Int
                           /\ ring[c].buf_idx \in Nat /\ ring[c].num_done \in Nat
  <2>1. /\ NestTypes /\ AtTypes /\ BufferTypes /\ HasBuffer(t) /\ SeesFlags(t)
        /\ NumBuffers \in Nat \ {0} /\ crew.nproc \in Nat \ {0} /\ Crew = 0..(crew.nproc - 1)
        /\ \A c \in Places : NestOf(c) \in Int /\ NestOf(c) + NumBuffers \in Int /\ HandsOn(c) /\ PointsRight(c)
    BY NestFacts DEF NestInv, NestTypes
  <2>2. \A u \in Crew : at[u].nest \in Int
    BY <2>1 DEF AtTypes
  <2>3. \A c \in Places : ring[c].buf_idx \in Nat /\ ring[c].num_done \in Nat
    BY <2>1 DEF BufferTypes
  <2> QED
    BY <2>1, <2>2, <2>3
<1>1. PICK to \in {"free", "forget"} :
        /\ UNCHANGED <<crew, mine, arrays>> /\ Step(t, "iterate", to)
        /\ ring' = [ring EXCEPT ![b].num_done = @ + 1]
        /\ to = "free" <=> ring[b].num_done + 1 = crew.nproc
  <2>1. at[t].step # "outside" /\ mine[t].info = b
    BY <1>0, <1>a DEF CountFini, AllGiven, HasBuffer
  <2> QED
    BY <2>1 DEF CountFini
<1>2. /\ AtTypes' /\ at'[t].nest = at[t].nest /\ (\A u \in Crew : u # t => at'[u] = at[u])
      /\ at[t].step = "iterate" /\ at'[t].step = to
  <2>1. to \in NestSteps
    BY DEF NestSteps, Holding, Calling
  <2> QED
    BY <2>1, <1>0, <1>1, StepTypes
<1>3. at[t].nest = n /\ ring[b].flags > InProgress
  BY <1>0, <1>2, <1>a, <1>b DEF SeesFlags, HasBuffer, Holding, Calling
<1>4. /\ BufferTypes' /\ ring'[b].num_done = ring[b].num_done + 1
      /\ \A c \in Places : /\ ring'[c].buf_idx = ring[c].buf_idx /\ ring'[c].flags = ring[c].flags
                           /\ c # b => ring'[c] = ring[c]
  <2> DEFINE q == ring[b].num_done + 1
  <2>1. q \in Nat /\ ring' = [ring EXCEPT ![b].num_done = q]
    BY <1>0, <1>1, SMTT(30)
  <2> HIDE DEF q
  <2>2. /\ BufferTypes' /\ ring'[b].num_done = q
        /\ \A c \in Places : /\ ring'[c].buf_idx = ring[c].buf_idx /\ ring'[c].flags = ring[c].flags
                             /\ c # b => ring'[c] = ring[c]
    BY <2>1, <1>0 DEF BufferTypes, Places
  <2> QED
    BY <2>2 DEF q
<1>5. NestTypes'
  BY <1>0, <1>1, <1>2, <1>4 DEF NestTypes, ArrayTypes, MineTypes, Crew, Places
<1>6. /\ Crew' = Crew /\ Places' = Places /\ ~Alone' /\ \A u \in Crew : Buffer(u)' = Buffer(u)
  BY <1>1 DEF Crew, Places, Alone, Buffer
<1>7. \A c \in Places : NestOf(c)' = NestOf(c)
  BY <1>4 DEF NestOf
<1>8. \A u \in Crew : \A k \in Int : GotPast(u, k)' <=> GotPast(u, k) \/ (u = t /\ k = n)
  BY <1>0, <1>2, <1>3 DEF GotPast, Ending
<1>9. ASSUME NEW u \in Crew
      PROVE  HasBuffer(u)' /\ SeesFlags(u)'
  <2>1. /\ HasBuffer(u) /\ SeesFlags(u) /\ Buffer(u)' = Buffer(u) /\ Buffer(u) \in Places /\ mine'[u] = mine[u]
        /\ at'[u].nest = at[u].nest
    BY <1>0, <1>1, <1>2, <1>6, NestFacts DEF NestInv
  <2>2. NestOf(Buffer(u))' = NestOf(Buffer(u)) /\ ring'[Buffer(u)].flags = ring[Buffer(u)].flags
    BY <2>1, <1>4, <1>6, <1>7 DEF NestOf
  <2>3. CASE u = t
    BY <2>1, <2>2, <2>3, <1>2 DEF HasBuffer, SeesFlags, Holding, Calling
  <2>4. CASE u # t
    <3>1. at'[u] = at[u] /\ \A v \in Crew : at'[v].step = "allocate" => at'[v] = at[v]
      BY <2>4, <1>2
    <3>2. HasBuffer(u)'
      BY <2>1, <2>2, <3>1 DEF HasBuffer
    <3>3. SeesFlags(u)'
      BY <2>1, <2>2, <3>1, <1>6 DEF SeesFlags
    <3> QED
      BY <3>2, <3>3
  <2> QED
    BY <2>3, <2>4
<1>10. HandsOn(b)'
  <2>1. /\ HandsOn(b) /\ ~GotPast(t, n) /\ n + NumBuffers \in Int /\ n + NumBuffers # n
    BY <1>0, <1>2, <1>3 DEF GotPast, Ending
  <2>2. \A u \in Crew : ~EndsNest(u, b)
    BY <2>1, <1>0, <1>b, LastInNest
  <2>3. ring[b].num_done = Cardinality(CountedPast(n)) /\ ring[b].num_done < crew.nproc
    BY <2>1, <2>2, <1>b DEF HandsOn, CountsPast
  <2>4. CountedPast(n)' = CountedPast(n) \cup {t} /\ t \notin CountedPast(n)
    BY <2>1, <1>6, <1>8 DEF CountedPast
  <2>5. IsFiniteSet(Crew) /\ Cardinality(Crew) = crew.nproc
    <3> DEFINE m == crew.nproc - 1
    <3>1. m \in Int /\ Crew = 0..m /\ m + 1 = crew.nproc /\ ~(0 > m)
      BY <1>0
    <3> HIDE DEF m
    <3>2. IsFiniteSet(0..m) /\ Cardinality(0..m) = m + 1
      BY <3>1, FS_Interval
    <3> QED
      BY <3>1, <3>2
  <2>6. IsFiniteSet(CountedPast(n)) /\ Cardinality(CountedPast(n)') = ring[b].num_done + 1
    <3>1. CountedPast(n) \subseteq Crew
      BY DEF CountedPast
    <3>2. Cardinality(CountedPast(n) \cup {t}) = Cardinality(CountedPast(n)) + 1
      BY <2>4, <2>5, <3>1, OneMoreCounted
    <3> QED
      BY <2>3, <2>4, <2>5, <3>1, <3>2, FS_Subset
  <2>7. \A u \in Crew : EndsNest(u, b)' <=> u = t /\ to = "free"
    BY <2>2, <1>2, <1>3, <1>7, <1>b DEF EndsNest, Ending
  <2>8. \A u \in Crew : ~GotPast(u, NestOf(b) + NumBuffers)'
    <3>1. \A u \in Crew : ~GotPast(u, n + NumBuffers)
      BY <2>1, <1>b DEF HandsOn
    <3>2. \A u \in Crew : ~GotPast(u, n + NumBuffers)'
      BY <3>1, <2>1, <1>8
    <3>3. NestOf(b)' = n
      BY <1>7, <1>b
    <3> QED
      BY <3>2, <3>3
  <2>9. CountsPast(b)'
    <3>0. NestOf(b)' = n
      BY <1>7, <1>b
    <3>1. CASE to = "free"
      <4>1. CountedPast(n)' = Crew
        <5>1. CountedPast(n)' \subseteq Crew /\ Cardinality(CountedPast(n)') = crew.nproc
          BY <3>1, <2>4, <2>6, <1>1 DEF CountedPast
        <5> QED
          BY <5>1, <2>5, FS_Subset
      <4>2. \A u \in Crew : GotPast(u, n)'
        BY <4>1, <1>6 DEF CountedPast
      <4> QED
        BY <3>0, <3>1, <4>2, <2>7, <1>2, <1>6 DEF CountsPast
    <3>2. CASE to # "free"
      <4>1. ring'[b].num_done = Cardinality(CountedPast(n)')
        BY <2>6, <1>4
      <4>2. ring'[b].num_done < crew.nproc
        BY <2>3, <3>2, <1>0, <1>1, <1>4
      <4> QED
        BY <3>0, <3>2, <4>1, <4>2, <2>7, <1>1, <1>6 DEF CountsPast
    <3> QED
      BY <3>1, <3>2
  <2> QED
    BY <2>1, <2>8, <2>9, <1>4, <1>6 DEF HandsOn
<1>11. ASSUME NEW c \in Places, c # b
       PROVE  HandsOn(c)'
  <2>1. NestOf(c) # n
    BY <1>11, <1>b, PlacesOfNests
  <2>2. NestOf(c) + NumBuffers # n
    <3> SUFFICES ASSUME NestOf(c) + NumBuffers = n PROVE FALSE
      OBVIOUS
    <3>1. ring[b].buf_idx = ring[c].buf_idx + NumBuffers /\ ring[c].buf_idx \in Int
      <4> DEFINE x == ring[b].buf_idx
                 y == ring[c].buf_idx
      <4>1. x \in Int /\ y \in Int /\ NumBuffers \in Int
        BY <1>0
      <4>2. y + 1 + NumBuffers = n /\ x + 1 = n
        BY <1>b DEF NestOf
      <4> HIDE DEF x, y
      <4>3. x = y + NumBuffers
        BY <4>1, <4>2
      <4> QED
        BY <4>1, <4>3 DEF x, y
    <3>2. (ring[c].buf_idx + NumBuffers) % NumBuffers = ring[c].buf_idx % NumBuffers
      BY <3>1, <1>0, ModAdd
    <3>3. ring[b].buf_idx % NumBuffers = b /\ ring[c].buf_idx % NumBuffers = c
      BY <1>0 DEF HandsOn
    <3> QED
      BY <3>1, <3>2, <3>3, <1>11
  <2>3. \A u \in Crew : \A k \in {NestOf(c), NestOf(c) + NumBuffers} : GotPast(u, k)' <=> GotPast(u, k)
    BY <2>1, <2>2, <1>0, <1>8
  <2>4. \A u \in Crew : (EndsNest(u, c)' <=> EndsNest(u, c)) /\ (EndsNest(u, c) => at'[u].step = at[u].step)
    BY <2>1, <1>2, <1>3, <1>7, <1>11 DEF EndsNest, Ending
  <2>5. ring'[c] = ring[c] /\ HandsOn(c)
    BY <1>0, <1>4, <1>11
  <2> QED
    BY <2>3, <2>4, <2>5, <1>0, <1>1, HandsSame
<1>12. ASSUME NEW c \in Places
       PROVE  PointsRight(c)'
  <2> DEFINE f == ring[c].flags
             k == NestOf(c)
  <2>1. (f > InProgress => ArrayOf(f - InProgress, k)) /\ f' = f /\ k' = k /\ arrays' = arrays /\ crew' = crew
    BY <1>0, <1>1, <1>4, <1>7 DEF PointsRight
  <2> HIDE DEF f, k
  <2>2. (f > InProgress => ArrayOf(f - InProgress, k))'
    BY <2>1 DEF ArrayOf
  <2> QED
    BY <2>2 DEF f, k, PointsRight
<1>13. ASSUME NEW a \in DOMAIN arrays'
       PROVE  Reached(a)'
  BY <1>1, <1>4, <1>6 DEF NestInv, Reached
<1> QED
  BY <1>5, <1>6, <1>9, <1>10, <1>11, <1>12, <1>13 DEF NestInv

\* A team of one goes through its nests without buffers.
LEMMA AloneKeeps ==
  ASSUME NestInv, DispatchAssumption, Alone, NEW t \in Crew, RunNest(t)
  PROVE  NestInv'
<1>0. /\ NestTypes /\ AtTypes /\ MineTypes /\ arrays = <<>> /\ Crew = {0} /\ t = 0
      /\ at[t].step \in {"outside", "iterate", "wait"}
  <2>1. NestTypes /\ arrays = <<>> /\ Crew = {0} /\ t = 0 /\ at[t].step \in {"outside", "iterate", "wait"}
    BY DEF NestInv, Alone, Crew
  <2> QED
    BY <2>1 DEF NestTypes
<1>1. DoacrossInit(t) \/ TakeIteration(t) \/ WaitSink(t) \/ Post(t) \/ SerialFini(t)
  BY <1>0 DEF RunNest, AwaitDoacross, ClaimFlags, AllocateFlags, SpinForFlags, KeepFlags, CountFini,
              FreeFlags, RearmBuffer, ForgetInfo, Step
<1>2. UNCHANGED <<crew, ring, arrays, mine>> /\ Crew' = Crew
  BY <1>1 DEF DoacrossInit, TakeIteration, WaitSink, Post, SerialFini, Alone, Crew
<1>3. AtTypes' /\ at'[t].step \in {"outside", "iterate", "wait"}
  <2>0. {"outside", "iterate", "wait"} \subseteq NestSteps
    BY DEF NestSteps, Holding, Calling
  <2>1. CASE DoacrossInit(t)
    <3>1. /\ at[t].nest < Len(crew.nests) /\ at[t].nest \in 0..Len(crew.nests) /\ Len(crew.nests) \in Nat
          /\ at' = [at EXCEPT ![t].nest = @ + 1, ![t].step = "iterate"]
      BY <2>1, <1>0, NestFacts DEF DoacrossInit, AtTypes
    <3> QED
      BY <3>1, <2>0, <1>0, <1>2 DEF AtTypes
  <2>2. CASE TakeIteration(t)
    <3> DEFINE g == given[at[t].nest]
               s == Nest(t).sinks
    <3>1. at' = [at EXCEPT ![t].step = "wait", ![t].iteration = g, ![t].sinks = s]
      BY <2>2 DEF TakeIteration
    <3> HIDE DEF g, s
    <3> QED
      BY <3>1, <2>0, <1>0, <1>2 DEF AtTypes
  <2>3. CASE WaitSink(t)
    <3> DEFINE s == Tail(at[t].sinks)
    <3>1. at' = [at EXCEPT ![t].sinks = s]
      BY <2>3 DEF WaitSink
    <3> HIDE DEF s
    <3> QED
      BY <3>1, <1>0, <1>2 DEF AtTypes
  <2>4. CASE Post(t)
    <3>1. Step(t, "wait", "iterate")
      BY <2>4 DEF Post
    <3> QED
      BY <3>1, <2>0, <1>0, <1>2, StepTypes
  <2>5. CASE SerialFini(t)
    <3>1. Step(t, "iterate", "outside")
      BY <2>5 DEF SerialFini
    <3> QED
      BY <3>1, <2>0, <1>0, <1>2, StepTypes
  <2> QED
    BY <1>1, <2>1, <2>2, <2>3, <2>4, <2>5
<1>4. NestTypes'
  BY <1>0, <1>2, <1>3 DEF NestTypes, BufferTypes, ArrayTypes, MineTypes, Places
<1> QED
  BY <1>0, <1>2, <1>3, <1>4 DEF NestInv, Alone

LEMMA RunNestsKeeps ==
  ASSUME NestInv, DispatchAssumption, RunNests
  PROVE  NestInv'
<1>1. PICK t \in Crew : RunNest(t)
  BY DEF RunNests
<1>2. CASE Alone
  BY <1>1, <1>2, AloneKeeps
<1>3. CASE ~Alone
  <2>1. ~SerialFini(t)
    BY <1>3 DEF SerialFini
  <2>2. CASE DoacrossInit(t) \/ AwaitDoacross(t) \/ SpinForFlags(t) \/ KeepFlags(t) \/ ForgetInfo(t)
    BY <2>2, <1>3, StartsNestKeeps, WaitsForFlagsKeeps, KeepsFlagsKeeps, ForgetsKeeps
  <2>3. CASE TakeIteration(t) \/ WaitSink(t) \/ Post(t)
    BY <2>3, <1>3, IteratesKeeps
  <2>4. CASE ClaimFlags(t) \/ AllocateFlags(t) \/ CountFini(t) \/ FreeFlags(t) \/ RearmBuffer(t)
    BY <2>4, <1>3, ClaimsKeeps, AllocatesKeeps, CountsKeeps, FreesKeeps, RearmsKeeps
  <2> QED
    BY <1>1, <2>1, <2>2, <2>3, <2>4 DEF RunNest
<1> QED
  BY <1>2, <1>3

LEMMA NestsBegin ==
  ASSUME DispatchAssumption, NEW teams \in SUBSET NestTeam, DoacrossInitially(teams)
  PROVE  NestInv
<1>1. /\ crew \in NestTeam /\ arrays = <<>>
      /\ \A t \in Crew : /\ at[t].step = "outside" /\ at[t].nest = 0 /\ mine[t].idx = 0
                         /\ DOMAIN at[t] = {"step", "nest", "iteration", "sinks"}
      /\ \A b \in Places : ring[b].buf_idx = b /\ ring[b].flags = NULL /\ ring[b].num_done = 0
      /\ DOMAIN at = Crew
  BY DEF DoacrossInitially
<1>2. NestTypes
  <2>1. BufferTypes /\ MineTypes
    BY DEF DoacrossInitially, BufferTypes, MineTypes, NULL, Places, DispatchAssumption
  <2>2. ArrayTypes
    <3>1. Len(arrays) = 0 /\ DOMAIN arrays = {} /\ arrays = [a \in 1..0 |-> arrays[a]]
      BY <1>1
    <3> QED
      BY <3>1 DEF ArrayTypes
  <2>3. AtTypes
    <3>1. Len(crew.nests) \in Nat
      BY <1>1 DEF NestTeam
    <3> QED
      BY <3>1, <1>1 DEF AtTypes, NestSteps
  <2> QED
    BY <2>1, <2>2, <2>3, <1>1 DEF NestTypes
<1>3. /\ NumBuffers \in Nat \ {0} /\ Places = 0..(NumBuffers - 1) /\ crew.nproc \in Nat \ {0}
      /\ \A b \in Places : NestOf(b) = b + 1
  BY <1>1, <1>2, NestFacts DEF NestOf
<1>4. ASSUME NEW t \in Crew
      PROVE  HasBuffer(t) /\ SeesFlags(t)
  BY <1>1 DEF HasBuffer, SeesFlags, Holding, Calling
<1>5. ASSUME NEW b \in Places
      PROVE  HandsOn(b) /\ PointsRight(b)
  <2>1. b % NumBuffers = b
    BY <1>3, SmallMod
  <2>2. \A t \in Crew : ~EndsNest(t, b) /\ ~GotPast(t, NestOf(b)) /\ ~GotPast(t, NestOf(b) + NumBuffers)
    BY <1>1, <1>3 DEF EndsNest, GotPast, Ending
  <2>3. Cardinality(CountedPast(NestOf(b))) = 0
    <3>1. CountedPast(NestOf(b)) = {}
      BY <2>2 DEF CountedPast
    <3> QED
      BY <3>1, FS_EmptySet
  <2> QED
    BY <2>1, <2>2, <2>3, <1>1, <1>3 DEF HandsOn, CountsPast, PointsRight, NULL, InProgress
<1>6. \A a \in DOMAIN arrays : FALSE
  BY <1>1
<1> QED
  BY <1>1, <1>2, <1>4, <1>5, <1>6 DEF NestInv

LEMMA NestsStay ==
  ASSUME NestInv, UNCHANGED doacrossVars
  PROVE  NestInv'
<1>1. UNCHANGED <<crew, ring, arrays, mine, at>>
  BY DEF doacrossVars
<1> USE <1>1
<1>2. Crew' = Crew /\ Places' = Places /\ (Alone' <=> Alone)
  BY DEF Crew, Places, Alone
<1>3. NestTypes'
  BY <1>2 DEF NestInv, NestTypes, BufferTypes, ArrayTypes, MineTypes, AtTypes
<1>4. \A t \in Crew : (HasBuffer(t)' <=> HasBuffer(t)) /\ (SeesFlags(t)' <=> SeesFlags(t))
  BY <1>2 DEF HasBuffer, SeesFlags, Buffer, NestOf
<1>5. \A b \in Places : (HandsOn(b)' <=> HandsOn(b)) /\ (PointsRight(b)' <=> PointsRight(b))
  BY <1>2 DEF HandsOn, CountsPast, CountedPast, EndsNest, GotPast, NestOf, PointsRight, ArrayOf
<1>6. \A a \in DOMAIN arrays : Reached(a)' <=> Reached(a)
  BY <1>2 DEF Reached
<1> QED
  BY <1>2, <1>3, <1>4, <1>5, <1>6 DEF NestInv


-----------------------------------------------------------------------------
(* Whatever a thread works on in a loop is there and is of that loop: its shared buffer  *)
(* of the ring, the locks for stealing, and the flags of a nest with dependences, which  *)
(* are freed once all are through (__kmp_dispatch_init, __kmp_dispatch_next with         *)
(* __kmp_dispatch_finish, __kmpc_doacross_init and _fini): for teams of any size,        *)
(* rings with any number of buffers, all loops and schedules, and all nests.             *)
THEOREM LoopShared ==
  ASSUME \A r \in Regions : r.loops # <<>> => Apart(r)
  PROVE  LoopSpec => []SharedThere
<1>1. LoopInit => RingInv /\ NestInv
  <2> SUFFICES ASSUME LoopInit PROVE RingInv /\ NestInv
    OBVIOUS
  <2>1. NoRegion \in [nproc : Nat \ {0}, loops : Seq(Loop)] /\ NoRegion.loops = <<>>
    BY DEF NoRegion
  <2>2. \E regions : InitWith(regions) /\ regions \in {Regions, {NoRegion}}
    BY DEF LoopInit, NoDispatch, Init
  <2>3. RingInv
    BY <2>1, <2>2, RingStarts, DispatchAssumption DEF DispatchAssumption
  <2>4. NoNest \in NestTeam
    BY DEF NoNest, NestTeam
  <2>5. \E teams : DoacrossInitially(teams) /\ teams \in {Nests, {NoNest}}
    BY DEF LoopInit, NoDoacross
  <2>6. NestInv
    BY <2>4, <2>5, NestsBegin, DispatchAssumption, DoacrossAssumption
  <2> QED
    BY <2>3, <2>6
<1>2. RingInv /\ [LoopNext]_loopVars => RingInv'
  <2> SUFFICES ASSUME RingInv, [LoopNext]_loopVars PROVE RingInv'
    OBVIOUS
  <2>1. (\E t \in Threads : Run(t)) \/ UNCHANGED dispatchVars
    BY DEF LoopNext, Running, loopVars
  <2> QED
    BY <2>1, RunKeeps, RingStays, DispatchAssumption
<1>3. NestInv /\ [LoopNext]_loopVars => NestInv'
  <2> SUFFICES ASSUME NestInv, [LoopNext]_loopVars PROVE NestInv'
    OBVIOUS
  <2>1. RunNests \/ UNCHANGED doacrossVars
    BY DEF LoopNext, Running, loopVars
  <2> QED
    BY <2>1, RunNestsKeeps, NestsStay, DispatchAssumption
<1>4. RingInv /\ NestInv => SharedThere
  BY InBuffersHolds, FlagsAreThere, DispatchAssumption DEF SharedThere
<1> QED
  BY <1>1, <1>2, <1>3, <1>4, PTL DEF LoopSpec
=============================================================================
