----------------------------- MODULE MCUserLock -----------------------------
(***************************************************************************)
(* The instance of UserLock to check, with the uses of critical sections   *)
(* whose hint and default lock match, and those that do not.               *)
(***************************************************************************)
EXTENDS UserLock

SameKind == {<<"queuing", "queuing">>, <<"tas", "tas">>, <<"futex", "futex">>, <<"futex", "tas">>}

\* The proofs about leaving a critical section speak of these.
ASSUME UsesMatch == \A u \in SameKind : Matching(u)

\* A hint that asks for the other kind of lock.
OtherKind == {<<"queuing", "tas">>, <<"tas", "queuing">>, <<"futex", "queuing">>}
=============================================================================
