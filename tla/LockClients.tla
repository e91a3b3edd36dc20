----------------------------- MODULE LockClients -----------------------------
(***************************************************************************)
(* The program that uses an OpenMP lock of libomp: its threads, and how    *)
(* far its calls go.  A thread is named by gtid + 1, as in the owner_id,   *)
(* poll, head_id and tail_id of the locks, where 0 is no thread.           *)
(***************************************************************************)
EXTENDS Integers, FiniteSets

CONSTANTS Threads,     \* gtid + 1 of the threads that share the lock
          NoThread,    \* owner_id = 0
          Nestable,    \* an omp_nest_lock_t rather than an omp_lock_t
          MaxTicket,   \* bound: tickets handed out between init and destroy
          MaxLevel     \* bound: nest level a client goes to

ASSUME ClientAssumption == /\ Threads \subseteq Nat \ {0}
                           /\ NoThread \notin Threads
                           /\ Nestable \in BOOLEAN
                           /\ MaxTicket \in Nat
                           /\ MaxLevel \in Nat \ {0}
=============================================================================
