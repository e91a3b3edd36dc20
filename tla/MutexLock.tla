------------------------------ MODULE MutexLock ------------------------------
(***************************************************************************)
(* What every lock of libomp promises to a caller of omp_set_lock,         *)
(* omp_test_lock and omp_unset_lock (and of the _nest_ variants): one      *)
(* holder at a time, and a nest level that only the holder moves.  Waiters *)
(* are served in any order.                                                *)
(***************************************************************************)
EXTENDS Naturals

CONSTANTS Threads,    \* the threads that use the lock
          NoThread,   \* not a thread: nobody holds the lock
          Nestable,   \* TRUE for an omp_nest_lock_t
          MaxLevel    \* bound: nest level a client goes to

VARIABLES holder,     \* the thread that holds the lock, or NoThread
          level,      \* how many times the holder has set it
          waiting     \* the threads inside omp_set_lock

vars == <<holder, level, waiting>>

Init == /\ holder = NoThread
        /\ level = 0
        /\ waiting = {}

Join(t) == /\ holder # t
           /\ t \notin waiting
           /\ waiting' = waiting \cup {t}
           /\ UNCHANGED <<holder, level>>

Grant(t) == /\ holder = NoThread
            /\ t \in waiting
            /\ holder' = t
            /\ level' = 1
            /\ waiting' = waiting \ {t}

\* A successful test.
Grab(t) == /\ holder = NoThread
           /\ t \notin waiting
           /\ holder' = t
           /\ level' = 1
           /\ UNCHANGED waiting

Reenter(t) == /\ Nestable
              /\ holder = t
              /\ level < MaxLevel
              /\ level' = level + 1
              /\ UNCHANGED <<holder, waiting>>

Leave(t) == /\ Nestable
            /\ holder = t
            /\ level > 1
            /\ level' = level - 1
            /\ UNCHANGED <<holder, waiting>>

Release(t) == /\ holder = t
              /\ level = 1
              /\ holder' = NoThread
              /\ level' = 0
              /\ UNCHANGED waiting

Next == \E t \in Threads : \/ Join(t) \/ Grant(t) \/ Grab(t)
                           \/ Reenter(t) \/ Leave(t) \/ Release(t)

\* A free lock does not stay free while somebody waits for it.
Stalled == holder = NoThread /\ waiting # {}
Granted == Stalled ~> ~Stalled

Safety == Init /\ [][Next]_vars
Spec == Safety /\ Granted

=============================================================================
