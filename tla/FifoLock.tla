------------------------------ MODULE FifoLock ------------------------------
(***************************************************************************)
(* What the ticket, queuing and drdpa locks of libomp promise beyond       *)
(* MutexLock: waiters are served in the order in which they joined, and a  *)
(* test never overtakes a waiter.                                          *)
(***************************************************************************)
EXTENDS Naturals, Sequences

CONSTANTS Threads, NoThread, Nestable, MaxLevel   \* as in MutexLock

VARIABLES holder, level,   \* as in MutexLock
          queue            \* the threads that wait, first served first

vars == <<holder, level, queue>>

Queued == {queue[i] : i \in DOMAIN queue}

Init == /\ holder = NoThread
        /\ level = 0
        /\ queue = <<>>

\* A thread that must wait takes its place at the end of the queue.
Join(t) == /\ t \notin Queued
           /\ holder # t
           /\ queue' = Append(queue, t)
           /\ UNCHANGED <<holder, level>>

\* A free lock goes to the first waiter.
Grant == /\ holder = NoThread
         /\ queue # <<>>
         /\ holder' = Head(queue)
         /\ queue' = Tail(queue)
         /\ level' = 1

\* A free lock nobody waits for can be taken without joining the queue.
Grab(t) == /\ holder = NoThread
           /\ queue = <<>>
           /\ holder' = t
           /\ level' = 1
           /\ UNCHANGED queue

\* The holder of a nestable lock sets it again, or takes one set back.
Reenter(t) == /\ Nestable
              /\ holder = t
              /\ level < MaxLevel
              /\ level' = level + 1
              /\ UNCHANGED <<holder, queue>>

Leave(t) == /\ Nestable
            /\ holder = t
            /\ level > 1
            /\ level' = level - 1
            /\ UNCHANGED <<holder, queue>>

Release(t) == /\ holder = t
              /\ level = 1
              /\ holder' = NoThread
              /\ level' = 0
              /\ UNCHANGED queue

Next == \/ Grant
        \/ \E t \in Threads : Join(t) \/ Grab(t) \/ Reenter(t) \/ Leave(t) \/ Release(t)

\* A free lock does not stay free while somebody waits for it.
Stalled == holder = NoThread /\ queue # <<>>
Granted == Stalled ~> ~Stalled

Safety == Init /\ [][Next]_vars
Spec == Safety /\ Granted

=============================================================================
