---- MODULE AtomicMemory ----
(***************************************************************************)
(* What "#pragma omp atomic" promises of one location: every call takes    *)
(* effect at one moment between its start and its return, on the value     *)
(* the location has at that moment, and what it captures is that value or  *)
(* the one it makes of it.  Every call returns.                            *)
(***************************************************************************)
EXTENDS Integers

CONSTANTS
    Threads,    \* who calls
    Calls,      \* records with the fields op, rhs and capture
    M,          \* the values are those of integers modulo M
    NoValue     \* what a call that captures nothing returns

VARIABLES
    x,          \* the value of the location
    status,     \* Threads -> "idle", "pending", "performed"
    call,       \* Threads -> the call in progress
    ret         \* Threads -> what the call that was performed captured

vars == <<x, status, call, ret>>

NoCall == CHOOSE c \in Calls : TRUE

\* The value the location gets: "rev" is the reversed operation, rhs - x,
\* that does not commute.
Apply(c, v) ==
    CASE c.op = "add" -> (v + c.rhs) % M
      [] c.op = "rev" -> (c.rhs - v) % M
      [] c.op = "max" -> IF v < c.rhs THEN c.rhs ELSE v
      [] c.op = "min" -> IF v > c.rhs THEN c.rhs ELSE v
      [] c.op \in {"wr", "swp"} -> c.rhs
      [] c.op = "rd" -> v

Captured(c, v) ==
    CASE c.capture = "none" -> NoValue
      [] c.capture = "old"  -> v
      [] c.capture = "new"  -> Apply(c, v)

Init ==
    /\ x = 0
    /\ status = [t \in Threads |-> "idle"]
    /\ call = [t \in Threads |-> NoCall]
    /\ ret = [t \in Threads |-> NoValue]

Start(t, c) ==
    /\ status[t] = "idle"
    /\ status' = [status EXCEPT ![t] = "pending"]
    /\ call' = [call EXCEPT ![t] = c]
    /\ UNCHANGED <<x, ret>>

Perform(t) ==
    /\ status[t] = "pending"
    /\ x' = Apply(call[t], x)
    /\ ret' = [ret EXCEPT ![t] = Captured(call[t], x)]
    /\ status' = [status EXCEPT ![t] = "performed"]
    /\ UNCHANGED call

Return(t) ==
    /\ status[t] = "performed"
    /\ status' = [status EXCEPT ![t] = "idle"]
    /\ ret' = [ret EXCEPT ![t] = NoValue]
    /\ call' = [call EXCEPT ![t] = NoCall]
    /\ UNCHANGED x

Next == \E t \in Threads : Perform(t) \/ Return(t) \/ \E c \in Calls : Start(t, c)

Spec == /\ Init /\ [][Next]_vars
        /\ \A t \in Threads : WF_vars(Perform(t)) /\ WF_vars(Return(t))
====
