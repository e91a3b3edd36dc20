---- MODULE Atomics ----
(***************************************************************************)
(* The entry points for atomic constructs (kmp_atomic.cpp), as built for   *)
(* x86_64 Linux, on one location.  Some five hundred entry points are made *)
(* from a few macros; which macro an entry is made from depends on the     *)
(* type of the location and on the operation, and it is that choice that   *)
(* decides whether two calls exclude each other:                           *)
(*   "fetch"     one locked instruction (add and exchange)                 *)
(*   "cas"       read, compute, compare and exchange, try again            *)
(*   "critical"  a queuing lock per type, or, in the mode for GNU          *)
(*               compatibility, one lock for all                           *)
(* The locks are those of QueuingLock; here they only exclude.  A location *)
(* that is not one machine word is written in two parts.                   *)
(***************************************************************************)
EXTENDS Integers

CONSTANTS
    Threads,
    Calls,        \* what may be called: records op, rhs, capture, via
    Classes,      \* the kinds of location tried
    Modes,        \* the values of __kmp_atomic_mode tried
    Allowed(_, _, _), \* whether a program may use a call on a class in a mode
    M,            \* values are integers modulo M, M even: two parts
    MaxCalls,     \* bound: calls of a thread
    NoValue, NoThread

ASSUME AtomicsAssumption ==
    /\ M \in Nat \ {0} /\ M % 2 = 0
    /\ MaxCalls \in Nat
    /\ Classes \subseteq {"int", "real", "cmplx4", "extended", "quad"}
    /\ Modes \subseteq {1, 2}
    /\ NoThread \notin Threads

VARIABLES
    class,        \* "int": fixed4, fixed8; "real": fixed1, fixed2, float4,
                  \* float8; "cmplx4"; "extended": float10, cmplx8 and up;
                  \* "quad": float16
    mode,         \* __kmp_atomic_mode
    x,            \* *lhs
    holder,       \* the atomic locks -> who holds each
    pc,
    call,
    old,          \* old_value of the thread
    ret,          \* what the call returns
    calls         \* calls made, for the bound

vars == <<class, mode, x, holder, pc, call, old, ret, calls>>

Values == 0 .. M - 1
NoCall == CHOOSE c \in Calls : TRUE
Locks == {"lock0", "typed", "sized"}
----
\* "if (*lhs OP rhs)": whether a minimum or maximum has anything to do.
Needed(c, v) ==
    CASE c.op = "max" -> v < c.rhs
      [] c.op = "min" -> v > c.rhs
      [] OTHER -> TRUE

\* The entries that end in _rev: expr binop x.
Reversed(c, v) == (c.rhs - v) % M

\* The value to be stored, when one is needed; "swp" and the writes store rhs.
Apply(c, v) ==
    CASE c.op = "add" -> (v + c.rhs) % M
      [] c.op = "rev" -> Reversed(c, v)
      [] c.op = "rd"  -> v
      [] OTHER        -> c.rhs

Captured(c, v) ==
    CASE c.capture = "none" -> NoValue
      [] c.capture = "old"  -> v
      [] c.capture = "new"  -> Apply(c, v)

\* The entries for a complex of two floats differ: updates go by compare and
\* exchange (the workaround of USE_CMPXCHG_FIX) unless the mode is GNU's,
\* those with a wider right hand side and __kmpc_atomic_8 always, the
\* reversed, capturing, reading and writing ones never.
Cmplx4LockFree(c) ==
    \/ c.via \in {"wider", "sized"}
    \/ c.op = "add" /\ c.capture = "none" /\ mode # 2

\* Whether an entry point works without a lock; those for words do, whatever
\* the operation.  Code of GNU compilers brackets an update of its own with
\* GOMP_atomic_start and GOMP_atomic_end.
LockFree(c) ==
    /\ c.via # "gomp"
    /\ class \in {"int", "real"} \/ (class = "cmplx4" /\ Cmplx4LockFree(c))

\* One locked instruction.
Fetched(c) ==
    /\ LockFree(c)
    /\ \/ class \in {"int", "real"} /\ c.op \in {"wr", "swp"}
       \/ class = "int" /\ (c.op = "rd" \/ (c.op = "add" /\ c.via = "typed"))

\* Mutant of LockOf: the mode for GNU compatibility forgotten.
LockByType(c) == IF c.via = "gomp" THEN "lock0" ELSE "typed"

\* The lock of an entry that takes one: __kmpc_atomic_16 takes the lock of
\* the complex type of that size for whatever has 16 bytes.
LockOf(c) ==
    IF c.via = "gomp" \/ mode = 2 THEN "lock0"
    ELSE IF class = "quad" /\ c.via = "sized" THEN "sized" ELSE "typed"

\* Storing a value that is not a word: first one part, then the other.
HalfStored(new, v) == ((new \div 2) * 2) + (v % 2)
----
Init ==
    /\ class \in Classes
    /\ mode \in Modes
    /\ x = 0
    /\ holder = [l \in Locks |-> NoThread]
    /\ pc = [t \in Threads |-> "idle"]
    /\ call = [t \in Threads |-> NoCall]
    /\ old = [t \in Threads |-> 0]
    /\ ret = [t \in Threads |-> NoValue]
    /\ calls = [t \in Threads |-> 0]

Goes(t, to) == pc' = [pc EXCEPT ![t] = to]

\* A thread calls an entry point.
Start(t, c) ==
    /\ pc[t] = "idle" /\ calls[t] < MaxCalls
    /\ Allowed(class, mode, c)
    /\ call' = [call EXCEPT ![t] = c]
    /\ calls' = [calls EXCEPT ![t] = @ + 1]
    /\ Goes(t, "enter")
    /\ UNCHANGED <<class, mode, x, holder, old, ret>>

\* The call is over for the location: what it captured is on its way out.
Performed(t, v) ==
    /\ ret' = [ret EXCEPT ![t] = v]
    /\ UNCHANGED <<class, mode, holder, call, old, calls>>

\* KMP_TEST_THEN_ADD, KMP_XCHG.
Fetch(t) ==
    /\ pc[t] = "enter" /\ Fetched(call[t])
    /\ x' = Apply(call[t], x)
    /\ Goes(t, "return")
    /\ Performed(t, Captured(call[t], x))

\* A minimum or maximum looks first, without a lock: nothing to do, and
\* nothing captured; or, a captured value is read once more ("return *lhs").
Enter(t) ==
    /\ pc[t] = "enter" /\ ~ Fetched(call[t])
    /\ IF Needed(call[t], x)
       THEN /\ Goes(t, IF LockFree(call[t]) THEN "read" ELSE "lock")
       ELSE Goes(t, IF call[t].capture = "none" THEN "return" ELSE "again")
    /\ UNCHANGED <<class, mode, x, holder, call, old, ret, calls>>

ReadAgain(t) ==
    /\ pc[t] = "again"
    /\ Goes(t, "return")
    /\ UNCHANGED x
    /\ Performed(t, x)

\* Read the old value of a compare and exchange loop.  The loop of a minimum
\* or maximum ends when there is nothing left to do, and captures rhs all
\* the same.
Read(t) ==
    /\ pc[t] = "read"
    /\ UNCHANGED x
    /\ IF Needed(call[t], x)
       THEN /\ old' = [old EXCEPT ![t] = x]
            /\ Goes(t, "exchange")
            /\ UNCHANGED <<class, mode, holder, call, ret, calls>>
       ELSE /\ Goes(t, "return")
            /\ Performed(t, CASE call[t].capture = "none" -> NoValue
                              [] call[t].capture = "new"  -> call[t].rhs
                              [] call[t].capture = "old"  -> x)

\* Mutant of Exchange: the value read is taken to be there still.
StoreBlindly(t) ==
    /\ pc[t] = "exchange"
    /\ x' = Apply(call[t], old[t])
    /\ Goes(t, "return")
    /\ Performed(t, Captured(call[t], old[t]))

\* KMP_COMPARE_AND_STORE.  The one of a read returns what it finds.
Exchange(t) ==
    /\ pc[t] = "exchange"
    /\ IF x = old[t] \/ call[t].op = "rd"
       THEN /\ x' = Apply(call[t], x)
            /\ Goes(t, "return")
            /\ Performed(t, Captured(call[t], x))
       ELSE /\ Goes(t, "read")
            /\ UNCHANGED <<class, mode, x, holder, call, old, ret, calls>>

\* __kmp_acquire_atomic_lock.
Acquire(t) ==
    /\ pc[t] = "lock"
    /\ holder[LockOf(call[t])] = NoThread
    /\ holder' = [holder EXCEPT ![LockOf(call[t])] = t]
    /\ Goes(t, "locked")
    /\ UNCHANGED <<class, mode, x, call, old, ret, calls>>

\* Under the lock: read the value and store the first part of the new one.
\* A minimum or maximum that is no longer needed captures whatever is in its
\* uninitialised new_value.
Update(t) ==
    /\ pc[t] = "locked"
    /\ IF call[t].op = "rd" \/ ~ Needed(call[t], x)
       THEN /\ UNCHANGED x
            /\ Goes(t, "unlock")
            /\ \E v \in IF Needed(call[t], x) THEN {x}
                        ELSE IF call[t].capture = "none" THEN {NoValue}
                        ELSE Values : Performed(t, v)
       ELSE /\ old' = [old EXCEPT ![t] = x]
            /\ x' = HalfStored(Apply(call[t], x), x)
            /\ Goes(t, "half")
            /\ UNCHANGED <<class, mode, holder, call, ret, calls>>

UpdateRest(t) ==
    /\ pc[t] = "half"
    /\ LET new == Apply(call[t], old[t])
       IN  x' = HalfStored(x, new)
    /\ Goes(t, "unlock")
    /\ Performed(t, Captured(call[t], old[t]))

Release(t) ==
    /\ pc[t] = "unlock"
    /\ holder' = [holder EXCEPT ![LockOf(call[t])] = NoThread]
    /\ Goes(t, "return")
    /\ UNCHANGED <<class, mode, x, call, old, ret, calls>>

Return(t) ==
    /\ pc[t] = "return"
    /\ ret' = [ret EXCEPT ![t] = NoValue]
    /\ old' = [old EXCEPT ![t] = 0]
    /\ call' = [call EXCEPT ![t] = NoCall]
    /\ Goes(t, "idle")
    /\ UNCHANGED <<class, mode, x, holder, calls>>

Step(t) ==
    \/ Fetch(t) \/ Enter(t) \/ ReadAgain(t) \/ Read(t) \/ Exchange(t)
    \/ Acquire(t) \/ Update(t) \/ UpdateRest(t) \/ Release(t) \/ Return(t)

Next == \E t \in Threads : Step(t) \/ \E c \in Calls : Start(t, c)

\* A thread inside an entry point goes on; it need not make another call.
Spec == Init /\ [][Next]_vars /\ \A t \in Threads : WF_vars(Step(t))
----
\* A value half stored is still the old one for everybody else.
AtomicX ==
    IF \E t \in Threads : pc[t] = "half"
    THEN old[CHOOSE t \in Threads : pc[t] = "half"] ELSE x

AtomicStatus ==
    [t \in Threads |-> CASE pc[t] = "idle" -> "idle"
                         [] pc[t] \in {"unlock", "return"} -> "performed"
                         [] OTHER -> "pending"]

Memory == INSTANCE AtomicMemory WITH x <- AtomicX, status <- AtomicStatus

\* Every atomic construct takes effect in one piece on the value of the
\* moment, captures what it did, and returns (the entry points of
\* kmp_atomic.cpp, whichever of them work on the location together, as long
\* as the program keeps to the calls Allowed).
ImplementsMemory == Memory!Spec
====
