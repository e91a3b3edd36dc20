---- MODULE MCAtomics ----
(* Three threads on one location of every class in both modes.             *)
EXTENDS Atomics

Typed(op, rhs, capture) == [op |-> op, rhs |-> rhs, capture |-> capture, via |-> "typed"]

MCCalls ==
    {Typed("add", 1, "none"), Typed("add", 3, "new"), Typed("rev", 1, "old"),
     Typed("max", 2, "none"), Typed("min", 1, "none"), Typed("max", 3, "old"),
     Typed("swp", 2, "old"), Typed("rd", 0, "old")}
    \cup {[op |-> "add", rhs |-> 1, capture |-> "none", via |-> v] :
              v \in {"wider", "sized", "gomp"}}

\* What works together.  The mode makes no difference to words, and neither
\* does a wider right hand side except for a complex of two floats.  Such a
\* complex must stay with the entries that compare and exchange or, in GNU's
\* mode, with those that lock; code of GNU compilers locks the common lock,
\* which is what that mode is for; __kmpc_atomic_16 and the entries for _Quad
\* use different locks.  A captured maximum works among maxima only, and
\* with one operand; those of _Quad look at the value without their lock.
MCAllowed(cl, md, c) ==
    /\ cl \in {"int", "real"} => md = 1 /\ c.via \notin {"gomp", "wider"}
    /\ cl = "int" /\ c.op = "max" => c.capture = "none"
    /\ cl = "real" => c.op \in {"max", "rd"}
    /\ cl \notin {"int", "real"} => c.op \notin {"max", "min"}
    /\ c.via = "gomp" => md = 2
    /\ c.via = "wider" => cl = "cmplx4"
    /\ cl = "cmplx4" /\ md = 1 => c.op = "add" /\ c.capture = "none"
    /\ cl = "cmplx4" /\ md = 2 => c.via \notin {"wider", "sized"}
    /\ cl = "quad" /\ md = 1 => c.via # "sized"
====
