----------------------------- MODULE MCComposer -----------------------------
(* Lengths to the base 2: a message of one byte has a header of one byte,  *)
(* one of two bytes a header of two.                                       *)
EXTENDS Composer

Messages == {<<1>>, <<3, 0>>}

(* A broken stream promises nothing: it is followed for one message, or    *)
(* until the wire is empty and another connection can begin.               *)
Bound ==
    /\ connects = MaxConnect => Len(sent) < MaxSent
    /\ broken = "no" \/ Len(sent) <= 1 \/ (wire = <<>> /\ \A t \in Thread : Rest(t) = 0)
=============================================================================
