----------------------------- MODULE BoundedLog -----------------------------
(***************************************************************************)
(* What a RingBuffer promises (internal/logging/ring.go): "thread-safe       *)
(* fixed-capacity", the last Cap entries in the order in which they were    *)
(* pushed.                                                                  *)
(***************************************************************************)
EXTENDS Integers, Sequences

CONSTANTS Entry, Cap

VARIABLE log

Init == log = <<>>

Push(e) == log' = Append(IF Len(log) < Cap THEN log ELSE Tail(log), e)

Next == \E e \in Entry : Push(e)

Spec == Init /\ [][Next]_log
=============================================================================
