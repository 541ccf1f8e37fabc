----------------------------- MODULE ByteStream -----------------------------
(***************************************************************************)
(* What a bridge from a serial line promises: the bytes it takes in reach  *)
(* the other side (the USB host, the peer of a BLE connection) once each   *)
(* and in order, in chunks.  A reset or a flush throws away the youngest   *)
(* of those that have not been handed on yet.                              *)
(***************************************************************************)
EXTENDS Naturals, Sequences

CONSTANTS Byte, Capacity

VARIABLES q,        \* bytes received and not delivered
          chunk     \* what the other side was given last

vars == <<q, chunk>>

Init == q = <<>> /\ chunk = <<>>

\* A byte comes in.
Receive ==
  /\ Len(q) < Capacity
  /\ \E b \in Byte : q' = Append(q, b)
  /\ UNCHANGED chunk

\* The other side takes the oldest n bytes (none: a zero-length packet).
Deliver(n) ==
  /\ chunk' = SubSeq(q, 1, n)
  /\ q' = SubSeq(q, n + 1, Len(q))

Reset(n) == q' = SubSeq(q, 1, n) /\ UNCHANGED chunk

\* Everything but a reset; a reset is for the implementation to name.
Work == Receive \/ \E n \in 0 .. Len(q) : Deliver(n)

Next == Work \/ \E n \in 0 .. Len(q) : Reset(n)

Spec == Init /\ [][Next]_vars
=============================================================================
