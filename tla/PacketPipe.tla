----------------------------- MODULE PacketPipe -----------------------------
(***************************************************************************)
(* What the downlink of a USB-UART bridge promises: the bytes of the       *)
(* packets taken from the host go out on the line once each and in order,  *)
(* at most Capacity packets wait, and only a reset throws any away.        *)
(***************************************************************************)
EXTENDS Naturals, Sequences

CONSTANTS Byte, Packets, Capacity

VARIABLES q,         \* packets taken and not completely sent
          draining,  \* may bytes of a packet thrown away still go out?
          line       \* the byte sent last

vars == <<q, draining, line>>

Init == q = <<>> /\ draining = FALSE /\ line \in Byte

\* The host hands over a packet.
Accept ==
  /\ Len(q) < Capacity
  /\ \E p \in Packets : q' = Append(q, p)
  /\ UNCHANGED <<draining, line>>

\* The next byte goes out.
Send ==
  /\ ~draining /\ q # <<>> /\ Head(q) # <<>>
  /\ line' = Head(Head(q))
  /\ q' = <<Tail(Head(q))>> \o Tail(q)
  /\ UNCHANGED draining

\* A packet that has been sent gives its place back.
Retire ==
  /\ q # <<>> /\ Head(q) = <<>>
  /\ q' = Tail(q) /\ UNCHANGED <<draining, line>>

\* The host changes the line parameters or resets the bus.
Reset == q' = <<>> /\ draining' \in BOOLEAN /\ UNCHANGED line

\* What is left of a packet thrown away ends before the next one begins; what
\* its bytes are is not promised.
Drain ==
  /\ draining /\ draining' \in BOOLEAN /\ line' \in Byte
  /\ UNCHANGED q

\* Everything but a reset; a reset is for the implementation to name.
Work == Accept \/ Send \/ Retire \/ Drain

Next == Work \/ Reset

Spec == Init /\ [][Next]_vars
=============================================================================
