--------------------------- MODULE CdcDown_proof ----------------------------
(***************************************************************************)
(* Theorems about CdcDown, for every number of slots, slot size and set of *)
(* packets, empty ones included: the variables keep their ranges, the ring *)
(* of slots never overflows, no NAK is forgotten, and what leaves the UART *)
(* is what the host handed over (PacketPipe).  The environment is that of  *)
(* run cdc_down: resets strike only between two rounds of the main loop,   *)
(* and a suspended host does not touch the halt of its endpoint.           *)
(***************************************************************************)
EXTENDS CdcDown, SequenceTheorems, TLAPS

\* What the theorems assume of the host.
Environment == ~ResetAnywhere /\ HaltsWhile \subseteq {FALSE}

\* An address behind the last slot.
BufEnd == TxNum * PackMax

\* Flow control: the host is told to go on only while there is room, and while
\* it is, the main loop knows whether it is suspended.
FlowInv ==
  /\ SuspendedIsKnown
  /\ Tx_RemainNum < TxNum
  /\ ~USB_Down_StopFlag => Tx_RemainNum < TxNum - 2 \/ Tx_RemainNum < 2

\* Between the moment the main loop finds a packet and the one it retires it
\* there is one to retire.
BusyInv == Tx_Flag \/ pc # "poll" => Tx_RemainNum > 0

\* The packet in work lies in the buffer, and the DMA channel is inside it.
InWork ==
  /\ Tx_CurPackPtr + Tx_CurPackLen <= BufEnd
  /\ Tx_Flag => pc = "poll"
  /\ Tx_Flag \/ pc = "done" => CNTR <= Tx_CurPackLen

Inv == TypeOK /\ FlowInv /\ BusyInv /\ InWork

\* What a slot may hold.
SlotImage == [1 .. PackMax -> Byte]

\* TypeOK in three parts: the ring, the indices into it, everything else.
RingType ==
  /\ Tx_Buf \in [Slots -> SlotImage]
  /\ Tx_PackLen \in [Slots -> 0 .. PackMax]
  /\ Tx_LoadNum \in Slots /\ Tx_DealNum \in Slots
  /\ Tx_RemainNum \in 0 .. WordSize - 1

CursorType ==
  /\ Tx_CurPackLen \in 0 .. PackMax /\ Tx_CurPackPtr \in 0 .. BufEnd
  /\ MADDR \in 0 .. BufEnd /\ CNTR \in 0 .. PackMax
  /\ MADDR + CNTR <= BufEnd

FlagType ==
  /\ Tx_Flag \in BOOLEAN /\ USB_Down_StopFlag \in BOOLEAN
  /\ rxRes \in {"ACK", "NAK", "STALL"}
  /\ dmaReq \in BOOLEAN /\ TC \in BOOLEAN /\ sending \in BOOLEAN
  /\ pc \in {"poll", "done", "load", "start"} /\ line \in Byte

-----------------------------------------------------------------------------
(* Lemmas about sizes and addresses *)

\* The provers do better with WordSize than with its value.
LEMMA WordSizeNat == WordSize \in Nat /\ WordSize >= 1
BY DEF WordSize

\* The sizes, as the provers need them.
LEMMA Sizes ==
  /\ TxNum \in Nat /\ TxNum >= 3 /\ TxNum < WordSize
  /\ PackMax \in Nat /\ PackMax >= 1 /\ PackMax < WordSize
  /\ BufEnd \in Nat /\ BufEnd < WordSize
<1>1. TxNum \in Nat /\ TxNum >= 3 /\ TxNum < WordSize
  BY TxNumAssumption, WordSizeNat
<1>2. PackMax \in 1 .. WordSize - 1
  BY Zenon, PackAssumption
<1>3. PackMax \in Nat /\ PackMax >= 1 /\ PackMax < WordSize
  BY <1>2, WordSizeNat
<1>4. BufEnd \in Nat
  BY <1>1, <1>3 DEF BufEnd
<1>5. BufEnd < WordSize
  BY Zenon, PackAssumption DEF BufEnd
<1> QED
  BY <1>1, <1>3, <1>4, <1>5

\* m + 1 slots of k bytes and d more.
LEMMA Distribute ==
  ASSUME NEW m \in Nat, NEW d \in Nat, NEW k \in Nat
  PROVE  (m + 1 + d) * k = m * k + k + d * k /\ m * k \in Nat /\ d * k \in Nat
OBVIOUS

\* A slot ends inside the buffer.
LEMMA SlotInBuffer ==
  ASSUME NEW s \in Slots
  PROVE  s * PackMax \in Nat /\ s * PackMax + PackMax <= BufEnd
<1>1. s \in Nat /\ TxNum - s - 1 \in Nat /\ PackMax \in Nat
  BY Sizes DEF Slots
<1>2. TxNum = s + 1 + (TxNum - s - 1)
  BY <1>1, Sizes
<1>3. TxNum * PackMax = s * PackMax + PackMax + (TxNum - s - 1) * PackMax
  BY <1>1, <1>2, Distribute
<1> QED
  BY <1>1, <1>3, Sizes, Distribute DEF BufEnd

\* A quotient is as small as its dividend says.
LEMMA QuotientSmall ==
  ASSUME NEW a \in Nat, NEW p \in Nat \ {0}, NEW t \in Nat, a < t * p
  PROVE  a \div p \in 0 .. t - 1 /\ a % p \in 0 .. p - 1
<1>1. a \div p < t
  OBVIOUS
<1> QED
  BY <1>1

\* Arithmetic of words.
LEMMA WordRange ==
  ASSUME NEW a \in Nat
  PROVE  a % WordSize \in 0 .. WordSize - 1
BY WordSizeNat

\* What is smaller than the modulus is its own remainder.
LEMMA Modulo ==
  ASSUME NEW r \in Nat, NEW n \in Nat, r < n
  PROVE  r % n = r /\ (r + n) % n = r
<1>1. r % n = r
  OBVIOUS
<1>2. (r + n) % n = r
  OBVIOUS
<1> QED
  BY <1>1, <1>2

\* A difference of words is exact unless it is negative.
LEMMA WordMinus ==
  ASSUME NEW a \in 0 .. WordSize - 1, NEW b \in 0 .. WordSize - 1, b <= a
  PROVE  (a + WordSize - b) % WordSize = a - b
<1>0. WordSize \in Nat
  BY WordSizeNat
<1>1. a - b \in Nat /\ a - b < WordSize
  BY <1>0
<1>2. a + WordSize - b = (a - b) + WordSize
  BY <1>0
<1> QED
  BY <1>0, <1>1, <1>2, Modulo

\* Every address below BufEnd is that of a byte of a slot.
LEMMA ByteAtType ==
  ASSUME TypeOK, NEW addr \in Nat, addr < TxNum * PackMax
  PROVE  ByteAt(addr) \in Byte
<1>1. PackMax \in Nat \ {0} /\ TxNum \in Nat
  BY Sizes
<1>2. addr \div PackMax \in Slots /\ addr % PackMax \in 0 .. PackMax - 1
  BY <1>1, QuotientSmall DEF Slots
<1>3. (addr % PackMax) + 1 \in 1 .. PackMax
  BY <1>1, <1>2
<1>4. Tx_Buf[addr \div PackMax] \in [1 .. PackMax -> Byte]
  BY <1>2 DEF TypeOK
<1> QED
  BY <1>3, <1>4 DEF ByteAt

\* NextSlot goes round the ring.
LEMMA NextSlotInRing ==
  ASSUME NEW s \in Slots
  PROVE  NextSlot(s) \in Slots
BY Sizes DEF NextSlot, Slots

-----------------------------------------------------------------------------
(* The invariant holds initially ... *)

\* Everything is reset.
LEMMA InitInv == Init => Inv
<1> SUFFICES ASSUME Init PROVE Inv
  OBVIOUS
<1>1. TypeOK
  <2>1. 0 \in Slots /\ 0 \in 0 .. PackMax /\ 0 \in 0 .. TxNum * PackMax
    BY Sizes DEF Slots, BufEnd
  <2>2. Tx_Buf \in [Slots -> [1 .. PackMax -> Byte]] /\ line \in Byte
    BY DEF Init
  <2>3. Tx_PackLen \in [Slots -> 0 .. PackMax]
    BY <2>1 DEF Init
  <2>4. /\ Tx_LoadNum \in Slots /\ Tx_DealNum \in Slots
        /\ Tx_RemainNum \in 0 .. WordSize - 1
        /\ Tx_CurPackLen \in 0 .. PackMax /\ Tx_CurPackPtr \in 0 .. TxNum * PackMax
        /\ MADDR \in 0 .. TxNum * PackMax /\ CNTR \in 0 .. PackMax
    BY <2>1, WordSizeNat DEF Init
  <2>5. MADDR + CNTR <= TxNum * PackMax
    BY Sizes DEF Init, BufEnd
  <2>6. /\ Tx_Flag \in BOOLEAN /\ {dmaReq, TC, sending} \subseteq BOOLEAN
        /\ USB_Down_StopFlag \in BOOLEAN /\ rxRes \in {"ACK", "NAK", "STALL"}
        /\ pc \in {"poll", "done", "load", "start"}
    BY DEF Init
  <2> QED
    BY <2>2, <2>3, <2>4, <2>5, <2>6 DEF TypeOK
<1>2. FlowInv
  BY Sizes DEF Init, FlowInv, SuspendedIsKnown
<1>3. BusyInv /\ InWork
  BY Sizes DEF Init, BusyInv, InWork
<1> QED
  BY <1>1, <1>2, <1>3 DEF Inv

\* The parts are TypeOK.
LEMMA TypeParts == TypeOK <=> RingType /\ CursorType /\ FlagType
BY DEF TypeOK, RingType, CursorType, FlagType, BufEnd, SlotImage

-----------------------------------------------------------------------------
(* ... and every step keeps it, one part at a time *)

\* A new packet fills the slot Tx_LoadNum and no other.
LEMMA RingOut ==
  ASSUME RingType, NEW p \in Packets, OutPacket(p)
  PROVE  RingType'
<1> DEFINE slot == [i \in 1 .. PackMax |->
                      IF i <= Len(p) THEN p[i] ELSE Tx_Buf[Tx_LoadNum][i]]
<1>1. p \in Seq(Byte) /\ Len(p) \in 0 .. PackMax
  BY PackAssumption, Sizes
<1>2. \A i \in 1 .. PackMax : i <= Len(p) => p[i] \in Byte
  BY <1>1, Sizes
<1>3. Tx_Buf[Tx_LoadNum] \in SlotImage
  BY DEF RingType
<1>4. slot \in SlotImage
  BY <1>2, <1>3 DEF SlotImage
<1>5. Tx_Buf' = [Tx_Buf EXCEPT ![Tx_LoadNum] = slot]
  BY DEF OutPacket
<1> HIDE DEF slot
<1>6. Tx_Buf' \in [Slots -> SlotImage]
  BY <1>4, <1>5 DEF RingType
<1>7. /\ Tx_PackLen' = [Tx_PackLen EXCEPT ![Tx_LoadNum] = Len(p)]
      /\ Tx_LoadNum' = NextSlot(Tx_LoadNum) /\ Tx_DealNum' = Tx_DealNum
      /\ Tx_RemainNum' = (Tx_RemainNum + 1) % WordSize
  BY DEF OutPacket
<1>8. /\ Tx_PackLen \in [Slots -> 0 .. PackMax] /\ Tx_LoadNum \in Slots
      /\ Tx_DealNum \in Slots /\ Tx_RemainNum \in 0 .. WordSize - 1
  BY DEF RingType
<1>9. Tx_PackLen' \in [Slots -> 0 .. PackMax]
  BY <1>1, <1>7, <1>8
<1>10. Tx_LoadNum' \in Slots /\ Tx_DealNum' \in Slots
  BY <1>7, <1>8, NextSlotInRing
<1>11. Tx_RemainNum' \in 0 .. WordSize - 1
  <2>1. Tx_RemainNum + 1 \in Nat
    BY <1>8, WordSizeNat
  <2> QED
    BY <1>7, <2>1, WordRange
<1> QED
  BY <1>6, <1>9, <1>10, <1>11 DEF RingType

\* Retiring the packet in slot Tx_DealNum, or not yet.
LEMMA RingDone ==
  ASSUME RingType, TxDone
  PROVE  RingType'
<1>1. /\ \/ /\ Tx_PackLen' = [Tx_PackLen EXCEPT ![Tx_DealNum] = 0]
            /\ Tx_DealNum' = NextSlot(Tx_DealNum)
            /\ Tx_RemainNum' = (Tx_RemainNum + WordSize - 1) % WordSize
         \/ UNCHANGED <<Tx_PackLen, Tx_DealNum, Tx_RemainNum>>
      /\ UNCHANGED <<Tx_Buf, Tx_LoadNum>>
  BY DEF TxDone
<1>2. /\ Tx_PackLen \in [Slots -> 0 .. PackMax]
      /\ Tx_DealNum \in Slots /\ Tx_RemainNum \in 0 .. WordSize - 1
  BY DEF RingType
<1>3. Tx_PackLen' \in [Slots -> 0 .. PackMax]
  BY <1>1, <1>2, Sizes
<1>4. Tx_DealNum' \in Slots
  BY <1>1, <1>2, NextSlotInRing
<1>5. Tx_RemainNum' \in 0 .. WordSize - 1
  <2>1. Tx_RemainNum + WordSize - 1 \in Nat
    BY <1>2, WordSizeNat
  <2> QED
    BY <1>1, <1>2, <2>1, WordRange
<1> QED
  BY <1>1, <1>3, <1>4, <1>5 DEF RingType

\* A reset empties the ring.
LEMMA RingReset ==
  ASSUME RingType, ParaInit
  PROVE  RingType'
<1>1. 0 \in Slots /\ 0 \in 0 .. PackMax /\ 0 \in 0 .. WordSize - 1
  BY Sizes, WordSizeNat DEF Slots
<1>2. Tx_PackLen' \in [Slots -> 0 .. PackMax]
  BY <1>1 DEF ParaInit
<1> QED
  BY <1>1, <1>2 DEF ParaInit, RingType

\* Every step keeps the ring's shape.
LEMMA RingStep ==
  ASSUME RingType, [Next]_vars
  PROVE  RingType'
<1>1. CASE UNCHANGED queue
  BY <1>1 DEF queue, RingType
<1>2. CASE \E p \in Packets : OutPacket(p)
  BY <1>2, RingOut
<1>3. CASE LineCoding \/ BusReset
  BY <1>3, RingReset DEF LineCoding, BusReset
<1>4. CASE TxDone
  BY <1>4, RingDone
<1>5. \/ UNCHANGED queue \/ LineCoding \/ BusReset \/ TxDone
      \/ \E p \in Packets : OutPacket(p)
  BY DEF Next, MainStep, UsbStep, SetHalt, ClearHalt, PollSending, PollIdle,
         TxLoad, TxStart, DmaByte, ShiftOut, vars, queue
<1> QED
  BY <1>1, <1>2, <1>3, <1>4, <1>5

\* What TxDone leaves of the packet in work: the DMA channel's rest.
LEMMA TxDoneExact ==
  ASSUME CursorType, FlagType, InWork, TxDone
  PROVE  /\ Tx_CurPackLen' = CNTR /\ CNTR <= Tx_CurPackLen
         /\ Tx_CurPackPtr' = Tx_CurPackPtr + (Tx_CurPackLen - CNTR)
         /\ UNCHANGED <<MADDR, CNTR>>
<1> DEFINE count == (Tx_CurPackLen + WordSize - CNTR) % WordSize
<1>1. /\ Tx_CurPackLen' = (Tx_CurPackLen + WordSize - count) % WordSize
      /\ Tx_CurPackPtr' = (Tx_CurPackPtr + count) % WordSize
      /\ UNCHANGED <<MADDR, CNTR>> /\ pc = "done"
  BY DEF TxDone, dma
<1>2. CNTR <= Tx_CurPackLen /\ Tx_CurPackPtr + Tx_CurPackLen <= BufEnd
  BY <1>1 DEF InWork
<1>3. /\ Tx_CurPackLen \in 0 .. WordSize - 1 /\ CNTR \in 0 .. WordSize - 1
      /\ Tx_CurPackPtr \in Nat /\ WordSize \in Nat
  BY Sizes, WordSizeNat DEF CursorType
<1>4. count = Tx_CurPackLen - CNTR
  BY <1>2, <1>3, WordMinus
<1> HIDE DEF count
<1>5. count \in 0 .. WordSize - 1 /\ count <= Tx_CurPackLen
  BY <1>2, <1>3, <1>4
<1>6. Tx_CurPackLen' = CNTR
  BY <1>1, <1>3, <1>4, <1>5, WordMinus
<1>7. Tx_CurPackPtr + count \in Nat /\ Tx_CurPackPtr + count < WordSize
  BY <1>2, <1>3, <1>4, Sizes, WordSizeNat
<1>8. Tx_CurPackPtr' = Tx_CurPackPtr + count
  BY <1>1, <1>3, <1>7, Modulo
<1> QED
  BY <1>1, <1>2, <1>4, <1>6, <1>8

\* The packet in work stays in the buffer, and the DMA channel with it.
LEMMA CursorStep ==
  ASSUME RingType, CursorType, FlagType, InWork, Environment, [Next]_vars
  PROVE  CursorType' /\ InWork'
<1>1. /\ Tx_CurPackLen \in Nat /\ Tx_CurPackLen <= PackMax
      /\ Tx_CurPackPtr \in Nat /\ Tx_CurPackPtr <= BufEnd
      /\ MADDR \in Nat /\ CNTR \in Nat /\ MADDR <= BufEnd /\ CNTR <= PackMax
      /\ MADDR + CNTR <= BufEnd
      /\ Tx_CurPackPtr + Tx_CurPackLen <= BufEnd
      /\ PackMax \in Nat /\ BufEnd \in Nat
  BY Sizes DEF CursorType, InWork
<1>2. CASE LineCoding \/ BusReset
  <2>1. /\ Tx_CurPackLen' = 0 /\ Tx_CurPackPtr' = 0 /\ Tx_Flag' = FALSE
        /\ pc' = pc /\ pc = "poll"
        /\ (MADDR' = 0 /\ CNTR' = 0) \/ UNCHANGED <<MADDR, CNTR>>
    BY <1>2 DEF LineCoding, BusReset, ParaInit, MayReset, Environment, dma
  <2> QED
    BY <1>1, <2>1 DEF CursorType, InWork
<1>3. CASE TxDone
  <2>1. Tx_Flag' = Tx_Flag /\ pc = "done" /\ pc' = "poll"
    BY <1>3 DEF TxDone
  <2>2. Tx_Flag' = FALSE
    BY <2>1 DEF InWork, FlagType
  <2> QED
    BY <1>1, <1>3, <2>1, <2>2, TxDoneExact DEF CursorType, InWork
<1>4. CASE TxLoad
  <2>1. /\ \/ /\ Tx_CurPackLen' = Tx_PackLen[Tx_DealNum]
              /\ Tx_CurPackPtr' = Tx_DealNum * PackMax
           \/ UNCHANGED <<Tx_CurPackLen, Tx_CurPackPtr>>
        /\ UNCHANGED <<MADDR, CNTR, Tx_Flag>> /\ pc = "load" /\ pc' = "start"
    BY <1>4 DEF TxLoad, ResumeAt, dma
  <2>2. Tx_Flag' = FALSE
    BY <2>1 DEF InWork, FlagType
  <2>3. Tx_PackLen[Tx_DealNum] \in 0 .. PackMax /\ Tx_DealNum \in Slots
    BY DEF RingType
  <2>4. /\ Tx_DealNum * PackMax \in Nat
        /\ Tx_DealNum * PackMax + PackMax <= BufEnd
    BY <2>3, SlotInBuffer
  <2>5. /\ Tx_CurPackLen' \in Nat /\ Tx_CurPackLen' <= PackMax
        /\ Tx_CurPackPtr' \in 0 .. BufEnd
        /\ Tx_CurPackPtr' + Tx_CurPackLen' <= BufEnd
    BY <1>1, <2>1, <2>3, <2>4
  <2>6. UNCHANGED <<MADDR, CNTR>> /\ pc' = "start"
    BY <2>1
  <2>7. CursorType'
    <3>1. Tx_CurPackLen' \in 0 .. PackMax /\ Tx_CurPackPtr' \in 0 .. BufEnd
      BY <2>5
    <3> QED
      BY <2>6, <3>1 DEF CursorType
  <2>8. InWork'
    BY <2>2, <2>5, <2>6 DEF InWork
  <2> QED
    BY <2>7, <2>8
<1>5. CASE TxStart
  <2>1. /\ MADDR' = Tx_CurPackPtr /\ CNTR' = Tx_CurPackLen
        /\ UNCHANGED <<Tx_CurPackLen, Tx_CurPackPtr>> /\ pc' = "poll"
    BY <1>5 DEF TxStart
  <2> QED
    BY <1>1, <2>1 DEF CursorType, InWork
<1>6. CASE DmaByte
  <2>1. /\ MADDR' = MADDR + 1 /\ CNTR' = CNTR - 1 /\ CNTR > 0
        /\ UNCHANGED <<Tx_CurPackLen, Tx_CurPackPtr, Tx_Flag, pc>>
    BY <1>6 DEF DmaByte, cur
  <2> QED
    BY <1>1, <2>1 DEF CursorType, InWork
<1>7. CASE PollSending
  <2>1. /\ UNCHANGED <<Tx_CurPackLen, Tx_CurPackPtr, MADDR, CNTR>>
        /\ Tx_Flag /\ Tx_Flag' = FALSE /\ pc' = "done"
    BY <1>7 DEF PollSending
  <2> QED
    BY <1>1, <2>1 DEF CursorType, InWork
<1>8. CASE UNCHANGED <<cur, dma>> /\ (pc' = pc \/ PollIdle)
  <2>1. /\ UNCHANGED <<Tx_CurPackLen, Tx_CurPackPtr, Tx_Flag, MADDR, CNTR>>
        /\ pc' = pc \/ (~Tx_Flag /\ pc' = "load")
    BY <1>8 DEF cur, dma, PollIdle
  <2> QED
    BY <1>1, <2>1 DEF CursorType, InWork
<1>9. (UNCHANGED <<cur, dma>> /\ (pc' = pc \/ PollIdle)) \/ LineCoding \/ BusReset
        \/ TxDone \/ TxLoad \/ TxStart \/ DmaByte \/ PollSending
  BY DEF Next, MainStep, UsbStep, OutPacket, SetHalt, ClearHalt, PollIdle,
         ShiftOut, vars
<1> QED
  BY <1>2, <1>3, <1>4, <1>5, <1>6, <1>7, <1>8, <1>9

\* Flags and states keep their values, and the line carries bytes.
LEMMA FlagStep ==
  ASSUME TypeOK, [Next]_vars
  PROVE  FlagType'
<1> USE DEF FlagType
<1>0. FlagType
  BY TypeParts
<1>1. CASE \E p \in Packets : OutPacket(p)
  BY <1>0, <1>1 DEF OutPacket, cur, dma, usart, usb
<1>2. CASE LineCoding \/ BusReset
  BY <1>0, <1>2 DEF LineCoding, BusReset, ParaInit, dma, usart
<1>3. CASE SetHalt \/ ClearHalt
  BY <1>0, <1>3 DEF SetHalt, ClearHalt, cur, dma, usart
<1>4. CASE PollSending \/ PollIdle \/ TxLoad \/ TxStart
  BY <1>0, <1>4 DEF PollSending, PollIdle, TxLoad, TxStart, usb, cur, dma, usart
<1>5. CASE TxDone
  BY <1>0, <1>5 DEF TxDone, usb, dma, usart
<1>6. CASE ShiftOut
  BY <1>0, <1>6 DEF ShiftOut, usb, cur, dma
<1>7. CASE DmaByte
  <2>1. line' \in Byte
    <3>1. MADDR \in Nat
      BY Sizes DEF TypeOK, BufEnd
    <3>2. CASE MADDR < TxNum * PackMax
      BY <1>7, <3>1, <3>2, ByteAtType DEF DmaByte
    <3>3. CASE ~(MADDR < TxNum * PackMax)
      BY <1>0, <1>7, <3>3 DEF DmaByte
    <3> QED
      BY <3>2, <3>3
  <2> QED
    BY <1>0, <1>7, <2>1 DEF DmaByte, cur, usb
<1>8. CASE UNCHANGED vars
  BY <1>0, <1>8 DEF vars, cur, usb, dma, usart
<1> QED
  BY <1>1, <1>2, <1>3, <1>4, <1>5, <1>6, <1>7, <1>8 DEF Next, MainStep, UsbStep

\* The host is stopped before the ring is full and let go on when there is room;
\* and what the main loop has in work is in the ring.
LEMMA FlowStep ==
  ASSUME TypeOK, FlowInv, BusyInv, InWork, Environment, [Next]_vars
  PROVE  FlowInv' /\ BusyInv'
<1>1. /\ Tx_RemainNum \in Nat /\ Tx_RemainNum < TxNum
      /\ TxNum \in Nat /\ TxNum >= 3 /\ TxNum < WordSize
      /\ rxRes = "NAK" <=> USB_Down_StopFlag
      /\ USB_Down_StopFlag \in BOOLEAN
      /\ ~USB_Down_StopFlag => Tx_RemainNum < TxNum - 2 \/ Tx_RemainNum < 2
      /\ Tx_Flag => pc = "poll"
      /\ Tx_Flag \/ pc # "poll" => Tx_RemainNum > 0
      /\ WordSize \in Nat
  BY Sizes, WordSizeNat DEF TypeOK, FlowInv, BusyInv, SuspendedIsKnown, InWork
<1> USE DEF FlowInv, BusyInv, SuspendedIsKnown
<1>2. CASE \E p \in Packets : OutPacket(p)
  <2>1. PICK p \in Packets : OutPacket(p)
    BY <1>2
  <2>2. /\ rxRes = "ACK" /\ UNCHANGED <<Tx_Flag, pc>>
        /\ Tx_RemainNum' = (Tx_RemainNum + 1) % WordSize
        /\ \/ /\ Tx_RemainNum' >= TxNum - 2
              /\ rxRes' = "NAK" /\ USB_Down_StopFlag' = TRUE
           \/ /\ ~(Tx_RemainNum' >= TxNum - 2)
              /\ UNCHANGED <<USB_Down_StopFlag, rxRes>>
    BY <2>1 DEF OutPacket, MustSuspend, usb, cur
  <2>3. Tx_RemainNum' = Tx_RemainNum + 1
    <3>1. Tx_RemainNum + 1 \in Nat /\ Tx_RemainNum + 1 < WordSize
      BY <1>1
    <3> QED
      BY <1>1, <2>2, <3>1, Modulo
  <2>4. Tx_RemainNum' < TxNum
    BY <1>1, <2>2, <2>3
  <2> QED
    BY <1>1, <2>2, <2>3, <2>4
<1>3. CASE LineCoding \/ BusReset
  <2>1. /\ Tx_RemainNum' = 0 /\ USB_Down_StopFlag' = FALSE /\ rxRes' = "ACK"
        /\ Tx_Flag' = FALSE /\ pc' = "poll"
    BY <1>3 DEF LineCoding, BusReset, ParaInit, MayReset, Environment
  <2> QED
    BY <1>1, <2>1
<1>4. CASE SetHalt \/ ClearHalt
  <2>1. /\ ~USB_Down_StopFlag /\ rxRes' \in {"STALL", "ACK"}
        /\ UNCHANGED <<Tx_RemainNum, Tx_Flag, USB_Down_StopFlag, pc>>
    BY <1>4 DEF SetHalt, ClearHalt, Environment, queue, cur
  <2> QED
    BY <1>1, <2>1
<1>5. CASE TxDone
  <2>1. /\ pc = "done" /\ pc' = "poll" /\ Tx_Flag' = Tx_Flag
        /\ \/ Tx_RemainNum' = (Tx_RemainNum + WordSize - 1) % WordSize
           \/ Tx_RemainNum' = Tx_RemainNum
        /\ \/ /\ USB_Down_StopFlag /\ Tx_RemainNum' < 2
              /\ rxRes' = "ACK" /\ USB_Down_StopFlag' = FALSE
           \/ /\ ~(USB_Down_StopFlag /\ Tx_RemainNum' < 2)
              /\ UNCHANGED <<rxRes, USB_Down_StopFlag>>
    BY <1>5 DEF TxDone, MayResume, usb
  <2>2. Tx_RemainNum' \in Nat /\ Tx_RemainNum' <= Tx_RemainNum
    <3>1. (Tx_RemainNum + WordSize - 1) % WordSize = Tx_RemainNum - 1
      <4>1. /\ Tx_RemainNum \in 0 .. WordSize - 1 /\ 1 \in 0 .. WordSize - 1
            /\ 1 <= Tx_RemainNum
        BY <1>1, <2>1
      <4> QED
        BY <4>1, WordMinus
    <3> QED
      BY <1>1, <2>1, <3>1
  <2>3. Tx_Flag' = FALSE
    BY <1>1, <2>1 DEF TypeOK
  <2> QED
    BY <1>1, <2>1, <2>2, <2>3
<1>6. CASE PollSending \/ PollIdle \/ TxLoad \/ TxStart
  <2>1. /\ UNCHANGED <<Tx_RemainNum, USB_Down_StopFlag, rxRes>>
        /\ pc # "poll" \/ Tx_Flag \/ Tx_RemainNum # 0
    BY <1>6 DEF PollSending, PollIdle, TxLoad, TxStart, WorthSending, queue, usb
  <2> QED
    BY <1>1, <2>1
<1>7. CASE DmaByte \/ ShiftOut \/ UNCHANGED vars
  <2>1. UNCHANGED <<Tx_RemainNum, USB_Down_StopFlag, rxRes, Tx_Flag, pc>>
    BY <1>7 DEF DmaByte, ShiftOut, vars, queue, cur, usb
  <2> QED
    BY <1>1, <2>1
<1> QED
  BY <1>2, <1>3, <1>4, <1>5, <1>6, <1>7 DEF Next, MainStep, UsbStep

-----------------------------------------------------------------------------
(* The theorems *)

\* The invariant holds in every reachable state.
THEOREM Invariance == ASSUME Environment PROVE Spec => []Inv
<1>1. Inv /\ [Next]_vars => Inv'
  <2> SUFFICES ASSUME Inv, [Next]_vars
               PROVE  Inv'
    OBVIOUS
  <2>1. TypeOK /\ FlowInv /\ BusyInv /\ InWork
    BY DEF Inv
  <2>2. RingType /\ CursorType /\ FlagType
    BY <2>1, TypeParts
  <2>3. RingType' /\ FlagType'
    BY <2>1, <2>2, RingStep, FlagStep
  <2>4. CursorType' /\ InWork'
    BY <2>1, <2>2, CursorStep
  <2>5. FlowInv' /\ BusyInv'
    BY <2>1, FlowStep
  <2>6. TypeOK'
    BY <2>3, <2>4 DEF RingType, CursorType, FlagType, TypeOK, BufEnd, SlotImage
  <2> QED
    BY <2>4, <2>5, <2>6 DEF Inv
<1> QED
  BY <1>1, InitInv, PTL DEF Spec

\* The ring indices, the packet in work and the DMA channel keep their ranges.
THEOREM DownlinkTypes == ASSUME Environment PROVE Spec => []TypeOK
<1>1. Inv => TypeOK
  BY DEF Inv
<1> QED
  BY <1>1, Invariance, PTL

\* UART.h's "remaining unprocessed number" never exceeds the slots, however the
\* USB interrupt and the main loop interleave.
THEOREM RingNeverOverflows == ASSUME Environment PROVE Spec => []QueueFits
<1>1. Inv => QueueFits
  <2> SUFFICES ASSUME Inv PROVE QueueFits
    OBVIOUS
  <2> QED
    BY Sizes DEF Inv, TypeOK, FlowInv, QueueFits
<1> QED
  BY <1>1, Invariance, PTL

\* A host that is answered NAK is one the main loop knows to be waiting.
THEOREM NakIsKnown == ASSUME Environment PROVE Spec => []SuspendedIsKnown
<1>1. Inv => SuspendedIsKnown
  BY DEF Inv, FlowInv
<1> QED
  BY <1>1, Invariance, PTL

-----------------------------------------------------------------------------
(* The refinement: what the invariant must know of the packets             *)

\* Where the packet in slot Tx_DealNum ends in the buffer.
PacketEnd == Tx_DealNum * PackMax + Tx_PackLen[Tx_DealNum]

\* The slots between Tx_DealNum and Tx_LoadNum are the packets; what is in work
\* is the end of the first of them, and the DMA channel is inside that end.
PipeInv ==
  /\ Tx_LoadNum = (Tx_DealNum + Tx_RemainNum) % TxNum
  /\ pc = "done" => ~dmaReq
  /\ Tx_RemainNum = 0 => Tx_CurPackLen = 0
  /\ Tx_CurPackLen # 0 \/ pc \in {"start", "done"} \/ Tx_Flag =>
       /\ Tx_CurPackPtr + Tx_CurPackLen = PacketEnd
       /\ Tx_CurPackLen <= Tx_PackLen[Tx_DealNum]
  /\ Tx_Flag \/ pc = "done" => MADDR + CNTR = PacketEnd
  /\ pc = "start" /\ Tx_CurPackLen = 0 => Tx_PackLen[Tx_DealNum] = 0

\* The slot of the k-th packet, and the bytes of it that are still to be sent.
SlotOf(k) == (Tx_DealNum + k - 1) % TxNum
Rest(k) ==
  IF k = 1 THEN SubSeq(Tx_Buf[SlotOf(k)], Tx_PackLen[SlotOf(k)] - Left + 1, Tx_PackLen[SlotOf(k)])
           ELSE SubSeq(Tx_Buf[SlotOf(k)], 1, Tx_PackLen[SlotOf(k)])

\* Going round the ring.
LEMMA RingMod ==
  ASSUME NEW d \in Slots, NEW j \in 0 .. TxNum
  PROVE  /\ (d + j) % TxNum \in Slots
         /\ (d + j) % TxNum = IF d + j < TxNum THEN d + j ELSE d + j - TxNum
<1>1. TxNum \in Nat /\ TxNum >= 3 /\ d \in Nat /\ d < TxNum /\ j \in Nat /\ j <= TxNum
  BY Sizes DEF Slots
<1>2. CASE d + j < TxNum
  <2>1. (d + j) % TxNum = d + j
    BY <1>1, <1>2, Modulo
  <2> QED
    BY <1>1, <1>2, <2>1 DEF Slots
<1>3. CASE ~(d + j < TxNum)
  <2>1. d + j - TxNum \in Nat /\ d + j - TxNum < TxNum /\ d + j = (d + j - TxNum) + TxNum
    BY <1>1, <1>3
  <2>2. ((d + j - TxNum) + TxNum) % TxNum = d + j - TxNum
    BY <1>1, <2>1, Modulo
  <2>3. (d + j) % TxNum = d + j - TxNum
    BY <2>1, <2>2
  <2> QED
    BY <1>1, <1>3, <2>1, <2>3 DEF Slots
<1> QED
  BY <1>2, <1>3

LEMMA SlotsDiffer ==
  ASSUME NEW d \in Slots, NEW i \in 0 .. TxNum - 1, NEW j \in 0 .. TxNum - 1, i # j
  PROVE  (d + i) % TxNum # (d + j) % TxNum
<1>1. TxNum \in Nat /\ d \in Nat /\ d < TxNum
  BY Sizes DEF Slots
<1>2. /\ (d + i) % TxNum = IF d + i < TxNum THEN d + i ELSE d + i - TxNum
      /\ (d + j) % TxNum = IF d + j < TxNum THEN d + j ELSE d + j - TxNum
  BY <1>1, RingMod
<1> QED
  BY <1>1, <1>2

LEMMA NextSlotMod ==
  ASSUME NEW d \in Slots, NEW j \in 0 .. TxNum - 1
  PROVE  /\ NextSlot((d + j) % TxNum) = (d + (j + 1)) % TxNum
         /\ (NextSlot(d) + j) % TxNum = (d + (j + 1)) % TxNum
<1>1. TxNum \in Nat /\ TxNum >= 3 /\ d \in Nat /\ d < TxNum /\ j \in Nat /\ j < TxNum
  BY Sizes DEF Slots
<1>2. (d + j) % TxNum = IF d + j < TxNum THEN d + j ELSE d + j - TxNum
  BY <1>1, RingMod
<1>3. (d + (j + 1)) % TxNum = IF d + (j + 1) < TxNum THEN d + (j + 1) ELSE d + (j + 1) - TxNum
  BY <1>1, RingMod
<1>4. (NextSlot(d) + j) % TxNum =
        IF NextSlot(d) + j < TxNum THEN NextSlot(d) + j ELSE NextSlot(d) + j - TxNum
  <2>1. NextSlot(d) \in Slots /\ j \in 0 .. TxNum
    BY <1>1, NextSlotInRing
  <2> QED
    BY <2>1, RingMod
<1>5. NextSlot((d + j) % TxNum) = (d + (j + 1)) % TxNum
  BY <1>1, <1>2, <1>3 DEF NextSlot
<1>6. (NextSlot(d) + j) % TxNum = (d + (j + 1)) % TxNum
  BY <1>1, <1>3, <1>4 DEF NextSlot
<1> QED
  BY <1>5, <1>6

\* What is used of types and numbers below.
LEMMA PipeTypes ==
  ASSUME Inv
  PROVE  /\ Tx_DealNum \in Slots /\ Tx_LoadNum \in Slots
         /\ Tx_RemainNum \in Nat /\ Tx_RemainNum < TxNum
         /\ Tx_CurPackLen \in Nat /\ Tx_CurPackLen <= PackMax /\ Tx_CurPackPtr \in Nat
         /\ MADDR \in Nat /\ CNTR \in Nat /\ MADDR + CNTR <= BufEnd
         /\ \A s \in Slots : /\ Tx_PackLen[s] \in Nat /\ Tx_PackLen[s] <= PackMax
                             /\ Tx_Buf[s] \in SlotImage
         /\ Tx_Flag \/ pc = "done" => CNTR <= Tx_CurPackLen
         /\ Tx_Flag \/ pc # "poll" => Tx_RemainNum > 0
         /\ Tx_Flag => pc = "poll"
         /\ Tx_Flag \in BOOLEAN
<1>1. RingType /\ CursorType /\ FlagType /\ FlowInv /\ BusyInv /\ InWork
  BY TypeParts DEF Inv
<1>2. Tx_RemainNum \in Nat
  BY <1>1, WordSizeNat DEF RingType
<1>3. \A s \in Slots : Tx_PackLen[s] \in 0 .. PackMax /\ Tx_Buf[s] \in SlotImage
  BY <1>1 DEF RingType
<1> QED
  BY <1>1, <1>2, <1>3, Sizes DEF RingType, CursorType, FlagType, FlowInv, BusyInv, InWork

\* The counters of the ring never wrap.
LEMMA OutExact ==
  ASSUME Inv, NEW p \in Packets, OutPacket(p)
  PROVE  Tx_RemainNum' = Tx_RemainNum + 1
<1>1. /\ Tx_RemainNum \in Nat /\ Tx_RemainNum < TxNum /\ TxNum < WordSize
      /\ TxNum \in Nat /\ WordSize \in Nat
  BY PipeTypes, Sizes, WordSizeNat
<1>2. Tx_RemainNum + 1 \in Nat /\ Tx_RemainNum + 1 < WordSize
  BY <1>1
<1>3. (Tx_RemainNum + 1) % WordSize = Tx_RemainNum + 1
  BY <1>1, <1>2, Modulo
<1> QED
  BY <1>3 DEF OutPacket

LEMMA RetireExact ==
  ASSUME Inv, Tx_RemainNum > 0
  PROVE  (Tx_RemainNum + WordSize - 1) % WordSize = Tx_RemainNum - 1
<1>1. /\ Tx_RemainNum \in 0 .. WordSize - 1 /\ 1 \in 0 .. WordSize - 1
      /\ 1 <= Tx_RemainNum
  BY PipeTypes, Sizes, WordSizeNat
<1> QED
  BY <1>1, WordMinus

\* What TxDone does: keep the rest of the packet, or retire it.
LEMMA DoneEffect ==
  ASSUME Inv, TxDone
  PROVE  /\ pc = "done" /\ pc' = "poll" /\ Tx_RemainNum > 0 /\ ~Tx_Flag /\ ~Tx_Flag'
         /\ Tx_CurPackLen' = CNTR /\ CNTR <= Tx_CurPackLen
         /\ Tx_CurPackPtr' = Tx_CurPackPtr + (Tx_CurPackLen - CNTR)
         /\ UNCHANGED <<Tx_Buf, Tx_LoadNum, MADDR, CNTR, dmaReq, line>>
         /\ IF CNTR = 0
              THEN /\ Tx_PackLen' = [Tx_PackLen EXCEPT ![Tx_DealNum] = 0]
                   /\ Tx_DealNum' = NextSlot(Tx_DealNum)
                   /\ Tx_RemainNum' = Tx_RemainNum - 1
              ELSE UNCHANGED <<Tx_PackLen, Tx_DealNum, Tx_RemainNum>>
<1>1. /\ Tx_CurPackLen' = CNTR /\ CNTR <= Tx_CurPackLen
      /\ Tx_CurPackPtr' = Tx_CurPackPtr + (Tx_CurPackLen - CNTR)
  BY TypeParts, TxDoneExact DEF Inv
<1>2. pc = "done" /\ pc' = "poll" /\ UNCHANGED <<Tx_Buf, Tx_LoadNum, Tx_Flag, MADDR, CNTR, dmaReq, line>>
  BY DEF TxDone, dma, usart
<1>3. Tx_RemainNum > 0 /\ ~Tx_Flag
  BY <1>2, PipeTypes
<1>4. (Tx_RemainNum + WordSize - 1) % WordSize = Tx_RemainNum - 1
  BY <1>3, RetireExact
<1>5. IF CNTR = 0
        THEN /\ Tx_PackLen' = [Tx_PackLen EXCEPT ![Tx_DealNum] = 0]
             /\ Tx_DealNum' = NextSlot(Tx_DealNum)
             /\ Tx_RemainNum' = Tx_RemainNum - 1
        ELSE UNCHANGED <<Tx_PackLen, Tx_DealNum, Tx_RemainNum>>
  BY <1>1, <1>4 DEF TxDone
<1> QED
  BY <1>1, <1>2, <1>3, <1>5

\* The first packet is in slot Tx_DealNum; the place after the last is Tx_LoadNum.
LEMMA FirstSlot ==
  ASSUME Inv, PipeInv
  PROVE  /\ SlotOf(1) = Tx_DealNum
         /\ SlotOf(Tx_RemainNum + 1) = Tx_LoadNum
         /\ \A k \in 1 .. Tx_RemainNum : SlotOf(k) \in Slots /\ SlotOf(k) # Tx_LoadNum
<1>1. /\ Tx_DealNum \in Slots /\ Tx_DealNum \in Nat /\ Tx_DealNum < TxNum
      /\ Tx_RemainNum \in Nat /\ Tx_RemainNum < TxNum /\ TxNum \in Nat
      /\ Tx_LoadNum = (Tx_DealNum + Tx_RemainNum) % TxNum
  BY PipeTypes, Sizes DEF PipeInv, Slots
<1>2. SlotOf(1) = Tx_DealNum
  <2>1. Tx_DealNum + 1 - 1 = Tx_DealNum /\ Tx_DealNum % TxNum = Tx_DealNum
    BY <1>1, Modulo
  <2> QED
    BY <2>1 DEF SlotOf
<1>3. SlotOf(Tx_RemainNum + 1) = Tx_LoadNum
  <2>1. Tx_DealNum + (Tx_RemainNum + 1) - 1 = Tx_DealNum + Tx_RemainNum
    BY <1>1
  <2> QED
    BY <1>1, <2>1 DEF SlotOf
<1>4. ASSUME NEW k \in 1 .. Tx_RemainNum
      PROVE  SlotOf(k) \in Slots /\ SlotOf(k) # Tx_LoadNum
  <2>1. /\ Tx_DealNum + k - 1 = Tx_DealNum + (k - 1)
        /\ k - 1 \in 0 .. TxNum - 1 /\ k - 1 \in 0 .. TxNum
        /\ Tx_RemainNum \in 0 .. TxNum - 1 /\ k - 1 # Tx_RemainNum
    BY <1>1
  <2>2. SlotOf(k) = (Tx_DealNum + (k - 1)) % TxNum
    BY <2>1 DEF SlotOf
  <2> HIDE DEF SlotOf
  <2>3. (Tx_DealNum + (k - 1)) % TxNum \in Slots
    BY <1>1, <2>1, RingMod
  <2>4. (Tx_DealNum + (k - 1)) % TxNum # (Tx_DealNum + Tx_RemainNum) % TxNum
    BY <1>1, <2>1, SlotsDiffer
  <2> QED
    BY <1>1, <2>2, <2>3, <2>4
<1> QED
  BY <1>2, <1>3, <1>4

LEMMA PipeInit == Init => PipeInv
<1> SUFFICES ASSUME Init PROVE PipeInv
  OBVIOUS
<1>1. 0 \in Nat /\ TxNum \in Nat /\ 0 < TxNum /\ 0 + 0 = 0
  BY Sizes
<1>2. 0 % TxNum = 0
  BY <1>1, Modulo
<1> QED
  BY <1>1, <1>2 DEF Init, PipeInv

\* A packet arrives: it touches the slot behind the packets only.
LEMMA PipeOut ==
  ASSUME Inv, PipeInv, NEW p \in Packets, OutPacket(p)
  PROVE  PipeInv'
<1>1. /\ UNCHANGED <<Tx_DealNum, Tx_Flag, Tx_CurPackLen, Tx_CurPackPtr, MADDR, CNTR, dmaReq, pc>>
      /\ Tx_PackLen' = [Tx_PackLen EXCEPT ![Tx_LoadNum] = Len(p)]
      /\ Tx_LoadNum' = NextSlot(Tx_LoadNum) /\ Tx_RemainNum' = Tx_RemainNum + 1
  BY OutExact DEF OutPacket, cur, dma
<1>2. Tx_LoadNum' = (Tx_DealNum' + Tx_RemainNum') % TxNum
  <2>1. Tx_DealNum \in Slots /\ Tx_RemainNum \in 0 .. TxNum - 1
    BY PipeTypes, Sizes
  <2>2. NextSlot((Tx_DealNum + Tx_RemainNum) % TxNum) = (Tx_DealNum + (Tx_RemainNum + 1)) % TxNum
    BY <2>1, NextSlotMod
  <2> QED
    BY <1>1, <2>2 DEF PipeInv
<1>3. CASE Tx_RemainNum = 0
  <2>1. ~Tx_Flag /\ pc = "poll" /\ Tx_CurPackLen = 0
    BY <1>3, PipeTypes DEF PipeInv
  <2> QED
    BY <1>1, <1>2, <2>1 DEF PipeInv
<1>4. CASE Tx_RemainNum # 0
  <2>1. Tx_DealNum \in Slots /\ Tx_LoadNum \in Slots /\ Tx_DealNum # Tx_LoadNum
    <3>1. 1 \in 1 .. Tx_RemainNum
      BY <1>4, PipeTypes
    <3> QED
      BY <3>1, FirstSlot, PipeTypes
  <2>2. Tx_PackLen'[Tx_DealNum] = Tx_PackLen[Tx_DealNum]
    BY <1>1, <2>1 DEF Inv, TypeOK
  <2>3. PacketEnd' = PacketEnd
    BY <1>1, <2>2 DEF PacketEnd
  <2>4. Tx_RemainNum' # 0
    BY <1>1, PipeTypes
  <2> QED
    BY <1>1, <1>2, <2>2, <2>3, <2>4 DEF PipeInv
<1> QED
  BY <1>3, <1>4

\* TxDone keeps the rest, which ends where the packet does, or goes on to the next packet.
LEMMA PipeDone ==
  ASSUME Inv, PipeInv, TxDone
  PROVE  PipeInv'
<1>1. /\ pc = "done" /\ pc' = "poll" /\ ~Tx_Flag' /\ Tx_RemainNum > 0
      /\ Tx_CurPackLen' = CNTR /\ CNTR <= Tx_CurPackLen
      /\ Tx_CurPackPtr' = Tx_CurPackPtr + (Tx_CurPackLen - CNTR)
      /\ Tx_LoadNum' = Tx_LoadNum
  BY DoneEffect
<1>2. /\ Tx_CurPackPtr + Tx_CurPackLen = PacketEnd
      /\ Tx_CurPackLen <= Tx_PackLen[Tx_DealNum]
      /\ Tx_LoadNum = (Tx_DealNum + Tx_RemainNum) % TxNum
  BY <1>1 DEF PipeInv
<1>3. CASE CNTR = 0
  <2>1. Tx_DealNum' = NextSlot(Tx_DealNum) /\ Tx_RemainNum' = Tx_RemainNum - 1
    BY <1>3, DoneEffect
  <2>2. Tx_LoadNum' = (Tx_DealNum' + Tx_RemainNum') % TxNum
    <3>1. Tx_DealNum \in Slots /\ Tx_RemainNum - 1 \in 0 .. TxNum - 1
      BY <1>1, PipeTypes, Sizes
    <3>2. (NextSlot(Tx_DealNum) + (Tx_RemainNum - 1)) % TxNum
            = (Tx_DealNum + ((Tx_RemainNum - 1) + 1)) % TxNum
      BY <3>1, NextSlotMod
    <3>3. (Tx_RemainNum - 1) + 1 = Tx_RemainNum
      BY PipeTypes
    <3> QED
      BY <1>1, <1>2, <2>1, <3>2, <3>3
  <2> QED
    BY <1>1, <1>3, <2>2 DEF PipeInv
<1>4. CASE CNTR # 0
  <2>1. UNCHANGED <<Tx_PackLen, Tx_DealNum, Tx_RemainNum>>
    BY <1>4, DoneEffect
  <2>2. PacketEnd' = PacketEnd /\ Tx_RemainNum' # 0
    BY <1>1, <2>1, PipeTypes DEF PacketEnd
  <2>3. Tx_CurPackPtr' + Tx_CurPackLen' = PacketEnd
    BY <1>1, <1>2, PipeTypes
  <2>4. Tx_CurPackLen' <= Tx_PackLen[Tx_DealNum]
    BY <1>1, <1>2, PipeTypes
  <2> QED
    BY <1>1, <1>2, <2>1, <2>2, <2>3, <2>4 DEF PipeInv
<1> QED
  BY <1>3, <1>4

LEMMA PipeLoad ==
  ASSUME Inv, PipeInv, TxLoad
  PROVE  PipeInv'
<1>1. /\ pc = "load" /\ pc' = "start" /\ ~Tx_Flag /\ ~Tx_Flag' /\ Tx_RemainNum > 0
      /\ UNCHANGED <<Tx_PackLen, Tx_LoadNum, Tx_DealNum, Tx_RemainNum>>
      /\ IF Tx_CurPackLen = 0
           THEN /\ Tx_CurPackLen' = Tx_PackLen[Tx_DealNum]
                /\ Tx_CurPackPtr' = Tx_DealNum * PackMax
           ELSE UNCHANGED <<Tx_CurPackLen, Tx_CurPackPtr>>
  BY PipeTypes DEF TxLoad, ResumeAt, queue
<1>2. PacketEnd' = PacketEnd /\ Tx_RemainNum' # 0
  BY <1>1, PipeTypes DEF PacketEnd
<1>3. Tx_CurPackPtr' + Tx_CurPackLen' = PacketEnd /\ Tx_CurPackLen' <= Tx_PackLen[Tx_DealNum]
  <2>1. CASE Tx_CurPackLen = 0
    BY <1>1, <2>1, PipeTypes DEF PacketEnd
  <2>2. CASE Tx_CurPackLen # 0
    BY <1>1, <2>2 DEF PipeInv
  <2> QED
    BY <2>1, <2>2
<1> QED
  BY <1>1, <1>2, <1>3 DEF PipeInv

LEMMA PipeStep ==
  ASSUME Inv, PipeInv, Environment, [Next]_vars
  PROVE  PipeInv'
<1>1. CASE LineCoding \/ BusReset
  <2>1. /\ Tx_LoadNum' = 0 /\ Tx_DealNum' = 0 /\ Tx_RemainNum' = 0 /\ Tx_CurPackLen' = 0
        /\ ~Tx_Flag' /\ pc' = "poll"
    BY <1>1 DEF LineCoding, BusReset, ParaInit, MayReset, Environment
  <2>2. (0 + 0) % TxNum = 0
    <3>1. 0 % TxNum = 0
      BY Sizes, Modulo
    <3> QED
      BY <3>1
  <2> QED
    BY <2>1, <2>2 DEF PipeInv
<1>2. CASE \E p \in Packets : OutPacket(p)
  BY <1>2, PipeOut
<1>3. CASE TxDone
  BY <1>3, PipeDone
<1>4. CASE TxLoad
  BY <1>4, PipeLoad
<1>5. CASE DmaByte
  <2>1. /\ MADDR' = MADDR + 1 /\ CNTR' = CNTR - 1 /\ dmaReq /\ UNCHANGED dmaReq
        /\ UNCHANGED <<Tx_PackLen, Tx_LoadNum, Tx_DealNum, Tx_RemainNum, Tx_CurPackLen,
                       Tx_CurPackPtr, Tx_Flag, pc>>
    BY <1>5 DEF DmaByte, queue, cur
  <2>2. MADDR' + CNTR' = MADDR + CNTR /\ PacketEnd' = PacketEnd
    BY <2>1, PipeTypes DEF PacketEnd
  <2> QED
    BY <2>1, <2>2 DEF PipeInv
<1>6. CASE TxStart
  <2>1. /\ MADDR' = Tx_CurPackPtr /\ CNTR' = Tx_CurPackLen /\ pc = "start" /\ pc' = "poll"
        /\ UNCHANGED <<Tx_PackLen, Tx_LoadNum, Tx_DealNum, Tx_RemainNum, Tx_CurPackLen,
                       Tx_CurPackPtr>>
    BY <1>6 DEF TxStart, queue
  <2>2. PacketEnd' = PacketEnd
    BY <2>1 DEF PacketEnd
  <2> QED
    BY <2>1, <2>2 DEF PipeInv
<1>7. CASE PollSending \/ PollIdle
  <2>1. /\ UNCHANGED <<Tx_PackLen, Tx_LoadNum, Tx_DealNum, Tx_RemainNum, Tx_CurPackLen,
                       Tx_CurPackPtr, MADDR, CNTR>>
        /\ \/ Tx_Flag /\ ~Tx_Flag' /\ pc' = "done" /\ ~dmaReq'
           \/ ~Tx_Flag' /\ pc' = "load"
    BY <1>7, PipeTypes DEF PollSending, PollIdle, queue, cur, dma
  <2>2. PacketEnd' = PacketEnd
    BY <2>1 DEF PacketEnd
  <2> QED
    BY <2>1, <2>2 DEF PipeInv
<1>8. CASE SetHalt \/ ClearHalt \/ ShiftOut \/ UNCHANGED vars
  <2>1. UNCHANGED <<Tx_PackLen, Tx_LoadNum, Tx_DealNum, Tx_RemainNum, Tx_CurPackLen,
                    Tx_CurPackPtr, Tx_Flag, MADDR, CNTR, dmaReq, pc>>
    BY <1>8 DEF SetHalt, ClearHalt, ShiftOut, vars, queue, cur, dma
  <2>2. PacketEnd' = PacketEnd
    BY <2>1 DEF PacketEnd
  <2> QED
    BY <2>1, <2>2 DEF PipeInv
<1> QED
  BY <1>1, <1>2, <1>3, <1>4, <1>5, <1>6, <1>7, <1>8 DEF Next, MainStep, UsbStep

-----------------------------------------------------------------------------
(* The refinement: the sequence of packets                                 *)

\* A function on 1 .. n is a sequence.
LEMMA FunSeq ==
  ASSUME NEW S, NEW n \in Nat, NEW f \in [1 .. n -> S]
  PROVE  f \in Seq(S) /\ Len(f) = n /\ DOMAIN f = 1 .. n
OBVIOUS

\* The last l of the first n bytes of a slot.
LEMMA Slice ==
  ASSUME NEW b \in SlotImage, NEW n \in Nat, n <= PackMax, NEW l \in Nat, l <= n
  PROVE  /\ SubSeq(b, n - l + 1, n) \in Seq(Byte)
         /\ Len(SubSeq(b, n - l + 1, n)) = l
         /\ \A i \in 1 .. l : SubSeq(b, n - l + 1, n)[i] = b[n - l + i]
<1>1. PackMax \in Nat
  BY Sizes
<1>2. /\ n - l + 1 \in Int /\ n \in Int
      /\ \A i \in n - l + 1 .. n : b[i] \in Byte
  BY <1>1 DEF SlotImage
<1> DEFINE t == SubSeq(b, n - l + 1, n)
<1>3. /\ t \in Seq(Byte)
      /\ Len(t) = IF n - l + 1 <= n THEN n - (n - l + 1) + 1 ELSE 0
      /\ \A i \in 1 .. n - (n - l + 1) + 1 : t[i] = b[(n - l + 1) + i - 1]
  BY <1>2, SubSeqProperties
<1> HIDE DEF t
<1>4. n - (n - l + 1) + 1 = l
  OBVIOUS
<1>5. Len(t) = l
  BY <1>3, <1>4
<1>6. ASSUME NEW i \in 1 .. l
      PROVE  t[i] = b[n - l + i]
  <2>1. (n - l + 1) + i - 1 = n - l + i
    OBVIOUS
  <2> QED
    BY <1>3, <1>4, <2>1
<1> QED
  BY <1>3, <1>5, <1>6 DEF t

\* What is left of the packet in work is part of it.
LEMMA LeftFits ==
  ASSUME Inv, PipeInv
  PROVE  Left \in Nat /\ Left <= Tx_PackLen[Tx_DealNum]
<1>1. Tx_PackLen[Tx_DealNum] \in Nat
  BY PipeTypes
<1>2. CASE Tx_Flag \/ pc = "done"
  <2>1. Left = CNTR /\ CNTR <= Tx_CurPackLen /\ Tx_CurPackLen <= Tx_PackLen[Tx_DealNum]
    BY <1>2, PipeTypes DEF PipeInv, Left
  <2> QED
    BY <1>1, <2>1, PipeTypes
<1>3. CASE ~(Tx_Flag \/ pc = "done")
  <2>1. \/ Left = Tx_PackLen[Tx_DealNum]
        \/ Left = Tx_CurPackLen /\ Tx_CurPackLen <= Tx_PackLen[Tx_DealNum]
    BY <1>3 DEF PipeInv, Left
  <2> QED
    BY <1>1, <2>1, PipeTypes
<1> QED
  BY <1>2, <1>3

LEMMA RestType ==
  ASSUME Inv, PipeInv, NEW k \in 1 .. Tx_RemainNum
  PROVE  Rest(k) \in Seq(Byte)
<1>1. SlotOf(k) \in Slots
  BY FirstSlot
<1>2. /\ Tx_PackLen[SlotOf(k)] \in Nat /\ Tx_PackLen[SlotOf(k)] <= PackMax
      /\ Tx_Buf[SlotOf(k)] \in SlotImage
  BY <1>1, PipeTypes
<1>3. CASE k = 1
  <2>1. Left \in Nat /\ Left <= Tx_PackLen[SlotOf(k)]
    BY <1>3, LeftFits, FirstSlot
  <2> QED
    BY <1>2, <1>3, <2>1, Slice DEF Rest
<1>4. CASE k # 1
  <2>1. Tx_PackLen[SlotOf(k)] - Tx_PackLen[SlotOf(k)] + 1 = 1
    BY <1>2
  <2>2. SubSeq(Tx_Buf[SlotOf(k)], Tx_PackLen[SlotOf(k)] - Tx_PackLen[SlotOf(k)] + 1,
               Tx_PackLen[SlotOf(k)]) \in Seq(Byte)
    BY <1>2, Slice
  <2> QED
    BY <1>4, <2>1, <2>2 DEF Rest
<1> QED
  BY <1>3, <1>4

LEMMA UnsentIs == Unsent = [k \in 1 .. Tx_RemainNum |-> Rest(k)]
BY DEF Unsent, Rest, SlotOf

LEMMA UnsentType ==
  ASSUME Inv, PipeInv
  PROVE  /\ Unsent \in Seq(Seq(Byte)) /\ Len(Unsent) = Tx_RemainNum
         /\ \A k \in 1 .. Tx_RemainNum : Unsent[k] = Rest(k)
<1>1. Tx_RemainNum \in Nat
  BY PipeTypes
<1>2. Unsent \in [1 .. Tx_RemainNum -> Seq(Byte)]
  BY RestType, UnsentIs
<1>3. Unsent \in Seq(Seq(Byte)) /\ Len(Unsent) = Tx_RemainNum
  BY <1>1, <1>2, FunSeq
<1> QED
  BY <1>3, UnsentIs

\* Steps that leave the ring alone, and what is left of the packet in work.
LEMMA SameUnsent ==
  ASSUME UNCHANGED <<Tx_Buf, Tx_PackLen, Tx_DealNum, Tx_RemainNum>>,
         Tx_RemainNum > 0 => Left' = Left, Tx_RemainNum \in Nat
  PROVE  Unsent' = Unsent
<1>1. ASSUME NEW k \in 1 .. Tx_RemainNum
      PROVE  Rest(k)' = Rest(k)
  <2>1. Left' = Left
    OBVIOUS
  <2> QED
    BY <2>1 DEF Rest, SlotOf
<1>2. Unsent' = [k \in 1 .. Tx_RemainNum |-> Rest(k)']
  BY DEF Unsent, Rest, SlotOf
<1> QED
  BY <1>1, <1>2, UnsentIs

\* A packet from the host: it is appended.
LEMMA OutAccepts ==
  ASSUME Inv, PipeInv, NEW p \in Packets, OutPacket(p)
  PROVE  Unsent' = Append(Unsent, p)
<1>0. PICK r \in Nat : r = Tx_RemainNum
  BY PipeTypes
<1>1. /\ UNCHANGED <<Tx_DealNum, Tx_Flag, Tx_CurPackLen, CNTR, pc>>
      /\ Tx_RemainNum' = r + 1
      /\ Tx_PackLen' = [Tx_PackLen EXCEPT ![Tx_LoadNum] = Len(p)]
  BY <1>0, OutExact DEF OutPacket, cur, dma
<1>2. /\ p \in Seq(Byte) /\ Len(p) \in Nat /\ Len(p) <= PackMax
      /\ PackMax \in Nat /\ r \in Nat
  BY PackAssumption, Sizes, <1>0
<1>3. /\ Tx_LoadNum \in Slots
      /\ Tx_PackLen'[Tx_LoadNum] = Len(p)
      /\ \A i \in 1 .. Len(p) : Tx_Buf'[Tx_LoadNum][i] = p[i]
      /\ Tx_Buf'[Tx_LoadNum] \in SlotImage
      /\ \A s \in Slots : s # Tx_LoadNum =>
           Tx_Buf'[s] = Tx_Buf[s] /\ Tx_PackLen'[s] = Tx_PackLen[s]
  <2> DEFINE slot == [i \in 1 .. PackMax |->
                        IF i <= Len(p) THEN p[i] ELSE Tx_Buf[Tx_LoadNum][i]]
  <2>1. Tx_Buf' = [Tx_Buf EXCEPT ![Tx_LoadNum] = slot]
    BY DEF OutPacket
  <2>2. Tx_LoadNum \in Slots /\ Tx_Buf[Tx_LoadNum] \in SlotImage
    BY PipeTypes
  <2>3. slot \in SlotImage /\ \A i \in 1 .. Len(p) : slot[i] = p[i]
    BY <1>2, <2>2 DEF SlotImage
  <2> HIDE DEF slot
  <2> QED
    BY <1>1, <2>1, <2>2, <2>3 DEF Inv, TypeOK
<1>4. SubSeq(Tx_Buf'[Tx_LoadNum], 1, Len(p)) = p
  <2> DEFINE b == Tx_Buf'[Tx_LoadNum]
             n == Len(p)
             t == SubSeq(b, 1, n)
  <2>1. n - n + 1 = 1
    BY <1>2
  <2>2. /\ SubSeq(b, n - n + 1, n) \in Seq(Byte) /\ Len(SubSeq(b, n - n + 1, n)) = n
        /\ \A i \in 1 .. n : SubSeq(b, n - n + 1, n)[i] = b[n - n + i]
    BY <1>2, <1>3, Slice
  <2>3. t \in Seq(Byte) /\ Len(t) = n
    BY <2>1, <2>2
  <2>4. ASSUME NEW i \in 1 .. n
        PROVE  t[i] = p[i]
    <3>1. n - n + i = i
      BY <1>2
    <3>2. t[i] = b[i]
      BY <2>1, <2>2, <3>1
    <3> QED
      BY <1>3, <3>2
  <2> HIDE DEF t
  <2>5. t = p
    BY <1>2, <2>3, <2>4, SeqEqual
  <2> QED
    BY <2>5 DEF t
<1>5. ASSUME NEW k \in 1 .. r
      PROVE  Rest(k)' = Rest(k)
  <2>1. SlotOf(k) \in Slots /\ SlotOf(k) # Tx_LoadNum /\ SlotOf(k)' = SlotOf(k)
    BY <1>0, <1>1, FirstSlot DEF SlotOf
  <2>2. Left' = Left
    <3>1. 1 \in 1 .. r
      BY <1>2
    <3>2. Tx_DealNum \in Slots /\ Tx_DealNum # Tx_LoadNum
      BY <1>0, <3>1, FirstSlot
    <3> QED
      BY <1>1, <1>3, <3>2 DEF Left
  <2> QED
    BY <1>3, <2>1, <2>2 DEF Rest
<1>6. ASSUME NEW k \in Nat, k = r + 1
      PROVE  Rest(k)' = p
  <2>1. SlotOf(k)' = Tx_LoadNum
    <3>1. SlotOf(k) = Tx_LoadNum
      BY <1>0, <1>6, FirstSlot
    <3> QED
      BY <1>1, <3>1 DEF SlotOf
  <2>2. CASE r = 0
    <3>1. Left' = Len(p)
      <4>1. ~Tx_Flag /\ pc = "poll" /\ Tx_CurPackLen = 0 /\ Tx_DealNum = Tx_LoadNum
        <5>1. SlotOf(0 + 1) = Tx_LoadNum /\ SlotOf(1) = Tx_DealNum /\ 0 + 1 = 1
          BY <1>0, <2>2, FirstSlot
        <5> QED
          BY <1>0, <2>2, <5>1, PipeTypes DEF PipeInv
      <4> QED
        BY <1>1, <1>3, <4>1 DEF Left
    <3>2. Len(p) - Len(p) + 1 = 1
      BY <1>2
    <3> QED
      BY <1>3, <1>4, <1>6, <2>1, <2>2, <3>1, <3>2 DEF Rest
  <2>3. CASE r # 0
    <3>1. k # 1
      BY <1>2, <1>6, <2>3
    <3> QED
      BY <1>3, <1>4, <2>1, <3>1 DEF Rest
  <2> QED
    BY <2>2, <2>3
<1>7. Unsent' = [k \in 1 .. r + 1 |-> Rest(k)']
  BY <1>1 DEF Unsent, Rest, SlotOf
<1>8. /\ Unsent \in Seq(Seq(Byte)) /\ Len(Unsent) = r
      /\ \A k \in 1 .. r : Unsent[k] = Rest(k)
  BY <1>0, UnsentType
<1>9. ASSUME NEW k \in 1 .. r + 1
      PROVE  Rest(k)' = Append(Unsent, p)[k]
  <2>1. /\ \A j \in 1 .. r : Append(Unsent, p)[j] = Unsent[j]
        /\ Append(Unsent, p)[r + 1] = p
    BY <1>2, <1>8, AppendProperties
  <2>2. CASE k \in 1 .. r
    BY <1>5, <1>8, <2>1, <2>2
  <2>3. CASE k = r + 1
    <3>1. k \in Nat
      BY <1>2
    <3>2. Rest(k)' = p
      BY <1>6, <2>3, <3>1
    <3> QED
      BY <2>1, <2>3, <3>2
  <2>4. k \in 1 .. r \/ k = r + 1
    BY <1>2
  <2> QED
    BY <2>2, <2>3, <2>4
<1>10. /\ Append(Unsent, p) \in Seq(Seq(Byte)) /\ Len(Append(Unsent, p)) = r + 1
  BY <1>2, <1>8, AppendProperties
<1>11. Append(Unsent, p) = [k \in 1 .. r + 1 |-> Append(Unsent, p)[k]]
  <2> DEFINE t == Append(Unsent, p)
  <2>1. t \in [1 .. r + 1 -> Seq(Byte)]
    BY <1>10, LenProperties
  <2> HIDE DEF t
  <2>2. t = [k \in 1 .. r + 1 |-> t[k]]
    BY <2>1
  <2> QED
    BY <2>2 DEF t
<1> QED
  BY <1>7, <1>9, <1>11

\* The first packet, and what is in front of the DMA channel.
LEMMA FirstRest ==
  ASSUME Inv, PipeInv, Tx_RemainNum > 0
  PROVE  /\ Unsent # <<>> /\ Head(Unsent) = Rest(1) /\ Rest(1) \in Seq(Byte)
         /\ Len(Rest(1)) = Left
         /\ \A i \in 1 .. Left :
              Rest(1)[i] = Tx_Buf[Tx_DealNum][Tx_PackLen[Tx_DealNum] - Left + i]
<1>1. /\ Unsent \in Seq(Seq(Byte)) /\ Len(Unsent) = Tx_RemainNum
      /\ \A k \in 1 .. Tx_RemainNum : Unsent[k] = Rest(k)
  BY UnsentType
<1>2. 1 \in 1 .. Tx_RemainNum /\ Tx_RemainNum # 0
  BY PipeTypes
<1>3. Unsent # <<>> /\ Head(Unsent) = Unsent[1]
  BY <1>1, <1>2
<1>4. Left \in Nat /\ Left <= Tx_PackLen[Tx_DealNum]
  BY LeftFits
<1>5. /\ Tx_PackLen[Tx_DealNum] \in Nat /\ Tx_PackLen[Tx_DealNum] <= PackMax
      /\ Tx_Buf[Tx_DealNum] \in SlotImage
  BY PipeTypes
<1>6. Rest(1) = SubSeq(Tx_Buf[Tx_DealNum], Tx_PackLen[Tx_DealNum] - Left + 1,
                       Tx_PackLen[Tx_DealNum])
  BY FirstSlot DEF Rest
<1>7. /\ Rest(1) \in Seq(Byte) /\ Len(Rest(1)) = Left
      /\ \A i \in 1 .. Left :
           Rest(1)[i] = Tx_Buf[Tx_DealNum][Tx_PackLen[Tx_DealNum] - Left + i]
  <2> DEFINE b == Tx_Buf[Tx_DealNum]
             n == Tx_PackLen[Tx_DealNum]
             l == Left
  <2>1. b \in SlotImage /\ n \in Nat /\ n <= PackMax /\ l \in Nat /\ l <= n
    BY <1>4, <1>5
  <2> HIDE DEF b, n, l
  <2>2. /\ SubSeq(b, n - l + 1, n) \in Seq(Byte) /\ Len(SubSeq(b, n - l + 1, n)) = l
        /\ \A i \in 1 .. l : SubSeq(b, n - l + 1, n)[i] = b[n - l + i]
    BY <2>1, Slice
  <2>3. Rest(1) = SubSeq(b, n - l + 1, n)
    BY <1>6 DEF b, n, l
  <2>4. /\ Rest(1) \in Seq(Byte) /\ Len(Rest(1)) = l
        /\ \A i \in 1 .. l : Rest(1)[i] = b[n - l + i]
    BY <2>2, <2>3
  <2> QED
    BY <2>4 DEF b, n, l
<1> QED
  BY <1>1, <1>2, <1>3, <1>7

\* A packet that has been sent is retired.
LEMMA DoneRetires ==
  ASSUME Inv, PipeInv, TxDone, CNTR = 0
  PROVE  Unsent # <<>> /\ Head(Unsent) = <<>> /\ Unsent' = Tail(Unsent)
<1>0. PICK r \in Nat : r = Tx_RemainNum
  BY PipeTypes
<1>1. /\ pc = "done" /\ pc' = "poll" /\ Tx_RemainNum > 0 /\ ~Tx_Flag' /\ Tx_CurPackLen' = 0
      /\ UNCHANGED <<Tx_Buf, Tx_LoadNum>>
      /\ Tx_PackLen' = [Tx_PackLen EXCEPT ![Tx_DealNum] = 0]
      /\ Tx_DealNum' = NextSlot(Tx_DealNum) /\ Tx_RemainNum' = r - 1
  BY <1>0, DoneEffect
<1>2. /\ r \in Nat /\ r > 0 /\ r < TxNum /\ Tx_DealNum \in Slots /\ Tx_DealNum \in Nat
      /\ TxNum \in Nat
  BY <1>0, <1>1, PipeTypes, Sizes DEF Slots
<1>3. /\ Unsent # <<>> /\ Head(Unsent) = Rest(1) /\ Rest(1) \in Seq(Byte)
      /\ Len(Rest(1)) = Left
  BY <1>1, FirstRest
<1>4. Rest(1) = <<>>
  <2>1. Left = 0
    BY <1>1 DEF Left
  <2> QED
    BY <1>3, <2>1, EmptySeq
<1>5. /\ Unsent \in Seq(Seq(Byte)) /\ Len(Unsent) = r
      /\ \A k \in 1 .. r : Unsent[k] = Rest(k)
  BY <1>0, UnsentType
<1>6. ASSUME NEW k \in 1 .. r - 1
      PROVE  Rest(k)' = Rest(k + 1)
  <2>1. SlotOf(k)' = SlotOf(k + 1)
    <3>1. k - 1 \in 0 .. TxNum - 1 /\ (k - 1) + 1 = k
      BY <1>2
    <3>2. (NextSlot(Tx_DealNum) + (k - 1)) % TxNum = (Tx_DealNum + ((k - 1) + 1)) % TxNum
      BY <1>2, <3>1, NextSlotMod
    <3>3. /\ NextSlot(Tx_DealNum) + k - 1 = NextSlot(Tx_DealNum) + (k - 1)
          /\ Tx_DealNum + (k + 1) - 1 = Tx_DealNum + ((k - 1) + 1)
      <4>1. NextSlot(Tx_DealNum) \in Nat
        BY <1>2, NextSlotInRing DEF Slots
      <4> QED
        BY <1>2, <4>1
    <3> QED
      BY <1>1, <3>2, <3>3 DEF SlotOf
  <2>2. k + 1 \in 1 .. r /\ k + 1 # 1 /\ 1 \in 0 .. TxNum - 1
    BY <1>2
  <2>3. SlotOf(k + 1) \in Slots /\ SlotOf(k + 1) # Tx_DealNum
    <3>1. k \in 0 .. TxNum - 1 /\ 0 \in 0 .. TxNum - 1 /\ k # 0
      BY <1>2
    <3>2. (Tx_DealNum + k) % TxNum # (Tx_DealNum + 0) % TxNum
      BY <1>2, <3>1, SlotsDiffer
    <3>3. Tx_DealNum + (k + 1) - 1 = Tx_DealNum + k /\ Tx_DealNum + 1 - 1 = Tx_DealNum + 0
      BY <1>2
    <3>4. SlotOf(k + 1) # SlotOf(1)
      BY <3>2, <3>3 DEF SlotOf
    <3> QED
      BY <1>0, <2>2, <3>4, FirstSlot
  <2>4. Tx_PackLen'[SlotOf(k + 1)] = Tx_PackLen[SlotOf(k + 1)]
    BY <1>1, <2>3 DEF Inv, TypeOK
  <2>5. Rest(k + 1) = SubSeq(Tx_Buf[SlotOf(k + 1)], 1, Tx_PackLen[SlotOf(k + 1)])
    BY <2>2 DEF Rest
  <2>6. CASE k = 1
    <3>1. SlotOf(1)' = Tx_DealNum'
      <4>1. Tx_DealNum' \in Nat /\ Tx_DealNum' < TxNum
        BY <1>1, <1>2, NextSlotInRing DEF Slots
      <4>2. Tx_DealNum' + 1 - 1 = Tx_DealNum'
        <5>1. \A n \in Nat : n + 1 - 1 = n
          OBVIOUS
        <5> QED
          BY <4>1, <5>1, Zenon
      <4>3. Tx_DealNum' % TxNum = Tx_DealNum'
        BY <1>2, <4>1, Modulo
      <4> QED
        BY <4>2, <4>3 DEF SlotOf
    <3>2. Left' = Tx_PackLen'[Tx_DealNum']
      BY <1>1 DEF Left
    <3>3. Tx_DealNum' = SlotOf(k + 1)
      BY <2>1, <2>6, <3>1
    <3>4. Tx_PackLen[SlotOf(k + 1)] \in Nat
      BY <2>3, PipeTypes
    <3>5. Tx_PackLen[SlotOf(k + 1)] - Tx_PackLen[SlotOf(k + 1)] + 1 = 1
      BY <3>4
    <3>6. Rest(k)' = SubSeq(Tx_Buf'[SlotOf(k)'], Tx_PackLen'[SlotOf(k)'] - Left' + 1,
                            Tx_PackLen'[SlotOf(k)'])
      BY <2>6 DEF Rest
    <3> QED
      BY <1>1, <2>1, <2>4, <2>5, <3>2, <3>3, <3>5, <3>6
  <2>7. CASE k # 1
    <3>1. Rest(k)' = SubSeq(Tx_Buf'[SlotOf(k)'], 1, Tx_PackLen'[SlotOf(k)'])
      BY <2>7 DEF Rest
    <3> QED
      BY <1>1, <2>1, <2>4, <2>5, <3>1
  <2> QED
    BY <2>6, <2>7
<1>7. Unsent' = [k \in 1 .. r - 1 |-> Rest(k)']
  BY <1>1 DEF Unsent, Rest, SlotOf
<1>8. /\ Tail(Unsent) \in Seq(Seq(Byte)) /\ Len(Tail(Unsent)) = r - 1
      /\ \A k \in 1 .. r - 1 : Tail(Unsent)[k] = Unsent[k + 1]
  BY <1>3, <1>5, HeadTailProperties
<1>9. ASSUME NEW k \in 1 .. r - 1
      PROVE  Rest(k)' = Tail(Unsent)[k]
  <2>1. k + 1 \in 1 .. r
    BY <1>2
  <2> QED
    BY <1>5, <1>6, <1>8, <2>1
<1>10. Tail(Unsent) = [k \in 1 .. r - 1 |-> Tail(Unsent)[k]]
  <2> DEFINE t == Tail(Unsent)
  <2>1. t \in [1 .. r - 1 -> Seq(Byte)]
    BY <1>8, LenProperties
  <2> HIDE DEF t
  <2>2. t = [k \in 1 .. r - 1 |-> t[k]]
    BY <2>1
  <2> QED
    BY <2>2 DEF t
<1> QED
  BY <1>3, <1>4, <1>7, <1>9, <1>10

\* The byte at an offset into a slot.
LEMMA ByteIn ==
  ASSUME NEW s \in Slots, NEW d \in Nat, d < PackMax
  PROVE  ByteAt(s * PackMax + d) = Tx_Buf[s][d + 1]
<1>1. PackMax \in Nat /\ PackMax > 0 /\ s \in Nat
  BY Sizes DEF Slots
<1> DEFINE a == s * PackMax + d
           q == a \div PackMax
           m == a % PackMax
<1>2. s * PackMax \in Nat /\ a \in Nat
  BY <1>1
<1>3. q \in Nat /\ m \in Nat /\ m < PackMax /\ a = PackMax * q + m
  BY <1>1, <1>2
<1>4. PackMax * q + m = s * PackMax + d
  BY <1>3
<1> HIDE DEF a, q, m
<1>5. q = s
  <2>1. PackMax * q \in Nat /\ PackMax * s \in Nat /\ s * PackMax = PackMax * s
    BY <1>1, <1>3
  <2>2. ~(q < s)
    <3>1. q < s => PackMax * (q + 1) <= PackMax * s
      BY <1>1, <1>3, SMTT(30)
    <3>2. PackMax * (q + 1) = PackMax * q + PackMax
      BY <1>1, <1>3
    <3> QED
      BY <1>1, <1>3, <1>4, <2>1, <3>1, <3>2
  <2>3. ~(s < q)
    <3>1. s < q => PackMax * (s + 1) <= PackMax * q
      BY <1>1, <1>3, SMTT(30)
    <3>2. PackMax * (s + 1) = PackMax * s + PackMax
      BY <1>1
    <3> QED
      BY <1>1, <1>3, <1>4, <2>1, <3>1, <3>2
  <2> QED
    BY <1>1, <1>3, <2>2, <2>3
<1>6. m = d
  <2>1. PackMax * q = s * PackMax
    BY <1>1, <1>5
  <2> QED
    BY <1>2, <1>3, <1>4, <2>1
<1>7. ByteAt(a) = Tx_Buf[q][m + 1]
  BY DEF ByteAt, q, m
<1> QED
  BY <1>5, <1>6, <1>7 DEF a

\* The next byte of the first packet goes out.
LEMMA ByteSent ==
  ASSUME Inv, PipeInv, DmaByte, Tx_Flag
  PROVE  /\ Unsent # <<>> /\ Head(Unsent) # <<>>
         /\ line' = Head(Head(Unsent))
         /\ Unsent' = <<Tail(Head(Unsent))>> \o Tail(Unsent)
<1>0. PICK r \in Nat : r = Tx_RemainNum
  BY PipeTypes
<1>1. /\ CNTR > 0 /\ CNTR' = CNTR - 1
      /\ line' = IF MADDR < BufEnd THEN ByteAt(MADDR) ELSE line
      /\ UNCHANGED <<Tx_Buf, Tx_PackLen, Tx_DealNum, Tx_RemainNum, Tx_Flag, pc>>
  BY DEF DmaByte, queue, cur, BufEnd
<1>2. /\ Tx_DealNum \in Slots /\ Tx_DealNum * PackMax \in Nat /\ r > 0
      /\ CNTR \in Nat /\ MADDR \in Nat /\ MADDR + CNTR <= BufEnd
      /\ PackMax \in Nat /\ BufEnd \in Nat
      /\ Tx_PackLen[Tx_DealNum] \in Nat /\ Tx_PackLen[Tx_DealNum] <= PackMax
      /\ Tx_Buf[Tx_DealNum] \in SlotImage
  BY <1>0, PipeTypes, Sizes, SlotInBuffer
<1>3. /\ Unsent # <<>> /\ Head(Unsent) = Rest(1) /\ Rest(1) \in Seq(Byte)
      /\ Len(Rest(1)) = Left
      /\ \A i \in 1 .. Left :
           Rest(1)[i] = Tx_Buf[Tx_DealNum][Tx_PackLen[Tx_DealNum] - Left + i]
  BY <1>0, <1>2, FirstRest
<1>4. Left = CNTR /\ Left' = CNTR - 1
  BY <1>1 DEF Left
<1> DEFINE n == Tx_PackLen[Tx_DealNum]
           l == CNTR
           b == Tx_Buf[Tx_DealNum]
<1>5. /\ l \in Nat /\ l > 0 /\ n \in Nat /\ l <= n /\ n <= PackMax
      /\ MADDR + l = Tx_DealNum * PackMax + n
  <2>1. Left <= Tx_PackLen[Tx_DealNum]
    BY LeftFits
  <2> QED
    BY <1>1, <1>2, <1>4, <2>1 DEF PipeInv, PacketEnd
<1>6. Rest(1) # <<>> /\ Head(Rest(1)) = Rest(1)[1]
  BY <1>3, <1>4, <1>5
<1>7. line' = Rest(1)[1]
  <2>1. MADDR < BufEnd
    BY <1>1, <1>2
  <2>2. n - l \in Nat /\ n - l < PackMax /\ MADDR = Tx_DealNum * PackMax + (n - l)
    <3> HIDE DEF n, l
    <3> QED
      BY <1>2, <1>5
  <2>3. ByteAt(MADDR) = b[(n - l) + 1]
    BY <1>2, <2>2, ByteIn
  <2>4. Rest(1)[1] = b[n - l + 1]
    <3>1. 1 \in 1 .. Left
      BY <1>4, <1>5
    <3> QED
      BY <1>3, <1>4, <3>1
  <2> QED
    BY <1>1, <2>1, <2>3, <2>4
<1>8. Rest(1)' = Tail(Rest(1))
  <2>1. SlotOf(1)' = Tx_DealNum
    <3>1. SlotOf(1) = Tx_DealNum
      BY FirstSlot
    <3> QED
      BY <1>1, <3>1 DEF SlotOf
  <2> DEFINE t == SubSeq(b, n - (l - 1) + 1, n)
  <2>2. Rest(1)' = t
    BY <1>1, <1>4, <2>1 DEF Rest
  <2>3. /\ t \in Seq(Byte) /\ Len(t) = l - 1
        /\ \A i \in 1 .. l - 1 : t[i] = b[n - (l - 1) + i]
    <3>1. l - 1 \in Nat /\ l - 1 <= n /\ b \in SlotImage
      BY <1>2, <1>5
    <3> HIDE DEF l, n, b
    <3> QED
      BY <1>5, <3>1, Slice
  <2>4. /\ Tail(Rest(1)) \in Seq(Byte) /\ Len(Tail(Rest(1))) = l - 1
        /\ \A i \in 1 .. l - 1 : Tail(Rest(1))[i] = Rest(1)[i + 1]
    BY <1>3, <1>4, <1>6, HeadTailProperties
  <2>5. ASSUME NEW i \in 1 .. l - 1
        PROVE  t[i] = Tail(Rest(1))[i]
    <3>1. i + 1 \in 1 .. l /\ n - (l - 1) + i = n - l + (i + 1)
      <4> HIDE DEF l, n
      <4> QED
        BY <1>5
    <3>2. Rest(1)[i + 1] = b[n - l + (i + 1)]
      BY <1>3, <1>4, <3>1
    <3> QED
      BY <2>3, <2>4, <3>1, <3>2
  <2> HIDE DEF t, l
  <2> QED
    BY <2>2, <2>3, <2>4, <2>5, SeqEqual
<1>9. ASSUME NEW k \in 1 .. r, k # 1
      PROVE  Rest(k)' = Rest(k)
  BY <1>1, <1>9 DEF Rest, SlotOf
<1>10. /\ Unsent \in Seq(Seq(Byte)) /\ Len(Unsent) = r
       /\ \A k \in 1 .. r : Unsent[k] = Rest(k)
  BY <1>0, UnsentType
<1>11. /\ Tail(Unsent) \in Seq(Seq(Byte)) /\ Len(Tail(Unsent)) = r - 1
       /\ \A k \in 1 .. r - 1 : Tail(Unsent)[k] = Unsent[k + 1]
  BY <1>3, <1>10, HeadTailProperties
<1> DEFINE first == <<Tail(Rest(1))>>
           all   == first \o Tail(Unsent)
<1>12. /\ first \in Seq(Seq(Byte)) /\ Len(first) = 1 /\ first[1] = Tail(Rest(1))
  BY <1>3, <1>6, HeadTailProperties
<1>13. /\ all \in Seq(Seq(Byte)) /\ Len(all) = r
       /\ \A k \in 1 .. r : all[k] = IF k = 1 THEN Tail(Rest(1)) ELSE Rest(k)
  <2> DEFINE rest == Tail(Unsent)
             S    == Seq(Byte)
  <2>0. first \in Seq(S) /\ rest \in Seq(S) /\ all = first \o rest
    BY <1>11, <1>12
  <2> HIDE DEF first, all, rest, S
  <2>4. /\ first \o rest \in Seq(S) /\ Len(first \o rest) = Len(first) + Len(rest)
        /\ \A k \in 1 .. Len(first) + Len(rest) :
             (first \o rest)[k] = IF k <= Len(first) THEN first[k] ELSE rest[k - Len(first)]
    BY <2>0, ConcatProperties
  <2>1. /\ all \in Seq(Seq(Byte)) /\ Len(all) = Len(first) + Len(Tail(Unsent))
        /\ \A k \in 1 .. Len(first) + Len(Tail(Unsent)) :
             all[k] = IF k <= Len(first) THEN first[k] ELSE Tail(Unsent)[k - Len(first)]
    BY <2>0, <2>4 DEF rest, S
  <2>2. Len(first) + Len(Tail(Unsent)) = r
    BY <1>2, <1>11, <1>12
  <2>3. ASSUME NEW k \in 1 .. r
        PROVE  all[k] = IF k = 1 THEN Tail(Rest(1)) ELSE Rest(k)
    <3> HIDE DEF all
    <3>1. CASE k = 1
      BY <1>12, <2>1, <2>2, <3>1
    <3>2. CASE k # 1
      <4>1. k - 1 \in 1 .. r - 1 /\ (k - 1) + 1 = k /\ ~(k <= 1)
        BY <3>2
      <4>2. Tail(Unsent)[k - 1] = Unsent[k]
        BY <1>11, <4>1
      <4>3. all[k] = Tail(Unsent)[k - 1]
        BY <1>12, <2>1, <2>2, <4>1
      <4> QED
        BY <1>10, <3>2, <4>2, <4>3
    <3> QED
      BY <3>1, <3>2
  <2> QED
    BY <2>1, <2>2, <2>3
<1> HIDE DEF first, all
<1>14. Unsent' = [k \in 1 .. r |-> Rest(k)']
  BY <1>0, <1>1 DEF Unsent, Rest, SlotOf
<1>15. ASSUME NEW k \in 1 .. r
       PROVE  Rest(k)' = all[k]
  <2>1. CASE k = 1
    BY <1>8, <1>13, <2>1
  <2>2. CASE k # 1
    BY <1>9, <1>13, <2>2
  <2> QED
    BY <2>1, <2>2
<1>16. all = [k \in 1 .. r |-> all[k]]
  <2>1. all \in [1 .. r -> Seq(Byte)]
    BY <1>13, LenProperties
  <2> QED
    BY <2>1
<1>17. Unsent' = all
  BY <1>14, <1>15, <1>16
<1> QED
  BY <1>3, <1>6, <1>7, <1>17 DEF all, first

\* Steps that neither send nor take nor retire anything change no packet.
LEMMA QuietStep ==
  ASSUME Inv, PipeInv,
         \/ SetHalt \/ ClearHalt \/ PollSending \/ PollIdle \/ TxLoad \/ TxStart \/ ShiftOut
         \/ (DmaByte /\ ~Tx_Flag) \/ (TxDone /\ CNTR # 0) \/ UNCHANGED vars
  PROVE  Unsent' = Unsent
<1>1. UNCHANGED <<Tx_Buf, Tx_PackLen, Tx_DealNum, Tx_RemainNum>>
  <2>1. CASE UNCHANGED queue
    BY <2>1 DEF queue
  <2>2. CASE TxDone /\ CNTR # 0
    BY <2>2, DoneEffect
  <2> QED
    BY <2>1, <2>2 DEF SetHalt, ClearHalt, PollSending, PollIdle, TxLoad, TxStart, ShiftOut,
       DmaByte, vars
<1>2. Left' = Left
  <2>1. CASE SetHalt \/ ClearHalt \/ ShiftOut \/ UNCHANGED vars
    BY <1>1, <2>1 DEF SetHalt, ClearHalt, ShiftOut, vars, cur, dma, Left
  <2>2. CASE PollSending \/ PollIdle
    BY <1>1, <2>2 DEF PollSending, PollIdle, cur, dma, Left
  <2>3. CASE TxLoad
    <3>1. pc = "load" /\ pc' = "start" /\ ~Tx_Flag /\ ~Tx_Flag'
      BY <2>3, PipeTypes DEF TxLoad
    <3>2. Tx_CurPackLen' = IF Tx_CurPackLen = 0 THEN Tx_PackLen[Tx_DealNum] ELSE Tx_CurPackLen
      BY <2>3 DEF TxLoad
    <3> QED
      BY <1>1, <3>1, <3>2 DEF Left
  <2>4. CASE TxStart
    <3>1. pc = "start" /\ ~Tx_Flag /\ Tx_Flag' /\ CNTR' = Tx_CurPackLen
      BY <2>4, PipeTypes DEF TxStart
    <3>2. Tx_CurPackLen = 0 => Tx_PackLen[Tx_DealNum] = 0
      BY <3>1 DEF PipeInv
    <3> QED
      BY <1>1, <3>1, <3>2 DEF Left
  <2>5. CASE DmaByte /\ ~Tx_Flag
    <3>1. pc # "done" /\ UNCHANGED <<Tx_Flag, Tx_CurPackLen, pc>>
      BY <2>5 DEF DmaByte, cur, PipeInv
    <3> QED
      BY <1>1, <2>5, <3>1 DEF Left
  <2>6. CASE TxDone /\ CNTR # 0
    <3>1. pc = "done" /\ pc' = "poll" /\ ~Tx_Flag' /\ Tx_CurPackLen' = CNTR
      BY <2>6, DoneEffect
    <3> QED
      BY <1>1, <2>6, <3>1 DEF Left
  <2> QED
    BY <2>1, <2>2, <2>3, <2>4, <2>5, <2>6
<1> QED
  BY <1>1, <1>2, SameUnsent, PipeTypes

\* May the channel go on with a packet nobody knows of?
Draining == dmaReq /\ CNTR > 0 /\ ~Tx_Flag

\* Every step of the bridge is one of the pipe, or none, and a reset is one.
LEMMA PipeMaps ==
  ASSUME Inv, PipeInv, Environment, [Next]_vars
  PROVE  \/ PP!Work
         \/ (LineCoding \/ BusReset) /\ PP!Reset
         \/ UNCHANGED <<Unsent, Draining, line>>
<1> USE DEF Draining
<1>1. CASE \E p \in Packets : OutPacket(p)
  <2>1. PICK p \in Packets : OutPacket(p)
    BY <1>1
  <2>2. Unsent' = Append(Unsent, p)
    BY <2>1, OutAccepts
  <2>3. Len(Unsent) < TxNum
    BY UnsentType, PipeTypes
  <2>4. UNCHANGED <<dmaReq, CNTR, Tx_Flag, line>>
    BY <2>1 DEF OutPacket, dma, cur, usart
  <2>5. PP!Accept
    BY <2>2, <2>3, <2>4 DEF PP!Accept
  <2> QED
    BY <2>5 DEF PP!Work
<1>2. CASE LineCoding \/ BusReset
  <2>1. Tx_RemainNum' = 0 /\ line' = line
    BY <1>2 DEF LineCoding, BusReset, ParaInit, usart
  <2>2. Unsent' = <<>>
    <3>1. Unsent' = [k \in 1 .. 0 |-> Rest(k)']
      BY <2>1 DEF Unsent, Rest, SlotOf
    <3> QED
      BY <3>1
  <2>3. PP!Reset
    BY <2>1, <2>2 DEF PP!Reset
  <2> QED
    BY <1>2, <2>3
<1>3. CASE TxDone
  <2>1. UNCHANGED <<dmaReq, CNTR, Tx_Flag, line>>
    BY <1>3 DEF TxDone, dma, usart
  <2>2. CASE CNTR = 0
    <3>1. PP!Retire
      BY <1>3, <2>1, <2>2, DoneRetires DEF PP!Retire
    <3> QED
      BY <3>1 DEF PP!Work
  <2>3. CASE CNTR # 0
    BY <1>3, <2>1, <2>3, QuietStep
  <2> QED
    BY <2>2, <2>3
<1>4. CASE DmaByte
  <2>1. dmaReq /\ CNTR > 0 /\ UNCHANGED <<dmaReq, Tx_Flag>>
    BY <1>4 DEF DmaByte, cur
  <2>2. CASE Tx_Flag
    <3>1. PP!Send
      BY <1>4, <2>1, <2>2, ByteSent DEF PP!Send
    <3> QED
      BY <3>1 DEF PP!Work
  <2>3. CASE ~Tx_Flag
    <3>1. Unsent' = Unsent
      BY <1>4, <2>3, QuietStep
    <3>2. line' \in Byte
      BY FlagStep DEF Inv, FlagType
    <3>3. PP!Drain
      BY <2>1, <2>3, <3>1, <3>2 DEF PP!Drain
    <3> QED
      BY <3>3 DEF PP!Work
  <2> QED
    BY <2>2, <2>3
<1>5. CASE TxStart
  <2>1. Unsent' = Unsent /\ line' = line /\ Tx_Flag'
    BY <1>5, QuietStep DEF TxStart
  <2>2. CASE Draining
    <3>1. line' \in Byte
      BY FlagStep DEF Inv, FlagType
    <3>2. PP!Drain
      BY <2>1, <2>2, <3>1 DEF PP!Drain
    <3> QED
      BY <3>2 DEF PP!Work
  <2>3. CASE ~Draining
    BY <2>1, <2>3
  <2> QED
    BY <2>2, <2>3
<1>6. CASE PollSending
  <2>1. Unsent' = Unsent /\ line' = line /\ Tx_Flag /\ ~dmaReq'
    BY <1>6, QuietStep DEF PollSending
  <2> QED
    BY <2>1
<1>7. CASE SetHalt \/ ClearHalt \/ PollIdle \/ TxLoad \/ ShiftOut \/ UNCHANGED vars
  <2>1. Unsent' = Unsent
    BY <1>7, QuietStep
  <2>2. UNCHANGED <<dmaReq, CNTR, Tx_Flag, line>>
    BY <1>7 DEF SetHalt, ClearHalt, PollIdle, TxLoad, ShiftOut, vars, dma, cur, usart
  <2> QED
    BY <2>1, <2>2
<1> QED
  BY <1>1, <1>2, <1>3, <1>4, <1>5, <1>6, <1>7 DEF Next, MainStep, UsbStep

\* The downlink implements the pipe: what the host hands over goes out byte by byte, once and in
\* order, whatever the USART and the DMA channel make the main loop resume.
THEOREM DownlinkRefinement == ASSUME Environment PROVE Spec => ImplementsPacketPipe
<1>1. Init => PP!Init
  <2> SUFFICES ASSUME Init PROVE PP!Init
    OBVIOUS
  <2>1. Unsent = <<>>
    <3>1. Unsent = [k \in 1 .. 0 |-> Rest(k)]
      BY UnsentIs DEF Init
    <3> QED
      BY <3>1
  <2>2. ~dmaReq /\ line \in Byte
    BY DEF Init
  <2> QED
    BY <2>1, <2>2 DEF PP!Init
<1>2. Inv /\ PipeInv /\ [Next]_vars => [PP!Next]_PP!vars
  BY PipeMaps DEF PP!vars, PP!Next, Draining
<1>4. Inv /\ PipeInv /\ [Next]_vars => [~(LineCoding \/ BusReset) => [PP!Work]_PP!vars]_vars
  BY PipeMaps DEF PP!vars, Draining
<1>3. PipeInv /\ Inv /\ [Next]_vars => PipeInv'
  BY PipeStep
<1> QED
  BY <1>1, <1>2, <1>3, <1>4, PipeInit, Invariance, PTL DEF Spec, ImplementsPacketPipe, PP!Spec
=============================================================================
