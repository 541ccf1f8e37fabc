---------------------------- MODULE CdcUp_proof -----------------------------
(***************************************************************************)
(* Proofs about CdcUp, for every length of the receive ring and of the     *)
(* packets.  Beyond the assumptions of the specification: no more comes in *)
(* than fits, and a reset strikes only between two rounds of the main      *)
(* loop.  The host may do what it likes, except for the refinement.        *)
(***************************************************************************)
EXTENDS CdcUp, Integers, SequenceTheorems, TLAPS

Environment == ~Overrun /\ ~ResetAnywhere

\* What is counted ends where the channel was when the counter was read last, in the
\* same turn of the ring or the next, and what the channel has stored since fits
\* behind it.
RingInv ==
  /\ \/ Rx_DealPtr + Rx_RemainLen = RxLen - LastCount
     \/ Rx_DealPtr + Rx_RemainLen = RxLen - LastCount + RxLen
     \/ Rx_DealPtr + Rx_RemainLen = 0 /\ LastCount = 0
  /\ Rx_RemainLen + NotCounted < RxLen

\* A packet to be uploaded was counted, and nothing has come in between.
PackInv == pc = "upload" => packlen <= Rx_RemainLen

\* With a steady host the endpoint is free for each upload.
EndpInv == steady /\ ~Armed /\ ~pending => ~Busy

IInv == TypeOK /\ RingInv /\ PackInv /\ EndpInv

USE DEF Received, NextPtr, AfterTimeout

-----------------------------------------------------------------------------
(* The constants, and counting *)

LEMMA Sizes ==
  /\ RxLen \in Nat /\ PackSize \in Nat /\ WordSize \in Nat
  /\ 0 < PackSize /\ PackSize <= RxLen /\ RxLen < WordSize
BY LenAssumption DEF WordSize

LEMMA Zeros == 0 \in 0 .. RxLen /\ 0 \in 0 .. RxLen - 1 /\ 0 \in 0 .. PackSize /\ RxLen \in 1 .. RxLen
BY Sizes

\* What the word arithmetic of the counters and of the ring comes to.
LEMMA Remainder ==
  ASSUME NEW n \in Nat, n > 0, NEW x \in Nat, x < 2 * n
  PROVE  x % n = IF x < n THEN x ELSE x - n
<1>1. PICK q \in Int, r \in Int : r = x % n /\ x = n * q + r /\ 0 <= r /\ r < n
  BY SMTT(30)
<1>2. q \in {0, 1}
  BY <1>1, SMTT(30)
<1>3. QED
  BY <1>1, <1>2

LEMMA Counted ==
  ASSUME DmaOK
  PROVE  /\ NotCounted = IF LastCount = CNTR THEN 0 ELSE Delta(LastCount)
         /\ NotCounted \in 0 .. RxLen - 1
         /\ LastCount # CNTR => Delta(LastCount) \in 0 .. RxLen - 1
<1>1. LastCount # CNTR => Delta(LastCount) \in 0 .. RxLen - 1
  BY Sizes DEF DmaOK, Delta
<1>2. LastCount # CNTR => Delta(LastCount) % RxLen = Delta(LastCount)
  <2> DEFINE d == Delta(LastCount)
  <2> HIDE DEF d
  <2>1. d \in 0 .. RxLen - 1 => d % RxLen = d
    BY Remainder, Sizes
  <2>2. QED
    BY <1>1, <2>1 DEF d
<1>3. QED
  BY <1>1, <1>2, Sizes DEF NotCounted

\* From depends on the part of the buffer it is about.
LEMMA Index ==
  ASSUME NEW ptr \in 0 .. RxLen - 1, NEW k \in 0 .. RxLen
  PROVE  /\ (ptr + k) % RxLen = IF ptr + k < RxLen THEN ptr + k ELSE ptr + k - RxLen
         /\ (ptr + k) % RxLen \in 0 .. RxLen - 1
BY Remainder, Sizes

LEMMA FromType ==
  ASSUME DmaOK, NEW ptr \in 0 .. RxLen - 1, NEW n \in 0 .. RxLen
  PROVE  From(ptr, n) \in Seq(Byte) /\ Len(From(ptr, n)) = n
<1>1. \A k \in 1 .. n : Rx_Buf[(ptr + k - 1) % RxLen] \in Byte
  <2> SUFFICES ASSUME NEW k \in 1 .. n PROVE Rx_Buf[(ptr + k - 1) % RxLen] \in Byte
    OBVIOUS
  <2>1. k - 1 \in 0 .. RxLen /\ ptr + (k - 1) = ptr + k - 1
    BY Sizes
  <2>2. (ptr + k - 1) % RxLen \in 0 .. RxLen - 1
    BY <2>1, Index
  <2>3. QED
    BY <2>2 DEF DmaOK
<1>2. n \in Nat
  BY Sizes
<1>3. QED
  BY <1>1, <1>2 DEF From

-----------------------------------------------------------------------------
(* The steps *)

LEMMA InitInv == Init => IInv
<1> SUFFICES ASSUME Init PROVE IInv
  OBVIOUS
<1>1. DmaOK
  BY Zeros, FillerAssumption DEF Init, DmaOK
<1>2. DealOK /\ FlagsOK
  BY Zeros DEF Init, DealOK, FlagsOK
<1>3. <<>> \in Seq(Byte) /\ Len(<<>>) <= PackSize
  BY Sizes
<1>4. EndpOK
  BY <1>3 DEF Init, EndpOK
<1>5. RingInv
  <2>1. NotCounted = 0
    BY <1>1, Counted, Sizes DEF Init, Delta
  <2>2. QED
    BY <2>1, Sizes DEF Init, RingInv
<1>6. PackInv /\ EndpInv
  BY DEF Init, PackInv, EndpInv
<1>7. QED
  BY <1>1, <1>2, <1>4, <1>5, <1>6 DEF IInv, TypeOK

LEMMA PollStep == ASSUME IInv, Poll PROVE IInv'
<1> USE DEF IInv, TypeOK
<1>1. /\ UNCHANGED <<Rx_DealPtr, rxdma, steady, USB_Up_TimeOut, flags, endp, packlen>>
      /\ pc' = "check" /\ LastCount' = CNTR
      /\ Rx_RemainLen' = Rx_RemainLen + NotCounted
      /\ Rx_TimeOut' \in {"fresh", Rx_TimeOut}
  <2>1. Rx_RemainLen \in Nat /\ NotCounted \in Nat /\ Rx_RemainLen + NotCounted < RxLen
    BY Counted, Sizes DEF DealOK, RingInv
  <2>2. CASE LastCount = CNTR
    BY <2>1, <2>2 DEF Poll, NotCounted
  <2>3. CASE LastCount # CNTR
    <3>1. NotCounted = Received
      BY <2>3, Counted
    <3>2. ~(Rx_RemainLen + Received > RxLen)
      BY <2>1, <3>1, Sizes
    <3>3. QED
      BY <2>3, <3>1, <3>2 DEF Poll
  <2>4. QED
    BY <2>2, <2>3
<1>2. DmaOK' /\ FlagsOK' /\ EndpOK'
  BY <1>1, Sizes DEF DmaOK, FlagsOK, EndpOK, rxdma, flags, endp
<1>3. /\ Rx_RemainLen \in Nat /\ NotCounted \in 0 .. RxLen - 1 /\ Rx_DealPtr \in Nat
      /\ Rx_DealPtr < RxLen /\ CNTR \in Nat /\ LastCount \in Nat /\ CNTR <= RxLen
  BY Counted, Sizes DEF DealOK, DmaOK
<1>4. DealOK'
  BY <1>1, <1>3, Sizes DEF DealOK, RingInv
<1>5. RingInv'
  <2>1. NotCounted' = 0
    BY <1>1 DEF NotCounted, rxdma
  <2>2. \/ Rx_DealPtr + Rx_RemainLen' = RxLen - CNTR
        \/ Rx_DealPtr + Rx_RemainLen' = RxLen - CNTR + RxLen
    BY <1>1, <1>3, Counted, Sizes DEF RingInv, Delta, DmaOK
  <2>3. QED
    BY <1>1, <1>3, <2>1, <2>2, Sizes DEF RingInv, rxdma
<1>6. PackInv' /\ EndpInv'
  BY <1>1 DEF PackInv, EndpInv, Armed, endp
<1>7. QED
  BY <1>2, <1>4, <1>5, <1>6

\* What leaves buffer, channel, counts and endpoint alone, and decides on no packet.
LEMMA Aside ==
  ASSUME IInv, UNCHANGED <<steady, ring, rxdma>>, FlagsOK', EndpOK',
         \/ pc' = pc /\ packlen' = packlen
         \/ pc' \in {"poll", "zero?", "zero"} /\ packlen' \in 0 .. PackSize,
         EndpInv'
  PROVE  IInv'
<1> USE DEF IInv, TypeOK
<1>1. DmaOK'
  BY DEF DmaOK, ring, rxdma
<1>2. DealOK' /\ PackInv'
  BY DEF DealOK, PackInv, ring
<1>3. RingInv'
  BY DEF RingInv, NotCounted, Delta, ring, rxdma
<1>4. QED
  BY <1>1, <1>2, <1>3

\* What the main loop decides, and which timer elapses, bears on nothing counted.
LEMMA CheckStep == ASSUME IInv, Check PROVE IInv'
<1> USE DEF IInv, TypeOK
<1>1. UNCHANGED <<ring, rxdma, steady, timer, flags, endp>>
  BY DEF Check
<1>2. FlagsOK' /\ EndpOK' /\ EndpInv'
  BY <1>1 DEF FlagsOK, EndpOK, EndpInv, Armed, timer, flags, endp
<1>3. CASE pc' = "upload" /\ packlen' = PackLen /\ Rx_RemainLen # 0 /\ PackLen # 0
  <2>1. /\ Rx_RemainLen \in Nat /\ Rx_DealPtr \in Nat /\ Rx_DealPtr < RxLen
    BY Sizes DEF DealOK
  <2>2. /\ PackLen \in 1 .. RxLen - Rx_DealPtr /\ PackLen \in 0 .. PackSize
        /\ PackLen <= Rx_RemainLen
    BY <1>3, <2>1, Sizes DEF PackLen
  <2>3. DealOK' /\ PackInv'
    BY <1>1, <1>3, <2>2 DEF DealOK, PackInv, ring
  <2>4. DmaOK' /\ RingInv'
    BY <1>1 DEF DmaOK, RingInv, NotCounted, Delta, ring, rxdma
  <2>5. QED
    BY <1>2, <2>3, <2>4
<1>4. CASE pc' = "zero?" /\ packlen' = 0
  BY <1>1, <1>2, <1>4, Zeros, Aside
<1>5. QED
  BY <1>3, <1>4 DEF Check

\* USBFS_Endp_DataUp, with what is given to it.
LEMMA DataUpEndp ==
  ASSUME IInv, NEW bytes \in Seq(Byte), Len(bytes) <= PackSize, DataUp(bytes),
         UNCHANGED <<steady, pending, chunk>>, steady => ~Armed /\ ~pending
  PROVE  /\ EndpOK' /\ EndpInv'
         /\ steady => Armed' /\ ep3' = bytes
<1> USE DEF IInv, TypeOK
<1>1. EndpOK'
  BY DEF DataUp, EndpOK
<1>2. steady => Armed' /\ ep3' = bytes
  BY DEF DataUp, EndpInv, Armed
<1>3. QED
  BY <1>1, <1>2 DEF EndpInv

LEMMA UploadStep == ASSUME IInv, Upload PROVE IInv'
<1> USE DEF IInv, TypeOK
<1>1. /\ Rx_RemainLen \in Nat /\ Rx_DealPtr \in Nat /\ Rx_DealPtr < RxLen
      /\ packlen \in Nat /\ packlen >= 1 /\ packlen <= RxLen - Rx_DealPtr
      /\ packlen <= Rx_RemainLen /\ packlen <= PackSize /\ Rx_RemainLen <= RxLen
  BY Sizes DEF Upload, DealOK, PackInv
<1>2. Rx_RemainLen' = Rx_RemainLen - packlen
  <2> DEFINE x == Rx_RemainLen + WordSize - packlen
  <2>1. /\ x \in Nat /\ x < 2 * WordSize /\ ~(x < WordSize)
        /\ x - WordSize = Rx_RemainLen - packlen
    BY <1>1, Sizes
  <2>2. Rx_RemainLen' = x % WordSize
    BY DEF Upload
  <2> HIDE DEF x
  <2>3. QED
    BY <2>1, <2>2, Remainder, Sizes
<1>3. Rx_DealPtr' = IF Rx_DealPtr + packlen >= RxLen THEN 0 ELSE Rx_DealPtr + packlen
  BY DEF Upload
<1>4. /\ UNCHANGED <<LastCount, rxdma, steady, Rx_TimeOut, pending, chunk, packlen>>
      /\ pc' = "zero?" /\ USB_Up_IngFlag' = TRUE /\ USB_Up_TimeOut' = "short"
      /\ USB_Up_Pack0_Flag' = (packlen = PackSize \/ USB_Up_Pack0_Flag)
  BY DEF Upload
<1>5. DmaOK' /\ FlagsOK'
  BY <1>4 DEF DmaOK, FlagsOK, rxdma
<1>6. DealOK' /\ PackInv'
  BY <1>1, <1>2, <1>3, <1>4, Sizes DEF DealOK, PackInv
<1>7. EndpOK' /\ EndpInv'
  <2>1. Rx_DealPtr \in 0 .. RxLen - 1 /\ packlen \in 0 .. RxLen
    BY <1>1, Sizes
  <2>2. From(Rx_DealPtr, packlen) \in Seq(Byte) /\ Len(From(Rx_DealPtr, packlen)) = packlen
    BY <2>1, FromType
  <2>3. QED
    BY <1>1, <1>4, <2>2, DataUpEndp DEF Upload
<1>8. RingInv'
  <2>1. NotCounted' = NotCounted
    BY <1>4 DEF NotCounted, Delta, rxdma
  <2>2. NotCounted \in Nat /\ LastCount \in Nat /\ LastCount <= RxLen
    BY Counted, Sizes DEF DmaOK
  <2>3. QED
    BY <1>1, <1>2, <1>3, <1>4, <2>1, <2>2, Sizes DEF RingInv
<1>9. QED
  BY <1>5, <1>6, <1>7, <1>8

LEMMA GiveUpStep == ASSUME IInv, GiveUp PROVE IInv'
<1> USE DEF IInv, TypeOK
<1>1. FlagsOK'
  BY DEF GiveUp, FlagsOK, timer
<1>2. EndpOK' /\ EndpInv'
  BY DEF GiveUp, EndpOK, EndpInv
<1>3. UNCHANGED <<steady, ring, rxdma>> /\ pc' = "zero?" /\ packlen' \in 0 .. PackSize
  BY DEF GiveUp, DealOK
<1>4. QED
  BY <1>1, <1>2, <1>3, Aside

LEMMA ZeroStep == ASSUME IInv, CheckZero \/ UploadZero PROVE IInv'
<1> USE DEF IInv, TypeOK
<1>1. CASE CheckZero
  <2>1. FlagsOK' /\ EndpOK' /\ EndpInv'
    BY <1>1 DEF CheckZero, FlagsOK, EndpOK, EndpInv, Armed, timer, flags, endp
  <2>2. UNCHANGED <<steady, ring, rxdma>> /\ pc' \in {"zero", "poll"} /\ packlen' \in 0 .. PackSize
    BY <1>1 DEF CheckZero, DealOK
  <2>3. QED
    BY <2>1, <2>2, Aside
<1>2. CASE UploadZero
  <2>1. <<>> \in Seq(Byte) /\ Len(<<>>) <= PackSize
    BY Sizes
  <2>2. EndpOK' /\ EndpInv'
    BY <1>2, <2>1, DataUpEndp DEF UploadZero
  <2>3. FlagsOK'
    BY <1>2 DEF UploadZero, FlagsOK
  <2>4. UNCHANGED <<steady, ring, rxdma>> /\ pc' = "poll" /\ packlen' \in 0 .. PackSize
    BY <1>2 DEF UploadZero, DealOK
  <2>5. QED
    BY <2>2, <2>3, <2>4, Aside
<1>3. QED
  BY <1>1, <1>2

LEMMA HostStep ==
  ASSUME IInv, Fetch \/ InIrq \/ \E res \in {"STALL", "NAK"} : Halt(res)
  PROVE  IInv'
<1> USE DEF IInv, TypeOK
<1>1. FlagsOK'
  BY DEF Fetch, InIrq, Halt, FlagsOK, timer, flags
<1>2. EndpOK'
  BY DEF Fetch, InIrq, Halt, EndpOK
<1>3. EndpInv'
  BY DEF Fetch, InIrq, Halt, EndpInv, Armed
<1>4. UNCHANGED <<steady, ring, rxdma>> /\ pc' = pc /\ packlen' = packlen
  BY DEF Fetch, InIrq, Halt, main
<1>5. QED
  BY <1>1, <1>2, <1>3, <1>4, Aside

LEMMA TimerStep == ASSUME IInv, TickRx \/ TickUp \/ Wrap PROVE IInv'
<1> USE DEF IInv, TypeOK
<1>1. UNCHANGED <<steady, ring, rxdma>> /\ pc' = pc /\ packlen' = packlen /\ UNCHANGED <<flags, endp>>
  BY DEF TickRx, TickUp, Wrap, main
<1>2. FlagsOK'
  BY <1>1 DEF TickRx, TickUp, Wrap, FlagsOK, flags
<1>3. EndpOK' /\ EndpInv'
  BY <1>1 DEF EndpOK, EndpInv, Armed, endp
<1>4. QED
  BY <1>1, <1>2, <1>3, Aside

\* A reset comes between two rounds of the main loop.
LEMMA ResetStep ==
  ASSUME IInv, Environment, LineCoding \/ BusReset
  PROVE  IInv'
<1> USE DEF IInv, TypeOK
<1>1. pc = "poll" /\ ParaInit /\ UNCHANGED <<steady, main>>
  BY DEF LineCoding, BusReset, MayReset, Environment
<1>2. DmaOK'
  BY <1>1, Zeros DEF LineCoding, BusReset, DmaOK, ParaInit, rxdma
<1>3. DealOK' /\ FlagsOK' /\ PackInv'
  BY <1>1, Zeros DEF DealOK, FlagsOK, ParaInit, PackInv, main
<1>4. EndpOK' /\ EndpInv'
  <2>1. CASE LineCoding
    BY <2>1 DEF LineCoding, EndpOK, EndpInv, Armed, endp
  <2>2. CASE BusReset
    <3>1. EndpOK'
      BY <2>2 DEF BusReset, EndpOK
    <3>2. ~steady'
      BY <2>2 DEF BusReset
    <3>3. QED
      BY <3>1, <3>2 DEF EndpInv
  <2>3. QED
    BY <2>1, <2>2
<1>5. RingInv'
  <2>1. NotCounted' \in 0 .. RxLen - 1
    <3>1. (DmaOK => NotCounted \in 0 .. RxLen - 1)'
      BY Counted, PTL
    <3>2. QED
      BY <1>2, <3>1, Sizes
  <2>2. Rx_DealPtr' = 0 /\ Rx_RemainLen' = 0 /\ LastCount' = 0
    BY <1>1 DEF ParaInit
  <2>3. Rx_DealPtr' + Rx_RemainLen' = 0 /\ Rx_RemainLen' + NotCounted' < RxLen
    <3>1. NotCounted' \in Nat /\ NotCounted' < RxLen
      BY <2>1, Sizes
    <3>2. Rx_DealPtr' + Rx_RemainLen' = 0
      BY <2>2
    <3>3. Rx_RemainLen' + NotCounted' = NotCounted'
      <4>1. \A n \in Nat : 0 + n = n
        OBVIOUS
      <4>2. QED
        BY <2>2, <3>1, <4>1, Zenon
    <3>4. QED
      BY <3>1, <3>2, <3>3
  <2>4. QED
    BY <2>2, <2>3 DEF RingInv
<1>6. QED
  BY <1>2, <1>3, <1>4, <1>5

\* The byte is stored behind what was received and not processed.
LEMMA RxByteStep ==
  ASSUME IInv, Environment, NEW b \in Byte, RxByte(b)
  PROVE  /\ IInv' /\ NotCounted' = NotCounted + 1
         /\ WritePtr = (Rx_DealPtr + (Rx_RemainLen + NotCounted)) % RxLen
<1> USE DEF IInv, TypeOK
<1>1. /\ Rx_Buf' = [Rx_Buf EXCEPT ![WritePtr] = b]
      /\ CNTR' = (IF CNTR = 1 THEN RxLen ELSE CNTR - 1)
      /\ UNCHANGED <<steady, ring, timer, flags, endp, main>>
      /\ Rx_RemainLen + NotCounted + 1 < RxLen
  BY DEF RxByte, Environment
<1>2. /\ CNTR \in Nat /\ CNTR >= 1 /\ CNTR <= RxLen /\ LastCount \in Nat /\ LastCount <= RxLen
      /\ Rx_RemainLen \in Nat /\ Rx_DealPtr \in Nat /\ Rx_DealPtr < RxLen
      /\ NotCounted \in Nat
      /\ NotCounted = IF LastCount = CNTR THEN 0 ELSE Delta(LastCount)
  BY Counted, Sizes DEF DmaOK, DealOK
<1>3. DmaOK'
  BY <1>1, <1>2, Sizes DEF DmaOK, WritePtr, ring
<1>4. DealOK' /\ FlagsOK' /\ EndpOK' /\ PackInv' /\ EndpInv'
  BY <1>1 DEF DealOK, FlagsOK, EndpOK, PackInv, EndpInv, Armed, ring, timer, flags, endp, main
<1>5. NotCounted' = IF LastCount = CNTR' THEN 0 ELSE Delta(LastCount)'
  <2>1. (DmaOK => NotCounted = IF LastCount = CNTR THEN 0 ELSE Delta(LastCount))'
    BY Counted, PTL
  <2>2. QED
    BY <1>1, <1>3, <2>1 DEF ring
<1>6. NotCounted' = NotCounted + 1
  BY <1>1, <1>2, <1>5, Sizes DEF Delta, ring
<1>7. RingInv'
  BY <1>1, <1>2, <1>6, Sizes DEF RingInv, ring
<1>8. WritePtr = (Rx_DealPtr + (Rx_RemainLen + NotCounted)) % RxLen
  <2> DEFINE n == Rx_RemainLen + NotCounted
  <2>1. n \in 0 .. RxLen /\ Rx_DealPtr \in 0 .. RxLen - 1
    BY <1>1, <1>2, Sizes
  <2>2. (Rx_DealPtr + n) % RxLen = IF Rx_DealPtr + n < RxLen THEN Rx_DealPtr + n
                                                            ELSE Rx_DealPtr + n - RxLen
    <3> HIDE DEF n
    <3>1. QED
      BY <2>1, Index
  <2>3. WritePtr = IF Rx_DealPtr + n < RxLen THEN Rx_DealPtr + n
                                             ELSE Rx_DealPtr + n - RxLen
    BY <1>1, <1>2, Sizes DEF RingInv, WritePtr, Delta
  <2>4. QED
    BY <2>2, <2>3
<1>9. QED
  BY <1>3, <1>4, <1>6, <1>7, <1>8

LEMMA Invariance == ASSUME Environment PROVE Spec => []IInv
<1>1. ASSUME IInv, [Next]_vars PROVE IInv'
  <2>1. CASE MainStep
    BY <1>1, <2>1, PollStep, CheckStep, GiveUpStep, UploadStep, ZeroStep DEF MainStep
  <2>2. CASE UsbStep
    BY <1>1, <2>2, HostStep, ResetStep DEF UsbStep
  <2>3. CASE TickRx \/ TickUp \/ Wrap
    BY <1>1, <2>3, TimerStep
  <2>4. CASE \E b \in Byte : RxByte(b)
    BY <1>1, <2>4, RxByteStep
  <2>5. CASE UNCHANGED vars
    <3>1. FlagsOK' /\ EndpOK' /\ EndpInv'
      BY <1>1, <2>5 DEF IInv, TypeOK, FlagsOK, EndpOK, EndpInv, Armed, vars, timer, flags, endp
    <3>2. UNCHANGED <<steady, ring, rxdma>> /\ pc' = pc /\ packlen' = packlen
      BY <2>5 DEF vars, main
    <3>3. QED
      BY <1>1, <3>1, <3>2, Aside
  <2>6. QED
    BY <1>1, <2>1, <2>2, <2>3, <2>4, <2>5 DEF Next
<1>2. QED
  BY <1>1, InitInv, PTL DEF Spec

\* The ring is read where it is written, wherever the indices wrap, and no packet
\* is copied from beyond its end (Safe), whatever the host does.
THEOREM UplinkIsSafe == Environment => (Spec => []Safe)
<1> SUFFICES ASSUME Environment PROVE Spec => []Safe
  OBVIOUS
<1>1. IInv => Safe
  <2> SUFFICES ASSUME IInv PROVE Safe
    OBVIOUS
  <2> DEFINE x == Rx_DealPtr + Rx_RemainLen
             w == RxLen - LastCount
  <2>1. /\ x \in Nat /\ x < 2 * RxLen /\ w \in Nat /\ w <= RxLen
        /\ x = w \/ x = w + RxLen \/ (x = 0 /\ w = RxLen)
    BY Sizes DEF IInv, TypeOK, DmaOK, DealOK, RingInv
  <2> HIDE DEF x, w
  <2>2. x % RxLen = (IF x < RxLen THEN x ELSE x - RxLen)
    BY <2>1, Remainder, Sizes
  <2>3. w < 2 * RxLen
    BY <2>1, Sizes
  <2>4. w % RxLen = (IF w < RxLen THEN w ELSE w - RxLen)
    BY <2>1, <2>3, Remainder, Sizes
  <2>5. x % RxLen = w % RxLen
    <3> DEFINE a == x % RxLen
               b == w % RxLen
    <3>1. a = (IF x < RxLen THEN x ELSE x - RxLen) /\ b = (IF w < RxLen THEN w ELSE w - RxLen)
      BY <2>2, <2>4
    <3> HIDE DEF a, b
    <3>2. a = b
      BY <2>1, <3>1, Sizes
    <3>3. QED
      BY <3>2 DEF a, b
  <2>6. QED
    BY <2>5 DEF IInv, Safe, RingInStep, x, w
<1>2. QED
  BY <1>1, Invariance, PTL

-----------------------------------------------------------------------------
(* Refinement *)

\* The two parts of the abstract queue, and the abstract variables, by name.
Fetchable == IF Armed THEN ep3 ELSE <<>>
Waiting   == From(Rx_DealPtr, Rx_RemainLen + NotCounted)
Queue     == IF ~steady THEN <<>> ELSE Fetchable \o Waiting
Given     == IF steady THEN chunk ELSE <<>>

LEMMA ConcatParts ==
  ASSUME NEW s \in Seq(Byte), NEW t \in Seq(Byte)
  PROVE  /\ SubSeq(s \o t, 1, Len(s)) = s
         /\ SubSeq(s \o t, Len(s) + 1, Len(s \o t)) = t
         /\ Len(s) \in 0 .. Len(s \o t)
<1>1. /\ Len(s) \in Nat /\ Len(t) \in Nat /\ Len(s \o t) = Len(s) + Len(t)
      /\ s \o t \in Seq(Byte)
      /\ \A i \in 1 .. Len(s) + Len(t) : (s \o t)[i] = IF i <= Len(s) THEN s[i] ELSE t[i - Len(s)]
  BY ConcatProperties, LenProperties
<1> DEFINE a == SubSeq(s \o t, 1, Len(s))
           b == SubSeq(s \o t, Len(s) + 1, Len(s \o t))
<1>2. /\ a \in Seq(Byte) /\ Len(a) = Len(s)
      /\ \A i \in 1 .. Len(s) : a[i] = (s \o t)[i]
  <2>1. \A i \in 1 .. Len(s) : (s \o t)[i] \in Byte
    BY <1>1, ElementOfSeq
  <2> DEFINE c == s \o t
  <2> HIDE DEF c
  <2>2. \A i \in 1 .. Len(s) : c[i] \in Byte
    BY <2>1 DEF c
  <2>3. /\ SubSeq(c, 1, Len(s)) \in Seq(Byte)
        /\ Len(SubSeq(c, 1, Len(s))) = (IF 1 <= Len(s) THEN Len(s) - 1 + 1 ELSE 0)
        /\ \A i \in 1 .. Len(s) - 1 + 1 : SubSeq(c, 1, Len(s))[i] = c[1 + i - 1]
    BY <1>1, <2>2, SubSeqProperties
  <2>4. \A i \in 1 .. Len(s) : SubSeq(c, 1, Len(s))[i] = c[i]
    <3>1. \A i \in 1 .. Len(s) : i \in 1 .. Len(s) - 1 + 1 /\ 1 + i - 1 = i
      BY <1>1
    <3>2. QED
      BY <2>3, <3>1
  <2>5. Len(SubSeq(c, 1, Len(s))) = Len(s)
    BY <1>1, <2>3
  <2>6. QED
    BY <2>3, <2>4, <2>5 DEF c
<1>3. a = s
  <2> HIDE DEF a
  <2>1. \A i \in 1 .. Len(a) : a[i] = s[i]
    BY <1>1, <1>2
  <2>2. QED
    BY <1>2, <2>1, SeqEqual
<1>4. /\ b \in Seq(Byte) /\ Len(b) = Len(t)
      /\ \A i \in 1 .. Len(t) : b[i] = (s \o t)[Len(s) + i]
  <2> DEFINE c == s \o t
             m == Len(s) + 1
  <2>1. \A i \in m .. Len(c) : c[i] \in Byte
    BY <1>1, ElementOfSeq
  <2> HIDE DEF c
  <2>2. /\ SubSeq(c, m, Len(c)) \in Seq(Byte)
        /\ Len(SubSeq(c, m, Len(c))) = (IF m <= Len(c) THEN Len(c) - m + 1 ELSE 0)
        /\ \A i \in 1 .. Len(c) - m + 1 : SubSeq(c, m, Len(c))[i] = c[m + i - 1]
    <3>1. m \in Int /\ Len(c) \in Int
      BY <1>1 DEF c
    <3> HIDE DEF m
    <3>2. QED
      BY <2>1, <3>1, SubSeqProperties
  <2>3. Len(c) = Len(s) + Len(t)
    BY <1>1 DEF c
  <2>4. \A i \in 1 .. Len(t) : i \in 1 .. Len(c) - m + 1 /\ m + i - 1 = Len(s) + i
    BY <1>1, <2>3
  <2>5. Len(SubSeq(c, m, Len(c))) = Len(t)
    BY <1>1, <2>2, <2>3
  <2>6. \A i \in 1 .. Len(t) : SubSeq(c, m, Len(c))[i] = c[Len(s) + i]
    <3> HIDE DEF m
    <3>1. QED
      BY <2>2, <2>4
  <2>7. QED
    BY <2>2, <2>5, <2>6 DEF c
<1>5. b = t
  <2> HIDE DEF b
  <2>1. \A i \in 1 .. Len(b) : b[i] = t[i]
    <3> SUFFICES ASSUME NEW i \in 1 .. Len(b) PROVE b[i] = t[i]
      OBVIOUS
    <3>1. /\ i \in 1 .. Len(t) /\ Len(s) + i \in 1 .. Len(s) + Len(t)
          /\ ~(Len(s) + i <= Len(s)) /\ Len(s) + i - Len(s) = i
      BY <1>1, <1>4
    <3>2. (s \o t)[Len(s) + i] = t[Len(s) + i - Len(s)]
      BY <1>1, <3>1
    <3>3. QED
      BY <1>4, <3>1, <3>2
  <2>2. QED
    BY <1>4, <2>1, SeqEqual
<1>6. QED
  BY <1>1, <1>3, <1>5

\* What is where the endpoint and the ring are between two steps.
LEMMA QueueType ==
  ASSUME IInv
  PROVE  /\ Fetchable \in Seq(Byte) /\ Len(Fetchable) <= PackSize /\ Len(Fetchable) \in Nat
         /\ Rx_RemainLen + NotCounted \in 0 .. RxLen - 1
         /\ Waiting \in Seq(Byte) /\ Len(Waiting) = Rx_RemainLen + NotCounted
<1>1. Rx_RemainLen + NotCounted \in 0 .. RxLen - 1
  BY Counted, Sizes DEF IInv, TypeOK, DealOK, RingInv
<1>2. Rx_RemainLen + NotCounted \in 0 .. RxLen /\ Rx_DealPtr \in 0 .. RxLen - 1 /\ DmaOK
  BY <1>1, Sizes DEF IInv, TypeOK, DealOK
<1>3. Waiting \in Seq(Byte) /\ Len(Waiting) = Rx_RemainLen + NotCounted
  BY <1>2, FromType DEF Waiting
<1>4. Fetchable \in Seq(Byte) /\ Len(Fetchable) <= PackSize
  BY Sizes DEF IInv, TypeOK, EndpOK, Fetchable
<1>5. QED
  BY <1>1, <1>3, <1>4, LenProperties

\* A packet and what is left behind it are what waited.
LEMMA FromSplit ==
  ASSUME DmaOK, NEW ptr \in 0 .. RxLen - 1, NEW n \in 0 .. RxLen, NEW m \in 0 .. n,
         NEW next \in 0 .. RxLen - 1, next = (ptr + m) % RxLen
  PROVE  From(ptr, m) \o From(next, n - m) = From(ptr, n)
<1>1. n \in Nat /\ m \in Nat /\ ptr \in Nat /\ m <= n /\ n <= RxLen /\ n - m \in Nat
  BY Sizes
<1>2. m \in 0 .. RxLen /\ n - m \in 0 .. RxLen
  BY <1>1, Sizes
<1> DEFINE s == From(ptr, m)
           t == From(next, n - m)
           u == From(ptr, n)
<1>3. /\ s \in Seq(Byte) /\ Len(s) = m /\ t \in Seq(Byte) /\ Len(t) = n - m
      /\ u \in Seq(Byte) /\ Len(u) = n
  BY <1>2, FromType
<1>4. /\ \A k \in 1 .. m : s[k] = Rx_Buf[(ptr + k - 1) % RxLen]
      /\ \A k \in 1 .. n - m : t[k] = Rx_Buf[(next + k - 1) % RxLen]
      /\ \A k \in 1 .. n : u[k] = Rx_Buf[(ptr + k - 1) % RxLen]
  BY DEF From
<1> HIDE DEF s, t, u
<1>5. Len(s) + Len(t) = n
  BY <1>1, <1>3
<1>6. /\ s \o t \in Seq(Byte) /\ Len(s \o t) = n
      /\ \A k \in 1 .. n : (s \o t)[k] = IF k <= m THEN s[k] ELSE t[k - m]
  <2>1. /\ s \o t \in Seq(Byte) /\ Len(s \o t) = Len(s) + Len(t)
        /\ \A k \in 1 .. Len(s) + Len(t) :
             (s \o t)[k] = IF k <= Len(s) THEN s[k] ELSE t[k - Len(s)]
    BY <1>3, ConcatProperties
  <2>2. QED
    BY <1>3, <1>5, <2>1
<1>7. \A k \in 1 .. n : (s \o t)[k] = u[k]
  <2> SUFFICES ASSUME NEW k \in 1 .. n PROVE (s \o t)[k] = u[k]
    OBVIOUS
  <2>1. k \in Nat /\ k >= 1
    BY <1>1
  <2>2. CASE k <= m
    <3>1. k \in 1 .. m
      BY <1>1, <2>1, <2>2
    <3>2. QED
      BY <1>4, <1>6, <2>2, <3>1
  <2>3. CASE ~(k <= m)
    <3>1. k - m \in 1 .. n - m /\ (s \o t)[k] = t[k - m]
      <4>1. k - m \in 1 .. n - m
        BY <1>1, <2>1, <2>3
      <4>2. (s \o t)[k] = t[k - m]
        BY <1>6, <2>3
      <4>3. QED
        BY <4>1, <4>2
    <3>2. t[k - m] = Rx_Buf[(next + (k - m) - 1) % RxLen]
      BY <1>4, <3>1
    <3>3. (next + (k - m) - 1) % RxLen = (ptr + k - 1) % RxLen
      <4> DEFINE j == k - m - 1
                 i == k - 1
      <4>1. j \in 0 .. RxLen /\ i \in 0 .. RxLen /\ i = m + j /\ i < RxLen
        BY <1>1, <2>1, <2>3, Sizes
      <4>2. next + (k - m) - 1 = next + j /\ ptr + k - 1 = ptr + i
        BY <1>1, <2>1, Sizes
      <4> HIDE DEF j, i
      <4>3. /\ (next + j) % RxLen = IF next + j < RxLen THEN next + j ELSE next + j - RxLen
            /\ (ptr + i) % RxLen = IF ptr + i < RxLen THEN ptr + i ELSE ptr + i - RxLen
            /\ next = IF ptr + m < RxLen THEN ptr + m ELSE ptr + m - RxLen
        BY <1>2, <4>1, Index
      <4> DEFINE a == (next + j) % RxLen
                 b == (ptr + i) % RxLen
      <4>4. a = (IF next + j < RxLen THEN next + j ELSE next + j - RxLen)
            /\ b = (IF ptr + i < RxLen THEN ptr + i ELSE ptr + i - RxLen)
        BY <4>3
      <4> HIDE DEF a, b
      <4>5. a = b
        BY <1>1, <4>1, <4>3, <4>4, Sizes
      <4>6. QED
        BY <4>2, <4>5 DEF a, b
    <3>4. QED
      BY <1>4, <3>1, <3>2, <3>3
  <2>4. QED
    BY <2>2, <2>3
<1>8. s \o t = u
  <2> DEFINE c == s \o t
  <2>1. c \in Seq(Byte) /\ Len(c) = n /\ \A k \in 1 .. Len(c) : c[k] = u[k]
    BY <1>6, <1>7
  <2> HIDE DEF c
  <2>2. c = u
    BY <1>3, <2>1, SeqEqual
  <2>3. QED
    BY <2>2 DEF c
<1>9. QED
  BY <1>8 DEF s, t, u

LEMMA Constant == ASSUME Next \/ UNCHANGED vars PROVE steady' = steady
BY DEF Next, MainStep, Poll, Check, GiveUp, Upload, CheckZero, UploadZero, UsbStep, Fetch,
   InIrq, LineCoding, BusReset, Halt, TickRx, TickUp, Wrap, RxByte, endp, vars

\* Main loop and timers, but for the uploads, hand nothing on.
LEMMA QuietStep ==
  ASSUME IInv, Poll \/ Check \/ GiveUp \/ CheckZero \/ InIrq \/ TickRx \/ TickUp \/ Wrap
  PROVE  Fetchable' = Fetchable /\ Waiting' = Waiting /\ chunk' = chunk
<1>1. chunk' = chunk /\ rxdma' = rxdma
  BY DEF Poll, Check, GiveUp, CheckZero, InIrq, TickRx, TickUp, Wrap, endp
<1>2. Fetchable' = Fetchable
  <2>1. CASE InIrq
    BY <2>1 DEF InIrq, Fetchable, Armed
  <2>2. CASE ~InIrq
    BY <2>2 DEF Poll, Check, GiveUp, CheckZero, TickRx, TickUp, Wrap, endp, Fetchable, Armed
  <2>3. QED
    BY <2>1, <2>2
<1>3. Rx_DealPtr' = Rx_DealPtr
  BY DEF Poll, Check, GiveUp, CheckZero, InIrq, TickRx, TickUp, Wrap, ring
<1>4. Rx_RemainLen' + NotCounted' = Rx_RemainLen + NotCounted
  <2>1. CASE Poll
    <3>1. DmaOK /\ DealOK /\ RingInv
      BY DEF IInv, TypeOK
    <3>2. Rx_RemainLen \in Nat /\ NotCounted \in Nat /\ Rx_RemainLen + NotCounted < RxLen
      BY <3>1, Counted, Sizes DEF DealOK, RingInv
    <3>3. Rx_RemainLen' = Rx_RemainLen + NotCounted
      <4>1. CASE LastCount = CNTR
        BY <2>1, <3>2, <4>1 DEF Poll, NotCounted
      <4>2. CASE LastCount # CNTR
        <5>1. NotCounted = Received
          BY <3>1, <4>2, Counted
        <5>2. ~(Rx_RemainLen + Received > RxLen)
          BY <3>2, <5>1, Sizes
        <5>3. QED
          BY <2>1, <4>2, <5>1, <5>2 DEF Poll
      <4>3. QED
        BY <4>1, <4>2
    <3>4. NotCounted' = 0
      BY <2>1 DEF Poll, NotCounted, rxdma
    <3>5. \A n \in Nat : n + 0 = n
      OBVIOUS
    <3>6. Rx_RemainLen + NotCounted \in Nat
      BY <3>2
    <3>7. QED
      BY <3>3, <3>4, <3>5, <3>6, Zenon
  <2>2. CASE ~Poll
    BY <2>2 DEF Check, GiveUp, CheckZero, InIrq, TickRx, TickUp, Wrap, ring, rxdma,
         NotCounted, Delta
  <2>3. QED
    BY <2>1, <2>2
<1>5. Rx_Buf' = Rx_Buf
  BY <1>1 DEF rxdma
<1>6. Waiting' = Waiting
  BY <1>3, <1>4, <1>5 DEF Waiting, From
<1>7. QED
  BY <1>1, <1>2, <1>6

\* An upload moves the oldest bytes from the ring to the endpoint.
LEMMA UploadMoves ==
  ASSUME IInv, steady, Upload
  PROVE  Fetchable' \o Waiting' = Fetchable \o Waiting /\ chunk' = chunk
<1> DEFINE n == Rx_RemainLen + NotCounted
<1>1. /\ ~Armed /\ ~pending /\ UNCHANGED <<LastCount, rxdma, steady, pending, chunk>>
      /\ DataUp(From(Rx_DealPtr, packlen))
      /\ Rx_DealPtr' = NextPtr(Rx_DealPtr + packlen)
  BY DEF Upload
<1>2. /\ Rx_DealPtr \in 0 .. RxLen - 1 /\ packlen \in Nat /\ packlen >= 1
      /\ packlen <= RxLen - Rx_DealPtr /\ packlen <= Rx_RemainLen /\ packlen <= PackSize
      /\ Rx_RemainLen \in Nat /\ Rx_RemainLen <= RxLen /\ DmaOK
  BY Sizes DEF Upload, IInv, TypeOK, DealOK, PackInv
<1>3. NotCounted \in Nat /\ NotCounted' = NotCounted /\ n \in 0 .. RxLen
  <2>1. NotCounted' = NotCounted
    BY <1>1 DEF NotCounted, Delta, rxdma
  <2>2. NotCounted \in Nat
    BY <1>2, Counted, Sizes
  <2>3. QED
    BY <2>1, <2>2, QueueType, Sizes
<1>4. Rx_RemainLen' = Rx_RemainLen - packlen
  <2> DEFINE x == Rx_RemainLen + WordSize - packlen
  <2>1. /\ x \in Nat /\ x < 2 * WordSize /\ ~(x < WordSize)
        /\ x - WordSize = Rx_RemainLen - packlen
    BY <1>2, Sizes
  <2>2. Rx_RemainLen' = x % WordSize
    BY DEF Upload
  <2> HIDE DEF x
  <2>3. QED
    BY <2>1, <2>2, Remainder, Sizes
<1>5. Rx_RemainLen' + NotCounted' = n - packlen
  BY <1>2, <1>3, <1>4
<1>6. Rx_DealPtr' = (Rx_DealPtr + packlen) % RxLen /\ Rx_DealPtr' \in 0 .. RxLen - 1
  <2>1. packlen \in 0 .. RxLen
    BY <1>2, Sizes
  <2>2. /\ (Rx_DealPtr + packlen) % RxLen =
             IF Rx_DealPtr + packlen < RxLen THEN Rx_DealPtr + packlen
                                             ELSE Rx_DealPtr + packlen - RxLen
        /\ (Rx_DealPtr + packlen) % RxLen \in 0 .. RxLen - 1
    BY <1>2, <2>1, Index
  <2>3. Rx_DealPtr' = IF Rx_DealPtr + packlen < RxLen THEN Rx_DealPtr + packlen
                                                      ELSE Rx_DealPtr + packlen - RxLen
    BY <1>1, <1>2, Sizes
  <2>4. QED
    BY <2>2, <2>3
<1>7. packlen \in 0 .. n /\ packlen \in 0 .. RxLen
  BY <1>2, <1>3, Sizes
<1> HIDE DEF n
<1>8. From(Rx_DealPtr, packlen) \in Seq(Byte) /\ Len(From(Rx_DealPtr, packlen)) <= PackSize
  BY <1>2, <1>7, FromType
<1>9. Armed' /\ ep3' = From(Rx_DealPtr, packlen)
  BY <1>1, <1>8, DataUpEndp
<1>10. Waiting' = From(Rx_DealPtr', n - packlen)
  BY <1>1, <1>5 DEF Waiting, From, rxdma
<1>11. From(Rx_DealPtr, packlen) \o From(Rx_DealPtr', n - packlen) = From(Rx_DealPtr, n)
  <2> DEFINE next == Rx_DealPtr'
  <2>1. next \in 0 .. RxLen - 1 /\ next = (Rx_DealPtr + packlen) % RxLen
    BY <1>6
  <2> HIDE DEF next
  <2>2. From(Rx_DealPtr, packlen) \o From(next, n - packlen) = From(Rx_DealPtr, n)
    BY <1>2, <1>3, <1>7, <2>1, FromSplit
  <2>3. QED
    BY <2>2 DEF next
<1>12. Fetchable' \o Waiting' = From(Rx_DealPtr, n)
  BY <1>9, <1>10, <1>11 DEF Fetchable
<1>13. Fetchable \o Waiting = From(Rx_DealPtr, n)
  <2>1. Fetchable = <<>> /\ Waiting = From(Rx_DealPtr, n)
    BY <1>1 DEF Fetchable, Waiting, n
  <2>2. Waiting \in Seq(Byte)
    BY QueueType
  <2>3. QED
    BY <2>1, <2>2, ConcatEmptySeq
<1>14. QED
  BY <1>1, <1>12, <1>13

LEMMA ZeroMoves ==
  ASSUME IInv, steady, UploadZero
  PROVE  Fetchable' = Fetchable /\ Waiting' = Waiting /\ chunk' = chunk
<1>1. /\ ~Armed /\ ~pending /\ UNCHANGED <<ring, rxdma, steady, pending, chunk>>
      /\ DataUp(<<>>)
  BY DEF UploadZero
<1>2. <<>> \in Seq(Byte) /\ Len(<<>>) <= PackSize
  BY Sizes
<1>3. Armed' /\ ep3' = <<>>
  BY <1>1, <1>2, DataUpEndp
<1>4. Waiting' = Waiting
  BY <1>1 DEF Waiting, From, NotCounted, Delta, ring, rxdma
<1>5. QED
  BY <1>1, <1>3, <1>4 DEF Fetchable

\* The host takes what is in the endpoint.
LEMMA FetchMoves ==
  ASSUME IInv, steady, Fetch
  PROVE  chunk' = Fetchable /\ Fetchable' = <<>> /\ Waiting' = Waiting
<1>1. Armed /\ chunk' = ep3 /\ pending' = TRUE /\ UNCHANGED <<ring, rxdma>>
  BY DEF Fetch
<1>2. Waiting' = Waiting
  BY <1>1 DEF Waiting, From, NotCounted, Delta, ring, rxdma
<1>3. QED
  BY <1>1, <1>2 DEF Fetchable, Armed

\* A new line coding throws away what waits in the ring.
LEMMA LineMoves ==
  ASSUME IInv, IInv', LineCoding
  PROVE  chunk' = chunk /\ Fetchable' = Fetchable /\ Waiting' = <<>>
<1>1. UNCHANGED endp /\ ParaInit /\ CNTR' = RxLen
  BY DEF LineCoding
<1>2. chunk' = chunk /\ Fetchable' = Fetchable
  BY <1>1 DEF endp, Fetchable, Armed
<1>3. NotCounted' = 0
  <2>1. (DmaOK => NotCounted = IF LastCount = CNTR THEN 0 ELSE Delta(LastCount))'
    BY Counted, PTL
  <2>2. DmaOK'
    BY DEF IInv, TypeOK
  <2>3. LastCount' = 0
    BY <1>1 DEF ParaInit
  <2>4. Delta(LastCount)' = 0
    BY <1>1, <2>3, Sizes DEF Delta
  <2>5. QED
    BY <2>1, <2>2, <2>4
<1>4. Rx_RemainLen' = 0 /\ Rx_RemainLen' + NotCounted' = 0
  <2>1. Rx_RemainLen' = 0
    BY <1>1 DEF ParaInit
  <2>2. 0 + 0 = 0
    OBVIOUS
  <2>3. QED
    BY <1>3, <2>1, <2>2, Zenon
<1>5. (IInv => Waiting \in Seq(Byte) /\ Len(Waiting) = Rx_RemainLen + NotCounted)'
  BY QueueType, PTL
<1>6. Waiting' \in Seq(Byte) /\ Len(Waiting') = 0
  BY <1>4, <1>5
<1>7. Waiting' = <<>>
  <2>1. \A s \in Seq(Byte) : Len(s) = 0 => s = <<>>
    BY EmptySeq
  <2>2. QED
    BY <1>6, <2>1
<1>8. QED
  BY <1>2, <1>7

\* A sequence with one element more.
LEMMA OneMore ==
  ASSUME NEW s \in Seq(Byte), NEW t \in Seq(Byte), Len(t) = Len(s) + 1,
         \A k \in 1 .. Len(s) : t[k] = s[k]
  PROVE  t[Len(s) + 1] \in Byte /\ t = Append(s, t[Len(s) + 1])
<1> DEFINE n == Len(s)
           x == t[n + 1]
           g == Append(s, x)
<1>1. n \in Nat /\ Len(t) = n + 1 /\ n + 1 \in 1 .. Len(t)
  BY LenProperties
<1> HIDE DEF n
<1>2. x \in Byte
  BY <1>1, ElementOfSeq
<1>3. g \in Seq(Byte) /\ Len(g) = n + 1 /\ g[n + 1] = x /\ \A k \in 1 .. n : g[k] = s[k]
  <2> HIDE DEF x
  <2>1. QED
    BY <1>2, AppendProperties DEF n
<1>4. \A k \in 1 .. Len(t) : t[k] = g[k]
  <2> SUFFICES ASSUME NEW k \in 1 .. Len(t) PROVE t[k] = g[k]
    OBVIOUS
  <2> HIDE DEF g
  <2>1. k \in 1 .. n \/ k = n + 1
    BY <1>1
  <2>2. \A j \in 1 .. n : t[j] = s[j]
    BY DEF n
  <2>3. QED
    BY <1>3, <2>1, <2>2
<1>5. t = g
  <2> HIDE DEF g
  <2>1. QED
    BY <1>1, <1>3, <1>4, SeqEqual
<1>6. QED
  BY <1>2, <1>5 DEF n

\* A byte that comes in is stored behind the others.
LEMMA RxMoves ==
  ASSUME IInv, Environment, NEW b \in Byte, RxByte(b)
  PROVE  chunk' = chunk /\ Fetchable' = Fetchable /\ Waiting' = Append(Waiting, b)
<1> DEFINE n == Rx_RemainLen + NotCounted
<1>1. /\ Rx_Buf' = [Rx_Buf EXCEPT ![WritePtr] = b]
      /\ UNCHANGED <<ring, endp>>
  BY DEF RxByte
<1>2. /\ IInv' /\ NotCounted' = NotCounted + 1
      /\ WritePtr = (Rx_DealPtr + n) % RxLen
  BY RxByteStep
<1>3. /\ n \in 0 .. RxLen - 1 /\ Len(Waiting) = n
      /\ Rx_RemainLen \in Nat /\ NotCounted \in Nat /\ Rx_DealPtr \in 0 .. RxLen - 1
  BY QueueType, Counted, Sizes DEF IInv, TypeOK, DealOK
<1>4. Rx_RemainLen' + NotCounted' = n + 1
  BY <1>1, <1>2, <1>3 DEF ring
<1>5. (IInv => Waiting \in Seq(Byte) /\ Len(Waiting) = Rx_RemainLen + NotCounted)'
  BY QueueType, PTL
<1>6. Waiting' \in Seq(Byte) /\ Len(Waiting') = n + 1
  BY <1>2, <1>4, <1>5
<1>7. \A k \in 1 .. n : Waiting'[k] = Waiting[k]
  <2> SUFFICES ASSUME NEW k \in 1 .. n PROVE Waiting'[k] = Waiting[k]
    OBVIOUS
  <2> DEFINE i == (Rx_DealPtr + k - 1) % RxLen
  <2>1. k \in 1 .. n + 1 /\ k - 1 \in 0 .. RxLen /\ n \in 0 .. RxLen
    BY <1>3, Sizes
  <2>2. Waiting[k] = Rx_Buf[i]
    BY DEF Waiting, From
  <2>3. Waiting'[k] = Rx_Buf'[i]
    BY <1>1, <1>4, <2>1 DEF Waiting, From, ring
  <2>4. i # WritePtr
    <3>1. Rx_DealPtr + k - 1 = Rx_DealPtr + (k - 1)
      BY <1>3, <2>1, Sizes
    <3>2. /\ i = IF Rx_DealPtr + (k - 1) < RxLen THEN Rx_DealPtr + (k - 1)
                                                  ELSE Rx_DealPtr + (k - 1) - RxLen
          /\ WritePtr = IF Rx_DealPtr + n < RxLen THEN Rx_DealPtr + n
                                                  ELSE Rx_DealPtr + n - RxLen
      <4> HIDE DEF n
      <4>1. QED
        BY <1>2, <1>3, <2>1, <3>1, Index
    <3> HIDE DEF i, n
    <3>3. QED
      BY <1>3, <2>1, <3>2, Sizes
  <2>5. Rx_Buf'[i] = Rx_Buf[i]
    BY <1>1, <2>4
  <2>6. QED
    BY <2>2, <2>3, <2>5
<1>8. Waiting'[n + 1] = b
  <2>1. n + 1 \in 1 .. n + 1 /\ Rx_DealPtr + (n + 1) - 1 = Rx_DealPtr + n
    BY <1>3, Sizes
  <2>2. Waiting'[n + 1] = Rx_Buf'[(Rx_DealPtr + (n + 1) - 1) % RxLen]
    BY <1>1, <1>4, <2>1 DEF Waiting, From, ring
  <2>3. Waiting'[n + 1] = Rx_Buf'[WritePtr]
    BY <1>2, <2>1, <2>2
  <2>4. Rx_Buf \in [0 .. RxLen - 1 -> Byte] /\ WritePtr \in 0 .. RxLen - 1
    <3>1. n \in 0 .. RxLen
      BY <1>3, Sizes
    <3> HIDE DEF n
    <3>2. WritePtr \in 0 .. RxLen - 1
      BY <1>2, <1>3, <3>1, Index
    <3>3. QED
      BY <3>2 DEF IInv, TypeOK, DmaOK
  <2>5. QED
    BY <1>1, <2>3, <2>4
<1>9. chunk' = chunk /\ Fetchable' = Fetchable
  BY <1>1 DEF endp, Fetchable, Armed
<1>10. Waiting' = Append(Waiting, b)
  <2> DEFINE new == Waiting'
  <2>1. /\ Waiting \in Seq(Byte) /\ new \in Seq(Byte) /\ Len(new) = Len(Waiting) + 1
        /\ \A k \in 1 .. Len(Waiting) : new[k] = Waiting[k]
    BY <1>3, <1>6, <1>7, QueueType
  <2>2. new[Len(Waiting) + 1] = b
    BY <1>3, <1>8
  <2> HIDE DEF new
  <2>3. new = Append(Waiting, b)
    BY <2>1, <2>2, OneMore
  <2>4. QED
    BY <2>3 DEF new
<1>11. QED
  BY <1>9, <1>10

LEMMA QueueStep ==
  ASSUME IInv, IInv', Environment, steady, Next
  PROVE  \/ Queue' = Queue /\ Given' = Given
         \/ /\ Len(Queue) < RxLen + PackSize
            /\ (\E x \in Byte : Queue' = Append(Queue, x)) /\ Given' = Given
         \/ \E n \in 0 .. Len(Queue) :
              /\ Given' = SubSeq(Queue, 1, n)
              /\ Queue' = SubSeq(Queue, n + 1, Len(Queue))
         \/ /\ LineCoding
            /\ \E n \in 0 .. Len(Queue) : Queue' = SubSeq(Queue, 1, n) /\ Given' = Given
<1>1. /\ Queue = Fetchable \o Waiting /\ Queue' = Fetchable' \o Waiting'
      /\ Given = chunk /\ Given' = chunk'
  BY Constant DEF Queue, Given
<1>2. /\ Fetchable \in Seq(Byte) /\ Len(Fetchable) <= PackSize /\ Len(Fetchable) \in Nat
      /\ Waiting \in Seq(Byte) /\ Len(Waiting) \in Nat /\ Len(Waiting) < RxLen
  BY QueueType, Sizes
<1>3. /\ SubSeq(Queue, 1, Len(Fetchable)) = Fetchable
      /\ SubSeq(Queue, Len(Fetchable) + 1, Len(Queue)) = Waiting
      /\ Len(Fetchable) \in 0 .. Len(Queue)
  BY <1>1, <1>2, ConcatParts
<1>4. CASE Poll \/ Check \/ GiveUp \/ CheckZero \/ InIrq \/ TickRx \/ TickUp \/ Wrap
  BY <1>1, <1>4, QuietStep
<1>5. CASE Upload \/ UploadZero
  BY <1>1, <1>5, UploadMoves, ZeroMoves
<1>6. CASE Fetch
  <2>1. Given' = Fetchable /\ Fetchable' = <<>> /\ Waiting' = Waiting
    BY <1>1, <1>6, FetchMoves
  <2>2. Queue' = Waiting
    BY <1>1, <1>2, <2>1, ConcatEmptySeq
  <2>3. QED
    BY <1>3, <2>1, <2>2
<1>7. CASE LineCoding
  <2>1. Given' = Given /\ Fetchable' = Fetchable /\ Waiting' = <<>>
    BY <1>1, <1>7, LineMoves
  <2>2. Queue' = Fetchable
    BY <1>1, <1>2, <2>1, ConcatEmptySeq
  <2>3. QED
    BY <1>3, <1>7, <2>1, <2>2
<1>8. CASE \E b \in Byte : RxByte(b)
  <2>1. PICK x \in Byte : RxByte(x)
    BY <1>8
  <2>2. Given' = Given /\ Fetchable' = Fetchable /\ Waiting' = Append(Waiting, x)
    BY <1>1, <2>1, RxMoves
  <2>3. <<x>> \in Seq(Byte)
    OBVIOUS
  <2>4. Queue \in Seq(Byte) /\ Len(Queue) = Len(Fetchable) + Len(Waiting)
    BY <1>1, <1>2, ConcatProperties
  <2>5. Queue' = Fetchable \o Append(Waiting, x)
    BY <1>1, <2>2
  <2>6. Append(Waiting, x) = Waiting \o <<x>>
    BY <1>2, AppendIsConcat
  <2>7. (Fetchable \o Waiting) \o <<x>> = Fetchable \o (Waiting \o <<x>>)
    BY <1>2, <2>3, ConcatAssociative
  <2>8. Append(Queue, x) = Queue \o <<x>>
    BY <2>4, AppendIsConcat
  <2>9. Queue' = Append(Queue, x)
    BY <1>1, <2>5, <2>6, <2>7, <2>8
  <2>10. Len(Queue) < RxLen + PackSize
    BY <1>2, <2>4, Sizes
  <2>11. QED
    BY <2>2, <2>9, <2>10
<1>9. CASE BusReset \/ \E res \in {"STALL", "NAK"} : Halt(res)
  BY <1>9 DEF BusReset, Halt
<1>10. QED
  BY <1>4, <1>5, <1>6, <1>7, <1>8, <1>9 DEF Next, MainStep, UsbStep

\* With a steady host the uplink implements ByteStream: every byte that came in is
\* handed on once and in order, whatever the lengths of ring and packets.
THEOREM UplinkRefinement == Environment => (Spec => ImplementsByteStream)
<1> SUFFICES ASSUME Environment PROVE Spec => ImplementsByteStream
  OBVIOUS
<1> USE DEF BS!Init, BS!Next, BS!Work, BS!Receive, BS!Deliver, BS!Reset, BS!vars
<1>1. Init => BS!Init
  <2> SUFFICES ASSUME Init PROVE Queue = <<>> /\ Given = <<>>
    BY DEF Queue, Given, Fetchable, Waiting
  <2>1. Given = <<>> /\ Fetchable = <<>>
    BY DEF Init, Given, Fetchable, Armed
  <2>2. Waiting \in Seq(Byte) /\ Len(Waiting) = 0
    <3>1. IInv
      BY InitInv
    <3>2. DmaOK /\ LastCount # CNTR /\ Delta(LastCount) = 0
      BY <3>1, Sizes DEF Init, Delta, IInv, TypeOK
    <3>3. Rx_RemainLen = 0 /\ NotCounted = 0
      BY <3>2, Counted DEF Init
    <3>4. QED
      BY <3>1, <3>3, QueueType
  <2>3. Waiting = <<>>
    <3>1. \A s \in Seq(Byte) : Len(s) = 0 => s = <<>>
      BY EmptySeq
    <3>2. QED
      BY <2>2, <3>1
  <2>4. <<>> \in Seq(Byte) /\ <<>> \o <<>> = <<>>
    BY ConcatEmptySeq
  <2>5. QED
    BY <2>1, <2>3, <2>4 DEF Queue
<1>2. IInv /\ IInv' /\ [Next]_vars =>
        [BS!Next]_BS!vars /\ [~LineCoding => [BS!Work]_BS!vars]_vars
  <2>1. ASSUME IInv, IInv', Next, steady
        PROVE  BS!Work \/ UNCHANGED BS!vars \/ (LineCoding /\ BS!Next)
    BY <2>1, QueueStep DEF Queue, Given, Fetchable, Waiting
  <2>2. ASSUME Next \/ UNCHANGED vars, ~steady PROVE UNCHANGED BS!vars
    BY <2>2, Constant
  <2>3. ASSUME UNCHANGED vars, steady PROVE UNCHANGED BS!vars
    BY <2>3 DEF vars, ring, rxdma, endp, Armed, From, NotCounted, Delta
  <2>4. QED
    BY <2>1, <2>2, <2>3
<1>3. QED
  BY <1>1, <1>2, Invariance, PTL DEF Spec, BS!Spec, ImplementsByteStream
=============================================================================
