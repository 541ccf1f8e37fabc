------------------------------- MODULE CdcUp --------------------------------
(***************************************************************************)
(* The uplink of the USB-UART bridge (USBFS SimulateCDC): a circular DMA   *)
(* channel stores what USART2 receives in UART2_Rx_Buf; the main loop      *)
(* (UART2_DataRx_Deal) follows the channel's counter, and copies full      *)
(* packets, or what is there after a pause, into endpoint 3, which the     *)
(* host fetches.  After a full packet a zero-length one may have to follow.*)
(*                                                                         *)
(* The main loop runs in steps between which the USB interrupt may strike; *)
(* a section with the interrupt disabled is one step.  The two timers TIM2 *)
(* counts are kept as what the code compares them with; like the counters  *)
(* they wrap.                                                              *)
(*                                                                         *)
(* The host is of one of two kinds.  A steady one fetches each packet      *)
(* before the bridge comes to upload another, and leaves the bus and the   *)
(* endpoint alone; any other fetches when it likes, if at all, resets the  *)
(* bus, and sets and clears the halt of the endpoint.                      *)
(***************************************************************************)
EXTENDS Naturals, Sequences

CONSTANTS RxLen,          \* DEF_UARTx_RX_BUF_LEN
          PackSize,       \* DEF_USBD_FS_PACK_SIZE
          Byte,
          Filler,         \* the byte received all the time but for one
          Overrun,        \* may more than RxLen bytes come in unfetched?
          ResetAnywhere   \* may a reset strike between any two steps?

WordSize == 65536         \* uint16_t

ASSUME LenAssumption ==
  /\ PackSize \in Nat \ {0}
  /\ RxLen \in PackSize .. (WordSize - 1) \div 2
ASSUME FillerAssumption == Filler \in Byte
ASSUME ChoiceAssumption == {Overrun, ResetAnywhere} \subseteq BOOLEAN

VARIABLES
  steady,                       \* the host: see below
  Rx_Buf, CNTR,                 \* the buffer, DMA1 channel 6
  LastCount,                    \* UARTx_Rx_DMALastCount
  Rx_RemainLen, Rx_DealPtr,
  Rx_TimeOut,                   \* "fresh", or "expired": >= Rx_TimeOutMax
  USB_Up_IngFlag, USB_Up_Pack0_Flag,
  USB_Up_TimeOut,               \* "short", "pack0": >= 600, "long": >= 60000
  Busy, ep3,                    \* USBFS_Endp_Busy[3], USBFS_EP3_Buf
  txRes,                        \* UEP3_TX_CTRL: response to IN
  pending,                      \* fetched, and the interrupt not served yet
  pc, packlen,                  \* UART2_DataRx_Deal
  chunk                         \* what the host fetched last

ring  == <<Rx_RemainLen, Rx_DealPtr, LastCount>>
rxdma == <<Rx_Buf, CNTR>>
timer == <<Rx_TimeOut, USB_Up_TimeOut>>
flags == <<USB_Up_IngFlag, USB_Up_Pack0_Flag>>
endp  == <<Busy, ep3, txRes, pending, chunk>>
main  == <<pc, packlen>>
vars  == <<steady, ring, rxdma, timer, flags, endp, main>>

DmaOK ==
  /\ Rx_Buf \in [0 .. RxLen - 1 -> Byte]
  /\ CNTR \in 1 .. RxLen /\ LastCount \in 0 .. RxLen

DealOK ==
  /\ Rx_RemainLen \in 0 .. RxLen /\ Rx_DealPtr \in 0 .. RxLen - 1
  /\ pc \in {"poll", "check", "upload", "zero?", "zero"}
  /\ packlen \in 0 .. PackSize
  /\ pc = "upload" => packlen \in 1 .. RxLen - Rx_DealPtr

FlagsOK ==
  /\ steady \in BOOLEAN /\ USB_Up_IngFlag \in BOOLEAN /\ USB_Up_Pack0_Flag \in BOOLEAN
  /\ Rx_TimeOut \in {"fresh", "expired"}
  /\ USB_Up_TimeOut \in {"short", "pack0", "long"}

EndpOK ==
  /\ Busy \in BOOLEAN /\ pending \in BOOLEAN /\ txRes \in {"ACK", "NAK", "STALL"}
  /\ ep3 \in Seq(Byte) /\ Len(ep3) <= PackSize
  /\ chunk \in Seq(Byte) /\ Len(chunk) <= PackSize

TypeOK == DmaOK /\ DealOK /\ FlagsOK /\ EndpOK

\* Where the channel stores the next byte, and how far it is past count c.
WritePtr == RxLen - CNTR
Delta(c) == IF c > CNTR THEN c - CNTR ELSE RxLen - CNTR + c

\* Bytes stored and not counted in Rx_RemainLen yet.
NotCounted == IF LastCount = CNTR THEN 0 ELSE Delta(LastCount) % RxLen

From(ptr, n) == [k \in 1 .. n |-> Rx_Buf[(ptr + k - 1) % RxLen]]

\* A packet waits for the host's IN.
Armed == txRes = "ACK" /\ ~pending

\* UART2_ParaInit, the receive side.
ParaInit ==
  /\ Rx_RemainLen' = 0 /\ Rx_DealPtr' = 0 /\ LastCount' = 0
  /\ Rx_TimeOut' = "fresh" /\ USB_Up_TimeOut' = "short"
  /\ USB_Up_IngFlag' = FALSE /\ USB_Up_Pack0_Flag' = FALSE

Init ==
  /\ steady \in BOOLEAN
  /\ Rx_Buf = [i \in 0 .. RxLen - 1 |-> Filler]
  /\ CNTR = RxLen /\ LastCount = 0
  /\ Rx_RemainLen = 0 /\ Rx_DealPtr = 0
  /\ Rx_TimeOut = "fresh" /\ USB_Up_TimeOut = "short"
  /\ USB_Up_IngFlag = FALSE /\ USB_Up_Pack0_Flag = FALSE
  /\ Busy = FALSE /\ txRes = "NAK" /\ pending = FALSE
  /\ ep3 = <<>> /\ chunk = <<>>
  /\ pc = "poll" /\ packlen = 0

-----------------------------------------------------------------------------
(* UART2_DataRx_Deal.  Outside the sections with the interrupt disabled an *)
(* interrupt is served before the next step, hence ~pending there.         *)

\* Mutants: the reload of the counter is not made up for; the read pointer
\* wraps early.
ReceivedUnwrapped == IF LastCount > CNTR THEN LastCount - CNTR ELSE RxLen - CNTR
NextPtrEarly(ptr) == IF ptr >= RxLen - 1 THEN 0 ELSE ptr

\* Bytes received since the counter was read last.
Received == Delta(LastCount)
\* Rx_DealPtr after a packet that ends before ptr.
NextPtr(ptr) == IF ptr >= RxLen THEN 0 ELSE ptr

\* Follow the counter of the channel (interrupt disabled).
Poll ==
  /\ pc = "poll"
  /\ IF LastCount # CNTR
       THEN /\ LastCount' = CNTR
            /\ Rx_RemainLen' = IF Rx_RemainLen + Received > RxLen
                                 THEN Rx_RemainLen ELSE Rx_RemainLen + Received
            /\ Rx_TimeOut' = "fresh"
       ELSE UNCHANGED <<LastCount, Rx_RemainLen, Rx_TimeOut>>
  /\ pc' = "check"
  /\ UNCHANGED <<Rx_DealPtr, rxdma, steady, USB_Up_TimeOut, flags, endp, packlen>>

\* Mutant: a few bytes wait until there is a full packet.
PackLenFull == IF Rx_RemainLen >= PackSize /\ Rx_DealPtr + PackSize <= RxLen
                 THEN PackSize ELSE 0

\* "Calculate the length of this upload"
PackLen ==
  LET n == IF Rx_RemainLen >= PackSize THEN PackSize
           ELSE IF Rx_TimeOut = "expired" THEN Rx_RemainLen ELSE 0
  IN IF n > RxLen - Rx_DealPtr THEN RxLen - Rx_DealPtr ELSE n

Check ==
  /\ pc = "check" /\ ~pending
  /\ ~ (Rx_RemainLen # 0 /\ USB_Up_IngFlag /\ USB_Up_TimeOut = "long")
  /\ IF Rx_RemainLen # 0 /\ ~USB_Up_IngFlag /\ PackLen # 0
       THEN pc' = "upload" /\ packlen' = PackLen
       ELSE pc' = "zero?" /\ packlen' = 0
  /\ UNCHANGED <<ring, rxdma, steady, timer, flags, endp>>

\* Mutant: the upload is given up, but not its flag.
AfterTimeoutWaiting == TRUE

\* USB_Up_IngFlag once the host has not fetched a packet for too long.
AfterTimeout == FALSE

\* "Set the upload success flag directly if the upload is not successful after
\* the timeout": the endpoint keeps the packet, though.
GiveUp ==
  /\ pc = "check" /\ ~pending
  /\ Rx_RemainLen # 0 /\ USB_Up_IngFlag /\ USB_Up_TimeOut = "long"
  /\ steady => ~Armed
  /\ USB_Up_IngFlag' = AfterTimeout /\ Busy' = FALSE
  /\ pc' = "zero?"
  /\ UNCHANGED <<ring, rxdma, steady, timer, USB_Up_Pack0_Flag, ep3, txRes, pending,
                 chunk, packlen>>

\* USBFS_Endp_DataUp on endpoint 3: a busy endpoint refuses.
DataUp(bytes) ==
  IF Busy THEN UNCHANGED <<Busy, ep3, txRes>>
          ELSE Busy' = TRUE /\ ep3' = bytes /\ txRes' = "ACK"

\* "Upload serial data via usb" (interrupt disabled); what USBFS_Endp_DataUp
\* returns is not looked at.
Upload ==
  /\ pc = "upload" /\ (steady => ~Armed /\ ~pending)
  /\ USB_Up_IngFlag' = TRUE /\ USB_Up_TimeOut' = "short"
  /\ DataUp(From(Rx_DealPtr, packlen))
  /\ Rx_RemainLen' = (Rx_RemainLen + WordSize - packlen) % WordSize
  /\ Rx_DealPtr' = NextPtr(Rx_DealPtr + packlen)
  /\ USB_Up_Pack0_Flag' = (packlen = PackSize \/ USB_Up_Pack0_Flag)
  /\ pc' = "zero?"
  /\ UNCHANGED <<LastCount, rxdma, steady, Rx_TimeOut, pending, chunk, packlen>>

CheckZero ==
  /\ pc = "zero?" /\ ~pending
  /\ pc' = IF USB_Up_Pack0_Flag /\ ~USB_Up_IngFlag /\ USB_Up_TimeOut # "short"
             THEN "zero" ELSE "poll"
  /\ UNCHANGED <<ring, rxdma, steady, timer, flags, endp, packlen>>

\* The zero-length packet (interrupt disabled): USB_Up_IngFlag is set and, the
\* packet not being fetched yet, cleared again.
UploadZero ==
  /\ pc = "zero" /\ (steady => ~Armed /\ ~pending)
  /\ USB_Up_IngFlag' = FALSE /\ USB_Up_TimeOut' = "short"
  /\ USB_Up_Pack0_Flag' = FALSE
  /\ DataUp(<<>>)
  /\ pc' = "poll"
  /\ UNCHANGED <<ring, rxdma, steady, Rx_TimeOut, pending, chunk, packlen>>

-----------------------------------------------------------------------------
(* The host and USBFS_IRQHandler                                           *)

\* The host fetches the packet; until the interrupt is served the hardware
\* answers everything else with NAK.
Fetch ==
  /\ Armed /\ chunk' = ep3 /\ pending' = TRUE
  /\ UNCHANGED <<ring, rxdma, steady, timer, flags, Busy, ep3, txRes, main>>

\* IN on endpoint 3.
InIrq ==
  /\ pending /\ pending' = FALSE
  /\ txRes' = "NAK" /\ Busy' = FALSE /\ USB_Up_IngFlag' = FALSE
  /\ UNCHANGED <<ring, rxdma, steady, timer, USB_Up_Pack0_Flag, ep3, chunk, main>>

MayReset == ~pending /\ (ResetAnywhere \/ pc = "poll")

\* OUT on endpoint 0 after SET_LINE_CODING: UART2_USB_Init.  Endpoint 3 is left
\* alone.
LineCoding ==
  /\ MayReset /\ ParaInit
  /\ CNTR' = RxLen /\ UNCHANGED Rx_Buf
  /\ UNCHANGED <<steady, endp, main>>

\* Bus reset: USBFS_Device_Endp_Init and UART2_ParaInit.  The DMA channel is
\* left alone.
BusReset ==
  /\ ~steady /\ MayReset /\ ParaInit
  /\ txRes' = "NAK" /\ Busy' = FALSE
  /\ UNCHANGED <<rxdma, steady, ep3, pending, chunk, main>>

\* SETUP: SET_FEATURE and CLEAR_FEATURE(ENDPOINT_HALT) of endpoint 3.
Halt(res) ==
  /\ ~steady /\ ~pending /\ txRes' = res
  /\ UNCHANGED <<ring, rxdma, steady, timer, flags, Busy, ep3, pending, chunk, main>>

-----------------------------------------------------------------------------
(* USART2 with DMA1 channel 6, and TIM2                                    *)

\* Bound: the code does not look at the bytes, so it is enough that one byte at a
\* time differs from the others, and none where the order is not asked about.
MayReceive(b) ==
  b # Filler => steady /\ \A i \in DOMAIN Rx_Buf : Rx_Buf[i] = Filler

RxByte(b) ==
  /\ MayReceive(b)
  /\ Overrun \/ Rx_RemainLen + NotCounted + 1 < RxLen
  /\ Rx_Buf' = [Rx_Buf EXCEPT ![WritePtr] = b]
  /\ CNTR' = IF CNTR = 1 THEN RxLen ELSE CNTR - 1
  /\ UNCHANGED <<steady, ring, timer, flags, endp, main>>

\* TIM2_IRQHandler, when a counter comes to a value the code tells apart.
TickRx ==
  /\ Rx_TimeOut = "fresh" /\ Rx_TimeOut' = "expired"
  /\ UNCHANGED <<ring, rxdma, steady, USB_Up_TimeOut, flags, endp, main>>

TickUp ==
  /\ \/ USB_Up_TimeOut = "short" /\ USB_Up_TimeOut' = "pack0"
     \/ USB_Up_TimeOut = "pack0" /\ USB_Up_TimeOut' = "long"
  /\ UNCHANGED <<ring, rxdma, steady, Rx_TimeOut, flags, endp, main>>

\* The same, when a counter wraps and the main loop did not look in time.
Wrap ==
  /\ \/ Rx_TimeOut = "expired" /\ Rx_TimeOut' = "fresh" /\ UNCHANGED USB_Up_TimeOut
     \/ USB_Up_TimeOut = "long" /\ USB_Up_TimeOut' = "short" /\ UNCHANGED Rx_TimeOut
  /\ UNCHANGED <<ring, rxdma, steady, flags, endp, main>>

-----------------------------------------------------------------------------
MainStep == Poll \/ Check \/ GiveUp \/ Upload \/ CheckZero \/ UploadZero

UsbStep ==
  \/ Fetch \/ InIrq \/ LineCoding \/ BusReset
  \/ \E res \in {"STALL", "NAK"} : Halt(res)

Next ==
  \/ MainStep \/ UsbStep \/ TickRx \/ TickUp \/ Wrap
  \/ \E b \in Byte : RxByte(b)

Spec == Init /\ [][Next]_vars

\* The main loop goes round for ever, the timer runs, interrupts are served, and
\* a steady host fetches.
FairSpec ==
  /\ Spec
  /\ WF_vars(MainStep) /\ WF_vars(TickRx) /\ WF_vars(TickUp) /\ WF_vars(InIrq)
  /\ WF_vars(steady /\ Fetch)

-----------------------------------------------------------------------------
(* Properties *)

\* What UART2_DataRx_Deal believes to be unprocessed ends where the channel was
\* when it last looked: the ring is read where it is written.
RingInStep ==
  (Rx_DealPtr + Rx_RemainLen) % RxLen = (RxLen - LastCount) % RxLen

\* A packet is also never copied from beyond the end of the buffer (TypeOK).
Safe == TypeOK /\ RingInStep

\* The main loop comes to look at its timers before they wrap.
InTime == <>[][~Wrap]_vars

\* A host that stops fetching does not block the uplink for ever: bytes waiting
\* behind an upload get their turn.
UploadEnds == InTime => (Rx_RemainLen # 0 /\ USB_Up_IngFlag ~> ~USB_Up_IngFlag)

\* Bytes received reach the endpoint, a few as well as many, if no reset throws
\* them away first.
BytesGoUp == InTime => (Rx_RemainLen # 0 ~> Armed \/ Rx_RemainLen = 0)

\* With a steady host, the uplink implements ByteStream: no byte is lost,
\* repeated or reordered between the DMA channel and the host, and only new line
\* parameters throw any away.  (Of the others nothing is said: to ByteStream they
\* look idle.)
BS == INSTANCE ByteStream WITH
        Capacity <- RxLen + PackSize,
        chunk <- (IF steady THEN chunk ELSE <<>>),
        q <- (IF ~steady THEN <<>>
              ELSE (IF Armed THEN ep3 ELSE <<>>)
                     \o From(Rx_DealPtr, Rx_RemainLen + NotCounted))
ImplementsByteStream == BS!Spec /\ [][~LineCoding => [BS!Work]_BS!vars]_vars
=============================================================================
