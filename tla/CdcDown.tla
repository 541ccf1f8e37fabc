------------------------------ MODULE CdcDown -------------------------------
(***************************************************************************)
(* The downlink of the USB-UART bridge (USBFS SimulateCDC): packets the    *)
(* host sends to endpoint 2 are stored in UART2_Tx_Buf by the USB          *)
(* interrupt, and the main loop (UART2_DataTx_Deal) sends them with a DMA  *)
(* channel.  The interrupt suspends the host (NAK) when the buffer is      *)
(* nearly full, the main loop lets it go on.  SET_LINE_CODING, a bus reset *)
(* and CLEAR_FEATURE(HALT) change the same variables from the interrupt.   *)
(*                                                                         *)
(* The main loop runs in steps between which the interrupt may strike; a   *)
(* section with the interrupt disabled is one step.                        *)
(***************************************************************************)
EXTENDS Naturals, Sequences

CONSTANTS TxNum,          \* DEF_UARTx_TX_BUF_NUM_MAX: slots of UART2_Tx_Buf
          PackMax,        \* DEF_USB_FS_PACK_LEN: bytes in a slot
          Byte,
          Packets,        \* what the host may send
          ResetAnywhere,  \* may a reset strike between any two steps?
          HaltsWhile      \* values of USB_Down_StopFlag under which the host
                          \* may set or clear the halt of endpoint 2

WordSize == 65536         \* uint16_t

ASSUME TxNumAssumption == TxNum \in 3 .. WordSize - 1
ASSUME PackAssumption ==
  /\ PackMax \in 1 .. WordSize - 1 /\ TxNum * PackMax < WordSize
  /\ Packets \subseteq {p \in Seq(Byte) : Len(p) <= PackMax}
ASSUME ChoiceAssumption ==
  ResetAnywhere \in BOOLEAN /\ HaltsWhile \subseteq BOOLEAN

VARIABLES
  Tx_Buf, Tx_PackLen,                   \* slots, and the bytes in each
  Tx_LoadNum, Tx_DealNum, Tx_RemainNum, \* ring of slots
  Tx_Flag, Tx_CurPackLen, Tx_CurPackPtr,
  USB_Down_StopFlag,
  rxRes,                                \* UEP2_RX_CTRL: response to OUT
  MADDR, CNTR, dmaReq,                  \* DMA1 channel 7, CTLR3.DMAT
  TC, sending,                          \* USART2: flag, shift register busy
  pc,                                   \* where UART2_DataTx_Deal is
  line                                  \* the byte sent last

queue == <<Tx_Buf, Tx_PackLen, Tx_LoadNum, Tx_DealNum, Tx_RemainNum>>
cur   == <<Tx_Flag, Tx_CurPackLen, Tx_CurPackPtr>>
usb   == <<USB_Down_StopFlag, rxRes>>
dma   == <<MADDR, CNTR, dmaReq>>
usart == <<TC, sending, line>>
vars  == <<queue, cur, usb, dma, usart, pc>>

Slots == 0 .. TxNum - 1

TypeOK ==
  /\ Tx_Buf \in [Slots -> [1 .. PackMax -> Byte]]
  /\ Tx_PackLen \in [Slots -> 0 .. PackMax]
  /\ Tx_LoadNum \in Slots /\ Tx_DealNum \in Slots
  /\ Tx_RemainNum \in 0 .. WordSize - 1
  /\ Tx_Flag \in BOOLEAN
  /\ Tx_CurPackLen \in 0 .. PackMax
  /\ Tx_CurPackPtr \in 0 .. TxNum * PackMax
  /\ USB_Down_StopFlag \in BOOLEAN /\ rxRes \in {"ACK", "NAK", "STALL"}
  /\ MADDR \in 0 .. TxNum * PackMax /\ CNTR \in 0 .. PackMax
  /\ MADDR + CNTR <= TxNum * PackMax
  /\ {dmaReq, TC, sending} \subseteq BOOLEAN
  /\ pc \in {"poll", "done", "load", "start"} /\ line \in Byte

\* Mutant: a reset does not lift the suspension.
ParaInitSuspended ==
  /\ Tx_LoadNum' = 0 /\ Tx_DealNum' = 0 /\ Tx_RemainNum' = 0
  /\ Tx_PackLen' = [s \in Slots |-> 0]
  /\ Tx_Flag' = FALSE /\ Tx_CurPackLen' = 0 /\ Tx_CurPackPtr' = 0
  /\ UNCHANGED <<Tx_Buf, USB_Down_StopFlag>>

\* UART2_ParaInit, the transmit side.
ParaInit ==
  /\ Tx_LoadNum' = 0 /\ Tx_DealNum' = 0 /\ Tx_RemainNum' = 0
  /\ Tx_PackLen' = [s \in Slots |-> 0]
  /\ Tx_Flag' = FALSE /\ Tx_CurPackLen' = 0 /\ Tx_CurPackPtr' = 0
  /\ USB_Down_StopFlag' = FALSE
  /\ UNCHANGED Tx_Buf

\* After UART2_Init and USBFS_Device_Init; the buffer is zero.
Init ==
  /\ \E b \in Byte : Tx_Buf = [s \in Slots |-> [i \in 1 .. PackMax |-> b]] /\ line = b
  /\ Tx_PackLen = [s \in Slots |-> 0]
  /\ Tx_LoadNum = 0 /\ Tx_DealNum = 0 /\ Tx_RemainNum = 0
  /\ Tx_Flag = FALSE /\ Tx_CurPackLen = 0 /\ Tx_CurPackPtr = 0
  /\ USB_Down_StopFlag = FALSE /\ rxRes = "ACK"
  /\ MADDR = 0 /\ CNTR = 0 /\ dmaReq = FALSE
  /\ TC = FALSE /\ sending = FALSE /\ pc = "poll"

-----------------------------------------------------------------------------
(* USBFS_IRQHandler                                                        *)

\* Mutants: the index is not wrapped; the host is stopped too late.
NextSlotUnwrapped(s) == s + 1
MustSuspendLate(n) == n > TxNum

\* Tx_LoadNum and Tx_DealNum run round the ring.
NextSlot(s) == IF s + 1 >= TxNum THEN 0 ELSE s + 1
\* Is the buffer so full that the host is told to wait?
MustSuspend(n) == n >= TxNum - 2

\* OUT on endpoint 2: packet p has been put into slot Tx_LoadNum.
OutPacket(p) ==
  /\ rxRes = "ACK" /\ p \in Packets
  /\ Tx_Buf' = [Tx_Buf EXCEPT ![Tx_LoadNum] =
                  [i \in 1 .. PackMax |-> IF i <= Len(p) THEN p[i] ELSE @[i]]]
  /\ Tx_PackLen' = [Tx_PackLen EXCEPT ![Tx_LoadNum] = Len(p)]
  /\ Tx_LoadNum' = NextSlot(Tx_LoadNum)
  /\ Tx_RemainNum' = (Tx_RemainNum + 1) % WordSize
  /\ IF MustSuspend(Tx_RemainNum')
       THEN rxRes' = "NAK" /\ USB_Down_StopFlag' = TRUE
       ELSE UNCHANGED usb
  /\ UNCHANGED <<Tx_DealNum, cur, dma, usart, pc>>

MayReset == ResetAnywhere \/ pc = "poll"

\* OUT on endpoint 0 after SET_LINE_CODING: UART2_USB_Init.  Switching TE off
\* and on makes the USART send an idle frame, which may set TC later.
LineCoding ==
  /\ MayReset
  /\ ParaInit /\ rxRes' = "ACK"
  /\ MADDR' = 0 /\ CNTR' = 0 /\ UNCHANGED dmaReq
  /\ TC' = FALSE /\ sending' \in BOOLEAN
  /\ UNCHANGED <<line, pc>>

\* Bus reset: USBFS_Device_Endp_Init and UART2_ParaInit; the DMA goes on.
BusReset ==
  /\ MayReset /\ ParaInit /\ rxRes' = "ACK"
  /\ UNCHANGED <<dma, usart, pc>>

\* SETUP: SET_FEATURE and CLEAR_FEATURE(ENDPOINT_HALT) of endpoint 2.
SetHalt ==
  /\ USB_Down_StopFlag \in HaltsWhile /\ rxRes' = "STALL"
  /\ UNCHANGED <<queue, cur, USB_Down_StopFlag, dma, usart, pc>>

ClearHalt ==
  /\ USB_Down_StopFlag \in HaltsWhile /\ rxRes' = "ACK"
  /\ UNCHANGED <<queue, cur, USB_Down_StopFlag, dma, usart, pc>>

-----------------------------------------------------------------------------
(* UART2_DataTx_Deal                                                       *)

\* Tx_Flag set: has the USART finished?
PollSending ==
  /\ pc = "poll" /\ Tx_Flag /\ TC
  /\ TC' = FALSE /\ dmaReq' = FALSE /\ Tx_Flag' = FALSE
  /\ pc' = "done"
  /\ UNCHANGED <<queue, Tx_CurPackLen, Tx_CurPackPtr, usb, MADDR, CNTR,
                 sending, line>>

\* Mutant: the host is never let go on.
MayResumeNever(n) == FALSE

MayResume(n) == n < 2

\* The section with the interrupt disabled: take off what has been sent, and
\* retire the packet if that was all.
TxDone ==
  /\ pc = "done"
  /\ LET count == (Tx_CurPackLen + WordSize - CNTR) % WordSize
     IN /\ Tx_CurPackLen' = (Tx_CurPackLen + WordSize - count) % WordSize
        /\ Tx_CurPackPtr' = (Tx_CurPackPtr + count) % WordSize
  /\ IF Tx_CurPackLen' = 0
       THEN /\ Tx_PackLen' = [Tx_PackLen EXCEPT ![Tx_DealNum] = 0]
            /\ Tx_DealNum' = NextSlot(Tx_DealNum)
            /\ Tx_RemainNum' = (Tx_RemainNum + WordSize - 1) % WordSize
       ELSE UNCHANGED <<Tx_PackLen, Tx_DealNum, Tx_RemainNum>>
  /\ IF USB_Down_StopFlag /\ MayResume(Tx_RemainNum')
       THEN rxRes' = "ACK" /\ USB_Down_StopFlag' = FALSE
       ELSE UNCHANGED usb
  /\ pc' = "poll"
  /\ UNCHANGED <<Tx_Buf, Tx_LoadNum, Tx_Flag, dma, usart>>

\* Mutant: the last packet is left in the ring.
WorthSendingTwo(n) == n > 1

WorthSending(n) == n # 0

\* Tx_Flag clear: is there anything to send?
PollIdle ==
  /\ pc = "poll" /\ ~Tx_Flag /\ WorthSending(Tx_RemainNum)
  /\ pc' = "load"
  /\ UNCHANGED <<queue, cur, usb, dma, usart>>

\* Mutant: the rest of a packet is sent from its start.
ResumeAtStart == Tx_DealNum * PackMax

\* Where the rest of a packet already begun is.
ResumeAt == Tx_CurPackPtr

\* "load from the last unsent buffer or from a new buffer"
TxLoad ==
  /\ pc = "load"
  /\ IF Tx_CurPackLen = 0
       THEN /\ Tx_CurPackLen' = Tx_PackLen[Tx_DealNum]
            /\ Tx_CurPackPtr' = Tx_DealNum * PackMax
       ELSE Tx_CurPackPtr' = ResumeAt /\ UNCHANGED Tx_CurPackLen
  /\ pc' = "start"
  /\ UNCHANGED <<queue, Tx_Flag, usb, dma, usart>>

\* "Configure DMA and send"
TxStart ==
  /\ pc = "start"
  /\ TC' = FALSE
  /\ MADDR' = Tx_CurPackPtr /\ CNTR' = Tx_CurPackLen /\ dmaReq' = TRUE
  /\ Tx_Flag' = TRUE /\ pc' = "poll"
  /\ UNCHANGED <<queue, Tx_CurPackLen, Tx_CurPackPtr, usb, sending, line>>

-----------------------------------------------------------------------------
(* DMA1 channel 7 and USART2                                               *)

ByteAt(addr) == Tx_Buf[addr \div PackMax][(addr % PackMax) + 1]

\* The channel hands a byte to the USART.
DmaByte ==
  /\ dmaReq /\ CNTR > 0
  /\ line' = IF MADDR < TxNum * PackMax THEN ByteAt(MADDR) ELSE line
  /\ MADDR' = MADDR + 1 /\ CNTR' = CNTR - 1
  /\ sending' = TRUE
  /\ UNCHANGED <<queue, cur, usb, dmaReq, TC, pc>>

\* The last bit is out and no byte has followed in time, perhaps only because
\* the channel had to wait for the bus.
ShiftOut ==
  /\ sending
  /\ sending' = FALSE /\ TC' = TRUE
  /\ UNCHANGED <<queue, cur, usb, dma, line, pc>>

-----------------------------------------------------------------------------
MainStep == PollSending \/ TxDone \/ PollIdle \/ TxLoad \/ TxStart

UsbStep ==
  \/ \E p \in Packets : OutPacket(p)
  \/ LineCoding \/ BusReset \/ SetHalt \/ ClearHalt

Next == MainStep \/ UsbStep \/ DmaByte \/ ShiftOut

Spec == Init /\ [][Next]_vars

\* The main loop goes round for ever, the hardware works; the host owes nothing.
FairSpec == Spec /\ WF_vars(MainStep) /\ WF_vars(DmaByte) /\ WF_vars(ShiftOut)

-----------------------------------------------------------------------------
(* Properties *)

\* Tx_RemainNum, the "remaining unprocessed number" of UART.h, never exceeds
\* the slots there are, however interrupt and main loop interleave.
QueueFits == Tx_RemainNum <= TxNum

\* The host is answered NAK exactly while the bridge knows that it is: a NAK
\* without USB_Down_StopFlag would never be lifted.
SuspendedIsKnown == rxRes = "NAK" <=> USB_Down_StopFlag

\* A suspended host is let go on, whatever the interrupt does meanwhile.
DownlinkResumes == rxRes = "NAK" ~> rxRes = "ACK"

\* Every packet taken is sent to its end (or thrown away by a reset).
PacketLeaves == \A s \in Slots : Tx_PackLen[s] # 0 ~> Tx_PackLen[s] = 0

\* What is left to send of the packet in slot Tx_DealNum.
Left ==
  IF Tx_Flag \/ pc = "done" THEN CNTR
  ELSE IF Tx_CurPackLen = 0 THEN Tx_PackLen[Tx_DealNum] ELSE Tx_CurPackLen

\* The packets of the ring, oldest first, the first without what was sent.
Unsent ==
  [k \in 1 .. Tx_RemainNum |->
     LET s == (Tx_DealNum + k - 1) % TxNum
         n == Tx_PackLen[s]
     IN IF k = 1 THEN SubSeq(Tx_Buf[s], n - Left + 1, n)
                 ELSE SubSeq(Tx_Buf[s], 1, n)]

\* The downlink implements PacketPipe: no packet is lost, repeated, reordered
\* or overwritten, also when the USART drains before the DMA is done.  Only new
\* line parameters and a bus reset throw packets away; after a bus reset the DMA
\* channel may go on with a packet nobody knows of.
PP == INSTANCE PacketPipe WITH
        Capacity <- TxNum, q <- Unsent,
        draining <- dmaReq /\ CNTR > 0 /\ ~Tx_Flag
ImplementsPacketPipe ==
  PP!Spec /\ [][~(LineCoding \/ BusReset) => [PP!Work]_PP!vars]_vars
=============================================================================
