------------------------------ MODULE BleUart -------------------------------
(***************************************************************************)
(* The BLE to UART bridge (BLE/BLE_UART).  The USART interrupt puts what   *)
(* it receives into a software FIFO (app_drv_fifo.c); the main loop takes  *)
(* packets out of it and notifies the peer of the connection, keeping a    *)
(* packet the stack refuses.  What the peer writes goes to the UART, and,  *)
(* "for notify back test", into the same FIFO.                             *)
(*                                                                         *)
(* Two actors: the main loop, in which the stack also calls back, and the  *)
(* interrupt.  The main loop works on the FIFO in steps between which the  *)
(* interrupt may strike; pushing a byte is four of them (end is read for   *)
(* the index, the byte stored, end read again, and end + 1 written).       *)
(***************************************************************************)
EXTENDS Naturals, Sequences

CONSTANTS Size,        \* APP_UART_RX_BUFFER_LENGTH
          IndexMod,    \* begin and end are uint16_t
          TxSize,      \* APP_UART_TX_BUFFER_LENGTH
          Payloads,    \* what ATT_GetMTU(...) - 3 may be
          Retries,     \* 10, with which uart_to_ble_send_evt_cnt is compared
          Byte,
          Writes,      \* what the peer may write
          Overlap      \* may a byte come in while another is pushed?

\* "The buffer length should be a power of 2": so that it divides the range of
\* the indices.
ASSUME SizeAssumption ==
  /\ Size \in Nat \ {0} /\ IndexMod \in Nat /\ IndexMod > Size
  /\ IndexMod % Size = 0
ASSUME PacketAssumption ==
  /\ Payloads \subseteq 1 .. Size /\ Writes \subseteq Seq(Byte)
  /\ TxSize \in Nat /\ Retries \in Nat /\ Overlap \in BOOLEAN

VARIABLES
  data, begin, end,           \* app_uart_rx_fifo
  uart_rx_flag,
  evt,                        \* UART_TO_BLE_SEND_EVT is started
  send_to_ble_state, uart_to_ble_send_evt_cnt,
  held,                       \* to_test_buffer, up to read_length
  txLen,                      \* length of app_uart_tx_fifo
  conn,                       \* "none", "linked", "ready": notifications on
  pc, want, rest, reg,        \* the main loop
  sent                        \* what was notified last

fifo  == <<data, begin, end>>
event == <<uart_rx_flag, evt>>
send  == <<send_to_ble_state, uart_to_ble_send_evt_cnt, held, sent>>
main  == <<pc, want, rest, reg>>
vars  == <<fifo, event, send, txLen, conn, main>>

Results == {"TO_SEND", "ALLOC_FAILED", "SEND_FAILED"}
Pushing == {"index", "store", "load", "bump"}

TypeOK ==
  /\ data \in [0 .. Size - 1 -> Byte]
  /\ begin \in 0 .. IndexMod - 1 /\ end \in 0 .. IndexMod - 1
  /\ uart_rx_flag \in BOOLEAN /\ evt \in BOOLEAN
  /\ send_to_ble_state \in Results
  /\ uart_to_ble_send_evt_cnt \in 0 .. Retries + 1
  /\ held \in Seq(Byte) /\ Len(held) + (IF pc = "pop" THEN want ELSE 0) <= Size
  /\ sent \in Seq(Byte) /\ Len(sent) <= Size
  /\ txLen \in 0 .. TxSize /\ conn \in {"none", "linked", "ready"}
  /\ pc \in {"idle", "read", "pop", "notify", "flush", "flushEnd"} \cup Pushing
  /\ want \in 0 .. Size /\ (pc \in {"read", "pop"} => want # 0)
  /\ rest \in Seq(Byte) /\ (pc \in Pushing => rest # <<>>)
  /\ reg \in 0 .. IndexMod - 1

Smaller(m, n) == IF m <= n THEN m ELSE n

\* fifo_length
Length == (end + IndexMod - begin) % IndexMod
\* The slot of an index: index & size_mask.
Slot(index) == index % Size
Succ(index) == (index + 1) % IndexMod

\* Mutant: one byte too many fits.
AvailableOneMore == (Size + 1 + IndexMod - Length) % IndexMod

\* available_count, a uint16_t: size - fifo_length.
Available == (Size + IndexMod - Length) % IndexMod

From(index, n) == [k \in 1 .. n |-> data[Slot(index + k - 1)]]

Init ==
  /\ \E b \in Byte : data = [i \in 0 .. Size - 1 |-> b]
  /\ begin = 0 /\ end = 0
  /\ uart_rx_flag = FALSE /\ evt = FALSE
  /\ send_to_ble_state = "TO_SEND" /\ uart_to_ble_send_evt_cnt = 0
  /\ held = <<>> /\ sent = <<>>
  /\ txLen = 0 /\ conn = "none"
  /\ pc = "idle" /\ want = 0 /\ rest = <<>> /\ reg = 0

-----------------------------------------------------------------------------
(* USART3_IRQHandler *)

\* app_drv_fifo_write_from_same_addr of one byte; it is lost if the FIFO is full.
RxIrq(b) ==
  /\ Overlap \/ pc \notin Pushing
  /\ IF Available = 0
       THEN UNCHANGED fifo
       ELSE /\ data' = [data EXCEPT ![Slot(end)] = b]
            /\ end' = Succ(end) /\ UNCHANGED begin
  /\ uart_rx_flag' = TRUE
  /\ UNCHANGED <<evt, send, txLen, conn, main>>

-----------------------------------------------------------------------------
(* app_uart_process, in every round of Main_Circulation: the flag is looked *)
(* at with interrupts disabled, the UART is fed until nothing is left.      *)

Process ==
  /\ pc = "idle"
  /\ evt' = (evt \/ uart_rx_flag) /\ uart_rx_flag' = FALSE
  /\ txLen' = 0
  /\ UNCHANGED <<fifo, send, conn, main>>

-----------------------------------------------------------------------------
(* Peripheral_ProcessEvent, UART_TO_BLE_SEND_EVT.  What starts the event    *)
(* again in 2 or 4 ticks sets evt.                                          *)

EventDue == pc = "idle" /\ evt

\* SEND_TO_BLE_TO_SEND without notifications: "connection lost, flush rx fifo
\* here", or the link is up and nothing happens.
NotReady ==
  /\ EventDue /\ send_to_ble_state = "TO_SEND" /\ conn # "ready"
  /\ pc' = IF conn = "none" THEN "flush" ELSE pc
  /\ evt' = FALSE
  /\ UNCHANGED <<fifo, uart_rx_flag, send, txLen, conn, want, rest, reg>>

\* Mutant: a few bytes wait for ever.
PatienceNoEnd == TRUE

\* uart_to_ble_send_evt_cnt > 10 ends the wait for a full packet.
Patience == uart_to_ble_send_evt_cnt <= Retries

\* Fewer bytes than a packet holds: look again later, some times.
WaitForMore(n) ==
  /\ EventDue /\ send_to_ble_state = "TO_SEND" /\ conn = "ready"
  /\ Length < n /\ Patience
  /\ evt' = TRUE
  /\ uart_to_ble_send_evt_cnt' = Smaller(uart_to_ble_send_evt_cnt + 1, Retries + 1)
  /\ UNCHANGED <<fifo, uart_rx_flag, send_to_ble_state, held, sent, txLen, conn, main>>

StartRead(n) ==
  /\ EventDue /\ send_to_ble_state = "TO_SEND" /\ conn = "ready"
  /\ ~ (Length < n /\ Patience)
  /\ evt' = FALSE
  /\ uart_to_ble_send_evt_cnt' = 0
  /\ pc' = "read" /\ want' = n
  /\ UNCHANGED <<fifo, uart_rx_flag, send_to_ble_state, held, sent, txLen, conn,
                 rest, reg>>

\* SEND_TO_BLE_ALLOC_FAILED, SEND_TO_BLE_SEND_FAILED: the packet once more.
Retry ==
  /\ EventDue /\ send_to_ble_state # "TO_SEND"
  /\ evt' = FALSE /\ pc' = "notify"
  /\ UNCHANGED <<fifo, uart_rx_flag, send, txLen, conn, want, rest, reg>>

\* app_drv_fifo_read: the length is read once; nothing there is NOT_FOUND.
ReadCount ==
  /\ pc = "read"
  /\ IF Length = 0
       THEN pc' = "idle" /\ want' = 0 /\ UNCHANGED held
       ELSE pc' = "pop" /\ want' = Smaller(want, Length) /\ held' = <<>>
  /\ UNCHANGED <<fifo, event, send_to_ble_state, uart_to_ble_send_evt_cnt, sent,
                 txLen, conn, rest, reg>>

\* Mutant: the byte at the wrong end.
PopIndexEnd == end

\* Where the next byte is read.
PopIndex == begin

Pop ==
  /\ pc = "pop"
  /\ held' = Append(held, data[Slot(PopIndex)])
  /\ begin' = Succ(begin)
  /\ want' = want - 1 /\ pc' = IF want = 1 THEN "notify" ELSE pc
  /\ UNCHANGED <<data, end, event, send_to_ble_state, uart_to_ble_send_evt_cnt,
                 sent, txLen, conn, rest, reg>>

\* Mutant: a refused packet is not tried again.
AfterNotifyForgets(res) == res = "TO_SEND"

\* Every outcome starts the event again.
AfterNotify(res) == TRUE

\* GATT_bm_alloc and ble_uart_notify: no buffer, refused (as always when
\* notifications are off), or sent.
Notify(res) ==
  /\ pc = "notify" /\ (res = "TO_SEND" => conn = "ready")
  /\ send_to_ble_state' = res
  /\ IF res = "TO_SEND" THEN sent' = held /\ held' = <<>>
                        ELSE UNCHANGED <<sent, held>>
  /\ evt' = AfterNotify(res) /\ pc' = "idle"
  /\ UNCHANGED <<fifo, uart_rx_flag, uart_to_ble_send_evt_cnt, txLen, conn, want,
                 rest, reg>>

\* app_drv_fifo_flush: begin first, then end.
FlushBegin ==
  /\ pc = "flush" /\ begin' = 0 /\ pc' = "flushEnd"
  /\ UNCHANGED <<data, end, event, send, txLen, conn, want, rest, reg>>

FlushEnd ==
  /\ pc = "flushEnd" /\ end' = 0 /\ pc' = "idle"
  /\ UNCHANGED <<data, begin, event, send, txLen, conn, want, rest, reg>>

-----------------------------------------------------------------------------
(* What the stack reports, in TMOS_SystemProcess *)

\* app_drv_fifo_write returns at once if there is no room.
WriteLoop(bytes) == IF bytes = <<>> THEN "idle" ELSE "index"

\* on_bleuartServiceEvt, BLE_UART_EVT_BLE_DATA_RECEIVED: app_drv_fifo_write into
\* the receive FIFO, which computes the room once, and app_uart_tx_data.
BleData(bytes) ==
  /\ pc = "idle" /\ conn # "none"
  /\ rest' = SubSeq(bytes, 1, Smaller(Len(bytes), Available))
  /\ pc' = WriteLoop(rest')
  /\ evt' = TRUE
  /\ txLen' = Smaller(txLen + Len(bytes), TxSize)
  /\ UNCHANGED <<fifo, uart_rx_flag, send, conn, want, reg>>

PushIndex ==
  /\ pc = "index" /\ reg' = end /\ pc' = "store"
  /\ UNCHANGED <<fifo, event, send, txLen, conn, want, rest>>

PushStore ==
  /\ pc = "store" /\ data' = [data EXCEPT ![Slot(reg)] = Head(rest)]
  /\ pc' = "load"
  /\ UNCHANGED <<begin, end, event, send, txLen, conn, want, rest, reg>>

PushLoad ==
  /\ pc = "load" /\ reg' = end /\ pc' = "bump"
  /\ UNCHANGED <<fifo, event, send, txLen, conn, want, rest>>

PushBump ==
  /\ pc = "bump" /\ end' = Succ(reg)
  /\ rest' = Tail(rest) /\ reg' = 0
  /\ pc' = IF Len(rest) = 1 THEN "idle" ELSE "index"
  /\ UNCHANGED <<data, begin, event, send, txLen, conn, want>>

\* Peripheral_LinkEstablished (a second link is terminated at once).
LinkEstablished ==
  /\ pc = "idle" /\ conn = "none" /\ conn' = "linked"
  /\ UNCHANGED <<fifo, event, send, txLen, main>>

\* Peripheral_LinkTerminated and ble_uart_HandleConnStatusCB.
LinkTerminated ==
  /\ pc = "idle" /\ conn # "none" /\ conn' = "none"
  /\ UNCHANGED <<fifo, event, send, txLen, main>>

\* ble_uart_WriteAttrCB on the client characteristic configuration.
Configure(c) ==
  /\ pc = "idle" /\ conn # "none" /\ conn' = c
  /\ UNCHANGED <<fifo, event, send, txLen, main>>

-----------------------------------------------------------------------------
SendEvent == NotReady \/ Retry \/ \E n \in Payloads : WaitForMore(n) \/ StartRead(n)

Continue ==
  \/ ReadCount \/ Pop \/ FlushBegin \/ FlushEnd
  \/ PushIndex \/ PushStore \/ PushLoad \/ PushBump
  \/ \E res \in Results : Notify(res)

Link ==
  \/ LinkEstablished \/ LinkTerminated
  \/ \E c \in {"linked", "ready"} : Configure(c)
  \/ \E bytes \in Writes : BleData(bytes)

Next == Process \/ SendEvent \/ Continue \/ Link \/ \E b \in Byte : RxIrq(b)

Spec == Init /\ [][Next]_vars

\* The main loop goes round: a handler runs to its end, and whatever the stack
\* reports in between, the flag is looked at and a due event is processed.  A
\* stack asked often enough takes a packet.
FairSpec ==
  /\ Spec
  /\ WF_vars(Continue) /\ SF_vars(Process) /\ SF_vars(SendEvent)
  /\ SF_vars(Notify("TO_SEND"))

-----------------------------------------------------------------------------
(* Properties *)

\* The FIFO never claims more than its buffer holds: however the interrupt falls
\* between the steps of a read, a retry or a flush, unread bytes are not
\* overwritten.  (A flush is over when both indices are reset; a push of the main
\* loop that the interrupt falls into is Overlap.)
RxFits == pc # "flushEnd" => Length <= Size

\* A packet also never outgrows its buffer (TypeOK).
Safe == TypeOK /\ RxFits

\* Something in the FIFO or in to_test_buffer is going to be looked at.
Awake ==
  \/ Length = 0 /\ send_to_ble_state = "TO_SEND"
  \/ uart_rx_flag \/ evt \/ pc # "idle"

\* While the peer takes notifications, bytes never lie in the FIFO forgotten,
\* once they have been noticed: no path through the send event stops it while
\* there is something to send, and no interrupt is missed.
WakeupKept ==
  [][Awake /\ conn = "ready" /\ conn' = "ready" => Awake']_vars

\* Bytes received get into a packet in the end, a few as well as many, unless the
\* peer leaves.
BytesGoOut ==
  conn = "ready" /\ (uart_rx_flag \/ evt) /\ Length # 0
    ~> pc = "pop" \/ conn # "ready"

\* What the peer is notified of is what the FIFO took in, once each and in order;
\* only a flush drops any of it, and drops it when it begins.
BS == INSTANCE ByteStream WITH
        Capacity <- Size + Size,
        q <- held \o (IF pc = "flushEnd" THEN <<>> ELSE From(begin, Length)),
        chunk <- sent
ImplementsByteStream == BS!Spec /\ [][~FlushBegin => [BS!Work]_BS!vars]_vars
=============================================================================
