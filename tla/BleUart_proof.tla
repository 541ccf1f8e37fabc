--------------------------- MODULE BleUart_proof ----------------------------
(***************************************************************************)
(* Theorems about BleUart, for every length of FIFO and packet, every      *)
(* range of the indices, and whatever the peer writes: unread bytes are    *)
(* never overwritten, bytes waiting for the peer keep the send event       *)
(* alive, and the bridge implements ByteStream.  Except for the second, no *)
(* byte comes in while the main loop pushes another.                       *)
(***************************************************************************)
EXTENDS BleUart, Integers, SequenceTheorems, TLAPS

\* What the theorems assume of the line.
Environment == ~Overlap

\* What the main loop is about to do with the FIFO still fits: a write, for which
\* it has computed the room, and a read, for which it has computed the length.
FifoInv ==
  /\ pc \in Pushing => Length + Len(rest) <= Size
  /\ pc \in {"store", "bump"} => reg = end
  /\ pc = "pop" => want <= Length

\* The FIFO is read, or flushed, only when no packet is held; a flush is half done
\* in its middle; and the event is started before the peer's bytes are written.
HeldInv ==
  /\ pc \in {"read", "pop", "flush", "flushEnd"} => send_to_ble_state = "TO_SEND"
  /\ send_to_ble_state = "TO_SEND" /\ pc \notin {"pop", "notify"} => held = <<>>
  /\ pc = "flushEnd" => begin = 0
  /\ pc \in Pushing => evt

Inv == TypeOK /\ RxFits /\ FifoInv /\ HeldInv

-----------------------------------------------------------------------------
(* Indices and slots *)

LEMMA Sizes ==
  /\ Size \in Nat /\ Size > 0 /\ IndexMod \in Nat /\ IndexMod > Size
  /\ TxSize \in Nat /\ Retries \in Nat
BY SizeAssumption, PacketAssumption

LEMMA Remainder ==
  ASSUME NEW n \in Nat, n > 0, NEW x \in Nat, x < 2 * n
  PROVE  x % n = IF x < n THEN x ELSE x - n
<1>1. PICK q \in Int, r \in Int : r = x % n /\ x = n * q + r /\ 0 <= r /\ r < n
  BY SMTT(30)
<1>2. q \in {0, 1}
  BY <1>1, SMTT(30)
<1>3. QED
  BY <1>1, <1>2

\* The distance of two indices, which fifo_length is about.
Count(b, e) == (e + IndexMod - b) % IndexMod

LEMMA Counts ==
  ASSUME NEW b \in 0 .. IndexMod - 1, NEW e \in 0 .. IndexMod - 1
  PROVE  /\ Count(b, e) = IF b <= e THEN e - b ELSE e + IndexMod - b
         /\ Count(b, e) \in 0 .. IndexMod - 1
         /\ Succ(b) = IF b = IndexMod - 1 THEN 0 ELSE b + 1
         /\ Succ(b) \in 0 .. IndexMod - 1
         /\ e = (b + Count(b, e)) % IndexMod
<1>1. Count(b, e) = IF b <= e THEN e - b ELSE e + IndexMod - b
  <2> DEFINE x == e + IndexMod - b
  <2>1. x \in Nat /\ x < 2 * IndexMod /\ (x < IndexMod <=> ~(b <= e)) /\ x - IndexMod = e - b
    BY Sizes
  <2> HIDE DEF x
  <2>2. x % IndexMod = IF x < IndexMod THEN x ELSE x - IndexMod
    BY <2>1, Sizes, Remainder
  <2> QED
    BY <2>1, <2>2 DEF Count, x
<1>2. Count(b, e) \in 0 .. IndexMod - 1
  BY <1>1, Sizes
<1>3. Succ(b) = IF b = IndexMod - 1 THEN 0 ELSE b + 1
  <2>1. (b + 1) % IndexMod = IF b + 1 < IndexMod THEN b + 1 ELSE b + 1 - IndexMod
    BY Sizes, Remainder
  <2> QED
    BY <2>1, Sizes DEF Succ
<1>4. Succ(b) \in 0 .. IndexMod - 1
  BY <1>3, Sizes
<1>5. e = (b + Count(b, e)) % IndexMod
  <2> DEFINE x == b + Count(b, e)
  <2>1. x \in Nat /\ x < 2 * IndexMod /\ e = IF x < IndexMod THEN x ELSE x - IndexMod
    BY <1>1, Sizes
  <2> HIDE DEF x
  <2>2. e = x % IndexMod
    BY <2>1, Sizes, Remainder
  <2> QED
    BY <2>2 DEF x
<1> QED
  BY <1>1, <1>2, <1>3, <1>4, <1>5

\* One byte more, one byte less.
LEMMA Steps ==
  ASSUME NEW b \in 0 .. IndexMod - 1, NEW e \in 0 .. IndexMod - 1
  PROVE  /\ Count(b, e) < IndexMod - 1 => Count(b, Succ(e)) = Count(b, e) + 1
         /\ Count(b, e) > 0 => Count(Succ(b), e) = Count(b, e) - 1
         /\ Count(0, 0) = 0
<1>1. Count(b, e) < IndexMod - 1 => Count(b, Succ(e)) = Count(b, e) + 1
  <2> DEFINE s == Succ(e)
  <2>1. s \in 0 .. IndexMod - 1 /\ s = IF e = IndexMod - 1 THEN 0 ELSE e + 1
    BY Counts
  <2> HIDE DEF s
  <2>2. Count(b, s) = IF b <= s THEN s - b ELSE s + IndexMod - b
    BY <2>1, Counts
  <2>3. Count(b, e) = IF b <= e THEN e - b ELSE e + IndexMod - b
    BY Counts
  <2>4. Count(b, e) < IndexMod - 1 => Count(b, s) = Count(b, e) + 1
    BY <2>1, <2>2, <2>3, Sizes
  <2> QED
    BY <2>4 DEF s
<1>2. Count(b, e) > 0 => Count(Succ(b), e) = Count(b, e) - 1
  <2> DEFINE s == Succ(b)
  <2>1. s \in 0 .. IndexMod - 1 /\ s = IF b = IndexMod - 1 THEN 0 ELSE b + 1
    BY Counts
  <2> HIDE DEF s
  <2>2. Count(s, e) = IF s <= e THEN e - s ELSE e + IndexMod - s
    BY <2>1, Counts
  <2>3. Count(b, e) = IF b <= e THEN e - b ELSE e + IndexMod - b
    BY Counts
  <2>4. Count(b, e) > 0 => Count(s, e) = Count(b, e) - 1
    BY <2>1, <2>2, <2>3, Sizes
  <2> QED
    BY <2>4 DEF s
<1>3. Count(0, 0) = 0
  BY Sizes, Counts
<1> QED
  BY <1>1, <1>2, <1>3

LEMMA SlotType == \A i \in Nat : Slot(i) \in 0 .. Size - 1
BY Sizes DEF Slot

\* What TypeOK says of the numbers, and what Available comes to.
LEMMA Numbers ==
  ASSUME TypeOK
  PROVE  /\ begin \in 0 .. IndexMod - 1 /\ end \in 0 .. IndexMod - 1
         /\ Length = Count(begin, end) /\ Length \in Nat /\ Length < IndexMod
         /\ Available = IF Length <= Size THEN Size - Length ELSE Size + IndexMod - Length
         /\ Available \in Nat
         /\ Len(rest) \in Nat /\ Len(held) \in Nat /\ want \in Nat
<1>1. begin \in 0 .. IndexMod - 1 /\ end \in 0 .. IndexMod - 1
  BY DEF TypeOK
<1>2. Length = Count(begin, end)
  BY DEF Length, Count
<1>3. Length \in Nat /\ Length < IndexMod
  BY <1>1, <1>2, Counts, Sizes
<1>4. Available = IF Length <= Size THEN Size - Length ELSE Size + IndexMod - Length
  <2>1. PICK n \in Nat : n = Length /\ n < IndexMod
    BY <1>3
  <2> DEFINE x == Size + IndexMod - n
  <2>2. x \in Nat /\ x < 2 * IndexMod /\ (x < IndexMod <=> ~(n <= Size)) /\ x - IndexMod = Size - n
    BY <2>1, Sizes
  <2> HIDE DEF x
  <2>3. x % IndexMod = IF x < IndexMod THEN x ELSE x - IndexMod
    BY <2>2, Sizes, Remainder
  <2>4. Available = x % IndexMod
    BY <2>1 DEF Available, x
  <2> QED
    BY <2>1, <2>2, <2>3, <2>4 DEF x
<1>5. Available \in Nat
  BY <1>3, <1>4, Sizes
<1>6. rest \in Seq(Byte) /\ held \in Seq(Byte) /\ want \in Nat
  BY Sizes DEF TypeOK
<1> QED
  BY <1>1, <1>2, <1>3, <1>4, <1>5, <1>6, LenProperties

-----------------------------------------------------------------------------
(* The steps *)

LEMMA InitInv == Init => Inv
<1> SUFFICES ASSUME Init PROVE Inv
  OBVIOUS
<1>1. TypeOK
  <2>1. <<>> \in Seq(Byte) /\ Len(<<>>) = 0
    OBVIOUS
  <2> QED
    BY <2>1, Sizes DEF Init, TypeOK, Results
<1>2. Length = 0
  BY Steps, Sizes DEF Init, Length, Count
<1> QED
  BY <1>1, <1>2, Sizes DEF Init, Inv, RxFits, FifoInv, HeldInv, Pushing

\* What leaves the FIFO alone, and what the main loop is doing with it.
LEMMA Aside ==
  ASSUME Inv, TypeOK', HeldInv', UNCHANGED fifo,
         \/ UNCHANGED main
         \/ pc # "flushEnd" /\ pc' \in {"idle", "read", "notify", "flush"}
  PROVE  Inv'
<1>1. Length' = Length
  BY DEF fifo, Length
<1>2. RxFits'
  BY <1>1 DEF Inv, RxFits, FifoInv, main
<1> QED
  BY <1>1, <1>2 DEF Inv, FifoInv, fifo, main, Pushing

\* HeldInv rests on nothing else, and holds also when pushes overlap.
LEMMA HeldStep ==
  ASSUME HeldInv, [Next]_vars
  PROVE  HeldInv'
<1>1. CASE UNCHANGED vars
  BY <1>1 DEF HeldInv, Pushing, vars, fifo, event, send, main
<1>2. CASE Process \/ \E b \in Byte : RxIrq(b)
  BY <1>2 DEF Process, RxIrq, HeldInv, Pushing, fifo, send, main
<1>3. CASE SendEvent
  BY <1>3 DEF SendEvent, NotReady, Retry, WaitForMore, StartRead, EventDue, HeldInv, Pushing,
    fifo, send, main
<1>4. CASE ReadCount \/ Pop
  BY <1>4 DEF ReadCount, Pop, HeldInv, Pushing, fifo, event
<1>5. CASE \E res \in Results : Notify(res)
  BY <1>5 DEF Notify, AfterNotify, HeldInv, Pushing
<1>6. CASE FlushBegin \/ FlushEnd
  BY <1>6 DEF FlushBegin, FlushEnd, HeldInv, Pushing, event, send
<1>7. CASE PushIndex \/ PushStore \/ PushLoad \/ PushBump
  BY <1>7 DEF PushIndex, PushStore, PushLoad, PushBump, HeldInv, Pushing, fifo, event, send
<1>8. CASE Link
  BY <1>8 DEF Link, LinkEstablished, LinkTerminated, Configure, BleData, WriteLoop, HeldInv,
    Pushing, fifo, event, send, main
<1> QED
  BY <1>1, <1>2, <1>3, <1>4, <1>5, <1>6, <1>7, <1>8 DEF Next, Continue

\* What the stack reports, and the flag of the interrupt.
LEMMA LinkStep ==
  ASSUME Inv, HeldInv',
         \/ Process \/ LinkEstablished \/ LinkTerminated
         \/ \E c \in {"linked", "ready"} : Configure(c)
  PROVE  Inv'
<1> USE DEF Process, LinkEstablished, LinkTerminated, Configure
<1>1. UNCHANGED <<fifo, send, main>>
  OBVIOUS
<1>2. /\ uart_rx_flag' \in BOOLEAN /\ evt' \in BOOLEAN
      /\ evt => evt'
  BY DEF Inv, TypeOK, event
<1>3. txLen' \in 0 .. TxSize /\ conn' \in {"none", "linked", "ready"}
  BY Sizes DEF Inv, TypeOK
<1>4. TypeOK'
  BY <1>1, <1>2, <1>3 DEF Inv, TypeOK, fifo, send, main
<1> QED
  BY <1>1, <1>4, Aside

\* What the send event decides.
LEMMA EventStep ==
  ASSUME Inv, HeldInv', SendEvent
  PROVE  Inv'
<1> USE DEF NotReady, Retry, WaitForMore, StartRead, EventDue
<1>0. NotReady \/ Retry \/ \E n \in Payloads : n \in 1 .. Size /\ (WaitForMore(n) \/ StartRead(n))
  BY PacketAssumption DEF SendEvent
<1>1. /\ pc = "idle" /\ UNCHANGED <<fifo, uart_rx_flag, send_to_ble_state, held, sent,
                                    txLen, conn, rest, reg>>
      /\ pc' \in {"idle", "read", "notify", "flush"}
      /\ pc' # "idle" => evt' = FALSE
      /\ pc' \in {"read", "flush"} => send_to_ble_state = "TO_SEND"
      /\ pc' = "notify" => send_to_ble_state # "TO_SEND"
      /\ evt' \in BOOLEAN
  BY <1>0 DEF send, main
<1>2. want' \in 0 .. Size /\ (pc' = "read" => want' # 0)
  BY <1>0, Sizes DEF Inv, TypeOK, main
<1>3. uart_to_ble_send_evt_cnt' \in 0 .. Retries + 1
  BY <1>0, Sizes DEF Inv, TypeOK, Smaller, send
<1>4. TypeOK'
  BY <1>1, <1>2, <1>3, Sizes DEF Inv, TypeOK, fifo, Pushing
<1> QED
  BY <1>1, <1>4, Aside

\* The read of a packet.
LEMMA ReadStep ==
  ASSUME Inv, HeldInv', ReadCount
  PROVE  Inv'
<1>1. /\ pc = "read" /\ send_to_ble_state = "TO_SEND" /\ held = <<>>
      /\ Length \in Nat /\ want \in Nat /\ want # 0 /\ want <= Size
  BY Numbers, Sizes DEF ReadCount, Inv, TypeOK, HeldInv
<1>2. UNCHANGED <<fifo, event, send, txLen, conn, rest, reg>>
  BY <1>1 DEF ReadCount, send
<1>3. Length' = Length
  BY <1>2 DEF fifo, Length
<1>4. CASE Length = 0 /\ pc' = "idle" /\ want' = 0
  <2>1. TypeOK'
    BY <1>1, <1>2, <1>4, Sizes DEF Inv, TypeOK, fifo, event, send, Pushing
  <2> QED
    BY <1>1, <1>2, <1>4, <2>1, Aside
<1>5. CASE Length # 0 /\ pc' = "pop" /\ want' = Smaller(want, Length)
  <2>1. want' \in 0 .. Size /\ want' # 0 /\ want' <= Length /\ Len(held') = 0
    BY <1>1, <1>2, <1>5, Sizes DEF Smaller, send
  <2>2. TypeOK'
    BY <1>1, <1>2, <1>5, <2>1, Sizes DEF Inv, TypeOK, fifo, event, send, Pushing
  <2>3. RxFits' /\ FifoInv'
    BY <1>1, <1>3, <1>5, <2>1 DEF Inv, RxFits, FifoInv, Pushing
  <2> QED
    BY <2>2, <2>3 DEF Inv
<1> QED
  BY <1>4, <1>5 DEF ReadCount

LEMMA PopStep ==
  ASSUME Inv, HeldInv', Pop
  PROVE  Inv' /\ Length' = Length - 1
<1>1. /\ pc = "pop" /\ want \in Nat /\ want # 0 /\ want <= Length /\ Length \in Nat
      /\ begin \in 0 .. IndexMod - 1 /\ end \in 0 .. IndexMod - 1
      /\ Length = Count(begin, end) /\ Length <= Size
      /\ held \in Seq(Byte) /\ Len(held) \in Nat /\ Len(held) + want <= Size
  BY Numbers DEF Pop, Inv, TypeOK, FifoInv, RxFits
<1>2. /\ held' = Append(held, data[Slot(begin)]) /\ begin' = Succ(begin)
      /\ want' = want - 1 /\ pc' = (IF want = 1 THEN "notify" ELSE "pop")
      /\ UNCHANGED <<data, end, event, send_to_ble_state, uart_to_ble_send_evt_cnt,
                     sent, txLen, conn, rest, reg>>
  BY <1>1 DEF Pop, PopIndex
<1>3. data[Slot(begin)] \in Byte
  <2>1. begin \in Nat
    BY <1>1, Sizes
  <2>2. Slot(begin) \in 0 .. Size - 1
    BY <2>1, SlotType
  <2> QED
    BY <2>2 DEF Inv, TypeOK
<1>4. held' \in Seq(Byte) /\ Len(held') = Len(held) + 1
  BY <1>1, <1>2, <1>3, AppendProperties
<1>5. Length' = Length - 1
  <2>1. Count(Succ(begin), end) = Length - 1
    BY <1>1, Steps
  <2> QED
    BY <1>2, <2>1 DEF Length, Count
<1>6. begin' \in 0 .. IndexMod - 1
  BY <1>1, <1>2, Counts
<1>7. /\ want' \in 0 .. Size /\ want' <= Length' /\ (pc' = "pop" => want' # 0)
      /\ Len(held') + want' <= Size /\ Len(held') <= Size /\ Length' <= Size
  BY <1>1, <1>2, <1>4, <1>5, Sizes
<1>8. TypeOK'
  BY <1>2, <1>4, <1>6, <1>7, Sizes DEF Inv, TypeOK, event, Pushing
<1>9. RxFits' /\ FifoInv'
  BY <1>2, <1>7 DEF RxFits, FifoInv, Pushing
<1> QED
  BY <1>5, <1>8, <1>9 DEF Inv

LEMMA NotifyStep ==
  ASSUME Inv, HeldInv', NEW res \in Results, Notify(res)
  PROVE  Inv'
<1>1. /\ pc = "notify" /\ pc' = "idle" /\ evt' = TRUE /\ send_to_ble_state' = res
      /\ UNCHANGED <<fifo, uart_rx_flag, uart_to_ble_send_evt_cnt, txLen, conn, want, rest, reg>>
      /\ IF res = "TO_SEND" THEN sent' = held /\ held' = <<>> ELSE UNCHANGED <<sent, held>>
  BY DEF Notify, AfterNotify
<1>2. held \in Seq(Byte) /\ Len(held) <= Size /\ <<>> \in Seq(Byte) /\ Len(<<>>) = 0
  <2>1. held \in Seq(Byte) /\ Len(held) + 0 <= Size /\ Len(held) \in Nat
    BY <1>1, Numbers DEF Inv, TypeOK
  <2> QED
    BY <2>1
<1>3. /\ held' \in Seq(Byte) /\ Len(held') <= Size
      /\ sent' \in Seq(Byte) /\ Len(sent') <= Size
  <2>1. CASE res = "TO_SEND"
    BY <1>1, <1>2, <2>1, Sizes
  <2>2. CASE res # "TO_SEND"
    BY <1>1, <1>2, <2>2 DEF Inv, TypeOK
  <2> QED
    BY <2>1, <2>2
<1>4. TypeOK'
  BY <1>1, <1>3, Numbers, Sizes DEF Inv, TypeOK, fifo, Pushing
<1> QED
  BY <1>1, <1>4, Aside

\* A flush: FlushBegin makes the count anything, FlushEnd nought.
LEMMA FlushStep ==
  ASSUME Inv, HeldInv', FlushBegin \/ FlushEnd
  PROVE  Inv' /\ (FlushEnd => Length' = 0)
<1>1. UNCHANGED <<data, event, send, txLen, conn, want, rest, reg>>
  BY DEF FlushBegin, FlushEnd
<1>2. send_to_ble_state = "TO_SEND" /\ held = <<>>
  BY DEF FlushBegin, FlushEnd, Inv, HeldInv
<1>3. 0 \in 0 .. IndexMod - 1
  BY Sizes
<1>5. CASE FlushBegin
  <2>1. TypeOK'
    BY <1>1, <1>3, <1>5 DEF FlushBegin, Inv, TypeOK, event, send, Pushing
  <2>2. RxFits' /\ FifoInv'
    BY <1>5 DEF FlushBegin, RxFits, FifoInv, Pushing
  <2> QED
    BY <1>5, <2>1, <2>2 DEF Inv, FlushBegin, FlushEnd
<1>6. CASE FlushEnd
  <2>1. TypeOK'
    BY <1>1, <1>3, <1>6 DEF FlushEnd, Inv, TypeOK, event, send, Pushing
  <2>2. Length' = 0
    <3>1. begin' = 0 /\ end' = 0
      BY <1>6 DEF FlushEnd, Inv, HeldInv
    <3> QED
      BY <3>1, <1>3, Steps DEF Length, Count
  <2>3. RxFits' /\ FifoInv'
    BY <1>6, <2>2, Sizes DEF FlushEnd, RxFits, FifoInv, Pushing
  <2> QED
    BY <2>1, <2>2, <2>3 DEF Inv
<1> QED
  BY <1>5, <1>6

\* A write of the peer: as much of it as there is room for.
LEMMA DataStep ==
  ASSUME Inv, HeldInv', NEW bytes \in Writes, BleData(bytes)
  PROVE  Inv'
<1>1. /\ pc = "idle" /\ bytes \in Seq(Byte) /\ evt' = TRUE
      /\ UNCHANGED <<fifo, uart_rx_flag, send, conn, want, reg>>
      /\ rest' = SubSeq(bytes, 1, Smaller(Len(bytes), Available))
      /\ pc' = WriteLoop(rest')
      /\ txLen' = Smaller(txLen + Len(bytes), TxSize)
  BY PacketAssumption DEF BleData
<1>2. /\ Available \in Nat /\ Length \in Nat /\ Length <= Size /\ Available = Size - Length
      /\ Len(bytes) \in Nat
  BY <1>1, Numbers, LenProperties DEF Inv, RxFits
<1>3. rest' \in Seq(Byte) /\ Length + Len(rest') <= Size
  <2> DEFINE n == Smaller(Len(bytes), Available)
             s == SubSeq(bytes, 1, n)
  <2>1. n \in Nat /\ n <= Available /\ n <= Len(bytes)
    BY <1>2 DEF Smaller
  <2> HIDE DEF n
  <2>2. \A k \in 1 .. n : bytes[k] \in Byte
    BY <1>1, <1>2, <2>1, ElementOfSeq
  <2>3. s \in Seq(Byte) /\ Len(s) = n
    BY <2>1, <2>2, SubSeqProperties
  <2> HIDE DEF s
  <2>4. Length + Len(s) <= Size
    BY <1>2, <2>1, <2>3, Sizes
  <2> QED
    BY <1>1, <2>3, <2>4 DEF s, n
<1>4. txLen' \in 0 .. TxSize
  BY <1>1, <1>2, Sizes DEF Inv, TypeOK, Smaller
<1>5. pc' \in {"idle", "index"} /\ (pc' \in Pushing => rest' # <<>>)
  BY <1>1 DEF WriteLoop, Pushing
<1>6. Length' = Length
  BY <1>1 DEF fifo, Length
<1>7. TypeOK'
  BY <1>1, <1>3, <1>4, <1>5, Sizes DEF Inv, TypeOK, fifo, send, Pushing
<1>8. RxFits' /\ FifoInv'
  BY <1>1, <1>2, <1>3, <1>5, <1>6 DEF RxFits, FifoInv, Pushing
<1> QED
  BY <1>7, <1>8 DEF Inv

LEMMA PushStep ==
  ASSUME Inv, HeldInv', PushIndex \/ PushStore \/ PushLoad
  PROVE  Inv' /\ Length' = Length /\ (PushStore => reg = end)
<1>1. /\ UNCHANGED <<begin, end, event, send, txLen, conn, want, rest>>
      /\ pc \in {"index", "store", "load"} /\ pc' \in {"store", "load", "bump"}
      /\ reg' \in {reg, end} /\ (pc' \in {"store", "bump"} => reg' = end)
      /\ rest # <<>> /\ rest \in Seq(Byte)
  BY DEF PushIndex, PushStore, PushLoad, Inv, TypeOK, Pushing, fifo
<1>2. Length' = Length
  BY <1>1 DEF Length
<1>3. PushStore => reg = end
  BY DEF PushStore, Inv, FifoInv
<1>4. data' \in [0 .. Size - 1 -> Byte]
  <2>1. Head(rest) \in Byte
    BY <1>1
  <2> QED
    BY <2>1 DEF PushIndex, PushStore, PushLoad, fifo, Inv, TypeOK
<1>5. TypeOK'
  BY <1>1, <1>4 DEF Inv, TypeOK, event, send, Pushing
<1>6. RxFits' /\ FifoInv'
  BY <1>1, <1>2 DEF Inv, RxFits, FifoInv, Pushing
<1> QED
  BY <1>2, <1>3, <1>5, <1>6 DEF Inv

\* A byte has been pushed.
LEMMA BumpStep ==
  ASSUME Inv, HeldInv', PushBump
  PROVE  /\ Inv' /\ Length' = Length + 1 /\ Length < Size
         /\ pc # "flushEnd" /\ pc' # "flushEnd"
<1>1. /\ pc = "bump" /\ reg = end /\ rest # <<>> /\ rest \in Seq(Byte)
      /\ Length + Len(rest) <= Size /\ evt
      /\ UNCHANGED <<data, begin, event, send, txLen, conn, want>>
      /\ end' = Succ(end) /\ rest' = Tail(rest) /\ reg' = 0
      /\ pc' = IF Len(rest) = 1 THEN "idle" ELSE "index"
  BY DEF PushBump, Inv, TypeOK, FifoInv, HeldInv, Pushing
<1>2. /\ begin \in 0 .. IndexMod - 1 /\ end \in 0 .. IndexMod - 1
      /\ Length = Count(begin, end) /\ Length \in Nat /\ Len(rest) \in Nat
  BY Numbers DEF Inv
<1>3. /\ rest' \in Seq(Byte) /\ Len(rest') = Len(rest) - 1 /\ Len(rest) >= 1
      /\ (rest' = <<>> => Len(rest) = 1)
  <2>1. Tail(rest) \in Seq(Byte) /\ Len(Tail(rest)) = Len(rest) - 1 /\ Len(rest) # 0
    BY <1>1, HeadTailProperties, EmptySeq
  <2>2. Tail(rest) = <<>> => Len(Tail(rest)) = 0
    BY EmptySeq, Zenon
  <2> QED
    BY <1>1, <1>2, <2>1, <2>2
<1>4. Length < Size /\ Length < IndexMod - 1
  BY <1>1, <1>2, <1>3, Sizes
<1>5. Length' = Length + 1
  <2>1. Count(begin, Succ(end)) = Length + 1
    BY <1>2, <1>4, Steps
  <2> QED
    BY <1>1, <2>1 DEF Length, Count
<1>6. end' \in 0 .. IndexMod - 1 /\ 0 \in 0 .. IndexMod - 1
  BY <1>1, <1>2, Counts, Sizes
<1>7. Length' + Len(rest') <= Size /\ Length' <= Size
  BY <1>1, <1>2, <1>3, <1>4, <1>5, Sizes
<1>8. TypeOK'
  BY <1>1, <1>3, <1>6 DEF Inv, TypeOK, event, send, Pushing
<1>9. RxFits' /\ FifoInv'
  BY <1>1, <1>7 DEF RxFits, FifoInv, Pushing
<1> QED
  BY <1>1, <1>4, <1>5, <1>8, <1>9 DEF Inv

\* The interrupt: while a flush is under way, the count is that of neither FIFO.
LEMMA RxStep ==
  ASSUME Inv, HeldInv', Environment, NEW b \in Byte, RxIrq(b)
  PROVE  /\ Inv'
         /\ \/ UNCHANGED fifo
            \/ /\ data' = [data EXCEPT ![Slot(end)] = b] /\ UNCHANGED begin
               /\ pc # "flushEnd" => Length' = Length + 1 /\ Length < Size
<1>1. /\ pc \notin Pushing /\ uart_rx_flag' = TRUE
      /\ UNCHANGED <<evt, send, txLen, conn, main>>
  BY DEF RxIrq, Environment
<1>2. /\ begin \in 0 .. IndexMod - 1 /\ end \in 0 .. IndexMod - 1
      /\ Length = Count(begin, end) /\ Length \in Nat /\ Length < IndexMod
      /\ Available = IF Length <= Size THEN Size - Length ELSE Size + IndexMod - Length
  BY Numbers DEF Inv
<1>4. CASE UNCHANGED fifo
  <2>1. TypeOK'
    BY <1>1, <1>4 DEF Inv, TypeOK, fifo, send, main
  <2> QED
    BY <1>1, <1>4, <2>1, Aside
<1>5. CASE Available # 0 /\ data' = [data EXCEPT ![Slot(end)] = b]
           /\ end' = Succ(end) /\ UNCHANGED begin
  <2>1. end' \in 0 .. IndexMod - 1
    BY <1>2, <1>5, Counts
  <2>2. TypeOK'
    BY <1>1, <1>5, <2>1 DEF Inv, TypeOK, send, main
  <2>3. pc # "flushEnd" => Length' = Length + 1 /\ Length < Size
    <3> SUFFICES ASSUME pc # "flushEnd" PROVE Length' = Length + 1 /\ Length < Size
      OBVIOUS
    <3>1. Length < Size /\ Length < IndexMod - 1
      BY <1>2, <1>5, Sizes DEF Inv, RxFits
    <3>2. Count(begin, Succ(end)) = Length + 1
      BY <1>2, <3>1, Steps
    <3> QED
      BY <1>5, <3>1, <3>2 DEF Length, Count
  <2>4. pc = "pop" => want \in Nat /\ want <= Length
    BY Numbers DEF Inv, FifoInv
  <2>5. RxFits' /\ FifoInv'
    BY <1>1, <1>2, <1>5, <2>3, <2>4, Sizes DEF Inv, RxFits, FifoInv, main, Pushing
  <2> QED
    BY <1>5, <2>2, <2>3, <2>5 DEF Inv
<1> QED
  BY <1>4, <1>5 DEF RxIrq

LEMMA Invariance == ASSUME Environment PROVE Spec => []Inv
<1>1. Inv /\ [Next]_vars => Inv'
  <2> SUFFICES ASSUME Inv, [Next]_vars PROVE Inv'
    OBVIOUS
  <2>0. HeldInv'
    BY HeldStep DEF Inv
  <2>1. CASE UNCHANGED vars
    <3>1. TypeOK'
      BY <2>1 DEF Inv, TypeOK, vars, fifo, event, send, main
    <3> QED
      BY <2>0, <2>1, <3>1, Aside DEF vars
  <2>2. CASE Process \/ LinkEstablished \/ LinkTerminated
             \/ \E c \in {"linked", "ready"} : Configure(c)
    BY <2>0, <2>2, LinkStep
  <2>3. CASE SendEvent
    BY <2>0, <2>3, EventStep
  <2>4. CASE Continue
    BY <2>0, <2>4, ReadStep, PopStep, NotifyStep, FlushStep, PushStep, BumpStep DEF Continue
  <2>5. CASE \E bytes \in Writes : BleData(bytes)
    BY <2>0, <2>5, DataStep
  <2>6. CASE \E b \in Byte : RxIrq(b)
    BY <2>0, <2>6, RxStep
  <2> QED
    BY <2>1, <2>2, <2>3, <2>4, <2>5, <2>6 DEF Next, Link
<1> QED
  BY <1>1, InitInv, PTL DEF Spec

\* The FIFO never claims more than its buffer holds, and no packet outgrows
\* to_test_buffer, wherever in a read, a flush or a write the interrupt strikes.
THEOREM BridgeIsSafe == ASSUME Environment PROVE Spec => []Safe
<1>1. Inv => Safe
  BY DEF Inv, Safe
<1> QED
  BY <1>1, Invariance, PTL

-----------------------------------------------------------------------------
(* The send event *)

\* While there is something to send, the send event is going to look at it: it
\* stops only with the FIFO empty and no packet held, or for want of a peer that
\* takes notifications.  This holds also when pushes overlap.
THEOREM EventStaysAlive == Spec => WakeupKept
<1>1. ASSUME HeldInv, [Next]_vars, Awake, conn = "ready", conn' = "ready"
      PROVE  Awake'
  <2>1. CASE UNCHANGED <<fifo, send_to_ble_state, uart_rx_flag, evt, pc>>
    BY <1>1, <2>1 DEF Awake, fifo, Length
  <2>2. CASE uart_rx_flag' \/ evt' \/ pc' # "idle"
    BY <2>2 DEF Awake
  <2>3. CASE Length' = 0 /\ send_to_ble_state' = "TO_SEND"
    BY <2>3 DEF Awake
  <2>4. CASE Process
    <3>1. evt' = (evt \/ uart_rx_flag) /\ pc = "idle"
      BY <2>4 DEF Process
    <3>2. ~evt' => UNCHANGED <<fifo, send_to_ble_state, pc>> /\ Length' = Length
      BY <2>4 DEF Process, fifo, send, main, Length
    <3> QED
      BY <1>1, <3>1, <3>2 DEF Awake
  <2>5. CASE SendEvent
    <3>1. evt' \/ pc' # "idle"
      BY <1>1, <2>5 DEF SendEvent, NotReady, Retry, WaitForMore, StartRead
    <3> QED
      BY <2>2, <3>1
  <2>6. CASE ReadCount
    <3>1. Length = 0 => Length' = 0 /\ send_to_ble_state' = "TO_SEND"
      BY <1>1, <2>6 DEF ReadCount, HeldInv, fifo, Length
    <3>2. Length # 0 => pc' # "idle"
      BY <2>6 DEF ReadCount
    <3> QED
      BY <2>2, <2>3, <3>1, <3>2
  <2>7. CASE FlushEnd
    <3>1. begin' = 0 /\ end' = 0 /\ send_to_ble_state' = "TO_SEND"
      BY <1>1, <2>7 DEF FlushEnd, HeldInv, send
    <3>2. Length' = 0
      BY <3>1, Steps, Sizes DEF Length, Count
    <3> QED
      BY <2>3, <3>1, <3>2
  <2>8. CASE Pop \/ FlushBegin \/ PushIndex \/ PushStore \/ PushLoad
    BY <2>2, <2>8 DEF Pop, FlushBegin, PushIndex, PushStore, PushLoad
  <2>9. CASE PushBump
    <3>1. evt'
      BY <1>1, <2>9 DEF PushBump, HeldInv, Pushing, event
    <3> QED
      BY <2>2, <3>1
  <2>10. CASE \E res \in Results : Notify(res)
    BY <2>2, <2>10 DEF Notify, AfterNotify
  <2>11. CASE Link
    BY <1>1, <2>1, <2>2, <2>11 DEF Link, LinkEstablished, LinkTerminated, Configure, BleData,
      event, send, main
  <2>12. CASE \E b \in Byte : RxIrq(b)
    BY <2>2, <2>12 DEF RxIrq
  <2>13. CASE UNCHANGED vars
    BY <2>1, <2>13 DEF vars, send, event, main
  <2> QED
    BY <1>1, <2>4, <2>5, <2>6, <2>7, <2>8, <2>9, <2>10, <2>11, <2>12, <2>13 DEF Next, Continue
<1>2. HeldInv /\ [Next]_vars => (Awake /\ conn = "ready" /\ conn' = "ready" => Awake')
  BY <1>1
<1>3. Init => HeldInv
  BY DEF Init, HeldInv, Pushing
<1>4. HeldInv /\ [Next]_vars => HeldInv'
  BY HeldStep
<1> QED
  BY <1>2, <1>3, <1>4, PTL DEF Spec, WakeupKept

-----------------------------------------------------------------------------
(* The queue *)

\* Division, as far as the slots of an index need it.
LEMMA Quotient ==
  ASSUME NEW n \in Nat, n > 0, NEW x \in Nat
  PROVE  \E q \in Nat : x = n * q + (x % n) /\ x % n \in 0 .. n - 1
<1>1. x = n * (x \div n) + (x % n) /\ x % n \in 0 .. n - 1
  BY SMTT(30)
<1>2. x \div n \in Nat
  BY SMTT(30)
<1> QED
  BY <1>1, <1>2

LEMMA Unique ==
  ASSUME NEW n \in Nat, n > 0, NEW p \in Int, NEW q \in Int,
         NEW r \in 0 .. n - 1, NEW s \in 0 .. n - 1,
         n * p + r = n * q + s
  PROVE  r = s
<1>1. n * (p - q) = s - r
  BY SMTT(30)
<1>2. PICK d \in Int : d = p - q
  OBVIOUS
<1>3. n * d = s - r
  BY <1>1, <1>2
<1>4. d >= 1 => n * d >= n
  BY <1>2, SMTT(30)
<1>5. d <= -1 => n * d <= -n
  BY <1>2, SMTT(30)
<1>6. d = 0
  BY <1>2, <1>3, <1>4, <1>5
<1> QED
  BY <1>3, <1>6

\* The slots go on where the range of the indices ends.
LEMMA SlotMod ==
  ASSUME NEW x \in Nat, x < 2 * IndexMod
  PROVE  Slot(x % IndexMod) = Slot(x)
<1>1. x % IndexMod = IF x < IndexMod THEN x ELSE x - IndexMod
  BY Sizes, Remainder
<1>2. CASE x < IndexMod
  BY <1>1, <1>2
<1>3. CASE x >= IndexMod
  <2>1. PICK y \in Nat : y = x - IndexMod
    BY <1>3, Sizes
  <2>2. PICK m \in Nat : IndexMod = Size * m + (IndexMod % Size) /\ IndexMod % Size = 0
    BY Sizes, SizeAssumption, Quotient
  <2>3. PICK p \in Nat : x = Size * p + (x % Size) /\ x % Size \in 0 .. Size - 1
    BY Sizes, Quotient
  <2>4. PICK q \in Nat : y = Size * q + (y % Size) /\ y % Size \in 0 .. Size - 1
    BY Sizes, Quotient
  <2>5. Size * (q + m) = Size * q + Size * m
    BY Sizes, SMTT(30)
  <2>6. Size * (q + m) + (y % Size) = Size * p + (x % Size)
    BY <2>1, <2>2, <2>3, <2>4, <2>5, Sizes
  <2>7. y % Size = x % Size
    <3>1. q + m \in Int /\ p \in Int
      OBVIOUS
    <3> QED
      BY <2>3, <2>4, <2>6, <3>1, Sizes, Unique
  <2> QED
    BY <1>1, <1>3, <2>1, <2>7, Sizes DEF Slot
<1> QED
  BY <1>2, <1>3, Sizes

\* Bytes that lie less than a buffer apart have slots of their own.
LEMMA SlotsDiffer ==
  ASSUME NEW x \in Nat, NEW y \in Nat, x < y, y - x < Size
  PROVE  Slot(x) # Slot(y)
<1>1. PICK p \in Nat : x = Size * p + (x % Size)
  BY Sizes, Quotient
<1>2. PICK q \in Nat : y = Size * q + (y % Size)
  BY Sizes, Quotient
<1>3. ASSUME x % Size = y % Size PROVE FALSE
  <2>1. PICK d \in Int : d = q - p
    OBVIOUS
  <2>2. Size * d = Size * q - Size * p
    BY Sizes, <2>1, SMTT(30)
  <2>3. Size * d = y - x
    BY <1>1, <1>2, <1>3, <2>2, Sizes
  <2>4. d >= 1 => Size * d >= Size
    BY Sizes, SMTT(30)
  <2>5. d <= 0 => Size * d <= 0
    BY Sizes, SMTT(30)
  <2> QED
    BY <2>1, <2>3, <2>4, <2>5, Sizes
<1> QED
  BY <1>3 DEF Slot

\* The two parts of the abstract queue.
Fifo  == IF pc = "flushEnd" THEN <<>> ELSE From(begin, Length)
Queue == held \o Fifo

LEMMA FromType ==
  ASSUME TypeOK, NEW i \in Nat, NEW n \in Nat
  PROVE  /\ From(i, n) \in Seq(Byte) /\ Len(From(i, n)) = n
         /\ \A k \in 1 .. n : From(i, n)[k] = data[Slot(i + k - 1)]
<1>1. \A k \in 1 .. n : data[Slot(i + k - 1)] \in Byte
  <2> SUFFICES ASSUME NEW k \in 1 .. n PROVE data[Slot(i + k - 1)] \in Byte
    OBVIOUS
  <2>1. i + k - 1 \in Nat
    OBVIOUS
  <2>2. Slot(i + k - 1) \in 0 .. Size - 1
    BY <2>1, SlotType
  <2> QED
    BY <2>2 DEF TypeOK
<1> QED
  BY <1>1 DEF From

LEMMA QueueType ==
  ASSUME Inv
  PROVE  /\ Fifo \in Seq(Byte) /\ held \in Seq(Byte) /\ Len(held) <= Size
         /\ Len(Fifo) = IF pc = "flushEnd" THEN 0 ELSE Length
         /\ Len(Fifo) <= Size /\ Len(Fifo) \in Nat /\ Len(held) \in Nat
         /\ begin \in Nat /\ begin < IndexMod
         /\ pc # "flushEnd" =>
              \A k \in 1 .. Length : Fifo[k] = data[Slot(begin + k - 1)]
<1>1. begin \in Nat /\ begin < IndexMod /\ Length \in Nat /\ TypeOK
  BY Numbers, Sizes DEF Inv
<1>2. pc # "flushEnd" => /\ Fifo \in Seq(Byte) /\ Len(Fifo) = Length
                         /\ \A k \in 1 .. Length : Fifo[k] = data[Slot(begin + k - 1)]
  BY <1>1, FromType DEF Fifo
<1>3. pc = "flushEnd" => Fifo \in Seq(Byte) /\ Len(Fifo) = 0
  BY EmptySeq DEF Fifo
<1>4. Len(Fifo) <= Size /\ Len(Fifo) \in Nat
  BY <1>1, <1>2, <1>3, Sizes DEF Inv, RxFits
<1>5. held \in Seq(Byte) /\ Len(held) \in Nat /\ Len(held) <= Size
  <2>1. Len(held) \in Nat /\ want \in Nat
    BY Numbers DEF Inv
  <2>2. CASE pc = "pop"
    BY <2>1, <2>2, Sizes DEF Inv, TypeOK
  <2>3. CASE pc # "pop"
    <3>1. Len(held) + 0 <= Size
      BY <2>3 DEF Inv, TypeOK
    <3> QED
      BY <2>1, <3>1 DEF Inv, TypeOK
  <2> QED
    BY <2>2, <2>3
<1> QED
  BY <1>1, <1>2, <1>3, <1>4, <1>5

\* The slot behind the last byte is that of no other while there is room.
LEMMA EndSlot ==
  ASSUME Inv, pc # "flushEnd", Length < Size
  PROVE  /\ Slot(end) = Slot(begin + Length) /\ Slot(end) \in 0 .. Size - 1
         /\ \A k \in 1 .. Length : Slot(begin + k - 1) # Slot(end)
<1>1. /\ begin \in 0 .. IndexMod - 1 /\ end \in 0 .. IndexMod - 1
      /\ begin \in Nat /\ end \in Nat /\ begin < IndexMod
      /\ Length = Count(begin, end) /\ Length \in Nat /\ Length < IndexMod
  BY Numbers, Sizes DEF Inv
<1>2. end = (begin + Length) % IndexMod
  BY <1>1, Counts
<1>3. Slot(end) = Slot(begin + Length)
  <2>1. begin + Length \in Nat /\ begin + Length < 2 * IndexMod
    BY <1>1, Sizes
  <2> QED
    BY <1>2, <2>1, SlotMod
<1>4. \A k \in 1 .. Length : Slot(begin + k - 1) # Slot(end)
  <2> SUFFICES ASSUME NEW k \in 1 .. Length PROVE Slot(begin + k - 1) # Slot(begin + Length)
    BY <1>3
  <2>1. /\ begin + k - 1 \in Nat /\ begin + Length \in Nat
        /\ begin + k - 1 < begin + Length /\ (begin + Length) - (begin + k - 1) < Size
    BY <1>1, Sizes
  <2> QED
    BY <2>1, SlotsDiffer
<1> QED
  BY <1>1, <1>3, <1>4, SlotType

\* A byte stored in the slot behind the last, and counted, is the last of the FIFO;
\* stored, and not counted yet, it changes nothing.
LEMMA FifoGrows ==
  ASSUME Inv, Inv', pc # "flushEnd", pc' # "flushEnd", begin' = begin, Length < Size,
         \A i \in 0 .. Size - 1 : i # Slot(end) => data'[i] = data[i]
  PROVE  /\ Length' = Length => Fifo' = Fifo
         /\ Length' = Length + 1 => \E x \in Byte : Fifo' = Append(Fifo, x)
<1> DEFINE n == Length
           f == Fifo
           new == Fifo'
<1>1. /\ n \in Nat /\ f \in Seq(Byte) /\ Len(f) = n /\ begin \in Nat
      /\ \A k \in 1 .. n : f[k] = data[Slot(begin + k - 1)]
  BY QueueType, Numbers DEF Inv
<1>2. /\ new \in Seq(Byte) /\ Len(new) = Length'
      /\ \A k \in 1 .. Length' : new[k] = data'[Slot(begin + k - 1)]
  <2>1. (Inv => /\ Fifo \in Seq(Byte) /\ Len(Fifo) = IF pc = "flushEnd" THEN 0 ELSE Length
                /\ pc # "flushEnd" =>
                     \A k \in 1 .. Length : Fifo[k] = data[Slot(begin + k - 1)])'
    BY QueueType, PTL
  <2> QED
    BY <2>1 DEF Slot
<1>3. \A k \in 1 .. n : data'[Slot(begin + k - 1)] = f[k]
  <2> SUFFICES ASSUME NEW k \in 1 .. n PROVE data'[Slot(begin + k - 1)] = f[k]
    OBVIOUS
  <2>1. begin + k - 1 \in Nat
    BY <1>1
  <2>2. Slot(begin + k - 1) # Slot(end) /\ Slot(begin + k - 1) \in 0 .. Size - 1
    BY <2>1, EndSlot, SlotType
  <2> QED
    BY <1>1, <2>2
<1>4. ASSUME Length' = n PROVE new = f
  <2>1. Len(new) = Len(f)
    BY <1>1, <1>2, <1>4
  <2>2. \A k \in 1 .. Len(new) : new[k] = f[k]
    BY <1>2, <1>3, <1>4
  <2> HIDE DEF new, f
  <2> QED
    BY <1>1, <1>2, <2>1, <2>2, SeqEqual
<1>5. ASSUME Length' = n + 1 PROVE \E x \in Byte : new = Append(f, x)
  <2>1. Len(new) = n + 1 /\ n + 1 \in 1 .. Len(new)
    BY <1>1, <1>2, <1>5
  <2>2. \A k \in 1 .. n : new[k] = f[k]
    <3>1. \A k \in 1 .. n : k \in 1 .. n + 1
      BY <1>1
    <3> QED
      BY <1>2, <1>3, <1>5, <3>1
  <2> HIDE DEF new, f, n
  <2>3. PICK x \in Byte : x = new[n + 1]
    BY <1>2, <2>1, ElementOfSeq
  <2> DEFINE g == Append(f, x)
  <2>4. /\ g \in Seq(Byte) /\ Len(g) = n + 1 /\ \A k \in 1 .. n : g[k] = f[k]
        /\ g[n + 1] = x
    BY <1>1, AppendProperties
  <2> HIDE DEF g
  <2>5. \A k \in 1 .. Len(new) : new[k] = g[k]
    <3> SUFFICES ASSUME NEW k \in 1 .. Len(new) PROVE new[k] = g[k]
      OBVIOUS
    <3>1. k \in 1 .. n \/ k = n + 1
      BY <1>1, <2>1
    <3> QED
      BY <2>2, <2>3, <2>4, <3>1
  <2>6. new = g
    BY <1>2, <2>1, <2>4, <2>5, SeqEqual
  <2> QED
    BY <2>6 DEF g
<1> QED
  BY <1>4, <1>5

\* Taking out the first byte moves it behind those taken out before.
LEMMA PopMoves ==
  ASSUME Inv, Inv', Pop
  PROVE  Queue' = Queue /\ sent' = sent
<1> DEFINE f == Fifo
           new == Fifo'
           n == Length
<1>1. /\ pc = "pop" /\ pc' \in {"pop", "notify"} /\ held' = Append(held, data[Slot(begin)])
      /\ begin' = Succ(begin) /\ data' = data /\ sent' = sent /\ Length' = n - 1
      /\ want # 0 /\ want <= n /\ want \in Nat
  BY PopStep, Numbers DEF Pop, PopIndex, Inv, TypeOK, FifoInv
<1>2. /\ n \in Nat /\ f \in Seq(Byte) /\ Len(f) = n /\ begin \in Nat /\ n <= Size
      /\ \A k \in 1 .. n : f[k] = data[Slot(begin + k - 1)]
      /\ held \in Seq(Byte) /\ begin < IndexMod
  BY <1>1, QueueType, Numbers DEF Inv
<1>3. /\ new \in Seq(Byte) /\ Len(new) = n - 1
      /\ \A k \in 1 .. n - 1 : new[k] = data[Slot(Succ(begin) + k - 1)]
  <2>1. (Inv => /\ Fifo \in Seq(Byte) /\ Len(Fifo) = IF pc = "flushEnd" THEN 0 ELSE Length
                /\ pc # "flushEnd" =>
                     \A k \in 1 .. Length : Fifo[k] = data[Slot(begin + k - 1)])'
    BY QueueType, PTL
  <2> QED
    BY <1>1, <2>1 DEF Slot
<1>4. n > 0
  BY <1>1, <1>2
<1>5. \A k \in 1 .. n - 1 : Slot(Succ(begin) + k - 1) = Slot(begin + (k + 1) - 1)
  <2> SUFFICES ASSUME NEW k \in 1 .. n - 1
               PROVE  Slot(Succ(begin) + k - 1) = Slot(begin + (k + 1) - 1)
    OBVIOUS
  <2>1. begin \in 0 .. IndexMod - 1
    BY <1>2, Sizes
  <2>2. Succ(begin) = IF begin = IndexMod - 1 THEN 0 ELSE begin + 1
    BY <2>1, Counts
  <2>3. CASE begin = IndexMod - 1
    <3> DEFINE y == begin + k
    <3>1. /\ y \in Nat /\ y < 2 * IndexMod /\ ~(y < IndexMod) /\ y - IndexMod = k - 1
          /\ Succ(begin) + k - 1 = k - 1 /\ begin + (k + 1) - 1 = y
      BY <1>2, <2>2, <2>3, Sizes
    <3> HIDE DEF y
    <3>2. y % IndexMod = k - 1
      BY <3>1, Sizes, Remainder
    <3> QED
      BY <3>1, <3>2, SlotMod
  <2>4. CASE begin # IndexMod - 1
    <3>1. Succ(begin) + k - 1 = begin + (k + 1) - 1
      BY <1>2, <2>2, <2>4
    <3> QED
      BY <3>1
  <2> QED
    BY <2>3, <2>4
<1>6. f # <<>> /\ Head(f) = data[Slot(begin)]
  <2>1. 1 \in 1 .. n /\ begin + 1 - 1 = begin
    BY <1>2, <1>4
  <2>2. f[1] = data[Slot(begin)]
    BY <1>2, <2>1
  <2> HIDE DEF f, n
  <2>3. f # <<>>
    BY <1>2, <1>4, EmptySeq
  <2> QED
    BY <1>2, <2>2, <2>3
<1> HIDE DEF f, new, n
<1>7. Tail(f) = new
  <2>1. /\ Tail(f) \in Seq(Byte) /\ Len(Tail(f)) = n - 1
        /\ \A k \in 1 .. n - 1 : Tail(f)[k] = f[k + 1]
    BY <1>2, <1>6, HeadTailProperties
  <2>2. \A k \in 1 .. n - 1 : k + 1 \in 1 .. n
    BY <1>2
  <2>3. \A k \in 1 .. n - 1 : Tail(f)[k] = new[k]
    BY <1>2, <1>3, <1>5, <2>1, <2>2
  <2> QED
    BY <1>3, <2>1, <2>3, SeqEqual
<1>8. Append(held, Head(f)) \o Tail(f) = held \o f
  <2>1. Head(f) \in Byte /\ Tail(f) \in Seq(Byte)
    BY <1>2, <1>6, HeadTailProperties
  <2>2. Append(held, Head(f)) = held \o <<Head(f)>>
    BY <1>2, <2>1, AppendIsConcat
  <2>3. <<Head(f)>> \in Seq(Byte)
    BY <2>1
  <2>4. (held \o <<Head(f)>>) \o Tail(f) = held \o (<<Head(f)>> \o Tail(f))
    BY <1>2, <2>1, <2>3, ConcatAssociative
  <2>5. <<Head(f)>> \o Tail(f) = f
    <3>1. Len(f) = n /\ 1 \in 1 .. Len(f) /\ Len(f) \in 1 .. Len(f)
      BY <1>2, <1>4
    <3>2. SubSeq(f, 1, Len(f)) = <<f[1]>> \o SubSeq(f, 1 + 1, Len(f))
      BY <1>2, <3>1, SubSeqRecursiveFirst
    <3>3. SubSeq(f, 1, Len(f)) = f /\ Tail(f) = SubSeq(f, 2, Len(f)) /\ Head(f) = f[1]
      BY <1>2, <1>6, SubSeqFull, TailIsSubSeq
    <3> QED
      BY <3>2, <3>3
  <2> QED
    BY <2>2, <2>4, <2>5
<1>9. Queue = held \o f /\ Queue' = held' \o new
  BY DEF Queue, f, new
<1> QED
  BY <1>1, <1>6, <1>7, <1>8, <1>9

\* A concatenation has its parts.
LEMMA ConcatParts ==
  ASSUME NEW s \in Seq(Byte), NEW t \in Seq(Byte)
  PROVE  /\ SubSeq(s \o t, 1, Len(s)) = s
         /\ SubSeq(s \o t, Len(s) + 1, Len(s \o t)) = t
         /\ Len(s) \in 0 .. Len(s \o t)
         /\ s \o t \in Seq(Byte) /\ Len(s \o t) = Len(s) + Len(t)
<1> DEFINE m == Len(s)
           n == Len(t)
<1>1. m \in Nat /\ n \in Nat /\ s \o t \in Seq(Byte) /\ Len(s \o t) = m + n
  BY ConcatProperties, LenProperties
<1>2. SubSeq(s \o t, 1, m) = s
  <2>1. CASE m = 0
    <3>1. s = <<>> /\ SubSeq(s \o t, 1, 0) = <<>>
      BY <2>1, EmptySeq, SubSeqEmpty
    <3> QED
      BY <2>1, <3>1
  <2>2. CASE m # 0
    <3>1. 1 \in 1 .. m /\ m \in 1 .. m
      BY <1>1, <2>2
    <3> QED
      BY <3>1, SubSeqOfConcat1, SubSeqFull
  <2> QED
    BY <2>1, <2>2
<1>3. SubSeq(s \o t, m + 1, m + n) = t
  <2>1. CASE n = 0
    <3>1. m + 1 \in Int /\ m + n \in Int /\ m + n < m + 1
      BY <1>1, <2>1
    <3> HIDE DEF m, n
    <3>2. SubSeq(s \o t, m + 1, m + n) = <<>>
      BY <3>1, SubSeqEmpty
    <3> QED
      BY <2>1, <3>2, EmptySeq DEF n
  <2>2. CASE n # 0
    <3>1. /\ m + 1 \in m + 1 .. m + n /\ m + n \in m + 1 .. m + n
          /\ m + 1 - m = 1 /\ m + n - m = n
      BY <1>1, <2>2
    <3>2. SubSeq(s \o t, m + 1, m + n) = SubSeq(t, m + 1 - m, m + n - m)
      BY <3>1, SubSeqOfConcat2
    <3>3. SubSeq(t, 1, n) = t
      BY SubSeqFull
    <3> HIDE DEF m, n
    <3> QED
      BY <3>1, <3>2, <3>3
  <2> QED
    BY <2>1, <2>2
<1>4. m \in 0 .. m + n
  BY <1>1
<1> QED
  BY <1>1, <1>2, <1>3, <1>4

\* What a step does to the abstract queue: nothing, or what ByteStream allows.
QueueMoves ==
  \/ Queue' = Queue /\ sent' = sent
  \/ Len(Queue) < Size + Size /\ (\E x \in Byte : Queue' = Append(Queue, x)) /\ sent' = sent
  \/ \E n \in 0 .. Len(Queue) :
       sent' = SubSeq(Queue, 1, n) /\ Queue' = SubSeq(Queue, n + 1, Len(Queue))
  \/ FlushBegin /\ \E n \in 0 .. Len(Queue) : Queue' = SubSeq(Queue, 1, n) /\ sent' = sent

\* A byte at the end of the FIFO is one at the end of the queue.
LEMMA FifoReceives ==
  ASSUME Inv, NEW x \in Byte, Fifo' = Append(Fifo, x), Len(Fifo) < Size,
         UNCHANGED <<held, sent>>
  PROVE  QueueMoves
<1> DEFINE q == Queue
           new == Queue'
<1>1. /\ held \in Seq(Byte) /\ Fifo \in Seq(Byte) /\ Len(held) \in Nat /\ Len(Fifo) \in Nat
      /\ Len(held) <= Size /\ q = held \o Fifo /\ new = held \o Append(Fifo, x)
  BY QueueType DEF Queue
<1>2. q \in Seq(Byte) /\ Len(q) = Len(held) + Len(Fifo)
  BY <1>1, ConcatParts
<1>3. <<x>> \in Seq(Byte)
  OBVIOUS
<1>4. new = Append(q, x)
  <2>1. Append(Fifo, x) = Fifo \o <<x>>
    BY <1>1, AppendIsConcat
  <2>2. (held \o Fifo) \o <<x>> = held \o (Fifo \o <<x>>)
    BY <1>1, <1>3, ConcatAssociative
  <2>3. Append(q, x) = q \o <<x>>
    BY <1>2, AppendIsConcat
  <2> QED
    BY <1>1, <2>1, <2>2, <2>3
<1> HIDE DEF q, new
<1>5. Len(q) < Size + Size
  BY <1>1, <1>2, Sizes
<1> QED
  BY <1>4, <1>5 DEF QueueMoves, q, new

\* What leaves the FIFO alone.
LEMMA FifoStays ==
  ASSUME UNCHANGED fifo, pc = "flushEnd" <=> pc' = "flushEnd"
  PROVE  Fifo' = Fifo
BY DEF Fifo, From, Length, fifo

LEMMA NotifyMoves ==
  ASSUME Inv, NEW res \in Results, Notify(res)
  PROVE  QueueMoves
<1>1. Fifo' = Fifo
  BY FifoStays DEF Notify
<1>2. CASE res # "TO_SEND"
  BY <1>1, <1>2 DEF Notify, Queue, QueueMoves
<1>3. CASE res = "TO_SEND"
  <2>1. sent' = held /\ held' = <<>>
    BY <1>3 DEF Notify
  <2>2. held \in Seq(Byte) /\ Fifo \in Seq(Byte)
    BY QueueType
  <2>3. Queue' = Fifo
    BY <1>1, <2>1, <2>2, ConcatEmptySeq DEF Queue
  <2> DEFINE n == Len(held)
  <2>4. /\ n \in 0 .. Len(Queue) /\ SubSeq(Queue, 1, n) = held
        /\ SubSeq(Queue, n + 1, Len(Queue)) = Fifo
    BY <2>2, ConcatParts DEF Queue
  <2> HIDE DEF n
  <2> QED
    BY <2>1, <2>3, <2>4 DEF QueueMoves
<1> QED
  BY <1>2, <1>3

LEMMA FlushMoves ==
  ASSUME Inv, Inv', FlushBegin \/ FlushEnd
  PROVE  QueueMoves
<1>0. HeldInv'
  BY DEF Inv
<1>1. held' = held /\ sent' = sent /\ held \in Seq(Byte) /\ Fifo \in Seq(Byte)
  BY QueueType DEF FlushBegin, FlushEnd, send
<1>2. Fifo' = <<>>
  <2>1. CASE FlushBegin
    BY <2>1 DEF FlushBegin, Fifo
  <2>2. CASE FlushEnd
    <3>1. (Inv => Fifo \in Seq(Byte) /\ Len(Fifo) = IF pc = "flushEnd" THEN 0 ELSE Length)'
      BY QueueType, PTL
    <3>2. pc' # "flushEnd" /\ Length' = 0
      BY <1>0, <2>2, FlushStep DEF FlushEnd
    <3> DEFINE new == Fifo'
    <3>3. new \in Seq(Byte) /\ Len(new) = 0
      BY <3>1, <3>2
    <3> HIDE DEF new
    <3>4. new = <<>>
      BY <3>3, EmptySeq
    <3> QED
      BY <3>4 DEF new
  <2> QED
    BY <2>1, <2>2
<1>3. Queue' = held
  BY <1>1, <1>2, ConcatEmptySeq DEF Queue
<1> DEFINE n == Len(held)
<1>4. n \in 0 .. Len(Queue) /\ SubSeq(Queue, 1, n) = held
  BY <1>1, ConcatParts DEF Queue
<1> HIDE DEF n
<1>5. CASE FlushBegin
  BY <1>1, <1>3, <1>4, <1>5 DEF QueueMoves
<1>6. CASE FlushEnd
  <2>1. Fifo = <<>>
    BY <1>6 DEF FlushEnd, Fifo
  <2>2. Queue = held
    BY <1>1, <2>1, ConcatEmptySeq DEF Queue
  <2> QED
    BY <1>1, <1>3, <2>2 DEF QueueMoves
<1> QED
  BY <1>5, <1>6

LEMMA PushMoves ==
  ASSUME Inv, Inv', PushIndex \/ PushStore \/ PushLoad \/ PushBump
  PROVE  QueueMoves
<1>0. HeldInv'
  BY DEF Inv
<1>1. UNCHANGED <<held, sent>>
  BY DEF PushIndex, PushStore, PushLoad, PushBump, send
<1>2. CASE PushIndex \/ PushLoad
  <2>1. Fifo' = Fifo
    BY <1>2, FifoStays DEF PushIndex, PushLoad
  <2> QED
    BY <1>1, <2>1 DEF Queue, QueueMoves
<1>3. CASE PushStore
  <2>1. /\ pc = "store" /\ pc' = "load" /\ begin' = begin /\ Length' = Length
        /\ data' = [data EXCEPT ![Slot(end)] = Head(rest)]
    BY <1>0, <1>3, PushStep DEF PushStore
  <2>2. Length < Size
    <3>1. rest # <<>> /\ rest \in Seq(Byte) /\ Length + Len(rest) <= Size
      BY <2>1 DEF Inv, TypeOK, FifoInv, Pushing
    <3>2. Len(rest) \in Nat \ {0} /\ Length \in Nat
      BY <3>1, EmptySeq, Numbers DEF Inv
    <3> QED
      BY <3>1, <3>2, Sizes
  <2>3. \A i \in 0 .. Size - 1 : i # Slot(end) => data'[i] = data[i]
    BY <2>1 DEF Inv, TypeOK
  <2>4. Fifo' = Fifo
    BY <2>1, <2>2, <2>3, FifoGrows
  <2> QED
    BY <1>1, <2>4 DEF Queue, QueueMoves
<1>4. CASE PushBump
  <2>1. /\ Length' = Length + 1 /\ Length < Size /\ pc # "flushEnd" /\ pc' # "flushEnd"
        /\ begin' = begin /\ data' = data
    BY <1>0, <1>4, BumpStep DEF PushBump
  <2>2. PICK x \in Byte : Fifo' = Append(Fifo, x)
    BY <2>1, FifoGrows
  <2>3. Len(Fifo) < Size
    BY <2>1, QueueType
  <2> QED
    BY <1>1, <2>2, <2>3, FifoReceives
<1> QED
  BY <1>2, <1>3, <1>4

LEMMA RxMoves ==
  ASSUME Inv, Inv', Environment, NEW b \in Byte, RxIrq(b)
  PROVE  QueueMoves
<1>0. HeldInv'
  BY DEF Inv
<1>1. pc' = pc /\ UNCHANGED <<held, sent>>
  BY DEF RxIrq, main, send
<1>2. CASE UNCHANGED fifo
  <2>1. Fifo' = Fifo
    BY <1>1, <1>2, FifoStays
  <2> QED
    BY <1>1, <2>1 DEF Queue, QueueMoves
<1>3. CASE pc = "flushEnd"
  BY <1>1, <1>3 DEF Fifo, Queue, QueueMoves
<1>4. CASE ~UNCHANGED fifo /\ pc # "flushEnd"
  <2>1. /\ data' = [data EXCEPT ![Slot(end)] = b] /\ begin' = begin
        /\ Length' = Length + 1 /\ Length < Size
    BY <1>0, <1>4, RxStep
  <2>2. \A i \in 0 .. Size - 1 : i # Slot(end) => data'[i] = data[i]
    BY <2>1 DEF Inv, TypeOK
  <2>3. PICK x \in Byte : Fifo' = Append(Fifo, x)
    BY <1>1, <1>4, <2>1, <2>2, FifoGrows
  <2>4. Len(Fifo) < Size
    BY <1>4, <2>1, QueueType
  <2> QED
    BY <1>1, <2>3, <2>4, FifoReceives
<1> QED
  BY <1>2, <1>3, <1>4

\* The rest of what main loop and stack do leaves FIFO and packet alone.
LEMMA QuietMoves ==
  ASSUME Inv, Process \/ SendEvent \/ ReadCount \/ Link
  PROVE  QueueMoves
<1>1. UNCHANGED <<fifo, sent>> /\ pc # "flushEnd" /\ pc' # "flushEnd"
  BY DEF Process, SendEvent, NotReady, Retry, WaitForMore, StartRead, EventDue, ReadCount, Link,
    LinkEstablished, LinkTerminated, Configure, BleData, WriteLoop, send, main
<1>2. held' = held
  <2>1. CASE ReadCount
    BY <2>1 DEF ReadCount, Inv, HeldInv
  <2>2. CASE Process \/ SendEvent \/ Link
    BY <2>2 DEF Process, SendEvent, NotReady, Retry, WaitForMore, StartRead, Link,
      LinkEstablished, LinkTerminated, Configure, BleData, send
  <2> QED
    BY <2>1, <2>2
<1>3. Fifo' = Fifo
  BY <1>1, FifoStays
<1> QED
  BY <1>1, <1>2, <1>3 DEF Queue, QueueMoves

\* The bridge implements ByteStream: what the peer is notified of is what the FIFO
\* took in, once each and in order, across the end of the buffer and of the range
\* of the indices, refused packets included; a flush drops all of it.
THEOREM BridgeRefinement == ASSUME Environment PROVE Spec => ImplementsByteStream
<1>1. Init => BS!Init
  <2> SUFFICES ASSUME Init PROVE Queue = <<>> /\ sent = <<>>
    BY DEF BS!Init, Queue, Fifo
  <2>1. Length = 0 /\ pc = "idle" /\ Inv /\ held = <<>> /\ sent = <<>>
    <3>1. Length = 0
      BY Steps, Sizes DEF Init, Length, Count
    <3> QED
      BY <3>1, InitInv DEF Init
  <2>2. Fifo \in Seq(Byte) /\ Len(Fifo) = 0
    BY <2>1, QueueType
  <2>3. Fifo = <<>>
    BY <2>2, EmptySeq
  <2>4. <<>> \in Seq(Byte)
    BY EmptySeq
  <2>5. <<>> \o <<>> = <<>>
    BY <2>4, ConcatEmptySeq
  <2> QED
    BY <2>1, <2>3, <2>5 DEF Queue
<1>2. Inv /\ Inv' /\ [Next]_vars =>
        [BS!Next]_BS!vars /\ [~FlushBegin => [BS!Work]_BS!vars]_vars
  <2>1. ASSUME Inv, Inv', Next PROVE QueueMoves
    <3>1. CASE Process \/ SendEvent \/ ReadCount \/ Link
      BY <2>1, <3>1, QuietMoves
    <3>2. CASE Pop
      BY <2>1, <3>2, PopMoves DEF QueueMoves
    <3>3. CASE FlushBegin \/ FlushEnd
      BY <2>1, <3>3, FlushMoves
    <3>4. CASE PushIndex \/ PushStore \/ PushLoad \/ PushBump
      BY <2>1, <3>4, PushMoves
    <3>5. CASE \E res \in Results : Notify(res)
      BY <2>1, <3>5, NotifyMoves
    <3>6. CASE \E b \in Byte : RxIrq(b)
      BY <2>1, <3>6, RxMoves
    <3> QED
      BY <2>1, <3>1, <3>2, <3>3, <3>4, <3>5, <3>6 DEF Next, Continue
  <2>2. QueueMoves => BS!Work \/ UNCHANGED BS!vars \/ (FlushBegin /\ BS!Next)
    BY DEF QueueMoves, Queue, Fifo, BS!Next, BS!Work, BS!Receive, BS!Deliver, BS!Reset, BS!vars
  <2>3. UNCHANGED vars => UNCHANGED BS!vars
    BY DEF vars, fifo, send, main, BS!vars, From, Length
  <2> QED
    BY <2>1, <2>2, <2>3 DEF BS!Next
<1> QED
  BY <1>1, <1>2, Invariance, PTL DEF Spec, BS!Spec, ImplementsByteStream
=============================================================================
