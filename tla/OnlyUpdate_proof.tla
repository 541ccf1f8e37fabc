-------------------------- MODULE OnlyUpdate_proof ---------------------------
(***************************************************************************)
(* Proofs about OnlyUpdate, for every flash geometry, every set of images  *)
(* and sizes, every command size and set of erase requests, and pages that *)
(* may fail.  Beyond the assumptions of the specification: a host does not *)
(* come back while an erase it ordered earlier still runs, and power does  *)
(* not fail while a repeated ERASE rewrites the flag page.  (The theorems  *)
(* about the erase event, at the end, assume less.)                        *)
(***************************************************************************)
EXTENDS OnlyUpdate, SequenceTheorems, TLAPS

Environment == ~EraseOutlivesLink /\ ~SwitchTears

\* Where the host stands against what the device still has to do, as in
\* BackupOta_proof.
LinkInv ==
  /\ cpu \notin {"loader", "iapErase", "iapProgram"} => host = "off"
  /\ cpu # "loader" => ~eraseEvt
  /\ cpu \in {"iapErase", "iapProgram"} => host = "eraseWait" /\ readBuf = "none"
  /\ host \notin {"off", "eraseWait"} => ~eraseEvt
  /\ host = "infoWait" => readBuf = "info"
  /\ host = "ready" => readBuf = "none"
  /\ host = "eraseWait" /\ readBuf # "none" => ~eraseEvt

\* Nothing touches image A before the flag page says that it is given up.
GivenUpInv ==
  /\ eraseEvt => flag = "IAP"
  /\ host \in {"prom", "verify", "verifyWait", "verified"} => flag = "IAP"
  /\ host = "eraseWait" /\ readBuf = "ok" => flag = "IAP"

\* The pages of A from page p up to the end of what was asked to be erased.
ErasedFrom(p) ==
  \A a \in Addr : a[1] < EraseBlockNum /\ a[1] * BlockPages + a[2] >= p
                    => imgA[a] = Erased

\* The image being sent fits into what was asked to be erased.
Covered == SizeOf[hVer] <= EraseBlockNum * BlockPages * PageUnits

\* The units of the image that are in A or in block_buf.
Stored == prom_addr.page * PageUnits + Len(block_buf)

\* What ERASE and PROM have prepared for the next page: the cursor follows the
\* host, and from there on everything is erased.
CursorInv ==
  /\ host = "eraseWait" /\ readBuf # "bad" =>
       /\ prom_addr = StartOfA /\ block_buf = <<>> /\ hPos = 0 /\ Covered
       /\ \A a \in Addr : a[1] < EraseBlockCnt => imgA[a] = Erased
       /\ readBuf = "ok" => EraseBlockCnt >= EraseBlockNum
  /\ host = "prom" =>
       /\ prom_addr.image = "A" /\ Covered /\ ErasedFrom(prom_addr.page)
       /\ Stored = hPos /\ hPos < SizeOf[hVer]
  /\ host = "verify" /\ block_buf # <<>> =>
       /\ prom_addr.image = "A" /\ Covered /\ ErasedFrom(prom_addr.page)
       /\ Stored = SizeOf[hVer]

\* What was compared is in A, and a mismatch sticks.
VerifyInv ==
  /\ host = "verify" =>
       /\ hPos > 0 => block_buf = <<>>
       /\ VerifyStatus = "ok" =>
            \A k \in 0 .. hPos - 1 : imgA[AddrOf(k)] = Data(hVer, AddrOf(k))
  /\ host = "verifyWait" =>
       /\ readBuf = VerifyStatus
       /\ VerifyStatus = "ok" => Holds(imgA, hVer)
  /\ host = "verified" => Holds(imgA, hVer)
  /\ cpu \in {"endErase", "endProgram"} => Holds(imgA, hVer)

BootInv == BootsCompleteImage /\ GivenUpIsRecorded

Running == cpu \in {"app", "otaErase", "otaProgram"}

\* What runs, or is about to, is not given up.
RunInv == Running \/ cpu = "endProgram" => flag # "IAP"

IInv == TypeOK /\ LinkInv /\ GivenUpInv /\ CursorInv /\ VerifyInv /\ BootInv /\ RunInv

USE DEF BootTarget, EraseCursor, EraseReply, Rest, Verdict, GivenUp

-----------------------------------------------------------------------------
(* The flash: addresses, and what a region holds *)

\* Every unit of an image has an address in the region.
LEMMA AddrOfType == \A k \in 0 .. TotalUnits - 1 : AddrOf(k) \in Addr
<1> USE GeometryAssumption
<1> SUFFICES ASSUME NEW k \in 0 .. TotalUnits - 1
             PROVE  AddrOf(k) \in Addr
  OBVIOUS
<1> DEFINE S == BlockPages * PageUnits
<1>1. S \in Nat \ {0} /\ TotalUnits = NBlocks * S
  BY SMT DEF TotalUnits
<1>2. k \in Nat /\ k < NBlocks * S
  BY <1>1
<1>3. k \div S \in 0 .. NBlocks - 1
  <2> HIDE DEF S
  <2> QED
    BY <1>1, <1>2, SMTT(30)
<1>4. k \div PageUnits \in Nat
  BY <1>2, SMTT(30)
<1>5. (k \div PageUnits) % BlockPages \in 0 .. BlockPages - 1 /\ k % PageUnits \in 0 .. PageUnits - 1
  BY <1>2, <1>4
<1> QED
  BY <1>3, <1>5 DEF AddrOf, Addr, Blocks, Pages, Offsets

LEMMA TotalNat == TotalUnits \in Nat
BY GeometryAssumption DEF TotalUnits

LEMMA ExtentInAddr == \A v \in Versions : Extent(v) \subseteq Addr
BY AddrOfType, GeometryAssumption, SizeAssumption DEF Extent, TotalUnits

\* A region holds at most one version, and VersionIn finds it.
LEMMA VersionInHeld ==
  ASSUME NEW img, NEW v \in Versions, Holds(img, v)
  PROVE  VersionIn(img) = v
<1>1. \A w \in Versions : AddrOf(0) \in Extent(w)
  BY GeometryAssumption, SizeAssumption DEF Extent, TotalUnits
<1> QED
  BY <1>1 DEF Holds, Data, VersionIn

LEMMA EraseType ==
  ASSUME NEW img \in Image, NEW b
  PROVE  EraseBlock(img, b) \in Image /\ TornBlock(img, b) \in Image
BY DEF EraseBlock, TornBlock, Image, Content

LEMMA ProgramType ==
  ASSUME NEW img \in Image, NEW b, NEW p, NEW data \in [Offsets -> Content]
  PROVE  ProgramPage(img, b, p, data) \in Image /\ TornPage(img, b, p) \in Image
BY DEF ProgramPage, TornPage, Image, Content, Addr

LEMMA AddrParts ==
  \A a \in Addr : /\ a[1] \in Blocks /\ a[2] \in Pages /\ a[3] \in Offsets
                  /\ a = <<a[1], a[2], a[3]>>
BY DEF Addr

-----------------------------------------------------------------------------
(* Types *)

LEMMA EmptyBuf == <<>> \in Seq(Content) /\ Len(<<>>) = 0 /\ Len(<<>>) < PageUnits
BY GeometryAssumption

LEMMA SizeFits ==
  \A v \in Versions : SizeOf[v] \in 1 .. TotalUnits /\ SizeOf[v] \in Nat /\ TotalUnits \in Nat
BY TotalNat, SizeAssumption

LEMMA ChunkFits == \A n \in 1 .. ChunkMax : n \in Nat /\ 0 < n /\ n < PageUnits
BY ChunkAssumption, GeometryAssumption

LEMMA CursorType ==
  /\ LowAddr \in [image : {"IAP", "A"}, page : Nat]
  /\ StartOfA \in [image : {"IAP", "A"}, page : Nat]
  /\ \A x \in [image : {"IAP", "A"}, page : Nat] :
       /\ [x EXCEPT !.page = @ + 1] \in [image : {"IAP", "A"}, page : Nat]
       /\ [x EXCEPT !.page = @ + 1].page = x.page + 1
       /\ [x EXCEPT !.page = @ + 1].image = x.image
BY DEF LowAddr, StartOfA

\* Memory after a reset.
LEMMA ResetTypes ==
  ASSUME TypeOK, ResetRam, FlashOK', cpu' \in {"off", "loader", "app"} \cup Switching
  PROVE  TypeOK'
<1>1. BufferOK'
  BY EmptyBuf, CursorType DEF ResetRam, TypeOK, BufferOK
<1>2. CountsOK'
  BY TotalNat DEF ResetRam, CountsOK
<1>3. StatesOK'
  BY DEF ResetRam, StatesOK, HostPhases
<1>4. QED
  BY <1>1, <1>2, <1>3 DEF TypeOK

LEMMA InitTypes == Init => TypeOK
<1> SUFFICES ASSUME Init PROVE TypeOK
  OBVIOUS
<1>1. imgA \in Image /\ hVer \in Versions
  BY ExtentInAddr DEF Init, Image, Content, Data
<1>2. FlashOK
  BY <1>1 DEF Init, FlashOK, Flags
<1>3. BufferOK
  BY <1>1, EmptyBuf, CursorType DEF Init, BufferOK
<1>4. CountsOK
  BY TotalNat DEF Init, CountsOK
<1>5. StatesOK
  BY DEF Init, StatesOK, HostPhases
<1>6. QED
  BY <1>2, <1>3, <1>4, <1>5 DEF TypeOK

\* What a command carries, and what it makes of block_buf.
LEMMA CollectType ==
  ASSUME TypeOK, NEW n \in 1 .. ChunkMax, hPos + n <= SizeOf[hVer],
         NEW buf, buf = block_buf \o Chunk(n)
  PROVE  /\ buf \in Seq(Content) /\ Len(buf) = Len(block_buf) + n
         /\ Len(block_buf) \in Nat /\ Len(block_buf) < PageUnits
         /\ Len(buf) >= PageUnits =>
              /\ [o \in Offsets |-> buf[o + 1]] \in [Offsets -> Content]
              /\ SubSeq(buf, PageUnits + 1, Len(buf)) \in Seq(Content)
              /\ Len(SubSeq(buf, PageUnits + 1, Len(buf))) = Len(buf) - PageUnits
<1>1. block_buf \in Seq(Content) /\ Len(block_buf) < PageUnits /\ Len(block_buf) \in Nat
  BY DEF TypeOK, BufferOK
<1> DEFINE chunk == Chunk(n)
<1>2. chunk \in Seq(Content) /\ Len(chunk) = n
  <2>1. \A j \in 1 .. n : AddrOf(hPos + j - 1) \in Addr
    <3> SUFFICES ASSUME NEW j \in 1 .. n
                 PROVE  hPos + j - 1 \in 0 .. TotalUnits - 1
      BY AddrOfType
    <3>1. hVer \in Versions /\ hPos \in 0 .. TotalUnits
      BY DEF TypeOK, BufferOK, CountsOK
    <3>2. SizeOf[hVer] \in 1 .. TotalUnits /\ TotalUnits \in Nat
      BY <3>1, SizeFits
    <3>3. QED
      BY <3>1, <3>2, ChunkFits
  <2>2. \A j \in 1 .. n : Data(hVer, AddrOf(hPos + j - 1)) \in Content
    BY <2>1 DEF Content, Data, TypeOK, BufferOK
  <2>3. n \in Nat
    BY ChunkFits
  <2>4. QED
    BY <2>2, <2>3 DEF Chunk
<1>3. buf = block_buf \o chunk
  OBVIOUS
<1> HIDE DEF chunk
<1>4. buf \in Seq(Content) /\ Len(buf) = Len(block_buf) + n
  <2>1. block_buf \o chunk \in Seq(Content)
    BY <1>1, <1>2, ConcatProperties
  <2>2. Len(block_buf \o chunk) = Len(block_buf) + Len(chunk)
    BY <1>1, <1>2, ConcatProperties
  <2>3. QED
    BY <1>2, <1>3, <2>1, <2>2
<1>5. PageUnits \in Nat /\ PageUnits > 0
  BY GeometryAssumption
<1>6. ASSUME Len(buf) >= PageUnits
      PROVE  [o \in Offsets |-> buf[o + 1]] \in [Offsets -> Content]
  <2>1. \A o \in Offsets : o + 1 \in 1 .. Len(buf)
    BY <1>4, <1>5, <1>6 DEF Offsets
  <2>2. QED
    BY <1>4, <2>1
<1>7. ASSUME Len(buf) >= PageUnits
      PROVE  /\ SubSeq(buf, PageUnits + 1, Len(buf)) \in Seq(Content)
             /\ Len(SubSeq(buf, PageUnits + 1, Len(buf))) = Len(buf) - PageUnits
  <2>1. buf \in Seq(Content) /\ Len(buf) \in Nat /\ PageUnits + 1 \in 1 .. Len(buf) + 1
    BY <1>4, <1>5, <1>7
  <2>2. QED
    BY <2>1, <1>5
<1>8. QED
  BY <1>1, <1>4, <1>6, <1>7

LEMMA StageType ==
  ASSUME TypeOK, NEW fault \in BOOLEAN, NEW data \in [Offsets -> Content],
         StagePage(fault, data)
  PROVE  imgA' \in Image
<1>1. imgA \in Image
  BY DEF TypeOK, FlashOK
<1>2. \/ imgA' = imgA
      \/ \E b, p : imgA' \in {TornPage(imgA, b, p), ProgramPage(imgA, b, p, data)}
  BY Zenon DEF StagePage
<1>3. QED
  BY <1>1, <1>2, ProgramType

LEMMA AdvanceType ==
  ASSUME TypeOK, NEW n \in 1 .. ChunkMax, NEW phase, NEW done, Advance(n, phase, done)
  PROVE  host' \in {phase, done} /\ hPos' \in 0 .. TotalUnits
<1>1. /\ SizeOf[hVer] \in 1 .. TotalUnits /\ hPos \in 0 .. TotalUnits
      /\ TotalUnits \in Nat
  BY SizeFits DEF TypeOK, BufferOK, CountsOK
<1>2. QED
  BY <1>1, ChunkFits DEF Advance

LEMMA PromTypes ==
  ASSUME TypeOK, NEW n \in 1 .. ChunkMax, NEW fault \in BOOLEAN, Prom(n, fault)
  PROVE  TypeOK'
<1>1. PICK buf : buf = block_buf \o Chunk(n)
  OBVIOUS
<1>2. hPos + n <= SizeOf[hVer]
  BY DEF Prom
<1>3. /\ buf \in Seq(Content) /\ Len(buf) = Len(block_buf) + n
      /\ Len(block_buf) \in Nat /\ Len(block_buf) < PageUnits
  BY <1>1, <1>2, CollectType
<1>4. /\ imgA' \in Image /\ prom_addr' \in [image : {"IAP", "A"}, page : Nat]
      /\ block_buf' \in Seq(Content) /\ Len(block_buf') < PageUnits
  <2>1. CASE Len(buf) >= PageUnits
    <3>1. /\ StagePage(fault, [o \in Offsets |-> buf[o + 1]])
          /\ block_buf' = SubSeq(buf, PageUnits + 1, Len(buf))
          /\ prom_addr' = [prom_addr EXCEPT !.page = @ + 1]
      BY <1>1, <2>1 DEF Prom
    <3>2. /\ [o \in Offsets |-> buf[o + 1]] \in [Offsets -> Content]
          /\ block_buf' \in Seq(Content) /\ Len(block_buf') = Len(buf) - PageUnits
      BY <1>1, <1>2, <2>1, <3>1, CollectType
    <3>3. imgA' \in Image
      BY <3>1, <3>2, StageType
    <3>4. Len(block_buf') < PageUnits
      BY <1>3, <3>2, ChunkFits, GeometryAssumption
    <3>5. prom_addr' \in [image : {"IAP", "A"}, page : Nat]
      BY <3>1, CursorType DEF TypeOK, BufferOK
    <3>6. QED
      BY <3>2, <3>3, <3>4, <3>5
  <2>2. CASE ~(Len(buf) >= PageUnits)
    <3>1. block_buf' = buf /\ UNCHANGED <<imgA, prom_addr>>
      BY <1>1, <2>2 DEF Prom
    <3>2. Len(buf) < PageUnits
      BY <1>3, <2>2, GeometryAssumption
    <3>3. QED
      BY <1>3, <3>1, <3>2 DEF TypeOK, FlashOK, BufferOK
  <2>3. QED
    BY <2>1, <2>2
<1>5. host' \in {"prom", "verify"} /\ hPos' \in 0 .. TotalUnits
  BY AdvanceType DEF Prom
<1>6. StatesOK'
  BY <1>5 DEF Prom, LoaderOnly, TypeOK, StatesOK, HostPhases
<1>7. FlashOK' /\ BufferOK' /\ CountsOK'
  BY <1>4, <1>5 DEF Prom, LoaderOnly, TypeOK, FlashOK, BufferOK, CountsOK
<1>8. QED
  BY <1>6, <1>7 DEF TypeOK

LEMMA VerifyTypes ==
  ASSUME TypeOK, NEW n \in 1 .. ChunkMax, NEW fault \in BOOLEAN, VerifyCmd(n, fault)
  PROVE  TypeOK'
<1>1. PICK data : data = [o \in Offsets |->
         IF o < Len(block_buf) THEN block_buf[o + 1] ELSE Junk]
  OBVIOUS
<1>2. data \in [Offsets -> Content]
  <2>1. block_buf \in Seq(Content) /\ Len(block_buf) \in Nat
    BY DEF TypeOK, BufferOK
  <2>2. \A o \in Offsets : o \in Nat
    BY GeometryAssumption DEF Offsets
  <2>3. \A o \in Offsets : o < Len(block_buf) => block_buf[o + 1] \in Content
    BY <2>1, <2>2
  <2>4. QED
    BY <1>1, <2>3 DEF Content
<1>3. /\ imgA' \in Image /\ prom_addr' \in [image : {"IAP", "A"}, page : Nat]
      /\ block_buf' \in Seq(Content) /\ Len(block_buf') < PageUnits
  <2>1. CASE block_buf # <<>>
    <3>1. StagePage(fault, data) /\ block_buf' = <<>> /\ prom_addr' = LowAddr
      BY <1>1, <2>1 DEF VerifyCmd
    <3>2. QED
      BY <1>2, <3>1, StageType, EmptyBuf, CursorType
  <2>2. CASE block_buf = <<>>
    BY <2>2 DEF VerifyCmd, TypeOK, FlashOK, BufferOK
  <2>3. QED
    BY <2>1, <2>2
<1>4. host' \in {"verify", "verifyWait"} /\ hPos' \in 0 .. TotalUnits
  BY AdvanceType DEF VerifyCmd
<1>5. VerifyStatus' \in {"ok", "bad"} /\ readBuf' = VerifyStatus'
  BY DEF VerifyCmd, TypeOK, StatesOK
<1>6. StatesOK'
  BY <1>4, <1>5 DEF VerifyCmd, LoaderOnly, TypeOK, StatesOK, HostPhases
<1>7. FlashOK' /\ BufferOK' /\ CountsOK'
  BY <1>3, <1>4 DEF VerifyCmd, LoaderOnly, TypeOK, FlashOK, BufferOK, CountsOK
<1>8. QED
  BY <1>6, <1>7 DEF TypeOK

LEMMA EraseTypes ==
  ASSUME TypeOK, NEW status \in {"ok", "bad"}, EraseEvent(status)
  PROVE  TypeOK'
<1>1. imgA' \in Image /\ EraseBlockCnt' \in Nat
  BY EraseType DEF EraseEvent, TypeOK, FlashOK, CountsOK
<1>2. eraseEvt' \in BOOLEAN /\ readBuf' \in {readBuf, "ok", "bad"}
  BY DEF EraseEvent, StillErasing
<1>3. StatesOK'
  BY <1>2 DEF EraseEvent, LoaderOnly, hostVars, TypeOK, StatesOK
<1>4. FlashOK' /\ BufferOK' /\ CountsOK'
  BY <1>1 DEF EraseEvent, LoaderOnly, hostVars, TypeOK, FlashOK, BufferOK, CountsOK
<1>5. QED
  BY <1>3, <1>4 DEF TypeOK

LEMMA PowerTypes ==
  ASSUME TypeOK, NEW torn \in BOOLEAN, PowerLoss(torn)
  PROVE  TypeOK'
<1>1. imgA' \in Image
  BY EraseType DEF PowerLoss, TypeOK, FlashOK
<1>2. flag' \in {flag, "none"} /\ sft' = FALSE /\ cpu' = "off" /\ ResetRam
  BY DEF PowerLoss
<1>3. FlashOK'
  BY <1>1, <1>2 DEF TypeOK, FlashOK, Flags
<1>4. QED
  BY <1>2, <1>3, ResetTypes

LEMMA EraseCmdTypes ==
  ASSUME TypeOK, NEW v \in Versions, NEW n \in EraseRequests, EraseCmd(v, n)
  PROVE  TypeOK'
<1>1. BufferOK'
  BY EmptyBuf, CursorType DEF EraseCmd, BufferOK
<1>2. CountsOK'
  BY TotalNat, RequestAssumption DEF EraseCmd, CountsOK
<1>3. StatesOK'
  BY DEF EraseCmd, TypeOK, StatesOK, Switching, HostPhases
<1>4. FlashOK'
  BY DEF EraseCmd, flash, TypeOK, FlashOK
<1>5. QED
  BY <1>1, <1>2, <1>3, <1>4 DEF TypeOK

LEMMA StepTypes == TypeOK /\ [Next]_vars => TypeOK'
<1> SUFFICES ASSUME TypeOK, [Next]_vars PROVE TypeOK'
  OBVIOUS
<1>1. CASE Boot \/ JumpOta \/ OtaErase \/ IapErase \/ IapProgram \/ End \/ EndErase
  <2> USE <1>1 DEF Boot, JumpOta, OtaErase, IapErase, IapProgram, End, EndErase,
          flash, ram, hostVars, TypeOK
  <2>1. FlashOK'
    BY DEF FlashOK, Flags
  <2>2. BufferOK' /\ CountsOK'
    BY DEF BufferOK, CountsOK
  <2>3. StatesOK'
    BY DEF StatesOK, Switching, HostPhases
  <2>4. QED
    BY <2>1, <2>2, <2>3
<1>2. CASE OtaProgram \/ HardFault \/ EndProgram
  <2>1. FlashOK' /\ ResetRam /\ cpu' \in {"off", "app"}
    BY <1>2 DEF OtaProgram, HardFault, EndProgram, flash, TypeOK, FlashOK, Flags
  <2>2. QED
    BY <2>1, ResetTypes
<1>3. CASE Connect \/ Disconnect \/ Info \/ ReadInfo \/ ReadErase \/ ReadVerify
  <2> USE <1>3 DEF Connect, Disconnect, Info, ReadInfo, ReadErase, ReadVerify, ReadReply,
          LoaderOnly, ram, TypeOK
  <2>1. FlashOK' /\ CountsOK'
    BY DEF FlashOK, CountsOK
  <2>2. BufferOK'
    BY EmptyBuf DEF BufferOK
  <2>3. StatesOK'
    BY DEF StatesOK, HostPhases
  <2>4. QED
    BY <2>1, <2>2, <2>3
<1>4. CASE EraseStep
  BY <1>4, EraseTypes DEF EraseStep
<1>5. ASSUME NEW v \in Versions, NEW n \in EraseRequests, EraseCmd(v, n)
      PROVE  TypeOK'
  BY <1>5, EraseCmdTypes
<1>6. ASSUME NEW n \in 1 .. ChunkMax, NEW fault \in Faults,
             Prom(n, fault) \/ VerifyCmd(n, fault)
      PROVE  TypeOK'
  BY <1>6, PromTypes, VerifyTypes DEF Faults
<1>7. CASE UNCHANGED vars
  BY <1>7 DEF vars, flash, ram, hostVars, TypeOK, FlashOK, StatesOK, BufferOK, CountsOK
<1>8. CASE \E torn \in BOOLEAN : PowerLoss(torn)
  BY <1>8, PowerTypes
<1>9. QED
  BY <1>1, <1>2, <1>3, <1>4, <1>5, <1>6, <1>7, <1>8
     DEF Next, AppStep, SwitchStep, HostStep

-----------------------------------------------------------------------------
(* One step, one part of the invariant at a time *)

LEMMA LinkStep ==
  ASSUME TypeOK, LinkInv, Next, ~EraseOutlivesLink
  PROVE  LinkInv'
<1> USE DEF LinkInv, LoaderOnly, ram, hostVars, flash
<1>1. LinkInv /\ TypeOK
  OBVIOUS
<1>2. CASE Boot \/ AppStep \/ SwitchStep \/ End
  BY <1>1, <1>2 DEF Boot, AppStep, JumpOta, HardFault, SwitchStep, OtaErase, OtaProgram,
       IapErase, IapProgram, EndErase, EndProgram, End, ResetRam
<1>3. ASSUME NEW status \in {"ok", "bad"}, EraseEvent(status)
      PROVE  LinkInv'
  BY <1>1, <1>3 DEF EraseEvent, StillErasing, TypeOK, StatesOK
<1>4. CASE Connect \/ Disconnect \/ Info
  BY <1>1, <1>4 DEF Connect, Disconnect, Info
<1>5. CASE ReadInfo \/ ReadErase \/ ReadVerify
  BY <1>1, <1>5 DEF ReadInfo, ReadErase, ReadVerify, ReadReply
<1>6. ASSUME NEW v \in Versions, NEW n \in EraseRequests, EraseCmd(v, n)
      PROVE  LinkInv'
  BY <1>1, <1>6 DEF EraseCmd
<1>7. ASSUME NEW n \in 1 .. ChunkMax, NEW fault \in Faults,
             Prom(n, fault) \/ VerifyCmd(n, fault)
      PROVE  LinkInv'
  BY <1>1, <1>7 DEF Prom, VerifyCmd, Advance
<1>8. CASE \E torn \in BOOLEAN : PowerLoss(torn)
  BY <1>1, <1>8 DEF PowerLoss, ResetRam
<1>9. QED
  BY <1>2, <1>3, <1>4, <1>5, <1>6, <1>7, <1>8 DEF Next, EraseStep, HostStep

LEMMA GivenUpStep ==
  ASSUME IInv, Next
  PROVE  GivenUpInv'
<1> USE DEF GivenUpInv, LoaderOnly, ram, hostVars, flash
<1>1. GivenUpInv /\ TypeOK /\ LinkInv
  BY DEF IInv
<1>2. CASE Boot \/ AppStep \/ SwitchStep \/ End
  BY <1>1, <1>2 DEF LinkInv, Boot, AppStep, JumpOta, HardFault, SwitchStep, OtaErase,
       OtaProgram, IapErase, IapProgram, EndErase, EndProgram, End, ResetRam
<1>3. ASSUME NEW status \in {"ok", "bad"}, EraseEvent(status)
      PROVE  GivenUpInv'
  BY <1>1, <1>3 DEF EraseEvent
<1>4. CASE Connect \/ Disconnect \/ Info
  BY <1>1, <1>4 DEF Connect, Disconnect, Info
<1>5. CASE ReadInfo \/ ReadErase \/ ReadVerify
  BY <1>1, <1>5 DEF ReadInfo, ReadErase, ReadVerify, ReadReply
<1>6. ASSUME NEW v \in Versions, NEW n \in EraseRequests, EraseCmd(v, n)
      PROVE  GivenUpInv'
  BY <1>1, <1>6 DEF EraseCmd, LinkInv
<1>7. ASSUME NEW n \in 1 .. ChunkMax, NEW fault \in Faults,
             Prom(n, fault) \/ VerifyCmd(n, fault)
      PROVE  GivenUpInv'
  BY <1>1, <1>7 DEF Prom, VerifyCmd, Advance
<1>8. CASE \E torn \in BOOLEAN : PowerLoss(torn)
  BY <1>1, <1>8 DEF PowerLoss, ResetRam
<1>9. QED
  BY <1>2, <1>3, <1>4, <1>5, <1>6, <1>7, <1>8 DEF Next, EraseStep, HostStep

\* What the host has seen verified is still in A when it matters.
LEMMA VerifyCmdStep ==
  ASSUME IInv, NEW n \in 1 .. ChunkMax, NEW fault \in Faults, VerifyCmd(n, fault)
  PROVE  VerifyInv'
<1>1. /\ host = "verify" /\ cpu = "loader" /\ cpu' = cpu /\ block_buf' = <<>>
      /\ hVer' = hVer /\ hPos + n <= SizeOf[hVer] /\ readBuf' = VerifyStatus'
      /\ Advance(n, "verify", "verifyWait")
      /\ hPos > 0 => imgA' = imgA
  BY DEF VerifyCmd, LoaderOnly, IInv, VerifyInv
<1>2. hPos \in Nat /\ n \in Nat /\ n > 0 /\ SizeOf[hVer] \in Nat
  BY ChunkFits, SizeFits DEF IInv, TypeOK, BufferOK, CountsOK
<1>3. VerifyStatus' = "ok" =>
        \A k \in 0 .. hPos + n - 1 : imgA'[AddrOf(k)] = Data(hVer, AddrOf(k))
  <2> SUFFICES ASSUME VerifyStatus' = "ok", NEW k \in 0 .. hPos + n - 1
               PROVE  imgA'[AddrOf(k)] = Data(hVer, AddrOf(k))
    OBVIOUS
  <2>1. VerifyStatus = "ok" /\ \A i \in hPos .. hPos + n - 1 :
           imgA'[AddrOf(i)] = Data(hVer, AddrOf(i))
    BY DEF VerifyCmd
  <2>2. CASE k >= hPos
    BY <1>2, <2>1, <2>2
  <2>3. CASE k < hPos
    <3>1. imgA' = imgA /\ k \in 0 .. hPos - 1
      BY <1>1, <1>2, <2>3
    <3>2. QED
      BY <1>1, <2>1, <3>1 DEF IInv, VerifyInv
  <2>4. QED
    BY <1>2, <2>2, <2>3
<1>4. CASE hPos + n < SizeOf[hVer]
  <2>1. hPos' = hPos + n /\ host' = "verify"
    BY <1>1, <1>4 DEF Advance
  <2>2. VerifyStatus' = "ok" =>
          \A k \in 0 .. hPos' - 1 : imgA'[AddrOf(k)] = Data(hVer', AddrOf(k))
    BY <1>1, <1>2, <1>3, <2>1
  <2>3. host' # "verifyWait" /\ host' # "verified" /\ cpu' \notin {"endErase", "endProgram"}
    BY <1>1, <2>1
  <2>4. QED
    BY <1>1, <2>1, <2>2, <2>3, Zenon DEF VerifyInv
<1>5. CASE ~(hPos + n < SizeOf[hVer])
  <2>1. hPos + n = SizeOf[hVer] /\ host' = "verifyWait"
    BY <1>1, <1>2, <1>5 DEF Advance
  <2>2. VerifyStatus' = "ok" => Holds(imgA', hVer')
    <3>1. VerifyStatus' = "ok" =>
            \A k \in 0 .. SizeOf[hVer'] - 1 : imgA'[AddrOf(k)] = Data(hVer', AddrOf(k))
      BY <1>1, <1>2, <1>3, <2>1
    <3>2. QED
      BY <3>1, Zenon DEF Holds, Extent
  <2>3. host' # "verify" /\ host' # "verified" /\ cpu' \notin {"endErase", "endProgram"}
    BY <1>1, <2>1
  <2>4. QED
    BY <1>1, <2>2, <2>3, Zenon DEF VerifyInv
<1>6. QED
  BY <1>4, <1>5

LEMMA VerifyStep ==
  ASSUME IInv, Next
  PROVE  VerifyInv'
<1> USE DEF VerifyInv, LoaderOnly, ram, hostVars, flash
<1>1. VerifyInv /\ TypeOK /\ LinkInv
  BY DEF IInv
<1>2. CASE Boot \/ AppStep \/ SwitchStep \/ End
  BY <1>1, <1>2 DEF LinkInv, Boot, AppStep, JumpOta, HardFault, SwitchStep, OtaErase,
       OtaProgram, IapErase, IapProgram, EndErase, EndProgram, End, ResetRam, Holds
<1>3. ASSUME NEW status \in {"ok", "bad"}, EraseEvent(status)
      PROVE  VerifyInv'
  BY <1>1, <1>3 DEF EraseEvent, LinkInv
<1>4. CASE Connect \/ Disconnect \/ Info
  BY <1>1, <1>4 DEF Connect, Disconnect, Info
<1>5. CASE ReadInfo \/ ReadErase \/ ReadVerify
  BY <1>1, <1>5 DEF ReadInfo, ReadErase, ReadVerify, ReadReply, Holds
<1>6. ASSUME NEW v \in Versions, NEW n \in EraseRequests, EraseCmd(v, n)
      PROVE  VerifyInv'
  BY <1>1, <1>6 DEF EraseCmd
<1>7. ASSUME NEW n \in 1 .. ChunkMax, NEW fault \in Faults, Prom(n, fault)
      PROVE  VerifyInv'
  BY <1>1, <1>7 DEF Prom, Advance
<1>8. ASSUME NEW n \in 1 .. ChunkMax, NEW fault \in Faults, VerifyCmd(n, fault)
      PROVE  VerifyInv'
  BY <1>8, VerifyCmdStep
<1>9. CASE \E torn \in BOOLEAN : PowerLoss(torn)
  BY <1>1, <1>9 DEF PowerLoss, ResetRam
<1>10. QED
  BY <1>2, <1>3, <1>4, <1>5, <1>6, <1>7, <1>8, <1>9 DEF Next, EraseStep, HostStep

\* What starts, and what the flag page says.
LEMMA BootStep ==
  ASSUME IInv, Next, ~SwitchTears
  PROVE  BootInv'
<1> USE DEF BootInv, BootsCompleteImage, GivenUpIsRecorded
<1>1. BootInv /\ TypeOK /\ LinkInv /\ GivenUpInv /\ VerifyInv
  BY DEF IInv
<1>2. imgA' = imgA => (Whole' <=> Whole)
  BY DEF Whole, Holds
<1>3. cpu \in {"endErase", "endProgram"} => Whole
  BY <1>1 DEF VerifyInv, Whole, TypeOK, BufferOK
<1>4. CASE Boot \/ AppStep \/ SwitchStep
  <2>1. imgA' = imgA
    BY <1>4 DEF Boot, AppStep, JumpOta, HardFault, SwitchStep, OtaErase, OtaProgram,
         IapErase, IapProgram, EndErase, EndProgram, flash
  <2>2. QED
    BY <1>1, <1>2, <1>3, <1>4, <2>1
       DEF Boot, AppStep, JumpOta, HardFault, SwitchStep, OtaErase, OtaProgram,
           IapErase, IapProgram, EndErase, EndProgram, flash
<1>5. CASE EraseStep \/ \E n \in 1 .. ChunkMax, fault \in Faults :
                          Prom(n, fault) \/ VerifyCmd(n, fault)
  <2>1. flag' = "IAP" /\ cpu' = "loader"
    BY <1>1, <1>5 DEF EraseStep, EraseEvent, Prom, VerifyCmd, GivenUpInv, LoaderOnly
  <2>2. QED
    BY <2>1
<1>6. CASE \/ Connect \/ Disconnect \/ Info \/ ReadInfo \/ ReadErase \/ ReadVerify \/ End
           \/ \E v \in Versions, n \in EraseRequests : EraseCmd(v, n)
  <2>1. UNCHANGED <<imgA, flag>> /\ cpu = "loader" /\ cpu' \in {"loader", "iapErase", "endErase"}
    BY <1>6 DEF Connect, Disconnect, Info, ReadInfo, ReadErase, ReadVerify, ReadReply,
         EraseCmd, End, LoaderOnly, flash
  <2>2. QED
    BY <1>1, <1>2, <2>1
<1>7. ASSUME NEW torn \in BOOLEAN, PowerLoss(torn)
      PROVE  BootInv'
  <2>1. CASE torn /\ cpu = "loader" /\ eraseEvt
    <3>1. flag' = "IAP" /\ cpu' = "off"
      BY <1>1, <1>7, <2>1 DEF PowerLoss, GivenUpInv
    <3>2. QED
      BY <3>1
  <2>2. CASE ~(torn /\ cpu = "loader" /\ eraseEvt)
    <3>1. imgA' = imgA /\ cpu' = "off"
      BY <1>7, <2>2 DEF PowerLoss
    <3>2. Whole \/ flag' = "IAP"
      BY <1>1, <1>3, <1>7 DEF PowerLoss
    <3>3. QED
      BY <1>2, <3>1, <3>2
  <2>3. QED
    BY <2>1, <2>2
<1>8. QED
  BY <1>4, <1>5, <1>6, <1>7 DEF Next, HostStep

LEMMA RunStep ==
  ASSUME IInv, Next
  PROVE  RunInv'
<1>1. RunInv
  BY DEF IInv
<1>2. QED
  BY <1>1 DEF RunInv, Running, Next, Boot, AppStep, JumpOta, HardFault, SwitchStep,
       OtaErase, OtaProgram, IapErase, IapProgram, EndErase, EndProgram, EraseStep,
       EraseEvent, HostStep, Connect, Disconnect, Info, ReadInfo, ReadErase, ReadVerify,
       ReadReply, EraseCmd, Prom, VerifyCmd, End, PowerLoss, LoaderOnly, flash

-----------------------------------------------------------------------------
(* The cursor of PROM *)

\* The page a programming operation hits is the one of its number.
LEMMA PageOf ==
  ASSUME NEW n \in Nat
  PROVE  \E b, p \in Nat : /\ b = n \div BlockPages /\ p = n % BlockPages
                           /\ b * BlockPages + p = n
<1>1. BlockPages \in Nat /\ BlockPages > 0
  BY GeometryAssumption
<1>2. n \div BlockPages \in Nat /\ n % BlockPages \in Nat
  BY <1>1, SMTT(30)
<1>3. PICK b \in Nat, p \in Nat : b = n \div BlockPages /\ p = n % BlockPages
  BY <1>2
<1>4. n = BlockPages * b + p
  BY <1>1, <1>3, SMTT(30)
<1>5. b * BlockPages = BlockPages * b
  BY <1>1, <1>3
<1>6. b * BlockPages + p = n
  BY <1>4, <1>5
<1>7. QED
  BY <1>3, <1>6

\* It leaves the pages behind it alone.
LEMMA StageSpares ==
  ASSUME TypeOK, NEW fault, NEW data, StagePage(fault, data),
         NEW a \in Addr, a[1] * BlockPages + a[2] >= prom_addr.page + 1
  PROVE  imgA'[a] = imgA[a]
<1>1. prom_addr.page \in Nat
  BY DEF TypeOK, BufferOK
<1>2. PICK b \in Nat, p \in Nat :
        /\ b = prom_addr.page \div BlockPages /\ p = prom_addr.page % BlockPages
        /\ b * BlockPages + p = prom_addr.page
  BY <1>1, PageOf
<1>3. \/ imgA' = imgA \/ imgA' = TornPage(imgA, b, p)
      \/ imgA' = ProgramPage(imgA, b, p, data)
  <2>1. b = prom_addr.page \div BlockPages /\ p = prom_addr.page % BlockPages
    BY <1>2
  <2>2. QED
    BY <2>1 DEF StagePage
<1>4. ~(a[1] = b /\ a[2] = p)
  BY <1>1, <1>2
<1>5. QED
  BY <1>3, <1>4 DEF TornPage, ProgramPage

\* A page that begins before the end of the image is among those erased.
LEMMA PageErased ==
  ASSUME TypeOK, Covered, ErasedFrom(prom_addr.page),
         prom_addr.page * PageUnits < SizeOf[hVer],
         NEW a \in Addr, a[1] * BlockPages + a[2] = prom_addr.page
  PROVE  imgA[a] = Erased
<1>1. /\ prom_addr.page \in Nat /\ EraseBlockNum \in Nat
      /\ BlockPages \in Nat /\ BlockPages > 0 /\ PageUnits \in Nat /\ PageUnits > 0
      /\ SizeOf[hVer] \in Nat /\ a[1] \in Nat /\ a[2] \in Nat
  <2>1. prom_addr.page \in Nat
    BY DEF TypeOK, BufferOK
  <2>2. EraseBlockNum \in Nat /\ hVer \in Versions
    BY DEF TypeOK, BufferOK, CountsOK
  <2>3. BlockPages \in Nat /\ BlockPages > 0 /\ PageUnits \in Nat /\ PageUnits > 0
    BY GeometryAssumption
  <2>4. SizeOf[hVer] \in Nat
    BY <2>2, SizeFits
  <2>5. a[1] \in Nat /\ a[2] \in Nat
    BY AddrParts DEF Blocks, Pages
  <2>6. QED
    BY <2>1, <2>2, <2>3, <2>4, <2>5
<1> DEFINE pages == EraseBlockNum * BlockPages
<1>2. pages \in Nat /\ SizeOf[hVer] <= pages * PageUnits /\ prom_addr.page * PageUnits \in Nat
  BY <1>1 DEF Covered
<1>3. prom_addr.page < pages
  <2> HIDE DEF pages
  <2>1. prom_addr.page * PageUnits < pages * PageUnits
    BY <1>1, <1>2
  <2>2. QED
    BY <1>1, <1>2, <2>1, SMTT(30)
<1>4. a[1] < EraseBlockNum
  <2>1. a[1] * BlockPages < EraseBlockNum * BlockPages
    BY <1>1, <1>3
  <2>2. QED
    BY <1>1, <2>1, SMTT(30)
<1>5. a[1] * BlockPages + a[2] >= prom_addr.page
  BY <1>1
<1>6. QED
  BY <1>4, <1>5 DEF ErasedFrom

\* So the next page to be programmed is erased, and a page of A.
LEMMA CursorIsSound == TypeOK /\ CursorInv => NextPageErased
<1> SUFFICES ASSUME TypeOK, CursorInv,
                    host = "prom" \/ (host = "verify" /\ block_buf # <<>>)
             PROVE  /\ prom_addr.image = "A"
                    /\ \A a \in Addr : a[1] * BlockPages + a[2] = prom_addr.page
                                         => imgA[a] = Erased
  BY DEF NextPageErased
<1>1. prom_addr.image = "A" /\ Covered /\ ErasedFrom(prom_addr.page)
  BY DEF CursorInv
<1>2. /\ prom_addr.page * PageUnits \in Nat /\ hPos \in Nat /\ SizeOf[hVer] \in Nat
      /\ Len(block_buf) \in Nat /\ (block_buf # <<>> => Len(block_buf) > 0)
  BY SizeFits, GeometryAssumption DEF TypeOK, BufferOK, CountsOK
<1>3. prom_addr.page * PageUnits < SizeOf[hVer]
  <2>1. CASE host = "prom"
    <3>1. prom_addr.page * PageUnits + Len(block_buf) = hPos /\ hPos < SizeOf[hVer]
      BY <2>1 DEF CursorInv, Stored
    <3>2. QED
      BY <1>2, <3>1
  <2>2. CASE host = "verify" /\ block_buf # <<>>
    <3>1. prom_addr.page * PageUnits + Len(block_buf) = SizeOf[hVer]
      BY <2>2 DEF CursorInv, Stored
    <3>2. QED
      BY <1>2, <2>2, <3>1
  <2>3. QED
    BY <2>1, <2>2
<1>4. QED
  BY <1>1, <1>3, PageErased

LEMMA PromCursor ==
  ASSUME IInv, NEW n \in 1 .. ChunkMax, NEW fault \in Faults, Prom(n, fault)
  PROVE  CursorInv'
<1> DEFINE buf == block_buf \o Chunk(n)
           got == Len(block_buf)
<1>1. /\ host = "prom" /\ hPos + n <= SizeOf[hVer] /\ TypeOK
      /\ UNCHANGED <<hVer, EraseBlockNum>> /\ Advance(n, "prom", "verify")
  BY DEF Prom, IInv
<1>2. /\ prom_addr.image = "A" /\ Covered /\ ErasedFrom(prom_addr.page)
      /\ prom_addr.page * PageUnits + got = hPos
  BY <1>1 DEF IInv, CursorInv, Stored
<1>3. /\ Len(buf) = got + n /\ got \in Nat /\ got < PageUnits
      /\ Len(buf) >= PageUnits =>
           Len(SubSeq(buf, PageUnits + 1, Len(buf))) = Len(buf) - PageUnits
  BY <1>1, CollectType
<1>4. /\ prom_addr.page \in Nat /\ hPos \in Nat /\ n \in Nat /\ SizeOf[hVer] \in Nat
      /\ PageUnits \in Nat /\ PageUnits > 0 /\ prom_addr.page * PageUnits \in Nat
  BY <1>1, ChunkFits, SizeFits, GeometryAssumption DEF TypeOK, BufferOK, CountsOK
<1>5. /\ prom_addr'.image = "A"
      /\ prom_addr'.page * PageUnits + Len(block_buf') = hPos + n
      /\ \A a \in Addr : a[1] < EraseBlockNum /\ a[1] * BlockPages + a[2] >= prom_addr'.page
                           => imgA'[a] = Erased
  <2>1. CASE Len(buf) >= PageUnits
    <3>1. /\ StagePage(fault, [o \in Offsets |-> buf[o + 1]])
          /\ block_buf' = SubSeq(buf, PageUnits + 1, Len(buf))
          /\ prom_addr' = [prom_addr EXCEPT !.page = @ + 1]
      BY <2>1 DEF Prom
    <3>2. prom_addr'.page = prom_addr.page + 1 /\ prom_addr'.image = "A"
      BY <1>1, <1>2, <3>1, CursorType DEF TypeOK, BufferOK
    <3>3. Len(block_buf') = got + n - PageUnits
      <4> DEFINE rest == SubSeq(buf, PageUnits + 1, Len(buf))
      <4>1. block_buf' = rest /\ Len(rest) = Len(buf) - PageUnits
        BY <1>3, <2>1, <3>1
      <4> HIDE DEF rest, buf, got
      <4>2. QED
        BY <1>3, <1>4, <4>1
    <3>4. (prom_addr.page + 1) * PageUnits = prom_addr.page * PageUnits + PageUnits
      BY <1>4
    <3>5. prom_addr'.page * PageUnits + Len(block_buf') = hPos + n
      <4>1. prom_addr'.page * PageUnits = prom_addr.page * PageUnits + PageUnits
        BY <3>2, <3>4
      <4> DEFINE before == prom_addr.page * PageUnits
                 after  == prom_addr'.page * PageUnits
                 left   == Len(block_buf')
      <4>2. /\ before \in Nat /\ after = before + PageUnits
            /\ left = got + n - PageUnits /\ before + got = hPos
        BY <1>2, <1>4, <3>3, <4>1
      <4> HIDE DEF buf, got, before, after, left
      <4>3. after + left = hPos + n
        BY <1>3, <1>4, <4>2
      <4>4. QED
        BY <4>3 DEF after, left
    <3>6. ASSUME NEW a \in Addr, a[1] < EraseBlockNum,
                 a[1] * BlockPages + a[2] >= prom_addr.page + 1
          PROVE  imgA'[a] = Erased
      <4>1. imgA'[a] = imgA[a]
        BY <1>1, <3>1, <3>6, StageSpares
      <4>2. a[1] * BlockPages + a[2] \in Nat
        BY AddrParts, GeometryAssumption DEF Blocks, Pages
      <4>3. a[1] * BlockPages + a[2] >= prom_addr.page
        BY <1>4, <3>6, <4>2
      <4>4. QED
        BY <1>2, <3>6, <4>1, <4>3 DEF ErasedFrom
    <3>7. QED
      BY <3>2, <3>5, <3>6
  <2>2. CASE ~(Len(buf) >= PageUnits)
    <3>1. block_buf' = buf /\ UNCHANGED <<imgA, prom_addr>>
      BY <2>2 DEF Prom
    <3>2. prom_addr'.page * PageUnits + Len(block_buf') = hPos + n
      <4> DEFINE before == prom_addr.page * PageUnits
                 left   == Len(block_buf')
      <4>1. before \in Nat /\ left = Len(buf) /\ before + got = hPos
        BY <1>2, <1>4, <3>1
      <4> HIDE DEF buf, got, before, left
      <4>2. before + left = hPos + n
        BY <1>3, <1>4, <4>1
      <4>3. QED
        BY <3>1, <4>2 DEF before, left
    <3>3. QED
      BY <1>2, <3>1, <3>2 DEF ErasedFrom
  <2>3. QED
    BY <2>1, <2>2
<1>6. Covered' /\ ErasedFrom(prom_addr.page)'
  BY <1>1, <1>2, <1>5 DEF Covered, ErasedFrom
<1>7. CASE hPos + n < SizeOf[hVer]
  <2>1. host' = "prom" /\ hPos' = hPos + n
    BY <1>1, <1>7 DEF Advance
  <2>2. Stored' = hPos' /\ hPos' < SizeOf[hVer]'
    BY <1>1, <1>5, <1>7, <2>1 DEF Stored
  <2>3. QED
    BY <1>5, <1>6, <2>1, <2>2 DEF CursorInv
<1>8. CASE ~(hPos + n < SizeOf[hVer])
  <2>1. host' = "verify" /\ hPos + n = SizeOf[hVer]
    BY <1>1, <1>4, <1>8 DEF Advance
  <2>2. Stored' = SizeOf[hVer]'
    BY <1>1, <1>5, <2>1 DEF Stored
  <2>3. QED
    BY <1>5, <1>6, <2>1, <2>2 DEF CursorInv
<1>9. QED
  BY <1>7, <1>8

LEMMA EraseCursorStep ==
  ASSUME IInv, NEW status \in {"ok", "bad"}, EraseEvent(status)
  PROVE  CursorInv'
<1>1. host \in {"off", "eraseWait"} /\ host' = host
  BY DEF EraseEvent, hostVars, IInv, LinkInv
<1>2. CASE host = "off" \/ readBuf' = "bad"
  BY <1>1, <1>2 DEF CursorInv
<1>3. CASE host = "eraseWait" /\ readBuf' # "bad"
  <2>1. readBuf = "none" /\ status = "ok"
    BY <1>3 DEF EraseEvent, StillErasing, IInv, LinkInv
  <2>2. /\ prom_addr = StartOfA /\ block_buf = <<>> /\ hPos = 0 /\ Covered
        /\ \A a \in Addr : a[1] < EraseBlockCnt => imgA[a] = Erased
    BY <1>3, <2>1 DEF IInv, CursorInv
  <2>3. /\ UNCHANGED <<prom_addr, block_buf, hPos, hVer, EraseBlockNum>>
        /\ EraseBlockCnt' = EraseBlockCnt + 1
        /\ imgA' = [a \in Addr |-> IF a[1] = EraseBlockCnt THEN Erased ELSE imgA[a]]
    BY <2>1 DEF EraseEvent, hostVars, EraseBlock
  <2>4. EraseBlockCnt \in Nat /\ EraseBlockNum \in Nat /\ \A a \in Addr : a[1] \in Nat
    BY AddrParts DEF IInv, TypeOK, CountsOK, Blocks
  <2>5. \A a \in Addr : a[1] < EraseBlockCnt' => imgA'[a] = Erased
    BY <2>2, <2>3, <2>4
  <2>6. readBuf' = "ok" => EraseBlockCnt' >= EraseBlockNum'
    <3> SUFFICES ASSUME readBuf' = "ok" PROVE EraseBlockCnt + 1 >= EraseBlockNum
      BY <2>3
    <3>1. ~StillErasing(status)
      BY <2>1 DEF EraseEvent
    <3>2. QED
      BY <2>1, <2>4, <3>1 DEF StillErasing
  <2>7. QED
    BY <1>1, <1>3, <2>2, <2>3, <2>5, <2>6 DEF CursorInv, Covered
<1>4. QED
  BY <1>1, <1>2, <1>3

LEMMA CursorStep ==
  ASSUME IInv, Next
  PROVE  CursorInv'
<1>1. CursorInv /\ TypeOK /\ LinkInv
  BY DEF IInv
<1>2. CASE Boot \/ AppStep \/ SwitchStep \/ End \/ \E torn \in BOOLEAN : PowerLoss(torn)
  <2>1. \/ host' = "off"
        \/ UNCHANGED <<host, imgA, prom_addr, block_buf, EraseBlockNum, EraseBlockCnt,
                       readBuf, hVer, hPos>>
    BY <1>1, <1>2 DEF LinkInv, Boot, AppStep, JumpOta, HardFault, SwitchStep, OtaErase,
       OtaProgram, IapErase, IapProgram, EndErase, EndProgram, End, PowerLoss, ResetRam,
       flash, ram, hostVars
  <2>2. QED
    BY <1>1, <2>1 DEF CursorInv, Covered, ErasedFrom, Stored
<1>3. CASE Connect \/ Disconnect \/ Info \/ ReadInfo \/ ReadVerify
  <2>1. host' \in {"off", "linked", "infoWait", "ready", "verified"}
    BY <1>3 DEF Connect, Disconnect, Info, ReadInfo, ReadVerify, ReadReply
  <2>2. QED
    BY <2>1 DEF CursorInv
<1>4. CASE ReadErase
  <2>1. CASE readBuf # "ok"
    BY <1>4, <2>1 DEF ReadErase, ReadReply, CursorInv
  <2>2. CASE readBuf = "ok"
    <3>1. /\ host = "eraseWait" /\ host' = "prom"
          /\ UNCHANGED <<imgA, prom_addr, block_buf, EraseBlockNum, hVer, hPos>>
      BY <1>4, <2>2 DEF ReadErase, ReadReply
    <3>2. /\ prom_addr = StartOfA /\ block_buf = <<>> /\ hPos = 0 /\ Covered
          /\ \A a \in Addr : a[1] < EraseBlockCnt => imgA[a] = Erased
          /\ EraseBlockCnt >= EraseBlockNum
      BY <1>1, <2>2, <3>1 DEF CursorInv
    <3>3. /\ EraseBlockCnt \in Nat /\ EraseBlockNum \in Nat
          /\ \A a \in Addr : a[1] \in Nat
          /\ 0 < SizeOf[hVer] /\ 0 * PageUnits + Len(<<>>) = 0
      BY <1>1, AddrParts, SizeFits, EmptyBuf, GeometryAssumption
         DEF TypeOK, BufferOK, CountsOK, Blocks
    <3>4. ErasedFrom(prom_addr.page)
      BY <3>2, <3>3 DEF ErasedFrom
    <3>5. prom_addr.image = "A" /\ Stored = 0
      BY <3>2, <3>3 DEF StartOfA, Stored
    <3>6. Stored' = hPos' /\ hPos' < SizeOf[hVer]' /\ ErasedFrom(prom_addr.page)' /\ Covered'
      BY <3>1, <3>2, <3>3, <3>4, <3>5 DEF Stored, ErasedFrom, Covered
    <3>7. QED
      BY <3>1, <3>5, <3>6 DEF CursorInv
  <2>3. QED
    BY <2>1, <2>2
<1>5. ASSUME NEW v \in Versions, NEW n \in EraseRequests, EraseCmd(v, n)
      PROVE  CursorInv'
  <2>1. /\ host' = "eraseWait" /\ prom_addr' = StartOfA /\ block_buf' = <<>> /\ hPos' = 0
        /\ EraseBlockNum' = n /\ EraseBlockCnt' = 0 /\ hVer' = v
        /\ n * BlockPages * PageUnits >= SizeOf[v]
        /\ readBuf' = "none" \/ readBuf' = "bad"
    BY <1>1, <1>5 DEF EraseCmd, LinkInv
  <2>2. Covered'
    <3>1. n * BlockPages * PageUnits \in Nat /\ SizeOf[v] \in Nat
      BY RequestAssumption, GeometryAssumption, SizeFits
    <3>2. QED
      BY <2>1, <3>1 DEF Covered
  <2>3. \A a \in Addr : ~(a[1] < 0)
    BY AddrParts DEF Blocks
  <2>4. QED
    BY <2>1, <2>2, <2>3 DEF CursorInv
<1>6. ASSUME NEW n \in 1 .. ChunkMax, NEW fault \in Faults, VerifyCmd(n, fault)
      PROVE  CursorInv'
  <2>1. host' \in {"verify", "verifyWait"} /\ block_buf' = <<>>
    BY <1>6 DEF VerifyCmd, Advance
  <2>2. QED
    BY <2>1 DEF CursorInv
<1>7. QED
  BY <1>2, <1>3, <1>4, <1>5, <1>6, PromCursor, EraseCursorStep
     DEF Next, EraseStep, HostStep

-----------------------------------------------------------------------------
(* Theorems *)

LEMMA InitInv == Init => IInv
<1> SUFFICES ASSUME Init PROVE IInv
  OBVIOUS
<1>1. LinkInv /\ GivenUpInv /\ CursorInv /\ VerifyInv /\ RunInv
  BY DEF Init, LinkInv, GivenUpInv, CursorInv, VerifyInv, RunInv, Running
<1>2. Whole
  <2>1. PICK v \in Versions :
          imgA = [a \in Addr |-> IF a \in Extent(v) THEN Data(v, a) ELSE Erased]
    BY DEF Init
  <2>2. Holds(imgA, v)
    BY <2>1, ExtentInAddr DEF Holds
  <2>3. QED
    BY <2>2 DEF Whole
<1>3. QED
  BY <1>1, <1>2, InitTypes DEF IInv, BootInv, BootsCompleteImage, GivenUpIsRecorded

LEMMA Invariance == Environment => (Spec => []IInv)
<1> SUFFICES ASSUME Environment PROVE Spec => []IInv
  OBVIOUS
<1>1. IInv /\ [Next]_vars => IInv'
  <2>1. ASSUME IInv, Next PROVE IInv'
    BY <2>1, StepTypes, LinkStep, GivenUpStep, CursorStep, VerifyStep, BootStep,
       RunStep DEF IInv, Environment
  <2>2. ASSUME IInv, UNCHANGED vars PROVE IInv'
    <3>1. TypeOK'
      BY <2>2, StepTypes DEF IInv
    <3>2. UNCHANGED <<imgA, flag, cpu, block_buf, prom_addr, eraseEvt, EraseBlockNum,
                      EraseBlockCnt, VerifyStatus, readBuf, host, hVer, hPos>>
      BY <2>2 DEF vars, flash, ram, hostVars
    <3>3. LinkInv' /\ GivenUpInv' /\ VerifyInv' /\ RunInv'
      BY <2>2, <3>2 DEF IInv, LinkInv, GivenUpInv, VerifyInv, Holds, RunInv, Running
    <3>4. CursorInv'
      BY <2>2, <3>2 DEF IInv, CursorInv, Covered, ErasedFrom, Stored
    <3>5. BootInv'
      BY <2>2, <3>2 DEF IInv, BootInv, BootsCompleteImage, GivenUpIsRecorded, Whole, Holds
    <3>6. QED
      BY <3>1, <3>3, <3>4, <3>5 DEF IInv
  <2>3. QED
    BY <2>1, <2>2
<1>2. QED
  BY <1>1, InitInv, PTL DEF Spec

\* Whatever power, pages, links and hosts do: the application is started only from a
\* whole image, a device without one says so in its flag page, and PROM meets
\* erased pages of image A only.
THEOREM InPlaceIsSafe == Environment => (Spec => []Safe)
<1> SUFFICES ASSUME Environment PROVE Spec => []Safe
  OBVIOUS
<1>1. IInv => Safe
  BY CursorIsSound DEF IInv, BootInv, Safe
<1>2. QED
  BY <1>1, Invariance, PTL

-----------------------------------------------------------------------------
(* Refinement *)

\* The two abstract variables, by name.
Installed == IF flag = "IAP" THEN NoImage ELSE Contents
Executing == IF Running THEN Contents ELSE NotRunning

LEMMA ContentsType ==
  /\ Contents \in Versions \cup {NoImage}
  /\ Whole => Contents \in Versions
<1>1. ASSUME NEW v \in Versions, Holds(imgA, v)
      PROVE  VersionIn(imgA) \in Versions
  BY <1>1, VersionInHeld
<1>2. QED
  BY <1>1 DEF Contents, Whole

\* What is installed while the application runs, and while it is being started.
LEMMA WhatRuns ==
  ASSUME IInv, Running \/ cpu = "endProgram"
  PROVE  Whole /\ Installed = Contents
<1>1. flag # "IAP"
  BY DEF IInv, RunInv
<1>2. Whole
  BY DEF IInv, BootInv, BootsCompleteImage, Running, VerifyInv, Whole, TypeOK, BufferOK
<1>3. QED
  BY <1>1, <1>2 DEF Installed

LEMMA SameContents == imgA' = imgA => Contents' = Contents
BY DEF Contents, Whole, Holds, VersionIn

\* How the application starts.
LEMMA StartStep ==
  ASSUME IInv, Next, ~Running, Running'
  PROVE  /\ imgA' = imgA /\ Contents \in Versions
         /\ Installed = Contents /\ Installed' = Contents
<1>1. /\ Boot \/ EndProgram
      /\ imgA' = imgA /\ flag' # "IAP"
  BY DEF Running, Next, Boot, AppStep, JumpOta, HardFault, SwitchStep,
       OtaErase, OtaProgram, IapErase, IapProgram, EndErase, EndProgram, EraseStep,
       EraseEvent, HostStep, Connect, Disconnect, Info, ReadInfo, ReadErase, ReadVerify,
       ReadReply, EraseCmd, Prom, VerifyCmd, End, PowerLoss, LoaderOnly, flash
<1>2. Whole /\ Installed = Contents
  <2>1. CASE Boot
    <3>1. cpu = "off" /\ cpu' = "app" /\ flag # "IAP"
      BY <2>1 DEF Boot, Running
    <3>2. QED
      BY <3>1 DEF IInv, BootInv, GivenUpIsRecorded, Installed
  <2>2. CASE EndProgram
    BY <2>2, WhatRuns DEF EndProgram
  <2>3. QED
    BY <1>1, <2>1, <2>2
<1>3. QED
  BY <1>1, <1>2, ContentsType, SameContents DEF Installed

\* While it runs, what is installed stays.
LEMMA RunningStep ==
  ASSUME IInv, Next, Running
  PROVE  Installed' = Installed /\ Contents' = Contents
<1>1. /\ imgA' = imgA
      /\ flag' \in {flag, "none", "OTA"}
  BY DEF Running, Next, Boot, AppStep, JumpOta, HardFault, SwitchStep,
       OtaErase, OtaProgram, IapErase, IapProgram, EndErase, EndProgram, EraseStep,
       EraseEvent, HostStep, Connect, Disconnect, Info, ReadInfo, ReadErase, ReadVerify,
       ReadReply, EraseCmd, Prom, VerifyCmd, End, PowerLoss, LoaderOnly, flash
<1>2. flag # "IAP"
  BY DEF IInv, RunInv
<1>3. QED
  BY <1>1, <1>2, SameContents DEF Installed

\* An image that is not given up does not change.
LEMMA NotGivenUpStays ==
  ASSUME IInv, Next, flag # "IAP"
  PROVE  imgA' = imgA
<1>1. ~eraseEvt /\ host \notin {"prom", "verify"}
  BY DEF IInv, GivenUpInv
<1>2. QED
  BY <1>1 DEF Next, Boot, AppStep, JumpOta, HardFault, SwitchStep, OtaErase, OtaProgram, IapErase,
     IapProgram, EndErase, EndProgram, EraseStep, EraseEvent, HostStep, Connect, Disconnect, Info,
     ReadInfo, ReadErase, ReadVerify, ReadReply, EraseCmd, Prom, VerifyCmd, End, PowerLoss, flash

\* The scheme implements InPlaceUpdate: what runs is an installed image; what is installed is
\* given up before anything of it changes, and another declared only after that, both while
\* nothing runs; every other operation of loader and application is a stuttering step of it.
THEOREM InPlaceRefinement == Environment => (Spec => ImplementsInPlaceUpdate)
<1> USE DEF IU!Init, IU!Next, IU!Boot, IU!Stop, IU!GiveUp, IU!Declare, IU!vars
<1> SUFFICES ASSUME Environment PROVE Spec => ImplementsInPlaceUpdate
  OBVIOUS
<1>1. Init => IU!Init
  <2> SUFFICES ASSUME Init PROVE IU!Init
    OBVIOUS
  <2>1. Whole /\ flag = "none" /\ cpu = "off"
    BY InitInv DEF Init, IInv, BootInv, GivenUpIsRecorded
  <2>2. QED
    BY <2>1, ContentsType
<1>2. IInv /\ [Next]_vars => [IU!Next]_IU!vars
  <2>1. ASSUME IInv, Next PROVE IU!Next \/ UNCHANGED IU!vars
    <3>1. CASE Running
      BY <2>1, <3>1, RunningStep DEF Installed, Executing, Running
    <3>2. CASE ~Running /\ Running'
      <4>1. /\ Contents' = Contents /\ Contents \in Versions
            /\ Installed = Contents /\ Installed' = Contents
        BY <2>1, <3>2, StartStep, SameContents
      <4>2. QED
        BY <3>2, <4>1, NoneAssumption DEF Installed, Running
    <3>3. CASE ~Running /\ ~Running'
      <4>1. Installed' \in Versions \cup {NoImage}
        <5>1. (Contents \in Versions \cup {NoImage})'
          BY ContentsType, PTL
        <5>2. QED
          BY <5>1 DEF Installed
      <4>2. Installed' \in {Installed, NoImage} \/ Installed = NoImage
        BY <2>1, NotGivenUpStays, SameContents DEF Installed
      <4>3. QED
        BY <3>3, <4>1, <4>2 DEF Installed, Running
    <3>4. QED
      BY <3>1, <3>2, <3>3
  <2>2. ASSUME UNCHANGED vars PROVE UNCHANGED IU!vars
    <3>1. imgA' = imgA /\ flag' = flag /\ cpu' = cpu
      BY <2>2 DEF vars, flash
    <3>2. QED
      BY <3>1, SameContents
  <2>3. QED
    BY <2>1, <2>2
<1>3. QED
  BY <1>1, <1>2, Invariance, PTL DEF Spec, IU!Spec, ImplementsInPlaceUpdate

-----------------------------------------------------------------------------
(* The range of the erase event *)

\* An erase that is pending, or about to be once the flag page is written, has
\* blocks left, and is one that was accepted.
EraseInv ==
  eraseEvt \/ cpu \in {"iapErase", "iapProgram"} =>
    EraseBlockCnt < EraseBlockNum /\ EraseBlockNum - 1 <= NBlocks

\* Only a request refused on top of a pending erase can break that.
LEMMA EraseRangeStep ==
  ASSUME TypeOK, EraseInv, [Next]_vars, ~Overtaken
  PROVE  EraseInv'
<1>1. CASE ~(eraseEvt \/ cpu \in {"iapErase", "iapProgram"})'
  BY <1>1 DEF EraseInv
<1>2. CASE /\ UNCHANGED <<EraseBlockNum, EraseBlockCnt>>
           /\ (eraseEvt \/ cpu \in {"iapErase", "iapProgram"})' =>
                eraseEvt \/ cpu \in {"iapErase", "iapProgram"}
  BY <1>2 DEF EraseInv
<1>3. CASE UNCHANGED vars
  BY <1>2, <1>3 DEF vars, ram
<1>4. CASE Boot \/ AppStep \/ End \/ \E torn \in BOOLEAN : PowerLoss(torn)
  BY <1>1, <1>2, <1>4 DEF Boot, BootTarget, AppStep, JumpOta, HardFault, End, PowerLoss, ResetRam,
     ram
<1>5. CASE SwitchStep
  BY <1>1, <1>2, <1>5 DEF SwitchStep, OtaErase, OtaProgram, IapErase, IapProgram, EndErase,
     EndProgram, ResetRam, ram
<1>6. CASE Connect \/ Disconnect \/ Info \/ ReadInfo \/ ReadErase \/ ReadVerify
  BY <1>2, <1>6 DEF Connect, Disconnect, Info, ReadInfo, ReadErase, ReadVerify, ReadReply, ram,
     LoaderOnly
<1>7. ASSUME NEW n \in 1 .. ChunkMax, NEW fault \in Faults, Prom(n, fault) \/ VerifyCmd(n, fault)
      PROVE  EraseInv'
  BY <1>2, <1>7 DEF Prom, VerifyCmd, LoaderOnly
<1>8. ASSUME NEW v \in Versions, NEW n \in EraseRequests, EraseCmd(v, n)
      PROVE  EraseInv'
  <2>1. EraseBlockNum' = n /\ EraseBlockCnt' = 0 /\ n \in Nat /\ n # 0 /\ NBlocks \in Nat
    BY <1>8, GeometryAssumption, RequestAssumption DEF EraseCmd
  <2>2. CASE EraseAccepted(n)
    BY <2>1, <2>2 DEF EraseInv, EraseAccepted
  <2>3. CASE ~EraseAccepted(n)
    <3>1. Refused
      BY <1>8, <2>3 DEF Refused
    <3>2. ~eraseEvt /\ eraseEvt' = eraseEvt /\ cpu' = "loader"
      BY <1>8, <2>3, <3>1 DEF Overtaken, EraseCmd
    <3> QED
      BY <1>1, <3>2 DEF TypeOK, StatesOK
  <2> QED
    BY <2>2, <2>3
<1>9. ASSUME NEW status \in {"ok", "bad"}, EraseEvent(status)
      PROVE  EraseInv'
  <2>1. EraseBlockCnt \in Nat /\ EraseBlockNum \in Nat /\ NBlocks \in Nat
    BY GeometryAssumption DEF TypeOK, CountsOK
  <2>2. /\ eraseEvt /\ UNCHANGED EraseBlockNum
        /\ eraseEvt' => EraseBlockCnt' = EraseBlockCnt + 1 /\ EraseBlockCnt + 1 < EraseBlockNum
        /\ cpu' \notin {"iapErase", "iapProgram"}
    BY <1>9 DEF EraseEvent, StillErasing, LoaderOnly
  <2> QED
    BY <2>1, <2>2 DEF EraseInv
<1> QED
  BY <1>3, <1>4, <1>5, <1>6, <1>7, <1>8, <1>9 DEF Next, HostStep, EraseStep

\* The one way a block is erased that no accepted request asked for, in any build, whatever block
\* counts are asked for, and wherever power fails: an ERASE refused after its block count was
\* stored, on top of an erase still pending.  In every behaviour without that step the erase event
\* erases what was accepted.
THEOREM OnlyOvertakenErasesStray ==
  Spec => ([][~Overtaken]_vars => EraseAsAccepted)
<1> DEFINE RangeInv == TypeOK /\ EraseInv
<1>1. Init => RangeInv
  BY InitTypes DEF Init, EraseInv
<1>2. RangeInv /\ [Next]_vars /\ [~Overtaken]_vars => RangeInv'
  <2>1. ASSUME TypeOK, EraseInv, UNCHANGED vars PROVE EraseInv'
    BY <2>1 DEF vars, ram, EraseInv
  <2> QED
    BY <2>1, StepTypes, EraseRangeStep
<1>3. RangeInv /\ [Next]_vars =>
        [EraseStep => EraseBlockCnt < EraseBlockNum /\ EraseBlockNum - 1 <= NBlocks]_vars
  BY DEF EraseStep, EraseEvent, EraseInv
<1> QED
  BY <1>1, <1>2, <1>3, PTL DEF Spec, EraseAsAccepted

\* Where a host does not come back before the erase it ordered has run out, that step never
\* happens: the erase event carries out accepted requests only, for hosts that ask for any number
\* of blocks, break off sessions and reconnect, also where power fails while a repeated ERASE
\* rewrites the flag page.
THEOREM ErasesAsAccepted == ASSUME ~EraseOutlivesLink PROVE Spec => EraseAsAccepted
<1> DEFINE SessionInv == TypeOK /\ LinkInv
<1>1. Init => SessionInv
  BY InitTypes DEF Init, LinkInv
<1>2. SessionInv /\ [Next]_vars => SessionInv'
  <2>1. TypeOK /\ LinkInv /\ UNCHANGED vars => LinkInv'
    BY DEF LinkInv, vars, ram, hostVars
  <2> QED
    BY <2>1, StepTypes, LinkStep
<1>3. SessionInv => [~Overtaken]_vars
  <2> SUFFICES ASSUME LinkInv, Overtaken PROVE FALSE
    OBVIOUS
  <2> QED
    BY DEF Overtaken, Refused, EraseCmd, LinkInv
<1> QED
  BY <1>1, <1>2, <1>3, OnlyOvertakenErasesStray, PTL DEF Spec
=============================================================================
