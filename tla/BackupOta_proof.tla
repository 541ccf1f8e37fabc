-------------------------- MODULE BackupOta_proof ---------------------------
(***************************************************************************)
(* Proofs about BackupOta, for every flash geometry, every set of image    *)
(* versions and sizes, every chunk size, and staging that may fail at any  *)
(* page.  Most theorems assume that a host does not come back while an     *)
(* erase it ordered earlier still runs (~EraseOutlivesLink); what can      *)
(* happen without that is OnlyOvertakenErasesStray.                        *)
(***************************************************************************)
EXTENDS BackupOta, SequenceTheorems, TLAPS

Loading == {"erase", "program", "flagErase"}

\* Where the host stands against what the device still has to do: no erase is
\* pending once the host may program, and no reply is left over from before
\* ERASE that could be taken for the answer to it.
LinkInv ==
  /\ cpu # "app" => host = "off" /\ (cpu \in {"off"} \cup LoaderStates => ~eraseEvt)
  /\ host \notin {"off", "eraseWait"} => ~eraseEvt
  /\ host = "infoWait" => readBuf = "info"
  /\ host = "ready" => readBuf = "none"
  /\ host = "eraseWait" /\ readBuf # "none" => ~eraseEvt

\* What has been compared is in B: the flush of the partial page happens before
\* the first comparison, and a mismatch sticks in VerifyStatus.
VerifyInv ==
  /\ host = "verify" =>
       /\ hPos > 0 => block_buf = <<>>
       /\ VerifyStatus = "ok" =>
            \A k \in 0 .. hPos - 1 : imgB[AddrOf(k)] = Data(hVer, AddrOf(k))
  /\ host = "verifyWait" =>
       /\ readBuf = VerifyStatus
       /\ VerifyStatus = "ok" => Holds(imgB, hVer)
  /\ host = "verified" => Holds(imgB, hVer)
  /\ cpu \in {"endErase", "endProgram"} => Holds(imgB, hVer)

\* What the loader has copied when it is at page `page' of block `blk'.
Copied(b, p) ==
  \A a \in Addr : a[1] < b \/ (a[1] = b /\ a[2] < p) => imgA[a] = imgB[a]

CopyInv ==
  /\ cpu \in Loading => flag = "IAP"
  /\ cpu = "erase" => Copied(blk, 0)
  /\ cpu = "program" =>
       /\ Copied(blk, page)
       /\ \A a \in Addr : a[1] = blk /\ a[2] >= page => imgA[a] = Erased
  /\ cpu = "flagErase" => \A a \in Addr : imgA[a] = imgB[a]
  /\ cpu \in {"flagProgram", "destroy"} \cup AppStates => flag # "IAP"

Inv == TypeOK /\ LinkInv /\ VerifyInv /\ CopyInv /\ Recoverable

USE GeometryAssumption, SizeAssumption, ChunkAssumption, RequestAssumption
    DEF BootTarget, MoreBlocks, NextBlock, EraseCursor, EraseReply, Rest, Verdict

-----------------------------------------------------------------------------
(* The flash: addresses, and what a region holds *)

\* Every unit of an image has an address in the region.
LEMMA AddrOfType == \A k \in 0 .. TotalUnits - 1 : AddrOf(k) \in Addr
<1> USE GeometryAssumption
<1> SUFFICES ASSUME NEW k \in 0 .. TotalUnits - 1
             PROVE  AddrOf(k) \in Addr
  OBVIOUS
<1> DEFINE S == BlockPages * PageUnits
<1>1. S \in Nat \ {0} /\ TotalUnits = NBlocks * S
  BY SMT DEF TotalUnits
<1>2. k \in Nat /\ k < NBlocks * S
  BY <1>1
<1>3. k \div S \in 0 .. NBlocks - 1
  <2> HIDE DEF S
  <2> QED
    BY <1>1, <1>2, SMTT(30)
<1>4. k \div PageUnits \in Nat
  BY <1>2, SMTT(30)
<1>5. (k \div PageUnits) % BlockPages \in 0 .. BlockPages - 1 /\ k % PageUnits \in 0 .. PageUnits - 1
  BY <1>2, <1>4
<1> QED
  BY <1>3, <1>5 DEF AddrOf, Addr, Blocks, Pages, Offsets

LEMMA TotalNat == TotalUnits \in Nat
BY GeometryAssumption DEF TotalUnits

LEMMA ExtentInAddr == \A v \in Versions : Extent(v) \subseteq Addr
BY AddrOfType, GeometryAssumption, SizeAssumption DEF Extent, TotalUnits

\* A region holds at most one version, and VersionIn finds it.
LEMMA VersionInHeld ==
  ASSUME NEW img, NEW v \in Versions, Holds(img, v)
  PROVE  VersionIn(img) = v
<1>1. \A w \in Versions : AddrOf(0) \in Extent(w)
  BY GeometryAssumption, SizeAssumption DEF Extent, TotalUnits
<1> QED
  BY <1>1 DEF Holds, Data, VersionIn

\* Holding a version depends on the units of its extent only.
LEMMA HoldsCopy ==
  ASSUME NEW img, NEW copy, \A a \in Addr : copy[a] = img[a],
         NEW v \in Versions
  PROVE  Holds(img, v) <=> Holds(copy, v)
BY ExtentInAddr DEF Holds

LEMMA EraseType ==
  ASSUME NEW img \in Image, NEW b
  PROVE  EraseBlock(img, b) \in Image /\ TornBlock(img, b) \in Image
BY DEF EraseBlock, TornBlock, Image, Content

LEMMA ProgramType ==
  ASSUME NEW img \in Image, NEW b, NEW p, NEW data \in [Offsets -> Content]
  PROVE  ProgramPage(img, b, p, data) \in Image /\ TornPage(img, b, p) \in Image
BY DEF ProgramPage, TornPage, Image, Content, Addr

LEMMA AddrParts ==
  \A a \in Addr : /\ a[1] \in Blocks /\ a[2] \in Pages /\ a[3] \in Offsets
                  /\ a = <<a[1], a[2], a[3]>>
BY DEF Addr

-----------------------------------------------------------------------------
(* Lemmas about flash regions *)

LEMMA CursorType ==
  /\ LowAddr \in FlashAddr /\ StartOfB \in FlashAddr
  /\ \A x \in FlashAddr : [x EXCEPT !.page = @ + 1] \in FlashAddr
BY DEF LowAddr, StartOfB, FlashAddr

LEMMA EmptyBuf == <<>> \in Seq(Content) /\ Len(<<>>) = 0 /\ Len(<<>>) < PageUnits
OBVIOUS

-----------------------------------------------------------------------------
(* Units, pages and blocks *)

\* Division is determined by its equation.
LEMMA Division ==
  ASSUME NEW d \in Nat, d > 0, NEW q \in Nat, NEW r \in Nat, r < d
  PROVE  (d * q + r) \div d = q /\ (d * q + r) % d = r
<1> DEFINE k == d * q + r
           s == k \div d
           t == k % d
<1>1. k \in Nat /\ s \in Nat /\ t \in Nat /\ t < d
  BY SMTT(30)
<1>2. k = d * s + t
  BY <1>1, SMTT(30)
<1> HIDE DEF s, t
<1>3. s = q
  <2>1. CASE s < q
    <3>1. d * (s + 1) <= d * q
      BY <1>1, <2>1, SMTT(30)
    <3> QED
      BY <1>1, <1>2, <3>1, SMTT(30)
  <2>2. CASE q < s
    <3>1. d * (q + 1) <= d * s
      BY <1>1, <2>2, SMTT(30)
    <3> QED
      BY <1>1, <1>2, <3>1, SMTT(30)
  <2> QED
    BY <1>1, <2>1, <2>2
<1>4. t = r
  BY <1>1, <1>2, <1>3
<1> QED
  BY <1>3, <1>4 DEF s, t

\* The page of a number, as a block and a page in it.
LEMMA PageOf ==
  ASSUME NEW n \in Nat
  PROVE  /\ n \div BlockPages \in Nat /\ n % BlockPages \in Nat
         /\ n % BlockPages < BlockPages
         /\ BlockPages * (n \div BlockPages) + (n % BlockPages) = n
<1>1. BlockPages \in Nat /\ BlockPages > 0
  OBVIOUS
<1> QED
  BY <1>1, SMTT(30)

\* Unit `off' of page `n' of an image: where AddrOf puts it.
LEMMA AddrAt ==
  ASSUME NEW n \in Nat, NEW off \in Offsets
  PROVE  AddrOf(n * PageUnits + off) = <<n \div BlockPages, n % BlockPages, off>>
<1> DEFINE b == n \div BlockPages
           p == n % BlockPages
           S == BlockPages * PageUnits
           k == n * PageUnits + off
<1>1. /\ PageUnits \in Nat /\ PageUnits > 0 /\ off \in Nat /\ off < PageUnits
      /\ BlockPages \in Nat /\ BlockPages > 0
  BY DEF Offsets
<1>2. b \in Nat /\ p \in Nat /\ p < BlockPages /\ BlockPages * b + p = n
  BY PageOf
<1> HIDE DEF b, p
<1>3. k = PageUnits * n + off
  BY <1>1
<1>4. k \div PageUnits = n /\ k % PageUnits = off
  BY <1>1, <1>3, Division
<1>5. k = S * b + (PageUnits * p + off)
  BY <1>1, <1>2, SMTT(30)
<1>6. /\ S \in Nat /\ S > 0 /\ PageUnits * p + off \in Nat
      /\ PageUnits * p + off < S
  <2>1. PageUnits * (p + 1) <= PageUnits * BlockPages
    BY <1>1, <1>2, SMTT(30)
  <2> QED
    BY <1>1, <1>2, <2>1, SMTT(30)
<1>7. k \div S = b
  <2> HIDE DEF S, k
  <2> QED
    BY <1>2, <1>5, <1>6, Division
<1> QED
  BY <1>4, <1>7 DEF AddrOf, b, p

\* Each unit of an image is some unit of some page.
LEMMA UnitOf ==
  ASSUME NEW k \in Nat
  PROVE  \E n \in Nat, off \in Offsets : k = n * PageUnits + off
<1>1. PageUnits \in Nat /\ PageUnits > 0
  OBVIOUS
<1>2. /\ k \div PageUnits \in Nat /\ k % PageUnits \in Offsets
      /\ k = (k \div PageUnits) * PageUnits + (k % PageUnits)
  BY <1>1, SMTT(30) DEF Offsets
<1> QED
  BY <1>2

-----------------------------------------------------------------------------
(* Type correctness *)

LEMMA InitType == Init => TypeOK
<1> SUFFICES ASSUME Init PROVE TypeOK
  OBVIOUS
<1>1. imgA \in Image /\ imgB \in Image
  BY ExtentInAddr DEF Init, Image, Content, Data
<1>2. block_buf \in Seq(Content) /\ Len(block_buf) < PageUnits /\ prom_addr \in FlashAddr
  BY EmptyBuf, CursorType DEF Init
<1>3. blk \in 0 .. NBlocks /\ page \in 0 .. BlockPages /\ hPos \in 0 .. TotalUnits
  BY DEF Init, TotalUnits
<1>4. hVer \in Versions /\ EraseBlockNum \in Nat /\ EraseBlockCnt \in Nat
  BY DEF Init
<1>5. /\ stagingFaults \in BOOLEAN
      /\ flag \in Flags /\ cpu \in {"off"} \cup LoaderStates \cup AppStates
      /\ eraseEvt \in BOOLEAN /\ VerifyStatus \in {"ok", "bad"}
      /\ readBuf \in Replies /\ host \in HostPhases
      /\ ~(cpu \in {"erase", "program", "destroy"})
  BY DEF Init, Flags, AppStates, LoaderStates, Replies, HostPhases
<1>6. QED
  BY <1>1, <1>2, <1>3, <1>4, <1>5 DEF TypeOK

\* What StagePage leaves in image B.
LEMMA StageType ==
  ASSUME TypeOK, NEW data \in [Offsets -> Content], NEW fault \in BOOLEAN,
         StagePage(fault, data)
  PROVE  imgB' \in Image
<1>1. imgB \in Image
  BY DEF TypeOK
<1>2. \/ imgB' = imgB
      \/ \E b, p : imgB' \in {TornPage(imgB, b, p), ProgramPage(imgB, b, p, data)}
  BY Zenon DEF StagePage
<1>3. QED
  BY <1>1, <1>2, ProgramType

LEMMA ResetType ==
  ASSUME TypeOK, ResetRam
  PROVE  /\ stagingFaults' \in BOOLEAN
         /\ block_buf' \in Seq(Content) /\ Len(block_buf') < PageUnits
         /\ prom_addr' \in FlashAddr
         /\ eraseEvt' \in BOOLEAN /\ EraseBlockNum' \in Nat /\ EraseBlockCnt' \in Nat
         /\ VerifyStatus' \in {"ok", "bad"} /\ readBuf' \in Replies
         /\ host' \in HostPhases /\ hVer' \in Versions /\ hPos' \in 0 .. TotalUnits
<1>1. block_buf' = <<>> /\ prom_addr' = LowAddr
  BY DEF ResetRam
<1>2. /\ EraseBlockNum' \in Nat /\ EraseBlockCnt' \in Nat /\ hPos' \in 0 .. TotalUnits
  BY TotalNat DEF ResetRam
<1>5. /\ eraseEvt' \in BOOLEAN /\ VerifyStatus' \in {"ok", "bad"}
      /\ readBuf' \in Replies /\ host' \in HostPhases
  BY DEF ResetRam, Replies, HostPhases
<1>3. hVer' \in Versions /\ stagingFaults' \in BOOLEAN
  BY DEF ResetRam, TypeOK
<1>4. QED
  BY <1>1, <1>2, <1>3, <1>5, CursorType, EmptyBuf

\* Prom and VerifyCmd advance the host inside the image.
LEMMA AdvanceType ==
  ASSUME TypeOK, NEW n \in 1 .. ChunkMax, NEW phase \in HostPhases,
         NEW done \in HostPhases, Advance(n, phase, done)
  PROVE  host' \in HostPhases /\ hPos' \in 0 .. TotalUnits
<1>1. SizeOf[hVer] \in 1 .. TotalUnits /\ hPos \in Nat /\ TotalUnits \in Nat
  BY DEF TypeOK, TotalUnits
<1>2. CASE hPos + n < SizeOf[hVer]
  BY <1>1, <1>2 DEF Advance
<1>3. CASE ~(hPos + n < SizeOf[hVer])
  BY <1>1, <1>3 DEF Advance
<1>4. QED
  BY <1>2, <1>3

LEMMA PromType ==
  ASSUME TypeOK, NEW n \in 1 .. ChunkMax, NEW fault \in BOOLEAN, Prom(n, fault)
  PROVE  TypeOK'
<1> DEFINE buf == block_buf \o Chunk(n)
<1>1. Chunk(n) \in Seq(Content) /\ Len(Chunk(n)) = n
  <2>1. \A j \in 1 .. n : AddrOf(hPos + j - 1) \in Addr
    <3> SUFFICES ASSUME NEW j \in 1 .. n
                 PROVE  hPos + j - 1 \in 0 .. TotalUnits - 1
      BY AddrOfType
    <3>1. hPos + n <= SizeOf[hVer] /\ SizeOf[hVer] \in 1 .. TotalUnits /\ hPos \in Nat
      BY DEF Prom, TypeOK, TotalUnits
    <3>2. QED
      BY <3>1 DEF TotalUnits
  <2>2. \A j \in 1 .. n : Data(hVer, AddrOf(hPos + j - 1)) \in Content
    BY <2>1 DEF Content, Data, TypeOK
  <2>3. QED
    BY <2>2 DEF Chunk
<1>2. buf \in Seq(Content) /\ Len(buf) = Len(block_buf) + n /\ Len(block_buf) \in Nat
  <2>1. block_buf \in Seq(Content)
    BY DEF TypeOK
  <2>2. QED
    BY <1>1, <2>1
<1>3. block_buf' \in Seq(Content) /\ Len(block_buf') < PageUnits
  <2>1. CASE Len(buf) >= PageUnits
    <3>1. block_buf' = SubSeq(buf, PageUnits + 1, Len(buf))
      BY <2>1 DEF Prom
    <3>2. PageUnits + 1 \in 1 .. Len(buf) + 1 /\ Len(buf) < 2 * PageUnits
      BY <1>2, <2>1 DEF TypeOK
    <3> HIDE DEF buf
    <3>3. QED
      BY <1>2, <3>1, <3>2
  <2>2. CASE ~(Len(buf) >= PageUnits)
    <3>1. block_buf' = buf
      BY <2>2 DEF Prom
    <3> HIDE DEF buf
    <3>2. QED
      BY <1>2, <2>2, <3>1
  <2>3. QED
    BY <2>1, <2>2
<1>4. imgB' \in Image
  <2>1. CASE Len(buf) >= PageUnits
    <3>1. [o \in Offsets |-> buf[o + 1]] \in [Offsets -> Content]
      <4> HIDE DEF buf
      <4> QED
        BY <1>2, <2>1 DEF Offsets
    <3>2. StagePage(fault, [o \in Offsets |-> buf[o + 1]])
      BY <2>1 DEF Prom
    <3>3. QED
      BY <3>1, <3>2, StageType
  <2>2. CASE ~(Len(buf) >= PageUnits)
    BY <2>2 DEF Prom, TypeOK
  <2>3. QED
    BY <2>1, <2>2
<1>5. prom_addr' \in FlashAddr
  <2>1. prom_addr' \in {prom_addr, [prom_addr EXCEPT !.page = @ + 1]}
    BY DEF Prom
  <2>2. QED
    BY <2>1, CursorType DEF TypeOK
<1>6. host' \in HostPhases /\ hPos' \in 0 .. TotalUnits
  BY AdvanceType DEF Prom, HostPhases
<1>7. QED
  BY <1>3, <1>4, <1>5, <1>6 DEF Prom, AppOnly, loader, TypeOK, Replies

LEMMA VerifyType ==
  ASSUME TypeOK, NEW n \in 1 .. ChunkMax, NEW fault \in BOOLEAN, VerifyCmd(n, fault)
  PROVE  TypeOK'
<1> DEFINE data == [o \in Offsets |-> IF o < Len(block_buf) THEN block_buf[o + 1] ELSE Junk]
<1>1. data \in [Offsets -> Content]
  BY DEF TypeOK, Offsets, Content
<1>2. imgB' \in Image
  <2>1. CASE block_buf # <<>>
    <3>1. StagePage(fault, data)
      BY <2>1 DEF VerifyCmd
    <3>2. QED
      BY <1>1, <3>1, StageType
  <2>2. CASE block_buf = <<>>
    BY <2>2 DEF VerifyCmd, TypeOK
  <2>3. QED
    BY <2>1, <2>2
<1>3. /\ block_buf' \in Seq(Content) /\ Len(block_buf') < PageUnits
      /\ prom_addr' \in FlashAddr
  BY EmptyBuf, CursorType DEF VerifyCmd, TypeOK
<1>4. host' \in HostPhases /\ hPos' \in 0 .. TotalUnits
  BY AdvanceType DEF VerifyCmd, HostPhases
<1>5. VerifyStatus' \in {"ok", "bad"} /\ readBuf' \in Replies
  BY DEF VerifyCmd, TypeOK, Replies
<1>6. QED
  BY <1>2, <1>3, <1>4, <1>5 DEF VerifyCmd, AppOnly, loader, TypeOK

LEMMA LoaderType == TypeOK /\ LoaderStep => TypeOK'
<1> SUFFICES ASSUME TypeOK, LoaderStep
             PROVE  TypeOK'
  OBVIOUS
<1> USE DEF TypeOK, ram, hostVars, loader, flash
<1>1. CASE Boot
  BY <1>1 DEF Boot, AppStates, LoaderStates
<1>2. CASE CopyErase
  BY <1>2, EraseType DEF CopyErase, LoaderStates
<1>3. CASE CopyProgram
  <2>1. [o \in Offsets |-> imgB[<<blk, page, o>>]] \in [Offsets -> Content]
    <3> SUFFICES ASSUME NEW o \in Offsets
                 PROVE  imgB[<<blk, page, o>>] \in Content
      OBVIOUS
    <3>1. <<blk, page, o>> \in Addr
      BY <1>3 DEF CopyProgram, Addr, Blocks, Pages
    <3> QED
      BY <3>1 DEF Image
  <2>2. imgA' \in Image
    BY <1>3, <2>1, ProgramType DEF CopyProgram
  <2>3. blk' \in 0 .. NBlocks /\ page' \in 0 .. BlockPages /\ cpu' \in LoaderStates
    BY <1>3 DEF CopyProgram, LoaderStates
  <2>4. QED
    BY <1>3, <2>2, <2>3 DEF CopyProgram
<1>4. CASE SwitchToAErase
  BY <1>4 DEF SwitchToAErase, LoaderStates, Flags
<1>5. CASE SwitchToAProgram
  BY <1>5 DEF SwitchToAProgram, LoaderStates, Flags
<1>6. CASE DestroyBackup
  BY <1>6, EraseType DEF DestroyBackup, LoaderStates, AppStates
<1>7. QED
  BY <1>1, <1>2, <1>3, <1>4, <1>5, <1>6 DEF LoaderStep

LEMMA HostType == TypeOK /\ HostStep => TypeOK'
<1> SUFFICES ASSUME TypeOK, HostStep
             PROVE  TypeOK'
  OBVIOUS
<1> USE DEF AppOnly, ram, hostVars, loader, flash
<1>1. CASE Connect
  BY <1>1 DEF Connect, TypeOK, HostPhases
<1>2. CASE Disconnect
  BY <1>2 DEF Disconnect, TypeOK, HostPhases
<1>3. CASE Info
  BY <1>3, EmptyBuf DEF Info, TypeOK, HostPhases, Replies
<1>4. CASE ReadInfo \/ ReadErase \/ ReadVerify
  BY <1>4 DEF ReadInfo, ReadErase, ReadVerify, ReadReply, TypeOK, HostPhases, Replies
<1>5. ASSUME NEW v \in Versions, NEW n \in EraseRequests, EraseCmd(v, n)
      PROVE  TypeOK'
  <2>1. block_buf' \in Seq(Content) /\ Len(block_buf') < PageUnits /\ prom_addr' \in FlashAddr
    BY <1>5, EmptyBuf, CursorType DEF EraseCmd
  <2>2. /\ EraseBlockNum' \in Nat /\ EraseBlockCnt' \in Nat
        /\ hPos' \in 0 .. TotalUnits /\ hVer' \in Versions
    BY <1>5, TotalNat DEF EraseCmd
  <2>3. /\ eraseEvt' \in BOOLEAN /\ VerifyStatus' \in {"ok", "bad"}
        /\ readBuf' \in Replies /\ host' \in HostPhases
    BY <1>5 DEF EraseCmd, TypeOK, Replies, HostPhases
  <2>4. QED
    BY <1>5, <2>1, <2>2, <2>3 DEF EraseCmd, TypeOK
<1>6. ASSUME NEW n \in 1 .. ChunkMax, NEW fault \in BOOLEAN,
             Prom(n, fault) \/ VerifyCmd(n, fault)
      PROVE  TypeOK'
  BY <1>6, PromType, VerifyType
<1>7. CASE End
  BY <1>7 DEF End, TypeOK, HostPhases, AppStates
<1>8. QED
  BY <1>1, <1>2, <1>3, <1>4, <1>5, <1>6, <1>7 DEF HostStep, Faults

LEMMA DeviceType ==
  ASSUME TypeOK, EraseStep \/ EndStep \/ (\E torn \in BOOLEAN : PowerLoss(torn))
  PROVE  TypeOK'
<1> USE DEF ram, hostVars, loader, flash
<1>1. ASSUME NEW status \in {"ok", "bad"}, EraseEvent(status)
      PROVE  TypeOK'
  <2>1. imgB' \in Image
    BY <1>1, EraseType DEF EraseEvent, TypeOK
  <2>2. EraseBlockCnt' \in Nat /\ readBuf' \in Replies
    BY <1>1 DEF EraseEvent, TypeOK, Replies
  <2>4. eraseEvt' \in BOOLEAN
    <3>1. eraseEvt' = (status = "ok" /\ EraseBlockCnt + 1 < EraseBlockNum)
      BY <1>1 DEF EraseEvent, StillErasing
    <3>2. QED
      BY <3>1
  <2>3. QED
    BY <1>1, <2>1, <2>2, <2>4 DEF EraseEvent, AppOnly, TypeOK
<1>2. CASE EndErase
  BY <1>2 DEF EndErase, TypeOK, Flags, AppStates
<1>3. CASE EndProgram
  BY <1>3, ResetType DEF EndProgram, TypeOK, Flags
<1>4. ASSUME NEW torn \in BOOLEAN, PowerLoss(torn)
      PROVE  TypeOK'
  <2>1. imgA' \in Image
    <3>1. imgA' \in {imgA, TornBlock(imgA, blk), TornPage(imgA, blk, page)}
      BY <1>4 DEF PowerLoss
    <3>2. TornPage(imgA, blk, page) \in Image
      BY DEF TornPage, Image, Content, TypeOK
    <3>3. QED
      BY <3>1, <3>2, EraseType DEF TypeOK
  <2>2. imgB' \in Image
    <3>1. imgB' \in {imgB, TornBlock(imgB, blk), TornBlock(imgB, EraseBlockCnt)}
      BY <1>4 DEF PowerLoss
    <3>2. QED
      BY <3>1, EraseType DEF TypeOK
  <2>3. flag' \in Flags /\ cpu' = "off" /\ UNCHANGED loader
    BY <1>4 DEF PowerLoss, TypeOK, Flags
  <2>4. QED
    BY <1>4, <2>1, <2>2, <2>3, ResetType DEF PowerLoss, TypeOK
<1>5. QED
  BY <1>1, <1>2, <1>3, <1>4 DEF EraseStep, EndStep

\* Every state of the scheme is of the declared shape; block_buf, in particular,
\* never holds a page or more between two commands.
THEOREM TypeCorrect == Spec => []TypeOK
<1>1. TypeOK /\ [Next]_vars => TypeOK'
  <2>1. CASE UNCHANGED vars
    BY <2>1 DEF vars, flash, loader, ram, hostVars, TypeOK
  <2>2. QED
    BY <2>1, LoaderType, HostType, DeviceType DEF Next
<1>2. QED
  BY <1>1, InitType, PTL DEF Spec

-----------------------------------------------------------------------------
(* The inductive invariant, one part at a time *)

LEMMA InitInv == Init => Inv
<1> SUFFICES ASSUME Init PROVE Inv
  OBVIOUS
<1>1. LinkInv
  BY DEF Init, LinkInv, LoaderStates
<1>2. VerifyInv
  BY DEF Init, VerifyInv
<1>3. CopyInv
  BY DEF Init, CopyInv, Loading, AppStates
<1>4. Recoverable
  <2>1. PICK v \in Versions :
          imgA = [a \in Addr |-> IF a \in Extent(v) THEN Data(v, a) ELSE Erased]
    BY DEF Init
  <2>2. Holds(imgA, v)
    BY <2>1, ExtentInAddr DEF Holds
  <2>3. QED
    BY <2>2 DEF Selected, Recoverable, Init
<1>5. QED
  BY InitType, <1>1, <1>2, <1>3, <1>4 DEF Inv

LEMMA LinkStep ==
  ASSUME TypeOK, LinkInv, Next, ~EraseOutlivesLink
  PROVE  LinkInv'
<1> USE DEF LinkInv, AppOnly, ram, hostVars, loader, flash
<1>1. CASE LoaderStep
  BY <1>1 DEF LoaderStep, Boot, CopyErase, CopyProgram, SwitchToAErase,
       SwitchToAProgram, DestroyBackup, LoaderStates
<1>2. ASSUME NEW status \in {"ok", "bad"}, EraseEvent(status)
      PROVE  LinkInv'
  BY <1>2 DEF EraseEvent, TypeOK, LoaderStates
<1>3. CASE Connect \/ Disconnect \/ Info
  BY <1>3 DEF Connect, Disconnect, Info, LoaderStates
<1>4. CASE ReadInfo \/ ReadErase \/ ReadVerify
  BY <1>4 DEF ReadInfo, ReadErase, ReadVerify, ReadReply, LoaderStates
<1>5. ASSUME NEW v \in Versions, NEW n \in EraseRequests, EraseCmd(v, n)
      PROVE  LinkInv'
  BY <1>5 DEF EraseCmd, LoaderStates
<1>6. ASSUME NEW n \in 1 .. ChunkMax, NEW fault \in BOOLEAN,
             Prom(n, fault) \/ VerifyCmd(n, fault)
      PROVE  LinkInv'
  BY <1>6 DEF Prom, VerifyCmd, Advance, LoaderStates
<1>7. CASE End \/ EndStep
  BY <1>7 DEF End, EndStep, EndErase, EndProgram, ResetRam, LoaderStates
<1>8. ASSUME NEW torn \in BOOLEAN, PowerLoss(torn)
      PROVE  LinkInv'
  BY <1>8 DEF PowerLoss, ResetRam
<1>9. QED
  BY <1>1, <1>2, <1>3, <1>4, <1>5, <1>6, <1>7, <1>8 DEF Next, EraseStep, HostStep, Faults

LEMMA CopyStep ==
  ASSUME TypeOK, CopyInv, Next
  PROVE  CopyInv'
<1> USE DEF CopyInv, Loading, AppStates, LoaderStates, flash, AppOnly
<1>1. CASE Boot
  BY <1>1, AddrParts DEF Boot, Copied, Blocks, Pages
<1>2. CASE CopyErase
  <2>1. /\ cpu = "erase" /\ cpu' = "program" /\ page' = 0 /\ blk' = blk
        /\ imgB' = imgB /\ flag' = flag
        /\ imgA' = [a \in Addr |-> IF a[1] = blk THEN Erased ELSE imgA[a]]
    BY <1>2 DEF CopyErase, EraseBlock
  <2>2. Copied(blk, 0) /\ flag = "IAP"
    BY <2>1
  <2>3. \A a \in Addr : a[1] \in Nat /\ a[2] \in Nat /\ blk \in Nat
    BY AddrParts DEF TypeOK, Blocks, Pages
  <2>4. \A a \in Addr : a[1] < blk \/ (a[1] = blk /\ a[2] < 0) => imgA'[a] = imgB'[a]
    BY <2>1, <2>2, <2>3 DEF Copied
  <2>5. \A a \in Addr : a[1] = blk /\ a[2] >= 0 => imgA'[a] = Erased
    BY <2>1
  <2>6. QED
    BY <2>1, <2>2, <2>4, <2>5 DEF Copied
<1>3. CASE CopyProgram
  <2>1. \A a \in Addr : a[1] = blk /\ a[2] = page => imgA'[a] = imgB[a]
    <3> SUFFICES ASSUME NEW a \in Addr, a[1] = blk, a[2] = page
                 PROVE  imgA'[a] = imgB[a]
      OBVIOUS
    <3>1. a = <<blk, page, a[3]>> /\ a[3] \in Offsets
      BY AddrParts
    <3>2. imgA[a] = Erased
      BY <1>3 DEF CopyProgram, TypeOK
    <3>3. imgA'[a] = [o \in Offsets |-> imgB[<<blk, page, o>>]][a[3]]
      BY <1>3, <3>2 DEF CopyProgram, ProgramPage
    <3>4. QED
      BY <3>1, <3>3
  <2>2. \A a \in Addr : ~(a[1] = blk /\ a[2] = page) => imgA'[a] = imgA[a]
    BY <1>3 DEF CopyProgram, ProgramPage
  <2>3. Copied(blk, page)
    BY <1>3 DEF CopyProgram
  <2>4. \A a \in Addr : a[1] < blk \/ (a[1] = blk /\ a[2] < page + 1) => imgA'[a] = imgB'[a]
    <3> SUFFICES ASSUME NEW a \in Addr, a[1] < blk \/ (a[1] = blk /\ a[2] < page + 1)
                 PROVE  imgA'[a] = imgB'[a]
      OBVIOUS
    <3>1. a[1] \in Nat /\ a[2] \in Nat /\ blk \in Nat /\ page \in Nat
      BY AddrParts DEF TypeOK, Blocks, Pages
    <3>2. imgB' = imgB
      BY <1>3 DEF CopyProgram
    <3>3. QED
      BY <2>1, <2>2, <2>3, <3>1, <3>2 DEF Copied
  <2>5. CASE page + 1 < BlockPages
    <3>1. cpu' = "program" /\ page' = page + 1 /\ blk' = blk /\ flag' = flag
      BY <1>3, <2>5 DEF CopyProgram
    <3>2. \A a \in Addr : a[1] = blk /\ a[2] >= page + 1 => imgA'[a] = Erased
      <4> SUFFICES ASSUME NEW a \in Addr, a[1] = blk, a[2] >= page + 1
                   PROVE  imgA'[a] = Erased
        OBVIOUS
      <4>1. a[2] \in Nat /\ page \in Nat
        BY AddrParts DEF TypeOK, Pages
      <4>2. QED
        BY <1>3, <2>2, <4>1 DEF CopyProgram
    <3>3. QED
      BY <1>3, <2>4, <3>1, <3>2 DEF CopyProgram, Copied
  <2>6. CASE ~(page + 1 < BlockPages)
    <3>1. blk' = blk + 1 /\ page' = 0 /\ flag' = flag /\ imgB' = imgB
      BY <1>3, <2>6 DEF CopyProgram
    <3>2. \A a \in Addr : a[1] < blk + 1 => imgA'[a] = imgB'[a]
      <4> SUFFICES ASSUME NEW a \in Addr, a[1] < blk + 1
                   PROVE  imgA'[a] = imgB'[a]
        OBVIOUS
      <4>1. /\ a[1] \in Nat /\ a[2] \in 0 .. BlockPages - 1
            /\ blk \in Nat /\ page \in 0 .. BlockPages - 1
        BY <1>3, AddrParts DEF CopyProgram, TypeOK, Blocks, Pages
      <4>2. QED
        BY <2>4, <2>6, <4>1
    <3>3. CASE blk + 1 < NBlocks
      <4>1. cpu' = "erase"
        BY <1>3, <2>6, <3>3 DEF CopyProgram
      <4>2. Copied(blk, 0)'
        <5> SUFFICES ASSUME NEW a \in Addr, a[1] < blk' \/ (a[1] = blk' /\ a[2] < 0)
                     PROVE  imgA'[a] = imgB'[a]
          BY DEF Copied
        <5>1. a[2] \in Nat
          BY AddrParts DEF Pages
        <5>2. QED
          BY <3>1, <3>2, <5>1
      <4>3. QED
        BY <1>3, <3>1, <4>1, <4>2 DEF CopyProgram
    <3>4. CASE ~(blk + 1 < NBlocks)
      <4>1. cpu' = "flagErase"
        BY <1>3, <2>6, <3>4 DEF CopyProgram
      <4>2. \A a \in Addr : a[1] < blk + 1
        BY <3>4, AddrParts DEF Blocks, TypeOK
      <4>3. QED
        BY <1>3, <3>1, <3>2, <4>1, <4>2 DEF CopyProgram
    <3>5. QED
      BY <3>3, <3>4
  <2>7. QED
    BY <2>5, <2>6
<1>4. CASE SwitchToAErase \/ SwitchToAProgram \/ DestroyBackup
  BY <1>4 DEF SwitchToAErase, SwitchToAProgram, DestroyBackup
<1>5. CASE EraseStep \/ HostStep
  <2>1. cpu = "app" /\ cpu' \in {"app", "endErase"} /\ flag' = flag
    BY <1>5 DEF EraseStep, EraseEvent, HostStep, Connect, Disconnect, Info, ReadInfo,
         ReadErase, ReadVerify, ReadReply, EraseCmd, Prom, VerifyCmd, End
  <2>2. QED
    BY <2>1
<1>6. CASE EndStep
  BY <1>6 DEF EndStep, EndErase, EndProgram
<1>7. ASSUME NEW torn \in BOOLEAN, PowerLoss(torn)
      PROVE  CopyInv'
  BY <1>7 DEF PowerLoss
<1>8. QED
  BY <1>1, <1>2, <1>3, <1>4, <1>5, <1>6, <1>7 DEF Next, LoaderStep

\* What the host has seen verified is still in B when it matters.
LEMMA VerifyStep ==
  ASSUME TypeOK, LinkInv, VerifyInv, Next
  PROVE  VerifyInv'
<1> USE DEF VerifyInv, AppOnly, ram, hostVars, loader, flash
<1>1. CASE LoaderStep
  <2>1. host' = "off" /\ cpu' \in LoaderStates \cup {"app"}
    BY <1>1 DEF LinkInv, LoaderStep, Boot, CopyErase, CopyProgram, SwitchToAErase,
         SwitchToAProgram, DestroyBackup, LoaderStates
  <2>2. QED
    BY <2>1 DEF LoaderStates
<1>2. ASSUME NEW status \in {"ok", "bad"}, EraseEvent(status)
      PROVE  VerifyInv'
  BY <1>2 DEF EraseEvent, LinkInv
<1>3. CASE Connect \/ Disconnect \/ Info
  BY <1>3 DEF Connect, Disconnect, Info
<1>4. CASE ReadInfo \/ ReadErase \/ ReadVerify
  BY <1>4 DEF ReadInfo, ReadErase, ReadVerify, ReadReply, Holds
<1>5. ASSUME NEW v \in Versions, NEW n \in EraseRequests, EraseCmd(v, n)
      PROVE  VerifyInv'
  BY <1>5 DEF EraseCmd
<1>6. ASSUME NEW n \in 1 .. ChunkMax, NEW fault \in BOOLEAN, Prom(n, fault)
      PROVE  VerifyInv'
  BY <1>6 DEF Prom, Advance
<1>7. ASSUME NEW n \in 1 .. ChunkMax, NEW fault \in BOOLEAN, VerifyCmd(n, fault)
      PROVE  VerifyInv'
  <2>1. block_buf' = <<>> /\ hVer' = hVer /\ cpu' = "app"
    BY <1>7 DEF VerifyCmd
  <2>2. /\ hPos \in Nat /\ n \in Nat /\ SizeOf[hVer] \in Nat
        /\ hPos + n <= SizeOf[hVer]
    BY <1>7, TotalNat DEF VerifyCmd, TypeOK
  <2>3. VerifyStatus' = "ok" =>
          \A k \in 0 .. hPos + n - 1 : imgB'[AddrOf(k)] = Data(hVer, AddrOf(k))
    <3> SUFFICES ASSUME VerifyStatus' = "ok", NEW k \in 0 .. hPos + n - 1
                 PROVE  imgB'[AddrOf(k)] = Data(hVer, AddrOf(k))
      OBVIOUS
    <3>1. VerifyStatus = "ok" /\ \A i \in hPos .. hPos + n - 1 :
             imgB'[AddrOf(i)] = Data(hVer, AddrOf(i))
      BY <1>7 DEF VerifyCmd
    <3>2. CASE k >= hPos
      BY <2>2, <3>1, <3>2
    <3>3. CASE k < hPos
      <4>1. imgB' = imgB
        BY <1>7, <2>2, <3>3 DEF VerifyCmd
      <4>2. k \in 0 .. hPos - 1
        BY <2>2, <3>3
      <4>3. QED
        BY <1>7, <3>1, <4>1, <4>2 DEF VerifyCmd
    <3>4. QED
      BY <2>2, <3>2, <3>3
  <2>4. CASE hPos + n < SizeOf[hVer]
    <3>1. hPos' = hPos + n /\ host' = "verify"
      BY <1>7, <2>4 DEF VerifyCmd, Advance
    <3>2. VerifyStatus' = "ok" =>
            \A k \in 0 .. hPos' - 1 : imgB'[AddrOf(k)] = Data(hVer', AddrOf(k))
      <4> SUFFICES ASSUME VerifyStatus' = "ok", NEW k \in 0 .. hPos' - 1
                   PROVE  imgB'[AddrOf(k)] = Data(hVer', AddrOf(k))
        OBVIOUS
      <4>1. k \in 0 .. hPos + n - 1
        BY <2>2, <3>1
      <4>2. imgB'[AddrOf(k)] = Data(hVer, AddrOf(k))
        BY <2>3, <4>1, Zenon
      <4>3. QED
        BY <2>1, <4>2, Zenon
    <3>3. QED
      BY <2>1, <3>1, <3>2
  <2>5. CASE ~(hPos + n < SizeOf[hVer])
    <3>1. hPos + n = SizeOf[hVer]
      BY <2>2, <2>5
    <3>2. VerifyStatus' = "ok" => Holds(imgB, hVer)'
      <4> SUFFICES ASSUME VerifyStatus' = "ok", NEW a \in Extent(hVer)
                   PROVE  imgB'[a] = Data(hVer, a)
        BY <2>1 DEF Holds
      <4>1. PICK k \in 0 .. SizeOf[hVer] - 1 : a = AddrOf(k)
        BY DEF Extent
      <4>2. k \in 0 .. hPos + n - 1
        BY <2>2, <3>1
      <4>3. QED
        BY <2>3, <4>1, <4>2, Zenon
    <3>3. host' = "verifyWait" /\ readBuf' = VerifyStatus'
      BY <1>7, <2>5 DEF VerifyCmd, Advance
    <3>4. QED
      BY <2>1, <3>2, <3>3
  <2>6. QED
    BY <2>4, <2>5
<1>8. CASE End \/ EndStep
  BY <1>8 DEF End, EndStep, EndErase, EndProgram, ResetRam, Holds
<1>9. ASSUME NEW torn \in BOOLEAN, PowerLoss(torn)
      PROVE  VerifyInv'
  BY <1>9 DEF PowerLoss, ResetRam
<1>10. QED
  BY <1>1, <1>2, <1>3, <1>4, <1>5, <1>6, <1>7, <1>8, <1>9
     DEF Next, EraseStep, HostStep, Faults

\* The selected region keeps its version in every step but the one that installs another: the
\* selection moves from B to A only when A is a copy of B.
LEMMA SelectedStep ==
  ASSUME Inv, Next, ~EndProgram, NEW v, Holds(Selected, v), v \in Versions
  PROVE  Holds(Selected', v)
<1> USE DEF Inv
<1>1. CASE Selected' = Selected
  BY <1>1
<1>2. CASE cpu = "flagErase" /\ flag' \in {flag, "none"} /\ imgA' = imgA /\ imgB' = imgB
  <2>1. CASE flag' = flag
    BY <1>1, <1>2, <2>1 DEF Selected
  <2>2. CASE flag' = "none"
    <3>1. Selected = imgB /\ Selected' = imgA /\ \A a \in Addr : imgA[a] = imgB[a]
      BY <1>2, <2>2 DEF Selected, CopyInv, Loading
    <3>2. QED
      BY <3>1, HoldsCopy
  <2>3. QED
    BY <1>2, <2>1, <2>2
<1>3. CASE flag # "IAP" /\ flag' # "IAP" /\ imgA' = imgA
  BY <1>1, <1>3 DEF Selected
<1>4. CASE flag = "IAP" /\ flag' = "IAP" /\ imgB' = imgB
  BY <1>1, <1>4 DEF Selected
<1>5. CASE LoaderStep
  BY <1>2, <1>3, <1>4, <1>5 DEF LoaderStep, Boot, CopyErase, CopyProgram, SwitchToAErase,
       SwitchToAProgram, DestroyBackup, CopyInv, Loading, Selected, flash, TypeOK, Flags
<1>6. CASE EraseStep \/ HostStep \/ EndErase
  <2> USE <1>6 DEF EraseStep, EraseEvent, HostStep, Connect, Disconnect, Info, ReadInfo,
          ReadErase, ReadVerify, ReadReply, EraseCmd, Prom, VerifyCmd, End, EndErase
  <2>1. cpu \in AppStates
    BY DEF AppStates
  <2>2. imgA' = imgA /\ flag' \in {flag, "none"}
    BY DEF AppOnly, flash
  <2>3. QED
    BY <1>3, <2>1, <2>2 DEF CopyInv
<1>7. ASSUME NEW torn \in BOOLEAN, PowerLoss(torn)
      PROVE  Holds(Selected', v)
  <2>1. CASE cpu \in {"erase", "program"}
    <3>1. flag = "IAP" /\ flag' = flag /\ imgB' = imgB
      BY <1>7, <2>1 DEF PowerLoss, CopyInv, Loading
    <3>2. QED
      BY <1>4, <3>1
  <2>2. CASE cpu = "flagErase"
    <3>1. flag' \in {flag, "none"} /\ imgB' = imgB /\ imgA' = imgA
      BY <1>7, <2>2 DEF PowerLoss
    <3>2. QED
      BY <1>2, <2>2, <3>1
  <2>3. CASE cpu \in {"flagProgram", "destroy"} \cup AppStates
    <3>1. flag # "IAP" /\ flag' \in {flag, "none"} /\ imgA' = imgA
      BY <1>7, <2>3 DEF PowerLoss, CopyInv, AppStates
    <3>2. QED
      BY <1>3, <3>1
  <2>4. QED
    BY <1>7, <2>1, <2>2, <2>3 DEF PowerLoss, TypeOK, LoaderStates
<1>8. QED
  BY <1>5, <1>6, <1>7 DEF Next, EndStep

LEMMA RecoverStep ==
  ASSUME Inv, Next
  PROVE  Recoverable'
<1>1. CASE EndProgram
  BY <1>1 DEF Selected, EndProgram, Recoverable, Inv, VerifyInv, TypeOK, Holds, ResetRam
<1>2. CASE ~EndProgram
  <2>1. PICK v \in Versions : Holds(Selected, v)
    BY DEF Inv, Recoverable, Selected
  <2>2. Holds(Selected', v)
    BY <1>2, <2>1, SelectedStep
  <2>3. QED
    BY <2>2 DEF Recoverable, Selected, Holds
<1>3. QED
  BY <1>1, <1>2

THEOREM Invariance == ASSUME ~EraseOutlivesLink PROVE Spec => []Inv
<1>1. Inv /\ [Next]_vars => Inv'
  <2>1. ASSUME Inv, Next PROVE Inv'
    <3>1. TypeOK'
      BY <2>1, LoaderType, HostType, DeviceType DEF Next, Inv
    <3>2. LinkInv' /\ VerifyInv' /\ CopyInv' /\ Recoverable'
      BY <2>1, LinkStep, VerifyStep, CopyStep, RecoverStep DEF Inv
    <3>3. QED
      BY <3>1, <3>2 DEF Inv
  <2>2. ASSUME Inv, UNCHANGED vars PROVE Inv'
    BY <2>2 DEF Selected, vars, flash, loader, ram, hostVars, Inv, TypeOK, LinkInv, VerifyInv,
         CopyInv, Copied, Recoverable, Holds
  <2>3. QED
    BY <2>1, <2>2
<1>2. QED
  BY <1>1, InitInv, PTL DEF Spec

\* No power loss leaves the device without a whole image to boot.
THEOREM AlwaysRecoverable == ASSUME ~EraseOutlivesLink PROVE Spec => []Recoverable
BY Invariance, PTL DEF Inv

\* The loader never jumps into a mixture of two images.
THEOREM NeverBootsMixture == ASSUME ~EraseOutlivesLink PROVE Spec => []BootsCompleteImage
<1>1. Inv => BootsCompleteImage
  BY DEF Selected, Inv, CopyInv, Recoverable, BootsCompleteImage, Running
<1>2. QED
  BY <1>1, Invariance, PTL

-----------------------------------------------------------------------------
(* Refinement *)

LEMMA SelectedVersion ==
  ASSUME Recoverable
  PROVE  /\ VersionIn(Selected) \in Versions
         /\ Holds(Selected, VersionIn(Selected))
<1>1. PICK v \in Versions : Holds(Selected, v)
  BY DEF Recoverable, Selected
<1>2. VersionIn(Selected) = v
  BY <1>1, VersionInHeld
<1>3. QED
  BY <1>1, <1>2

\* While the application runs, what runs is what is installed.
LEMMA RunsSelected == CopyInv /\ Running => Selected = imgA
BY DEF CopyInv, Running, Selected

LEMMA SelectedKept ==
  ASSUME Inv, Next, ~EndProgram
  PROVE  VersionIn(Selected') = VersionIn(Selected)
<1> DEFINE v == VersionIn(Selected)
<1>1. v \in Versions /\ Holds(Selected, v)
  BY SelectedVersion DEF Inv
<1> HIDE DEF v
<1>2. Holds(Selected', v)
  BY <1>1, SelectedStep
<1>3. VersionIn(Selected') = v
  BY <1>1, <1>2, VersionInHeld
<1>4. QED
  BY <1>3 DEF v

\* The abstract variables, by name.
Installed == VersionIn(Selected)
Executing == IF Running THEN VersionIn(imgA) ELSE NotRunning
Ready     == IF cpu \in {"endErase", "endProgram"} THEN {hVer} ELSE {}

Failure == \E torn \in BOOLEAN : PowerLoss(torn)

\* What a step can do to `what executes' while power holds and nothing is
\* installed: nothing, or start the installed image.
LEMMA ExecutingStep ==
  ASSUME Inv, Next, ~EndProgram, ~Failure
  PROVE  \/ Executing' = Executing
         \/ Executing = NotRunning /\ Executing' = Installed'
<1> USE DEF Inv
<1>1. CASE Running' /\ ~Running
  <2>1. LoaderStep /\ cpu' = "app" /\ cpu \notin AppStates /\ CopyInv'
    <3>1. CopyInv'
      BY CopyStep
    <3>2. cpu \notin AppStates /\ cpu' \in AppStates
      BY <1>1 DEF Running
    <3>3. LoaderStep
      BY <3>2 DEF Next, EraseStep, EraseEvent, HostStep, Connect, Disconnect, Info,
           ReadInfo, ReadErase, ReadVerify, ReadReply, EraseCmd, Prom, VerifyCmd, End,
           EndStep, EndErase, EndProgram, PowerLoss, AppStates
    <3>4. cpu' = "app"
      BY <3>2, <3>3 DEF LoaderStep, Boot, CopyErase, CopyProgram, SwitchToAErase,
           SwitchToAProgram, DestroyBackup, AppStates
    <3>5. QED
      BY <3>1, <3>2, <3>3, <3>4
  <2>2. Selected' = imgA'
    BY <2>1 DEF CopyInv, Selected, AppStates
  <2>3. QED
    BY <1>1, <2>2 DEF Executing, Installed
<1>2. CASE ~Running'
  <2>1. ~Running
    BY <1>2 DEF Running, AppStates, Failure, LoaderStep, Boot, CopyErase, CopyProgram,
         SwitchToAErase, SwitchToAProgram, DestroyBackup, AppOnly,
         Next, EraseStep, EraseEvent, HostStep, Connect, Disconnect, Info,
         ReadInfo, ReadErase, ReadVerify, ReadReply, EraseCmd, Prom, VerifyCmd, End,
         EndStep, EndErase
  <2>2. QED
    BY <1>2, <2>1 DEF Executing
<1>3. CASE Running' /\ Running
  <2>1. imgA' = imgA
    BY <1>3 DEF Running, AppStates, LoaderStep, Boot, CopyErase, CopyProgram,
         SwitchToAErase, SwitchToAProgram, DestroyBackup, flash, AppOnly,
         Next, EraseStep, EraseEvent, HostStep, Connect, Disconnect, Info,
         ReadInfo, ReadErase, ReadVerify, ReadReply, EraseCmd, Prom, VerifyCmd, End,
         EndStep, EndErase, EndProgram, PowerLoss
  <2>2. QED
    BY <1>3, <2>1 DEF Executing
<1>4. QED
  BY <1>1, <1>2, <1>3

\* Only END makes an image ready to be installed, and only the programming of
\* the flag or a failure of the supply takes it back.
LEMMA ReadyStep ==
  ASSUME Next, ~EndProgram, ~Failure, ~End
  PROVE  Ready' = Ready
BY DEF Ready, Failure, LoaderStep, Boot, CopyErase, CopyProgram, SwitchToAErase, SwitchToAProgram,
   DestroyBackup, AppOnly, hostVars, Next, EraseStep, EraseEvent, HostStep, Connect, Disconnect,
   Info, ReadInfo, ReadErase, ReadVerify, ReadReply, EraseCmd, Prom, VerifyCmd, EndStep, EndErase

\* The scheme implements AtomicUpdate: every flash and RAM operation of the
\* loader and of the application is a stuttering step of it, except the jump to
\* the application (Boot), CMD_IAP_END for the image verified in B (Accept), the
\* programming of IMAGE_IAP_FLAG (Install) and the failure of the supply
\* (PowerLoss).
THEOREM Refinement == ASSUME ~EraseOutlivesLink PROVE Spec => ImplementsAtomicUpdate
<1> USE DEF AU!Init, AU!Next, AU!Boot, AU!Accept, AU!Install, AU!PowerLoss, AU!vars
<1>1. Init => AU!Init
  <2> SUFFICES ASSUME Init PROVE AU!Init
    OBVIOUS
  <2>1. VersionIn(Selected) \in Versions
    BY InitInv, SelectedVersion DEF Inv
  <2>2. ~Running /\ cpu = "off"
    BY DEF Init, Running, AppStates
  <2>3. QED
    BY <2>1, <2>2
<1>2. Inv /\ [Next]_vars => [AU!Next]_AU!vars
  <2>1. ASSUME Inv, Next, EndProgram
        PROVE  AU!Install
    <3>1. /\ cpu = "endProgram" /\ cpu' = "off" /\ Selected' = imgB
          /\ hVer \in Versions /\ Holds(imgB, hVer)
      BY <2>1 DEF EndProgram, Selected, Inv, VerifyInv, TypeOK
    <3>2. VersionIn(Selected') = hVer
      BY <3>1, VersionInHeld
    <3>3. Installed' = hVer /\ Ready = {hVer} /\ Ready' = {} /\ Executing' = NotRunning
      BY <3>1, <3>2 DEF Installed, Selected, Ready, Executing, Running, AppStates
    <3>4. QED
      BY <3>3 DEF Installed, Ready, Executing
  <2>2. ASSUME Inv, Next, ~EndProgram
        PROVE  AU!Next \/ UNCHANGED AU!vars
    <3>1. Installed' = Installed
      BY <2>2, SelectedKept DEF Installed
    <3>2. CASE Failure
      <4>1. Executing' = NotRunning /\ Ready' = {}
        BY <3>2 DEF Failure, PowerLoss, Executing, Running, AppStates, Ready
      <4>2. AU!PowerLoss
        BY <3>1, <4>1 DEF Installed, Executing, Ready
      <4> QED
        BY <4>2
    <3>3. CASE End
      <4>1. /\ cpu = "app" /\ cpu' = "endErase" /\ imgA' = imgA
            /\ hVer' = hVer /\ hVer \in Versions
        BY <2>2, <3>3 DEF End, flash, Inv, TypeOK
      <4>2. Executing' = Executing /\ Ready = {} /\ Ready' = {hVer}
        BY <4>1 DEF Executing, Running, AppStates, Ready
      <4>3. AU!Accept(hVer)
        BY <3>1, <4>2 DEF Installed, Executing, Ready
      <4> QED
        BY <4>1, <4>3
    <3>4. CASE ~Failure /\ ~End
      <4>1. Ready' = Ready
        BY <2>2, <3>4, ReadyStep
      <4>2. AU!Boot \/ UNCHANGED AU!vars
        BY <2>2, <3>1, <3>4, <4>1, ExecutingStep DEF Installed, Executing, Ready
      <4> QED
        BY <4>2
    <3> QED
      BY <3>2, <3>3, <3>4
  <2>3. ASSUME UNCHANGED vars
        PROVE  UNCHANGED AU!vars
    BY <2>3 DEF vars, flash, hostVars, Selected, Running, VersionIn, Holds
  <2>4. QED
    BY <2>1, <2>2, <2>3
<1>3. QED
  BY <1>1, <1>2, Invariance, PTL DEF Spec, AU!Spec, ImplementsAtomicUpdate

-----------------------------------------------------------------------------
(* Sessions: what PROM and VERIFY meet in image B, and what they leave there *)

\* The pages of B from page p up to the end of what was asked to be erased.
ErasedFrom(p) ==
  \A a \in Addr : a[1] < EraseBlockNum /\ a[1] * BlockPages + a[2] >= p
                    => imgB[a] = Erased

\* The image being sent fits into what was asked to be erased.
Covered == SizeOf[hVer] <= EraseBlockNum * BlockPages * PageUnits

\* The units of the image that are in B or in block_buf.
Stored == prom_addr.page * PageUnits + Len(block_buf)

\* A page will be programmed from block_buf.
Sending == host = "prom" \/ (host = "verify" /\ block_buf # <<>>)

\* What ERASE and PROM have prepared for the next page: the cursor follows the
\* host, and from there on everything is erased.
CursorInv ==
  /\ host = "eraseWait" /\ readBuf # "bad" =>
       /\ prom_addr = StartOfB /\ block_buf = <<>> /\ hPos = 0 /\ Covered
       /\ \A a \in Addr : a[1] < EraseBlockCnt => imgB[a] = Erased
       /\ readBuf = "ok" => EraseBlockCnt >= EraseBlockNum
  /\ Sending => prom_addr.image = "B" /\ Covered /\ ErasedFrom(prom_addr.page)
  /\ host = "prom" => Stored = hPos /\ hPos < SizeOf[hVer]
  /\ host = "verify" /\ block_buf # <<>> => Stored = SizeOf[hVer]

\* The first n units of the image being sent are in B.
InFlash(n) == \A k \in 0 .. n - 1 : imgB[AddrOf(k)] = Data(hVer, AddrOf(k))

\* What follows them is in block_buf.
InBuffer ==
  \A j \in 1 .. Len(block_buf) :
    block_buf[j] = Data(hVer, AddrOf(prom_addr.page * PageUnits + j - 1))

\* Where B takes what is written, no unit is lost, repeated or misplaced.
StoredInv ==
  ~stagingFaults =>
    /\ VerifyStatus = "ok"
    /\ Sending => InFlash(prom_addr.page * PageUnits) /\ InBuffer
    /\ host = "verify" /\ block_buf = <<>> => InFlash(SizeOf[hVer])

SessionInv == CursorInv /\ StoredInv

\* What the lemmas below need to know of numbers.
LEMMA Counts ==
  ASSUME TypeOK
  PROVE  /\ prom_addr.page \in Nat /\ prom_addr.page * PageUnits \in Nat
         /\ Len(block_buf) \in Nat /\ Len(block_buf) < PageUnits
         /\ block_buf # <<>> => Len(block_buf) > 0
         /\ hPos \in Nat /\ SizeOf[hVer] \in 1 .. TotalUnits
         /\ SizeOf[hVer] \in Nat /\ TotalUnits \in Nat
         /\ EraseBlockNum \in Nat /\ EraseBlockCnt \in Nat
         /\ PageUnits \in Nat /\ PageUnits > 0
         /\ BlockPages \in Nat /\ BlockPages > 0
         /\ \A a \in Addr : a[1] \in Nat /\ a[2] \in Nat /\ a[1] * BlockPages \in Nat
<1>1. prom_addr.page \in Nat /\ block_buf \in Seq(Content) /\ hVer \in Versions
  BY DEF TypeOK, FlashAddr
<1>2. prom_addr.page * PageUnits \in Nat
  BY <1>1
<1>3. \A a \in Addr : a[1] \in Nat /\ a[2] \in Nat
  BY AddrParts DEF Blocks, Pages
<1>4. \A a \in Addr : a[1] * BlockPages \in Nat
  BY <1>3
<1>5. SizeOf[hVer] \in 1 .. TotalUnits /\ TotalUnits \in Nat
  BY <1>1, TotalNat
<1> QED
  BY <1>1, <1>2, <1>3, <1>4, <1>5 DEF TypeOK

\* A page that begins before the end of the image was erased.
LEMMA PageErased ==
  ASSUME TypeOK, Covered, ErasedFrom(prom_addr.page),
         prom_addr.page * PageUnits < SizeOf[hVer],
         NEW a \in Addr, a[1] * BlockPages + a[2] = prom_addr.page
  PROVE  imgB[a] = Erased
<1> DEFINE pages == EraseBlockNum * BlockPages
           q == prom_addr.page
<1>1. /\ q \in Nat /\ q * PageUnits \in Nat /\ EraseBlockNum \in Nat /\ SizeOf[hVer] \in Nat
      /\ BlockPages \in Nat /\ BlockPages > 0 /\ PageUnits \in Nat /\ PageUnits > 0
      /\ a[1] \in Nat /\ a[2] \in Nat /\ pages \in Nat
      /\ SizeOf[hVer] <= pages * PageUnits /\ q * PageUnits < SizeOf[hVer]
      /\ a[1] * BlockPages + a[2] = q
  <2>1. pages \in Nat
    <3>1. EraseBlockNum \in Nat /\ BlockPages \in Nat
      BY Counts
    <3> QED
      BY <3>1
  <2>2. SizeOf[hVer] <= pages * PageUnits
    BY DEF Covered
  <2> HIDE DEF pages
  <2> QED
    BY <2>1, <2>2, Counts
<1> HIDE DEF q
<1>2. q < pages
  <2> HIDE DEF pages
  <2>1. pages * PageUnits \in Nat
    BY <1>1
  <2>2. q * PageUnits < pages * PageUnits
    BY <1>1, <2>1
  <2> QED
    BY <1>1, <2>2, SMTT(30)
<1>3. a[1] < EraseBlockNum
  <2>1. a[1] * BlockPages < EraseBlockNum * BlockPages
    BY <1>1, <1>2
  <2> QED
    BY <1>1, <2>1, SMTT(30)
<1> QED
  BY <1>1, <1>3 DEF ErasedFrom, q

\* The page Sending is about to program starts inside the image.
LEMMA NextPageStarts ==
  ASSUME TypeOK, CursorInv, Sending
  PROVE  prom_addr.page * PageUnits < SizeOf[hVer]
<1> DEFINE x == prom_addr.page * PageUnits
<1>1. /\ x \in Nat /\ Len(block_buf) \in Nat /\ hPos \in Nat /\ SizeOf[hVer] \in Nat
      /\ block_buf # <<>> => Len(block_buf) > 0
  BY Counts
<1>2. \/ x + Len(block_buf) = hPos /\ hPos < SizeOf[hVer]
      \/ x + Len(block_buf) = SizeOf[hVer] /\ block_buf # <<>>
  BY DEF CursorInv, Sending, Stored
<1> HIDE DEF x
<1>3. x < SizeOf[hVer]
  BY <1>1, <1>2
<1> QED
  BY <1>3 DEF x

\* So the next page to be programmed is a page of B, and erased.
LEMMA CursorIsSound == TypeOK /\ CursorInv => NextPageErased
<1> SUFFICES ASSUME TypeOK, CursorInv, Sending
             PROVE  /\ prom_addr.image = "B"
                    /\ \A a \in Addr : a[1] * BlockPages + a[2] = prom_addr.page
                                         => imgB[a] = Erased
  BY DEF NextPageErased, Sending
<1>1. prom_addr.image = "B" /\ Covered /\ ErasedFrom(prom_addr.page)
  BY DEF CursorInv
<1> QED
  BY <1>1, NextPageStarts, PageErased

\* What a programming operation does to B: it reaches the page of the cursor and
\* no other, and a good one leaves the data there.
LEMMA StageEffect ==
  ASSUME TypeOK, CursorInv, Sending, NEW fault \in BOOLEAN, NEW data,
         StagePage(fault, data)
  PROVE  /\ \A a \in Addr : a[1] * BlockPages + a[2] # prom_addr.page
                              => imgB'[a] = imgB[a]
         /\ ~fault => \A a \in Addr : a[1] * BlockPages + a[2] = prom_addr.page
                                        => imgB'[a] = data[a[3]]
<1> DEFINE b == prom_addr.page \div BlockPages
           p == prom_addr.page % BlockPages
<1>1. /\ b \in Nat /\ p \in Nat /\ p < BlockPages
      /\ BlockPages * b + p = prom_addr.page /\ prom_addr.page \in Nat
      /\ BlockPages \in Nat
  BY PageOf, Counts
<1>2. prom_addr.image = "B" /\ Covered /\ ErasedFrom(prom_addr.page)
  BY DEF CursorInv
<1>3. \/ ~(prom_addr.page < NBlocks * BlockPages) /\ imgB' = imgB
      \/ fault /\ imgB' = TornPage(imgB, b, p)
      \/ ~fault /\ imgB' = ProgramPage(imgB, b, p, data)
  BY <1>2 DEF StagePage
<1> HIDE DEF b, p
<1>4. \A a \in Addr : a[1] * BlockPages + a[2] # prom_addr.page => ~(a[1] = b /\ a[2] = p)
  BY <1>1
<1>5. ASSUME NEW a \in Addr, a[1] * BlockPages + a[2] = prom_addr.page
      PROVE  a[1] = b /\ a[2] = p /\ prom_addr.page < NBlocks * BlockPages
  <2>1. /\ a[1] \in Nat /\ a[2] \in Nat /\ a[1] < NBlocks /\ a[2] < BlockPages
    BY AddrParts DEF Blocks, Pages
  <2>2. BlockPages * a[1] + a[2] = prom_addr.page
    BY <1>1, <1>5, <2>1
  <2>3. prom_addr.page \div BlockPages = a[1] /\ prom_addr.page % BlockPages = a[2]
    <3>1. /\ (BlockPages * a[1] + a[2]) \div BlockPages = a[1]
          /\ (BlockPages * a[1] + a[2]) % BlockPages = a[2]
      <4>1. \A q, r \in Nat : r < BlockPages =>
               /\ (BlockPages * q + r) \div BlockPages = q
               /\ (BlockPages * q + r) % BlockPages = r
        <5>1. BlockPages \in Nat /\ BlockPages > 0
          OBVIOUS
        <5> QED
          BY <5>1, Division
      <4> QED
        BY <2>1, <4>1
    <3> QED
      BY <2>2, <3>1
  <2>4. (a[1] + 1) * BlockPages <= NBlocks * BlockPages
    BY <1>1, <2>1, SMTT(30)
  <2>5. prom_addr.page < NBlocks * BlockPages
    BY <1>1, <1>5, <2>1, <2>4, SMTT(30)
  <2> QED
    BY <2>3, <2>5 DEF b, p
<1>6. \A a \in Addr : a[1] * BlockPages + a[2] = prom_addr.page => imgB[a] = Erased
  BY CursorIsSound DEF NextPageErased, Sending
<1>7. \A a \in Addr : a[1] * BlockPages + a[2] # prom_addr.page => imgB'[a] = imgB[a]
  BY <1>3, <1>4 DEF TornPage, ProgramPage
<1>8. ASSUME ~fault, NEW a \in Addr, a[1] * BlockPages + a[2] = prom_addr.page
      PROVE  imgB'[a] = data[a[3]]
  BY <1>3, <1>5, <1>6, <1>8 DEF ProgramPage
<1> QED
  BY <1>7, <1>8

\* Unit `off' of page `n' is on page `n'.
LEMMA PageOfUnit ==
  ASSUME NEW n \in Nat, NEW off \in Offsets, NEW a, a = AddrOf(n * PageUnits + off)
  PROVE  a[1] * BlockPages + a[2] = n /\ a[3] = off
<1>1. a = <<n \div BlockPages, n % BlockPages, off>>
  BY AddrAt
<1>2. /\ n \div BlockPages \in Nat
      /\ BlockPages * (n \div BlockPages) + (n % BlockPages) = n
  BY PageOf
<1>3. BlockPages * (n \div BlockPages) = (n \div BlockPages) * BlockPages
  BY <1>2
<1> QED
  BY <1>1, <1>2, <1>3

\* A good programming operation with the next m units of the image.
LEMMA StageStores ==
  ASSUME TypeOK, CursorInv, Sending, NEW data, StagePage(FALSE, data),
         InFlash(prom_addr.page * PageUnits),
         NEW m \in 0 .. PageUnits, prom_addr.page * PageUnits + m <= SizeOf[hVer],
         \A off \in Offsets : off < m =>
           data[off] = Data(hVer, AddrOf(prom_addr.page * PageUnits + off))
  PROVE  \A k \in 0 .. prom_addr.page * PageUnits + m - 1 :
           imgB'[AddrOf(k)] = Data(hVer, AddrOf(k))
<1> DEFINE q == prom_addr.page
           x == q * PageUnits
<1> SUFFICES ASSUME NEW k \in 0 .. x + m - 1
             PROVE  imgB'[AddrOf(k)] = Data(hVer, AddrOf(k))
  OBVIOUS
<1>1. /\ q \in Nat /\ x \in Nat /\ m \in Nat /\ m <= PageUnits
      /\ SizeOf[hVer] \in 1 .. TotalUnits /\ TotalUnits \in Nat /\ x + m <= SizeOf[hVer]
      /\ PageUnits \in Nat /\ PageUnits > 0
  BY Counts
<1>2. k \in Nat /\ k < x + m
  BY <1>1
<1>3. AddrOf(k) \in Addr
  <2>1. k \in 0 .. TotalUnits - 1
    BY <1>1, <1>2
  <2> QED
    BY <2>1, AddrOfType
<1>4. PICK n \in Nat, off \in Offsets : k = n * PageUnits + off
  BY <1>2, UnitOf
<1>5. /\ AddrOf(k)[1] * BlockPages + AddrOf(k)[2] = n /\ AddrOf(k)[3] = off
  BY <1>4, PageOfUnit
<1>6. off \in Nat /\ off < PageUnits
  BY <1>1 DEF Offsets
<1>7. CASE k < x
  <2>1. n # q
    BY <1>1, <1>4, <1>6, <1>7
  <2>2. imgB'[AddrOf(k)] = imgB[AddrOf(k)]
    BY <1>3, <1>5, <2>1, StageEffect
  <2>3. k \in 0 .. x - 1
    BY <1>1, <1>2, <1>7
  <2> QED
    BY <2>2, <2>3 DEF InFlash
<1>8. CASE ~(k < x)
  <2>1. n = q
    <3>1. ~(n < q)
      <4>1. n < q => (n + 1) * PageUnits <= q * PageUnits
        BY <1>1, SMTT(30)
      <4>2. (n + 1) * PageUnits = n * PageUnits + PageUnits
        BY <1>1
      <4>3. n * PageUnits \in Nat
        BY <1>1
      <4> QED
        BY <1>1, <1>4, <1>6, <1>8, <4>1, <4>2, <4>3
    <3>2. ~(q < n)
      <4>1. q < n => (q + 1) * PageUnits <= n * PageUnits
        BY <1>1, SMTT(30)
      <4>2. (q + 1) * PageUnits = q * PageUnits + PageUnits
        BY <1>1
      <4>3. n * PageUnits \in Nat
        BY <1>1
      <4> QED
        BY <1>1, <1>2, <1>4, <1>6, <4>1, <4>2, <4>3
    <3> QED
      BY <1>1, <3>1, <3>2
  <2>2. k = x + off /\ off < m
    BY <1>1, <1>2, <1>4, <1>6, <2>1
  <2>3. imgB'[AddrOf(k)] = data[off]
    <3>1. \A a \in Addr : a[1] * BlockPages + a[2] = q => imgB'[a] = data[a[3]]
      BY StageEffect
    <3> QED
      BY <1>3, <1>5, <2>1, <3>1
  <2> QED
    BY <2>2, <2>3
<1> QED
  BY <1>7, <1>8

\* What PROM makes of block_buf before it looks whether a page is full.
Collects(buf, n) ==
  /\ Len(buf) = Len(block_buf) + n
  /\ InBuffer => \A j \in 1 .. Len(buf) :
       buf[j] = Data(hVer, AddrOf(prom_addr.page * PageUnits + j - 1))
  /\ Len(buf) >= PageUnits =>
       /\ Len(SubSeq(buf, PageUnits + 1, Len(buf))) = Len(buf) - PageUnits
       /\ \A j \in 1 .. Len(buf) - PageUnits :
            SubSeq(buf, PageUnits + 1, Len(buf))[j] = buf[PageUnits + j]

LEMMA Collected ==
  ASSUME TypeOK, CursorInv, host = "prom", NEW n \in 1 .. ChunkMax,
         hPos + n <= SizeOf[hVer], NEW buf, buf = block_buf \o Chunk(n)
  PROVE  Collects(buf, n)
<1> DEFINE chunk == Chunk(n)
           got == Len(block_buf)
           x == prom_addr.page * PageUnits
<1>1. /\ x \in Nat /\ got \in Nat /\ hPos \in Nat /\ SizeOf[hVer] \in Nat
      /\ PageUnits \in Nat /\ PageUnits > 0
  BY Counts
<1>2. n \in Nat /\ n > 0
  OBVIOUS
<1>3. x + got = hPos
  BY DEF CursorInv, Stored
<1>4. block_buf \in Seq(Content)
  BY DEF TypeOK
<1> DEFINE All == Content \cup {Data(hVer, AddrOf(hPos + j - 1)) : j \in 1 .. n}
<1>5. /\ chunk \in [1 .. n -> All]
      /\ \A j \in 1 .. n : chunk[j] = Data(hVer, AddrOf(hPos + j - 1))
  BY DEF Chunk
<1>6. block_buf \in Seq(All) /\ buf = block_buf \o chunk
  <2>1. Content \subseteq All
    OBVIOUS
  <2> HIDE DEF All
  <2> QED
    BY <1>4, <2>1
<1> HIDE DEF chunk, All
<1>10. chunk \in Seq(All) /\ Len(chunk) = n
  BY <1>2, <1>5
<1>7. /\ buf \in Seq(All) /\ Len(buf) = got + n
      /\ \A j \in 1 .. Len(buf) :
           buf[j] = IF j <= got THEN block_buf[j] ELSE chunk[j - got]
  <2>1. /\ block_buf \o chunk \in Seq(All)
        /\ Len(block_buf \o chunk) = Len(block_buf) + Len(chunk)
        /\ \A j \in 1 .. Len(block_buf) + Len(chunk) :
             (block_buf \o chunk)[j] =
               IF j <= Len(block_buf) THEN block_buf[j] ELSE chunk[j - Len(block_buf)]
    BY <1>6, <1>10, ConcatProperties
  <2> QED
    BY <1>6, <1>10, <2>1
<1>8. ASSUME InBuffer, NEW j \in 1 .. Len(buf)
      PROVE  buf[j] = Data(hVer, AddrOf(x + j - 1))
  <2>1. CASE j <= got
    <3>1. j \in 1 .. got
      BY <1>1, <2>1
    <3> QED
      BY <1>7, <1>8, <2>1, <3>1 DEF InBuffer
  <2>2. CASE ~(j <= got)
    <3>1. j - got \in 1 .. n /\ hPos + (j - got) - 1 = x + j - 1
      <4>1. j \in Nat /\ j <= got + n
        BY <1>1, <1>2, <1>7
      <4> HIDE DEF got, x
      <4> QED
        BY <1>1, <1>2, <1>3, <2>2, <4>1
    <3>2. buf[j] = chunk[j - got]
      BY <1>7, <2>2
    <3> QED
      BY <1>5, <3>1, <3>2
  <2> QED
    BY <2>1, <2>2
<1>9. ASSUME Len(buf) >= PageUnits
      PROVE  /\ Len(SubSeq(buf, PageUnits + 1, Len(buf))) = Len(buf) - PageUnits
             /\ \A j \in 1 .. Len(buf) - PageUnits :
                  SubSeq(buf, PageUnits + 1, Len(buf))[j] = buf[PageUnits + j]
  <2>1. buf \in Seq(All) /\ Len(buf) \in Nat /\ PageUnits + 1 \in 1 .. Len(buf) + 1
    BY <1>1, <1>2, <1>7, <1>9
  <2> DEFINE rest == SubSeq(buf, PageUnits + 1, Len(buf))
  <2>2. /\ PageUnits + 1 \in Int /\ Len(buf) \in Int
        /\ \A i \in PageUnits + 1 .. Len(buf) : buf[i] \in All
    BY <1>1, <2>1
  <2>3. /\ Len(rest) = IF PageUnits + 1 <= Len(buf) THEN Len(buf) - (PageUnits + 1) + 1 ELSE 0
        /\ \A j \in 1 .. Len(buf) - (PageUnits + 1) + 1 :
             rest[j] = buf[PageUnits + 1 + j - 1]
    BY <2>2, SubSeqProperties
  <2> HIDE DEF rest
  <2>4. Len(rest) = Len(buf) - PageUnits
    <3> DEFINE all  == Len(buf)
               left == Len(rest)
    <3>1. /\ all \in Nat /\ PageUnits \in Nat /\ all >= PageUnits
          /\ left = IF PageUnits + 1 <= all THEN all - (PageUnits + 1) + 1 ELSE 0
      BY <1>1, <1>9, <2>1, <2>3
    <3> HIDE DEF all, left
    <3>2. left = all - PageUnits
      BY <3>1
    <3> QED
      BY <3>2 DEF all, left
  <2>5. ASSUME NEW j \in 1 .. Len(buf) - PageUnits
        PROVE  rest[j] = buf[PageUnits + j]
    <3>1. /\ PageUnits + 1 + j - 1 = PageUnits + j
          /\ Len(buf) - (PageUnits + 1) + 1 = Len(buf) - PageUnits
      BY <1>1, <2>1
    <3> QED
      BY <2>3, <3>1
  <2> QED
    BY <2>4, <2>5 DEF rest
<1> QED
  BY <1>7, <1>8, <1>9 DEF Collects

LEMMA PromSession ==
  ASSUME TypeOK, SessionInv, NEW n \in 1 .. ChunkMax, NEW fault \in Faults, Prom(n, fault)
  PROVE  SessionInv'
<1> DEFINE q == prom_addr.page
           x == q * PageUnits
           got == Len(block_buf)
<1>1. PICK buf : buf = block_buf \o Chunk(n)
  OBVIOUS
<1>2. /\ host = "prom" /\ hPos + n <= SizeOf[hVer] /\ Advance(n, "prom", "verify")
      /\ UNCHANGED <<hVer, EraseBlockNum, VerifyStatus, stagingFaults>>
  BY DEF Prom, AppOnly
<1>3. /\ q \in Nat /\ x \in Nat /\ got \in Nat /\ hPos \in Nat /\ n \in Nat
      /\ SizeOf[hVer] \in Nat /\ PageUnits \in Nat /\ PageUnits > 0
  BY Counts
<1>4. /\ CursorInv /\ Sending /\ prom_addr.image = "B" /\ Covered /\ ErasedFrom(q)
      /\ x + got = hPos
  BY <1>2 DEF SessionInv, CursorInv, Sending, Stored
<1>5. /\ Len(buf) = got + n
      /\ InBuffer => \A j \in 1 .. Len(buf) : buf[j] = Data(hVer, AddrOf(x + j - 1))
      /\ Len(buf) >= PageUnits =>
           /\ Len(SubSeq(buf, PageUnits + 1, Len(buf))) = Len(buf) - PageUnits
           /\ \A j \in 1 .. Len(buf) - PageUnits :
                SubSeq(buf, PageUnits + 1, Len(buf))[j] = buf[PageUnits + j]
  <2>1. CursorInv /\ host = "prom" /\ hPos + n <= SizeOf[hVer]
    BY <1>2, <1>4
  <2>2. Collects(buf, n)
    BY <1>1, <2>1, Collected
  <2> QED
    BY <2>2 DEF Collects
<1>6. fault \in BOOLEAN /\ (~stagingFaults => ~fault)
  BY DEF Faults
<1>7. /\ prom_addr'.image = "B" /\ prom_addr'.page \in Nat
      /\ prom_addr'.page * PageUnits + Len(block_buf') = hPos + n
      /\ ErasedFrom(prom_addr.page)'
      /\ ~stagingFaults => (InFlash(prom_addr.page * PageUnits) /\ InBuffer)'
  <2>1. CASE Len(buf) >= PageUnits
    <3> DEFINE data == [o \in Offsets |-> buf[o + 1]]
               rest == SubSeq(buf, PageUnits + 1, Len(buf))
               x1   == prom_addr'.page * PageUnits
    <3>1. /\ StagePage(fault, data) /\ block_buf' = rest
          /\ prom_addr' = [prom_addr EXCEPT !.page = @ + 1]
      BY <1>1, <2>1 DEF Prom
    <3>2. prom_addr'.page = q + 1 /\ prom_addr'.image = "B"
      BY <1>4, <3>1 DEF TypeOK, FlashAddr
    <3>3. x1 = x + PageUnits
      BY <1>3, <3>2
    <3>4. Len(rest) = got + n - PageUnits
      BY <1>5, <2>1
    <3>5. x1 + Len(block_buf') = hPos + n
      <4> DEFINE left == Len(rest)
      <4>1. left = got + n - PageUnits
        BY <3>4
      <4> HIDE DEF left, x, x1, got
      <4>2. x1 + left = hPos + n
        BY <1>3, <1>4, <3>3, <4>1
      <4> QED
        BY <3>1, <4>2 DEF left
    <3>6. ErasedFrom(prom_addr.page)'
      <4> SUFFICES ASSUME NEW a \in Addr, a[1] < EraseBlockNum,
                          a[1] * BlockPages + a[2] >= q + 1
                   PROVE  imgB'[a] = Erased
        BY <1>2, <3>2 DEF ErasedFrom
      <4>1. a[1] * BlockPages + a[2] \in Nat
        <5>1. a[1] * BlockPages \in Nat /\ a[2] \in Nat
          BY Counts
        <5> QED
          BY <5>1
      <4>2. a[1] * BlockPages + a[2] >= q /\ a[1] * BlockPages + a[2] # q
        BY <1>3, <4>1
      <4>3. imgB'[a] = imgB[a]
        BY <1>4, <1>6, <3>1, <4>2, StageEffect
      <4> QED
        BY <1>4, <4>2, <4>3 DEF ErasedFrom
    <3>7. ASSUME ~stagingFaults
          PROVE  (InFlash(prom_addr.page * PageUnits) /\ InBuffer)'
      <4>1. InFlash(x) /\ InBuffer /\ fault = FALSE
        BY <1>4, <1>6, <3>7 DEF SessionInv, StoredInv
      <4>2. \A j \in 1 .. Len(buf) : buf[j] = Data(hVer, AddrOf(x + j - 1))
        BY <1>5, <4>1
      <4>3. \A off \in Offsets : off < PageUnits => data[off] = Data(hVer, AddrOf(x + off))
        <5> SUFFICES ASSUME NEW off \in Offsets
                     PROVE  buf[off + 1] = Data(hVer, AddrOf(x + off))
          OBVIOUS
        <5>1. off \in Nat /\ off < PageUnits
          BY <1>3 DEF Offsets
        <5>2. off + 1 \in 1 .. Len(buf) /\ x + (off + 1) - 1 = x + off
          BY <1>3, <1>5, <2>1, <5>1
        <5> QED
          BY <4>2, <5>2
      <4>4. x + PageUnits <= SizeOf[hVer] /\ PageUnits \in 0 .. PageUnits
        <5>1. Len(buf) = got + n /\ Len(buf) >= PageUnits
          BY <1>5, <2>1
        <5> HIDE DEF x, got
        <5> QED
          BY <1>2, <1>3, <1>4, <5>1
      <4>5. \A k \in 0 .. x + PageUnits - 1 : imgB'[AddrOf(k)] = Data(hVer, AddrOf(k))
        <5> HIDE DEF data
        <5> QED
          BY <1>4, <3>1, <4>1, <4>3, <4>4, StageStores
      <4>6. InFlash(prom_addr.page * PageUnits)'
        <5>1. hVer' = hVer /\ (prom_addr.page * PageUnits)' = x + PageUnits
          BY <1>2, <3>3
        <5> HIDE DEF x
        <5> QED
          BY <1>3, <4>5, <5>1 DEF InFlash
      <4>7. InBuffer'
        <5> SUFFICES ASSUME NEW j \in 1 .. Len(rest)
                     PROVE  rest[j] = Data(hVer, AddrOf(x1 + j - 1))
          BY <1>2, <3>1 DEF InBuffer
        <5>1. j \in 1 .. Len(buf) - PageUnits
          BY <1>5, <2>1
        <5>2. rest[j] = buf[PageUnits + j]
          BY <1>5, <2>1, <5>1
        <5>3. PageUnits + j \in 1 .. Len(buf) /\ x + (PageUnits + j) - 1 = x1 + j - 1
          <6> HIDE DEF x, x1, got, rest
          <6>1. Len(buf) \in Nat /\ j \in Nat /\ j > 0 /\ j <= Len(buf) - PageUnits
            BY <1>3, <1>5, <5>1
          <6> QED
            BY <1>3, <3>3, <6>1
        <5> QED
          BY <4>2, <5>2, <5>3
      <4> QED
        BY <4>6, <4>7
    <3> QED
      BY <1>3, <3>2, <3>5, <3>6, <3>7
  <2>2. CASE ~(Len(buf) >= PageUnits)
    <3>1. block_buf' = buf /\ UNCHANGED <<imgB, prom_addr>>
      BY <1>1, <2>2 DEF Prom
    <3>2. x + Len(buf) = hPos + n
      <4> DEFINE all == Len(buf)
      <4> HIDE DEF all, x, got
      <4>1. x + all = hPos + n
        BY <1>3, <1>4, <1>5 DEF all
      <4> QED
        BY <4>1 DEF all
    <3>3. ErasedFrom(prom_addr.page)'
      BY <1>2, <1>4, <3>1 DEF ErasedFrom
    <3>4. ASSUME ~stagingFaults
          PROVE  (InFlash(prom_addr.page * PageUnits) /\ InBuffer)'
      <4>1. InFlash(x) /\ InBuffer
        BY <1>4, <3>4 DEF SessionInv, StoredInv
      <4>2. InFlash(prom_addr.page * PageUnits)'
        BY <1>2, <3>1, <4>1 DEF InFlash
      <4>3. InBuffer'
        BY <1>2, <1>5, <3>1, <4>1 DEF InBuffer
      <4> QED
        BY <4>2, <4>3
    <3> QED
      BY <1>3, <1>4, <3>1, <3>2, <3>3, <3>4
  <2> QED
    BY <2>1, <2>2
<1>8. Covered' /\ SizeOf[hVer]' = SizeOf[hVer] /\ stagingFaults' = stagingFaults
  BY <1>2, <1>4 DEF Covered
<1>9. ~stagingFaults => VerifyStatus' = "ok"
  BY <1>2 DEF SessionInv, StoredInv
<1> HIDE DEF x, q, got
<1>10. CASE hPos + n < SizeOf[hVer]
  <2>1. host' = "prom" /\ hPos' = hPos + n
    BY <1>2, <1>10 DEF Advance
  <2>2. CursorInv'
    BY <1>7, <1>8, <1>10, <2>1 DEF CursorInv, Stored
  <2>3. StoredInv'
    BY <1>7, <1>8, <1>9, <2>1 DEF StoredInv
  <2> QED
    BY <2>2, <2>3 DEF SessionInv
<1>11. CASE ~(hPos + n < SizeOf[hVer])
  <2>1. host' = "verify" /\ hPos + n = SizeOf[hVer]
    BY <1>2, <1>3, <1>11 DEF Advance
  <2>2. CursorInv'
    BY <1>7, <1>8, <2>1 DEF CursorInv, Stored
  <2>3. ASSUME ~stagingFaults, block_buf' = <<>>
        PROVE  InFlash(SizeOf[hVer])'
    <3>1. prom_addr'.page * PageUnits + 0 = SizeOf[hVer]'
      BY <1>7, <1>8, <2>1, <2>3
    <3>2. prom_addr'.page * PageUnits \in Nat
      BY <1>3, <1>7
    <3>3. prom_addr'.page * PageUnits = SizeOf[hVer]'
      BY <3>1, <3>2
    <3>4. InFlash(prom_addr.page * PageUnits)'
      BY <1>7, <2>3
    <3> QED
      BY <3>3, <3>4 DEF InFlash
  <2>4. StoredInv'
    BY <1>7, <1>8, <1>9, <2>1, <2>3 DEF StoredInv
  <2> QED
    BY <2>2, <2>4 DEF SessionInv
<1> QED
  BY <1>10, <1>11

LEMMA VerifySession ==
  ASSUME TypeOK, VerifyInv, SessionInv,
         NEW n \in 1 .. ChunkMax, NEW fault \in Faults, VerifyCmd(n, fault)
  PROVE  SessionInv'
<1> DEFINE x == prom_addr.page * PageUnits
           got == Len(block_buf)
<1>1. /\ host = "verify" /\ hPos + n <= SizeOf[hVer]
      /\ host' \in {"verify", "verifyWait"} /\ block_buf' = <<>>
      /\ UNCHANGED <<hVer, stagingFaults>>
  BY DEF VerifyCmd, Advance, AppOnly
<1>2. CursorInv'
  BY <1>1 DEF CursorInv, Sending
<1>3. ASSUME ~stagingFaults
      PROVE  \A k \in 0 .. SizeOf[hVer] - 1 : imgB'[AddrOf(k)] = Data(hVer, AddrOf(k))
  <2>1. CASE block_buf = <<>>
    <3>1. imgB' = imgB
      BY <2>1 DEF VerifyCmd
    <3>2. InFlash(SizeOf[hVer])
      BY <1>1, <1>3, <2>1 DEF SessionInv, StoredInv
    <3> QED
      BY <3>1, <3>2 DEF InFlash
  <2>2. CASE block_buf # <<>>
    <3> DEFINE data == [o \in Offsets |->
                          IF o < Len(block_buf) THEN block_buf[o + 1] ELSE Junk]
    <3>1. StagePage(FALSE, data)
      <4>1. fault = FALSE
        BY <1>3 DEF Faults
      <4> QED
        BY <2>2, <4>1 DEF VerifyCmd
    <3>2. CursorInv /\ Sending /\ InFlash(x) /\ InBuffer /\ x + got = SizeOf[hVer]
      BY <1>1, <1>3, <2>2 DEF SessionInv, StoredInv, CursorInv, Sending, Stored
    <3>3. /\ x \in Nat /\ got \in Nat /\ got < PageUnits /\ PageUnits \in Nat
          /\ SizeOf[hVer] \in Nat
      BY Counts
    <3>4. got \in 0 .. PageUnits /\ x + got <= SizeOf[hVer]
      BY <3>2, <3>3
    <3>5. \A off \in Offsets : off < got => data[off] = Data(hVer, AddrOf(x + off))
      <4> SUFFICES ASSUME NEW off \in Offsets, off < got
                   PROVE  block_buf[off + 1] = Data(hVer, AddrOf(x + off))
        OBVIOUS
      <4>1. off \in Nat
        BY DEF Offsets
      <4>2. off + 1 \in 1 .. got /\ x + (off + 1) - 1 = x + off
        <5> HIDE DEF x, got
        <5> QED
          BY <3>3, <4>1
      <4> QED
        BY <3>2, <4>2 DEF InBuffer
    <3>6. \A k \in 0 .. x + got - 1 : imgB'[AddrOf(k)] = Data(hVer, AddrOf(k))
      <4> HIDE DEF data
      <4> QED
        BY <3>1, <3>2, <3>4, <3>5, StageStores
    <3>7. x + got = SizeOf[hVer]
      BY <3>2
    <3> HIDE DEF x, got
    <3> QED
      BY <3>3, <3>6, <3>7
  <2> QED
    BY <2>1, <2>2
<1>4. ASSUME ~stagingFaults
      PROVE  VerifyStatus' = "ok"
  <2>1. /\ hPos \in Nat /\ n \in Nat /\ SizeOf[hVer] \in Nat
    BY Counts
  <2>2. \A k \in hPos .. hPos + n - 1 : imgB'[AddrOf(k)] = Data(hVer, AddrOf(k))
    <3> SUFFICES ASSUME NEW k \in hPos .. hPos + n - 1
                 PROVE  imgB'[AddrOf(k)] = Data(hVer, AddrOf(k))
      OBVIOUS
    <3>1. k \in 0 .. SizeOf[hVer] - 1
      BY <1>1, <2>1
    <3> QED
      BY <1>3, <1>4, <3>1
  <2>3. VerifyStatus = "ok"
    BY <1>4 DEF SessionInv, StoredInv
  <2> QED
    BY <2>2, <2>3 DEF VerifyCmd
<1>5. ~stagingFaults => InFlash(SizeOf[hVer])'
  BY <1>1, <1>3 DEF InFlash
<1>6. StoredInv'
  BY <1>1, <1>4, <1>5 DEF StoredInv, Sending
<1> QED
  BY <1>2, <1>6 DEF SessionInv

LEMMA EraseSession ==
  ASSUME Inv, SessionInv, NEW status \in {"ok", "bad"}, EraseEvent(status)
  PROVE  SessionInv'
<1>1. host \in {"off", "eraseWait"} /\ UNCHANGED <<host, VerifyStatus, stagingFaults>>
  BY DEF EraseEvent, hostVars, AppOnly, Inv, LinkInv
<1>2. StoredInv'
  BY <1>1 DEF SessionInv, StoredInv, Sending
<1>3. CASE host = "off" \/ readBuf' = "bad"
  <2>1. CursorInv'
    BY <1>1, <1>3 DEF CursorInv, Sending
  <2> QED
    BY <1>2, <2>1 DEF SessionInv
<1>4. CASE host = "eraseWait" /\ readBuf' # "bad"
  <2>1. readBuf = "none" /\ status = "ok"
    BY <1>4 DEF EraseEvent, StillErasing, Inv, LinkInv
  <2>2. /\ prom_addr = StartOfB /\ block_buf = <<>> /\ hPos = 0 /\ Covered
        /\ \A a \in Addr : a[1] < EraseBlockCnt => imgB[a] = Erased
    BY <1>4, <2>1 DEF SessionInv, CursorInv
  <2>3. /\ UNCHANGED <<prom_addr, block_buf, hPos, hVer, EraseBlockNum>>
        /\ EraseBlockCnt' = EraseBlockCnt + 1
        /\ imgB' = [a \in Addr |-> IF a[1] = EraseBlockCnt THEN Erased ELSE imgB[a]]
    BY <2>1 DEF EraseEvent, hostVars, EraseBlock
  <2>4. EraseBlockCnt \in Nat /\ EraseBlockNum \in Nat /\ \A a \in Addr : a[1] \in Nat
    BY Counts DEF Inv
  <2>5. \A a \in Addr : a[1] < EraseBlockCnt' => imgB'[a] = Erased
    BY <2>2, <2>3, <2>4
  <2>6. readBuf' = "ok" => EraseBlockCnt' >= EraseBlockNum'
    <3> SUFFICES ASSUME readBuf' = "ok" PROVE EraseBlockCnt + 1 >= EraseBlockNum
      BY <2>3
    <3>1. ~StillErasing(status)
      BY <2>1 DEF EraseEvent
    <3> QED
      BY <2>1, <2>4, <3>1 DEF StillErasing
  <2>7. CursorInv'
    BY <1>1, <1>4, <2>2, <2>3, <2>5, <2>6 DEF CursorInv, Covered, Sending
  <2> QED
    BY <1>2, <2>7 DEF SessionInv
<1> QED
  BY <1>1, <1>3, <1>4

\* PROM begins with everything it will need erased, and nothing sent.
LEMMA ReadEraseSession ==
  ASSUME TypeOK, SessionInv, ReadErase
  PROVE  SessionInv'
<1>1. /\ host = "eraseWait" /\ host' = IF readBuf = "ok" THEN "prom" ELSE "linked"
      /\ UNCHANGED <<imgB, prom_addr, block_buf, EraseBlockNum, hVer, hPos, VerifyStatus,
                     stagingFaults>>
  BY DEF ReadErase, ReadReply, AppOnly
<1>2. CASE readBuf # "ok"
  BY <1>1, <1>2 DEF SessionInv, CursorInv, StoredInv, Sending
<1>3. CASE readBuf = "ok"
  <2>1. /\ prom_addr = StartOfB /\ block_buf = <<>> /\ hPos = 0 /\ Covered
        /\ \A a \in Addr : a[1] < EraseBlockCnt => imgB[a] = Erased
        /\ EraseBlockCnt >= EraseBlockNum
    BY <1>1, <1>3 DEF SessionInv, CursorInv
  <2>2. /\ EraseBlockCnt \in Nat /\ EraseBlockNum \in Nat
        /\ \A a \in Addr : a[1] \in Nat
        /\ 0 < SizeOf[hVer] /\ 0 * PageUnits = 0 /\ 0 * PageUnits + Len(<<>>) = 0
    BY Counts, EmptyBuf
  <2>3. ErasedFrom(prom_addr.page)
    BY <2>1, <2>2 DEF ErasedFrom
  <2>4. prom_addr.image = "B" /\ prom_addr.page = 0 /\ Stored = 0
    BY <2>1, <2>2 DEF Stored, StartOfB
  <2>5. InFlash(prom_addr.page * PageUnits)
    BY <2>2, <2>4 DEF InFlash
  <2>6. InBuffer
    BY <2>1, EmptyBuf DEF InBuffer
  <2>7. CursorInv'
    BY <1>1, <1>3, <2>1, <2>2, <2>3, <2>4 DEF CursorInv, Covered, ErasedFrom, Stored, Sending
  <2>8. StoredInv'
    BY <1>1, <1>3, <2>5, <2>6 DEF SessionInv, StoredInv, InFlash, InBuffer, Sending
  <2> QED
    BY <2>7, <2>8 DEF SessionInv
<1> QED
  BY <1>2, <1>3

LEMMA EraseCmdSession ==
  ASSUME Inv, NEW v \in Versions, NEW n \in EraseRequests, EraseCmd(v, n)
  PROVE  SessionInv'
<1>1. /\ host' = "eraseWait" /\ prom_addr' = StartOfB /\ block_buf' = <<>> /\ hPos' = 0
      /\ VerifyStatus' = "ok" /\ EraseBlockNum' = n /\ EraseBlockCnt' = 0 /\ hVer' = v
      /\ n * BlockPages * PageUnits >= SizeOf[v]
      /\ readBuf' = "none" \/ readBuf' = "bad"
  BY DEF EraseCmd, Inv, LinkInv
<1>2. Covered'
  <2>1. n * BlockPages * PageUnits \in Nat /\ SizeOf[v] \in Nat
    OBVIOUS
  <2> QED
    BY <1>1, <2>1 DEF Covered
<1>3. \A a \in Addr : ~(a[1] < 0)
  BY AddrParts DEF Blocks
<1>4. CursorInv'
  BY <1>1, <1>2, <1>3 DEF CursorInv, Sending
<1>5. StoredInv'
  BY <1>1 DEF StoredInv, Sending
<1> QED
  BY <1>4, <1>5 DEF SessionInv

\* The steps after which no page is about to be programmed, and those that touch nothing of it.
LEMMA OtherSession ==
  ASSUME Inv, SessionInv,
         \/ LoaderStep \/ Connect \/ Disconnect \/ Info \/ ReadInfo \/ ReadVerify
         \/ End \/ EndStep \/ \E torn \in BOOLEAN : PowerLoss(torn)
  PROVE  SessionInv'
<1>1. host' \in {"off", "linked", "infoWait", "ready", "verified"}
  BY DEF Inv, LinkInv, LoaderStep, Boot, CopyErase, CopyProgram, SwitchToAErase, SwitchToAProgram,
     DestroyBackup, Connect, Disconnect, Info, ReadInfo, ReadVerify, ReadReply, End, EndStep,
     EndErase, EndProgram, PowerLoss, ResetRam, hostVars
<1>2. VerifyStatus' \in {VerifyStatus, "ok"} /\ stagingFaults' = stagingFaults
  BY DEF LoaderStep, Boot, CopyErase, CopyProgram, SwitchToAErase, SwitchToAProgram,
     DestroyBackup, Connect, Disconnect, Info, ReadInfo, ReadVerify, ReadReply, End, EndStep,
     EndErase, EndProgram, PowerLoss, ResetRam, ram, AppOnly
<1> QED
  BY <1>1, <1>2 DEF SessionInv, CursorInv, StoredInv, Sending

LEMMA SessionStep == Inv /\ SessionInv /\ [Next]_vars => SessionInv'
<1> SUFFICES ASSUME Inv, SessionInv, [Next]_vars PROVE SessionInv'
  OBVIOUS
<1>1. TypeOK /\ VerifyInv
  BY DEF Inv
<1>2. CASE UNCHANGED vars
  <2>1. UNCHANGED <<imgB, stagingFaults, block_buf, prom_addr, EraseBlockNum, EraseBlockCnt,
                    VerifyStatus, readBuf, host, hVer, hPos>>
    BY <1>2 DEF vars, flash, ram, hostVars
  <2> QED
    BY <2>1 DEF SessionInv, CursorInv, StoredInv, Sending, Stored, Covered, ErasedFrom, InFlash,
       InBuffer
<1>3. CASE Next
  BY <1>1, <1>3, PromSession, VerifySession, EraseSession, ReadEraseSession, EraseCmdSession,
     OtherSession DEF Next, HostStep, EraseStep
<1> QED
  BY <1>2, <1>3

\* Whatever sessions came before and however they were cut off: every page that is about to be
\* programmed is an erased page of B, and where B takes what is written no comparison fails.
THEOREM SessionsAreSound == ASSUME ~EraseOutlivesLink PROVE Spec => []SessionSound
<1>1. Init => SessionInv
  <2> SUFFICES ASSUME Init PROVE SessionInv
    OBVIOUS
  <2>1. host = "off" /\ VerifyStatus = "ok"
    BY DEF Init
  <2> QED
    BY <2>1 DEF SessionInv, CursorInv, StoredInv, Sending
<1>2. Inv /\ SessionInv => SessionSound
  <2> SUFFICES ASSUME Inv, SessionInv PROVE NextPageErased /\ VerifySucceeds
    BY DEF SessionSound
  <2>1. NextPageErased
    BY CursorIsSound DEF Inv, SessionInv
  <2>2. VerifySucceeds
    BY DEF SessionInv, StoredInv, VerifySucceeds
  <2> QED
    BY <2>1, <2>2
<1> QED
  BY <1>1, <1>2, SessionStep, Invariance, PTL DEF Spec

-----------------------------------------------------------------------------
(* The range of the erase event *)

\* A pending erase has blocks left, and is one that was accepted.
EraseInv == eraseEvt => EraseBlockCnt < EraseBlockNum /\ EraseBlockNum - 1 <= NBlocks

\* Only a request refused on top of a pending erase can break that.
LEMMA EraseRangeStep ==
  ASSUME TypeOK, EraseInv, [Next]_vars, ~Overtaken
  PROVE  EraseInv'
<1>1. CASE UNCHANGED <<eraseEvt, EraseBlockNum, EraseBlockCnt>> \/ eraseEvt' = FALSE
  BY <1>1 DEF EraseInv
<1>2. ASSUME NEW v \in Versions, NEW n \in EraseRequests, EraseCmd(v, n)
      PROVE  EraseInv'
  <2>1. EraseBlockNum' = n /\ EraseBlockCnt' = 0 /\ n \in Nat /\ n # 0
    BY <1>2 DEF EraseCmd
  <2>2. eraseEvt' => EraseAccepted(n)
    <3>1. CASE EraseAccepted(n)
      BY <3>1
    <3>2. CASE ~EraseAccepted(n)
      <4>1. Refused
        BY <1>2, <3>2 DEF Refused
      <4>2. ~eraseEvt /\ eraseEvt' = eraseEvt
        BY <1>2, <3>2, <4>1 DEF Overtaken, EraseCmd
      <4> QED
        BY <4>2
    <3> QED
      BY <3>1, <3>2
  <2> QED
    BY <2>1, <2>2 DEF EraseInv, EraseAccepted
<1>3. ASSUME NEW status \in {"ok", "bad"}, EraseEvent(status)
      PROVE  EraseInv'
  <2>1. EraseBlockCnt \in Nat /\ EraseBlockNum \in Nat
    BY Counts
  <2>2. /\ eraseEvt /\ UNCHANGED EraseBlockNum
        /\ eraseEvt' => EraseBlockCnt' = EraseBlockCnt + 1 /\ EraseBlockCnt + 1 < EraseBlockNum
    BY <1>3 DEF EraseEvent, StillErasing
  <2> QED
    BY <2>1, <2>2 DEF EraseInv
<1>4. CASE LoaderStep \/ EndStep \/ UNCHANGED vars \/ \E torn \in BOOLEAN : PowerLoss(torn)
  <2>1. UNCHANGED <<eraseEvt, EraseBlockNum, EraseBlockCnt>> \/ eraseEvt' = FALSE
    BY <1>4 DEF LoaderStep, Boot, CopyErase, CopyProgram, SwitchToAErase, SwitchToAProgram,
       DestroyBackup, EndStep, EndErase, EndProgram, PowerLoss, ResetRam, ram, vars
  <2> QED
    BY <1>1, <2>1
<1>5. CASE Connect \/ Disconnect \/ Info \/ ReadInfo \/ ReadErase \/ ReadVerify \/ End
  <2>1. UNCHANGED <<eraseEvt, EraseBlockNum, EraseBlockCnt>>
    BY <1>5 DEF Connect, Disconnect, Info, ReadInfo, ReadErase, ReadVerify, ReadReply, End, ram
  <2> QED
    BY <1>1, <2>1
<1>6. ASSUME NEW n \in 1 .. ChunkMax, NEW fault \in Faults, Prom(n, fault) \/ VerifyCmd(n, fault)
      PROVE  EraseInv'
  <2>1. UNCHANGED <<eraseEvt, EraseBlockNum, EraseBlockCnt>>
    BY <1>6 DEF Prom, VerifyCmd
  <2> QED
    BY <1>1, <2>1
<1> QED
  BY <1>2, <1>3, <1>4, <1>5, <1>6 DEF Next, HostStep, EraseStep

\* The pending erase is always one that was accepted and has blocks left ...
LEMMA EraseEventStep ==
  TypeOK /\ EraseInv =>
    [EraseStep => EraseBlockCnt < EraseBlockNum /\ EraseBlockNum - 1 <= NBlocks]_vars
<1> SUFFICES ASSUME EraseInv, EraseStep
             PROVE  EraseBlockCnt < EraseBlockNum /\ EraseBlockNum - 1 <= NBlocks
  OBVIOUS
<1> QED
  BY DEF EraseStep, EraseEvent, EraseInv

\* The one way a block is erased that no accepted request asked for, in any build and whatever
\* block counts are asked for: an ERASE refused after its block count was stored, on top of an
\* erase still pending.  In every behaviour without that step the erase event erases what was
\* accepted.
THEOREM OnlyOvertakenErasesStray ==
  Spec => ([][~Overtaken]_vars => EraseAsAccepted)
<1>1. Init => EraseInv
  BY DEF Init, EraseInv
<1>2. TypeOK /\ EraseInv /\ [Next]_vars /\ [~Overtaken]_vars => EraseInv'
  <2>1. ASSUME TypeOK, EraseInv, [Next]_vars, ~Overtaken PROVE EraseInv'
    BY <2>1, EraseRangeStep
  <2>2. ASSUME EraseInv, UNCHANGED vars PROVE EraseInv'
    BY <2>2 DEF vars, ram, EraseInv
  <2> QED
    BY <2>1, <2>2
<1> QED
  BY <1>1, <1>2, EraseEventStep, TypeCorrect, PTL DEF Spec, EraseAsAccepted

\* Where a host does not come back before the erase it ordered has run out, that step never
\* happens: the erase event carries out accepted requests only, for hosts that ask for any number
\* of blocks, break off sessions and reconnect.
THEOREM ErasesAsAccepted == ASSUME ~EraseOutlivesLink PROVE Spec => EraseAsAccepted
<1>1. Inv => ~Overtaken
  <2> SUFFICES ASSUME Inv, Overtaken PROVE FALSE
    OBVIOUS
  <2>1. host = "ready" /\ eraseEvt
    BY DEF Overtaken, Refused, EraseCmd
  <2> QED
    BY <2>1 DEF Inv, LinkInv
<1>2. Inv => [~Overtaken]_vars
  BY <1>1
<1> QED
  BY <1>2, Invariance, OnlyOvertakenErasesStray, PTL
=============================================================================
