---------------------------- MODULE EthIap_proof -----------------------------
(***************************************************************************)
(* Proofs about EthIap, for every flash geometry, every set of images and  *)
(* sizes, and every length of the ring buffer and of the header.  Beyond   *)
(* the assumptions of the specification: pages of BACKUP take what is      *)
(* written, power does not fail during the last erase, and no host is      *)
(* connected to while an update waits to be copied.  USER may fail.        *)
(***************************************************************************)
EXTENDS EthIap, Integers, TLAPS

Environment == ~StagingFaults /\ ~CleanupTears /\ ~InterruptUpdate

\* IAPParaInit has just been called, and nothing has come since.
Nothing ==
  /\ iapFileLen = 0 /\ fileDataLen = 0 /\ flashProgramLen = 0 /\ buffUsedLen = 0
  /\ readIndex = 0 /\ writeIndex = 0 /\ fileCheckSum /\ sock = 0 /\ hPos = 0

\* The connection, and the lengths against each other: of the file, of what was
\* taken off, of what was programmed and of what waits in the ring.
LengthInv ==
  /\ connFlag <=> link \in {"up", "closing"}
  /\ cpu \notin {"iap", "wipe", "flagErase", "flagWrite"} => ~connFlag
  /\ ~connFlag \/ cpu = "wipe" => Nothing
  /\ sock <= hPos /\ hPos <= BIN_INF_LEN + SizeOf[hVer]
  /\ fileDataLen < BIN_INF_LEN =>
       /\ iapFileLen = 0 /\ fileDataLen = 0
       /\ flashProgramLen = 0 /\ buffUsedLen = 0 /\ fileCheckSum
  /\ fileDataLen >= BIN_INF_LEN =>
       /\ iapFileLen = BIN_INF_LEN + SizeOf[hVer] /\ SizeOf[hVer] <= MaxDataSize
       /\ fileDataLen = BIN_INF_LEN + flashProgramLen + buffUsedLen
       /\ hPos = sock + fileDataLen

\* What is in BACKUP: what was programmed and agrees with the checksum, and behind it
\* nothing; the page of the flag takes no data.
DataInv ==
  /\ cpu = "wipe" => \A a \in Addr : a[1] < blk => bak[a] = Erased
  /\ cpu = "iap" /\ connFlag =>
       /\ \A a \in Addr : Index(a) >= flashProgramLen => bak[a] = Erased
       /\ fileCheckSum => \A k \in 0 .. flashProgramLen - 1 :
                            bak[AddrOf(k)] = Data(hVer, AddrOf(k))
  /\ cpu \in {"flagErase", "flagWrite"} => Holds(bak, hVer) /\ SizeOf[hVer] <= MaxDataSize
  /\ \A o \in Offsets :
       bak[<<NBlocks - 1, BlockPages - 1, o>>] \in {Erased, Junk, FlagWord}

\* Which of the two areas is whole, and what the flag says of it.
FlagInv ==
  /\ cpu \in {"iap", "wipe", "flagErase", "flagWrite", "app"} => ~Flagged /\ WholeIn(user)
  /\ Down => (Flagged /\ WholeIn(bak)) \/ (~Flagged /\ WholeIn(user))
  /\ cpu \in {"erase", "copy", "hung"} => Flagged /\ WholeIn(bak)
  /\ cpu = "cleanup" => /\ blk = 0 => Flagged /\ WholeIn(bak)
                        /\ \A a \in Addr : blk = 0 => user[a] = bak[a]
                        /\ WholeIn(user)

\* How far the copy has come.
CopyInv ==
  /\ cpu = "erase" => \A a \in Addr : a[1] < blk => user[a] = Erased
  /\ cpu = "erase" => page = 0
  /\ cpu = "copy" =>
       \A a \in Addr : user[a] = IF a[1] < blk \/ (a[1] = blk /\ a[2] < page)
                                   THEN bak[a] ELSE Erased
  /\ Down \/ cpu = "cleanup" => page = 0
  /\ Down => blk = 0

\* How much waits in the ring, by its two indices, and that it is the file's.
RingInv ==
  /\ IF readIndex <= writeIndex
       THEN \/ buffUsedLen = writeIndex - readIndex
            \/ buffUsedLen = RECE_BUF_LEN /\ readIndex = writeIndex
       ELSE buffUsedLen = RECE_BUF_LEN - readIndex + writeIndex
  /\ \A k \in 0 .. buffUsedLen - 1 : FromRing(k) = FileUnit(flashProgramLen + k)

IInv == TypeOK /\ LengthInv /\ RingInv /\ DataInv /\ FlagInv /\ CopyInv

USE DEF Down, Accepted, MorePages, NextBlock, BootTarget

-----------------------------------------------------------------------------
(* The flash: addresses, and what a region holds *)

\* Every unit of an image has an address in the region.
LEMMA AddrOfType == \A k \in 0 .. TotalUnits - 1 : AddrOf(k) \in Addr
<1> USE GeometryAssumption
<1> SUFFICES ASSUME NEW k \in 0 .. TotalUnits - 1
             PROVE  AddrOf(k) \in Addr
  OBVIOUS
<1> DEFINE S == BlockPages * PageUnits
<1>1. S \in Nat \ {0} /\ TotalUnits = NBlocks * S
  BY SMT DEF TotalUnits
<1>2. k \in Nat /\ k < NBlocks * S
  BY <1>1
<1>3. k \div S \in 0 .. NBlocks - 1
  <2> HIDE DEF S
  <2> QED
    BY <1>1, <1>2, SMTT(30)
<1>4. k \div PageUnits \in Nat
  BY <1>2, SMTT(30)
<1>5. (k \div PageUnits) % BlockPages \in 0 .. BlockPages - 1 /\ k % PageUnits \in 0 .. PageUnits - 1
  BY <1>2, <1>4
<1> QED
  BY <1>3, <1>5 DEF AddrOf, Addr, Blocks, Pages, Offsets

LEMMA ExtentInAddr == \A v \in Versions : Extent(v) \subseteq Addr
BY AddrOfType, GeometryAssumption, SizeAssumption DEF Extent, TotalUnits

\* A region holds at most one version, and VersionIn finds it.
LEMMA VersionInHeld ==
  ASSUME NEW img, NEW v \in Versions, Holds(img, v)
  PROVE  VersionIn(img) = v
<1>1. \A w \in Versions : AddrOf(0) \in Extent(w)
  BY GeometryAssumption, SizeAssumption DEF Extent, TotalUnits
<1> QED
  BY <1>1 DEF Holds, Data, VersionIn

\* Holding a version depends on the units of its extent only.
LEMMA HoldsCopy ==
  ASSUME NEW img, NEW copy, \A a \in Addr : copy[a] = img[a],
         NEW v \in Versions
  PROVE  Holds(img, v) <=> Holds(copy, v)
BY ExtentInAddr DEF Holds

LEMMA AddrParts ==
  \A a \in Addr : /\ a[1] \in Blocks /\ a[2] \in Pages /\ a[3] \in Offsets
                  /\ a = <<a[1], a[2], a[3]>>
BY DEF Addr

-----------------------------------------------------------------------------
(* The constants *)

LEMMA Bounds ==
  /\ RECE_BUF_LEN \in Nat /\ RECE_BUF_LEN > 0
  /\ BIN_INF_LEN \in Nat /\ BIN_INF_LEN > 0 /\ BIN_INF_LEN <= RECE_BUF_LEN
  /\ TotalUnits \in Nat /\ MaxDataSize \in Nat /\ MaxDataSize < TotalUnits
<1>1. PageUnits \in Nat /\ PageUnits > 0
  BY GeometryAssumption
<1>2. TotalUnits \in Nat /\ PageUnits <= TotalUnits
  <2> DEFINE pages == NBlocks * BlockPages
  <2>1. pages \in Nat /\ pages >= 1
    BY GeometryAssumption, SMTT(30)
  <2>2. TotalUnits = pages * PageUnits
    BY DEF TotalUnits
  <2> HIDE DEF pages
  <2>3. QED
    BY <1>1, <2>1, <2>2, SMTT(30)
<1>3. QED
  BY <1>1, <1>2, BufferAssumption DEF MaxDataSize

LEMMA SizeFits ==
  \A v \in Versions : SizeOf[v] \in 1 .. TotalUnits /\ SizeOf[v] \in Nat
BY Bounds, SizeAssumption

LEMMA FlagIsNoData == FlagWord \notin Content /\ Erased \in Content /\ Junk \in Content
BY FlagAssumption DEF Content

\* Where an index goes that is moved once round the ring at most.
LEMMA AroundTheRing ==
  ASSUME NEW x \in Int, -RECE_BUF_LEN <= x, x < 2 * RECE_BUF_LEN
  PROVE  x % RECE_BUF_LEN = IF x < 0 THEN x + RECE_BUF_LEN
                            ELSE IF x < RECE_BUF_LEN THEN x ELSE x - RECE_BUF_LEN
<1> DEFINE R == RECE_BUF_LEN
<1>1. R \in Nat /\ R > 0
  BY Bounds
<1> HIDE DEF R
<1>2. -R <= x /\ x < 2 * R
  BY DEF R
<1>3. PICK q \in Int, r \in Int : r = x % R /\ x = R * q + r /\ 0 <= r /\ r < R
  BY <1>1, SMTT(30)
<1>4. q \in {-1, 0, 1}
  BY <1>1, <1>2, <1>3, SMTT(30)
<1>5. QED
  BY <1>1, <1>2, <1>3, <1>4 DEF R

\* Units of an image that fits, and where they lie.
LEMMA AddrIndex ==
  ASSUME NEW k \in 0 .. TotalUnits - 1
  PROVE  Index(AddrOf(k)) = k
<1>1. /\ BlockPages \in Nat /\ BlockPages > 0 /\ PageUnits \in Nat /\ PageUnits > 0
      /\ k \in Nat
  BY GeometryAssumption, Bounds
<1>2. PICK p \in Nat, o \in Nat :
        p = k \div PageUnits /\ o = k % PageUnits /\ k = PageUnits * p + o
  BY <1>1, SMTT(30)
<1>3. PICK b \in Nat, q \in Nat :
        b = p \div BlockPages /\ q = p % BlockPages /\ p = BlockPages * b + q
  BY <1>1, SMTT(30)
<1>4. k \div (BlockPages * PageUnits) = b
  <2> DEFINE rest == PageUnits * q + o
             S == BlockPages * PageUnits
  <2>1. q <= BlockPages - 1 /\ o < PageUnits
    BY <1>1, <1>2, <1>3, SMTT(30)
  <2>2. S \in Nat /\ S > 0
    BY <1>1, SMTT(30)
  <2>3. rest \in Nat /\ rest < S
    <3>1. PageUnits * q <= PageUnits * (BlockPages - 1)
      BY <1>1, <2>1, SMTT(30)
    <3>2. PageUnits * (BlockPages - 1) = S - PageUnits
      BY <1>1, SMTT(30)
    <3>3. PageUnits * q \in Nat
      BY <1>1, SMTT(30)
    <3> HIDE DEF S
    <3>4. QED
      BY <1>1, <2>1, <2>2, <3>1, <3>2, <3>3
  <2>4. k = S * b + rest
    BY <1>1, <1>2, <1>3, SMTT(30)
  <2> HIDE DEF rest, S
  <2>5. k \div S = b
    BY <2>2, <2>3, <2>4, SMTT(30)
  <2>6. QED
    BY <2>5 DEF S
<1>5. AddrOf(k) = <<b, q, o>>
  BY <1>2, <1>3, <1>4 DEF AddrOf
<1>6. (b * BlockPages + q) * PageUnits + o = k
  <2>1. b * BlockPages + q = p
    BY <1>1, <1>3
  <2>2. QED
    BY <1>1, <1>2, <2>1
<1>7. QED
  BY <1>5, <1>6 DEF Index

LEMMA IndexType == \A a \in Addr : Index(a) \in Nat
BY GeometryAssumption, AddrParts DEF Index, Blocks, Pages, Offsets

\* The last page, which is the flag's, lies behind the data of every image that fits.
LEMMA LastPage ==
  ASSUME NEW a \in Addr, a[1] = NBlocks - 1, a[2] = BlockPages - 1
  PROVE  Index(a) >= MaxDataSize
<1>1. /\ NBlocks \in Nat /\ BlockPages \in Nat /\ PageUnits \in Nat /\ a[3] \in Nat
      /\ NBlocks >= 1 /\ BlockPages >= 1
  BY GeometryAssumption, AddrParts DEF Offsets
<1> DEFINE pages == NBlocks * BlockPages
<1>2. pages \in Nat /\ (NBlocks - 1) * BlockPages + (BlockPages - 1) = pages - 1
  BY <1>1, SMTT(30)
<1>3. TotalUnits = pages * PageUnits
  BY DEF TotalUnits
<1>4. Index(a) = (pages - 1) * PageUnits + a[3]
  BY <1>2 DEF Index
<1> HIDE DEF pages
<1>5. (pages - 1) * PageUnits = pages * PageUnits - PageUnits
  BY <1>1, <1>2, SMTT(30)
<1>6. pages * PageUnits \in Nat
  BY <1>1, <1>2
<1>7. QED
  BY <1>1, <1>3, <1>4, <1>5, <1>6 DEF MaxDataSize

LEMMA FlagPlace ==
  /\ FlagAddr \in Addr /\ FlagAddr[1] = NBlocks - 1 /\ FlagAddr[2] = BlockPages - 1
  /\ Index(FlagAddr) >= MaxDataSize
<1>1. FlagAddr \in Addr /\ FlagAddr[1] = NBlocks - 1 /\ FlagAddr[2] = BlockPages - 1
  BY GeometryAssumption DEF FlagAddr, Addr, Blocks, Pages, Offsets
<1>2. QED
  BY <1>1, LastPage

-----------------------------------------------------------------------------
(* The flash *)

LEMMA FlashType ==
  ASSUME NEW img \in FlashImage, NEW b, NEW p
  PROVE  /\ EraseBlock(img, b) \in FlashImage /\ TornBlock(img, b) \in FlashImage
         /\ TornPage(img, b, p) \in FlashImage
BY DEF EraseBlock, TornBlock, TornPage, FlashImage, Content

LEMMA ImageType ==
  ASSUME NEW v \in Versions, NEW a \in Addr
  PROVE  Data(v, a) \in Content
BY DEF Data, Content

\* The flag is read as not set when its unit is erased or torn.
LEMMA NotFlagged == bak[FlagAddr] \in {Erased, Junk} => ~Flagged
BY FlagIsNoData DEF Flagged

\* Data that fits lies off the page of the flag.
LEMMA OffFlagPage ==
  ASSUME NEW v \in Versions, SizeOf[v] <= MaxDataSize, NEW a \in Extent(v)
  PROVE  a \in Addr /\ a # FlagAddr /\ ~(a[1] = FlagAddr[1] /\ a[2] = FlagAddr[2])
<1>1. PICK k \in 0 .. SizeOf[v] - 1 : a = AddrOf(k)
  BY DEF Extent
<1>2. k \in 0 .. TotalUnits - 1 /\ k < MaxDataSize
  BY <1>1, SizeFits, Bounds
<1>3. a \in Addr /\ Index(a) < MaxDataSize
  BY <1>1, <1>2, AddrIndex, AddrOfType
<1>4. ~(a[1] = NBlocks - 1 /\ a[2] = BlockPages - 1)
  <2>1. Index(a) \in Nat /\ MaxDataSize \in Nat
    BY <1>3, IndexType, Bounds
  <2>2. ~(Index(a) >= MaxDataSize)
    BY <1>3, <2>1
  <2>3. QED
    BY <1>3, <2>2, LastPage
<1>5. QED
  BY <1>3, <1>4, FlagPlace

\* Nothing that is not flash, place in a loop or kind of step bears on these two.
LEMMA FlashKept ==
  ASSUME FlagInv, CopyInv, UNCHANGED <<flash, cpu, loop>>
  PROVE  FlagInv' /\ CopyInv'
<1>1. user' = user /\ bak' = bak /\ cpu' = cpu /\ blk' = blk /\ page' = page
  BY DEF flash, loop
<1>2. FlagInv'
  BY <1>1 DEF FlagInv, Flagged, WholeIn, Holds
<1>3. CopyInv'
  BY <1>1 DEF CopyInv
<1>4. QED
  BY <1>2, <1>3

\* An update that is complete, or an application in USER.
LEMMA WholeKept ==
  ASSUME NEW img, NEW copy, \A a \in Addr : copy[a] = img[a], WholeIn(img)
  PROVE  WholeIn(copy)
BY HoldsCopy DEF WholeIn

-----------------------------------------------------------------------------
(* The ring *)

LEMMA RingMoves ==
  ASSUME NEW i \in 0 .. RECE_BUF_LEN - 1, NEW n \in 0 .. RECE_BUF_LEN
  PROVE  /\ Advanced(i, n) = IF i + n < RECE_BUF_LEN THEN i + n ELSE i + n - RECE_BUF_LEN
         /\ Advanced(i, n) \in 0 .. RECE_BUF_LEN - 1
<1>1. i + n \in Int /\ 0 <= i + n /\ i + n < 2 * RECE_BUF_LEN
  BY Bounds
<1>2. (i + n) % RECE_BUF_LEN = IF i + n < RECE_BUF_LEN THEN i + n ELSE i + n - RECE_BUF_LEN
  BY <1>1, AroundTheRing, Bounds
<1>3. QED
  BY <1>2, Bounds DEF Advanced

\* What is there to be saved is never more than what waits.
LEMMA SaveLenType ==
  ASSUME TypeOK PROVE SaveLen \in 0 .. buffUsedLen
<1>1. buffUsedLen \in Nat /\ PageUnits \in Nat /\ PageUnits > 0
  BY Bounds, GeometryAssumption DEF TypeOK, RingOK
<1>2. buffUsedLen % PageUnits \in 0 .. buffUsedLen
  <2>1. PICK q \in Nat, r \in Nat : r = buffUsedLen % PageUnits /\ buffUsedLen = PageUnits * q + r
    BY <1>1, SMTT(30)
  <2>2. PageUnits * q \in Nat
    BY <1>1
  <2>3. QED
    BY <1>1, <2>1, <2>2
<1>3. QED
  BY <1>1, <1>2 DEF SaveLen

\* There is room for what receUpdatedFile takes.
LEMMA FreeLenFits ==
  ASSUME TypeOK, RingInv
  PROVE  FreeLen \in 0 .. RECE_BUF_LEN /\ FreeLen + buffUsedLen <= RECE_BUF_LEN
BY Bounds DEF TypeOK, RingOK, RingInv, FreeLen

-----------------------------------------------------------------------------
(* The steps *)

LEMMA Zeros ==
  /\ 0 \in Blocks /\ 0 \in Pages /\ 0 \in 0 .. RECE_BUF_LEN - 1
  /\ 0 \in 0 .. RECE_BUF_LEN /\ 0 \in 0 .. BIN_INF_LEN + TotalUnits
  /\ 0 \in 0 .. MaxDataSize /\ \A k \in 0 .. 0 - 1 : FALSE
BY Bounds, GeometryAssumption DEF Blocks, Pages

LEMMA InitInv == Init => IInv
<1> SUFFICES ASSUME Init PROVE IInv
  OBVIOUS
<1>1. PICK v \in Versions :
        /\ SizeOf[v] <= MaxDataSize /\ hVer = v
        /\ user = [a \in Addr |-> IF a \in Extent(v) THEN Data(v, a) ELSE Erased]
  BY DEF Init
<1>2. TypeOK
  <2>1. FlashOK
    BY <1>1, ImageType, FlagIsNoData DEF Init, FlashOK, FlashImage
  <2>2. StatesOK /\ RingOK
    BY Zeros, FlagIsNoData DEF Init, StatesOK, RingOK
  <2>3. CountsOK
    BY <1>1, Zeros DEF Init, CountsOK
  <2>4. QED
    BY <2>1, <2>2, <2>3 DEF TypeOK
<1>3. LengthInv
  BY <1>1, Bounds, SizeFits DEF Init, LengthInv, Nothing
<1>4. RingInv
  BY Bounds DEF Init, RingInv
<1>5. bak[FlagAddr] = Erased /\ ~Flagged
  BY FlagPlace, NotFlagged DEF Init
<1>6. DataInv
  <2>1. \A o \in Offsets : <<NBlocks - 1, BlockPages - 1, o>> \in Addr
    BY GeometryAssumption DEF Addr, Blocks, Pages
  <2>2. QED
    BY <2>1 DEF Init, DataInv
<1>7. Holds(user, hVer)
  BY <1>1, ExtentInAddr DEF Holds
<1>8. FlagInv
  BY <1>1, <1>5, <1>7 DEF Init, FlagInv, WholeIn
<1>9. CopyInv
  BY DEF Init, CopyInv
<1>10. QED
  BY <1>2, <1>3, <1>4, <1>6, <1>8, <1>9 DEF IInv

\* What does not touch the ring, the lengths or the place in the file leaves it be.
LEMMA RingKept ==
  ASSUME RingInv, UNCHANGED <<deal, flashProgramLen, hVer, hGood>>
  PROVE  RingInv'
BY DEF RingInv, deal, FromRing, Advanced, FileUnit

LEMMA RingEmpty ==
  ASSUME readIndex' = 0, writeIndex' = 0, buffUsedLen' = 0
  PROVE  RingInv'
BY Bounds DEF RingInv

LEMMA BootStep ==
  ASSUME IInv, Environment, NEW button \in BOOLEAN, Boot(button)
  PROVE  IInv'
<1> USE DEF IInv
<1>1. TypeOK'
  BY DEF Boot, TypeOK, FlashOK, StatesOK, RingOK, CountsOK, flash, loop, deal, para
<1>2. LengthInv'
  BY DEF Boot, LengthInv, Nothing, deal, para
<1>3. RingInv'
  BY RingKept DEF Boot, para, deal
<1>4. user' = user /\ bak' = bak /\ Down /\ (button => ~Flagged) /\ blk = 0 /\ page = 0
  BY DEF Boot, flash, Environment, CopyInv
<1>5. DataInv'
  <2>1. ~connFlag' /\ cpu' \in {"iap", "erase", "app"}
    BY <1>4 DEF Boot, LengthInv
  <2>2. QED
    BY <1>4, <2>1 DEF DataInv
<1>6. FlagInv'
  BY <1>4 DEF Boot, FlagInv, Flagged, WholeIn, Holds
<1>7. CopyInv'
  BY <1>4, GeometryAssumption, AddrParts DEF Boot, CopyInv, loop, Blocks
<1>8. QED
  BY <1>1, <1>2, <1>3, <1>5, <1>6, <1>7

LEMMA ConnectedStep ==
  ASSUME IInv, NEW v \in Versions, NEW good \in BOOLEAN, Connected(v, good)
  PROVE  IInv'
<1> USE DEF IInv
<1>1. ~connFlag /\ Nothing
  BY DEF Connected, LengthInv
<1>2. TypeOK'
  BY Zeros DEF Connected, TypeOK, FlashOK, StatesOK, RingOK, CountsOK, flash, deal, para
<1>3. LengthInv'
  BY <1>1, SizeFits, Bounds DEF Connected, LengthInv, Nothing, deal, para
<1>4. RingInv'
  BY <1>1, RingEmpty DEF Connected, Nothing, deal
<1>5. DataInv'
  BY AddrParts DEF Connected, DataInv, flash, Blocks
<1>6. FlagInv' /\ CopyInv'
  BY DEF Connected, FlagInv, CopyInv, flash, Flagged, WholeIn, Holds
<1>7. QED
  BY <1>2, <1>3, <1>4, <1>5, <1>6

LEMMA WipeStep ==
  ASSUME IInv, Wipe
  PROVE  IInv'
<1> USE DEF IInv
<1>1. TypeOK'
  <2>1. FlashOK'
    BY FlashType DEF Wipe, TypeOK, FlashOK
  <2>2. StatesOK' /\ RingOK'
    BY DEF Wipe, TypeOK, StatesOK, RingOK, deal, para, net
  <2>3. CountsOK'
    BY Zeros, GeometryAssumption DEF Wipe, TypeOK, CountsOK, para, net, Blocks
  <2>4. QED
    BY <2>1, <2>2, <2>3 DEF TypeOK
<1>2. LengthInv'
  BY DEF Wipe, LengthInv, Nothing, deal, para, net
<1>3. RingInv'
  BY RingKept DEF Wipe, para, net
<1>4. \A a \in Addr : a[1] < blk + 1 => bak'[a] = Erased
  BY AddrParts DEF Wipe, DataInv, EraseBlock, TypeOK, CountsOK, Blocks
<1>5. \A a \in Addr : bak'[a] \in {bak[a], Erased}
  BY DEF Wipe, EraseBlock
<1>6. DataInv'
  <2>1. cpu' = "wipe" => \A a \in Addr : a[1] < blk' => bak'[a] = Erased
    BY <1>4 DEF Wipe
  <2>2. cpu' = "iap" => \A a \in Addr : bak'[a] = Erased
    BY <1>4, AddrParts, GeometryAssumption DEF Wipe, Blocks, TypeOK, CountsOK
  <2>3. flashProgramLen' = 0 /\ fileCheckSum'
    BY DEF Wipe, LengthInv, Nothing, para
  <2>4. \A o \in Offsets : bak'[<<NBlocks - 1, BlockPages - 1, o>>] \in {Erased, Junk, FlagWord}
    BY <1>5, GeometryAssumption DEF DataInv, Addr, Blocks, Pages
  <2>5. cpu' \in {"wipe", "iap"}
    BY DEF Wipe
  <2>6. QED
    BY <2>1, <2>2, <2>3, <2>4, <2>5, Zeros DEF DataInv
<1>7. FlagInv'
  <2>1. ~Flagged'
    BY <1>5, FlagPlace, FlagIsNoData DEF Wipe, FlagInv, Flagged
  <2>2. QED
    BY <2>1 DEF Wipe, FlagInv, WholeIn, Holds
<1>8. CopyInv'
  BY DEF Wipe, CopyInv
<1>9. QED
  BY <1>1, <1>2, <1>3, <1>6, <1>7, <1>8

LEMMA DisconnectedStep ==
  ASSUME IInv, NEW reconnect \in BOOLEAN, Disconnected(reconnect)
  PROVE  IInv'
<1> USE DEF IInv
<1>1. TypeOK'
  BY Zeros DEF Disconnected, IAPParaInit, TypeOK, FlashOK, StatesOK, RingOK, CountsOK,
       flash, loop
<1>2. LengthInv'
  BY Bounds, SizeFits DEF Disconnected, IAPParaInit, LengthInv, Nothing, TypeOK, CountsOK
<1>3. RingInv'
  BY RingEmpty DEF Disconnected, IAPParaInit
<1>4. DataInv'
  BY DEF Disconnected, DataInv, flash
<1>5. FlagInv' /\ CopyInv'
  BY FlashKept DEF Disconnected
<1>6. QED
  BY <1>1, <1>2, <1>3, <1>4, <1>5

LEMMA HeaderStep ==
  ASSUME IInv, Header
  PROVE  IInv'
<1> USE DEF IInv
<1>1. /\ fileDataLen = 0 /\ flashProgramLen = 0 /\ buffUsedLen = 0 /\ fileCheckSum
      /\ iapFileLen = 0 /\ SizeOf[hVer] \in Nat
  BY SizeFits DEF Header, LengthInv, TypeOK, CountsOK
<1>2. TypeOK'
  <2>1. FlashOK' /\ StatesOK' /\ RingOK'
    BY Zeros, Bounds
       DEF Header, IAPParaInit, TypeOK, FlashOK, StatesOK, RingOK, flash, deal
  <2>2. BIN_INF_LEN + SizeOf[hVer] \in 0 .. BIN_INF_LEN + TotalUnits
    BY <1>1, Bounds, SizeFits DEF TypeOK, CountsOK
  <2>3. fileDataLen + BIN_INF_LEN \in 0 .. BIN_INF_LEN + TotalUnits
    BY <1>1, Bounds
  <2>4. sock - BIN_INF_LEN \in 0 .. RECE_BUF_LEN
    BY Bounds DEF Header, TypeOK, RingOK, CountsOK
  <2>5. CountsOK'
    BY <2>2, <2>3, <2>4, Zeros DEF Header, IAPParaInit, TypeOK, CountsOK, loop
  <2>6. QED
    BY <2>1, <2>5 DEF TypeOK
<1>3. LengthInv'
  <2>1. connFlag /\ cpu = "iap" /\ link' \in {"up", "closing"} /\ cpu' = cpu /\ connFlag'
    BY DEF Header, LengthInv
  <2>2. sock' \in Nat /\ sock' = sock - BIN_INF_LEN /\ sock \in Nat /\ hPos \in Nat
    BY Bounds DEF Header, TypeOK, CountsOK
  <2>3. hVer' = hVer /\ hPos' = hPos /\ sock' <= hPos'
    BY <2>2, Bounds DEF Header, LengthInv
  <2>4. CASE Accepted
    <3>1. hPos = sock
      BY <2>2, <2>4 DEF Taken
    <3>2. /\ iapFileLen' = BIN_INF_LEN + SizeOf[hVer] /\ fileDataLen' = BIN_INF_LEN
          /\ flashProgramLen' = 0 /\ buffUsedLen' = 0
      BY <1>1, <2>4, Bounds DEF Header, deal
    <3>3. QED
      BY <1>1, <2>1, <2>2, <2>3, <2>4, <3>1, <3>2, Bounds DEF LengthInv
  <2>5. CASE ~Accepted
    <3>1. /\ iapFileLen' = 0 /\ fileDataLen' = 0 /\ flashProgramLen' = 0
          /\ buffUsedLen' = 0 /\ fileCheckSum'
      BY <2>5 DEF Header, IAPParaInit
    <3>2. QED
      BY <2>1, <2>3, <3>1, Bounds DEF LengthInv
  <2>6. QED
    BY <2>4, <2>5
<1>4. RingInv'
  BY RingKept, RingEmpty DEF Header, IAPParaInit
<1>5. DataInv'
  BY <1>1 DEF Header, IAPParaInit, DataInv, flash
<1>6. FlagInv' /\ CopyInv'
  BY FlashKept DEF Header
<1>7. QED
  BY <1>2, <1>3, <1>4, <1>5, <1>6

\* The unit of the ring that holds the k-th unit waiting, and how far behind the
\* write index it lies.
LEMMA RingPlace ==
  ASSUME TypeOK, RingInv, NEW k \in 0 .. RECE_BUF_LEN - 1
  PROVE  /\ Advanced(readIndex, k) \in 0 .. RECE_BUF_LEN - 1
         /\ LET ofs == (Advanced(readIndex, k) + RECE_BUF_LEN - writeIndex) % RECE_BUF_LEN
            IN  IF k < buffUsedLen THEN ofs = k + RECE_BUF_LEN - buffUsedLen
                                   ELSE ofs = k - buffUsedLen
<1> DEFINE i == Advanced(readIndex, k)
           x == i + RECE_BUF_LEN - writeIndex
<1>1. /\ readIndex \in 0 .. RECE_BUF_LEN - 1 /\ writeIndex \in 0 .. RECE_BUF_LEN - 1
      /\ buffUsedLen \in 0 .. RECE_BUF_LEN
  BY DEF TypeOK, RingOK
<1>2. /\ i \in 0 .. RECE_BUF_LEN - 1
      /\ i = IF readIndex + k < RECE_BUF_LEN THEN readIndex + k ELSE readIndex + k - RECE_BUF_LEN
  BY <1>1, RingMoves, Bounds
<1> HIDE DEF i
<1>3. x % RECE_BUF_LEN = IF x < RECE_BUF_LEN THEN x ELSE x - RECE_BUF_LEN
  <2>1. x \in Int /\ 0 <= x /\ x < 2 * RECE_BUF_LEN /\ -RECE_BUF_LEN <= x
    BY <1>1, <1>2, Bounds
  <2> HIDE DEF x
  <2>2. QED
    BY <2>1, AroundTheRing
<1>4. x % RECE_BUF_LEN = IF k < buffUsedLen THEN k + RECE_BUF_LEN - buffUsedLen
                                            ELSE k - buffUsedLen
  <2> DEFINE m == x % RECE_BUF_LEN
  <2>1. m = IF x < RECE_BUF_LEN THEN x ELSE x - RECE_BUF_LEN
    BY <1>3
  <2> HIDE DEF m
  <2>2. m = IF k < buffUsedLen THEN k + RECE_BUF_LEN - buffUsedLen ELSE k - buffUsedLen
    BY <1>1, <1>2, <2>1, Bounds DEF RingInv
  <2>3. QED
    BY <2>2 DEF m
<1>5. QED
  BY <1>2, <1>4 DEF i

LEMMA ReceiveStep ==
  ASSUME IInv, Receive
  PROVE  IInv'
<1> USE DEF IInv
<1> DEFINE n == IF sock <= FreeLen THEN sock ELSE FreeLen
           ofs(i) == (i + RECE_BUF_LEN - writeIndex) % RECE_BUF_LEN
<1>1. /\ sock \in Nat /\ hPos \in Nat /\ buffUsedLen \in Nat /\ flashProgramLen \in Nat
      /\ fileDataLen \in Nat /\ SizeOf[hVer] \in Nat /\ FreeLen \in Nat
  BY SizeFits, FreeLenFits, Bounds DEF TypeOK, RingOK, CountsOK
<1>2. n \in 0 .. RECE_BUF_LEN /\ n <= sock /\ n + buffUsedLen <= RECE_BUF_LEN
  BY <1>1, FreeLenFits, Bounds
<1>3. /\ fileDataLen >= BIN_INF_LEN
      /\ iapFileLen = BIN_INF_LEN + SizeOf[hVer] /\ SizeOf[hVer] <= MaxDataSize
      /\ fileDataLen = BIN_INF_LEN + flashProgramLen + buffUsedLen
      /\ hPos = sock + fileDataLen /\ hPos <= BIN_INF_LEN + SizeOf[hVer]
      /\ connFlag /\ cpu = "iap"
  BY DEF Receive, LengthInv
<1>4. /\ writeIndex' = Advanced(writeIndex, n) /\ buffUsedLen' = buffUsedLen + n
      /\ fileDataLen' = fileDataLen + n /\ sock' = sock - n /\ phase' = "save"
      /\ ring' = [i \in DOMAIN ring |->
                    IF ofs(i) < n THEN FileUnit(Taken + ofs(i) - BIN_INF_LEN) ELSE ring[i]]
      /\ UNCHANGED <<flash, cpu, loop, connFlag, readIndex, iapFileLen,
                     flashProgramLen, fileCheckSum, link, hVer, hGood, hPos>>
  BY DEF Receive
<1> HIDE DEF n
<1>5. Taken = fileDataLen
  BY <1>1, <1>3, Bounds DEF Taken
<1>6. \A j \in Int : 0 <= j /\ j < n =>
        FileUnit(fileDataLen + j - BIN_INF_LEN) \in Content
  <2> SUFFICES ASSUME NEW j \in Int, 0 <= j, j < n
               PROVE  FileUnit(fileDataLen + j - BIN_INF_LEN) \in Content
    OBVIOUS
  <2>1. fileDataLen + j - BIN_INF_LEN \in 0 .. TotalUnits - 1
    BY <1>1, <1>2, <1>3, Bounds
  <2>2. hVer \in Versions
    BY DEF TypeOK, CountsOK
  <2>3. QED
    BY <2>1, <2>2, AddrOfType, ImageType, FlagIsNoData DEF FileUnit
<1>7. \A i \in 0 .. RECE_BUF_LEN - 1 : ofs(i) \in 0 .. RECE_BUF_LEN - 1
  <2> SUFFICES ASSUME NEW i \in 0 .. RECE_BUF_LEN - 1
               PROVE  ofs(i) \in 0 .. RECE_BUF_LEN - 1
    OBVIOUS
  <2>1. writeIndex \in 0 .. RECE_BUF_LEN - 1
    BY DEF TypeOK, RingOK
  <2>2. i + RECE_BUF_LEN - writeIndex \in Int
    BY <2>1, Bounds
  <2>3. QED
    BY <2>2, Bounds, SMTT(30)
<1> HIDE DEF ofs
<1>8. RingOK'
  <2>1. ring' \in [0 .. RECE_BUF_LEN - 1 -> Content]
    <3> SUFFICES ASSUME NEW i \in 0 .. RECE_BUF_LEN - 1
                 PROVE  (IF ofs(i) < n THEN FileUnit(Taken + ofs(i) - BIN_INF_LEN)
                                       ELSE ring[i]) \in Content
      BY <1>4 DEF TypeOK, RingOK
    <3>1. CASE ofs(i) < n
      BY <3>1, <1>5, <1>6, <1>7, Bounds
    <3>2. CASE ~(ofs(i) < n)
      BY <3>2 DEF TypeOK, RingOK
    <3>3. QED
      BY <3>1, <3>2
  <2>2. writeIndex' \in 0 .. RECE_BUF_LEN - 1
    BY <1>2, <1>4, RingMoves DEF TypeOK, RingOK
  <2>3. QED
    BY <1>1, <1>2, <1>4, <2>1, <2>2, Bounds DEF TypeOK, RingOK
<1>9. TypeOK'
  <2>1. FlashOK' /\ StatesOK'
    BY <1>4 DEF Receive, TypeOK, FlashOK, StatesOK, flash
  <2>2. fileDataLen' \in 0 .. BIN_INF_LEN + TotalUnits /\ sock' \in 0 .. RECE_BUF_LEN
    BY <1>1, <1>2, <1>3, <1>4, Bounds, SizeFits DEF TypeOK, CountsOK
  <2>3. CountsOK'
    BY <2>2, <1>4 DEF TypeOK, CountsOK, loop
  <2>4. QED
    BY <1>8, <2>1, <2>3 DEF TypeOK
<1>10. LengthInv'
  BY <1>1, <1>2, <1>3, <1>4, Bounds DEF LengthInv
<1>11. RingInv'
  <2>1. /\ readIndex \in 0 .. RECE_BUF_LEN - 1 /\ writeIndex \in 0 .. RECE_BUF_LEN - 1
        /\ writeIndex' = IF writeIndex + n < RECE_BUF_LEN THEN writeIndex + n
                                                          ELSE writeIndex + n - RECE_BUF_LEN
    BY <1>2, <1>4, RingMoves DEF TypeOK, RingOK
  <2>2. IF readIndex' <= writeIndex'
          THEN \/ buffUsedLen' = writeIndex' - readIndex'
               \/ buffUsedLen' = RECE_BUF_LEN /\ readIndex' = writeIndex'
          ELSE buffUsedLen' = RECE_BUF_LEN - readIndex' + writeIndex'
    BY <1>1, <1>2, <1>4, <2>1, Bounds DEF RingInv
  <2>3. \A k \in 0 .. buffUsedLen' - 1 : FromRing(k)' = FileUnit(flashProgramLen + k)'
    <3> SUFFICES ASSUME NEW k \in 0 .. buffUsedLen' - 1
                 PROVE  FromRing(k)' = FileUnit(flashProgramLen + k)'
      OBVIOUS
    <3> DEFINE i == Advanced(readIndex, k)
    <3>1. k \in 0 .. RECE_BUF_LEN - 1
      BY <1>1, <1>2, <1>4, Bounds
    <3>2. /\ i \in 0 .. RECE_BUF_LEN - 1
          /\ ofs(i) = IF k < buffUsedLen THEN k + RECE_BUF_LEN - buffUsedLen
                                         ELSE k - buffUsedLen
      BY <3>1, RingPlace DEF ofs
    <3>3. FromRing(k)' = ring'[i] /\ DOMAIN ring = 0 .. RECE_BUF_LEN - 1
      BY <1>4 DEF FromRing, Advanced, TypeOK, RingOK
    <3>4. FileUnit(flashProgramLen + k)' = FileUnit(flashProgramLen + k)
      BY <1>4 DEF FileUnit
    <3> HIDE DEF i
    <3>5. CASE k < buffUsedLen
      <4>1. ~(ofs(i) < n)
        BY <1>1, <1>2, <3>1, <3>2, <3>5, Bounds
      <4>2. ring'[i] = ring[i]
        BY <4>1, <1>4, <3>2, <3>3
      <4>3. FromRing(k) = FileUnit(flashProgramLen + k)
        BY <3>1, <3>5, <1>1 DEF RingInv
      <4>4. QED
        BY <4>2, <4>3, <3>3, <3>4 DEF FromRing, i
    <3>6. CASE ~(k < buffUsedLen)
      <4>1. ofs(i) < n /\ Taken + ofs(i) - BIN_INF_LEN = flashProgramLen + k
        BY <1>1, <1>2, <1>3, <1>4, <1>5, <3>1, <3>2, <3>6, Bounds
      <4>2. ring'[i] = FileUnit(flashProgramLen + k)
        BY <4>1, <1>4, <3>2, <3>3
      <4>3. QED
        BY <4>2, <3>3, <3>4
    <3>7. QED
      BY <3>5, <3>6
  <2>4. QED
    BY <2>2, <2>3 DEF RingInv
<1>12. DataInv'
  BY <1>3, <1>4 DEF DataInv, flash
<1>13. FlagInv' /\ CopyInv'
  BY <1>4, FlashKept
<1>14. QED
  BY <1>9, <1>10, <1>11, <1>12, <1>13

LEMMA IdleStep ==
  ASSUME IInv, NoEvent \/ NothingToSave
  PROVE  IInv'
<1> USE DEF IInv
<1>1. /\ UNCHANGED <<flash, cpu, loop, connFlag, deal, para, net>>
      /\ phase' \in {"events", "save"}
  BY DEF NoEvent, NothingToSave
<1>2. TypeOK'
  BY <1>1 DEF TypeOK, FlashOK, StatesOK, RingOK, CountsOK, flash, loop, deal, para, net
<1>3. LengthInv'
  BY <1>1 DEF LengthInv, Nothing, deal, para, net
<1>4. RingInv'
  BY <1>1, RingKept DEF para, net
<1>5. DataInv'
  BY <1>1 DEF DataInv, Holds, flash, loop, para, net
<1>6. FlagInv' /\ CopyInv'
  BY <1>1, FlashKept
<1>7. QED
  BY <1>2, <1>3, <1>4, <1>5, <1>6

LEMMA SendStep ==
  ASSUME IInv, NEW n \in 1 .. RECE_BUF_LEN, Send(n)
  PROVE  IInv'
<1> USE DEF IInv
<1>1. /\ sock + n <= RECE_BUF_LEN /\ hPos + n <= BIN_INF_LEN + SizeOf[hVer]
      /\ sock' = sock + n /\ hPos' = hPos + n /\ link = "up" /\ cpu = "iap"
      /\ UNCHANGED <<flash, cpu, loop, phase, connFlag, deal, para, link, hVer, hGood>>
  BY DEF Send
<1>2. /\ sock \in Nat /\ hPos \in Nat /\ n \in Nat /\ fileDataLen \in Nat
      /\ SizeOf[hVer] \in Nat /\ SizeOf[hVer] <= TotalUnits
  BY SizeFits, Bounds DEF TypeOK, CountsOK
<1>3. TypeOK'
  <2>1. FlashOK' /\ StatesOK' /\ RingOK'
    BY <1>1 DEF TypeOK, FlashOK, StatesOK, RingOK, flash, deal, para
  <2>2. sock' \in 0 .. RECE_BUF_LEN /\ hPos' \in 0 .. BIN_INF_LEN + TotalUnits
    BY <1>1, <1>2, Bounds
  <2>3. CountsOK'
    BY <1>1, <2>2 DEF TypeOK, CountsOK, loop, para
  <2>4. QED
    BY <2>1, <2>3 DEF TypeOK
<1>4. LengthInv'
  BY <1>1, <1>2, Bounds DEF LengthInv, deal, para
<1>5. RingInv'
  BY <1>1, RingKept DEF para
<1>6. DataInv'
  BY <1>1 DEF DataInv, flash, para
<1>7. FlagInv' /\ CopyInv'
  BY <1>1, FlashKept
<1>8. QED
  BY <1>3, <1>4, <1>5, <1>6, <1>7

\* What saveUpdatedFile takes was received, and lies behind what it programmed before.
LEMMA SaveStep ==
  ASSUME IInv, Save(FALSE)
  PROVE  IInv'
<1> USE DEF IInv
<1> DEFINE n == SaveLen
           at(a) == Index(a) - flashProgramLen
           last == iapFileLen = flashProgramLen' + BIN_INF_LEN
<1>1. /\ sock \in Nat /\ hPos \in Nat /\ buffUsedLen \in Nat /\ flashProgramLen \in Nat
      /\ fileDataLen \in Nat /\ SizeOf[hVer] \in Nat /\ hVer \in Versions
      /\ buffUsedLen <= RECE_BUF_LEN
  BY SizeFits, Bounds DEF TypeOK, RingOK, CountsOK
<1>2. n \in 0 .. buffUsedLen /\ n > 0
  BY SaveLenType DEF Save
<1>3. /\ fileDataLen >= BIN_INF_LEN
      /\ iapFileLen = BIN_INF_LEN + SizeOf[hVer] /\ SizeOf[hVer] <= MaxDataSize
      /\ fileDataLen = BIN_INF_LEN + flashProgramLen + buffUsedLen
      /\ hPos = sock + fileDataLen /\ hPos <= BIN_INF_LEN + SizeOf[hVer]
      /\ connFlag /\ cpu = "iap" /\ link \in {"up", "closing"}
  BY <1>1, <1>2, Bounds DEF Save, LengthInv
<1>4. /\ phase' = "events"
      /\ UNCHANGED <<user, loop, connFlag, ring, writeIndex, iapFileLen,
                    fileDataLen, sock, hVer, hGood, hPos>>
  BY DEF Save
<1>5. flashProgramLen + n <= MaxDataSize
  BY <1>1, <1>2, <1>3, Bounds
<1>6. /\ bak' = [a \in Addr |->
                   IF at(a) \notin 0 .. n - 1 THEN bak[a]
                   ELSE IF bak[a] # Erased THEN Junk ELSE FromRing(at(a))]
      /\ readIndex' = Advanced(readIndex, n)
      /\ buffUsedLen' = buffUsedLen - n
      /\ flashProgramLen' = flashProgramLen + n
      /\ fileCheckSum' = SumRight(n)
      /\ cpu' = IF last /\ fileCheckSum' THEN "flagErase" ELSE cpu
      /\ link' = IF last THEN "closing" ELSE link
  BY <1>1, <1>2, <1>5, Bounds DEF Save
<1> HIDE DEF n, last
<1>7. \A k \in 0 .. n - 1 : FromRing(k) \in Content
  <2> SUFFICES ASSUME NEW k \in 0 .. n - 1 PROVE FromRing(k) \in Content
    OBVIOUS
  <2>1. k \in 0 .. RECE_BUF_LEN
    BY <1>1, <1>2, Bounds
  <2>2. Advanced(readIndex, k) \in 0 .. RECE_BUF_LEN - 1
    BY <2>1, RingMoves DEF TypeOK, RingOK
  <2>3. QED
    BY <2>2 DEF FromRing, TypeOK, RingOK
<1>8. readIndex' \in 0 .. RECE_BUF_LEN - 1 /\ n \in 0 .. RECE_BUF_LEN
  <2>1. n \in 0 .. RECE_BUF_LEN
    BY <1>1, <1>2, Bounds
  <2>2. readIndex \in 0 .. RECE_BUF_LEN - 1
    BY DEF TypeOK, RingOK
  <2>3. QED
    BY <1>6, <2>1, <2>2, RingMoves
<1>9. TypeOK'
  <2>1. bak' \in FlashImage
    BY <1>6, <1>7, FlagIsNoData DEF TypeOK, FlashOK, FlashImage
  <2>2. FlashOK'
    BY <2>1, <1>4 DEF TypeOK, FlashOK
  <2>3. SumRight(n) \in BOOLEAN
    BY DEF SumRight, TypeOK, StatesOK
  <2>4. StatesOK'
    BY <1>3, <1>4, <1>6, <2>3 DEF TypeOK, StatesOK
  <2>5. RingOK'
    BY <1>1, <1>2, <1>4, <1>6, <1>8, Bounds DEF TypeOK, RingOK
  <2>6. CountsOK'
    BY <1>1, <1>2, <1>4, <1>5, <1>6, Bounds DEF TypeOK, CountsOK, loop
  <2>7. QED
    BY <2>2, <2>4, <2>5, <2>6 DEF TypeOK
<1>10. LengthInv'
  <2>1. link' \in {"up", "closing"} /\ cpu' \in {"iap", "flagErase"} /\ connFlag'
    BY <1>3, <1>4, <1>6
  <2>2. fileDataLen' = BIN_INF_LEN + flashProgramLen' + buffUsedLen'
    BY <1>1, <1>2, <1>3, <1>4, <1>6, Bounds
  <2>3. QED
    BY <1>1, <1>3, <1>4, <2>1, <2>2, Bounds DEF LengthInv
<1>11. RingInv'
  <2>1. /\ readIndex \in 0 .. RECE_BUF_LEN - 1 /\ writeIndex \in 0 .. RECE_BUF_LEN - 1
        /\ readIndex' = IF readIndex + n < RECE_BUF_LEN THEN readIndex + n
                                                        ELSE readIndex + n - RECE_BUF_LEN
    BY <1>6, <1>8, RingMoves DEF TypeOK, RingOK
  <2>2. IF readIndex' <= writeIndex'
          THEN \/ buffUsedLen' = writeIndex' - readIndex'
               \/ buffUsedLen' = RECE_BUF_LEN /\ readIndex' = writeIndex'
          ELSE buffUsedLen' = RECE_BUF_LEN - readIndex' + writeIndex'
    BY <1>1, <1>2, <1>4, <1>6, <2>1, Bounds DEF RingInv
  <2>3. \A k \in 0 .. buffUsedLen' - 1 : FromRing(k)' = FileUnit(flashProgramLen + k)'
    <3> SUFFICES ASSUME NEW k \in 0 .. buffUsedLen' - 1
                 PROVE  FromRing(k)' = FileUnit(flashProgramLen + k)'
      OBVIOUS
    <3>1. k + n \in 0 .. buffUsedLen - 1
      BY <1>1, <1>2, <1>6
    <3>2. k \in 0 .. RECE_BUF_LEN /\ k + n \in 0 .. RECE_BUF_LEN
      BY <1>1, <1>2, <3>1, Bounds
    <3>3. Advanced(readIndex', k) = Advanced(readIndex, k + n)
      <4>1. /\ Advanced(readIndex', k) =
                 IF readIndex' + k < RECE_BUF_LEN THEN readIndex' + k
                                                  ELSE readIndex' + k - RECE_BUF_LEN
            /\ Advanced(readIndex, k + n) =
                 IF readIndex + (k + n) < RECE_BUF_LEN THEN readIndex + (k + n)
                                                  ELSE readIndex + (k + n) - RECE_BUF_LEN
        BY <1>8, <2>1, <3>2, RingMoves
      <4>2. QED
        BY <1>1, <1>2, <1>8, <2>1, <3>1, <3>2, <4>1, Bounds
    <3>4. FromRing(k)' = FromRing(k + n)
      BY <1>4, <3>3 DEF FromRing, Advanced
    <3>5. FromRing(k + n) = FileUnit(flashProgramLen + (k + n))
      BY <3>1 DEF RingInv
    <3>6. flashProgramLen' + k = flashProgramLen + (k + n)
      BY <1>1, <1>2, <1>6, <3>1, <3>2
    <3>7. FileUnit(flashProgramLen + k)' = FileUnit(flashProgramLen + (k + n))
      BY <1>4, <3>6 DEF FileUnit
    <3>8. QED
      BY <3>4, <3>5, <3>7
  <2>4. QED
    BY <2>2, <2>3 DEF RingInv
<1>12. \A a \in Addr : Index(a) >= flashProgramLen => bak[a] = Erased
  BY <1>3 DEF DataInv
<1>13. \A a \in Addr : Index(a) >= flashProgramLen + n => bak'[a] = bak[a]
  <2> SUFFICES ASSUME NEW a \in Addr, Index(a) >= flashProgramLen + n
               PROVE  bak'[a] = bak[a]
    OBVIOUS
  <2>1. at(a) \notin 0 .. n - 1
    BY <1>1, <1>2, IndexType
  <2>2. QED
    BY <1>6, <2>1
<1>14. fileCheckSum' => \A k \in 0 .. flashProgramLen' - 1 :
                          bak'[AddrOf(k)] = Data(hVer, AddrOf(k))
  <2> SUFFICES ASSUME fileCheckSum', NEW k \in 0 .. flashProgramLen' - 1
               PROVE  bak'[AddrOf(k)] = Data(hVer, AddrOf(k))
    OBVIOUS
  <2>1. k \in 0 .. TotalUnits - 1 /\ k < flashProgramLen + n
    BY <1>1, <1>2, <1>5, <1>6, Bounds
  <2>2. AddrOf(k) \in Addr /\ Index(AddrOf(k)) = k
    BY <2>1, AddrOfType, AddrIndex
  <2> DEFINE b == AddrOf(k)
  <2> HIDE DEF b
  <2>3. b \in Addr /\ at(b) = k - flashProgramLen
    BY <2>2 DEF b
  <2>4. CASE k < flashProgramLen
    <3>1. bak'[b] = bak[b]
      <4>1. at(b) \notin 0 .. n - 1
        BY <1>1, <1>2, <2>1, <2>3, <2>4
      <4>2. QED
        BY <1>6, <2>3, <4>1
    <3>2. fileCheckSum /\ k \in 0 .. flashProgramLen - 1
      <4>1. SumRight(n)
        BY <1>6
      <4>2. QED
        BY <1>1, <2>1, <2>4, <4>1 DEF SumRight
    <3>3. bak[b] = Data(hVer, b)
      BY <1>3, <3>2 DEF DataInv, b
    <3>4. QED
      BY <3>1, <3>3 DEF b
  <2>5. CASE ~(k < flashProgramLen)
    <3>1. k - flashProgramLen \in 0 .. n - 1
      BY <1>1, <1>2, <2>1, <2>5
    <3>2. bak[b] = Erased
      BY <1>1, <1>12, <2>1, <2>2, <2>5 DEF b
    <3>3. bak'[b] = FromRing(k - flashProgramLen)
      BY <1>6, <2>3, <3>1, <3>2
    <3>4. flashProgramLen + (k - flashProgramLen) = k
      BY <1>1, <2>1
    <3>5. FromRing(k - flashProgramLen) = Data(hVer, b)
      BY <1>6, <3>1, <3>4 DEF SumRight, b
    <3>6. QED
      BY <3>3, <3>5 DEF b
  <2>6. QED
    BY <2>4, <2>5
<1>15. \A a \in Addr : a[1] = NBlocks - 1 /\ a[2] = BlockPages - 1 => bak'[a] = bak[a]
  <2> SUFFICES ASSUME NEW a \in Addr, a[1] = NBlocks - 1, a[2] = BlockPages - 1
               PROVE  bak'[a] = bak[a]
    OBVIOUS
  <2>1. Index(a) >= MaxDataSize /\ Index(a) \in Nat
    BY LastPage, IndexType
  <2>2. QED
    BY <1>1, <1>2, <1>5, <1>13, <2>1, Bounds
<1>16. DataInv'
  <2>1. cpu' = "flagErase" => Holds(bak', hVer) /\ SizeOf[hVer] <= MaxDataSize
    <3> SUFFICES ASSUME cpu' = "flagErase" PROVE Holds(bak', hVer)
      BY <1>3
    <3>1. fileCheckSum' /\ iapFileLen = flashProgramLen' + BIN_INF_LEN
      BY <1>3, <1>6 DEF last
    <3>2. SizeOf[hVer] = flashProgramLen'
      BY <1>1, <1>2, <1>3, <1>6, <3>1, Bounds
    <3>3. QED
      BY <1>14, <3>1, <3>2 DEF Holds, Extent
  <2>2. \A o \in Offsets :
          bak'[<<NBlocks - 1, BlockPages - 1, o>>] \in {Erased, Junk, FlagWord}
    BY <1>15, GeometryAssumption DEF DataInv, Addr, Blocks, Pages
  <2>3. \A a \in Addr : Index(a) >= flashProgramLen' => bak'[a] = Erased
    <3> SUFFICES ASSUME NEW a \in Addr, Index(a) >= flashProgramLen' PROVE bak'[a] = Erased
      OBVIOUS
    <3>1. Index(a) >= flashProgramLen + n /\ Index(a) >= flashProgramLen
      BY <1>1, <1>2, <1>6, IndexType
    <3>2. QED
      BY <1>12, <1>13, <3>1
  <2>4. cpu' \in {"iap", "flagErase"} /\ hVer' = hVer
    BY <1>3, <1>4, <1>6
  <2>5. QED
    BY <1>14, <2>1, <2>2, <2>3, <2>4 DEF DataInv, Holds
<1>17. FlagInv'
  <2>1. bak'[FlagAddr] = bak[FlagAddr]
    BY <1>15, FlagPlace
  <2>2. ~Flagged' /\ cpu' \in {"iap", "flagErase"}
    BY <1>3, <1>6, <2>1 DEF FlagInv, Flagged
  <2>3. QED
    BY <1>3, <1>4, <2>2 DEF FlagInv, WholeIn, Holds
<1>18. CopyInv'
  <2>1. cpu' \in {"iap", "flagErase"}
    BY <1>3, <1>6
  <2>2. QED
    BY <2>1 DEF CopyInv
<1>19. QED
  BY <1>9, <1>10, <1>11, <1>16, <1>17, <1>18

\* The flag is set behind the data, and the update it announces is whole.
LEMMA FlagEraseStep ==
  ASSUME IInv, FlagErase
  PROVE  IInv'
<1> USE DEF IInv
<1>1. /\ bak' = [a \in Addr |-> IF a[1] = FlagAddr[1] /\ a[2] = FlagAddr[2]
                                  THEN Erased ELSE bak[a]]
      /\ cpu = "flagErase" /\ cpu' = "flagWrite"
      /\ UNCHANGED <<user, loop, phase, connFlag, deal, para, net>>
  BY DEF FlagErase
<1>2. TypeOK'
  <2>1. FlashOK'
    BY <1>1, FlagIsNoData DEF TypeOK, FlashOK, FlashImage
  <2>2. QED
    BY <1>1, <2>1 DEF TypeOK, StatesOK, RingOK, CountsOK, loop, deal, para, net
<1>3. LengthInv'
  BY <1>1 DEF LengthInv, Nothing, deal, para, net
<1>4. RingInv'
  BY <1>1, RingKept DEF para, net
<1>5. \A a \in Addr : bak'[a] \in {bak[a], Erased}
  BY <1>1
<1>6. DataInv'
  <2>1. hVer \in Versions /\ SizeOf[hVer] <= MaxDataSize /\ Holds(bak, hVer)
    BY <1>1 DEF DataInv, TypeOK, CountsOK
  <2>2. Holds(bak', hVer)
    BY <1>1, <2>1, OffFlagPage DEF Holds
  <2>3. \A o \in Offsets :
          bak'[<<NBlocks - 1, BlockPages - 1, o>>] \in {Erased, Junk, FlagWord}
    BY <1>5, GeometryAssumption DEF DataInv, Addr, Blocks, Pages
  <2>4. QED
    BY <1>1, <2>1, <2>2, <2>3 DEF DataInv, Holds, net
<1>7. FlagInv'
  <2>1. ~Flagged'
    BY <1>1, FlagPlace, FlagIsNoData DEF Flagged
  <2>2. QED
    BY <1>1, <2>1 DEF FlagInv, WholeIn, Holds
<1>8. CopyInv'
  BY <1>1 DEF CopyInv
<1>9. QED
  BY <1>2, <1>3, <1>4, <1>6, <1>7, <1>8

\* What a reset leaves.
LEMMA AfterReset ==
  ASSUME IInv, ResetRam, Down', user' \in FlashImage, bak' \in FlashImage,
         \/ bak'[FlagAddr] = FlagWord /\ WholeIn(bak')
         \/ bak'[FlagAddr] # FlagWord /\ WholeIn(user'),
         \A o \in Offsets :
           bak'[<<NBlocks - 1, BlockPages - 1, o>>] \in {Erased, Junk, FlagWord}
  PROVE  IInv'
<1>1. TypeOK'
  BY Zeros DEF ResetRam, IAPParaInit, IInv, TypeOK, FlashOK, StatesOK, RingOK, CountsOK
<1>2. LengthInv'
  <2>1. SizeOf[hVer] \in Nat
    BY SizeFits DEF IInv, TypeOK, CountsOK
  <2>2. QED
    BY <2>1, Bounds DEF ResetRam, IAPParaInit, LengthInv, Nothing
<1>3. RingInv'
  BY RingEmpty DEF ResetRam, IAPParaInit
<1>4. DataInv'
  BY DEF DataInv, ResetRam
<1>5. FlagInv'
  BY DEF FlagInv, Flagged, WholeIn, Holds
<1>6. CopyInv'
  BY DEF CopyInv, ResetRam
<1>7. QED
  BY <1>1, <1>2, <1>3, <1>4, <1>5, <1>6 DEF IInv

LEMMA FlagWriteStep ==
  ASSUME IInv, FlagWrite
  PROVE  IInv' /\ Holds(bak', hVer) /\ Flagged'
<1>1. /\ bak' = [bak EXCEPT ![FlagAddr] = FlagWord] /\ bak \in FlashImage
      /\ user' = user /\ user \in FlashImage /\ hVer \in Versions
      /\ SizeOf[hVer] <= MaxDataSize /\ Holds(bak, hVer)
  BY DEF FlagWrite, IInv, TypeOK, FlashOK, CountsOK, DataInv
<1>2. bak' \in FlashImage /\ bak'[FlagAddr] = FlagWord
  BY <1>1, FlagPlace DEF FlashImage
<1>3. \A a \in Addr : bak'[a] = IF a = FlagAddr THEN FlagWord ELSE bak[a]
  BY <1>1 DEF FlashImage
<1>4. Holds(bak', hVer)
  BY <1>1, <1>3, OffFlagPage DEF Holds
<1>5. WholeIn(bak')
  BY <1>1, <1>4 DEF WholeIn
<1>6. \A o \in Offsets :
        bak'[<<NBlocks - 1, BlockPages - 1, o>>] \in {Erased, Junk, FlagWord}
  BY <1>3, GeometryAssumption DEF IInv, DataInv, Addr, Blocks, Pages
<1>7. IInv'
  BY <1>1, <1>2, <1>5, <1>6, AfterReset DEF FlagWrite
<1>8. QED
  BY <1>2, <1>4, <1>7 DEF Flagged

\* The steps of IAPCopyFlashDeal, which take place without a connection.
LEMMA CopyingKeeps ==
  ASSUME IInv, RamOnly, cpu \in {"erase", "copy", "cleanup"},
         cpu' \in {"erase", "copy", "hung", "cleanup", "app"},
         user' \in FlashImage, bak' \in FlashImage, blk' \in Blocks, page' \in Pages,
         \A o \in Offsets :
           bak'[<<NBlocks - 1, BlockPages - 1, o>>] \in {Erased, Junk, FlagWord}
  PROVE  TypeOK' /\ LengthInv' /\ RingInv' /\ DataInv'
<1> USE DEF IInv, RamOnly
<1>1. TypeOK'
  BY DEF TypeOK, FlashOK, StatesOK, RingOK, CountsOK, deal, para, net
<1>2. LengthInv'
  BY DEF LengthInv, Nothing, deal, para, net
<1>3. RingInv'
  BY RingKept DEF para, net
<1>4. DataInv'
  BY DEF DataInv
<1>5. QED
  BY <1>1, <1>2, <1>3, <1>4

LEMMA CopyEraseStep ==
  ASSUME IInv, CopyErase
  PROVE  IInv'
<1>1. /\ user' = EraseBlock(user, blk) /\ bak' = bak /\ page' = page /\ page = 0
      /\ cpu = "erase" /\ cpu' \in {"erase", "copy"} /\ RamOnly
      /\ user \in FlashImage /\ bak \in FlashImage /\ blk \in Blocks
      /\ Flagged /\ WholeIn(bak)
  BY DEF CopyErase, IInv, TypeOK, FlashOK, CountsOK, FlagInv, CopyInv
<1>2. user' \in FlashImage /\ blk' \in Blocks
  BY <1>1, FlashType, Zeros, GeometryAssumption DEF CopyErase, Blocks
<1>3. TypeOK' /\ LengthInv' /\ RingInv' /\ DataInv'
  BY <1>1, <1>2, Zeros, CopyingKeeps DEF IInv, DataInv
<1>4. FlagInv'
  BY <1>1 DEF FlagInv, Flagged, WholeIn, Holds
<1>5. \A a \in Addr : a[1] < blk + 1 => user'[a] = Erased
  BY <1>1, AddrParts DEF IInv, CopyInv, EraseBlock, Blocks
<1>6. CopyInv'
  <2>1. CASE blk + 1 < NBlocks
    <3>1. blk' = blk + 1 /\ cpu' = "erase"
      BY <1>1, <2>1 DEF CopyErase
    <3>2. QED
      BY <1>1, <1>5, <3>1 DEF CopyInv
  <2>2. CASE ~(blk + 1 < NBlocks)
    <3>1. blk' = 0 /\ page' = 0 /\ cpu' = "copy"
      BY <1>1, <2>2 DEF CopyErase
    <3>2. \A a \in Addr : user'[a] = Erased
      BY <1>1, <1>5, <2>2, AddrParts, GeometryAssumption DEF Blocks
    <3>3. \A a \in Addr : ~(a[1] < 0) /\ ~(a[2] < 0)
      BY AddrParts DEF Blocks, Pages
    <3>4. QED
      BY <3>1, <3>2, <3>3 DEF CopyInv
  <2>3. QED
    BY <2>1, <2>2
<1>7. QED
  BY <1>3, <1>4, <1>6 DEF IInv

LEMMA CleanupStep ==
  ASSUME IInv, Cleanup
  PROVE  IInv'
<1>1. /\ bak' = EraseBlock(bak, blk) /\ user' = user /\ page' = page /\ page \in Pages
      /\ cpu = "cleanup" /\ cpu' \in {"cleanup", "app"} /\ RamOnly
      /\ user \in FlashImage /\ bak \in FlashImage /\ blk \in Blocks
      /\ WholeIn(user) /\ page = 0
  BY DEF Cleanup, IInv, TypeOK, FlashOK, CountsOK, FlagInv, CopyInv
<1>2. bak' \in FlashImage /\ blk' \in Blocks
  BY <1>1, FlashType, Zeros, GeometryAssumption DEF Cleanup, Blocks
<1>3. \A a \in Addr : bak'[a] \in {bak[a], Erased}
  BY <1>1 DEF EraseBlock
<1>4. \A o \in Offsets :
        bak'[<<NBlocks - 1, BlockPages - 1, o>>] \in {Erased, Junk, FlagWord}
  BY <1>3, GeometryAssumption DEF IInv, DataInv, Addr, Blocks, Pages
<1>5. TypeOK' /\ LengthInv' /\ RingInv' /\ DataInv'
  BY <1>1, <1>2, <1>4, CopyingKeeps
<1>6. FlagInv'
  <2>1. WholeIn(user)'
    BY <1>1 DEF WholeIn, Holds
  <2>2. CASE blk + 1 < NBlocks
    <3>1. blk' = blk + 1 /\ cpu' = "cleanup" /\ blk' # 0
      BY <1>1, <2>2 DEF Cleanup, Blocks
    <3>2. QED
      BY <2>1, <3>1 DEF FlagInv
  <2>3. CASE ~(blk + 1 < NBlocks)
    <3>1. cpu' = "app" /\ blk = NBlocks - 1
      BY <1>1, <2>3, GeometryAssumption DEF Cleanup, Blocks
    <3>2. ~Flagged'
      BY <1>1, <3>1, FlagPlace, FlagIsNoData DEF EraseBlock, Flagged
    <3>3. QED
      BY <2>1, <3>1, <3>2 DEF FlagInv
  <2>4. QED
    BY <2>2, <2>3
<1>7. CopyInv'
  BY <1>1 DEF CopyInv
<1>8. QED
  BY <1>5, <1>6, <1>7 DEF IInv

\* The page to be written is erased, so that it takes what is written unless it fails.
LEMMA PageTakes ==
  ASSUME IInv, cpu = "copy", NEW o \in Offsets
  PROVE  /\ <<blk, page, o>> \in Addr
         /\ ProgramPage(user, blk, page, [p \in Offsets |-> bak[<<blk, page, p>>]])[<<blk, page, o>>]
              = bak[<<blk, page, o>>]
<1> DEFINE a == <<blk, page, o>>
<1>1. blk \in Blocks /\ page \in Pages
  BY DEF IInv, TypeOK, CountsOK
<1>2. a \in Addr /\ a[1] = blk /\ a[2] = page /\ a[3] = o
  BY <1>1 DEF Addr
<1>3. ~(a[1] < blk \/ (a[1] = blk /\ a[2] < page))
  BY <1>1, <1>2 DEF Blocks, Pages
<1>4. user[a] = Erased
  BY <1>2, <1>3 DEF IInv, CopyInv
<1>5. QED
  BY <1>2, <1>4 DEF ProgramPage

LEMMA CopyPageStep ==
  ASSUME IInv, NEW fault \in BOOLEAN, CopyPage(fault)
  PROVE  /\ IInv' /\ Flagged' /\ Flagged
         /\ cpu' = "hung" => ~CopyPage(FALSE)
         /\ cpu' = "cleanup" => \A a \in Addr : user'[a] = bak[a]
<1> DEFINE new == [o \in Offsets |-> bak[<<blk, page, o>>]]
<1>1. /\ user' = (IF fault THEN TornPage(user, blk, page)
                           ELSE ProgramPage(user, blk, page, new))
      /\ cpu = "copy" /\ bak' = bak /\ RamOnly
      /\ user \in FlashImage /\ bak \in FlashImage /\ blk \in Blocks /\ page \in Pages
      /\ Flagged /\ WholeIn(bak)
  BY DEF CopyPage, IInv, TypeOK, FlashOK, CountsOK, FlagInv
<1>2. \A o \in Offsets : <<blk, page, o>> \in Addr
  BY <1>1 DEF Addr
<1>3. user' \in FlashImage
  <2>1. TornPage(user, blk, page) \in FlashImage
    BY <1>1, FlashType
  <2>2. \A a \in Addr : a[1] = blk /\ a[2] = page =>
          new[a[3]] \in Content \cup {FlagWord}
    BY <1>1, <1>2, AddrParts DEF FlashImage
  <2>3. ProgramPage(user, blk, page, new) \in FlashImage
    BY <1>1, <2>2, FlagIsNoData DEF ProgramPage, FlashImage
  <2>4. QED
    BY <1>1, <2>1, <2>3
<1>4. \A a \in Addr : ~(a[1] = blk /\ a[2] = page) => user'[a] = user[a]
  BY <1>1 DEF TornPage, ProgramPage
<1> DEFINE differs == \E o \in Offsets : user'[<<blk, page, o>>] # bak[<<blk, page, o>>]
<1>5. ~fault => ~differs
  BY <1>1, PageTakes
<1>6. ~differs => \A a \in Addr : a[1] = blk /\ a[2] = page => user'[a] = bak[a]
  BY AddrParts
<1>7. /\ differs => cpu' = "hung" /\ UNCHANGED loop
      /\ ~differs /\ MorePages => page' = page + 1 /\ cpu' = "copy" /\ blk' = blk
      /\ ~differs /\ ~MorePages /\ blk + 1 < NBlocks =>
           page' = 0 /\ blk' = blk + 1 /\ cpu' = "copy"
      /\ ~differs /\ ~MorePages /\ ~(blk + 1 < NBlocks) =>
           page' = 0 /\ blk' = 0 /\ cpu' = "cleanup"
  BY <1>1 DEF CopyPage
<1>8. cpu' = "hung" => ~CopyPage(FALSE)
  <2> SUFFICES ASSUME cpu' = "hung", CopyPage(FALSE) PROVE FALSE
    OBVIOUS
  <2>1. user' = ProgramPage(user, blk, page, new)
    BY DEF CopyPage
  <2>2. ~differs
    BY <1>1, <2>1, PageTakes
  <2>3. QED
    BY <1>7, <2>2
<1> HIDE DEF differs, new
<1>9. blk' \in Blocks /\ page' \in Pages /\ cpu' \in {"copy", "hung", "cleanup"}
  BY <1>1, <1>7, Zeros, GeometryAssumption DEF MorePages, Blocks, Pages, loop
<1>10. TypeOK' /\ LengthInv' /\ RingInv' /\ DataInv'
  BY <1>1, <1>3, <1>9, CopyingKeeps DEF IInv, DataInv
<1>11. ~differs => \A a \in Addr :
          user'[a] = IF a[1] < blk \/ (a[1] = blk /\ a[2] < page + 1)
                       THEN bak[a] ELSE Erased
  <2> SUFFICES ASSUME ~differs, NEW a \in Addr
               PROVE  user'[a] = IF a[1] < blk \/ (a[1] = blk /\ a[2] < page + 1)
                                   THEN bak[a] ELSE Erased
    OBVIOUS
  <2>1. a[1] \in Nat /\ a[2] \in Nat /\ blk \in Nat /\ page \in Nat
    BY <1>1, AddrParts DEF Blocks, Pages
  <2>2. user[a] = IF a[1] < blk \/ (a[1] = blk /\ a[2] < page) THEN bak[a] ELSE Erased
    BY <1>1 DEF IInv, CopyInv
  <2>3. CASE a[1] = blk /\ a[2] = page
    BY <1>6, <2>1, <2>3
  <2>4. CASE ~(a[1] = blk /\ a[2] = page)
    <3>1. user'[a] = user[a]
      BY <1>4, <2>4
    <3>2. QED
      BY <2>1, <2>2, <2>4, <3>1
  <2>5. QED
    BY <2>3, <2>4
<1>12. ~differs /\ ~MorePages => \A a \in Addr :
          /\ user'[a] = IF a[1] < blk + 1 THEN bak[a] ELSE Erased
          /\ ~(a[2] < 0)
  <2> SUFFICES ASSUME ~differs, ~MorePages, NEW a \in Addr
               PROVE  /\ user'[a] = IF a[1] < blk + 1 THEN bak[a] ELSE Erased
                      /\ ~(a[2] < 0)
    OBVIOUS
  <2>1. /\ a[1] \in Nat /\ a[2] \in Nat /\ a[2] < page + 1 /\ blk \in Nat
    BY <1>1, AddrParts, GeometryAssumption DEF Blocks, Pages, MorePages
  <2>2. QED
    BY <1>11, <2>1
<1>13. ~differs /\ ~MorePages /\ ~(blk + 1 < NBlocks) => \A a \in Addr : user'[a] = bak[a]
  BY <1>1, <1>12, AddrParts, GeometryAssumption DEF Blocks
<1>14. cpu' = "cleanup" => \A a \in Addr : user'[a] = bak[a]
  BY <1>7, <1>13
<1>15. CopyInv'
  <2>1. CASE differs
    BY <1>7, <2>1 DEF CopyInv
  <2>2. CASE ~differs /\ MorePages
    BY <1>1, <1>7, <1>11, <2>2 DEF CopyInv
  <2>3. CASE ~differs /\ ~MorePages /\ blk + 1 < NBlocks
    BY <1>1, <1>7, <1>12, <2>3 DEF CopyInv
  <2>4. CASE ~differs /\ ~MorePages /\ ~(blk + 1 < NBlocks)
    BY <1>7, <2>4 DEF CopyInv
  <2>5. QED
    BY <2>1, <2>2, <2>3, <2>4
<1>16. Flagged' /\ WholeIn(bak)'
  BY <1>1 DEF Flagged, WholeIn, Holds
<1>17. FlagInv'
  <2>1. cpu' = "cleanup" => WholeIn(user)' /\ \A a \in Addr : user'[a] = bak'[a]
    <3> SUFFICES ASSUME cpu' = "cleanup"
                 PROVE  WholeIn(user') /\ \A a \in Addr : user'[a] = bak'[a]
      BY DEF WholeIn, Holds
    <3>1. QED
      BY <1>1, <1>14, WholeKept
  <2>2. QED
    BY <1>9, <1>16, <2>1 DEF FlagInv
<1>18. QED
  BY <1>1, <1>8, <1>10, <1>14, <1>15, <1>16, <1>17 DEF IInv

\* Wherever power fails, one of the two areas is whole, and the flag says which.
LEMMA PowerLossStep ==
  ASSUME IInv, Environment, NEW torn \in BOOLEAN, PowerLoss(torn)
  PROVE  /\ IInv'
         /\ cpu # "cleanup" => Flagged' = Flagged /\ (Flagged => bak' = bak)
         /\ ~Flagged \/ cpu = "cleanup" => user' = user
         /\ cpu = "cleanup" => bak' = bak /\ Flagged /\ \A a \in Addr : user[a] = bak[a]
<1>1. /\ user \in FlashImage /\ bak \in FlashImage /\ ResetRam /\ cpu' = "off"
      /\ cpu = "cleanup" => blk = 0 /\ ~torn
  BY DEF PowerLoss, Environment, IInv, TypeOK, FlashOK
<1>2. /\ user' \in {user, TornBlock(user, blk), TornPage(user, blk, page)}
      /\ cpu \notin {"erase", "copy"} => user' = user
  BY DEF PowerLoss
<1>3. /\ \A a \in Addr : bak'[a] \in {bak[a], Junk}
      /\ bak' \in FlashImage
      /\ cpu \in {"erase", "copy", "hung", "app", "reset"} => bak' = bak
  <2>1. cpu \in {"erase", "copy", "hung", "app", "reset"} => bak' = bak
    BY DEF PowerLoss
  <2>2. \/ bak' = bak \/ bak' = TornBlock(bak, blk)
        \/ bak' = TornPage(bak, FlagAddr[1], FlagAddr[2])
        \/ bak' = TornPage(bak, AddrOf(flashProgramLen)[1], AddrOf(flashProgramLen)[2])
    BY DEF PowerLoss
  <2>3. bak' \in FlashImage
    BY <1>1, <2>2, FlashType
  <2>4. /\ \A a \in Addr : TornBlock(bak, blk)[a] \in {bak[a], Junk}
        /\ \A b, p : \A a \in Addr : TornPage(bak, b, p)[a] \in {bak[a], Junk}
    BY DEF TornBlock, TornPage
  <2>5. QED
    BY <2>1, <2>2, <2>3, <2>4
<1>4. cpu = "cleanup" => bak' = bak
  BY <1>1 DEF PowerLoss
<1>5. cpu \notin {"erase", "copy", "hung", "cleanup", "reset"} => ~Flagged
  BY DEF PowerLoss, IInv, TypeOK, StatesOK, FlagInv
<1>6. cpu \in {"erase", "copy", "hung"} => Flagged /\ WholeIn(bak)
  BY DEF IInv, FlagInv
<1>7. cpu \notin {"erase", "copy", "hung", "reset"} => WholeIn(user)
  BY DEF PowerLoss, IInv, TypeOK, StatesOK, FlagInv
<1>8. cpu = "cleanup" => Flagged /\ WholeIn(bak) /\ \A a \in Addr : user[a] = bak[a]
  BY <1>1 DEF IInv, FlagInv
<1>9. ~Flagged => bak'[FlagAddr] # FlagWord
  BY <1>3, FlagPlace, FlagIsNoData DEF Flagged
<1>10. \A o \in Offsets :
         bak'[<<NBlocks - 1, BlockPages - 1, o>>] \in {Erased, Junk, FlagWord}
  BY <1>3, GeometryAssumption DEF IInv, DataInv, Addr, Blocks, Pages
<1>11. user' \in FlashImage
  BY <1>1, <1>2, FlashType
<1>12. \/ bak'[FlagAddr] = FlagWord /\ WholeIn(bak')
       \/ bak'[FlagAddr] # FlagWord /\ WholeIn(user')
  <2>1. CASE cpu \in {"erase", "copy", "hung", "cleanup"}
    <3>1. bak' = bak /\ Flagged /\ WholeIn(bak)
      BY <1>3, <1>4, <1>6, <1>8, <2>1
    <3>2. QED
      BY <3>1 DEF Flagged
  <2>2. CASE cpu \notin {"erase", "copy", "hung", "cleanup", "reset"}
    BY <1>2, <1>5, <1>7, <1>9, <2>2
  <2>3. CASE cpu = "reset"
    <3>1. bak' = bak /\ user' = user
      BY <1>2, <1>3, <2>3
    <3>2. (Flagged /\ WholeIn(bak)) \/ (~Flagged /\ WholeIn(user))
      BY <2>3 DEF IInv, FlagInv
    <3> QED
      BY <3>1, <3>2 DEF Flagged
  <2>4. QED
    BY <2>1, <2>2, <2>3
<1>13. IInv'
  BY <1>1, <1>3, <1>10, <1>11, <1>12, AfterReset
<1>14. cpu # "cleanup" => (Flagged' <=> Flagged) /\ (Flagged => bak' = bak)
  <2>1. Flagged /\ cpu # "cleanup" => bak' = bak
    BY <1>3, <1>5
  <2>2. ~Flagged => ~Flagged'
    BY <1>9 DEF Flagged
  <2>3. QED
    BY <2>1, <2>2 DEF Flagged
<1>15. QED
  <2>1. (Flagged' <=> Flagged) => Flagged' = Flagged
    BY DEF Flagged
  <2>2. cpu # "cleanup" => Flagged' = Flagged /\ (Flagged => bak' = bak)
    BY <1>14, <2>1
  <2>3. ~Flagged \/ cpu = "cleanup" => user' = user
    BY <1>2, <1>6
  <2>4. QED
    BY <1>4, <1>8, <1>13, <2>2, <2>3

-----------------------------------------------------------------------------
(* Safety *)

LEMMA Stutter == ASSUME IInv, UNCHANGED vars PROVE IInv'
<1> USE DEF vars, flash, loop, deal, para, net, IInv
<1>1. TypeOK'
  BY DEF TypeOK, FlashOK, StatesOK, RingOK, CountsOK
<1>2. LengthInv'
  BY DEF LengthInv, Nothing
<1>3. RingInv'
  BY RingKept
<1>4. DataInv'
  BY DEF DataInv, Holds
<1>5. FlagInv' /\ CopyInv'
  BY FlashKept
<1>6. QED
  BY <1>1, <1>2, <1>3, <1>4, <1>5

LEMMA NextStep ==
  ASSUME IInv, Next, Environment
  PROVE  IInv'
<1>1. CASE \E button \in BOOLEAN : Boot(button)
  BY <1>1, BootStep
<1>2. CASE Receiving
  BY <1>2, WipeStep, HeaderStep, ReceiveStep, IdleStep DEF Receiving
<1>3. CASE Saving
  BY <1>3, IdleStep, SaveStep DEF Saving, Faults, Environment
<1>4. CASE Updating
  BY <1>4, FlagEraseStep, FlagWriteStep, CopyEraseStep, CleanupStep, CopyPageStep DEF Updating
<1>5. CASE HostStep
  BY <1>5, ConnectedStep, DisconnectedStep, SendStep DEF HostStep
<1>6. CASE \E torn \in BOOLEAN : PowerLoss(torn)
  BY <1>6, PowerLossStep
<1>7. QED
  BY <1>1, <1>2, <1>3, <1>4, <1>5, <1>6 DEF Next

LEMMA Invariance == ASSUME Environment PROVE Spec => []IInv
<1>1. IInv /\ [Next]_vars => IInv'
  BY NextStep, Stutter
<1>2. QED
  BY <1>1, InitInv, PTL DEF Spec

\* The loader starts only whole images, and finds the flag set only on a whole one
\* (CopySafe), wherever a download or a copy was interrupted.
THEOREM CopyIsSafe == Environment => (Spec => []CopySafe)
<1> SUFFICES ASSUME Environment PROVE Spec => []CopySafe
  OBVIOUS
<1>1. IInv => CopySafe
  BY DEF IInv, FlagInv, CopySafe, FlagMeansWhole, BootsCompleteImage
<1>2. QED
  BY <1>1, Invariance, PTL

\* The ring holds what was received in order, wherever its indices wrap, and no data
\* reaches the page of the flag (DownloadSafe).
THEOREM DownloadIsSafe == Environment => (Spec => []DownloadSafe)
<1> SUFFICES ASSUME Environment PROVE Spec => []DownloadSafe
  OBVIOUS
<1>1. IInv => DownloadSafe
  <2> SUFFICES ASSUME IInv PROVE DownloadSafe
    OBVIOUS
  <2>1. /\ readIndex \in 0 .. RECE_BUF_LEN - 1 /\ writeIndex \in 0 .. RECE_BUF_LEN - 1
        /\ buffUsedLen \in 0 .. RECE_BUF_LEN
    BY DEF IInv, TypeOK, RingOK
  <2> DEFINE ahead == writeIndex - readIndex
             R == RECE_BUF_LEN
  <2>2. ahead % R = IF ahead < 0 THEN ahead + R ELSE ahead
    <3>1. ahead \in Int /\ -R <= ahead /\ ahead < R
      BY <2>1, Bounds
    <3> HIDE DEF ahead
    <3>2. QED
      BY <3>1, AroundTheRing, Bounds
  <2>3. buffUsedLen % R = IF buffUsedLen < R THEN buffUsedLen ELSE buffUsedLen - R
    BY <2>1, AroundTheRing, Bounds
  <2>4. ahead % R = buffUsedLen % R
    <3> DEFINE x == ahead % R
               y == buffUsedLen % R
    <3>1. x = (IF ahead < 0 THEN ahead + R ELSE ahead)
          /\ y = (IF buffUsedLen < R THEN buffUsedLen ELSE buffUsedLen - R)
      BY <2>2, <2>3
    <3> HIDE DEF x, y
    <3>2. x = y
      BY <2>1, <3>1, Bounds DEF IInv, RingInv
    <3>3. QED
      BY <3>2 DEF x, y
  <2>5. RingInOrder
    BY <2>4 DEF IInv, RingInv, RingInOrder
  <2>6. QED
    BY <2>5 DEF IInv, DataInv, DownloadSafe, FlagPageSpared
<1>2. QED
  BY <1>1, Invariance, PTL

\* A page of USER is erased whenever it is written, however the last copy ended, so
\* that the loader never hangs on a page that would have taken the data.
THEOREM HangsOnFaultOnly == Environment => (Spec => HangsOnlyOnFault)
<1> SUFFICES ASSUME Environment PROVE Spec => HangsOnlyOnFault
  OBVIOUS
<1>1. IInv /\ [Next]_vars => [cpu # "hung" /\ cpu' = "hung" => CopyFault]_vars
  <2> SUFFICES ASSUME IInv, Next, cpu # "hung", cpu' = "hung" PROVE CopyFault
    OBVIOUS
  <2>1. PICK fault \in BOOLEAN : CopyPage(fault)
    BY DEF Next, Boot, Receiving, Wipe, Header, Receive, NoEvent, Saving, NothingToSave,
         Save, Updating, FlagErase, FlagWrite, CopyErase, Cleanup, HostStep, Connected,
         Disconnected, Send, PowerLoss
  <2>2. ~CopyPage(FALSE)
    BY <2>1, CopyPageStep
  <2>3. QED
    BY <2>1, <2>2 DEF CopyFault
<1>2. QED
  BY <1>1, Invariance, PTL DEF Spec, HangsOnlyOnFault

-----------------------------------------------------------------------------
(* Refinement *)

\* The area that counts.
Selected == IF Flagged /\ cpu # "cleanup" THEN bak ELSE user

\* The abstract variables, by name.
Installed == VersionIn(Selected)
Executing == IF cpu = "app" THEN VersionIn(user) ELSE NotRunning
Ready     == IF cpu \in {"flagErase", "flagWrite"} THEN {hVer} ELSE {}

Failure == \E torn \in BOOLEAN : PowerLoss(torn)

LEMMA SelectedWhole == IInv => WholeIn(Selected)
BY DEF IInv, TypeOK, StatesOK, FlagInv, Selected

\* Only the writing of the flag changes what is installed.
LEMMA SelectedKept ==
  ASSUME IInv, Next, Environment, ~FlagWrite
  PROVE  \A a \in Addr : Selected'[a] = Selected[a]
<1>1. CASE \E button \in BOOLEAN : Boot(button)
  BY <1>1 DEF Boot, Selected, Flagged, flash
<1>2. CASE Receiving \/ Saving \/ HostStep \/ FlagErase
  <2>1. /\ cpu \in {"iap", "wipe", "flagErase"} /\ user' = user
        /\ cpu' \in {"iap", "wipe", "flagErase", "flagWrite"}
    BY <1>2 DEF Receiving, Wipe, Header, Receive, NoEvent, Saving, NothingToSave, Save,
         HostStep, Connected, Disconnected, Send, FlagErase, flash
  <2>2. ~Flagged /\ ~Flagged'
    <3>1. FlagInv /\ FlagInv'
      BY NextStep DEF IInv
    <3>2. QED
      BY <2>1, <3>1 DEF FlagInv
  <2>3. QED
    BY <2>1, <2>2 DEF Selected
<1>3. CASE CopyErase
  <2>1. cpu = "erase" /\ cpu' # "cleanup" /\ bak' = bak /\ Flagged
    BY <1>3 DEF CopyErase, IInv, FlagInv
  <2>2. QED
    BY <2>1 DEF Selected, Flagged
<1>4. CASE \E fault \in BOOLEAN : CopyPage(fault)
  <2>1. /\ cpu = "copy" /\ bak' = bak /\ Flagged /\ Flagged'
        /\ cpu' = "cleanup" => \A a \in Addr : user'[a] = bak[a]
    BY <1>4, CopyPageStep DEF CopyPage
  <2>2. QED
    BY <2>1 DEF Selected
<1>5. CASE Cleanup
  <2>1. cpu = "cleanup" /\ user' = user /\ cpu' \in {"cleanup", "app"}
    BY <1>5 DEF Cleanup
  <2>2. cpu' = "app" => ~Flagged'
    <3>1. FlagInv'
      BY NextStep DEF IInv
    <3>2. QED
      BY <3>1 DEF FlagInv
  <2>3. QED
    BY <2>1, <2>2 DEF Selected
<1>6. CASE \E torn \in BOOLEAN : PowerLoss(torn)
  <2>1. /\ cpu # "cleanup" => Flagged' = Flagged /\ (Flagged => bak' = bak)
        /\ ~Flagged \/ cpu = "cleanup" => user' = user
        /\ cpu = "cleanup" => bak' = bak /\ Flagged /\ \A a \in Addr : user[a] = bak[a]
        /\ cpu' = "off"
    BY <1>6, PowerLossStep DEF PowerLoss
  <2>2. CASE cpu = "cleanup"
    BY <2>1, <2>2 DEF Selected, Flagged
  <2>3. CASE cpu # "cleanup"
    BY <2>1, <2>3 DEF Selected
  <2>4. QED
    BY <2>2, <2>3
<1>7. QED
  BY <1>1, <1>2, <1>3, <1>4, <1>5, <1>6 DEF Next, Updating

LEMMA InstalledKept ==
  ASSUME IInv, Next, Environment, ~FlagWrite
  PROVE  Installed' = Installed
<1>1. PICK v \in Versions : Holds(Selected, v)
  BY SelectedWhole DEF WholeIn
<1>2. Holds(Selected', v)
  BY <1>1, SelectedKept, HoldsCopy
<1>3. VersionIn(Selected) = v /\ VersionIn(Selected') = v
  BY <1>1, <1>2, VersionInHeld
<1>4. QED
  BY <1>3 DEF Installed

\* What a step can do to `what executes' while power holds: nothing, or start the installed image.
LEMMA ExecutingStep ==
  ASSUME IInv, Next, Environment, ~Failure
  PROVE  \/ Executing' = Executing
         \/ Executing = NotRunning /\ Executing' = Installed'
<1>1. cpu # "app"
  BY DEF Failure, Next, Boot, Receiving, Wipe, Header, Receive, NoEvent, Saving, NothingToSave,
     Save, Updating, FlagErase, FlagWrite, CopyErase, Cleanup, CopyPage, HostStep, Connected,
     Disconnected, Send
<1>2. CASE cpu' # "app"
  BY <1>1, <1>2 DEF Executing
<1>3. CASE cpu' = "app"
  <2>1. ~Flagged'
    <3>1. FlagInv'
      BY NextStep DEF IInv
    <3>2. QED
      BY <1>3, <3>1 DEF FlagInv
  <2>2. Selected' = user'
    BY <2>1 DEF Selected
  <2>3. QED
    BY <1>1, <1>3, <2>2 DEF Executing, Installed
<1>4. QED
  BY <1>2, <1>3

\* An image is ready to be installed once saveUpdatedFile has found its checksum right, and only
\* the writing of the flag or a failure of the supply takes it back.
LEMMA ReadyStep ==
  ASSUME IInv, Next, ~FlagWrite, ~Failure
  PROVE  \/ Ready' = Ready
         \/ /\ Ready = {} /\ Ready' = {hVer} /\ hVer \in Versions
            /\ Executing = NotRunning /\ Executing' = NotRunning
<1>1. hVer \in Versions
  BY DEF IInv, TypeOK, CountsOK
<1>2. CASE cpu \in {"flagErase", "flagWrite"}
  <2>1. FlagErase
    BY <1>2 DEF Failure, Next, Boot, Receiving, Wipe, Header, Receive, NoEvent, Saving,
       NothingToSave, Save, Updating, FlagErase, FlagWrite, CopyErase, Cleanup, CopyPage,
       HostStep, Connected, Disconnected, Send
  <2> QED
    BY <1>2, <2>1 DEF FlagErase, Ready, net
<1>3. CASE cpu \notin {"flagErase", "flagWrite"} /\ cpu' \in {"flagErase", "flagWrite"}
  <2>1. PICK fault \in Faults : Save(fault)
    BY <1>3 DEF Failure, Next, Boot, Receiving, Wipe, Header, Receive, NoEvent, Saving,
       NothingToSave, Updating, FlagErase, FlagWrite, CopyErase, Cleanup, CopyPage, HostStep,
       Connected, Disconnected, Send
  <2>2. cpu = "iap" /\ hVer' = hVer
    BY <2>1 DEF Save
  <2> QED
    BY <1>1, <1>3, <2>2 DEF Ready, Executing
<1>4. CASE cpu \notin {"flagErase", "flagWrite"} /\ cpu' \notin {"flagErase", "flagWrite"}
  BY <1>4 DEF Ready
<1> QED
  BY <1>2, <1>3, <1>4

\* The scheme implements AtomicUpdate: the checksum found right makes a file ready (Accept), the
\* writing of the flag installs it and no other (Install), and no other step of the download or of
\* the copy, and no failure of the supply, changes what is installed.
THEOREM TcpUpdateRefinement == Environment => (Spec => ImplementsAtomicUpdate)
<1> SUFFICES ASSUME Environment PROVE Spec => ImplementsAtomicUpdate
  OBVIOUS
<1> USE DEF AU!Init, AU!Next, AU!Boot, AU!Accept, AU!Install, AU!PowerLoss, AU!vars
<1>1. Init => AU!Init
  <2> SUFFICES ASSUME Init PROVE AU!Init
    OBVIOUS
  <2>1. PICK v \in Versions : Holds(Selected, v)
    BY InitInv, SelectedWhole DEF WholeIn
  <2>2. VersionIn(Selected) \in Versions
    BY <2>1, VersionInHeld
  <2>3. QED
    BY <2>2 DEF Init, Selected
<1>2. IInv /\ [Next]_vars => [AU!Next]_AU!vars
  <2>1. ASSUME IInv, Next, FlagWrite PROVE AU!Install
    <3>1. /\ cpu = "flagWrite" /\ cpu' = "reset" /\ Flagged'
          /\ hVer \in Versions /\ Holds(bak', hVer)
      BY <2>1, FlagWriteStep DEF FlagWrite, IInv, TypeOK, CountsOK
    <3>2. VersionIn(Selected') = hVer
      BY <3>1, VersionInHeld DEF Selected
    <3>3. Installed' = hVer /\ Ready = {hVer} /\ Ready' = {} /\ Executing' = NotRunning
      BY <3>1, <3>2 DEF Installed, Selected, Ready, Executing
    <3>4. QED
      BY <3>3 DEF Installed, Selected, Ready, Executing
  <2>2. ASSUME IInv, Next, ~FlagWrite PROVE AU!Next \/ UNCHANGED AU!vars
    <3>1. Installed' = Installed
      BY <2>2, InstalledKept
    <3>2. CASE Failure
      <4>1. Executing' = NotRunning /\ Ready' = {}
        BY <3>2 DEF Failure, PowerLoss, Executing, Ready
      <4>2. AU!PowerLoss
        BY <3>1, <4>1 DEF Installed, Selected, Executing, Ready
      <4> QED
        BY <4>2
    <3>3. CASE ~Failure /\ Ready' # Ready
      <4>1. AU!Accept(hVer) /\ hVer \in Versions
        BY <2>2, <3>1, <3>3, ReadyStep DEF Installed, Selected, Executing, Ready
      <4> QED
        BY <4>1
    <3>4. CASE ~Failure /\ Ready' = Ready
      <4>1. AU!Boot \/ UNCHANGED AU!vars
        BY <2>2, <3>1, <3>4, ExecutingStep DEF Installed, Selected, Executing, Ready
      <4> QED
        BY <4>1
    <3> QED
      BY <3>2, <3>3, <3>4
  <2>3. ASSUME UNCHANGED vars PROVE UNCHANGED AU!vars
    BY <2>3 DEF vars, flash, net, Flagged, VersionIn, Holds
  <2>4. QED
    BY <2>1, <2>2, <2>3
<1>3. QED
  BY <1>1, <1>2, Invariance, PTL DEF Spec, AU!Spec, ImplementsAtomicUpdate
=============================================================================
