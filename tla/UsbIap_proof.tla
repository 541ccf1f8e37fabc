---------------------------- MODULE UsbIap_proof -----------------------------
(***************************************************************************)
(* Proofs about UsbIap, for every flash geometry, every set of images and  *)
(* sizes, every size of command, and pages that may fail to be programmed. *)
(* Beyond the assumptions of the specification: a device is delivered with *)
(* an application, and is restarted before a host begins anew.             *)
(***************************************************************************)
EXTENDS UsbIap, SequenceTheorems, TLAPS

\* The units of the image that are in flash or in Fast_Program_Buf.
Stored == Program_addr * PageUnits + Len(Fast_Program_Buf)

\* Where host and loader stand in a session: Program_addr and what is collected
\* follow the host, so that no page behind the image is written; nothing is
\* written once a comparison was made, so that what was compared is there.
SessionInv ==
  /\ cpu # "iap" => host = "off"
  /\ host = "prom" => ~Verify_Star_flag /\ Verify_addr = 0 /\ Stored = hPos
  /\ host = "verify" =>
       /\ Verify_addr = hPos
       /\ ~Verify_Star_flag => hPos = 0 /\ Stored = SizeOf[hVer]
       /\ Verify_Star_flag => Fast_Program_Buf = <<>>
       /\ \A k \in 0 .. hPos - 1 : img[AddrOf(k)] = Data(hVer, AddrOf(k))
  /\ host = "verified" => Holds(img, hVer)

\* The loader waits for commands only with CheckNum there, and takes it away only
\* when the image is whole.
CheckInv ==
  /\ cpu = "iap" => check
  /\ cpu = "endErase" => Whole

IInv == Safe /\ SessionInv /\ CheckInv

Environment == ~Blank /\ ~ComesBack

USE DEF BootTarget, CheckSurvives, Rest, Compared

-----------------------------------------------------------------------------
(* The flash: addresses, and what a region holds *)

\* Every unit of an image has an address in the region.
LEMMA AddrOfType == \A k \in 0 .. TotalUnits - 1 : AddrOf(k) \in Addr
<1> USE GeometryAssumption
<1> SUFFICES ASSUME NEW k \in 0 .. TotalUnits - 1
             PROVE  AddrOf(k) \in Addr
  OBVIOUS
<1> DEFINE S == BlockPages * PageUnits
<1>1. S \in Nat \ {0} /\ TotalUnits = NBlocks * S
  BY SMT DEF TotalUnits
<1>2. k \in Nat /\ k < NBlocks * S
  BY <1>1
<1>3. k \div S \in 0 .. NBlocks - 1
  <2> HIDE DEF S
  <2> QED
    BY <1>1, <1>2, SMTT(30)
<1>4. k \div PageUnits \in Nat
  BY <1>2, SMTT(30)
<1>5. (k \div PageUnits) % BlockPages \in 0 .. BlockPages - 1 /\ k % PageUnits \in 0 .. PageUnits - 1
  BY <1>2, <1>4
<1> QED
  BY <1>3, <1>5 DEF AddrOf, Addr, Blocks, Pages, Offsets

LEMMA TotalNat == TotalUnits \in Nat
BY GeometryAssumption DEF TotalUnits

LEMMA ExtentInAddr == \A v \in Versions : Extent(v) \subseteq Addr
BY AddrOfType, GeometryAssumption, SizeAssumption DEF Extent, TotalUnits

\* The first unit of a whole image is not Erased: what the loader looks at before
\* it starts it.
LEMMA HeldNotErased ==
  ASSUME NEW region, NEW v \in Versions, Holds(region, v)
  PROVE  region[AddrOf(0)] # Erased
<1>1. AddrOf(0) \in Extent(v)
  BY GeometryAssumption, SizeAssumption DEF Extent, TotalUnits
<1>2. AddrOf(0) \in Addr /\ region[AddrOf(0)] = Data(v, AddrOf(0))
  BY <1>1, ExtentInAddr DEF Holds
<1> QED
  BY <1>2, ContentAssumption DEF Data

LEMMA AddrParts ==
  \A a \in Addr : /\ a[1] \in Blocks /\ a[2] \in Pages /\ a[3] \in Offsets
                  /\ a = <<a[1], a[2], a[3]>>
BY DEF Addr

-----------------------------------------------------------------------------
(* Types *)

LEMMA EmptyBuf == <<>> \in Seq(Content) /\ Len(<<>>) = 0 /\ Len(<<>>) < PageUnits
BY GeometryAssumption

LEMMA ZeroFits == 0 \in 0 .. TotalUnits /\ 0 \in 0 .. NBlocks + 1
BY TotalNat, GeometryAssumption

LEMMA SizeFits ==
  \A v \in Versions : SizeOf[v] \in 1 .. TotalUnits /\ SizeOf[v] \in Nat /\ TotalUnits \in Nat
BY TotalNat, SizeAssumption

LEMMA ChunkFits == \A n \in 1 .. ChunkMax : n \in Nat /\ 0 < n /\ n < PageUnits
BY ChunkAssumption, GeometryAssumption

\* What a command carries.
LEMMA ChunkType ==
  ASSUME TypeOK, NEW n \in 1 .. ChunkMax, hPos + n <= SizeOf[hVer]
  PROVE  Chunk(n) \in Seq(Content) /\ Len(Chunk(n)) = n
<1>1. \A j \in 1 .. n : AddrOf(hPos + j - 1) \in Addr
  <2> SUFFICES ASSUME NEW j \in 1 .. n
               PROVE  hPos + j - 1 \in 0 .. TotalUnits - 1
    BY AddrOfType
  <2>1. hVer \in Versions /\ hPos \in 0 .. TotalUnits
    BY DEF TypeOK, DataOK, PlacesOK
  <2>2. SizeOf[hVer] \in 1 .. TotalUnits /\ TotalUnits \in Nat
    BY <2>1, SizeFits
  <2>3. QED
    BY <2>1, <2>2, ChunkFits
<1>2. \A j \in 1 .. n : Data(hVer, AddrOf(hPos + j - 1)) \in Content
  BY <1>1 DEF Content, Data, TypeOK, DataOK
<1>3. n \in Nat
  BY ChunkFits
<1>4. QED
  BY <1>2, <1>3 DEF Chunk

\* Collecting n units more: the buffer, and what is left if a page is full.
LEMMA CollectType ==
  ASSUME TypeOK, NEW n \in 1 .. ChunkMax, hPos + n <= SizeOf[hVer],
         NEW buf, buf = Fast_Program_Buf \o Chunk(n)
  PROVE  /\ buf \in Seq(Content) /\ Len(buf) = Len(Fast_Program_Buf) + n
         /\ Len(Fast_Program_Buf) \in Nat /\ Len(Fast_Program_Buf) < PageUnits
         /\ Len(buf) >= PageUnits =>
              /\ [o \in Offsets |-> buf[o + 1]] \in [Offsets -> Content]
              /\ SubSeq(buf, PageUnits + 1, Len(buf)) \in Seq(Content)
              /\ Len(SubSeq(buf, PageUnits + 1, Len(buf))) = Len(buf) - PageUnits
<1>1. Fast_Program_Buf \in Seq(Content) /\ Len(Fast_Program_Buf) < PageUnits
  BY DEF TypeOK, DataOK
<1>2. Chunk(n) \in Seq(Content) /\ Len(Chunk(n)) = n
  BY ChunkType
<1>3. /\ buf \in Seq(Content) /\ Len(buf) = Len(Fast_Program_Buf) + n
      /\ Len(Fast_Program_Buf) \in Nat
  <2> DEFINE chunk == Chunk(n)
  <2>1. chunk \in Seq(Content) /\ Len(chunk) = n /\ buf = Fast_Program_Buf \o chunk
    BY <1>2
  <2> HIDE DEF chunk
  <2>2. Fast_Program_Buf \o chunk \in Seq(Content)
    BY <1>1, <2>1, ConcatProperties
  <2>3. Len(Fast_Program_Buf \o chunk) = Len(Fast_Program_Buf) + Len(chunk)
    BY <1>1, <2>1, ConcatProperties
  <2>4. Len(Fast_Program_Buf) \in Nat
    BY <1>1
  <2>5. QED
    BY <2>1, <2>2, <2>3, <2>4
<1>4. PageUnits \in Nat /\ PageUnits > 0
  BY GeometryAssumption
<1>5. ASSUME Len(buf) >= PageUnits
      PROVE  [o \in Offsets |-> buf[o + 1]] \in [Offsets -> Content]
  <2>1. \A o \in Offsets : o + 1 \in 1 .. Len(buf)
    BY <1>3, <1>4, <1>5 DEF Offsets
  <2>2. QED
    BY <1>3, <2>1
<1>6. ASSUME Len(buf) >= PageUnits
      PROVE  /\ SubSeq(buf, PageUnits + 1, Len(buf)) \in Seq(Content)
             /\ Len(SubSeq(buf, PageUnits + 1, Len(buf))) = Len(buf) - PageUnits
  <2>1. buf \in Seq(Content) /\ Len(buf) \in Nat /\ PageUnits + 1 \in 1 .. Len(buf) + 1
    BY <1>3, <1>4, <1>6
  <2>2. QED
    BY <2>1, <1>4
<1>7. QED
  BY <1>1, <1>3, <1>5, <1>6

LEMMA WriteType ==
  ASSUME TypeOK, NEW result \in Results, NEW data \in [Offsets -> Content],
         WritePage(result, data)
  PROVE  img' \in Image /\ check' \in BOOLEAN /\ Program_addr \in 0 .. NBlocks
<1>1. \A a \in Addr : (IF result = "ok" THEN data[a[3]] ELSE result) \in Content
  BY AddrParts DEF Results, Content
<1>2. img' \in Image
  BY <1>1 DEF WritePage, TypeOK, DataOK, Image
<1>3. check' \in BOOLEAN
  BY DEF WritePage, TypeOK, PhasesOK
<1>4. Program_addr \in 0 .. NBlocks
  BY GeometryAssumption DEF WritePage, TypeOK, PlacesOK
<1>5. QED
  BY <1>2, <1>3, <1>4

LEMMA AdvanceType ==
  ASSUME TypeOK, NEW n \in 1 .. ChunkMax, NEW phase, NEW done, Advance(n, phase, done)
  PROVE  host' \in {phase, done} /\ hPos' \in 0 .. TotalUnits
<1>1. /\ SizeOf[hVer] \in 1 .. TotalUnits /\ hPos \in 0 .. TotalUnits
      /\ TotalUnits \in Nat
  BY SizeFits DEF TypeOK, DataOK, PlacesOK
<1>2. QED
  BY <1>1, ChunkFits DEF Advance

LEMMA InitTypes == Init => TypeOK
<1> SUFFICES ASSUME Init PROVE TypeOK
  OBVIOUS
<1>1. img \in Image
  BY ExtentInAddr DEF Init, Empty, Image, Content, Data
<1>2. DataOK
  BY <1>1, EmptyBuf DEF Init, DataOK
<1>3. PlacesOK
  BY ZeroFits DEF Init, PlacesOK
<1>4. PhasesOK
  BY DEF Init, PhasesOK
<1>5. QED
  BY <1>2, <1>3, <1>4 DEF TypeOK

\* Steps that keep the image, and what memory may become.
LEMMA ResetTypes ==
  ASSUME TypeOK, ResetRam, UNCHANGED img, check' \in BOOLEAN, cpu' = "off"
  PROVE  TypeOK'
<1>1. DataOK'
  BY EmptyBuf DEF ResetRam, TypeOK, DataOK
<1>2. PlacesOK'
  BY ZeroFits DEF ResetRam, PlacesOK
<1>3. PhasesOK'
  BY DEF ResetRam, PhasesOK
<1>4. QED
  BY <1>1, <1>2, <1>3 DEF TypeOK

LEMMA PromTypes ==
  ASSUME TypeOK, NEW n \in 1 .. ChunkMax, NEW result \in Results, Prom(n, result)
  PROVE  TypeOK'
<1>1. PICK buf : buf = Fast_Program_Buf \o Chunk(n)
  OBVIOUS
<1>2. hPos + n <= SizeOf[hVer]
  BY DEF Prom
<1>3. /\ buf \in Seq(Content) /\ Len(buf) = Len(Fast_Program_Buf) + n
      /\ Len(Fast_Program_Buf) \in Nat /\ Len(Fast_Program_Buf) < PageUnits
  BY <1>1, <1>2, CollectType
<1>4. /\ img' \in Image /\ check' \in BOOLEAN /\ Program_addr' \in 0 .. NBlocks + 1
      /\ Fast_Program_Buf' \in Seq(Content) /\ Len(Fast_Program_Buf') < PageUnits
  <2>1. CASE Len(buf) >= PageUnits
    <3>1. /\ WritePage(result, [o \in Offsets |-> buf[o + 1]])
          /\ Fast_Program_Buf' = SubSeq(buf, PageUnits + 1, Len(buf))
          /\ Program_addr' = Program_addr + 1
      BY <1>1, <2>1 DEF Prom
    <3>2. /\ [o \in Offsets |-> buf[o + 1]] \in [Offsets -> Content]
          /\ Fast_Program_Buf' \in Seq(Content)
          /\ Len(Fast_Program_Buf') = Len(buf) - PageUnits
      BY <1>1, <1>2, <2>1, <3>1, CollectType
    <3>3. img' \in Image /\ check' \in BOOLEAN /\ Program_addr \in 0 .. NBlocks
      BY <3>1, <3>2, WriteType
    <3>4. Len(Fast_Program_Buf') < PageUnits
      BY <1>3, <3>2, ChunkFits, GeometryAssumption
    <3>5. Program_addr' \in 0 .. NBlocks + 1
      BY <3>1, <3>3, GeometryAssumption
    <3>6. QED
      BY <3>2, <3>3, <3>4, <3>5
  <2>2. CASE ~(Len(buf) >= PageUnits)
    <3>1. Fast_Program_Buf' = buf /\ UNCHANGED <<img, check, Program_addr>>
      BY <1>1, <2>2 DEF Prom
    <3>2. Len(buf) < PageUnits
      BY <1>3, <2>2, GeometryAssumption
    <3>3. QED
      BY <1>3, <3>1, <3>2 DEF TypeOK, PhasesOK, DataOK, PlacesOK
  <2>3. QED
    BY <2>1, <2>2
<1>5. host' \in {"prom", "verify"} /\ hPos' \in 0 .. TotalUnits
  BY AdvanceType DEF Prom
<1>6. PhasesOK'
  BY <1>4, <1>5 DEF Prom, TypeOK, PhasesOK
<1>7. DataOK' /\ PlacesOK'
  BY <1>4, <1>5 DEF Prom, TypeOK, DataOK, PlacesOK
<1>8. QED
  BY <1>6, <1>7 DEF TypeOK

LEMMA FlushTypes ==
  ASSUME TypeOK, NEW result \in Results, Flush(result)
  PROVE  /\ img' \in Image /\ check' \in BOOLEAN
         /\ Fast_Program_Buf' \in Seq(Content) /\ Len(Fast_Program_Buf') < PageUnits
<1>1. PICK data : data = [o \in Offsets |->
         IF o < Len(Fast_Program_Buf) THEN Fast_Program_Buf[o + 1] ELSE Erased]
  OBVIOUS
<1>2. data \in [Offsets -> Content]
  <2>1. Fast_Program_Buf \in Seq(Content) /\ Len(Fast_Program_Buf) \in Nat
    BY DEF TypeOK, DataOK
  <2>2. \A o \in Offsets : o \in Nat
    BY GeometryAssumption DEF Offsets
  <2>3. \A o \in Offsets : o < Len(Fast_Program_Buf) => Fast_Program_Buf[o + 1] \in Content
    BY <2>1, <2>2
  <2>4. QED
    BY <1>1, <2>3 DEF Content
<1>3. CASE ~Verify_Star_flag /\ Fast_Program_Buf # <<>>
  <2>1. WritePage(result, data) /\ Fast_Program_Buf' = <<>>
    BY <1>1, <1>3 DEF Flush
  <2>2. QED
    BY <1>2, <2>1, WriteType, EmptyBuf
<1>4. CASE ~(~Verify_Star_flag /\ Fast_Program_Buf # <<>>)
  BY <1>4 DEF Flush, TypeOK, PhasesOK, DataOK
<1>5. QED
  BY <1>3, <1>4

LEMMA VerifyTypes ==
  ASSUME TypeOK, NEW n \in 1 .. ChunkMax, NEW result \in Results, VerifyCmd(n, result)
  PROVE  TypeOK'
<1>1. /\ img' \in Image /\ check' \in BOOLEAN
      /\ Fast_Program_Buf' \in Seq(Content) /\ Len(Fast_Program_Buf') < PageUnits
  BY FlushTypes DEF VerifyCmd
<1>2. host' \in {"verify", "verified", "off"} /\ hPos' \in 0 .. TotalUnits
  <2>1. Advance(n, "verify", "verified") \/ (host' = "off" /\ hPos' = hPos)
    BY DEF VerifyCmd
  <2>2. QED
    BY <2>1, AdvanceType DEF TypeOK, PlacesOK
<1>3. Verify_addr' \in 0 .. TotalUnits
  BY TotalNat, ChunkFits DEF VerifyCmd, TypeOK, PlacesOK
<1>4. PhasesOK'
  BY <1>1, <1>2 DEF VerifyCmd, TypeOK, PhasesOK
<1>5. DataOK' /\ PlacesOK'
  BY <1>1, <1>2, <1>3 DEF VerifyCmd, TypeOK, DataOK, PlacesOK
<1>6. QED
  BY <1>4, <1>5 DEF TypeOK

LEMMA StepTypes == TypeOK /\ [Next]_vars => TypeOK'
<1> SUFFICES ASSUME TypeOK, [Next]_vars PROVE TypeOK'
  OBVIOUS
<1> USE DEF AppStates, ram, hostVars, TypeOK, PhasesOK, DataOK, PlacesOK
<1>1. CASE Boot
  BY <1>1 DEF Boot
<1>2. CASE JumpIap \/ JumpErase \/ JumpProgram
  BY <1>2 DEF JumpIap, JumpErase, JumpProgram
<1>3. ASSUME NEW v \in Versions, EraseCmd(v)
      PROVE  TypeOK'
  BY <1>3, ZeroFits, Zenon DEF EraseCmd
<1>4. CASE End
  BY <1>4, ZeroFits, Zenon DEF End
<1>5. CASE EndErase \/ Abort
  BY <1>5 DEF EndErase, Abort
<1>6. CASE UNCHANGED vars
  BY <1>6 DEF vars
<1> USE DEF AppStates
<1>7. CASE AppToIap \/ Restart
  <2>1. ResetRam /\ UNCHANGED img /\ check' \in BOOLEAN /\ cpu' = "off"
    BY <1>7 DEF AppToIap, Restart
  <2>2. TypeOK
    OBVIOUS
  <2> HIDE DEF TypeOK
  <2>3. QED
    BY <2>1, <2>2, ResetTypes
<1>8. ASSUME NEW after \in BOOLEAN, PowerLoss(after)
      PROVE  TypeOK'
  <2>1. ResetRam /\ UNCHANGED img /\ check' \in BOOLEAN /\ cpu' = "off"
    BY <1>8 DEF PowerLoss
  <2>2. TypeOK
    OBVIOUS
  <2> HIDE DEF TypeOK
  <2>3. QED
    BY <2>1, <2>2, ResetTypes
<1> HIDE DEF TypeOK
<1>9. CASE SendStep
  BY <1>3, <1>4, <1>9, PromTypes, VerifyTypes DEF SendStep
<1>10. QED
  BY <1>1, <1>2, <1>5, <1>6, <1>7, <1>8, <1>9 DEF Next, AppStep

-----------------------------------------------------------------------------
(* Safety: one step keeps IInv *)

\* A page that begins before the end of the largest image is a page of the image.
LEMMA PageFits == \A p \in Nat : p * PageUnits < TotalUnits => p < NBlocks
<1> SUFFICES ASSUME NEW p \in Nat, p * PageUnits < NBlocks * PageUnits
             PROVE  p < NBlocks
  BY PageAssumption, GeometryAssumption DEF TotalUnits
<1>1. PageUnits \in Nat /\ PageUnits > 0 /\ NBlocks \in Nat
  BY GeometryAssumption
<1>2. QED
  BY <1>1, SMTT(30)

\* PROM: the page of CalAddr is not reached, and loader and host stay in step.
LEMMA PromStep ==
  ASSUME IInv, NEW n \in 1 .. ChunkMax, NEW result \in Results, Prom(n, result)
  PROVE  check' = check /\ SessionInv'
<1> DEFINE buf == Fast_Program_Buf \o Chunk(n)
           got == Len(Fast_Program_Buf)
<1>1. hPos + n <= SizeOf[hVer] /\ TypeOK /\ hVer' = hVer /\ cpu' = cpu /\ cpu = "iap"
  BY DEF Prom, IInv, Safe
<1>2. ~Verify_Star_flag /\ Verify_addr = 0 /\ Program_addr * PageUnits + got = hPos
  BY DEF Prom, IInv, SessionInv, Stored
<1>3. UNCHANGED <<Verify_addr, Verify_Star_flag>>
  BY DEF Prom
<1>4. /\ Len(buf) = got + n /\ got \in Nat /\ got < PageUnits
      /\ Len(buf) >= PageUnits =>
           Len(SubSeq(buf, PageUnits + 1, Len(buf))) = Len(buf) - PageUnits
  BY <1>1, CollectType
<1>5. SizeOf[hVer] \in Nat /\ SizeOf[hVer] <= TotalUnits /\ TotalUnits \in Nat
  BY <1>1, SizeFits DEF TypeOK, DataOK
<1>6. /\ Program_addr \in Nat /\ hPos \in Nat /\ n \in Nat /\ 0 < n
      /\ PageUnits \in Nat /\ PageUnits > 0
  BY <1>1, ChunkFits, GeometryAssumption DEF TypeOK, PlacesOK
<1>7. /\ check' = check
      /\ Program_addr' * PageUnits + Len(Fast_Program_Buf') = hPos + n
  <2>1. CASE Len(buf) >= PageUnits
    <3>1. /\ check' = (check /\ Program_addr # NBlocks)
          /\ Fast_Program_Buf' = SubSeq(buf, PageUnits + 1, Len(buf))
          /\ Program_addr' = Program_addr + 1
      BY <2>1 DEF Prom, WritePage
    <3>2. Program_addr * PageUnits \in Nat
      BY <1>6
    <3> HIDE DEF buf, got
    <3>3. Program_addr * PageUnits < TotalUnits
      BY <1>1, <1>2, <1>4, <1>5, <1>6, <2>1, <3>2
    <3>4. Program_addr # NBlocks
      BY <1>6, <3>3, PageFits
    <3>5. check' = check
      BY <1>1, <3>1, <3>4 DEF TypeOK, PhasesOK
    <3>6. (Program_addr + 1) * PageUnits = Program_addr * PageUnits + PageUnits
      BY <1>6
    <3>7. Len(Fast_Program_Buf') = got + n - PageUnits
      <4> DEFINE rest == SubSeq(buf, PageUnits + 1, Len(buf))
      <4>1. Fast_Program_Buf' = rest /\ Len(rest) = Len(buf) - PageUnits
        BY <1>4, <2>1, <3>1
      <4> HIDE DEF rest
      <4>2. QED
        BY <1>4, <1>6, <4>1
    <3>8. QED
      BY <1>2, <1>4, <1>6, <3>1, <3>2, <3>5, <3>6, <3>7
  <2>2. CASE ~(Len(buf) >= PageUnits)
    <3>1. Fast_Program_Buf' = buf /\ UNCHANGED <<check, Program_addr>>
      BY <2>2 DEF Prom
    <3>2. Program_addr * PageUnits \in Nat
      BY <1>6
    <3> HIDE DEF buf, got
    <3>3. QED
      BY <1>2, <1>4, <1>6, <3>1, <3>2
  <2>3. QED
    BY <2>1, <2>2
<1>8. Advance(n, "prom", "verify")
  BY DEF Prom
<1>9. CASE hPos + n < SizeOf[hVer]
  <2>1. host' = "prom" /\ hPos' = hPos + n
    BY <1>8, <1>9 DEF Advance
  <2>2. QED
    BY <1>1, <1>2, <1>3, <1>7, <2>1 DEF SessionInv, Stored
<1>10. CASE ~(hPos + n < SizeOf[hVer])
  <2>1. host' = "verify" /\ hPos' = 0
    BY <1>8, <1>10 DEF Advance
  <2>2. hPos + n = SizeOf[hVer]
    BY <1>1, <1>5, <1>6, <1>10
  <2>3. Verify_addr' = 0 /\ ~Verify_Star_flag' /\ Stored' = SizeOf[hVer]'
    BY <1>1, <1>2, <1>3, <1>7, <2>2 DEF Stored
  <2>4. \A k \in 0 .. hPos' - 1 : FALSE
    BY <2>1
  <2>5. /\ ~(cpu' # "iap") /\ host' # "prom" /\ host' # "verified"
        /\ Verify_addr' = hPos'
    BY <1>1, <2>1, <2>3
  <2>6. QED
    BY <1>7, <2>1, <2>3, <2>4, <2>5, Zenon DEF SessionInv
<1>11. QED
  BY <1>7, <1>9, <1>10

\* The flush before the first comparison: the last page is a page of the image.
LEMMA FlushStep ==
  ASSUME IInv, host = "verify", NEW result \in Results, Flush(result)
  PROVE  check' = check /\ Fast_Program_Buf' = <<>> /\ (Verify_Star_flag => img' = img)
<1>1. TypeOK /\ (Verify_Star_flag => Fast_Program_Buf = <<>>)
  BY DEF IInv, Safe, SessionInv
<1>2. CASE ~Verify_Star_flag /\ Fast_Program_Buf # <<>>
  <2>1. /\ Fast_Program_Buf' = <<>>
        /\ check' = (check /\ Program_addr # NBlocks)
    BY <1>2 DEF Flush, WritePage
  <2>2. Program_addr * PageUnits + Len(Fast_Program_Buf) = SizeOf[hVer]
    BY <1>2 DEF IInv, SessionInv, Stored
  <2>3. Len(Fast_Program_Buf) \in Nat /\ Len(Fast_Program_Buf) > 0
    BY <1>1, <1>2 DEF TypeOK, DataOK
  <2>4. /\ SizeOf[hVer] <= TotalUnits /\ TotalUnits \in Nat
        /\ Program_addr \in Nat /\ PageUnits \in Nat
    BY <1>1, SizeFits, GeometryAssumption DEF TypeOK, DataOK, PlacesOK
  <2>5. Program_addr * PageUnits \in Nat
    BY <2>4
  <2>6. Program_addr * PageUnits < TotalUnits
    BY <2>2, <2>3, <2>4, <2>5
  <2>7. Program_addr # NBlocks
    BY <2>4, <2>6, PageFits
  <2>8. QED
    BY <1>1, <1>2, <2>1, <2>7 DEF TypeOK, PhasesOK
<1>3. CASE ~(~Verify_Star_flag /\ Fast_Program_Buf # <<>>)
  BY <1>1, <1>3 DEF Flush, TypeOK, PhasesOK
<1>4. QED
  BY <1>2, <1>3

\* VERIFY: what was compared earlier is still there, what is compared now joins it,
\* and at the end of the image that is all of it.
LEMMA VerifyStep ==
  ASSUME IInv, NEW n \in 1 .. ChunkMax, NEW result \in Results, VerifyCmd(n, result)
  PROVE  check' = check /\ SessionInv'
<1>1. /\ host = "verify" /\ cpu = "iap" /\ hPos + n <= SizeOf[hVer]
      /\ Flush(result) /\ Verify_Star_flag' = TRUE /\ Verify_addr' = Verify_addr + n
      /\ UNCHANGED <<cpu, hVer>>
  BY DEF VerifyCmd
<1>2. check' = check /\ Fast_Program_Buf' = <<>> /\ (Verify_Star_flag => img' = img)
  BY <1>1, FlushStep
<1>3. /\ Verify_addr = hPos
      /\ ~Verify_Star_flag => hPos = 0
      /\ \A k \in 0 .. hPos - 1 : img[AddrOf(k)] = Data(hVer, AddrOf(k))
  BY <1>1 DEF IInv, SessionInv
<1>4. hPos \in Nat /\ n \in Nat /\ n > 0 /\ SizeOf[hVer] \in Nat
  BY ChunkFits, SizeFits DEF IInv, Safe, TypeOK, DataOK, PlacesOK
<1>5. CASE host' = "off"
  BY <1>2, <1>5 DEF SessionInv
<1>6. CASE host' # "off"
  <2>1. /\ \A k \in Verify_addr .. Verify_addr + n - 1 :
              img'[AddrOf(k)] = Data(hVer, AddrOf(hPos + k - Verify_addr))
        /\ Advance(n, "verify", "verified")
    BY <1>6 DEF VerifyCmd
  <2>2. \A k \in 0 .. hPos + n - 1 : img'[AddrOf(k)] = Data(hVer, AddrOf(k))
    <3> SUFFICES ASSUME NEW k \in 0 .. hPos + n - 1
                 PROVE  img'[AddrOf(k)] = Data(hVer, AddrOf(k))
      OBVIOUS
    <3>1. CASE k < hPos
      <4>1. hPos # 0 /\ k \in 0 .. hPos - 1
        BY <1>4, <3>1
      <4>2. QED
        BY <1>2, <1>3, <4>1
    <3>2. CASE ~(k < hPos)
      <4>1. k \in Verify_addr .. Verify_addr + n - 1 /\ hPos + k - Verify_addr = k
        BY <1>3, <1>4, <3>2
      <4>2. QED
        BY <2>1, <4>1
    <3>3. QED
      BY <3>1, <3>2
  <2>3. CASE hPos + n < SizeOf[hVer]
    <3>1. host' = "verify" /\ hPos' = hPos + n
      BY <2>1, <2>3 DEF Advance
    <3>2. /\ ~(cpu' # "iap") /\ host' # "prom" /\ host' # "verified"
          /\ Verify_addr' = hPos' /\ hVer' = hVer /\ Verify_Star_flag'
      BY <1>1, <1>3, <3>1
    <3>3. \A k \in 0 .. hPos' - 1 : img'[AddrOf(k)] = Data(hVer', AddrOf(k))
      BY <1>4, <2>2, <3>1, <3>2
    <3>4. SessionInv'
      BY <1>2, <3>1, <3>2, <3>3, Zenon DEF SessionInv
    <3>5. QED
      BY <1>2, <3>4
  <2>4. CASE ~(hPos + n < SizeOf[hVer])
    <3>1. host' = "verified"
      BY <2>1, <2>4 DEF Advance
    <3>2. hPos + n = SizeOf[hVer]
      BY <1>1, <1>4, <2>4
    <3>3. Holds(img', hVer)
      <4>1. \A k \in 0 .. SizeOf[hVer] - 1 : img'[AddrOf(k)] = Data(hVer, AddrOf(k))
        BY <1>4, <2>2, <3>2
      <4>2. QED
        BY <4>1, Zenon DEF Holds, Extent
    <3>4. /\ ~(cpu' # "iap") /\ host' # "prom" /\ host' # "verify" /\ hVer' = hVer
      BY <1>1, <3>1
    <3>5. Holds(img', hVer')
      BY <3>3, <3>4
    <3>6. SessionInv'
      BY <3>4, <3>5, Zenon DEF SessionInv
    <3>7. QED
      BY <1>2, <3>6
  <2>5. QED
    BY <2>3, <2>4
<1>7. QED
  BY <1>2, <1>5, <1>6

LEMMA InitInv == Environment /\ Init => IInv
<1> SUFFICES ASSUME Environment, Init PROVE IInv
  OBVIOUS
<1>1. TypeOK
  BY InitTypes
<1>2. Holds(img, hVer)
  <2>1. hVer \in Versions
    BY DEF Init
  <2>2. img = [a \in Addr |-> IF a \in Extent(hVer) THEN Data(hVer, a) ELSE Erased]
    BY DEF Init, Environment
  <2>3. QED
    BY <2>1, <2>2, ExtentInAddr DEF Holds
<1>3. Whole
  BY <1>1, <1>2 DEF Whole, TypeOK, DataOK
<1>4. cpu = "off" /\ host = "off"
  BY DEF Init
<1>5. QED
  BY <1>1, <1>3, <1>4
     DEF IInv, Safe, BootsCompleteImage, BrokenIsRecorded, SessionInv, CheckInv, AppStates

\* A step that leaves flash alone and after which no host is at work.
LEMMA IdleStep ==
  ASSUME IInv, TypeOK', host' = "off", img' = img, check' \/ Whole,
         cpu' \in AppStates \cup {"endErase"} => Whole, cpu' = "iap" => check'
  PROVE  IInv'
<1>1. Whole' <=> Whole
  BY DEF Whole, Holds
<1>2. QED
  BY <1>1 DEF IInv, Safe, BootsCompleteImage, BrokenIsRecorded, SessionInv, CheckInv

LEMMA StepInv ==
  ASSUME Environment, IInv, [Next]_vars
  PROVE  IInv'
<1>1. TypeOK /\ TypeOK'
  BY StepTypes DEF IInv, Safe
<1>2. Whole \/ check
  BY DEF IInv, Safe, BrokenIsRecorded
<1>3. (cpu \in AppStates => Whole) /\ (cpu = "iap" => check) /\ (cpu = "endErase" => Whole)
  BY DEF IInv, Safe, BootsCompleteImage, CheckInv
<1>4. cpu # "iap" => host = "off"
  BY DEF IInv, SessionInv
<1>5. CASE Boot
  <2>1. cpu' \in {"app", "iap"} /\ UNCHANGED <<img, check, host>> /\ host = "off"
    BY <1>4, <1>5 DEF Boot, hostVars
  <2>2. cpu' = "app" => Whole
    BY <1>2, <1>5 DEF Boot
  <2>3. cpu' = "iap" => check
    <3> SUFFICES ASSUME cpu' = "iap", ~check PROVE FALSE
      OBVIOUS
    <3>1. PICK v \in Versions : Holds(img, v)
      BY <1>2 DEF Whole
    <3>2. img[AddrOf(0)] # Erased
      BY <3>1, HeldNotErased
    <3>3. QED
      BY <1>5, <3>2 DEF Boot
  <2>4. QED
    BY <1>1, <1>2, <2>1, <2>2, <2>3, IdleStep DEF AppStates
<1>6. CASE JumpIap \/ JumpErase \/ JumpProgram
  <2>1. /\ cpu \in AppStates /\ cpu' \in AppStates /\ UNCHANGED <<img, host>>
        /\ host = "off" /\ cpu' # "iap"
    BY <1>4, <1>6 DEF JumpIap, JumpErase, JumpProgram, AppStates, hostVars
  <2>2. QED
    BY <1>1, <1>3, <2>1, IdleStep
<1>7. CASE AppToIap \/ Restart
  <2>1. host' = "off" /\ cpu' = "off" /\ UNCHANGED <<img, check>>
    BY <1>7 DEF AppToIap, Restart, ResetRam
  <2>2. QED
    BY <1>1, <1>2, <2>1, IdleStep DEF AppStates
<1>8. CASE Abort
  <2>1. host' = "off" /\ cpu' = "iap" /\ cpu = "iap" /\ UNCHANGED <<img, check>>
    BY <1>8 DEF Abort
  <2>2. QED
    BY <1>1, <1>2, <1>3, <2>1, IdleStep DEF AppStates
<1>9. CASE End
  <2>1. /\ host = "verified" /\ host' = "off" /\ cpu' = "endErase"
        /\ UNCHANGED <<img, check>>
    BY <1>9 DEF End
  <2>2. Whole
    BY <1>1, <2>1 DEF IInv, SessionInv, Whole, TypeOK, DataOK
  <2>3. QED
    BY <1>1, <2>1, <2>2, IdleStep
<1>10. CASE EndErase
  <2>1. host' = "off" /\ cpu = "endErase" /\ cpu' = "app" /\ img' = img
    BY <1>4, <1>10 DEF EndErase, hostVars
  <2>2. QED
    BY <1>1, <1>3, <2>1, IdleStep
<1>11. ASSUME NEW after \in BOOLEAN, PowerLoss(after)
       PROVE  IInv'
  <2>1. /\ host' = "off" /\ cpu' = "off" /\ img' = img
        /\ cpu \notin {"endErase", "jumpErase", "jumpProgram"} => check' = check
    BY <1>11 DEF PowerLoss, ResetRam
  <2>2. check' \/ Whole
    BY <1>2, <1>3, <2>1 DEF AppStates
  <2>3. QED
    BY <1>1, <2>1, <2>2, IdleStep DEF AppStates
<1>12. ASSUME NEW v \in Versions, EraseCmd(v)
       PROVE  IInv'
  <2>1. /\ cpu = "iap" /\ host' = "prom" /\ hPos' = 0 /\ Fresh
        /\ UNCHANGED <<img, check, cpu, ram>>
    BY <1>12 DEF EraseCmd, Environment
  <2>2. Stored = 0
    BY <2>1, EmptyBuf, GeometryAssumption DEF Fresh, Stored
  <2>3. Stored' = 0 /\ ~Verify_Star_flag' /\ Verify_addr' = 0
    BY <2>1, <2>2 DEF Fresh, ram, Stored
  <2>4. SessionInv'
    BY <2>1, <2>3 DEF SessionInv
  <2>5. check'
    BY <1>3, <2>1
  <2>6. QED
    BY <1>1, <2>1, <2>4, <2>5
       DEF IInv, Safe, BootsCompleteImage, BrokenIsRecorded, CheckInv, AppStates
<1>13. ASSUME NEW n \in 1 .. ChunkMax, NEW result \in Results,
              Prom(n, result) \/ VerifyCmd(n, result)
       PROVE  IInv'
  <2>1. check' = check /\ SessionInv'
    BY <1>13, PromStep, VerifyStep
  <2>2. cpu = "iap" /\ cpu' = "iap"
    BY <1>13 DEF Prom, VerifyCmd
  <2>3. check'
    BY <1>3, <2>1, <2>2
  <2>4. QED
    BY <1>1, <2>1, <2>2, <2>3
       DEF IInv, Safe, BootsCompleteImage, BrokenIsRecorded, CheckInv, AppStates
<1>14. CASE UNCHANGED vars
  <2>1. UNCHANGED <<img, check, cpu, Fast_Program_Buf, Program_addr, Verify_addr,
                    Verify_Star_flag, host, hVer, hPos>>
    BY <1>14 DEF vars, ram, hostVars
  <2>2. SessionInv'
    BY <2>1 DEF IInv, SessionInv, Stored, Holds
  <2>3. Whole' <=> Whole
    BY <2>1 DEF Whole, Holds
  <2>4. QED
    BY <1>1, <1>2, <1>3, <2>1, <2>2, <2>3
       DEF IInv, Safe, BootsCompleteImage, BrokenIsRecorded, CheckInv
<1>15. QED
  BY <1>5, <1>6, <1>7, <1>8, <1>9, <1>10, <1>11, <1>12, <1>13, <1>14
     DEF Next, AppStep, SendStep

-----------------------------------------------------------------------------
(* Theorems *)

LEMMA Invariance == Environment => (Spec => []IInv)
<1> SUFFICES ASSUME Environment PROVE Spec => []IInv
  OBVIOUS
<1>1. Init => IInv
  BY InitInv
<1>2. IInv /\ [Next]_vars => IInv'
  BY StepInv
<1>3. QED
  BY <1>1, <1>2, PTL DEF Spec

\* Whatever power, flash pages and hosts do, a flash that holds less than a whole
\* image is recorded as such (BrokenIsRecorded), and only a whole one is jumped to
\* (IAP_2_APP).
THEOREM UpdateIsSafe == Environment => (Spec => []Safe)
<1> SUFFICES ASSUME Environment PROVE Spec => []Safe
  OBVIOUS
<1>1. IInv => Safe
  BY DEF IInv
<1>2. QED
  BY <1>1, Invariance, PTL

\* CMD_IAP_END is accepted only when flash holds the image that was sent.
THEOREM EndFindsImage == Environment => (Spec => EndInstalls)
<1> SUFFICES ASSUME Environment PROVE Spec => EndInstalls
  OBVIOUS
<1>1. IInv /\ [Next]_vars => [End => Holds(img, hVer)]_vars
  BY DEF IInv, SessionInv, End
<1>2. QED
  BY <1>1, Invariance, PTL DEF Spec, EndInstalls

\* No image that fits takes PROM or VERIFY to the page of CalAddr.
THEOREM CheckWordKept == Environment => (Spec => CheckWordSpared)
<1> SUFFICES ASSUME Environment PROVE Spec => CheckWordSpared
  OBVIOUS
<1>1. IInv /\ [Next]_vars =>
        [\A n \in 1 .. ChunkMax, result \in Results :
           Prom(n, result) \/ VerifyCmd(n, result) => check' = check]_vars
  BY PromStep, VerifyStep
<1>2. QED
  BY <1>1, Invariance, PTL DEF Spec, CheckWordSpared
=============================================================================
