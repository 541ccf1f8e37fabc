----------------------------- MODULE OnlyUpdate -----------------------------
(***************************************************************************)
(* Firmware update over BLE in place (BLE/OnlyUpdateApp_IAP, the loader,   *)
(* and BLE/OnlyUpdateApp_Peripheral, the application).  The application    *)
(* writes IMAGE_OTA_FLAG and resets into the loader; the loader takes the  *)
(* commands of a host, gives image A up (IMAGE_IAP_FLAG) before it erases  *)
(* it, programs and verifies the new one, and writes IMAGE_A_FLAG.  Power  *)
(* may fail between any two flash operations or in the middle of one.      *)
(*                                                                         *)
(* The host is external and follows the protocol, as in BackupOta.         *)
(***************************************************************************)
EXTENDS OtaFlash

CONSTANTS ChunkMax,          \* most units in one PROM or VERIFY command
          EraseRequests,     \* block counts a host may ask to erase
          StagingFaults,     \* may programming a page fail silently?
          EraseOutlivesLink, \* may a host reconnect before an erase ran out?
          SwitchTears,       \* may power fail while the flag page is empty
                             \* and image A is already given up?
          NoImage, NotRunning

ASSUME ChunkAssumption == ChunkMax \in 1 .. PageUnits - 1
ASSUME RequestAssumption ==
  /\ EraseRequests \subseteq Nat \ {0}
  /\ {StagingFaults, EraseOutlivesLink, SwitchTears} \subseteq BOOLEAN
ASSUME NoneAssumption == NoImage \notin Versions /\ NotRunning \notin Versions

VARIABLES
  imgA, flag,                \* flash: the application area and the flag page
  sft,                       \* RCC_FLAG_SFTRST: the last reset was by software
  cpu,                       \* what the device is executing
  block_buf, prom_addr,      \* loader RAM: page buffer and cursor
  eraseEvt, EraseBlockNum, EraseBlockCnt,
  VerifyStatus,
  readBuf,                   \* OTAProfileReadBuf: the reply not read yet
  host, hVer, hPos           \* host: phase, image it sends, position in it

flash == <<imgA, flag>>
ram   == <<block_buf, prom_addr, eraseEvt, EraseBlockNum, EraseBlockCnt,
           VerifyStatus, readBuf>>
hostVars == <<host, hVer, hPos>>
vars  == <<flash, sft, cpu, ram, hostVars>>

Flags   == {"none", "A", "IAP", "OTA"}    \* "none": the 0x5A tags are missing
Switching == {"otaErase", "otaProgram", "iapErase", "iapProgram",
              "endErase", "endProgram"}
HostPhases == {"off", "linked", "infoWait", "ready", "eraseWait", "prom",
               "verify", "verifyWait", "verified"}
\* A page of image A, or of the loader (prom_addr = 0 after a flush).
LowAddr  == [image |-> "IAP", page |-> 0]
StartOfA == [image |-> "A", page |-> 0]

Whole == \E v \in Versions : Holds(imgA, v)

FlashOK == imgA \in Image /\ flag \in Flags /\ sft \in BOOLEAN

StatesOK ==
  /\ cpu \in {"off", "loader", "app"} \cup Switching /\ host \in HostPhases
  /\ eraseEvt \in BOOLEAN /\ VerifyStatus \in {"ok", "bad"}
  /\ readBuf \in {"none", "info", "ok", "bad"}

BufferOK ==
  /\ block_buf \in Seq(Content) /\ Len(block_buf) < PageUnits
  /\ prom_addr \in [image : {"IAP", "A"}, page : Nat] /\ hVer \in Versions

CountsOK ==
  EraseBlockNum \in Nat /\ EraseBlockCnt \in Nat /\ hPos \in 0 .. TotalUnits

TypeOK == FlashOK /\ StatesOK /\ BufferOK /\ CountsOK

\* Globals as the C start-up code leaves them; the link is down.
ResetRam ==
  /\ block_buf' = <<>> /\ prom_addr' = LowAddr
  /\ eraseEvt' = FALSE /\ EraseBlockNum' = 0 /\ EraseBlockCnt' = 0
  /\ VerifyStatus' = "ok" /\ readBuf' = "none"
  /\ host' = "off" /\ hPos' = 0 /\ UNCHANGED hVer

\* A device in the field: some version in A, never updated.
Init ==
  /\ \E v \in Versions :
       /\ imgA = [a \in Addr |-> IF a \in Extent(v) THEN Data(v, a) ELSE Erased]
       /\ hVer = v
  /\ flag = "none" /\ sft = FALSE /\ cpu = "off"
  /\ block_buf = <<>> /\ prom_addr = LowAddr
  /\ eraseEvt = FALSE /\ EraseBlockNum = 0 /\ EraseBlockCnt = 0
  /\ VerifyStatus = "ok" /\ readBuf = "none"
  /\ host = "off" /\ hPos = 0

-----------------------------------------------------------------------------
(* Start of the loader and of the application                              *)

\* ReadImageFlag (an empty page counts as IMAGE_A_FLAG), then main: a software
\* reset stays in the loader, any other reset lets IMAGE_OTA_FLAG boot A.
BootTarget ==
  IF flag \in {"none", "A"} \/ (flag = "OTA" /\ ~sft) THEN "app" ELSE "loader"

Boot ==
  /\ cpu = "off" /\ cpu' = BootTarget
  /\ UNCHANGED <<flash, sft, ram, hostVars>>

\* The application: Jump_OTA erases the flag page, programs IMAGE_OTA_FLAG and
\* resets by software.
JumpOta ==
  /\ cpu = "app" /\ cpu' = "otaErase"
  /\ UNCHANGED <<flash, sft, ram, hostVars>>

OtaErase ==
  /\ cpu = "otaErase" /\ flag' = "none" /\ cpu' = "otaProgram"
  /\ UNCHANGED <<imgA, sft, ram, hostVars>>

OtaProgram ==
  /\ cpu = "otaProgram" /\ flag' = "OTA" /\ cpu' = "off" /\ sft' = TRUE
  /\ ResetRam /\ UNCHANGED imgA

\* HardFault_Handler of the application: NVIC_SystemReset.
HardFault ==
  /\ cpu = "app" /\ cpu' = "off" /\ sft' = TRUE
  /\ ResetRam /\ UNCHANGED flash

-----------------------------------------------------------------------------
(* Commands and the erase event of the loader: one TMOS loop               *)

LoaderOnly == UNCHANGED <<flag, sft, cpu>>

\* The link comes up; nothing is done about an update left half way.
Connect ==
  /\ cpu = "loader" /\ host = "off"
  /\ EraseOutlivesLink \/ ~eraseEvt
  /\ host' = "linked"
  /\ UNCHANGED <<imgA, ram, hVer, hPos>> /\ LoaderOnly

Disconnect ==
  /\ cpu = "loader" /\ host # "off" /\ host' = "off"
  /\ UNCHANGED <<imgA, ram, hVer, hPos>> /\ LoaderOnly

\* CMD_IAP_INFO
Info ==
  /\ cpu = "loader" /\ host = "linked"
  /\ block_buf' = <<>> /\ readBuf' = "info" /\ host' = "infoWait"
  /\ UNCHANGED <<imgA, prom_addr, eraseEvt, EraseBlockNum, EraseBlockCnt,
                 VerifyStatus, hVer, hPos>> /\ LoaderOnly

\* OTAProfile_ReadAttrCB: the host takes the reply, which empties the buffer.
ReadReply(from, expected, next) ==
  /\ cpu = "loader" /\ host = from /\ readBuf # "none"
  /\ readBuf' = "none"
  /\ host' = IF readBuf = expected THEN next ELSE "linked"
  /\ UNCHANGED <<imgA, block_buf, prom_addr, eraseEvt, EraseBlockNum,
                 EraseBlockCnt, VerifyStatus, hVer, hPos>> /\ LoaderOnly

ReadInfo   == ReadReply("infoWait", "info", "ready")
ReadErase  == ReadReply("eraseWait", "ok", "prom")
ReadVerify == ReadReply("verifyWait", "ok", "verified")

\* Mutant: nothing is refused.
EraseAcceptedAny(n) == TRUE

\* The bounds check of CMD_IAP_ERASE for n blocks from the start of A.
EraseAccepted(n) == n - 1 <= NBlocks

\* Where the first page goes after CMD_IAP_ERASE.
EraseCursor == StartOfA

\* CMD_IAP_ERASE: everything is stored before the bounds are checked; an
\* accepted request goes on to SwitchImageFlag(IMAGE_IAP_FLAG).
EraseCmd(v, n) ==
  /\ cpu = "loader" /\ host = "ready"
  /\ n * BlockPages * PageUnits >= SizeOf[v]
  /\ block_buf' = <<>> /\ prom_addr' = EraseCursor
  /\ EraseBlockNum' = n /\ EraseBlockCnt' = 0
  /\ VerifyStatus' = "ok"
  /\ IF EraseAccepted(n)
       THEN cpu' = "iapErase" /\ UNCHANGED readBuf
       ELSE readBuf' = "bad" /\ UNCHANGED cpu
  /\ host' = "eraseWait" /\ hVer' = v /\ hPos' = 0
  /\ UNCHANGED <<flash, sft, eraseEvt>>

IapErase ==
  /\ cpu = "iapErase" /\ flag' = "none" /\ cpu' = "iapProgram"
  /\ UNCHANGED <<imgA, sft, ram, hostVars>>

\* Mutant: the flag page goes on selecting A while A is erased.
GivenUpNot == "A"

\* The flag written before the first block of A is erased.
GivenUp == "IAP"

\* ... and only then is OTA_FLASH_ERASE_EVT set.
IapProgram ==
  /\ cpu = "iapProgram" /\ flag' = GivenUp /\ cpu' = "loader"
  /\ eraseEvt' = TRUE
  /\ UNCHANGED <<imgA, sft, block_buf, prom_addr, EraseBlockNum, EraseBlockCnt,
                 VerifyStatus, readBuf, hostVars>>

\* Mutant: the reply of a completed erase is forgotten.
EraseReplySilent(status) == readBuf

\* Is OTA_FLASH_ERASE_EVT left set when erasing a block ended with status?
StillErasing(status) == status = "ok" /\ EraseBlockCnt + 1 < EraseBlockNum
\* What the host finds to read after it.
EraseReply(status) == IF StillErasing(status) THEN readBuf ELSE status

\* Peripheral_ProcessEvent, OTA_FLASH_ERASE_EVT: one block per call.
EraseEvent(status) ==
  /\ cpu = "loader" /\ eraseEvt
  /\ imgA' = IF status = "ok" THEN EraseBlock(imgA, EraseBlockCnt) ELSE imgA
  /\ EraseBlockCnt' = IF status = "ok" THEN EraseBlockCnt + 1 ELSE EraseBlockCnt
  /\ eraseEvt' = StillErasing(status)
  /\ readBuf' = EraseReply(status)
  /\ UNCHANGED <<block_buf, prom_addr, EraseBlockNum, VerifyStatus, hostVars>>
  /\ LoaderOnly

\* The page of A the next programming operation hits, if it is in A.
StagePage(fault, data) ==
  IF prom_addr.image = "A" /\ prom_addr.page < NBlocks * BlockPages
    THEN LET b == prom_addr.page \div BlockPages
             p == prom_addr.page % BlockPages
         IN imgA' = IF fault THEN TornPage(imgA, b, p)
                             ELSE ProgramPage(imgA, b, p, data)
    ELSE UNCHANGED imgA

\* The next n units of the image being sent.
Chunk(n) == [j \in 1 .. n |-> Data(hVer, AddrOf(hPos + j - 1))]

\* The host has n more units in a command; done is its next phase at the end.
Advance(n, phase, done) ==
  IF hPos + n < SizeOf[hVer]
    THEN hPos' = hPos + n /\ host' = phase
    ELSE hPos' = 0 /\ host' = done

\* What block_buf keeps when its first page has been programmed.
Rest(buf) == SubSeq(buf, PageUnits + 1, Len(buf))

\* CMD_IAP_PROM: collect, and program a page when one is full.
Prom(n, fault) ==
  LET buf == block_buf \o Chunk(n)
  IN /\ cpu = "loader" /\ host = "prom" /\ hPos + n <= SizeOf[hVer]
     /\ IF Len(buf) >= PageUnits
          THEN /\ StagePage(fault, [o \in Offsets |-> buf[o + 1]])
               /\ block_buf' = Rest(buf)
               /\ prom_addr' = [prom_addr EXCEPT !.page = @ + 1]
          ELSE /\ block_buf' = buf
               /\ UNCHANGED <<imgA, prom_addr>>
     /\ readBuf' = "ok"
     /\ Advance(n, "prom", "verify")
     /\ UNCHANGED <<eraseEvt, EraseBlockNum, EraseBlockCnt, VerifyStatus, hVer>>
     /\ LoaderOnly

\* Mutant: a match clears the mismatch seen before it.
VerdictForgetting(match) == IF match THEN "ok" ELSE "bad"

\* VerifyStatus after a comparison.
Verdict(match) == IF match THEN VerifyStatus ELSE "bad"

\* CMD_IAP_VERIFY: flush the partial page (the bytes past block_buf_len are
\* stale), compare, and remember a mismatch.
VerifyCmd(n, fault) ==
  /\ cpu = "loader" /\ host = "verify" /\ hPos + n <= SizeOf[hVer]
  /\ IF block_buf # <<>>
       THEN /\ StagePage(fault, [o \in Offsets |->
                 IF o < Len(block_buf) THEN block_buf[o + 1] ELSE Junk])
            /\ block_buf' = <<>> /\ prom_addr' = LowAddr
       ELSE UNCHANGED <<imgA, block_buf, prom_addr>>
  /\ VerifyStatus' = Verdict(\A k \in hPos .. hPos + n - 1 :
                               imgA'[AddrOf(k)] = Data(hVer, AddrOf(k)))
  /\ readBuf' = VerifyStatus'
  /\ Advance(n, "verify", "verifyWait")
  /\ UNCHANGED <<eraseEvt, EraseBlockNum, EraseBlockCnt, hVer>> /\ LoaderOnly

\* CMD_IAP_END: interrupts off, SwitchImageFlag(IMAGE_A_FLAG), jumpApp (no
\* reset: the application runs from here).
End ==
  /\ cpu = "loader" /\ host = "verified"
  /\ cpu' = "endErase" /\ host' = "off"
  /\ UNCHANGED <<flash, sft, ram, hVer, hPos>>

EndErase ==
  /\ cpu = "endErase" /\ flag' = "none" /\ cpu' = "endProgram"
  /\ UNCHANGED <<imgA, sft, ram, hostVars>>

EndProgram ==
  /\ cpu = "endProgram" /\ flag' = "A" /\ cpu' = "app"
  /\ ResetRam /\ UNCHANGED <<imgA, sft>>

-----------------------------------------------------------------------------
\* The supply fails; the flash operation in progress, if any, is torn.
PowerLoss(torn) ==
  /\ cpu # "off" /\ cpu' = "off" /\ sft' = FALSE
  /\ ~SwitchTears /\ cpu \in {"iapErase", "iapProgram"} =>
       Whole \/ (cpu = "iapErase" /\ ~torn)
  /\ imgA' = IF torn /\ cpu = "loader" /\ eraseEvt
               THEN TornBlock(imgA, EraseBlockCnt) ELSE imgA
  /\ flag' = IF torn /\ cpu \in {"otaErase", "iapErase", "endErase"}
               THEN "none" ELSE flag
  /\ ResetRam

Faults == IF StagingFaults THEN BOOLEAN ELSE {FALSE}

EraseStep == \E status \in {"ok", "bad"} : EraseEvent(status)

AppStep == JumpOta \/ HardFault

SwitchStep ==
  \/ OtaErase \/ OtaProgram \/ IapErase \/ IapProgram
  \/ EndErase \/ EndProgram

HostStep ==
  \/ Connect \/ Disconnect
  \/ Info \/ ReadInfo \/ ReadErase \/ ReadVerify
  \/ \E v \in Versions, n \in EraseRequests : EraseCmd(v, n)
  \/ \E n \in 1 .. ChunkMax, fault \in Faults : Prom(n, fault) \/ VerifyCmd(n, fault)
  \/ End

Next == Boot \/ AppStep \/ SwitchStep \/ EraseStep \/ HostStep
        \/ \E torn \in BOOLEAN : PowerLoss(torn)

Spec == Init /\ [][Next]_vars

\* The processor keeps executing while it has power, and there is a host that
\* keeps trying to update a device that is waiting for it.
FairSpec == /\ Spec
            /\ WF_vars(Boot) /\ WF_vars(SwitchStep) /\ WF_vars(EraseStep)
            /\ WF_vars(cpu = "loader" /\ HostStep /\ ~Disconnect)

-----------------------------------------------------------------------------
(* Properties *)

\* The application is only started (jumpApp) when image A is one whole image,
\* whatever was interrupted, by a power loss, a reset or a lost link.
BootsCompleteImage == cpu \in {"app", "otaErase", "otaProgram"} => Whole

\* An update that was interrupted leaves a device that says so: unless image A
\* is whole, the flag page holds IMAGE_IAP_FLAG, or is in the middle of being
\* rewritten by a repeated ERASE.
GivenUpIsRecorded == Whole \/ flag = "IAP" \/ cpu = "iapProgram"

\* peripheral_main.c:50: an empty flag page means that the program is executed
\* for the first time, or was never updated: image A is what it was delivered
\* with, or at least whole.
EmptyFlagMeansWhole == cpu = "off" /\ flag = "none" => Whole

\* A page about to be programmed is in image A and erased: the cursor, reset by
\* VERIFY and by a restart, never meets PROM before an ERASE that covers it.
NextPageErased ==
  (host = "prom" \/ (host = "verify" /\ block_buf # <<>>)) =>
    /\ prom_addr.image = "A"
    /\ \A a \in Addr : a[1] * BlockPages + a[2] = prom_addr.page => imgA[a] = Erased

\* What holds of the flash and the loader's variables at every moment, whatever
\* was interrupted.
Safe == TypeOK /\ BootsCompleteImage /\ GivenUpIsRecorded /\ NextPageErased

\* An ERASE that is refused after its block count was stored, ...
Refused == \E v \in Versions, n \in EraseRequests : ~EraseAccepted(n) /\ EraseCmd(v, n)

\* ... while OTA_FLASH_ERASE_EVT is still set for the one before.
Overtaken == eraseEvt /\ Refused

\* OTA_FLASH_ERASE_EVT, which erases the program of the device, never carries out
\* a request that was refused, nor erases a block more than was asked for,
\* whatever was asked for and however the session ended.  (What is accepted may
\* be one block more than A has, the first of the library behind it.)
EraseAsAccepted ==
  [][EraseStep => EraseBlockCnt < EraseBlockNum /\ EraseBlockNum - 1 <= NBlocks]_vars

\* A step in which a page or a block does not take what is written.
FlashFault ==
  \/ EraseEvent("bad")
  \/ \E n \in 1 .. ChunkMax : Prom(n, TRUE) /\ ~Prom(n, FALSE)
  \/ \E n \in 1 .. ChunkMax : VerifyCmd(n, TRUE) /\ ~VerifyCmd(n, FALSE)

\* A device given up for an update, once power, link and flash behave, comes to
\* run an image again through a host that keeps trying, with requests that fit:
\* no leftover of any number of broken sessions keeps a clean one from succeeding.
UpdateCompletes ==
  <>[][~ \/ \E torn \in BOOLEAN : PowerLoss(torn)
         \/ Disconnect \/ FlashFault \/ Refused]_vars
    => (flag = "IAP" ~> cpu = "app")

\* The version in image A, NoImage for anything that is not a whole image.
Contents == IF Whole THEN VersionIn(imgA) ELSE NoImage

\* The whole scheme implements InPlaceUpdate: an image is installed while A is
\* whole and not given up; what runs is always an installed image, and it is
\* given up before the first unit of A changes.
IU == INSTANCE InPlaceUpdate WITH
        installed <- IF flag = "IAP" THEN NoImage ELSE Contents,
        running   <- IF cpu \in {"app", "otaErase", "otaProgram"}
                       THEN Contents ELSE NotRunning

ImplementsInPlaceUpdate == IU!Spec
=============================================================================
