----------------------------- MODULE BackupOta ------------------------------
(***************************************************************************)
(* Firmware update over BLE with a backup area                             *)
(* (BLE/BackupUpgrade_OTA, BLE/BackupUpgrade_IAP).  The running            *)
(* application stages the new image in image B under the commands of a     *)
(* host, then writes IMAGE_IAP_FLAG into the flag page and resets.  The    *)
(* loader, finding that flag at boot, copies B over A, writes IMAGE_A_FLAG *)
(* back, erases B and jumps to A.  Power may fail between any two flash    *)
(* operations or in the middle of one.                                     *)
(*                                                                         *)
(* The host is external: it is modelled as a client that follows the       *)
(* protocol, reading the reply of INFO, ERASE and the last VERIFY of a     *)
(* session, and sending END only when that last reply was success.         *)
(***************************************************************************)
EXTENDS OtaFlash

CONSTANTS ChunkMax,          \* most units in one PROM or VERIFY command
          EraseRequests,     \* block counts a host may ask to erase
          EraseOutlivesLink, \* may a host reconnect before an erase ran out?
          NotRunning         \* what AtomicUpdate calls "no application runs"

ASSUME ChunkAssumption == ChunkMax \in 1 .. PageUnits - 1
ASSUME RequestAssumption ==
  /\ EraseRequests \subseteq Nat \ {0}
  /\ EraseOutlivesLink \in BOOLEAN
ASSUME NotRunningAssumption == NotRunning \notin Versions

VARIABLES
  imgA, imgB, flag,          \* flash: both images, and the flag page
  stagingFaults,             \* this device's B may silently fail to program
  cpu,                       \* what the device is executing
  blk, page,                 \* i and page_count of jump_APP
  block_buf, prom_addr,      \* application RAM: staging buffer and cursor
  eraseEvt,                  \* OTA_FLASH_ERASE_EVT pending
  EraseBlockNum, EraseBlockCnt,
  VerifyStatus,
  readBuf,                   \* OTAProfileReadBuf: the reply not read yet
  host, hVer, hPos           \* host: phase, image it sends, position in it

flash  == <<imgA, imgB, flag>>
loader == <<blk, page>>
ram    == <<block_buf, prom_addr, eraseEvt, EraseBlockNum, EraseBlockCnt,
            VerifyStatus, readBuf>>
hostVars == <<host, hVer, hPos>>
vars   == <<flash, stagingFaults, cpu, loader, ram, hostVars>>

Flags == {"none", "A", "IAP"}    \* "none": the 0x5A tags are missing
LoaderStates == {"erase", "program", "flagErase", "flagProgram", "destroy"}
AppStates    == {"app", "endErase", "endProgram"}
Replies      == {"none", "info", "ok", "bad"}
HostPhases   == {"off", "linked", "infoWait", "ready", "eraseWait", "prom",
                 "verify", "verifyWait", "verified"}
\* An absolute flash address: a page of image B, or of the loader's image
\* (prom_addr = 0, its value before the first ERASE and after a flush).
FlashAddr == [image : {"IAP", "B"}, page : Nat]
LowAddr  == [image |-> "IAP", page |-> 0]
StartOfB == [image |-> "B", page |-> 0]

Running == cpu \in AppStates

TypeOK ==
  /\ imgA \in Image /\ imgB \in Image /\ flag \in Flags
  /\ stagingFaults \in BOOLEAN
  /\ cpu \in {"off"} \cup LoaderStates \cup AppStates
  /\ blk \in 0 .. NBlocks /\ page \in 0 .. BlockPages
  /\ cpu \in {"erase", "program", "destroy"} => blk < NBlocks
  /\ cpu = "program" => page < BlockPages
  /\ block_buf \in Seq(Content) /\ Len(block_buf) < PageUnits
  /\ prom_addr \in FlashAddr
  /\ eraseEvt \in BOOLEAN /\ EraseBlockNum \in Nat /\ EraseBlockCnt \in Nat
  /\ VerifyStatus \in {"ok", "bad"} /\ readBuf \in Replies
  /\ host \in HostPhases /\ hVer \in Versions /\ hPos \in 0 .. TotalUnits

\* Globals as the C start-up code leaves them; the link is down.
ResetRam ==
  /\ block_buf' = <<>> /\ prom_addr' = LowAddr
  /\ eraseEvt' = FALSE /\ EraseBlockNum' = 0 /\ EraseBlockCnt' = 0
  /\ VerifyStatus' = "ok" /\ readBuf' = "none"
  /\ host' = "off" /\ hPos' = 0
  /\ UNCHANGED <<hVer, stagingFaults>>

\* A device in the field: some version in A, B never used, and as good as it is.
Init ==
  /\ \E v \in Versions :
       /\ imgA = [a \in Addr |-> IF a \in Extent(v) THEN Data(v, a) ELSE Erased]
       /\ hVer = v
  /\ imgB = [a \in Addr |-> Erased]
  /\ flag = "none" /\ stagingFaults \in BOOLEAN
  /\ cpu = "off" /\ blk = 0 /\ page = 0
  /\ block_buf = <<>> /\ prom_addr = LowAddr
  /\ eraseEvt = FALSE /\ EraseBlockNum = 0 /\ EraseBlockCnt = 0
  /\ VerifyStatus = "ok" /\ readBuf = "none"
  /\ host = "off" /\ hPos = 0

-----------------------------------------------------------------------------
(* The loader: BackupUpgrade_IAP/APP/peripheral_main.c *)

\* Mutants: the flag is not looked at; it is put back, but nothing is copied.
BootTargetNoFlag == "app"
BootTargetNoCopy == IF flag = "IAP" THEN "flagErase" ELSE "app"

\* ReadImageFlag, and what jump_APP does first.
BootTarget == IF flag = "IAP" THEN "erase" ELSE "app"

\* main: ReadImageFlag (anything but an intact IAP flag means image A), then
\* jump_APP, which jumps at once or starts to copy.
Boot ==
  /\ cpu = "off"
  /\ cpu' = BootTarget
  /\ blk' = 0 /\ page' = 0
  /\ UNCHANGED <<flash, ram, hostVars, stagingFaults>>

\* Mutant: the loop ends one block early.
MoreBlocksShort(b) == b + 1 < NBlocks

\* Condition and step of the two loops over the blocks.
MoreBlocks(b) == b < NBlocks
NextBlock == blk + 1

\* jump_APP, the copy loop: erase block blk of A ...
CopyErase ==
  /\ cpu = "erase"
  /\ imgA' = EraseBlock(imgA, blk)
  /\ cpu' = "program" /\ page' = 0
  /\ UNCHANGED <<imgB, flag, blk, ram, hostVars, stagingFaults>>

\* ... and program its pages from B.
CopyProgram ==
  /\ cpu = "program"
  /\ imgA' = ProgramPage(imgA, blk, page, [o \in Offsets |-> imgB[<<blk, page, o>>]])
  /\ IF page + 1 < BlockPages
       THEN page' = page + 1 /\ UNCHANGED <<cpu, blk>>
       ELSE /\ page' = 0 /\ blk' = NextBlock
            /\ cpu' = IF MoreBlocks(NextBlock) THEN "erase" ELSE "flagErase"
  /\ UNCHANGED <<imgB, flag, ram, hostVars, stagingFaults>>

\* SwitchImageFlag(IMAGE_A_FLAG): erase the flag page, then program it.
SwitchToAErase ==
  /\ cpu = "flagErase"
  /\ flag' = "none" /\ cpu' = "flagProgram"
  /\ UNCHANGED <<imgA, imgB, loader, ram, hostVars, stagingFaults>>

SwitchToAProgram ==
  /\ cpu = "flagProgram"
  /\ flag' = "A" /\ cpu' = "destroy" /\ blk' = 0
  /\ UNCHANGED <<imgA, imgB, page, ram, hostVars, stagingFaults>>

\* "Destroy the backup code", then jumpApp.
DestroyBackup ==
  /\ cpu = "destroy"
  /\ imgB' = EraseBlock(imgB, blk)
  /\ blk' = NextBlock
  /\ cpu' = IF MoreBlocks(NextBlock) THEN "destroy" ELSE "app"
  /\ UNCHANGED <<imgA, flag, page, ram, hostVars, stagingFaults>>

-----------------------------------------------------------------------------
(* The application: BackupUpgrade_OTA/APP/peripheral.c.  Commands and the  *)
(* erase event run in the one TMOS loop, so each is atomic.                *)

AppOnly == UNCHANGED <<imgA, flag, stagingFaults, cpu, loader>>

\* The link comes up; nothing is done about an update left half way.
Connect ==
  /\ cpu = "app" /\ host = "off"
  /\ EraseOutlivesLink \/ ~eraseEvt
  /\ host' = "linked"
  /\ UNCHANGED <<imgB, ram, hVer, hPos>> /\ AppOnly

Disconnect ==
  /\ cpu = "app" /\ host # "off"
  /\ host' = "off"
  /\ UNCHANGED <<imgB, ram, hVer, hPos>> /\ AppOnly

\* CMD_IAP_INFO
Info ==
  /\ cpu = "app" /\ host = "linked"
  /\ block_buf' = <<>> /\ readBuf' = "info"
  /\ host' = "infoWait"
  /\ UNCHANGED <<imgB, prom_addr, eraseEvt, EraseBlockNum, EraseBlockCnt,
                 VerifyStatus, hVer, hPos>> /\ AppOnly

\* OTAProfile_ReadAttrCB: the host takes the reply, which empties the buffer.
ReadReply(from, expected, next) ==
  /\ cpu = "app" /\ host = from /\ readBuf # "none"
  /\ readBuf' = "none"
  /\ host' = IF readBuf = expected THEN next ELSE "linked"
  /\ UNCHANGED <<imgB, block_buf, prom_addr, eraseEvt, EraseBlockNum,
                 EraseBlockCnt, VerifyStatus, hVer, hPos>> /\ AppOnly

ReadInfo   == ReadReply("infoWait", "info", "ready")
ReadErase  == ReadReply("eraseWait", "ok", "prom")
ReadVerify == ReadReply("verifyWait", "ok", "verified")

\* Mutant: nothing is refused.
EraseAcceptedAny(n) == TRUE

\* The bounds check of CMD_IAP_ERASE for n blocks from the start of B.
EraseAccepted(n) == n - 1 <= NBlocks

\* Where the first page goes after CMD_IAP_ERASE.
EraseCursor == StartOfB

\* CMD_IAP_ERASE: everything is stored before the bounds are checked.
EraseCmd(v, n) ==
  /\ cpu = "app" /\ host = "ready"
  /\ n * BlockPages * PageUnits >= SizeOf[v]
  /\ block_buf' = <<>> /\ prom_addr' = EraseCursor
  /\ EraseBlockNum' = n /\ EraseBlockCnt' = 0
  /\ VerifyStatus' = "ok"
  /\ IF EraseAccepted(n)
       THEN eraseEvt' = TRUE /\ UNCHANGED readBuf
       ELSE readBuf' = "bad" /\ UNCHANGED eraseEvt
  /\ host' = "eraseWait" /\ hVer' = v /\ hPos' = 0
  /\ UNCHANGED imgB /\ AppOnly

\* Mutant: a failure is not reported.
EraseReplySilent(status) ==
  IF eraseEvt' \/ status = "bad" THEN readBuf ELSE status

\* Is OTA_FLASH_ERASE_EVT left set when erasing a block ended with status?
StillErasing(status) == status = "ok" /\ EraseBlockCnt + 1 < EraseBlockNum
\* What the host finds to read after it.
EraseReply(status) == IF eraseEvt' THEN readBuf ELSE status

\* Peripheral_ProcessEvent, OTA_FLASH_ERASE_EVT: one block per call.
EraseEvent(status) ==
  /\ cpu = "app" /\ eraseEvt
  /\ imgB' = IF status = "ok" THEN EraseBlock(imgB, EraseBlockCnt) ELSE imgB
  /\ EraseBlockCnt' = IF status = "ok" THEN EraseBlockCnt + 1 ELSE EraseBlockCnt
  /\ eraseEvt' = StillErasing(status)
  /\ readBuf' = EraseReply(status)
  /\ UNCHANGED <<block_buf, prom_addr, EraseBlockNum, VerifyStatus, hostVars>>
  /\ AppOnly

\* The page of B the next programming operation hits, if it is in B.
StagePage(fault, data) ==
  IF prom_addr.image = "B" /\ prom_addr.page < NBlocks * BlockPages
    THEN LET b == prom_addr.page \div BlockPages
             p == prom_addr.page % BlockPages
         IN imgB' = IF fault THEN TornPage(imgB, b, p)
                             ELSE ProgramPage(imgB, b, p, data)
    ELSE UNCHANGED imgB

\* The next n units of the image being sent.
Chunk(n) == [j \in 1 .. n |-> Data(hVer, AddrOf(hPos + j - 1))]

\* The host has n more units in a command; done is its next phase at the end.
Advance(n, phase, done) ==
  IF hPos + n < SizeOf[hVer]
    THEN hPos' = hPos + n /\ host' = phase
    ELSE hPos' = 0 /\ host' = done

\* Mutants: block_buf_len is not reduced; the tail is dropped, not moved.
RestKept(buf) == buf
RestDropped(buf) == <<>>

\* What block_buf keeps when its first page has been programmed.
Rest(buf) == SubSeq(buf, PageUnits + 1, Len(buf))

\* CMD_IAP_PROM: collect, and program a page when one is full.
Prom(n, fault) ==
  LET buf == block_buf \o Chunk(n)
  IN /\ cpu = "app" /\ host = "prom" /\ hPos + n <= SizeOf[hVer]
     /\ IF Len(buf) >= PageUnits
          THEN /\ StagePage(fault, [o \in Offsets |-> buf[o + 1]])
               /\ block_buf' = Rest(buf)
               /\ prom_addr' = [prom_addr EXCEPT !.page = @ + 1]
          ELSE /\ block_buf' = buf
               /\ UNCHANGED <<imgB, prom_addr>>
     /\ readBuf' = "ok"
     /\ Advance(n, "prom", "verify")
     /\ UNCHANGED <<eraseEvt, EraseBlockNum, EraseBlockCnt, VerifyStatus, hVer>>
     /\ AppOnly

\* Mutant: a match clears the mismatch seen before it.
VerdictForgetting(match) == IF match THEN "ok" ELSE "bad"

\* VerifyStatus after a comparison.
Verdict(match) == IF match THEN VerifyStatus ELSE "bad"

\* CMD_IAP_VERIFY: flush the partial page (the bytes past block_buf_len are
\* stale), compare, and remember a mismatch.
VerifyCmd(n, fault) ==
  /\ cpu = "app" /\ host = "verify" /\ hPos + n <= SizeOf[hVer]
  /\ IF block_buf # <<>>
       THEN /\ StagePage(fault, [o \in Offsets |->
                 IF o < Len(block_buf) THEN block_buf[o + 1] ELSE Junk])
            /\ block_buf' = <<>> /\ prom_addr' = LowAddr
       ELSE UNCHANGED <<imgB, block_buf, prom_addr>>
  /\ VerifyStatus' = Verdict(\A k \in hPos .. hPos + n - 1 :
                               imgB'[AddrOf(k)] = Data(hVer, AddrOf(k)))
  /\ readBuf' = VerifyStatus'
  /\ Advance(n, "verify", "verifyWait")
  /\ UNCHANGED <<eraseEvt, EraseBlockNum, EraseBlockCnt, hVer>> /\ AppOnly

\* CMD_IAP_END: interrupts off, SwitchImageFlag(IMAGE_IAP_FLAG), reset.
End ==
  /\ cpu = "app" /\ host = "verified"
  /\ cpu' = "endErase" /\ host' = "off"
  /\ UNCHANGED <<flash, loader, ram, hVer, hPos, stagingFaults>>

EndErase ==
  /\ cpu = "endErase"
  /\ flag' = "none" /\ cpu' = "endProgram"
  /\ UNCHANGED <<imgA, imgB, loader, ram, hostVars, stagingFaults>>

EndProgram ==
  /\ cpu = "endProgram"
  /\ flag' = "IAP" /\ cpu' = "off"
  /\ ResetRam /\ UNCHANGED <<imgA, imgB, loader>>

-----------------------------------------------------------------------------
\* The supply fails; the flash operation in progress, if any, is torn.
PowerLoss(torn) ==
  /\ cpu # "off" /\ cpu' = "off"
  /\ imgA' = CASE torn /\ cpu = "erase"   -> TornBlock(imgA, blk)
               [] torn /\ cpu = "program" -> TornPage(imgA, blk, page)
               [] OTHER -> imgA
  /\ imgB' = CASE torn /\ cpu = "destroy" -> TornBlock(imgB, blk)
               [] torn /\ cpu = "app" /\ eraseEvt -> TornBlock(imgB, EraseBlockCnt)
               [] OTHER -> imgB
  /\ flag' = IF torn /\ cpu \in {"flagErase", "endErase"} THEN "none" ELSE flag
  /\ ResetRam /\ UNCHANGED loader

LoaderStep ==
  \/ Boot \/ CopyErase \/ CopyProgram
  \/ SwitchToAErase \/ SwitchToAProgram \/ DestroyBackup

Faults == IF stagingFaults THEN BOOLEAN ELSE {FALSE}

EraseStep == \E status \in {"ok", "bad"} : EraseEvent(status)

HostStep ==
  \/ Connect \/ Disconnect
  \/ Info \/ ReadInfo \/ ReadErase \/ ReadVerify
  \/ \E v \in Versions, n \in EraseRequests : EraseCmd(v, n)
  \/ \E n \in 1 .. ChunkMax, fault \in Faults : Prom(n, fault) \/ VerifyCmd(n, fault)
  \/ End

EndStep == EndErase \/ EndProgram

Next == LoaderStep \/ EraseStep \/ HostStep \/ EndStep
        \/ \E torn \in BOOLEAN : PowerLoss(torn)

Spec == Init /\ [][Next]_vars

\* The processor keeps executing while it has power; the host owes nothing.
FairSpec == Spec /\ WF_vars(LoaderStep) /\ WF_vars(EraseStep) /\ WF_vars(EndStep)

-----------------------------------------------------------------------------
(* Properties *)

\* The region the flag page selects.
Selected == IF flag = "IAP" THEN imgB ELSE imgA

\* The application the loader jumps to (jumpApp) is one whole image, never a
\* mixture of two: no power loss in the copy loop of jump_APP can leave A half
\* written behind a flag that lets it boot.
BootsCompleteImage == Running => \E v \in Versions : Holds(imgA, v)

\* Whatever the moment power fails, the flag page names a region that holds a
\* whole image: B while the IAP flag is set, A otherwise, also while
\* SwitchImageFlag has the flag page erased.
Recoverable == \E v \in Versions : Holds(Selected, v)

\* A page about to be programmed from block_buf is in image B and erased: the
\* cursor prom_addr, reset by VERIFY and by a restart, never meets PROM before
\* an ERASE that covers it has run to its end.
NextPageErased ==
  (host = "prom" \/ (host = "verify" /\ block_buf # <<>>)) =>
    /\ prom_addr.image = "B"
    /\ \A a \in Addr : a[1] * BlockPages + a[2] = prom_addr.page => imgB[a] = Erased

\* On a device whose B takes what is written, a session that follows the protocol is never refused:
\* the buffering of PROM loses, repeats and misplaces nothing, whatever the
\* chunk sizes and however the session before it was cut off.
VerifySucceeds == ~stagingFaults => VerifyStatus = "ok"

\* What PROM and VERIFY must not do, whatever sessions came before.
SessionSound == NextPageErased /\ VerifySucceeds

\* OTA_FLASH_ERASE_EVT erases blocks of image B only (ota.h gives each image
\* its own area).
EraseWithinB == [][EraseStep => EraseBlockCnt < NBlocks]_vars

\* An ERASE that is refused after its block count was stored, ...
Refused == \E v \in Versions, n \in EraseRequests : ~EraseAccepted(n) /\ EraseCmd(v, n)

\* ... while OTA_FLASH_ERASE_EVT is still set for the one before.
Overtaken == eraseEvt /\ Refused

\* OTA_FLASH_ERASE_EVT never carries out a request that was refused, nor erases
\* a block more than was asked for, whatever was asked for and however the
\* session ended.  (What is accepted may be one block more than B has; the block
\* behind B is free.)
EraseAsAccepted ==
  [][EraseStep => EraseBlockCnt < EraseBlockNum /\ EraseBlockNum - 1 <= NBlocks]_vars

\* Once the IAP flag is written, it is the image staged in B that comes to run,
\* unless power keeps failing: every path of jump_APP copies all of it and ends
\* in jumpApp.
UpdateCompletes ==
  <>[][~ \E torn \in BOOLEAN : PowerLoss(torn)]_vars =>
    \A v \in Versions :
      flag = "IAP" /\ Holds(imgB, v) ~> cpu = "app" /\ Holds(imgA, v)

\* A host waiting for the answer to ERASE gets one: refused, failed half way or
\* complete, every way out of the erase event leaves a reply to read.
EraseAnswered == host = "eraseWait" ~> (readBuf # "none" \/ host # "eraseWait")

\* The whole scheme implements AtomicUpdate: the installed image is the one the
\* flag page selects; it only changes when CMD_IAP_END programs IMAGE_IAP_FLAG,
\* to the image the host sent; copying it over A and putting the flag back
\* changes nothing, and no power loss undoes it.
AU == INSTANCE AtomicUpdate WITH
        installed <- VersionIn(Selected),
        running   <- IF Running THEN VersionIn(imgA) ELSE NotRunning,
        ready     <- IF cpu \in {"endErase", "endProgram"} THEN {hVer} ELSE {}

ImplementsAtomicUpdate == AU!Spec
=============================================================================
