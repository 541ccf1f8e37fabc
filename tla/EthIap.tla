------------------------------- MODULE EthIap -------------------------------
(***************************************************************************)
(* Firmware update over TCP (ETH/ETH_IAP).  With the button pressed the    *)
(* loader connects to a host, erases the BACKUP area, takes a file through *)
(* a ring buffer, programs it into BACKUP, compares its checksum and sets  *)
(* the update flag, which lies in the last page of BACKUP.  Without the    *)
(* button it copies BACKUP over USER if the flag is set, erases BACKUP and *)
(* starts the application.  Power may fail in any flash operation.         *)
(*                                                                         *)
(* The stack (libwchnet.a, a binary) and the host are external: a byte     *)
(* stream of which up to RECE_BUF_LEN bytes wait in the socket, and which  *)
(* ends when it likes.  The interrupt feeds only the stack.                *)
(***************************************************************************)
EXTENDS OtaFlash

CONSTANTS RECE_BUF_LEN,     \* units in the ring buffer, and in the socket
          BIN_INF_LEN,      \* units in the header of a file
          FlagWord,         \* IMAGE_FLAG_UPDATE
          NotRunning,
          StagingFaults,    \* may programming a page of BACKUP fail silently?
          CleanupTears,     \* may power fail while BACKUP is being erased
                            \* after it has been copied?
          InterruptUpdate   \* may a host be connected to before an update
                            \* received earlier was copied?

ASSUME BufferAssumption ==
  /\ BIN_INF_LEN \in Nat \ {0} /\ RECE_BUF_LEN \in Nat
  /\ BIN_INF_LEN <= RECE_BUF_LEN /\ PageUnits <= RECE_BUF_LEN
ASSUME FlagAssumption ==
  FlagWord \notin Content /\ NotRunning \notin Versions
ASSUME ChoiceAssumption ==
  {StagingFaults, CleanupTears, InterruptUpdate} \subseteq BOOLEAN

VARIABLES
  user, bak,                     \* flash: USER and BACKUP area
  cpu, blk, page,                \* what is executing; loop indices
  phase,                         \* main loop: handling events, or saving
  connFlag,
  ring, readIndex, writeIndex, buffUsedLen,
  iapFileLen, fileDataLen, flashProgramLen, fileCheckSum,
  link, sock,                    \* the connection; units in the socket
  hVer, hGood, hPos              \* host: file, is it intact?, units sent

flash == <<user, bak>>
loop  == <<blk, page>>
deal  == <<ring, readIndex, writeIndex, buffUsedLen>>
para  == <<iapFileLen, fileDataLen, flashProgramLen, fileCheckSum>>
net   == <<link, sock, hVer, hGood, hPos>>
vars  == <<flash, cpu, loop, phase, connFlag, deal, para, net>>

\* The image data that fits into BACKUP: all but its last page.
MaxDataSize == TotalUnits - PageUnits
FlagAddr    == <<NBlocks - 1, BlockPages - 1, 0>>
Flagged     == bak[FlagAddr] = FlagWord

\* Nothing executes: there is no power, or the loader has just reset the chip.
Down == cpu \in {"off", "reset"}

\* Unit k of the image in the file (the first is damaged unless hGood), and
\* how much of the file was taken off.
FileUnit(k) == IF hGood \/ k # 0 THEN Data(hVer, AddrOf(k)) ELSE Junk
Taken == hPos - sock
Index(a) == (a[1] * BlockPages + a[2]) * PageUnits + a[3]

FlashImage == [Addr -> Content \cup {FlagWord}]

FlashOK == user \in FlashImage /\ bak \in FlashImage

StatesOK ==
  /\ cpu \in {"off", "reset", "iap", "wipe", "flagErase", "flagWrite", "erase", "copy",
              "cleanup", "app", "hung"}
  /\ phase \in {"events", "save"} /\ connFlag \in BOOLEAN
  /\ fileCheckSum \in BOOLEAN /\ hGood \in BOOLEAN
  /\ link \in {"down", "connecting", "up", "closing"}

RingOK ==
  /\ ring \in [0 .. RECE_BUF_LEN - 1 -> Content]
  /\ readIndex \in 0 .. RECE_BUF_LEN - 1 /\ writeIndex \in 0 .. RECE_BUF_LEN - 1
  /\ buffUsedLen \in 0 .. RECE_BUF_LEN

CountsOK ==
  /\ blk \in Blocks /\ page \in Pages /\ hVer \in Versions
  /\ iapFileLen \in 0 .. BIN_INF_LEN + TotalUnits
  /\ fileDataLen \in 0 .. BIN_INF_LEN + TotalUnits
  /\ flashProgramLen \in 0 .. MaxDataSize
  /\ sock \in 0 .. RECE_BUF_LEN /\ hPos \in 0 .. BIN_INF_LEN + TotalUnits

TypeOK == FlashOK /\ StatesOK /\ RingOK /\ CountsOK

-----------------------------------------------------------------------------
\* IAPParaInit.  fileCheckSum is whether the sum is that of intact data.
IAPParaInit ==
  /\ readIndex' = 0 /\ writeIndex' = 0 /\ buffUsedLen' = 0 /\ UNCHANGED ring
  /\ iapFileLen' = 0 /\ fileDataLen' = 0 /\ flashProgramLen' = 0
  /\ fileCheckSum' = TRUE

\* RAM after a reset, except what the start of a session sets anyway.
ResetRam ==
  /\ IAPParaInit /\ phase' = "events" /\ connFlag' = FALSE
  /\ blk' = 0 /\ page' = 0
  /\ link' = "down" /\ sock' = 0 /\ hPos' = 0 /\ UNCHANGED <<hVer, hGood>>

\* A device in the field: some version in USER, never updated.
Init ==
  /\ \E v \in Versions :
       /\ SizeOf[v] <= MaxDataSize
       /\ user = [a \in Addr |-> IF a \in Extent(v) THEN Data(v, a) ELSE Erased]
       /\ hVer = v
  /\ bak = [a \in Addr |-> Erased]
  /\ cpu = "off" /\ blk = 0 /\ page = 0 /\ phase = "events" /\ connFlag = FALSE
  /\ ring = [i \in 0 .. RECE_BUF_LEN - 1 |-> Junk]
  /\ readIndex = 0 /\ writeIndex = 0 /\ buffUsedLen = 0
  /\ iapFileLen = 0 /\ fileDataLen = 0 /\ flashProgramLen = 0
  /\ fileCheckSum = TRUE
  /\ link = "down" /\ sock = 0 /\ hGood = TRUE /\ hPos = 0

\* Mutants: the flag is not looked at; it is cleared, but nothing is copied.
BootTargetNoFlag(button) == IF button THEN "iap" ELSE "app"
BootTargetNoCopy(button) == IF button THEN "iap" ELSE IF Flagged THEN "cleanup" ELSE "app"

\* The button decides, then the flag.
BootTarget(button) == IF button THEN "iap" ELSE IF Flagged THEN "erase" ELSE "app"

\* main up to its loop, or to IAPCopyFlashDeal.
Boot(button) ==
  /\ Down
  /\ button => InterruptUpdate \/ ~Flagged
  /\ cpu' = BootTarget(button)
  /\ link' = IF button THEN "connecting" ELSE "down"
  /\ UNCHANGED <<flash, loop, phase, connFlag, deal, para, sock, hVer, hGood,
                 hPos>>

-----------------------------------------------------------------------------
(* The loop of main with the button pressed: socket events, then           *)
(* saveUpdatedFile while connected.                                        *)

\* SINT_STAT_CONNECT: the host has a file v; BACKUP is erased block by block.
Connected(v, good) ==
  /\ cpu = "iap" /\ phase = "events" /\ link = "connecting"
  /\ link' = "up" /\ sock' = 0 /\ hVer' = v /\ hGood' = good /\ hPos' = 0
  /\ connFlag' = TRUE /\ cpu' = "wipe" /\ blk' = 0
  /\ UNCHANGED <<flash, page, phase, deal, para>>

\* IAP_EEPROM_ERASE_44k(BACKUP_IMAGE_START_ADD) at the start of a session.
Wipe ==
  /\ cpu = "wipe"
  /\ bak' = EraseBlock(bak, blk)
  /\ IF blk + 1 < NBlocks
       THEN blk' = blk + 1 /\ UNCHANGED <<cpu, phase>>
       ELSE blk' = 0 /\ cpu' = "iap" /\ phase' = "save"
  /\ UNCHANGED <<user, page, connFlag, deal, para, net>>

\* SINT_STAT_DISCONNECT, SINT_STAT_TIM_OUT: only the latter connects again.
Disconnected(reconnect) ==
  /\ cpu = "iap" /\ phase = "events" /\ link \in {"up", "closing", "connecting"}
  /\ link = "connecting" => reconnect
  /\ link' = IF reconnect THEN "connecting" ELSE "down"
  /\ connFlag' = FALSE /\ IAPParaInit /\ phase' = "save"
  /\ sock' = 0 /\ hPos' = 0
  /\ UNCHANGED <<flash, cpu, loop, hVer, hGood>>

\* Is what is in the socket the header of an image that fits into BACKUP?
Accepted == Taken = 0 /\ SizeOf[hVer] <= MaxDataSize

\* SINT_STAT_RECV, IAPFileParaCheck: a header that is complete is taken off.
Header ==
  /\ cpu = "iap" /\ phase = "events" /\ fileDataLen < BIN_INF_LEN
  /\ sock >= BIN_INF_LEN /\ link \in {"up", "closing"}
  /\ sock' = sock - BIN_INF_LEN
  /\ IF Accepted
       THEN /\ iapFileLen' = BIN_INF_LEN + SizeOf[hVer]
            /\ fileDataLen' = fileDataLen + BIN_INF_LEN
            /\ UNCHANGED <<deal, flashProgramLen, fileCheckSum, link>>
       ELSE IAPParaInit /\ link' = "closing"
  /\ phase' = "save"
  /\ UNCHANGED <<flash, cpu, loop, connFlag, hVer, hGood, hPos>>

\* Mutant: the data not saved yet is not spared.
FreeLenAll == RECE_BUF_LEN

\* The index n units further round the ring.
Advanced(i, n) == (i + n) % RECE_BUF_LEN

\* What receUpdatedFile may write into the ring, in one or two pieces.
FreeLen ==
  IF readIndex <= writeIndex THEN RECE_BUF_LEN - buffUsedLen
                             ELSE readIndex - writeIndex

\* SINT_STAT_RECV, receUpdatedFile: as much as fits is taken off the socket.
Receive ==
  LET n == IF sock <= FreeLen THEN sock ELSE FreeLen
      ofs(i) == (i + RECE_BUF_LEN - writeIndex) % RECE_BUF_LEN
  IN /\ cpu = "iap" /\ phase = "events" /\ fileDataLen >= BIN_INF_LEN
     /\ sock > 0 /\ link \in {"up", "closing"} /\ buffUsedLen < RECE_BUF_LEN
     /\ ring' = [i \in DOMAIN ring |->
                   IF ofs(i) < n THEN FileUnit(Taken + ofs(i) - BIN_INF_LEN)
                                 ELSE ring[i]]
     /\ writeIndex' = Advanced(writeIndex, n)
     /\ buffUsedLen' = buffUsedLen + n
     /\ fileDataLen' = fileDataLen + n
     /\ sock' = sock - n
     /\ phase' = "save"
     /\ UNCHANGED <<flash, cpu, loop, connFlag, readIndex, iapFileLen,
                    flashProgramLen, fileCheckSum, link, hVer, hGood, hPos>>

\* Nothing or only part of a header has come, or the ring is full.
NoEvent ==
  /\ cpu = "iap" /\ phase = "events"
  /\ \/ sock = 0 \/ link \notin {"up", "closing"}
     \/ fileDataLen < BIN_INF_LEN /\ sock < BIN_INF_LEN
     \/ fileDataLen >= BIN_INF_LEN /\ buffUsedLen = RECE_BUF_LEN
  /\ phase' = "save"
  /\ UNCHANGED <<flash, cpu, loop, connFlag, deal, para, net>>

\* How much saveUpdatedFile takes: whole pages, or the rest at the end.
SaveLen ==
  IF buffUsedLen >= PageUnits THEN buffUsedLen - (buffUsedLen % PageUnits)
  ELSE IF iapFileLen = fileDataLen THEN buffUsedLen ELSE 0

FromRing(k) == ring[Advanced(readIndex, k)]

\* Mutant: the sum runs over a unit too many.
SumRightOver(n) ==
  /\ fileCheckSum
  /\ \A k \in 0 .. n : FromRing(k) = Data(hVer, AddrOf(flashProgramLen + k))

\* Is the sum right after the next n units?
SumRight(n) ==
  /\ fileCheckSum
  /\ \A k \in 0 .. n - 1 : FromRing(k) = Data(hVer, AddrOf(flashProgramLen + k))

\* saveUpdatedFile with something to save.
Save(fault) ==
  LET n == SaveLen
      at(a) == Index(a) - flashProgramLen
      last == iapFileLen = flashProgramLen' + BIN_INF_LEN
  IN /\ cpu = "iap" /\ phase = "save" /\ connFlag /\ n > 0
     /\ phase' = "events"
     /\ IF flashProgramLen + n > MaxDataSize
          THEN link' = "closing" /\ UNCHANGED <<bak, readIndex, buffUsedLen,
                                   flashProgramLen, fileCheckSum, cpu>>
          ELSE /\ bak' = [a \in Addr |->
                            IF at(a) \notin 0 .. n - 1 THEN bak[a]
                            ELSE IF fault \/ bak[a] # Erased THEN Junk
                            ELSE FromRing(at(a))]
               /\ readIndex' = Advanced(readIndex, n)
               /\ buffUsedLen' = buffUsedLen - n
               /\ flashProgramLen' = flashProgramLen + n
               /\ fileCheckSum' = SumRight(n)
               /\ cpu' = IF last /\ fileCheckSum' THEN "flagErase" ELSE cpu
               /\ link' = IF last THEN "closing" ELSE link
     /\ UNCHANGED <<user, loop, connFlag, ring, writeIndex, iapFileLen,
                    fileDataLen, sock, hVer, hGood, hPos>>

NothingToSave ==
  /\ cpu = "iap" /\ phase = "save" /\ (~connFlag \/ SaveLen = 0)
  /\ phase' = "events"
  /\ UNCHANGED <<flash, cpu, loop, connFlag, deal, para, net>>

\* The checksum is right: erase the page of the flag, ...
FlagErase ==
  /\ cpu = "flagErase" /\ cpu' = "flagWrite"
  /\ bak' = [a \in Addr |-> IF a[1] = FlagAddr[1] /\ a[2] = FlagAddr[2]
                              THEN Erased ELSE bak[a]]
  /\ UNCHANGED <<user, loop, phase, connFlag, deal, para, net>>

\* ... program it, and reset.
FlagWrite ==
  /\ cpu = "flagWrite" /\ cpu' = "reset"
  /\ bak' = [bak EXCEPT ![FlagAddr] = FlagWord]
  /\ ResetRam /\ UNCHANGED user

-----------------------------------------------------------------------------
(* IAPCopyFlashDeal                                                        *)

RamOnly == UNCHANGED <<phase, connFlag, deal, para, net>>

\* IAP_EEPROM_ERASE_44k(USER_IMAGE_START_ADD)
CopyErase ==
  /\ cpu = "erase"
  /\ user' = EraseBlock(user, blk)
  /\ IF blk + 1 < NBlocks THEN blk' = blk + 1 /\ UNCHANGED cpu
                          ELSE blk' = 0 /\ cpu' = "copy"
  /\ UNCHANGED <<bak, page>> /\ RamOnly

\* Mutants: the copy ends a page early; it does not get to the next block.
MorePagesShort == page + 2 < BlockPages
NextBlockStuck == blk

\* The loop of the copy over pieces, here blocks and their pages.
MorePages == page + 1 < BlockPages
NextBlock == blk + 1

\* Write a piece of USER and compare it with what was read from BACKUP (a page
\* stands for the 2 KB the code takes at a time); if they differ, for ever hang.
CopyPage(fault) ==
  /\ cpu = "copy"
  /\ user' = IF fault THEN TornPage(user, blk, page)
             ELSE ProgramPage(user, blk, page, [o \in Offsets |-> bak[<<blk, page, o>>]])
  /\ IF \E o \in Offsets : user'[<<blk, page, o>>] # bak[<<blk, page, o>>]
       THEN cpu' = "hung" /\ UNCHANGED loop
     ELSE IF MorePages
       THEN page' = page + 1 /\ UNCHANGED <<cpu, blk>>
     ELSE IF NextBlock < NBlocks
       THEN page' = 0 /\ blk' = NextBlock /\ UNCHANGED cpu
       ELSE page' = 0 /\ blk' = 0 /\ cpu' = "cleanup"
  /\ UNCHANGED bak /\ RamOnly

\* IAP_EEPROM_ERASE_44k(BACKUP_IMAGE_START_ADD): the flag goes last.
Cleanup ==
  /\ cpu = "cleanup"
  /\ bak' = EraseBlock(bak, blk)
  /\ IF blk + 1 < NBlocks THEN blk' = blk + 1 /\ UNCHANGED cpu
                          ELSE blk' = 0 /\ cpu' = "app"
  /\ UNCHANGED <<user, page>> /\ RamOnly

-----------------------------------------------------------------------------
(* The host and the supply                                                 *)

\* The next n units of the file arrive in the socket.
Send(n) ==
  /\ cpu = "iap" /\ link = "up"
  /\ sock + n <= RECE_BUF_LEN /\ hPos + n <= BIN_INF_LEN + SizeOf[hVer]
  /\ sock' = sock + n /\ hPos' = hPos + n
  /\ UNCHANGED <<flash, cpu, loop, phase, connFlag, deal, para, link, hVer, hGood>>

\* Power fails or the device is reset; the operation in progress may be torn.
PowerLoss(torn) ==
  /\ cpu # "off" /\ cpu' = "off"
  /\ ~CleanupTears /\ cpu = "cleanup" => blk = 0 /\ ~torn
  /\ user' = IF torn /\ cpu = "erase" THEN TornBlock(user, blk)
             ELSE IF torn /\ cpu = "copy" THEN TornPage(user, blk, page) ELSE user
  /\ bak' = IF torn /\ cpu \in {"wipe", "cleanup"} THEN TornBlock(bak, blk)
            ELSE IF torn /\ cpu \in {"flagErase", "flagWrite"}
              THEN TornPage(bak, FlagAddr[1], FlagAddr[2])
            ELSE IF torn /\ cpu = "iap" /\ phase = "save" /\ connFlag /\ SaveLen > 0
              THEN TornPage(bak, AddrOf(flashProgramLen)[1], AddrOf(flashProgramLen)[2])
            ELSE bak
  /\ ResetRam

Faults == IF StagingFaults THEN BOOLEAN ELSE {FALSE}

Receiving == Wipe \/ Header \/ Receive \/ NoEvent

Saving == NothingToSave \/ \E fault \in Faults : Save(fault)

Updating ==
  \/ FlagErase \/ FlagWrite
  \/ CopyErase \/ Cleanup \/ \E fault \in BOOLEAN : CopyPage(fault)

HostStep ==
  \/ \E v \in Versions, good \in BOOLEAN : Connected(v, good)
  \/ \E reconnect \in BOOLEAN : Disconnected(reconnect)
  \/ \E n \in 1 .. RECE_BUF_LEN : Send(n)

Next ==
  \/ \E button \in BOOLEAN : Boot(button)
  \/ Receiving \/ Saving \/ Updating \/ HostStep
  \/ \E torn \in BOOLEAN : PowerLoss(torn)

Spec == Init /\ [][Next]_vars

\* The processor goes on, and a host that is connected sends its file.
FairSpec ==
  /\ Spec
  /\ WF_vars(\E button \in BOOLEAN : Boot(button))
  /\ WF_vars(Receiving) /\ WF_vars(Saving) /\ WF_vars(Updating)
  /\ WF_vars(\E n \in 1 .. RECE_BUF_LEN : Send(n))

-----------------------------------------------------------------------------
(* Properties *)

WholeIn(img) == \E v \in Versions : Holds(img, v)

\* The ring holds the data received and not saved yet, in order: no piece is
\* overwritten before it is saved, wherever the indices wrap.
RingInOrder ==
  /\ (writeIndex - readIndex) % RECE_BUF_LEN = buffUsedLen % RECE_BUF_LEN
  /\ \A k \in 0 .. buffUsedLen - 1 : FromRing(k) = FileUnit(flashProgramLen + k)

\* Image data never reaches the page of the update flag.
FlagPageSpared ==
  cpu = "iap" => \A o \in Offsets :
                   bak[<<NBlocks - 1, BlockPages - 1, o>>]
                     \in {Erased, Junk, FlagWord}

\* What holds of the ring, the counters and BACKUP while a file comes in.
DownloadSafe == TypeOK /\ RingInOrder /\ FlagPageSpared

\* The comment in saveUpdatedFile sets the update flag "if the checksum is
\* correct": a loader that finds it set has a whole image to copy.
FlagMeansWhole == Down /\ Flagged => WholeIn(bak)

\* What is started is one whole image, wherever a copy or a download ended.
BootsCompleteImage == cpu = "app" => WholeIn(user)

\* What the loader relies on when it copies, and what it starts.
CopySafe == FlagMeansWhole /\ BootsCompleteImage

\* Power has failed, or the connection has ended before the update was whole.
Lost == cpu = "off" \/ (cpu = "iap" /\ link \in {"down", "connecting"})

\* A host that sends an intact file that fits gets it installed, this file and no
\* other, unless power fails or the connection ends: the device does not turn it
\* down, lose a piece of it, or miss its end.
FileInstalled ==
  \A v \in Versions :
    link = "up" /\ hVer = v /\ hGood /\ SizeOf[v] <= MaxDataSize
      ~> (Flagged /\ Holds(bak, v)) \/ Lost

\* A page of USER that does not take what is written.
CopyFault == CopyPage(TRUE) /\ ~CopyPage(FALSE)

\* The loader hangs for ever only on such a page: a copy that is started over,
\* after whatever interrupted the last one, never meets a page not erased.
HangsOnlyOnFault == [][cpu # "hung" /\ cpu' = "hung" => CopyFault]_vars

\* An update received is what comes to run once power stops failing, however
\* often it failed during the copy, unless the loader hangs.
UpdateRuns ==
  <>[][~ \E torn \in BOOLEAN : PowerLoss(torn)]_vars =>
    \A v \in Versions :
      Flagged /\ Holds(bak, v) ~> (cpu = "app" /\ Holds(user, v)) \/ cpu = "hung"

\* The scheme implements AtomicUpdate: the installed image is the one in BACKUP
\* from the moment the flag is programmed until it has been copied; it changes
\* in that step only, to the file whose checksum was right.
AU == INSTANCE AtomicUpdate WITH
        installed <- VersionIn(IF Flagged /\ cpu # "cleanup" THEN bak ELSE user),
        running   <- IF cpu = "app" THEN VersionIn(user) ELSE NotRunning,
        ready     <- IF cpu \in {"flagErase", "flagWrite"} THEN {hVer} ELSE {}

ImplementsAtomicUpdate == AU!Spec
=============================================================================
