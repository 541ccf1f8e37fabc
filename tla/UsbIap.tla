------------------------------- MODULE UsbIap -------------------------------
(***************************************************************************)
(* Firmware update over USB or UART (IAP/USB_UART): the loader             *)
(* (CH32V20x_IAP) and the part of the application (CH32V20x_APP) that goes *)
(* back to it.  There is one image, from FLASH_Base up to the page of      *)
(* CalAddr.  CheckNum at CalAddr keeps the loader from jumping to it; the  *)
(* application writes it when told to (JUMP_IAP), the loader erases it     *)
(* when the host says END, and knows nothing else of a broken update.      *)
(*                                                                         *)
(* Pages are erased one at a time: a block of OtaFlash is one page.  The   *)
(* loader answers each command but END, and the host reads the answer      *)
(* before the next one; it is external, and sends ERASE, PROM ..., VERIFY  *)
(* ..., END, the last only if no VERIFY was refused.                       *)
(***************************************************************************)
EXTENDS OtaFlash

CONSTANTS ChunkMax,      \* most units in one PROM or VERIFY command
          FlashFaults,   \* may a page fail to be programmed silently?
          Blank,         \* may a device be delivered without application?
          ComesBack      \* may a host begin again where one broke off, without
                         \* a restart of the device in between?

ASSUME PageAssumption == BlockPages = 1
ASSUME ChunkAssumption == ChunkMax \in 1 .. PageUnits - 1
ASSUME ChoiceAssumption == {FlashFaults, Blank, ComesBack} \subseteq BOOLEAN

VARIABLES
  img,                       \* flash from FLASH_Base
  check,                     \* CheckNum is at CalAddr
  cpu,                       \* what the device is executing
  Fast_Program_Buf,          \* its first CodeLen units
  Program_addr,              \* as a page, NBlocks being the one of CalAddr
  Verify_addr,               \* as a unit
  Verify_Star_flag,
  host, hVer, hPos           \* host: phase, image it sends, position in it

ram      == <<Fast_Program_Buf, Program_addr, Verify_addr, Verify_Star_flag>>
hostVars == <<host, hVer, hPos>>
vars     == <<img, check, cpu, ram, hostVars>>

AppStates == {"app", "jumpErase", "jumpProgram"}

Whole == \E v \in Versions : Holds(img, v)

PhasesOK ==
  /\ cpu \in {"off", "iap", "endErase"} \cup AppStates
  /\ host \in {"off", "prom", "verify", "verified"}
  /\ check \in BOOLEAN /\ Verify_Star_flag \in BOOLEAN

DataOK ==
  /\ img \in Image /\ hVer \in Versions
  /\ Fast_Program_Buf \in Seq(Content) /\ Len(Fast_Program_Buf) < PageUnits

PlacesOK ==
  /\ Program_addr \in 0 .. NBlocks + 1
  /\ Verify_addr \in 0 .. TotalUnits /\ hPos \in 0 .. TotalUnits

TypeOK == PhasesOK /\ DataOK /\ PlacesOK

Empty == [a \in Addr |-> Erased]

\* A device as delivered: some version is installed, or none.
Init ==
  /\ hVer \in Versions
  /\ \/ img = [a \in Addr |-> IF a \in Extent(hVer) THEN Data(hVer, a) ELSE Erased]
     \/ Blank /\ img = Empty
  /\ check = FALSE /\ cpu = "off"
  /\ Fast_Program_Buf = <<>> /\ Program_addr = 0 /\ Verify_addr = 0
  /\ Verify_Star_flag = FALSE
  /\ host = "off" /\ hPos = 0

\* Globals as the C start-up code leaves them; the host has lost its device.
ResetRam ==
  /\ Fast_Program_Buf' = <<>> /\ Program_addr' = 0 /\ Verify_addr' = 0
  /\ Verify_Star_flag' = FALSE
  /\ host' = "off" /\ hPos' = 0 /\ UNCHANGED hVer

-----------------------------------------------------------------------------
(* Start, and the application                                              *)

\* main of the loader: "*FLASH_Base != 0xe339e339" and "*CalAddr != CheckNum".
BootTarget == IF img[AddrOf(0)] # Erased /\ ~check THEN "app" ELSE "iap"

Boot ==
  /\ cpu = "off" /\ cpu' = BootTarget
  /\ UNCHANGED <<img, check, ram, hostVars>>

\* The application's RecData_Deal, JUMP_IAP: erase the page of CalAddr ...
JumpIap ==
  /\ cpu = "app" /\ ~check /\ cpu' = "jumpErase"
  /\ UNCHANGED <<img, check, ram, hostVars>>

JumpErase ==
  /\ cpu = "jumpErase" /\ cpu' = "jumpProgram" /\ check' = FALSE
  /\ UNCHANGED <<img, ram, hostVars>>

\* ... and program CheckNum.
JumpProgram ==
  /\ cpu = "jumpProgram" /\ cpu' = "app" /\ check' = TRUE
  /\ UNCHANGED <<img, ram, hostVars>>

\* main of the application: *CalAddr == CheckNum, so reset.
AppToIap ==
  /\ cpu = "app" /\ check /\ cpu' = "off"
  /\ ResetRam /\ UNCHANGED <<img, check>>

-----------------------------------------------------------------------------
(* The commands of the loader: RecData_Deal, UART_RecData_Deal             *)

\* Nothing is left of a session that broke off.
Fresh ==
  /\ Fast_Program_Buf = <<>> /\ Program_addr = 0 /\ Verify_addr = 0
  /\ ~Verify_Star_flag

\* CMD_IAP_ERASE does nothing; a host begins with it.
EraseCmd(v) ==
  /\ cpu = "iap" /\ host = "off" /\ (ComesBack \/ Fresh)
  /\ host' = "prom" /\ hVer' = v /\ hPos' = 0
  /\ UNCHANGED <<img, check, cpu, ram>>

\* The host goes away, or its frame is garbled and it gets no answer.
Abort ==
  /\ cpu = "iap" /\ host # "off" /\ host' = "off"
  /\ UNCHANGED <<img, check, cpu, ram, hVer, hPos>>

\* Mutant: the image is taken to be one page shorter.
CheckSurvivesShort == check /\ Program_addr # NBlocks - 1

\* Is CheckNum there after the page at Program_addr has been written?
CheckSurvives == check /\ Program_addr # NBlocks

\* FLASH_ROM_ERASE and CH32_IAP_Program of the page at Program_addr, which come
\* out as said; past the image they hit the page of CalAddr.
WritePage(result, data) ==
  /\ Program_addr <= NBlocks
  /\ img' = [a \in Addr |->
               IF a[1] # Program_addr THEN img[a]
               ELSE IF result = "ok" THEN data[a[3]] ELSE result]
  /\ check' = CheckSurvives

\* The next n units of the image being sent.
Chunk(n) == [j \in 1 .. n |-> Data(hVer, AddrOf(hPos + j - 1))]

\* The host has n more units in a command; done is its next phase at the end.
Advance(n, phase, done) ==
  IF hPos + n < SizeOf[hVer]
    THEN hPos' = hPos + n /\ host' = phase
    ELSE hPos' = 0 /\ host' = done

\* Mutant: what is left over is forgotten.
RestForgotten(buf) == <<>>

\* "CodeLen -= 256", and what is left over moves to the front.
Rest(buf) == SubSeq(buf, PageUnits + 1, Len(buf))

\* CMD_IAP_PROM: collect, and write a page when one is full.
Prom(n, result) ==
  LET buf == Fast_Program_Buf \o Chunk(n)
  IN /\ cpu = "iap" /\ host = "prom" /\ hPos + n <= SizeOf[hVer]
     /\ IF Len(buf) >= PageUnits
          THEN /\ WritePage(result, [o \in Offsets |-> buf[o + 1]])
               /\ Fast_Program_Buf' = Rest(buf)
               /\ Program_addr' = Program_addr + 1
          ELSE /\ Fast_Program_Buf' = buf
               /\ UNCHANGED <<img, check, Program_addr>>
     /\ Advance(n, "prom", "verify")
     /\ UNCHANGED <<cpu, Verify_addr, Verify_Star_flag, hVer>>

\* The first CMD_IAP_VERIFY pads the last page with 0xff and writes it.
Flush(result) ==
  IF ~Verify_Star_flag /\ Fast_Program_Buf # <<>>
    THEN /\ WritePage(result, [o \in Offsets |->
               IF o < Len(Fast_Program_Buf) THEN Fast_Program_Buf[o + 1] ELSE Erased])
         /\ Fast_Program_Buf' = <<>>
    ELSE UNCHANGED <<img, check, Fast_Program_Buf>>

\* Mutant: the comparison stops before the last unit of a command.
ComparedShort(n) == Verify_addr .. Verify_addr + n - 2

\* The units CMD_IAP_VERIFY compares.
Compared(n) == Verify_addr .. Verify_addr + n - 1

\* CMD_IAP_VERIFY: compare at Verify_addr with what the host sends.  A host that
\* is told ERR_ERROR gives up.
VerifyCmd(n, result) ==
  /\ cpu = "iap" /\ host = "verify" /\ hPos + n <= SizeOf[hVer]
  /\ Verify_addr + n <= TotalUnits
  /\ Flush(result)
  /\ Verify_Star_flag' = TRUE /\ Verify_addr' = Verify_addr + n
  /\ IF \A k \in Compared(n) :
          img'[AddrOf(k)] = Data(hVer, AddrOf(hPos + k - Verify_addr))
       THEN Advance(n, "verify", "verified")
       ELSE host' = "off" /\ UNCHANGED hPos
  /\ UNCHANGED <<cpu, Program_addr, hVer>>

\* CMD_IAP_END: everything is set back, but CodeLen, and the page of CalAddr is
\* erased ...
End ==
  /\ cpu = "iap" /\ host = "verified"
  /\ Verify_Star_flag' = FALSE /\ Program_addr' = 0 /\ Verify_addr' = 0
  /\ cpu' = "endErase" /\ host' = "off"
  /\ UNCHANGED <<img, check, Fast_Program_Buf, hVer, hPos>>

\* ... and the main loop, finding End_Flag, jumps.
EndErase ==
  /\ cpu = "endErase" /\ cpu' = "app" /\ check' = FALSE
  /\ UNCHANGED <<img, ram, hostVars>>

-----------------------------------------------------------------------------
\* Power fails; CheckNum, if its page is being written, is there or is not.
PowerLoss(after) ==
  /\ cpu # "off" /\ cpu' = "off"
  /\ check' = IF cpu \in {"endErase", "jumpErase", "jumpProgram"}
                THEN after ELSE check
  /\ (cpu # "jumpProgram" /\ after) => check
  /\ ResetRam /\ UNCHANGED img

\* The user restarts a device whose host has given up.
Restart ==
  /\ cpu = "iap" /\ host = "off" /\ ~Fresh
  /\ cpu' = "off"
  /\ ResetRam /\ UNCHANGED <<img, check>>

Results == {"ok"} \cup IF FlashFaults THEN {Erased, Junk} ELSE {}

AppStep == JumpErase \/ JumpProgram \/ AppToIap

SendStep ==
  \/ \E v \in Versions : EraseCmd(v)
  \/ \E n \in 1 .. ChunkMax, result \in Results : Prom(n, result) \/ VerifyCmd(n, result)
  \/ End

Next ==
  \/ Boot \/ JumpIap \/ AppStep \/ SendStep \/ EndErase
  \/ Abort \/ Restart
  \/ \E after \in BOOLEAN : PowerLoss(after)

Spec == Init /\ [][Next]_vars

\* The device keeps executing while it has power; a device that waits for a host
\* is taken care of.
FairSpec ==
  /\ Spec
  /\ WF_vars(Boot) /\ WF_vars(AppStep) /\ WF_vars(EndErase)
  /\ WF_vars(SendStep) /\ WF_vars(Restart)

-----------------------------------------------------------------------------
(* Properties *)

\* Only a whole image is jumped to (IAP_2_APP), whatever was interrupted.
BootsCompleteImage == cpu \in AppStates => Whole

\* A flash that holds less than a whole image says so to the next boot: CheckNum
\* is there from before the first page is written until the last is verified,
\* though neither the loader's memory nor its commands remember it.
BrokenIsRecorded == Whole \/ check

\* What holds of flash and RAM at every moment.
Safe == TypeOK /\ BootsCompleteImage /\ BrokenIsRecorded

\* When CheckNum is erased, the image is the one the host has just sent: what
\* VERIFY compared was there, and all of it.
EndInstalls == [][End => Holds(img, hVer)]_vars

\* PROM never reaches the page of CalAddr, which "needs to be unused".
CheckWordSpared ==
  [][\A n \in 1 .. ChunkMax, result \in Results :
       Prom(n, result) \/ VerifyCmd(n, result) => check' = check]_vars

\* A step in which a page does not take what is written.
FlashFault ==
  \E n \in 1 .. ChunkMax, result \in Results \ {"ok"} :
     (Prom(n, result) /\ ~Prom(n, "ok")) \/ (VerifyCmd(n, result) /\ ~VerifyCmd(n, "ok"))

\* Power fails where nobody would restart the device.
PowerFault == ~Restart /\ \E after \in BOOLEAN : PowerLoss(after)

\* With power, flash and host in order from some time on, a device that waits
\* for an update comes to run an application again: what broken sessions left
\* behind does not outlive a restart.
UpdateCompletes ==
  <>[][~ (PowerFault \/ Abort \/ FlashFault)]_vars
    => (cpu = "iap" ~> cpu = "app")
=============================================================================
