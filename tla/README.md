# A verification development for the CH32V20x EVT

The repository is the evaluation package of the CH32V20x microcontrollers: a
peripheral library, start-up code, and some 180 firmware projects under
`src/EVT/EXAM`. Most are demonstrations of a few lines. What has logic of its
own, and state that must survive interrupts, lost links and power failures, are
the firmware-update schemes and the bridges between serial line, USB, BLE and
Ethernet. This development models those. Each model is translated from the C
source; the binary libraries (BLE stack, TCP/IP stack) and the hardware are
modelled from how the source uses them.

Contents: the system (1), the plan (2), the modules component by component with
what is checked and proved (3 to 9), all environment assumptions in one table
(10), what is proved, checked only, and not modelled (11), how to run it (12).

| module | what it is |
|---|---|
| `OtaFlash` | the program flash: erase, program, torn operations |
| `BackupOta` | BLE update with a backup image (application and loader) |
| `OnlyUpdate` | BLE update in place (loader, request from the application) |
| `EthIap` | update over TCP through a ring buffer |
| `UsbIap` | update over USB or UART |
| `CdcDown`, `CdcUp` | USB CDC to UART bridge, one module per direction |
| `BleUart` | BLE to UART bridge |
| `PhyLink` | negotiation of the Ethernet link |
| `AtomicUpdate`, `InPlaceUpdate`, `PacketPipe`, `ByteStream` | abstract specifications the above implement |
| `BackupOta_proof`, `OnlyUpdate_proof`, `EthIap_proof`, `UsbIap_proof`, `CdcDown_proof`, `CdcUp_proof`, `BleUart_proof`, `PhyLink_proof` | theorems about the modules of these names, checked by TLAPS |
| `MC*` | instances for TLC |

## 1. The system

Paths are relative to `src/EVT/EXAM`.

### Firmware update
* **BLE with a backup image** — `BLE/BackupUpgrade_OTA` (application),
  `BLE/BackupUpgrade_IAP` (loader). *State*: images A and B and the flag page in
  flash; in RAM the page buffer, the programming cursor, the erase counters,
  `VerifyStatus`, the reply buffer. *Operations*: `CMD_IAP_INFO/ERASE/PROM/VERIFY/END`,
  the erase event, the loader's copy of B over A. *Interaction*: host over GATT
  write and read; application to loader through the flag page and a reset.
  *Hard*: power loss in the middle of an erase, a copy or the switch of the flag;
  sessions cut off anywhere; the erase event outliving its session.
  *Correct*: the device always boots one whole verified image.
* **BLE in place** — `BLE/OnlyUpdateApp_IAP` (loader),
  `BLE/OnlyUpdateApp_Peripheral` (application). *State*: image A, flag page,
  cause of the last reset; RAM as above. *Interaction*: the application writes
  `IMAGE_OTA_FLAG` and resets. *Hard*: image A does not exist during an update,
  the flag page is itself rewritten. *Correct*: only a whole image is started; a
  device without one says so and can be updated.
* **TCP** — `ETH/ETH_IAP`. *State*: USER and BACKUP area, flag in the last page
  of BACKUP, ring buffer, file parameters and counters, the socket.
  *Interaction*: events of the TCP/IP stack, polled by the main loop. *Hard*:
  pieces of any length, the end of a file, lost connections, power loss in the
  copy. *Correct*: the ring loses nothing, only a verified file is announced,
  the copy is restartable.
* **USB or UART** — `IAP/USB_UART`. *State*: program area, check word, cursor.
  *Operations*: ERASE (nothing), PROM, VERIFY, END, executed in the USB
  interrupt or after a UART frame. *Hard*: power loss anywhere, with nothing but
  the check word to tell; a session that is given up leaves the cursor where it
  was. *Correct*: only a whole image is started; a broken one says so.
* **From a disk** — `USB/USBFS/HOST_IAP`: USB host that reads a file through a
  binary file system library and programs it.

### Bridges
* **USB CDC to UART** — `USB/USBFS/DEVICE/SimulateCDC`. *State*: 16 transmit
  slots with load, deal and remain indices, the circular receive ring, flags
  shared by the main loop and the USB interrupt, endpoint responses, two DMA
  channels, two timers. *Operations*: OUT and IN of the endpoints, line coding,
  bus reset, halt; `UART2_DataTx_Deal`, `UART2_DataRx_Deal`. *Hard*: interrupt
  against main loop, flow control by NAK, full rings, timeouts against late
  packets. *Correct*: bytes and packets once each and in order, nobody waits for
  ever.
* **BLE to UART** — `BLE/BLE_UART`. *State*: two power-of-two FIFOs with free-running
  indices, a packet held for retry, the connection. *Hard*: the USART interrupt
  and the task are producer and consumer, and the GATT callback is a second
  producer; a flush races the interrupt; a notification that is refused is
  retried, also to the next connection. *Correct*: FIFO order, no stale packet.
* **TCP to UART** — `ETH/ETH_UART`. *State*: transmit slots shared with the DMA
  interrupt, the circular receive channel, sockets. *Hard*: partial sends,
  critical sections, reconnection. *Correct*: as for the CDC bridge.
* **BLE to USB** — `BLE/BLE_USB`. *State*: `RingMem` with a protection flag,
  endpoints. *Hard*: error returns that leave the protection on.

### Devices, hosts, network
* **Ethernet driver** — `ETH/MAC_RAW/ETH_Driver`, `ETH/NetLib`. *State*: the
  setting of the PHY (crossing, polarity), five counters and a state for the
  search, flags and a time stamp shared with the interrupt; descriptor rings.
  *Operations*: `WCHNET_HandlePhyNegotiation` from the main loop, link and frame
  interrupts. *Hard*: the interrupt switches the clock off that the main loop
  switches on; decisions on registers read a moment ago; a search with many
  resets. *Correct*: a peer is found, a clock that is off is switched on, a good
  link is left alone.
* **USB mass storage**, **other USB devices**, **USB hosts** (keyboard and mouse
  with hubs, MTP, disks), **USBD library** with its classes.
* **BLE HAL** (clock, sleep, keys, LEDs), **BLE examples**, **mesh**, **LWNS**
  adapters: glue to binary stacks.
* **Other Ethernet examples** (client, server, MQTT, web server, raw MAC, …).
* **Flash driver** and **peripheral library**: stateless; erase and page
  programming appear as operators of `OtaFlash`.
* **Peripheral examples**, **applications**, **vendored kernels** (FreeRTOS,
  RT-Thread, TencentOS, LiteOS-M), documents and boards.

### How the parts interact
There is no operating system in what is modelled: one main loop (or the TMOS
loop of the BLE stack, which calls one handler at a time) and interrupts.
Actions are therefore: one handler of the loop, or one stretch of the loop
between two points at which an interrupt that shares state may strike; and one
interrupt. Flash operations are actions of their own where power may fail
between two of them. What an update leaves in flash is the interface between
application and loader; endpoint responses, DMA counters and flags are that
between interrupt and main loop.

## 2. The plan, and what is left of it

The most important behaviour comes first: what a device boots after an update
that was interrupted anywhere (`BackupOta`, `OnlyUpdate`, `EthIap`, `UsbIap` and
their proofs), then the bridges (`CdcDown`, `CdcUp`, `BleUart` and their
proofs), then the link (`PhyLink` and its proof). Each module has one run for what holds,
with safety, refinement and liveness together; a run that shows a disagreement
checks one property.

Next would be, in this order:

1. `EthUart`: the slots of `ETH_UART` that main loop and DMA interrupt share,
   partial sends; `PacketPipe` and `ByteStream` are the abstract specifications
   again.
2. The receive descriptors of `eth_driver.c`: the hand-over of OWN between
   interrupt and main loop.
3. `RingMem` of `BLE_USB`.
## 3. BLE update with a backup image: `OtaFlash`, `BackupOta`, `AtomicUpdate`

### What it models
`BLE/BackupUpgrade_OTA` is the application, `BLE/BackupUpgrade_IAP` the loader.
The program flash holds the loader (16K), image A (what runs) and image B (the
staging area), and a flag page. `OtaFlash` is the flash: an image is a function
from addresses (block, page, unit of 16 bytes) to contents, where a content is
`Erased`, `Junk`, or the unit version *v* has at that address. Programming a
unit that is not erased gives `Junk`; so does a supply failure in the middle of
an erase or a programming operation.

| code | model |
|---|---|
| `main`, `ReadImageFlag`, first test of `jump_APP` (loader) | `Boot` |
| copy loop of `jump_APP`: erase a block of A, program its pages | `CopyErase`, `CopyProgram` |
| `SwitchImageFlag(IMAGE_A_FLAG)`: erase, program the flag page | `SwitchToAErase`, `SwitchToAProgram` |
| "Destroy the backup code", `jumpApp` | `DestroyBackup` |
| `CMD_IAP_INFO/ERASE/PROM/VERIFY/END` in `Rec_OTA_IAP_DataDeal` | `Info`, `EraseCmd`, `Prom`, `VerifyCmd`, `End` + `EndErase` + `EndProgram` |
| `OTA_FLASH_ERASE_EVT` in `Peripheral_ProcessEvent` | `EraseEvent` |
| `OTAProfile_ReadAttrCB` | `ReadReply` |

The application is one TMOS loop: commands (GATT callbacks) and the erase event
never preempt one another, so each is one action. In the loader every flash
operation is an action of its own, because the supply can fail between any two.
The bytes of `block_buf` behind `block_buf_len`, which a flush writes out, are
stale: they are `Junk`. `prom_addr = 0` is an address in the loader's image.

The host is not in the repository. It is a client that reads the answers of
INFO and ERASE and of the *last* VERIFY of a session, and sends END only if that
was success; it may vanish at any moment and start again from INFO.

### What is checked
* `backup_update` — whether pages of B may fail to program is chosen in the
  initial state (`stagingFaults`). In both cases, and with power failing
  anywhere: `TypeOK`, `BootsCompleteImage`, `Recoverable`, and the refinement
  `ImplementsAtomicUpdate`. With reliable flash `SessionSound`: the page a PROM
  is about to write is erased and a VERIFY of what was sent succeeds, so any
  cut-off session can be followed by a clean one. `EraseAsAccepted`: the erase
  event carries out accepted requests only, for hosts that also ask for more
  blocks than there are and are refused. Two liveness properties:
  `UpdateCompletes` (once the flag is written, the image that was staged in B
  comes to run, unless power fails for ever) and `EraseAnswered`.
  Fairness: the processor goes on executing the loader, the erase event and the
  end of `CMD_IAP_END` while it has power (`WF` on each); nothing is assumed of
  the host.
* `backup_erase_race` — a way an erase leaves image B: the block count of a
  refused request is stored before it is checked, and the erase of the session
  before, still running, takes it (finding). The bounds check itself lets one
  block too many pass (`>` for `>=`). `backup_update` has hosts that ask for it:
  the block behind B is not used, so an accepted request may reach it, and
  `EraseAsAccepted` says that the erase goes no further.

`AtomicUpdate` has three variables. `installed` is the version in the region the
flag page selects, `running` what executes, and `ready` the image about to take
the place of the installed one: the host's, from an accepted `CMD_IAP_END` until
the flag is programmed. `Install` takes its image from `ready`, so only the
programming of `IMAGE_IAP_FLAG` can be one: a loader that puts the flag back
without copying changes `installed` with `ready` empty, which no step of
`AtomicUpdate` does, and neither does one that starts anything but the
installed image.

Bounds: two blocks of two pages of three units, two versions, one ending inside
the first block and the other in the middle of a page of the second, chunks of
one or two units. So a chunk may end before, at or across the end of a page
(in the code: chunks up to 240 bytes, pages of 256), the last page may be partial,
the copy loop goes round twice at both levels, and an image may need fewer blocks
than the one it replaces. Nothing else is bounded: power may fail, and the host
may come and go, any number of times.

### What is proved (`BackupOta_proof`)
For every geometry, set of versions and sizes, and chunk size, with staging that
may fail: `TypeCorrect`, `AlwaysRecoverable`, `NeverBootsMixture` and
`Refinement` (`Spec => AtomicUpdate!Spec`). `Recoverable` is not inductive: that
A may be selected when the loader has erased the flag page rests on the progress
of the copy loop (`CopyInv`: below the loop indices A equals B), that B may be
selected rests on what the host has seen verified (`VerifyInv`: the compared
prefix is in B, nothing is buffered once a comparison was made, a mismatch
sticks), and this on there being no pending erase and no leftover reply when the
host believes it may program (`LinkInv`). The central lemma is `SelectedStep`:
no step but `EndProgram` changes the version held by the region the flag
selects; `Refinement` reads off it that every flash operation is a stuttering
step of `AtomicUpdate` except the jump to the application (`Boot`), the
acceptance of END (`Accept`, which takes `VerifyInv`), the programming of the IAP
flag (`Install`) and `PowerLoss`.

`SessionsAreSound` (`SessionSound`) needs the other side of that: not what a
verified image is worth, but that a session gets that far. Its invariant is
`CursorInv` (what is buffered and the page number together are the host's
position, and no more blocks are programmed than were erased) with `StoredInv`
(below that position B holds the image being sent, from it on B is erased, up
to the last block erased).

`OnlyOvertakenErasesStray` assumes nothing about hosts or power: in any behaviour in
which no ERASE is refused on top of a pending erase (`Overtaken`, the step that
`backup_erase_race` runs into), the erase event erases what was accepted
(`EraseAsAccepted`). So that step is the only way a block is erased that nobody
was granted. It rests on `EraseInv`: as long as an erase is pending, the stored
block count is one that passed the check. `ErasesAsAccepted` adds that the step
does not happen when no erase outlives its session: by `LinkInv` a host that
sends ERASE finds none pending. Neither restricts the block counts asked for.

The other theorems but `TypeCorrect` assume `~EraseOutlivesLink`: a host does not come back, send INFO,
and send ERASE while the erase ordered by its earlier session is still running.
Without that, the reply of the old erase can be read as the answer to the new
ERASE (the reply buffer of `OTAprofile.c` is not emptied by a command), the host
programs while blocks are still being erased behind it, and a verified image
need not be in B any more. TLC finds that run if `backup_update.cfg` is given
`EraseOutlivesLink = TRUE`. In the device the erase event runs once per pass of
the TMOS loop, much faster than a host can program, so this needs a host
command stream the timing of the link does not allow.

## 4. BLE update in place: `OnlyUpdate`, `InPlaceUpdate`

### What it models
There is no image B. The application (`OnlyUpdateApp_Peripheral`) writes
`IMAGE_OTA_FLAG` and resets by software; the loader stays, because the flag says
so and the reset was by software (`BootTarget` combines the two), and takes the
commands of a host. `CMD_IAP_ERASE` first rewrites the flag page to
`IMAGE_IAP_FLAG`: from then on image A is given up. `CMD_IAP_END` writes
`IMAGE_A_FLAG` and jumps to the application without a reset.

| code | model |
|---|---|
| `main`, `ReadImageFlag` (loader) | `Boot`, `BootTarget` |
| `Jump_OTA` (application), `HardFault_Handler` | `JumpOta`, `OtaErase`, `OtaProgram`; `HardFault` |
| `CMD_IAP_INFO/PROM/VERIFY` | `Info`, `Prom`, `VerifyCmd` |
| `CMD_IAP_ERASE` with `SwitchImageFlag` | `EraseCmd`, `IapErase`, `IapProgram` |
| `OTA_FLASH_ERASE_EVT` | `EraseEvent` |
| `CMD_IAP_END` with `SwitchImageFlag` | `End`, `EndErase`, `EndProgram` |
| `peripheralStateNotificationCB` | `Connect`, `Disconnect` |

Host, flash and chunks are as in section 3.

### What is checked
* `only_update` — `Safe`: types, `BootsCompleteImage`, `GivenUpIsRecorded`
  (an image that is gone is never what the flag page says to start), and
  `NextPageErased`; `EraseAsAccepted` (the erase event carries out accepted
  requests only); the refinement of `InPlaceUpdate` (which starts only the
  installed image, and replaces it in two steps, both while no application runs:
  `GiveUp`, and `Declare` of an image when there is none), and `UpdateCompletes`.
  Links are lost, pages and blocks fail, requests are refused, power fails.
  *Fairness*: the processor runs while it has power, and (for `UpdateCompletes`
  only) there is a host that keeps trying, and not for ever with requests that
  are refused: without one no in-place update ever ends.
* `only_empty_flag` — with `SwitchTears = TRUE`, power may fail while the flag
  page is being rewritten although A is already given up; `EmptyFlagMeansWhole`
  fails (finding): the empty page is taken for a device never updated, and the
  erased image is started. The passing run excludes that one moment.

### What is proved (`OnlyUpdate_proof`)
For every geometry, set of versions and sizes, command size and set of erase
requests, with pages that may fail: `InPlaceIsSafe` (`Spec => []Safe`) and
`InPlaceRefinement` (`Spec => InPlaceUpdate!Spec`), under `~EraseOutlivesLink` and
`~SwitchTears`. `Safe` is not inductive. That END finds a whole image rests on what
was compared (`VerifyInv`), that nothing is touched before the flag says so on who
may still have an erase pending (`GivenUpInv`, `LinkInv`), and that PROM meets
erased pages on a count (`CursorInv`): page number times page size plus what is
buffered is the host's position, which is smaller than the image, which fits
into the blocks the host asked for, all of which were erased when it read the
answer to ERASE. `StageSpares` then needs that division by the pages of a block
and its remainder name the page. For the refinement, `RunInv` adds that what
runs, or is about to, is not given up, and `NotGivenUpStays` that no unit of A
changes before the flag page has given it up. `OnlyOvertakenErasesStray` and
`ErasesAsAccepted` (`EraseAsAccepted`) are as in section 3, by `EraseInv` and
`LinkInv`; the first needs no hypothesis, the second only `~EraseOutlivesLink`, and
both hold for any block counts. That an *accepted* count stays within A is not
claimed: `>` in the bounds check accepts one block too many, the first of the
BLE library.

Bounds as in section 3. `SwitchTears` and `EraseOutlivesLink` are explained in
section 10.

## 5. USB CDC to UART bridge: `CdcDown`, `PacketPipe`, `CdcUp`, `ByteStream`

The two directions share only events of the host (line coding, bus reset), not
variables, so they are two modules, in which these events have the same names.

### Downlink: `CdcDown`
Endpoint 2 delivers packets into `UART2_Tx_Buf`, a ring of slots; the main loop
sends them by DMA. `UART2_DataTx_Deal` is cut where the USB interrupt may strike:
`PollSending` (TC is set, clear it), `TxDone` (the section with the interrupt
disabled, one step), `PollIdle`, `TxLoad` (what to send), `TxStart` (set up the
channel). The interrupt: `OutPacket`, `LineCoding`, `BusReset`, `SetHalt`,
`ClearHalt`. The hardware: `DmaByte`, `ShiftOut`; the USART may become idle, and
set TC, with bytes still to come from the channel. 16-bit counters wrap.

* `cdc_down` — type, `QueueFits` (never more packets than slots),
  `SuspendedIsKnown` (every NAK is one the main loop will lift), the refinement
  of `PacketPipe`, and, under fairness, `DownlinkResumes` and `PacketLeaves`. The
  refinement maps the slots between `Tx_DealNum` and `Tx_LoadNum`, without what
  the DMA channel has already sent of the first, to the abstract queue. After a
  bus reset the channel may go on sending a packet the program has forgotten;
  `PacketPipe` allows that (`draining`), and nothing else. Its `Reset`, which
  empties the queue, may be taken by `LineCoding` and `BusReset` only: every other
  step has to be one of `PacketPipe`'s `Work`.
* `cdc_down_reset` — `ResetAnywhere`: a line-coding request between the test of
  TC and the disabling of the interrupt resets `Tx_RemainNum`, which is then
  decremented (finding).

A packet of length 0 (a host ends a transfer of a multiple of 64 bytes with one)
is loaded into a slot and never sent: the DMA channel is started with a count of
0 and does not complete. With `Packets <- MCPacketsZero` TLC shows it:
`DownlinkResumes` fails. The run does without such packets; the theorems below do not.

Bounds: 4 slots (suspended at 2, as 16 at 14), packets of one and two bytes, two
byte values, which suffice to tell packets, and the bytes of one, apart. *Fairness*: main
loop, DMA channel and USART go on; the host owes nothing.

What is proved (`CdcDown_proof`), for every number of slots, slot size and set of
packets (empty ones too), when resets keep to the end of a round of the main loop
and a suspended host leaves the halt alone (`Environment`): `DownlinkTypes`,
`RingNeverOverflows` (`QueueFits`), `NakIsKnown` (`SuspendedIsKnown`) and
`DownlinkRefinement` (`ImplementsPacketPipe`). None of them is inductive. `FlowInv` adds that a host that is *not* suspended has two slots left
or there are fewer than two packets, which is why one more packet always fits, also
with three slots; `BusyInv` that there is a packet to retire from the moment the
main loop takes one up, which is why `Tx_RemainNum` never wraps below zero (and what
a reset in that window breaks); `InWork` that the DMA channel is inside the packet
in work and that packet inside the buffer, which makes the 16-bit subtraction of
`TxDone` exact. For the refinement `PipeInv` ties the DMA channel to the slot being
sent: the current pointer is in that slot, a packet waiting for its retirement
has been sent to its end, and no program step moves the pointer under a running
channel. Then `OutAccepts` shows that a packet from the host is the last of the
abstract queue, `DoneRetires` that `TxDone` takes off an empty first one or
changes nothing (the USART was idle too early), `ByteSent` that the channel
delivers the first byte of the first packet, and `QuietStep` covers the rest.

### Uplink: `CdcUp`
The circular DMA channel 6 writes into `UART2_Rx_Buf`; the main loop reads its
counter. `Poll` is the section that does so; `Check`, `Upload`, `GiveUp`,
`CheckZero`, `UploadZero` the rest of `UART2_DataRx_Deal`; `Fetch` is the USB
hardware answering the host's IN, `InIrq` its interrupt. `TIM2` counts two
timers; the model keeps what the code compares them with, and `TickRx`, `TickUp`
move them on, at any moment.

* `cdc_up` — the host does what it likes, with bus resets and halts, or is
  `steady` from the beginning: it resets and halts nothing and fetches each packet before the
  next is due. In both cases `Safe` (types and `RingInStep`: the read pointer,
  the remaining length and the counter reading agree), `UploadEnds` and
  `BytesGoUp`; for the steady host `ImplementsByteStream`: bytes reach it once
  each and in order, and only `LineCoding` takes the `Reset` of `ByteStream`. *Fairness*: main loop, timer,
  interrupt; of the host only that a steady one fetches.

Bounds: a ring of 5 (or 4) bytes and packets of 2, so that packets meet the end
of the ring at different places and are cut there.

What the runs leave out, and what happens then: the ring overflows (`Overrun`):
the code keeps its old length and never gets in step again. A reset strikes
inside `UART2_DataRx_Deal` (`ResetAnywhere`): as `cdc_down_reset`. A host that
is not prompt: `USBFS_Endp_DataUp` refuses a packet while the endpoint is busy,
its result is not looked at, and the bytes are taken off the ring; after
line coding, a zero-length packet, or a timeout, that loses a packet. A bus reset
forgets the last counter reading but does not restart the channel, so bytes of
before the reset are counted as new; `RingInStep` holds nevertheless.

What is proved (`CdcUp_proof`), for every length of ring and packet, without
`Overrun` and `ResetAnywhere` (`Environment`): `UplinkIsSafe` (`Safe`) and
`UplinkRefinement` (`ImplementsByteStream`). `RingInStep` speaks of positions
modulo the length of the ring; the invariant adds what makes it inductive.
`RingInv` says by cases, without a remainder, where the end of the counted bytes
is, and that these and the ones not counted yet fit into the ring; `PackInv`
that a packet decided upon was counted and that no reset takes it back before it
goes up; `EndpInv` that a steady host has freed the endpoint by the time a
packet is due. For the refinement, `FromSplit` shows that a packet, cut at the
end of the ring or not, and what is left are what waited.

## 6. Update over TCP: `EthIap`

### What it models
With the button pressed the loader connects to a host, erases BACKUP, and loops:
handle the socket events, then `saveUpdatedFile`. `phase` says which half of the
loop is next. Without the button it looks at the flag in the last page of BACKUP,
copies BACKUP over USER, erases BACKUP and starts the application.

| code | model |
|---|---|
| `main` up to its loop | `Boot` |
| `SINT_STAT_CONNECT`, `IAP_EEPROM_ERASE_44k` | `Connected`, `Wipe` |
| `SINT_STAT_DISCONNECT`, `SINT_STAT_TIM_OUT` | `Disconnected` |
| `SINT_STAT_RECV`: `IAPFileParaCheck`, `receUpdatedFile` | `Header`, `Receive` |
| `saveUpdatedFile` | `Save`, `NothingToSave`; `FlagErase`, `FlagWrite` |
| `IAPCopyFlashDeal` | `CopyErase`, `CopyPage`, `Cleanup` |

The stack is a stream: up to `RECE_BUF_LEN` units wait in the socket, any number
may arrive at a time (`Send`), and `SINT_STAT_RECV` is raised as long as the
buffer is not empty, as `wchnet.h` says. Connections end whenever they like. Nothing
executes (`Down`) without power, `cpu = "off"`, or in the reset the loader orders
after it has programmed the flag, `cpu = "reset"`; both lead to `Boot`, but only
the first is a failure.
Files are intact, or damaged in their first unit, which a correct checksum must
remember to the end; the checksum itself is the relation "all of it was right". A unit
stands for a part of a page, a page also for the 2 KB the copy takes at a time.

### What is checked
* `eth_iap` — `DownloadSafe`: types, `RingInOrder` (the ring holds exactly the
  data between what was received and what was saved) and `FlagPageSpared` (image
  data never reaches the page of the flag). `CopySafe`: `FlagMeansWhole` and
  `BootsCompleteImage`. The refinement of
  `AtomicUpdate` (installed is BACKUP from the moment the flag is programmed
  until the copy is complete; `ready` is the file whose checksum was right, until
  then), `HangsOnlyOnFault`, and under fairness `FileInstalled` (an intact file that
  fits ends up in BACKUP, this version, behind the flag, unless power or the
  connection is lost before, `Lost`: the closing of the link by the device itself
  does not count) and `UpdateRuns` (the version announced is the one that comes
  to run). *Fairness*: the processor goes on, and a host
  that is connected goes on sending (`WF` on `Send`; only `FileInstalled` needs
  it). `FileInstalled` promises nothing to a host that closes the connection
  after its last byte: `SINT_STAT_RECV` and `SINT_STAT_DISCONNECT` may be served
  in one call, and the latter throws the ring away.
* `eth_iap_cleanup` — `CleanupTears`: power fails while BACKUP is erased after the
  copy, first block first; the flag, in the last, survives (finding).

Bounds: areas of two blocks of two pages of two units; a ring of 5, so that
pieces meet its end everywhere; a header of 2; versions that end in the middle of a page, at
the end of the data area, and one unit too long.

### What is proved (`EthIap_proof`)
For every geometry, set of files and lengths of ring and header, pages of USER that
may fail, and under `~StagingFaults`, `~CleanupTears` and `~InterruptUpdate`:
`CopyIsSafe` and `DownloadIsSafe` (the two invariants of the run),
`HangsOnFaultOnly`, and `TcpUpdateRefinement` (`Spec => AtomicUpdate!Spec`), in which
`Save` with a right checksum is `Accept` and `FlagWrite` is `Install`. None of
the invariants is inductive. That the flag announces a whole image rests on what
BACKUP holds while a file comes in (`DataInv`: behind what was programmed all is
erased, and if the checksum is right so far, what was programmed is the file's), which
rests on the lengths (`LengthInv`: what was taken off is header, programmed and
waiting data, and no more than the file). That the ring is in order is an
argument about its two indices (`RingInv`), linear once the remainder is replaced by
the three cases in which it is taken (`AroundTheRing`). `LastPage` and `AddrIndex` say
that data that fits lies before the page of the flag. `FlagInv` then says which of
the two areas is whole in each state, and `CopyInv` that what is left to be
written of USER is erased.

## 7. BLE to UART bridge: `BleUart`, `ByteStream`

### What it models
| code | model |
|---|---|
| `USART3_IRQHandler` | `RxIrq` |
| `app_uart_process` | `Process` |
| `UART_TO_BLE_SEND_EVT` in `Peripheral_ProcessEvent` | `NotReady`, `WaitForMore`, `StartRead`, `Retry`, `Notify` |
| `app_drv_fifo_read` | `ReadCount`, `Pop` |
| `app_drv_fifo_flush` | `FlushBegin`, `FlushEnd` |
| `on_bleuartServiceEvt`, `app_drv_fifo_write` | `BleData`, `PushIndex`, `PushStore`, `PushLoad`, `PushBump` |
| connection and configuration callbacks | `LinkEstablished`, `LinkTerminated`, `Configure` |

The main loop and everything the BLE stack calls back are one actor, the USART
interrupt the other. What the main loop does with the receive FIFO is cut at
each access to an index the interrupt also uses. The indices run freely and
wrap, as the 16-bit ones do. The transmit FIFO has producer and consumer in the
same loop and is kept as its length.

### What is checked
`ble_uart` — `Safe` (types, and `RxFits`: unread bytes are never overwritten,
wherever in a read, a flush or a retry the interrupt strikes), the refinement of
`ByteStream`, whose `Reset` only the beginning of a flush may take (`held` followed by the FIFO is the queue; the last packet that was
notified the chunk), `WakeupKept` (with bytes waiting the send event is never let
die) and `BytesGoOut`. *Fairness*: a handler runs to its end; the main loop looks
at the flag and at a due event again and again, whatever the stack reports in
between (`SF`, for such a report may always come first in the model); a stack asked
often enough takes a packet.

Bounds: a FIFO of three bytes, indices modulo six, packets of two, two byte
values, writes of the peer of one and two bytes, one more look before a short
packet is sent. So packets are full and short, reads and writes meet the end of
the buffer and of the index range, the FIFO is full and empty.

### What is proved (`BleUart_proof`)
For every length of FIFO and packet, every range of the indices that the length
divides, and whatever the peer writes: `EventStaysAlive` (`WakeupKept`), and under
`~Overlap` (`Environment`) `BridgeIsSafe` (`Safe`) and `BridgeRefinement`
(`ImplementsByteStream`). `RxFits` is not inductive: main loop and interrupt
decide what fits from a count that the other changes. `FifoInv` says what stays
true in between: the rest of a write still has room, since only the interrupt
could take it and it is kept out; what is left to read is still there, since the
interrupt only adds. `HeldInv` says that FIFO and packet
do not compete: a packet is read, or the FIFO flushed, only with none held; that in
the middle of a flush `begin` is 0, so that `FlushEnd` leaves an empty FIFO whatever
has come in; and that a write of the peer has started the event first. It is
inductive by itself, so `WakeupKept` holds with `Overlap` too: bytes may then be
lost, but not forgotten. For
the refinement, `SlotMod` shows that slots go on where the range of the indices
ends (the reason for "should be a power of 2"), `EndSlot` that the slot
written to is that of no unread byte, `FifoGrows` that a push is nothing to the
queue until `end` is written and then one byte at its end, and `PopMoves` that a
byte taken out of the FIFO is the next of the packet.

What the run leaves out, and what happens then:
* A byte that comes in while the main loop pushes one (`Overlap = TRUE`): both
  execute `fifo->end++`. If the interrupt strikes between load and store its
  byte is lost, and before a flush is over the count may exceed the buffer:
  `RxFits` fails.
* A packet whose notification was refused is kept, whatever becomes of the connection.
  The steps: peer 1 takes notifications, a packet is read, `ble_uart_notify`
  fails, the connection goes; the send event runs `Retry`, not `NotReady`, so
  nothing is flushed; peer 2 connects and subscribes, and is notified of the packet
  that was for peer 1. `ByteStream` allows it, since it does not tell peers
  apart; there is no comment in the code that it contradicts.

## 8. Update over USB or UART: `UsbIap`

### What it models
| code | model |
|---|---|
| `main` of the loader, up to its loop | `Boot`, `BootTarget` |
| `CMD_IAP_ERASE`, `PROM`, `VERIFY`, `END` in `RecData_Deal` | `EraseCmd`, `Prom`, `VerifyCmd` with `Flush`, `End` |
| `End_Flag` in the loop of `main` | `EndErase` |
| `CMD_JUMP_IAP` of the application, and its `main` | `JumpIap`, `JumpErase`, `JumpProgram`; `AppToIap` |

A block of `OtaFlash` is one page here, because pages are erased one at a time.
The page behind the image is that of `CalAddr`; writing it would take the check
word away (`CheckSurvives`). Erasing and programming a page is one step: a
failure of the supply in the middle of it leaves what a page that did not take
its data (`FlashFaults`), and a failure right after, leave.

### What is checked
`usb_iap` — `Safe`: types, `BootsCompleteImage`, and `BrokenIsRecorded`, which is
why the first holds: a flash with less than a whole image has the check word. It
must be there before the first page is written, though ERASE and PROM do not
look at it; the loader gets to run only with the check word or an empty flash, and
END takes it away only after all of the image was compared (`EndInstalls`).
`CheckWordSpared`: the largest image stops short of `CalAddr`. `UpdateCompletes`:
with power, flash and host in order from some time on, a waiting device comes to
run an application. *Fairness*: the device executes while it has power, the host
goes on, and a device that was left in the middle of a session is restarted.

What the run leaves out, and what happens then:
* `ComesBack = TRUE`: a host begins a new session where one broke off, without a
  restart. `Program_addr`, `Verify_addr` and `CodeLen` are reset only by END,
  so the image is programmed from wherever the cursor stood. All four properties
  fail: pages behind the image are written, `CalAddr` too, and a device reports a
  VERIFY of the wrong addresses as a failure until it is restarted.
* `Blank = TRUE`: a device without application has no check word either, because only
  the application writes it. If power fails after the first page has been
  programmed, the loader starts what there is: `BootsCompleteImage` fails.

### What is proved (`UsbIap_proof`)
For every flash size, set of versions and sizes, and command size, with pages that
may fail, under `~Blank` and `~ComesBack`: `UpdateIsSafe` (`Spec => []Safe`),
`EndFindsImage` and `CheckWordKept` (the two action properties). `SessionInv` is the
strengthening: page times page size plus what is buffered is the host's
position, so a page is written only while one more page of the image is missing
(`PageFits`), and the page of `CalAddr` is never reached; once a comparison was
made nothing is buffered, so that what was compared stays. `CheckInv` says that
the loader waits for commands only with the check word there: `Boot` is where
that comes from, since a flash without check word holds a whole image, and the
first word of one is not empty (`HeldNotErased`).

Bounds: three pages of three units before `CalAddr`; one version ends inside the
second page, one fills all; commands of one or two units, so that they end
before, at and across the end of a page.

## 9. The Ethernet link: `PhyLink`

### What it models
`WCHNET_HandlePhyNegotiation` runs in every round of the main loop and is cut at
each access to what the interrupt shares. `Look` reads the flags; then `EndWait`,
`Enable`, `PhyReset`, `Param` switch the clock on 500 ms after the link has gone;
`Poll` and one of the actions of `LinkProcess` look for the peer every 50 ms;
`PnProcess`, `PnTurn`, `PnClear` see to a wrong polarity every 100 ms. The link
interrupt is `LinkIrq`, with the three cases of `ETH_PHYLink`; `GoodFrame` and
`BadFrame` are those of received frames. Time is what `LocalTime - phyLinkTime`
is compared with; `early` is the case that the interrupt sets `phyLinkTime` after
the main loop has loaded `LocalTime`, and the unsigned difference is huge.

The PHY is external. A peer is heard with one crossing and one or both
polarities, understood with one; `Negotiated`, `FalseLink` and `Replug` are what
the PHY and the cable do. A PHY without clock loses its link and takes no
register; what is read from it is anything.

### What is checked
`phy_link` — `Safe`: types; `ClockOwed` (a clock that is off is going to be
switched on, wherever the interrupt strikes: `phyLinkReset` has to be cleared
before, not after); `LinkStaTrue`. `LinkComesUp`: whatever cables, noise and false
links did before, once they leave off the search comes to the peer. `PolarityFound`:
a link with the wrong polarity gets the right one. `LinkLeftAlone`: no step of
the main loop breaks a negotiated link or turns a right polarity. *Fairness*: the
main loop, the interrupt and the timer go on; a PHY left alone for `Dwell` polls at
a setting at which it hears the peer negotiates (`SF`); a peer sends frames.

### What is proved (`PhyLink_proof`)
For all counts and every set of peers: `LinkSafe` (`Spec => []Safe`), wherever the
interrupt strikes, with `Strikes` too; and `GoodLinkStays` (`LinkLeftAlone`), under
`~Strikes`. `ClockOwed` alone is not inductive: while the main loop is inside the
branch that switches the clock on, its flag has been cleared already and the
debt is in the program counter (`ClockInv`). `GoodLinkStays` needs `UpInv` (at each
point of a poll, what the loop has read agrees with a link that is up) and
`PolarityInv` (a polarity is only turned after errors, which a right one does not
count).

Bounds: 5, 10, 15 and 10, which the counters are compared with, are 2, 1, 1 and 2;
`phySucCnt` is taken modulo 4 instead of 256; two damaged frames mean a wrong
polarity instead of three, and at most `ErrCap` come between two looks. `Dwell`
is at most `SucMax`, or the search turns away before the PHY is ready; in the code
that is 5 polls of 50 ms.

What the run leaves out, and what happens then:
* `Strikes = TRUE`: negotiation ends while the main loop is in the middle of a poll. It
  has read `phyStatus = 0` and no complete negotiation, and goes on to restart it or to
  turn the polarity: `LinkLeftAlone` fails. The link is lost, reported, and found
  again. Likewise with `early`: `phyLinkTime` of the interrupt is newer than the
  `LocalTime` the main loop has loaded, and the 50 or 500 ms are taken to be over.
* A link that changes again between the reading of BMSR in `ETH_PHYLink` and the
  clearing of LINKIF behind it, in `WCHNET_ETHIsr`: the second change is never
  reported. In the model `LinkIrq` is one step.
* A peer heard with both polarities that negotiates with N only: the search
  turns to P each time it hears it. `Peers` are such that what is heard can
  negotiate.
## 10. Environment assumptions

Each is a constant of its module, or a variable chosen in the initial state, so
that a run or a theorem names it.

| constant or variable | in passing runs | meaning, and what happens otherwise |
|---|---|---|
| `stagingFaults` (variable of `BackupOta`), `StagingFaults` | either; TRUE in `only_update`, FALSE in `eth_iap` | Programming a page of the staging area may fail silently. `EthIap` does not read BACKUP back, so with TRUE `FlagMeansWhole` fails. |
| `EraseOutlivesLink` | FALSE | A host may reconnect and send ERASE while the erase of its earlier session runs. The event runs once per pass of the TMOS loop, far faster than a reconnection. With TRUE a stale reply is read as the answer to the new ERASE. |
| `EraseRequests` | `backup_update`: all from 1 to two more than there are blocks; `only_update`: not one more than there are; in the theorems: any | One more than there are passes the bounds check (`>` for `>=`) and erases the block behind the image: unused behind B, the BLE library behind A. Two more are refused. |
| `SwitchTears` | FALSE | Power may fail while a repeated ERASE rewrites the flag page (`only_empty_flag`). |
| `CleanupTears` | FALSE | Power may fail during the last erase of a copy (`eth_iap_cleanup`). |
| `InterruptUpdate` | FALSE | The button is pressed, and a host connected to, while a received update waits to be copied. BACKUP is wiped; with USER half copied nothing is left to boot. |
| `ResetAnywhere` | FALSE | A reset by the host strikes between any two steps of the main loop (`cdc_down_reset`). |
| `HaltsWhile` | `{FALSE}` | The host sets or clears a halt while it is suspended: a lifted NAK the program does not know of, and the slots overflow. |
| `Overrun` | FALSE | The receive ring overflows; see section 5. |
| `steady` (variable of `CdcUp`) | either | A steady host sends no bus reset and no halt and fetches each packet before the next is due; only then is the stream whole. `Wrap` is the timer that wraps before the loop looks; `UploadEnds` and `BytesGoUp` suppose that it does so finitely often (`InTime`), for a timer that always wraps between two looks never shows a timeout. It takes a loop that does not look for 0.5 s: 60000 to 65535 ticks of 100 us. |
| `Overlap` | FALSE | A byte comes in while the main loop pushes one (section 7). |
| `FlashFaults` | TRUE | Pages of `UsbIap` may fail to program silently; VERIFY finds out. |
| `ComesBack`, `Blank` | FALSE | A session goes on where one broke off; a device is delivered without application (section 8). |
| `Strikes` | FALSE | Negotiation ends in the middle of a poll (section 9). |

Everywhere: programming an erased page of the area being *copied to* succeeds
while power is on, unless an action says otherwise; a torn operation leaves
`Junk`, never data of an image; resets leave RAM as the C start-up code does.

Counters are not bounded except by their width. What keeps the state spaces
finite is the sizes above.

## 11. Proved, checked, and not modelled

*Proved by TLAPS* for all values of the constants: types, safety and
refinement of the two BLE update schemes (`BackupOta_proof`, section 3,
`OnlyUpdate_proof`, section 4) and of the update over TCP (`EthIap_proof`, section 6), flow control and
refinement of the downlink (`CdcDown_proof`, section 5), safety and refinement of
the uplink (`CdcUp_proof`, section 5) and of the BLE to UART bridge (`BleUart_proof`,
section 7), safety of the update over USB and UART
(`UsbIap_proof`, section 8) and of the Ethernet link (`PhyLink_proof`, section 9). The
assumptions on the environment are hypotheses of the theorems; the others are the
named `ASSUME`s of the modules, which TLC evaluates. Each invariant, action
property and refinement of a passing run is the statement of a theorem. *Checked by TLC only*:
the liveness properties (`UpdateCompletes`, `EraseAnswered`, `DownlinkResumes`,
`PacketLeaves`, `UploadEnds`, `BytesGoUp`, `FileInstalled`, `UpdateRuns`,
`BytesGoOut`, `LinkComesUp`, `PolarityFound`). Fairness and `ENABLED` are outside what the provers can use. So does what a
definition recursive over data computes; no module declares a `RECURSIVE` operator, so all
of them stay open to proof.

*Not modelled*: the components listed without a module in `PROJECT.json`, with
the reason there. Of what is modelled: advertising, GATT registration and the
demonstration characteristics of the BLE projects; endpoint 0 of the USB device
but for the requests that change the bridge; suspend and wake-up; clock and pin
set-up; anything printed.

## 12. Running it

`tlc -config <run>.cfg <module>` for a run of `PROJECT.json`; the `MC` modules
define the versions and packets. `tlapm <module>_proof.tla`
checks the proofs about a module.
Each property is also checked to be able to fail: the operator after a `Mutant`
comment, put in the place of the definition that follows it, breaks it.
