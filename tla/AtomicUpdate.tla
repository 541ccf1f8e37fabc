---------------------------- MODULE AtomicUpdate ----------------------------
(***************************************************************************)
(* What a firmware-update scheme promises: the device has exactly one      *)
(* installed image at any time; only an image that was received and        *)
(* verified takes its place, in a single step; nothing else changes it,    *)
(* no power loss and no step of a loader; and whatever runs is the image   *)
(* installed when the device booted.  BackupOta and EthIap, the schemes    *)
(* with a staging area, are shown to implement this specification.         *)
(***************************************************************************)
CONSTANTS Versions,     \* the firmware images that exist
          NotRunning    \* no application is executing

VARIABLES installed,    \* the image the device will boot
          running,      \* the image executing, or NotRunning
          ready         \* the images about to take its place: none, or the
                        \* one that was received and verified

vars == <<installed, running, ready>>

Init ==
  /\ installed \in Versions
  /\ running = NotRunning
  /\ ready = {}

\* The loader hands over to the installed image.
Boot ==
  /\ running = NotRunning
  /\ running' = installed
  /\ UNCHANGED <<installed, ready>>

\* The host has sent image v, and the device accepts it.
Accept(v) ==
  /\ ready = {}
  /\ ready' = {v}
  /\ UNCHANGED <<installed, running>>

\* The image accepted is installed, and the device resets.
Install ==
  /\ installed' \in ready
  /\ running' = NotRunning /\ ready' = {}

\* Power may fail at any time: the installed image survives, the intention to
\* replace it does not.
PowerLoss ==
  /\ running' = NotRunning /\ ready' = {}
  /\ UNCHANGED installed

Next ==
  \/ Boot
  \/ \E v \in Versions : Accept(v)
  \/ Install
  \/ PowerLoss

Spec == Init /\ [][Next]_vars
=============================================================================
