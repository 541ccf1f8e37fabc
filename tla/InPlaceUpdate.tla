--------------------------- MODULE InPlaceUpdate ----------------------------
(***************************************************************************)
(* What an update scheme without a second image can still promise: the     *)
(* device may be left with no image, but it knows, it never runs anything  *)
(* that is not a whole image, and one image never takes the place of       *)
(* another in one step: it is given up, and the other declared, while the  *)
(* application is down.                                                    *)
(***************************************************************************)
CONSTANTS Versions,     \* the firmware images that exist
          NoImage,      \* nothing that may run is installed
          NotRunning    \* no application is executing

VARIABLES installed, running

vars == <<installed, running>>

Init ==
  /\ installed \in Versions
  /\ running = NotRunning

\* Only an installed image is started.
Boot ==
  /\ running = NotRunning /\ installed # NoImage
  /\ running' = installed
  /\ UNCHANGED installed

\* A reset or a power loss; neither changes what is installed.
Stop ==
  /\ running' = NotRunning
  /\ UNCHANGED installed

\* The image is given up before it is overwritten, ...
GiveUp ==
  /\ running = NotRunning
  /\ installed' = NoImage
  /\ UNCHANGED running

\* ... and another declared installed when it is whole.
Declare(v) ==
  /\ running = NotRunning /\ installed = NoImage
  /\ installed' = v
  /\ UNCHANGED running

Next == Boot \/ Stop \/ GiveUp \/ \E v \in Versions : Declare(v)

Spec == Init /\ [][Next]_vars
=============================================================================
