------------------------------- MODULE PhyLink -------------------------------
(***************************************************************************)
(* The link of the built-in 10BASE-T PHY (ETH/MAC_RAW; eth_driver.c of     *)
(* NetLib has the same code).  The main loop looks for a setting of the    *)
(* PHY, crossing and polarity, at which it hears the other end, trying one *)
(* every 50 ms; the interrupt reports that the link has come up or gone.   *)
(* When it goes the interrupt switches the clock of the PHY off, and the   *)
(* main loop switches it on again 500 ms later.  A link that came up with  *)
(* the wrong polarity is known by its damaged frames.                      *)
(*                                                                         *)
(* WCHNET_HandlePhyNegotiation runs in steps between which the interrupt   *)
(* may strike.  Time is kept as what LocalTime - phyLinkTime is compared   *)
(* with.                                                                   *)
(***************************************************************************)
EXTENDS Naturals

CONSTANTS SucMax, LinkMax, RetryMax, ChangeMax,
                        \* 5, 10, 15, 10: what the counters are compared with
          SucMod,       \* 256: phySucCnt is a uint8_t
          ErrMax,       \* 3: damaged frames that mean the wrong polarity
          ErrCap,       \* bound: damaged frames between two looks at their number
          Dwell,        \* polls after which a PHY left alone has negotiated
          Peers,        \* what may be at the other end
          Strikes       \* may negotiation end in the middle of a poll?

Crossings  == {1, 2}
Polarities == {"P", "N"}
Settings   == [x : Crossings, pol : Polarities]

\* A peer is heard with one crossing, at some polarities; at one of these its
\* frames are understood.  NoPeer: nothing is plugged in.
ASSUME PeerAssumption ==
  Peers \subseteq {p \in [x : Crossings, hears : SUBSET Polarities, good : Polarities] :
                     p.good \in p.hears}
ASSUME CountAssumption ==
  /\ {SucMax, LinkMax, RetryMax, ChangeMax, Dwell, ErrMax} \subseteq Nat \ {0}
  /\ SucMod \in Nat /\ SucMod > SucMax + 1 /\ ErrCap \in Nat /\ ErrCap >= ErrMax
ASSUME DwellAssumption == Dwell <= SucMax
ASSUME ChoiceAssumption == Strikes \in BOOLEAN

NoPeer == [x |-> 1, hears |-> {}, good |-> "P"]

VARIABLES
  clock,                      \* EXTEN_ETH_10M_EN
  mdix,                       \* register PHY_MDIX
  phy,                        \* "down", "linked", "up": linked and negotiated
  nego,                       \* polls for which the PHY has been left alone
  linkif,                     \* RB_ETH_EIR_LINKIF
  peer,
  LinkSta, phyLinkReset, phyStatus,
  phyPN, phyLinkStatus,
  phySucCnt, phyLinkCnt, phyRetryCnt, phyPNChangeCnt,
  PhyPolarityDetect, CRCErrPktCnt,
  time,                       \* LocalTime - phyLinkTime: 0, 1: >= 50, 2: >= 100,
                              \* 3: >= 500
  early,                      \* phyLinkTime was set after main loaded LocalTime
  pc, seen                    \* main, and what it read: ANLPAR # 0, complete

hw    == <<clock, mdix, phy, nego, linkif, peer>>
count == <<phySucCnt, phyLinkCnt, phyRetryCnt, phyPNChangeCnt>>
state == <<phyPN, phyLinkStatus>>
flags == <<LinkSta, phyLinkReset, phyStatus>>
frame == <<PhyPolarityDetect, CRCErrPktCnt>>
clk   == <<time, early>>
main  == <<pc, seen>>
vars  == <<hw, count, state, flags, frame, clk, main>>

FlagsOK ==
  {clock, linkif, LinkSta, phyLinkReset, phyStatus, PhyPolarityDetect, early}
    \subseteq BOOLEAN

CountsOK ==
  /\ phySucCnt \in 0 .. SucMod - 1 /\ phyLinkCnt \in 0 .. LinkMax
  /\ phyRetryCnt \in 0 .. RetryMax /\ phyPNChangeCnt \in 0 .. ChangeMax

TypeOK ==
  /\ FlagsOK /\ CountsOK
  /\ mdix \in Settings /\ phyPN \in Settings
  /\ phy \in {"down", "linked", "up"} /\ nego \in 0 .. Dwell
  /\ peer \in Peers \cup {NoPeer}
  /\ phyLinkStatus \in {"INIT", "SUC_N", "WAIT_SUC"}
  /\ CRCErrPktCnt \in 0 .. ErrCap
  /\ time \in 0 .. 3
  /\ pc \in {"idle", "off", "enable", "phyReset", "param",
             "poll", "act", "linked", "pn", "pnClear"}
  /\ seen \in [anlpar : BOOLEAN, complete : BOOLEAN]

Default == [x |-> 1, pol |-> "P"]
Unread  == [anlpar |-> FALSE, complete |-> FALSE]

\* The peer is heard with setting s.
Heard(s) == s.x = peer.x /\ s.pol \in peer.hears

Init ==
  /\ clock = TRUE /\ mdix = Default /\ phy = "down" /\ nego = 0 /\ linkif = FALSE
  /\ peer \in Peers \cup {NoPeer}
  /\ LinkSta = FALSE /\ phyLinkReset = FALSE /\ phyStatus = FALSE
  /\ phyPN = Default /\ phyLinkStatus = "INIT"
  /\ phySucCnt = 0 /\ phyLinkCnt = 0 /\ phyRetryCnt = 0 /\ phyPNChangeCnt = 0
  /\ PhyPolarityDetect = FALSE /\ CRCErrPktCnt = 0
  /\ time = 0 /\ early = FALSE
  /\ pc = "idle" /\ seen = Unread

-----------------------------------------------------------------------------
(* What writing a register of the PHY does, if it has its clock            *)

\* PHY_MDIX is set to s; again: negotiation is started anew (bit 9 of PHY_BMCR).
WritePHY(s, again) ==
  IF ~clock THEN UNCHANGED <<mdix, phy, nego, linkif>>
  ELSE LET lost == phy # "down" /\ (again \/ ~Heard(s))
       IN /\ mdix' = s
          /\ nego' = IF again \/ s # mdix THEN 0 ELSE nego
          /\ phy' = IF lost THEN "down" ELSE phy
          /\ linkif' = (linkif \/ lost)

\* PHY_Reset to PHY_BMCR.
ResetPHY ==
  /\ mdix' = Default /\ phy' = "down" /\ nego' = 0

\* PHY_NEGOTIATION_PARAM_INIT
ParamInit ==
  /\ phySucCnt' = 0 /\ phyLinkCnt' = 0 /\ phyRetryCnt' = 0 /\ phyPNChangeCnt' = 0
  /\ phyStatus' = FALSE /\ phyLinkStatus' = "INIT"

-----------------------------------------------------------------------------
(* WCHNET_HandlePhyNegotiation.  Each step is taken with no interrupt       *)
(* waiting.                                                                *)

MayRun == ~linkif

\* "LocalTime - phyLinkTime >= ...", of unsigned numbers, the first of which was
\* loaded before the interrupt may have set the second.
Elapsed(k) == early \/ time >= k

\* phyLinkReset, phyStatus and PhyPolarityDetect, and LocalTime, are read.
Look ==
  /\ MayRun /\ pc = "idle"
  /\ pc' = IF phyLinkReset THEN "off"
           ELSE IF ~phyStatus THEN "poll"
           ELSE IF PhyPolarityDetect THEN "linked" ELSE "idle"
  /\ early' = FALSE
  /\ UNCHANGED <<hw, count, state, flags, frame, time, seen>>

TooSoon(step, k) ==
  /\ MayRun /\ pc = step /\ ~Elapsed(k) /\ pc' = "idle"
  /\ UNCHANGED <<hw, count, state, flags, frame, clk, seen>>

\* Mutant: phyLinkReset is cleared when all is done.
ClearedAtLast(step) == step = "param"

\* The step at which phyLinkReset is cleared: first of all.
ClearedAt(step) == step = "off"

Cleared(step) == phyLinkReset' = (phyLinkReset /\ ~ClearedAt(step))

\* "wait 500ms before turning on the PHY clock"
EndWait ==
  /\ MayRun /\ pc = "off" /\ Elapsed(3) /\ pc' = "enable"
  /\ Cleared("off")
  /\ UNCHANGED <<hw, count, state, LinkSta, phyStatus, frame, clk, seen>>

Enable ==
  /\ MayRun /\ pc = "enable" /\ pc' = "phyReset"
  /\ clock' = TRUE
  /\ UNCHANGED <<mdix, phy, nego, linkif, peer, count, state, flags, frame, clk, seen>>

PhyReset ==
  /\ MayRun /\ pc = "phyReset" /\ pc' = "param"
  /\ IF clock THEN ResetPHY /\ linkif' = (phy # "down")
              ELSE UNCHANGED <<mdix, phy, nego, linkif>>
  /\ UNCHANGED <<clock, peer, count, state, flags, frame, clk, seen>>

Param ==
  /\ MayRun /\ pc = "param" /\ pc' = "idle"
  /\ ParamInit /\ Cleared("param")
  /\ UNCHANGED <<hw, phyPN, LinkSta, frame, clk, seen>>

\* The registers WCHNET_LinkProcess reads first; a PHY without clock answers
\* anything.
Poll(reading) ==
  /\ MayRun /\ pc = "poll" /\ Elapsed(1) /\ pc' = "act"
  /\ clock => reading = [anlpar |-> Heard(mdix), complete |-> phy = "up"]
  /\ seen' = reading /\ time' = 0
  /\ UNCHANGED <<hw, count, state, flags, frame, early>>

-----------------------------------------------------------------------------
(* WCHNET_LinkProcess, case by case                                        *)

Turned(pol) == IF pol = "P" THEN "N" ELSE "P"
Turn(s) == [x |-> s.x, pol |-> Turned(s.pol)]

\* Mutant: the crossing is never changed.
CrossedNever(s) == [x |-> s.x, pol |-> "P"]

\* phyPN &= ~0x0c; phyPN ^= 0x03
Crossed(s) == [x |-> 3 - s.x, pol |-> "P"]

Act(anlpar) ==
  /\ MayRun /\ pc = "act" /\ seen.anlpar = anlpar
  /\ pc' = "idle" /\ seen' = Unread
  /\ UNCHANGED <<clock, peer, flags, frame, clk>>

\* Nothing is written, and the PHY goes on by itself.
LeaveAlone ==
  /\ nego' = IF clock /\ Heard(mdix) /\ nego < Dwell THEN nego + 1 ELSE nego
  /\ UNCHANGED <<mdix, phy, linkif>>

Write(s, again) == phyPN' = s /\ WritePHY(s, again)

\* Wait for the negotiation to succeed.
Wait ==
  /\ phySucCnt' = 0 /\ phyLinkCnt' = 0 /\ phyLinkStatus' = "WAIT_SUC"
  /\ LeaveAlone
  /\ UNCHANGED <<phyPN, phyRetryCnt, phyPNChangeCnt>>

\* The other end is heard: with polarity P, or with N when P has been tried ...
HeardRight ==
  /\ Act(TRUE) /\ phyLinkStatus # "WAIT_SUC"
  /\ phyPN.pol = "P" \/ phyLinkStatus = "SUC_N"
  /\ Wait

\* ... with N, so that P is tried first ...
HeardReversed ==
  /\ Act(TRUE) /\ phyLinkStatus = "INIT" /\ phyPN.pol = "N"
  /\ phyRetryCnt' = 0 /\ phyLinkStatus' = "SUC_N"
  /\ Write([x |-> phyPN.x, pol |-> "P"], TRUE)
  /\ UNCHANGED <<phySucCnt, phyLinkCnt, phyPNChangeCnt>>

\* ... for some time already, ...
StillWaiting ==
  /\ Act(TRUE) /\ phyLinkStatus = "WAIT_SUC"
  /\ phySucCnt # SucMax \/ seen.complete
  /\ phySucCnt' = (phySucCnt + 1) % SucMod
  /\ LeaveAlone
  /\ UNCHANGED <<state, phyLinkCnt, phyRetryCnt, phyPNChangeCnt>>

\* ... or for too long.
WaitedInVain ==
  /\ Act(TRUE) /\ phyLinkStatus = "WAIT_SUC" /\ phySucCnt = SucMax /\ ~seen.complete
  /\ phySucCnt' = 0 /\ phyRetryCnt' = 0 /\ phyPNChangeCnt' = 0
  /\ phyLinkStatus' = "INIT"
  /\ Write(Turn(phyPN), TRUE)
  /\ UNCHANGED phyLinkCnt

\* It is not heard, but negotiation is complete.
Complete == Act(FALSE) /\ seen.complete /\ Wait

Silence(status) == Act(FALSE) /\ ~seen.complete /\ phyLinkStatus = status

\* It is heard no more.
FellSilent ==
  /\ Silence("WAIT_SUC")
  /\ IF phyLinkCnt = LinkMax
       THEN /\ phyLinkCnt' = 0 /\ phyRetryCnt' = 0 /\ phyPNChangeCnt' = 0
            /\ phyLinkStatus' = "INIT"
       ELSE phyLinkCnt' = phyLinkCnt + 1
            /\ UNCHANGED <<phyRetryCnt, phyPNChangeCnt, phyLinkStatus>>
  /\ LeaveAlone /\ UNCHANGED <<phyPN, phySucCnt>>

\* Search: reverse the polarity, and now and then the crossing that the register
\* has.
Search(reg) ==
  /\ Silence("INIT") /\ (clock => reg = mdix)
  /\ IF phyPNChangeCnt = ChangeMax
       THEN phyPNChangeCnt' = 0 /\ Write(Crossed(reg), FALSE)
       ELSE phyPNChangeCnt' = phyPNChangeCnt + 1 /\ Write(Turn(phyPN), FALSE)
  /\ UNCHANGED <<phyLinkStatus, phySucCnt, phyLinkCnt, phyRetryCnt>>

\* Heard with N, not with P: back to N, and wait to hear it again.
BackToReversed ==
  /\ Silence("SUC_N") /\ phyPN.pol = "P"
  /\ Write(Turn(phyPN), TRUE)
  /\ UNCHANGED <<phyLinkStatus, count>>

NotHeardAgain ==
  /\ Silence("SUC_N") /\ phyPN.pol = "N"
  /\ IF phyRetryCnt = RetryMax
       THEN phyRetryCnt' = 0 /\ phyPNChangeCnt' = 0 /\ phyLinkStatus' = "INIT"
       ELSE phyRetryCnt' = phyRetryCnt + 1 /\ UNCHANGED <<phyPNChangeCnt, phyLinkStatus>>
  /\ LeaveAlone /\ UNCHANGED <<phyPN, phySucCnt, phyLinkCnt>>

LinkProcess ==
  \/ HeardRight \/ HeardReversed \/ StillWaiting \/ WaitedInVain
  \/ Complete \/ FellSilent \/ BackToReversed \/ NotHeardAgain
  \/ \E reg \in Settings : Search(reg)

-----------------------------------------------------------------------------
(* WCHNET_PhyPNProcess                                                     *)

\* Mutant: the damaged frames are counted and nothing is done.
EnoughErrorsNever == FALSE

EnoughErrors == CRCErrPktCnt >= ErrMax

PnProcess ==
  /\ MayRun /\ pc = "linked" /\ Elapsed(2) /\ time' = 0
  /\ pc' = IF EnoughErrors THEN "pn" ELSE "idle"
  /\ UNCHANGED <<hw, count, state, flags, frame, early, seen>>

\* The register is changed, phyPN is not.
PnTurn ==
  /\ MayRun /\ pc = "pn" /\ pc' = "pnClear"
  /\ WritePHY(Turn(mdix), FALSE)
  /\ UNCHANGED <<clock, peer, count, state, flags, frame, clk, seen>>

PnClear ==
  /\ MayRun /\ pc = "pnClear" /\ pc' = "idle"
  /\ CRCErrPktCnt' = 0
  /\ UNCHANGED <<hw, count, state, flags, PhyPolarityDetect, clk, seen>>

-----------------------------------------------------------------------------
(* WCHNET_ETHIsr                                                           *)

\* phyLinkTime = LocalTime in the interrupt; if main has loaded LocalTime and the
\* timer has gone on since, main will see a negative difference.
TimeSet == time' = 0 /\ (early' = early \/ early' = (pc \in {"off", "poll", "linked"}))

\* Mutant: phyStatus does not tell that the link is up.
LinkedStatusForgotten == phyStatus

\* phyStatus = PHY_Linked_Status
LinkedStatus == TRUE

\* ETH_LinkUpCfg
LinkUpCfg ==
  /\ LinkSta' = TRUE /\ phyStatus' = LinkedStatus
  /\ CRCErrPktCnt' = 0 /\ PhyPolarityDetect' = TRUE
  /\ TimeSet
  /\ UNCHANGED <<clock, mdix, phy, nego, count, state, phyLinkReset>>

\* ETH_LinkDownCfg
LinkDownCfg ==
  /\ LinkSta' = FALSE /\ phyLinkReset' = TRUE
  /\ clock' = FALSE /\ phy' = "down" /\ nego' = 0
  /\ TimeSet
  /\ UNCHANGED <<mdix, count, state, phyStatus, frame>>

\* "The auto-negotiation signal of the peer device is not obtained"
StartAgain ==
  /\ ResetPHY /\ ParamInit
  /\ UNCHANGED <<clock, phyPN, LinkSta, phyLinkReset, frame, clk>>

\* ETH_PHYLink; LINKIF is cleared when it is done.
LinkIrq ==
  /\ linkif /\ linkif' = FALSE
  /\ CASE phy = "up" -> LinkUpCfg
       [] phy = "linked" /\ ~Heard(mdix) -> StartAgain
       [] OTHER -> LinkDownCfg
  /\ UNCHANGED <<peer, main>>

\* RXIF: a good frame settles the question of the polarity.
GoodFrame ==
  /\ phy = "up" /\ ~linkif /\ mdix.pol = peer.good
  /\ PhyPolarityDetect' = FALSE
  /\ UNCHANGED <<hw, count, state, flags, CRCErrPktCnt, clk, main>>

\* RXERIF: a damaged one.
BadFrame ==
  /\ phy = "up" /\ ~linkif /\ mdix.pol # peer.good
  /\ PhyPolarityDetect /\ CRCErrPktCnt < ErrCap
  /\ CRCErrPktCnt' = CRCErrPktCnt + 1
  /\ UNCHANGED <<hw, count, state, flags, PhyPolarityDetect, clk, main>>

-----------------------------------------------------------------------------
(* The PHY, the cable, the timer                                           *)

\* Negotiation ends, and the link is up.
Negotiated ==
  /\ clock /\ phy # "up" /\ ~linkif /\ Heard(mdix)
  /\ Strikes \/ pc \in {"idle", "linked", "pn", "pnClear"}
  /\ phy' = "up" /\ linkif' = TRUE
  /\ UNCHANGED <<clock, mdix, nego, peer, count, state, flags, frame, clk, main>>

\* The PHY takes something for a link.
FalseLink ==
  /\ clock /\ phy = "down" /\ ~linkif
  /\ phy' = "linked" /\ linkif' = TRUE
  /\ UNCHANGED <<clock, mdix, nego, peer, count, state, flags, frame, clk, main>>

\* The cable is pulled, or plugged into another peer.
Replug(p) ==
  /\ ~linkif /\ p # peer /\ (peer = NoPeer \/ p = NoPeer)
  /\ peer' = p /\ nego' = 0
  /\ phy' = "down" /\ linkif' = (phy # "down")
  /\ UNCHANGED <<clock, mdix, count, state, flags, frame, clk, main>>

\* WCHNET_TimeIsr, when the difference comes to a value the code tells apart.
Tick ==
  /\ time < 3 /\ time' = time + 1
  /\ UNCHANGED <<hw, count, state, flags, frame, early, main>>

-----------------------------------------------------------------------------
MainStep ==
  \/ Look \/ TooSoon("off", 3) \/ TooSoon("poll", 1) \/ TooSoon("linked", 2)
  \/ EndWait \/ Enable \/ PhyReset \/ Param
  \/ \E a, c \in BOOLEAN : Poll([anlpar |-> a, complete |-> c])
  \/ LinkProcess \/ PnProcess \/ PnTurn \/ PnClear

Disturbance == FalseLink \/ \E p \in Peers \cup {NoPeer} : Replug(p)

Next ==
  \/ MainStep \/ LinkIrq \/ GoodFrame \/ BadFrame
  \/ Negotiated \/ Disturbance \/ Tick

Spec == Init /\ [][Next]_vars

\* The main loop goes round, interrupts are served, the timer runs; a PHY left
\* alone long enough negotiates, and a peer sends frames.
FairSpec ==
  /\ Spec
  /\ WF_vars(MainStep) /\ WF_vars(LinkIrq) /\ WF_vars(Tick)
  /\ SF_vars(nego = Dwell /\ Negotiated)
  /\ WF_vars(GoodFrame) /\ WF_vars(BadFrame)

-----------------------------------------------------------------------------
(* Properties *)

\* Somebody is going to switch the clock on that ETH_LinkDownCfg switched off,
\* wherever in HandlePhyNegotiation the interrupt strikes.
ClockOwed == ~clock => phyLinkReset \/ pc = "enable"

\* LinkSta says "No valid link established" unless there is one, or its end is
\* about to be reported.
LinkStaTrue == LinkSta => phy = "up" \/ linkif

Safe == TypeOK /\ ClockOwed /\ LinkStaTrue

\* With a peer that stays, whatever happened before, the search comes to it.
LinkComesUp == <>[][~Disturbance]_vars => (peer # NoPeer ~> LinkSta \/ peer = NoPeer)

\* A link that came up with the wrong polarity gets the right one.
PolarityFound == LinkSta ~> ~LinkSta \/ mdix.pol = peer.good

\* The main loop never breaks a link that has been reported up, and does not
\* change a polarity that is right.
LinkLeftAlone ==
  [][MainStep /\ phy = "up" => phy' = "up" /\ (mdix.pol = peer.good => mdix' = mdix)]_vars
=============================================================================
