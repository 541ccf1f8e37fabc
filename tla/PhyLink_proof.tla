---------------------------- MODULE PhyLink_proof ----------------------------
(***************************************************************************)
(* Theorems about PhyLink: the clock of the PHY and the reported state of  *)
(* the link, for every count and every set of peers; and, if negotiation   *)
(* does not end in the middle of a poll, that the main loop leaves a good  *)
(* link alone.                                                             *)
(***************************************************************************)
EXTENDS PhyLink, TLAPS

-----------------------------------------------------------------------------
(* Types *)

LEMMA SettingTypes ==
  /\ Default \in Settings
  /\ \A s \in Settings : Turn(s) \in Settings /\ Crossed(s) \in Settings
  /\ \A s \in Settings : [x |-> s.x, pol |-> "P"] \in Settings
  BY DEF Default, Settings, Crossings, Polarities, Turn, Turned, Crossed

LEMMA PeerTypes ==
  \A p \in Peers \cup {NoPeer} :
    /\ p.x \in Crossings /\ p.hears \subseteq Polarities /\ p.good \in Polarities
    /\ p.hears # {} => p.good \in p.hears
  BY PeerAssumption DEF NoPeer, Crossings, Polarities

LEMMA WriteTypes ==
  ASSUME TypeOK, NEW s \in Settings, NEW again \in BOOLEAN, WritePHY(s, again)
  PROVE  /\ mdix' \in Settings /\ phy' \in {"down", "linked", "up"}
         /\ nego' \in 0 .. Dwell /\ linkif' \in BOOLEAN
  <1>1. Dwell \in Nat
    BY CountAssumption
  <1>2. CASE ~clock
    BY <1>2 DEF WritePHY, TypeOK, FlagsOK, CountsOK
  <1>3. CASE clock
    BY <1>1, <1>3 DEF WritePHY, TypeOK, FlagsOK, CountsOK
  <1> QED BY <1>2, <1>3 DEF TypeOK, FlagsOK, CountsOK

LEMMA TimeTypes ==
  ASSUME FlagsOK, TimeSet
  PROVE  time' = 0 /\ early' \in BOOLEAN
  <1>1. (pc \in {"off", "poll", "linked"}) \in BOOLEAN
    OBVIOUS
  <1>2. early \in BOOLEAN
    BY DEF FlagsOK
  <1> QED BY <1>1, <1>2 DEF TimeSet

LEMMA InitTypes == Init => TypeOK
  <1> SUFFICES ASSUME Init PROVE TypeOK
    OBVIOUS
  <1>1. /\ SucMod \in Nat /\ SucMod > 0
        /\ LinkMax \in Nat /\ RetryMax \in Nat /\ ChangeMax \in Nat
        /\ ErrCap \in Nat /\ Dwell \in Nat
    BY CountAssumption
  <1>2. FlagsOK
    BY DEF Init, FlagsOK
  <1>3. CountsOK
    BY <1>1 DEF Init, CountsOK
  <1> QED BY <1>1, <1>2, <1>3, SettingTypes DEF Init, TypeOK, Unread

LEMMA StepTypes == TypeOK /\ [Next]_vars => TypeOK'
  <1> SUFFICES ASSUME TypeOK, [Next]_vars PROVE TypeOK'
    OBVIOUS
  <1>c. /\ SucMod \in Nat /\ SucMod > 0
        /\ LinkMax \in Nat /\ RetryMax \in Nat /\ ChangeMax \in Nat
        /\ ErrCap \in Nat /\ Dwell \in Nat
    BY CountAssumption
  <1>z. /\ 0 \in 0 .. SucMod - 1 /\ 0 \in 0 .. LinkMax /\ 0 \in 0 .. RetryMax
        /\ 0 \in 0 .. ChangeMax /\ 0 \in 0 .. ErrCap /\ 0 \in 0 .. Dwell /\ 0 \in 0 .. 3
    BY <1>c
  <1> USE DEF hw, count, state, flags, frame, clk, main
  <1>1. CASE Look
    BY <1>1 DEF Look, TypeOK, FlagsOK, CountsOK
  <1>2. ASSUME NEW st \in {"off", "poll", "linked"}, NEW k \in 1 .. 3, TooSoon(st, k)
        PROVE  TypeOK'
    BY <1>2 DEF TooSoon, TypeOK, FlagsOK, CountsOK
  <1>3. CASE EndWait
    BY <1>3 DEF EndWait, Cleared, ClearedAt, TypeOK, FlagsOK, CountsOK
  <1>4. CASE Enable
    BY <1>4 DEF Enable, TypeOK, FlagsOK, CountsOK
  <1>5. CASE PhyReset
    BY <1>5, <1>c, <1>z, SettingTypes DEF PhyReset, ResetPHY, TypeOK, FlagsOK, CountsOK
  <1>6. CASE Param
    BY <1>6, <1>z, Zenon DEF Param, ParamInit, Cleared, ClearedAt, TypeOK, FlagsOK, CountsOK
  <1>7. ASSUME NEW a \in BOOLEAN, NEW c \in BOOLEAN,
               Poll([anlpar |-> a, complete |-> c])
        PROVE  TypeOK'
    BY <1>7 DEF Poll, TypeOK, FlagsOK, CountsOK
  <1>8. CASE LinkProcess
    <2>1. ASSUME NEW a \in BOOLEAN, Act(a)
          PROVE  /\ clock' \in BOOLEAN /\ peer' \in Peers \cup {NoPeer}
                 /\ {LinkSta', phyLinkReset', phyStatus', PhyPolarityDetect', early'}
                       \subseteq BOOLEAN
                 /\ CRCErrPktCnt' \in 0 .. ErrCap /\ time' \in 0 .. 3
                 /\ pc' = "idle" /\ seen' \in [anlpar : BOOLEAN, complete : BOOLEAN]
      BY <2>1 DEF Act, Unread, TypeOK, FlagsOK, CountsOK
    <2>2. ASSUME LeaveAlone
          PROVE  /\ mdix' \in Settings /\ phy' \in {"down", "linked", "up"}
                 /\ nego' \in 0 .. Dwell /\ linkif' \in BOOLEAN
      BY <2>2, <1>c, <1>z DEF LeaveAlone, TypeOK, FlagsOK, CountsOK
    <2>3. ASSUME NEW s \in Settings, NEW again \in BOOLEAN, Write(s, again)
          PROVE  /\ phyPN' \in Settings
                 /\ mdix' \in Settings /\ phy' \in {"down", "linked", "up"}
                 /\ nego' \in 0 .. Dwell /\ linkif' \in BOOLEAN
      BY <2>3, WriteTypes DEF Write
    <2>4. CASE HeardRight
      BY <2>1, <2>2, <2>4, <1>z DEF HeardRight, Wait, TypeOK, FlagsOK, CountsOK
    <2>5. CASE HeardReversed
      BY <2>1, <2>3, <2>5, <1>c, <1>z, SettingTypes DEF HeardReversed, TypeOK, FlagsOK, CountsOK
    <2>6. CASE StillWaiting
      <3>1. (phySucCnt + 1) % SucMod \in 0 .. SucMod - 1
        BY <1>c, <1>z DEF TypeOK, FlagsOK, CountsOK
      <3> QED BY <2>1, <2>2, <2>6, <3>1 DEF StillWaiting, TypeOK, FlagsOK, CountsOK
    <2>7. CASE WaitedInVain
      BY <2>1, <2>3, <2>7, <1>c, <1>z, SettingTypes DEF WaitedInVain, TypeOK, FlagsOK, CountsOK
    <2>8. CASE Complete
      BY <2>1, <2>2, <2>8, <1>c, <1>z DEF Complete, Wait, TypeOK, FlagsOK, CountsOK
    <2>9. CASE FellSilent
      <3>1. FlagsOK'
        BY <2>1, <2>2, <2>9, <1>c, <1>z DEF FellSilent, Silence, TypeOK, FlagsOK
      <3>2. CountsOK'
        BY <2>1, <2>2, <2>9, <1>c, <1>z DEF FellSilent, Silence, TypeOK, CountsOK
      <3> QED BY <2>1, <2>2, <2>9, <1>c, <1>z, <3>1, <3>2 DEF FellSilent, Silence, TypeOK
    <2>10. CASE BackToReversed
      BY <2>1, <2>3, <2>10, SettingTypes DEF BackToReversed, Silence, TypeOK, FlagsOK, CountsOK
    <2>11. CASE NotHeardAgain
      <3>1. FlagsOK'
        BY <2>1, <2>2, <2>11, <1>c, <1>z DEF NotHeardAgain, Silence, TypeOK, FlagsOK
      <3>2. CountsOK'
        BY <2>1, <2>2, <2>11, <1>c, <1>z DEF NotHeardAgain, Silence, TypeOK, CountsOK
      <3> QED BY <2>1, <2>2, <2>11, <1>c, <1>z, <3>1, <3>2 DEF NotHeardAgain, Silence, TypeOK
    <2>12. ASSUME NEW reg \in Settings, Search(reg)
           PROVE  TypeOK'
      <3>1. FlagsOK'
        BY <2>1, <2>3, <2>12, <1>c, <1>z, SettingTypes DEF Search, Silence, TypeOK, FlagsOK
      <3>2. CountsOK'
        <4>1. phyPNChangeCnt' \in 0 .. ChangeMax
          <5>1. CASE phyPNChangeCnt = ChangeMax
            BY <2>12, <5>1, <1>z DEF Search
          <5>2. CASE phyPNChangeCnt # ChangeMax
            <6>1. phyPNChangeCnt' = phyPNChangeCnt + 1
              BY <2>12, <5>2 DEF Search
            <6> QED BY <1>c, <5>2, <6>1 DEF TypeOK, CountsOK
          <5> QED BY <5>1, <5>2
        <4> QED BY <2>12, <4>1 DEF Search, TypeOK, CountsOK
      <3> QED BY <2>1, <2>3, <2>12, <1>c, <1>z, SettingTypes, <3>1, <3>2 DEF Search, Silence, TypeOK
    <2> QED BY <1>8, <2>4, <2>5, <2>6, <2>7, <2>8, <2>9, <2>10, <2>11, <2>12 DEF LinkProcess
  <1>9. CASE PnProcess
    BY <1>9 DEF PnProcess, TypeOK, FlagsOK, CountsOK
  <1>10. CASE PnTurn
    <2>1. Turn(mdix) \in Settings
      BY SettingTypes DEF TypeOK, FlagsOK, CountsOK
    <2> QED BY <1>10, <2>1, WriteTypes DEF PnTurn, TypeOK, FlagsOK, CountsOK
  <1>11. CASE PnClear
    BY <1>11, <1>c, <1>z DEF PnClear, TypeOK, FlagsOK, CountsOK
  <1>12. CASE LinkIrq
    <2>0. TimeSet => time' = 0 /\ early' \in BOOLEAN
      BY TimeTypes DEF TypeOK
    <2>1. CASE LinkUpCfg
      <3>1. FlagsOK'
        BY <1>12, <2>0, <2>1, <1>c, <1>z DEF LinkIrq, LinkUpCfg, LinkedStatus, TypeOK, FlagsOK
      <3>2. CountsOK'
        BY <1>12, <2>0, <2>1, <1>c, <1>z DEF LinkIrq, LinkUpCfg, LinkedStatus, TypeOK, CountsOK
      <3> QED BY <1>12, <2>0, <2>1, <1>c, <1>z, <3>1, <3>2 DEF LinkIrq, LinkUpCfg, LinkedStatus, TypeOK
    <2>2. CASE LinkDownCfg
      <3>1. FlagsOK'
        BY <1>12, <2>0, <2>2, <1>c, <1>z DEF LinkIrq, LinkDownCfg, TypeOK, FlagsOK
      <3>2. CountsOK'
        BY <1>12, <2>0, <2>2, <1>c, <1>z DEF LinkIrq, LinkDownCfg, TypeOK, CountsOK
      <3> QED BY <1>12, <2>0, <2>2, <1>c, <1>z, <3>1, <3>2 DEF LinkIrq, LinkDownCfg, TypeOK
    <2>3. CASE StartAgain
      BY <1>12, <2>3, <1>c, <1>z, SettingTypes DEF LinkIrq, StartAgain, ResetPHY, ParamInit, TypeOK, FlagsOK, CountsOK
    <2> QED BY <1>12, <2>1, <2>2, <2>3 DEF LinkIrq
  <1>13. CASE GoodFrame
    BY <1>13 DEF GoodFrame, TypeOK, FlagsOK, CountsOK
  <1>14. CASE BadFrame
    BY <1>14, <1>c, <1>z DEF BadFrame, TypeOK, FlagsOK, CountsOK
  <1>15. CASE Negotiated
    BY <1>15 DEF Negotiated, TypeOK, FlagsOK, CountsOK
  <1>16. CASE FalseLink
    BY <1>16 DEF FalseLink, TypeOK, FlagsOK, CountsOK
  <1>17. ASSUME NEW p \in Peers \cup {NoPeer}, Replug(p)
         PROVE  TypeOK'
    BY <1>17, <1>c, <1>z DEF Replug, TypeOK, FlagsOK, CountsOK
  <1>18. CASE Tick
    BY <1>18 DEF Tick, TypeOK, FlagsOK, CountsOK
  <1>19. CASE UNCHANGED vars
    BY <1>19 DEF vars, TypeOK, FlagsOK, CountsOK
  <1>20. CASE MainStep
    <2>1. CASE TooSoon("off", 3) \/ TooSoon("poll", 1) \/ TooSoon("linked", 2)
      BY <1>2, <2>1
    <2> QED BY <1>1, <1>3, <1>4, <1>5, <1>6, <1>7, <1>8, <1>9, <1>10, <1>11, <1>20, <2>1
            DEF MainStep
  <1>21. CASE Disturbance
    BY <1>16, <1>17, <1>21 DEF Disturbance
  <1> QED BY <1>12, <1>13, <1>14, <1>15, <1>18, <1>19, <1>20, <1>21 DEF Next

-----------------------------------------------------------------------------
(* The clock and the reported link                                         *)

\* A link taken for one by mistake has not been reported.
Unreported == phy = "linked" => ~LinkSta

IInv == TypeOK /\ ClockOwed /\ LinkStaTrue /\ Unreported

\* What writing a register does to the link.
LEMMA WriteLink ==
  ASSUME TypeOK, NEW s, NEW again \in BOOLEAN, WritePHY(s, again)
  PROVE  \/ UNCHANGED <<phy, linkif>>
         \/ phy # "down" /\ phy' = "down" /\ linkif'
  <1>1. linkif \in BOOLEAN /\ clock \in BOOLEAN
    BY DEF TypeOK, FlagsOK
  <1> QED BY <1>1 DEF WritePHY

\* What a step of LinkProcess leaves alone, and what it may do.
LEMMA ProcessFrame ==
  ASSUME TypeOK, LinkProcess
  PROVE  /\ MayRun /\ pc = "act" /\ pc' = "idle"
         /\ UNCHANGED <<clock, peer, LinkSta, phyLinkReset, phyStatus, CRCErrPktCnt>>
         /\ \/ UNCHANGED <<phy, linkif>>
            \/ phy # "down" /\ phy' = "down" /\ linkif'
  <1>1. ASSUME NEW a, Act(a)
        PROVE  /\ MayRun /\ pc = "act" /\ pc' = "idle"
               /\ UNCHANGED <<clock, peer, LinkSta, phyLinkReset, phyStatus, CRCErrPktCnt>>
    BY <1>1 DEF Act, flags, frame
  <1>2. LeaveAlone => UNCHANGED <<phy, linkif>>
    BY DEF LeaveAlone
  <1>3. ASSUME NEW s, NEW again \in BOOLEAN, Write(s, again)
        PROVE  \/ UNCHANGED <<phy, linkif>>
               \/ phy # "down" /\ phy' = "down" /\ linkif'
    BY <1>3, WriteLink DEF Write
  <1>4. CASE HeardRight
    BY <1>1, <1>2, <1>4 DEF HeardRight, Wait
  <1>5. CASE HeardReversed
    BY <1>1, <1>3, <1>5 DEF HeardReversed
  <1>6. CASE StillWaiting
    BY <1>1, <1>2, <1>6 DEF StillWaiting
  <1>7. CASE WaitedInVain
    BY <1>1, <1>3, <1>7 DEF WaitedInVain
  <1>8. CASE Complete
    BY <1>1, <1>2, <1>8 DEF Complete, Wait
  <1>9. CASE FellSilent
    BY <1>1, <1>2, <1>9 DEF FellSilent, Silence
  <1>10. CASE BackToReversed
    BY <1>1, <1>3, <1>10 DEF BackToReversed, Silence
  <1>11. CASE NotHeardAgain
    BY <1>1, <1>2, <1>11 DEF NotHeardAgain, Silence
  <1>12. ASSUME NEW reg \in Settings, Search(reg)
         PROVE  /\ MayRun /\ pc = "act" /\ pc' = "idle"
                /\ UNCHANGED <<clock, peer, LinkSta, phyLinkReset, phyStatus, CRCErrPktCnt>>
                /\ \/ UNCHANGED <<phy, linkif>>
                   \/ phy # "down" /\ phy' = "down" /\ linkif'
    BY <1>1, <1>3, <1>12 DEF Search, Silence
  <1> QED
    BY <1>4, <1>5, <1>6, <1>7, <1>8, <1>9, <1>10, <1>11, <1>12 DEF LinkProcess

LEMMA InitSafe == Init => IInv
  BY InitTypes DEF Init, IInv, ClockOwed, LinkStaTrue, Unreported

LEMMA StepSafe == IInv /\ [Next]_vars => IInv'
  <1> SUFFICES ASSUME IInv, [Next]_vars
               PROVE  ClockOwed' /\ LinkStaTrue' /\ Unreported'
    BY StepTypes DEF IInv
  <1> USE DEF IInv, ClockOwed, LinkStaTrue, Unreported, hw, flags, main
  <1>1. CASE Look
    BY <1>1 DEF Look
  <1>2. ASSUME NEW st \in {"off", "poll", "linked"}, NEW k \in 1 .. 3, TooSoon(st, k)
        PROVE  ClockOwed' /\ LinkStaTrue' /\ Unreported'
    BY <1>2 DEF TooSoon
  <1>3. CASE EndWait
    BY <1>3 DEF EndWait
  <1>4. CASE Enable
    BY <1>4 DEF Enable
  <1>5. CASE PhyReset
    BY <1>5 DEF PhyReset, ResetPHY, MayRun
  <1>6. CASE Param
    BY <1>6 DEF Param, Cleared, ClearedAt, TypeOK, FlagsOK
  <1>7. ASSUME NEW a \in BOOLEAN, NEW c \in BOOLEAN,
               Poll([anlpar |-> a, complete |-> c])
        PROVE  ClockOwed' /\ LinkStaTrue' /\ Unreported'
    BY <1>7 DEF Poll
  <1>8. CASE LinkProcess
    BY <1>8, ProcessFrame DEF MayRun
  <1>9. CASE PnProcess
    BY <1>9 DEF PnProcess
  <1>10. CASE PnTurn
    BY <1>10, WriteLink DEF PnTurn, MayRun
  <1>11. CASE PnClear
    BY <1>11 DEF PnClear
  <1>12. CASE LinkIrq
    <2>1. CASE phy = "up" /\ LinkUpCfg
      BY <1>12, <2>1 DEF LinkIrq, LinkUpCfg
    <2>2. CASE LinkDownCfg
      BY <1>12, <2>2 DEF LinkIrq, LinkDownCfg
    <2>3. CASE phy = "linked" /\ StartAgain
      BY <1>12, <2>3 DEF LinkIrq, StartAgain, ResetPHY
    <2> QED BY <1>12, <2>1, <2>2, <2>3 DEF LinkIrq
  <1>13. CASE GoodFrame
    BY <1>13 DEF GoodFrame
  <1>14. CASE BadFrame
    BY <1>14 DEF BadFrame
  <1>15. CASE Negotiated
    BY <1>15 DEF Negotiated
  <1>16. CASE FalseLink
    BY <1>16 DEF FalseLink
  <1>17. ASSUME NEW p \in Peers \cup {NoPeer}, Replug(p)
         PROVE  ClockOwed' /\ LinkStaTrue' /\ Unreported'
    BY <1>17 DEF Replug
  <1>18. CASE Tick
    BY <1>18 DEF Tick
  <1>19. CASE UNCHANGED vars
    BY <1>19 DEF vars
  <1>20. CASE MainStep
    <2>1. CASE TooSoon("off", 3) \/ TooSoon("poll", 1) \/ TooSoon("linked", 2)
      BY <1>2, <2>1
    <2> QED BY <1>1, <1>3, <1>4, <1>5, <1>6, <1>7, <1>8, <1>9, <1>10, <1>11, <1>20, <2>1
            DEF MainStep
  <1>21. CASE Disturbance
    BY <1>16, <1>17, <1>21 DEF Disturbance
  <1> QED BY <1>12, <1>13, <1>14, <1>15, <1>18, <1>19, <1>20, <1>21 DEF Next

LEMMA IInvHolds == Spec => []IInv
  <1>1. Init => IInv
    BY InitSafe
  <1>2. IInv /\ [Next]_vars => IInv'
    BY StepSafe
  <1> QED BY <1>1, <1>2, PTL DEF Spec

\* Types; the clock that ETH_LinkDownCfg switches off is going to be switched on
\* wherever in HandlePhyNegotiation its interrupt strikes, with Strikes too; and
\* LinkSta is only wrong while the interrupt that corrects it is waiting.
THEOREM LinkSafe == Spec => []Safe
  <1>1. IInv => Safe
    BY DEF IInv, Safe
  <1> QED BY <1>1, IInvHolds, PTL

-----------------------------------------------------------------------------
(* A good link is left alone                                               *)

\* Where the main loop may be while the link is up.
Quiet == {"idle", "linked", "pn", "pnClear"}

\* An interrupt that switched the clock off has been told to the main loop, and a
\* link is not up before it has the clock.
ClockInv ==
  /\ phyLinkReset => ~clock
  /\ ~clock => phy = "down" /\ ~linkif
  /\ pc \in {"off", "enable"} => ~clock
  /\ pc = "enable" => ~phyLinkReset

\* The main loop knows of a link that is up once its interrupt has been served,
\* and is not trying settings.
UpInv ==
  /\ phy = "up" => pc \in Quiet /\ Heard(mdix)
  /\ phy = "up" /\ ~linkif => phyStatus
  /\ phyStatus /\ ~phyLinkReset /\ ~linkif
       => phy = "up" \/ pc \in {"enable", "phyReset", "param"}

\* The polarity is turned only if it is wrong: damaged frames that were counted
\* are those of the link there is now.
PolarityInv ==
  /\ pc \in {"linked", "pn"} => phy # "linked" /\ (linkif \/ ~clock \/ phy = "up")
  /\ pc = "pn" /\ phy = "up" => mdix.pol # peer.good
  /\ phy = "up" /\ ~linkif /\ mdix.pol = peer.good /\ pc # "pnClear" => CRCErrPktCnt = 0

LinkInv == ClockInv /\ UpInv /\ PolarityInv

LEMMA InitLink == Init => LinkInv
  BY DEF Init, LinkInv, ClockInv, UpInv, PolarityInv

LEMMA StepLink ==
  ASSUME ~Strikes, TypeOK, LinkInv, [Next]_vars
  PROVE  LinkInv'
  <1> USE DEF LinkInv, ClockInv, UpInv, PolarityInv, Quiet, hw, flags, frame, main, Heard
  <1>1. CASE Look
    BY <1>1 DEF Look, MayRun, TypeOK, FlagsOK
  <1>2. ASSUME NEW st \in {"off", "poll", "linked"}, NEW k \in 1 .. 3, TooSoon(st, k)
        PROVE  LinkInv'
    BY <1>2 DEF TooSoon
  <1>3. CASE EndWait
    BY <1>3 DEF EndWait, Cleared, ClearedAt
  <1>4. CASE Enable
    BY <1>4 DEF Enable
  <1>5. CASE PhyReset
    BY <1>5 DEF PhyReset, ResetPHY, MayRun
  <1>6. CASE Param
    BY <1>6 DEF Param, ParamInit, Cleared, ClearedAt, TypeOK, FlagsOK
  <1>7. ASSUME NEW a \in BOOLEAN, NEW c \in BOOLEAN,
               Poll([anlpar |-> a, complete |-> c])
        PROVE  LinkInv'
    BY <1>7 DEF Poll
  <1>8. CASE LinkProcess
    BY <1>8, ProcessFrame DEF MayRun
  <1>9. CASE PnProcess
    BY <1>9, CountAssumption DEF PnProcess, EnoughErrors, MayRun
  <1>10. CASE PnTurn
    <2>1. phy' = "up" => Heard(mdix)'
      BY <1>10 DEF PnTurn, WritePHY, TypeOK, FlagsOK, Heard
    <2>2. \/ UNCHANGED <<phy, linkif>>
          \/ phy # "down" /\ phy' = "down" /\ linkif'
      BY <1>10, WriteLink DEF PnTurn
    <2>3. /\ pc = "pn" /\ pc' = "pnClear" /\ ~linkif
          /\ UNCHANGED <<clock, peer, phyStatus, phyLinkReset>>
      BY <1>10 DEF PnTurn, MayRun
    <2>4. ClockInv'
      BY <2>2, <2>3
    <2>5. UpInv'
      BY <2>1, <2>2, <2>3
    <2>6. PolarityInv'
      BY <2>3
    <2> QED BY <2>4, <2>5, <2>6
  <1>11. CASE PnClear
    BY <1>11 DEF PnClear
  <1>12. CASE LinkIrq
    <2>1. CASE phy = "up" /\ LinkUpCfg
      BY <1>12, <2>1 DEF LinkIrq, LinkUpCfg, LinkedStatus
    <2>2. CASE phy # "up" /\ LinkDownCfg
      BY <1>12, <2>2 DEF LinkIrq, LinkDownCfg
    <2>3. CASE phy = "linked" /\ StartAgain
      BY <1>12, <2>3 DEF LinkIrq, StartAgain, ResetPHY, ParamInit
    <2> QED BY <1>12, <2>1, <2>2, <2>3 DEF LinkIrq, TypeOK
  <1>13. CASE GoodFrame
    BY <1>13 DEF GoodFrame
  <1>14. CASE BadFrame
    BY <1>14 DEF BadFrame
  <1>15. CASE Negotiated
    BY <1>15 DEF Negotiated
  <1>16. CASE FalseLink
    BY <1>16 DEF FalseLink
  <1>17. ASSUME NEW p \in Peers \cup {NoPeer}, Replug(p)
         PROVE  LinkInv'
    BY <1>17 DEF Replug
  <1>18. CASE Tick
    BY <1>18 DEF Tick
  <1>19. CASE UNCHANGED vars
    BY <1>19 DEF vars
  <1>20. CASE MainStep
    <2>1. CASE TooSoon("off", 3) \/ TooSoon("poll", 1) \/ TooSoon("linked", 2)
      BY <1>2, <2>1
    <2> QED BY <1>1, <1>3, <1>4, <1>5, <1>6, <1>7, <1>8, <1>9, <1>10, <1>11, <1>20, <2>1
            DEF MainStep
  <1>21. CASE Disturbance
    BY <1>16, <1>17, <1>21 DEF Disturbance
  <1> QED BY <1>12, <1>13, <1>14, <1>15, <1>18, <1>19, <1>20, <1>21 DEF Next

\* What the main loop may do to a link that is up.
Left == phy' = "up" /\ (mdix.pol = peer.good => mdix' = mdix)

LEMMA MainLeaves ==
  ASSUME TypeOK, LinkInv, MainStep, phy = "up"
  PROVE  Left
  <1>1. pc \in Quiet /\ Heard(mdix)
    BY DEF LinkInv, UpInv
  <1>2. CASE PnTurn
    <2>1. ~linkif /\ pc = "pn" /\ mdix.pol # peer.good /\ clock
      BY <1>2 DEF PnTurn, MayRun, LinkInv, ClockInv, PolarityInv, TypeOK, FlagsOK
    <2>2. mdix.pol \in Polarities /\ peer.good \in Polarities /\ peer.good \in peer.hears
      BY <1>1, PeerTypes DEF TypeOK, Settings, Heard
    <2>3. Turn(mdix).pol = peer.good /\ Turn(mdix).x = mdix.x
      BY <2>1, <2>2 DEF Turn, Turned, Polarities
    <2>4. Heard(Turn(mdix))
      BY <1>1, <2>2, <2>3 DEF Heard
    <2> QED BY <1>2, <2>1, <2>4 DEF PnTurn, WritePHY, Left
  <1>3. CASE LinkProcess
    BY <1>1, <1>3, ProcessFrame DEF Quiet
  <1>4. CASE \E a, c \in BOOLEAN : Poll([anlpar |-> a, complete |-> c])
    BY <1>1, <1>4 DEF Poll, Quiet
  <1>5. CASE EndWait \/ Enable \/ PhyReset \/ Param
    BY <1>1, <1>5 DEF EndWait, Enable, PhyReset, Param, Quiet
  <1>6. CASE TooSoon("off", 3) \/ TooSoon("poll", 1) \/ TooSoon("linked", 2)
    BY <1>6 DEF TooSoon, hw, Left
  <1>7. CASE Look \/ PnProcess \/ PnClear
    BY <1>7 DEF Look, PnProcess, PnClear, hw, Left
  <1> QED BY <1>2, <1>3, <1>4, <1>5, <1>6, <1>7 DEF MainStep

\* If negotiation does not end in the middle of a poll, the main loop never
\* restarts a link that is up nor turns a polarity that is right, for every peer
\* and all counts.
THEOREM GoodLinkStays == ~Strikes => (Spec => LinkLeftAlone)
  <1> SUFFICES ASSUME ~Strikes
               PROVE  Spec => LinkLeftAlone
    OBVIOUS
  <1>1. Init => LinkInv
    BY InitLink
  <1>2. IInv /\ LinkInv /\ [Next]_vars => LinkInv'
    BY StepLink DEF IInv
  <1>3. IInv /\ LinkInv /\ [Next]_vars
          => [MainStep /\ phy = "up"
                => phy' = "up" /\ (mdix.pol = peer.good => mdix' = mdix)]_vars
    BY MainLeaves DEF IInv, Left
  <1> QED BY <1>1, <1>2, <1>3, IInvHolds, PTL DEF Spec, LinkLeftAlone
=============================================================================
