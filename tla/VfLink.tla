-------------------------------- MODULE VfLink --------------------------------
(***************************************************************************)
(* Link status: ixgbe_check_mac_link_vf (src/ixgbe_vf.c), what the driver  *)
(* keeps from it in adapter->link_up / adapter->link_speed, and the two    *)
(* ethtool readers of link state in src/ixgbevf_ethtool.c: the link        *)
(* settings report (get_link_ksettings / get_settings) and the link test   *)
(* of the online self test.                                                *)
(*                                                                         *)
(* The PF drives the VFLINKS register and the mailbox reset indication;    *)
(* the driver's periodic watchdog (outside this repository) calls          *)
(* check_link with the adapter's own fields as the outputs, so a field the *)
(* call leaves alone keeps the previous call's value.  VFLINKS is kept as  *)
(* its upper u16 half, which holds every bit check_mac_link looks at.      *)
(***************************************************************************)
EXTENDS Integers, Bitwise

\* IXGBE_LINKS_UP and IXGBE_LINKS_SPEED_*_82599, upper halves.
LINKS_UP == \h4000
LINKS_SPEED_10G_82599 == \h3000
LINKS_SPEED_1G_82599 == \h2000
LINKS_SPEED_100_82599 == \h1000

\* ixgbe_link_speed values.
IXGBE_LINK_SPEED_UNKNOWN == 0
IXGBE_LINK_SPEED_10_FULL == \h0002
IXGBE_LINK_SPEED_100_FULL == \h0008
IXGBE_LINK_SPEED_1GB_FULL == \h0020
IXGBE_LINK_SPEED_10GB_FULL == \h0080
IXGBE_LINK_SPEED_2_5GB_FULL == \h0400
IXGBE_LINK_SPEED_5GB_FULL == \h0800

SPEED_UNKNOWN == -1

\* Every value of the bits of VFLINKS that check_mac_link reads: link up or
\* not, and the four patterns of the speed field (00 has no case).
LinksValues == {u | s : u \in {0, LINKS_UP},
                        s \in {0, LINKS_SPEED_100_82599, LINKS_SPEED_1G_82599,
                               LINKS_SPEED_10G_82599}}

VARIABLES
  links,        \* VFLINKS (upper half), set by the PF and the hardware
  rst,          \* the mailbox reset indication (RSTI / RSTD) is asserted
  linkUp,       \* adapter->link_up
  linkSpeed,    \* adapter->link_speed
  testData,     \* data[1] of the last self test, -1 before any
  \* History, for the properties only: the speed field of the latest
  \* watchdog read that had a mapped pattern, taken since the latest read
  \* that found the reset indication asserted (0: none since).
  lastMapped

linkVars == <<links, rst, linkUp, linkSpeed, testData, lastMapped>>

\* The adapter is zeroed at allocation: link down, speed 0.
Init ==
  /\ links \in LinksValues /\ rst \in BOOLEAN
  /\ linkUp = FALSE /\ linkSpeed = IXGBE_LINK_SPEED_UNKNOWN
  /\ testData = -1 /\ lastMapped = 0

(***************************************************************************)
(* ixgbe_check_mac_link_vf(hw, &speed, &link_up): <<return value, link_up, *)
(* speed>> for the speed the caller's variable held before the call.       *)
(***************************************************************************)
\* Mutant of CheckMacLink: the reset branch leaves *speed alone.
CheckMacLinkKeepsSpeed(speed) ==
  IF rst THEN <<-1, FALSE, speed>>
  ELSE <<0, (links & LINKS_UP) # 0,
         CASE (links & LINKS_SPEED_10G_82599) = LINKS_SPEED_10G_82599 -> IXGBE_LINK_SPEED_10GB_FULL
           [] (links & LINKS_SPEED_10G_82599) = LINKS_SPEED_1G_82599 -> IXGBE_LINK_SPEED_1GB_FULL
           [] (links & LINKS_SPEED_10G_82599) = LINKS_SPEED_100_82599 -> IXGBE_LINK_SPEED_100_FULL
           [] OTHER -> speed>>

\* Mutant of CheckMacLink: the 1G and 100M patterns swapped.
CheckMacLinkSwapped(speed) ==
  IF rst THEN <<-1, FALSE, IXGBE_LINK_SPEED_UNKNOWN>>
  ELSE <<0, (links & LINKS_UP) # 0,
         CASE (links & LINKS_SPEED_10G_82599) = LINKS_SPEED_10G_82599 -> IXGBE_LINK_SPEED_10GB_FULL
           [] (links & LINKS_SPEED_10G_82599) = LINKS_SPEED_1G_82599 -> IXGBE_LINK_SPEED_100_FULL
           [] (links & LINKS_SPEED_10G_82599) = LINKS_SPEED_100_82599 -> IXGBE_LINK_SPEED_1GB_FULL
           [] OTHER -> speed>>

\* Mutant of CheckMacLink: the speed field stored untranslated.
CheckMacLinkRawSpeed(speed) ==
  IF rst THEN <<-1, FALSE, IXGBE_LINK_SPEED_UNKNOWN>>
  ELSE <<0, (links & LINKS_UP) # 0,
         IF (links & LINKS_SPEED_10G_82599) # 0
         THEN links & LINKS_SPEED_10G_82599 ELSE speed>>

\* check_for_rst finds the reset indication asserted: link down, speed 0,
\* -1.  Otherwise link_up from LINKS_UP and the speed from the 2-bit field;
\* the switch has no default, so pattern 00 leaves *speed as it was.
CheckMacLink(speed) ==
  IF rst THEN <<-1, FALSE, IXGBE_LINK_SPEED_UNKNOWN>>
  ELSE <<0, (links & LINKS_UP) # 0,
         CASE (links & LINKS_SPEED_10G_82599) = LINKS_SPEED_10G_82599 -> IXGBE_LINK_SPEED_10GB_FULL
           [] (links & LINKS_SPEED_10G_82599) = LINKS_SPEED_1G_82599 -> IXGBE_LINK_SPEED_1GB_FULL
           [] (links & LINKS_SPEED_10G_82599) = LINKS_SPEED_100_82599 -> IXGBE_LINK_SPEED_100_FULL
           [] OTHER -> speed>>

(***************************************************************************)
(* get_link_ksettings / get_settings: the ethtool speed and duplex for     *)
(* adapter->link_up and adapter->link_speed.  Speeds check_mac_link never  *)
(* produces (5G, 2.5G, 10M) have their cases too.                          *)
(***************************************************************************)
EthSpeed(s) ==
  CASE s = IXGBE_LINK_SPEED_10GB_FULL  -> 10000
    [] s = IXGBE_LINK_SPEED_5GB_FULL   -> 5000
    [] s = IXGBE_LINK_SPEED_2_5GB_FULL -> 2500
    [] s = IXGBE_LINK_SPEED_1GB_FULL   -> 1000
    [] s = IXGBE_LINK_SPEED_100_FULL   -> 100
    [] s = IXGBE_LINK_SPEED_10_FULL    -> 10
    [] OTHER                           -> SPEED_UNKNOWN

Report(up, s) ==
  IF up THEN [speed |-> EthSpeed(s), duplex |-> "FULL"]
        ELSE [speed |-> SPEED_UNKNOWN, duplex |-> "UNKNOWN"]

(***************************************************************************)
(* Actions.                                                                *)
(***************************************************************************)
\* The PF or the wire changes VFLINKS.
LinksChange ==
  /\ \E l \in LinksValues \ {links} : links' = l
  /\ UNCHANGED <<rst, linkUp, linkSpeed, testData, lastMapped>>

\* The PF begins or ends a reset of the VF.
RstToggle ==
  /\ rst' = ~rst
  /\ UNCHANGED <<links, linkUp, linkSpeed, testData, lastMapped>>

\* The watchdog's link update:
\* check_link(hw, &adapter->link_speed, &adapter->link_up, false).
Watchdog ==
  LET r == CheckMacLink(linkSpeed)
  IN /\ linkUp' = r[2] /\ linkSpeed' = r[3]
     /\ lastMapped' = IF rst THEN 0
                      ELSE IF (links & LINKS_SPEED_10G_82599) # 0
                           THEN links & LINKS_SPEED_10G_82599 ELSE lastMapped
     /\ UNCHANGED <<links, rst, testData>>

\* The online self test: ixgbevf_link_test into data[1] (a local speed
\* variable, so only link_up counts; the return value is not looked at);
\* the register test is not run and passes.
LinkTest ==
  /\ testData' = IF CheckMacLink(0)[2] THEN 0 ELSE 1
  /\ UNCHANGED <<links, rst, linkUp, linkSpeed, lastMapped>>

LinkNext == LinksChange \/ RstToggle \/ Watchdog \/ LinkTest

\* The watchdog runs off a periodic timer.
LinkSpec == Init /\ [][LinkNext]_linkVars /\ WF_linkVars(Watchdog)

-----------------------------------------------------------------------------
(* Properties. *)

LinkTypeOK ==
  /\ links \in LinksValues /\ rst \in BOOLEAN /\ linkUp \in BOOLEAN
  /\ linkSpeed \in {IXGBE_LINK_SPEED_UNKNOWN, IXGBE_LINK_SPEED_100_FULL,
                    IXGBE_LINK_SPEED_1GB_FULL, IXGBE_LINK_SPEED_10GB_FULL}
  /\ testData \in {-1, 0, 1}

\* The ethtool speed of a mapped VFLINKS speed field.
FieldSpeed(f) ==
  CASE f = LINKS_SPEED_10G_82599 -> 10000
    [] f = LINKS_SPEED_1G_82599  -> 1000
    [] f = LINKS_SPEED_100_82599 -> 100
    [] OTHER                     -> SPEED_UNKNOWN

\* A speed check_mac_link left unset stays confined to one PF reset epoch:
\* whatever get_link_ksettings would report with the link up is either
\* SPEED_UNKNOWN or the speed of the latest mapped VFLINKS pattern the
\* watchdog read since it last saw the reset indication, never a speed
\* from before a PF reset.
SpeedNotCarriedAcrossReset ==
  linkUp => Report(linkUp, linkSpeed).speed \in {SPEED_UNKNOWN, FieldSpeed(lastMapped)}

\* With the watchdog running, the reported link state catches up with the
\* hardware: unless VFLINKS or the reset indication keep changing forever,
\* the report keeps coming back to showing the link up exactly when VFLINKS
\* does and no reset is asserted, at VFLINKS' speed when its pattern is
\* mapped.
Agrees ==
  /\ Report(linkUp, linkSpeed).duplex =
       IF ~rst /\ (links & LINKS_UP) # 0 THEN "FULL" ELSE "UNKNOWN"
  /\ ~rst /\ (links & LINKS_UP) # 0 /\ (links & LINKS_SPEED_10G_82599) # 0 =>
       Report(linkUp, linkSpeed).speed = FieldSpeed(links & LINKS_SPEED_10G_82599)

LinkReportSettles ==
  []<>Agrees \/ []<><<LinksChange \/ RstToggle>>_linkVars
====
