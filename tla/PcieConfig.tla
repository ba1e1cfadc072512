----------------------------- MODULE PcieConfig -----------------------------
(***************************************************************************)
(* The PCIe bifurcation of yadro-hw-manager: class pcieCfg, as a scan of   *)
(* createInventory() uses it. Every board claims lanes of CPU ports; the   *)
(* claims are merged in the order of the scan and the result is set in the *)
(* settings service when the scan ends, however it ends.                   *)
(*                                                                         *)
(* A byte is a pair of hexadecimal digits, the first for the high half of  *)
(* a port's 16 lanes, the second for the low half, "F" where the component *)
(* does not use the half. Any byte may be in an option, also one that      *)
(* means nothing: the digits are merged without a look at what they mean.  *)
(* A scan meets any options, MaxClaims at most, and each of the MaxScans   *)
(* scans others: boards come and go, and those behind the motherboard in   *)
(* the order of their paths are not scanned.                               *)
(***************************************************************************)
EXTENDS Naturals

CONSTANTS
  Ports,     \* CPU ports
  Raduni,    \* the port of J45 (B1)
  MaxClaims, \* the most options a scan meets
  MaxScans,  \* bound on the scans in a behaviour
  None       \* no byte

ASSUME PortAssumption == Raduni \in Ports
ASSUME ScanAssumption == MaxClaims \in Nat /\ MaxScans \in Nat

Digit == {"0", "1", "2", "3", "4", "5", "6", "7", "8", "9", "A", "B", "C", "D", "E", "F"}
Byte == Digit \X Digit

Disabled == <<"D", "D">>
X16 == <<"1", "6">>
Mode == ({"4", "8"} \X {"4", "8"}) \cup ({"F"} \X {"4", "8"}) \cup ({"4", "8"} \X {"F"})
          \cup {Disabled, X16}

\* The byte that uses neither half: no mode, but it is held like any other.
Idle == <<"F", "F">>

\* Bytes of the older boards.
OldStyle == {<<"0", d>> : d \in {"0", "1", "2", "3", "4", "F"}}

\* What a port may hold.
Held == Byte \ OldStyle
ASSUME NoneAssumption == None \notin Byte

\* An option: a byte for a port or for "raduni" (0xFFFF), or one that is too short.
Option == [port : Ports \cup {"raduni", "short"}, byte : Byte]

VARIABLES
  scanning, \* a pcieCfg lives
  cfg,      \* bifurcationConfig
  settings, \* the property of the settings service
  kept,     \* history: the claims of this scan that were accepted
  refused,  \* history: those that were not
  met,      \* options the scan has met
  scans     \* scans so far

vars == <<scanning, cfg, settings, kept, refused, met, scans>>

-----------------------------------------------------------------------------
(* Claims *)

\* Mutated form: old style 3 (x8 x8) is forgotten.
TranslateNew(byte) == IF byte = <<"0", "F">> THEN Disabled ELSE byte

Translate(byte) ==
  CASE byte = <<"0", "0">> -> <<"4", "4">>
    [] byte = <<"0", "1">> -> <<"4", "8">>
    [] byte = <<"0", "2">> -> <<"8", "4">>
    [] byte = <<"0", "3">> -> <<"8", "8">>
    [] byte = <<"0", "4">> -> X16
    [] byte = <<"0", "F">> -> Disabled
    [] OTHER -> byte

\* The port and the byte an option stands for.
Claim(option) ==
  IF option.port = "raduni"
  THEN [port |-> Raduni, byte |-> <<"F", "8">>]
  ELSE [port |-> option.port, byte |-> Translate(option.byte)]

\* Halves that go together: the one of the first and the other of the second.
Fit(high, low) == high[2] = "F" /\ low[1] = "F"
Halves(high, low) == <<high[1], low[2]>>

\* The merged byte of two that fit.
Merged(old, new) ==
  IF Fit(old, new) THEN Halves(old, new) ELSE Halves(new, old)

-----------------------------------------------------------------------------
(* addBifurcationConfig() *)

Refuse(c) == refused' = refused \cup {c} /\ UNCHANGED <<cfg, kept>>
Keep(c, byte) ==
  /\ cfg' = [cfg EXCEPT ![c.port] = byte]
  /\ kept' = kept \cup {c} /\ UNCHANGED refused

\* Mutated form: "Disabled" gives way only when it comes second.
AddOneWay(c, old) ==
  \/ old = None /\ Keep(c, c.byte)
  \/ old # None /\ (c.byte = old \/ c.byte = Disabled) /\ Keep(c, old)
  \/ /\ old \notin {None, c.byte} /\ c.byte # Disabled
     /\ IF Fit(old, c.byte) \/ Fit(c.byte, old) THEN Keep(c, Merged(old, c.byte))
                                                ELSE Refuse(c)

\* Mutated form: the later of two equal priorities wins.
AddLater(c, old) ==
  IF old # None => ~ Fit(old, c.byte)
  THEN Keep(c, c.byte)
  ELSE Keep(c, Merged(old, c.byte))

\* The port has the byte old, or None.
Add(c, old) ==
  \/ old = None /\ Keep(c, c.byte)
  \/ old # None /\ (c.byte = old \/ c.byte = Disabled) /\ Keep(c, old)
  \/ old = Disabled /\ c.byte # Disabled /\ Keep(c, c.byte)
  \/ /\ old \notin {None, c.byte, Disabled} /\ c.byte # Disabled
     /\ IF Fit(old, c.byte) \/ Fit(c.byte, old) THEN Keep(c, Merged(old, c.byte))
                                                ELSE Refuse(c)

\* The scan meets an option; one that is too short is not handled.
AddBifurcationConfig(option) ==
  /\ scanning /\ met < MaxClaims
  /\ met' = met + 1
  /\ IF option.port = "short"
     THEN UNCHANGED <<cfg, kept, refused>>
     ELSE LET c == Claim(option) IN Add(c, cfg[c.port])
  /\ UNCHANGED <<scanning, settings, scans>>

-----------------------------------------------------------------------------
Empty == [p \in Ports |-> None]

Init ==
  /\ scanning = FALSE /\ met = 0
  /\ cfg = Empty /\ settings = Empty
  /\ kept = {} /\ refused = {}
  /\ scans = 0

\* Mutated form: one pcieCfg for all scans.
ScanAgain ==
  /\ ~ scanning /\ scans < MaxScans
  /\ scanning' = TRUE /\ met' = 0
  /\ kept' = {} /\ refused' = {}
  /\ scans' = scans + 1
  /\ UNCHANGED <<cfg, settings>>

\* createInventory() has read the FRUs.
Scan ==
  /\ ~ scanning /\ scans < MaxScans
  /\ scanning' = TRUE /\ met' = 0
  /\ cfg' = Empty /\ kept' = {} /\ refused' = {}
  /\ scans' = scans + 1
  /\ UNCHANGED settings

\* The bytes that are modes; others are left out.
Published == [p \in Ports |-> IF cfg[p] \in Mode THEN cfg[p] ELSE None]

\* ~pcieCfg(): the settings are set, or the service is not there or refuses.
Destroy ==
  /\ scanning
  /\ scanning' = FALSE
  /\ settings' \in {Published, settings}
  /\ UNCHANGED <<cfg, kept, refused, met, scans>>

Next ==
  \/ Scan
  \/ \E option \in Option : AddBifurcationConfig(option)
  \/ Destroy

Spec == Init /\ [][Next]_vars

-----------------------------------------------------------------------------
(* Properties *)

\* A claim, translated.
Claims == [port : Ports, byte : Held]

\* The type invariant. No byte of the older boards gets into the configuration.
TypeOK ==
  /\ scanning \in BOOLEAN /\ met \in 0 .. MaxClaims
  /\ cfg \in [Ports -> Held \cup {None}]
  /\ settings \in [Ports -> Mode \cup {None}]
  /\ kept \subseteq Claims /\ refused \subseteq Claims
  /\ scans \in 0 .. MaxScans

\* The bytes accepted for a port.
Claimed(p) == {c.byte : c \in {k \in kept : k.port = p}}

\* Two halves "D" that make the byte of a disabled port, which gives way to any
\* other. No mode has them: this takes two boards with bytes that mean nothing.
HalvesDisabled(p) == {<<"D", "F">>, <<"F", "D">>} \subseteq Claimed(p)

\* A byte gives a component what it claimed: the halves it uses.
Honours(byte, claimed) ==
  claimed # Disabled => \A h \in {1, 2} : claimed[h] = "F" \/ byte[h] = claimed[h]

\* Whatever other boards claim, before or after, a claim that was accepted is
\* honoured by the port's configuration: merging never takes lanes away from a
\* component that has them.
ClaimsHonoured ==
  \A c \in kept :
    cfg[c.port] # None /\ (HalvesDisabled(c.port) \/ Honours(cfg[c.port], c.byte))

Overlap(a, b) ==
  a # Disabled /\ b # Disabled /\ \E h \in {1, 2} : a[h] # "F" /\ b[h] # "F"

\* A claim is refused only because an accepted one uses the same half of the
\* port, or because one of the two is 0xFF, which uses no half and is refused
\* beside, and refuses, any byte with both halves in use (pcie_cfg.cpp:153-165).
\* It is never refused because of the order of the boards or of a component that
\* has the port disabled (:144: "in case of conflict "Disabled" value have less
\* priority").
RefusedForCause ==
  \A c \in refused : \E d \in kept :
    /\ d.port = c.port
    /\ \/ Overlap(c.byte, d.byte)
       \/ Idle \in {c.byte, d.byte} /\ Disabled \notin {c.byte, d.byte}

\* Of the claims that were accepted the order of the boards makes no difference:
\* every half of a port is as the claims for it say, and disabled only if all
\* say so.
OrderFree ==
  \A p \in Ports :
    LET active == Claimed(p) \ {Disabled}
        Half(h) == IF \A b \in active : b[h] = "F" THEN "F"
                   ELSE CHOOSE d \in {b[h] : b \in active} : d # "F"
    IN HalvesDisabled(p) \/
         cfg[p] = IF Claimed(p) = {} THEN None
                  ELSE IF active = {} THEN Disabled ELSE <<Half(1), Half(2)>>

\* What a scan sets is what the boards claim now: no lanes stay reserved for a
\* board that an earlier scan has seen, and each accepted claim is honoured.
SettingsFollowScan ==
  [][\A p \in Ports : settings'[p] \notin {settings[p], None} =>
       /\ Claimed(p) # {}
       /\ HalvesDisabled(p) \/ \A b \in Claimed(p) : Honours(settings'[p], b)]_vars
=============================================================================
