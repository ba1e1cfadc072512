-------------------------- MODULE PcieConfigProofs --------------------------
(* Proofs about PcieConfig, for any ports, options and scans.              *)
EXTENDS PcieConfig, TLAPS

USE PortAssumption, ScanAssumption, NoneAssumption

-----------------------------------------------------------------------------
(* Bytes *)

\* A port's byte is right for the bytes that were accepted for it: it is there
\* if any was, no half is in use that none of them uses, it is Idle only if one
\* of them is, and, unless two of them make "Disabled", it honours all of them
\* and is "Disabled" only if all are.
Right(byte, bytes) ==
  /\ byte = None <=> bytes = {}
  /\ byte \notin {None, Disabled} =>
       \A h \in {1, 2} : byte[h] # "F" => \E b \in bytes : b # Disabled /\ b[h] = byte[h]
  /\ byte = Idle => Idle \in bytes
  /\ \/ {<<"D", "F">>, <<"F", "D">>} \subseteq bytes
     \/ /\ \A b \in bytes : Honours(byte, b)
        /\ byte = Disabled => bytes \subseteq {Disabled}

\* Two different bytes that fit make one of the halves of both, and "Disabled"
\* only from its two halves.
LEMMA MergedHalves ==
  ASSUME NEW old \in Held, NEW new \in Held, Fit(old, new) \/ Fit(new, old)
  PROVE  LET m == Merged(old, new) IN
         /\ m \in Held
         /\ \A h \in {1, 2} : /\ old[h] # "F" => m[h] = old[h]
                              /\ new[h] # "F" => m[h] = new[h]
                              /\ m[h] # "F" => m[h] \in {old[h], new[h]}
<1> DEFINE m == Merged(old, new)
<1>1. /\ old = <<old[1], old[2]>> /\ new = <<new[1], new[2]>>
      /\ old[1] \in Digit /\ old[2] \in Digit /\ new[1] \in Digit /\ new[2] \in Digit
  BY DEF Held, Byte
<1>2. CASE Fit(old, new)
  <2>1. m[1] = old[1] /\ m[2] = new[2] /\ m \in Byte /\ old[2] = "F" /\ new[1] = "F"
    BY <1>1, <1>2 DEF Merged, Halves, Fit, Byte
  <2>2. m[1] # "0"
    BY <1>1, <2>1 DEF Held, OldStyle
  <2>3. m \notin OldStyle
    BY <2>2 DEF OldStyle
  <2> QED
    BY <2>1, <2>3 DEF Held
<1>3. CASE ~ Fit(old, new) /\ Fit(new, old)
  <2>1. m[1] = new[1] /\ m[2] = old[2] /\ m \in Byte /\ new[2] = "F" /\ old[1] = "F"
    BY <1>1, <1>3 DEF Merged, Halves, Fit, Byte
  <2>2. m[1] # "0"
    BY <1>1, <2>1 DEF Held, OldStyle
  <2>3. m \notin OldStyle
    BY <2>2 DEF OldStyle
  <2> QED
    BY <2>1, <2>3 DEF Held
<1> QED
  BY <1>2, <1>3

\* A byte is its two halves.
LEMMA Pair == \A b \in Byte : b = <<b[1], b[2]>>
  BY DEF Byte

\* A half "D" that is honoured and merged into "Disabled" was claimed alone.
LEMMA HalfDisabled ==
  ASSUME NEW bytes \in SUBSET Held, NEW old \in Held, Right(old, bytes), old # Disabled,
         ~ {<<"D", "F">>, <<"F", "D">>} \subseteq bytes,
         NEW h \in {1, 2}, old[h] = "D", old[3 - h] = "F"
  PROVE  old \in bytes
<1>1. old # None
  BY DEF Held
<1>2. PICK b \in bytes : b # Disabled /\ b[h] = "D"
  BY <1>1 DEF Right
<1>3. Honours(old, b)
  BY DEF Right
<1>4. b[3 - h] = "F"
  BY <1>2, <1>3 DEF Honours
<1>5. b = old
  BY <1>2, <1>4, Pair DEF Held
<1> QED
  BY <1>5

\* The bytes a port may have after an accepted claim, in the cases of Add().
LEMMA KeepIsRight ==
  ASSUME NEW bytes \in SUBSET Held, NEW old \in Held \cup {None}, NEW new \in Held,
         NEW byte, Right(old, bytes),
         \/ old = None /\ byte = new
         \/ old # None /\ (new = old \/ new = Disabled) /\ byte = old
         \/ old = Disabled /\ new # Disabled /\ byte = new
         \/ /\ old \notin {None, new, Disabled} /\ new # Disabled
            /\ Fit(old, new) \/ Fit(new, old)
            /\ byte = Merged(old, new)
  PROVE  byte \in Held /\ Right(byte, bytes \cup {new})
<1>0. new # None
  BY DEF Held
<1>1. CASE old = None /\ byte = new
  BY <1>0, <1>1 DEF Right, Honours
<1>2. CASE old # None /\ (new = old \/ new = Disabled) /\ byte = old
  BY <1>0, <1>2 DEF Right, Honours
<1>3. CASE old = Disabled /\ new # Disabled /\ byte = new
  BY <1>0, <1>3 DEF Right, Honours
<1>4. CASE /\ old \notin {None, new, Disabled} /\ new # Disabled
           /\ Fit(old, new) \/ Fit(new, old)
           /\ byte = Merged(old, new)
  <2>1. /\ byte \in Held
        /\ \A h \in {1, 2} : /\ old[h] # "F" => byte[h] = old[h]
                             /\ new[h] # "F" => byte[h] = new[h]
                             /\ byte[h] # "F" => byte[h] \in {old[h], new[h]}
    BY <1>4, MergedHalves
  <2>2. byte # None
    BY <2>1 DEF Held
  <2>3. \A h \in {1, 2} : byte[h] # "F" =>
          \E b \in bytes \cup {new} : b # Disabled /\ b[h] = byte[h]
    BY <1>4, <2>1 DEF Right
  <2>4. byte = Idle => Idle \in bytes \cup {new}
    <3>1. byte = Idle => old[1] = "F" /\ old[2] = "F"
      BY <2>1 DEF Idle
    <3>2. byte = Idle => old = Idle
      BY <1>4, <3>1, Pair DEF Idle, Held
    <3> QED
      BY <3>2 DEF Right
  <2>5. ASSUME ~ {<<"D", "F">>, <<"F", "D">>} \subseteq bytes \cup {new}
        PROVE  /\ \A b \in bytes \cup {new} : Honours(byte, b)
               /\ byte = Disabled => bytes \cup {new} \subseteq {Disabled}
    <3>1. \A b \in bytes : Honours(old, b)
      BY <2>5 DEF Right
    <3>2. \A b \in bytes \cup {new} : Honours(byte, b)
      BY <2>1, <3>1 DEF Honours
    <3>3. ASSUME byte = Disabled PROVE FALSE
      <4>1. byte[1] = "D" /\ byte[2] = "D"
        BY <3>3 DEF Disabled
      <4>2. \/ old[1] = "D" /\ old[2] = "F" /\ new[1] = "F" /\ new[2] = "D"
            \/ old[1] = "F" /\ old[2] = "D" /\ new[1] = "D" /\ new[2] = "F"
        BY <1>4, <2>1, <4>1 DEF Fit
      <4>3. old \in bytes
        BY <1>4, <2>5, <4>2, HalfDisabled
      <4>4. {old, new} = {<<"D", "F">>, <<"F", "D">>}
        BY <1>4, <4>2, Pair DEF Held
      <4> QED
        BY <2>5, <4>3, <4>4
    <3> QED
      BY <3>2, <3>3
  <2> QED
    BY <2>1, <2>2, <2>3, <2>4, <2>5 DEF Right
<1> QED
  BY <1>1, <1>2, <1>3, <1>4

\* A byte that is refused overlaps with an accepted one, or one of the two is Idle.
LEMMA RefuseIsRight ==
  ASSUME NEW bytes \in SUBSET Held, NEW old \in Held, NEW new \in Held,
         Right(old, bytes), old \notin {Disabled, new}, new # Disabled,
         ~ Fit(old, new), ~ Fit(new, old)
  PROVE  \E b \in bytes : \/ Overlap(new, b)
                          \/ Idle \in {new, b} /\ Disabled \notin {new, b}
<1>0. old # None
  BY DEF Held
<1>1. CASE old = Idle
  BY <1>1 DEF Right, Idle, Disabled
<1>2. CASE old # Idle /\ new = Idle
  <2>1. PICK h \in {1, 2} : old[h] # "F"
    BY <1>2, Pair DEF Held, Idle
  <2>2. PICK b \in bytes : b # Disabled
    BY <1>0, <2>1 DEF Right
  <2> QED
    BY <1>2, <2>2
<1>3. CASE old # Idle /\ new # Idle
  <2>1. (old[1] # "F" \/ old[2] # "F") /\ (new[1] # "F" \/ new[2] # "F")
    BY <1>3, Pair DEF Held, Idle
  <2>2. PICK h \in {1, 2} : old[h] # "F" /\ new[h] # "F"
    BY <2>1 DEF Fit
  <2>3. PICK b \in bytes : b # Disabled /\ b[h] # "F"
    BY <1>0, <2>2 DEF Right
  <2> QED
    BY <2>2, <2>3 DEF Overlap
<1> QED
  BY <1>1, <1>2, <1>3

\* The bytes of the older boards are translated.
LEMMA TranslateType == \A b \in Byte : Translate(b) \in Held
  BY DEF Byte, Digit, OldStyle, Held, Translate, X16, Disabled

LEMMA ClaimType ==
  ASSUME NEW option \in Option, option.port # "short"
  PROVE  Claim(option) \in Claims
<1>1. CASE option.port = "raduni"
  BY <1>1 DEF Claim, Claims, Held, Byte, Digit, OldStyle
<1>2. CASE option.port # "raduni"
  <2>1. option.port \in Ports /\ option.byte \in Byte
    BY <1>2 DEF Option
  <2> QED
    BY <1>2, <2>1, TranslateType DEF Claim, Claims
<1> QED
  BY <1>1, <1>2

-----------------------------------------------------------------------------
(* Steps *)

PortsRight == \A p \in Ports : Right(cfg[p], Claimed(p))

PcieInv == TypeOK /\ PortsRight /\ RefusedForCause

\* What the invariant says of the accepted claims.
LEMMA RightHonours == PcieInv => ClaimsHonoured
<1> SUFFICES ASSUME PcieInv, NEW c \in kept
             PROVE  cfg[c.port] # None /\ (HalvesDisabled(c.port) \/ Honours(cfg[c.port], c.byte))
  BY DEF ClaimsHonoured
<1>1. c.port \in Ports /\ c.byte \in Claimed(c.port)
  BY DEF PcieInv, TypeOK, Claims, Claimed
<1> QED
  BY <1>1 DEF PcieInv, PortsRight, Right, HalvesDisabled

LEMMA SameIsRight ==
  ASSUME PortsRight, UNCHANGED <<cfg, kept>>
  PROVE  PortsRight'
<1>1. \A p \in Ports : cfg'[p] = cfg[p] /\ Claimed(p)' = Claimed(p)
  BY DEF Claimed
<1> QED
  BY <1>1 DEF PortsRight, Right, Honours

LEMMA AddIsRight ==
  ASSUME PcieInv, NEW c \in Claims, Add(c, cfg[c.port])
  PROVE  /\ cfg' \in [Ports -> Held \cup {None}]
         /\ kept' \subseteq Claims /\ refused' \subseteq Claims
         /\ PortsRight' /\ RefusedForCause'
<1> DEFINE old == cfg[c.port]
           mine == Claimed(c.port)
<1>1. c.port \in Ports /\ c.byte \in Held
  BY DEF Claims
<1>2. /\ cfg \in [Ports -> Held \cup {None}] /\ kept \subseteq Claims /\ refused \subseteq Claims
      /\ old \in Held \cup {None}
  BY <1>1 DEF PcieInv, TypeOK
<1>3. mine \in SUBSET Held /\ Right(old, mine)
  BY <1>1, <1>2 DEF PcieInv, PortsRight, Claimed, Claims
<1>4. ASSUME NEW byte \in Held, Keep(c, byte), Right(byte, mine \cup {c.byte})
      PROVE  /\ cfg' \in [Ports -> Held \cup {None}]
             /\ kept' \subseteq Claims /\ refused' \subseteq Claims
             /\ PortsRight' /\ RefusedForCause'
  <2>1. /\ cfg' \in [Ports -> Held \cup {None}] /\ cfg'[c.port] = byte
        /\ \A p \in Ports : p # c.port => cfg'[p] = cfg[p]
    BY <1>1, <1>2, <1>4 DEF Keep
  <2>2. /\ Claimed(c.port)' = mine \cup {c.byte}
        /\ \A p \in Ports : p # c.port => Claimed(p)' = Claimed(p)
    BY <1>4 DEF Keep, Claimed
  <2>3. PortsRight'
    BY <1>4, <2>1, <2>2 DEF PcieInv, PortsRight, Right, Honours
  <2>4. RefusedForCause'
    BY <1>4 DEF Keep, PcieInv, RefusedForCause
  <2> QED
    BY <1>2, <1>4, <2>1, <2>3, <2>4 DEF Keep
<1>5. ASSUME Refuse(c), old \in Held, old \notin {Disabled, c.byte}, c.byte # Disabled,
             ~ Fit(old, c.byte), ~ Fit(c.byte, old)
      PROVE  /\ cfg' \in [Ports -> Held \cup {None}]
             /\ kept' \subseteq Claims /\ refused' \subseteq Claims
             /\ PortsRight' /\ RefusedForCause'
  <2>1. PICK b \in mine : \/ Overlap(c.byte, b)
                          \/ Idle \in {c.byte, b} /\ Disabled \notin {c.byte, b}
    BY <1>1, <1>3, <1>5, RefuseIsRight
  <2>2. PICK d \in kept : d.port = c.port /\ d.byte = b
    BY DEF Claimed
  <2>3. RefusedForCause'
    BY <1>5, <2>1, <2>2 DEF Refuse, PcieInv, RefusedForCause
  <2>4. PortsRight'
    BY <1>5, SameIsRight DEF Refuse, PcieInv
  <2> QED
    BY <1>2, <1>5, <2>3, <2>4 DEF Refuse
<1> HIDE DEF old, mine
<1>6. CASE old = None /\ Keep(c, c.byte)
  BY <1>1, <1>3, <1>4, <1>6, KeepIsRight
<1>7. CASE old # None /\ (c.byte = old \/ c.byte = Disabled) /\ Keep(c, old)
  <2>1. old \in Held
    BY <1>2, <1>7
  <2> QED
    BY <1>1, <1>3, <1>4, <1>7, <2>1, KeepIsRight
<1>8. CASE old = Disabled /\ c.byte # Disabled /\ Keep(c, c.byte)
  <2>1. old \in Held
    BY <1>2, <1>8 DEF Held, Byte, Digit, OldStyle, Disabled
  <2> QED
    BY <1>1, <1>3, <1>4, <1>8, <2>1, KeepIsRight
<1>9. CASE /\ old \notin {None, c.byte, Disabled} /\ c.byte # Disabled
           /\ Fit(old, c.byte) \/ Fit(c.byte, old)
           /\ Keep(c, Merged(old, c.byte))
  <2> DEFINE byte == Merged(old, c.byte)
  <2>1. byte \in Held /\ Right(byte, mine \cup {c.byte})
    BY <1>1, <1>2, <1>3, <1>9, KeepIsRight
  <2> HIDE DEF byte
  <2> QED
    BY <1>4, <1>9, <2>1 DEF byte
<1>10. CASE /\ old \notin {None, c.byte, Disabled} /\ c.byte # Disabled
            /\ ~ (Fit(old, c.byte) \/ Fit(c.byte, old)) /\ Refuse(c)
  BY <1>2, <1>5, <1>10
<1> QED
  BY <1>6, <1>7, <1>8, <1>9, <1>10 DEF Add, old

LEMMA InitPcieInv == Init => PcieInv
<1> SUFFICES ASSUME Init PROVE PcieInv
  OBVIOUS
<1>1. /\ cfg \in [Ports -> Held \cup {None}] /\ settings \in [Ports -> Mode \cup {None}]
      /\ \A p \in Ports : cfg[p] = None
  BY DEF Init, Empty
<1>2. TypeOK
  <2>1. 0 \in 0 .. MaxClaims /\ 0 \in 0 .. MaxScans
    OBVIOUS
  <2> QED
    BY <1>1, <2>1 DEF Init, TypeOK
<1>3. \A p \in Ports : Claimed(p) = {}
  BY DEF Init, Claimed
<1>4. None \notin {Disabled, Idle}
  BY DEF Disabled, Idle, Byte, Digit
<1>5. PortsRight
  BY <1>1, <1>3, <1>4 DEF PortsRight, Right
<1> QED
  BY <1>2, <1>5 DEF Init, PcieInv, RefusedForCause

LEMMA NextPcieInv == PcieInv /\ [Next]_vars => PcieInv'
<1> SUFFICES ASSUME PcieInv, [Next]_vars PROVE PcieInv'
  OBVIOUS
<1> USE DEF PcieInv, TypeOK
<1>0. ASSUME UNCHANGED <<cfg, kept, refused>> PROVE PortsRight' /\ RefusedForCause'
  BY <1>0, SameIsRight DEF RefusedForCause
<1>1. CASE Scan
  <2>1. cfg' \in [Ports -> Held \cup {None}] /\ \A p \in Ports : cfg'[p] = None
    BY <1>1 DEF Scan, Empty
  <2>2. \A p \in Ports : Claimed(p)' = {}
    BY <1>1 DEF Scan, Claimed
  <2>3. None \notin {Disabled, Idle}
    BY DEF Disabled, Idle, Byte, Digit
  <2>4. PortsRight'
    BY <2>1, <2>2, <2>3 DEF PortsRight, Right
  <2>5. RefusedForCause'
    BY <1>1 DEF Scan, RefusedForCause
  <2> QED
    BY <1>1, <2>1, <2>4, <2>5 DEF Scan
<1>2. ASSUME NEW option \in Option, AddBifurcationConfig(option) PROVE PcieInv'
  <2>1. CASE option.port = "short"
    BY <1>0, <1>2, <2>1 DEF AddBifurcationConfig
  <2>2. CASE option.port # "short"
    <3> DEFINE c == Claim(option)
    <3>1. c \in Claims
      BY <2>2, ClaimType
    <3>2. Add(c, cfg[c.port])
      BY <1>2, <2>2 DEF AddBifurcationConfig
    <3> HIDE DEF c
    <3>3. /\ cfg' \in [Ports -> Held \cup {None}]
          /\ kept' \subseteq Claims /\ refused' \subseteq Claims
          /\ PortsRight' /\ RefusedForCause'
      BY <3>1, <3>2, AddIsRight
    <3>4. /\ scanning' = scanning /\ settings' = settings /\ scans' = scans
          /\ met' \in 0 .. MaxClaims
      BY <1>2 DEF AddBifurcationConfig
    <3> QED
      BY <3>3, <3>4
  <2> QED
    BY <2>1, <2>2
<1>3. CASE Destroy
  <2>1. settings' \in [Ports -> Mode \cup {None}]
    BY <1>3 DEF Destroy, Published
  <2> QED
    BY <1>0, <1>3, <2>1 DEF Destroy
<1>4. CASE UNCHANGED vars
  BY <1>0, <1>4 DEF vars
<1> QED
  BY <1>1, <1>2, <1>3, <1>4 DEF Next

LEMMA PcieInductive == Spec => []PcieInv
  BY InitPcieInv, NextPcieInv, PTL DEF Spec

-----------------------------------------------------------------------------
\* The types hold for any ports and any number of options.
THEOREM PcieTypeCorrect == Spec => []TypeOK
  BY PcieInductive, PTL DEF PcieInv

\* However many boards claim lanes and in whatever order, no merge takes lanes
\* from a component whose claim was accepted, on any port but one that two
\* halves "D" have disabled.
THEOREM LanesAreKept == Spec => []ClaimsHonoured
  BY PcieInductive, RightHonours, PTL

\* Whatever bytes the boards have, a claim is refused only when an accepted one
\* uses the same half of the port, or when one of the two is 0xFF.
THEOREM RefusalsAreConflicts == Spec => []RefusedForCause
  BY PcieInductive, PTL DEF PcieInv

\* What a scan sets in the settings is what was claimed in this scan.
THEOREM SettingsAreCurrent == Spec => SettingsFollowScan
<1> DEFINE Follow ==
      \A p \in Ports : settings'[p] \notin {settings[p], None} =>
        /\ Claimed(p) # {}
        /\ HalvesDisabled(p) \/ \A b \in Claimed(p) : Honours(settings'[p], b)
<1>1. PcieInv /\ [Next]_vars => [Follow]_vars
  <2> SUFFICES ASSUME PcieInv, Next, NEW p \in Ports, settings'[p] \notin {settings[p], None}
               PROVE  /\ Claimed(p) # {}
                      /\ HalvesDisabled(p) \/ \A b \in Claimed(p) : Honours(settings'[p], b)
    BY DEF vars
  <2>1. Destroy
    BY DEF Next, Scan, AddBifurcationConfig
  <2>2. settings'[p] = cfg[p] /\ cfg[p] # None
    BY <2>1 DEF Destroy, Published
  <2> QED
    BY <2>2 DEF PcieInv, PortsRight, Right, HalvesDisabled
<1>2. SettingsFollowScan <=> [][Follow]_vars
  BY DEF SettingsFollowScan
<1> HIDE DEF Follow
<1> QED
  BY <1>1, <1>2, PcieInductive, PTL DEF Spec

\* A port holds what the accepted claims for it say, and nothing of the order
\* they came in: the halves in use are those of the claims.
THEOREM OrderMakesNoDifference == Spec => []OrderFree
<1>1. PcieInv => OrderFree
  <2> SUFFICES ASSUME PcieInv, NEW p \in Ports, ~ HalvesDisabled(p) PROVE
        LET active == Claimed(p) \ {Disabled}
            Half(h) == IF \A b \in active : b[h] = "F" THEN "F"
                       ELSE CHOOSE d \in {b[h] : b \in active} : d # "F"
        IN cfg[p] = IF Claimed(p) = {} THEN None
                    ELSE IF active = {} THEN Disabled ELSE <<Half(1), Half(2)>>
    BY DEF OrderFree
  <2> DEFINE mine == Claimed(p)
             active == mine \ {Disabled}
             Half(h) == IF \A b \in active : b[h] = "F" THEN "F"
                        ELSE CHOOSE d \in {b[h] : b \in active} : d # "F"
  <2>1. cfg[p] \in Held \cup {None} /\ Right(cfg[p], mine)
    BY DEF PcieInv, TypeOK, PortsRight
  <2>2. /\ \A b \in mine : Honours(cfg[p], b)
        /\ cfg[p] = Disabled => mine \subseteq {Disabled}
    BY <2>1 DEF Right, HalvesDisabled
  <2>3. CASE mine = {}
    BY <2>1, <2>3 DEF Right
  <2>4. CASE mine # {} /\ active = {}
    <3>1. cfg[p] \in Held
      BY <2>1, <2>4 DEF Right
    <3>2. ASSUME cfg[p] # Disabled PROVE FALSE
      <4>1. cfg[p][1] = "F" /\ cfg[p][2] = "F"
        BY <2>1, <2>4, <3>1, <3>2 DEF Right, Held
      <4>2. cfg[p] = Idle
        BY <3>1, <4>1, Pair DEF Held, Idle
      <4> QED
        BY <2>1, <2>4, <4>2 DEF Right, Idle, Disabled
    <3> QED
      BY <2>4, <3>2
  <2>5. CASE active # {}
    <3>1. cfg[p] \in Held /\ cfg[p] \notin {Disabled, None}
      BY <2>1, <2>2, <2>5 DEF Right
    <3>2. ASSUME NEW h \in {1, 2} PROVE cfg[p][h] = Half(h)
      <4>1. CASE \A b \in active : b[h] = "F"
        <5>1. cfg[p][h] = "F"
          BY <2>1, <3>1, <4>1 DEF Right
        <5> QED
          BY <4>1, <5>1
      <4>2. CASE ~ \A b \in active : b[h] = "F"
        <5>1. \A b \in active : b[h] = "F" \/ b[h] = cfg[p][h]
          BY <2>2 DEF Honours
        <5>2. PICK b \in active : b[h] # "F"
          BY <4>2
        <5> DEFINE digits == {x[h] : x \in active}
        <5>3. cfg[p][h] \in digits /\ cfg[p][h] # "F"
          BY <5>1, <5>2
        <5>4. \A d \in digits : d # "F" => d = cfg[p][h]
          BY <5>1
        <5> HIDE DEF digits
        <5>5. (CHOOSE d \in digits : d # "F") = cfg[p][h]
          BY <5>3, <5>4, Zenon
        <5>6. Half(h) = CHOOSE d \in digits : d # "F"
          BY <4>2, Zenon DEF digits
        <5> QED
          BY <5>5, <5>6
      <4> QED
        BY <4>1, <4>2
    <3>3. cfg[p] = <<cfg[p][1], cfg[p][2]>>
      BY <3>1, Pair DEF Held
    <3>4. cfg[p] = <<Half(1), Half(2)>>
      BY <3>2, <3>3
    <3>5. mine # {}
      BY <2>5
    <3>6. cfg[p] = IF mine = {} THEN None
                   ELSE IF active = {} THEN Disabled ELSE <<Half(1), Half(2)>>
      <4> HIDE DEF mine, active, Half
      <4> QED
        BY <2>5, <3>4, <3>5
    <3> QED
      BY <3>6
  <2> QED
    BY <2>3, <2>4, <2>5
<1> QED
  BY <1>1, PcieInductive, PTL
=============================================================================
