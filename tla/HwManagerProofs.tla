-------------------------- MODULE HwManagerProofs ---------------------------
(* Proofs about HwManager: the detection of any number of fans, with any   *)
(* bounds on attempts, changes and faults.                                 *)
EXTENDS HwManager, TLAPS

USE BoundAssumption

\* What the proofs need of the types.
Types ==
  /\ pwm \in [Fans -> {"off", "low", "full"}] /\ initial \in [Fans -> {"off", "low", "full"}]
  /\ rpm \in [Fans -> Tacho]
  /\ state \in {"uninit", "init", "detect", "normal"}
  /\ timer \in BOOLEAN /\ stuck \in BOOLEAN
  /\ faults \in Nat /\ attempts \in Nat

\* In state st, what is known of the fans if nothing has gone wrong: measured,
\* they can be set back; else they have the PWM they had.
Fine(st) ==
  ~ stuck =>
    /\ st = "detect" =>
         \A f \in Fans : initial[f] = "low" /\ (rpm[f] = "zero" => pwm[f] = "low")
    /\ st # "detect" => \A f \in Fans : pwm[f] = "low"

\* Fans are measured only with a table.
Tabled(st) == st = "detect" => table

FanInv == Types /\ NeverForgotten /\ Fine(state) /\ Tabled(state)

\* The part of the machine and the process these depend on.
fanVars == <<pwm, initial, rpm, state, timer, stuck, table>>

LEMMA InitFanInv == Init => FanInv
<1> SUFFICES ASSUME Init PROVE FanInv
  OBVIOUS
<1>1. pwm \in [Fans -> {"off", "low", "full"}] /\ initial \in [Fans -> {"off", "low", "full"}]
  BY DEF Init
<1>2. rpm \in [Fans -> Tacho]
  BY DEF Init, Tacho
<1>3. \A f \in Fans : pwm[f] = "low"
  BY DEF Init
<1> QED
  BY <1>1, <1>2, <1>3 DEF Init, FanInv, Types, NeverForgotten, Fine, Tabled

\* Transfers that all worked leave the counter of the faults alone.
LEMMA HwmonFaults ==
  ASSUME Types, NEW unread, NEW unset, Hwmon(unread, unset)
  PROVE  /\ faults' \in Nat
         /\ faults' = faults => unread = {} /\ unset = {}
  BY DEF Types, Hwmon, NoFault, Faulty

\* The first pass: without a fault every fan's PWM is remembered, and the fans
\* that do not turn keep theirs.
LEMMA AtRestIsRight ==
  ASSUME Types, AtRest, ~ stuck => \A f \in Fans : pwm[f] = "low"
  PROVE  /\ pwm' \in [Fans -> {"off", "low", "full"}]
         /\ initial' \in [Fans -> {"off", "low", "full"}]
         /\ rpm' \in [Fans -> Tacho]
         /\ faults' \in Nat
         /\ ~ stuck /\ faults' = faults =>
              \A f \in Fans : initial'[f] = "low" /\ (rpm'[f] = "zero" => pwm'[f] = "low")
<1>1. PICK r \in [Fans -> Tacho], unread \in SUBSET Fans, unknown \in SUBSET Fans,
           unset \in SUBSET Fans :
        /\ Hwmon(unread \cup unknown, unset)
        /\ Readings(r, Fans, unread)
        /\ rpm' = r
        /\ initial' = [f \in Fans |-> IF f \in unknown THEN "off" ELSE pwm[f]]
        /\ pwm' = [f \in Fans |-> IF r[f] # "zero" /\ f \notin unset THEN "full" ELSE pwm[f]]
  BY DEF AtRest
<1>2. faults' \in Nat /\ (faults' = faults => unread \cup unknown = {} /\ unset = {})
  BY <1>1, HwmonFaults
<1>3. pwm' \in [Fans -> {"off", "low", "full"}] /\ initial' \in [Fans -> {"off", "low", "full"}]
  BY <1>1 DEF Types
<1>4. ASSUME ~ stuck, faults' = faults, NEW f \in Fans
      PROVE  initial'[f] = "low" /\ (rpm'[f] = "zero" => pwm'[f] = "low")
  BY <1>1, <1>2, <1>4
<1> QED
  BY <1>1, <1>2, <1>3, <1>4

\* The second pass: without a fault every fan gets its PWM back.
LEMMA AtFullIsRight ==
  ASSUME Types, AtFull, Fine("detect")
  PROVE  /\ pwm' \in [Fans -> {"off", "low", "full"}]
         /\ initial' \in [Fans -> {"off", "low", "full"}]
         /\ rpm' \in [Fans -> Tacho]
         /\ faults' \in Nat
         /\ ~ stuck /\ faults' = faults => \A f \in Fans : pwm'[f] = "low"
<1>1. PICK r \in [Fans -> Tacho], unread \in SUBSET Fans, unset \in SUBSET Fans :
        /\ Hwmon(unread, unset)
        /\ rpm' = [f \in Fans |-> IF f \in Turned THEN r[f] ELSE "zero"]
        /\ pwm' = [f \in Fans |-> IF f \in Turned \ unset THEN initial[f] ELSE pwm[f]]
        /\ UNCHANGED initial
  BY DEF AtFull
<1>2. faults' \in Nat /\ (faults' = faults => unset = {})
  BY <1>1, HwmonFaults
<1>3. pwm' \in [Fans -> {"off", "low", "full"}] /\ initial' \in [Fans -> {"off", "low", "full"}]
  BY <1>1 DEF Types
<1>4. rpm' \in [Fans -> Tacho]
  BY <1>1 DEF Tacho
<1>5. ASSUME ~ stuck, faults' = faults, NEW f \in Fans
      PROVE  pwm'[f] = "low"
  BY <1>1, <1>2, <1>5 DEF Turned, Fine
<1> QED
  BY <1>2, <1>3, <1>4, <1>5

-----------------------------------------------------------------------------
\* processDetectState() leaves the fans measured or set back, and a detection
\* that goes on with its timer.
LEMMA ProcessIsRight ==
  ASSUME FanInv, NEW st \in {"uninit", "init", "detect"}, Fine(st), Tabled(st),
         NEW armed \in BOOLEAN, NEW known, Process(st, armed, known)
  PROVE  FanInv'
<1> USE DEF FanInv
<1>0. table' = table
  BY DEF Process
<1>1. CASE NoProduct(st, armed)
  <2>1. UNCHANGED <<initial, rpm, pwm, faults>> /\ attempts' \in Nat
    BY <1>1 DEF NoProduct, NoFault, measured, Waits, Types
  <2>2. state' \in {st, "normal"} /\ timer' \in BOOLEAN
        /\ (state' \in {"init", "detect"} => timer')
    BY <1>1 DEF NoProduct, Waits
  <2>3. stuck' = (stuck \/ (st = "detect" /\ state' = "normal"))
    BY <1>1 DEF NoProduct
  <2>4. Types'
    BY <2>1, <2>2, <2>3 DEF Types
  <2>5. Fine(state)'
    BY <2>1, <2>2, <2>3 DEF Fine
  <2> QED
    BY <1>0, <2>2, <2>4, <2>5 DEF NeverForgotten, Tabled
<1>2. CASE st = "uninit" /\ FromFile(armed)
  <2>1. UNCHANGED <<initial, rpm, pwm, faults, attempts, stuck>> /\ timer' = armed
    BY <1>2 DEF FromFile, NoFault, measured, Same
  <2>2. state' \in {"normal", "uninit"}
    BY <1>2 DEF FromFile
  <2> QED
    BY <1>2, <2>1, <2>2 DEF Types, Fine, Tabled, NeverForgotten
<1>3. CASE NoTable(st, armed)
  <2>1. st # "detect" /\ UNCHANGED <<initial, rpm, pwm, faults, attempts, stuck>>
        /\ timer' = armed /\ state' = "normal"
    BY <1>3 DEF NoTable, NoFault, measured, Same, Tabled
  <2> QED
    BY <2>1 DEF Types, Fine, Tabled, NeverForgotten
<1>4. CASE st = "init" /\ Begins(armed)
  <2>1. /\ pwm' \in [Fans -> {"off", "low", "full"}]
        /\ initial' \in [Fans -> {"off", "low", "full"}]
        /\ rpm' \in [Fans -> Tacho]
        /\ faults' \in Nat
        /\ ~ stuck /\ faults' = faults =>
             \A f \in Fans : initial'[f] = "low" /\ (rpm'[f] = "zero" => pwm'[f] = "low")
    BY <1>4, AtRestIsRight DEF Begins, Fine
  <2>0. Waits("detect", armed)
    BY <1>4 DEF Begins
  <2>2. state' \in {"detect", "normal"} /\ (state' = "detect" => timer')
        /\ timer' \in BOOLEAN /\ attempts' \in Nat
    <3>1. attempts' \in Nat
      BY <2>0 DEF Waits, Types
    <3>2. CASE attempts' > MaxAttempts
      BY <2>0, <3>1, <3>2 DEF Waits
    <3>3. CASE ~ (attempts' > MaxAttempts)
      BY <2>0, <3>1, <3>3 DEF Waits
    <3> QED
      BY <3>1, <3>2, <3>3
  <2>3. stuck' = (stuck \/ state' = "normal" \/ faults' # faults) /\ table
    BY <1>4 DEF Begins
  <2>4. Types'
    BY <2>1, <2>2, <2>3 DEF Types
  <2>5. Fine(state)'
    BY <2>1, <2>2, <2>3 DEF Fine
  <2> QED
    BY <1>0, <2>2, <2>3, <2>4, <2>5 DEF NeverForgotten, Tabled
<1>5. CASE st = "detect" /\ Finishes(armed)
  <2>1. /\ pwm' \in [Fans -> {"off", "low", "full"}]
        /\ initial' \in [Fans -> {"off", "low", "full"}]
        /\ rpm' \in [Fans -> Tacho]
        /\ faults' \in Nat
        /\ ~ stuck /\ faults' = faults => \A f \in Fans : pwm'[f] = "low"
    BY <1>5, AtFullIsRight DEF Finishes
  <2>2. state' = "normal" /\ timer' = armed /\ attempts' = attempts
    BY <1>5 DEF Finishes, Same
  <2>3. stuck' = (stuck \/ faults' # faults)
    BY <1>5 DEF Finishes
  <2>4. Types'
    BY <2>1, <2>2, <2>3 DEF Types
  <2>5. Fine(state)'
    BY <2>1, <2>2, <2>3 DEF Fine
  <2> QED
    BY <1>0, <2>2, <2>4, <2>5 DEF NeverForgotten, Tabled
<1> QED
  BY <1>1, <1>2, <1>3, <1>4, <1>5 DEF Process

\* runDetectFans() in a scan
LEMMA RunDetectFansIsRight ==
  ASSUME FanInv, NEW known, RunDetectFans(known)
  PROVE  FanInv'
<1>1. CASE state = "uninit"
  <2> DEFINE st == IF on THEN "init" ELSE "uninit"
  <2>1. Process(st, timer, known)
    BY <1>1 DEF RunDetectFans
  <2>2. st \in {"uninit", "init", "detect"} /\ Fine(st) /\ Tabled(st) /\ timer \in BOOLEAN
    BY <1>1 DEF FanInv, Types, Fine, Tabled
  <2> HIDE DEF st
  <2> QED
    BY <2>1, <2>2, ProcessIsRight
<1>2. CASE state # "uninit"
  BY <1>2 DEF RunDetectFans, detection, measured, names, FanInv, Types, Fine, Tabled, NeverForgotten
<1> QED
  BY <1>1, <1>2

\* A step that has nothing to do with the fans.
LEMMA OtherIsRight ==
  ASSUME FanInv, UNCHANGED fanVars, faults' \in Nat, attempts' \in Nat
  PROVE  FanInv'
  BY DEF FanInv, fanVars, Types, Fine, Tabled, NeverForgotten

LEMMA NextFanInv == FanInv /\ [Next]_vars => FanInv'
<1> SUFFICES ASSUME FanInv, [Next]_vars PROVE FanInv'
  OBVIOUS
<1>0. faults \in Nat /\ attempts \in Nat
  BY DEF FanInv, Types
<1> USE DEF detection, measured, names, machine, speeds, fanVars
<1>1. CASE Scan
  BY <1>1, RunDetectFansIsRight DEF Scan, Scanned
<1>2. CASE Timer
  <2>1. CASE state = "normal"
    <3>1. Types'
      BY <1>2, <2>1 DEF Timer, FanInv, Types
    <3> QED
      BY <1>2, <2>1, <3>1 DEF Timer, FanInv, Fine, Tabled, NeverForgotten
  <2>2. CASE state # "normal"
    <3>1. Process(state, FALSE, config.known)
      BY <1>2, <2>2 DEF Timer
    <3> QED
      BY <2>2, <3>1, ProcessIsRight DEF FanInv, Types
  <2> QED
    BY <2>1, <2>2
<1>3. CASE Restart
  <2>1. /\ pwm' = pwm /\ state' = "uninit" /\ timer' = FALSE /\ table' = table
        /\ stuck' = (stuck \/ state = "detect")
        /\ faults' \in Nat /\ attempts' = 0
    BY <1>0, <1>3 DEF Restart, Faulty
  <2>2. initial' \in [Fans -> {"off", "low", "full"}] /\ rpm' \in [Fans -> Tacho]
    BY <1>3 DEF Restart, Tacho
  <2> QED
    BY <2>1, <2>2 DEF FanInv, Types, Fine, Tabled, NeverForgotten
<1>4. CASE PowerSignal
  BY <1>0, <1>4, OtherIsRight DEF PowerSignal
<1>5. CASE ScanFails \/ SpeedFails
  BY <1>0, <1>5, OtherIsRight DEF ScanFails, SpeedFails, Faulty
<1>6. CASE InventorySignal \/ SpeedTimer
  BY <1>0, <1>6, OtherIsRight DEF InventorySignal, SpeedTimer
<1>7. ASSUME NEW z \in Zones, GetSpeed(z) \/ SetSpeed(z) PROVE FanInv'
  BY <1>0, <1>7, OtherIsRight DEF GetSpeed, SetSpeed
<1>8. CASE HostSwitches \/ Spun \/ FruChanges
  BY <1>0, <1>8, OtherIsRight DEF HostSwitches, Spun, FruChanges
<1>9. ASSUME NEW z \in Zones, NEW v \in Speed, ZoneChanges(z, v) PROVE FanInv'
  BY <1>0, <1>9, OtherIsRight DEF ZoneChanges
<1>10. CASE UNCHANGED vars
  BY <1>0, <1>10, OtherIsRight DEF vars
<1> QED
  BY <1>1, <1>2, <1>3, <1>4, <1>5, <1>6, <1>7, <1>8, <1>9, <1>10 DEF Next, Handler

LEMMA FanInductive == Spec => []FanInv
  BY InitFanInv, NextFanInv, PTL DEF Spec

-----------------------------------------------------------------------------
\* The detection sets every fan back, however many there are, whatever the host
\* and the FRU did meanwhile, unless it was cut off or a transfer failed.
THEOREM FansAreSetBack == Spec => []PwmRestored
<1>1. FanInv => PwmRestored
  BY DEF FanInv, Fine, PwmRestored
<1> QED
  BY <1>1, FanInductive, PTL

\* A detection that was begun always has its timer.
THEOREM DetectionHasTimer == Spec => []NeverForgotten
  BY FanInductive, PTL DEF FanInv
-----------------------------------------------------------------------------
(* What is published *)

\* The types of the detection; its attempts have not run out before it ends.
DetectionTypes ==
  /\ host \in BOOLEAN /\ spun \in BOOLEAN /\ table \in BOOLEAN /\ have \in BOOLEAN
  /\ kind \in [Fans -> Part \cup {"other"}]
  /\ pwm \in [Fans -> {"off", "low", "full"}] /\ initial \in [Fans -> {"off", "low", "full"}]
  /\ rpm \in [Fans -> Tacho]
  /\ state \in {"uninit", "init", "detect", "normal"} /\ timer \in BOOLEAN
  /\ attempts \in 0 .. MaxAttempts + 1 /\ (state # "normal" => attempts <= MaxAttempts)
  /\ file \in [Fans -> Part \cup {"default", None}] \cup {None}
  /\ part \in [Fans -> Part \cup {"default", None}]
  /\ shown \in [Fans -> Part \cup {"default"}] \cup {None}
  /\ calm \in BOOLEAN /\ stuck \in BOOLEAN /\ gaveUp \in BOOLEAN
  /\ faults \in 0 .. MaxFaults

\* An undisturbed detection finds all fans turning at full speed.
Undisturbed ==
  calm => /\ state \in {"detect", "normal"}
          /\ state = "detect" =>
               host /\ spun /\ \A f \in Fans : pwm[f] = "full" /\ rpm[f] # "zero"

ShownInv == DetectionTypes /\ Undisturbed /\ Identified /\ FansShown

LEMMA HwmonTypes ==
  ASSUME DetectionTypes, NEW unread, NEW unset, Hwmon(unread, unset)
  PROVE  /\ faults' \in 0 .. MaxFaults
         /\ faults' = faults => unread = {} /\ unset = {}
  BY DEF DetectionTypes, Hwmon, NoFault, Faulty

LEMMA InitShownInv == Init => ShownInv
<1> SUFFICES ASSUME Init PROVE ShownInv
  OBVIOUS
<1>1. DetectionTypes
  <2>1. rpm \in [Fans -> Tacho] /\ part \in [Fans -> Part \cup {"default", None}]
        /\ pwm \in [Fans -> {"off", "low", "full"}] /\ initial \in [Fans -> {"off", "low", "full"}]
    BY DEF Init, Tacho
  <2>2. /\ host \in BOOLEAN /\ spun \in BOOLEAN /\ table \in BOOLEAN /\ have \in BOOLEAN
        /\ kind \in [Fans -> Part \cup {"other"}]
        /\ state = "uninit" /\ timer \in BOOLEAN
    BY DEF Init
  <2>3. attempts = 0 /\ faults = 0 /\ file = None /\ shown = None
    BY DEF Init
  <2>4. calm \in BOOLEAN /\ stuck \in BOOLEAN /\ gaveUp \in BOOLEAN
    BY DEF Init
  <2> QED
    BY <2>1, <2>2, <2>3, <2>4 DEF DetectionTypes
<1> QED
  BY <1>1 DEF Init, ShownInv, Undisturbed, Identified, FansShown

\* What publishSystemFans() leaves.
LEMMA PublishIsRight ==
  ASSUME NEW parts \in [Fans -> Part \cup {"default", None}], Publish(parts)
  PROVE  /\ part' = parts /\ file' = parts /\ have' = TRUE
         /\ shown' \in [Fans -> Part \cup {"default"}] /\ shown' # None
         /\ \A f \in Fans : parts[f] # None => shown'[f] = parts[f]
<1>1. \A f \in Fans : (IF parts[f] = None THEN "default" ELSE parts[f]) \in Part \cup {"default"}
  OBVIOUS
<1>2. shown' \in [Fans -> Part \cup {"default"}]
  BY <1>1 DEF Publish
<1> QED
  BY <1>2, NoneAssumption DEF Publish

LEMMA WaitsTypes ==
  ASSUME attempts \in 0 .. MaxAttempts, gaveUp \in BOOLEAN, NEW st \in {"uninit", "init", "detect"},
         NEW armed \in BOOLEAN, Waits(st, armed)
  PROVE  /\ attempts' \in 0 .. MaxAttempts + 1 /\ timer' \in BOOLEAN /\ gaveUp' \in BOOLEAN
         /\ \/ state' = st /\ attempts' <= MaxAttempts
            \/ state' = "normal" /\ gaveUp' = TRUE
<1>1. attempts' = attempts + 1 /\ attempts' \in 0 .. MaxAttempts + 1
  BY DEF Waits
<1>2. CASE attempts' > MaxAttempts
  BY <1>1, <1>2 DEF Waits
<1>3. CASE ~ (attempts' > MaxAttempts)
  BY <1>1, <1>3 DEF Waits
<1> QED
  BY <1>1, <1>2, <1>3

\* Fans that are on turn, if the host runs, and all of them go to full speed.
LEMMA AtRestMeasures ==
  ASSUME DetectionTypes, AtRest
  PROVE  /\ pwm' \in [Fans -> {"off", "low", "full"}]
         /\ initial' \in [Fans -> {"off", "low", "full"}]
         /\ rpm' \in [Fans -> Tacho]
         /\ faults' \in 0 .. MaxFaults
         /\ faults' = faults /\ host /\ spun /\ (\A f \in Fans : pwm[f] # "off") =>
              \A f \in Fans : pwm'[f] = "full" /\ rpm'[f] # "zero"
<1>1. PICK r \in [Fans -> Tacho], unread \in SUBSET Fans, unknown \in SUBSET Fans,
           unset \in SUBSET Fans :
        /\ Hwmon(unread \cup unknown, unset)
        /\ Readings(r, Fans, unread)
        /\ rpm' = r
        /\ initial' = [f \in Fans |-> IF f \in unknown THEN "off" ELSE pwm[f]]
        /\ pwm' = [f \in Fans |-> IF r[f] # "zero" /\ f \notin unset THEN "full" ELSE pwm[f]]
  BY DEF AtRest
<1>2. faults' \in 0 .. MaxFaults /\ (faults' = faults => unread \cup unknown = {} /\ unset = {})
  BY <1>1, HwmonTypes
<1>3. pwm' \in [Fans -> {"off", "low", "full"}] /\ initial' \in [Fans -> {"off", "low", "full"}]
  BY <1>1 DEF DetectionTypes
<1>4. ASSUME faults' = faults, host, spun, \A f \in Fans : pwm[f] # "off", NEW f \in Fans
      PROVE  pwm'[f] = "full" /\ rpm'[f] # "zero"
  <2>1. pwm[f] \in {"low", "full"} /\ kind[f] \in Part \cup {"other"}
    BY <1>4 DEF DetectionTypes
  <2>2. "zero" \notin Reads(f)
    BY <1>4, <2>1 DEF Reads, Part
  <2>3. r[f] \in Reads(f)
    BY <1>1, <1>2, <1>4 DEF Readings
  <2> QED
    BY <1>1, <1>2, <1>4, <2>2, <2>3
<1> QED
  BY <1>1, <1>2, <1>3, <1>4

\* Fans at full speed show what they are.
LEMMA AtFullMeasures ==
  ASSUME DetectionTypes, AtFull
  PROVE  /\ pwm' \in [Fans -> {"off", "low", "full"}]
         /\ initial' \in [Fans -> {"off", "low", "full"}]
         /\ rpm' \in [Fans -> Tacho]
         /\ faults' \in 0 .. MaxFaults
         /\ /\ faults' = faults /\ host /\ spun
            /\ \A f \in Fans : pwm[f] = "full" /\ rpm[f] # "zero"
            => \A f \in Fans : rpm'[f] = IF kind[f] \in Part THEN kind[f] ELSE "odd"
<1>1. PICK r \in [Fans -> Tacho], unread \in SUBSET Fans, unset \in SUBSET Fans :
        /\ Hwmon(unread, unset)
        /\ Readings(r, Turned, unread)
        /\ rpm' = [f \in Fans |-> IF f \in Turned THEN r[f] ELSE "zero"]
        /\ pwm' = [f \in Fans |-> IF f \in Turned \ unset THEN initial[f] ELSE pwm[f]]
        /\ UNCHANGED initial
  BY DEF AtFull
<1>2. faults' \in 0 .. MaxFaults /\ (faults' = faults => unread = {})
  BY <1>1, HwmonTypes
<1>3. pwm' \in [Fans -> {"off", "low", "full"}] /\ initial' \in [Fans -> {"off", "low", "full"}]
  BY <1>1 DEF DetectionTypes
<1>4. rpm' \in [Fans -> Tacho]
  BY <1>1 DEF Tacho
<1>5. ASSUME faults' = faults, host, spun, NEW f \in Fans, pwm[f] = "full", rpm[f] # "zero"
      PROVE  rpm'[f] = IF kind[f] \in Part THEN kind[f] ELSE "odd"
  <2>1. f \in Turned
    BY <1>5 DEF Turned
  <2>2. r[f] \in Reads(f) /\ rpm'[f] = r[f]
    BY <1>1, <1>2, <1>5, <2>1 DEF Readings
  <2>3. Reads(f) = {IF kind[f] \in Part THEN kind[f] ELSE "odd"}
    BY <1>5 DEF Reads
  <2> QED
    BY <2>2, <2>3
<1> QED
  BY <1>2, <1>3, <1>4, <1>5

\* processDetectState(), if the detection is not over.
LEMMA ProcessShows ==
  ASSUME ShownInv, state # "normal", NEW st \in {"uninit", "init", "detect"},
         st = "detect" <=> state = "detect",
         NEW armed \in BOOLEAN, NEW known, Process(st, armed, known),
         UNCHANGED <<host, spun, kind>>
  PROVE  ShownInv'
<1> USE DEF ShownInv
<1>0. table' = table /\ attempts \in 0 .. MaxAttempts /\ (st # "detect" => ~ calm)
  BY DEF Process, DetectionTypes, Undisturbed
<1>1. CASE NoProduct(st, armed)
  <2>1. Waits(st, armed)
    BY <1>1 DEF NoProduct
  <2>2. /\ attempts' \in 0 .. MaxAttempts + 1 /\ timer' \in BOOLEAN /\ gaveUp' \in BOOLEAN
        /\ \/ state' = st /\ attempts' <= MaxAttempts
           \/ state' = "normal" /\ gaveUp' = TRUE
    BY <1>0, <2>1, WaitsTypes DEF DetectionTypes
  <2>3. /\ UNCHANGED <<faults, initial, rpm, have, part, shown, file, pwm>>
        /\ calm' = (calm /\ state' = st) /\ stuck' \in BOOLEAN
    BY <1>1 DEF NoProduct, NoFault, measured, names
  <2>4. DetectionTypes'
    BY <1>0, <2>2, <2>3 DEF DetectionTypes
  <2>5. Undisturbed' /\ Identified' /\ FansShown'
    BY <1>0, <2>2, <2>3 DEF Undisturbed, Identified, FansShown
  <2> QED
    BY <2>4, <2>5
<1>2. CASE st = "uninit" /\ FromFile(armed)
  <2>1. UNCHANGED <<faults, attempts, gaveUp, initial, rpm, pwm, calm, stuck>> /\ timer' = armed
    BY <1>2 DEF FromFile, Same, NoFault, measured
  <2>2. ~ calm'
    BY <1>0, <1>2, <2>1
  <2>3. CASE have
    <3>1. state' = "normal" /\ Publish(part)
      BY <1>2, <2>3 DEF FromFile
    <3>2. /\ part' = part /\ file' = part /\ have' = TRUE
          /\ shown' \in [Fans -> Part \cup {"default"}] /\ shown' # None
      BY <3>1, PublishIsRight DEF DetectionTypes
    <3>3. DetectionTypes'
      BY <1>0, <2>1, <3>1, <3>2 DEF DetectionTypes
    <3> QED
      BY <2>2, <3>1, <3>2, <3>3 DEF Undisturbed, Identified, FansShown
  <2>4. CASE ~ have
    <3>1. state' = "uninit" /\ UNCHANGED <<have, part, shown, file>>
      BY <1>2, <2>4 DEF FromFile, names
    <3>2. DetectionTypes'
      BY <1>0, <2>1, <3>1 DEF DetectionTypes
    <3> QED
      BY <2>2, <3>1, <3>2 DEF Undisturbed, Identified, FansShown
  <2> QED
    BY <2>3, <2>4
<1>3. CASE NoTable(st, armed)
  <2>1. /\ UNCHANGED <<faults, attempts, gaveUp, initial, rpm, pwm, stuck>> /\ timer' = armed
        /\ state' = "normal" /\ calm' = FALSE /\ Publish(part)
    BY <1>3 DEF NoTable, Same, NoFault, measured
  <2>2. /\ part' = part /\ file' = part /\ have' = TRUE
        /\ shown' \in [Fans -> Part \cup {"default"}] /\ shown' # None
    BY <2>1, PublishIsRight DEF DetectionTypes
  <2>3. DetectionTypes'
    BY <1>0, <2>1, <2>2 DEF DetectionTypes
  <2> QED
    BY <2>1, <2>2, <2>3 DEF Undisturbed, Identified, FansShown
<1>4. CASE st = "init" /\ Begins(armed)
  <2>1. /\ AtRest /\ Waits("detect", armed)
        /\ IF state' = "normal" THEN Publish(part)
                                ELSE have' = TRUE /\ UNCHANGED <<part, shown, file>>
        /\ stuck' = (stuck \/ state' = "normal" \/ faults' # faults)
        /\ calm' = (state' = "detect" /\ host /\ spun /\ faults' = faults
                      /\ \A f \in Fans : pwm[f] # "off")
    BY <1>4 DEF Begins
  <2>2. /\ attempts' \in 0 .. MaxAttempts + 1 /\ timer' \in BOOLEAN /\ gaveUp' \in BOOLEAN
        /\ \/ state' = "detect" /\ attempts' <= MaxAttempts
           \/ state' = "normal" /\ gaveUp' = TRUE
    BY <1>0, <2>1, WaitsTypes DEF DetectionTypes
  <2>3. /\ part' = part /\ have' = TRUE
        /\ file' \in [Fans -> Part \cup {"default", None}] \cup {None}
        /\ shown' \in [Fans -> Part \cup {"default"}] \cup {None}
        /\ state' = "normal" => shown' # None /\ file' = part'
    BY <2>1, PublishIsRight DEF DetectionTypes
  <2>4. /\ pwm' \in [Fans -> {"off", "low", "full"}]
        /\ initial' \in [Fans -> {"off", "low", "full"}]
        /\ rpm' \in [Fans -> Tacho]
        /\ faults' \in 0 .. MaxFaults
        /\ calm' => \A f \in Fans : pwm'[f] = "full" /\ rpm'[f] # "zero"
    BY <2>1, AtRestMeasures
  <2>5. DetectionTypes'
    BY <1>0, <2>1, <2>2, <2>3, <2>4 DEF DetectionTypes
  <2>6. Undisturbed' /\ Identified' /\ FansShown'
    BY <2>1, <2>2, <2>3, <2>4 DEF Undisturbed, Identified, FansShown
  <2> QED
    BY <2>5, <2>6
<1>5. CASE st = "detect" /\ Finishes(armed)
  <2> DEFINE parts == [f \in Fans |-> IF rpm'[f] \in Part THEN rpm'[f] ELSE "default"]
  <2>1. /\ AtFull /\ Publish(parts)
        /\ state' = "normal" /\ timer' = armed /\ UNCHANGED <<attempts, gaveUp>>
        /\ calm' = (calm /\ faults' = faults) /\ stuck' \in BOOLEAN
    BY <1>5 DEF Finishes, Same
  <2>2. /\ pwm' \in [Fans -> {"off", "low", "full"}]
        /\ initial' \in [Fans -> {"off", "low", "full"}]
        /\ rpm' \in [Fans -> Tacho]
        /\ faults' \in 0 .. MaxFaults
        /\ calm' => \A f \in Fans : rpm'[f] = IF kind[f] \in Part THEN kind[f] ELSE "odd"
    BY <1>5, <2>1, AtFullMeasures DEF Undisturbed
  <2>3. /\ parts \in [Fans -> Part \cup {"default", None}]
        /\ \A f \in Fans : parts[f] # None /\ parts[f] \in Part \cup {"default"}
    BY NoneAssumption
  <2>4. \A f \in Fans : parts[f] = IF rpm'[f] \in Part THEN rpm'[f] ELSE "default"
    OBVIOUS
  <2> HIDE DEF parts
  <2>5. /\ part' = parts /\ file' = parts /\ have' = TRUE
        /\ shown' \in [Fans -> Part \cup {"default"}] /\ shown' # None
        /\ \A f \in Fans : shown'[f] = parts[f]
    BY <2>1, <2>3, PublishIsRight
  <2>6. DetectionTypes'
    BY <1>0, <2>1, <2>2, <2>3, <2>5 DEF DetectionTypes
  <2>7. Identified'
    <3> SUFFICES ASSUME calm', NEW f \in Fans
                 PROVE  shown'[f] = IF kind[f] \in Part THEN kind[f] ELSE "default"
      BY DEF Identified
    <3>1. rpm'[f] = IF kind[f] \in Part THEN kind[f] ELSE "odd"
      BY <2>2
    <3> QED
      BY <2>4, <2>5, <3>1 DEF Part
  <2>8. Undisturbed' /\ FansShown'
    BY <2>1, <2>5 DEF Undisturbed, FansShown
  <2> QED
    BY <2>6, <2>7, <2>8
<1> QED
  BY <1>1, <1>2, <1>3, <1>4, <1>5 DEF Process

\* What ShownInv is about.
detectVars ==
  <<host, spun, kind, file, pwm, state, attempts, timer, table, have, part, initial, rpm, shown,
    calm, stuck, gaveUp>>

\* A step that has nothing to do with the detection.
LEMMA OthersShow ==
  ASSUME ShownInv, UNCHANGED detectVars, faults' \in 0 .. MaxFaults
  PROVE  ShownInv'
  BY DEF ShownInv, detectVars, DetectionTypes, Undisturbed, Identified, FansShown

LEMMA RunDetectFansShows ==
  ASSUME ShownInv, NEW known, RunDetectFans(known), UNCHANGED <<host, spun, kind>>
  PROVE  ShownInv'
<1>1. CASE state = "uninit"
  <2> DEFINE st == IF on THEN "init" ELSE "uninit"
  <2>1. Process(st, timer, known)
    BY <1>1 DEF RunDetectFans
  <2>2. st \in {"uninit", "init", "detect"} /\ st # "detect" /\ timer \in BOOLEAN
    BY DEF ShownInv, DetectionTypes
  <2> HIDE DEF st
  <2> QED
    BY <1>1, <2>1, <2>2, ProcessShows
<1>2. CASE state # "uninit"
  <2>1. UNCHANGED <<detection, faults>>
    BY <1>2 DEF RunDetectFans
  <2> QED
    BY <2>1, OthersShow DEF detection, measured, names, detectVars, ShownInv, DetectionTypes
<1> QED
  BY <1>1, <1>2

LEMMA NextShownInv == ShownInv /\ [Next]_vars => ShownInv'
<1> SUFFICES ASSUME ShownInv, [Next]_vars PROVE ShownInv'
  OBVIOUS
<1>0. faults \in 0 .. MaxFaults
  BY DEF ShownInv, DetectionTypes
<1> USE DEF detection, measured, names, machine, speeds, detectVars
<1>1. CASE Scan
  BY <1>1, RunDetectFansShows DEF Scan, Scanned
<1>2. CASE Timer
  <2>0. UNCHANGED <<host, spun, kind>>
    BY <1>2 DEF Timer
  <2>1. CASE state = "normal"
    BY <1>2, <2>0, <2>1 DEF Timer, ShownInv, DetectionTypes, Undisturbed, Identified, FansShown
  <2>2. CASE state # "normal"
    <3>1. Process(state, FALSE, config.known)
      BY <1>2, <2>2 DEF Timer
    <3>2. state \in {"uninit", "init", "detect"}
      BY <2>2 DEF ShownInv, DetectionTypes
    <3> QED
      BY <2>0, <2>2, <3>1, <3>2, ProcessShows
  <2> QED
    BY <2>1, <2>2
<1>3. CASE Restart
  <2>1. /\ UNCHANGED <<host, spun, kind, pwm, file, table>>
        /\ state' = "uninit" /\ attempts' = 0 /\ timer' = FALSE
        /\ faults' \in 0 .. MaxFaults
    BY <1>0, <1>3 DEF Restart, Faulty
  <2>2. /\ have' \in BOOLEAN /\ shown' = None
        /\ calm' = FALSE /\ gaveUp' = FALSE /\ stuck' \in BOOLEAN
    BY <1>3 DEF Restart
  <2>3. initial' \in [Fans -> {"off", "low", "full"}] /\ rpm' \in [Fans -> Tacho]
    BY <1>3 DEF Restart, Tacho
  <2>4. part' \in [Fans -> Part \cup {"default", None}]
    BY <1>3 DEF Restart, ShownInv, DetectionTypes
  <2>5. DetectionTypes'
    <3>1. /\ (host \in BOOLEAN)' /\ (spun \in BOOLEAN)' /\ (table \in BOOLEAN)'
          /\ (kind \in [Fans -> Part \cup {"other"}])'
          /\ (pwm \in [Fans -> {"off", "low", "full"}])'
          /\ (file \in [Fans -> Part \cup {"default", None}] \cup {None})'
      BY <2>1 DEF ShownInv, DetectionTypes
    <3>2. (attempts \in 0 .. MaxAttempts + 1 /\ (state # "normal" => attempts <= MaxAttempts))'
      BY <2>1
    <3> QED
      BY <2>1, <2>2, <2>3, <2>4, <3>1, <3>2 DEF DetectionTypes
  <2>6. Undisturbed' /\ Identified' /\ FansShown'
    BY <2>1, <2>2 DEF Undisturbed, Identified, FansShown
  <2> QED
    BY <2>5, <2>6 DEF ShownInv
<1>4. CASE PowerSignal
  <2>1. attempts' \in {0, attempts}
    BY <1>4 DEF PowerSignal
  <2>2. /\ UNCHANGED <<host, spun, kind, file, pwm, state, timer, table, have, part, initial, rpm,
                       shown, calm, stuck, gaveUp, faults>>
    BY <1>4 DEF PowerSignal
  <2>3. DetectionTypes'
    BY <2>1, <2>2 DEF ShownInv, DetectionTypes
  <2> QED
    BY <2>2, <2>3 DEF ShownInv, Undisturbed, Identified, FansShown
<1>5. CASE ScanFails \/ SpeedFails
  BY <1>0, <1>5, OthersShow DEF ScanFails, SpeedFails, Faulty
<1>6. CASE InventorySignal \/ SpeedTimer
  BY <1>0, <1>6, OthersShow DEF InventorySignal, SpeedTimer
<1>7. ASSUME NEW z \in Zones, GetSpeed(z) \/ SetSpeed(z) PROVE ShownInv'
  BY <1>0, <1>7, OthersShow DEF GetSpeed, SetSpeed
<1>8. CASE HostSwitches
  <2>1. /\ host' \in BOOLEAN /\ spun' = FALSE /\ calm' = FALSE
        /\ UNCHANGED <<kind, file, pwm, state, attempts, timer, table, have, part, initial, rpm,
                       shown, stuck, gaveUp, faults>>
    BY <1>8 DEF HostSwitches, ShownInv, DetectionTypes
  <2> QED
    BY <2>1 DEF ShownInv, DetectionTypes, Undisturbed, Identified, FansShown
<1>9. CASE Spun
  <2>1. /\ spun' = TRUE
        /\ UNCHANGED <<host, kind, file, pwm, state, attempts, timer, table, have, part, initial,
                       rpm, shown, calm, stuck, gaveUp, faults>>
    BY <1>9 DEF Spun
  <2> QED
    BY <2>1 DEF ShownInv, DetectionTypes, Undisturbed, Identified, FansShown
<1>10. CASE FruChanges
  BY <1>0, <1>10, OthersShow DEF FruChanges
<1>11. ASSUME NEW z \in Zones, NEW v \in Speed, ZoneChanges(z, v) PROVE ShownInv'
  BY <1>0, <1>11, OthersShow DEF ZoneChanges
<1>12. CASE UNCHANGED vars
  BY <1>0, <1>12, OthersShow DEF vars
<1> QED
  BY <1>1, <1>2, <1>3, <1>4, <1>5, <1>6, <1>7, <1>8, <1>9, <1>10, <1>11, <1>12 DEF Next, Handler

LEMMA ShownInductive == Spec => []ShownInv
  BY InitShownInv, NextShownInv, PTL DEF Spec

-----------------------------------------------------------------------------
\* An undisturbed detection tells every module, of any number of fans, whatever
\* happened before it: only a fan at PWM 0 is not measured.
THEOREM FansAreIdentified == Spec => []Identified
  BY ShownInductive, PTL DEF ShownInv

\* When the detection is over the system fans are published and saved, whichever
\* of its ends it came to, except that of the attempts.
THEOREM FansAreShown == Spec => []FansShown
  BY ShownInductive, PTL DEF ShownInv

-----------------------------------------------------------------------------
(* Types *)

\* The types of the rest.
ControlTypes ==
  /\ on \in BOOLEAN /\ signals \in Seq(BOOLEAN)
  /\ fru \in Config \cup {None} /\ config \in Config /\ active \in Config \cup {None}
  /\ zone \in [Zones -> Speed] /\ scan \in BOOLEAN
  /\ pid \in BOOLEAN /\ todo \subseteq Zones /\ low \in todo \cup {None}
  /\ changes \in 0 .. MaxChanges /\ missed \in BOOLEAN

LEMMA NothingType == Nothing \in Config
  BY DEF Nothing, Config, Speed

LEMMA InitControl == Init => ControlTypes
<1> SUFFICES ASSUME Init PROVE ControlTypes
  OBVIOUS
<1>1. zone \in [Zones -> Speed] /\ 0 \in 0 .. MaxChanges
  BY DEF Init, Speed
<1>2. config \in Config
  BY NothingType DEF Init
<1>3. host \in BOOLEAN /\ on \in {host, FALSE}
  BY DEF Init
<1>4. on \in BOOLEAN
  BY <1>3
<1>5. signals = <<>> /\ fru = None /\ active = None /\ scan = TRUE /\ pid = FALSE /\ todo = {}
      /\ low = None /\ changes = 0 /\ missed = FALSE
  BY DEF Init
<1>6. signals \in Seq(BOOLEAN) /\ todo \subseteq Zones
  BY <1>5
<1>7. scan \in BOOLEAN /\ pid \in BOOLEAN /\ missed \in BOOLEAN
  BY <1>5
<1> QED
  BY <1>1, <1>2, <1>4, <1>5, <1>6, <1>7, Zenon DEF ControlTypes

\* Exposing a configuration, read or as it was.
LEMMA ExposeTypes ==
  ASSUME ControlTypes, NEW conf2 \in Config, Expose(conf2)
  PROVE  active' \in Config \cup {None} /\ pid' \in BOOLEAN
  BY DEF ControlTypes, Expose

LEMMA NextControl == ControlTypes /\ ShownInv /\ [Next]_vars => ControlTypes'
<1> SUFFICES ASSUME ControlTypes, ShownInv, [Next]_vars PROVE ControlTypes'
  OBVIOUS
<1> USE DEF machine, power, conf, speeds
<1>0. host \in BOOLEAN /\ \A c \in Config, z \in Zones : c.min[z] \in Speed
  BY DEF ShownInv, DetectionTypes, Config
<1>1. CASE Scan
  <2> DEFINE conf2 == IF fru = None THEN config ELSE fru
  <2>1. conf2 \in Config
    BY DEF ControlTypes
  <2>2. config' = conf2 /\ scan' = FALSE /\ Expose(conf2)
        /\ UNCHANGED <<fru, zone, on, signals, todo, low, missed, changes>>
    BY <1>1 DEF Scan, Scanned
  <2> HIDE DEF conf2
  <2>3. active' \in Config \cup {None} /\ pid' \in BOOLEAN
    BY <2>1, <2>2, ExposeTypes
  <2> QED
    BY <2>1, <2>2, <2>3 DEF ControlTypes
<1>2. CASE ScanFails
  <2>1. config' \in Config
    BY <1>2 DEF ScanFails, ControlTypes
  <2> QED
    BY <1>2, <2>1 DEF ScanFails, ControlTypes
<1>3. CASE InventorySignal
  BY <1>3 DEF InventorySignal, ControlTypes
<1>4. CASE Timer
  BY <1>4 DEF Timer, ControlTypes
<1>5. CASE PowerSignal
  <2>1. on' \in BOOLEAN /\ signals' \in Seq(BOOLEAN)
    BY <1>5 DEF PowerSignal, ControlTypes
  <2> QED
    BY <1>5, <2>1 DEF PowerSignal, ControlTypes
<1>6. CASE SpeedTimer
  <2>1. low' = None /\ todo' \subseteq Zones /\ pid' = FALSE
    BY <1>6 DEF SpeedTimer, Ready, ControlTypes
  <2>2. missed' \in BOOLEAN
    BY <1>6 DEF SpeedTimer, Over, ControlTypes
  <2> QED
    BY <1>6, <2>1, <2>2 DEF SpeedTimer, ControlTypes
<1>7. ASSUME NEW z \in Zones, GetSpeed(z) PROVE ControlTypes'
  <2>1. z \in todo /\ low = None
    BY <1>7 DEF GetSpeed
  <2>2. UNCHANGED <<fru, config, active, zone, scan, on, signals, pid, changes>>
    BY <1>7 DEF GetSpeed
  <2>3. CASE zone[z] >= config.min[z]
    <3>1. todo' = todo \ {z} /\ low' = None /\ Over(todo')
      BY <1>7, <2>1, <2>3 DEF GetSpeed
    <3>2. missed' \in BOOLEAN
      BY <3>1 DEF Over, ControlTypes
    <3> QED
      BY <2>2, <3>1, <3>2 DEF ControlTypes
  <2>4. CASE ~ (zone[z] >= config.min[z])
    <3>1. low' = z /\ UNCHANGED <<todo, missed>>
      BY <1>7, <2>4 DEF GetSpeed
    <3> QED
      BY <2>1, <2>2, <3>1 DEF ControlTypes
  <2> QED
    BY <2>3, <2>4
<1>8. ASSUME NEW z \in Zones, SetSpeed(z) PROVE ControlTypes'
  <2>1. zone' \in [Zones -> Speed]
    BY <1>0, <1>8 DEF SetSpeed, ControlTypes
  <2>2. todo' \subseteq Zones /\ low' = None /\ missed' \in BOOLEAN /\ pid' = TRUE
    BY <1>8 DEF SetSpeed, Over, ControlTypes
  <2> QED
    BY <1>8, <2>1, <2>2 DEF SetSpeed, ControlTypes
<1>9. CASE SpeedFails
  BY <1>9 DEF SpeedFails, ControlTypes
<1>10. CASE HostSwitches
  <2>1. signals' \in Seq(BOOLEAN) /\ changes' \in 0 .. MaxChanges
    BY <1>0, <1>10 DEF HostSwitches, Changed, ControlTypes
  <2> QED
    BY <1>10, <2>1 DEF HostSwitches, ControlTypes
<1>11. CASE Spun
  BY <1>11 DEF Spun, ControlTypes
<1>12. CASE FruChanges
  <2>1. changes' \in 0 .. MaxChanges
    BY <1>12 DEF FruChanges, Changed, ControlTypes
  <2> QED
    BY <1>12, <2>1 DEF FruChanges, ControlTypes
<1>13. ASSUME NEW z \in Zones, NEW v \in Speed, ZoneChanges(z, v) PROVE ControlTypes'
  <2>1. changes' \in 0 .. MaxChanges /\ zone' \in [Zones -> Speed] /\ pid' \in BOOLEAN
    BY <1>13 DEF ZoneChanges, Changed, ControlTypes
  <2> QED
    BY <1>13, <2>1 DEF ZoneChanges, ControlTypes
<1>14. CASE Restart
  <2>0. on' \in {host, FALSE} /\ signals' = <<>>
    BY <1>14 DEF Restart
  <2>1. on' \in BOOLEAN
    BY <1>0, <2>0
  <2>2. signals' \in Seq(BOOLEAN)
    BY <2>0
  <2>3. config' \in Config /\ active' = None /\ scan' = TRUE
        /\ pid' = FALSE /\ todo' = {} /\ low' = None /\ missed' = FALSE
    BY <1>14, NothingType DEF Restart
  <2>4. UNCHANGED <<fru, zone, changes>>
    BY <1>14 DEF Restart
  <2> QED
    BY <2>1, <2>2, <2>3, <2>4 DEF ControlTypes
<1>15. CASE UNCHANGED vars
  BY <1>15 DEF vars, ControlTypes
<1> QED
  BY <1>1, <1>2, <1>3, <1>4, <1>5, <1>6, <1>7, <1>8, <1>9, <1>10, <1>11, <1>12, <1>13, <1>14,
     <1>15 DEF Next, Handler

\* The types hold for any fans, zones and bounds; the attempts never pass the
\* one after the last.
THEOREM ManagerTypeCorrect == Spec => []TypeOK
<1>1. ControlTypes /\ ShownInv => TypeOK
  BY DEF ControlTypes, ShownInv, DetectionTypes, TypeOK
<1> QED
  BY <1>1, InitControl, NextControl, ShownInductive, PTL DEF Spec

-----------------------------------------------------------------------------
(* The speeds                                                              *)

\* While setFanSpeed() is at work and no zone has changed behind it, the zones
\* that it has left behind are fast enough; it works for a published configuration.
SpeedInv ==
  /\ EnforcedAtRest
  /\ pid \/ ~ Ready => active # None
  /\ ~ pid /\ ~ Ready => \A z \in Zones \ todo : zone[z] >= config.min[z]

\* At the end of a pass that has seen to every zone.
LEMMA PassEnds ==
  ASSUME NEW rest \in SUBSET Zones, todo' = rest, Over(rest), ~ pid', active' # None,
         UNCHANGED <<config, active>>,
         \A z \in Zones \ rest : zone'[z] >= config.min[z]
  PROVE  SpeedInv'
<1>1. CASE rest = {}
  <2>1. missed' = (config # active)
    BY <1>1 DEF Over
  <2> QED BY <1>1, <2>1 DEF SpeedInv, EnforcedAtRest, Ready
<1>2. CASE rest # {}
  BY <1>2 DEF SpeedInv, EnforcedAtRest, Ready
<1> QED BY <1>1, <1>2

LEMMA NextSpeed == ControlTypes /\ SpeedInv /\ [Next]_vars => SpeedInv'
<1> SUFFICES ASSUME ControlTypes, SpeedInv, [Next]_vars PROVE SpeedInv'
  OBVIOUS
<1> USE DEF machine, power, conf, speeds
<1>0. \A z \in Zones : zone[z] \in Nat /\ config.min[z] \in Nat
  BY DEF ControlTypes, Config, Speed
<1>1. ASSUME UNCHANGED <<active, zone, pid, todo, missed>>, Ready \/ UNCHANGED config
      PROVE  SpeedInv'
  BY <1>1 DEF SpeedInv, EnforcedAtRest, Ready
<1>2. CASE Scan
  <2> DEFINE conf2 == IF fru = None THEN config ELSE fru
  <2>1. conf2 \in Config /\ conf2 # None
    BY NoneAssumption DEF ControlTypes
  <2>2. Expose(conf2) /\ Ready /\ UNCHANGED <<zone, todo, low, missed>>
    BY <1>2 DEF Scan, Scanned
  <2> HIDE DEF conf2
  <2>3. CASE UNCHANGED <<active, pid>>
    BY <1>1, <2>2, <2>3
  <2>4. CASE active' = conf2 /\ pid' = TRUE
    BY <2>1, <2>2, <2>4 DEF SpeedInv, EnforcedAtRest, Ready
  <2> QED BY <2>2, <2>3, <2>4 DEF Expose
<1>3. CASE ScanFails
  BY <1>1, <1>3 DEF ScanFails
<1>4. CASE InventorySignal \/ Timer \/ PowerSignal \/ HostSwitches \/ Spun \/ FruChanges
           \/ UNCHANGED vars
  BY <1>1, <1>4 DEF InventorySignal, Timer, PowerSignal, HostSwitches, Spun, FruChanges, vars
<1>5. CASE SpeedTimer
  <2>1. active # None /\ UNCHANGED <<config, active, zone>> /\ pid' = FALSE
    BY <1>5 DEF SpeedTimer, SpeedInv
  <2>2. todo' = {z \in Zones : config.min[z] # 0} /\ Over(todo')
    BY <1>5 DEF SpeedTimer
  <2>3. \A z \in Zones \ todo' : zone'[z] >= config.min[z]
    BY <1>0, <2>1, <2>2
  <2> QED BY <2>1, <2>2, <2>3, PassEnds
<1>6. ASSUME NEW z \in Zones, GetSpeed(z) PROVE SpeedInv'
  <2>1. z \in todo /\ active # None /\ UNCHANGED <<config, active, zone, pid>>
    BY <1>6 DEF GetSpeed, SpeedInv, Ready
  <2>2. CASE zone[z] >= config.min[z]
    <3>1. todo' = todo \ {z} /\ Over(todo')
      BY <1>6, <2>2 DEF GetSpeed
    <3>2. CASE pid
      BY <2>1, <3>2 DEF SpeedInv, EnforcedAtRest
    <3>3. CASE ~ pid
      <4>1. \A k \in Zones \ todo' : zone'[k] >= config.min[k]
        BY <2>1, <2>2, <3>1, <3>3 DEF SpeedInv, Ready
      <4>2. todo' \in SUBSET Zones
        BY <3>1 DEF ControlTypes
      <4> QED BY <2>1, <3>1, <3>3, <4>1, <4>2, PassEnds
    <3> QED BY <3>2, <3>3
  <2>3. CASE ~ (zone[z] >= config.min[z])
    BY <1>1, <1>6, <2>1, <2>3 DEF GetSpeed
  <2> QED BY <2>2, <2>3
<1>7. ASSUME NEW z \in Zones, SetSpeed(z) PROVE SpeedInv'
  <2>1. ~ Ready
    BY <1>7, NoneAssumption DEF SetSpeed, ControlTypes, Ready
  <2> QED BY <1>7, <2>1 DEF SetSpeed, SpeedInv, EnforcedAtRest
<1>8. CASE SpeedFails
  <2>1. todo' = {} /\ missed' = TRUE /\ active # None /\ UNCHANGED active
    BY <1>8 DEF SpeedFails, SpeedInv
  <2> QED BY <2>1 DEF SpeedInv, EnforcedAtRest, Ready
<1>9. ASSUME NEW z \in Zones, NEW v \in Speed, ZoneChanges(z, v) PROVE SpeedInv'
  <2>1. pid' = (pid \/ active # None) /\ UNCHANGED <<config, active, todo, missed>>
    BY <1>9 DEF ZoneChanges
  <2> QED BY <2>1 DEF SpeedInv, EnforcedAtRest, Ready
<1>10. CASE Restart
  <2>1. active' = None /\ pid' = FALSE /\ todo' = {}
    BY <1>10 DEF Restart
  <2> QED BY <2>1 DEF SpeedInv, EnforcedAtRest, Ready
<1> QED
  BY <1>2, <1>3, <1>4, <1>5, <1>6, <1>7, <1>8, <1>9, <1>10 DEF Next, Handler

\* Whatever scans, other clients and restarts do between the calls of
\* setFanSpeed(), a zone that is too slow is looked at again.
THEOREM SlowZonesAreSeen == Spec => []EnforcedAtRest
<1>1. Init => SpeedInv
  BY DEF Init, SpeedInv, EnforcedAtRest, Ready
<1>2. SpeedInv => EnforcedAtRest
  BY DEF SpeedInv
<1> QED
  BY <1>1, <1>2, InitControl, NextControl, NextSpeed, ShownInductive, PTL DEF Spec

-----------------------------------------------------------------------------
(* The end of the detection                                                *)

\* processDetectState() ends the detection or takes one of its attempts.
LEMMA ProcessAdvances ==
  ASSUME attempts \in Nat, NEW st \in {"init", "detect"}, NEW armed, NEW known,
         Process(st, armed, known)
  PROVE  state' \in {"normal", "uninit"} \/ attempts' > attempts
<1>1. ASSUME NEW next, Waits(next, armed) PROVE attempts' > attempts
  BY <1>1 DEF Waits
<1>2. CASE NoProduct(st, armed)
  BY <1>1, <1>2 DEF NoProduct
<1>3. CASE NoTable(st, armed)
  BY <1>3 DEF NoTable
<1>4. CASE Begins(armed)
  BY <1>1, <1>4 DEF Begins
<1>5. CASE Finishes(armed)
  BY <1>5 DEF Finishes
<1> QED
  BY <1>2, <1>3, <1>4, <1>5 DEF Process

\* The safety half of DetectionEnds: no step of a detection is for nothing, and
\* as DetectionHasTimer says the next one is due.
THEOREM DetectionMovesOn == Spec => DetectionAdvances
<1> DEFINE Advances ==
      (state \in {"init", "detect"}) =>
        \/ state' \in {"normal", "uninit"}
        \/ attempts' > attempts
        \/ UNCHANGED <<state, timer, attempts>>
        \/ UNCHANGED <<state, timer>> /\ ~ on /\ on'
<1>1. ControlTypes /\ FanInv /\ [Next]_vars => [Advances]_vars
  <2> SUFFICES ASSUME ControlTypes, FanInv, [Next]_vars, state \in {"init", "detect"}
               PROVE  Advances
    OBVIOUS
  <2> USE DEF detection, conf, power, machine
  <2>0. attempts \in Nat
    BY DEF FanInv, Types
  <2>1. CASE Timer
    BY <2>0, <2>1, ProcessAdvances DEF Timer
  <2>2. CASE Scan
    BY <2>2 DEF Scan, Scanned, RunDetectFans
  <2>3. CASE PowerSignal
    <3>1. on' \in BOOLEAN /\ on \in BOOLEAN /\ UNCHANGED <<state, timer>>
      BY <2>3 DEF PowerSignal, ControlTypes
    <3>2. attempts' = IF on' /\ ~ on THEN 0 ELSE attempts
      BY <2>3 DEF PowerSignal
    <3> QED BY <3>1, <3>2
  <2>4. CASE Restart
    BY <2>4 DEF Restart
  <2>5. CASE \/ ScanFails \/ InventorySignal \/ SpeedTimer \/ SpeedFails
             \/ HostSwitches \/ Spun \/ FruChanges \/ UNCHANGED vars
    BY <2>5 DEF ScanFails, InventorySignal, SpeedTimer, SpeedFails, HostSwitches, Spun,
       FruChanges, vars
  <2>6. CASE \E z \in Zones : GetSpeed(z) \/ SetSpeed(z) \/ \E v \in Speed : ZoneChanges(z, v)
    BY <2>6 DEF GetSpeed, SetSpeed, ZoneChanges
  <2> QED
    BY <2>1, <2>2, <2>3, <2>4, <2>5, <2>6 DEF Next, Handler
<1>2. DetectionAdvances <=> [][Advances]_vars
  BY DEF DetectionAdvances
<1> QED
  BY <1>1, <1>2, FanInductive, InitControl, NextControl, ShownInductive, PTL DEF Spec
=============================================================================
