----------------------------- MODULE HwManager -----------------------------
(***************************************************************************)
(* yadro-hw-manager: createInventory(), the class HWManager with the       *)
(* detection of the system fans, and the minimal fan speed of PID zones.   *)
(*                                                                         *)
(* The process has one thread: a handler is one step, except setFanSpeed() *)
(* between whose D-Bus calls others may change the zones. A signal or a    *)
(* timer is a flag; both timers are restarted, never stacked. hwmon and    *)
(* D-Bus calls may fail and the process may be restarted, MaxFaults times; *)
(* the host, the FRU and the zones change MaxChanges times.                *)
(*                                                                         *)
(* Of the configuration the model keeps whether the product is known and   *)
(* the minimal speeds; a PWM is "low" (what the fan control had set),      *)
(* "full" (255) or "off" (0); a tachometer reads "zero", a part number whose range it   *)
(* is in, or "odd". No other process is taken to write the PWM files.      *)
(***************************************************************************)
EXTENDS Naturals, Sequences

CONSTANTS
  Fans,        \* the system fans of the product
  Zones,       \* PID zones
  MaxSpeed,    \* the highest speed of a zone
  MaxAttempts, \* maxErrorAttempts
  MaxChanges,  \* bound on changes of host, FRU and zones
  MaxFaults,   \* bound on faults
  None         \* no value

ASSUME BoundAssumption ==
  /\ MaxSpeed \in Nat /\ MaxAttempts \in Nat
  /\ MaxChanges \in Nat /\ MaxFaults \in Nat

Part == {"high", "mid"}       \* the part numbers of detectionFanTable
Speed == 0 .. MaxSpeed        \* 0: no minimum
Config == [known : BOOLEAN, min : [Zones -> Speed]]
ASSUME NoneAssumption ==
  /\ None \notin Part \cup {"default"} /\ None \notin [Fans -> Part \cup {"default"}]
  /\ None \notin Config /\ None \notin Zones

VARIABLES
  \* the machine
  host,     \* the host is on
  spun,     \* the fans have had time to reach their speed
  fru,      \* what the FRU of the board says, None if there is none
  kind,     \* the module in each fan slot: a part or "other"
  pwm,      \* PWM of each fan
  zone,     \* MinThermalOutput of each zone
  file,     \* /tmp/fan_features.json: the part of each fan, or None
  \* the process
  on,       \* powerState is On
  signals,  \* signals of the host state on their way
  config,   \* config, as the last scan has left it
  active,   \* configActive: the published one, or None
  scan,     \* the scan is posted or its timer runs
  state,    \* detectFansState
  attempts, \* numErrorAttempts
  timer,    \* the detection timer runs
  table,    \* the product has a detection table and the hwmon is there
  have,     \* fanFeatures has entries
  part,     \* partNumber of each fan, None if empty
  initial,  \* initialPwm of each fan
  rpm,      \* maxInletRpm and maxOutletRpm of each fan
  shown,    \* the published system fans, or None
  pid,      \* the timer of setFanSpeedDelayed() runs
  todo,     \* the zones setFanSpeed() has still to look at
  low,      \* the zone it has read and found too slow, or None
  \* bounds and history
  changes, faults,
  calm,     \* all fans were on when the detection began, nothing has disturbed it since
  stuck,    \* a detection was cut off, or could not read or set a PWM
  gaveUp,   \* the attempts ran out
  missed    \* the last setFanSpeed() failed or used another configuration

machine == <<host, spun, fru, kind, pwm, zone, file>>
conf == <<config, active, scan>>
measured == <<initial, rpm>>
names == <<have, part, shown, file>>
speeds == <<pid, todo, low, missed>>
detection == <<state, attempts, timer, table, measured, names, pwm, calm, stuck, gaveUp>>
power == <<on, signals>>
vars == <<machine, power, conf, detection, speeds, changes, faults>>

-----------------------------------------------------------------------------
(* Helpers *)

Faulty == faults < MaxFaults /\ faults' = faults + 1
NoFault == UNCHANGED faults
Changed == changes < MaxChanges /\ changes' = changes + 1
Ready == todo = {}            \* the thread is not inside of setFanSpeed()

Nothing == [known |-> FALSE, min |-> [z \in Zones |-> 0]]

\* What the tachometers of a fan may show.
Reads(f) ==
  CASE ~ host -> {"zero"}
    [] host /\ spun /\ pwm[f] = "full" -> {IF kind[f] \in Part THEN kind[f] ELSE "odd"}
    [] host /\ spun /\ pwm[f] = "off" -> {"zero"}
    [] host /\ spun /\ pwm[f] = "low" -> IF kind[f] = "high" THEN {"mid", "odd"} ELSE {"odd"}
    [] OTHER -> {"zero", "mid", "odd"}

\* publishSystemFans(), which saves the features too
Publish(parts) ==
  /\ part' = parts /\ have' = TRUE
  /\ shown' = [f \in Fans |-> IF parts[f] = None THEN "default" ELSE parts[f]]
  /\ file' = parts

\* Mutated form: the attempts are not counted.
WaitsForEver(st, armed) ==
  state' = st /\ timer' = TRUE /\ UNCHANGED <<attempts, gaveUp>>

\* Mutated form: the attempts do not end the detection.
WaitsOn(st, armed) ==
  attempts' = attempts + 1 /\ state' = st /\ timer' = TRUE /\ UNCHANGED gaveUp

\* detectFansDelayed(): after MaxAttempts the state is normal.
Waits(st, armed) ==
  /\ attempts' = attempts + 1
  /\ IF attempts' > MaxAttempts
     THEN state' = "normal" /\ timer' = armed /\ gaveUp' = TRUE
     ELSE state' = st /\ timer' = TRUE /\ UNCHANGED gaveUp

\* The transfers with hwmon that fail: reading 0 in place of a tachometer or of
\* a PWM, or leaving a PWM as it is.
Hwmon(unread, unset) == IF unread \cup unset = {} THEN NoFault ELSE Faulty

Readings(r, fans, unread) ==
  \A f \in fans : r[f] \in IF f \in unread THEN {"zero"} ELSE Reads(f)

Tacho == Part \cup {"zero", "odd"}

\* Mutated form: the PWM is not touched.
AtRestOnly ==
  \E r \in [Fans -> Tacho] :
    /\ Readings(r, Fans, {})
    /\ rpm' = r /\ initial' = pwm /\ UNCHANGED <<pwm, faults>>

\* processSystemFans() in "init": the fans that turn go to full speed.
AtRest ==
  \E r \in [Fans -> Tacho], unread, unknown, unset \in SUBSET Fans :
    /\ Hwmon(unread \cup unknown, unset)
    /\ Readings(r, Fans, unread)
    /\ rpm' = r
    /\ initial' = [f \in Fans |-> IF f \in unknown THEN "off" ELSE pwm[f]]
    /\ pwm' = [f \in Fans |-> IF r[f] # "zero" /\ f \notin unset THEN "full" ELSE pwm[f]]

\* The fans that turned when the detection began.
Turned == {f \in Fans : rpm[f] # "zero"}

\* Mutated form: whether a fan turns is asked again.
AtFullAgain ==
  \E r \in [Fans -> Tacho] :
    /\ Readings(r, Fans, {})
    /\ rpm' = r /\ UNCHANGED <<initial, faults>>
    /\ pwm' = [f \in Fans |-> IF r[f] # "zero" THEN initial[f] ELSE pwm[f]]

\* processSystemFans() in "detect": those that turned are measured and set back.
AtFull ==
  \E r \in [Fans -> Tacho], unread, unset \in SUBSET Fans :
    /\ unread \cup unset \subseteq Turned
    /\ Hwmon(unread, unset)
    /\ Readings(r, Turned, unread)
    /\ rpm' = [f \in Fans |-> IF f \in Turned THEN r[f] ELSE "zero"]
    /\ pwm' = [f \in Fans |-> IF f \in Turned \ unset THEN initial[f] ELSE pwm[f]]
    /\ UNCHANGED initial

-----------------------------------------------------------------------------
(* processDetectState(), called with state st; armed: the timer runs before *)

Same(armed) == timer' = armed /\ UNCHANGED <<attempts, gaveUp>>

\* Mutated form: without a table the fans are not published.
NoTableUnpublished(st, armed) ==
  /\ st \in {"init", "detect"} /\ ~ table
  /\ state' = "normal" /\ Same(armed) /\ calm' = FALSE
  /\ NoFault /\ UNCHANGED <<measured, pwm, stuck, names>>

\* The product is not known: wait for the next scan.
NoProduct(st, armed) ==
  /\ Waits(st, armed)
  /\ calm' = (calm /\ state' = st)
  /\ stuck' = (stuck \/ (st = "detect" /\ state' = "normal"))
  /\ NoFault /\ UNCHANGED <<measured, names, pwm>>

\* The host is off: features saved by an earlier process are used.
FromFile(armed) ==
  /\ Same(armed) /\ NoFault /\ UNCHANGED <<measured, pwm, calm, stuck>>
  /\ IF have THEN state' = "normal" /\ Publish(part)
             ELSE state' = "uninit" /\ UNCHANGED names

\* No table or no hwmon: nothing to detect.
NoTable(st, armed) ==
  /\ st \in {"init", "detect"} /\ ~ table
  /\ state' = "normal" /\ Same(armed) /\ calm' = FALSE
  /\ Publish(part)
  /\ NoFault /\ UNCHANGED <<measured, pwm, stuck>>

\* The fans are put to full speed.
Begins(armed) ==
  /\ table
  /\ AtRest
  /\ Waits("detect", armed)
  /\ IF state' = "normal" THEN Publish(part) ELSE have' = TRUE /\ UNCHANGED <<part, shown, file>>
  /\ stuck' = (stuck \/ state' = "normal" \/ faults' # faults)
  /\ calm' = (state' = "detect" /\ host /\ spun /\ faults' = faults
                /\ \A f \in Fans : pwm[f] # "off")

\* They have been at full speed: updateSystemFanFeatures()
Finishes(armed) ==
  /\ table
  /\ AtFull
  /\ state' = "normal" /\ Same(armed)
  /\ Publish([f \in Fans |-> IF rpm'[f] \in Part THEN rpm'[f] ELSE "default"])
  /\ calm' = (calm /\ faults' = faults)
  /\ stuck' = (stuck \/ faults' # faults)

Process(st, armed, known) ==
  /\ UNCHANGED table
  /\ \/ ~ known /\ NoProduct(st, armed)
     \/ known /\ st = "uninit" /\ FromFile(armed)
     \/ known /\ NoTable(st, armed)
     \/ known /\ st = "init" /\ Begins(armed)
     \/ known /\ st = "detect" /\ Finishes(armed)

-----------------------------------------------------------------------------
(* The scan *)

\* Mutated form: the speeds wait for a zone to change.
ExposeOnly(conf2) ==
  /\ active' = IF conf2.known THEN conf2 ELSE active
  /\ UNCHANGED pid

\* publish(): the configuration is exposed if it is another one than before.
Expose(conf2) ==
  IF ~ conf2.known \/ active = conf2
  THEN UNCHANGED <<active, pid>>
  ELSE active' = conf2 /\ pid' = TRUE

\* runDetectFans()
RunDetectFans(known) ==
  IF state = "uninit"
  THEN Process(IF on THEN "init" ELSE "uninit", timer, known)
  ELSE UNCHANGED <<detection, faults>>

\* createInventory(): with the FRU of the board, or as it was without.
Scanned(conf2) ==
  /\ config' = conf2
  /\ scan' = FALSE
  /\ Expose(conf2)
  /\ RunDetectFans(conf2.known)

Scan ==
  /\ scan /\ Ready
  /\ Scanned(IF fru = None THEN config ELSE fru)
  /\ UNCHANGED <<host, spun, fru, kind, zone, power, todo, low, missed, changes>>

\* The FRU service or a CPU object does not answer: again in 30 seconds. In the
\* second case the configuration is the new one already.
ScanFails ==
  /\ scan /\ Ready
  /\ Faulty
  /\ config' \in {config} \cup (IF fru = None THEN {} ELSE {fru})
  /\ UNCHANGED <<machine, power, active, scan, detection, speeds, changes>>

\* A property of a FRU or of the inventory has changed.
InventorySignal ==
  /\ ~ scan /\ Ready
  /\ scan' = TRUE
  /\ UNCHANGED <<machine, power, config, active, detection, speeds, changes, faults>>

\* The detection timer.
Timer ==
  /\ timer /\ Ready
  /\ IF state = "normal"
     THEN timer' = FALSE /\ UNCHANGED <<state, attempts, table, measured, names, pwm,
                                        calm, stuck, gaveUp, faults>>
     ELSE Process(state, FALSE, config.known)
  /\ UNCHANGED <<host, spun, fru, kind, zone, power, conf, speeds, changes>>

\* The signal of the host state: onHostPowerChanged(), if it says something new.
PowerSignal ==
  /\ signals # <<>> /\ Ready
  /\ on' = Head(signals) /\ signals' = Tail(signals)
  /\ attempts' = IF on' /\ ~ on THEN 0 ELSE attempts
  /\ UNCHANGED <<machine, conf, state, timer, table, measured, have, part, shown,
                 calm, stuck, gaveUp, speeds, changes, faults>>

-----------------------------------------------------------------------------
(* setFanSpeed() *)

\* The pass is over; it is worth something if it used what is published.
Over(rest) == missed' = IF rest = {} THEN config # active ELSE missed

SpeedTimer ==
  /\ pid /\ Ready
  /\ pid' = FALSE
  /\ todo' = {z \in Zones : config.min[z] # 0}
  /\ Over(todo')
  /\ UNCHANGED <<machine, power, conf, detection, low, changes, faults>>

\* The property is read; a zone that is fast enough is done.
GetSpeed(z) ==
  /\ z \in todo /\ low = None
  /\ IF zone[z] >= config.min[z]
     THEN todo' = todo \ {z} /\ Over(todo') /\ UNCHANGED low
     ELSE low' = z /\ UNCHANGED <<todo, missed>>
  /\ UNCHANGED <<machine, power, conf, detection, pid, changes, faults>>

\* The property is set; the signal of this restarts the timer.
SetSpeed(z) ==
  /\ low = z
  /\ zone' = [zone EXCEPT ![z] = config.min[z]]
  /\ pid' = TRUE
  /\ low' = None /\ todo' = todo \ {z} /\ Over(todo')
  /\ UNCHANGED <<host, spun, fru, kind, power, conf, detection, changes, faults>>

\* A call fails: the rest of the zones is left.
SpeedFails ==
  /\ \/ pid /\ Ready /\ pid' = FALSE
     \/ ~ Ready /\ UNCHANGED pid
  /\ Faulty
  /\ todo' = {} /\ low' = None /\ missed' = TRUE
  /\ UNCHANGED <<machine, power, conf, detection, changes>>

-----------------------------------------------------------------------------
(* The rest of the machine *)

HostSwitches ==
  /\ Changed
  /\ host' = ~ host /\ spun' = FALSE /\ signals' = Append(signals, host')
  /\ calm' = FALSE
  /\ UNCHANGED <<fru, kind, zone, on, conf, state, attempts, timer, table, measured,
                 names, pwm, stuck, gaveUp, speeds, faults>>

\* Fans reach their speed within seconds.
Spun ==
  /\ ~ spun
  /\ spun' = TRUE
  /\ UNCHANGED <<host, fru, kind, zone, power, conf, detection, speeds, changes, faults>>

\* The FRU is read by the FRU service or written; a signal tells.
FruChanges ==
  /\ Changed
  /\ fru' \in Config /\ scan' = TRUE
  /\ UNCHANGED <<host, spun, kind, zone, power, config, active, detection, speeds, faults>>

\* Someone sets the speed of a zone; the match of publish() sees it.
ZoneChanges(z, v) ==
  /\ Changed
  /\ zone' = [zone EXCEPT ![z] = v]
  /\ pid' = (pid \/ active # None)
  /\ UNCHANGED <<host, spun, fru, kind, power, conf, detection, todo, low, missed, faults>>

\* The service dies and is started again. The power state is read, or unknown.
Restart ==
  /\ Faulty
  /\ on' \in {host, FALSE} /\ signals' = <<>>
  /\ config' = Nothing /\ active' = None /\ scan' = TRUE
  /\ state' = "uninit" /\ attempts' = 0 /\ timer' = FALSE
  /\ have' = (file # None)
  /\ part' = IF file = None THEN [f \in Fans |-> None] ELSE file
  /\ initial' = [f \in Fans |-> "off"] /\ rpm' = [f \in Fans |-> "zero"]
  /\ shown' = None
  /\ pid' = FALSE /\ todo' = {} /\ low' = None /\ missed' = FALSE
  /\ calm' = FALSE /\ gaveUp' = FALSE /\ stuck' = (stuck \/ state = "detect")
  /\ UNCHANGED <<machine, table, changes>>

-----------------------------------------------------------------------------
Init ==
  /\ host \in BOOLEAN /\ spun = TRUE /\ fru = None
  /\ kind \in [Fans -> Part \cup {"other"}]
  /\ pwm = [f \in Fans |-> "low"]
  /\ zone = [z \in Zones |-> 0]
  /\ file = None
  /\ on \in {host, FALSE} /\ signals = <<>>
  /\ config = Nothing /\ active = None /\ scan = TRUE
  /\ state = "uninit" /\ attempts = 0 /\ timer = FALSE
  /\ table \in BOOLEAN
  /\ have = FALSE /\ part = [f \in Fans |-> None]
  /\ initial = [f \in Fans |-> "off"] /\ rpm = [f \in Fans |-> "zero"]
  /\ shown = None
  /\ pid = FALSE /\ todo = {} /\ low = None
  /\ changes = 0 /\ faults = 0
  /\ calm = FALSE /\ stuck = FALSE /\ gaveUp = FALSE /\ missed = FALSE

Handler ==
  \/ Timer \/ PowerSignal \/ SpeedTimer
  \/ \E z \in Zones : GetSpeed(z) \/ SetSpeed(z)

Next ==
  \/ Scan \/ ScanFails \/ InventorySignal \/ Handler \/ SpeedFails
  \/ HostSwitches \/ Spun \/ FruChanges
  \/ \E z \in Zones, v \in Speed : ZoneChanges(z, v)
  \/ Restart

Spec == Init /\ [][Next]_vars

\* The event loop runs what is posted, expired or received.
FairSpec ==
  /\ Spec
  /\ WF_vars(Timer) /\ WF_vars(PowerSignal) /\ WF_vars(Scan)
  /\ WF_vars(SpeedTimer) /\ WF_vars(\E z \in Zones : GetSpeed(z) \/ SetSpeed(z))

-----------------------------------------------------------------------------
(* Properties *)

\* The type invariant.
TypeOK ==
  /\ host \in BOOLEAN /\ spun \in BOOLEAN /\ on \in BOOLEAN /\ signals \in Seq(BOOLEAN)
  /\ fru \in Config \cup {None} /\ config \in Config /\ active \in Config \cup {None}
  /\ kind \in [Fans -> Part \cup {"other"}]
  /\ pwm \in [Fans -> {"off", "low", "full"}] /\ initial \in [Fans -> {"off", "low", "full"}]
  /\ zone \in [Zones -> Speed]
  /\ file \in [Fans -> Part \cup {"default", None}] \cup {None}
  /\ scan \in BOOLEAN /\ timer \in BOOLEAN /\ table \in BOOLEAN /\ have \in BOOLEAN
  /\ state \in {"uninit", "init", "detect", "normal"}
  /\ attempts \in 0 .. MaxAttempts + 1
  /\ part \in [Fans -> Part \cup {"default", None}]
  /\ rpm \in [Fans -> Tacho]
  /\ shown \in [Fans -> Part \cup {"default"}] \cup {None}
  /\ pid \in BOOLEAN /\ todo \subseteq Zones /\ low \in todo \cup {None}
  /\ changes \in 0 .. MaxChanges /\ faults \in 0 .. MaxFaults
  /\ calm \in BOOLEAN /\ stuck \in BOOLEAN /\ gaveUp \in BOOLEAN /\ missed \in BOOLEAN

\* When the detection is over every fan has the PWM it had before, also when the
\* host was switched off meanwhile or the product was not known for a while.
\* It has not if the attempts ran out or the service was restarted with the fans
\* at full speed, or a transfer with hwmon failed.
PwmRestored == state # "detect" /\ ~ stuck => \A f \in Fans : pwm[f] = "low"

\* The fans of a product with a detection table are published as what they are
\* when the host ran all the time, no transfer failed and no failure of an earlier
\* detection has left one at PWM 0.
Identified ==
  state = "normal" /\ calm =>
    \A f \in Fans : shown[f] = IF kind[f] \in Part THEN kind[f] ELSE "default"

\* Once the detection is over the system fans are published, and kept for the
\* next start of the service, unless the attempts ran out.
FansShown == state = "normal" /\ ~ gaveUp => shown # None /\ file = part

\* A detection that was begun waits for its timer.
NeverForgotten == state \in {"init", "detect"} => timer

\* A detection that was begun ends, also if the product is never known
\* (hw_mngr.cpp:661: "if we has expired attempts, then stop fan detection").
DetectionEnds == state \in {"init", "detect"} ~> state \in {"normal", "uninit"}

\* Whatever changed the speed of a zone, in the end no zone is slower than the
\* published configuration wants it, unless the last setFanSpeed() failed or
\* worked with a configuration that was not published.
MinEnforced ==
  <>[](active # None /\ ~ missed => \A z \in Zones : zone[z] >= active.min[z])

\* The same without fairness: while no setFanSpeed() is awaited or under way, no
\* zone is too slow, whoever changed zones or configuration in between its calls.
EnforcedAtRest ==
  active # None /\ ~ missed /\ ~ pid /\ Ready => \A z \in Zones : zone[z] >= active.min[z]

\* A detection under way comes nearer to its end with every step it takes:
\* MaxAttempts bounds the attempts, and only a host that is switched on gives it
\* new ones.
DetectionAdvances ==
  [][(state \in {"init", "detect"}) =>
       \/ state' \in {"normal", "uninit"}
       \/ attempts' > attempts
       \/ UNCHANGED <<state, timer, attempts>>
       \/ UNCHANGED <<state, timer>> /\ ~ on /\ on']_vars
=============================================================================
