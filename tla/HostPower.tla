----------------------------- MODULE HostPower -----------------------------
(***************************************************************************)
(* How yadro-storage-manager passes the power state of the host on to the  *)
(* backplane MCUs that are configured with SoftwarePowerGood.              *)
(*                                                                         *)
(* Modelled together, because the hazards are in their interplay:          *)
(*  - PowerState: subscribes to the host state and reads it once, keeps    *)
(*    the last known state, calls back on a change;                        *)
(*  - Manager::applyConfiguration: creates and reconfigures controllers,   *)
(*    subscribes when a controller asks for it, gives up on an error;      *)
(*  - the controllers, which drop the notification while updating.         *)
(*                                                                         *)
(* Every handler of the event loop is one action, but for the blocking     *)
(* call that reads the host state: the host goes on while the manager asks *)
(* and the answer is on its way, and its signals are queued behind. The    *)
(* host, the D-Bus queue of its signals and the configuration service are  *)
(* the environment.                                                        *)
(* MCUs are numbered in the order of their configuration objects; objects  *)
(* without a bus or an address, which the manager skips, are left out.     *)
(***************************************************************************)
EXTENDS Naturals, Sequences

CONSTANTS
  NumMCU,            \* number of backplanes
  MaxQueue,          \* bound on host signals in flight
  UpdatesAllowed,    \* may firmware updates be in progress?
  ReconfigAllowed,   \* may the configuration change after the start?
  SendMayFail        \* may an MCU refuse the command?

MCU == 1 .. NumMCU

ASSUME SizeAssumption == NumMCU \in Nat /\ MaxQueue \in Nat
ASSUME FlagAssumption == {UpdatesAllowed, ReconfigAllowed, SendMayFail} \subseteq BOOLEAN

\* A backplane is not configured, or configured without or with
\* softwarePowerGood.
Config == {"absent", "plain", "powerGood"}

\* systemPowerState
Power == {"Unknown", "Off", "On"}

VARIABLES
  host,        \* is the host powered? (the state service)
  signals,     \* PropertiesChanged signals of the host state, in flight
  subscribed,  \* PowerState::match and the "manager" callback are installed
  reading,     \* readHostState(): "no", "asked", its answer, and how it ended
  powerState,  \* PowerState::powerState
  wanted,      \* the configuration published for each backplane
  timer,       \* readDelayTimer is armed
  cfg,         \* cfg of each controller, "absent" while there is none
  updating,    \* controllers with a running updater
  told         \* what each MCU was told last

vars == <<host, signals, subscribed, reading, powerState, wanted, timer, cfg, updating, told>>

-----------------------------------------------------------------------------
(* Helpers *)

AsPower(powered) == IF powered THEN "On" ELSE "Off"

\* The manager waits for the answer and handles nothing else.
Busy == reading \in {"asked", "On", "Off", "error"}

\* Mutated form (no action uses it): addCallback() reads first and subscribes
\* afterwards.
ReceivesAfterReading == subscribed /\ ~ Busy

\* A change of the host is signalled to the manager once match is installed.
Receives == subscribed

\* setPowerState(): a new state is stored and sent to the controllers that want
\* it and are not updating. Those that fail do not learn it.
SetPowerState(state) ==
  LET listening == {m \in MCU : cfg[m] = "powerGood" /\ m \notin updating}
  IN  /\ powerState' = state
      /\ IF state = powerState
         THEN UNCHANGED told
         ELSE \E failed \in IF SendMayFail THEN SUBSET listening ELSE {{}} :
                told' = [m \in MCU |-> IF m \in listening \ failed THEN state ELSE told[m]]

\* addCallback(): the first one subscribes, and then asks for the state.
AddCallback ==
  /\ subscribed' = TRUE
  /\ reading' = IF subscribed THEN reading ELSE "asked"

-----------------------------------------------------------------------------
(* Mutated forms (no action uses them) *)

\* applyConfiguration() drops the controllers of withdrawn configurations.
AppliedDropping(read) ==
  [m \in MCU |-> IF m <= read THEN wanted[m] ELSE cfg[m]]

\* hostStateChanged() takes the first queued signal for all of them.
HostSignalCoalesced ==
  /\ ~ Busy /\ signals # << >>
  /\ SetPowerState(AsPower(Head(signals)))
  /\ signals' = << >>
  /\ UNCHANGED <<host, subscribed, reading, wanted, timer, cfg, updating>>

-----------------------------------------------------------------------------
Init ==
  /\ host \in BOOLEAN
  /\ signals = << >>
  /\ subscribed = FALSE /\ reading = "no"
  /\ powerState = "Unknown"
  /\ wanted \in [MCU -> Config]
  /\ timer = TRUE                 \* main() applies the configuration first
  /\ cfg = [m \in MCU |-> "absent"]
  /\ updating = {}
  /\ told = [m \in MCU |-> "Unknown"]

\* The host changes its state, possibly to one with the same power; the signal
\* reaches the manager only if it is subscribed.
HostChanges(powered) ==
  /\ Len(signals) < MaxQueue
  /\ host' = powered
  /\ signals' = IF Receives THEN Append(signals, powered) ELSE signals
  /\ UNCHANGED <<subscribed, reading, powerState, wanted, timer, cfg, updating, told>>

\* hostStateChanged()
HostSignal ==
  /\ ~ Busy /\ signals # << >>
  /\ SetPowerState(AsPower(Head(signals)))
  /\ signals' = Tail(signals)
  /\ UNCHANGED <<host, subscribed, reading, wanted, timer, cfg, updating>>

\* The state service answers, with an error or a state of no known name perhaps.
HostAnswers ==
  /\ reading = "asked"
  /\ reading' \in {AsPower(host), "error"}
  /\ UNCHANGED <<host, signals, subscribed, powerState, wanted, timer, cfg, updating, told>>

\* readHostState() has the answer; later signals have been queued meanwhile.
ReadHostState ==
  /\ \/ /\ reading \in {"On", "Off"} /\ reading' = "done"
        /\ SetPowerState(reading)
     \/ /\ reading = "error" /\ reading' = "failed"
        /\ UNCHANGED <<powerState, told>>
  /\ UNCHANGED <<host, signals, subscribed, wanted, timer, cfg, updating>>

\* The configuration of a backplane is published, changed or withdrawn.
ConfigChanges(m, conf) ==
  /\ ReconfigAllowed
  /\ conf # wanted[m]
  /\ wanted' = [wanted EXCEPT ![m] = conf]
  /\ timer' = TRUE
  /\ UNCHANGED <<host, signals, subscribed, reading, powerState, cfg, updating, told>>

\* updateConfig() of a controller that is updating throws, after it has
\* stored the configuration.
Throws(m) == m \in updating /\ wanted[m] # "absent" /\ wanted[m] # cfg[m]

\* The objects applyConfiguration() handles if reading fails after the first
\* `read` of them: up to the first one that throws.
Handled(read) == {m \in 1 .. read : \A k \in 1 .. (m - 1) : ~ Throws(k)}

\* The configuration of the controllers afterwards. A withdrawn one is kept.
Applied(read) ==
  [m \in MCU |-> IF m \in Handled(read) /\ wanted[m] # "absent" THEN wanted[m] ELSE cfg[m]]

\* applyConfiguration() ends early, or subscribes if someone asks for it.
ApplyConfiguration(read) ==
  /\ ~ Busy /\ timer
  /\ timer' = FALSE
  /\ cfg' = Applied(read)
  /\ IF /\ read = NumMCU
        /\ \A m \in MCU : ~ Throws(m)
        /\ \E m \in MCU : wanted[m] = "powerGood"
     THEN AddCallback
     ELSE UNCHANGED <<subscribed, reading>>
  /\ UNCHANGED <<host, signals, powerState, wanted, updating, told>>

UpdateStarts(m) ==
  /\ UpdatesAllowed /\ ~ Busy
  /\ cfg[m] # "absent"
  /\ m \notin updating
  /\ updating' = updating \cup {m}
  /\ UNCHANGED <<host, signals, subscribed, reading, powerState, wanted, timer, cfg, told>>

UpdateEnds(m) ==
  /\ ~ Busy /\ m \in updating
  /\ updating' = updating \ {m}
  /\ UNCHANGED <<host, signals, subscribed, reading, powerState, wanted, timer, cfg, told>>

Next ==
  \/ \E powered \in BOOLEAN : HostChanges(powered)
  \/ HostSignal \/ HostAnswers \/ ReadHostState
  \/ \E m \in MCU, conf \in Config : ConfigChanges(m, conf)
  \/ \E read \in 0 .. NumMCU : ApplyConfiguration(read)
  \/ \E m \in MCU : UpdateStarts(m) \/ UpdateEnds(m)

Spec == Init /\ [][Next]_vars

-----------------------------------------------------------------------------
(* Properties *)

\* The type invariant. A controller exists for as long as its updater runs.
TypeOK ==
  /\ host \in BOOLEAN
  /\ signals \in Seq(BOOLEAN) /\ Len(signals) <= MaxQueue
  /\ subscribed \in BOOLEAN
  /\ reading \in {"no", "asked", "On", "Off", "error", "done", "failed"}
  /\ powerState \in Power
  /\ wanted \in [MCU -> Config]
  /\ timer \in BOOLEAN
  /\ cfg \in [MCU -> Config]
  /\ updating \in SUBSET {m \in MCU : cfg[m] # "absent"}
  /\ told \in [MCU -> Power]

\* No change of the host is lost, neither between subscribing and asking, nor
\* while the answer is on its way, nor queued behind it: when the manager has the
\* answer and has handled all signals, it knows the state of the host. Only if
\* the read failed it may know none.
PowerSettled ==
  subscribed /\ ~ Busy /\ signals = << >> =>
    powerState = AsPower(host) \/ (reading = "failed" /\ powerState = "Unknown")

\* The answer overtakes the signals that were queued before it, so an MCU may be
\* told a state that the host has left, even after it was told the present one.
\* But then the signal of the present state is in the queue, and the last one.
StaleIsCorrected ==
  [][\A m \in MCU : told'[m] # told[m] =>
       \/ told'[m] = AsPower(host')
       \/ signals' # << >> /\ signals'[Len(signals')] = host']_vars

\* An MCU configured with softwarePowerGood that is not updating has been told
\* the known power state. backplane_control.hpp:31 says what the option is for:
\* "whether we have to send host power state information from BMC to MCU".
Informed ==
  \A m \in MCU :
    subscribed /\ powerState # "Unknown" /\ cfg[m] = "powerGood" /\ m \notin updating
    => told[m] = powerState
=============================================================================
