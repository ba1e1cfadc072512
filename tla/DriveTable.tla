---------------------------- MODULE DriveTable -----------------------------
(***************************************************************************)
(* The table of drives a BackplaneController publishes, and the requests   *)
(* to find a drive by its serial number and to drive its location LED.     *)
(*                                                                         *)
(* The storage manager handles one request at a time, but every handler    *)
(* takes a number of I2C transfers, and drives are plugged, pulled and     *)
(* fail between any two of them: each transfer is a step of its own. The   *)
(* pass (a refresh() from the timer or from a lookup, and what the lookup  *)
(* does afterwards) is kept in the variable pass.                          *)
(*                                                                         *)
(* The MCU speaks protocol V0 or V1. The backplane and the MCU's registers *)
(* (presence, failures, types, the presence-changed latch of V1, the LEDs) *)
(* are the environment, modelled from how the drivers use them: the latch  *)
(* is taken to be set by every plug or pull and cleared by reading it. A   *)
(* type the MCU cannot tell ends a pass like a failed transfer and is one  *)
(* of the faults.                                                          *)
(***************************************************************************)
EXTENDS Naturals, FiniteSets

CONSTANTS
  Drive,           \* the drives there are; a drive stands for its serial number
  SataDrive,       \* those of them that have no I2C interface
  NoDrive,         \* an empty slot; the empty serial number
  NumChannels,     \* channels of the backplane
  HaveDriveI2C,    \* can NVMe drives be asked for their serial numbers?
  Protos,          \* the protocols an MCU may speak
  FaultsAllowed,   \* may a transfer fail?
  DrivesFail,      \* may a drive fail?
  ReconfigAllowed, \* may updateConfig() change the channels?
  Ops              \* the requests made: "find", "on", "off", "get"

ASSUME DriveAssumption == NoDrive \notin Drive /\ SataDrive \subseteq Drive
ASSUME ChannelAssumption == NumChannels \in 1 .. 8      \* the registers are bytes
ASSUME ProtoAssumption == Protos \subseteq {"V0", "V1"}
ASSUME FlagAssumption == {HaveDriveI2C, FaultsAllowed, DrivesFail, ReconfigAllowed} \subseteq BOOLEAN
ASSUME OpsAssumption == Ops \subseteq {"find", "on", "off", "get"}

Channel == 1 .. NumChannels
Slot == Drive \cup {NoDrive}

\* The bits of cachedState: one per channel, and those no register reaches.
HighBits == 0
Bits == Channel \cup {HighBits}

Iface == {"NoDisk", "SATA_SAS", "NVMe"}
Row == [sn : Slot, iface : Iface, failed : BOOLEAN]

VARIABLES
  proto,       \* the protocol the MCU speaks
  slot,        \* the drive in each slot
  failed,      \* the failures register
  latch,       \* the presence-changed register (V1)
  leds,        \* the lit location LEDs
  cfg,         \* the configured channels
  cachedState, \* the bits seen by the last isStateChanged()
  drives,      \* the published table, a row for each of its channels
  functional,  \* the published OperationalStatus
  answer,      \* how a request ended, "none" while a handler runs; "outdated" is
               \* a drive not found because its row was
  pass         \* the handler that is running

vars == <<proto, slot, failed, latch, leds, cfg, cachedState, drives, functional, answer, pass>>
world == <<proto, slot, failed, latch, leds, cfg>>

Step == {"idle", "presence", "failures", "changed", "type", "sn", "verify", "led"}

\* presence and failures are the values the driver read in this pass, types the
\* word V1 reads once, rows what doRefresh() collected so far. calm is history:
\* nothing happened to the drives since the pass began; so is
\* forced: the request before met an outdated row.
Pass == [step : Step, op : {"refresh"} \cup Ops, drive : Slot, channel : Channel,
         presence : SUBSET Channel, failures : SUBSET Channel,
         types : [Channel -> Iface], rows : UNION {[C -> Row] : C \in SUBSET Channel},
         calm : BOOLEAN, forced : BOOLEAN]

Idle == [step |-> "idle", op |-> "refresh", drive |-> NoDrive, channel |-> 1,
         presence |-> {}, failures |-> {}, types |-> [c \in Channel |-> "NoDisk"],
         rows |-> << >>, calm |-> TRUE, forced |-> FALSE]

-----------------------------------------------------------------------------
(* Helpers *)

At(step) == pass.step = step

\* Which drive the slots tell: their type, presence and serial number.
TypeOf(d) == CASE d = NoDrive      -> "NoDisk"
               [] d \in SataDrive  -> "SATA_SAS"
               [] OTHER            -> "NVMe"
Present == {c \in Channel : slot[c] # NoDrive}
SerialAt(c) == IF TypeOf(slot[c]) = "NVMe" THEN slot[c] ELSE NoDrive

\* The serial number the table should have.
SerialDue(c) == IF HaveDriveI2C THEN SerialAt(c) ELSE NoDrive

First(C) == CHOOSE c \in C : \A k \in C : c <= k

\* The request ends with this answer.
Reply(result) == pass' = Idle /\ answer' = result

\* refresh() returns true. A lookup goes on with the first row that has the
\* serial number, to verify it.
RefreshReturnsTrue(table) ==
  LET matching == {c \in DOMAIN table : table[c].sn = pass.drive}
  IN  /\ functional' = TRUE
      /\ CASE pass.op = "refresh" -> pass' = Idle /\ UNCHANGED answer
           [] pass.op # "refresh" /\ matching = {} -> Reply("notFound")
           [] OTHER -> /\ pass' = [pass EXCEPT !.step = "verify", !.channel = First(matching)]
                       /\ UNCHANGED answer

\* refresh() returns false: a lookup throws InternalFailure.
RefreshReturnsFalse ==
  /\ functional' = FALSE
  /\ IF pass.op = "refresh" THEN pass' = Idle /\ UNCHANGED answer ELSE Reply("error")

\* doRefresh() has collected these rows; the last one publishes the table.
Collected(rows) ==
  IF DOMAIN rows = cfg
  THEN drives' = rows /\ RefreshReturnsTrue(rows)
  ELSE /\ pass' = [pass EXCEPT !.step = "type", !.rows = rows]
       /\ UNCHANGED <<drives, functional, answer>>

\* isStateChanged() is done: doRefresh() builds the table (p is the pass then)
\* or is done, too.
StateChecked(changed, p) ==
  IF changed \/ drives = << >>
  THEN pass' = [p EXCEPT !.step = "type"] /\ UNCHANGED <<functional, answer>>
  ELSE RefreshReturnsTrue(drives)

\* Mutated form: isStateChanged() shifts the wrong register.
NewStateSwapped(presence, failures) == {c + 8 : c \in presence} \cup failures

\* dPresence | (dFailures >> 8): bit c of the result is bit c + 8 of failures.
NewState(presence, failures) == presence \cup {c \in Channel : c + 8 \in failures}

WithRow(c, row) == [k \in DOMAIN pass.rows \cup {c} |-> IF k = c THEN row ELSE pass.rows[k]]

RowFor(c, sn, iface) == [sn |-> sn, iface |-> iface, failed |-> c \in pass.failures]

NextChannel == First(cfg \ DOMAIN pass.rows)

\* What a read of the serial number may return.
SerialRead(c) == {SerialAt(c)} \cup (IF FaultsAllowed THEN {NoDrive} ELSE {})

-----------------------------------------------------------------------------
(* Mutated forms (no action uses them) *)

\* isStateChanged() of V1 without the presence-changed register.
ReadFailuresOnly ==
  /\ At("failures")
  /\ cachedState' = NewState(pass.presence, failed)
  /\ StateChecked(NewState(pass.presence, failed) # cachedState, [pass EXCEPT !.failures = failed])
  /\ UNCHANGED <<world, drives>>

\* The result of the read is only logged.
ReadChangedIgnored ==
  /\ At("changed")
  /\ latch' = FALSE
  /\ StateChecked(FALSE, pass)
  /\ UNCHANGED <<proto, slot, failed, leds, cfg, cachedState, drives>>

\* findChannelByDriveSN() trusts the table.
VerifyNothing ==
  /\ At("verify")
  /\ IF pass.op = "find" THEN Reply("found")
     ELSE pass' = [pass EXCEPT !.step = "led"] /\ UNCHANGED answer
  /\ UNCHANGED <<world, cachedState, drives, functional>>

\* findChannelByDriveSN() without the complement of the cache.
VerifyKeepingCache ==
  /\ At("verify")
  /\ \E sn \in SerialRead(pass.channel) :
       CASE sn # pass.drive -> Reply("outdated")
         [] sn = pass.drive /\ pass.op = "find" -> Reply("found")
         [] OTHER -> pass' = [pass EXCEPT !.step = "led"] /\ UNCHANGED answer
  /\ UNCHANGED <<world, cachedState, drives, functional>>

-----------------------------------------------------------------------------
Init ==
  /\ proto \in Protos
  /\ slot \in {s \in [Channel -> Slot] :
                 \A c, k \in Channel : s[c] = s[k] /\ s[c] # NoDrive => c = k}
  /\ failed = {}
  /\ latch = FALSE
  /\ leds = {}
  /\ cfg = Channel
  /\ cachedState = {}
  /\ drives = << >>
  /\ functional = TRUE
  /\ answer = "none"
  /\ pass = Idle

\* The backplane: any time, also between two transfers of a pass.
Disturb == pass' = IF At("idle") THEN pass ELSE [pass EXCEPT !.calm = FALSE]

Moved(newSlot) ==
  /\ slot' = newSlot
  /\ latch' = TRUE
  /\ Disturb
  /\ UNCHANGED <<proto, leds, cfg, cachedState, drives, functional, answer>>

Plug(c, d) ==
  /\ slot[c] = NoDrive
  /\ \A k \in Channel : slot[k] # d
  /\ Moved([slot EXCEPT ![c] = d])
  /\ UNCHANGED failed

Pull(c) ==
  /\ slot[c] # NoDrive
  /\ Moved([slot EXCEPT ![c] = NoDrive])
  /\ failed' = failed \ {c}

DriveFails(c) ==
  /\ DrivesFail
  /\ slot[c] # NoDrive
  /\ c \notin failed
  /\ failed' = failed \cup {c}
  /\ Disturb
  /\ UNCHANGED <<proto, slot, latch, leds, cfg, cachedState, drives, functional, answer>>

\* refresh(), from the timer or for a lookup of drive d.
Begin(op, d) ==
  /\ At("idle")
  /\ pass' = [Idle EXCEPT !.step = "presence", !.op = op, !.drive = d,
                          !.forced = answer = "outdated"]
  /\ answer' = "none"
  /\ UNCHANGED <<world, cachedState, drives, functional>>

Refresh == Begin("refresh", NoDrive)
Lookup(op, d) == Begin(op, d)

\* updateConfig() with other channels
UpdateConfig(channels) ==
  /\ ReconfigAllowed
  /\ At("idle")
  /\ channels # cfg
  /\ cfg' = channels
  /\ pass' = [Idle EXCEPT !.step = "presence", !.forced = answer = "outdated"]
  /\ answer' = "none"
  /\ UNCHANGED <<proto, slot, failed, latch, leds, cachedState, drives, functional>>

\* isStateChanged(): getDrivesPresence()
ReadPresence ==
  /\ At("presence")
  /\ pass' = [pass EXCEPT !.step = "failures", !.presence = Present]
  /\ UNCHANGED <<world, cachedState, drives, functional, answer>>

\* isStateChanged(): getDrivesFailures(), and the comparison. V1 goes on to read
\* the latch if nothing changed.
ReadFailures ==
  /\ At("failures")
  /\ cachedState' = NewState(pass.presence, failed)
  /\ LET p       == [pass EXCEPT !.failures = failed]
         changed == NewState(pass.presence, failed) # cachedState
     IN  IF proto = "V1" /\ ~ changed
         THEN pass' = [p EXCEPT !.step = "changed"] /\ UNCHANGED <<functional, answer>>
         ELSE StateChecked(changed, p)
  /\ UNCHANGED <<world, drives>>

ReadChanged ==
  /\ At("changed")
  /\ latch' = FALSE
  /\ StateChecked(latch, pass)
  /\ UNCHANGED <<proto, slot, failed, leds, cfg, cachedState, drives>>

\* doRefresh() for the next channel: V0 reads its type now, V1 has read all
\* types for the first one. A present drive without a type ends the pass.
ReadType ==
  /\ At("type")
  /\ LET c     == NextChannel
         types == IF pass.rows = << >> \/ proto = "V0"
                  THEN [k \in Channel |-> TypeOf(slot[k])] ELSE pass.types
     IN  CASE types[c] = "NoDisk" /\ c \in pass.presence ->
                RefreshReturnsFalse /\ UNCHANGED drives
           [] HaveDriveI2C /\ types[c] = "NVMe" ->
                /\ pass' = [pass EXCEPT !.step = "sn", !.types = types]
                /\ UNCHANGED <<drives, functional, answer>>
           [] OTHER ->
                LET rows == WithRow(c, RowFor(c, NoDrive, types[c]))
                IN  IF DOMAIN rows = cfg
                    THEN Collected(rows)
                    ELSE /\ pass' = [pass EXCEPT !.types = types, !.rows = rows]
                         /\ UNCHANGED <<drives, functional, answer>>
  /\ UNCHANGED <<world, cachedState>>

\* readDriveSN() of the next channel; an error reads as an empty number.
ReadSN ==
  /\ At("sn")
  /\ \E sn \in SerialRead(NextChannel) :
       Collected(WithRow(NextChannel, RowFor(NextChannel, sn, "NVMe")))
  /\ UNCHANGED <<world, cachedState>>

\* findChannelByDriveSN() verifies the row it found. If it is outdated, the next
\* query is forced to refresh.
Verify ==
  /\ At("verify")
  /\ \E sn \in SerialRead(pass.channel) :
       CASE sn # pass.drive -> cachedState' = Bits \ cachedState /\ Reply("outdated")
         [] sn = pass.drive /\ pass.op = "find" -> UNCHANGED cachedState /\ Reply("found")
         [] OTHER -> /\ UNCHANGED <<cachedState, answer>>
                     /\ pass' = [pass EXCEPT !.step = "led"]
  /\ UNCHANGED <<world, drives, functional>>

\* setDriveLocationLED(), getDriveLocationLED(), which V0 does not support
DriveLED ==
  /\ At("led")
  /\ LET c         == pass.channel
         supported == proto = "V1" \/ pass.op # "get"
     IN  /\ functional' = (functional /\ (c \in cfg => supported))
         /\ leds' = CASE c \in cfg /\ pass.op = "on"  -> leds \cup {c}
                      [] c \in cfg /\ pass.op = "off" -> leds \ {c}
                      [] OTHER -> leds
         /\ Reply(IF c \in cfg /\ supported THEN "found" ELSE "error")
  /\ UNCHANGED <<proto, slot, failed, latch, cfg, cachedState, drives>>

\* resetDriveLocationLEDs(): one write with V1, one per channel with V0, where
\* the first that fails leaves the rest of the LEDs as they are.
ResetLEDs ==
  /\ At("idle")
  /\ \/ leds' = {} /\ UNCHANGED functional
     \/ /\ FaultsAllowed
        /\ leds' \in IF proto = "V1" THEN {leds} ELSE {{c \in leds : c >= k} : k \in Channel}
        /\ functional' = FALSE
  /\ UNCHANGED <<proto, slot, failed, latch, cfg, cachedState, drives, answer, pass>>

\* A transfer fails and the handler catches the exception, or the type read is
\* none that there is. (A failed read of a serial number is part of ReadSN and
\* Verify.)
TransferFails ==
  /\ FaultsAllowed
  /\ \/ /\ pass.step \in {"presence", "failures", "changed", "type"}
        /\ RefreshReturnsFalse
     \/ /\ At("led") /\ pass.channel \in cfg
        /\ functional' = FALSE
        /\ Reply("error")
  /\ UNCHANGED <<world, cachedState, drives>>

Handler ==
  \/ ReadPresence \/ ReadFailures \/ ReadChanged \/ ReadType \/ ReadSN
  \/ Verify \/ DriveLED \/ TransferFails

Start ==
  \/ Refresh
  \/ \E op \in Ops, d \in Drive : Lookup(op, d)
  \/ \E channels \in (SUBSET Channel) \ {{}} : UpdateConfig(channels)

Next ==
  \/ Handler
  \/ Start
  \/ ResetLEDs
  \/ \E c \in Channel : Pull(c) \/ DriveFails(c) \/ (\E d \in Drive : Plug(c, d))

Spec == Init /\ [][Next]_vars

\* The handler runs on and the timer fires.
FairSpec == Spec /\ WF_vars(Handler) /\ WF_vars(Start)

-----------------------------------------------------------------------------
(* Properties *)

\* The type invariant.
TypeOK ==
  /\ proto \in Protos
  /\ slot \in [Channel -> Slot]
  /\ failed \subseteq Present
  /\ latch \in BOOLEAN
  /\ leds \subseteq Channel
  /\ cfg \in (SUBSET Channel) \ {{}}
  /\ cachedState \subseteq Bits
  /\ drives \in UNION {[C -> Row] : C \in SUBSET Channel}
  /\ functional \in BOOLEAN
  /\ answer \in {"none", "found", "notFound", "outdated", "error"}
  /\ pass \in Pass

\* The table shows the drives in the configured slots.
Matches ==
  /\ DOMAIN drives = cfg
  /\ \A c \in cfg : drives[c].sn = SerialDue(c) /\ drives[c].iface = TypeOf(slot[c])

\* A table that does not show the drives never goes unnoticed: the next
\* isStateChanged() (its cache, the latch of V1, the empty table) will tell.
\* What makes skipping the rebuild in doRefresh() sound with V1.
StaleIsNoticed ==
  proto = "V1" /\ At("idle") /\ ~ Matches =>
    drives = << >> \/ latch \/ cachedState # NewState(Present, failed)

\* If nothing happened to the drives meanwhile, a request only switches the LED
\* of the channel where its drive is, however old the table is: what verifying
\* the serial number in findChannelByDriveSN() is for.
LedOfTheDrive ==
  [][\A c \in Channel : (c \in leds) # (c \in leds') /\ At("led") /\ pass.calm
       => slot[c] = pass.drive /\ c \in cfg]_vars

\* A lookup during which nothing happens to the drives ends without the drive,
\* which is in a configured slot and can be asked for its serial number.
Misses ==
  /\ pass.op # "refresh" /\ pass.calm
  /\ At("idle")' /\ answer' \in {"notFound", "outdated"}
  /\ \E c \in cfg : SerialDue(c) = pass.drive

\* That does not happen with V1 (StorageManager.interface.yaml:7: "Return port
\* name where the drive is installed"),
FindsInstalled == [][proto = "V1" => ~ Misses]_vars

\* nor, with either protocol, when the lookup before has met an outdated row
\* (backplane_control.cpp:380: "force to refresh on next query").
FindsOnRetry == [][pass.forced => ~ Misses]_vars

\* refresh() returns true, and nothing happened to the drives since it began.
RefreshDone ==
  pass.op = "refresh" /\ ~ At("idle") /\ pass.calm /\ At("idle")' /\ functional'

\* Then the table has the types of the drives in the configured channels
\* (BackplaneMCU.interface.yaml:8: "The list indicates states of the backplane
\* ports", "DriveInterface indicates drive type, connected to the port").
RefreshShowsTypes ==
  [][RefreshDone => /\ DOMAIN drives' = cfg'
                    /\ \A c \in cfg' : drives'[c].iface = TypeOf(slot'[c])]_vars

\* And it has the failures ("Failed indicates if drive had fails").
RefreshShowsFailures ==
  [][RefreshDone => \A c \in DOMAIN drives' : drives'[c].failed = (c \in failed')]_vars

\* Once the drives are left alone, the table of a V1 MCU shows them for ever (V0
\* never notices that a drive was exchanged between two refreshes).
TableSettles == proto = "V1" /\ <>[][UNCHANGED slot]_slot => <>[]Matches
=============================================================================
