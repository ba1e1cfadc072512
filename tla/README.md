# Verification of the YADRO OpenBMC hardware services

TLA+ models of the services in this repository, TLC configurations that check
them on small instances, and TLAPS proofs of the properties that matter most for
every instance. Paths below are relative to the repository's root (`src/storage/…`
is C++ source), names of modules and definitions are those of this directory.

1. The system
2. Which module models what
3. The runs: what they check, their bounds
4. Fairness
5. The proofs
6. Where code and documentation disagree
7. What is not claimed
8. What is not modelled
9. Plan

## 1. The system

Three daemons and three tools run on a BMC. They talk to each other only through
D-Bus, the MCU's registers and the processes that one starts.

| component | state it keeps | operations | talks to |
|---|---|---|---|
| **yadro-storage-manager**, `src/storage/main.cpp`, `backplane_control.cpp`, `common_swupd.cpp` | a controller per backplane MCU (cached version, type and drive table, the watched updater), a software object per package and MCU, the drive inventory | D-Bus: `FindDrive`, `Set/GetDriveLocationLED`, `ResetDriveLocationLEDs`, `Rescan`, `RequestedActivation`; signals: new software, new configuration, host state; timers: refresh (10 s), configuration; SIGCHLD | MCUs over I2C, the updater it forks, software manager, state service |
| **`PowerState`**, `src/common.cpp` | last known power state, subscription, callbacks | `addCallback`, `setPowerState`, host signal | both managers |
| **MCU drivers**, `src/mcu/backplane_mcu_driver_v0.cpp`, `_v1.cpp` | cached state bits, the type word of V1, the flash offset | registers of two protocols | I2C |
| **yadro-mcu-updater**, `src/mcu/updater.cpp` | a position in an image | write, verify, reboot, wait, check | one MCU |
| **yadro-mcu-reflash**, `src/mcu/reflash.cpp` | table of boards and images | scan of boards at service start | all MCUs |
| **yadro-hw-manager**, `src/hw/main.cpp`, `hw_mngr.cpp` | configuration found and published, state of the fan detection, fan features (a file) | scan of the FRUs, fan detection in two passes, minimal speed of PID zones | FRU service, hwmon, PID control |
| **PCIe configuration**, `src/hw/pcie_cfg.cpp` | merged bifurcation of each CPU port, for one scan | add a claim, publish when destroyed | settings service |
| **product registry**, `src/hw/product_registry.hpp` | constant tables | lookup | yadro-hw-manager |
| **software activator**, `src/swupd_activator.cpp` | none | list packages, request activations | software objects |
| **network adapter manager**, `src/network/` | objects of a file | `Rescan`, called at the start and through D-Bus | D-Bus clients |
| **I2C access**, `src/common_i2c.cpp` | count of log messages | transfers, each tried three times | kernel |
| helpers, interfaces, unit files | none | | |

Each daemon is one thread around an event loop: handlers do not interleave with
each other. What does interleave is

* the processes: an updater writes to the MCU while the manager's timer, D-Bus
  calls and power events want to talk to it; its exit is seen only when the loop
  handles SIGCHLD;
* the hardware: drives are plugged and fans speed up between two transfers
  of one handler, MCUs reboot when they are told to, or not;
* messages in flight: host signals are queued, the state is read meanwhile;
* blocking D-Bus calls of one handler, between which other services act;
* systemd: a service dies anywhere and is restarted (`Restart=always`).

What is hard, and what makes the components correct:

* **Firmware update.** An activation must reach the right object exactly once,
  although fork, updater and MCU fail anywhere; nobody else may touch an MCU
  that is being flashed; cached values must not survive the update; an image
  must fit its board.
* **Flash.** The MCU must never be rebooted into half an image, half an image
  must never stay behind for the next updater, success must mean success.
* **Drive table.** The table is rebuilt only on a sign of change; the signs are
  consumed before it is rebuilt, in several transfers. A lookup may use an
  outdated row; an LED must not be lit at another drive.
* **Host power.** No change of the host may be lost between subscription and
  first read, nor while the answer is on its way; an old state an MCU is told must
  not be the last it hears.
* **Fans.** A detection puts the fans to full speed for five seconds and must set
  them back, whatever the host, the product and the timers do meanwhile. It must
  end. PID zones must not stay too slow.
* **PCIe and the scan.** Boards claim lanes in the order of their D-Bus paths; the result must
  not depend on it, and no accepted claim may be taken back. A scan may be given up
  half way and repeated, with other boards: nothing of an earlier one may be left.
* **Tools.** The activator looks at objects that change while it looks; what it
  reports must be true of all of them. reflash starts with the service, also
  over the flash of an updater that was killed, and looks at no version afterwards.

`PROJECT.json` lists these at their lines under `hazards`.

## 2. Which module models what

| module | code | kind |
|---|---|---|
| `Flashing` | what the manager has to expect of updaters, reflash and the MCUs | interface |
| `FirmwareUpdate` | manager and software objects, on `Flashing`, several MCUs | concurrent |
| `UpdateSession` | what a client of the `Activation` property is promised | abstract specification |
| `Activator` | the software activator tool, call by call, beside other clients of `UpdateSession` | composition |
| `McuFlash` | the inside of yadro-mcu-updater and of yadro-mcu-reflash, transfer by transfer, several at once, with their MCU; implements `Flashing` | concurrent, faults |
| `DriveTable` | one controller and its backplane, transfer by transfer | concurrent, faults |
| `HostPower` | `PowerState`, configuration and notification of several MCUs | concurrent, queue |
| `HwManager` | yadro-hw-manager: scan, fan detection, minimal speeds over time | timers, faults, restart |
| `PcieConfig` | `pcieCfg` in successive scans | algorithm, checked against a closed form |
| `ProductRegistry` | the tables of connectors and of fan speeds | data, with assumptions TLC evaluates |
| `FanConfig` | `HWManagerData` and what is published of it | options to fans |
| `Inventory` | `createInventory()`, one scan with both of its consumers | composition |
| `MC…` | instances for TLC | |
| `…Proofs` | TLAPS proofs | |

The firmware update is built in three layers. `UpdateSession` is what clients
are promised; `FirmwareUpdate` implements it (`Session == INSTANCE UpdateSession
WITH session <- activation`) and EXTENDS `Flashing`, every step of which it
either takes or leaves alone (theorem `ManagerKeepsToFlashing`); `McuFlash`
implements `Flashing` for one MCU (`Expected == INSTANCE Flashing WITH …`,
theorem `FlashingRefinement`). So the manager rests on nothing about updaters,
reflash and drivers that their models do not show. MCUs share no state, and
one process writes to one MCU, which is why one is enough.

`HostPower` and `DriveTable` detail `SendCommand`, `Refresh` and `DriveRequest` of `FirmwareUpdate`. `Activator` works on what
`UpdateSession` promises, so that what is proved of it holds with the manager of
`FirmwareUpdate`. `Inventory` EXTENDS `PcieConfig` and `FanConfig` and implements
the first (theorem `ImplementsPcieConfig`); its `Expose` and `DetectTimer` abstract
the detection that `HwManager` has in detail, and `HwManager` in turn keeps of the
configuration only the minimal speeds.

### Flashing

Of an updater the interface has its `phase`, the object it was forked for (`job`) and what it
may do in each phase: write ("running"), send the reboot command ("told"), wait for
the MCU and look at its version ("verifying"), end. Of an MCU it has the firmware, whether it
answers (`boot`), and the whole image in its update area, if there is one (`area`):
a transfer of anyone may complete one or leave none (`Writes`, `ReflashWrites`), also with updaters that
overlap, and when the MCU goes down its boot loader installs what it finds there
(`GoesDown`). An MCU that was told to reboot still answers for a moment.
`starting` is true while the service starts, which is when reflash runs
(`ExecStartPre`) and the manager does not.

### FirmwareUpdate

The manager's handlers are atomic. MCUs are numbered in the order of the
`std::map` the manager iterates over: a handler that loops over them ends at the
first one that throws, which is the first that is updating (`Reached`).

* `activation[o]`: the `Activation` property of the object of one package on
  one MCU; "None" before it exists. `announced`: packages already announced
  (`softwareAdded()`); `published`: the properties of each controller, empty
  values included; `watched`: `updaterWatcher`.
* `SoftwareAdded`, `ForkUpdater`/`ForkFails` (`requestedActivation()` and
  `updateImage()`), `ChildExited`/`ChildStopped` (its callback), `Refresh`,
  `ApplyConfiguration`, `DriveRequest`, `SendCommand`. Each has the
  `isUpdating()` check of its handler as a guard.
* `UpdaterGoesOn`, `UpdaterEnds` and `BoardStep` are the steps of `Flashing`. An updater
  exits without the manager knowing: `Unreaped`.
* `sd_event_add_child` is asked for stopped and continued children as well and
  the callback takes such an event for the end: `signalled`, `ChildStopped`.
* `Restart`: the manager and its children die and the service starts, possibly
  more than once; `ManagerRestarted`: the manager is back with new controllers. Packages are
  not announced again, so their objects do not come back.
* `left` is history: the MCUs that had a whole image in their area when the
  last updater was reaped or the manager started.
* `displaced` is history: the objects whose updater was being watched (`Served`) when
  a fork for another package on the same MCU took `updaterWatcher`.

An `Activation` written by others through D-Bus and a package announced twice
under one id are excluded; the value of `RequestedActivation` is not looked at
(the code compares it with Active). An empty answer of an MCU is accepted by
`refresh()` and leaves the cache empty: this is in the model.

### McuFlash

`flash` has a cell per chunk: erased, a chunk of one of the images, or garbage. Programming a cell that
is not erased spoils it, unless the same bytes are written again (a repeated
transfer whose acknowledge was lost). The boot loader installs a complete image
and erases the area. After the reboot command the MCU answers for a moment
("told"), is then silent ("down"), then up. `force` is `--force-erase`;
`tries` counts the reads of `MCUProtoV0::writeFlash`, which accepts the chunk after
the last one unless that failed. The model is of updaters with an image and an
expected version. Sizes of images are abstracted to a number of chunks; a short last chunk is a
chunk. `ReadsShort` is the other end of the updater's loop (`updater.cpp:106-124`): the file was shortened
after its size was taken, or reading it fails. The code counts the bytes it has read (`bytesRead`) but never compares
them with `imageSize`, and goes on to the reboot: so does the model, with the process in `short`, after whole chunks only or
after a part of one (which is no piece of an image, as no boot loader takes a truncated image for whole). It is one of the
faults. reflash maps its images into memory and has no such end.

Any number of updaters run at once (the manager forks a second one when another
package is activated, an operator may start one), each with its own position. One that
starts while another is at work counts among the `MaxFaults` faults, so that a behaviour
has as many overlaps as it has of the rest.
They share the flash and, with V1, `location`: `writeFlash()` sets it in
one transfer (`Locate`), writes at it in the next (`Write`) and reads back from it
(`VerifyV1`), and a transfer of another process may come in between. V0 sends the offset with the
data (`Place`).

`ServiceStarts` is a start of the manager's service: it ends all updaters (one
that an operator has started is taken to end too), and `Reflash` is `updateMCU()` for the one board with this MCU.
Reflash and the updaters share everything from `writeFlash()` to the pings (`Writer`).
Only an updater erases first and only it checks the version in
the end (`Check`); reflash reports what its pings told (`Reflashed`). An erasure that failed
is taken not to have been done.

`boots`, `astray`, `short`, `cut` and `faults` are history: reboots of the MCU since a process began,
processes that others came in between of (or whose location arrived spoiled), updaters whose file ended early, a process that could not clean up,
and the faults so far. A ping is taken to reach the MCU only after it has gone down: `updater.cpp:137`
sleeps for a second before the first one. `Whole`, `Progress` and `Job` map the state to that of `Flashing`.

### Activator

`tool` is the local state of `activate()`: the objects it has still to read or to request,
those selected, and those it read as running or done. Every D-Bus call is a step;
between two of them `Others` are the steps of `UpdateSession`, which stand for
the manager and all other clients. A request is one that begins a session there, is
refused there, or is ignored there. Options `-i` and `-t` are `version` and `target`.

### DriveTable

One action per transfer (`ReadPresence`, `ReadFailures`, `ReadChanged`,
`ReadType`, `ReadSN`, `Verify`, `DriveLED`); `pass` holds the local variables
of the handler. `Plug`, `Pull` and `DriveFails` may happen between any two.
`cachedState` is a set of bits: bit 0 stands for those no register reaches, so
that the complement of `findChannelByDriveSN()` differs from every value that
can be read. `NewState` shifts the failures the way the code does. A lookup
works on the first row with the serial number. With V0 location LEDs cannot be
read: a `GetDriveLocationLED` makes the controller "not functional".

`HaveDriveI2C` is `cfg.haveDriveI2C`: without it no serial numbers are read for the
table (`SerialDue`) and a lookup finds nothing. It is a constant: `UpdateConfig` changes
the channels only. A type the MCU cannot tell (`DriveTypes::Unknown`) ends the pass the way a
failed transfer does and is one of the faults (`TransferFails`); the runs and theorems
without faults say nothing of backplanes that answer so. A request names a drive; the manager refuses an empty serial number (`main.cpp:410`).

### HostPower

`signals` is the D-Bus queue, `powerState` what the manager knows, `told` what
each MCU was told last. Every handler is one action but `addCallback()`, in its blocking
read (`common.cpp:41-52`): `AddCallback` subscribes and asks, `HostAnswers` is the moment at which the
state service looks, `ReadHostState` takes the answer. The host changes between any two of them, its
signals are queued behind the read (`Receives`), and no other handler of the manager runs meanwhile (`Busy`).
So the answer may be older than a signal that is already in the queue, or newer than all of them, in which case the
manager hears older states after it. `ApplyConfiguration(read)` fails after `read` objects or
at a controller that is updating, and subscribes only if it comes to its end
with a controller that wants the state. Controllers of withdrawn configurations
stay, as in the code.

### HwManager

The scan is posted (`scan`), the detection timer is `timer`, the timer of
`setFanSpeedDelayed()` is `pid`. `detectFansState` is `state`; a call of
`processDetectState()` is `Process(st, armed, known)`, with one operator for
each way through it (`NoProduct`, `FromFile`, `NoTable`, `Begins`,
`Finishes`). `AtRest` and `AtFull` are `processSystemFans()` in the two passes.
PWM values are "low" (what the fan control had set), "full" (255), "off" (0). A
tachometer reads zero, in the range of one of the part numbers, or anything else;
what it may read depends on host, fan, PWM and on whether the fan had time to speed up (`Reads`).
`setFanSpeed()` is taken apart at its D-Bus calls (`SpeedTimer`, `GetSpeed`,
`SetSpeed`, `SpeedFails`).

No other process writes PWM files in the model (in a running system
phosphor-pid-control, which is external, does); fans, table and hwmon do not change within a behaviour;
the features file is written in one step.

### PcieConfig

A byte is a pair of hexadecimal digits, one for each half of a port. `Option`
has all 256 of them for any port and for J45 (`raduni`), and options that are too short: bytes that are modes, old style
bytes (`0x00` … `0x0F`), bytes with no half in use (0xFF) and others that mean nothing. `Add` is the four branches of
`addBifurcationConfig()`. A scan may meet any options in any order: the paths of
the boards come from another service, and boards behind the motherboard in their
order are not scanned. A byte
that is not a mode after merging is dropped at publication, as in the code.

### ProductRegistry, FanConfig, Inventory

`ProductRegistry` has the connectors of every product and `getFanInfoByRPM()`. Two
named assumptions are evaluated by TLC: no two fans of a product share a PWM, a
tachometer or a name (`ConnectorsApart`), and a fan is recognised whichever of
its two tachometers is which (`RecognisedEitherWay`).

`FanConfig` has `hw` (the configuration being read), `active` (the one published)
and `fans`, the objects there are: `CpuCooling`, `ChassisFans` and `PidZoneMinSpeed`
are the handlers of an option, `PublishedOf` is `publish()` and `WithSystem`
`publishSystemFans()`. A fan is its connector; names, part numbers and limits are left out.

`Inventory` is one scan: boards before the motherboard have options for `pcieCfg`
only (`PcieOption`), the motherboard (`Motherboard(known)`) for both. It may be given
up when the CPUs cannot be read (`CpusUnknown`): `pcieCfg` is destroyed and so
publishes what it has, the manager does not. `Detects` is the timer of the
detection between two scans.

## 3. The runs

| run | instance | states | shows |
|---|---|---|---|
| `fw_overlap` | 1 MCU, 3 packages of which two fit it, 2 updaters, signals, restarts | 852 k | any interleaving of two updates on one board |
| `fw_fair` | 2 boards, 1 package for both, 1 updater | 173 k | liveness; full refinement of the session |
| `power_all` | 2 MCUs, queue of 2, everything may happen | 200 k | no host change is lost, an old state is corrected |
| `power_update` | the same without failures and reconfiguration | | **violation**, see 6 |
| `drives_calm` | 2 channels, 2 NVMe drives and a SATA drive, V0 and V1 | 960 k | lookups and tables without faults; the table settles |
| `drives_faults` | 2 channels, 1 drive, V0 and V1, faults, failures, reconfiguration | 3.29 M | LED commands hit the right drive |
| `drives_failures`, `drives_error` | 2 channels, 1 drive, V1 | | **violations**, see 6 |
| `flash` | 2 updaters, 3 chunks, 2 tries, 2 pings, 2 faults, V0 and V1 | 1.00 M | every interleaving of faults, files that end early, service starts and a second updater within an update and its retries; refinement of `Flashing` |
| `hw_manager` | 1 fan, 1 zone, 2 attempts, 3 changes, 1 fault | 612 k | detection and speeds |
| `inventory` | product S320, 1 port, 6 bytes and J45, 7 fan options, 3 options a scan, 2 scans | 2.70 M | what a scan, after another one that ended or did not, leaves of both configurations |
| `activator` | 3 boards, 2 packages, 4 objects | 479 k | the tool beside manager and other clients |

What each property says, and the code it is about, is in the comment above it.
In short:

* `fw_overlap`: `WatchedIsActivating` (a result reaches an object that waits
  for it), `ActivatingIsServed` (an object is stranded only by
  an activation that takes the watcher of its updater), `CacheFresh` (what is published is what runs), `CorrectImage`, `HandsOff` (no
  transfer to an MCU that is known to be updating), `WatcherIsKept` (no request
  or handler makes a controller lose sight of its updater), `ActiveOnlyIfInstalled`,
  `ImplementsSessionSafety`.
* `fw_fair`: `NewVersionPublished`, `ImplementsSession`.
* `power_all`: `PowerSettled` (whatever the order of subscription, read and signals), `StaleIsCorrected` (an MCU that is told
  an old state has the signal of the present one in the queue, as the last).
* `drives_calm`: `StaleIsNoticed`, `FindsInstalled`, `FindsOnRetry`,
  `TableSettles`; `drives_faults`: `LedOfTheDrive`.
* `flash`: `CompleteWhenRebooted`, `LeftClean`, `OkMeansInstalled`,
  `FlashedMeansStock` (what reflash reports is true although it checks nothing),
  `Installs`, `ImplementsFlashing`.
* `hw_manager`: `PwmRestored`, `Identified`, `FansShown`, `DetectionEnds`,
  `MinEnforced`.
* `inventory`: `RefusedForCause` (a half in common, or 0xFF), `OrderFree` (the result equals a
  closed form over the set of accepted claims, but for 0xDF beside 0xFD), `SettingsFollowScan`,
  `FanTypeOK` (among others: no connector has fans of two kinds), `FansFollowScan`.
* `activator`: `SuccessStartsAll`.

Every property of a passing run has a mutant in `PROJECT.json`: a plausible slip
in the code, written beside the definition it changes, under which TLC finds the
property violated.

### Why the bounds are enough

* *Updaters*: two slots on one MCU let an updater run beside another or its zombie, and
  be replaced again after that was reaped; two packages are the smallest number with an overlap, and
  the third is one that must not be offered. What depends on
  two MCUs is in `fw_fair` (the order of
  loops; one slot, so that one update follows the other, and the same package for both, so that both boards
  have one to wait for). Updates of several boards at once are covered by the proofs, which are for any number of MCUs.
* *Overlap on the flash*: two updaters are the least in which
  a location is changed between two transfers of the other. They write the same image; different
  ones, and more updaters, are covered by the proofs, which are for any number of each.
* *Queue of 2*: a signal behind one that the read has overtaken is the case that matters;
  `PowerSettled` and `StaleIsCorrected` are proved for every bound.
* *Two channels*: the smallest number with a table half built, and with a swap
  of two drives in one pass.
* *Three chunks*: a first, a middle and a last one. Two faults hit a write and the
  cleaning after it, or an overlap and either of them, or a start of the service after any of these. Two tries and two
  pings: one that is repeated and the last. `FlashTypeCorrect` and the others are proved
  for every number.
* *Attempts*: 2 stands for the 20 of the code (`maxErrorAttempts`, `hw_mngr.cpp:30`): running out while waiting for
  the product, between the two passes, and not at all, all happen. Fans do not
  influence each other but for the faults; one suffices, and `PwmRestored`,
  `Identified` and `FansShown` are proved for any number of fans and of faults. Zones are visited in any order; one is enough because
  each is handled alone, and a failure in another one is `SpeedFails`.
* *Three options, one port*: two halves and a third claim for one of them, or for the
  whole port. Ports do not influence each other; that, and all bytes and any number of ports,
  options and scans, is what the proofs of `PcieConfigProofs` cover. The six bytes
  are one half (J45 has the other), an old one of both halves, an old one of none, 0xFF, and 0xDF and 0xFD, which are no modes
  but together make that of a disabled port.
* *S320* is the product with connectors of all three types, so that lists of zones
  can name a free one, one of a CPU fan and one of a system fan. The theorems are for every product.
* *Three boards*: one done, one requested, one to come while the tool fails or ends.

`MaxScans`, `MaxChanges` and `MaxFaults` end the behaviours
(`inventory` therefore allows a deadlock: after the last scan nothing happens).

`Updater` slots, `MaxQueue`, `MaxFaults`, `MaxChanges`, `MaxScans`, `MaxClaims`
are bounds of the models; `VerifyTries`, `MaxPings` and `MaxAttempts` are bounds
of the code, made small.

## 4. Fairness

* `FirmwareUpdate.Fairness`: an updater ends (its loops are bounded by the size
  of the image, by retry counts and twenty pings), the loop handles child
  events, the refresh timer fires for ever and an MCU that is up does not fail
  every refresh for ever. Boards need not boot: an updater gives up.
* `McuFlash.FairSpec`: the processes run, the MCU boots (only the property that a
  retry succeeds needs it), someone tries again. Strong fairness of the boot
  loader with no process running says that the retry is not for ever faster
  than an MCU that was told to reboot. No fairness is asked of faults.
* `DriveTable.FairSpec`: a handler runs on and the timer fires. No fairness is
  asked of drives and faults.
* `HwManager.FairSpec`: what is posted, expired or received is handled. A call
  is taken to succeed if it is tried again for ever; faults are bounded.

## 5. The proofs

All theorems hold for every value of the constants that satisfies the named
assumptions of the module; the assumptions say no more than that numbers are
numbers, flags are Booleans and "empty" values are different from real ones.

* **FirmwareUpdateProofs.** The inductive invariant `IInv` is proved in layers, each
  from those before it. `QuietStart`: nothing is updating before the manager runs. `Book`
  (`OnlyAnnounced`, `WatchedIsActivating`, `ActivatingIsServed`): which updater
  serves which object, and whose watcher was taken. `Fits` (`TypesAgree`, `CorrectImage`): a cached type is
  the board's. `Fresh` (`CacheFresh`, `ImagesAccounted`): the version is cleared at the end of every
  update, and whoever may reboot the MCU into another firmware after that has either
  not been reaped or left a whole image in its area, which is what `left` remembers.
  `Installed`: a watched updater that is alone on its MCU waits for the reboot it
  asked for itself, so the version it saw is the one that stays. With any number of
  overlapping updaters, aborts and reflash this is the strongest that holds: TLC
  refuted each form without the exceptions. `RefreshedType` and
  `BoardHandlerStep` are the lemmas for everything that refreshes, `ChildStepKeeps` and
  `BoardStepKeeps` for the steps of `Flashing`, and `StepCases` splits a step into those. `HandsOff`,
  `WatcherIsKept`, `ActiveOnlyIfInstalled` and the step simulation of `UpdateSession`
  (`SessionRefinement`) follow step by step; `WatcherStays` is where `WatchedIsActivating`
  earns its keep: a request for an object whose updater is watched finds it Activating.
  `SoleUpdater` proves `UpdatingIsExact` (`isUpdating()` is true exactly while an updater is unreaped)
  for instances with one package per board and no signals
  (both are hypotheses of the theorem; without them it is false, which is what
  the exceptions in the properties of `fw_overlap` are about). `ManagerKeepsToFlashing`: every step of
  the manager is one of `Flashing` or leaves its variables alone.
* **HostPowerProofs.** `Pending`: nothing is asked, queued or known before the
  subscription, the last signal in the queue is the state of the host, and an answer that the host has left
  since has a signal behind it. This makes `PowerSettled` inductive (`NoChangeLost`) and gives `StaleIsCorrected`
  (`StaleIsFollowed`): an old state can be told, by the answer or by a signal the answer has overtaken, but the present
  one follows it. `SteadyInformed`: without updates,
  reconfiguration and failures every MCU that asks for the state knows it, which is
  the promise that `power_update` shows broken with updates.
* **McuFlashProofs.** The invariant is `FlashInv`. `Alone`: while the service starts
  no updater runs, and reflash only then. `Placed`: a process on V1 that nobody came in between of
  and that saw no reboot has all chunks before `next` right (also one whose file ends early), and the location is the one it set. `Told`: a process that
  waits for the MCU has told it to reboot. `Cleaner`: a flash that is not erased is being written, or the MCU is about to
  reboot, or a process was cut off. `Taken`: what reflash has written is what was installed.
  `Patient`: a ping is left. They give `CompleteWhenRebooted`, `LeftClean`, `OkMeansInstalled` and `FlashedMeansStock`
  for any number of updaters, images, chunks and faults. What a step does to others than its process is in one place
  (`MoveFrame`, `Spared`), so that each layer has a case for the process itself and one for all others.
* **The composition.** `FlashingRefinement` proves `Spec => ImplementsFlashing` for `McuFlash`. An updater's
  transfers up to the reboot command are steps of "running", which leave a whole image or none (`WholeWritten`:
  one cell changed at a time; `OneWhole`: at most one image is complete, so `Whole` is well defined); a failed
  write that reboots the MCU is `Aborts`; `Told` and `Alone` give the guards of `Reboots` and of the steps of reflash;
  `BootLoaderRefines` is the one step that moves several updaters. Together with `ManagerKeepsToFlashing` and
  `SessionRefinement` the chain from transfers to the promise made to clients is proved.
* **DriveTableProofs.** `RightLed` (`LedOfTheDrive`) rests on `LedInv`: at the step
  that switches an LED the drive that was looked up is in the slot, unless the
  drives were disturbed since the pass began. `DriveTypeCorrect` (`TypeOK`) rests on
  `Left`: while rows are collected a configured channel is left. `StaleTableNoticed`
  (`StaleIsNoticed`) rests on `TableInv`: after the cache was overwritten with
  the presence that was read, either it differs from the drives' presence, or the
  latch is set, or every row collected so far is right. Its hypothesis `Given`
  (working transfers, fixed channels) is needed: `drives_error` shows a failing
  transfer losing the change. That the registers are bytes (at most 8 channels,
  `ChannelAssumption`) is needed too: with more, failures shifted into the bits
  of the presence could hide a change. `InstalledIsFound` (`FindsInstalled`) and
  `RetryFinds` (`FindsOnRetry`) rest on `FindInv`: `CalmRows` (what a pass has read
  while nothing happened is right) and `Forced` (the complement of the cache has a
  bit that no register reaches, so a forced pass never takes the old table). `Hits` is
  the step formula both follow from. `RetryFinds` needs working transfers only,
  `InstalledIsFound` fixed channels too, because it relies on `TableInv`.
* **HwManagerProofs.** `Fine(state)`: unless something went wrong, in "detect"
  every fan's remembered PWM is the one it had, and a fan that did not turn was
  not touched; in all other states every PWM is the old one. `ProcessIsRight` is
  proved once for `processDetectState()` and used for its two callers.
  `DetectionHasTimer` proves `NeverForgotten`, which no run repeats. `ShownInv`
  gives `FansAreIdentified` and `FansAreShown`: an undisturbed detection
  (`Undisturbed`) finds all fans turning at full speed. `ManagerTypeCorrect` adds the types.
  Two theorems give what `MinEnforced` and `DetectionEnds` come to without fairness. `SlowZonesAreSeen`
  (`EnforcedAtRest`) rests on `SpeedInv`: while a pass of `setFanSpeed()` is at work the zones it has left
  behind are fast enough, because what slows one of them, or asks for more, starts the timer again. `DetectionMovesOn`
  (`DetectionAdvances`) says that a step of a detection ends it or uses one of its attempts, and with
  `DetectionHasTimer` the next one is always due. The two definitions were checked with TLC on two zones
  before they were proved; no run repeats them. `NoneAssumption` only keeps `None` apart from the data.
* **PcieConfigProofs.** `Right(byte, bytes)` says what a port's byte owes to the bytes
  that were accepted for it: a half is in use only because one of them uses it, it is 0xFF only if one of them is,
  it honours all of them and is "Disabled" only if all are, unless 0xDF and 0xFD are among them. `KeepIsRight` and
  `RefuseIsRight` are about bytes alone, all 256 of them; `PortsRight` is the invariant, from which
  `RefusedForCause`, `ClaimsHonoured` (`LanesAreKept`, an invariant that no run repeats), `SettingsFollowScan` and
  `OrderFree` (`OrderMakesNoDifference`: a port is what the accepted claims say, half by half) follow.
* **InventoryProofs.** `ImplementsPcieConfig`: every step of a scan is one of `PcieConfig` or
  none, so the theorems above hold in it (`LanesAreKeptInScans`). `FansAreApart`
  (`FanTypeOK`) and `FansAreAsTold` (`FansFollowScan`) are for every product of the registry, and
  for any zones, CPUs and options.
* **ActivatorProofs.** `ToolStartsAll` (`SuccessStartsAll`): an object that was selected and
  is not to be requested any more has left "Ready", and no step of `UpdateSession`
  but a restart takes it back.

`CHOOSE` is kept out of what is proved where it can be. Where the models need it (the first row of a table, the
one board with an option) the leaves that mention it cite Zenon, which treats it as Hilbert's operator; no proof relies on
what the SMT translation makes of it.

Model-checked only: everything under fairness, which is out of the prover's
reach (`NewVersionPublished`, the liveness part of `ImplementsSession`, `TableSettles`, `Installs`,
`DetectionEnds`, `MinEnforced`). Of the last two the part that needs no fairness is proved (`DetectionMovesOn`,
`SlowZonesAreSeen`); that a due timer expires and a posted call is made stays with TLC. Every invariant and every action property of a
passing run is a theorem.

## 6. Where code and documentation disagree

Three runs expect a violation:

* `power_update`: a power transition during a firmware update is dropped for that
  MCU and never repeated (`Informed`).
* `drives_failures`: a failure that is the only change is never published,
  because `dFailures >> 8` shifts the bits of the channels out of the cached
  state (`RefreshShowsFailures`).
* `drives_error`: a transfer that fails while the table is built loses the
  change, because the cached state (and the latch of V1) is consumed before it;
  a later refresh succeeds with the old table (`RefreshShowsTypes`).

Met while modelling, without a run of their own:

* A second activation on an MCU replaces `updaterWatcher`: the first updater goes
  on beside the second, and its object stays Activating for ever. `ActivatingIsServed`
  excepts the objects whose watcher was taken this way (`displaced`) and no others: one whose
  fork failed, or that was settled, excuses nobody. `OnlyOverlapStrands` proves it.
* The updater's loop ends when its file does, however short that is of the size it began with, and the MCU is rebooted
  (`updater.cpp:106-135`). `CompleteWhenRebooted` claims the chunks read of such an updater, not all; it is the version
  check after the reboot that keeps it from reporting success (`OkMeansInstalled` has no such exception).
* A failed write reboots the MCU, and `src/mcu/updater.cpp:129` says that this "Enforces the MCU's boot loader
  to clean the flash up" (`src/mcu/reflash.cpp:107`: "Force MCU reboot to clean up the flash chip"). If the transfer that failed was
  that of the last chunk and its bytes had arrived (a lost acknowledge, a failed read back), the image is whole and the
  boot loader installs it, while the update is reported as failed. The MCU
  still answers with the old version for a moment: a refresh at that moment publishes it, and nothing reads it again.
  `CacheFresh` has this exception (`left`), `Aborts` and `GoesDown` have the behaviour.
* When two updaters overlap on one MCU, the image that is installed need not be that of the one that rebooted it, and
  may be of neither's choosing in part: `CompleteWhenRebooted` asks that nobody came in between.
* With V0 a drive that replaces another between two refreshes is not noticed
  (presence only). `FindsInstalled` is stated for V1, `FindsOnRetry` for both.
* `GetDriveLocationLED` throws on V0 and marks a working controller.
* A controller that is created after the subscription is not told the power
  state until the next transition.
* `updateConfig()` with other channels leaves the old table until a drive changes.
* V0 accepts a chunk that never matched, if the last read did not fail. With it,
  or after more than one reboot, "Flashed with" of reflash need not be true:
  `FlashedMeansStock` is stated for V1 and one reboot.
* A service restarted between the two passes of the fan detection takes 255 for
  the initial PWM; attempts that run out there leave the fans at 255; a PWM that
  cannot be read is restored as 0. `PwmRestored` excepts these (`stuck`), and a fan left at PWM 0 this way
  is not measured by the next detection either: `Identified` asks for fans that were on.
* `src/hw/pcie_cfg.cpp:153-165` refuses 0xFF beside any byte with both halves in use, and any such byte beside 0xFF,
  although 0xFF uses no half: `RefusedForCause` names this. 0xDF and 0xFD merge to 0xDD, which is taken for
  "Disabled" and gives way to any other claim: `HalvesDisabled` excepts a port with both. Neither byte is a mode.
* The comment at `src/hw/pcie_cfg.cpp:128-131` says an unused half is requested
  as `x8`; the code takes the digit F for unused and refuses x8 against x8.

## 7. What is not claimed

Behaviour of the code that is in the models and that a property names as an exception, so that it
says nothing of it. The hazards of `PROJECT.json` that have no property are among these.

* *A stopped updater* (`backplane_control.cpp:532`): the watcher takes SIGSTOP or SIGCONT of the child for its end. The object is
  told "Failed" and the updater goes on unwatched: `WatcherIsKept` and `CacheFresh` (while it is unreaped) leave it out.
* *An image left whole* (`updater.cpp:130`): `CacheFresh` excepts the MCUs in `left`, whose old version may stay published.
* *A displaced object* (`backplane_control.cpp:533`) stays Activating until the manager restarts.
* *A controller created after the subscription* (`common.cpp:44`), and one whose send failed: `Informed` is only run where it
  is violated by an update; `SteadyInformed` proves it without updates, reconfiguration and failures.
* *Faults in a refresh of the drive table*: `StaleIsNoticed`, `FindsInstalled`, `FindsOnRetry` and `TableSettles` are of
  transfers that work and types that are told; `drives_error` shows what one failure does.
* *False failures*: `OkMeansInstalled` says that success is true, not that a failure is (an image that the boot loader installs
  after the updater gave up).
* *A detection that went wrong* (`stuck`): restarted between its passes, out of attempts at full speed, or with a PWM
  that could not be read. `PwmRestored` and `Identified` leave it out, `FansShown` the end of attempts.
* *Zones missed* by a pass that failed, or changed by others between Get and Set (a lost update): `MinEnforced` leaves out what is in `missed`, and
  what another client wrote in between may be overwritten.
* *Objects of other services* in the activator, and sessions across a restart of the manager.

## 8. What is not modelled

The drive inventory and the network adapter manager replace their objects by what a file says, at
their start and when `Rescan` is called; the handler depends on the file alone and no other handler
looks at these objects, so there is no order of steps to check (a bad row ends it with the
rows before it published). `common_i2c` and the helpers wrap library calls and are
in the models as transfers that succeed, fail, or have had their effect although they failed. The walk of a lookup over
several controllers is only in `FirmwareUpdate` (`DriveRequest`), without drives. Of reflash
the walk over several boards, of the activator the listing of packages is left out.
The progress and association interfaces of software objects, names of objects and
the wording of logs have no model. `PROJECT.json` gives the reason for each component.

## 9. Plan

Done: firmware update with its session, the activator, flash with reflash, drive table, host power, fans,
PCIe and the scan that composes the last two; proofs of all safety properties of the runs and of the
refinements `UpdateSession`, `Flashing` and `PcieConfig`.

What could follow:

1. A lookup over several controllers in a module above `DriveTable`: the first
   unreachable or updating one ends it.
2. Proofs of the step that `DriveTable` and `HostPower` detail for `FirmwareUpdate`
   (`Refresh`, `DriveRequest`, `SendCommand`), as there is for `Flashing`.
