------------------------------ MODULE Flashing ------------------------------
(***************************************************************************)
(* What the storage manager has to expect of the processes that write to   *)
(* its MCUs: the updaters it forks, yadro-mcu-reflash, which runs before   *)
(* it whenever its service starts, and the MCUs themselves. FirmwareUpdate *)
(* is the manager on top of this; McuFlash shows, transfer by transfer,    *)
(* that the programs and the drivers do no more than this.                 *)
(*                                                                         *)
(* Of the update area of an MCU only the image matters that its boot       *)
(* loader would install: a whole one, or none. Updaters of one MCU may     *)
(* overlap, and then spoil or complete the area for each other.            *)
(***************************************************************************)
EXTENDS Naturals

CONSTANTS
  NumMCU,     \* number of MCUs
  Package,    \* firmware packages, one version each
  Updater,    \* process slots of updaters
  Factory,    \* the version of the images that reflash restores
  NoVersion,  \* no whole image
  NoObject    \* no job

MCU == 1 .. NumMCU
Version == Package \cup {Factory}

\* A software object stands for one package on one MCU; an updater is forked for it.
Object == [pkg : Package, mcu : MCU]

\* "running": writing the image; "told": has sent the reboot command to an MCU
\* that has not gone down yet; "verifying": waits for it to come back.
Phase == {"idle", "running", "told", "verifying", "succeeded", "failed"}

VARIABLES
  phase,     \* what each updater is doing, or how it ended
  job,       \* the software object it was forked for
  fw,        \* the firmware each MCU runs
  boot,      \* "up", "told" to reboot but still answering, or "down"
  area,      \* the whole image in the update area of each MCU, if there is one
  starting   \* the service is starting: reflash runs, the manager does not

flashVars == <<phase, job, fw, boot, area, starting>>
boardVars == <<fw, boot, area>>

Alive(u) == phase[u] \in {"running", "told", "verifying"}
Answers(m) == boot[m] # "down"

-----------------------------------------------------------------------------
(* Mutated form: success is reported without a look at the version         *)
(* (ActiveOnlyIfInstalled). No action uses it.                             *)
SucceedsUnverified(u) ==
  /\ phase[u] = "verifying"
  /\ Answers(job[u].mcu)
  /\ phase' = [phase EXCEPT ![u] = "succeeded"]
  /\ UNCHANGED <<job, boardVars, starting>>

-----------------------------------------------------------------------------
\* Nothing runs. The boards may have any firmware.
FlashInit ==
  /\ phase = [u \in Updater |-> "idle"]
  /\ job = [u \in Updater |-> NoObject]
  /\ fw \in [MCU -> Version]
  /\ boot = [m \in MCU |-> "up"]
  /\ area = [m \in MCU |-> NoVersion]
  /\ starting = FALSE

\* An updater is forked ...
Forked(u, o) ==
  /\ ~ starting /\ ~ Alive(u)
  /\ phase' = [phase EXCEPT ![u] = "running"]
  /\ job' = [job EXCEPT ![u] = o]
  /\ UNCHANGED <<boardVars, starting>>

\* ... and after its end reaped.
Reaped(u) ==
  /\ phase[u] \in {"succeeded", "failed"}
  /\ phase' = [phase EXCEPT ![u] = "idle"]
  /\ job' = [job EXCEPT ![u] = NoObject]
  /\ UNCHANGED <<boardVars, starting>>

\* A transfer to the flash or an erasure completes the image or leaves none whole.
Writes(u) ==
  /\ phase[u] = "running" /\ Answers(job[u].mcu)
  /\ area' \in {[area EXCEPT ![job[u].mcu] = img] : img \in {NoVersion, job[u].pkg}}
  /\ UNCHANGED <<phase, job, fw, boot, starting>>

\* The image is written, as far as the updater knows.
Reboots(u) ==
  /\ phase[u] = "running" /\ Answers(job[u].mcu)
  /\ phase' = [phase EXCEPT ![u] = "told"]
  /\ boot' = [boot EXCEPT ![job[u].mcu] = "told"]
  /\ UNCHANGED <<job, fw, area, starting>>

\* The MCU answers and reports the expected version.
Succeeds(u) ==
  /\ phase[u] = "verifying"
  /\ Answers(job[u].mcu) /\ fw[job[u].mcu] = job[u].pkg
  /\ phase' = [phase EXCEPT ![u] = "succeeded"]
  /\ UNCHANGED <<job, boardVars, starting>>

\* Any error: bad file, lost MCU, timeout after the reboot, wrong version, kill.
Fails(u) ==
  /\ Alive(u)
  /\ phase' = [phase EXCEPT ![u] = "failed"]
  /\ UNCHANGED <<job, boardVars, starting>>

\* A failed write: the MCU is rebooted for its boot loader to clean up.
Aborts(u) ==
  /\ phase[u] = "running" /\ Answers(job[u].mcu)
  /\ phase' = [phase EXCEPT ![u] = "failed"]
  /\ boot' = [boot EXCEPT ![job[u].mcu] = "told"]
  /\ UNCHANGED <<job, fw, area, starting>>

\* reflash writes to an MCU ...
ReflashWrites(m) ==
  /\ starting /\ Answers(m)
  /\ area' \in {[area EXCEPT ![m] = img] : img \in {NoVersion, Factory}}
  /\ UNCHANGED <<phase, job, fw, boot, starting>>

\* ... or reboots it.
ReflashReboots(m) ==
  /\ starting /\ Answers(m)
  /\ boot' = [boot EXCEPT ![m] = "told"]
  /\ UNCHANGED <<phase, job, fw, area, starting>>

\* The boot loader installs what is in the area, if it is whole, and cleans it.
\* Updaters that told the MCU begin to wait for it.
GoesDown(m) ==
  /\ boot[m] = "told"
  /\ boot' = [boot EXCEPT ![m] = "down"]
  /\ fw' = [fw EXCEPT ![m] = IF area[m] = NoVersion THEN @ ELSE area[m]]
  /\ area' = [area EXCEPT ![m] = NoVersion]
  /\ phase' = [u \in Updater |->
       IF phase[u] = "told" /\ job[u].mcu = m THEN "verifying" ELSE phase[u]]
  /\ UNCHANGED <<job, starting>>

ComesUp(m) ==
  /\ boot[m] = "down"
  /\ boot' = [boot EXCEPT ![m] = "up"]
  /\ UNCHANGED <<phase, job, fw, area, starting>>

\* The manager dies and its updaters with it, or the start is begun anew;
\* systemd starts the service.
ServiceStarts ==
  /\ starting' = TRUE
  /\ phase' = [u \in Updater |-> "idle"]
  /\ job' = [u \in Updater |-> NoObject]
  /\ UNCHANGED boardVars

\* reflash is done and the manager runs.
ManagerStarts ==
  /\ starting /\ starting' = FALSE
  /\ UNCHANGED <<phase, job, boardVars>>

UpdaterStep(u) == Reboots(u) \/ Succeeds(u) \/ Fails(u) \/ Aborts(u)

FlashNext ==
  \/ \E u \in Updater : \/ Writes(u) \/ UpdaterStep(u) \/ Reaped(u)
                        \/ \E o \in Object : Forked(u, o)
  \/ \E m \in MCU : ReflashWrites(m) \/ ReflashReboots(m) \/ GoesDown(m) \/ ComesUp(m)
  \/ ServiceStarts \/ ManagerStarts

FlashSpec == FlashInit /\ [][FlashNext]_flashVars
=============================================================================
