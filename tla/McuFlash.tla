----------------------------- MODULE McuFlash ------------------------------
(***************************************************************************)
(* yadro-mcu-updater: runImageUpdate(), yadro-mcu-reflash: updateMCU(),    *)
(* and the flash commands of the MCU drivers, with the MCU they write to.  *)
(*                                                                         *)
(* Updaters are forked by the storage manager, or started by an operator   *)
(* while it runs, and may overlap. Whenever the manager's service starts,  *)
(* the updaters die with the manager (an operator's is taken to do so too) *)
(* and reflash runs before the next one: it brings the MCU to the image of *)
(* its board's definition and erases nothing first.                        *)
(*                                                                         *)
(* Every transfer is a step. Transfers may fail before or after they had   *)
(* their effect or deliver wrong bytes, an image file may end early,       *)
(* processes may be killed, and an updater may start while another one is  *)
(* at work: such faults happen MaxFaults times in a behaviour. An MCU that *)
(* does not answer is no fault.                                            *)
(*                                                                         *)
(* The MCU is external and modelled from how the updater uses it: writing  *)
(* to a part of the flash that is not erased spoils it; on a reboot the    *)
(* boot loader installs a complete image and, as the updater says of it,   *)
(* cleans the flash up. A write that is repeated because its acknowledge   *)
(* was lost (i2cDev retries) writes the same bytes to the same place.      *)
(***************************************************************************)
EXTENDS Naturals

CONSTANTS
  NumChunks,   \* chunks of an image
  Protos,      \* the protocols an MCU may speak
  Updater,     \* process slots of updaters
  Reflasher,   \* the process reflash
  Package,     \* firmware packages, one image each
  Factory,     \* the image reflash writes
  VerifyTries, \* retryCount of MCUProtoV0::writeFlash
  MaxPings,    \* seconds runImageUpdate() waits for the MCU
  MaxFaults    \* bound on the faults in a behaviour

Process == Updater \cup {Reflasher}
Image == Package \cup {Factory}
Chunk == 1 .. NumChunks

\* What is in a cell of the flash: a chunk of an image, wherever it belongs.
Piece(img, c) == [of |-> img, chunk |-> c]
Blank == Piece("erased", 1)
Garbage == Piece("garbage", 1)
Cell == [of : Image \cup {"erased", "garbage"}, chunk : Chunk]

ASSUME SizeAssumption ==
  /\ NumChunks \in Nat \ {0} /\ VerifyTries \in Nat \ {0}
  /\ MaxPings \in Nat \ {0} /\ MaxFaults \in Nat
ASSUME ProtoAssumption == Protos \subseteq {"V0", "V1"}
ASSUME NameAssumption ==
  Reflasher \notin Updater /\ {"erased", "garbage", "none"} \cap Image = {}

\* "told": has sent the reboot command, the MCU has not gone down since.
Writing == {"locate", "write", "verify", "abort", "reboot"}
Phase == Writing \cup {"idle", "starting", "query", "erase", "told", "ping", "check"}
Result == {"none", "ok", "flashed", "skipped", "failed"}

VARIABLES
  proto,    \* the protocol of the MCU
  mcu,      \* "up", "told" to reboot but still answering, or "down"
  fw,       \* the firmware it runs
  flash,    \* the update area, a cell for each chunk
  location, \* the chunk that the flash commands of V1 address
  starting, \* the service starts: reflash runs, no manager
  phase,    \* what each process does next
  image,    \* what it writes
  force,    \* started with --force-erase
  next,     \* the chunk to write or verify (flashOffset)
  tries,    \* reads of writeFlash() for this chunk that did not match (V0)
  pings,    \* pings without an answer
  result,   \* how it ended, or "none"
  boots,    \* history: reboots of the MCU since it began, 2 for more
  astray,   \* history: processes that others came in between of
  short,    \* updaters whose file has ended, or failed, before its time
  cut,      \* history: a process could not clean up behind it
  faults    \* faults so far

board == <<proto, mcu, fw, flash, location>>
local == <<phase, force, next, tries, pings, result, boots, astray, short>>
vars == <<board, starting, image, local, cut, faults>>

-----------------------------------------------------------------------------
(* Helpers *)

Answers == mcu # "down"
Erased == [c \in Chunk |-> Blank]
Complete(img) == \A c \in Chunk : flash[c] = Piece(img, c)

\* The bytes a process writes next. A file that ends within a chunk leaves a
\* part of one, which is no piece of an image.
Bytes(p) == IF p \in short THEN Garbage ELSE Piece(image[p], next[p])

\* Where the MCU writes or reads: V0 is told with the data.
Place(p) == IF proto = "V1" THEN location ELSE next[p]

\* The location where it is not known (V0 has none).
Anywhere == IF proto = "V1" THEN Chunk ELSE {1}

\* Bytes that are programmed over a cell.
Programmed(cell, bytes) == IF cell \in {Blank, bytes} THEN bytes ELSE Garbage

Faulty == faults < MaxFaults /\ faults' = faults + 1
NoFault == UNCHANGED faults

\* Processes that are writing; transfers of p come in between those of others.
Busy == {q \in Process : phase[q] \in Writing}
Others(p) == Busy \ {p}

\* The next step after a transfer that leads those of `led` astray, or after none.
Transfer(p, step, led) ==
  /\ phase' = [phase EXCEPT ![p] = step] /\ astray' = astray \cup led
  /\ UNCHANGED <<force, next, tries, pings, result, boots, short>>

Go(p, step) == Transfer(p, step, {})

\* What is forgotten of a process when it ends, or known when it begins.
Renew(p, step, how, erase) ==
  /\ phase' = [phase EXCEPT ![p] = step] /\ result' = [result EXCEPT ![p] = how]
  /\ force' = [force EXCEPT ![p] = erase] /\ next' = [next EXCEPT ![p] = 1]
  /\ tries' = [tries EXCEPT ![p] = 0] /\ pings' = [pings EXCEPT ![p] = 0]
  /\ boots' = [boots EXCEPT ![p] = 0] /\ astray' = astray \ {p}
  /\ short' = short \ {p}

End(p, how) == Renew(p, "idle", how, FALSE)

Begin(p, img, step, erase) ==
  /\ Renew(p, step, "none", erase)
  /\ image' = [image EXCEPT ![p] = img]

\* writeFlash() begins with the location in V1.
FirstTransfer == IF proto = "V1" THEN "locate" ELSE "write"

\* Mutated form: flashOffset is moved on past the end.
AcceptedPastEnd(p) ==
  /\ phase' = [phase EXCEPT ![p] =
                 IF next[p] = NumChunks \/ p \in short THEN "reboot" ELSE FirstTransfer]
  /\ next' = [next EXCEPT ![p] = @ + 1]
  /\ tries' = [tries EXCEPT ![p] = 0]
  /\ UNCHANGED <<force, pings, result, boots, astray, short>>

\* The chunk is written and accepted. The loop ends with the file.
Accepted(p) ==
  /\ IF next[p] = NumChunks \/ p \in short
     THEN phase' = [phase EXCEPT ![p] = "reboot"] /\ UNCHANGED next
     ELSE phase' = [phase EXCEPT ![p] = FirstTransfer] /\ next' = [next EXCEPT ![p] = @ + 1]
  /\ tries' = [tries EXCEPT ![p] = 0]
  /\ UNCHANGED <<force, pings, result, boots, astray, short>>

-----------------------------------------------------------------------------
(* Mutated forms (no action uses them) *)

\* writeFlash() of V1 does not compare the bytes.
VerifyV1Unchecked(p) ==
  /\ phase[p] = "verify" /\ proto = "V1"
  /\ IF Answers THEN Accepted(p) ELSE Go(p, "abort")
  /\ UNCHANGED <<board, starting, image, cut, faults>>

\* A failed write ends the process and nothing else.
AbortOnly(p) ==
  /\ phase[p] = "abort"
  /\ End(p, "failed")
  /\ UNCHANGED <<board, starting, image, cut, faults>>

\* An MCU that answers will have taken the image.
CheckAnswerOnly(u) ==
  /\ phase[u] = "check"
  /\ End(u, IF Answers THEN "ok" ELSE "failed")
  /\ UNCHANGED <<board, starting, image, cut, faults>>

\* runImageUpdate() does not wait for the MCU.
RebootOnly(p) ==
  /\ phase[p] = "reboot" /\ Answers
  /\ mcu' = "told"
  /\ Go(p, "check")
  /\ UNCHANGED <<proto, fw, flash, location, starting, image, cut, faults>>

-----------------------------------------------------------------------------
Init ==
  /\ proto \in Protos /\ mcu = "up" /\ fw \in Image
  /\ flash = Erased /\ location \in Anywhere
  /\ starting = FALSE
  /\ phase = [p \in Process |-> "idle"]
  /\ image = [p \in Process |-> Factory] /\ force = [p \in Process |-> FALSE]
  /\ next = [p \in Process |-> 1]
  /\ tries = [p \in Process |-> 0] /\ pings = [p \in Process |-> 0]
  /\ result = [p \in Process |-> "none"]
  /\ boots = [p \in Process |-> 0] /\ astray = {} /\ short = {}
  /\ cut = FALSE /\ faults = 0

\* An updater starts, also while others run.
Start(u, img, erase) ==
  /\ ~ starting /\ phase[u] = "idle"
  /\ IF \A p \in Updater : phase[p] = "idle" THEN NoFault ELSE Faulty
  /\ Begin(u, img, "query", erase)
  /\ UNCHANGED <<board, starting, cut>>

\* The service starts, for the first time or because the manager or reflash
\* died; the updaters die with the manager.
ServiceStarts ==
  /\ Faulty
  /\ starting' = TRUE
  /\ phase' = [p \in Process |-> IF p = Reflasher THEN "starting" ELSE "idle"]
  /\ image' = [p \in Process |-> Factory] /\ force' = [p \in Process |-> FALSE]
  /\ next' = [p \in Process |-> 1] /\ tries' = [p \in Process |-> 0]
  /\ pings' = [p \in Process |-> 0] /\ result' = [p \in Process |-> "none"]
  /\ boots' = [p \in Process |-> 0] /\ astray' = {} /\ short' = {}
  /\ cut' = (cut \/ \E p \in Process : phase[p] \notin {"idle", "starting", "query"})
  /\ UNCHANGED board

\* The board has no definition (or one without an image), or the MCU cannot be
\* queried, or it runs the version that the definition names, if it does.
NothingToReflash(found, version) ==
  ~ found \/ ~ Answers \/ (version /\ fw = Factory)

\* reflash finds the board and queries its MCU. There is no eraseFlash().
Reflash(found, version) ==
  /\ phase[Reflasher] = "starting"
  /\ \/ /\ (NothingToReflash(found, version) /\ NoFault) \/ Faulty
        /\ End(Reflasher, "skipped") /\ UNCHANGED image
     \/ /\ ~ NothingToReflash(found, version) /\ NoFault
        /\ Begin(Reflasher, Factory, FirstTransfer, FALSE)
  /\ UNCHANGED <<board, starting, cut>>

\* reflash has ended, the manager starts.
ManagerStarts ==
  /\ starting /\ phase[Reflasher] = "idle"
  /\ starting' = FALSE
  /\ result' = [result EXCEPT ![Reflasher] = "none"]
  /\ UNCHANGED <<board, image, phase, force, next, tries, pings, boots, astray, short, cut, faults>>

\* The updater opens the MCU and reads version and type.
Query(u) ==
  /\ phase[u] = "query"
  /\ \/ Answers /\ NoFault /\ Go(u, IF force[u] THEN "erase" ELSE FirstTransfer)
     \/ ((~ Answers /\ NoFault) \/ Faulty) /\ End(u, "failed")
  /\ UNCHANGED <<board, starting, image, cut>>

\* eraseFlash(), outside of the block that cleans up
Erase(u) ==
  /\ phase[u] = "erase"
  /\ \/ /\ Answers /\ NoFault /\ Transfer(u, FirstTransfer, Others(u))
        /\ flash' = Erased /\ cut' = FALSE
     \/ /\ (~ Answers /\ NoFault) \/ Faulty
        /\ End(u, "failed") /\ UNCHANGED <<flash, cut>>
  /\ UNCHANGED <<proto, mcu, fw, location, starting, image>>

\* The updater cannot read on: its file was shortened after its size was taken,
\* or reading it fails. The loop ends, after a part of a chunk perhaps, as if the
\* image had been written. (reflash maps its image into memory.)
ReadsShort(u) ==
  /\ phase[u] = FirstTransfer /\ u \notin short
  /\ Faulty
  /\ short' = short \cup {u}
  /\ phase' \in {phase, [phase EXCEPT ![u] = "reboot"]}
  /\ UNCHANGED <<board, starting, image, force, next, tries, pings, result, boots, astray, cut>>

\* writeFlash() of V1 sets the location: done, failed before or after it was
\* done, or arrived spoiled, which nothing notices.
Locate(p) ==
  /\ phase[p] = "locate"
  /\ \/ ~ Answers /\ NoFault /\ Go(p, "abort") /\ UNCHANGED location
     \/ /\ Answers /\ NoFault
        /\ Transfer(p, "write", Others(p)) /\ location' = next[p]
     \/ /\ Answers /\ Faulty
        /\ \/ Transfer(p, "abort", Others(p)) /\ location' \in {location, next[p]}
           \/ Transfer(p, "write", Busy) /\ location' \in Chunk
  /\ UNCHANGED <<proto, mcu, fw, flash, starting, image, cut>>

\* writeFlash() of a chunk: it reaches the flash, fails before or after it did,
\* or arrives spoiled.
Write(p) ==
  /\ phase[p] = "write"
  /\ LET written == [flash EXCEPT ![Place(p)] = Programmed(@, Bytes(p))]
         spoiled == [flash EXCEPT ![Place(p)] = Garbage]
     IN  \/ ~ Answers /\ NoFault /\ Go(p, "abort") /\ UNCHANGED flash
         \/ /\ Answers /\ NoFault
            /\ Transfer(p, "verify", Others(p)) /\ flash' = written
         \/ /\ Answers /\ Faulty
            /\ \/ Transfer(p, "verify", Others(p)) /\ flash' = spoiled
               \/ Transfer(p, "abort", Others(p)) /\ flash' \in {flash, written}
  /\ UNCHANGED <<proto, mcu, fw, location, starting, image, cut>>

\* writeFlash() of V1 reads the chunk back once: an error or other bytes throw.
VerifyV1(p) ==
  /\ phase[p] = "verify" /\ proto = "V1"
  /\ LET matches == Answers /\ flash[location] = Bytes(p)
     IN  \/ matches /\ NoFault /\ Accepted(p)
         \/ ((~ matches /\ NoFault) \/ Faulty) /\ Go(p, "abort")
  /\ UNCHANGED <<board, starting, image, cut>>

\* Reading the chunk back (V0).
Read(p) ==
  IF ~ Answers THEN "error" ELSE IF flash[next[p]] = Bytes(p) THEN "match" ELSE "mismatch"

\* writeFlash() of V0 reads it back until it matches. After the last try only
\* an error throws; other bytes are accepted.
VerifyV0(p) ==
  /\ phase[p] = "verify" /\ proto = "V0"
  /\ \E read \in {"match", "mismatch", "error"} :
       /\ \/ NoFault /\ read = Read(p)
          \/ Faulty /\ read \in {"mismatch", "error"}
       /\ \/ read = "match" /\ Accepted(p)
          \/ /\ read # "match" /\ tries[p] + 1 < VerifyTries
             /\ tries' = [tries EXCEPT ![p] = @ + 1]
             /\ UNCHANGED <<phase, force, next, pings, result, boots, astray, short>>
          \/ read = "mismatch" /\ tries[p] + 1 = VerifyTries /\ Accepted(p)
          \/ read = "error" /\ tries[p] + 1 = VerifyTries /\ Go(p, "abort")
  /\ UNCHANGED <<board, starting, image, cut>>

\* The reboot command: sent, or not answered, or failed before or after the
\* MCU had taken it.
Reboot(sent, lost) ==
  \/ Answers /\ NoFault /\ mcu' = "told" /\ sent
  \/ ~ Answers /\ NoFault /\ UNCHANGED mcu /\ lost
  \/ Answers /\ Faulty /\ mcu' \in {mcu, "told"} /\ lost

\* A failed write reboots the MCU, for the boot loader to clean the flash up,
\* unless --force-erase was given.
Abort(p) ==
  /\ phase[p] = "abort"
  /\ End(p, "failed")
  /\ IF force[p]
     THEN cut' = TRUE /\ UNCHANGED mcu /\ NoFault
     ELSE Reboot(UNCHANGED cut, cut' = TRUE)
  /\ UNCHANGED <<proto, fw, flash, location, starting, image>>

\* The whole image is written.
RebootIntoImage(p) ==
  /\ phase[p] = "reboot"
  /\ Reboot(Go(p, "told") /\ UNCHANGED cut, End(p, "failed") /\ cut' = TRUE)
  /\ UNCHANGED <<proto, fw, flash, location, starting, image>>

\* One ping a second. The MCU goes down within the first second.
Ping(p) ==
  /\ phase[p] = "ping"
  /\ \/ Answers /\ NoFault /\ Go(p, "check")
     \/ /\ (~ Answers /\ NoFault) \/ Faulty
        /\ pings' = [pings EXCEPT ![p] = @ + 1]
        /\ phase' = [phase EXCEPT ![p] = IF pings'[p] = MaxPings THEN "check" ELSE "ping"]
        /\ UNCHANGED <<force, next, tries, result, boots, astray, short>>
  /\ UNCHANGED <<board, starting, image, cut>>

\* The updater's new driver reads version and type; all its transfers count as
\* one.
Check(u) ==
  /\ phase[u] = "check"
  /\ LET installed == Answers /\ fw = image[u]
     IN  \/ installed /\ NoFault /\ End(u, "ok")
         \/ ((~ installed /\ NoFault) \/ Faulty) /\ End(u, "failed")
  /\ UNCHANGED <<board, starting, image, cut>>

\* reflash reports what the pings told and looks at no version: an error of its
\* last query is printed only.
Reflashed ==
  /\ phase[Reflasher] = "check"
  /\ End(Reflasher, IF pings[Reflasher] < MaxPings THEN "flashed" ELSE "failed")
  /\ UNCHANGED <<board, starting, image, cut, faults>>

\* An updater dies.
Kill(u) ==
  /\ phase[u] # "idle"
  /\ Faulty
  /\ End(u, "failed")
  /\ cut' = TRUE
  /\ UNCHANGED <<board, starting, image>>

\* The boot loader installs a complete image and cleans the flash up. Processes
\* that told the MCU have waited for it; a location set before is forgotten.
BootLoader ==
  /\ mcu = "told"
  /\ mcu' = "down"
  /\ IF \E img \in Image : Complete(img)
     THEN fw' \in {img \in Image : Complete(img)}
     ELSE UNCHANGED fw
  /\ flash' = Erased
  /\ location' \in Anywhere
  /\ phase' = [p \in Process |-> IF phase[p] = "told" THEN "ping" ELSE phase[p]]
  /\ boots' = [p \in Process |-> CASE phase[p] = "idle" -> boots[p]
                                   [] boots[p] = 0 -> 1
                                   [] OTHER -> 2]
  /\ cut' = FALSE
  /\ UNCHANGED <<proto, starting, image, force, next, tries, pings, result, astray, short, faults>>

Boots ==
  /\ mcu = "down"
  /\ mcu' = "up"
  /\ UNCHANGED <<proto, fw, flash, location, starting, image, local, cut, faults>>

Writer(p) ==
  \/ Locate(p) \/ Write(p) \/ VerifyV1(p) \/ VerifyV0(p)
  \/ Abort(p) \/ RebootIntoImage(p) \/ Ping(p)

Updates(u) == Query(u) \/ Erase(u) \/ ReadsShort(u) \/ Writer(u) \/ Check(u)

Reflashes ==
  \/ \E found, version \in BOOLEAN : Reflash(found, version)
  \/ Writer(Reflasher) \/ Reflashed \/ ManagerStarts

Starts(u) == \E img \in Package, erase \in BOOLEAN : Start(u, img, erase)

Next ==
  \/ \E u \in Updater : Updates(u) \/ Starts(u) \/ Kill(u)
  \/ Reflashes
  \/ ServiceStarts
  \/ BootLoader
  \/ Boots

Spec == Init /\ [][Next]_vars

\* Processes run, the MCU boots, and someone tries again, not always so soon
\* that the MCU has not gone down yet.
FairSpec ==
  /\ Spec
  /\ \A u \in Updater : WF_vars(Updates(u)) /\ WF_vars(Starts(u))
  /\ WF_vars(Reflashes)
  /\ WF_vars(BootLoader) /\ WF_vars(Boots)
  /\ SF_vars((\A p \in Process : phase[p] = "idle") /\ BootLoader)

-----------------------------------------------------------------------------
(* Properties *)

BoardOK ==
  /\ proto \in Protos /\ mcu \in {"up", "told", "down"} /\ fw \in Image
  /\ flash \in [Chunk -> Cell] /\ location \in Chunk

LocalOK ==
  /\ phase \in [Process -> Phase] /\ force \in [Process -> BOOLEAN]
  /\ next \in [Process -> Chunk]
  /\ tries \in [Process -> 0 .. VerifyTries - 1] /\ pings \in [Process -> 0 .. MaxPings]
  /\ result \in [Process -> Result]
  /\ boots \in [Process -> 0 .. 2] /\ astray \in SUBSET Process
  /\ short \in SUBSET Updater

\* The type invariant.
TypeOK ==
  /\ BoardOK /\ LocalOK
  /\ starting \in BOOLEAN /\ image \in [Process -> Image]
  /\ cut \in BOOLEAN /\ faults \in 0 .. MaxFaults

\* When a process tells a V1 MCU to reboot into its image, every chunk is in the
\* flash, whatever was there before and whatever was lost on the way, unless the
\* MCU rebooted by itself in between, another process came in between with
\* transfers of its own, or a location arrived spoiled: each writeFlash() verifies
\* its chunk and flashOffset passes none over. An updater whose file ended early
\* reboots the MCU all the same, into the whole chunks it has read. (V0 accepts a
\* chunk that never matched.)
CompleteWhenRebooted ==
  \A p \in Process :
    phase[p] = "reboot" /\ proto = "V1" /\ boots[p] = 0 /\ p \notin astray =>
      \A c \in Chunk : (p \in short => c < next[p]) => flash[c] = Piece(image[p], c)

\* No updater and no reflash leaves parts of an image behind for the next one,
\* except one that was killed, could not reach the MCU or was told to erase the
\* flash itself (updater.cpp:129: "Enforces the MCU's boot loader to clean the
\* flash up"; reflash.cpp:107: "Force MCU reboot to clean up the flash chip").
LeftClean == (\A p \in Process : phase[p] = "idle") /\ mcu = "up" /\ ~ cut => flash = Erased

\* A process ends like this.
Ends(p, how) == phase[p] # "idle" /\ phase'[p] = "idle" /\ result'[p] = how

\* An updater reports success only when the MCU has rebooted since it began and
\* runs the new firmware (updater.cpp:25: "new version and device type would be
\* tested to ensure Firmware operation succeed"), also when another one overlaps.
OkMeansInstalled ==
  [][\A u \in Updater : Ends(u, "ok") => fw = image[u] /\ boots[u] > 0]_vars

\* reflash tests no version, but what it reports ("Flashed with") is true of a V1
\* MCU all the same, also over a flash that a killed updater left full of another
\* image, if the MCU rebooted just once and no location arrived spoiled.
FlashedMeansStock ==
  [][Ends(Reflasher, "flashed") /\ proto = "V1" /\ boots[Reflasher] = 1 /\ Reflasher \notin astray
       => fw = Factory]_vars

\* However it was interrupted, spoiled or left by earlier updaters or reflashed in
\* between, the update succeeds in the end if it is tried again.
Installs == <>(fw \in Package)

-----------------------------------------------------------------------------
(* Refinement: together the processes and the MCU do no more than the      *)
(* manager of FirmwareUpdate expects of them, for its only MCU.            *)

TheMCU == 1 .. 1

Progress(u) ==
  CASE phase[u] = "idle" -> CASE result[u] = "none" -> "idle"
                              [] result[u] = "ok" -> "succeeded"
                              [] OTHER -> "failed"
    [] phase[u] = "told" -> "told"
    [] phase[u] \in {"ping", "check"} -> "verifying"
    [] OTHER -> "running"

Job(u) == IF phase[u] = "idle" /\ result[u] = "none" THEN "none"
                                                     ELSE [pkg |-> image[u], mcu |-> 1]

\* What the boot loader would install.
Whole == IF \E img \in Image : Complete(img) THEN flash[1].of ELSE "none"

Phases == [u \in Updater |-> Progress(u)]
Jobs == [u \in Updater |-> Job(u)]
Firmware == [m \in TheMCU |-> fw]
Boot == [m \in TheMCU |-> mcu]
Area == [m \in TheMCU |-> Whole]

Expected == INSTANCE Flashing WITH
  NumMCU <- 1, NoVersion <- "none", NoObject <- "none",
  phase <- Phases, job <- Jobs, fw <- Firmware, boot <- Boot, area <- Area

\* Whatever is lost, spoiled or overlaps, an MCU installs only an image of a
\* process that is writing or has left it there, and the processes go through
\* the phases that the manager was modelled with.
ImplementsFlashing == Expected!FlashSpec
=============================================================================
