--------------------------- MODULE FirmwareUpdate ---------------------------
(***************************************************************************)
(* The firmware-update core of yadro-storage-manager.                      *)
(*                                                                         *)
(* A single-threaded event loop: each of its handlers (D-Bus call, signal *)
(* match, timer, child event) is one atomic action. It runs on Flashing:   *)
(* the updaters it forks run beside the event loop, and their exit is seen *)
(* only when SIGCHLD is handled; the MCUs reboot into a new firmware on    *)
(* their own; when the manager dies, systemd starts the service again.     *)
(*                                                                         *)
(* MCUs are numbered in the order in which the manager's std::map of       *)
(* controllers iterates over them: a handler that loops over controllers   *)
(* stops at the first one that throws.                                     *)
(***************************************************************************)
EXTENDS Flashing

CONSTANTS
  Type,          \* board types
  BoardType,     \* [MCU -> Type], the type each board reports
  Images,        \* [Package -> SUBSET Type], the <type>.bin files of a package
  NoType, NoUpdater, \* "empty" of each kind
  SignalsAllowed,    \* may an updater be stopped and continued by a signal?
  RestartsAllowed    \* may the manager crash and be restarted by systemd?

ASSUME MCUAssumption == NumMCU \in Nat \ {0}
ASSUME BoardAssumption ==
  /\ BoardType \in [MCU -> Type]
  /\ Images \in [Package -> SUBSET Type]
ASSUME EmptyAssumption ==
  /\ NoVersion \notin Version
  /\ NoType \notin Type
  /\ NoUpdater \notin Updater
  /\ NoObject \notin Object
ASSUME FlagAssumption == SignalsAllowed \in BOOLEAN /\ RestartsAllowed \in BOOLEAN

ActivationState == {"None", "Ready", "Activating", "Active", "Failed"}

\* The D-Bus properties of a controller object.
Properties == [version : Version \cup {NoVersion},
               type : Type \cup {NoType},
               functional : BOOLEAN]

VARIABLES
  activation,   \* Activation property of every software object
  announced,    \* packages whose InterfacesAdded signal has been emitted
  published,    \* properties of every controller object
  watched,      \* updaterWatcher of every controller: the child it listens to
  signalled,    \* updaters with an unreported stop or continue event
  left,         \* history: MCUs with a whole image in the update area when the
                \* manager started or when it reaped their last updater
  displaced     \* history: objects whose watcher an activation beside theirs
                \* has taken

managerVars == <<activation, announced, published, watched>>
vars == <<managerVars, signalled, left, displaced, flashVars>>

-----------------------------------------------------------------------------
(* Helpers *)

IsUpdating(m) == watched[m] # NoUpdater

\* The controller's callback will report to this object.
Served(o) == IsUpdating(o.mcu) /\ job[watched[o.mcu]] = o

\* A forked updater that is not reaped: it runs, or it is a zombie.
Unreaped(m) == {u \in Updater : phase[u] # "idle" /\ job[u].mcu = m}

\* How one refresh() went: did the reads of version and type yield a value,
\* and did the function return TRUE. (An empty answer is accepted.)
Answer == [version : BOOLEAN, type : BOOLEAN, functional : BOOLEAN]

\* A cached property is read from the board only while it is empty.
ReadIfEmpty(cached, empty, answered, actual) ==
  IF cached = empty /\ answered THEN actual ELSE cached

\* The properties of controller m after a refresh(). A board that is down does
\* not answer; an access to one that answers may still fail.
Refreshed(m, props, answer) ==
  IF ~ Answers(m)
  THEN [props EXCEPT !.functional = FALSE]
  ELSE [version |-> ReadIfEmpty(props.version, NoVersion, answer.version, fw[m]),
        type |-> ReadIfEmpty(props.type, NoType, answer.type, BoardType[m]),
        functional |-> answer.functional]

\* refresh() of the controllers in S; the others are left alone.
RefreshAll(S, answers) ==
  published' = [m \in MCU |-> IF m \in S THEN Refreshed(m, published[m], answers[m])
                                         ELSE published[m]]

NewController == [version |-> NoVersion, type |-> NoType, functional |-> FALSE]

-----------------------------------------------------------------------------
(* Mutated forms: what plausible slips in the code would do. No action     *)
(* uses them; each breaks the property named beside it.                    *)

\* requestedActivation() does not look at the state (WatcherIsKept).
MayActivateAnnounced(o) == activation[o] # "None"

\* requestedActivation() also accepts Active (ImplementsSessionSafety).
MayActivateAgain(o) == activation[o] \in {"Ready", "Failed", "Active"}

\* softwareAdded() takes every controller (CorrectImage).
SoftwareAddedToAll(p) ==
  /\ p \notin announced
  /\ announced' = announced \cup {p}
  /\ activation' = [o \in Object |-> IF o.pkg = p THEN "Ready" ELSE activation[o]]
  /\ UNCHANGED <<published, watched, signalled, left, displaced, flashVars>>

\* The callback does not reset updaterWatcher (WatchedIsActivating).
EndUpdateWatching(m, result) ==
  /\ activation' = [activation EXCEPT ![job[watched[m]]] = result]
  /\ published' = [published EXCEPT ![m].version = NoVersion, ![m].type = NoType]
  /\ UNCHANGED watched

\* The callback reports success only (ActivatingIsServed, ImplementsSession).
EndUpdateSilently(m, result) ==
  /\ activation' = IF result = "Failed" THEN activation
                   ELSE [activation EXCEPT ![job[watched[m]]] = result]
  /\ published' = [published EXCEPT ![m].version = NoVersion, ![m].type = NoType]
  /\ watched' = [watched EXCEPT ![m] = NoUpdater]

\* The callback keeps the version (CacheFresh, NewVersionPublished).
EndUpdateKeepingVersion(m, result) ==
  /\ activation' = [activation EXCEPT ![job[watched[m]]] = result]
  /\ published' = [published EXCEPT ![m].type = NoType]
  /\ watched' = [watched EXCEPT ![m] = NoUpdater]

\* updateImage() does not hand the object to the callback (TypeOK).
ForkUpdaterForgetful(o, u) ==
  /\ MayActivateAnnounced(o)
  /\ phase[u] = "idle"
  /\ phase' = [phase EXCEPT ![u] = "running"]
  /\ watched' = [watched EXCEPT ![o.mcu] = u]
  /\ activation' = [activation EXCEPT ![o] = "Activating"]
  /\ UNCHANGED <<announced, published, job, signalled, left, displaced, boardVars, starting>>

\* hostPowerChanged() or resetDriveLocationLEDs() without the isUpdating()
\* check (HandsOff).
SendCommandAlways(failed) ==
  /\ published' = [m \in MCU |-> IF m \in failed
                                 THEN [published[m] EXCEPT !.functional = FALSE]
                                 ELSE published[m]]
  /\ UNCHANGED <<activation, announced, watched, signalled, left, displaced, flashVars>>

-----------------------------------------------------------------------------
(* How far a loop over the controllers gets *)

\* Handlers that loop over the controllers get this far: NotAllowed of the
\* first updating controller ends the loop.
Reached == {m \in MCU : \A k \in 1 .. m : ~ IsUpdating(k)}

-----------------------------------------------------------------------------
(* The service has started: every controller is constructed and refreshed  *)
(* once, no software object exists. The boards run firmware of their types.*)
Init ==
  /\ activation = [o \in Object |-> "None"]
  /\ announced = {}
  /\ watched = [m \in MCU |-> NoUpdater]
  /\ signalled = {} /\ left = {} /\ displaced = {}
  /\ FlashInit
  /\ \A m \in MCU : fw[m] \in {Factory} \cup {p \in Package : BoardType[m] \in Images[p]}
  /\ \E answers \in [MCU -> Answer] :
       published = [m \in MCU |-> Refreshed(m, NewController, answers[m])]

-----------------------------------------------------------------------------
(* Handlers of the storage manager *)

\* InterfacesAdded of a package: an object for each MCU whose published type
\* has an image. A controller whose type is not known is passed over.
SoftwareAdded(p) ==
  /\ p \notin announced
  /\ announced' = announced \cup {p}
  /\ activation' = [o \in Object |->
       IF o.pkg = p /\ published[o.mcu].type \in Images[p] THEN "Ready" ELSE activation[o]]
  /\ UNCHANGED <<published, watched, signalled, left, displaced, flashVars>>

\* RequestedActivation := Active reaches updateImage() in these states only.
MayActivate(o) == activation[o] \in {"Ready", "Failed"}

\* updateImage(): fork succeeds. The controller forgets the child it watched.
ForkUpdater(o, u) ==
  /\ MayActivate(o)
  /\ phase[u] = "idle"
  /\ Forked(u, o)
  /\ watched' = [watched EXCEPT ![o.mcu] = u]
  /\ activation' = [activation EXCEPT ![o] = "Activating"]
  /\ displaced' = displaced \cup {x \in Object : x.mcu = o.mcu /\ Served(x)}
  /\ UNCHANGED <<announced, published, signalled, left>>

\* updateImage(): fork fails.
ForkFails(o) ==
  /\ MayActivate(o)
  /\ activation' = [activation EXCEPT ![o] = "Failed"]
  /\ UNCHANGED <<announced, published, watched, signalled, left, displaced, flashVars>>

\* The child event callback ends the update: result, empty properties, no
\* watcher.
EndUpdate(m, result) ==
  /\ activation' = [activation EXCEPT ![job[watched[m]]] = result]
  /\ published' = [published EXCEPT ![m].version = NoVersion, ![m].type = NoType]
  /\ watched' = [watched EXCEPT ![m] = NoUpdater]

\* The watched child has exited; sd-event reaps it.
ChildExited(m) ==
  /\ IsUpdating(m)
  /\ Reaped(watched[m])
  /\ EndUpdate(m, IF phase[watched[m]] = "succeeded" THEN "Active" ELSE "Failed")
  /\ left' = IF area[m] = NoVersion THEN left \ {m} ELSE left \cup {m}
  /\ UNCHANGED <<announced, signalled, displaced>>

\* The watched child was stopped or continued: it lives on, unwatched.
ChildStopped(m) ==
  /\ IsUpdating(m)
  /\ watched[m] \in signalled
  /\ EndUpdate(m, "Failed")
  /\ signalled' = signalled \ {watched[m]}
  /\ UNCHANGED <<announced, left, displaced, flashVars>>

\* Manager::refresh, the 10 s timer.
Refresh ==
  /\ \E answers \in [Reached -> Answer] : RefreshAll(Reached, answers)
  /\ UNCHANGED <<activation, announced, watched, signalled, left, displaced, flashVars>>

\* Manager::applyConfiguration: controllers whose configuration changed are
\* refreshed until the first updating one throws.
ApplyConfiguration(S) ==
  /\ \A m \in S : ~ IsUpdating(m)
  /\ \E answers \in [S -> Answer] : RefreshAll(S, answers)
  /\ UNCHANGED <<activation, announced, watched, signalled, left, displaced, flashVars>>

\* FindDrive and Set/GetDriveLocationLED: controllers are refreshed up to the
\* one that has the drive or fails; a failed LED access marks that one.
DriveRequest(last) ==
  /\ last \in Reached
  /\ \E answers \in [1 .. last -> Answer] : RefreshAll(1 .. last, answers)
  /\ \A m \in 1 .. (last - 1) : published'[m].functional
  /\ UNCHANGED <<activation, announced, watched, signalled, left, displaced, flashVars>>

\* ResetDriveLocationLEDs and the host power callback: boards that do not
\* take the command are marked.
SendCommand(failed) ==
  /\ \A m \in failed : ~ IsUpdating(m)
  /\ published' = [m \in MCU |-> IF m \in failed
                                 THEN [published[m] EXCEPT !.functional = FALSE]
                                 ELSE published[m]]
  /\ UNCHANGED <<activation, announced, watched, signalled, left, displaced, flashVars>>

-----------------------------------------------------------------------------
(* The updater processes, the boards, and systemd *)

UpdaterGoesOn(u) ==
  /\ Writes(u) \/ Reboots(u)
  /\ UNCHANGED <<managerVars, signalled, left, displaced>>

\* An event of its exit takes the place of any other.
UpdaterEnds(u) ==
  /\ Succeeds(u) \/ Fails(u) \/ Aborts(u)
  /\ signalled' = signalled \ {u}
  /\ UNCHANGED <<managerVars, left, displaced>>

\* Someone stops or continues an updater.
SignalUpdater(u) ==
  /\ SignalsAllowed
  /\ Alive(u)
  /\ signalled' = signalled \cup {u}
  /\ UNCHANGED <<managerVars, left, displaced, flashVars>>

BoardStep(m) ==
  /\ ReflashWrites(m) \/ ReflashReboots(m) \/ GoesDown(m) \/ ComesUp(m)
  /\ UNCHANGED <<managerVars, signalled, left, displaced>>

\* The manager or its start fails; systemd starts the service again.
Restart ==
  /\ RestartsAllowed
  /\ ServiceStarts
  /\ activation' = [o \in Object |-> "None"]
  /\ watched' = [m \in MCU |-> NoUpdater]
  /\ published' = [m \in MCU |-> NewController]
  /\ signalled' = {} /\ displaced' = {}
  /\ UNCHANGED <<announced, left>>

\* The manager runs again. Its software objects are not created again, because
\* the packages are not announced again.
ManagerRestarted ==
  /\ ManagerStarts
  /\ \E answers \in [MCU -> Answer] : RefreshAll(MCU, answers)
  /\ left' = {m \in MCU : area[m] # NoVersion}
  /\ UNCHANGED <<activation, announced, watched, signalled, displaced>>

ManagerNext ==
  /\ ~ starting
  /\ \/ \E p \in Package : SoftwareAdded(p)
     \/ \E o \in Object : ForkFails(o) \/ \E u \in Updater : ForkUpdater(o, u)
     \/ \E m \in MCU : ChildExited(m) \/ ChildStopped(m) \/ DriveRequest(m)
     \/ Refresh
     \/ \E S \in SUBSET MCU : ApplyConfiguration(S) \/ SendCommand(S)

Next ==
  \/ ManagerNext
  \/ \E u \in Updater : UpdaterGoesOn(u) \/ UpdaterEnds(u) \/ SignalUpdater(u)
  \/ \E m \in MCU : BoardStep(m)
  \/ Restart \/ ManagerRestarted

Spec == Init /\ [][Next]_vars

-----------------------------------------------------------------------------
(* Fairness. The event loop dispatches child events. An updater ends: its  *)
(* loops are bounded by the image size, by retry counts and by 20 pings.   *)
(* The refresh timer fires for ever, and a board that is up does not fail  *)
(* every refresh for ever.                                                 *)

\* A refresh in which every board that is up tells version and type.
RefreshAnswered ==
  /\ ~ starting
  /\ \E working \in [Reached -> BOOLEAN] :
       RefreshAll(Reached, [m \in Reached |->
         [version |-> TRUE, type |-> TRUE, functional |-> working[m]]])
  /\ UNCHANGED <<activation, announced, watched, signalled, left, displaced, flashVars>>

Fairness ==
  /\ \A u \in Updater : WF_vars((UpdaterGoesOn(u) /\ ~ Writes(u)) \/ UpdaterEnds(u))
  /\ \A m \in MCU : WF_vars(ChildExited(m) \/ ChildStopped(m))
  /\ WF_vars(RefreshAnswered)

FairSpec == Spec /\ Fairness

-----------------------------------------------------------------------------
(* Properties *)

\* The type invariant.
TypeOK ==
  /\ activation \in [Object -> ActivationState]
  /\ announced \in SUBSET Package
  /\ published \in [MCU -> Properties]
  /\ watched \in [MCU -> Updater \cup {NoUpdater}]
  /\ phase \in [Updater -> Phase]
  /\ job \in [Updater -> Object \cup {NoObject}]
  /\ \A u \in Updater : phase[u] # "idle" => job[u] \in Object
  /\ signalled \in SUBSET Updater /\ left \in SUBSET MCU /\ displaced \in SUBSET Object
  /\ fw \in [MCU -> Version]
  /\ boot \in [MCU -> {"up", "told", "down"}]
  /\ area \in [MCU -> Version \cup {NoVersion}]
  /\ starting \in BOOLEAN

\* The child a controller watches was forked for one of its own objects, is
\* not reaped, and that object is still Activating: the callback will report
\* to an object that waits for it (BackplaneController::updateImage captures
\* the object, the watcher may be replaced meanwhile).
WatchedIsActivating ==
  \A m \in MCU : IsUpdating(m) =>
    /\ watched[m] \in Unreaped(m)
    /\ activation[job[watched[m]]] = "Activating"

\* An Activating object is the one its controller's watcher reports to, unless
\* another package was activated on the MCU while its updater was being watched
\* and took the watcher: no failed fork, settled update, stopped child, refresh
\* or restart, before or after, leaves one behind.
ActivatingIsServed ==
  \A o \in Object : activation[o] = "Activating" =>
    Served(o) \/ o \in displaced

\* The version a controller publishes is the one its MCU runs, except while
\* an updater forked for that MCU is not reaped, and except where the last one,
\* or the service that died, left a whole image for the boot loader. refresh()
\* reads the version only when it is empty, so one read at a bad moment would
\* stay for ever: an MCU that is told to reboot still answers for a moment.
CacheFresh ==
  \A m \in MCU : published[m].version # NoVersion /\ Unreaped(m) = {} /\ m \notin left =>
    published[m].version = fw[m]

\* No updater is ever forked with an image made for another board type, even
\* though the type is cached, cleared and read again around updates.
CorrectImage ==
  \A u \in Updater : phase[u] # "idle" => BoardType[job[u].mcu] \in Images[job[u].pkg]

\* While a controller is updating its handlers do not touch the MCU: nothing
\* read from it or found out about it changes (the isUpdating() checks).
HandsOff ==
  [][\A m \in MCU : IsUpdating(m) /\ IsUpdating(m)' => published'[m] = published[m]]_vars

\* An object becomes Active only in the event of its own updater, which has
\* verified the version; unless a second updater was forked meanwhile, the MCU
\* runs that version.
ActiveOnlyIfInstalled ==
  [][\A o \in Object : activation[o] # "Active" /\ activation'[o] = "Active" =>
       /\ IsUpdating(o.mcu)
       /\ job[watched[o.mcu]] = o /\ phase[watched[o.mcu]] = "succeeded"
       /\ Unreaped(o.mcu) = {watched[o.mcu]} => boot[o.mcu] = "up" /\ fw[o.mcu] = o.pkg]_vars

\* A controller loses sight of an updater that is not reaped only by an event of
\* its being stopped or continued, or for the updater of another package: no
\* repeated or late request forks a second one for the same object, and no
\* handler drops the watcher.
WatcherIsKept ==
  [][\A m \in MCU : watched[m] \in Unreaped(m)' /\ watched'[m] # watched[m] =>
       \/ watched[m] \in signalled
       \/ watched'[m] \in Unreaped(m)' /\ job'[watched'[m]] # job[watched[m]]]_vars

\* No board has two packages to choose from.
OnePackagePerBoard ==
  \A m \in MCU, p, q \in Package :
    BoardType[m] \in Images[p] /\ BoardType[m] \in Images[q] => p = q

\* isUpdating() tells exactly whether an updater of the MCU exists, and there
\* is at most one. This needs OnePackagePerBoard and no signalled updater.
UpdatingIsExact ==
  \A m \in MCU : Unreaped(m) = IF IsUpdating(m) THEN {watched[m]} ELSE {}

\* The version of a firmware that became Active is eventually published,
\* unless the service restarts or an MCU earlier in the map is found updating
\* (Manager::refresh then stops before this one).
NewVersionPublished ==
  \A o \in Object :
    activation[o] = "Active" ~>
      \/ published[o.mcu].version = o.pkg
      \/ activation[o] = "None"
      \/ \E k \in 1 .. (o.mcu - 1) : IsUpdating(k)

-----------------------------------------------------------------------------
(* The inductive invariant behind the safety properties (proved in         *)
(* FirmwareUpdateProofs): the properties above and three facts they rest   *)
(* on.                                                                     *)

\* Objects exist only for announced packages: SoftwareAdded never overwrites
\* the state of an object.
OnlyAnnounced == \A o \in Object : activation[o] # "None" => o.pkg \in announced

\* A published type is the one of the board, and objects fit their board.
TypesAgree ==
  /\ \A m \in MCU : published[m].type \in {NoType, BoardType[m]}
  /\ \A o \in Object : activation[o] # "None" => BoardType[o.mcu] \in Images[o.pkg]

\* An image is in the update area of an MCU for an updater's sake, or has been
\* left there.
ImagesAccounted ==
  ~ starting => \A m \in MCU : area[m] # NoVersion /\ Unreaped(m) = {} => m \in left

\* Nothing is updating before the manager runs.
QuietStart ==
  starting => /\ \A m \in MCU : ~ IsUpdating(m) /\ published[m] = NewController
              /\ \A u \in Updater : phase[u] = "idle"

\* An updater that told an MCU to reboot begins to wait when the MCU goes down;
\* a watched one that is alone on its MCU has seen no other reboot, and if it
\* succeeded left its version there.
Installed ==
  /\ \A u \in Updater : phase[u] = "told" => boot[job[u].mcu] = "told"
  /\ \A m \in MCU : IsUpdating(m) /\ Unreaped(m) = {watched[m]} =>
       /\ phase[watched[m]] = "verifying" => boot[m] # "told"
       /\ phase[watched[m]] = "succeeded" => boot[m] = "up" /\ fw[m] = job[watched[m]].pkg

IInv ==
  /\ TypeOK
  /\ OnlyAnnounced /\ WatchedIsActivating /\ ActivatingIsServed
  /\ TypesAgree /\ CorrectImage
  /\ QuietStart /\ ImagesAccounted /\ CacheFresh /\ Installed

-----------------------------------------------------------------------------
(* Refinement: the objects implement the session promised to clients. *)

Session == INSTANCE UpdateSession WITH session <- activation

\* Step by step, the Activation property only moves as a session may.
ImplementsSessionSafety == Session!SessionSafety

\* Moreover every activation settles (needs the fairness above, one package
\* per MCU and no signalled updater).
ImplementsSession == Session!SessionSpec
=============================================================================
