------------------------ MODULE FirmwareUpdateProofs ------------------------
(***************************************************************************)
(* Proofs about FirmwareUpdate for every number of MCUs, packages and      *)
(* updater slots.                                                          *)
(***************************************************************************)
EXTENDS FirmwareUpdate, TLAPS

USE MCUAssumption DEF MCU

-----------------------------------------------------------------------------
(* What the handlers that only talk to the boards do to the properties     *)

\* The handlers that refresh controllers or send them a command.
BoardHandler ==
  \/ \E m \in MCU : DriveRequest(m)
  \/ Refresh
  \/ \E S \in SUBSET MCU : ApplyConfiguration(S) \/ SendCommand(S)

\* What such a handler may leave in the properties of one controller.
Touched(m) ==
  \/ published'[m] = published[m]
  \/ /\ ~ IsUpdating(m)
     /\ \/ \E answer \in Answer : published'[m] = Refreshed(m, published[m], answer)
        \/ published'[m] = [published[m] EXCEPT !.functional = FALSE]

\* refresh() keeps the properties well typed.
LEMMA RefreshedType ==
  ASSUME fw \in [MCU -> Version], NEW m \in MCU,
         NEW props \in Properties, NEW answer \in Answer
  PROVE  Refreshed(m, props, answer) \in Properties
<1>1. CASE ~ Answers(m)
  BY <1>1 DEF Refreshed, Properties
<1>2. CASE Answers(m)
  <2> DEFINE v == ReadIfEmpty(props.version, NoVersion, answer.version, fw[m])
             t == ReadIfEmpty(props.type, NoType, answer.type, BoardType[m])
  <2>1. v \in Version \cup {NoVersion}
    BY DEF ReadIfEmpty, Properties
  <2>2. t \in Type \cup {NoType}
    BY BoardAssumption DEF ReadIfEmpty, Properties
  <2>3. answer.functional \in BOOLEAN
    BY DEF Answer
  <2>4. Refreshed(m, props, answer) =
          [version |-> v, type |-> t, functional |-> answer.functional]
    BY <1>2 DEF Refreshed
  <2> HIDE DEF v, t
  <2> QED BY <2>1, <2>2, <2>3, <2>4 DEF Properties
<1> QED BY <1>1, <1>2

\* A refresh of some controllers leaves the others alone.
LEMMA RefreshAllStep ==
  ASSUME TypeOK, NEW S \in SUBSET MCU, NEW answers \in [S -> Answer], RefreshAll(S, answers)
  PROVE  /\ published' \in [MCU -> Properties]
         /\ \A m \in MCU :
              \/ published'[m] = published[m]
              \/ m \in S /\ \E answer \in Answer :
                   published'[m] = Refreshed(m, published[m], answer)
<1>1. ASSUME NEW m \in MCU
      PROVE  /\ published'[m] \in Properties
             /\ \/ published'[m] = published[m]
                \/ m \in S /\ \E answer \in Answer :
                     published'[m] = Refreshed(m, published[m], answer)
  <2>1. CASE m \in S
    <3>1. published'[m] = Refreshed(m, published[m], answers[m])
      BY <2>1 DEF RefreshAll
    <3>2. answers[m] \in Answer /\ published[m] \in Properties
      BY <2>1 DEF TypeOK
    <3> QED
      BY <2>1, <3>1, <3>2, RefreshedType DEF TypeOK
  <2>2. CASE m \notin S
    BY <2>2 DEF RefreshAll, TypeOK
  <2> QED BY <2>1, <2>2
<1>2. published' = [m \in MCU |-> published'[m]]
  BY DEF RefreshAll
<1> QED BY <1>1, <1>2

\* The board handlers change nothing but properties of controllers that are
\* not updating.
LEMMA BoardHandlerStep ==
  ASSUME TypeOK, BoardHandler
  PROVE  /\ published' \in [MCU -> Properties]
         /\ \A m \in MCU : Touched(m)
         /\ UNCHANGED <<activation, announced, watched, signalled, left, displaced, flashVars>>
<1>1. ASSUME NEW S \in SUBSET MCU, \A m \in S : ~ IsUpdating(m),
             NEW answers \in [S -> Answer], RefreshAll(S, answers)
      PROVE  published' \in [MCU -> Properties] /\ \A m \in MCU : Touched(m)
  BY <1>1, RefreshAllStep DEF Touched
<1>2. CASE Refresh
  <2>1. Reached \in SUBSET MCU /\ \A m \in Reached : ~ IsUpdating(m)
    BY DEF Reached
  <2> QED BY <1>1, <1>2, <2>1 DEF Refresh
<1>3. ASSUME NEW last \in MCU, DriveRequest(last)
      PROVE  /\ published' \in [MCU -> Properties]
             /\ \A m \in MCU : Touched(m)
             /\ UNCHANGED <<activation, announced, watched, signalled, left, displaced, flashVars>>
  <2>1. (1 .. last) \in SUBSET MCU /\ \A m \in 1 .. last : ~ IsUpdating(m)
    BY <1>3 DEF DriveRequest, Reached
  <2> QED BY <1>1, <1>3, <2>1 DEF DriveRequest
<1>4. ASSUME NEW S \in SUBSET MCU, ApplyConfiguration(S)
      PROVE  /\ published' \in [MCU -> Properties]
             /\ \A m \in MCU : Touched(m)
             /\ UNCHANGED <<activation, announced, watched, signalled, left, displaced, flashVars>>
  BY <1>1, <1>4 DEF ApplyConfiguration
<1>5. ASSUME NEW S \in SUBSET MCU, SendCommand(S)
      PROVE  /\ published' \in [MCU -> Properties]
             /\ \A m \in MCU : Touched(m)
             /\ UNCHANGED <<activation, announced, watched, signalled, left, displaced, flashVars>>
  <2>1. ASSUME NEW m \in MCU
        PROVE  Touched(m) /\ published'[m] \in Properties
    BY <1>5, <2>1 DEF SendCommand, Touched, TypeOK, Properties
  <2>2. published' = [m \in MCU |-> published'[m]]
    BY <1>5 DEF SendCommand
  <2> QED BY <1>5, <2>1, <2>2 DEF SendCommand
<1> QED BY <1>2, <1>3, <1>4, <1>5 DEF BoardHandler

-----------------------------------------------------------------------------
(* What the updaters and the boards leave alone                            *)

ChildStep(u) == UpdaterGoesOn(u) \/ UpdaterEnds(u) \/ SignalUpdater(u)

\* A step of an updater keeps its slot in use and the other MCUs as they are.
LEMMA ChildStepKeeps ==
  ASSUME TypeOK, NEW u \in Updater, ChildStep(u)
  PROVE  /\ UNCHANGED <<activation, announced, published, watched, left, displaced, job, fw, starting>>
         /\ signalled' \subseteq signalled \cup (IF SignalsAllowed THEN {u} ELSE {})
         /\ job[u] \in Object /\ job[u].mcu \in MCU /\ phase[u] # "idle"
         /\ \A v \in Updater : (phase'[v] = "idle") <=> (phase[v] = "idle")
         /\ \A v \in Updater \ {u} : phase'[v] = phase[v]
         /\ \A m \in MCU \ {job[u].mcu} : boot'[m] = boot[m] /\ area'[m] = area[m]
<1>1. phase[u] # "idle"
  BY DEF ChildStep, UpdaterGoesOn, UpdaterEnds, SignalUpdater, Writes, Reboots, Succeeds, Fails,
     Aborts, Alive
<1>2. job[u] \in Object /\ job[u].mcu \in MCU
  BY <1>1 DEF TypeOK, Object
<1>3. CASE Writes(u) /\ UNCHANGED <<managerVars, signalled, left, displaced>>
  BY <1>1, <1>2, <1>3 DEF Writes, TypeOK, managerVars
<1>4. CASE Reboots(u) /\ UNCHANGED <<managerVars, signalled, left, displaced>>
  BY <1>1, <1>2, <1>4 DEF Reboots, TypeOK, managerVars
<1>5. CASE UpdaterEnds(u)
  BY <1>1, <1>2, <1>5 DEF UpdaterEnds, Succeeds, Fails, Aborts, TypeOK, managerVars, boardVars
<1>6. CASE SignalUpdater(u)
  BY <1>1, <1>2, <1>6 DEF SignalUpdater, TypeOK, managerVars, flashVars
<1> QED
  BY <1>3, <1>4, <1>5, <1>6 DEF ChildStep, UpdaterGoesOn

\* A step of a board, or of reflash, leaves the updaters running that ran, and
\* the other MCUs as they are.
LEMMA BoardStepKeeps ==
  ASSUME TypeOK, NEW m \in MCU, BoardStep(m)
  PROVE  /\ UNCHANGED <<activation, announced, published, watched, signalled, left, displaced, job,
                       starting>>
         /\ \A v \in Updater : (phase'[v] = "idle") <=> (phase[v] = "idle")
         /\ \A k \in MCU \ {m} : fw'[k] = fw[k] /\ boot'[k] = boot[k] /\ area'[k] = area[k]
<1>1. CASE ReflashWrites(m) \/ ReflashReboots(m) \/ ComesUp(m)
  BY <1>1 DEF BoardStep, ReflashWrites, ReflashReboots, ComesUp, TypeOK, managerVars
<1>2. CASE GoesDown(m)
  BY <1>2 DEF BoardStep, GoesDown, TypeOK, managerVars
<1> QED
  BY <1>1, <1>2 DEF BoardStep

\* The next step is one of these.
LEMMA StepCases ==
  ASSUME [Next]_vars
  PROVE  \/ ~ starting /\ BoardHandler
         \/ \E p \in Package : ~ starting /\ SoftwareAdded(p)
         \/ \E o \in Object : ~ starting /\ (ForkFails(o) \/ \E u \in Updater : ForkUpdater(o, u))
         \/ \E m \in MCU : ~ starting /\ (ChildExited(m) \/ ChildStopped(m))
         \/ \E u \in Updater : ChildStep(u)
         \/ \E m \in MCU : BoardStep(m)
         \/ Restart \/ ManagerRestarted \/ UNCHANGED vars
  BY DEF Next, ManagerNext, BoardHandler, ChildStep

-----------------------------------------------------------------------------
(* Type correctness *)

LEMMA InitTypeOK == Init => TypeOK
<1> SUFFICES ASSUME Init PROVE TypeOK
  OBVIOUS
<1>1. PICK answers \in [MCU -> Answer] :
        published = [m \in MCU |-> Refreshed(m, NewController, answers[m])]
  BY DEF Init
<1>2. NewController \in Properties
  BY DEF NewController, Properties
<1>3. fw \in [MCU -> Version] /\ boot \in [MCU -> {"up", "told", "down"}]
  BY DEF Init, FlashInit
<1>4. published \in [MCU -> Properties]
  <2>1. ASSUME NEW m \in MCU
        PROVE  Refreshed(m, NewController, answers[m]) \in Properties
    BY <1>2, <1>3, RefreshedType
  <2> QED BY <1>1, <2>1
<1> QED
  BY <1>3, <1>4 DEF Init, FlashInit, TypeOK, ActivationState, Phase

\* A controller that ends an update keeps the types.
LEMMA EndUpdateType ==
  ASSUME TypeOK, NEW m \in MCU, NEW result \in ActivationState, EndUpdate(m, result)
  PROVE  /\ activation' \in [Object -> ActivationState]
         /\ published' \in [MCU -> Properties]
         /\ watched' \in [MCU -> Updater \cup {NoUpdater}]
<1>1. [published[m] EXCEPT !.version = NoVersion, !.type = NoType] \in Properties
  <2>1. published[m] \in Properties
    BY DEF TypeOK
  <2> QED BY <2>1 DEF Properties
<1>2. published' = [published EXCEPT ![m] =
                      [published[m] EXCEPT !.version = NoVersion, !.type = NoType]]
  BY DEF EndUpdate, TypeOK
<1> QED BY <1>1, <1>2 DEF EndUpdate, TypeOK

\* So do the updaters,
LEMMA ChildStepType ==
  ASSUME TypeOK, NEW u \in Updater, ChildStep(u)
  PROVE  TypeOK'
<1>1. job[u] \in Object /\ job[u].mcu \in MCU /\ job[u].pkg \in Version
  BY ChildStepKeeps DEF Object, Version
<1>2. CASE Writes(u) /\ UNCHANGED <<managerVars, signalled, left, displaced>>
  <2>1. area' \in [MCU -> Version \cup {NoVersion}]
    BY <1>1, <1>2 DEF Writes, TypeOK
  <2> QED
    BY <1>2, <2>1 DEF Writes, TypeOK, managerVars
<1>3. CASE Reboots(u) /\ UNCHANGED <<managerVars, signalled, left, displaced>>
  <2>1. boot' \in [MCU -> {"up", "told", "down"}] /\ phase' \in [Updater -> Phase]
    BY <1>1, <1>3 DEF Reboots, TypeOK, Phase
  <2> QED
    BY <1>3, <2>1 DEF Reboots, TypeOK, managerVars
<1>4. CASE UpdaterEnds(u)
  <2>1. phase' \in [Updater -> Phase] /\ boot' \in [MCU -> {"up", "told", "down"}]
    BY <1>1, <1>4 DEF UpdaterEnds, Succeeds, Fails, Aborts, TypeOK, Phase, boardVars
  <2> QED
    BY <1>4, <2>1 DEF UpdaterEnds, Succeeds, Fails, Aborts, TypeOK, managerVars, boardVars, Alive
<1>5. CASE SignalUpdater(u)
  BY <1>5 DEF SignalUpdater, TypeOK, managerVars, flashVars
<1> QED
  BY <1>2, <1>3, <1>4, <1>5 DEF ChildStep, UpdaterGoesOn

\* and the boards.
LEMMA BoardStepType ==
  ASSUME TypeOK, NEW m \in MCU, BoardStep(m)
  PROVE  TypeOK'
<1>1. CASE ReflashWrites(m)
  BY <1>1 DEF BoardStep, ReflashWrites, TypeOK, managerVars, Version
<1>2. CASE ReflashReboots(m) \/ ComesUp(m)
  BY <1>2 DEF BoardStep, ReflashReboots, ComesUp, TypeOK, managerVars
<1>3. CASE GoesDown(m)
  <2>1. fw' \in [MCU -> Version]
    BY <1>3 DEF GoesDown, TypeOK
  <2>2. phase' \in [Updater -> Phase] /\ \A u \in Updater : phase'[u] # "idle" => phase[u] # "idle"
    BY <1>3 DEF GoesDown, TypeOK, Phase
  <2>3. area' \in [MCU -> Version \cup {NoVersion}] /\ boot' \in [MCU -> {"up", "told", "down"}]
    BY <1>3 DEF GoesDown, TypeOK
  <2> QED
    BY <1>3, <2>1, <2>2, <2>3 DEF BoardStep, GoesDown, TypeOK, managerVars
<1> QED
  BY <1>1, <1>2, <1>3 DEF BoardStep

LEMMA NextTypeOK == TypeOK /\ [Next]_vars => TypeOK'
<1> SUFFICES ASSUME TypeOK, [Next]_vars PROVE TypeOK'
  OBVIOUS
<1>1. CASE BoardHandler
  BY <1>1, BoardHandlerStep DEF TypeOK, flashVars
<1>2. ASSUME NEW p \in Package, SoftwareAdded(p) PROVE TypeOK'
  BY <1>2 DEF SoftwareAdded, TypeOK, ActivationState, flashVars
<1>3. ASSUME NEW o \in Object, NEW u \in Updater, ForkUpdater(o, u) PROVE TypeOK'
  <2>1. o.mcu \in MCU
    BY DEF Object
  <2> QED BY <1>3, <2>1 DEF ForkUpdater, Forked, TypeOK, ActivationState, Phase, boardVars
<1>4. ASSUME NEW o \in Object, ForkFails(o) PROVE TypeOK'
  BY <1>4 DEF ForkFails, TypeOK, ActivationState, flashVars
<1>5. ASSUME NEW m \in MCU, ChildExited(m) PROVE TypeOK'
  <2> DEFINE u == watched[m]
  <2>1. u \in Updater
    BY <1>5 DEF ChildExited, IsUpdating, TypeOK
  <2>2. EndUpdate(m, IF phase[u] = "succeeded" THEN "Active" ELSE "Failed")
    BY <1>5 DEF ChildExited
  <2>3. (IF phase[u] = "succeeded" THEN "Active" ELSE "Failed") \in ActivationState
    BY DEF ActivationState
  <2>4. /\ activation' \in [Object -> ActivationState]
        /\ published' \in [MCU -> Properties]
        /\ watched' \in [MCU -> Updater \cup {NoUpdater}]
    BY <2>2, <2>3, EndUpdateType
  <2> QED BY <1>5, <2>1, <2>4 DEF ChildExited, Reaped, TypeOK, Phase, boardVars
<1>6. ASSUME NEW m \in MCU, ChildStopped(m) PROVE TypeOK'
  <2>1. EndUpdate(m, "Failed") /\ "Failed" \in ActivationState
    BY <1>6 DEF ChildStopped, ActivationState
  <2>2. /\ activation' \in [Object -> ActivationState]
        /\ published' \in [MCU -> Properties]
        /\ watched' \in [MCU -> Updater \cup {NoUpdater}]
    BY <2>1, EndUpdateType
  <2> QED BY <1>6, <2>2 DEF ChildStopped, TypeOK, flashVars
<1>7. CASE Restart
  <2>1. NewController \in Properties
    BY DEF NewController, Properties
  <2> QED BY <1>7, <2>1 DEF Restart, ServiceStarts, TypeOK, ActivationState, Phase, boardVars
<1>8. CASE ManagerRestarted
  <2>1. published' \in [MCU -> Properties]
    BY <1>8, RefreshAllStep DEF ManagerRestarted
  <2> QED BY <1>8, <2>1 DEF ManagerRestarted, ManagerStarts, TypeOK, boardVars
<1>9. CASE UNCHANGED vars
  BY <1>9 DEF vars, managerVars, flashVars, TypeOK
<1> QED
  BY <1>1, <1>2, <1>3, <1>4, <1>5, <1>6, <1>7, <1>8, <1>9, ChildStepType, BoardStepType, StepCases

\* The variables always have their types: in particular an updater that is not
\* reaped always has the software object it was forked for.
THEOREM TypeCorrect == Spec => []TypeOK
BY InitTypeOK, NextTypeOK, PTL DEF Spec

\* Before the manager runs nothing is updating.
LEMMA NextQuietStart == TypeOK /\ QuietStart /\ [Next]_vars => QuietStart'
<1> SUFFICES ASSUME TypeOK, QuietStart, [Next]_vars PROVE QuietStart'
  OBVIOUS
<1>1. CASE ~ starting /\ UNCHANGED starting
  BY <1>1 DEF QuietStart
<1>2. CASE BoardHandler /\ ~ starting
  BY <1>1, <1>2, BoardHandlerStep DEF flashVars
<1>3. ASSUME NEW p \in Package, ~ starting, SoftwareAdded(p) PROVE QuietStart'
  BY <1>1, <1>3 DEF SoftwareAdded, flashVars
<1>4. ASSUME NEW o \in Object, ~ starting, ForkFails(o) \/ \E u \in Updater : ForkUpdater(o, u)
      PROVE  QuietStart'
  BY <1>1, <1>4 DEF ForkFails, ForkUpdater, Forked, flashVars
<1>5. ASSUME NEW m \in MCU, ~ starting, ChildExited(m) \/ ChildStopped(m) PROVE QuietStart'
  BY <1>1, <1>5 DEF ChildExited, ChildStopped, Reaped, flashVars
<1>6. ASSUME NEW u \in Updater, ChildStep(u) PROVE QuietStart'
  BY <1>6, ChildStepKeeps DEF QuietStart
<1>7. ASSUME NEW m \in MCU, BoardStep(m) PROVE QuietStart'
  BY <1>7, BoardStepKeeps DEF QuietStart, IsUpdating
<1>8. CASE Restart
  BY <1>8 DEF Restart, ServiceStarts, QuietStart, IsUpdating
<1>9. CASE ManagerRestarted
  BY <1>9 DEF ManagerRestarted, ManagerStarts, QuietStart
<1>10. CASE UNCHANGED vars
  BY <1>10 DEF vars, managerVars, flashVars, QuietStart, IsUpdating
<1> QED
  BY <1>2, <1>3, <1>4, <1>5, <1>6, <1>7, <1>8, <1>9, <1>10, StepCases

-----------------------------------------------------------------------------
(* Objects, watchers and updaters                                          *)

\* The bookkeeping of the manager: objects, watchers, forked updaters.
Book == OnlyAnnounced /\ WatchedIsActivating /\ ActivatingIsServed

\* The updater processes do not touch the bookkeeping: the process slots in
\* use stay in use, for the same objects.
LEMMA BookUnchanged ==
  ASSUME TypeOK, Book, UNCHANGED <<activation, announced, watched, job, displaced>>,
         \A u \in Updater : (phase'[u] = "idle") <=> (phase[u] = "idle")
  PROVE  Book'
<1>1. \A m : Unreaped(m)' = Unreaped(m)
  BY DEF Unreaped
<1>2. OnlyAnnounced'
  BY DEF Book, OnlyAnnounced
<1>3. WatchedIsActivating'
  BY <1>1 DEF Book, WatchedIsActivating, IsUpdating
<1>4. ActivatingIsServed'
  BY DEF Book, ActivatingIsServed, Served, IsUpdating
<1> QED BY <1>2, <1>3, <1>4 DEF Book

LEMMA NextBook == TypeOK /\ Book /\ [Next]_vars => Book'
<1> SUFFICES ASSUME TypeOK, Book, [Next]_vars PROVE Book'
  OBVIOUS
<1> USE DEF Book
<1>1. CASE BoardHandler
  BY <1>1, BoardHandlerStep, BookUnchanged DEF flashVars
<1>2. ASSUME NEW p \in Package, SoftwareAdded(p) PROVE Book'
  <2>1. \A m \in MCU : Unreaped(m)' = Unreaped(m)
    BY <1>2 DEF SoftwareAdded, flashVars, Unreaped
  <2>2. \A o \in Object : activation[o] # "None" => activation'[o] = activation[o]
    BY <1>2 DEF SoftwareAdded, OnlyAnnounced, TypeOK
  <2>3. \A o \in Object : activation'[o] # activation[o] => activation'[o] = "Ready"
    BY <1>2 DEF SoftwareAdded, TypeOK
  <2>4. OnlyAnnounced'
    BY <1>2 DEF SoftwareAdded, OnlyAnnounced, TypeOK
  <2>5. WatchedIsActivating'
    BY <1>2, <2>1, <2>2 DEF SoftwareAdded, WatchedIsActivating, IsUpdating, flashVars, TypeOK, Unreaped
  <2>6. ActivatingIsServed'
    BY <1>2, <2>2, <2>3 DEF SoftwareAdded, ActivatingIsServed, Served, IsUpdating, flashVars, TypeOK
  <2> QED BY <2>4, <2>5, <2>6
<1>3. ASSUME NEW o \in Object, NEW u \in Updater, ForkUpdater(o, u) PROVE Book'
  <2>1. o.mcu \in MCU /\ u # NoUpdater
    BY EmptyAssumption DEF Object
  <2>2. OnlyAnnounced'
    BY <1>3 DEF ForkUpdater, Forked, MayActivate, OnlyAnnounced, TypeOK
  <2>3. WatchedIsActivating'
    BY <1>3, <2>1 DEF ForkUpdater, Forked, MayActivate, WatchedIsActivating, IsUpdating, Unreaped, TypeOK
  <2>4. ActivatingIsServed'
    <3> SUFFICES ASSUME NEW x \in Object, activation'[x] = "Activating"
                 PROVE  Served(x)' \/ x \in displaced'
      BY DEF ActivatingIsServed
    <3>1. CASE x = o
      BY <1>3, <2>1, <3>1 DEF ForkUpdater, Forked, Served, IsUpdating, TypeOK
    <3>2. CASE x # o /\ x.mcu = o.mcu
      BY <1>3, <3>2 DEF ForkUpdater, ActivatingIsServed, TypeOK
    <3>3. CASE x.mcu # o.mcu
      <4>1. x.mcu \in MCU /\ activation[x] = "Activating" /\ watched'[x.mcu] = watched[x.mcu]
        BY <1>3, <2>1, <3>3 DEF ForkUpdater, Forked, TypeOK, Object
      <4>2. CASE Served(x)
        <5>1. watched[x.mcu] \in Updater /\ watched[x.mcu] # u
          BY <1>3, <4>1, <4>2 DEF ForkUpdater, Forked, WatchedIsActivating, Served, Unreaped
        <5> QED BY <1>3, <4>1, <4>2, <5>1 DEF ForkUpdater, Forked, Served, IsUpdating, TypeOK
      <4>3. CASE x \in displaced
        BY <1>3, <4>3 DEF ForkUpdater
      <4> QED BY <4>1, <4>2, <4>3 DEF ActivatingIsServed
    <3> QED BY <3>1, <3>2, <3>3
  <2> QED BY <2>2, <2>3, <2>4
<1>4. ASSUME NEW o \in Object, ForkFails(o) PROVE Book'
  <2>1. \A m \in MCU : Unreaped(m)' = Unreaped(m)
    BY <1>4 DEF ForkFails, flashVars, Unreaped
  <2>2. OnlyAnnounced'
    BY <1>4 DEF ForkFails, MayActivate, OnlyAnnounced, TypeOK
  <2>3. WatchedIsActivating'
    BY <1>4, <2>1 DEF ForkFails, MayActivate, WatchedIsActivating, IsUpdating, Unreaped, TypeOK, flashVars
  <2>4. ActivatingIsServed'
    BY <1>4 DEF ForkFails, MayActivate, ActivatingIsServed, Served, IsUpdating, TypeOK, flashVars
  <2> QED BY <2>2, <2>3, <2>4
<1>5. ASSUME NEW m \in MCU, NEW result \in {"Active", "Failed"}, EndUpdate(m, result),
             IsUpdating(m), UNCHANGED <<announced, displaced>>,
             \A u \in Updater \ {watched[m]} : phase'[u] = phase[u] /\ job'[u] = job[u]
      PROVE  Book'
  <2> DEFINE ended == job[watched[m]]
  <2>1. /\ watched[m] \in Updater /\ ended \in Object
        /\ ended.mcu = m /\ activation[ended] = "Activating"
    BY <1>5 DEF WatchedIsActivating, Unreaped, TypeOK
  <2>2. activation' = [activation EXCEPT ![ended] = result]
    BY <1>5 DEF EndUpdate
  <2>3. watched' = [watched EXCEPT ![m] = NoUpdater]
    BY <1>5 DEF EndUpdate
  <2>4. OnlyAnnounced'
    BY <1>5, <2>1, <2>2 DEF OnlyAnnounced, TypeOK
  <2>5. WatchedIsActivating'
    <3> SUFFICES ASSUME NEW k \in MCU, IsUpdating(k)'
                 PROVE  watched'[k] \in Unreaped(k)' /\ activation'[job'[watched'[k]]] = "Activating"
      BY DEF WatchedIsActivating
    <3>1. k # m /\ watched'[k] = watched[k] /\ IsUpdating(k)
      BY <2>3 DEF IsUpdating, TypeOK
    <3>2. /\ watched[k] \in Unreaped(k) /\ activation[job[watched[k]]] = "Activating"
          /\ watched[k] \in Updater \ {watched[m]} /\ job[watched[k]] # ended
          /\ job[watched[k]] \in Object
      BY <2>1, <3>1 DEF WatchedIsActivating, Unreaped, TypeOK
    <3> QED BY <1>5, <2>2, <3>1, <3>2 DEF Unreaped, TypeOK
  <2>6. ActivatingIsServed'
    <3> SUFFICES ASSUME NEW x \in Object, activation'[x] = "Activating"
                 PROVE  Served(x)' \/ x \in displaced'
      BY DEF ActivatingIsServed
    <3>1. x # ended /\ activation[x] = "Activating" /\ x.mcu \in MCU
      BY <1>5, <2>1, <2>2 DEF TypeOK, Object
    <3>2. CASE Served(x)
      <4>1. x.mcu # m
        BY <3>1, <3>2 DEF Served
      <4>2. watched'[x.mcu] = watched[x.mcu]
        BY <2>3, <3>1, <4>1 DEF TypeOK
      <4>3. watched[x.mcu] \in Updater \ {watched[m]}
        BY <2>1, <3>1, <3>2, <4>1 DEF WatchedIsActivating, Served, Unreaped
      <4> QED BY <1>5, <3>2, <4>2, <4>3 DEF Served, IsUpdating
    <3>3. CASE x \in displaced
      BY <1>5, <3>3
    <3> QED BY <3>1, <3>2, <3>3 DEF ActivatingIsServed
  <2> QED BY <2>4, <2>5, <2>6
<1>6. ASSUME NEW m \in MCU, ChildExited(m) PROVE Book'
  <2>1. EndUpdate(m, "Active") \/ EndUpdate(m, "Failed")
    BY <1>6 DEF ChildExited
  <2>2. \A u \in Updater \ {watched[m]} : phase'[u] = phase[u] /\ job'[u] = job[u]
    BY <1>6 DEF ChildExited, Reaped, TypeOK
  <2> QED BY <1>5, <1>6, <2>1, <2>2 DEF ChildExited
<1>7. ASSUME NEW m \in MCU, ChildStopped(m) PROVE Book'
  BY <1>5, <1>7 DEF ChildStopped, flashVars
<1>8. ASSUME NEW u \in Updater, ChildStep(u) PROVE Book'
  BY <1>8, ChildStepKeeps, BookUnchanged
<1>9. ASSUME NEW m \in MCU, BoardStep(m) PROVE Book'
  BY <1>9, BookUnchanged, BoardStepKeeps
<1>10. CASE Restart
  BY <1>10 DEF Restart, ServiceStarts, OnlyAnnounced, WatchedIsActivating, ActivatingIsServed, IsUpdating
<1>11. CASE UNCHANGED vars
  BY <1>11, BookUnchanged DEF vars, managerVars, flashVars
<1>12. CASE ManagerRestarted
  BY <1>12, BookUnchanged DEF ManagerRestarted, ManagerStarts
<1> QED
  BY <1>1, <1>2, <1>3, <1>4, <1>6, <1>7, <1>8, <1>9, <1>10, <1>11, <1>12, StepCases

-----------------------------------------------------------------------------
(* Packages and board types                                                *)

Fits == TypesAgree /\ CorrectImage

\* refresh() takes the type from the board or leaves it as it was.
LEMMA RefreshedFits ==
  ASSUME NEW m \in MCU, NEW props \in Properties, NEW answer \in Answer,
         props.type \in {NoType, BoardType[m]}
  PROVE  Refreshed(m, props, answer).type \in {NoType, BoardType[m]}
<1>1. CASE ~ Answers(m)
  BY <1>1 DEF Refreshed, Properties
<1>2. CASE Answers(m)
  BY <1>2 DEF Refreshed, ReadIfEmpty
<1> QED BY <1>1, <1>2

LEMMA NextFits == TypeOK /\ Book /\ Fits /\ [Next]_vars => Fits'
<1> SUFFICES ASSUME TypeOK, Book, Fits, [Next]_vars PROVE Fits'
  OBVIOUS
<1> USE DEF Fits
<1>1. ASSUME UNCHANGED <<activation, job>>,
             \A m \in MCU : published'[m].type \in {NoType, BoardType[m]},
             \A u \in Updater : phase'[u] # "idle" => phase[u] # "idle"
      PROVE  Fits'
  BY <1>1 DEF TypesAgree, CorrectImage
<1>2. CASE BoardHandler
  <2>1. ASSUME NEW m \in MCU PROVE published'[m].type \in {NoType, BoardType[m]}
    <3>1. published[m] \in Properties /\ published[m].type \in {NoType, BoardType[m]}
      BY DEF TypeOK, TypesAgree
    <3>2. Touched(m)
      BY <1>2, BoardHandlerStep
    <3> QED BY <3>1, <3>2, RefreshedFits DEF Touched, Properties
  <2> QED BY <1>1, <1>2, <2>1, BoardHandlerStep DEF flashVars
<1>3. ASSUME NEW p \in Package, SoftwareAdded(p) PROVE Fits'
  <2>1. \A o \in Object : o.pkg \in Package /\ o.mcu \in MCU
    BY DEF Object
  <2>2. ASSUME NEW m \in MCU, published[m].type \in Images[p]
        PROVE  BoardType[m] \in Images[p]
    BY <2>2, BoardAssumption, EmptyAssumption DEF TypesAgree
  <2> QED BY <1>3, <2>1, <2>2
          DEF SoftwareAdded, TypesAgree, CorrectImage, TypeOK, flashVars
<1>4. ASSUME NEW o \in Object, NEW u \in Updater, ForkUpdater(o, u) PROVE Fits'
  <2>1. BoardType[o.mcu] \in Images[o.pkg]
    BY <1>4 DEF ForkUpdater, Forked, MayActivate, TypesAgree
  <2> QED BY <1>4, <2>1 DEF ForkUpdater, Forked, TypesAgree, CorrectImage, TypeOK
<1>5. ASSUME NEW o \in Object, ForkFails(o) PROVE Fits'
  BY <1>5 DEF ForkFails, MayActivate, TypesAgree, CorrectImage, TypeOK, flashVars
<1>6. ASSUME NEW m \in MCU, NEW result \in {"Active", "Failed"}, EndUpdate(m, result),
             IsUpdating(m),
             \A u \in Updater : \/ phase'[u] = phase[u] /\ job'[u] = job[u]
                                \/ phase'[u] = "idle"
      PROVE  Fits'
  <2>1. job[watched[m]] \in Object /\ activation[job[watched[m]]] = "Activating"
    BY <1>6 DEF Book, WatchedIsActivating, Unreaped, TypeOK
  <2>2. \A o \in Object : activation'[o] # "None" => activation[o] # "None"
    BY <1>6, <2>1 DEF EndUpdate, TypeOK
  <2>3. ASSUME NEW k \in MCU PROVE published'[k].type \in {NoType, BoardType[k]}
    <3>1. published[k] \in Properties /\ published[m] \in Properties
      BY DEF TypeOK
    <3>2. CASE k = m
      BY <1>6, <3>1, <3>2 DEF EndUpdate, TypeOK, Properties
    <3>3. CASE k # m
      BY <1>6, <3>1, <3>3 DEF EndUpdate, TypeOK, TypesAgree
    <3> QED BY <3>2, <3>3
  <2>4. CorrectImage'
    BY <1>6 DEF CorrectImage
  <2> QED BY <2>2, <2>3, <2>4 DEF TypesAgree
<1>7. ASSUME NEW m \in MCU, ChildExited(m) PROVE Fits'
  <2>1. EndUpdate(m, "Active") \/ EndUpdate(m, "Failed")
    BY <1>7 DEF ChildExited
  <2>2. \A u \in Updater : \/ phase'[u] = phase[u] /\ job'[u] = job[u]
                           \/ phase'[u] = "idle"
    BY <1>7 DEF ChildExited, Reaped, TypeOK
  <2> QED BY <1>6, <1>7, <2>1, <2>2 DEF ChildExited
<1>8. ASSUME NEW m \in MCU, ChildStopped(m) PROVE Fits'
  BY <1>6, <1>8 DEF ChildStopped, flashVars
<1>9. ASSUME NEW u \in Updater, ChildStep(u) PROVE Fits'
  BY <1>1, <1>9, ChildStepKeeps DEF TypesAgree
<1>10. ASSUME NEW m \in MCU, BoardStep(m) PROVE Fits'
  BY <1>1, <1>10, BoardStepKeeps DEF TypesAgree
<1>11. CASE Restart
  BY <1>11 DEF Restart, ServiceStarts, NewController, TypesAgree, CorrectImage
<1>12. CASE UNCHANGED vars
  BY <1>1, <1>12 DEF vars, managerVars, flashVars, TypesAgree
<1>13. CASE ManagerRestarted
  <2>1. ASSUME NEW m \in MCU PROVE published'[m].type \in {NoType, BoardType[m]}
    <3>1. published[m] \in Properties /\ published[m].type \in {NoType, BoardType[m]}
      BY DEF TypeOK, TypesAgree
    <3>2. \/ published'[m] = published[m]
          \/ \E answer \in Answer : published'[m] = Refreshed(m, published[m], answer)
      BY <1>13, RefreshAllStep DEF ManagerRestarted
    <3> QED BY <3>1, <3>2, RefreshedFits
  <2> QED BY <1>1, <1>13, <2>1 DEF ManagerRestarted, ManagerStarts
<1> QED
  BY <1>2, <1>3, <1>4, <1>5, <1>7, <1>8, <1>9, <1>10, <1>11, <1>12, <1>13, StepCases

-----------------------------------------------------------------------------
(* Cached versions and images in the update areas                          *)

Fresh == CacheFresh /\ ImagesAccounted

\* The version of one controller is the one of its MCU, or empty.
Current(m) == published[m].version # NoVersion => published[m].version = fw[m]

\* refresh() keeps that.
LEMMA RefreshedCurrent ==
  ASSUME NEW m \in MCU, NEW props \in Properties, NEW answer \in Answer,
         props.version # NoVersion => props.version = fw[m]
  PROVE  LET r == Refreshed(m, props, answer) IN r.version # NoVersion => r.version = fw[m]
<1>1. CASE ~ Answers(m)
  BY <1>1 DEF Refreshed, Properties
<1>2. CASE Answers(m)
  BY <1>2 DEF Refreshed, ReadIfEmpty
<1> QED BY <1>1, <1>2

\* Where no updater is reaped, no image installed and nothing forgotten, only
\* what is read or written counts.
LEMMA FreshKept ==
  ASSUME Fresh,
         \A m \in MCU : /\ Unreaped(m) \subseteq Unreaped(m)' /\ (m \in left => m \in left')
                        /\ (Current(m) => Current(m)')
                        /\ (area'[m] # NoVersion /\ Unreaped(m)' = {} => area[m] # NoVersion),
         UNCHANGED starting
  PROVE  Fresh'
<1>1. CacheFresh'
  <2> SUFFICES ASSUME NEW m \in MCU, published'[m].version # NoVersion, Unreaped(m)' = {},
                      m \notin left'
               PROVE  published'[m].version = fw'[m]
    BY DEF CacheFresh
  <2>1. Current(m)
    BY DEF Fresh, CacheFresh, Current
  <2> QED BY <2>1 DEF Current
<1>2. ImagesAccounted'
  BY DEF Fresh, ImagesAccounted
<1> QED BY <1>1, <1>2 DEF Fresh

LEMMA NextFresh == TypeOK /\ Book /\ QuietStart /\ Fresh /\ [Next]_vars => Fresh'
<1> SUFFICES ASSUME TypeOK, Book, QuietStart, Fresh, [Next]_vars PROVE Fresh'
  OBVIOUS
<1>1. ASSUME UNCHANGED <<left, phase, job, fw, area, starting>>,
             \A m \in MCU : Current(m) => Current(m)'
      PROVE  Fresh'
  <2>1. \A m \in MCU : Unreaped(m)' = Unreaped(m)
    BY <1>1 DEF Unreaped
  <2> QED BY <1>1, <2>1, FreshKept
<1>2. CASE BoardHandler
  <2>1. ASSUME NEW m \in MCU, Current(m) PROVE Current(m)'
    <3>1. published[m] \in Properties
      BY DEF TypeOK
    <3>2. Touched(m) /\ UNCHANGED fw
      BY <1>2, BoardHandlerStep DEF flashVars
    <3> QED BY <2>1, <3>1, <3>2, RefreshedCurrent DEF Touched, Current, Properties
  <2> QED BY <1>1, <1>2, <2>1, BoardHandlerStep DEF flashVars
<1>3. ASSUME NEW p \in Package, SoftwareAdded(p) PROVE Fresh'
  BY <1>1, <1>3 DEF SoftwareAdded, flashVars, Current
<1>4. ASSUME NEW o \in Object, NEW u \in Updater, ForkUpdater(o, u) PROVE Fresh'
  <2>1. /\ UNCHANGED <<left, fw, area, starting, published>>
        /\ \A v \in Updater \ {u} : phase'[v] = phase[v] /\ job'[v] = job[v]
        /\ phase[u] = "idle"
    BY <1>4 DEF ForkUpdater, Forked, TypeOK, boardVars
  <2>2. \A m \in MCU : Unreaped(m) \subseteq Unreaped(m)'
    BY <2>1 DEF Unreaped
  <2> QED BY <2>1, <2>2, FreshKept DEF Current
<1>5. ASSUME NEW o \in Object, ForkFails(o) PROVE Fresh'
  BY <1>1, <1>5 DEF ForkFails, flashVars, Current
<1>6. ASSUME NEW m \in MCU, NEW result, EndUpdate(m, result)
      PROVE  \A k \in MCU : (UNCHANGED fw /\ Current(k) => Current(k)') /\ (k = m => Current(k)')
  BY <1>6 DEF EndUpdate, Current, TypeOK, Properties
<1>7. ASSUME NEW m \in MCU, ChildExited(m) PROVE Fresh'
  <2>1. \A k \in MCU : (Current(k) => Current(k)') /\ (k = m => Current(k)')
    BY <1>6, <1>7 DEF ChildExited, Reaped, boardVars
  <2>2. /\ watched[m] \in Updater /\ job[watched[m]].mcu = m
    BY <1>7 DEF ChildExited, Book, WatchedIsActivating, Unreaped
  <2>3. \A k \in MCU : k # m => Unreaped(k)' = Unreaped(k)
    BY <1>7, <2>2 DEF ChildExited, Reaped, Unreaped, TypeOK
  <2>4. /\ UNCHANGED <<fw, area, starting>> /\ (area[m] # NoVersion => m \in left')
        /\ \A k \in MCU : k # m => (k \in left' <=> k \in left)
    BY <1>7 DEF ChildExited, Reaped, boardVars
  <2>5. CacheFresh'
    <3> SUFFICES ASSUME NEW k \in MCU, Unreaped(k)' = {}, k \notin left' PROVE Current(k)'
      BY DEF CacheFresh, Current
    <3> QED BY <2>1, <2>3, <2>4 DEF Fresh, CacheFresh, Current
  <2>6. ImagesAccounted'
    BY <2>3, <2>4 DEF Fresh, ImagesAccounted
  <2> QED BY <2>5, <2>6 DEF Fresh
<1>8. ASSUME NEW m \in MCU, ChildStopped(m) PROVE Fresh'
  BY <1>1, <1>6, <1>8 DEF ChildStopped, flashVars
<1>9. ASSUME NEW u \in Updater, ChildStep(u) PROVE Fresh'
  <2>1. \A m \in MCU : Unreaped(m)' = Unreaped(m)
    BY <1>9, ChildStepKeeps DEF Unreaped
  <2>2. u \in Unreaped(job[u].mcu)
    BY <1>9, ChildStepKeeps DEF Unreaped
  <2> QED BY <1>9, <2>1, <2>2, FreshKept, ChildStepKeeps DEF Current
<1>10. ASSUME NEW m \in MCU, BoardStep(m) PROVE Fresh'
  <2>1. \A k \in MCU : Unreaped(k)' = Unreaped(k)
    BY <1>10, BoardStepKeeps DEF Unreaped
  <2>3. CASE starting
    <3>1. ImagesAccounted'
      BY <1>10, <2>3, BoardStepKeeps DEF ImagesAccounted
    <3>2. CacheFresh'
      <4>1. UNCHANGED published /\ \A k \in MCU : published[k] = NewController
        BY <1>10, <2>3, BoardStepKeeps DEF QuietStart
      <4> QED BY <4>1 DEF CacheFresh, NewController
    <3> QED BY <3>1, <3>2 DEF Fresh
  <2>4. CASE ~ starting /\ GoesDown(m)
    <3>1. /\ area'[m] = NoVersion /\ UNCHANGED <<left, published, starting>>
          /\ (area[m] = NoVersion => UNCHANGED fw)
      BY <1>10, <2>4, BoardStepKeeps DEF GoesDown, TypeOK
    <3>2. CacheFresh'
      <4> SUFFICES ASSUME NEW k \in MCU, Unreaped(k)' = {}, k \notin left' PROVE Current(k)'
        BY DEF CacheFresh, Current
      <4>1. Current(k) /\ Unreaped(k) = {} /\ k \notin left
        BY <2>1, <3>1 DEF Fresh, CacheFresh, Current
      <4>2. fw'[k] = fw[k]
        BY <1>10, <2>4, <3>1, <4>1, BoardStepKeeps DEF Fresh, ImagesAccounted
      <4> QED BY <3>1, <4>1, <4>2 DEF Current
    <3>3. ImagesAccounted'
      BY <1>10, <2>1, <3>1, BoardStepKeeps DEF Fresh, ImagesAccounted
    <3> QED BY <3>2, <3>3 DEF Fresh
  <2>5. CASE ~ starting /\ ComesUp(m)
    BY <1>1, <1>10, <2>5, BoardStepKeeps DEF ComesUp, Current
  <2> QED
    BY <1>10, <2>3, <2>4, <2>5 DEF BoardStep, ReflashWrites, ReflashReboots
<1>11. CASE Restart
  BY <1>11 DEF Restart, ServiceStarts, NewController, Fresh, CacheFresh, ImagesAccounted
<1>12. CASE ManagerRestarted
  <2>1. ASSUME NEW m \in MCU PROVE Current(m)'
    <3>1. published[m] = NewController /\ published[m] \in Properties
      BY <1>12 DEF ManagerRestarted, ManagerStarts, QuietStart, TypeOK
    <3>2. \/ published'[m] = published[m]
          \/ \E answer \in Answer : published'[m] = Refreshed(m, published[m], answer)
      BY <1>12, RefreshAllStep DEF ManagerRestarted
    <3>3. UNCHANGED fw
      BY <1>12 DEF ManagerRestarted, ManagerStarts, boardVars
    <3>4. published[m].version = NoVersion
      BY <3>1 DEF NewController
    <3>5. ASSUME NEW answer \in Answer, published'[m] = Refreshed(m, published[m], answer)
          PROVE  published'[m].version # NoVersion => published'[m].version = fw[m]
      BY <3>1, <3>4, <3>5, RefreshedCurrent
    <3> QED BY <3>2, <3>3, <3>4, <3>5 DEF Current
  <2>2. \A m \in MCU : area'[m] # NoVersion => m \in left'
    BY <1>12 DEF ManagerRestarted, ManagerStarts, boardVars
  <2> QED BY <2>1, <2>2 DEF Fresh, CacheFresh, ImagesAccounted, Current
<1>13. CASE UNCHANGED vars
  BY <1>1, <1>13 DEF vars, managerVars, flashVars, Current
<1> QED
  BY <1>2, <1>3, <1>4, <1>5, <1>7, <1>8, <1>9, <1>10, <1>11, <1>12, <1>13, StepCases

-----------------------------------------------------------------------------
(* Installed firmware                                                      *)

\* The watched updater of an MCU that is alone on it and waits or has succeeded.
AloneAndTold(m) ==
  IsUpdating(m) /\ Unreaped(m) = {watched[m]} /\ phase[watched[m]] \in {"verifying", "succeeded"}

\* A step that changes nothing about such updaters and their MCUs.
LEMMA InstalledKept ==
  ASSUME TypeOK, Installed,
         \A u \in Updater : phase'[u] = "told" =>
            phase[u] = "told" /\ UNCHANGED job[u] /\ boot'[job[u].mcu] = "told",
         \A m \in MCU : AloneAndTold(m)' =>
            /\ AloneAndTold(m) /\ UNCHANGED <<boot[m], fw[m], watched[m]>>
            /\ UNCHANGED <<phase[watched[m]], job[watched[m]]>>
  PROVE  Installed'
<1>1. ASSUME NEW m \in MCU, IsUpdating(m)', Unreaped(m)' = {watched'[m]}
      PROVE  /\ phase'[watched'[m]] = "verifying" => boot'[m] # "told"
             /\ phase'[watched'[m]] = "succeeded" =>
                  boot'[m] = "up" /\ fw'[m] = job'[watched'[m]].pkg
  <2>1. CASE AloneAndTold(m)'
    BY <1>1, <2>1 DEF AloneAndTold, Installed
  <2>2. CASE ~ AloneAndTold(m)'
    BY <1>1, <2>2 DEF AloneAndTold
  <2> QED BY <2>1, <2>2
<1>2. \A u \in Updater : phase'[u] = "told" => boot'[job'[u].mcu] = "told"
  OBVIOUS
<1> QED BY <1>1, <1>2 DEF Installed

LEMMA NextInstalled == TypeOK /\ Book /\ QuietStart /\ Installed /\ [Next]_vars => Installed'
<1> SUFFICES ASSUME TypeOK, Book, QuietStart, Installed, [Next]_vars PROVE Installed'
  OBVIOUS
<1>0. \A m \in MCU : IsUpdating(m) => watched[m] \in Updater /\ job[watched[m]].mcu = m
  BY DEF Book, WatchedIsActivating, Unreaped
<1>1. ASSUME UNCHANGED <<watched, phase, job, fw, boot>> PROVE Installed'
  <2>1. \A m \in MCU : Unreaped(m)' = Unreaped(m)
    BY <1>1 DEF Unreaped
  <2> QED BY <1>1, <2>1 DEF Installed, IsUpdating
<1>2. CASE BoardHandler
  BY <1>1, <1>2, BoardHandlerStep DEF flashVars
<1>3. ASSUME NEW p \in Package, SoftwareAdded(p) PROVE Installed'
  BY <1>1, <1>3 DEF SoftwareAdded, flashVars
<1>4. ASSUME NEW o \in Object, NEW u \in Updater, ForkUpdater(o, u) PROVE Installed'
  <2>1. /\ o.mcu \in MCU /\ phase'[u] = "running" /\ phase[u] = "idle" /\ watched'[o.mcu] = u
        /\ \A v \in Updater \ {u} : phase'[v] = phase[v] /\ job'[v] = job[v]
        /\ \A m \in MCU \ {o.mcu} : watched'[m] = watched[m]
        /\ UNCHANGED <<fw, boot>>
    BY <1>4 DEF ForkUpdater, Forked, TypeOK, Object, boardVars
  <2>2. ASSUME NEW m \in MCU, AloneAndTold(m)'
        PROVE  /\ AloneAndTold(m) /\ UNCHANGED <<boot[m], fw[m], watched[m]>>
               /\ UNCHANGED <<phase[watched[m]], job[watched[m]]>>
    <3>1. m # o.mcu
      BY <2>1, <2>2 DEF AloneAndTold
    <3>2. UNCHANGED watched[m] /\ IsUpdating(m) /\ watched[m] \in Updater \ {u}
      BY <1>0, <2>1, <2>2, <3>1 DEF AloneAndTold, IsUpdating
    <3>3. Unreaped(m)' = Unreaped(m)
      BY <1>4, <3>1 DEF ForkUpdater, Forked, Unreaped, TypeOK
    <3> QED BY <2>1, <2>2, <3>2, <3>3 DEF AloneAndTold
  <2>3. ASSUME NEW v \in Updater, phase'[v] = "told"
        PROVE  phase[v] = "told" /\ UNCHANGED job[v] /\ boot'[job[v].mcu] = "told"
    BY <2>1, <2>3 DEF Installed
  <2> QED BY <2>2, <2>3, InstalledKept
<1>5. ASSUME NEW o \in Object, ForkFails(o) PROVE Installed'
  BY <1>1, <1>5 DEF ForkFails, flashVars
<1>6. ASSUME NEW m \in MCU, NEW result, EndUpdate(m, result), IsUpdating(m),
             UNCHANGED <<fw, boot>>,
             \A u \in Updater : \/ phase'[u] = phase[u] /\ job'[u] = job[u]
                                \/ u = watched[m] /\ phase'[u] = "idle"
      PROVE  Installed'
  <2>1. /\ watched'[m] = NoUpdater /\ \A k \in MCU \ {m} : watched'[k] = watched[k]
    BY <1>6 DEF EndUpdate, TypeOK
  <2>2. ASSUME NEW k \in MCU, AloneAndTold(k)'
        PROVE  /\ AloneAndTold(k) /\ UNCHANGED <<boot[k], fw[k], watched[k]>>
               /\ UNCHANGED <<phase[watched[k]], job[watched[k]]>>
    <3>1. k # m
      BY <2>1, <2>2 DEF AloneAndTold, IsUpdating
    <3>2. UNCHANGED watched[k] /\ IsUpdating(k) /\ watched[k] \in Updater \ {watched[m]}
      BY <1>0, <1>6, <2>1, <2>2, <3>1 DEF AloneAndTold, IsUpdating
    <3>3. Unreaped(k)' = Unreaped(k)
      <4>1. watched[m] \notin Unreaped(k)
        BY <1>0, <1>6, <3>1 DEF Unreaped
      <4>2. watched[m] \notin Unreaped(k)'
        BY <1>0, <1>6, <3>1 DEF Unreaped
      <4>3. ASSUME NEW u \in Updater, u # watched[m] PROVE u \in Unreaped(k)' <=> u \in Unreaped(k)
        BY <1>6, <4>3 DEF Unreaped
      <4> QED BY <4>1, <4>2, <4>3 DEF Unreaped
    <3> QED BY <1>6, <2>2, <3>2, <3>3 DEF AloneAndTold
  <2>3. ASSUME NEW v \in Updater, phase'[v] = "told"
        PROVE  phase[v] = "told" /\ UNCHANGED job[v] /\ boot'[job[v].mcu] = "told"
    BY <1>6, <2>3 DEF Installed
  <2> QED BY <2>2, <2>3, InstalledKept
<1>7. ASSUME NEW m \in MCU, ChildExited(m) PROVE Installed'
  <2>1. \A u \in Updater : \/ phase'[u] = phase[u] /\ job'[u] = job[u]
                           \/ u = watched[m] /\ phase'[u] = "idle"
    BY <1>7 DEF ChildExited, Reaped, TypeOK
  <2> QED BY <1>6, <1>7, <2>1 DEF ChildExited, Reaped, boardVars
<1>8. ASSUME NEW m \in MCU, ChildStopped(m) PROVE Installed'
  BY <1>6, <1>8 DEF ChildStopped, flashVars
<1>9. ASSUME NEW u \in Updater, ChildStep(u) PROVE Installed'
  <2> DEFINE b == job[u].mcu
  <2>1. /\ UNCHANGED <<watched, job, fw>> /\ phase[u] # "idle" /\ b \in MCU
        /\ \A v \in Updater : (phase'[v] = "idle") <=> (phase[v] = "idle")
        /\ \A v \in Updater \ {u} : phase'[v] = phase[v]
        /\ \A m \in MCU \ {b} : boot'[m] = boot[m]
    BY <1>9, ChildStepKeeps
  <2>2. \A m \in MCU : Unreaped(m)' = Unreaped(m)
    BY <2>1 DEF Unreaped
  <2>3. /\ boot'[b] \in {boot[b], "told"}
        /\ \/ phase'[u] = phase[u] /\ UNCHANGED boot
           \/ phase'[u] = "told" /\ boot'[b] = "told"
           \/ phase'[u] = "failed"
           \/ /\ phase[u] = "verifying" /\ phase'[u] = "succeeded"
              /\ UNCHANGED boot /\ boot[b] # "down" /\ fw[b] = job[u].pkg
    <3>1. CASE Writes(u)
      BY <3>1 DEF Writes
    <3>2. CASE Reboots(u)
      BY <2>1, <3>2 DEF Reboots, TypeOK
    <3>3. CASE Succeeds(u)
      BY <2>1, <3>3 DEF Succeeds, Answers, TypeOK, boardVars
    <3>4. CASE Fails(u) \/ Aborts(u)
      BY <2>1, <3>4 DEF Fails, Aborts, TypeOK, boardVars
    <3>5. CASE SignalUpdater(u)
      BY <3>5 DEF SignalUpdater, flashVars
    <3> QED BY <1>9, <3>1, <3>2, <3>3, <3>4, <3>5 DEF ChildStep, UpdaterGoesOn, UpdaterEnds
  <2>4. \A v \in Updater : phase'[v] = "told" => boot'[job'[v].mcu] = "told"
    <3> SUFFICES ASSUME NEW v \in Updater, phase'[v] = "told" PROVE boot'[job'[v].mcu] = "told"
      OBVIOUS
    <3>1. CASE v = u
      BY <2>1, <2>3, <3>1 DEF Installed
    <3>2. CASE v # u
      <4>1. boot[job[v].mcu] = "told" /\ job[v].mcu \in MCU
        BY <2>1, <3>2 DEF Installed, TypeOK, Object
      <4> QED BY <2>1, <2>3, <4>1
    <3> QED BY <3>1, <3>2
  <2>5. ASSUME NEW m \in MCU, IsUpdating(m)', Unreaped(m)' = {watched'[m]}
        PROVE  /\ phase'[watched'[m]] = "verifying" => boot'[m] # "told"
               /\ phase'[watched'[m]] = "succeeded" =>
                    boot'[m] = "up" /\ fw'[m] = job'[watched'[m]].pkg
    <3>1. /\ IsUpdating(m) /\ Unreaped(m) = {watched[m]} /\ watched'[m] = watched[m]
          /\ watched[m] \in Updater /\ job[watched[m]].mcu = m
      BY <1>0, <2>1, <2>2, <2>5 DEF IsUpdating
    <3>2. /\ phase[watched[m]] = "verifying" => boot[m] # "told"
          /\ phase[watched[m]] = "succeeded" => boot[m] = "up" /\ fw[m] = job[watched[m]].pkg
      BY <3>1 DEF Installed
    <3>3. boot[m] \in {"up", "told", "down"}
      BY DEF TypeOK
    <3>4. CASE m = b
      <4>1. watched[m] = u
        BY <2>1, <3>1, <3>4 DEF Unreaped
      <4> QED BY <2>1, <2>3, <3>1, <3>2, <3>3, <3>4, <4>1
    <3>5. CASE m # b
      <4>1. watched[m] # u
        BY <3>1, <3>5
      <4> QED BY <2>1, <3>1, <3>2, <3>5, <4>1
    <3> QED BY <3>4, <3>5
  <2> QED BY <2>4, <2>5 DEF Installed
<1>10. ASSUME NEW m \in MCU, BoardStep(m) PROVE Installed'
  <2>0. \A k \in MCU : Unreaped(k)' = Unreaped(k)
    BY <1>10, BoardStepKeeps DEF Unreaped
  <2>1. CASE starting
    <3>1. \A u \in Updater : phase'[u] = "idle"
      <4>1. \A u \in Updater : (phase'[u] = "idle") <=> (phase[u] = "idle")
        BY <1>10, BoardStepKeeps
      <4> QED BY <2>1, <4>1 DEF QuietStart
    <3>2. \A k \in MCU : ~ IsUpdating(k)'
      <4>1. UNCHANGED watched
        BY <1>10, BoardStepKeeps
      <4> QED BY <2>1, <4>1 DEF QuietStart, IsUpdating
    <3> QED BY <3>1, <3>2 DEF Installed
  <2>2. CASE GoesDown(m)
    <3>1. /\ boot'[m] = "down" /\ boot[m] = "told" /\ UNCHANGED <<job, watched>>
          /\ \A k \in MCU \ {m} : boot'[k] = boot[k] /\ fw'[k] = fw[k]
          /\ \A u \in Updater : phase'[u] = IF phase[u] = "told" /\ job[u].mcu = m
                                            THEN "verifying" ELSE phase[u]
      BY <1>10, <2>2, BoardStepKeeps DEF GoesDown, TypeOK
    <3>2. ASSUME NEW u \in Updater, phase'[u] = "told" PROVE boot'[job'[u].mcu] = "told"
      <4>1. phase[u] = "told" /\ job[u].mcu # m
        BY <3>1, <3>2
      <4>2. job[u] \in Object /\ job[u].mcu \in MCU
        BY <4>1 DEF TypeOK, Object
      <4> QED BY <3>1, <4>1, <4>2 DEF Installed
    <3>3. ASSUME NEW k \in MCU, IsUpdating(k)', Unreaped(k)' = {watched'[k]}
          PROVE  /\ phase'[watched'[k]] = "verifying" => boot'[k] # "told"
                 /\ phase'[watched'[k]] = "succeeded" =>
                      boot'[k] = "up" /\ fw'[k] = job'[watched'[k]].pkg
      <4>1. /\ IsUpdating(k) /\ Unreaped(k) = {watched[k]} /\ watched'[k] = watched[k]
            /\ watched[k] \in Updater /\ job[watched[k]].mcu = k
        BY <1>0, <2>0, <3>1, <3>3 DEF IsUpdating
      <4>2. /\ phase[watched[k]] = "verifying" => boot[k] # "told"
            /\ phase[watched[k]] = "succeeded" => boot[k] = "up" /\ fw[k] = job[watched[k]].pkg
        BY <4>1 DEF Installed
      <4> QED BY <3>1, <4>1, <4>2
    <3> QED BY <3>2, <3>3 DEF Installed
  <2>3. CASE ComesUp(m)
    <3>1. /\ boot'[m] = "up" /\ boot[m] = "down" /\ UNCHANGED <<phase, job, watched, fw>>
          /\ \A k \in MCU \ {m} : boot'[k] = boot[k]
      BY <1>10, <2>3, BoardStepKeeps DEF ComesUp, TypeOK
    <3>2. ASSUME NEW u \in Updater, phase'[u] = "told" PROVE boot'[job'[u].mcu] = "told"
      BY <3>1, <3>2 DEF Installed, TypeOK, Object
    <3>3. ASSUME NEW k \in MCU, IsUpdating(k)', Unreaped(k)' = {watched'[k]}
          PROVE  /\ phase'[watched'[k]] = "verifying" => boot'[k] # "told"
                 /\ phase'[watched'[k]] = "succeeded" =>
                      boot'[k] = "up" /\ fw'[k] = job'[watched'[k]].pkg
      <4>1. IsUpdating(k) /\ Unreaped(k) = {watched[k]} /\ watched'[k] = watched[k]
        BY <2>0, <3>1, <3>3 DEF IsUpdating
      <4> QED BY <3>1, <4>1 DEF Installed
    <3> QED BY <3>2, <3>3 DEF Installed
  <2> QED
    BY <1>10, <2>1, <2>2, <2>3 DEF BoardStep, ReflashWrites, ReflashReboots
<1>11. CASE Restart
  BY <1>11 DEF Restart, ServiceStarts, Installed, IsUpdating
<1>12. CASE ManagerRestarted
  BY <1>1, <1>12 DEF ManagerRestarted, ManagerStarts, boardVars
<1>13. CASE UNCHANGED vars
  BY <1>1, <1>13 DEF vars, managerVars, flashVars
<1> QED
  BY <1>2, <1>3, <1>4, <1>5, <1>7, <1>8, <1>9, <1>10, <1>11, <1>12, <1>13, StepCases

-----------------------------------------------------------------------------
(* The invariant and the safety theorems                                   *)

LEMMA InitIInv == Init => IInv
<1> SUFFICES ASSUME Init PROVE IInv
  OBVIOUS
<1>1. TypeOK
  BY InitTypeOK
<1>2. /\ OnlyAnnounced /\ WatchedIsActivating /\ ActivatingIsServed /\ CorrectImage
      /\ QuietStart /\ ImagesAccounted /\ Installed
  BY DEF Init, FlashInit, OnlyAnnounced, WatchedIsActivating, ActivatingIsServed, CorrectImage,
         QuietStart, ImagesAccounted, Installed, IsUpdating
<1>3. PICK answers \in [MCU -> Answer] :
        published = [m \in MCU |-> Refreshed(m, NewController, answers[m])]
  BY DEF Init
<1>4. ASSUME NEW m \in MCU PROVE Current(m) /\ published[m].type \in {NoType, BoardType[m]}
  BY <1>3, <1>4 DEF Init, FlashInit, Refreshed, ReadIfEmpty, NewController, Current
<1>5. TypesAgree /\ CacheFresh
  BY <1>4 DEF Init, TypesAgree, CacheFresh, Current
<1> QED BY <1>1, <1>2, <1>5 DEF IInv

LEMMA NextIInv == IInv /\ [Next]_vars => IInv'
BY NextTypeOK, NextQuietStart, NextBook, NextFits, NextFresh, NextInstalled
   DEF IInv, Book, Fits, Fresh

LEMMA Inductive == Spec => []IInv
BY InitIInv, NextIInv, PTL DEF Spec

\* The child a controller watches always belongs to an object of its own that
\* is waiting for the result.
THEOREM WatchedServesActivating == Spec => []WatchedIsActivating
BY Inductive, PTL DEF IInv

\* An activation is left unserved only if another package was activated on the
\* MCU while its updater was being watched, and took the watcher.
THEOREM OnlyOverlapStrands == Spec => []ActivatingIsServed
BY Inductive, PTL DEF IInv

\* A published version is the version of the MCU, while no updater forked for
\* it is unreaped and none has left an image behind.
THEOREM PublishedVersionFresh == Spec => []CacheFresh
BY Inductive, PTL DEF IInv

\* Updaters are only given images made for the board.
THEOREM ImagesFitBoards == Spec => []CorrectImage
BY Inductive, PTL DEF IInv

-----------------------------------------------------------------------------
(* Action properties and the refinement                                    *)

\* What every step that is neither a child event nor a restart keeps.
Quiet ==
  /\ \A m \in MCU : IsUpdating(m) => published'[m] = published[m]
  /\ \A o \in Object : activation'[o] = "Active" => activation[o] = "Active"

LEMMA QuietSteps ==
  ASSUME IInv, [Next]_vars,
         \A m \in MCU : ~ ChildExited(m) /\ ~ ChildStopped(m), ~ Restart
  PROVE  Quiet
<1> USE DEF IInv, Quiet
<1>1. CASE BoardHandler
  BY <1>1, BoardHandlerStep DEF Touched
<1>2. ASSUME NEW p \in Package, SoftwareAdded(p) PROVE Quiet
  BY <1>2 DEF SoftwareAdded, TypeOK
<1>3. ASSUME NEW o \in Object, NEW u \in Updater, ForkUpdater(o, u) PROVE Quiet
  BY <1>3 DEF ForkUpdater, TypeOK
<1>4. ASSUME NEW o \in Object, ForkFails(o) PROVE Quiet
  BY <1>4 DEF ForkFails, TypeOK
<1>5. ASSUME NEW u \in Updater, ChildStep(u) PROVE Quiet
  BY <1>5, ChildStepKeeps
<1>6. ASSUME NEW m \in MCU, BoardStep(m) PROVE Quiet
  BY <1>6, BoardStepKeeps
<1>7. CASE UNCHANGED vars
  BY <1>7 DEF vars, managerVars
<1>8. CASE ManagerRestarted
  BY <1>8 DEF ManagerRestarted, ManagerStarts, QuietStart
<1> QED
  BY <1>1, <1>2, <1>3, <1>4, <1>5, <1>6, <1>7, <1>8, StepCases

\* The end of an update, seen by the other controllers and objects.
LEMMA EndUpdateStep ==
  ASSUME IInv, NEW m \in MCU, NEW result \in {"Active", "Failed"},
         EndUpdate(m, result), IsUpdating(m)
  PROVE  LET ended == job[watched[m]]
         IN  /\ watched[m] \in Updater /\ ended \in Object /\ ended.mcu = m
             /\ activation[ended] = "Activating"
             /\ activation' = [activation EXCEPT ![ended] = result]
             /\ ~ IsUpdating(m)'
             /\ \A k \in MCU \ {m} : published'[k] = published[k]
BY DEF IInv, TypeOK, WatchedIsActivating, Unreaped, EndUpdate, IsUpdating

\* While an update is watched nothing is read from or found out about the MCU.
THEOREM NoTouchWhileUpdating == Spec => HandsOff
<1> DEFINE Quietly == \A m \in MCU : IsUpdating(m) /\ IsUpdating(m)' =>
                        published'[m] = published[m]
<1>1. IInv /\ [Next]_vars => [Quietly]_vars
  <2> SUFFICES ASSUME IInv, [Next]_vars PROVE Quietly
    OBVIOUS
  <2>1. CASE \A m \in MCU : ~ ChildExited(m) /\ ~ ChildStopped(m) /\ ~ Restart
    BY <2>1, QuietSteps, MCUAssumption DEF Quiet
  <2>2. ASSUME NEW m \in MCU, ChildExited(m) \/ ChildStopped(m) PROVE Quietly
    <3>1. IsUpdating(m) /\ (EndUpdate(m, "Active") \/ EndUpdate(m, "Failed"))
      BY <2>2 DEF ChildExited, ChildStopped
    <3>2. ~ IsUpdating(m)' /\ \A k \in MCU \ {m} : published'[k] = published[k]
      BY <3>1, EndUpdateStep
    <3> QED BY <3>2
  <2>3. CASE Restart
    BY <2>3 DEF Restart, IsUpdating
  <2> QED BY <2>1, <2>2, <2>3
<1>2. HandsOff <=> [][Quietly]_vars
  BY DEF HandsOff
<1> QED BY <1>1, <1>2, Inductive, PTL DEF Spec

\* No repeated or late request, and no handler but the child events, takes the
\* watcher from an updater that is not reaped, except for another package.
THEOREM WatcherStays == Spec => WatcherIsKept
<1> DEFINE Kept(m) == watched[m] \in Unreaped(m)' /\ watched'[m] # watched[m] =>
      \/ watched[m] \in signalled
      \/ watched'[m] \in Unreaped(m)' /\ job'[watched'[m]] # job[watched[m]]
<1> DEFINE AllKept == \A m \in MCU : Kept(m)
<1>1. IInv /\ [Next]_vars => [AllKept]_vars
  <2> SUFFICES ASSUME IInv, [Next]_vars, NEW m \in MCU,
                      watched[m] \in Unreaped(m)', watched'[m] # watched[m]
               PROVE  \/ watched[m] \in signalled
                      \/ watched'[m] \in Unreaped(m)' /\ job'[watched'[m]] # job[watched[m]]
    OBVIOUS
  <2> USE DEF IInv
  <2>1. IsUpdating(m) /\ phase'[watched[m]] # "idle"
    BY EmptyAssumption DEF Unreaped, IsUpdating
  <2>2. job[watched[m]] \in Object /\ activation[job[watched[m]]] = "Activating"
    BY <2>1 DEF WatchedIsActivating, Unreaped, TypeOK
  <2>3. CASE UNCHANGED watched
    BY <2>3
  <2>4. ASSUME NEW o \in Object, NEW u \in Updater, ForkUpdater(o, u)
        PROVE  watched'[m] \in Unreaped(m)' /\ job'[watched'[m]] # job[watched[m]]
    <3>1. o.mcu = m /\ watched'[m] = u
      BY <2>4 DEF ForkUpdater, TypeOK
    <3>2. job'[u] = o /\ phase'[u] = "running"
      BY <2>4 DEF ForkUpdater, Forked, TypeOK
    <3>3. job[watched[m]] # o
      BY <2>2, <2>4 DEF ForkUpdater, MayActivate
    <3> QED BY <3>1, <3>2, <3>3 DEF Unreaped
  <2>5. ASSUME NEW k \in MCU, ChildExited(k) PROVE FALSE
    <3>1. k = m
      BY <2>5 DEF ChildExited, EndUpdate, TypeOK
    <3>2. phase'[watched[m]] = "idle"
      BY <2>1, <2>5, <3>1 DEF ChildExited, Reaped, TypeOK, IsUpdating
    <3> QED BY <2>1, <3>2
  <2>6. ASSUME NEW k \in MCU, ChildStopped(k) PROVE watched[m] \in signalled
    <3>1. k = m
      BY <2>6 DEF ChildStopped, EndUpdate, TypeOK
    <3> QED BY <2>6, <3>1 DEF ChildStopped
  <2>7. CASE Restart
    BY <2>1, <2>7 DEF Restart, ServiceStarts, Unreaped
  <2> QED
    BY <2>3, <2>4, <2>5, <2>6, <2>7, StepCases, BoardHandlerStep, ChildStepKeeps, BoardStepKeeps
    DEF SoftwareAdded, ForkFails, ManagerRestarted, vars, managerVars
<1>2. WatcherIsKept <=> [][AllKept]_vars
  BY DEF WatcherIsKept
<1> QED BY <1>1, <1>2, Inductive, PTL DEF Spec

\* An object turns Active only when its own updater verified the version, and
\* that version is on the MCU unless a second updater was forked.
THEOREM ActiveMeansInstalled == Spec => ActiveOnlyIfInstalled
<1> DEFINE Earned(o) ==
      /\ IsUpdating(o.mcu)
      /\ job[watched[o.mcu]] = o /\ phase[watched[o.mcu]] = "succeeded"
      /\ Unreaped(o.mcu) = {watched[o.mcu]} => boot[o.mcu] = "up" /\ fw[o.mcu] = o.pkg
<1> DEFINE ActiveEarned ==
      \A o \in Object : activation[o] # "Active" /\ activation'[o] = "Active" => Earned(o)
<1>1. IInv /\ [Next]_vars => [ActiveEarned]_vars
  <2> SUFFICES ASSUME IInv, [Next]_vars,
                      NEW o \in Object, activation[o] # "Active", activation'[o] = "Active"
               PROVE  Earned(o)
    OBVIOUS
  <2>1. CASE (\A m \in MCU : ~ ChildExited(m) /\ ~ ChildStopped(m)) /\ ~ Restart
    BY <2>1, QuietSteps DEF Quiet
  <2>2. ASSUME NEW m \in MCU, ChildExited(m) PROVE Earned(o)
    <3>1. CASE phase[watched[m]] = "succeeded"
      <4>1. IsUpdating(m) /\ EndUpdate(m, "Active")
        BY <2>2, <3>1 DEF ChildExited
      <4>2. o = job[watched[m]] /\ o.mcu = m
        BY <4>1, EndUpdateStep DEF IInv, TypeOK
      <4> QED BY <3>1, <4>1, <4>2 DEF IInv, Installed
    <3>2. CASE phase[watched[m]] # "succeeded"
      <4>1. IsUpdating(m) /\ EndUpdate(m, "Failed")
        BY <2>2, <3>2 DEF ChildExited
      <4> QED BY <4>1, EndUpdateStep DEF IInv, TypeOK
    <3> QED BY <3>1, <3>2
  <2>3. ASSUME NEW m \in MCU, ChildStopped(m) PROVE Earned(o)
    <3>1. IsUpdating(m) /\ EndUpdate(m, "Failed")
      BY <2>3 DEF ChildStopped
    <3> QED BY <3>1, EndUpdateStep DEF IInv, TypeOK
  <2>4. CASE Restart
    BY <2>4 DEF Restart
  <2> QED BY <2>1, <2>2, <2>3, <2>4
<1>2. ActiveOnlyIfInstalled <=> [][ActiveEarned]_vars
  BY DEF ActiveOnlyIfInstalled
<1> QED BY <1>1, <1>2, Inductive, PTL DEF Spec

\* The software objects of the storage manager implement the sessions of
\* UpdateSession: every step is a session step or leaves the sessions alone.
THEOREM SessionRefinement == Spec => ImplementsSessionSafety
<1> USE DEF Session!SessionNext
<1>1. Init => Session!SessionInit
  BY DEF Init, Session!SessionInit
<1>2. IInv /\ [Next]_vars => [Session!SessionNext]_activation
  <2> SUFFICES ASSUME IInv, [Next]_vars
               PROVE  Session!SessionNext \/ UNCHANGED activation
    OBVIOUS
  <2> USE DEF IInv
  <2>1. CASE BoardHandler
    BY <2>1, BoardHandlerStep
  <2>2. ASSUME NEW p \in Package, SoftwareAdded(p) PROVE Session!SessionNext
    <3> DEFINE S == {o \in Object : o.pkg = p /\ published[o.mcu].type \in Images[p]}
    <3>1. \A o \in S : activation[o] = "None"
      BY <2>2 DEF SoftwareAdded, OnlyAnnounced
    <3>2. activation' = [o \in Object |-> IF o \in S THEN "Ready" ELSE activation[o]]
      BY <2>2 DEF SoftwareAdded
    <3>3. Session!Offer(S)
      BY <3>1, <3>2 DEF Session!Offer
    <3>4. S \in SUBSET Object
      OBVIOUS
    <3> QED BY <3>3, <3>4
  <2>3. ASSUME NEW o \in Object, NEW u \in Updater, ForkUpdater(o, u) PROVE Session!SessionNext
    BY <2>3 DEF ForkUpdater, MayActivate, Session!Start
  <2>4. ASSUME NEW o \in Object, ForkFails(o) PROVE Session!SessionNext
    BY <2>4 DEF ForkFails, MayActivate, Session!Refuse
  <2>5. ASSUME NEW m \in MCU, ChildExited(m) \/ ChildStopped(m) PROVE Session!SessionNext
    <3>1. PICK result \in {"Active", "Failed"} : EndUpdate(m, result) /\ IsUpdating(m)
      BY <2>5 DEF ChildExited, ChildStopped
    <3>2. job[watched[m]] \in Object /\ Session!Settle(job[watched[m]])
      BY <3>1, EndUpdateStep DEF Session!Settle
    <3> QED BY <3>2
  <2>6. ASSUME NEW u \in Updater, ChildStep(u)
        PROVE  UNCHANGED activation
    BY <2>6, ChildStepKeeps
  <2>7. ASSUME NEW m \in MCU, BoardStep(m) PROVE UNCHANGED activation
    BY <2>7, BoardStepKeeps
  <2>8. CASE Restart
    BY <2>8 DEF Restart, Session!Forget
  <2>9. CASE UNCHANGED vars
    BY <2>9 DEF vars, managerVars
  <2>10. CASE ManagerRestarted
    BY <2>10 DEF ManagerRestarted
  <2> QED
    BY <2>1, <2>2, <2>3, <2>4, <2>5, <2>6, <2>7, <2>8, <2>9, <2>10, StepCases
<1> QED
  BY <1>1, <1>2, Inductive, PTL DEF Spec, ImplementsSessionSafety, Session!SessionSafety

-----------------------------------------------------------------------------
(* One package per board                                                   *)

\* With one package per board and no signals, isUpdating() is exact.
LEMMA NextExact ==
  ASSUME OnePackagePerBoard, ~ SignalsAllowed,
         IInv, signalled = {}, UpdatingIsExact, [Next]_vars
  PROVE  signalled' = {} /\ UpdatingIsExact'
<1> USE DEF IInv
<1>1. ASSUME UNCHANGED <<watched, phase, job, signalled>>
      PROVE  signalled' = {} /\ UpdatingIsExact'
  BY <1>1 DEF UpdatingIsExact, Unreaped, IsUpdating
<1>2. CASE BoardHandler
  BY <1>1, <1>2, BoardHandlerStep DEF flashVars
<1>3. ASSUME NEW p \in Package, SoftwareAdded(p) PROVE signalled' = {} /\ UpdatingIsExact'
  BY <1>1, <1>3 DEF SoftwareAdded, flashVars
<1>4. ASSUME NEW o \in Object, NEW u \in Updater, ForkUpdater(o, u)
      PROVE  signalled' = {} /\ UpdatingIsExact'
  <2>1. o.mcu \in MCU /\ o.pkg \in Package
    BY DEF Object
  <2>2. ~ IsUpdating(o.mcu)
    <3> SUFFICES ASSUME IsUpdating(o.mcu) PROVE FALSE
      OBVIOUS
    <3> DEFINE x == job[watched[o.mcu]]
    <3>1. x \in Object /\ x.mcu = o.mcu /\ activation[x] = "Activating"
      BY <2>1 DEF WatchedIsActivating, Unreaped, TypeOK
    <3>2. BoardType[o.mcu] \in Images[x.pkg] /\ BoardType[o.mcu] \in Images[o.pkg]
      BY <1>4, <3>1 DEF TypesAgree, ForkUpdater, MayActivate
    <3>3. x.pkg = o.pkg
      BY <2>1, <3>1, <3>2 DEF OnePackagePerBoard, Object
    <3>4. x = o
      BY <3>1, <3>3 DEF Object
    <3> QED BY <1>4, <3>1, <3>4 DEF ForkUpdater, MayActivate
  <2>3. ASSUME NEW m \in MCU
        PROVE  Unreaped(m)' = IF IsUpdating(m)' THEN {watched'[m]} ELSE {}
    <3>1. Unreaped(m) = IF IsUpdating(m) THEN {watched[m]} ELSE {}
      BY DEF UpdatingIsExact
    <3>2. CASE m = o.mcu
      <4>1. Unreaped(m)' = {u}
        BY <1>4, <2>1, <2>2, <3>1, <3>2 DEF ForkUpdater, Forked, Unreaped, TypeOK
      <4>2. watched'[m] = u /\ u # NoUpdater
        BY <1>4, <3>2, EmptyAssumption DEF ForkUpdater, TypeOK
      <4> QED BY <4>1, <4>2 DEF IsUpdating
    <3>3. CASE m # o.mcu
      <4>1. Unreaped(m)' = Unreaped(m)
        BY <1>4, <3>3 DEF ForkUpdater, Forked, Unreaped, TypeOK
      <4>2. watched'[m] = watched[m]
        BY <1>4, <3>3 DEF ForkUpdater, TypeOK
      <4> QED BY <3>1, <4>1, <4>2 DEF IsUpdating
    <3> QED BY <3>2, <3>3
  <2> QED BY <1>4, <2>3 DEF ForkUpdater, UpdatingIsExact
<1>5. ASSUME NEW o \in Object, ForkFails(o) PROVE signalled' = {} /\ UpdatingIsExact'
  BY <1>1, <1>5 DEF ForkFails, flashVars
<1>6. ASSUME NEW m \in MCU, ChildExited(m) PROVE signalled' = {} /\ UpdatingIsExact'
  <2>1. watched[m] \in Unreaped(m) /\ watched' = [watched EXCEPT ![m] = NoUpdater]
    BY <1>6 DEF ChildExited, WatchedIsActivating, EndUpdate
  <2>2. ASSUME NEW k \in MCU
        PROVE  Unreaped(k)' = IF IsUpdating(k)' THEN {watched'[k]} ELSE {}
    <3>1. Unreaped(k) = IF IsUpdating(k) THEN {watched[k]} ELSE {}
      BY DEF UpdatingIsExact
    <3>2. CASE k = m
      <4>1. ~ IsUpdating(m)'
        BY <2>1 DEF IsUpdating, TypeOK
      <4>2. Unreaped(m)' = {}
        BY <1>6, <2>1, <3>1, <3>2 DEF ChildExited, Reaped, Unreaped, TypeOK
      <4> QED BY <4>1, <4>2, <3>2
    <3>3. CASE k # m
      <4>1. watched'[k] = watched[k]
        BY <2>1, <3>3 DEF TypeOK
      <4>2. Unreaped(k)' = Unreaped(k)
        BY <1>6, <2>1, <3>3 DEF ChildExited, Reaped, Unreaped, TypeOK
      <4> QED BY <3>1, <4>1, <4>2 DEF IsUpdating
    <3> QED BY <3>2, <3>3
  <2> QED BY <1>6, <2>2 DEF ChildExited, UpdatingIsExact
<1>7. ASSUME NEW m \in MCU PROVE ~ ChildStopped(m)
  BY DEF ChildStopped
<1>8. ASSUME NEW u \in Updater, ChildStep(u)
      PROVE  signalled' = {} /\ UpdatingIsExact'
  <2>1. signalled' = {}
    BY <1>8, ChildStepKeeps
  <2>2. \A m \in MCU : Unreaped(m)' = Unreaped(m)
    BY <1>8, ChildStepKeeps DEF Unreaped
  <2>3. UpdatingIsExact'
    BY <1>8, <2>2, ChildStepKeeps DEF UpdatingIsExact, IsUpdating, Unreaped
  <2> QED BY <2>1, <2>3
<1>9. ASSUME NEW m \in MCU, BoardStep(m) PROVE signalled' = {} /\ UpdatingIsExact'
  <2>1. \A k \in MCU : Unreaped(k)' = Unreaped(k)
    BY <1>9, BoardStepKeeps DEF Unreaped
  <2> QED BY <1>9, <2>1, BoardStepKeeps DEF UpdatingIsExact, IsUpdating
<1>10. CASE Restart
  BY <1>10 DEF Restart, ServiceStarts, UpdatingIsExact, IsUpdating, Unreaped
<1>11. CASE UNCHANGED vars
  BY <1>1, <1>11 DEF vars, managerVars, flashVars
<1>12. CASE ManagerRestarted
  BY <1>1, <1>12 DEF ManagerRestarted, ManagerStarts
<1> QED
  BY <1>2, <1>3, <1>4, <1>5, <1>6, <1>7, <1>8, <1>9, <1>10, <1>11, <1>12, StepCases

\* Where no board has two packages to choose from and nobody stops an updater,
\* isUpdating() is true exactly while the one updater of the MCU is unreaped.
THEOREM SoleUpdater ==
  ASSUME OnePackagePerBoard, ~ SignalsAllowed
  PROVE  Spec => []UpdatingIsExact
<1>1. Init => signalled = {} /\ UpdatingIsExact
  BY DEF Init, FlashInit, UpdatingIsExact, IsUpdating, Unreaped
<1>2. IInv /\ (signalled = {} /\ UpdatingIsExact) /\ [Next]_vars
        => (signalled = {} /\ UpdatingIsExact)'
  BY NextExact
<1> QED BY <1>1, <1>2, Inductive, PTL DEF Spec

-----------------------------------------------------------------------------
(* The manager and the updaters together                                   *)

\* The manager does nothing to updaters and MCUs but what Flashing allows it, so
\* that what McuFlash shows of the updaters it shows of those of the manager.
THEOREM ManagerKeepsToFlashing == Spec => FlashSpec
<1>1. Init => FlashInit
  BY DEF Init
<1>2. IInv /\ [Next]_vars => [FlashNext]_flashVars
  <2> SUFFICES ASSUME IInv, [Next]_vars PROVE FlashNext \/ UNCHANGED flashVars
    OBVIOUS
  <2>1. CASE BoardHandler
    BY <2>1 DEF BoardHandler, Refresh, DriveRequest, ApplyConfiguration, SendCommand
  <2>2. ASSUME NEW p \in Package, SoftwareAdded(p) PROVE UNCHANGED flashVars
    BY <2>2 DEF SoftwareAdded
  <2>3. ASSUME NEW o \in Object, NEW u \in Updater, ForkUpdater(o, u) PROVE FlashNext
    BY <2>3 DEF ForkUpdater, FlashNext
  <2>4. ASSUME NEW o \in Object, ForkFails(o) PROVE UNCHANGED flashVars
    BY <2>4 DEF ForkFails
  <2>5. ASSUME NEW m \in MCU, ChildExited(m) PROVE FlashNext
    <3>1. watched[m] \in Updater /\ Reaped(watched[m])
      BY <2>5 DEF ChildExited, IsUpdating, IInv, TypeOK
    <3> QED BY <3>1 DEF FlashNext
  <2>6. ASSUME NEW m \in MCU, ChildStopped(m) PROVE UNCHANGED flashVars
    BY <2>6 DEF ChildStopped
  <2>7. ASSUME NEW u \in Updater, ChildStep(u) PROVE FlashNext \/ UNCHANGED flashVars
    BY <2>7 DEF ChildStep, UpdaterGoesOn, UpdaterEnds, SignalUpdater, FlashNext, UpdaterStep
  <2>8. ASSUME NEW m \in MCU, BoardStep(m) PROVE FlashNext
    BY <2>8 DEF BoardStep, FlashNext
  <2>9. CASE Restart \/ ManagerRestarted \/ UNCHANGED vars
    BY <2>9 DEF Restart, ManagerRestarted, vars, FlashNext
  <2> QED
    BY <2>1, <2>2, <2>3, <2>4, <2>5, <2>6, <2>7, <2>8, <2>9, StepCases
<1> QED
  BY <1>1, <1>2, Inductive, PTL DEF Spec, FlashSpec
=============================================================================
