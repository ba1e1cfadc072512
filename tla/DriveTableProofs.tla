-------------------------- MODULE DriveTableProofs --------------------------
(* Proofs about DriveTable, for any drives, channels and requests, with    *)
(* failing transfers, failing drives and reconfiguration.                  *)
EXTENDS DriveTable, WellFoundedInduction, TLAPS

USE DriveAssumption, ChannelAssumption

\* The fields of a pass.
Fields == {"step", "op", "drive", "channel", "presence", "failures", "types", "rows",
           "calm", "forced"}
Shape == pass = [x \in Fields |-> pass[x]]

\* Only a request gets as far as a row to verify, and it names a drive.
Named ==
  /\ pass.op # "refresh" => pass.drive \in Drive
  /\ pass.step \in {"verify", "led"} => pass.op # "refresh"

\* The row was verified, and nothing has happened to the drives since the pass
\* began: the drive is there.
Verified == At("led") /\ pass.calm => slot[pass.channel] = pass.drive

LedInv == Shape /\ Named /\ Verified

\* A pass that is over claims nothing.
LEMMA IdleIsRight ==
  ASSUME pass' = Idle PROVE LedInv'
  BY DEF Idle, LedInv, Shape, Fields, Named, Verified, At

\* The handler goes on with a request it had, to a step before the LED.
LEMMA GoingOn ==
  ASSUME LedInv, Shape', pass'.op = pass.op, pass'.drive = pass.drive,
         pass'.step # "led", pass'.step = "verify" => pass.op # "refresh"
  PROVE  LedInv'
  BY DEF LedInv, Named, Verified, At

LEMMA ReplyIsRight ==
  ASSUME NEW result, Reply(result) PROVE LedInv'
  BY IdleIsRight DEF Reply

LEMMA ReturnsTrueIsRight ==
  ASSUME LedInv, NEW table, RefreshReturnsTrue(table) PROVE LedInv'
<1>1. CASE pass' = Idle
  BY <1>1, IdleIsRight
<1>2. CASE pass' # Idle
  <2>1. pass.op # "refresh"
    BY <1>2 DEF RefreshReturnsTrue
  <2>2. PICK c : pass' = [pass EXCEPT !.step = "verify", !.channel = c]
    BY <1>2 DEF RefreshReturnsTrue, Reply
  <2>3. /\ Shape' /\ pass'.op = pass.op /\ pass'.drive = pass.drive /\ pass'.step = "verify"
    BY <2>2 DEF LedInv, Shape, Fields
  <2> QED
    BY <2>1, <2>3, GoingOn
<1> QED
  BY <1>1, <1>2

LEMMA ReturnsFalseIsRight ==
  ASSUME RefreshReturnsFalse PROVE LedInv'
  BY IdleIsRight, ReplyIsRight DEF RefreshReturnsFalse, Reply

\* A row was collected.
LEMMA CollectedIsRight ==
  ASSUME LedInv, NEW rows, Collected(rows) PROVE LedInv'
<1>1. CASE DOMAIN rows = cfg
  BY <1>1, ReturnsTrueIsRight DEF Collected
<1>2. CASE DOMAIN rows # cfg
  <2>1. pass' = [pass EXCEPT !.step = "type", !.rows = rows]
    BY <1>2 DEF Collected
  <2>2. Shape' /\ pass'.op = pass.op /\ pass'.drive = pass.drive /\ pass'.step = "type"
    BY <2>1 DEF LedInv, Shape, Fields
  <2> QED
    BY <2>2, GoingOn
<1> QED
  BY <1>1, <1>2

\* isStateChanged() is done; p is the pass with what it has read.
LEMMA CheckedIsRight ==
  ASSUME LedInv, NEW changed, NEW p, StateChecked(changed, p),
         p = [x \in Fields |-> p[x]], p.op = pass.op, p.drive = pass.drive
  PROVE  LedInv'
<1>1. CASE changed \/ drives = << >>
  <2>1. pass' = [p EXCEPT !.step = "type"]
    BY <1>1 DEF StateChecked
  <2>2. Shape' /\ pass'.op = pass.op /\ pass'.drive = pass.drive /\ pass'.step = "type"
    BY <2>1 DEF Shape, Fields
  <2> QED
    BY <2>2, GoingOn
<1>2. CASE ~ (changed \/ drives = << >>)
  BY <1>2, ReturnsTrueIsRight DEF StateChecked
<1> QED
  BY <1>1, <1>2

\* A serial number that is not empty is that of the drive in the slot.
LEMMA SerialIsRight ==
  ASSUME NEW c, NEW sn \in SerialRead(c), sn # NoDrive
  PROVE  slot[c] = sn
<1>1. sn = SerialAt(c)
  BY DEF SerialRead
<1> QED
  BY <1>1 DEF SerialAt

-----------------------------------------------------------------------------
LEMMA InitLedInv == Init => LedInv
<1> SUFFICES ASSUME Init PROVE LedInv
  OBVIOUS
<1>1. pass = Idle
  BY DEF Init
<1> QED
  BY <1>1 DEF Idle, LedInv, Shape, Fields, Named, Verified, At

\* A plug, a pull or a failure ends the calm of a pass that is running.
LEMMA DisturbIsRight ==
  ASSUME LedInv, Disturb PROVE LedInv'
<1>1. CASE At("idle")
  BY <1>1 DEF Disturb, LedInv, Shape, Fields, Named, Verified, At
<1>2. CASE ~ At("idle")
  <2>1. Shape' /\ pass'.op = pass.op /\ pass'.drive = pass.drive /\ pass'.step = pass.step
    BY <1>2 DEF Disturb, LedInv, Shape, Fields
  <2>2. pass'.calm = FALSE
    BY <1>2 DEF Disturb, LedInv, Shape, Fields
  <2> QED
    BY <2>1, <2>2 DEF LedInv, Named, Verified, At
<1> QED
  BY <1>1, <1>2

\* A handler begins.
LEMMA BeginIsRight ==
  ASSUME NEW op, NEW d, Begin(op, d), op = "refresh" \/ d \in Drive
  PROVE  LedInv'
  BY DEF Begin, Idle, LedInv, Shape, Fields, Named, Verified, At

LEMMA ReadsAreRight ==
  ASSUME LedInv, ReadPresence \/ ReadFailures \/ ReadChanged PROVE LedInv'
<1>1. CASE ReadPresence
  <2>1. pass' = [pass EXCEPT !.step = "failures", !.presence = Present]
    BY <1>1 DEF ReadPresence
  <2>2. Shape' /\ pass'.op = pass.op /\ pass'.drive = pass.drive /\ pass'.step = "failures"
    BY <2>1 DEF LedInv, Shape, Fields
  <2> QED
    BY <2>2, GoingOn
<1>2. CASE ReadFailures
  <2> DEFINE p == [pass EXCEPT !.failures = failed]
             changed == NewState(pass.presence, failed) # cachedState
  <2>1. \/ pass' = [p EXCEPT !.step = "changed"]
        \/ StateChecked(changed, p)
    BY <1>2 DEF ReadFailures
  <2>2. p = [x \in Fields |-> p[x]] /\ p.op = pass.op /\ p.drive = pass.drive
    BY DEF LedInv, Shape, Fields
  <2> HIDE DEF p, changed
  <2>3. CASE pass' = [p EXCEPT !.step = "changed"]
    <3>1. Shape' /\ pass'.op = pass.op /\ pass'.drive = pass.drive /\ pass'.step = "changed"
      BY <2>2, <2>3 DEF Shape, Fields
    <3> QED
      BY <3>1, GoingOn
  <2> QED
    BY <2>1, <2>2, <2>3, CheckedIsRight
<1>3. CASE ReadChanged
  <2>1. StateChecked(latch, pass)
    BY <1>3 DEF ReadChanged
  <2>2. pass = [x \in Fields |-> pass[x]]
    BY DEF LedInv, Shape
  <2> QED
    BY <2>1, <2>2, CheckedIsRight
<1> QED
  BY <1>1, <1>2, <1>3

LEMMA ReadTypeIsRight ==
  ASSUME LedInv, ReadType PROVE LedInv'
<1> DEFINE c     == NextChannel
           types == IF pass.rows = << >> \/ proto = "V0"
                    THEN [k \in Channel |-> TypeOf(slot[k])] ELSE pass.types
           rows  == WithRow(c, RowFor(c, NoDrive, types[c]))
<1>1. \/ RefreshReturnsFalse
      \/ pass' = [pass EXCEPT !.step = "sn", !.types = types]
      \/ Collected(rows)
      \/ At("type") /\ pass' = [pass EXCEPT !.types = types, !.rows = rows]
  BY DEF ReadType
<1> HIDE DEF c, types, rows
<1>2. CASE pass' = [pass EXCEPT !.step = "sn", !.types = types]
  <2>1. Shape' /\ pass'.op = pass.op /\ pass'.drive = pass.drive /\ pass'.step = "sn"
    BY <1>2 DEF LedInv, Shape, Fields
  <2> QED
    BY <2>1, GoingOn
<1>3. CASE At("type") /\ pass' = [pass EXCEPT !.types = types, !.rows = rows]
  <2>1. Shape' /\ pass'.op = pass.op /\ pass'.drive = pass.drive /\ pass'.step = "type"
    BY <1>3 DEF LedInv, Shape, Fields, At
  <2> QED
    BY <2>1, GoingOn
<1> QED
  BY <1>1, <1>2, <1>3, ReturnsFalseIsRight, CollectedIsRight

\* The step that reaches the LED.
LEMMA VerifyIsRight ==
  ASSUME LedInv, Verify PROVE LedInv'
<1>1. PICK sn \in SerialRead(pass.channel) :
        \/ \E result : Reply(result)
        \/ sn = pass.drive /\ pass' = [pass EXCEPT !.step = "led"]
  BY DEF Verify
<1>2. CASE \E result : Reply(result)
  BY <1>2, ReplyIsRight
<1>3. CASE sn = pass.drive /\ pass' = [pass EXCEPT !.step = "led"]
  <2>1. pass.op # "refresh" /\ pass.drive \in Drive
    BY DEF Verify, At, LedInv, Named
  <2>2. slot[pass.channel] = pass.drive
    BY <1>3, <2>1, SerialIsRight
  <2>3. slot' = slot
    BY DEF Verify, world
  <2>4. /\ Shape' /\ pass'.op = pass.op /\ pass'.drive = pass.drive
        /\ pass'.channel = pass.channel /\ pass'.step = "led"
    BY <1>3 DEF LedInv, Shape, Fields
  <2> QED
    BY <2>1, <2>2, <2>3, <2>4 DEF LedInv, Named, Verified, At
<1> QED
  BY <1>1, <1>2, <1>3

\* Every step keeps the invariant.
LEMMA NextLedInv == LedInv /\ [Next]_vars => LedInv'
<1> SUFFICES ASSUME LedInv, [Next]_vars PROVE LedInv'
  OBVIOUS
<1>1. CASE ReadPresence \/ ReadFailures \/ ReadChanged
  BY <1>1, ReadsAreRight
<1>2. CASE ReadType
  BY <1>2, ReadTypeIsRight
<1>3. CASE ReadSN
  BY <1>3, CollectedIsRight DEF ReadSN
<1>4. CASE Verify
  BY <1>4, VerifyIsRight
<1>5. CASE DriveLED
  BY <1>5, ReplyIsRight DEF DriveLED
<1>6. CASE TransferFails
  BY <1>6, ReturnsFalseIsRight, ReplyIsRight DEF TransferFails
<1>7. CASE Refresh
  BY <1>7, BeginIsRight DEF Refresh
<1>8. ASSUME NEW op \in Ops, NEW d \in Drive, Lookup(op, d) PROVE LedInv'
  BY <1>8, BeginIsRight DEF Lookup
<1>9. ASSUME NEW channels \in (SUBSET Channel) \ {{}}, UpdateConfig(channels) PROVE LedInv'
  BY <1>9 DEF UpdateConfig, Idle, LedInv, Shape, Fields, Named, Verified, At
<1>10. CASE ResetLEDs
  BY <1>10 DEF ResetLEDs, LedInv, Shape, Named, Verified, At
<1>11. ASSUME NEW k \in Channel, Pull(k) \/ DriveFails(k) \/ (\E d \in Drive : Plug(k, d))
       PROVE  LedInv'
  BY <1>11, DisturbIsRight DEF Pull, DriveFails, Plug, Moved
<1>12. CASE UNCHANGED vars
  BY <1>12 DEF vars, LedInv, Shape, Named, Verified, At
<1> QED
  BY <1>1, <1>2, <1>3, <1>4, <1>5, <1>6, <1>7, <1>8, <1>9, <1>10, <1>11, <1>12
     DEF Next, Handler, Start

LEMMA LedInductive == Spec => []LedInv
<1> QED
  BY InitLedInv, NextLedInv, PTL DEF Spec

\* No LED is switched but that of the channel where the drive is: only DriveLED
\* touches one during a pass, after Verify has read the drive's serial number
\* in this very pass (findChannelByDriveSN(), setDriveLocationLED()).
THEOREM RightLed == Spec => LedOfTheDrive
<1> DEFINE RightOne == \A c \in Channel :
             (c \in leds) # (c \in leds') /\ At("led") /\ pass.calm
               => slot[c] = pass.drive /\ c \in cfg
<1>1. LedInv /\ [Next]_vars => RightOne
  <2> SUFFICES ASSUME LedInv, [Next]_vars, NEW c \in Channel,
                      (c \in leds) # (c \in leds'), At("led"), pass.calm
               PROVE  slot[c] = pass.drive /\ c \in cfg
    OBVIOUS
  <2>1. DriveLED
    <3>1. leds' # leds
      OBVIOUS
    <3> QED
      BY <3>1 DEF Next, Handler, Start, vars, world, ReadPresence, ReadFailures, ReadChanged,
         ReadType, ReadSN, Verify, TransferFails, Refresh, Lookup, Begin, UpdateConfig,
         ResetLEDs, Pull, DriveFails, Plug, Moved, At
  <2>2. c = pass.channel /\ c \in cfg
    BY <2>1 DEF DriveLED
  <2> QED
    BY <2>2 DEF LedInv, Verified
<1>2. LedOfTheDrive <=> [][RightOne]_vars
  BY DEF LedOfTheDrive
<1> HIDE DEF RightOne
<1> QED
  BY <1>1, <1>2, LedInductive, PTL DEF Spec

-----------------------------------------------------------------------------
(* Types *)

\* The first channel of a set is in it.
LEMMA FirstIsIn ==
  ASSUME NEW C \in SUBSET Channel, C # {} PROVE First(C) \in C
<1> DEFINE Less == OpToRel(<, Nat)
<1>1. C \subseteq Nat
  BY DEF Channel
<1>2. \A k, c \in Nat : k < c => <<k, c>> \in Less
  BY DEF OpToRel
<1>3. IsWellFoundedOn(Less, Nat)
  BY NatLessThanWellFounded
<1> HIDE DEF Less
<1>4. PICK c \in C : \A k \in C : ~ (<<k, c>> \in Less)
  BY <1>1, <1>3, WFMin
<1>5. \A k \in C : c <= k
  <2>1. ASSUME NEW k \in C PROVE c <= k
    <3>1. k \in Nat /\ c \in Nat
      BY <1>1
    <3>2. ~ (k < c)
      BY <1>2, <1>4, <3>1
    <3> QED
      BY <3>1, <3>2
  <2> QED
    BY <2>1
<1> QED
  BY <1>5, Zenon DEF First

Table == UNION {[C -> Row] : C \in SUBSET Channel}
Answer == {"none", "found", "notFound", "outdated", "error"}

\* A pass, field by field.
PassTyped(p) ==
  /\ p = [x \in Fields |-> p[x]]
  /\ p.step \in Step /\ p.op \in {"refresh"} \cup Ops /\ p.drive \in Slot
  /\ p.channel \in Channel /\ p.presence \subseteq Channel /\ p.failures \subseteq Channel
  /\ p.types \in [Channel -> Iface] /\ p.rows \in Table
  /\ p.calm \in BOOLEAN /\ p.forced \in BOOLEAN

\* While rows are collected at least one channel is left, before there are none.
Left(p) ==
  /\ p.step \in {"presence", "failures", "changed"} => p.rows = << >>
  /\ p.step \in {"type", "sn"} => DOMAIN p.rows \subseteq cfg /\ DOMAIN p.rows # cfg

PassInv == PassTyped(pass) /\ Left(pass)

WorldTypes ==
  /\ proto \in Protos /\ slot \in [Channel -> Slot] /\ failed \subseteq Present
  /\ latch \in BOOLEAN /\ leds \subseteq Channel /\ cfg \in (SUBSET Channel) \ {{}}

TableTypes ==
  cachedState \subseteq Bits /\ drives \in Table /\ functional \in BOOLEAN /\ answer \in Answer

TypesInv == WorldTypes /\ TableTypes /\ PassInv

LEMMA IsAPass ==
  ASSUME NEW p, PassTyped(p) PROVE p \in Pass
<1>1. p = [step |-> p.step, op |-> p.op, drive |-> p.drive, channel |-> p.channel,
           presence |-> p.presence, failures |-> p.failures, types |-> p.types,
           rows |-> p.rows, calm |-> p.calm, forced |-> p.forced]
  BY DEF PassTyped, Fields
<1> QED
  BY <1>1 DEF PassTyped, Pass, Table

LEMMA EmptyTable == << >> \in Table /\ DOMAIN << >> = {}
<1>1. << >> \in [{} -> Row]
  OBVIOUS
<1> QED
  BY <1>1 DEF Table

LEMMA IdleTyped ==
  ASSUME pass' = Idle PROVE PassInv'
<1>1. 1 \in Channel
  BY DEF Channel
<1>2. Idle.types \in [Channel -> Iface]
  BY DEF Idle, Iface
<1> QED
  BY <1>1, <1>2, EmptyTable DEF Idle, PassInv, PassTyped, Left, Fields, Step, Slot

\* A pass goes on from p to another step.
LEMMA StepTyped ==
  ASSUME NEW p, PassTyped(p), NEW st \in Step \ {"presence", "failures", "changed"},
         pass' = [p EXCEPT !.step = st],
         st \in {"type", "sn"} => DOMAIN p.rows \subseteq cfg' /\ DOMAIN p.rows # cfg'
  PROVE  PassInv'
  BY DEF PassInv, PassTyped, Left, Fields

LEMMA ReplyTyped ==
  ASSUME NEW result \in Answer, Reply(result) PROVE PassInv' /\ answer' \in Answer
  BY IdleTyped DEF Reply

\* refresh() returns.
LEMMA ReturnsTyped ==
  ASSUME PassTyped(pass), answer \in Answer,
         RefreshReturnsFalse \/ (\E table \in Table : RefreshReturnsTrue(table))
  PROVE  PassInv' /\ answer' \in Answer /\ functional' \in BOOLEAN
<1>1. CASE RefreshReturnsFalse
  BY <1>1, IdleTyped, ReplyTyped DEF RefreshReturnsFalse, Answer
<1>2. CASE \E table \in Table : RefreshReturnsTrue(table)
  <2>1. PICK table \in Table : RefreshReturnsTrue(table)
    BY <1>2
  <2> DEFINE matching == {c \in DOMAIN table : table[c].sn = pass.drive}
  <2>2. matching \in SUBSET Channel
    BY DEF Table
  <2>3. functional' = TRUE
    BY <2>1 DEF RefreshReturnsTrue
  <2>4. \/ pass' = Idle /\ UNCHANGED answer
        \/ Reply("notFound")
        \/ matching # {} /\ pass' = [pass EXCEPT !.step = "verify", !.channel = First(matching)]
           /\ UNCHANGED answer
    BY <2>1 DEF RefreshReturnsTrue
  <2>5. CASE matching # {} /\ pass' = [pass EXCEPT !.step = "verify", !.channel = First(matching)]
                /\ UNCHANGED answer
    <3>1. First(matching) \in Channel
      BY <2>2, <2>5, FirstIsIn
    <3> HIDE DEF matching
    <3>2. PassInv'
      BY <2>5, <3>1 DEF PassInv, PassTyped, Left, Fields, Step
    <3> QED
      BY <2>3, <2>5, <3>2
  <2> HIDE DEF matching
  <2> QED
    BY <2>3, <2>4, <2>5, IdleTyped, ReplyTyped DEF Answer
<1> QED
  BY <1>1, <1>2

\* The channel whose row is next.
LEMMA NextIsConfigured ==
  ASSUME cfg \subseteq Channel, DOMAIN pass.rows \subseteq cfg, DOMAIN pass.rows # cfg
  PROVE  NextChannel \in cfg \ DOMAIN pass.rows /\ NextChannel \in Channel
<1>1. NextChannel \in cfg \ DOMAIN pass.rows
  BY FirstIsIn DEF NextChannel
<1> QED
  BY <1>1

\* A row is added.
LEMMA WithRowTyped ==
  ASSUME PassTyped(pass), NEW c \in cfg, cfg \subseteq Channel, DOMAIN pass.rows \subseteq cfg,
         NEW sn \in Slot, NEW iface \in Iface
  PROVE  /\ WithRow(c, RowFor(c, sn, iface)) \in Table
         /\ DOMAIN WithRow(c, RowFor(c, sn, iface)) \subseteq cfg
<1> DEFINE row == RowFor(c, sn, iface)
<1>1. row \in Row
  BY DEF RowFor, Row
<1>2. \A k \in DOMAIN pass.rows : pass.rows[k] \in Row
  BY DEF PassTyped, Table
<1> HIDE DEF row
<1>3. WithRow(c, row) \in [DOMAIN pass.rows \cup {c} -> Row]
  BY <1>1, <1>2 DEF WithRow
<1>4. DOMAIN pass.rows \cup {c} \in SUBSET Channel /\ DOMAIN pass.rows \cup {c} \subseteq cfg
  OBVIOUS
<1>5. DOMAIN WithRow(c, row) = DOMAIN pass.rows \cup {c}
  BY DEF WithRow
<1>6. WithRow(c, row) \in Table
  BY <1>3, <1>4 DEF Table
<1> QED
  BY <1>4, <1>5, <1>6 DEF row

\* The rows so far are the table or the pass goes on.
LEMMA CollectedTyped ==
  ASSUME PassTyped(pass), TableTypes, NEW rows \in Table, DOMAIN rows \subseteq cfg,
         Collected(rows), cfg' = cfg
  PROVE  PassInv' /\ answer' \in Answer /\ functional' \in BOOLEAN /\ drives' \in Table
<1>1. CASE DOMAIN rows = cfg
  <2>1. drives' = rows /\ RefreshReturnsTrue(rows)
    BY <1>1 DEF Collected
  <2> QED
    BY <2>1, ReturnsTyped DEF TableTypes
<1>2. CASE DOMAIN rows # cfg
  <2>1. pass' = [pass EXCEPT !.step = "type", !.rows = rows] /\ UNCHANGED <<drives, functional, answer>>
    BY <1>2 DEF Collected
  <2>2. PassInv'
    BY <1>2, <2>1 DEF PassInv, PassTyped, Left, Fields, Step
  <2> QED
    BY <2>1, <2>2 DEF TableTypes
<1> QED
  BY <1>1, <1>2

\* isStateChanged() is done: nothing is collected yet.
LEMMA CheckedTyped ==
  ASSUME PassTyped(pass), TableTypes, cfg' = cfg, cfg # {}, NEW changed, NEW p, PassTyped(p),
         p.rows = << >>, StateChecked(changed, p)
  PROVE  PassInv' /\ answer' \in Answer /\ functional' \in BOOLEAN
<1>1. CASE changed \/ drives = << >>
  <2>1. pass' = [p EXCEPT !.step = "type"] /\ UNCHANGED <<functional, answer>>
    BY <1>1 DEF StateChecked
  <2>2. DOMAIN p.rows = {}
    BY EmptyTable
  <2>3. PassInv'
    BY <2>1, <2>2, StepTyped DEF Step
  <2> QED
    BY <2>1, <2>3 DEF TableTypes
<1>2. CASE ~ (changed \/ drives = << >>)
  BY <1>2, ReturnsTyped DEF StateChecked, TableTypes
<1> QED
  BY <1>1, <1>2

LEMMA InitTypes == Init => TypesInv
<1> SUFFICES ASSUME Init PROVE TypesInv
  OBVIOUS
<1>1. pass = Idle /\ 1 \in Channel
  BY DEF Init, Channel
<1>2. Idle.types \in [Channel -> Iface]
  BY DEF Idle, Iface
<1>3. PassInv
  BY <1>1, <1>2, EmptyTable DEF Idle, PassInv, PassTyped, Left, Fields, Step, Slot
<1>4. WorldTypes
  <2>1. slot \in [Channel -> Slot] /\ proto \in Protos
    BY DEF Init
  <2>2. failed = {} /\ latch = FALSE /\ leds = {} /\ cfg = Channel
    BY DEF Init
  <2> QED
    BY <1>1, <2>1, <2>2 DEF WorldTypes
<1>5. TableTypes
  BY EmptyTable DEF Init, TableTypes, Answer
<1> QED
  BY <1>3, <1>4, <1>5 DEF TypesInv

\* isStateChanged()
LEMMA StateTyped ==
  ASSUME TypesInv, ReadPresence \/ ReadFailures \/ ReadChanged PROVE TypesInv'
<1>0. /\ PassTyped(pass) /\ pass.rows = << >> /\ TableTypes /\ cfg # {} /\ failed \subseteq Channel
      /\ Present \subseteq Channel
  <2>1. pass.step \in {"presence", "failures", "changed"}
    BY DEF ReadPresence, ReadFailures, ReadChanged, At
  <2>2. pass.rows = << >> /\ PassTyped(pass) /\ TableTypes
    BY <2>1 DEF TypesInv, PassInv, Left
  <2>3. cfg # {} /\ Present \subseteq Channel /\ failed \subseteq Channel
    BY DEF TypesInv, WorldTypes, Present
  <2> QED
    BY <2>2, <2>3
<1>1. CASE ReadPresence
  <2>1. pass' = [pass EXCEPT !.step = "failures", !.presence = Present]
        /\ UNCHANGED <<world, cachedState, drives, functional, answer>>
    BY <1>1 DEF ReadPresence
  <2>2. PassInv'
    BY <1>0, <2>1 DEF PassInv, PassTyped, Left, Fields, Step
  <2> QED
    BY <2>1, <2>2 DEF TypesInv, WorldTypes, TableTypes, world, Present
<1>2. CASE ReadFailures
  <2> DEFINE p == [pass EXCEPT !.failures = failed]
             changed == NewState(pass.presence, failed) # cachedState
  <2>1. \/ pass' = [p EXCEPT !.step = "changed"] /\ UNCHANGED <<functional, answer>>
        \/ StateChecked(changed, p)
    BY <1>2 DEF ReadFailures
  <2>2. PassTyped(p) /\ p.rows = << >>
    BY <1>0 DEF PassTyped, Fields
  <2>3. /\ cachedState' = NewState(pass.presence, failed) /\ UNCHANGED <<world, drives>>
    BY <1>2 DEF ReadFailures
  <2>4. cachedState' \subseteq Bits
    BY <1>0, <2>3 DEF NewState, Bits, PassTyped
  <2> HIDE DEF p, changed
  <2>5. CASE pass' = [p EXCEPT !.step = "changed"] /\ UNCHANGED <<functional, answer>>
    <3>1. PassInv'
      BY <2>2, <2>5 DEF PassInv, PassTyped, Left, Fields, Step
    <3> QED
      BY <2>3, <2>4, <2>5, <3>1 DEF TypesInv, WorldTypes, TableTypes, world, Present
  <2>6. CASE StateChecked(changed, p)
    <3>1. PassInv' /\ answer' \in Answer /\ functional' \in BOOLEAN
      BY <1>0, <2>2, <2>3, <2>6, CheckedTyped DEF world
    <3> QED
      BY <2>3, <2>4, <3>1 DEF TypesInv, WorldTypes, TableTypes, world, Present
  <2> QED
    BY <2>1, <2>5, <2>6
<1>3. CASE ReadChanged
  <2>1. StateChecked(latch, pass) /\ latch' = FALSE
        /\ UNCHANGED <<proto, slot, failed, leds, cfg, cachedState, drives>>
    BY <1>3 DEF ReadChanged
  <2>2. PassInv' /\ answer' \in Answer /\ functional' \in BOOLEAN
    BY <1>0, <2>1, CheckedTyped
  <2> QED
    BY <2>1, <2>2 DEF TypesInv, WorldTypes, TableTypes, Present
<1> QED
  BY <1>1, <1>2, <1>3

\* doRefresh()
LEMMA RowsTyped ==
  ASSUME TypesInv, ReadType \/ ReadSN PROVE TypesInv'
<1> DEFINE c     == NextChannel
           types == IF pass.rows = << >> \/ proto = "V0"
                    THEN [k \in Channel |-> TypeOf(slot[k])] ELSE pass.types
           rows  == WithRow(c, RowFor(c, NoDrive, types[c]))
<1>0. /\ PassTyped(pass) /\ DOMAIN pass.rows \subseteq cfg /\ DOMAIN pass.rows # cfg
      /\ cfg \subseteq Channel /\ TableTypes
  BY DEF TypesInv, PassInv, Left, ReadType, ReadSN, At, WorldTypes
<1>1. c \in cfg /\ c \in Channel
  BY <1>0, NextIsConfigured
<1>2. types \in [Channel -> Iface]
  BY <1>0 DEF TypeOf, Iface, PassTyped
<1>3. \A k \in Channel : SerialRead(k) \subseteq Slot
  BY DEF SerialRead, SerialAt, Slot, TypesInv, WorldTypes
<1>4. UNCHANGED <<world, cachedState>>
  BY DEF ReadType, ReadSN
<1>5. ASSUME PassInv', answer' \in Answer, functional' \in BOOLEAN, drives' \in Table
      PROVE  TypesInv'
  BY <1>4, <1>5 DEF TypesInv, WorldTypes, TableTypes, world, Present
<1>6. CASE ReadType
  <2>1. \/ RefreshReturnsFalse /\ UNCHANGED drives
        \/ pass' = [pass EXCEPT !.step = "sn", !.types = types]
           /\ UNCHANGED <<drives, functional, answer>>
        \/ Collected(rows)
        \/ /\ At("type") /\ DOMAIN rows # cfg
           /\ pass' = [pass EXCEPT !.types = types, !.rows = rows]
           /\ UNCHANGED <<drives, functional, answer>>
    BY <1>6 DEF ReadType
  <2>2. rows \in Table /\ DOMAIN rows \subseteq cfg
    BY <1>0, <1>1, <1>2, WithRowTyped DEF Slot
  <2> HIDE DEF c, types, rows
  <2>3. CASE RefreshReturnsFalse /\ UNCHANGED drives
    BY <1>0, <1>5, <2>3, ReturnsTyped DEF TableTypes
  <2>4. CASE pass' = [pass EXCEPT !.step = "sn", !.types = types]
             /\ UNCHANGED <<drives, functional, answer>>
    <3>1. PassInv'
      BY <1>0, <1>2, <1>4, <2>4 DEF PassInv, PassTyped, Left, Fields, Step, world
    <3> QED
      BY <1>0, <1>5, <2>4, <3>1 DEF TableTypes
  <2>5. CASE Collected(rows)
    BY <1>0, <1>4, <1>5, <2>2, <2>5, CollectedTyped DEF world
  <2>6. CASE /\ At("type") /\ DOMAIN rows # cfg
             /\ pass' = [pass EXCEPT !.types = types, !.rows = rows]
             /\ UNCHANGED <<drives, functional, answer>>
    <3>1. PassInv'
      BY <1>0, <1>2, <1>4, <2>2, <2>6 DEF PassInv, PassTyped, Left, Fields, Step, world, At
    <3> QED
      BY <1>0, <1>5, <2>6, <3>1 DEF TableTypes
  <2> QED
    BY <2>1, <2>3, <2>4, <2>5, <2>6
<1>7. CASE ReadSN
  <2>1. PICK sn \in SerialRead(c) : Collected(WithRow(c, RowFor(c, sn, "NVMe")))
    BY <1>7 DEF ReadSN
  <2>2. sn \in Slot /\ "NVMe" \in Iface
    BY <1>1, <1>3 DEF Iface
  <2> HIDE DEF c
  <2>3. /\ WithRow(c, RowFor(c, sn, "NVMe")) \in Table
        /\ DOMAIN WithRow(c, RowFor(c, sn, "NVMe")) \subseteq cfg
    BY <1>0, <1>1, <2>2, WithRowTyped
  <2> QED
    BY <1>0, <1>4, <1>5, <2>1, <2>3, CollectedTyped DEF world
<1> QED
  BY <1>6, <1>7

\* findChannelByDriveSN(), the LEDs and failing transfers
LEMMA RestTyped ==
  ASSUME TypesInv, Verify \/ DriveLED \/ ResetLEDs \/ TransferFails PROVE TypesInv'
<1>0. PassTyped(pass) /\ TableTypes /\ pass.channel \in Channel
  BY DEF TypesInv, PassInv, PassTyped
<1>1. CASE Verify
  <2>1. UNCHANGED <<world, drives, functional>>
    BY <1>1 DEF Verify
  <2>2. /\ cachedState' = Bits \ cachedState \/ UNCHANGED cachedState
        /\ \/ Reply("outdated") \/ Reply("found")
           \/ UNCHANGED answer /\ pass' = [pass EXCEPT !.step = "led"]
    BY <1>1 DEF Verify
  <2>3. PassInv' /\ answer' \in Answer
    BY <1>0, <2>2, ReplyTyped, StepTyped DEF Answer, Step, TableTypes
  <2> QED
    BY <1>0, <2>1, <2>2, <2>3 DEF TypesInv, WorldTypes, TableTypes, world, Present
<1>2. CASE DriveLED
  <2>1. UNCHANGED <<proto, slot, failed, latch, cfg, cachedState, drives>>
    BY <1>2 DEF DriveLED
  <2>2. leds' \in {leds, leds \cup {pass.channel}, leds \ {pass.channel}}
    BY <1>2 DEF DriveLED
  <2>3. Reply("found") \/ Reply("error")
    BY <1>2 DEF DriveLED
  <2>4. functional' \in BOOLEAN
    BY <1>0, <1>2 DEF DriveLED, TableTypes
  <2>5. PassInv' /\ answer' \in Answer
    BY <2>3, ReplyTyped DEF Answer
  <2> QED
    BY <1>0, <2>1, <2>2, <2>4, <2>5 DEF TypesInv, WorldTypes, TableTypes, Present
<1>3. CASE ResetLEDs
  <2>1. UNCHANGED <<proto, slot, failed, latch, cfg, cachedState, drives, answer, pass>>
    BY <1>3 DEF ResetLEDs
  <2>2. leds' \subseteq Channel /\ functional' \in BOOLEAN
    BY <1>3 DEF ResetLEDs, TypesInv, WorldTypes, TableTypes
  <2> QED
    BY <2>1, <2>2 DEF TypesInv, WorldTypes, TableTypes, Present, PassInv, PassTyped, Left
<1>4. CASE TransferFails
  <2>1. UNCHANGED <<world, cachedState, drives>>
    BY <1>4 DEF TransferFails
  <2>2. RefreshReturnsFalse \/ (functional' = FALSE /\ Reply("error"))
    BY <1>4 DEF TransferFails
  <2>3. PassInv' /\ answer' \in Answer /\ functional' \in BOOLEAN
    BY <1>0, <2>2, ReturnsTyped, ReplyTyped DEF TableTypes, Answer
  <2> QED
    BY <2>1, <2>3 DEF TypesInv, WorldTypes, TableTypes, world, Present
<1> QED
  BY <1>1, <1>2, <1>3, <1>4

\* A handler begins.
LEMMA StartTyped ==
  ASSUME TypesInv, Start PROVE TypesInv'
<1>1. 1 \in Channel /\ Idle.types \in [Channel -> Iface]
  BY DEF Channel, Idle, Iface
<1>2. PassInv'
  <2>1. ASSUME NEW op \in {"refresh"} \cup Ops, NEW d \in Slot, Begin(op, d) PROVE PassInv'
    BY <1>1, <2>1, EmptyTable DEF Begin, Idle, PassInv, PassTyped, Left, Fields, Step
  <2>2. CASE \E channels \in (SUBSET Channel) \ {{}} : UpdateConfig(channels)
    <3>1. pass' = [Idle EXCEPT !.step = "presence", !.forced = answer = "outdated"]
      BY <2>2 DEF UpdateConfig
    <3>2. pass'.forced \in BOOLEAN /\ pass'.step = "presence"
      BY <3>1 DEF Idle
    <3>3. NoDrive \in Slot
      BY DEF Slot
    <3> QED
      BY <1>1, <3>1, <3>2, <3>3, EmptyTable DEF Idle, PassInv, PassTyped, Left, Fields, Step
  <2>3. Drive \subseteq Slot /\ NoDrive \in Slot
    BY DEF Slot
  <2> QED
    BY <2>1, <2>2, <2>3 DEF Start, Refresh, Lookup
<1>3. /\ UNCHANGED <<proto, slot, failed, latch, leds, cachedState, drives, functional>>
      /\ answer' = "none" /\ cfg' \in (SUBSET Channel) \ {{}}
  BY DEF Start, Refresh, Lookup, Begin, UpdateConfig, world, TypesInv, WorldTypes
<1> QED
  BY <1>2, <1>3 DEF TypesInv, WorldTypes, TableTypes, Present, Answer

\* Drives come, go and fail.
LEMMA MovesTyped ==
  ASSUME TypesInv, NEW k \in Channel,
         Pull(k) \/ DriveFails(k) \/ (\E d \in Drive : Plug(k, d))
  PROVE  TypesInv'
<1>1. /\ UNCHANGED <<proto, leds, cfg, cachedState, drives, functional, answer>> /\ Disturb
      /\ latch' \in BOOLEAN
  BY DEF Pull, DriveFails, Plug, Moved, TypesInv, WorldTypes
<1>2. slot' \in [Channel -> Slot] /\ failed' \subseteq Present'
  BY DEF Pull, DriveFails, Plug, Moved, TypesInv, WorldTypes, Present, Slot
<1>3. PassInv'
  BY <1>1 DEF Disturb, TypesInv, PassInv, PassTyped, Left, Fields, At
<1> QED
  BY <1>1, <1>2, <1>3 DEF TypesInv, WorldTypes, TableTypes

LEMMA NextTypes == TypesInv /\ [Next]_vars => TypesInv'
<1> SUFFICES ASSUME TypesInv, [Next]_vars PROVE TypesInv'
  OBVIOUS
<1>1. CASE UNCHANGED vars
  BY <1>1 DEF vars, TypesInv, WorldTypes, TableTypes, Present, PassInv, PassTyped, Left
<1> QED
  BY <1>1, StateTyped, RowsTyped, RestTyped, StartTyped, MovesTyped DEF Next, Handler

LEMMA TypesInductive == Spec => []TypesInv
  BY InitTypes, NextTypes, PTL DEF Spec

\* The types hold for any drives, channels and faults: a table has rows of
\* configured channels only, and a lookup never looks outside of it.
THEOREM DriveTypeCorrect == Spec => []TypeOK
<1>1. TypesInv => TypeOK
  BY IsAPass DEF TypesInv, WorldTypes, TableTypes, PassInv, TypeOK, Table, Answer
<1> QED
  BY <1>1, TypesInductive, PTL

-----------------------------------------------------------------------------
(* A stale table is noticed. This is about an MCU that speaks V1, whose     *)
(* transfers work and whose channels stay as they are; drives may be       *)
(* plugged and pulled and may fail at any time.                            *)

\* What the argument takes for granted.
Given == ~ FaultsAllowed /\ ~ ReconfigAllowed

Known == proto = "V1" /\ cfg = Channel /\ failed \subseteq Channel /\ latch \in BOOLEAN

\* The table is right, or the next isStateChanged() will tell.
Noticed == Matches \/ drives = << >> \/ latch \/ cachedState # Present

Noticing ==
  /\ pass.step \in {"idle", "presence", "failures", "verify", "led"} => Noticed
  /\ pass.step = "changed" => Matches \/ drives = << >> \/ latch

\* The cache holds the presence read in this pass, which was right unless the
\* latch tells of a change.
StateRead ==
  /\ pass.step \in {"failures", "changed"} =>
       pass.presence \subseteq Channel /\ (latch \/ pass.presence = Present)
  /\ pass.step \in {"changed", "type", "sn", "verify"} =>
       cachedState = pass.presence /\ pass.presence \subseteq Channel

RightTypes == \A c \in Channel : pass.types[c] = TypeOf(slot[c])
RightRow(row, c) == row.sn = SerialDue(c) /\ row.iface = TypeOf(slot[c])

\* The rows collected so far are right unless the latch tells of a change.
Collecting ==
  /\ pass.step \in {"presence", "failures", "changed"} => pass.rows = << >>
  /\ pass.step \in {"type", "sn"} =>
       /\ DOMAIN pass.rows \subseteq Channel /\ DOMAIN pass.rows # Channel
       /\ latch \/ \A c \in DOMAIN pass.rows : RightRow(pass.rows[c], c)
       /\ latch \/ RightTypes \/ (At("type") /\ pass.rows = << >>)
  /\ At("sn") => HaveDriveI2C /\ (latch \/ pass.types[NextChannel] = "NVMe")

TableInv == Known /\ Noticing /\ StateRead /\ Collecting

\* With channels of a byte the failures are shifted out of the state.
LEMMA NewStateIsPresence ==
  ASSUME NEW presence, failed \subseteq Channel
  PROVE  NewState(presence, failed) = presence
<1>1. {c \in Channel : c + 8 \in failed} = {}
  BY DEF Channel
<1> QED
  BY <1>1 DEF NewState

\* A channel is left until the table is complete.
LEMMA NextIsLeft ==
  ASSUME cfg = Channel, DOMAIN pass.rows \subseteq Channel, DOMAIN pass.rows # Channel
  PROVE  NextChannel \in Channel \ DOMAIN pass.rows
<1>1. Channel \ DOMAIN pass.rows \in SUBSET Channel /\ Channel \ DOMAIN pass.rows # {}
  OBVIOUS
<1> QED
  BY <1>1, FirstIsIn DEF NextChannel

\* A handler ends in a state in which a stale table is noticed.
LEMMA EndsNoticed ==
  ASSUME pass' = Idle, Known', Noticed' PROVE TableInv'
<1>1. pass'.step = "idle"
  BY DEF Idle
<1> QED
  BY <1>1 DEF TableInv, Noticing, StateRead, Collecting, At

\* The same for a lookup that has its row to verify.
LEMMA ReturnsTrueNoticed ==
  ASSUME Shape, NEW table, RefreshReturnsTrue(table), Known', Noticed',
         cachedState' = pass.presence, pass.presence \subseteq Channel
  PROVE  TableInv'
<1>1. CASE pass' = Idle
  BY <1>1, EndsNoticed
<1>2. CASE pass' # Idle
  <2>1. PICK c : pass' = [pass EXCEPT !.step = "verify", !.channel = c]
    BY <1>2 DEF RefreshReturnsTrue, Reply
  <2>2. pass'.step = "verify" /\ pass'.presence = pass.presence
    BY <2>1 DEF Shape, Fields
  <2> QED
    BY <2>2 DEF TableInv, Noticing, StateRead, Collecting, At
<1> QED
  BY <1>1, <1>2

\* What is not changed by drives coming, going and failing.
LEMMA DisturbNoticed ==
  ASSUME TableInv, Shape, Disturb, UNCHANGED <<proto, cfg, cachedState, drives>>,
         failed' \subseteq Channel, latch' = TRUE \/ UNCHANGED <<slot, latch>>
  PROVE  TableInv'
<1>1. /\ pass'.step = pass.step /\ pass'.presence = pass.presence
      /\ pass'.rows = pass.rows /\ pass'.types = pass.types
  BY DEF Disturb, Shape, Fields, At
<1>2. Known' /\ NextChannel' = NextChannel
  BY <1>1 DEF TableInv, Known, NextChannel
<1>3. CASE latch' = TRUE
  BY <1>1, <1>2, <1>3 DEF TableInv, Known, Noticing, Noticed, StateRead, Collecting, At
<1>4. CASE UNCHANGED <<slot, latch>>
  <2>1. /\ Matches' = Matches /\ Present' = Present /\ RightTypes' = RightTypes
        /\ \A row, c : RightRow(row, c)' = RightRow(row, c)
    BY <1>1, <1>4 DEF Matches, Present, RightTypes, RightRow, SerialDue, SerialAt, TypeOf
  <2> QED
    BY <1>1, <1>2, <1>4, <2>1 DEF TableInv, Noticing, Noticed, StateRead, Collecting, At, RightRow, SerialDue, SerialAt
<1> QED
  BY <1>3, <1>4

\* A handler begins.
LEMMA BeginNoticed ==
  ASSUME TableInv, NEW op, NEW d, Begin(op, d) PROVE TableInv'
<1>1. pass'.step = "presence" /\ pass'.rows = << >>
  BY DEF Begin, Idle
<1>2. Noticed
  BY DEF Begin, At, TableInv, Noticing
<1>3. Known' /\ Noticed'
  BY <1>2 DEF TableInv, Begin, world, Known, Noticed, Matches, Present, SerialDue, SerialAt, TypeOf
<1> QED
  BY <1>1, <1>3 DEF TableInv, Noticing, StateRead, Collecting, At

\* Reading what isStateChanged() compares.
LEMMA ReadPresenceNoticed ==
  ASSUME TableInv, Shape, ReadPresence PROVE TableInv'
<1>1. /\ pass'.step = "failures" /\ pass'.rows = pass.rows
      /\ pass'.presence = Present
  BY DEF ReadPresence, Shape, Fields
<1>2. Noticed /\ pass.rows = << >>
  BY DEF ReadPresence, At, TableInv, Noticing, Collecting
<1>3. Known' /\ Noticed' /\ Present' = Present /\ Present \subseteq Channel
  BY <1>2 DEF TableInv, ReadPresence, world, Known, Noticed, Matches, Present, SerialDue, SerialAt, TypeOf
<1> QED
  BY <1>1, <1>2, <1>3 DEF TableInv, Noticing, StateRead, Collecting, At

\* The comparison goes on to build the table, with nothing collected yet.
LEMMA BuildNoticed ==
  ASSUME Known', NEW p, p = [x \in Fields |-> p[x]], p.rows = << >>,
         p.presence \subseteq Channel, cachedState' = p.presence,
         pass' = [p EXCEPT !.step = "type"]
  PROVE  TableInv'
<1>1. pass'.step = "type" /\ pass'.rows = << >> /\ pass'.presence = p.presence
  BY DEF Fields
<1>2. DOMAIN pass'.rows = {} /\ 1 \in Channel
  BY <1>1 DEF Channel
<1> QED
  BY <1>1, <1>2 DEF TableInv, Noticing, StateRead, Collecting, At

LEMMA ReadFailuresNoticed ==
  ASSUME TableInv, Shape, ReadFailures PROVE TableInv'
<1> DEFINE p == [pass EXCEPT !.failures = failed]
<1>1. /\ pass.rows = << >> /\ pass.presence \subseteq Channel
      /\ latch \/ pass.presence = Present
      /\ Noticed
  BY DEF ReadFailures, At, TableInv, Noticing, StateRead, Collecting
<1>2. cachedState' = pass.presence
  BY NewStateIsPresence DEF ReadFailures, TableInv, Known
<1>3. /\ p = [x \in Fields |-> p[x]]
      /\ p.rows = pass.rows /\ p.presence = pass.presence
  BY DEF Shape, Fields
<1>4. Known'
  BY DEF TableInv, ReadFailures, world, Known
<1>5. CASE cachedState # pass.presence
  <2>1. pass' = [p EXCEPT !.step = "type"]
    BY <1>5, NewStateIsPresence DEF ReadFailures, StateChecked, TableInv, Known
  <2> QED
    BY <1>1, <1>2, <1>3, <1>4, <2>1, BuildNoticed
<1>6. CASE cachedState = pass.presence
  <2>1. pass' = [p EXCEPT !.step = "changed"]
    BY <1>6, NewStateIsPresence DEF ReadFailures, StateChecked, TableInv, Known
  <2>2. /\ pass'.step = "changed" /\ pass'.rows = << >>
        /\ pass'.presence = pass.presence
    BY <1>1, <1>3, <2>1 DEF Fields
  <2>3. Matches \/ drives = << >> \/ latch
    BY <1>1, <1>6 DEF Noticed
  <2>4. /\ (Matches \/ drives = << >> \/ latch)'
        /\ Present' = Present /\ latch' = latch
    BY <2>3 DEF ReadFailures, world, Matches, Present, SerialDue, SerialAt, TypeOf
  <2> QED
    BY <1>1, <1>2, <1>4, <2>2, <2>4 DEF TableInv, Noticing, StateRead, Collecting, At
<1> QED
  BY <1>5, <1>6

LEMMA ReadChangedNoticed ==
  ASSUME TableInv, Shape, ReadChanged PROVE TableInv'
<1>1. /\ pass.rows = << >> /\ cachedState = pass.presence /\ pass.presence \subseteq Channel
      /\ Matches \/ drives = << >> \/ latch
  BY DEF ReadChanged, At, TableInv, Noticing, StateRead, Collecting
<1>2. cachedState' = pass.presence /\ Known'
  BY <1>1 DEF TableInv, ReadChanged, Known
<1>3. CASE latch \/ drives = << >>
  <2>1. pass' = [pass EXCEPT !.step = "type"]
    BY <1>3 DEF ReadChanged, StateChecked
  <2> QED
    BY <1>1, <1>2, <2>1, BuildNoticed DEF Shape
<1>4. CASE ~ (latch \/ drives = << >>)
  <2>1. RefreshReturnsTrue(drives)
    BY <1>4 DEF ReadChanged, StateChecked
  <2>2. Noticed'
    BY <1>1, <1>4 DEF ReadChanged, Noticed, Matches, SerialDue, SerialAt, TypeOf
  <2> QED
    BY <1>1, <1>2, <2>1, <2>2, ReturnsTrueNoticed
<1> QED
  BY <1>3, <1>4

\* A row was collected.
LEMMA CollectedNoticed ==
  ASSUME TableInv, Shape, NEW c \in Channel \ DOMAIN pass.rows, NEW row,
         pass.step \in {"type", "sn"},
         Collected(WithRow(c, row)), UNCHANGED <<world, cachedState>>,
         latch \/ RightRow(row, c),
         DOMAIN WithRow(c, row) = Channel \/ latch \/ RightTypes
  PROVE  TableInv'
<1> DEFINE rows == WithRow(c, row)
<1>1. /\ DOMAIN pass.rows \subseteq Channel
      /\ latch \/ \A k \in DOMAIN pass.rows : RightRow(pass.rows[k], k)
      /\ cachedState = pass.presence /\ pass.presence \subseteq Channel
  BY DEF TableInv, Collecting, StateRead
<1>2. /\ DOMAIN rows = DOMAIN pass.rows \cup {c}
      /\ \A k \in DOMAIN rows : rows[k] = IF k = c THEN row ELSE pass.rows[k]
  BY DEF WithRow
<1>3. latch \/ \A k \in DOMAIN rows : RightRow(rows[k], k)
  BY <1>1, <1>2
<1>4. Known' /\ cfg = Channel
  BY DEF TableInv, Known, world
<1>5. Collected(rows)
  OBVIOUS
<1>6. DOMAIN rows = Channel \/ latch \/ RightTypes
  OBVIOUS
<1> HIDE DEF rows
<1>7. CASE DOMAIN rows = Channel
  <2>1. drives' = rows /\ RefreshReturnsTrue(rows)
    BY <1>4, <1>5, <1>7 DEF Collected
  <2>2. Noticed'
    BY <1>3, <1>4, <1>7, <2>1 DEF Noticed, Matches, RightRow, SerialDue, SerialAt, TypeOf, world
  <2> QED
    BY <1>1, <1>4, <2>1, <2>2, ReturnsTrueNoticed
<1>8. CASE DOMAIN rows # Channel
  <2>1. pass' = [pass EXCEPT !.step = "type", !.rows = rows]
    BY <1>4, <1>5, <1>8 DEF Collected
  <2>2. /\ pass'.step = "type" /\ pass'.rows = rows
        /\ pass'.types = pass.types /\ pass'.presence = pass.presence
    BY <2>1 DEF Shape, Fields
  <2>3. latch' \/ \A k \in DOMAIN pass'.rows : RightRow(pass.rows[k], k)'
    BY <1>3, <2>2 DEF RightRow, SerialDue, SerialAt, TypeOf, world
  <2>4. latch' \/ RightTypes'
    BY <1>6, <1>8, <2>2 DEF RightTypes, TypeOf, world
  <2>5. DOMAIN pass'.rows \subseteq Channel /\ DOMAIN pass'.rows # Channel
    BY <1>1, <1>2, <1>8, <2>2
  <2>6. UNCHANGED cachedState
    OBVIOUS
  <2> QED
    BY <1>1, <1>4, <1>8, <2>2, <2>3, <2>4, <2>5, <2>6
       DEF TableInv, Noticing, StateRead, Collecting, At
<1> QED
  BY <1>7, <1>8

\* A slot without a type is empty; only drives with an I2C interface have a
\* serial number to read, and the backplane must allow it.
LEMMA TypeTells ==
  ASSUME NEW c \in Channel
  PROVE  /\ TypeOf(slot[c]) = "NoDisk" => c \notin Present
         /\ ~ (HaveDriveI2C /\ TypeOf(slot[c]) = "NVMe") => SerialDue(c) = NoDrive
  BY DEF TypeOf, SerialDue, SerialAt, Present

LEMMA ReadTypeNoticed ==
  ASSUME TableInv, Shape, ReadType PROVE TableInv'
<1> DEFINE c     == NextChannel
           types == IF pass.rows = << >> \/ proto = "V0"
                    THEN [k \in Channel |-> TypeOf(slot[k])] ELSE pass.types
           row   == RowFor(c, NoDrive, types[c])
           rows  == WithRow(c, row)
<1>1. /\ DOMAIN pass.rows \subseteq Channel /\ DOMAIN pass.rows # Channel
      /\ latch \/ \A k \in DOMAIN pass.rows : RightRow(pass.rows[k], k)
      /\ latch \/ RightTypes \/ pass.rows = << >>
      /\ cachedState = pass.presence /\ pass.presence \subseteq Channel
      /\ pass.step = "type"
  BY DEF ReadType, At, TableInv, Collecting, StateRead
<1>2. c \in Channel \ DOMAIN pass.rows
  BY <1>1, NextIsLeft DEF TableInv, Known
<1>3. latch \/ \A k \in Channel : types[k] = TypeOf(slot[k])
  BY <1>1 DEF RightTypes
<1>4. /\ UNCHANGED <<world, cachedState>> /\ Known' /\ cfg = Channel
  BY DEF ReadType, TableInv, Known, world
<1>5. \/ /\ types[c] = "NoDisk" /\ c \in pass.presence
         /\ RefreshReturnsFalse
      \/ /\ HaveDriveI2C /\ types[c] = "NVMe"
         /\ pass' = [pass EXCEPT !.step = "sn", !.types = types]
      \/ /\ ~ (HaveDriveI2C /\ types[c] = "NVMe") /\ DOMAIN rows = cfg
         /\ Collected(rows)
      \/ /\ ~ (HaveDriveI2C /\ types[c] = "NVMe") /\ DOMAIN rows # cfg
         /\ pass' = [pass EXCEPT !.types = types, !.rows = rows]
  BY DEF ReadType
<1>6. ~ (HaveDriveI2C /\ types[c] = "NVMe") => latch \/ RightRow(row, c)
  BY <1>2, <1>3, TypeTells DEF RightRow, RowFor
<1>7. /\ DOMAIN rows = DOMAIN pass.rows \cup {c}
      /\ \A k \in DOMAIN rows : rows[k] = IF k = c THEN row ELSE pass.rows[k]
  BY DEF WithRow
<1> HIDE DEF c, types, row
<1>8. CASE types[c] = "NoDisk" /\ c \in pass.presence /\ RefreshReturnsFalse
  <2>1. pass' = Idle
    BY <1>8 DEF RefreshReturnsFalse, Reply
  <2>2. latch \/ cachedState # Present
    BY <1>1, <1>2, <1>3, <1>8, TypeTells
  <2>3. Noticed'
    BY <1>4, <2>2 DEF Noticed, Present, world
  <2> QED
    BY <1>4, <2>1, <2>3, EndsNoticed
<1>9. CASE HaveDriveI2C /\ types[c] = "NVMe" /\ pass' = [pass EXCEPT !.step = "sn", !.types = types]
  <2>1. /\ pass'.step = "sn" /\ pass'.types = types
        /\ pass'.rows = pass.rows /\ pass'.presence = pass.presence
    BY <1>9 DEF Shape, Fields
  <2>2. NextChannel' = c
    BY <1>4, <2>1 DEF c, NextChannel, world
  <2>3. latch' \/ RightTypes'
    BY <1>3, <1>4, <2>1 DEF RightTypes, TypeOf, world
  <2>4. latch' \/ \A k \in DOMAIN pass'.rows : RightRow(pass.rows[k], k)'
    BY <1>1, <1>4, <2>1 DEF RightRow, SerialDue, SerialAt, TypeOf, world
  <2>5. pass'.types[NextChannel'] = "NVMe"
    BY <1>9, <2>1, <2>2
  <2> QED
    BY <1>1, <1>4, <1>9, <2>1, <2>3, <2>4, <2>5 DEF TableInv, Noticing, StateRead, Collecting, At
<1>10. CASE ~ (HaveDriveI2C /\ types[c] = "NVMe") /\ DOMAIN rows = cfg /\ Collected(rows)
  BY <1>1, <1>2, <1>4, <1>6, <1>10, CollectedNoticed
<1>11. CASE /\ ~ (HaveDriveI2C /\ types[c] = "NVMe") /\ DOMAIN rows # cfg
            /\ pass' = [pass EXCEPT !.types = types, !.rows = rows]
  <2> HIDE DEF rows
  <2>1. /\ pass'.step = "type" /\ pass'.types = types
        /\ pass'.rows = rows /\ pass'.presence = pass.presence
    BY <1>1, <1>11 DEF Shape, Fields
  <2>2. latch' \/ RightTypes'
    BY <1>3, <1>4, <2>1 DEF RightTypes, TypeOf, world
  <2>3. latch \/ \A k \in DOMAIN rows : RightRow(rows[k], k)
    BY <1>1, <1>6, <1>7, <1>11
  <2>4. latch' \/ \A k \in DOMAIN pass'.rows : RightRow(pass.rows[k], k)'
    BY <1>4, <2>1, <2>3 DEF RightRow, SerialDue, SerialAt, TypeOf, world
  <2>5. DOMAIN pass'.rows \subseteq Channel /\ DOMAIN pass'.rows # Channel
    BY <1>1, <1>2, <1>4, <1>7, <1>11, <2>1
  <2> QED
    BY <1>1, <1>4, <2>1, <2>2, <2>4, <2>5 DEF TableInv, Noticing, StateRead, Collecting, At
<1> QED
  BY <1>5, <1>8, <1>9, <1>10, <1>11

LEMMA ReadSNNoticed ==
  ASSUME TableInv, Shape, Given, ReadSN PROVE TableInv'
<1>1. /\ DOMAIN pass.rows \subseteq Channel /\ DOMAIN pass.rows # Channel
      /\ latch \/ RightTypes
      /\ HaveDriveI2C /\ (latch \/ pass.types[NextChannel] = "NVMe")
      /\ pass.step = "sn"
  BY DEF ReadSN, At, TableInv, Collecting
<1>2. NextChannel \in Channel \ DOMAIN pass.rows
  BY <1>1, NextIsLeft DEF TableInv, Known
<1>3. Collected(WithRow(NextChannel, RowFor(NextChannel, SerialAt(NextChannel), "NVMe")))
  BY DEF ReadSN, SerialRead, Given
<1>4. latch \/ RightRow(RowFor(NextChannel, SerialAt(NextChannel), "NVMe"), NextChannel)
  BY <1>1, <1>2 DEF RightRow, RowFor, RightTypes, SerialDue
<1>5. UNCHANGED <<world, cachedState>>
  BY DEF ReadSN
<1> QED
  BY <1>1, <1>2, <1>3, <1>4, <1>5, CollectedNoticed

\* An outdated row: no register reaches bit 0, so the complement of the cache
\* is not what the next pass will read.
LEMMA VerifyNoticed ==
  ASSUME TableInv, Shape, Verify PROVE TableInv'
<1>1. /\ cachedState \subseteq Channel /\ Noticed
  BY DEF Verify, At, TableInv, Noticing, StateRead
<1>2. Known'
  BY DEF Verify, TableInv, Known, world
<1>3. PICK sn \in SerialRead(pass.channel) :
        \/ cachedState' = Bits \ cachedState /\ Reply("outdated")
        \/ UNCHANGED cachedState /\ Reply("found")
        \/ UNCHANGED cachedState /\ pass' = [pass EXCEPT !.step = "led"]
  BY DEF Verify
<1>4. CASE cachedState' = Bits \ cachedState /\ Reply("outdated")
  <2>1. 0 \notin Channel /\ Present' \subseteq Channel
    BY DEF Channel, Present
  <2>2. 0 \in cachedState'
    BY <1>1, <1>4, <2>1 DEF Bits, HighBits
  <2>3. Noticed'
    BY <2>1, <2>2 DEF Noticed
  <2> QED
    BY <1>2, <1>4, <2>3, EndsNoticed DEF Reply
<1>5. CASE UNCHANGED cachedState
  <2>1. Noticed'
    BY <1>1, <1>5 DEF Verify, world, Noticed, Matches, Present, SerialDue, SerialAt, TypeOf
  <2>2. pass' = Idle \/ pass'.step = "led"
    BY <1>3 DEF Reply, Shape, Fields
  <2> QED
    BY <1>2, <2>1, <2>2, EndsNoticed DEF TableInv, Noticing, StateRead, Collecting, At
<1> QED
  BY <1>3, <1>4, <1>5

\* Switching LEDs.
LEMMA LEDsNoticed ==
  ASSUME TableInv, Shape, DriveLED \/ ResetLEDs PROVE TableInv'
<1>1. UNCHANGED <<proto, slot, failed, latch, cfg, cachedState, drives>>
  BY DEF DriveLED, ResetLEDs
<1>2. Noticed
  BY DEF DriveLED, ResetLEDs, At, TableInv, Noticing
<1>3. Noticed' /\ Known'
  BY <1>1, <1>2 DEF Noticed, Matches, Present, SerialDue, SerialAt, TypeOf, TableInv, Known
<1>4. pass' = Idle \/ (pass' = pass /\ pass.step = "idle")
  BY DEF DriveLED, ResetLEDs, Reply, At
<1> QED
  BY <1>3, <1>4, EndsNoticed DEF TableInv, Noticing, StateRead, Collecting, At

LEMMA WorldNoticed ==
  ASSUME TableInv, Shape, NEW k \in Channel,
         Pull(k) \/ DriveFails(k) \/ (\E d \in Drive : Plug(k, d))
  PROVE  TableInv'
<1>1. /\ Disturb /\ UNCHANGED <<proto, cfg, cachedState, drives>>
      /\ latch' = TRUE \/ UNCHANGED <<slot, latch>>
  BY DEF Pull, DriveFails, Plug, Moved
<1>2. failed' \subseteq Channel
  BY DEF Pull, DriveFails, Plug, TableInv, Known
<1> QED
  BY <1>1, <1>2, DisturbNoticed

LEMMA NextNoticed ==
  ASSUME Given, TableInv, LedInv, [Next]_vars PROVE TableInv'
<1> USE DEF LedInv
<1>1. CASE ReadPresence
  BY <1>1, ReadPresenceNoticed
<1>2. CASE ReadFailures
  BY <1>2, ReadFailuresNoticed
<1>3. CASE ReadChanged
  BY <1>3, ReadChangedNoticed
<1>4. CASE ReadType
  BY <1>4, ReadTypeNoticed
<1>5. CASE ReadSN
  BY <1>5, ReadSNNoticed
<1>6. CASE Verify
  BY <1>6, VerifyNoticed
<1>7. CASE DriveLED \/ ResetLEDs
  BY <1>7, LEDsNoticed
<1>8. CASE Start
  <2>1. CASE Refresh
    BY <2>1, BeginNoticed DEF Refresh
  <2>2. ASSUME NEW op \in Ops, NEW d \in Drive, Lookup(op, d) PROVE TableInv'
    BY <2>2, BeginNoticed DEF Lookup
  <2> QED
    BY <1>8, <2>1, <2>2 DEF Start, UpdateConfig, Given
<1>9. ASSUME NEW k \in Channel, Pull(k) \/ DriveFails(k) \/ (\E d \in Drive : Plug(k, d))
      PROVE  TableInv'
  BY <1>9, WorldNoticed
<1>10. CASE UNCHANGED vars
  <2>1. NextChannel' = NextChannel
    BY <1>10 DEF vars, NextChannel
  <2>2. /\ Matches' = Matches /\ Present' = Present /\ RightTypes' = RightTypes
        /\ \A row, c : RightRow(row, c)' = RightRow(row, c)
    BY <1>10 DEF vars, Matches, Present, RightTypes, RightRow, SerialDue, SerialAt, TypeOf
  <2> QED
    BY <1>10, <2>1, <2>2 DEF vars, TableInv, Known, Noticing, Noticed, StateRead,
       Collecting, At, RightRow, SerialDue, SerialAt, TypeOf
<1> QED
  BY <1>1, <1>2, <1>3, <1>4, <1>5, <1>6, <1>7, <1>8, <1>9, <1>10
     DEF Next, Handler, TransferFails, Given

\* What holds of the table if the MCU speaks V1.
V1Inv == proto = "V1" => TableInv

LEMMA InitV1 == Init => V1Inv
<1> SUFFICES ASSUME Init, proto = "V1" PROVE TableInv
  BY DEF V1Inv
<1>1. Known /\ Noticed /\ pass.step = "idle"
  BY DEF Init, Known, Noticed, Idle
<1> QED
  BY <1>1 DEF TableInv, Noticing, StateRead, Collecting, At

LEMMA NextV1 ==
  ASSUME Given, LedInv, V1Inv, [Next]_vars PROVE V1Inv'
<1> SUFFICES ASSUME proto' = "V1" PROVE TableInv'
  BY DEF V1Inv
<1>1. proto' = proto
  BY DEF Next, Handler, Start, vars, world, ReadPresence, ReadFailures, ReadChanged,
     ReadType, ReadSN, Verify, TransferFails, DriveLED, Refresh, Lookup, Begin,
     UpdateConfig, ResetLEDs, Pull, DriveFails, Plug, Moved
<1> QED
  BY <1>1, NextNoticed DEF V1Inv

\* A table that does not show the drives is noticed, for any number of drives
\* and channels and any order of plugs, pulls and failures between any two
\* transfers of isStateChanged() and doRefresh(), if the transfers work.
THEOREM StaleTableNoticed ==
  ASSUME Given PROVE Spec => []StaleIsNoticed
<1>1. LedInv /\ V1Inv /\ [Next]_vars => V1Inv'
  BY NextV1
<1>2. V1Inv => StaleIsNoticed
  BY NewStateIsPresence DEF V1Inv, TableInv, Known, Noticing, Noticed, StaleIsNoticed, At
<1> QED
  BY <1>1, <1>2, InitV1, LedInductive, PTL DEF Spec

-----------------------------------------------------------------------------
(* A drive that is installed is found: with V1, and with either protocol by *)
(* the lookup that follows one which has met an outdated row.              *)

\* Then the lookup works with rows that show the drives.
Sure == pass.forced \/ (proto = "V1" /\ ~ ReconfigAllowed)

RightRows(table) == \A c \in DOMAIN table : RightRow(table[c], c)

\* What a pass has read since it began is right while nothing happens.
CalmRows ==
  pass.calm =>
    /\ pass.step \in {"type", "sn"} =>
         RightRows(pass.rows) /\ (RightTypes \/ (At("type") /\ pass.rows = << >>))
    /\ At("sn") => HaveDriveI2C /\ pass.types[NextChannel] = "NVMe"
    /\ At("verify") /\ Sure => SerialDue(pass.channel) = pass.drive

\* The complement of the cache has the bit no register reaches, so the forced
\* pass builds the table anew.
Forced ==
  /\ pass.step \in {"changed", "type", "sn", "verify", "led"} => cachedState \subseteq Channel
  /\ pass.forced /\ pass.step \in {"presence", "failures"} => HighBits \in cachedState
  /\ pass.forced => pass.step # "changed"
  /\ ~ At("idle") => answer = "none"
  /\ answer = "outdated" => HighBits \in cachedState
  /\ At("idle") => pass.op = "refresh"

FindInv == CalmRows /\ Forced

\* What the steps of a pass rely on.
Basis == ~ FaultsAllowed /\ Named /\ TypesInv /\ (~ ReconfigAllowed /\ proto = "V1" => TableInv)

\* A sure lookup does not miss the drive in this step.
Hits ==
  Sure /\ pass.calm /\ pass.op # "refresh" /\ At("idle")' /\ answer' \in {"notFound", "outdated"}
    => \A c \in cfg : SerialDue(c) # pass.drive

LEMMA HighBitIsHigh == HighBits \notin Channel
  BY DEF HighBits, Channel

LEMMA EndsFound ==
  ASSUME pass' = Idle, answer' = "outdated" => HighBits \in cachedState'
  PROVE  FindInv'
  BY DEF Idle, FindInv, CalmRows, Forced, At

\* refresh() returns true with rows that show the drives.
LEMMA RightTableFinds ==
  ASSUME PassTyped(pass), NEW table \in Table, DOMAIN table = cfg, RightRows(table),
         RefreshReturnsTrue(table), ~ At("idle"), answer = "none", cachedState' \subseteq Channel,
         UNCHANGED <<proto, slot, cfg>>
  PROVE  FindInv' /\ Hits
<1> DEFINE matching == {c \in DOMAIN table : table[c].sn = pass.drive}
<1>1. matching = {c \in cfg : SerialDue(c) = pass.drive}
  BY DEF RightRows, RightRow
<1>2. CASE pass.op = "refresh"
  <2>1. pass' = Idle /\ answer' = "none"
    BY <1>2 DEF RefreshReturnsTrue
  <2> QED
    BY <1>2, <2>1, EndsFound DEF Hits
<1>3. CASE pass.op # "refresh" /\ matching = {}
  <2>1. pass' = Idle /\ answer' = "notFound"
    BY <1>3 DEF RefreshReturnsTrue, Reply
  <2> QED
    BY <1>1, <1>3, <2>1, EndsFound DEF Hits
<1>4. CASE pass.op # "refresh" /\ matching # {}
  <2>1. /\ pass' = [pass EXCEPT !.step = "verify", !.channel = First(matching)]
        /\ answer' = "none"
    BY <1>4 DEF RefreshReturnsTrue
  <2>2. First(matching) \in matching
    BY <1>4, FirstIsIn DEF Table
  <2>3. SerialDue(First(matching)) = pass.drive
    BY <1>1, <2>2
  <2> HIDE DEF matching
  <2>4. /\ pass'.step = "verify" /\ pass'.channel = First(matching) /\ pass'.drive = pass.drive
    BY <2>1 DEF PassTyped, Fields
  <2>5. (SerialDue(pass.channel) = pass.drive)'
    BY <2>3, <2>4 DEF SerialDue, SerialAt, TypeOf
  <2>6. FindInv'
    BY <2>1, <2>4, <2>5 DEF FindInv, CalmRows, Forced, At
  <2> QED
    BY <2>4, <2>6 DEF Hits, At
<1> QED
  BY <1>2, <1>3, <1>4

\* A pass that builds the table starts with nothing.
LEMMA BuildFinds ==
  ASSUME NEW p, PassTyped(p), p.rows = << >>, pass' = [p EXCEPT !.step = "type"],
         cachedState' \subseteq Channel, answer' = "none"
  PROVE  FindInv'
<1>1. pass'.step = "type" /\ pass'.rows = << >>
  BY DEF PassTyped, Fields
<1>2. DOMAIN pass'.rows = {}
  BY <1>1, EmptyTable
<1> QED
  BY <1>1, <1>2 DEF FindInv, CalmRows, Forced, RightRows, At

LEMMA ReadFailuresFinds ==
  ASSUME Basis, FindInv, ReadFailures PROVE FindInv' /\ Hits
<1> DEFINE p == [pass EXCEPT !.failures = failed]
           changed == NewState(pass.presence, failed) # cachedState
<1>1. /\ PassTyped(pass) /\ pass.rows = << >> /\ pass.step = "failures" /\ answer = "none"
      /\ pass.forced => HighBits \in cachedState
  BY DEF ReadFailures, At, Basis, TypesInv, PassInv, Left, FindInv, Forced
<1>2. cachedState' \subseteq Channel /\ cachedState' = NewState(pass.presence, failed)
  BY <1>1 DEF ReadFailures, NewState, PassTyped
<1>3. pass.forced => changed
  BY <1>1, <1>2, HighBitIsHigh
<1>4. \/ proto = "V1" /\ ~ changed /\ pass' = [p EXCEPT !.step = "changed"] /\ UNCHANGED answer
      \/ ~ (proto = "V1" /\ ~ changed) /\ StateChecked(changed, p)
  BY DEF ReadFailures
<1>5. PassTyped(p) /\ p.rows = << >> /\ p.forced = pass.forced /\ p.calm = pass.calm
      /\ p.step = "failures"
  <2>1. failed \subseteq Channel
    BY DEF Basis, TypesInv, WorldTypes, Present
  <2> QED
    BY <1>1, <2>1 DEF PassTyped, Fields
<1> HIDE DEF p, changed
<1>6. CASE proto = "V1" /\ ~ changed /\ pass' = [p EXCEPT !.step = "changed"] /\ UNCHANGED answer
  <2>1. pass'.step = "changed" /\ pass'.forced = pass.forced
    BY <1>5, <1>6 DEF PassTyped, Fields
  <2> QED
    BY <1>1, <1>2, <1>3, <1>6, <2>1 DEF FindInv, CalmRows, Forced, Hits, At
<1>7. CASE ~ (proto = "V1" /\ ~ changed) /\ StateChecked(changed, p)
  <2>1. CASE changed \/ drives = << >>
    <3>1. pass' = [p EXCEPT !.step = "type"] /\ answer' = "none"
      BY <1>1, <1>7, <2>1 DEF StateChecked
    <3>2. pass'.step = "type"
      BY <1>5, <3>1 DEF PassTyped, Fields
    <3> QED
      BY <1>2, <1>5, <3>1, <3>2, BuildFinds DEF Hits, At
  <2>2. CASE ~ (changed \/ drives = << >>)
    <3>1. RefreshReturnsTrue(drives) /\ proto # "V1" /\ ~ pass.forced /\ ~ Sure
      BY <1>3, <1>7, <2>2 DEF StateChecked, Sure
    <3>2. \/ pass' = Idle /\ answer' \in {"none", "notFound"}
          \/ \E c : pass' = [pass EXCEPT !.step = "verify", !.channel = c] /\ answer' = "none"
      BY <1>1, <3>1 DEF RefreshReturnsTrue, Reply
    <3>3. CASE pass' = Idle /\ answer' \in {"none", "notFound"}
      BY <3>1, <3>3, EndsFound DEF Hits
    <3>4. CASE \E c : pass' = [pass EXCEPT !.step = "verify", !.channel = c] /\ answer' = "none"
      <4>1. pass'.step = "verify" /\ pass'.forced = pass.forced /\ answer' = "none"
        BY <1>1, <3>4 DEF PassTyped, Fields
      <4>2. proto' = proto
        BY DEF ReadFailures, world
      <4> QED
        BY <1>2, <3>1, <4>1, <4>2 DEF FindInv, CalmRows, Forced, Hits, Sure, At
    <3> QED
      BY <3>2, <3>3, <3>4
  <2> QED
    BY <2>1, <2>2
<1> QED
  BY <1>4, <1>6, <1>7

LEMMA ReadChangedFinds ==
  ASSUME Basis, FindInv, ReadChanged PROVE FindInv' /\ Hits
<1>1. /\ PassTyped(pass) /\ pass.rows = << >> /\ pass.step = "changed" /\ answer = "none"
      /\ ~ pass.forced /\ cachedState \subseteq Channel
  BY DEF ReadChanged, At, Basis, TypesInv, PassInv, Left, FindInv, Forced
<1>2. UNCHANGED <<proto, slot, cfg, cachedState>> /\ StateChecked(latch, pass)
  BY DEF ReadChanged
<1>3. CASE latch \/ drives = << >>
  <2>1. pass' = [pass EXCEPT !.step = "type"] /\ answer' = "none"
    BY <1>1, <1>2, <1>3 DEF StateChecked
  <2>2. pass'.step = "type"
    BY <1>1, <2>1 DEF PassTyped, Fields
  <2> QED
    BY <1>1, <1>2, <2>1, <2>2, BuildFinds DEF Hits, At
<1>4. CASE ~ (latch \/ drives = << >>)
  <2>1. RefreshReturnsTrue(drives)
    BY <1>2, <1>4 DEF StateChecked
  <2>2. CASE Sure
    <3>1. Matches /\ drives \in Table
      BY <1>1, <1>4, <2>2 DEF Sure, Basis, TableInv, Noticing, TypesInv, TableTypes
    <3>2. DOMAIN drives = cfg /\ RightRows(drives)
      BY <3>1 DEF Matches, RightRows, RightRow
    <3> QED
      BY <1>1, <1>2, <2>1, <3>1, <3>2, RightTableFinds DEF At
  <2>3. CASE ~ Sure
    <3>1. \/ pass' = Idle /\ answer' \in {"none", "notFound"}
          \/ \E c : pass' = [pass EXCEPT !.step = "verify", !.channel = c] /\ answer' = "none"
      BY <1>1, <2>1 DEF RefreshReturnsTrue, Reply
    <3>2. CASE pass' = Idle /\ answer' \in {"none", "notFound"}
      BY <2>3, <3>2, EndsFound DEF Hits
    <3>3. CASE \E c : pass' = [pass EXCEPT !.step = "verify", !.channel = c] /\ answer' = "none"
      <4>1. pass'.step = "verify" /\ pass'.forced = pass.forced /\ answer' = "none"
        BY <1>1, <3>3 DEF PassTyped, Fields
      <4> QED
        BY <1>1, <1>2, <2>3, <4>1 DEF FindInv, CalmRows, Forced, Hits, Sure, At
    <3> QED
      BY <3>1, <3>2, <3>3
  <2> QED
    BY <2>2, <2>3
<1> QED
  BY <1>3, <1>4

\* A row was collected.
LEMMA CollectedFinds ==
  ASSUME Basis, FindInv, pass.step \in {"type", "sn"}, NEW c \in cfg \ DOMAIN pass.rows, NEW row,
         WithRow(c, row) \in Table, Collected(WithRow(c, row)),
         UNCHANGED <<world, cachedState>>, pass.calm => RightRow(row, c) /\ RightTypes
  PROVE  FindInv' /\ Hits
<1> DEFINE rows == WithRow(c, row)
<1>1. /\ PassTyped(pass) /\ answer = "none" /\ ~ At("idle") /\ cachedState \subseteq Channel
      /\ pass.calm => RightRows(pass.rows)
  BY DEF At, Basis, TypesInv, PassInv, FindInv, CalmRows, Forced
<1>2. /\ DOMAIN rows = DOMAIN pass.rows \cup {c}
      /\ \A k \in DOMAIN rows : rows[k] = IF k = c THEN row ELSE pass.rows[k]
  BY DEF WithRow
<1>3. pass.calm => RightRows(rows)
  BY <1>1, <1>2 DEF RightRows
<1>4. rows \in Table /\ Collected(rows) /\ UNCHANGED <<proto, slot, cfg>>
  BY DEF world
<1> HIDE DEF rows
<1>5. CASE DOMAIN rows = cfg
  <2>1. RefreshReturnsTrue(rows)
    BY <1>4, <1>5 DEF Collected
  <2>2. CASE pass.calm
    BY <1>1, <1>3, <1>4, <1>5, <2>1, <2>2, RightTableFinds
  <2>3. CASE ~ pass.calm
    <3>1. \/ pass' = Idle /\ answer' \in {"none", "notFound"}
          \/ \E k : pass' = [pass EXCEPT !.step = "verify", !.channel = k] /\ answer' = "none"
      BY <1>1, <2>1 DEF RefreshReturnsTrue, Reply
    <3>2. CASE pass' = Idle /\ answer' \in {"none", "notFound"}
      BY <2>3, <3>2, EndsFound DEF Hits
    <3>3. CASE \E k : pass' = [pass EXCEPT !.step = "verify", !.channel = k] /\ answer' = "none"
      <4>1. pass'.step = "verify" /\ pass'.calm = pass.calm /\ answer' = "none"
        BY <1>1, <3>3 DEF PassTyped, Fields
      <4> QED
        BY <1>1, <2>3, <4>1 DEF FindInv, CalmRows, Forced, Hits, At
    <3> QED
      BY <3>1, <3>2, <3>3
  <2> QED
    BY <2>2, <2>3
<1>6. CASE DOMAIN rows # cfg
  <2>1. pass' = [pass EXCEPT !.step = "type", !.rows = rows] /\ answer' = "none"
    BY <1>1, <1>4, <1>6 DEF Collected
  <2>2. /\ pass'.step = "type" /\ pass'.rows = rows /\ pass'.types = pass.types
        /\ pass'.calm = pass.calm /\ pass'.forced = pass.forced
    BY <1>1, <2>1 DEF PassTyped, Fields
  <2>3. pass'.calm => RightRows(pass.rows)' /\ RightTypes'
    BY <1>3, <1>4, <2>2 DEF RightRows, RightRow, RightTypes, SerialDue, SerialAt, TypeOf
  <2> QED
    BY <1>1, <2>1, <2>2, <2>3 DEF FindInv, CalmRows, Forced, Hits, At
<1> QED
  BY <1>5, <1>6

LEMMA ReadTypeFinds ==
  ASSUME Basis, FindInv, ReadType PROVE FindInv' /\ Hits
<1> DEFINE c     == NextChannel
           types == IF pass.rows = << >> \/ proto = "V0"
                    THEN [k \in Channel |-> TypeOf(slot[k])] ELSE pass.types
           row   == RowFor(c, NoDrive, types[c])
           rows  == WithRow(c, row)
<1>1. /\ PassTyped(pass) /\ DOMAIN pass.rows \subseteq cfg /\ DOMAIN pass.rows # cfg
      /\ cfg \subseteq Channel /\ pass.step = "type" /\ answer = "none"
      /\ cachedState \subseteq Channel
      /\ pass.calm => RightRows(pass.rows) /\ (RightTypes \/ pass.rows = << >>)
  BY DEF ReadType, At, Basis, TypesInv, WorldTypes, PassInv, Left, FindInv, CalmRows, Forced
<1>2. c \in cfg \ DOMAIN pass.rows /\ c \in Channel
  BY <1>1, NextIsConfigured
<1>3. types \in [Channel -> Iface]
  BY <1>1 DEF TypeOf, Iface, PassTyped
<1>4. pass.calm => \A k \in Channel : types[k] = TypeOf(slot[k])
  BY <1>1 DEF RightTypes
<1>5. UNCHANGED <<world, cachedState>> /\ UNCHANGED <<proto, slot, cfg>>
  BY DEF ReadType, world
<1>6. \/ RefreshReturnsFalse
      \/ /\ HaveDriveI2C /\ types[c] = "NVMe" /\ UNCHANGED answer
         /\ pass' = [pass EXCEPT !.step = "sn", !.types = types]
      \/ /\ ~ (HaveDriveI2C /\ types[c] = "NVMe") /\ DOMAIN rows = cfg /\ Collected(rows)
      \/ /\ ~ (HaveDriveI2C /\ types[c] = "NVMe") /\ DOMAIN rows # cfg /\ UNCHANGED answer
         /\ pass' = [pass EXCEPT !.types = types, !.rows = rows]
  BY DEF ReadType
<1>7. ~ (HaveDriveI2C /\ types[c] = "NVMe") /\ pass.calm => RightRow(row, c)
  BY <1>2, <1>4, TypeTells DEF RightRow, RowFor
<1>8. rows \in Table
  BY <1>1, <1>2, <1>3, WithRowTyped DEF Slot
<1>9. /\ DOMAIN rows = DOMAIN pass.rows \cup {c}
      /\ \A k \in DOMAIN rows : rows[k] = IF k = c THEN row ELSE pass.rows[k]
  BY DEF WithRow
<1> HIDE DEF c, types, row
<1>10. CASE RefreshReturnsFalse
  <2>1. pass' = Idle /\ answer' \in {"none", "error"}
    BY <1>1, <1>10 DEF RefreshReturnsFalse, Reply
  <2> QED
    BY <2>1, EndsFound DEF Hits
<1>11. CASE /\ HaveDriveI2C /\ types[c] = "NVMe" /\ UNCHANGED answer
            /\ pass' = [pass EXCEPT !.step = "sn", !.types = types]
  <2>1. /\ pass'.step = "sn" /\ pass'.types = types /\ pass'.rows = pass.rows
        /\ pass'.calm = pass.calm /\ pass'.forced = pass.forced
    BY <1>1, <1>11 DEF PassTyped, Fields
  <2>2. NextChannel' = c
    BY <1>5, <2>1 DEF c, NextChannel
  <2>3. pass'.calm => RightRows(pass.rows)' /\ RightTypes'
    BY <1>1, <1>4, <1>5, <2>1 DEF RightRows, RightRow, RightTypes, SerialDue, SerialAt, TypeOf
  <2>4. pass'.types[NextChannel'] = "NVMe"
    BY <1>11, <2>1, <2>2
  <2> QED
    BY <1>1, <1>5, <1>11, <2>1, <2>3, <2>4 DEF FindInv, CalmRows, Forced, Hits, At
<1>12. CASE ~ (HaveDriveI2C /\ types[c] = "NVMe") /\ DOMAIN rows = cfg /\ Collected(rows)
  <2>1. RefreshReturnsTrue(rows)
    BY <1>12 DEF Collected
  <2>2. CASE pass.calm
    <3>1. RightRows(rows)
      BY <1>1, <1>7, <1>9, <1>12, <2>2 DEF RightRows
    <3> QED
      BY <1>1, <1>5, <1>8, <1>12, <2>1, <3>1, RightTableFinds DEF At
  <2>3. CASE ~ pass.calm
    <3>1. \/ pass' = Idle /\ answer' \in {"none", "notFound"}
          \/ \E k : pass' = [pass EXCEPT !.step = "verify", !.channel = k] /\ answer' = "none"
      BY <1>1, <2>1 DEF RefreshReturnsTrue, Reply
    <3>2. CASE pass' = Idle /\ answer' \in {"none", "notFound"}
      BY <2>3, <3>2, EndsFound DEF Hits
    <3>3. CASE \E k : pass' = [pass EXCEPT !.step = "verify", !.channel = k] /\ answer' = "none"
      <4>1. pass'.step = "verify" /\ pass'.calm = pass.calm /\ answer' = "none"
        BY <1>1, <3>3 DEF PassTyped, Fields
      <4> QED
        BY <1>1, <1>5, <2>3, <4>1 DEF FindInv, CalmRows, Forced, Hits, At
    <3> QED
      BY <3>1, <3>2, <3>3
  <2> QED
    BY <2>2, <2>3
<1>13. CASE /\ ~ (HaveDriveI2C /\ types[c] = "NVMe") /\ DOMAIN rows # cfg /\ UNCHANGED answer
            /\ pass' = [pass EXCEPT !.types = types, !.rows = rows]
  <2> HIDE DEF rows
  <2>1. /\ pass'.step = "type" /\ pass'.types = types /\ pass'.rows = rows
        /\ pass'.calm = pass.calm /\ pass'.forced = pass.forced
    BY <1>1, <1>13 DEF PassTyped, Fields
  <2>2. pass.calm => RightRows(rows)
    BY <1>1, <1>7, <1>9, <1>13 DEF RightRows
  <2>3. pass'.calm => RightRows(pass.rows)' /\ RightTypes'
    BY <1>4, <1>5, <2>1, <2>2 DEF RightRows, RightRow, RightTypes, SerialDue, SerialAt, TypeOf
  <2> QED
    BY <1>1, <1>5, <1>13, <2>1, <2>3 DEF FindInv, CalmRows, Forced, Hits, At
<1> QED
  BY <1>6, <1>10, <1>11, <1>12, <1>13

LEMMA ReadSNFinds ==
  ASSUME Basis, FindInv, ReadSN PROVE FindInv' /\ Hits
<1> DEFINE c == NextChannel
<1>1. /\ PassTyped(pass) /\ DOMAIN pass.rows \subseteq cfg /\ DOMAIN pass.rows # cfg
      /\ cfg \subseteq Channel /\ pass.step = "sn"
      /\ pass.calm => HaveDriveI2C /\ RightTypes /\ pass.types[c] = "NVMe"
  BY DEF ReadSN, At, Basis, TypesInv, WorldTypes, PassInv, Left, FindInv, CalmRows
<1>2. c \in cfg \ DOMAIN pass.rows /\ c \in Channel
  BY <1>1, NextIsConfigured
<1>3. Collected(WithRow(c, RowFor(c, SerialAt(c), "NVMe")))
  BY DEF ReadSN, SerialRead, Basis
<1>4. pass.calm => RightRow(RowFor(c, SerialAt(c), "NVMe"), c)
  BY <1>1, <1>2 DEF RightRow, RowFor, RightTypes, SerialDue
<1>5. SerialAt(c) \in Slot /\ "NVMe" \in Iface
  BY <1>2 DEF SerialAt, Slot, Iface, Basis, TypesInv, WorldTypes
<1>6. WithRow(c, RowFor(c, SerialAt(c), "NVMe")) \in Table
  BY <1>1, <1>2, <1>5, WithRowTyped
<1>7. UNCHANGED <<world, cachedState>>
  BY DEF ReadSN
<1> HIDE DEF c
<1> QED
  BY <1>1, <1>2, <1>3, <1>4, <1>6, <1>7, CollectedFinds

LEMMA VerifyFinds ==
  ASSUME Basis, FindInv, Verify PROVE FindInv' /\ Hits
<1>1. /\ PassTyped(pass) /\ pass.step = "verify" /\ answer = "none" /\ cachedState \subseteq Channel
      /\ pass.calm /\ Sure => SerialAt(pass.channel) = pass.drive
  BY DEF Verify, At, Basis, Named, TypesInv, PassInv, FindInv, CalmRows, Forced, SerialDue
<1>2. \/ /\ SerialAt(pass.channel) # pass.drive
         /\ cachedState' = Bits \ cachedState /\ Reply("outdated")
      \/ Reply("found")
      \/ UNCHANGED <<cachedState, answer>> /\ pass' = [pass EXCEPT !.step = "led"]
  BY DEF Verify, SerialRead, Basis
<1>3. CASE /\ SerialAt(pass.channel) # pass.drive
           /\ cachedState' = Bits \ cachedState /\ Reply("outdated")
  <2>1. HighBits \in cachedState'
    BY <1>1, <1>3, HighBitIsHigh DEF Bits
  <2> QED
    BY <1>1, <1>3, <2>1, EndsFound DEF Reply, Hits
<1>4. CASE Reply("found")
  BY <1>4, EndsFound DEF Reply, Hits
<1>5. CASE UNCHANGED <<cachedState, answer>> /\ pass' = [pass EXCEPT !.step = "led"]
  <2>1. pass'.step = "led" /\ pass'.forced = pass.forced
    BY <1>1, <1>5 DEF PassTyped, Fields
  <2> QED
    BY <1>1, <1>5, <2>1 DEF FindInv, CalmRows, Forced, Hits, At
<1> QED
  BY <1>2, <1>3, <1>4, <1>5

\* The steps that find or miss nothing.
LEMMA OthersFind ==
  ASSUME Basis, FindInv,
         ReadPresence \/ DriveLED \/ ResetLEDs \/ UNCHANGED vars
  PROVE  FindInv' /\ Hits
<1>0. PassTyped(pass)
  BY DEF Basis, TypesInv, PassInv
<1>1. CASE ReadPresence
  <2>1. pass' = [pass EXCEPT !.step = "failures", !.presence = Present] /\ pass.step = "presence"
        /\ UNCHANGED <<cachedState, answer>>
    BY <1>1 DEF ReadPresence, At
  <2>2. pass'.step = "failures" /\ pass'.forced = pass.forced
    BY <1>0, <2>1 DEF PassTyped, Fields
  <2> QED
    BY <2>1, <2>2 DEF FindInv, CalmRows, Forced, Hits, At
<1>2. CASE DriveLED
  BY <1>2, EndsFound DEF DriveLED, Reply, Hits
<1>3. CASE ResetLEDs
  BY <1>3 DEF ResetLEDs, FindInv, CalmRows, Forced, Hits, At
<1>4. CASE UNCHANGED vars
  <2>1. UNCHANGED <<pass, answer, cachedState>> /\ (CalmRows' <=> CalmRows)
    BY <1>4 DEF vars, CalmRows, RightRows, RightRow, RightTypes, SerialDue, SerialAt, TypeOf, At, NextChannel,
       Sure
  <2> QED
    BY <2>1 DEF FindInv, Forced, Hits, At
<1> QED
  BY <1>1, <1>2, <1>3, <1>4

\* A lookup that follows one which met an outdated row is forced.
LEMMA StartFinds ==
  ASSUME Basis, FindInv, Start PROVE FindInv' /\ Hits
<1>1. /\ At("idle") /\ UNCHANGED cachedState /\ answer' = "none"
      /\ pass'.step = "presence" /\ pass'.forced = (answer = "outdated")
  BY DEF Start, Refresh, Lookup, Begin, UpdateConfig, Idle
<1> QED
  BY <1>1 DEF FindInv, CalmRows, Forced, Hits, At

LEMMA MovesFind ==
  ASSUME Basis, FindInv, NEW k \in Channel,
         Pull(k) \/ DriveFails(k) \/ (\E d \in Drive : Plug(k, d))
  PROVE  FindInv' /\ Hits
<1>0. PassTyped(pass)
  BY DEF Basis, TypesInv, PassInv
<1>1. Disturb /\ UNCHANGED <<cachedState, answer>>
  BY DEF Pull, DriveFails, Plug, Moved
<1>2. CASE At("idle")
  BY <1>1, <1>2 DEF Disturb, FindInv, CalmRows, Forced, Hits, At
<1>3. CASE ~ At("idle")
  <2>1. /\ pass'.step = pass.step /\ pass'.calm = FALSE /\ pass'.forced = pass.forced
    BY <1>0, <1>1, <1>3 DEF Disturb, PassTyped, Fields
  <2> QED
    BY <1>1, <1>3, <2>1 DEF FindInv, CalmRows, Forced, Hits, At
<1> QED
  BY <1>2, <1>3

LEMMA NextFinds ==
  ASSUME Basis, FindInv, [Next]_vars PROVE FindInv' /\ Hits
<1>1. ~ TransferFails
  BY DEF TransferFails, Basis
<1> QED
  BY <1>1, ReadFailuresFinds, ReadChangedFinds, ReadTypeFinds, ReadSNFinds, VerifyFinds, OthersFind,
     StartFinds, MovesFind DEF Next, Handler

LEMMA InitFindInv == Init => FindInv
  BY DEF Init, Idle, FindInv, CalmRows, Forced, At

\* The invariants together.
LookupInv == LedInv /\ TypesInv /\ (~ ReconfigAllowed => V1Inv) /\ FindInv

LEMMA LookupStep ==
  ASSUME ~ FaultsAllowed, LookupInv, [Next]_vars PROVE LookupInv' /\ Hits
<1>1. LedInv' /\ TypesInv'
  BY NextLedInv, NextTypes DEF LookupInv
<1>2. ~ ReconfigAllowed => V1Inv'
  BY NextV1 DEF LookupInv, Given
<1>3. FindInv' /\ Hits
  BY NextFinds DEF LookupInv, LedInv, Basis, V1Inv
<1> QED
  BY <1>1, <1>2, <1>3 DEF LookupInv

LEMMA LookupInductive ==
  ASSUME ~ FaultsAllowed PROVE Spec => []LookupInv
<1>1. Init => LookupInv
  BY InitLedInv, InitTypes, InitV1, InitFindInv DEF LookupInv
<1>2. LookupInv /\ [Next]_vars => LookupInv'
  BY LookupStep
<1> QED
  BY <1>1, <1>2, PTL DEF Spec

\* With V1 and fixed channels a lookup finds the drive that is installed, for any
\* drives and channels, however often they were moved before it began
\* (findChannelByDriveSN()).
THEOREM InstalledIsFound ==
  ASSUME Given PROVE Spec => FindsInstalled
<1> DEFINE Found == proto = "V1" => ~ Misses
<1>1. LookupInv /\ [Next]_vars => Found
  BY LookupStep DEF Given, Hits, Sure, Misses
<1>2. FindsInstalled <=> [][Found]_vars
  BY DEF FindsInstalled
<1> HIDE DEF Found
<1> QED
  BY <1>1, <1>2, LookupInductive, PTL DEF Spec, Given

\* With either protocol the lookup after one that has met an outdated row finds
\* its drive, also when the channels were changed in between.
THEOREM RetryFinds ==
  ASSUME ~ FaultsAllowed PROVE Spec => FindsOnRetry
<1> DEFINE Found == pass.forced => ~ Misses
<1>1. LookupInv /\ [Next]_vars => Found
  BY LookupStep DEF Hits, Sure, Misses
<1>2. FindsOnRetry <=> [][Found]_vars
  BY DEF FindsOnRetry
<1> HIDE DEF Found
<1> QED
  BY <1>1, <1>2, LookupInductive, PTL DEF Spec
=============================================================================
