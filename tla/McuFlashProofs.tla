-------------------------- MODULE McuFlashProofs ---------------------------
(* Proofs about McuFlash, for any number of updaters and packages, and for *)
(* images, retries and faults of any number.                               *)
EXTENDS McuFlash, TLAPS

USE SizeAssumption, ProtoAssumption, NameAssumption

\* Nothing has happened behind the back of a process that talks V1.
Undisturbed(p) == proto = "V1" /\ boots[p] = 0 /\ p \notin astray

\* What a process has written so far, and that the location is the one it set.
Placed(p) ==
  /\ phase[p] \in {"starting", "query", "erase"} => next[p] = 1
  /\ Undisturbed(p) /\ phase[p] \in {"locate", "write", "verify"} =>
       \A c \in Chunk : c < next[p] => flash[c] = Piece(image[p], c)
  /\ Undisturbed(p) /\ phase[p] \in {"write", "verify"} => location = next[p]
  /\ Undisturbed(p) /\ phase[p] = "reboot" =>
       \A c \in Chunk : (p \in short => c < next[p]) => flash[c] = Piece(image[p], c)

\* Having told the MCU to reboot, a process waits until it has done so.
Told(p) ==
  /\ phase[p] = "told" => mcu = "told"
  /\ phase[p] \in {"ping", "check"} => boots[p] > 0

\* A ping is left while the process waits.
Patient(p) == phase[p] \notin {"idle", "check"} => pings[p] < MaxPings

\* Who is going to clean up a flash that is not erased.
Cleaner ==
  flash # Erased /\ ~ cut => (\E p \in Process : phase[p] \in Writing) \/ mcu = "told"

\* While the service starts reflash is alone, and then only it runs, with the
\* image of the board's definition.
Alone ==
  /\ starting => \A u \in Updater : phase[u] = "idle"
  /\ phase[Reflasher] # "idle" => starting
  /\ image[Reflasher] = Factory

\* What has become of the image that reflash has written.
Taken ==
  proto = "V1" /\ Reflasher \notin astray =>
    /\ phase[Reflasher] = "told" /\ boots[Reflasher] = 0 => Complete(Factory)
    /\ phase[Reflasher] \in {"ping", "check"} /\ boots[Reflasher] = 1 => fw = Factory

FlashInv ==
  /\ TypeOK /\ Alone /\ Taken /\ Cleaner
  /\ \A p \in Process : Placed(p) /\ Told(p) /\ Patient(p)

-----------------------------------------------------------------------------
(* Types *)

\* The values the counters start from.
LEMMA Zeros ==
  /\ 1 \in Chunk /\ 0 \in 0 .. VerifyTries - 1 /\ 0 \in 0 .. MaxPings
  /\ 0 \in 0 .. 2 /\ 0 < MaxPings /\ Reflasher \in Process /\ Factory \in Image
  BY DEF Chunk, Process, Image

LEMMA Steps ==
  /\ {"idle", "starting", "query", "erase", "locate", "write", "verify", "abort", "reboot",
      "told", "ping", "check"} = Phase
  /\ FirstTransfer \in Phase
  BY DEF Phase, Writing, FirstTransfer

LEMMA TransferType ==
  ASSUME LocalOK, NEW p \in Process, NEW step \in Phase, NEW led \in SUBSET Process,
         Transfer(p, step, led)
  PROVE  LocalOK'
  BY DEF LocalOK, Transfer

LEMMA RenewType ==
  ASSUME LocalOK, NEW p \in Process, NEW step \in Phase, NEW how \in Result,
         NEW erase \in BOOLEAN, Renew(p, step, how, erase)
  PROVE  LocalOK'
  BY Zeros DEF LocalOK, Renew, Result

LEMMA EndType ==
  ASSUME LocalOK, NEW p \in Process, NEW how \in Result, End(p, how)
  PROVE  LocalOK'
  BY RenewType, Steps DEF End

LEMMA AcceptedType ==
  ASSUME LocalOK, NEW p \in Process, Accepted(p)
  PROVE  LocalOK'
<1>1. phase' \in [Process -> Phase]
  BY Steps DEF LocalOK, Accepted
<1>2. next' \in [Process -> Chunk]
  BY DEF LocalOK, Accepted, Chunk
<1>3. tries' \in [Process -> 0 .. VerifyTries - 1]
  BY Zeros DEF LocalOK, Accepted
<1> QED
  BY <1>1, <1>2, <1>3 DEF LocalOK, Accepted

LEMMA GoType ==
  ASSUME LocalOK, NEW p \in Process, NEW step \in Phase, Go(p, step)
  PROVE  LocalOK'
  BY TransferType DEF Go

\* Faults and their absence keep the counter in its bound.
LEMMA FaultBound ==
  ASSUME faults \in 0 .. MaxFaults, Faulty \/ NoFault
  PROVE  faults' \in 0 .. MaxFaults
  BY DEF Faulty, NoFault

LEMMA WriteType ==
  ASSUME TypeOK, NEW p \in Process, NEW l \in Chunk,
         flash' \in {flash, [flash EXCEPT ![l] = Programmed(@, Bytes(p))],
                     [flash EXCEPT ![l] = Garbage]}
  PROVE  flash' \in [Chunk -> Cell]
<1>1. Bytes(p) \in Cell /\ Garbage \in Cell
  BY Zeros DEF TypeOK, LocalOK, Cell, Bytes, Piece, Garbage
<1>2. Programmed(flash[l], Bytes(p)) \in Cell
  BY <1>1 DEF Programmed
<1> QED
  BY <1>1, <1>2 DEF TypeOK, BoardOK

LEMMA PlaceType == ASSUME TypeOK, NEW p \in Process PROVE Place(p) \in Chunk
  BY DEF TypeOK, BoardOK, LocalOK, Place

\* Every transfer, and what ends or begins with it, keeps the types.
LEMMA WriterType ==
  ASSUME TypeOK, NEW p \in Process, Patient(p), Writer(p)
  PROVE  TypeOK'
<1> USE DEF TypeOK
<1>0. faults \in 0 .. MaxFaults /\ "failed" \in Result /\ Busy \subseteq Process
      /\ Others(p) \subseteq Process
  BY DEF Result, Busy, Others
<1>1. CASE Locate(p)
  <2>1. LocalOK'
    BY <1>0, <1>1, TransferType, GoType, Steps DEF Locate
  <2>2. location' \in Chunk
    BY <1>1 DEF Locate, BoardOK, LocalOK
  <2> QED
    BY <1>0, <1>1, <2>1, <2>2, FaultBound DEF Locate, BoardOK
<1>2. CASE Write(p)
  <2>1. LocalOK'
    BY <1>0, <1>2, TransferType, GoType, Steps DEF Write
  <2>2. flash' \in [Chunk -> Cell]
    BY <1>2, PlaceType, WriteType DEF Write
  <2> QED
    BY <1>0, <1>2, <2>1, <2>2, FaultBound DEF Write, BoardOK
<1>3. CASE VerifyV1(p)
  <2>1. LocalOK'
    BY <1>3, AcceptedType, GoType, Steps DEF VerifyV1
  <2> QED
    BY <1>0, <1>3, <2>1, FaultBound DEF VerifyV1, BoardOK, board
<1>4. CASE VerifyV0(p)
  <2>1. ASSUME Accepted(p) \/ Go(p, "abort") PROVE LocalOK'
    BY <2>1, AcceptedType, GoType, Steps
  <2>2. ASSUME tries[p] + 1 < VerifyTries, tries' = [tries EXCEPT ![p] = @ + 1],
               UNCHANGED <<phase, force, next, pings, result, boots, astray, short>>
        PROVE  LocalOK'
    BY <2>2 DEF LocalOK
  <2>3. LocalOK'
    BY <1>4, <2>1, <2>2 DEF VerifyV0
  <2> QED
    BY <1>0, <1>4, <2>3, FaultBound DEF VerifyV0, BoardOK, board
<1>5. CASE Abort(p)
  <2>1. LocalOK'
    BY <1>0, <1>5, EndType DEF Abort
  <2> QED
    BY <1>0, <1>5, <2>1, FaultBound DEF Abort, Reboot, BoardOK
<1>6. CASE RebootIntoImage(p)
  <2>1. LocalOK'
    BY <1>0, <1>6, EndType, GoType, Steps DEF RebootIntoImage, Reboot
  <2> QED
    BY <1>0, <1>6, <2>1, FaultBound DEF RebootIntoImage, Reboot, BoardOK
<1>7. CASE Ping(p)
  <2>1. ASSUME Go(p, "check") PROVE LocalOK'
    BY <2>1, GoType, Steps
  <2>2. ASSUME pings' = [pings EXCEPT ![p] = @ + 1],
               phase' = [phase EXCEPT ![p] = IF pings'[p] = MaxPings THEN "check" ELSE "ping"],
               UNCHANGED <<force, next, tries, result, boots, astray, short>>
        PROVE  LocalOK'
    BY <1>7, <2>2, Steps DEF LocalOK, Patient, Ping
  <2>3. LocalOK'
    BY <1>7, <2>1, <2>2 DEF Ping
  <2> QED
    BY <1>0, <1>7, <2>3, FaultBound DEF Ping, BoardOK, board
<1> QED
  BY <1>1, <1>2, <1>3, <1>4, <1>5, <1>6, <1>7 DEF Writer

\* Every step keeps the types; the pings stay in their bound because the last
\* one ends the waiting.
LEMMA NextFlashType ==
  ASSUME TypeOK, \A p \in Process : Patient(p), [Next]_vars
  PROVE  TypeOK'
<1> USE DEF TypeOK
<1>0. faults \in 0 .. MaxFaults /\ {"failed", "ok", "flashed", "skipped"} \subseteq Result
      /\ \A u \in Updater : u \in Process
  BY DEF Result, Process
<1>1. ASSUME NEW p \in Process, Writer(p) PROVE TypeOK'
  BY <1>1, WriterType
<1>2. ASSUME NEW u \in Updater, NEW img \in Package, NEW erase \in BOOLEAN, Start(u, img, erase)
      PROVE  TypeOK'
  <2>1. LocalOK'
    BY <1>0, <1>2, RenewType, Steps DEF Start, Begin, Result
  <2> QED
    BY <1>0, <1>2, <2>1, FaultBound DEF Start, Begin, BoardOK, board, Image
<1>3. ASSUME NEW u \in Updater, Query(u) PROVE TypeOK'
  <2>1. LocalOK'
    BY <1>0, <1>3, EndType, GoType, Steps DEF Query
  <2> QED
    BY <1>0, <1>3, <2>1, FaultBound DEF Query, BoardOK, board
<1>4. ASSUME NEW u \in Updater, Erase(u) PROVE TypeOK'
  <2>1. Others(u) \subseteq Process
    BY DEF Others, Busy
  <2>2. LocalOK'
    BY <1>0, <1>4, <2>1, EndType, TransferType, Steps DEF Erase
  <2>3. flash' \in [Chunk -> Cell]
    BY <1>4, Zeros DEF Erase, Erased, Blank, Piece, Cell, BoardOK
  <2> QED
    BY <1>0, <1>4, <2>2, <2>3, FaultBound DEF Erase, BoardOK
<1>5. ASSUME NEW u \in Updater, Check(u) PROVE TypeOK'
  <2>1. LocalOK'
    BY <1>0, <1>5, EndType DEF Check
  <2> QED
    BY <1>0, <1>5, <2>1, FaultBound DEF Check, BoardOK, board
<1>6. ASSUME NEW u \in Updater, Kill(u) PROVE TypeOK'
  <2>1. LocalOK'
    BY <1>0, <1>6, EndType DEF Kill
  <2> QED
    BY <1>0, <1>6, <2>1, FaultBound DEF Kill, BoardOK, board
<1>14. ASSUME NEW u \in Updater, ReadsShort(u) PROVE TypeOK'
  <2>1. LocalOK'
    BY <1>0, <1>14, Steps DEF ReadsShort, LocalOK
  <2> QED
    BY <1>0, <1>14, <2>1, FaultBound DEF ReadsShort, BoardOK, board
<1>7. ASSUME NEW found \in BOOLEAN, NEW version \in BOOLEAN, Reflash(found, version)
      PROVE  TypeOK'
  <2>1. LocalOK'
    <3>1. CASE End(Reflasher, "skipped")
      BY <1>0, <3>1, EndType, Zeros
    <3>2. CASE Begin(Reflasher, Factory, FirstTransfer, FALSE)
      BY <3>2, RenewType, Steps, Zeros DEF Begin, Result
    <3> QED
      BY <1>7, <3>1, <3>2 DEF Reflash
  <2>2. image' \in [Process -> Image]
    BY <1>7, Zeros DEF Reflash, Begin
  <2> QED
    BY <1>0, <1>7, <2>1, <2>2, FaultBound DEF Reflash, BoardOK, board
<1>8. CASE Reflashed
  <2>1. LocalOK'
    BY <1>0, <1>8, EndType, Zeros DEF Reflashed
  <2> QED
    BY <1>8, <2>1 DEF Reflashed, BoardOK, board
<1>9. CASE ManagerStarts
  BY <1>9 DEF ManagerStarts, BoardOK, LocalOK, board, Result
<1>10. CASE ServiceStarts
  <2>1. LocalOK'
    BY <1>10, Zeros, Steps DEF ServiceStarts, LocalOK, Result
  <2> QED
    BY <1>0, <1>10, <2>1, FaultBound, Zeros DEF ServiceStarts, BoardOK, board
<1>11. CASE BootLoader
  <2>1. fw' \in Image /\ flash' \in [Chunk -> Cell] /\ location' \in Chunk
    BY <1>11, Zeros DEF BootLoader, Erased, Blank, Piece, Cell, BoardOK, Anywhere
  <2>2. LocalOK'
    BY <1>11, Steps DEF BootLoader, LocalOK
  <2> QED
    BY <1>11, <2>1, <2>2 DEF BootLoader, BoardOK
<1>12. CASE Boots
  BY <1>12 DEF Boots, BoardOK, LocalOK, local
<1>13. CASE UNCHANGED vars
  BY <1>13 DEF vars, BoardOK, LocalOK, local, board
<1> QED
  BY <1>1, <1>2, <1>3, <1>4, <1>5, <1>6, <1>7, <1>8, <1>9, <1>10, <1>11, <1>12, <1>13, <1>14,
     Zeros, <1>0 DEF Next, Updates, Starts, Reflashes

-----------------------------------------------------------------------------
(* What a step of a process leaves alone *)

\* A step of a process that has begun and has not ended.
Move(p) ==
  \/ Writer(p)
  \/ p \in Updater /\ (Query(p) \/ Erase(p) \/ ReadsShort(p) \/ Check(p) \/ Kill(p))
  \/ p = Reflasher /\ Reflashed

Frame(p) ==
  /\ \A q \in Process \ {p} : /\ phase'[q] = phase[q] /\ force'[q] = force[q]
                              /\ next'[q] = next[q] /\ pings'[q] = pings[q]
                              /\ result'[q] = result[q] /\ boots'[q] = boots[q]
                              /\ q \in astray => q \in astray'
                              /\ q \in short' <=> q \in short
  /\ mcu' \in {mcu, "told"} /\ UNCHANGED <<proto, fw, starting, image>>

LEMMA LocalFrame ==
  ASSUME LocalOK, NEW p \in Process, NEW step, NEW led, NEW how, NEW erase,
         Transfer(p, step, led) \/ Renew(p, step, how, erase) \/ Accepted(p)
  PROVE  \A q \in Process \ {p} : /\ phase'[q] = phase[q] /\ force'[q] = force[q]
                                  /\ next'[q] = next[q] /\ pings'[q] = pings[q]
                                  /\ result'[q] = result[q] /\ boots'[q] = boots[q]
                                  /\ q \in astray => q \in astray'
                                  /\ q \in short' <=> q \in short
<1>1. CASE Transfer(p, step, led)
  BY <1>1 DEF LocalOK, Transfer
<1>2. CASE Renew(p, step, how, erase)
  BY <1>2 DEF LocalOK, Renew
<1>3. CASE Accepted(p)
  BY <1>3 DEF LocalOK, Accepted
<1> QED
  BY <1>1, <1>2, <1>3

LEMMA MoveFrame ==
  ASSUME TypeOK, NEW p \in Process, Move(p)
  PROVE  Frame(p) /\ phase[p] # "idle"
<1> USE DEF TypeOK, Frame, board
<1>1. CASE Locate(p)
  BY <1>1, LocalFrame DEF Locate, Go
<1>2. CASE Write(p)
  BY <1>2, LocalFrame DEF Write, Go
<1>3. CASE VerifyV1(p)
  BY <1>3, LocalFrame DEF VerifyV1, Go
<1>4. CASE VerifyV0(p)
  <2>1. CASE Accepted(p) \/ Go(p, "abort")
    BY <1>4, <2>1, LocalFrame DEF VerifyV0, Go
  <2>2. CASE /\ tries' = [tries EXCEPT ![p] = @ + 1]
             /\ UNCHANGED <<phase, force, next, pings, result, boots, astray, short>>
    BY <1>4, <2>2 DEF VerifyV0
  <2> QED
    BY <1>4, <2>1, <2>2 DEF VerifyV0
<1>5. CASE Abort(p)
  BY <1>5, LocalFrame DEF Abort, Reboot, End
<1>6. CASE RebootIntoImage(p)
  BY <1>6, LocalFrame DEF RebootIntoImage, Reboot, End, Go
<1>7. CASE Ping(p)
  <2>1. CASE Go(p, "check")
    BY <1>7, <2>1, LocalFrame DEF Ping, Go
  <2>2. CASE /\ pings' = [pings EXCEPT ![p] = @ + 1]
             /\ phase' = [phase EXCEPT ![p] = IF pings'[p] = MaxPings THEN "check" ELSE "ping"]
             /\ UNCHANGED <<force, next, tries, result, boots, astray, short>>
    BY <1>7, <2>2 DEF Ping, LocalOK
  <2> QED
    BY <1>7, <2>1, <2>2 DEF Ping
<1>8. CASE Query(p)
  BY <1>8, LocalFrame DEF Query, Go, End
<1>9. CASE Erase(p)
  BY <1>9, LocalFrame DEF Erase, End
<1>10. CASE Check(p)
  BY <1>10, LocalFrame DEF Check, End
<1>11. CASE Kill(p)
  BY <1>11, LocalFrame DEF Kill, End
<1>12. CASE p = Reflasher /\ Reflashed
  BY <1>12, LocalFrame DEF Reflashed, End
<1>13. CASE p \in Updater /\ ReadsShort(p)
  BY <1>13 DEF ReadsShort, FirstTransfer, LocalOK
<1> QED
  BY <1>1, <1>2, <1>3, <1>4, <1>5, <1>6, <1>7, <1>8, <1>9, <1>10, <1>11, <1>12, <1>13
  DEF Move, Writer

\* A process that writes and is not led astray finds flash and location as it
\* left them.
LEMMA Spared ==
  ASSUME TypeOK, NEW p \in Process, Move(p),
         NEW q \in Process \ {p}, phase[q] \in Writing, q \notin astray'
  PROVE  UNCHANGED <<flash, location>>
<1>0. q \in Others(p) /\ q \in Busy
  BY DEF Others, Busy
<1>1. CASE Locate(p)
  BY <1>0, <1>1 DEF Locate, Transfer
<1>2. CASE Write(p)
  BY <1>0, <1>2 DEF Write, Transfer
<1>3. CASE Erase(p)
  BY <1>0, <1>3 DEF Erase, Transfer
<1>4. CASE \/ VerifyV1(p) \/ VerifyV0(p) \/ Ping(p) \/ Query(p) \/ ReadsShort(p)
           \/ Check(p) \/ Kill(p) \/ Reflashed
  BY <1>4 DEF VerifyV1, VerifyV0, Ping, Query, ReadsShort, Check, Kill, Reflashed, board
<1>5. CASE Abort(p) \/ RebootIntoImage(p)
  BY <1>5 DEF Abort, RebootIntoImage
<1> QED
  BY <1>1, <1>2, <1>3, <1>4, <1>5 DEF Move, Writer

\* The next step is that of a process that runs, or one of these.
LEMMA NextCases ==
  ASSUME Next
  PROVE  \/ \E p \in Process : Move(p)
         \/ \E u \in Updater, img \in Package, erase \in BOOLEAN : Start(u, img, erase)
         \/ \E found, version \in BOOLEAN : Reflash(found, version)
         \/ ManagerStarts \/ ServiceStarts \/ BootLoader \/ Boots
  BY Zeros DEF Next, Updates, Starts, Reflashes, Move, Process

-----------------------------------------------------------------------------
(* The inductive invariant *)

LEMMA InitFlashInv == Init => FlashInv
<1> SUFFICES ASSUME Init PROVE FlashInv
  OBVIOUS
<1>1. BoardOK
  <2>1. flash \in [Chunk -> Cell]
    BY Zeros DEF Init, Erased, Blank, Piece, Cell
  <2>2. location \in Chunk
    BY Zeros DEF Init, Anywhere
  <2> QED
    BY <2>1, <2>2 DEF Init, BoardOK
<1>2. LocalOK
  BY Zeros, Steps DEF Init, LocalOK, Result
<1>3. TypeOK
  <2>1. faults \in 0 .. MaxFaults
    BY DEF Init
  <2>2. image \in [Process -> Image] /\ starting \in BOOLEAN /\ cut \in BOOLEAN
    BY Zeros DEF Init
  <2> QED
    BY <1>1, <1>2, <2>1, <2>2 DEF TypeOK
<1>4. ASSUME NEW p \in Process PROVE Placed(p) /\ Told(p) /\ Patient(p)
  BY Zeros DEF Init, Placed, Told, Patient
<1>5. Alone /\ Taken /\ Cleaner
  BY Zeros DEF Init, Alone, Taken, Cleaner, Process
<1> QED
  BY <1>3, <1>4, <1>5 DEF FlashInv

\* While the service starts nothing but reflash runs.
LEMMA NextAlone ==
  ASSUME TypeOK, Alone, [Next]_vars
  PROVE  Alone'
<1> USE DEF TypeOK, LocalOK, Alone
<1>0. Reflasher \in Process /\ \A u \in Updater : u \in Process /\ u # Reflasher
  BY Zeros DEF Process
<1>1. ASSUME NEW p \in Process, Move(p) PROVE Alone'
  <2>1. Frame(p) /\ phase[p] # "idle"
    BY <1>1, MoveFrame
  <2>2. CASE p = Reflasher
    BY <1>0, <2>1, <2>2 DEF Frame
  <2>3. CASE p \in Updater
    BY <1>0, <2>1, <2>3 DEF Frame
  <2> QED
    BY <2>2, <2>3 DEF Process
<1>2. ASSUME NEW u \in Updater, NEW img \in Package, NEW erase \in BOOLEAN, Start(u, img, erase)
      PROVE  Alone'
  BY <1>0, <1>2 DEF Start, Begin, Renew
<1>3. ASSUME NEW found \in BOOLEAN, NEW version \in BOOLEAN, Reflash(found, version)
      PROVE  Alone'
  BY <1>0, <1>3 DEF Reflash, Begin, Renew, End
<1>4. CASE ManagerStarts
  BY <1>0, <1>4 DEF ManagerStarts
<1>5. CASE ServiceStarts
  BY <1>0, <1>5 DEF ServiceStarts
<1>6. CASE BootLoader
  BY <1>0, <1>6 DEF BootLoader
<1>7. CASE Boots \/ UNCHANGED vars
  BY <1>7 DEF Boots, vars, local
<1> QED
  BY <1>1, <1>2, <1>3, <1>4, <1>5, <1>6, <1>7, NextCases

\* Every step leaves a ping to a process that waits.
LEMMA NextPatient ==
  ASSUME TypeOK, NEW q \in Process, Patient(q), [Next]_vars
  PROVE  Patient(q)'
<1> USE DEF TypeOK, LocalOK, Patient
<1>0. Reflasher \in Process /\ Updater \subseteq Process
  BY Zeros DEF Process
<1>1. ASSUME NEW p \in Process, Move(p) PROVE Patient(q)'
  <2>1. CASE p # q
    BY <1>1, <2>1, MoveFrame DEF Frame
  <2>2. CASE p = q /\ Ping(p)
    BY <2>2 DEF Ping, Go, Transfer
  <2>3. CASE p = q /\ (VerifyV1(p) \/ VerifyV0(p))
    BY <2>3 DEF VerifyV1, VerifyV0, Accepted, Go, Transfer
  <2>4. CASE p = q /\ (Locate(p) \/ Write(p) \/ Query(p) \/ Erase(p) \/ ReadsShort(p))
    BY <2>4 DEF Locate, Write, Query, Erase, ReadsShort, Go, Transfer, End, Renew, FirstTransfer
  <2>5. CASE p = q /\ (Abort(p) \/ RebootIntoImage(p) \/ Check(p) \/ Kill(p) \/ Reflashed)
    BY <2>5, <1>1, Zeros DEF Abort, RebootIntoImage, Check, Kill, Reflashed, Reboot, Go, Transfer,
       End, Renew
  <2> QED
    BY <1>1, <2>1, <2>2, <2>3, <2>4, <2>5 DEF Move, Writer
<1>2. ASSUME NEW u \in Updater, NEW img \in Package, NEW erase \in BOOLEAN, Start(u, img, erase)
      PROVE  Patient(q)'
  BY <1>0, <1>2, Zeros DEF Start, Begin, Renew
<1>3. ASSUME NEW found \in BOOLEAN, NEW version \in BOOLEAN, Reflash(found, version)
      PROVE  Patient(q)'
  BY <1>0, <1>3, Zeros DEF Reflash, Begin, Renew, End
<1>4. CASE ManagerStarts \/ ServiceStarts \/ BootLoader \/ Boots \/ UNCHANGED vars
  BY <1>4, Zeros DEF ManagerStarts, ServiceStarts, BootLoader, Boots, vars, local
<1> QED
  BY <1>1, <1>2, <1>3, <1>4, NextCases

\* Every step leaves a process that waits with an MCU told to reboot.
LEMMA NextTold ==
  ASSUME TypeOK, NEW q \in Process, Told(q), [Next]_vars
  PROVE  Told(q)'
<1> USE DEF TypeOK, BoardOK, LocalOK, Told
<1>0. Reflasher \in Process /\ Updater \subseteq Process
  BY Zeros DEF Process
<1>1. ASSUME NEW p \in Process, Move(p) PROVE Told(q)'
  <2>1. CASE p # q
    BY <1>1, <2>1, MoveFrame DEF Frame
  <2>2. CASE p = q /\ Ping(p)
    BY <2>2 DEF Ping, Go, Transfer, board
  <2>3. CASE p = q /\ (VerifyV1(p) \/ VerifyV0(p))
    BY <2>3 DEF VerifyV1, VerifyV0, Accepted, Go, Transfer, FirstTransfer
  <2>4. CASE p = q /\ (Locate(p) \/ Write(p) \/ Query(p) \/ Erase(p) \/ ReadsShort(p))
    BY <2>4 DEF Locate, Write, Query, Erase, ReadsShort, Go, Transfer, End, Renew, FirstTransfer
  <2>5. CASE p = q /\ (Abort(p) \/ Check(p) \/ Kill(p) \/ (p = Reflasher /\ Reflashed))
    BY <2>5 DEF Abort, Check, Kill, Reflashed, End, Renew
  <2>6. CASE p = q /\ RebootIntoImage(p)
    BY <2>6 DEF RebootIntoImage, Reboot, Go, Transfer, End, Renew
  <2> QED
    BY <1>1, <2>1, <2>2, <2>3, <2>4, <2>5, <2>6 DEF Move, Writer
<1>2. ASSUME NEW u \in Updater, NEW img \in Package, NEW erase \in BOOLEAN, Start(u, img, erase)
      PROVE  Told(q)'
  BY <1>0, <1>2 DEF Start, Begin, Renew, board
<1>3. ASSUME NEW found \in BOOLEAN, NEW version \in BOOLEAN, Reflash(found, version)
      PROVE  Told(q)'
  BY <1>0, <1>3 DEF Reflash, Begin, Renew, End, board, FirstTransfer
<1>4. CASE BootLoader
  BY <1>4 DEF BootLoader
<1>5. CASE ManagerStarts \/ ServiceStarts \/ Boots \/ UNCHANGED vars
  BY <1>5 DEF ManagerStarts, ServiceStarts, Boots, vars, local, board
<1> QED
  BY <1>1, <1>2, <1>3, <1>4, <1>5, NextCases

\* Every step leaves someone to clean up.
LEMMA NextCleaner ==
  ASSUME TypeOK, Cleaner, [Next]_vars
  PROVE  Cleaner'
<1> USE DEF TypeOK, BoardOK, LocalOK, Cleaner
<1>0. Reflasher \in Process /\ Updater \subseteq Process
  BY Zeros DEF Process
<1>1. ASSUME NEW p \in Process, Move(p) PROVE Cleaner'
  <2>0. Frame(p)
    BY <1>1, MoveFrame
  <2>1. ASSUME NEW q \in Process \ {p}, phase[q] \in Writing PROVE Cleaner'
    BY <2>0, <2>1 DEF Frame
  <2>2. CASE mcu = "told"
    BY <2>0, <2>2 DEF Frame
  <2>3. CASE Locate(p) \/ Write(p) \/ ReadsShort(p) \/ VerifyV1(p) \/ VerifyV0(p)
    <3>1. phase'[p] \in Writing
      BY <2>3 DEF Locate, Write, ReadsShort, VerifyV1, VerifyV0, Go, Transfer, Accepted,
         FirstTransfer, Writing
    <3> QED
      BY <3>1
  <2>4. CASE Abort(p) \/ RebootIntoImage(p)
    BY <2>4 DEF Abort, RebootIntoImage, Reboot
  <2>5. CASE Erase(p)
    <3>1. CASE flash' = Erased
      BY <3>1 DEF Erased
    <3>2. CASE UNCHANGED <<flash, cut, mcu>> /\ phase[p] \notin Writing
      BY <2>1, <2>2, <3>2
    <3> QED
      BY <2>5, <3>1, <3>2 DEF Erase, Writing
  <2>6. CASE Kill(p)
    BY <2>6 DEF Kill
  <2>7. CASE Ping(p) \/ Query(p) \/ Check(p) \/ (p = Reflasher /\ Reflashed)
    <3>1. UNCHANGED <<flash, cut, mcu>> /\ phase[p] \notin Writing
      BY <2>7 DEF Ping, Query, Check, Reflashed, board, Writing
    <3> QED
      BY <2>1, <2>2, <3>1 DEF Erased
  <2> QED
    BY <1>1, <2>3, <2>4, <2>5, <2>6, <2>7 DEF Move, Writer
<1>2. ASSUME NEW u \in Updater, NEW img \in Package, NEW erase \in BOOLEAN, Start(u, img, erase)
      PROVE  Cleaner'
  BY <1>0, <1>2 DEF Start, Begin, Renew, board, Writing, Erased
<1>3. ASSUME NEW found \in BOOLEAN, NEW version \in BOOLEAN, Reflash(found, version)
      PROVE  Cleaner'
  BY <1>0, <1>3 DEF Reflash, Begin, Renew, End, board, Writing, Erased
<1>4. CASE ServiceStarts
  BY <1>4 DEF ServiceStarts, board, Writing, Erased
<1>5. CASE BootLoader
  BY <1>5 DEF BootLoader, Erased
<1>6. CASE ManagerStarts \/ Boots \/ UNCHANGED vars
  BY <1>6 DEF ManagerStarts, Boots, vars, local, board, Erased
<1> QED
  BY <1>1, <1>2, <1>3, <1>4, <1>5, <1>6, NextCases

\* Every step leaves the chunks that a process has written, unless another one
\* comes in between.
LEMMA NextPlaced ==
  ASSUME TypeOK, NEW q \in Process, Placed(q), [Next]_vars
  PROVE  Placed(q)'
<1> USE DEF TypeOK, BoardOK, LocalOK, Placed, Undisturbed, Complete
<1>0. Reflasher \in Process /\ Updater \subseteq Process
  BY Zeros DEF Process
<1>1. ASSUME NEW p \in Process, p # q, Move(p) PROVE Placed(q)'
  <2>1. Frame(p)
    BY <1>1, MoveFrame
  <2>2. CASE phase[q] \in Writing /\ q \notin astray'
    <3>1. UNCHANGED <<flash, location>>
      BY <1>1, <2>2, Spared
    <3> QED
      BY <1>1, <2>1, <3>1 DEF Frame
  <2>3. CASE phase[q] \notin Writing \/ q \in astray'
    BY <1>1, <2>1, <2>3 DEF Frame, Writing
  <2> QED
    BY <2>2, <2>3
<1>2. CASE Move(q)
  <2>1. CASE Locate(q)
    BY <2>1 DEF Locate, Go, Transfer, Busy, Writing
  <2>2. CASE Write(q)
    <3>1. CASE phase'[q] = "abort"
      BY <2>2, <3>1
    <3>2. CASE phase'[q] # "abort"
      <4>1. phase'[q] = "verify" /\ Transfer(q, "verify", Others(q))
        BY <2>2, <3>2 DEF Write, Go, Transfer
      <4>2. Undisturbed(q)' => Undisturbed(q)
        BY <2>2, <4>1 DEF Write, Transfer
      <4>3. ASSUME Undisturbed(q), NEW c \in Chunk, c < next[q] PROVE flash'[c] = flash[c]
        <5>1. Place(q) = next[q] /\ next[q] \in Chunk /\ next[q] # c
          BY <2>2, <4>3 DEF Write, Place, Chunk
        <5>2. flash' \in {[flash EXCEPT ![Place(q)] = Programmed(@, Bytes(q))],
                          [flash EXCEPT ![Place(q)] = Garbage]}
          BY <2>2, <3>2 DEF Write, Go, Transfer
        <5> QED
          BY <4>3, <5>1, <5>2
      <4> QED
        BY <2>2, <4>1, <4>2, <4>3 DEF Write, Transfer
    <3> QED
      BY <3>1, <3>2
  <2>3. CASE VerifyV1(q)
    <3>1. CASE Go(q, "abort")
      BY <2>3, <3>1 DEF VerifyV1, Go, Transfer
    <3>2. ASSUME Accepted(q), flash[location] = Bytes(q) PROVE Placed(q)'
      <4>1. Undisturbed(q)' => Undisturbed(q) /\ flash[next[q]] = Bytes(q)
        BY <2>3, <3>2 DEF VerifyV1, Accepted, board
      <4>2. CASE next[q] = NumChunks \/ q \in short
        <5>1. phase'[q] = "reboot" /\ UNCHANGED <<flash, image, next, short>>
          BY <2>3, <3>2, <4>2 DEF VerifyV1, Accepted, board
        <5>2. \A c \in Chunk : q \notin short => c < next[q] \/ c = next[q]
          BY <4>2 DEF Chunk
        <5>3. ASSUME Undisturbed(q)', NEW c \in Chunk, q \in short' => c < next'[q]
              PROVE  flash'[c] = Piece(image'[q], c)
          <6>1. /\ \A d \in Chunk : d < next[q] => flash[d] = Piece(image[q], d)
                /\ flash[next[q]] = Bytes(q)
            BY <2>3, <4>1, <5>3 DEF VerifyV1
          <6>2. c < next[q] \/ (q \notin short /\ c = next[q])
            BY <5>1, <5>2, <5>3
          <6> QED
            BY <5>1, <6>1, <6>2 DEF Bytes
        <5> QED
          BY <5>1, <5>3
      <4>3. CASE next[q] # NumChunks /\ q \notin short
        <5>1. /\ phase'[q] \in {"locate", "write"} /\ next'[q] = next[q] + 1
              /\ UNCHANGED <<flash, image, proto>>
          BY <2>3, <3>2, <4>3 DEF VerifyV1, Accepted, board, FirstTransfer
        <5>2. \A c \in Chunk : c < next'[q] => c < next[q] \/ c = next[q]
          BY <5>1 DEF Chunk
        <5>3. Undisturbed(q)' => phase'[q] = "locate"
          BY <2>3, <3>2, <4>3 DEF VerifyV1, Accepted, board, FirstTransfer
        <5>4. ASSUME Undisturbed(q)', NEW c \in Chunk, c < next'[q] PROVE flash'[c] = Piece(image'[q], c)
          <6>1. /\ \A d \in Chunk : d < next[q] => flash[d] = Piece(image[q], d)
                /\ flash[next[q]] = Bytes(q)
            BY <2>3, <4>1, <5>4 DEF VerifyV1
          <6> QED
            BY <4>3, <5>1, <5>2, <5>4, <6>1 DEF Bytes
        <5> QED
          BY <5>1, <5>3, <5>4
      <4> QED
        BY <4>2, <4>3
    <3> QED
      BY <2>3, <3>1, <3>2 DEF VerifyV1
  <2>4. CASE VerifyV0(q)
    <3>1. proto' = "V0" /\ phase'[q] \notin {"starting", "query", "erase"}
      BY <2>4 DEF VerifyV0, Accepted, Go, Transfer, board, FirstTransfer
    <3> QED
      BY <3>1
  <2>10. CASE ReadsShort(q)
    BY <2>10 DEF ReadsShort, FirstTransfer, board
  <2>5. CASE Query(q)
    BY <2>5 DEF Query, Go, Transfer, End, Renew, board, FirstTransfer, Chunk
  <2>6. CASE Erase(q)
    BY <2>6 DEF Erase, Transfer, End, Renew, FirstTransfer, Chunk
  <2>7. CASE Abort(q) \/ Check(q) \/ Kill(q) \/ (q = Reflasher /\ Reflashed)
    BY <2>7 DEF Abort, Check, Kill, Reflashed, End, Renew
  <2>8. CASE RebootIntoImage(q)
    BY <2>8 DEF RebootIntoImage, Reboot, Go, Transfer, End, Renew
  <2>9. CASE Ping(q)
    BY <2>9 DEF Ping, Go, Transfer
  <2> QED
    BY <1>2, <2>1, <2>2, <2>3, <2>4, <2>5, <2>6, <2>7, <2>8, <2>9, <2>10 DEF Move, Writer
<1>3. ASSUME NEW u \in Updater, NEW img \in Package, NEW erase \in BOOLEAN, Start(u, img, erase)
      PROVE  Placed(q)'
  BY <1>0, <1>3 DEF Start, Begin, Renew, board, Chunk
<1>4. ASSUME NEW found \in BOOLEAN, NEW version \in BOOLEAN, Reflash(found, version)
      PROVE  Placed(q)'
  BY <1>0, <1>4 DEF Reflash, Begin, Renew, End, board, Chunk, FirstTransfer
<1>5. CASE ServiceStarts
  BY <1>5 DEF ServiceStarts, board
<1>6. CASE BootLoader
  BY <1>6 DEF BootLoader
<1>7. CASE ManagerStarts \/ Boots \/ UNCHANGED vars
  BY <1>7 DEF ManagerStarts, Boots, vars, local, board
<1> QED
  BY <1>1, <1>2, <1>3, <1>4, <1>5, <1>6, <1>7, NextCases

\* Every step leaves the image that reflash has written until the MCU takes it.
LEMMA NextTaken ==
  ASSUME TypeOK, Alone, Placed(Reflasher), Told(Reflasher), Taken, [Next]_vars
  PROVE  Taken'
<1> USE DEF TypeOK, BoardOK, LocalOK, Taken
<1>0. Reflasher \in Process /\ Updater \subseteq Process /\ 1 \in Chunk
  BY Zeros DEF Process
<1>1. ASSUME NEW u \in Updater, Move(u) PROVE Taken'
  <2>1. phase[Reflasher] = "idle" /\ u # Reflasher
    BY <1>0, <1>1, MoveFrame DEF Alone
  <2> QED
    BY <1>0, <1>1, <2>1, MoveFrame DEF Frame
<1>2. CASE Move(Reflasher)
  <2>1. CASE RebootIntoImage(Reflasher)
    BY <1>0, <2>1 DEF RebootIntoImage, Reboot, Go, Transfer, End, Renew, Placed, Undisturbed,
       Complete, Alone
  <2>2. CASE Ping(Reflasher)
    BY <1>0, <2>2 DEF Ping, Go, Transfer, board
  <2>3. CASE VerifyV1(Reflasher) \/ VerifyV0(Reflasher)
    BY <1>0, <2>3 DEF VerifyV1, VerifyV0, Accepted, Go, Transfer, FirstTransfer
  <2>4. CASE Locate(Reflasher) \/ Write(Reflasher)
    BY <1>0, <2>4 DEF Locate, Write, Go, Transfer, End, Renew, FirstTransfer
  <2>5. CASE Abort(Reflasher) \/ Reflashed
    BY <1>0, <2>5 DEF Abort, Reflashed, End, Renew
  <2> QED
    BY <1>2, <2>1, <2>2, <2>3, <2>4, <2>5 DEF Move, Writer
<1>3. ASSUME NEW u \in Updater, NEW img \in Package, NEW erase \in BOOLEAN, Start(u, img, erase)
      PROVE  Taken'
  BY <1>0, <1>3 DEF Start, Begin, Renew, board, Complete
<1>4. ASSUME NEW found \in BOOLEAN, NEW version \in BOOLEAN, Reflash(found, version)
      PROVE  Taken'
  BY <1>0, <1>4 DEF Reflash, Begin, Renew, End, FirstTransfer
<1>5. CASE ServiceStarts
  BY <1>0, <1>5 DEF ServiceStarts
<1>6. CASE BootLoader
  <2>1. CASE proto = "V1" /\ Reflasher \notin astray /\ phase[Reflasher] = "told"
             /\ boots[Reflasher] = 0
    <3>1. Complete(Factory) /\ Factory \in Image
      BY <2>1, Zeros
    <3>2. \A img \in Image : Complete(img) => img = Factory
      BY <1>0, <3>1 DEF Complete, Piece
    <3>3. fw' = Factory
      BY <1>6, <3>1, <3>2 DEF BootLoader
    <3> QED
      BY <1>0, <1>6, <2>1, <3>3 DEF BootLoader
  <2>2. CASE ~ (proto = "V1" /\ Reflasher \notin astray /\ phase[Reflasher] = "told"
                /\ boots[Reflasher] = 0)
    BY <1>0, <1>6, <2>2 DEF BootLoader, Told
  <2> QED
    BY <2>1, <2>2
<1>7. CASE ManagerStarts \/ Boots \/ UNCHANGED vars
  BY <1>7 DEF ManagerStarts, Boots, vars, local, board, Complete
<1> QED
  BY <1>1, <1>2, <1>3, <1>4, <1>5, <1>6, <1>7, NextCases DEF Process

LEMMA FlashInductive == Spec => []FlashInv
<1>1. FlashInv /\ [Next]_vars => FlashInv'
  <2> SUFFICES ASSUME FlashInv, [Next]_vars PROVE FlashInv'
    OBVIOUS
  <2>1. TypeOK'
    BY NextFlashType DEF FlashInv
  <2>2. Alone' /\ Cleaner'
    BY NextAlone, NextCleaner DEF FlashInv
  <2>3. Taken'
    BY NextTaken, Zeros DEF FlashInv
  <2>4. ASSUME NEW p \in Process PROVE Placed(p)' /\ Told(p)' /\ Patient(p)'
    BY NextPlaced, NextTold, NextPatient DEF FlashInv
  <2> QED
    BY <2>1, <2>2, <2>3, <2>4 DEF FlashInv
<1> QED
  BY <1>1, InitFlashInv, PTL DEF Spec

-----------------------------------------------------------------------------
(* What the runs check, for every value of the constants *)

\* The type invariant holds in every state the processes and the MCU reach.
THEOREM FlashTypeCorrect == Spec => []TypeOK
  BY FlashInductive, PTL DEF FlashInv

\* Before the reboot command goes out to a V1 MCU the whole image is in its
\* flash, or all the chunks of it that could be read, unless somebody came in
\* between.
THEOREM CompleteImage == Spec => []CompleteWhenRebooted
<1>1. FlashInv => CompleteWhenRebooted
  BY DEF FlashInv, CompleteWhenRebooted, Placed, Undisturbed
<1> QED
  BY <1>1, FlashInductive, PTL

\* Processes that end clean up, or have told why they could not.
THEOREM CleanedUp == Spec => []LeftClean
<1>1. FlashInv => LeftClean
  BY DEF FlashInv, LeftClean, Cleaner, Writing
<1> QED
  BY <1>1, FlashInductive, PTL

\* A process ends only where the programs return, and not by what others do.
LEMMA EndsItself ==
  ASSUME FlashInv, [Next]_vars, NEW p \in Process, NEW how \in {"ok", "flashed"}, Ends(p, how)
  PROVE  \/ p \in Updater /\ how = "ok" /\ Check(p)
         \/ p = Reflasher /\ how = "flashed" /\ Reflashed
<1> USE DEF Ends, FlashInv, TypeOK, LocalOK
<1>1. ASSUME NEW q \in Process, Move(q), q # p PROVE FALSE
  BY <1>1, MoveFrame DEF Frame
<1>2. CASE Move(p)
  <2>1. CASE Locate(p) \/ Write(p) \/ VerifyV1(p) \/ VerifyV0(p) \/ Ping(p)
    BY <2>1 DEF Locate, Write, VerifyV1, VerifyV0, Ping, Go, Transfer, Accepted, FirstTransfer
  <2>2. CASE Abort(p) \/ RebootIntoImage(p)
    BY <2>2 DEF Abort, RebootIntoImage, Reboot, Go, Transfer, End, Renew
  <2>3. CASE p \in Updater /\ (Query(p) \/ Erase(p) \/ ReadsShort(p) \/ Kill(p))
    BY <2>3 DEF Query, Erase, ReadsShort, Kill, Go, Transfer, End, Renew, FirstTransfer
  <2>4. CASE p \in Updater /\ Check(p)
    BY <2>4 DEF Check, End, Renew
  <2>5. CASE p = Reflasher /\ Reflashed
    BY <2>5 DEF Reflashed, End, Renew
  <2> QED
    BY <1>2, <2>1, <2>2, <2>3, <2>4, <2>5 DEF Move, Writer
<1>3. ASSUME NEW u \in Updater, NEW img \in Package, NEW erase \in BOOLEAN, Start(u, img, erase)
      PROVE  FALSE
  BY <1>3 DEF Start, Begin, Renew, Process
<1>4. ASSUME NEW found \in BOOLEAN, NEW version \in BOOLEAN, Reflash(found, version)
      PROVE  FALSE
  BY <1>4, Zeros DEF Reflash, Begin, Renew, End, FirstTransfer
<1>5. CASE ServiceStarts \/ ManagerStarts \/ BootLoader \/ Boots \/ UNCHANGED vars
  BY <1>5 DEF ServiceStarts, ManagerStarts, BootLoader, Boots, vars, local
<1> QED
  BY <1>1, <1>2, <1>3, <1>4, <1>5, NextCases

\* No updater reports success before the MCU has rebooted and runs its image.
THEOREM SuccessIsTrue == Spec => OkMeansInstalled
<1>1. FlashInv /\ [Next]_vars =>
        [\A u \in Updater : Ends(u, "ok") => fw = image[u] /\ boots[u] > 0]_vars
  <2> SUFFICES ASSUME FlashInv, [Next]_vars, NEW u \in Updater, Ends(u, "ok")
               PROVE  fw = image[u] /\ boots[u] > 0
    OBVIOUS
  <2>1. Check(u) /\ u \in Process
    BY EndsItself, Zeros DEF Process
  <2>2. fw = image[u]
    BY <2>1 DEF Ends, Check, End, Renew, FlashInv, TypeOK, LocalOK
  <2>3. boots[u] > 0
    BY <2>1 DEF Check, FlashInv, Told
  <2> QED
    BY <2>2, <2>3
<1> QED
  BY <1>1, FlashInductive, PTL DEF Spec, OkMeansInstalled

\* "Flashed" is true of a V1 MCU that has rebooted once, though reflash does not
\* look at its version.
THEOREM FlashedIsTrue == Spec => FlashedMeansStock
<1>1. FlashInv /\ [Next]_vars =>
        [Ends(Reflasher, "flashed") /\ proto = "V1" /\ boots[Reflasher] = 1
           /\ Reflasher \notin astray => fw = Factory]_vars
  <2> SUFFICES ASSUME FlashInv, [Next]_vars, Ends(Reflasher, "flashed"), proto = "V1",
                      boots[Reflasher] = 1, Reflasher \notin astray
               PROVE  fw = Factory
    OBVIOUS
  <2>1. phase[Reflasher] = "check"
    BY EndsItself, Zeros DEF Reflashed
  <2> QED
    BY <2>1 DEF FlashInv, Taken
<1> QED
  BY <1>1, FlashInductive, PTL DEF Spec, FlashedMeansStock

-----------------------------------------------------------------------------
(* Refinement of Flashing *)

\* At most one image is whole, and that is the one in the area.
LEMMA OneWhole ==
  /\ \A img \in Image : Complete(img) => Whole = img
  /\ (\A img \in Image : ~ Complete(img)) => Whole = "none"
  /\ "none" \notin Image
<1>1. ASSUME NEW img \in Image, Complete(img) PROVE flash[1].of = img
  <2>1. flash[1] = Piece(img, 1)
    BY <1>1, Zeros DEF Complete
  <2> QED
    BY <2>1 DEF Piece
<1> QED
  BY <1>1, Zeros DEF Whole

LEMMA WholeKept == ASSUME UNCHANGED flash PROVE UNCHANGED Whole
  BY DEF Whole, Complete

\* Erased is not whole.
LEMMA WholeErased == ASSUME flash' = Erased PROVE Whole' = "none"
  BY Zeros DEF Whole, Complete, Erased, Blank, Piece

\* A write completes its own image or none.
LEMMA WholeWritten ==
  ASSUME TypeOK, NEW l \in Chunk, NEW img \in Image, NEW k, NEW v \in {Piece(img, k), Garbage},
         flash' = [flash EXCEPT ![l] = v]
  PROVE  Whole' \in {"none", img}
<1>1. ASSUME NEW i \in Image, Complete(i)' PROVE i = img
  <2>1. flash'[l] = v
    BY DEF TypeOK, BoardOK
  <2>2. flash'[l] = Piece(i, l)
    BY <1>1 DEF Complete
  <2>3. v.of = i /\ i # "garbage"
    BY <2>1, <2>2 DEF Piece
  <2> QED
    BY <2>3 DEF Piece, Garbage
<1>2. ASSUME Complete(img)' PROVE flash'[1].of = img
  <2>1. flash'[1] = Piece(img, 1)
    BY <1>2, Zeros DEF Complete
  <2> QED
    BY <2>1 DEF Piece
<1> QED
  BY <1>1, <1>2 DEF Whole

\* What an updater may do, in terms of the abstract state.
LEMMA UpdaterImplements ==
  ASSUME TypeOK, NEW u \in Updater, Frame(u), phase[u] # "idle",
         phase'[u] = "idle" => result'[u] # "none",
         \/ Progress(u)' = Progress(u) /\ UNCHANGED <<mcu, Whole>>
         \/ Progress(u)' = "failed" /\ UNCHANGED <<mcu, Whole>>
         \/ /\ Progress(u) = "running" /\ Progress(u)' = "running"
            /\ Answers /\ Whole' \in {"none", image[u]} /\ UNCHANGED mcu
         \/ /\ Progress(u) = "running" /\ Progress(u)' \in {"told", "failed"}
            /\ Answers /\ mcu' = "told" /\ UNCHANGED Whole
         \/ /\ Progress(u) = "verifying" /\ Progress(u)' = "succeeded"
            /\ Answers /\ fw = image[u] /\ UNCHANGED <<mcu, Whole>>
  PROVE  [Expected!FlashNext]_Expected!flashVars
<1>0. u \in Process /\ Reflasher \notin Updater /\ \A q \in Updater : q \in Process
  BY DEF Process
<1>1. Phases' = [Phases EXCEPT ![u] = Progress(u)'] /\ Phases[u] = Progress(u)
  <2>1. ASSUME NEW q \in Updater, q # u PROVE Progress(q)' = Progress(q)
    BY <1>0, <2>1 DEF Progress, Frame
  <2> QED
    BY <2>1 DEF Phases
<1>2. UNCHANGED Jobs /\ Jobs[u] = [pkg |-> image[u], mcu |-> 1]
  BY <1>0 DEF Jobs, Job, Frame
<1>3. UNCHANGED <<Firmware, starting>> /\ Firmware[1] = fw
  BY DEF Firmware, TheMCU, Frame
<1>4. /\ Boot[1] = mcu /\ (UNCHANGED mcu => UNCHANGED Boot)
      /\ (mcu' = "told" => Boot' = [Boot EXCEPT ![1] = "told"])
  BY DEF Boot, TheMCU
<1>5. (UNCHANGED Whole => UNCHANGED Area) /\ Area' = [Area EXCEPT ![1] = Whole']
  BY DEF Area, TheMCU
<1>6. Expected!Alive(u) /\ u \in Updater
  BY <1>1 DEF Expected!Alive, Progress
<1> USE DEF Expected!flashVars, Expected!boardVars, Expected!Answers
<1>7. CASE Progress(u)' = Progress(u) /\ UNCHANGED <<mcu, Whole>>
  <2>1. UNCHANGED Phases
    BY <1>1, <1>7 DEF Phases
  <2> QED
    BY <2>1, <1>2, <1>3, <1>4, <1>5, <1>7
<1>8. CASE Progress(u)' = "failed" /\ UNCHANGED <<mcu, Whole>>
  <2>1. Expected!Fails(u)
    BY <1>1, <1>2, <1>3, <1>4, <1>5, <1>6, <1>8 DEF Expected!Fails
  <2> QED
    BY <2>1 DEF Expected!FlashNext, Expected!UpdaterStep
<1>9. CASE /\ Progress(u) = "running" /\ Progress(u)' = "running"
           /\ Answers /\ Whole' \in {"none", image[u]} /\ UNCHANGED mcu
  <2>1. UNCHANGED Phases
    BY <1>1, <1>9 DEF Phases
  <2>2. Jobs[u].mcu = 1 /\ Jobs[u].pkg = image[u]
    BY <1>2
  <2>3. Area' \in {[Area EXCEPT ![Jobs[u].mcu] = img] : img \in {"none", Jobs[u].pkg}}
    BY <1>5, <1>9, <2>2
  <2>4. Expected!Writes(u)
    BY <1>1, <1>2, <1>3, <1>4, <1>9, <2>1, <2>2, <2>3 DEF Expected!Writes, Answers
  <2> QED
    BY <2>4 DEF Expected!FlashNext
<1>10. CASE /\ Progress(u) = "running" /\ Progress(u)' \in {"told", "failed"}
            /\ Answers /\ mcu' = "told" /\ UNCHANGED Whole
  <2>1. Jobs[u].mcu = 1 /\ Boot' = [Boot EXCEPT ![Jobs[u].mcu] = "told"] /\ Boot[1] # "down"
    BY <1>2, <1>4, <1>10 DEF Answers
  <2>2. UNCHANGED <<Jobs, Firmware, Area, starting>> /\ Phases[u] = "running"
    BY <1>1, <1>2, <1>3, <1>5, <1>10
  <2>3. ASSUME Progress(u)' = "told" PROVE Expected!Reboots(u)
    BY <1>1, <2>1, <2>2, <2>3 DEF Expected!Reboots
  <2>4. ASSUME Progress(u)' = "failed" PROVE Expected!Aborts(u)
    BY <1>1, <2>1, <2>2, <2>4 DEF Expected!Aborts
  <2> QED
    BY <1>10, <2>3, <2>4 DEF Expected!FlashNext, Expected!UpdaterStep
<1>11. CASE /\ Progress(u) = "verifying" /\ Progress(u)' = "succeeded"
            /\ Answers /\ fw = image[u] /\ UNCHANGED <<mcu, Whole>>
  <2>1. Expected!Succeeds(u)
    BY <1>1, <1>2, <1>3, <1>4, <1>5, <1>11 DEF Expected!Succeeds, Answers
  <2> QED
    BY <2>1 DEF Expected!FlashNext, Expected!UpdaterStep
<1> QED
  BY <1>7, <1>8, <1>9, <1>10, <1>11

\* Every step of an updater is one that Flashing allows.
LEMMA UpdaterRefines ==
  ASSUME FlashInv, NEW u \in Updater, Move(u)
  PROVE  [Expected!FlashNext]_Expected!flashVars
<1>0. TypeOK /\ u \in Process /\ u # Reflasher /\ Frame(u) /\ phase[u] # "idle" /\ image[u] \in Image
  BY MoveFrame DEF FlashInv, Process, TypeOK
<1> USE DEF TypeOK, LocalOK, BoardOK
<1>1. CASE Locate(u) \/ VerifyV1(u)
  <2>1. /\ phase[u] \in {"locate", "verify"} /\ UNCHANGED <<mcu, flash>>
        /\ phase'[u] \in {"abort", "write", "reboot", "locate"}
    BY <1>0, <1>1 DEF Locate, VerifyV1, Go, Transfer, Accepted, FirstTransfer, board
  <2> QED
    BY <1>0, <2>1, WholeKept, UpdaterImplements DEF Progress
<1>2. CASE VerifyV0(u)
  <2>1. /\ phase[u] = "verify" /\ UNCHANGED <<mcu, flash>>
        /\ phase'[u] \in {"abort", "write", "reboot", "locate", "verify"}
    BY <1>0, <1>2 DEF VerifyV0, Go, Transfer, Accepted, FirstTransfer, board
  <2> QED
    BY <1>0, <2>1, WholeKept, UpdaterImplements DEF Progress
<1>3. CASE Write(u)
  <2>1. phase[u] = "write" /\ phase'[u] \in {"abort", "verify"} /\ UNCHANGED mcu
    BY <1>0, <1>3 DEF Write, Go, Transfer
  <2>2. UNCHANGED flash \/ (Answers /\ \E v \in {Bytes(u), Garbage} :
                               flash' = [flash EXCEPT ![Place(u)] = v])
    BY <1>3 DEF Write, Programmed
  <2>3. UNCHANGED Whole \/ (Answers /\ Whole' \in {"none", image[u]})
    BY <1>0, <2>2, WholeKept, WholeWritten, PlaceType DEF Bytes
  <2>4. Progress(u) = "running" /\ Progress(u)' = "running"
    BY <2>1 DEF Progress
  <2> QED
    BY <1>0, <2>1, <2>3, <2>4, UpdaterImplements
<1>4. CASE Abort(u)
  <2>1. /\ phase[u] = "abort" /\ phase'[u] = "idle" /\ result'[u] = "failed"
        /\ UNCHANGED flash /\ (UNCHANGED mcu \/ (Answers /\ mcu' = "told"))
    BY <1>0, <1>4 DEF Abort, Reboot, End, Renew
  <2>2. Progress(u) = "running" /\ Progress(u)' = "failed"
    BY <2>1 DEF Progress
  <2> QED
    BY <1>0, <2>1, <2>2, WholeKept, UpdaterImplements
<1>5. CASE RebootIntoImage(u)
  <2>1. /\ phase[u] = "reboot" /\ UNCHANGED flash
        /\ \/ phase'[u] = "told" /\ Answers /\ mcu' = "told"
           \/ /\ phase'[u] = "idle" /\ result'[u] = "failed"
              /\ (UNCHANGED mcu \/ (Answers /\ mcu' = "told"))
    BY <1>0, <1>5 DEF RebootIntoImage, Reboot, Go, Transfer, End, Renew
  <2>2. /\ Progress(u) = "running" /\ Progress(u)' \in {"told", "failed"}
        /\ phase'[u] = "told" <=> Progress(u)' = "told"
    BY <2>1 DEF Progress
  <2> QED
    BY <1>0, <2>1, <2>2, WholeKept, UpdaterImplements
<1>6. CASE Ping(u)
  <2>1. /\ phase[u] = "ping" /\ UNCHANGED <<mcu, flash>> /\ phase'[u] \in {"ping", "check"}
    BY <1>0, <1>6 DEF Ping, Go, Transfer, board
  <2> QED
    BY <1>0, <2>1, WholeKept, UpdaterImplements DEF Progress
<1>7. CASE Query(u)
  <2>1. /\ phase[u] = "query" /\ UNCHANGED <<mcu, flash>>
        /\ \/ phase'[u] \in {"erase", "locate", "write"}
           \/ phase'[u] = "idle" /\ result'[u] = "failed"
    BY <1>0, <1>7 DEF Query, Go, Transfer, End, Renew, FirstTransfer, board
  <2> QED
    BY <1>0, <2>1, WholeKept, UpdaterImplements DEF Progress
<1>8. CASE Erase(u)
  <2>1. /\ phase[u] = "erase" /\ UNCHANGED mcu
        /\ \/ phase'[u] \in {"locate", "write"} /\ Answers /\ flash' = Erased
           \/ phase'[u] = "idle" /\ result'[u] = "failed" /\ UNCHANGED flash
    BY <1>0, <1>8 DEF Erase, Transfer, End, Renew, FirstTransfer
  <2>2. /\ Progress(u) = "running"
        /\ \/ Progress(u)' = "running" /\ Answers /\ Whole' = "none"
           \/ Progress(u)' = "failed" /\ UNCHANGED Whole
    BY <2>1, WholeKept, WholeErased DEF Progress
  <2> QED
    BY <1>0, <2>1, <2>2, UpdaterImplements
<1>9. CASE Check(u)
  <2>1. /\ phase[u] = "check" /\ phase'[u] = "idle" /\ UNCHANGED <<mcu, flash>>
        /\ \/ result'[u] = "ok" /\ Answers /\ fw = image[u]
           \/ result'[u] = "failed"
    BY <1>0, <1>9 DEF Check, End, Renew, board
  <2> QED
    BY <1>0, <2>1, WholeKept, UpdaterImplements DEF Progress
<1>11. CASE ReadsShort(u)
  <2>1. /\ UNCHANGED <<mcu, flash>> /\ phase[u] \in {"locate", "write"}
        /\ phase'[u] \in {"locate", "write", "reboot"}
    BY <1>0, <1>11 DEF ReadsShort, FirstTransfer, board
  <2> QED
    BY <1>0, <2>1, WholeKept, UpdaterImplements DEF Progress
<1>10. CASE Kill(u)
  <2>1. phase'[u] = "idle" /\ result'[u] = "failed" /\ UNCHANGED <<mcu, flash>>
    BY <1>0, <1>10 DEF Kill, End, Renew, board
  <2> QED
    BY <1>0, <2>1, WholeKept, UpdaterImplements DEF Progress
<1> QED
  BY <1>0, <1>1, <1>2, <1>3, <1>4, <1>5, <1>6, <1>7, <1>8, <1>9, <1>10, <1>11 DEF Move, Writer

\* The updaters' side of the abstract state, if none of them moves.
LEMMA UpdatersIdle ==
  ASSUME \A u \in Updater : phase'[u] = phase[u] /\ result'[u] = result[u] /\ image'[u] = image[u]
  PROVE  UNCHANGED <<Phases, Jobs>>
<1>1. ASSUME NEW u \in Updater PROVE Progress(u)' = Progress(u) /\ Job(u)' = Job(u)
  BY <1>1 DEF Progress, Job
<1> QED
  BY <1>1 DEF Phases, Jobs

\* reflash writes the stock image and reboots, and nobody else runs then.
LEMMA ReflasherRefines ==
  ASSUME FlashInv, Move(Reflasher)
  PROVE  [Expected!FlashNext]_Expected!flashVars
<1>0. /\ TypeOK /\ Reflasher \in Process /\ Frame(Reflasher) /\ image[Reflasher] = Factory
      /\ starting = TRUE /\ Factory \in Image
  BY MoveFrame, Zeros DEF FlashInv, TypeOK, Alone
<1>1. UNCHANGED <<Phases, Jobs>>
  BY <1>0, UpdatersIdle DEF Frame, Process
<1>2. UNCHANGED <<Firmware, starting>>
  BY <1>0 DEF Firmware, Frame
<1>3. /\ Boot[1] = mcu /\ (UNCHANGED mcu => UNCHANGED Boot)
      /\ (mcu' = "told" => Boot' = [Boot EXCEPT ![1] = "told"])
  BY DEF Boot, TheMCU
<1>4. (UNCHANGED Whole => UNCHANGED Area) /\ Area' = [Area EXCEPT ![1] = Whole']
  BY DEF Area, TheMCU
<1> USE DEF Expected!flashVars, Expected!boardVars, Expected!Answers, Expected!MCU
<1>5. CASE Write(Reflasher)
  <2>1. UNCHANGED flash \/ (Answers /\ \E v \in {Bytes(Reflasher), Garbage} :
                               flash' = [flash EXCEPT ![Place(Reflasher)] = v])
    BY <1>0, <1>5 DEF Write, Programmed
  <2>2. UNCHANGED mcu /\ (UNCHANGED Whole \/ (Answers /\ Whole' \in {"none", Factory}))
    BY <1>0, <1>5, <2>1, WholeKept, WholeWritten, PlaceType DEF Write, Bytes
  <2>3. CASE UNCHANGED Whole
    BY <1>1, <1>2, <1>3, <1>4, <2>2, <2>3
  <2>4. CASE Answers /\ Whole' \in {"none", Factory}
    <3>1. Area' \in {[Area EXCEPT ![1] = img] : img \in {"none", Factory}}
      BY <1>4, <2>4
    <3>2. Expected!ReflashWrites(1)
      BY <1>0, <1>1, <1>2, <1>3, <2>2, <2>4, <3>1 DEF Expected!ReflashWrites, Answers
    <3> QED
      BY <3>2 DEF Expected!FlashNext
  <2> QED
    BY <2>2, <2>3, <2>4
<1>6. CASE Abort(Reflasher) \/ RebootIntoImage(Reflasher)
  <2>1. UNCHANGED Whole /\ (UNCHANGED mcu \/ (Answers /\ mcu' = "told"))
    BY <1>6, WholeKept DEF Abort, RebootIntoImage, Reboot
  <2>2. CASE UNCHANGED mcu
    BY <1>1, <1>2, <1>3, <1>4, <2>1, <2>2
  <2>3. CASE Answers /\ mcu' = "told"
    <3>1. Expected!ReflashReboots(1)
      BY <1>0, <1>1, <1>2, <1>3, <1>4, <2>1, <2>3 DEF Expected!ReflashReboots, Answers
    <3> QED
      BY <3>1 DEF Expected!FlashNext
  <2> QED
    BY <2>1, <2>2, <2>3
<1>7. CASE \/ Locate(Reflasher) \/ VerifyV1(Reflasher) \/ VerifyV0(Reflasher)
           \/ Ping(Reflasher) \/ Reflashed
  <2>1. UNCHANGED <<mcu, Whole>>
    BY <1>7, WholeKept DEF Locate, VerifyV1, VerifyV0, Ping, Reflashed, board
  <2> QED
    BY <1>1, <1>2, <1>3, <1>4, <2>1
<1>8. \/ Write(Reflasher) \/ Abort(Reflasher) \/ RebootIntoImage(Reflasher)
      \/ Locate(Reflasher) \/ VerifyV1(Reflasher) \/ VerifyV0(Reflasher)
      \/ Ping(Reflasher) \/ Reflashed
  BY NameAssumption DEF Move, Writer
<1> QED
  BY <1>5, <1>6, <1>7, <1>8

\* The boot loader installs what is in the area of the only MCU.
LEMMA BootLoaderRefines ==
  ASSUME FlashInv, BootLoader
  PROVE  Expected!GoesDown(1)
<1>1. /\ Boot[1] = "told" /\ Boot' = [Boot EXCEPT ![1] = "down"]
      /\ Area[1] = Whole /\ Area' = [Area EXCEPT ![1] = "none"]
  <2>1. Whole' = "none"
    BY WholeErased DEF BootLoader
  <2>2. Boot[1] = "told" /\ Boot' = [Boot EXCEPT ![1] = "down"]
    BY DEF BootLoader, Boot, TheMCU
  <2> QED
    BY <2>1, <2>2 DEF Area, TheMCU
<1>2. fw' = IF Whole = "none" THEN fw ELSE Whole
  BY OneWhole DEF BootLoader
<1>3. Firmware' = [Firmware EXCEPT ![1] = IF Area[1] = "none" THEN @ ELSE Area[1]]
  BY <1>1, <1>2 DEF Firmware, TheMCU
<1>4. ASSUME NEW u \in Updater
      PROVE  /\ Job(u)' = Job(u) /\ (Progress(u) = "told" => Job(u).mcu = 1)
             /\ Progress(u)' = IF Progress(u) = "told" THEN "verifying" ELSE Progress(u)
  BY DEF BootLoader, Job, Progress, Process
<1>5. UNCHANGED <<Jobs, starting>>
  BY <1>4 DEF Jobs, BootLoader
<1>6. Phases' = [u \in Updater |->
                  IF Phases[u] = "told" /\ Jobs[u].mcu = 1 THEN "verifying" ELSE Phases[u]]
  BY <1>4 DEF Phases, Jobs
<1> QED
  BY <1>1, <1>3, <1>5, <1>6 DEF Expected!GoesDown

\* Every step is one that Flashing allows, or leaves its state alone.
LEMMA NextRefines ==
  ASSUME FlashInv, [Next]_vars
  PROVE  [Expected!FlashNext]_Expected!flashVars
<1>0. TypeOK /\ Reflasher \in Process /\ \A u \in Updater : u \in Process /\ u # Reflasher
  BY Zeros DEF FlashInv, Process
<1> USE DEF TypeOK, LocalOK, Expected!flashVars, Expected!boardVars
<1>1. ASSUME NEW u \in Updater, Move(u) PROVE [Expected!FlashNext]_Expected!flashVars
  BY <1>1, UpdaterRefines
<1>2. CASE Move(Reflasher)
  BY <1>2, ReflasherRefines
<1>3. ASSUME NEW u \in Updater, NEW img \in Package, NEW erase \in BOOLEAN, Start(u, img, erase)
      PROVE  [Expected!FlashNext]_Expected!flashVars
  <2> DEFINE o == [pkg |-> img, mcu |-> 1]
  <2>1. /\ ~ starting /\ Progress(u)' = "running" /\ Job(u)' = o /\ phase[u] = "idle"
        /\ UNCHANGED <<starting, mcu, fw, flash>>
    BY <1>0, <1>3 DEF Start, Begin, Renew, Progress, Job, board
  <2>2. ASSUME NEW q \in Updater, q # u PROVE Progress(q)' = Progress(q) /\ Job(q)' = Job(q)
    BY <1>0, <1>3, <2>2 DEF Start, Begin, Renew, Progress, Job
  <2>3. Phases' = [Phases EXCEPT ![u] = "running"] /\ Jobs' = [Jobs EXCEPT ![u] = o]
    BY <2>1, <2>2 DEF Phases, Jobs
  <2>4. UNCHANGED <<Firmware, Boot, Area>>
    BY <2>1, WholeKept DEF Firmware, Boot, Area
  <2>5. ~ Expected!Alive(u)
    BY <2>1 DEF Expected!Alive, Phases, Progress
  <2>6. Expected!Forked(u, o) /\ o \in Expected!Object
    BY <2>1, <2>3, <2>4, <2>5 DEF Expected!Forked, Expected!Object, Expected!MCU
  <2> QED
    BY <2>6 DEF Expected!FlashNext
<1>4. ASSUME UNCHANGED <<board, starting>>,
             \A u \in Updater : /\ phase'[u] = phase[u] /\ result'[u] = result[u]
                                /\ image'[u] = image[u]
      PROVE  UNCHANGED Expected!flashVars
  BY <1>4, UpdatersIdle, WholeKept DEF Firmware, Boot, Area, board
<1>5. ASSUME NEW found \in BOOLEAN, NEW version \in BOOLEAN, Reflash(found, version)
      PROVE  [Expected!FlashNext]_Expected!flashVars
  BY <1>0, <1>4, <1>5 DEF Reflash, Begin, Renew, End
<1>6. CASE ManagerStarts
  <2>1. UNCHANGED <<Phases, Jobs>>
    BY <1>0, <1>6, UpdatersIdle DEF ManagerStarts
  <2>2. UNCHANGED <<Firmware, Boot, Area>>
    BY <1>6, WholeKept DEF ManagerStarts, Firmware, Boot, Area, board
  <2>3. Expected!ManagerStarts
    BY <1>6, <2>1, <2>2 DEF ManagerStarts, Expected!ManagerStarts
  <2> QED
    BY <2>3 DEF Expected!FlashNext
<1>7. CASE ServiceStarts
  <2>1. ASSUME NEW u \in Updater PROVE Progress(u)' = "idle" /\ Job(u)' = "none"
    BY <1>0, <1>7 DEF ServiceStarts, Progress, Job
  <2>2. UNCHANGED <<Firmware, Boot, Area>>
    BY <1>7, WholeKept DEF ServiceStarts, Firmware, Boot, Area, board
  <2>3. Phases' = [u \in Updater |-> "idle"] /\ Jobs' = [u \in Updater |-> "none"]
    BY <2>1 DEF Phases, Jobs
  <2>4. Expected!ServiceStarts
    BY <1>7, <2>2, <2>3 DEF ServiceStarts, Expected!ServiceStarts
  <2> QED
    BY <2>4 DEF Expected!FlashNext
<1>8. CASE BootLoader
  BY <1>8, BootLoaderRefines DEF Expected!FlashNext, Expected!MCU
<1>9. CASE Boots
  <2>1. UNCHANGED <<Phases, Jobs, Firmware, Area, starting>>
    BY <1>0, <1>9, UpdatersIdle, WholeKept DEF Boots, local, Firmware, Area
  <2>2. Boot[1] = "down" /\ Boot' = [Boot EXCEPT ![1] = "up"]
    BY <1>9 DEF Boots, Boot, TheMCU
  <2>3. Expected!ComesUp(1)
    BY <2>1, <2>2 DEF Expected!ComesUp
  <2> QED
    BY <2>3 DEF Expected!FlashNext, Expected!MCU
<1>10. CASE UNCHANGED vars
  BY <1>4, <1>10 DEF vars, local
<1> QED
  BY <1>1, <1>2, <1>3, <1>5, <1>6, <1>7, <1>8, <1>9, <1>10, NextCases DEF Process

\* Transfer by transfer, updaters that overlap, reflash and the MCU do no more
\* than the storage manager's model expects of them.
THEOREM FlashingRefinement == Spec => ImplementsFlashing
<1>1. Init => Expected!FlashInit
  <2> SUFFICES ASSUME Init PROVE Expected!FlashInit
    OBVIOUS
  <2>1. ASSUME NEW u \in Updater PROVE Progress(u) = "idle" /\ Job(u) = "none"
    BY DEF Init, Progress, Job, Process
  <2>2. Phases = [u \in Updater |-> "idle"] /\ Jobs = [u \in Updater |-> "none"]
    BY <2>1 DEF Phases, Jobs
  <2>3. Whole = "none"
    BY Zeros DEF Init, Whole, Complete, Erased, Blank, Piece
  <2>4. /\ Firmware \in [TheMCU -> Image] /\ Boot = [m \in TheMCU |-> "up"]
        /\ Area = [m \in TheMCU |-> "none"]
    BY <2>3 DEF Init, Firmware, Boot, Area
  <2> QED
    BY <2>2, <2>4 DEF Init, Expected!FlashInit, Expected!MCU, Expected!Version, TheMCU, Image
<1>2. FlashInv /\ [Next]_vars => [Expected!FlashNext]_Expected!flashVars
  BY NextRefines
<1> QED
  BY <1>1, <1>2, FlashInductive, PTL DEF Spec, ImplementsFlashing, Expected!FlashSpec
=============================================================================
