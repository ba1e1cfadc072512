-------------------------- MODULE HostPowerProofs --------------------------
(* Proofs about HostPower, for any number of MCUs and any queue bound.     *)
EXTENDS HostPower, SequenceTheorems, TLAPS

USE SizeAssumption, FlagAssumption

\* What makes PowerSettled inductive: before the subscription nothing is asked,
\* known or queued, the last queued signal is the state of the host, and an answer
\* that the host has left since has a signal behind it.
Pending ==
  /\ ~ subscribed => reading = "no" /\ signals = << >> /\ powerState = "Unknown"
  /\ subscribed => reading # "no"
  /\ signals # << >> => signals[Len(signals)] = host
  /\ reading \in {"On", "Off"} => reading = AsPower(host) \/ signals # << >>
  /\ reading \in {"asked", "error"} => powerState = "Unknown"

PowerInv == TypeOK /\ Pending /\ PowerSettled

\* Sending a state stores it and tells nobody anything else.
LEMMA SetPowerStateLemma ==
  ASSUME NEW state \in {"Off", "On"}, told \in [MCU -> Power], SetPowerState(state)
  PROVE  /\ powerState' = state
         /\ told' \in [MCU -> Power]
         /\ \A m \in MCU : told'[m] # told[m] => told'[m] = state
<1>1. CASE state = powerState
  BY <1>1 DEF SetPowerState
<1>2. CASE state # powerState
  <2>1. PICK failed : told' = [m \in MCU |->
          IF m \in {n \in MCU : cfg[n] = "powerGood" /\ n \notin updating} \ failed
          THEN state ELSE told[m]]
    BY <1>2 DEF SetPowerState
  <2> QED
    BY <2>1 DEF SetPowerState, Power
<1> QED
  BY <1>1, <1>2

\* Applying a configuration gives every controller a configuration and
\* withdraws none.
LEMMA AppliedLemma ==
  ASSUME NEW read \in 0 .. NumMCU, TypeOK
  PROVE  /\ Applied(read) \in [MCU -> Config]
         /\ \A m \in MCU : cfg[m] # "absent" => Applied(read)[m] # "absent"
  BY DEF Applied, TypeOK

\* Every step keeps the types.
LEMMA NextTypeOK == TypeOK /\ [Next]_vars => TypeOK'
<1> SUFFICES ASSUME TypeOK, [Next]_vars PROVE TypeOK'
  OBVIOUS
<1> USE DEF TypeOK
<1>1. ASSUME NEW powered \in BOOLEAN, HostChanges(powered) PROVE TypeOK'
  <2>1. /\ Append(signals, powered) \in Seq(BOOLEAN)
        /\ Len(Append(signals, powered)) = Len(signals) + 1
    OBVIOUS
  <2>2. Len(signals) \in Nat /\ Len(signals) < MaxQueue
    BY <1>1 DEF HostChanges
  <2>3. signals' = Append(signals, powered) \/ signals' = signals
    BY <1>1 DEF HostChanges
  <2>4. signals' \in Seq(BOOLEAN) /\ Len(signals') <= MaxQueue
    BY <2>1, <2>2, <2>3
  <2> QED
    BY <1>1, <2>4 DEF HostChanges
<1>2. CASE HostSignal
  <2>1. AsPower(Head(signals)) \in {"Off", "On"}
    BY DEF AsPower
  <2>2. powerState' \in Power /\ told' \in [MCU -> Power]
    BY <1>2, <2>1, SetPowerStateLemma DEF HostSignal, Power
  <2>3. signals' \in Seq(BOOLEAN) /\ Len(signals') <= MaxQueue
    BY <1>2, HeadTailProperties DEF HostSignal
  <2> QED
    BY <1>2, <2>2, <2>3 DEF HostSignal
<1>8. CASE HostAnswers
  BY <1>8 DEF HostAnswers, AsPower
<1>9. CASE ReadHostState
  <2>1. powerState' \in Power /\ told' \in [MCU -> Power]
    BY <1>9, SetPowerStateLemma DEF ReadHostState, Power
  <2> QED
    BY <1>9, <2>1 DEF ReadHostState
<1>3. ASSUME NEW m \in MCU, NEW conf \in Config, ConfigChanges(m, conf) PROVE TypeOK'
  BY <1>3 DEF ConfigChanges
<1>4. ASSUME NEW read \in 0 .. NumMCU, ApplyConfiguration(read) PROVE TypeOK'
  <2>1. cfg' \in [MCU -> Config] /\ \A m \in MCU : cfg[m] # "absent" => cfg'[m] # "absent"
    BY <1>4, AppliedLemma DEF ApplyConfiguration
  <2>2. updating' \in SUBSET {m \in MCU : cfg'[m] # "absent"}
    BY <1>4, <2>1 DEF ApplyConfiguration
  <2>3. subscribed' \in BOOLEAN
        /\ reading' \in {"no", "asked", "On", "Off", "error", "done", "failed"}
    BY <1>4 DEF ApplyConfiguration, AddCallback
  <2> QED
    BY <1>4, <2>1, <2>2, <2>3 DEF ApplyConfiguration
<1>5. ASSUME NEW m \in MCU, UpdateStarts(m) PROVE TypeOK'
  BY <1>5 DEF UpdateStarts
<1>6. ASSUME NEW m \in MCU, UpdateEnds(m) PROVE TypeOK'
  BY <1>6 DEF UpdateEnds
<1>7. CASE UNCHANGED vars
  BY <1>7 DEF vars
<1> QED
  BY <1>1, <1>2, <1>3, <1>4, <1>5, <1>6, <1>7, <1>8, <1>9 DEF Next

\* Every step keeps the known state and the queue in line with the host.
LEMMA NextPending ==
  TypeOK /\ Pending /\ PowerSettled /\ [Next]_vars => Pending' /\ PowerSettled'
<1> SUFFICES ASSUME TypeOK, Pending, PowerSettled, [Next]_vars
             PROVE  Pending' /\ PowerSettled'
  OBVIOUS
<1> USE DEF Pending, PowerSettled
<1>0. signals \in Seq(BOOLEAN) /\ host \in BOOLEAN
  BY DEF TypeOK
<1>1. ASSUME NEW powered \in BOOLEAN, HostChanges(powered) PROVE Pending' /\ PowerSettled'
  <2>1. CASE subscribed
    <3>1. signals' = Append(signals, powered) /\ host' = powered /\ subscribed'
      BY <1>1, <2>1 DEF HostChanges, Receives
    <3>2. /\ signals' # << >>
          /\ signals'[Len(signals')] = powered
      BY <1>0, <3>1, AppendProperties
    <3> QED
      BY <1>1, <3>1, <3>2 DEF HostChanges
  <2>2. CASE ~ subscribed
    BY <1>1, <2>2 DEF HostChanges, Receives
  <2> QED
    BY <2>1, <2>2
<1>2. CASE HostSignal
  <2>1. /\ subscribed /\ subscribed' = subscribed /\ host' = host
        /\ ~ Busy /\ reading' = reading
        /\ signals # << >> /\ signals' = Tail(signals)
        /\ powerState' = AsPower(Head(signals))
    BY <1>2 DEF HostSignal, SetPowerState
  <2>2. CASE Len(signals) = 1
    <3>1. signals' = << >> /\ Head(signals) = host
      BY <1>0, <2>1, <2>2, HeadTailProperties, EmptySeq
    <3> QED
      BY <2>1, <3>1 DEF Busy
  <2>3. CASE Len(signals) # 1
    <3> DEFINE n == Len(signals)
    <3>1. n \in Nat /\ n > 1
      <4>1. n \in Nat /\ n # 1
        BY <1>0, <2>3, LenProperties
      <4>2. n # 0
        BY <1>0, <2>1, EmptySeq
      <4> HIDE DEF n
      <4> QED
        BY <4>1, <4>2
    <3>2. Len(Tail(signals)) = n - 1
      BY <1>0, <2>1, HeadTailProperties
    <3>3. Tail(signals)[n - 1] = signals[n]
      BY <1>0, <2>1, <3>1, HeadTailProperties
    <3>4. signals'[Len(signals')] = signals[Len(signals)]
      BY <2>1, <3>2, <3>3
    <3>5. signals' # << >>
      <4>1. Len(signals') = n - 1
        BY <2>1, <3>2
      <4>2. signals' = << >> => Len(signals') = 0
        BY ONLY EmptySeq
      <4> HIDE DEF n
      <4> QED
        BY <3>1, <4>1, <4>2
    <3> QED
      BY <2>1, <3>4, <3>5 DEF Busy
  <2> QED
    BY <2>2, <2>3
<1>3. ASSUME NEW m \in MCU, NEW conf \in Config, ConfigChanges(m, conf)
      PROVE  Pending' /\ PowerSettled'
  BY <1>3 DEF ConfigChanges, Busy
<1>4. ASSUME NEW read \in 0 .. NumMCU, ApplyConfiguration(read)
      PROVE  Pending' /\ PowerSettled'
  <2>1. signals' = signals /\ host' = host /\ powerState' = powerState /\ ~ Busy
    BY <1>4 DEF ApplyConfiguration
  <2>2. CASE AddCallback
    BY <2>1, <2>2 DEF AddCallback, Busy
  <2>3. CASE UNCHANGED <<subscribed, reading>>
    BY <2>1, <2>3 DEF Busy
  <2> QED
    BY <1>4, <2>2, <2>3 DEF ApplyConfiguration
<1>8. CASE HostAnswers
  BY <1>8 DEF HostAnswers, AsPower, Busy
<1>9. CASE ReadHostState
  <2>1. CASE reading \in {"On", "Off"}
    <3>1. powerState' = reading /\ reading' = "done" /\ UNCHANGED <<host, signals, subscribed>>
      BY <1>9, <2>1 DEF ReadHostState, SetPowerState
    <3> QED
      BY <2>1, <3>1 DEF Busy
  <2>2. CASE reading = "error"
    <3>1. powerState' = "Unknown" /\ reading' = "failed" /\ UNCHANGED <<host, signals, subscribed>>
      BY <1>9, <2>2 DEF ReadHostState
    <3> QED
      BY <2>2, <3>1 DEF Busy
  <2> QED
    BY <1>9, <2>1, <2>2 DEF ReadHostState
<1>5. ASSUME NEW m \in MCU, UpdateStarts(m) PROVE Pending' /\ PowerSettled'
  BY <1>5 DEF UpdateStarts, Busy
<1>6. ASSUME NEW m \in MCU, UpdateEnds(m) PROVE Pending' /\ PowerSettled'
  BY <1>6 DEF UpdateEnds, Busy
<1>7. CASE UNCHANGED vars
  BY <1>7 DEF vars, Busy
<1> QED
  BY <1>1, <1>2, <1>3, <1>4, <1>5, <1>6, <1>7, <1>8, <1>9 DEF Next

LEMMA InitPowerInv == Init => PowerInv
<1> SUFFICES ASSUME Init PROVE PowerInv
  OBVIOUS
<1>1. signals = << >> /\ << >> \in Seq(BOOLEAN) /\ Len(signals) = 0
  BY DEF Init
<1>2. cfg \in [MCU -> Config] /\ told \in [MCU -> Power]
  BY DEF Init, Config, Power
<1>3. updating \in SUBSET {m \in MCU : cfg[m] # "absent"}
  BY DEF Init
<1>4. 0 <= MaxQueue
  OBVIOUS
<1> QED
  BY <1>1, <1>2, <1>3, <1>4 DEF Init, PowerInv, TypeOK, Pending, PowerSettled, Config, Power

\* TypeOK holds for any number of MCUs.
THEOREM PowerTypeCorrect == Spec => []TypeOK
<1>1. Init => TypeOK
  BY InitPowerInv DEF PowerInv
<1> QED
  BY <1>1, NextTypeOK, PTL DEF Spec

\* No change of the host's power is lost, neither between subscribing, asking and
\* getting the answer nor while signals queue up behind a slow handler.
THEOREM NoChangeLost == Spec => []PowerSettled
<1>1. PowerInv /\ [Next]_vars => PowerInv'
  BY NextTypeOK, NextPending DEF PowerInv
<1>2. PowerInv => PowerSettled
  BY DEF PowerInv
<1> QED
  BY <1>1, <1>2, InitPowerInv, PTL DEF Spec

\* An MCU that is told what the host has left since will be told better: the
\* signal of the present state is behind it, however long the queue is.
THEOREM StaleIsFollowed == Spec => StaleIsCorrected
<1> DEFINE Corrected == \A m \in MCU : told'[m] # told[m] =>
             \/ told'[m] = AsPower(host')
             \/ signals' # << >> /\ signals'[Len(signals')] = host'
<1>1. PowerInv /\ [Next]_vars => [Corrected]_vars
  <2> SUFFICES ASSUME PowerInv, Next, NEW m \in MCU, told'[m] # told[m]
               PROVE  \/ told'[m] = AsPower(host')
                      \/ signals' # << >> /\ signals'[Len(signals')] = host'
    BY DEF vars
  <2>1. Pending' /\ PowerSettled' /\ TypeOK
    BY NextPending DEF PowerInv
  <2>2. told'[m] = powerState' /\ (HostSignal \/ ReadHostState)
    <3>1. CASE HostSignal
      <4>1. AsPower(Head(signals)) \in {"Off", "On"}
        BY DEF AsPower
      <4> QED
        BY <2>1, <3>1, <4>1, SetPowerStateLemma DEF HostSignal, TypeOK
    <3>2. CASE ReadHostState
      BY <2>1, <3>2, SetPowerStateLemma DEF ReadHostState, TypeOK
    <3> QED
      BY <3>1, <3>2 DEF Next, HostChanges, HostAnswers, ConfigChanges,
         ApplyConfiguration, UpdateStarts, UpdateEnds
  <2>3. powerState' \in {"Off", "On"}
    <3>1. CASE HostSignal
      BY <3>1 DEF HostSignal, SetPowerState, AsPower
    <3>2. CASE ReadHostState
      BY <3>2 DEF ReadHostState, SetPowerState
    <3> QED
      BY <2>2, <3>1, <3>2
  <2>4. ~ Busy' /\ subscribed'
    <3>1. CASE HostSignal
      BY <3>1 DEF HostSignal, Busy, PowerInv, Pending
    <3>2. CASE ReadHostState
      BY <3>2 DEF ReadHostState, Busy, PowerInv, Pending
    <3> QED
      BY <2>2, <3>1, <3>2
  <2>5. CASE signals' = << >>
    BY <2>1, <2>2, <2>3, <2>4, <2>5 DEF PowerSettled
  <2> QED
    BY <2>1, <2>5 DEF Pending
<1>2. StaleIsCorrected <=> [][Corrected]_vars
  BY DEF StaleIsCorrected
<1>3. PowerInv /\ [Next]_vars => PowerInv'
  BY NextTypeOK, NextPending DEF PowerInv
<1> HIDE DEF Corrected
<1> QED
  BY <1>1, <1>2, <1>3, InitPowerInv, PTL DEF Spec

\* The subscription ends the one application of a fixed configuration.
Steady ==
  /\ subscribed => ~ timer
  /\ Informed

\* With a fixed configuration, no updates and MCUs that take the command, every
\* MCU that asks for it knows the power state the manager knows.
THEOREM SteadyInformed ==
  ASSUME ~ UpdatesAllowed, ~ ReconfigAllowed, ~ SendMayFail
  PROVE  Spec => []Informed
<1> DEFINE SInv == PowerInv /\ updating = {} /\ Steady
<1>1. Init => SInv
  BY InitPowerInv DEF Init, Steady, Informed
<1>2. SInv /\ [Next]_vars => SInv'
  <2> SUFFICES ASSUME SInv, [Next]_vars PROVE (updating = {} /\ Steady)'
    BY NextTypeOK, NextPending DEF PowerInv
  <2> USE DEF Steady
  <2>0. TypeOK /\ Pending
    BY DEF PowerInv
  <2>1. ASSUME NEW powered \in BOOLEAN, HostChanges(powered)
        PROVE  (updating = {} /\ Steady)'
    BY <2>1 DEF HostChanges, Informed
  <2>2. ASSUME NEW state \in {"Off", "On"}, SetPowerState(state),
               UNCHANGED <<updating, cfg, subscribed>>
        PROVE  Informed'
    <3>1. CASE state = powerState
      BY <2>2, <3>1 DEF SetPowerState, Informed
    <3>2. CASE state # powerState
      <4>1. told' = [m \in MCU |->
              IF m \in {n \in MCU : cfg[n] = "powerGood" /\ n \notin updating}
              THEN state ELSE told[m]]
        BY <2>2, <3>2 DEF SetPowerState
      <4> QED
        BY <2>2, <4>1 DEF SetPowerState, Informed
    <3> QED
      BY <3>1, <3>2
  <2>3. CASE HostSignal
    <3>1. AsPower(Head(signals)) \in {"Off", "On"}
      BY DEF AsPower
    <3> QED
      BY <2>2, <2>3, <3>1 DEF HostSignal
  <2>6. CASE ReadHostState
    <3>1. CASE reading \in {"On", "Off"}
      BY <2>2, <2>6, <3>1 DEF ReadHostState
    <3>2. CASE reading = "error"
      BY <2>6, <3>2 DEF ReadHostState, Informed
    <3> QED
      BY <2>6, <3>1, <3>2 DEF ReadHostState
  <2>4. ASSUME NEW read \in 0 .. NumMCU, ApplyConfiguration(read)
        PROVE  (updating = {} /\ Steady)'
    BY <2>0, <2>4 DEF ApplyConfiguration, Pending, Informed
  <2>5. CASE UNCHANGED vars
    BY <2>5 DEF vars, Informed
  <2> QED
    BY <2>1, <2>3, <2>4, <2>5, <2>6
       DEF Next, HostAnswers, ConfigChanges, UpdateStarts, UpdateEnds, Informed
<1>3. SInv => Informed
  BY DEF Steady
<1> HIDE DEF SInv
<1> QED
  BY <1>1, <1>2, <1>3, PTL DEF Spec
=============================================================================
