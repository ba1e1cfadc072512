----------------------------- MODULE FanConfig -----------------------------
(***************************************************************************)
(* The configuration of yadro-hw-manager (HWManagerData): what the options *)
(* of the motherboard say of its fans, and the fans that are published of  *)
(* it. A fan is its connector: names, part numbers and the order of fans   *)
(* in a zone are left out, and an entry that says nothing is like none.    *)
(* A list that breaks off counts as the part before its first bad byte.    *)
(***************************************************************************)
EXTENDS ProductRegistry

CONSTANTS
  Product,   \* the product of the motherboard
  Zones,     \* names of chassis zones
  Cpus,      \* indices of CPU objects in the inventory
  FanOptions \* the options its FRU may have

ASSUME ProductAssumption == Product \in DOMAIN productRegistry

Connectors == productRegistry[Product]

FanOption ==
  [kind : {"cooling"}, value : {"passive", "active", "other"}]
    \cup [kind : {"list"}, zone : Zones, cons : SUBSET Nat]
    \cup [kind : {"min"}, zone : Zones, speed : 0 .. 255]
ASSUME FanOptionAssumption == FanOptions \subseteq FanOption

VARIABLES
  hw,       \* config, as the last scan has left it
  active,   \* configActive
  fans,     \* the published fans
  detected, \* the detection of the system fans is over
  told      \* history: the options the motherboard has had in its last scan

fanVars == <<hw, active, fans, detected, told>>

Speeds == {0} \cup 5 .. 100 \* fanMinSpeed; 0: none

\* HWManagerData()
NoData == [known |-> FALSE, cooling |-> FALSE, cpus |-> {},
           lists |-> [z \in Zones |-> {}], min |-> [z \in Zones |-> 0]]

FanInit ==
  /\ hw = NoData /\ active = NoData
  /\ fans = {} /\ detected = FALSE /\ told = {}

-----------------------------------------------------------------------------
(* Reading *)

\* Mutated form: the chassis fans of the last scan stay.
ResetRest(known) == hw' = [NoData EXCEPT !.known = known, !.lists = hw.lists] /\ told' = {}

\* reset() and setProduct() with a name that the registry knows, or none.
Reset(known) == hw' = [NoData EXCEPT !.known = known] /\ told' = {}

CpuCooling(o) ==
  /\ o.kind = "cooling"
  /\ hw' = [hw EXCEPT !.cooling = IF o.value = "other" THEN @ ELSE o.value = "active"]

ChassisFans(o) ==
  /\ o.kind = "list"
  /\ hw' = [hw EXCEPT !.lists[o.zone] = o.cons]

\* Mutated form: any speed will do.
AnySpeed(o) ==
  /\ o.kind = "min"
  /\ hw' = [hw EXCEPT !.min[o.zone] = o.speed]

\* A speed out of range leaves what another option has set.
PidZoneMinSpeed(o) ==
  /\ o.kind = "min"
  /\ hw' = [hw EXCEPT !.min[o.zone] = IF o.speed \in Speeds \ {0} THEN o.speed ELSE @]

SetOption(o) ==
  /\ CpuCooling(o) \/ ChassisFans(o) \/ PidZoneMinSpeed(o)
  /\ told' = told \cup {o}
  /\ UNCHANGED <<active, fans, detected>>

-----------------------------------------------------------------------------
(* Publishing *)

Fan(kind, con, zone) == [kind |-> kind, con |-> con, zone |-> zone]

OfType(type) == {c \in DOMAIN Connectors : Connectors[c].type = type}

\* Connectors a zone may have: not those of system fans, nor of CPUs that have
\* fans of their own.
Free(cooling) == OfType("NONE") \cup (IF cooling THEN {} ELSE OfType("CPU"))

SystemFans == {Fan("system", c, "own") : c \in OfType("SYSTEM")}

FansOf(data) ==
  {Fan("cpu", c, "own") : c \in {x \in OfType("CPU") :
                                   data.cooling /\ Connectors[x].fanIndex \in data.cpus}}
    \cup UNION {{Fan("chassis", c, z) : c \in data.lists[z] \cap Free(data.cooling)} : z \in Zones}

\* publish(): the fans there are once data is published; system fans stay.
PublishedOf(data) ==
  IF ~ data.known \/ active = data
  THEN fans
  ELSE {f \in fans : f.kind = "system"} \cup FansOf(data)

\* publishSystemFans()
WithSystem(set) == {f \in set : f.kind # "system"} \cup SystemFans

\* The detection ends and the system fans are published, or the attempts run out
\* before the product is known.
Detected(known, set) ==
  /\ ~ detected /\ detected' = TRUE
  /\ fans' = IF known THEN WithSystem(set) ELSE set

\* publish() and runDetectFans(), which may end the detection.
Expose(data) ==
  /\ active' = IF data.known THEN data ELSE active
  /\ \/ fans' = PublishedOf(data) /\ UNCHANGED detected
     \/ Detected(data.known, PublishedOf(data))

\* The timer of the detection.
DetectTimer == Detected(hw.known, fans) /\ UNCHANGED <<hw, active, told>>

-----------------------------------------------------------------------------
(* Properties *)

\* The types of the configuration and of the fans: a minimal speed is one the
\* policy allows, and no connector has two fans of different kinds.
FanTypeOK ==
  /\ hw.lists \in [Zones -> SUBSET Nat] /\ hw.min \in [Zones -> Speeds]
  /\ hw.known \in BOOLEAN /\ hw.cooling \in BOOLEAN /\ hw.cpus \subseteq Cpus
  /\ \A f \in fans : f.con \in DOMAIN Connectors
  /\ \A f, g \in fans : f.con = g.con => f.kind = g.kind
  /\ told \subseteq FanOptions

\* What the options told the manager: whether the CPUs have fans of their own,
\* if it is told once or never, and the connectors of a zone, likewise.
ToldCooling == {o.value : o \in {x \in told : x.kind = "cooling" /\ x.value # "other"}}
ToldLists(z) == {o.cons : o \in {x \in told : x.kind = "list" /\ x.zone = z}}
=============================================================================
