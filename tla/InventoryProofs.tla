-------------------------- MODULE InventoryProofs --------------------------
(* Proofs about Inventory, for any product of the registry, any options,   *)
(* zones and CPUs, and any number of scans.                                *)
EXTENDS Inventory, PcieConfigProofs

Data ==
  [known : BOOLEAN, cooling : BOOLEAN, cpus : SUBSET Cpus,
   lists : [Zones -> SUBSET Nat], min : [Zones -> Speeds]]

\* What the configuration holds is what the motherboard has told in this scan:
\* the value of one of the options that set it, or nothing.
AsTold ==
  /\ \A z \in Zones : hw.lists[z] \in ToldLists(z) \/ (ToldLists(z) = {} /\ hw.lists[z] = {})
  /\ hw.cooling => "active" \in ToldCooling
  /\ ~ hw.cooling => "active" \notin ToldCooling \/ "passive" \in ToldCooling

\* The published fans are those of configActive, besides system fans.
AsActive ==
  /\ \A f \in fans : f.kind # "system" => f \in FansOf(active)
  /\ FansOf(active) \subseteq fans
  /\ \A f \in fans : f.kind = "system" => f \in SystemFans

InventoryInv ==
  /\ scanning <=> phase \in {"boards", "main"}
  /\ hw \in Data /\ active \in Data /\ told \subseteq FanOptions
  /\ AsActive
  /\ phase = "main" => AsTold

-----------------------------------------------------------------------------
(* Fans *)

LEMMA NoDataType == NoData \in Data /\ FansOf(NoData) = {}
<1>1. NoData \in Data
  BY DEF NoData, Data, Speeds
<1>2. FansOf(NoData) = {}
  BY DEF FansOf, NoData
<1> QED
  BY <1>1, <1>2

\* The fans of a configuration are fans of CPUs or of free connectors.
LEMMA FansOfType ==
  ASSUME NEW data \in Data, NEW f \in FansOf(data)
  PROVE  \/ f.kind = "cpu" /\ f.con \in OfType("CPU") /\ data.cooling
         \/ f.kind = "chassis" /\ f.con \in Free(data.cooling)
<1>1. CASE \E c \in OfType("CPU") : data.cooling /\ f = Fan("cpu", c, "own")
  BY <1>1 DEF Fan
<1>2. CASE \E z \in Zones : \E c \in data.lists[z] \cap Free(data.cooling) : f = Fan("chassis", c, z)
  BY <1>2 DEF Fan
<1> QED
  BY <1>1, <1>2 DEF FansOf

LEMMA SystemFansType == \A f \in SystemFans : f.kind = "system" /\ f.con \in OfType("SYSTEM")
  BY DEF SystemFans, Fan

\* No connector is of two types, and free ones are not of fans of another kind.
LEMMA TypesApart ==
  /\ OfType("SYSTEM") \cap OfType("CPU") = {}
  /\ \A cooling \in BOOLEAN : OfType("SYSTEM") \cap Free(cooling) = {}
  /\ OfType("CPU") \cap Free(TRUE) = {}
  BY DEF OfType, Free

LEMMA ConnectorsOnly ==
  /\ \A type : OfType(type) \subseteq DOMAIN Connectors
  /\ \A cooling : Free(cooling) \subseteq DOMAIN Connectors
  BY DEF OfType, Free

\* The system fans replace what there is of them and leave the others.
LEMMA WithSystemType ==
  ASSUME NEW data \in Data, NEW set,
         \A f \in set : f.kind # "system" => f \in FansOf(data), FansOf(data) \subseteq set
  PROVE  /\ \A f \in WithSystem(set) : f.kind # "system" => f \in FansOf(data)
         /\ FansOf(data) \subseteq WithSystem(set)
         /\ \A f \in WithSystem(set) : f.kind = "system" => f \in SystemFans
  BY SystemFansType, FansOfType DEF WithSystem

\* Whatever was published before, publishing a known product leaves its fans.
LEMMA ExposeIsRight ==
  ASSUME InventoryInv, NEW data \in Data, Expose(data)
  PROVE  /\ active' \in Data /\ AsActive'
         /\ data.known => active' = data
<1>1. active' \in Data /\ (data.known => active' = data)
  BY DEF Expose, InventoryInv
<1> DEFINE set == PublishedOf(data)
<1>2. /\ \A f \in set : f.kind # "system" => f \in FansOf(active')
      /\ FansOf(active') \subseteq set
      /\ \A f \in set : f.kind = "system" => f \in SystemFans
  <2>1. CASE ~ data.known \/ active = data
    <3>1. set = fans /\ active' = active
      BY <2>1 DEF PublishedOf, Expose
    <3> QED
      BY <3>1 DEF InventoryInv, AsActive
  <2>2. CASE data.known /\ active # data
    <3>1. set = {f \in fans : f.kind = "system"} \cup FansOf(data) /\ active' = data
      BY <2>2 DEF PublishedOf, Expose
    <3> HIDE DEF set
    <3> QED
      BY <3>1, FansOfType DEF InventoryInv, AsActive
  <2> QED
    BY <2>1, <2>2
<1> HIDE DEF set
<1>3. CASE fans' = set
  BY <1>1, <1>2, <1>3 DEF AsActive
<1>4. CASE fans' = WithSystem(set)
  BY <1>1, <1>2, <1>4, WithSystemType DEF AsActive
<1> QED
  BY <1>1, <1>3, <1>4 DEF Expose, Detected, set

-----------------------------------------------------------------------------
(* Options *)

\* An option the manager is told is told, and takes the place of those before.
LEMMA OptionIsTold ==
  ASSUME InventoryInv, phase = "main", NEW o \in FanOptions, SetOption(o)
  PROVE  hw' \in Data /\ AsTold'
<1> USE FanOptionAssumption
<1>0. o \in FanOption /\ told' = told \cup {o} /\ hw \in Data /\ AsTold
  BY DEF SetOption, InventoryInv
<1>1. CASE CpuCooling(o)
  <2>1. /\ hw' \in Data /\ hw'.lists = hw.lists
        /\ hw'.cooling = IF o.value = "other" THEN hw.cooling ELSE o.value = "active"
    BY <1>0, <1>1 DEF CpuCooling, Data
  <2>2. o.value \in {"passive", "active", "other"}
    BY <1>0, <1>1 DEF CpuCooling, FanOption
  <2>3. \A z \in Zones : ToldLists(z)' = ToldLists(z)
    BY <1>0, <1>1 DEF CpuCooling, ToldLists
  <2>4. ToldCooling' = IF o.value = "other" THEN ToldCooling ELSE ToldCooling \cup {o.value}
    BY <1>0, <1>1 DEF CpuCooling, ToldCooling
  <2> QED
    BY <1>0, <2>1, <2>2, <2>3, <2>4 DEF AsTold
<1>2. CASE ChassisFans(o)
  <2>1. o.zone \in Zones /\ o.cons \in SUBSET Nat
    BY <1>0, <1>2 DEF ChassisFans, FanOption
  <2>2. /\ hw' \in Data /\ hw'.cooling = hw.cooling
        /\ \A z \in Zones : hw'.lists[z] = IF z = o.zone THEN o.cons ELSE hw.lists[z]
    BY <1>0, <1>2, <2>1 DEF ChassisFans, Data
  <2>3. \A z \in Zones :
          ToldLists(z)' = IF z = o.zone THEN ToldLists(z) \cup {o.cons} ELSE ToldLists(z)
    BY <1>0, <1>2 DEF ChassisFans, ToldLists
  <2>4. ToldCooling' = ToldCooling
    BY <1>0, <1>2 DEF ChassisFans, ToldCooling
  <2> QED
    BY <1>0, <2>1, <2>2, <2>3, <2>4 DEF AsTold
<1>3. CASE PidZoneMinSpeed(o)
  <2>1. o.zone \in Zones
    BY <1>0, <1>3 DEF PidZoneMinSpeed, FanOption
  <2>2. hw' \in Data /\ hw'.cooling = hw.cooling /\ hw'.lists = hw.lists
    BY <1>0, <1>3, <2>1 DEF PidZoneMinSpeed, Data
  <2>3. ToldCooling' = ToldCooling /\ \A z \in Zones : ToldLists(z)' = ToldLists(z)
    BY <1>0, <1>3 DEF PidZoneMinSpeed, ToldCooling, ToldLists
  <2> QED
    BY <1>0, <2>2, <2>3 DEF AsTold
<1> QED
  BY <1>1, <1>2, <1>3 DEF SetOption

-----------------------------------------------------------------------------
(* Steps *)

LEMMA InitInventory == InventoryInit => InventoryInv
<1> SUFFICES ASSUME InventoryInit PROVE InventoryInv
  OBVIOUS
<1>1. scanning = FALSE /\ phase = "done"
  BY DEF InventoryInit, Init
<1>2. hw = NoData /\ active = NoData /\ told = {} /\ fans = {}
  BY DEF InventoryInit, FanInit
<1>3. AsActive
  BY <1>2, NoDataType DEF AsActive
<1> QED
  BY <1>1, <1>2, <1>3, NoDataType DEF InventoryInv

\* Reading the CPUs changes nothing the options have said.
LEMMA CpusAreData ==
  ASSUME hw \in Data, NEW present \in SUBSET Cpus
  PROVE  /\ [hw EXCEPT !.cpus = present] \in Data
         /\ \A d : d = [hw EXCEPT !.cpus = present] =>
              /\ d.cpus = present /\ d.lists = hw.lists
              /\ d.cooling = hw.cooling /\ d.known = hw.known
  BY DEF Data

LEMMA NextInventory == InventoryInv /\ [InventoryNext]_allVars => InventoryInv'
<1> SUFFICES ASSUME InventoryInv, [InventoryNext]_allVars PROVE InventoryInv'
  OBVIOUS
<1>1. CASE ScanBegins
  BY <1>1 DEF ScanBegins, Scan, fanVars, InventoryInv, AsActive
<1>2. ASSUME NEW option \in Option, PcieOption(option) PROVE InventoryInv'
  BY <1>2 DEF PcieOption, AddBifurcationConfig, fanVars, InventoryInv, AsActive, AsTold,
              ToldLists, ToldCooling
<1>3. ASSUME NEW known \in BOOLEAN, Motherboard(known) PROVE InventoryInv'
  <2>1. hw' \in Data /\ hw'.cooling = FALSE /\ \A z \in Zones : hw'.lists[z] = {}
    BY <1>3, NoDataType DEF Motherboard, Reset, NoData, Data
  <2>2. AsTold'
    BY <1>3, <2>1 DEF Motherboard, Reset, AsTold, ToldLists, ToldCooling
  <2> QED
    BY <1>3, <2>1, <2>2 DEF Motherboard, Reset, vars, InventoryInv, AsActive
<1>4. ASSUME NEW o \in FanOptions, ManagerOption(o) PROVE InventoryInv'
  <2>1. hw' \in Data /\ AsTold'
    BY <1>4, OptionIsTold DEF ManagerOption
  <2>2. told' \subseteq FanOptions /\ UNCHANGED <<active, fans, scanning, phase>>
    BY <1>4 DEF ManagerOption, SetOption, InventoryInv
  <2> QED
    BY <2>1, <2>2 DEF InventoryInv, AsActive
<1>5. ASSUME NEW present \in SUBSET Cpus, CpusUnknown(present) PROVE InventoryInv'
  <2>1. hw' \in Data
    BY <1>5, CpusAreData DEF CpusUnknown, InventoryInv
  <2>2. scanning' = FALSE /\ phase' = "failed" /\ UNCHANGED <<active, fans, told>>
    BY <1>5 DEF CpusUnknown, Destroy
  <2> QED
    BY <2>1, <2>2 DEF InventoryInv, AsActive
<1>6. ASSUME NEW present \in SUBSET Cpus, Completes(present) PROVE InventoryInv'
  <2>1. hw' \in Data
    BY <1>6, CpusAreData DEF Completes, InventoryInv
  <2>2. active' \in Data /\ AsActive'
    BY <1>6, <2>1, ExposeIsRight DEF Completes
  <2>3. scanning' = FALSE /\ phase' = "done" /\ told' = told
    BY <1>6 DEF Completes, Destroy
  <2> QED
    BY <2>1, <2>2, <2>3 DEF InventoryInv
<1>7. CASE Detects
  <2>1. AsActive'
    <3>1. CASE fans' = fans
      BY <1>7, <3>1 DEF Detects, DetectTimer, InventoryInv, AsActive
    <3>2. CASE fans' = WithSystem(fans)
      BY <1>7, <3>2, WithSystemType DEF Detects, DetectTimer, InventoryInv, AsActive
    <3> QED
      BY <1>7, <3>1, <3>2 DEF Detects, DetectTimer, Detected
  <2> QED
    BY <1>7, <2>1 DEF Detects, DetectTimer, vars, InventoryInv
<1>8. CASE UNCHANGED allVars
  BY <1>8 DEF allVars, vars, fanVars, InventoryInv, AsActive, AsTold, ToldLists, ToldCooling
<1> QED
  BY <1>1, <1>2, <1>3, <1>4, <1>5, <1>6, <1>7, <1>8 DEF InventoryNext, Options

LEMMA InventoryInductive == InventorySpec => []InventoryInv
  BY InitInventory, NextInventory, PTL DEF InventorySpec

-----------------------------------------------------------------------------
\* A minimal speed the policy does not allow is never kept, every published fan
\* is on a connector of the product, and a zone never drives the connector of a
\* system fan or of a CPU with a fan of its own, whatever the FRU says.
THEOREM FansAreApart == InventorySpec => []FanTypeOK
<1>1. InventoryInv => FanTypeOK
  <2> SUFFICES ASSUME InventoryInv PROVE FanTypeOK
    OBVIOUS
  <2>1. \A f \in fans :
          \/ f.kind = "system" /\ f.con \in OfType("SYSTEM")
          \/ f.kind = "cpu" /\ f.con \in OfType("CPU") /\ active.cooling
          \/ f.kind = "chassis" /\ f.con \in Free(active.cooling)
    BY FansOfType, SystemFansType DEF InventoryInv, AsActive
  <2>2. active.cooling \in BOOLEAN
    BY DEF InventoryInv, Data
  <2>3. \A f \in fans : f.con \in DOMAIN Connectors
    BY <2>1, ConnectorsOnly
  <2>4. \A f, g \in fans : f.con = g.con => f.kind = g.kind
    BY <2>1, <2>2, TypesApart
  <2> QED
    BY <2>3, <2>4 DEF InventoryInv, Data, FanTypeOK
<1> QED
  BY <1>1, InventoryInductive, PTL

\* Whatever earlier scans had read, published or given up, a scan that ends
\* leaves exactly the fans its options ask for.
THEOREM FansAreAsTold == InventorySpec => FansFollowScan
<1> DEFINE Follow ==
      phase = "main" /\ phase' = "done" /\ hw.known =>
        /\ \A z \in Zones : \A list \in {{}} \cup ToldLists(z) : ToldLists(z) \subseteq {list} =>
             {f.con : f \in {g \in fans' : g.kind = "chassis" /\ g.zone = z}}
               = list \cap Free(hw.cooling)
        /\ ToldCooling # {"active", "passive"} => hw.cooling = (ToldCooling = {"active"})
        /\ {Connectors[f.con].fanIndex : f \in {g \in fans' : g.kind = "cpu"}}
             = IF hw.cooling THEN {Connectors[c].fanIndex : c \in OfType("CPU")} \cap hw'.cpus
                             ELSE {}
<1>1. InventoryInv /\ [InventoryNext]_allVars => [Follow]_allVars
  <2> SUFFICES ASSUME InventoryInv, InventoryNext, phase = "main", phase' = "done", hw.known
               PROVE  Follow
    BY DEF allVars
  <2>1. PICK present \in SUBSET Cpus : Completes(present)
    BY DEF InventoryNext, ScanBegins, PcieOption, Motherboard, ManagerOption, CpusUnknown,
           Detects
  <2>2. /\ hw' \in Data /\ hw'.lists = hw.lists
        /\ hw'.cooling = hw.cooling /\ hw'.known = hw.known
    BY <2>1, CpusAreData DEF Completes, InventoryInv
  <2>3. active' = hw' /\ AsActive'
    BY <2>1, <2>2, ExposeIsRight DEF Completes
  <2>4. AsTold
    BY DEF InventoryInv
  <2>5. \A f : f \in fans' /\ f.kind # "system" <=> f \in FansOf(hw')
    BY <2>2, <2>3, FansOfType DEF AsActive
  <2>6. ASSUME NEW z \in Zones, NEW list \in {{}} \cup ToldLists(z), ToldLists(z) \subseteq {list}
        PROVE  {f.con : f \in {g \in fans' : g.kind = "chassis" /\ g.zone = z}}
                 = list \cap Free(hw.cooling)
    <3>1. hw.lists[z] = list
      BY <2>4, <2>6 DEF AsTold
    <3>2. \A f : f \in FansOf(hw') /\ f.kind = "chassis" /\ f.zone = z
                  <=> \E c \in list \cap Free(hw.cooling) : f = Fan("chassis", c, z)
      BY <2>2, <3>1 DEF FansOf, Fan
    <3>3. \A c : LET f == Fan("chassis", c, z)
                IN f.kind = "chassis" /\ f.zone = z /\ f.con = c
      BY DEF Fan
    <3> DEFINE mine == {g \in fans' : g.kind = "chassis" /\ g.zone = z}
    <3>4. \A f : f \in mine <=> \E c \in list \cap Free(hw.cooling) : f = Fan("chassis", c, z)
      BY <2>5, <3>2, <3>3
    <3> HIDE DEF mine
    <3>5. {f.con : f \in mine} = list \cap Free(hw.cooling)
      BY <3>3, <3>4
    <3> QED
      BY <3>5 DEF mine
  <2>7. ToldCooling # {"active", "passive"} => hw.cooling = (ToldCooling = {"active"})
    <3>1. ToldCooling \subseteq {"active", "passive"}
      BY FanOptionAssumption DEF InventoryInv, ToldCooling, FanOption
    <3>2. hw.cooling \in BOOLEAN
      BY DEF InventoryInv, Data
    <3> QED
      BY <2>4, <3>1, <3>2 DEF AsTold
  <2>8. {Connectors[f.con].fanIndex : f \in {g \in fans' : g.kind = "cpu"}}
          = IF hw.cooling THEN {Connectors[c].fanIndex : c \in OfType("CPU")} \cap hw'.cpus
                          ELSE {}
    <3>1. \A f : f \in FansOf(hw') /\ f.kind = "cpu"
                  <=> \E c \in OfType("CPU") : /\ hw.cooling /\ Connectors[c].fanIndex \in hw'.cpus
                                               /\ f = Fan("cpu", c, "own")
      BY <2>2 DEF FansOf, Fan
    <3>2. \A c : LET f == Fan("cpu", c, "own") IN f.kind = "cpu" /\ f.con = c
      BY DEF Fan
    <3> DEFINE mine == {g \in fans' : g.kind = "cpu"}
    <3>3. \A f : f \in mine <=>
            \E c \in OfType("CPU") : /\ hw.cooling /\ Connectors[c].fanIndex \in hw'.cpus
                                    /\ f = Fan("cpu", c, "own")
      BY <2>5, <3>1, <3>2
    <3> HIDE DEF mine
    <3>4. CASE hw.cooling
      <4>1. {Connectors[f.con].fanIndex : f \in mine} \subseteq
              {Connectors[c].fanIndex : c \in OfType("CPU")} \cap hw'.cpus
        BY <3>2, <3>3
      <4>2. {Connectors[c].fanIndex : c \in OfType("CPU")} \cap hw'.cpus \subseteq
              {Connectors[f.con].fanIndex : f \in mine}
        BY <3>2, <3>3, <3>4
      <4> QED
        BY <3>4, <4>1, <4>2 DEF mine
    <3>5. CASE ~ hw.cooling
      BY <3>3, <3>5 DEF mine
    <3> QED
      BY <3>4, <3>5
  <2> QED
    BY <2>6, <2>7, <2>8
<1>2. FansFollowScan <=> [][Follow]_allVars
  BY DEF FansFollowScan
<1> HIDE DEF Follow
<1> QED
  BY <1>1, <1>2, InventoryInductive, PTL DEF InventorySpec

\* To pcieCfg a scan of the manager is a scan: the options for the manager are
\* like options it does not handle. So all that is proved of PcieConfig holds.
THEOREM ImplementsPcieConfig == InventorySpec => Spec
<1>1. InventoryInit => Init
  BY DEF InventoryInit
<1>2. InventoryInv /\ [InventoryNext]_allVars => [Next]_vars
  <2> SUFFICES ASSUME InventoryInv, [InventoryNext]_allVars PROVE [Next]_vars
    OBVIOUS
  <2>1. CASE ScanBegins
    BY <2>1 DEF ScanBegins, Next
  <2>2. ASSUME NEW option \in Option, PcieOption(option) PROVE [Next]_vars
    BY <2>2 DEF PcieOption, Next
  <2>3. ASSUME NEW o \in FanOptions, ManagerOption(o) PROVE [Next]_vars
    <3> DEFINE unhandled == [port |-> "short", byte |-> Idle]
    <3>1. unhandled \in Option /\ unhandled.port = "short"
      BY DEF Option, Idle, Byte, Digit
    <3> HIDE DEF unhandled
    <3>2. AddBifurcationConfig(unhandled)
      BY <2>3, <3>1 DEF ManagerOption, AddBifurcationConfig, InventoryInv
    <3> QED
      BY <3>1, <3>2 DEF Next
  <2>4. ASSUME NEW present \in SUBSET Cpus, CpusUnknown(present) \/ Completes(present)
        PROVE  [Next]_vars
    BY <2>4 DEF CpusUnknown, Completes, Next
  <2>5. CASE \E known \in BOOLEAN : Motherboard(known)
    BY <2>5 DEF Motherboard
  <2>6. CASE Detects \/ UNCHANGED allVars
    BY <2>6 DEF Detects, allVars
  <2> QED
    BY <2>1, <2>2, <2>3, <2>4, <2>5, <2>6 DEF InventoryNext, Options
<1> QED
  BY <1>1, <1>2, InventoryInductive, PTL DEF InventorySpec, Spec

\* Lanes are kept and the order of the boards makes no difference also with the
\* scans of the manager, given up or finished.
THEOREM LanesAreKeptInScans == InventorySpec => [](ClaimsHonoured /\ OrderFree)
  BY ImplementsPcieConfig, LanesAreKept, OrderMakesNoDifference, PTL
=============================================================================
