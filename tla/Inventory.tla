----------------------------- MODULE Inventory -----------------------------
(***************************************************************************)
(* createInventory() of yadro-hw-manager: one scan of the FRUs reads the   *)
(* configuration of the fans (FanConfig) and claims PCIe lanes             *)
(* (PcieConfig). The boards before the motherboard in the order of paths   *)
(* only have options for pcieCfg, the motherboard for both; it ends the    *)
(* loop. A scan is given up, and repeated later, when the CPUs cannot be   *)
(* read; pcieCfg sets what it has all the same.                            *)
(*                                                                         *)
(* A scan does not let other handlers run. MaxClaims bounds the options of *)
(* a scan, of both kinds together. A scan whose FRUs cannot be read does   *)
(* nothing and is no step.                                                 *)
(***************************************************************************)
EXTENDS PcieConfig, FanConfig

CONSTANT Bytes \* the bytes of options for pcieCfg

ASSUME BytesAssumption == Bytes \subseteq Byte

Options == {o \in Option : o.byte \in Bytes}

VARIABLE phase \* "boards", "main" (the motherboard), or how the last scan ended

allVars == <<vars, fanVars, phase>>

InventoryInit == Init /\ FanInit /\ phase = "done"

\* The FRUs are read.
ScanBegins ==
  /\ Scan
  /\ phase' = "boards" /\ UNCHANGED fanVars

\* handleOption() for pcieCfg
PcieOption(option) ==
  /\ AddBifurcationConfig(option)
  /\ UNCHANGED <<fanVars, phase>>

\* The motherboard: its name is known to the registry or not.
Motherboard(known) ==
  /\ phase = "boards" /\ phase' = "main"
  /\ Reset(known)
  /\ UNCHANGED <<vars, active, fans, detected>>

\* handleOption() for the manager
ManagerOption(o) ==
  /\ phase = "main" /\ met < MaxClaims
  /\ met' = met + 1
  /\ SetOption(o)
  /\ UNCHANGED <<scanning, cfg, settings, kept, refused, scans, phase>>

\* cpuPresenceUpdate() fails after some of the CPUs; the scan is put off.
CpusUnknown(present) ==
  /\ phase = "main" /\ hw.cooling
  /\ hw' = [hw EXCEPT !.cpus = present]
  /\ Destroy
  /\ phase' = "failed"
  /\ UNCHANGED <<active, fans, detected, told>>

\* The scan is over; with fans of their own the CPUs have been looked for.
Completes(present) ==
  /\ phase \in {"boards", "main"} /\ phase' = "done"
  /\ hw' = IF phase = "main" /\ hw.cooling THEN [hw EXCEPT !.cpus = present] ELSE hw
  /\ Expose(hw')
  /\ Destroy
  /\ UNCHANGED told

\* The detection goes on between the scans.
Detects ==
  /\ ~ scanning
  /\ DetectTimer
  /\ UNCHANGED <<vars, phase>>

InventoryNext ==
  \/ ScanBegins
  \/ \E option \in Options : PcieOption(option)
  \/ \E known \in BOOLEAN : Motherboard(known)
  \/ \E o \in FanOptions : ManagerOption(o)
  \/ \E present \in SUBSET Cpus : CpusUnknown(present) \/ Completes(present)
  \/ Detects

InventorySpec == InventoryInit /\ [][InventoryNext]_allVars

-----------------------------------------------------------------------------
(* Properties *)

\* A scan that has read the motherboard of a known product and ends leaves
\* exactly the fans it was told of: a zone has those of its list that are free
\* for it, a CPU that is present has one if CPUs have their own, and nothing is
\* left of what an earlier scan, finished or given up, had read or published.
\* (What an option says that is repeated with another value is left open.)
FansFollowScan ==
  [][phase = "main" /\ phase' = "done" /\ hw.known =>
       /\ \A z \in Zones : \A list \in {{}} \cup ToldLists(z) : ToldLists(z) \subseteq {list} =>
            {f.con : f \in {g \in fans' : g.kind = "chassis" /\ g.zone = z}}
              = list \cap Free(hw.cooling)
       /\ ToldCooling # {"active", "passive"} => hw.cooling = (ToldCooling = {"active"})
       /\ {Connectors[f.con].fanIndex : f \in {g \in fans' : g.kind = "cpu"}}
            = IF hw.cooling THEN {Connectors[c].fanIndex : c \in OfType("CPU")} \cap hw'.cpus
                            ELSE {}]_allVars
=============================================================================
