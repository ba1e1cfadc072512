----------------------------- MODULE Activator -----------------------------
(***************************************************************************)
(* swupd-activator -a: the tool that activates an uploaded package on the  *)
(* boards it is for, one client of the storage manager beside others.      *)
(*                                                                         *)
(* The tool asks the object mapper for the software objects, reads the     *)
(* properties of one after the other, wants them to be of one package, and *)
(* requests the activation of one after the other. Between any two of      *)
(* these calls the manager goes on, its other clients, too: the objects    *)
(* live as UpdateSession promises (which FirmwareUpdate implements), and   *)
(* each request of the tool is one that begins a session there, is refused *)
(* there, or comes in a state where the manager ignores it. A call that    *)
(* runs into its timeout fails in the tool and may still reach the         *)
(* manager: it is then like a request of another client. The order of the  *)
(* objects is that of their paths, which the model leaves open.            *)
(***************************************************************************)
EXTENDS UpdateSession, FiniteSets

CONSTANTS
  Package, MCU,  \* what an object is for
  Anything       \* no -i or no -t on the command line

ASSUME ObjectAssumption == Object \subseteq [pkg : Package, mcu : MCU]
ASSUME AnythingAssumption == Anything \notin Package \cup MCU

VARIABLE tool

toolVars == <<session, tool>>

\* What the tool is doing, for which target, the objects it has still to read
\* or to request, those it selected, and which of them it read to be running or
\* done. result is how the last tool ended. calm is history: the service has not
\* restarted since the tool began.
Tool == [step : {"idle", "read", "request"}, target : MCU \cup {Anything},
         todo : SUBSET Object, selected : SUBSET Object, running : SUBSET Object,
         calm : BOOLEAN, result : {"none", "done", "refused", "error"}]

ToolIdle(how) ==
  [step |-> "idle", target |-> Anything, todo |-> {}, selected |-> {}, running |-> {},
   calm |-> TRUE, result |-> how]

-----------------------------------------------------------------------------
(* Mutated forms (no action uses them) *)

\* The request that fails is logged and the loop goes on.
RequestErrorLogged(o) ==
  /\ tool.step = "request" /\ o \in tool.todo \ tool.running
  /\ tool' = [tool EXCEPT !.todo = @ \ {o}]
  /\ UNCHANGED session

-----------------------------------------------------------------------------
ToolInit == SessionInit /\ tool = ToolIdle("none")

\* GetSubTree
Starts(version, target) ==
  /\ tool.step = "idle"
  /\ tool' = [ToolIdle("none") EXCEPT !.step = "read", !.target = target,
                !.todo = {o \in Object : session[o] # "None" /\ version \in {o.pkg, Anything}}]
  /\ UNCHANGED session

\* Objects the tool does not request.
PassOver(o) == session[o] \in {"Active", "Activating"}

\* GetAll of an object, which is selected if its target is.
Reads(o) ==
  /\ tool.step = "read" /\ o \in tool.todo /\ session[o] # "None"
  /\ LET found == IF tool.target \in {o.mcu, Anything} THEN {o} ELSE {}
     IN  tool' = [tool EXCEPT
           !.todo = @ \ {o},
           !.selected = @ \cup found,
           !.running = IF PassOver(o) THEN @ \cup found ELSE @]
  /\ UNCHANGED session

\* GetSubTree or GetAll fails, that of an object which is gone for certain: the
\* list is empty.
ReadFails ==
  /\ tool.step = "read"
  /\ tool' = ToolIdle("refused")
  /\ UNCHANGED session

\* The objects are of one package and the user agrees, or nothing is requested.
Selects(agrees) ==
  /\ tool.step = "read" /\ tool.todo = {}
  /\ tool' = IF Cardinality({o.pkg : o \in tool.selected}) = 1 /\ agrees
             THEN [tool EXCEPT !.step = "request", !.todo = tool.selected]
             ELSE ToolIdle("refused")
  /\ UNCHANGED session

\* An object of the list is dealt with: passed over, or its activation set to be
\* requested, which the manager ignores unless it is Ready or Failed.
Requests(o) ==
  /\ tool.step = "request" /\ o \in tool.todo
  /\ tool' = [tool EXCEPT !.todo = @ \ {o}]
  /\ \/ o \in tool.running /\ UNCHANGED session
     \/ o \notin tool.running /\ session[o] \in {"Active", "Activating"} /\ UNCHANGED session
     \/ o \notin tool.running /\ (Start(o) \/ Refuse(o))

\* The object is gone, or the manager does not answer in time. What was requested
\* before is being updated.
RequestFails(o) ==
  /\ tool.step = "request" /\ o \in tool.todo \ tool.running
  /\ tool' = ToolIdle("error")
  /\ UNCHANGED session

Finishes ==
  /\ tool.step = "request" /\ tool.todo = {}
  /\ tool' = ToolIdle("done")
  /\ UNCHANGED session

\* The manager and its other clients
Others ==
  \/ (\E S \in SUBSET Object : Offer(S)) /\ UNCHANGED tool
  \/ (\E o \in Object : Start(o) \/ Refuse(o) \/ Settle(o)) /\ UNCHANGED tool
  \/ Forget /\ tool' = [tool EXCEPT !.calm = tool.step = "idle"]

ToolStep ==
  \/ \E o \in Object : Reads(o) \/ Requests(o) \/ RequestFails(o)
  \/ ReadFails
  \/ \E agrees \in BOOLEAN : Selects(agrees)
  \/ Finishes

ToolNext ==
  \/ Others
  \/ \E version \in Package \cup {Anything}, target \in MCU \cup {Anything} :
       Starts(version, target)
  \/ ToolStep

ToolSpec == ToolInit /\ [][ToolNext]_toolVars

-----------------------------------------------------------------------------
(* Properties *)

\* The type invariant.
ToolTypeOK == SessionTypeOK /\ tool \in Tool

\* A tool that ends well has left none of its targets waiting, whatever the
\* manager and its other clients did since it read their states, unless the
\* service restarted: what it passed over as running does not become Ready
\* again, and what it requested was in a state that the manager takes the
\* request in (swupd_activator.cpp:356: "Firmware is updating").
SuccessStartsAll ==
  [][tool.step = "request" /\ tool'.result = "done" /\ tool.calm =>
       \A o \in tool.selected : session[o] \notin {"None", "Ready"}]_toolVars
=============================================================================
