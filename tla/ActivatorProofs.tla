-------------------------- MODULE ActivatorProofs --------------------------
(* Proofs about Activator, for any packages, boards and objects.           *)
EXTENDS Activator, TLAPS

\* What the tool knows of the objects while the service does not restart: those
\* it selected exist, and those it read to be running or has requested are past
\* Ready.
Began(o) == session[o] \notin {"None", "Ready"}

Knows ==
  tool.step # "idle" /\ tool.calm =>
    /\ \A o \in tool.selected : session[o] # "None"
    /\ \A o \in tool.running : Began(o)
    /\ tool.step = "request" => \A o \in tool.selected \ tool.todo : Began(o)

NoResultYet == tool.step # "idle" => tool.result = "none"

ToolInv == ToolTypeOK /\ Knows /\ NoResultYet

\* A tool that is idle is well typed.
LEMMA IdleType ==
  ASSUME NEW how \in {"none", "done", "refused", "error"}
  PROVE  ToolIdle(how) \in Tool
  BY DEF ToolIdle, Tool

\* However a session moves, short of a restart: what exists stays, and what is
\* past Ready stays past it.
LEMMA SessionMoves ==
  ASSUME SessionTypeOK,
         \/ \E S \in SUBSET Object : Offer(S)
         \/ \E o \in Object : Start(o) \/ Refuse(o) \/ Settle(o)
  PROVE  /\ SessionTypeOK'
         /\ \A o \in Object : session[o] # "None" => session'[o] # "None"
         /\ \A o \in Object : Began(o) => Began(o)'
<1> USE DEF SessionTypeOK, ActivationState, Began
<1>1. ASSUME NEW S \in SUBSET Object, Offer(S)
      PROVE  /\ SessionTypeOK'
             /\ \A o \in Object : session[o] # "None" => session'[o] # "None"
             /\ \A o \in Object : Began(o) => Began(o)'
  BY <1>1 DEF Offer
<1>2. ASSUME NEW p \in Object, Start(p) \/ Refuse(p) \/ Settle(p)
      PROVE  /\ SessionTypeOK'
             /\ \A o \in Object : session[o] # "None" => session'[o] # "None"
             /\ \A o \in Object : Began(o) => Began(o)'
  BY <1>2 DEF Start, Refuse, Settle
<1> QED
  BY <1>1, <1>2

LEMMA InitToolInv == ToolInit => ToolInv
  BY IdleType DEF ToolInit, SessionInit, ToolInv, ToolTypeOK, SessionTypeOK,
       ActivationState, Knows, NoResultYet, ToolIdle

LEMMA NextToolInv == ToolInv /\ [ToolNext]_toolVars => ToolInv'
<1> SUFFICES ASSUME ToolInv, [ToolNext]_toolVars PROVE ToolInv'
  OBVIOUS
<1> USE DEF ToolInv, ToolTypeOK, Knows, NoResultYet
<1>0. tool \in Tool /\ SessionTypeOK
  OBVIOUS
<1>1. ASSUME UNCHANGED tool,
             \/ \E S \in SUBSET Object : Offer(S)
             \/ \E o \in Object : Start(o) \/ Refuse(o) \/ Settle(o)
      PROVE  ToolInv'
  <2>1. /\ SessionTypeOK'
        /\ \A o \in Object : session[o] # "None" => session'[o] # "None"
        /\ \A o \in Object : Began(o) => Began(o)'
    BY <1>0, <1>1, SessionMoves
  <2>2. tool.selected \subseteq Object /\ tool.running \subseteq Object
    BY <1>0 DEF Tool
  <2> QED
    BY <1>1, <2>1, <2>2
<1>2. CASE Forget /\ tool' = [tool EXCEPT !.calm = tool.step = "idle"]
  <2>1. tool' \in Tool
    BY <1>0, <1>2 DEF Tool
  <2>2. SessionTypeOK'
    BY <1>2 DEF Forget, SessionTypeOK, ActivationState
  <2>3. tool'.step = tool.step /\ tool'.result = tool.result
        /\ (tool'.calm => tool'.step = "idle")
    BY <1>0, <1>2 DEF Tool
  <2> QED
    BY <2>1, <2>2, <2>3
<1>3. ASSUME NEW version \in Package \cup {Anything}, NEW target \in MCU \cup {Anything},
             Starts(version, target)
      PROVE  ToolInv'
  <2>1. tool' \in Tool
    BY <1>3 DEF Starts, ToolIdle, Tool
  <2>2. tool'.step = "read" /\ tool'.selected = {} /\ tool'.running = {}
        /\ tool'.result = "none" /\ UNCHANGED session
    BY <1>3 DEF Starts, ToolIdle
  <2> QED
    BY <2>1, <2>2 DEF SessionTypeOK
<1>4. ASSUME NEW how \in {"none", "done", "refused", "error"}, tool' = ToolIdle(how),
             UNCHANGED session
      PROVE  ToolInv'
  BY <1>0, <1>4, IdleType DEF ToolIdle, SessionTypeOK
<1>5. ASSUME NEW o \in Object, Reads(o) PROVE ToolInv'
  <2> DEFINE found == IF tool.target \in {o.mcu, Anything} THEN {o} ELSE {}
  <2>1. /\ tool' \in Tool /\ UNCHANGED session
        /\ tool'.step = "read" /\ tool.step = "read"
        /\ tool'.calm = tool.calm /\ tool'.result = tool.result
        /\ tool'.selected = tool.selected \cup found
        /\ tool'.running = IF PassOver(o) THEN tool.running \cup found ELSE tool.running
    BY <1>0, <1>5 DEF Reads, Tool
  <2>2. \A q \in found : session[q] # "None" /\ (PassOver(q) => Began(q)) /\ q = o
    BY <1>5 DEF Reads, PassOver, Began
  <2> QED
    BY <2>1, <2>2 DEF SessionTypeOK, Began
<1>6. ASSUME NEW agrees \in BOOLEAN, Selects(agrees) PROVE ToolInv'
  <2>1. CASE tool' = ToolIdle("refused")
    BY <1>4, <1>6, <2>1 DEF Selects
  <2>2. CASE tool' = [tool EXCEPT !.step = "request", !.todo = tool.selected]
    <3>1. /\ tool' \in Tool /\ UNCHANGED session
          /\ tool'.step = "request" /\ tool.step = "read"
          /\ tool'.calm = tool.calm /\ tool'.result = tool.result
          /\ tool'.selected = tool.selected /\ tool'.todo = tool.selected
          /\ tool'.running = tool.running
      BY <1>0, <1>6, <2>2 DEF Selects, Tool
    <3> QED
      BY <3>1 DEF SessionTypeOK, Began
  <2> QED
    BY <1>6, <2>1, <2>2 DEF Selects
<1>7. ASSUME NEW o \in Object, Requests(o) PROVE ToolInv'
  <2>1. /\ tool' \in Tool
        /\ tool'.step = "request" /\ tool.step = "request"
        /\ tool'.calm = tool.calm /\ tool'.result = tool.result
        /\ tool'.selected = tool.selected /\ tool'.running = tool.running
        /\ tool'.todo = tool.todo \ {o}
    BY <1>0, <1>7 DEF Requests, Tool
  <2>2. tool.selected \subseteq Object /\ tool.running \subseteq Object
    BY <1>0 DEF Tool
  <2>3. CASE UNCHANGED session
    <3>1. tool.calm /\ o \in tool.selected => Began(o)
      <4>1. CASE o \in tool.running
        BY <2>1, <4>1
      <4>2. CASE session[o] \in {"Active", "Activating"}
        BY <4>2 DEF Began
      <4>3. CASE Start(o) \/ Refuse(o)
        BY <2>3, <4>3, <1>0 DEF Start, Refuse, SessionTypeOK, Began
      <4> QED
        BY <1>7, <4>1, <4>2, <4>3 DEF Requests
    <3> QED
      BY <2>1, <2>3, <3>1 DEF SessionTypeOK, Began
  <2>4. CASE Start(o) \/ Refuse(o)
    <3>1. /\ SessionTypeOK'
          /\ \A q \in Object : session[q] # "None" => session'[q] # "None"
          /\ \A q \in Object : Began(q) => Began(q)'
      BY <1>0, <2>4, SessionMoves
    <3>2. Began(o)'
      BY <1>0, <2>4 DEF Start, Refuse, SessionTypeOK, Began
    <3> QED
      BY <2>1, <2>2, <3>1, <3>2
  <2> QED
    BY <1>7, <2>3, <2>4 DEF Requests
<1>8. CASE UNCHANGED toolVars
  BY <1>8 DEF toolVars, SessionTypeOK, Began
<1>9. CASE Others
  BY <1>1, <1>2, <1>9 DEF Others
<1>10. CASE ToolStep
  BY <1>4, <1>5, <1>6, <1>7, <1>10 DEF ToolStep, RequestFails, ReadFails, Finishes
<1> QED
  BY <1>3, <1>8, <1>9, <1>10 DEF ToolNext

LEMMA ToolInductive == ToolSpec => []ToolInv
  BY InitToolInv, NextToolInv, PTL DEF ToolSpec

-----------------------------------------------------------------------------
\* A tool that reports success has left no target waiting, for any number of
\* packages and boards and whatever other clients do meanwhile.
THEOREM ToolStartsAll == ToolSpec => SuccessStartsAll
<1> DEFINE Right == tool.step = "request" /\ tool'.result = "done" /\ tool.calm =>
                      \A o \in tool.selected : session[o] \notin {"None", "Ready"}
<1>1. ToolInv /\ [ToolNext]_toolVars => [Right]_toolVars
  <2> SUFFICES ASSUME ToolInv, ToolNext, tool.step = "request", tool'.result = "done",
                      tool.calm
               PROVE  \A o \in tool.selected : session[o] \notin {"None", "Ready"}
    BY DEF toolVars
  <2>1. CASE Finishes
    BY <2>1 DEF Finishes, ToolInv, Knows, Began
  <2>2. CASE ~ Finishes
    <3>1. tool.result = "none" /\ tool \in Tool
      BY DEF ToolInv, NoResultYet, ToolTypeOK
    <3>2. tool'.result # "done"
      BY <2>2, <3>1 DEF ToolNext, Others, ToolStep, Starts, Reads, ReadFails, Selects,
           Requests, RequestFails, ToolIdle, Tool
    <3> QED
      BY <3>2
  <2> QED
    BY <2>1, <2>2
<1>2. SuccessStartsAll <=> [][Right]_toolVars
  BY DEF SuccessStartsAll
<1> HIDE DEF Right
<1> QED
  BY <1>1, <1>2, ToolInductive, PTL DEF ToolSpec
=============================================================================
