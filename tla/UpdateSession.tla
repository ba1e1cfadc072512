--------------------------- MODULE UpdateSession ---------------------------
(***************************************************************************)
(* What the D-Bus client of a firmware package is promised: the life of    *)
(* the Activation property of one software object per package and MCU.     *)
(*                                                                         *)
(*   None --> Ready --> Activating --> Active                              *)
(*              |         ^     \                                          *)
(*              +-> Failed+------+-> Failed                                *)
(*                                                                         *)
(* A session that is Activating settles once, Active is final, and the     *)
(* restart of the service forgets every session.                           *)
(***************************************************************************)

CONSTANT Object         \* one software object per package and MCU

VARIABLE session        \* the Activation property of every object

ActivationState == {"None", "Ready", "Activating", "Active", "Failed"}

SessionTypeOK == session \in [Object -> ActivationState]

SessionInit == session = [o \in Object |-> "None"]

\* A new package offers an object to some of the MCUs.
Offer(S) ==
  /\ \A o \in S : session[o] = "None"
  /\ session' = [o \in Object |-> IF o \in S THEN "Ready" ELSE session[o]]

\* A requested activation begins ...
Start(o) ==
  /\ session[o] \in {"Ready", "Failed"}
  /\ session' = [session EXCEPT ![o] = "Activating"]

\* ... or is refused at once.
Refuse(o) ==
  /\ session[o] \in {"Ready", "Failed"}
  /\ session' = [session EXCEPT ![o] = "Failed"]

\* The activation in progress succeeds or fails.
Settle(o) ==
  /\ session[o] = "Activating"
  /\ \E result \in {"Active", "Failed"} :
       session' = [session EXCEPT ![o] = result]

Forget == session' = [o \in Object |-> "None"]

SessionNext ==
  \/ \E S \in SUBSET Object : Offer(S)
  \/ \E o \in Object : Start(o) \/ Refuse(o) \/ Settle(o)
  \/ Forget

SessionSafety == SessionInit /\ [][SessionNext]_session

\* Every session that is Activating settles (or is forgotten).
SessionSpec == SessionSafety /\ \A o \in Object : WF_session(Settle(o))
=============================================================================
