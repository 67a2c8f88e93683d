------------------------------ MODULE Drivers ------------------------------
(***************************************************************************)
(* The agents' turns under the two drivers that start them: a conversation *)
(* with a real customer, or one run of the test rig.  Nothing the live     *)
(* driver does touches the rig's follow-ups, and there is no customer to   *)
(* keep waiting in the rig.                                                *)
(***************************************************************************)
EXTENDS Conversation, Orchestrator

VARIABLE driver      \* "live" or "rig"

vars == <<driver, turnVars, closed, rigVars>>

TypeOK ==
    /\ driver \in {"live", "rig"}
    /\ TurnTypeOK /\ RigTypeOK
    /\ closed \in BOOLEAN

Init == driver \in {"live", "rig"} /\ TurnInit /\ LiveInit /\ RigInit

AgentStep == TurnNext /\ UNCHANGED <<driver, closed, rigVars>>

LiveDriver ==
    /\ driver = "live"
    /\ LiveStep
    /\ UNCHANGED <<driver, rigVars>>

Customer ==
    /\ driver = "live"
    /\ Say
    /\ UNCHANGED <<driver, rigVars>>

RigDriver ==
    /\ driver = "rig"
    /\ RigStep \/ Schedule
    /\ UNCHANGED <<driver, closed>>

Done ==
    /\ driver = "rig" /\ phase = "over"
    /\ UNCHANGED vars

Next == AgentStep \/ LiveDriver \/ Customer \/ RigDriver \/ Done

Spec == Init /\ [][Next]_vars

\* The model answers or its call times out, tools return, and the loops that
\* wait for them go on.  Nobody owes us another message.
FairSpec == Spec /\ WF_vars(AgentStep) /\ WF_vars(LiveDriver) /\ WF_vars(RigDriver)

\* EveryRunEnds is for the rig only.
EveryRigRunEnds == driver = "rig" => EveryRunEnds
=============================================================================
