---------------------------- MODULE Conversation ----------------------------
(***************************************************************************)
(* LiveConversation (src/plumbing/live/conversation.py): one real customer *)
(* advanced a message at a time.  say starts turns until one of them has   *)
(* an answer.  The lines that call say, one at a time, are Inbound.        *)
(***************************************************************************)
EXTENDS Turn

CONSTANT
    MaxRounds        \* turns of one say: max_tool_calls_per_turn again

ASSUME ConversationAssumption == MaxRounds \in Nat \ {0}

VARIABLE
    closed

LiveInit == closed = FALSE

\* A plausible slip: the count of transfers outlives the process.
RestartCountKept ==
    /\ closed' = FALSE
    /\ switches' = 0
    /\ active' = Entry
    /\ ended' = FALSE
    /\ UNCHANGED <<request, handedTo, handoffs>>

\* A closed process reopens as a new one, with the entry agent.
Restart ==
    /\ closed' = FALSE
    /\ handoffs' = 0 /\ switches' = 0
    /\ active' = Entry
    /\ ended' = FALSE
    /\ UNCHANGED <<request, handedTo>>

Say ==
    /\ at = "waiting"
    /\ IF closed THEN Restart ELSE UNCHANGED <<active, signals, counts, closed>>
    /\ rounds' = 0
    /\ Respond

\* Not an agent of this deployment: told so, and asked again.
TransferNowhere ==
    /\ at = "turned" /\ turn.kind = "handoff"
    /\ turn.to \notin Enabled
    /\ NextRound(MaxRounds)
    /\ UNCHANGED <<active, signals, counts, closed>>

TransferTooMany ==
    /\ at = "turned" /\ turn.kind = "handoff"
    /\ turn.to \in Enabled
    /\ OverLimit
    /\ handoffs' = MaxHandoffs + 1
    /\ NextRound(MaxRounds)
    /\ UNCHANGED <<active, signals, switches, closed>>

Switch ==
    /\ at = "turned" /\ turn.kind = "handoff"
    /\ turn.to \in Enabled
    /\ TakeOver(turn.to)
    /\ NextRound(MaxRounds)
    /\ UNCHANGED closed

Close ==
    /\ at = "turned" /\ turn.kind = "ended"
    /\ closed' = TRUE
    /\ Rest("waiting")
    /\ UNCHANGED <<active, signals, counts, rounds>>

Deliver ==
    /\ at = "turned" /\ turn.kind = "reply"
    /\ Rest("waiting")
    /\ UNCHANGED <<active, signals, counts, rounds, closed>>

\* Nothing was said: the agent is told that the customer heard nothing.
Nudge ==
    /\ at = "turned" /\ turn.kind = "silent"
    /\ NextRound(MaxRounds)
    /\ UNCHANGED <<active, signals, counts, closed>>

Apologise ==
    /\ at = "spent"
    /\ Rest("waiting")
    /\ UNCHANGED <<active, signals, counts, rounds, closed>>

\* The exception reaches the caller, which answers for us.
Raise ==
    /\ at = "turned" /\ turn.kind = "error"
    /\ Rest("waiting")
    /\ UNCHANGED <<active, signals, counts, rounds, closed>>

LiveStep ==
    \/ TransferNowhere \/ TransferTooMany \/ Switch
    \/ Close \/ Deliver \/ Nudge \/ Apologise \/ Raise

-----------------------------------------------------------------------------
(* Properties *)

\* Whatever the model does, a message from a customer gets its answer: a reply,
\* a goodbye, an apology or the caller's own words.
EveryMessageAnswered == at # "waiting" ~> at = "waiting"
=============================================================================
