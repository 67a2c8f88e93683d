---------------------------- MODULE Orchestrator ----------------------------
(***************************************************************************)
(* Orchestrator.run (src/plumbing/orchestrator.py): a whole conversation   *)
(* with a simulated customer, the work left when the customer has gone,    *)
(* and the follow-ups the agent scheduled (tools/job_tools.py), woken as a *)
(* scheduler would wake them.                                              *)
(***************************************************************************)
EXTENDS Turn

CONSTANTS
    FollowUp,        \* the follow-ups that may be scheduled
    Delay,           \* in_hours
    MaxTurns,        \* max_conversation_turns
    MaxWrapUp,       \* max_wrapup_turns
    MaxFirings,      \* max_followup_firings
    MaxTime,         \* bound: how far agents advance the clock
    NoFollowUp

ASSUME OrchestratorAssumption ==
    /\ MaxTurns \in Nat \ {0} /\ MaxWrapUp \in Nat \ {0} /\ MaxFirings \in Nat /\ MaxTime \in Nat
    /\ Delay \subseteq Nat \ {0} /\ NoFollowUp \notin FollowUp

VARIABLES
    phase,
    followups,       \* world.followups: their status, "none" before they exist
    due,             \* due_at
    now,             \* world.now()
    firings,
    firing,          \* the follow-up being run, or NoFollowUp
    outcome          \* ConversationResult

followupVars == <<followups, due, now>>
rigVars == <<phase, followupVars, firings, firing, outcome>>

Result(by, finished) == [by |-> by, finished |-> finished]
NoResult == Result("nobody", FALSE)

RigTypeOK ==
    /\ phase \in {"opening", "talk", "wrapup", "due", "firing", "over"}
    /\ followups \in [FollowUp -> {"none", "scheduled", "done", "cancelled"}]
    /\ due \in [FollowUp -> Nat] /\ now \in Nat
    /\ firings \in 0 .. MaxFirings /\ firing \in FollowUp \cup {NoFollowUp}
    /\ outcome.by \in {"nobody", "agent", "customer", "turn_limit", "handoff_limit", "error"}
    /\ outcome.finished \in BOOLEAN

RigInit ==
    /\ phase = "opening"
    /\ followups = [f \in FollowUp |-> "none"]
    /\ due = [f \in FollowUp |-> 0] /\ now = 0
    /\ firings = 0 /\ firing = NoFollowUp
    /\ outcome = NoResult

Over(by, finished) ==
    /\ phase' = "over"
    /\ outcome' = Result(by, finished)
    /\ Rest("waiting")
    /\ UNCHANGED <<followupVars, firings, firing>>

-----------------------------------------------------------------------------
(* clock.advance, schedule.create_followup, mark_done and cancel *)

\* An agent that genuinely waits moves the simulated clock.
AdvanceClock ==
    /\ Dispatch
    /\ now < MaxTime
    /\ now' = now + 1
    /\ UNCHANGED <<signals, called, phase, followups, due, firings, firing, outcome>>

ScheduleCall ==
    /\ Dispatch
    /\ Granted("schedule")
    /\ UNCHANGED <<signals, called, phase, now, firings, firing, outcome>>

CreateFollowUp(f) ==
    /\ ScheduleCall
    /\ followups[f] = "none"
    /\ followups' = [followups EXCEPT ![f] = "scheduled"]
    /\ \E hours \in Delay : due' = [due EXCEPT ![f] = now + hours]

\* A follow-up that is already done or cancelled is refused: an OtherCall.
MarkDone(f) ==
    /\ ScheduleCall
    /\ followups[f] = "scheduled"
    /\ followups' = [followups EXCEPT ![f] = "done"]
    /\ UNCHANGED due

\* Any follow-up that exists, whatever its status.
CancelFollowUp(f) ==
    /\ ScheduleCall
    /\ followups[f] # "none"
    /\ followups' = [followups EXCEPT ![f] = "cancelled"]
    /\ UNCHANGED due

Schedule ==
    \/ AdvanceClock
    \/ \E f \in FollowUp : CreateFollowUp(f) \/ MarkDone(f) \/ CancelFollowUp(f)

Scheduled == {f \in FollowUp : followups[f] = "scheduled"}

-----------------------------------------------------------------------------
(* The conversation *)

\* The customer speaks first: an error, a customer who leaves at once, or words.
Opening ==
    /\ phase = "opening" /\ at = "waiting"
    /\ \/ \E by \in {"error", "customer"} : Over(by, FALSE) /\ UNCHANGED rounds
       \/ /\ phase' = "talk"
          /\ rounds' = 0
          /\ Respond
          /\ UNCHANGED <<followupVars, firings, firing, outcome>>
    /\ UNCHANGED <<active, signals, counts>>

\* A turn of this phase is back.
Back(where, kinds) == phase = where /\ at = "turned" /\ turn.kind \in kinds

RigUnknownTarget ==
    /\ Back("talk", {"handoff"})
    /\ turn.to \notin Enabled
    /\ NextRound(MaxTurns)
    /\ UNCHANGED <<active, signals, counts, rigVars>>

RigHandoffLimit ==
    /\ Back("talk", {"handoff"})
    /\ turn.to \in Enabled
    /\ OverLimit
    /\ Over("handoff_limit", FALSE)
    /\ UNCHANGED <<active, signals, counts, rounds>>

RigSwitch ==
    /\ Back("talk", {"handoff"})
    /\ turn.to \in Enabled
    /\ TakeOver(turn.to)
    /\ NextRound(MaxTurns)
    /\ UNCHANGED rigVars

\* The outcome names who ended it; the due follow-ups come first.
TheFollowUps(by) ==
    /\ phase' = "due"
    /\ outcome' = Result(by, FALSE)
    /\ Rest("waiting")
    /\ UNCHANGED <<active, signals, counts, rounds, followupVars, firings, firing>>

RigEnded == Back("talk", {"ended"}) /\ TheFollowUps("agent")

RigSilent ==
    /\ Back("talk", {"silent"})
    /\ NextRound(MaxTurns)
    /\ UNCHANGED <<active, signals, counts, rigVars>>

\* The customer hears the reply: an error, a goodbye, or more to say.
CustomerReacts ==
    /\ Back("talk", {"reply"})
    /\ \/ Over("error", FALSE) /\ UNCHANGED rounds
       \/ /\ phase' = "wrapup"
          /\ rounds' = 0
          /\ Respond
          /\ UNCHANGED <<followupVars, firings, firing, outcome>>
       \/ NextRound(MaxTurns) /\ UNCHANGED rigVars
    /\ UNCHANGED <<active, signals, counts>>

RigTurnLimit ==
    /\ phase = "talk" /\ at = "spent"
    /\ Over("turn_limit", FALSE)
    /\ UNCHANGED <<active, signals, counts, rounds>>

RigError ==
    /\ \E where \in {"talk", "wrapup", "firing"} : Back(where, {"error"})
    /\ Over("error", FALSE)
    /\ UNCHANGED <<active, signals, counts, rounds>>

-----------------------------------------------------------------------------
(* After the customer has left *)

\* A plausible slip: nobody wakes the follow-ups once the customer has left.
WrappedUpAtOnce ==
    /\ Back("wrapup", {"ended"})
    /\ Over("customer", TRUE)
    /\ UNCHANGED <<active, signals, counts, rounds>>

WrappedUp == Back("wrapup", {"ended"}) /\ TheFollowUps("customer")

\* A transfer is refused, a reply reaches nobody.
WrapUpGoesOn ==
    /\ Back("wrapup", {"handoff", "reply", "silent"})
    /\ NextRound(MaxWrapUp)
    /\ UNCHANGED <<active, signals, counts, rigVars>>

WrapUpSpent ==
    /\ phase = "wrapup" /\ at = "spent"
    /\ Over("customer", FALSE)
    /\ UNCHANGED <<active, signals, counts, rounds>>

-----------------------------------------------------------------------------
(* The scheduler *)

\* The scheduler waits; it does not go back.
ClockAt(f) == IF due[f] > now THEN due[f] ELSE now

NextDue == {f \in Scheduled : \A g \in Scheduled : due[f] <= due[g]}

\* The agent wakes with its signal cleared.  It must mark the follow-up done
\* itself: one that it leaves scheduled is woken again.
Fire ==
    /\ phase = "due" /\ at = "waiting"
    /\ firings < MaxFirings
    /\ \E f \in NextDue :
          /\ firing' = f
          /\ now' = ClockAt(f)
    /\ firings' = firings + 1
    /\ phase' = "firing"
    /\ ended' = FALSE
    /\ rounds' = 0
    /\ Respond
    /\ UNCHANGED <<active, request, handedTo, counts, followups, due, outcome>>

Fired ==
    /\ Back("firing", {"ended"})
    /\ phase' = "due"
    /\ firing' = NoFollowUp
    /\ Rest("waiting")
    /\ UNCHANGED <<active, signals, counts, rounds, followupVars, firings, outcome>>

FiringGoesOn ==
    /\ Back("firing", {"handoff", "reply", "silent"})
    /\ NextRound(MaxWrapUp)
    /\ UNCHANGED <<active, signals, counts, rigVars>>

FiringSpent ==
    /\ phase = "firing" /\ at = "spent"
    /\ Over(outcome.by, FALSE)
    /\ UNCHANGED <<active, signals, counts, rounds>>

NothingDue ==
    /\ phase = "due" /\ at = "waiting"
    /\ Scheduled = {} \/ firings = MaxFirings
    /\ Over(outcome.by, TRUE)
    /\ UNCHANGED <<active, signals, counts, rounds>>

RigStep ==
    \/ Opening \/ RigUnknownTarget \/ RigHandoffLimit \/ RigSwitch \/ RigEnded
    \/ RigSilent \/ CustomerReacts \/ RigTurnLimit \/ RigError
    \/ WrappedUp \/ WrapUpGoesOn \/ WrapUpSpent
    \/ Fire \/ Fired \/ FiringGoesOn \/ FiringSpent \/ NothingDue

-----------------------------------------------------------------------------
(* Properties *)

\* A conversation reported as finished has no follow-up left scheduled, unless
\* every firing it is allowed was spent: a test never sees half a job pass for
\* a whole one because nobody woke the agent.
FinishedMeansNothingDue ==
    phase = "over" /\ outcome.finished => Scheduled = {} \/ firings = MaxFirings

\* Every conversation ends, whatever agent and customer say.
EveryRunEnds == <>(phase = "over")
=============================================================================
