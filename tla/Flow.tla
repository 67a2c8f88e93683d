-------------------------------- MODULE Flow --------------------------------
(***************************************************************************)
(* The flow engine (src/flow/runner/engine.py) walking the graph of        *)
(* FlowGraph, the tools it hands the model (src/flow/sim/tools.py) and the *)
(* ticket that remembers for it (src/flow/sim/world.py).                   *)
(*                                                                         *)
(* Everything runs on one thread.  What the language model says, which     *)
(* tools it calls and with what arguments is any choice; a call is         *)
(* accepted, refused (arguments the tool cannot act on), or raises out of  *)
(* the engine (a date or a number it cannot read).  The model is told the  *)
(* number of the ticket it works on, and names that one or none there is.  *)
(***************************************************************************)
EXTENDS FlowGraph, Sequences

CONSTANTS
    MaxNodes,        \* MAX_NODES_PER_TURN
    MaxCalls,        \* MAX_CALLS_PER_TURN
    MaxBatch,        \* bound: tool calls in one message of the model
    MaxJobs,         \* bound: tickets one conversation opens
    MaxFollowups,    \* bound: follow-ups arranged
    Delay,           \* how long a follow-up may be told to wait
    MayRefuse,       \* bound: the tools that are called with what they cannot act on
    NoOutcome,
    Unnamed          \* an outcome that is none of the step's ways out

ASSUME FlowBounds ==
    /\ MaxNodes \in Nat \ {0} /\ MaxCalls \in Nat \ {0} /\ MaxBatch \in Nat
    /\ MaxJobs \in Nat \ {0} /\ MaxFollowups \in Nat /\ Delay \subseteq Nat

VARIABLES
    node, finished,  \* the conversation; it works on the last ticket opened
    tickets,         \* world.tickets, in the order they were opened
    record,          \* ticket -> what was put in the world's lists for it
    followups,       \* world.followups, in order
    now              \* the world's clock

\* The turn: how far say() got, and what _undone reads of turn.steps.
VARIABLES
    phase,           \* "customer", "node", "model", "calls", "replied", "after"
    nodesRun, callsMade,
    used,            \* a last step's tools named by the model in this turn
    refused,         \* those of them that refused
    pending,         \* the rest of the message's calls
    said, outcome

conversation == <<node, finished>>
world == <<tickets, record, followups>>
turn == <<nodesRun, callsMade, used, refused, pending, said, outcome>>
vars == <<conversation, world, now, phase, turn>>

-----------------------------------------------------------------------------
Inquiry == "New Inquiry"
Status == {Inquiry, "Closed"} \cup {Flow[n].sets_status : n \in Node}
Ticket == [status: Status, phone: BOOLEAN, tagged: BOOLEAN]
Followup == [ticket: 1 .. MaxJobs, due: Nat, asked: Nat, answered: BOOLEAN]
Outcome == (UNION {DOMAIN Flow[n].branch : n \in Node}) \cup {"done", Unnamed}
Work == {"customer", "appointment", "text", "dispatch", "escalation", "followup"}

Current == Len(tickets)

NewTicket == [status |-> Inquiry, phone |-> FALSE, tagged |-> FALSE]

Init ==
    /\ node = Entry /\ finished = FALSE
    /\ tickets = <<NewTicket>>
    /\ record = [t \in 1 .. MaxJobs |-> {}]
    /\ followups = <<>>
    /\ now = 0
    /\ phase = "customer"
    /\ nodesRun = 0 /\ callsMade = 0
    /\ used = {} /\ refused = {} /\ pending = {}
    /\ said = FALSE /\ outcome = NoOutcome

-----------------------------------------------------------------------------
(* say: a message from the customer *)

\* A plausible slip: the fresh start forgets to open a ticket.
StartAgainOnTheOldTicket(ts) == ts

StartAgain(ts) == Append(ts, NewTicket)

Say ==
    /\ phase = "customer"
    /\ IF finished
       THEN /\ Current < MaxJobs
            /\ finished' = FALSE /\ node' = Entry
            /\ tickets' = StartAgain(tickets)
       ELSE UNCHANGED <<conversation, tickets>>
    /\ phase' = "node"
    /\ nodesRun' = 0 /\ used' = {} /\ refused' = {}
    /\ UNCHANGED <<record, followups, now, callsMade, pending, said, outcome>>

RunNode ==
    /\ phase = "node"
    /\ nodesRun' = nodesRun + 1 /\ callsMade' = 0
    /\ phase' = "model"
    /\ UNCHANGED <<conversation, world, now, used, refused, pending, said, outcome>>

\* The node returned nothing to say: the next one, unless this turn has had enough.
MovedOnSilently ==
    phase' = IF finished' \/ nodesRun = MaxNodes THEN "replied" ELSE "node"

\* Round the loop once more, or out of it with nothing said.
GoRound(calls) ==
    IF calls < MaxCalls THEN phase' = "model"
    ELSE phase' = IF nodesRun = MaxNodes THEN "replied" ELSE "node"

-----------------------------------------------------------------------------
(* A last step: it ends the conversation once its tools have been used *)

NotWork == {"ticket_set_fields", "step_finished"}

\* A plausible slip: only a step with a single way out is seen to go on.
LastStepWhenBranching(n) == Flow[n].next = NoNode

LastStep(n) == IsTerminal(n)

\* The tools of a last step are its job; no other step is asked for its tools.
OwnWork(n) == IF LastStep(n) THEN Flow[n].tools \ NotWork ELSE {}

\* A plausible slip: a conversation ends on any reply.
UndoneNothing(n, tools) == {}

Undone(n, tools) == OwnWork(n) \ tools

SetStatus(ts, n) == [ts EXCEPT ![Len(ts)].status = Flow[n].sets_status]

\* The reply goes out if the work was attempted, and back to the model if not.
SignOff(tools, calls) ==
    IF Undone(node, tools) = {}
    THEN /\ tickets' = SetStatus(tickets, node)
         /\ finished' = TRUE
         /\ phase' = "replied"
    ELSE /\ GoRound(calls)
         /\ UNCHANGED <<tickets, finished>>

-----------------------------------------------------------------------------
(* One call of the model *)

Unavailable == "unavailable"

\* It answers in words, or not at all.
AnswerWithoutCalls(speaks) ==
    /\ pending' = {} /\ UNCHANGED used
    /\ IF LastStep(node) /\ speaks
       THEN SignOff(used, callsMade + 1) /\ UNCHANGED node
       ELSE /\ UNCHANGED <<conversation, tickets>>
            /\ IF speaks THEN phase' = "replied" ELSE MovedOnSilently

AskForTools(calls) ==
    /\ calls # {}
    /\ "schedule_create_followup" \in calls => Len(followups) < MaxFollowups
    /\ pending' = calls
    /\ used' = used \cup (calls \cap OwnWork(node))
    /\ phase' = "calls"
    /\ UNCHANGED <<conversation, tickets>>

Chat ==
    /\ phase = "model"
    /\ callsMade' = callsMade + 1
    /\ \E speaks \in BOOLEAN :
        /\ said' = speaks
        /\ \/ AnswerWithoutCalls(speaks)
           \/ \E calls \in SUBSET (Flow[node].tools \cup {Unavailable}) :
                  Cardinality(calls) <= MaxBatch /\ AskForTools(calls)
    /\ outcome' = NoOutcome
    /\ UNCHANGED <<record, followups, now, nodesRun, refused>>

\* say has returned or raised, and what it kept of the turn goes with it.
TurnOver ==
    /\ nodesRun' = 0 /\ callsMade' = 0
    /\ used' = {} /\ pending' = {} /\ said' = FALSE /\ outcome' = NoOutcome
    /\ refused' = IF finished THEN refused ELSE {}
    /\ UNCHANGED <<conversation, world, now>>

\* The model service fails, or a tool raises: the turn is lost, what it did stays.
Raise == phase' = "after" /\ TurnOver

ModelFails == phase = "model" /\ Raise

-----------------------------------------------------------------------------
(* The calls of one message, in whatever order it gave them *)

\* These read a date, a number or a text out of what they are given.
Reads == {"calendar_create_appointment", "schedule_create_followup",
          "ticket_set_fields", "rules_get_safety_advisory", "sms_send"}

ToolRaises ==
    /\ phase = "calls"
    /\ pending \cap Reads # {}
    /\ Raise

Refuse(tool) ==
    /\ tool \in MayRefuse \cup {Unavailable}
    /\ refused' = refused \cup ({tool} \cap OwnWork(node))
    /\ UNCHANGED <<tickets, record, followups, outcome>>

Leaves ==
    {<<"crm_create_customer", "customer">>, <<"calendar_create_appointment", "appointment">>,
     <<"sms_send", "text">>, <<"technician_notify", "dispatch">>,
     <<"escalate_raise", "escalation">>, <<"schedule_create_followup", "followup">>}

\* What an accepted call adds to the world's lists.
Puts(tool) == {w \in Work : <<tool, w>> \in Leaves}

\* A number the lookup or the new record was given stays on the ticket.
Remembers(tool, number) ==
    number /\ tool \in {"crm_lookup_by_phone", "crm_create_customer"}

\* ticket.set_fields writes what the model worked out, the number among it.
SetFields(tool, number) == number /\ tool = "ticket_set_fields"

CreateFollowup(tool) ==
    IF tool = "schedule_create_followup"
    THEN \E hours \in Delay :
           followups' = Append(followups, [ticket |-> Current, due |-> now + hours,
                                           asked |-> 0, answered |-> FALSE])
    ELSE UNCHANGED followups

\* The last outcome named in a message counts.
StepFinished(tool) ==
    IF tool = "step_finished"
    THEN outcome' \in DOMAIN Flow[node].branch \cup {"done", Unnamed}
    ELSE UNCHANGED outcome

Accept(tool, number) ==
    /\ record' = [record EXCEPT ![Current] = @ \cup Puts(tool)]
    /\ tickets' = [tickets EXCEPT
           ![Current].tagged = @ \/ Remembers(tool, number) \/ SetFields(tool, number),
           ![Current].phone  = @ \/ SetFields(tool, number)]
    /\ CreateFollowup(tool)
    /\ StepFinished(tool)
    /\ UNCHANGED refused

Dispatch ==
    /\ phase = "calls"
    /\ \E tool \in pending :
        /\ pending' = pending \ {tool}
        /\ \/ Refuse(tool)
           \/ /\ tool # Unavailable
              /\ \E number \in BOOLEAN : Accept(tool, number)
    /\ UNCHANGED <<conversation, now, phase, nodesRun, callsMade, used, said>>

\* A plausible slip: a step left without a word leaves its status behind.
AdvanceStatusIfSpoken(ts) == IF said THEN SetStatus(ts, node) ELSE ts

\* The ticket's status on the way out of a step, whichever way that is.
AdvanceStatus(ts) == SetStatus(ts, node)

\* Where an outcome leads; nowhere when it is none of the ways out.
Target(o) ==
    IF DOMAIN Flow[node].branch = {} THEN Flow[node].next
    ELSE IF o \in DOMAIN Flow[node].branch THEN Flow[node].branch[o] ELSE node

Advance(o) ==
    LET target == Target(o)
    IN  IF target = NoNode
        THEN /\ tickets' = SetStatus(tickets, node)
             /\ finished' = TRUE
             /\ UNCHANGED <<node, used, refused>>
        ELSE /\ tickets' = AdvanceStatus(tickets)
             /\ node' = target
             /\ IF target = node THEN UNCHANGED <<used, refused>>
                ELSE used' = {} /\ refused' = {}
             /\ UNCHANGED finished

EndOfMessage ==
    /\ phase = "calls" /\ pending = {}
    /\ IF outcome # NoOutcome
       THEN /\ Advance(outcome)
            /\ IF said THEN phase' = "replied" ELSE MovedOnSilently
       ELSE /\ UNCHANGED <<node, used, refused>>
            /\ IF LastStep(node) /\ said THEN SignOff(used, callsMade)
               ELSE GoRound(callsMade) /\ UNCHANGED <<tickets, finished>>
    /\ said' = FALSE /\ outcome' = NoOutcome
    /\ UNCHANGED <<record, followups, now, nodesRun, callsMade, pending>>

Engine == RunNode \/ Chat \/ ModelFails \/ ToolRaises \/ Dispatch \/ EndOfMessage
=============================================================================
