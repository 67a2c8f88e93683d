-------------------------------- MODULE Turn --------------------------------
(***************************************************************************)
(* One turn of a business agent: Agent.respond (src/plumbing/agent.py),    *)
(* the dispatch of its tool calls (tools/registry.py) and the two tools    *)
(* that signal the loop itself, handoff.transfer and conversation.end      *)
(* (tools/ops_tools.py).  The drivers that start a turn and act on what it *)
(* returns are Conversation and Orchestrator.                              *)
(*                                                                         *)
(* The model may answer anything; what a tool does elsewhere is the        *)
(* business of the other modules, here only the loop and the signals       *)
(* count.                                                                  *)
(***************************************************************************)
EXTENDS Naturals, FiniteSets

CONSTANTS
    Agent,           \* the agents of config/agents.yaml
    Entry,           \* entry_agent
    Enabled,         \* the agents this deployment runs: self.agents
    Pinned,          \* BOOLEAN: whether ctx.enabled_agents is set, and then to Enabled
    Tools,           \* [Agent -> the tools of its allow-list]
    HandoffTo,       \* [Agent -> the targets build_agent left it]
    MaxToolCalls,    \* max_tool_calls_per_turn
    MaxHandoffs,     \* max_handoffs
    MaxBatch,        \* bound: tool calls in one message of the model
    NoAgent

ASSUME TurnAssumption ==
    /\ Enabled \subseteq Agent /\ Entry \in Enabled /\ NoAgent \notin Agent
    /\ Pinned \in BOOLEAN
    /\ HandoffTo \in [Agent -> SUBSET Agent]
    /\ MaxToolCalls \in Nat \ {0} /\ MaxHandoffs \in Nat /\ MaxBatch \in Nat \ {0}

VARIABLES
    active,          \* the agent holding the conversation
    request,         \* ctx.handoff_request: the agent asked for, or NoAgent
    ended,           \* ctx.conversation_ended
    handedTo,        \* world.handoffs: the agents the ticket was handed to
    at,              \* where the turn is
    used,            \* calls_used
    left,            \* calls of the model's message still to dispatch
    turn,            \* TurnResult, once respond has returned
    handoffs,        \* transfers the driver counted, saturating just above its limit
    rounds,          \* turns of the driver's current loop
    switches,        \* history: take-overs since the process opened
    asked,           \* history: model calls of this turn
    called           \* history: the signals the agent raised this turn

signals == <<request, ended, handedTo>>
loop == <<at, used, left, turn, asked, called>>
counts == <<handoffs, switches>>
turnVars == <<active, signals, loop, counts, rounds>>

Returned(kind, to) == [kind |-> kind, to |-> to]
Nothing == Returned("none", NoAgent)

TurnTypeOK ==
    /\ active \in Enabled /\ request \in Agent \cup {NoAgent}
    /\ ended \in BOOLEAN /\ handedTo \subseteq Agent
    /\ at \in {"waiting", "model", "calls", "ceiling", "turned", "spent"}
    /\ used \in 0 .. MaxToolCalls + MaxBatch - 1 /\ left \in 0 .. MaxBatch
    /\ turn.kind \in {"none", "reply", "silent", "ended", "handoff", "error"}
    /\ turn.to \in Agent \cup {NoAgent}
    /\ handoffs \in 0 .. MaxHandoffs + 1 /\ switches \in 0 .. MaxHandoffs
    /\ rounds \in Nat /\ asked \in Nat
    /\ called \subseteq {"transfer", "end"}

TurnInit ==
    /\ active = Entry
    /\ request = NoAgent /\ ended = FALSE /\ handedTo = {}
    /\ at = "waiting" /\ used = 0 /\ left = 0 /\ turn = Nothing
    /\ handoffs = 0 /\ switches = 0 /\ rounds = 0
    /\ asked = 0 /\ called = {}

\* respond is called: the counters are its local variables.
Respond ==
    /\ at' = "model"
    /\ used' = 0 /\ left' = 0 /\ turn' = Nothing
    /\ asked' = 0 /\ called' = {}

\* The turn has been dealt with and no other is started.
Rest(where) ==
    /\ at' = where
    /\ turn' = Nothing
    /\ UNCHANGED <<used, left, asked, called>>

\* A plausible slip: a round without an answer is not counted.
NextRoundUncounted(limit) ==
    /\ rounds' = rounds
    /\ IF rounds + 1 < limit THEN Respond ELSE Rest("spent")

\* for _ in range(limit): the driver goes round again, or its loop is spent.
NextRound(limit) ==
    /\ rounds' = rounds + 1
    /\ IF rounds + 1 < limit THEN Respond ELSE Rest("spent")

-----------------------------------------------------------------------------
(* The model *)

Return(kind, to) ==
    /\ at' = "turned"
    /\ turn' = Returned(kind, to)

\* No tool calls: the text is the message to the customer.  It may be blank.
Answer ==
    /\ at = "model"
    /\ \E kind \in {"reply", "silent"} : Return(kind, NoAgent)
    /\ asked' = asked + 1
    /\ UNCHANGED <<active, signals, used, left, called, counts, rounds>>

CallTools ==
    /\ at = "model"
    /\ at' = "calls"
    /\ left' \in 1 .. MaxBatch
    /\ asked' = asked + 1
    /\ UNCHANGED <<active, signals, used, turn, called, counts, rounds>>

\* The ceiling on tool calls: one last request, without tools.
AnswerNow ==
    /\ at = "ceiling"
    /\ \E kind \in {"reply", "silent"} : Return(kind, NoAgent)
    /\ asked' = asked + 1
    /\ UNCHANGED <<active, signals, used, left, called, counts, rounds>>

\* LLM.chat gives up after its retries and raises through respond.
ModelFails ==
    /\ at \in {"model", "ceiling"}
    /\ Return("error", NoAgent)
    /\ asked' = asked + 1
    /\ UNCHANGED <<active, signals, used, left, called, counts, rounds>>

-----------------------------------------------------------------------------
(* The calls of one message, dispatched in order *)

Dispatch ==
    /\ at = "calls" /\ left > 0
    /\ used' = used + 1 /\ left' = left - 1
    /\ UNCHANGED <<active, at, turn, asked, counts, rounds>>

Granted(tool) == tool \in Tools[active]

\* An empty list of targets checks nothing.
MayTransfer(to) ==
    /\ Granted("handoff.transfer")
    /\ HandoffTo[active] # {} => to \in HandoffTo[active]
    /\ Pinned => to \in Enabled

\* handoff.transfer.  Of several in one message the last one counts.
Transfer(to) ==
    /\ Dispatch
    /\ MayTransfer(to)
    /\ request' = to
    /\ handedTo' = handedTo \cup {to}
    /\ called' = called \cup {"transfer"}
    /\ UNCHANGED ended

\* conversation.end.
End ==
    /\ Dispatch
    /\ Granted("conversation.end")
    /\ ended' = TRUE
    /\ called' = called \cup {"end"}
    /\ UNCHANGED <<request, handedTo>>

\* Any other tool, an unknown or forbidden one, bad arguments, a rejection or
\* an exception in the tool: the agent reads the result, the loop sees nothing.
OtherCall ==
    /\ Dispatch
    /\ UNCHANGED <<signals, called>>

-----------------------------------------------------------------------------
(* After the last call of the message *)

BatchDone == at = "calls" /\ left = 0

HandOver ==
    /\ BatchDone
    /\ request # NoAgent
    /\ Return("handoff", request)
    /\ request' = NoAgent
    /\ UNCHANGED <<active, ended, handedTo, used, left, asked, called, counts, rounds>>

\* A plausible slip: the end is looked at before the transfer.
EndTurnFirst ==
    /\ BatchDone
    /\ ended
    /\ Return("ended", NoAgent)
    /\ UNCHANGED <<active, signals, used, left, asked, called, counts, rounds>>

EndTurn ==
    /\ BatchDone
    /\ request = NoAgent /\ ended
    /\ Return("ended", NoAgent)
    /\ UNCHANGED <<active, signals, used, left, asked, called, counts, rounds>>

\* A plausible slip: off by one at the ceiling.
AskAgainOnceMore ==
    /\ BatchDone
    /\ request = NoAgent /\ ~ended
    /\ at' = IF used > MaxToolCalls THEN "ceiling" ELSE "model"
    /\ UNCHANGED <<active, signals, used, left, turn, asked, called, counts, rounds>>

AskAgain ==
    /\ BatchDone
    /\ request = NoAgent /\ ~ended
    /\ at' = IF used >= MaxToolCalls THEN "ceiling" ELSE "model"
    /\ UNCHANGED <<active, signals, used, left, turn, asked, called, counts, rounds>>

TurnNext ==
    \/ Answer \/ CallTools \/ AnswerNow \/ ModelFails
    \/ (\E to \in Agent : Transfer(to)) \/ End \/ OtherCall
    \/ HandOver \/ EndTurn \/ AskAgain

-----------------------------------------------------------------------------
(* What a driver does with a transfer *)

OverLimit == handoffs + 1 > MaxHandoffs

\* The count goes up and is within the limit: the target takes over, on a new
\* message list that opens with the briefing.
TakeOver(to) ==
    /\ ~OverLimit
    /\ handoffs' = handoffs + 1
    /\ switches' = switches + 1
    /\ active' = to
    /\ ended' = FALSE
    /\ UNCHANGED <<request, handedTo>>

-----------------------------------------------------------------------------
(* Properties *)

\* The signals are obeyed.  Once a tool has told an agent that the ticket is
\* handed over or the process closed, the model is not asked to go on; what the
\* agent raised is what its turn returns, a transfer before an end and neither
\* with words for the customer, who is no longer that agent's to speak to; and
\* no request is left over for the next turn.
SignalsObeyed ==
    /\ at # "calls" => request = NoAgent
    /\ at \in {"model", "ceiling"} => called = {}
    /\ at = "turned" =>
          /\ "transfer" \in called <=> turn.kind = "handoff"
          /\ "end" \in called => turn.kind \in {"handoff", "ended"}

\* The ceiling on tool calls is a ceiling on the model: a turn asks it at most
\* once for every call allowed, and once more for the words.
TurnIsAffordable == asked <= MaxToolCalls + 1

\* However the agents pass a customer around, a process changes hands at most
\* max_handoffs times; the count says how often, and starts anew with the
\* process, so that an old customer's new problem can be transferred again.
TransfersWithinLimit ==
    switches = IF handoffs <= MaxHandoffs THEN handoffs ELSE MaxHandoffs
=============================================================================
