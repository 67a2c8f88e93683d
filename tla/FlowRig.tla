------------------------------- MODULE FlowRig ------------------------------
(***************************************************************************)
(* The flow under its harness (src/flow/runner/harness.py): a simulated    *)
(* customer talks until the conversation is over or they have had enough,  *)
(* may come back once with something else, and then the days pass in which *)
(* the technician is asked whether the job is done                         *)
(* (src/flow/runner/followup.py).                                          *)
(***************************************************************************)
EXTENDS Flow

CONSTANTS
    Hours,           \* what the scenario may wait for in one step
    AskAgain,        \* ASK_AGAIN_HOURS
    MaxNow           \* bound: how long a scenario goes on

ASSUME RigAssumption ==
    Hours \subseteq Nat \ {0} /\ AskAgain \in Nat \ {0} /\ MaxNow \in Nat

VARIABLES
    comesBack,       \* the scenario has something left to come back with
    thanks           \* ticket -> thank-you texts sent, counted up to 2

rigVars == <<vars, comesBack, thanks>>

RigInit ==
    /\ Init
    /\ comesBack \in {b \in BOOLEAN : b => MaxJobs > 1}
    /\ thanks = [t \in 1 .. MaxJobs |-> 0]

-----------------------------------------------------------------------------
(* run_one: the customer's side of the conversation *)

\* max_turns, or a customer who replies DONE, may end the talk at any reply.
CustomerStops ==
    /\ phase = "replied"
    /\ finished => ~comesBack
    /\ phase' = "after"
    /\ TurnOver /\ UNCHANGED <<comesBack, thanks>>

CustomerAnswers ==
    /\ phase = "replied"
    /\ ~finished
    /\ phase' = "customer"
    /\ TurnOver /\ UNCHANGED <<comesBack, thanks>>

\* The scenario's scripted second job.
CustomerComesBack ==
    /\ phase = "replied"
    /\ finished /\ comesBack
    /\ comesBack' = FALSE
    /\ phase' = "customer"
    /\ TurnOver /\ UNCHANGED thanks

-----------------------------------------------------------------------------
(* _afterwards: time passes, and the technician answers *)

\* A plausible slip: a follow-up is due the moment after its time.
DueLate(f, time) == ~f.answered /\ f.due < time

Due(f, time) == ~f.answered /\ f.due <= time

Ask(f, time) == [f EXCEPT !.asked = @ + 1, !.due = time + AskAgain]

\* followup.tick: every question that has come due, whoever was asked before.
HoursPass(h) ==
    /\ phase = "after"
    /\ now + h <= MaxNow
    /\ now' = now + h
    /\ followups' = [i \in DOMAIN followups |->
           IF Due(followups[i], now') THEN Ask(followups[i], now') ELSE followups[i]]
    /\ UNCHANGED <<conversation, tickets, record, phase, turn, comesBack, thanks>>

OpenOf(t) == {i \in DOMAIN followups : followups[i].ticket = t /\ ~followups[i].answered}
OpenTickets == {t \in 1 .. Current : OpenOf(t) # {}}
First(t) == CHOOSE i \in OpenOf(t) : \A j \in OpenOf(t) : i <= j

\* A plausible slip: only the number the model wrote down itself is looked at.
NumberWrittenDown(t) == tickets[t].phone

Number(t) == tickets[t].phone \/ tickets[t].tagged

CloseTickets(ts, closing) ==
    [t \in DOMAIN ts |-> IF t \in closing THEN [ts[t] EXCEPT !.status = "Closed"] ELSE ts[t]]

Thanks(n, t) == IF n + Cardinality(OpenOf(t)) > 2 THEN 2 ELSE n + Cardinality(OpenOf(t))

\* technician_says, once for every question open: done closes and thanks.
TechnicianDone ==
    /\ phase = "after"
    /\ OpenTickets # {}
    /\ followups' = [i \in DOMAIN followups |-> [followups[i] EXCEPT !.answered = TRUE]]
    /\ tickets' = CloseTickets(tickets, OpenTickets)
    /\ thanks' = [t \in 1 .. MaxJobs |->
           IF t \in OpenTickets /\ Number(t) THEN Thanks(thanks[t], t) ELSE thanks[t]]
    /\ UNCHANGED <<conversation, record, now, phase, turn, comesBack>>

\* Anything else puts off the first open question of the ticket, once or more often.
TechnicianNotDone ==
    /\ phase = "after"
    /\ OpenTickets # {}
    /\ followups' = [i \in DOMAIN followups |->
           IF i \in {First(t) : t \in OpenTickets}
           THEN [followups[i] EXCEPT !.due = now + AskAgain] ELSE followups[i]]
    /\ UNCHANGED <<conversation, tickets, record, now, phase, turn, comesBack, thanks>>

-----------------------------------------------------------------------------
Talk ==
    /\ Say \/ Engine
    /\ UNCHANGED <<comesBack, thanks>>

Customer == CustomerStops \/ CustomerAnswers \/ CustomerComesBack

Afterwards ==
    \/ \E h \in Hours : HoursPass(h)
    \/ TechnicianDone
    \/ TechnicianNotDone

Next == Talk \/ Customer \/ Afterwards

Spec == RigInit /\ [][Next]_rigVars

-----------------------------------------------------------------------------
\* The type invariant.
FlowTypeOK ==
    /\ node \in Node /\ finished \in BOOLEAN
    /\ tickets \in Seq(Ticket) /\ Current \in 1 .. MaxJobs
    /\ record \in [1 .. MaxJobs -> SUBSET Work]
    /\ followups \in Seq(Followup) /\ Len(followups) <= MaxFollowups
    /\ now \in 0 .. MaxNow
    /\ phase \in {"customer", "node", "model", "calls", "replied", "after"}
    /\ nodesRun \in 0 .. MaxNodes /\ callsMade \in 0 .. MaxCalls
    /\ used \subseteq Flow[node].tools /\ refused \subseteq Flow[node].tools
    /\ pending \subseteq Flow[node].tools \cup {Unavailable}
    /\ said \in BOOLEAN /\ outcome \in Outcome \cup {NoOutcome}
    /\ comesBack \in BOOLEAN
    /\ thanks \in [1 .. MaxJobs -> 0 .. 2]

\* When a last step has said its closing words, everything that step is there to
\* do is on record for the ticket - but for what its tools refused in that very
\* turn: a call that was refused counts as made (engine.py:273).
ClosingWordsAreTrue ==
    finished => \A tool \in Flow[node].tools \ refused : Puts(tool) \subseteq record[Current]

\* The status of an open job is the one set by the step it came from, or by the
\* step it is in when the model made up a way out of it (engine.py:304): the status
\* neither lags behind the job nor runs ahead of it, however many steps a turn takes.
StatusFollowsThePath ==
    (~finished /\ tickets[Current].status # "Closed") =>
        \/ node = Entry /\ tickets[Current].status = Inquiry
        \/ \E n \in Node : /\ n = node \/ node \in Exits(n)
                           /\ tickets[Current].status = Flow[n].sets_status

\* A job reported done is closed, nobody is asked about it again, and its customer
\* is thanked if any step was given their number.
ReportedJobsAreClosedAndThanked ==
    \A i \in DOMAIN followups : followups[i].answered =>
        LET t == followups[i].ticket
        IN  /\ tickets[t].status = "Closed"
            /\ OpenOf(t) = {}
            /\ tickets[t].tagged => thanks[t] > 0

\* No open question is overdue once the clock has moved: it "asks every day,
\* forever, and the only thing that stops it is an answer" (followup.py:11).
NobodyIsForgotten ==
    now > 0 => \A i \in DOMAIN followups : ~followups[i].answered => followups[i].due > now

\* The engine, its tools and the follow-ups implement the walk of a job.
Walks == INSTANCE Walk WITH
    Leads <- [n \in Node |-> Exits(n)],
    at <- node, jobs <- Current, over <- finished,
    owed <- {followups[i].ticket : i \in DOMAIN followups},
    closed <- {followups[i].ticket : i \in {j \in DOMAIN followups : followups[j].answered}}

JobsWalkTheGraph == Walks!Spec
=============================================================================
