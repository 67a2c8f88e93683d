------------------------------- MODULE Ticket -------------------------------
(***************************************************************************)
(* The life of one ticket: the state machine of config/ticket_states.yaml  *)
(* as World.transition_ticket enforces it for ticket.update_status and     *)
(* escalate.raise (src/plumbing/world.py, tools/ops_tools.py,              *)
(* tools/comms_tools.py).  The agents choose the next status; the machine  *)
(* only knows which statuses are neighbours, so what must have happened    *)
(* before a status is a property of whole paths.                           *)
(*                                                                         *)
(* Every change is saved as one row of the database, status and history    *)
(* together (store.py, save_ticket), after the ticket in memory changed.   *)
(***************************************************************************)
EXTENDS Naturals

CONSTANTS
    Milestone,       \* the statuses whose place in the history is kept
    Absent,          \* the ticket does not exist yet
    NoRow,           \* nor does its row
    MaxFailures      \* bound: saves that raise

VARIABLES
    status,          \* ticket.status
    seen,            \* the milestones in ticket.history
    row,             \* tickets, of the database: status and history
    failures         \* saves that raised

vars == <<status, seen, row, failures>>

\* `states`.
Status ==
    {"New Inquiry", "Phone Verified", "Customer Identified", "Needs Assessment",
     "General Consultation", "Awaiting Appointment Selection", "Appointment Booked",
     "Appointment Rescheduled", "Appointment Cancelled", "Emergency Technician Search",
     "Emergency Technician Confirmed", "Deposit Link Sent", "Deposit Paid",
     "Emergency Job Dispatched", "Technician En Route", "Technician On Site",
     "Inspection Completed", "Quote Sent", "Quote Accepted", "Quote Rejected",
     "Quote Awaiting Follow-up", "Large Project Documents Requested",
     "Large Project Documents Received", "Large Project Under Review",
     "Warranty Eligibility Review", "Warranty Technician Review", "Warranty Booked",
     "Escalated to Supervisor", "Service Completed", "Refund Pending",
     "Refund Completed", "Closed"}

Row == [status : Status, history : SUBSET Milestone]

ASSUME TicketAssumption ==
    /\ Milestone \subseteq Status /\ Absent \notin Status
    /\ NoRow \notin Row
    /\ MaxFailures \in Nat

Initial == "New Inquiry"

\* `universal_targets`: reachable from any state.
Universal == {"Escalated to Supervisor", "Closed"}

\* `transitions`: t is listed under s.
Follows(s, t) ==
    \/ s = "New Inquiry" /\ t \in {"Phone Verified", "General Consultation"}
    \/ s = "Phone Verified" /\ t = "Customer Identified"
    \/ /\ s = "Customer Identified"
       /\ t \in {"Needs Assessment", "Warranty Eligibility Review",
                "General Consultation"}
    \/ s = "General Consultation" /\ t \in {"Phone Verified", "Needs Assessment"}
    \/ /\ s = "Needs Assessment"
       /\ t \in {"Awaiting Appointment Selection", "Appointment Booked",
                "Deposit Link Sent", "Emergency Technician Search",
                "Large Project Documents Requested", "Warranty Eligibility Review",
                "General Consultation"}
    \/ /\ s = "Warranty Eligibility Review"
       /\ t \in {"Warranty Technician Review", "Needs Assessment"}
    \/ /\ s = "Warranty Technician Review"
       /\ t \in {"Warranty Booked", "Service Completed", "Needs Assessment",
                "Deposit Link Sent", "Emergency Technician Search"}
    \/ /\ s = "Awaiting Appointment Selection"
       /\ t \in {"Appointment Booked", "Deposit Link Sent",
                "Emergency Technician Search", "Needs Assessment"}
    \/ /\ s \in {"Warranty Booked", "Appointment Booked"}
       /\ t \in {"Appointment Rescheduled", "Appointment Cancelled",
                "Technician En Route", "Service Completed"}
    \/ /\ s = "Appointment Rescheduled"
       /\ t \in {"Appointment Rescheduled", "Appointment Cancelled",
                "Technician En Route", "Service Completed"}
    \/ s = "Appointment Cancelled" /\ t = "Awaiting Appointment Selection"
    \/ s = "Deposit Link Sent" /\ t \in {"Deposit Paid", "Refund Pending"}
    \/ /\ s = "Deposit Paid"
       /\ t \in {"Emergency Technician Search", "Emergency Job Dispatched",
                "Refund Pending"}
    \/ /\ s = "Emergency Technician Search"
       /\ t \in {"Emergency Technician Confirmed", "Awaiting Appointment Selection",
                "Refund Pending"}
    \/ s = "Emergency Technician Confirmed" /\ t = "Emergency Job Dispatched"
    \/ /\ s = "Emergency Job Dispatched"
       /\ t \in {"Technician En Route", "Service Completed", "Refund Pending"}
    \/ s = "Technician En Route" /\ t \in {"Technician On Site", "Refund Pending"}
    \/ s = "Technician On Site" /\ t = "Inspection Completed"
    \/ /\ s = "Inspection Completed"
       /\ t \in {"Quote Sent", "Large Project Documents Requested",
                "Service Completed"}
    \/ /\ s = "Quote Sent"
       /\ t \in {"Quote Accepted", "Quote Rejected", "Quote Awaiting Follow-up"}
    \/ /\ s = "Quote Awaiting Follow-up"
       /\ t \in {"Quote Accepted", "Quote Rejected", "Closed"}
    \/ s = "Quote Accepted" /\ t \in {"Appointment Booked", "Service Completed"}
    \/ /\ s = "Large Project Documents Requested"
       /\ t \in {"Large Project Documents Received", "Closed"}
    \/ s = "Large Project Documents Received" /\ t = "Large Project Under Review"
    \/ s = "Large Project Under Review" /\ t = "Quote Sent"
    \/ /\ s = "Escalated to Supervisor"
       /\ t \in {"Refund Pending", "Service Completed", "Refund Completed",
                "Deposit Link Sent", "Awaiting Appointment Selection",
                "Needs Assessment", "Warranty Eligibility Review",
                "Large Project Documents Requested"}
    \/ s = "Refund Pending" /\ t \in {"Refund Completed", "Escalated to Supervisor"}
    \/ /\ s = "Refund Completed"
       /\ t \in {"Awaiting Appointment Selection", "Appointment Booked"}

\* A plausible slip: an escalation may resume anywhere.
AllowedAnywhereAfterEscalation(s, t) ==
    s = "Escalated to Supervisor" \/ t \in Universal \/ Follows(s, t)

\* The moves transition_ticket accepts; `terminal` is never read.
Allowed(s, t) == t \in Universal \/ Follows(s, t)

-----------------------------------------------------------------------------
TypeOK ==
    /\ status \in Status \cup {Absent} /\ seen \subseteq Milestone
    /\ row \in Row \cup {NoRow}
    /\ failures \in 0 .. MaxFailures

Init ==
    /\ status = Absent /\ seen = {}
    /\ row = NoRow
    /\ failures = 0

\* A plausible slip: to the saved history only the new entry is added.
SavedNewEntryOnly ==
    /\ row' = [status |-> status',
               history |-> IF row = NoRow THEN seen'
                           ELSE row.history \cup ({status'} \cap Milestone)]
    /\ UNCHANGED failures

\* INSERT OR REPLACE, of the ticket as it now is.
Saved ==
    /\ row' = [status |-> status', history |-> seen']
    /\ UNCHANGED failures

\* The database is locked or gone: the tool raises, and the ticket in memory
\* has already changed.  The same call again finds the status reached and
\* saves nothing.
SaveRaises ==
    /\ failures < MaxFailures
    /\ failures' = failures + 1
    /\ UNCHANGED row

PersistTicket == Saved \/ SaveRaises

CreateTicket ==
    /\ status = Absent
    /\ status' = Initial
    /\ seen' = {Initial} \cap Milestone
    /\ PersistTicket

TransitionTicket(target) ==
    /\ status # Absent
    /\ target # status
    /\ Allowed(status, target)
    /\ status' = target
    /\ seen' = seen \cup ({target} \cap Milestone)
    /\ PersistTicket

UpdateStatus(target) == TransitionTicket(target)

\* escalate.raise: a supervisor's decision is recorded, then the same machine.
EscalateRaise == TransitionTicket("Escalated to Supervisor")

Next ==
    \/ CreateTicket
    \/ \E target \in Status : UpdateStatus(target)
    \/ EscalateRaise

Spec == Init /\ [][Next]_vars

-----------------------------------------------------------------------------
(* Properties *)

\* Whoever is on site set out to a visit that was booked, approved as warranty
\* work or dispatched.
VisitBooked(now, history) ==
    now \in {"Technician On Site", "Inspection Completed"} =>
        /\ {"Technician En Route", "Technician On Site"} \subseteq history
        /\ history \cap {"Appointment Booked", "Warranty Booked",
                         "Emergency Job Dispatched"} # {}

\* A quote was sent before it was accepted, and a look at the job came first.
QuoteRests(now, history) ==
    /\ now = "Quote Accepted" => "Quote Sent" \in history
    /\ "Quote Sent" \in history =>
           history \cap {"Inspection Completed", "Large Project Under Review"} # {}

\* Warranty work was looked at twice.
LookedAtTwice(now, history) ==
    now = "Warranty Booked" =>
        {"Warranty Eligibility Review", "Warranty Technician Review"} \subseteq history

\* Nobody is on site who did not set out to a visit that was booked, approved
\* as warranty work or dispatched (README.md:172, "no skipping ticket
\* states"), through whatever escalations and resumptions.
VisitsWereBooked == VisitBooked(status, seen)

\* A quote is agreed to only after it was sent, and sent only after the job was
\* inspected or reviewed as a large project.
QuotesRestOnAnInspection == QuoteRests(status, seen)

\* A warranty visit is booked only after the record was checked and the
\* original technician asked.
WarrantyWasReviewed == LookedAtTwice(status, seen)

\* What the database says of a ticket is a true account too: whichever saves
\* failed before, a row never shows a status without the history it rests on,
\* and while none failed it is the ticket.
RowsTellWholePaths ==
    /\ row # NoRow =>
           /\ VisitBooked(row.status, row.history)
           /\ QuoteRests(row.status, row.history)
           /\ LookedAtTwice(row.status, row.history)
    /\ failures = 0 /\ status # Absent =>
           row = [status |-> status, history |-> seen]
=============================================================================
