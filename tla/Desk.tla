-------------------------------- MODULE Desk --------------------------------
(***************************************************************************)
(* The front desk: one conversation's World (src/plumbing/world.py) and    *)
(* the tools an agent drives it with (tools/ops_tools.py, comms_tools.py,  *)
(* job_tools.py).  It owns the hard gates: who may be booked, when the     *)
(* deposit must be in, when it may go back, and what the technician's real *)
(* diary shows when Google Calendar and Stripe are live and can fail.      *)
(*                                                                         *)
(* An action is one tool call.  A call the code refuses before it changed  *)
(* anything is no step; a call it refuses after it changed something is.   *)
(* Times are slots: two appointments overlap iff they share a slot.        *)
(***************************************************************************)
EXTENDS Naturals, FiniteSets

CONSTANTS
    Ticket,          \* ticket ids
    Technician,      \* the roster
    Phone,           \* customers' numbers
    ApptId,          \* appointment ids (bounds the number of bookings)
    Slot,            \* appointment times
    ClosedSlot,      \* the slots on a Sunday or a public holiday
    TagChoice,       \* what an agent records of property and job size
    MaxLinks,        \* bound: payment links created per ticket
    MaxRounds,       \* emergency_dispatch.max_call_rounds
    RoundNumber,     \* round numbers an agent may pass to the phone
    KindInUse,       \* appointment kinds the agent books
    StatusUpdate,    \* statuses the agent gives a technician by hand
    AfterDispatch,   \* [Technician -> status_after_dispatch, or "assigned"]
    Live,            \* names of the tools wired to a real provider
    NoTicket, NoTech, NoPhone, NoSlot

Kind == {"standard", "warranty", "emergency", "large_project"}
TechStatus == {"idle", "assigned", "en_route", "on_site", "completed"}
DepositStatus == {"none", "link_sent", "paid", "failed", "refunded"}
Tags == [apartment: BOOLEAN, large: BOOLEAN]
ApptStatus == {"none", "booked", "rescheduled", "cancelled"}

ASSUME DeskAssumption ==
    /\ NoTicket \notin Ticket /\ NoTech \notin Technician
    /\ NoPhone \notin Phone /\ NoSlot \notin Slot
    /\ ClosedSlot \subseteq Slot
    /\ TagChoice \subseteq Tags
    /\ MaxLinks \in Nat /\ MaxRounds \in Nat
    /\ RoundNumber \subseteq Nat
    /\ KindInUse \subseteq Kind
    /\ StatusUpdate \subseteq TechStatus
    /\ AfterDispatch \in [Technician -> TechStatus]

VARIABLES
    tickets,      \* world.tickets: the tickets that exist
    active,       \* world.active_ticket_id
    phoneOf,      \* ticket.customer_phone
    tags,         \* ticket.tags, as far as the property gate reads them
    appts,        \* world.appointments, and the stored calendar_event_id
    deposit,      \* status of the ticket's deposit Payment
    links,        \* Stripe sessions created for the ticket; the last is current
    techStatus,   \* Technician.status
    activeJobs,   \* Technician.active_jobs
    outcomes,     \* appointments with a reported job outcome
    confirmedTo,  \* numbers an emergency_confirmation SMS went to
    rounds        \* the distinct rounds in world.call_records

\* Outside the program: the real diary and the customers' payments.
VARIABLES calendar, captured

\* What has been observed, read by properties only.
VARIABLES
    promised      \* the time the agent was last told it may confirm

recordVars == <<tickets, active, phoneOf, tags>>
bookVars   == <<appts, calendar, promised>>
payVars    == <<deposit, links, captured>>
crewVars   == <<techStatus, activeJobs, outcomes>>
callVars   == <<confirmedTo, rounds>>
vars == <<recordVars, bookVars, payVars, crewVars, callVars>>

-----------------------------------------------------------------------------
NoAppt == [kind |-> "standard", ticket |-> NoTicket, tech |-> NoTech,
           slot |-> NoSlot, status |-> "none", event |-> FALSE]

Appointment ==
    [kind: Kind, ticket: Ticket \cup {NoTicket}, tech: Technician \cup {NoTech},
     slot: Slot \cup {NoSlot}, status: ApptStatus, event: BOOLEAN]

\* The type invariant: what each part of the World and of the outside holds.
TypeOK ==
    /\ tickets \subseteq Ticket
    /\ active \in Ticket \cup {NoTicket}
    /\ phoneOf \in [Ticket -> Phone \cup {NoPhone}]
    /\ tags \in [Ticket -> Tags]
    /\ appts \in [ApptId -> Appointment]
    /\ deposit \in [Ticket -> DepositStatus]
    /\ links \in [Ticket -> 0 .. MaxLinks]
    /\ techStatus \in [Technician -> TechStatus]
    /\ activeJobs \in [Technician -> Nat]
    /\ outcomes \subseteq ApptId
    /\ confirmedTo \subseteq Phone
    /\ rounds \subseteq RoundNumber
    /\ calendar \in [ApptId -> Slot \cup {NoSlot}]
    /\ captured \in [Ticket -> SUBSET (1 .. MaxLinks)]
    /\ promised \in [ApptId -> Slot \cup {NoSlot}]

Init ==
    /\ tickets = {}
    /\ active = NoTicket
    /\ phoneOf = [t \in Ticket |-> NoPhone]
    /\ tags = [t \in Ticket |-> [apartment |-> FALSE, large |-> FALSE]]
    /\ appts = [a \in ApptId |-> NoAppt]
    /\ deposit = [t \in Ticket |-> "none"]
    /\ links = [t \in Ticket |-> 0]
    /\ techStatus = [k \in Technician |-> "idle"]
    /\ activeJobs = [k \in Technician |-> 0]
    /\ outcomes = {}
    /\ confirmedTo = {}
    /\ rounds = {}
    /\ calendar = [a \in ApptId |-> NoSlot]
    /\ captured = [t \in Ticket |-> {}]
    /\ promised = [a \in ApptId |-> NoSlot]

-----------------------------------------------------------------------------
(* Gates *)

Exists(a)   == appts[a].status # "none"
Standing(a) == appts[a].status \in {"booked", "rescheduled"}

\* service_policy.excluded_property_types: the flows an apartment is open to.
ExceptFor == {"large_job", "warranty"}

\* The property rule that blocks this booking, if any.
Excluded(t, kind) ==
    LET flows == IF tags[t].large THEN {kind, "large_job"} ELSE {kind}
    IN  tags[t].apartment /\ ExceptFor \cap flows = {}

ClosedDay(kind, s) == kind \in {"standard", "warranty"} /\ s \in ClosedSlot

Moving(k) == techStatus[k] \in {"en_route", "on_site"}

\* A plausible slip: only a van that is moving counts.
DispatchConfirmedByVanOnly(t) ==
    \E a \in ApptId : /\ appts[a].ticket = t
                      /\ appts[a].tech \in Technician
                      /\ Moving(appts[a].tech)

\* Has the customer been told, or is a technician of theirs moving?  A ticket
\* with no number matches a confirmation sent to anybody.
DispatchConfirmed(t) ==
    \/ \E p \in confirmedTo : phoneOf[t] \in {NoPhone, p}
    \/ \E a \in ApptId : /\ appts[a].ticket = t
                         /\ appts[a].tech \in Technician
                         /\ Moving(appts[a].tech)

Release(k) ==
    activeJobs' = IF k \in Technician /\ activeJobs[k] > 0
                  THEN [activeJobs EXCEPT ![k] = @ - 1] ELSE activeJobs

-----------------------------------------------------------------------------
(* The record: ticket.create, ticket.set_fields, crm.lookup_by_phone *)

CreateTicket(t, p) ==
    /\ t \notin tickets
    /\ tickets' = tickets \cup {t}
    /\ phoneOf' = [phoneOf EXCEPT ![t] = p]
    /\ active' = IF active = NoTicket THEN t ELSE active
    /\ UNCHANGED <<tags, bookVars, payVars, crewVars, callVars>>

SetFields(t, fields) ==
    /\ t \in tickets
    /\ tags' = [tags EXCEPT ![t] = fields]
    /\ UNCHANGED <<tickets, active, phoneOf, bookVars, payVars, crewVars, callVars>>

LookupByPhone(p) ==
    /\ active # NoTicket
    /\ phoneOf[active] = NoPhone
    /\ phoneOf' = [phoneOf EXCEPT ![active] = p]
    /\ UNCHANGED <<tickets, active, tags, bookVars, payVars, crewVars, callVars>>

\* A closed conversation that is written to again keeps its World.
Restart ==
    /\ active # NoTicket
    /\ active' = NoTicket
    /\ UNCHANGED <<tickets, phoneOf, tags, bookVars, payVars, crewVars, callVars>>

-----------------------------------------------------------------------------
(* The calendar *)

\* The agent names a technician, or the earliest free slot's one is taken,
\* or nobody's when the search finds no slot: nothing checks the requested
\* time against the technician's other jobs.
Assign(k, kind) ==
    IF k = NoTech THEN UNCHANGED <<techStatus, activeJobs>>
    ELSE /\ activeJobs' = [activeJobs EXCEPT ![k] = @ + 1]
         /\ techStatus' = IF kind = "emergency"
                          THEN [techStatus EXCEPT ![k] = AfterDispatch[k]]
                          ELSE techStatus

\* A plausible slip: the deposit gate is left to the prompt.
BookableUnpaid(t, kind, s) == t \in tickets /\ ~Excluded(t, kind) /\ ~ClosedDay(kind, s)

Bookable(t, kind, s) ==
    /\ t \in tickets
    /\ ~Excluded(t, kind)
    /\ kind = "emergency" => deposit[t] = "paid"
    /\ ~ClosedDay(kind, s)

Booking(t, kind, k, s, status, event) ==
    [kind |-> kind, ticket |-> t, tech |-> k, slot |-> s, status |-> status, event |-> event]

CreateAppointment(a, t, kind, k, s) ==
    /\ ~Exists(a)
    /\ Bookable(t, kind, s)
    /\ Assign(k, kind)
    /\ \/ /\ "calendar.create_appointment" \notin Live
          /\ appts' = [appts EXCEPT ![a] = Booking(t, kind, k, s, "booked", FALSE)]
          /\ promised' = [promised EXCEPT ![a] = s]
          /\ UNCHANGED calendar
       \/ /\ "calendar.create_appointment" \in Live
          /\ appts' = [appts EXCEPT ![a] = Booking(t, kind, k, s, "booked", TRUE)]
          /\ calendar' = [calendar EXCEPT ![a] = s]
          /\ promised' = [promised EXCEPT ![a] = s]
       \/ \* the diary write failed: cancelled, but the technician stays
          \* assigned and counted
          /\ "calendar.create_appointment" \in Live
          /\ appts' = [appts EXCEPT ![a] = Booking(t, kind, k, s, "cancelled", FALSE)]
          /\ UNCHANGED <<calendar, promised>>
    /\ UNCHANGED <<recordVars, payVars, outcomes, callVars>>

\* A plausible slip: only new bookings are kept off closed days.
MovableToAnyDay(a, s) == Exists(a)

\* A cancelled visit can be moved too, and that makes it stand again.
Movable(a, s) == Exists(a) /\ ~ClosedDay(appts[a].kind, s)

\* A plausible slip: a failed move is swallowed and reported as a success.
MoveEntrySwallowed(a, s) ==
    /\ promised' = [promised EXCEPT ![a] = s]
    /\ \/ calendar' = [calendar EXCEPT ![a] = s]
       \/ UNCHANGED calendar

\* The real entry moves and the agent may confirm, or the call is refused.
\* Without a stored event id, or with the entry gone, it can only be refused.
MoveEntry(a, s) ==
    \/ /\ "calendar.reschedule" \notin Live
       /\ promised' = [promised EXCEPT ![a] = s]
       /\ UNCHANGED calendar
    \/ /\ "calendar.reschedule" \in Live
       /\ appts[a].event /\ calendar[a] # NoSlot
       /\ calendar' = [calendar EXCEPT ![a] = s]
       /\ promised' = [promised EXCEPT ![a] = s]
    \/ /\ "calendar.reschedule" \in Live
       /\ UNCHANGED <<calendar, promised>>

Moved(a, s) == [appts[a] EXCEPT !.slot = s, !.status = "rescheduled"]
Cancelled(a) == [appts[a] EXCEPT !.status = "cancelled"]

\* The booking moves and is saved before the real entry does.
Reschedule(a, s) ==
    /\ Movable(a, s)
    /\ appts' = [appts EXCEPT ![a] = Moved(a, s)]
    /\ MoveEntry(a, s)
    /\ UNCHANGED <<recordVars, payVars, techStatus, activeJobs, outcomes, callVars>>

Cancel(a) ==
    /\ Standing(a)
    /\ appts' = [appts EXCEPT ![a] = Cancelled(a)]
    /\ promised' = [promised EXCEPT ![a] = NoSlot]
    /\ \/ /\ "calendar.cancel" \in Live => ~appts[a].event
          /\ Release(appts[a].tech)
          /\ UNCHANGED calendar
       \/ /\ "calendar.cancel" \in Live /\ appts[a].event
          /\ calendar' = [calendar EXCEPT ![a] = NoSlot]
          /\ Release(appts[a].tech)
       \/ \* the entry could not be removed: refused before the release
          /\ "calendar.cancel" \in Live /\ appts[a].event
          /\ UNCHANGED <<calendar, activeJobs>>
    /\ UNCHANGED <<recordVars, payVars, techStatus, outcomes, callVars>>

-----------------------------------------------------------------------------
(* The deposit *)

SendDepositLink(t) ==
    /\ t \in tickets
    /\ ~Excluded(t, "emergency")
    /\ deposit[t] # "paid"
    /\ \/ /\ "payment.send_deposit_link" \notin Live
          /\ deposit' = [deposit EXCEPT ![t] = "link_sent"]
          /\ UNCHANGED links
       \/ /\ "payment.send_deposit_link" \in Live
          /\ links[t] < MaxLinks
          /\ deposit' = [deposit EXCEPT ![t] = "link_sent"]
          /\ links' = [links EXCEPT ![t] = @ + 1]
       \/ \* Stripe failed: an existing payment is already marked link_sent and
          \* keeps its old session; a new one is dropped
          /\ "payment.send_deposit_link" \in Live
          /\ deposit[t] # "none"
          /\ deposit' = [deposit EXCEPT ![t] = "link_sent"]
          /\ UNCHANGED links
    /\ UNCHANGED <<recordVars, bookVars, captured, crewVars, callVars>>

\* External: the customer pays a checkout session, current or superseded.
CustomerPays(t, n) ==
    /\ n \in 1 .. links[t]
    /\ captured' = [captured EXCEPT ![t] = @ \cup {n}]
    /\ UNCHANGED <<recordVars, bookVars, deposit, links, crewVars, callVars>>

\* A plausible slip: a payment on any of the ticket's links will do.
SessionPaidOnAnyLink(t) == captured[t] # {}

SessionPaid(t) == links[t] \in captured[t]

CheckStatus(t) ==
    /\ deposit[t] = "link_sent"
    /\ IF "payment.check_status" \in Live
       THEN /\ SessionPaid(t)
            /\ deposit' = [deposit EXCEPT ![t] = "paid"]
       ELSE \E outcome \in {"paid", "failed"} :
                deposit' = [deposit EXCEPT ![t] = outcome]
    /\ UNCHANGED <<recordVars, bookVars, links, captured, crewVars, callVars>>

RefundDeposit(t) ==
    /\ deposit[t] = "paid"
    /\ ~DispatchConfirmed(t)
    /\ deposit' = [deposit EXCEPT ![t] = "refunded"]
    /\ UNCHANGED <<recordVars, bookVars, links, captured, crewVars, callVars>>

-----------------------------------------------------------------------------
(* The technicians: phone, sms.send, technician.get_job_outcome *)

\* A plausible slip: one round too many.
RoundAllowedOffByOne(round) == round <= MaxRounds + 1 /\ Cardinality(rounds) <= MaxRounds

RoundAllowed(round) == round <= MaxRounds /\ Cardinality(rounds) <= MaxRounds

CallTechnician(k, round, outcome) ==
    /\ RoundAllowed(round)
    /\ rounds' = rounds \cup {round}
    /\ techStatus' = IF outcome = "accepted"
                     THEN [techStatus EXCEPT ![k] = "assigned"] ELSE techStatus
    /\ UNCHANGED <<recordVars, bookVars, payVars, activeJobs, outcomes,
                   confirmedTo>>

SetTechnicianStatus(k, status) ==
    /\ techStatus' = [techStatus EXCEPT ![k] = status]
    /\ UNCHANGED bookVars
    /\ UNCHANGED <<recordVars, payVars, activeJobs, outcomes, callVars>>

\* Only the message the refund gate looks for; every other SMS changes nothing.
SendEmergencyConfirmation(p) ==
    /\ confirmedTo' = confirmedTo \cup {p}
    /\ UNCHANGED <<recordVars, bookVars, payVars, crewVars, rounds>>

\* The visit's start has passed.  Neither a cancelled visit nor the load is checked.
GetJobOutcome(a) ==
    /\ Exists(a)
    /\ a \notin outcomes
    /\ outcomes' = outcomes \cup {a}
    /\ Release(appts[a].tech)
    /\ techStatus' = IF appts[a].tech \in Technician
                     THEN [techStatus EXCEPT ![appts[a].tech] = "completed"]
                     ELSE techStatus
    /\ UNCHANGED <<recordVars, bookVars, payVars, callVars>>

-----------------------------------------------------------------------------
Next ==
    \/ \E t \in Ticket, p \in Phone \cup {NoPhone} : CreateTicket(t, p)
    \/ \E t \in Ticket, fields \in TagChoice : SetFields(t, fields)
    \/ \E p \in Phone : LookupByPhone(p)
    \/ Restart
    \/ \E a \in ApptId, t \in Ticket, kind \in KindInUse,
          k \in Technician \cup {NoTech}, s \in Slot : CreateAppointment(a, t, kind, k, s)
    \/ \E a \in ApptId, s \in Slot : Reschedule(a, s)
    \/ \E a \in ApptId : Cancel(a)
    \/ \E t \in Ticket : SendDepositLink(t)
    \/ \E t \in Ticket, n \in 1 .. MaxLinks : CustomerPays(t, n)
    \/ \E t \in Ticket : CheckStatus(t)
    \/ \E t \in Ticket : RefundDeposit(t)
    \/ \E k \in Technician, round \in RoundNumber,
          outcome \in {"accepted", "declined", "no_answer"} : CallTechnician(k, round, outcome)
    \/ \E k \in Technician, status \in StatusUpdate : SetTechnicianStatus(k, status)
    \/ \E p \in Phone : SendEmergencyConfirmation(p)
    \/ \E a \in ApptId : GetJobOutcome(a)

Spec == Init /\ [][Next]_vars

-----------------------------------------------------------------------------
(* Properties *)

CalendarLive == {"calendar.create_appointment", "calendar.reschedule"} \subseteq Live

\* No standing scheduled or warranty visit is on a closed day, however often
\* it was moved (README.md:171-172, "no standard booking on a closed day").
ClosedDaysKept ==
    \A a \in ApptId : Standing(a) /\ appts[a].kind \in {"standard", "warranty"}
                        => appts[a].slot \notin ClosedSlot

\* With the calendar live: the time the agent was last allowed to confirm
\* belongs to a visit that still stands, and is the time in the technician's
\* real diary, whichever of the calendar calls failed on the way.
PromisesAreInDiary ==
    CalendarLive =>
        \A a \in ApptId : promised[a] # NoSlot =>
            Standing(a) /\ calendar[a] = promised[a]

\* With Stripe live: a deposit the desk calls paid is one the customer paid,
\* on the link that is current, not on some link.
PaidIsCaptured ==
    "payment.check_status" \in Live =>
        \A t \in Ticket : deposit[t] = "paid" => links[t] \in captured[t]

\* With Stripe live: an emergency visit exists only for a customer whose money
\* has arrived at Stripe (README.md:170-171, "No dispatch before the deposit clears").
EmergencyWasPaidFor ==
    "payment.check_status" \in Live =>
        \A a \in ApptId : Exists(a) /\ appts[a].kind = "emergency" =>
            captured[appts[a].ticket] # {}

\* From the moment the confirmation has gone to the ticket's number, a deposit
\* that is held stays held: no sequence of link, check, cancel or refund calls
\* moves it (business_rules.yaml:222-225).
DepositLockedAfterConfirmation ==
    [][\A t \in Ticket :
        deposit[t] = "paid" /\ phoneOf[t] \in confirmedTo => deposit'[t] = "paid"]_vars

\* An emergency search uses at most max_call_rounds distinct rounds, counted from
\* 1 (business_rules.yaml:216, "At most 6 rounds"; a round the agent numbers 0 is
\* one more).
RoundsWithinLimit == Cardinality(rounds \ {0}) <= MaxRounds
=============================================================================
