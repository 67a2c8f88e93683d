------------------------------ MODULE FlowProofs -----------------------------
(***************************************************************************)
(* What holds of a conversation under the flow's harness for every graph   *)
(* that loads, every choice of the model, the customer and the technician, *)
(* and any bounds: on steps and calls of a turn, jobs and follow-ups.      *)
(***************************************************************************)
EXTENDS FlowRig, FiniteSetTheorems, SequenceTheorems, TLAPS

-----------------------------------------------------------------------------
(* The inductive invariant *)

\* Where the turn is, and that nobody is asked before the conversation is left.
TurnIsInStep ==
    /\ phase = "node" => nodesRun < MaxNodes
    /\ phase = "model" => callsMade < MaxCalls
    /\ phase \in {"node", "model", "calls"} => ~finished
    /\ phase # "calls" => pending = {}
    /\ "schedule_create_followup" \in pending => Len(followups) < MaxFollowups
    /\ phase # "after" => now = 0 /\ \A i \in DOMAIN followups : ~followups[i].answered

FollowupsHaveTickets == \A i \in DOMAIN followups : followups[i].ticket \in 1 .. Current

\* What a last step's tools were called for is on record, once the call was made
\* and not refused.
WorkIsOnRecord ==
    /\ used \subseteq OwnWork(node)
    /\ \A tool \in used \ (refused \cup pending) : Puts(tool) \subseteq record[Current]

\* The inductive invariant.
IInv == FlowTypeOK /\ TurnIsInStep /\ FollowupsHaveTickets /\ WorkIsOnRecord

\* The type invariant in the parts the proofs take one at a time.
TicketsTypeOK == tickets \in Seq(Ticket) /\ Len(tickets) \in 1 .. MaxJobs

FollowupsTypeOK == followups \in Seq(Followup) /\ Len(followups) \in 0 .. MaxFollowups

WorldTypeOK ==
    /\ record \in [1 .. MaxJobs -> SUBSET Work]
    /\ now \in 0 .. MaxNow
    /\ comesBack \in BOOLEAN
    /\ thanks \in [1 .. MaxJobs -> 0 .. 2]

TurnTypeOK ==
    /\ node \in Node /\ finished \in BOOLEAN
    /\ phase \in {"customer", "node", "model", "calls", "replied", "after"}
    /\ nodesRun \in 0 .. MaxNodes /\ callsMade \in 0 .. MaxCalls
    /\ used \subseteq Flow[node].tools /\ refused \subseteq Flow[node].tools
    /\ pending \subseteq Flow[node].tools \cup {Unavailable}
    /\ said \in BOOLEAN /\ outcome \in Outcome \cup {NoOutcome}

-----------------------------------------------------------------------------
(* Sequences of rows *)

\* A function on 1 .. n is a sequence of length n.
LEMMA FunctionIsSeq ==
    ASSUME NEW S, NEW n \in Nat, NEW f \in [1 .. n -> S]
    PROVE  f \in Seq(S) /\ Len(f) = n
  OBVIOUS

\* Setting a field of a ticket leaves a ticket.
LEMMA TicketChanged ==
    ASSUME NEW t \in Ticket
    PROVE  /\ \A status \in Status : [t EXCEPT !.status = status] \in Ticket
           /\ \A yes \in BOOLEAN : [t EXCEPT !.tagged = yes] \in Ticket
           /\ \A yes \in BOOLEAN : [t EXCEPT !.phone = yes] \in Ticket
  <1>1. ASSUME NEW status \in Status PROVE [t EXCEPT !.status = status] \in Ticket
    BY DEF Ticket
  <1>2. ASSUME NEW yes \in BOOLEAN PROVE [t EXCEPT !.tagged = yes] \in Ticket
    BY DEF Ticket
  <1>3. ASSUME NEW yes \in BOOLEAN PROVE [t EXCEPT !.phone = yes] \in Ticket
    BY DEF Ticket
  <1> QED
    BY <1>1, <1>2, <1>3

\* Asking, putting off and answering leave a follow-up.
LEMMA FollowupChanged ==
    ASSUME NEW f \in Followup
    PROVE  /\ \A due, asked \in Nat : [f EXCEPT !.asked = asked, !.due = due] \in Followup
           /\ \A due \in Nat : [f EXCEPT !.due = due] \in Followup
           /\ [f EXCEPT !.answered = TRUE] \in Followup
  BY DEF Followup

\* Setting the status on the way out of a step (engine.py, _advance) changes the
\* current ticket's status and loses no ticket.
LEMMA StatusSet ==
    ASSUME FlowTypeOK
    PROVE  /\ SetStatus(tickets, node) \in Seq(Ticket)
           /\ Len(SetStatus(tickets, node)) = Current
           /\ SetStatus(tickets, node)[Current].status = Flow[node].sets_status
  <1>1. Current \in 1 .. Len(tickets) /\ tickets[Current] \in Ticket
    BY FlowBounds, ElementOfSeq DEF FlowTypeOK, FlowBounds, Current
  <1> DEFINE row == [tickets[Current] EXCEPT !.status = Flow[node].sets_status]
  <1>2. row \in Ticket /\ row.status = Flow[node].sets_status
    BY <1>1, TicketChanged DEF FlowTypeOK, Status, Ticket
  <1>3. SetStatus(tickets, node) = [tickets EXCEPT ![Current] = row]
    BY DEF SetStatus, Current
  <1> HIDE DEF row
  <1> QED
    BY <1>1, <1>2, <1>3, ExceptSeq DEF FlowTypeOK, Current

\* Closing tickets changes the status of those and of no other, and leaves what is
\* known of the customer's number alone.
LEMMA TicketsClosed ==
    ASSUME FlowTypeOK, NEW closing
    PROVE  /\ CloseTickets(tickets, closing) \in Seq(Ticket)
           /\ Len(CloseTickets(tickets, closing)) = Current
           /\ \A t \in 1 .. Current :
                  /\ t \in closing => CloseTickets(tickets, closing)[t].status = "Closed"
                  /\ t \notin closing => CloseTickets(tickets, closing)[t] = tickets[t]
                  /\ CloseTickets(tickets, closing)[t].tagged = tickets[t].tagged
  <1>1. DOMAIN tickets = 1 .. Current /\ Current \in Nat
    BY LenProperties DEF FlowTypeOK, Current
  <1>2. ASSUME NEW t \in 1 .. Current
        PROVE  /\ tickets[t] \in Ticket
               /\ [tickets[t] EXCEPT !.status = "Closed"] \in Ticket
               /\ [tickets[t] EXCEPT !.status = "Closed"].status = "Closed"
               /\ [tickets[t] EXCEPT !.status = "Closed"].tagged = tickets[t].tagged
    <2>1. tickets[t] \in Ticket
      BY ElementOfSeq DEF FlowTypeOK, Current
    <2>2. "Closed" \in Status
      BY DEF Status
    <2> QED
      BY <2>1, <2>2, TicketChanged DEF Ticket
  <1> QED
    BY <1>1, <1>2, FunctionIsSeq DEF CloseTickets

\* Whatever outcome the model names, the engine stays, goes to a node this one leads
\* to, or ends where there is no way out: graph.py has refused every other graph.
LEMMA TargetIsAWayOut ==
    ASSUME NEW n \in Node, node = n, NEW o
    PROVE  /\ Target(o) = NoNode => LastStep(node) /\ Exits(node) = {}
           /\ Target(o) # NoNode => Target(o) \in Node /\ Target(o) \in {node} \cup Exits(node)
  BY FlowAssumption DEF FlowAssumption, HangsTogether, OneWayOutOrSeveral, Exits, IsTerminal,
     LastStep, Target, Range
-----------------------------------------------------------------------------
(* What the steps do to the tickets and to the follow-ups *)

\* An accepted call may note the customer's number on the current ticket; it leaves
\* the number of tickets and the ticket's status alone.
LEMMA NumberKept ==
    ASSUME FlowTypeOK, NEW tool, NEW number \in BOOLEAN, Accept(tool, number)
    PROVE  /\ tickets' \in Seq(Ticket)
           /\ Len(tickets') = Current
           /\ tickets'[Current].status = tickets[Current].status
  <1>1. Current \in 1 .. Len(tickets) /\ tickets[Current] \in Ticket
    BY FlowBounds, ElementOfSeq DEF FlowTypeOK, FlowBounds, Current
  <1> DEFINE tagged == tickets[Current].tagged \/ Remembers(tool, number) \/ SetFields(tool, number)
             row == [tickets[Current] EXCEPT !.tagged = tagged]
             phone == row.phone \/ SetFields(tool, number)
             next == [row EXCEPT !.phone = phone]
  <1>2. tagged \in BOOLEAN /\ phone \in BOOLEAN
    BY DEF Remembers, SetFields
  <1> HIDE DEF tagged
  <1>3. row \in Ticket /\ row.status = tickets[Current].status
    BY <1>1, <1>2, TicketChanged DEF Ticket
  <1> HIDE DEF row, phone
  <1>4. next \in Ticket /\ next.status = row.status
    BY <1>2, <1>3, TicketChanged DEF Ticket
  <1>5. tickets' = [[tickets EXCEPT ![Current] = row] EXCEPT ![Current] = next]
    BY <1>1 DEF Accept, row, tagged, phone, FlowTypeOK
  <1> HIDE DEF next
  <1>6. tickets' = [tickets EXCEPT ![Current] = next]
    BY <1>1, <1>5 DEF FlowTypeOK
  <1> QED
    BY <1>1, <1>3, <1>4, <1>6, ExceptSeq DEF FlowTypeOK, Current

\* A step that rewrites follow-ups in place and keeps their tickets keeps them sound.
LEMMA FollowupsRewritten ==
    ASSUME IInv, DOMAIN followups' = DOMAIN followups,
           followups' = [i \in DOMAIN followups |-> followups'[i]],
           \A i \in DOMAIN followups :
               followups'[i] \in Followup /\ followups'[i].ticket = followups[i].ticket,
           Len(tickets') = Len(tickets)
    PROVE  FollowupsTypeOK' /\ FollowupsHaveTickets' /\ Len(followups') = Len(followups)
  <1>1. DOMAIN followups = 1 .. Len(followups) /\ Len(followups) \in Nat
    BY LenProperties DEF IInv, FlowTypeOK
  <1>2. followups' \in [1 .. Len(followups) -> Followup]
    BY <1>1
  <1>3. followups' \in Seq(Followup) /\ Len(followups') = Len(followups)
    BY <1>1, <1>2, FunctionIsSeq
  <1>4. FollowupsTypeOK'
    BY <1>3, <1>1 DEF FollowupsTypeOK, IInv, FlowTypeOK
  <1> QED
    BY <1>3, <1>4 DEF IInv, FollowupsHaveTickets, Current

\* An accepted call adds at most one follow-up, unanswered and about the current
\* ticket.
LEMMA FollowupAdded ==
    ASSUME IInv, NEW tool \in pending, CreateFollowup(tool), Len(tickets') = Len(tickets)
    PROVE  /\ FollowupsTypeOK' /\ FollowupsHaveTickets'
           /\ tool # "schedule_create_followup" => followups' = followups
           /\ phase # "after" =>
                  \A i \in DOMAIN followups' : ~followups'[i].answered
           /\ {followups'[i].ticket : i \in DOMAIN followups'}
                  \in {{followups[i].ticket : i \in DOMAIN followups},
                       {followups[i].ticket : i \in DOMAIN followups} \cup {Current}}
  <1>1. CASE tool = "schedule_create_followup"
    <2>1. PICK hours \in Delay :
              followups' = Append(followups, [ticket |-> Current, due |-> now + hours,
                                              asked |-> 0, answered |-> FALSE])
      BY <1>1 DEF CreateFollowup
    <2> DEFINE row == [ticket |-> Current, due |-> now + hours, asked |-> 0, answered |-> FALSE]
    <2>2. row \in Followup /\ row.ticket = Current /\ ~row.answered
      BY FlowBounds DEF FlowBounds, Followup, IInv, FlowTypeOK
    <2> HIDE DEF row
    <2>3. /\ followups' \in Seq(Followup) /\ Len(followups') = Len(followups) + 1
          /\ \A i \in 1 .. Len(followups) : followups'[i] = followups[i]
          /\ followups'[Len(followups) + 1] = row
      BY <2>1, <2>2, AppendProperties DEF IInv, FlowTypeOK, row
    <2>4. /\ Len(followups) \in Nat /\ Len(followups) < MaxFollowups
          /\ DOMAIN followups = 1 .. Len(followups)
          /\ DOMAIN followups' = 1 .. Len(followups) + 1
      BY <1>1, <2>3, LenProperties, FlowBounds DEF FlowBounds, IInv, FlowTypeOK, TurnIsInStep
    <2>5. DOMAIN followups' = DOMAIN followups \cup {Len(followups) + 1}
      BY <2>4
    <2>6. FollowupsTypeOK'
      BY <2>3, <2>4, FlowBounds DEF FlowBounds, FollowupsTypeOK
    <2>7. FollowupsHaveTickets'
      BY <2>2, <2>3, <2>4, <2>5 DEF IInv, FollowupsHaveTickets, FlowTypeOK, Current
    <2>8. phase # "after" => \A i \in DOMAIN followups' : ~followups'[i].answered
      BY <2>2, <2>3, <2>4, <2>5 DEF IInv, TurnIsInStep
    <2>9. {followups'[i].ticket : i \in DOMAIN followups'}
              = {followups[i].ticket : i \in DOMAIN followups} \cup {Current}
      BY <2>2, <2>3, <2>4, <2>5
    <2> QED
      BY <1>1, <2>6, <2>7, <2>8, <2>9
  <1>2. CASE tool # "schedule_create_followup"
    <2>1. followups' = followups
      BY <1>2 DEF CreateFollowup
    <2>2. FollowupsTypeOK'
      BY <2>1, LenProperties DEF FollowupsTypeOK, IInv, FlowTypeOK
    <2> QED
      BY <2>1, <2>2 DEF IInv, FollowupsHaveTickets, TurnIsInStep, Current
  <1> QED
    BY <1>1, <1>2

-----------------------------------------------------------------------------
(* What every step keeps *)

\* Every step keeps the tickets well-typed, and no ticket is lost.
LEMMA TicketsTyped ==
    ASSUME IInv, Next
    PROVE  TicketsTypeOK' /\ Len(tickets') >= Len(tickets)
  <1>1. CASE Say /\ UNCHANGED <<comesBack, thanks>>
    <2>1. CASE finished
      <3>1. NewTicket \in Ticket
        BY DEF NewTicket, Ticket, Status
      <3>2. tickets' = Append(tickets, NewTicket) /\ Current < MaxJobs
        BY <1>1, <2>1 DEF Say, StartAgain
      <3> QED
        BY <3>1, <3>2, AppendProperties, FlowBounds
           DEF IInv, FlowTypeOK, FlowBounds, TicketsTypeOK, Current
    <2>2. CASE ~finished
      BY <1>1, <2>2 DEF Say, IInv, FlowTypeOK, TicketsTypeOK, Current
    <2> QED
      BY <2>1, <2>2
  <1>2. CASE Chat /\ UNCHANGED <<comesBack, thanks>>
    <2>1. tickets' = tickets \/ tickets' = SetStatus(tickets, node)
      BY <1>2 DEF Chat, AnswerWithoutCalls, AskForTools, SignOff
    <2> QED
      BY <2>1, StatusSet DEF IInv, FlowTypeOK, TicketsTypeOK, Current
  <1>3. CASE Dispatch /\ UNCHANGED <<comesBack, thanks>>
    <2>1. ASSUME NEW tool, NEW number \in BOOLEAN, Accept(tool, number)
          PROVE  TicketsTypeOK' /\ Len(tickets') >= Len(tickets)
      BY <2>1, NumberKept DEF IInv, FlowTypeOK, TicketsTypeOK, Current
    <2>2. CASE UNCHANGED tickets
      BY <2>2 DEF IInv, FlowTypeOK, TicketsTypeOK, Current
    <2> QED
      BY <1>3, <2>1, <2>2 DEF Dispatch, Refuse
  <1>4. CASE EndOfMessage /\ UNCHANGED <<comesBack, thanks>>
    <2>1. tickets' = tickets \/ tickets' = SetStatus(tickets, node)
      BY <1>4 DEF EndOfMessage, Advance, AdvanceStatus, SignOff
    <2> QED
      BY <2>1, StatusSet DEF IInv, FlowTypeOK, TicketsTypeOK, Current
  <1>5. CASE TechnicianDone
    BY <1>5, TicketsClosed DEF TechnicianDone, IInv, FlowTypeOK, TicketsTypeOK, Current
  <1>6. CASE UNCHANGED tickets
    BY <1>6 DEF IInv, FlowTypeOK, TicketsTypeOK, Current
  <1> QED
    BY <1>1, <1>2, <1>3, <1>4, <1>5, <1>6
       DEF Next, Talk, Engine, Customer, Afterwards, conversation, world, turn, RunNode,
       ModelFails, Raise, TurnOver, ToolRaises, CustomerStops, CustomerAnswers,
       CustomerComesBack, HoursPass, TechnicianNotDone

\* Every step keeps the follow-ups well-typed and about tickets that exist.
LEMMA FollowupsKept ==
    ASSUME IInv, Next
    PROVE  FollowupsTypeOK' /\ FollowupsHaveTickets'
  <1>1. CASE Dispatch /\ UNCHANGED <<comesBack, thanks>>
    <2>1. ASSUME NEW tool \in pending, NEW number \in BOOLEAN, Accept(tool, number)
          PROVE  FollowupsTypeOK' /\ FollowupsHaveTickets'
      BY <2>1, NumberKept, FollowupAdded DEF IInv, Accept, Current
    <2>2. CASE UNCHANGED <<tickets, followups>>
      BY <2>2, LenProperties DEF IInv, FlowTypeOK, FollowupsTypeOK, FollowupsHaveTickets, Current
    <2> QED
      BY <1>1, <2>1, <2>2 DEF Dispatch, Refuse
  <1>2. ASSUME NEW h \in Hours, HoursPass(h)
        PROVE  FollowupsTypeOK' /\ FollowupsHaveTickets'
    <2>1. ASSUME NEW i \in DOMAIN followups
          PROVE  followups'[i] \in Followup /\ followups'[i].ticket = followups[i].ticket
      <3>1. followups[i] \in Followup
        BY ElementOfSeq, LenProperties DEF IInv, FlowTypeOK
      <3>2. now' + AskAgain \in Nat /\ followups[i].asked + 1 \in Nat
        BY <1>2, <3>1, RigAssumption DEF HoursPass, Followup, IInv, FlowTypeOK, RigAssumption
      <3>3. followups'[i] \in {followups[i], Ask(followups[i], now')}
        BY <1>2 DEF HoursPass
      <3>4. Ask(followups[i], now') \in Followup
        BY <3>1, <3>2, FollowupChanged DEF Ask
      <3>5. Ask(followups[i], now').ticket = followups[i].ticket
        BY <3>1 DEF Ask, Followup
      <3> QED
        BY <3>1, <3>3, <3>4, <3>5
    <2>2. DOMAIN followups' = DOMAIN followups
      BY <1>2 DEF HoursPass
    <2>3. followups' = [i \in DOMAIN followups |-> followups'[i]]
      BY <1>2 DEF HoursPass
    <2>4. Len(tickets') = Len(tickets)
      BY <1>2 DEF HoursPass
    <2> QED
      BY <2>1, <2>2, <2>3, <2>4, FollowupsRewritten
  <1>3. CASE TechnicianDone
    <2>1. ASSUME NEW i \in DOMAIN followups
          PROVE  followups'[i] \in Followup /\ followups'[i].ticket = followups[i].ticket
      <3>1. followups[i] \in Followup
        BY ElementOfSeq, LenProperties DEF IInv, FlowTypeOK
      <3>2. followups'[i] = [followups[i] EXCEPT !.answered = TRUE]
        BY <1>3 DEF TechnicianDone
      <3>3. [followups[i] EXCEPT !.answered = TRUE] \in Followup
        BY <3>1, FollowupChanged
      <3> QED
        BY <3>1, <3>2, <3>3 DEF Followup
    <2>2. DOMAIN followups' = DOMAIN followups
      BY <1>3 DEF TechnicianDone
    <2>3. followups' = [i \in DOMAIN followups |-> followups'[i]]
      BY <1>3 DEF TechnicianDone
    <2>4. Len(tickets') = Len(tickets)
      BY <1>3, TicketsClosed DEF IInv, TechnicianDone, Current
    <2> QED
      BY <2>1, <2>2, <2>3, <2>4, FollowupsRewritten
  <1>4. CASE TechnicianNotDone
    <2>1. ASSUME NEW i \in DOMAIN followups
          PROVE  followups'[i] \in Followup /\ followups'[i].ticket = followups[i].ticket
      <3>1. followups[i] \in Followup
        BY ElementOfSeq, LenProperties DEF IInv, FlowTypeOK
      <3>2. followups'[i] \in {followups[i], [followups[i] EXCEPT !.due = now + AskAgain]}
        BY <1>4 DEF TechnicianNotDone
      <3>3. now + AskAgain \in Nat
        BY RigAssumption DEF IInv, FlowTypeOK, RigAssumption
      <3>4. [followups[i] EXCEPT !.due = now + AskAgain] \in Followup
        BY <3>1, <3>3, FollowupChanged
      <3>5. [followups[i] EXCEPT !.due = now + AskAgain].ticket = followups[i].ticket
        BY <3>1 DEF Followup
      <3> QED
        BY <3>1, <3>2, <3>4, <3>5
    <2>2. DOMAIN followups' = DOMAIN followups
      BY <1>4 DEF TechnicianNotDone
    <2>3. followups' = [i \in DOMAIN followups |-> followups'[i]]
      BY <1>4 DEF TechnicianNotDone
    <2>4. Len(tickets') = Len(tickets)
      BY <1>4 DEF TechnicianNotDone
    <2> QED
      BY <2>1, <2>2, <2>3, <2>4, FollowupsRewritten
  <1>5. CASE UNCHANGED followups
    <2>1. Len(tickets) \in Nat /\ Len(tickets') \in Nat /\ Len(tickets') >= Len(tickets)
      BY TicketsTyped DEF IInv, FlowTypeOK, TicketsTypeOK, Current
    <2>2. \A i \in DOMAIN followups : followups[i].ticket \in 1 .. Len(tickets)
      BY DEF IInv, FollowupsHaveTickets, Current
    <2>3. FollowupsHaveTickets'
      BY <1>5, <2>1, <2>2 DEF FollowupsHaveTickets, Current
    <2>4. FollowupsTypeOK'
      BY <1>5, LenProperties DEF IInv, FlowTypeOK, FollowupsTypeOK
    <2> QED
      BY <2>3, <2>4
  <1> QED
    BY <1>1, <1>2, <1>3, <1>4, <1>5
       DEF Next, Talk, Engine, Customer, Afterwards, conversation, world, turn, Say, RunNode,
       Chat, ModelFails, Raise, TurnOver, ToolRaises, EndOfMessage, CustomerStops,
       CustomerAnswers, CustomerComesBack

\* There are finitely many open questions about a ticket, so they can be counted.
LEMMA OpenIsFinite ==
    ASSUME IInv, NEW t
    PROVE  /\ IsFiniteSet(OpenOf(t)) /\ Cardinality(OpenOf(t)) \in Nat
           /\ OpenOf(t) # {} => Cardinality(OpenOf(t)) > 0
  <1>1. DOMAIN followups = 1 .. Len(followups) /\ Len(followups) \in Nat
    BY LenProperties DEF IInv, FlowTypeOK
  <1>2. IsFiniteSet(1 .. Len(followups))
    BY <1>1, FS_Interval
  <1>3. IsFiniteSet(OpenOf(t))
    BY <1>1, <1>2, FS_Subset DEF OpenOf
  <1>4. Cardinality(OpenOf(t)) \in Nat /\ (Cardinality(OpenOf(t)) = 0 <=> OpenOf(t) = {})
    BY <1>3, FS_CardinalityType, FS_EmptySet
  <1> QED
    BY <1>3, <1>4

\* Every step keeps the record, the clock and the thanks well-typed.
LEMMA WorldTyped ==
    ASSUME IInv, Next
    PROVE  WorldTypeOK'
  <1>1. CASE Dispatch /\ UNCHANGED <<comesBack, thanks>>
    <2>1. ASSUME NEW tool, NEW number \in BOOLEAN, Accept(tool, number)
          PROVE  record' \in [1 .. MaxJobs -> SUBSET Work]
      BY <2>1 DEF Accept, Puts, IInv, FlowTypeOK
    <2>2. record' \in [1 .. MaxJobs -> SUBSET Work]
      BY <1>1, <2>1 DEF Dispatch, Refuse, IInv, FlowTypeOK
    <2> QED
      BY <1>1, <2>2 DEF Dispatch, IInv, FlowTypeOK, WorldTypeOK
  <1>2. CASE CustomerComesBack
    BY <1>2 DEF CustomerComesBack, TurnOver, conversation, world, IInv, FlowTypeOK, WorldTypeOK
  <1>3. ASSUME NEW h \in Hours, HoursPass(h)
        PROVE  WorldTypeOK'
    <2>1. now' \in 0 .. MaxNow
      BY <1>3, RigAssumption DEF HoursPass, RigAssumption, IInv, FlowTypeOK
    <2> QED
      BY <1>3, <2>1 DEF HoursPass, IInv, FlowTypeOK, WorldTypeOK
  <1>4. CASE TechnicianDone
    <2>1. ASSUME NEW t \in 1 .. MaxJobs PROVE thanks'[t] \in 0 .. 2
      <3>1. Cardinality(OpenOf(t)) \in Nat
        BY OpenIsFinite
      <3>2. thanks[t] \in 0 .. 2
        BY DEF IInv, FlowTypeOK
      <3>3. Thanks(thanks[t], t) \in 0 .. 2
        BY <3>1, <3>2 DEF Thanks
      <3> QED
        BY <1>4, <3>2, <3>3 DEF TechnicianDone
    <2>2. thanks' \in [1 .. MaxJobs -> 0 .. 2]
      BY <1>4, <2>1 DEF TechnicianDone
    <2> QED
      BY <1>4, <2>2 DEF TechnicianDone, IInv, FlowTypeOK, WorldTypeOK
  <1>5. CASE UNCHANGED <<record, now, comesBack, thanks>>
    BY <1>5 DEF IInv, FlowTypeOK, WorldTypeOK
  <1> QED
    BY <1>1, <1>2, <1>3, <1>4, <1>5
       DEF Next, Talk, Engine, Customer, Afterwards, conversation, world, turn, Say, RunNode,
       Chat, ModelFails, Raise, TurnOver, ToolRaises, EndOfMessage, CustomerStops,
       CustomerAnswers, TechnicianNotDone

\* Every step keeps the turn well-typed: the step it is in is a node, its tools are
\* that node's, and it stays within the turn's allowance of nodes and calls.
LEMMA TurnTyped ==
    ASSUME IInv, Next
    PROVE  TurnTypeOK'
  <1>1. CASE Say /\ UNCHANGED <<comesBack, thanks>>
    <2>1. node' \in Node /\ finished' \in BOOLEAN
      BY <1>1, FlowAssumption
         DEF Say, FlowAssumption, HangsTogether, conversation, IInv, FlowTypeOK
    <2>2. nodesRun' \in 0 .. MaxNodes /\ callsMade' \in 0 .. MaxCalls
      BY <1>1, FlowBounds
         DEF FlowBounds, Say, IInv, FlowTypeOK, TurnIsInStep, world, turn, conversation
    <2>3. /\ used' \subseteq Flow[node'].tools /\ refused' \subseteq Flow[node'].tools
          /\ pending' \subseteq Flow[node'].tools \cup {Unavailable}
      BY <1>1 DEF Say, conversation, IInv, FlowTypeOK, TurnIsInStep
    <2>4. /\ phase' \in {"customer", "node", "model", "calls", "replied", "after"}
          /\ said' \in BOOLEAN /\ outcome' \in Outcome \cup {NoOutcome}
      BY <1>1 DEF Say, Outcome, IInv, FlowTypeOK, TurnIsInStep, world, turn, conversation
    <2> QED
      BY <2>1, <2>2, <2>3, <2>4 DEF TurnTypeOK
  <1>2. CASE RunNode /\ UNCHANGED <<comesBack, thanks>>
    <2>1. node' \in Node /\ finished' \in BOOLEAN
      BY <1>2 DEF RunNode, conversation, world, turn, IInv, FlowTypeOK
    <2>2. nodesRun' \in 0 .. MaxNodes /\ callsMade' \in 0 .. MaxCalls
      BY <1>2, FlowBounds
         DEF FlowBounds, RunNode, IInv, FlowTypeOK, TurnIsInStep, world, turn, conversation
    <2>3. /\ used' \subseteq Flow[node'].tools /\ refused' \subseteq Flow[node'].tools
          /\ pending' \subseteq Flow[node'].tools \cup {Unavailable}
      BY <1>2 DEF RunNode, conversation, world, turn, OwnWork, IInv, FlowTypeOK, TurnIsInStep
    <2>4. /\ phase' \in {"customer", "node", "model", "calls", "replied", "after"}
          /\ said' \in BOOLEAN /\ outcome' \in Outcome \cup {NoOutcome}
      BY <1>2 DEF RunNode, Outcome, IInv, FlowTypeOK, TurnIsInStep, world, turn, conversation
    <2> QED
      BY <2>1, <2>2, <2>3, <2>4 DEF TurnTypeOK
  <1>3. CASE Chat /\ UNCHANGED <<comesBack, thanks>>
    <2>1. node' \in Node /\ finished' \in BOOLEAN
      BY <1>3
         DEF Chat, AnswerWithoutCalls, AskForTools, SignOff, conversation, world, turn, IInv,
             FlowTypeOK
    <2>2. nodesRun' \in 0 .. MaxNodes /\ callsMade' \in 0 .. MaxCalls
      BY <1>3, FlowBounds
         DEF FlowBounds, Chat, AnswerWithoutCalls, AskForTools, SignOff, GoRound,
             MovedOnSilently, IInv, FlowTypeOK, TurnIsInStep, world, turn, conversation
    <2>3. /\ used' \subseteq Flow[node'].tools /\ refused' \subseteq Flow[node'].tools
          /\ pending' \subseteq Flow[node'].tools \cup {Unavailable}
      BY <1>3
         DEF Chat, AnswerWithoutCalls, AskForTools, SignOff, conversation, world, turn, OwnWork,
             IInv, FlowTypeOK, TurnIsInStep
    <2>4. /\ phase' \in {"customer", "node", "model", "calls", "replied", "after"}
          /\ said' \in BOOLEAN /\ outcome' \in Outcome \cup {NoOutcome}
      BY <1>3
         DEF Chat, AnswerWithoutCalls, AskForTools, SignOff, GoRound, MovedOnSilently, Outcome,
             IInv, FlowTypeOK, TurnIsInStep, world, turn, conversation
    <2> QED
      BY <2>1, <2>2, <2>3, <2>4 DEF TurnTypeOK
  <1>4. CASE ModelFails /\ UNCHANGED <<comesBack, thanks>>
    <2>1. node' \in Node /\ finished' \in BOOLEAN
      BY <1>4 DEF ModelFails, Raise, TurnOver, conversation, world, turn, IInv, FlowTypeOK
    <2>2. nodesRun' \in 0 .. MaxNodes /\ callsMade' \in 0 .. MaxCalls
      BY <1>4, FlowBounds
         DEF FlowBounds, ModelFails, Raise, TurnOver, IInv, FlowTypeOK, TurnIsInStep, world,
             turn, conversation
    <2>3. /\ used' \subseteq Flow[node'].tools /\ refused' \subseteq Flow[node'].tools
          /\ pending' \subseteq Flow[node'].tools \cup {Unavailable}
      BY <1>4
         DEF ModelFails, Raise, TurnOver, conversation, world, turn, OwnWork, IInv, FlowTypeOK,
             TurnIsInStep
    <2>4. /\ phase' \in {"customer", "node", "model", "calls", "replied", "after"}
          /\ said' \in BOOLEAN /\ outcome' \in Outcome \cup {NoOutcome}
      BY <1>4
         DEF ModelFails, Raise, TurnOver, Outcome, IInv, FlowTypeOK, TurnIsInStep, world, turn,
             conversation
    <2> QED
      BY <2>1, <2>2, <2>3, <2>4 DEF TurnTypeOK
  <1>5. CASE ToolRaises /\ UNCHANGED <<comesBack, thanks>>
    <2>1. node' \in Node /\ finished' \in BOOLEAN
      BY <1>5 DEF ToolRaises, Raise, TurnOver, conversation, world, turn, IInv, FlowTypeOK
    <2>2. nodesRun' \in 0 .. MaxNodes /\ callsMade' \in 0 .. MaxCalls
      BY <1>5, FlowBounds
         DEF FlowBounds, ToolRaises, Raise, TurnOver, IInv, FlowTypeOK, TurnIsInStep, world,
             turn, conversation
    <2>3. /\ used' \subseteq Flow[node'].tools /\ refused' \subseteq Flow[node'].tools
          /\ pending' \subseteq Flow[node'].tools \cup {Unavailable}
      BY <1>5
         DEF ToolRaises, Raise, TurnOver, conversation, world, turn, OwnWork, IInv, FlowTypeOK,
             TurnIsInStep
    <2>4. /\ phase' \in {"customer", "node", "model", "calls", "replied", "after"}
          /\ said' \in BOOLEAN /\ outcome' \in Outcome \cup {NoOutcome}
      BY <1>5
         DEF ToolRaises, Raise, TurnOver, Outcome, IInv, FlowTypeOK, TurnIsInStep, world, turn,
             conversation
    <2> QED
      BY <2>1, <2>2, <2>3, <2>4 DEF TurnTypeOK
  <1>6. CASE Dispatch /\ UNCHANGED <<comesBack, thanks>>
    <2>1. node' \in Node /\ finished' \in BOOLEAN
      BY <1>6
         DEF Dispatch, Accept, Refuse, CreateFollowup, StepFinished, conversation, world, turn,
             IInv, FlowTypeOK
    <2>2. nodesRun' \in 0 .. MaxNodes /\ callsMade' \in 0 .. MaxCalls
      BY <1>6, FlowBounds
         DEF FlowBounds, Dispatch, Accept, Refuse, CreateFollowup, StepFinished, IInv,
             FlowTypeOK, TurnIsInStep, world, turn, conversation
    <2>3. /\ used' \subseteq Flow[node'].tools /\ refused' \subseteq Flow[node'].tools
          /\ pending' \subseteq Flow[node'].tools \cup {Unavailable}
      BY <1>6
         DEF Dispatch, Accept, Refuse, CreateFollowup, StepFinished, conversation, world, turn,
             OwnWork, IInv, FlowTypeOK, TurnIsInStep
    <2>4. /\ phase' \in {"customer", "node", "model", "calls", "replied", "after"}
          /\ said' \in BOOLEAN /\ outcome' \in Outcome \cup {NoOutcome}
      <3>1. outcome' \in {outcome} \cup DOMAIN Flow[node].branch \cup {"done", Unnamed}
        BY <1>6 DEF Dispatch, Accept, Refuse, StepFinished
      <3>2. DOMAIN Flow[node].branch \cup {"done", Unnamed} \subseteq Outcome
        BY DEF Outcome, IInv, FlowTypeOK
      <3>3. outcome' \in Outcome \cup {NoOutcome}
        BY <3>1, <3>2 DEF IInv, FlowTypeOK
      <3> QED
        BY <1>6, <3>3 DEF Dispatch, IInv, FlowTypeOK
    <2> QED
      BY <2>1, <2>2, <2>3, <2>4 DEF TurnTypeOK
  <1>7. CASE EndOfMessage /\ UNCHANGED <<comesBack, thanks>>
    <2>1. node' \in Node /\ finished' \in BOOLEAN
      <3>1. node' \in {node, Target(outcome)} /\ (node' = Target(outcome) => node' # NoNode \/ node' = node)
        BY <1>7 DEF EndOfMessage, Advance
      <3>2. finished' \in {finished, TRUE}
        BY <1>7 DEF EndOfMessage, Advance, SignOff
      <3> QED
        BY <3>1, <3>2, TargetIsAWayOut DEF IInv, FlowTypeOK
    <2>2. nodesRun' \in 0 .. MaxNodes /\ callsMade' \in 0 .. MaxCalls
      BY <1>7, FlowBounds
         DEF FlowBounds, EndOfMessage, Advance, AdvanceStatus, SignOff, GoRound,
             MovedOnSilently, IInv, FlowTypeOK, TurnIsInStep, world, turn, conversation
    <2>3. /\ used' \subseteq Flow[node'].tools /\ refused' \subseteq Flow[node'].tools
          /\ pending' \subseteq Flow[node'].tools \cup {Unavailable}
      <3>1. /\ UNCHANGED pending /\ pending = {}
            /\ \/ UNCHANGED <<node, used, refused>>
               \/ used' = {} /\ refused' = {}
        BY <1>7 DEF EndOfMessage, Advance
      <3> QED
        BY <3>1 DEF IInv, FlowTypeOK
    <2>4. /\ phase' \in {"customer", "node", "model", "calls", "replied", "after"}
          /\ said' \in BOOLEAN /\ outcome' \in Outcome \cup {NoOutcome}
      BY <1>7
         DEF EndOfMessage, Advance, AdvanceStatus, SignOff, GoRound, MovedOnSilently, Outcome,
             IInv, FlowTypeOK, TurnIsInStep, world, turn, conversation
    <2> QED
      BY <2>1, <2>2, <2>3, <2>4 DEF TurnTypeOK
  <1>8. CASE CustomerStops
    <2>1. node' \in Node /\ finished' \in BOOLEAN
      BY <1>8 DEF CustomerStops, TurnOver, conversation, world, turn, IInv, FlowTypeOK
    <2>2. nodesRun' \in 0 .. MaxNodes /\ callsMade' \in 0 .. MaxCalls
      BY <1>8, FlowBounds
         DEF FlowBounds, CustomerStops, TurnOver, IInv, FlowTypeOK, TurnIsInStep, world, turn,
             conversation
    <2>3. /\ used' \subseteq Flow[node'].tools /\ refused' \subseteq Flow[node'].tools
          /\ pending' \subseteq Flow[node'].tools \cup {Unavailable}
      BY <1>8
         DEF CustomerStops, TurnOver, conversation, world, turn, OwnWork, IInv, FlowTypeOK,
             TurnIsInStep
    <2>4. /\ phase' \in {"customer", "node", "model", "calls", "replied", "after"}
          /\ said' \in BOOLEAN /\ outcome' \in Outcome \cup {NoOutcome}
      BY <1>8
         DEF CustomerStops, TurnOver, Outcome, IInv, FlowTypeOK, TurnIsInStep, world, turn,
             conversation
    <2> QED
      BY <2>1, <2>2, <2>3, <2>4 DEF TurnTypeOK
  <1>9. CASE CustomerAnswers
    <2>1. node' \in Node /\ finished' \in BOOLEAN
      BY <1>9 DEF CustomerAnswers, TurnOver, conversation, world, turn, IInv, FlowTypeOK
    <2>2. nodesRun' \in 0 .. MaxNodes /\ callsMade' \in 0 .. MaxCalls
      BY <1>9, FlowBounds
         DEF FlowBounds, CustomerAnswers, TurnOver, IInv, FlowTypeOK, TurnIsInStep, world, turn,
             conversation
    <2>3. /\ used' \subseteq Flow[node'].tools /\ refused' \subseteq Flow[node'].tools
          /\ pending' \subseteq Flow[node'].tools \cup {Unavailable}
      BY <1>9
         DEF CustomerAnswers, TurnOver, conversation, world, turn, OwnWork, IInv, FlowTypeOK,
             TurnIsInStep
    <2>4. /\ phase' \in {"customer", "node", "model", "calls", "replied", "after"}
          /\ said' \in BOOLEAN /\ outcome' \in Outcome \cup {NoOutcome}
      BY <1>9
         DEF CustomerAnswers, TurnOver, Outcome, IInv, FlowTypeOK, TurnIsInStep, world, turn,
             conversation
    <2> QED
      BY <2>1, <2>2, <2>3, <2>4 DEF TurnTypeOK
  <1>10. CASE CustomerComesBack
    <2>1. node' \in Node /\ finished' \in BOOLEAN
      BY <1>10 DEF CustomerComesBack, TurnOver, conversation, world, turn, IInv, FlowTypeOK
    <2>2. nodesRun' \in 0 .. MaxNodes /\ callsMade' \in 0 .. MaxCalls
      BY <1>10, FlowBounds
         DEF FlowBounds, CustomerComesBack, TurnOver, IInv, FlowTypeOK, TurnIsInStep, world,
             turn, conversation
    <2>3. /\ used' \subseteq Flow[node'].tools /\ refused' \subseteq Flow[node'].tools
          /\ pending' \subseteq Flow[node'].tools \cup {Unavailable}
      BY <1>10
         DEF CustomerComesBack, TurnOver, conversation, world, turn, OwnWork, IInv, FlowTypeOK,
             TurnIsInStep
    <2>4. /\ phase' \in {"customer", "node", "model", "calls", "replied", "after"}
          /\ said' \in BOOLEAN /\ outcome' \in Outcome \cup {NoOutcome}
      BY <1>10
         DEF CustomerComesBack, TurnOver, Outcome, IInv, FlowTypeOK, TurnIsInStep, world, turn,
             conversation
    <2> QED
      BY <2>1, <2>2, <2>3, <2>4 DEF TurnTypeOK
  <1>11. CASE UNCHANGED <<node, finished, phase, turn>>
    BY <1>11 DEF IInv, FlowTypeOK, TurnTypeOK, turn
  <1> QED
    BY <1>1, <1>2, <1>3, <1>4, <1>5, <1>6, <1>7, <1>8, <1>9, <1>10, <1>11
       DEF Next, Talk, Engine, Customer, Afterwards, conversation, world, turn, HoursPass,
       TechnicianDone, TechnicianNotDone

\* Every step keeps the turn in step: a reply ends the loop, nothing is pending
\* between messages, and nobody is asked before the conversation is left.
LEMMA StepKept ==
    ASSUME IInv, Next
    PROVE  TurnIsInStep'
  <1> USE DEF IInv, FlowTypeOK, TurnIsInStep, conversation, world, turn
  <1>1. CASE Say /\ UNCHANGED <<comesBack, thanks>>
    BY <1>1, FlowBounds DEF Say
  <1>2. CASE RunNode /\ UNCHANGED <<comesBack, thanks>>
    BY <1>2, FlowBounds DEF RunNode
  <1>3. CASE Chat /\ UNCHANGED <<comesBack, thanks>>
    BY <1>3, FlowBounds
       DEF Chat, AnswerWithoutCalls, AskForTools, SignOff, GoRound, MovedOnSilently
  <1>4. CASE ModelFails /\ UNCHANGED <<comesBack, thanks>>
    BY <1>4, FlowBounds DEF ModelFails, Raise, TurnOver
  <1>5. CASE ToolRaises /\ UNCHANGED <<comesBack, thanks>>
    BY <1>5, FlowBounds DEF ToolRaises, Raise, TurnOver
  <1>6. CASE Dispatch /\ UNCHANGED <<comesBack, thanks>>
    <2>1. ASSUME NEW tool \in pending, NEW number \in BOOLEAN, Accept(tool, number),
                 pending' = pending \ {tool}
          PROVE  /\ \A i \in DOMAIN followups' : ~followups'[i].answered
                 /\ "schedule_create_followup" \in pending' => Len(followups') < MaxFollowups
      <3>1. Len(tickets') = Len(tickets) /\ phase # "after"
        BY <1>6, <2>1, NumberKept DEF Dispatch, IInv, Current
      <3>2. CreateFollowup(tool)
        BY <2>1 DEF Accept
      <3> QED
        BY <2>1, <3>1, <3>2, FollowupAdded DEF IInv, TurnIsInStep
    <2>2. \/ UNCHANGED followups /\ pending' \subseteq pending
          \/ \E tool \in pending, number \in BOOLEAN :
                 Accept(tool, number) /\ pending' = pending \ {tool}
      BY <1>6 DEF Dispatch, Refuse
    <2>3. /\ \A i \in DOMAIN followups' : ~followups'[i].answered
          /\ "schedule_create_followup" \in pending' => Len(followups') < MaxFollowups
      BY <1>6, <2>1, <2>2 DEF Dispatch, IInv, TurnIsInStep
    <2>4. phase = "calls" /\ UNCHANGED <<phase, finished, now, nodesRun, callsMade>>
      BY <1>6 DEF Dispatch, conversation
    <2> QED
      BY <2>3, <2>4 DEF IInv, TurnIsInStep
  <1>7. CASE EndOfMessage /\ UNCHANGED <<comesBack, thanks>>
    BY <1>7, FlowBounds
       DEF EndOfMessage, Advance, AdvanceStatus, SignOff, GoRound, MovedOnSilently
  <1>8. CASE CustomerStops
    BY <1>8, FlowBounds DEF CustomerStops, TurnOver
  <1>9. CASE CustomerAnswers
    BY <1>9, FlowBounds DEF CustomerAnswers, TurnOver
  <1>10. CASE CustomerComesBack
    BY <1>10, FlowBounds DEF CustomerComesBack, TurnOver
  <1>11. ASSUME NEW h \in Hours, HoursPass(h)
        PROVE  TurnIsInStep'
    BY <1>11, FlowBounds DEF HoursPass
  <1>12. CASE TechnicianDone
    BY <1>12, FlowBounds DEF TechnicianDone
  <1>13. CASE TechnicianNotDone
    BY <1>13, FlowBounds DEF TechnicianNotDone
  <1> HIDE DEF IInv, FlowTypeOK, TurnIsInStep, conversation, world, turn
  <1> QED
    BY <1>1, <1>2, <1>3, <1>4, <1>5, <1>6, <1>7, <1>8, <1>9, <1>10, <1>11, <1>12, <1>13
       DEF Next, Talk, Engine, Customer, Afterwards

\* Every step keeps what a last step did on record: a call that was made, not
\* refused and not still pending has put its result there.
LEMMA RecordKept ==
    ASSUME IInv, Next
    PROVE  WorkIsOnRecord'
  <1>1. CASE Say /\ UNCHANGED <<comesBack, thanks>>
    <2>1. used' = {}
      BY <1>1 DEF Say
    <2> QED
      BY <2>1 DEF WorkIsOnRecord
  <1>2. CASE Chat /\ UNCHANGED <<comesBack, thanks>>
    <2>1. UNCHANGED <<node, record, refused>> /\ pending = {} /\ Current' = Current
      <3>1. tickets' = tickets \/ tickets' = SetStatus(tickets, node)
        BY <1>2 DEF Chat, AnswerWithoutCalls, AskForTools, SignOff, conversation
      <3> QED
        BY <1>2, <3>1, StatusSet DEF Chat, AnswerWithoutCalls, AskForTools, SignOff, conversation,
           IInv, TurnIsInStep, Current
    <2>2. CASE UNCHANGED used
      BY <2>1, <2>2 DEF IInv, WorkIsOnRecord
    <2>3. ASSUME NEW calls, used' = used \cup (calls \cap OwnWork(node)), pending' = calls
          PROVE  WorkIsOnRecord'
      BY <2>1, <2>3 DEF IInv, WorkIsOnRecord, OwnWork
    <2> QED
      BY <1>2, <2>2, <2>3 DEF Chat, AnswerWithoutCalls, AskForTools
  <1>3. CASE ModelFails /\ UNCHANGED <<comesBack, thanks>>
    BY <1>3 DEF ModelFails, Raise, TurnOver, WorkIsOnRecord
  <1>4. CASE ToolRaises /\ UNCHANGED <<comesBack, thanks>>
    BY <1>4 DEF ToolRaises, Raise, TurnOver, WorkIsOnRecord
  <1>5. CASE Dispatch /\ UNCHANGED <<comesBack, thanks>>
    <2>1. PICK tool \in pending :
              /\ pending' = pending \ {tool}
              /\ Refuse(tool) \/ \E number \in BOOLEAN : Accept(tool, number)
      BY <1>5 DEF Dispatch
    <2>2. UNCHANGED <<node, used>>
      BY <1>5 DEF Dispatch, conversation
    <2>3. CASE Refuse(tool)
      <3>1. UNCHANGED <<record, tickets>> /\ refused' = refused \cup ({tool} \cap OwnWork(node))
        BY <2>3 DEF Refuse
      <3> QED
        BY <2>1, <2>2, <3>1 DEF IInv, WorkIsOnRecord, OwnWork, Current
    <2>4. ASSUME NEW number \in BOOLEAN, Accept(tool, number)
          PROVE  WorkIsOnRecord'
      <3>1. Current' = Current
        BY <2>4, NumberKept DEF IInv, Current
      <3>2. refused' = refused /\ record' = [record EXCEPT ![Current] = @ \cup Puts(tool)]
        BY <2>4 DEF Accept
      <3>3. Current \in 1 .. MaxJobs
        BY DEF IInv, FlowTypeOK
      <3>4. record'[Current] = record[Current] \cup Puts(tool)
        BY <3>2, <3>3 DEF IInv, FlowTypeOK
      <3> QED
        BY <2>1, <2>2, <3>1, <3>2, <3>4 DEF IInv, WorkIsOnRecord, OwnWork
    <2> QED
      BY <2>1, <2>3, <2>4
  <1>6. CASE EndOfMessage /\ UNCHANGED <<comesBack, thanks>>
    <2>1. UNCHANGED <<record, pending>>
      BY <1>6 DEF EndOfMessage
    <2>2. Current' = Current
      <3>1. tickets' = tickets \/ tickets' = SetStatus(tickets, node)
        BY <1>6 DEF EndOfMessage, Advance, AdvanceStatus, SignOff
      <3> QED
        BY <3>1, StatusSet DEF IInv, Current
    <2>3. used' = {} \/ UNCHANGED <<node, used, refused>>
      BY <1>6 DEF EndOfMessage, Advance
    <2> QED
      BY <2>1, <2>2, <2>3 DEF IInv, WorkIsOnRecord, OwnWork
  <1>7. CASE CustomerStops
    BY <1>7 DEF CustomerStops, TurnOver, WorkIsOnRecord
  <1>8. CASE CustomerAnswers
    BY <1>8 DEF CustomerAnswers, TurnOver, WorkIsOnRecord
  <1>9. CASE CustomerComesBack
    BY <1>9 DEF CustomerComesBack, TurnOver, WorkIsOnRecord
  <1>10. CASE TechnicianDone
    <2>1. Current' = Current /\ UNCHANGED <<record, node, used, refused, pending>>
      BY <1>10, TicketsClosed DEF TechnicianDone, conversation, turn, IInv, Current
    <2> QED
      BY <2>1 DEF IInv, WorkIsOnRecord, OwnWork
  <1>11. CASE UNCHANGED <<node, tickets, record, used, refused, pending>>
    BY <1>11 DEF IInv, WorkIsOnRecord, OwnWork, Current
  <1> QED
    BY <1>1, <1>2, <1>3, <1>4, <1>5, <1>6, <1>7, <1>8, <1>9, <1>10, <1>11
       DEF Next, Talk, Engine, Customer, Afterwards, conversation, world, turn, RunNode,
       HoursPass, TechnicianNotDone

-----------------------------------------------------------------------------
(* The invariant *)

\* The inductive invariant holds in every reachable state.
LEMMA Invariant == Spec => []IInv
  <1>1. ASSUME RigInit PROVE IInv
    <2>1. tickets \in Seq(Ticket) /\ Current = 1
      <3>1. NewTicket \in Ticket
        BY DEF NewTicket, Ticket, Status
      <3> QED
        BY <1>1, <3>1 DEF RigInit, Init, Current
    <2>2. followups \in Seq(Followup) /\ Len(followups) = 0 /\ DOMAIN followups = {}
      BY <1>1 DEF RigInit, Init
    <2>3. FlowTypeOK
      <3>1. Entry \in Node
        BY FlowAssumption DEF FlowAssumption, HangsTogether
      <3>2. MaxNodes \in Nat /\ MaxCalls \in Nat /\ MaxJobs \in Nat \ {0} /\ MaxFollowups \in Nat
        BY FlowBounds DEF FlowBounds
      <3>3. MaxNow \in Nat
        BY RigAssumption DEF RigAssumption
      <3>4. /\ node \in Node
            /\ nodesRun \in 0 .. MaxNodes /\ callsMade \in 0 .. MaxCalls
            /\ now \in 0 .. MaxNow /\ Len(followups) <= MaxFollowups /\ Current \in 1 .. MaxJobs
        BY <1>1, <2>1, <2>2, <3>1, <3>2, <3>3 DEF RigInit, Init
      <3>5. /\ record \in [1 .. MaxJobs -> SUBSET Work]
            /\ thanks \in [1 .. MaxJobs -> 0 .. 2]
        BY <1>1 DEF RigInit, Init
      <3>6. /\ used = {} /\ refused = {} /\ pending = {} /\ outcome = NoOutcome
            /\ said \in BOOLEAN /\ comesBack \in BOOLEAN /\ finished \in BOOLEAN
            /\ phase = "customer"
        BY <1>1 DEF RigInit, Init
      <3> QED
        BY <2>1, <2>2, <3>4, <3>5, <3>6 DEF FlowTypeOK
    <2>4. TurnIsInStep /\ FollowupsHaveTickets /\ WorkIsOnRecord
      BY <1>1, <2>2 DEF RigInit, Init, TurnIsInStep, FollowupsHaveTickets, WorkIsOnRecord
    <2> QED
      BY <2>3, <2>4 DEF IInv
  <1>2. ASSUME IInv, [Next]_rigVars PROVE IInv'
    <2>1. CASE Next
      <3>1. FlowTypeOK'
        BY <1>2, <2>1, TicketsTyped, FollowupsKept, WorldTyped, TurnTyped
           DEF FlowTypeOK, TicketsTypeOK, FollowupsTypeOK, WorldTypeOK, TurnTypeOK, Current
      <3> QED
        BY <1>2, <2>1, <3>1, FollowupsKept, StepKept, RecordKept DEF IInv
    <2>2. CASE UNCHANGED rigVars
      BY <1>2, <2>2 DEF rigVars, vars, conversation, world, turn, IInv, FlowTypeOK, TurnIsInStep,
         FollowupsHaveTickets, WorkIsOnRecord, Current, OwnWork, OpenOf
    <2> QED
      BY <1>2, <2>1, <2>2
  <1> QED
    BY <1>1, <1>2, PTL DEF Spec

\* Every variable of the flow and its harness keeps its type; the turn never exceeds
\* MAX_NODES_PER_TURN or MAX_CALLS_PER_TURN, and the node is always one of the graph.
THEOREM TypeCorrect == Spec => []FlowTypeOK
  <1>1. IInv => FlowTypeOK
    BY DEF IInv
  <1> QED
    BY <1>1, Invariant, PTL

-----------------------------------------------------------------------------
(* The days after: nobody is forgotten, and what is reported done is closed *)

\* Every step leaves each open question due after now: one that came due has been
\* asked and given a new time.
LEMMA ForgottenKept ==
    ASSUME IInv, NobodyIsForgotten, Next
    PROVE  NobodyIsForgotten'
  <1>1. CASE Dispatch /\ UNCHANGED <<comesBack, thanks>>
    <2>1. now' = 0
      BY <1>1 DEF Dispatch, IInv, TurnIsInStep
    <2> QED
      BY <2>1 DEF NobodyIsForgotten
  <1>2. ASSUME NEW h \in Hours, HoursPass(h)
        PROVE  NobodyIsForgotten'
    <2>1. now \in Nat /\ now' = now + h /\ h \in Nat \ {0} /\ AskAgain \in Nat \ {0}
      BY <1>2, RigAssumption DEF HoursPass, RigAssumption, IInv, FlowTypeOK
    <2>2. ASSUME NEW i \in DOMAIN followups, ~followups'[i].answered
          PROVE  followups'[i].due > now'
      <3>1. followups[i] \in Followup /\ followups[i].due \in Nat
        <4>1. followups[i] \in Followup
          BY ElementOfSeq, LenProperties DEF IInv, FlowTypeOK
        <4> QED
          BY <4>1 DEF Followup
      <3>2. CASE Due(followups[i], now')
        <4>1. followups'[i] = Ask(followups[i], now')
          BY <1>2, <3>2 DEF HoursPass
        <4>2. followups'[i].due = now' + AskAgain
          BY <3>1, <4>1 DEF Ask, Followup
        <4> QED
          BY <2>1, <4>2
      <3>3. CASE ~Due(followups[i], now')
        <4>1. followups'[i] = followups[i]
          BY <1>2, <3>3 DEF HoursPass
        <4> QED
          BY <2>1, <2>2, <3>1, <3>3, <4>1 DEF Due
      <3> QED
        BY <3>2, <3>3
    <2>3. DOMAIN followups' = DOMAIN followups
      BY <1>2 DEF HoursPass
    <2> QED
      BY <2>2, <2>3 DEF NobodyIsForgotten
  <1>3. CASE TechnicianDone
    <2>1. ASSUME NEW i \in DOMAIN followups PROVE followups'[i].answered
      <3>1. followups[i] \in Followup
        BY ElementOfSeq, LenProperties DEF IInv, FlowTypeOK
      <3>2. followups'[i] = [followups[i] EXCEPT !.answered = TRUE]
        BY <1>3 DEF TechnicianDone
      <3> QED
        BY <3>1, <3>2 DEF Followup
    <2>2. DOMAIN followups' = DOMAIN followups
      BY <1>3 DEF TechnicianDone
    <2> QED
      BY <2>1, <2>2 DEF NobodyIsForgotten
  <1>4. CASE TechnicianNotDone
    <2>1. now \in Nat /\ now' = now /\ AskAgain \in Nat \ {0}
      BY <1>4, RigAssumption DEF TechnicianNotDone, RigAssumption, IInv, FlowTypeOK
    <2>2. ASSUME NEW i \in DOMAIN followups, ~followups'[i].answered, now > 0
          PROVE  followups'[i].due > now
      <3>1. followups[i] \in Followup
        BY ElementOfSeq, LenProperties DEF IInv, FlowTypeOK
      <3>2. CASE followups'[i] = followups[i]
        BY <2>2, <3>2 DEF NobodyIsForgotten
      <3>3. CASE followups'[i] = [followups[i] EXCEPT !.due = now + AskAgain]
        <4>1. followups'[i].due = now + AskAgain
          BY <3>1, <3>3 DEF Followup
        <4> QED
          BY <2>1, <4>1
      <3> QED
        BY <1>4, <3>2, <3>3 DEF TechnicianNotDone
    <2>3. DOMAIN followups' = DOMAIN followups
      BY <1>4 DEF TechnicianNotDone
    <2> QED
      BY <2>1, <2>2, <2>3 DEF NobodyIsForgotten
  <1>5. CASE UNCHANGED <<now, followups>>
    BY <1>5 DEF NobodyIsForgotten
  <1> QED
    BY <1>1, <1>2, <1>3, <1>4, <1>5
       DEF Next, Talk, Engine, Customer, Afterwards, conversation, world, turn, Say, RunNode,
       Chat, ModelFails, Raise, TurnOver, ToolRaises, EndOfMessage, CustomerStops,
       CustomerAnswers, CustomerComesBack

\* No open question is overdue once the clock has moved (followup.py:11), for any
\* number of follow-ups and any waiting times.
THEOREM EverybodyIsAsked == Spec => []NobodyIsForgotten
  <1>1. RigInit => NobodyIsForgotten
    BY DEF RigInit, Init, NobodyIsForgotten
  <1>2. IInv /\ NobodyIsForgotten /\ [Next]_rigVars => NobodyIsForgotten'
    <2> SUFFICES ASSUME IInv, NobodyIsForgotten, [Next]_rigVars PROVE NobodyIsForgotten'
      OBVIOUS
    <2>1. CASE Next
      BY <2>1, ForgottenKept
    <2>2. CASE UNCHANGED rigVars
      BY <2>2 DEF rigVars, vars, conversation, world, turn, NobodyIsForgotten
    <2> QED
      BY <2>1, <2>2
  <1> QED
    BY <1>1, <1>2, Invariant, PTL DEF Spec

\* Every step keeps reported jobs closed, asked about no more, and thanked for.
LEMMA ReportsKept ==
    ASSUME IInv, ReportedJobsAreClosedAndThanked, Next
    PROVE  ReportedJobsAreClosedAndThanked'
  <1>1. CASE Say /\ UNCHANGED <<comesBack, thanks>>
    <2>1. phase # "after"
      BY <1>1 DEF Say, world
    <2>2. \A i \in DOMAIN followups' : ~followups'[i].answered
      BY <1>1, <2>1 DEF Say, world, IInv, TurnIsInStep
    <2> QED
      BY <2>2 DEF ReportedJobsAreClosedAndThanked
  <1>2. CASE RunNode /\ UNCHANGED <<comesBack, thanks>>
    <2>1. phase # "after"
      BY <1>2 DEF RunNode, world
    <2>2. \A i \in DOMAIN followups' : ~followups'[i].answered
      BY <1>2, <2>1 DEF RunNode, world, IInv, TurnIsInStep
    <2> QED
      BY <2>2 DEF ReportedJobsAreClosedAndThanked
  <1>3. CASE Chat /\ UNCHANGED <<comesBack, thanks>>
    <2>1. phase # "after"
      BY <1>3 DEF Chat, world
    <2>2. \A i \in DOMAIN followups' : ~followups'[i].answered
      BY <1>3, <2>1 DEF Chat, world, IInv, TurnIsInStep
    <2> QED
      BY <2>2 DEF ReportedJobsAreClosedAndThanked
  <1>4. CASE ModelFails /\ UNCHANGED <<comesBack, thanks>>
    <2>1. phase # "after"
      BY <1>4 DEF ModelFails, Raise, TurnOver, world
    <2>2. \A i \in DOMAIN followups' : ~followups'[i].answered
      BY <1>4, <2>1 DEF ModelFails, Raise, TurnOver, world, IInv, TurnIsInStep
    <2> QED
      BY <2>2 DEF ReportedJobsAreClosedAndThanked
  <1>5. CASE ToolRaises /\ UNCHANGED <<comesBack, thanks>>
    <2>1. phase # "after"
      BY <1>5 DEF ToolRaises, Raise, TurnOver, world
    <2>2. \A i \in DOMAIN followups' : ~followups'[i].answered
      BY <1>5, <2>1 DEF ToolRaises, Raise, TurnOver, world, IInv, TurnIsInStep
    <2> QED
      BY <2>2 DEF ReportedJobsAreClosedAndThanked
  <1>6. CASE Dispatch /\ UNCHANGED <<comesBack, thanks>>
    <2>1. phase = "calls" /\ phase' = "calls"
      BY <1>6 DEF Dispatch
    <2>2. \A i \in DOMAIN followups' : ~followups'[i].answered
      BY <1>6, <2>1, StepKept DEF TurnIsInStep
    <2> QED
      BY <2>2 DEF ReportedJobsAreClosedAndThanked
  <1>7. CASE EndOfMessage /\ UNCHANGED <<comesBack, thanks>>
    <2>1. phase # "after"
      BY <1>7 DEF EndOfMessage, world
    <2>2. \A i \in DOMAIN followups' : ~followups'[i].answered
      BY <1>7, <2>1 DEF EndOfMessage, world, IInv, TurnIsInStep
    <2> QED
      BY <2>2 DEF ReportedJobsAreClosedAndThanked
  <1>8. CASE CustomerStops
    <2>1. phase # "after"
      BY <1>8 DEF CustomerStops, TurnOver, world
    <2>2. \A i \in DOMAIN followups' : ~followups'[i].answered
      BY <1>8, <2>1 DEF CustomerStops, TurnOver, world, IInv, TurnIsInStep
    <2> QED
      BY <2>2 DEF ReportedJobsAreClosedAndThanked
  <1>9. CASE CustomerAnswers
    <2>1. phase # "after"
      BY <1>9 DEF CustomerAnswers, TurnOver, world
    <2>2. \A i \in DOMAIN followups' : ~followups'[i].answered
      BY <1>9, <2>1 DEF CustomerAnswers, TurnOver, world, IInv, TurnIsInStep
    <2> QED
      BY <2>2 DEF ReportedJobsAreClosedAndThanked
  <1>10. CASE CustomerComesBack
    <2>1. phase # "after"
      BY <1>10 DEF CustomerComesBack, TurnOver, world
    <2>2. \A i \in DOMAIN followups' : ~followups'[i].answered
      BY <1>10, <2>1 DEF CustomerComesBack, TurnOver, world, IInv, TurnIsInStep
    <2> QED
      BY <2>2 DEF ReportedJobsAreClosedAndThanked
  <1>11. ASSUME NEW h \in Hours, HoursPass(h)
        PROVE  ReportedJobsAreClosedAndThanked'
    <2>1. ASSUME NEW i \in DOMAIN followups
          PROVE  /\ followups'[i].answered = followups[i].answered
                 /\ followups'[i].ticket = followups[i].ticket
      <3>1. followups[i] \in Followup
        BY ElementOfSeq, LenProperties DEF IInv, FlowTypeOK
      <3> QED
        BY <1>11, <3>1 DEF HoursPass, Ask, Followup
    <2>2. DOMAIN followups' = DOMAIN followups /\ UNCHANGED <<tickets, thanks>>
      BY <1>11 DEF HoursPass
    <2>3. \A t : OpenOf(t)' = OpenOf(t)
      BY <2>1, <2>2 DEF OpenOf
    <2> QED
      BY <2>1, <2>2, <2>3 DEF ReportedJobsAreClosedAndThanked
  <1>12. CASE TechnicianDone
    <2>1. ASSUME NEW i \in DOMAIN followups
          PROVE  followups'[i].answered /\ followups'[i].ticket = followups[i].ticket
      <3>1. followups[i] \in Followup
        BY ElementOfSeq, LenProperties DEF IInv, FlowTypeOK
      <3>2. followups'[i] = [followups[i] EXCEPT !.answered = TRUE]
        BY <1>12 DEF TechnicianDone
      <3> QED
        BY <3>1, <3>2 DEF Followup
    <2>2. DOMAIN followups' = DOMAIN followups
      BY <1>12 DEF TechnicianDone
    <2>3. \A t : OpenOf(t)' = {}
      BY <2>1, <2>2 DEF OpenOf
    <2>4. ASSUME NEW i \in DOMAIN followups
          PROVE  LET t == followups[i].ticket
                 IN  /\ tickets'[t].status = "Closed"
                     /\ tickets'[t].tagged => thanks'[t] > 0
      <3> DEFINE t == followups[i].ticket
      <3>1. t \in 1 .. Current /\ t \in 1 .. MaxJobs /\ thanks[t] \in 0 .. 2
        BY FlowBounds DEF FlowBounds, IInv, FollowupsHaveTickets, FlowTypeOK
      <3>2. tickets' = CloseTickets(tickets, OpenTickets) /\ tickets'[t].tagged = tickets[t].tagged
        BY <1>12, <3>1, TicketsClosed DEF TechnicianDone, IInv
      <3>3. CASE t \in OpenTickets
        <4>1. tickets'[t].status = "Closed"
          BY <3>1, <3>2, <3>3, TicketsClosed DEF IInv
        <4>2. ASSUME tickets[t].tagged PROVE thanks'[t] > 0
          <5>1. Number(t)
            BY <4>2 DEF Number
          <5>2. thanks'[t] = Thanks(thanks[t], t)
            BY <1>12, <3>1, <3>3, <5>1 DEF TechnicianDone
          <5>3. OpenOf(t) # {}
            BY <3>3 DEF OpenTickets
          <5>4. Cardinality(OpenOf(t)) \in Nat /\ Cardinality(OpenOf(t)) > 0
            BY <5>3, OpenIsFinite
          <5> QED
            BY <3>1, <5>2, <5>4 DEF Thanks
        <4> QED
          BY <3>2, <4>1, <4>2
      <3>4. CASE t \notin OpenTickets
        <4>1. followups[i].answered
          BY <3>1, <3>4 DEF OpenTickets, OpenOf
        <4>2. tickets[t].status = "Closed" /\ (tickets[t].tagged => thanks[t] > 0)
          BY <4>1 DEF ReportedJobsAreClosedAndThanked
        <4>3. tickets'[t] = tickets[t]
          BY <3>1, <3>2, <3>4, TicketsClosed DEF IInv
        <4>4. thanks'[t] = thanks[t]
          BY <1>12, <3>1, <3>4 DEF TechnicianDone
        <4> QED
          BY <4>2, <4>3, <4>4
      <3> QED
        BY <3>3, <3>4
    <2> QED
      BY <2>1, <2>2, <2>3, <2>4 DEF ReportedJobsAreClosedAndThanked
  <1>13. CASE TechnicianNotDone
    <2>1. ASSUME NEW i \in DOMAIN followups
          PROVE  /\ followups'[i].answered = followups[i].answered
                 /\ followups'[i].ticket = followups[i].ticket
      <3>1. followups[i] \in Followup
        BY ElementOfSeq, LenProperties DEF IInv, FlowTypeOK
      <3> QED
        BY <1>13, <3>1 DEF TechnicianNotDone, Ask, Followup
    <2>2. DOMAIN followups' = DOMAIN followups /\ UNCHANGED <<tickets, thanks>>
      BY <1>13 DEF TechnicianNotDone
    <2>3. \A t : OpenOf(t)' = OpenOf(t)
      BY <2>1, <2>2 DEF OpenOf
    <2> QED
      BY <2>1, <2>2, <2>3 DEF ReportedJobsAreClosedAndThanked
  <1> QED
    BY <1>1, <1>2, <1>3, <1>4, <1>5, <1>6, <1>7, <1>8, <1>9, <1>10, <1>11, <1>12, <1>13
       DEF Next, Talk, Engine, Customer, Afterwards

\* A job reported done is closed, nobody is asked about it again, and its customer
\* is thanked if any step was given the number (followup.py, technician_says).
THEOREM ReportsCloseAndThank == Spec => []ReportedJobsAreClosedAndThanked
  <1>1. RigInit => ReportedJobsAreClosedAndThanked
    BY DEF RigInit, Init, ReportedJobsAreClosedAndThanked
  <1>2. IInv /\ ReportedJobsAreClosedAndThanked /\ [Next]_rigVars => ReportedJobsAreClosedAndThanked'
    <2> SUFFICES ASSUME IInv, ReportedJobsAreClosedAndThanked, [Next]_rigVars PROVE ReportedJobsAreClosedAndThanked'
      OBVIOUS
    <2>1. CASE Next
      BY <2>1, ReportsKept
    <2>2. CASE UNCHANGED rigVars
      BY <2>2
         DEF rigVars, vars, conversation, world, turn, ReportedJobsAreClosedAndThanked, OpenOf
    <2> QED
      BY <2>1, <2>2
  <1> QED
    BY <1>1, <1>2, Invariant, PTL DEF Spec

-----------------------------------------------------------------------------
(* The status of a job *)

\* Every step keeps the status of an open job the one its path has set.
LEMMA StatusKept ==
    ASSUME IInv, StatusFollowsThePath, Next
    PROVE  StatusFollowsThePath'
  <1>1. CASE Say /\ UNCHANGED <<comesBack, thanks>>
    <2>1. CASE finished
      <3>1. tickets' = Append(tickets, NewTicket) /\ node' = Entry
        BY <1>1, <2>1 DEF Say, StartAgain
      <3>2. NewTicket \in Ticket
        BY DEF NewTicket, Ticket, Status
      <3>3. tickets'[Current'] = NewTicket
        BY <3>1, <3>2, AppendProperties DEF IInv, FlowTypeOK, Current
      <3>4. tickets'[Current'].status = Inquiry
        BY <3>3 DEF NewTicket
      <3> QED
        BY <3>1, <3>4 DEF StatusFollowsThePath
    <2>2. CASE ~finished
      BY <1>1, <2>2 DEF Say, conversation, StatusFollowsThePath, Current
    <2> QED
      BY <2>1, <2>2
  <1>2. CASE Chat /\ UNCHANGED <<comesBack, thanks>>
    <2>1. CASE UNCHANGED <<node, finished, tickets>>
      BY <2>1 DEF StatusFollowsThePath, Current
    <2>2. CASE finished'
      BY <2>2 DEF StatusFollowsThePath
    <2> QED
      BY <1>2, <2>1, <2>2 DEF Chat, AnswerWithoutCalls, AskForTools, SignOff, conversation
  <1>3. CASE Dispatch /\ UNCHANGED <<comesBack, thanks>>
    <2>1. UNCHANGED <<node, finished>>
      BY <1>3 DEF Dispatch, conversation
    <2>2. CASE UNCHANGED tickets
      BY <2>1, <2>2 DEF StatusFollowsThePath, Current
    <2>3. ASSUME NEW tool, NEW number \in BOOLEAN, Accept(tool, number)
          PROVE  StatusFollowsThePath'
      <3>1. Current' = Current /\ tickets'[Current].status = tickets[Current].status
        BY <2>3, NumberKept DEF IInv, Current
      <3> QED
        BY <2>1, <3>1 DEF StatusFollowsThePath
    <2> QED
      BY <1>3, <2>2, <2>3 DEF Dispatch, Refuse
  <1>4. CASE EndOfMessage /\ UNCHANGED <<comesBack, thanks>>
    <2>1. CASE UNCHANGED <<node, finished, tickets>>
      BY <2>1 DEF StatusFollowsThePath, Current
    <2>2. CASE finished'
      BY <2>2 DEF StatusFollowsThePath
    <2>3. CASE /\ node' = Target(outcome) /\ Target(outcome) # NoNode
               /\ tickets' = SetStatus(tickets, node)
      <3>1. node \in Node /\ node' \in {node} \cup Exits(node)
        BY <2>3, TargetIsAWayOut DEF IInv, FlowTypeOK
      <3>2. Current' = Current /\ tickets'[Current].status = Flow[node].sets_status
        BY <2>3, StatusSet DEF IInv, Current
      <3> QED
        BY <3>1, <3>2 DEF StatusFollowsThePath
    <2> QED
      BY <1>4, <2>1, <2>2, <2>3 DEF EndOfMessage, Advance, AdvanceStatus, SignOff
  <1>5. CASE TechnicianDone
    <2>1. UNCHANGED <<node, finished>>
      BY <1>5 DEF TechnicianDone, conversation
    <2>2. Current' = Current /\ Current \in 1 .. Current
      BY <1>5, TicketsClosed, FlowBounds DEF TechnicianDone, FlowBounds, IInv, FlowTypeOK, Current
    <2>3. tickets'[Current].status = "Closed" \/ tickets'[Current] = tickets[Current]
      BY <1>5, <2>2, TicketsClosed DEF TechnicianDone, IInv
    <2> QED
      BY <2>1, <2>2, <2>3 DEF StatusFollowsThePath
  <1>6. CASE UNCHANGED <<node, finished, tickets>>
    BY <1>6 DEF StatusFollowsThePath, Current
  <1> QED
    BY <1>1, <1>2, <1>3, <1>4, <1>5, <1>6
       DEF Next, Talk, Engine, Customer, Afterwards, conversation, world, turn, RunNode,
       ModelFails, Raise, TurnOver, ToolRaises, CustomerStops, CustomerAnswers,
       CustomerComesBack, HoursPass, TechnicianNotDone

\* The status of an open job is that of the step it came from or is in
\* (engine.py:304), in every graph that loads.
THEOREM StatusIsOfThePath == Spec => []StatusFollowsThePath
  <1>1. RigInit => StatusFollowsThePath
    BY DEF RigInit, Init, StatusFollowsThePath, NewTicket, Current
  <1>2. IInv /\ StatusFollowsThePath /\ [Next]_rigVars => StatusFollowsThePath'
    <2> SUFFICES ASSUME IInv, StatusFollowsThePath, [Next]_rigVars PROVE StatusFollowsThePath'
      OBVIOUS
    <2>1. CASE Next
      BY <2>1, StatusKept
    <2>2. CASE UNCHANGED rigVars
      BY <2>2 DEF rigVars, vars, conversation, world, turn, StatusFollowsThePath, Current
    <2> QED
      BY <2>1, <2>2
  <1> QED
    BY <1>1, <1>2, Invariant, PTL DEF Spec

-----------------------------------------------------------------------------
(* The closing words of a last step *)

\* A message's outcome is forgotten with the message, and a last step names none.
LastStepsNameNoOutcome ==
    /\ phase # "calls" => outcome = NoOutcome
    /\ outcome # NoOutcome => ~LastStep(node)

ClosingInv == LastStepsNameNoOutcome /\ ClosingWordsAreTrue

\* When the engine finds nothing undone, all work of the step is on record but what
\* was refused.
LEMMA SignOffIsTrue ==
    ASSUME IInv, pending = {}, LastStep(node), Undone(node, used) = {},
           NEW tool \in Flow[node].tools \ refused
    PROVE  Puts(tool) \subseteq record[Current]
  <1>1. CASE tool \in NotWork
    <2>1. Puts(tool) = {}
      BY <1>1 DEF NotWork, Puts, Leaves
    <2> QED
      BY <2>1
  <1>2. CASE tool \notin NotWork
    <2>1. tool \in used
      BY <1>2 DEF Undone, OwnWork
    <2> QED
      BY <2>1 DEF IInv, WorkIsOnRecord
  <1> QED
    BY <1>1, <1>2

\* Every step keeps it so that a last step names no outcome: it is not given the
\* tool for it.
LEMMA NamesKept ==
    ASSUME LastStepsDoNotMoveOn, IInv, ClosingInv, Next
    PROVE  LastStepsNameNoOutcome'
  <1>1. CASE Say /\ UNCHANGED <<comesBack, thanks>>
    BY <1>1 DEF Say, ClosingInv, LastStepsNameNoOutcome
  <1>2. CASE RunNode /\ UNCHANGED <<comesBack, thanks>>
    BY <1>2 DEF RunNode, ClosingInv, LastStepsNameNoOutcome
  <1>3. CASE Chat /\ UNCHANGED <<comesBack, thanks>>
    BY <1>3 DEF Chat, LastStepsNameNoOutcome
  <1>4. CASE ModelFails /\ UNCHANGED <<comesBack, thanks>>
    BY <1>4 DEF ModelFails, Raise, TurnOver, LastStepsNameNoOutcome
  <1>5. CASE ToolRaises /\ UNCHANGED <<comesBack, thanks>>
    BY <1>5 DEF ToolRaises, Raise, TurnOver, LastStepsNameNoOutcome
  <1>6. CASE Dispatch /\ UNCHANGED <<comesBack, thanks>>
    <2>1. PICK tool \in pending : Refuse(tool) \/ \E number \in BOOLEAN : Accept(tool, number)
      BY <1>6 DEF Dispatch
    <2>2. UNCHANGED node /\ phase' = "calls"
      BY <1>6 DEF Dispatch, conversation
    <2>3. CASE tool = "step_finished"
      <3>1. "step_finished" \in Flow[node].tools /\ node \in Node
        BY <2>3 DEF IInv, FlowTypeOK, Unavailable
      <3>2. ~LastStep(node)
        BY <3>1 DEF LastStepsDoNotMoveOn, LastStep
      <3> QED
        BY <2>2, <3>2 DEF LastStepsNameNoOutcome, LastStep
    <2>4. CASE tool # "step_finished"
      <3>1. UNCHANGED outcome
        BY <2>1, <2>4 DEF Refuse, Accept, StepFinished
      <3> QED
        BY <2>2, <3>1 DEF ClosingInv, LastStepsNameNoOutcome, LastStep
    <2> QED
      BY <2>3, <2>4
  <1>7. CASE EndOfMessage /\ UNCHANGED <<comesBack, thanks>>
    BY <1>7 DEF EndOfMessage, LastStepsNameNoOutcome
  <1>8. CASE CustomerStops
    BY <1>8 DEF CustomerStops, TurnOver, LastStepsNameNoOutcome
  <1>9. CASE CustomerAnswers
    BY <1>9 DEF CustomerAnswers, TurnOver, LastStepsNameNoOutcome
  <1>10. CASE CustomerComesBack
    BY <1>10 DEF CustomerComesBack, TurnOver, LastStepsNameNoOutcome
  <1>11. CASE UNCHANGED <<node, phase, outcome>>
    BY <1>11 DEF ClosingInv, LastStepsNameNoOutcome, LastStep
  <1> QED
    BY <1>1, <1>2, <1>3, <1>4, <1>5, <1>6, <1>7, <1>8, <1>9, <1>10, <1>11
       DEF Next, Talk, Engine, Customer, Afterwards, conversation, world, turn, HoursPass,
       TechnicianDone, TechnicianNotDone

\* Every step keeps the closing words true: a last step ends by signing off only.
LEMMA WordsKept ==
    ASSUME LastStepsDoNotMoveOn, IInv, ClosingInv, Next
    PROVE  ClosingWordsAreTrue'
  <1>1. CASE Say /\ UNCHANGED <<comesBack, thanks>>
    <2>1. finished' = FALSE
      BY <1>1 DEF Say, conversation, IInv, FlowTypeOK
    <2> QED
      BY <2>1 DEF ClosingWordsAreTrue
  <1>2. CASE Chat /\ UNCHANGED <<comesBack, thanks>>
    <2>1. ~finished /\ pending = {} /\ UNCHANGED <<node, record, refused>>
      BY <1>2 DEF Chat, AnswerWithoutCalls, AskForTools, conversation, IInv, TurnIsInStep
    <2>2. SUFFICES ASSUME finished' PROVE ClosingWordsAreTrue'
      BY DEF ClosingWordsAreTrue
    <2>3. /\ LastStep(node) /\ Undone(node, used) = {}
          /\ tickets' = SetStatus(tickets, node)
      BY <1>2, <2>1, <2>2 DEF Chat, AnswerWithoutCalls, AskForTools, SignOff, conversation
    <2>4. Current' = Current
      BY <2>3, StatusSet DEF IInv, Current
    <2> QED
      BY <2>1, <2>3, <2>4, SignOffIsTrue DEF ClosingWordsAreTrue
  <1>3. CASE ModelFails /\ UNCHANGED <<comesBack, thanks>>
    BY <1>3
       DEF ModelFails, Raise, TurnOver, conversation, world, ClosingInv, ClosingWordsAreTrue,
           Current
  <1>4. CASE ToolRaises /\ UNCHANGED <<comesBack, thanks>>
    BY <1>4
       DEF ToolRaises, Raise, TurnOver, conversation, world, ClosingInv, ClosingWordsAreTrue,
           Current
  <1>5. CASE Dispatch /\ UNCHANGED <<comesBack, thanks>>
    <2>1. finished' = FALSE
      BY <1>5 DEF Dispatch, conversation, IInv, TurnIsInStep, FlowTypeOK
    <2> QED
      BY <2>1 DEF ClosingWordsAreTrue
  <1>6. CASE EndOfMessage /\ UNCHANGED <<comesBack, thanks>>
    <2>1. ~finished /\ pending = {} /\ UNCHANGED record
      BY <1>6 DEF EndOfMessage, IInv, TurnIsInStep
    <2>2. SUFFICES ASSUME finished' PROVE ClosingWordsAreTrue'
      BY DEF ClosingWordsAreTrue
    <2>3. CASE outcome # NoOutcome
      <3>1. Target(outcome) = NoNode
        BY <1>6, <2>1, <2>2, <2>3 DEF EndOfMessage, Advance
      <3> QED
        BY <2>3, <3>1, TargetIsAWayOut
           DEF ClosingInv, LastStepsNameNoOutcome, IInv, FlowTypeOK
    <2>4. CASE outcome = NoOutcome
      <3>1. /\ LastStep(node) /\ Undone(node, used) = {} /\ UNCHANGED <<node, refused>>
            /\ tickets' = SetStatus(tickets, node)
        BY <1>6, <2>1, <2>2, <2>4 DEF EndOfMessage, SignOff
      <3>2. Current' = Current
        BY <3>1, StatusSet DEF IInv, Current
      <3> QED
        BY <2>1, <3>1, <3>2, SignOffIsTrue DEF ClosingWordsAreTrue
    <2> QED
      BY <2>3, <2>4
  <1>7. CASE CustomerStops
    BY <1>7
       DEF CustomerStops, TurnOver, conversation, world, ClosingInv, ClosingWordsAreTrue,
           Current
  <1>8. CASE CustomerAnswers
    BY <1>8
       DEF CustomerAnswers, TurnOver, conversation, world, ClosingInv, ClosingWordsAreTrue,
           Current
  <1>9. CASE CustomerComesBack
    BY <1>9
       DEF CustomerComesBack, TurnOver, conversation, world, ClosingInv, ClosingWordsAreTrue,
           Current
  <1>10. CASE TechnicianDone
    <2>1. Current' = Current /\ UNCHANGED <<node, finished, record, refused>>
      BY <1>10, TicketsClosed DEF TechnicianDone, conversation, turn, IInv, Current
    <2> QED
      BY <2>1 DEF ClosingInv, ClosingWordsAreTrue
  <1>11. CASE UNCHANGED <<node, finished, tickets, record, refused>>
    BY <1>11 DEF ClosingInv, ClosingWordsAreTrue, Current
  <1> QED
    BY <1>1, <1>2, <1>3, <1>4, <1>5, <1>6, <1>7, <1>8, <1>9, <1>10, <1>11
       DEF Next, Talk, Engine, Customer, Afterwards, conversation, world, turn, RunNode,
       HoursPass, TechnicianNotDone

\* When a last step has said its closing words, its work is on record but for what
\* its tools refused (engine.py:246, :273).  It rests on the graph: a last step with
\* step.finished among its tools could end the conversation with its work undone.
THEOREM LastStepsTellTheTruth ==
    ASSUME LastStepsDoNotMoveOn
    PROVE  Spec => []ClosingWordsAreTrue
  <1>1. RigInit => ClosingInv
    BY DEF RigInit, Init, ClosingInv, LastStepsNameNoOutcome, ClosingWordsAreTrue
  <1>2. IInv /\ ClosingInv /\ [Next]_rigVars => ClosingInv'
    <2> SUFFICES ASSUME IInv, ClosingInv, [Next]_rigVars PROVE ClosingInv'
      OBVIOUS
    <2>1. CASE Next
      BY <2>1, NamesKept, WordsKept DEF ClosingInv
    <2>2. CASE UNCHANGED rigVars
      BY <2>2
         DEF rigVars, vars, conversation, world, turn, ClosingInv, LastStepsNameNoOutcome,
             ClosingWordsAreTrue,
         Current, LastStep
    <2> QED
      BY <2>1, <2>2
  <1>3. ClosingInv => ClosingWordsAreTrue
    BY DEF ClosingInv
  <1> QED
    BY <1>1, <1>2, <1>3, Invariant, PTL DEF Spec

-----------------------------------------------------------------------------
(* The walk of a job *)

\* While no follow-up is answered, no job is reported done.
LEMMA NothingReported ==
    ASSUME \A i \in DOMAIN followups : ~followups[i].answered
    PROVE  {followups[i].ticket : i \in {j \in DOMAIN followups : followups[j].answered}} = {}
  OBVIOUS

\* A step that leaves node, end, follow-ups and number of tickets alone is no step
\* of the walk.
LEMMA Stutter ==
    ASSUME UNCHANGED <<node, finished, followups>>, Len(tickets') = Len(tickets)
    PROVE  UNCHANGED Walks!vars
  BY DEF Walks!vars, Current

\* Signing off is the walk's end of a job.
LEMMA LastStepEnds ==
    ASSUME IInv, UNCHANGED <<node, followups>>, ~finished, phase # "after",
           LastStep(node), finished' = TRUE, tickets' = SetStatus(tickets, node)
    PROVE  [Walks!Next]_(Walks!vars)
  <1>1. Walks!Open
    BY NothingReported DEF Walks!Open, IInv, TurnIsInStep
  <1>2. node \in Node /\ Exits(node) = {}
    BY DEF LastStep, IsTerminal, Exits, Range, IInv, FlowTypeOK
  <1>3. Current' = Current
    BY StatusSet DEF IInv, Current
  <1>4. Walks!End
    BY <1>1, <1>2, <1>3 DEF Walks!End
  <1> QED
    BY <1>4 DEF Walks!Next

\* Every step of the flow under its harness is a step of the walk, or none.
LEMMA StepsWalk ==
    ASSUME IInv, Next
    PROVE  [Walks!Next]_(Walks!vars)
  <1>1. CASE Say /\ UNCHANGED <<comesBack, thanks>>
    <2>1. CASE ~finished
      <3>1. UNCHANGED <<node, finished, followups>> /\ Len(tickets') = Len(tickets)
        BY <1>1, <2>1 DEF Say, conversation
      <3> QED
        BY <3>1, Stutter
    <2>2. CASE finished
      <3>1. /\ node' = Entry /\ finished' = FALSE /\ UNCHANGED followups
            /\ tickets' = Append(tickets, NewTicket)
        BY <1>1, <2>2 DEF Say, StartAgain
      <3>2. NewTicket \in Ticket
        BY DEF NewTicket, Ticket, Status
      <3>3. Current' = Current + 1
        BY <3>1, <3>2, AppendProperties DEF IInv, FlowTypeOK, Current
      <3>4. Walks!ComeBack
        BY <2>2, <3>1, <3>3 DEF Walks!ComeBack
      <3> QED
        BY <3>4 DEF Walks!Next
    <2> QED
      BY <2>1, <2>2
  <1>2. CASE RunNode /\ UNCHANGED <<comesBack, thanks>>
    <2>1. UNCHANGED <<node, finished, followups>> /\ Len(tickets') = Len(tickets)
      BY <1>2 DEF RunNode, conversation, world
    <2> QED
      BY <2>1, Stutter
  <1>3. CASE Chat /\ UNCHANGED <<comesBack, thanks>>
    <2>1. UNCHANGED <<node, followups>> /\ ~finished /\ phase # "after"
      BY <1>3 DEF Chat, AnswerWithoutCalls, AskForTools, conversation, IInv, TurnIsInStep
    <2>2. CASE UNCHANGED <<finished, tickets>>
      BY <2>1, <2>2, Stutter
    <2>3. CASE LastStep(node) /\ finished' = TRUE /\ tickets' = SetStatus(tickets, node)
      BY <2>1, <2>3, LastStepEnds
    <2> QED
      BY <1>3, <2>2, <2>3 DEF Chat, AnswerWithoutCalls, AskForTools, SignOff, conversation
  <1>4. CASE ModelFails /\ UNCHANGED <<comesBack, thanks>>
    <2>1. UNCHANGED <<node, finished, followups>> /\ Len(tickets') = Len(tickets)
      BY <1>4 DEF ModelFails, Raise, TurnOver, conversation, world
    <2> QED
      BY <2>1, Stutter
  <1>5. CASE ToolRaises /\ UNCHANGED <<comesBack, thanks>>
    <2>1. UNCHANGED <<node, finished, followups>> /\ Len(tickets') = Len(tickets)
      BY <1>5 DEF ToolRaises, Raise, TurnOver, conversation, world
    <2> QED
      BY <2>1, Stutter
  <1>6. CASE Dispatch /\ UNCHANGED <<comesBack, thanks>>
    <2>1. UNCHANGED <<node, finished>> /\ ~finished /\ phase # "after"
      BY <1>6 DEF Dispatch, conversation, IInv, TurnIsInStep
    <2>2. CASE UNCHANGED <<tickets, followups>>
      BY <2>1, <2>2, Stutter
    <2>3. ASSUME NEW tool \in pending, NEW number \in BOOLEAN, Accept(tool, number)
          PROVE  [Walks!Next]_(Walks!vars)
      <3>1. Current' = Current /\ Len(tickets') = Len(tickets) /\ CreateFollowup(tool)
        BY <2>3, NumberKept DEF IInv, Accept, Current
      <3>2. \A i \in DOMAIN followups' : ~followups'[i].answered
        BY <2>1, <2>3, <3>1, FollowupAdded
      <3>3. {followups'[i].ticket : i \in {j \in DOMAIN followups' : followups'[j].answered}} = {}
        BY <3>2
      <3>4. {followups[i].ticket : i \in {j \in DOMAIN followups : followups[j].answered}} = {}
        BY <2>1, NothingReported DEF IInv, TurnIsInStep
      <3>5. CASE {followups'[i].ticket : i \in DOMAIN followups'}
                     = {followups[i].ticket : i \in DOMAIN followups}
        BY <2>1, <3>1, <3>3, <3>4, <3>5 DEF Walks!vars
      <3>6. CASE {followups'[i].ticket : i \in DOMAIN followups'}
                     = {followups[i].ticket : i \in DOMAIN followups} \cup {Current}
        <4>1. Walks!Open
          BY <2>1, <3>4 DEF Walks!Open
        <4>2. Walks!Promise
          BY <2>1, <3>1, <3>3, <3>4, <3>6, <4>1 DEF Walks!Promise
        <4> QED
          BY <4>2 DEF Walks!Next
      <3> QED
        BY <2>1, <2>3, <3>1, <3>5, <3>6, FollowupAdded
    <2> QED
      BY <1>6, <2>2, <2>3 DEF Dispatch, Refuse
  <1>7. CASE EndOfMessage /\ UNCHANGED <<comesBack, thanks>>
    <2>1. UNCHANGED followups /\ ~finished /\ phase # "after"
      BY <1>7 DEF EndOfMessage, IInv, TurnIsInStep
    <2>2. CASE UNCHANGED <<node, finished, tickets>>
      BY <2>1, <2>2, Stutter
    <2>3. CASE /\ LastStep(node) \/ Target(outcome) = NoNode
               /\ UNCHANGED node /\ finished' = TRUE /\ tickets' = SetStatus(tickets, node)
      <3>1. LastStep(node)
        BY <2>3, TargetIsAWayOut DEF IInv, FlowTypeOK
      <3> QED
        BY <2>1, <2>3, <3>1, LastStepEnds
    <2>4. CASE /\ node' = Target(outcome) /\ Target(outcome) # NoNode
               /\ UNCHANGED finished /\ tickets' = SetStatus(tickets, node)
      <3>1. node \in Node /\ node' \in {node} \cup Exits(node)
        BY <2>4, TargetIsAWayOut DEF IInv, FlowTypeOK
      <3>2. Current' = Current
        BY <2>4, StatusSet DEF IInv, Current
      <3>3. CASE node' = node
        BY <2>1, <2>4, <3>2, <3>3, Stutter DEF Current
      <3>4. CASE node' \in Exits(node)
        <4>1. Walks!Open
          BY <2>1, NothingReported DEF Walks!Open, IInv, TurnIsInStep
        <4>2. Walks!Move
          BY <2>1, <2>4, <3>1, <3>2, <3>4, <4>1 DEF Walks!Move
        <4> QED
          BY <4>2 DEF Walks!Next
      <3> QED
        BY <3>1, <3>3, <3>4
    <2> QED
      BY <1>7, <2>2, <2>3, <2>4 DEF EndOfMessage, Advance, AdvanceStatus, SignOff
  <1>8. CASE CustomerStops
    <2>1. UNCHANGED <<node, finished, followups>> /\ Len(tickets') = Len(tickets)
      BY <1>8 DEF CustomerStops, TurnOver, conversation, world
    <2> QED
      BY <2>1, Stutter
  <1>9. CASE CustomerAnswers
    <2>1. UNCHANGED <<node, finished, followups>> /\ Len(tickets') = Len(tickets)
      BY <1>9 DEF CustomerAnswers, TurnOver, conversation, world
    <2> QED
      BY <2>1, Stutter
  <1>10. CASE CustomerComesBack
    <2>1. UNCHANGED <<node, finished, followups>> /\ Len(tickets') = Len(tickets)
      BY <1>10 DEF CustomerComesBack, TurnOver, conversation, world
    <2> QED
      BY <2>1, Stutter
  <1>11. ASSUME NEW h \in Hours, HoursPass(h)
        PROVE  [Walks!Next]_(Walks!vars)
    <2>1. ASSUME NEW i \in DOMAIN followups
          PROVE  /\ followups'[i].answered = followups[i].answered
                 /\ followups'[i].ticket = followups[i].ticket
      <3>1. followups[i] \in Followup
        BY ElementOfSeq, LenProperties DEF IInv, FlowTypeOK
      <3> QED
        BY <1>11, <3>1 DEF HoursPass, Ask, Followup
    <2>2. DOMAIN followups' = DOMAIN followups /\ UNCHANGED <<node, finished, tickets>>
      BY <1>11 DEF HoursPass, conversation
    <2>3. {followups'[i].ticket : i \in DOMAIN followups'}
              = {followups[i].ticket : i \in DOMAIN followups}
      BY <2>1, <2>2
    <2>4. {followups'[i].ticket : i \in {j \in DOMAIN followups' : followups'[j].answered}}
              = {followups[i].ticket : i \in {j \in DOMAIN followups : followups[j].answered}}
      BY <2>1, <2>2
    <2> QED
      BY <2>2, <2>3, <2>4 DEF Walks!vars, Current
  <1>12. CASE TechnicianDone
    <2>1. ASSUME NEW i \in DOMAIN followups
          PROVE  followups'[i].answered /\ followups'[i].ticket = followups[i].ticket
      <3>1. followups[i] \in Followup
        BY ElementOfSeq, LenProperties DEF IInv, FlowTypeOK
      <3>2. followups'[i] = [followups[i] EXCEPT !.answered = TRUE]
        BY <1>12 DEF TechnicianDone
      <3> QED
        BY <3>1, <3>2 DEF Followup
    <2>2. DOMAIN followups' = DOMAIN followups /\ UNCHANGED <<node, finished>>
      BY <1>12 DEF TechnicianDone, conversation
    <2>3. Current' = Current
      BY <1>12, TicketsClosed DEF TechnicianDone, IInv, Current
    <2>4. {followups'[i].ticket : i \in DOMAIN followups'}
              = {followups[i].ticket : i \in DOMAIN followups}
      BY <2>1, <2>2
    <2>5. {followups'[i].ticket : i \in {j \in DOMAIN followups' : followups'[j].answered}}
              = {followups[i].ticket : i \in DOMAIN followups}
      BY <2>1, <2>2
    <2>6. Walks!Close
      BY <2>2, <2>3, <2>4, <2>5 DEF Walks!Close
    <2> QED
      BY <2>6 DEF Walks!Next
  <1>13. CASE TechnicianNotDone
    <2>1. ASSUME NEW i \in DOMAIN followups
          PROVE  /\ followups'[i].answered = followups[i].answered
                 /\ followups'[i].ticket = followups[i].ticket
      <3>1. followups[i] \in Followup
        BY ElementOfSeq, LenProperties DEF IInv, FlowTypeOK
      <3> QED
        BY <1>13, <3>1 DEF TechnicianNotDone, Ask, Followup
    <2>2. DOMAIN followups' = DOMAIN followups /\ UNCHANGED <<node, finished, tickets>>
      BY <1>13 DEF TechnicianNotDone, conversation
    <2>3. {followups'[i].ticket : i \in DOMAIN followups'}
              = {followups[i].ticket : i \in DOMAIN followups}
      BY <2>1, <2>2
    <2>4. {followups'[i].ticket : i \in {j \in DOMAIN followups' : followups'[j].answered}}
              = {followups[i].ticket : i \in {j \in DOMAIN followups : followups[j].answered}}
      BY <2>1, <2>2
    <2> QED
      BY <2>2, <2>3, <2>4 DEF Walks!vars, Current
  <1> QED
    BY <1>1, <1>2, <1>3, <1>4, <1>5, <1>6, <1>7, <1>8, <1>9, <1>10, <1>11, <1>12, <1>13
       DEF Next, Talk, Engine, Customer, Afterwards

\* The engine, its tools and the follow-ups implement the walk of a job: it goes
\* along the edges of the graph, is over only where no edge leads on, comes back as a
\* job of its own, and is closed only by an answer somebody promised to ask for.
THEOREM FlowWalks == Spec => JobsWalkTheGraph
  <1>1. RigInit => Walks!Init
    BY DEF RigInit, Init, Walks!Init, Current
  <1>2. IInv /\ [Next]_rigVars => [Walks!Next]_(Walks!vars)
    <2> SUFFICES ASSUME IInv, [Next]_rigVars PROVE [Walks!Next]_(Walks!vars)
      OBVIOUS
    <2>1. CASE Next
      BY <2>1, StepsWalk
    <2>2. CASE UNCHANGED rigVars
      BY <2>2, Stutter DEF rigVars, vars, conversation, world
    <2> QED
      BY <2>1, <2>2
  <1> QED
    BY <1>1, <1>2, Invariant, PTL DEF Spec, JobsWalkTheGraph, Walks!Spec

=============================================================================
