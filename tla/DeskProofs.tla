----------------------------- MODULE DeskProofs -----------------------------
(***************************************************************************)
(* What holds of every desk, whatever its roster, its calendar and the     *)
(* tools that are live: the state keeps its types, and the hard gates on   *)
(* closed days, promises and money hold in every reachable state.          *)
(***************************************************************************)
EXTENDS Desk, TLAPS, FiniteSetTheorems

USE DEF vars, recordVars, bookVars, payVars, crewVars, callVars

\* A booking has the type of an appointment, and the fields it was given.
LEMMA BookingType ==
    ASSUME NEW t \in Ticket, NEW kind \in Kind, NEW k \in Technician \cup {NoTech},
           NEW s \in Slot, NEW status \in ApptStatus, NEW event \in BOOLEAN
    PROVE  /\ Booking(t, kind, k, s, status, event) \in Appointment
           /\ Booking(t, kind, k, s, status, event).kind = kind
           /\ Booking(t, kind, k, s, status, event).ticket = t
           /\ Booking(t, kind, k, s, status, event).slot = s
           /\ Booking(t, kind, k, s, status, event).status = status
  BY DEF Appointment, Booking

\* Moving a booking changes its slot and its status, no more.
LEMMA MovedType ==
    ASSUME NEW a \in ApptId, appts[a] \in Appointment, NEW s \in Slot
    PROVE  /\ Moved(a, s) \in Appointment
           /\ Moved(a, s).kind = appts[a].kind /\ Moved(a, s).ticket = appts[a].ticket
           /\ Moved(a, s).slot = s /\ Moved(a, s).status = "rescheduled"
  BY DEF Moved, Appointment, ApptStatus

\* Cancelling a booking changes its status, no more.
LEMMA CancelledType ==
    ASSUME NEW a \in ApptId, appts[a] \in Appointment
    PROVE  /\ Cancelled(a) \in Appointment
           /\ Cancelled(a).kind = appts[a].kind /\ Cancelled(a).ticket = appts[a].ticket
           /\ Cancelled(a).status = "cancelled"
  BY DEF Cancelled, Appointment, ApptStatus

\* Letting a technician go keeps the load a natural number.
LEMMA ReleaseType ==
    ASSUME activeJobs \in [Technician -> Nat], NEW k, Release(k)
    PROVE  activeJobs' \in [Technician -> Nat]
  BY DEF Release

\* Taking a technician on keeps the types of the crew.
LEMMA AssignType ==
    ASSUME DeskAssumption,
           techStatus \in [Technician -> TechStatus],
           activeJobs \in [Technician -> Nat],
           NEW k \in Technician \cup {NoTech}, NEW kind, Assign(k, kind)
    PROVE  /\ techStatus' \in [Technician -> TechStatus]
           /\ activeJobs' \in [Technician -> Nat]
  <1>1. CASE k = NoTech
    BY <1>1 DEF Assign
  <1>2. CASE k # NoTech
    <2>1. k \in Technician
      BY <1>2
    <2>2. AfterDispatch[k] \in TechStatus
      BY <2>1 DEF DeskAssumption
    <2> QED
      BY <1>2, <2>1, <2>2 DEF Assign
  <1> QED
    BY <1>1, <1>2

\* The three ways a new booking can end.
LEMMA CreateOutcomes ==
    ASSUME NEW a \in ApptId, NEW t, NEW kind, NEW k, NEW s,
           CreateAppointment(a, t, kind, k, s)
    PROVE  \/ /\ appts' = [appts EXCEPT ![a] = Booking(t, kind, k, s, "booked", FALSE)]
              /\ promised' = [promised EXCEPT ![a] = s] /\ calendar' = calendar
              /\ "calendar.create_appointment" \notin Live
           \/ /\ appts' = [appts EXCEPT ![a] = Booking(t, kind, k, s, "booked", TRUE)]
              /\ promised' = [promised EXCEPT ![a] = s]
              /\ calendar' = [calendar EXCEPT ![a] = s]
           \/ /\ appts' = [appts EXCEPT ![a] = Booking(t, kind, k, s, "cancelled", FALSE)]
              /\ promised' = promised /\ calendar' = calendar
  BY DEF CreateAppointment

\* A new booking keeps the types, whichever way the diary write ends.
LEMMA CreateAppointmentType ==
    ASSUME DeskAssumption, TypeOK,
           NEW a \in ApptId, NEW t \in Ticket, NEW kind \in KindInUse,
           NEW k \in Technician \cup {NoTech}, NEW s \in Slot,
           CreateAppointment(a, t, kind, k, s)
    PROVE  TypeOK'
  <1>1. kind \in Kind
    BY DEF DeskAssumption
  <1>2. \A status \in {"booked", "cancelled"}, event \in BOOLEAN :
            Booking(t, kind, k, s, status, event) \in Appointment
    BY <1>1, BookingType DEF ApptStatus
  <1>3. /\ appts' \in [ApptId -> Appointment]
        /\ calendar' \in [ApptId -> Slot \cup {NoSlot}]
        /\ promised' \in [ApptId -> Slot \cup {NoSlot}]
    <2>1. PICK booked \in Appointment : appts' = [appts EXCEPT ![a] = booked]
      BY <1>2, CreateOutcomes
    <2>2. appts' \in [ApptId -> Appointment]
      BY <2>1 DEF TypeOK
    <2>3. calendar' = calendar \/ calendar' = [calendar EXCEPT ![a] = s]
      BY CreateOutcomes
    <2>4. promised' = promised \/ promised' = [promised EXCEPT ![a] = s]
      BY CreateOutcomes
    <2>5. calendar' \in [ApptId -> Slot \cup {NoSlot}]
      BY <2>3 DEF TypeOK
    <2>6. promised' \in [ApptId -> Slot \cup {NoSlot}]
      BY <2>4 DEF TypeOK
    <2> QED
      BY <2>2, <2>5, <2>6
  <1>4. techStatus' \in [Technician -> TechStatus] /\ activeJobs' \in [Technician -> Nat]
    BY AssignType DEF CreateAppointment, TypeOK
  <1>5. UNCHANGED <<recordVars, payVars, outcomes, callVars>>
    BY DEF CreateAppointment
  <1> QED
    BY <1>3, <1>4, <1>5 DEF TypeOK

\* Every step keeps the types.
LEMMA TypeStep ==
    ASSUME DeskAssumption, TypeOK, [Next]_vars
    PROVE  TypeOK'
  <1>1. ASSUME NEW t \in Ticket, NEW p \in Phone \cup {NoPhone}, CreateTicket(t, p)
        PROVE  TypeOK'
    BY <1>1 DEF CreateTicket, TypeOK
  <1>2. ASSUME NEW t \in Ticket, NEW fields \in TagChoice, SetFields(t, fields)
        PROVE  TypeOK'
    <2>1. fields \in Tags
      BY DEF DeskAssumption
    <2> QED
      BY <1>2, <2>1 DEF SetFields, TypeOK
  <1>3. ASSUME NEW p \in Phone, LookupByPhone(p)
        PROVE  TypeOK'
    BY <1>3 DEF LookupByPhone, TypeOK
  <1>4. CASE Restart
    BY <1>4 DEF Restart, TypeOK
  <1>5. ASSUME NEW a \in ApptId, NEW t \in Ticket, NEW kind \in KindInUse,
               NEW k \in Technician \cup {NoTech}, NEW s \in Slot,
               CreateAppointment(a, t, kind, k, s)
        PROVE  TypeOK'
    BY <1>5, CreateAppointmentType
  <1>6. ASSUME NEW a \in ApptId, NEW s \in Slot, Reschedule(a, s)
        PROVE  TypeOK'
    <2>1. appts' \in [ApptId -> Appointment]
      BY <1>6, MovedType DEF Reschedule, TypeOK
    <2>2. calendar' = calendar \/ calendar' = [calendar EXCEPT ![a] = s]
      BY <1>6 DEF Reschedule, MoveEntry
    <2>3. promised' = promised \/ promised' = [promised EXCEPT ![a] = s]
      BY <1>6 DEF Reschedule, MoveEntry
    <2>4. calendar' \in [ApptId -> Slot \cup {NoSlot}]
      BY <2>2 DEF TypeOK
    <2>5. promised' \in [ApptId -> Slot \cup {NoSlot}]
      BY <2>3 DEF TypeOK
    <2>6. UNCHANGED <<recordVars, payVars, techStatus, activeJobs, outcomes, callVars>>
      BY <1>6 DEF Reschedule
    <2> QED
      BY <2>1, <2>4, <2>5, <2>6 DEF TypeOK
  <1>7. ASSUME NEW a \in ApptId, Cancel(a)
        PROVE  TypeOK'
    <2>1. appts' \in [ApptId -> Appointment]
      BY <1>7, CancelledType DEF Cancel, TypeOK
    <2>2. promised' \in [ApptId -> Slot \cup {NoSlot}]
      BY <1>7 DEF Cancel, TypeOK
    <2>3. calendar' = calendar \/ calendar' = [calendar EXCEPT ![a] = NoSlot]
      BY <1>7 DEF Cancel
    <2>4. calendar' \in [ApptId -> Slot \cup {NoSlot}]
      BY <2>3 DEF TypeOK
    <2>5. activeJobs' = activeJobs \/ Release(appts[a].tech)
      BY <1>7 DEF Cancel
    <2>6. activeJobs' \in [Technician -> Nat]
      BY <2>5, ReleaseType DEF TypeOK
    <2>7. UNCHANGED <<recordVars, payVars, techStatus, outcomes, callVars>>
      BY <1>7 DEF Cancel
    <2> QED
      BY <2>1, <2>2, <2>4, <2>6, <2>7 DEF TypeOK
  <1>8. ASSUME NEW t \in Ticket, SendDepositLink(t)
        PROVE  TypeOK'
    <2>1. deposit' \in [Ticket -> DepositStatus]
      BY <1>8 DEF SendDepositLink, TypeOK, DepositStatus
    <2>2. links' \in [Ticket -> 0 .. MaxLinks]
      <3>1. \/ links' = links
            \/ links[t] < MaxLinks /\ links' = [links EXCEPT ![t] = @ + 1]
        BY <1>8 DEF SendDepositLink
      <3>2. links[t] < MaxLinks => links[t] + 1 \in 0 .. MaxLinks
        BY DEF TypeOK, DeskAssumption
      <3> QED
        BY <3>1, <3>2 DEF TypeOK
    <2>3. UNCHANGED <<recordVars, bookVars, captured, crewVars, callVars>>
      BY <1>8 DEF SendDepositLink
    <2> QED
      BY <2>1, <2>2, <2>3 DEF TypeOK
  <1>9. ASSUME NEW t \in Ticket, NEW n \in 1 .. MaxLinks, CustomerPays(t, n)
        PROVE  TypeOK'
    BY <1>9 DEF CustomerPays, TypeOK
  <1>10. ASSUME NEW t \in Ticket, CheckStatus(t)
         PROVE  TypeOK'
    BY <1>10 DEF CheckStatus, TypeOK, DepositStatus
  <1>11. ASSUME NEW t \in Ticket, RefundDeposit(t)
         PROVE  TypeOK'
    <2>1. deposit' \in [Ticket -> DepositStatus]
      BY <1>11 DEF RefundDeposit, TypeOK, DepositStatus
    <2>2. UNCHANGED <<recordVars, bookVars, links, captured, crewVars, callVars>>
      BY <1>11 DEF RefundDeposit
    <2> QED
      BY <2>1, <2>2 DEF TypeOK
  <1>12. ASSUME NEW k \in Technician, NEW round \in RoundNumber,
                NEW outcome \in {"accepted", "declined", "no_answer"},
                CallTechnician(k, round, outcome)
         PROVE  TypeOK'
    BY <1>12 DEF CallTechnician, TypeOK, TechStatus
  <1>13. ASSUME NEW k \in Technician, NEW status \in StatusUpdate,
                SetTechnicianStatus(k, status)
         PROVE  TypeOK'
    <2>1. status \in TechStatus
      BY DEF DeskAssumption
    <2>2. techStatus' \in [Technician -> TechStatus]
      BY <1>13, <2>1 DEF SetTechnicianStatus, TypeOK
    <2>3. UNCHANGED <<recordVars, bookVars, payVars, activeJobs, outcomes, callVars>>
      BY <1>13 DEF SetTechnicianStatus
    <2> QED
      BY <2>2, <2>3 DEF TypeOK
  <1>14. ASSUME NEW p \in Phone, SendEmergencyConfirmation(p)
         PROVE  TypeOK'
    BY <1>14 DEF SendEmergencyConfirmation, TypeOK
  <1>15. ASSUME NEW a \in ApptId, GetJobOutcome(a)
         PROVE  TypeOK'
    <2>1. activeJobs' \in [Technician -> Nat]
      BY <1>15, ReleaseType DEF GetJobOutcome, TypeOK
    <2>2. techStatus' \in [Technician -> TechStatus]
      BY <1>15 DEF GetJobOutcome, TypeOK, TechStatus
    <2>3. outcomes' \subseteq ApptId
      BY <1>15 DEF GetJobOutcome, TypeOK
    <2>4. UNCHANGED <<recordVars, bookVars, payVars, callVars>>
      BY <1>15 DEF GetJobOutcome
    <2> QED
      BY <2>1, <2>2, <2>3, <2>4 DEF TypeOK
  <1>16. CASE UNCHANGED vars
    BY <1>16 DEF TypeOK
  <1> QED
    BY <1>1, <1>2, <1>3, <1>4, <1>5, <1>6, <1>7, <1>8, <1>9, <1>10, <1>11, <1>12,
       <1>13, <1>14, <1>15, <1>16 DEF Next

\* The state keeps its types in every behaviour of every desk.
THEOREM TypeCorrect == Spec => []TypeOK
  <1>1. Init => TypeOK
    BY DeskAssumption DEF Init, TypeOK, NoAppt, Appointment, Tags, Kind, DepositStatus,
       TechStatus, ApptStatus, DeskAssumption
  <1>2. TypeOK /\ [Next]_vars => TypeOK'
    BY DeskAssumption, TypeStep
  <1> QED
    BY <1>1, <1>2, PTL DEF Spec

-----------------------------------------------------------------------------
(* Which steps touch the bookings, and which the money *)

\* A visit, a calendar entry or a technician's booking is touched by the three
\* calendar tools and by nothing else.
LEMMA BookingSteps ==
    ASSUME [Next]_vars
    PROVE  \/ UNCHANGED bookVars
           \/ \E a \in ApptId, t \in Ticket, kind \in KindInUse,
                 k \in Technician \cup {NoTech}, s \in Slot :
                    CreateAppointment(a, t, kind, k, s)
           \/ \E a \in ApptId, s \in Slot : Reschedule(a, s)
           \/ \E a \in ApptId : Cancel(a)
  <1>1. CASE UNCHANGED vars
    BY <1>1
  <1>2. ASSUME NEW t \in Ticket
        PROVE  /\ \A p \in Phone \cup {NoPhone} : CreateTicket(t, p) => UNCHANGED bookVars
               /\ \A fields \in TagChoice : SetFields(t, fields) => UNCHANGED bookVars
               /\ SendDepositLink(t) => UNCHANGED bookVars
               /\ \A n \in 1 .. MaxLinks : CustomerPays(t, n) => UNCHANGED bookVars
               /\ CheckStatus(t) => UNCHANGED bookVars
               /\ RefundDeposit(t) => UNCHANGED bookVars
    BY DEF CreateTicket, SetFields, SendDepositLink, CustomerPays, CheckStatus, RefundDeposit
  <1>3. ASSUME NEW p \in Phone
        PROVE  /\ LookupByPhone(p) => UNCHANGED bookVars
               /\ SendEmergencyConfirmation(p) => UNCHANGED bookVars
    BY DEF LookupByPhone, SendEmergencyConfirmation
  <1>4. ASSUME NEW k \in Technician
        PROVE  /\ \A round \in RoundNumber, outcome \in {"accepted", "declined", "no_answer"} :
                      CallTechnician(k, round, outcome) => UNCHANGED bookVars
               /\ \A status \in StatusUpdate :
                      SetTechnicianStatus(k, status) => UNCHANGED bookVars
    BY DEF CallTechnician, SetTechnicianStatus
  <1>5. \A a \in ApptId : GetJobOutcome(a) => UNCHANGED bookVars
    BY DEF GetJobOutcome
  <1>6. Restart => UNCHANGED bookVars
    BY DEF Restart
  <1> QED
    BY <1>1, <1>2, <1>3, <1>4, <1>5, <1>6 DEF Next

\* A deposit is touched by the link, the customer's payment, the check and the
\* refund, and by nothing else.
LEMMA PaymentSteps ==
    ASSUME [Next]_vars
    PROVE  \/ UNCHANGED payVars
           \/ \E t \in Ticket : SendDepositLink(t)
           \/ \E t \in Ticket, n \in 1 .. MaxLinks : CustomerPays(t, n)
           \/ \E t \in Ticket : CheckStatus(t)
           \/ \E t \in Ticket : RefundDeposit(t)
  <1>1. CASE UNCHANGED vars
    BY <1>1
  <1>2. ASSUME NEW t \in Ticket
        PROVE  /\ \A p \in Phone \cup {NoPhone} : CreateTicket(t, p) => UNCHANGED payVars
               /\ \A fields \in TagChoice : SetFields(t, fields) => UNCHANGED payVars
    BY DEF CreateTicket, SetFields
  <1>3. ASSUME NEW p \in Phone
        PROVE  /\ LookupByPhone(p) => UNCHANGED payVars
               /\ SendEmergencyConfirmation(p) => UNCHANGED payVars
    BY DEF LookupByPhone, SendEmergencyConfirmation
  <1>4. ASSUME NEW k \in Technician
        PROVE  /\ \A round \in RoundNumber, outcome \in {"accepted", "declined", "no_answer"} :
                      CallTechnician(k, round, outcome) => UNCHANGED payVars
               /\ \A status \in StatusUpdate :
                      SetTechnicianStatus(k, status) => UNCHANGED payVars
    BY DEF CallTechnician, SetTechnicianStatus
  <1>5. ASSUME NEW a \in ApptId
        PROVE  /\ GetJobOutcome(a) => UNCHANGED payVars
               /\ Cancel(a) => UNCHANGED payVars
               /\ \A s \in Slot : Reschedule(a, s) => UNCHANGED payVars
               /\ \A t \in Ticket, kind \in KindInUse, k \in Technician \cup {NoTech},
                     s \in Slot : CreateAppointment(a, t, kind, k, s) => UNCHANGED payVars
    BY DEF GetJobOutcome, Cancel, Reschedule, CreateAppointment
  <1>6. Restart => UNCHANGED payVars
    BY DEF Restart
  <1> QED
    BY <1>1, <1>2, <1>3, <1>4, <1>5, <1>6 DEF Next

-----------------------------------------------------------------------------
(* Closed days *)

\* However visits are booked, moved, cancelled and moved again, no standing
\* scheduled or warranty visit is on a Sunday or a holiday.
THEOREM NoVisitOnClosedDays == Spec => []ClosedDaysKept
  <1>1. Init => ClosedDaysKept
    BY DEF Init, ClosedDaysKept, Standing, NoAppt
  <1>2. TypeOK /\ ClosedDaysKept /\ [Next]_vars => ClosedDaysKept'
    <2> SUFFICES ASSUME TypeOK, ClosedDaysKept, [Next]_vars,
                        NEW b \in ApptId, Standing(b)',
                        appts'[b].kind \in {"standard", "warranty"}
                 PROVE  appts'[b].slot \notin ClosedSlot
      BY DEF ClosedDaysKept
    <2>1. CASE appts'[b] = appts[b]
      BY <2>1 DEF ClosedDaysKept, Standing
    <2>2. ASSUME NEW t \in Ticket, NEW kind \in KindInUse,
                 NEW k \in Technician \cup {NoTech}, NEW s \in Slot,
                 CreateAppointment(b, t, kind, k, s)
          PROVE  appts'[b].slot \notin ClosedSlot
      <3>1. /\ appts'[b].kind = kind /\ appts'[b].slot = s
        BY <2>2, CreateOutcomes DEF Booking, TypeOK
      <3> QED
        BY <2>2, <3>1 DEF CreateAppointment, Bookable, ClosedDay
    <2>3. ASSUME NEW s \in Slot, Reschedule(b, s)
          PROVE  appts'[b].slot \notin ClosedSlot
      <3>1. appts'[b] = Moved(b, s)
        BY <2>3 DEF Reschedule, TypeOK
      <3>2. Moved(b, s).kind = appts[b].kind /\ Moved(b, s).slot = s
        BY MovedType DEF TypeOK
      <3> QED
        BY <2>3, <3>1, <3>2 DEF Reschedule, Movable, ClosedDay
    <2>4. ASSUME Cancel(b)
          PROVE  appts'[b].slot \notin ClosedSlot
      <3>1. appts'[b] = Cancelled(b) /\ Cancelled(b).status = "cancelled"
        BY <2>4, CancelledType DEF Cancel, TypeOK
      <3> QED
        BY <3>1 DEF Standing
    <2>5. ASSUME NEW a \in ApptId, a # b,
                 \/ Cancel(a)
                 \/ \E s \in Slot : Reschedule(a, s)
                 \/ \E t \in Ticket, kind \in KindInUse, k \in Technician \cup {NoTech},
                       s \in Slot : CreateAppointment(a, t, kind, k, s)
          PROVE  appts'[b] = appts[b]
      BY <2>5, CreateOutcomes DEF Cancel, Reschedule, TypeOK
    <2> QED
      BY BookingSteps, <2>1, <2>2, <2>3, <2>4, <2>5
  <1> QED
    BY <1>1, <1>2, TypeCorrect, PTL DEF Spec

-----------------------------------------------------------------------------
(* The real diary *)

\* With the calendar live, what the agent may confirm is what the technician's
\* diary says, whichever calendar calls failed on the way.
THEOREM PromisesKept == Spec => []PromisesAreInDiary
  <1>1. Init => PromisesAreInDiary
    BY DEF Init, PromisesAreInDiary
  <1>2. TypeOK /\ PromisesAreInDiary /\ [Next]_vars => PromisesAreInDiary'
    <2> SUFFICES ASSUME TypeOK, PromisesAreInDiary, [Next]_vars, CalendarLive,
                        NEW b \in ApptId, promised'[b] # NoSlot
                 PROVE  Standing(b)' /\ calendar'[b] = promised'[b]
      BY DEF PromisesAreInDiary, CalendarLive
    <2>1. promised[b] # NoSlot => Standing(b) /\ calendar[b] = promised[b]
      BY DEF PromisesAreInDiary
    <2>2. CASE appts'[b] = appts[b] /\ promised'[b] = promised[b] /\ calendar'[b] = calendar[b]
      BY <2>1, <2>2 DEF Standing
    <2>3. ASSUME NEW t \in Ticket, NEW kind \in KindInUse,
                 NEW k \in Technician \cup {NoTech}, NEW s \in Slot,
                 CreateAppointment(b, t, kind, k, s)
          PROVE  Standing(b)' /\ calendar'[b] = promised'[b]
      <3>1. promised[b] = NoSlot
        BY <2>1, <2>3 DEF CreateAppointment, Exists, Standing
      <3>2. /\ appts' = [appts EXCEPT ![b] = Booking(t, kind, k, s, "booked", TRUE)]
            /\ promised' = [promised EXCEPT ![b] = s]
            /\ calendar' = [calendar EXCEPT ![b] = s]
        BY <2>3, <3>1, CreateOutcomes DEF CalendarLive
      <3>3. appts'[b].status = "booked"
        BY <3>2 DEF Booking, TypeOK
      <3> QED
        BY <3>2, <3>3 DEF Standing, TypeOK
    <2>4. ASSUME NEW s \in Slot, Reschedule(b, s)
          PROVE  Standing(b)' /\ calendar'[b] = promised'[b]
      <3>1. appts'[b] = Moved(b, s) /\ Moved(b, s).status = "rescheduled"
        BY <2>4, MovedType DEF Reschedule, TypeOK
      <3>2. \/ calendar' = [calendar EXCEPT ![b] = s] /\ promised' = [promised EXCEPT ![b] = s]
            \/ calendar' = calendar /\ promised' = promised
        BY <2>4 DEF Reschedule, MoveEntry, CalendarLive
      <3> QED
        BY <2>1, <3>1, <3>2 DEF Standing, TypeOK
    <2>5. ~Cancel(b)
      BY DEF Cancel, TypeOK
    <2>6. ASSUME NEW a \in ApptId, a # b,
                 \/ Cancel(a)
                 \/ \E s \in Slot : Reschedule(a, s)
                 \/ \E t \in Ticket, kind \in KindInUse, k \in Technician \cup {NoTech},
                       s \in Slot : CreateAppointment(a, t, kind, k, s)
          PROVE  appts'[b] = appts[b] /\ promised'[b] = promised[b] /\ calendar'[b] = calendar[b]
      <3>1. CASE Cancel(a)
        BY <2>6, <3>1 DEF Cancel, TypeOK
      <3>2. ASSUME NEW s \in Slot, Reschedule(a, s)
            PROVE  appts'[b] = appts[b] /\ promised'[b] = promised[b] /\ calendar'[b] = calendar[b]
        BY <2>6, <3>2 DEF Reschedule, MoveEntry, TypeOK
      <3>3. ASSUME NEW t \in Ticket, NEW kind \in KindInUse,
                   NEW k \in Technician \cup {NoTech}, NEW s \in Slot,
                   CreateAppointment(a, t, kind, k, s)
            PROVE  appts'[b] = appts[b] /\ promised'[b] = promised[b] /\ calendar'[b] = calendar[b]
        BY <2>6, <3>3, CreateOutcomes DEF TypeOK
      <3> QED
        BY <2>6, <3>1, <3>2, <3>3
    <2> QED
      BY BookingSteps, <2>2, <2>3, <2>4, <2>5, <2>6
  <1> QED
    BY <1>1, <1>2, TypeCorrect, PTL DEF Spec

-----------------------------------------------------------------------------
(* The money *)

\* A deposit the desk holds is one Stripe has on the current link.
THEOREM DepositsAreReal == Spec => []PaidIsCaptured
  <1>1. Init => PaidIsCaptured
    BY DEF Init, PaidIsCaptured
  <1>2. TypeOK /\ PaidIsCaptured /\ [Next]_vars => PaidIsCaptured'
    <2> SUFFICES ASSUME TypeOK, PaidIsCaptured, [Next]_vars,
                        "payment.check_status" \in Live,
                        NEW u \in Ticket, deposit'[u] = "paid"
                 PROVE  links'[u] \in captured'[u]
      BY DEF PaidIsCaptured
    <2>1. CASE UNCHANGED payVars
      BY <2>1 DEF PaidIsCaptured
    <2>2. ASSUME NEW t \in Ticket, SendDepositLink(t)
          PROVE  links'[u] \in captured'[u]
      <3>1. /\ u # t /\ deposit'[u] = deposit[u] /\ links'[u] = links[u]
            /\ captured' = captured
        BY <2>2 DEF SendDepositLink, TypeOK
      <3> QED
        BY <3>1 DEF PaidIsCaptured
    <2>3. ASSUME NEW t \in Ticket, NEW n \in 1 .. MaxLinks, CustomerPays(t, n)
          PROVE  links'[u] \in captured'[u]
      BY <2>3 DEF CustomerPays, PaidIsCaptured, TypeOK
    <2>4. ASSUME NEW t \in Ticket, CheckStatus(t)
          PROVE  links'[u] \in captured'[u]
      BY <2>4 DEF CheckStatus, SessionPaid, PaidIsCaptured, TypeOK
    <2>5. ASSUME NEW t \in Ticket, RefundDeposit(t)
          PROVE  links'[u] \in captured'[u]
      BY <2>5 DEF RefundDeposit, PaidIsCaptured, TypeOK
    <2> QED
      BY PaymentSteps, <2>1, <2>2, <2>3, <2>4, <2>5
  <1> QED
    BY <1>1, <1>2, TypeCorrect, PTL DEF Spec

\* Every appointment was made for a ticket.
BookedForTicket == \A a \in ApptId : Exists(a) => appts[a].ticket \in Ticket

\* What Stripe has captured is never forgotten.
LEMMA CapturedGrows ==
    ASSUME TypeOK, [Next]_vars, NEW t \in Ticket, captured[t] # {}
    PROVE  captured'[t] # {}
  <1>1. captured' = captured \/ \E u \in Ticket, n \in 1 .. MaxLinks : CustomerPays(u, n)
    BY PaymentSteps DEF SendDepositLink, CheckStatus, RefundDeposit
  <1> QED
    BY <1>1 DEF CustomerPays, TypeOK

\* An emergency visit exists only for a customer whose money has arrived.
THEOREM EmergenciesArePaidFor == Spec => []EmergencyWasPaidFor
  <1>1. Init => BookedForTicket /\ EmergencyWasPaidFor
    BY DEF Init, BookedForTicket, EmergencyWasPaidFor, Exists, NoAppt
  <1>2. TypeOK /\ PaidIsCaptured /\ BookedForTicket /\ EmergencyWasPaidFor /\ [Next]_vars
            => BookedForTicket' /\ EmergencyWasPaidFor'
    <2> SUFFICES ASSUME TypeOK, PaidIsCaptured, BookedForTicket, EmergencyWasPaidFor,
                        [Next]_vars, NEW b \in ApptId, Exists(b)'
                 PROVE  /\ appts'[b].ticket \in Ticket
                        /\ "payment.check_status" \in Live /\ appts'[b].kind = "emergency"
                               => captured'[appts'[b].ticket] # {}
      BY DEF BookedForTicket, EmergencyWasPaidFor
    <2>1. CASE /\ Exists(b) /\ appts'[b].ticket = appts[b].ticket
               /\ appts'[b].kind = appts[b].kind
      BY <2>1, CapturedGrows DEF BookedForTicket, EmergencyWasPaidFor
    <2>2. ASSUME NEW t \in Ticket, NEW kind \in KindInUse,
                 NEW k \in Technician \cup {NoTech}, NEW s \in Slot,
                 CreateAppointment(b, t, kind, k, s)
          PROVE  /\ appts'[b].ticket \in Ticket
                 /\ "payment.check_status" \in Live /\ appts'[b].kind = "emergency"
                        => captured'[appts'[b].ticket] # {}
      <3>1. appts'[b].ticket = t /\ appts'[b].kind = kind
        BY <2>2, CreateOutcomes DEF Booking, TypeOK
      <3>2. kind = "emergency" => deposit[t] = "paid"
        BY <2>2 DEF CreateAppointment, Bookable
      <3>3. "payment.check_status" \in Live /\ kind = "emergency" => captured[t] # {}
        BY <3>2 DEF PaidIsCaptured
      <3> QED
        BY <3>1, <3>3, CapturedGrows
    <2>3. ASSUME NEW s \in Slot, Reschedule(b, s)
          PROVE  /\ Exists(b) /\ appts'[b].ticket = appts[b].ticket
                 /\ appts'[b].kind = appts[b].kind
      BY <2>3, MovedType DEF Reschedule, Movable, TypeOK
    <2>4. ASSUME Cancel(b)
          PROVE  /\ Exists(b) /\ appts'[b].ticket = appts[b].ticket
                 /\ appts'[b].kind = appts[b].kind
      BY <2>4, CancelledType DEF Cancel, Standing, Exists, TypeOK
    <2>5. ASSUME NEW a \in ApptId, a # b,
                 \/ Cancel(a)
                 \/ \E s \in Slot : Reschedule(a, s)
                 \/ \E t \in Ticket, kind \in KindInUse, k \in Technician \cup {NoTech},
                       s \in Slot : CreateAppointment(a, t, kind, k, s)
          PROVE  appts'[b] = appts[b]
      BY <2>5, CreateOutcomes DEF Cancel, Reschedule, TypeOK
    <2>6. appts'[b] = appts[b] => Exists(b)
      BY DEF Exists
    <2> QED
      BY BookingSteps, <2>1, <2>2, <2>3, <2>4, <2>5, <2>6
  <1> QED
    BY <1>1, <1>2, TypeCorrect, DepositsAreReal, PTL DEF Spec

\* Once the confirmation has gone to the ticket's number, a deposit that is
\* held stays held.
THEOREM DepositStaysLocked == Spec => DepositLockedAfterConfirmation
  <1>1. TypeOK /\ [Next]_vars =>
            [\A t \in Ticket : deposit[t] = "paid" /\ phoneOf[t] \in confirmedTo
                => deposit'[t] = "paid"]_vars
    <2> SUFFICES ASSUME TypeOK, [Next]_vars, NEW u \in Ticket,
                        deposit[u] = "paid", phoneOf[u] \in confirmedTo
                 PROVE  deposit'[u] = "paid"
      OBVIOUS
    <2>1. CASE UNCHANGED payVars
      BY <2>1
    <2>2. ASSUME NEW t \in Ticket, SendDepositLink(t)
          PROVE  deposit'[u] = "paid"
      BY <2>2 DEF SendDepositLink, TypeOK
    <2>3. ASSUME NEW t \in Ticket, NEW n \in 1 .. MaxLinks, CustomerPays(t, n)
          PROVE  deposit'[u] = "paid"
      BY <2>3 DEF CustomerPays
    <2>4. ASSUME NEW t \in Ticket, CheckStatus(t)
          PROVE  deposit'[u] = "paid"
      BY <2>4 DEF CheckStatus, TypeOK
    <2>5. ASSUME NEW t \in Ticket, RefundDeposit(t)
          PROVE  deposit'[u] = "paid"
      BY <2>5 DEF RefundDeposit, DispatchConfirmed, TypeOK
    <2> QED
      BY PaymentSteps, <2>1, <2>2, <2>3, <2>4, <2>5
  <1> QED
    BY <1>1, TypeCorrect, PTL DEF Spec, DepositLockedAfterConfirmation

-----------------------------------------------------------------------------
(* The calling rounds *)

RoundsNumbered == rounds \subseteq 0 .. MaxRounds

\* Only the phone uses up rounds.
LEMMA RoundSteps ==
    ASSUME [Next]_vars
    PROVE  \/ UNCHANGED rounds
           \/ \E k \in Technician, round \in RoundNumber,
                 outcome \in {"accepted", "declined", "no_answer"} :
                    CallTechnician(k, round, outcome)
  <1>1. CASE UNCHANGED vars
    BY <1>1
  <1>2. ASSUME NEW t \in Ticket
        PROVE  /\ \A p \in Phone \cup {NoPhone} : CreateTicket(t, p) => UNCHANGED rounds
               /\ \A fields \in TagChoice : SetFields(t, fields) => UNCHANGED rounds
               /\ SendDepositLink(t) => UNCHANGED rounds
               /\ \A n \in 1 .. MaxLinks : CustomerPays(t, n) => UNCHANGED rounds
               /\ CheckStatus(t) => UNCHANGED rounds
               /\ RefundDeposit(t) => UNCHANGED rounds
    BY DEF CreateTicket, SetFields, SendDepositLink, CustomerPays, CheckStatus, RefundDeposit
  <1>3. ASSUME NEW p \in Phone
        PROVE  /\ LookupByPhone(p) => UNCHANGED rounds
               /\ SendEmergencyConfirmation(p) => UNCHANGED rounds
    BY DEF LookupByPhone, SendEmergencyConfirmation
  <1>4. ASSUME NEW a \in ApptId
        PROVE  /\ \A t \in Ticket, kind \in KindInUse, k \in Technician \cup {NoTech},
                     s \in Slot : CreateAppointment(a, t, kind, k, s) => UNCHANGED rounds
               /\ \A s \in Slot : Reschedule(a, s) => UNCHANGED rounds
               /\ Cancel(a) => UNCHANGED rounds
               /\ GetJobOutcome(a) => UNCHANGED rounds
    BY DEF CreateAppointment, Reschedule, Cancel, GetJobOutcome
  <1>5. \A k \in Technician, status \in StatusUpdate :
            SetTechnicianStatus(k, status) => UNCHANGED rounds
    BY DEF SetTechnicianStatus
  <1>6. Restart => UNCHANGED rounds
    BY DEF Restart
  <1> QED
    BY <1>1, <1>2, <1>3, <1>4, <1>5, <1>6 DEF Next

\* However often and under whatever numbers technicians are called, the rounds
\* counted from 1 stay within the limit: the gate looks at the number itself.
THEOREM RoundsAreLimited == Spec => []RoundsWithinLimit
  <1>1. Init => RoundsNumbered
    BY DEF Init, RoundsNumbered
  <1>2. RoundsNumbered /\ [Next]_vars => RoundsNumbered'
    <2> SUFFICES ASSUME RoundsNumbered, [Next]_vars
                 PROVE  RoundsNumbered'
      OBVIOUS
    <2>1. CASE UNCHANGED rounds
      BY <2>1 DEF RoundsNumbered
    <2>2. ASSUME NEW k \in Technician, NEW round \in RoundNumber,
                 NEW outcome \in {"accepted", "declined", "no_answer"},
                 CallTechnician(k, round, outcome)
          PROVE  RoundsNumbered'
      <3>1. round \in 0 .. MaxRounds
        BY <2>2, DeskAssumption DEF CallTechnician, RoundAllowed
      <3> QED
        BY <2>2, <3>1 DEF CallTechnician, RoundsNumbered
    <2> QED
      BY <2>1, <2>2, RoundSteps
  <1>3. RoundsNumbered => RoundsWithinLimit
    <2> SUFFICES ASSUME RoundsNumbered
                 PROVE  RoundsWithinLimit
      OBVIOUS
    <2>1. rounds \ {0} \subseteq 1 .. MaxRounds
      BY DeskAssumption DEF RoundsNumbered
    <2>2. IsFiniteSet(1 .. MaxRounds) /\ Cardinality(1 .. MaxRounds) = MaxRounds
      BY FS_Interval, DeskAssumption
    <2> QED
      BY <2>1, <2>2, FS_Subset DEF RoundsWithinLimit
  <1> QED
    BY <1>1, <1>2, <1>3, PTL DEF Spec
=============================================================================
