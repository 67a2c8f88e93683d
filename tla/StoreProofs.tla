---------------------------- MODULE StoreProofs ----------------------------
(***************************************************************************)
(* What the database keeps (src/plumbing/store.py), proved: a ticket's     *)
(* status and what it says about the ticket's past, for every history that *)
(* keeps the landmarks below; a customer's record and the copies of it,    *)
(* for any number of conversations, fields and restarts.                   *)
(***************************************************************************)
EXTENDS Ticket, Records, TLAPS

-----------------------------------------------------------------------------
(* Tickets *)

\* The statuses the three properties look back on.
Landmark ==
    {"Appointment Booked", "Warranty Booked", "Emergency Job Dispatched",
     "Technician En Route", "Technician On Site", "Inspection Completed", "Quote Sent",
     "Large Project Under Review", "Warranty Eligibility Review",
     "Warranty Technician Review"}

\* The status one has now is the last entry of the history.
NowIsHistory(now, history) == now \in Milestone => now \in history

Booked(history) ==
    history \cap {"Appointment Booked", "Warranty Booked", "Emergency Job Dispatched"} # {}

\* What each status that follows a landmark remembers of it.
Remembered(now, history) ==
    /\ now \in {"Appointment Rescheduled", "Technician En Route", "Technician On Site",
                "Inspection Completed"} => Booked(history)
    /\ now \in {"Technician On Site", "Inspection Completed"} =>
           {"Technician En Route", "Technician On Site"} \subseteq history
    /\ now \in {"Quote Awaiting Follow-up", "Quote Accepted"} => "Quote Sent" \in history
    /\ "Quote Sent" \in history =>
           history \cap {"Inspection Completed", "Large Project Under Review"} # {}
    /\ now \in {"Warranty Technician Review", "Warranty Booked"} =>
           {"Warranty Eligibility Review", "Warranty Technician Review"} \subseteq history

PInv == NowIsHistory(status, seen) /\ Remembered(status, seen)

\* A row is a ticket of some earlier moment, or of this one.
RowRemembers == row # NoRow => Remembered(row.status, row.history)

RowIsCurrent ==
    failures = 0 /\ status # Absent => row = [status |-> status, history |-> seen]

IInv == TypeOK /\ PInv /\ RowRemembers /\ RowIsCurrent

-----------------------------------------------------------------------------
(* The neighbours before a status: the edges of the machine read backwards *)

\* A visit that was moved, or that a technician sets out to, was booked or
\* dispatched (ticket_states.yaml, transitions).
LEMMA BeforeSettingOut ==
    ASSUME NEW s, NEW t, Allowed(s, t),
           t \in {"Appointment Rescheduled", "Technician En Route"}
    PROVE  s \in {"Warranty Booked", "Appointment Booked", "Appointment Rescheduled",
                  "Emergency Job Dispatched"}
    BY DEF Allowed, Follows, Universal

\* On site follows on the way, and the inspection follows on site.
LEMMA BeforeTheInspection ==
    ASSUME NEW s, NEW t, Allowed(s, t)
    PROVE  /\ t = "Technician On Site" => s = "Technician En Route"
           /\ t = "Inspection Completed" => s = "Technician On Site"
    BY DEF Allowed, Follows, Universal

\* A quote is answered after it was sent, and sent after one of two looks.
LEMMA BeforeTheQuote ==
    ASSUME NEW s, NEW t, Allowed(s, t)
    PROVE  /\ t = "Quote Sent" => s \in {"Inspection Completed", "Large Project Under Review"}
           /\ t \in {"Quote Awaiting Follow-up", "Quote Accepted"} =>
                  s \in {"Quote Sent", "Quote Awaiting Follow-up"}
    BY DEF Allowed, Follows, Universal

\* Warranty work is booked after the technician's review, which follows the
\* check of the record.
LEMMA BeforeWarrantyWork ==
    ASSUME NEW s, NEW t, Allowed(s, t)
    PROVE  /\ t = "Warranty Technician Review" => s = "Warranty Eligibility Review"
           /\ t = "Warranty Booked" => s = "Warranty Technician Review"
    BY DEF Allowed, Follows, Universal

-----------------------------------------------------------------------------
(* The invariant *)

\* A step of the machine takes one edge of it and writes the history.
LEMMA TicketSteps ==
    ASSUME [Next]_vars
    PROVE  \/ UNCHANGED vars
           \/ CreateTicket
           \/ \E target \in Status : TransitionTicket(target)
  <1>1. "Escalated to Supervisor" \in Status
    BY DEF Status
  <1> QED
    BY <1>1 DEF Next, UpdateStatus, EscalateRaise

\* Every step keeps what the statuses remember.
LEMMA PathStep ==
    ASSUME Landmark \subseteq Milestone, PInv, [Next]_vars
    PROVE  PInv'
  <1>1. CASE UNCHANGED vars
    BY <1>1 DEF PInv, NowIsHistory, Remembered, Booked, vars
  <1>2. CASE CreateTicket
    <2>1. seen' \subseteq {"New Inquiry"} /\ seen' \subseteq Milestone /\ status' = "New Inquiry"
      BY <1>2 DEF CreateTicket, Initial
    <2>2. NowIsHistory(status', seen')
      BY <1>2, <2>1 DEF CreateTicket, Initial, NowIsHistory
    <2> QED
      BY <2>1, <2>2 DEF PInv, Remembered
  <1>3. ASSUME NEW target \in Status, TransitionTicket(target)
        PROVE  PInv'
    <2>1. status' = target /\ seen \subseteq seen' /\ Allowed(status, target)
      BY <1>3 DEF TransitionTicket
    <2>3. NowIsHistory(status', seen')
      BY <1>3 DEF TransitionTicket, NowIsHistory
    <2>4. \A m \in Landmark : status = m => m \in seen
      BY DEF PInv, NowIsHistory
    <2>5. \A m \in Landmark : target = m => m \in seen'
      BY <2>1, <2>3 DEF NowIsHistory
    <2>6. Booked(seen) => Booked(seen')
      BY <2>1 DEF Booked
    <2>7. status' \in {"Appointment Rescheduled", "Technician En Route", "Technician On Site",
                      "Inspection Completed"} => Booked(seen')
      <3>1. CASE target \in {"Appointment Rescheduled", "Technician En Route"}
        <4>1. status \in {"Warranty Booked", "Appointment Booked", "Appointment Rescheduled",
                          "Emergency Job Dispatched"}
          BY <2>1, <3>1, BeforeSettingOut
        <4>2. status # "Appointment Rescheduled" => status \in seen
          BY <4>1, <2>4 DEF Landmark
        <4> QED
          BY <4>1, <4>2, <2>6 DEF PInv, Remembered, Booked
      <3>2. CASE target \in {"Technician On Site", "Inspection Completed"}
        BY <2>1, <2>6, <3>2, BeforeTheInspection DEF PInv, Remembered
      <3> QED
        BY <2>1, <3>1, <3>2
    <2>8. status' \in {"Technician On Site", "Inspection Completed"} =>
              {"Technician En Route", "Technician On Site"} \subseteq seen'
      <3>1. CASE target = "Technician On Site"
        <4>1. "Technician En Route" \in seen
          BY <2>1, <2>4, <3>1, BeforeTheInspection DEF Landmark
        <4>2. "Technician On Site" \in seen'
          BY <2>5, <3>1 DEF Landmark
        <4> QED
          BY <2>1, <4>1, <4>2
      <3>2. CASE target = "Inspection Completed"
        BY <2>1, <3>2, BeforeTheInspection DEF PInv, Remembered
      <3> QED
        BY <2>1, <3>1, <3>2
    <2>9. status' \in {"Quote Awaiting Follow-up", "Quote Accepted"} => "Quote Sent" \in seen'
      <3>1. status = "Quote Sent" => "Quote Sent" \in seen
        BY <2>4 DEF Landmark
      <3> QED
        BY <2>1, <3>1, BeforeTheQuote DEF PInv, Remembered
    <2>10. "Quote Sent" \in seen' =>
               seen' \cap {"Inspection Completed", "Large Project Under Review"} # {}
      <3>1. CASE "Quote Sent" \in seen
        BY <2>1, <3>1 DEF PInv, Remembered
      <3>2. CASE target = "Quote Sent"
        <4>1. status \in {"Inspection Completed", "Large Project Under Review"}
          BY <2>1, <3>2, BeforeTheQuote
        <4>2. status \in seen
          BY <2>4, <4>1 DEF Landmark
        <4> QED
          BY <2>1, <4>1, <4>2
      <3>3. "Quote Sent" \in seen' => "Quote Sent" \in seen \/ target = "Quote Sent"
        BY <1>3 DEF TransitionTicket
      <3> QED
        BY <3>1, <3>2, <3>3
    <2>11. status' \in {"Warranty Technician Review", "Warranty Booked"} =>
               {"Warranty Eligibility Review", "Warranty Technician Review"} \subseteq seen'
      <3>1. CASE target = "Warranty Technician Review"
        <4>1. "Warranty Eligibility Review" \in seen
          BY <2>1, <2>4, <3>1, BeforeWarrantyWork DEF Landmark
        <4>2. "Warranty Technician Review" \in seen'
          BY <2>5, <3>1 DEF Landmark
        <4> QED
          BY <2>1, <4>1, <4>2
      <3>2. CASE target = "Warranty Booked"
        BY <2>1, <3>2, BeforeWarrantyWork DEF PInv, Remembered
      <3> QED
        BY <2>1, <3>1, <3>2
    <2> QED
      BY <2>3, <2>7, <2>8, <2>9, <2>10, <2>11 DEF PInv, Remembered
  <1> QED
    BY <1>1, <1>2, <1>3, TicketSteps

\* Saving writes the ticket as it now is, or raises and leaves the row alone.
LEMMA RowStep ==
    ASSUME TicketAssumption, TypeOK, RowRemembers, RowIsCurrent, Remembered(status', seen'),
           status' \in Status, seen' \subseteq Milestone, PersistTicket
    PROVE  row' \in Row \cup {NoRow} /\ failures' \in 0 .. MaxFailures
           /\ RowRemembers' /\ RowIsCurrent'
  <1>1. CASE Saved
    <2>1. row' = [status |-> status', history |-> seen'] /\ failures' = failures
      BY <1>1 DEF Saved
    <2>2. row' \in Row /\ row'.status = status' /\ row'.history = seen'
      BY <2>1 DEF Row
    <2>3. RowRemembers'
      BY <2>2 DEF RowRemembers
    <2> QED
      BY <2>1, <2>2, <2>3 DEF TypeOK, RowIsCurrent
  <1>2. CASE SaveRaises
    <2>1. row' = row /\ failures' = failures + 1 /\ failures < MaxFailures
      BY <1>2 DEF SaveRaises
    <2>2. failures' \in 0 .. MaxFailures /\ failures' # 0
      BY <2>1 DEF TypeOK, TicketAssumption
    <2>3. RowRemembers'
      BY <2>1 DEF RowRemembers
    <2> QED
      BY <2>1, <2>2, <2>3 DEF TypeOK, RowIsCurrent
  <1> QED
    BY <1>1, <1>2 DEF PersistTicket

\* Types, paths and rows are kept by every step.
LEMMA TicketStep ==
    ASSUME Landmark \subseteq Milestone, TicketAssumption, IInv, [Next]_vars
    PROVE  IInv'
  <1>1. PInv'
    BY PathStep DEF IInv
  <1>2. CASE UNCHANGED vars
    BY <1>1, <1>2 DEF IInv, TypeOK, RowRemembers, RowIsCurrent, vars
  <1>3. ASSUME PersistTicket, status' \in Status, seen' \subseteq Milestone
        PROVE  IInv'
    BY <1>1, <1>3, RowStep DEF IInv, PInv, TypeOK
  <1>4. CASE CreateTicket
    <2>1. status' \in Status /\ seen' \subseteq Milestone /\ PersistTicket
      BY <1>4 DEF CreateTicket, Initial, Status
    <2> QED
      BY <2>1, <1>3
  <1>5. ASSUME NEW target \in Status, TransitionTicket(target)
        PROVE  IInv'
    <2>1. status' \in Status /\ seen' \subseteq Milestone /\ PersistTicket
      BY <1>5 DEF TransitionTicket, IInv, TypeOK
    <2> QED
      BY <2>1, <1>3
  <1> QED
    BY <1>2, <1>4, <1>5, TicketSteps

\* The invariant holds of every history that keeps the landmarks.
LEMMA TicketInvariant ==
    ASSUME Landmark \subseteq Milestone
    PROVE  Spec => []IInv
  <1>1. Init => IInv
    <2>1. Init => TypeOK /\ RowRemembers /\ RowIsCurrent
      BY TicketAssumption DEF Init, TypeOK, RowRemembers, RowIsCurrent, TicketAssumption
    <2>2. Init => PInv
      BY TicketAssumption DEF Init, PInv, NowIsHistory, Remembered, TicketAssumption, Status
    <2> QED
      BY <2>1, <2>2 DEF IInv
  <1>2. IInv /\ [Next]_vars => IInv'
    BY TicketAssumption, TicketStep
  <1> QED
    BY <1>1, <1>2, PTL DEF Spec

\* Along every path of updates and escalations, a technician on site set out to
\* a visit that was booked, approved or dispatched.
THEOREM VisitsBooked ==
    ASSUME Landmark \subseteq Milestone
    PROVE  Spec => []VisitsWereBooked
  <1>1. IInv => VisitsWereBooked
    BY DEF IInv, PInv, Remembered, Booked, VisitsWereBooked, VisitBooked
  <1> QED
    BY <1>1, TicketInvariant, PTL

\* Along every path, a quote that is accepted was sent, after a look at the job.
THEOREM QuotesRest ==
    ASSUME Landmark \subseteq Milestone
    PROVE  Spec => []QuotesRestOnAnInspection
  <1>1. IInv => QuotesRestOnAnInspection
    BY DEF IInv, PInv, Remembered, QuotesRestOnAnInspection, QuoteRests
  <1> QED
    BY <1>1, TicketInvariant, PTL

\* Along every path, warranty work was looked at twice before it was booked.
THEOREM WarrantyReviewed ==
    ASSUME Landmark \subseteq Milestone
    PROVE  Spec => []WarrantyWasReviewed
  <1>1. IInv => WarrantyWasReviewed
    BY DEF IInv, PInv, Remembered, WarrantyWasReviewed, LookedAtTwice
  <1> QED
    BY <1>1, TicketInvariant, PTL

\* Along every path and whichever saves fail, the row of the ticket shows no
\* status without the history it rests on, and lags only after a failure.
THEOREM RowsTell ==
    ASSUME Landmark \subseteq Milestone
    PROVE  Spec => []RowsTellWholePaths
  <1>1. IInv => RowsTellWholePaths
    BY DEF IInv, RowRemembers, RowIsCurrent, Remembered, Booked, RowsTellWholePaths,
       VisitBooked, QuoteRests, LookedAtTwice
  <1> QED
    BY <1>1, TicketInvariant, PTL

\* The ticket, its row and the count of failed saves keep their types.
THEOREM TicketsTyped ==
    ASSUME Landmark \subseteq Milestone
    PROVE  Spec => []TypeOK
  <1>1. IInv => TypeOK
    BY DEF IInv
  <1> QED
    BY <1>1, TicketInvariant, PTL

-----------------------------------------------------------------------------
(* Customers' records *)

USE RecordsAssumption DEF Ready, Idle

\* A fresh start has its types: the seed's copies, and nobody saving.
LEMMA FreshTypes ==
    ASSUME seed \in {NoRecord} \cup Record
    PROVE  /\ [c \in Conv |-> seed] \in [Conv -> {NoRecord} \cup Record]
           /\ [c \in Conv |-> Idle] \in
                  [Conv -> [step : {"idle", "read", "write"}, known : {NoRecord} \cup Record]]
  OBVIOUS

\* What is merged is a record again.
LEMMA MergedIsRecord ==
    ASSUME NEW record \in Record, NEW known \in {NoRecord} \cup Record
    PROVE  Merged(record, known) \in Record
  <1>1. \A f \in Field : KnownValue(known, f) \in Value
    BY DEF KnownValue, Record, Value
  <1> QED
    BY <1>1 DEF Merged, Record

\* The copy an agent finds is a record, or there is none.
LEMMA FoundIsRecord ==
    ASSUME RecordsTypeOK, NEW c \in Conv
    PROVE  FindCustomer(c) \in {NoRecord} \cup Record
  BY DEF RecordsTypeOK, FindCustomer

\* Changing a copy before it is saved keeps the types.
LEMMA SavingTypes ==
    ASSUME RecordsTypeOK, NEW c \in Conv, NEW record \in Record, SaveCustomer(c, record)
    PROVE  /\ held' \in [Conv -> {NoRecord} \cup Record]
           /\ saving' \in [Conv -> [step : {"idle", "read", "write"},
                                    known : {NoRecord} \cup Record]]
           /\ \A d \in Conv : saving'[d].step # "idle" => held'[d] # NoRecord
  BY DEF RecordsTypeOK, SaveCustomer

\* One step keeps every variable its type.
LEMMA RecordsTypeStep ==
    RecordsTypeOK /\ [RecordsNext]_recordsVars => RecordsTypeOK'
  <1> SUFFICES ASSUME RecordsTypeOK, [RecordsNext]_recordsVars
               PROVE  RecordsTypeOK'
    OBVIOUS
  <1>1. ASSUME NEW c \in Conv, LookupByPhone(c)
        PROVE  RecordsTypeOK'
    <2>1. held' \in [Conv -> {NoRecord} \cup Record]
      BY <1>1, FoundIsRecord DEF LookupByPhone, RecordsTypeOK
    <2>2. \A d \in Conv : ~Ready(d) => held'[d] # NoRecord
      BY <1>1 DEF LookupByPhone, RecordsTypeOK
    <2> QED
      BY <1>1, <2>1, <2>2 DEF LookupByPhone, RecordsTypeOK, BehindAfterLooking
  <1>2. ASSUME NEW c \in Conv, CreateCustomer(c)
        PROVE  RecordsTypeOK'
    <2>1. PICK given \in SUBSET Field :
              SaveCustomer(c, [f \in Field |-> IF f \in given THEN c ELSE Blank])
      BY <1>2 DEF CreateCustomer
    <2>2. [f \in Field |-> IF f \in given THEN c ELSE Blank] \in Record
      BY DEF Record, Value
    <2> QED
      BY <1>2, <2>1, <2>2, SavingTypes DEF CreateCustomer, RecordsTypeOK
  <1>3. ASSUME NEW c \in Conv, UpdateCustomer(c)
        PROVE  RecordsTypeOK'
    <2>1. FindCustomer(c) \in Record
      BY <1>3, FoundIsRecord DEF UpdateCustomer
    <2>2. PICK updates \in SUBSET Field \ {{}} :
              SaveCustomer(c, [f \in Field |-> IF f \in updates THEN c ELSE FindCustomer(c)[f]])
      BY <1>3 DEF UpdateCustomer
    <2>3. [f \in Field |-> IF f \in updates THEN c ELSE FindCustomer(c)[f]] \in Record
      BY <2>1 DEF Record, Value
    <2> QED
      BY <1>3, <2>2, <2>3, SavingTypes DEF UpdateCustomer, RecordsTypeOK, BehindAfterLooking
  <1>4. ASSUME NEW c \in Conv, ReadKnown(c)
        PROVE  RecordsTypeOK'
    BY <1>4 DEF ReadKnown, RecordsTypeOK
  <1>5. ASSUME NEW c \in Conv, WriteMerged(c)
        PROVE  RecordsTypeOK'
    <2>1. held[c] \in Record /\ saving[c].known \in {NoRecord} \cup Record
      BY <1>5 DEF WriteMerged, RecordsTypeOK
    <2>2. customer' \in Record
      BY <1>5, <2>1, MergedIsRecord DEF WriteMerged
    <2> QED
      BY <1>5, <2>2 DEF WriteMerged, RecordsTypeOK
  <1>6. ASSUME NEW c \in Conv, SaveFails(c)
        PROVE  RecordsTypeOK'
    BY <1>6 DEF SaveFails, RecordsTypeOK
  <1>7. ASSUME NEW c \in Conv, RequestMaterials(c)
        PROVE  RecordsTypeOK'
    <2>1. [held[c] EXCEPT ![Email] = c] \in Record
      BY <1>7 DEF RequestMaterials, RecordsTypeOK, Record, Value
    <2> QED
      BY <1>7, <2>1 DEF RequestMaterials, RecordsTypeOK
  <1>8. CASE Restart
    BY <1>8, FreshTypes DEF Restart, Fresh, RecordsTypeOK
  <1>9. CASE UNCHANGED recordsVars
    BY <1>9 DEF recordsVars, RecordsTypeOK
  <1> QED
    BY <1>1, <1>2, <1>3, <1>4, <1>5, <1>6, <1>7, <1>8, <1>9 DEF RecordsNext

\* Every record, kept or read, is one, and nobody saves a copy there is none of.
THEOREM RecordsTyped == RecordsSpec => []RecordsTypeOK
  <1>1. RecordsInit => RecordsTypeOK
    <2> SUFFICES ASSUME RecordsInit
                 PROVE  RecordsTypeOK
      OBVIOUS
    <2>1. seed \in {NoRecord} \cup Record /\ customer \in {NoRecord} \cup Record
      BY DEF RecordsInit, Record, Value
    <2> QED
      BY <2>1, FreshTypes DEF RecordsInit, RecordsTypeOK
  <1> QED
    BY <1>1, RecordsTypeStep, PTL DEF RecordsSpec

-----------------------------------------------------------------------------
(* Copies *)

\* Whether c's copy says what the row says, where c has nothing outstanding.
Agrees(c) ==
    (Ready(c) /\ held[c] # NoRecord /\ c \notin behind \cup unsaved) =>
        /\ customer # NoRecord
        /\ \A f \in Field : held[c][f] # Blank => customer[f] = held[c][f]

\* What has just been written is what the writer holds.
LEMMA WrittenAgrees ==
    ASSUME NEW record \in Record, NEW known \in {NoRecord} \cup Record
    PROVE  /\ Merged(record, known) # NoRecord
           /\ \A f \in Field : record[f] # Blank => Merged(record, known)[f] = record[f]
  <1>1. Merged(record, known) # NoRecord
    BY MergedIsRecord
  <1> QED
    BY <1>1 DEF Merged

\* One step of the types and the agreement keeps the agreement.
LEMMA AgreeStep ==
    RecordsTypeOK /\ CopiesAgree /\ [RecordsNext]_recordsVars => CopiesAgree'
  <1> SUFFICES ASSUME RecordsTypeOK, CopiesAgree, [RecordsNext]_recordsVars, NEW d \in Conv
               PROVE  Agrees(d)'
    BY DEF CopiesAgree, Agrees
  <1>0. Agrees(d)
    BY DEF CopiesAgree, Agrees
  <1>1. ASSUME NEW c \in Conv, LookupByPhone(c)
        PROVE  Agrees(d)'
    <2>1. CASE d = c /\ held[c] = NoRecord
      BY <1>1, <2>1 DEF LookupByPhone, FindCustomer, Agrees, RecordsTypeOK
    <2>2. CASE d # c \/ held[c] # NoRecord
      <3>1. held'[d] = held[d]
        BY <1>1, <2>2 DEF LookupByPhone, FindCustomer, RecordsTypeOK
      <3>2. d \in behind => d \in behind'
        BY <1>1, <2>2 DEF LookupByPhone, BehindAfterLooking
      <3> QED
        BY <1>0, <1>1, <3>1, <3>2 DEF LookupByPhone, Agrees
    <2> QED
      BY <2>1, <2>2
  <1>2. ASSUME NEW c \in Conv, CreateCustomer(c)
        PROVE  Agrees(d)'
    BY <1>0, <1>2 DEF CreateCustomer, SaveCustomer, Agrees, RecordsTypeOK
  <1>3. ASSUME NEW c \in Conv, UpdateCustomer(c)
        PROVE  Agrees(d)'
    BY <1>0, <1>3 DEF UpdateCustomer, SaveCustomer, Agrees, RecordsTypeOK, BehindAfterLooking
  <1>4. ASSUME NEW c \in Conv, ReadKnown(c)
        PROVE  Agrees(d)'
    BY <1>0, <1>4 DEF ReadKnown, Agrees, RecordsTypeOK
  <1>5. ASSUME NEW c \in Conv, WriteMerged(c)
        PROVE  Agrees(d)'
    <2>1. held[c] \in Record /\ saving[c].known \in {NoRecord} \cup Record
      BY <1>5 DEF WriteMerged, RecordsTypeOK
    <2>2. CASE d = c
      <3>1. /\ customer' # NoRecord
            /\ \A f \in Field : held[c][f] # Blank => customer'[f] = held[c][f]
        BY <1>5, <2>1, WrittenAgrees DEF WriteMerged
      <3> QED
        BY <1>5, <2>2, <3>1 DEF WriteMerged, Agrees
    <2>3. CASE d # c
      BY <1>5, <2>3 DEF WriteMerged, Agrees
    <2> QED
      BY <2>2, <2>3
  <1>6. ASSUME NEW c \in Conv, SaveFails(c)
        PROVE  Agrees(d)'
    BY <1>0, <1>6 DEF SaveFails, Agrees, RecordsTypeOK
  <1>7. ASSUME NEW c \in Conv, RequestMaterials(c)
        PROVE  Agrees(d)'
    BY <1>0, <1>7 DEF RequestMaterials, Agrees, RecordsTypeOK
  <1>8. CASE Restart
    BY <1>8 DEF Restart, Fresh, Agrees
  <1>9. CASE UNCHANGED recordsVars
    BY <1>0, <1>9 DEF recordsVars, Agrees
  <1> QED
    BY <1>1, <1>2, <1>3, <1>4, <1>5, <1>6, <1>7, <1>8, <1>9 DEF RecordsNext

\* What a conversation goes by is in the database, unless somebody saved since, its
\* own save failed, or only its copy was changed.
THEOREM CopiesStayInAgreement == RecordsSpec => []CopiesAgree
  <1>1. RecordsInit => CopiesAgree
    BY DEF RecordsInit, CopiesAgree
  <1> QED
    BY <1>1, AgreeStep, RecordsTyped, PTL DEF RecordsSpec

-----------------------------------------------------------------------------
(* Blanks *)

\* What the action property says of one step.
BlankedInFlight ==
    \A f \in Field :
        (customer # NoRecord /\ customer[f] # Blank /\ customer'[f] = Blank) =>
            \E c \in Conv : /\ saving[c].step = "write" /\ saving'[c] = Idle
                            /\ saving[c].known[f] = Blank

\* Only a write can blank a field, and only one that read the field blank.
LEMMA BlankStep ==
    RecordsTypeOK /\ [RecordsNext]_recordsVars => BlankedInFlight
  <1> SUFFICES ASSUME RecordsTypeOK, [RecordsNext]_recordsVars, NEW f \in Field,
                      customer # NoRecord, customer[f] # Blank, customer'[f] = Blank
               PROVE  \E c \in Conv : /\ saving[c].step = "write" /\ saving'[c] = Idle
                                      /\ saving[c].known[f] = Blank
    BY DEF BlankedInFlight
  <1>1. PICK c \in Conv : WriteMerged(c)
    BY DEF RecordsNext, recordsVars, LookupByPhone, CreateCustomer, UpdateCustomer, ReadKnown,
           SaveFails, RequestMaterials, Restart
  <1>2. saving[c].known # NoRecord
    BY <1>1 DEF WriteMerged
  <1>3. saving[c].known[f] = Blank
    BY <1>1, <1>2 DEF WriteMerged, Merged, KnownValue
  <1>4. saving'[c] = Idle
    BY <1>1 DEF WriteMerged, RecordsTypeOK
  <1> QED
    BY <1>1, <1>3, <1>4 DEF WriteMerged

\* Nothing known of a customer is blanked but by a save that read the record before
\* it was known.
THEOREM KnownIsKept == RecordsSpec => KnownIsBlankedOnlyInFlight
  <1>1. RecordsTypeOK /\ [RecordsNext]_recordsVars =>
            [\A f \in Field :
                (customer # NoRecord /\ customer[f] # Blank /\ customer'[f] = Blank) =>
                    \E c \in Conv : /\ saving[c].step = "write" /\ saving'[c] = Idle
                                    /\ saving[c].known[f] = Blank]_recordsVars
    BY BlankStep DEF BlankedInFlight
  <1> QED
    BY <1>1, RecordsTyped, PTL DEF RecordsSpec, KnownIsBlankedOnlyInFlight
=============================================================================
