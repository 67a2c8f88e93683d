--------------------------- MODULE TechChatProofs ---------------------------
(***************************************************************************)
(* What holds of the technician's chat for any offers, questions, typed    *)
(* texts, number of reminders, of requests in progress and of restarts.    *)
(***************************************************************************)
EXTENDS TechChat, TLAPS

-----------------------------------------------------------------------------
(* What a request and a pass of the reminder thread carry with them *)

\* What a request is about, and what it has to say.
Sound(request) ==
    /\ request.at \in {"write", "settle", "edit", "note"} => request.about \in Offer
    /\ request.at = "answer" => request.about \in Followup
    /\ request.at = "edit" => request.to \in Settled
    /\ request.at \in {"answer", "reason", "open", "note"} => request.text # NoText
    /\ request.at = "write" /\ request.to = "declined" => request.text # NoText

RequestsAreSound == \A h \in Handler : handler[h] \in Request /\ Sound(handler[h])

OfferJob == [id: Offer, number: 1 .. Thresholds]
FollowupJob == [id: Followup, status: {"scheduled", "asked"}, asked: 0 .. 2]

PassTypeOK ==
    /\ reminder.at \in {"wait", "offers", "mark", "flag", "followups", "asked"}
    /\ reminder.at \in {"offers", "mark", "flag"} => reminder.todo \subseteq OfferJob
    /\ reminder.at \in {"mark", "flag"} =>
           reminder.about \in Offer /\ reminder.number \in 1 .. Thresholds
    /\ reminder.at \in {"followups", "asked"} => reminder.todo \subseteq FollowupJob
    /\ reminder.at = "asked" => reminder.about \in Followup /\ reminder.number \in 1 .. 2

TablesTypeOK ==
    /\ offers \in [Offer -> OfferRow]
    /\ followups \in [Followup -> FollowupRow]
    /\ listed \in [Followup -> {"no", "scheduled", "withdrawn"}]
    /\ flagged \subseteq Offer

ChatTypeOK ==
    /\ age \in [Offer -> 0 .. Thresholds]
    /\ due \subseteq Followup
    /\ sending \in [Offer -> {"no", "created", "posted", "over"}]
    /\ crashes \in 0 .. MaxCrashes
    /\ screen \in [Offer -> {"nothing", "buttons"} \cup Settled]
    /\ nudges \in [Offer -> [count: Nat, last: 0 .. Thresholds]]
    /\ questions \in [Followup -> 0 .. MaxAsked]

HandlersTypeOK == handler \in [Handler -> Request] /\ RequestsAreSound

Types == TablesTypeOK /\ ChatTypeOK /\ HandlersTypeOK /\ PassTypeOK

\* An offer that was never made is nobody's business yet.
NotYetMade ==
    \A o \in Offer : sending[o] = "no" =>
        /\ offers[o].state = "none" /\ offers[o].reminders = 0
        /\ \A h \in Handler : handler[h].at \in {"write", "note"} => handler[h].about # o
        /\ reminder.at \in {"offers", "mark", "flag"} =>
               \A job \in reminder.todo : job.id # o
        /\ reminder.at = "mark" => reminder.about # o

\* A nudge is counted in the row after it was sent; what a pass has still to
\* send has a higher number than the row.
NudgesAreCounted ==
    /\ \A o \in Offer :
        /\ offers[o].reminders <= nudges[o].last
        /\ nudges[o].count <= offers[o].reminders + crashes
               + (IF reminder.at = "mark" /\ reminder.about = o THEN 1 ELSE 0)
    /\ reminder.at = "mark" =>
        /\ reminder.number = nudges[reminder.about].last
        /\ reminder.number > offers[reminder.about].reminders
        /\ \A job \in reminder.todo : job.id # reminder.about
    /\ reminder.at \in {"offers", "mark", "flag"} =>
        /\ \A job \in reminder.todo : job.number > offers[job.id].reminders
        /\ \A j, k \in reminder.todo : j.id = k.id => j = k

\* A question is counted in the row after it was asked; what a pass has read of
\* the count is still so when it writes it.
QuestionsAreCounted ==
    /\ \A f \in Followup :
        /\ questions[f] <= followups[f].asked + crashes
               + (IF reminder.at = "asked" /\ reminder.about = f THEN 1 ELSE 0)
        /\ followups[f].status \in {"none", "scheduled"} => followups[f].asked = 0
    /\ reminder.at = "asked" =>
        /\ reminder.number = followups[reminder.about].asked + 1
        /\ \A job \in reminder.todo : job.id # reminder.about
    /\ reminder.at \in {"followups", "asked"} =>
        /\ \A job \in reminder.todo :
            /\ job.asked = followups[job.id].asked
            /\ job.status = "scheduled" => job.asked = 0
        /\ \A j, k \in reminder.todo : j.id = k.id => j = k

\* The inductive invariant.
IInv == Types /\ NotYetMade /\ NudgesAreCounted /\ QuestionsAreCounted /\ DeclinedHasReason

-----------------------------------------------------------------------------
(* One row written, one request taken or finished *)

\* Changing an offer's state or its reminding leaves a row of the offers table
\* (the UPDATEs of offers.py name these columns).
LEMMA RowChanged ==
    ASSUME NEW row \in OfferRow
    PROVE  /\ \A yes \in BOOLEAN : [row EXCEPT !.nudging = yes] \in OfferRow
           /\ \A state \in OfferState, yes \in BOOLEAN :
                  [row EXCEPT !.state = state, !.nudging = yes] \in OfferRow
  <1>1. ASSUME NEW r \in OfferRow, NEW yes \in BOOLEAN
        PROVE  [r EXCEPT !.nudging = yes] \in OfferRow
    BY DEF OfferRow
  <1>2. ASSUME NEW state \in OfferState PROVE [row EXCEPT !.state = state] \in OfferRow
    BY DEF OfferRow
  <1> QED
    BY <1>1, <1>2

\* A step that writes one offer's row keeps the tables well-typed.
LEMMA OfferStored ==
    ASSUME TablesTypeOK, NEW o \in Offer, NEW row \in OfferRow,
           offers' = [offers EXCEPT ![o] = row], UNCHANGED <<followups, listed, flagged>>
    PROVE  TablesTypeOK'
  BY DEF TablesTypeOK

\* A step that writes one follow-up's row keeps the tables well-typed.
LEMMA FollowupStored ==
    ASSUME TablesTypeOK, NEW f \in Followup, NEW row \in FollowupRow,
           followups' = [followups EXCEPT ![f] = row], UNCHANGED <<offers, flagged>>,
           listed' \in [Followup -> {"no", "scheduled", "withdrawn"}]
    PROVE  TablesTypeOK'
  BY DEF TablesTypeOK

\* A request that moves on to a sound stage keeps the requests sound: it is about
\* an offer or a question that exists and has the text it is going to write.
LEMMA RequestTaken ==
    ASSUME HandlersTypeOK, NEW h \in Handler,
           NEW request \in Request, Sound(request), Goto(h, request)
    PROVE  HandlersTypeOK'
  <1>1. handler' \in [Handler -> Request]
    BY DEF HandlersTypeOK, Goto
  <1>2. \A g \in Handler : Sound(handler'[g])
    <2> SUFFICES ASSUME NEW g \in Handler PROVE Sound(handler'[g])
      OBVIOUS
    <2>1. handler'[g] = IF g = h THEN request ELSE handler[g]
      BY DEF HandlersTypeOK, Goto
    <2> QED
      BY <2>1 DEF HandlersTypeOK, RequestsAreSound
  <1> QED
    BY <1>1, <1>2 DEF HandlersTypeOK, RequestsAreSound, Sound

\* A request that is answered leaves a sound, idle one behind.
LEMMA RequestFinished ==
    ASSUME TechChatAssumption, HandlersTypeOK, NEW h \in Handler, Finish(h)
    PROVE  HandlersTypeOK'
  <1>1. Idle \in Request /\ Sound(Idle)
    BY DEF Idle, Request, Sound
  <1> QED
    BY <1>1, RequestTaken DEF Finish

-----------------------------------------------------------------------------
(* What every step keeps *)

\* Every step keeps the tables well-typed; the steps that write a row are spelled
\* out, the others leave the tables alone.
LEMMA TablesTypesKept ==
    ASSUME TechChatAssumption, IInv, Next
    PROVE  TablesTypeOK'
  <1>1. ASSUME NEW o \in Offer, CreateOffer(o)
        PROVE  TablesTypeOK'
    <2> DEFINE row == [NoOffer EXCEPT !.state = "sent", !.nudging = TRUE]
    <2>1. row \in OfferRow
      <3>1. NoOffer \in OfferRow
        BY DEF NoOffer, OfferRow, OfferState, TechChatAssumption
      <3>2. "sent" \in OfferState
        BY DEF OfferState
      <3> QED
        BY <3>1, <3>2, RowChanged
    <2>2. offers' = [offers EXCEPT ![o] = row]
      BY <1>1 DEF CreateOffer, NoOffer, IInv, Types, TablesTypeOK
    <2>3. UNCHANGED <<followups, listed, flagged>>
      BY <1>1 DEF CreateOffer
    <2> HIDE DEF row
    <2> QED
      BY <2>1, <2>2, <2>3, OfferStored DEF IInv, Types
  <1>2. ASSUME NEW o \in Offer, SetMessageId(o)
        PROVE  TablesTypeOK'
    <2> DEFINE row == [offers[o] EXCEPT !.message = TRUE]
    <2>1. row \in OfferRow
      BY <1>2 DEF SetMessageId, TablesTypeOK, OfferRow, OfferState, IInv, Types
    <2>2. offers' = [offers EXCEPT ![o] = row]
      BY <1>2 DEF SetMessageId, IInv, Types, TablesTypeOK
    <2>3. UNCHANGED <<followups, listed, flagged>>
      BY <1>2 DEF SetMessageId
    <2> HIDE DEF row
    <2> QED
      BY <2>1, <2>2, <2>3, OfferStored DEF IInv, Types
  <1>3. ASSUME NEW f \in Followup, ScheduleFollowup(f)
        PROVE  TablesTypeOK'
    <2> DEFINE row == [followups[f] EXCEPT !.status = "scheduled"]
    <2>1. row \in FollowupRow
      BY <1>3 DEF ScheduleFollowup, TablesTypeOK, FollowupRow, IInv, Types
    <2>2. followups' = [followups EXCEPT ![f] = row]
      BY <1>3 DEF ScheduleFollowup, IInv, Types, TablesTypeOK
    <2>3. UNCHANGED <<offers, flagged>> /\ listed' \in [Followup -> {"no", "scheduled", "withdrawn"}]
      BY <1>3 DEF ScheduleFollowup, IInv, Types, TablesTypeOK
    <2> HIDE DEF row
    <2> QED
      BY <2>1, <2>2, <2>3, FollowupStored DEF IInv, Types
  <1>4. ASSUME NEW f \in Followup, WithdrawFollowup(f)
        PROVE  TablesTypeOK'
    BY <1>4 DEF WithdrawFollowup, IInv, Types, TablesTypeOK
  <1>5. ASSUME NEW h \in Handler, NEW f \in Followup, FollowupPress(h, f)
        PROVE  TablesTypeOK'
    <2> DEFINE row == [followups[f] EXCEPT !.status = "answered"]
    <2>1. row \in FollowupRow
      BY <1>5 DEF FollowupPress, TablesTypeOK, FollowupRow, IInv, Types
    <2>2. followups' = [followups EXCEPT ![f] = row]
      BY <1>5 DEF FollowupPress, IInv, Types, TablesTypeOK
    <2>3. UNCHANGED <<offers, flagged>> /\ listed' \in [Followup -> {"no", "scheduled", "withdrawn"}]
      BY <1>5 DEF FollowupPress, IInv, Types, TablesTypeOK
    <2> HIDE DEF row
    <2> QED
      BY <2>1, <2>2, <2>3, FollowupStored DEF IInv, Types
  <1>6. ASSUME NEW h \in Handler, Write(h)
        PROVE  TablesTypeOK'
    <2> DEFINE o == handler[h].about
    <2>0. o \in Offer /\ handler[h].text \in Text \cup {NoText} /\ handler[h].to \in OfferState
      BY <1>6 DEF Write, IInv, Types, HandlersTypeOK, RequestsAreSound, Sound, Request, OfferState
    <2> DEFINE row == [offers[o] EXCEPT !.state = handler[h].to, !.nudging = FALSE,
                         !.reason = IF handler[h].to = "declined" THEN handler[h].text ELSE @]
    <2>1. row \in OfferRow
      <3>1. offers[o] \in OfferRow
        BY <2>0 DEF IInv, Types, TablesTypeOK
      <3>2. [offers[o] EXCEPT !.state = handler[h].to, !.nudging = FALSE] \in OfferRow
        BY <2>0, <3>1, RowChanged
      <3> QED
        BY <2>0, <3>1, <3>2 DEF OfferRow
    <2>2. offers' = [offers EXCEPT ![o] = row]
      BY <1>6, <2>0 DEF Write, IInv, Types, TablesTypeOK
    <2>3. UNCHANGED <<followups, listed, flagged>>
      BY <1>6 DEF Write
    <2> HIDE DEF row, o
    <2> QED
      BY <2>1, <2>2, <2>3, <2>0, OfferStored DEF IInv, Types
  <1>7. ASSUME NEW h \in Handler, AnswerFollowup(h)
        PROVE  TablesTypeOK'
    <2> DEFINE f == handler[h].about
    <2>0. f \in Followup
      BY <1>7 DEF AnswerFollowup, IInv, Types, HandlersTypeOK, RequestsAreSound, Sound
    <2> DEFINE row == [followups[f] EXCEPT !.status = "answered"]
    <2>1. row \in FollowupRow
      BY <1>7, <2>0 DEF AnswerFollowup, TablesTypeOK, FollowupRow, IInv, Types
    <2>2. followups' = [followups EXCEPT ![f] = row]
      BY <1>7, <2>0 DEF AnswerFollowup, IInv, Types, TablesTypeOK
    <2>3. UNCHANGED <<offers, flagged>> /\ listed' \in [Followup -> {"no", "scheduled", "withdrawn"}]
      BY <1>7, <2>0 DEF AnswerFollowup, IInv, Types, TablesTypeOK
    <2> HIDE DEF row, f
    <2> QED
      BY <2>1, <2>2, <2>3, <2>0, FollowupStored DEF IInv, Types
  <1>8. ASSUME NEW h \in Handler, NoteTyped(h)
        PROVE  TablesTypeOK'
    <2> DEFINE o == handler[h].about
    <2>0. o \in Offer /\ handler[h].text \in Text \cup {NoText}
      BY <1>8 DEF NoteTyped, IInv, Types, HandlersTypeOK, RequestsAreSound, Sound, Request
    <2> DEFINE row == [offers[o] EXCEPT !.reason = handler[h].text]
    <2>1. row \in OfferRow
      BY <1>8, <2>0 DEF NoteTyped, TablesTypeOK, OfferRow, OfferState, IInv, Types
    <2>2. offers' = [offers EXCEPT ![o] = row]
      BY <1>8, <2>0 DEF NoteTyped, IInv, Types, TablesTypeOK
    <2>3. UNCHANGED <<followups, listed, flagged>>
      BY <1>8 DEF NoteTyped
    <2> HIDE DEF row, o
    <2> QED
      BY <2>1, <2>2, <2>3, <2>0, OfferStored DEF IInv, Types
  <1>9. CASE MarkNudged
    <2> DEFINE o == reminder.about
    <2>0. o \in Offer /\ reminder.number \in 0 .. Thresholds
      BY <1>9 DEF MarkNudged, IInv, Types, PassTypeOK, TechChatAssumption
    <2> DEFINE row == [offers[o] EXCEPT !.reminders = reminder.number,
                         !.nudging = ~GivesUp(reminder.number)]
    <2>1. row \in OfferRow
      <3>1. [offers[o] EXCEPT !.reminders = reminder.number] \in OfferRow
        BY <2>0 DEF OfferRow, IInv, Types, TablesTypeOK
      <3>2. (~GivesUp(reminder.number)) \in BOOLEAN
        BY DEF GivesUp
      <3> QED
        BY <3>1, <3>2, RowChanged
    <2>2. offers' = [offers EXCEPT ![o] = row]
      BY <1>9, <2>0 DEF MarkNudged, GivesUp, IInv, Types, TablesTypeOK
    <2>3. UNCHANGED <<followups, listed, flagged>>
      BY <1>9 DEF MarkNudged
    <2> HIDE DEF row, o
    <2> QED
      BY <2>1, <2>2, <2>3, <2>0, OfferStored DEF IInv, Types
  <1>10. CASE FlagUnanswered
    BY <1>10 DEF FlagUnanswered, IInv, Types, TablesTypeOK, PassTypeOK
  <1>11. CASE MarkAsked
    BY <1>11 DEF MarkAsked, IInv, Types, TablesTypeOK, PassTypeOK, FollowupRow
  <1>12. CASE GiveUpFollowup
    <2>0. PICK job \in reminder.todo : followups' = [followups EXCEPT ![job.id].status = "given_up"]
      BY <1>12 DEF GiveUpFollowup
    <2> DEFINE f == job.id
    <2>4. f \in Followup
      BY <1>12 DEF GiveUpFollowup, IInv, Types, PassTypeOK, FollowupJob
    <2> DEFINE row == [followups[f] EXCEPT !.status = "given_up"]
    <2>1. row \in FollowupRow
      BY <1>12, <2>0, <2>4 DEF GiveUpFollowup, TablesTypeOK, FollowupRow, IInv, Types
    <2>2. followups' = [followups EXCEPT ![f] = row]
      BY <1>12, <2>0, <2>4 DEF GiveUpFollowup, IInv, Types, TablesTypeOK
    <2>3. UNCHANGED <<offers, flagged>> /\ listed' \in [Followup -> {"no", "scheduled", "withdrawn"}]
      BY <1>12, <2>0, <2>4 DEF GiveUpFollowup, IInv, Types, TablesTypeOK
    <2> HIDE DEF row, f
    <2> QED
      BY <2>1, <2>2, <2>3, <2>4, FollowupStored DEF IInv, Types
  <1>13. CASE Crash
    BY <1>13 DEF Crash, IInv, Types, TablesTypeOK
  <1>14. CASE UNCHANGED tables
    BY <1>14 DEF IInv, Types, TablesTypeOK, tables
  <1> QED
    BY <1>1, <1>2, <1>3, <1>4, <1>5, <1>6, <1>7, <1>8, <1>9, <1>10, <1>11, <1>12, <1>13, <1>14
       DEF Next, Agent, Technician, Webhook, Reminders, Time, tables, clock, threads, chat,
           PostOffer, ButtonPress, ReceiveText, Settle, Edit, FindAwaiting, FindOpenOffer,
           ReadOffers, SendNudge, ReadFollowups, AskOutcome, EndPass, PassThreshold, ComeDue

\* Every step keeps the clock, the chat and what was sent well-typed: an edit shows
\* an answer, a nudge carries a number up to the last threshold.
LEMMA ChatTypesKept ==
    ASSUME TechChatAssumption, IInv, Next
    PROVE  ChatTypeOK'
  <1> USE DEF IInv, Types, ChatTypeOK, HandlersTypeOK, RequestsAreSound, Sound, PassTypeOK,
             tables, clock, threads, chat, Settled, OfferJob, FollowupJob, MaxAsked,
             TechChatAssumption
  <1>1. ASSUME NEW o \in Offer, CreateOffer(o)
        PROVE  ChatTypeOK'
    BY <1>1 DEF CreateOffer
  <1>2. ASSUME NEW o \in Offer, PostOffer(o)
        PROVE  ChatTypeOK'
    BY <1>2 DEF PostOffer
  <1>3. ASSUME NEW o \in Offer, SetMessageId(o)
        PROVE  ChatTypeOK'
    BY <1>3 DEF SetMessageId
  <1>4. ASSUME NEW f \in Followup, ScheduleFollowup(f)
        PROVE  ChatTypeOK'
    BY <1>4 DEF ScheduleFollowup
  <1>5. ASSUME NEW f \in Followup, WithdrawFollowup(f)
        PROVE  ChatTypeOK'
    BY <1>5 DEF WithdrawFollowup
  <1>6. ASSUME NEW h \in Handler, NEW o \in Offer, NEW b \in {"accept", "decline"}, ButtonPress(h, o, b)
        PROVE  ChatTypeOK'
    BY <1>6 DEF ButtonPress, Decision, Answerable, Goto
  <1>7. ASSUME NEW h \in Handler, NEW text \in Text, ReceiveText(h, text)
        PROVE  ChatTypeOK'
    BY <1>7 DEF ReceiveText, Goto, Asked, Idle
  <1>8. ASSUME NEW h \in Handler, NEW f \in Followup, FollowupPress(h, f)
        PROVE  ChatTypeOK'
    BY <1>8 DEF FollowupPress
  <1>9. ASSUME NEW h \in Handler, Write(h)
        PROVE  ChatTypeOK'
    BY <1>9 DEF Write, Goto, Finish, Idle
  <1>10. ASSUME NEW h \in Handler, Settle(h)
        PROVE  ChatTypeOK'
    BY <1>10 DEF Settle, Goto, Finish, Idle
  <1>11. ASSUME NEW h \in Handler, Edit(h)
        PROVE  ChatTypeOK'
    <2>1. handler[h].about \in Offer /\ handler[h].to \in Settled
      BY <1>11 DEF Edit
    <2>2. screen' \in [Offer -> {"nothing", "buttons"} \cup Settled]
      BY <1>11, <2>1 DEF Edit
    <2> QED
      BY <1>11, <2>2 DEF Edit
  <1>12. ASSUME NEW h \in Handler, AnswerFollowup(h)
        PROVE  ChatTypeOK'
    BY <1>12 DEF AnswerFollowup, Goto, Finish, Idle
  <1>13. ASSUME NEW h \in Handler, FindAwaiting(h)
        PROVE  ChatTypeOK'
    BY <1>13 DEF FindAwaiting, Goto
  <1>14. ASSUME NEW h \in Handler, FindOpenOffer(h)
        PROVE  ChatTypeOK'
    BY <1>14 DEF FindOpenOffer, Goto, Finish, Idle
  <1>15. ASSUME NEW h \in Handler, NoteTyped(h)
        PROVE  ChatTypeOK'
    BY <1>15 DEF NoteTyped, Goto, Finish, Idle
  <1>16. CASE ReadOffers
    BY <1>16 DEF ReadOffers, Waiting, DueNudge
  <1>17. CASE SendNudge
    BY <1>17 DEF SendNudge
  <1>18. CASE MarkNudged
    BY <1>18 DEF MarkNudged, GivesUp
  <1>19. CASE FlagUnanswered
    BY <1>19 DEF FlagUnanswered
  <1>20. CASE ReadFollowups
    BY <1>20 DEF ReadFollowups, Waiting
  <1>21. CASE AskOutcome
    BY <1>21 DEF AskOutcome, AskedEnough, NextCount
  <1>22. CASE MarkAsked
    BY <1>22 DEF MarkAsked
  <1>23. CASE GiveUpFollowup
    BY <1>23 DEF GiveUpFollowup
  <1>24. CASE EndPass
    BY <1>24 DEF EndPass, Waiting
  <1>25. ASSUME NEW o \in Offer, PassThreshold(o)
        PROVE  ChatTypeOK'
    BY <1>25 DEF PassThreshold
  <1>26. ASSUME NEW f \in Followup, ComeDue(f)
        PROVE  ChatTypeOK'
    BY <1>26 DEF ComeDue
  <1>27. CASE Crash
    BY <1>27 DEF Crash, Idle, Waiting
  <1> HIDE DEF IInv, Types, ChatTypeOK, HandlersTypeOK, RequestsAreSound, Sound, PassTypeOK,
             tables, clock, threads, chat, Settled, OfferJob, FollowupJob, MaxAsked,
             TechChatAssumption
  <1> QED
    BY <1>1, <1>2, <1>3, <1>4, <1>5, <1>6, <1>7, <1>8, <1>9, <1>10, <1>11, <1>12, <1>13, <1>14,
       <1>15, <1>16, <1>17, <1>18, <1>19, <1>20, <1>21, <1>22, <1>23, <1>24, <1>25, <1>26, <1>27
       DEF Next, Agent, Technician, Webhook, Reminders, Time

\* Every step keeps the reminder thread's pass well-typed: what it read at its
\* start are nudges and questions that exist, and it writes numbers in range.
LEMMA PassTypesKept ==
    ASSUME TechChatAssumption, IInv, Next
    PROVE  PassTypeOK'
  <1> USE DEF IInv, Types, TablesTypeOK, ChatTypeOK, PassTypeOK, QuestionsAreCounted, tables,
             clock, threads, chat, OfferRow, FollowupRow, OfferJob, FollowupJob
  <1>1. ASSUME NEW o \in Offer, CreateOffer(o)
        PROVE  PassTypeOK'
    BY <1>1 DEF CreateOffer
  <1>2. ASSUME NEW o \in Offer, PostOffer(o)
        PROVE  PassTypeOK'
    BY <1>2 DEF PostOffer
  <1>3. ASSUME NEW o \in Offer, SetMessageId(o)
        PROVE  PassTypeOK'
    BY <1>3 DEF SetMessageId
  <1>4. ASSUME NEW f \in Followup, ScheduleFollowup(f)
        PROVE  PassTypeOK'
    BY <1>4 DEF ScheduleFollowup
  <1>5. ASSUME NEW f \in Followup, WithdrawFollowup(f)
        PROVE  PassTypeOK'
    BY <1>5 DEF WithdrawFollowup
  <1>6. ASSUME NEW h \in Handler, NEW o \in Offer, NEW b \in {"accept", "decline"}, ButtonPress(h, o, b)
        PROVE  PassTypeOK'
    BY <1>6 DEF ButtonPress, Decision, Answerable, Goto
  <1>7. ASSUME NEW h \in Handler, NEW text \in Text, ReceiveText(h, text)
        PROVE  PassTypeOK'
    BY <1>7 DEF ReceiveText, Goto, Asked, Idle
  <1>8. ASSUME NEW h \in Handler, NEW f \in Followup, FollowupPress(h, f)
        PROVE  PassTypeOK'
    BY <1>8 DEF FollowupPress
  <1>9. ASSUME NEW h \in Handler, Write(h)
        PROVE  PassTypeOK'
    BY <1>9 DEF Write, Goto, Finish, Idle
  <1>10. ASSUME NEW h \in Handler, Settle(h)
        PROVE  PassTypeOK'
    BY <1>10 DEF Settle, Goto, Finish, Idle
  <1>11. ASSUME NEW h \in Handler, Edit(h)
        PROVE  PassTypeOK'
    BY <1>11 DEF Edit, Goto, Finish, Idle
  <1>12. ASSUME NEW h \in Handler, AnswerFollowup(h)
        PROVE  PassTypeOK'
    BY <1>12 DEF AnswerFollowup, Goto, Finish, Idle
  <1>13. ASSUME NEW h \in Handler, FindAwaiting(h)
        PROVE  PassTypeOK'
    BY <1>13 DEF FindAwaiting, Goto
  <1>14. ASSUME NEW h \in Handler, FindOpenOffer(h)
        PROVE  PassTypeOK'
    BY <1>14 DEF FindOpenOffer, Goto, Finish, Idle
  <1>15. ASSUME NEW h \in Handler, NoteTyped(h)
        PROVE  PassTypeOK'
    BY <1>15 DEF NoteTyped, Goto, Finish, Idle
  <1>16. CASE ReadOffers
    BY <1>16 DEF ReadOffers, Waiting, DueNudge
  <1>17. CASE SendNudge
    BY <1>17 DEF SendNudge
  <1>18. CASE MarkNudged
    BY <1>18 DEF MarkNudged, GivesUp
  <1>19. CASE FlagUnanswered
    BY <1>19 DEF FlagUnanswered
  <1>20. CASE ReadFollowups
    BY <1>20 DEF ReadFollowups, Waiting
  <1>21. CASE AskOutcome
    BY <1>21 DEF AskOutcome, AskedEnough, NextCount
  <1>22. CASE MarkAsked
    BY <1>22 DEF MarkAsked
  <1>23. CASE GiveUpFollowup
    BY <1>23 DEF GiveUpFollowup
  <1>24. CASE EndPass
    BY <1>24 DEF EndPass, Waiting
  <1>25. ASSUME NEW o \in Offer, PassThreshold(o)
        PROVE  PassTypeOK'
    BY <1>25 DEF PassThreshold
  <1>26. ASSUME NEW f \in Followup, ComeDue(f)
        PROVE  PassTypeOK'
    BY <1>26 DEF ComeDue
  <1>27. CASE Crash
    BY <1>27 DEF Crash, Idle, Waiting
  <1> HIDE DEF IInv, Types, TablesTypeOK, ChatTypeOK, PassTypeOK, QuestionsAreCounted, tables,
             clock, threads, chat, OfferRow, FollowupRow, OfferJob, FollowupJob
  <1> QED
    BY <1>1, <1>2, <1>3, <1>4, <1>5, <1>6, <1>7, <1>8, <1>9, <1>10, <1>11, <1>12, <1>13, <1>14,
       <1>15, <1>16, <1>17, <1>18, <1>19, <1>20, <1>21, <1>22, <1>23, <1>24, <1>25, <1>26, <1>27
       DEF Next, Agent, Technician, Webhook, Reminders, Time

\* Every step keeps the webhook's requests sound: a typed text is never empty, and
\* a request that goes on to decline has a reason with it.
LEMMA HandlersKept ==
    ASSUME TechChatAssumption, IInv, Next
    PROVE  HandlersTypeOK'
  <1>1. ASSUME NEW h \in Handler, NEW o \in Offer, NEW b \in {"accept", "decline"}, ButtonPress(h, o, b)
        PROVE  HandlersTypeOK'
    <2> DEFINE request == [at |-> "write", about |-> o, to |-> Decision(o, b),
                           text |-> offers[o].reason]
    <2>1. request \in Request /\ Sound(request)
      BY <1>1 DEF IInv, Types, TablesTypeOK, OfferRow, Request, Sound, Decision
    <2> QED
      BY <1>1, <2>1, RequestTaken DEF ButtonPress, IInv, Types
  <1>2. ASSUME NEW h \in Handler, NEW text \in Text, ReceiveText(h, text)
        PROVE  HandlersTypeOK'
    <2>1. text \in Text /\ text # NoText
      BY DEF TechChatAssumption
    <2>2. ASSUME NEW f \in Asked, Goto(h, [Idle EXCEPT !.at = "answer", !.about = f, !.text = text])
          PROVE  HandlersTypeOK'
      BY <2>1, <2>2, RequestTaken DEF Asked, Idle, Request, Sound, IInv, Types
    <2>3. ASSUME Goto(h, [Idle EXCEPT !.at = "reason", !.text = text])
          PROVE  HandlersTypeOK'
      BY <2>1, <2>3, RequestTaken DEF Idle, Request, Sound, IInv, Types
    <2> QED
      BY <1>2, <2>2, <2>3 DEF ReceiveText
  <1>3. ASSUME NEW h \in Handler, Write(h)
        PROVE  HandlersTypeOK'
    <2>1. CASE Finish(h)
      BY <2>1, RequestFinished DEF IInv, Types
    <2>2. CASE Goto(h, [handler[h] EXCEPT !.at = "settle"])
      <3>1. [handler[h] EXCEPT !.at = "settle"] \in Request /\ Sound([handler[h] EXCEPT !.at = "settle"])
        BY <1>3 DEF Write, IInv, Types, HandlersTypeOK, RequestsAreSound, Request, Sound
      <3> QED
        BY <2>2, <3>1, RequestTaken DEF IInv, Types
    <2> QED
      BY <1>3, <2>1, <2>2 DEF Write
  <1>4. ASSUME NEW h \in Handler, Settle(h)
        PROVE  HandlersTypeOK'
    <2>1. CASE Finish(h)
      BY <2>1, RequestFinished DEF IInv, Types
    <2>2. ASSUME NEW to \in Settled, Goto(h, [handler[h] EXCEPT !.at = "edit", !.to = to])
          PROVE  HandlersTypeOK'
      <3> DEFINE request == [handler[h] EXCEPT !.at = "edit", !.to = to]
      <3>1. request \in Request /\ Sound(request)
        BY <1>4 DEF Settle, IInv, Types, HandlersTypeOK, RequestsAreSound, Request, Sound, Settled
      <3> QED
        BY <2>2, <3>1, RequestTaken DEF IInv, Types
    <2> QED
      BY <1>4, <2>1, <2>2 DEF Settle, Settled
  <1>5. ASSUME NEW h \in Handler, Edit(h)
        PROVE  HandlersTypeOK'
    BY <1>5, RequestFinished DEF Edit, IInv, Types
  <1>6. ASSUME NEW h \in Handler, AnswerFollowup(h)
        PROVE  HandlersTypeOK'
    BY <1>6, RequestFinished DEF AnswerFollowup, IInv, Types
  <1>7. ASSUME NEW h \in Handler, FindAwaiting(h)
        PROVE  HandlersTypeOK'
    <2>1. ASSUME NEW o \in Offer,
                 Goto(h, [handler[h] EXCEPT !.at = "write", !.about = o, !.to = "declined"])
          PROVE  HandlersTypeOK'
      <3> DEFINE request == [handler[h] EXCEPT !.at = "write", !.about = o, !.to = "declined"]
      <3>1. request \in Request /\ Sound(request)
        BY <1>7 DEF FindAwaiting, IInv, Types, HandlersTypeOK, RequestsAreSound, Request, Sound
      <3> QED
        BY <2>1, <3>1, RequestTaken DEF IInv, Types
    <2>2. CASE Goto(h, [handler[h] EXCEPT !.at = "open"])
      <3> DEFINE request == [handler[h] EXCEPT !.at = "open"]
      <3>1. request \in Request /\ Sound(request)
        BY <1>7 DEF FindAwaiting, IInv, Types, HandlersTypeOK, RequestsAreSound, Request, Sound
      <3> QED
        BY <2>2, <3>1, RequestTaken DEF IInv, Types
    <2> QED
      BY <1>7, <2>1, <2>2 DEF FindAwaiting
  <1>8. ASSUME NEW h \in Handler, FindOpenOffer(h)
        PROVE  HandlersTypeOK'
    <2>1. CASE Finish(h)
      BY <2>1, RequestFinished DEF IInv, Types
    <2>2. ASSUME NEW o \in Offer, Goto(h, [handler[h] EXCEPT !.at = "note", !.about = o])
          PROVE  HandlersTypeOK'
      <3> DEFINE request == [handler[h] EXCEPT !.at = "note", !.about = o]
      <3>1. request \in Request /\ Sound(request)
        BY <1>8 DEF FindOpenOffer, IInv, Types, HandlersTypeOK, RequestsAreSound, Request, Sound
      <3> QED
        BY <2>2, <3>1, RequestTaken DEF IInv, Types
    <2> QED
      BY <1>8, <2>1, <2>2 DEF FindOpenOffer
  <1>9. ASSUME NEW h \in Handler, NoteTyped(h)
        PROVE  HandlersTypeOK'
    BY <1>9, RequestFinished DEF NoteTyped, IInv, Types
  <1>10. CASE Crash
    BY <1>10 DEF Crash, Idle, Request, Sound, IInv, Types, HandlersTypeOK, RequestsAreSound
  <1>11. CASE UNCHANGED handler
    BY <1>11 DEF IInv, Types, HandlersTypeOK, RequestsAreSound
  <1> QED
    BY <1>1, <1>2, <1>3, <1>4, <1>5, <1>6, <1>7, <1>8, <1>9, <1>10, <1>11
       DEF Next, Agent, Technician, Webhook, Reminders, Time, tables, clock, threads, chat,
           CreateOffer, PostOffer, SetMessageId, ScheduleFollowup, WithdrawFollowup,
           FollowupPress, ReadOffers, SendNudge, MarkNudged, FlagUnanswered, ReadFollowups,
           AskOutcome, MarkAsked, GiveUpFollowup, EndPass, PassThreshold, ComeDue

\* A request that moves on to write about an offer that was made, changing no
\* offer nobody made yet, keeps unmade offers untouched.
LEMMA RequestForMade ==
    ASSUME HandlersTypeOK, NotYetMade, NEW h \in Handler, NEW request, Goto(h, request),
           request.at \in {"write", "note"} => sending[request.about] # "no",
           \A o \in Offer : sending[o] = "no" => offers'[o] = offers[o],
           UNCHANGED <<sending, reminder>>
    PROVE  NotYetMade'
  <1> SUFFICES ASSUME NEW o \in Offer, sending[o] = "no", NEW g \in Handler,
                      handler'[g].at \in {"write", "note"}
               PROVE  handler'[g].about # o
    BY DEF NotYetMade
  <1>1. handler'[g] = IF g = h THEN request ELSE handler[g]
    BY DEF HandlersTypeOK, Goto
  <1> QED
    BY <1>1 DEF NotYetMade

\* Every step leaves an offer nobody has made yet out of every request and pass.
LEMMA MadeKept ==
    ASSUME TechChatAssumption, IInv, Next
    PROVE  NotYetMade'
  <1> USE DEF IInv, Types, TablesTypeOK, ChatTypeOK, HandlersTypeOK, PassTypeOK, tables, clock,
             threads, chat, OfferRow, FollowupRow, OfferJob, FollowupJob, Open, NotYetMade,
             NoOffer, Request, RequestsAreSound, Sound
  <1>1. ASSUME NEW o \in Offer, CreateOffer(o)
        PROVE  NotYetMade'
    BY <1>1 DEF CreateOffer
  <1>2. ASSUME NEW o \in Offer, PostOffer(o)
        PROVE  NotYetMade'
    BY <1>2 DEF PostOffer
  <1>3. ASSUME NEW o \in Offer, SetMessageId(o)
        PROVE  NotYetMade'
    BY <1>3 DEF SetMessageId
  <1>4. ASSUME NEW f \in Followup, ScheduleFollowup(f)
        PROVE  NotYetMade'
    BY <1>4 DEF ScheduleFollowup
  <1>5. ASSUME NEW f \in Followup, WithdrawFollowup(f)
        PROVE  NotYetMade'
    BY <1>5 DEF WithdrawFollowup
  <1>6. ASSUME NEW h \in Handler, NEW o \in Offer, NEW b \in {"accept", "decline"}, ButtonPress(h, o, b)
        PROVE  NotYetMade'
    BY <1>6 DEF ButtonPress, Decision, Answerable, Goto
  <1>7. ASSUME NEW h \in Handler, NEW text \in Text, ReceiveText(h, text)
        PROVE  NotYetMade'
    <2>1. ASSUME NEW f \in Asked, Goto(h, [Idle EXCEPT !.at = "answer", !.about = f, !.text = text])
          PROVE  NotYetMade'
      BY <1>7, <2>1, RequestForMade DEF ReceiveText, Idle
    <2>2. ASSUME Goto(h, [Idle EXCEPT !.at = "reason", !.text = text])
          PROVE  NotYetMade'
      BY <1>7, <2>2, RequestForMade DEF ReceiveText, Idle
    <2> QED
      BY <1>7, <2>1, <2>2 DEF ReceiveText
  <1>8. ASSUME NEW h \in Handler, NEW f \in Followup, FollowupPress(h, f)
        PROVE  NotYetMade'
    BY <1>8 DEF FollowupPress
  <1>9. ASSUME NEW h \in Handler, Write(h)
        PROVE  NotYetMade'
    <2>1. \A o \in Offer : sending[o] = "no" => offers'[o] = offers[o]
      BY <1>9 DEF Write
    <2>2. CASE Finish(h)
      BY <1>9, <2>1, <2>2, RequestForMade DEF Write, Finish, Idle
    <2>3. CASE Goto(h, [handler[h] EXCEPT !.at = "settle"])
      BY <1>9, <2>1, <2>3, RequestForMade DEF Write
    <2> QED
      BY <1>9, <2>2, <2>3 DEF Write
  <1>10. ASSUME NEW h \in Handler, Settle(h)
        PROVE  NotYetMade'
    <2>1. CASE Finish(h)
      BY <1>10, <2>1, RequestForMade DEF Settle, Finish, Idle
    <2>2. ASSUME NEW to \in Settled, Goto(h, [handler[h] EXCEPT !.at = "edit", !.to = to])
          PROVE  NotYetMade'
      BY <1>10, <2>2, RequestForMade DEF Settle
    <2> QED
      BY <1>10, <2>1, <2>2 DEF Settle, Settled
  <1>11. ASSUME NEW h \in Handler, Edit(h)
        PROVE  NotYetMade'
    BY <1>11 DEF Edit, Goto, Finish, Idle
  <1>12. ASSUME NEW h \in Handler, AnswerFollowup(h)
        PROVE  NotYetMade'
    BY <1>12 DEF AnswerFollowup, Goto, Finish, Idle
  <1>13. ASSUME NEW h \in Handler, FindAwaiting(h)
        PROVE  NotYetMade'
    <2>1. ASSUME NEW o \in Offer, offers[o].state = "awaiting_reason",
                 Goto(h, [handler[h] EXCEPT !.at = "write", !.about = o, !.to = "declined"])
          PROVE  NotYetMade'
      <3> DEFINE request == [handler[h] EXCEPT !.at = "write", !.about = o, !.to = "declined"]
      <3>1. sending[o] # "no"
        BY <2>1
      <3>2. request.about = o
        BY DEF Request
      <3>3. Goto(h, request) /\ UNCHANGED <<offers, sending, reminder>>
        BY <1>13, <2>1 DEF FindAwaiting
      <3> HIDE DEF request
      <3> QED
        BY <3>1, <3>2, <3>3, RequestForMade
    <2>2. CASE Goto(h, [handler[h] EXCEPT !.at = "open"])
      BY <1>13, <2>2, RequestForMade DEF FindAwaiting
    <2> QED
      BY <1>13, <2>1, <2>2 DEF FindAwaiting
  <1>14. ASSUME NEW h \in Handler, FindOpenOffer(h)
        PROVE  NotYetMade'
    <2>1. CASE Finish(h)
      BY <1>14, <2>1, RequestForMade DEF FindOpenOffer, Finish, Idle
    <2>2. ASSUME NEW o \in Offer, offers[o].state = "sent",
                 Goto(h, [handler[h] EXCEPT !.at = "note", !.about = o])
          PROVE  NotYetMade'
      <3> DEFINE request == [handler[h] EXCEPT !.at = "note", !.about = o]
      <3>1. sending[o] # "no"
        BY <2>2
      <3>2. request.about = o
        BY DEF Request
      <3>3. Goto(h, request) /\ UNCHANGED <<offers, sending, reminder>>
        BY <1>14, <2>2 DEF FindOpenOffer
      <3> HIDE DEF request
      <3> QED
        BY <3>1, <3>2, <3>3, RequestForMade
    <2> QED
      BY <1>14, <2>1, <2>2 DEF FindOpenOffer
  <1>15. ASSUME NEW h \in Handler, NoteTyped(h)
        PROVE  NotYetMade'
    BY <1>15 DEF NoteTyped, Goto, Finish, Idle
  <1>16. CASE ReadOffers
    BY <1>16 DEF ReadOffers, Waiting, DueNudge
  <1>17. CASE SendNudge
    BY <1>17 DEF SendNudge
  <1>18. CASE MarkNudged
    BY <1>18 DEF MarkNudged, GivesUp
  <1>19. CASE FlagUnanswered
    BY <1>19 DEF FlagUnanswered
  <1>20. CASE ReadFollowups
    BY <1>20 DEF ReadFollowups, Waiting
  <1>21. CASE AskOutcome
    BY <1>21 DEF AskOutcome, AskedEnough, NextCount
  <1>22. CASE MarkAsked
    BY <1>22 DEF MarkAsked
  <1>23. CASE GiveUpFollowup
    BY <1>23 DEF GiveUpFollowup
  <1>24. CASE EndPass
    BY <1>24 DEF EndPass, Waiting
  <1>25. ASSUME NEW o \in Offer, PassThreshold(o)
        PROVE  NotYetMade'
    BY <1>25 DEF PassThreshold
  <1>26. ASSUME NEW f \in Followup, ComeDue(f)
        PROVE  NotYetMade'
    BY <1>26 DEF ComeDue
  <1>27. CASE Crash
    BY <1>27 DEF Crash, Idle, Waiting
  <1> HIDE DEF IInv, Types, TablesTypeOK, ChatTypeOK, HandlersTypeOK, PassTypeOK, tables, clock,
             threads, chat, OfferRow, FollowupRow, OfferJob, FollowupJob, Open, NotYetMade,
             NoOffer, Request, RequestsAreSound, Sound
  <1> QED
    BY <1>1, <1>2, <1>3, <1>4, <1>5, <1>6, <1>7, <1>8, <1>9, <1>10, <1>11, <1>12, <1>13, <1>14,
       <1>15, <1>16, <1>17, <1>18, <1>19, <1>20, <1>21, <1>22, <1>23, <1>24, <1>25, <1>26, <1>27
       DEF Next, Agent, Technician, Webhook, Reminders, Time

\* Every step keeps the count of nudges: sent first, counted in the row afterwards
\* (reminders.py), and a pass never works on two numbers for one offer.
LEMMA NudgesKept ==
    ASSUME TechChatAssumption, IInv, Next
    PROVE  NudgesAreCounted'
  <1> USE DEF IInv, Types, TablesTypeOK, ChatTypeOK, HandlersTypeOK, PassTypeOK, tables, clock,
             threads, chat, OfferRow, FollowupRow, OfferJob, FollowupJob, Open,
             NudgesAreCounted, NotYetMade, NoOffer
  <1>1. ASSUME NEW o \in Offer, CreateOffer(o)
        PROVE  NudgesAreCounted'
    BY <1>1 DEF CreateOffer
  <1>2. ASSUME NEW o \in Offer, PostOffer(o)
        PROVE  NudgesAreCounted'
    BY <1>2 DEF PostOffer
  <1>3. ASSUME NEW o \in Offer, SetMessageId(o)
        PROVE  NudgesAreCounted'
    BY <1>3 DEF SetMessageId
  <1>4. ASSUME NEW f \in Followup, ScheduleFollowup(f)
        PROVE  NudgesAreCounted'
    BY <1>4 DEF ScheduleFollowup
  <1>5. ASSUME NEW f \in Followup, WithdrawFollowup(f)
        PROVE  NudgesAreCounted'
    BY <1>5 DEF WithdrawFollowup
  <1>6. ASSUME NEW h \in Handler, NEW o \in Offer, NEW b \in {"accept", "decline"}, ButtonPress(h, o, b)
        PROVE  NudgesAreCounted'
    BY <1>6 DEF ButtonPress, Decision, Answerable, Goto
  <1>7. ASSUME NEW h \in Handler, NEW text \in Text, ReceiveText(h, text)
        PROVE  NudgesAreCounted'
    BY <1>7 DEF ReceiveText, Goto, Asked, Idle
  <1>8. ASSUME NEW h \in Handler, NEW f \in Followup, FollowupPress(h, f)
        PROVE  NudgesAreCounted'
    BY <1>8 DEF FollowupPress
  <1>9. ASSUME NEW h \in Handler, Write(h)
        PROVE  NudgesAreCounted'
    BY <1>9 DEF Write, Goto, Finish, Idle
  <1>10. ASSUME NEW h \in Handler, Settle(h)
        PROVE  NudgesAreCounted'
    BY <1>10 DEF Settle, Goto, Finish, Idle
  <1>11. ASSUME NEW h \in Handler, Edit(h)
        PROVE  NudgesAreCounted'
    BY <1>11 DEF Edit, Goto, Finish, Idle
  <1>12. ASSUME NEW h \in Handler, AnswerFollowup(h)
        PROVE  NudgesAreCounted'
    BY <1>12 DEF AnswerFollowup, Goto, Finish, Idle
  <1>13. ASSUME NEW h \in Handler, FindAwaiting(h)
        PROVE  NudgesAreCounted'
    BY <1>13 DEF FindAwaiting, Goto
  <1>14. ASSUME NEW h \in Handler, FindOpenOffer(h)
        PROVE  NudgesAreCounted'
    BY <1>14 DEF FindOpenOffer, Goto, Finish, Idle
  <1>15. ASSUME NEW h \in Handler, NoteTyped(h)
        PROVE  NudgesAreCounted'
    BY <1>15 DEF NoteTyped, Goto, Finish, Idle
  <1>16. CASE ReadOffers
    BY <1>16 DEF ReadOffers, Waiting, DueNudge
  <1>17. CASE SendNudge
    BY <1>17 DEF SendNudge
  <1>18. CASE MarkNudged
    BY <1>18 DEF MarkNudged, GivesUp
  <1>19. CASE FlagUnanswered
    BY <1>19 DEF FlagUnanswered
  <1>20. CASE ReadFollowups
    BY <1>20 DEF ReadFollowups, Waiting
  <1>21. CASE AskOutcome
    BY <1>21 DEF AskOutcome, AskedEnough, NextCount
  <1>22. CASE MarkAsked
    BY <1>22 DEF MarkAsked
  <1>23. CASE GiveUpFollowup
    BY <1>23 DEF GiveUpFollowup
  <1>24. CASE EndPass
    BY <1>24 DEF EndPass, Waiting
  <1>25. ASSUME NEW o \in Offer, PassThreshold(o)
        PROVE  NudgesAreCounted'
    BY <1>25 DEF PassThreshold
  <1>26. ASSUME NEW f \in Followup, ComeDue(f)
        PROVE  NudgesAreCounted'
    BY <1>26 DEF ComeDue
  <1>27. CASE Crash
    BY <1>27 DEF Crash, Idle, Waiting
  <1> HIDE DEF IInv, Types, TablesTypeOK, ChatTypeOK, HandlersTypeOK, PassTypeOK, tables, clock,
             threads, chat, OfferRow, FollowupRow, OfferJob, FollowupJob, Open,
             NudgesAreCounted, NotYetMade, NoOffer
  <1> QED
    BY <1>1, <1>2, <1>3, <1>4, <1>5, <1>6, <1>7, <1>8, <1>9, <1>10, <1>11, <1>12, <1>13, <1>14,
       <1>15, <1>16, <1>17, <1>18, <1>19, <1>20, <1>21, <1>22, <1>23, <1>24, <1>25, <1>26, <1>27
       DEF Next, Agent, Technician, Webhook, Reminders, Time

\* Every step keeps the count of questions: asked first, counted afterwards, and
\* only the reminder thread writes the count.
LEMMA QuestionsKept ==
    ASSUME TechChatAssumption, IInv, Next
    PROVE  QuestionsAreCounted'
  <1> USE DEF IInv, Types, TablesTypeOK, ChatTypeOK, HandlersTypeOK, PassTypeOK, tables, clock,
             threads, chat, OfferRow, FollowupRow, OfferJob, FollowupJob, Open,
             QuestionsAreCounted
  <1>1. ASSUME NEW o \in Offer, CreateOffer(o)
        PROVE  QuestionsAreCounted'
    BY <1>1 DEF CreateOffer
  <1>2. ASSUME NEW o \in Offer, PostOffer(o)
        PROVE  QuestionsAreCounted'
    BY <1>2 DEF PostOffer
  <1>3. ASSUME NEW o \in Offer, SetMessageId(o)
        PROVE  QuestionsAreCounted'
    BY <1>3 DEF SetMessageId
  <1>4. ASSUME NEW f \in Followup, ScheduleFollowup(f)
        PROVE  QuestionsAreCounted'
    BY <1>4 DEF ScheduleFollowup
  <1>5. ASSUME NEW f \in Followup, WithdrawFollowup(f)
        PROVE  QuestionsAreCounted'
    BY <1>5 DEF WithdrawFollowup
  <1>6. ASSUME NEW h \in Handler, NEW o \in Offer, NEW b \in {"accept", "decline"}, ButtonPress(h, o, b)
        PROVE  QuestionsAreCounted'
    BY <1>6 DEF ButtonPress, Decision, Answerable, Goto
  <1>7. ASSUME NEW h \in Handler, NEW text \in Text, ReceiveText(h, text)
        PROVE  QuestionsAreCounted'
    BY <1>7 DEF ReceiveText, Goto, Asked, Idle
  <1>8. ASSUME NEW h \in Handler, NEW f \in Followup, FollowupPress(h, f)
        PROVE  QuestionsAreCounted'
    BY <1>8 DEF FollowupPress
  <1>9. ASSUME NEW h \in Handler, Write(h)
        PROVE  QuestionsAreCounted'
    BY <1>9 DEF Write, Goto, Finish, Idle
  <1>10. ASSUME NEW h \in Handler, Settle(h)
        PROVE  QuestionsAreCounted'
    BY <1>10 DEF Settle, Goto, Finish, Idle
  <1>11. ASSUME NEW h \in Handler, Edit(h)
        PROVE  QuestionsAreCounted'
    BY <1>11 DEF Edit, Goto, Finish, Idle
  <1>12. ASSUME NEW h \in Handler, AnswerFollowup(h)
        PROVE  QuestionsAreCounted'
    BY <1>12 DEF AnswerFollowup, Goto, Finish, Idle
  <1>13. ASSUME NEW h \in Handler, FindAwaiting(h)
        PROVE  QuestionsAreCounted'
    BY <1>13 DEF FindAwaiting, Goto
  <1>14. ASSUME NEW h \in Handler, FindOpenOffer(h)
        PROVE  QuestionsAreCounted'
    BY <1>14 DEF FindOpenOffer, Goto, Finish, Idle
  <1>15. ASSUME NEW h \in Handler, NoteTyped(h)
        PROVE  QuestionsAreCounted'
    BY <1>15 DEF NoteTyped, Goto, Finish, Idle
  <1>16. CASE ReadOffers
    BY <1>16 DEF ReadOffers, Waiting, DueNudge
  <1>17. CASE SendNudge
    BY <1>17 DEF SendNudge
  <1>18. CASE MarkNudged
    BY <1>18 DEF MarkNudged, GivesUp
  <1>19. CASE FlagUnanswered
    BY <1>19 DEF FlagUnanswered
  <1>20. CASE ReadFollowups
    BY <1>20 DEF ReadFollowups, Waiting
  <1>21. CASE AskOutcome
    BY <1>21 DEF AskOutcome, AskedEnough, NextCount
  <1>22. CASE MarkAsked
    BY <1>22 DEF MarkAsked
  <1>23. CASE GiveUpFollowup
    BY <1>23 DEF GiveUpFollowup
  <1>24. CASE EndPass
    BY <1>24 DEF EndPass, Waiting
  <1>25. ASSUME NEW o \in Offer, PassThreshold(o)
        PROVE  QuestionsAreCounted'
    BY <1>25 DEF PassThreshold
  <1>26. ASSUME NEW f \in Followup, ComeDue(f)
        PROVE  QuestionsAreCounted'
    BY <1>26 DEF ComeDue
  <1>27. CASE Crash
    <2>1. ASSUME NEW f \in Followup
          PROVE  questions[f] <= followups[f].asked + crashes + 1
      <3>1. questions[f] \in Nat /\ followups[f].asked \in Nat /\ crashes \in Nat
        BY TechChatAssumption DEF TechChatAssumption, MaxAsked
      <3>2. CASE reminder.at = "asked" /\ reminder.about = f
        BY <3>1, <3>2
      <3>3. CASE ~(reminder.at = "asked" /\ reminder.about = f)
        BY <3>1, <3>3
      <3> QED
        BY <3>2, <3>3
    <2>2. reminder' = Waiting /\ crashes' = crashes + 1 /\ UNCHANGED <<followups, questions>>
      BY <1>27 DEF Crash
    <2>3. ASSUME NEW f \in Followup
          PROVE  questions'[f] <= followups'[f].asked + crashes' + 0
      <3>1. questions[f] \in Nat /\ followups[f].asked \in Nat /\ crashes \in Nat
        BY TechChatAssumption DEF TechChatAssumption, MaxAsked
      <3> QED
        BY <2>1, <2>2, <3>1
    <2> QED
      BY <2>2, <2>3 DEF Waiting
  <1> HIDE DEF IInv, Types, TablesTypeOK, ChatTypeOK, HandlersTypeOK, PassTypeOK, tables, clock,
             threads, chat, OfferRow, FollowupRow, OfferJob, FollowupJob, Open,
             QuestionsAreCounted
  <1> QED
    BY <1>1, <1>2, <1>3, <1>4, <1>5, <1>6, <1>7, <1>8, <1>9, <1>10, <1>11, <1>12, <1>13, <1>14,
       <1>15, <1>16, <1>17, <1>18, <1>19, <1>20, <1>21, <1>22, <1>23, <1>24, <1>25, <1>26, <1>27
       DEF Next, Agent, Technician, Webhook, Reminders, Time

\* Every step keeps the reason of a declined offer: the one UPDATE that declines
\* writes the reason the request carries, and no step takes a reason away.
LEMMA ReasonsKept ==
    ASSUME TechChatAssumption, IInv, Next
    PROVE  DeclinedHasReason'
  <1> USE DEF IInv, Types, TablesTypeOK, HandlersTypeOK, RequestsAreSound, Sound,
             DeclinedHasReason, tables, clock, threads, chat, OfferRow, NoOffer
  <1>1. ASSUME NEW o \in Offer, CreateOffer(o)
        PROVE  DeclinedHasReason'
    BY <1>1 DEF CreateOffer
  <1>2. ASSUME NEW o \in Offer, PostOffer(o)
        PROVE  DeclinedHasReason'
    BY <1>2 DEF PostOffer
  <1>3. ASSUME NEW o \in Offer, SetMessageId(o)
        PROVE  DeclinedHasReason'
    BY <1>3 DEF SetMessageId
  <1>4. ASSUME NEW f \in Followup, ScheduleFollowup(f)
        PROVE  DeclinedHasReason'
    BY <1>4 DEF ScheduleFollowup
  <1>5. ASSUME NEW f \in Followup, WithdrawFollowup(f)
        PROVE  DeclinedHasReason'
    BY <1>5 DEF WithdrawFollowup
  <1>6. ASSUME NEW h \in Handler, NEW o \in Offer, NEW b \in {"accept", "decline"}, ButtonPress(h, o, b)
        PROVE  DeclinedHasReason'
    BY <1>6 DEF ButtonPress, Decision, Answerable, Goto
  <1>7. ASSUME NEW h \in Handler, NEW text \in Text, ReceiveText(h, text)
        PROVE  DeclinedHasReason'
    BY <1>7 DEF ReceiveText, Goto, Asked, Idle
  <1>8. ASSUME NEW h \in Handler, NEW f \in Followup, FollowupPress(h, f)
        PROVE  DeclinedHasReason'
    BY <1>8 DEF FollowupPress
  <1>9. ASSUME NEW h \in Handler, Write(h)
        PROVE  DeclinedHasReason'
    BY <1>9 DEF Write, Goto, Finish, Idle
  <1>10. ASSUME NEW h \in Handler, Settle(h)
        PROVE  DeclinedHasReason'
    BY <1>10 DEF Settle, Goto, Finish, Idle
  <1>11. ASSUME NEW h \in Handler, Edit(h)
        PROVE  DeclinedHasReason'
    BY <1>11 DEF Edit, Goto, Finish, Idle
  <1>12. ASSUME NEW h \in Handler, AnswerFollowup(h)
        PROVE  DeclinedHasReason'
    BY <1>12 DEF AnswerFollowup, Goto, Finish, Idle
  <1>13. ASSUME NEW h \in Handler, FindAwaiting(h)
        PROVE  DeclinedHasReason'
    BY <1>13 DEF FindAwaiting, Goto
  <1>14. ASSUME NEW h \in Handler, FindOpenOffer(h)
        PROVE  DeclinedHasReason'
    BY <1>14 DEF FindOpenOffer, Goto, Finish, Idle
  <1>15. ASSUME NEW h \in Handler, NoteTyped(h)
        PROVE  DeclinedHasReason'
    BY <1>15 DEF NoteTyped, Goto, Finish, Idle
  <1>16. CASE ReadOffers
    BY <1>16 DEF ReadOffers, Waiting, DueNudge
  <1>17. CASE SendNudge
    BY <1>17 DEF SendNudge
  <1>18. CASE MarkNudged
    BY <1>18 DEF MarkNudged, GivesUp
  <1>19. CASE FlagUnanswered
    BY <1>19 DEF FlagUnanswered
  <1>20. CASE ReadFollowups
    BY <1>20 DEF ReadFollowups, Waiting
  <1>21. CASE AskOutcome
    BY <1>21 DEF AskOutcome, AskedEnough, NextCount
  <1>22. CASE MarkAsked
    BY <1>22 DEF MarkAsked
  <1>23. CASE GiveUpFollowup
    BY <1>23 DEF GiveUpFollowup
  <1>24. CASE EndPass
    BY <1>24 DEF EndPass, Waiting
  <1>25. ASSUME NEW o \in Offer, PassThreshold(o)
        PROVE  DeclinedHasReason'
    BY <1>25 DEF PassThreshold
  <1>26. ASSUME NEW f \in Followup, ComeDue(f)
        PROVE  DeclinedHasReason'
    BY <1>26 DEF ComeDue
  <1>27. CASE Crash
    BY <1>27 DEF Crash, Idle, Waiting
  <1> HIDE DEF IInv, Types, TablesTypeOK, HandlersTypeOK, RequestsAreSound, Sound,
             DeclinedHasReason, tables, clock, threads, chat, OfferRow, NoOffer
  <1> QED
    BY <1>1, <1>2, <1>3, <1>4, <1>5, <1>6, <1>7, <1>8, <1>9, <1>10, <1>11, <1>12, <1>13, <1>14,
       <1>15, <1>16, <1>17, <1>18, <1>19, <1>20, <1>21, <1>22, <1>23, <1>24, <1>25, <1>26, <1>27
       DEF Next, Agent, Technician, Webhook, Reminders, Time

-----------------------------------------------------------------------------
(* However many requests are in progress *)

\* The inductive invariant holds in every reachable state.
LEMMA Invariant == Spec => []IInv
  <1>1. ASSUME Init PROVE IInv
    <2>1. TablesTypeOK /\ DeclinedHasReason
      BY <1>1, TechChatAssumption DEF Init, TechChatAssumption, TablesTypeOK, OfferRow, OfferState,
         FollowupRow, NoOffer, NoFollowup, DeclinedHasReason
    <2>2. ChatTypeOK
      BY <1>1, TechChatAssumption DEF Init, TechChatAssumption, ChatTypeOK, MaxAsked
    <2>3. HandlersTypeOK
      BY <1>1 DEF Init, HandlersTypeOK, RequestsAreSound, Sound, Request, Idle
    <2>4. PassTypeOK
      BY <1>1 DEF Init, PassTypeOK, Waiting
    <2>5. NotYetMade
      BY <1>1 DEF Init, NotYetMade, NoOffer, Idle, Waiting
    <2>6. NudgesAreCounted
      BY <1>1 DEF Init, NudgesAreCounted, NoOffer, Waiting
    <2>7. QuestionsAreCounted
      BY <1>1 DEF Init, QuestionsAreCounted, NoFollowup, Waiting
    <2> QED
      BY <2>1, <2>2, <2>3, <2>4, <2>5, <2>6, <2>7 DEF IInv, Types
  <1>2. ASSUME IInv, [Next]_vars PROVE IInv'
    <2>1. CASE Next
      BY <1>2, <2>1, TechChatAssumption, TablesTypesKept, ChatTypesKept, PassTypesKept,
         HandlersKept, MadeKept, NudgesKept, QuestionsKept, ReasonsKept DEF IInv, Types
    <2>2. CASE UNCHANGED vars
      BY <1>2, <2>2 DEF vars, tables, clock, threads, chat, IInv, Types, TablesTypeOK, ChatTypeOK,
         HandlersTypeOK, RequestsAreSound, PassTypeOK, NotYetMade, NudgesAreCounted,
         QuestionsAreCounted, DeclinedHasReason
    <2> QED
      BY <1>2, <2>1, <2>2
  <1> QED
    BY <1>1, <1>2, PTL DEF Spec

\* Every variable of the technician's chat keeps its type.
THEOREM TypeCorrect == Spec => []TypeOK
  <1>1. ASSUME IInv PROVE TypeOK
    BY <1>1 DEF IInv, Types, TablesTypeOK, ChatTypeOK, HandlersTypeOK, PassTypeOK, TypeOK
  <1> QED
    BY <1>1, Invariant, PTL

\* However presses, typed texts, reminders and restarts interleave, a declined job
\* has a reason on record (offers.py:15), for any number of requests at once.
THEOREM DeclinesHaveReasons == Spec => []DeclinedHasReason
  <1>1. IInv => DeclinedHasReason
    BY DEF IInv
  <1> QED
    BY <1>1, Invariant, PTL

\* A nudge goes out once per number and the day-after question at most twice, but
\* for one more of each that a restart may lose the count of (reminders.py:96, :114,
\* :142), for any number of offers, questions, thresholds and restarts.
THEOREM NothingSentTwice == Spec => []NothingIsSentAgain
  <1>1. ASSUME IInv PROVE NothingIsSentAgain
    <2>1. ASSUME NEW o \in Offer PROVE nudges[o].count <= nudges[o].last + crashes
      <3>1. /\ nudges[o].count \in Nat /\ nudges[o].last \in Nat
            /\ offers[o].reminders \in Nat /\ crashes \in Nat /\ Thresholds \in Nat
        BY <1>1, TechChatAssumption
           DEF TechChatAssumption, IInv, Types, TablesTypeOK, ChatTypeOK, OfferRow
      <3>2. CASE reminder.at = "mark" /\ reminder.about = o
        <4>1. nudges[o].count <= offers[o].reminders + crashes + 1
          BY <1>1, <3>2 DEF IInv, NudgesAreCounted
        <4>2. nudges[o].last > offers[o].reminders
          BY <1>1, <3>2 DEF IInv, NudgesAreCounted
        <4> QED
          BY <3>1, <4>1, <4>2
      <3>3. CASE ~(reminder.at = "mark" /\ reminder.about = o)
        <4>1. nudges[o].count <= offers[o].reminders + crashes + 0
          BY <1>1, <3>3 DEF IInv, NudgesAreCounted
        <4>2. offers[o].reminders <= nudges[o].last
          BY <1>1 DEF IInv, NudgesAreCounted
        <4> QED
          BY <3>1, <4>1, <4>2
      <3> QED
        BY <3>2, <3>3
    <2>2. ASSUME NEW f \in Followup PROVE questions[f] <= 2 + crashes
      <3>1. followups[f].asked \in 0 .. 2 /\ crashes \in Nat /\ questions[f] \in Nat
        BY <1>1, TechChatAssumption
           DEF TechChatAssumption, MaxAsked, IInv, Types, TablesTypeOK, ChatTypeOK, FollowupRow
      <3>2. CASE reminder.at = "asked" /\ reminder.about = f
        <4>1. questions[f] <= followups[f].asked + crashes + 1
          BY <1>1, <3>2 DEF IInv, QuestionsAreCounted
        <4>2. followups[f].asked + 1 \in 1 .. 2
          BY <1>1, <3>2 DEF IInv, Types, PassTypeOK, QuestionsAreCounted
        <4> QED
          BY <3>1, <4>1, <4>2
      <3>3. CASE ~(reminder.at = "asked" /\ reminder.about = f)
        <4>1. questions[f] <= followups[f].asked + crashes + 0
          BY <1>1, <3>3 DEF IInv, QuestionsAreCounted
        <4> QED
          BY <3>1, <4>1
      <3> QED
        BY <3>2, <3>3
    <2> QED
      BY <2>1, <2>2 DEF NothingIsSentAgain
  <1> QED
    BY <1>1, Invariant, PTL

-----------------------------------------------------------------------------
(* One request at a time *)

OneAtATime == \A g, h \in Handler : g = h

\* A decision is written while the offer is open; what is read back and shown is
\* what was decided.
RequestsAreFresh ==
    \A h \in Handler :
        /\ handler[h].at = "write" => offers[handler[h].about].state \in Open
        /\ handler[h].at \in {"settle", "edit"} =>
               /\ handler[h].to \in Settled
               /\ offers[handler[h].about].state = handler[h].to

FreshInv == RequestsAreFresh /\ ScreenIsTrue

\* With one request at a time, a request that moves on in step with its offer
\* leaves no other request behind that is out of step.
LEMMA RequestIsFresh ==
    ASSUME OneAtATime, HandlersTypeOK, NEW h \in Handler, NEW request, Goto(h, request),
           request.at = "write" => offers'[request.about].state \in Open,
           request.at \in {"settle", "edit"} =>
               request.to \in Settled /\ offers'[request.about].state = request.to
    PROVE  RequestsAreFresh'
  <1> SUFFICES ASSUME NEW g \in Handler PROVE handler'[g] = request
    BY DEF RequestsAreFresh
  <1> QED
    BY DEF OneAtATime, HandlersTypeOK, Goto

\* With one request at a time every step keeps the request in step with its offer:
\* nothing but a request changes an offer's answer once it was made.
LEMMA FreshKept ==
    ASSUME OneAtATime, IInv, FreshInv, Next
    PROVE  RequestsAreFresh'
  <1> USE DEF IInv, Types, TablesTypeOK, ChatTypeOK, HandlersTypeOK, RequestsAreSound, Sound,
             NotYetMade, OneAtATime, FreshInv, RequestsAreFresh, ScreenIsTrue, tables, clock,
             threads, chat, OfferRow, Open, Settled, NoOffer, PassTypeOK, Request
  <1>1. ASSUME NEW o \in Offer, CreateOffer(o)
        PROVE  RequestsAreFresh'
    BY <1>1 DEF CreateOffer
  <1>2. ASSUME NEW o \in Offer, PostOffer(o)
        PROVE  RequestsAreFresh'
    BY <1>2 DEF PostOffer
  <1>3. ASSUME NEW o \in Offer, SetMessageId(o)
        PROVE  RequestsAreFresh'
    BY <1>3 DEF SetMessageId
  <1>4. ASSUME NEW f \in Followup, ScheduleFollowup(f)
        PROVE  RequestsAreFresh'
    BY <1>4 DEF ScheduleFollowup
  <1>5. ASSUME NEW f \in Followup, WithdrawFollowup(f)
        PROVE  RequestsAreFresh'
    BY <1>5 DEF WithdrawFollowup
  <1>6. ASSUME NEW h \in Handler, NEW o \in Offer, NEW b \in {"accept", "decline"}, ButtonPress(h, o, b)
        PROVE  RequestsAreFresh'
    BY <1>6 DEF ButtonPress, Decision, Answerable, Goto
  <1>7. ASSUME NEW h \in Handler, NEW text \in Text, ReceiveText(h, text)
        PROVE  RequestsAreFresh'
    <2>1. ASSUME NEW f \in Asked, Goto(h, [Idle EXCEPT !.at = "answer", !.about = f, !.text = text])
          PROVE  RequestsAreFresh'
      BY <2>1, RequestIsFresh DEF Idle
    <2>2. ASSUME Goto(h, [Idle EXCEPT !.at = "reason", !.text = text])
          PROVE  RequestsAreFresh'
      BY <2>2, RequestIsFresh DEF Idle
    <2> QED
      BY <1>7, <2>1, <2>2 DEF ReceiveText
  <1>8. ASSUME NEW h \in Handler, NEW f \in Followup, FollowupPress(h, f)
        PROVE  RequestsAreFresh'
    BY <1>8 DEF FollowupPress
  <1>9. ASSUME NEW h \in Handler, Write(h)
        PROVE  RequestsAreFresh'
    <2>1. CASE Finish(h)
      BY <2>1, RequestIsFresh DEF Finish, Idle
    <2>2. CASE handler[h].to \in Settled /\ Goto(h, [handler[h] EXCEPT !.at = "settle"])
      <3> DEFINE request == [handler[h] EXCEPT !.at = "settle"]
      <3>1. request.at = "settle" /\ request.about = handler[h].about /\ request.to = handler[h].to
        BY DEF Request
      <3>2. offers'[handler[h].about].state = handler[h].to
        BY <1>9 DEF Write
      <3> HIDE DEF request
      <3> QED
        BY <2>2, <3>1, <3>2, RequestIsFresh
    <2> QED
      BY <1>9, <2>1, <2>2 DEF Write
  <1>10. ASSUME NEW h \in Handler, Settle(h)
        PROVE  RequestsAreFresh'
    <2>1. CASE Finish(h)
      BY <2>1, RequestIsFresh DEF Finish, Idle
    <2>2. ASSUME NEW to \in Settled, to = offers[handler[h].about].state,
                 Goto(h, [handler[h] EXCEPT !.at = "edit", !.to = to])
          PROVE  RequestsAreFresh'
      <3> DEFINE request == [handler[h] EXCEPT !.at = "edit", !.to = to]
      <3>1. request.at = "edit" /\ request.about = handler[h].about /\ request.to = to
        BY DEF Request
      <3>2. offers' = offers /\ Goto(h, request)
        BY <1>10, <2>2 DEF Settle
      <3> HIDE DEF request
      <3> QED
        BY <2>2, <3>1, <3>2, RequestIsFresh
    <2>3. offers[handler[h].about].state \in {"accepted", "declined"}
      BY <1>10 DEF Settle
    <2> QED
      BY <1>10, <2>1, <2>2, <2>3 DEF Settle
  <1>11. ASSUME NEW h \in Handler, Edit(h)
        PROVE  RequestsAreFresh'
    BY <1>11 DEF Edit, Goto, Finish, Idle
  <1>12. ASSUME NEW h \in Handler, AnswerFollowup(h)
        PROVE  RequestsAreFresh'
    BY <1>12 DEF AnswerFollowup, Goto, Finish, Idle
  <1>13. ASSUME NEW h \in Handler, FindAwaiting(h)
        PROVE  RequestsAreFresh'
    <2>1. ASSUME NEW o \in Offer, offers[o].state = "awaiting_reason",
                 Goto(h, [handler[h] EXCEPT !.at = "write", !.about = o, !.to = "declined"])
          PROVE  RequestsAreFresh'
      <3> DEFINE request == [handler[h] EXCEPT !.at = "write", !.about = o, !.to = "declined"]
      <3>1. request.at = "write" /\ request.about = o
        BY DEF Request
      <3>2. offers' = offers /\ Goto(h, request)
        BY <1>13, <2>1 DEF FindAwaiting
      <3> HIDE DEF request
      <3> QED
        BY <2>1, <3>1, <3>2, RequestIsFresh
    <2>2. CASE Goto(h, [handler[h] EXCEPT !.at = "open"])
      <3> DEFINE request == [handler[h] EXCEPT !.at = "open"]
      <3>1. request.at = "open" /\ Goto(h, request)
        BY <2>2 DEF Request
      <3> HIDE DEF request
      <3> QED
        BY <2>2, <3>1, RequestIsFresh
    <2> QED
      BY <1>13, <2>1, <2>2 DEF FindAwaiting
  <1>14. ASSUME NEW h \in Handler, FindOpenOffer(h)
        PROVE  RequestsAreFresh'
    <2>1. CASE Finish(h)
      BY <2>1, RequestIsFresh DEF Finish, Idle
    <2>2. ASSUME NEW o \in Offer, Goto(h, [handler[h] EXCEPT !.at = "note", !.about = o])
          PROVE  RequestsAreFresh'
      <3> DEFINE request == [handler[h] EXCEPT !.at = "note", !.about = o]
      <3>1. request.at = "note" /\ Goto(h, request)
        BY <2>2 DEF Request
      <3> HIDE DEF request
      <3> QED
        BY <2>2, <3>1, RequestIsFresh
    <2> QED
      BY <1>14, <2>1, <2>2 DEF FindOpenOffer
  <1>15. ASSUME NEW h \in Handler, NoteTyped(h)
        PROVE  RequestsAreFresh'
    BY <1>15 DEF NoteTyped, Goto, Finish, Idle
  <1>16. CASE ReadOffers
    BY <1>16 DEF ReadOffers, Waiting, DueNudge
  <1>17. CASE SendNudge
    BY <1>17 DEF SendNudge
  <1>18. CASE MarkNudged
    BY <1>18 DEF MarkNudged, GivesUp
  <1>19. CASE FlagUnanswered
    BY <1>19 DEF FlagUnanswered
  <1>20. CASE ReadFollowups
    BY <1>20 DEF ReadFollowups, Waiting
  <1>21. CASE AskOutcome
    BY <1>21 DEF AskOutcome, AskedEnough, NextCount
  <1>22. CASE MarkAsked
    BY <1>22 DEF MarkAsked
  <1>23. CASE GiveUpFollowup
    BY <1>23 DEF GiveUpFollowup
  <1>24. CASE EndPass
    BY <1>24 DEF EndPass, Waiting
  <1>25. ASSUME NEW o \in Offer, PassThreshold(o)
        PROVE  RequestsAreFresh'
    BY <1>25 DEF PassThreshold
  <1>26. ASSUME NEW f \in Followup, ComeDue(f)
        PROVE  RequestsAreFresh'
    BY <1>26 DEF ComeDue
  <1>27. CASE Crash
    BY <1>27 DEF Crash, Idle, Waiting
  <1> HIDE DEF IInv, Types, TablesTypeOK, ChatTypeOK, HandlersTypeOK, RequestsAreSound, Sound,
             NotYetMade, OneAtATime, FreshInv, RequestsAreFresh, ScreenIsTrue, tables, clock,
             threads, chat, OfferRow, Open, Settled, NoOffer, PassTypeOK, Request
  <1> QED
    BY <1>1, <1>2, <1>3, <1>4, <1>5, <1>6, <1>7, <1>8, <1>9, <1>10, <1>11, <1>12, <1>13, <1>14,
       <1>15, <1>16, <1>17, <1>18, <1>19, <1>20, <1>21, <1>22, <1>23, <1>24, <1>25, <1>26, <1>27
       DEF Next, Agent, Technician, Webhook, Reminders, Time

\* With one request at a time every step keeps the screen true.
LEMMA ScreenKept ==
    ASSUME OneAtATime, IInv, FreshInv, Next
    PROVE  ScreenIsTrue'
  <1> USE DEF IInv, Types, TablesTypeOK, ChatTypeOK, HandlersTypeOK, RequestsAreSound, Sound,
             NotYetMade, OneAtATime, FreshInv, RequestsAreFresh, ScreenIsTrue, tables, clock,
             threads, chat, OfferRow, Open, Settled, NoOffer, PassTypeOK
  <1>1. ASSUME NEW o \in Offer, CreateOffer(o)
        PROVE  ScreenIsTrue'
    BY <1>1 DEF CreateOffer
  <1>2. ASSUME NEW o \in Offer, PostOffer(o)
        PROVE  ScreenIsTrue'
    BY <1>2 DEF PostOffer
  <1>3. ASSUME NEW o \in Offer, SetMessageId(o)
        PROVE  ScreenIsTrue'
    BY <1>3 DEF SetMessageId
  <1>4. ASSUME NEW f \in Followup, ScheduleFollowup(f)
        PROVE  ScreenIsTrue'
    BY <1>4 DEF ScheduleFollowup
  <1>5. ASSUME NEW f \in Followup, WithdrawFollowup(f)
        PROVE  ScreenIsTrue'
    BY <1>5 DEF WithdrawFollowup
  <1>6. ASSUME NEW h \in Handler, NEW o \in Offer, NEW b \in {"accept", "decline"}, ButtonPress(h, o, b)
        PROVE  ScreenIsTrue'
    BY <1>6 DEF ButtonPress, Decision, Answerable, Goto
  <1>7. ASSUME NEW h \in Handler, NEW text \in Text, ReceiveText(h, text)
        PROVE  ScreenIsTrue'
    BY <1>7 DEF ReceiveText, Goto, Asked, Idle
  <1>8. ASSUME NEW h \in Handler, NEW f \in Followup, FollowupPress(h, f)
        PROVE  ScreenIsTrue'
    BY <1>8 DEF FollowupPress
  <1>9. ASSUME NEW h \in Handler, Write(h)
        PROVE  ScreenIsTrue'
    BY <1>9 DEF Write, Goto, Finish, Idle
  <1>10. ASSUME NEW h \in Handler, Settle(h)
        PROVE  ScreenIsTrue'
    BY <1>10 DEF Settle, Goto, Finish, Idle
  <1>11. ASSUME NEW h \in Handler, Edit(h)
        PROVE  ScreenIsTrue'
    BY <1>11 DEF Edit, Goto, Finish, Idle
  <1>12. ASSUME NEW h \in Handler, AnswerFollowup(h)
        PROVE  ScreenIsTrue'
    BY <1>12 DEF AnswerFollowup, Goto, Finish, Idle
  <1>13. ASSUME NEW h \in Handler, FindAwaiting(h)
        PROVE  ScreenIsTrue'
    BY <1>13 DEF FindAwaiting, Goto
  <1>14. ASSUME NEW h \in Handler, FindOpenOffer(h)
        PROVE  ScreenIsTrue'
    BY <1>14 DEF FindOpenOffer, Goto, Finish, Idle
  <1>15. ASSUME NEW h \in Handler, NoteTyped(h)
        PROVE  ScreenIsTrue'
    BY <1>15 DEF NoteTyped, Goto, Finish, Idle
  <1>16. CASE ReadOffers
    BY <1>16 DEF ReadOffers, Waiting, DueNudge
  <1>17. CASE SendNudge
    BY <1>17 DEF SendNudge
  <1>18. CASE MarkNudged
    BY <1>18 DEF MarkNudged, GivesUp
  <1>19. CASE FlagUnanswered
    BY <1>19 DEF FlagUnanswered
  <1>20. CASE ReadFollowups
    BY <1>20 DEF ReadFollowups, Waiting
  <1>21. CASE AskOutcome
    BY <1>21 DEF AskOutcome, AskedEnough, NextCount
  <1>22. CASE MarkAsked
    BY <1>22 DEF MarkAsked
  <1>23. CASE GiveUpFollowup
    BY <1>23 DEF GiveUpFollowup
  <1>24. CASE EndPass
    BY <1>24 DEF EndPass, Waiting
  <1>25. ASSUME NEW o \in Offer, PassThreshold(o)
        PROVE  ScreenIsTrue'
    BY <1>25 DEF PassThreshold
  <1>26. ASSUME NEW f \in Followup, ComeDue(f)
        PROVE  ScreenIsTrue'
    BY <1>26 DEF ComeDue
  <1>27. CASE Crash
    BY <1>27 DEF Crash, Idle, Waiting
  <1> HIDE DEF IInv, Types, TablesTypeOK, ChatTypeOK, HandlersTypeOK, RequestsAreSound, Sound,
             NotYetMade, OneAtATime, FreshInv, RequestsAreFresh, ScreenIsTrue, tables, clock,
             threads, chat, OfferRow, Open, Settled, NoOffer, PassTypeOK
  <1> QED
    BY <1>1, <1>2, <1>3, <1>4, <1>5, <1>6, <1>7, <1>8, <1>9, <1>10, <1>11, <1>12, <1>13, <1>14,
       <1>15, <1>16, <1>17, <1>18, <1>19, <1>20, <1>21, <1>22, <1>23, <1>24, <1>25, <1>26, <1>27
       DEF Next, Agent, Technician, Webhook, Reminders, Time

\* With one request at a time no step changes an answer.
LEMMA SettledKept ==
    ASSUME OneAtATime, IInv, FreshInv, Next
    PROVE  \A p \in Offer : offers[p].state \in Settled => offers'[p].state = offers[p].state
  <1> USE DEF IInv, Types, TablesTypeOK, ChatTypeOK, HandlersTypeOK, RequestsAreSound, Sound,
             NotYetMade, OneAtATime, FreshInv, RequestsAreFresh, ScreenIsTrue, tables, clock,
             threads, chat, OfferRow, Open, Settled, NoOffer, PassTypeOK
  <1>1. ASSUME NEW o \in Offer, CreateOffer(o)
        PROVE  \A p \in Offer : offers[p].state \in Settled => offers'[p].state = offers[p].state
    BY <1>1 DEF CreateOffer
  <1>2. ASSUME NEW o \in Offer, PostOffer(o)
        PROVE  \A p \in Offer : offers[p].state \in Settled => offers'[p].state = offers[p].state
    BY <1>2 DEF PostOffer
  <1>3. ASSUME NEW o \in Offer, SetMessageId(o)
        PROVE  \A p \in Offer : offers[p].state \in Settled => offers'[p].state = offers[p].state
    BY <1>3 DEF SetMessageId
  <1>4. ASSUME NEW f \in Followup, ScheduleFollowup(f)
        PROVE  \A p \in Offer : offers[p].state \in Settled => offers'[p].state = offers[p].state
    BY <1>4 DEF ScheduleFollowup
  <1>5. ASSUME NEW f \in Followup, WithdrawFollowup(f)
        PROVE  \A p \in Offer : offers[p].state \in Settled => offers'[p].state = offers[p].state
    BY <1>5 DEF WithdrawFollowup
  <1>6. ASSUME NEW h \in Handler, NEW o \in Offer, NEW b \in {"accept", "decline"}, ButtonPress(h, o, b)
        PROVE  \A p \in Offer : offers[p].state \in Settled => offers'[p].state = offers[p].state
    BY <1>6 DEF ButtonPress, Decision, Answerable, Goto
  <1>7. ASSUME NEW h \in Handler, NEW text \in Text, ReceiveText(h, text)
        PROVE  \A p \in Offer : offers[p].state \in Settled => offers'[p].state = offers[p].state
    BY <1>7 DEF ReceiveText, Goto, Asked, Idle
  <1>8. ASSUME NEW h \in Handler, NEW f \in Followup, FollowupPress(h, f)
        PROVE  \A p \in Offer : offers[p].state \in Settled => offers'[p].state = offers[p].state
    BY <1>8 DEF FollowupPress
  <1>9. ASSUME NEW h \in Handler, Write(h)
        PROVE  \A p \in Offer : offers[p].state \in Settled => offers'[p].state = offers[p].state
    BY <1>9 DEF Write, Goto, Finish, Idle
  <1>10. ASSUME NEW h \in Handler, Settle(h)
        PROVE  \A p \in Offer : offers[p].state \in Settled => offers'[p].state = offers[p].state
    BY <1>10 DEF Settle, Goto, Finish, Idle
  <1>11. ASSUME NEW h \in Handler, Edit(h)
        PROVE  \A p \in Offer : offers[p].state \in Settled => offers'[p].state = offers[p].state
    BY <1>11 DEF Edit, Goto, Finish, Idle
  <1>12. ASSUME NEW h \in Handler, AnswerFollowup(h)
        PROVE  \A p \in Offer : offers[p].state \in Settled => offers'[p].state = offers[p].state
    BY <1>12 DEF AnswerFollowup, Goto, Finish, Idle
  <1>13. ASSUME NEW h \in Handler, FindAwaiting(h)
        PROVE  \A p \in Offer : offers[p].state \in Settled => offers'[p].state = offers[p].state
    BY <1>13 DEF FindAwaiting, Goto
  <1>14. ASSUME NEW h \in Handler, FindOpenOffer(h)
        PROVE  \A p \in Offer : offers[p].state \in Settled => offers'[p].state = offers[p].state
    BY <1>14 DEF FindOpenOffer, Goto, Finish, Idle
  <1>15. ASSUME NEW h \in Handler, NoteTyped(h)
        PROVE  \A p \in Offer : offers[p].state \in Settled => offers'[p].state = offers[p].state
    BY <1>15 DEF NoteTyped, Goto, Finish, Idle
  <1>16. CASE ReadOffers
    BY <1>16 DEF ReadOffers, Waiting, DueNudge
  <1>17. CASE SendNudge
    BY <1>17 DEF SendNudge
  <1>18. CASE MarkNudged
    BY <1>18 DEF MarkNudged, GivesUp
  <1>19. CASE FlagUnanswered
    BY <1>19 DEF FlagUnanswered
  <1>20. CASE ReadFollowups
    BY <1>20 DEF ReadFollowups, Waiting
  <1>21. CASE AskOutcome
    BY <1>21 DEF AskOutcome, AskedEnough, NextCount
  <1>22. CASE MarkAsked
    BY <1>22 DEF MarkAsked
  <1>23. CASE GiveUpFollowup
    BY <1>23 DEF GiveUpFollowup
  <1>24. CASE EndPass
    BY <1>24 DEF EndPass, Waiting
  <1>25. ASSUME NEW o \in Offer, PassThreshold(o)
        PROVE  \A p \in Offer : offers[p].state \in Settled => offers'[p].state = offers[p].state
    BY <1>25 DEF PassThreshold
  <1>26. ASSUME NEW f \in Followup, ComeDue(f)
        PROVE  \A p \in Offer : offers[p].state \in Settled => offers'[p].state = offers[p].state
    BY <1>26 DEF ComeDue
  <1>27. CASE Crash
    BY <1>27 DEF Crash, Idle, Waiting
  <1> HIDE DEF IInv, Types, TablesTypeOK, ChatTypeOK, HandlersTypeOK, RequestsAreSound, Sound,
             NotYetMade, OneAtATime, FreshInv, RequestsAreFresh, ScreenIsTrue, tables, clock,
             threads, chat, OfferRow, Open, Settled, NoOffer, PassTypeOK
  <1> QED
    BY <1>1, <1>2, <1>3, <1>4, <1>5, <1>6, <1>7, <1>8, <1>9, <1>10, <1>11, <1>12, <1>13, <1>14,
       <1>15, <1>16, <1>17, <1>18, <1>19, <1>20, <1>21, <1>22, <1>23, <1>24, <1>25, <1>26, <1>27
       DEF Next, Agent, Technician, Webhook, Reminders, Time

\* With one request at a time, requests stay in step with their offers.
LEMMA FreshInvariant ==
    ASSUME OneAtATime
    PROVE  Spec => []FreshInv
  <1>1. Init => FreshInv
    BY DEF Init, FreshInv, RequestsAreFresh, ScreenIsTrue, Idle, Settled
  <1>2. IInv /\ FreshInv /\ [Next]_vars => FreshInv'
    <2> SUFFICES ASSUME IInv, FreshInv, [Next]_vars PROVE FreshInv'
      OBVIOUS
    <2>1. CASE Next
      BY <2>1, FreshKept, ScreenKept DEF FreshInv
    <2>2. CASE UNCHANGED vars
      BY <2>2 DEF vars, tables, threads, chat, FreshInv, RequestsAreFresh, ScreenIsTrue
    <2> QED
      BY <2>1, <2>2
  <1> QED
    BY <1>1, <1>2, Invariant, PTL DEF Spec

\* When requests come one at a time, what the technician reads under a job is what
\* the office has on record (offers.py, _settle), whatever the reminders do meanwhile
\* and wherever the server restarts.  With two requests it is false.
THEOREM ScreensAreTrue ==
    ASSUME OneAtATime
    PROVE  Spec => []ScreenIsTrue
  <1>1. FreshInv => ScreenIsTrue
    BY DEF FreshInv
  <1> QED
    BY <1>1, FreshInvariant, PTL

\* When requests come one at a time, an answer once given is never changed
\* (server.py:520); with two, a press checked before the other's UPDATE changes it.
THEOREM AnswersAreFinal ==
    ASSUME OneAtATime
    PROVE  Spec => SettledIsFinal
  <1>1. IInv /\ FreshInv /\ [Next]_vars =>
            [\A o \in Offer : offers[o].state \in Settled => offers'[o].state = offers[o].state]_vars
    BY SettledKept
  <1> QED
    BY <1>1, Invariant, FreshInvariant, PTL DEF Spec, SettledIsFinal

=============================================================================
