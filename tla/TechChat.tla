------------------------------ MODULE TechChat ------------------------------
(***************************************************************************)
(* The technician's side of the live server: job offers with Accept and    *)
(* Decline under them (src/plumbing/live/offers.py, notify.py), the        *)
(* day-after question (store.py follow-ups), the Telegram webhook that     *)
(* takes the answers (live/server.py) and the reminder thread that chases  *)
(* them (live/reminders.py).                                               *)
(*                                                                         *)
(* The webhook runs on a thread per request and the reminders on a thread  *)
(* of their own; all they share is the database, which each of them reads  *)
(* and writes in separate transactions.  An action is one transaction or   *)
(* one message sent.  There is one technician on duty, hence one chat.     *)
(***************************************************************************)
EXTENDS Naturals, FiniteSets

CONSTANTS
    Offer,           \* offer ids
    Followup,        \* follow-up ids
    Handler,         \* webhook requests in progress at once
    Text,            \* what a technician may type
    Thresholds,      \* Len(reminder_minutes)
    MaxCrashes,      \* bound: restarts of the server
    NoText, NoId

ASSUME TechChatAssumption ==
    /\ NoText \notin Text
    /\ NoId \notin Offer \cup Followup
    /\ Offer \cap Followup = {}
    /\ Thresholds \in Nat \ {0} /\ MaxCrashes \in Nat

VARIABLES
    offers,          \* the offers table
    followups,       \* the followups table
    listed,          \* world.followups: the conversation's own list of them
    flagged,         \* offers with a job_offer_unanswered event
    age,             \* reminder_minutes thresholds passed since the offer
    due,             \* follow-ups whose due_at has passed
    sending,         \* notify.offer_job: how far each offer got
    handler,         \* each webhook request
    reminder,        \* the reminder thread
    crashes

\* Outside: the chat on the technician's phone, and what was sent to it.
VARIABLES
    screen,          \* what the offer's message shows
    nudges,          \* how many nudges went out, and the last one's number
    questions        \* how often a follow-up was asked, counted up to MaxAsked

tables  == <<offers, followups, listed, flagged>>
clock   == <<age, due>>
threads == <<sending, handler, reminder>>
chat    == <<screen, nudges, questions>>
vars == <<tables, clock, threads, chat, crashes>>

-----------------------------------------------------------------------------
OfferState == {"none", "sent", "awaiting_reason", "accepted", "declined"}
Settled == {"accepted", "declined"}
Open == {"sent", "awaiting_reason"}

OfferRow == [state: OfferState, reason: Text \cup {NoText}, nudging: BOOLEAN,
             reminders: 0 .. Thresholds, message: BOOLEAN]
FollowupRow == [status: {"none", "scheduled", "asked", "answered", "given_up"},
                asked: 0 .. 2]
Request == [at: {"idle", "write", "settle", "edit", "answer", "reason", "open", "note"},
            about: Offer \cup Followup \cup {NoId},
            to: {"accepted", "declined", "awaiting_reason"},
            text: Text \cup {NoText}]

\* One more than AskedAtMostTwice allows.
MaxAsked == 3 + MaxCrashes

NoOffer == [state |-> "none", reason |-> NoText, nudging |-> FALSE,
            reminders |-> 0, message |-> FALSE]
NoFollowup == [status |-> "none", asked |-> 0]
Idle == [at |-> "idle", about |-> NoId, to |-> "accepted", text |-> NoText]
Waiting == [at |-> "wait", todo |-> {}, about |-> NoId, number |-> 0]

\* The type invariant.
TypeOK ==
    /\ offers \in [Offer -> OfferRow]
    /\ followups \in [Followup -> FollowupRow]
    /\ listed \in [Followup -> {"no", "scheduled", "withdrawn"}]
    /\ flagged \subseteq Offer
    /\ age \in [Offer -> 0 .. Thresholds]
    /\ due \subseteq Followup
    /\ sending \in [Offer -> {"no", "created", "posted", "over"}]
    /\ handler \in [Handler -> Request]
    /\ reminder.at \in {"wait", "offers", "mark", "flag", "followups", "asked"}
    /\ crashes \in 0 .. MaxCrashes
    /\ screen \in [Offer -> {"nothing", "buttons"} \cup Settled]
    /\ \A o \in Offer : nudges[o].last \in 0 .. Thresholds /\ nudges[o].count \in Nat
    /\ questions \in [Followup -> 0 .. MaxAsked]

Init ==
    /\ offers = [o \in Offer |-> NoOffer]
    /\ followups = [f \in Followup |-> NoFollowup]
    /\ listed = [f \in Followup |-> "no"]
    /\ flagged = {} /\ due = {}
    /\ age = [o \in Offer |-> 0]
    /\ sending = [o \in Offer |-> "no"]
    /\ handler = [h \in Handler |-> Idle]
    /\ reminder = Waiting
    /\ crashes = 0
    /\ screen = [o \in Offer |-> "nothing"]
    /\ nudges = [o \in Offer |-> [count |-> 0, last |-> 0]]
    /\ questions = [f \in Followup |-> 0]

-----------------------------------------------------------------------------
(* The agent: technician.notify offers a job, schedule.* owe a question *)

CreateOffer(o) ==
    /\ sending[o] = "no"
    /\ offers' = [offers EXCEPT ![o] = [NoOffer EXCEPT !.state = "sent", !.nudging = TRUE]]
    /\ sending' = [sending EXCEPT ![o] = "created"]
    /\ UNCHANGED <<followups, listed, flagged, clock, handler, reminder, chat, crashes>>

\* The message goes out, or Telegram refuses it and the row stays as it is.
PostOffer(o) ==
    /\ sending[o] = "created"
    /\ \/ /\ screen' = [screen EXCEPT ![o] = "buttons"]
          /\ sending' = [sending EXCEPT ![o] = "posted"]
       \/ /\ sending' = [sending EXCEPT ![o] = "over"]
          /\ UNCHANGED screen
    /\ UNCHANGED <<tables, clock, handler, reminder, nudges, questions, crashes>>

SetMessageId(o) ==
    /\ sending[o] = "posted"
    /\ offers' = [offers EXCEPT ![o].message = TRUE]
    /\ sending' = [sending EXCEPT ![o] = "over"]
    /\ UNCHANGED <<followups, listed, flagged, clock, handler, reminder, chat, crashes>>

ScheduleFollowup(f) ==
    /\ followups[f].status = "none"
    /\ followups' = [followups EXCEPT ![f].status = "scheduled"]
    /\ listed' = [listed EXCEPT ![f] = "scheduled"]
    /\ UNCHANGED <<offers, flagged, clock, threads, chat, crashes>>

\* schedule.cancel and schedule.mark_done change the conversation's list only.
WithdrawFollowup(f) ==
    /\ listed[f] = "scheduled"
    /\ listed' = [listed EXCEPT ![f] = "withdrawn"]
    /\ UNCHANGED <<offers, followups, flagged, clock, threads, chat, crashes>>

-----------------------------------------------------------------------------
(* The webhook: a button under an offer *)

Goto(h, request) == handler' = [handler EXCEPT ![h] = request]
Finish(h) == Goto(h, Idle)

\* A plausible slip: a Decline is always taken at once, reason or none.
DecisionWithoutReason(o, button) == IF button = "accept" THEN "accepted" ELSE "declined"

\* What a press asks for; a Decline without a typed reason asks for one.
Decision(o, button) ==
    IF button = "accept" THEN "accepted"
    ELSE IF offers[o].reason # NoText THEN "declined" ELSE "awaiting_reason"

\* A plausible slip: nobody looks whether the offer is settled already.
AnswerableAlways(o) == offers[o].state # "none"

Answerable(o) == offers[o].state \in Open

\* The press may be late or repeated, so the buttons may be gone by now.
ButtonPress(h, o, button) ==
    /\ handler[h].at = "idle"
    /\ screen[o] # "nothing"
    /\ Answerable(o)
    /\ Goto(h, [at |-> "write", about |-> o, to |-> Decision(o, button),
                text |-> offers[o].reason])
    /\ UNCHANGED <<tables, clock, sending, reminder, chat, crashes>>

\* offers.accept, decline and ask_for_reason: one UPDATE, whatever the row is now.
Write(h) ==
    LET o == handler[h].about  next == handler[h].to
    IN  /\ handler[h].at = "write"
        /\ offers' = [offers EXCEPT
               ![o].state = next, ![o].nudging = FALSE,
               ![o].reason = IF next = "declined" THEN handler[h].text ELSE @]
        /\ IF next \in Settled THEN Goto(h, [handler[h] EXCEPT !.at = "settle"])
           ELSE Finish(h)
        /\ UNCHANGED <<followups, listed, flagged, clock, sending, reminder, chat, crashes>>

\* _settle reads the offer back; with no message id there is nothing to edit.
Settle(h) ==
    LET o == handler[h].about
    IN  /\ handler[h].at = "settle"
        /\ IF offers[o].message
           THEN Goto(h, [handler[h] EXCEPT !.at = "edit",
                    !.to = IF offers[o].state = "accepted" THEN "accepted" ELSE "declined"])
           ELSE Finish(h)
        /\ UNCHANGED <<tables, clock, sending, reminder, chat, crashes>>

\* The edit may be refused by Telegram.
Edit(h) ==
    /\ handler[h].at = "edit"
    /\ \/ screen' = [screen EXCEPT ![handler[h].about] = handler[h].to]
       \/ UNCHANGED screen
    /\ Finish(h)
    /\ UNCHANGED <<tables, clock, sending, reminder, nudges, questions, crashes>>

-----------------------------------------------------------------------------
(* The webhook: typed text, and a button under a follow-up question.       *)
(* updated_at is kept in whole seconds: of several open rows any may be    *)
(* the most recent.                                                        *)

Asked == {f \in Followup : followups[f].status = "asked"}

\* An open follow-up question takes the text, whatever else is open.
ReceiveText(h, text) ==
    /\ handler[h].at = "idle"
    /\ \/ \E f \in Asked :
              Goto(h, [Idle EXCEPT !.at = "answer", !.about = f, !.text = text])
       \/ Asked = {} /\ Goto(h, [Idle EXCEPT !.at = "reason", !.text = text])
    /\ UNCHANGED <<tables, clock, sending, reminder, chat, crashes>>

AnswerFollowup(h) ==
    /\ handler[h].at = "answer"
    /\ followups' = [followups EXCEPT ![handler[h].about].status = "answered"]
    /\ Finish(h)
    /\ UNCHANGED <<offers, listed, flagged, clock, sending, reminder, chat, crashes>>

\* The reason an offer was waiting for, or else something about an open one.
FindAwaiting(h) ==
    LET awaiting == {o \in Offer : offers[o].state = "awaiting_reason"}
    IN  /\ handler[h].at = "reason"
        /\ \/ \E o \in awaiting :
                  Goto(h, [handler[h] EXCEPT !.at = "write", !.about = o, !.to = "declined"])
           \/ awaiting = {} /\ Goto(h, [handler[h] EXCEPT !.at = "open"])
        /\ UNCHANGED <<tables, clock, sending, reminder, chat, crashes>>

FindOpenOffer(h) ==
    LET open == {o \in Offer : offers[o].state \in Open}
    IN  /\ handler[h].at = "open"
        /\ \/ \E o \in open :
                  IF offers[o].state = "sent"
                  THEN Goto(h, [handler[h] EXCEPT !.at = "note", !.about = o])
                  ELSE Finish(h)
           \/ open = {} /\ Finish(h)
        /\ UNCHANGED <<tables, clock, sending, reminder, chat, crashes>>

NoteTyped(h) ==
    /\ handler[h].at = "note"
    /\ offers' = [offers EXCEPT ![handler[h].about].reason = handler[h].text]
    /\ Finish(h)
    /\ UNCHANGED <<followups, listed, flagged, clock, sending, reminder, chat, crashes>>

FollowupPress(h, f) ==
    /\ handler[h].at = "idle"
    /\ questions[f] > 0
    /\ followups' = [followups EXCEPT ![f].status = "answered"]
    /\ UNCHANGED <<offers, listed, flagged, clock, threads, chat, crashes>>

-----------------------------------------------------------------------------
(* The reminder thread: one pass over the offers, one over the follow-ups *)

\* A plausible slip: the count already sent is not looked at.
DueNudgeRepeated(o) == age[o] > 0

\* A nudge whose threshold has passed and which has not been sent.
DueNudge(o) == age[o] > offers[o].reminders

\* The pass works from what it read at its start.
ReadOffers ==
    /\ reminder.at = "wait"
    /\ reminder' = [Waiting EXCEPT !.at = "offers",
           !.todo = {[id |-> o, number |-> age[o]] : o \in
               {x \in Offer : offers[x].state \in Open /\ offers[x].nudging /\ DueNudge(x)}}]
    /\ UNCHANGED <<tables, clock, sending, handler, chat, crashes>>

SendNudge ==
    /\ reminder.at = "offers"
    /\ \E job \in reminder.todo :
        /\ nudges' = [nudges EXCEPT ![job.id] =
                          [count |-> @.count + 1, last |-> job.number]]
        /\ reminder' = [at |-> "mark", todo |-> reminder.todo \ {job},
                        about |-> job.id, number |-> job.number]
    /\ UNCHANGED <<tables, clock, sending, handler, screen, questions, crashes>>

\* A plausible slip: give_up_after_last_reminder is never true.
GivesUpNever(number) == FALSE

\* give_up_after_last_reminder.
GivesUp(number) == number = Thresholds

MarkNudged ==
    LET o == reminder.about
    IN  /\ reminder.at = "mark"
        /\ offers' = [offers EXCEPT ![o].reminders = reminder.number,
                                    ![o].nudging = ~GivesUp(reminder.number)]
        /\ reminder' = [reminder EXCEPT
               !.at = IF GivesUp(reminder.number) THEN "flag" ELSE "offers"]
        /\ UNCHANGED <<followups, listed, flagged, clock, sending, handler, chat, crashes>>

FlagUnanswered ==
    /\ reminder.at = "flag"
    /\ flagged' = flagged \cup {reminder.about}
    /\ reminder' = [reminder EXCEPT !.at = "offers"]
    /\ UNCHANGED <<offers, followups, listed, clock, sending, handler, chat, crashes>>

ReadFollowups ==
    /\ reminder.at = "offers" /\ reminder.todo = {}
    /\ reminder' = [Waiting EXCEPT !.at = "followups",
           !.todo = {[id |-> f, status |-> followups[f].status, asked |-> followups[f].asked] :
               f \in {x \in due : followups[x].status \in {"scheduled", "asked"}}}]
    /\ UNCHANGED <<tables, clock, sending, handler, chat, crashes>>

\* A plausible slip: one question more.
AskedEnoughOffByOne(job) == job.status = "asked" /\ job.asked >= 3

AskedEnough(job) == job.status = "asked" /\ job.asked >= 2

\* A plausible slip: the count is written back as it was read.
NextCountStale(job) == job.asked

NextCount(job) == job.asked + 1

AskOutcome ==
    /\ reminder.at = "followups"
    /\ \E job \in reminder.todo :
        /\ ~AskedEnough(job)
        /\ questions' = [questions EXCEPT ![job.id] = IF @ < MaxAsked THEN @ + 1 ELSE @]
        /\ reminder' = [at |-> "asked", todo |-> reminder.todo \ {job},
                        about |-> job.id, number |-> NextCount(job)]
    /\ UNCHANGED <<tables, clock, sending, handler, screen, nudges, crashes>>

MarkAsked ==
    /\ reminder.at = "asked"
    /\ followups' = [followups EXCEPT
           ![reminder.about] = [status |-> "asked", asked |-> reminder.number]]
    /\ reminder' = [reminder EXCEPT !.at = "followups"]
    /\ UNCHANGED <<offers, listed, flagged, clock, sending, handler, chat, crashes>>

GiveUpFollowup ==
    /\ reminder.at = "followups"
    /\ \E job \in reminder.todo :
        /\ AskedEnough(job)
        /\ followups' = [followups EXCEPT ![job.id].status = "given_up"]
        /\ reminder' = [reminder EXCEPT !.todo = @ \ {job}]
    /\ UNCHANGED <<offers, listed, flagged, clock, sending, handler, chat, crashes>>

EndPass ==
    /\ reminder.at = "followups" /\ reminder.todo = {}
    /\ reminder' = Waiting
    /\ UNCHANGED <<tables, clock, sending, handler, chat, crashes>>

-----------------------------------------------------------------------------
(* Time, and the process dying: memory goes, the database stays *)

PassThreshold(o) ==
    /\ offers[o].state # "none"
    /\ age[o] < Thresholds
    /\ age' = [age EXCEPT ![o] = @ + 1]
    /\ UNCHANGED <<tables, due, threads, chat, crashes>>

ComeDue(f) ==
    /\ followups[f].status # "none"
    /\ f \notin due
    /\ due' = due \cup {f}
    /\ UNCHANGED <<tables, age, threads, chat, crashes>>

Crash ==
    /\ crashes < MaxCrashes
    /\ crashes' = crashes + 1
    /\ handler' = [h \in Handler |-> Idle]
    /\ reminder' = Waiting
    /\ sending' = [o \in Offer |-> IF sending[o] = "no" THEN "no" ELSE "over"]
    /\ listed' = [f \in Followup |-> "no"]
    /\ UNCHANGED <<offers, followups, flagged, clock, chat>>

-----------------------------------------------------------------------------
Agent ==
    \/ \E o \in Offer : CreateOffer(o)
    \/ \E o \in Offer : PostOffer(o)
    \/ \E o \in Offer : SetMessageId(o)
    \/ \E f \in Followup : ScheduleFollowup(f)
    \/ \E f \in Followup : WithdrawFollowup(f)

Technician ==
    \/ \E h \in Handler, o \in Offer, b \in {"accept", "decline"} : ButtonPress(h, o, b)
    \/ \E h \in Handler, text \in Text : ReceiveText(h, text)
    \/ \E h \in Handler, f \in Followup : FollowupPress(h, f)

Webhook(h) ==
    \/ Write(h)
    \/ Settle(h)
    \/ Edit(h)
    \/ AnswerFollowup(h)
    \/ FindAwaiting(h)
    \/ FindOpenOffer(h)
    \/ NoteTyped(h)

Reminders ==
    \/ ReadOffers
    \/ SendNudge
    \/ MarkNudged
    \/ FlagUnanswered
    \/ ReadFollowups
    \/ AskOutcome
    \/ MarkAsked
    \/ GiveUpFollowup
    \/ EndPass

Time ==
    \/ \E o \in Offer : PassThreshold(o)
    \/ \E f \in Followup : ComeDue(f)

Next ==
    \/ Agent
    \/ Technician
    \/ \E h \in Handler : Webhook(h)
    \/ Reminders
    \/ Time
    \/ Crash

\* The reminder thread never ends, time passes, and a request once taken is
\* finished; agents and technicians owe nobody a step.
Fairness ==
    /\ WF_vars(Reminders)
    /\ \A o \in Offer : WF_vars(PassThreshold(o))
    /\ \A f \in Followup : WF_vars(ComeDue(f))
    /\ \A h \in Handler : WF_vars(Webhook(h))

Spec == Init /\ [][Next]_vars
FairSpec == Spec /\ Fairness

-----------------------------------------------------------------------------
(* Properties *)

\* However presses, texts and reminders interleave, a declined job has a
\* reason (offers.py:15, "Decline needs a reason").
DeclinedHasReason == \A o \in Offer : offers[o].state = "declined" => offers[o].reason # NoText

\* Nothing is sent again but what the server died over before it was recorded
\* (reminders.py:142, :114, both are sent first and counted afterwards): without a
\* restart every nudge has a higher number than the last, and the day-after
\* question is asked at most twice (reminders.py:96, "One reminder, then leave it").
NothingIsSentAgain ==
    /\ \A o \in Offer : nudges[o].count <= nudges[o].last + crashes
    /\ \A f \in Followup : questions[f] <= 2 + crashes

\* An offer nobody answers is flagged for the office (reminders.py:14,
\* "After the last reminder the offer is flagged for the office").
SilenceIsFlagged ==
    \A o \in Offer : offers[o].state = "sent" ~> (offers[o].state # "sent" \/ o \in flagged)

\* A question that was asked does not stay open.
QuestionsClose ==
    \A f \in Followup : followups[f].status = "asked"
        ~> followups[f].status \in {"answered", "given_up"}

\* An answer is final: no press, text or reminder changes it (server.py:520,
\* "That one is already settled.").
SettledIsFinal ==
    [][\A o \in Offer : offers[o].state \in Settled => offers'[o].state = offers[o].state]_vars

\* What the technician reads under the job is what the office has on record.
ScreenIsTrue == \A o \in Offer : screen[o] \in Settled => offers[o].state = screen[o]

=============================================================================
