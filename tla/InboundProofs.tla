----------------------------- MODULE InboundProofs ---------------------------
(***************************************************************************)
(* What holds of the customers' lines for any customers, sessions and      *)
(* messages, wherever turns fail, widgets give up and the server restarts. *)
(***************************************************************************)
EXTENDS Inbound, SequenceTheorems, TLAPS

-----------------------------------------------------------------------------
(* Turns: one at a time on every line *)

\* Where a turn stands, its record (_Pending), and a conversation.
Place == {"off", "hear", "say", "text", "drain", "sorry", "close", "done"}
TurnRow == [at: Place, now: Msg \cup {NoMsg}, queued: Seq(Msg)]
TalkRow == [said: Seq(Entry), closed: BOOLEAN]

\* Where an answered turn goes on: an answer to a text is still to be sent.
AfterAnswer(m) == IF line[m] \in Texts THEN "text" ELSE "done"

\* A turn in progress.
Active(m) == turn[m].at \notin {"off", "done"}

\* The types, and that a turn in progress has a message.
Types ==
    /\ line \in [Msg -> AnyLine \cup {NoLine}]
    /\ pending \in [Line -> Msg \cup {NoMsg}]
    /\ turn \in [Msg -> TurnRow]
    /\ \A m \in Msg : Active(m) => turn[m].now \in Msg
    /\ talk \in [Phone -> TalkRow]
    /\ waiting \in [Session -> Msg \cup {NoMsg}]
    /\ arrived \in [Texts -> Seq(Msg)] /\ heard \in [Texts -> Seq(Msg)]
    /\ crashes \in 0 .. MaxCrashes

\* A turn in progress is the one its line's entry names; voice, which keeps no
\* entry, has one request at a time.
TurnsAreGuarded ==
    /\ \A m \in Msg :
        /\ line[m] = NoLine => turn[m].at = "off"
        /\ Active(m) => line[m] # NoLine /\ (line[m] \in Line => pending[line[m]] = m)
    /\ \A m, n \in Msg : Active(m) /\ Active(n) /\ line[m] = line[n] => m = n
    /\ \A l \in Line : pending[l] # NoMsg =>
           line[pending[l]] = l /\ turn[pending[l]].at # "off"

-----------------------------------------------------------------------------
(* Texts: what is read, being read and queued came in that order *)

\* The texts of one sequence occur in another, each after those before it.
InOrder(read, came) ==
    /\ \A i \in DOMAIN read : \E k \in DOMAIN came : came[k] = read[i]
    /\ \A i, j \in DOMAIN read : i < j =>
           \E k, l \in DOMAIN came : k < l /\ came[k] = read[i] /\ came[l] = read[j]

\* What a turn has yet to read.
ToRead(m) ==
    IF turn[m].at = "hear" THEN <<turn[m].now>> \o turn[m].queued ELSE turn[m].queued

\* The texts read so far, alone and with those a turn has yet to read, are in order.
HeardInOrder == \A p \in Texts : InOrder(heard[p], arrived[p])

QueuesInOrder ==
    \A m \in Msg : Active(m) /\ line[m] \in Texts =>
        InOrder(heard[line[m]] \o ToRead(m), arrived[line[m]])

\* The inductive invariant.
IInv == Types /\ TurnsAreGuarded /\ HeardInOrder /\ QueuesInOrder

-----------------------------------------------------------------------------
(* What the steps do to turns *)

\* Every line belongs to a customer; an SMS line is the customer's own number.
LEMMA CustomerIsPhone ==
    ASSUME Types, NEW m \in Msg, line[m] # NoLine
    PROVE  /\ Customer(m) \in Phone
           /\ line[m] \in Texts => Customer(m) = line[m]
  <1>1. line[m] \in AnyLine
    BY DEF Types
  <1>2. CASE line[m] \in Session
    BY <1>2, InboundAssumption DEF Customer, PhoneOf
  <1>3. CASE line[m] \in Texts
    BY <1>3, InboundAssumption DEF Customer, PhoneOf
  <1>4. ASSUME NEW p \in Calls, line[m] = Voice(p)
        PROVE  Customer(m) \in Phone /\ line[m] \notin Texts
    <2>1. line[m] \notin Session /\ line[m] \notin Texts
      BY <1>4, InboundAssumption DEF Line
    <2> QED
      BY <1>4, <2>1, InboundAssumption DEF Customer, PhoneOf, Voice
  <1> QED
    BY <1>1, <1>2, <1>3, <1>4 DEF AnyLine, Line

\* Moving a turn changes where it stands and nothing else of it.
LEMMA Moved ==
    ASSUME turn \in [Msg -> TurnRow], NEW m \in Msg,
           NEW at \in Place, Move(m, at)
    PROVE  /\ turn' \in [Msg -> TurnRow]
           /\ turn'[m].at = at /\ turn'[m].now = turn[m].now
           /\ turn'[m].queued = turn[m].queued
           /\ \A n \in Msg : n # m => turn'[n] = turn[n]
  BY DEF Move, TurnRow, Place

\* A new turn reads the message that started it, and has nothing queued.
LEMMA Started ==
    ASSUME turn \in [Msg -> TurnRow], NEW m \in Msg, Start(m)
    PROVE  /\ turn' \in [Msg -> TurnRow]
           /\ turn'[m].at = "hear" /\ turn'[m].now = m /\ turn'[m].queued = <<>>
           /\ \A n \in Msg : n # m => turn'[n] = turn[n]
  <1> DEFINE new == [NoTurn EXCEPT !.at = "hear", !.now = m]
  <1>1. NoTurn \in TurnRow /\ NoTurn.queued = <<>>
    BY EmptySeq DEF NoTurn, TurnRow, Place
  <1>2. new \in TurnRow /\ new.at = "hear" /\ new.now = m /\ new.queued = <<>>
    BY <1>1 DEF TurnRow, Place
  <1>3. turn' = [turn EXCEPT ![m] = new]
    BY DEF Start
  <1> HIDE DEF new
  <1> QED
    BY <1>2, <1>3

\* A text that finds a turn in flight goes to the end of that turn's queue.
LEMMA Joined ==
    ASSUME turn \in [Msg -> TurnRow], NEW n \in Msg, NEW m \in Msg,
           turn' = [turn EXCEPT ![n].queued = Append(@, m)]
    PROVE  /\ turn' \in [Msg -> TurnRow]
           /\ turn'[n].at = turn[n].at /\ turn'[n].now = turn[n].now
           /\ turn'[n].queued = Append(turn[n].queued, m)
           /\ \A k \in Msg : k # n => turn'[k] = turn[k]
  <1>1. turn[n].queued \in Seq(Msg)
    BY DEF TurnRow, Place
  <1>2. Append(turn[n].queued, m) \in Seq(Msg)
    BY <1>1, AppendProperties
  <1> QED
    BY <1>2 DEF TurnRow, Place

\* Draining ends a turn with nothing queued, and otherwise takes the first.
LEMMA Drained ==
    ASSUME turn \in [Msg -> TurnRow], NEW m \in Msg, Drain(m)
    PROVE  \/ /\ turn[m].queued = <<>> /\ Move(m, "done")
           \/ /\ turn[m].queued # <<>>
              /\ turn' \in [Msg -> TurnRow]
              /\ turn'[m].at = "hear" /\ turn'[m].now = Head(turn[m].queued)
              /\ turn'[m].now \in Msg
              /\ turn'[m].queued = Tail(turn[m].queued)
              /\ \A n \in Msg : n # m => turn'[n] = turn[n]
  <1>1. turn[m].queued \in Seq(Msg)
    BY DEF TurnRow, Place
  <1>2. CASE turn[m].queued = <<>>
    BY <1>2 DEF Drain
  <1>3. CASE turn[m].queued # <<>>
    <2> DEFINE new == [at |-> "hear", now |-> Head(turn[m].queued), queued |-> Tail(turn[m].queued)]
    <2>1. Head(turn[m].queued) \in Msg /\ Tail(turn[m].queued) \in Seq(Msg)
      BY <1>1, <1>3, HeadTailProperties
    <2>2. new \in TurnRow
      BY <2>1 DEF TurnRow, Place
    <2>3. turn' = [turn EXCEPT ![m] = new]
      BY <1>3 DEF Drain, NextQueued
    <2> QED
      BY <1>3, <2>1, <2>2, <2>3
  <1> QED
    BY <1>2, <1>3

\* Every step keeps the turns well-typed; one in progress has a message.
LEMMA TurnsTyped ==
    ASSUME IInv, Next
    PROVE  turn' \in [Msg -> TurnRow] /\ \A k \in Msg : Active(k)' => turn'[k].now \in Msg
  <1>1. ASSUME NEW s \in Session, NEW m \in Msg, ChatMessage(s, m)
        PROVE  turn' \in [Msg -> TurnRow] /\ \A k \in Msg : Active(k)' => turn'[k].now \in Msg
    BY <1>1, Started DEF ChatMessage, IInv, Types, Active
  <1>2. ASSUME NEW p \in Texts, NEW m \in Msg, Sms(p, m)
        PROVE  turn' \in [Msg -> TurnRow] /\ \A k \in Msg : Active(k)' => turn'[k].now \in Msg
    <2>1. CASE Running(p)
      <3>1. pending[p] \in Msg
        BY <2>1 DEF Running, IInv, Types, Line
      <3>2. turn' = [turn EXCEPT ![pending[p]].queued = Append(@, m)]
        BY <1>2, <2>1 DEF Sms
      <3> QED
        BY <3>1, <3>2, Joined DEF IInv, Types, Active
    <2>2. CASE ~Running(p)
      BY <1>2, <2>2, Started DEF Sms, IInv, Types, Active
    <2> QED
      BY <2>1, <2>2
  <1>3. ASSUME NEW p \in Calls, NEW m \in Msg, VoiceRequest(p, m)
        PROVE  turn' \in [Msg -> TurnRow] /\ \A k \in Msg : Active(k)' => turn'[k].now \in Msg
    <2>1. Start(m)
      BY <1>3 DEF VoiceRequest
    <2> QED
      BY <2>1, Started DEF IInv, Types, Active
  <1>4. ASSUME NEW m \in Msg, Hear(m)
        PROVE  turn' \in [Msg -> TurnRow] /\ \A k \in Msg : Active(k)' => turn'[k].now \in Msg
    <2>1. Move(m, "say") /\ turn[m].at \notin {"off", "done"}
      BY <1>4 DEF Hear, AfterAnswer
    <2>2. "say" \in Place
      BY DEF AfterFailure, AfterAnswer, Place
    <2> QED
      BY <2>1, <2>2, Moved DEF IInv, Types, Active, Place
  <1>5. ASSUME NEW m \in Msg, NEW ends \in BOOLEAN, Answer(m, ends)
        PROVE  turn' \in [Msg -> TurnRow] /\ \A k \in Msg : Active(k)' => turn'[k].now \in Msg
    <2>1. Move(m, AfterAnswer(m)) /\ turn[m].at \notin {"off", "done"}
      BY <1>5 DEF Answer, AfterAnswer
    <2>2. AfterAnswer(m) \in Place
      BY DEF AfterFailure, AfterAnswer, Place
    <2> QED
      BY <2>1, <2>2, Moved DEF IInv, Types, Active, Place
  <1>6. ASSUME NEW m \in Msg, Fail(m)
        PROVE  turn' \in [Msg -> TurnRow] /\ \A k \in Msg : Active(k)' => turn'[k].now \in Msg
    <2>1. Move(m, AfterFailure(m)) /\ turn[m].at \notin {"off", "done"}
      BY <1>6 DEF Fail, AfterAnswer
    <2>2. AfterFailure(m) \in Place
      BY DEF AfterFailure, AfterAnswer, Place
    <2> QED
      BY <2>1, <2>2, Moved DEF IInv, Types, Active, Place
  <1>7. ASSUME NEW m \in Msg, SendText(m)
        PROVE  turn' \in [Msg -> TurnRow] /\ \A k \in Msg : Active(k)' => turn'[k].now \in Msg
    <2>1. Move(m, "drain") /\ turn[m].at \notin {"off", "done"}
      BY <1>7 DEF SendText, AfterAnswer
    <2>2. "drain" \in Place
      BY DEF AfterFailure, AfterAnswer, Place
    <2> QED
      BY <2>1, <2>2, Moved DEF IInv, Types, Active, Place
  <1>8. ASSUME NEW m \in Msg, Drain(m)
        PROVE  turn' \in [Msg -> TurnRow] /\ \A k \in Msg : Active(k)' => turn'[k].now \in Msg
    BY <1>8, Drained, Moved DEF Drain, IInv, Types, Active, Place
  <1>9. ASSUME NEW m \in Msg, Apologise(m)
        PROVE  turn' \in [Msg -> TurnRow] /\ \A k \in Msg : Active(k)' => turn'[k].now \in Msg
    <2>1. Move(m, "close") /\ turn[m].at \notin {"off", "done"}
      BY <1>9 DEF Apologise, AfterAnswer
    <2>2. "close" \in Place
      BY DEF AfterFailure, AfterAnswer, Place
    <2> QED
      BY <2>1, <2>2, Moved DEF IInv, Types, Active, Place
  <1>10. ASSUME NEW m \in Msg, CloseFailed(m)
        PROVE  turn' \in [Msg -> TurnRow] /\ \A k \in Msg : Active(k)' => turn'[k].now \in Msg
    <2>1. Move(m, "done") /\ turn[m].at \notin {"off", "done"}
      BY <1>10 DEF CloseFailed, AfterAnswer
    <2>2. "done" \in Place
      BY DEF AfterFailure, AfterAnswer, Place
    <2> QED
      BY <2>1, <2>2, Moved DEF IInv, Types, Active, Place
  <1>11. CASE Crash
    <2>1. NoTurn \in TurnRow /\ [NoTurn EXCEPT !.at = "done"] \in TurnRow
      BY EmptySeq DEF NoTurn, TurnRow, Place
    <2>2. \A k \in Msg : turn'[k].at \in {"off", "done"}
      BY <1>11 DEF Crash, NoTurn
    <2> QED
      BY <1>11, <2>1, <2>2 DEF Crash, Active
  <1>12. CASE UNCHANGED turn
    BY <1>12 DEF IInv, Types, Active
  <1> QED
    BY <1>1, <1>2, <1>3, <1>4, <1>5, <1>6, <1>7, <1>8, <1>9, <1>10, <1>11, <1>12
       DEF Next, Worker, Poll, GiveUp

\* A conversation one says something in is open, reopened if it was closed.
LEMMA Reopens ==
    ASSUME talk \in [Phone -> TalkRow], NEW p \in Phone
    PROVE  Reopened(p) \in TalkRow /\ ~Reopened(p).closed
  <1>1. NewTalk \in TalkRow /\ ~NewTalk.closed
    BY EmptySeq DEF NewTalk, TalkRow
  <1> QED
    BY <1>1 DEF Reopened, TalkRow

\* Hearing adds the customer's message to an open list of that customer's.
LEMMA HearSays ==
    ASSUME IInv, NEW m \in Msg, Hear(m)
    PROVE  /\ Customer(m) \in Phone /\ turn[m].now \in Msg
           /\ talk' \in [Phone -> TalkRow]
           /\ talk'[Customer(m)].said = Append(Reopened(Customer(m)).said, Customers(turn[m].now))
           /\ ~talk'[Customer(m)].closed
           /\ \A p \in Phone : p # Customer(m) => talk'[p] = talk[p]
  <1> DEFINE p == Customer(m)
             entry == Customers(turn[m].now)
             new == [Reopened(p) EXCEPT !.said = Append(@, entry)]
  <1>1. p \in Phone /\ turn[m].now \in Msg
    BY CustomerIsPhone DEF IInv, Types, TurnsAreGuarded, Hear, Active
  <1>2. entry \in Entry
    BY <1>1 DEF Customers, Entry
  <1>3. Reopened(p) \in TalkRow /\ ~Reopened(p).closed
    BY <1>1, Reopens DEF IInv, Types
  <1>4. talk' = [talk EXCEPT ![p] = new]
    BY DEF Hear
  <1> HIDE DEF p, entry
  <1>5. Append(Reopened(p).said, entry) \in Seq(Entry)
    BY <1>2, <1>3, AppendProperties DEF TalkRow
  <1>6. new \in TalkRow /\ new.said = Append(Reopened(p).said, entry) /\ ~new.closed
    BY <1>3, <1>5 DEF TalkRow
  <1> HIDE DEF new
  <1>7. /\ talk' \in [Phone -> TalkRow] /\ talk'[p] = new
        /\ \A q \in Phone : q # p => talk'[q] = talk[q]
    BY <1>1, <1>4, <1>6 DEF IInv, Types
  <1> QED
    BY <1>1, <1>6, <1>7 DEF p, entry

\* Answering adds the agent's message to the list of that customer.
LEMMA AnswerSays ==
    ASSUME IInv, NEW m \in Msg, NEW ends \in BOOLEAN, Answer(m, ends)
    PROVE  /\ Customer(m) \in Phone /\ turn[m].now \in Msg
           /\ talk' \in [Phone -> TalkRow]
           /\ talk'[Customer(m)].said
                  = Append(talk[Customer(m)].said, Agents(turn[m].now, ends))
           /\ talk'[Customer(m)].closed = (talk[Customer(m)].closed \/ ends)
           /\ \A p \in Phone : p # Customer(m) => talk'[p] = talk[p]
  <1> DEFINE p == Customer(m)
             entry == Agents(turn[m].now, ends)
             new == [said |-> Append(talk[p].said, entry), closed |-> talk[p].closed \/ ends]
  <1>1. p \in Phone /\ turn[m].now \in Msg
    BY CustomerIsPhone DEF IInv, Types, TurnsAreGuarded, Answer, Active
  <1>2. entry \in Entry
    BY <1>1 DEF Agents, Entry
  <1>3. talk[p] \in TalkRow
    BY <1>1 DEF IInv, Types
  <1>4. talk' = [talk EXCEPT ![p] = new]
    BY DEF Answer
  <1> HIDE DEF p, entry
  <1>5. Append(talk[p].said, entry) \in Seq(Entry)
    BY <1>2, <1>3, AppendProperties DEF TalkRow
  <1>6. new \in TalkRow
    BY <1>3, <1>5 DEF TalkRow
  <1>7. /\ talk' \in [Phone -> TalkRow] /\ talk'[p] = new
        /\ \A q \in Phone : q # p => talk'[q] = talk[q]
    <2> HIDE DEF new
    <2> QED
      BY <1>1, <1>4, <1>6 DEF IInv, Types
  <1> QED
    BY <1>1, <1>7 DEF p, entry

\* Every step keeps the conversations well-typed.
LEMMA TalksTyped ==
    ASSUME IInv, Next
    PROVE  talk' \in [Phone -> TalkRow]
  <1>1. ASSUME NEW m \in Msg, Hear(m)
        PROVE  talk' \in [Phone -> TalkRow]
    BY <1>1, HearSays
  <1>2. ASSUME NEW m \in Msg, NEW ends \in BOOLEAN, Answer(m, ends)
        PROVE  talk' \in [Phone -> TalkRow]
    BY <1>2, AnswerSays
  <1>3. CASE Crash
    <2>1. NewTalk \in TalkRow
      BY EmptySeq DEF NewTalk, TalkRow
    <2> QED
      BY <1>3, <2>1 DEF Crash
  <1>4. CASE UNCHANGED talk
    BY <1>4 DEF IInv, Types
  <1> QED
    BY <1>1, <1>2, <1>3, <1>4
       DEF Next, Worker, ChatMessage, Sms, VoiceRequest, Fail, SendText, Drain, Apologise,
       CloseFailed, Poll, GiveUp

\* Every step keeps the texts that came and were read well-typed.
LEMMA TextsTyped ==
    ASSUME IInv, Next
    PROVE  (arrived \in [Texts -> Seq(Msg)] /\ heard \in [Texts -> Seq(Msg)])'
  <1>1. ASSUME NEW p \in Texts, NEW m \in Msg, Sms(p, m)
        PROVE  (arrived \in [Texts -> Seq(Msg)] /\ heard \in [Texts -> Seq(Msg)])'
    <2>1. Append(arrived[p], m) \in Seq(Msg)
      BY AppendProperties DEF IInv, Types
    <2> QED
      BY <1>1, <2>1 DEF Sms, IInv, Types
  <1>2. ASSUME NEW m \in Msg, Hear(m)
        PROVE  (arrived \in [Texts -> Seq(Msg)] /\ heard \in [Texts -> Seq(Msg)])'
    <2>1. turn[m].now \in Msg
      BY <1>2 DEF Hear, IInv, Types, Active
    <2>2. CASE line[m] \in Texts
      <3>1. Append(heard[line[m]], turn[m].now) \in Seq(Msg)
        BY <2>1, <2>2, AppendProperties DEF IInv, Types
      <3> QED
        BY <1>2, <2>2, <3>1 DEF Hear, IInv, Types
    <2>3. CASE line[m] \notin Texts
      BY <1>2, <2>3 DEF Hear, IInv, Types
    <2> QED
      BY <2>2, <2>3
  <1>3. CASE UNCHANGED <<arrived, heard>>
    BY <1>3 DEF IInv, Types
  <1> QED
    BY <1>1, <1>2, <1>3
       DEF Next, Worker, ChatMessage, VoiceRequest, Answer, Fail, SendText, Drain, Apologise,
       CloseFailed, Poll, GiveUp, Crash

\* Every step keeps lines, table, widgets and the count of restarts well-typed.
LEMMA RestTyped ==
    ASSUME IInv, Next
    PROVE  (line \in [Msg -> AnyLine \cup {NoLine}] /\ pending \in [Line -> Msg \cup {NoMsg}]
            /\ waiting \in [Session -> Msg \cup {NoMsg}] /\ crashes \in 0 .. MaxCrashes)'
  <1>1. ASSUME NEW s \in Session, NEW m \in Msg, ChatMessage(s, m)
        PROVE  (line \in [Msg -> AnyLine \cup {NoLine}] /\ pending \in [Line -> Msg \cup {NoMsg}]
            /\ waiting \in [Session -> Msg \cup {NoMsg}] /\ crashes \in 0 .. MaxCrashes)'
    BY <1>1, InboundAssumption DEF ChatMessage, Arrive, IInv, Types, AnyLine, Line
  <1>2. ASSUME NEW p \in Texts, NEW m \in Msg, Sms(p, m)
        PROVE  (line \in [Msg -> AnyLine \cup {NoLine}] /\ pending \in [Line -> Msg \cup {NoMsg}]
            /\ waiting \in [Session -> Msg \cup {NoMsg}] /\ crashes \in 0 .. MaxCrashes)'
    BY <1>2, InboundAssumption DEF Sms, Arrive, IInv, Types, AnyLine, Line
  <1>3. ASSUME NEW p \in Calls, NEW m \in Msg, VoiceRequest(p, m)
        PROVE  (line \in [Msg -> AnyLine \cup {NoLine}] /\ pending \in [Line -> Msg \cup {NoMsg}]
            /\ waiting \in [Session -> Msg \cup {NoMsg}] /\ crashes \in 0 .. MaxCrashes)'
    BY <1>3, InboundAssumption DEF VoiceRequest, Arrive, IInv, Types, AnyLine, Line
  <1>4. ASSUME NEW m \in Msg, Hear(m)
        PROVE  (line \in [Msg -> AnyLine \cup {NoLine}] /\ pending \in [Line -> Msg \cup {NoMsg}]
            /\ waiting \in [Session -> Msg \cup {NoMsg}] /\ crashes \in 0 .. MaxCrashes)'
    BY <1>4, InboundAssumption DEF Hear, Arrive, IInv, Types, AnyLine, Line
  <1>5. ASSUME NEW m \in Msg, NEW ends \in BOOLEAN, Answer(m, ends)
        PROVE  (line \in [Msg -> AnyLine \cup {NoLine}] /\ pending \in [Line -> Msg \cup {NoMsg}]
            /\ waiting \in [Session -> Msg \cup {NoMsg}] /\ crashes \in 0 .. MaxCrashes)'
    BY <1>5, InboundAssumption DEF Answer, Arrive, IInv, Types, AnyLine, Line
  <1>6. ASSUME NEW m \in Msg, Fail(m)
        PROVE  (line \in [Msg -> AnyLine \cup {NoLine}] /\ pending \in [Line -> Msg \cup {NoMsg}]
            /\ waiting \in [Session -> Msg \cup {NoMsg}] /\ crashes \in 0 .. MaxCrashes)'
    BY <1>6, InboundAssumption DEF Fail, Arrive, IInv, Types, AnyLine, Line
  <1>7. ASSUME NEW m \in Msg, SendText(m)
        PROVE  (line \in [Msg -> AnyLine \cup {NoLine}] /\ pending \in [Line -> Msg \cup {NoMsg}]
            /\ waiting \in [Session -> Msg \cup {NoMsg}] /\ crashes \in 0 .. MaxCrashes)'
    BY <1>7, InboundAssumption DEF SendText, Arrive, IInv, Types, AnyLine, Line
  <1>8. ASSUME NEW m \in Msg, Drain(m)
        PROVE  (line \in [Msg -> AnyLine \cup {NoLine}] /\ pending \in [Line -> Msg \cup {NoMsg}]
            /\ waiting \in [Session -> Msg \cup {NoMsg}] /\ crashes \in 0 .. MaxCrashes)'
    BY <1>8, InboundAssumption DEF Drain, Arrive, IInv, Types, AnyLine, Line
  <1>9. ASSUME NEW m \in Msg, Apologise(m)
        PROVE  (line \in [Msg -> AnyLine \cup {NoLine}] /\ pending \in [Line -> Msg \cup {NoMsg}]
            /\ waiting \in [Session -> Msg \cup {NoMsg}] /\ crashes \in 0 .. MaxCrashes)'
    BY <1>9, InboundAssumption DEF Apologise, Arrive, IInv, Types, AnyLine, Line
  <1>10. ASSUME NEW m \in Msg, CloseFailed(m)
        PROVE  (line \in [Msg -> AnyLine \cup {NoLine}] /\ pending \in [Line -> Msg \cup {NoMsg}]
            /\ waiting \in [Session -> Msg \cup {NoMsg}] /\ crashes \in 0 .. MaxCrashes)'
    BY <1>10, InboundAssumption DEF CloseFailed, Arrive, IInv, Types, AnyLine, Line
  <1>11. ASSUME NEW s \in Session, Poll(s)
        PROVE  (line \in [Msg -> AnyLine \cup {NoLine}] /\ pending \in [Line -> Msg \cup {NoMsg}]
            /\ waiting \in [Session -> Msg \cup {NoMsg}] /\ crashes \in 0 .. MaxCrashes)'
    BY <1>11, InboundAssumption DEF Poll, Arrive, IInv, Types, AnyLine, Line
  <1>12. ASSUME NEW s \in Session, GiveUp(s)
        PROVE  (line \in [Msg -> AnyLine \cup {NoLine}] /\ pending \in [Line -> Msg \cup {NoMsg}]
            /\ waiting \in [Session -> Msg \cup {NoMsg}] /\ crashes \in 0 .. MaxCrashes)'
    BY <1>12, InboundAssumption DEF GiveUp, Arrive, IInv, Types, AnyLine, Line
  <1>13. CASE Crash
    BY <1>13, InboundAssumption DEF Crash, Arrive, IInv, Types, AnyLine, Line
  <1> QED
    BY <1>1, <1>2, <1>3, <1>4, <1>5, <1>6, <1>7, <1>8, <1>9, <1>10, <1>11, <1>12, <1>13
       DEF Next, Worker

\* Every step keeps every variable's type.
LEMMA TypesKept ==
    ASSUME IInv, Next
    PROVE  Types'
  BY TurnsTyped, TalksTyped, TextsTyped, RestTyped DEF Types

-----------------------------------------------------------------------------
(* One turn on each line *)

\* A line whose entry is empty or done has no turn in progress.
LEMMA NoneActive ==
    ASSUME IInv, NEW l \in Line, ~Running(l), NEW n \in Msg, line[n] = l
    PROVE  ~Active(n)
  BY InboundAssumption DEF IInv, Types, TurnsAreGuarded, Running, Active

\* A new turn on a line that has none keeps it one turn a line.
LEMMA NewTurn ==
    ASSUME IInv, NEW m \in Msg, NEW l \in AnyLine, Arrive(m, l), Start(m),
           \A n \in Msg : line[n] = l => ~Active(n),
           l \in Line => pending' = [pending EXCEPT ![l] = m],
           l \notin Line => UNCHANGED pending
    PROVE  TurnsAreGuarded'
  <1>1. /\ line[m] = NoLine /\ line'[m] = l /\ l # NoLine
        /\ \A n \in Msg : n # m => line'[n] = line[n]
    BY InboundAssumption DEF Arrive, IInv, Types
  <1>2. /\ turn'[m].at = "hear" /\ Active(m)'
        /\ \A n \in Msg : n # m => turn'[n] = turn[n] /\ (Active(n)' <=> Active(n))
    BY Started DEF IInv, Types, Active
  <1>3. \A k \in Line : pending'[k] = IF k = l THEN m ELSE pending[k]
    BY DEF IInv, Types
  <1>4. \A k \in Line : pending[k] # m /\ k # NoLine /\ pending[k] \in Msg \cup {NoMsg}
    BY <1>1, InboundAssumption DEF IInv, Types, TurnsAreGuarded, AnyLine, Line
  <1>5. ASSUME NEW n \in Msg
        PROVE  /\ line'[n] = NoLine => turn'[n].at = "off"
               /\ Active(n)' => line'[n] # NoLine /\ (line'[n] \in Line => pending'[line'[n]] = n)
    <2>1. CASE n = m
      BY <1>1, <1>2, <1>3, <2>1
    <2>2. CASE n # m
      <3>1. Active(n) => line[n] # l
        OBVIOUS
      <3> QED
        BY <1>1, <1>2, <1>3, <2>2, <3>1 DEF IInv, TurnsAreGuarded
    <2> QED
      BY <2>1, <2>2
  <1>6. ASSUME NEW n \in Msg, NEW k \in Msg, Active(n)', Active(k)', line'[n] = line'[k]
        PROVE  n = k
    BY <1>1, <1>2, <1>6 DEF IInv, TurnsAreGuarded
  <1>7. ASSUME NEW k \in Line, pending'[k] # NoMsg
        PROVE  line'[pending'[k]] = k /\ turn'[pending'[k]].at # "off"
    <2>1. CASE k = l
      BY <1>1, <1>2, <1>3, <2>1
    <2>2. CASE k # l
      BY <1>1, <1>2, <1>3, <1>4, <1>7, <2>2 DEF IInv, TurnsAreGuarded
    <2> QED
      BY <2>1, <2>2
  <1> QED
    BY <1>5, <1>6, <1>7 DEF TurnsAreGuarded

\* A step that starts no turn and ends perhaps some keeps it one turn a line.
LEMMA SameTurns ==
    ASSUME IInv, UNCHANGED <<line, pending>>,
           \A n \in Msg : /\ turn'[n].at = "off" <=> turn[n].at = "off"
                          /\ Active(n)' => Active(n)
    PROVE  TurnsAreGuarded'
  <1>1. \A k \in Line : pending[k] \in Msg \cup {NoMsg}
    BY DEF IInv, Types
  <1> QED
    BY <1>1 DEF IInv, TurnsAreGuarded

\* A turn in progress that moves starts no other.
LEMMA MovedOn ==
    ASSUME IInv, NEW m \in Msg, Active(m),
           NEW at \in Place \ {"off"}, Move(m, at)
    PROVE  \A n \in Msg : /\ turn'[n].at = "off" <=> turn[n].at = "off"
                          /\ Active(n)' => Active(n)
  BY Moved DEF IInv, Types, Active, Place

\* Every step keeps it one turn a line, guarded by the table of turns in flight.
LEMMA GuardedKept ==
    ASSUME IInv, Next
    PROVE  TurnsAreGuarded'
  <1>1. ASSUME NEW s \in Session, NEW m \in Msg, ChatMessage(s, m)
        PROVE  TurnsAreGuarded'
    <2>1. s \in Line /\ s \in AnyLine
      BY DEF Line, AnyLine
    <2> QED
      BY <1>1, <2>1, NoneActive, NewTurn DEF ChatMessage
  <1>2. ASSUME NEW p \in Texts, NEW m \in Msg, Sms(p, m)
        PROVE  TurnsAreGuarded'
    <2>1. p \in Line /\ p \in AnyLine
      BY DEF Line, AnyLine
    <2>2. CASE Running(p)
      <3>1. pending[p] \in Msg /\ Active(pending[p]) /\ pending[p] # m
        BY <1>2, <2>1, <2>2, InboundAssumption
           DEF Sms, Arrive, Running, IInv, Types, TurnsAreGuarded, Active, AnyLine
      <3>2. turn' = [turn EXCEPT ![pending[p]].queued = Append(@, m)]
        BY <1>2, <2>2 DEF Sms
      <3>3. \A n \in Msg : turn'[n].at = turn[n].at
        BY <3>1, <3>2, Joined DEF IInv, Types
      <3>4. UNCHANGED pending /\ line[m] = NoLine /\ line' = [line EXCEPT ![m] = p]
        BY <1>2, <2>2 DEF Sms, Arrive
      <3>5. turn[m].at = "off" /\ p # NoLine
        BY <3>4, <2>1, InboundAssumption DEF IInv, TurnsAreGuarded
      <3>6. /\ \A n \in Msg : n # m => line'[n] = line[n]
            /\ line'[m] = p
        BY <3>4 DEF IInv, Types
      <3>7. \A n \in Msg : Active(n)' <=> Active(n)
        BY <3>3 DEF Active
      <3>8. \A k \in Line : pending[k] # m /\ pending[k] \in Msg \cup {NoMsg}
        BY <3>5, InboundAssumption DEF IInv, Types, TurnsAreGuarded
      <3>9. ~Active(m)
        BY <3>5 DEF Active
      <3>10. \A n \in Msg :
                 /\ line'[n] = NoLine => turn'[n].at = "off"
                 /\ Active(n)' => line'[n] # NoLine /\ (line'[n] \in Line => pending'[line'[n]] = n)
        BY <3>3, <3>4, <3>5, <3>6, <3>7, <3>9 DEF IInv, TurnsAreGuarded
      <3>11. \A n, k \in Msg : Active(n)' /\ Active(k)' /\ line'[n] = line'[k] => n = k
        BY <3>6, <3>7, <3>9 DEF IInv, TurnsAreGuarded
      <3>12. \A k \in Line : pending'[k] # NoMsg =>
                 line'[pending'[k]] = k /\ turn'[pending'[k]].at # "off"
        BY <3>3, <3>4, <3>6, <3>8 DEF IInv, TurnsAreGuarded
      <3> QED
        BY <3>10, <3>11, <3>12 DEF TurnsAreGuarded
    <2>3. CASE ~Running(p)
      BY <1>2, <2>1, <2>3, NoneActive, NewTurn DEF Sms
    <2> QED
      BY <2>2, <2>3
  <1>3. ASSUME NEW p \in Calls, NEW m \in Msg, VoiceRequest(p, m)
        PROVE  TurnsAreGuarded'
    <2>1. Voice(p) \in AnyLine /\ Voice(p) \notin Line
      BY InboundAssumption DEF AnyLine
    <2>2. \A n \in Msg : line[n] = Voice(p) => ~Active(n)
      BY <1>3 DEF VoiceRequest, Active
    <2> QED
      BY <1>3, <2>1, <2>2, NewTurn DEF VoiceRequest
  <1>4. ASSUME NEW m \in Msg, Hear(m)
        PROVE  TurnsAreGuarded'
    <2>1. Move(m, "say") /\ Active(m) /\ UNCHANGED <<line, pending>>
      BY <1>4 DEF Hear, Active, AfterAnswer
    <2>2. "say" \in Place \ {"off"}
      BY DEF AfterFailure, AfterAnswer, Place
    <2> QED
      BY <2>1, <2>2, MovedOn, SameTurns
  <1>5. ASSUME NEW m \in Msg, NEW ends \in BOOLEAN, Answer(m, ends)
        PROVE  TurnsAreGuarded'
    <2>1. Move(m, AfterAnswer(m)) /\ Active(m) /\ UNCHANGED <<line, pending>>
      BY <1>5 DEF Answer, Active, AfterAnswer
    <2>2. AfterAnswer(m) \in Place \ {"off"}
      BY DEF AfterFailure, AfterAnswer, Place
    <2> QED
      BY <2>1, <2>2, MovedOn, SameTurns
  <1>6. ASSUME NEW m \in Msg, Fail(m)
        PROVE  TurnsAreGuarded'
    <2>1. Move(m, AfterFailure(m)) /\ Active(m) /\ UNCHANGED <<line, pending>>
      BY <1>6 DEF Fail, Active, AfterAnswer
    <2>2. AfterFailure(m) \in Place \ {"off"}
      BY DEF AfterFailure, AfterAnswer, Place
    <2> QED
      BY <2>1, <2>2, MovedOn, SameTurns
  <1>7. ASSUME NEW m \in Msg, SendText(m)
        PROVE  TurnsAreGuarded'
    <2>1. Move(m, "drain") /\ Active(m) /\ UNCHANGED <<line, pending>>
      BY <1>7 DEF SendText, Active, AfterAnswer
    <2>2. "drain" \in Place \ {"off"}
      BY DEF AfterFailure, AfterAnswer, Place
    <2> QED
      BY <2>1, <2>2, MovedOn, SameTurns
  <1>8. ASSUME NEW m \in Msg, Drain(m)
        PROVE  TurnsAreGuarded'
    <2>1. Active(m) /\ UNCHANGED <<line, pending>>
      BY <1>8 DEF Drain, Active
    <2>2. \A n \in Msg : /\ turn'[n].at = "off" <=> turn[n].at = "off"
                         /\ Active(n)' => Active(n)
      <3>1. CASE Move(m, "done")
        BY <2>1, <3>1, MovedOn DEF Place
      <3>2. CASE ~Move(m, "done")
        BY <1>8, <2>1, <3>2, Drained DEF IInv, Types, Active
      <3> QED
        BY <3>1, <3>2
    <2> QED
      BY <2>1, <2>2, SameTurns
  <1>9. ASSUME NEW m \in Msg, Apologise(m)
        PROVE  TurnsAreGuarded'
    <2>1. Move(m, "close") /\ Active(m) /\ UNCHANGED <<line, pending>>
      BY <1>9 DEF Apologise, Active, AfterAnswer
    <2>2. "close" \in Place \ {"off"}
      BY DEF AfterFailure, AfterAnswer, Place
    <2> QED
      BY <2>1, <2>2, MovedOn, SameTurns
  <1>10. ASSUME NEW m \in Msg, CloseFailed(m)
        PROVE  TurnsAreGuarded'
    <2>1. Move(m, "done") /\ Active(m) /\ UNCHANGED <<line, pending>>
      BY <1>10 DEF CloseFailed, Active, AfterAnswer
    <2>2. "done" \in Place \ {"off"}
      BY DEF AfterFailure, AfterAnswer, Place
    <2> QED
      BY <2>1, <2>2, MovedOn, SameTurns
  <1>11. ASSUME NEW s \in Session, Poll(s)
        PROVE  TurnsAreGuarded'
    <2>1. /\ pending' = [pending EXCEPT ![s] = NoMsg] /\ UNCHANGED <<line, turn>>
          /\ ~Running(s)
      BY <1>11 DEF Poll
    <2>2. \A k \in Line : pending'[k] = IF k = s THEN NoMsg ELSE pending[k]
      BY <2>1 DEF IInv, Types, Line
    <2>3. \A n \in Msg : (Active(n)' <=> Active(n)) /\ (Active(n) => line[n] # s)
      BY <2>1, NoneActive DEF Line, Active
    <2> QED
      BY <2>1, <2>2, <2>3 DEF IInv, TurnsAreGuarded
  <1>12. CASE Crash
    <2>1. \A n \in Msg : /\ turn'[n].at = "off" <=> turn[n].at = "off"
                         /\ ~Active(n)'
      BY <1>12 DEF Crash, NoTurn, Active
    <2>2. UNCHANGED line /\ \A k \in Line : pending'[k] = NoMsg
      BY <1>12 DEF Crash
    <2> QED
      BY <2>1, <2>2 DEF IInv, TurnsAreGuarded
  <1>13. CASE UNCHANGED <<line, pending, turn>>
    BY <1>13 DEF IInv, TurnsAreGuarded, Active
  <1> QED
    BY <1>1, <1>2, <1>3, <1>4, <1>5, <1>6, <1>7, <1>8, <1>9, <1>10, <1>11, <1>12, <1>13
       DEF Next, Worker, GiveUp

-----------------------------------------------------------------------------
(* The order of the texts *)

\* A text that arrives disturbs no order, and may be read after all that came
\* before it.
LEMMA OrderGrows ==
    ASSUME NEW read \in Seq(Msg), NEW came \in Seq(Msg), NEW m \in Msg, InOrder(read, came)
    PROVE  /\ InOrder(read, Append(came, m))
           /\ InOrder(Append(read, m), Append(came, m))
  <1> DEFINE r == Append(read, m)
             c == Append(came, m)
  <1>1. /\ Len(read) \in Nat /\ Len(came) \in Nat
        /\ DOMAIN read = 1 .. Len(read) /\ DOMAIN came = 1 .. Len(came)
    BY LenProperties
  <1>2. /\ r \in Seq(Msg) /\ Len(r) = Len(read) + 1 /\ DOMAIN r = 1 .. Len(read) + 1
        /\ r[Len(read) + 1] = m /\ \A i \in 1 .. Len(read) : r[i] = read[i]
    BY <1>1, AppendProperties, LenProperties
  <1>3. /\ c \in Seq(Msg) /\ Len(c) = Len(came) + 1 /\ DOMAIN c = 1 .. Len(came) + 1
        /\ c[Len(came) + 1] = m /\ \A i \in 1 .. Len(came) : c[i] = came[i]
    BY <1>1, AppendProperties, LenProperties
  <1> HIDE DEF r, c
  <1>4. \A i \in 1 .. Len(read) : \E k \in 1 .. Len(came) : came[k] = read[i]
    BY <1>1 DEF InOrder
  <1>5. \A i, j \in 1 .. Len(read) : i < j =>
            \E k, l \in 1 .. Len(came) : k < l /\ came[k] = read[i] /\ came[l] = read[j]
    BY <1>1 DEF InOrder
  <1>6. \A i \in 1 .. Len(read) : \E k \in DOMAIN c : k < Len(came) + 1 /\ c[k] = read[i]
    <2> SUFFICES ASSUME NEW i \in 1 .. Len(read)
                 PROVE  \E k \in DOMAIN c : k < Len(came) + 1 /\ c[k] = read[i]
      OBVIOUS
    <2>1. PICK k \in 1 .. Len(came) : came[k] = read[i]
      BY <1>4
    <2>2. k \in DOMAIN c /\ k < Len(came) + 1 /\ c[k] = read[i]
      BY <1>1, <1>3, <2>1
    <2> QED
      BY <2>2
  <1>7. \A i, j \in 1 .. Len(read) : i < j =>
            \E k, l \in DOMAIN c : k < l /\ c[k] = read[i] /\ c[l] = read[j]
    <2> SUFFICES ASSUME NEW i \in 1 .. Len(read), NEW j \in 1 .. Len(read), i < j
                 PROVE  \E k, l \in DOMAIN c : k < l /\ c[k] = read[i] /\ c[l] = read[j]
      OBVIOUS
    <2>1. PICK k \in 1 .. Len(came), l \in 1 .. Len(came) :
                   k < l /\ came[k] = read[i] /\ came[l] = read[j]
      BY <1>5
    <2>2. k \in DOMAIN c /\ l \in DOMAIN c /\ c[k] = read[i] /\ c[l] = read[j]
      BY <1>1, <1>3, <2>1
    <2> QED
      BY <2>1, <2>2
  <1>8. InOrder(read, c)
    BY <1>1, <1>6, <1>7 DEF InOrder
  <1>9. InOrder(r, c)
    <2>1. Len(came) + 1 \in DOMAIN c
      BY <1>1, <1>3
    <2>2. ASSUME NEW i \in DOMAIN r
          PROVE  \E k \in DOMAIN c : c[k] = r[i]
      <3>1. CASE i = Len(read) + 1
        BY <1>2, <1>3, <2>1, <3>1
      <3>2. CASE i # Len(read) + 1
        <4>1. i \in 1 .. Len(read)
          BY <1>1, <1>2, <3>2
        <4> QED
          BY <1>2, <1>6, <4>1
      <3> QED
        BY <3>1, <3>2
    <2>3. ASSUME NEW i \in DOMAIN r, NEW j \in DOMAIN r, i < j
          PROVE  \E k, l \in DOMAIN c : k < l /\ c[k] = r[i] /\ c[l] = r[j]
      <3>1. i \in 1 .. Len(read)
        BY <1>1, <1>2, <2>3
      <3>2. CASE j = Len(read) + 1
        <4>1. PICK k \in DOMAIN c : k < Len(came) + 1 /\ c[k] = read[i]
          BY <1>6, <3>1
        <4> QED
          BY <1>2, <1>3, <2>1, <3>1, <3>2, <4>1
      <3>3. CASE j # Len(read) + 1
        <4>1. j \in 1 .. Len(read)
          BY <1>1, <1>2, <3>3
        <4> QED
          BY <1>2, <1>7, <2>3, <3>1, <4>1
      <3> QED
        BY <3>2, <3>3
    <2> QED
      BY <2>2, <2>3 DEF InOrder
  <1> QED
    BY <1>8, <1>9 DEF r, c

\* What is read first of texts in order is in order.
LEMMA OrderOfPrefix ==
    ASSUME NEW s \in Seq(Msg), NEW t \in Seq(Msg), NEW came, InOrder(s \o t, came)
    PROVE  InOrder(s, came)
  <1> DEFINE st == s \o t
  <1>1. /\ Len(s) \in Nat /\ Len(t) \in Nat /\ DOMAIN s = 1 .. Len(s)
        /\ st \in Seq(Msg) /\ Len(st) = Len(s) + Len(t) /\ DOMAIN st = 1 .. Len(s) + Len(t)
        /\ \A i \in 1 .. Len(s) + Len(t) : i <= Len(s) => st[i] = s[i]
    BY LenProperties, ConcatProperties
  <1>2. InOrder(st, came)
    OBVIOUS
  <1> HIDE DEF st
  <1>3. \A i \in DOMAIN s : i \in DOMAIN st /\ st[i] = s[i]
    BY <1>1
  <1> QED
    BY <1>2, <1>3 DEF InOrder

\* To read one text and then others is to read them one after the other.
LEMMA ReadOne ==
    ASSUME NEW s \in Seq(Msg), NEW m \in Msg, NEW t \in Seq(Msg)
    PROVE  /\ <<m>> \o t \in Seq(Msg)
           /\ s \o (<<m>> \o t) = Append(s, m) \o t
  <1>1. <<m>> \in Seq(Msg)
    OBVIOUS
  <1> QED
    BY <1>1, AppendIsConcat, ConcatAssociative, ConcatProperties

\* A text that joins a queue is read after all of it.
LEMMA JoinsTheEnd ==
    ASSUME NEW s \in Seq(Msg), NEW t \in Seq(Msg), NEW m \in Msg
    PROVE  s \o Append(t, m) = Append(s \o t, m)
  <1>1. <<m>> \in Seq(Msg) /\ s \o t \in Seq(Msg)
    BY ConcatProperties
  <1> QED
    BY <1>1, AppendIsConcat, ConcatAssociative

\* A queue is its first text, followed by the others.
LEMMA TakesTheFirst ==
    ASSUME NEW t \in Seq(Msg), t # <<>>
    PROVE  <<Head(t)>> \o Tail(t) = t
  <1> DEFINE u == <<Head(t)>> \o Tail(t)
  <1>1. /\ Head(t) \in Msg /\ Tail(t) \in Seq(Msg) /\ Len(Tail(t)) = Len(t) - 1
        /\ \A i \in 1 .. Len(Tail(t)) : Tail(t)[i] = t[i + 1]
    BY HeadTailProperties
  <1>2. /\ <<Head(t)>> \in Seq(Msg) /\ Len(<<Head(t)>>) = 1 /\ <<Head(t)>>[1] = Head(t)
        /\ Head(t) = t[1] /\ Len(t) \in Nat
    BY <1>1, LenProperties
  <1>3. /\ u \in Seq(Msg) /\ Len(u) = 1 + Len(Tail(t))
        /\ \A i \in 1 .. 1 + Len(Tail(t)) :
               u[i] = IF i <= 1 THEN <<Head(t)>>[i] ELSE Tail(t)[i - 1]
    BY <1>1, <1>2, ConcatProperties
  <1> HIDE DEF u
  <1>4. Len(u) = Len(t)
    BY <1>1, <1>2, <1>3
  <1>5. ASSUME NEW i \in 1 .. Len(u)
        PROVE  u[i] = t[i]
    <2>1. CASE i = 1
      BY <1>1, <1>2, <1>3, <2>1
    <2>2. CASE i # 1
      <3>1. i - 1 \in 1 .. Len(Tail(t)) /\ i \in 1 .. 1 + Len(Tail(t)) /\ ~(i <= 1)
        BY <1>1, <1>2, <1>3, <2>2
      <3>2. u[i] = Tail(t)[i - 1] /\ Tail(t)[i - 1] = t[(i - 1) + 1]
        BY <1>1, <1>3, <3>1
      <3> QED
        BY <3>2, <3>1
    <2> QED
      BY <2>1, <2>2
  <1>6. u = t
    BY <1>3, <1>4, <1>5, SeqEqual
  <1> QED
    BY <1>6 DEF u

\* What a turn in progress has to read are messages.
LEMMA ToReadTyped ==
    ASSUME Types, NEW m \in Msg, Active(m)
    PROVE  ToRead(m) \in Seq(Msg) /\ turn[m].queued \in Seq(Msg)
  <1>1. turn[m].queued \in Seq(Msg) /\ turn[m].now \in Msg
    BY DEF Types, TurnRow
  <1> QED
    BY <1>1, EmptySeq, ReadOne DEF ToRead

\* A step that reads nothing and leaves what is to be read keeps the order.
LEMMA QuietStep ==
    ASSUME IInv, UNCHANGED <<line, arrived, heard>>,
           \A n \in Msg : Active(n)' => Active(n) /\ ToRead(n)' = ToRead(n)
    PROVE  HeardInOrder' /\ QueuesInOrder'
  BY DEF IInv, HeardInOrder, QueuesInOrder

\* A new turn on a line that is not SMS keeps the order of the texts.
LEMMA NewTurnReads ==
    ASSUME IInv, NEW m \in Msg, NEW l \in AnyLine \ Texts, Arrive(m, l), Start(m),
           UNCHANGED <<arrived, heard>>
    PROVE  HeardInOrder' /\ QueuesInOrder'
  <1>1. line'[m] = l /\ \A n \in Msg : n # m => line'[n] = line[n]
    BY DEF Arrive, IInv, Types
  <1>2. \A n \in Msg : n # m => turn'[n] = turn[n]
    BY Started DEF IInv, Types
  <1>3. \A n \in Msg : n # m => (Active(n)' <=> Active(n)) /\ ToRead(n)' = ToRead(n)
    BY <1>2 DEF Active, ToRead
  <1> QED
    BY <1>1, <1>3 DEF IInv, HeardInOrder, QueuesInOrder

\* A turn that has read its message and moves on keeps the order of the texts.
LEMMA MovedQuietly ==
    ASSUME IInv, NEW m \in Msg, Active(m), turn[m].at # "hear",
           NEW at \in Place \ {"off", "hear"}, Move(m, at),
           UNCHANGED <<line, arrived, heard>>
    PROVE  HeardInOrder' /\ QueuesInOrder'
  <1>1. /\ turn'[m].at = at /\ turn'[m].queued = turn[m].queued
        /\ \A n \in Msg : n # m => turn'[n] = turn[n]
    BY Moved DEF IInv, Types, Place
  <1>2. \A n \in Msg : Active(n)' => Active(n) /\ ToRead(n)' = ToRead(n)
    BY <1>1 DEF Active, ToRead
  <1> QED
    BY <1>2, QuietStep

\* A text is read after those that came before it, whether it starts a turn or
\* joins the queue of one.
LEMMA TextComes ==
    ASSUME IInv, NEW p \in Texts, NEW m \in Msg, NEW t \in Msg, Sms(p, m),
           line'[t] = p, Active(t)', ToRead(t)' \in Seq(Msg),
           \/ Active(t) /\ line[t] = p /\ ToRead(t)' = Append(ToRead(t), m)
           \/ ToRead(t)' = <<m>>,
           \A n \in Msg : n # t /\ Active(n)' =>
               line'[n] # p /\ line'[n] = line[n] /\ Active(n) /\ ToRead(n)' = ToRead(n)
    PROVE  HeardInOrder' /\ QueuesInOrder'
  <1>1. /\ heard' = heard /\ arrived' = [arrived EXCEPT ![p] = Append(@, m)]
    BY DEF Sms
  <1>2. /\ arrived'[p] = Append(arrived[p], m)
        /\ \A q \in Texts : q # p => arrived'[q] = arrived[q]
    BY <1>1 DEF IInv, Types
  <1>3. arrived[p] \in Seq(Msg) /\ heard[p] \in Seq(Msg)
    BY DEF IInv, Types
  <1>4. InOrder(heard[p], arrived[p])
    BY DEF IInv, HeardInOrder
  <1>5. InOrder(heard[p], Append(arrived[p], m))
    BY <1>3, <1>4, OrderGrows
  <1>6. HeardInOrder'
    BY <1>1, <1>2, <1>5 DEF IInv, HeardInOrder
  <1>7. InOrder(heard[p] \o ToRead(t)', Append(arrived[p], m))
    <2>1. CASE ToRead(t)' = <<m>>
      <3>1. heard[p] \o ToRead(t)' = Append(heard[p], m)
        BY <1>3, <2>1, AppendIsConcat
      <3> QED
        BY <1>3, <1>4, <3>1, OrderGrows
    <2>2. CASE Active(t) /\ line[t] = p /\ ToRead(t)' = Append(ToRead(t), m)
      <3>1. ToRead(t) \in Seq(Msg)
        BY <2>2, ToReadTyped DEF IInv
      <3>2. heard[p] \o ToRead(t) \in Seq(Msg) /\ InOrder(heard[p] \o ToRead(t), arrived[p])
        BY <1>3, <2>2, <3>1, ConcatProperties DEF IInv, QueuesInOrder
      <3>3. heard[p] \o ToRead(t)' = Append(heard[p] \o ToRead(t), m)
        <4>1. heard[p] \o Append(ToRead(t), m) = Append(heard[p] \o ToRead(t), m)
          BY <1>3, <3>1, JoinsTheEnd
        <4> QED
          BY <2>2, <4>1
      <3> QED
        BY <1>3, <3>2, <3>3, OrderGrows
    <2> QED
      BY <2>1, <2>2
  <1>8. ASSUME NEW n \in Msg, Active(n)', line'[n] \in Texts
        PROVE  InOrder(heard'[line'[n]] \o ToRead(n)', arrived'[line'[n]])
    <2>1. CASE n = t
      BY <1>1, <1>2, <1>7, <2>1
    <2>2. CASE n # t
      BY <1>1, <1>2, <1>8, <2>2 DEF IInv, QueuesInOrder
    <2> QED
      BY <2>1, <2>2
  <1> QED
    BY <1>6, <1>8 DEF QueuesInOrder

\* Every step keeps the texts read, being read and queued in the order they came.
LEMMA OrderKept ==
    ASSUME IInv, Next
    PROVE  HeardInOrder' /\ QueuesInOrder'
  <1>1. ASSUME NEW s \in Session, NEW m \in Msg, ChatMessage(s, m)
        PROVE  HeardInOrder' /\ QueuesInOrder'
    <2>1. s \in AnyLine \ Texts
      BY InboundAssumption DEF AnyLine, Line
    <2> QED
      BY <1>1, <2>1, NewTurnReads DEF ChatMessage
  <1>2. ASSUME NEW p \in Texts, NEW m \in Msg, Sms(p, m)
        PROVE  HeardInOrder' /\ QueuesInOrder'
    <2>1. p \in Line /\ p # NoLine
      BY InboundAssumption DEF Line, AnyLine
    <2>2. /\ line[m] = NoLine /\ turn[m].at = "off" /\ line'[m] = p
          /\ \A n \in Msg : n # m => line'[n] = line[n]
      BY <1>2 DEF Sms, Arrive, IInv, Types, TurnsAreGuarded
    <2>3. TurnsAreGuarded' /\ Types'
      BY GuardedKept, TypesKept
    <2>4. CASE Running(p)
      <3>0. PICK t \in Msg : t = pending[p]
        BY <2>1, <2>4 DEF Running, IInv, Types
      <3>1. t \in Msg /\ Active(t) /\ line[t] = p /\ t # m
        BY <2>1, <2>2, <2>4, <3>0
           DEF Running, IInv, Types, TurnsAreGuarded, Active
      <3>2. turn' = [turn EXCEPT ![t].queued = Append(@, m)]
        BY <1>2, <2>4, <3>0 DEF Sms
      <3>3. /\ turn'[t].at = turn[t].at /\ turn'[t].now = turn[t].now
            /\ turn'[t].queued = Append(turn[t].queued, m)
            /\ \A n \in Msg : n # t => turn'[n] = turn[n]
        BY <3>1, <3>2, Joined DEF IInv, Types
      <3>4. Active(t)' /\ line'[t] = p
        BY <2>2, <3>1, <3>3 DEF Active
      <3>5. turn[t].queued \in Seq(Msg) /\ (turn[t].at = "hear" => <<turn[t].now>> \in Seq(Msg))
        <4>1. turn[t].queued \in Seq(Msg) /\ turn[t].now \in Msg
          BY <3>1 DEF IInv, Types, TurnRow
        <4> QED
          BY <4>1
      <3>6. ToRead(t)' = Append(ToRead(t), m)
        BY <3>3, <3>5, JoinsTheEnd DEF ToRead
      <3>7. ToRead(t)' \in Seq(Msg)
        BY <3>1, <3>6, ToReadTyped, AppendProperties DEF IInv
      <3>8. ASSUME NEW n \in Msg, n # t, Active(n)'
            PROVE  line'[n] # p /\ line'[n] = line[n] /\ Active(n) /\ ToRead(n)' = ToRead(n)
        <4>1. Active(n) /\ ToRead(n)' = ToRead(n)
          BY <3>3, <3>8 DEF Active, ToRead
        <4>2. n # m
          BY <2>2, <4>1 DEF Active
        <4>3. line'[n] # line'[t]
          BY <2>3, <3>1, <3>4, <3>8 DEF TurnsAreGuarded
        <4> QED
          BY <2>2, <3>4, <4>1, <4>2, <4>3
      <3> QED
        BY <1>2, <3>1, <3>4, <3>6, <3>7, <3>8, TextComes
    <2>5. CASE ~Running(p)
      <3>1. Start(m)
        BY <1>2, <2>5 DEF Sms
      <3>2. /\ turn'[m].at = "hear" /\ turn'[m].now = m /\ turn'[m].queued = <<>>
            /\ \A n \in Msg : n # m => turn'[n] = turn[n]
        BY <3>1, Started DEF IInv, Types
      <3>3. Active(m)' /\ <<m>> \in Seq(Msg)
        BY <3>2 DEF Active
      <3>4. ToRead(m)' = <<m>>
        BY <3>2, <3>3, ConcatEmptySeq DEF ToRead
      <3>5. ASSUME NEW n \in Msg, n # m, Active(n)'
            PROVE  line'[n] # p /\ line'[n] = line[n] /\ Active(n) /\ ToRead(n)' = ToRead(n)
        <4>1. Active(n) /\ ToRead(n)' = ToRead(n)
          BY <3>2, <3>5 DEF Active, ToRead
        <4> QED
          BY <2>1, <2>2, <2>5, <3>5, <4>1, NoneActive
      <3> QED
        BY <1>2, <2>2, <3>3, <3>4, <3>5, TextComes
    <2> QED
      BY <2>4, <2>5
  <1>3. ASSUME NEW p \in Calls, NEW m \in Msg, VoiceRequest(p, m)
        PROVE  HeardInOrder' /\ QueuesInOrder'
    <2>1. Voice(p) \in AnyLine \ Texts
      BY InboundAssumption DEF AnyLine, Line
    <2> QED
      BY <1>3, <2>1, NewTurnReads DEF VoiceRequest
  <1>4. ASSUME NEW m \in Msg, Hear(m)
        PROVE  HeardInOrder' /\ QueuesInOrder'
    <2>1. Move(m, "say") /\ turn[m].at = "hear" /\ Active(m) /\ UNCHANGED <<line, arrived>>
      BY <1>4 DEF Hear, Active
    <2>2. /\ turn'[m].at = "say" /\ turn'[m].queued = turn[m].queued
          /\ \A n \in Msg : n # m => turn'[n] = turn[n]
      BY <2>1, Moved DEF IInv, Types, Place
    <2>3. \A n \in Msg : Active(n)' => Active(n) /\ (n # m => ToRead(n)' = ToRead(n))
      BY <2>1, <2>2 DEF Active, ToRead
    <2>4. CASE line[m] \notin Texts
      <3>1. heard' = heard
        BY <1>4, <2>4 DEF Hear
      <3> QED
        BY <2>1, <2>3, <2>4, <3>1 DEF IInv, HeardInOrder, QueuesInOrder
    <2>5. CASE line[m] \in Texts
      <3> DEFINE p == line[m]
                 q == turn[m].queued
                 x == turn[m].now
      <3>1. x \in Msg /\ q \in Seq(Msg) /\ heard[p] \in Seq(Msg)
        BY <2>1, <2>5 DEF IInv, Types, TurnRow
      <3>2. /\ heard'[p] = Append(heard[p], x)
            /\ \A k \in Texts : k # p => heard'[k] = heard[k]
        BY <1>4, <2>5 DEF Hear, IInv, Types
      <3>3. ToRead(m) = <<x>> \o q /\ ToRead(m)' = q
        BY <2>1, <2>2 DEF ToRead
      <3>4. InOrder(heard[p] \o ToRead(m), arrived[p])
        BY <2>1, <2>5 DEF IInv, QueuesInOrder
      <3>5. \A n \in Msg : Active(n) /\ n # m => line[n] # p
        BY <2>1 DEF IInv, TurnsAreGuarded
      <3> HIDE DEF p, q, x
      <3>6. Append(heard[p], x) \in Seq(Msg) /\ heard[p] \o (<<x>> \o q) = Append(heard[p], x) \o q
        BY <3>1, ReadOne, AppendProperties
      <3>7. InOrder(heard'[p] \o q, arrived[p])
        BY <3>2, <3>3, <3>4, <3>6
      <3>8. InOrder(heard'[p], arrived[p])
        BY <3>1, <3>2, <3>6, <3>7, OrderOfPrefix
      <3>9. HeardInOrder'
        BY <2>1, <3>2, <3>8 DEF IInv, HeardInOrder
      <3>10. ASSUME NEW n \in Msg, Active(n)', line'[n] \in Texts
             PROVE  InOrder(heard'[line'[n]] \o ToRead(n)', arrived'[line'[n]])
        <4>1. CASE n = m
          BY <2>1, <3>3, <3>7, <4>1 DEF p
        <4>2. CASE n # m
          BY <2>1, <2>3, <3>2, <3>5, <3>10, <4>2 DEF IInv, QueuesInOrder
        <4> QED
          BY <4>1, <4>2
      <3> QED
        BY <3>9, <3>10 DEF QueuesInOrder
    <2> QED
      BY <2>4, <2>5
  <1>5. ASSUME NEW m \in Msg, NEW ends \in BOOLEAN, Answer(m, ends)
        PROVE  HeardInOrder' /\ QueuesInOrder'
    <2>1. /\ Move(m, AfterAnswer(m)) /\ Active(m) /\ turn[m].at # "hear"
          /\ UNCHANGED <<line, arrived, heard>>
      BY <1>5 DEF Answer, Active, AfterAnswer
    <2>2. AfterAnswer(m) \in Place \ {"off", "hear"}
      BY DEF AfterFailure, AfterAnswer, Place
    <2> QED
      BY <2>1, <2>2, MovedQuietly DEF Place
  <1>6. ASSUME NEW m \in Msg, Fail(m)
        PROVE  HeardInOrder' /\ QueuesInOrder'
    <2>1. /\ Move(m, AfterFailure(m)) /\ Active(m) /\ turn[m].at # "hear"
          /\ UNCHANGED <<line, arrived, heard>>
      BY <1>6 DEF Fail, Active, AfterAnswer
    <2>2. AfterFailure(m) \in Place \ {"off", "hear"}
      BY DEF AfterFailure, AfterAnswer, Place
    <2> QED
      BY <2>1, <2>2, MovedQuietly DEF Place
  <1>7. ASSUME NEW m \in Msg, SendText(m)
        PROVE  HeardInOrder' /\ QueuesInOrder'
    <2>1. /\ Move(m, "drain") /\ Active(m) /\ turn[m].at # "hear"
          /\ UNCHANGED <<line, arrived, heard>>
      BY <1>7 DEF SendText, Active, AfterAnswer
    <2>2. "drain" \in Place \ {"off", "hear"}
      BY DEF AfterFailure, AfterAnswer, Place
    <2> QED
      BY <2>1, <2>2, MovedQuietly DEF Place
  <1>8. ASSUME NEW m \in Msg, Drain(m)
        PROVE  HeardInOrder' /\ QueuesInOrder'
    <2>1. turn[m].at = "drain" /\ Active(m) /\ UNCHANGED <<line, arrived, heard>>
      BY <1>8 DEF Drain, Active
    <2>2. CASE Move(m, "done")
      BY <2>1, <2>2, MovedQuietly DEF Place
    <2>3. CASE ~Move(m, "done")
      <3>1. /\ turn[m].queued # <<>> /\ turn'[m].at = "hear"
            /\ turn'[m].now = Head(turn[m].queued) /\ turn'[m].queued = Tail(turn[m].queued)
            /\ \A n \in Msg : n # m => turn'[n] = turn[n]
        BY <1>8, <2>3, Drained DEF IInv, Types
      <3>2. turn[m].queued \in Seq(Msg)
        BY DEF IInv, Types, TurnRow
      <3>3. /\ ToRead(m) = turn[m].queued
            /\ ToRead(m)' = <<Head(turn[m].queued)>> \o Tail(turn[m].queued)
        BY <2>1, <3>1 DEF ToRead
      <3>4. ToRead(m)' = ToRead(m)
        BY <3>1, <3>2, <3>3, TakesTheFirst
      <3>5. \A n \in Msg : Active(n)' => Active(n) /\ ToRead(n)' = ToRead(n)
        <4>1. \A n \in Msg : n # m /\ Active(n)' => Active(n) /\ ToRead(n)' = ToRead(n)
          BY <3>1 DEF Active, ToRead
        <4> QED
          BY <2>1, <3>4, <4>1
      <3> QED
        BY <2>1, <3>5, QuietStep
    <2> QED
      BY <2>2, <2>3
  <1>9. ASSUME NEW m \in Msg, Apologise(m)
        PROVE  HeardInOrder' /\ QueuesInOrder'
    <2>1. /\ Move(m, "close") /\ Active(m) /\ turn[m].at # "hear"
          /\ UNCHANGED <<line, arrived, heard>>
      BY <1>9 DEF Apologise, Active, AfterAnswer
    <2>2. "close" \in Place \ {"off", "hear"}
      BY DEF AfterFailure, AfterAnswer, Place
    <2> QED
      BY <2>1, <2>2, MovedQuietly DEF Place
  <1>10. ASSUME NEW m \in Msg, CloseFailed(m)
        PROVE  HeardInOrder' /\ QueuesInOrder'
    <2>1. /\ Move(m, "done") /\ Active(m) /\ turn[m].at # "hear"
          /\ UNCHANGED <<line, arrived, heard>>
      BY <1>10 DEF CloseFailed, Active, AfterAnswer
    <2>2. "done" \in Place \ {"off", "hear"}
      BY DEF AfterFailure, AfterAnswer, Place
    <2> QED
      BY <2>1, <2>2, MovedQuietly DEF Place
  <1>11. CASE Crash
    <2>1. \A n \in Msg : ~Active(n)'
      BY <1>11 DEF Crash, NoTurn, Active
    <2>2. UNCHANGED <<line, arrived, heard>>
      BY <1>11 DEF Crash
    <2> QED
      BY <2>1, <2>2, QuietStep
  <1>12. CASE UNCHANGED <<line, turn, arrived, heard>>
    BY <1>12 DEF IInv, HeardInOrder, QueuesInOrder, Active, ToRead
  <1> QED
    BY <1>1, <1>2, <1>3, <1>4, <1>5, <1>6, <1>7, <1>8, <1>9, <1>10, <1>11, <1>12
       DEF Next, Worker, Poll, GiveUp

-----------------------------------------------------------------------------
(* The invariant, for any customers and channels *)

\* The inductive invariant holds in every reachable state.
THEOREM Invariant == Spec => []IInv
  <1>1. Init => IInv
    <2> SUFFICES ASSUME Init
                 PROVE  IInv
      OBVIOUS
    <2>1. NoTurn \in TurnRow /\ NoTurn.at = "off" /\ NewTalk \in TalkRow
      BY EmptySeq DEF NoTurn, NewTalk, TurnRow, TalkRow, Place
    <2>2. \A m \in Msg : turn[m] = NoTurn /\ line[m] = NoLine /\ ~Active(m)
      BY <2>1 DEF Init, Active
    <2>3. \A l \in Line : pending[l] = NoMsg
      BY DEF Init
    <2>4. \A p \in Texts : heard[p] = <<>> /\ arrived[p] = <<>>
      BY DEF Init
    <2>5. Types
      <3>1. turn \in [Msg -> TurnRow] /\ talk \in [Phone -> TalkRow]
        BY <2>1 DEF Init
      <3>2. arrived \in [Texts -> Seq(Msg)] /\ heard \in [Texts -> Seq(Msg)]
        BY EmptySeq DEF Init
      <3>3. /\ line \in [Msg -> AnyLine \cup {NoLine}] /\ pending \in [Line -> Msg \cup {NoMsg}]
            /\ waiting \in [Session -> Msg \cup {NoMsg}] /\ crashes \in 0 .. MaxCrashes
        BY InboundAssumption DEF Init
      <3> QED
        BY <2>2, <3>1, <3>2, <3>3 DEF Types
    <2>6. TurnsAreGuarded
      BY <2>1, <2>2, <2>3 DEF TurnsAreGuarded
    <2>7. HeardInOrder
      BY <2>4 DEF HeardInOrder, InOrder
    <2>8. QueuesInOrder
      BY <2>2 DEF QueuesInOrder
    <2> QED
      BY <2>5, <2>6, <2>7, <2>8 DEF IInv
  <1>2. IInv /\ [Next]_vars => IInv'
    <2>1. CASE Next
      BY <2>1, TypesKept, GuardedKept, OrderKept DEF IInv
    <2>2. CASE UNCHANGED vars
      BY <2>2 DEF vars, IInv, Types, TurnsAreGuarded, HeardInOrder, QueuesInOrder, Active, ToRead
    <2> QED
      BY <2>1, <2>2
  <1> QED
    BY <1>1, <1>2, PTL DEF Spec

\* Every variable of the customers' lines keeps its type.
THEOREM TypeCorrect == Spec => []TypeOK
  <1>1. IInv => TypeOK
    <2> SUFFICES ASSUME IInv
                 PROVE  TypeOK
      OBVIOUS
    <2>1. \A m \in Msg :
              /\ turn[m].at \in {"off", "hear", "say", "text", "drain", "sorry", "close", "done"}
              /\ turn[m].now \in Msg \cup {NoMsg}
              /\ turn[m].queued \in Seq(Msg)
      BY DEF IInv, Types, TurnRow, Place
    <2>2. \A p \in Phone : talk[p].said \in Seq(Entry) /\ talk[p].closed \in BOOLEAN
      BY DEF IInv, Types, TalkRow
    <2>3. \A p \in Texts : arrived[p] \in Seq(Msg) /\ heard[p] \in Seq(Msg)
      BY DEF IInv, Types
    <2> QED
      BY <2>1, <2>2, <2>3 DEF TypeOK, IInv, Types
  <1> QED
    BY <1>1, Invariant, PTL

\* The texts of a number are read in the order they came (server.py:364), for any
\* number of texts, turns that fail and restarts.
THEOREM TextsAreReadInOrder == Spec => []TextsHeardInOrder
  <1>1. IInv => TextsHeardInOrder
    BY DEF IInv, HeardInOrder, InOrder, TextsHeardInOrder
  <1> QED
    BY <1>1, Invariant, PTL

-----------------------------------------------------------------------------
(* Conversations: when each customer keeps to one line *)

\* No customer has two chat sessions, or a chat session and SMS or voice.
OneLineEach ==
    /\ \A s, t \in Session : SessionPhone[s] = SessionPhone[t] => s = t
    /\ \A s \in Session : SessionPhone[s] \notin Texts \cup Calls
    /\ Texts \cap Calls = {}

\* A turn that is talking has just said the customer's words, to a list the agent
\* has not closed.
TalksAreOpen ==
    \A m \in Msg : turn[m].at = "say" =>
        LET t == talk[Customer(m)]
        IN  /\ ~t.closed
            /\ t.said # <<>> /\ t.said[Len(t.said)] = Customers(turn[m].now)

\* The agent has said goodbye; then the conversation is closed.
Ended(said) == \E i \in DOMAIN said : said[i].last

GoodbyesClose == \A p \in Phone : Ended(talk[p].said) => talk[p].closed

\* The inductive invariant of the conversations, on top of IInv.
TalkInv == TalksAreOpen /\ GoodbyesClose /\ MessageListsAreSound

\* MessageListsAreSound, of one list.
Sound(said) ==
    \A i \in DOMAIN said :
        /\ said[i].last => i = Len(said)
        /\ said[i].who = "agent" => i > 1 /\ said[i - 1] = Customers(said[i].msg)

\* Two lines of one customer are the same line.
LEMMA OneLinePerCustomer ==
    ASSUME OneLineEach, Types, NEW m \in Msg, NEW n \in Msg,
           line[m] # NoLine, line[n] # NoLine, Customer(m) = Customer(n)
    PROVE  line[m] = line[n]
  <1> DEFINE Kind(l) == \/ l \in Session /\ PhoneOf(l) = SessionPhone[l]
                        \/ l \in Texts /\ PhoneOf(l) = l
                        \/ l = Voice(PhoneOf(l)) /\ PhoneOf(l) \in Calls
  <1>1. ASSUME NEW l \in AnyLine
        PROVE  Kind(l)
    <2>1. CASE l \in Session
      BY <2>1 DEF PhoneOf
    <2>2. CASE l \in Texts
      BY <2>2, InboundAssumption DEF PhoneOf
    <2>3. ASSUME NEW p \in Calls, l = Voice(p)
          PROVE  Kind(l)
      <3>1. l \notin Session /\ l \notin Texts
        BY <2>3, InboundAssumption DEF Line
      <3>2. PhoneOf(l) = p
        BY <2>3, <3>1 DEF PhoneOf, Voice
      <3> QED
        BY <2>3, <3>2
    <2> QED
      BY <2>1, <2>2, <2>3 DEF AnyLine, Line
  <1>2. Kind(line[m]) /\ Kind(line[n]) /\ PhoneOf(line[m]) = PhoneOf(line[n])
    BY <1>1 DEF Types, Customer
  <1> QED
    BY <1>2 DEF OneLineEach

\* Two turns in progress for one customer are the same turn.
LEMMA TurnsOfOneCustomer ==
    ASSUME OneLineEach, IInv, NEW m \in Msg, NEW n \in Msg, Active(m), Active(n),
           Customer(m) = Customer(n)
    PROVE  m = n
  <1>1. line[m] # NoLine /\ line[n] # NoLine /\ Types
    BY DEF IInv, TurnsAreGuarded
  <1>2. line[m] = line[n]
    BY <1>1, OneLinePerCustomer
  <1> QED
    BY <1>2 DEF IInv, TurnsAreGuarded

\* At most one turn is talking in a conversation (server.py:365), as long as each
\* customer keeps to one line: chat and SMS guard one conversation under two keys.
THEOREM OneTurnAtATime ==
    ASSUME OneLineEach
    PROVE  Spec => []OneTurnPerConversation
  <1>1. IInv => OneTurnPerConversation
    BY TurnsOfOneCustomer DEF OneTurnPerConversation, Active
  <1> QED
    BY <1>1, Invariant, PTL

\* A list nobody has ended stays sound when the customer speaks, or the agent to
\* what the customer has just said; and only the new entry can end it.
LEMMA ListGrows ==
    ASSUME NEW said \in Seq(Entry), NEW entry \in Entry, Sound(said), ~Ended(said),
           entry.who = "agent" => said # <<>> /\ said[Len(said)] = Customers(entry.msg)
    PROVE  /\ Sound(Append(said, entry))
           /\ Ended(Append(said, entry)) => entry.last
  <1> DEFINE longer == Append(said, entry)
             N == Len(said)
  <1>1. /\ N \in Nat /\ DOMAIN said = 1 .. N /\ (said # <<>> => N > 0)
        /\ DOMAIN longer = 1 .. N + 1 /\ Len(longer) = N + 1
        /\ longer[N + 1] = entry /\ \A i \in 1 .. N : longer[i] = said[i]
    BY LenProperties, AppendProperties, EmptySeq
  <1> HIDE DEF longer, N
  <1>2. \A i \in 1 .. N : ~said[i].last
    BY <1>1 DEF Ended
  <1>3. ASSUME NEW i \in DOMAIN longer
        PROVE  /\ longer[i].last => i = N + 1 /\ entry.last
               /\ longer[i].who = "agent" =>
                      i > 1 /\ longer[i - 1] = Customers(longer[i].msg)
    <2>1. CASE i = N + 1
      <3>1. N > 0 => i - 1 \in 1 .. N /\ i - 1 = N /\ i > 1
        BY <1>1, <2>1
      <3> QED
        BY <1>1, <2>1, <3>1 DEF N
    <2>2. CASE i # N + 1
      <3>1. i \in 1 .. N
        BY <1>1, <2>2
      <3>2. longer[i] = said[i] /\ ~longer[i].last
        BY <1>1, <1>2, <3>1
      <3>3. longer[i].who = "agent" => i > 1 /\ said[i - 1] = Customers(longer[i].msg)
        BY <1>1, <3>1, <3>2 DEF Sound
      <3>4. i > 1 => longer[i - 1] = said[i - 1]
        BY <1>1, <3>1
      <3> QED
        BY <3>2, <3>3, <3>4
    <2> QED
      BY <2>1, <2>2
  <1>4. Sound(longer)
    BY <1>1, <1>3 DEF Sound
  <1>5. Ended(longer) => entry.last
    BY <1>3 DEF Ended
  <1> QED
    BY <1>4, <1>5 DEF longer

\* The property of the run is that every customer's list is sound.
LEMMA SoundLists == MessageListsAreSound <=> \A p \in Phone : Sound(talk[p].said)
  BY DEF MessageListsAreSound, Sound

\* A new conversation is sound, open, and not ended.
LEMMA EmptyIsSound == Sound(NewTalk.said) /\ ~Ended(NewTalk.said) /\ ~NewTalk.closed
  BY DEF Sound, Ended, NewTalk

\* A step in which nobody speaks keeps the conversations as they were.
LEMMA NobodyTalks ==
    ASSUME TalkInv, UNCHANGED talk,
           \A n \in Msg : turn'[n].at = "say" =>
               turn[n].at = "say" /\ turn'[n].now = turn[n].now /\ line'[n] = line[n]
    PROVE  TalkInv'
  <1>1. TalksAreOpen'
    BY DEF TalkInv, TalksAreOpen, Customer
  <1>2. GoodbyesClose' /\ MessageListsAreSound'
    BY DEF TalkInv, GoodbyesClose, MessageListsAreSound
  <1> QED
    BY <1>1, <1>2 DEF TalkInv

\* Every step keeps the conversations sound: one that is being talked in is open,
\* and one the agent has ended is closed.
LEMMA TalkKept ==
    ASSUME OneLineEach, IInv, TalkInv, Next
    PROVE  TalkInv'
  <1>1. ASSUME NEW s \in Session, NEW m \in Msg, ChatMessage(s, m)
        PROVE  TalkInv'
    <2>1. Start(m) /\ UNCHANGED talk /\ \A n \in Msg : n # m => line'[n] = line[n]
      BY <1>1 DEF ChatMessage, Arrive, IInv, Types
    <2>2. turn'[m].at # "say" /\ \A n \in Msg : n # m => turn'[n] = turn[n]
      BY <2>1, Started DEF IInv, Types
    <2> QED
      BY <2>1, <2>2, NobodyTalks
  <1>2. ASSUME NEW p \in Texts, NEW m \in Msg, Sms(p, m)
        PROVE  TalkInv'
    <2>1. UNCHANGED talk /\ \A n \in Msg : n # m => line'[n] = line[n]
      BY <1>2 DEF Sms, Arrive, IInv, Types
    <2>2. turn[m].at = "off"
      BY <1>2 DEF Sms, Arrive, IInv, TurnsAreGuarded
    <2>3. CASE Running(p)
      <3>1. pending[p] \in Msg
        BY <2>3 DEF Running, IInv, Types, Line
      <3>2. turn' = [turn EXCEPT ![pending[p]].queued = Append(@, m)]
        BY <1>2, <2>3 DEF Sms
      <3>3. \A n \in Msg : turn'[n].at = turn[n].at /\ turn'[n].now = turn[n].now
        BY <3>1, <3>2, Joined DEF IInv, Types
      <3> QED
        BY <2>1, <2>2, <3>3, NobodyTalks
    <2>4. CASE ~Running(p)
      <3>1. Start(m)
        BY <1>2, <2>4 DEF Sms
      <3>2. turn'[m].at # "say" /\ \A n \in Msg : n # m => turn'[n] = turn[n]
        BY <3>1, Started DEF IInv, Types
      <3> QED
        BY <2>1, <3>2, NobodyTalks
    <2> QED
      BY <2>3, <2>4
  <1>3. ASSUME NEW p \in Calls, NEW m \in Msg, VoiceRequest(p, m)
        PROVE  TalkInv'
    <2>1. Start(m) /\ UNCHANGED talk /\ \A n \in Msg : n # m => line'[n] = line[n]
      BY <1>3 DEF VoiceRequest, Arrive, IInv, Types
    <2>2. turn'[m].at # "say" /\ \A n \in Msg : n # m => turn'[n] = turn[n]
      BY <2>1, Started DEF IInv, Types
    <2> QED
      BY <2>1, <2>2, NobodyTalks
  <1>4. ASSUME NEW m \in Msg, Hear(m)
        PROVE  TalkInv'
    <2> DEFINE p == Customer(m)
               entry == Customers(turn[m].now)
               old == Reopened(p).said
    <2>1. /\ p \in Phone /\ turn[m].now \in Msg /\ talk' \in [Phone -> TalkRow]
          /\ talk'[p].said = Append(old, entry) /\ ~talk'[p].closed
          /\ \A q \in Phone : q # p => talk'[q] = talk[q]
      BY <1>4, HearSays
    <2>2. Move(m, "say") /\ Active(m) /\ line' = line
      BY <1>4 DEF Hear, Active
    <2>3. /\ turn'[m].at = "say" /\ turn'[m].now = turn[m].now
          /\ \A n \in Msg : n # m => turn'[n] = turn[n]
      BY <2>2, Moved DEF IInv, Types, Place
    <2>4. old \in Seq(Entry) /\ Sound(old) /\ ~Ended(old)
      <3>1. Reopened(p) \in TalkRow
        BY <2>1, Reopens DEF IInv, Types
      <3>2. Sound(talk[p].said) /\ (Ended(talk[p].said) => talk[p].closed)
        BY <2>1, SoundLists DEF TalkInv, GoodbyesClose
      <3>3. Sound(old) /\ ~Ended(old)
        BY <3>2, EmptyIsSound DEF Reopened
      <3> QED
        BY <3>1, <3>3 DEF TalkRow
    <2>5. entry \in Entry /\ entry.who = "customer" /\ ~entry.last
      BY <2>1 DEF Customers, Entry
    <2>6. \A n \in Msg : n # m /\ turn'[n].at = "say" =>
              Customer(n) # p /\ turn[n].at = "say" /\ Customer(n) \in Phone
      <3> SUFFICES ASSUME NEW n \in Msg, n # m, turn'[n].at = "say"
                   PROVE  Customer(n) # p /\ turn[n].at = "say" /\ Customer(n) \in Phone
        OBVIOUS
      <3>1. turn[n].at = "say" /\ Active(n)
        BY <2>3 DEF Active
      <3>2. Customer(n) # p
        BY <2>2, <3>1, TurnsOfOneCustomer
      <3>3. Customer(n) \in Phone
        BY <3>1, CustomerIsPhone DEF IInv, TurnsAreGuarded
      <3> QED
        BY <3>1, <3>2, <3>3
    <2>7. \A n \in Msg : Customer(n)' = Customer(n)
      BY <2>2 DEF Customer
    <2> HIDE DEF p, old, entry
    <2>8. Sound(talk'[p].said) /\ ~Ended(talk'[p].said)
      BY <2>1, <2>4, <2>5, ListGrows
    <2>9. GoodbyesClose' /\ MessageListsAreSound'
      <3>1. \A q \in Phone : /\ Sound(talk'[q].said)
                             /\ Ended(talk'[q].said) => talk'[q].closed
        BY <2>1, <2>8, SoundLists DEF TalkInv, GoodbyesClose
      <3>2. MessageListsAreSound' <=> \A q \in Phone : Sound(talk'[q].said)
        BY DEF MessageListsAreSound, Sound
      <3> QED
        BY <3>1, <3>2 DEF GoodbyesClose
    <2>10. /\ talk'[p].said # <<>>
           /\ talk'[p].said[Len(talk'[p].said)] = entry
      BY <2>1, <2>4, <2>5, AppendProperties
    <2>11. TalksAreOpen'
      <3>1. ASSUME NEW n \in Msg, turn'[n].at = "say"
            PROVE  /\ ~talk'[Customer(n)'].closed
                   /\ talk'[Customer(n)'].said # <<>>
                   /\ talk'[Customer(n)'].said[Len(talk'[Customer(n)'].said)]
                          = Customers(turn'[n].now)
        <4>1. CASE n = m
          <5>1. Customer(n)' = p /\ entry = Customers(turn'[n].now)
            BY <2>3, <2>7, <4>1 DEF p, entry
          <5> QED
            BY <2>1, <2>10, <5>1
        <4>2. CASE n # m
          <5>1. turn[n].at = "say" /\ turn'[n] = turn[n] /\ talk'[Customer(n)'] = talk[Customer(n)]
            BY <2>1, <2>3, <2>6, <2>7, <3>1, <4>2
          <5> QED
            BY <5>1 DEF TalkInv, TalksAreOpen
        <4> QED
          BY <4>1, <4>2
      <3> QED
        BY <3>1 DEF TalksAreOpen
    <2> QED
      BY <2>9, <2>11 DEF TalkInv
  <1>5. ASSUME NEW m \in Msg, NEW ends \in BOOLEAN, Answer(m, ends)
        PROVE  TalkInv'
    <2> DEFINE p == Customer(m)
               entry == Agents(turn[m].now, ends)
               old == talk[p].said
    <2>1. /\ p \in Phone /\ turn[m].now \in Msg /\ talk' \in [Phone -> TalkRow]
          /\ talk'[p].said = Append(old, entry) /\ talk'[p].closed = (talk[p].closed \/ ends)
          /\ \A q \in Phone : q # p => talk'[q] = talk[q]
      BY <1>5, AnswerSays
    <2>2. turn[m].at = "say" /\ Active(m) /\ line' = line
      BY <1>5 DEF Answer, Active
    <2>3. /\ turn'[m].at # "say"
          /\ \A n \in Msg : n # m => turn'[n] = turn[n]
      <3>1. Move(m, IF line[m] \in Texts THEN "text" ELSE "done")
        BY <1>5 DEF Answer
      <3> QED
        BY <3>1, Moved DEF IInv, Types, Place
    <2>4. /\ old \in Seq(Entry) /\ Sound(old) /\ ~Ended(old)
          /\ old # <<>> /\ old[Len(old)] = Customers(turn[m].now)
      <3>1. old \in Seq(Entry)
        BY <2>1 DEF IInv, Types, TalkRow
      <3>2. Sound(old) /\ (Ended(old) => talk[p].closed)
        BY <2>1, SoundLists DEF TalkInv, GoodbyesClose
      <3>3. ~talk[p].closed /\ old # <<>> /\ old[Len(old)] = Customers(turn[m].now)
        BY <2>2 DEF TalkInv, TalksAreOpen
      <3> QED
        BY <3>1, <3>2, <3>3
    <2>5. entry \in Entry /\ entry.msg = turn[m].now /\ entry.last = ends
      BY <2>1 DEF Agents, Entry
    <2>6. \A n \in Msg : turn'[n].at = "say" =>
              n # m /\ Customer(n) # p /\ turn[n].at = "say" /\ Customer(n) \in Phone
      <3> SUFFICES ASSUME NEW n \in Msg, turn'[n].at = "say"
                   PROVE  n # m /\ Customer(n) # p /\ turn[n].at = "say" /\ Customer(n) \in Phone
        OBVIOUS
      <3>1. n # m /\ turn[n].at = "say" /\ Active(n)
        BY <2>3 DEF Active
      <3>2. Customer(n) # p
        BY <2>2, <3>1, TurnsOfOneCustomer
      <3>3. Customer(n) \in Phone
        BY <3>1, CustomerIsPhone DEF IInv, TurnsAreGuarded
      <3> QED
        BY <3>1, <3>2, <3>3
    <2>7. \A n \in Msg : Customer(n)' = Customer(n)
      BY <2>2 DEF Customer
    <2> HIDE DEF p, old, entry
    <2>8. Sound(talk'[p].said) /\ (Ended(talk'[p].said) => ends)
      BY <2>1, <2>4, <2>5, ListGrows
    <2>9. GoodbyesClose' /\ MessageListsAreSound'
      <3>1. \A q \in Phone : /\ Sound(talk'[q].said)
                             /\ Ended(talk'[q].said) => talk'[q].closed
        BY <2>1, <2>8, SoundLists DEF TalkInv, GoodbyesClose
      <3>2. MessageListsAreSound' <=> \A q \in Phone : Sound(talk'[q].said)
        BY DEF MessageListsAreSound, Sound
      <3> QED
        BY <3>1, <3>2 DEF GoodbyesClose
    <2>10. TalksAreOpen'
      <3>1. ASSUME NEW n \in Msg, turn'[n].at = "say"
            PROVE  /\ turn[n].at = "say" /\ turn'[n] = turn[n]
                   /\ talk'[Customer(n)'] = talk[Customer(n)]
        BY <2>1, <2>3, <2>6, <2>7, <3>1
      <3> QED
        BY <3>1 DEF TalkInv, TalksAreOpen
    <2> QED
      BY <2>9, <2>10 DEF TalkInv
  <1>6. ASSUME NEW m \in Msg, Fail(m)
        PROVE  TalkInv'
    <2>1. Move(m, AfterFailure(m)) /\ AfterFailure(m) # "say" /\ UNCHANGED <<line, talk>>
      BY <1>6 DEF Fail, AfterFailure, AfterAnswer, Place
    <2>2. AfterFailure(m) \in Place
      BY DEF AfterFailure, AfterAnswer, Place
    <2>3. turn'[m].at # "say" /\ \A n \in Msg : n # m => turn'[n] = turn[n]
      BY <2>1, <2>2, Moved DEF IInv, Types, Place
    <2> QED
      BY <2>1, <2>3, NobodyTalks
  <1>7. ASSUME NEW m \in Msg, SendText(m)
        PROVE  TalkInv'
    <2>1. Move(m, "drain") /\ "drain" # "say" /\ UNCHANGED <<line, talk>>
      BY <1>7 DEF SendText, AfterFailure, AfterAnswer, Place
    <2>2. "drain" \in Place
      BY DEF AfterFailure, AfterAnswer, Place
    <2>3. turn'[m].at # "say" /\ \A n \in Msg : n # m => turn'[n] = turn[n]
      BY <2>1, <2>2, Moved DEF IInv, Types, Place
    <2> QED
      BY <2>1, <2>3, NobodyTalks
  <1>8. ASSUME NEW m \in Msg, Drain(m)
        PROVE  TalkInv'
    <2>1. UNCHANGED <<line, talk>>
      BY <1>8 DEF Drain
    <2>2. turn'[m].at # "say" /\ \A n \in Msg : n # m => turn'[n] = turn[n]
      BY <1>8, Drained, Moved DEF IInv, Types, Place
    <2> QED
      BY <2>1, <2>2, NobodyTalks
  <1>9. ASSUME NEW m \in Msg, Apologise(m)
        PROVE  TalkInv'
    <2>1. Move(m, "close") /\ "close" # "say" /\ UNCHANGED <<line, talk>>
      BY <1>9 DEF Apologise, AfterFailure, AfterAnswer, Place
    <2>2. "close" \in Place
      BY DEF AfterFailure, AfterAnswer, Place
    <2>3. turn'[m].at # "say" /\ \A n \in Msg : n # m => turn'[n] = turn[n]
      BY <2>1, <2>2, Moved DEF IInv, Types, Place
    <2> QED
      BY <2>1, <2>3, NobodyTalks
  <1>10. ASSUME NEW m \in Msg, CloseFailed(m)
        PROVE  TalkInv'
    <2>1. Move(m, "done") /\ "done" # "say" /\ UNCHANGED <<line, talk>>
      BY <1>10 DEF CloseFailed, AfterFailure, AfterAnswer, Place
    <2>2. "done" \in Place
      BY DEF AfterFailure, AfterAnswer, Place
    <2>3. turn'[m].at # "say" /\ \A n \in Msg : n # m => turn'[n] = turn[n]
      BY <2>1, <2>2, Moved DEF IInv, Types, Place
    <2> QED
      BY <2>1, <2>3, NobodyTalks
  <1>11. CASE Crash
    <2>1. /\ \A q \in Phone : talk'[q] = NewTalk
          /\ \A n \in Msg : turn'[n].at # "say"
      BY <1>11 DEF Crash, NoTurn
    <2>2. TalksAreOpen' /\ GoodbyesClose'
      BY <2>1, EmptyIsSound DEF TalksAreOpen, GoodbyesClose
    <2>3. MessageListsAreSound'
      <3>1. \A q \in Phone : Sound(talk'[q].said)
        BY <2>1, EmptyIsSound
      <3> QED
        BY <3>1 DEF MessageListsAreSound, Sound
    <2> QED
      BY <2>2, <2>3 DEF TalkInv
  <1>12. CASE UNCHANGED <<line, turn, talk>>
    BY <1>12 DEF TalkInv, TalksAreOpen, GoodbyesClose, MessageListsAreSound, Customer
  <1> QED
    BY <1>1, <1>2, <1>3, <1>4, <1>5, <1>6, <1>7, <1>8, <1>9, <1>10, <1>11, <1>12
       DEF Next, Worker, Poll, GiveUp

\* Nothing is said in a list after the agent's goodbye (conversation.py:112), and the
\* agent speaks directly after the message it answers.
THEOREM GoodbyesAreLast ==
    ASSUME OneLineEach
    PROVE  Spec => []MessageListsAreSound
  <1>1. Init => TalkInv
    <2> SUFFICES ASSUME Init
                 PROVE  TalkInv
      OBVIOUS
    <2>1. /\ \A q \in Phone : talk[q] = NewTalk
          /\ \A n \in Msg : turn[n].at # "say"
      BY DEF Init, NoTurn
    <2> QED
      BY <2>1, EmptyIsSound, SoundLists DEF TalkInv, TalksAreOpen, GoodbyesClose
  <1>2. IInv /\ TalkInv /\ [Next]_vars => TalkInv'
    <2>1. ASSUME IInv, TalkInv, UNCHANGED vars
          PROVE  TalkInv'
      BY <2>1
         DEF vars, TalkInv, TalksAreOpen, GoodbyesClose, MessageListsAreSound, Customer
    <2> QED
      BY <2>1, TalkKept
  <1>3. TalkInv => MessageListsAreSound
    BY DEF TalkInv
  <1> QED
    BY <1>1, <1>2, <1>3, Invariant, PTL DEF Spec

=============================================================================
