------------------------------ MODULE Inbound ------------------------------
(***************************************************************************)
(* The customers' side of the live server (src/plumbing/live/server.py,    *)
(* sessions.py, conversation.py): web chat that answers by polling, SMS    *)
(* that answers by texting back, voice that answers on the request.  A     *)
(* turn of the agent takes minutes and runs on a thread of its own; what   *)
(* turns share is the table of turns in flight, kept per line, and the     *)
(* conversations, kept per customer.                                       *)
(*                                                                         *)
(* A turn is named after the message that started it, and so is its        *)
(* _Pending record.  Requests that are refused (rate limit, 409) change    *)
(* nothing here and are no steps.                                          *)
(***************************************************************************)
EXTENDS Naturals, FiniteSets, Sequences, Functions

CONSTANTS
    Msg,             \* messages customers send
    Phone,           \* customers
    Session,         \* web chat sessions, opened
    SessionPhone,    \* [Session -> Phone]
    Texts, Calls,    \* the customers who use SMS, and voice
    MayFail,         \* the lines on which a turn may raise
    MaxCrashes,      \* bound: restarts of the server
    NoMsg, NoLine

\* A line in the table of turns in flight: a chat session, or "sms:" and a
\* number.  Voice keeps no entry; its line is the pair of "voice" and number.
Line == Session \cup Texts
Voice(p) == <<"voice", p>>
AnyLine == Line \cup {Voice(p) : p \in Calls}

ASSUME InboundAssumption ==
    /\ NoMsg \notin Msg /\ NoLine \notin AnyLine
    /\ SessionPhone \in [Session -> Phone]
    /\ Texts \subseteq Phone /\ Calls \subseteq Phone
    /\ Session \cap Phone = {} /\ \A p \in Calls : Voice(p) \notin Line
    /\ MaxCrashes \in Nat

VARIABLES
    line,            \* where each message arrived
    pending,         \* Inbound._pending: the turn last started on a line
    turn,            \* the turns
    talk,            \* the conversations: their message list, and `closed`
    waiting,         \* the message a widget is polling for
    arrived, heard,  \* the texts of each number, in order of arrival and of reading
    crashes

vars == <<line, pending, turn, talk, waiting, arrived, heard, crashes>>

-----------------------------------------------------------------------------
PhoneOf(l) ==
    IF l \in Session THEN SessionPhone[l] ELSE IF l \in Texts THEN l ELSE l[2]

\* sessions.key_for: one conversation per number, whatever the channel.
Customer(m) == PhoneOf(line[m])

NoTurn == [at |-> "off", now |-> NoMsg, queued |-> <<>>]
NewTalk == [said |-> <<>>, closed |-> FALSE]

Entry == [who: {"customer", "agent"}, msg: Msg, last: BOOLEAN]
Customers(m) == [who |-> "customer", msg |-> m, last |-> FALSE]
Agents(m, ends) == [who |-> "agent", msg |-> m, last |-> ends]

\* The type invariant.
TypeOK ==
    /\ line \in [Msg -> AnyLine \cup {NoLine}]
    /\ pending \in [Line -> Msg \cup {NoMsg}]
    /\ \A m \in Msg :
        /\ turn[m].at \in {"off", "hear", "say", "text", "drain", "sorry", "close", "done"}
        /\ turn[m].now \in Msg \cup {NoMsg}
        /\ turn[m].queued \in Seq(Msg)
    /\ \A p \in Phone : talk[p].said \in Seq(Entry) /\ talk[p].closed \in BOOLEAN
    /\ waiting \in [Session -> Msg \cup {NoMsg}]
    /\ \A p \in Texts : arrived[p] \in Seq(Msg) /\ heard[p] \in Seq(Msg)
    /\ crashes \in 0 .. MaxCrashes

Init ==
    /\ line = [m \in Msg |-> NoLine]
    /\ pending = [l \in Line |-> NoMsg]
    /\ turn = [m \in Msg |-> NoTurn]
    /\ talk = [p \in Phone |-> NewTalk]
    /\ waiting = [s \in Session |-> NoMsg]
    /\ arrived = [p \in Texts |-> <<>>]
    /\ heard = [p \in Texts |-> <<>>]
    /\ crashes = 0

-----------------------------------------------------------------------------
(* Messages arrive *)

\* A plausible slip: nobody looks for a turn in flight.
RunningNever(l) == FALSE

Running(l) == pending[l] # NoMsg /\ turn[pending[l]].at # "done"

Arrive(m, l) == line[m] = NoLine /\ line' = [line EXCEPT ![m] = l]

Start(m) == turn' = [turn EXCEPT ![m] = [NoTurn EXCEPT !.at = "hear", !.now = m]]

\* The widget does not send while it waits.
ChatMessage(s, m) ==
    /\ Arrive(m, s)
    /\ waiting[s] = NoMsg
    /\ ~Running(s)
    /\ Start(m)
    /\ pending' = [pending EXCEPT ![s] = m]
    /\ waiting' = [waiting EXCEPT ![s] = m]
    /\ UNCHANGED <<talk, arrived, heard, crashes>>

\* A text that finds a turn in flight joins that turn's queue.
Sms(p, m) ==
    /\ Arrive(m, p)
    /\ arrived' = [arrived EXCEPT ![p] = Append(@, m)]
    /\ IF Running(p)
       THEN /\ turn' = [turn EXCEPT ![pending[p]].queued = Append(@, m)]
            /\ UNCHANGED pending
       ELSE /\ Start(m)
            /\ pending' = [pending EXCEPT ![p] = m]
    /\ UNCHANGED <<talk, waiting, heard, crashes>>

\* The phone company asks for the next answer when it has the last one.
VoiceRequest(p, m) ==
    /\ Arrive(m, Voice(p))
    /\ \A n \in Msg : line[n] = Voice(p) => turn[n].at = "done"
    /\ Start(m)
    /\ UNCHANGED <<pending, talk, waiting, arrived, heard, crashes>>

-----------------------------------------------------------------------------
(* The turns: _run_turn, _run_sms, voice, LiveConversation.say *)

Move(m, at) == turn' = [turn EXCEPT ![m].at = at]

\* A plausible slip: a closed conversation is simply continued.
ReopenedContinues(p) == talk[p]

\* say on a closed conversation starts a new message list.
Reopened(p) == IF talk[p].closed THEN NewTalk ELSE talk[p]

Hear(m) ==
    LET p == Customer(m)
    IN  /\ turn[m].at = "hear"
        /\ talk' = [talk EXCEPT ![p] =
               [Reopened(p) EXCEPT !.said = Append(@, Customers(turn[m].now))]]
        /\ heard' = IF line[m] \in Texts
                    THEN [heard EXCEPT ![line[m]] = Append(@, turn[m].now)] ELSE heard
        /\ Move(m, "say")
        /\ UNCHANGED <<line, pending, waiting, arrived, crashes>>

\* The agent's answer, which may be its last.
Answer(m, ends) ==
    /\ turn[m].at = "say"
    /\ talk' = [talk EXCEPT ![Customer(m)] =
           [said |-> Append(@.said, Agents(turn[m].now, ends)), closed |-> @.closed \/ ends]]
    /\ Move(m, IF line[m] \in Texts THEN "text" ELSE "done")
    /\ UNCHANGED <<line, pending, waiting, arrived, heard, crashes>>

\* A plausible slip: the failed turn is never marked done.
AfterFailureHangs(m) == IF line[m] \in Texts THEN "sorry" ELSE "stuck"

AfterFailure(m) == IF line[m] \in Texts THEN "sorry" ELSE "done"

\* The model or the database raised: what the customer said stays unanswered.
Fail(m) ==
    /\ turn[m].at = "say"
    /\ line[m] \in MayFail
    /\ Move(m, AfterFailure(m))
    /\ UNCHANGED <<line, pending, talk, waiting, arrived, heard, crashes>>

SendText(m) ==
    /\ turn[m].at = "text"
    /\ Move(m, "drain")
    /\ UNCHANGED <<line, pending, talk, waiting, arrived, heard, crashes>>

\* A plausible slip: the newest text is taken first.
NextQueuedNewest(queue) == [first |-> queue[Len(queue)], rest |-> SubSeq(queue, 1, Len(queue) - 1)]

\* A plausible slip: taking one text empties the queue.
NextQueuedOnly(queue) == [first |-> Head(queue), rest |-> <<>>]

NextQueued(queue) == [first |-> Head(queue), rest |-> Tail(queue)]

Drain(m) ==
    /\ turn[m].at = "drain"
    /\ IF turn[m].queued = <<>> THEN Move(m, "done")
       ELSE LET next == NextQueued(turn[m].queued)
            IN  turn' = [turn EXCEPT ![m] = [at |-> "hear", now |-> next.first,
                                             queued |-> next.rest]]
    /\ UNCHANGED <<line, pending, talk, waiting, arrived, heard, crashes>>

\* A failed SMS turn apologises and ends, whatever is queued.
Apologise(m) ==
    /\ turn[m].at = "sorry"
    /\ Move(m, "close")
    /\ UNCHANGED <<line, pending, talk, waiting, arrived, heard, crashes>>

CloseFailed(m) ==
    /\ turn[m].at = "close"
    /\ Move(m, "done")
    /\ UNCHANGED <<line, pending, talk, waiting, arrived, heard, crashes>>

-----------------------------------------------------------------------------
(* The widget: polling, giving up *)

\* Idle (the server restarted), or the outcome, handed over once.
Poll(s) ==
    /\ waiting[s] # NoMsg
    /\ ~Running(s)
    /\ pending' = [pending EXCEPT ![s] = NoMsg]
    /\ waiting' = [waiting EXCEPT ![s] = NoMsg]
    /\ UNCHANGED <<line, turn, talk, arrived, heard, crashes>>

\* Five minutes without an answer, or the page reloaded.
GiveUp(s) ==
    /\ waiting[s] # NoMsg
    /\ waiting' = [waiting EXCEPT ![s] = NoMsg]
    /\ UNCHANGED <<line, pending, turn, talk, arrived, heard, crashes>>

\* Turns and conversations are in memory on purpose.
Crash ==
    /\ crashes < MaxCrashes
    /\ crashes' = crashes + 1
    /\ pending' = [l \in Line |-> NoMsg]
    /\ turn' = [m \in Msg |-> IF turn[m].at = "off" THEN NoTurn
                              ELSE [NoTurn EXCEPT !.at = "done"]]
    /\ talk' = [p \in Phone |-> NewTalk]
    /\ UNCHANGED <<line, waiting, arrived, heard>>

-----------------------------------------------------------------------------
Worker(m) ==
    \/ Hear(m)
    \/ \E ends \in BOOLEAN : Answer(m, ends)
    \/ Fail(m)
    \/ SendText(m)
    \/ Drain(m)
    \/ Apologise(m)
    \/ CloseFailed(m)

Next ==
    \/ \E s \in Session, m \in Msg : ChatMessage(s, m)
    \/ \E p \in Texts, m \in Msg : Sms(p, m)
    \/ \E p \in Calls, m \in Msg : VoiceRequest(p, m)
    \/ \E m \in Msg : Worker(m)
    \/ \E s \in Session : Poll(s)
    \/ \E s \in Session : GiveUp(s)
    \/ Crash

\* A thread that was started runs; a widget that waits keeps polling.
Fairness ==
    /\ \A m \in Msg : WF_vars(Worker(m))
    /\ \A s \in Session : WF_vars(Poll(s))

Spec == Init /\ [][Next]_vars
FairSpec == Spec /\ Fairness

-----------------------------------------------------------------------------
(* Properties *)

\* At most one turn is talking in a conversation (server.py:365, "but not run
\* concurrently, because one conversation has one message list").
OneTurnPerConversation ==
    \A m, n \in Msg : turn[m].at = "say" /\ turn[n].at = "say" /\ m # n
                        => Customer(m) # Customer(n)

\* Nothing is said in a message list after the agent's goodbye
\* (conversation.py:112, a closed process reopens as a new one), and what the
\* agent says directly follows the message it answers.
MessageListsAreSound ==
    \A p \in Phone : \A i \in DOMAIN talk[p].said :
        LET entry == talk[p].said[i]
        IN  /\ entry.last => i = Len(talk[p].said)
            /\ entry.who = "agent" =>
                   i > 1 /\ talk[p].said[i - 1] = Customers(entry.msg)

\* The texts of one number are read in the order they came.
TextsHeardInOrder ==
    \A p \in Texts : \A i, j \in DOMAIN heard[p] : i < j =>
        \E k, l \in DOMAIN arrived[p] :
            k < l /\ arrived[p][k] = heard[p][i] /\ arrived[p][l] = heard[p][j]

\* In the hands of a turn that has not failed, and not yet read.
Held(m, p) ==
    \E n \in Msg :
        /\ line[n] = p
        /\ turn[n].at \notin {"off", "sorry", "close", "done"}
        /\ m \in Range(turn[n].queued) \/ (turn[n].at = "hear" /\ turn[n].now = m)

Lost(p) == \E n \in Msg : line[n] = p /\ turn[n].at = "sorry"

\* Every text that finds a turn in flight is read, unless that turn fails or the
\* server restarts first (server.py:364, "Both are theirs and both matter, so it
\* is queued rather than dropped").
EveryTextIsHeard ==
    \A p \in Texts, m \in Msg, c \in 0 .. MaxCrashes :
        Held(m, p) /\ crashes = c ~> m \in Range(heard[p]) \/ Lost(p) \/ crashes > c

\* A widget that keeps polling gets an answer, an apology or "idle", though
\* turns fail and the server restarts (server.py:285, "A worker that dies
\* silently leaves the front end polling forever").
NobodyPollsForever == \A s \in Session : waiting[s] # NoMsg ~> waiting[s] = NoMsg
=============================================================================
