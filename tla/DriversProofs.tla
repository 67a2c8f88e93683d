--------------------------- MODULE DriversProofs ---------------------------
(***************************************************************************)
(* What holds of a turn for any number of agents, any limits and any       *)
(* length of a message, under either driver.                               *)
(***************************************************************************)
EXTENDS Drivers, TLAPS

\* Every request of the model that is not the last is paid for by a call.
Budget ==
    /\ at = "model" => asked <= used /\ used < MaxToolCalls
    /\ at = "calls" => /\ asked <= used + left /\ asked <= MaxToolCalls
                       /\ used + left < MaxToolCalls + MaxBatch
    /\ at = "ceiling" => asked <= MaxToolCalls
    /\ TurnIsAffordable

\* While the calls are dispatched, what was raised is what the context says.
Raised ==
    at = "calls" =>
        /\ "transfer" \in called <=> request # NoAgent
        /\ "end" \in called => ended

TurnInv == TurnTypeOK /\ Budget /\ Raised /\ SignalsObeyed /\ TransfersWithinLimit

IInv == TypeOK /\ TurnInv

-----------------------------------------------------------------------------
(* The steps of the agent *)

\* A message with tool calls is paid for by the calls it brings.
LEMMA OneMoreMessage ==
    ASSUME NEW a \in Nat, NEW u \in Nat, NEW n \in Nat, NEW limit \in Nat, NEW batch \in Nat,
           a <= u, u < limit, n > 0, n <= batch
    PROVE  /\ a + 1 <= u + n /\ a + 1 <= limit
           /\ u + n < limit + batch /\ a + 1 <= limit + 1
  OBVIOUS

\* Whatever the model and the tools do, the turn stays within its budget and
\* the signals say what was raised.
LEMMA AgentKeepsInv ==
    ASSUME TurnAssumption, TurnInv, TurnNext
    PROVE  TurnInv'
  <1> USE DEF TurnInv, TurnTypeOK, Budget, TurnIsAffordable, Raised, SignalsObeyed,
              TransfersWithinLimit, TurnAssumption, signals, counts, Return, Returned
  <1>1. CASE Answer
    BY <1>1 DEF Answer
  <1>2. CASE CallTools
    <2>1. /\ at = "model" /\ at' = "calls"
          /\ left' \in Nat /\ left' <= MaxBatch /\ left' > 0 /\ left' \in 0 .. MaxBatch
          /\ asked' = asked + 1
          /\ UNCHANGED <<active, request, ended, handedTo, used, turn, called, handoffs,
                         switches, rounds>>
      BY <1>2 DEF CallTools
    <2>2. TurnTypeOK'
      BY <2>1
    <2>3. Budget'
      <3>1. /\ asked \in Nat /\ used \in Nat /\ MaxToolCalls \in Nat /\ MaxBatch \in Nat
            /\ asked <= used /\ used < MaxToolCalls
        BY <2>1
      <3>2. /\ asked + 1 <= used + left' /\ asked + 1 <= MaxToolCalls
            /\ used + left' < MaxToolCalls + MaxBatch /\ asked + 1 <= MaxToolCalls + 1
        BY <2>1, <3>1, OneMoreMessage
      <3> QED
        BY <2>1, <3>2
    <2>4. (Raised /\ SignalsObeyed /\ TransfersWithinLimit)'
      BY <2>1
    <2> QED
      BY <2>2, <2>3, <2>4
  <1>3. CASE AnswerNow
    BY <1>3 DEF AnswerNow
  <1>4. CASE ModelFails
    BY <1>4 DEF ModelFails
  <1>5. ASSUME NEW to \in Agent, Transfer(to)
        PROVE  TurnInv'
    BY <1>5 DEF Transfer, Dispatch
  <1>6. CASE End
    BY <1>6 DEF End, Dispatch
  <1>7. CASE OtherCall
    BY <1>7 DEF OtherCall, Dispatch
  <1>8. CASE HandOver
    BY <1>8 DEF HandOver, BatchDone
  <1>9. CASE EndTurn
    BY <1>9 DEF EndTurn, BatchDone
  <1>10. CASE AskAgain
    BY <1>10 DEF AskAgain, BatchDone
  <1> QED
    BY <1>1, <1>2, <1>3, <1>4, <1>5, <1>6, <1>7, <1>8, <1>9, <1>10 DEF TurnNext

-----------------------------------------------------------------------------
(* The steps of the drivers *)

\* A round is counted, and a turn starts or the loop is spent.
LEMMA RoundCounted ==
    ASSUME NEW limit, rounds \in Nat, NextRound(limit)
    PROVE  rounds' \in Nat /\ (Respond \/ Rest("spent"))
  BY DEF NextRound

\* A driver acts between turns: it starts one or rests, and keeps the count.
LEMMA DriverKeepsInv ==
    ASSUME TurnAssumption, TurnInv, at # "calls",
           Respond \/ Rest("waiting") \/ Rest("spent"),
           request' = request, handedTo' = handedTo, ended' \in BOOLEAN,
           active' \in Enabled, rounds' \in Nat,
           handoffs' \in 0 .. MaxHandoffs + 1, switches' \in 0 .. MaxHandoffs,
           TransfersWithinLimit'
    PROVE  TurnInv'
  <1> USE DEF TurnInv, TurnTypeOK, Budget, TurnIsAffordable, Raised, SignalsObeyed,
              TurnAssumption, Nothing, Returned
  <1>1. CASE Respond
    <2>1. /\ at' = "model" /\ used' = 0 /\ left' = 0 /\ asked' = 0 /\ called' = {}
          /\ turn'.kind = "none" /\ turn'.to = NoAgent
      BY <1>1 DEF Respond
    <2>2. MaxToolCalls \in Nat /\ MaxToolCalls > 0 /\ MaxBatch \in Nat /\ MaxBatch > 0
      OBVIOUS
    <2>3. Budget' /\ used' \in 0 .. MaxToolCalls + MaxBatch - 1 /\ left' \in 0 .. MaxBatch
      BY <2>1, <2>2
    <2>4. TurnTypeOK'
      BY <2>1, <2>3
    <2> QED
      BY <2>1, <2>3, <2>4
  <1>2. CASE Rest("waiting") \/ Rest("spent")
    <2>1. /\ at' \in {"waiting", "spent"}
          /\ turn'.kind = "none" /\ turn'.to = NoAgent
          /\ UNCHANGED <<used, left, asked, called>>
      BY <1>2 DEF Rest
    <2> QED
      BY <2>1
  <1> QED
    BY <1>1, <1>2

\* The take-over of a transfer keeps the count of transfers true.
LEMMA TakeOverCounted ==
    ASSUME TurnAssumption, TurnInv, NEW to \in Enabled, TakeOver(to)
    PROVE  /\ request' = request /\ handedTo' = handedTo /\ ended' \in BOOLEAN
           /\ active' \in Enabled
           /\ handoffs' \in 0 .. MaxHandoffs + 1 /\ switches' \in 0 .. MaxHandoffs
           /\ TransfersWithinLimit'
  <1>1. /\ MaxHandoffs \in Nat /\ handoffs \in Nat /\ handoffs + 1 <= MaxHandoffs
        /\ switches = handoffs
    BY DEF TakeOver, OverLimit, TurnInv, TurnTypeOK, TransfersWithinLimit, TurnAssumption
  <1>2. /\ handoffs' = handoffs + 1 /\ switches' = switches + 1
        /\ active' = to /\ ended' = FALSE /\ UNCHANGED <<request, handedTo>>
    BY DEF TakeOver
  <1>3. /\ handoffs' \in 0 .. MaxHandoffs + 1 /\ switches' \in 0 .. MaxHandoffs
        /\ TransfersWithinLimit'
    BY <1>1, <1>2 DEF TransfersWithinLimit
  <1> QED
    BY <1>2, <1>3

\* So does leaving everything but the loop as it is.
LEMMA NothingCounted ==
    ASSUME TurnInv, UNCHANGED <<active, signals, counts>>
    PROVE  /\ request' = request /\ handedTo' = handedTo /\ ended' \in BOOLEAN
           /\ active' \in Enabled
           /\ handoffs' \in 0 .. MaxHandoffs + 1 /\ switches' \in 0 .. MaxHandoffs
           /\ TransfersWithinLimit'
  BY DEF TurnInv, TurnTypeOK, TransfersWithinLimit, signals, counts

\* The live driver keeps the turn's invariant.
LEMMA LiveKeepsInv ==
    ASSUME TurnAssumption, TurnInv, LiveStep \/ Say
    PROVE  TurnInv'
  <1>0. rounds \in Nat
    BY DEF TurnInv, TurnTypeOK
  <1>1. CASE TransferNowhere \/ Nudge
    <2>1. /\ at # "calls" /\ UNCHANGED <<active, signals, counts>>
          /\ NextRound(MaxRounds)
      BY <1>1 DEF TransferNowhere, Nudge, counts
    <2> QED
      BY <1>0, <2>1, RoundCounted, NothingCounted, DriverKeepsInv
  <1>2. CASE TransferTooMany
    <2>1. /\ at # "calls" /\ NextRound(MaxRounds) /\ OverLimit
          /\ handoffs' = MaxHandoffs + 1 /\ switches' = switches
          /\ active' = active /\ request' = request /\ ended' = ended /\ handedTo' = handedTo
      BY <1>2 DEF TransferTooMany, signals
    <2>2. /\ ended' \in BOOLEAN /\ active' \in Enabled
          /\ handoffs' \in 0 .. MaxHandoffs + 1 /\ switches' \in 0 .. MaxHandoffs
          /\ TransfersWithinLimit'
      BY <2>1 DEF OverLimit, TurnInv, TurnTypeOK, TransfersWithinLimit, TurnAssumption
    <2> QED
      BY <1>0, <2>1, <2>2, RoundCounted, DriverKeepsInv
  <1>3. CASE Switch
    <2>1. at # "calls" /\ NextRound(MaxRounds) /\ turn.to \in Enabled /\ TakeOver(turn.to)
      BY <1>3 DEF Switch
    <2> QED
      BY <1>0, <2>1, RoundCounted, TakeOverCounted, DriverKeepsInv
  <1>4. CASE Close \/ Deliver \/ Apologise \/ Raise
    <2>1. /\ at # "calls" /\ UNCHANGED <<active, signals, counts>>
          /\ rounds' = rounds /\ Rest("waiting")
      BY <1>4 DEF Close, Deliver, Apologise, Raise
    <2> QED
      BY <1>0, <2>1, NothingCounted, DriverKeepsInv
  <1>5. CASE Say
    <2>1. at # "calls" /\ rounds' = 0 /\ Respond
      BY <1>5 DEF Say
    <2>2. CASE closed
      <3>1. /\ handoffs' = 0 /\ switches' = 0 /\ active' = Entry /\ ended' = FALSE
            /\ request' = request /\ handedTo' = handedTo
        BY <1>5, <2>2 DEF Say, Restart
      <3>2. MaxHandoffs \in Nat /\ Entry \in Enabled
        BY DEF TurnAssumption
      <3>3. /\ handoffs' \in 0 .. MaxHandoffs + 1 /\ switches' \in 0 .. MaxHandoffs
            /\ TransfersWithinLimit'
        BY <3>1, <3>2 DEF TransfersWithinLimit
      <3> QED
        BY <2>1, <3>1, <3>2, <3>3, DriverKeepsInv
    <2>3. CASE ~closed
      <3>1. UNCHANGED <<active, signals, counts>>
        BY <1>5, <2>3 DEF Say
      <3> QED
        BY <2>1, <3>1, NothingCounted, DriverKeepsInv
    <2> QED
      BY <2>2, <2>3
  <1> QED
    BY <1>1, <1>2, <1>3, <1>4, <1>5 DEF LiveStep

\* A run that is over rests.
LEMMA OverRests ==
    ASSUME NEW by, NEW finished, Over(by, finished)
    PROVE  Rest("waiting")
  BY DEF Over

\* A step that ends the run, or hands over to the scheduler, rests.
LEMMA RunRests ==
    ASSUME TurnInv,
           \/ RigHandoffLimit \/ RigTurnLimit \/ RigError \/ WrapUpSpent \/ FiringSpent
           \/ RigEnded \/ WrappedUp \/ Fired \/ NothingDue
    PROVE  /\ UNCHANGED <<active, signals, counts>> /\ rounds' = rounds
           /\ Rest("waiting")
  BY DEF RigHandoffLimit, RigTurnLimit, RigError, WrapUpSpent, FiringSpent, RigEnded,
         WrappedUp, Fired, NothingDue, TheFollowUps, Over

\* The rig acts between turns only.
LEMMA BetweenTurns ==
    ASSUME RigStep
    PROVE  at # "calls"
  BY DEF RigStep, Opening, RigUnknownTarget, RigHandoffLimit, RigSwitch, RigEnded, RigSilent,
         CustomerReacts, RigTurnLimit, RigError, WrappedUp, WrapUpGoesOn, WrapUpSpent,
         Fire, Fired, FiringGoesOn, FiringSpent, NothingDue, Back

\* The rig keeps the turn's invariant.
LEMMA RigKeepsInv ==
    ASSUME TurnAssumption, TurnInv, RigStep, at # "calls"
    PROVE  TurnInv'
  <1>0. rounds \in Nat
    BY DEF TurnInv, TurnTypeOK
  <1>1. CASE Opening
    <2>1. /\ UNCHANGED <<active, signals, counts>>
          /\ rounds' \in {0, rounds} /\ (Respond \/ \E by : Over(by, FALSE))
      BY <1>1 DEF Opening
    <2>2. Respond \/ Rest("waiting")
      BY <2>1, OverRests
    <2>3. rounds' \in Nat
      BY <1>0, <2>1
    <2> QED
      BY <2>1, <2>2, <2>3, NothingCounted, DriverKeepsInv
  <1>2. CASE RigUnknownTarget \/ RigSilent \/ WrapUpGoesOn \/ FiringGoesOn
    <2>1. \E limit : NextRound(limit) /\ UNCHANGED <<active, signals, counts>>
      BY <1>2 DEF RigUnknownTarget, RigSilent, WrapUpGoesOn, FiringGoesOn
    <2> QED
      BY <1>0, <2>1, RoundCounted, NothingCounted, DriverKeepsInv
  <1>3. CASE \/ RigHandoffLimit \/ RigTurnLimit \/ RigError \/ WrapUpSpent \/ FiringSpent
             \/ RigEnded \/ WrappedUp \/ Fired \/ NothingDue
    <2>1. /\ UNCHANGED <<active, signals, counts>> /\ rounds' = rounds
          /\ Rest("waiting")
      BY <1>3, RunRests
    <2> QED
      BY <1>0, <2>1, NothingCounted, DriverKeepsInv
  <1>4. CASE RigSwitch
    <2>1. NextRound(MaxTurns) /\ turn.to \in Enabled /\ TakeOver(turn.to)
      BY <1>4 DEF RigSwitch
    <2> QED
      BY <1>0, <2>1, RoundCounted, TakeOverCounted, DriverKeepsInv
  <1>5. CASE CustomerReacts
    <2>1. /\ UNCHANGED <<active, signals, counts>>
          /\ Respond \/ Over("error", FALSE) \/ NextRound(MaxTurns)
          /\ rounds' \in {0, rounds} \/ NextRound(MaxTurns)
      BY <1>5 DEF CustomerReacts
    <2>2. Respond \/ Rest("waiting") \/ Rest("spent")
      BY <1>0, <2>1, OverRests, RoundCounted
    <2>3. rounds' \in Nat
      BY <1>0, <2>1, RoundCounted
    <2> QED
      BY <2>1, <2>2, <2>3, NothingCounted, DriverKeepsInv
  <1>6. CASE Fire
    <2>1. /\ rounds' = 0 /\ Respond /\ ended' = FALSE
          /\ UNCHANGED <<active, request, handedTo, counts>>
      BY <1>6 DEF Fire
    <2>2. /\ active' \in Enabled /\ ended' \in BOOLEAN
          /\ handoffs' \in 0 .. MaxHandoffs + 1 /\ switches' \in 0 .. MaxHandoffs
          /\ TransfersWithinLimit'
      BY <2>1 DEF TurnInv, TurnTypeOK, TransfersWithinLimit, counts
    <2> QED
      BY <2>1, <2>2, DriverKeepsInv
  <1> QED
    BY <1>1, <1>2, <1>3, <1>4, <1>5, <1>6 DEF RigStep

-----------------------------------------------------------------------------
(* The rig's own state *)

\* The clock and the follow-ups keep their types under the tools.
LEMMA ScheduleKeepsType ==
    ASSUME OrchestratorAssumption, RigTypeOK, Schedule
    PROVE  RigTypeOK'
  <1> USE DEF RigTypeOK, OrchestratorAssumption
  <1>1. CASE AdvanceClock
    BY <1>1 DEF AdvanceClock
  <1>2. ASSUME NEW f \in FollowUp, CreateFollowUp(f)
        PROVE  RigTypeOK'
    <2>1. PICK hours \in Delay : due' = [due EXCEPT ![f] = now + hours]
      BY <1>2 DEF CreateFollowUp
    <2>2. hours \in Nat /\ now + hours \in Nat
      BY <2>1
    <2>3. followups' = [followups EXCEPT ![f] = "scheduled"]
          /\ UNCHANGED <<phase, now, firings, firing, outcome>>
      BY <1>2 DEF CreateFollowUp, ScheduleCall
    <2> QED
      BY <2>1, <2>2, <2>3
  <1>3. ASSUME NEW f \in FollowUp, MarkDone(f)
        PROVE  RigTypeOK'
    BY <1>3 DEF MarkDone, ScheduleCall
  <1>4. ASSUME NEW f \in FollowUp, CancelFollowUp(f)
        PROVE  RigTypeOK'
    BY <1>4 DEF CancelFollowUp, ScheduleCall
  <1> QED
    BY <1>1, <1>2, <1>3, <1>4 DEF Schedule

\* The end of a run keeps the types of what it leaves.
LEMMA OverType ==
    ASSUME RigTypeOK, NEW by, NEW finished \in BOOLEAN, Over(by, finished),
           by \in {"agent", "customer", "turn_limit", "handoff_limit", "error", "nobody"}
    PROVE  RigTypeOK'
  BY DEF RigTypeOK, Over, Result, followupVars

\* The rig's loop keeps the types of its state.
LEMMA RigKeepsType ==
    ASSUME OrchestratorAssumption, RigTypeOK, RigStep
    PROVE  RigTypeOK'
  <1>1. CASE \/ RigHandoffLimit \/ RigTurnLimit \/ RigError \/ WrapUpSpent
             \/ FiringSpent \/ NothingDue
    <2>1. \E by \in {"customer", "turn_limit", "handoff_limit", "error", outcome.by},
             finished \in BOOLEAN : Over(by, finished)
      BY <1>1 DEF RigHandoffLimit, RigTurnLimit, RigError, WrapUpSpent, FiringSpent, NothingDue
    <2>2. outcome.by \in {"agent", "customer", "turn_limit", "handoff_limit", "error", "nobody"}
      BY DEF RigTypeOK
    <2> QED
      BY <2>1, <2>2, OverType
  <1>2. CASE RigUnknownTarget \/ RigSwitch \/ RigSilent \/ WrapUpGoesOn \/ FiringGoesOn
    <2>1. UNCHANGED rigVars
      BY <1>2 DEF RigUnknownTarget, RigSwitch, RigSilent, WrapUpGoesOn, FiringGoesOn
    <2> QED
      BY <2>1 DEF RigTypeOK, rigVars, followupVars
  <1>3. CASE Opening
    <2>1. CASE \E by \in {"error", "customer"} : Over(by, FALSE)
      BY <2>1, OverType
    <2>2. CASE /\ phase' = "talk"
               /\ UNCHANGED <<followupVars, firings, firing, outcome>>
      BY <2>2 DEF RigTypeOK, followupVars
    <2> QED
      BY <1>3, <2>1, <2>2 DEF Opening
  <1>4. CASE CustomerReacts
    <2>1. CASE Over("error", FALSE)
      BY <2>1, OverType
    <2>2. CASE /\ phase' = "wrapup"
               /\ UNCHANGED <<followupVars, firings, firing, outcome>>
      BY <2>2 DEF RigTypeOK, followupVars
    <2>3. CASE UNCHANGED rigVars
      BY <2>3 DEF RigTypeOK, rigVars, followupVars
    <2> QED
      BY <1>4, <2>1, <2>2, <2>3 DEF CustomerReacts
  <1>5. CASE RigEnded \/ WrappedUp
    <2>1. \E by \in {"agent", "customer"} : TheFollowUps(by)
      BY <1>5 DEF RigEnded, WrappedUp
    <2> QED
      BY <2>1 DEF TheFollowUps, RigTypeOK, followupVars, Result
  <1>6. CASE Fire
    <2>1. PICK f \in NextDue : firing' = f /\ now' = ClockAt(f)
      BY <1>6 DEF Fire
    <2>2. f \in FollowUp
      BY <2>1 DEF NextDue, Scheduled
    <2>3. now' \in Nat
      BY <2>1, <2>2 DEF ClockAt, RigTypeOK
    <2>4. firings' \in 0 .. MaxFirings
      BY <1>6 DEF Fire, RigTypeOK, OrchestratorAssumption
    <2>5. phase' = "firing" /\ UNCHANGED <<followups, due, outcome>>
      BY <1>6 DEF Fire
    <2> QED
      BY <2>1, <2>2, <2>3, <2>4, <2>5 DEF RigTypeOK
  <1>7. CASE Fired
    BY <1>7 DEF Fired, RigTypeOK, followupVars
  <1> QED
    BY <1>1, <1>2, <1>3, <1>4, <1>5, <1>6, <1>7 DEF RigStep

-----------------------------------------------------------------------------
(* The invariant of both drivers *)

\* A new conversation and a new run satisfy the invariant.
LEMMA InitHolds ==
    ASSUME Init
    PROVE  IInv
  <1>1. /\ MaxToolCalls \in Nat /\ MaxToolCalls > 0 /\ MaxBatch \in Nat /\ MaxBatch > 0
        /\ MaxHandoffs \in Nat /\ MaxFirings \in Nat /\ Entry \in Enabled
    BY TurnAssumption, OrchestratorAssumption DEF TurnAssumption, OrchestratorAssumption
  <1>2. TurnTypeOK
    <2>1. /\ used \in 0 .. MaxToolCalls + MaxBatch - 1 /\ left \in 0 .. MaxBatch
          /\ handoffs \in 0 .. MaxHandoffs + 1 /\ switches \in 0 .. MaxHandoffs
      BY <1>1 DEF Init, TurnInit
    <2>2. turn.kind = "none" /\ turn.to = NoAgent
      BY DEF Init, TurnInit, Nothing, Returned
    <2> QED
      BY <1>1, <2>1, <2>2 DEF Init, TurnInit, TurnTypeOK
  <1>3. RigTypeOK
    BY <1>1 DEF Init, RigInit, RigTypeOK, NoResult, Result
  <1>4. Budget /\ Raised /\ SignalsObeyed /\ TransfersWithinLimit
    BY <1>1 DEF Init, TurnInit, Budget, TurnIsAffordable, Raised, SignalsObeyed,
                TransfersWithinLimit
  <1> QED
    BY <1>2, <1>3, <1>4 DEF IInv, TypeOK, TurnInv, Init, LiveInit

\* Every step of either driver, of an agent or of a tool keeps it.
LEMMA StepKeepsInv ==
    ASSUME IInv, [Next]_vars
    PROVE  IInv'
  <1> USE TurnAssumption, OrchestratorAssumption DEF IInv, TypeOK
  <1>0. TurnInv' /\ RigTypeOK' /\ closed' \in BOOLEAN /\ driver' \in {"live", "rig"} => IInv'
    BY DEF TurnInv
  <1>1. CASE AgentStep
    <2>1. TurnInv'
      BY <1>1, AgentKeepsInv DEF AgentStep
    <2>2. RigTypeOK' /\ closed' \in BOOLEAN /\ driver' \in {"live", "rig"}
      BY <1>1 DEF AgentStep, RigTypeOK, rigVars, followupVars
    <2> QED
      BY <1>0, <2>1, <2>2
  <1>2. CASE LiveDriver \/ Customer
    <2>1. TurnInv'
      BY <1>2, LiveKeepsInv DEF LiveDriver, Customer
    <2>2. RigTypeOK' /\ driver' \in {"live", "rig"}
      BY <1>2 DEF LiveDriver, Customer, RigTypeOK, rigVars, followupVars
    <2>3. closed' \in BOOLEAN
      BY <1>2 DEF LiveDriver, Customer, LiveStep, Say, Restart, TransferNowhere,
                  TransferTooMany, Switch, Close, Deliver, Nudge, Apologise, Raise
    <2> QED
      BY <1>0, <2>1, <2>2, <2>3
  <1>3. CASE RigDriver
    <2>1. closed' \in BOOLEAN /\ driver' \in {"live", "rig"}
      BY <1>3 DEF RigDriver
    <2>2. CASE Schedule
      <3>1. OtherCall
        BY <2>2 DEF Schedule, AdvanceClock, CreateFollowUp, MarkDone, CancelFollowUp,
                    ScheduleCall, OtherCall
      <3> QED
        BY <1>0, <2>1, <2>2, <3>1, AgentKeepsInv, ScheduleKeepsType DEF TurnNext
    <2>3. CASE RigStep
      <3>1. at # "calls"
        BY <2>3, BetweenTurns
      <3> QED
        BY <1>0, <2>1, <2>3, <3>1, RigKeepsInv, RigKeepsType
    <2> QED
      BY <1>3, <2>2, <2>3 DEF RigDriver
  <1>4. CASE UNCHANGED vars
    <2>1. TurnInv'
      BY <1>4 DEF vars, turnVars, signals, loop, counts, TurnInv, TurnTypeOK, Budget,
                  TurnIsAffordable, Raised, SignalsObeyed, TransfersWithinLimit
    <2>2. RigTypeOK' /\ closed' \in BOOLEAN /\ driver' \in {"live", "rig"}
      BY <1>4 DEF vars, rigVars, followupVars, RigTypeOK
    <2> QED
      BY <1>0, <2>1, <2>2
  <1> QED
    BY <1>1, <1>2, <1>3, <1>4 DEF Next, Done

\* The invariant holds throughout.
LEMMA Invariance == Spec => []IInv
  <1>1. Init => IInv
    BY InitHolds
  <1>2. IInv /\ [Next]_vars => IInv'
    BY StepKeepsInv
  <1> QED
    BY <1>1, <1>2, PTL DEF Spec

-----------------------------------------------------------------------------
(* The end of a run *)

\* A run that is over is at rest, and one that never began has not ended.
Rested ==
    /\ driver = "live" => phase = "opening"
    /\ phase = "over" => at = "waiting"

\* The rig reports at the end only, and as finished only what it looked through.
LEMMA RigReports ==
    ASSUME RigStep, Rested, FinishedMeansNothingDue
    PROVE  /\ phase' = "over" => at' = "waiting"
           /\ FinishedMeansNothingDue'
  <1>1. CASE NothingDue
    BY <1>1 DEF NothingDue, Over, Rest, Scheduled, followupVars, Result, FinishedMeansNothingDue
  <1>2. ASSUME NEW by, Over(by, FALSE)
        PROVE  (phase' = "over" => at' = "waiting") /\ FinishedMeansNothingDue'
    BY <1>2 DEF Over, Rest, Result, FinishedMeansNothingDue
  <1>3. CASE phase' # "over"
    BY <1>3 DEF FinishedMeansNothingDue
  <1>4. CASE RigHandoffLimit \/ RigTurnLimit \/ RigError \/ WrapUpSpent \/ FiringSpent
    <2>1. \E by \in {"customer", "turn_limit", "handoff_limit", "error", outcome.by} :
              Over(by, FALSE)
      BY <1>4 DEF RigHandoffLimit, RigTurnLimit, RigError, WrapUpSpent, FiringSpent
    <2> QED
      BY <2>1, <1>2
  <1>5. CASE Opening \/ CustomerReacts
    <2>1. phase' # "over" \/ \E by \in {"error", "customer"} : Over(by, FALSE)
      BY <1>5 DEF Opening, CustomerReacts, Back, rigVars
    <2> QED
      BY <2>1, <1>2, <1>3
  <1>6. CASE \/ RigUnknownTarget \/ RigSwitch \/ RigSilent \/ WrapUpGoesOn \/ FiringGoesOn
             \/ RigEnded \/ WrappedUp \/ Fire \/ Fired
    <2>1. phase' # "over"
      BY <1>6 DEF RigUnknownTarget, RigSwitch, RigSilent, WrapUpGoesOn, FiringGoesOn,
                  RigEnded, WrappedUp, TheFollowUps, Fire, Fired, Back, rigVars
    <2> QED
      BY <2>1, <1>3
  <1> QED
    BY <1>1, <1>4, <1>5, <1>6 DEF RigStep

\* A run reported as finished stays what it was when it was looked through.
LEMMA StepKeepsReport ==
    ASSUME Rested, FinishedMeansNothingDue, [Next]_vars
    PROVE  Rested' /\ FinishedMeansNothingDue'
  <1>1. CASE /\ AgentStep \/ driver = "live" \/ UNCHANGED vars
             /\ UNCHANGED <<driver, rigVars>>
    <2>1. FinishedMeansNothingDue'
      BY <1>1 DEF FinishedMeansNothingDue, Scheduled, rigVars, followupVars
    <2>2. CASE AgentStep
      <3>1. at # "waiting"
        BY <2>2 DEF AgentStep, TurnNext, Answer, CallTools, AnswerNow, ModelFails, Transfer,
                    End, OtherCall, Dispatch, HandOver, EndTurn, AskAgain, BatchDone
      <3> QED
        BY <1>1, <2>1, <3>1 DEF Rested, rigVars
    <2>3. CASE driver = "live"
      BY <1>1, <2>1, <2>3 DEF Rested, rigVars
    <2>4. CASE UNCHANGED vars
      BY <2>1, <2>4 DEF vars, turnVars, loop, rigVars, Rested
    <2> QED
      BY <1>1, <2>2, <2>3, <2>4
  <1>2. CASE RigDriver
    <2>1. CASE RigStep
      BY <1>2, <2>1, RigReports DEF Rested, RigDriver
    <2>2. CASE Schedule
      <3>1. at = "calls" /\ at' = at /\ UNCHANGED <<phase, outcome>>
        BY <2>2 DEF Schedule, AdvanceClock, CreateFollowUp, MarkDone, CancelFollowUp,
                    ScheduleCall, Dispatch
      <3> QED
        BY <1>2, <3>1 DEF Rested, FinishedMeansNothingDue, RigDriver
    <2> QED
      BY <1>2, <2>1, <2>2 DEF RigDriver
  <1> QED
    BY <1>1, <1>2 DEF Next, AgentStep, LiveDriver, Customer, Done, vars, rigVars

-----------------------------------------------------------------------------
(* Theorems *)

\* The state of a conversation and of the rig keeps its types, counters within
\* their limits included.
THEOREM TypeCorrect == Spec => []TypeOK
  BY Invariance, PTL DEF IInv

\* An agent that has handed over or closed is not asked to go on, its turn
\* returns what it raised, and no request is left for the next turn, whatever
\* the model calls in one message and under either driver.
THEOREM SignalsAreObeyed == Spec => []SignalsObeyed
  BY Invariance, PTL DEF IInv, TurnInv

\* No turn asks the model more often than its calls pay for, however many calls
\* the model puts in a message.
THEOREM TurnsAreAffordable == Spec => []TurnIsAffordable
  BY Invariance, PTL DEF IInv, TurnInv, Budget

\* No process changes hands more often than it may, across any number of
\* messages and of processes that close and reopen.
THEOREM TransfersAreLimited == Spec => []TransfersWithinLimit
  BY Invariance, PTL DEF IInv, TurnInv

\* A run the rig reports as finished has no follow-up left scheduled unless all
\* its firings were spent, whatever agents schedule, mark and cancel meanwhile.
THEOREM FinishedRunsAreDone == Spec => []FinishedMeansNothingDue
  <1>1. Init => Rested /\ FinishedMeansNothingDue
    BY DEF Init, RigInit, Rested, FinishedMeansNothingDue
  <1>2. Rested /\ FinishedMeansNothingDue /\ [Next]_vars => (Rested /\ FinishedMeansNothingDue)'
    BY StepKeepsReport
  <1> QED
    BY <1>1, <1>2, PTL DEF Spec
=============================================================================
