----------------------------- MODULE HealProofs ------------------------------
(***************************************************************************)
(* What the self-healing loop keeps, for any suite, any number of runs and *)
(* rounds, and whatever the doctor does to the prompts.                    *)
(***************************************************************************)
EXTENDS Heal, TLAPS

\* Where a scenario is being repaired, and rounds are left.
RepairsAreBounded ==
    /\ at \in {"propose", "retry", "regress"} => scenario \in Scenario
    /\ at \in {"retry", "regress"} => round < MaxRounds

\* The verdicts are ones that the prompts with these fates can show.
Describe(verdicts, fates) ==
    \A s \in Scenario : verdicts[s] \in Outcomes(fates[s], Parallel)

\* KeptEditsBreakNothingSolid, for these prompts and verdicts.
NothingSolidBroke ==
    \A s \in Scenario : old[s] = "solid" /\ results[s].ran => fate[s] # "broken"

\* While an edit is on trial, what was known of the prompts before it is still at
\* hand: the prompts in the patch, the scenario's verdict in `current`, those of the
\* others in the results.
TrialsCanBeUndone ==
    Regression /\ exam = "intact" =>
        /\ at = "baseline" => old = fate
        /\ at \in {"pick", "propose", "done"} => Describe(results, fate) /\ NothingSolidBroke
        /\ at = "retry" => current = results[scenario] /\ Describe(results, old)
        /\ at = "regress" =>
               /\ Describe([results EXCEPT ![scenario] = current], old)
               /\ results[scenario] \in Outcomes(fate[scenario], Parallel)
               /\ fate[scenario] # "broken"

\* The inductive invariant.
IInv == TypeOK /\ RepairsAreBounded /\ TrialsCanBeUndone

-----------------------------------------------------------------------------
(* What several runs of one scenario can add up to *)

\* A tally counts runs and passes that this many runs can have.
LEMMA TallyOf ==
    ASSUME NEW f \in Fate, NEW counts \in SUBSET Nat, NEW before \in Nat,
           NEW t \in Tallies(f, counts, before)
    PROVE  \E n \in counts : t.runs = before + n /\ t.passes \in Passes(f, n)
  BY DEF Tallies

\* However many runs leave a result, that is a number.
LEMMA CountsAreNumbers == \A pool : Recorded(pool) \subseteq Nat /\ Confirming \subseteq Nat
  BY HealAssumption DEF Recorded, Confirming

\* A verdict is that of a tally, or of the tally with the runs that confirmed it.
LEMMA VerdictOf ==
    ASSUME NEW f \in Fate, NEW pool, NEW v
    PROVE  v \in Outcomes(f, pool) <=>
           \E u \in Tallies(f, Recorded(pool), 0) :
           \E t \in (IF Verdict(u.runs, u.passes) = "fail"
                     THEN Tallies(f, Confirming, u.runs) ELSE {u}) :
           \E alike \in BOOLEAN :
               v = Judged(t.runs, t.passes, alike, IF f = "blocked" THEN "framework" ELSE "agent")
  BY DEF Outcomes

\* More runs that may be lost, more tallies.
LEMMA MoreCountsMoreTallies ==
    ASSUME NEW f, NEW counts, NEW more, counts \subseteq more, NEW before
    PROVE  Tallies(f, counts, before) \subseteq Tallies(f, more, before)
  BY DEF Tallies

\* A scenario that always passes passes every run; a broken one, none.
LEMMA PassesOf ==
    /\ \A n \in Nat : Passes("solid", n) = {n}
    /\ \A n \in Nat : Passes("broken", n) = {0}
  BY DEF Passes

\* What always passes is judged to pass, even on no runs at all.
LEMMA SolidPasses ==
    ASSUME NEW pool, NEW v \in Outcomes("solid", pool)
    PROVE  Passed(v)
  <1>1. "solid" \in Fate
    BY DEF Fate
  <1>2. PICK u \in Tallies("solid", Recorded(pool), 0) :
            \E t \in (IF Verdict(u.runs, u.passes) = "fail"
                      THEN Tallies("solid", Confirming, u.runs) ELSE {u}) :
            \E alike \in BOOLEAN : v = Judged(t.runs, t.passes, alike, "agent")
    BY <1>1, VerdictOf
  <1>3. PICK n \in Recorded(pool) : u.runs = n /\ u.passes \in Passes("solid", n)
    BY <1>1, TallyOf, CountsAreNumbers
  <1>4. n \in Nat /\ u.passes = n
    BY <1>3, CountsAreNumbers, PassesOf
  <1>5. u.runs = n /\ u.passes = n
    BY <1>3, <1>4
  <1>6. Verdict(u.runs, u.passes) = "pass"
    BY <1>5 DEF Verdict
  <1>7. PICK alike \in BOOLEAN : v = Judged(u.runs, u.passes, alike, "agent")
    BY <1>2, <1>6
  <1> QED
    BY <1>6, <1>7 DEF Judged, Passed

\* What is broken is judged to fail, where there was a run to judge.
LEMMA BrokenFails ==
    ASSUME NEW pool, NEW v \in Outcomes("broken", pool), v.ran
    PROVE  v.verdict = "fail"
  <1>1. "broken" \in Fate
    BY DEF Fate
  <1>2. PICK u \in Tallies("broken", Recorded(pool), 0) :
            \E t \in (IF Verdict(u.runs, u.passes) = "fail"
                      THEN Tallies("broken", Confirming, u.runs) ELSE {u}) :
            \E alike \in BOOLEAN : v = Judged(t.runs, t.passes, alike, "agent")
    BY <1>1, VerdictOf
  <1>3. PICK n \in Recorded(pool) : u.runs = n /\ u.passes \in Passes("broken", n)
    BY <1>1, TallyOf, CountsAreNumbers
  <1>4. n \in Nat /\ u.passes = 0
    BY <1>3, CountsAreNumbers, PassesOf
  <1>5. u.runs = n /\ u.passes = 0
    BY <1>3, <1>4
  <1>6. PICK t \in (IF Verdict(u.runs, u.passes) = "fail"
                    THEN Tallies("broken", Confirming, u.runs) ELSE {u}), alike \in BOOLEAN :
            v = Judged(t.runs, t.passes, alike, "agent")
    BY <1>2
  <1>7. t.runs \in Nat /\ t.passes = 0
    <2>1. CASE t = u
      BY <1>4, <1>5, <2>1
    <2>2. CASE t \in Tallies("broken", Confirming, u.runs)
      <3>1. PICK m \in Confirming : t.runs = u.runs + m /\ t.passes \in Passes("broken", m)
        BY <1>1, <1>4, <1>5, <2>2, TallyOf, CountsAreNumbers
      <3>2. m \in Nat /\ t.passes = 0
        BY <3>1, CountsAreNumbers, PassesOf
      <3> QED
        BY <1>4, <1>5, <3>1, <3>2
    <2> QED
      BY <1>6, <2>1, <2>2
  <1>8. t.runs > 0
    BY <1>6 DEF Judged
  <1>9. Verdict(t.runs, t.passes) = "fail"
    BY <1>7, <1>8 DEF Verdict
  <1> QED
    BY <1>6, <1>9 DEF Judged

\* Without a pool every run leaves a result, and shows nothing a pool would not.
LEMMA RunsWithoutAPool ==
    ASSUME NEW f \in Fate, NEW pool, pool = FALSE, NEW v \in Outcomes(f, pool)
    PROVE  v \in Outcomes(f, Parallel) /\ v.ran
  <1>1. Recorded(pool) = {Repeat} /\ Repeat \in Recorded(Parallel) /\ Repeat \in Nat \ {0}
    BY HealAssumption DEF Recorded
  <1>2. Tallies(f, Recorded(pool), 0) \subseteq Tallies(f, Recorded(Parallel), 0)
    BY <1>1, MoreCountsMoreTallies
  <1>3. v \in Outcomes(f, Parallel)
    BY <1>2, VerdictOf
  <1>4. PICK u \in Tallies(f, Recorded(pool), 0) :
            \E t \in (IF Verdict(u.runs, u.passes) = "fail"
                      THEN Tallies(f, Confirming, u.runs) ELSE {u}) :
            \E alike \in BOOLEAN :
                v = Judged(t.runs, t.passes, alike, IF f = "blocked" THEN "framework" ELSE "agent")
    BY VerdictOf
  <1>5. PICK n \in Recorded(pool) : u.runs = n /\ u.passes \in Passes(f, n)
    BY TallyOf, CountsAreNumbers
  <1>6. u.runs \in Nat \ {0}
    BY <1>1, <1>5
  <1>7. PICK t \in (IF Verdict(u.runs, u.passes) = "fail"
                    THEN Tallies(f, Confirming, u.runs) ELSE {u}), alike \in BOOLEAN :
            v = Judged(t.runs, t.passes, alike, IF f = "blocked" THEN "framework" ELSE "agent")
    BY <1>4
  <1>8. t.runs > 0
    <2>1. CASE t = u
      BY <1>6, <2>1
    <2>2. CASE t \in Tallies(f, Confirming, u.runs)
      <3>1. PICK m \in Confirming : t.runs = u.runs + m /\ t.passes \in Passes(f, m)
        BY <1>6, <2>2, TallyOf, CountsAreNumbers
      <3>2. m \in Nat
        BY CountsAreNumbers
      <3> QED
        BY <1>6, <3>1, <3>2
    <2> QED
      BY <1>7, <2>1, <2>2
  <1> QED
    BY <1>3, <1>7, <1>8 DEF Judged

-----------------------------------------------------------------------------
(* Steps *)

\* Running scenarios gives these new verdicts and the others the ones they had.
LEMMA Reran ==
    ASSUME NEW suite, NEW pool, NEW verdicts \in RunSuite(suite, pool)
    PROVE  /\ verdicts \in [Scenario -> Outcome \cup {NotRun}]
           /\ \A s \in Scenario : s \in suite => verdicts[s] \in Outcomes(fate[s], pool)
           /\ \A s \in Scenario : s \notin suite => verdicts[s] = results[s]
  BY DEF RunSuite

\* A reverted edit leaves the prompts the patch remembers, and counts as a round.
LEMMA Reverted ==
    ASSUME IInv, TryAgain, at \in {"retry", "regress"}
    PROVE  /\ fate' = old /\ old' = old /\ exam' = exam
           /\ round' \in 0 .. MaxRounds /\ at' = "propose"
  BY HealAssumption DEF TryAgain, Revert, NextRound, IInv, TypeOK, RepairsAreBounded

\* Every step keeps every variable's type.
LEMMA TypesKept ==
    ASSUME IInv, Next
    PROVE  TypeOK'
  <1>1. CASE Baseline
    <2>1. results' \in [Scenario -> Outcome \cup {NotRun}] /\ baseline' = results'
      BY <1>1, Reran DEF Baseline
    <2> QED
      BY <1>1, <2>1 DEF Baseline, files, IInv, TypeOK
  <1>2. ASSUME NEW s \in Scenario, Begin(s)
        PROVE  TypeOK'
    BY <1>2, HealAssumption DEF Begin, files, IInv, TypeOK
  <1>3. CASE Finish
    BY <1>3 DEF Finish, files, lists, IInv, TypeOK
  <1>4. CASE NothingToShow
    BY <1>4 DEF NothingToShow, files, lists, IInv, TypeOK
  <1>5. CASE RunRaises
    BY <1>5 DEF RunRaises, files, lists, IInv, TypeOK
  <1>6. CASE StopRepairing
    BY <1>6 DEF StopRepairing, files, lists, IInv, TypeOK
  <1>7. CASE ClaudeProposes
    <2>1. PICK e \in Edit : LeaveFiles(e) /\ at' = AfterEdit(e) /\ Apply(at' = "retry")
      BY <1>7 DEF ClaudeProposes
    <2>2. fate' \in [Scenario -> Fate] /\ exam' \in {"intact", "altered"}
      BY <2>1 DEF LeaveFiles, IInv, TypeOK
    <2>3. e.prompts \in {"none", "allowed", "truncated", "others", "removed"}
      BY DEF Edit
    <2>4. at' \in {"pick", "retry", "raised"}
      BY <2>1, <2>3 DEF AfterEdit
    <2>5. scenario \in Scenario
      BY <1>7 DEF ClaudeProposes, Asked, IInv, RepairsAreBounded
    <2>6. old' \in [Scenario -> Fate] /\ current' \in Outcome \cup {NotRun}
      BY <2>1, <2>5 DEF Apply, IInv, TypeOK
    <2> QED
      BY <1>7, <2>2, <2>4, <2>6 DEF ClaudeProposes, lists, IInv, TypeOK
  <1>8. CASE ModelProposes
    <2>1. /\ fate' \in [Scenario -> Fate] /\ at' \in {"pick", "retry"}
          /\ Apply(at' = "retry")
      BY <1>8 DEF ModelProposes, IInv, TypeOK
    <2>2. scenario \in Scenario
      BY <1>8 DEF ModelProposes, Asked, IInv, RepairsAreBounded
    <2>3. old' \in [Scenario -> Fate] /\ current' \in Outcome \cup {NotRun}
      BY <2>1, <2>2 DEF Apply, IInv, TypeOK
    <2> QED
      BY <1>8, <2>1, <2>3 DEF ModelProposes, lists, IInv, TypeOK
  <1>9. CASE Retry
    <2>1. PICK m \in RunSuite({scenario}, FALSE) :
              \/ TryAgain /\ UNCHANGED results
              \/ /\ results' = m /\ at' \in {"regress", "pick"}
                 /\ UNCHANGED <<files, round>>
      BY <1>9 DEF Retry
    <2>2. results' \in [Scenario -> Outcome \cup {NotRun}]
      BY <2>1, Reran DEF IInv, TypeOK
    <2>3. UNCHANGED <<baseline, lists, scenario, current>> /\ at = "retry"
      BY <1>9 DEF Retry
    <2>4. CASE TryAgain
      BY <2>2, <2>3, <2>4, Reverted DEF lists, IInv, TypeOK
    <2>5. CASE at' \in {"regress", "pick"} /\ UNCHANGED <<files, round>>
      BY <2>2, <2>3, <2>5 DEF lists, files, IInv, TypeOK
    <2> QED
      BY <2>1, <2>4, <2>5
  <1>10. CASE Regress
    <2>1. PICK m \in RunSuite(Scenario \ {scenario}, Parallel) :
              \/ TryAgain /\ results' = [results EXCEPT ![scenario] = current]
              \/ results' = m /\ at' = "pick" /\ UNCHANGED <<files, round>>
      BY <1>10 DEF Regress
    <2>2. results' \in [Scenario -> Outcome \cup {NotRun}]
      BY <2>1, Reran DEF IInv, TypeOK
    <2>3. UNCHANGED <<baseline, lists, scenario, current>> /\ at = "regress"
      BY <1>10 DEF Regress
    <2>4. CASE TryAgain
      BY <2>2, <2>3, <2>4, Reverted DEF lists, IInv, TypeOK
    <2>5. CASE at' = "pick" /\ UNCHANGED <<files, round>>
      BY <2>2, <2>3, <2>5 DEF lists, files, IInv, TypeOK
    <2> QED
      BY <2>1, <2>4, <2>5
  <1> QED
    BY <1>1, <1>2, <1>3, <1>4, <1>5, <1>6, <1>7, <1>8, <1>9, <1>10
       DEF Next, Propose

\* Every step keeps a scenario in hand while it is repaired, and its rounds bounded.
LEMMA BoundsKept ==
    ASSUME IInv, Next
    PROVE  RepairsAreBounded'
  <1>1. CASE Baseline
    BY <1>1 DEF Baseline, IInv, RepairsAreBounded
  <1>2. ASSUME NEW s \in Scenario, Begin(s)
        PROVE  RepairsAreBounded'
    BY <1>2 DEF Begin, IInv, RepairsAreBounded
  <1>3. CASE Finish
    BY <1>3 DEF Finish, IInv, RepairsAreBounded
  <1>4. CASE NothingToShow
    BY <1>4 DEF NothingToShow, IInv, RepairsAreBounded
  <1>5. CASE RunRaises
    BY <1>5 DEF RunRaises, IInv, RepairsAreBounded
  <1>6. CASE StopRepairing
    BY <1>6 DEF StopRepairing, IInv, RepairsAreBounded
  <1>7. CASE ClaudeProposes
    <2>1. PICK e \in Edit : at' = AfterEdit(e)
      BY <1>7 DEF ClaudeProposes
    <2>2. e.prompts \in {"none", "allowed", "truncated", "others", "removed"}
      BY DEF Edit
    <2>3. at' \in {"pick", "retry", "raised"}
      BY <2>1, <2>2 DEF AfterEdit
    <2> QED
      BY <1>7, <2>3 DEF ClaudeProposes, Asked, IInv, RepairsAreBounded
  <1>8. CASE ModelProposes
    BY <1>8 DEF ModelProposes, Asked, IInv, RepairsAreBounded
  <1>9. CASE Retry
    BY <1>9 DEF Retry, TryAgain, IInv, RepairsAreBounded
  <1>10. CASE Regress
    BY <1>10 DEF Regress, TryAgain, IInv, RepairsAreBounded
  <1> QED
    BY <1>1, <1>2, <1>3, <1>4, <1>5, <1>6, <1>7, <1>8, <1>9, <1>10
       DEF Next, Propose

\* Every step keeps what is needed to undo an edit, and undoes it wholly or not.
LEMMA TrialsKept ==
    ASSUME IInv, Next
    PROVE  TrialsCanBeUndone'
  <1>1. CASE Baseline
    <2>1. results' \in RunSuite(Scenario, Parallel) /\ at = "baseline" /\ at' = "pick"
          /\ UNCHANGED <<fate, old, exam>>
      BY <1>1 DEF Baseline, files
    <2>2. Describe(results', fate)
      BY <2>1, Reran DEF Describe
    <2>3. Regression /\ exam = "intact" => old = fate
      BY <2>1 DEF IInv, TrialsCanBeUndone
    <2> QED
      BY <2>1, <2>2, <2>3 DEF TrialsCanBeUndone, Describe, NothingSolidBroke
  <1>2. ASSUME NEW s \in Scenario, Begin(s)
        PROVE  TrialsCanBeUndone'
    BY <1>2 DEF Begin, files, IInv, TrialsCanBeUndone, Describe, NothingSolidBroke
  <1>3. CASE Finish
    BY <1>3 DEF Finish, files, IInv, TrialsCanBeUndone, Describe, NothingSolidBroke
  <1>4. CASE NothingToShow
    BY <1>4 DEF NothingToShow, files, IInv, TrialsCanBeUndone, Describe, NothingSolidBroke
  <1>5. CASE RunRaises
    BY <1>5 DEF RunRaises, files, IInv, TrialsCanBeUndone, Describe, NothingSolidBroke
  <1>6. CASE StopRepairing
    BY <1>6 DEF StopRepairing, files, IInv, TrialsCanBeUndone, Describe, NothingSolidBroke
  <1>7. CASE ClaudeProposes
    <2>1. at = "propose" /\ UNCHANGED <<results, scenario>>
      BY <1>7 DEF ClaudeProposes, Asked
    <2>2. PICK e \in Edit : LeaveFiles(e) /\ at' = AfterEdit(e) /\ Apply(at' = "retry")
      BY <1>7 DEF ClaudeProposes
    <2>3. e.prompts \in {"none", "allowed", "truncated", "others", "removed"}
      BY DEF Edit
    <2>4. at' \in {"pick", "retry", "raised"}
      BY <2>2, <2>3 DEF AfterEdit
    <2>5. exam' = "intact" => exam = "intact" /\ e.beyond = "nothing"
      BY <2>2 DEF LeaveFiles, IInv, TypeOK
    <2>6. CASE at' = "retry"
      BY <2>1, <2>2, <2>5, <2>6 DEF Apply, IInv, TrialsCanBeUndone, Describe
    <2>7. CASE at' = "pick"
      <3>1. ~(Sound(e) /\ e.prompts \in {"allowed", "removed"})
        BY <2>2, <2>3, <2>7 DEF AfterEdit
      <3>2. exam' = "intact" => fate' = fate /\ old' = old
        BY <2>2, <2>5, <2>7, <3>1 DEF LeaveFiles, Apply
      <3> QED
        BY <2>1, <2>5, <2>7, <3>2 DEF IInv, TrialsCanBeUndone, Describe, NothingSolidBroke
    <2>8. CASE at' = "raised"
      BY <2>8 DEF TrialsCanBeUndone
    <2> QED
      BY <2>4, <2>6, <2>7, <2>8
  <1>8. CASE ModelProposes
    <2>1. at = "propose" /\ UNCHANGED <<results, scenario, exam>> /\ Apply(at' = "retry")
      BY <1>8 DEF ModelProposes, Asked
    <2>2. CASE at' = "retry"
      BY <2>1, <2>2 DEF Apply, IInv, TrialsCanBeUndone, Describe
    <2>3. CASE UNCHANGED fate /\ at' = "pick"
      BY <2>1, <2>3 DEF Apply, IInv, TrialsCanBeUndone, Describe, NothingSolidBroke
    <2> QED
      BY <1>8, <2>2, <2>3 DEF ModelProposes
  <1>9. CASE Retry
    <2>1. /\ at = "retry" /\ UNCHANGED <<scenario, current>> /\ scenario \in Scenario
          /\ old \in [Scenario -> Fate] /\ fate \in [Scenario -> Fate]
          /\ results \in [Scenario -> Outcome \cup {NotRun}]
      BY <1>9 DEF Retry, IInv, RepairsAreBounded, TypeOK
    <2>2. Regression /\ exam = "intact" => current = results[scenario] /\ Describe(results, old)
      BY <2>1 DEF IInv, TrialsCanBeUndone
    <2>3. PICK m \in RunSuite({scenario}, FALSE) :
              \/ TryAgain /\ UNCHANGED results
              \/ /\ Passed(m[scenario]) /\ results' = m
                 /\ at' = (IF Regression THEN "regress" ELSE "pick")
                 /\ UNCHANGED <<files, round>>
      BY <1>9 DEF Retry
    <2>4. CASE TryAgain /\ UNCHANGED results
      BY <2>1, <2>2, <2>4, Reverted DEF TrialsCanBeUndone, Describe, NothingSolidBroke
    <2>5. CASE /\ Passed(m[scenario]) /\ results' = m
               /\ at' = (IF Regression THEN "regress" ELSE "pick")
               /\ UNCHANGED <<files, round>>
      <3>0. PICK pool : pool = FALSE
        OBVIOUS
      <3>1. m \in RunSuite({scenario}, pool)
        BY <3>0
      <3>2. /\ m \in [Scenario -> Outcome \cup {NotRun}]
            /\ \A s \in Scenario : s # scenario => m[s] = results[s]
        BY <3>1, Reran
      <3>3. m[scenario] \in Outcomes(fate[scenario], pool)
        BY <2>1, <3>1, Reran
      <3>4. fate[scenario] \in Fate
        BY <2>1
      <3>5. m[scenario] \in Outcomes(fate[scenario], Parallel) /\ m[scenario].ran
        BY <3>0, <3>3, <3>4, RunsWithoutAPool
      <3>6. fate[scenario] # "broken"
        BY <2>5, <3>5, BrokenFails DEF Passed
      <3>7. ASSUME Regression, exam = "intact"
            PROVE  Describe([m EXCEPT ![scenario] = current], old)
        BY <2>1, <2>2, <3>2, <3>7 DEF Describe
      <3> QED
        BY <2>1, <2>5, <3>5, <3>6, <3>7 DEF TrialsCanBeUndone, files, Describe
    <2> QED
      BY <2>3, <2>4, <2>5
  <1>10. CASE Regress
    <2>1. /\ at = "regress" /\ UNCHANGED <<scenario, current>> /\ scenario \in Scenario
          /\ old \in [Scenario -> Fate] /\ fate \in [Scenario -> Fate]
          /\ results \in [Scenario -> Outcome \cup {NotRun}]
      BY <1>10 DEF Regress, IInv, RepairsAreBounded, TypeOK
    <2>2. Regression /\ exam = "intact" =>
              /\ Describe([results EXCEPT ![scenario] = current], old)
              /\ results[scenario] \in Outcomes(fate[scenario], Parallel)
              /\ fate[scenario] # "broken"
      BY <2>1 DEF IInv, TrialsCanBeUndone
    <2>3. PICK m \in RunSuite(Scenario \ {scenario}, Parallel) :
              \/ TryAgain /\ results' = [results EXCEPT ![scenario] = current]
              \/ /\ Broke(m) = {} /\ results' = m /\ at' = "pick"
                 /\ UNCHANGED <<files, round>>
      BY <1>10 DEF Regress
    <2>4. CASE TryAgain /\ results' = [results EXCEPT ![scenario] = current]
      <3>1. /\ fate' = old /\ old' = old /\ exam' = exam /\ at' = "propose"
        BY <2>1, <2>4, Reverted
      <3> QED
        BY <2>2, <2>4, <3>1 DEF TrialsCanBeUndone, Describe, NothingSolidBroke
    <2>5. CASE /\ Broke(m) = {} /\ results' = m /\ at' = "pick"
               /\ UNCHANGED <<files, round>>
      <3> SUFFICES ASSUME Regression, exam = "intact"
                   PROVE  Describe(m, fate)
                          /\ \A s \in Scenario : old[s] = "solid" /\ m[s].ran => fate[s] # "broken"
        BY <2>5 DEF TrialsCanBeUndone, files, Describe, NothingSolidBroke
      <3>1. Describe(m, fate)
        BY <2>1, <2>2, Reran DEF Describe
      <3>2. ASSUME NEW s \in Scenario, old[s] = "solid", m[s].ran, fate[s] = "broken"
            PROVE  FALSE
        <4>1. s # scenario
          BY <2>2, <3>2
        <4>2. results[s] \in Outcomes("solid", Parallel)
          BY <2>1, <2>2, <3>2, <4>1 DEF Describe
        <4>3. m[s] \in Outcomes("broken", Parallel)
          BY <3>1, <3>2 DEF Describe
        <4>4. Passed(results[s]) /\ m[s].verdict = "fail"
          BY <3>2, <4>2, <4>3, SolidPasses, BrokenFails
        <4> QED
          BY <2>5, <4>1, <4>4 DEF Broke
      <3> QED
        BY <3>1, <3>2
    <2> QED
      BY <2>3, <2>4, <2>5
  <1> QED
    BY <1>1, <1>2, <1>3, <1>4, <1>5, <1>6, <1>7, <1>8, <1>9, <1>10
       DEF Next, Propose

-----------------------------------------------------------------------------
(* The invariant, for any suite *)

\* The inductive invariant holds in every reachable state.
THEOREM Invariant == Spec => []IInv
  <1>1. Init => IInv
    <2> SUFFICES ASSUME Init
                 PROVE  IInv
      OBVIOUS
    <2>1. TypeOK
      BY HealAssumption DEF Init, TypeOK
    <2>2. RepairsAreBounded /\ TrialsCanBeUndone
      BY DEF Init, RepairsAreBounded, TrialsCanBeUndone
    <2> QED
      BY <2>1, <2>2 DEF IInv
  <1>2. IInv /\ [Next]_vars => IInv'
    <2>1. CASE Next
      BY <2>1, TypesKept, BoundsKept, TrialsKept DEF IInv
    <2>2. CASE UNCHANGED vars
      BY <2>2 DEF vars, files, lists, IInv, TypeOK, RepairsAreBounded, TrialsCanBeUndone,
              Describe, NothingSolidBroke
    <2> QED
      BY <2>1, <2>2
  <1> QED
    BY <1>1, <1>2, PTL DEF Spec

\* Every variable of the loop keeps its type: its rounds stay within
\* max_repair_rounds, its verdicts are ones that runs can have.
THEOREM TypeCorrect == Spec => []TypeOK
  <1>1. IInv => TypeOK
    BY DEF IInv
  <1> QED
    BY <1>1, Invariant, PTL

\* Whenever no edit is on trial, each verdict is one the prompts on disk can show
\* (loop.py, heal): for any suite, and whatever is proposed and reverted.
THEOREM ReportsDescribePrompts == Spec => []ResultsDescribePrompts
  <1>1. IInv => ResultsDescribePrompts
    BY DEF IInv, TrialsCanBeUndone, Describe, ResultsDescribePrompts, Between
  <1> QED
    BY <1>1, Invariant, PTL

\* An edit that stays does not break what always worked, where at least one
\* regression run of it came to a result (README.md:194; loop.py:48).
THEOREM KeptEditsBreakNothing == Spec => []KeptEditsBreakNothingSolid
  <1>1. IInv => KeptEditsBreakNothingSolid
    BY DEF IInv, TrialsCanBeUndone, NothingSolidBroke, KeptEditsBreakNothingSolid, Between
  <1> QED
    BY <1>1, Invariant, PTL
=============================================================================
