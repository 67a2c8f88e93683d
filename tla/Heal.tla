-------------------------------- MODULE Heal --------------------------------
(***************************************************************************)
(* The self-healing loop (src/plumbing/testkit/loop.py) and its doctor     *)
(* (testkit/doctor.py): run the scenarios, let a model edit the prompts,   *)
(* run the scenario again, run the others again, keep the edit or revert.  *)
(*                                                                         *)
(* What matters of the prompts is how each scenario fares under them, and  *)
(* the loop never sees that: it sees a handful of runs.                    *)
(***************************************************************************)
EXTENDS Naturals, FiniteSets

CONSTANTS
    Scenario,        \* the suite
    Repeat,          \* runs of a scenario before it is judged
    MaxRounds,       \* max_repair_rounds
    Regression,      \* BOOLEAN: whether passing scenarios are run again
    Backends,        \* what doctor_backend.kind may say; it is read at every call
    Tampers,         \* BOOLEAN: whether the doctor edits more than prompts
    Parallel,        \* BOOLEAN: more than one worker
    MayRaise,        \* BOOLEAN: whether a run may end without a result
    NoScenario

ASSUME HealAssumption ==
    /\ Repeat \in Nat \ {0} /\ MaxRounds \in Nat
    /\ Backends \subseteq {"claude_cli", "openai"}
    /\ {Regression, Tampers, Parallel, MayRaise} \subseteq BOOLEAN
    /\ NoScenario \notin Scenario

\* How a scenario fares under the prompts: it always passes, sometimes, never,
\* or never because a rule of the framework stops it.
Fate == {"solid", "shaky", "broken", "blocked"}

VARIABLES
    fate,            \* under the prompts on disk
    old,             \* under the prompts the last patch remembers
    exam,            \* everything but the prompts: "intact" or "altered"
    results,         \* the last verdict on each scenario
    baseline,        \* the first
    failing,         \* repairable: failures still to be looked at
    unsteady,        \* repairable: flaky scenarios still to be looked at
    scenario,        \* the one being repaired
    current,         \* its verdict before the patch
    round,
    at

lists == <<failing, unsteady>>
files == <<fate, old, exam>>
vars == <<files, results, baseline, lists, scenario, current, round, at>>

-----------------------------------------------------------------------------
(* Verdicts: what several runs of one scenario add up to *)

\* All of no runs passed.
Verdict(runs, passes) ==
    IF passes = runs THEN "pass" ELSE IF passes = 0 THEN "fail" ELSE "flaky"

\* Flaky, but failing at least half the time and always the same way.
Recurrent(runs, passes, alike) ==
    Verdict(runs, passes) = "flaky" /\ (runs - passes) * 2 >= runs /\ alike

Judged(runs, passes, alike, source) ==
    [verdict |-> Verdict(runs, passes), source |-> source,
     recurrent |-> Recurrent(runs, passes, alike), ran |-> runs > 0]

\* How many runs leave a result: where they are run in a pool, one that raises is
\* printed and forgotten.
Recorded(pool) == IF pool /\ MayRaise THEN 0 .. Repeat ELSE {Repeat}

\* A scenario that failed every run is run as often again, always in a pool.
Confirming == IF Repeat > 1 THEN Recorded(TRUE) ELSE {0}

Passes(f, n) ==
    CASE f = "solid" -> {n} [] f = "shaky" -> 0 .. n [] f \in {"broken", "blocked"} -> {0}

Tallies(f, counts, before) ==
    UNION {{[runs |-> before + n, passes |-> k] : k \in Passes(f, n)} : n \in counts}

\* The verdicts run_suite can reach.
Outcomes(f, pool) ==
    LET confirmed(t) == IF Verdict(t.runs, t.passes) = "fail"
                        THEN Tallies(f, Confirming, t.runs) ELSE {t}
    IN  {Judged(t.runs, t.passes, alike, IF f = "blocked" THEN "framework" ELSE "agent") :
            t \in UNION {confirmed(u) : u \in Tallies(f, Recorded(pool), 0)}, alike \in BOOLEAN}

Passed(v) == v.verdict = "pass"

Actionable(v) == v.source = "agent" /\ (v.verdict = "fail" \/ v.recurrent)

Outcome == UNION {Outcomes(f, Parallel) : f \in Fate}
NotRun == [verdict |-> "none", source |-> "agent", recurrent |-> FALSE, ran |-> TRUE]

\* What running these scenarios may show; the others keep their verdict.
RunSuite(suite, pool) ==
    {m \in [Scenario -> Outcome \cup {NotRun}] :
        \A s \in Scenario : IF s \in suite THEN m[s] \in Outcomes(fate[s], pool)
                            ELSE m[s] = results[s]}

-----------------------------------------------------------------------------
\* The type invariant.
TypeOK ==
    /\ fate \in [Scenario -> Fate] /\ old \in [Scenario -> Fate]
    /\ exam \in {"intact", "altered"}
    /\ results \in [Scenario -> Outcome \cup {NotRun}]
    /\ baseline \in [Scenario -> Outcome \cup {NotRun}]
    /\ failing \subseteq Scenario /\ unsteady \subseteq Scenario
    /\ scenario \in Scenario \cup {NoScenario}
    /\ current \in Outcome \cup {NotRun}
    /\ round \in 0 .. MaxRounds
    /\ at \in {"baseline", "pick", "propose", "retry", "regress", "done", "raised"}

Init ==
    /\ fate \in [Scenario -> Fate]
    /\ old = fate
    /\ exam = "intact"
    /\ results = [s \in Scenario |-> NotRun]
    /\ baseline = results
    /\ failing = {} /\ unsteady = {}
    /\ scenario = NoScenario
    /\ current = NotRun
    /\ round = 0
    /\ at = "baseline"

Baseline ==
    /\ at = "baseline"
    /\ results' \in RunSuite(Scenario, Parallel)
    /\ baseline' = results'
    /\ failing' = {s \in Scenario : results'[s].verdict = "fail"}
    /\ unsteady' = {s \in Scenario : results'[s].verdict = "flaky" /\ Actionable(results'[s])}
    /\ at' = "pick"
    /\ UNCHANGED <<files, scenario, current, round>>

-----------------------------------------------------------------------------
(* Repairing: failures first, then the recurrently flaky *)

NextUp == IF failing # {} THEN failing ELSE unsteady

Begin(s) ==
    /\ at = "pick"
    /\ s \in NextUp
    /\ results[s].ran
    /\ failing' = failing \ {s} /\ unsteady' = unsteady \ {s}
    /\ IF Actionable(results[s])
       THEN scenario' = s /\ round' = 0 /\ at' = "propose"
       ELSE UNCHANGED <<scenario, round, at>>
    /\ UNCHANGED <<files, results, baseline, current>>

\* A verdict on no runs has no run to show: looking for whose fault it is, or
\* writing the report, raises out of heal.
NothingToShow ==
    /\ at = "pick"
    /\ \/ \E s \in NextUp : ~results[s].ran
       \/ NextUp = {} /\ \E s \in Scenario : ~results[s].ran
    /\ at' = "raised"
    /\ UNCHANGED <<files, results, baseline, lists, scenario, current, round>>

\* A run that raises outside a pool ends everything, with the edit on trial in place.
RunRaises ==
    /\ MayRaise
    /\ at \in {"retry"} \cup (IF Parallel THEN {} ELSE {"baseline", "regress"})
    /\ at' = "raised"
    /\ UNCHANGED <<files, results, baseline, lists, scenario, current, round>>

Finish ==
    /\ at = "pick"
    /\ NextUp = {}
    /\ \A s \in Scenario : results[s].ran
    /\ at' = "done"
    /\ UNCHANGED <<files, results, baseline, lists, scenario, current, round>>

StopRepairing ==
    /\ at = "propose"
    /\ round = MaxRounds \/ Passed(results[scenario])
    /\ at' = "pick"
    /\ UNCHANGED <<files, results, baseline, lists, scenario, current, round>>

Asked ==
    /\ at = "propose"
    /\ round < MaxRounds
    /\ ~Passed(results[scenario])

\* Nothing, the prompts it may edit (or less than half of one is left), other
\* prompts, or a prompt removed; and files that are hashed, or others
\* (personas/), besides; and whether the command came to its end.
Edit ==
    [prompts: {"none", "allowed", "truncated", "others", "removed"},
     beyond: IF Tampers THEN {"nothing", "hashed", "unhashed"} ELSE {"nothing"},
     ends: BOOLEAN]

\* Neither cut short nor with a protected file changed: the prompts are looked at.
Sound(e) == e.ends /\ e.beyond # "hashed"

\* _restore_prompts puts the prompts back, and nothing else.
LeaveFiles(e) ==
    /\ exam' = IF e.beyond = "nothing" THEN exam ELSE "altered"
    /\ IF e.beyond = "nothing" /\ ~(Sound(e) /\ e.prompts \in {"allowed", "removed"})
       THEN UNCHANGED fate
       ELSE fate' \in [Scenario -> Fate]

\* Reading a prompt that is gone raises out of heal.
AfterEdit(e) ==
    IF ~Sound(e) THEN "pick"
    ELSE CASE e.prompts = "allowed" -> "retry"
           [] e.prompts = "removed" -> "raised"
           [] e.prompts \in {"none", "truncated", "others"} -> "pick"

\* apply writes the patch, which remembers what was there before.
Apply(patched) ==
    IF patched THEN old' = fate /\ current' = results[scenario]
    ELSE UNCHANGED <<old, current>>

ClaudeProposes ==
    /\ Asked
    /\ "claude_cli" \in Backends
    /\ \E e \in Edit :
        /\ LeaveFiles(e)
        /\ at' = AfterEdit(e)
        /\ Apply(at' = "retry")
    /\ UNCHANGED <<results, baseline, lists, scenario, round>>

\* A whole file in one JSON object, written by apply; nothing is touched unless it is
\* an editable file, changed and not cut short.
ModelProposes ==
    /\ Asked
    /\ "openai" \in Backends
    /\ \/ fate' \in [Scenario -> Fate] /\ at' = "retry"
       \/ UNCHANGED fate /\ at' = "pick"
    /\ Apply(at' = "retry")
    /\ UNCHANGED <<exam, results, baseline, lists, scenario, round>>

Propose == ClaudeProposes \/ ModelProposes

\* A plausible slip: the loop forgets to put the prompts back.
RevertForgotten == UNCHANGED files

Revert == fate' = old /\ UNCHANGED <<old, exam>>

\* A plausible slip: a reverted attempt does not count as a round.
NextRoundStuck == round

NextRound == round + 1

TryAgain ==
    /\ Revert
    /\ round' = NextRound
    /\ at' = "propose"

Retry ==
    /\ at = "retry"
    /\ \E m \in RunSuite({scenario}, FALSE) :
        \/ /\ ~Passed(m[scenario])
           /\ TryAgain
           /\ UNCHANGED results
        \/ /\ Passed(m[scenario])
           /\ results' = m
           /\ at' = IF Regression THEN "regress" ELSE "pick"
           /\ UNCHANGED <<files, round>>
    /\ UNCHANGED <<baseline, lists, scenario, current>>

\* A plausible slip: only scenarios that were failing before are looked at.
BrokeOldFailuresOnly(m) ==
    {s \in Scenario \ {scenario} : m[s].verdict = "fail" /\ baseline[s].verdict = "fail"}

\* Only from reliably passing to reliably failing counts.
Broke(m) == {s \in Scenario \ {scenario} : m[s].verdict = "fail" /\ Passed(results[s])}

\* On a revert the scenario gets the verdict back that sent it to the doctor.
Regress ==
    /\ at = "regress"
    /\ \E m \in RunSuite(Scenario \ {scenario}, Parallel) :
        \/ /\ Broke(m) # {}
           /\ TryAgain
           /\ results' = [results EXCEPT ![scenario] = current]
        \/ /\ Broke(m) = {}
           /\ results' = m
           /\ at' = "pick"
           /\ UNCHANGED <<files, round>>
    /\ UNCHANGED <<baseline, lists, scenario, current>>

-----------------------------------------------------------------------------
Next ==
    \/ Baseline
    \/ \E s \in Scenario : Begin(s)
    \/ Finish
    \/ NothingToShow
    \/ RunRaises
    \/ StopRepairing
    \/ Propose
    \/ Retry
    \/ Regress

Spec == Init /\ [][Next]_vars

\* One process, which never waits for anything but runs that end.
FairSpec == Spec /\ WF_vars(Next)

-----------------------------------------------------------------------------
(* Properties *)

Between == at \in {"pick", "propose", "done"} /\ baseline # [s \in Scenario |-> NotRun]

\* Whenever no edit is on trial, every verdict the report would print is one the
\* prompts on disk can show: reverts put prompts and verdicts back together
\* (loop.py, heal).
ResultsDescribePrompts ==
    Regression /\ exam = "intact" /\ Between =>
        \A s \in Scenario : results[s] \in Outcomes(fate[s], Parallel)

\* An edit that stays does not break what always worked, unless not one regression
\* run of it came to a result (README.md:194, "if regression broke something, revert
\* automatically"; loop.py:48, all of no runs passed).
KeptEditsBreakNothingSolid ==
    Regression /\ exam = "intact" /\ Between =>
        \A s \in Scenario : (old[s] = "solid" /\ results[s].ran) => fate[s] # "broken"

\* The loop comes to an end, whatever the doctor does: its report, or an exception
\* that only a run without a result or a prompt that was removed can bring.
LoopEnds == <>(at \in {"done", "raised"})
=============================================================================
