------------------------------- MODULE MCHeal -------------------------------
\* Instances of Heal for TLC.
EXTENDS Heal, TLC

Suite == Permutations(Scenario)
=============================================================================
