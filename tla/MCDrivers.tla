----------------------------- MODULE MCDrivers -----------------------------
\* Instances of Drivers for TLC.
EXTENDS Drivers, TLC

CONSTANTS intake, small, large

\* intake may transfer to either, small to large; large has no transfer.
Targets == (intake :> {small, large}) @@ (small :> {large}) @@ (large :> {})
Allowed ==
    (intake :> {"handoff.transfer", "conversation.end"})
 @@ (small :> {"handoff.transfer", "conversation.end", "schedule"})
 @@ (large :> {"conversation.end", "schedule"})
=============================================================================
