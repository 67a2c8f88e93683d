----------------------------- MODULE MCInbound -----------------------------
\* Instances of Inbound for TLC.
EXTENDS Inbound, TLC

CONSTANTS s1, p1, p2, p3

\* Three customers on a line each: chat, SMS, voice.
ThreeLines == (s1 :> p1)
=============================================================================
