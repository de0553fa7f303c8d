----------------------------- MODULE MCMinutes -----------------------------
EXTENDS Minutes, TLC

CONSTANTS c1, in1

\* What each call costs: different, so that one is never taken for the other.
Costes == [c \in Llamadas |-> IF c = c1 THEN 1 ELSE 2]

\* The callback of the outbound call is delivered twice.
DosYUna == {<<c1, 1>>, <<c1, 2>>, <<in1, 1>>}
Una == {<<c1, 1>>}
=============================================================================
