--------------------------- MODULE RateLimiterMC ---------------------------
(* Instances of RateLimiter for TLC: a few callers as model values.         *)
EXTENDS RateLimiter, TLC

CONSTANTS c1, c2, c3, b1, b2

NoDeadlines == {NoDeadline}
ShortDeadlines == {NoDeadline, 1}
AllFaults == Fault
=============================================================================
