------------------------------ MODULE MCSched -------------------------------
EXTENDS Sched, TLC
CONSTANTS c1, c2, s1, s2, r1, r2
OneSleeper == c1 :> s1
TwoSleepers == c1 :> s1 @@ c2 :> s2
OneReaper == c1 :> r1
TwoReapers == c1 :> r1 @@ c2 :> r2
=============================================================================
