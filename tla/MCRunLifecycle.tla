--------------------------- MODULE MCRunLifecycle ---------------------------
(* Model values and symmetry for the runs of RunLifecycle. *)
EXTENDS RunLifecycle, TLC

CONSTANTS r1, r2, w1, w2, h1, h2

OneRun == {r1}
TwoWorkers == {w1, w2}
NoHeavy == {}
OneHeavy == {h1}
TwoHeavy == {h1, h2}

Result(s, z, t) == [status |-> s, exitZero |-> z, truncated |-> t]
CleanOnly == {Result("completed", TRUE, FALSE)}
CleanOrTimeout == {Result("completed", TRUE, FALSE), Result("timeout", FALSE, FALSE)}
CleanTimeoutTruncated == CleanOrTimeout \cup {Result("completed", TRUE, TRUE)}

SlotSymmetry == Permutations(TwoWorkers) \cup Permutations(TwoHeavy)
=============================================================================
