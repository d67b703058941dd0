--------------------------- MODULE MCReleaseGate ---------------------------
(* Findings, policies and waiver files for the runs of ReleaseGate. *)
EXTENDS ReleaseGate

CONSTANTS f1, f2, t1

OneFinding == {f1}
TwoFindings == {f1, f2}
OneTriager == {t1}

\* f1 is high, f2 is medium.
HighAndMedium == [f \in Findings |-> IF f = f1 THEN 1 ELSE 2]

NoBudget == [s \in Ranks |-> Unlimited]
NoMedium == [NoBudget EXCEPT ![2] = 0]

\* Policy(): the shipping defaults, with a waiver TTL of one day here.
Default ==
    [floor |-> 1, listed |-> {}, budget |-> NoBudget, mode |-> "new_only",
     onDegraded |-> "fail", trust |-> FALSE, maxDays |-> 1]
BlocksMedium == [Default EXCEPT !.floor = 2]
ListsMedium == [Default EXCEPT !.floor = NoFloor, !.listed = {f2}, !.onDegraded = "warn"]
Budgeted == [Default EXCEPT !.budget = NoMedium, !.mode = "all"]
Trusting == [BlocksMedium EXCEPT !.trust = TRUE, !.onDegraded = "pass"]
Permissive == [Trusting EXCEPT !.floor = NoFloor]

AllPolicies == {Default, BlocksMedium, ListsMedium, Budgeted, Trusting, Permissive}
BlocksMediumOnly == {BlocksMedium}

OpenOrDismiss == {"open", "false_positive", "fixed"}
AcceptOrDismiss == {"accepted_risk", "false_positive"}
AnyVerdict == LlmVerdict
Dismissal == {"false_positive"}

NoBaseline == {{}}
OnlyF1 == {{f1}}

NoWaiverFile == {[f \in Findings |-> NoWaiver]}
HandWritten == NoWaiverFile \cup {[f \in Findings |-> IF f = f1 THEN 2 ELSE NoWaiver]}
=============================================================================
