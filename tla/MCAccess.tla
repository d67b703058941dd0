------------------------------ MODULE MCAccess ------------------------------
(* Processes, names and databases for the run of Access. *)
EXTENDS Access

CONSTANTS p1, p2, h1, h2, o1, q1

TwoServices == {p1, p2}
TwoHandlers == {h1, h2}
OneOperator == {o1}
OneRequest == {q1}
OneName == {"bootstrap"}
CiOnly == {"ci"}
AnyAge == {Empty, FromCreateAll, AtRevision(1)}
=============================================================================
