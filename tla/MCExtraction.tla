---------------------------- MODULE MCExtraction ----------------------------
(* Archives, names and caps for the runs of Extraction. *)
EXTENDS Extraction

CONSTANTS n1, n2

TwoNames == {n1, n2}
\* n1 and n2 differ only in characters _slugify replaces.
SameSlug == [n \in Names |-> "s"]
EmptyOrOne == {0, 1}
=============================================================================
