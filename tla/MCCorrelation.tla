---------------------------- MODULE MCCorrelation ----------------------------
(* A small artifact and its rules for the runs of Correlation. *)
EXTENDS Correlation

M(file, rule, value, offset) == [file |-> file, rule |-> rule, value |-> value, offset |-> offset]

\* The root and a file, and a third that the tree does not know; one value in
\* several files, several at one place, and enough of one rule for a cluster.
TwoRules == {"key", "path"}
ThreeValues == {"a", "b", "c"}
Findable == {M(1, "key", "a", 0), M(2, "key", "a", 4), M(3, "key", "a", 0), M(1, "key", "b", 0),
             M(2, "key", "c", 0), M(2, "path", "a", 4)}
AnyTree == {t \in SUBSET Findable : Cardinality(t) >= 4}
FewStrings == <<2, 0, 2>>
Suppressible == {[rule |-> "key", value |-> "a", paths |-> {1, 2}],
                 [rule |-> "key", value |-> "a", paths |-> {2}]}
Place10(id) == 100 * id.path + 10 * id.offset + (IF id.rule = "key" THEN 5 ELSE 0)
               + (CASE id.hash[1] = "a" -> 1 [] id.hash[1] = "b" -> 2 [] OTHER -> 3)
=============================================================================
