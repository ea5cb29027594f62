---------------------------- MODULE MCMatrixReport ----------------------------
(* Instances of MatrixReport: one coordinate of both matrices.                *)
EXTENDS MatrixReport

CONSTANTS organ, rival, text, other

OnCell(type, o, value) == [type |-> type, organ |-> o, x |-> 1, y |-> 1, value |-> value]
Theme(t) == [type |-> "Theme", kind |-> "NUMERICAL", x |-> 1, text |-> t]
Statement(t) == [type |-> "Statement", kind |-> "NUMERICAL", x |-> 1, y |-> 1, text |-> t]

(* Before: a theme and a statement were approved; another theme and decimals  *)
(* are still voted on.                                                        *)
MCPast ==
  LET tx(s, does) == [voting |-> s, does |-> does]
  IN << << tx(Theme(text), "create"), tx(Theme(other), "create"), tx(Statement(text), "create"),
           tx(OnCell("Decimals", organ, 1), "create") >>,
        << tx(Theme(text), "approve"), tx(Statement(text), "approve") >> >>
MCProposals == {OnCell("NumericalValue", organ, 1), OnCell("Category", rival, 1)}
MCSuggestions ==
  MCProposals \cup {Theme(text), Theme(other), Statement(text), OnCell("Decimals", organ, 1)}
MCAsked ==
  MCProposals
  \cup {Statement(other), OnCell("Decimals", rival, 1), OnCell("NumericalValue", rival, 1),
        OnCell("CategoricalValue", rival, 1), OnCell("CategoricalValue", organ, 1),
        OnCell("CategoricalValue", rival, 2),
        [type |-> "Statement", kind |-> "CATEGORICAL", x |-> 1, y |-> 1, text |-> text]}
=============================================================================
