----------------------------- MODULE Matricies -----------------------------
(* The contract's pair of matrices (temporal_docs/libraries/Matricies.sol):   *)
(* what applying an approved suggestion does to them and when it reverts, and *)
(* what the client foretells of it (domain/preflight/applicationPreflight.ts).*)
(* Checkpoint authors and category names are left out.                        *)
EXTENDS ContractErrors, Sequences, FiniteSets

CONSTANTS
  Xs, Ys,        \* coordinates
  NoOrgan,       \* ZERO_PARTY_ORGAN, what the organ of an unbound cell reads as
  NoText         \* the empty string

Kinds == {"CATEGORICAL", "NUMERICAL"}
Cells == Kinds \X Xs \X Ys

EmptyMatricies ==
  [themes     |-> [header \in Kinds \X Xs |-> NoText],
   statements |-> [header \in Kinds \X Ys |-> NoText],
   organs     |-> [cell \in Cells |-> NoOrgan],
   categories |-> [place \in Xs \X Ys |-> {}],
   decimals   |-> [place \in Xs \X Ys |-> 0],
   samples    |-> [cell \in Cells |-> << >>]]

(* The matrix a suggestion addresses.                                         *)
KindOf(s) ==
  CASE s.type \in {"Category", "CategoricalValue"} -> "CATEGORICAL"
    [] s.type \in {"Decimals", "NumericalValue"}   -> "NUMERICAL"
    [] OTHER                                       -> s.kind

WritesCell(s) == s.type \in {"Category", "Decimals", "CategoricalValue", "NumericalValue"}

(* What may be suggested: no field is blank, and only an organ suggests.      *)
IsSuggestion(s) ==
  /\ s.type \in {"Theme", "Statement"} \/ WritesCell(s)
  /\ s.x \in Xs /\ (s.type # "Theme" => s.y \in Ys)
  /\ IF WritesCell(s) THEN s.organ # NoOrgan ELSE s.kind \in Kinds /\ s.text # NoText

CellOf(s) == <<KindOf(s), s.x, s.y>>
PlaceOf(s) == <<s.x, s.y>>   \* what belongs to one kind of cell only

(* Mutant: a write of another organ rebinds the cell.                         *)
BoundElsewhereNever(m, s) == FALSE
BoundElsewhere(m, s) == m.organs[CellOf(s)] \notin {NoOrgan, s.organ}

NoThemeAt(m, s) == m.themes[<<KindOf(s), s.x>>] = NoText
NoStatementAt(m, s) == m.statements[<<KindOf(s), s.y>>] = NoText

(* addValue's own isCategoryAllowed, which wants the organ to match as well.  *)
CategoryAllowed(m, s) ==
  /\ s.value \in m.categories[PlaceOf(s)]
  /\ m.organs[CellOf(s)] = s.organ

-----------------------------------------------------------------------------
(* What applying suggestion s reverts with; NoError when it goes through.     *)
ApplyError(m, s) ==
  CASE s.type = "Statement" -> FirstError(<< <<NoThemeAt(m, s), "NoThemeSet">> >>)
    [] s.type = "Category" ->
         FirstError(<< <<BoundElsewhere(m, s), "InvalidOrgan">>,
                       <<s.value \in m.categories[PlaceOf(s)], "CategoryAlreadyExists">> >>)
    [] s.type = "Decimals" -> FirstError(<< <<BoundElsewhere(m, s), "InvalidOrgan">> >>)
    [] s.type = "CategoricalValue" ->
         FirstError(<< <<NoThemeAt(m, s), "NoThemeSet">>,
                       <<NoStatementAt(m, s), "NoStatementSet">>,
                       <<~CategoryAllowed(m, s), "InvalidCategory">>,
                       <<BoundElsewhere(m, s), "InvalidOrgan">> >>)
    [] s.type = "NumericalValue" ->
         FirstError(<< <<NoThemeAt(m, s), "NoThemeSet">>,
                       <<NoStatementAt(m, s), "NoStatementSet">>,
                       <<BoundElsewhere(m, s), "InvalidOrgan">> >>)
    [] OTHER -> NoError

(* A checkpoint at a timestamp that already has one replaces it.              *)
Push(sample, now, value) ==
  IF sample # << >> /\ sample[Len(sample)].at = now
  THEN [sample EXCEPT ![Len(sample)] = [at |-> now, value |-> value]]
  ELSE Append(sample, [at |-> now, value |-> value])

Bound(m, s) == [m EXCEPT !.organs[CellOf(s)] = s.organ]

(* The matrices after s was applied at block time now.                        *)
Applied(m, s, now) ==
  CASE s.type = "Theme"     -> [m EXCEPT !.themes[<<s.kind, s.x>>] = s.text]
    [] s.type = "Statement" -> [m EXCEPT !.statements[<<s.kind, s.y>>] = s.text]
    [] s.type = "Category"  -> [Bound(m, s) EXCEPT !.categories[PlaceOf(s)] = @ \cup {s.value}]
    [] s.type = "Decimals"  -> [Bound(m, s) EXCEPT !.decimals[PlaceOf(s)] = s.value]
    [] s.type \in {"CategoricalValue", "NumericalValue"} ->
         [Bound(m, s) EXCEPT !.samples[CellOf(s)] = Push(@, now, s.value)]
    [] OTHER -> m

-----------------------------------------------------------------------------
(* The client's side: the reads a proposal needs, and what it warns of when   *)
(* only those in `read` were answered.                                        *)
(* Mutant of the next: a statement is taken to need no theme.                 *)
LabelReadsValuesOnly(s) ==
  IF s.type \in {"CategoricalValue", "NumericalValue"} THEN {"theme", "statement"} ELSE {}
LabelReads(s) ==
  CASE s.type = "Statement" -> {"theme"}
    [] s.type \in {"CategoricalValue", "NumericalValue"} -> {"theme", "statement"}
    [] OTHER -> {}

ApplicationReads(s) == LabelReads(s) \cup (IF WritesCell(s) THEN {"cell"} ELSE {})

Unread == "PRECONDITION_UNREAD"

(* The predicted reverts in the order the warnings are listed; a gap in what  *)
(* was read comes first.                                                      *)
Warnings(m, s, read) ==
  LET when(cond, warning) == IF cond THEN <<warning>> ELSE << >>
      cell == "cell" \in read
      unread == when(~(ApplicationReads(s) \subseteq read), Unread)
      labels == when("theme" \in LabelReads(s) \cap read /\ NoThemeAt(m, s), "NoThemeSet")
                \o when("statement" \in LabelReads(s) \cap read /\ NoStatementAt(m, s), "NoStatementSet")
  IN unread \o labels \o
     CASE s.type = "CategoricalValue" ->
            when(cell /\ (BoundElsewhere(m, s) \/ s.value \notin m.categories[PlaceOf(s)]), "InvalidCategory")
       [] s.type = "Category" ->
            when(cell /\ BoundElsewhere(m, s), "InvalidOrgan")
            \o when(cell /\ s.value \in m.categories[PlaceOf(s)], "CategoryAlreadyExists")
       [] s.type \in {"Decimals", "NumericalValue"} ->
            when(cell /\ BoundElsewhere(m, s), "InvalidOrgan")
       [] OTHER -> << >>
=============================================================================
