--------------------------- MODULE IssuedTemplate ---------------------------
(***************************************************************************)
(* The states of an operation row and the table of its legal moves         *)
(* (src/src/domain/operations/issuedTemplate.ts).                          *)
(***************************************************************************)

TemplateStates == {"REQUESTED", "CONTEXT_READ", "RECORDED", "EMITTED", "RETURNED",
                   "UNAVAILABLE", "SUPERSEDED"}

\* A mistaken table: a returned form may be returned again.
TransitionsAgain(from) ==
  CASE from = "RECORDED"                -> {"EMITTED"}
    [] from \in {"EMITTED", "RETURNED"} -> {"RETURNED"}
    [] OTHER                            -> {}

Transitions(from) ==
  CASE from = "REQUESTED"    -> {"CONTEXT_READ", "UNAVAILABLE"}
    [] from = "CONTEXT_READ" -> {"RECORDED", "UNAVAILABLE"}
    [] from = "RECORDED"     -> {"EMITTED"}
    [] from = "EMITTED"      -> {"RETURNED"}
    [] from = "RETURNED"     -> {"SUPERSEDED"}
    [] OTHER                 -> {}

CanTransition(from, to) == to \in Transitions(from)

CanBindReturnedForm(state) == state \in {"EMITTED", "RETURNED", "SUPERSEDED"}
=============================================================================
