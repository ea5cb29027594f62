-------------------------- MODULE MCFormOperations --------------------------
(***************************************************************************)
(* Small instances of FormOperations.  A ballot stands for casting a vote, *)
(* a value for proposing a numerical value, whose scale is read from       *)
(* chain, and a theme for the operations that are neither.                 *)
(***************************************************************************)
EXTENDS FormOperations, TLC

CONSTANTS ballot, value, theme

\* References, import messages, deployments and precisions are interchangeable.
MCSymmetry ==
  Permutations(Refs) \cup Permutations(Imports) \cup Permutations(Deployments)
    \cup Permutations(Scales) \cup Permutations(Fills)
=============================================================================
