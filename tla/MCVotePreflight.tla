-------------------------- MODULE MCVotePreflight --------------------------
(* Instances of VotePreflight: one organ, a founder and a Chairman, one cell. *)
EXTENDS VotePreflight

CONSTANTS founder, chairman, organ, rival, text

MCFounders == [o \in Organs |-> IF o = organ THEN {founder} ELSE {chairman}]
MCMajority == [quorum |-> 1, percentage |-> 1, base |-> 2]

MCSettings == {[organ |-> organ, field |-> "quorum", value |-> 2],
               [organ |-> organ, field |-> "base", value |-> 2]}

MCSuggestions ==
  {[type |-> "Membership", organ |-> organ, member |-> chairman],
   [type |-> "MembershipRevocation", organ |-> organ, member |-> founder],
   [type |-> "Theme", kind |-> "NUMERICAL", x |-> 1, text |-> text],
   [type |-> "Decimals", organ |-> rival, x |-> 1, y |-> 1, value |-> 1],
   [type |-> "Category", organ |-> organ, x |-> 1, y |-> 1, value |-> 1]}
=============================================================================
