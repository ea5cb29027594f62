--------------------------- MODULE MCZaryaVotings ---------------------------
(* Instances of ZaryaVotings: an organ and its rival, one wallet in both that *)
(* is also the Chairman, one cell of each matrix.                             *)
EXTENDS ZaryaVotings

CONSTANTS member, organ, rival, text

MCFounders == [o \in Organs |-> {member}]
MCMajority == [quorum |-> 1, percentage |-> 1, base |-> 2]
MCSettings == {[organ |-> organ, field |-> "quorum", value |-> 2],
               [organ |-> organ, field |-> "base", value |-> 2]}

OnCell(type, o, value) == [type |-> type, organ |-> o, x |-> 1, y |-> 1, value |-> value]

MCSuggestions ==
  {[type |-> "Theme", kind |-> "NUMERICAL", x |-> 1, text |-> text],
   [type |-> "Statement", kind |-> "NUMERICAL", x |-> 1, y |-> 1, text |-> text],
   OnCell("Decimals", organ, 1), OnCell("Decimals", rival, 1), OnCell("Category", organ, 1)}

=============================================================================
