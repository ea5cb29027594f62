---------------------------- MODULE MCWritePath ----------------------------
(***************************************************************************)
(* Small instances of WritePath.  Three kinds of operation stand for the   *)
(* eleven: a vote (one call, no organ), a voting on an organ (one call,    *)
(* its organ must be resolved), and a threshold configuration (several     *)
(* calls on one organ).                                                    *)
(***************************************************************************)
EXTENDS WritePath, TLC

CONSTANTS vote, voting, thresholds, organ

MCOrganOf == [op \in Ops |-> IF op = vote THEN NoOrgan ELSE organ]
MCNumCalls == [op \in Ops |-> IF op = thresholds THEN MaxCalls ELSE 1]

\* Presses are interchangeable, and so are sweeps.
MCSymmetry == Permutations(Requests) \cup Permutations(Sweeps)
=============================================================================
