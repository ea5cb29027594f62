-------------------------- MODULE OperationLedger --------------------------
(***************************************************************************)
(* What issuing and importing forms promise together, whatever handlers,   *)
(* files and crashes carry it out: an operation is imported at most once,  *)
(* only after it was handed over, under an identity no other operation     *)
(* has, and an import is never taken back or rewritten.                    *)
(***************************************************************************)
CONSTANTS Refs, Keys, NoKey

VARIABLES
  handedOver,  \* operations whose form was given to the member
  imported     \* the identity each operation was imported under, or NoKey

ledgerVars == <<handedOver, imported>>

Init ==
  /\ handedOver = {}
  /\ imported = [ref \in Refs |-> NoKey]

HandOver(ref) ==
  /\ handedOver' = handedOver \cup {ref}
  /\ UNCHANGED imported

Import(ref, key) ==
  /\ ref \in handedOver
  /\ imported[ref] = NoKey
  /\ \A other \in Refs : imported[other] # key
  /\ imported' = [imported EXCEPT ![ref] = key]
  /\ UNCHANGED handedOver

Next == \E ref \in Refs : HandOver(ref) \/ \E key \in Keys : Import(ref, key)

Spec == Init /\ [][Next]_ledgerVars
=============================================================================
