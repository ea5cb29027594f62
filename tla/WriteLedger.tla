---------------------------- MODULE WriteLedger ----------------------------
(***************************************************************************)
(* What a press of Send promises, whatever handlers, sweeps, nonces and    *)
(* crashes carry it out.  The calls of an operation go out one after       *)
(* another, none before the book has it noted, and each next one only when *)
(* those before it are known to have been taken.  The book never says more *)
(* than the wire knows, never takes back what it trusts, and the answer to *)
(* the member says how far the calls got.  What the ledger does not        *)
(* promise is that a call it gave up on never reaches the chain.           *)
(***************************************************************************)
EXTENDS Naturals

CONSTANTS Writers, Ops, NumCalls, MaxCalls, NoOp

Attempts == Writers \X (1..MaxCalls)
Outcomes == {"SUCCESS", "REVERTED"}
Refusals == {"NOT_SENT", "WRITES_IN_FLIGHT", "NOT_ENCODABLE"}

VARIABLES
  asked,  \* the operation each writer was asked to send, or NoOp
  told,   \* the answer each writer gave, NONE while it owes one
  book,   \* each call: NONE, NOTED, SENT, GIVEN_UP, or the outcome it had
  wire    \* what became of its transaction

ledgerVars == <<asked, told, book, wire>>

Taken == {"MEMPOOL", "GONE"} \cup Outcomes
Trusted(w, i) == book[<<w, i>>] \in {"SENT"} \cup Outcomes
Working(w) == asked[w] # NoOp /\ told[w] = "NONE"
Answer(w, reply) == told' = [told EXCEPT ![w] = reply]

Init ==
  /\ asked = [w \in Writers |-> NoOp]
  /\ told = [w \in Writers |-> "NONE"]
  /\ book = [a \in Attempts |-> "NONE"]
  /\ wire = [a \in Attempts |-> "UNSENT"]

Ask(w, op) ==
  /\ asked[w] = NoOp
  /\ asked' = [asked EXCEPT ![w] = op]
  /\ UNCHANGED <<told, book, wire>>

\* Refused before anything of it was noted.
Refuse(w) ==
  /\ Working(w)
  /\ \A i \in 1..MaxCalls : book[<<w, i>>] = "NONE" /\ wire[<<w, i>>] = "UNSENT"
  /\ \E reply \in Refusals : Answer(w, reply)
  /\ UNCHANGED <<asked, book, wire>>

Note(w, i) ==
  /\ Working(w)
  /\ i <= NumCalls[asked[w]]
  /\ book[<<w, i>>] = "NONE"
  /\ \A j \in 1..(i - 1) : Trusted(w, j)
  /\ book' = [book EXCEPT ![<<w, i>>] = "NOTED"]
  /\ UNCHANGED <<asked, told, wire>>

\* A call is posted once, and may be although it was given up meanwhile.
Post(w, i) ==
  /\ Working(w)
  /\ book[<<w, i>>] \in {"NOTED", "GIVEN_UP"}
  /\ wire[<<w, i>>] = "UNSENT"
  /\ wire' = [wire EXCEPT ![<<w, i>>] = "IN_TRANSIT"]
  /\ UNCHANGED <<asked, told, book>>

\* A call is trusted once its transaction was taken; the last one ends it.
Trust(w, i) ==
  /\ Working(w)
  /\ book[<<w, i>>] = "NOTED"
  /\ wire[<<w, i>>] \in Taken
  /\ book' = [book EXCEPT ![<<w, i>>] = "SENT"]
  /\ IF i = NumCalls[asked[w]] THEN Answer(w, "SUBMITTED") ELSE UNCHANGED told
  /\ UNCHANGED <<asked, wire>>

\* Call i failed: those before it are trusted, those after it were never noted.
Fail(w, i) ==
  /\ Working(w)
  /\ book[<<w, i>>] \in {"NOTED", "GIVEN_UP"}
  /\ \A j \in 1..(i - 1) : Trusted(w, j)
  /\ \A j \in (i + 1)..MaxCalls : book[<<w, j>>] = "NONE"
  /\ \/ Answer(w, IF i = 1 THEN "SUBMISSION_FAILED" ELSE "PARTIALLY_SUBMITTED")
     \/ book[<<w, i>>] = "GIVEN_UP" /\ wire[<<w, i>>] \in Taken /\ Answer(w, "FAILURE")
  /\ UNCHANGED <<asked, book, wire>>

\* All writers die together and answer nobody.
Die ==
  /\ told' = [w \in Writers |-> IF Working(w) THEN "LOST" ELSE told[w]]
  /\ UNCHANGED <<asked, book, wire>>

GiveUp(a) ==
  /\ book[a] = "NOTED"
  /\ book' = [book EXCEPT ![a] = "GIVEN_UP"]
  /\ UNCHANGED <<asked, told, wire>>

Confirm(a) ==
  /\ book[a] = "SENT"
  /\ wire[a] \in Outcomes
  /\ book' = [book EXCEPT ![a] = wire[a]]
  /\ UNCHANGED <<asked, told, wire>>

\* The network takes or refuses what was posted; one taken may displace others.
Take(a) ==
  /\ wire[a] = "IN_TRANSIT"
  /\ \E displaced \in SUBSET {b \in Attempts : wire[b] = "MEMPOOL"} :
       wire' = [b \in Attempts |-> IF b = a THEN "MEMPOOL"
                                   ELSE IF b \in displaced THEN "GONE" ELSE wire[b]]
  /\ UNCHANGED <<asked, told, book>>

End(a) ==
  /\ \/ wire[a] = "IN_TRANSIT" /\ wire' = [wire EXCEPT ![a] = "REFUSED"]
     \/ wire[a] = "MEMPOOL" /\ \E fate \in {"GONE"} \cup Outcomes : wire' = [wire EXCEPT ![a] = fate]
  /\ UNCHANGED <<asked, told, book>>

Next ==
  \/ \E w \in Writers :
       \/ \E op \in Ops : Ask(w, op)
       \/ Refuse(w)
       \/ \E i \in 1..MaxCalls : Note(w, i) \/ Post(w, i) \/ Trust(w, i) \/ Fail(w, i)
  \/ \E a \in Attempts : GiveUp(a) \/ Confirm(a) \/ Take(a) \/ End(a)
  \/ Die

Spec == Init /\ [][Next]_ledgerVars
=============================================================================
