------------------------------- MODULE MCIntents -------------------------------
(* Instances of Intents: two regions whose ordinals are not their codes.      *)
EXTENDS Intents, TLC

MCSymmetry == Permutations(Forms)

Respelled(text) == [text EXCEPT !.respelled = TRUE]

MCSubjectCodes == [o \in 0..2 |-> (<<1, 3, 2>>)[o + 1]]
MCOrgans ==
  {PartyOrganTriple("LocalSoviet", 1, 4), PartyOrganTriple("LocalGeneralAssembly", 2, 4),
   PartyOrganTriple("RegionalSoviet", 1, 0)}
MCScopes == {PartyOrganTriple("LocalSoviet", 1, 4), PartyOrganTriple("Congress", 0, 0)}

MCGood ==
  [member |-> {Word("0xa"), Respelled(Word("0xa"))},
   valueAuthor |-> {Word("0xa")},
   newChairman |-> {Word("0xa"), Word("0xb")},
   duration |-> {Digits(5)},
   x |-> {Digits(1)},
   y |-> {Digits(2)},
   category |-> {Digits(7), Respelled(Digits(7))},
   categoryName |-> {Word("name")},
   theme |-> {Word("name"), Respelled(Word("name"))},
   statement |-> {Word("name")},
   matrix |-> {Word("CATEGORICAL"), Word("NUMERICAL")},
   decimals |-> {Digits(2)},
   value |-> {Digits(15), Decimal(1, <<5>>), Decimal(0, <<1, 5>>), Decimal(1, <<5, 0>>)},
   support |-> {Word("FOR"), Word("AGAINST")},
   quorum |-> {Digits(3)},
   approvalPercentage |-> {Digits(0), Digits(5), Digits(6)},
   approvalPercentageBase |-> {Digits(0), Digits(6)}]
MCBad == {Word("control"), Respelled(Word("FOR")), Decimal(1, <<5, 5, 5>>), Digits(999)}
MCMajority == [quorum |-> 1, approvalPercentage |-> 5, approvalPercentageBase |-> 10]
=============================================================================
