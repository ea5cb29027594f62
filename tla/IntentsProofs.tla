----------------------------- MODULE IntentsProofs -----------------------------
(* What the model of Intents keeps for every number of forms, every organ,    *)
(* every text and every scale: the calls of a form say what its member wrote   *)
(* and what was printed on it, a proposal has one imported form, and a voting  *)
(* keeps whole settings whichever calls of a configuration are mined before it. *)
EXTENDS Intents, SequenceTheorems, WellFoundedInduction, TLAPS

Sent(f) == forms[f].stage \in {"sent", "partlySent"}
Configures(f) == forms[f].type = "CONFIGURE_ORGAN_THRESHOLDS"
(* The records of the forms.                                                  *)
FormRecord(stage, type, values, printed, file, scale, intent) ==
  [stage |-> stage, type |-> type, values |-> values, printed |-> printed, file |-> file,
   scale |-> scale, intent |-> intent]
IsFormRecord(r) == r = FormRecord(r.stage, r.type, r.values, r.printed, r.file, r.scale, r.intent)

(* Variables are the functions and records their updates take them for.       *)
SettingsShape ==
  /\ settings = [o \in Organs |-> settings[o]]
  /\ \A o \in Organs :
       settings[o] = [quorum |-> settings[o].quorum,
                      approvalPercentage |-> settings[o].approvalPercentage,
                      approvalPercentageBase |-> settings[o].approvalPercentageBase]
Shapes ==
  /\ forms = [f \in Forms |-> forms[f]]
  /\ \A f \in Forms : IsFormRecord(forms[f])
  /\ SettingsShape
  /\ queue \in Seq(Range(queue))

(* What an imported form was imported with is what its fields build.          *)
Built ==
  \A f \in Forms :
    forms[f].stage # "unissued" =>
      /\ forms[f].type \in OperationTypes
      /\ Imported(f) =>
           /\ forms[f].intent # {}
           /\ forms[f].intent = BuildIntent(forms[f].type, Input(forms[f].file, forms[f], forms[f].scale))

(* The settings of an organ nobody overlays are a form's, or have no base.    *)
WholeFrom(o, f) ==
  /\ Sent(f) /\ Configures(f)
  /\ IntentOf(f).organ = o /\ IntentOf(f).args = settings[o]
Whole ==
  \A o \in Organs \ overlaid :
    \/ settings[o].approvalPercentageBase = 0
    \/ /\ settings[o].approvalPercentage < settings[o].approvalPercentageBase
       /\ \E f \in Forms : WholeFrom(o, f)

(* Form f's configuration is under way: k of its calls are mined, and the     *)
(* queue holds some that follow.                                              *)
Remaining(intent, k) ==
  /\ k + Len(queue) <= 3
  /\ \A n \in 1..Len(queue) : queue[n] = ThresholdCalls(intent)[k + n]

Written(intent, k) ==
  \A o \in Organs :
    intent.organ = o =>
      IF intent.args.approvalPercentageBase = 0
      THEN k >= 1 => settings[o].approvalPercentageBase = 0
      ELSE /\ o \in overlaid \/ settings[o].approvalPercentageBase = 0
           /\ k >= 1 => settings[o].quorum = intent.args.quorum
           /\ k >= 2 => settings[o].approvalPercentage = intent.args.approvalPercentage

Underway ==
  \/ \A n \in 1..Len(queue) : queue[n].fn \notin Setters
  \/ \E f \in Forms, k \in 0..2 :
       /\ Sent(f) /\ Configures(f)
       /\ Remaining(IntentOf(f), k) /\ Written(IntentOf(f), k)

SettingsInv == Shapes /\ Built /\ Whole /\ Underway

(* Every part of an intent that fields build.                                 *)
IsIntent(intent, type) ==
  /\ intent = [type |-> type, organ |-> intent.organ, args |-> intent.args]
  /\ intent.args = [k \in ArgumentKeys(type) |-> intent.args[k]]
  /\ NamesOrgan(type) => IsNormal(intent.organ)
  /\ ~NamesOrgan(type) => intent.organ = NoOrgan
  /\ Sensible(type, intent.args)

(* No two imported forms share an identity; the intent of a refusal is one     *)
(* fields built, and an imported form has its identity.                        *)
Distinct ==
  \A f, g \in Forms :
    f # g /\ Imported(f) /\ Imported(g) => CanonicalIdentity(IntentOf(f)) # CanonicalIdentity(IntentOf(g))
Refusals ==
  \A intent \in answer.intent :
    /\ \E type \in OperationTypes : IsIntent(intent, type)
    /\ \E f \in Forms : Imported(f) /\ CanonicalIdentity(intent) = CanonicalIdentity(IntentOf(f))
IdentityInv == Shapes /\ Built /\ Distinct /\ Refusals

(* What a template shows is what its record binds.                            *)
BoundTo(r, o, v) ==
  /\ (o # NoOrgan) = NamesOrgan(r.type) /\ (v # 0) = NamesVoting(r.type)
  /\ r.values = BoundValuesFor(o, v)
  /\ r.printed = IF o = NoOrgan THEN <<>> ELSE PartyOrganIdentifier(o)
Bound ==
  \A f \in Forms :
    forms[f].stage # "unissued" =>
      \E o \in Organs \cup {NoOrgan}, v \in VotingIds \cup {0} : BoundTo(forms[f], o, v)

(* An imported form came back with every field of its plan and no other.      *)
CameBack(r) ==
  /\ DOMAIN r.file.fields = FIELD_PLAN[r.type].input
  /\ \A k \in FIELD_PLAN[r.type].input : r.file.fields[k] \in Texts
  /\ r.scale \in ScalesFor(r.type)
Returned == \A f \in Forms : Imported(f) => CameBack(forms[f])

MeaningInv == Shapes /\ Built /\ Bound /\ Returned

(* What a step makes of a form's record.                                      *)
Issues(old, new, type, o, v) ==
  /\ old.stage = "unissued"
  /\ type \in OperationTypes /\ o \in Organs \cup {NoOrgan} /\ v \in VotingIds \cup {0}
  /\ (o # NoOrgan) = NamesOrgan(type) /\ (v # 0) = NamesVoting(type)
  /\ new = FormRecord("issued", type, BoundValuesFor(o, v),
                      IF o = NoOrgan THEN <<>> ELSE PartyOrganIdentifier(o), <<>>, 0, {})
Imports(old, new, file, scale, intents) ==
  /\ old.stage = "issued" /\ file \in ReturnedFiles[old.type] /\ scale \in ScalesFor(old.type)
  /\ AssembleFormInput(file, old) = {}
  /\ intents # {} /\ intents = BuildIntent(old.type, Input(file, old, scale))
  /\ new = FormRecord("imported", old.type, old.values, old.printed, file, scale, intents)
Sends(old, new) ==
  /\ old.stage \in {"imported", "sent", "partlySent"}
  /\ \E stage \in {"sent", "partlySent"} :
       new = FormRecord(stage, old.type, old.values, old.printed, old.file, old.scale, old.intent)

-----------------------------------------------------------------------------
(* Readers, organs and intents. *)

(* Which reader a key gets: the keys of the three tables and the code of a     *)
(* region are distinct.                                                       *)
LEMMA Keys ==
  /\ DOMAIN Widths = {"organNumber", "duration", "x", "y", "category", "votingId", "decimals",
                      "quorum", "approvalPercentage", "approvalPercentageBase"}
  /\ DOMAIN Options = {"organType", "matrix", "support"}
  /\ Addresses = {"member", "valueAuthor", "newChairman"}
BY DEF Widths, Options, Addresses

LEMMA Readers ==
  ASSUME NEW key, NEW text
  PROVE  /\ key \in DOMAIN Widths => Read(key, text) = ReadUint(text, Widths[key])
         /\ key \in DOMAIN Options => Read(key, text) = {w \in Options[key] : text = Word(w)}
         /\ key = "regionSubjectCode" => Read(key, text) = {c \in Range(SubjectCodes) : text = Digits(c)}
         /\ key \in Addresses =>
              Read(key, text) = {a \in {[address |-> text.word, respelled |-> text.respelled]} :
                                   text.word \in {"0xa", "0xb"}}
         /\ key \notin DOMAIN Widths \cup DOMAIN Options \cup {"regionSubjectCode"} \cup Addresses =>
              Read(key, text) = {t \in {[text EXCEPT !.respelled = FALSE]} :
                                   text.word \notin {"blank", "control"}}
<1>1. key \in DOMAIN Widths => Read(key, text) = ReadUint(text, Widths[key])
  BY Keys DEF Read
<1>2. key \in DOMAIN Options => Read(key, text) = {w \in Options[key] : text = Word(w)}
  BY Keys DEF Read
<1>3. key = "regionSubjectCode" => Read(key, text) = {c \in Range(SubjectCodes) : text = Digits(c)}
  BY Keys DEF Read
<1>4. key \in Addresses =>
        Read(key, text) = {a \in {[address |-> text.word, respelled |-> text.respelled]} :
                             text.word \in {"0xa", "0xb"}}
  BY Keys DEF Read
<1>5. key \notin DOMAIN Widths \cup DOMAIN Options \cup {"regionSubjectCode"} \cup Addresses =>
        Read(key, text) = {t \in {[text EXCEPT !.respelled = FALSE]} : text.word \notin {"blank", "control"}}
  BY Keys DEF Read
<1>. QED
  BY <1>1, <1>2, <1>3, <1>4, <1>5

(* A reader answers one value at most.                                        *)
LEMMA ReadsOne ==
  ASSUME NEW key, NEW text, NEW v \in Read(key, text), NEW w \in Read(key, text)
  PROVE  v = w
<1>1. CASE key \in DOMAIN Widths
  BY <1>1, Readers DEF ReadUint
<1>2. CASE key \in DOMAIN Options
  <2>1. text = Word(v) /\ text = Word(w)
    BY <1>2, Readers
  <2>2. Word(v).word = v /\ Word(w).word = w
    BY DEF Word
  <2>. QED
    BY <2>1, <2>2
<1>3. CASE key = "regionSubjectCode"
  <2>1. text = Digits(v) /\ text = Digits(w)
    BY <1>3, Readers
  <2>2. Digits(v).whole = v /\ Digits(w).whole = w
    BY DEF Digits, Decimal
  <2>. QED
    BY <2>1, <2>2
<1>4. CASE key \in Addresses
  BY <1>4, Readers
<1>5. CASE key \notin DOMAIN Widths \cup DOMAIN Options \cup {"regionSubjectCode"} \cup Addresses
  <2>1. Read(key, text) = {t \in {[text EXCEPT !.respelled = FALSE]} : text.word \notin {"blank", "control"}}
    BY <1>5, Readers
  <2>. QED
    BY <2>1
<1>. QED
  BY <1>1, <1>2, <1>3, <1>4, <1>5

LEMMA ReadType ==
  ASSUME NEW text, NEW w \in Read("organType", text)
  PROVE  w \in DOMAIN ScopeOf
<1>1. "organType" \in DOMAIN Options /\ Options["organType"] = DOMAIN ScopeOf
  BY Keys DEF Options
<1>. QED
  BY <1>1, Readers

LEMMA ReadCode ==
  ASSUME NEW text, NEW c \in Read("regionSubjectCode", text)
  PROVE  c \in Range(SubjectCodes)
BY Readers

(* The region of a code is the one whose code it is.                          *)
LEMMA RegionOfCode ==
  ASSUME NEW c \in Range(SubjectCodes)
  PROVE  RegionBySubjectCode(c) \in Ordinals /\ SubjectCodes[RegionBySubjectCode(c)] = c
BY DEF RegionBySubjectCode, Inverse, Range, Ordinals

LEMMA TripleIsNormal ==
  ASSUME NEW type \in DOMAIN ScopeOf, NEW region \in Ordinals, NEW number
  PROVE  IsNormal(PartyOrganTriple(type, region, number))
<1>1. PartyOrganTriple(type, region, PartyOrganTriple(type, region, number).number)
        = PartyOrganTriple(type, region, number)
  BY DEF PartyOrganTriple
<1>. QED
  BY <1>1 DEF IsNormal

(* Two organs a form could name are one.                                      *)
LEMMA ReadsOneOrgan ==
  ASSUME NEW input, NEW o \in ReadOrgan(input), NEW p \in ReadOrgan(input)
  PROVE  o = p
<1>. DEFINE Type == Read("organType", input.organType)
            Codes == Read("regionSubjectCode", input.regionSubjectCode)
            Numbers == Read("organNumber", input.organNumber)
<1>1. /\ \A t, u \in Type : t = u
      /\ \A c, d \in Codes : c = d
      /\ \A n, m \in Numbers : n = m
  BY ReadsOne
<1>2. \A r, q \in {RegionBySubjectCode(c) : c \in Codes} : r = q
  BY <1>1
<1>. HIDE DEF Type, Codes, Numbers
<1>3. QED
  BY <1>1, <1>2 DEF ReadOrgan, Type, Codes, Numbers

(* The organ a form names is a normal one.                                    *)
LEMMA ReadsNormal ==
  ASSUME NEW input, NEW o \in ReadOrgan(input)
  PROVE  IsNormal(o)
<1>. DEFINE Regions == {RegionBySubjectCode(c) : c \in Read("regionSubjectCode", input.regionSubjectCode)}
<1>1. Regions \subseteq Ordinals
  BY ReadCode, RegionOfCode
<1>2. PICK type \in Read("organType", input.organType) :
        o \in CASE ScopeOf[type] = "GLOBAL" -> {PartyOrganTriple(type, 0, 0)}
               [] ScopeOf[type] = "REGIONAL" -> {PartyOrganTriple(type, r, 0) : r \in Regions}
               [] OTHER -> {PartyOrganTriple(type, r, n) :
                              r \in Regions, n \in Read("organNumber", input.organNumber)}
  BY DEF ReadOrgan
<1>3. type \in DOMAIN ScopeOf /\ 0 \in Ordinals
  BY <1>2, ReadType, IntentsAssumption
<1>4. \E r \in Ordinals : \E n : o = PartyOrganTriple(type, r, n)
  BY <1>1, <1>2, <1>3
<1>. QED
  BY <1>3, <1>4, TripleIsNormal

(* Fields build intents.                                                      *)
LEMMA BuildsIntents ==
  ASSUME NEW type, NEW input, NEW i \in BuildIntent(type, input)
  PROVE  IsIntent(i, type)
<1>. DEFINE organs == IF NamesOrgan(type) THEN ReadOrgan(input) ELSE {NoOrgan}
            args == [k \in ArgumentKeys(type) |-> CHOOSE v \in ReadArgument(k, input) : TRUE]
<1>1. PICK o \in organs : i = [type |-> type, organ |-> o, args |-> args]
  BY DEF BuildIntent
<1>2. Sensible(type, i.args)
  BY DEF BuildIntent
<1>. QED
  BY <1>1, <1>2, ReadsNormal DEF IsIntent

(* One reading of the fields builds one intent.                               *)
LEMMA BuildsOne ==
  ASSUME NEW type, NEW input, NEW i \in BuildIntent(type, input), NEW j \in BuildIntent(type, input)
  PROVE  i = j
<1>. DEFINE organs == IF NamesOrgan(type) THEN ReadOrgan(input) ELSE {NoOrgan}
            args == [k \in ArgumentKeys(type) |-> CHOOSE v \in ReadArgument(k, input) : TRUE]
<1>1. PICK o \in organs : i = [type |-> type, organ |-> o, args |-> args]
  BY DEF BuildIntent
<1>2. PICK p \in organs : j = [type |-> type, organ |-> p, args |-> args]
  BY DEF BuildIntent
<1>3. o = p
  BY <1>1, <1>2, ReadsOneOrgan
<1>. QED
  BY <1>1, <1>2, <1>3

(* The scale of a moment later changes only what is resolved from the chain.  *)
LEMMA ScaleUnread ==
  ASSUME NEW file, NEW issued, NEW r, NEW s, FIELD_PLAN[issued.type].resolved = {}
  PROVE  Input(file, issued, r) = Input(file, issued, s)
BY DEF Input

-----------------------------------------------------------------------------
(* Organs and their names. *)

(* Short sequences put together.                                              *)
LEMMA Joined ==
  ASSUME NEW a, NEW b
  PROVE  <<a>> \o <<b>> = <<a, b>>
<1>. DEFINE S == {a, b}
<1>1. <<a>> \in Seq(S) /\ <<b>> \in Seq(S) /\ <<a, b>> \in Seq(S)
  OBVIOUS
<1>2. Len(<<a>>) = 1 /\ Len(<<b>>) = 1 /\ Len(<<a, b>>) = 2
  OBVIOUS
<1>. HIDE DEF S
<1>3. /\ <<a>> \o <<b>> \in Seq(S) /\ Len(<<a>> \o <<b>>) = 2
      /\ (<<a>> \o <<b>>)[1] = a /\ (<<a>> \o <<b>>)[2] = b
  BY <1>1, <1>2, ConcatProperties
<1>4. \A i \in 1..Len(<<a>> \o <<b>>) : (<<a>> \o <<b>>)[i] = <<a, b>>[i]
  BY <1>3
<1>. QED
  BY <1>1, <1>2, <1>3, <1>4, SeqEqual

LEMMA OneBeforeTwo ==
  ASSUME NEW a, NEW b, NEW c
  PROVE  <<a>> \o <<b, c>> = <<a, b, c>>
<1>. DEFINE S == {a, b, c}
<1>1. <<a>> \in Seq(S) /\ <<b, c>> \in Seq(S) /\ <<a, b, c>> \in Seq(S)
  OBVIOUS
<1>2. Len(<<a>>) = 1 /\ Len(<<b, c>>) = 2 /\ Len(<<a, b, c>>) = 3
  OBVIOUS
<1>. HIDE DEF S
<1>3. /\ <<a>> \o <<b, c>> \in Seq(S) /\ Len(<<a>> \o <<b, c>>) = 3
      /\ (<<a>> \o <<b, c>>)[1] = a /\ (<<a>> \o <<b, c>>)[2] = b /\ (<<a>> \o <<b, c>>)[3] = c
  BY <1>1, <1>2, ConcatProperties
<1>4. \A i \in 1..Len(<<a>> \o <<b, c>>) : (<<a>> \o <<b, c>>)[i] = <<a, b, c>>[i]
  BY <1>3
<1>. QED
  BY <1>1, <1>2, <1>3, <1>4, SeqEqual

LEMMA PairOf ==
  ASSUME NEW a, NEW b
  PROVE  Append(<<a>>, b) = <<a, b>>
<1>. <<a>> \in Seq({a, b})
  OBVIOUS
<1>. QED
  BY Joined, AppendIsConcat

LEMMA TripleOf ==
  ASSUME NEW a, NEW b, NEW c
  PROVE  Append(<<a, b>>, c) = <<a, b, c>>
<1>. DEFINE S == {a, b, c}
<1>1. <<a, b>> \in Seq(S) /\ <<a, b, c>> \in Seq(S) /\ c \in S
  OBVIOUS
<1>2. Len(<<a, b>>) = 2 /\ Len(<<a, b, c>>) = 3
  OBVIOUS
<1>. HIDE DEF S
<1>3. /\ Append(<<a, b>>, c) \in Seq(S) /\ Len(Append(<<a, b>>, c)) = 3
      /\ Append(<<a, b>>, c)[1] = a /\ Append(<<a, b>>, c)[2] = b /\ Append(<<a, b>>, c)[3] = c
  BY <1>1, <1>2, AppendProperties
<1>4. \A i \in 1..Len(Append(<<a, b>>, c)) : Append(<<a, b>>, c)[i] = <<a, b, c>>[i]
  BY <1>3
<1>. QED
  BY <1>1, <1>2, <1>3, <1>4, SeqEqual

LEMMA Parts ==
  ASSUME NEW o, IsNormal(o)
  PROVE  /\ o.organType \in DOMAIN ScopeOf
         /\ ScopeOf[o.organType] = "GLOBAL" => OrganParts(o) = <<>>
         /\ ScopeOf[o.organType] = "REGIONAL" => OrganParts(o) = <<SubjectCodes[o.region]>>
         /\ ScopeOf[o.organType] = "LOCAL" => OrganParts(o) = <<SubjectCodes[o.region], o.number>>
<1>1. o.organType \in DOMAIN ScopeOf
  BY DEF IsNormal, PartyOrganTriple
<1>2. /\ ScopeOf[o.organType] = "GLOBAL" => OrganParts(o) = <<>> \o <<>>
      /\ ScopeOf[o.organType] = "REGIONAL" => OrganParts(o) = <<SubjectCodes[o.region]>> \o <<>>
      /\ ScopeOf[o.organType] = "LOCAL" => OrganParts(o) = <<SubjectCodes[o.region]>> \o <<o.number>>
  BY DEF OrganParts
<1>3. /\ <<>> \o <<>> = <<>>
      /\ \A a : <<a>> \o <<>> = <<a>>
      /\ \A a, b : <<a>> \o <<b>> = <<a, b>>
  BY Joined
<1>. QED
  BY <1>1, <1>2, <1>3

LEMMA Scopes ==
  ASSUME NEW t \in DOMAIN ScopeOf
  PROVE  /\ ScopeOf[t] \in {"LOCAL", "REGIONAL", "GLOBAL"}
         /\ t \in DOMAIN Postfix
         /\ \A u \in DOMAIN ScopeOf : ScopeOf[t] = ScopeOf[u] /\ Postfix[t] = Postfix[u] => t = u
BY DEF ScopeOf, Postfix

(* An organ is its scope's parts and its type.                                *)
LEMMA NormalByParts ==
  ASSUME NEW o, NEW p, IsNormal(o), IsNormal(p), o.organType = p.organType,
         OrganParts(o) = OrganParts(p)
  PROVE  o = p
<1>1. PICK r \in Ordinals : o = PartyOrganTriple(o.organType, r, o.number)
  BY DEF IsNormal, PartyOrganTriple
<1>2. PICK q \in Ordinals : p = PartyOrganTriple(p.organType, q, p.number)
  BY DEF IsNormal, PartyOrganTriple
<1>3. ScopeOf[o.organType] \in {"LOCAL", "REGIONAL", "GLOBAL"}
  BY Parts, Scopes
<1>4. CASE ScopeOf[o.organType] = "GLOBAL"
  BY <1>1, <1>2, <1>4 DEF PartyOrganTriple
<1>5. CASE ScopeOf[o.organType] # "GLOBAL"
  <2>1. o.region = r /\ p.region = q
    BY <1>1, <1>2, <1>5 DEF PartyOrganTriple
  <2>2. SubjectCodes[r] = SubjectCodes[q]
    BY <1>3, <1>5, <2>1, Parts
  <2>3. r = q
    BY <2>2, IntentsAssumption DEF IsInjective, Ordinals
  <2>4. CASE ScopeOf[o.organType] = "LOCAL"
    <3>1. o.number = p.number
      BY <2>4, Parts
    <3>. QED
      BY <1>1, <1>2, <2>3, <3>1
  <2>5. CASE ScopeOf[o.organType] # "LOCAL"
    BY <1>1, <1>2, <1>5, <2>3, <2>5 DEF PartyOrganTriple
  <2>. QED
    BY <2>4, <2>5
<1>. QED
  BY <1>4, <1>5

LEMMA Identifiers ==
  ASSUME NEW o, IsNormal(o)
  PROVE  /\ ScopeOf[o.organType] = "GLOBAL" => PartyOrganIdentifier(o) = <<Postfix[o.organType]>>
         /\ ScopeOf[o.organType] = "REGIONAL" =>
              PartyOrganIdentifier(o) = <<SubjectCodes[o.region], Postfix[o.organType]>>
         /\ ScopeOf[o.organType] = "LOCAL" =>
              PartyOrganIdentifier(o) = <<SubjectCodes[o.region], o.number, Postfix[o.organType]>>
<1>1. /\ Append(<<>>, Postfix[o.organType]) = <<Postfix[o.organType]>>
      /\ Append(<<SubjectCodes[o.region]>>, Postfix[o.organType]) = <<SubjectCodes[o.region], Postfix[o.organType]>>
      /\ Append(<<SubjectCodes[o.region], o.number>>, Postfix[o.organType])
           = <<SubjectCodes[o.region], o.number, Postfix[o.organType]>>
  BY PairOf, TripleOf
<1>2. PartyOrganIdentifier(o) = Append(OrganParts(o), Postfix[o.organType])
  BY DEF PartyOrganIdentifier
<1>3. ScopeOf[o.organType] = "GLOBAL" => PartyOrganIdentifier(o) = <<Postfix[o.organType]>>
  BY <1>1, <1>2, Parts
<1>4. ScopeOf[o.organType] = "REGIONAL" =>
        PartyOrganIdentifier(o) = <<SubjectCodes[o.region], Postfix[o.organType]>>
  BY <1>1, <1>2, Parts
<1>5. ScopeOf[o.organType] = "LOCAL" =>
        PartyOrganIdentifier(o) = <<SubjectCodes[o.region], o.number, Postfix[o.organType]>>
  BY <1>1, <1>2, Parts
<1>. QED
  BY <1>3, <1>4, <1>5

(* An identifier names one organ.                                             *)
LEMMA IdentifierNames ==
  ASSUME NEW o, NEW p, IsNormal(o), IsNormal(p), PartyOrganIdentifier(o) = PartyOrganIdentifier(p)
  PROVE  o = p
<1>. DEFINE t == o.organType
            u == p.organType
<1>1. t \in DOMAIN ScopeOf /\ u \in DOMAIN ScopeOf
  BY Parts
<1>2. PartyOrganIdentifier(o) = PartyOrganIdentifier(p)
  OBVIOUS
<1>3. /\ ScopeOf[t] = "GLOBAL" => PartyOrganIdentifier(o) = <<Postfix[t]>>
      /\ ScopeOf[t] = "REGIONAL" => PartyOrganIdentifier(o) = <<SubjectCodes[o.region], Postfix[t]>>
      /\ ScopeOf[t] = "LOCAL" => PartyOrganIdentifier(o) = <<SubjectCodes[o.region], o.number, Postfix[t]>>
      /\ ScopeOf[u] = "GLOBAL" => PartyOrganIdentifier(p) = <<Postfix[u]>>
      /\ ScopeOf[u] = "REGIONAL" => PartyOrganIdentifier(p) = <<SubjectCodes[p.region], Postfix[u]>>
      /\ ScopeOf[u] = "LOCAL" => PartyOrganIdentifier(p) = <<SubjectCodes[p.region], p.number, Postfix[u]>>
  BY Identifiers
<1>4. ScopeOf[t] = ScopeOf[u] /\ Postfix[t] = Postfix[u]
  BY <1>1, <1>2, <1>3, Scopes
<1>5. t = u
  BY <1>1, <1>4, Scopes
<1>6. OrganParts(o) = OrganParts(p)
  BY <1>1, <1>2, <1>3, <1>5, Parts, Scopes
<1>. QED
  BY <1>5, <1>6, NormalByParts

-----------------------------------------------------------------------------
(* Calls. *)

Setting == "CONFIGURE_ORGAN_THRESHOLDS"
SetterCall(intent, k) == Call(k, intent, [value |-> intent.args[k]])

LEMMA Configuration ==
  /\ Setting \in OperationTypes /\ NamesOrgan(Setting)
  /\ FIELD_PLAN[Setting].resolved = {} /\ ArgumentKeys(Setting) = Setters
BY DEF Setting, OperationTypes, FIELD_PLAN, Plan, OnOrgan, NamesOrgan, OrganKeys, ArgumentKeys, Setters

LEMMA SettersAreNoOperations == OperationTypes \cap Setters = {}
BY DEF OperationTypes, FIELD_PLAN, Setters

LEMMA CallIs ==
  ASSUME NEW fn, NEW intent, NEW args
  PROVE  /\ Call(fn, intent, args).fn = fn
         /\ Call(fn, intent, args).organ = OrganOf(intent)
         /\ Call(fn, intent, args).args = args
BY DEF Call

(* The three calls of a configuration, in their order.                        *)
LEMMA ThresholdCallsAre ==
  ASSUME NEW i
  PROVE  LET q == SetterCall(i, "quorum")
             a == SetterCall(i, "approvalPercentage")
             b == SetterCall(i, "approvalPercentageBase")
         IN ThresholdCalls(i) = IF i.args.approvalPercentageBase = 0 THEN <<b, q, a>> ELSE <<q, a, b>>
<1>. DEFINE q == SetterCall(i, "quorum")
            a == SetterCall(i, "approvalPercentage")
            b == SetterCall(i, "approvalPercentageBase")
<1>1. ThresholdCalls(i) = IF i.args.approvalPercentageBase = 0 THEN <<b>> \o <<q, a>> ELSE Append(<<q, a>>, b)
  BY DEF ThresholdCalls, SetterCall
<1>. HIDE DEF q, a, b
<1>2. Append(<<q, a>>, b) = <<q, a, b>>
  BY TripleOf
<1>3. <<b>> \o <<q, a>> = <<b, q, a>>
  BY OneBeforeTwo
<1>. QED
  BY <1>1, <1>2, <1>3 DEF q, a, b

(* A sequence is one over its own elements.                                   *)
LEMMA OwnRange ==
  ASSUME NEW S, NEW s \in Seq(S)
  PROVE  s \in Seq(Range(s))
<1>1. Len(s) \in Nat /\ s \in [1..Len(s) -> S] /\ DOMAIN s = 1..Len(s)
  BY LenProperties
<1>2. s \in [1..Len(s) -> Range(s)]
  BY <1>1 DEF Range
<1>. QED
  BY <1>1, <1>2, SeqDef

(* What a member sends: three setters, or one call that is no setter.         *)
LEMMA CallsOfAnIntent ==
  ASSUME NEW i, NEW type \in OperationTypes, i.type = type
  PROVE  /\ CallsForIntent(i) \in Seq(Range(CallsForIntent(i)))
         /\ type = Setting => CallsForIntent(i) = ThresholdCalls(i) /\ Len(CallsForIntent(i)) = 3
         /\ type # Setting => Len(CallsForIntent(i)) = 1 /\ CallsForIntent(i)[1].fn \notin Setters
<1>1. CASE type = Setting
  <2>1. CallsForIntent(i) = ThresholdCalls(i)
    BY <1>1 DEF CallsForIntent, Setting
  <2>2. PICK x, y, z : ThresholdCalls(i) = <<x, y, z>>
    BY ThresholdCallsAre
  <2>3. ThresholdCalls(i) \in Seq({x, y, z}) /\ Len(ThresholdCalls(i)) = 3
    BY <2>2
  <2>. QED
    BY <1>1, <2>1, <2>3, OwnRange
<1>2. CASE type # Setting
  <2>1. PICK args : CallsForIntent(i) = <<Call(type, i, args)>>
    BY <1>2 DEF CallsForIntent, Setting
  <2>2. CallsForIntent(i) \in Seq({Call(type, i, args)}) /\ Len(CallsForIntent(i)) = 1
        /\ CallsForIntent(i)[1] = Call(type, i, args)
    BY <2>1
  <2>3. CallsForIntent(i)[1].fn = type
    BY <2>2, CallIs
  <2>. QED
    BY <1>2, <2>2, <2>3, OwnRange, SettersAreNoOperations
<1>. QED
  BY <1>1, <1>2

-----------------------------------------------------------------------------
(* Imported forms. *)

LEMMA ImportedIntents ==
  ASSUME Built, NEW f \in Forms, Imported(f)
  PROVE  /\ forms[f].type \in OperationTypes
         /\ IntentOf(f) \in BuildIntent(forms[f].type, Input(forms[f].file, forms[f], forms[f].scale))
         /\ IsIntent(IntentOf(f), forms[f].type)
         /\ IntentOf(f).type = forms[f].type
<1>1. /\ forms[f].type \in OperationTypes /\ forms[f].intent # {}
      /\ forms[f].intent = BuildIntent(forms[f].type, Input(forms[f].file, forms[f], forms[f].scale))
  BY DEF Built, Imported
<1>2. IntentOf(f) \in forms[f].intent
  BY <1>1 DEF IntentOf
<1>. QED
  BY <1>1, <1>2, BuildsIntents DEF IsIntent

LEMMA InputReads ==
  ASSUME NEW file, NEW scale, NEW one, NEW other, one.type = other.type, one.values = other.values
  PROVE  Input(file, one, scale) = Input(file, other, scale)
BY DEF Input

-----------------------------------------------------------------------------
(* The settings of an organ. *)

(* A form's record, updated field by field.                                   *)
LEMMA FormIssued ==
  ASSUME NEW type, NEW values, NEW printed
  PROVE  [Unissued EXCEPT !.stage = "issued", !.type = type, !.values = values, !.printed = printed]
           = FormRecord("issued", type, values, printed, <<>>, 0, {})
<1>1. [Unissued EXCEPT !.stage = "issued", !.type = type, !.values = values, !.printed = printed]
        = [[[[Unissued EXCEPT !.stage = "issued"] EXCEPT !.type = type] EXCEPT !.values = values]
             EXCEPT !.printed = printed]
  OBVIOUS
<1>. DEFINE e == <<>>
            n == "none"
<1>2. Unissued = FormRecord("unissued", n, e, e, e, 0, {})
  BY DEF Unissued, FormRecord
<1>3. ASSUME NEW a, NEW b, NEW c, NEW d, NEW f, NEW g, NEW h, NEW x
      PROVE  [FormRecord(a, b, c, d, f, g, h) EXCEPT !.type = x] = FormRecord(a, x, c, d, f, g, h)
  BY DEF FormRecord
<1>4. ASSUME NEW a, NEW b, NEW c, NEW d, NEW f, NEW g, NEW h, NEW x
      PROVE  [FormRecord(a, b, c, d, f, g, h) EXCEPT !.values = x] = FormRecord(a, b, x, d, f, g, h)
  BY DEF FormRecord
<1>5. ASSUME NEW a, NEW b, NEW c, NEW d, NEW f, NEW g, NEW h, NEW x
      PROVE  [FormRecord(a, b, c, d, f, g, h) EXCEPT !.printed = x] = FormRecord(a, b, c, x, f, g, h)
  BY DEF FormRecord
<1>6. ASSUME NEW a, NEW b, NEW c, NEW d, NEW f, NEW g, NEW h, NEW x
      PROVE  [FormRecord(a, b, c, d, f, g, h) EXCEPT !.stage = x] = FormRecord(x, b, c, d, f, g, h)
  BY DEF FormRecord
<1>. HIDE DEF e, n
<1>7. [Unissued EXCEPT !.stage = "issued"] = FormRecord("issued", n, e, e, e, 0, {})
  BY <1>2, <1>6
<1>8. [[Unissued EXCEPT !.stage = "issued"] EXCEPT !.type = type] = FormRecord("issued", type, e, e, e, 0, {})
  <2>1. [FormRecord("issued", n, e, e, e, 0, {}) EXCEPT !.type = type] = FormRecord("issued", type, e, e, e, 0, {})
    BY <1>3
  <2>. QED
    BY <1>7, <2>1
<1>9. [[[Unissued EXCEPT !.stage = "issued"] EXCEPT !.type = type] EXCEPT !.values = values]
        = FormRecord("issued", type, values, e, e, 0, {})
  <2>1. [FormRecord("issued", type, e, e, e, 0, {}) EXCEPT !.values = values]
          = FormRecord("issued", type, values, e, e, 0, {})
    BY <1>4
  <2>. QED
    BY <1>8, <2>1
<1>10. [[[[Unissued EXCEPT !.stage = "issued"] EXCEPT !.type = type] EXCEPT !.values = values]
           EXCEPT !.printed = printed]
         = FormRecord("issued", type, values, printed, e, 0, {})
  <2>1. [FormRecord("issued", type, values, e, e, 0, {}) EXCEPT !.printed = printed]
          = FormRecord("issued", type, values, printed, e, 0, {})
    BY <1>5
  <2>. QED
    BY <1>9, <2>1
<1>. QED
  BY <1>1, <1>10 DEF e

LEMMA Records ==
  ASSUME NEW a, NEW b, NEW c, NEW d, NEW e, NEW f, NEW g
  PROVE  LET r == FormRecord(a, b, c, d, e, f, g)
         IN /\ IsFormRecord(r)
            /\ r.stage = a /\ r.type = b /\ r.values = c /\ r.printed = d /\ r.file = e
            /\ r.scale = f /\ r.intent = g
BY DEF FormRecord, IsFormRecord

(* A record, sent.                                                            *)
LEMMA FormSent ==
  ASSUME NEW r, IsFormRecord(r), NEW stage
  PROVE  [r EXCEPT !.stage = stage] = FormRecord(stage, r.type, r.values, r.printed, r.file, r.scale, r.intent)
<1>1. ASSUME NEW a, NEW b, NEW c, NEW d, NEW e, NEW s, NEW i
      PROVE  [FormRecord(a, b, c, d, e, s, i) EXCEPT !.stage = stage] = FormRecord(stage, b, c, d, e, s, i)
  BY DEF FormRecord
<1>. QED
  BY <1>1 DEF IsFormRecord

(* An operation's record is issued, imported or sent, or stays as it is.      *)
LEMMA RecordMoves ==
  ASSUME Shapes, Next
  PROVE  \/ forms' = forms
         \/ \E f \in Forms : \E new :
              /\ forms' = [forms EXCEPT ![f] = new]
              /\ \/ \E type, o, v : Issues(forms[f], new, type, o, v)
                 \/ \E file, scale, intents : Imports(forms[f], new, file, scale, intents)
                 \/ Sends(forms[f], new)
<1>. DEFINE Moves == \E f \in Forms : \E new :
              /\ forms' = [forms EXCEPT ![f] = new]
              /\ \/ \E type, o, v : Issues(forms[f], new, type, o, v)
                 \/ \E file, scale, intents : Imports(forms[f], new, file, scale, intents)
                 \/ Sends(forms[f], new)
<1>. SUFFICES ASSUME forms' # forms PROVE Moves
  OBVIOUS
<1>1. ASSUME NEW f \in Forms, NEW type \in OperationTypes, NEW o \in Organs \cup {NoOrgan}, NEW v \in VotingIds \cup {0},
             IssueOperationTemplate(f, type, o, v)
      PROVE  Moves
  <2>. DEFINE values == BoundValuesFor(o, v)
              printed == IF o = NoOrgan THEN <<>> ELSE PartyOrganIdentifier(o)
              new == [Unissued EXCEPT !.stage = "issued", !.type = type, !.values = values, !.printed = printed]
  <2>1. /\ forms' = [forms EXCEPT ![f] = new] /\ forms[f].stage = "unissued"
        /\ (o # NoOrgan) = NamesOrgan(type) /\ (v # 0) = NamesVoting(type)
    BY <1>1 DEF IssueOperationTemplate
  <2>2. new = FormRecord("issued", type, values, printed, <<>>, 0, {})
    BY FormIssued
  <2>3. Issues(forms[f], new, type, o, v)
    BY <2>1, <2>2 DEF Issues
  <2>. HIDE DEF new
  <2>. QED
    BY <2>1, <2>3
<1>2. ASSUME NEW f \in Forms, forms[f].stage = "issued", NEW file \in ReturnedFiles[forms[f].type],
             NEW scale \in ScalesFor(forms[f].type), ImportReturnedForm(f, file, scale)
      PROVE  Moves
  <2>. DEFINE intents == BuildIntent(forms[f].type, Input(file, forms[f], scale))
              new == [forms[f] EXCEPT !.stage = "imported", !.file = file, !.scale = scale, !.intent = intents]
  <2>1. forms' = [forms EXCEPT ![f] = new] /\ AssembleFormInput(file, forms[f]) = {} /\ intents # {}
    <3>. HIDE DEF Moves
    <3>. QED
      BY <1>2 DEF ImportReturnedForm, Refuse
  <2>2. new = FormRecord("imported", forms[f].type, forms[f].values, forms[f].printed, file, scale, intents)
    <3>1. IsFormRecord(forms[f])
      BY DEF Shapes
    <3>. HIDE DEF intents
    <3>2. PICK r, i : r = forms[f] /\ i = intents
      OBVIOUS
    <3>3. PICK a, b, c, d, e, s, t :
            /\ r = FormRecord(a, b, c, d, e, s, t)
            /\ a = r.stage /\ b = r.type /\ c = r.values /\ d = r.printed
      BY <3>1, <3>2 DEF IsFormRecord
    <3>4. new = [[[[r EXCEPT !.stage = "imported"] EXCEPT !.file = file] EXCEPT !.scale = scale] EXCEPT !.intent = i]
      BY <3>2
    <3>5. [r EXCEPT !.stage = "imported"] = FormRecord("imported", b, c, d, e, s, t)
      BY <3>3 DEF FormRecord
    <3>6. [FormRecord("imported", b, c, d, e, s, t) EXCEPT !.file = file]
            = FormRecord("imported", b, c, d, file, s, t)
      BY DEF FormRecord
    <3>7. [FormRecord("imported", b, c, d, file, s, t) EXCEPT !.scale = scale]
            = FormRecord("imported", b, c, d, file, scale, t)
      BY DEF FormRecord
    <3>8. [FormRecord("imported", b, c, d, file, scale, t) EXCEPT !.intent = i]
            = FormRecord("imported", b, c, d, file, scale, i)
      BY DEF FormRecord
    <3>. HIDE DEF new
    <3>9. new = FormRecord("imported", b, c, d, file, scale, i)
      BY <3>4, <3>5, <3>6, <3>7, <3>8
    <3>. QED
      BY <3>2, <3>3, <3>9
  <2>3. Imports(forms[f], new, file, scale, intents)
    BY <1>2, <2>1, <2>2 DEF Imports
  <2>. HIDE DEF new
  <2>. QED
    BY <2>1, <2>3
<1>3. ASSUME NEW f \in Forms, NEW scale, Submit(f, scale) PROVE Moves
  <2>1. PICK stage \in {"sent", "partlySent"} : forms' = [forms EXCEPT ![f].stage = stage]
    BY <1>3 DEF Submit
  <2>. DEFINE new == [forms[f] EXCEPT !.stage = stage]
  <2>2. new = FormRecord(stage, forms[f].type, forms[f].values, forms[f].printed, forms[f].file,
                         forms[f].scale, forms[f].intent)
    BY FormSent DEF Shapes
  <2>3. forms[f].stage \in {"imported", "sent", "partlySent"}
    BY <1>3 DEF Submit, Imported
  <2>4. Sends(forms[f], new)
    BY <2>2, <2>3 DEF Sends
  <2>5. forms' = [forms EXCEPT ![f] = new]
    BY <2>1
  <2>. HIDE DEF new
  <2>. QED
    BY <2>4, <2>5
<1>4. ~Mine /\ ~Reverts
  BY DEF Mine, Reverts
<1>. HIDE DEF Moves
<1>. QED
  BY <1>1, <1>2, <1>3, <1>4 DEF Next

(* An imported form's record and fields stay as they are.                     *)
LEMMA FormsKept ==
  ASSUME Shapes, Next
  PROVE  /\ \A f \in Forms : Imported(f) =>
               /\ Imported(f)' /\ (Sent(f) => Sent(f)')
               /\ forms'[f].type = forms[f].type /\ forms'[f].values = forms[f].values
               /\ forms'[f].file = forms[f].file /\ forms'[f].scale = forms[f].scale
               /\ forms'[f].intent = forms[f].intent
         /\ forms' = [f \in Forms |-> forms'[f]]
         /\ \A f \in Forms : IsFormRecord(forms'[f])
<1>. DEFINE Same(new, old) ==
              /\ new.type = old.type /\ new.values = old.values /\ new.file = old.file
              /\ new.scale = old.scale /\ new.intent = old.intent
<1>1. CASE forms' = forms
  BY <1>1 DEF Shapes, Imported, Sent
<1>2. ASSUME NEW f \in Forms, NEW new, forms' = [forms EXCEPT ![f] = new], IsFormRecord(new),
             ~Imported(f) \/ (new.stage \in {"sent", "partlySent"} /\ Same(new, forms[f]))
      PROVE  /\ \A g \in Forms : Imported(g) => Imported(g)' /\ (Sent(g) => Sent(g)') /\ Same(forms'[g], forms[g])
             /\ forms' = [g \in Forms |-> forms'[g]] /\ \A g \in Forms : IsFormRecord(forms'[g])
  BY <1>2 DEF Shapes, Imported, Sent
<1>3. ASSUME NEW f \in Forms, NEW new, \E type, o, v : Issues(forms[f], new, type, o, v)
      PROVE  IsFormRecord(new) /\ ~Imported(f)
  BY <1>3, Records DEF Issues, Imported
<1>4. ASSUME NEW f \in Forms, NEW new, \E file, scale, intents : Imports(forms[f], new, file, scale, intents)
      PROVE  IsFormRecord(new) /\ ~Imported(f)
  BY <1>4, Records DEF Imports, Imported
<1>5. ASSUME NEW f \in Forms, NEW new, Sends(forms[f], new)
      PROVE  IsFormRecord(new) /\ new.stage \in {"sent", "partlySent"} /\ Same(new, forms[f])
  BY <1>5, Records DEF Sends
<1>6. CASE forms' # forms
  <2>1. PICK f \in Forms : \E new :
          /\ forms' = [forms EXCEPT ![f] = new]
          /\ \/ \E type, o, v : Issues(forms[f], new, type, o, v)
             \/ \E file, scale, intents : Imports(forms[f], new, file, scale, intents)
             \/ Sends(forms[f], new)
    BY <1>6, RecordMoves
  <2>2. PICK new :
          /\ forms' = [forms EXCEPT ![f] = new]
          /\ \/ \E type, o, v : Issues(forms[f], new, type, o, v)
             \/ \E file, scale, intents : Imports(forms[f], new, file, scale, intents)
             \/ Sends(forms[f], new)
    BY <2>1
  <2>. HIDE DEF Same
  <2>3. IsFormRecord(new) /\ (~Imported(f) \/ (new.stage \in {"sent", "partlySent"} /\ Same(new, forms[f])))
    BY <1>3, <1>4, <1>5, <2>2
  <2>4. /\ \A g \in Forms : Imported(g) => Imported(g)' /\ (Sent(g) => Sent(g)') /\ Same(forms'[g], forms[g])
        /\ forms' = [g \in Forms |-> forms'[g]] /\ \A g \in Forms : IsFormRecord(forms'[g])
    BY <1>2, <2>2, <2>3
  <2>. QED
    BY <2>4 DEF Same
<1>. QED
  BY <1>1, <1>6

(* Which intent a form was imported with never changes.                       *)
LEMMA IntentsKept ==
  ASSUME NEW f \in Forms, forms'[f].intent = forms[f].intent
  PROVE  IntentOf(f)' = IntentOf(f)
BY DEF IntentOf

(* A step of an unimported form, or a refusal, leaves what was sent as it is. *)
LEMMA SettingsUntouched ==
  ASSUME Shapes, Built, Next, Whole, Underway, UNCHANGED <<queue, settings, overlaid>>
  PROVE  Whole' /\ Underway'
<1>1. \A f \in Forms : Sent(f) =>
        /\ Sent(f)' /\ (Configures(f) => Configures(f)')
        /\ IntentOf(f)' = IntentOf(f)
  BY FormsKept, IntentsKept DEF Sent, Imported, Configures
<1>2. queue' = queue /\ settings' = settings /\ overlaid' = overlaid
  OBVIOUS
<1>3. Whole'
  BY <1>1, <1>2 DEF Whole, WholeFrom
<1>4. ASSUME NEW i, NEW k
      PROVE  (Remaining(i, k) => Remaining(i, k)') /\ (Written(i, k) => Written(i, k)')
  BY <1>2 DEF Remaining, Written
<1>5. Underway'
  BY <1>1, <1>2, <1>4 DEF Underway
<1>. QED
  BY <1>3, <1>5

(* What is built when a form is imported stays what its fields build.         *)
LEMMA BuiltKept ==
  ASSUME Shapes, Built, Next
  PROVE  Built'
<1>1. ASSUME NEW f \in Forms, NEW r, forms' = [forms EXCEPT ![f] = r],
             r.type \in OperationTypes,
             r.stage # "issued" =>
               /\ r.intent # {}
               /\ r.intent = BuildIntent(r.type, Input(r.file, r, r.scale))
      PROVE  Built'
  <2>1. \A g \in Forms : forms'[g] = IF g = f THEN r ELSE forms[g]
    BY <1>1 DEF Shapes
  <2>. QED
    BY <1>1, <2>1 DEF Built, Imported
<1>2. CASE forms' = forms
  BY <1>2 DEF Built, Imported
<1>3. ASSUME NEW f \in Forms, NEW new, forms' = [forms EXCEPT ![f] = new],
             \E type, o, v : Issues(forms[f], new, type, o, v)
      PROVE  Built'
  <2>1. new.stage = "issued" /\ new.type \in OperationTypes
    BY <1>3, Records DEF Issues
  <2>. QED
    BY <1>1, <1>3, <2>1
<1>4. ASSUME NEW f \in Forms, NEW new, forms' = [forms EXCEPT ![f] = new],
             \E file, scale, intents : Imports(forms[f], new, file, scale, intents)
      PROVE  Built'
  <2>1. PICK file, scale, intents : Imports(forms[f], new, file, scale, intents)
    BY <1>4
  <2>2. /\ new.type = forms[f].type /\ new.values = forms[f].values /\ new.file = file
        /\ new.scale = scale /\ new.intent = intents
    BY <2>1, Records DEF Imports
  <2>3. new.type \in OperationTypes
    BY <2>1, <2>2 DEF Imports, Built
  <2>4. Input(file, new, scale) = Input(file, forms[f], scale)
    BY <2>2, InputReads
  <2>. QED
    BY <1>1, <1>4, <2>1, <2>2, <2>3, <2>4 DEF Imports
<1>5. ASSUME NEW f \in Forms, NEW new, forms' = [forms EXCEPT ![f] = new], Sends(forms[f], new)
      PROVE  Built'
  <2>1. /\ new.type = forms[f].type /\ new.values = forms[f].values /\ new.file = forms[f].file
        /\ new.scale = forms[f].scale /\ new.intent = forms[f].intent
    BY <1>5, Records DEF Sends
  <2>2. /\ forms[f].type \in OperationTypes /\ forms[f].intent # {}
        /\ forms[f].intent = BuildIntent(forms[f].type, Input(forms[f].file, forms[f], forms[f].scale))
    BY <1>5 DEF Sends, Built, Imported
  <2>3. Input(forms[f].file, new, forms[f].scale) = Input(forms[f].file, forms[f], forms[f].scale)
    BY <2>1, InputReads
  <2>. QED
    BY <1>1, <1>5, <2>1, <2>2, <2>3
<1>. QED
  BY <1>2, <1>3, <1>4, <1>5, RecordMoves

(* What is sent is what was imported, whatever the cell's scale is now, when   *)
(* the scale is not the form's to read.                                       *)
LEMMA SentIsImported ==
  ASSUME Built, NEW f \in Forms, Imported(f), NEW scale, Configures(f),
         NEW i \in BuildIntent(forms[f].type, Input(forms[f].file, forms[f], scale))
  PROVE  i = IntentOf(f)
<1>1. FIELD_PLAN[forms[f].type].resolved = {}
  BY Configuration DEF Configures, Setting
<1>2. Input(forms[f].file, forms[f], scale) = Input(forms[f].file, forms[f], forms[f].scale)
  BY <1>1, ScaleUnread
<1>. QED
  BY <1>2, ImportedIntents, BuildsOne

(* Sending: the settings of the organ a configuration is for are overlaid, or *)
(* have no base yet.                                                          *)
LEMMA SubmitSettles ==
  ASSUME Shapes, Built, Whole, NEW f \in Forms, NEW scale, Submit(f, scale), Next
  PROVE  Whole' /\ Underway' /\ queue' \in Seq(Range(queue'))
<1>1. Imported(f) /\ UNCHANGED settings /\ forms[f].type \in OperationTypes
  BY DEF Submit, Built, Imported
<1>2. PICK i \in BuildIntent(forms[f].type, Input(forms[f].file, forms[f], scale)) :
        LET calls == CallsForIntent(i)
        IN \E n \in 1..Len(calls) :
            /\ queue' = SubSeq(calls, 1, n)
            /\ forms' = [forms EXCEPT ![f].stage = IF n = Len(calls) THEN "sent" ELSE "partlySent"]
            /\ overlaid' = overlaid \cup
                 {o \in Organs : /\ i.type = "CONFIGURE_ORGAN_THRESHOLDS" /\ i.organ = o
                                 /\ i.args.approvalPercentageBase # 0
                                 /\ settings[o].approvalPercentageBase # 0}
  BY DEF Submit
<1>3. i.type = forms[f].type
  <2>1. IsIntent(i, forms[f].type)
    BY BuildsIntents
  <2>. QED
    BY <2>1 DEF IsIntent
<1>. DEFINE calls == CallsForIntent(i)
<1>4. PICK n \in 1..Len(calls) : queue' = SubSeq(calls, 1, n)
  BY <1>2
<1>5. Sent(f)'
  <2>1. PICK stage \in {"sent", "partlySent"} : forms' = [forms EXCEPT ![f].stage = stage]
    BY <1>2
  <2>2. IsFormRecord(forms[f]) /\ forms'[f] = [forms[f] EXCEPT !.stage = stage]
    BY <2>1 DEF Shapes
  <2>3. forms'[f].stage = stage
    BY <2>2 DEF IsFormRecord, FormRecord
  <2>. QED
    BY <2>3 DEF Sent
<1>6. \A g \in Forms : Sent(g) =>
        Sent(g)' /\ (Configures(g) => Configures(g)') /\ IntentOf(g)' = IntentOf(g)
  BY FormsKept, IntentsKept DEF Sent, Imported, Configures
<1>7. Whole'
  <2>1. overlaid \subseteq overlaid'
    BY <1>2
  <2>2. settings' = settings
    BY <1>1
  <2>. QED
    BY <1>6, <2>1, <2>2 DEF Whole, WholeFrom
<1>8. /\ calls \in Seq(Range(calls))
      /\ forms[f].type = Setting => calls = ThresholdCalls(i) /\ Len(calls) = 3
      /\ forms[f].type # Setting => Len(calls) = 1 /\ calls[1].fn \notin Setters
  BY <1>1, <1>3, CallsOfAnIntent
<1>. HIDE DEF calls
<1>9. queue' \in Seq(Range(calls)) /\ Len(queue') = n /\ \A m \in 1..n : queue'[m] = calls[m]
  <2>1. \A m \in 1..n : calls[m] \in Range(calls)
    BY <1>8, ElementOfSeq
  <2>. QED
    BY <1>4, <1>8, <2>1, SubSeqProperties
<1>10. queue' \in Seq(Range(queue'))
  BY <1>9, OwnRange
<1>11. CASE forms[f].type # Setting
  <2>1. n = 1 /\ queue'[1].fn \notin Setters
    BY <1>4, <1>8, <1>9, <1>11
  <2>2. \A m \in 1..Len(queue') : queue'[m].fn \notin Setters
    BY <1>9, <2>1
  <2>. QED
    BY <1>7, <1>10, <2>2 DEF Underway
<1>12. CASE forms[f].type = Setting
  <2>1. i = IntentOf(f) /\ IntentOf(f)' = i /\ Configures(f) /\ Configures(f)'
    BY <1>1, <1>12, FormsKept, IntentsKept, SentIsImported DEF Configures, Setting
  <2>2. Remaining(i, 0)'
    <3>1. n \in 1..3 /\ Len(queue') = n /\ 0 + Len(queue') <= 3
      <4>1. Len(calls) = 3
        BY <1>8, <1>12
      <4>2. n \in 1..3
        BY <1>4, <4>1
      <4>3. Len(queue') = n
        BY <1>9
      <4>. QED
        BY <4>2, <4>3
    <3>2. \A m \in 1..Len(queue') : queue'[m] = ThresholdCalls(i)[0 + m]
      BY <1>8, <1>9, <1>12, <3>1
    <3>. QED
      BY <3>1, <3>2 DEF Remaining
  <2>3. Written(i, 0)'
    BY <1>1, <1>2, <1>3, <1>12 DEF Written, Setting
  <2>4. Remaining(IntentOf(f), 0)' /\ Written(IntentOf(f), 0)'
    BY <2>1, <2>2, <2>3 DEF Remaining, Written
  <2>. QED
    <3>1. 0 \in 0..2
      OBVIOUS
    <3>. QED
      BY <1>5, <1>7, <1>10, <2>1, <2>4, <3>1 DEF Underway
<1>. QED
  BY <1>7, <1>10, <1>11, <1>12

(* One threshold stored: the record keeps its shape and its other fields.     *)
LEMMA StoresOne ==
  ASSUME NEW s, NEW fn \in Setters, NEW v, NEW t, t = [s EXCEPT ![fn] = v],
         s = [quorum |-> s.quorum, approvalPercentage |-> s.approvalPercentage,
              approvalPercentageBase |-> s.approvalPercentageBase]
  PROVE  /\ t = [quorum |-> t.quorum, approvalPercentage |-> t.approvalPercentage,
                 approvalPercentageBase |-> t.approvalPercentageBase]
         /\ \A k \in Setters : t[k] = IF k = fn THEN v ELSE s[k]
<1>1. DOMAIN s = Setters
  BY DEF Setters
<1>2. DOMAIN t = Setters /\ \A k \in Setters : t[k] = IF k = fn THEN v ELSE s[k]
  BY <1>1
<1>3. t = [k \in Setters |-> t[k]]
  BY <1>1
<1>4. t = [quorum |-> t.quorum, approvalPercentage |-> t.approvalPercentage,
           approvalPercentageBase |-> t.approvalPercentageBase]
  BY <1>3 DEF Setters
<1>. QED
  BY <1>2, <1>4

(* The call that follows k of a configuration's calls.                        *)
LEMMA SetterAt ==
  ASSUME NEW i, NEW k \in 0..2
  PROVE  LET call == ThresholdCalls(i)[k + 1]
         IN /\ call.organ = OrganOf(i) /\ call.fn \in Setters /\ call.args.value = i.args[call.fn]
            /\ i.args.approvalPercentageBase = 0 => (call.fn = "approvalPercentageBase" <=> k = 0)
            /\ i.args.approvalPercentageBase # 0 =>
                 call.fn = CASE k = 0 -> "quorum" [] k = 1 -> "approvalPercentage"
                             [] OTHER -> "approvalPercentageBase"
<1>. DEFINE q == SetterCall(i, "quorum")
            a == SetterCall(i, "approvalPercentage")
            b == SetterCall(i, "approvalPercentageBase")
            call == ThresholdCalls(i)[k + 1]
<1>1. ThresholdCalls(i) = IF i.args.approvalPercentageBase = 0 THEN <<b, q, a>> ELSE <<q, a, b>>
  BY ThresholdCallsAre
<1>2. ASSUME NEW fn \in Setters
      PROVE  LET c == SetterCall(i, fn) IN c.organ = OrganOf(i) /\ c.fn = fn /\ c.args.value = i.args[fn]
  BY CallIs DEF SetterCall
<1>3. /\ q.fn = "quorum" /\ a.fn = "approvalPercentage" /\ b.fn = "approvalPercentageBase"
      /\ \A c \in {q, a, b} : c.organ = OrganOf(i) /\ c.fn \in Setters /\ c.args.value = i.args[c.fn]
  BY <1>2 DEF Setters
<1>. HIDE DEF q, a, b
<1>4. /\ i.args.approvalPercentageBase = 0 => call = IF k = 0 THEN b ELSE IF k = 1 THEN q ELSE a
      /\ i.args.approvalPercentageBase # 0 => call = IF k = 0 THEN q ELSE IF k = 1 THEN a ELSE b
  BY <1>1
<1>. HIDE DEF call
<1>. QED
  BY <1>3, <1>4 DEF call

(* The organ a call of an intent sets is the intent's.                        *)
LEMMA OrganSet ==
  ASSUME NEW i, IsNormal(i.organ), NEW o \in Organs
  PROVE  PartyOrganIdentifier(o) = OrganOf(i) <=> o = i.organ
<1>1. IsNormal(o) /\ o # NoOrgan
  BY IntentsAssumption
<1>2. CASE i.organ = NoOrgan
  <2>1. OrganOf(i) = <<>> /\ o # i.organ
    BY <1>1, <1>2 DEF OrganOf
  <2>2. PartyOrganIdentifier(o) # <<>>
    <3>1. ScopeOf[o.organType] \in {"LOCAL", "REGIONAL", "GLOBAL"}
      BY <1>1, Parts, Scopes
    <3>2. \E a, b, c : PartyOrganIdentifier(o) \in {<<a>>, <<a, b>>, <<a, b, c>>}
      BY <1>1, <3>1, Identifiers
    <3>. QED
      BY <3>2
  <2>. QED
    BY <2>1, <2>2
<1>3. CASE i.organ # NoOrgan
  <2>1. OrganOf(i) = PartyOrganIdentifier(i.organ)
    BY <1>3 DEF OrganOf
  <2>. QED
    BY <1>1, <2>1, IdentifierNames
<1>. QED
  BY <1>2, <1>3

(* The first of the calls that are left is mined.                             *)
LEMMA Mined ==
  ASSUME Shapes, Mine
  PROVE  /\ Len(queue) \in Nat \ {0} /\ Head(queue) = queue[1]
         /\ queue' \in Seq(Range(queue')) /\ Len(queue') = Len(queue) - 1
         /\ \A n \in 1..Len(queue') : n + 1 \in 1..Len(queue) /\ queue'[n] = queue[n + 1]
<1>1. queue \in Seq(Range(queue)) /\ queue # <<>> /\ queue' = Tail(queue)
  BY DEF Shapes, Mine
<1>2. /\ Len(queue) \in Nat \ {0} /\ Head(queue) = queue[1]
      /\ Tail(queue) \in Seq(Range(queue)) /\ Len(Tail(queue)) = Len(queue) - 1
      /\ \A n \in 1..Len(Tail(queue)) : Tail(queue)[n] = queue[n + 1]
  BY <1>1, HeadTailProperties, EmptySeq, LenProperties
<1>3. \A n \in 1..Len(queue') : n + 1 \in 1..Len(queue)
  BY <1>1, <1>2
<1>4. queue' \in Seq(Range(queue'))
  BY <1>1, <1>2, OwnRange
<1>. QED
  BY <1>1, <1>2, <1>3, <1>4

(* What mining the next call of a configuration does to each organ's          *)
(* settings.                                                                  *)
LEMMA MinedSetter ==
  ASSUME Shapes, Mine, NEW i, IsIntent(i, Setting), NEW k \in 0..2, Remaining(i, k)
  PROVE  LET call == ThresholdCalls(i)[k + 1]
         IN /\ \A o \in Organs : o # i.organ => settings'[o] = settings[o]
            /\ i.organ \in Organs =>
                 \A t \in Setters :
                   settings'[i.organ][t] = IF t = call.fn THEN i.args[t] ELSE settings[i.organ][t]
            /\ \A o \in Organs :
                 o \in overlaid' <=> o \in overlaid /\ ~(call.fn = "approvalPercentageBase" /\ o = i.organ)
            /\ settings' = [o \in Organs |-> settings'[o]]
            /\ \A o \in Organs :
                 settings'[o] = [quorum |-> settings'[o].quorum,
                                 approvalPercentage |-> settings'[o].approvalPercentage,
                                 approvalPercentageBase |-> settings'[o].approvalPercentageBase]
<1>. DEFINE call == ThresholdCalls(i)[k + 1]
            on == {o \in Organs : PartyOrganIdentifier(o) = call.organ}
<1>1. Head(queue) = call
  <2>1. Head(queue) = queue[1] /\ 1 \in 1..Len(queue)
    BY Mined
  <2>. QED
    BY <2>1 DEF Remaining
<1>2. /\ call.organ = OrganOf(i) /\ call.fn \in Setters /\ call.args.value = i.args[call.fn]
  BY SetterAt
<1>3. IsNormal(i.organ)
  BY Configuration DEF IsIntent
<1>4. \A o \in Organs : o \in on <=> o = i.organ
  BY <1>2, <1>3, OrganSet
<1>5. /\ settings' = [o \in Organs |->
             IF o \in on THEN [settings[o] EXCEPT ![call.fn] = call.args.value] ELSE settings[o]]
      /\ overlaid' = IF call.fn = "approvalPercentageBase" THEN overlaid \ on ELSE overlaid
  BY <1>1, <1>2 DEF Mine, Setters
<1>. HIDE DEF call, on
<1>6. \A o \in Organs : settings'[o] = IF o = i.organ THEN [settings[o] EXCEPT ![call.fn] = i.args[call.fn]]
                                      ELSE settings[o]
  BY <1>2, <1>4, <1>5
<1>7. ASSUME NEW o \in Organs
      PROVE  /\ settings[o] = [quorum |-> settings[o].quorum,
                               approvalPercentage |-> settings[o].approvalPercentage,
                               approvalPercentageBase |-> settings[o].approvalPercentageBase]
  BY DEF Shapes, SettingsShape
<1>8. ASSUME NEW o \in Organs, o = i.organ
      PROVE  /\ \A t \in Setters : settings'[o][t] = IF t = call.fn THEN i.args[t] ELSE settings[o][t]
             /\ settings'[o] = [quorum |-> settings'[o].quorum,
                                approvalPercentage |-> settings'[o].approvalPercentage,
                                approvalPercentageBase |-> settings'[o].approvalPercentageBase]
  <2>1. /\ call.fn \in Setters
        /\ settings'[o] = [settings[o] EXCEPT ![call.fn] = i.args[call.fn]]
        /\ settings[o] = [quorum |-> settings[o].quorum,
                          approvalPercentage |-> settings[o].approvalPercentage,
                          approvalPercentageBase |-> settings[o].approvalPercentageBase]
    BY <1>2, <1>6, <1>7, <1>8
  <2>. QED
    BY <2>1, StoresOne, SMTT(30)
<1>9. \A o \in Organs :
        settings'[o] = [quorum |-> settings'[o].quorum,
                        approvalPercentage |-> settings'[o].approvalPercentage,
                        approvalPercentageBase |-> settings'[o].approvalPercentageBase]
  BY <1>6, <1>7, <1>8
<1>10. \A o \in Organs :
         o \in overlaid' <=> o \in overlaid /\ ~(call.fn = "approvalPercentageBase" /\ o = i.organ)
  BY <1>4, <1>5
<1>11. settings' = [o \in Organs |-> settings'[o]]
  BY <1>5
<1>. QED
  BY <1>6, <1>8, <1>9, <1>10, <1>11 DEF call

(* A configuration's call mined leaves the configuration whole, or under way. *)
LEMMA ConfigurationAdvances ==
  ASSUME Shapes, Whole, Mine, NEW f \in Forms, NEW k \in 0..2, Sent(f), Configures(f),
         IsIntent(IntentOf(f), Setting), Remaining(IntentOf(f), k), Written(IntentOf(f), k),
         \A g \in Forms : Sent(g)' = Sent(g) /\ Configures(g)' = Configures(g) /\ IntentOf(g)' = IntentOf(g)
  PROVE  Whole' /\ Underway' /\ SettingsShape'
<1>. DEFINE i == IntentOf(f)
            call == ThresholdCalls(i)[k + 1]
            base == "approvalPercentageBase"
<1>1. /\ \A o \in Organs : o # i.organ => settings'[o] = settings[o]
      /\ i.organ \in Organs =>
           \A t \in Setters :
             settings'[i.organ][t] = IF t = call.fn THEN i.args[t] ELSE settings[i.organ][t]
      /\ \A o \in Organs : o \in overlaid' <=> o \in overlaid /\ ~(call.fn = base /\ o = i.organ)
      /\ SettingsShape'
  BY MinedSetter DEF SettingsShape
<1>2. /\ call.fn \in Setters
      /\ i.args[base] = 0 => (call.fn = base <=> k = 0)
      /\ i.args[base] # 0 => call.fn = CASE k = 0 -> "quorum" [] k = 1 -> "approvalPercentage" [] OTHER -> base
  BY SetterAt
<1>3. /\ Len(queue) \in Nat \ {0} /\ Len(queue') = Len(queue) - 1 /\ k + Len(queue) <= 3
      /\ \A n \in 1..Len(queue') : queue'[n] = ThresholdCalls(i)[k + 1 + n]
  <2>1. \A n \in 1..Len(queue') : n + 1 \in 1..Len(queue) /\ queue'[n] = queue[n + 1]
    BY Mined
  <2>2. \A n \in 1..Len(queue') : queue[n + 1] = ThresholdCalls(i)[k + (n + 1)]
    BY <2>1 DEF Remaining
  <2>3. \A n \in 1..Len(queue') : k + (n + 1) = k + 1 + n
    OBVIOUS
  <2>. QED
    BY <2>1, <2>2, <2>3, Mined DEF Remaining
<1>4. /\ i.args[base] = 0 => i.args.quorum = 0 /\ i.args.approvalPercentage = 0
      /\ i.args[base] # 0 => i.args.approvalPercentage < i.args[base]
      /\ i.args = [t \in Setters |-> i.args[t]]
  BY Configuration DEF IsIntent, Sensible, Setting
<1>5. \A o \in Organs :
        i.organ = o =>
          IF i.args[base] = 0 THEN k >= 1 => settings[o].approvalPercentageBase = 0
          ELSE /\ o \in overlaid \/ settings[o].approvalPercentageBase = 0
               /\ k >= 1 => settings[o].quorum = i.args.quorum
               /\ k >= 2 => settings[o].approvalPercentage = i.args.approvalPercentage
  BY DEF Written
<1>6. \A o \in Organs : settings'[o] = [t \in Setters |-> settings'[o][t]]
  <2>1. ASSUME NEW o \in Organs PROVE settings'[o] = [t \in Setters |-> settings'[o][t]]
    <3>1. settings'[o] = [quorum |-> settings'[o].quorum,
                          approvalPercentage |-> settings'[o].approvalPercentage,
                          approvalPercentageBase |-> settings'[o].approvalPercentageBase]
      BY <1>1 DEF SettingsShape
    <3>. QED
      BY <3>1 DEF Setters
  <2>. QED
    BY <2>1
<1>. DEFINE WholeAt(o) ==
              \/ settings'[o][base] = 0
              \/ settings'[o].approvalPercentage < settings'[o][base] /\ settings'[o] = i.args
<1>7. ASSUME NEW o \in Organs \ overlaid', o = i.organ
      PROVE  WholeAt(o)
  <2>. USE DEF Setters
  <2>1. CASE i.args[base] = 0
    BY <1>1, <1>2, <1>5, <1>7, <2>1
  <2>2. CASE i.args[base] # 0 /\ k # 2
    BY <1>1, <1>2, <1>5, <1>7, <2>2
  <2>3. CASE i.args[base] # 0 /\ k = 2
    <3>1. \A t \in Setters : settings'[o][t] = i.args[t]
      BY <1>1, <1>2, <1>5, <1>7, <2>3
    <3>2. settings'[o] = i.args
      BY <1>4, <1>6, <3>1
    <3>. QED
      BY <1>4, <2>3, <3>2
  <2>. QED
    BY <2>1, <2>2, <2>3
<1>8. Whole'
  <2>1. ASSUME NEW o \in Organs \ overlaid'
        PROVE  \/ settings'[o].approvalPercentageBase = 0
               \/ /\ settings'[o].approvalPercentage < settings'[o].approvalPercentageBase
                  /\ \E g \in Forms : Sent(g) /\ Configures(g) /\ IntentOf(g).organ = o
                                      /\ IntentOf(g).args = settings'[o]
    <3>1. CASE o = i.organ
      BY <1>7, <2>1, <3>1
    <3>2. CASE o # i.organ
      BY <1>1, <2>1, <3>2 DEF Whole, WholeFrom
    <3>. QED
      BY <3>1, <3>2
  <2>. QED
    BY <2>1 DEF Whole, WholeFrom
<1>9. Underway'
  <2>1. CASE k = 2
    <3>1. Len(queue') = 0
      BY <1>3, <2>1
    <3>. QED
      BY <3>1 DEF Underway
  <2>2. CASE k # 2
    <3>1. k + 1 \in 0..2
      BY <2>2
    <3>2. Remaining(i, k + 1)'
      BY <1>3 DEF Remaining
    <3>3. ASSUME NEW o \in Organs, i.organ = o
          PROVE  IF i.args[base] = 0 THEN k + 1 >= 1 => settings'[o].approvalPercentageBase = 0
                 ELSE /\ o \in overlaid' \/ settings'[o].approvalPercentageBase = 0
                      /\ k + 1 >= 1 => settings'[o].quorum = i.args.quorum
                      /\ k + 1 >= 2 => settings'[o].approvalPercentage = i.args.approvalPercentage
      <4>. USE DEF Setters
      <4>1. CASE i.args[base] = 0
        BY <1>1, <1>2, <1>5, <3>3, <4>1
      <4>2. CASE i.args[base] # 0
        BY <1>1, <1>2, <1>5, <2>2, <3>3, <4>2
      <4>. QED
        BY <4>1, <4>2
    <3>4. Sent(f)' /\ Configures(f)' /\ IntentOf(f)' = i
      OBVIOUS
    <3>5. Remaining(IntentOf(f), k + 1)' /\ Written(IntentOf(f), k + 1)'
      BY <3>2, <3>3, <3>4 DEF Remaining, Written
    <3>. QED
      BY <3>1, <3>4, <3>5 DEF Underway
  <2>. QED
    BY <2>1, <2>2
<1>. QED
  BY <1>1, <1>8, <1>9

(* Setters that revert leave the settings as they are, and nothing to mine.   *)
LEMMA RevertSettles ==
  ASSUME Shapes, Whole, Reverts
  PROVE  Whole' /\ Underway' /\ SettingsShape' /\ queue' \in Seq(Range(queue'))
<1>1. queue' = <<>> /\ UNCHANGED <<forms, settings, overlaid>>
  BY DEF Reverts
<1>2. queue' \in Seq(Range(queue')) /\ Len(queue') = 0
  BY <1>1, OwnRange, EmptySeq
<1>3. \A g \in Forms : Sent(g)' = Sent(g) /\ Configures(g)' = Configures(g) /\ IntentOf(g)' = IntentOf(g)
  BY <1>1 DEF Sent, Configures, IntentOf
<1>4. Whole' /\ SettingsShape'
  BY <1>1, <1>3 DEF Whole, WholeFrom, Shapes, SettingsShape
<1>. QED
  BY <1>2, <1>4 DEF Underway

(* Mining keeps the settings whole.                                           *)
LEMMA MineSettles ==
  ASSUME Shapes, Built, Whole, Underway, Mine
  PROVE  Whole' /\ Underway' /\ SettingsShape' /\ queue' \in Seq(Range(queue'))
<1>1. queue' \in Seq(Range(queue'))
  BY Mined
<1>2. UNCHANGED forms
  BY DEF Mine
<1>3. \A g \in Forms : Sent(g)' = Sent(g) /\ Configures(g)' = Configures(g) /\ IntentOf(g)' = IntentOf(g)
  BY <1>2 DEF Sent, Configures, IntentOf
<1>4. CASE \A n \in 1..Len(queue) : queue[n].fn \notin Setters
  <2>1. Head(queue).fn \notin Setters
    BY <1>4, Mined
  <2>2. UNCHANGED <<settings, overlaid>>
    BY <2>1 DEF Mine, Setters
  <2>3. \A n \in 1..Len(queue') : queue'[n].fn \notin Setters
    BY <1>4, Mined
  <2>4. Whole' /\ SettingsShape'
    BY <1>3, <2>2 DEF Whole, WholeFrom, Shapes, SettingsShape
  <2>. QED
    BY <1>1, <2>3, <2>4 DEF Underway
<1>5. CASE \E f \in Forms, k \in 0..2 :
              Sent(f) /\ Configures(f) /\ Remaining(IntentOf(f), k) /\ Written(IntentOf(f), k)
  <2>1. PICK f \in Forms, k \in 0..2 :
          Sent(f) /\ Configures(f) /\ Remaining(IntentOf(f), k) /\ Written(IntentOf(f), k)
    BY <1>5
  <2>2. IsIntent(IntentOf(f), Setting)
    BY <2>1, ImportedIntents DEF Sent, Imported, Configures, Setting
  <2>. QED
    BY <1>1, <1>3, <2>1, <2>2, ConfigurationAdvances
<1>. QED
  BY <1>4, <1>5 DEF Underway

LEMMA SettingsStart == Init => SettingsInv
<1>. SUFFICES ASSUME Init PROVE SettingsInv
  OBVIOUS
<1>1. forms = [f \in Forms |-> Unissued] /\ \A f \in Forms : forms[f] = Unissued
  BY DEF Init
<1>2. IsFormRecord(Unissued) /\ Unissued.stage = "unissued"
  BY DEF IsFormRecord, FormRecord, Unissued
<1>3. queue = <<>> /\ queue \in Seq(Range(queue)) /\ Len(queue) = 0
  BY EmptySeq DEF Init
<1>4. /\ settings = [o \in Organs |-> settings[o]]
      /\ \A o \in Organs : settings[o] = [quorum |-> 0, approvalPercentage |-> 0, approvalPercentageBase |-> 0]
  BY DEF Init
<1>5. Shapes
  BY <1>1, <1>2, <1>3, <1>4 DEF Shapes, SettingsShape
<1>6. Built
  BY <1>1, <1>2 DEF Built, Imported
<1>7. Whole
  BY <1>4 DEF Whole
<1>8. Underway
  BY <1>3 DEF Underway
<1>. QED
  BY <1>5, <1>6, <1>7, <1>8 DEF SettingsInv

LEMMA SettingsStep == SettingsInv /\ [Next]_vars => SettingsInv'
<1>. SUFFICES ASSUME SettingsInv, [Next]_vars PROVE SettingsInv'
  OBVIOUS
<1>. USE DEF SettingsInv
<1>1. CASE UNCHANGED vars
  <2>1. forms' = forms /\ queue' = queue /\ settings' = settings /\ overlaid' = overlaid
    BY <1>1 DEF vars
  <2>2. Shapes'
    BY <2>1 DEF Shapes, SettingsShape
  <2>3. \A f \in Forms :
          /\ Imported(f)' = Imported(f) /\ Sent(f)' = Sent(f) /\ Configures(f)' = Configures(f)
          /\ IntentOf(f)' = IntentOf(f)
    BY <2>1 DEF Imported, Sent, Configures, IntentOf
  <2>4. Built'
    BY <2>1, <2>3 DEF Built
  <2>5. Whole'
    BY <2>1, <2>3 DEF Whole, WholeFrom
  <2>6. \A i, k : Remaining(i, k)' = Remaining(i, k) /\ Written(i, k)' = Written(i, k)
    BY <2>1 DEF Remaining, Written
  <2>7. Underway'
    BY <2>1, <2>3, <2>6 DEF Underway
  <2>. QED
    BY <2>2, <2>4, <2>5, <2>7
<1>2. CASE Next
  <2>1. Built' /\ forms' = [f \in Forms |-> forms'[f]] /\ \A f \in Forms : IsFormRecord(forms'[f])
    BY <1>2, BuiltKept, FormsKept
  <2>2. SUFFICES Whole' /\ Underway' /\ SettingsShape' /\ queue' \in Seq(Range(queue'))
    BY <2>1 DEF Shapes, SettingsShape
  <2>3. CASE UNCHANGED <<queue, settings, overlaid>>
    <3>1. Whole' /\ Underway'
      BY <1>2, <2>3, SettingsUntouched
    <3>. QED
      BY <2>3, <3>1 DEF Shapes, SettingsShape
  <2>4. CASE \E f \in Forms : Imported(f) /\ \E scale \in ScalesFor(forms[f].type) : Submit(f, scale)
    <3>0. PICK f \in Forms : \E scale : Submit(f, scale)
      BY <2>4
    <3>1. PICK scale : Submit(f, scale)
      BY <3>0
    <3>2. UNCHANGED settings
      BY <3>1 DEF Submit
    <3>3. SettingsShape'
      BY <3>2 DEF Shapes, SettingsShape
    <3>. QED
      BY <1>2, <3>1, <3>3, SubmitSettles
  <2>5. CASE Mine
    BY <2>5, MineSettles
  <2>6. CASE Reverts
    BY <2>6, RevertSettles
  <2>. QED
    <3>1. ASSUME NEW f, NEW type, NEW o, NEW v, IssueOperationTemplate(f, type, o, v)
          PROVE  UNCHANGED <<queue, settings, overlaid>>
      BY <3>1 DEF IssueOperationTemplate
    <3>2. ASSUME NEW f, NEW file, NEW scale, ImportReturnedForm(f, file, scale)
          PROVE  UNCHANGED <<queue, settings, overlaid>>
      BY <3>2 DEF ImportReturnedForm, Refuse
    <3>. QED
      BY <1>2, <2>3, <2>4, <2>5, <2>6, <3>1, <3>2 DEF Next
<1>. QED
  BY <1>1, <1>2

(* The settings' invariant holds in every state.                              *)
THEOREM SettingsInvHolds == Spec => []SettingsInv
BY SettingsStart, SettingsStep, PTL DEF Spec

(* A voting created between two calls of a configuration keeps whole settings, *)
(* whichever prefix of the calls is sent and however often                    *)
(* (intentCalls.ts:293-356).                                                  *)
THEOREM SnapshotsWhole == Spec => []SnapshotsAreWhole
<1>1. SettingsInv => SnapshotsAreWhole
  <2>. SUFFICES ASSUME SettingsInv, NEW o \in Organs \ overlaid,
                       settings[o].approvalPercentageBase # 0
                PROVE  /\ settings[o].approvalPercentage < settings[o].approvalPercentageBase
                       /\ \E f \in Forms : /\ forms[f].stage = "sent" \/ forms[f].stage = "partlySent"
                                           /\ forms[f].type = "CONFIGURE_ORGAN_THRESHOLDS"
                                           /\ IntentOf(f).organ = o /\ IntentOf(f).args = settings[o]
    BY DEF SnapshotsAreWhole, Snapshot
  <2>. QED
    BY DEF SettingsInv, Whole, WholeFrom, Sent, Configures
<1>. QED
  BY <1>1, SettingsInvHolds, PTL

-----------------------------------------------------------------------------
(* Identities. *)

Ignored == {"duration", "support"}
OrganKey(organ) == IF organ = NoOrgan THEN <<>> ELSE Append(OrganParts(organ), organ.organType)
IdentityValue(intent, k) == IF k \in Addresses THEN intent.args[k].address ELSE intent.args[k]
IdentityArgs(intent) == [k \in DOMAIN intent.args \ Ignored |-> IdentityValue(intent, k)]

AskedCall(call) == [call EXCEPT !.args = Restrict(@, DOMAIN @ \ Ignored)]
AskedCalls(intent) == [n \in DOMAIN CallsForIntent(intent) |-> AskedCall(CallsForIntent(intent)[n])]
ReadScale(intent) == Restrict(intent.args, DOMAIN intent.args \cap FIELD_PLAN[intent.type].resolved)

(* The argument of each name in the single call of an intent.                 *)
ArgumentOf(intent, k) ==
  CASE k = "value" /\ intent.type = "CREATE_CATEGORICAL_VALUE_VOTING" -> intent.args.category
    [] k = "support" -> SupportOf(intent.args.support)
    [] k \in Addresses -> intent.args[k].address
    [] OTHER -> intent.args[k]
NamesSent(intent) ==
  CASE intent.type = "CREATE_CATEGORICAL_VALUE_VOTING" -> (DOMAIN intent.args \ {"category"}) \cup {"value"}
    [] intent.type = "CREATE_NUMERICAL_VALUE_VOTING" -> DOMAIN intent.args \ {"decimals"}
    [] OTHER -> DOMAIN intent.args

LEMMA Identity ==
  ASSUME NEW i, NEW j
  PROVE  CanonicalIdentity(i) = CanonicalIdentity(j) <=>
           i.type = j.type /\ OrganKey(i.organ) = OrganKey(j.organ) /\ IdentityArgs(i) = IdentityArgs(j)
<1>1. \A x \in {i, j} :
        CanonicalIdentity(x) = [type |-> x.type, organ |-> OrganKey(x.organ), args |-> IdentityArgs(x)]
  BY DEF CanonicalIdentity, OrganKey, IdentityArgs, IdentityValue, Ignored
<1>2. /\ CanonicalIdentity(i) = [type |-> i.type, organ |-> OrganKey(i.organ), args |-> IdentityArgs(i)]
      /\ CanonicalIdentity(j) = [type |-> j.type, organ |-> OrganKey(j.organ), args |-> IdentityArgs(j)]
  BY <1>1
<1>. QED
  BY <1>2

LEMMA Proposal ==
  ASSUME NEW i, NEW j
  PROVE  SameProposal(i, j) <=> i.type = j.type /\ AskedCalls(i) = AskedCalls(j) /\ ReadScale(i) = ReadScale(j)
BY DEF SameProposal, AskedCalls, AskedCall, ReadScale, Ignored

(* What the member is shown tells identities apart.                           *)
LEMMA DescribedAlike ==
  ASSUME NEW i, NEW j, DescribeIntent(i) = DescribeIntent(j)
  PROVE  CanonicalIdentity(i) = CanonicalIdentity(j)
<1>1. \A x \in {i, j} :
        DescribeIntent(x) = [type |-> x.type, fields |-> x.args, organ |-> OrganKey(x.organ)]
  BY DEF DescribeIntent, OrganKey
<1>2. i.type = j.type /\ i.args = j.args /\ OrganKey(i.organ) = OrganKey(j.organ)
  BY <1>1
<1>3. IdentityArgs(i) = IdentityArgs(j)
  BY <1>2 DEF IdentityArgs, IdentityValue
<1>. QED
  BY <1>2, <1>3, Identity

LEMMA OrganKeysAre ==
  ASSUME NEW o, IsNormal(o), o # NoOrgan
  PROVE  /\ ScopeOf[o.organType] = "GLOBAL" => OrganKey(o) = <<o.organType>>
         /\ ScopeOf[o.organType] = "REGIONAL" => OrganKey(o) = <<SubjectCodes[o.region], o.organType>>
         /\ ScopeOf[o.organType] = "LOCAL" =>
              OrganKey(o) = <<SubjectCodes[o.region], o.number, o.organType>>
<1>1. /\ Append(<<>>, o.organType) = <<o.organType>>
      /\ Append(<<SubjectCodes[o.region]>>, o.organType) = <<SubjectCodes[o.region], o.organType>>
      /\ Append(<<SubjectCodes[o.region], o.number>>, o.organType)
           = <<SubjectCodes[o.region], o.number, o.organType>>
  BY PairOf, TripleOf
<1>2. OrganKey(o) = Append(OrganParts(o), o.organType)
  BY DEF OrganKey
<1>3. ScopeOf[o.organType] = "GLOBAL" => OrganKey(o) = <<o.organType>>
  BY <1>1, <1>2, Parts
<1>4. ScopeOf[o.organType] = "REGIONAL" => OrganKey(o) = <<SubjectCodes[o.region], o.organType>>
  BY <1>1, <1>2, Parts
<1>5. ScopeOf[o.organType] = "LOCAL" =>
        OrganKey(o) = <<SubjectCodes[o.region], o.number, o.organType>>
  BY <1>1, <1>2, Parts
<1>. QED
  BY <1>3, <1>4, <1>5

(* The organ of an identity and the organ of a call tell the same organs apart. *)
LEMMA OrgansTold ==
  ASSUME NEW i, NEW j, IsNormal(i.organ) \/ i.organ = NoOrgan, IsNormal(j.organ) \/ j.organ = NoOrgan
  PROVE  /\ OrganKey(i.organ) = OrganKey(j.organ) <=> i.organ = j.organ
         /\ OrganOf(i) = OrganOf(j) <=> i.organ = j.organ
<1>1. ASSUME NEW o, IsNormal(o), o # NoOrgan
      PROVE  /\ OrganKey(o) # <<>> /\ PartyOrganIdentifier(o) # <<>>
             /\ ScopeOf[o.organType] \in {"LOCAL", "REGIONAL", "GLOBAL"}
  <2>1. ScopeOf[o.organType] \in {"LOCAL", "REGIONAL", "GLOBAL"}
    BY <1>1, Parts, Scopes
  <2>2. /\ \E a, b, c : OrganKey(o) \in {<<a>>, <<a, b>>, <<a, b, c>>}
        /\ \E a, b, c : PartyOrganIdentifier(o) \in {<<a>>, <<a, b>>, <<a, b, c>>}
    BY <1>1, <2>1, OrganKeysAre, Identifiers
  <2>. QED
    BY <2>1, <2>2
<1>2. ASSUME NEW o, NEW p, IsNormal(o), IsNormal(p), o # NoOrgan, p # NoOrgan, OrganKey(o) = OrganKey(p)
      PROVE  o = p
  <2>. DEFINE t == o.organType
              u == p.organType
  <2>1. ScopeOf[t] \in {"LOCAL", "REGIONAL", "GLOBAL"} /\ ScopeOf[u] \in {"LOCAL", "REGIONAL", "GLOBAL"}
    BY <1>1, <1>2
  <2>2. /\ ScopeOf[t] = "GLOBAL" => OrganKey(o) = <<t>>
        /\ ScopeOf[t] = "REGIONAL" => OrganKey(o) = <<SubjectCodes[o.region], t>>
        /\ ScopeOf[t] = "LOCAL" => OrganKey(o) = <<SubjectCodes[o.region], o.number, t>>
        /\ ScopeOf[u] = "GLOBAL" => OrganKey(p) = <<u>>
        /\ ScopeOf[u] = "REGIONAL" => OrganKey(p) = <<SubjectCodes[p.region], u>>
        /\ ScopeOf[u] = "LOCAL" => OrganKey(p) = <<SubjectCodes[p.region], p.number, u>>
    BY <1>2, OrganKeysAre
  <2>3. OrganKey(o) = OrganKey(p)
    BY <1>2
  <2>4. t = u
    BY <2>1, <2>2, <2>3
  <2>5. OrganParts(o) = OrganParts(p)
    BY <1>2, <2>1, <2>2, <2>3, <2>4, Parts
  <2>. QED
    BY <1>2, <2>4, <2>5, NormalByParts
<1>3. OrganKey(NoOrgan) = <<>>
  BY DEF OrganKey
<1>4. OrganKey(i.organ) = OrganKey(j.organ) <=> i.organ = j.organ
  BY <1>1, <1>2, <1>3
<1>5. OrganOf(i) = OrganOf(j) <=> i.organ = j.organ
  BY <1>1, IdentifierNames DEF OrganOf
<1>. QED
  BY <1>4, <1>5

LEMMA AskedIs ==
  ASSUME NEW fn, NEW intent, NEW args
  PROVE  AskedCall(Call(fn, intent, args))
           = [fn |-> fn, organ |-> OrganOf(intent), args |-> Restrict(args, DOMAIN args \ Ignored)]
BY DEF AskedCall, Call

(* What an intent of one call asks for.                                       *)
LEMMA AskedOnce ==
  ASSUME NEW i, i.type # Setting
  PROVE  LET args == [k \in NamesSent(i) \ Ignored |-> ArgumentOf(i, k)]
         IN AskedCalls(i) = [n \in {1} |-> [fn |-> i.type, organ |-> OrganOf(i), args |-> args]]
<1>. DEFINE sent == [k \in NamesSent(i) |-> ArgumentOf(i, k)]
            call == Call(i.type, i, sent)
            args == [k \in NamesSent(i) \ Ignored |-> ArgumentOf(i, k)]
<1>1. CallsForIntent(i) = <<call>>
  BY DEF CallsForIntent, Setting, NamesSent, ArgumentOf
<1>2. Restrict(sent, DOMAIN sent \ Ignored) = args
  BY DEF Restrict
<1>3. AskedCall(call) = [fn |-> i.type, organ |-> OrganOf(i), args |-> args]
  BY <1>2, AskedIs
<1>. HIDE DEF call, args
<1>4. DOMAIN <<call>> = {1} /\ <<call>>[1] = call
  OBVIOUS
<1>5. AskedCalls(i) = [n \in {1} |-> AskedCall(call)]
  BY <1>1, <1>4 DEF AskedCalls
<1>. QED
  BY <1>3, <1>5 DEF args

(* Two intents of one call ask for the same when their arguments agree.       *)
LEMMA AskedAlike ==
  ASSUME NEW i, NEW j, i.type = j.type, i.type # Setting, NamesSent(i) = NamesSent(j)
  PROVE  AskedCalls(i) = AskedCalls(j) <=>
           OrganOf(i) = OrganOf(j) /\ \A k \in NamesSent(i) \ Ignored : ArgumentOf(i, k) = ArgumentOf(j, k)
<1>. DEFINE names == NamesSent(i) \ Ignored
            a == [k \in names |-> ArgumentOf(i, k)]
            b == [k \in names |-> ArgumentOf(j, k)]
            p == [fn |-> i.type, organ |-> OrganOf(i), args |-> a]
            q == [fn |-> j.type, organ |-> OrganOf(j), args |-> b]
<1>1. AskedCalls(i) = [n \in {1} |-> p] /\ AskedCalls(j) = [n \in {1} |-> q]
  <2>1. AskedCalls(i) = [n \in {1} |-> p]
    BY AskedOnce
  <2>. DEFINE c == [k \in NamesSent(j) \ Ignored |-> ArgumentOf(j, k)]
  <2>2. AskedCalls(j) = [n \in {1} |-> [fn |-> j.type, organ |-> OrganOf(j), args |-> c]]
    BY AskedOnce
  <2>3. c = b
    OBVIOUS
  <2>. QED
    BY <2>1, <2>2, <2>3
<1>2. p = q <=> OrganOf(i) = OrganOf(j) /\ a = b
  <2>. HIDE DEF a, b
  <2>. QED
    OBVIOUS
<1>3. a = b <=> \A k \in names : ArgumentOf(i, k) = ArgumentOf(j, k)
  <2>1. ASSUME a = b, NEW k \in names PROVE ArgumentOf(i, k) = ArgumentOf(j, k)
    <3>1. a[k] = ArgumentOf(i, k) /\ b[k] = ArgumentOf(j, k)
      OBVIOUS
    <3>. QED
      BY <2>1, <3>1
  <2>. QED
    BY <2>1
<1>. HIDE DEF p, q, a, b
<1>4. [n \in {1} |-> p] = [n \in {1} |-> q] <=> p = q
  <2>1. [n \in {1} |-> p][1] = p /\ [n \in {1} |-> q][1] = q
    OBVIOUS
  <2>. QED
    BY <2>1
<1>. QED
  BY <1>1, <1>2, <1>3, <1>4

LEMMA IdentityArgsAlike ==
  ASSUME NEW i, NEW j, DOMAIN i.args = DOMAIN j.args
  PROVE  IdentityArgs(i) = IdentityArgs(j) <=>
           \A k \in DOMAIN i.args \ Ignored : IdentityValue(i, k) = IdentityValue(j, k)
<1>. DEFINE names == DOMAIN i.args \ Ignored
<1>1. /\ IdentityArgs(i) = [k \in names |-> IdentityValue(i, k)]
      /\ IdentityArgs(j) = [k \in names |-> IdentityValue(j, k)]
  BY DEF IdentityArgs
<1>. HIDE DEF names
<1>2. \A k \in names : IdentityArgs(i)[k] = IdentityValue(i, k) /\ IdentityArgs(j)[k] = IdentityValue(j, k)
  BY <1>1
<1>3. IdentityArgs(i) = IdentityArgs(j) <=> \A k \in names : IdentityValue(i, k) = IdentityValue(j, k)
  <2>1. ASSUME \A k \in names : IdentityValue(i, k) = IdentityValue(j, k)
        PROVE  IdentityArgs(i) = IdentityArgs(j)
    BY <1>1, <2>1
  <2>. QED
    BY <1>2, <2>1
<1>. QED
  BY <1>3 DEF names

LEMMA ScaleAlike ==
  ASSUME NEW i, NEW j, i.type = j.type, DOMAIN i.args = DOMAIN j.args
  PROVE  ReadScale(i) = ReadScale(j) <=>
           \A k \in DOMAIN i.args \cap FIELD_PLAN[i.type].resolved : i.args[k] = j.args[k]
<1>. DEFINE names == DOMAIN i.args \cap FIELD_PLAN[i.type].resolved
<1>1. /\ ReadScale(i) = [k \in names |-> i.args[k]]
      /\ ReadScale(j) = [k \in names |-> j.args[k]]
  BY DEF ReadScale, Restrict
<1>. HIDE DEF names
<1>2. \A k \in names : ReadScale(i)[k] = i.args[k] /\ ReadScale(j)[k] = j.args[k]
  BY <1>1
<1>3. ReadScale(i) = ReadScale(j) <=> \A k \in names : i.args[k] = j.args[k]
  BY <1>1, <1>2
<1>. QED
  BY <1>3 DEF names

(* The keys of each operation's arguments.                                    *)
LEMMA ArgumentsOf ==
  /\ ArgumentKeys("CREATE_CATEGORICAL_VALUE_VOTING") = {"duration", "x", "y", "category", "valueAuthor"}
  /\ ArgumentKeys("CREATE_NUMERICAL_VALUE_VOTING") = {"x", "y", "value", "valueAuthor", "duration", "decimals"}
  /\ FIELD_PLAN["CREATE_NUMERICAL_VALUE_VOTING"].resolved = {"decimals"}
  /\ \A type \in OperationTypes \ {"CREATE_NUMERICAL_VALUE_VOTING"} : FIELD_PLAN[type].resolved = {}
<1>. USE DEF FIELD_PLAN, Plan, OnOrgan, OrganKeys
<1>1. ArgumentKeys("CREATE_CATEGORICAL_VALUE_VOTING") = {"duration", "x", "y", "category", "valueAuthor"}
  BY DEF ArgumentKeys
<1>2. ArgumentKeys("CREATE_NUMERICAL_VALUE_VOTING") = {"x", "y", "value", "valueAuthor", "duration", "decimals"}
  BY DEF ArgumentKeys
<1>3. FIELD_PLAN["CREATE_NUMERICAL_VALUE_VOTING"].resolved = {"decimals"}
  OBVIOUS
<1>4. \A type \in OperationTypes \ {"CREATE_NUMERICAL_VALUE_VOTING"} : FIELD_PLAN[type].resolved = {}
  BY DEF OperationTypes
<1>. QED
  BY <1>1, <1>2, <1>3, <1>4

LEMMA IntentDomain ==
  ASSUME NEW i, NEW type, IsIntent(i, type)
  PROVE  /\ i.type = type /\ DOMAIN i.args = ArgumentKeys(type)
         /\ IsNormal(i.organ) \/ i.organ = NoOrgan
BY DEF IsIntent

(* What a voting on a value asks for, or anything else but thresholds, is     *)
(* what its identity says.                                                    *)
LEMMA OneCallAlike ==
  ASSUME NEW i, NEW j, NEW type \in OperationTypes, type # Setting, IsIntent(i, type), IsIntent(j, type)
  PROVE  SameProposal(i, j) <=> CanonicalIdentity(i) = CanonicalIdentity(j)
<1>. DEFINE keys == ArgumentKeys(type)
<1>1. /\ i.type = type /\ j.type = type /\ DOMAIN i.args = keys /\ DOMAIN j.args = keys
      /\ NamesSent(i) = NamesSent(j)
  BY IntentDomain DEF NamesSent
<1>2. OrganKey(i.organ) = OrganKey(j.organ) <=> OrganOf(i) = OrganOf(j)
  BY IntentDomain, OrgansTold
<1>3. CanonicalIdentity(i) = CanonicalIdentity(j) <=>
        OrganOf(i) = OrganOf(j) /\ \A k \in keys \ Ignored : IdentityValue(i, k) = IdentityValue(j, k)
  BY <1>1, <1>2, Identity, IdentityArgsAlike
<1>4. SameProposal(i, j) <=>
        /\ OrganOf(i) = OrganOf(j)
        /\ \A k \in NamesSent(i) \ Ignored : ArgumentOf(i, k) = ArgumentOf(j, k)
        /\ \A k \in keys \cap FIELD_PLAN[type].resolved : i.args[k] = j.args[k]
  BY <1>1, Proposal, AskedAlike, ScaleAlike
<1>. HIDE DEF keys
<1>5. ASSUME NEW x \in {i, j}
      PROVE  /\ \A k \in NamesSent(x) \ Ignored :
                  k # "value" \/ type # "CREATE_CATEGORICAL_VALUE_VOTING" => ArgumentOf(x, k) = IdentityValue(x, k)
             /\ type = "CREATE_CATEGORICAL_VALUE_VOTING" => ArgumentOf(x, "value") = IdentityValue(x, "category")
             /\ IdentityValue(x, "decimals") = x.args["decimals"]
  <2>1. x.type = type
    BY <1>1
  <2>2. "value" \notin Addresses /\ "category" \notin Addresses /\ "decimals" \notin Addresses
    BY Keys
  <2>. QED
    BY <2>1, <2>2 DEF ArgumentOf, IdentityValue, Ignored
<1>6. CASE type = "CREATE_CATEGORICAL_VALUE_VOTING"
  <2>1. /\ keys \ Ignored = {"x", "y", "category", "valueAuthor"}
        /\ NamesSent(i) \ Ignored = {"x", "y", "value", "valueAuthor"}
    BY <1>1, <1>6, ArgumentsOf DEF keys, Ignored, NamesSent
  <2>2. FIELD_PLAN[type].resolved = {}
    BY <1>6, ArgumentsOf
  <2>3. (\A k \in NamesSent(i) \ Ignored : ArgumentOf(i, k) = ArgumentOf(j, k)) <=>
          \A k \in keys \ Ignored : IdentityValue(i, k) = IdentityValue(j, k)
    <3>1. \A k \in {"x", "y", "valueAuthor"} :
            ArgumentOf(i, k) = IdentityValue(i, k) /\ ArgumentOf(j, k) = IdentityValue(j, k)
      BY <1>1, <1>5, <2>1
    <3>. QED
      BY <1>5, <1>6, <2>1, <3>1
  <2>. QED
    BY <1>3, <1>4, <2>2, <2>3
<1>7. CASE type = "CREATE_NUMERICAL_VALUE_VOTING"
  <2>1. /\ keys \ Ignored = {"x", "y", "value", "valueAuthor", "decimals"}
        /\ NamesSent(i) \ Ignored = {"x", "y", "value", "valueAuthor"}
    BY <1>1, <1>7, ArgumentsOf DEF keys, Ignored, NamesSent
  <2>2. keys \cap FIELD_PLAN[type].resolved = {"decimals"}
    BY <1>7, ArgumentsOf DEF keys
  <2>3. \A k \in NamesSent(i) \ Ignored :
          ArgumentOf(i, k) = IdentityValue(i, k) /\ ArgumentOf(j, k) = IdentityValue(j, k)
    BY <1>1, <1>5, <1>7
  <2>4. IdentityValue(i, "decimals") = i.args["decimals"] /\ IdentityValue(j, "decimals") = j.args["decimals"]
    BY <1>5
  <2>. QED
    BY <1>3, <1>4, <2>1, <2>2, <2>3, <2>4
<1>8. CASE type \notin {"CREATE_CATEGORICAL_VALUE_VOTING", "CREATE_NUMERICAL_VALUE_VOTING"}
  <2>1. NamesSent(i) = keys
    BY <1>1, <1>8 DEF NamesSent
  <2>2. FIELD_PLAN[type].resolved = {}
    BY <1>8, ArgumentsOf
  <2>3. \A k \in NamesSent(i) \ Ignored :
          ArgumentOf(i, k) = IdentityValue(i, k) /\ ArgumentOf(j, k) = IdentityValue(j, k)
    BY <1>1, <1>5, <1>8
  <2>. QED
    BY <1>3, <1>4, <2>1, <2>2, <2>3
<1>. QED
  BY <1>6, <1>7, <1>8

(* A setter's arguments hold nothing an identity ignores.                     *)
LEMMA AskedSetter ==
  ASSUME NEW i, NEW k
  PROVE  AskedCall(SetterCall(i, k)) = [fn |-> k, organ |-> OrganOf(i), args |-> [x \in {"value"} |-> i.args[k]]]
<1>. DEFINE args == [value |-> i.args[k]]
<1>1. Restrict(args, DOMAIN args \ Ignored) = [x \in {"value"} |-> i.args[k]]
  BY DEF Restrict, Ignored
<1>. QED
  BY <1>1, AskedIs DEF SetterCall

(* A configuration asks for what its identity says.                           *)
LEMMA ThreeCallsAlike ==
  ASSUME NEW i, NEW j, IsIntent(i, Setting), IsIntent(j, Setting)
  PROVE  SameProposal(i, j) <=> CanonicalIdentity(i) = CanonicalIdentity(j)
<1>. DEFINE base == "approvalPercentageBase"
<1>1. /\ i.type = Setting /\ j.type = Setting /\ DOMAIN i.args = Setters /\ DOMAIN j.args = Setters
  BY IntentDomain, Configuration
<1>2. OrganKey(i.organ) = OrganKey(j.organ) <=> OrganOf(i) = OrganOf(j)
  BY IntentDomain, OrgansTold
<1>3. \A k \in Setters : k \notin Ignored /\ IdentityValue(i, k) = i.args[k] /\ IdentityValue(j, k) = j.args[k]
  BY Keys DEF Setters, Ignored, IdentityValue
<1>4. CanonicalIdentity(i) = CanonicalIdentity(j) <=>
        OrganOf(i) = OrganOf(j) /\ \A k \in Setters : i.args[k] = j.args[k]
  <2>1. Setters \ Ignored = Setters
    BY <1>3
  <2>. QED
    BY <1>1, <1>2, <1>3, <2>1, Identity, IdentityArgsAlike
<1>5. SameProposal(i, j) <=> AskedCalls(i) = AskedCalls(j)
  <2>1. FIELD_PLAN[Setting].resolved = {}
    BY Configuration
  <2>2. ReadScale(i) = ReadScale(j)
    BY <1>1, <2>1, ScaleAlike
  <2>. QED
    BY <1>1, <2>2, Proposal
<1>6. ASSUME NEW x \in {i, j}
      PROVE  LET q == AskedCall(SetterCall(x, "quorum"))
                 a == AskedCall(SetterCall(x, "approvalPercentage"))
                 b == AskedCall(SetterCall(x, base))
             IN AskedCalls(x) = [n \in 1..3 |-> IF x.args[base] = 0
                                                THEN IF n = 1 THEN b ELSE IF n = 2 THEN q ELSE a
                                                ELSE IF n = 1 THEN q ELSE IF n = 2 THEN a ELSE b]
  <2>. DEFINE q == SetterCall(x, "quorum")
              a == SetterCall(x, "approvalPercentage")
              b == SetterCall(x, base)
  <2>1. CallsForIntent(x) = ThresholdCalls(x)
    BY <1>1 DEF CallsForIntent, Setting
  <2>2. ThresholdCalls(x) = IF x.args[base] = 0 THEN <<b, q, a>> ELSE <<q, a, b>>
    BY ThresholdCallsAre
  <2>. HIDE DEF q, a, b
  <2>3. DOMAIN CallsForIntent(x) = 1..3
    BY <2>1, <2>2
  <2>4. \A n \in 1..3 : CallsForIntent(x)[n] = IF x.args[base] = 0
                                               THEN IF n = 1 THEN b ELSE IF n = 2 THEN q ELSE a
                                               ELSE IF n = 1 THEN q ELSE IF n = 2 THEN a ELSE b
    BY <2>1, <2>2
  <2>. QED
    BY <2>3, <2>4 DEF AskedCalls, q, a, b
<1>. DEFINE Ask(x, k) == AskedCall(SetterCall(x, k))
<1>7. ASSUME NEW x \in {i, j}, NEW k
      PROVE  Ask(x, k).fn = k /\ Ask(x, k).organ = OrganOf(x) /\ Ask(x, k).args["value"] = x.args[k]
  BY AskedSetter
<1>8. ASSUME NEW k, OrganOf(i) = OrganOf(j), i.args[k] = j.args[k]
      PROVE  Ask(i, k) = Ask(j, k)
  <2>1. /\ Ask(i, k) = [fn |-> k, organ |-> OrganOf(i), args |-> [x \in {"value"} |-> i.args[k]]]
        /\ Ask(j, k) = [fn |-> k, organ |-> OrganOf(j), args |-> [x \in {"value"} |-> j.args[k]]]
    BY AskedSetter
  <2>2. [x \in {"value"} |-> i.args[k]] = [x \in {"value"} |-> j.args[k]]
    BY <1>8
  <2>. HIDE DEF Ask
  <2>. QED
    BY <1>8, <2>1, <2>2
<1>. DEFINE At(x, n) == IF x.args[base] = 0
                        THEN IF n = 1 THEN Ask(x, base) ELSE IF n = 2 THEN Ask(x, "quorum")
                             ELSE Ask(x, "approvalPercentage")
                        ELSE IF n = 1 THEN Ask(x, "quorum") ELSE IF n = 2 THEN Ask(x, "approvalPercentage")
                             ELSE Ask(x, base)
<1>9. AskedCalls(i) = [n \in 1..3 |-> At(i, n)] /\ AskedCalls(j) = [n \in 1..3 |-> At(j, n)]
  <2>. HIDE DEF Ask
  <2>. QED
    BY <1>6 DEF Ask
<1>. HIDE DEF Ask
<1>10. ASSUME OrganOf(i) = OrganOf(j), \A k \in Setters : i.args[k] = j.args[k]
       PROVE  AskedCalls(i) = AskedCalls(j)
  <2>1. \A k \in Setters : Ask(i, k) = Ask(j, k)
    BY <1>8, <1>10
  <2>2. i.args[base] = j.args[base]
    BY <1>10 DEF Setters
  <2>3. \A n \in 1..3 : At(i, n) = At(j, n)
    BY <2>1, <2>2 DEF Setters
  <2>. HIDE DEF At
  <2>. QED
    BY <1>9, <2>3
<1>11. ASSUME AskedCalls(i) = AskedCalls(j)
       PROVE  OrganOf(i) = OrganOf(j) /\ \A k \in Setters : i.args[k] = j.args[k]
  <2>1. \A n \in 1..3 : At(i, n) = At(j, n)
    <3>. HIDE DEF At
    <3>1. ASSUME NEW n \in 1..3 PROVE At(i, n) = AskedCalls(i)[n] /\ At(j, n) = AskedCalls(j)[n]
      BY <1>9
    <3>. QED
      BY <1>11, <3>1
  <2>2. At(i, 1) = At(j, 1) /\ At(i, 2) = At(j, 2) /\ At(i, 3) = At(j, 3)
    BY <2>1
  <2>3. i.args[base] = 0 <=> j.args[base] = 0
    BY <1>7, <2>2
  <2>4. \A k \in Setters : Ask(i, k) = Ask(j, k)
    BY <2>2, <2>3 DEF Setters
  <2>5. "quorum" \in Setters
    BY DEF Setters
  <2>. QED
    BY <1>7, <2>4, <2>5
<1>. QED
  BY <1>4, <1>5, <1>10, <1>11

(* Two intents ask for the same when their identities are equal.              *)
LEMMA ProposalIsIdentity ==
  ASSUME NEW i, NEW j, NEW type \in OperationTypes, NEW other \in OperationTypes,
         IsIntent(i, type), IsIntent(j, other)
  PROVE  SameProposal(i, j) <=> CanonicalIdentity(i) = CanonicalIdentity(j)
<1>1. i.type = type /\ j.type = other
  BY IntentDomain
<1>2. CASE type # other
  BY <1>1, <1>2, Identity, Proposal
<1>3. CASE type = other /\ type # Setting
  BY <1>3, OneCallAlike
<1>4. CASE type = other /\ type = Setting
  BY <1>4, ThreeCallsAlike
<1>. QED
  BY <1>2, <1>3, <1>4

(* Which operation a step of the forms leaves imported, and by what.          *)
LEMMA ImportedBy ==
  ASSUME Shapes, Built, Next, NEW f \in Forms, ~Imported(f), Imported(f)'
  PROVE  \E file, scale :
           LET intents == BuildIntent(forms[f].type, Input(file, forms[f], scale))
           IN /\ \A g \in Forms \ {f} : Imported(g) =>
                   \A intent \in intents : CanonicalIdentity(intent) # CanonicalIdentity(IntentOf(g))
              /\ IntentOf(f)' \in intents
              /\ forms' = [forms EXCEPT ![f] = forms'[f]]
<1>1. ASSUME NEW g \in Forms, NEW type, NEW o, NEW v, IssueOperationTemplate(g, type, o, v) PROVE FALSE
  <2>. DEFINE values == BoundValuesFor(o, v)
              printed == IF o = NoOrgan THEN <<>> ELSE PartyOrganIdentifier(o)
              new == [Unissued EXCEPT !.stage = "issued", !.type = type, !.values = values, !.printed = printed]
  <2>1. forms' = [forms EXCEPT ![g] = new]
    BY <1>1 DEF IssueOperationTemplate
  <2>2. new = FormRecord("issued", type, values, printed, <<>>, 0, {})
    BY FormIssued
  <2>3. new.stage = "issued"
    BY <2>2, Records
  <2>. HIDE DEF new
  <2>. QED
    BY <2>1, <2>3 DEF Shapes, Imported
<1>2. ASSUME NEW g, NEW scale, Imported(g), Submit(g, scale) PROVE FALSE
  BY <1>2 DEF Submit, Shapes, Imported
<1>3. ASSUME Mine \/ Reverts PROVE FALSE
  BY <1>3 DEF Mine, Reverts, Imported
<1>0. PICK g \in Forms : \E file, scale : ImportReturnedForm(g, file, scale)
  BY <1>1, <1>2, <1>3 DEF Next
<1>4. PICK file, scale : ImportReturnedForm(g, file, scale)
  BY <1>0
<1>. DEFINE intents == BuildIntent(forms[g].type, Input(file, forms[g], scale))
            twins == {h \in Forms \ {g} : Imported(h) /\
                        \E intent \in intents : CanonicalIdentity(intent) = CanonicalIdentity(IntentOf(h))}
<1>5. /\ intents # {} /\ twins = {}
      /\ forms' = [forms EXCEPT ![g].stage = "imported", ![g].file = file,
                                ![g].scale = scale, ![g].intent = intents]
  <2>1. forms' # forms
    BY DEF Imported
  <2>. QED
    BY <1>4, <2>1 DEF ImportReturnedForm, Refuse
<1>. HIDE DEF intents
<1>6. g = f
  BY <1>5 DEF Shapes, Imported
<1>7. forms'[f].intent = intents
  <2>. DEFINE r == forms[f]
  <2>1. forms'[f] = [r EXCEPT !.stage = "imported", !.file = file, !.scale = scale, !.intent = intents]
    BY <1>5, <1>6 DEF Shapes
  <2>2. IsFormRecord(r)
    BY DEF Shapes
  <2>. HIDE DEF r
  <2>. QED
    BY <2>1, <2>2 DEF IsFormRecord, FormRecord
<1>8. IntentOf(f)' \in intents
  BY <1>5, <1>7 DEF IntentOf
<1>9. forms' = [forms EXCEPT ![f] = forms'[f]]
  BY <1>5, <1>6 DEF Shapes
<1>10. \A h \in Forms \ {f} : Imported(h) =>
         \A intent \in intents : CanonicalIdentity(intent) # CanonicalIdentity(IntentOf(h))
  BY <1>5, <1>6
<1>. QED
  BY <1>6, <1>8, <1>9, <1>10 DEF intents

(* No step imports a second form of an identity.                              *)
LEMMA DistinctKept ==
  ASSUME Shapes, Built, Distinct, Next
  PROVE  Distinct'
<1>1. \A f \in Forms : Imported(f) => Imported(f)' /\ IntentOf(f)' = IntentOf(f)
  BY FormsKept, IntentsKept
<1>2. ASSUME NEW f \in Forms, NEW g \in Forms, f # g, ~Imported(f), Imported(f)', Imported(g)'
      PROVE  CanonicalIdentity(IntentOf(f)') # CanonicalIdentity(IntentOf(g)')
  <2>1. PICK file, scale :
          LET intents == BuildIntent(forms[f].type, Input(file, forms[f], scale))
          IN /\ \A h \in Forms \ {f} : Imported(h) =>
                  \A intent \in intents : CanonicalIdentity(intent) # CanonicalIdentity(IntentOf(h))
             /\ IntentOf(f)' \in intents
             /\ forms' = [forms EXCEPT ![f] = forms'[f]]
    BY <1>2, ImportedBy
  <2>2. Imported(g) /\ IntentOf(g)' = IntentOf(g)
    BY <1>1, <1>2, <2>1 DEF Shapes, Imported
  <2>. QED
    BY <1>2, <2>1, <2>2
<1>3. ASSUME NEW f \in Forms, NEW g \in Forms, f # g, Imported(f)', Imported(g)'
      PROVE  CanonicalIdentity(IntentOf(f)') # CanonicalIdentity(IntentOf(g)')
  <2>1. CASE Imported(f) /\ Imported(g)
    BY <1>1, <1>3, <2>1 DEF Distinct
  <2>2. CASE ~Imported(f)
    BY <1>2, <1>3, <2>2
  <2>3. CASE ~Imported(g)
    BY <1>2, <1>3, <2>3
  <2>. QED
    BY <2>1, <2>2, <2>3
<1>. QED
  BY <1>3 DEF Distinct, CanonicalIdentity

(* A refusal as a duplicate names what an imported form asks for.             *)
LEMMA RefusalsKept ==
  ASSUME Shapes, Built, Next
  PROVE  Refusals'
<1>1. \A f \in Forms : Imported(f) => Imported(f)' /\ IntentOf(f)' = IntentOf(f)
  BY FormsKept, IntentsKept
<1>2. CASE answer'.intent = {}
  BY <1>2 DEF Refusals
<1>3. ASSUME NEW f \in Forms, NEW file, NEW scale, ImportReturnedForm(f, file, scale), answer'.intent # {}
      PROVE  Refusals'
  <2>. DEFINE intents == BuildIntent(forms[f].type, Input(file, forms[f], scale))
              twins == {h \in Forms \ {f} : Imported(h) /\
                          \E intent \in intents : CanonicalIdentity(intent) = CanonicalIdentity(IntentOf(h))}
  <2>1. twins # {} /\ answer'.intent = intents
    BY <1>3 DEF ImportReturnedForm, Refuse, NoAnswer
  <2>2. PICK h \in Forms, one \in intents :
          Imported(h) /\ CanonicalIdentity(one) = CanonicalIdentity(IntentOf(h))
    BY <2>1
  <2>3. \A intent \in intents : intent = one
    BY BuildsOne
  <2>4. \A intent \in answer'.intent : CanonicalIdentity(intent) = CanonicalIdentity(IntentOf(h)')
    BY <1>1, <2>1, <2>2, <2>3
  <2>5. Imported(h)'
    BY <1>1, <2>2
  <2>6. forms[f].type \in OperationTypes /\ \A intent \in intents : IsIntent(intent, forms[f].type)
    BY <1>3, BuildsIntents DEF ImportReturnedForm, Built
  <2>. QED
    BY <2>1, <2>4, <2>5, <2>6 DEF Refusals, CanonicalIdentity, IsIntent
<1>4. ASSUME NEW f, NEW type, NEW o, NEW v, IssueOperationTemplate(f, type, o, v) PROVE answer'.intent = {}
  BY <1>4 DEF IssueOperationTemplate, NoAnswer
<1>5. ASSUME NEW f, NEW scale, Submit(f, scale) PROVE answer'.intent = {}
  BY <1>5 DEF Submit, NoAnswer
<1>6. ASSUME Mine \/ Reverts PROVE answer'.intent = {}
  BY <1>6 DEF Mine, Reverts, NoAnswer
<1>. QED
  BY <1>2, <1>3, <1>4, <1>5, <1>6 DEF Next

LEMMA IdentityStart == Init => IdentityInv
<1>. SUFFICES ASSUME Init PROVE Distinct /\ Refusals
  BY SettingsStart DEF SettingsInv, IdentityInv
<1>1. \A f \in Forms : ~Imported(f)
  BY DEF Init, Unissued, Imported
<1>2. answer.intent = {}
  BY DEF Init, NoAnswer
<1>. QED
  BY <1>1, <1>2 DEF Distinct, Refusals

LEMMA IdentityStep == IdentityInv /\ Shapes' /\ [Next]_vars => IdentityInv'
<1>. SUFFICES ASSUME Shapes, Built, Distinct, Refusals, Shapes', [Next]_vars PROVE Built' /\ Distinct' /\ Refusals'
  BY DEF IdentityInv
<1>1. CASE UNCHANGED vars
  <2>1. forms' = forms /\ answer' = answer
    BY <1>1 DEF vars
  <2>2. \A f \in Forms : Imported(f)' = Imported(f) /\ IntentOf(f)' = IntentOf(f)
    BY <2>1 DEF Imported, IntentOf
  <2>3. Built'
    BY <2>1, <2>2 DEF Built
  <2>4. Distinct'
    <3>. SUFFICES ASSUME NEW f \in Forms, NEW g \in Forms, f # g, Imported(f)', Imported(g)'
                  PROVE  /\ CanonicalIdentity(IntentOf(f)') # CanonicalIdentity(IntentOf(g)')
      BY DEF Distinct, CanonicalIdentity
    <3>. QED
      BY <2>2 DEF Distinct
  <2>5. Refusals'
    <3>1. \A intent \in answer'.intent :
            /\ \E type \in OperationTypes : IsIntent(intent, type)
            /\ \E f \in Forms : Imported(f)' /\ CanonicalIdentity(intent) = CanonicalIdentity(IntentOf(f)')
      BY <2>1, <2>2 DEF Refusals
    <3>. QED
      BY <3>1 DEF Refusals, CanonicalIdentity, IsIntent
  <2>. QED
    BY <2>3, <2>4, <2>5
<1>2. CASE Next
  BY <1>2, BuiltKept, DistinctKept, RefusalsKept
<1>. QED
  BY <1>1, <1>2

(* A proposal has one imported form, however it is spelled, a form refused as *)
(* a duplicate asks for what an imported one asks (operationIdentity.ts), and *)
(* no two imported forms look the same to the member (describeIntent.ts).     *)
THEOREM OneForm == Spec => []OneFormPerProposal
<1>1. IdentityInv => OneFormPerProposal
  <2>. SUFFICES ASSUME IdentityInv PROVE OneFormPerProposal
    OBVIOUS
  <2>1. \A f \in Forms : Imported(f) =>
          forms[f].type \in OperationTypes /\ IsIntent(IntentOf(f), forms[f].type)
    BY ImportedIntents DEF IdentityInv
  <2>2. ASSUME NEW f \in Forms, NEW g \in Forms, Imported(f), Imported(g), f # g
        PROVE  /\ ~SameProposal(IntentOf(f), IntentOf(g))
               /\ DescribeIntent(IntentOf(f)) # DescribeIntent(IntentOf(g))
    <3>1. CanonicalIdentity(IntentOf(f)) # CanonicalIdentity(IntentOf(g))
      BY <2>2 DEF IdentityInv, Distinct
    <3>. QED
      BY <2>1, <2>2, <3>1, ProposalIsIdentity, DescribedAlike
  <2>3. ASSUME NEW intent \in answer.intent
        PROVE  \E f \in Forms : Imported(f) /\ SameProposal(intent, IntentOf(f))
    <3>1. PICK type \in OperationTypes : IsIntent(intent, type)
      BY <2>3 DEF IdentityInv, Refusals
    <3>2. PICK f \in Forms : Imported(f) /\ CanonicalIdentity(intent) = CanonicalIdentity(IntentOf(f))
      BY <2>3 DEF IdentityInv, Refusals
    <3>. QED
      BY <2>1, <3>1, <3>2, ProposalIsIdentity
  <2>. QED
    BY <2>2, <2>3 DEF OneFormPerProposal
<1>2. SettingsInv => Shapes
  BY DEF SettingsInv
<1>. QED
  BY <1>1, <1>2, IdentityStart, IdentityStep, SettingsInvHolds, PTL DEF Spec

-----------------------------------------------------------------------------
(* What a file holds. *)

(* The files of an operation hold texts in the fields of its plan.            *)
LEMMA FilesHoldTexts ==
  ASSUME NEW type \in OperationTypes, NEW file \in Files(type), NEW k \in FIELD_PLAN[type].input,
         k \in DOMAIN file.fields
  PROVE  file.fields[k] \in Texts
<1>. DEFINE input == FIELD_PLAN[type].input
            Sound(fields) == [version |-> "current", type |-> type, fields |-> fields]
            filled == {fields \in [input -> UNION {Good[j] : j \in input}] : \A j \in input : fields[j] \in Good[j]}
            some == CHOOSE fields \in filled : TRUE
            added == {"decimals", "organType", "stranger"} \cup Retired
<1>1. \A j \in input : Good[j] # {} /\ Good[j] \subseteq Texts
  BY TextsAssumption
<1>2. some \in filled
  <2>. DEFINE fields == [j \in input |-> CHOOSE t \in Good[j] : TRUE]
  <2>1. fields \in filled
    BY <1>1
  <2>. QED
    BY <2>1
<1>. HIDE DEF some
<1>3. \A fields \in filled : DOMAIN fields = input /\ \A j \in input : fields[j] \in Texts
  BY <1>1
<1>5. \/ \E fields \in filled : file = Sound(fields)
      \/ \E j \in input, t \in Bad : file = Sound([some EXCEPT ![j] = t])
      \/ \E j \in input : file = Sound(Restrict(some, input \ {j}))
      \/ \E a \in added \ input : file = Sound([j \in input \cup {a} |-> IF j \in input THEN some[j] ELSE Digits(1)])
      \/ \E v \in {"none", "other"} : file = [Sound(some) EXCEPT !.version = v]
      \/ file = [Sound(some) EXCEPT !.type = "another"]
  <2>. DEFINE wrong == {Sound([some EXCEPT ![j] = t]) : j \in input, t \in Bad}
              missing == {Sound(Restrict(some, input \ {j})) : j \in input}
              more == {Sound([j \in input \cup {a} |-> IF j \in input THEN some[j] ELSE Digits(1)]) : a \in added \ input}
              edited == {[Sound(some) EXCEPT !.version = v] : v \in {"none", "other"}}
              whole == {Sound(fields) : fields \in filled}
              other == {[Sound(some) EXCEPT !.type = "another"]}
  <2>1. Files(type) = whole \cup wrong \cup missing \cup more \cup edited \cup other
    BY SMTT(30) DEF Files, some
  <2>2. file \in whole \cup wrong \cup missing \cup more \cup edited \cup other
    <3>. HIDE DEF whole, wrong, missing, more, edited, other
    <3>. QED
      BY <2>1
  <2>3. file \in whole => \E fields \in filled : file = Sound(fields)
    <3>. HIDE DEF filled, Sound
    <3>. QED
      OBVIOUS
  <2>4. file \in wrong => \E j \in input, t \in Bad : file = Sound([some EXCEPT ![j] = t])
    <3>. DEFINE One(j, t) == Sound([some EXCEPT ![j] = t])
    <3>1. wrong = {One(j, t) : j \in input, t \in Bad}
      OBVIOUS
    <3>. HIDE DEF wrong, One
    <3>2. file \in wrong => \E j \in input, t \in Bad : file = One(j, t)
      BY <3>1
    <3>. QED
      BY <3>2 DEF One
  <2>5. file \in missing => \E j \in input : file = Sound(Restrict(some, input \ {j}))
    <3>. HIDE DEF Sound
    <3>. QED
      OBVIOUS
  <2>6. file \in more => \E a \in added \ input :
          file = Sound([j \in input \cup {a} |-> IF j \in input THEN some[j] ELSE Digits(1)])
    <3>. DEFINE One(a) == Sound([j \in input \cup {a} |-> IF j \in input THEN some[j] ELSE Digits(1)])
    <3>1. more = {One(a) : a \in added \ input}
      OBVIOUS
    <3>. HIDE DEF more, One
    <3>2. file \in more => \E a \in added \ input : file = One(a)
      BY <3>1
    <3>. QED
      BY <3>2 DEF One
  <2>7. file \in edited => \E v \in {"none", "other"} : file = [Sound(some) EXCEPT !.version = v]
    <3>. HIDE DEF Sound
    <3>. QED
      OBVIOUS
  <2>8. file \in other => file = [Sound(some) EXCEPT !.type = "another"]
    OBVIOUS
  <2>. HIDE DEF whole, wrong, missing, more, edited, other, Sound, filled, added
  <2>. QED
    BY <2>2, <2>3, <2>4, <2>5, <2>6, <2>7, <2>8
<1>. HIDE DEF filled, added
<1>6. CASE \E fields \in filled : file = Sound(fields)
  BY <1>3, <1>6
<1>7. CASE \E j \in input, t \in Bad : file = Sound([some EXCEPT ![j] = t])
  <2>1. PICK j \in input, t \in Bad : file = Sound([some EXCEPT ![j] = t])
    BY <1>7
  <2>2. file.fields = [some EXCEPT ![j] = t]
    BY <2>1
  <2>3. t \in Texts /\ DOMAIN some = input /\ some[k] \in Texts
    BY <1>2, <1>3, TextsAssumption
  <2>. QED
    BY <2>2, <2>3
<1>8. CASE \E j \in input : file = Sound(Restrict(some, input \ {j}))
  <2>1. PICK j \in input : file = Sound(Restrict(some, input \ {j}))
    BY <1>8
  <2>2. file.fields = Restrict(some, input \ {j})
    BY <2>1
  <2>. QED
    BY <1>2, <1>3, <2>2 DEF Restrict
<1>9. CASE \E a \in added \ input :
              file = Sound([j \in input \cup {a} |-> IF j \in input THEN some[j] ELSE Digits(1)])
  BY <1>2, <1>3, <1>9
<1>10. CASE \E v \in {"none", "other"} : file = [Sound(some) EXCEPT !.version = v]
  BY <1>2, <1>3, <1>10
<1>11. CASE file = [Sound(some) EXCEPT !.type = "another"]
  BY <1>2, <1>3, <1>11
<1>. QED
  BY <1>5, <1>6, <1>7, <1>8, <1>9, <1>10, <1>11

(* A file without refusals has the fields of the plan and no other.           *)
LEMMA NoRefusals ==
  ASSUME NEW file, NEW r, AssembleFormInput(file, r) = {}
  PROVE  DOMAIN file.fields = FIELD_PLAN[r.type].input
<1>. DEFINE plan == FIELD_PLAN[r.type]
            present == DOMAIN file.fields
            Code(code, found) == IF found THEN {code} ELSE {}
<1>1. /\ Code("RETIRED_FIELD", present \cap Retired # {}) = {}
      /\ Code("UNKNOWN_FIELD", present \ (plan.input \cup Retired) # {}) = {}
      /\ Code("MISSING_INPUT_FIELD", plan.input \ present # {}) = {}
  BY DEF AssembleFormInput
<1>. QED
  BY <1>1

LEMMA MeaningStart == Init => MeaningInv
<1>. SUFFICES ASSUME Init PROVE Bound /\ Returned
  BY SettingsStart DEF SettingsInv, MeaningInv
<1>1. \A f \in Forms : forms[f].stage = "unissued"
  BY DEF Init, Unissued
<1>. QED
  BY <1>1 DEF Bound, Returned, Imported

LEMMA MeaningStep == MeaningInv /\ Shapes' /\ [Next]_vars => MeaningInv'
<1>. SUFFICES ASSUME Shapes, Built, Bound, Returned, Shapes', [Next]_vars PROVE Built' /\ Bound' /\ Returned'
  BY DEF MeaningInv
<1>1. Built'
  <2>1. CASE UNCHANGED vars
    <3>1. forms' = forms
      BY <2>1 DEF vars
    <3>. QED
      BY <3>1 DEF Built, Imported
  <2>. QED
    BY <2>1, BuiltKept
<1>2. ASSUME forms' = forms PROVE Bound' /\ Returned'
  BY <1>2 DEF Bound, Returned, Imported
<1>3. ASSUME NEW f \in Forms, NEW new, forms' = [forms EXCEPT ![f] = new],
             \E o \in Organs \cup {NoOrgan}, v \in VotingIds \cup {0} : BoundTo(new, o, v),
             new.stage \in {"imported", "sent", "partlySent"} => CameBack(new)
      PROVE  Bound' /\ Returned'
  <2>1. \A g \in Forms : forms'[g] = IF g = f THEN new ELSE forms[g]
    BY <1>3 DEF Shapes
  <2>2. \A g \in Forms : forms'[g].stage # "unissued" =>
          \E o \in Organs \cup {NoOrgan}, v \in VotingIds \cup {0} : BoundTo(forms'[g], o, v)
    BY <1>3, <2>1 DEF Bound
  <2>3. \A g \in Forms : forms'[g].stage \in {"imported", "sent", "partlySent"} => CameBack(forms'[g])
    BY <1>3, <2>1 DEF Returned, Imported
  <2>4. Bound'
    BY <2>2 DEF Bound, BoundTo
  <2>5. Returned'
    BY <2>3 DEF Returned, CameBack, Imported
  <2>. QED
    BY <2>4, <2>5
<1>4. ASSUME NEW f \in Forms, NEW new, forms' = [forms EXCEPT ![f] = new], \E type, o, v : Issues(forms[f], new, type, o, v)
      PROVE  Bound' /\ Returned'
  <2>1. PICK type, o, v : Issues(forms[f], new, type, o, v)
    BY <1>4
  <2>2. /\ new.stage = "issued" /\ new.type = type /\ new.values = BoundValuesFor(o, v)
        /\ new.printed = IF o = NoOrgan THEN <<>> ELSE PartyOrganIdentifier(o)
    BY <2>1, Records DEF Issues
  <2>3. BoundTo(new, o, v) /\ o \in Organs \cup {NoOrgan} /\ v \in VotingIds \cup {0}
    BY <2>1, <2>2 DEF Issues, BoundTo
  <2>. QED
    BY <1>3, <1>4, <2>2, <2>3
<1>5. ASSUME NEW f \in Forms, NEW new, forms' = [forms EXCEPT ![f] = new],
             \E file, scale, intents : Imports(forms[f], new, file, scale, intents)
      PROVE  Bound' /\ Returned'
  <2>1. PICK file, scale, intents : Imports(forms[f], new, file, scale, intents)
    BY <1>5
  <2>2. PICK o \in Organs \cup {NoOrgan}, v \in VotingIds \cup {0} : BoundTo(forms[f], o, v)
    BY <2>1 DEF Imports, Bound
  <2>3. /\ new.type = forms[f].type /\ new.values = forms[f].values /\ new.printed = forms[f].printed
        /\ new.file = file /\ new.scale = scale
    BY <2>1, Records DEF Imports
  <2>4. BoundTo(new, o, v)
    BY <2>2, <2>3 DEF BoundTo
  <2>5. forms[f].type \in OperationTypes
    BY <2>1 DEF Imports, Built
  <2>6. file \in Files(forms[f].type)
    BY <2>1, <2>5 DEF Imports, ReturnedFiles
  <2>7. DOMAIN file.fields = FIELD_PLAN[forms[f].type].input
    BY <2>1, NoRefusals DEF Imports
  <2>8. \A k \in FIELD_PLAN[forms[f].type].input : file.fields[k] \in Texts
    BY <2>5, <2>6, <2>7, FilesHoldTexts
  <2>9. CameBack(new)
    BY <2>1, <2>3, <2>7, <2>8 DEF Imports, CameBack
  <2>. QED
    BY <1>3, <1>5, <2>4, <2>9
<1>6. ASSUME NEW f \in Forms, NEW new, forms' = [forms EXCEPT ![f] = new], Sends(forms[f], new)
      PROVE  Bound' /\ Returned'
  <2>1. /\ new.type = forms[f].type /\ new.values = forms[f].values /\ new.printed = forms[f].printed
        /\ new.file = forms[f].file /\ new.scale = forms[f].scale
    BY <1>6, Records DEF Sends
  <2>2. forms[f].stage # "unissued" /\ Imported(f)
    BY <1>6 DEF Sends, Imported
  <2>3. PICK o \in Organs \cup {NoOrgan}, v \in VotingIds \cup {0} : BoundTo(forms[f], o, v)
    BY <2>2 DEF Bound
  <2>4. BoundTo(new, o, v)
    BY <2>1, <2>3 DEF BoundTo
  <2>5. CameBack(new)
    BY <2>1, <2>2 DEF Returned, CameBack
  <2>. QED
    BY <1>3, <1>6, <2>4, <2>5
<1>7. CASE UNCHANGED vars
  BY <1>1, <1>2, <1>7 DEF vars
<1>8. CASE Next
  BY <1>1, <1>2, <1>4, <1>5, <1>6, <1>8, RecordMoves
<1>. QED
  BY <1>7, <1>8

-----------------------------------------------------------------------------
(* Decimals. *)

(* Induction over the natural numbers, for a set rather than a predicate.     *)
LEMMA MinimumBy ==
  ASSUME NEW T, T \subseteq Nat, T # {}, NEW R, IsWellFoundedOn(R, Nat)
  PROVE  \E m \in T : \A n \in T : ~(<<n, m>> \in R)
BY WFMin, Zenon

LEMMA Least ==
  ASSUME NEW T, T \subseteq Nat, T # {}
  PROVE  \E m \in T : \A n \in T : m <= n
<1>. DEFINE R == OpToRel(<, Nat)
<1>1. \A a, b \in Nat : a < b => <<a, b>> \in R
  BY DEF OpToRel
<1>2. IsWellFoundedOn(R, Nat)
  BY NatLessThanWellFounded
<1>. HIDE DEF R
<1>3. PICK m \in T : \A n \in T : ~(<<n, m>> \in R)
  BY <1>2, MinimumBy
<1>4. \A n \in T : ~(n < m)
  BY <1>1, <1>3
<1>. QED
  BY <1>4

LEMMA SetInduction ==
  ASSUME NEW T, 0 \in T, \A n \in Nat : n \in T => n + 1 \in T
  PROVE  Nat \subseteq T
<1>. DEFINE U == Nat \ T
<1>. SUFFICES ASSUME U # {} PROVE FALSE
  OBVIOUS
<1>1. PICK m \in U : \A n \in U : m <= n
  BY Least
<1>2. m # 0 /\ m - 1 \in Nat /\ m - 1 \notin U
  BY <1>1
<1>. QED
  BY <1>2

(* A text's digits, read one by one.                                          *)
ReadBy(n, text, decimals) ==
  /\ n[0] = text.whole
  /\ \A i \in 1..decimals : n[i] = 10 * n[i - 1] + PadEnd(text.fraction, decimals)[i]

LEMMA DigitsRead ==
  ASSUME NEW text, text.whole \in Nat, text.fraction \in Seq(0..9), NEW decimals \in Nat
  PROVE  /\ \A i \in 1..decimals : PadEnd(text.fraction, decimals)[i] \in 0..9
         /\ \E n : ReadBy(n, text, decimals) /\ Scaled(text, decimals) = n[decimals]
<1>. DEFINE D == 0..decimals
            digits == PadEnd(text.fraction, decimals)
<1>1. text.whole \in Nat /\ text.fraction \in Seq(0..9)
  OBVIOUS
<1>2. \A i \in 1..decimals : digits[i] \in 0..9
  <2>1. \A i \in 1..Len(text.fraction) : text.fraction[i] \in 0..9
    BY <1>1
  <2>2. Len(text.fraction) \in Nat
    BY <1>1
  <2>. QED
    BY <2>1, <2>2 DEF PadEnd
<1>. HIDE DEF digits
<1>. DEFINE Step(g, i) == IF i = 0 THEN text.whole ELSE 10 * g[i - 1] + digits[i]
            K == {k \in Nat : \E g : \A i \in 0..k : g[i] = Step(g, i)}
<1>3. 0 \in K
  <2>. DEFINE g == [i \in {0} |-> text.whole]
  <2>1. \A i \in 0..0 : g[i] = Step(g, i)
    OBVIOUS
  <2>. QED
    BY <2>1
<1>4. ASSUME NEW k \in Nat, k \in K PROVE k + 1 \in K
  <2>1. PICK g : \A i \in 0..k : g[i] = Step(g, i)
    BY <1>4
  <2>. DEFINE h == [i \in 0..(k + 1) |-> IF i <= k THEN g[i] ELSE 10 * g[k] + digits[k + 1]]
  <2>2. ASSUME NEW i \in 0..(k + 1) PROVE h[i] = Step(h, i)
    <3>1. CASE i <= k
      <4>1. h[i] = g[i] /\ g[i] = Step(g, i)
        BY <2>1, <3>1
      <4>2. i # 0 => h[i - 1] = g[i - 1]
        BY <3>1
      <4>. HIDE DEF h
      <4>. QED
        BY <4>1, <4>2
    <3>2. CASE ~(i <= k)
      <4>1. i = k + 1 /\ i # 0 /\ i - 1 = k
        BY <3>2
      <4>2. h[i] = 10 * g[k] + digits[k + 1] /\ h[k] = g[k]
        BY <4>1
      <4>. HIDE DEF h
      <4>. QED
        BY <4>1, <4>2
    <3>. QED
      BY <3>1, <3>2
  <2>. HIDE DEF h
  <2>3. \E j : \A i \in 0..(k + 1) : j[i] = Step(j, i)
    BY <2>2
  <2>. QED
    BY <2>3
<1>5. decimals \in K
  <2>. HIDE DEF K
  <2>1. Nat \subseteq K
    BY <1>3, <1>4, SetInduction
  <2>. QED
    BY <2>1
<1>6. PICK g : \A i \in D : g[i] = Step(g, i)
  BY <1>5
<1>. DEFINE h == [i \in D |-> g[i]]
            body(f) == [i \in D |-> IF i = 0 THEN text.whole ELSE 10 * f[i - 1] + digits[i]]
            read == CHOOSE f : f = body(f)
<1>7. h = body(h)
  <2>1. ASSUME NEW i \in D PROVE h[i] = body(h)[i]
    <3>1. i # 0 => i - 1 \in D
      OBVIOUS
    <3>2. h[i] = Step(g, i)
      BY <1>6
    <3>. QED
      BY <3>1, <3>2
  <2>. HIDE DEF Step
  <2>2. DOMAIN h = D /\ h = [i \in D |-> h[i]] /\ body(h) = [i \in D |-> body(h)[i]]
    OBVIOUS
  <2>. HIDE DEF h, body
  <2>. QED
    BY <2>1, <2>2
<1>. HIDE DEF h
<1>8. read = body(read)
  <2>1. \E f : f = body(f)
    BY <1>7
  <2>. HIDE DEF body
  <2>. QED
    BY <2>1
<1>9. Scaled(text, decimals) = read[decimals]
  BY DEF Scaled, digits
<1>. HIDE DEF read
<1>10. \A i \in D : read[i] = IF i = 0 THEN text.whole ELSE 10 * read[i - 1] + digits[i]
  BY <1>8
<1>11. ReadBy(read, text, decimals)
  BY <1>10 DEF ReadBy, digits
<1>. QED
  BY <1>2, <1>9, <1>11 DEF digits

(* A number with its last digits cut off, one by one.                         *)
CutBy(n, value, decimals) ==
  /\ n[0] = value
  /\ \A i \in 1..decimals : n[i] = n[i - 1] \div 10

LEMMA DigitsCut ==
  ASSUME NEW value \in Nat, NEW decimals \in Nat
  PROVE  \E n : /\ CutBy(n, value, decimals)
                /\ FormatFixedPoint(value, decimals) =
                     Decimal(n[decimals], [i \in 1..decimals |-> n[decimals - i] % 10])
<1>. DEFINE D == 0..decimals
            Step(g, i) == IF i = 0 THEN value ELSE g[i - 1] \div 10
            K == {k \in Nat : \E g : \A i \in 0..k : g[i] = Step(g, i)}
<1>1. 0 \in K
  <2>. DEFINE g == [i \in {0} |-> value]
  <2>1. \A i \in 0..0 : g[i] = Step(g, i)
    OBVIOUS
  <2>. QED
    BY <2>1
<1>2. ASSUME NEW k \in Nat, k \in K PROVE k + 1 \in K
  <2>1. PICK g : \A i \in 0..k : g[i] = Step(g, i)
    BY <1>2
  <2>. DEFINE h == [i \in 0..(k + 1) |-> IF i <= k THEN g[i] ELSE g[k] \div 10]
  <2>2. ASSUME NEW i \in 0..(k + 1) PROVE h[i] = Step(h, i)
    <3>1. CASE i <= k
      <4>1. h[i] = g[i] /\ g[i] = Step(g, i)
        BY <2>1, <3>1
      <4>2. i # 0 => h[i - 1] = g[i - 1]
        BY <3>1
      <4>. HIDE DEF h
      <4>. QED
        BY <4>1, <4>2
    <3>2. CASE ~(i <= k)
      <4>1. i = k + 1 /\ i # 0 /\ i - 1 = k
        BY <3>2
      <4>2. h[i] = g[k] \div 10 /\ h[k] = g[k]
        BY <4>1
      <4>. HIDE DEF h
      <4>. QED
        BY <4>1, <4>2
    <3>. QED
      BY <3>1, <3>2
  <2>. HIDE DEF h
  <2>3. \E j : \A i \in 0..(k + 1) : j[i] = Step(j, i)
    BY <2>2
  <2>. QED
    BY <2>3
<1>3. decimals \in K
  <2>. HIDE DEF K
  <2>1. Nat \subseteq K
    BY <1>1, <1>2, SetInduction
  <2>. QED
    BY <2>1
<1>4. PICK g : \A i \in D : g[i] = Step(g, i)
  BY <1>3
<1>. DEFINE h == [i \in D |-> g[i]]
            body(f) == [i \in D |-> IF i = 0 THEN value ELSE f[i - 1] \div 10]
            cut == CHOOSE f : f = body(f)
<1>5. h = body(h)
  <2>1. ASSUME NEW i \in D PROVE h[i] = body(h)[i]
    <3>1. i # 0 => i - 1 \in D
      OBVIOUS
    <3>2. h[i] = Step(g, i)
      BY <1>4
    <3>. QED
      BY <3>1, <3>2
  <2>. HIDE DEF Step
  <2>2. h = [i \in D |-> h[i]] /\ body(h) = [i \in D |-> body(h)[i]]
    OBVIOUS
  <2>. HIDE DEF h, body
  <2>. QED
    BY <2>1, <2>2
<1>. HIDE DEF h
<1>6. cut = body(cut)
  <2>1. \E f : f = body(f)
    BY <1>5
  <2>. HIDE DEF body
  <2>. QED
    BY <2>1
<1>7. FormatFixedPoint(value, decimals) =
        Decimal(cut[decimals], [i \in 1..decimals |-> cut[decimals - i] % 10])
  BY DEF FormatFixedPoint
<1>. HIDE DEF cut
<1>8. \A i \in D : cut[i] = IF i = 0 THEN value ELSE cut[i - 1] \div 10
  BY <1>6
<1>9. CutBy(cut, value, decimals)
  BY <1>8 DEF CutBy
<1>. QED
  BY <1>7, <1>9

(* Cutting the digits off again, one by one.                                  *)
LEMMA WrittenBack ==
  ASSUME NEW text, text \in Texts, NEW decimals \in Nat
  PROVE  /\ Scaled(text, decimals) \in Nat
         /\ FormatFixedPoint(Scaled(text, decimals), decimals) =
              Decimal(text.whole, PadEnd(text.fraction, decimals))
<1>. DEFINE D == 0..decimals
            digits == PadEnd(text.fraction, decimals)
<1>1. PICK n : ReadBy(n, text, decimals) /\ Scaled(text, decimals) = n[decimals]
  BY DigitsRead DEF Texts
<1>2. \A i \in 1..decimals : digits[i] \in 0..9
  BY DigitsRead DEF Texts
<1>. HIDE DEF digits
<1>3. n[0] = text.whole /\ \A i \in 1..decimals : n[i] = 10 * n[i - 1] + digits[i]
  BY <1>1 DEF ReadBy, digits
<1>4. text.whole \in Nat
  BY DEF Texts
<1>5. \A i \in D : n[i] \in Nat
  <2>. DEFINE K == {i \in Nat : i <= decimals => n[i] \in Nat}
  <2>1. 0 \in K
    BY <1>3, <1>4
  <2>2. ASSUME NEW k \in Nat, k \in K PROVE k + 1 \in K
    <3>. SUFFICES ASSUME k + 1 <= decimals PROVE n[k + 1] \in Nat
      OBVIOUS
    <3>1. n[k] \in Nat /\ k + 1 \in 1..decimals
      BY <2>2
    <3>2. n[k + 1] = 10 * n[(k + 1) - 1] + digits[k + 1] /\ digits[k + 1] \in 0..9
      BY <1>2, <1>3, <3>1
    <3>3. (k + 1) - 1 = k
      OBVIOUS
    <3>. QED
      BY <3>1, <3>2, <3>3
  <2>. HIDE DEF K
  <2>3. Nat \subseteq K
    BY <2>1, <2>2, SetInduction
  <2>. QED
    BY <2>3 DEF K
<1>6. ASSUME NEW i \in 1..decimals
      PROVE  n[i] \div 10 = n[i - 1] /\ n[i] % 10 = digits[i]
  <2>1. n[i - 1] \in Nat /\ digits[i] \in 0..9 /\ n[i] = 10 * n[i - 1] + digits[i]
    BY <1>2, <1>3, <1>5
  <2>2. ASSUME NEW a \in Nat, NEW d \in 0..9 PROVE (10 * a + d) \div 10 = a /\ (10 * a + d) % 10 = d
    OBVIOUS
  <2>. QED
    BY <2>1, <2>2
<1>7. n[decimals] \in Nat
  BY <1>5
<1>8. PICK cut : /\ CutBy(cut, n[decimals], decimals)
                 /\ FormatFixedPoint(n[decimals], decimals) =
                      Decimal(cut[decimals], [i \in 1..decimals |-> cut[decimals - i] % 10])
  BY <1>7, DigitsCut
<1>10. \A i \in D : cut[i] = IF i = 0 THEN n[decimals] ELSE cut[i - 1] \div 10
  BY <1>8 DEF CutBy
<1>11. \A i \in D : cut[i] = n[decimals - i]
  <2>. DEFINE K == {i \in Nat : i <= decimals => cut[i] = n[decimals - i]}
  <2>1. 0 \in K
    BY <1>10
  <2>2. ASSUME NEW k \in Nat, k \in K PROVE k + 1 \in K
    <3>. SUFFICES ASSUME k + 1 <= decimals PROVE cut[k + 1] = n[decimals - (k + 1)]
      OBVIOUS
    <3>1. cut[k] = n[decimals - k] /\ k + 1 \in D /\ k + 1 # 0 /\ (k + 1) - 1 = k
      BY <2>2
    <3>2. cut[k + 1] = cut[k] \div 10
      BY <1>10, <3>1
    <3>3. decimals - k \in 1..decimals /\ (decimals - k) - 1 = decimals - (k + 1)
      OBVIOUS
    <3>4. n[decimals - k] \div 10 = n[decimals - (k + 1)]
      BY <1>6, <3>3
    <3>. QED
      BY <3>1, <3>2, <3>4
  <2>. HIDE DEF K
  <2>3. Nat \subseteq K
    BY <2>1, <2>2, SetInduction
  <2>. QED
    BY <2>3 DEF K
<1>12. cut[decimals] = text.whole
  <2>1. decimals \in D /\ decimals - decimals = 0
    OBVIOUS
  <2>. QED
    BY <1>3, <1>11, <2>1
<1>13. \A i \in 1..decimals : cut[decimals - i] % 10 = digits[i]
  <2>1. ASSUME NEW i \in 1..decimals PROVE cut[decimals - i] % 10 = digits[i]
    <3>1. decimals - i \in D /\ decimals - (decimals - i) = i
      OBVIOUS
    <3>2. cut[decimals - i] = n[i]
      BY <1>11, <3>1
    <3>. QED
      BY <1>6, <3>2
  <2>. QED
    BY <2>1
<1>14. [i \in 1..decimals |-> cut[decimals - i] % 10] = digits
  <2>1. digits = [i \in 1..decimals |-> digits[i]]
    BY DEF digits, PadEnd
  <2>. QED
    BY <1>13, <2>1
<1>. QED
  BY <1>1, <1>7, <1>8, <1>12, <1>14 DEF digits

LEMMA LastDigit ==
  ASSUME NEW a \in Nat
  PROVE  a = 10 * (a \div 10) + (a % 10)
OBVIOUS

(* fixedPoint.ts, "no information is lost in either direction": what is read  *)
(* from a text is written back with every digit of it, padded to the scale,   *)
(* and what is written of any stored value is read back as that value, at     *)
(* every scale.                                                               *)
THEOREM FixedPointIsExact ==
  ASSUME NEW decimals \in Nat
  PROVE  /\ \A text \in Texts : \A value \in ParseFixedPoint(text, decimals) :
              FormatFixedPoint(value, decimals) = Decimal(text.whole, PadEnd(text.fraction, decimals))
         /\ \A value \in 0..MaxU64 :
              ParseFixedPoint(FormatFixedPoint(value, decimals), decimals) = {value}
<1>1. ASSUME NEW text \in Texts, NEW value \in ParseFixedPoint(text, decimals)
      PROVE  FormatFixedPoint(value, decimals) = Decimal(text.whole, PadEnd(text.fraction, decimals))
  <2>1. value = Scaled(text, decimals)
    BY DEF ParseFixedPoint
  <2>. QED
    BY <2>1, WrittenBack
<1>2. ASSUME NEW value \in 0..MaxU64
      PROVE  ParseFixedPoint(FormatFixedPoint(value, decimals), decimals) = {value}
  <2>. DEFINE D == 0..decimals
  <2>1. PICK cut : /\ CutBy(cut, value, decimals)
                   /\ FormatFixedPoint(value, decimals) =
                        Decimal(cut[decimals], [i \in 1..decimals |-> cut[decimals - i] % 10])
    BY DigitsCut, IntentsAssumption
  <2>2. \A i \in D : cut[i] \in Nat
    <3>. DEFINE K == {i \in Nat : i <= decimals => cut[i] \in Nat}
    <3>1. 0 \in K
      BY <2>1 DEF CutBy
    <3>2. ASSUME NEW k \in Nat, k \in K PROVE k + 1 \in K
      <4>. SUFFICES ASSUME k + 1 <= decimals PROVE cut[k + 1] \in Nat
        OBVIOUS
      <4>1. cut[k] \in Nat /\ k + 1 \in 1..decimals /\ (k + 1) - 1 = k
        BY <3>2
      <4>2. cut[k + 1] = cut[k] \div 10
        BY <2>1, <4>1 DEF CutBy
      <4>. QED
        BY <4>1, <4>2
    <3>. HIDE DEF K
    <3>3. Nat \subseteq K
      BY <3>1, <3>2, SetInduction
    <3>. QED
      BY <3>3 DEF K
  <2>. DEFINE fraction == [i \in 1..decimals |-> cut[decimals - i] % 10]
              text == Decimal(cut[decimals], fraction)
  <2>3. \A i \in 1..decimals : cut[decimals - i] % 10 \in 0..9
    <3>1. ASSUME NEW i \in 1..decimals PROVE cut[decimals - i] % 10 \in 0..9
      <4>1. cut[decimals - i] \in Nat
        BY <2>2
      <4>2. ASSUME NEW a \in Nat PROVE a % 10 \in 0..9
        OBVIOUS
      <4>. QED
        BY <4>1, <4>2
    <3>. QED
      BY <3>1
  <2>4. /\ fraction \in Seq(0..9) /\ Len(fraction) = decimals
        /\ \A i \in 1..decimals : PadEnd(fraction, decimals)[i] = cut[decimals - i] % 10
    <3>1. fraction \in Seq(0..9) /\ Len(fraction) = decimals
      BY <2>3
    <3>2. ASSUME NEW i \in 1..decimals PROVE PadEnd(fraction, decimals)[i] = cut[decimals - i] % 10
      BY <3>1 DEF PadEnd
    <3>. QED
      BY <3>1, <3>2
  <2>. HIDE DEF fraction
  <2>5. /\ text.word = "digits" /\ text.whole = cut[decimals] /\ text.fraction = fraction
        /\ text.whole \in Nat /\ text.fraction \in Seq(0..9)
    <3>1. cut[decimals] \in Nat
      BY <2>2
    <3>. QED
      BY <2>4, <3>1 DEF Decimal
  <2>6. FormatFixedPoint(value, decimals) = text
    BY <2>1 DEF fraction
  <2>. HIDE DEF text
  <2>7. PICK n : ReadBy(n, text, decimals) /\ Scaled(text, decimals) = n[decimals]
    BY <2>5, DigitsRead
  <2>8. n[0] = cut[decimals] /\ \A i \in 1..decimals : n[i] = 10 * n[i - 1] + (cut[decimals - i] % 10)
    <3>1. n[0] = text.whole /\ \A i \in 1..decimals : n[i] = 10 * n[i - 1] + PadEnd(text.fraction, decimals)[i]
      BY <2>7 DEF ReadBy
    <3>2. PadEnd(text.fraction, decimals) = PadEnd(fraction, decimals)
      BY <2>5
    <3>3. ASSUME NEW i \in 1..decimals PROVE n[i] = 10 * n[i - 1] + (cut[decimals - i] % 10)
      BY <2>4, <3>1, <3>2
    <3>. QED
      BY <2>5, <3>1, <3>3
  <2>9. \A i \in D : n[i] = cut[decimals - i]
    <3>. DEFINE K == {i \in Nat : i <= decimals => n[i] = cut[decimals - i]}
    <3>1. 0 \in K
      BY <2>8
    <3>2. ASSUME NEW k \in Nat, k \in K PROVE k + 1 \in K
      <4>. SUFFICES ASSUME k + 1 <= decimals PROVE n[k + 1] = cut[decimals - (k + 1)]
        OBVIOUS
      <4>1. /\ n[k] = cut[decimals - k] /\ k + 1 \in 1..decimals /\ (k + 1) - 1 = k
            /\ decimals - k \in 1..decimals /\ (decimals - k) - 1 = decimals - (k + 1)
            /\ decimals - (k + 1) \in D
        BY <3>2
      <4>2. n[k + 1] = 10 * n[k] + (cut[decimals - (k + 1)] % 10)
        BY <2>8, <4>1
      <4>3. cut[decimals - k] = cut[decimals - (k + 1)] \div 10
        BY <2>1, <4>1 DEF CutBy
      <4>4. cut[decimals - (k + 1)] \in Nat
        BY <2>2, <4>1
      <4>5. cut[decimals - (k + 1)] =
              10 * (cut[decimals - (k + 1)] \div 10) + (cut[decimals - (k + 1)] % 10)
        BY <4>4, LastDigit
      <4>. QED
        BY <4>1, <4>2, <4>3, <4>5
    <3>. HIDE DEF K
    <3>3. Nat \subseteq K
      BY <3>1, <3>2, SetInduction
    <3>. QED
      BY <3>3 DEF K
  <2>10. n[decimals] = value
    <3>1. decimals \in D /\ decimals - decimals = 0
      OBVIOUS
    <3>. QED
      BY <2>1, <2>9, <3>1 DEF CutBy
  <2>. QED
    BY <2>4, <2>5, <2>6, <2>7, <2>10 DEF ParseFixedPoint
<1>. QED
  BY <1>1, <1>2

-----------------------------------------------------------------------------
(* The meaning of a form. *)

(* What a plan names, its record keeps and the chain answers are apart.       *)
Kept == OrganKeys \cup {"votingId"}

LEMMA PlanApart ==
  ASSUME NEW type \in OperationTypes
  PROVE  /\ FIELD_PLAN[type].input \cap Kept = {} /\ FIELD_PLAN[type].resolved \cap Kept = {}
         /\ FIELD_PLAN[type].input \cap FIELD_PLAN[type].resolved = {}
         /\ FIELD_PLAN[type].bound \subseteq Kept
         /\ type \notin FIELD_PLAN[type].input
         /\ "value" \in FIELD_PLAN[type].input <=> type = "CREATE_NUMERICAL_VALUE_VOTING"
         /\ "category" \in FIELD_PLAN[type].input => type # Setting
         /\ "regionSubjectCode" \notin FIELD_PLAN[type].input
BY DEF OperationTypes, FIELD_PLAN, Plan, OnOrgan, OrganKeys, Kept, Setting

(* Only an organ's keys and the voting's are recorded.                         *)
LEMMA BoundKeys ==
  ASSUME NEW o, NEW v
  PROVE  DOMAIN BoundValuesFor(o, v) \subseteq Kept
BY DEF BoundValuesFor, Kept, OrganKeys

(* Where each value that is read comes from.                                  *)
LEMMA InputFrom ==
  ASSUME NEW type \in OperationTypes, NEW r, r.type = type, NEW file, NEW scale, NEW o, NEW v,
         r.values = BoundValuesFor(o, v), DOMAIN file.fields = FIELD_PLAN[type].input
  PROVE  /\ \A k \in FIELD_PLAN[type].input : Input(file, r, scale)[k] = file.fields[k]
         /\ \A k \in FIELD_PLAN[type].resolved : Input(file, r, scale)[k] = Digits(scale)
         /\ \A k \in DOMAIN r.values : Input(file, r, scale)[k] = r.values[k]
<1>. DEFINE plan == FIELD_PLAN[type]
            values == r.values
            resolved == [k \in plan.resolved |-> Digits(scale)]
            read == Restrict(file.fields, plan.input)
<1>1. Input(file, r, scale) =
        [k \in DOMAIN read \cup DOMAIN values \cup DOMAIN resolved |->
           IF k \in DOMAIN resolved THEN resolved[k] ELSE IF k \in DOMAIN values THEN values[k] ELSE read[k]]
  BY DEF Input
<1>2. DOMAIN read = plan.input /\ \A k \in plan.input : read[k] = file.fields[k]
  BY DEF Restrict
<1>3. DOMAIN resolved = plan.resolved /\ \A k \in plan.resolved : resolved[k] = Digits(scale)
  OBVIOUS
<1>4. DOMAIN values \subseteq Kept
  BY BoundKeys
<1>5. plan.input \cap Kept = {} /\ plan.resolved \cap Kept = {} /\ plan.input \cap plan.resolved = {}
  BY PlanApart
<1>. HIDE DEF plan, values, resolved, read
<1>6. \A k \in plan.input : Input(file, r, scale)[k] = file.fields[k]
  BY <1>1, <1>2, <1>3, <1>4, <1>5
<1>7. \A k \in plan.resolved : Input(file, r, scale)[k] = Digits(scale)
  BY <1>1, <1>2, <1>3, <1>4, <1>5
<1>8. \A k \in DOMAIN values : Input(file, r, scale)[k] = values[k]
  BY <1>1, <1>2, <1>3, <1>4, <1>5
<1>. QED
  BY <1>6, <1>7, <1>8 DEF plan, values

(* The organ that is read is the one that was bound.                          *)
LEMMA OrganRead ==
  ASSUME NEW o \in Organs, NEW v, NEW input,
         \A k \in DOMAIN BoundValuesFor(o, v) : input[k] = BoundValuesFor(o, v)[k],
         NEW p \in ReadOrgan(input)
  PROVE  p = o
<1>. DEFINE t == o.organType
            values == BoundValuesFor(o, v)
            Regions == {RegionBySubjectCode(c) : c \in Read("regionSubjectCode", input.regionSubjectCode)}
<1>1. IsNormal(o) /\ o # NoOrgan
  BY IntentsAssumption
<1>2. t \in DOMAIN ScopeOf /\ ScopeOf[t] \in {"LOCAL", "REGIONAL", "GLOBAL"}
  BY <1>1, Parts, Scopes
<1>3. PICK region \in Ordinals : o = PartyOrganTriple(t, region, o.number)
  BY <1>1 DEF IsNormal, PartyOrganTriple
<1>4. /\ "organType" \in DOMAIN values /\ values["organType"] = Word(t)
      /\ ScopeOf[t] # "GLOBAL" => /\ "regionSubjectCode" \in DOMAIN values
                                  /\ values["regionSubjectCode"] = Digits(SubjectCodes[o.region])
      /\ ScopeOf[t] = "LOCAL" => "organNumber" \in DOMAIN values /\ values["organNumber"] = Digits(o.number)
  BY <1>1, <1>2 DEF BoundValuesFor
<1>. HIDE DEF values
<1>5. /\ input["organType"] = Word(t)
      /\ ScopeOf[t] # "GLOBAL" => input["regionSubjectCode"] = Digits(SubjectCodes[o.region])
      /\ ScopeOf[t] = "LOCAL" => input["organNumber"] = Digits(o.number)
  BY <1>4 DEF values
<1>6. PICK type \in Read("organType", input.organType) :
        p \in CASE ScopeOf[type] = "GLOBAL" -> {PartyOrganTriple(type, 0, 0)}
               [] ScopeOf[type] = "REGIONAL" -> {PartyOrganTriple(type, r, 0) : r \in Regions}
               [] OTHER -> {PartyOrganTriple(type, r, n) :
                              r \in Regions, n \in Read("organNumber", input.organNumber)}
  BY DEF ReadOrgan
<1>7. type = t
  <2>1. "organType" \in DOMAIN Options
    BY Keys
  <2>2. input.organType = Word(type)
    BY <1>6, <2>1, Readers
  <2>3. Word(type).word = type /\ Word(t).word = t
    BY DEF Word
  <2>. QED
    BY <1>5, <2>2, <2>3
<1>8. CASE ScopeOf[t] = "GLOBAL"
  <2>1. p = PartyOrganTriple(t, 0, 0)
    BY <1>6, <1>7, <1>8
  <2>. QED
    BY <1>3, <1>8, <2>1 DEF PartyOrganTriple
<1>9. ASSUME ScopeOf[t] # "GLOBAL" PROVE o.region = region /\ \A q \in Regions : q = region
  <2>1. o.region = region
    BY <1>3, <1>9 DEF PartyOrganTriple
  <2>2. ASSUME NEW c \in Read("regionSubjectCode", input.regionSubjectCode)
        PROVE  RegionBySubjectCode(c) = region
    <3>1. c \in Range(SubjectCodes) /\ input.regionSubjectCode = Digits(c)
      BY Readers
    <3>2. Digits(c).whole = c /\ Digits(SubjectCodes[region]).whole = SubjectCodes[region]
      BY DEF Digits, Decimal
    <3>3. c = SubjectCodes[region]
      BY <1>5, <1>9, <2>1, <3>1, <3>2
    <3>4. RegionBySubjectCode(c) \in Ordinals /\ SubjectCodes[RegionBySubjectCode(c)] = c
      BY <3>1, RegionOfCode
    <3>. QED
      BY <3>3, <3>4, IntentsAssumption DEF IsInjective, Ordinals
  <2>. QED
    BY <2>1, <2>2
<1>. HIDE DEF Regions
<1>10. CASE ScopeOf[t] = "REGIONAL"
  <2>1. p = PartyOrganTriple(t, region, 0)
    BY <1>6, <1>7, <1>9, <1>10
  <2>. QED
    BY <1>3, <1>10, <2>1 DEF PartyOrganTriple
<1>11. CASE ScopeOf[t] = "LOCAL"
  <2>1. PICK q \in Regions, n \in Read("organNumber", input.organNumber) : p = PartyOrganTriple(t, q, n)
    BY <1>6, <1>7, <1>11
  <2>2. n = o.number
    <3>1. "organNumber" \in DOMAIN Widths
      BY Keys
    <3>2. n \in ReadUint(input.organNumber, Widths["organNumber"])
      BY <3>1, Readers
    <3>3. n = input.organNumber.whole
      BY <3>2 DEF ReadUint
    <3>4. Digits(o.number).whole = o.number
      BY DEF Digits, Decimal
    <3>. QED
      BY <1>5, <1>11, <3>3, <3>4
  <2>. QED
    BY <1>3, <1>9, <1>11, <2>1, <2>2
<1>. QED
  BY <1>2, <1>8, <1>10, <1>11

(* A built intent's organ and arguments are read from its fields.             *)
LEMMA ReadFrom ==
  ASSUME NEW type, NEW input, NEW i \in BuildIntent(type, input)
  PROVE  /\ NamesOrgan(type) => i.organ \in ReadOrgan(input)
         /\ ~NamesOrgan(type) => i.organ = NoOrgan
         /\ \A k \in ArgumentKeys(type) : i.args[k] \in ReadArgument(k, input)
<1>. DEFINE organs == IF NamesOrgan(type) THEN ReadOrgan(input) ELSE {NoOrgan}
            keys == ArgumentKeys(type)
            read == [k \in keys |-> ReadArgument(k, input)]
            args == [k \in keys |-> CHOOSE v \in read[k] : TRUE]
<1>1. PICK o \in organs : i = [type |-> type, organ |-> o, args |-> args] /\ \A k \in keys : read[k] # {}
  BY DEF BuildIntent
<1>2. i.organ = o /\ i.args = args
  BY <1>1
<1>3. \A k \in keys : args[k] \in ReadArgument(k, input)
  BY <1>1
<1>. QED
  BY <1>2, <1>3

(* What is read of a text is what it says.                                    *)
SentAs(k, v) == CASE k = "support" -> SupportOf(v) [] k \in Addresses -> v.address [] OTHER -> v

LEMMA ReadSays ==
  ASSUME NEW k, k # "regionSubjectCode", NEW text, NEW v \in Read(k, text)
  PROVE  SentAs(k, v) = Says(k, text)
<1>1. CASE k \in DOMAIN Widths
  <2>1. v = text.whole
    BY <1>1, Readers DEF ReadUint
  <2>. QED
    BY <1>1, <2>1, Keys DEF SentAs, Says
<1>2. CASE k \in DOMAIN Options
  <2>1. text = Word(v)
    BY <1>2, Readers
  <2>2. text.word = v
    BY <2>1 DEF Word
  <2>. QED
    BY <1>2, <2>2, Keys DEF SentAs, Says, SupportOf
<1>3. CASE k \in Addresses
  <2>1. v = [address |-> text.word, respelled |-> text.respelled]
    BY <1>3, Readers
  <2>. QED
    BY <1>3, <2>1, Keys DEF SentAs, Says
<1>4. CASE k \notin DOMAIN Widths \cup DOMAIN Options \cup {"regionSubjectCode"} \cup Addresses
  <2>1. v = [text EXCEPT !.respelled = FALSE]
    BY <1>4, Readers
  <2>2. k # "support"
    BY <1>4, Keys
  <2>. QED
    BY <1>4, <2>1, <2>2 DEF SentAs, Says
<1>. QED
  BY <1>1, <1>2, <1>3, <1>4

(* What FormsMeanWhatTheySay asks of one call of a form.                      *)
FieldNamed(r, fn, k) ==
  CASE fn \in FIELD_PLAN[r.type].input -> fn
    [] k = "value" /\ FIELD_PLAN[r.type].input \cap {fn, k} = {} -> "category"
    [] OTHER -> k
ValueSays(r, value) ==
  /\ Len(r.file.fields["value"].fraction) <= r.scale
  /\ FormatFixedPoint(value, r.scale) =
       Decimal(r.file.fields["value"].whole, PadEnd(r.file.fields["value"].fraction, r.scale))
  /\ value <= MaxU64
ArgumentSays(r, field, v) ==
  /\ field = "votingId" => v = r.values["votingId"].whole
  /\ field = "value" => "value" \in FIELD_PLAN[r.type].input /\ ValueSays(r, v)
  /\ field \notin {"votingId", "value"} =>
       field \in FIELD_PLAN[r.type].input /\ v = Says(field, r.file.fields[field])
CallSays(r, call) ==
  /\ call.organ = r.printed
  /\ \A k \in DOMAIN call.args : ArgumentSays(r, FieldNamed(r, call.fn, k), call.args[k])

(* The property, call by call.                                                *)
LEMMA MeaningByCall ==
  ASSUME \A f \in Forms : Imported(f) => \A call \in Range(CallsForIntent(IntentOf(f))) : CallSays(forms[f], call)
  PROVE  FormsMeanWhatTheySay
<1>. SUFFICES ASSUME NEW f \in Forms, Imported(f), NEW call \in Range(CallsForIntent(IntentOf(f)))
              PROVE
    LET written == [k \in FIELD_PLAN[forms[f].type].input |-> forms[f].file.fields[k]]
        Field(c, k) ==
          CASE c.fn \in DOMAIN written -> c.fn
            [] k = "value" /\ DOMAIN written \cap {c.fn, k} = {} -> "category"
            [] OTHER -> k
    IN   /\ call.organ = forms[f].printed
         /\ \A k \in DOMAIN call.args :
              LET field == Field(call, k)
              IN CASE field = "votingId" -> call.args[k] = forms[f].values.votingId.whole
                   [] field = "value" ->
                        /\ Len(written.value.fraction) <= forms[f].scale
                        /\ FormatFixedPoint(call.args[k], forms[f].scale) =
                             Decimal(written.value.whole, PadEnd(written.value.fraction, forms[f].scale))
                        /\ call.args[k] <= MaxU64
                   [] OTHER -> call.args[k] = Says(field, written[field])
  BY DEF FormsMeanWhatTheySay
<1>. DEFINE r == forms[f]
            input == FIELD_PLAN[r.type].input
            written == [k \in input |-> r.file.fields[k]]
            Field(k) == FieldNamed(r, call.fn, k)
<1>1. CallSays(r, call)
  OBVIOUS
<1>. HIDE DEF r
<1>2. ASSUME NEW k \in DOMAIN call.args
      PROVE  CASE Field(k) = "votingId" -> call.args[k] = r.values.votingId.whole
               [] Field(k) = "value" ->
                    /\ Len(written.value.fraction) <= r.scale
                    /\ FormatFixedPoint(call.args[k], r.scale) =
                         Decimal(written.value.whole, PadEnd(written.value.fraction, r.scale))
                    /\ call.args[k] <= MaxU64
               [] OTHER -> call.args[k] = Says(Field(k), written[Field(k)])
  <2>1. ArgumentSays(r, Field(k), call.args[k])
    BY <1>1 DEF CallSays
  <2>. HIDE DEF Field
  <2>2. CASE Field(k) = "votingId"
    BY <2>1, <2>2 DEF ArgumentSays
  <2>3. CASE Field(k) = "value"
    BY <2>1, <2>3 DEF ArgumentSays, ValueSays
  <2>4. CASE Field(k) \notin {"votingId", "value"}
    BY <2>1, <2>4 DEF ArgumentSays
  <2>. QED
    BY <2>2, <2>3, <2>4
<1>. QED
  BY <1>1, <1>2, ZenonT(60) DEF CallSays, FieldNamed, r

(* Only a vote names a voting.                                                *)
LEMMA PlanOfVoting ==
  ASSUME NEW type \in OperationTypes, NamesVoting(type)
  PROVE  ~NamesOrgan(type) /\ type = "CAST_VOTE" /\ FIELD_PLAN[type].input = {"support"}
BY DEF OperationTypes, FIELD_PLAN, Plan, OnOrgan, OrganKeys, NamesVoting, NamesOrgan

(* What an imported form's record, file and intent are to one another.        *)
LEMMA Readings ==
  ASSUME NEW type \in OperationTypes, NEW r, r.type = type, CameBack(r), NEW o \in Organs \cup {NoOrgan},
         NEW v, BoundTo(r, o, v), NEW i \in BuildIntent(type, Input(r.file, r, r.scale))
  PROVE  /\ i.organ = o
         /\ \A k \in FIELD_PLAN[type].input : k # "value" =>
              SentAs(k, i.args[k]) = Says(k, r.file.fields[k])
         /\ NamesVoting(type) => i.args["votingId"] = r.values["votingId"].whole
         /\ "value" \in FIELD_PLAN[type].input => ValueSays(r, i.args["value"])
<1>. DEFINE input == Input(r.file, r, r.scale)
            plan == FIELD_PLAN[type]
<1>1. /\ NamesOrgan(type) => i.organ \in ReadOrgan(input)
      /\ ~NamesOrgan(type) => i.organ = NoOrgan
      /\ \A k \in ArgumentKeys(type) : i.args[k] \in ReadArgument(k, input)
  BY ReadFrom
<1>2. /\ \A k \in plan.input : input[k] = r.file.fields[k]
      /\ \A k \in plan.resolved : input[k] = Digits(r.scale)
      /\ \A k \in DOMAIN r.values : input[k] = r.values[k]
  BY InputFrom DEF CameBack, BoundTo
<1>3. r.values = BoundValuesFor(o, v) /\ (o # NoOrgan) = NamesOrgan(type)
  BY DEF BoundTo
<1>4. /\ plan.input \cap Kept = {} /\ plan.resolved \cap Kept = {} /\ plan.input \cap plan.resolved = {}
      /\ plan.bound \subseteq Kept /\ "value" \in plan.input <=> type = "CREATE_NUMERICAL_VALUE_VOTING"
      /\ "regionSubjectCode" \notin plan.input
  BY PlanApart
<1>. HIDE DEF input
<1>5. i.organ = o
  <2>1. CASE o = NoOrgan
    BY <1>1, <1>3, <2>1
  <2>2. CASE o \in Organs
    <3>1. NamesOrgan(type)
      BY <1>3, <2>2, IntentsAssumption
    <3>2. \A k \in DOMAIN BoundValuesFor(o, v) : input[k] = BoundValuesFor(o, v)[k]
      BY <1>2, <1>3
    <3>. QED
      BY <1>1, <2>2, <3>1, <3>2, OrganRead
  <2>. QED
    BY <2>1, <2>2
<1>6. ASSUME NEW k \in plan.input, k # "value"
      PROVE  SentAs(k, i.args[k]) = Says(k, r.file.fields[k])
  <2>1. k \in ArgumentKeys(type) /\ k # "regionSubjectCode"
    BY <1>4, <1>6 DEF ArgumentKeys, Kept
  <2>2. i.args[k] \in Read(k, input[k])
    BY <1>1, <1>6, <2>1 DEF ReadArgument
  <2>3. input[k] = r.file.fields[k]
    BY <1>2, <1>6
  <2>. QED
    BY <2>1, <2>2, <2>3, ReadSays
<1>7. ASSUME NamesVoting(type)
      PROVE  i.args["votingId"] = r.values["votingId"].whole
  <2>1. "votingId" \in ArgumentKeys(type)
    BY <1>7 DEF NamesVoting, ArgumentKeys, OrganKeys
  <2>2. i.args["votingId"] \in Read("votingId", input["votingId"])
    BY <1>1, <2>1 DEF ReadArgument
  <2>3. "votingId" \in DOMAIN r.values
    <3>1. o = NoOrgan /\ v # 0
      BY <1>3, <1>7, PlanOfVoting DEF BoundTo
    <3>. QED
      BY <1>3, <1>7, <3>1 DEF BoundValuesFor
  <2>4. "votingId" \in DOMAIN Widths
    BY Keys
  <2>5. i.args["votingId"] \in ReadUint(input["votingId"], Widths["votingId"])
    BY <2>2, <2>4, Readers
  <2>. QED
    BY <1>2, <2>3, <2>5 DEF ReadUint
<1>8. ASSUME "value" \in plan.input
      PROVE  ValueSays(r, i.args["value"])
  <2>. DEFINE text == r.file.fields["value"]
  <2>1. type = "CREATE_NUMERICAL_VALUE_VOTING" /\ text \in Texts /\ r.scale \in Nat
    <3>0. type = "CREATE_NUMERICAL_VALUE_VOTING"
      BY <1>8, PlanApart
    <3>1. type = "CREATE_NUMERICAL_VALUE_VOTING" /\ text \in Texts
      BY <1>8, <3>0 DEF CameBack
    <3>2. FIELD_PLAN[type].resolved = {"decimals"} /\ r.scale \in ScalesFor(type)
      BY <3>1, ArgumentsOf DEF CameBack
    <3>3. r.scale \in Scales
      BY <3>2 DEF ScalesFor
    <3>. QED
      BY <3>1, <3>3, TextsAssumption
  <2>2. /\ "value" \in ArgumentKeys(type) /\ input["value"] = text
        /\ input["decimals"] = Digits(r.scale)
    BY <1>2, <1>8, <2>1, ArgumentsOf
  <2>3. PICK d \in Read("decimals", input["decimals"]) : i.args["value"] \in ParseFixedPoint(input["value"], d)
    BY <1>1, <2>2 DEF ReadArgument
  <2>4. d = r.scale
    <3>1. "decimals" \in DOMAIN Widths
      BY Keys
    <3>2. d \in ReadUint(Digits(r.scale), Widths["decimals"])
      BY <2>2, <2>3, <3>1, Readers
    <3>3. Digits(r.scale).whole = r.scale
      BY DEF Digits, Decimal
    <3>. QED
      BY <3>2, <3>3 DEF ReadUint
  <2>5. i.args["value"] \in ParseFixedPoint(text, r.scale)
    BY <2>2, <2>3, <2>4
  <2>. HIDE DEF text
  <2>6. /\ ~(Len(text.fraction) > r.scale)
        /\ i.args["value"] = Scaled(text, r.scale) /\ i.args["value"] \in 0..MaxU64
    BY <2>5 DEF ParseFixedPoint
  <2>7. Len(text.fraction) <= r.scale
    <3>1. Len(text.fraction) \in Nat
      BY <2>1 DEF Texts
    <3>. QED
      BY <2>1, <2>6, <3>1
  <2>8. FormatFixedPoint(i.args["value"], r.scale) = Decimal(text.whole, PadEnd(text.fraction, r.scale))
    BY <2>1, <2>6, WrittenBack
  <2>9. i.args["value"] <= MaxU64
    BY <2>6
  <2>. QED
    BY <2>7, <2>8, <2>9 DEF ValueSays, text
<1>. QED
  BY <1>5, <1>6, <1>7, <1>8

(* Every call of an imported form says what its fields say.                   *)
LEMMA CallsSay ==
  ASSUME NEW type \in OperationTypes, NEW r, r.type = type, CameBack(r), NEW o \in Organs \cup {NoOrgan},
         NEW v, BoundTo(r, o, v), NEW i \in BuildIntent(type, Input(r.file, r, r.scale)),
         NEW call \in Range(CallsForIntent(i))
  PROVE  CallSays(r, call)
<1>. DEFINE plan == FIELD_PLAN[type]
<1>1. /\ i.organ = o
      /\ \A k \in plan.input : k # "value" => SentAs(k, i.args[k]) = Says(k, r.file.fields[k])
      /\ NamesVoting(type) => i.args["votingId"] = r.values["votingId"].whole
      /\ "value" \in plan.input => ValueSays(r, i.args["value"])
  BY Readings
<1>2. i.type = type /\ DOMAIN i.args = ArgumentKeys(type)
  BY BuildsIntents, IntentDomain
<1>3. OrganOf(i) = r.printed
  BY <1>1 DEF OrganOf, BoundTo
<1>4. /\ plan.input \cap Kept = {} /\ plan.bound \subseteq Kept
      /\ "value" \in plan.input <=> type = "CREATE_NUMERICAL_VALUE_VOTING"
      /\ type \notin plan.input
  BY PlanApart
<1>5. CASE type = Setting
  <2>1. plan.input = Setters
    BY <1>5 DEF Setting, FIELD_PLAN, Plan, Setters
  <2>2. CallsForIntent(i) = ThresholdCalls(i)
    BY <1>2, <1>5 DEF CallsForIntent, Setting
  <2>3. PICK k \in Setters : call = SetterCall(i, k)
    <3>. DEFINE q == SetterCall(i, "quorum")
                a == SetterCall(i, "approvalPercentage")
                b == SetterCall(i, "approvalPercentageBase")
    <3>1. ThresholdCalls(i) = IF i.args.approvalPercentageBase = 0 THEN <<b, q, a>> ELSE <<q, a, b>>
      BY ThresholdCallsAre
    <3>. HIDE DEF q, a, b
    <3>2. Range(ThresholdCalls(i)) \subseteq {q, a, b}
      BY <3>1 DEF Range
    <3>. QED
      BY <2>2, <3>2 DEF q, a, b, Setters
  <2>4. call.fn = k /\ call.organ = OrganOf(i) /\ call.args = [value |-> i.args[k]]
    BY <2>3, CallIs DEF SetterCall
  <2>5. FieldNamed(r, call.fn, "value") = k
    BY <2>1, <2>4 DEF FieldNamed
  <2>6. k # "value" /\ k # "votingId" /\ k # "support" /\ k \notin Addresses
    BY Keys DEF Setters
  <2>7. i.args[k] = Says(k, r.file.fields[k])
    BY <1>1, <2>1, <2>6 DEF SentAs
  <2>8. ArgumentSays(r, k, i.args[k])
    BY <2>1, <2>6, <2>7 DEF ArgumentSays
  <2>9. \A x \in DOMAIN call.args : x = "value" /\ call.args[x] = i.args[k]
    BY <2>4
  <2>. QED
    BY <1>3, <2>4, <2>5, <2>8, <2>9 DEF CallSays
<1>6. CASE type # Setting
  <2>1. CallsForIntent(i) = <<Call(type, i, [k \in NamesSent(i) |-> ArgumentOf(i, k)])>>
    BY <1>2, <1>6 DEF CallsForIntent, NamesSent, ArgumentOf, Setting
  <2>. DEFINE args == [k \in NamesSent(i) |-> ArgumentOf(i, k)]
  <2>2. call = Call(type, i, args)
    <3>. HIDE DEF args
    <3>. QED
      BY <2>1 DEF Range, args
  <2>3. call.fn = type /\ call.organ = OrganOf(i) /\ call.args = args
    BY <2>2, CallIs
  <2>4. ASSUME NEW k \in NamesSent(i) PROVE ArgumentSays(r, FieldNamed(r, type, k), ArgumentOf(i, k))
    <3>1. ASSUME k \in plan.input, k # "value"
          PROVE  FieldNamed(r, type, k) = k /\ ArgumentOf(i, k) = SentAs(k, i.args[k]) /\ ArgumentSays(r, k, ArgumentOf(i, k))
      <4>1. FieldNamed(r, type, k) = k
        BY <1>4, <3>1 DEF FieldNamed
      <4>2. ArgumentOf(i, k) = SentAs(k, i.args[k])
        BY <3>1, Keys DEF ArgumentOf, SentAs
      <4>3. k # "votingId"
        BY <1>4, <3>1 DEF Kept
      <4>. QED
        BY <1>1, <3>1, <4>1, <4>2, <4>3 DEF ArgumentSays
    <3>2. CASE type = "CREATE_CATEGORICAL_VALUE_VOTING"
      <4>1. NamesSent(i) = {"duration", "x", "y", "valueAuthor", "value"}
        BY <1>2, <3>2, ArgumentsOf DEF NamesSent
      <4>2. {"duration", "x", "y", "valueAuthor", "category"} \subseteq plan.input /\ "value" \notin plan.input
        BY <3>2 DEF FIELD_PLAN, Plan, OnOrgan
      <4>3. CASE k = "value"
        <5>1. FieldNamed(r, type, k) = "category" /\ "category" \in plan.input
          BY <1>4, <4>2, <4>3 DEF FieldNamed
        <5>2. ArgumentOf(i, k) = i.args["category"]
          BY <1>2, <3>2, <4>3, Keys DEF ArgumentOf
        <5>3. i.args["category"] = Says("category", r.file.fields["category"])
          BY <1>1, <5>1, Keys DEF SentAs
        <5>. QED
          BY <5>1, <5>2, <5>3 DEF ArgumentSays
      <4>4. CASE k # "value"
        BY <3>1, <4>1, <4>2, <4>4
      <4>. QED
        BY <4>3, <4>4
    <3>3. CASE type = "CREATE_NUMERICAL_VALUE_VOTING"
      <4>1. NamesSent(i) = {"x", "y", "value", "valueAuthor", "duration"}
        BY <1>2, <3>3, ArgumentsOf DEF NamesSent
      <4>2. {"x", "y", "value", "valueAuthor", "duration"} \subseteq plan.input
        BY <3>3 DEF FIELD_PLAN, Plan
      <4>3. CASE k = "value"
        <5>1. FieldNamed(r, type, k) = "value"
          BY <1>4, <4>2, <4>3 DEF FieldNamed
        <5>2. ArgumentOf(i, k) = i.args["value"]
          BY <1>2, <3>3, <4>3, Keys DEF ArgumentOf
        <5>. QED
          BY <1>1, <4>2, <5>1, <5>2 DEF ArgumentSays
      <4>4. CASE k # "value"
        BY <3>1, <4>1, <4>2, <4>4
      <4>. QED
        BY <4>3, <4>4
    <3>4. CASE type \notin {"CREATE_CATEGORICAL_VALUE_VOTING", "CREATE_NUMERICAL_VALUE_VOTING"}
      <4>1. k \in ArgumentKeys(type) /\ plan.resolved = {}
        BY <1>2, <3>4, ArgumentsOf DEF NamesSent
      <4>2. k \in plan.input \/ (k = "votingId" /\ NamesVoting(type))
        BY <1>4, <4>1 DEF ArgumentKeys, Kept, NamesVoting
      <4>3. CASE k \in plan.input
        BY <1>4, <3>1, <3>4, <4>3
      <4>4. CASE k = "votingId" /\ NamesVoting(type)
        <5>1. FieldNamed(r, type, k) = "votingId"
          BY <1>4, <4>4 DEF FieldNamed
        <5>2. ArgumentOf(i, k) = i.args["votingId"]
          BY <4>4, Keys DEF ArgumentOf
        <5>. QED
          BY <1>1, <4>4, <5>1, <5>2 DEF ArgumentSays
      <4>. QED
        BY <4>2, <4>3, <4>4
    <3>. QED
      BY <3>2, <3>3, <3>4
  <2>. QED
    BY <1>3, <2>3, <2>4 DEF CallSays
<1>. QED
  BY <1>5, <1>6

(* The calls of a form say what its member wrote and what was printed on it    *)
(* (buildIntent.ts, intentCalls.ts, fixedPoint.ts, regions.ts).               *)
THEOREM FormsMean == Spec => []FormsMeanWhatTheySay
<1>1. MeaningInv => FormsMeanWhatTheySay
  <2>. SUFFICES ASSUME MeaningInv, NEW f \in Forms, Imported(f), NEW call \in Range(CallsForIntent(IntentOf(f)))
                PROVE  CallSays(forms[f], call)
    BY MeaningByCall
  <2>1. /\ forms[f].type \in OperationTypes
        /\ IntentOf(f) \in BuildIntent(forms[f].type, Input(forms[f].file, forms[f], forms[f].scale))
    BY ImportedIntents DEF MeaningInv
  <2>2. CameBack(forms[f])
    BY DEF MeaningInv, Returned
  <2>3. PICK o \in Organs \cup {NoOrgan}, v \in VotingIds \cup {0} : BoundTo(forms[f], o, v)
    BY DEF MeaningInv, Bound, Imported
  <2>. QED
    BY <2>1, <2>2, <2>3, CallsSay
<1>2. SettingsInv => Shapes
  BY DEF SettingsInv
<1>. QED
  BY <1>1, <1>2, MeaningStart, MeaningStep, SettingsInvHolds, PTL DEF Spec
=============================================================================
