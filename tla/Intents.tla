------------------------------- MODULE Intents -------------------------------
(* From a form to the chain: what a template's record keeps, how a returned   *)
(* file is assembled with it, which intent the fields build, which calls carry *)
(* the intent out, which identity it is remembered by, which fields the member *)
(* is shown, and what the three threshold calls do to the votings created      *)
(* between them.                                                              *)
(*                                                                            *)
(* What a human writes in a field is a text: a decimal number, or a word. A    *)
(* text may be spelled in a second way (leading zeros, the case of an          *)
(* address, decomposed letters). A reader answers the set of values it read:   *)
(* one, or none when it refuses.                                              *)
EXTENDS Integers, Sequences, FiniteSets, Functions, SequencesExt

CONSTANTS
  Forms,         \* operations templates are issued for
  NoOrgan,
  Organs,        \* organs a template may name
  VotingIds,     \* votings a template may name
  SubjectCodes,  \* the subject code of each region's ordinal
  Good,          \* for each field, texts that are well formed for it
  Bad,           \* texts no field of a number, an address or a choice accepts
  Scales,        \* decimals a cell may have
  MaxU8, MaxU64, MaxSafe, MaxU256,  \* widths, small enough to be reached
  SimpleMajority

VARIABLES
  forms,     \* each operation: its stage, its record, the file it came back as
  queue,     \* calls sent and not yet mined
  settings,  \* the thresholds stored for each organ
  overlaid,  \* organs a configuration is being written over a live one of
  answer     \* what the last import answered: refusals, the intent refused

vars == <<forms, queue, settings, overlaid, answer>>

Ordinals == DOMAIN SubjectCodes

-----------------------------------------------------------------------------
(* Organs and regions. *)

ScopeOf == [LocalSoviet |-> "LOCAL", LocalGeneralAssembly |-> "LOCAL",
            RegionalSoviet |-> "REGIONAL", RegionalConference |-> "REGIONAL",
            RegionalGeneralAssembly |-> "REGIONAL",
            Chairperson |-> "GLOBAL", CentralSoviet |-> "GLOBAL", Congress |-> "GLOBAL"]

Postfix == [LocalSoviet |-> "soviet", LocalGeneralAssembly |-> "generalAssembly",
            RegionalSoviet |-> "soviet", RegionalConference |-> "conference",
            RegionalGeneralAssembly |-> "generalAssembly",
            Chairperson |-> "chairperson", CentralSoviet |-> "soviet", Congress |-> "congress"]

PartyOrganTriple(type, region, number) ==
  [organType |-> type,
   region |-> IF ScopeOf[type] = "GLOBAL" THEN 0 ELSE region,
   number |-> IF ScopeOf[type] = "LOCAL" THEN number ELSE 0]

(* The fields an organ's scope ignores are zero: the client makes no others.   *)
IsNormal(organ) ==
  \E type \in DOMAIN ScopeOf, region \in Ordinals :
    organ = PartyOrganTriple(type, region, organ.number)

(* Ordinals start at zero and two never share a subject code; a voting number  *)
(* is positive.                                                               *)
ASSUME IntentsAssumption ==
  /\ IsInjective(SubjectCodes) /\ 0 \in Ordinals
  /\ VotingIds \subseteq Nat \ {0} /\ MaxU64 \in Nat
  /\ NoOrgan \notin Organs /\ \A o \in Organs : IsNormal(o)

RegionBySubjectCode(code) == Inverse(SubjectCodes, Ordinals, Range(SubjectCodes))[code]

(* The parts of an organ its scope uses, as documents and identifiers show it. *)
OrganParts(organ) ==
  (IF ScopeOf[organ.organType] = "GLOBAL" THEN <<>> ELSE <<SubjectCodes[organ.region]>>)
  \o (IF ScopeOf[organ.organType] = "LOCAL" THEN <<organ.number>> ELSE <<>>)

PartyOrganIdentifier(organ) == Append(OrganParts(organ), Postfix[organ.organType])

-----------------------------------------------------------------------------
(* Texts and their readers. *)

Decimal(whole, fraction) ==
  [word |-> "digits", whole |-> whole, fraction |-> fraction, respelled |-> FALSE]
Digits(n) == Decimal(n, <<>>)
Word(w) == [word |-> w, whole |-> 0, fraction |-> <<>>, respelled |-> FALSE]

Options == [organType |-> DOMAIN ScopeOf, matrix |-> {"CATEGORICAL", "NUMERICAL"},
            support |-> {"FOR", "AGAINST"}]
Widths == [organNumber |-> MaxSafe, duration |-> MaxSafe, x |-> MaxU256, y |-> MaxU256,
           category |-> MaxU64, votingId |-> MaxU64, decimals |-> MaxU8, quorum |-> MaxU256,
           approvalPercentage |-> MaxU256, approvalPercentageBase |-> MaxU256]
Addresses == {"member", "valueAuthor", "newChairman"}

ReadUint(text, max) ==
  {n \in {text.whole} : text.word = "digits" /\ text.fraction = <<>> /\ n <= max}

(* A choice is compared exactly; an address keeps its spelling; a free text    *)
(* loses it.                                                                  *)
Read(key, text) ==
  CASE key \in DOMAIN Widths -> ReadUint(text, Widths[key])
    [] key \in DOMAIN Options -> {w \in Options[key] : text = Word(w)}
    [] key = "regionSubjectCode" -> {c \in Range(SubjectCodes) : text = Digits(c)}
    [] key \in Addresses ->
         {a \in {[address |-> text.word, respelled |-> text.respelled]} : text.word \in {"0xa", "0xb"}}
    [] OTHER -> {t \in {[text EXCEPT !.respelled = FALSE]} : text.word \notin {"blank", "control"}}

PadEnd(digits, n) == [i \in 1..n |-> IF i <= Len(digits) THEN digits[i] ELSE 0]

(* The number whose digits are the whole part's and the padded fraction's.     *)
Scaled(text, decimals) ==
  LET digits == PadEnd(text.fraction, decimals)
      read[i \in 0..decimals] == IF i = 0 THEN text.whole ELSE 10 * read[i - 1] + digits[i]
  IN read[decimals]

(* Mutant of the next: the digits the scale cannot hold are cut off.          *)
ParseTruncated(text, decimals) ==
  IF text.word # "digits" THEN {} ELSE {Scaled(text, decimals)} \cap 0..MaxU64

(* More digits than the scale holds are refused, not rounded.                 *)
ParseFixedPoint(text, decimals) ==
  IF text.word # "digits" \/ Len(text.fraction) > decimals THEN {}
  ELSE {Scaled(text, decimals)} \cap 0..MaxU64

(* The last digits of a value are its fraction; cut[i] is without i of them.   *)
FormatFixedPoint(value, decimals) ==
  LET cut[i \in 0..decimals] == IF i = 0 THEN value ELSE cut[i - 1] \div 10
  IN Decimal(cut[decimals], [i \in 1..decimals |-> cut[decimals - i] % 10])

-----------------------------------------------------------------------------
(* The schema of the forms. *)

OrganKeys == {"organType", "regionSubjectCode", "organNumber"}

Plan(input, bound, resolved) == [input |-> input, bound |-> bound, resolved |-> resolved]
OnOrgan(input) == Plan(input \cup {"duration"}, OrganKeys, {})

FIELD_PLAN ==
  [CREATE_MEMBERSHIP_VOTING |-> OnOrgan({"member"}),
   CREATE_MEMBERSHIP_REVOCATION_VOTING |-> OnOrgan({"member"}),
   CREATE_CATEGORY_VOTING |-> OnOrgan({"x", "y", "category", "categoryName"}),
   CREATE_DECIMALS_VOTING |-> OnOrgan({"x", "y", "decimals"}),
   CREATE_THEME_VOTING |-> Plan({"matrix", "x", "theme", "duration"}, {}, {}),
   CREATE_STATEMENT_VOTING |-> Plan({"matrix", "x", "y", "statement", "duration"}, {}, {}),
   CREATE_CATEGORICAL_VALUE_VOTING |-> OnOrgan({"x", "y", "category", "valueAuthor"}),
   CREATE_NUMERICAL_VALUE_VOTING |->
     Plan({"x", "y", "value", "valueAuthor", "duration"}, OrganKeys, {"decimals"}),
   CAST_VOTE |-> Plan({"support"}, {"votingId"}, {}),
   CONFIGURE_ORGAN_THRESHOLDS |->
     Plan({"quorum", "approvalPercentage", "approvalPercentageBase"}, OrganKeys, {}),
   TRANSFER_CHAIRMANSHIP |-> Plan({"newChairman"}, {}, {})]

OperationTypes == DOMAIN FIELD_PLAN
NamesOrgan(type) == OrganKeys \subseteq FIELD_PLAN[type].bound
NamesVoting(type) == "votingId" \in FIELD_PLAN[type].bound
ArgumentKeys(type) ==
  (FIELD_PLAN[type].input \cup FIELD_PLAN[type].bound \cup FIELD_PLAN[type].resolved) \ OrganKeys

Retired == {"context", "receipt"}

(* Every field can be filled in, and what a human writes is a text.           *)
Texts == [word : STRING, whole : Nat, fraction : Seq(0..9), respelled : BOOLEAN]
ASSUME TextsAssumption ==
  /\ \A type \in OperationTypes : \A k \in FIELD_PLAN[type].input : Good[k] # {} /\ Good[k] \subseteq Texts
  /\ Bad \subseteq Texts
  /\ Scales \subseteq Nat

-----------------------------------------------------------------------------
(* Issuing, and assembling a returned file with its record. *)

(* Only the keys the organ's scope uses.                                      *)
BoundValuesFor(organ, voting) ==
  IF organ = NoOrgan THEN [k \in {"votingId"} \ (IF voting = 0 THEN {"votingId"} ELSE {}) |-> Digits(voting)]
  ELSE LET scope == ScopeOf[organ.organType]
           keys == {"organType"} \cup (IF scope = "GLOBAL" THEN {} ELSE {"regionSubjectCode"})
                   \cup (IF scope = "LOCAL" THEN {"organNumber"} ELSE {})
       IN [k \in keys |->
             CASE k = "organType" -> Word(organ.organType)
               [] k = "regionSubjectCode" -> Digits(SubjectCodes[organ.region])
               [] k = "organNumber" -> Digits(organ.number)]

ReadFormReference(file) ==
  CASE file.version = "none" -> {"MISSING_SCHEMA_VERSION"}
    [] file.version = "other" -> {"UNKNOWN_SCHEMA_VERSION"}
    [] OTHER -> {}

(* The refusals of a file, given the record it names.                         *)
AssembleFormInput(file, issued) ==
  LET plan == FIELD_PLAN[issued.type]
      present == DOMAIN file.fields
      Code(code, found) == IF found THEN {code} ELSE {}
  IN IF ReadFormReference(file) # {} THEN ReadFormReference(file)
     ELSE Code("OPERATION_TYPE_MISMATCH", file.type # issued.type)
          \cup Code("RETIRED_FIELD", present \cap Retired # {})
          \cup Code("UNKNOWN_FIELD", present \ (plan.input \cup Retired) # {})
          \cup Code("MISSING_INPUT_FIELD", plan.input \ present # {})
          \cup Code("MISSING_BOUND_VALUE", plan.bound \ DOMAIN issued.values # {})

(* The record's values are written over the file's, the chain's last.         *)
Input(file, issued, scale) ==
  LET resolved == [k \in FIELD_PLAN[issued.type].resolved |-> Digits(scale)]
      read == Restrict(file.fields, FIELD_PLAN[issued.type].input)
  IN [k \in DOMAIN read \cup DOMAIN issued.values \cup DOMAIN resolved |->
        IF k \in DOMAIN resolved THEN resolved[k]
        ELSE IF k \in DOMAIN issued.values THEN issued.values[k] ELSE read[k]]

-----------------------------------------------------------------------------
(* Intents. *)

ReadOrgan(input) ==
  LET Regions == {RegionBySubjectCode(c) : c \in Read("regionSubjectCode", input.regionSubjectCode)}
      Of(type) ==
        CASE ScopeOf[type] = "GLOBAL" -> {PartyOrganTriple(type, 0, 0)}
          [] ScopeOf[type] = "REGIONAL" -> {PartyOrganTriple(type, r, 0) : r \in Regions}
          [] OTHER -> {PartyOrganTriple(type, r, n) :
                         r \in Regions, n \in Read("organNumber", input.organNumber)}
  IN UNION {Of(type) : type \in Read("organType", input.organType)}

ReadArgument(key, input) ==
  IF key = "value"
  THEN UNION {ParseFixedPoint(input.value, d) : d \in Read("decimals", input.decimals)}
  ELSE Read(key, input[key])

(* The rules across fields: a zero base comes alone, an approval can be met,   *)
(* there is no voting 0.                                                      *)
Sensible(type, args) ==
  CASE type = "CONFIGURE_ORGAN_THRESHOLDS" ->
         IF args.approvalPercentageBase = 0
         THEN args.quorum = 0 /\ args.approvalPercentage = 0
         ELSE args.approvalPercentage < args.approvalPercentageBase
    [] type = "CAST_VOTE" -> args.votingId # 0
    [] OTHER -> TRUE

BuildIntent(type, input) ==
  LET keys == ArgumentKeys(type)
      organs == IF NamesOrgan(type) THEN ReadOrgan(input) ELSE {NoOrgan}
      read == [k \in keys |-> ReadArgument(k, input)]
  IN {intent \in {[type |-> type, organ |-> o, args |-> [k \in keys |-> CHOOSE v \in read[k] : TRUE]] :
                    o \in {o \in organs : \A k \in keys : read[k] # {}}} :
        Sensible(type, intent.args)}

OrganOf(intent) == IF intent.organ = NoOrgan THEN <<>> ELSE PartyOrganIdentifier(intent.organ)
SupportOf(direction) == direction = "FOR"
Call(fn, intent, args) == [fn |-> fn, organ |-> OrganOf(intent), args |-> args]

(* Mutant of the next: the base always goes first.                            *)
ThresholdCallsBaseFirst(intent) ==
  LET Set(k) == Call(k, intent, [value |-> intent.args[k]])
  IN <<Set("approvalPercentageBase"), Set("quorum"), Set("approvalPercentage")>>

(* The setters of the thresholds: the base, which enables the other two, goes  *)
(* first when it disables them and last otherwise.                            *)
ThresholdCalls(intent) ==
  LET Set(k) == Call(k, intent, [value |-> intent.args[k]])
      base == Set("approvalPercentageBase")
      others == <<Set("quorum"), Set("approvalPercentage")>>
  IN IF intent.args.approvalPercentageBase = 0 THEN <<base>> \o others ELSE Append(others, base)

(* A category proposed as a value is the call's value; the scale of a value is *)
(* not sent; a direction is sent as a Boolean, an address without its case.    *)
CallsForIntent(intent) ==
  LET args == intent.args
      Argument(k) ==
        CASE k = "value" /\ intent.type = "CREATE_CATEGORICAL_VALUE_VOTING" -> args.category
          [] k = "support" -> SupportOf(args.support)
          [] k \in Addresses -> args[k].address
          [] OTHER -> args[k]
      names ==
        CASE intent.type = "CREATE_CATEGORICAL_VALUE_VOTING" ->
               (DOMAIN args \ {"category"}) \cup {"value"}
          [] intent.type = "CREATE_NUMERICAL_VALUE_VOTING" -> DOMAIN args \ {"decimals"}
          [] OTHER -> DOMAIN args
  IN IF intent.type = "CONFIGURE_ORGAN_THRESHOLDS" THEN ThresholdCalls(intent)
     ELSE <<Call(intent.type, intent, [k \in names |-> Argument(k)])>>

(* Mutant of the next: an address keeps the case it was written in.           *)
IdentityAsSpelled(intent) ==
  [type |-> intent.type,
   organ |-> IF intent.organ = NoOrgan THEN <<>>
             ELSE Append(OrganParts(intent.organ), intent.organ.organType),
   args |-> Restrict(intent.args, DOMAIN intent.args \ {"duration", "support"})]

(* What a second form is recognised by: not the duration, not a direction.    *)
CanonicalIdentity(intent) ==
  [type |-> intent.type,
   organ |-> IF intent.organ = NoOrgan THEN <<>>
             ELSE Append(OrganParts(intent.organ), intent.organ.organType),
   args |-> [k \in DOMAIN intent.args \ {"duration", "support"} |->
               IF k \in Addresses THEN intent.args[k].address ELSE intent.args[k]]]

(* What the member is shown before sending.                                   *)
DescribeIntent(intent) ==
  [type |-> intent.type, fields |-> intent.args,
   organ |-> IF intent.organ = NoOrgan THEN <<>>
             ELSE Append(OrganParts(intent.organ), intent.organ.organType)]

-----------------------------------------------------------------------------
(* The life of the forms. *)

Unissued == [stage |-> "unissued", type |-> "none", values |-> <<>>, printed |-> <<>>,
             file |-> <<>>, scale |-> 0, intent |-> {}]
NoAnswer == [codes |-> {}, intent |-> {}]

(* The intent a form was imported with, which its row's identity is of.       *)
IntentOf(f) == CHOOSE intent \in forms[f].intent : TRUE
Imported(f) == forms[f].stage \in {"imported", "sent", "partlySent"}

(* The files a template may come back as: filled in well, or with one field    *)
(* filled in badly, missing or added, or with its version or type edited.      *)
Files(type) ==
  LET input == FIELD_PLAN[type].input
      Sound(fields) == [version |-> "current", type |-> type, fields |-> fields]
      filled == {fields \in [input -> UNION {Good[k] : k \in input}] :
                   \A k \in input : fields[k] \in Good[k]}
      some == CHOOSE fields \in filled : TRUE
      added == {"decimals", "organType", "stranger"} \cup Retired
  IN {Sound(fields) : fields \in filled}
     \cup {Sound([some EXCEPT ![k] = t]) : k \in input, t \in Bad}
     \cup {Sound(Restrict(some, input \ {k})) : k \in input}
     \cup {Sound([k \in input \cup {a} |-> IF k \in input THEN some[k] ELSE Digits(1)]) :
             a \in added \ input}
     \cup {[Sound(some) EXCEPT !.version = v] : v \in {"none", "other"}}
     \cup {[Sound(some) EXCEPT !.type = "another"]}
ScalesFor(type) == IF FIELD_PLAN[type].resolved = {} THEN {0} ELSE Scales
ReturnedFiles == [type \in OperationTypes |-> Files(type)]

Init ==
  /\ forms = [f \in Forms |-> Unissued]
  /\ queue = <<>>
  /\ settings = [o \in Organs |-> [quorum |-> 0, approvalPercentage |-> 0, approvalPercentageBase |-> 0]]
  /\ overlaid = {}
  /\ answer = NoAnswer

(* A template is issued; its record keeps what its member may not supply.     *)
IssueOperationTemplate(f, type, organ, voting) ==
  /\ forms[f].stage = "unissued"
  /\ (organ # NoOrgan) = NamesOrgan(type)
  /\ (voting # 0) = NamesVoting(type)
  /\ forms' = [forms EXCEPT ![f] =
       [Unissued EXCEPT !.stage = "issued", !.type = type,
                        !.values = BoundValuesFor(organ, voting),
                        !.printed = IF organ = NoOrgan THEN <<>> ELSE PartyOrganIdentifier(organ)]]
  /\ answer' = NoAnswer
  /\ UNCHANGED <<queue, settings, overlaid>>

Refuse(codes, intents) ==
  /\ answer' = [codes |-> codes, intent |-> intents]
  /\ UNCHANGED <<forms, queue, settings, overlaid>>

(* A file comes back: refused whole, refused because another form already asks *)
(* for the same, or imported.                                                 *)
ImportReturnedForm(f, file, scale) ==
  /\ forms[f].stage = "issued"
  /\ LET codes == AssembleFormInput(file, forms[f])
         intents == BuildIntent(forms[f].type, Input(file, forms[f], scale))
         twins == {g \in Forms \ {f} : Imported(g) /\
                     \E intent \in intents : CanonicalIdentity(intent) = CanonicalIdentity(IntentOf(g))}
     IN \/ codes # {} /\ Refuse(codes, {})
        \/ codes = {} /\ intents = {} /\ Refuse({"INVALID_INTENT"}, {})
        \/ codes = {} /\ twins # {} /\ Refuse({"DUPLICATE_OPERATION"}, intents)
        \/ /\ codes = {} /\ intents # {} /\ twins = {}
           /\ forms' = [forms EXCEPT ![f].stage = "imported", ![f].file = file,
                                       ![f].scale = scale, ![f].intent = intents]
           /\ answer' = NoAnswer
           /\ UNCHANGED <<queue, settings, overlaid>>

(* The member sends, again perhaps: the intent is built once more, with the    *)
(* cell's scale of now, and every call of it is sent, or only the first ones.  *)
(* Nothing is sent while a transaction is unresolved.                         *)
Submit(f, scale) ==
  /\ Imported(f) /\ queue = <<>>
  /\ \E intent \in BuildIntent(forms[f].type, Input(forms[f].file, forms[f], scale)) :
       LET calls == CallsForIntent(intent)
       IN \E n \in 1..Len(calls) :
            /\ queue' = SubSeq(calls, 1, n)
            /\ forms' = [forms EXCEPT ![f].stage = IF n = Len(calls) THEN "sent" ELSE "partlySent"]
            /\ overlaid' = overlaid \cup
                 {o \in Organs : /\ intent.type = "CONFIGURE_ORGAN_THRESHOLDS" /\ intent.organ = o
                                 /\ intent.args.approvalPercentageBase # 0
                                 /\ settings[o].approvalPercentageBase # 0}
  /\ answer' = NoAnswer
  /\ UNCHANGED settings

Setters == {"quorum", "approvalPercentage", "approvalPercentageBase"}

(* The first call is mined. A base that is written makes the organ's settings  *)
(* whole again. What another call does, or that it reverts, leaves them alone. *)
Mine ==
  /\ queue # <<>>
  /\ queue' = Tail(queue)
  /\ LET call == Head(queue)
         on == {o \in Organs : PartyOrganIdentifier(o) = call.organ}
     IN IF call.fn \in Setters
        THEN /\ settings' = [o \in Organs |->
                  IF o \in on THEN [settings[o] EXCEPT ![call.fn] = call.args.value] ELSE settings[o]]
             /\ overlaid' = IF call.fn = "approvalPercentageBase" THEN overlaid \ on ELSE overlaid
        ELSE UNCHANGED <<settings, overlaid>>
  /\ answer' = NoAnswer
  /\ UNCHANGED forms

(* A setter is mined after its sender handed the chairmanship on: it reverts,  *)
(* and so do the setters after it.                                            *)
Reverts ==
  /\ queue # <<>> /\ Head(queue).fn \in Setters
  /\ queue' = <<>>
  /\ answer' = NoAnswer
  /\ UNCHANGED <<forms, settings, overlaid>>

(* Every form sent whole and mined: the model stops.                          *)
Next ==
  \/ \E f \in Forms, type \in OperationTypes, o \in Organs \cup {NoOrgan}, v \in VotingIds \cup {0} :
       IssueOperationTemplate(f, type, o, v)
  \/ \E f \in Forms : forms[f].stage = "issued" /\
       \E file \in ReturnedFiles[forms[f].type], scale \in ScalesFor(forms[f].type) :
          ImportReturnedForm(f, file, scale)
  \/ \E f \in Forms : Imported(f) /\ \E scale \in ScalesFor(forms[f].type) : Submit(f, scale)
  \/ Mine
  \/ Reverts

Spec == Init /\ [][Next]_vars

-----------------------------------------------------------------------------
(* Properties. *)

(* What a text says, independently of the readers.                            *)
Says(key, text) ==
  CASE key = "support" -> text.word = "FOR"
    [] key \in Addresses -> text.word
    [] key \in DOMAIN Options \ {"support"} -> text.word
    [] key \in DOMAIN Widths -> text.whole
    [] OTHER -> [text EXCEPT !.respelled = FALSE]

(* The calls of a form say what its member wrote and what was printed on it    *)
(* (buildIntent.ts, intentCalls.ts, fixedPoint.ts, regions.ts): each argument  *)
(* is what its field says, a value written back at the cell's scale is the     *)
(* quantity written, neither rounded nor wrapped, and the organ addressed is   *)
(* the one whose identifier the template showed.                              *)
FormsMeanWhatTheySay ==
  \A f \in {g \in Forms : Imported(g)} :
    LET calls == CallsForIntent(IntentOf(f))
        written == [k \in FIELD_PLAN[forms[f].type].input |-> forms[f].file.fields[k]]
        Field(call, k) ==
          CASE call.fn \in DOMAIN written -> call.fn
            [] k = "value" /\ DOMAIN written \cap {call.fn, k} = {} -> "category"
            [] OTHER -> k
    IN \A call \in Range(calls) :
         /\ call.organ = forms[f].printed
         /\ \A k \in DOMAIN call.args :
              LET field == Field(call, k)
              IN CASE field = "votingId" -> call.args[k] = forms[f].values.votingId.whole
                   [] field = "value" ->
                        /\ Len(written.value.fraction) <= forms[f].scale
                        /\ FormatFixedPoint(call.args[k], forms[f].scale) =
                             Decimal(written.value.whole, PadEnd(written.value.fraction, forms[f].scale))
                        /\ call.args[k] <= MaxU64
                   [] OTHER -> call.args[k] = Says(field, written[field])

(* What two forms ask for is the same but for a duration or a direction.      *)
SameProposal(i, j) ==
  LET Asked(intent) ==
        [n \in DOMAIN CallsForIntent(intent) |->
           LET call == CallsForIntent(intent)[n]
           IN [call EXCEPT !.args = Restrict(@, DOMAIN @ \ {"duration", "support"})]]
      Scale(intent) == Restrict(intent.args, DOMAIN intent.args \cap FIELD_PLAN[intent.type].resolved)
  IN i.type = j.type /\ Asked(i) = Asked(j) /\ Scale(i) = Scale(j)

(* A proposal has one imported form, however it is spelled, and a form refused *)
(* as a duplicate asks for what an imported one asks (operationIdentity.ts);   *)
(* no two imported forms look the same to the member (describeIntent.ts).     *)
OneFormPerProposal ==
  LET imported == {f \in Forms : Imported(f)}
  IN /\ \A f, g \in imported :
          f # g => /\ ~SameProposal(IntentOf(f), IntentOf(g))
                   /\ DescribeIntent(IntentOf(f)) # DescribeIntent(IntentOf(g))
     /\ \A intent \in answer.intent : \E f \in imported : SameProposal(intent, IntentOf(f))

Snapshot(o) == IF settings[o].approvalPercentageBase = 0 THEN SimpleMajority ELSE settings[o]

(* A voting created between two calls of a configuration keeps whole settings  *)
(* (intentCalls.ts:293-356): the simple majority, or those one sent form asks  *)
(* for, which a vote can meet; unless a configuration is being written over a  *)
(* live one, which the order of the calls cannot help.                        *)
SnapshotsAreWhole ==
  \A o \in Organs \ overlaid :
    \/ Snapshot(o) = SimpleMajority
    \/ /\ Snapshot(o).approvalPercentage < Snapshot(o).approvalPercentageBase
       /\ \E f \in Forms : /\ forms[f].stage = "sent" \/ forms[f].stage = "partlySent"
                           /\ forms[f].type = "CONFIGURE_ORGAN_THRESHOLDS"
                           /\ IntentOf(f).organ = o /\ IntentOf(f).args = Snapshot(o)

(* issueOperationTemplate.ts:207-218 holds that the record it writes binds: no *)
(* form is refused for nothing but a value this application recorded.         *)
RecordsBind == answer.codes # {"MISSING_BOUND_VALUE"}
=============================================================================
