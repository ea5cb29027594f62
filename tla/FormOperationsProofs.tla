------------------------ MODULE FormOperationsProofs ------------------------
(***************************************************************************)
(* What issuing and importing keep for every set of operations, imports,   *)
(* deployments and precisions, and that they carry out the ledger.  The    *)
(* invariants FormOperations states rest on what a row holds in each state *)
(* (RowsWellFormed), on where each issue handler stands (IssuesKnow) and   *)
(* on what an import still knows of its row after waiting (ImportsKnow).   *)
(***************************************************************************)
EXTENDS FormOperations, TLAPS

\* A row has an identity once it is returned and never before; the identity
\* is made of the row, and only a scaled subject's has a scale.
RowsWellFormed ==
  \A ref \in Refs :
    LET row == ops[ref] IN
    /\ row.state \in {"ABSENT", "RECORDED", "EMITTED", "RETURNED"}
    /\ row.state # "ABSENT" => row.subject \in Subjects /\ row.deployment \in Deployments
    /\ row.state # "RETURNED" => row.key = None
    /\ row.state = "RETURNED" =>
         /\ row.key \in Keys
         /\ row.key.deployment = row.deployment
         /\ row.key.subject = row.subject
         /\ row.subject \in Votes => row.key.ask = None /\ row.key.scale = None

\* An issue handler owns its row until it has replied.
IssuesKnow ==
  \A ref \in Refs :
    /\ issues[ref].pc \in {"IDLE", "PREPARING"} => ops[ref].state = "ABSENT"
    /\ issues[ref].pc = "PREPARING" => issues[ref].subject \in Subjects
    /\ issues[ref].pc \in {"WRITING", "WRITTEN"} => ops[ref].state = "RECORDED"
    /\ issues[ref].pc = "WRITTEN" => ref \in files

\* An import that waits for the chain holds a form of a row that was emitted
\* on this deployment, and the row may have been returned meanwhile.
ImportsKnow ==
  \A i \in Imports :
    LET import == imports[i] IN
    /\ import.pc = "READING" => import.fill \in Fills /\ import.scale = None
    /\ import.pc \in {"RESOLVING", "ANSWERED"} =>
         /\ import.ref \in Refs
         /\ import.fill \in Fills
         /\ ops[import.ref].state \in {"EMITTED", "RETURNED"}
         /\ ops[import.ref].deployment = deployment
         /\ ops[import.ref].subject \in Scaled
    /\ import.pc = "IMPORTED" => import.ref \in Refs

\* No two returned rows have one identity.
KeysDiffer ==
  \A a, b \in Refs :
    a # b /\ ops[a].state = "RETURNED" /\ ops[b].state = "RETURNED" => ops[a].key # ops[b].key

IInv ==
  /\ TypeOK
  /\ RowsWellFormed
  /\ IssuesKnow
  /\ FilesAndRowsAgree
  /\ ImportsKnow
  /\ KeysDiffer
  /\ ImportedIsWhatIsStored

-----------------------------------------------------------------------------
(* The initial states. *)

LEMMA InitInv == Init => IInv
<1> SUFFICES ASSUME Init PROVE IInv
  OBVIOUS
<1>1. TypeOK
  BY DEF Init, TypeOK, Row, Issue, Import, TemplateStates
<1>2. RowsWellFormed /\ IssuesKnow /\ FilesAndRowsAgree /\ KeysDiffer
  BY DEF Init, RowsWellFormed, IssuesKnow, FilesAndRowsAgree, KeysDiffer
<1>3. ImportsKnow /\ ImportedIsWhatIsStored
  BY DEF Init, ImportsKnow, ImportedIsWhatIsStored
<1> QED BY <1>1, <1>2, <1>3 DEF IInv

-----------------------------------------------------------------------------
(* Steps of an issue handler. *)

LEMMA RequestTemplateKeeps ==
  ASSUME IInv, NEW ref \in Refs, NEW subject \in Subjects, RequestTemplate(ref, subject)
  PROVE  IInv'
<1> USE DEF IInv, RequestTemplate
<1>1. TypeOK'
  BY DEF TypeOK, Issue, IssuePending
<1>2. RowsWellFormed' /\ IssuesKnow' /\ FilesAndRowsAgree' /\ KeysDiffer'
  BY DEF RowsWellFormed, IssuesKnow, FilesAndRowsAgree, KeysDiffer, TypeOK
<1>3. ImportsKnow' /\ ImportedIsWhatIsStored'
  BY DEF ImportsKnow, ImportedIsWhatIsStored
<1> QED BY <1>1, <1>2, <1>3

\* A refusal, a failure, or the file on disk: the row stays as it is.
LEMMA IssueMovesKeep ==
  ASSUME IInv, NEW ref \in Refs, RefuseTemplate(ref) \/ WriteFile(ref) \/ WriteFails(ref)
  PROVE  IInv'
<1> USE DEF IInv
<1>1. UNCHANGED <<ops, imports, deployment, scale>>
  BY DEF RefuseTemplate, WriteFile, WriteFails
<1>2. TypeOK'
  BY DEF RefuseTemplate, WriteFile, WriteFails, IssueGoes, TypeOK, Issue, IssuePending,
     IssueReplies
<1>3. RowsWellFormed' /\ KeysDiffer' /\ ImportsKnow' /\ ImportedIsWhatIsStored'
  BY <1>1 DEF RowsWellFormed, KeysDiffer, ImportsKnow, ImportedIsWhatIsStored
<1>4. IssuesKnow' /\ FilesAndRowsAgree'
  BY <1>1 DEF RefuseTemplate, WriteFile, WriteFails, IssueGoes, IssuesKnow, FilesAndRowsAgree,
     TypeOK, Issue
<1> QED BY <1>2, <1>3, <1>4

\* A row that is absent has no file and is no import's row, so a new one
\* disturbs nothing.
LEMMA RecordOperationKeeps ==
  ASSUME IInv, NEW ref \in Refs, RecordOperation(ref)
  PROVE  IInv'
<1> USE DEF IInv
<1> DEFINE new == [state |-> "RECORDED", deployment |-> deployment,
                   subject |-> issues[ref].subject, key |-> None, form |-> None]
<1>1. /\ issues' = [issues EXCEPT ![ref].pc = "WRITING"]
      /\ ops' = [ops EXCEPT ![ref] = new]
      /\ UNCHANGED <<imports, files, deployment, scale>>
  BY DEF RecordOperation, IssueGoes, NewRow
<1>2. ops[ref].state = "ABSENT" /\ issues[ref].subject \in Subjects
  BY DEF RecordOperation, IssueGoes, IssuesKnow
<1>3. new \in Row
  BY <1>2 DEF Row, TemplateStates, TypeOK
<1> HIDE DEF new
<1>4. TypeOK'
  BY <1>1, <1>3 DEF TypeOK, Issue, IssuePending
<1>5. RowsWellFormed' /\ KeysDiffer'
  BY <1>1, <1>2 DEF RowsWellFormed, KeysDiffer, TypeOK, new
<1>6. IssuesKnow' /\ FilesAndRowsAgree'
  BY <1>1, <1>2 DEF IssuesKnow, FilesAndRowsAgree, TypeOK, Issue, new
<1>7. ImportsKnow' /\ ImportedIsWhatIsStored'
  BY <1>1, <1>2 DEF ImportsKnow, ImportedIsWhatIsStored, TypeOK, new
<1> QED BY <1>4, <1>5, <1>6, <1>7

LEMMA EmitKeeps ==
  ASSUME IInv, NEW ref \in Refs, Emit(ref)
  PROVE  IInv'
<1> USE DEF IInv
<1>1. /\ issues' = [issues EXCEPT ![ref].pc = "ISSUED"]
      /\ ops' = [ops EXCEPT ![ref].state = "EMITTED"]
      /\ UNCHANGED <<imports, files, deployment, scale>>
  BY DEF Emit, IssueGoes
<1>2. ops[ref].state = "RECORDED" /\ ref \in files
  BY DEF Emit, IssueGoes, IssuesKnow
<1>3. TypeOK'
  <2>1. [ops[ref] EXCEPT !.state = "EMITTED"] \in Row
    BY DEF TypeOK, Row, TemplateStates
  <2>2. [issues[ref] EXCEPT !.pc = "ISSUED"] \in Issue
    BY DEF TypeOK, Issue, IssueReplies
  <2> QED BY <1>1, <2>1, <2>2 DEF TypeOK
<1>4. RowsWellFormed' /\ KeysDiffer'
  BY <1>1, <1>2 DEF RowsWellFormed, KeysDiffer, TypeOK, Row
<1>5. IssuesKnow' /\ FilesAndRowsAgree'
  BY <1>1, <1>2 DEF IssuesKnow, FilesAndRowsAgree, TypeOK, Issue, Row
<1>6. ImportsKnow' /\ ImportedIsWhatIsStored'
  BY <1>1, <1>2 DEF ImportsKnow, ImportedIsWhatIsStored, TypeOK, Row
<1> QED BY <1>3, <1>4, <1>5, <1>6

-----------------------------------------------------------------------------
(* Steps of an import handler. *)

\* While the rows, files, issues and the deployment stay, only what is said of
\* imports has to be looked at.
LEMMA ImportFrame ==
  ASSUME IInv, UNCHANGED <<ops, issues, files, deployment, scale>>,
         imports' \in [Imports -> Import], ImportsKnow', ImportedIsWhatIsStored'
  PROVE  IInv'
BY DEF IInv, TypeOK, RowsWellFormed, IssuesKnow, FilesAndRowsAgree, KeysDiffer

LEMMA ImportFormKeeps ==
  ASSUME IInv, NEW i \in Imports, NEW ref \in Refs \cup {ForeignRef}, NEW fill \in Fills,
         ImportForm(i, ref, fill)
  PROVE  IInv'
<1> USE DEF IInv, ImportForm
<1>1. imports' \in [Imports -> Import]
  BY DEF TypeOK, Import, ImportPending
<1>2. ImportsKnow'
  BY DEF ImportsKnow, TypeOK
<1>3. ImportedIsWhatIsStored'
  BY DEF ImportedIsWhatIsStored, TypeOK
<1> QED BY <1>1, <1>2, <1>3, ImportFrame

\* Every refusal.
LEMMA RefusalsKeep ==
  ASSUME IInv, NEW i \in Imports, NEW to \in ImportReplies \ {"IMPORTED"}, ImportGoes(i, to),
         UNCHANGED <<ops, issues, files, deployment, scale>>
  PROVE  IInv'
<1> USE DEF IInv, ImportGoes
<1>1. imports' \in [Imports -> Import]
  BY DEF TypeOK, Import
<1>2. ImportsKnow'
  BY DEF ImportsKnow, ImportReplies, TypeOK, Import
<1>3. ImportedIsWhatIsStored'
  BY DEF ImportedIsWhatIsStored, TypeOK, Import
<1> QED BY <1>1, <1>2, <1>3, ImportFrame

LEMMA AskChainKeeps ==
  ASSUME IInv, NEW i \in Imports, AskChain(i)
  PROVE  IInv'
<1> USE DEF IInv
<1>1. /\ imports' = [imports EXCEPT ![i].pc = "RESOLVING"]
      /\ UNCHANGED <<ops, issues, files, deployment, scale>>
  BY DEF AskChain, ImportGoes
<1>2. /\ imports[i].pc = "READING"
      /\ imports[i].ref \in Refs
      /\ ops[imports[i].ref].state = "EMITTED"
      /\ ops[imports[i].ref].deployment = deployment
      /\ ops[imports[i].ref].subject \in Scaled
  BY DEF AskChain, Bound, Known, Binding
<1>3. imports' \in [Imports -> Import]
  BY <1>1 DEF TypeOK, Import, ImportPending
<1>4. ImportsKnow'
  BY <1>1, <1>2 DEF ImportsKnow, TypeOK, Import
<1>5. ImportedIsWhatIsStored'
  BY <1>1 DEF ImportedIsWhatIsStored, TypeOK, Import
<1> QED BY <1>1, <1>3, <1>4, <1>5, ImportFrame

LEMMA ChainReadsKeeps ==
  ASSUME IInv, NEW i \in Imports, ChainReads(i)
  PROVE  IInv'
<1> USE DEF IInv, ChainReads
<1>1. imports' \in [Imports -> Import]
  <2>1. [imports[i] EXCEPT !.pc = "ANSWERED", !.scale = scale] \in Import
    BY DEF TypeOK, Import, ImportPending
  <2>2. imports' = [imports EXCEPT ![i] =
                      [imports[i] EXCEPT !.pc = "ANSWERED", !.scale = scale]]
    BY DEF TypeOK
  <2> QED BY <2>1, <2>2 DEF TypeOK
<1>2. ImportsKnow'
  BY DEF ImportsKnow, TypeOK, Import
<1>3. ImportedIsWhatIsStored'
  BY DEF ImportedIsWhatIsStored, TypeOK, Import
<1> QED BY <1>1, <1>2, <1>3, ImportFrame

\* What an import that may record knows of its row, and the identity it makes.
LEMMA BuildableKnows ==
  ASSUME IInv, NEW i \in Imports, Buildable(i)
  PROVE  /\ imports[i].ref \in Refs
         /\ imports[i].fill \in Fills
         /\ ops[imports[i].ref].state \in {"EMITTED", "RETURNED"}
         /\ ops[imports[i].ref].deployment = deployment
         /\ ops[imports[i].ref].subject \in Subjects
         /\ ops[imports[i].ref].subject \in Votes => imports[i].scale = None
<1> USE DEF IInv
<1>1. CASE imports[i].pc = "ANSWERED"
  BY <1>1, ConstantsAssumption DEF ImportsKnow, RowsWellFormed
<1>2. CASE Bound(i) /\ ops[imports[i].ref].subject \notin Scaled
  BY <1>2 DEF Bound, Known, Binding, ImportsKnow, RowsWellFormed
<1> QED BY <1>1, <1>2 DEF Buildable

LEMMA IdentityTypes ==
  ASSUME IInv, NEW i \in Imports, Buildable(i)
  PROVE  /\ Identity(i) \in Keys
         /\ Identity(i).deployment = deployment
         /\ Identity(i).subject = ops[imports[i].ref].subject
         /\ ops[imports[i].ref].subject \in Votes =>
              Identity(i).ask = None /\ Identity(i).scale = None
<1>1. imports[i].scale \in Scales \cup {None} /\ deployment \in Deployments
  BY DEF IInv, TypeOK, Import
<1> QED BY <1>1, BuildableKnows DEF Identity, Ask, Keys

LEMMA RecordReturnKeeps ==
  ASSUME IInv, NEW i \in Imports, RecordReturn(i)
  PROVE  IInv'
<1> USE DEF IInv
<1> DEFINE ref == imports[i].ref
           key == Identity(i)
           fill == imports[i].fill
<1>1. /\ ops' = [ops EXCEPT ![ref] = [@ EXCEPT !.state = "RETURNED", !.key = key, !.form = fill]]
      /\ imports' = [imports EXCEPT ![i].pc = "IMPORTED"]
      /\ UNCHANGED <<issues, files, deployment, scale>>
  BY DEF RecordReturn, ImportGoes
<1>2. /\ ref \in Refs /\ fill \in Fills
      /\ ops[ref].deployment = deployment /\ ops[ref].subject \in Subjects
      /\ key \in Keys /\ key.deployment = deployment /\ key.subject = ops[ref].subject
      /\ ops[ref].subject \in Votes => key.ask = None /\ key.scale = None
  BY BuildableKnows, IdentityTypes DEF RecordReturn
<1>3. ops[ref].state = "EMITTED"
  BY BuildableKnows DEF RecordReturn, MayReturn, CanTransition, Transitions
<1>4. \A other \in Refs \ {ref} : ops[other].key # key
  BY DEF RecordReturn, AlreadySeen
<1>5. deployment \in Deployments
  BY DEF TypeOK
<1> HIDE DEF ref, key, fill
<1>6. ops' \in [Refs -> Row]
  BY <1>1, <1>2, ZenonT(40) DEF TypeOK, Row, TemplateStates
<1>7. imports' \in [Imports -> Import]
  BY <1>1 DEF TypeOK, Import, ImportReplies
<1>8. /\ ops'[ref].state = "RETURNED" /\ ops'[ref].key = key /\ ops'[ref].form = fill
      /\ ops'[ref].deployment = ops[ref].deployment /\ ops'[ref].subject = ops[ref].subject
      /\ \A other \in Refs \ {ref} : ops'[other] = ops[other]
  BY <1>1, <1>2 DEF TypeOK, Row
<1>9. RowsWellFormed'
  BY <1>2, <1>5, <1>8 DEF RowsWellFormed
<1>10. IssuesKnow' /\ FilesAndRowsAgree'
  BY <1>1, <1>2, <1>3, <1>8 DEF IssuesKnow, FilesAndRowsAgree
<1>11. ImportsKnow'
  <2> SUFFICES ASSUME NEW j \in Imports
               PROVE  LET import == imports'[j] IN
                        /\ import.pc = "READING" => import.fill \in Fills /\ import.scale = None
                        /\ import.pc \in {"RESOLVING", "ANSWERED"} =>
                             /\ import.ref \in Refs
                             /\ import.fill \in Fills
                             /\ ops'[import.ref].state \in {"EMITTED", "RETURNED"}
                             /\ ops'[import.ref].deployment = deployment'
                             /\ ops'[import.ref].subject \in Scaled
                        /\ import.pc = "IMPORTED" => import.ref \in Refs
    BY DEF ImportsKnow
  <2>1. CASE j = i
    BY <1>1, <1>2, <2>1 DEF TypeOK, Import, ref
  <2>2. CASE j # i
    BY <1>1, <1>8, <2>2 DEF ImportsKnow, TypeOK
  <2> QED BY <2>1, <2>2
<1>12. KeysDiffer'
  BY <1>2, <1>4, <1>8 DEF KeysDiffer
<1>13. ImportedIsWhatIsStored'
  <2> SUFFICES ASSUME NEW j \in Imports, imports'[j].pc = "IMPORTED"
               PROVE  LET row == ops'[imports'[j].ref] IN
                        /\ row.state = "RETURNED"
                        /\ row.form = imports'[j].fill
                        /\ row.key.deployment = row.deployment
    BY DEF ImportedIsWhatIsStored
  <2>1. CASE j = i
    <3>1. imports'[j].ref = ref /\ imports'[j].fill = fill
      BY <1>1, <2>1 DEF TypeOK, Import, ref, fill
    <3> QED BY <1>2, <1>8, <3>1
  <2>2. CASE j # i
    <3>1. imports'[j] = imports[j]
      BY <1>1, <2>2 DEF TypeOK
    <3>2. imports[j].ref \in Refs \ {ref}
      BY <1>3, <3>1 DEF ImportedIsWhatIsStored, ImportsKnow
    <3> QED BY <1>8, <3>1, <3>2 DEF ImportedIsWhatIsStored
  <2> QED BY <2>1, <2>2
<1> QED BY <1>1, <1>6, <1>7, <1>9, <1>10, <1>11, <1>12, <1>13 DEF TypeOK

-----------------------------------------------------------------------------
(* The rest, and the invariant. *)

LEMMA RestartKeeps ==
  ASSUME IInv, NEW to \in Deployments, Restart(to)
  PROVE  IInv'
<1> USE DEF IInv, Restart
<1>1. TypeOK'
  BY DEF TypeOK, Issue, Import
<1>2. RowsWellFormed' /\ KeysDiffer' /\ FilesAndRowsAgree'
  BY DEF RowsWellFormed, KeysDiffer, FilesAndRowsAgree
<1>3. IssuesKnow'
  BY DEF IssuesKnow, IssuePending, TypeOK, Issue
<1>4. ImportsKnow'
  BY DEF ImportsKnow, ImportPending, TypeOK, Import
<1>5. ImportedIsWhatIsStored'
  BY DEF ImportedIsWhatIsStored, ImportPending, TypeOK, Import
<1> QED BY <1>1, <1>2, <1>3, <1>4, <1>5

LEMMA ImportStepKeeps ==
  ASSUME IInv, NEW i \in Imports, ImportStep(i)
  PROVE  IInv'
<1>1. CASE \E ref \in Refs \cup {ForeignRef}, fill \in Fills : ImportForm(i, ref, fill)
  BY <1>1, ImportFormKeeps
<1>2. CASE \/ ReadFails(i) \/ UnknownRef(i) \/ NotBindable(i) \/ AlreadyImported(i)
           \/ FormIncomplete(i) \/ ChainUnavailable(i) \/ InvalidIntent(i) \/ RefuseSeen(i)
           \/ RecordThrows(i)
  <2>1. \E to \in ImportReplies \ {"IMPORTED"} : ImportGoes(i, to)
    BY <1>2 DEF ReadFails, UnknownRef, NotBindable, Binding, AlreadyImported, FormIncomplete,
       ChainUnavailable, InvalidIntent, RefuseSeen, RecordThrows, ImportReplies
  <2>2. UNCHANGED <<ops, issues, files, deployment, scale>>
    BY <1>2 DEF ReadFails, UnknownRef, NotBindable, AlreadyImported, FormIncomplete,
       ChainUnavailable, InvalidIntent, RefuseSeen, RecordThrows
  <2> QED BY <2>1, <2>2, RefusalsKeep
<1>3. CASE AskChain(i) \/ ChainReads(i) \/ RecordReturn(i)
  BY <1>3, AskChainKeeps, ChainReadsKeeps, RecordReturnKeeps
<1> QED BY <1>1, <1>2, <1>3 DEF ImportStep

LEMMA StepKeepsInv == IInv /\ [Next]_vars => IInv'
<1> SUFFICES ASSUME IInv, [Next]_vars PROVE IInv'
  OBVIOUS
<1>1. ASSUME NEW ref \in Refs, IssueStep(ref) PROVE IInv'
  BY <1>1, RequestTemplateKeeps, IssueMovesKeep, RecordOperationKeeps, EmitKeeps DEF IssueStep
<1>2. ASSUME NEW i \in Imports, ImportStep(i) PROVE IInv'
  BY <1>2, ImportStepKeeps
<1>3. CASE (\E to \in Scales : ChangeScale(to)) \/ UNCHANGED vars
  BY <1>3 DEF ChangeScale, vars, IInv, TypeOK, RowsWellFormed, IssuesKnow, FilesAndRowsAgree,
     ImportsKnow, KeysDiffer, ImportedIsWhatIsStored
<1>4. CASE \E to \in Deployments : Restart(to)
  BY <1>4, RestartKeeps
<1> QED BY <1>1, <1>2, <1>3, <1>4 DEF Next

LEMMA InvHolds == Spec => []IInv
BY InitInv, StepKeepsInv, PTL DEF Spec

-----------------------------------------------------------------------------
(* The theorems. *)

\* Every variable keeps to its type.
THEOREM TypeCorrect == Spec => []TypeOK
BY InvHolds, PTL DEF IInv

\* No identity is held by two returned rows of one deployment and no voting has
\* two votes, however many imports run beside each other.
THEOREM OneImport == Spec => []OneImportPerIdentity
<1>1. IInv => OneImportPerIdentity
  <2> SUFFICES ASSUME IInv, NEW a \in Returned, NEW b \in Returned, a # b,
                      ops[a].deployment = ops[b].deployment
               PROVE  /\ ops[a].key # ops[b].key
                      /\ ops[a].subject = ops[b].subject => ops[a].subject \notin Votes
    BY DEF OneImportPerIdentity
  <2>1. ops[a].key # ops[b].key
    BY DEF IInv, KeysDiffer, Returned
  <2>2. ASSUME ops[a].subject = ops[b].subject, ops[a].subject \in Votes
        PROVE  ops[a].key = ops[b].key
    BY <2>2 DEF IInv, RowsWellFormed, Returned, Keys
  <2> QED BY <2>1, <2>2
<1> QED BY <1>1, InvHolds, PTL

\* A reply IMPORTED is about the form the row holds.
THEOREM ImportedStored == Spec => []ImportedIsWhatIsStored
BY InvHolds, PTL DEF IInv

\* A file outside always has a row, and EMITTED always has a file.
THEOREM FilesAgree == Spec => []FilesAndRowsAgree
BY InvHolds, PTL DEF IInv

-----------------------------------------------------------------------------
(* The ledger. *)

\* Of all steps three change a row: two of them are the ledger's, and the
\* third does not show.
LEMMA RowSteps ==
  ASSUME [Next]_vars
  PROVE  \/ UNCHANGED ops
         \/ \E ref \in Refs : RecordOperation(ref) \/ Emit(ref)
         \/ \E i \in Imports : RecordReturn(i)
BY DEF Next, vars, IssueStep, ImportStep, RequestTemplate, RefuseTemplate, WriteFile, WriteFails,
   ImportForm, ReadFails, UnknownRef, NotBindable, AlreadyImported, FormIncomplete, AskChain,
   ChainReads, ChainUnavailable, InvalidIntent, RefuseSeen, RecordThrows, ChangeScale, Restart

LEMMA StepKeepsReturned ==
  ASSUME IInv, [Next]_vars, NEW ref \in Returned
  PROVE  ops'[ref] = ops[ref]
<1> USE DEF IInv
<1>0. ref \in Refs /\ ops[ref].state = "RETURNED"
  BY DEF Returned
<1>1. ASSUME NEW new \in Refs, RecordOperation(new) \/ Emit(new)
      PROVE  ops'[ref] = ops[ref]
  <2>1. new # ref
    BY <1>0, <1>1 DEF RecordOperation, Emit, IssueGoes, IssuesKnow
  <2> QED BY <1>0, <1>1, <2>1 DEF RecordOperation, NewRow, Emit, TypeOK
<1>2. ASSUME NEW i \in Imports, RecordReturn(i)
      PROVE  ops'[ref] = ops[ref]
  <2>1. imports[i].ref # ref
    BY <1>0, <1>2 DEF RecordReturn, MayReturn, CanTransition, Transitions
  <2> QED BY <1>0, <1>2, <2>1 DEF RecordReturn, TypeOK
<1> QED BY <1>1, <1>2, RowSteps

\* Nothing rewrites a returned row.
THEOREM ReturnedStays == Spec => ReturnedIsFrozen
<1>1. IInv /\ [Next]_vars => [\A ref \in Returned : ops'[ref] = ops[ref]]_vars
  BY StepKeepsReturned
<1> QED BY <1>1, InvHolds, PTL DEF Spec, ReturnedIsFrozen

\* The refinement mapping of Ledger.
HandedOver == {ref \in Refs : ops[ref].state \in {"EMITTED", "RETURNED"}}
KeyOf == [ref \in Refs |-> ops[ref].key]

LEMMA StepIsLedgerStep ==
  ASSUME IInv, [Next]_vars
  PROVE  [Ledger!Next]_(Ledger!ledgerVars)
<1> USE DEF IInv
<1>1. CASE UNCHANGED ops
  BY <1>1 DEF Ledger!ledgerVars
<1>2. ASSUME NEW ref \in Refs, RecordOperation(ref)
      PROVE  UNCHANGED <<HandedOver, KeyOf>>
  <2>1. ops[ref].state = "ABSENT" /\ ops[ref].key = None
    BY <1>2 DEF RecordOperation, IssueGoes, IssuesKnow, RowsWellFormed
  <2>2. /\ ops'[ref].state = "RECORDED" /\ ops'[ref].key = None
        /\ \A other \in Refs \ {ref} : ops'[other] = ops[other]
    BY <1>2 DEF RecordOperation, NewRow, TypeOK
  <2> QED BY <2>1, <2>2 DEF HandedOver, KeyOf
<1>3. ASSUME NEW ref \in Refs, Emit(ref)
      PROVE  Ledger!HandOver(ref)
  <2>1. /\ ops'[ref].state = "EMITTED" /\ ops'[ref].key = ops[ref].key
        /\ \A other \in Refs \ {ref} : ops'[other] = ops[other]
    BY <1>3 DEF Emit, TypeOK, Row
  <2>2. HandedOver' = HandedOver \cup {ref} /\ KeyOf' = KeyOf
    BY <2>1 DEF HandedOver, KeyOf
  <2> QED BY <2>2 DEF Ledger!HandOver, HandedOver, KeyOf
<1>4. ASSUME NEW i \in Imports, RecordReturn(i)
      PROVE  \E ref \in Refs, key \in Keys : Ledger!Import(ref, key)
  <2> DEFINE ref == imports[i].ref
             key == Identity(i)
  <2>1. ref \in Refs /\ key \in Keys
    BY <1>4, BuildableKnows, IdentityTypes DEF RecordReturn
  <2>2. ops[ref].state = "EMITTED" /\ ops[ref].key = None
    BY <1>4, BuildableKnows DEF RecordReturn, MayReturn, CanTransition, Transitions,
       RowsWellFormed
  <2>3. \A other \in Refs : ops[other].key # key
    BY <1>4, <2>1, <2>2, NoneIsNoKey DEF RecordReturn, AlreadySeen
  <2>4. /\ ops'[ref].state = "RETURNED" /\ ops'[ref].key = key
        /\ \A other \in Refs \ {ref} : ops'[other] = ops[other]
    BY <1>4, <2>1 DEF RecordReturn, TypeOK, Row
  <2> HIDE DEF ref, key
  <2>5. HandedOver' = HandedOver /\ ref \in HandedOver
    BY <2>1, <2>2, <2>4 DEF HandedOver
  <2>6. KeyOf[ref] = None /\ (\A other \in Refs : KeyOf[other] # key)
    BY <2>1, <2>2, <2>3 DEF KeyOf
  <2>7. KeyOf' = [KeyOf EXCEPT ![ref] = key]
    BY <2>1, <2>4 DEF KeyOf
  <2>8. Ledger!Import(ref, key)
    BY <2>5, <2>6, <2>7 DEF Ledger!Import, HandedOver, KeyOf
  <2> QED BY <2>1, <2>8 DEF Ledger!Import
<1>5. CASE \E ref \in Refs : RecordOperation(ref)
  BY <1>2, <1>5 DEF Ledger!ledgerVars, HandedOver, KeyOf
<1> QED BY <1>1, <1>3, <1>4, <1>5, RowSteps DEF Ledger!Next

\* The handlers, the rows and the files implement the ledger.
THEOREM Implements == Spec => ImplementsLedger
<1>1. Init => Ledger!Init
  BY DEF Init, Ledger!Init
<1>2. IInv /\ [Next]_vars => [Ledger!Next]_(Ledger!ledgerVars)
  BY StepIsLedgerStep
<1> QED BY <1>1, <1>2, InvHolds, PTL DEF Spec, ImplementsLedger, Ledger!Spec
=============================================================================
