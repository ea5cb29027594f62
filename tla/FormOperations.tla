--------------------------- MODULE FormOperations ---------------------------
(***************************************************************************)
(* Operations from the template handed out to the filled form taken back:  *)
(* the worker's issue and import handlers, the operations table, the       *)
(* files in the member's hands, and the precision of a matrix cell, which  *)
(* the contract may change between an import and anything later.           *)
(*                                                                         *)
(*   issue handler    src/src/app/issueOperationTemplate.ts                *)
(*   import handler   src/src/app/importReturnedForm.ts                    *)
(*                    src/src/app/intentFromForm.ts                        *)
(*   rows             src/src/adapters/store/sqliteOperationStore.ts       *)
(*   binding          src/src/adapters/forms/boundOperation.ts             *)
(*   identity         src/src/domain/intents/operationIdentity.ts          *)
(*                                                                         *)
(* The worker is one event loop: a handler runs alone from one answer to   *)
(* its next wait, and each such stretch here commits at most one change,   *)
(* so an action is a whole stretch.  A form is known by the operation it   *)
(* quotes and by what the member wrote in it.                              *)
(***************************************************************************)
EXTENDS IssuedTemplate, FiniteSets

CONSTANTS
  Refs,         \* operation references; an issue handler is named by the one it makes
  ForeignRef,   \* a reference this installation never made
  Subjects,     \* what a template binds: the operation and its organ or voting
  Votes,        \* subjects that are a voting to vote on
  Scaled,       \* subjects whose schema resolves the cell's decimals from chain
  Fills,        \* what a member may write: a direction, a quantity, a name
  Deployments,  \* contracts the application may be pointed at
  Scales,       \* decimals a cell may have
  Imports,      \* importForm messages
  None          \* no value

ASSUME ConstantsAssumption ==
  /\ ForeignRef \notin Refs
  /\ Votes \cup Scaled \subseteq Subjects
  /\ Votes \cap Scaled = {}
  /\ None \notin Refs \cup {ForeignRef} \cup Subjects \cup Fills \cup Deployments \cup Scales

VARIABLES
  ops,         \* the operations table
  issues,      \* the issue handlers
  imports,     \* the import handlers, with their local variables
  files,       \* operations whose file was written out whole
  deployment,  \* the contract the running application is configured for
  scale        \* the decimals of the cell on chain

vars == <<ops, issues, imports, files, deployment, scale>>

IssuePending  == {"PREPARING", "WRITING", "WRITTEN"}
ImportPending == {"READING", "RESOLVING", "ANSWERED"}
ImportReplies == {"NOT_IMPORTABLE", "UNKNOWN_OPERATION_REF", "WRONG_DEPLOYMENT", "NOT_EMITTED",
                  "ALREADY_IMPORTED", "FORM_INCOMPLETE", "CHAIN_UNAVAILABLE", "INVALID_INTENT",
                  "CONFLICTING_VOTE", "DUPLICATE_OPERATION", "IMPORTED", "FAILURE"}
IssueReplies  == {"ISSUED", "REFUSED", "FAILURE"}

\* A canonical identity.  A voting value and its decimals determine, and are
\* determined by, the quantity the member wrote and the decimals.
Keys == [deployment : Deployments, subject : Subjects, ask : Fills \cup {None},
         scale : Scales \cup {None}]

ASSUME NoneIsNoKey == None \notin Keys

Row    == [state : TemplateStates \cup {"ABSENT"}, deployment : Deployments \cup {None},
           subject : Subjects \cup {None}, key : Keys \cup {None}, form : Fills \cup {None}]
Issue  == [pc : {"IDLE", "LOST"} \cup IssuePending \cup IssueReplies,
           subject : Subjects \cup {None}]
Import == [pc : {"IDLE", "LOST"} \cup ImportPending \cup ImportReplies,
           ref : Refs \cup {ForeignRef, None}, fill : Fills \cup {None},
           scale : Scales \cup {None}]

\* Every variable keeps to its type: a row never holds an identity made of
\* anything but its parts, nor a state outside the table.
TypeOK ==
  /\ ops \in [Refs -> Row]
  /\ issues \in [Refs -> Issue]
  /\ imports \in [Imports -> Import]
  /\ files \subseteq Refs
  /\ deployment \in Deployments
  /\ scale \in Scales

Init ==
  /\ ops = [ref \in Refs |-> [state |-> "ABSENT", deployment |-> None, subject |-> None,
                              key |-> None, form |-> None]]
  /\ issues = [ref \in Refs |-> [pc |-> "IDLE", subject |-> None]]
  /\ imports = [i \in Imports |-> [pc |-> "IDLE", ref |-> None, fill |-> None, scale |-> None]]
  /\ files = {}
  /\ deployment \in Deployments
  /\ scale \in Scales

-----------------------------------------------------------------------------
(* Issuing a template. *)

IssueGoes(ref, from, to) ==
  /\ issues[ref].pc = from
  /\ issues' = [issues EXCEPT ![ref].pc = to]

\* An issueTemplate message.  The handler resolves the organ, if there is one,
\* and composes the document before it touches anything.
RequestTemplate(ref, subject) ==
  /\ issues[ref].pc = "IDLE"
  /\ issues' = [issues EXCEPT ![ref] = [pc |-> "PREPARING", subject |-> subject]]
  /\ UNCHANGED <<ops, imports, files, deployment, scale>>

\* Wrong arguments, an organ the contract renders otherwise, or a throw.
RefuseTemplate(ref) ==
  /\ \E reply \in {"REFUSED", "FAILURE"} : IssueGoes(ref, "PREPARING", reply)
  /\ UNCHANGED <<ops, imports, files, deployment, scale>>

\* A row as `record' inserts it.
NewRow(ref, state) ==
  [ops EXCEPT ![ref] = [state |-> state, deployment |-> deployment,
                        subject |-> issues[ref].subject, key |-> None, form |-> None]]

\* A mistaken form: the row claims a file that is not written yet.
RecordOperationEmitted(ref) ==
  /\ IssueGoes(ref, "PREPARING", "WRITING")
  /\ ops' = NewRow(ref, "EMITTED")
  /\ UNCHANGED <<imports, files, deployment, scale>>

\* The row is durable, and the write to the chosen path begins.
RecordOperation(ref) ==
  /\ IssueGoes(ref, "PREPARING", "WRITING")
  /\ ops' = NewRow(ref, "RECORDED")
  /\ UNCHANGED <<imports, files, deployment, scale>>

\* The disk has the whole file; the handler has yet to hear of it.
WriteFile(ref) ==
  /\ IssueGoes(ref, "WRITING", "WRITTEN")
  /\ files' = files \cup {ref}
  /\ UNCHANGED <<ops, imports, deployment, scale>>

\* files.write throws; the row stays RECORDED.
WriteFails(ref) ==
  /\ IssueGoes(ref, "WRITING", "FAILURE")
  /\ UNCHANGED <<ops, imports, files, deployment, scale>>

\* advance(EMITTED) and the reply.
Emit(ref) ==
  /\ IssueGoes(ref, "WRITTEN", "ISSUED")
  /\ CanTransition(ops[ref].state, "EMITTED")
  /\ ops' = [ops EXCEPT ![ref].state = "EMITTED"]
  /\ UNCHANGED <<imports, files, deployment, scale>>

-----------------------------------------------------------------------------
(* Importing a returned form. *)

ImportGoes(i, to) == imports' = [imports EXCEPT ![i].pc = to]

\* An importForm message for a file that is out there: a copy of one this
\* installation wrote, filled in any way, or one from another installation.
ImportForm(i, ref, fill) ==
  /\ imports[i].pc = "IDLE"
  /\ ref \in files \cup {ForeignRef}
  /\ imports' = [imports EXCEPT ![i] = [pc |-> "READING", ref |-> ref, fill |-> fill,
                                        scale |-> None]]
  /\ UNCHANGED <<ops, issues, files, deployment, scale>>

\* The file does not read, or does not parse as a governance form.
ReadFails(i) ==
  /\ imports[i].pc = "READING"
  /\ \E reply \in {"NOT_IMPORTABLE", "FAILURE"} : ImportGoes(i, reply)
  /\ UNCHANGED <<ops, issues, files, deployment, scale>>

Known(ref) == ref \in Refs /\ ops[ref].state # "ABSENT"

UnknownRef(i) ==
  /\ imports[i].pc = "READING"
  /\ ~Known(imports[i].ref)
  /\ ImportGoes(i, "UNKNOWN_OPERATION_REF")
  /\ UNCHANGED <<ops, issues, files, deployment, scale>>

\* bindOperation, in the order it asks.
Binding(ref) ==
  IF ops[ref].deployment # deployment THEN "WRONG_DEPLOYMENT"
  ELSE IF CanBindReturnedForm(ops[ref].state) THEN "BOUND" ELSE "NOT_EMITTED"

NotBindable(i) ==
  /\ imports[i].pc = "READING"
  /\ Known(imports[i].ref)
  /\ Binding(imports[i].ref) # "BOUND"
  /\ ImportGoes(i, Binding(imports[i].ref))
  /\ UNCHANGED <<ops, issues, files, deployment, scale>>

AlreadyImported(i) ==
  /\ imports[i].pc = "READING"
  /\ Known(imports[i].ref)
  /\ Binding(imports[i].ref) = "BOUND"
  /\ ops[imports[i].ref].state # "EMITTED"
  /\ ImportGoes(i, "ALREADY_IMPORTED")
  /\ UNCHANGED <<ops, issues, files, deployment, scale>>

\* Bound to a row nobody has returned yet: what the member wrote is read next.
Bound(i) ==
  /\ imports[i].pc = "READING"
  /\ Known(imports[i].ref)
  /\ Binding(imports[i].ref) = "BOUND"
  /\ ops[imports[i].ref].state = "EMITTED"

FormIncomplete(i) ==
  /\ Bound(i)
  /\ ImportGoes(i, "FORM_INCOMPLETE")
  /\ UNCHANGED <<ops, issues, files, deployment, scale>>

\* resolveFromChain: only a scaled subject waits for the chain.
AskChain(i) ==
  /\ Bound(i)
  /\ ops[imports[i].ref].subject \in Scaled
  /\ ImportGoes(i, "RESOLVING")
  /\ UNCHANGED <<ops, issues, files, deployment, scale>>

\* The provider reads the cell; the chain may move on before the answer is in.
ChainReads(i) ==
  /\ imports[i].pc = "RESOLVING"
  /\ imports' = [imports EXCEPT ![i].pc = "ANSWERED", ![i].scale = scale]
  /\ UNCHANGED <<ops, issues, files, deployment, scale>>

ChainUnavailable(i) ==
  /\ imports[i].pc = "RESOLVING"
  /\ ImportGoes(i, "CHAIN_UNAVAILABLE")
  /\ UNCHANGED <<ops, issues, files, deployment, scale>>

\* Everything an intent is built from is there.
Buildable(i) ==
  \/ Bound(i) /\ ops[imports[i].ref].subject \notin Scaled
  \/ imports[i].pc = "ANSWERED"

\* The values do not fit the operation; a malformed coordinate asks no chain.
InvalidIntent(i) ==
  /\ Bound(i) \/ Buildable(i)
  /\ ImportGoes(i, "INVALID_INTENT")
  /\ UNCHANGED <<ops, issues, files, deployment, scale>>

\* Mistaken forms: a vote's direction folded into its identity; the scale's
\* place taken by the member's text.
IdentityWithDirection(i) ==
  [deployment |-> deployment, subject |-> ops[imports[i].ref].subject,
   ask |-> imports[i].fill, scale |-> imports[i].scale]
IdentityMisplaced(i) ==
  [deployment |-> deployment, subject |-> ops[imports[i].ref].subject,
   ask |-> imports[i].scale, scale |-> imports[i].fill]

\* What a subject and a fill ask for, the direction of a vote apart.
Ask(subject, fill) == IF subject \in Votes THEN None ELSE fill

\* canonicalIdentity of the built intent.
Identity(i) ==
  LET subject == ops[imports[i].ref].subject IN
  [deployment |-> deployment, subject |-> subject, ask |-> Ask(subject, imports[i].fill),
   scale |-> imports[i].scale]

\* A mistaken form: only operations that still wait for their form are asked.
AlreadySeenWaiting(i) ==
  {other \in Refs \ {imports[i].ref} :
     ops[other].key = Identity(i) /\ ops[other].state = "EMITTED"}

\* findByIdentity, this operation apart.
AlreadySeen(i) == {other \in Refs \ {imports[i].ref} : ops[other].key = Identity(i)}

\* A match that voted the other way is a conflict, any other a duplicate.
Opposes(i, other) ==
  ops[other].subject \in Votes /\ ops[other].form # imports[i].fill

RefuseSeen(i) ==
  /\ Buildable(i)
  /\ \E other \in AlreadySeen(i) :
       ImportGoes(i, IF Opposes(i, other) THEN "CONFLICTING_VOTE" ELSE "DUPLICATE_OPERATION")
  /\ UNCHANGED <<ops, issues, files, deployment, scale>>

\* A mistaken form: the state judged before the wait is not judged again.
MayReturnUnchecked(i) == TRUE

\* recordReturn's own look at the state, in its transaction.
MayReturn(i) == CanTransition(ops[imports[i].ref].state, "RETURNED")

\* Identity, bytes and state in one transaction, and the reply.
RecordReturn(i) ==
  /\ Buildable(i)
  /\ AlreadySeen(i) = {}
  /\ MayReturn(i)
  /\ ops' = [ops EXCEPT ![imports[i].ref] =
               [@ EXCEPT !.state = "RETURNED", !.key = Identity(i), !.form = imports[i].fill]]
  /\ ImportGoes(i, "IMPORTED")
  /\ UNCHANGED <<issues, files, deployment, scale>>

\* Another copy was returned during the wait: the store throws.
RecordThrows(i) ==
  /\ Buildable(i)
  /\ AlreadySeen(i) = {}
  /\ ~MayReturn(i)
  /\ ImportGoes(i, "FAILURE")
  /\ UNCHANGED <<ops, issues, files, deployment, scale>>

-----------------------------------------------------------------------------
\* A decimals voting of the cell is executed.
ChangeScale(to) ==
  /\ scale' = to
  /\ UNCHANGED <<ops, issues, imports, files, deployment>>

\* The worker dies, or the application is closed, and starts again, perhaps
\* pointed at another deployment: the table and the files stay.
Restart(to) ==
  /\ issues' = [ref \in Refs |->
                  IF issues[ref].pc \in IssuePending THEN [issues[ref] EXCEPT !.pc = "LOST"]
                  ELSE issues[ref]]
  /\ imports' = [i \in Imports |->
                   IF imports[i].pc \in ImportPending THEN [imports[i] EXCEPT !.pc = "LOST"]
                   ELSE imports[i]]
  /\ deployment' = to
  /\ UNCHANGED <<ops, files, scale>>

IssueStep(ref) ==
  \/ \E subject \in Subjects : RequestTemplate(ref, subject)
  \/ RefuseTemplate(ref) \/ RecordOperation(ref)
  \/ WriteFile(ref) \/ WriteFails(ref) \/ Emit(ref)

ImportStep(i) ==
  \/ \E ref \in Refs \cup {ForeignRef}, fill \in Fills : ImportForm(i, ref, fill)
  \/ ReadFails(i) \/ UnknownRef(i) \/ NotBindable(i) \/ AlreadyImported(i) \/ FormIncomplete(i)
  \/ AskChain(i) \/ ChainReads(i) \/ ChainUnavailable(i)
  \/ InvalidIntent(i) \/ RefuseSeen(i) \/ RecordReturn(i) \/ RecordThrows(i)

Next ==
  \/ \E ref \in Refs : IssueStep(ref)
  \/ \E i \in Imports : ImportStep(i)
  \/ \E to \in Scales : ChangeScale(to)
  \/ \E to \in Deployments : Restart(to)

Spec == Init /\ [][Next]_vars

-----------------------------------------------------------------------------
(* What holds. *)

Returned == {ref \in Refs : ops[ref].state = "RETURNED"}

\* Two returned forms are two operations: on one deployment no identity is
\* held twice, and no voting has two votes, opposite ones least of all, although
\* imports run beside each other with a wait between their first look at the
\* row and the commit (importReturnedForm.ts:222).
OneImportPerIdentity ==
  \A a, b \in Returned :
    a # b /\ ops[a].deployment = ops[b].deployment =>
      /\ ops[a].key # ops[b].key
      /\ ops[a].subject = ops[b].subject => ops[a].subject \notin Votes

\* IMPORTED is said of one copy only: the row then holds that very form, on the
\* deployment it was issued for, whatever other copies of it were being
\* imported and whatever restarts came between.
ImportedIsWhatIsStored ==
  \A i \in Imports :
    imports[i].pc = "IMPORTED" =>
      LET row == ops[imports[i].ref] IN
      /\ row.state = "RETURNED"
      /\ row.form = imports[i].fill
      /\ row.key.deployment = row.deployment

\* A form in the member's hands can always be recognised, and a row says
\* EMITTED only of a file that was written out (issueOperationTemplate.ts:38).
FilesAndRowsAgree ==
  /\ \A ref \in files : ops[ref].state # "ABSENT"
  /\ \A ref \in Refs : ops[ref].state \in {"EMITTED", "RETURNED"} => ref \in files

\* A returned row is never rewritten: its form is what submission reads again,
\* and its identity what later imports are compared with.
ReturnedIsFrozen ==
  [][\A ref \in Returned : ops'[ref] = ops[ref]]_vars

\* The handlers, the table and the files carry out the ledger.
Ledger == INSTANCE OperationLedger WITH
  NoKey <- None,
  handedOver <- {ref \in Refs : ops[ref].state \in {"EMITTED", "RETURNED"}},
  imported <- [ref \in Refs |-> ops[ref].key]

\* Seen from outside, issuing and importing are the ledger's two steps: no
\* crash, no second copy and no concurrent import shows.
ImplementsLedger == Ledger!Spec
=============================================================================
