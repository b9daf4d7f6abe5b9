---------------------------- MODULE Confirmation ----------------------------
(***************************************************************************)
(* ConfirmationService.confirm, statement by statement, under the write    *)
(* transactions of Database.transaction: BEGIN IMMEDIATE takes the one     *)
(* write lock, the statements see the rows of the transaction itself, and  *)
(* only COMMIT shows them to anyone else. Requests come from browsers and  *)
(* from the JSON endpoint, are repeated when an answer is lost, and may    *)
(* name any proposal with any key.                                         *)
(***************************************************************************)
EXTENDS Naturals

CONSTANTS
  Clients,     \* concurrent requests in flight
  Proposals,   \* proposal ids, of persisted and of unknown proposals
  Reviewers,   \* reviewer of the session, or settings.reviewer_id
  Keys,        \* idempotency keys
  NoDecision, NoKey, NoClient, NoRequest

ASSUME ConfirmationAssumption ==
  /\ NoDecision \notin [proposal : Proposals, reviewer : Reviewers]
  /\ NoKey \notin Keys
  /\ NoClient \notin Clients
  /\ NoRequest \notin [proposal : Proposals, reviewer : Reviewers, key : Keys]

VARIABLES
  db,        \* the committed rows a confirmation reads and writes
  persisted, \* proposals whose rows complete_processing has committed
  stale,     \* proposals whose evidence an outside edit made invalid
  lock,      \* who is inside BEGIN IMMEDIATE
  conn,      \* each request: its arguments, progress and uncommitted rows
  replies    \* history: the successful answers that were returned

vars == <<db, persisted, stale, lock, conn, replies>>

Requests == [proposal : Proposals, reviewer : Reviewers, key : Keys]

Decisions == [proposal : Proposals, reviewer : Reviewers]

(***************************************************************************)
(* A decision row is known by its unique idempotency_key; a proposal's     *)
(* relation row (unique per document, predicate and target, which a        *)
(* proposal is too) by the decision it names.                              *)
(***************************************************************************)
Rows == [decision : [Keys -> Decisions \cup {NoDecision}],  \* review_decision
         relation : [Proposals -> Keys \cup {NoKey}],       \* relation
         linked   : SUBSET Proposals,                       \* evidence_link
         accepted : SUBSET Proposals,                       \* proposal.state
         audit    : [Keys -> Decisions \cup {NoDecision}]]  \* audit_event

NoRows == [decision |-> [k \in Keys |-> NoDecision],
           relation |-> [p \in Proposals |-> NoKey],
           linked |-> {}, accepted |-> {},
           audit |-> [k \in Keys |-> NoDecision]]

Stages == {"idle", "waiting", "checking", "decision", "relation", "links",
           "proposal", "audit", "commit"}

Quiet == [stage |-> "idle", req |-> NoRequest, rows |-> NoRows]

Init ==
  /\ db = NoRows
  /\ persisted = {} /\ stale = {}
  /\ lock = NoClient
  /\ conn = [c \in Clients |-> Quiet]
  /\ replies = {}

Stage(c, s) == conn' = [conn EXCEPT ![c].stage = s]

(***************************************************************************)
(* Other write transactions: processing persists a proposal; an edit of    *)
(* the reference data (nothing under src/ edits it; external) makes its    *)
(* evidence fail validation.                                               *)
(***************************************************************************)
PersistProposal(p) ==
  /\ lock = NoClient
  /\ p \notin persisted
  /\ persisted' = persisted \cup {p}
  /\ UNCHANGED <<db, stale, lock, conn, replies>>

EditReferenceData(p) ==
  /\ lock = NoClient
  /\ p \notin stale
  /\ stale' = stale \cup {p}
  /\ UNCHANGED <<db, persisted, lock, conn, replies>>

Request(c) ==
  /\ conn[c].stage = "idle"
  /\ \E r \in Requests :
       conn' = [conn EXCEPT ![c] = [Quiet EXCEPT !.stage = "waiting", !.req = r]]
  /\ UNCHANGED <<db, persisted, stale, lock, replies>>

\* Mutant of Begin: a deferred BEGIN reads without reserving the writer.
BeginDeferred(c) ==
  /\ conn[c].stage = "waiting"
  /\ conn' = [conn EXCEPT ![c].stage = "checking", ![c].rows = db]
  /\ UNCHANGED <<db, persisted, stale, lock, replies>>

Begin(c) ==
  /\ conn[c].stage = "waiting"
  /\ lock = NoClient
  /\ lock' = c
  /\ conn' = [conn EXCEPT ![c].stage = "checking", ![c].rows = db]
  /\ UNCHANGED <<db, persisted, stale, replies>>

(***************************************************************************)
(* The transaction ends: committed or rolled back, the connection drops    *)
(* its uncommitted rows and the lock.                                      *)
(***************************************************************************)
End(c) ==
  /\ conn' = [conn EXCEPT ![c] = Quiet]
  /\ lock' = IF lock = c THEN NoClient ELSE lock

Answer(c, k, replayed) ==
  replies' = replies \cup
    {[req |-> conn[c].req, decision |-> k, replayed |-> replayed]}

Asked(c) == [proposal |-> conn[c].req.proposal, reviewer |-> conn[c].req.reviewer]

\* The decision rows of a proposal; uq_review_accepted allows one.
AcceptedUnder(rows, p) ==
  {k \in Keys : rows.decision[k] # NoDecision /\ rows.decision[k].proposal = p}

KeyKnown(c) == conn[c].rows.decision[conn[c].req.key] # NoDecision

\* Mutant of SameKey: the key alone identifies the confirmation.
SameKeyAnyRequest(c) == KeyKnown(c)

\* The key was used before, for this proposal and by this reviewer.
SameKey(c) == conn[c].rows.decision[conn[c].req.key] = Asked(c)

\* The key is new, and this reviewer accepted the proposal under another.
AcceptedBefore(c, k) ==
  /\ ~ KeyKnown(c)
  /\ conn[c].req.proposal \in persisted
  /\ k \in AcceptedUnder(conn[c].rows, conn[c].req.proposal)
  /\ conn[c].rows.decision[k] = Asked(c)

\* Mutant of MayDecide: an earlier acceptance is not looked up.
MayDecideAgain(c) ==
  /\ ~ KeyKnown(c)
  /\ conn[c].req.proposal \in persisted \ stale

\* Mutant of MayDecide: evidence is trusted from the time of processing.
MayDecideUnvalidated(c) ==
  /\ ~ KeyKnown(c)
  /\ conn[c].req.proposal \in persisted
  /\ AcceptedUnder(conn[c].rows, conn[c].req.proposal) = {}

\* The key is new, the proposal known and open, all its evidence validates.
MayDecide(c) ==
  /\ ~ KeyKnown(c)
  /\ conn[c].req.proposal \in persisted \ stale
  /\ AcceptedUnder(conn[c].rows, conn[c].req.proposal) = {}

ReplayKey(c) ==
  /\ conn[c].stage = "checking"
  /\ SameKey(c)
  /\ Answer(c, conn[c].req.key, TRUE)
  /\ End(c)
  /\ UNCHANGED <<db, persisted, stale>>

\* The key of this request is recorded nowhere.
ReplayAccepted(c) ==
  /\ conn[c].stage = "checking"
  /\ \E k \in Keys : AcceptedBefore(c, k) /\ Answer(c, k, TRUE)
  /\ End(c)
  /\ UNCHANGED <<db, persisted, stale>>

Validate(c) ==
  /\ conn[c].stage = "checking"
  /\ MayDecide(c)
  /\ Stage(c, "decision")
  /\ UNCHANGED <<db, persisted, stale, lock, replies>>

\* A typed conflict, an unknown proposal or evidence that became invalid.
Refuse(c) ==
  /\ conn[c].stage = "checking"
  /\ ~ SameKey(c) /\ ~ MayDecide(c)
  /\ \A k \in Keys : ~ AcceptedBefore(c, k)
  /\ End(c)
  /\ UNCHANGED <<db, persisted, stale, replies>>

(***************************************************************************)
(* The five writes of a fresh acceptance, and the unique constraints they  *)
(* meet in the database as it is when they run.                            *)
(***************************************************************************)
Write(c, from, to, rows) ==
  /\ conn[c].stage = from
  /\ conn' = [conn EXCEPT ![c].stage = to, ![c].rows = rows]
  /\ UNCHANGED <<db, persisted, stale, lock, replies>>

InsertDecision(c) ==
  Write(c, "decision", "relation",
        [conn[c].rows EXCEPT !.decision[conn[c].req.key] = Asked(c)])

InsertRelation(c) ==
  Write(c, "relation", "links",
        [conn[c].rows EXCEPT !.relation[conn[c].req.proposal] = conn[c].req.key])

InsertLinks(c) ==
  Write(c, "links", "proposal",
        [conn[c].rows EXCEPT !.linked = @ \cup {conn[c].req.proposal}])

AcceptProposal(c) ==
  Write(c, "proposal", "audit",
        [conn[c].rows EXCEPT !.accepted = @ \cup {conn[c].req.proposal}])

\* Mutant of InsertAudit: the audit event is left out.
InsertNoAudit(c) == Write(c, "audit", "commit", conn[c].rows)

InsertAudit(c) ==
  Write(c, "audit", "commit",
        [conn[c].rows EXCEPT !.audit[conn[c].req.key] = Asked(c)])

Commit(c) ==
  /\ conn[c].stage = "commit"
  /\ db' = conn[c].rows
  /\ Answer(c, conn[c].req.key, FALSE)
  /\ End(c)
  /\ UNCHANGED <<persisted, stale>>

(***************************************************************************)
(* The write lock stays busy past busy_timeout, a statement fails, or the  *)
(* web process dies between two statements: all is rolled back.            *)
(***************************************************************************)
RollBack(c) ==
  /\ conn[c].stage # "idle"
  /\ End(c)
  /\ UNCHANGED <<db, persisted, stale, replies>>

ConfirmStep(c) ==
  \/ Request(c) \/ Begin(c)
  \/ ReplayKey(c) \/ ReplayAccepted(c) \/ Validate(c) \/ Refuse(c)
  \/ InsertDecision(c) \/ InsertRelation(c) \/ InsertLinks(c)
  \/ AcceptProposal(c) \/ InsertAudit(c) \/ Commit(c)
  \/ RollBack(c)

Next ==
  \/ \E p \in Proposals : PersistProposal(p) \/ EditReferenceData(p)
  \/ \E c \in Clients : ConfirmStep(c)

Spec == Init /\ [][Next]_vars

-----------------------------------------------------------------------------
(***************************************************************************)
(* Types, and: whoever is past BEGIN IMMEDIATE is the holder of the lock.  *)
(***************************************************************************)
TypeOK ==
  /\ db \in Rows
  /\ persisted \subseteq Proposals /\ stale \subseteq Proposals
  /\ lock \in Clients \cup {NoClient}
  /\ conn \in [Clients -> [stage : Stages, req : Requests \cup {NoRequest},
                         rows : Rows]]
  /\ replies \subseteq [req : Requests, decision : Keys, replayed : BOOLEAN]
  /\ \A c \in Clients :
       /\ conn[c].stage \notin {"idle", "waiting"} <=> lock = c
       /\ conn[c].stage # "idle" => conn[c].req \in Requests

(***************************************************************************)
(* A transaction that got as far as writing meets no unique constraint     *)
(* when it does (idempotency_key, uq_review_accepted, the relation's       *)
(* identity, the audit's correlation key): concurrent duplicates end in a  *)
(* replay or a typed conflict, never in a raw IntegrityError.              *)
(***************************************************************************)
WritesNeverCollide ==
  \A c \in Clients :
    LET r == conn[c].req
    IN  conn[c].stage \notin {"idle", "waiting", "checking"} =>
          /\ db.decision[r.key] = NoDecision
          /\ AcceptedUnder(db, r.proposal) = {}
          /\ db.relation[r.proposal] = NoKey
          /\ db.audit[r.key] = NoDecision

(***************************************************************************)
(* A confirmation is visible whole or not at all: the decision, the        *)
(* relation that retrieval joins through, its evidence links, the          *)
(* proposal's state and the audit event tell the same story.               *)
(***************************************************************************)
ConfirmationIsWhole ==
  /\ \A p \in Proposals :
       /\ AcceptedUnder(db, p) = {k \in Keys : db.relation[p] = k}
       /\ p \in db.linked <=> db.relation[p] # NoKey
       /\ p \in db.accepted <=> db.relation[p] # NoKey
  /\ db.audit = db.decision

(***************************************************************************)
(* Every successful answer, first or replayed, keeps naming a decision     *)
(* that stands, for the proposal and the reviewer of that request; so all  *)
(* answers about one proposal name the same decision, and the exact repeat *)
(* of a request that was answered first is found under its own key.        *)
(***************************************************************************)
RepliesStand ==
  /\ \A a \in replies :
       /\ db.decision[a.decision] =
            [proposal |-> a.req.proposal, reviewer |-> a.req.reviewer]
       /\ a.replayed \/ a.decision = a.req.key
  /\ \A a, b \in replies : a.req.proposal = b.req.proposal => a.decision = b.decision

(***************************************************************************)
(* No relation rests on evidence that fails validation when it is          *)
(* committed: what was validated cannot be edited before the commit.       *)
(***************************************************************************)
CommittedEvidenceIsValid ==
  [][\A p \in Proposals :
       db.relation[p] = NoKey /\ db'.relation[p] # NoKey => p \notin stale]_vars

(***************************************************************************)
(* The committed rows implement the ledger of decisions.                   *)
(***************************************************************************)
Ledger == INSTANCE ReviewLedger WITH
  accepted <- [p \in Proposals |->
                 IF db.relation[p] = NoKey THEN NoDecision
                 ELSE [key |-> db.relation[p],
                       reviewer |-> db.decision[db.relation[p]].reviewer]]

LedgerSpec == Ledger!Spec

(***************************************************************************)
(* What the README says of machine confirmation: an idempotency key stands *)
(* for one confirmation, reusing it for other semantics is refused. So two *)
(* successful answers to one key would be for one proposal and reviewer.   *)
(***************************************************************************)
KeyMeansOneConfirmation ==
  \A a, b \in replies : a.req.key = b.req.key => a.req = b.req
=============================================================================
