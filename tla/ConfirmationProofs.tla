------------------------- MODULE ConfirmationProofs -------------------------
(***************************************************************************)
(* Proofs about Confirmation: what BEGIN IMMEDIATE gives to a transaction  *)
(* of five writes, and that confirmation implements ReviewLedger.          *)
(***************************************************************************)
EXTENDS Confirmation, TLAPS

Writing(c) == conn[c].stage \notin {"idle", "waiting", "checking"}

(***************************************************************************)
(* What a transaction has not committed yet is what is committed and the   *)
(* writes it has done.                                                     *)
(***************************************************************************)
RowsFollow(c) ==
  LET at == conn[c].stage
      r == conn[c].req
      w == conn[c].rows
      decided == [proposal |-> r.proposal, reviewer |-> r.reviewer]
  IN  at \notin {"idle", "waiting"} =>
        /\ w.decision = IF at \in {"checking", "decision"} THEN db.decision
                        ELSE [db.decision EXCEPT ![r.key] = decided]
        /\ w.relation = IF at \in {"checking", "decision", "relation"} THEN db.relation
                        ELSE [db.relation EXCEPT ![r.proposal] = r.key]
        /\ w.linked = IF at \in {"proposal", "audit", "commit"}
                      THEN db.linked \cup {r.proposal} ELSE db.linked
        /\ w.accepted = IF at \in {"audit", "commit"}
                        THEN db.accepted \cup {r.proposal} ELSE db.accepted
        /\ w.audit = IF at = "commit" THEN [db.audit EXCEPT ![r.key] = decided]
                     ELSE db.audit

\* What was validated is valid until the transaction ends.
ValidatedStays == \A c \in Clients : Writing(c) => conn[c].req.proposal \notin stale

RepliesNameDecisions ==
  \A a \in replies :
    /\ db.decision[a.decision] =
         [proposal |-> a.req.proposal, reviewer |-> a.req.reviewer]
    /\ a.replayed \/ a.decision = a.req.key

Inductive ==
  /\ TypeOK
  /\ \A c \in Clients : RowsFollow(c)
  /\ WritesNeverCollide
  /\ ConfirmationIsWhole
  /\ ValidatedStays
  /\ RepliesNameDecisions

-----------------------------------------------------------------------------
LEMMA NoRowsType == NoRows \in Rows
BY DEF NoRows, Rows

\* Only its holder is past BEGIN IMMEDIATE.
LEMMA OneWriter ==
  ASSUME TypeOK, NEW c \in Clients, NEW e \in Clients,
         conn[c].stage \notin {"idle", "waiting"}, conn[e].stage \notin {"idle", "waiting"}
  PROVE  c = e
BY DEF TypeOK

LEMMA EndType ==
  ASSUME TypeOK, NEW c \in Clients, End(c)
  PROVE  /\ lock' \in Clients \cup {NoClient}
         /\ conn' \in [Clients -> [stage : Stages, req : Requests \cup {NoRequest},
                                   rows : Rows]]
         /\ \A e \in Clients :
              /\ conn'[e].stage \notin {"idle", "waiting"} <=> lock' = e
              /\ conn'[e].stage # "idle" => conn'[e].req \in Requests
         /\ conn'[c] = Quiet
         /\ \A e \in Clients \ {c} : conn'[e] = conn[e]
<1>1. Quiet \in [stage : Stages, req : Requests \cup {NoRequest}, rows : Rows]
  BY NoRowsType DEF Quiet, Stages
<1>2. conn'[c] = Quiet /\ \A e \in Clients \ {c} : conn'[e] = conn[e]
  BY DEF TypeOK, End
<1>3. conn' \in [Clients -> [stage : Stages, req : Requests \cup {NoRequest}, rows : Rows]]
  BY <1>1 DEF TypeOK, End
<1>4. lock' \in Clients \cup {NoClient}
  BY DEF TypeOK, End
<1>5. ASSUME NEW e \in Clients
      PROVE  /\ conn'[e].stage \notin {"idle", "waiting"} <=> lock' = e
             /\ conn'[e].stage # "idle" => conn'[e].req \in Requests
  <2>1. CASE e = c
    BY <1>2, <2>1, ConfirmationAssumption DEF End, Quiet
  <2>2. CASE e # c
    BY <1>2, <2>2, ConfirmationAssumption DEF TypeOK, End
  <2> QED BY <2>1, <2>2
<1> QED BY <1>2, <1>3, <1>4, <1>5

LEMMA WriteType ==
  ASSUME TypeOK, NEW c \in Clients, NEW rows \in Rows,
         NEW from \in Stages \ {"idle", "waiting"}, NEW to \in Stages \ {"idle", "waiting"},
         Write(c, from, to, rows)
  PROVE  /\ TypeOK'
         /\ conn'[c] = [conn[c] EXCEPT !.stage = to, !.rows = rows]
         /\ \A e \in Clients \ {c} : conn'[e] = conn[e]
<1>1. /\ conn'[c] = [conn[c] EXCEPT !.stage = to, !.rows = rows]
      /\ \A e \in Clients \ {c} : conn'[e] = conn[e]
  BY DEF TypeOK, Write
<1>2. conn' \in [Clients -> [stage : Stages, req : Requests \cup {NoRequest}, rows : Rows]]
  BY DEF TypeOK, Write
<1>3. conn'[c].stage = to /\ conn'[c].req = conn[c].req /\ conn[c].stage = from
  BY <1>1 DEF TypeOK, Write
<1> QED BY <1>1, <1>2, <1>3 DEF TypeOK, Write

LEMMA AnswerType ==
  ASSUME TypeOK, NEW c \in Clients, NEW k \in Keys, NEW f \in BOOLEAN,
         conn[c].stage # "idle", Answer(c, k, f)
  PROVE  replies' \subseteq [req : Requests, decision : Keys, replayed : BOOLEAN]
BY DEF TypeOK, Answer

\* What each write leaves is of the right type.
LEMMA WrittenRows ==
  ASSUME TypeOK, NEW c \in Clients, conn[c].stage # "idle"
  PROVE  /\ conn[c].rows \in Rows
         /\ conn[c].req.key \in Keys /\ conn[c].req.proposal \in Proposals
         /\ conn[c].req.reviewer \in Reviewers
         /\ Asked(c) \in Decisions
         /\ [conn[c].rows EXCEPT !.decision[conn[c].req.key] = Asked(c)] \in Rows
         /\ [conn[c].rows EXCEPT !.relation[conn[c].req.proposal] = conn[c].req.key] \in Rows
         /\ [conn[c].rows EXCEPT !.linked = @ \cup {conn[c].req.proposal}] \in Rows
         /\ [conn[c].rows EXCEPT !.accepted = @ \cup {conn[c].req.proposal}] \in Rows
         /\ [conn[c].rows EXCEPT !.audit[conn[c].req.key] = Asked(c)] \in Rows
<1>1. conn[c].rows \in Rows /\ conn[c].req \in Requests
  BY DEF TypeOK
<1>2. /\ conn[c].req.key \in Keys /\ conn[c].req.proposal \in Proposals
      /\ conn[c].req.reviewer \in Reviewers
  BY <1>1 DEF Requests
<1>3. Asked(c) \in Decisions
  BY <1>2 DEF Asked, Decisions
<1> QED BY <1>1, <1>2, <1>3 DEF Rows

LEMMA TypeStep == ASSUME TypeOK, [Next]_vars PROVE TypeOK'
<1>1. CASE UNCHANGED vars
  BY <1>1 DEF TypeOK, vars
<1>2. ASSUME NEW p \in Proposals, PersistProposal(p) \/ EditReferenceData(p) PROVE TypeOK'
  BY <1>2 DEF TypeOK, PersistProposal, EditReferenceData
<1>3. ASSUME NEW c \in Clients, Request(c) PROVE TypeOK'
  <2>1. PICK r \in Requests :
          conn' = [conn EXCEPT ![c] = [Quiet EXCEPT !.stage = "waiting", !.req = r]]
    BY <1>3 DEF Request
  <2> DEFINE Conns == [stage : Stages, req : Requests \cup {NoRequest}, rows : Rows]
             q == [Quiet EXCEPT !.stage = "waiting", !.req = r]
  <2>2. q \in Conns /\ q.stage = "waiting" /\ q.req = r
    <3>1. Quiet \in Conns
      BY NoRowsType DEF Quiet, Stages
    <3> QED BY <3>1 DEF Stages
  <2>3. conn' \in [Clients -> Conns] /\ conn'[c] = q /\ \A e \in Clients \ {c} : conn'[e] = conn[e]
    BY <2>1, <2>2 DEF TypeOK
  <2> HIDE DEF q
  <2> QED BY <1>3, <2>2, <2>3 DEF TypeOK, Request
<1>4. ASSUME NEW c \in Clients, Begin(c) PROVE TypeOK'
  <2>1. conn' \in [Clients -> [stage : Stages, req : Requests \cup {NoRequest}, rows : Rows]]
    BY <1>4 DEF TypeOK, Begin, Stages
  <2>2. /\ conn'[c].stage = "checking" /\ conn'[c].req = conn[c].req
        /\ \A e \in Clients \ {c} : conn'[e] = conn[e]
    BY <1>4 DEF TypeOK, Begin
  <2> QED BY <1>4, <2>1, <2>2, ConfirmationAssumption DEF TypeOK, Begin
<1>5. ASSUME NEW c \in Clients, ReplayKey(c) PROVE TypeOK'
  BY <1>5, EndType, AnswerType, WrittenRows DEF TypeOK, ReplayKey
<1>6. ASSUME NEW c \in Clients, ReplayAccepted(c) PROVE TypeOK'
  BY <1>6, EndType, AnswerType DEF TypeOK, ReplayAccepted
<1>7. ASSUME NEW c \in Clients, Validate(c) PROVE TypeOK'
  <2>1. conn' \in [Clients -> [stage : Stages, req : Requests \cup {NoRequest}, rows : Rows]]
    BY <1>7 DEF TypeOK, Validate, Stage, Stages
  <2>2. /\ conn'[c].stage = "decision" /\ conn'[c].req = conn[c].req
        /\ \A e \in Clients \ {c} : conn'[e] = conn[e]
    BY <1>7 DEF TypeOK, Validate, Stage
  <2> QED BY <1>7, <2>1, <2>2 DEF TypeOK, Validate
<1>8. ASSUME NEW c \in Clients, Refuse(c) \/ RollBack(c) PROVE TypeOK'
  BY <1>8, EndType DEF TypeOK, Refuse, RollBack
<1>9. ASSUME NEW c \in Clients, InsertDecision(c) PROVE TypeOK'
  BY <1>9, WrittenRows, WriteType DEF InsertDecision, Write, Stages
<1>10. ASSUME NEW c \in Clients, InsertRelation(c) PROVE TypeOK'
  BY <1>10, WrittenRows, WriteType DEF InsertRelation, Write, Stages
<1>11. ASSUME NEW c \in Clients, InsertLinks(c) PROVE TypeOK'
  BY <1>11, WrittenRows, WriteType DEF InsertLinks, Write, Stages
<1>12. ASSUME NEW c \in Clients, AcceptProposal(c) PROVE TypeOK'
  BY <1>12, WrittenRows, WriteType DEF AcceptProposal, Write, Stages
<1>13. ASSUME NEW c \in Clients, InsertAudit(c) PROVE TypeOK'
  BY <1>13, WrittenRows, WriteType DEF InsertAudit, Write, Stages
<1>14. ASSUME NEW c \in Clients, Commit(c) PROVE TypeOK'
  BY <1>14, EndType, AnswerType, WrittenRows DEF TypeOK, Commit
<1> QED
  BY <1>1, <1>2, <1>3, <1>4, <1>5, <1>6, <1>7, <1>8, <1>9, <1>10, <1>11, <1>12,
     <1>13, <1>14 DEF Next, ConfirmStep

\* Types hold, and the lock has one holder, for any number of requests.
THEOREM ConfirmationTypes == Spec => []TypeOK
<1>1. Init => TypeOK
  BY NoRowsType, ConfirmationAssumption DEF Init, TypeOK, Quiet, Stages
<1>2. TypeOK /\ [Next]_vars => TypeOK'
  BY TypeStep
<1> QED BY <1>1, <1>2, PTL DEF Spec

-----------------------------------------------------------------------------
LEMMA InitInductive == Init => Inductive
<1> SUFFICES ASSUME Init PROVE Inductive
  OBVIOUS
<1>1. TypeOK
  BY NoRowsType, ConfirmationAssumption DEF Init, TypeOK, Quiet, Stages
<1>2. \A c \in Clients : conn[c].stage = "idle"
  BY DEF Init, Quiet
<1>3. /\ \A c \in Clients : RowsFollow(c)
      /\ WritesNeverCollide /\ ValidatedStays
  BY <1>2 DEF RowsFollow, WritesNeverCollide, ValidatedStays, Writing
<1>4. ConfirmationIsWhole
  BY ConfirmationAssumption DEF Init, NoRows, ConfirmationIsWhole, AcceptedUnder
<1>5. RepliesNameDecisions
  BY DEF Init, RepliesNameDecisions
<1> QED BY <1>1, <1>3, <1>4, <1>5 DEF Inductive

(***************************************************************************)
(* A step of one request that commits nothing concerns that request alone. *)
(***************************************************************************)
LEMMA LocalStep ==
  ASSUME Inductive, NEW c \in Clients,
         db' = db, stale' = stale,
         \A e \in Clients \ {c} : conn'[e] = conn[e],
         RowsFollow(c)',
         Writing(c)' =>
           /\ db.decision[conn'[c].req.key] = NoDecision
           /\ AcceptedUnder(db, conn'[c].req.proposal) = {}
           /\ db.relation[conn'[c].req.proposal] = NoKey
           /\ db.audit[conn'[c].req.key] = NoDecision
           /\ conn'[c].req.proposal \notin stale
  PROVE  /\ \A e \in Clients : RowsFollow(e)'
         /\ WritesNeverCollide' /\ ConfirmationIsWhole' /\ ValidatedStays'
<1>1. \A e \in Clients : RowsFollow(e)'
  <2> SUFFICES ASSUME NEW e \in Clients, e # c PROVE RowsFollow(e)'
    OBVIOUS
  <2>1. RowsFollow(e) /\ conn'[e] = conn[e] /\ db' = db
    BY DEF Inductive
  <2> QED BY <2>1 DEF RowsFollow
<1>2. WritesNeverCollide'
  BY DEF Inductive, WritesNeverCollide, Writing, AcceptedUnder
<1>3. ConfirmationIsWhole'
  BY DEF Inductive, ConfirmationIsWhole, AcceptedUnder
<1>4. ValidatedStays'
  BY DEF Inductive, ValidatedStays, Writing
<1> QED BY <1>1, <1>2, <1>3, <1>4

\* A request that ends without a commit.
LEMMA EndKeeps ==
  ASSUME Inductive, NEW c \in Clients, End(c), db' = db, stale' = stale
  PROVE  /\ \A e \in Clients : RowsFollow(e)'
         /\ WritesNeverCollide' /\ ConfirmationIsWhole' /\ ValidatedStays'
<1>1. conn'[c] = Quiet /\ \A e \in Clients \ {c} : conn'[e] = conn[e]
  BY EndType DEF Inductive
<1>2. RowsFollow(c)' /\ ~ Writing(c)'
  BY <1>1 DEF RowsFollow, Writing, Quiet
<1> QED BY <1>1, <1>2, LocalStep

\* An answer that names a decision for its own request.
LEMMA AnswerKeeps ==
  ASSUME Inductive, NEW c \in Clients, NEW k \in Keys, NEW f \in BOOLEAN,
         Answer(c, k, f), \A i \in Keys : db.decision[i] # NoDecision => db'.decision[i] = db.decision[i],
         db'.decision[k] = Asked(c), f \/ k = conn[c].req.key
  PROVE  RepliesNameDecisions'
<1> SUFFICES ASSUME NEW a \in replies'
             PROVE  /\ db'.decision[a.decision] =
                         [proposal |-> a.req.proposal, reviewer |-> a.req.reviewer]
                    /\ a.replayed \/ a.decision = a.req.key
  BY DEF RepliesNameDecisions
<1>1. CASE a \in replies
  <2>1. a \in [req : Requests, decision : Keys, replayed : BOOLEAN]
    BY <1>1 DEF Inductive, TypeOK
  <2>2. db.decision[a.decision] # NoDecision
    <3>1. a.req.proposal \in Proposals /\ a.req.reviewer \in Reviewers
      BY <2>1 DEF Requests
    <3>2. db.decision[a.decision] = [proposal |-> a.req.proposal, reviewer |-> a.req.reviewer]
      BY <1>1 DEF Inductive, RepliesNameDecisions
    <3> QED BY <3>1, <3>2, ConfirmationAssumption
  <2> QED BY <1>1, <2>1, <2>2 DEF Inductive, RepliesNameDecisions
<1>2. CASE a = [req |-> conn[c].req, decision |-> k, replayed |-> f]
  BY <1>2 DEF Asked
<1> QED BY <1>1, <1>2 DEF Answer

(***************************************************************************)
(* The five writes: each adds to the uncommitted rows what RowsFollow says *)
(* of the stage that comes next.                                           *)
(***************************************************************************)
LEMMA WriteKeeps ==
  ASSUME Inductive, NEW c \in Clients,
         InsertDecision(c) \/ InsertRelation(c) \/ InsertLinks(c)
           \/ AcceptProposal(c) \/ InsertAudit(c)
  PROVE  /\ \A e \in Clients : RowsFollow(e)'
         /\ WritesNeverCollide' /\ ConfirmationIsWhole' /\ ValidatedStays'
<1> DEFINE w == conn[c].rows
           r == conn[c].req
<1>1. /\ db' = db /\ stale' = stale
      /\ Writing(c) /\ RowsFollow(c)
      /\ conn'[c].req = r
      /\ \A e \in Clients \ {c} : conn'[e] = conn[e]
  BY DEF InsertDecision, InsertRelation, InsertLinks, AcceptProposal, InsertAudit,
         Write, Writing, Inductive, TypeOK
<1>2. w \in Rows
  BY DEF Inductive, TypeOK
<1>3. RowsFollow(c)'
  <2>1. CASE InsertDecision(c)
    <3>1. /\ conn'[c].stage = "relation" /\ conn[c].stage = "decision"
          /\ conn'[c].rows = [w EXCEPT !.decision[r.key] = Asked(c)]
      BY <2>1 DEF InsertDecision, Write, Inductive, TypeOK
    <3> QED BY <1>1, <1>2, <3>1 DEF RowsFollow, Asked, Rows
  <2>2. CASE InsertRelation(c)
    <3>1. /\ conn'[c].stage = "links" /\ conn[c].stage = "relation"
          /\ conn'[c].rows = [w EXCEPT !.relation[r.proposal] = r.key]
      BY <2>2 DEF InsertRelation, Write, Inductive, TypeOK
    <3> QED BY <1>1, <1>2, <3>1 DEF RowsFollow, Asked, Rows
  <2>3. CASE InsertLinks(c)
    <3>1. /\ conn'[c].stage = "proposal" /\ conn[c].stage = "links"
          /\ conn'[c].rows = [w EXCEPT !.linked = @ \cup {r.proposal}]
      BY <2>3 DEF InsertLinks, Write, Inductive, TypeOK
    <3> QED BY <1>1, <1>2, <3>1 DEF RowsFollow, Asked, Rows
  <2>4. CASE AcceptProposal(c)
    <3>1. /\ conn'[c].stage = "audit" /\ conn[c].stage = "proposal"
          /\ conn'[c].rows = [w EXCEPT !.accepted = @ \cup {r.proposal}]
      BY <2>4 DEF AcceptProposal, Write, Inductive, TypeOK
    <3> QED BY <1>1, <1>2, <3>1 DEF RowsFollow, Asked, Rows
  <2>5. CASE InsertAudit(c)
    <3>1. /\ conn'[c].stage = "commit" /\ conn[c].stage = "audit"
          /\ conn'[c].rows = [w EXCEPT !.audit[r.key] = Asked(c)]
      BY <2>5 DEF InsertAudit, Write, Inductive, TypeOK
    <3> QED BY <1>1, <1>2, <3>1 DEF RowsFollow, Asked, Rows
  <2> QED BY <2>1, <2>2, <2>3, <2>4, <2>5
<1>4. /\ db.decision[r.key] = NoDecision
      /\ AcceptedUnder(db, r.proposal) = {}
      /\ db.relation[r.proposal] = NoKey
      /\ db.audit[r.key] = NoDecision
      /\ r.proposal \notin stale
  BY <1>1 DEF Inductive, WritesNeverCollide, ValidatedStays, Writing
<1> QED BY <1>1, <1>3, <1>4, LocalStep

\* The check of an open proposal is what keeps the writes from colliding.
LEMMA ValidateKeeps ==
  ASSUME Inductive, NEW c \in Clients, Validate(c)
  PROVE  /\ \A e \in Clients : RowsFollow(e)'
         /\ WritesNeverCollide' /\ ConfirmationIsWhole' /\ ValidatedStays'
<1> DEFINE r == conn[c].req
<1>1. /\ conn[c].stage = "checking" /\ conn'[c] = [conn[c] EXCEPT !.stage = "decision"]
      /\ \A e \in Clients \ {c} : conn'[e] = conn[e]
      /\ db' = db /\ stale' = stale
  BY DEF Validate, Stage, Inductive, TypeOK
<1>2. /\ conn[c].rows.decision = db.decision
      /\ r.key \in Keys /\ r.proposal \in Proposals
  BY <1>1, WrittenRows DEF Inductive, RowsFollow
<1>3. /\ conn'[c].stage = "decision" /\ conn'[c].req = r /\ conn'[c].rows = conn[c].rows
  BY <1>1 DEF Inductive, TypeOK
<1>4. RowsFollow(c)'
  BY <1>1, <1>3 DEF Inductive, RowsFollow
<1>5. /\ db.decision[r.key] = NoDecision
      /\ AcceptedUnder(db, r.proposal) = {}
      /\ r.proposal \notin stale
  BY <1>2 DEF Validate, MayDecide, KeyKnown, AcceptedUnder
<1>6. db.relation[r.proposal] = NoKey
  <2>1. db.relation[r.proposal] \in Keys \cup {NoKey}
    BY <1>2 DEF Inductive, TypeOK, Rows
  <2>2. {k \in Keys : db.relation[r.proposal] = k} = {}
    BY <1>2, <1>5 DEF Inductive, ConfirmationIsWhole
  <2> QED BY <2>1, <2>2
<1>7. db.audit[r.key] = NoDecision
  BY <1>5 DEF Inductive, ConfirmationIsWhole
<1> QED BY <1>1, <1>3, <1>4, <1>5, <1>6, <1>7, LocalStep

(***************************************************************************)
(* The commit: what it changes of the committed rows, and why nothing that *)
(* stood before is lost.                                                   *)
(***************************************************************************)
LEMMA CommitEffect ==
  ASSUME Inductive, NEW c \in Clients, Commit(c)
  PROVE  LET r == conn[c].req
         IN  /\ r.key \in Keys /\ r.proposal \in Proposals /\ r.reviewer \in Reviewers
             /\ db.decision[r.key] = NoDecision
             /\ AcceptedUnder(db, r.proposal) = {}
             /\ db.relation[r.proposal] = NoKey
             /\ r.proposal \notin stale
             /\ Asked(c) # NoDecision
             /\ db'.decision = [db.decision EXCEPT ![r.key] = Asked(c)]
             /\ db'.relation = [db.relation EXCEPT ![r.proposal] = r.key]
             /\ db'.linked = db.linked \cup {r.proposal}
             /\ db'.accepted = db.accepted \cup {r.proposal}
             /\ db'.audit = [db.audit EXCEPT ![r.key] = Asked(c)]
<1>1. conn[c].stage = "commit" /\ db' = conn[c].rows
  BY DEF Commit
<1>2. Asked(c) # NoDecision
  BY <1>1, WrittenRows, ConfirmationAssumption DEF Inductive, Decisions
<1> DEFINE r == conn[c].req
<1>3. r.key \in Keys /\ r.proposal \in Proposals /\ r.reviewer \in Reviewers
  BY <1>1, WrittenRows DEF Inductive
<1>4. /\ db.decision[r.key] = NoDecision /\ AcceptedUnder(db, r.proposal) = {}
      /\ db.relation[r.proposal] = NoKey /\ r.proposal \notin stale
  BY <1>1 DEF Inductive, WritesNeverCollide, ValidatedStays, Writing
<1>5. /\ db'.decision = [db.decision EXCEPT ![r.key] = Asked(c)]
      /\ db'.relation = [db.relation EXCEPT ![r.proposal] = r.key]
      /\ db'.linked = db.linked \cup {r.proposal}
      /\ db'.accepted = db.accepted \cup {r.proposal}
      /\ db'.audit = [db.audit EXCEPT ![r.key] = Asked(c)]
  BY <1>1 DEF Inductive, RowsFollow, Asked
<1> QED BY <1>2, <1>3, <1>4, <1>5

LEMMA CommitKeeps ==
  ASSUME Inductive, NEW c \in Clients, Commit(c)
  PROVE  /\ \A e \in Clients : RowsFollow(e)'
         /\ WritesNeverCollide' /\ ConfirmationIsWhole' /\ ValidatedStays'
         /\ RepliesNameDecisions'
<1> DEFINE r == conn[c].req
<1>1. /\ conn'[c] = Quiet /\ \A e \in Clients \ {c} : conn'[e] = conn[e]
      /\ stale' = stale /\ conn[c].stage = "commit"
  BY EndType DEF Inductive, Commit
<1>2. \A e \in Clients : conn'[e].stage \in {"idle", "waiting"}
  BY <1>1, OneWriter DEF Inductive, Quiet
<1>3. (\A e \in Clients : RowsFollow(e)') /\ WritesNeverCollide' /\ ValidatedStays'
  BY <1>2 DEF RowsFollow, WritesNeverCollide, ValidatedStays, Writing
<1>4. /\ db.decision \in [Keys -> Decisions \cup {NoDecision}]
      /\ db.relation \in [Proposals -> Keys \cup {NoKey}]
      /\ r.key \in Keys /\ r.proposal \in Proposals /\ r.key # NoKey
      /\ Asked(c) # NoDecision /\ Asked(c).proposal = r.proposal
  <2>1. r.key \in Keys /\ r.proposal \in Proposals /\ Asked(c) # NoDecision
    BY CommitEffect
  <2>2. db \in Rows
    BY DEF Inductive, TypeOK
  <2> QED BY <2>1, <2>2, ConfirmationAssumption DEF Rows, Asked
<1> DEFINE x == Asked(c)
<1>7. /\ db.decision[r.key] = NoDecision /\ AcceptedUnder(db, r.proposal) = {}
      /\ db'.decision = [db.decision EXCEPT ![r.key] = x]
      /\ db'.relation = [db.relation EXCEPT ![r.proposal] = r.key]
      /\ db'.linked = db.linked \cup {r.proposal}
      /\ db'.accepted = db.accepted \cup {r.proposal}
      /\ db'.audit = [db.audit EXCEPT ![r.key] = x]
  BY CommitEffect
<1> HIDE DEF x, r
<1>5. ConfirmationIsWhole'
  <2>1. db'.audit = db'.decision
    BY <1>7 DEF Inductive, ConfirmationIsWhole
  <2> SUFFICES ASSUME NEW p \in Proposals
               PROVE  /\ AcceptedUnder(db', p) = {k \in Keys : db'.relation[p] = k}
                      /\ p \in db'.linked <=> db'.relation[p] # NoKey
                      /\ p \in db'.accepted <=> db'.relation[p] # NoKey
    BY <2>1 DEF ConfirmationIsWhole, AcceptedUnder
  <2>2. /\ AcceptedUnder(db, p) = {k \in Keys : db.relation[p] = k}
        /\ p \in db.linked <=> db.relation[p] # NoKey
        /\ p \in db.accepted <=> db.relation[p] # NoKey
    BY DEF Inductive, ConfirmationIsWhole
  <2>3. x # NoDecision /\ x.proposal = r.proposal
    BY <1>4 DEF x
  <2>4. CASE p = r.proposal
    <3>1. db'.relation[p] = r.key /\ r.key # NoKey
      BY <1>4, <1>7, <2>4
    <3>2. \A k \in Keys :
            db'.decision[k] # NoDecision /\ db'.decision[k].proposal = p <=> k = r.key
      BY <1>4, <1>7, <2>3, <2>4 DEF AcceptedUnder
    <3>3. AcceptedUnder(db', p) = {k \in Keys : db'.relation[p] = k}
      BY <3>1, <3>2 DEF AcceptedUnder
    <3> QED BY <1>7, <2>4, <3>1, <3>3
  <2>5. CASE p # r.proposal
    <3>1. db'.relation[p] = db.relation[p]
      BY <1>4, <1>7, <2>5
    <3>2. \A k \in Keys :
            (db'.decision[k] # NoDecision /\ db'.decision[k].proposal = p)
              <=> (db.decision[k] # NoDecision /\ db.decision[k].proposal = p)
      BY <1>4, <1>7, <2>3, <2>5
    <3>3. AcceptedUnder(db', p) = AcceptedUnder(db, p)
      BY <3>2 DEF AcceptedUnder
    <3> QED BY <1>7, <2>2, <2>5, <3>1, <3>3
  <2> QED BY <2>4, <2>5
<1>6. RepliesNameDecisions'
  <2>1. \A i \in Keys : db.decision[i] # NoDecision => db'.decision[i] = db.decision[i]
    BY <1>4, <1>7
  <2>2. db'.decision[r.key] = Asked(c)
    BY <1>4, <1>7 DEF x
  <2>3. Answer(c, r.key, FALSE) /\ r.key = conn[c].req.key
    BY DEF Commit, r
  <2> QED BY <1>4, <2>1, <2>2, <2>3, AnswerKeeps
<1> QED BY <1>3, <1>5, <1>6

LEMMA InductiveStep == ASSUME Inductive, [Next]_vars PROVE Inductive'
<1>0. TypeOK'
  BY TypeStep DEF Inductive
<1> DEFINE Rest == /\ \A e \in Clients : RowsFollow(e)
                   /\ WritesNeverCollide /\ ConfirmationIsWhole /\ ValidatedStays
                   /\ RepliesNameDecisions
<1> SUFFICES Rest'
  BY <1>0 DEF Inductive
<1>1. ASSUME UNCHANGED <<db, conn, replies>>,
             stale' = stale \/ \A c \in Clients : ~ Writing(c)
      PROVE  Rest'
  <2>1. \A c \in Clients : RowsFollow(c)'
    BY <1>1 DEF Inductive, RowsFollow
  <2>2. WritesNeverCollide' /\ ConfirmationIsWhole'
    BY <1>1 DEF Inductive, WritesNeverCollide, ConfirmationIsWhole, AcceptedUnder
  <2>3. ValidatedStays'
    BY <1>1 DEF Inductive, ValidatedStays, Writing
  <2>4. RepliesNameDecisions'
    BY <1>1 DEF Inductive, RepliesNameDecisions
  <2> QED BY <2>1, <2>2, <2>3, <2>4
<1>2. CASE UNCHANGED vars
  BY <1>1, <1>2 DEF vars
<1>3. ASSUME NEW p \in Proposals, PersistProposal(p) \/ EditReferenceData(p) PROVE Rest'
  <2>1. PersistProposal(p) => Rest'
    BY <1>1 DEF PersistProposal
  <2>2. EditReferenceData(p) => \A c \in Clients : ~ Writing(c)
    BY ConfirmationAssumption DEF EditReferenceData, Inductive, TypeOK, Writing
  <2>3. EditReferenceData(p) => UNCHANGED <<db, conn, replies>>
    BY DEF EditReferenceData
  <2> HIDE DEF Rest
  <2> QED BY <1>1, <1>3, <2>1, <2>2, <2>3
<1>4. ASSUME NEW c \in Clients, Request(c) \/ Begin(c) PROVE Rest'
  <2>1. /\ db' = db /\ stale' = stale /\ replies' = replies
        /\ conn'[c].stage \in {"waiting", "checking"}
        /\ \A e \in Clients \ {c} : conn'[e] = conn[e]
    BY <1>4 DEF Request, Begin, Quiet, Inductive, TypeOK
  <2>2. RowsFollow(c)'
    <3>1. CASE Request(c)
      BY <3>1 DEF Request, Quiet, Inductive, TypeOK, RowsFollow
    <3>2. CASE Begin(c)
      <4>1. conn'[c].stage = "checking" /\ conn'[c].rows = db
        BY <3>2 DEF Begin, Inductive, TypeOK
      <4> QED BY <2>1, <4>1 DEF RowsFollow
    <3> QED BY <1>4, <3>1, <3>2
  <2>3. ~ Writing(c)'
    BY <2>1 DEF Writing
  <2>4. RepliesNameDecisions'
    BY <2>1 DEF Inductive, RepliesNameDecisions
  <2> QED BY <2>1, <2>2, <2>3, <2>4, LocalStep
<1>5. ASSUME NEW c \in Clients, ReplayKey(c) PROVE Rest'
  <2>1. /\ End(c) /\ db' = db /\ stale' = stale
        /\ conn[c].stage = "checking" /\ Answer(c, conn[c].req.key, TRUE)
    BY <1>5 DEF ReplayKey
  <2>2. conn[c].req.key \in Keys /\ db.decision[conn[c].req.key] = Asked(c)
    BY <1>5, <2>1, WrittenRows DEF ReplayKey, SameKey, Inductive, RowsFollow
  <2>3. RepliesNameDecisions'
    BY <2>1, <2>2, AnswerKeeps
  <2> QED BY <2>1, <2>3, EndKeeps
<1>6. ASSUME NEW c \in Clients, ReplayAccepted(c) PROVE Rest'
  <2>1. PICK k \in Keys : AcceptedBefore(c, k) /\ Answer(c, k, TRUE)
    BY <1>6 DEF ReplayAccepted
  <2>2. /\ End(c) /\ db' = db /\ stale' = stale /\ conn[c].stage = "checking"
    BY <1>6 DEF ReplayAccepted
  <2>3. db.decision[k] = Asked(c)
    BY <2>1, <2>2 DEF AcceptedBefore, Inductive, RowsFollow
  <2>4. RepliesNameDecisions'
    BY <2>1, <2>2, <2>3, AnswerKeeps
  <2> QED BY <2>2, <2>4, EndKeeps
<1>7. ASSUME NEW c \in Clients, Refuse(c) \/ RollBack(c) PROVE Rest'
  <2>1. End(c) /\ db' = db /\ stale' = stale /\ replies' = replies
    BY <1>7 DEF Refuse, RollBack
  <2>2. RepliesNameDecisions'
    BY <2>1 DEF Inductive, RepliesNameDecisions
  <2> QED BY <2>1, <2>2, EndKeeps
<1>8. ASSUME NEW c \in Clients, Validate(c) PROVE Rest'
  <2>1. RepliesNameDecisions'
    BY <1>8 DEF Validate, Inductive, RepliesNameDecisions
  <2> QED BY <1>8, <2>1, ValidateKeeps
<1>9. ASSUME NEW c \in Clients,
             InsertDecision(c) \/ InsertRelation(c) \/ InsertLinks(c)
               \/ AcceptProposal(c) \/ InsertAudit(c)
      PROVE  Rest'
  <2>1. RepliesNameDecisions'
    BY <1>9 DEF InsertDecision, InsertRelation, InsertLinks, AcceptProposal, InsertAudit,
                Write, Inductive, RepliesNameDecisions
  <2> QED BY <1>9, <2>1, WriteKeeps
<1>10. ASSUME NEW c \in Clients, Commit(c) PROVE Rest'
  BY <1>10, CommitKeeps
<1> HIDE DEF Rest
<1> QED
  BY <1>1, <1>2, <1>3, <1>4, <1>5, <1>6, <1>7, <1>8, <1>9, <1>10 DEF Next, ConfirmStep

LEMMA Invariance == Spec => []Inductive
<1>1. Inductive /\ [Next]_vars => Inductive'
  BY InductiveStep
<1> QED BY <1>1, InitInductive, PTL DEF Spec

-----------------------------------------------------------------------------
(***************************************************************************)
(* No write of a transaction meets a unique constraint: the one write lock *)
(* keeps what was checked true until the commit.                           *)
(***************************************************************************)
THEOREM NoCollision == Spec => []WritesNeverCollide
<1>1. Inductive => WritesNeverCollide
  BY DEF Inductive
<1> QED BY <1>1, Invariance, PTL

\* Decision, relation, links, proposal and audit agree in every state.
THEOREM Atomicity == Spec => []ConfirmationIsWhole
<1>1. Inductive => ConfirmationIsWhole
  BY DEF Inductive
<1> QED BY <1>1, Invariance, PTL

\* Every answer stands, and all answers about a proposal name one decision.
THEOREM AnswersStand == Spec => []RepliesStand
<1>1. ASSUME Inductive PROVE RepliesStand
  <2> SUFFICES ASSUME NEW a \in replies, NEW b \in replies,
                      a.req.proposal = b.req.proposal
               PROVE  a.decision = b.decision
    BY <1>1 DEF Inductive, RepliesNameDecisions, RepliesStand
  <2> DEFINE p == a.req.proposal
  <2>1. a.decision \in Keys /\ b.decision \in Keys /\ p \in Proposals
        /\ a.req.reviewer \in Reviewers /\ b.req.reviewer \in Reviewers
    BY <1>1 DEF Inductive, TypeOK, Requests
  <2>2. /\ db.decision[a.decision] = [proposal |-> p, reviewer |-> a.req.reviewer]
        /\ db.decision[b.decision] = [proposal |-> p, reviewer |-> b.req.reviewer]
    BY <1>1 DEF Inductive, RepliesNameDecisions
  <2>3. a.decision \in AcceptedUnder(db, p) /\ b.decision \in AcceptedUnder(db, p)
    BY <2>1, <2>2, ConfirmationAssumption DEF AcceptedUnder
  <2>4. AcceptedUnder(db, p) = {k \in Keys : db.relation[p] = k}
    BY <1>1, <2>1 DEF Inductive, ConfirmationIsWhole
  <2> QED BY <2>3, <2>4
<1> QED BY <1>1, Invariance, PTL

\* A step that adds a relation is the commit of a request for it.
LEMMA OnlyCommitWrites ==
  ASSUME [Next]_vars, db' # db
  PROVE  \E c \in Clients : Commit(c)
BY DEF Next, ConfirmStep, PersistProposal, EditReferenceData, Request, Begin, ReplayKey,
       ReplayAccepted, Validate, Refuse, InsertDecision, InsertRelation, InsertLinks,
       AcceptProposal, InsertAudit, Write, RollBack, vars

\* What is committed is valid at that moment.
THEOREM Validity == Spec => CommittedEvidenceIsValid
<1>1. ASSUME Inductive, [Next]_vars,
             NEW p \in Proposals, db.relation[p] = NoKey, db'.relation[p] # NoKey
      PROVE  p \notin stale
  <2>1. PICK c \in Clients : Commit(c)
    BY <1>1, OnlyCommitWrites
  <2>2. p = conn[c].req.proposal
    <3>1. db'.relation = [db.relation EXCEPT ![conn[c].req.proposal] = conn[c].req.key]
      BY <1>1, <2>1, CommitEffect
    <3>2. db \in Rows
      BY <1>1 DEF Inductive, TypeOK
    <3> QED BY <1>1, <3>1, <3>2 DEF Rows
  <2> QED BY <1>1, <2>1, <2>2, CommitEffect
<1>2. Inductive /\ [Next]_vars =>
        [\A p \in Proposals :
           db.relation[p] = NoKey /\ db'.relation[p] # NoKey => p \notin stale]_vars
  BY <1>1
<1> QED BY <1>2, Invariance, PTL DEF Spec, CommittedEvidenceIsValid

-----------------------------------------------------------------------------
Accepted ==
  [p \in Proposals |->
     IF db.relation[p] = NoKey THEN NoDecision
     ELSE [key |-> db.relation[p],
           reviewer |-> db.decision[db.relation[p]].reviewer]]

(***************************************************************************)
(* The rows implement the ledger: a commit is an acceptance, every other   *)
(* step a stutter.                                                         *)
(***************************************************************************)
THEOREM ImplementsLedger == Spec => LedgerSpec
<1>1. Init => Ledger!Init
  BY DEF Init, NoRows, Ledger!Init
<1>2. ASSUME Inductive, [Next]_vars PROVE [Ledger!Next]_Accepted
  <2>1. CASE db' = db
    BY <2>1 DEF Accepted
  <2>2. CASE db' # db
    <3>1. PICK c \in Clients : Commit(c)
      BY <1>2, <2>2, OnlyCommitWrites
    <3> DEFINE r == conn[c].req
    <3>2. /\ r.key \in Keys /\ r.proposal \in Proposals /\ r.reviewer \in Reviewers
          /\ db.decision[r.key] = NoDecision
          /\ db.relation[r.proposal] = NoKey
          /\ db'.decision = [db.decision EXCEPT ![r.key] = Asked(c)]
          /\ db'.relation = [db.relation EXCEPT ![r.proposal] = r.key]
      BY <1>2, <3>1, CommitEffect
    <3>3. db \in Rows /\ r.key # NoKey
      BY <1>2, <3>2, ConfirmationAssumption DEF Inductive, TypeOK
    <3>4. Accepted[r.proposal] = NoDecision
      BY <3>2 DEF Accepted
    <3>5. \A q \in Proposals : db.relation[q] # r.key
      <4> SUFFICES ASSUME NEW q \in Proposals, db.relation[q] = r.key PROVE FALSE
        OBVIOUS
      <4>1. r.key \in AcceptedUnder(db, q)
        BY <1>2, <3>2 DEF Inductive, ConfirmationIsWhole
      <4> QED BY <3>2, <4>1 DEF AcceptedUnder
    <3>6. \A q \in Proposals : Accepted[q] # NoDecision => Accepted[q].key # r.key
      BY <3>5 DEF Accepted
    <3>7. Accepted' = [Accepted EXCEPT ![r.proposal] =
                         [key |-> r.key, reviewer |-> r.reviewer]]
      <4>1. /\ db'.relation[r.proposal] = r.key
            /\ db'.decision[r.key].reviewer = r.reviewer
        BY <3>2, <3>3 DEF Rows, Asked
      <4>2. ASSUME NEW q \in Proposals, q # r.proposal PROVE Accepted'[q] = Accepted[q]
        <5>1. db'.relation[q] = db.relation[q] /\ db.relation[q] \in Keys \cup {NoKey}
          BY <3>2, <3>3, <4>2 DEF Rows
        <5>2. db.relation[q] # NoKey => db'.decision[db.relation[q]] = db.decision[db.relation[q]]
          BY <3>2, <3>3, <3>5, <5>1 DEF Rows
        <5> QED BY <5>1, <5>2 DEF Accepted
      <4>3. Accepted'[r.proposal] = [key |-> r.key, reviewer |-> r.reviewer]
        BY <3>2, <3>3, <4>1 DEF Accepted
      <4>4. /\ Accepted' = [q \in Proposals |-> Accepted'[q]]
            /\ Accepted = [q \in Proposals |-> Accepted[q]]
        BY DEF Accepted
      <4> HIDE DEF r
      <4> QED BY <3>2, <4>2, <4>3, <4>4
    <3>8. PICK p \in Proposals, s \in Reviewers, k \in Keys :
            p = r.proposal /\ s = r.reviewer /\ k = r.key
      BY <3>2
    <3>9. Ledger!Accept(p, s, k)
      BY <3>4, <3>6, <3>7, <3>8 DEF Ledger!Accept, Accepted
    <3> QED BY <3>9 DEF Ledger!Next
  <2> QED BY <2>1, <2>2
<1>3. Inductive /\ [Next]_vars => [Ledger!Next]_Accepted
  BY <1>2
<1> QED BY <1>1, <1>3, Invariance, PTL DEF Spec, LedgerSpec, Ledger!Spec, Accepted
=============================================================================
