----------------------------- MODULE ReviewLoop -----------------------------
(***************************************************************************)
(* Human review, from the queue to retrieval: documents are processed      *)
(* while browsers show their review pages, presses of Confirm come from    *)
(* pages of any age beside confirmations over the JSON endpoint, and the   *)
(* related documents of an object are listed meanwhile.                    *)
(*                                                                         *)
(* Processing and confirmation are taken at what they promise, the modules *)
(* JobLifecycle and ReviewLedger, which ProcessingQueue and Confirmation   *)
(* implement. What is added is the readers. A page is put together from    *)
(* several SELECTs; no transaction is begun for them, so each sees the     *)
(* database as it is when it runs.                                         *)
(***************************************************************************)
EXTENDS Naturals

CONSTANTS
  Documents,
  Proposals,    \* the ids of proposal rows
  DocumentOf,   \* the document each belongs to
  TargetOf,     \* the object each would relate it to
  Facts,
  MaxAttempts,
  Browsers,     \* browser windows with a session, one page in each
  Reviewers,    \* reviewer ids: settings.reviewer_id, past and present
  ApiKeys,      \* keys that clients of the JSON endpoint make up
  Editable,     \* proposals whose reference data may be edited: bounds edits
  NoOutput, NoDecision, NoDocument, NoObject, NoProposal, NoReviewer

Objects == {TargetOf[p] : p \in Proposals}

\* The key in the form of each proposal, web-confirm:<proposal id>.
WebKeys == {"web-confirm"} \X Proposals

Keys == WebKeys \cup ApiKeys

Outputs == [facts : Facts, proposals : SUBSET Proposals]

ASSUME ReviewAssumption ==
  /\ DocumentOf \in [Proposals -> Documents]
  /\ NoOutput \notin Outputs
  /\ NoDecision \notin [key : Keys, reviewer : Reviewers]
  /\ NoDocument \notin Documents
  /\ Editable \subseteq Proposals

VARIABLES
  phase, result, retries,  \* the queue and its output, see JobLifecycle
  accepted,  \* the accepting decision of each proposal, see ReviewLedger
  linked,    \* proposals whose relation has its evidence links
  edited,    \* stored proposals whose reference data were edited since
  page,      \* the review page of each browser
  answer,    \* the answer each browser got to its last press
  listing    \* the list of related documents of each browser

queue == <<phase, result, retries>>
vars == <<queue, accepted, linked, edited, page, answer, listing>>

Queue == INSTANCE JobLifecycle WITH
  ProposalLists <- (SUBSET Proposals) \ {{}}, NoProposals <- {}

Ledger == INSTANCE ReviewLedger

States == {"absent", "pending", "processing", "complete", "failed"}

\* A review page, and a list of related documents; see below.
Pages == [reads : 0..2, doc : Documents \cup {NoDocument},
          reviewer : Reviewers \cup {NoReviewer}, state : States,
          stored : SUBSET Proposals, shown : SUBSET Proposals]

Listings == [at : {"none", "opened", "links"}, object : Objects \cup {NoObject},
             known : SUBSET Proposals, rows : SUBSET Proposals,
             left : SUBSET Proposals, explained : SUBSET Proposals]

Blank == [reads |-> 0, doc |-> NoDocument, reviewer |-> NoReviewer,
          state |-> "absent", stored |-> {}, shown |-> {}]

Unlisted == [at |-> "none", object |-> NoObject, known |-> {}, rows |-> {},
             left |-> {}, explained |-> {}]

Refusals == {"conflict", "unknown", "invalid"}

Answers == [proposal : Proposals \cup {NoProposal}, reviewer : Reviewers \cup {NoReviewer},
            outcome : {"none", "failed", "confirmed"} \cup Refusals]

Unanswered == [proposal |-> NoProposal, reviewer |-> NoReviewer, outcome |-> "none"]

\* What is known of a press that failed, or whose answer was lost.
Failed == [Unanswered EXCEPT !.outcome = "failed"]

Init ==
  /\ Queue!Init /\ Ledger!Init
  /\ linked = {} /\ edited = {}
  /\ page = [b \in Browsers |-> Blank]
  /\ answer = [b \in Browsers |-> Unanswered]
  /\ listing = [b \in Browsers |-> Unlisted]

-----------------------------------------------------------------------------
\* Mutant of Stored: the rows are not selected by document.
StoredAnywhere(d) ==
  UNION {result[e].proposals : e \in {e \in Documents : result[e] # NoOutput}}

\* The proposal rows of a document.
Stored(d) == IF result[d] = NoOutput THEN {} ELSE result[d].proposals

\* Mutant of Reprocess: a complete document can be sent back as well.
ReprocessAny(d) ==
  \/ Queue!Retry(d)
  \/ /\ Queue!Move(d, "complete", "pending")
     /\ result' = [result EXCEPT ![d] = NoOutput]
     /\ UNCHANGED retries

Reprocess(d) == Queue!Retry(d)

\* Processing; the proposals stored for a document are its own.
Process(d) ==
  /\ \/ Queue!Submit(d) \/ Queue!Start(d) \/ Queue!Fail(d) \/ Reprocess(d)
     \/ (Queue!Complete(d) \/ Queue!Supplement(d))
          /\ \A p \in result'[d].proposals : DocumentOf[p] = d
  /\ UNCHANGED <<accepted, linked, edited, page, answer, listing>>

-----------------------------------------------------------------------------
(***************************************************************************)
(* A review page: the state of the job is read, then the proposals (their  *)
(* evidence is stored with them). `stored' is a history: the proposals     *)
(* there were when the state was read.                                     *)
(***************************************************************************)
OpenPage(b) ==
  \E d \in Documents, r \in Reviewers :
    /\ page' = [page EXCEPT ![b] = [Blank EXCEPT !.doc = d, !.reviewer = r]]
    /\ listing' = [listing EXCEPT ![b] = Unlisted]
    /\ UNCHANGED <<queue, accepted, linked, edited, answer>>

\* Mutant of ReadOrder: the proposals are read before the state.
ProposalsBeforeState == <<"proposals", "state">>

ReadOrder == <<"state", "proposals">>

Reads(b, part) ==
  /\ page[b].doc # NoDocument /\ page[b].reads < 2
  /\ ReadOrder[page[b].reads + 1] = part

\* A document that is unknown has no page (404).
ReadState(b) ==
  /\ Reads(b, "state")
  /\ LET g == page[b]
     IN  page' = [page EXCEPT ![b] =
                    IF phase[g.doc] = "absent" THEN Blank
                    ELSE [g EXCEPT !.reads = g.reads + 1, !.state = phase[g.doc],
                                   !.stored = Stored(g.doc)]]
  /\ UNCHANGED <<queue, accepted, linked, edited, answer, listing>>

ReadProposals(b) ==
  /\ Reads(b, "proposals")
  /\ LET g == page[b]
     IN  page' = [page EXCEPT ![b] =
                    [g EXCEPT !.reads = g.reads + 1, !.shown = Stored(g.doc)]]
  /\ UNCHANGED <<queue, accepted, linked, edited, answer, listing>>

IsShown(b) == page[b].doc # NoDocument /\ page[b].reads = 2

-----------------------------------------------------------------------------
(***************************************************************************)
(* Confirmation, as one step: see Confirmation for how it comes about.     *)
(***************************************************************************)
UsedFor(k) == {q \in Proposals : accepted[q] # NoDecision /\ accepted[q].key = k}

AcceptedBy(p, r) == accepted[p] # NoDecision /\ accepted[p].reviewer = r

\* The proposal row exists.
Known(p) == p \in Stored(DocumentOf[p])

\* Mutant of Accept: the links are left to a later transaction.
AcceptUnlinked(p, r, k) ==
  /\ Known(p)
  /\ Ledger!Accept(p, r, k)
  /\ UNCHANGED linked

Accept(p, r, k) ==
  /\ Known(p)
  /\ Ledger!Accept(p, r, k)
  /\ linked' = linked \cup {p}

\* The answer is that of an earlier confirmation, by key or by proposal.
Replay(p, r, k) == AcceptedBy(p, r) /\ UsedFor(k) \subseteq {p} /\ UNCHANGED <<accepted, linked>>

\* Nothing that a replay could answer from; evidence is validated next.
Undecided(p, k) == Known(p) /\ accepted[p] = NoDecision /\ UsedFor(k) = {}

\* Mutant of Refuse: evidence is validated before replays are looked up.
RefuseInvalidFirst(p, r, k, why) ==
  /\ \/ why = "conflict" /\ UsedFor(k) \ {p} # {}
     \/ why = "conflict" /\ accepted[p] # NoDecision /\ ~ AcceptedBy(p, r)
     \/ why = "unknown" /\ UsedFor(k) = {} /\ ~ Known(p)
     \/ why = "invalid" /\ p \in edited
  /\ UNCHANGED <<accepted, linked>>

(***************************************************************************)
(* IdempotencyConflict, KeyError, EvidenceValidationError, in the order of *)
(* the code. An edit may have made the evidence of what was edited since   *)
(* it was stored invalid, or not, and another may have restored it.        *)
(***************************************************************************)
Refuse(p, r, k, why) ==
  /\ \/ why = "conflict" /\ UsedFor(k) \ {p} # {}
     \/ why = "conflict" /\ accepted[p] # NoDecision /\ ~ AcceptedBy(p, r)
     \/ why = "unknown" /\ UsedFor(k) = {} /\ ~ Known(p)
     \/ why = "invalid" /\ Undecided(p, k) /\ p \in edited
  /\ UNCHANGED <<accepted, linked>>

\* Mutant of WebKey: one key for the form of every proposal of a document.
WebKeyOfDocument(p) ==
  <<"web-confirm", CHOOSE q \in Proposals : DocumentOf[q] = DocumentOf[p]>>

WebKey(p) == <<"web-confirm", p>>

(***************************************************************************)
(* A press, as often and as late as one likes, of a button on the page. A  *)
(* conflict is answered with 409, the other refusals with an error page.   *)
(* At any time it may fail: its session has expired (401) or is not that   *)
(* of the page (403), the transaction fails on the database, or it is      *)
(* committed and the answer is lost.                                       *)
(***************************************************************************)
Press(b) ==
  /\ IsShown(b)
  /\ \E p \in page[b].shown :
       LET r == page[b].reviewer
           Answer(o) == answer' = [answer EXCEPT ![b] =
                          [proposal |-> p, reviewer |-> r, outcome |-> o]]
       IN  \/ (Accept(p, r, WebKey(p)) \/ Replay(p, r, WebKey(p))) /\ Answer("confirmed")
           \/ \E why \in Refusals : Refuse(p, r, WebKey(p), why) /\ Answer(why)
           \/ /\ answer' = [answer EXCEPT ![b] = Failed]
              /\ Accept(p, r, WebKey(p)) \/ UNCHANGED <<accepted, linked>>
  /\ UNCHANGED <<queue, edited, page, listing>>

\* The JSON endpoint: any proposal under any key, also one of a form.
ConfirmJson ==
  /\ \E p \in Proposals, r \in Reviewers, k \in Keys : Accept(p, r, k)
  /\ UNCHANGED <<queue, edited, page, answer, listing>>

(***************************************************************************)
(* External: nothing in the repository edits the rows that evidence is     *)
(* validated against. Storing a proposal validates it, so only edits after *)
(* that matter.                                                            *)
(***************************************************************************)
EditReferenceData(p) ==
  /\ Known(p) /\ p \notin edited
  /\ edited' = edited \cup {p}
  /\ UNCHANGED <<queue, accepted, linked, page, answer, listing>>

-----------------------------------------------------------------------------
(***************************************************************************)
(* Related documents: the confirmed relations of an object, then for each  *)
(* of them its evidence. `known' is a history: what was confirmed before.  *)
(***************************************************************************)
Related(o) == {p \in Proposals : TargetOf[p] = o /\ accepted[p] # NoDecision}

Confirmed ==
  {p \in Proposals : \E b \in Browsers :
     answer[b].proposal = p /\ answer[b].outcome = "confirmed"}

OpenListing(b) ==
  \E o \in Objects :
    /\ listing' = [listing EXCEPT ![b] =
                     [Unlisted EXCEPT !.at = "opened", !.object = o,
                        !.known = {p \in Confirmed : TargetOf[p] = o}]]
    /\ page' = [page EXCEPT ![b] = Blank]
    /\ UNCHANGED <<queue, accepted, linked, edited, answer>>

ReadRelations(b) ==
  /\ listing[b].at = "opened"
  /\ LET rows == Related(listing[b].object)
     IN  listing' = [listing EXCEPT ![b] =
                       [@ EXCEPT !.at = "links", !.rows = rows, !.left = rows]]
  /\ UNCHANGED <<queue, accepted, linked, edited, page, answer>>

ReadLinks(b) ==
  /\ listing[b].at = "links"
  /\ \E p \in listing[b].left :
       LET l == listing[b]
       IN  listing' = [listing EXCEPT ![b] =
                         [l EXCEPT !.left = l.left \ {p},
                                   !.explained = l.explained \cup ({p} \cap linked)]]
  /\ UNCHANGED <<queue, accepted, linked, edited, page, answer>>

BrowserStep(b) ==
  \/ OpenPage(b) \/ ReadState(b) \/ ReadProposals(b) \/ Press(b)
  \/ OpenListing(b) \/ ReadRelations(b) \/ ReadLinks(b)

Next ==
  \/ \E d \in Documents : Process(d)
  \/ ConfirmJson
  \/ \E p \in Editable : EditReferenceData(p)
  \/ \E b \in Browsers : BrowserStep(b)

Spec == Init /\ [][Next]_vars

-----------------------------------------------------------------------------
\* Types; a page shows proposals of the document it is about.
TypeOK ==
  /\ phase \in [Documents -> States]
  /\ result \in [Documents -> Outputs \cup {NoOutput}]
  /\ retries \in [Documents -> Nat]
  /\ accepted \in [Proposals -> [key : Keys, reviewer : Reviewers] \cup {NoDecision}]
  /\ linked \subseteq Proposals /\ edited \subseteq Proposals
  /\ page \in [Browsers -> Pages]
  /\ answer \in [Browsers -> Answers]
  /\ listing \in [Browsers -> Listings]
  /\ \A b \in Browsers : \A p \in page[b].stored \cup page[b].shown :
       DocumentOf[p] = page[b].doc

(***************************************************************************)
(* A page may be a mixture of two moments, but not a misleading one: if it *)
(* says that processing is complete, no proposal that was stored by then   *)
(* is missing from it, and if it shows any proposal that can be confirmed  *)
(* the document is complete by the time the page is delivered.             *)
(***************************************************************************)
PageMissesNothing ==
  \A b \in Browsers :
    IsShown(b) =>
      /\ page[b].state = "complete" => page[b].stored \subseteq page[b].shown
      /\ page[b].shown # {} => phase[page[b].doc] = "complete"

(***************************************************************************)
(* A relation stands on stored proposals: whatever pages are still open    *)
(* and however the queue moves, the document of a confirmed relation stays *)
(* complete and keeps the proposal that was confirmed.                     *)
(***************************************************************************)
RelationsHaveProposals ==
  \A p \in Proposals : accepted[p] # NoDecision =>
    /\ phase[DocumentOf[p]] = "complete"
    /\ p \in Stored(DocumentOf[p])

(***************************************************************************)
(* A press that is answered means what the page says: a relation confirmed *)
(* by this reviewer, now or before. It meets a conflict only because of    *)
(* another confirmation: another reviewer's, or one that took the form's   *)
(* own key. Its evidence is found invalid only if reference data were      *)
(* edited after the proposal was stored. What the page shows is never      *)
(* unknown.                                                                *)
(***************************************************************************)
PressesAreHonoured ==
  \A b \in Browsers :
    LET a == answer[b]
    IN  /\ a.outcome = "confirmed" => AcceptedBy(a.proposal, a.reviewer)
        /\ a.outcome = "conflict" =>
             \/ accepted[a.proposal] # NoDecision /\ ~ AcceptedBy(a.proposal, a.reviewer)
             \/ UsedFor(<<"web-confirm", a.proposal>>) \ {a.proposal} # {}
        /\ a.outcome = "invalid" => a.proposal \in edited
        /\ a.outcome # "unknown"

(***************************************************************************)
(* Confirm is pressed again, because the answer was lost or on an old      *)
(* page: what this reviewer has confirmed is confirmed again, also if the  *)
(* evidence has become invalid since. If the press does not fail, only a   *)
(* conflict over the form's key can be the answer instead.                 *)
(***************************************************************************)
RepeatsAreConfirmed ==
  [][\A b \in Browsers :
       LET a == answer'[b]
       IN  /\ answer'[b] # answer[b]
           /\ a.outcome \in Refusals
           /\ AcceptedBy(a.proposal, a.reviewer)
           => UsedFor(<<"web-confirm", a.proposal>>) \ {a.proposal} # {}]_vars

(***************************************************************************)
(* A list of related documents that was asked for after a reviewer was     *)
(* told of a confirmation has its document, and every document on a list   *)
(* comes with the evidence that was confirmed, although relations and      *)
(* evidence are read one after the other.                                  *)
(***************************************************************************)
ConfirmedIsRetrieved ==
  \A b \in Browsers :
    LET l == listing[b]
    IN  l.at = "links" /\ l.left = {} => l.known \subseteq l.rows /\ l.rows = l.explained
=============================================================================
