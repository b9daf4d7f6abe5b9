-------------------------- MODULE ReviewLoopProofs --------------------------
(***************************************************************************)
(* Theorems about review, for any documents, proposals, browsers, keys and *)
(* reviewers.                                                              *)
(***************************************************************************)
EXTENDS ReviewLoop, TLAPS

\* A document has proposals only when it is complete, and only its own.
OutputIsOwn ==
  \A d \in Documents :
    /\ phase[d] = "complete" <=> result[d] # NoOutput
    /\ \A p \in Stored(d) : DocumentOf[p] = d

\* What a page has read is still stored, and it read the proposals last.
PageFits(g) ==
  /\ g.stored \cup g.shown # {} => g.doc \in Documents
  /\ g.doc \in Documents =>
       g.stored \cup g.shown \subseteq Stored(g.doc) /\ g.reviewer \in Reviewers
  /\ g.reads = 2 => g.stored \subseteq g.shown
  /\ g.reads < 2 => g.shown = {}

PagesAreBehind == \A b \in Browsers : PageFits(page[b])

\* Answers are about proposals.
AnswersAreKnown ==
  \A b \in Browsers : answer[b].outcome \notin {"none", "failed"} =>
    answer[b].proposal \in Proposals

RelationsAreLinked == \A p \in Proposals : accepted[p] # NoDecision => p \in linked

\* A listing knows and has rows of confirmed relations only.
ListingFits(l) ==
  /\ \A p \in l.known : accepted[p] # NoDecision /\ TargetOf[p] = l.object
  /\ \A p \in l.rows : accepted[p] # NoDecision
  /\ l.at = "links" => l.known \subseteq l.rows /\ l.rows = l.left \cup l.explained
  /\ l.at = "opened" => l.explained = {}

ListingsAreBehind == \A b \in Browsers : ListingFits(listing[b])

Inductive ==
  /\ TypeOK /\ OutputIsOwn /\ PagesAreBehind /\ RelationsHaveProposals
  /\ RelationsAreLinked /\ PressesAreHonoured /\ AnswersAreKnown /\ ListingsAreBehind

USE ReviewAssumption DEF ReviewAssumption

-----------------------------------------------------------------------------
(***************************************************************************)
(* Processing adds to what is stored and takes nothing back.               *)
(***************************************************************************)
LEMMA ProcessEffect ==
  ASSUME Inductive, NEW d \in Documents, Process(d)
  PROVE  /\ phase' \in [Documents -> States]
         /\ result' \in [Documents -> Outputs \cup {NoOutput}]
         /\ retries' \in [Documents -> Nat]
         /\ \A e \in Documents : phase[e] = "complete" => phase'[e] = "complete"
         /\ \A e \in Documents : Stored(e) \subseteq Stored(e)'
         /\ OutputIsOwn'
         /\ UNCHANGED <<accepted, linked, edited, page, answer, listing>>
<1> USE DEF Queue!Move
<1>0. /\ phase \in [Documents -> States]
      /\ result \in [Documents -> Outputs \cup {NoOutput}]
      /\ retries \in [Documents -> Nat]
  BY DEF Inductive, TypeOK
<1>1. UNCHANGED <<accepted, linked, edited, page, answer, listing>>
  BY DEF Process
<1>2. CASE Queue!Submit(d) \/ Queue!Start(d) \/ Queue!Fail(d) \/ Queue!Retry(d)
  <2>1. /\ UNCHANGED result /\ retries' \in [Documents -> Nat]
        /\ \E s \in States \ {"complete"} : phase' = [phase EXCEPT ![d] = s]
        /\ phase[d] # "complete"
    BY <1>0, <1>2 DEF Queue!Submit, Queue!Start, Queue!Fail, Queue!Retry, States
  <2>2. \A e \in Documents : Stored(e)' = Stored(e)
    BY <2>1 DEF Stored
  <2>3. OutputIsOwn'
    BY <1>0, <2>1, <2>2 DEF Inductive, OutputIsOwn
  <2> QED BY <1>0, <1>1, <2>1, <2>2, <2>3
<1>3. CASE (Queue!Complete(d) \/ Queue!Supplement(d))
             /\ \A p \in result'[d].proposals : DocumentOf[p] = d
  <2>1. \A o \in Queue!Outputs : o \in Outputs
    BY DEF Queue!Outputs, Outputs
  <2>2. /\ phase' \in [Documents -> States] /\ UNCHANGED retries
        /\ \E o \in Outputs : result' = [result EXCEPT ![d] = o]
        /\ phase'[d] = "complete"
        /\ \A e \in Documents \ {d} : phase'[e] = phase[e]
        /\ Stored(d) = {}
    <3>1. CASE Queue!Complete(d)
      <4>1. result[d] = NoOutput
        BY <3>1 DEF Queue!Complete, Inductive, OutputIsOwn
      <4> QED BY <1>0, <2>1, <3>1, <4>1 DEF Queue!Complete, Stored, States
    <3>2. CASE Queue!Supplement(d)
      <4>1. PICK x \in (SUBSET Proposals) \ {{}} :
              result' = [result EXCEPT ![d].proposals = x]
        BY <3>2 DEF Queue!Supplement
      <4>2. [result[d] EXCEPT !.proposals = x] \in Outputs
        <5>1. result[d] \in Outputs
          BY <1>0, <3>2 DEF Queue!Supplement, Inductive, OutputIsOwn
        <5> QED BY <5>1 DEF Outputs
      <4> QED BY <1>0, <3>2, <4>1, <4>2 DEF Queue!Supplement, Stored
    <3> QED BY <1>3, <3>1, <3>2
  <2>3. PICK o \in Outputs : result' = [result EXCEPT ![d] = o]
    BY <2>2
  <2>4. Stored(d)' = o.proposals /\ \A e \in Documents \ {d} : Stored(e)' = Stored(e)
    BY <1>0, <2>3 DEF Stored
  <2>5. OutputIsOwn'
    BY <1>0, <1>3, <2>2, <2>3, <2>4 DEF Inductive, OutputIsOwn
  <2> QED BY <1>0, <1>1, <2>2, <2>3, <2>4, <2>5
<1> QED BY <1>2, <1>3 DEF Process, Reprocess

(***************************************************************************)
(* A confirmation adds one decision, and its links, and changes no other.  *)
(***************************************************************************)
LEMMA AcceptEffect ==
  ASSUME Inductive, NEW p \in Proposals, NEW r \in Reviewers, NEW k \in Keys, Accept(p, r, k)
  PROVE  /\ accepted' \in [Proposals -> [key : Keys, reviewer : Reviewers] \cup {NoDecision}]
         /\ linked' = linked \cup {p}
         /\ accepted[p] = NoDecision /\ AcceptedBy(p, r)'
         /\ \A q \in Proposals \ {p} : accepted'[q] = accepted[q]
         /\ p \in Stored(DocumentOf[p])
BY DEF Accept, Known, Ledger!Accept, Inductive, TypeOK, AcceptedBy

\* Whatever was decided stays, and all that relates is linked and stored.
LEMMA AcceptKeeps ==
  ASSUME Inductive, NEW p \in Proposals, NEW r \in Reviewers, NEW k \in Keys,
         Accept(p, r, k), UNCHANGED queue
  PROVE  /\ \A q \in Proposals : accepted[q] # NoDecision => accepted'[q] = accepted[q]
         /\ RelationsAreLinked' /\ RelationsHaveProposals'
<1>1. \A q \in Proposals : accepted'[q] # NoDecision => accepted[q] # NoDecision \/ q = p
  BY AcceptEffect
<1>2. \A q \in Proposals : accepted[q] # NoDecision => accepted'[q] = accepted[q]
  BY AcceptEffect
<1>3. RelationsAreLinked'
  BY <1>1, AcceptEffect DEF Inductive, RelationsAreLinked
<1>4. RelationsHaveProposals'
  <2>1. phase' = phase /\ \A d \in Documents : Stored(d)' = Stored(d)
    BY DEF queue, Stored
  <2>2. p \in Stored(DocumentOf[p]) /\ phase[DocumentOf[p]] = "complete"
    BY AcceptEffect DEF Stored, Inductive, OutputIsOwn
  <2>3. \A q \in Proposals : DocumentOf[q] \in Documents
    OBVIOUS
  <2> QED BY <1>1, <2>1, <2>2, <2>3 DEF Inductive, RelationsHaveProposals
<1> QED BY <1>2, <1>3, <1>4

\* What an answer says, by the decisions and the edits there are.
Stands(a, decisions, edits) ==
  /\ a.outcome = "confirmed" =>
       decisions[a.proposal] # NoDecision /\ decisions[a.proposal].reviewer = a.reviewer
  /\ a.outcome = "conflict" =>
       \/ /\ decisions[a.proposal] # NoDecision
          /\ decisions[a.proposal].reviewer # a.reviewer
       \/ \E q \in Proposals \ {a.proposal} :
            decisions[q] # NoDecision /\ decisions[q].key = <<"web-confirm", a.proposal>>
  /\ a.outcome = "invalid" => a.proposal \in edits
  /\ a.outcome # "unknown"

LEMMA HonouredIsStanding ==
  PressesAreHonoured <=> \A b \in Browsers : Stands(answer[b], accepted, edited)
BY DEF PressesAreHonoured, Stands, AcceptedBy, UsedFor

LEMMA HonouredIsStandingNext ==
  PressesAreHonoured' <=> \A b \in Browsers : Stands(answer'[b], accepted', edited')
BY DEF PressesAreHonoured, Stands, AcceptedBy, UsedFor

\* It stays true.
LEMMA AnswerStays ==
  ASSUME Inductive, NEW b \in Browsers, edited \subseteq edited',
         \A q \in Proposals : accepted[q] # NoDecision => accepted'[q] = accepted[q]
  PROVE  Stands(answer[b], accepted', edited')
<1>1. Stands(answer[b], accepted, edited)
  BY HonouredIsStanding DEF Inductive
<1>2. answer[b].outcome \notin {"none", "failed"} => answer[b].proposal \in Proposals
  BY DEF Inductive, AnswersAreKnown
<1> QED BY <1>1, <1>2 DEF Stands

\* What only depends on decisions and edits that stay.
LEMMA DecisionsStay ==
  ASSUME Inductive, UNCHANGED <<answer, listing>>, edited \subseteq edited',
         \A q \in Proposals : accepted[q] # NoDecision => accepted'[q] = accepted[q]
  PROVE  PressesAreHonoured' /\ ListingsAreBehind'
<1>1. PressesAreHonoured'
  BY AnswerStays, HonouredIsStandingNext
<1>2. ListingsAreBehind'
  BY DEF Inductive, ListingsAreBehind, TypeOK, ListingFits, Listings
<1> QED BY <1>1, <1>2

-----------------------------------------------------------------------------
(***************************************************************************)
(* The actions preserve the invariant.                                     *)
(***************************************************************************)
LEMMA ProcessKeeps ==
  ASSUME Inductive, NEW d \in Documents, Process(d)
  PROVE  Inductive'
<1>1. UNCHANGED <<accepted, linked, edited, page, answer, listing>>
  BY ProcessEffect
<1>2. /\ \A e \in Documents : phase[e] = "complete" => phase'[e] = "complete"
      /\ \A e \in Documents : Stored(e) \subseteq Stored(e)'
  BY ProcessEffect
<1>3. TypeOK'
  BY <1>1, ProcessEffect DEF Inductive, TypeOK
<1>4. OutputIsOwn'
  BY ProcessEffect
<1>5. PagesAreBehind'
  BY <1>1, <1>2 DEF Inductive, PagesAreBehind, PageFits
<1>6. RelationsHaveProposals'
  <2>1. \A p \in Proposals : DocumentOf[p] \in Documents
    OBVIOUS
  <2> QED BY <1>1, <1>2, <2>1 DEF Inductive, RelationsHaveProposals
<1>7. RelationsAreLinked' /\ AnswersAreKnown'
  BY <1>1 DEF Inductive, RelationsAreLinked, AnswersAreKnown
<1>8. PressesAreHonoured' /\ ListingsAreBehind'
  BY <1>1, DecisionsStay
<1> QED BY <1>3, <1>4, <1>5, <1>6, <1>7, <1>8 DEF Inductive

\* Where the queue, the decisions and the links stand still.
LEMMA ReadersKeep ==
  ASSUME Inductive, UNCHANGED <<queue, accepted, linked>>
  PROVE  OutputIsOwn' /\ RelationsHaveProposals' /\ RelationsAreLinked'
BY DEF Inductive, queue, OutputIsOwn, RelationsHaveProposals, RelationsAreLinked, Stored

LEMMA ConfirmJsonKeeps ==
  ASSUME Inductive, ConfirmJson
  PROVE  Inductive'
<1>1. PICK p \in Proposals, r \in Reviewers, k \in Keys : Accept(p, r, k)
  BY DEF ConfirmJson
<1>2. UNCHANGED <<queue, edited, page, answer, listing>>
  BY DEF ConfirmJson
<1>3. \A q \in Proposals : accepted[q] # NoDecision => accepted'[q] = accepted[q]
  BY <1>1, <1>2, AcceptKeeps
<1>4. TypeOK'
  BY <1>1, <1>2, AcceptEffect DEF Inductive, TypeOK, queue
<1>5. OutputIsOwn' /\ PagesAreBehind' /\ AnswersAreKnown'
  BY <1>2 DEF Inductive, OutputIsOwn, PagesAreBehind, AnswersAreKnown, queue, Stored, PageFits
<1>6. PressesAreHonoured' /\ ListingsAreBehind'
  BY <1>2, <1>3, DecisionsStay
<1> QED BY <1>1, <1>2, <1>4, <1>5, <1>6, AcceptKeeps DEF Inductive

LEMMA EditKeeps ==
  ASSUME Inductive, NEW p \in Editable, EditReferenceData(p)
  PROVE  Inductive'
<1>1. /\ UNCHANGED <<queue, accepted, linked, page, answer, listing>>
      /\ edited' = edited \cup {p}
  BY DEF EditReferenceData
<1>2. TypeOK'
  BY <1>1 DEF Inductive, TypeOK, queue
<1>3. PagesAreBehind' /\ AnswersAreKnown'
  BY <1>1 DEF Inductive, PagesAreBehind, AnswersAreKnown, queue, Stored, PageFits
<1> QED BY <1>1, <1>2, <1>3, ReadersKeep, DecisionsStay DEF Inductive

\* What a press can be answered, and what it does.
PressAnswer(b, p, a) ==
  LET r == page[b].reviewer
  IN  \/ /\ a = [proposal |-> p, reviewer |-> r, outcome |-> "confirmed"]
         /\ Accept(p, r, WebKey(p)) \/ Replay(p, r, WebKey(p))
      \/ \E why \in Refusals :
           /\ a = [proposal |-> p, reviewer |-> r, outcome |-> why]
           /\ Refuse(p, r, WebKey(p), why)
      \/ a = Failed /\ (Accept(p, r, WebKey(p)) \/ UNCHANGED <<accepted, linked>>)

LEMMA PressCases ==
  ASSUME Inductive, NEW b \in Browsers, Press(b)
  PROVE  \E p \in page[b].shown, a \in Answers :
           /\ p \in Proposals /\ page[b].reviewer \in Reviewers /\ WebKey(p) \in Keys
           /\ Known(p)
           /\ answer' = [answer EXCEPT ![b] = a] /\ PressAnswer(b, p, a)
<1>1. PICK p \in page[b].shown : \E a : answer' = [answer EXCEPT ![b] = a] /\ PressAnswer(b, p, a)
  BY DEF Press, PressAnswer
<1>2. p \in Proposals /\ page[b].doc \in Documents
  BY DEF Inductive, TypeOK, Pages, PagesAreBehind, PageFits
<1>3. page[b].reviewer \in Reviewers /\ WebKey(p) \in Keys
  BY <1>2 DEF Inductive, PagesAreBehind, PageFits, WebKey, Keys, WebKeys
<1>4. Known(p)
  BY <1>1, <1>2 DEF Inductive, PagesAreBehind, PageFits, TypeOK, Known
<1>5. \A a : PressAnswer(b, p, a) => a \in Answers
  BY <1>2, <1>3 DEF PressAnswer, Answers, Failed, Unanswered, Refusals
<1> QED BY <1>1, <1>2, <1>3, <1>4, <1>5

LEMMA PressKeeps ==
  ASSUME Inductive, NEW b \in Browsers, Press(b)
  PROVE  Inductive'
<1>1. UNCHANGED <<queue, edited, page, listing>>
  BY DEF Press
<1> DEFINE r == page[b].reviewer
<1>2. PICK p \in page[b].shown, a \in Answers :
        /\ p \in Proposals /\ r \in Reviewers /\ WebKey(p) \in Keys /\ Known(p)
        /\ answer' = [answer EXCEPT ![b] = a] /\ PressAnswer(b, p, a)
  BY PressCases
<1>3. /\ a.outcome \in {"none", "failed", "confirmed"} \cup Refusals
      /\ a.outcome # "failed" => a.proposal = p /\ a.reviewer = r
  BY <1>2 DEF PressAnswer, Failed, Unanswered, Answers
<1>4. /\ \A q \in Proposals : accepted[q] # NoDecision => accepted'[q] = accepted[q]
      /\ RelationsAreLinked' /\ RelationsHaveProposals'
      /\ accepted' \in [Proposals -> [key : Keys, reviewer : Reviewers] \cup {NoDecision}]
      /\ linked' \subseteq Proposals
      /\ a.outcome = "confirmed" => AcceptedBy(p, r)'
  <2>1. CASE Accept(p, r, WebKey(p))
    BY <1>1, <1>2, <2>1, AcceptKeeps, AcceptEffect DEF Inductive, TypeOK
  <2>2. CASE UNCHANGED <<accepted, linked>> /\ (a.outcome = "confirmed" => AcceptedBy(p, r))
    BY <1>1, <2>2, ReadersKeep DEF Inductive, TypeOK, AcceptedBy
  <2>3. a = Failed => a.outcome # "confirmed"
    BY DEF Failed, Unanswered
  <2>4. ASSUME NEW why \in Refusals, Refuse(p, r, WebKey(p), why), a.outcome = why
        PROVE  a.outcome # "confirmed" /\ UNCHANGED <<accepted, linked>>
    BY <2>4 DEF Refusals, Refuse
  <2> QED BY <1>2, <2>1, <2>2, <2>3, <2>4 DEF Replay, PressAnswer
<1>5. TypeOK'
  BY <1>1, <1>2, <1>3, <1>4 DEF Inductive, TypeOK, queue
<1>6. OutputIsOwn' /\ PagesAreBehind'
  BY <1>1 DEF Inductive, OutputIsOwn, PagesAreBehind, queue, Stored, PageFits
<1>7. AnswersAreKnown'
  BY <1>1, <1>2, <1>3 DEF Inductive, AnswersAreKnown, TypeOK
<1>8. ListingsAreBehind'
  BY <1>1, <1>4 DEF Inductive, ListingsAreBehind, TypeOK, ListingFits, Listings
<1>9. Stands(a, accepted', edited')
  <2>1. CASE a.outcome = "confirmed"
    <3>1. a.proposal = p /\ a.reviewer = r
      BY <1>3, <2>1
    <3>2. accepted'[p] # NoDecision /\ accepted'[p].reviewer = r
      BY <1>1, <1>4, <2>1 DEF AcceptedBy
    <3> QED BY <2>1, <3>1, <3>2 DEF Stands
  <2>2. CASE a.outcome \in Refusals
    <3>1. Refuse(p, r, WebKey(p), a.outcome)
      BY <1>2, <2>2 DEF PressAnswer, Failed, Unanswered, Refusals
    <3>2. accepted' = accepted /\ a.proposal = p /\ a.reviewer = r
      BY <1>3, <2>2, <3>1 DEF Refuse, Refusals
    <3>3. a.outcome # "unknown"
      BY <1>2, <3>1 DEF Refuse
    <3>4. a.outcome = "invalid" => p \in edited'
      BY <1>1, <3>1 DEF Refuse
    <3>5. a.outcome = "conflict" =>
            \/ accepted[p] # NoDecision /\ accepted[p].reviewer # r
            \/ \E q \in Proposals \ {p} : accepted[q] # NoDecision /\ accepted[q].key = WebKey(p)
      BY <3>1 DEF Refuse, UsedFor, AcceptedBy
    <3> QED BY <2>2, <3>2, <3>3, <3>4, <3>5 DEF Stands, WebKey, Refusals
  <2>3. CASE a.outcome \in {"none", "failed"}
    BY <2>3 DEF Stands
  <2> QED BY <1>3, <2>1, <2>2, <2>3
<1>10. PressesAreHonoured'
  <2>1. \A c \in Browsers \ {b} : Stands(answer'[c], accepted', edited')
    BY <1>1, <1>2, <1>4, AnswerStays DEF Inductive, TypeOK
  <2>2. Stands(answer'[b], accepted', edited')
    BY <1>2, <1>9 DEF Inductive, TypeOK
  <2> QED BY <2>1, <2>2, HonouredIsStandingNext
<1> QED BY <1>4, <1>5, <1>6, <1>7, <1>8, <1>10 DEF Inductive

\* One page or listing, or both, are replaced.
LEMMA Replaced ==
  ASSUME Inductive, UNCHANGED <<queue, accepted, linked, edited, answer>>, NEW b \in Browsers,
         NEW g \in Pages, page' = [page EXCEPT ![b] = g], PageFits(g),
         \A p \in g.stored \cup g.shown : DocumentOf[p] = g.doc,
         NEW l \in Listings, listing' = [listing EXCEPT ![b] = l], ListingFits(l)
  PROVE  Inductive'
<1>1. /\ page' \in [Browsers -> Pages] /\ listing' \in [Browsers -> Listings]
      /\ page'[b] = g /\ \A c \in Browsers \ {b} : page'[c] = page[c]
      /\ listing'[b] = l /\ \A c \in Browsers \ {b} : listing'[c] = listing[c]
  BY DEF Inductive, TypeOK
<1>2. TypeOK'
  BY <1>1 DEF Inductive, TypeOK, queue
<1>3. PagesAreBehind'
  <2>1. \A d : Stored(d)' = Stored(d)
    BY DEF queue, Stored
  <2>2. \A c \in Browsers \ {b} : PageFits(page'[c])
    BY <1>1 DEF Inductive, PagesAreBehind
  <2>3. \A c \in Browsers : PageFits(page'[c])
    BY <1>1, <2>2
  <2> QED BY <2>1, <2>3 DEF PagesAreBehind, PageFits
<1>4. ListingsAreBehind'
  <2>1. \A c \in Browsers \ {b} : ListingFits(listing'[c])
    BY <1>1 DEF Inductive, ListingsAreBehind
  <2>2. \A c \in Browsers : ListingFits(listing'[c])
    BY <1>1, <2>1
  <2> QED BY <2>2 DEF ListingsAreBehind, ListingFits
<1>5. PressesAreHonoured' /\ AnswersAreKnown'
  BY DEF Inductive, PressesAreHonoured, AcceptedBy, UsedFor, AnswersAreKnown
<1> QED BY <1>2, <1>3, <1>4, <1>5, ReadersKeep DEF Inductive

LEMMA PageStepKeeps ==
  ASSUME Inductive, NEW b \in Browsers, OpenPage(b) \/ ReadState(b) \/ ReadProposals(b)
  PROVE  Inductive'
<1>0. UNCHANGED <<queue, accepted, linked, edited, answer>>
  BY DEF OpenPage, ReadState, ReadProposals
<1>1. \A d \in Documents : /\ Stored(d) \subseteq Proposals
                           /\ \A p \in Stored(d) : DocumentOf[p] = d
  <2> SUFFICES ASSUME NEW d \in Documents, result[d] # NoOutput
               PROVE  /\ Stored(d) \subseteq Proposals
                      /\ \A p \in Stored(d) : DocumentOf[p] = d
    BY DEF Stored
  <2>1. result[d] \in Outputs
    BY DEF Inductive, TypeOK
  <2>2. Stored(d) \subseteq Proposals
    BY <2>1 DEF Outputs, Stored
  <2> QED BY <2>2 DEF Inductive, OutputIsOwn
<1>2. /\ page \in [Browsers -> Pages] /\ page[b] \in Pages /\ PageFits(page[b])
      /\ \A p \in page[b].stored \cup page[b].shown : DocumentOf[p] = page[b].doc
      /\ listing \in [Browsers -> Listings] /\ listing[b] \in Listings /\ ListingFits(listing[b])
      /\ phase \in [Documents -> States]
  BY DEF Inductive, TypeOK, PagesAreBehind, ListingsAreBehind
<1>3. Blank \in Pages /\ PageFits(Blank) /\ Blank.stored \cup Blank.shown = {}
  BY DEF Blank, Pages, PageFits, States
<1>4. Unlisted \in Listings /\ ListingFits(Unlisted)
  BY DEF Unlisted, Listings, ListingFits
<1>5. CASE OpenPage(b)
  <2>1. PICK d \in Documents, r \in Reviewers :
          page' = [page EXCEPT ![b] = [Blank EXCEPT !.doc = d, !.reviewer = r]]
    BY <1>5 DEF OpenPage
  <2> DEFINE g == [Blank EXCEPT !.doc = d, !.reviewer = r]
  <2>2. g \in Pages /\ PageFits(g) /\ g.stored \cup g.shown = {}
    BY <1>3 DEF Blank, Pages, PageFits
  <2>3. listing' = [listing EXCEPT ![b] = Unlisted]
    BY <1>5 DEF OpenPage
  <2> HIDE DEF g
  <2> QED BY <1>0, <1>4, <2>1, <2>2, <2>3, Replaced DEF g
<1>6. listing' = listing => listing' = [listing EXCEPT ![b] = listing[b]]
  BY <1>2
<1>7. CASE ReadState(b)
  <2>1. page[b].doc \in Documents /\ page[b].reads = 0
    BY <1>2, <1>7 DEF ReadState, Reads, ReadOrder, Pages
  <2> DEFINE d == page[b].doc
             g == [page[b] EXCEPT !.reads = page[b].reads + 1, !.state = phase[d], !.stored = Stored(d)]
  <2>2. g \in Pages /\ \A p \in g.stored \cup g.shown : DocumentOf[p] = g.doc
    <3>1. Stored(d) \subseteq Proposals /\ phase[d] \in States
      BY <1>1, <1>2, <2>1
    <3>2. page[b].reads + 1 \in 0..2
      BY <2>1
    <3>3. g \in Pages
      BY <1>2, <3>1, <3>2 DEF Pages
    <3>4. /\ g.stored = Stored(d) /\ g.shown = page[b].shown
          /\ g.doc = page[b].doc
      BY <1>2 DEF Pages
    <3> QED BY <1>1, <1>2, <2>1, <3>3, <3>4
  <2>3. PageFits(g)
    BY <1>2, <2>1 DEF PageFits, Pages
  <2>4. page' = [page EXCEPT ![b] = Blank] \/ page' = [page EXCEPT ![b] = g]
    BY <1>7 DEF ReadState
  <2>5. listing' = listing
    BY <1>7 DEF ReadState
  <2> HIDE DEF g
  <2> QED BY <1>0, <1>2, <1>3, <1>6, <2>2, <2>3, <2>4, <2>5, Replaced
<1>8. CASE ReadProposals(b)
  <2>1. page[b].doc \in Documents /\ page[b].reads = 1
    BY <1>2, <1>8 DEF ReadProposals, Reads, ReadOrder, Pages
  <2> DEFINE g == [page[b] EXCEPT !.reads = page[b].reads + 1, !.shown = Stored(page[b].doc)]
  <2>2. g \in Pages /\ \A p \in g.stored \cup g.shown : DocumentOf[p] = g.doc
    <3>1. Stored(page[b].doc) \subseteq Proposals
      BY <1>1, <2>1
    <3>2. page[b].reads + 1 \in 0..2
      BY <2>1
    <3>3. g \in Pages
      BY <1>2, <3>1, <3>2 DEF Pages
    <3>4. /\ g.stored = page[b].stored /\ g.shown = Stored(page[b].doc)
          /\ g.doc = page[b].doc
      BY <1>2 DEF Pages
    <3> QED BY <1>1, <1>2, <2>1, <3>3, <3>4
  <2>3. PageFits(g)
    BY <1>2, <2>1 DEF PageFits, Pages
  <2>4. page' = [page EXCEPT ![b] = g]
    BY <1>8 DEF ReadProposals
  <2>5. listing' = listing
    BY <1>8 DEF ReadProposals
  <2> HIDE DEF g
  <2> QED BY <1>0, <1>2, <1>6, <2>2, <2>3, <2>4, <2>5, Replaced
<1> QED BY <1>5, <1>7, <1>8

LEMMA ListingStepKeeps ==
  ASSUME Inductive, NEW b \in Browsers, OpenListing(b) \/ ReadRelations(b) \/ ReadLinks(b)
  PROVE  Inductive'
<1>0. UNCHANGED <<queue, accepted, linked, edited, answer>>
  BY DEF OpenListing, ReadRelations, ReadLinks
<1>1. /\ page \in [Browsers -> Pages] /\ page[b] \in Pages /\ PageFits(page[b])
      /\ \A p \in page[b].stored \cup page[b].shown : DocumentOf[p] = page[b].doc
      /\ listing \in [Browsers -> Listings] /\ listing[b] \in Listings /\ ListingFits(listing[b])
  BY DEF Inductive, TypeOK, PagesAreBehind, ListingsAreBehind
<1>2. page' = page => page' = [page EXCEPT ![b] = page[b]]
  BY <1>1
<1>3. CASE OpenListing(b)
  <2>1. PICK o \in Objects :
          listing' = [listing EXCEPT ![b] =
                        [Unlisted EXCEPT !.at = "opened", !.object = o,
                           !.known = {p \in Confirmed : TargetOf[p] = o}]]
    BY <1>3 DEF OpenListing
  <2> DEFINE l == [Unlisted EXCEPT !.at = "opened", !.object = o,
                     !.known = {p \in Confirmed : TargetOf[p] = o}]
  <2>2. \A p \in Confirmed : p \in Proposals /\ accepted[p] # NoDecision
    BY DEF Confirmed, Inductive, PressesAreHonoured, AcceptedBy
  <2>3. l \in Listings /\ ListingFits(l)
    BY <2>2 DEF Unlisted, Listings, ListingFits
  <2>4. page' = [page EXCEPT ![b] = Blank]
    BY <1>3 DEF OpenListing
  <2>5. Blank \in Pages /\ PageFits(Blank) /\ Blank.stored \cup Blank.shown = {}
    BY DEF Blank, Pages, PageFits, States
  <2>6. listing' = [listing EXCEPT ![b] = l]
    BY <2>1
  <2> HIDE DEF l
  <2> QED BY <1>0, <2>3, <2>4, <2>5, <2>6, Replaced
<1>4. CASE ReadRelations(b)
  <2> DEFINE rows == Related(listing[b].object)
             l == [listing[b] EXCEPT !.at = "links", !.rows = rows, !.left = rows]
  <2>1. listing' = [listing EXCEPT ![b] = l] /\ page' = page /\ listing[b].at = "opened"
    BY <1>1, <1>4 DEF ReadRelations
  <2>2. l \in Listings
    BY <1>1 DEF Listings, Related
  <2>3. ListingFits(l)
    <3>1. /\ l.known = listing[b].known /\ l.object = listing[b].object
          /\ l.rows = rows /\ l.left = rows /\ l.explained = listing[b].explained
      BY <1>1 DEF Listings
    <3>2. listing[b].known \subseteq rows
      BY <1>1 DEF Listings, ListingFits, Related
    <3>3. listing[b].explained = {}
      BY <1>1, <2>1 DEF ListingFits
    <3>4. \A p \in rows : accepted[p] # NoDecision
      BY DEF Related
    <3> HIDE DEF rows, l
    <3> QED BY <1>1, <3>1, <3>2, <3>3, <3>4 DEF ListingFits
  <2> HIDE DEF l
  <2> QED BY <1>0, <1>1, <1>2, <2>1, <2>2, <2>3, Replaced
<1>5. CASE ReadLinks(b)
  <2>1. PICK p \in listing[b].left :
          listing' = [listing EXCEPT ![b] =
             [listing[b] EXCEPT !.left = listing[b].left \ {p},
                                !.explained = listing[b].explained \cup ({p} \cap linked)]]
    BY <1>5 DEF ReadLinks
  <2> DEFINE l == [listing[b] EXCEPT !.left = listing[b].left \ {p},
                                     !.explained = listing[b].explained \cup ({p} \cap linked)]
  <2>2. /\ listing' = [listing EXCEPT ![b] = l]
        /\ page' = page /\ listing[b].at = "links"
    <3>1. listing' = [listing EXCEPT ![b] = l]
      BY <2>1
    <3> QED BY <1>5, <3>1 DEF ReadLinks
  <2>3. p \in linked
    BY <1>1, <2>2 DEF ListingFits, Listings, Inductive, RelationsAreLinked
  <2>4. l \in Listings
    BY <1>1, <2>2, <2>3 DEF Listings
  <2>5. ListingFits(l)
    <3>1. /\ l.known = listing[b].known /\ l.object = listing[b].object
          /\ l.rows = listing[b].rows /\ l.left = listing[b].left \ {p}
          /\ l.explained = listing[b].explained \cup {p} /\ l.at = "links"
      BY <1>1, <2>2, <2>3 DEF Listings
    <3> HIDE DEF l
    <3> QED BY <1>1, <2>1, <2>2, <3>1 DEF ListingFits
  <2> HIDE DEF l
  <2> QED BY <1>0, <1>1, <1>2, <2>2, <2>4, <2>5, Replaced
<1> QED BY <1>3, <1>4, <1>5

LEMMA Invariance == Spec => []Inductive
<1>1. Init => Inductive
  <2> SUFFICES ASSUME Init PROVE Inductive
    OBVIOUS
  <2>1. \A d \in Documents : Stored(d) = {}
    BY DEF Init, Queue!Init, Stored
  <2>2. TypeOK
    BY DEF Init, Queue!Init, Ledger!Init, TypeOK, States, Blank, Unanswered, Answers, Unlisted, Pages, Listings
  <2>3. OutputIsOwn
    BY <2>1 DEF Init, Queue!Init, OutputIsOwn
  <2>4. PagesAreBehind /\ AnswersAreKnown
    BY DEF Init, Blank, Unanswered, PagesAreBehind, AnswersAreKnown, PageFits
  <2>5. RelationsHaveProposals /\ RelationsAreLinked
    BY DEF Init, Ledger!Init, RelationsHaveProposals, RelationsAreLinked
  <2>6. PressesAreHonoured /\ ListingsAreBehind
    BY DEF Init, Unanswered, Unlisted, PressesAreHonoured, ListingsAreBehind, ListingFits
  <2> QED BY <2>2, <2>3, <2>4, <2>5, <2>6 DEF Inductive
<1>2. Inductive /\ [Next]_vars => Inductive'
  <2> SUFFICES ASSUME Inductive, [Next]_vars PROVE Inductive'
    OBVIOUS
  <2>1. CASE UNCHANGED vars
    <3>1. UNCHANGED <<queue, accepted, linked, edited, page, answer, listing>>
      BY <2>1 DEF vars
    <3>2. TypeOK' /\ AnswersAreKnown'
      BY <3>1 DEF Inductive, TypeOK, AnswersAreKnown, queue
    <3>3. PagesAreBehind'
      BY <3>1 DEF Inductive, PagesAreBehind, PageFits, queue, Stored
    <3> QED BY <3>1, <3>2, <3>3, ReadersKeep, DecisionsStay DEF Inductive
  <2> QED BY <2>1, ProcessKeeps, ConfirmJsonKeeps, EditKeeps, PressKeeps, PageStepKeeps, ListingStepKeeps
    DEF Next, BrowserStep
<1> QED BY <1>1, <1>2, PTL DEF Spec

-----------------------------------------------------------------------------
\* Every state of the review is well typed.
THEOREM ReviewTypes == Spec => []TypeOK
<1>1. Inductive => TypeOK
  BY DEF Inductive
<1> QED BY <1>1, Invariance, PTL

\* No review page that says complete lacks a proposal it ought to have.
THEOREM PagesMissNothing == Spec => []PageMissesNothing
<1>1. Inductive => PageMissesNothing
  BY DEF Inductive, PagesAreBehind, OutputIsOwn, PageMissesNothing, IsShown, Stored, PageFits
<1> QED BY <1>1, Invariance, PTL

\* The proposal of a relation stays stored, its document stays complete.
THEOREM RelationsStand == Spec => []RelationsHaveProposals
<1>1. Inductive => RelationsHaveProposals
  BY DEF Inductive
<1> QED BY <1>1, Invariance, PTL

(***************************************************************************)
(* A confirmation that was answered stands, a conflict has another         *)
(* confirmation for its reason, and evidence is found invalid only after   *)
(* an edit; what a page shows is never unknown.                            *)
(***************************************************************************)
THEOREM Honour == Spec => []PressesAreHonoured
<1>1. Inductive => PressesAreHonoured
  BY DEF Inductive
<1> QED BY <1>1, Invariance, PTL

(***************************************************************************)
(* What a reviewer has confirmed is confirmed again, whatever was edited,  *)
(* unless the press fails or the form's key was used for another proposal. *)
(***************************************************************************)
THEOREM Repeats == Spec => RepeatsAreConfirmed
<1> DEFINE Kept ==
      \A b \in Browsers :
        LET a == answer'[b]
        IN  /\ answer'[b] # answer[b]
            /\ a.outcome \in Refusals
            /\ AcceptedBy(a.proposal, a.reviewer)
            => UsedFor(<<"web-confirm", a.proposal>>) \ {a.proposal} # {}
<1>1. Inductive /\ [Next]_vars => Kept
  <2> SUFFICES ASSUME Inductive, [Next]_vars, NEW b \in Browsers, answer'[b] # answer[b],
                      answer'[b].outcome \in Refusals,
                      AcceptedBy(answer'[b].proposal, answer'[b].reviewer)
               PROVE  UsedFor(<<"web-confirm", answer'[b].proposal>>) \ {answer'[b].proposal} # {}
    OBVIOUS
  <2>1. PICK c \in Browsers : Press(c)
    BY DEF Next, BrowserStep, Process, ConfirmJson, EditReferenceData, OpenPage, ReadState,
       ReadProposals, OpenListing, ReadRelations, ReadLinks, vars
  <2>2. PICK p \in page[c].shown, a \in Answers :
          /\ p \in Proposals /\ Known(p)
          /\ answer' = [answer EXCEPT ![c] = a] /\ PressAnswer(c, p, a)
    BY <2>1, PressCases
  <2>3. answer'[b] = a /\ b = c
    BY <2>2 DEF Inductive, TypeOK
  <2>4. /\ Refuse(p, page[c].reviewer, WebKey(p), a.outcome)
        /\ a.proposal = p /\ a.reviewer = page[c].reviewer
    BY <2>2, <2>3 DEF PressAnswer, Failed, Unanswered, Refusals
  <2> QED BY <2>2, <2>3, <2>4 DEF Refuse, Undecided, AcceptedBy, WebKey, UsedFor
<1>2. Inductive /\ [Next]_vars => [Kept]_vars
  BY <1>1
<1> QED BY <1>2, Invariance, PTL DEF Spec, RepeatsAreConfirmed

(***************************************************************************)
(* Listings show what was confirmed, with its evidence.                    *)
(***************************************************************************)
THEOREM Retrieval == Spec => []ConfirmedIsRetrieved
<1>1. Inductive => ConfirmedIsRetrieved
  BY DEF Inductive, ListingsAreBehind, ConfirmedIsRetrieved, ListingFits
<1> QED BY <1>1, Invariance, PTL

-----------------------------------------------------------------------------
(***************************************************************************)
(* Web forms alone: nobody uses the JSON endpoint.                         *)
(***************************************************************************)
WebNext ==
  \/ \E d \in Documents : Process(d)
  \/ \E p \in Editable : EditReferenceData(p)
  \/ \E b \in Browsers : BrowserStep(b)

WebSpec == Init /\ [][WebNext]_vars

OnlyEditsRefuse ==
  \A b \in Browsers :
    \/ answer[b].outcome \in {"none", "failed", "confirmed"}
    \/ answer[b].outcome = "invalid" /\ answer[b].proposal \in edited

\* Every key is that of its proposal's form, and answers are to reviewers.
WebOnly ==
  /\ \A p \in Proposals : accepted[p] # NoDecision => accepted[p].key = WebKey(p)
  /\ \A b \in Browsers : answer[b].outcome \notin {"none", "failed"} =>
       answer[b].reviewer \in Reviewers

LEMMA WebStep == ASSUME Inductive, WebOnly, [WebNext]_vars PROVE WebOnly'
<1>1. ASSUME NEW b \in Browsers, Press(b) PROVE WebOnly'
  <2>1. PICK p \in page[b].shown, a \in Answers :
          /\ p \in Proposals /\ page[b].reviewer \in Reviewers
          /\ answer' = [answer EXCEPT ![b] = a] /\ PressAnswer(b, p, a)
    BY <1>1, PressCases
  <2>2. /\ Accept(p, page[b].reviewer, WebKey(p)) \/ accepted' = accepted
        /\ a.outcome # "failed" => a.reviewer \in Reviewers
    BY <2>1 DEF PressAnswer, Failed, Unanswered, Replay, Refuse
  <2>3. \A c \in Browsers : answer'[c].outcome \notin {"none", "failed"} =>
          answer'[c].reviewer \in Reviewers
    BY <2>1, <2>2 DEF WebOnly, Inductive, TypeOK
  <2>4. CASE Accept(p, page[b].reviewer, WebKey(p))
    <3>1. accepted' = [accepted EXCEPT ![p] =
                         [key |-> WebKey(p), reviewer |-> page[b].reviewer]]
      BY <2>4 DEF Accept, Ledger!Accept
    <3>2. \A q \in Proposals : accepted'[q] # NoDecision => accepted'[q].key = WebKey(q)
      BY <2>1, <3>1 DEF WebOnly, Inductive, TypeOK
    <3> QED BY <2>3, <3>2 DEF WebOnly, WebKey
  <2>5. CASE accepted' = accepted
    BY <2>3, <2>5 DEF WebOnly, WebKey
  <2> QED BY <2>2, <2>4, <2>5
<1>2. ASSUME accepted' = accepted, answer' = answer PROVE WebOnly'
  BY <1>2 DEF WebOnly, WebKey
<1>3. [WebNext]_vars => (\E b \in Browsers : Press(b)) \/ (accepted' = accepted /\ answer' = answer)
  BY DEF WebNext, BrowserStep, Process, EditReferenceData, OpenPage, ReadState, ReadProposals,
     OpenListing, ReadRelations, ReadLinks, vars
<1> QED BY <1>1, <1>2, <1>3

(***************************************************************************)
(* With one reviewer, and web forms alone, a press of Confirm meets no     *)
(* conflict, from however old a page and however often: unless it fails    *)
(* (session, database, lost answer), it is refused only if reference data of *)
(* its proposal were edited after the proposal was stored.                 *)
(***************************************************************************)
THEOREM WebFormsSuffice ==
  ASSUME NEW r, Reviewers = {r} PROVE WebSpec => []OnlyEditsRefuse
<1>1. Init => WebOnly
  BY DEF Init, Ledger!Init, Unanswered, WebOnly
<1>2. Inductive /\ WebOnly /\ [WebNext]_vars => WebOnly'
  BY WebStep
<1>3. [WebNext]_vars => [Next]_vars
  BY DEF WebNext, Next
<1>4. Inductive /\ WebOnly => OnlyEditsRefuse
  <2> SUFFICES ASSUME Inductive, WebOnly, NEW b \in Browsers, answer[b].outcome = "conflict"
               PROVE  FALSE
    BY DEF OnlyEditsRefuse, Inductive, TypeOK, Answers, PressesAreHonoured, Refusals
  <2> DEFINE p == answer[b].proposal
  <2>1. p \in Proposals /\ answer[b].reviewer = r
    BY DEF Inductive, AnswersAreKnown, WebOnly
  <2>2. accepted[p] # NoDecision => AcceptedBy(p, answer[b].reviewer)
    BY <2>1 DEF Inductive, TypeOK, AcceptedBy
  <2>3. UsedFor(<<"web-confirm", p>>) \ {p} = {}
    BY <2>1 DEF WebOnly, UsedFor, WebKey
  <2> QED BY <2>2, <2>3 DEF Inductive, PressesAreHonoured
<1> QED BY <1>1, <1>2, <1>3, <1>4, Invariance, PTL DEF Spec, WebSpec

-----------------------------------------------------------------------------
(***************************************************************************)
(* Composition. The reviewers, the pages and the lists add nothing to what *)
(* the queue and the confirmations promise: every step of the whole is a   *)
(* step of JobLifecycle, of ReviewLedger or of neither. Both are what      *)
(* ProcessingQueue and Confirmation are shown to implement.                *)
(***************************************************************************)
THEOREM Composition == Spec => Queue!Spec /\ Ledger!Spec
<1>1. Init => Queue!Init /\ Ledger!Init
  BY DEF Init
<1>2. [Next]_vars => [Queue!Next]_(Queue!lvars)
  <2>1. ASSUME NEW d \in Documents, Process(d) PROVE Queue!Next
    BY <2>1 DEF Process, Reprocess, Queue!Next
  <2>2. ASSUME NEW b \in Browsers, BrowserStep(b) PROVE UNCHANGED Queue!lvars
    BY <2>2 DEF BrowserStep, OpenPage, ReadState, ReadProposals, Press, OpenListing,
       ReadRelations, ReadLinks, queue, Queue!lvars
  <2>3. CASE ConfirmJson \/ (\E p \in Editable : EditReferenceData(p)) \/ UNCHANGED vars
    BY <2>3 DEF ConfirmJson, EditReferenceData, vars, queue, Queue!lvars
  <2> QED BY <2>1, <2>2, <2>3 DEF Next
<1>3. Inductive /\ [Next]_vars => [Ledger!Next]_accepted
  <2> SUFFICES ASSUME Inductive, [Next]_vars PROVE [Ledger!Next]_accepted
    OBVIOUS
  <2>1. ASSUME NEW p \in Proposals, NEW r \in Reviewers, NEW k \in Keys, Accept(p, r, k)
        PROVE  Ledger!Next
    BY <2>1 DEF Accept, Ledger!Next
  <2>2. ASSUME NEW b \in Browsers, Press(b) PROVE [Ledger!Next]_accepted
    <3>1. PICK p \in page[b].shown, a \in Answers :
            /\ p \in Proposals /\ page[b].reviewer \in Reviewers /\ WebKey(p) \in Keys
            /\ PressAnswer(b, p, a)
      BY <2>2, PressCases
    <3>2. Accept(p, page[b].reviewer, WebKey(p)) \/ accepted' = accepted
      BY <3>1 DEF PressAnswer, Replay, Refuse
    <3> QED BY <2>1, <3>1, <3>2
  <2>3. CASE ConfirmJson
    BY <2>1, <2>3 DEF ConfirmJson
  <2>4. ASSUME NEW b \in Browsers, BrowserStep(b), ~ Press(b) PROVE accepted' = accepted
    BY <2>4 DEF BrowserStep, OpenPage, ReadState, ReadProposals, OpenListing,
       ReadRelations, ReadLinks
  <2>5. CASE \/ \E d \in Documents : Process(d)
             \/ \E p \in Editable : EditReferenceData(p)
             \/ UNCHANGED vars
    BY <2>5 DEF Process, EditReferenceData, vars
  <2> QED BY <2>2, <2>3, <2>4, <2>5 DEF Next
<1> QED BY <1>1, <1>2, <1>3, Invariance, PTL DEF Spec, Queue!Spec, Ledger!Spec
=============================================================================
