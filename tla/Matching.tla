------------------------------ MODULE Matching ------------------------------
(***************************************************************************)
(* Matching: build_proposals finds at most three existing objects by exact *)
(* lookups, takes a snapshot of each, validates evidence against it, scores*)
(* and ranks; the transaction that completes the document validates the    *)
(* evidence again, in SQL, against the tables as they are then.            *)
(*                                                                         *)
(* Each read is a snapshot of its own, and reference data may be edited in *)
(* between. All lookups compare with the document's signals, at most one   *)
(* of each type; so a table is represented by the rows that agree with the *)
(* signal. Objects are numbered in the order of their ids.                 *)
(***************************************************************************)
EXTENDS Integers, FiniteSets

CONSTANTS
  Properties, Accounts, Assets, Organisations,   \* objects, by number
  MaxCandidates,    \* how many may be proposed; with 1, TopThree would be false
  MaxEdits          \* bound: edits of reference data

ASSUME MatchingAssumption ==
  /\ Properties \subseteq Nat /\ Accounts \subseteq Nat
  /\ Assets \subseteq Nat /\ Organisations \subseteq Nat
  /\ IsFiniteSet(Properties) /\ IsFiniteSet(Assets)
  /\ Properties \cap Assets = {}
  /\ MaxCandidates \in Nat \ {0, 1} /\ MaxEdits \in Nat

VARIABLES
  kind,      \* whether the document concerns a property or an asset
  data,      \* the rows that agree with the document's signals
  phase,     \* of the processing of the document
  reading,   \* what the reads have found so far
  drafts,    \* the ranked proposals
  edited,    \* history: reference data were edited since the first read
  edits

vars == <<kind, data, phase, reading, drafts, edited, edits>>

Subjects == [Accounts -> Properties \cup {-1}]   \* -1: no property

\* Serials and order references are unique.
Unique(S) == {T \in SUBSET S : \A x, y \in T : x = y}

Tables == [addressed : SUBSET Properties, subject : Subjects,
           suffixed : SUBSET Accounts, issued : SUBSET Accounts,
           serial : Unique(Assets), order : Unique(Assets),
           model : SUBSET Assets, merchants : SUBSET Organisations]

NothingRead == [left |-> {}, merchants |-> {}, scored |-> {}]

Init ==
  /\ kind \in {"property", "asset"}
  /\ data \in Tables
  /\ phase = "queued"
  /\ reading = NothingRead
  /\ drafts = {}
  /\ edited = FALSE
  /\ edits = 0

-----------------------------------------------------------------------------
Least(S) == CHOOSE x \in S : \A y \in S : x <= y

\* ORDER BY id LIMIT n, for n >= 0.
First(S, n) == {x \in S : Cardinality({y \in S : y < x}) < n}

\* The candidates found so far, and of a next lookup as many as there is room for.
Extend(C, S) == C \cup First(First(S, MaxCandidates) \ C, MaxCandidates - Cardinality(C))

(***************************************************************************)
(* By address; then, if there is room, by account. That query yields a row *)
(* for each account, so that the limit counts a property with several such *)
(* accounts several times.                                                 *)
(***************************************************************************)
PropertyCandidates ==
  LET rows == {a \in data.suffixed : data.subject[a] \in Properties}
      limited == {data.subject[a] : a \in
                    {b \in rows : Cardinality({c \in rows : data.subject[c] < data.subject[b]})
                                    < MaxCandidates}}
  IN  Extend(First(data.addressed, MaxCandidates), limited)

\* Mutant of AssetCandidates: models are looked up first.
ModelsFirst ==
  Extend(Extend(First(data.model, MaxCandidates), data.order), data.serial)

AssetCandidates ==
  Extend(Extend(First(data.serial, MaxCandidates), data.order), data.model)

Candidates == IF kind = "property" THEN PropertyCandidates ELSE AssetCandidates

Codes == {"address_exact", "account_suffix_exact", "issuer_exact",
          "merchant_alias_exact", "model_exact", "serial_exact", "order_reference_exact"}

Specific == Codes \ {"issuer_exact", "merchant_alias_exact"}

Weight ==
  [c \in Codes |->
     CASE c = "issuer_exact" -> 20
       [] c = "address_exact" -> 60
       [] c = "account_suffix_exact" -> 50
       [] c = "merchant_alias_exact" -> 15
       [] c = "model_exact" -> 45
       [] c = "serial_exact" -> 70
       [] c = "order_reference_exact" -> 60]

\* The accounts of a property that agree with a signal.
Having(x, accounts) == {a \in accounts : data.subject[a] = x}

\* The codes a snapshot of x supports, with ms the matched merchant, if any.
SupportedCodes(x, ms) ==
  {c \in Codes :
     \/ c = "address_exact" /\ x \in data.addressed
     \/ c = "account_suffix_exact" /\ x \in Properties /\ Having(x, data.suffixed) # {}
     \/ c = "issuer_exact" /\ x \in Properties /\ Having(x, data.issued) # {}
     \/ c = "serial_exact" /\ x \in data.serial
     \/ c = "order_reference_exact" /\ x \in data.order
     \/ c = "model_exact" /\ x \in data.model
     \/ c = "merchant_alias_exact" /\ x \in Assets /\ ms # {}}

\* Mutant of MatchedObject: the issuer is matched by the suffix's account.
MatchedBySuffix(x, ms, c) ==
  CASE c \in {"account_suffix_exact", "issuer_exact"} -> Least(Having(x, data.suffixed \cup data.issued))
    [] c = "merchant_alias_exact" -> Least(ms)
    [] OTHER -> x

\* matched_object_ids of the snapshot: the first row that agrees.
MatchedObject(x, ms, c) ==
  CASE c = "account_suffix_exact" -> Least(Having(x, data.suffixed))
    [] c = "issuer_exact" -> Least(Having(x, data.issued))
    [] c = "merchant_alias_exact" -> Least(ms)
    [] OTHER -> x

Evidence(x, ms) ==
  {[code |-> c, matched |-> MatchedObject(x, ms, c)] : c \in SupportedCodes(x, ms)}

Points(E, c) == IF \E e \in E : e.code = c THEN Weight[c] ELSE 0

Score(E) ==
  Points(E, "issuer_exact") + Points(E, "address_exact") + Points(E, "account_suffix_exact")
    + Points(E, "merchant_alias_exact") + Points(E, "model_exact")
    + Points(E, "serial_exact") + Points(E, "order_reference_exact")

\* The candidates of C that have candidate-specific evidence, with their scores.
Scored(C, ms) ==
  {[candidate |-> x, evidence |-> Evidence(x, ms), score |-> Score(Evidence(x, ms))] :
     x \in {y \in C : SupportedCodes(y, ms) \cap Specific # {}}}

\* The matched merchant: the first organisation, if any, with the alias.
Merchant == IF data.merchants = {} THEN {} ELSE {Least(data.merchants)}

Better(d, e) == d.score > e.score \/ (d.score = e.score /\ d.candidate < e.candidate)

\* Mutant of Ranked: ranks are counted from zero.
RankedFromZero(D) ==
  {[candidate |-> d.candidate, evidence |-> d.evidence, score |-> d.score,
    rank |-> Cardinality({e \in D : Better(e, d)})] : d \in D}

Ranked(D) ==
  {[candidate |-> d.candidate, evidence |-> d.evidence, score |-> d.score,
    rank |-> 1 + Cardinality({e \in D : Better(e, d)})] : d \in D}

-----------------------------------------------------------------------------
\* The first reads: candidate ids, and the merchant.
FindCandidates ==
  /\ phase = "queued"
  /\ phase' = "reading"
  /\ reading' = [left |-> Candidates, scored |-> {},
                 merchants |-> Merchant]
  /\ edited' = FALSE
  /\ UNCHANGED <<kind, data, drafts, edits>>

\* Mutant of Describe: the merchant is used up by the first candidate.
DescribeConsuming ==
  /\ phase = "reading"
  /\ \E x \in reading.left :
       reading' = [left |-> reading.left \ {x}, merchants |-> {},
                   scored |-> reading.scored \cup Scored({x}, reading.merchants)]
  /\ UNCHANGED <<kind, data, phase, drafts, edited, edits>>

\* A snapshot of one of the candidates is read, validated and scored.
Describe ==
  /\ phase = "reading"
  /\ \E x \in reading.left :
       reading' = [left |-> reading.left \ {x}, merchants |-> reading.merchants,
                   scored |-> reading.scored \cup Scored({x}, reading.merchants)]
  /\ UNCHANGED <<kind, data, phase, drafts, edited, edits>>

Rank ==
  /\ phase = "reading" /\ reading.left = {}
  /\ phase' = "drafted"
  /\ drafts' = Ranked(reading.scored)
  /\ reading' = NothingRead
  /\ UNCHANGED <<kind, data, edited, edits>>

(***************************************************************************)
(* SqlEvidenceValidator: e supports candidate x, by the tables.            *)
(***************************************************************************)
Accepts(x, e) ==
  \/ e.code = "address_exact" /\ e.matched = x /\ x \in data.addressed
  \/ e.code = "account_suffix_exact" /\ e.matched \in data.suffixed /\ data.subject[e.matched] = x
  \/ e.code = "issuer_exact" /\ e.matched \in data.issued /\ data.subject[e.matched] = x
  \/ e.code = "merchant_alias_exact" /\ e.matched \in data.merchants /\ x \in Assets
  \/ e.code = "model_exact" /\ e.matched = x /\ x \in data.model
  \/ e.code = "serial_exact" /\ e.matched = x /\ x \in data.serial
  \/ e.code = "order_reference_exact" /\ e.matched = x /\ x \in data.order

Supported(d) ==
  /\ \E e \in d.evidence : e.code \in Specific
  /\ \A e \in d.evidence : Accepts(d.candidate, e)

Acceptable(D) == Cardinality(D) <= 3 /\ \A d \in D : Supported(d)

Persist ==
  /\ phase = "drafted" /\ Acceptable(drafts)
  /\ phase' = "complete"
  /\ UNCHANGED <<kind, data, reading, drafts, edited, edits>>

Reject ==
  /\ phase = "drafted" /\ ~ Acceptable(drafts)
  /\ phase' = "failed"
  /\ drafts' = {}
  /\ UNCHANGED <<kind, data, reading, edited, edits>>

\* An operator re-queues the failed document: everything is read again.
Retry ==
  /\ phase = "failed"
  /\ phase' = "queued"
  /\ UNCHANGED <<kind, data, reading, drafts, edited, edits>>

Toggle(S, x) == IF x \in S THEN S \ {x} ELSE S \cup {x}

(***************************************************************************)
(* One row of reference data is edited while the document is in the works. *)
(* Edits before are among the initial tables.                              *)
(***************************************************************************)
EditReferenceData ==
  /\ phase \in {"reading", "drafted"}
  /\ edits < MaxEdits
  /\ edits' = edits + 1
  /\ edited' = TRUE
  /\ \/ \E p \in Properties : data' = [data EXCEPT !.addressed = Toggle(@, p)]
     \/ \E a \in Accounts, p \in Properties \cup {-1} :
          data' = [data EXCEPT !.subject = [@ EXCEPT ![a] = p]]
     \/ \E a \in Accounts : data' = [data EXCEPT !.suffixed = Toggle(@, a)]
     \/ \E a \in Accounts : data' = [data EXCEPT !.issued = Toggle(@, a)]
     \/ \E x \in Assets : data' = [data EXCEPT !.serial = IF x \in @ THEN {} ELSE {x}]
     \/ \E x \in Assets : data' = [data EXCEPT !.order = IF x \in @ THEN {} ELSE {x}]
     \/ \E x \in Assets : data' = [data EXCEPT !.model = Toggle(@, x)]
     \/ \E o \in Organisations : data' = [data EXCEPT !.merchants = Toggle(@, o)]
  /\ UNCHANGED <<kind, phase, reading, drafts>>

Next == FindCandidates \/ Describe \/ Rank \/ Persist \/ Reject \/ Retry \/ EditReferenceData

Spec == Init /\ [][Next]_vars

-----------------------------------------------------------------------------
Matches == [code : Codes, matched : Nat]

ScoredCandidates ==
  [candidate : Properties \cup Assets, evidence : SUBSET Matches, score : Nat]

\* Types of the tables, of what is read and of the proposals.
TypeOK ==
  /\ kind \in {"property", "asset"}
  /\ data \in Tables
  /\ phase \in {"queued", "reading", "drafted", "complete", "failed"}
  /\ reading.left \subseteq Properties \cup Assets
  /\ reading.merchants \subseteq Organisations
  /\ reading.scored \subseteq ScoredCandidates
  /\ drafts \subseteq [candidate : Properties \cup Assets, evidence : SUBSET Matches,
                       score : Nat, rank : 1..MaxCandidates]
  /\ edited \in BOOLEAN
  /\ edits \in 0..MaxEdits

(***************************************************************************)
(* Two validators written apart, in Python over a snapshot and in SQL over *)
(* the tables, agree: a document fails on its evidence only if reference   *)
(* data were edited since its first read, so that a retry helps.           *)
(***************************************************************************)
ValidatorsAgree == phase = "drafted" /\ ~ edited => \A d \in drafts : Supported(d)

(***************************************************************************)
(* A late worker's completion is compared with the stored proposals, one   *)
(* by one: if no one edits meanwhile, the proposals are a function of the  *)
(* tables, those one snapshot of everything yields, so it is replayed and  *)
(* not refused.                                                            *)
(***************************************************************************)
DraftsAreRepeatable ==
  phase = "drafted" /\ ~ edited => drafts = Ranked(Scored(Candidates, Merchant))

\* What evidence there is on any object, by the tables as they are.
AllScored ==
  Scored(IF kind = "property" THEN Properties ELSE Assets, Merchant)

Proposed(s) == \E d \in drafts : d.candidate = s.candidate

\* Two accounts of one property end in the suffix of the document.
AccountsShareProperty ==
  \E a, b \in data.suffixed :
    a # b /\ data.subject[a] = data.subject[b] /\ data.subject[a] \in Properties

(***************************************************************************)
(* "Persist only the top three": at most three are proposed. If no one     *)
(* edits meanwhile, an object that has candidate-specific evidence is      *)
(* among them, or as many as may be are proposed, and of assets each of    *)
(* them is better, although assets are looked up, and cut off, before any  *)
(* is scored. A property is left out with room to spare only where several *)
(* accounts of one property agree with the document: each of them counts   *)
(* against the limit of the lookup.                                        *)
(***************************************************************************)
TopThree ==
  phase = "drafted" /\ ~ edited =>
    /\ Cardinality(drafts) <= MaxCandidates
    /\ \A s \in AllScored :
         \/ Proposed(s)
         \/ /\ Cardinality(drafts) = MaxCandidates
            /\ kind = "asset" => \A d \in drafts : Better(d, s)
         \/ kind = "property" /\ AccountsShareProperty

(***************************************************************************)
(* What the plan and the docstring of SqlCandidateReader say: at most so   *)
(* many CANDIDATES are retrieved. So if fewer are proposed, and no one     *)
(* edits meanwhile, no object with candidate-specific evidence is left out.*)
(***************************************************************************)
NoneIsCrowdedOut ==
  phase = "drafted" /\ ~ edited /\ Cardinality(drafts) < MaxCandidates =>
    \A s \in AllScored : Proposed(s)
=============================================================================
