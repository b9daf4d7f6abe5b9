--------------------------- MODULE MatchingProofs ---------------------------
(***************************************************************************)
(* The types of matching, the agreement of its two validators and the      *)
(* choice of the best candidates, for every size of the tables.            *)
(***************************************************************************)
EXTENDS Matching, FiniteSetTheorems, TLAPS

\* Some rows, if any, have a first one.
LEMMA FirstExists ==
  ASSUME NEW S, S \subseteq Nat, S # {}
  PROVE  \E x \in S : \A y \in S : x <= y
<1> DEFINE less == OpToRel(<, Nat)
<1>1. less = {ss \in Nat \X Nat : ss[1] < ss[2]}
  BY DEF OpToRel
<1>2. IsWellFoundedOn(less, Nat)
  BY NatLessThanWellFounded
<1> HIDE DEF less
<1>3. \E x \in S : \A y \in S : ~ (<<y, x>> \in less)
  BY <1>2, WFMin
<1>4. ASSUME NEW x \in Nat, NEW y \in Nat, y < x PROVE <<y, x>> \in less
  <2>1. <<y, x>> \in Nat \X Nat /\ <<y, x>>[1] < <<y, x>>[2]
    BY <1>4
  <2> QED BY <1>1, <2>1
<1>5. PICK x \in S : \A y \in S : ~ (<<y, x>> \in less)
  BY <1>3
<1>6. ASSUME NEW y \in S PROVE x <= y
  <2>1. x \in Nat /\ y \in Nat
    OBVIOUS
  <2>2. ~ (y < x)
    BY <1>4, <1>5, <2>1, Zenon
  <2> QED BY <2>1, <2>2
<1> QED BY <1>6

\* `Least' is that row.
LEMMA LeastIsMember ==
  ASSUME NEW S, S \subseteq Nat, S # {}
  PROVE  Least(S) \in S
BY FirstExists DEF Least

LEMMA LeastIsFirst ==
  ASSUME NEW S, S \subseteq Nat, S # {}
  PROVE  \A y \in S : Least(S) <= y
BY FirstExists DEF Least

\* Editing one row leaves the tables well formed.
LEMMA EditKeepsTables ==
  ASSUME data \in Tables, EditReferenceData
  PROVE  data' \in Tables
<1> USE DEF EditReferenceData, Tables, Toggle
<1>1. CASE \E p \in Properties : data' = [data EXCEPT !.addressed = Toggle(@, p)]
  BY <1>1
<1>2. CASE \E a \in Accounts, p \in Properties \cup {-1} :
             data' = [data EXCEPT !.subject = [@ EXCEPT ![a] = p]]
  <2>1. PICK a \in Accounts, p \in Properties \cup {-1} :
          data' = [data EXCEPT !.subject = [@ EXCEPT ![a] = p]]
    BY <1>2
  <2>2. [data.subject EXCEPT ![a] = p] \in Subjects
    BY DEF Subjects
  <2> QED BY <2>1, <2>2
<1>3. CASE \/ \E a \in Accounts : data' = [data EXCEPT !.suffixed = Toggle(@, a)]
           \/ \E a \in Accounts : data' = [data EXCEPT !.issued = Toggle(@, a)]
  BY <1>3
<1>4. CASE \/ \E x \in Assets : data' = [data EXCEPT !.serial = IF x \in @ THEN {} ELSE {x}]
           \/ \E x \in Assets : data' = [data EXCEPT !.order = IF x \in @ THEN {} ELSE {x}]
  <2>1. \A x \in Assets : {x} \in Unique(Assets)
    BY DEF Unique
  <2>2. {} \in Unique(Assets)
    BY DEF Unique
  <2> QED BY <1>4, <2>1, <2>2
<1>5. CASE \/ \E x \in Assets : data' = [data EXCEPT !.model = Toggle(@, x)]
           \/ \E o \in Organisations : data' = [data EXCEPT !.merchants = Toggle(@, o)]
  BY <1>5
<1> QED BY <1>1, <1>2, <1>3, <1>4, <1>5

LEMMA TablesStep == ASSUME data \in Tables, [Next]_vars PROVE data' \in Tables
<1>1. ASSUME ~ EditReferenceData PROVE data' = data
  BY <1>1 DEF Next, FindCandidates, Describe, Rank, Persist, Reject, Retry, vars
<1> QED BY <1>1, EditKeepsTables

\* What a snapshot of x supports, the tables support, with the object it names.
LEMMA SnapshotIsAccepted ==
  ASSUME data \in Tables, NEW x, NEW ms \in SUBSET data.merchants,
         NEW c \in SupportedCodes(x, ms)
  PROVE  Accepts(x, [code |-> c, matched |-> MatchedObject(x, ms, c)])
<1>1. CASE c = "account_suffix_exact"
  <2>1. Having(x, data.suffixed) # {} /\ Having(x, data.suffixed) \subseteq Nat
    BY <1>1, MatchingAssumption DEF SupportedCodes, Having, Tables, MatchingAssumption
  <2>2. Least(Having(x, data.suffixed)) \in Having(x, data.suffixed)
    BY <2>1, LeastIsMember
  <2> QED BY <1>1, <2>2 DEF MatchedObject, Accepts, Having
<1>2. CASE c = "issuer_exact"
  <2>1. Having(x, data.issued) # {} /\ Having(x, data.issued) \subseteq Nat
    BY <1>2, MatchingAssumption DEF SupportedCodes, Having, Tables, MatchingAssumption
  <2>2. Least(Having(x, data.issued)) \in Having(x, data.issued)
    BY <2>1, LeastIsMember
  <2> QED BY <1>2, <2>2 DEF MatchedObject, Accepts, Having
<1>3. CASE c = "merchant_alias_exact"
  <2>1. ms # {} /\ ms \subseteq Nat /\ x \in Assets
    BY <1>3, MatchingAssumption DEF SupportedCodes, Tables, MatchingAssumption
  <2>2. Least(ms) \in data.merchants
    BY <2>1, LeastIsMember
  <2> QED BY <1>3, <2>1, <2>2 DEF MatchedObject, Accepts
<1>4. CASE c \notin {"account_suffix_exact", "issuer_exact", "merchant_alias_exact"}
  <2>1. MatchedObject(x, ms, c) = x
    BY <1>4 DEF MatchedObject
  <2> QED BY <1>4, <2>1 DEF SupportedCodes, Accepts
<1> QED BY <1>1, <1>2, <1>3, <1>4

LEMMA ScoredIsSupported ==
  ASSUME data \in Tables, NEW C, NEW ms \in SUBSET data.merchants, NEW d \in Scored(C, ms)
  PROVE  Supported(d)
<1>1. PICK x \in C : /\ SupportedCodes(x, ms) \cap Specific # {}
                     /\ d.candidate = x /\ d.evidence = Evidence(x, ms)
  BY DEF Scored
<1>2. \E e \in d.evidence : e.code \in Specific
  <2>1. PICK c \in SupportedCodes(x, ms) : c \in Specific
    BY <1>1
  <2>2. [code |-> c, matched |-> MatchedObject(x, ms, c)] \in d.evidence
    BY <1>1 DEF Evidence
  <2> QED BY <2>1, <2>2
<1>3. ASSUME NEW e \in d.evidence PROVE Accepts(d.candidate, e)
  <2>1. PICK c \in SupportedCodes(x, ms) :
          e = [code |-> c, matched |-> MatchedObject(x, ms, c)]
    BY <1>1 DEF Evidence
  <2>2. Accepts(x, [code |-> c, matched |-> MatchedObject(x, ms, c)])
    BY SnapshotIsAccepted
  <2> QED BY <1>1, <2>1, <2>2
<1> QED BY <1>2, <1>3 DEF Supported

(***************************************************************************)
(* The invariant: while no one edits, what has been read is supported at   *)
(* every point of the reading, and the merchant is still one.              *)
(***************************************************************************)
Agreed ==
  /\ data \in Tables
  /\ ~ edited /\ phase = "reading" =>
       /\ reading.merchants \subseteq data.merchants
       /\ \A d \in reading.scored : Supported(d)
  /\ ValidatorsAgree

LEMMA SupportedStays ==
  ASSUME data' = data, NEW d, Supported(d)
  PROVE  Supported(d)'
BY DEF Supported, Accepts

LEMMA AgreedStep == ASSUME Agreed, [Next]_vars PROVE Agreed'
<1> USE DEF Agreed, ValidatorsAgree
<1>1. data' \in Tables
  BY TablesStep
<1>2. CASE FindCandidates
  <2>1. data.merchants # {} => Least(data.merchants) \in data.merchants
    BY LeastIsMember, MatchingAssumption DEF Tables, MatchingAssumption
  <2> QED BY <1>1, <1>2, <2>1 DEF FindCandidates, Merchant
<1>3. CASE Describe
  <2>1. /\ phase = "reading" /\ phase' = "reading" /\ data' = data /\ edited' = edited
        /\ reading'.merchants = reading.merchants
    BY <1>3 DEF Describe
  <2>2. ASSUME NEW d \in reading'.scored, ~ edited PROVE Supported(d)
    BY <1>3, <2>1, <2>2, ScoredIsSupported DEF Describe
  <2>3. ASSUME NEW d \in reading'.scored, ~ edited PROVE Supported(d)'
    BY <2>1, <2>2, <2>3, SupportedStays
  <2> QED BY <1>1, <2>1, <2>3
<1>4. CASE Rank
  <2>1. /\ phase = "reading" /\ phase' = "drafted" /\ data' = data /\ edited' = edited
        /\ drafts' = Ranked(reading.scored)
    BY <1>4 DEF Rank
  <2> DEFINE RankOf(s) == 1 + Cardinality({e \in reading.scored : Better(e, s)})
  <2>2. ASSUME NEW d \in drafts', ~ edited PROVE Supported(d)
    <3>1. PICK s \in reading.scored : d.candidate = s.candidate /\ d.evidence = s.evidence
      <4>1. PICK s \in reading.scored :
              d = [candidate |-> s.candidate, evidence |-> s.evidence, score |-> s.score,
                   rank |-> RankOf(s)]
        BY <2>1 DEF Ranked
      <4> QED BY <4>1
    <3>2. Supported(s)
      BY <2>1, <2>2
    <3> QED BY <3>1, <3>2 DEF Supported
  <2>3. ASSUME NEW d \in drafts', ~ edited PROVE Supported(d)'
    BY <2>1, <2>2, <2>3, SupportedStays
  <2> QED BY <1>1, <2>1, <2>3
<1>5. CASE Persist \/ Reject \/ Retry
  BY <1>1, <1>5 DEF Persist, Reject, Retry
<1>6. CASE EditReferenceData
  BY <1>1, <1>6 DEF EditReferenceData
<1>7. CASE UNCHANGED vars
  <2>1. data' = data /\ phase' = phase /\ reading' = reading /\ drafts' = drafts /\ edited' = edited
    BY <1>7 DEF vars
  <2> QED BY <2>1, SupportedStays
<1> QED BY <1>2, <1>3, <1>4, <1>5, <1>6, <1>7 DEF Next

(***************************************************************************)
(* Evidence the matcher drafts is accepted by the transaction unless       *)
(* reference data were edited in between: `build_proposals' never sends a  *)
(* document to its failure by itself.                                      *)
(***************************************************************************)
THEOREM Agreement == Spec => []ValidatorsAgree
<1>1. Init => Agreed
  BY DEF Init, Agreed, ValidatorsAgree
<1>2. Agreed => ValidatorsAgree
  BY DEF Agreed
<1> QED BY <1>1, <1>2, AgreedStep, PTL DEF Spec
-----------------------------------------------------------------------------
(***************************************************************************)
(* Lookups: ORDER BY id LIMIT n, and the lists they are joined into.       *)
(***************************************************************************)

\* Some rows, if any and finitely many, have a last one: there is a row with
\* the fewest rows above it.
LEMMA LastExists ==
  ASSUME NEW S \in SUBSET Nat, IsFiniteSet(S), S # {}
  PROVE  \E x \in S : \A y \in S : y <= x
<1> DEFINE Above(x) == {y \in S : x < y}
           less == StrictSubsetOrdering(S)
<1>1. IsWellFoundedOn(less, FiniteSubsetsOf(S))
  BY FS_StrictSubsetOrderingWellFounded
<1>2. \A x \in S : Above(x) \in FiniteSubsetsOf(S)
  BY FS_FiniteSubsetsOfFinite
<1> HIDE DEF less
<1>3. PICK x \in S : \A y \in S : ~ (<<Above(y), Above(x)>> \in less)
  <2> DEFINE R == {Above(x) : x \in S}
  <2>1. R \subseteq FiniteSubsetsOf(S) /\ R # {}
    BY <1>2
  <2>2. \E r \in R : \A q \in R : ~ (<<q, r>> \in less)
    <3> HIDE DEF R
    <3> QED BY <1>1, <2>1, WFMin
  <2> QED BY <2>2
<1>4. ASSUME NEW y \in S, x < y PROVE FALSE
  <2>1. Above(y) \subseteq Above(x) /\ Above(y) # Above(x)
    <3>1. x \in Nat /\ y \in Nat /\ y \in Above(x) /\ y \notin Above(y)
      BY <1>4
    <3>2. \A z \in Above(y) : z \in Above(x)
      BY <1>4
    <3> QED BY <3>1, <3>2
  <2>2. Above(y) \in SUBSET S /\ Above(x) \in SUBSET S
    OBVIOUS
  <2>3. <<Above(y), Above(x)>> \in less
    <3> HIDE DEF Above
    <3> QED BY <2>1, <2>2 DEF less, StrictSubsetOrdering
  <2> QED BY <1>3, <2>3
<1> QED BY <1>4

\* The rows below x, that `First' counts.
Below(S, x) == {y \in S : y < x}

\* At most n rows; if one is left out, n others, and all of them before it.
LEMMA FirstRows ==
  ASSUME NEW S \in SUBSET Nat, IsFiniteSet(S), NEW n \in Nat
  PROVE  /\ First(S, n) \subseteq S /\ IsFiniteSet(First(S, n))
         /\ Cardinality(First(S, n)) <= n
         /\ \A x \in S \ First(S, n) :
              /\ Cardinality(First(S, n)) = n
              /\ \A y \in First(S, n) : y < x
<1> DEFINE F == First(S, n)
<1>1. F = {x \in S : Cardinality(Below(S, x)) < n}
  BY DEF First, Below
<1> HIDE DEF F
<1>2. F \subseteq S /\ IsFiniteSet(F) /\ Cardinality(F) \in Nat
  BY <1>1, FS_Subset, FS_CardinalityType
<1>3. ASSUME NEW x \in S
      PROVE  IsFiniteSet(Below(S, x)) /\ Cardinality(Below(S, x)) \in Nat
  <2>1. Below(S, x) \in SUBSET S
    BY DEF Below
  <2> QED BY <2>1, FS_Subset, FS_CardinalityType
<1>4. Cardinality(F) <= n
  <2>1. CASE F = {}
    BY <2>1, FS_EmptySet
  <2>2. CASE F # {}
    <3>1. PICK m \in F : \A y \in F : y <= m
      BY <1>2, <2>2, LastExists
    <3>2. F \ {m} \subseteq Below(S, m)
      BY <1>2, <3>1 DEF Below
    <3>3. Cardinality(F \ {m}) <= Cardinality(Below(S, m))
      BY <1>2, <1>3, <3>2, FS_Subset
    <3>4. Cardinality(F \ {m}) = Cardinality(F) - 1
      BY <1>2, FS_RemoveElement
    <3>5. Cardinality(Below(S, m)) < n
      BY <1>1
    <3> QED BY <1>2, <1>3, <3>3, <3>4, <3>5
  <2> QED BY <2>1, <2>2
<1>5. ASSUME NEW x \in S \ F, NEW y \in F PROVE y < x
  <2>1. SUFFICES ASSUME x <= y PROVE FALSE
    BY <1>2
  <2>2. Below(S, x) \subseteq Below(S, y)
    <3>1. x \in Nat /\ y \in Nat /\ \A z \in S : z \in Nat /\ (z < x => z < y)
      BY <1>2, <2>1
    <3> QED BY <3>1 DEF Below
  <2>3. Cardinality(Below(S, x)) <= Cardinality(Below(S, y))
    BY <1>2, <1>3, <2>2, FS_Subset
  <2>4. Cardinality(Below(S, y)) < n /\ ~ (Cardinality(Below(S, x)) < n)
    BY <1>1
  <2> QED BY <1>2, <1>3, <2>3, <2>4
<1>6. ASSUME NEW x \in S \ F PROVE Cardinality(F) = n
  <2> DEFINE out == S \ F
             l == Least(out)
  <2>1. l \in out
    BY LeastIsMember
  <2>2. \A z \in out : l <= z
    BY LeastIsFirst
  <2> HIDE DEF l
  <2>3. Below(S, l) \subseteq F
    <3>1. l \in Nat /\ \A z \in S : z \in Nat /\ (z < l => z \in F)
      BY <2>1, <2>2
    <3> QED BY <3>1 DEF Below
  <2>4. Cardinality(Below(S, l)) <= Cardinality(F)
    BY <1>2, <2>3, FS_Subset
  <2>5. ~ (Cardinality(Below(S, l)) < n)
    BY <1>1, <2>1
  <2> QED BY <1>2, <1>3, <1>4, <2>1, <2>4, <2>5
<1> QED BY <1>2, <1>4, <1>5, <1>6 DEF F

(***************************************************************************)
(* A list of candidates, extended by one more lookup, keeps what it has    *)
(* and stays within the limit. A row of the lookup that is left out was    *)
(* crowded out: the list is full, and what it was extended by comes before.*)
(***************************************************************************)
LEMMA ExtendedList ==
  ASSUME NEW C, IsFiniteSet(C), Cardinality(C) <= MaxCandidates,
         NEW S \in SUBSET Nat, IsFiniteSet(S)
  PROVE  LET E == Extend(C, S)
         IN  /\ C \subseteq E /\ E \subseteq C \cup S
             /\ IsFiniteSet(E) /\ Cardinality(E) <= MaxCandidates
             /\ \A x \in S \ E :
                  Cardinality(E) = MaxCandidates /\ \A y \in E \ C : y < x
<1> DEFINE F == First(S, MaxCandidates)
           R == F \ C
           room == MaxCandidates - Cardinality(C)
           G == First(R, room)
           E == Extend(C, S)
<1>1. E = C \cup G
  BY DEF Extend
<1>2. MaxCandidates \in Nat /\ Cardinality(C) \in Nat /\ room \in Nat
  BY MatchingAssumption, FS_CardinalityType DEF MatchingAssumption
<1>3. /\ F \subseteq S /\ IsFiniteSet(F)
      /\ \A x \in S \ F : Cardinality(F) = MaxCandidates /\ \A y \in F : y < x
  BY <1>2, FirstRows
<1>4. R \in SUBSET Nat /\ IsFiniteSet(R)
  BY <1>3, FS_Difference
<1> HIDE DEF F, R, room, G, E
<1>5. /\ G \subseteq R /\ IsFiniteSet(G) /\ Cardinality(G) <= room
      /\ \A x \in R \ G : Cardinality(G) = room /\ \A y \in G : y < x
  BY <1>2, <1>4, FirstRows DEF G
<1>6. C \cap G = {} /\ Cardinality(C \cap G) = 0
  BY <1>5, FS_EmptySet DEF R
<1>7. /\ IsFiniteSet(E) /\ Cardinality(E) \in Nat /\ Cardinality(G) \in Nat
      /\ Cardinality(E) = Cardinality(C) + Cardinality(G)
  BY <1>1, <1>2, <1>5, <1>6, FS_Union, FS_CardinalityType
<1>8. Cardinality(E) <= MaxCandidates
  BY <1>2, <1>5, <1>7 DEF room
<1>9. ASSUME NEW z \in R \ G PROVE Cardinality(E) = MaxCandidates
  BY <1>2, <1>5, <1>7, <1>9 DEF room
<1>10. ASSUME NEW x \in S \ E
       PROVE  Cardinality(E) = MaxCandidates /\ \A y \in E \ C : y < x
  <2>1. CASE x \in F
    <3>1. x \in R \ G
      BY <1>1, <1>10, <2>1 DEF R
    <3> QED BY <1>1, <1>5, <1>9, <3>1
  <2>2. CASE x \notin F
    <3>1. Cardinality(F) = MaxCandidates /\ \A y \in F : y < x
      BY <1>3, <2>2
    <3>2. CASE R = G
      <4>1. F \subseteq E
        BY <1>1, <3>2 DEF R
      <4>2. MaxCandidates <= Cardinality(E)
        BY <1>7, <3>1, <4>1, FS_Subset
      <4> QED BY <1>1, <1>2, <1>5, <1>7, <1>8, <3>1, <4>2 DEF R
    <3>3. CASE R # G
      <4>1. \E z \in R \ G : TRUE
        BY <1>5, <3>3
      <4> QED BY <1>1, <1>5, <1>9, <3>1, <4>1 DEF R
    <3> QED BY <3>2, <3>3
  <2> QED BY <2>1, <2>2
<1> QED BY <1>1, <1>3, <1>5, <1>7, <1>8, <1>10 DEF R, E

\* The candidates of a document on a property.
LEMMA PropertyChoice ==
  ASSUME data \in Tables
  PROVE  /\ PropertyCandidates \subseteq Properties
         /\ IsFiniteSet(PropertyCandidates)
         /\ Cardinality(PropertyCandidates) <= MaxCandidates
<1> USE MatchingAssumption DEF MatchingAssumption
<1> DEFINE rows == {a \in data.suffixed : data.subject[a] \in Properties}
           limited == {data.subject[a] : a \in
                         {b \in rows : Cardinality({c \in rows : data.subject[c] < data.subject[b]})
                                         < MaxCandidates}}
           C == First(data.addressed, MaxCandidates)
<1>1. PropertyCandidates = Extend(C, limited)
  BY DEF PropertyCandidates
<1>2. limited \subseteq Properties
  OBVIOUS
<1>3. data.addressed \subseteq Properties
  BY DEF Tables
<1> HIDE DEF limited, C
<1>4. IsFiniteSet(limited) /\ IsFiniteSet(data.addressed)
  BY <1>2, <1>3, FS_Subset
<1>5. C \subseteq data.addressed /\ IsFiniteSet(C) /\ Cardinality(C) <= MaxCandidates
  BY <1>3, <1>4, FirstRows DEF C
<1> QED BY <1>1, <1>2, <1>3, <1>4, <1>5, ExtendedList

(***************************************************************************)
(* The candidates of a document on an asset. Serials and order references  *)
(* are unique, so only a model can be left out, when the list is full, and *)
(* then only after every other model in the list.                          *)
(***************************************************************************)
LEMMA AssetChoice ==
  ASSUME data \in Tables
  PROVE  /\ AssetCandidates \subseteq data.serial \cup data.order \cup data.model
         /\ IsFiniteSet(AssetCandidates)
         /\ Cardinality(AssetCandidates) <= MaxCandidates
         /\ \A x \in (data.serial \cup data.order \cup data.model) \ AssetCandidates :
              /\ x \in data.model /\ x \notin data.serial /\ x \notin data.order
              /\ Cardinality(AssetCandidates) = MaxCandidates
              /\ \A y \in AssetCandidates :
                   y \in data.serial \/ y \in data.order \/ (y \in data.model /\ y < x)
<1> USE MatchingAssumption DEF MatchingAssumption
<1> DEFINE C == First(data.serial, MaxCandidates)
           O == Extend(C, data.order)
           M == Extend(O, data.model)
<1>1. AssetCandidates = M
  BY DEF AssetCandidates
<1>2. /\ data.serial \subseteq Assets /\ data.order \subseteq Assets /\ data.model \subseteq Assets
      /\ \A x, y \in data.serial : x = y
      /\ \A x, y \in data.order : x = y
  BY DEF Tables, Unique
<1>3. /\ IsFiniteSet(data.serial) /\ IsFiniteSet(data.order) /\ IsFiniteSet(data.model)
      /\ data.order \in SUBSET Nat /\ data.model \in SUBSET Nat
  BY <1>2, FS_Subset
<1> HIDE DEF C, O, M
<1>4. /\ C \subseteq data.serial /\ IsFiniteSet(C) /\ Cardinality(C) <= MaxCandidates
      /\ \A x \in data.serial \ C : Cardinality(C) = MaxCandidates
  BY <1>2, <1>3, FirstRows DEF C
<1>5. Cardinality(C) <= 1
  <2>1. CASE C = {}
    BY <2>1, FS_EmptySet
  <2>2. CASE C # {}
    <3>1. PICK x \in C : TRUE
      BY <2>2
    <3>2. C = {x}
      BY <1>2, <1>4
    <3> QED BY <3>2, FS_Singleton
  <2> QED BY <2>1, <2>2
<1>6. data.serial \subseteq C
  BY <1>4, <1>5, FS_CardinalityType
<1>7. /\ C \subseteq O /\ O \subseteq C \cup data.order
      /\ IsFiniteSet(O) /\ Cardinality(O) <= MaxCandidates
      /\ \A x \in data.order \ O :
           Cardinality(O) = MaxCandidates /\ \A y \in O \ C : y < x
  BY <1>3, <1>4, ExtendedList DEF O
<1>8. data.order \subseteq O
  <2>1. SUFFICES ASSUME NEW x \in data.order \ O PROVE FALSE
    OBVIOUS
  <2>2. \A y \in O \ C : y = x
    BY <1>2, <1>7
  <2>3. O = C
    BY <1>7, <2>2
  <2> QED BY <1>5, <1>7, <2>3, FS_CardinalityType
<1>9. /\ O \subseteq M /\ M \subseteq O \cup data.model
      /\ IsFiniteSet(M) /\ Cardinality(M) <= MaxCandidates
      /\ \A x \in data.model \ M :
           Cardinality(M) = MaxCandidates /\ \A y \in M \ O : y < x
  BY <1>3, <1>7, ExtendedList DEF M
<1> QED BY <1>1, <1>4, <1>6, <1>7, <1>8, <1>9

\* The candidates, of either kind.
LEMMA CandidateTypes ==
  ASSUME data \in Tables
  PROVE  /\ Candidates \subseteq Properties \cup Assets
         /\ IsFiniteSet(Candidates)
         /\ Cardinality(Candidates) <= MaxCandidates
BY PropertyChoice, AssetChoice DEF Candidates, Tables, Unique

-----------------------------------------------------------------------------
(***************************************************************************)
(* Scores.                                                                 *)
(***************************************************************************)
LEMMA Weights ==
  /\ Weight["issuer_exact"] = 20 /\ Weight["address_exact"] = 60
  /\ Weight["account_suffix_exact"] = 50 /\ Weight["merchant_alias_exact"] = 15
  /\ Weight["model_exact"] = 45 /\ Weight["serial_exact"] = 70
  /\ Weight["order_reference_exact"] = 60
BY DEF Weight, Codes

LEMMA ScoreType == ASSUME NEW E PROVE Score(E) \in Nat
<1>1. \A c \in {"issuer_exact", "address_exact", "account_suffix_exact",
              "merchant_alias_exact", "model_exact", "serial_exact",
              "order_reference_exact"} : Points(E, c) \in Nat
  BY Weights DEF Points
<1> QED BY <1>1 DEF Score

\* The points of a code are given if the snapshot supports it.
LEMMA PointsOfEvidence ==
  ASSUME NEW x, NEW ms, NEW c \in Codes
  PROVE  Points(Evidence(x, ms), c) = IF c \in SupportedCodes(x, ms) THEN Weight[c] ELSE 0
<1> DEFINE match(a) == [code |-> a, matched |-> MatchedObject(x, ms, a)]
<1>1. Evidence(x, ms) = {match(a) : a \in SupportedCodes(x, ms)}
  BY DEF Evidence
<1>2. \A a : match(a).code = a
  OBVIOUS
<1> HIDE DEF match
<1>3. (\E e \in Evidence(x, ms) : e.code = c) <=> c \in SupportedCodes(x, ms)
  BY <1>1, <1>2
<1> QED BY <1>3 DEF Points

\* The score of an asset: its own evidence, and a merchant's that all share.
LEMMA AssetScore ==
  ASSUME data \in Tables, NEW x \in Assets, NEW ms
  PROVE  Score(Evidence(x, ms)) =
           (IF ms # {} THEN 15 ELSE 0) + (IF x \in data.model THEN 45 ELSE 0)
           + (IF x \in data.serial THEN 70 ELSE 0) + (IF x \in data.order THEN 60 ELSE 0)
<1>1. x \notin Properties /\ x \notin data.addressed
  BY MatchingAssumption DEF MatchingAssumption, Tables
<1>2. /\ "issuer_exact" \notin SupportedCodes(x, ms)
      /\ "address_exact" \notin SupportedCodes(x, ms)
      /\ "account_suffix_exact" \notin SupportedCodes(x, ms)
      /\ "merchant_alias_exact" \in SupportedCodes(x, ms) <=> ms # {}
      /\ "model_exact" \in SupportedCodes(x, ms) <=> x \in data.model
      /\ "serial_exact" \in SupportedCodes(x, ms) <=> x \in data.serial
      /\ "order_reference_exact" \in SupportedCodes(x, ms) <=> x \in data.order
  BY <1>1 DEF SupportedCodes, Codes
<1>3. \A c \in Codes :
        Points(Evidence(x, ms), c) = IF c \in SupportedCodes(x, ms) THEN Weight[c] ELSE 0
  BY PointsOfEvidence
<1>4. {"issuer_exact", "address_exact", "account_suffix_exact", "merchant_alias_exact",
       "model_exact", "serial_exact", "order_reference_exact"} \subseteq Codes
  BY DEF Codes
<1>5. /\ Points(Evidence(x, ms), "issuer_exact") = 0
      /\ Points(Evidence(x, ms), "address_exact") = 0
      /\ Points(Evidence(x, ms), "account_suffix_exact") = 0
      /\ Points(Evidence(x, ms), "merchant_alias_exact") = IF ms # {} THEN 15 ELSE 0
      /\ Points(Evidence(x, ms), "model_exact") = IF x \in data.model THEN 45 ELSE 0
      /\ Points(Evidence(x, ms), "serial_exact") = IF x \in data.serial THEN 70 ELSE 0
      /\ Points(Evidence(x, ms), "order_reference_exact") = IF x \in data.order THEN 60 ELSE 0
  BY <1>2, <1>3, <1>4, Weights
<1> QED BY <1>5 DEF Score

\* An asset that is left out scores less than each in the list, or as much
\* as one that comes before it.
LEMMA LeftOutIsWorse ==
  ASSUME data \in Tables, NEW x \in Assets, NEW y \in Assets, NEW ms,
         x \in data.model, x \notin data.serial, x \notin data.order,
         y \in data.serial \/ y \in data.order \/ (y \in data.model /\ y < x)
  PROVE  \/ Score(Evidence(y, ms)) > Score(Evidence(x, ms))
         \/ Score(Evidence(y, ms)) = Score(Evidence(x, ms)) /\ y < x
BY AssetScore

\* The specific evidence an asset can have.
LEMMA AssetEvidence ==
  ASSUME data \in Tables, NEW x \in Assets, NEW ms
  PROVE  SupportedCodes(x, ms) \cap Specific # {}
           <=> x \in data.serial \cup data.order \cup data.model
<1>1. x \notin Properties /\ x \notin data.addressed
  BY MatchingAssumption DEF MatchingAssumption, Tables
<1> QED BY <1>1 DEF SupportedCodes, Specific, Codes

\* Scoring gives one record for each candidate with specific evidence.
LEMMA ScoredTypes ==
  ASSUME data \in Tables, NEW C \in SUBSET (Properties \cup Assets),
         NEW ms \in SUBSET Organisations
  PROVE  Scored(C, ms) \subseteq ScoredCandidates
<1> USE MatchingAssumption DEF MatchingAssumption
<1>1. ASSUME NEW x \in C PROVE Evidence(x, ms) \subseteq Matches
  <2>1. ASSUME NEW c \in SupportedCodes(x, ms) PROVE MatchedObject(x, ms, c) \in Nat
    <3>1. CASE c = "account_suffix_exact"
      <4>1. Having(x, data.suffixed) # {} /\ Having(x, data.suffixed) \subseteq Nat
        BY <3>1 DEF SupportedCodes, Having, Tables
      <4> QED BY <3>1, <4>1, LeastIsMember DEF MatchedObject
    <3>2. CASE c = "issuer_exact"
      <4>1. Having(x, data.issued) # {} /\ Having(x, data.issued) \subseteq Nat
        BY <3>2 DEF SupportedCodes, Having, Tables
      <4> QED BY <3>2, <4>1, LeastIsMember DEF MatchedObject
    <3>3. CASE c = "merchant_alias_exact"
      <4>1. ms # {} /\ ms \subseteq Nat
        BY <3>3 DEF SupportedCodes
      <4> QED BY <3>3, <4>1, LeastIsMember DEF MatchedObject
    <3>4. CASE c \notin {"account_suffix_exact", "issuer_exact", "merchant_alias_exact"}
      <4>1. MatchedObject(x, ms, c) = x
        BY <3>4 DEF MatchedObject
      <4> QED BY <4>1
    <3> QED BY <3>1, <3>2, <3>3, <3>4
  <2>2. SupportedCodes(x, ms) \subseteq Codes
    BY DEF SupportedCodes
  <2> QED BY <2>1, <2>2 DEF Evidence, Matches
<1> QED BY <1>1, ScoreType DEF Scored, ScoredCandidates

\* Candidates may be scored one by one.
LEMMA ScoredOneByOne ==
  /\ \A C, D, ms : Scored(C \cup D, ms) = Scored(C, ms) \cup Scored(D, ms)
  /\ \A x, ms : Scored({x}, ms) = {} \/ \E s : Scored({x}, ms) = {s}
BY DEF Scored

LEMMA ScoredStays ==
  ASSUME data' = data
  PROVE  /\ \A C, ms : Scored(C, ms)' = Scored(C, ms)
         /\ kind' = kind => Candidates' = Candidates /\ AllScored' = AllScored
<1>1. ASSUME NEW C, NEW ms PROVE Scored(C, ms)' = Scored(C, ms)
  BY DEF Scored, Evidence, Score, Points, SupportedCodes, MatchedObject, Having
<1>2. kind' = kind => Candidates' = Candidates
  BY DEF Candidates, PropertyCandidates, AssetCandidates
<1>3. kind' = kind => AllScored' = AllScored
  BY DEF AllScored, Merchant, Scored, Evidence, Score, Points, SupportedCodes, MatchedObject, Having
<1> QED BY <1>1, <1>2, <1>3

-----------------------------------------------------------------------------
(***************************************************************************)
(* Ranking keeps every scored candidate, with a rank of its own.           *)
(***************************************************************************)
RankedOne(D, d) ==
  [candidate |-> d.candidate, evidence |-> d.evidence, score |-> d.score,
   rank |-> 1 + Cardinality({e \in D : Better(e, d)})]

LEMMA RankedSet ==
  ASSUME NEW D \in SUBSET ScoredCandidates, IsFiniteSet(D), Cardinality(D) <= MaxCandidates
  PROVE  /\ Ranked(D) = {RankedOne(D, d) : d \in D}
         /\ Ranked(D) \subseteq [candidate : Properties \cup Assets, evidence : SUBSET Matches,
                                 score : Nat, rank : 1..MaxCandidates]
         /\ Cardinality(Ranked(D)) = Cardinality(D)
<1> DEFINE rank(d) == 1 + Cardinality({e \in D : Better(e, d)})
           f == [d \in D |-> RankedOne(D, d)]
<1>1. Ranked(D) = {RankedOne(D, d) : d \in D}
  BY DEF Ranked, RankedOne
<1>2. ASSUME NEW d \in D PROVE rank(d) \in 1..MaxCandidates
  <2>1. ~ Better(d, d)
    <3>1. d.score \in Nat /\ d.candidate \in Nat
      BY MatchingAssumption DEF MatchingAssumption, ScoredCandidates
    <3> QED BY <3>1 DEF Better
  <2> DEFINE ahead == {e \in D : Better(e, d)}
  <2>2. ahead \subseteq D \ {d}
    BY <2>1
  <2>3. IsFiniteSet(D \ {d}) /\ Cardinality(D \ {d}) = Cardinality(D) - 1
    BY FS_RemoveElement
  <2> HIDE DEF ahead
  <2>4. Cardinality(ahead) <= Cardinality(D) - 1 /\ Cardinality(ahead) \in Nat
    BY <2>2, <2>3, FS_Subset, FS_CardinalityType
  <2>5. Cardinality(D) \in Nat /\ MaxCandidates \in Nat
    BY FS_CardinalityType, MatchingAssumption DEF MatchingAssumption
  <2>6. 1 + Cardinality(ahead) \in 1..MaxCandidates
    BY <2>4, <2>5
  <2> QED BY <2>6 DEF ahead
<1>3. ASSUME NEW d \in D
      PROVE  RankedOne(D, d) \in [candidate : Properties \cup Assets, evidence : SUBSET Matches,
                                  score : Nat, rank : 1..MaxCandidates]
  <2> HIDE DEF rank
  <2>1. RankedOne(D, d) = [candidate |-> d.candidate, evidence |-> d.evidence,
                           score |-> d.score, rank |-> rank(d)]
    BY DEF RankedOne, rank
  <2>2. d \in ScoredCandidates
    OBVIOUS
  <2> QED BY <1>2, <2>1, <2>2 DEF ScoredCandidates
<1>4. ASSUME NEW c \in D, NEW d \in D, RankedOne(D, c) = RankedOne(D, d) PROVE c = d
  <2>1. c.candidate = d.candidate /\ c.evidence = d.evidence /\ c.score = d.score
    BY <1>4 DEF RankedOne
  <2> QED BY <2>1 DEF ScoredCandidates
<1>5. f \in Surjection(D, Ranked(D)) /\ f \in Injection(D, Ranked(D))
  <2> HIDE DEF rank
  <2>1. \A d \in D : f[d] = RankedOne(D, d)
    OBVIOUS
  <2>2. f \in [D -> Ranked(D)]
    BY <1>1
  <2>3. \A t \in Ranked(D) : \E d \in D : f[d] = t
    BY <1>1, <2>1
  <2>4. \A c, d \in D : f[c] = f[d] => c = d
    BY <1>4, <2>1
  <2> HIDE DEF f
  <2> QED BY <2>2, <2>3, <2>4 DEF Surjection, Injection, IsInjective
<1>6. Cardinality(Ranked(D)) = Cardinality(D)
  <2> HIDE DEF f
  <2> QED BY <1>5, FS_Surjection
<1> QED BY <1>1, <1>3, <1>6

(***************************************************************************)
(* The types, and why there are at most so many ranks: what is described   *)
(* and what is left together are as many as the candidates that were found.*)
(***************************************************************************)
Sized ==
  /\ TypeOK
  /\ phase = "reading" =>
       /\ IsFiniteSet(reading.left) /\ IsFiniteSet(reading.scored)
       /\ Cardinality(reading.left) + Cardinality(reading.scored) <= MaxCandidates

\* A set that is joined with at most one element grows by at most one.
LEMMA AtMostOneMore ==
  ASSUME NEW S, IsFiniteSet(S), NEW T, T = {} \/ \E t : T = {t}
  PROVE  IsFiniteSet(S \cup T) /\ Cardinality(S \cup T) <= Cardinality(S) + 1
<1>1. IsFiniteSet(T) /\ Cardinality(T) <= 1 /\ Cardinality(T) \in Nat
  BY FS_EmptySet, FS_Singleton
<1>2. Cardinality(S) \in Nat /\ Cardinality(S \cap T) \in Nat
  BY FS_CardinalityType, FS_Intersection
<1>3. /\ IsFiniteSet(S \cup T)
      /\ Cardinality(S \cup T) = Cardinality(S) + Cardinality(T) - Cardinality(S \cap T)
  BY <1>1, FS_Union
<1> QED BY <1>1, <1>2, <1>3

\* Describing one candidate.
LEMMA DescribeEffect ==
  ASSUME Sized, Describe
  PROVE  \E x \in reading.left :
           /\ reading'.left = reading.left \ {x}
           /\ reading'.merchants = reading.merchants
           /\ reading'.scored = reading.scored \cup Scored({x}, reading.merchants)
           /\ reading'.scored \subseteq ScoredCandidates
           /\ IsFiniteSet(reading'.left) /\ IsFiniteSet(reading'.scored)
           /\ Cardinality(reading'.left) + Cardinality(reading'.scored) <= MaxCandidates
<1>1. PICK x \in reading.left :
        reading' = [left |-> reading.left \ {x}, merchants |-> reading.merchants,
                    scored |-> reading.scored \cup Scored({x}, reading.merchants)]
  BY DEF Describe
<1> DEFINE left == reading.left  scored == reading.scored
           new == Scored({x}, reading.merchants)
<1>2. reading'.left = left \ {x} /\ reading'.scored = scored \cup new
      /\ reading'.merchants = reading.merchants
  BY <1>1
<1>3. /\ IsFiniteSet(left) /\ IsFiniteSet(scored)
      /\ Cardinality(left) + Cardinality(scored) <= MaxCandidates
  BY DEF Sized, Describe
<1>4. new \subseteq ScoredCandidates /\ scored \subseteq ScoredCandidates
  BY ScoredTypes DEF Sized, TypeOK
<1>5. new = {} \/ \E s : new = {s}
  BY ScoredOneByOne
<1> HIDE DEF new, scored
<1>6. IsFiniteSet(scored \cup new) /\ Cardinality(scored \cup new) <= Cardinality(scored) + 1
  BY <1>3, <1>5, AtMostOneMore
<1>7. IsFiniteSet(left \ {x}) /\ Cardinality(left \ {x}) = Cardinality(left) - 1
  BY <1>3, FS_RemoveElement
<1>8. Cardinality(left) \in Nat /\ Cardinality(scored) \in Nat
      /\ Cardinality(left \ {x}) \in Nat /\ Cardinality(scored \cup new) \in Nat
      /\ MaxCandidates \in Nat
  BY <1>3, <1>6, <1>7, FS_CardinalityType, MatchingAssumption DEF MatchingAssumption
<1>9. Cardinality(left \ {x}) + Cardinality(scored \cup new) <= MaxCandidates
  BY <1>3, <1>6, <1>7, <1>8
<1> QED BY <1>2, <1>4, <1>6, <1>7, <1>9 DEF new, scored

\* What ranking starts from.
LEMMA RankEffect ==
  ASSUME Sized, Rank
  PROVE  /\ reading.scored \subseteq ScoredCandidates /\ IsFiniteSet(reading.scored)
         /\ Cardinality(reading.scored) <= MaxCandidates
<1>1. /\ IsFiniteSet({}) /\ Cardinality({}) = 0
      /\ Cardinality(reading.scored) \in Nat
  BY FS_EmptySet, FS_CardinalityType DEF Sized, Rank
<1> QED BY <1>1 DEF Sized, TypeOK, Rank

LEMMA SizedStep == ASSUME Sized, [Next]_vars PROVE Sized'
<1> USE DEF Sized
<1>1. data' \in Tables
  BY TablesStep DEF TypeOK
<1>2. CASE FindCandidates
  <2>1. data.merchants # {} => Least(data.merchants) \in data.merchants
    BY LeastIsMember, MatchingAssumption DEF TypeOK, Tables, MatchingAssumption
  <2>2. /\ reading'.left = Candidates /\ reading'.scored = {}
        /\ reading'.merchants \subseteq Organisations
    BY <1>2, <2>1 DEF FindCandidates, Merchant, TypeOK, Tables
  <2>3. IsFiniteSet({}) /\ Cardinality({}) = 0
    BY FS_EmptySet
  <2>4. Cardinality(Candidates) \in Nat
    BY CandidateTypes, FS_CardinalityType DEF TypeOK
  <2>5. /\ reading'.left \subseteq Properties \cup Assets
        /\ IsFiniteSet(reading'.left) /\ IsFiniteSet(reading'.scored)
        /\ Cardinality(reading'.left) + Cardinality(reading'.scored) <= MaxCandidates
    BY <2>2, <2>3, <2>4, CandidateTypes DEF TypeOK
  <2>6. phase' = "reading" /\ edited' = FALSE /\ UNCHANGED <<kind, data, drafts, edits>>
    BY <1>2 DEF FindCandidates
  <2> QED BY <1>1, <2>2, <2>5, <2>6 DEF TypeOK
<1>3. CASE Describe
  <2>1. UNCHANGED <<kind, data, phase, drafts, edited, edits>>
    BY <1>3 DEF Describe
  <2> QED BY <1>3, <2>1, DescribeEffect DEF TypeOK
<1>4. CASE Rank
  <2>1. /\ drafts' \subseteq [candidate : Properties \cup Assets, evidence : SUBSET Matches,
                             score : Nat, rank : 1..MaxCandidates]
    BY <1>4, RankEffect, RankedSet DEF Rank
  <2> QED BY <1>1, <1>4, <2>1 DEF Rank, TypeOK, NothingRead
<1>5. CASE Persist \/ Reject \/ Retry
  BY <1>1, <1>5 DEF Persist, Reject, Retry, TypeOK
<1>6. CASE EditReferenceData
  <2>1. edits' \in 0..MaxEdits
    BY <1>6, MatchingAssumption DEF EditReferenceData, TypeOK, MatchingAssumption
  <2> QED BY <1>1, <1>6, <2>1 DEF EditReferenceData, TypeOK
<1>7. CASE UNCHANGED vars
  BY <1>7 DEF vars, TypeOK
<1> QED BY <1>2, <1>3, <1>4, <1>5, <1>6, <1>7 DEF Next

LEMMA Sizes == Spec => []Sized
<1>1. Init => Sized
  <2> SUFFICES ASSUME Init PROVE Sized
    OBVIOUS
  <2>1. reading.left = {} /\ reading.merchants = {} /\ reading.scored = {}
    BY DEF Init, NothingRead
  <2>2. edits \in 0..MaxEdits
    BY MatchingAssumption DEF MatchingAssumption, Init
  <2> QED BY <2>1, <2>2 DEF Init, Sized, TypeOK
<1> QED BY <1>1, SizedStep, PTL DEF Spec

(***************************************************************************)
(* Tables, reads and proposals have their types; in particular ranks go    *)
(* from 1 to the number of candidates that may be proposed.                *)
(***************************************************************************)
THEOREM MatchingTypes == Spec => []TypeOK
<1>1. Sized => TypeOK
  BY DEF Sized
<1> QED BY <1>1, Sizes, PTL

(***************************************************************************)
(* The invariant behind the best three: while no one edits, the reads are  *)
(* as good as one read of everything.                                      *)
(***************************************************************************)
ReadsAgree ==
  phase = "reading" /\ ~ edited =>
    /\ reading.merchants = Merchant
    /\ reading.left \subseteq Candidates
    /\ reading.scored = Scored(Candidates \ reading.left, Merchant)

LEMMA ReadsAgreeStep == ASSUME Sized, ReadsAgree, [Next]_vars PROVE ReadsAgree'
<1>1. ASSUME data' = data, kind' = kind
      PROVE  /\ Merchant' = Merchant /\ Candidates' = Candidates
             /\ \A C, ms : Scored(C, ms)' = Scored(C, ms)
  BY <1>1, ScoredStays DEF Merchant
<1>2. CASE FindCandidates
  <2>1. /\ data' = data /\ kind' = kind
        /\ reading'.left = Candidates /\ reading'.scored = {} /\ reading'.merchants = Merchant
    BY <1>2 DEF FindCandidates
  <2>2. \A ms : Scored({}, ms) = {}
    BY DEF Scored
  <2>3. Candidates \ Candidates = {}
    OBVIOUS
  <2> QED BY <1>1, <2>1, <2>2, <2>3 DEF ReadsAgree
<1>3. CASE Describe
  <2>1. data' = data /\ kind' = kind /\ edited' = edited /\ phase = "reading"
    BY <1>3 DEF Describe
  <2>2. PICK x \in reading.left :
          /\ reading'.left = reading.left \ {x}
          /\ reading'.merchants = reading.merchants
          /\ reading'.scored = reading.scored \cup Scored({x}, reading.merchants)
    BY <1>3, DescribeEffect
  <2>3. SUFFICES ASSUME ~ edited
                 PROVE  /\ reading'.merchants = Merchant
                        /\ reading'.left \subseteq Candidates
                        /\ reading'.scored = Scored(Candidates \ reading'.left, Merchant)
    BY <1>1, <2>1 DEF ReadsAgree
  <2>4. /\ reading.merchants = Merchant /\ reading.left \subseteq Candidates
        /\ reading.scored = Scored(Candidates \ reading.left, Merchant)
    BY <2>1, <2>3 DEF ReadsAgree
  <2>5. Candidates \ reading'.left = (Candidates \ reading.left) \cup {x}
    BY <2>2, <2>4
  <2>6. Scored((Candidates \ reading.left) \cup {x}, Merchant)
          = Scored(Candidates \ reading.left, Merchant) \cup Scored({x}, Merchant)
    BY ScoredOneByOne
  <2> QED BY <2>2, <2>4, <2>5, <2>6
<1>4. CASE Rank \/ Persist \/ Reject \/ Retry
  BY <1>4 DEF Rank, Persist, Reject, Retry, ReadsAgree
<1>5. CASE EditReferenceData
  BY <1>5 DEF EditReferenceData, ReadsAgree
<1>6. CASE UNCHANGED vars
  <2>1. /\ data' = data /\ kind' = kind /\ phase' = phase /\ edited' = edited
        /\ reading' = reading
    BY <1>6 DEF vars
  <2> QED BY <1>1, <2>1 DEF ReadsAgree
<1> QED BY <1>2, <1>3, <1>4, <1>5, <1>6 DEF Next

\* The candidates of an asset document, all scored: none with evidence is
\* dropped by the scoring, and those left out before are worse.
LEMMA BestAreScored ==
  ASSUME data \in Tables, kind = "asset", NEW s \in AllScored,
         \A d \in Scored(Candidates, Merchant) : d.candidate # s.candidate
  PROVE  /\ Cardinality(Scored(Candidates, Merchant)) = MaxCandidates
         /\ \A d \in Scored(Candidates, Merchant) : Better(d, s)
<1> DEFINE rec(x) == [candidate |-> x, evidence |-> Evidence(x, Merchant),
                      score |-> Score(Evidence(x, Merchant))]
           backed == data.serial \cup data.order \cup data.model
           C == AssetCandidates
<1>1. backed \subseteq Assets
  BY DEF Tables, Unique
<1>2. /\ Candidates = C /\ C \subseteq backed
      /\ IsFiniteSet(C) /\ Cardinality(C) <= MaxCandidates
      /\ \A x \in backed \ C :
           /\ x \in data.model /\ x \notin data.serial /\ x \notin data.order
           /\ Cardinality(C) = MaxCandidates
           /\ \A y \in C : y \in data.serial \/ y \in data.order \/ (y \in data.model /\ y < x)
  BY AssetChoice DEF Candidates
<1>3. \A x \in Assets : SupportedCodes(x, Merchant) \cap Specific # {} <=> x \in backed
  BY AssetEvidence
<1>4. Scored(C, Merchant) = {rec(x) : x \in C}
  <2>1. {y \in C : SupportedCodes(y, Merchant) \cap Specific # {}} = C
    BY <1>1, <1>2, <1>3
  <2> QED BY <2>1 DEF Scored
<1>5. PICK x \in Assets : x \in backed /\ s = rec(x)
  BY <1>3 DEF AllScored, Scored
<1>6. \A y : rec(y).candidate = y /\ rec(y).score = Score(Evidence(y, Merchant))
  OBVIOUS
<1>7. x \notin C
  <2>1. x \in C => rec(x) \in Scored(C, Merchant) /\ rec(x).candidate = s.candidate
    BY <1>4, <1>5
  <2> QED BY <1>2, <2>1
<1> HIDE DEF rec, C, backed
<1>8. ASSUME NEW y \in C PROVE Better(rec(y), s)
  <2>1. y \in Assets
    BY <1>1, <1>2
  <2>2. /\ x \in data.model /\ x \notin data.serial /\ x \notin data.order
        /\ y \in data.serial \/ y \in data.order \/ (y \in data.model /\ y < x)
    BY <1>2, <1>5, <1>7
  <2>3. \/ Score(Evidence(y, Merchant)) > Score(Evidence(x, Merchant))
        \/ Score(Evidence(y, Merchant)) = Score(Evidence(x, Merchant)) /\ y < x
    BY <2>1, <2>2, LeftOutIsWorse
  <2> QED BY <1>5, <1>6, <2>3 DEF Better
<1>9. Cardinality(Scored(C, Merchant)) = MaxCandidates
  <2> DEFINE f == [y \in C |-> rec(y)]
  <2>1. \A y \in C : f[y] = rec(y)
    OBVIOUS
  <2>2. f \in [C -> Scored(C, Merchant)] /\ \A t \in Scored(C, Merchant) : \E y \in C : f[y] = t
    BY <1>4
  <2>3. \A y, z \in C : f[y] = f[z] => y = z
    BY <1>6, <2>1
  <2> HIDE DEF f
  <2>4. f \in Surjection(C, Scored(C, Merchant)) /\ f \in Injection(C, Scored(C, Merchant))
    BY <2>2, <2>3 DEF Surjection, Injection, IsInjective
  <2>5. Cardinality(Scored(C, Merchant)) = Cardinality(C)
    BY <1>2, <2>4, FS_Surjection
  <2> QED BY <1>2, <1>5, <1>7, <2>5
<1> QED BY <1>2, <1>4, <1>8, <1>9

(***************************************************************************)
(* Of assets, that less than the best is proposed never happens: cutting   *)
(* the list off before anything is scored loses none of them, because what *)
(* is looked up first scores most.                                         *)
(***************************************************************************)
BestAssets ==
  phase = "drafted" /\ ~ edited =>
    /\ Cardinality(drafts) <= MaxCandidates
    /\ kind = "asset" =>
         \A s \in AllScored :
           \/ Proposed(s)
           \/ Cardinality(drafts) = MaxCandidates /\ \A d \in drafts : Better(d, s)

LEMMA BestAssetsStep ==
  ASSUME Sized, ReadsAgree, BestAssets, [Next]_vars PROVE BestAssets'
<1>1. CASE Rank
  <2> DEFINE D == reading.scored
  <2>1. data' = data /\ kind' = kind /\ edited' = edited /\ drafts' = Ranked(D)
    BY <1>1 DEF Rank
  <2>2. /\ D \subseteq ScoredCandidates /\ IsFiniteSet(D) /\ Cardinality(D) <= MaxCandidates
    BY <1>1, RankEffect
  <2> HIDE DEF D
  <2>3. /\ drafts' = {RankedOne(D, d) : d \in D}
        /\ Cardinality(drafts') = Cardinality(D)
    BY <2>1, <2>2, RankedSet
  <2>4. AllScored' = AllScored
    BY <2>1, ScoredStays
  <2>5. ASSUME ~ edited, kind = "asset", NEW s \in AllScored,
               \A d \in drafts' : d.candidate # s.candidate
        PROVE  Cardinality(drafts') = MaxCandidates /\ \A d \in drafts' : Better(d, s)
    <3>1. D = Scored(Candidates, Merchant)
      <4>1. Candidates \ {} = Candidates
        OBVIOUS
      <4> QED BY <1>1, <2>5, <4>1 DEF ReadsAgree, Rank, D
    <3>2. \A d \in D : RankedOne(D, d).candidate = d.candidate
                       /\ RankedOne(D, d).score = d.score
      BY DEF RankedOne
    <3>3. \A d \in D : d.candidate # s.candidate
      BY <2>3, <2>5, <3>2
    <3>4. Cardinality(D) = MaxCandidates /\ \A d \in D : Better(d, s)
      BY <2>5, <3>1, <3>3, BestAreScored DEF Sized, TypeOK
    <3>5. \A d \in D : Better(RankedOne(D, d), s)
      BY <3>2, <3>4 DEF Better
    <3> QED BY <2>3, <3>4, <3>5
  <2>6. Cardinality(drafts') <= MaxCandidates
    BY <2>2, <2>3
  <2> QED BY <2>1, <2>4, <2>5, <2>6 DEF BestAssets, Proposed
<1>2. CASE FindCandidates \/ Describe \/ Persist \/ Reject \/ Retry
  BY <1>2 DEF FindCandidates, Describe, Persist, Reject, Retry, BestAssets
<1>3. CASE EditReferenceData
  BY <1>3 DEF EditReferenceData, BestAssets
<1>4. CASE UNCHANGED vars
  <2>1. /\ data' = data /\ kind' = kind /\ phase' = phase /\ edited' = edited
        /\ drafts' = drafts
    BY <1>4 DEF vars
  <2>2. AllScored' = AllScored
    BY <2>1, ScoredStays
  <2> QED BY <2>1, <2>2 DEF BestAssets, Proposed
<1> QED BY <1>1, <1>2, <1>3, <1>4 DEF Next

LEMMA AssetsAreBest == Spec => []BestAssets
<1>1. Init => ReadsAgree /\ BestAssets
  BY DEF Init, ReadsAgree, BestAssets
<1>2. Sized /\ ReadsAgree /\ BestAssets /\ [Next]_vars => ReadsAgree' /\ BestAssets'
  BY ReadsAgreeStep, BestAssetsStep
<1> QED BY <1>1, <1>2, Sizes, PTL DEF Spec
-----------------------------------------------------------------------------
LEMMA RepeatableStep ==
  ASSUME ReadsAgree, DraftsAreRepeatable, [Next]_vars PROVE DraftsAreRepeatable'
<1>1. ASSUME data' = data, kind' = kind
      PROVE  Ranked(Scored(Candidates, Merchant))' = Ranked(Scored(Candidates, Merchant))
  <2>1. Scored(Candidates, Merchant)' = Scored(Candidates, Merchant)
    BY <1>1, ScoredStays DEF Merchant
  <2> QED BY <2>1 DEF Ranked, Better
<1>2. CASE Rank
  <2>1. /\ data' = data /\ kind' = kind /\ edited' = edited
        /\ phase = "reading" /\ reading.left = {} /\ drafts' = Ranked(reading.scored)
    BY <1>2 DEF Rank
  <2>2. ~ edited => reading.scored = Scored(Candidates, Merchant)
    <3>1. Candidates \ {} = Candidates
      OBVIOUS
    <3> QED BY <2>1, <3>1 DEF ReadsAgree
  <2> QED BY <1>1, <2>1, <2>2 DEF DraftsAreRepeatable
<1>3. CASE FindCandidates \/ Describe \/ Persist \/ Reject \/ Retry
  BY <1>3 DEF FindCandidates, Describe, Persist, Reject, Retry, DraftsAreRepeatable
<1>4. CASE EditReferenceData
  BY <1>4 DEF EditReferenceData, DraftsAreRepeatable
<1>5. CASE UNCHANGED vars
  <2>1. /\ data' = data /\ kind' = kind /\ phase' = phase /\ edited' = edited
        /\ drafts' = drafts
    BY <1>5 DEF vars
  <2> QED BY <1>1, <2>1 DEF DraftsAreRepeatable
<1> QED BY <1>2, <1>3, <1>4, <1>5 DEF Next

(***************************************************************************)
(* Reads that take several snapshots yield, if no one edits meanwhile,     *)
(* what a single snapshot would: the same list for every worker that       *)
(* processes the document, in whatever order the rows are read.            *)
(***************************************************************************)
THEOREM Repeatability == Spec => []DraftsAreRepeatable
<1>1. Init => ReadsAgree /\ DraftsAreRepeatable
  BY DEF Init, ReadsAgree, DraftsAreRepeatable
<1>2. Sized /\ ReadsAgree /\ DraftsAreRepeatable /\ [Next]_vars
        => ReadsAgree' /\ DraftsAreRepeatable'
  BY ReadsAgreeStep, RepeatableStep
<1> QED BY <1>1, <1>2, Sizes, PTL DEF Spec
-----------------------------------------------------------------------------
(***************************************************************************)
(* Crowding out. If no two accounts of one property agree, counting the    *)
(* accounts before one is counting the properties before its own.          *)
(***************************************************************************)
Backed == {a \in data.suffixed : data.subject[a] \in Properties}

BackedProperties == {data.subject[a] : a \in Backed}

LEMMA AccountsAreProperties ==
  ASSUME ~ AccountsShareProperty, NEW v
  PROVE  Cardinality({c \in Backed : data.subject[c] < v})
           = Cardinality(Below(BackedProperties, v))
<1> DEFINE low == {c \in Backed : data.subject[c] < v}
           B == Below(BackedProperties, v)
           f == [y \in B |-> CHOOSE c \in Backed : data.subject[c] = y]
<1>1. \A c, d \in Backed : data.subject[c] = data.subject[d] => c = d
  BY DEF AccountsShareProperty, Backed
<1>2. B \subseteq Properties /\ IsFiniteSet(B)
  <2>1. B \subseteq Properties
    BY DEF Below, BackedProperties, Backed
  <2> QED BY <2>1, FS_Subset, MatchingAssumption DEF MatchingAssumption
<1>3. ASSUME NEW y \in B PROVE f[y] \in low /\ data.subject[f[y]] = y
  <2>1. y < v /\ \E c \in Backed : data.subject[c] = y
    BY DEF Below, BackedProperties
  <2>2. f[y] \in Backed /\ data.subject[f[y]] = y
    BY <2>1
  <2> QED BY <2>1, <2>2
<1>4. ASSUME NEW c \in low PROVE \E y \in B : f[y] = c
  <2>1. data.subject[c] \in B
    BY DEF Below, BackedProperties
  <2>2. f[data.subject[c]] \in Backed /\ data.subject[f[data.subject[c]]] = data.subject[c]
    BY <1>3, <2>1
  <2> QED BY <1>1, <2>1, <2>2
<1>5. f \in [B -> low] /\ \A y, z \in B : f[y] = f[z] => y = z
  <2>1. f = [y \in B |-> f[y]]
    OBVIOUS
  <2> HIDE DEF f, low, B
  <2> QED BY <1>3, <2>1
<1> HIDE DEF f, low, B
<1>6. f \in Surjection(B, low) /\ f \in Injection(B, low)
  BY <1>4, <1>5 DEF Surjection, Injection, IsInjective
<1>7. Cardinality(low) = Cardinality(B)
  BY <1>2, <1>6, FS_Surjection
<1> QED BY <1>7 DEF low, B

\* Then a property with evidence of its own is left out of a full list only.
LEMMA PropertyCrowding ==
  ASSUME data \in Tables, ~ AccountsShareProperty,
         NEW x \in (data.addressed \cup BackedProperties) \ PropertyCandidates
  PROVE  Cardinality(PropertyCandidates) = MaxCandidates
<1> USE MatchingAssumption DEF MatchingAssumption
<1> DEFINE C == First(data.addressed, MaxCandidates)
           S == BackedProperties
           limited == {data.subject[a] : a \in
                         {b \in Backed : Cardinality({c \in Backed : data.subject[c] < data.subject[b]})
                                           < MaxCandidates}}
           E == Extend(C, limited)
<1>1. PropertyCandidates = E
  BY DEF PropertyCandidates, Backed
<1>2. limited = First(S, MaxCandidates)
  <2>1. First(S, MaxCandidates) = {y \in S : Cardinality(Below(S, y)) < MaxCandidates}
    BY DEF First, Below
  <2>2. \A b \in Backed : Cardinality({c \in Backed : data.subject[c] < data.subject[b]})
                             = Cardinality(Below(S, data.subject[b]))
    BY AccountsAreProperties
  <2>3. S = {data.subject[a] : a \in Backed}
    BY DEF BackedProperties
  <2> HIDE DEF S
  <2> QED BY <2>1, <2>2, <2>3
<1>3. S \in SUBSET Nat /\ IsFiniteSet(S) /\ data.addressed \in SUBSET Nat
      /\ IsFiniteSet(data.addressed)
  <2>1. S \subseteq Properties /\ data.addressed \subseteq Properties
    BY DEF BackedProperties, Backed, Tables
  <2> QED BY <2>1, FS_Subset
<1> HIDE DEF limited, S, C, E
<1>4. /\ limited \subseteq S /\ IsFiniteSet(limited)
      /\ \A y \in S \ limited : Cardinality(limited) = MaxCandidates
  BY <1>2, <1>3, FirstRows
<1>5. /\ C \subseteq data.addressed /\ IsFiniteSet(C) /\ Cardinality(C) <= MaxCandidates
      /\ \A y \in data.addressed \ C : Cardinality(C) = MaxCandidates
  BY <1>3, FirstRows DEF C
<1>6. /\ C \subseteq E /\ IsFiniteSet(E) /\ Cardinality(E) <= MaxCandidates
      /\ \A y \in limited \ E : Cardinality(E) = MaxCandidates
  BY <1>3, <1>4, <1>5, ExtendedList DEF E
<1>7. Cardinality(E) \in Nat /\ Cardinality(C) <= Cardinality(E)
  BY <1>6, FS_Subset, FS_CardinalityType
<1>8. CASE x \in data.addressed
  BY <1>1, <1>5, <1>6, <1>7, <1>8
<1>9. CASE x \in S
  <2>1. CASE x \in limited
    BY <1>1, <1>6, <2>1
  <2>2. CASE x \notin limited /\ limited \subseteq E
    <3>1. Cardinality(limited) = MaxCandidates
      BY <1>4, <1>9, <2>2
    <3>2. Cardinality(limited) <= Cardinality(E)
      BY <1>6, <2>2, FS_Subset
    <3> QED BY <1>1, <1>6, <1>7, <3>1, <3>2
  <2>3. CASE ~ (limited \subseteq E)
    BY <1>1, <1>6, <2>3
  <2> QED BY <2>1, <2>2, <2>3
<1> QED BY <1>8, <1>9 DEF S

\* The specific evidence a property can have.
LEMMA PropertyEvidence ==
  ASSUME data \in Tables, NEW x \in Properties, NEW ms
  PROVE  SupportedCodes(x, ms) \cap Specific # {}
           <=> x \in data.addressed \cup BackedProperties
<1>1. x \notin data.serial /\ x \notin data.order /\ x \notin data.model
  BY MatchingAssumption DEF MatchingAssumption, Tables, Unique
<1>2. Having(x, data.suffixed) # {} <=> x \in BackedProperties
  BY DEF Having, BackedProperties, Backed
<1> QED BY <1>1, <1>2 DEF SupportedCodes, Specific, Codes

\* All candidates that have specific evidence are scored, each once.
LEMMA AllAreScored ==
  ASSUME NEW C, IsFiniteSet(C), NEW ms,
         \A x \in C : SupportedCodes(x, ms) \cap Specific # {}
  PROVE  /\ Cardinality(Scored(C, ms)) = Cardinality(C) /\ IsFiniteSet(Scored(C, ms))
         /\ \A x \in C : \E s \in Scored(C, ms) : s.candidate = x
<1> DEFINE rec(x) == [candidate |-> x, evidence |-> Evidence(x, ms),
                      score |-> Score(Evidence(x, ms))]
           f == [x \in C |-> rec(x)]
<1>1. Scored(C, ms) = {rec(x) : x \in C}
  <2>1. {y \in C : SupportedCodes(y, ms) \cap Specific # {}} = C
    OBVIOUS
  <2> QED BY <2>1 DEF Scored
<1>2. \A x : rec(x).candidate = x
  OBVIOUS
<1> HIDE DEF rec
<1>3. f \in Surjection(C, Scored(C, ms)) /\ f \in Injection(C, Scored(C, ms))
  <2>1. \A x \in C : f[x] = rec(x)
    OBVIOUS
  <2>2. f \in [C -> Scored(C, ms)] /\ \A t \in Scored(C, ms) : \E x \in C : f[x] = t
    BY <1>1
  <2>3. \A x, y \in C : f[x] = f[y] => x = y
    BY <1>2, <2>1
  <2> HIDE DEF f
  <2> QED BY <2>2, <2>3 DEF Surjection, Injection, IsInjective
<1> HIDE DEF f
<1>4. Cardinality(Scored(C, ms)) = Cardinality(C) /\ IsFiniteSet(Scored(C, ms))
  BY <1>3, FS_Surjection
<1> QED BY <1>1, <1>2, <1>4

\* Of a document on a property, a candidate is left out of a full list only.
LEMMA NothingIsCrowdedOut ==
  ASSUME TypeOK, DraftsAreRepeatable, kind = "property", ~ AccountsShareProperty,
         phase = "drafted", ~ edited, Cardinality(drafts) # MaxCandidates,
         NEW s \in AllScored
  PROVE  Proposed(s)
<1> DEFINE C == PropertyCandidates
           D == Scored(C, Merchant)
<1>1. Candidates = C /\ data \in Tables /\ drafts = Ranked(D)
  BY DEF Candidates, TypeOK, DraftsAreRepeatable
<1>2. C \subseteq Properties /\ IsFiniteSet(C) /\ Cardinality(C) <= MaxCandidates
  BY <1>1, PropertyChoice
<1>3. C \subseteq data.addressed \cup BackedProperties
  <2> DEFINE limited == {data.subject[a] : a \in
                          {b \in Backed : Cardinality({c \in Backed : data.subject[c] < data.subject[b]})
                                            < MaxCandidates}}
  <2>1. C = Extend(First(data.addressed, MaxCandidates), limited)
    BY DEF PropertyCandidates, Backed
  <2>2. limited \subseteq BackedProperties
    BY DEF BackedProperties
  <2> HIDE DEF limited
  <2> QED BY <2>1, <2>2 DEF Extend, First
<1>4. Merchant \in SUBSET Organisations
  BY <1>1, LeastIsMember, MatchingAssumption DEF Merchant, Tables, MatchingAssumption
<1>5. \A x \in C : SupportedCodes(x, Merchant) \cap Specific # {}
  BY <1>1, <1>2, <1>3, PropertyEvidence
<1>6. PICK x \in Properties : /\ SupportedCodes(x, Merchant) \cap Specific # {}
                              /\ s.candidate = x
  BY DEF AllScored, Scored
<1>7. D \in SUBSET ScoredCandidates
  BY <1>1, <1>2, <1>4, ScoredTypes
<1> HIDE DEF C
<1>8. /\ Cardinality(D) = Cardinality(C) /\ IsFiniteSet(D)
      /\ \A y \in C : \E t \in D : t.candidate = y
  BY <1>2, <1>5, AllAreScored
<1> HIDE DEF D
<1>9. drafts = {RankedOne(D, d) : d \in D} /\ Cardinality(drafts) = Cardinality(D)
  BY <1>1, <1>2, <1>7, <1>8, RankedSet
<1>10. x \in C
  <2>1. x \in data.addressed \cup BackedProperties
    BY <1>1, <1>6, PropertyEvidence
  <2>2. x \notin C => Cardinality(C) = MaxCandidates
    BY <1>1, <2>1, PropertyCrowding DEF C
  <2> QED BY <1>8, <1>9, <2>2
<1>11. PICK t \in D : t.candidate = x
  BY <1>8, <1>10
<1>12. RankedOne(D, t) \in drafts /\ RankedOne(D, t).candidate = x
  BY <1>9, <1>11 DEF RankedOne
<1> QED BY <1>6, <1>12 DEF Proposed

(***************************************************************************)
(* At most so many are proposed as may be; of assets the best are, and a   *)
(* property that has evidence of its own is left out of a list that is not *)
(* full only if several accounts of one property agree with the document,  *)
(* which is what the violated NoneIsCrowdedOut takes. It takes room for    *)
(* two: with room for one, a serial hides an asset whose order and model   *)
(* together score more.                                                    *)
(***************************************************************************)
THEOREM BestOfThem == Spec => []TopThree
<1>1. ASSUME TypeOK, DraftsAreRepeatable, BestAssets PROVE TopThree
  <2> SUFFICES ASSUME phase = "drafted", ~ edited
               PROVE  /\ Cardinality(drafts) <= MaxCandidates
                      /\ \A s \in AllScored :
                           \/ Proposed(s)
                           \/ /\ Cardinality(drafts) = MaxCandidates
                              /\ kind = "asset" => \A d \in drafts : Better(d, s)
                           \/ kind = "property" /\ AccountsShareProperty
    BY DEF TopThree
  <2>1. Cardinality(drafts) <= MaxCandidates
    BY <1>1 DEF BestAssets
  <2>2. kind \in {"asset", "property"}
    BY <1>1 DEF TypeOK
  <2>3. CASE kind = "asset"
    BY <1>1, <2>3 DEF BestAssets
  <2>4. CASE kind = "property" /\ Cardinality(drafts) = MaxCandidates
    BY <2>1, <2>4
  <2>5. ASSUME kind = "property", ~ AccountsShareProperty,
               Cardinality(drafts) # MaxCandidates, NEW s \in AllScored
        PROVE  Proposed(s)
    BY <1>1, <2>5, NothingIsCrowdedOut
  <2> QED BY <2>1, <2>2, <2>3, <2>4, <2>5
<1>2. TypeOK /\ DraftsAreRepeatable /\ BestAssets => TopThree
  BY <1>1
<1> QED BY <1>2, MatchingTypes, Repeatability, AssetsAreBest, PTL
=============================================================================
