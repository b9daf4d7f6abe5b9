-------------------------- MODULE TimestampProofs --------------------------
(***************************************************************************)
(* That ISO texts are in the order of their times, for all times, so that  *)
(* comparing the texts of leases is comparing leases.                      *)
(***************************************************************************)
EXTENDS LeaseTexts, ProcessingQueueProofs

LEMMA DivisionOrder ==
  ASSUME NEW s \in Int, NEW t \in Int
  PROVE  /\ s \div Second \in Int /\ s % Second \in Nat
         /\ s < t <=> \/ s \div Second < t \div Second
                      \/ s \div Second = t \div Second /\ s % Second < t % Second
BY SMT DEF Second

(***************************************************************************)
(* Whole seconds have a shorter text, and yet the texts of two times are   *)
(* in the order of the times: plus comes before dot.                       *)
(***************************************************************************)
THEOREM TextOrder ==
  ASSUME NEW s \in Int, NEW t \in Int
  PROVE  TextBefore(IsoText(s), IsoText(t)) <=> s < t
<1> DEFINE a == s \div Second
           b == t \div Second
           f == s % Second
           g == t % Second
<1>1. /\ a \in Int /\ b \in Int /\ f \in Nat /\ g \in Nat
      /\ s < t <=> a < b \/ (a = b /\ f < g)
  BY DivisionOrder
<1>2. IsoText(s) = IF f = 0 THEN <<a, 43>> ELSE <<a, 46, f, 43>>
  BY DEF IsoText, Plus, Dot
<1>3. IsoText(t) = IF g = 0 THEN <<b, 43>> ELSE <<b, 46, g, 43>>
  BY DEF IsoText, Plus, Dot
<1> HIDE DEF a, b, f, g
<1>4. CASE f = 0 /\ g = 0
  BY <1>1, <1>2, <1>3, <1>4 DEF TextBefore
<1>5. CASE f = 0 /\ g # 0
  BY <1>1, <1>2, <1>3, <1>5 DEF TextBefore
<1>6. CASE f # 0 /\ g = 0
  BY <1>1, <1>2, <1>3, <1>6 DEF TextBefore
<1>7. CASE f # 0 /\ g # 0
  BY <1>1, <1>2, <1>3, <1>7 DEF TextBefore
<1> QED BY <1>4, <1>5, <1>6, <1>7

\* Ticks of any length keep the order of times.
LEMMA TickOrder ==
  ASSUME NEW m \in Int, NEW n \in Int, NEW u \in Nat \ {0}
  PROVE  m * u < n * u <=> m < n
<1>1. ASSUME NEW x \in Int, NEW y \in Int, x < y PROVE x * u < y * u
  <2>1. PICK z \in Nat \ {0} : y = x + z
    <3>1. y - x \in Nat \ {0} /\ y = x + (y - x)
      BY <1>1
    <3> QED BY <3>1
  <2>2. y * u = x * u + z * u
    BY <2>1
  <2>3. z * u > 0
    BY <2>1
  <2> QED BY <2>2, <2>3
<1>2. CASE m < n
  BY <1>1, <1>2
<1>3. CASE n < m
  BY <1>1, <1>3
<1>4. CASE m = n
  BY <1>4
<1> QED BY <1>2, <1>3, <1>4

\* Leases compare as texts as they do as times.
THEOREM LeaseOrder == Spec => []TextsTellLeases
<1>1. ASSUME TypeOK PROVE TextsTellLeases
  <2> SUFFICES ASSUME NEW d \in Documents, NEW p \in Processes,
                      NEW now \in Times, NEW tick \in TickLengths,
                      job[d].state = "processing"
               PROVE  /\ TextBefore(LeaseText(d, now, tick), SampleText(p, now, tick))
                            <=> Expired(d, call[p].age)
                      /\ call[p].doc = d /\ job[d].owner = WorkerId(p) =>
                           (TextBefore(SampleText(p, now, tick), LeaseText(d, now, tick))
                              <=> HoldsLease(p))
    BY DEF TextsTellLeases
  <2> DEFINE e == job[d].expires
             a == call[p].age
  <2>1. e \in Int /\ a \in Int /\ now \in Int /\ tick \in Nat \ {0}
    BY <1>1, TimesAssumption DEF TypeOK, Jobs, Calls, Ages
  <2>2. /\ Expired(d, a) <=> e < -a
        /\ call[p].doc = d /\ job[d].owner = WorkerId(p) => (HoldsLease(p) <=> e > -a)
    BY DEF Expired, HoldsLease
  <2> HIDE DEF e, a
  <2>3. /\ now + e * tick \in Int /\ now - a * tick \in Int
        /\ -a \in Int /\ e * tick \in Int /\ a * tick \in Int
        /\ (-a) * tick = -(a * tick)
    BY <2>1
  <2>4. /\ e * tick < (-a) * tick <=> e < -a
        /\ (-a) * tick < e * tick <=> -a < e
    BY <2>1, <2>3, TickOrder
  <2>5. /\ now + e * tick < now - a * tick <=> e < -a
        /\ now - a * tick < now + e * tick <=> e > -a
    <3> DEFINE x == e * tick
               y == a * tick
    <3>1. x \in Int /\ y \in Int /\ (x < -y <=> e < -a) /\ (-y < x <=> -a < e)
      BY <2>3, <2>4
    <3> HIDE DEF x, y
    <3>2. /\ now + x < now - y <=> e < -a
          /\ now - y < now + x <=> e > -a
      BY <2>1, <3>1
    <3> QED BY <3>2 DEF x, y
  <2>6. /\ TextBefore(LeaseText(d, now, tick), SampleText(p, now, tick)) <=> e < -a
        /\ TextBefore(SampleText(p, now, tick), LeaseText(d, now, tick)) <=> e > -a
    <3>1. /\ LeaseText(d, now, tick) = IsoText(now + e * tick)
          /\ SampleText(p, now, tick) = IsoText(now - a * tick)
      BY DEF LeaseText, SampleText, e, a
    <3> QED BY <2>3, <2>5, <3>1, TextOrder
  <2> QED BY <2>2, <2>6 DEF a
<1> QED BY <1>1, TypeCorrect, PTL
=============================================================================
