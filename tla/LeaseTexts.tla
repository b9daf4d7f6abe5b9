----------------------------- MODULE LeaseTexts -----------------------------
(***************************************************************************)
(* The leases of ProcessingQueue as the database has them: as texts. A row *)
(* keeps lease_expires_at, a call the text of its clock sample, and SQL or *)
(* Python compares the two.                                                *)
(***************************************************************************)
EXTENDS ProcessingQueue, Timestamps

CONSTANTS
  Times,       \* points in time, in microseconds
  TickLengths  \* how long a tick may be, in microseconds

ASSUME TimesAssumption == Times \subseteq Int /\ TickLengths \subseteq Nat \ {0}

LeaseText(d, now, tick) == IsoText(now + job[d].expires * tick)

SampleText(p, now, tick) == IsoText(now - call[p].age * tick)

(***************************************************************************)
(* Texts tell leases. Whatever the time is, a lease that ends or a sample  *)
(* that is taken on a whole second, with its shorter text, changes nothing *)
(* in who may claim a job and who may settle it.                           *)
(***************************************************************************)
TextsTellLeases ==
  \A d \in Documents, p \in Processes, now \in Times, tick \in TickLengths :
    job[d].state = "processing" =>
      LET lease == LeaseText(d, now, tick)
          sample == SampleText(p, now, tick)
      IN  /\ TextBefore(lease, sample) <=> Expired(d, call[p].age)
          /\ call[p].doc = d /\ job[d].owner = WorkerId(p) =>
               (TextBefore(sample, lease) <=> HoldsLease(p))
=============================================================================
