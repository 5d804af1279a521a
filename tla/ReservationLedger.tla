------------------------- MODULE ReservationLedger -------------------------
(***************************************************************************)
(* The durable reservation ledger and the two front ends that reserve on   *)
(* it: reserveWithin, which the live-trading adapter calls, and the policy *)
(* evaluation of TradingControl.  Each operation is one SQLite transaction *)
(* or one statement; reconcile reads outside the transaction it writes in, *)
(* so that an operation of another process may fall between the two.       *)
(*                                                                         *)
(* Expiry is lazy: an expired reservation is deleted by the next operation *)
(* that looks at the entries, and until then it can still be committed.    *)
(*                                                                         *)
(* There are two clocks: a request is stamped, judged and expired by the   *)
(* time its caller gives, a commit and a reconcile by the ledger's own.    *)
(***************************************************************************)
EXTENDS Integers, FiniteSets, Functions

CONSTANTS
  Ids,            \* reservation ids
  Assets,
  Amounts,        \* amounts of a request, base units
  Denoms,         \* quote denominations (with their precision)
  PerAsset,       \* reserveWithin: cap on the rows of one asset
  AggregateMax,   \* reserveWithin: cap on the quote values of all rows
  AssetExposure,  \* TradingControl: limits.assetExposure
  TotalExposure,  \* TradingControl: limits.totalExposure
  AssetHourly,    \* TradingControl: limits.assetHourly
  Window,         \* the hour of that limit
  Ttl,            \* reservationTtl
  MaxTime,        \* bound on the clocks
  Drift,          \* bound on how far a caller's clock is from the ledger's
  SnapshotTimes, SnapshotAmounts,  \* of the rows of a snapshot
  NoDenom, NoAsset

\* Limits and times are numbers, the table can be summed.  The default time to
\* live of a reservation and the window of the hourly limit are both 3600
\* seconds.
ASSUME LedgerAssumption ==
  /\ {MaxTime, Drift, Window, Ttl} \subseteq Nat
  /\ {PerAsset, AggregateMax, AssetExposure, TotalExposure, AssetHourly} \subseteq Nat
  /\ Amounts \subseteq Nat \ {0} /\ SnapshotTimes \cup SnapshotAmounts \subseteq Nat
  /\ Ttl <= Window
  /\ NoAsset \notin Assets
  /\ IsFiniteSet(Ids)

VARIABLES
  reservations,  \* the table: one record per id, absent or not
  ledgerStatus,  \* ledger_meta: the result of the last reconcile
  reconcile,     \* a reconcile between its read and its write
  time,          \* the ledger's clock
  client        \* the front end the ledger belongs to; they do not share one

ledgerVars == <<reservations, ledgerStatus, reconcile, time, client>>

Absent == [state |-> "absent", asset |-> NoAsset, amount |-> 0, at |-> 0,
           expires |-> 0, denom |-> NoDenom, imported |-> FALSE, skewed |-> FALSE]
NoRec  == [busy |-> FALSE, ids |-> {}, asset |-> NoAsset, amount |-> 0, at |-> 0,
           discrepancy |-> FALSE]

LedgerInit ==
  /\ reservations = [i \in Ids |-> Absent]
  /\ ledgerStatus = "ok"
  /\ reconcile = NoRec
  /\ time = 0
  /\ client \in {"adapter", "control"}

-----------------------------------------------------------------------------
(* ReservationLedger.                                                      *)

\* Fault: a reservation lives one second longer
ExpiredLate(r, now) == r.state = "reserved" /\ r.expires < now

\* DELETE ... WHERE state='reserved' AND expires_at<=?
Expired(r, now) == r.state = "reserved" /\ r.expires <= now

\* expire: what is left of a row, and of the table
KeptRow(i, now) == IF Expired(reservations[i], now) THEN Absent ELSE reservations[i]
Unexpired(now) == [i \in Ids |-> KeptRow(i, now)]

Sum(S, now) == SumFunctionOnSet([i \in Ids |-> KeptRow(i, now).amount], S)

\* The rows of an asset, reserved and committed
Exposed(a, now) == {i \in Ids : KeptRow(i, now).asset = a}

\* Fault: only what is still reserved counts
FitsReserved(a, n, now) ==
  Sum({i \in Exposed(a, now) : KeptRow(i, now).state = "reserved"}, now) + n <= PerAsset

\* The asset cap, which a request may use up exactly
FitsAsset(a, n, now) == Sum(Exposed(a, now), now) + n <= PerAsset

\* A caller's clock that is ahead of the ledger's, or behind a row of the asset (history)
Skewed(a, now) ==
  \/ now > time
  \/ \E i \in Exposed(a, now) : ~KeptRow(i, now).imported /\ KeptRow(i, now).at > now

\* The inserted row; its quote value is taken to be its amount
Reserved(a, n, d, now) ==
  [state |-> "reserved", asset |-> a, amount |-> n, at |-> now, expires |-> now + Ttl,
   denom |-> d, imported |-> FALSE, skewed |-> Skewed(a, now)]

\* With an aggregate cap every row must be valued in the same denomination
Aggregate(n, d, now) ==
  d # NoDenom =>
    /\ \A i \in Ids : KeptRow(i, now).state # "absent" => KeptRow(i, now).denom = d
    /\ Sum(Ids, now) + n <= AggregateMax

\* reserveWithin: expiry, the caps and the insert in one transaction; a
\* refusal keeps what was expired, a duplicate id rolls it back
ReserveWithin(i, a, n, d, now) ==
  LET allowed == FitsAsset(a, n, now) /\ Aggregate(n, d, now)
  IN  /\ client = "adapter"
      /\ reservations' =
           IF ~allowed THEN Unexpired(now)
           ELSE IF KeptRow(i, now).state # "absent" THEN reservations
           ELSE [Unexpired(now) EXCEPT ![i] = Reserved(a, n, d, now)]
      /\ UNCHANGED <<ledgerStatus, reconcile, time, client>>

Releasable(i) == reservations[i].state = "reserved"

\* release: DELETE ... AND state='reserved'
Release(i) ==
  /\ Releasable(i)
  /\ reservations' = [reservations EXCEPT ![i] = Absent]
  /\ UNCHANGED <<ledgerStatus, reconcile, time, client>>

\* commit: the row counts from the ledger's time of the commit; expiry is not asked
Commit(i) ==
  /\ reservations[i].state = "reserved"
  /\ reservations' = [reservations EXCEPT ![i].state = "committed", ![i].at = time, ![i].expires = time]
  /\ UNCHANGED <<ledgerStatus, reconcile, time, client>>

\* The committed rows that the snapshot lacks or the snapshot rows that the
\* ledger lacks or holds with another amount
Differ(S, a, n) ==
  \/ \E i \in Ids \ S : KeptRow(i, time).state = "committed"
  \/ \E i \in S : KeptRow(i, time).state # "committed" \/ KeptRow(i, time).amount # n

\* reconcile, first half: compare the snapshot, whose rows are of time t, with
\* the committed rows
ReconcileRead(S, a, n, t) ==
  /\ ~reconcile.busy /\ t <= time
  /\ reservations' = Unexpired(time)
  /\ reconcile' = [busy |-> TRUE, ids |-> S, asset |-> a, amount |-> n, at |-> t,
             discrepancy |-> Differ(S, a, n)]
  /\ UNCHANGED <<ledgerStatus, time, client>>

\* Second half: ON CONFLICT DO NOTHING leaves a reserved row reserved
ReconcileWrite ==
  /\ reconcile.busy
  /\ reservations' = [i \in Ids |->
       IF i \in reconcile.ids /\ reservations[i].state = "absent"
       THEN [state |-> "committed", asset |-> reconcile.asset, amount |-> reconcile.amount,
             at |-> reconcile.at, expires |-> reconcile.at, denom |-> NoDenom, imported |-> TRUE,
             skewed |-> FALSE]
       ELSE reservations[i]]
  /\ ledgerStatus' = IF reconcile.discrepancy THEN "discrepancy" ELSE "ok"
  /\ reconcile' = NoRec
  /\ UNCHANGED <<time, client>>

-----------------------------------------------------------------------------
(* TradingControl.reserve.                                                 *)

\* usage(now, w, asset): at > now - w and at <= now, so that a row later than the
\* caller's time is not counted
Usage(a, now) ==
  Sum({i \in Exposed(a, now) : /\ KeptRow(i, now).at > now - Window
                               /\ KeptRow(i, now).at <= now}, now)

\* evaluate: a request that passes the allowlists and market checks still has
\* to fit the exposure and the hourly limit, and its id must be new
Fits(i, a, n, now) ==
  /\ Sum(Ids, now) + n <= TotalExposure
  /\ Sum(Exposed(a, now), now) + n <= AssetExposure
  /\ Usage(a, now) + n <= AssetHourly
  /\ KeptRow(i, now).state = "absent"

\* A denied request has still expired old rows
ControlReserve(i, a, n, now) ==
  /\ client = "control"
  /\ reservations' = IF Fits(i, a, n, now)
                     THEN [Unexpired(now) EXCEPT ![i] = Reserved(a, n, NoDenom, now)]
                     ELSE Unexpired(now)
  /\ UNCHANGED <<ledgerStatus, reconcile, time, client>>

LedgerTick ==
  /\ time < MaxTime
  /\ time' = time + 1
  /\ UNCHANGED <<reservations, ledgerStatus, reconcile, client>>

\* What the clock of a caller may show
Callers == {t \in 0..MaxTime : t <= time + Drift /\ time <= t + Drift}

LedgerNext ==
  \/ \E i \in Ids, a \in Assets, n \in Amounts, now \in Callers :
       \/ \E d \in Denoms \cup {NoDenom} : ReserveWithin(i, a, n, d, now)
       \/ ControlReserve(i, a, n, now)
  \/ \E i \in Ids : Release(i) \/ Commit(i)
  \/ \E S \in SUBSET Ids, a \in Assets, n \in SnapshotAmounts, t \in SnapshotTimes :
       ReconcileRead(S, a, n, t)
  \/ ReconcileWrite
  \/ LedgerTick

LedgerSpec == LedgerInit /\ [][LedgerNext]_ledgerVars

-----------------------------------------------------------------------------
(* Properties.                                                             *)

Own(a) == {i \in Ids : reservations[i].asset = a /\ ~reservations[i].imported}
InStep(a) == {i \in Own(a) : ~reservations[i].skewed}
Total(S) == SumFunctionOnSet([i \in Ids |-> reservations[i].amount], S)

\* What reserveWithin let in never adds up to more than the cap of an asset,
\* over reservations, commits, releases and lazily expired rows.
CapHolds == client = "adapter" =>
  \A a \in Assets : Total(Own(a)) <= PerAsset

\* Over every hour, what was reserved or committed for an asset stays within
\* the hourly limit, although commit moves a row to the ledger's time of the
\* commit.  This rests on a reservation not outliving the window it is counted
\* in, and it leaves out exactly the requests whose caller's clock was ahead of
\* the ledger's or behind a row of the asset: usage does not count the rows
\* after the caller's time, so such a request may exceed the hour.
HourlyHolds == client = "control" =>
  \A a \in Assets, t \in 0..MaxTime :
    Total({i \in InStep(a) : reservations[i].at > t - Window /\ reservations[i].at <= t})
      <= AssetHourly
=============================================================================
