----------------------------- MODULE Marketplace ----------------------------
(***************************************************************************)
(* The money of the marketplace: server/routes/marketplace.ts over the     *)
(* Postgres store of server/state/marketplace-pg.ts.  A sale is charged    *)
(* before it is recorded and paid back before it is marked; authors are    *)
(* paid out per period.                                                    *)
(*                                                                         *)
(* A step is one query or one call of the payment provider; requests       *)
(* interleave at every await.  The insert of a sale is two steps: NOW() is *)
(* when its transaction started, and others see the row once it committed. *)
(* The in-memory store runs the queries of one store call together, which  *)
(* is among the behaviours.                                                *)
(*                                                                         *)
(* Abstractions.  Amounts are left out: a payout row is the set of sales   *)
(* it counts.  A purchase reads the status of its item once, before it     *)
(* charges, and these are the purchases that found it on sale.  Install    *)
(* counts, licences and the statuses of kernels are left out.              *)
(***************************************************************************)
EXTENDS Integers, Sequences

CONSTANTS
  Requests,
  Items,
  Authors,
  Author,       \* the author of each item
  LastPeriod,   \* bound: periods
  MaxCharges,   \* bound: charges of the payment provider
  MaxRows,      \* bound: payout rows inserted
  MaxTimes      \* bound: times a charge is paid back, or an author paid for a sale

ASSUME MarketplaceAssumption ==
  /\ Author \in [Items -> Authors]
  /\ LastPeriod \in Nat
  /\ MaxCharges \in Nat
  /\ MaxRows \in Nat
  /\ MaxTimes \in Nat

VARIABLES
  call,       \* the request handlers
  charges,    \* the provider's charges, each with its item and times paid back
  sales,      \* marketplace_purchases
  rows,       \* marketplace_payouts
  inserted,   \* payout rows inserted so far
  period,     \* the current month
  lost,       \* charges whose request died before recording them (history)
  torn,       \* sales with a refund that died after the provider paid, or with two
              \* refunds at once (history)
  paidFor,    \* how often the author was paid for each sale (history)
  careless    \* a paid row was paid again or its period computed again, or one period
              \* was computed twice at once or paid meanwhile (history)

money == <<charges, sales, lost, torn>>
payouts == <<rows, inserted, paidFor, careless>>
vars == <<money, payouts, call, period>>

\* A request at rest.  item: what it buys; id: its charge, sale or period; at: the
\* period its sale is stamped with; sold: the sales it still has to insert rows for;
\* closed: the period it sums was over; unseen: the charges whose sales of a period that
\* was over had not committed (history).
Idle == [step |-> "idle", item |-> "none", id |-> 0, at |-> 0, sold |-> {}, closed |-> FALSE,
         unseen |-> {}]

Init ==
  /\ call = [r \in Requests |-> Idle]
  /\ charges = <<>>
  /\ sales = <<>>
  /\ rows = {}
  /\ inserted = 0
  /\ period = 0
  /\ lost = {}
  /\ torn = {}
  /\ paidFor = <<>>
  /\ careless = FALSE

-----------------------------------------------------------------------------
(* Purchases and refunds. *)

\* The purchase route, once the item turned out to be on sale.
Buy(r, i) ==
  /\ call[r] = Idle
  /\ call' = [call EXCEPT ![r] = [Idle EXCEPT !.step = "charge", !.item = i]]
  /\ UNCHANGED <<money, payouts, period>>

\* provider.charge takes the money.  A charge that is declined or throws is Fail.
Charge(r) ==
  /\ call[r].step = "charge"
  /\ Len(charges) < MaxCharges
  /\ charges' = Append(charges, [item |-> call[r].item, paidBack |-> 0])
  /\ call' = [call EXCEPT ![r].step = "record", ![r].id = Len(charges) + 1]
  /\ UNCHANGED <<sales, lost, torn, payouts, period>>

\* recordPurchase's INSERT begins: purchased_at is now.
RecordPurchase(r) ==
  /\ call[r].step = "record"
  /\ call' = [call EXCEPT ![r].step = "commit", ![r].at = period]
  /\ UNCHANGED <<money, payouts, period>>

Sold(c) == [item |-> c.item, charge |-> c.id, status |-> "active", period |-> c.at]

\* Slip: the insert is tried again after it went through.
CommitAgain(r) ==
  /\ call[r].step = "commit"
  /\ Len(sales) < MaxCharges
  /\ sales' = Append(sales, Sold(call[r]))
  /\ paidFor' = Append(paidFor, 0)
  /\ UNCHANGED <<charges, lost, torn, rows, inserted, careless, call, period>>

\* ... and commits: the sale is there for others.
CommitPurchase(r) ==
  /\ call[r].step = "commit"
  /\ sales' = Append(sales, Sold(call[r]))
  /\ paidFor' = Append(paidFor, 0)
  /\ call' = [call EXCEPT ![r] = Idle]
  /\ UNCHANGED <<charges, lost, torn, rows, inserted, careless, period>>

\* Another request is paying the sale back.
Refunding(r, s) ==
  \E q \in Requests \ {r} : call[q].step \in {"refund", "mark"} /\ call[q].id = s

\* Slip: the status of the sale is not looked at.
RefundAny(r, s) ==
  /\ call[r] = Idle
  /\ call' = [call EXCEPT ![r] = [Idle EXCEPT !.step = "refund", !.id = s]]
  /\ torn' = IF Refunding(r, s) THEN torn \cup {s} ELSE torn
  /\ UNCHANGED <<charges, sales, lost, payouts, period>>

\* The refund route of the tenant that owns the sale.
Refund(r, s) ==
  /\ call[r] = Idle
  /\ sales[s].status = "active"
  /\ call' = [call EXCEPT ![r] = [Idle EXCEPT !.step = "refund", !.id = s]]
  /\ torn' = IF Refunding(r, s) THEN torn \cup {s} ELSE torn
  /\ UNCHANGED <<charges, sales, lost, payouts, period>>

\* provider.refund pays; the stub pays whenever it is asked.
PayBack(r) ==
  /\ call[r].step = "refund"
  /\ charges[sales[call[r].id].charge].paidBack < MaxTimes
  /\ charges' = [charges EXCEPT ![sales[call[r].id].charge].paidBack = @ + 1]
  /\ call' = [call EXCEPT ![r].step = "mark"]
  /\ UNCHANGED <<sales, lost, torn, payouts, period>>

RefundPurchase(r) ==
  /\ call[r].step = "mark"
  /\ sales' = [sales EXCEPT ![call[r].id].status = "refunded"]
  /\ call' = [call EXCEPT ![r] = Idle]
  /\ UNCHANGED <<charges, lost, torn, payouts, period>>

-----------------------------------------------------------------------------
(* Payouts. *)

Computing(q) == \E r \in Requests : call[r].step \in {"wipe", "insert"} /\ call[r].id = q

\* Slip: a sale replaces its author's sum.
LastInWindow(q) ==
  {s \in 1 .. Len(sales) :
     /\ sales[s].status = "active"
     /\ sales[s].period = q
     /\ \A t \in s + 1 .. Len(sales) : Author[sales[t].item] # Author[sales[s].item]}

InWindow(q) == {s \in 1 .. Len(sales) : sales[s].status = "active" /\ sales[s].period = q}

\* The charges of the sales stamped with period q that have not committed.
Uncommitted(q) ==
  {call[r].id : r \in {b \in Requests : call[b].step = "commit" /\ call[b].at = q}}

\* computeMonthlyPayouts: the sum over the sales, the delete, the inserts.
ComputeMonthlyPayouts(r, q) ==
  /\ call[r] = Idle
  /\ call' = [call EXCEPT ![r] =
       [Idle EXCEPT !.step = "wipe", !.id = q, !.sold = InWindow(q), !.closed = (q < period),
                    !.unseen = IF q < period THEN Uncommitted(q) ELSE {}]]
  /\ careless' = (careless \/ Computing(q) \/ \E w \in rows : w.period = q /\ w.status = "paid")
  /\ UNCHANGED <<money, rows, inserted, paidFor, period>>

\* Slip: the rows of an earlier run stay.
WipeNothing(r) ==
  /\ call[r].step = "wipe"
  /\ call' = [call EXCEPT ![r] = IF @.sold = {} THEN Idle ELSE [@ EXCEPT !.step = "insert"]]
  /\ UNCHANGED <<money, payouts, period>>

WipeRows(r) ==
  /\ call[r].step = "wipe"
  /\ rows' = {w \in rows : w.period # call[r].id}
  /\ call' = [call EXCEPT ![r] = IF @.sold = {} THEN Idle ELSE [@ EXCEPT !.step = "insert"]]
  /\ UNCHANGED <<money, inserted, paidFor, careless, period>>

By(a, sold) == {s \in sold : Author[sales[s].item] = a}

InsertRow(r, a) ==
  LET c == call[r]
      rest == c.sold \ By(a, c.sold)
  IN  /\ c.step = "insert"
      /\ By(a, c.sold) # {}
      /\ inserted < MaxRows
      /\ inserted' = inserted + 1
      /\ rows' = rows \cup {[id |-> inserted', author |-> a, period |-> c.id, closed |-> c.closed,
                             unseen |-> c.unseen, sold |-> By(a, c.sold), status |-> "pending"]}
      /\ call' = [call EXCEPT ![r] = IF rest = {} THEN Idle ELSE [c EXCEPT !.sold = rest]]
      /\ UNCHANGED <<money, paidFor, careless, period>>

\* The operator pays a row's author; markPayoutPaid.
MarkPayoutPaid(w) ==
  /\ \A s \in w.sold : paidFor[s] < MaxTimes
  /\ rows' = (rows \ {w}) \cup {[w EXCEPT !.status = "paid"]}
  /\ paidFor' = [s \in 1 .. Len(sales) |-> IF s \in w.sold THEN paidFor[s] + 1 ELSE paidFor[s]]
  /\ careless' = (careless \/ w.status = "paid" \/ Computing(w.period))
  /\ UNCHANGED <<money, inserted, call, period>>

-----------------------------------------------------------------------------

\* A query or a provider call throws or is refused, or the process ends: the
\* request is over, and what it had done stays.
Fail(r) ==
  LET c == call[r]
  IN  /\ c.step # "idle"
      /\ lost' = IF c.step \in {"record", "commit"} THEN lost \cup {c.id} ELSE lost
      /\ torn' = IF c.step = "mark" THEN torn \cup {c.id} ELSE torn
      /\ call' = [call EXCEPT ![r] = Idle]
      /\ UNCHANGED <<charges, sales, payouts, period>>

NewMonth ==
  /\ period < LastPeriod
  /\ period' = period + 1
  /\ UNCHANGED <<money, payouts, call>>

Next ==
  \/ \E r \in Requests :
       \/ \E i \in Items : Buy(r, i)
       \/ Charge(r)
       \/ RecordPurchase(r)
       \/ CommitPurchase(r)
       \/ \E s \in 1 .. Len(sales) : Refund(r, s)
       \/ PayBack(r)
       \/ RefundPurchase(r)
       \/ \E q \in 0 .. period : ComputeMonthlyPayouts(r, q)
       \/ WipeRows(r)
       \/ \E a \in Authors : InsertRow(r, a)
       \/ Fail(r)
  \/ \E w \in rows : MarkPayoutPaid(w)
  \/ NewMonth

Spec == Init /\ [][Next]_vars

-----------------------------------------------------------------------------

Call == [step : {"idle", "charge", "record", "commit", "refund", "mark", "wipe", "insert"},
         item : Items \cup {"none"}, id : Nat, at : Nat,
         sold : SUBSET (Nat \ {0}), closed : BOOLEAN, unseen : SUBSET Nat]

ChargeRecord == [item : Items, paidBack : Nat]

Sale == [item : Items, charge : 1 .. Len(charges), status : {"active", "refunded"},
         period : 0 .. period]

Row == [id : Nat, author : Authors, period : Nat, closed : BOOLEAN, unseen : SUBSET Nat,
        sold : SUBSET (Nat \ {0}), status : {"pending", "paid"}]

\* The types; and every sale, every request and every row is about something that
\* exists.
TypeOK ==
  /\ call \in [Requests -> Call]
  /\ charges \in Seq(ChargeRecord)
  /\ sales \in Seq(Sale)
  /\ rows \subseteq Row
  /\ inserted \in Nat
  /\ period \in Nat
  /\ lost \subseteq 1 .. Len(charges)
  /\ torn \subseteq 1 .. Len(sales)
  /\ paidFor \in [1 .. Len(sales) -> Nat]
  /\ careless \in BOOLEAN

\* Every sale was charged, for its item, and no two sales share a charge; and every
\* charge is a sale, unless its request is under way or died.  The route has no
\* other trace of a charge that it could be recovered from.
ChargesBecomeSales ==
  /\ \A s \in 1 .. Len(sales) : sales[s].item = charges[sales[s].charge].item
  /\ \A s, t \in 1 .. Len(sales) : sales[s].charge = sales[t].charge => s = t
  /\ \A c \in 1 .. Len(charges) :
       \/ c \in lost
       \/ \E s \in 1 .. Len(sales) : sales[s].charge = c
       \/ \E r \in Requests : call[r].step \in {"record", "commit"} /\ call[r].id = c

\* A sale is paid back once, and exactly when it is marked refunded or about to be:
\* unless two refunds of it ran at once, or one died after the provider had paid.
PaidBackOnce ==
  \A s \in (1 .. Len(sales)) \ torn :
    charges[sales[s].charge].paidBack =
      IF \/ sales[s].status = "refunded"
         \/ \E r \in Requests : call[r].step = "mark" /\ call[r].id = s
      THEN 1 ELSE 0

\* A row computed after its period was over counts every sale of its author in that
\* period that still stands, but for sales that were being inserted while the sum was
\* read: these were stamped with the period and committed too late to be seen.  No
\* later purchase can enter a period that is over.
ClosedRowsCover ==
  \A w \in rows :
    w.closed =>
      \A s \in 1 .. Len(sales) :
        sales[s].status = "active" /\ sales[s].period = w.period /\ Author[sales[s].item] = w.author
          => s \in w.sold \/ sales[s].charge \in w.unseen

\* An author is paid for a sale at most once, however often and in whatever order
\* periods are computed and rows are paid: as long as nobody pays a paid row,
\* computes a period that was paid, or does two of these things to one period at once.
PaidForOnce == ~careless => \A s \in 1 .. Len(sales) : paidFor[s] <= 1
=============================================================================
