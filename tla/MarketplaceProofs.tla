------------------------- MODULE MarketplaceProofs --------------------------
(***************************************************************************)
(* For any requests, items, authors and bounds: a charge becomes one sale, *)
(* a sale is paid back once, a closed period's rows cover its sales and an *)
(* author is paid once for a sale, each up to the deaths, overlaps and     *)
(* careless orders the invariant names.  The inductive invariant adds what *)
(* the requests carry between their awaits.                                *)
(***************************************************************************)
EXTENDS Marketplace, SequenceTheorems, TLAPS

USE MarketplaceAssumption

-----------------------------------------------------------------------------

Ledger == 1 .. Len(sales)

Computes(r) == call[r].step \in {"wipe", "insert"}
Refunds(r) == call[r].step \in {"refund", "mark"}
Recording(r) == call[r].step \in {"record", "commit"}

\* What a request carries exists.
CallsValid ==
  \A r \in Requests :
    /\ call[r].step = "charge" \/ Recording(r) => call[r].item \in Items
    /\ Recording(r) =>
         call[r].id \in 1 .. Len(charges) /\ charges[call[r].id].item = call[r].item
    /\ call[r].step = "commit" => call[r].at \in 0 .. period
    /\ Refunds(r) => call[r].id \in Ledger
    /\ Computes(r) => call[r].sold \subseteq Ledger

\* What a row counts exists.
RowsValid == \A w \in rows : w.sold \subseteq Ledger

Valid == TypeOK /\ CallsValid /\ RowsValid

\* A sale's fields and its place.
LEMMA SaleFields ==
  ASSUME TypeOK, NEW s \in Ledger
  PROVE  /\ Len(sales) \in Nat /\ Len(charges) \in Nat /\ s \in Nat \ {0}
         /\ sales[s].item \in Items
         /\ sales[s].charge \in 1 .. Len(charges)
         /\ sales[s].status \in {"active", "refunded"}
         /\ sales[s].period \in 0 .. period
<1>1. sales \in Seq(Sale) /\ Len(sales) \in Nat /\ Len(charges) \in Nat
  BY DEF TypeOK
<1>2. sales[s] \in Sale
  BY <1>1, ElementOfSeq DEF Ledger
<1> QED
  BY <1>1, <1>2 DEF Ledger, Sale

\* A charge's fields.
LEMMA ChargeFields ==
  ASSUME TypeOK, NEW c \in 1 .. Len(charges)
  PROVE  charges[c].item \in Items /\ charges[c].paidBack \in Nat
<1>1. charges[c] \in ChargeRecord
  BY ElementOfSeq DEF TypeOK
<1> QED
  BY <1>1 DEF ChargeRecord

\* A request's fields.
LEMMA CallFields ==
  ASSUME TypeOK, NEW r \in Requests
  PROVE  /\ call[r] \in Call
         /\ call[r].step \in {"idle", "charge", "record", "commit", "refund", "mark", "wipe", "insert"}
         /\ call[r].item \in Items \cup {"none"}
         /\ call[r].id \in Nat
         /\ call[r].sold \subseteq Nat \ {0}
         /\ call[r].closed \in BOOLEAN
         /\ call[r].unseen \subseteq Nat
<1>1. call[r] \in Call
  BY DEF TypeOK
<1> QED
  BY <1>1 DEF Call

\* A request's change: the others are as they were.
LEMMA CallChange ==
  ASSUME TypeOK, NEW r \in Requests, NEW c \in Call, call' = [call EXCEPT ![r] = c]
  PROVE  /\ call' \in [Requests -> Call]
         /\ call'[r] = c
         /\ \A q \in Requests : q # r => call'[q] = call[q]
BY DEF TypeOK

\* A request goes to another step.
LEMMA StepChange ==
  ASSUME NEW c \in Call,
         NEW s \in {"idle", "charge", "record", "commit", "refund", "mark", "wipe", "insert"}
  PROVE  /\ [c EXCEPT !.step = s] \in Call
         /\ [c EXCEPT !.step = s].step = s
         /\ [c EXCEPT !.step = s].item = c.item
         /\ [c EXCEPT !.step = s].id = c.id
         /\ [c EXCEPT !.step = s].sold = c.sold
         /\ [c EXCEPT !.step = s].closed = c.closed
         /\ [c EXCEPT !.step = s].unseen = c.unseen
BY DEF Call

\* A request gets another number.
LEMMA NumberChange ==
  ASSUME NEW c \in Call, NEW n \in Nat
  PROVE  /\ [c EXCEPT !.id = n] \in Call
         /\ [c EXCEPT !.id = n].step = c.step
         /\ [c EXCEPT !.id = n].item = c.item
         /\ [c EXCEPT !.id = n].id = n
BY DEF Call

\* An idle request is a request.
LEMMA IdleType == Idle \in Call /\ Idle.step = "idle"
BY DEF Idle, Call

-----------------------------------------------------------------------------
(* What each step changes, field by field. *)

\* Every request but r is as it was.
OthersStay(r) == \A q \in Requests : q # r => call'[q] = call[q]

\* A purchase begins: the request turns to its charge.
LEMMA BuyEffect ==
  ASSUME Valid, NEW r \in Requests, NEW i \in Items, Buy(r, i)
  PROVE  /\ call' \in [Requests -> Call] /\ OthersStay(r)
         /\ call'[r].step = "charge" /\ call'[r].item = i
         /\ UNCHANGED <<charges, sales, lost, torn, rows, inserted, paidFor, careless, period>>
<1> DEFINE c == [Idle EXCEPT !.step = "charge", !.item = i]
<1>1. c \in Call /\ c.step = "charge" /\ c.item = i
  BY DEF Idle, Call
<1>2. call' = [call EXCEPT ![r] = c]
  BY DEF Buy
<1> HIDE DEF c
<1> QED
  BY <1>1, <1>2, CallChange DEF Valid, OthersStay, Buy, money, payouts

\* A charge is added, not paid back, and the request carries its number.
LEMMA ChargeEffect ==
  ASSUME Valid, NEW r \in Requests, Charge(r)
  PROVE  /\ call' \in [Requests -> Call] /\ OthersStay(r)
         /\ call[r].step = "charge" /\ call[r].item \in Items
         /\ call'[r].step = "record" /\ call'[r].item = call[r].item
         /\ call'[r].id = Len(charges) + 1
         /\ Len(charges) \in Nat /\ Len(charges') = Len(charges) + 1
         /\ charges' \in Seq(ChargeRecord)
         /\ \A c \in 1 .. Len(charges) : charges'[c] = charges[c]
         /\ charges'[Len(charges) + 1].item = call[r].item
         /\ charges'[Len(charges) + 1].paidBack = 0
         /\ UNCHANGED <<sales, lost, torn, rows, inserted, paidFor, careless, period>>
<1> DEFINE d == [call[r] EXCEPT !.step = "record"]
           c == [d EXCEPT !.id = Len(charges) + 1]
           e == [item |-> call[r].item, paidBack |-> 0]
<1>1. call[r] \in Call /\ Len(charges) \in Nat /\ charges \in Seq(ChargeRecord)
  BY CallFields DEF Valid, TypeOK
<1>a. d \in Call /\ d.step = "record" /\ d.item = call[r].item
  BY <1>1, StepChange
<1>3. call' = [call EXCEPT ![r] = c]
  BY DEF Charge
<1> HIDE DEF d
<1>2. c \in Call /\ c.step = "record" /\ c.id = Len(charges) + 1 /\ c.item = call[r].item
  <2>1. Len(charges) + 1 \in Nat
    BY <1>1
  <2> QED
    BY <1>a, <2>1, NumberChange
<1>4. call[r].step = "charge" /\ call[r].item \in Items
  BY DEF Charge, Valid, CallsValid
<1>5. e \in ChargeRecord /\ e.item = call[r].item /\ e.paidBack = 0
  BY <1>4 DEF ChargeRecord
<1>6. charges' = Append(charges, e)
  BY DEF Charge
<1> HIDE DEF c, e
<1>7. /\ Len(charges') = Len(charges) + 1 /\ charges'[Len(charges) + 1] = e
      /\ charges' \in Seq(ChargeRecord)
      /\ \A x \in 1 .. Len(charges) : charges'[x] = charges[x]
  BY <1>1, <1>5, <1>6
<1>8. call' \in [Requests -> Call] /\ call'[r] = c /\ OthersStay(r)
  BY <1>2, <1>3, CallChange DEF Valid, OthersStay
<1>9. UNCHANGED <<sales, lost, torn, rows, inserted, paidFor, careless, period>>
  BY DEF Charge, payouts
<1> QED
  BY <1>1, <1>2, <1>4, <1>5, <1>7, <1>8, <1>9

\* The request carries the period its sale is stamped with.
LEMMA RecordEffect ==
  ASSUME Valid, NEW r \in Requests, RecordPurchase(r)
  PROVE  /\ call' \in [Requests -> Call] /\ OthersStay(r)
         /\ call[r].step = "record"
         /\ call'[r].step = "commit" /\ call'[r].item = call[r].item
         /\ call'[r].id = call[r].id /\ call'[r].at = period
         /\ UNCHANGED <<charges, sales, lost, torn, rows, inserted, paidFor, careless, period>>
<1> DEFINE d == [call[r] EXCEPT !.step = "commit"]
           c == [d EXCEPT !.at = period]
<1>1. call[r] \in Call /\ period \in Nat
  BY CallFields DEF Valid, TypeOK
<1>2. d \in Call /\ d.step = "commit" /\ d.item = call[r].item /\ d.id = call[r].id
  BY <1>1, StepChange
<1>3. call' = [call EXCEPT ![r] = c] /\ call[r].step = "record"
  BY DEF RecordPurchase
<1> HIDE DEF d
<1>4. c \in Call /\ c.step = d.step /\ c.item = d.item /\ c.id = d.id /\ c.at = period
  BY <1>1, <1>2 DEF Call
<1> HIDE DEF c
<1>5. call' \in [Requests -> Call] /\ call'[r] = c /\ OthersStay(r)
  BY <1>3, <1>4, CallChange DEF Valid, OthersStay
<1>6. UNCHANGED <<charges, sales, lost, torn, rows, inserted, paidFor, careless, period>>
  BY DEF RecordPurchase, money, payouts
<1> QED
  BY <1>2, <1>3, <1>4, <1>5, <1>6

\* A sale of the charge, of the period it was stamped with, is added and the request is over.
LEMMA CommitEffect ==
  ASSUME Valid, NEW r \in Requests, CommitPurchase(r)
  PROVE  /\ call' \in [Requests -> Call] /\ OthersStay(r) /\ call'[r] = Idle
         /\ call[r].step = "commit"
         /\ Len(sales) \in Nat /\ Len(sales') = Len(sales) + 1
         /\ sales' \in Seq(Sale)
         /\ \A s \in Ledger : sales'[s] = sales[s]
         /\ sales'[Len(sales) + 1].item = call[r].item
         /\ sales'[Len(sales) + 1].charge = call[r].id
         /\ sales'[Len(sales) + 1].status = "active"
         /\ sales'[Len(sales) + 1].period = call[r].at
         /\ paidFor' \in [1 .. Len(sales') -> Nat]
         /\ \A s \in Ledger : paidFor'[s] = paidFor[s]
         /\ paidFor'[Len(sales) + 1] = 0
         /\ UNCHANGED <<charges, lost, torn, rows, inserted, careless, period>>
<1> DEFINE e == Sold(call[r])
<1>1. Len(sales) \in Nat /\ sales \in Seq(Sale) /\ period \in Nat /\ paidFor \in [Ledger -> Nat]
  BY DEF Valid, TypeOK, Ledger
<1>2. call[r].step = "commit" /\ call[r].item \in Items /\ call[r].id \in 1 .. Len(charges)
      /\ call[r].at \in 0 .. period
  BY DEF CommitPurchase, Valid, CallsValid, Recording
<1>3. /\ e \in Sale /\ e.item = call[r].item /\ e.charge = call[r].id /\ e.status = "active"
      /\ e.period = call[r].at
  BY <1>1, <1>2 DEF Sold, Sale
<1>4. sales' = Append(sales, e) /\ paidFor' = Append(paidFor, 0)
  BY DEF CommitPurchase
<1>5. call' = [call EXCEPT ![r] = Idle]
  BY DEF CommitPurchase
<1>6. call' \in [Requests -> Call] /\ OthersStay(r) /\ call'[r] = Idle
  BY <1>5, CallChange, IdleType DEF Valid, OthersStay
<1> HIDE DEF e
<1>7. /\ Len(sales') = Len(sales) + 1 /\ sales' \in Seq(Sale) /\ sales'[Len(sales) + 1] = e
      /\ \A s \in Ledger : sales'[s] = sales[s]
  BY <1>1, <1>3, <1>4 DEF Ledger
<1>8. paidFor \in Seq(Nat) /\ Len(paidFor) = Len(sales)
  BY <1>1 DEF Ledger
<1>b. /\ paidFor' \in Seq(Nat) /\ paidFor'[Len(sales) + 1] = 0
      /\ \A s \in Ledger : paidFor'[s] = paidFor[s]
      /\ Len(paidFor') = Len(sales) + 1
  BY <1>1, <1>4, <1>8 DEF Ledger
<1>9. /\ paidFor' \in [1 .. Len(sales') -> Nat] /\ paidFor'[Len(sales) + 1] = 0
      /\ \A s \in Ledger : paidFor'[s] = paidFor[s]
  BY <1>1, <1>7, <1>b
<1>10. UNCHANGED <<charges, lost, torn, rows, inserted, careless, period>>
  BY DEF CommitPurchase
<1> QED
  BY <1>1, <1>2, <1>3, <1>6, <1>7, <1>9, <1>10

\* A refund begins: the sale is active, and torn if another refund of it runs.
LEMMA RefundEffect ==
  ASSUME Valid, NEW r \in Requests, NEW s \in Ledger, Refund(r, s)
  PROVE  /\ call' \in [Requests -> Call] /\ OthersStay(r)
         /\ call[r].step = "idle"
         /\ call'[r].step = "refund" /\ call'[r].id = s
         /\ sales[s].status = "active"
         /\ torn' = IF Refunding(r, s) THEN torn \cup {s} ELSE torn
         /\ UNCHANGED <<charges, sales, lost, rows, inserted, paidFor, careless, period>>
<1> DEFINE c == [Idle EXCEPT !.step = "refund", !.id = s]
<1>1. s \in Nat
  BY SaleFields DEF Valid
<1>2. c \in Call /\ c.step = "refund" /\ c.id = s
  BY <1>1 DEF Idle, Call
<1>3. call' = [call EXCEPT ![r] = c] /\ call[r].step = "idle"
  BY IdleType DEF Refund
<1> HIDE DEF c
<1> QED
  BY <1>2, <1>3, CallChange DEF Valid, OthersStay, Refund, payouts

\* The charge of the sale is paid back once more.
LEMMA PayBackEffect ==
  ASSUME Valid, NEW r \in Requests, PayBack(r)
  PROVE  LET k == sales[call[r].id].charge IN
         /\ call' \in [Requests -> Call] /\ OthersStay(r)
         /\ call[r].step = "refund" /\ call[r].id \in Ledger
         /\ call'[r].step = "mark" /\ call'[r].id = call[r].id
         /\ charges' \in Seq(ChargeRecord) /\ Len(charges') = Len(charges)
         /\ \A c \in 1 .. Len(charges) :
              /\ charges'[c].item = charges[c].item
              /\ charges'[c].paidBack =
                   IF c = k THEN charges[c].paidBack + 1 ELSE charges[c].paidBack
         /\ UNCHANGED <<sales, lost, torn, rows, inserted, paidFor, careless, period>>
<1> DEFINE k == sales[call[r].id].charge
           c == [call[r] EXCEPT !.step = "mark"]
<1>1. call[r].step = "refund" /\ call[r].id \in Ledger /\ call[r] \in Call
  BY CallFields DEF PayBack, Valid, CallsValid, Refunds
<1>2. k \in 1 .. Len(charges) /\ charges \in Seq(ChargeRecord) /\ Len(charges) \in Nat
  BY <1>1, SaleFields DEF Valid, TypeOK
<1>3. charges' = [charges EXCEPT ![k].paidBack = @ + 1] /\ call' = [call EXCEPT ![r] = c]
  BY DEF PayBack
<1>4. c \in Call /\ c.step = "mark" /\ c.id = call[r].id
  BY <1>1, StepChange
<1> DEFINE paid == charges[k]
           times == paid.paidBack + 1
           e == [paid EXCEPT !.paidBack = times]
<1>5. paid \in ChargeRecord /\ paid.paidBack \in Nat
  BY <1>2, ChargeFields, ElementOfSeq DEF Valid
<1>6. e \in ChargeRecord /\ e.item = charges[k].item /\ e.paidBack = charges[k].paidBack + 1
  <2>1. times \in Nat
    BY <1>5
  <2> HIDE DEF times, paid
  <2>2. e \in ChargeRecord /\ e.item = paid.item /\ e.paidBack = times
    BY <1>5, <2>1 DEF ChargeRecord
  <2> QED
    BY <2>2 DEF times, paid
<1>7. charges' = [charges EXCEPT ![k] = e]
  BY <1>3
<1> HIDE DEF c, e, k
<1>8. /\ charges' \in Seq(ChargeRecord) /\ Len(charges') = Len(charges) /\ charges'[k] = e
      /\ \A x \in 1 .. Len(charges) : x # k => charges'[x] = charges[x]
  BY <1>2, <1>6, <1>7
<1>9. call' \in [Requests -> Call] /\ OthersStay(r) /\ call'[r] = c
  BY <1>3, <1>4, CallChange DEF Valid, OthersStay
<1>10. UNCHANGED <<sales, lost, torn, rows, inserted, paidFor, careless, period>>
  BY DEF PayBack, payouts
<1>11. \A x \in 1 .. Len(charges) :
         /\ charges'[x].item = charges[x].item
         /\ charges'[x].paidBack = IF x = k THEN charges[x].paidBack + 1 ELSE charges[x].paidBack
  BY <1>6, <1>8
<1> QED
  BY <1>1, <1>4, <1>8, <1>9, <1>10, <1>11 DEF k

\* The sale is marked refunded.
LEMMA RefundPurchaseEffect ==
  ASSUME Valid, NEW r \in Requests, RefundPurchase(r)
  PROVE  /\ call' \in [Requests -> Call] /\ OthersStay(r) /\ call'[r] = Idle
         /\ call[r].step = "mark" /\ call[r].id \in Ledger
         /\ sales' \in Seq(Sale) /\ Len(sales') = Len(sales)
         /\ sales'[call[r].id].status = "refunded"
         /\ \A s \in Ledger :
              /\ sales'[s].item = sales[s].item
              /\ sales'[s].charge = sales[s].charge
              /\ sales'[s].period = sales[s].period
              /\ s # call[r].id => sales'[s].status = sales[s].status
         /\ UNCHANGED <<charges, lost, torn, rows, inserted, paidFor, careless, period>>
<1> DEFINE k == call[r].id
           e == [sales[k] EXCEPT !.status = "refunded"]
<1>1. call[r].step = "mark" /\ k \in Ledger /\ sales \in Seq(Sale)
  BY DEF RefundPurchase, Valid, CallsValid, Refunds, TypeOK
<1>2. sales[k] \in Sale
  BY <1>1, ElementOfSeq DEF Ledger
<1>3. /\ e \in Sale /\ e.status = "refunded" /\ e.item = sales[k].item
      /\ e.charge = sales[k].charge /\ e.period = sales[k].period
  BY <1>2 DEF Sale
<1>4. sales' = [sales EXCEPT ![k] = e] /\ call' = [call EXCEPT ![r] = Idle]
  BY DEF RefundPurchase
<1>5. call' \in [Requests -> Call] /\ OthersStay(r) /\ call'[r] = Idle
  BY <1>4, IdleType, CallChange DEF Valid, OthersStay
<1> HIDE DEF e, k
<1>6. /\ sales' \in Seq(Sale) /\ Len(sales') = Len(sales) /\ sales'[k] = e
      /\ \A s \in Ledger : s # k => sales'[s] = sales[s]
  BY <1>1, <1>3, <1>4 DEF Ledger
<1>7. UNCHANGED <<charges, lost, torn, rows, inserted, paidFor, careless, period>>
  BY DEF RefundPurchase, payouts
<1> QED
  BY <1>1, <1>3, <1>5, <1>6, <1>7 DEF k

\* A payout run begins with the sales in its window.
LEMMA ComputeEffect ==
  ASSUME Valid, NEW r \in Requests, NEW q \in 0 .. period, ComputeMonthlyPayouts(r, q)
  PROVE  /\ call' \in [Requests -> Call] /\ OthersStay(r)
         /\ call[r].step = "idle"
         /\ call'[r].step = "wipe" /\ call'[r].id = q /\ call'[r].sold = InWindow(q)
         /\ call'[r].closed = (q < period)
         /\ q < period => call'[r].unseen = Uncommitted(q)
         /\ InWindow(q) \subseteq Ledger
         /\ ~careless' => /\ ~careless /\ ~Computing(q)
                          /\ \A w \in rows : w.period = q => w.status # "paid"
         /\ careless' \in BOOLEAN
         /\ UNCHANGED <<charges, sales, lost, torn, rows, inserted, paidFor, period>>
<1> DEFINE sold == InWindow(q)
           closed == q < period
           unseen == IF q < period THEN Uncommitted(q) ELSE {}
           c == [Idle EXCEPT !.step = "wipe", !.id = q, !.sold = sold, !.closed = closed,
                             !.unseen = unseen]
<1>1. sold \subseteq Ledger /\ Ledger \subseteq Nat \ {0} /\ q \in Nat /\ closed \in BOOLEAN
  BY DEF InWindow, Ledger, Valid, TypeOK
<1>2. unseen \subseteq Nat
  BY CallFields DEF Uncommitted, Valid
<1>4. call' = [call EXCEPT ![r] = c] /\ call[r].step = "idle"
  BY IdleType DEF ComputeMonthlyPayouts
<1> HIDE DEF sold, closed, unseen
<1>3. /\ c \in Call /\ c.step = "wipe" /\ c.id = q /\ c.sold = sold /\ c.closed = closed
      /\ c.unseen = unseen
  BY <1>1, <1>2 DEF Call, Idle
<1> HIDE DEF c
<1>5. call' \in [Requests -> Call] /\ OthersStay(r) /\ call'[r] = c
  BY <1>3, <1>4, CallChange DEF Valid, OthersStay
<1>6. /\ careless' = (careless \/ Computing(q) \/ \E w \in rows : w.period = q /\ w.status = "paid")
      /\ UNCHANGED <<charges, sales, lost, torn, rows, inserted, paidFor, period>>
  BY DEF ComputeMonthlyPayouts, money
<1> QED
  BY <1>1, <1>3, <1>4, <1>5, <1>6 DEF sold, closed, unseen

\* The rows of the period are gone.
LEMMA WipeEffect ==
  ASSUME Valid, NEW r \in Requests, WipeRows(r)
  PROVE  /\ call' \in [Requests -> Call] /\ OthersStay(r)
         /\ call[r].step = "wipe"
         /\ call'[r].step \in {"idle", "insert"}
         /\ call'[r].step = "insert" =>
              /\ call'[r].id = call[r].id
              /\ call'[r].sold = call[r].sold
              /\ call'[r].closed = call[r].closed
              /\ call'[r].unseen = call[r].unseen
         /\ rows' = {w \in rows : w.period # call[r].id}
         /\ UNCHANGED <<charges, sales, lost, torn, inserted, paidFor, careless, period>>
<1> DEFINE d == [call[r] EXCEPT !.step = "insert"]
           c == IF call[r].sold = {} THEN Idle ELSE d
<1>1. call[r] \in Call /\ call[r].step = "wipe"
  BY CallFields DEF Valid, WipeRows
<1>2. /\ d \in Call /\ d.step = "insert" /\ d.id = call[r].id /\ d.sold = call[r].sold
      /\ d.closed = call[r].closed /\ d.unseen = call[r].unseen
  BY <1>1, StepChange
<1>3. call' = [call EXCEPT ![r] = c]
  BY DEF WipeRows
<1> HIDE DEF d
<1>4. c \in Call /\ (c = Idle \/ c = d)
  BY <1>2, IdleType
<1> HIDE DEF c
<1>5. call' \in [Requests -> Call] /\ OthersStay(r) /\ call'[r] = c
  BY <1>3, <1>4, CallChange DEF Valid, OthersStay
<1>6. /\ rows' = {w \in rows : w.period # call[r].id}
      /\ UNCHANGED <<charges, sales, lost, torn, inserted, paidFor, careless, period>>
  BY DEF WipeRows, money
<1> QED
  BY <1>1, <1>2, <1>4, <1>5, <1>6, IdleType

\* A row of one author is added, and the request keeps the other sales.
LEMMA InsertEffect ==
  ASSUME Valid, NEW r \in Requests, NEW a \in Authors, InsertRow(r, a)
  PROVE  /\ call' \in [Requests -> Call] /\ OthersStay(r)
         /\ call[r].step = "insert" /\ call[r].sold \subseteq Ledger
         /\ call'[r].step \in {"idle", "insert"}
         /\ call'[r].step = "insert" =>
              /\ call'[r].id = call[r].id
              /\ call'[r].sold = call[r].sold \ By(a, call[r].sold)
              /\ call'[r].closed = call[r].closed
              /\ call'[r].unseen = call[r].unseen
         /\ By(a, call[r].sold) # {}
         /\ \E w \in Row :
              /\ rows' = rows \cup {w}
              /\ w.author = a /\ w.period = call[r].id /\ w.closed = call[r].closed
              /\ w.unseen = call[r].unseen
              /\ w.sold = By(a, call[r].sold) /\ w.status = "pending"
         /\ inserted' = inserted + 1
         /\ UNCHANGED <<charges, sales, lost, torn, paidFor, careless, period>>
<1> DEFINE mine == By(a, call[r].sold)
           rest == call[r].sold \ mine
           d == [call[r] EXCEPT !.sold = rest]
           c == IF rest = {} THEN Idle ELSE d
           w == [id |-> inserted', author |-> a, period |-> call[r].id, closed |-> call[r].closed,
                 unseen |-> call[r].unseen, sold |-> mine, status |-> "pending"]
<1>1. /\ call[r] \in Call /\ call[r].step = "insert" /\ call[r].sold \subseteq Ledger
      /\ call[r].id \in Nat /\ call[r].sold \subseteq Nat \ {0} /\ call[r].closed \in BOOLEAN
      /\ call[r].unseen \subseteq Nat
  BY CallFields DEF Valid, InsertRow, CallsValid, Computes
<1>2. mine \subseteq call[r].sold /\ rest \subseteq call[r].sold
  BY DEF By
<1>3. /\ call' = [call EXCEPT ![r] = c] /\ mine # {} /\ inserted' = inserted + 1
      /\ rows' = rows \cup {w}
      /\ UNCHANGED <<charges, sales, lost, torn, paidFor, careless, period>>
  BY DEF InsertRow, money
<1> HIDE DEF mine, rest
<1>4. /\ d \in Call /\ d.step = "insert" /\ d.id = call[r].id /\ d.sold = rest
      /\ d.closed = call[r].closed /\ d.unseen = call[r].unseen
  BY <1>1, <1>2 DEF Call
<1>5. inserted' \in Nat
  BY <1>3 DEF Valid, TypeOK
<1>6. /\ w \in Row /\ w.author = a /\ w.period = call[r].id /\ w.closed = call[r].closed
      /\ w.sold = mine /\ w.status = "pending" /\ w.unseen = call[r].unseen
  BY <1>1, <1>2, <1>5 DEF Row
<1> HIDE DEF d, w
<1>7. c \in Call /\ (c = Idle \/ c = d)
  BY <1>4, IdleType
<1> HIDE DEF c
<1>8. call' \in [Requests -> Call] /\ OthersStay(r) /\ call'[r] = c
  BY <1>3, <1>7, CallChange DEF Valid, OthersStay
<1> QED
  BY <1>1, <1>3, <1>4, <1>6, <1>7, <1>8, IdleType DEF mine, rest

\* A row is paid, and its author for each of its sales.
LEMMA PayoutEffect ==
  ASSUME Valid, NEW w \in rows, MarkPayoutPaid(w)
  PROVE  /\ UNCHANGED <<call, charges, sales, lost, torn, inserted, period>>
         /\ \E v \in Row :
              /\ rows' = (rows \ {w}) \cup {v}
              /\ v.author = w.author /\ v.period = w.period /\ v.closed = w.closed
              /\ v.sold = w.sold /\ v.unseen = w.unseen /\ v.status = "paid"
         /\ paidFor' \in [Ledger -> Nat]
         /\ \A s \in Ledger : paidFor'[s] = IF s \in w.sold THEN paidFor[s] + 1 ELSE paidFor[s]
         /\ ~careless' => ~careless /\ w.status # "paid" /\ ~Computing(w.period)
         /\ careless' \in BOOLEAN
<1> DEFINE v == [w EXCEPT !.status = "paid"]
<1>1. w \in Row /\ paidFor \in [Ledger -> Nat]
  BY DEF Valid, TypeOK, Ledger
<1>2. /\ v \in Row /\ v.author = w.author /\ v.period = w.period /\ v.closed = w.closed
      /\ v.sold = w.sold /\ v.unseen = w.unseen /\ v.status = "paid"
  BY <1>1 DEF Row
<1>3. /\ UNCHANGED <<call, charges, sales, lost, torn, inserted, period>>
      /\ rows' = (rows \ {w}) \cup {v}
      /\ paidFor' = [s \in Ledger |-> IF s \in w.sold THEN paidFor[s] + 1 ELSE paidFor[s]]
      /\ careless' = (careless \/ w.status = "paid" \/ Computing(w.period))
  BY DEF MarkPayoutPaid, money, Ledger
<1> HIDE DEF v
<1>4. \A s \in Ledger : paidFor[s] \in Nat
  BY <1>1
<1>5. \A s \in Ledger : (IF s \in w.sold THEN paidFor[s] + 1 ELSE paidFor[s]) \in Nat
  BY <1>4
<1>6. paidFor' \in [Ledger -> Nat]
  BY <1>3, <1>5, Zenon
<1>7. \A s \in Ledger : paidFor'[s] = IF s \in w.sold THEN paidFor[s] + 1 ELSE paidFor[s]
  BY <1>3
<1> QED
  BY <1>2, <1>3, <1>6, <1>7

\* The request is over; a charge without its sale is lost, a paid refund without its mark torn.
LEMMA FailEffect ==
  ASSUME Valid, NEW r \in Requests, Fail(r)
  PROVE  /\ call' \in [Requests -> Call] /\ OthersStay(r) /\ call'[r] = Idle
         /\ lost' = IF Recording(r) THEN lost \cup {call[r].id} ELSE lost
         /\ torn' = IF call[r].step = "mark" THEN torn \cup {call[r].id} ELSE torn
         /\ UNCHANGED <<charges, sales, rows, inserted, paidFor, careless, period>>
<1>1. call' = [call EXCEPT ![r] = Idle]
  BY DEF Fail
<1> QED
  BY <1>1, IdleType, CallChange DEF Valid, OthersStay, Recording, Fail, payouts

\* Only the period changes.
LEMMA MonthEffect ==
  ASSUME Valid, NewMonth
  PROVE  period' = period + 1
         /\ UNCHANGED <<call, charges, sales, lost, torn, rows, inserted, paidFor, careless>>
BY DEF NewMonth, money, payouts

-----------------------------------------------------------------------------
(* The types. *)

\* The types hold at the start.
LEMMA ValidInit == Init => Valid
<1> SUFFICES ASSUME Init PROVE Valid
  OBVIOUS
<1>1. /\ call = [r \in Requests |-> Idle] /\ charges = <<>> /\ sales = <<>> /\ rows = {}
      /\ inserted = 0 /\ period = 0 /\ lost = {} /\ torn = {} /\ paidFor = <<>>
      /\ careless = FALSE
  BY DEF Init
<1>2. call \in [Requests -> Call]
  BY <1>1, IdleType
<1>3. charges \in Seq(ChargeRecord) /\ sales \in Seq(Sale) /\ Len(sales) = 0
  BY <1>1
<1>4. paidFor \in [1 .. Len(sales) -> Nat]
  BY <1>1, <1>3
<1>5. TypeOK
  BY <1>1, <1>2, <1>3, <1>4 DEF TypeOK
<1>6. \A r \in Requests : call[r].step = "idle"
  BY <1>1, IdleType
<1> QED
  BY <1>1, <1>5, <1>6 DEF Valid, CallsValid, RowsValid, Refunds, Computes, Recording

\* The ledger after a step that leaves it alone or adds a sale.
LEMMA LongerSales ==
  ASSUME TypeOK, sales \in Seq(Sale), Len(charges') \in Nat, Len(charges') >= Len(charges),
         period' \in Nat, period' >= period, UNCHANGED sales
  PROVE  sales' \in Seq(Sale)'
<1>1. Len(charges) \in Nat /\ period \in Nat
  BY DEF TypeOK
<1>2. Sale \subseteq Sale'
  BY <1>1 DEF Sale
<1>3. \A i \in 1 .. Len(sales) : sales[i] \in Sale'
  BY <1>2, ElementOfSeq
<1> DEFINE S == Sale'
<1>4. \A i \in 1 .. Len(sales) : sales[i] \in S
  BY <1>3
<1> HIDE DEF S
<1>5. sales \in Seq(S)
  BY <1>4, SeqDef, LenProperties
<1> QED
  BY <1>5 DEF S

\* Every step keeps the types.
LEMMA ValidStep == Valid /\ [Next]_vars => Valid'
<1> SUFFICES ASSUME Valid, [Next]_vars PROVE Valid'
  OBVIOUS
<1> USE DEF Ledger, Computes, Refunds, Recording
<1>t. /\ call \in [Requests -> Call] /\ charges \in Seq(ChargeRecord) /\ sales \in Seq(Sale)
      /\ rows \subseteq Row /\ inserted \in Nat /\ period \in Nat /\ lost \subseteq 1 .. Len(charges)
      /\ torn \subseteq Ledger /\ paidFor \in [Ledger -> Nat] /\ careless \in BOOLEAN
      /\ Len(charges) \in Nat /\ Len(sales) \in Nat
  BY DEF Valid, TypeOK
<1>s. ASSUME UNCHANGED <<charges, sales, period>> PROVE sales' \in Seq(Sale)'
  <2>1. Sale' = Sale
    BY <1>s DEF Sale
  <2> QED
    BY <1>s, <1>t, <2>1
<1>1. ASSUME NEW r \in Requests, NEW i \in Items, Buy(r, i) PROVE Valid'
  <2>1. TypeOK'
    BY <1>1, <1>t, <1>s, BuyEffect DEF TypeOK
  <2> QED
    BY <1>1, <2>1, BuyEffect DEF Valid, CallsValid, RowsValid, OthersStay
<1>2. ASSUME NEW r \in Requests, Charge(r) PROVE Valid'
  <2>1. Len(charges') = Len(charges) + 1 /\ UNCHANGED <<sales, period>>
    BY <1>2, ChargeEffect
  <2>2. sales' \in Seq(Sale)'
    BY <1>t, <2>1, LongerSales DEF Valid
  <2>a. /\ call' \in [Requests -> Call] /\ charges' \in Seq(ChargeRecord)
        /\ UNCHANGED <<rows, inserted, period, lost, torn, paidFor, careless, sales>>
    BY <1>2, ChargeEffect
  <2>b. lost' \subseteq 1 .. Len(charges')
    BY <1>t, <2>1, <2>a
  <2>c. torn' \subseteq 1 .. Len(sales') /\ paidFor' \in [1 .. Len(sales') -> Nat]
    BY <1>t, <2>a
  <2>d. rows' \subseteq Row /\ inserted' \in Nat /\ period' \in Nat /\ careless' \in BOOLEAN
    BY <1>t, <2>a
  <2>3. TypeOK'
    BY <2>2, <2>a, <2>b, <2>c, <2>d, Zenon DEF TypeOK
  <2>p. period' = period
    BY <2>1
  <2>4. CallsValid'
    <3> SUFFICES ASSUME NEW q \in Requests
                 PROVE  /\ call'[q].step = "charge" \/ Recording(q)' => call'[q].item \in Items
                        /\ Recording(q)' =>
                             /\ call'[q].id \in 1 .. Len(charges')
                             /\ charges'[call'[q].id].item = call'[q].item
                        /\ call'[q].step = "commit" => call'[q].at \in 0 .. period'
                        /\ Refunds(q)' => call'[q].id \in Ledger'
                        /\ Computes(q)' => call'[q].sold \subseteq Ledger'
      BY DEF CallsValid
    <3>1. CASE q = r
      BY <1>2, <3>1, ChargeEffect
    <3>2. CASE q # r
      <4>1. call'[q] = call[q] /\ Ledger' = Ledger
        BY <1>2, <3>2, ChargeEffect DEF OthersStay
      <4>2. \A c \in 1 .. Len(charges) : charges'[c] = charges[c] /\ c \in 1 .. Len(charges')
        BY <1>2, <1>t, ChargeEffect
      <4> QED
        BY <2>p, <4>1, <4>2 DEF Valid, CallsValid
    <3> QED
      BY <3>1, <3>2
  <2> QED
    BY <1>2, <2>3, <2>4, ChargeEffect DEF Valid, RowsValid
<1>3. ASSUME NEW r \in Requests, CommitPurchase(r) PROVE Valid'
  <2>1. Sale' = Sale
    BY <1>3, CommitEffect DEF Sale
  <2>a. /\ call' \in [Requests -> Call] /\ sales' \in Seq(Sale) /\ Len(sales') = Len(sales) + 1
        /\ paidFor' \in [1 .. Len(sales') -> Nat]
        /\ UNCHANGED <<rows, inserted, period, lost, torn, careless, charges>>
    BY <1>3, CommitEffect
  <2>b. torn' \subseteq 1 .. Len(sales')
    BY <1>t, <2>a
  <2>c. lost' \subseteq 1 .. Len(charges') /\ charges' \in Seq(ChargeRecord)
    BY <1>t, <2>a
  <2>d. rows' \subseteq Row /\ inserted' \in Nat /\ period' \in Nat /\ careless' \in BOOLEAN
    BY <1>t, <2>a
  <2>e. sales' \in Seq(Sale)'
    BY <2>1, <2>a
  <2>2. TypeOK'
    BY <2>a, <2>b, <2>c, <2>d, <2>e, Zenon DEF TypeOK
  <2>p. period' = period
    BY <2>a
  <2>3. CallsValid'
    <3> SUFFICES ASSUME NEW q \in Requests
                 PROVE  /\ call'[q].step = "charge" \/ Recording(q)' => call'[q].item \in Items
                        /\ Recording(q)' =>
                             /\ call'[q].id \in 1 .. Len(charges')
                             /\ charges'[call'[q].id].item = call'[q].item
                        /\ call'[q].step = "commit" => call'[q].at \in 0 .. period'
                        /\ Refunds(q)' => call'[q].id \in Ledger'
                        /\ Computes(q)' => call'[q].sold \subseteq Ledger'
      BY DEF CallsValid
    <3>1. CASE q = r
      BY <1>3, <3>1, CommitEffect, IdleType
    <3>2. CASE q # r
      <4>1. call'[q] = call[q] /\ charges' = charges
        BY <1>3, <3>2, CommitEffect DEF OthersStay
      <4>2. Ledger \subseteq Ledger'
        BY <1>t, <2>a
      <4> QED
        BY <2>p, <4>1, <4>2 DEF Valid, CallsValid
    <3> QED
      BY <3>1, <3>2
  <2> QED
    BY <1>3, <1>t, <2>2, <2>3, CommitEffect DEF Valid, RowsValid
<1>14. ASSUME NEW r \in Requests, RecordPurchase(r) PROVE Valid'
  <2>1. TypeOK'
    BY <1>14, <1>t, <1>s, RecordEffect DEF TypeOK
  <2>2. period \in 0 .. period
    BY <1>t
  <2> QED
    BY <1>14, <2>1, <2>2, RecordEffect DEF Valid, CallsValid, RowsValid, OthersStay
<1>4. ASSUME NEW r \in Requests, NEW s \in Ledger, Refund(r, s) PROVE Valid'
  <2>1. torn' \subseteq Ledger
    BY <1>4, <1>t, RefundEffect
  <2>2. TypeOK'
    BY <1>4, <1>t, <1>s, <2>1, RefundEffect DEF TypeOK
  <2> QED
    BY <1>4, <2>2, RefundEffect DEF Valid, CallsValid, RowsValid, OthersStay
<1>5. ASSUME NEW r \in Requests, PayBack(r) PROVE Valid'
  <2>1. Len(charges') = Len(charges) /\ UNCHANGED <<sales, period>>
    BY <1>5, PayBackEffect
  <2>2. Sale' = Sale
    BY <2>1 DEF Sale
  <2>3. TypeOK'
    BY <1>5, <1>t, <2>1, <2>2, PayBackEffect DEF TypeOK
  <2>4. CallsValid'
    BY <1>5, <2>1, PayBackEffect DEF Valid, CallsValid, OthersStay
  <2> QED
    BY <1>5, <2>3, <2>4, PayBackEffect DEF Valid, RowsValid
<1>6. ASSUME NEW r \in Requests, RefundPurchase(r) PROVE Valid'
  <2>1. Sale' = Sale
    BY <1>6, RefundPurchaseEffect DEF Sale
  <2>2. TypeOK'
    BY <1>6, <1>t, <2>1, RefundPurchaseEffect DEF TypeOK
  <2>3. CallsValid'
    BY <1>6, RefundPurchaseEffect, IdleType DEF Valid, CallsValid, OthersStay
  <2> QED
    BY <1>6, <2>2, <2>3, RefundPurchaseEffect DEF Valid, RowsValid
<1>7. ASSUME NEW r \in Requests, NEW q \in 0 .. period, ComputeMonthlyPayouts(r, q) PROVE Valid'
  <2>1. TypeOK'
    BY <1>7, <1>t, <1>s, ComputeEffect DEF TypeOK
  <2> QED
    BY <1>7, <2>1, ComputeEffect DEF Valid, CallsValid, RowsValid, OthersStay
<1>8. ASSUME NEW r \in Requests, WipeRows(r) PROVE Valid'
  <2>1. TypeOK'
    BY <1>8, <1>t, <1>s, WipeEffect DEF TypeOK
  <2> QED
    BY <1>8, <2>1, WipeEffect DEF Valid, CallsValid, RowsValid, OthersStay
<1>9. ASSUME NEW r \in Requests, NEW a \in Authors, InsertRow(r, a) PROVE Valid'
  <2>1. PICK w \in Row : rows' = rows \cup {w} /\ w.sold = By(a, call[r].sold)
    BY <1>9, InsertEffect
  <2>a. /\ call' \in [Requests -> Call] /\ inserted' = inserted + 1
        /\ UNCHANGED <<period, lost, torn, paidFor, careless, charges, sales>>
    BY <1>9, InsertEffect
  <2>b. sales' \in Seq(Sale)' /\ rows' \subseteq Row /\ inserted' \in Nat
    BY <1>s, <1>t, <2>1, <2>a
  <2>2. TypeOK'
    BY <1>t, <2>a, <2>b DEF TypeOK
  <2>3. w.sold \subseteq call[r].sold
    BY <2>1 DEF By
  <2> QED
    BY <1>9, <2>1, <2>2, <2>3, InsertEffect DEF Valid, CallsValid, RowsValid, OthersStay
<1>10. ASSUME NEW r \in Requests, Fail(r) PROVE Valid'
  <2>a. /\ Recording(r) => call[r].id \in 1 .. Len(charges)
        /\ call[r].step = "mark" => call[r].id \in Ledger
    BY DEF Valid, CallsValid, Refunds
  <2>b. /\ lost' = IF Recording(r) THEN lost \cup {call[r].id} ELSE lost
        /\ torn' = IF call[r].step = "mark" THEN torn \cup {call[r].id} ELSE torn
    BY <1>10, FailEffect
  <2>c. lost \subseteq 1 .. Len(charges) /\ torn \subseteq Ledger
    BY <1>t DEF TypeOK
  <2>1. lost' \subseteq 1 .. Len(charges) /\ torn' \subseteq Ledger
    BY <2>a, <2>b, <2>c
  <2>2. TypeOK'
    BY <1>10, <1>t, <1>s, <2>1, FailEffect DEF TypeOK
  <2> QED
    BY <1>10, <2>2, FailEffect, IdleType DEF Valid, CallsValid, RowsValid, OthersStay
<1>11. ASSUME NEW w \in rows, MarkPayoutPaid(w) PROVE Valid'
  <2>1. PICK v \in Row : rows' = (rows \ {w}) \cup {v} /\ v.sold = w.sold
    BY <1>11, PayoutEffect
  <2>2. TypeOK'
    BY <1>11, <1>t, <1>s, <2>1, PayoutEffect DEF TypeOK
  <2> QED
    BY <1>11, <2>1, <2>2, PayoutEffect DEF Valid, CallsValid, RowsValid
<1>12. ASSUME NewMonth PROVE Valid'
  <2>1. period' = period + 1 /\ UNCHANGED <<charges, sales>>
    BY <1>12, MonthEffect
  <2>2. sales' \in Seq(Sale)'
    BY <1>t, <2>1, LongerSales DEF Valid
  <2>a. UNCHANGED <<call, charges, sales, rows, inserted, lost, torn, paidFor, careless>>
        /\ period' \in Nat
    BY <1>12, <1>t, MonthEffect
  <2>b. /\ call' \in [Requests -> Call] /\ charges' \in Seq(ChargeRecord)
        /\ rows' \subseteq Row /\ inserted' \in Nat /\ lost' \subseteq 1 .. Len(charges')
        /\ torn' \subseteq 1 .. Len(sales') /\ paidFor' \in [1 .. Len(sales') -> Nat]
        /\ careless' \in BOOLEAN
    BY <1>t, <2>a
  <2>3. TypeOK'
    BY <2>2, <2>a, <2>b, Zenon DEF TypeOK
  <2>4. \A q \in Requests : call[q].step = "commit" => call[q].at \in 0 .. period'
    BY <1>t, <2>1 DEF Valid, CallsValid
  <2> QED
    BY <1>12, <2>3, <2>4, MonthEffect DEF Valid, CallsValid, RowsValid
<1>13. CASE UNCHANGED vars
  <2>1. Sale' = Sale
    BY <1>13 DEF vars, money, Sale
  <2> QED
    BY <1>13, <2>1 DEF vars, money, payouts, Valid, TypeOK, CallsValid, RowsValid
<1> QED
  BY <1>1, <1>2, <1>3, <1>4, <1>5, <1>6, <1>7, <1>8, <1>9, <1>10, <1>11, <1>12, <1>13, <1>14, Zenon
     DEF Next, Ledger

-----------------------------------------------------------------------------
(* Charges and sales. *)

\* A charge that is about to be recorded belongs to one request and to no sale.
PendingFresh ==
  \A r \in Requests :
    Recording(r) =>
      /\ \A s \in Ledger : sales[s].charge # call[r].id
      /\ \A q \in Requests : q # r /\ Recording(q) => call[q].id # call[r].id

Charged == ChargesBecomeSales /\ PendingFresh

\* The steps that leave the charges, the sales' charges and the requests that record
\* alone.
LEMMA ChargedFrame ==
  ASSUME Charged, TypeOK,
         Len(charges') = Len(charges), Len(sales') = Len(sales), lost' = lost,
         \A c \in 1 .. Len(charges) : charges'[c].item = charges[c].item,
         \A s \in Ledger : sales'[s].item = sales[s].item /\ sales'[s].charge = sales[s].charge,
         \A r \in Requests :
           Recording(r)' \/ Recording(r) =>
             (Recording(r)' <=> Recording(r)) /\ call'[r].id = call[r].id
  PROVE  Charged'
<1> USE DEF Recording
<1>1. \A s \in Ledger : sales[s].charge \in 1 .. Len(charges)
  BY SaleFields
<1>a. /\ \A s \in Ledger : sales[s].item = charges[sales[s].charge].item
      /\ \A s, t \in Ledger : sales[s].charge = sales[t].charge => s = t
  BY DEF Charged, ChargesBecomeSales, Ledger
<1>b. Ledger' = Ledger
  BY DEF Ledger
<1>c. \A s \in Ledger : sales'[s].item = charges'[sales'[s].charge].item
  BY <1>1, <1>a
<1>d. \A s, t \in Ledger : sales'[s].charge = sales'[t].charge => s = t
  BY <1>a
<1>e. ASSUME NEW c \in 1 .. Len(charges)
      PROVE  \/ c \in lost
             \/ \E s \in Ledger : sales'[s].charge = c
             \/ \E r \in Requests : Recording(r)' /\ call'[r].id = c
  <2>1. \/ c \in lost
        \/ \E s \in Ledger : sales[s].charge = c
        \/ \E r \in Requests : Recording(r) /\ call[r].id = c
    BY DEF Charged, ChargesBecomeSales, Ledger
  <2> QED
    BY <2>1
<1>2. ChargesBecomeSales'
  BY <1>b, <1>c, <1>d, <1>e, Zenon DEF ChargesBecomeSales, Ledger
<1>3. PendingFresh'
  BY DEF Charged, PendingFresh, Ledger
<1> QED
  BY <1>2, <1>3 DEF Charged

\* A charge keeps the account of charges: its request is under way.
LEMMA ChargedCharge ==
  ASSUME Valid, Charged, NEW r \in Requests, Charge(r)
  PROVE  Charged'
<1> USE DEF Recording
<1> DEFINE m == Len(charges)
<1>1. /\ m \in Nat /\ Len(charges') = m + 1 /\ Recording(r)' /\ call'[r].id = m + 1
      /\ call[r].step = "charge" /\ OthersStay(r) /\ UNCHANGED <<sales, lost>>
      /\ \A c \in 1 .. m : charges'[c] = charges[c]
  BY ChargeEffect
<1>2. \A s \in Ledger : sales[s].charge \in 1 .. m
  BY SaleFields DEF Valid
<1>3. \A q \in Requests : Recording(q) => call[q].id \in 1 .. m /\ q # r
  BY <1>1 DEF Valid, CallsValid
<1> HIDE DEF m
<1>4. PendingFresh'
  BY <1>1, <1>2, <1>3 DEF Charged, PendingFresh, OthersStay, Ledger
<1>5. ASSUME NEW c \in 1 .. m + 1
      PROVE  \/ c \in lost
             \/ \E s \in 1 .. Len(sales) : sales[s].charge = c
             \/ \E q \in Requests : Recording(q)' /\ call'[q].id = c
  <2>1. CASE c = m + 1
    BY <1>1, <2>1
  <2>2. CASE c \in 1 .. m
    <3>1. CASE \E q \in Requests : Recording(q) /\ call[q].id = c
      BY <1>1, <1>3, <3>1 DEF OthersStay
    <3> QED
      BY <2>2, <3>1 DEF Charged, ChargesBecomeSales, m
  <2> QED
    BY <1>1, <2>1, <2>2
<1>6. ChargesBecomeSales'
  BY <1>1, <1>2, <1>5 DEF Charged, ChargesBecomeSales, Ledger
<1> QED
  BY <1>4, <1>6 DEF Charged

\* A recorded purchase turns its charge into its sale.
LEMMA ChargedCommit ==
  ASSUME Valid, Charged, NEW r \in Requests, CommitPurchase(r)
  PROVE  Charged'
<1> USE DEF Recording
<1>1. PICK n \in Nat : n = Len(sales)
  BY CommitEffect
<1>2. /\ Len(sales') = n + 1 /\ Recording(r) /\ call'[r].step = "idle" /\ OthersStay(r)
      /\ UNCHANGED <<charges, lost>>
      /\ \A s \in 1 .. n : sales'[s] = sales[s]
      /\ sales'[n + 1].item = call[r].item /\ sales'[n + 1].charge = call[r].id
  BY <1>1, CommitEffect, IdleType DEF Ledger
<1>3. /\ charges[call[r].id].item = call[r].item
      /\ \A s \in 1 .. n : sales[s].charge # call[r].id
      /\ \A q \in Requests : q # r /\ Recording(q) => call[q].id # call[r].id
  BY <1>1, <1>2 DEF Valid, CallsValid, Charged, PendingFresh, Ledger
<1>4. PendingFresh'
  BY <1>1, <1>2, <1>3 DEF Charged, PendingFresh, OthersStay, Ledger
<1>5. ASSUME NEW c \in 1 .. Len(charges)
      PROVE  \/ c \in lost
             \/ \E s \in 1 .. n + 1 : sales'[s].charge = c
             \/ \E q \in Requests : Recording(q)' /\ call'[q].id = c
  <2>1. CASE c = call[r].id
    BY <1>2, <2>1
  <2>2. CASE c # call[r].id
    <3>1. CASE \E q \in Requests : Recording(q) /\ call[q].id = c
      BY <1>2, <2>2, <3>1 DEF OthersStay
    <3>2. CASE \E s \in 1 .. n : sales[s].charge = c
      BY <1>2, <3>2
    <3> QED
      BY <1>1, <3>1, <3>2 DEF Charged, ChargesBecomeSales
  <2> QED
    BY <2>1, <2>2
<1>6. /\ \A s \in 1 .. n : sales[s].item = charges[sales[s].charge].item
      /\ \A s, t \in 1 .. n : sales[s].charge = sales[t].charge => s = t
  BY <1>1 DEF Charged, ChargesBecomeSales
<1>8. \A s \in 1 .. n + 1 : sales'[s].item = charges[sales'[s].charge].item
  BY <1>2, <1>3, <1>6
<1>9. \A s, t \in 1 .. n + 1 : sales'[s].charge = sales'[t].charge => s = t
  <2> SUFFICES ASSUME NEW s \in 1 .. n + 1, NEW t \in 1 .. n + 1,
                      sales'[s].charge = sales'[t].charge
               PROVE  s = t
    OBVIOUS
  <2>1. \A x \in 1 .. n : sales'[x].charge # sales'[n + 1].charge
    BY <1>2, <1>3
  <2>2. (s \in 1 .. n \/ s = n + 1) /\ (t \in 1 .. n \/ t = n + 1)
    OBVIOUS
  <2> QED
    BY <1>2, <1>6, <2>1, <2>2
<1>7. ChargesBecomeSales'
  <2>1. charges' = charges /\ lost' = lost /\ Len(sales') = n + 1
    BY <1>2
  <2> QED
    BY <1>5, <1>8, <1>9, <2>1, Zenon DEF ChargesBecomeSales
<1> QED
  BY <1>4, <1>7 DEF Charged

\* A request that dies with a charge leaves it among the lost ones.
LEMMA ChargedFail ==
  ASSUME Valid, Charged, NEW r \in Requests, Fail(r)
  PROVE  Charged'
<1> USE DEF Recording
<1>1. /\ call'[r].step = "idle" /\ OthersStay(r) /\ UNCHANGED <<charges, sales>>
      /\ lost' = IF Recording(r) THEN lost \cup {call[r].id} ELSE lost
  BY FailEffect, IdleType
<1>2. PendingFresh'
  BY <1>1 DEF Charged, PendingFresh, OthersStay, Ledger
<1>3. ASSUME NEW c \in 1 .. Len(charges), c \notin lost',
             ~\E s \in 1 .. Len(sales) : sales[s].charge = c
      PROVE  \E q \in Requests : Recording(q)' /\ call'[q].id = c
  <2>1. PICK q \in Requests : Recording(q) /\ call[q].id = c
    BY <1>1, <1>3 DEF Charged, ChargesBecomeSales
  <2>2. q # r
    BY <1>1, <1>3, <2>1
  <2> QED
    BY <1>1, <2>1, <2>2 DEF OthersStay
<1>4. ChargesBecomeSales'
  BY <1>1, <1>3 DEF Charged, ChargesBecomeSales
<1> QED
  BY <1>2, <1>4 DEF Charged

\* Every step keeps the account of charges.
LEMMA ChargedStep == Valid /\ Charged /\ [Next]_vars => Charged'
<1> SUFFICES ASSUME Valid, Charged, [Next]_vars PROVE Charged'
  OBVIOUS
<1> USE DEF Ledger, Recording
<1>t. TypeOK /\ Len(charges) \in Nat /\ Len(sales) \in Nat
  BY DEF Valid, TypeOK
<1>1. ASSUME NEW r \in Requests, NEW i \in Items, Buy(r, i) PROVE Charged'
  <2>1. call[r].step = "idle"
    BY <1>1, IdleType DEF Buy
  <2> QED
    BY <1>t, <1>1, <2>1, BuyEffect, ChargedFrame DEF OthersStay
<1>2. ASSUME NEW r \in Requests, NEW s \in Ledger, Refund(r, s) PROVE Charged'
  BY <1>t, <1>2, RefundEffect, ChargedFrame DEF OthersStay
<1>3. ASSUME NEW r \in Requests, PayBack(r) PROVE Charged'
  BY <1>t, <1>3, PayBackEffect, ChargedFrame DEF OthersStay
<1>4. ASSUME NEW r \in Requests, RefundPurchase(r) PROVE Charged'
  BY <1>t, <1>4, RefundPurchaseEffect, ChargedFrame, IdleType DEF OthersStay
<1>5. ASSUME NEW r \in Requests, NEW q \in 0 .. period, ComputeMonthlyPayouts(r, q) PROVE Charged'
  BY <1>t, <1>5, ComputeEffect, ChargedFrame DEF OthersStay
<1>6. ASSUME NEW r \in Requests, WipeRows(r) PROVE Charged'
  BY <1>t, <1>6, WipeEffect, ChargedFrame DEF OthersStay
<1>7. ASSUME NEW r \in Requests, NEW a \in Authors, InsertRow(r, a) PROVE Charged'
  BY <1>t, <1>7, InsertEffect, ChargedFrame DEF OthersStay
<1>8. ASSUME NEW w \in rows, MarkPayoutPaid(w) PROVE Charged'
  BY <1>t, <1>8, PayoutEffect, ChargedFrame
<1>9. ASSUME NewMonth PROVE Charged'
  BY <1>t, <1>9, MonthEffect, ChargedFrame
<1>11. ASSUME NEW r \in Requests, RecordPurchase(r) PROVE Charged'
  BY <1>t, <1>11, RecordEffect, ChargedFrame DEF OthersStay
<1>10. CASE UNCHANGED vars
  BY <1>t, <1>10, ChargedFrame DEF vars, money
<1> QED
  BY <1>1, <1>2, <1>3, <1>4, <1>5, <1>6, <1>7, <1>8, <1>9, <1>10, <1>11, ChargedCharge, ChargedCommit,
     ChargedFail, Zenon DEF Next

-----------------------------------------------------------------------------
(* Refunds. *)

\* The provider paid nothing back of a charge that is not a sale.
FreshUnpaid ==
  \A c \in 1 .. Len(charges) :
    (\A s \in Ledger : sales[s].charge # c) => charges[c].paidBack = 0

\* A sale that is being refunded is still active, and one request refunds it, if none
\* died with it or met another.
OneRefund ==
  \A s \in Ledger \ torn :
    \A r \in Requests :
      Refunds(r) /\ call[r].id = s =>
        /\ sales[s].status = "active"
        /\ \A q \in Requests : Refunds(q) /\ call[q].id = s => q = r

Refunded == FreshUnpaid /\ OneRefund /\ PaidBackOnce

\* The steps that leave the charges, the sales and the requests that refund alone.
LEMMA RefundedFrame ==
  ASSUME Refunded, UNCHANGED <<charges, sales, torn>>,
         \A r \in Requests :
           Refunds(r)' \/ Refunds(r) => call'[r].step = call[r].step /\ call'[r].id = call[r].id
  PROVE  Refunded'
<1>1. FreshUnpaid'
  BY DEF Refunded, FreshUnpaid, Ledger
<1>2. OneRefund'
  BY DEF Refunded, OneRefund, Refunds, Ledger
<1>3. \A r \in Requests, s \in Nat :
        (call'[r].step = "mark" /\ call'[r].id = s) <=> (call[r].step = "mark" /\ call[r].id = s)
  BY DEF Refunds
<1>4. ASSUME NEW s \in Ledger \ torn
      PROVE  charges[sales[s].charge].paidBack =
               IF \/ sales[s].status = "refunded"
                  \/ \E r \in Requests : call'[r].step = "mark" /\ call'[r].id = s
               THEN 1 ELSE 0
  <2>1. s \in Nat
    BY DEF Ledger
  <2>2. (\E r \in Requests : call'[r].step = "mark" /\ call'[r].id = s)
          <=> (\E r \in Requests : call[r].step = "mark" /\ call[r].id = s)
    BY <1>3, <2>1
  <2> QED
    BY <2>2 DEF Refunded, PaidBackOnce, Ledger
<1>5. PaidBackOnce'
  BY <1>4 DEF PaidBackOnce, Ledger
<1> QED
  BY <1>1, <1>2, <1>5 DEF Refunded

\* What PaidBackOnce says of one sale.
PaidBack(s) ==
  charges[sales[s].charge].paidBack =
    IF sales[s].status = "refunded" \/ \E r \in Requests : call[r].step = "mark" /\ call[r].id = s
    THEN 1 ELSE 0

\* A new charge is no sale's, so refunds are as they were.
LEMMA RefundedCharge ==
  ASSUME Valid, Refunded, NEW r \in Requests, Charge(r)
  PROVE  Refunded'
<1> DEFINE m == Len(charges)
<1>1. /\ m \in Nat /\ Len(charges') = m + 1 /\ call'[r].step = "record" /\ call[r].step = "charge"
      /\ OthersStay(r) /\ UNCHANGED <<sales, torn>> /\ charges'[m + 1].paidBack = 0
      /\ \A c \in 1 .. m : charges'[c] = charges[c]
  BY ChargeEffect
<1>2. \A s \in Ledger : sales[s].charge \in 1 .. m
  BY SaleFields DEF Valid
<1>3. FreshUnpaid'
  BY <1>1, <1>2 DEF Refunded, FreshUnpaid, Ledger
<1>4. OneRefund'
  BY <1>1 DEF Refunded, OneRefund, Refunds, OthersStay, Ledger
<1>5. ASSUME NEW s \in Ledger \ torn PROVE PaidBack(s)'
  <2>1. charges'[sales[s].charge] = charges[sales[s].charge] /\ sales' = sales
    BY <1>1, <1>2
  <2>2. (\E q \in Requests : call'[q].step = "mark" /\ call'[q].id = s)
          <=> (\E q \in Requests : call[q].step = "mark" /\ call[q].id = s)
    BY <1>1 DEF OthersStay
  <2>3. PaidBack(s)
    BY DEF Refunded, PaidBackOnce, PaidBack, Ledger
  <2> QED
    BY <2>1, <2>2, <2>3 DEF PaidBack
<1>6. PaidBackOnce'
  BY <1>1, <1>5 DEF PaidBackOnce, PaidBack, Ledger
<1> QED
  BY <1>3, <1>4, <1>6 DEF Refunded

\* A new sale was not paid back.
LEMMA RefundedCommit ==
  ASSUME Valid, Charged, Refunded, NEW r \in Requests, CommitPurchase(r)
  PROVE  Refunded'
<1>1. PICK n \in Nat : n = Len(sales)
  BY CommitEffect
<1>2. /\ Len(sales') = n + 1 /\ call[r].step = "commit" /\ call'[r].step = "idle" /\ OthersStay(r)
      /\ UNCHANGED <<charges, torn>>
      /\ \A s \in 1 .. n : sales'[s] = sales[s]
      /\ sales'[n + 1].charge = call[r].id /\ sales'[n + 1].status = "active"
  BY <1>1, CommitEffect, IdleType DEF Ledger
<1>3. /\ call[r].id \in 1 .. Len(charges)
      /\ \A s \in 1 .. n : sales[s].charge # call[r].id
  BY <1>1, <1>2 DEF Valid, CallsValid, Charged, PendingFresh, Recording, Ledger
<1>4. charges[call[r].id].paidBack = 0
  BY <1>1, <1>3 DEF Refunded, FreshUnpaid, Ledger
<1>5. \A q \in Requests : Refunds(q) => call[q].id \in 1 .. n /\ q # r
  BY <1>1, <1>2 DEF Valid, CallsValid, Ledger, Refunds
<1>6. FreshUnpaid'
  BY <1>1, <1>2, <1>3 DEF Refunded, FreshUnpaid, Ledger
<1>7. \A q \in Requests : Refunds(q)' => call'[q] = call[q] /\ Refunds(q) /\ call[q].id \in 1 .. n
  BY <1>2, <1>5 DEF Refunds, OthersStay
<1>8. OneRefund'
  BY <1>1, <1>2, <1>7 DEF Refunded, OneRefund, Ledger
<1>9. ASSUME NEW s \in 1 .. n + 1, s \notin torn PROVE PaidBack(s)'
  <2>1. CASE s = n + 1
    <3>1. ~\E q \in Requests : call'[q].step = "mark" /\ call'[q].id = s
      BY <1>7, <2>1 DEF Refunds
    <3> QED
      BY <1>2, <1>4, <2>1, <3>1 DEF PaidBack
  <2>2. CASE s \in 1 .. n
    <3>1. (\E q \in Requests : call'[q].step = "mark" /\ call'[q].id = s)
            <=> (\E q \in Requests : call[q].step = "mark" /\ call[q].id = s)
      BY <1>2 DEF OthersStay
    <3>2. PaidBack(s)
      BY <1>1, <1>9, <2>2 DEF Refunded, PaidBackOnce, PaidBack
    <3> QED
      BY <1>2, <2>2, <3>1, <3>2 DEF PaidBack
  <2> QED
    BY <2>1, <2>2
<1>10. PaidBackOnce'
  BY <1>2, <1>9 DEF PaidBackOnce, PaidBack
<1> QED
  BY <1>6, <1>8, <1>10 DEF Refunded

\* A refund that begins pays nothing yet.
LEMMA RefundedRefund ==
  ASSUME Valid, Refunded, NEW r \in Requests, NEW k \in Ledger, Refund(r, k)
  PROVE  Refunded'
<1>1. /\ call[r].step = "idle" /\ call'[r].step = "refund" /\ call'[r].id = k /\ OthersStay(r)
      /\ sales[k].status = "active" /\ UNCHANGED <<charges, sales>>
      /\ torn' = IF Refunding(r, k) THEN torn \cup {k} ELSE torn
  BY RefundEffect
<1>2. FreshUnpaid'
  BY <1>1 DEF Refunded, FreshUnpaid, Ledger
<1>3. ASSUME NEW s \in Ledger \ torn', NEW p \in Requests, Refunds(p)', call'[p].id = s
      PROVE  /\ sales[s].status = "active"
             /\ \A q \in Requests : Refunds(q)' /\ call'[q].id = s => q = p
  <2>1. s \in Ledger \ torn
    BY <1>1
  <2>2. CASE s = k
    <3>1. \A q \in Requests \ {r} : ~(Refunds(q) /\ call[q].id = k)
      BY <1>1, <1>3, <2>2 DEF Refunding, Refunds
    <3>2. \A q \in Requests \ {r} : ~(Refunds(q)' /\ call'[q].id = k)
      BY <1>1, <3>1 DEF Refunds, OthersStay
    <3> QED
      BY <1>1, <1>3, <2>2, <3>2
  <2>3. CASE s # k
    <3>1. \A q \in Requests : Refunds(q)' /\ call'[q].id = s => Refunds(q) /\ call[q].id = s
      BY <1>1, <2>3 DEF Refunds, OthersStay
    <3> QED
      BY <1>3, <2>1, <3>1 DEF Refunded, OneRefund
  <2> QED
    BY <2>2, <2>3
<1>4. OneRefund'
  BY <1>1, <1>3 DEF OneRefund, Ledger
<1>5. ASSUME NEW s \in Ledger \ torn' PROVE PaidBack(s)'
  <2>1. s \in Ledger \ torn
    BY <1>1
  <2>2. (\E q \in Requests : call'[q].step = "mark" /\ call'[q].id = s)
          <=> (\E q \in Requests : call[q].step = "mark" /\ call[q].id = s)
    BY <1>1 DEF OthersStay
  <2>3. PaidBack(s)
    BY <2>1 DEF Refunded, PaidBackOnce, PaidBack, Ledger
  <2> QED
    BY <1>1, <2>2, <2>3 DEF PaidBack
<1>6. PaidBackOnce'
  BY <1>1, <1>5 DEF PaidBackOnce, PaidBack, Ledger
<1> QED
  BY <1>2, <1>4, <1>6 DEF Refunded

\* A refund that pays is the only one of its sale, or the sale is torn.
LEMMA RefundedPayBack ==
  ASSUME Valid, Charged, Refunded, NEW r \in Requests, PayBack(r)
  PROVE  Refunded'
<1> DEFINE k == call[r].id
           m == Len(charges)
<1>1. /\ call[r].step = "refund" /\ k \in Ledger /\ call'[r].step = "mark" /\ call'[r].id = k
      /\ OthersStay(r) /\ UNCHANGED <<sales, torn>> /\ Len(charges') = m
      /\ \A c \in 1 .. m :
           charges'[c].paidBack = IF c = sales[k].charge THEN charges[c].paidBack + 1
                                  ELSE charges[c].paidBack
  BY PayBackEffect
<1>2. \A s \in Ledger : sales[s].charge \in 1 .. m /\ (s # k => sales[s].charge # sales[k].charge)
  BY <1>1, SaleFields DEF Valid, Charged, ChargesBecomeSales, Ledger
<1>i. k \in Nat
  BY <1>1 DEF Ledger
<1> HIDE DEF m
<1>3. FreshUnpaid'
  BY <1>1 DEF Refunded, FreshUnpaid, Ledger, m
<1>4. \A q \in Requests : (Refunds(q)' <=> Refunds(q)) /\ (Refunds(q) => call'[q].id = call[q].id)
  BY <1>1 DEF Refunds, OthersStay
<1>5. OneRefund'
  BY <1>1, <1>4 DEF Refunded, OneRefund, Ledger
<1>6. ASSUME NEW s \in Ledger \ torn PROVE PaidBack(s)'
  <2>1. PaidBack(s)
    BY DEF Refunded, PaidBackOnce, PaidBack, Ledger
  <2>2. CASE s = k
    <3>1. sales[k].status = "active" /\ \A q \in Requests : Refunds(q) /\ call[q].id = k => q = r
      BY <1>1, <2>2 DEF Refunded, OneRefund, Refunds
    <3>2. ~\E q \in Requests : call[q].step = "mark" /\ call[q].id = k
      BY <1>1, <3>1 DEF Refunds
    <3>3. charges[sales[k].charge].paidBack = 0
      BY <2>1, <2>2, <3>1, <3>2 DEF PaidBack
    <3>4. charges'[sales[k].charge].paidBack = 1
      BY <1>1, <1>2, <3>3
    <3> QED
      BY <1>1, <2>2, <3>4 DEF PaidBack
  <2>3. CASE s # k
    <3>1. (\E q \in Requests : call'[q].step = "mark" /\ call'[q].id = s)
            <=> (\E q \in Requests : call[q].step = "mark" /\ call[q].id = s)
      BY <1>1, <2>3 DEF OthersStay
    <3>2. charges'[sales[s].charge].paidBack = charges[sales[s].charge].paidBack
      BY <1>1, <1>2, <2>3
    <3> QED
      BY <1>1, <2>1, <3>1, <3>2 DEF PaidBack
  <2> QED
    BY <2>2, <2>3
<1>7. PaidBackOnce'
  BY <1>1, <1>6 DEF PaidBackOnce, PaidBack, Ledger
<1> QED
  BY <1>3, <1>5, <1>7 DEF Refunded

\* A mark follows one payment.
LEMMA RefundedPurchase ==
  ASSUME Valid, Refunded, NEW r \in Requests, RefundPurchase(r)
  PROVE  Refunded'
<1> DEFINE k == call[r].id
<1>1. /\ call[r].step = "mark" /\ k \in Ledger /\ call'[r].step = "idle" /\ OthersStay(r)
      /\ UNCHANGED <<charges, torn>> /\ Len(sales') = Len(sales)
      /\ sales'[k].status = "refunded"
      /\ \A s \in Ledger :
           sales'[s].charge = sales[s].charge /\ (s # k => sales'[s].status = sales[s].status)
  BY RefundPurchaseEffect, IdleType
<1>2. FreshUnpaid'
  BY <1>1 DEF Refunded, FreshUnpaid, Ledger
<1>3. ASSUME NEW s \in Ledger \ torn, NEW p \in Requests, Refunds(p)', call'[p].id = s
      PROVE  /\ sales'[s].status = "active"
             /\ \A q \in Requests : Refunds(q)' /\ call'[q].id = s => q = p
  <2>1. \A q \in Requests : Refunds(q)' => Refunds(q) /\ call'[q] = call[q] /\ q # r
    BY <1>1 DEF Refunds, OthersStay
  <2>2. /\ sales[s].status = "active"
        /\ \A q \in Requests : Refunds(q) /\ call[q].id = s => q = p
    BY <1>3, <2>1 DEF Refunded, OneRefund
  <2>3. s # k
    BY <1>1, <1>3, <2>1, <2>2 DEF Refunds
  <2> QED
    BY <1>1, <2>1, <2>2, <2>3
<1>4. OneRefund'
  BY <1>1, <1>3 DEF OneRefund, Ledger
<1>5. ASSUME NEW s \in Ledger \ torn PROVE PaidBack(s)'
  <2>1. PaidBack(s)
    BY DEF Refunded, PaidBackOnce, PaidBack, Ledger
  <2>2. CASE s = k
    <3>1. charges[sales[k].charge].paidBack = 1
      BY <1>1, <2>1, <2>2 DEF PaidBack
    <3> QED
      BY <1>1, <2>2, <3>1 DEF PaidBack
  <2>3. CASE s # k
    <3>1. (\E q \in Requests : call'[q].step = "mark" /\ call'[q].id = s)
            <=> (\E q \in Requests : call[q].step = "mark" /\ call[q].id = s)
      BY <1>1, <2>3 DEF OthersStay
    <3> QED
      BY <1>1, <2>1, <2>3, <3>1 DEF PaidBack
  <2> QED
    BY <2>2, <2>3
<1>6. PaidBackOnce'
  BY <1>1, <1>5 DEF PaidBackOnce, PaidBack, Ledger
<1> QED
  BY <1>2, <1>4, <1>6 DEF Refunded

\* A refund that dies has not paid, or its sale is torn.
LEMMA RefundedFail ==
  ASSUME Valid, Refunded, NEW r \in Requests, Fail(r)
  PROVE  Refunded'
<1>1. /\ call'[r].step = "idle" /\ OthersStay(r) /\ UNCHANGED <<charges, sales>>
      /\ torn' = IF call[r].step = "mark" THEN torn \cup {call[r].id} ELSE torn
  BY FailEffect, IdleType
<1>2. FreshUnpaid'
  BY <1>1 DEF Refunded, FreshUnpaid, Ledger
<1>3. \A q \in Requests : Refunds(q)' => Refunds(q) /\ call'[q] = call[q]
  BY <1>1 DEF Refunds, OthersStay
<1>4. OneRefund'
  BY <1>1, <1>3 DEF Refunded, OneRefund, Ledger
<1>5. ASSUME NEW s \in Ledger \ torn' PROVE PaidBack(s)'
  <2>1. s \in Ledger \ torn /\ ~(call[r].step = "mark" /\ call[r].id = s)
    BY <1>1
  <2>2. (\E q \in Requests : call'[q].step = "mark" /\ call'[q].id = s)
          <=> (\E q \in Requests : call[q].step = "mark" /\ call[q].id = s)
    BY <1>1, <2>1 DEF OthersStay
  <2>3. PaidBack(s)
    BY <2>1 DEF Refunded, PaidBackOnce, PaidBack, Ledger
  <2> QED
    BY <1>1, <2>2, <2>3 DEF PaidBack
<1>6. PaidBackOnce'
  BY <1>1, <1>5 DEF PaidBackOnce, PaidBack, Ledger
<1> QED
  BY <1>2, <1>4, <1>6 DEF Refunded

\* Every step keeps the account of refunds.
LEMMA RefundedStep == Valid /\ Charged /\ Refunded /\ [Next]_vars => Refunded'
<1> SUFFICES ASSUME Valid, Charged, Refunded, [Next]_vars PROVE Refunded'
  OBVIOUS
<1> USE DEF Refunds
<1>1. ASSUME NEW r \in Requests, NEW i \in Items, Buy(r, i) PROVE Refunded'
  <2>1. call[r].step = "idle"
    BY <1>1, IdleType DEF Buy
  <2> QED
    BY <1>1, <2>1, BuyEffect, RefundedFrame DEF OthersStay
<1>2. ASSUME NEW r \in Requests, NEW q \in 0 .. period, ComputeMonthlyPayouts(r, q) PROVE Refunded'
  BY <1>2, ComputeEffect, RefundedFrame DEF OthersStay
<1>3. ASSUME NEW r \in Requests, WipeRows(r) PROVE Refunded'
  BY <1>3, WipeEffect, RefundedFrame DEF OthersStay
<1>4. ASSUME NEW r \in Requests, NEW a \in Authors, InsertRow(r, a) PROVE Refunded'
  BY <1>4, InsertEffect, RefundedFrame DEF OthersStay
<1>5. ASSUME NEW w \in rows, MarkPayoutPaid(w) PROVE Refunded'
  BY <1>5, PayoutEffect, RefundedFrame
<1>6. ASSUME NewMonth PROVE Refunded'
  BY <1>6, MonthEffect, RefundedFrame
<1>8. ASSUME NEW r \in Requests, RecordPurchase(r) PROVE Refunded'
  BY <1>8, RecordEffect, RefundedFrame DEF OthersStay
<1>7. CASE UNCHANGED vars
  BY <1>7, RefundedFrame DEF vars, money
<1> QED
  BY <1>1, <1>2, <1>3, <1>4, <1>5, <1>6, <1>7, <1>8, RefundedCharge, RefundedCommit, RefundedRefund,
     RefundedPayBack, RefundedPurchase, RefundedFail, Zenon DEF Next, Ledger

-----------------------------------------------------------------------------
(* Payout rows. *)

\* The sales of a row or of a request that computes are of its period, and the period
\* of a closed one is over.
PeriodsMatch ==
  /\ \A w \in rows :
       /\ w.closed => w.period < period
       /\ \A s \in w.sold : sales[s].period = w.period
  /\ \A r \in Requests :
       Computes(r) => /\ call[r].closed => call[r].id < period
                      /\ \A s \in call[r].sold : sales[s].period = call[r].id

\* A request that computes a closed period has, of each author it still has to insert,
\* every sale that stands, but those that were being inserted.
CallsCover ==
  \A r \in Requests :
    Computes(r) /\ call[r].closed =>
      \A s \in Ledger :
        sales[s].status = "active" /\ sales[s].period = call[r].id =>
          \A t \in call[r].sold :
            Author[sales[t].item] = Author[sales[s].item] =>
              s \in call[r].sold \/ sales[s].charge \in call[r].unseen

\* A sale that is being inserted and stamped with a closed period is known as unseen to
\* every row of the period and every request that computes it.
LateUnseen ==
  \A q \in Requests :
    call[q].step = "commit" =>
      /\ \A w \in rows : w.closed /\ w.period = call[q].at => call[q].id \in w.unseen
      /\ \A r \in Requests :
           Computes(r) /\ call[r].closed /\ call[r].id = call[q].at => call[q].id \in call[r].unseen

Covered == PeriodsMatch /\ CallsCover /\ LateUnseen /\ ClosedRowsCover

\* The steps that add no sale, no row and no sum.
LEMMA CoveredFrame ==
  ASSUME Valid, Covered, Len(sales') = Len(sales),
         \A s \in Ledger :
           /\ sales'[s].item = sales[s].item
           /\ sales'[s].period = sales[s].period
           /\ sales'[s].charge = sales[s].charge
           /\ sales'[s].status = "active" => sales[s].status = "active",
         period' \in Nat, period' >= period,
         \A w \in rows' : w \in rows,
         \A r \in Requests :
           Computes(r)' => /\ Computes(r)
                           /\ call'[r].id = call[r].id
                           /\ call'[r].sold = call[r].sold
                           /\ call'[r].closed = call[r].closed
                           /\ call'[r].unseen = call[r].unseen,
         \A q \in Requests :
           call'[q].step = "commit" =>
             call[q].step = "commit" /\ call'[q].id = call[q].id /\ call'[q].at = call[q].at
  PROVE  Covered'
<1>1. Ledger' = Ledger
  BY DEF Ledger
<1>2. \A w \in rows : w.sold \subseteq Ledger /\ w.period \in Nat
  BY DEF Valid, TypeOK, RowsValid, Row
<1>3. \A r \in Requests : Computes(r) => call[r].sold \subseteq Ledger /\ call[r].id \in Nat
  BY CallFields DEF Valid, CallsValid
<1>p. period \in Nat
  BY DEF Valid, TypeOK
<1>4. PeriodsMatch'
  <2>1. \A w \in rows' :
          (w.closed => w.period < period') /\ \A s \in w.sold : sales'[s].period = w.period
    BY <1>2, <1>p DEF Covered, PeriodsMatch
  <2>2. \A r \in Requests :
          Computes(r)' => /\ call'[r].closed => call'[r].id < period'
                          /\ \A s \in call'[r].sold : sales'[s].period = call'[r].id
    BY <1>3, <1>p DEF Covered, PeriodsMatch
  <2> QED
    BY <2>1, <2>2 DEF PeriodsMatch
<1>5. ASSUME NEW r \in Requests, Computes(r)', call'[r].closed, NEW s \in Ledger,
             sales'[s].status = "active", sales'[s].period = call'[r].id,
             NEW t \in call'[r].sold, Author[sales'[t].item] = Author[sales'[s].item]
      PROVE  s \in call'[r].sold \/ sales'[s].charge \in call'[r].unseen
  <2>1. Computes(r) /\ call[r].closed /\ t \in call[r].sold /\ t \in Ledger
    BY <1>3, <1>5
  <2>2. /\ sales[s].status = "active" /\ sales[s].period = call[r].id
        /\ Author[sales[t].item] = Author[sales[s].item]
    BY <1>5, <2>1
  <2>3. s \in call[r].sold \/ sales[s].charge \in call[r].unseen
    BY <2>1, <2>2 DEF Covered, CallsCover
  <2> QED
    BY <1>5, <2>3
<1>6. CallsCover'
  BY <1>1, <1>5 DEF CallsCover
<1>7. ClosedRowsCover'
  BY DEF Covered, ClosedRowsCover, Ledger
<1>8. LateUnseen'
  BY DEF Covered, LateUnseen
<1> QED
  BY <1>4, <1>6, <1>7, <1>8 DEF Covered

\* A sale is stamped with the current period, which no closed row is about.
LEMMA CoveredRecord ==
  ASSUME Valid, Covered, NEW r \in Requests, RecordPurchase(r)
  PROVE  Covered'
<1>1. /\ call[r].step = "record" /\ call'[r].step = "commit" /\ call'[r].at = period
      /\ OthersStay(r) /\ UNCHANGED <<sales, rows, period>>
  BY RecordEffect
<1>2. \A q \in Requests : Computes(q)' => Computes(q) /\ call'[q] = call[q]
  BY <1>1 DEF Computes, OthersStay
<1>3. /\ \A w \in rows : w.closed => w.period # period
      /\ \A q \in Requests : Computes(q) /\ call[q].closed => call[q].id # period
  <2>1. period \in Nat /\ \A w \in rows : w.period \in Nat
    BY DEF Valid, TypeOK, Row
  <2>2. \A q \in Requests : call[q].id \in Nat
    BY CallFields DEF Valid
  <2> QED
    BY <2>1, <2>2 DEF Covered, PeriodsMatch
<1>4. PeriodsMatch'
  BY <1>1, <1>2 DEF Covered, PeriodsMatch
<1>5. CallsCover'
  BY <1>1, <1>2 DEF Covered, CallsCover, Ledger
<1>6. ClosedRowsCover'
  BY <1>1 DEF Covered, ClosedRowsCover
<1>7. LateUnseen'
  <2> SUFFICES ASSUME NEW q \in Requests, call'[q].step = "commit"
               PROVE  /\ \A w \in rows :
                         w.closed /\ w.period = call'[q].at => call'[q].id \in w.unseen
                      /\ \A p \in Requests :
                           Computes(p)' /\ call'[p].closed /\ call'[p].id = call'[q].at =>
                             call'[q].id \in call'[p].unseen
    BY <1>1 DEF LateUnseen
  <2>1. CASE q = r
    BY <1>1, <1>2, <1>3, <2>1
  <2>2. CASE q # r
    BY <1>1, <1>2, <2>2 DEF Covered, LateUnseen, OthersStay
  <2> QED
    BY <2>1, <2>2
<1> QED
  BY <1>4, <1>5, <1>6, <1>7 DEF Covered

\* A new sale of a period that is over is known as unseen.
LEMMA CoveredCommit ==
  ASSUME Valid, Covered, NEW r \in Requests, CommitPurchase(r)
  PROVE  Covered'
<1>c. call[r].step = "commit"
  BY CommitEffect
<1>1. PICK n \in Nat : n = Len(sales)
  BY CommitEffect
<1>2. /\ Len(sales') = n + 1 /\ call'[r].step = "idle" /\ OthersStay(r)
      /\ UNCHANGED <<rows, period>>
      /\ \A s \in 1 .. n : sales'[s] = sales[s]
      /\ sales'[n + 1].period = call[r].at /\ sales'[n + 1].charge = call[r].id
  BY <1>1, CommitEffect, IdleType DEF Ledger
<1>3. \A w \in rows : w.sold \subseteq 1 .. n /\ w.period \in Nat
  BY <1>1 DEF Valid, TypeOK, RowsValid, Row, Ledger
<1>4. \A q \in Requests : Computes(q)' => Computes(q) /\ call'[q] = call[q]
  BY <1>2 DEF Computes, OthersStay
<1>5. \A q \in Requests : Computes(q) => call[q].sold \subseteq 1 .. n /\ call[q].id \in Nat
  BY <1>1, CallFields DEF Valid, CallsValid, Ledger
<1>p. period \in Nat
  BY DEF Valid, TypeOK
<1>6. PeriodsMatch'
  <2>1. ASSUME NEW w \in rows
        PROVE  /\ w.closed => w.period < period
               /\ \A s \in w.sold : sales'[s].period = w.period
    BY <1>2, <1>3 DEF Covered, PeriodsMatch
  <2>2. ASSUME NEW q \in Requests, Computes(q)'
        PROVE  /\ call'[q].closed => call'[q].id < period
               /\ \A s \in call'[q].sold : sales'[s].period = call'[q].id
    <3>1. Computes(q) /\ call'[q] = call[q] /\ call[q].sold \subseteq 1 .. n
      BY <1>4, <1>5, <2>2
    <3>2. /\ call[q].closed => call[q].id < period
          /\ \A s \in call[q].sold : sales[s].period = call[q].id
      BY <3>1 DEF Covered, PeriodsMatch
    <3> QED
      BY <1>2, <3>1, <3>2
  <2> QED
    BY <1>2, <2>1, <2>2 DEF PeriodsMatch
<1>7. ASSUME NEW q \in Requests, Computes(q)', call'[q].closed, NEW s \in 1 .. n + 1,
             sales'[s].status = "active", sales'[s].period = call'[q].id,
             NEW t \in call'[q].sold, Author[sales'[t].item] = Author[sales'[s].item]
      PROVE  s \in call'[q].sold \/ sales'[s].charge \in call'[q].unseen
  <2>1. /\ Computes(q) /\ call'[q] = call[q] /\ call[q].closed /\ t \in 1 .. n
        /\ call[q].id < period /\ call[q].id \in Nat
    BY <1>4, <1>5, <1>7 DEF Covered, PeriodsMatch
  <2>2. CASE s = n + 1
    BY <1>c, <1>2, <1>7, <2>1, <2>2 DEF Covered, LateUnseen
  <2>3. CASE s \in 1 .. n
    <3>1. sales'[s] = sales[s] /\ sales'[t] = sales[t]
      BY <1>2, <2>1, <2>3
    <3> QED
      BY <1>1, <1>7, <2>1, <2>3, <3>1 DEF Covered, CallsCover, Ledger
  <2> QED
    BY <2>2, <2>3
<1>8. CallsCover'
  <2>1. Ledger' = 1 .. n + 1
    BY <1>2 DEF Ledger
  <2> QED
    BY <1>7, <2>1 DEF CallsCover
<1>9. ASSUME NEW w \in rows, w.closed, NEW s \in 1 .. n + 1,
             sales'[s].status = "active", sales'[s].period = w.period,
             Author[sales'[s].item] = w.author
      PROVE  s \in w.sold \/ sales'[s].charge \in w.unseen
  <2>1. CASE s = n + 1
    BY <1>c, <1>2, <1>9, <2>1 DEF Covered, LateUnseen
  <2>2. CASE s \in 1 .. n
    BY <1>1, <1>2, <1>9, <2>2 DEF Covered, ClosedRowsCover
  <2> QED
    BY <2>1, <2>2
<1>10. ClosedRowsCover'
  BY <1>2, <1>9 DEF ClosedRowsCover
<1>11. LateUnseen'
  <2>1. \A q \in Requests :
          call'[q].step = "commit" => call[q].step = "commit" /\ call'[q] = call[q]
    BY <1>2 DEF OthersStay
  <2> QED
    BY <1>2, <1>4, <2>1 DEF Covered, LateUnseen
<1> QED
  BY <1>6, <1>8, <1>10, <1>11 DEF Covered

\* A payout run begins with every sale of its period.
LEMMA CoveredCompute ==
  ASSUME Valid, Covered, NEW r \in Requests, NEW q \in 0 .. period, ComputeMonthlyPayouts(r, q)
  PROVE  Covered'
<1>1. /\ call'[r].step = "wipe" /\ call'[r].id = q /\ call'[r].sold = InWindow(q)
      /\ OthersStay(r) /\ UNCHANGED <<sales, rows, period>>
  BY ComputeEffect
<1>a. call'[r].closed => q < period /\ call'[r].unseen = Uncommitted(q)
  BY ComputeEffect
<1>2. \A p \in Requests \ {r} : Computes(p)' => Computes(p) /\ call'[p] = call[p]
  BY <1>1 DEF Computes, OthersStay
<1>3. /\ \A s \in InWindow(q) : sales[s].period = q
      /\ \A s \in Ledger : sales[s].status = "active" /\ sales[s].period = q => s \in InWindow(q)
  BY DEF InWindow, Ledger
<1>4. PeriodsMatch'
  <2>1. \A w \in rows' :
          (w.closed => w.period < period') /\ \A s \in w.sold : sales'[s].period = w.period
    BY <1>1 DEF Covered, PeriodsMatch
  <2>2. ASSUME NEW p \in Requests, Computes(p)'
        PROVE  /\ call'[p].closed => call'[p].id < period'
               /\ \A s \in call'[p].sold : sales'[s].period = call'[p].id
    <3>1. CASE p = r
      BY <1>1, <1>a, <1>3, <3>1
    <3>2. CASE p # r
      BY <1>1, <1>2, <2>2, <3>2 DEF Covered, PeriodsMatch
    <3> QED
      BY <3>1, <3>2
  <2> QED
    BY <2>1, <2>2 DEF PeriodsMatch
<1>5. CallsCover'
  BY <1>1, <1>2, <1>3 DEF Covered, CallsCover, Ledger
<1>6. ClosedRowsCover'
  BY <1>1 DEF Covered, ClosedRowsCover
<1>7. LateUnseen'
  <2> SUFFICES ASSUME NEW p \in Requests, call'[p].step = "commit"
               PROVE  /\ \A w \in rows :
                         w.closed /\ w.period = call'[p].at => call'[p].id \in w.unseen
                      /\ \A x \in Requests :
                           Computes(x)' /\ call'[x].closed /\ call'[x].id = call'[p].at =>
                             call'[p].id \in call'[x].unseen
    BY <1>1 DEF LateUnseen
  <2>1. p # r /\ call[p].step = "commit" /\ call'[p] = call[p]
    BY <1>1 DEF OthersStay
  <2>2. call[p].at = q => call[p].id \in Uncommitted(q)
    BY <2>1 DEF Uncommitted
  <2>3. \A w \in rows : w.closed /\ w.period = call[p].at => call[p].id \in w.unseen
    BY <2>1 DEF Covered, LateUnseen
  <2>4. ASSUME NEW x \in Requests, Computes(x)', call'[x].closed, call'[x].id = call'[p].at
        PROVE  call[p].id \in call'[x].unseen
    <3>1. CASE x = r
      BY <1>1, <1>a, <2>1, <2>2, <2>4, <3>1
    <3>2. CASE x # r
      BY <1>2, <2>1, <2>4, <3>2 DEF Covered, LateUnseen
    <3> QED
      BY <3>1, <3>2
  <2> QED
    BY <2>1, <2>3, <2>4
<1> QED
  BY <1>4, <1>5, <1>6, <1>7 DEF Covered

\* Fewer rows cover as well.
LEMMA CoveredWipe ==
  ASSUME Valid, Covered, NEW r \in Requests, WipeRows(r)
  PROVE  Covered'
<1>1. /\ call[r].step = "wipe" /\ OthersStay(r) /\ UNCHANGED <<sales, period>>
      /\ call'[r].step \in {"idle", "insert"}
      /\ call'[r].step = "insert" => /\ call'[r].id = call[r].id
                                     /\ call'[r].sold = call[r].sold
                                     /\ call'[r].closed = call[r].closed
                                     /\ call'[r].unseen = call[r].unseen
      /\ \A w \in rows' : w \in rows
  BY WipeEffect
<1>2. period \in Nat
  BY DEF Valid, TypeOK
<1>3. \A p \in Requests :
        Computes(p)' => /\ Computes(p) /\ call'[p].id = call[p].id
                        /\ call'[p].sold = call[p].sold /\ call'[p].closed = call[p].closed
                        /\ call'[p].unseen = call[p].unseen
  BY <1>1 DEF Computes, OthersStay
<1>4. \A p \in Requests : call'[p].step = "commit" => call[p].step = "commit" /\ call'[p] = call[p]
  BY <1>1 DEF OthersStay
<1> QED
  BY <1>1, <1>2, <1>3, <1>4, CoveredFrame

\* An inserted row counts what its run found for the author.
LEMMA CoveredInsert ==
  ASSUME Valid, Covered, NEW r \in Requests, NEW a \in Authors, InsertRow(r, a)
  PROVE  Covered'
<1> DEFINE c == call[r]
<1>1. /\ c.step = "insert" /\ c.sold \subseteq Ledger /\ OthersStay(r)
      /\ call'[r].step \in {"idle", "insert"}
      /\ call'[r].step = "insert" => /\ call'[r].id = c.id
                                     /\ call'[r].sold = c.sold \ By(a, c.sold)
                                     /\ call'[r].closed = c.closed
                                     /\ call'[r].unseen = c.unseen
      /\ By(a, c.sold) # {} /\ UNCHANGED <<sales, period>>
  BY InsertEffect
<1>2. PICK w \in Row : /\ rows' = rows \cup {w}
                       /\ w.author = a /\ w.period = c.id /\ w.closed = c.closed
                       /\ w.sold = By(a, c.sold) /\ w.unseen = c.unseen
  BY InsertEffect
<1>3. \A s : s \in By(a, c.sold) <=> s \in c.sold /\ Author[sales[s].item] = a
  BY DEF By
<1>4. Computes(r) /\ \A p \in Requests \ {r} : Computes(p)' => Computes(p) /\ call'[p] = call[p]
  BY <1>1 DEF Computes, OthersStay
<1>5. /\ c.closed => c.id < period
      /\ \A s \in c.sold : sales[s].period = c.id
  BY <1>4 DEF Covered, PeriodsMatch
<1>6. PeriodsMatch'
  BY <1>1, <1>2, <1>3, <1>4, <1>5 DEF Covered, PeriodsMatch, Computes
<1>7. ASSUME c.closed, NEW s \in Ledger, sales[s].status = "active", sales[s].period = c.id,
             NEW t \in c.sold, Author[sales[t].item] = Author[sales[s].item]
      PROVE  s \in c.sold \/ sales[s].charge \in c.unseen
  BY <1>4, <1>7 DEF Covered, CallsCover
<1>8. CallsCover'
  <2> SUFFICES ASSUME NEW p \in Requests, Computes(p)', call'[p].closed, NEW s \in Ledger',
                      sales'[s].status = "active", sales'[s].period = call'[p].id,
                      NEW t \in call'[p].sold, Author[sales'[t].item] = Author[sales'[s].item]
               PROVE  s \in call'[p].sold \/ sales'[s].charge \in call'[p].unseen
    BY DEF CallsCover
  <2>1. Ledger' = Ledger
    BY <1>1 DEF Ledger
  <2>2. CASE p = r
    <3>1. call'[r].step = "insert"
      BY <1>1, <2>2 DEF Computes
    <3>2. t \in c.sold /\ Author[sales[t].item] # a /\ c.closed
      BY <1>1, <1>3, <2>2, <3>1
    <3>3. s \in c.sold \/ sales[s].charge \in c.unseen
      BY <1>1, <1>7, <2>1, <2>2, <3>1, <3>2
    <3> QED
      BY <1>1, <1>3, <2>2, <3>1, <3>2, <3>3
  <2>3. CASE p # r
    BY <1>1, <1>4, <2>1, <2>3 DEF Covered, CallsCover
  <2> QED
    BY <2>2, <2>3
<1>9. ASSUME w.closed, NEW s \in Ledger, sales[s].status = "active", sales[s].period = w.period,
             Author[sales[s].item] = w.author
      PROVE  s \in w.sold \/ sales[s].charge \in w.unseen
  <2>1. PICK t \in c.sold : Author[sales[t].item] = a
    BY <1>1, <1>3
  <2>2. s \in c.sold \/ sales[s].charge \in c.unseen
    BY <1>2, <1>7, <1>9, <2>1
  <2> QED
    BY <1>2, <1>3, <1>9, <2>2
<1>10. ClosedRowsCover'
  BY <1>1, <1>2, <1>9 DEF Covered, ClosedRowsCover, Ledger
<1>11. LateUnseen'
  <2>1. \A p \in Requests :
          call'[p].step = "commit" => call[p].step = "commit" /\ call'[p] = call[p]
    BY <1>1 DEF OthersStay
  <2>2. \A p \in Requests :
          Computes(p)' => Computes(p) /\ call'[p].id = call[p].id
                          /\ call'[p].closed = call[p].closed /\ call'[p].unseen = call[p].unseen
    BY <1>1, <1>4 DEF Computes
  <2>3. \A p \in Requests :
          call[p].step = "commit" /\ w.closed /\ w.period = call[p].at => call[p].id \in w.unseen
    BY <1>2, <1>4 DEF Covered, LateUnseen
  <2> QED
    BY <1>2, <2>1, <2>2, <2>3 DEF Covered, LateUnseen
<1> QED
  BY <1>6, <1>8, <1>10, <1>11 DEF Covered

\* Payment changes no row's sales.
LEMMA CoveredPayout ==
  ASSUME Valid, Covered, NEW w \in rows, MarkPayoutPaid(w)
  PROVE  Covered'
<1>1. PICK v \in Row : /\ rows' = (rows \ {w}) \cup {v}
                       /\ v.author = w.author /\ v.period = w.period /\ v.closed = w.closed
                       /\ v.sold = w.sold /\ v.unseen = w.unseen
  BY PayoutEffect
<1>2. UNCHANGED <<call, sales, period>>
  BY PayoutEffect
<1>3. PeriodsMatch'
  BY <1>1, <1>2 DEF Covered, PeriodsMatch, Computes
<1>4. CallsCover'
  BY <1>2 DEF Covered, CallsCover, Computes, Ledger
<1>5. ClosedRowsCover'
  BY <1>1, <1>2 DEF Covered, ClosedRowsCover
<1>6. LateUnseen'
  BY <1>1, <1>2 DEF Covered, LateUnseen, Computes
<1> QED
  BY <1>3, <1>4, <1>5, <1>6 DEF Covered

\* Every step keeps closed rows covering.
LEMMA CoveredStep == Valid /\ Covered /\ [Next]_vars => Covered'
<1> SUFFICES ASSUME Valid, Covered, [Next]_vars PROVE Covered'
  OBVIOUS
<1> USE DEF Computes, Ledger
<1>t. period \in Nat /\ Len(sales) \in Nat
  BY DEF Valid, TypeOK
<1>1. ASSUME NEW r \in Requests, NEW i \in Items, Buy(r, i) PROVE Covered'
  <2>1. \A q \in Requests :
          Computes(q)' \/ call'[q].step = "commit" => call'[q] = call[q]
    BY <1>1, BuyEffect DEF OthersStay
  <2>2. UNCHANGED <<sales, rows, period>>
    BY <1>1, BuyEffect
  <2> QED
    BY <1>t, <2>1, <2>2, CoveredFrame
<1>2. ASSUME NEW r \in Requests, Charge(r) PROVE Covered'
  <2>1. \A q \in Requests :
          Computes(q)' \/ call'[q].step = "commit" => call'[q] = call[q]
    BY <1>2, ChargeEffect DEF OthersStay
  <2>2. UNCHANGED <<sales, rows, period>>
    BY <1>2, ChargeEffect
  <2> QED
    BY <1>t, <2>1, <2>2, CoveredFrame
<1>3. ASSUME NEW r \in Requests, NEW s \in Ledger, Refund(r, s) PROVE Covered'
  BY <1>t, <1>3, RefundEffect, CoveredFrame DEF OthersStay
<1>4. ASSUME NEW r \in Requests, PayBack(r) PROVE Covered'
  <2>1. \A q \in Requests :
          Computes(q)' \/ call'[q].step = "commit" => call'[q] = call[q]
    BY <1>4, PayBackEffect DEF OthersStay
  <2>2. UNCHANGED <<sales, rows, period>>
    BY <1>4, PayBackEffect
  <2> QED
    BY <1>t, <2>1, <2>2, CoveredFrame
<1>5. ASSUME NEW r \in Requests, RefundPurchase(r) PROVE Covered'
  <2>1. \A s \in Ledger :
          /\ sales'[s].item = sales[s].item
          /\ sales'[s].period = sales[s].period
          /\ sales'[s].charge = sales[s].charge
          /\ sales'[s].status = "active" => sales[s].status = "active"
    BY <1>5, RefundPurchaseEffect
  <2>2. Len(sales') = Len(sales) /\ UNCHANGED <<rows, period>>
    BY <1>5, RefundPurchaseEffect
  <2>3. \A q \in Requests :
          Computes(q)' \/ call'[q].step = "commit" => call'[q] = call[q]
    BY <1>5, RefundPurchaseEffect, IdleType DEF OthersStay
  <2> QED
    BY <1>t, <2>1, <2>2, <2>3, CoveredFrame
<1>6. ASSUME NEW r \in Requests, Fail(r) PROVE Covered'
  BY <1>t, <1>6, FailEffect, IdleType, CoveredFrame DEF OthersStay
<1>7. ASSUME NewMonth PROVE Covered'
  BY <1>t, <1>7, MonthEffect, CoveredFrame
<1>8. CASE UNCHANGED vars
  BY <1>t, <1>8, CoveredFrame DEF vars, money, payouts
<1> QED
  BY <1>1, <1>2, <1>3, <1>4, <1>5, <1>6, <1>7, <1>8, CoveredRecord, CoveredCommit, CoveredCompute,
     CoveredWipe, CoveredInsert, CoveredPayout, Zenon DEF Next

-----------------------------------------------------------------------------
(* Payments to authors. *)

\* While nobody was careless: one request computes a period, the rows of a period that
\* is computed are unpaid and share no sale with what is still to be inserted; no two
\* rows share a sale; and an author was paid only for the sales of a paid row, once.
PaidByRow ==
  ~careless =>
    /\ \A r, q \in Requests : Computes(r) /\ Computes(q) /\ r # q => call[r].id # call[q].id
    /\ \A r \in Requests, w \in rows :
         Computes(r) /\ w.period = call[r].id =>
           /\ w.status = "pending"
           /\ call[r].step = "insert" => \A s \in w.sold : s \notin call[r].sold
    /\ \A w, v \in rows : \A s \in w.sold : s \in v.sold => w = v
    /\ \A s \in Ledger :
         paidFor[s] = 0 \/ (paidFor[s] = 1 /\ \E w \in rows : w.status = "paid" /\ s \in w.sold)

\* The invariant bounds the payments.
LEMMA OnceFollows == PaidByRow => PaidForOnce
BY DEF PaidByRow, PaidForOnce, Ledger

\* The steps that leave the rows, the payments and the sums alone.
LEMMA PaidFrame ==
  ASSUME PaidByRow, Len(sales') = Len(sales), UNCHANGED <<rows, paidFor, careless>>,
         \A r \in Requests :
           Computes(r)' => /\ Computes(r)
                           /\ call'[r].id = call[r].id
                           /\ call'[r].sold = call[r].sold
                           /\ call'[r].step = call[r].step
  PROVE  PaidByRow'
<1> SUFFICES ASSUME ~careless' PROVE PaidByRow'
  BY DEF PaidByRow
<1>1. ~careless
  OBVIOUS
<1>2. \A r, q \in Requests : Computes(r)' /\ Computes(q)' /\ r # q => call'[r].id # call'[q].id
  BY <1>1 DEF PaidByRow
<1>3. \A r \in Requests, w \in rows' :
        Computes(r)' /\ w.period = call'[r].id =>
          /\ w.status = "pending"
          /\ call'[r].step = "insert" => \A s \in w.sold : s \notin call'[r].sold
  BY <1>1 DEF PaidByRow
<1>4. /\ \A w, v \in rows' : \A s \in w.sold : s \in v.sold => w = v
      /\ \A s \in Ledger' :
           \/ paidFor'[s] = 0
           \/ paidFor'[s] = 1 /\ \E w \in rows' : w.status = "paid" /\ s \in w.sold
  BY <1>1 DEF PaidByRow, Ledger
<1> QED
  BY <1>2, <1>3, <1>4 DEF PaidByRow

\* Nobody was paid for a new sale.
LEMMA PaidCommit ==
  ASSUME Valid, PaidByRow, NEW r \in Requests, CommitPurchase(r)
  PROVE  PaidByRow'
<1> SUFFICES ASSUME ~careless' PROVE PaidByRow'
  BY DEF PaidByRow
<1>1. PICK n \in Nat : n = Len(sales)
  BY CommitEffect
<1>2. /\ Len(sales') = n + 1 /\ call'[r].step = "idle" /\ OthersStay(r)
      /\ UNCHANGED <<rows, careless>>
      /\ \A s \in 1 .. n : paidFor'[s] = paidFor[s]
      /\ paidFor'[n + 1] = 0
  BY <1>1, CommitEffect, IdleType DEF Ledger
<1>3. \A q \in Requests : Computes(q)' => Computes(q) /\ call'[q] = call[q]
  BY <1>2 DEF Computes, OthersStay
<1>4. \A p, q \in Requests : Computes(p)' /\ Computes(q)' /\ p # q => call'[p].id # call'[q].id
  BY <1>2, <1>3 DEF PaidByRow
<1>5. \A q \in Requests, w \in rows' :
        Computes(q)' /\ w.period = call'[q].id =>
          /\ w.status = "pending"
          /\ call'[q].step = "insert" => \A s \in w.sold : s \notin call'[q].sold
  BY <1>2, <1>3 DEF PaidByRow
<1>6. \A w, v \in rows' : \A s \in w.sold : s \in v.sold => w = v
  BY <1>2 DEF PaidByRow
<1>7. ASSUME NEW s \in 1 .. n + 1
      PROVE  \/ paidFor'[s] = 0
             \/ paidFor'[s] = 1 /\ \E w \in rows' : w.status = "paid" /\ s \in w.sold
  <2>1. s = n + 1 \/ s \in 1 .. n
    OBVIOUS
  <2> QED
    BY <1>1, <1>2, <2>1 DEF PaidByRow, Ledger
<1>8. Ledger' = 1 .. n + 1
  BY <1>2 DEF Ledger
<1> QED
  BY <1>4, <1>5, <1>6, <1>7, <1>8 DEF PaidByRow

\* A careful run begins on a period without a paid row.
LEMMA PaidCompute ==
  ASSUME Valid, PaidByRow, NEW r \in Requests, NEW q \in 0 .. period, ComputeMonthlyPayouts(r, q)
  PROVE  PaidByRow'
<1> SUFFICES ASSUME ~careless' PROVE PaidByRow'
  BY DEF PaidByRow
<1>1. /\ call'[r].step = "wipe" /\ call'[r].id = q /\ OthersStay(r) /\ call[r].step = "idle"
      /\ UNCHANGED <<sales, rows, paidFor>>
  BY ComputeEffect
<1>2. ~careless /\ ~Computing(q) /\ \A w \in rows : w.period = q => w.status # "paid"
  BY ComputeEffect
<1>3. \A p \in Requests \ {r} : Computes(p)' => Computes(p) /\ call'[p] = call[p] /\ call[p].id # q
  BY <1>1, <1>2 DEF Computes, OthersStay, Computing
<1>4. \A w \in rows : w.period = q => w.status = "pending"
  BY <1>2 DEF Valid, TypeOK, Row
<1>5. \A p, x \in Requests : Computes(p)' /\ Computes(x)' /\ p # x => call'[p].id # call'[x].id
  BY <1>1, <1>2, <1>3 DEF PaidByRow
<1>6. \A p \in Requests, w \in rows' :
        Computes(p)' /\ w.period = call'[p].id =>
          /\ w.status = "pending"
          /\ call'[p].step = "insert" => \A s \in w.sold : s \notin call'[p].sold
  BY <1>1, <1>2, <1>3, <1>4 DEF PaidByRow
<1>7. /\ \A w, v \in rows' : \A s \in w.sold : s \in v.sold => w = v
      /\ \A s \in Ledger' :
           \/ paidFor'[s] = 0
           \/ paidFor'[s] = 1 /\ \E w \in rows' : w.status = "paid" /\ s \in w.sold
  BY <1>1, <1>2 DEF PaidByRow, Ledger
<1> QED
  BY <1>5, <1>6, <1>7 DEF PaidByRow

\* A careful run deletes no paid row.
LEMMA PaidWipe ==
  ASSUME Valid, PaidByRow, NEW r \in Requests, WipeRows(r)
  PROVE  PaidByRow'
<1> SUFFICES ASSUME ~careless' PROVE PaidByRow'
  BY DEF PaidByRow
<1>1. /\ call[r].step = "wipe" /\ OthersStay(r) /\ UNCHANGED <<sales, paidFor, careless>>
      /\ call'[r].step \in {"idle", "insert"}
      /\ call'[r].step = "insert" => call'[r].id = call[r].id /\ call'[r].sold = call[r].sold
      /\ rows' = {w \in rows : w.period # call[r].id}
  BY WipeEffect
<1>2. /\ Computes(r)
      /\ \A p \in Requests : Computes(p)' => Computes(p) /\ call'[p].id = call[p].id
      /\ \A p \in Requests \ {r} : call'[p] = call[p]
  BY <1>1 DEF Computes, OthersStay
<1>3. \A p, x \in Requests : Computes(p)' /\ Computes(x)' /\ p # x => call'[p].id # call'[x].id
  BY <1>1, <1>2 DEF PaidByRow
<1>4. ASSUME NEW p \in Requests, NEW w \in rows', Computes(p)', w.period = call'[p].id
      PROVE  /\ w.status = "pending"
             /\ call'[p].step = "insert" => \A s \in w.sold : s \notin call'[p].sold
  <2>1. p # r /\ w \in rows
    BY <1>1, <1>2, <1>4
  <2> QED
    BY <1>1, <1>2, <1>4, <2>1 DEF PaidByRow
<1>5. \A w, v \in rows' : \A s \in w.sold : s \in v.sold => w = v
  BY <1>1 DEF PaidByRow
<1>6. \A w \in rows : w.status = "paid" => w \in rows'
  BY <1>1, <1>2 DEF PaidByRow
<1>7. \A s \in Ledger' :
        \/ paidFor'[s] = 0
        \/ paidFor'[s] = 1 /\ \E w \in rows' : w.status = "paid" /\ s \in w.sold
  BY <1>1, <1>6 DEF PaidByRow, Ledger
<1> QED
  BY <1>3, <1>4, <1>5, <1>7 DEF PaidByRow

\* A careful run inserts rows for sales that nobody was paid for.
LEMMA PaidInsert ==
  ASSUME Valid, Covered, PaidByRow, NEW r \in Requests, NEW a \in Authors, InsertRow(r, a)
  PROVE  PaidByRow'
<1> SUFFICES ASSUME ~careless' PROVE PaidByRow'
  BY DEF PaidByRow
<1> DEFINE c == call[r]
<1>1. /\ c.step = "insert" /\ OthersStay(r) /\ UNCHANGED <<sales, paidFor, careless>>
      /\ call'[r].step \in {"idle", "insert"}
      /\ call'[r].step = "insert" => /\ call'[r].id = c.id
                                     /\ call'[r].sold = c.sold \ By(a, c.sold)
  BY InsertEffect
<1>2. PICK w \in Row : /\ rows' = rows \cup {w} /\ w.period = c.id
                       /\ w.sold = By(a, c.sold) /\ w.status = "pending"
  BY InsertEffect
<1>3. \A s \in w.sold : s \in c.sold
  BY <1>2 DEF By
<1>4. /\ Computes(r)
      /\ \A p \in Requests : Computes(p)' => Computes(p) /\ call'[p].id = call[p].id
      /\ \A p \in Requests \ {r} : call'[p] = call[p]
  BY <1>1 DEF Computes, OthersStay
<1>5. \A p, x \in Requests : Computes(p)' /\ Computes(x)' /\ p # x => call'[p].id # call'[x].id
  BY <1>1, <1>4 DEF PaidByRow
<1>6. ASSUME NEW p \in Requests, NEW v \in rows', Computes(p)', v.period = call'[p].id
      PROVE  /\ v.status = "pending"
             /\ call'[p].step = "insert" => \A s \in v.sold : s \notin call'[p].sold
  <2>1. CASE v = w
    <3>1. p = r
      BY <1>1, <1>2, <1>4, <1>6, <2>1 DEF PaidByRow
    <3> QED
      BY <1>1, <1>2, <2>1, <3>1
  <2>2. CASE v \in rows
    <3>1. v.status = "pending" /\ (call[p].step = "insert" => \A s \in v.sold : s \notin call[p].sold)
      BY <1>1, <1>4, <1>6, <2>2 DEF PaidByRow
    <3> QED
      BY <1>1, <1>4, <3>1
  <2> QED
    BY <1>2, <2>1, <2>2
<1>7. \A v \in rows : \A s \in v.sold : s \notin w.sold
  <2> SUFFICES ASSUME NEW v \in rows, NEW s \in v.sold, s \in w.sold PROVE FALSE
    OBVIOUS
  <2>1. s \in c.sold /\ sales[s].period = c.id /\ sales[s].period = v.period
    BY <1>3, <1>4 DEF Covered, PeriodsMatch
  <2> QED
    BY <1>1, <1>4, <2>1 DEF PaidByRow
<1>8. \A v, x \in rows' : \A s \in v.sold : s \in x.sold => v = x
  BY <1>1, <1>2, <1>7 DEF PaidByRow
<1>9. \A s \in Ledger' :
        \/ paidFor'[s] = 0
        \/ paidFor'[s] = 1 /\ \E v \in rows' : v.status = "paid" /\ s \in v.sold
  BY <1>1, <1>2 DEF PaidByRow, Ledger
<1> QED
  BY <1>5, <1>6, <1>8, <1>9 DEF PaidByRow

\* A careful payment is the first for its row's sales.
LEMMA PaidPayout ==
  ASSUME Valid, PaidByRow, NEW w \in rows, MarkPayoutPaid(w)
  PROVE  PaidByRow'
<1> SUFFICES ASSUME ~careless' PROVE PaidByRow'
  BY DEF PaidByRow
<1>1. PICK v \in Row : /\ rows' = (rows \ {w}) \cup {v} /\ v.period = w.period
                       /\ v.sold = w.sold /\ v.status = "paid"
  BY PayoutEffect
<1>2. /\ UNCHANGED <<call, sales>>
      /\ \A s \in Ledger : paidFor'[s] = IF s \in w.sold THEN paidFor[s] + 1 ELSE paidFor[s]
      /\ ~careless /\ w.status # "paid" /\ ~Computing(w.period)
  BY PayoutEffect
<1>3. \A p \in Requests : Computes(p) => call[p].id # w.period
  BY <1>2 DEF Computing, Computes
<1>4. \A p, x \in Requests : Computes(p)' /\ Computes(x)' /\ p # x => call'[p].id # call'[x].id
  BY <1>2 DEF PaidByRow, Computes
<1>5. \A p \in Requests, x \in rows' :
        Computes(p)' /\ x.period = call'[p].id =>
          /\ x.status = "pending"
          /\ call'[p].step = "insert" => \A s \in x.sold : s \notin call'[p].sold
  BY <1>1, <1>2, <1>3 DEF PaidByRow, Computes
<1>6. \A x, y \in rows' : \A s \in x.sold : s \in y.sold => x = y
  BY <1>1, <1>2 DEF PaidByRow
<1>7. ASSUME NEW s \in Ledger
      PROVE  \/ paidFor'[s] = 0
             \/ paidFor'[s] = 1 /\ \E x \in rows' : x.status = "paid" /\ s \in x.sold
  <2>1. \/ paidFor[s] = 0
        \/ paidFor[s] = 1 /\ \E x \in rows : x.status = "paid" /\ s \in x.sold
    BY <1>2 DEF PaidByRow
  <2>2. CASE s \in w.sold
    <3>1. \A x \in rows : s \in x.sold => x = w
      BY <1>2, <2>2 DEF PaidByRow
    <3>2. paidFor[s] = 0
      BY <1>2, <2>1, <3>1
    <3> QED
      BY <1>1, <1>2, <2>2, <3>2
  <2>3. CASE s \notin w.sold
    BY <1>1, <1>2, <2>1, <2>3
  <2> QED
    BY <2>2, <2>3
<1> QED
  BY <1>2, <1>4, <1>5, <1>6, <1>7 DEF PaidByRow, Ledger

\* Every step keeps a payment tied to its paid row.
LEMMA PaidStep == Valid /\ Covered /\ PaidByRow /\ [Next]_vars => PaidByRow'
<1> SUFFICES ASSUME Valid, Covered, PaidByRow, [Next]_vars PROVE PaidByRow'
  OBVIOUS
<1> USE DEF Computes
<1>1. ASSUME NEW r \in Requests, NEW i \in Items, Buy(r, i) PROVE PaidByRow'
  BY <1>1, BuyEffect, PaidFrame DEF OthersStay
<1>2. ASSUME NEW r \in Requests, Charge(r) PROVE PaidByRow'
  BY <1>2, ChargeEffect, PaidFrame DEF OthersStay
<1>3. ASSUME NEW r \in Requests, NEW s \in Ledger, Refund(r, s) PROVE PaidByRow'
  BY <1>3, RefundEffect, PaidFrame DEF OthersStay
<1>4. ASSUME NEW r \in Requests, PayBack(r) PROVE PaidByRow'
  BY <1>4, PayBackEffect, PaidFrame DEF OthersStay
<1>5. ASSUME NEW r \in Requests, RefundPurchase(r) PROVE PaidByRow'
  BY <1>5, RefundPurchaseEffect, IdleType, PaidFrame DEF OthersStay
<1>6. ASSUME NEW r \in Requests, Fail(r) PROVE PaidByRow'
  BY <1>6, FailEffect, IdleType, PaidFrame DEF OthersStay
<1>7. ASSUME NewMonth PROVE PaidByRow'
  BY <1>7, MonthEffect, PaidFrame
<1>9. ASSUME NEW r \in Requests, RecordPurchase(r) PROVE PaidByRow'
  BY <1>9, RecordEffect, PaidFrame DEF OthersStay
<1>8. CASE UNCHANGED vars
  BY <1>8, PaidFrame DEF vars, money, payouts
<1> QED
  BY <1>1, <1>2, <1>3, <1>4, <1>5, <1>6, <1>7, <1>8, <1>9, PaidCommit, PaidCompute, PaidWipe,
     PaidInsert, PaidPayout, Zenon DEF Next, Ledger

-----------------------------------------------------------------------------

\* The inductive invariant.
IInv == Valid /\ Charged /\ Refunded /\ Covered /\ PaidByRow

\* The inductive invariant holds at first.
LEMMA IInvInit == Init => IInv
<1> SUFFICES ASSUME Init PROVE IInv
  OBVIOUS
<1>1. Valid
  BY ValidInit
<1>2. /\ call = [r \in Requests |-> Idle] /\ charges = <<>> /\ sales = <<>> /\ rows = {}
      /\ torn = {} /\ paidFor = <<>>
  BY DEF Init
<1>3. \A r \in Requests : call[r].step = "idle"
  BY <1>2, IdleType
<1>4. Len(charges) = 0 /\ Len(sales) = 0 /\ Ledger = {}
  BY <1>2 DEF Ledger
<1>5. Charged
  BY <1>3, <1>4 DEF Charged, ChargesBecomeSales, PendingFresh, Recording
<1>6. Refunded
  BY <1>3, <1>4 DEF Refunded, FreshUnpaid, OneRefund, PaidBackOnce
<1>7. Covered
  BY <1>2, <1>3, <1>4 DEF Covered, PeriodsMatch, CallsCover, LateUnseen, ClosedRowsCover, Computes
<1>8. PaidByRow
  BY <1>2, <1>3, <1>4 DEF PaidByRow, Computes
<1> QED
  BY <1>1, <1>5, <1>6, <1>7, <1>8 DEF IInv

\* Every step keeps the inductive invariant.
LEMMA IInvStep == IInv /\ [Next]_vars => IInv'
BY ValidStep, ChargedStep, RefundedStep, CoveredStep, PaidStep DEF IInv

\* The inductive invariant holds throughout.
LEMMA IInvHolds == Spec => []IInv
BY IInvInit, IInvStep, PTL DEF Spec

\* Every record and every request stays within its type and refers to what exists.
THEOREM TypeCorrect == Spec => []TypeOK
<1>1. IInv => TypeOK
  BY DEF IInv, Valid
<1> QED
  BY <1>1, IInvHolds, PTL

\* However requests interleave and die, a charge becomes one sale, of its item, unless
\* its request died between the provider's answer and the insert.
THEOREM ChargesTurnIntoSales == Spec => []ChargesBecomeSales
<1>1. IInv => ChargesBecomeSales
  BY DEF IInv, Charged
<1> QED
  BY <1>1, IInvHolds, PTL

\* A sale is paid back once, unless two refunds of it overlap or one dies after the
\* provider has paid.
THEOREM RefundsPayOnce == Spec => []PaidBackOnce
<1>1. IInv => PaidBackOnce
  BY DEF IInv, Refunded
<1> QED
  BY <1>1, IInvHolds, PTL

\* The rows of a period that was over count every sale of their author that stands and
\* was not being inserted while the sum was read.
THEOREM ClosedPeriodsCovered == Spec => []ClosedRowsCover
<1>1. IInv => ClosedRowsCover
  BY DEF IInv, Covered
<1> QED
  BY <1>1, IInvHolds, PTL

\* An author is paid once for a sale by operators who do not pay or compute a paid
\* period again, nor compute and pay one period at once.
THEOREM AuthorsPaidOnce == Spec => []PaidForOnce
<1>1. IInv => PaidForOnce
  BY OnceFollows DEF IInv
<1> QED
  BY <1>1, IInvHolds, PTL
=============================================================================
