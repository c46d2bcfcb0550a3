------------------------- MODULE SpinSessionProofs --------------------------
(***************************************************************************)
(* For any players, sessions, policies and amounts: the stores keep their  *)
(* types (no balance is negative), every statement adds up, the spins of   *)
(* the session route keep the policy and end at the loss limit, and the    *)
(* sessions, the audit chains and the statements tell one story.           *)
(***************************************************************************)
EXTENDS SpinSession, SumFacts, FiniteSetTheorems, SequenceTheorems, TLAPS

USE SessionAssumption

-----------------------------------------------------------------------------
(* Types *)

\* A GaaS bet rounds to a number of minor units.
LEMMA RoundedTyped == ASSUME NEW betAmount \in Nat PROVE Rounded(betAmount) \in Nat
<1> DEFINE n == 2 * betAmount + PerMinor
           unit == 2 * PerMinor
<1>1. n \in Nat /\ unit \in Nat /\ unit > 0
  OBVIOUS
<1> HIDE DEF n, unit
<1>2. n \div unit \in Nat
  BY <1>1
<1> QED
  BY <1>2 DEF Rounded, n, unit

\* Every entry stands for a stake of minor units.
LEMMA StakedTyped == \A e \in AuditEntry : Staked(e) \in Nat
<1>1. ASSUME NEW e \in AuditEntry PROVE Staked(e) \in Nat
  <2>1. PICK bet \in Nat : bet = e.bet
    BY DEF AuditEntry
  <2>2. Rounded(bet) \in Nat
    BY RoundedTyped
  <2> QED
    BY <2>1, <2>2 DEF Staked
<1> QED
  BY <1>1

\* An entry of this moment is an audit entry.
LEMMA EntryTyped ==
  ASSUME now \in Nat, NEW type, NEW round \in Nat, NEW bet \in Nat, NEW win \in Nat,
         type \in {"session.created", "session.closed", "spin", "gaas.spin",
                   "wallet.deposit", "wallet.withdraw"}
  PROVE  [type |-> type, round |-> round, bet |-> bet, win |-> win, at |-> now] \in AuditEntry
BY DEF AuditEntry

\* Appending to a chain keeps the chains' type.
LEMMA ChainsTyped ==
  ASSUME audit \in [Sessions -> Seq(AuditEntry)], NEW s \in Sessions, now \in Nat,
         NEW type, NEW round \in Nat, NEW bet \in Nat, NEW win \in Nat,
         type \in {"session.created", "session.closed", "spin", "gaas.spin",
                   "wallet.deposit", "wallet.withdraw"},
         audit' = Appended(s, type, round, bet, win)
  PROVE  audit' \in [Sessions -> Seq(AuditEntry)]
<1> DEFINE e == [type |-> type, round |-> round, bet |-> bet, win |-> win, at |-> now]
<1>1. e \in AuditEntry
  BY EntryTyped
<1>2. audit' = [audit EXCEPT ![s] = Append(audit[s], e)]
  BY DEF Appended
<1> HIDE DEF e
<1> QED
  BY <1>1, <1>2

\* A transaction of an amount and a balance is one of a statement.
LEMMA TxTyped ==
  ASSUME NEW kind \in {"deposit", "withdraw", "wager", "win"}, NEW amount \in Nat,
         NEW status \in {"approved", "pending", "declined"}, NEW after \in Nat
  PROVE  /\ Tx(kind, amount, status, after) \in Transaction
         /\ Tx(kind, amount, status, after).kind = kind
         /\ Tx(kind, amount, status, after).amount = amount
         /\ Tx(kind, amount, status, after).status = status
         /\ Tx(kind, amount, status, after).balanceAfter = after
BY DEF Tx, Transaction

\* recordSpin keeps a session's type, and moves no field but its own.
LEMMA RecordTyped ==
  ASSUME TypeOK, NEW s \in Sessions, Created(s), NEW bet \in Nat, NEW win \in Nat
  PROVE  /\ RecordSpin(s, bet, win) \in Session
         /\ RecordSpin(s, bet, win).expiresAt = session[s].expiresAt
         /\ RecordSpin(s, bet, win).closed = session[s].closed
         /\ RecordSpin(s, bet, win).lastSpinAt = now
<1>1. session[s] \in Session
  BY DEF TypeOK, Created
<1>2. /\ session[s].totalSpins \in Nat
      /\ session[s].totalWagered \in Nat
      /\ session[s].totalWon \in Nat
      /\ now \in Nat
  BY <1>1 DEF Session, TypeOK
<1> DEFINE flag == session[s].lossLimitReached
       \/ (Policy[s].limit > 0
           /\ (session[s].totalWagered + bet) - (session[s].totalWon + win) >= Policy[s].limit)
<1>3. flag \in BOOLEAN
  BY <1>1 DEF Session
<1>4. RecordSpin(s, bet, win) =
        [session[s] EXCEPT !.totalSpins = session[s].totalSpins + 1,
                           !.totalWagered = session[s].totalWagered + bet,
                           !.totalWon = session[s].totalWon + win,
                           !.lastSpinAt = now,
                           !.lossLimitReached = flag]
  BY DEF RecordSpin
<1> DEFINE spins == session[s].totalSpins + 1
           wagered == session[s].totalWagered + bet
           won == session[s].totalWon + win
<1>5. spins \in Nat /\ wagered \in Nat /\ won \in Nat
  BY <1>2
<1>6. RecordSpin(s, bet, win) =
        [session[s] EXCEPT !.totalSpins = spins, !.totalWagered = wagered, !.totalWon = won,
                           !.lastSpinAt = now, !.lossLimitReached = flag]
  BY <1>4
<1> HIDE DEF flag, spins, wagered, won
<1> DEFINE counted == [session[s] EXCEPT !.totalSpins = spins, !.totalWagered = wagered]
           stamped == [counted EXCEPT !.totalWon = won, !.lastSpinAt = now]
<1>7. /\ counted \in Session
      /\ counted.expiresAt = session[s].expiresAt /\ counted.closed = session[s].closed
  BY <1>1, <1>5 DEF Session
<1>8. RecordSpin(s, bet, win) = [stamped EXCEPT !.lossLimitReached = flag]
  BY <1>6
<1> HIDE DEF counted
<1>9. /\ stamped \in Session /\ stamped.lastSpinAt = now
      /\ stamped.expiresAt = counted.expiresAt /\ stamped.closed = counted.closed
  BY <1>2, <1>5, <1>7 DEF Session
<1> HIDE DEF stamped
<1> QED
  BY <1>3, <1>7, <1>8, <1>9 DEF Session

\* A spin's statement: its wager, and its win if there is one, each line with its
\* effect on the balance.
IsSpinStatement(p, bet, win, w, c) ==
  /\ w.balanceAfter = balance[p] - bet
  /\ w.kind = "wager" /\ w.amount = bet
  /\ c.kind = "win" /\ c.amount = win
  /\ Effect(w) = -bet
  /\ win > 0 => /\ WagerAndCredit(p, bet, win) = Append(Append(statement[p], w), c)
                /\ c.balanceAfter = (balance[p] - bet) + win
                /\ Effect(c) = win
  /\ win = 0 => WagerAndCredit(p, bet, win) = Append(statement[p], w)

\* WagerAndCredit writes such a statement.
LEMMA SpinLines ==
  ASSUME TypeOK, NEW p \in Players, NEW bet \in Nat, NEW win \in Nat, bet <= balance[p]
  PROVE  \E w \in Transaction, c \in Transaction : IsSpinStatement(p, bet, win, w, c)
<1> DEFINE w == Tx("wager", bet, "approved", balance[p] - bet)
           c == Tx("win", win, "approved", (balance[p] - bet) + win)
<1>1. /\ balance[p] \in Nat
      /\ balance[p] - bet \in Nat
      /\ (balance[p] - bet) + win \in Nat
      /\ statement[p] \in Seq(Transaction)
  BY DEF TypeOK
<1>2. /\ w \in Transaction /\ w.balanceAfter = balance[p] - bet
      /\ w.kind = "wager" /\ w.amount = bet /\ w.status = "approved"
  <2> DEFINE after == balance[p] - bet
  <2>1. after \in Nat
    BY <1>1
  <2> HIDE DEF after
  <2>2. LET x == Tx("wager", bet, "approved", after)
        IN  x \in Transaction /\ x.balanceAfter = after
            /\ x.kind = "wager" /\ x.amount = bet /\ x.status = "approved"
    BY <2>1, TxTyped
  <2> QED
    BY <2>2 DEF after
<1>3. /\ c \in Transaction /\ c.balanceAfter = (balance[p] - bet) + win
      /\ c.kind = "win" /\ c.amount = win /\ c.status = "approved"
  <2> DEFINE after == (balance[p] - bet) + win
  <2>1. after \in Nat
    BY <1>1
  <2> HIDE DEF after
  <2>2. LET x == Tx("win", win, "approved", after)
        IN  x \in Transaction /\ x.balanceAfter = after
            /\ x.kind = "win" /\ x.amount = win /\ x.status = "approved"
    BY <2>1, TxTyped
  <2> QED
    BY <2>2 DEF after
<1>4. Effect(w) = -bet /\ Effect(c) = win
  <2> HIDE DEF w, c
  <2>1. Effect(w) = -bet
    BY <1>2 DEF Effect
  <2>2. Effect(c) = win
    BY <1>3 DEF Effect
  <2> QED
    BY <2>1, <2>2
<1>5. WagerAndCredit(p, bet, win) =
        IF win > 0 THEN Append(Append(statement[p], w), c) ELSE Append(statement[p], w)
  BY DEF WagerAndCredit
<1> HIDE DEF w, c
<1>6. IsSpinStatement(p, bet, win, w, c)
  BY <1>2, <1>3, <1>4, <1>5 DEF IsSpinStatement
<1> QED
  BY <1>2, <1>3, <1>6

\* A spin keeps the types of all stores.
LEMMA PlaySpinTyped ==
  ASSUME TypeOK, NEW s \in Sessions, Created(s), NEW type \in SpinTypes,
         NEW bet \in Nat, NEW shown \in Nat, NEW win \in Wins,
         PlaySpin(s, type, bet, shown, win)
  PROVE  TypeOK'
<1> DEFINE p == PlayerOf[s]
<1>1. /\ p \in Players /\ win \in Nat
      /\ bet <= balance[p] /\ balance[p] \in Nat
      /\ balance' = [balance EXCEPT ![p] = (balance[p] - bet) + win]
      /\ statement' = [statement EXCEPT ![p] = WagerAndCredit(p, bet, win)]
  BY DEF PlaySpin, TypeOK
<1>2. now' \in Nat /\ requests' \in Nat
  BY DEF PlaySpin, Served, TypeOK
<1>3. session' \in [Sessions -> Session \cup {NoSession}]
  <2>1. RecordSpin(s, bet, win) \in Session
    BY <1>1, RecordTyped
  <2>2. session' = [session EXCEPT ![s] = RecordSpin(s, bet, win)]
    BY DEF PlaySpin
  <2> QED
    BY <2>1, <2>2 DEF TypeOK
<1>4. balance' \in [Players -> Nat]
  <2>1. (balance[p] - bet) + win \in Nat
    BY <1>1
  <2> QED
    BY <1>1, <2>1 DEF TypeOK
<1> HIDE DEF p
<1>5. statement' \in [Players -> Seq(Transaction)]
  <2>1. WagerAndCredit(p, bet, win) \in Seq(Transaction)
    <3>0. statement[p] \in Seq(Transaction)
      BY <1>1 DEF TypeOK
    <3>1. PICK w \in Transaction, c \in Transaction : IsSpinStatement(p, bet, win, w, c)
      BY <1>1, SpinLines
    <3>2. Append(statement[p], w) \in Seq(Transaction)
      BY <3>0
    <3>3. Append(Append(statement[p], w), c) \in Seq(Transaction)
      BY <3>2
    <3>4. win = 0 \/ win > 0
      BY <1>1
    <3> QED
      BY <3>1, <3>2, <3>3, <3>4, Zenon DEF IsSpinStatement
  <2> QED
    BY <1>1, <2>1 DEF TypeOK
<1>6. audit' \in [Sessions -> Seq(AuditEntry)]
  <2>1. session[s] \in Session
    BY DEF TypeOK, Created
  <2>2. session[s].totalSpins + 1 \in Nat
    BY <2>1 DEF Session
  <2>3. audit' = Appended(s, type, session[s].totalSpins + 1, shown, win)
    BY DEF PlaySpin
  <2>4. type \in {"session.created", "session.closed", "spin", "gaas.spin",
                  "wallet.deposit", "wallet.withdraw"}
    BY DEF SpinTypes
  <2> DEFINE round == session[s].totalSpins + 1
  <2>5. round \in Nat /\ audit' = Appended(s, type, round, shown, win)
    BY <2>2, <2>3
  <2> HIDE DEF round
  <2> QED
    BY <1>1, <2>4, <2>5, ChainsTyped DEF TypeOK
<1> QED
  BY <1>2, <1>3, <1>4, <1>5, <1>6 DEF TypeOK

\* An audited deposit or withdrawal, or one that is not audited, keeps the
\* chains' type.
LEMMA AuditOnTyped ==
  ASSUME TypeOK, NEW chain \in Sessions \cup {NoSession}, NEW n \in Nat,
         NEW type \in {"wallet.deposit", "wallet.withdraw"}, AuditOn(chain, type, n)
  PROVE  audit' \in [Sessions -> Seq(AuditEntry)]
<1>1. CASE chain = NoSession /\ UNCHANGED audit
  BY <1>1 DEF TypeOK
<1>2. CASE chain # NoSession /\ audit' = Appended(chain, type, 0, n, 0)
  BY <1>2, ChainsTyped DEF TypeOK
<1> QED
  BY <1>1, <1>2 DEF AuditOn

\* A deposit's status and the balance it leaves.
LEMMA DepositLine ==
  ASSUME TypeOK, NEW p \in Players, NEW n \in Amounts, NEW chain, Deposit(p, n, chain)
  PROVE  \E tx \in Transaction, after \in Nat :
           /\ balance' = [balance EXCEPT ![p] = after]
           /\ statement' = [statement EXCEPT ![p] = Append(statement[p], tx)]
           /\ tx.balanceAfter = after
           /\ tx.kind = "deposit"
           /\ after = balance[p] + Effect(tx)
<1> DEFINE approved == n < ReviewThreshold
           status == IF approved THEN "approved" ELSE "pending"
           after == IF approved THEN balance[p] + n ELSE balance[p]
           tx == Tx("deposit", n, status, after)
<1>1. n \in Nat /\ balance[p] \in Nat /\ after \in Nat
  BY DEF TypeOK
<1>2. status \in {"approved", "pending"}
  OBVIOUS
<1>3. balance' = [balance EXCEPT ![p] = after]
      /\ statement' = [statement EXCEPT ![p] = Append(statement[p], tx)]
  BY DEF Deposit
<1>4. after = balance[p] + (IF status = "approved" THEN n ELSE 0)
  BY <1>1
<1> HIDE DEF status, after
<1>5. /\ tx \in Transaction /\ tx.balanceAfter = after
      /\ tx.kind = "deposit" /\ tx.amount = n /\ tx.status = status
  BY <1>1, <1>2, TxTyped
<1> HIDE DEF tx
<1>6. Effect(tx) = IF status = "approved" THEN n ELSE 0
  BY <1>2, <1>5 DEF Effect
<1> QED
  BY <1>1, <1>3, <1>4, <1>5, <1>6

\* A withdrawal's status and the balance it leaves.
LEMMA WithdrawLine ==
  ASSUME TypeOK, NEW p \in Players, NEW n \in Amounts, NEW chain, Withdraw(p, n, chain)
  PROVE  \E tx \in Transaction, after \in Nat :
           /\ balance' = [balance EXCEPT ![p] = after]
           /\ statement' = [statement EXCEPT ![p] = Append(statement[p], tx)]
           /\ tx.balanceAfter = after
           /\ tx.kind = "withdraw"
           /\ after = balance[p] + Effect(tx)
<1> DEFINE status == WithdrawStatus(p, n)
           after == IF status = "approved" THEN balance[p] - n ELSE balance[p]
           tx == Tx("withdraw", n, status, after)
<1>1. n \in Nat /\ balance[p] \in Nat
  BY DEF TypeOK
<1>2. /\ status \in {"approved", "pending", "declined"}
      /\ status = "approved" => n <= balance[p]
  BY <1>1 DEF WithdrawStatus
<1>3. balance' = [balance EXCEPT ![p] = after]
      /\ statement' = [statement EXCEPT ![p] = Append(statement[p], tx)]
  BY DEF Withdraw
<1> HIDE DEF status
<1>4. /\ after \in Nat
      /\ after = balance[p] + (IF status = "approved" THEN -n ELSE 0)
  BY <1>1, <1>2
<1> HIDE DEF after
<1>5. /\ tx \in Transaction /\ tx.balanceAfter = after
      /\ tx.kind = "withdraw" /\ tx.amount = n /\ tx.status = status
  BY <1>1, <1>2, <1>4, TxTyped
<1> HIDE DEF tx
<1>6. Effect(tx) = IF status = "approved" THEN -n ELSE 0
  BY <1>2, <1>5 DEF Effect
<1> QED
  BY <1>3, <1>4, <1>5, <1>6

\* A line of a statement keeps the types of the wallet.
LEMMA LineTyped ==
  ASSUME TypeOK, NEW p \in Players, NEW tx \in Transaction, NEW after \in Nat,
         balance' = [balance EXCEPT ![p] = after],
         statement' = [statement EXCEPT ![p] = Append(statement[p], tx)]
  PROVE  balance' \in [Players -> Nat] /\ statement' \in [Players -> Seq(Transaction)]
<1>1. Append(statement[p], tx) \in Seq(Transaction)
  BY DEF TypeOK
<1> QED
  BY <1>1 DEF TypeOK

\* Init and every step keep the types; in particular no balance is negative.
LEMMA TypeStep == TypeOK /\ [Next]_vars => TypeOK'
<1> SUFFICES ASSUME TypeOK, [Next]_vars PROVE TypeOK'
  OBVIOUS
<1>1. ASSUME NEW s \in Sessions, Create(s) PROVE TypeOK'
  <2> DEFINE new == [expiresAt |-> now + Policy[s].timeout, lastSpinAt |-> Never,
        totalSpins |-> 0, totalWagered |-> 0, totalWon |-> 0,
        lossLimitReached |-> FALSE, closed |-> FALSE]
  <2>1. new \in Session
    <3>1. now + Policy[s].timeout \in Nat
      BY DEF TypeOK
    <3> QED
      BY <3>1 DEF Session
  <2>2. session' = [session EXCEPT ![s] = new]
    BY <1>1 DEF Create
  <2> HIDE DEF new
  <2>3. session' \in [Sessions -> Session \cup {NoSession}]
    BY <2>1, <2>2 DEF TypeOK
  <2>4. audit' = Appended(s, "session.created", 0, 0, 0)
    BY <1>1 DEF Create
  <2>5. audit' \in [Sessions -> Seq(AuditEntry)]
    BY <2>4, ChainsTyped DEF TypeOK
  <2>6. UNCHANGED <<now, balance, statement>> /\ requests' = requests + 1
    BY <1>1 DEF Create, Served
  <2> QED
    BY <2>3, <2>5, <2>6 DEF TypeOK
<1>2. ASSUME NEW s \in Sessions, Close(s) PROVE TypeOK'
  <2>1. session[s] \in Session
    BY <1>2 DEF Close, Created, TypeOK
  <2> DEFINE ended == [session[s] EXCEPT !.closed = TRUE]
  <2>2. ended \in Session
    BY <2>1 DEF Session
  <2>a. session' = [session EXCEPT ![s] = ended]
    BY <1>2 DEF Close
  <2> HIDE DEF ended
  <2>3. session' \in [Sessions -> Session \cup {NoSession}]
    BY <2>2, <2>a DEF TypeOK
  <2>4. audit' = Appended(s, "session.closed", 0, 0, 0)
    BY <1>2 DEF Close
  <2>5. audit' \in [Sessions -> Seq(AuditEntry)]
    BY <2>4, ChainsTyped DEF TypeOK
  <2>6. UNCHANGED <<now, balance, statement>> /\ requests' = requests + 1
    BY <1>2 DEF Close, Served
  <2> QED
    BY <2>3, <2>5, <2>6 DEF TypeOK
<1>3. ASSUME NEW s \in Sessions, NEW bet \in Bets, NEW win \in Wins, NEW autoplay \in BOOLEAN,
             Spin(s, autoplay, bet, win)
      PROVE  TypeOK'
  <2>1. Created(s) /\ PlaySpin(s, "spin", bet, bet, win)
    BY <1>3 DEF Spin
  <2> QED
    BY <2>1, PlaySpinTyped DEF SpinTypes
<1>4. ASSUME NEW s \in Sessions, NEW betAmount \in GaasBets, NEW win \in Wins,
             GaasSpin(s, betAmount, win)
      PROVE  TypeOK'
  <2>1. PICK bet \in Nat : bet = Rounded(betAmount)
    BY RoundedTyped
  <2>2. betAmount \in Nat /\ Created(s) /\ PlaySpin(s, "gaas.spin", bet, betAmount, win)
    BY <1>4, <2>1 DEF GaasSpin
  <2> QED
    BY <2>2, PlaySpinTyped DEF SpinTypes
<1>5. ASSUME NEW p \in Players, NEW n \in Amounts, NEW chain \in Sessions \cup {NoSession},
             Deposit(p, n, chain)
      PROVE  TypeOK'
  <2>1. balance' \in [Players -> Nat] /\ statement' \in [Players -> Seq(Transaction)]
    BY <1>5, DepositLine, LineTyped
  <2>2. audit' \in [Sessions -> Seq(AuditEntry)]
    BY <1>5, AuditOnTyped DEF Deposit
  <2> QED
    BY <1>5, <2>1, <2>2 DEF TypeOK, Deposit, Served
<1>6. ASSUME NEW p \in Players, NEW n \in Amounts, NEW chain \in Sessions \cup {NoSession},
             Withdraw(p, n, chain)
      PROVE  TypeOK'
  <2>1. balance' \in [Players -> Nat] /\ statement' \in [Players -> Seq(Transaction)]
    BY <1>6, WithdrawLine, LineTyped
  <2>2. audit' \in [Sessions -> Seq(AuditEntry)]
    BY <1>6, AuditOnTyped DEF Withdraw
  <2> QED
    BY <1>6, <2>1, <2>2 DEF TypeOK, Withdraw, Served
<1>7. ASSUME Tick PROVE TypeOK'
  BY <1>7 DEF Tick, TypeOK
<1>8. ASSUME UNCHANGED vars PROVE TypeOK'
  BY <1>8 DEF vars, TypeOK
<1> QED
  BY <1>1, <1>2, <1>3, <1>4, <1>5, <1>6, <1>7, <1>8 DEF Next, SpinNext

\* The stores keep their types: no player's balance is ever negative, whatever
\* both spin paths, deposits and withdrawals do.
THEOREM TypeCorrect == Spec => []TypeOK
<1>1. Init => TypeOK
  BY DEF Init, TypeOK
<1> QED
  BY <1>1, TypeStep, PTL DEF Spec

-----------------------------------------------------------------------------
(* Statements *)

\* One player's part of StatementAddsUp: the lines lead from the starting
\* balance to b.
AddsUp(lines, b) ==
  /\ \A i \in 1 .. Len(lines) :
       lines[i].balanceAfter =
         (IF i = 1 THEN StartingBalance ELSE lines[i - 1].balanceAfter) + Effect(lines[i])
  /\ b = IF lines = <<>> THEN StartingBalance ELSE lines[Len(lines)].balanceAfter

\* A further line that starts from b keeps the statement adding up.
LEMMA LineAddsUp ==
  ASSUME NEW lines \in Seq(Transaction), NEW b \in Nat, AddsUp(lines, b),
         NEW tx \in Transaction, tx.balanceAfter = b + Effect(tx)
  PROVE  AddsUp(Append(lines, tx), tx.balanceAfter)
<1> DEFINE more == Append(lines, tx)
           n == Len(lines)
<1>1. /\ n \in Nat /\ Len(more) = n + 1 /\ more[n + 1] = tx
      /\ \A i \in 1 .. n : more[i] = lines[i]
      /\ more # <<>>
      /\ lines = <<>> <=> n = 0
  <2>1. n \in Nat /\ (lines = <<>> <=> n = 0)
    BY EmptySeq
  <2>2. /\ Len(more) = n + 1 /\ more[n + 1] = tx
        /\ \A i \in 1 .. n : more[i] = lines[i]
    BY AppendProperties
  <2>3. more # <<>>
    BY <2>1, <2>2, EmptySeq
  <2> QED
    BY <2>1, <2>2, <2>3
<1>2. ASSUME NEW i \in 1 .. n + 1
      PROVE  more[i].balanceAfter =
               (IF i = 1 THEN StartingBalance ELSE more[i - 1].balanceAfter) + Effect(more[i])
  <2>1. CASE i \in 1 .. n
    <3>1. more[i] = lines[i] /\ (i # 1 => more[i - 1] = lines[i - 1])
      BY <1>1, <2>1
    <3>2. lines[i].balanceAfter =
            (IF i = 1 THEN StartingBalance ELSE lines[i - 1].balanceAfter) + Effect(lines[i])
      BY <2>1 DEF AddsUp
    <3> HIDE DEF more
    <3> QED
      BY <3>1, <3>2
  <2>2. CASE i = n + 1
    <3>1. more[i] = tx /\ (i # 1 => more[i - 1] = lines[n])
      BY <1>1, <2>2
    <3>2. b = IF i = 1 THEN StartingBalance ELSE lines[n].balanceAfter
      BY <1>1, <2>2 DEF AddsUp
    <3> HIDE DEF more
    <3> QED
      BY <3>1, <3>2
  <2>3. i \in 1 .. n \/ i = n + 1
    <3>1. n \in Nat
      BY <1>1
    <3> HIDE DEF n
    <3> QED
      BY <3>1
  <2> QED
    BY <2>1, <2>2, <2>3, Zenon
<1> HIDE DEF more
<1> QED
  BY <1>1, <1>2 DEF AddsUp, more

\* StatementAddsUp is AddsUp of every player.
LEMMA AddsUpEach == StatementAddsUp <=> \A p \in Players : AddsUp(statement[p], balance[p])
BY DEF StatementAddsUp, AddsUp

\* The same in the next state.
LEMMA AddsUpEachNext ==
  (\A p \in Players : AddsUp(statement'[p], balance'[p])) => StatementAddsUp'
BY DEF StatementAddsUp, AddsUp

\* A deposit or withdrawal line keeps every statement adding up.
LEMMA LineStep ==
  ASSUME TypeOK, StatementAddsUp, NEW p \in Players,
         NEW tx \in Transaction, NEW after \in Nat,
         balance' = [balance EXCEPT ![p] = after],
         statement' = [statement EXCEPT ![p] = Append(statement[p], tx)],
         tx.balanceAfter = after, after = balance[p] + Effect(tx)
  PROVE  StatementAddsUp'
<1>1. statement[p] \in Seq(Transaction) /\ balance[p] \in Nat /\ AddsUp(statement[p], balance[p])
  BY AddsUpEach DEF TypeOK
<1>2. AddsUp(Append(statement[p], tx), after)
  BY <1>1, LineAddsUp
<1>3. ASSUME NEW q \in Players PROVE AddsUp(statement'[q], balance'[q])
  <2>1. CASE q = p
    BY <1>2, <2>1 DEF TypeOK
  <2>2. CASE q # p
    BY <2>2, AddsUpEach DEF TypeOK
  <2> QED
    BY <2>1, <2>2
<1> QED
  BY <1>3, AddsUpEachNext

\* A spin's wager and win keep every statement adding up.
LEMMA SpinStep ==
  ASSUME TypeOK, StatementAddsUp, NEW s \in Sessions, NEW type,
         NEW bet \in Nat, NEW shown \in Nat, NEW win \in Wins,
         PlaySpin(s, type, bet, shown, win)
  PROVE  StatementAddsUp'
<1> DEFINE p == PlayerOf[s]
<1>1. /\ p \in Players /\ win \in Nat
      /\ bet <= balance[p] /\ balance[p] \in Nat
      /\ balance' = [balance EXCEPT ![p] = (balance[p] - bet) + win]
      /\ statement' = [statement EXCEPT ![p] = WagerAndCredit(p, bet, win)]
  BY DEF PlaySpin, TypeOK
<1> HIDE DEF p
<1>2. statement[p] \in Seq(Transaction) /\ AddsUp(statement[p], balance[p])
  BY <1>1, AddsUpEach DEF TypeOK
<1>3. PICK w \in Transaction, c \in Transaction : IsSpinStatement(p, bet, win, w, c)
  BY <1>1, SpinLines
<1>4. w.balanceAfter = balance[p] + Effect(w) /\ w.balanceAfter \in Nat
  BY <1>1, <1>3 DEF IsSpinStatement
<1>5. /\ Append(statement[p], w) \in Seq(Transaction)
      /\ AddsUp(Append(statement[p], w), w.balanceAfter)
  BY <1>1, <1>2, <1>4, LineAddsUp
<1>6. AddsUp(WagerAndCredit(p, bet, win), (balance[p] - bet) + win)
  <2>1. CASE win > 0
    <3>1. /\ c.balanceAfter = w.balanceAfter + Effect(c)
          /\ c.balanceAfter = (balance[p] - bet) + win
          /\ WagerAndCredit(p, bet, win) = Append(Append(statement[p], w), c)
      BY <1>1, <1>3, <2>1 DEF IsSpinStatement
    <3>2. AddsUp(Append(Append(statement[p], w), c), c.balanceAfter)
      BY <1>4, <1>5, <3>1, LineAddsUp
    <3> QED
      BY <3>1, <3>2
  <2>2. CASE win = 0
    <3>1. /\ w.balanceAfter = (balance[p] - bet) + win
          /\ WagerAndCredit(p, bet, win) = Append(statement[p], w)
      BY <1>1, <1>3, <2>2 DEF IsSpinStatement
    <3> QED
      BY <1>5, <3>1
  <2> QED
    BY <1>1, <2>1, <2>2
<1>7. ASSUME NEW q \in Players PROVE AddsUp(statement'[q], balance'[q])
  <2>1. CASE q = p
    BY <1>1, <1>6, <2>1 DEF TypeOK
  <2>2. CASE q # p
    BY <1>1, <2>2, AddsUpEach DEF TypeOK
  <2> QED
    BY <2>1, <2>2
<1> QED
  BY <1>7, AddsUpEachNext

\* Every step keeps the statements adding up.
LEMMA StatementStep == TypeOK /\ StatementAddsUp /\ [Next]_vars => StatementAddsUp'
<1> SUFFICES ASSUME TypeOK, StatementAddsUp, [Next]_vars PROVE StatementAddsUp'
  OBVIOUS
<1>1. ASSUME UNCHANGED <<balance, statement>> PROVE StatementAddsUp'
  BY <1>1 DEF StatementAddsUp
<1>2. ASSUME NEW s \in Sessions, Create(s) \/ Close(s) PROVE StatementAddsUp'
  BY <1>1, <1>2 DEF Create, Close
<1>3. ASSUME NEW s \in Sessions, NEW bet \in Bets, NEW win \in Wins, NEW autoplay \in BOOLEAN,
             Spin(s, autoplay, bet, win)
      PROVE  StatementAddsUp'
  <2>1. bet \in Nat /\ PlaySpin(s, "spin", bet, bet, win)
    BY <1>3 DEF Spin
  <2> QED
    BY <2>1, SpinStep
<1>4. ASSUME NEW s \in Sessions, NEW betAmount \in GaasBets, NEW win \in Wins,
             GaasSpin(s, betAmount, win)
      PROVE  StatementAddsUp'
  <2>1. PICK bet \in Nat : bet = Rounded(betAmount)
    BY RoundedTyped
  <2>2. betAmount \in Nat /\ PlaySpin(s, "gaas.spin", bet, betAmount, win)
    BY <1>4, <2>1 DEF GaasSpin
  <2> QED
    BY <2>2, SpinStep
<1>5. ASSUME NEW p \in Players, NEW n \in Amounts, NEW chain \in Sessions \cup {NoSession},
             Deposit(p, n, chain)
      PROVE  StatementAddsUp'
  BY <1>5, DepositLine, LineStep
<1>6. ASSUME NEW p \in Players, NEW n \in Amounts, NEW chain \in Sessions \cup {NoSession},
             Withdraw(p, n, chain)
      PROVE  StatementAddsUp'
  BY <1>6, WithdrawLine, LineStep
<1>7. ASSUME Tick PROVE StatementAddsUp'
  BY <1>1, <1>7 DEF Tick
<1>8. ASSUME UNCHANGED vars PROVE StatementAddsUp'
  BY <1>1, <1>8 DEF vars
<1> QED
  BY <1>2, <1>3, <1>4, <1>5, <1>6, <1>7, <1>8 DEF Next, SpinNext

\* Every statement adds up, line by line, to the balance, in every behaviour.
THEOREM StatementsAddUp == Spec => []StatementAddsUp
<1>1. Init => StatementAddsUp
  BY DEF Init, StatementAddsUp
<1> QED
  BY <1>1, StatementStep, TypeCorrect, PTL DEF Spec

-----------------------------------------------------------------------------
(* Policy *)

\* What the policy of a session rests on: the session remembers, in its flag and
\* its lastSpinAt, all that matters of its chain.
ChainInv(s) ==
  /\ ~Created(s) => audit[s] = <<>>
  /\ Created(s) /\ session[s].lastSpinAt # Never => session[s].lastSpinAt <= now
  /\ \A i \in 1 .. Len(audit[s]) :
       /\ audit[s][i].type = "session.closed" => session[s].closed
       /\ audit[s][i].type \in SpinTypes =>
            session[s].lastSpinAt # Never /\ audit[s][i].at <= session[s].lastSpinAt

\* The conjunct of SpinsKeepPolicy for s.
PolicyKept(s) ==
  \A j \in 1 .. Len(audit[s]) :
    audit[s][j].type = "spin" =>
      /\ audit[s][j].at < session[s].expiresAt
      /\ \A i \in 1 .. j - 1 :
           /\ audit[s][i].type # "session.closed"
           /\ audit[s][i].type \in SpinTypes =>
                audit[s][j].at - audit[s][i].at >= Policy[s].pacing

\* The inductive invariant, of one session and of all.
PolicyInv(s) == ChainInv(s) /\ PolicyKept(s)
PolicyInvAll == \A s \in Sessions : PolicyInv(s)

\* Entry e ends the chain of c, and c's session moved only as an entry of that
\* type lets it.
Logged(c, e) ==
  /\ audit' = [audit EXCEPT ![c] = Append(audit[c], e)]
  /\ e \in AuditEntry
  /\ e.at = now
  /\ now' = now
  /\ session'[c] \in Session
  /\ session'[c].lastSpinAt # Never => session'[c].lastSpinAt <= now
  /\ Created(c) =>
       /\ session'[c].expiresAt = session[c].expiresAt
       /\ session[c].closed => session'[c].closed
       /\ session[c].lastSpinAt # Never =>
            session'[c].lastSpinAt # Never /\ session[c].lastSpinAt <= session'[c].lastSpinAt
  /\ e.type = "session.closed" => session'[c].closed
  /\ e.type \in SpinTypes => Created(c) /\ session'[c].lastSpinAt = now
  /\ e.type = "spin" =>
       /\ ~session[c].closed
       /\ now < session[c].expiresAt
       /\ session[c].lastSpinAt # Never => now - session[c].lastSpinAt >= Policy[c].pacing
  /\ \A s \in Sessions \ {c} : session'[s] = session[s]

\* Such an entry keeps the invariant of its session.
LEMMA LoggedOwn ==
  ASSUME TypeOK, NEW c \in Sessions, PolicyInv(c), NEW e, Logged(c, e)
  PROVE  PolicyInv(c)'
<1> DEFINE n == Len(audit[c])
<1>1. /\ n \in Nat /\ Len(audit'[c]) = n + 1 /\ audit'[c][n + 1] = e
      /\ \A i \in 1 .. n : audit'[c][i] = audit[c][i] /\ audit[c][i] \in AuditEntry
      /\ ~Created(c) => n = 0
  <2>1. audit[c] \in Seq(AuditEntry) /\ audit'[c] = Append(audit[c], e) /\ e \in AuditEntry
    BY DEF TypeOK, Logged
  <2> QED
    BY <2>1 DEF PolicyInv, ChainInv
<1>2. session'[c] # NoSession /\ now \in Nat /\ Policy[c].pacing \in Nat
  BY DEF Logged, Session, TypeOK
<1>3. Created(c) => session[c] \in Session
  BY DEF TypeOK, Created
<1> HIDE DEF n
<1>4. ASSUME NEW i \in 1 .. n + 1
      PROVE  /\ audit'[c][i].type = "session.closed" => session'[c].closed
             /\ audit'[c][i].type \in SpinTypes =>
                  session'[c].lastSpinAt # Never /\ audit'[c][i].at <= session'[c].lastSpinAt
  <2>1. CASE i = n + 1
    <3>1. audit'[c][i] = e
      BY <1>1, <2>1
    <3> QED
      BY <1>2, <3>1 DEF Logged
  <2>2. CASE i \in 1 .. n
    <3>1. /\ audit'[c][i] = audit[c][i] /\ audit[c][i] \in AuditEntry
          /\ Created(c)
      BY <1>1, <2>2
    <3>2. /\ audit[c][i].type = "session.closed" => session[c].closed
          /\ audit[c][i].type \in SpinTypes =>
               session[c].lastSpinAt # Never /\ audit[c][i].at <= session[c].lastSpinAt
      BY <2>2 DEF n, PolicyInv, ChainInv
    <3>3. /\ session[c].lastSpinAt # Never => session[c].lastSpinAt \in Nat
          /\ session'[c].lastSpinAt # Never => session'[c].lastSpinAt \in Nat
          /\ audit[c][i].at \in Nat
      BY <1>3, <3>1 DEF Session, Logged, AuditEntry
    <3>4. /\ session[c].closed => session'[c].closed
          /\ session[c].lastSpinAt # Never =>
               session'[c].lastSpinAt # Never /\ session[c].lastSpinAt <= session'[c].lastSpinAt
      BY <3>1 DEF Logged
    <3>5. audit[c][i].type = "session.closed" => session'[c].closed
      BY <3>2, <3>4
    <3>6. audit[c][i].type \in SpinTypes =>
            session'[c].lastSpinAt # Never /\ audit[c][i].at <= session'[c].lastSpinAt
      BY <3>2, <3>3, <3>4
    <3> QED
      BY <3>1, <3>5, <3>6
  <2> QED
    BY <1>1, <2>1, <2>2
<1>5. ChainInv(c)'
  BY <1>1, <1>2, <1>4 DEF ChainInv, Created, Logged
<1>6. ASSUME NEW j \in 1 .. n + 1, audit'[c][j].type = "spin"
      PROVE  /\ audit'[c][j].at < session'[c].expiresAt
             /\ \A i \in 1 .. j - 1 :
                  /\ audit'[c][i].type # "session.closed"
                  /\ audit'[c][i].type \in SpinTypes =>
                       audit'[c][j].at - audit'[c][i].at >= Policy[c].pacing
  <2>1. CASE j \in 1 .. n
    <3>1. /\ audit'[c][j] = audit[c][j] /\ Created(c)
          /\ \A i \in 1 .. j - 1 : i \in 1 .. n /\ audit'[c][i] = audit[c][i]
      BY <1>1, <2>1
    <3>2. /\ audit[c][j].at < session[c].expiresAt
          /\ \A i \in 1 .. j - 1 :
               /\ audit[c][i].type # "session.closed"
               /\ audit[c][i].type \in SpinTypes =>
                    audit[c][j].at - audit[c][i].at >= Policy[c].pacing
      BY <1>6, <2>1, <3>1 DEF n, PolicyInv, PolicyKept
    <3>3. session'[c].expiresAt = session[c].expiresAt
      BY <3>1 DEF Logged
    <3> QED
      BY <3>1, <3>2, <3>3
  <2>2. CASE j = n + 1
    <3>1. audit'[c][j] = e
      BY <1>1, <2>2
    <3>2. /\ Created(c) /\ ~session[c].closed
          /\ session'[c].expiresAt = session[c].expiresAt /\ now < session[c].expiresAt
          /\ session[c].lastSpinAt # Never => now - session[c].lastSpinAt >= Policy[c].pacing
          /\ e.at = now
      BY <1>6, <3>1 DEF Logged, SpinTypes
    <3>3. ASSUME NEW i \in 1 .. j - 1
          PROVE  /\ audit'[c][i].type # "session.closed"
                 /\ audit'[c][i].type \in SpinTypes =>
                      audit'[c][j].at - audit'[c][i].at >= Policy[c].pacing
      <4>1. /\ i \in 1 .. n /\ audit'[c][i] = audit[c][i] /\ audit[c][i].at \in Nat
        BY <1>1, <2>2 DEF AuditEntry
      <4>2. /\ audit[c][i].type = "session.closed" => session[c].closed
            /\ audit[c][i].type \in SpinTypes =>
                 session[c].lastSpinAt # Never /\ audit[c][i].at <= session[c].lastSpinAt
        BY <4>1 DEF n, PolicyInv, ChainInv
      <4>3. session[c].lastSpinAt # Never => session[c].lastSpinAt \in Nat
        BY <1>3, <3>2 DEF Session
      <4> QED
        BY <1>2, <3>1, <3>2, <4>1, <4>2, <4>3
    <3> QED
      BY <3>1, <3>2, <3>3
  <2> QED
    BY <1>1, <2>1, <2>2
<1>7. PolicyKept(c)'
  BY <1>1, <1>6 DEF PolicyKept
<1> QED
  BY <1>5, <1>7 DEF PolicyInv

\* What s's part of the invariant reads stays, or only the clock advances.
LEMMA PolicyFrame ==
  ASSUME TypeOK, NEW s \in Sessions, PolicyInv(s), audit'[s] = audit[s], session'[s] = session[s],
         now' \in Nat, now <= now'
  PROVE  PolicyInv(s)'
<1>1. Created(s) /\ session[s].lastSpinAt # Never => session[s].lastSpinAt \in Nat
  BY DEF Created, TypeOK, Session
<1>2. now \in Nat
  BY DEF TypeOK
<1>3. ChainInv(s)'
  BY <1>1, <1>2 DEF PolicyInv, ChainInv, Created
<1>4. PolicyKept(s)'
  BY DEF PolicyInv, PolicyKept
<1> QED
  BY <1>3, <1>4 DEF PolicyInv

\* Such an entry keeps the invariant of every session.
LEMMA LoggedAll ==
  ASSUME TypeOK, PolicyInvAll, NEW c \in Sessions, NEW e, Logged(c, e)
  PROVE  PolicyInvAll'
<1>1. ASSUME NEW s \in Sessions PROVE PolicyInv(s)'
  <2>1. PolicyInv(s)
    BY DEF PolicyInvAll
  <2>2. CASE s = c
    BY <2>1, <2>2, LoggedOwn
  <2>3. CASE s # c
    <3>1. audit'[s] = audit[s] /\ session'[s] = session[s] /\ now' \in Nat /\ now <= now'
      BY <2>3 DEF Logged, TypeOK
    <3> QED
      BY <2>1, <3>1, PolicyFrame
  <2> QED
    BY <2>2, <2>3
<1> QED
  BY <1>1 DEF PolicyInvAll

\* A spin is logged; one of the session route as decideSpin allows.
LEMMA SpinLogged ==
  ASSUME TypeOK, PolicyInvAll, NEW s \in Sessions, Created(s), NEW type \in SpinTypes,
         NEW bet \in Nat, NEW shown \in Nat, NEW win \in Wins,
         PlaySpin(s, type, bet, shown, win),
         type = "spin" => \E autoplay \in BOOLEAN : DecideSpin(s, autoplay)
  PROVE  PolicyInvAll'
<1> DEFINE round == session[s].totalSpins + 1
           e == [type |-> type, round |-> round, bet |-> shown, win |-> win, at |-> now]
           new == RecordSpin(s, bet, win)
<1>1. session[s] \in Session /\ now \in Nat
  BY DEF TypeOK, Created
<1>2. win \in Nat /\ round \in Nat
  BY <1>1 DEF Session
<1>3. /\ new \in Session
      /\ new.expiresAt = session[s].expiresAt
      /\ new.closed = session[s].closed
      /\ new.lastSpinAt = now
  BY <1>2, RecordTyped
<1>4. /\ session' = [session EXCEPT ![s] = new]
      /\ audit' = [audit EXCEPT ![s] = Append(audit[s], e)]
      /\ now' = now
  BY DEF PlaySpin, Appended
<1> HIDE DEF round, new
<1>5. e \in AuditEntry /\ e.type = type /\ e.at = now
  BY <1>1, <1>2 DEF AuditEntry, SpinTypes
<1> HIDE DEF e
<1>6. /\ session'[s] = new
      /\ \A q \in Sessions \ {s} : session'[q] = session[q]
  BY <1>4 DEF TypeOK
<1>7. session[s].lastSpinAt # Never => session[s].lastSpinAt <= now
  BY DEF PolicyInvAll, PolicyInv, ChainInv
<1>8. type = "spin" =>
        /\ ~session[s].closed
        /\ now < session[s].expiresAt
        /\ session[s].lastSpinAt # Never => now - session[s].lastSpinAt >= Policy[s].pacing
  BY DEF DecideSpin
<1>9. now # Never /\ now <= now /\ type # "session.closed"
  BY <1>1 DEF SpinTypes
<1>10. Logged(s, e)
  BY <1>3, <1>4, <1>5, <1>6, <1>7, <1>8, <1>9 DEF Logged
<1> QED
  BY <1>10, LoggedAll

\* A deposit or withdrawal is logged on the chain the caller names, or on none.
LEMMA AuditOnLogged ==
  ASSUME TypeOK, PolicyInvAll, NEW chain \in Sessions \cup {NoSession}, NEW n \in Nat,
         NEW type \in {"wallet.deposit", "wallet.withdraw"}, AuditOn(chain, type, n),
         UNCHANGED <<now, session>>
  PROVE  PolicyInvAll'
<1> DEFINE e == [type |-> type, round |-> 0, bet |-> n, win |-> 0, at |-> now]
<1>0. now \in Nat /\ now' = now /\ session' = session
  BY DEF TypeOK
<1>1. CASE UNCHANGED audit
  <2>1. ASSUME NEW s \in Sessions PROVE PolicyInv(s)'
    BY <1>0, <1>1, PolicyFrame DEF PolicyInvAll
  <2> QED
    BY <2>1 DEF PolicyInvAll
<1>2. CASE chain # NoSession /\ Created(chain) /\ audit' = Appended(chain, type, 0, n, 0)
  <2>1. chain \in Sessions /\ session[chain] \in Session
    BY <1>2 DEF TypeOK, Created
  <2>2. audit' = [audit EXCEPT ![chain] = Append(audit[chain], e)]
    BY <1>2 DEF Appended
  <2>3. e \in AuditEntry /\ e.at = now /\ e.type = type
    BY <1>0 DEF AuditEntry
  <2> HIDE DEF e
  <2>4. session[chain].lastSpinAt # Never =>
          session[chain].lastSpinAt <= now /\ session[chain].lastSpinAt \in Nat
    BY <1>2, <2>1 DEF PolicyInvAll, PolicyInv, ChainInv, Session
  <2>5. e.type \notin SpinTypes /\ e.type # "session.closed" /\ e.type # "spin"
    BY <2>3 DEF SpinTypes
  <2>6. Logged(chain, e)
    BY <1>0, <2>1, <2>2, <2>3, <2>4, <2>5 DEF Logged
  <2> QED
    BY <2>1, <2>6, LoggedAll
<1> QED
  BY <1>1, <1>2 DEF AuditOn

\* A session begins with an entry of its own.
LEMMA CreateLogged ==
  ASSUME TypeOK, PolicyInvAll, NEW s \in Sessions, Create(s)
  PROVE  PolicyInvAll'
<1> DEFINE e == [type |-> "session.created", round |-> 0, bet |-> 0, win |-> 0, at |-> now]
           new == [expiresAt |-> now + Policy[s].timeout, lastSpinAt |-> Never,
             totalSpins |-> 0, totalWagered |-> 0, totalWon |-> 0,
             lossLimitReached |-> FALSE, closed |-> FALSE]
<1>1. now \in Nat /\ now + Policy[s].timeout \in Nat /\ now' = now /\ ~Created(s)
  BY DEF TypeOK, Create
<1>2. new \in Session /\ new.lastSpinAt = Never
  BY <1>1 DEF Session
<1>3. /\ session' = [session EXCEPT ![s] = new]
      /\ audit' = [audit EXCEPT ![s] = Append(audit[s], e)]
  BY DEF Create, Appended
<1>4. e \in AuditEntry /\ e.at = now /\ e.type = "session.created"
  BY <1>1 DEF AuditEntry
<1> HIDE DEF e, new
<1>5. session'[s] = new /\ \A q \in Sessions \ {s} : session'[q] = session[q]
  BY <1>3 DEF TypeOK
<1>6. e.type \notin SpinTypes /\ e.type # "session.closed" /\ e.type # "spin"
  BY <1>4 DEF SpinTypes
<1>7. Logged(s, e)
  BY <1>1, <1>2, <1>3, <1>4, <1>5, <1>6 DEF Logged
<1> QED
  BY <1>7, LoggedAll

\* Closing sets the flag and logs it.
LEMMA CloseLogged ==
  ASSUME TypeOK, PolicyInvAll, NEW s \in Sessions, Close(s)
  PROVE  PolicyInvAll'
<1> DEFINE e == [type |-> "session.closed", round |-> 0, bet |-> 0, win |-> 0, at |-> now]
           new == [session[s] EXCEPT !.closed = TRUE]
<1>1. now \in Nat /\ now' = now /\ Created(s) /\ session[s] \in Session
  BY DEF TypeOK, Close, Created
<1>2. /\ new \in Session /\ new.closed /\ new.lastSpinAt = session[s].lastSpinAt
      /\ new.expiresAt = session[s].expiresAt
  BY <1>1 DEF Session
<1>3. /\ session' = [session EXCEPT ![s] = new]
      /\ audit' = [audit EXCEPT ![s] = Append(audit[s], e)]
  BY DEF Close, Appended
<1>4. e \in AuditEntry /\ e.at = now /\ e.type = "session.closed"
  BY <1>1 DEF AuditEntry
<1> HIDE DEF e, new
<1>5. session'[s] = new /\ \A q \in Sessions \ {s} : session'[q] = session[q]
  BY <1>3 DEF TypeOK
<1>6. e.type \notin SpinTypes /\ e.type # "spin"
  BY <1>4 DEF SpinTypes
<1>7. session[s].lastSpinAt # Never =>
        session[s].lastSpinAt <= now /\ session[s].lastSpinAt \in Nat
  BY <1>1 DEF PolicyInvAll, PolicyInv, ChainInv, Session
<1>8. Logged(s, e)
  BY <1>1, <1>2, <1>3, <1>4, <1>5, <1>6, <1>7 DEF Logged
<1> QED
  BY <1>8, LoggedAll

\* Every step keeps the invariant.
LEMMA PolicyStep == TypeOK /\ PolicyInvAll /\ [Next]_vars => PolicyInvAll'
<1> SUFFICES ASSUME TypeOK, PolicyInvAll, [Next]_vars PROVE PolicyInvAll'
  OBVIOUS
<1>1. ASSUME UNCHANGED <<session, audit>>, now' \in Nat, now <= now' PROVE PolicyInvAll'
  <2>1. ASSUME NEW s \in Sessions PROVE PolicyInv(s)'
    BY <1>1, PolicyFrame DEF PolicyInvAll
  <2> QED
    BY <2>1 DEF PolicyInvAll
<1>2. ASSUME NEW s \in Sessions, Create(s) \/ Close(s) PROVE PolicyInvAll'
  BY <1>2, CreateLogged, CloseLogged
<1>3. ASSUME NEW s \in Sessions, NEW bet \in Bets, NEW win \in Wins, NEW autoplay \in BOOLEAN,
             Spin(s, autoplay, bet, win)
      PROVE  PolicyInvAll'
  <2>1. Created(s) /\ PlaySpin(s, "spin", bet, bet, win) /\ DecideSpin(s, autoplay)
    BY <1>3 DEF Spin
  <2> QED
    BY <2>1, SpinLogged DEF SpinTypes
<1>4. ASSUME NEW s \in Sessions, NEW betAmount \in GaasBets, NEW win \in Wins,
             GaasSpin(s, betAmount, win)
      PROVE  PolicyInvAll'
  <2>1. PICK bet \in Nat : bet = Rounded(betAmount)
    BY RoundedTyped
  <2>2. betAmount \in Nat /\ Created(s) /\ PlaySpin(s, "gaas.spin", bet, betAmount, win)
    BY <1>4, <2>1 DEF GaasSpin
  <2> QED
    BY <2>2, SpinLogged DEF SpinTypes
<1>5. ASSUME NEW p \in Players, NEW n \in Amounts, NEW chain \in Sessions \cup {NoSession},
             Deposit(p, n, chain)
      PROVE  PolicyInvAll'
  BY <1>5, AuditOnLogged DEF Deposit
<1>6. ASSUME NEW p \in Players, NEW n \in Amounts, NEW chain \in Sessions \cup {NoSession},
             Withdraw(p, n, chain)
      PROVE  PolicyInvAll'
  BY <1>6, AuditOnLogged DEF Withdraw
<1>7. ASSUME Tick PROVE PolicyInvAll'
  BY <1>1, <1>7 DEF Tick, TypeOK
<1>8. ASSUME UNCHANGED vars PROVE PolicyInvAll'
  BY <1>1, <1>8 DEF vars, TypeOK
<1> QED
  BY <1>2, <1>3, <1>4, <1>5, <1>6, <1>7, <1>8 DEF Next, SpinNext

\* On every chain, the spins of the session route keep expiry, closing and pacing,
\* the pacing even after spins of the other route.
THEOREM PolicyHolds == Spec => []SpinsKeepPolicy
<1>1. Init => PolicyInvAll
  BY DEF Init, PolicyInvAll, PolicyInv, ChainInv, PolicyKept, Created
<1>2. PolicyInvAll => SpinsKeepPolicy
  BY DEF PolicyInvAll, PolicyInv, PolicyKept, SpinsKeepPolicy
<1> QED
  BY <1>1, <1>2, PolicyStep, TypeCorrect, PTL DEF Spec

-----------------------------------------------------------------------------
(* What chains and statements add up to *)

\* What the spins on a chain wagered and won, as StoresAgree adds them up.
BetsOn(chain) == SumOver([i \in Played(chain) |-> Staked(chain[i])], Played(chain))
WinsOn(chain) == SumOver([i \in Played(chain) |-> chain[i].win], Played(chain))

\* Whether an entry is a spin, and what it adds to such a sum.
IsSpin(e) == e.type \in SpinTypes
IfSpin(e, amount) == IF IsSpin(e) THEN amount ELSE 0

\* A chain shows its spins at finitely many places.
LEMMA PlayedFinite ==
  ASSUME NEW chain \in Seq(AuditEntry)
  PROVE  /\ Len(chain) \in Nat
         /\ Played(chain) \subseteq 1 .. Len(chain)
         /\ IsFiniteSet(Played(chain))
         /\ \A i \in Played(chain) : /\ chain[i] \in AuditEntry
                                     /\ Staked(chain[i]) \in Nat /\ chain[i].win \in Nat
                                     /\ Staked(chain[i]) - chain[i].win \in Int
<1>1. Len(chain) \in Nat /\ \A i \in 1 .. Len(chain) : chain[i] \in AuditEntry
  OBVIOUS
<1>2. Played(chain) \subseteq 1 .. Len(chain)
  BY DEF Played
<1>3. IsFiniteSet(1 .. Len(chain))
  BY <1>1, FS_Interval
<1>4. \A e \in AuditEntry : Staked(e) \in Nat /\ e.win \in Nat /\ Staked(e) - e.win \in Int
  BY StakedTyped DEF AuditEntry
<1> QED
  BY <1>1, <1>2, <1>3, <1>4, FS_Subset

\* What follows a chain's end adds to its sums what it is worth as a spin.
LEMMA ChainGrows ==
  ASSUME NEW chain \in Seq(AuditEntry), NEW e \in AuditEntry
  PROVE  LET longer == Append(chain, e)
         IN  /\ Played(longer) = Played(chain) \cup
                  (IF IsSpin(e) THEN {Len(chain) + 1} ELSE {})
             /\ BetsOn(longer) = BetsOn(chain) + IfSpin(e, Staked(e))
             /\ WinsOn(longer) = WinsOn(chain) + IfSpin(e, e.win)
             /\ Cardinality(Played(longer)) = Cardinality(Played(chain)) + IfSpin(e, 1)
             /\ BetsOn(chain) \in Int /\ WinsOn(chain) \in Int
             /\ Cardinality(Played(chain)) \in Nat
<1> DEFINE n == Len(chain)
           next == n + 1
           longer == Append(chain, e)
           spins == Played(chain)
           more == IF IsSpin(e) THEN {next} ELSE {}
<1>1. /\ n \in Nat /\ Len(longer) = next /\ next = n + 1 /\ longer[next] = e
      /\ \A i \in 1 .. n : longer[i] = chain[i]
  OBVIOUS
<1>2. /\ spins \subseteq 1 .. n /\ IsFiniteSet(spins) /\ next \notin spins
      /\ \A i \in spins : longer[i] = chain[i]
      /\ \A i \in spins : Staked(chain[i]) \in Nat /\ chain[i].win \in Nat
  BY <1>1, PlayedFinite
<1>3. /\ Staked(e) \in Nat /\ e.win \in Nat /\ Staked(e) \in Int /\ e.win \in Int
      /\ IsSpin(e) \in BOOLEAN
  BY StakedTyped DEF AuditEntry, IsSpin
<1> HIDE DEF longer, n, next
<1>4. Played(longer) = spins \cup more
  BY <1>1, <1>2 DEF Played, IsSpin, n
<1> HIDE DEF spins
<1>5. BetsOn(longer) = BetsOn(chain) + IfSpin(e, Staked(e)) /\ BetsOn(chain) \in Int
  <2> DEFINE f == [i \in spins |-> Staked(chain[i])]
             g == [i \in Played(longer) |-> Staked(longer[i])]
  <2>1. /\ \A i \in spins : f[i] \in Int /\ g[i] = f[i]
        /\ IsSpin(e) => g[next] = Staked(e)
    BY <1>1, <1>2, <1>4
  <2>2. BetsOn(chain) = SumOver(f, spins) /\ BetsOn(longer) = SumOver(g, spins \cup more)
    BY <1>4 DEF BetsOn, spins
  <2> HIDE DEF f, g
  <2>3. SumOver(g, spins) = SumOver(f, spins) /\ SumOver(f, spins) \in Int
    BY <1>2, <2>1, IntSumSame, IntSumType
  <2>4. CASE IsSpin(e)
    <3>1. PICK v \in Int : v = Staked(e) /\ g[next] = v
      BY <1>3, <2>1, <2>4
    <3>2. SumOver(g, spins \cup {next}) = SumOver(f, spins) + v
      <4>1. \A i \in spins \cup {next} : g[i] \in Int
        BY <2>1, <3>1
      <4>2. SumOver(g, spins \cup {next}) = SumOver(g, spins) + g[next]
        BY <1>2, <4>1, IntSumAdd
      <4> QED
        BY <2>3, <3>1, <4>2
    <3>3. more = {next}
      BY <2>4
    <3> QED
      BY <2>2, <2>3, <2>4, <3>1, <3>2, <3>3 DEF IfSpin
  <2>5. CASE ~IsSpin(e)
    <3>1. spins \cup more = spins
      BY <2>5
    <3> QED
      BY <2>2, <2>3, <2>5, <3>1 DEF IfSpin
  <2> QED
    BY <2>4, <2>5
<1>6. WinsOn(longer) = WinsOn(chain) + IfSpin(e, e.win) /\ WinsOn(chain) \in Int
  <2> DEFINE f == [i \in spins |-> chain[i].win]
             g == [i \in Played(longer) |-> longer[i].win]
  <2>1. /\ \A i \in spins : f[i] \in Int /\ g[i] = f[i]
        /\ IsSpin(e) => g[next] = e.win
    BY <1>1, <1>2, <1>4
  <2>2. WinsOn(chain) = SumOver(f, spins) /\ WinsOn(longer) = SumOver(g, spins \cup more)
    BY <1>4 DEF WinsOn, spins
  <2> HIDE DEF f, g
  <2>3. SumOver(g, spins) = SumOver(f, spins) /\ SumOver(f, spins) \in Int
    BY <1>2, <2>1, IntSumSame, IntSumType
  <2>4. CASE IsSpin(e)
    <3>1. PICK v \in Int : v = e.win /\ g[next] = v
      BY <1>3, <2>1, <2>4
    <3>2. SumOver(g, spins \cup {next}) = SumOver(f, spins) + v
      <4>1. \A i \in spins \cup {next} : g[i] \in Int
        BY <2>1, <3>1
      <4>2. SumOver(g, spins \cup {next}) = SumOver(g, spins) + g[next]
        BY <1>2, <4>1, IntSumAdd
      <4> QED
        BY <2>3, <3>1, <4>2
    <3>3. more = {next}
      BY <2>4
    <3> QED
      BY <2>2, <2>3, <2>4, <3>1, <3>2, <3>3 DEF IfSpin
  <2>5. CASE ~IsSpin(e)
    <3>1. spins \cup more = spins
      BY <2>5
    <3> QED
      BY <2>2, <2>3, <2>5, <3>1 DEF IfSpin
  <2> QED
    BY <2>4, <2>5
<1>7. /\ Cardinality(Played(longer)) = Cardinality(spins) + IfSpin(e, 1)
      /\ Cardinality(spins) \in Nat
  <2>1. Cardinality(spins) \in Nat
    BY <1>2, FS_CardinalityType
  <2>2. CASE IsSpin(e)
    <3>1. Cardinality(spins \cup {next}) = Cardinality(spins) + 1
      BY <1>2, FS_AddElement
    <3>2. more = {next}
      BY <2>2
    <3> QED
      BY <1>4, <2>1, <2>2, <3>1, <3>2 DEF IfSpin
  <2>3. CASE ~IsSpin(e)
    <3>1. spins \cup more = spins
      BY <2>3
    <3> QED
      BY <1>4, <2>1, <2>3, <3>1 DEF IfSpin
  <2> QED
    BY <2>1, <2>2, <2>3
<1> QED
  BY <1>4, <1>5, <1>6, <1>7 DEF longer, spins, n, next

\* What a longer chain shows lost by its former entries is what they showed, and
\* the new one adds its own loss.
LEMMA LossGrows ==
  ASSUME NEW chain \in Seq(AuditEntry), NEW e \in AuditEntry
  PROVE  LET longer == Append(chain, e)
         IN  /\ \A i \in 0 .. Len(chain) : /\ LossAfter(longer, i) = LossAfter(chain, i)
                                           /\ LossAfter(chain, i) \in Int
             /\ LossAfter(longer, Len(chain) + 1)
                  = LossAfter(chain, Len(chain)) + IfSpin(e, Staked(e) - e.win)
<1> DEFINE n == Len(chain)
           next == n + 1
           longer == Append(chain, e)
           spins == Played(chain)
           more == IF IsSpin(e) THEN {next} ELSE {}
           f == [i \in spins |-> Staked(chain[i]) - chain[i].win]
           g == [i \in Played(longer) |-> Staked(longer[i]) - longer[i].win]
<1>1. /\ n \in Nat /\ Len(longer) = next /\ next = n + 1 /\ longer[next] = e
      /\ \A i \in 1 .. n : longer[i] = chain[i]
  OBVIOUS
<1>2. /\ spins \subseteq 1 .. n /\ IsFiniteSet(spins) /\ next \notin spins
      /\ \A i \in spins : longer[i] = chain[i]
      /\ \A i \in spins : Staked(chain[i]) - chain[i].win \in Int
  BY <1>1, PlayedFinite
<1>3. Staked(e) - e.win \in Int /\ IsSpin(e) \in BOOLEAN
  BY StakedTyped DEF AuditEntry, IsSpin
<1>4. Played(longer) = spins \cup more
  BY ChainGrows
<1> HIDE DEF longer, n, next, spins
<1>5. /\ \A i \in spins : f[i] \in Int /\ g[i] = f[i]
      /\ IsSpin(e) => g[next] = Staked(e) - e.win
  BY <1>1, <1>2, <1>4
<1>6. /\ \A i : LossAfter(chain, i) = SumOver(f, spins \cap (1 .. i))
      /\ \A i : LossAfter(longer, i) = SumOver(g, (spins \cup more) \cap (1 .. i))
  BY <1>4, Zenon DEF LossAfter, spins
<1> HIDE DEF f, g
<1>7. ASSUME NEW i \in 0 .. n
      PROVE  LossAfter(longer, i) = LossAfter(chain, i) /\ LossAfter(chain, i) \in Int
  <2> DEFINE part == spins \cap (1 .. i)
  <2>1. (spins \cup more) \cap (1 .. i) = part
    BY <1>1
  <2>2. /\ IsFiniteSet(part) /\ part \subseteq spins /\ next \notin part
    BY <1>2, FS_Subset
  <2>3. LossAfter(chain, i) = SumOver(f, part) /\ LossAfter(longer, i) = SumOver(g, part)
    BY <1>6, <2>1
  <2> HIDE DEF part
  <2>4. SumOver(g, part) = SumOver(f, part) /\ SumOver(f, part) \in Int
    BY <1>5, <2>2, IntSumSame, IntSumType
  <2> QED
    BY <2>3, <2>4
<1>8. LossAfter(longer, next) = LossAfter(chain, n) + IfSpin(e, Staked(e) - e.win)
  <2>1. /\ (spins \cup more) \cap (1 .. next) = spins \cup more
        /\ spins \cap (1 .. n) = spins
    <3>1. more \subseteq 1 .. next /\ 1 .. n \subseteq 1 .. next
      BY <1>1
    <3> QED
      BY <1>2, <3>1
  <2>2. SumOver(g, spins) = SumOver(f, spins) /\ SumOver(f, spins) \in Int
    BY <1>2, <1>5, IntSumSame, IntSumType
  <2>3. /\ LossAfter(chain, n) = SumOver(f, spins)
        /\ LossAfter(longer, next) = SumOver(g, spins \cup more)
    BY <1>6, <2>1
  <2>4. CASE IsSpin(e)
    <3>1. PICK v \in Int : v = Staked(e) - e.win /\ g[next] = v
      BY <1>3, <1>5, <2>4
    <3>2. SumOver(g, spins \cup {next}) = SumOver(f, spins) + v
      <4>1. IsFiniteSet(spins) /\ next \notin spins
        BY <1>2
      <4>2. \A i \in spins \cup {next} : g[i] \in Int
        BY <1>5, <3>1
      <4>3. SumOver(g, spins \cup {next}) = SumOver(g, spins) + g[next]
        BY <4>1, <4>2, IntSumAdd
      <4> QED
        BY <2>2, <3>1, <4>3
    <3>3. more = {next}
      BY <2>4
    <3> QED
      BY <2>2, <2>3, <2>4, <3>1, <3>2, <3>3 DEF IfSpin
  <2>5. CASE ~IsSpin(e)
    <3>1. spins \cup more = spins
      BY <2>5
    <3> QED
      BY <2>2, <2>3, <2>5, <3>1 DEF IfSpin
  <2> QED
    BY <2>4, <2>5
<1> QED
  BY <1>1, <1>7, <1>8 DEF longer, n, next

\* A line adds its amount to what its kind adds up to, and nothing to other kinds.
LEMMA StatementGrows ==
  ASSUME NEW lines \in Seq(Transaction), NEW tx \in Transaction, NEW kind
  PROVE  /\ OnStatement(Append(lines, tx), kind)
              = OnStatement(lines, kind) + (IF tx.kind = kind THEN tx.amount ELSE 0)
         /\ OnStatement(lines, kind) \in Int
<1> DEFINE n == Len(lines)
           next == n + 1
           longer == Append(lines, tx)
           shown == {i \in 1 .. n : lines[i].kind = kind}
           same == tx.kind = kind
           more == IF same THEN {next} ELSE {}
           f == [i \in shown |-> lines[i].amount]
           now2 == {i \in 1 .. Len(longer) : longer[i].kind = kind}
           g == [i \in now2 |-> longer[i].amount]
<1>1. /\ n \in Nat /\ Len(longer) = next /\ next = n + 1 /\ longer[next] = tx
      /\ \A i \in 1 .. n : longer[i] = lines[i] /\ lines[i] \in Transaction
  OBVIOUS
<1>2. /\ tx.amount \in Int /\ \A i \in 1 .. n : lines[i].amount \in Int
  BY <1>1 DEF Transaction
<1>3. OnStatement(lines, kind) = SumOver(f, shown) /\ OnStatement(longer, kind) = SumOver(g, now2)
  BY DEF OnStatement
<1> HIDE DEF longer, n, next
<1>4. now2 = shown \cup more
  BY <1>1
<1>5. IsFiniteSet(shown) /\ shown \subseteq 1 .. n /\ next \notin shown
  <2>1. IsFiniteSet(1 .. n)
    BY <1>1, FS_Interval
  <2> QED
    BY <1>1, <2>1, FS_Subset
<1> HIDE DEF now2
<1>6. /\ \A i \in shown : f[i] \in Int /\ g[i] = f[i]
      /\ same => g[next] = tx.amount
  BY <1>1, <1>2, <1>4
<1> HIDE DEF f, g, shown
<1>7. SumOver(g, shown) = SumOver(f, shown) /\ SumOver(f, shown) \in Int
  BY <1>5, <1>6, IntSumSame, IntSumType
<1>8. CASE same
  <2>1. PICK v \in Int : v = tx.amount /\ g[next] = v
    BY <1>2, <1>6, <1>8
  <2>2. SumOver(g, shown \cup {next}) = SumOver(f, shown) + v
    <3>1. IsFiniteSet(shown) /\ next \notin shown
      BY <1>5
    <3>2. \A i \in shown \cup {next} : g[i] \in Int
      BY <1>6, <2>1
    <3>3. SumOver(g, shown \cup {next}) = SumOver(g, shown) + g[next]
      BY <3>1, <3>2, IntSumAdd
    <3> QED
      BY <1>7, <2>1, <3>3
  <2>3. more = {next}
    BY <1>8
  <2> QED
    BY <1>3, <1>4, <1>7, <1>8, <2>1, <2>2, <2>3 DEF longer
<1>9. CASE ~same
  <2>1. shown \cup more = shown
    BY <1>9
  <2> QED
    BY <1>3, <1>4, <1>7, <1>9, <2>1 DEF longer, next
<1> QED
  BY <1>8, <1>9

-----------------------------------------------------------------------------
(* The stores agree, and a loss stops play *)

\* A session's totals; before it exists they are 0.
Book(s) ==
  IF Created(s)
  THEN session[s]
  ELSE [totalSpins |-> 0, totalWagered |-> 0, totalWon |-> 0, lossLimitReached |-> FALSE]

\* The totals are those of the chain, and so is what LossAfter shows in the end.
TotalsKept(s) ==
  /\ Book(s).totalWagered = BetsOn(audit[s])
  /\ Book(s).totalWon = WinsOn(audit[s])
  /\ Book(s).totalSpins = Cardinality(Played(audit[s]))
  /\ Book(s).totalWagered - Book(s).totalWon = LossAfter(audit[s], Len(audit[s]))

\* The spins of the chain are numbered as they come.
Numbered(s) ==
  \A i \in Played(audit[s]) : audit[s][i].round = Cardinality(Played(audit[s]) \cap (1 .. i))

\* Wherever the chain shows a loss of the limit or more, the flag is up since.
FlagKept(s) ==
  Policy[s].limit > 0 =>
    \A i \in 0 .. Len(audit[s]) :
      LossAfter(audit[s], i) >= Policy[s].limit => Book(s).lossLimitReached

\* The part of LossStopsPlay for s.
LossStops(s) ==
  Policy[s].limit > 0 =>
    \A i, j \in 1 .. Len(audit[s]) :
      i < j /\ LossAfter(audit[s], i) >= Policy[s].limit => audit[s][j].type # "spin"

\* The inductive invariant of the chains.
Tally(s) == TotalsKept(s) /\ Numbered(s) /\ FlagKept(s) /\ LossStops(s)
TallyAll == \A s \in Sessions : Tally(s)

\* Entry e ends the chain of c, and c's totals move as e says.
Entered(c, e) ==
  /\ audit' = [audit EXCEPT ![c] = Append(audit[c], e)]
  /\ e \in AuditEntry
  /\ Book(c)'.totalWagered = Book(c).totalWagered + IfSpin(e, Staked(e))
  /\ Book(c)'.totalWon = Book(c).totalWon + IfSpin(e, e.win)
  /\ Book(c)'.totalSpins = Book(c).totalSpins + IfSpin(e, 1)
  /\ IsSpin(e) => e.round = Book(c).totalSpins + 1
  /\ Book(c).lossLimitReached => Book(c)'.lossLimitReached
  /\ IsSpin(e) /\ Policy[c].limit > 0
       /\ Book(c)'.totalWagered - Book(c)'.totalWon >= Policy[c].limit
       => Book(c)'.lossLimitReached
  /\ e.type = "spin" => ~Book(c).lossLimitReached
  /\ \A s \in Sessions \ {c} : session'[s] = session[s]

\* The totals of every session are numbers.
LEMMA BookTyped ==
  ASSUME TypeOK, NEW s \in Sessions
  PROVE  /\ Book(s).totalWagered \in Nat
         /\ Book(s).totalWon \in Nat
         /\ Book(s).totalSpins \in Nat
         /\ Book(s).lossLimitReached \in BOOLEAN
<1>1. CASE Created(s)
  <2>1. session[s] \in Session /\ Book(s) = session[s]
    BY <1>1 DEF TypeOK, Created, Book
  <2> QED
    BY <2>1 DEF Session
<1>2. CASE ~Created(s)
  BY <1>2 DEF Book
<1> QED
  BY <1>1, <1>2

\* Such an entry keeps the tally of its chain.
LEMMA EnteredOwn ==
  ASSUME TypeOK, NEW c \in Sessions, Tally(c), NEW e, Entered(c, e)
  PROVE  Tally(c)'
<1> DEFINE n == Len(audit[c])
           was == audit[c]
<1>1. PICK chain : chain = audit[c]
  OBVIOUS
<1>2. PICK longer : longer = Append(chain, e)
  OBVIOUS
<1>3. PICK old : old = Book(c)
  OBVIOUS
<1>4. PICK new : new = Book(c)'
  OBVIOUS
<1>5. PICK m : m = Len(chain)
  OBVIOUS
<1>6. PICK limit : limit = Policy[c].limit
  OBVIOUS
<1>7. /\ chain \in Seq(AuditEntry) /\ e \in AuditEntry /\ limit \in Nat
      /\ audit'[c] = longer
  BY <1>1, <1>2, <1>6 DEF TypeOK, Entered
<1>8. /\ m \in Nat /\ Len(longer) = m + 1 /\ longer[m + 1] = e
      /\ \A i \in 1 .. m : longer[i] = chain[i]
  BY <1>2, <1>5, <1>7
<1>9. /\ old.totalWagered \in Nat /\ old.totalWon \in Nat /\ old.totalSpins \in Nat
      /\ Staked(e) \in Nat /\ e.win \in Nat
  BY <1>3, <1>7, BookTyped, StakedTyped DEF AuditEntry
<1>10. /\ new.totalWagered = old.totalWagered + IfSpin(e, Staked(e))
       /\ new.totalWon = old.totalWon + IfSpin(e, e.win)
       /\ new.totalSpins = old.totalSpins + IfSpin(e, 1)
       /\ IsSpin(e) => e.round = old.totalSpins + 1
       /\ old.lossLimitReached => new.lossLimitReached
       /\ IsSpin(e) /\ limit > 0 /\ new.totalWagered - new.totalWon >= limit
            => new.lossLimitReached
       /\ e.type = "spin" => ~old.lossLimitReached
  BY <1>3, <1>4, <1>6 DEF Entered
<1>11. /\ old.totalWagered = BetsOn(chain)
       /\ old.totalWon = WinsOn(chain)
       /\ old.totalSpins = Cardinality(Played(chain))
       /\ old.totalWagered - old.totalWon = LossAfter(chain, m)
  BY <1>1, <1>3, <1>5 DEF Tally, TotalsKept
<1>12. \A i \in Played(chain) : chain[i].round = Cardinality(Played(chain) \cap (1 .. i))
  BY <1>1 DEF Tally, Numbered
<1>13. limit > 0 => \A i \in 0 .. m : LossAfter(chain, i) >= limit => old.lossLimitReached
  BY <1>1, <1>3, <1>5, <1>6 DEF Tally, FlagKept
<1>14. limit > 0 => \A i, j \in 1 .. m :
         i < j /\ LossAfter(chain, i) >= limit => chain[j].type # "spin"
  BY <1>1, <1>5, <1>6 DEF Tally, LossStops
<1>15. /\ Played(longer) = Played(chain) \cup (IF IsSpin(e) THEN {m + 1} ELSE {})
       /\ BetsOn(longer) = BetsOn(chain) + IfSpin(e, Staked(e))
       /\ WinsOn(longer) = WinsOn(chain) + IfSpin(e, e.win)
       /\ Cardinality(Played(longer)) = Cardinality(Played(chain)) + IfSpin(e, 1)
  BY <1>2, <1>5, <1>7, ChainGrows
<1>16. /\ \A i \in 0 .. m : LossAfter(longer, i) = LossAfter(chain, i) /\ LossAfter(chain, i) \in Int
       /\ LossAfter(longer, m + 1) = LossAfter(chain, m) + IfSpin(e, Staked(e) - e.win)
  BY <1>2, <1>5, <1>7, LossGrows
<1>17. Played(chain) \subseteq 1 .. m
  BY <1>5, <1>7, PlayedFinite
<1>18. /\ new.totalWagered = BetsOn(longer)
       /\ new.totalWon = WinsOn(longer)
       /\ new.totalSpins = Cardinality(Played(longer))
  BY <1>10, <1>11, <1>15
<1>19. new.totalWagered - new.totalWon = LossAfter(longer, m + 1)
  BY <1>9, <1>10, <1>11, <1>16 DEF IfSpin
<1>20. ASSUME NEW i \in Played(longer)
       PROVE  longer[i].round = Cardinality(Played(longer) \cap (1 .. i))
  <2>1. CASE i \in Played(chain)
    <3>1. i \in 1 .. m /\ longer[i] = chain[i]
      BY <1>8, <1>17, <2>1
    <3>2. m + 1 \notin 1 .. i
      BY <1>8, <3>1
    <3>3. Played(longer) \cap (1 .. i) = Played(chain) \cap (1 .. i)
      BY <1>15, <3>2
    <3> QED
      BY <1>12, <2>1, <3>1, <3>3
  <2>2. CASE i \notin Played(chain)
    <3>1. IsSpin(e) /\ i = m + 1
      BY <1>15, <2>2
    <3>2. Played(longer) \subseteq 1 .. (m + 1)
      <4>1. 1 .. m \subseteq 1 .. (m + 1) /\ m + 1 \in 1 .. (m + 1)
        BY <1>8
      <4> QED
        BY <1>15, <1>17, <4>1
    <3>3. Played(longer) \cap (1 .. i) = Played(longer)
      BY <3>1, <3>2
    <3>4. longer[i].round = old.totalSpins + 1
      BY <1>8, <1>10, <3>1
    <3> QED
      BY <1>11, <1>15, <3>1, <3>3, <3>4 DEF IfSpin
  <2> QED
    BY <2>1, <2>2
<1>21. ASSUME limit > 0, NEW i \in 0 .. (m + 1), LossAfter(longer, i) >= limit
       PROVE  new.lossLimitReached
  <2>1. CASE i \in 0 .. m
    BY <1>10, <1>13, <1>16, <1>21, <2>1
  <2>2. CASE i = m + 1
    <3>1. CASE IsSpin(e)
      BY <1>10, <1>19, <1>21, <2>2, <3>1
    <3>2. CASE ~IsSpin(e)
      <4>1. m \in 0 .. m /\ LossAfter(chain, m) \in Int
        BY <1>8, <1>16
      <4>2. LossAfter(longer, m + 1) = LossAfter(chain, m)
        BY <1>16, <3>2, <4>1 DEF IfSpin
      <4> QED
        BY <1>10, <1>13, <1>21, <2>2, <4>1, <4>2
    <3> QED
      BY <3>1, <3>2
  <2> QED
    BY <1>8, <2>1, <2>2
<1>22. ASSUME limit > 0, NEW i \in 1 .. (m + 1), NEW j \in 1 .. (m + 1), i < j,
              LossAfter(longer, i) >= limit
       PROVE  longer[j].type # "spin"
  <2>1. i \in 1 .. m /\ i \in 0 .. m /\ LossAfter(chain, i) >= limit
    BY <1>8, <1>16, <1>22
  <2>2. CASE j \in 1 .. m
    BY <1>8, <1>14, <1>22, <2>1, <2>2
  <2>3. CASE j = m + 1
    BY <1>8, <1>10, <1>13, <1>22, <2>1, <2>3
  <2> QED
    BY <1>8, <2>2, <2>3
<1>23. TotalsKept(c)'
  BY <1>4, <1>7, <1>8, <1>18, <1>19 DEF TotalsKept
<1>24. Numbered(c)'
  BY <1>7, <1>20 DEF Numbered
<1>25. FlagKept(c)'
  BY <1>4, <1>6, <1>7, <1>8, <1>21 DEF FlagKept
<1>26. LossStops(c)'
  BY <1>6, <1>7, <1>8, <1>22 DEF LossStops
<1> QED
  BY <1>23, <1>24, <1>25, <1>26 DEF Tally

\* What s's tally reads stays.
LEMMA TallyFrame ==
  ASSUME NEW s, Tally(s), audit'[s] = audit[s], session'[s] = session[s]
  PROVE  Tally(s)'
<1>1. Book(s)' = Book(s)
  BY DEF Book, Created
<1>2. TotalsKept(s)' /\ Numbered(s)'
  BY <1>1 DEF Tally, TotalsKept, Numbered
<1>3. FlagKept(s)' /\ LossStops(s)'
  BY <1>1 DEF Tally, FlagKept, LossStops
<1> QED
  BY <1>2, <1>3 DEF Tally

\* Such an entry keeps the tally of every chain.
LEMMA EnteredAll ==
  ASSUME TypeOK, TallyAll, NEW c \in Sessions, NEW e, Entered(c, e)
  PROVE  TallyAll'
<1>1. ASSUME NEW s \in Sessions PROVE Tally(s)'
  <2>1. Tally(s)
    BY DEF TallyAll
  <2>2. CASE s = c
    BY <2>1, <2>2, EnteredOwn
  <2>3. CASE s # c
    <3>1. audit'[s] = audit[s] /\ session'[s] = session[s]
      BY <2>3 DEF Entered, TypeOK
    <3> QED
      BY <2>1, <3>1, TallyFrame
  <2> QED
    BY <2>2, <2>3
<1> QED
  BY <1>1 DEF TallyAll

\* recordSpin moves the totals by the spin, and raises the flag at the limit.
LEMMA RecordTotals ==
  ASSUME TypeOK, NEW s \in Sessions, Created(s), NEW bet \in Nat, NEW win \in Nat
  PROVE  LET new == RecordSpin(s, bet, win)
         IN  /\ new.totalSpins = session[s].totalSpins + 1
             /\ new.totalWagered = session[s].totalWagered + bet
             /\ new.totalWon = session[s].totalWon + win
             /\ session[s].lossLimitReached => new.lossLimitReached
             /\ Policy[s].limit > 0 /\ new.totalWagered - new.totalWon >= Policy[s].limit
                  => new.lossLimitReached
<1> DEFINE new == RecordSpin(s, bet, win)
           flag == session[s].lossLimitReached
             \/ (Policy[s].limit > 0
                 /\ (session[s].totalWagered + bet) - (session[s].totalWon + win) >= Policy[s].limit)
<1>1. session[s] \in Session
  BY DEF TypeOK, Created
<1>2. RecordSpin(s, bet, win) =
        [session[s] EXCEPT !.totalSpins = session[s].totalSpins + 1,
                           !.totalWagered = session[s].totalWagered + bet,
                           !.totalWon = session[s].totalWon + win,
                           !.lastSpinAt = now,
                           !.lossLimitReached = flag]
  BY DEF RecordSpin
<1> HIDE DEF flag
<1>3. /\ new.totalSpins = session[s].totalSpins + 1
      /\ new.totalWagered = session[s].totalWagered + bet
      /\ new.totalWon = session[s].totalWon + win
      /\ new.lossLimitReached = flag
  BY <1>1, <1>2 DEF Session
<1> HIDE DEF new
<1>4. flag <=> (session[s].lossLimitReached
             \/ (Policy[s].limit > 0
                 /\ (session[s].totalWagered + bet) - (session[s].totalWon + win) >= Policy[s].limit))
  BY DEF flag
<1> QED
  BY <1>3, <1>4 DEF new

\* A spin enters the chain with its number, its wager and its win.
LEMMA SpinEntered ==
  ASSUME TypeOK, NEW s \in Sessions, Created(s), NEW type \in SpinTypes,
         NEW bet \in Nat, NEW shown \in Nat, NEW win \in Wins,
         PlaySpin(s, type, bet, shown, win),
         bet = IF type = "gaas.spin" THEN Rounded(shown) ELSE shown,
         type = "spin" => ~session[s].lossLimitReached
  PROVE  /\ \E e : Entered(s, e)
         /\ Book(s)'.totalWagered = Book(s).totalWagered + bet
         /\ Book(s)'.totalWon = Book(s).totalWon + win
         /\ \A q \in Sessions \ {s} : session'[q] = session[q]
<1> DEFINE round == session[s].totalSpins + 1
           e == [type |-> type, round |-> round, bet |-> shown, win |-> win, at |-> now]
           new == RecordSpin(s, bet, win)
<1>1. session[s] \in Session /\ now \in Nat
  BY DEF TypeOK, Created
<1>2. win \in Nat /\ round \in Nat
  BY <1>1 DEF Session
<1>3. new # NoSession
  <2>1. new \in Session
    BY <1>2, RecordTyped
  <2> HIDE DEF new
  <2> QED
    BY <2>1 DEF Session
<1>4. /\ new.totalSpins = session[s].totalSpins + 1
      /\ new.totalWagered = session[s].totalWagered + bet
      /\ new.totalWon = session[s].totalWon + win
      /\ session[s].lossLimitReached => new.lossLimitReached
      /\ Policy[s].limit > 0 /\ new.totalWagered - new.totalWon >= Policy[s].limit
           => new.lossLimitReached
  BY <1>2, RecordTotals
<1>5. /\ session' = [session EXCEPT ![s] = new]
      /\ audit' = [audit EXCEPT ![s] = Append(audit[s], e)]
  BY DEF PlaySpin, Appended
<1> HIDE DEF new
<1>6. /\ e \in AuditEntry /\ e.type = type /\ Staked(e) = bet /\ e.win = win
      /\ e.round = session[s].totalSpins + 1
  BY <1>1, <1>2 DEF AuditEntry, SpinTypes, Staked
<1> HIDE DEF e, round
<1>7. /\ session'[s] = new
      /\ \A q \in Sessions \ {s} : session'[q] = session[q]
  BY <1>5 DEF TypeOK
<1>8. Book(s) = session[s] /\ Book(s)' = new
  BY <1>3, <1>7 DEF Book, Created
<1>9. IsSpin(e) /\ IfSpin(e, Staked(e)) = bet /\ IfSpin(e, e.win) = win /\ IfSpin(e, 1) = 1
  BY <1>6 DEF IsSpin, IfSpin
<1>10. Entered(s, e)
  <2>1. /\ Book(s)'.totalWagered = Book(s).totalWagered + IfSpin(e, Staked(e))
        /\ Book(s)'.totalWon = Book(s).totalWon + IfSpin(e, e.win)
        /\ Book(s)'.totalSpins = Book(s).totalSpins + IfSpin(e, 1)
        /\ e.round = Book(s).totalSpins + 1
    BY <1>4, <1>6, <1>8, <1>9
  <2>2. /\ Book(s).lossLimitReached => Book(s)'.lossLimitReached
        /\ Policy[s].limit > 0
             /\ Book(s)'.totalWagered - Book(s)'.totalWon >= Policy[s].limit
             => Book(s)'.lossLimitReached
        /\ e.type = "spin" => ~Book(s).lossLimitReached
    BY <1>4, <1>6, <1>8
  <2> QED
    BY <1>5, <1>6, <1>7, <2>1, <2>2 DEF Entered
<1> QED
  BY <1>4, <1>7, <1>8, <1>10

\* An entry that is no spin enters a chain whose session's totals stay.
LEMMA OtherEntered ==
  ASSUME TypeOK, NEW c \in Sessions, NEW type, NEW bet \in Nat,
         type \in {"session.created", "session.closed", "wallet.deposit", "wallet.withdraw"},
         audit' = Appended(c, type, 0, bet, 0),
         Book(c)'.totalWagered = Book(c).totalWagered,
         Book(c)'.totalWon = Book(c).totalWon,
         Book(c)'.totalSpins = Book(c).totalSpins,
         Book(c).lossLimitReached => Book(c)'.lossLimitReached,
         \A s \in Sessions \ {c} : session'[s] = session[s]
  PROVE  \E e : Entered(c, e)
<1> DEFINE e == [type |-> type, round |-> 0, bet |-> bet, win |-> 0, at |-> now]
<1>1. e \in AuditEntry /\ e.type = type
  BY DEF AuditEntry, TypeOK
<1>2. audit' = [audit EXCEPT ![c] = Append(audit[c], e)]
  BY DEF Appended
<1> HIDE DEF e
<1>3. ~IsSpin(e) /\ e.type # "spin"
  BY <1>1 DEF IsSpin, SpinTypes
<1>4. IfSpin(e, Staked(e)) = 0 /\ IfSpin(e, e.win) = 0 /\ IfSpin(e, 1) = 0
  BY <1>3 DEF IfSpin
<1>5. /\ Book(c).totalWagered \in Nat
      /\ Book(c).totalWon \in Nat
      /\ Book(c).totalSpins \in Nat
  BY BookTyped
<1>6. /\ Book(c)'.totalWagered = Book(c).totalWagered + IfSpin(e, Staked(e))
      /\ Book(c)'.totalWon = Book(c).totalWon + IfSpin(e, e.win)
      /\ Book(c)'.totalSpins = Book(c).totalSpins + IfSpin(e, 1)
  BY <1>4, <1>5
<1> QED
  BY <1>1, <1>2, <1>3, <1>6 DEF Entered

\* The totals of every session stay.
TotalsStay ==
  \A s \in Sessions : /\ Book(s)'.totalWagered = Book(s).totalWagered
                      /\ Book(s)'.totalWon = Book(s).totalWon
                      /\ Book(s)'.totalSpins = Book(s).totalSpins

\* A session begins with nothing played, and closing it changes no total.
LEMMA OpenedOrClosed ==
  ASSUME TypeOK, TallyAll, NEW c \in Sessions, Create(c) \/ Close(c)
  PROVE  TallyAll' /\ TotalsStay
<1>1. /\ Book(c)'.totalWagered = Book(c).totalWagered
      /\ Book(c)'.totalWon = Book(c).totalWon
      /\ Book(c)'.totalSpins = Book(c).totalSpins
      /\ Book(c).lossLimitReached => Book(c)'.lossLimitReached
      /\ \A s \in Sessions \ {c} : session'[s] = session[s]
  <2>1. CASE Create(c)
    <3> DEFINE new == [expiresAt |-> now + Policy[c].timeout, lastSpinAt |-> Never,
          totalSpins |-> 0, totalWagered |-> 0, totalWon |-> 0,
          lossLimitReached |-> FALSE, closed |-> FALSE]
    <3>1. now + Policy[c].timeout \in Nat
      BY DEF TypeOK
    <3>2. new \in Session
      BY <3>1 DEF Session
    <3>3. /\ new # NoSession
          /\ new.totalWagered = 0 /\ new.totalWon = 0 /\ new.totalSpins = 0
      BY <3>2 DEF Session
    <3>4. session' = [session EXCEPT ![c] = new] /\ ~Created(c)
      BY <2>1 DEF Create
    <3> HIDE DEF new
    <3>5. session'[c] = new /\ \A s \in Sessions \ {c} : session'[s] = session[s]
      BY <3>4 DEF TypeOK
    <3>6. Book(c)' = new
      BY <3>3, <3>5 DEF Book, Created
    <3>7. /\ Book(c).totalWagered = 0 /\ Book(c).totalWon = 0 /\ Book(c).totalSpins = 0
          /\ ~Book(c).lossLimitReached
      BY <3>4 DEF Book
    <3> QED
      BY <3>3, <3>5, <3>6, <3>7
  <2>2. CASE Close(c)
    <3> DEFINE new == [session[c] EXCEPT !.closed = TRUE]
    <3>1. session[c] \in Session /\ Created(c)
      BY <2>2 DEF TypeOK, Close, Created
    <3>2. /\ new \in Session
          /\ new.totalWagered = session[c].totalWagered /\ new.totalWon = session[c].totalWon
          /\ new.totalSpins = session[c].totalSpins
          /\ new.lossLimitReached = session[c].lossLimitReached
      BY <3>1 DEF Session
    <3>3. session' = [session EXCEPT ![c] = new]
      BY <2>2 DEF Close
    <3> HIDE DEF new
    <3>4. session'[c] = new /\ \A s \in Sessions \ {c} : session'[s] = session[s]
      BY <3>3 DEF TypeOK
    <3>5. Book(c) = session[c] /\ Book(c)' = new
      BY <3>1, <3>2, <3>4 DEF Book, Created, Session
    <3> QED
      BY <3>2, <3>4, <3>5
  <2> QED
    BY <2>1, <2>2
<1>2. \/ audit' = Appended(c, "session.created", 0, 0, 0)
      \/ audit' = Appended(c, "session.closed", 0, 0, 0)
  BY DEF Create, Close
<1>3. \E e : Entered(c, e)
  BY <1>1, <1>2, OtherEntered
<1>4. TallyAll'
  BY <1>3, EnteredAll
<1>5. ASSUME NEW s \in Sessions \ {c} PROVE Book(s)' = Book(s)
  BY <1>1 DEF Book, Created
<1> QED
  BY <1>1, <1>4, <1>5 DEF TotalsStay

\* A deposit or withdrawal, audited or not, keeps the tallies and the totals.
LEMMA AuditOnTallied ==
  ASSUME TypeOK, TallyAll, NEW chain \in Sessions \cup {NoSession}, NEW n \in Nat,
         NEW type \in {"wallet.deposit", "wallet.withdraw"}, AuditOn(chain, type, n),
         session' = session
  PROVE  TallyAll' /\ TotalsStay
<1>1. \A s \in Sessions : Book(s)' = Book(s)
  BY DEF Book, Created
<1>2. TotalsStay
  BY <1>1 DEF TotalsStay
<1>3. CASE audit' = audit
  <2>1. ASSUME NEW s \in Sessions PROVE Tally(s)'
    <3>1. Tally(s) /\ audit'[s] = audit[s] /\ session'[s] = session[s]
      BY <1>3 DEF TallyAll
    <3> QED
      BY <3>1, TallyFrame
  <2> QED
    BY <1>2, <2>1 DEF TallyAll
<1>4. CASE chain # NoSession /\ audit' = Appended(chain, type, 0, n, 0)
  <2>1. chain \in Sessions
    BY <1>4
  <2>2. \E e : Entered(chain, e)
    BY <1>1, <1>4, <2>1, OtherEntered
  <2> QED
    BY <1>2, <2>1, <2>2, EnteredAll
<1> QED
  BY <1>2, <1>3, <1>4 DEF AuditOn

\* The sessions, created or not, that are for p, and what they wagered and won.
Owned(p) == {s \in Sessions : PlayerOf[s] = p}
Spent(p) == SumOver([s \in Owned(p) |-> Book(s).totalWagered], Owned(p))
Earned(p) == SumOver([s \in Owned(p) |-> Book(s).totalWon], Owned(p))

\* What p's statement shows is what p's sessions show.
StatementTally(p) ==
  /\ OnStatement(statement[p], "wager") = Spent(p)
  /\ OnStatement(statement[p], "win") = Earned(p)
StatementTallyAll == \A p \in Players : StatementTally(p)

\* A player's sessions are finitely many, and what they add up to is a number.
LEMMA OwnedFinite ==
  ASSUME TypeOK, NEW p
  PROVE  /\ IsFiniteSet(Owned(p))
         /\ Spent(p) \in Nat /\ Earned(p) \in Nat
<1>1. Owned(p) \subseteq Sessions /\ IsFiniteSet(Owned(p))
  BY FS_Subset DEF Owned
<1>2. \A s \in Owned(p) : Book(s).totalWagered \in Nat /\ Book(s).totalWon \in Nat
  BY <1>1, BookTyped
<1> DEFINE f == [s \in Owned(p) |-> Book(s).totalWagered]
           g == [s \in Owned(p) |-> Book(s).totalWon]
<1>3. \A s \in Owned(p) : f[s] \in Nat /\ g[s] \in Nat
  BY <1>2
<1>4. Spent(p) = SumOver(f, Owned(p)) /\ Earned(p) = SumOver(g, Owned(p))
  BY DEF Spent, Earned
<1> HIDE DEF f, g
<1> QED
  BY <1>1, <1>3, <1>4, SumType

\* When the totals of p's sessions stay, so does what they add up to.
LEMMA SpentStays ==
  ASSUME TypeOK, NEW p,
         \A s \in Owned(p) : /\ Book(s)'.totalWagered = Book(s).totalWagered
                             /\ Book(s)'.totalWon = Book(s).totalWon
  PROVE  Spent(p)' = Spent(p) /\ Earned(p)' = Earned(p)
<1>1. [s \in Owned(p) |-> Book(s)'.totalWagered] = [s \in Owned(p) |-> Book(s).totalWagered]
  OBVIOUS
<1>2. [s \in Owned(p) |-> Book(s)'.totalWon] = [s \in Owned(p) |-> Book(s).totalWon]
  OBVIOUS
<1>3. Owned(p)' = Owned(p)
  BY DEF Owned
<1>4. Spent(p)' = Spent(p)
  BY <1>1, <1>3 DEF Spent
<1>5. Earned(p)' = Earned(p)
  BY <1>2, <1>3 DEF Earned
<1> QED
  BY <1>4, <1>5

\* When the totals of one of p's sessions grow, they add up to as much more.
LEMMA SpentGrows ==
  ASSUME TypeOK, NEW c \in Sessions, NEW p, p = PlayerOf[c], NEW bet \in Nat, NEW win \in Nat,
         Book(c)'.totalWagered = Book(c).totalWagered + bet,
         Book(c)'.totalWon = Book(c).totalWon + win,
         \A s \in Sessions \ {c} : Book(s)' = Book(s)
  PROVE  Spent(p)' = Spent(p) + bet /\ Earned(p)' = Earned(p) + win
<1> DEFINE S == Owned(p)
<1>1. IsFiniteSet(S) /\ S \subseteq Sessions /\ c \in S /\ Spent(p) \in Nat /\ Earned(p) \in Nat
  BY OwnedFinite DEF Owned
<1>2. \A s \in S : Book(s).totalWagered \in Nat /\ Book(s).totalWon \in Nat
  BY <1>1, BookTyped
<1>3. Owned(p)' = S
  BY DEF Owned
<1>4. PICK f : f = [s \in S |-> Book(s).totalWagered]
  OBVIOUS
<1>5. PICK g : g = [s \in S |-> Book(s)'.totalWagered]
  OBVIOUS
<1>6. PICK h : h = [s \in S |-> Book(s).totalWon]
  OBVIOUS
<1>7. PICK k : k = [s \in S |-> Book(s)'.totalWon]
  OBVIOUS
<1>8. Spent(p) = SumOver(f, S) /\ Earned(p) = SumOver(h, S)
  BY <1>4, <1>6 DEF Spent, Earned
<1>9. Spent(p)' = SumOver(g, S) /\ Earned(p)' = SumOver(k, S)
  BY <1>3, <1>5, <1>7 DEF Spent, Earned
<1> HIDE DEF S
<1>10. /\ \A s \in S : f[s] \in Nat /\ h[s] \in Nat
       /\ \A s \in S \ {c} : g[s] = f[s] /\ k[s] = h[s]
       /\ g[c] = f[c] + bet /\ k[c] = h[c] + win
       /\ f[c] \in Nat /\ h[c] \in Nat /\ g[c] \in Nat /\ k[c] \in Nat
  BY <1>1, <1>2, <1>4, <1>5, <1>6, <1>7
<1>11. SumOver(g, S) = SumOver(f, S) - f[c] + g[c]
  BY <1>1, <1>10, SumChange
<1>12. SumOver(k, S) = SumOver(h, S) - h[c] + k[c]
  BY <1>1, <1>10, SumChange
<1> QED
  BY <1>1, <1>8, <1>9, <1>10, <1>11, <1>12

\* Lines that are neither wagers nor wins leave a statement's tally.
LEMMA OtherLine ==
  ASSUME TypeOK, StatementTallyAll, TotalsStay, NEW p \in Players, NEW tx \in Transaction,
         tx.kind \in {"deposit", "withdraw"},
         statement' = [statement EXCEPT ![p] = Append(statement[p], tx)]
  PROVE  StatementTallyAll'
<1>1. ASSUME NEW q \in Players PROVE StatementTally(q)'
  <2>1. Spent(q)' = Spent(q) /\ Earned(q)' = Earned(q)
    BY SpentStays DEF TotalsStay, Owned
  <2>2. /\ OnStatement(statement'[q], "wager") = OnStatement(statement[q], "wager")
        /\ OnStatement(statement'[q], "win") = OnStatement(statement[q], "win")
    <3>1. CASE q # p
      BY <3>1 DEF TypeOK
    <3>2. CASE q = p
      <4>1. PICK lines \in Seq(Transaction) : lines = statement[p]
        BY DEF TypeOK
      <4>2. statement'[p] = Append(lines, tx)
        BY <4>1 DEF TypeOK
      <4>3. /\ OnStatement(Append(lines, tx), "wager") = OnStatement(lines, "wager")
            /\ OnStatement(Append(lines, tx), "win") = OnStatement(lines, "win")
        BY StatementGrows
      <4> QED
        BY <3>2, <4>1, <4>2, <4>3
    <3> QED
      BY <3>1, <3>2
  <2> QED
    BY <2>1, <2>2 DEF StatementTallyAll, StatementTally
<1> QED
  BY <1>1 DEF StatementTallyAll

\* A spin's lines add its wager and its win, as its session's totals do.
LEMMA SpinTallied ==
  ASSUME TypeOK, StatementTallyAll, NEW c \in Sessions, NEW type, NEW bet \in Nat, NEW shown \in Nat,
         NEW win \in Wins, PlaySpin(c, type, bet, shown, win),
         Book(c)'.totalWagered = Book(c).totalWagered + bet,
         Book(c)'.totalWon = Book(c).totalWon + win,
         \A s \in Sessions \ {c} : session'[s] = session[s]
  PROVE  StatementTallyAll'
<1>1. PICK p \in Players : p = PlayerOf[c]
  OBVIOUS
<1>2. /\ win \in Nat /\ bet <= balance[p]
      /\ statement' = [statement EXCEPT ![p] = WagerAndCredit(p, bet, win)]
  BY <1>1 DEF PlaySpin
<1>3. \A s \in Sessions \ {c} : Book(s)' = Book(s)
  BY DEF Book, Created
<1>4. Spent(p)' = Spent(p) + bet /\ Earned(p)' = Earned(p) + win
  BY <1>1, <1>2, <1>3, SpentGrows
<1>5. PICK lines \in Seq(Transaction) : lines = statement[p]
  BY DEF TypeOK
<1>6. PICK w \in Transaction, d \in Transaction : IsSpinStatement(p, bet, win, w, d)
  BY <1>2, SpinLines
<1>7. /\ w.kind = "wager" /\ w.amount = bet /\ d.kind = "win" /\ d.amount = win
      /\ win > 0 => statement'[p] = Append(Append(lines, w), d)
      /\ win = 0 => statement'[p] = Append(lines, w)
  <2>1. statement'[p] = WagerAndCredit(p, bet, win)
    BY <1>2 DEF TypeOK
  <2>2. /\ w.kind = "wager" /\ w.amount = bet /\ d.kind = "win" /\ d.amount = win
        /\ win > 0 => WagerAndCredit(p, bet, win) = Append(Append(statement[p], w), d)
        /\ win = 0 => WagerAndCredit(p, bet, win) = Append(statement[p], w)
    BY <1>6, Zenon DEF IsSpinStatement
  <2> QED
    BY <1>5, <2>1, <2>2
<1>8. PICK wagered \in Seq(Transaction) : wagered = Append(lines, w)
  <2>1. Append(lines, w) \in Seq(Transaction)
    BY AppendProperties
  <2> QED
    BY <2>1
<1>9. /\ OnStatement(wagered, "wager") = OnStatement(lines, "wager") + bet
      /\ OnStatement(wagered, "win") = OnStatement(lines, "win")
      /\ OnStatement(lines, "wager") \in Int /\ OnStatement(lines, "win") \in Int
  <2>1. /\ OnStatement(Append(lines, w), "wager") = OnStatement(lines, "wager") + bet
        /\ OnStatement(lines, "wager") \in Int
    BY <1>7, StatementGrows
  <2>2. /\ OnStatement(Append(lines, w), "win") = OnStatement(lines, "win") + 0
        /\ OnStatement(lines, "win") \in Int
    BY <1>7, StatementGrows
  <2> QED
    BY <1>8, <2>1, <2>2
<1>10. /\ OnStatement(Append(wagered, d), "wager") = OnStatement(wagered, "wager") + 0
       /\ OnStatement(Append(wagered, d), "win") = OnStatement(wagered, "win") + win
       /\ OnStatement(wagered, "wager") \in Int
  BY <1>7, StatementGrows
<1>11. /\ OnStatement(statement'[p], "wager") = OnStatement(lines, "wager") + bet
       /\ OnStatement(statement'[p], "win") = OnStatement(lines, "win") + win
  <2>1. CASE win > 0
    <3>1. statement'[p] = Append(wagered, d)
      BY <1>7, <1>8, <2>1
    <3>2. /\ OnStatement(Append(wagered, d), "wager") = OnStatement(lines, "wager") + bet
          /\ OnStatement(Append(wagered, d), "win") = OnStatement(lines, "win") + win
      BY <1>2, <1>9, <1>10
    <3> QED
      BY <3>1, <3>2
  <2>2. CASE win = 0
    <3>1. statement'[p] = wagered
      BY <1>7, <1>8, <2>2
    <3> QED
      BY <1>9, <2>2, <3>1
  <2> QED
    BY <1>2, <2>1, <2>2
<1>12. ASSUME NEW q \in Players PROVE StatementTally(q)'
  <2>1. CASE q = p
    BY <1>4, <1>5, <1>11, <2>1 DEF StatementTallyAll, StatementTally
  <2>2. CASE q # p
    <3>1. statement'[q] = statement[q]
      BY <1>2, <2>2 DEF TypeOK
    <3>2. Spent(q)' = Spent(q) /\ Earned(q)' = Earned(q)
      <4>1. \A s \in Owned(q) : Book(s)' = Book(s)
        BY <1>1, <1>3, <2>2 DEF Owned
      <4> QED
        BY <4>1, SpentStays
    <3> QED
      BY <3>1, <3>2 DEF StatementTallyAll, StatementTally
  <2> QED
    BY <2>1, <2>2
<1> QED
  BY <1>12 DEF StatementTallyAll

\* When neither a statement nor a total moves, the tally stays.
LEMMA StatementTallyFrame ==
  ASSUME TypeOK, StatementTallyAll, TotalsStay, statement' = statement
  PROVE  StatementTallyAll'
<1>1. ASSUME NEW q \in Players PROVE StatementTally(q)'
  <2>1. Spent(q)' = Spent(q) /\ Earned(q)' = Earned(q)
    BY SpentStays DEF TotalsStay, Owned
  <2> QED
    BY <2>1 DEF StatementTallyAll, StatementTally
<1> QED
  BY <1>1 DEF StatementTallyAll

\* Every step keeps all tallies.
LEMMA TallyStep == TypeOK /\ TallyAll /\ StatementTallyAll /\ [Next]_vars =>
                     TallyAll' /\ StatementTallyAll'
<1> SUFFICES ASSUME TypeOK, TallyAll, StatementTallyAll, [Next]_vars
             PROVE  TallyAll' /\ StatementTallyAll'
  OBVIOUS
<1>1. ASSUME UNCHANGED <<session, audit, statement>> PROVE TallyAll' /\ StatementTallyAll'
  <2>1. ASSUME NEW s \in Sessions PROVE Tally(s)' /\ Book(s)' = Book(s)
    <3>1. Tally(s) /\ audit'[s] = audit[s] /\ session'[s] = session[s]
      BY <1>1 DEF TallyAll
    <3> QED
      BY <3>1, TallyFrame DEF Book, Created
  <2>2. TotalsStay
    BY <2>1 DEF TotalsStay
  <2>3. StatementTallyAll'
    BY <1>1, <2>2, StatementTallyFrame
  <2> QED
    BY <2>1, <2>3 DEF TallyAll
<1>2. ASSUME NEW s \in Sessions, Create(s) \/ Close(s) PROVE TallyAll' /\ StatementTallyAll'
  <2>1. TallyAll' /\ TotalsStay
    BY <1>2, OpenedOrClosed
  <2>2. statement' = statement
    BY <1>2 DEF Create, Close
  <2> QED
    BY <2>1, <2>2, StatementTallyFrame
<1>3. ASSUME NEW s \in Sessions, NEW bet \in Nat, NEW shown \in Nat, NEW win \in Wins,
             NEW type \in SpinTypes, Created(s), PlaySpin(s, type, bet, shown, win),
             bet = IF type = "gaas.spin" THEN Rounded(shown) ELSE shown,
             type = "spin" => ~session[s].lossLimitReached
      PROVE  TallyAll' /\ StatementTallyAll'
  <2>1. /\ \E e : Entered(s, e)
        /\ Book(s)'.totalWagered = Book(s).totalWagered + bet
        /\ Book(s)'.totalWon = Book(s).totalWon + win
        /\ \A q \in Sessions \ {s} : session'[q] = session[q]
    BY <1>3, SpinEntered
  <2>2. TallyAll'
    BY <2>1, EnteredAll
  <2>3. StatementTallyAll'
    BY <1>3, <2>1, SpinTallied
  <2> QED
    BY <2>2, <2>3
<1>4. ASSUME NEW p \in Players, NEW n \in Amounts, NEW chain \in Sessions \cup {NoSession},
             Deposit(p, n, chain) \/ Withdraw(p, n, chain)
      PROVE  TallyAll' /\ StatementTallyAll'
  <2>1. /\ n \in Nat /\ session' = session
        /\ AuditOn(chain, "wallet.deposit", n) \/ AuditOn(chain, "wallet.withdraw", n)
    BY <1>4 DEF Deposit, Withdraw
  <2>2. TallyAll' /\ TotalsStay
    BY <2>1, AuditOnTallied
  <2>3. \E tx \in Transaction :
          /\ tx.kind \in {"deposit", "withdraw"}
          /\ statement' = [statement EXCEPT ![p] = Append(statement[p], tx)]
    BY <1>4, DepositLine, WithdrawLine
  <2>4. StatementTallyAll'
    BY <2>2, <2>3, OtherLine
  <2> QED
    BY <2>2, <2>4
<1>5. ASSUME NEW s \in Sessions, NEW bet \in Bets, NEW win \in Wins, NEW autoplay \in BOOLEAN,
             Spin(s, autoplay, bet, win)
      PROVE  TallyAll' /\ StatementTallyAll'
  <2>1. Created(s) /\ PlaySpin(s, "spin", bet, bet, win) /\ ~session[s].lossLimitReached
    BY <1>5 DEF Spin, DecideSpin
  <2> QED
    BY <1>3, <2>1 DEF SpinTypes
<1>6. ASSUME NEW s \in Sessions, NEW betAmount \in GaasBets, NEW win \in Wins,
             GaasSpin(s, betAmount, win)
      PROVE  TallyAll' /\ StatementTallyAll'
  <2>1. PICK bet \in Nat : bet = Rounded(betAmount)
    BY RoundedTyped
  <2>2. betAmount \in Nat /\ Created(s) /\ PlaySpin(s, "gaas.spin", bet, betAmount, win)
    BY <1>6, <2>1 DEF GaasSpin
  <2> QED
    BY <1>3, <2>1, <2>2 DEF SpinTypes
<1>7. CASE Tick
  BY <1>1, <1>7 DEF Tick
<1>8. CASE UNCHANGED vars
  BY <1>1, <1>8 DEF vars
<1> QED
  BY <1>2, <1>4, <1>5, <1>6, <1>7, <1>8 DEF Next, SpinNext

\* At the start nothing is played and every sum is empty.
LEMMA TallyInit == Init => TallyAll /\ StatementTallyAll
<1> SUFFICES ASSUME Init PROVE TallyAll /\ StatementTallyAll
  OBVIOUS
<1> DEFINE none == << >>
<1>1. Played(none) = {} /\ Len(none) = 0
  BY DEF Played
<1>2. BetsOn(none) = 0 /\ WinsOn(none) = 0 /\ Cardinality(Played(none)) = 0
  BY <1>1, SumEmpty, FS_EmptySet DEF BetsOn, WinsOn
<1>3. \A i : LossAfter(none, i) = 0
  <2>1. \A i : Played(none) \cap (1 .. i) = {}
    BY <1>1
  <2> QED
    BY <2>1, SumEmpty DEF LossAfter
<1>4. \A kind : OnStatement(none, kind) = 0
  <2>1. \A kind : {i \in 1 .. Len(none) : none[i].kind = kind} = {}
    BY <1>1
  <2> QED
    BY <2>1, SumEmpty DEF OnStatement
<1>5. /\ \A s \in Sessions : /\ audit[s] = none /\ ~Created(s)
                             /\ Book(s).totalWagered = 0 /\ Book(s).totalWon = 0
                             /\ Book(s).totalSpins = 0
      /\ \A p \in Players : statement[p] = none
  BY DEF Init, Created, Book
<1> HIDE DEF none
<1>6. ASSUME NEW s \in Sessions PROVE Tally(s)
  <2>1. TotalsKept(s)
    <3>1. Book(s).totalWagered - Book(s).totalWon = 0
      BY <1>5
    <3> QED
      BY <1>1, <1>2, <1>3, <1>5, <3>1 DEF TotalsKept
  <2>2. Numbered(s)
    BY <1>1, <1>5 DEF Numbered
  <2>3. FlagKept(s) /\ LossStops(s)
    BY <1>1, <1>3, <1>5 DEF FlagKept, LossStops
  <2> QED
    BY <2>1, <2>2, <2>3 DEF Tally
<1>7. ASSUME NEW p \in Players PROVE StatementTally(p)
  <2>1. Owned(p) \subseteq Sessions /\ IsFiniteSet(Owned(p))
    BY FS_Subset DEF Owned
  <2> DEFINE f == [s \in Owned(p) |-> Book(s).totalWagered]
             g == [s \in Owned(p) |-> Book(s).totalWon]
  <2>2. \A s \in Owned(p) : f[s] = 0 /\ g[s] = 0
    BY <1>5, <2>1
  <2>3. Spent(p) = SumOver(f, Owned(p)) /\ Earned(p) = SumOver(g, Owned(p))
    BY DEF Spent, Earned
  <2> HIDE DEF f, g
  <2>4. Spent(p) = 0 /\ Earned(p) = 0
    BY <2>1, <2>2, <2>3, SumZero
  <2> QED
    BY <1>4, <1>5, <2>4 DEF StatementTally
<1> QED
  BY <1>6, <1>7 DEF TallyAll, StatementTallyAll

\* The sessions that exist are what p's sessions add up to: the others show 0.
LEMMA TalliesAgree == TypeOK /\ TallyAll /\ StatementTallyAll => StoresAgree
<1> SUFFICES ASSUME TypeOK, TallyAll, StatementTallyAll PROVE StoresAgree
  OBVIOUS
<1>1. ASSUME NEW s \in Sessions, Created(s)
      PROVE  LET chain == audit[s]
                 spins == Played(chain)
             IN  /\ session[s].totalWagered = SumOver([i \in spins |-> Staked(chain[i])], spins)
                 /\ session[s].totalWon = SumOver([i \in spins |-> chain[i].win], spins)
                 /\ session[s].totalSpins = Cardinality(spins)
                 /\ \A i \in spins : chain[i].round = Cardinality(spins \cap (1 .. i))
  BY <1>1 DEF TallyAll, Tally, TotalsKept, Numbered, Book, BetsOn, WinsOn
<1>2. ASSUME NEW p \in Players
      PROVE  LET mine == SessionsOf(p)
             IN  /\ OnStatement(statement[p], "wager")
                      = SumOver([s \in mine |-> session[s].totalWagered], mine)
                 /\ OnStatement(statement[p], "win")
                      = SumOver([s \in mine |-> session[s].totalWon], mine)
  <2> DEFINE S == Owned(p)
             mine == SessionsOf(p)
             f == [s \in S |-> Book(s).totalWagered]
             g == [s \in S |-> Book(s).totalWon]
             h == [s \in mine |-> session[s].totalWagered]
             k == [s \in mine |-> session[s].totalWon]
  <2>1. IsFiniteSet(S) /\ mine \in SUBSET S /\ S \subseteq Sessions
    BY OwnedFinite DEF Owned, SessionsOf
  <2>2. \A s \in S : f[s] \in Nat /\ g[s] \in Nat
    BY <2>1, BookTyped
  <2>3. \A s \in mine : h[s] = f[s] /\ k[s] = g[s]
    BY <2>1 DEF SessionsOf, Book
  <2>4. \A s \in S \ mine : f[s] = 0 /\ g[s] = 0
    BY DEF Owned, SessionsOf, Book
  <2>5. Spent(p) = SumOver(f, S) /\ Earned(p) = SumOver(g, S)
    BY DEF Spent, Earned
  <2> HIDE DEF S, mine, f, g, h, k
  <2>6. SumOver(f, S) = SumOver(h, mine)
    BY <2>1, <2>2, <2>3, <2>4, SumSupport
  <2>7. SumOver(g, S) = SumOver(k, mine)
    BY <2>1, <2>2, <2>3, <2>4, SumSupport
  <2>8. /\ OnStatement(statement[p], "wager") = SumOver(h, mine)
        /\ OnStatement(statement[p], "win") = SumOver(k, mine)
    BY <2>5, <2>6, <2>7 DEF StatementTallyAll, StatementTally
  <2> QED
    BY <2>8 DEF h, k, mine
<1> QED
  BY <1>1, <1>2 DEF StoresAgree

\* Every session's totals and number of spins are those of the spins on its audit
\* chain, numbered without gap or repetition over both routes, and every statement
\* shows wagered and won what the player's sessions show.
THEOREM StoresTellOneStory == Spec => []StoresAgree
<1> QED
  BY TallyInit, TallyStep, TalliesAgree, TypeCorrect, PTL DEF Spec

\* Once a chain has shown a loss of the limit or more, no spin of the session route
\* follows on it, whatever the other route wins back.
THEOREM LossesStopPlay == Spec => []LossStopsPlay
<1>1. TallyAll => LossStopsPlay
  BY DEF TallyAll, Tally, LossStops, LossStopsPlay
<1> QED
  BY <1>1, TallyInit, TallyStep, TypeCorrect, PTL DEF Spec

=============================================================================
