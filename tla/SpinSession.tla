---------------------------- MODULE SpinSession -----------------------------
(***************************************************************************)
(* The session, wallet and audit stores of the server and the routes that  *)
(* drive them: server/state/{sessions,wallet,audit}.ts and                 *)
(* server/routes/{session,gaas,wallet}.ts.  Two paths play a spin: the     *)
(* session route asks decideSpin, executeSpin of the GaaS route does not.  *)
(* No handler awaits between reading and writing a store, so a request is  *)
(* one action; a request that is refused changes nothing and is left out.  *)
(*                                                                         *)
(* Abstractions.  A session is created with the policy of its jurisdiction *)
(* and its loss limit.  The outcome of a spin is any of Wins.  A wallet    *)
(* exists from the start: whichever request creates it gives it the same   *)
(* balance.  The hash of an audit entry is left out: append links each     *)
(* entry to the last of its chain, which the position stands for.  A GaaS  *)
(* betAmount is a whole number of units, PerMinor of them to a minor unit: *)
(* what of it is finer than a unit, and how floats round, is left out.     *)
(***************************************************************************)
EXTENDS Integers, Sequences, FiniteSets, Sums

CONSTANTS
  Players,
  Sessions,
  PlayerOf,         \* PlayerOf[s]: playerId
  Policy,           \* Policy[s]: pacing, autoplay, limit, timeout
  StartingBalance,
  ReviewThreshold,  \* deposits and withdrawals from here on wait for review
  PerMinor,         \* how fine a GaaS betAmount is: units to a minor unit
  Bets,             \* in minor units
  GaasBets,         \* in units
  Wins, Amounts,
  MaxTime,          \* bound: the clock
  MaxRequests,      \* bound: requests served
  NoSession, Never

ASSUME SessionAssumption ==
  /\ IsFiniteSet(Sessions)
  /\ PlayerOf \in [Sessions -> Players]
  /\ Policy \in [Sessions -> [pacing: Nat, autoplay: BOOLEAN, limit: Nat, timeout: Nat]]
  /\ StartingBalance \in Nat
  /\ ReviewThreshold \in Nat
  /\ PerMinor \in Nat \ {0}
  /\ Bets \subseteq Nat \ {0}
  /\ GaasBets \subseteq Nat \ {0}
  /\ Wins \subseteq Nat
  /\ Amounts \subseteq Nat \ {0}
  /\ MaxTime \in Nat
  /\ MaxRequests \in Nat
  /\ NoSession \notin [expiresAt: Nat, lastSpinAt: Nat \cup {Never}, totalSpins: Nat,
                       totalWagered: Nat, totalWon: Nat, lossLimitReached: BOOLEAN,
                       closed: BOOLEAN]
  /\ Never \notin Nat

Session == [expiresAt: Nat, lastSpinAt: Nat \cup {Never}, totalSpins: Nat,
            totalWagered: Nat, totalWon: Nat, lossLimitReached: BOOLEAN,
            closed: BOOLEAN]

Transaction == [kind: {"deposit", "withdraw", "wager", "win"}, amount: Nat,
                status: {"approved", "pending", "declined"}, balanceAfter: Nat]

\* round: the number in the spinId.  bet: betMinor, or the betAmount of a GaaS spin.
AuditEntry ==
  [type: {"session.created", "session.closed", "spin", "gaas.spin",
          "wallet.deposit", "wallet.withdraw"},
   round: Nat, bet: Nat, win: Nat, at: Nat]

VARIABLES
  now,
  requests,   \* served so far (only bounds the model)
  session,    \* session[s], or NoSession
  balance,    \* balance[p]: balanceMinor
  statement,  \* statement[p]: transactionsByPlayer
  audit       \* audit[s]: the chain of s

vars == <<now, requests, session, balance, statement, audit>>

Init ==
  /\ now = 0
  /\ requests = 0
  /\ session = [s \in Sessions |-> NoSession]
  /\ balance = [p \in Players |-> StartingBalance]
  /\ statement = [p \in Players |-> <<>>]
  /\ audit = [s \in Sessions |-> <<>>]

-----------------------------------------------------------------------------

Created(s) == session[s] # NoSession

Served ==
  /\ requests < MaxRequests
  /\ requests' = requests + 1

Appended(s, type, round, bet, win) ==
  [audit EXCEPT ![s] = Append(audit[s],
     [type |-> type, round |-> round, bet |-> bet, win |-> win, at |-> now])]

Tx(kind, amount, status, after) ==
  [kind |-> kind, amount |-> amount, status |-> status, balanceAfter |-> after]

Create(s) ==
  /\ ~Created(s)
  /\ Served
  /\ session' = [session EXCEPT ![s] =
       [expiresAt |-> now + Policy[s].timeout, lastSpinAt |-> Never, totalSpins |-> 0,
        totalWagered |-> 0, totalWon |-> 0, lossLimitReached |-> FALSE, closed |-> FALSE]]
  /\ audit' = Appended(s, "session.created", 0, 0, 0)
  /\ UNCHANGED <<now, balance, statement>>

\* A closed session can be closed again.
Close(s) ==
  /\ Created(s)
  /\ Served
  /\ session' = [session EXCEPT ![s] = [session[s] EXCEPT !.closed = TRUE]]
  /\ audit' = Appended(s, "session.closed", 0, 0, 0)
  /\ UNCHANGED <<now, balance, statement>>

\* decideSpin
DecideSpin(s, autoplay) ==
  /\ ~session[s].closed
  /\ now < session[s].expiresAt
  /\ autoplay => Policy[s].autoplay
  /\ ~session[s].lossLimitReached
  /\ session[s].lastSpinAt # Never => now - session[s].lastSpinAt >= Policy[s].pacing

\* Slips: a win does not show in the session; a later win lowers the flag again.
RecordWagerOnly(s, bet, win) ==
  [session[s] EXCEPT
     !.totalSpins = session[s].totalSpins + 1,
     !.totalWagered = session[s].totalWagered + bet,
     !.lastSpinAt = now,
     !.lossLimitReached = session[s].lossLimitReached
       \/ (Policy[s].limit > 0
           /\ (session[s].totalWagered + bet) - session[s].totalWon >= Policy[s].limit)]

RecordUnlatched(s, bet, win) ==
  [session[s] EXCEPT
     !.totalSpins = session[s].totalSpins + 1,
     !.totalWagered = session[s].totalWagered + bet,
     !.totalWon = session[s].totalWon + win,
     !.lastSpinAt = now,
     !.lossLimitReached =
       /\ Policy[s].limit > 0
       /\ (session[s].totalWagered + bet) - (session[s].totalWon + win) >= Policy[s].limit]

\* recordSpin; the flag, once raised, stays.
RecordSpin(s, bet, win) ==
  [session[s] EXCEPT
     !.totalSpins = session[s].totalSpins + 1,
     !.totalWagered = session[s].totalWagered + bet,
     !.totalWon = session[s].totalWon + win,
     !.lastSpinAt = now,
     !.lossLimitReached = session[s].lossLimitReached
       \/ (Policy[s].limit > 0
           /\ (session[s].totalWagered + bet) - (session[s].totalWon + win) >= Policy[s].limit)]

\* A slip: the win is on the statement before the wager is off the balance.
CreditOnOldBalance(p, bet, win) ==
  LET wagerTx == Tx("wager", bet, "approved", balance[p] - bet)
  IN  IF win > 0
      THEN Append(Append(statement[p], wagerTx), Tx("win", win, "approved", balance[p] + win))
      ELSE Append(statement[p], wagerTx)

\* wager, and credit when there is a win: the statement they leave.
WagerAndCredit(p, bet, win) ==
  LET wagerTx == Tx("wager", bet, "approved", balance[p] - bet)
  IN  IF win > 0
      THEN Append(Append(statement[p], wagerTx),
                  Tx("win", win, "approved", (balance[p] - bet) + win))
      ELSE Append(statement[p], wagerTx)

\* What both spin paths do once they have accepted the spin: bet is wagered and
\* recorded, shown is audited.  wager throws on a bet of nothing.
PlaySpin(s, type, bet, shown, win) ==
  LET p == PlayerOf[s]
  IN  /\ Served
      /\ bet > 0
      /\ bet <= balance[p]
      /\ balance' = [balance EXCEPT ![p] = (balance[p] - bet) + win]
      /\ statement' = [statement EXCEPT ![p] = WagerAndCredit(p, bet, win)]
      /\ session' = [session EXCEPT ![s] = RecordSpin(s, bet, win)]
      /\ audit' = Appended(s, type, session[s].totalSpins + 1, shown, win)
      /\ UNCHANGED now

\* POST /api/session/:sessionId/spin
Spin(s, autoplay, bet, win) ==
  /\ Created(s)
  /\ DecideSpin(s, autoplay)
  /\ PlaySpin(s, "spin", bet, bet, win)

\* Math.round(betAmount * 100): the nearest minor unit, up from a half.
Rounded(betAmount) == (2 * betAmount + PerMinor) \div (2 * PerMinor)

\* executeSpin, from REST or from a socket; it only asks whether s is closed, and
\* it audits the betAmount it was sent.
GaasSpin(s, betAmount, win) ==
  /\ Created(s)
  /\ ~session[s].closed
  /\ PlaySpin(s, "gaas.spin", Rounded(betAmount), betAmount, win)

\* The chain a deposit or withdrawal is audited on is the caller's choice.
AuditOn(chain, type, n) ==
  \/ /\ chain = NoSession
     /\ UNCHANGED audit
  \/ /\ chain # NoSession
     /\ Created(chain)
     /\ audit' = Appended(chain, type, 0, n, 0)

\* A large deposit is pending, and nothing ever completes it.
Deposit(p, n, chain) ==
  LET approved == n < ReviewThreshold
      after == IF approved THEN balance[p] + n ELSE balance[p]
  IN  /\ Served
      /\ balance' = [balance EXCEPT ![p] = after]
      /\ statement' = [statement EXCEPT ![p] = Append(statement[p],
           Tx("deposit", n, IF approved THEN "approved" ELSE "pending", after))]
      /\ AuditOn(chain, "wallet.deposit", n)
      /\ UNCHANGED <<now, session>>

WithdrawStatus(p, n) ==
  IF n > balance[p] THEN "declined"
  ELSE IF n >= ReviewThreshold THEN "pending" ELSE "approved"

Withdraw(p, n, chain) ==
  LET status == WithdrawStatus(p, n)
      after == IF status = "approved" THEN balance[p] - n ELSE balance[p]
  IN  /\ Served
      /\ balance' = [balance EXCEPT ![p] = after]
      /\ statement' = [statement EXCEPT ![p] =
           Append(statement[p], Tx("withdraw", n, status, after))]
      /\ AuditOn(chain, "wallet.withdraw", n)
      /\ UNCHANGED <<now, session>>

Tick ==
  /\ now < MaxTime
  /\ now' = now + 1
  /\ UNCHANGED <<requests, session, balance, statement, audit>>

SpinNext ==
  \E s \in Sessions, win \in Wins :
    \/ \E bet \in Bets, autoplay \in BOOLEAN : Spin(s, autoplay, bet, win)
    \/ \E betAmount \in GaasBets : GaasSpin(s, betAmount, win)

Next ==
  \/ \E s \in Sessions : Create(s) \/ Close(s)
  \/ SpinNext
  \/ \E p \in Players, n \in Amounts, chain \in Sessions \cup {NoSession} :
       Deposit(p, n, chain) \/ Withdraw(p, n, chain)
  \/ Tick

Spec == Init /\ [][Next]_vars

-----------------------------------------------------------------------------

SpinTypes == {"spin", "gaas.spin"}

TypeOK ==
  /\ now \in Nat
  /\ requests \in Nat
  /\ session \in [Sessions -> Session \cup {NoSession}]
  /\ balance \in [Players -> Nat]
  /\ statement \in [Players -> Seq(Transaction)]
  /\ audit \in [Sessions -> Seq(AuditEntry)]

Effect(tx) ==
  IF tx.status # "approved" THEN 0
  ELSE IF tx.kind \in {"deposit", "win"} THEN tx.amount
  ELSE -tx.amount

\* A player's statement adds up: each line's balance is the one before it with
\* the line's effect, nothing for a deposit in review or a refused withdrawal,
\* and the last is the wallet's balance, whatever sessions and routes wrote it.
StatementAddsUp ==
  \A p \in Players :
    LET lines == statement[p]
    IN  /\ \A i \in 1 .. Len(lines) :
             lines[i].balanceAfter =
               (IF i = 1 THEN StartingBalance ELSE lines[i - 1].balanceAfter) + Effect(lines[i])
        /\ balance[p] =
             IF lines = <<>> THEN StartingBalance ELSE lines[Len(lines)].balanceAfter

\* Where a chain shows a spin.
Played(chain) == {i \in 1 .. Len(chain) : chain[i].type \in SpinTypes}

\* The minor units a spin on a chain wagered.
Staked(entry) == IF entry.type = "gaas.spin" THEN Rounded(entry.bet) ELSE entry.bet

\* What the lines of a kind add up to.
OnStatement(lines, kind) ==
  LET shown == {i \in 1 .. Len(lines) : lines[i].kind = kind}
  IN  SumOver([i \in shown |-> lines[i].amount], shown)

SessionsOf(p) == {s \in Sessions : Created(s) /\ PlayerOf[s] = p}

\* The three stores tell one story, once it is known how to read a GaaS bet.  A
\* session's totals and its number of spins are those of the spins on its audit
\* chain, the betAmount of a GaaS spin rounded to minor units, and the spins are
\* numbered without gap or repetition over both routes (the number also seeds the
\* outcome); and what a player's statement shows wagered and won is what the
\* sessions of the player show.  Bets as the chain has them need not add up: a
\* GaaS spin may differ by half a minor unit.
StoresAgree ==
  /\ \A s \in Sessions : Created(s) =>
       LET chain == audit[s]
           spins == Played(chain)
       IN  /\ session[s].totalWagered = SumOver([i \in spins |-> Staked(chain[i])], spins)
           /\ session[s].totalWon = SumOver([i \in spins |-> chain[i].win], spins)
           /\ session[s].totalSpins = Cardinality(spins)
           /\ \A i \in spins : chain[i].round = Cardinality(spins \cap (1 .. i))
  /\ \A p \in Players :
       LET mine == SessionsOf(p)
       IN  /\ OnStatement(statement[p], "wager")
                = SumOver([s \in mine |-> session[s].totalWagered], mine)
           /\ OnStatement(statement[p], "win")
                = SumOver([s \in mine |-> session[s].totalWon], mine)

\* What the audit shows of the session route keeps the policy: a spin is played
\* before the session expires and before it is closed, and no sooner after any
\* spin, GaaS spins included, than the pacing allows.
SpinsKeepPolicy ==
  \A s \in Sessions : \A j \in 1 .. Len(audit[s]) :
    audit[s][j].type = "spin" =>
      /\ audit[s][j].at < session[s].expiresAt
      /\ \A i \in 1 .. j - 1 :
           /\ audit[s][i].type # "session.closed"
           /\ audit[s][i].type \in SpinTypes =>
                audit[s][j].at - audit[s][i].at >= Policy[s].pacing

\* The loss that the first n entries of a chain show, in the minor units wagered.
LossAfter(chain, n) ==
  LET spins == Played(chain)
  IN  SumOver([i \in spins |-> Staked(chain[i]) - chain[i].win], spins \cap (1 .. n))

\* "Optional per-session loss limit; once exceeded ... spins return an error"
\* (sessions.ts): after a chain has shown a loss of the limit or more, no spin of
\* the session route follows, even if GaaS spins have won the money back.  The loss
\* is of what was wagered: the betAmounts of GaaS spins may show the limit before.
LossStopsPlay ==
  \A s \in Sessions : Policy[s].limit > 0 =>
    \A i, j \in 1 .. Len(audit[s]) :
      i < j /\ LossAfter(audit[s], i) >= Policy[s].limit => audit[s][j].type # "spin"

=============================================================================
