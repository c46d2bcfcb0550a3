------------------------------ MODULE PgStores -------------------------------
(***************************************************************************)
(* The Postgres stores of the server: server/state/{wallet,audit,sessions} *)
(* -pg.ts over withTransaction of server/db/connection.ts and the tables   *)
(* of 001_initial.sql.  A call takes a client of the pool, reads and locks *)
(* the row it is about, writes, commits and gives the client back; calls   *)
(* interleave between statements, any statement may fail, and the answer   *)
(* to a COMMIT may be lost after the database has carried it out.          *)
(*                                                                         *)
(* External.  Transactions run at the default level, READ COMMITTED: a     *)
(* locking statement waits for the row and then sees its last committed    *)
(* version; ORDER BY ... LIMIT 1 FOR UPDATE has already chosen its row;    *)
(* an insert waits for an uncommitted one of the same unique key.          *)
(*                                                                         *)
(* Abstractions.  Currencies and times are left out: decideSpin may refuse *)
(* a spin for its pacing or its age whenever it likes, and a refused call  *)
(* is no step.  A spin is its net result.  The hash of an audit entry is   *)
(* the number of the call that wrote it.                                   *)
(***************************************************************************)
EXTENDS Integers, Sequences, FiniteSets, Sums

CONSTANTS
  Callers,          \* requests under way
  Accounts,         \* player_id of wallet_balances
  Chains,           \* session_id of audit_log
  Sessions,         \* session_id of sessions
  StartingBalance,
  ReviewThreshold,
  LossLimit,        \* lossLimitMinor; 0: none
  Amounts, Nets,
  MaxBet,           \* no spin loses more
  MaxClients,       \* PG_POOL_MAX
  MaxCalls,         \* bound: calls
  None

WalletKinds == {"deposit", "withdraw", "wager", "credit"}

Op == [kind: WalletKinds, key: Accounts, n: Amounts]
        \cup [kind: {"getOrCreate"}, key: Accounts, n: {0}]
        \cup [kind: {"append"}, key: Chains, n: {0}]
        \cup [kind: {"recordSpin"}, key: Sessions, n: Nets]
        \cup [kind: {"close"}, key: Sessions, n: {0}]

SessionState == [net: Int, lossLimitReached: BOOLEAN, closed: BOOLEAN]

Entry == [seq: Nat, id: Nat, prev: Nat]

ASSUME PgAssumption ==
  /\ IsFiniteSet(Callers)
  /\ Accounts \cap Chains = {} /\ Accounts \cap Sessions = {} /\ Chains \cap Sessions = {}
  /\ StartingBalance \in Nat
  /\ ReviewThreshold \in Nat
  /\ LossLimit \in Nat
  /\ Amounts \subseteq Nat \ {0}
  /\ MaxBet \in Nat
  /\ Nets \subseteq {n \in Int : -n <= MaxBet}
  /\ MaxClients \in Nat \ {0}
  /\ MaxCalls \in Nat
  /\ None \notin Callers \cup Accounts \cup Chains \cup Sessions \cup Int
  /\ None \notin Op /\ None \notin SessionState /\ None \notin Entry

OnWallet(op) == op.key \in Accounts
OnSession(op) == op.key \in Sessions

VARIABLES
  call,     \* call[c]: what c is doing
  told,     \* told[i]: what the i-th call was answered
  free,     \* clients in the pool
  lock,     \* the rows locked, each with its holder
  serial,   \* last transaction_id drawn
  balance,  \* wallet_balances
  rows,     \* wallet_transactions; no: transaction_id, drawn by the insert
  audit,    \* audit_log; prev: the call whose entry this one is linked to
  session,  \* sessions
  log       \* the transactions in the order they committed (history)

db == <<balance, rows, audit, session, log>>
pgVars == <<call, told, free, lock, serial, db>>

\* The call of c ends; only then are its fields out of use.
Idle == [pc |-> "idle", op |-> None, id |-> 0, seen |-> None, draft |-> None]

PgInit ==
  /\ call = [c \in Callers |-> Idle]
  /\ told = <<>>
  /\ free = MaxClients
  /\ lock = {}
  /\ serial = 0
  /\ balance = [a \in Accounts |-> None]
  /\ rows = [a \in Accounts |-> {}]
  /\ audit = [k \in Chains |-> {}]
  /\ session = [s \in Sessions |-> None]
  /\ log = <<>>

-----------------------------------------------------------------------------

Started(c, op, pc) ==
  /\ call[c].pc = "idle"
  /\ Len(told) < MaxCalls
  /\ told' = Append(told, "pending")
  /\ call' = [call EXCEPT ![c] = [pc |-> pc, op |-> op, id |-> Len(told) + 1,
                                  seen |-> None, draft |-> None]]

\* A wallet call, append, or close of a session there is (of another it returns
\* null): wait for a client.
Call(c, op) ==
  /\ op.kind # "recordSpin"
  /\ OnSession(op) => session[op.key] # None
  /\ Started(c, op, "waiting")
  /\ UNCHANGED <<free, lock, serial, db>>

\* create: one statement on a client of the pool.
Create(s) ==
  /\ free > 0
  /\ session[s] = None
  /\ session' = [session EXCEPT ![s] = [net |-> 0, lossLimitReached |-> FALSE, closed |-> FALSE]]
  /\ UNCHANGED <<call, told, free, lock, serial, balance, rows, audit, log>>

\* A slip: decideSpin forgets the flag.
DecideWithoutFlag(c, op) ==
  /\ op.kind = "recordSpin"
  /\ free > 0
  /\ session[op.key] # None
  /\ ~session[op.key].closed
  /\ Started(c, op, "allowed")
  /\ UNCHANGED <<free, lock, serial, db>>

\* decideSpin reads the session without a lock and allows the spin; its result
\* is recorded later, by another transaction.
DecideSpin(c, op) ==
  /\ op.kind = "recordSpin"
  /\ free > 0
  /\ session[op.key] # None
  /\ ~session[op.key].closed
  /\ ~session[op.key].lossLimitReached
  /\ Started(c, op, "allowed")
  /\ UNCHANGED <<free, lock, serial, db>>

Become(c, pc) == call' = [call EXCEPT ![c].pc = pc]

Tell(c, answer) == told' = [told EXCEPT ![call[c].id] = answer]

\* The caller has the outcome and calls recordSpin, or could not take the wager.
Play(c) ==
  /\ call[c].pc = "allowed"
  /\ \/ /\ Become(c, "waiting")
        /\ UNCHANGED told
     \/ /\ call' = [call EXCEPT ![c] = Idle]
        /\ Tell(c, "failed")
  /\ UNCHANGED <<free, lock, serial, db>>

\* pool.connect() rejects: there is no client to give back.
ConnectFails(c) ==
  /\ call[c].pc = "waiting"
  /\ Tell(c, "failed")
  /\ call' = [call EXCEPT ![c] = Idle]
  /\ UNCHANGED <<free, lock, serial, db>>

\* pool.connect() and BEGIN
Begin(c) ==
  /\ call[c].pc = "waiting"
  /\ free > 0
  /\ free' = free - 1
  /\ Become(c, "begun")
  /\ UNCHANGED <<told, lock, serial, db>>

-----------------------------------------------------------------------------

Locked(row) == \E l \in lock : l.row = row

\* A slip: the row is read with no lock.
ReadPlain(c, row) == lock' = lock

\* INSERT ... ON CONFLICT DO UPDATE, and SELECT ... FOR UPDATE
ReadForUpdate(c, row) ==
  /\ ~Locked(row)
  /\ lock' = lock \cup {[row |-> row, holder |-> c]}

Seen(c, value) == call' = [call EXCEPT ![c].pc = "read", ![c].seen = value]

\* The first statement of every wallet call makes the row if there is none.
EnsureBalance(c) ==
  LET a == call[c].op.key
  IN  /\ call[c].pc = "begun"
      /\ OnWallet(call[c].op)
      /\ ReadForUpdate(c, a)
      /\ Seen(c, IF balance[a] = None THEN StartingBalance ELSE balance[a])
      /\ UNCHANGED <<told, free, serial, db>>

\* recordSpin throws on a closed session.
ReadSession(c) ==
  LET s == call[c].op.key
  IN  /\ call[c].pc = "begun"
      /\ OnSession(call[c].op)
      /\ ReadForUpdate(c, s)
      /\ IF session[s].closed /\ call[c].op.kind = "recordSpin"
         THEN Become(c, "thrown")
         ELSE Seen(c, session[s])
      /\ UNCHANGED <<told, free, serial, db>>

LastEntry(k) == CHOOSE r \in audit[k] : \A q \in audit[k] : q.seq <= r.seq

\* append chooses the last entry ...
ReadHead(c) ==
  LET k == call[c].op.key
  IN  /\ call[c].pc = "begun"
      /\ k \in Chains
      /\ IF audit[k] = {}
         THEN Seen(c, [seq |-> -1, id |-> 0])
         ELSE call' = [call EXCEPT ![c].pc = "heads",
                                   ![c].seen = [seq |-> LastEntry(k).seq, id |-> LastEntry(k).id]]
      /\ UNCHANGED <<told, free, lock, serial, db>>

\* ... and then waits for it; what was appended meanwhile it does not see.
LockHead(c) ==
  /\ call[c].pc = "heads"
  /\ ReadForUpdate(c, <<call[c].op.key, call[c].seen.seq>>)
  /\ Become(c, "read")
  /\ UNCHANGED <<told, free, serial, db>>

-----------------------------------------------------------------------------

Drafted(c, draft) == call' = [call EXCEPT ![c].pc = "written", ![c].draft = draft]

\* A withdrawal is declined before it is sent to review.
WalletStatus(op, before) ==
  IF op.kind = "withdraw" /\ op.n > before THEN "declined"
  ELSE IF op.kind \in {"deposit", "withdraw"} /\ op.n >= ReviewThreshold THEN "pending"
  ELSE "approved"

Credits == {"deposit", "credit"}

After(op, before) ==
  IF WalletStatus(op, before) # "approved" THEN before
  ELSE IF op.kind \in Credits THEN before + op.n ELSE before - op.n

\* UPDATE the balance and INSERT the transaction; getOrCreate, and a wager
\* beyond the balance, leave no transaction.
WriteWallet(c) ==
  LET op == call[c].op
      before == call[c].seen
      silent == op.kind = "getOrCreate" \/ (op.kind = "wager" /\ op.n > before)
  IN  /\ call[c].pc = "read"
      /\ OnWallet(op)
      /\ IF silent
         THEN /\ Drafted(c, [balance |-> before, row |-> {}])
              /\ UNCHANGED serial
         ELSE /\ serial' = serial + 1
              /\ Drafted(c, [balance |-> After(op, before),
                             row |-> {[no |-> serial + 1, kind |-> op.kind, n |-> op.n,
                                       status |-> WalletStatus(op, before),
                                       after |-> After(op, before)]}])
      /\ UNCHANGED <<told, free, lock, db>>

Spun(state, net) ==
  [state EXCEPT !.net = state.net + net,
                !.lossLimitReached = state.lossLimitReached
                  \/ (LossLimit > 0 /\ -(state.net + net) >= LossLimit)]

\* The rest of recordSpin and of close: UPDATE sessions
WriteSession(c) ==
  /\ call[c].pc = "read"
  /\ OnSession(call[c].op)
  /\ Drafted(c, IF call[c].op.kind = "close" THEN [call[c].seen EXCEPT !.closed = TRUE]
                ELSE Spun(call[c].seen, call[c].op.n))
  /\ UNCHANGED <<told, free, lock, serial, db>>

\* A slip: audit_log has no UNIQUE (session_id, seq).
AnySeq(k, seq) == FALSE

\* UNIQUE (session_id, seq)
SeqTaken(k, seq) == \E r \in audit[k] : r.seq = seq

\* An insert of seq that has neither committed nor rolled back.
SeqInDoubt(c, k, seq) ==
  \E d \in Callers \ {c} :
    /\ call[d].op # None
    /\ call[d].op.key = k
    /\ call[d].draft # None
    /\ call[d].draft.seq = seq

\* INSERT INTO audit_log
WriteAudit(c) ==
  LET k == call[c].op.key
      seq == call[c].seen.seq + 1
  IN  /\ call[c].pc = "read"
      /\ k \in Chains
      /\ ~SeqInDoubt(c, k, seq)
      /\ IF SeqTaken(k, seq) THEN Become(c, "thrown")
         ELSE Drafted(c, [seq |-> seq, id |-> call[c].id, prev |-> call[c].seen.id])
      /\ UNCHANGED <<told, free, lock, serial, db>>

-----------------------------------------------------------------------------

LocksDropped(c) == lock' = {l \in lock : l.holder # c}

Applied(c) ==
  LET key == call[c].op.key
      draft == call[c].draft
  IN  /\ log' = Append(log, [op |-> call[c].op, id |-> call[c].id])
      /\ balance' = IF key \in Accounts THEN [balance EXCEPT ![key] = draft.balance] ELSE balance
      /\ rows' = IF key \in Accounts THEN [rows EXCEPT ![key] = @ \cup draft.row] ELSE rows
      /\ audit' = IF key \in Chains THEN [audit EXCEPT ![key] = @ \cup {draft}] ELSE audit
      /\ session' = IF key \in Sessions THEN [session EXCEPT ![key] = draft] ELSE session
      /\ LocksDropped(c)

\* COMMIT, release and the answer
Commit(c) ==
  /\ call[c].pc = "written"
  /\ Applied(c)
  /\ free' = free + 1
  /\ Tell(c, "ok")
  /\ call' = [call EXCEPT ![c] = Idle]
  /\ UNCHANGED serial

\* COMMIT carried out, its answer lost: the call goes on to its catch.
CommitUnheard(c) ==
  /\ call[c].pc = "written"
  /\ Applied(c)
  /\ call' = [call EXCEPT ![c].pc = "thrown", ![c].draft = None]
  /\ UNCHANGED <<told, free, serial>>

\* A statement fails: a timeout, a lost connection, a restarted process.
StatementFails(c) ==
  /\ call[c].pc \in {"begun", "heads", "read", "written"}
  /\ Become(c, "thrown")
  /\ UNCHANGED <<told, free, lock, serial, db>>

\* A slip: a failed call keeps its client.
KeepsClient(c) == free

Released(c) == free + 1

\* A slip: a call that failed is made again.
TryAgain(c) ==
  /\ call[c].pc = "thrown"
  /\ LocksDropped(c)
  /\ free' = free + 1
  /\ call' = [call EXCEPT ![c] = [Idle EXCEPT !.pc = "waiting", !.op = call[c].op, !.id = call[c].id]]
  /\ UNCHANGED <<told, serial, db>>

\* ROLLBACK, release and the rethrown error
Rollback(c) ==
  /\ call[c].pc = "thrown"
  /\ LocksDropped(c)
  /\ free' = Released(c)
  /\ Tell(c, "failed")
  /\ call' = [call EXCEPT ![c] = Idle]
  /\ UNCHANGED <<serial, db>>

\* What a call does on its way to its end when nothing goes wrong, and the catch.
Step(c) ==
  \/ Play(c) \/ Begin(c)
  \/ EnsureBalance(c) \/ ReadSession(c) \/ ReadHead(c) \/ LockHead(c)
  \/ WriteWallet(c) \/ WriteSession(c) \/ WriteAudit(c)
  \/ Commit(c) \/ Rollback(c)

PgNext ==
  \/ \E c \in Callers, op \in Op : Call(c, op) \/ DecideSpin(c, op)
  \/ \E s \in Sessions : Create(s)
  \/ \E c \in Callers : Step(c) \/ ConnectFails(c) \/ StatementFails(c) \/ CommitUnheard(c)

\* Statements are answered, and the database and the pool serve their queues in
\* order; nothing says that a call is made.
PgSpec == PgInit /\ [][PgNext]_pgVars /\ \A c \in Callers : WF_pgVars(Step(c))

-----------------------------------------------------------------------------

Effect(r) == IF r.status # "approved" THEN 0 ELSE IF r.kind \in Credits THEN r.n ELSE -r.n

Latest(S) == CHOOSE r \in S : \A q \in S : q.no <= r.no

\* The balance after the transactions of S.
BalanceAfter(S) == IF S = {} THEN StartingBalance ELSE Latest(S).after

\* "concurrent debits cannot overdraw the balance" (wallet-pg.ts): read in the
\* order of their numbers, a player's transactions replay the balance from the
\* starting one, each line to the balance it states and never below zero, and
\* the last is the balance stored, however many calls interleaved.
StatementReplays ==
  \A a \in Accounts : balance[a] # None =>
    /\ balance[a] = BalanceAfter(rows[a])
    /\ \A r \in rows[a] :
         /\ r.after = BalanceAfter({q \in rows[a] : q.no < r.no}) + Effect(r)
         /\ r.after >= 0
         /\ \A q \in rows[a] : q.no = r.no => q = r

\* "The hash chain is preserved" (audit-pg.ts): the entries of a session are
\* numbered from 0 without gap or fork and each is linked to the one before it,
\* although two appends may have read the same head, or both found none.
ChainUnbroken ==
  \A k \in Chains :
    /\ {r.seq : r \in audit[k]} = 0 .. Cardinality(audit[k]) - 1
    /\ \A r \in audit[k] :
         IF r.seq = 0 THEN r.prev = 0
         ELSE \E q \in audit[k] : q.seq = r.seq - 1 /\ q.id = r.prev

\* Where the log is about session s.
Logged(s) == {i \in 1 .. Len(log) : log[i].op.key = s}

\* No spin is lost or counted twice and none follows the close: the net result
\* of a session is the sum over its recorded spins, which all committed before
\* it was closed.
SpinsAreCounted ==
  \A s \in Sessions : session[s] # None =>
    /\ session[s].net = SumOver([i \in Logged(s) |-> log[i].op.n], Logged(s))
    /\ session[s].closed = (\E i \in Logged(s) : log[i].op.kind = "close")
    /\ \A i, j \in Logged(s) :
         i < j /\ log[i].op.kind = "close" => log[j].op.kind = "close"

\* decideSpin holds no lock until recordSpin, so concurrent spins pass the loss
\* limit; but no further than one bet of each request under way.
OvershootBounded ==
  LossLimit > 0 =>
    \A s \in Sessions : session[s] # None =>
      -session[s].net <= LossLimit - 1 + Cardinality(Callers) * MaxBet

\* A call that was told it succeeded committed, exactly once; no call, whatever
\* it was told, committed twice.  (The converse fails: a COMMIT may go unheard.)
AnswersAreKept ==
  /\ \A i \in 1 .. Len(told) : told[i] = "ok" => \E j \in 1 .. Len(log) : log[j].id = i
  /\ \A i, j \in 1 .. Len(log) : log[i].id = log[j].id => i = j

\* Nobody waits for ever, for a row, a key or a client of the pool: every call
\* under way ends, answered or failed.
CallsEnd == \A c \in Callers : (call[c].pc # "idle") ~> (call[c].pc = "idle")

=============================================================================
