--------------------------- MODULE WalletSpinFlow ---------------------------
(***************************************************************************)
(* WalletOrchestrator.runSpinFlow (server/lib/wallet/orchestrator.ts):     *)
(* debit the bet, play, credit the win, roll the debit back when the game  *)
(* or the credit fails.  Many flows run at once; the code between two      *)
(* awaits is one action.                                                   *)
(*                                                                         *)
(* The provider and the network between are external: a request may be     *)
(* handled late or never, an answer may be lost or unreadable, and the     *)
(* call then ends in provider_timeout, provider_unavailable (also the code *)
(* of a 5xx) or unknown.  The provider books each ref once and repeats its *)
(* answer for a ref it knows.                                              *)
(* Amounts are those of the win; the bet is one fixed stake.               *)
(***************************************************************************)
EXTENDS WalletProviders

CONSTANTS
  Spins,        \* the refs: one per spin
  TenantOf,     \* TenantOf[s]: the tenant whose player spins
  WinAmounts,   \* what the game may pay, 0 included
  Failures,     \* how a call may end without the provider's answer
  MaxTries,     \* bound, per spin: calls of runSpinFlow with its ref
  NoTx

\* The error codes of a call that ended without the provider's answer.
Unanswered == {"provider_timeout", "provider_unavailable", "unknown"}

ASSUME SpinAssumption ==
  /\ TenantOf \in [Spins -> Tenants]
  /\ WinAmounts \subseteq Nat
  /\ Failures \subseteq Unanswered
  /\ MaxTries \in [Spins -> Nat]
  /\ NoTx \notin Nat

Codes == Unanswered \cup
  {"insufficient_funds", "auth_failed", "invalid_signature", "unknown_ref",
   "duplicate_ref", "game_failed"}

Legs == {"debit", "credit", "rollback"}

\* The idempotency keys of the two bookings of a spin: ref and `${ref}-win`.
DebitRef(s) == <<s, "bet">>
\* A slip: the debit's ref used again.
DebitRefAgain(s) == <<s, "bet">>

WinRef(s) == <<s, "win">>

Refs == Spins \X {"bet", "win"}

Request == [spin: Spins, try: Nat, leg: Legs, ref: Refs,
            amount: Nat, secret: Secrets]

VARIABLES
  flow,      \* flow[s]: where the latest call of runSpinFlow for s stands
  wire,      \* requests the provider has not handled yet
  answer,    \* answer[s]: the answer to what s awaits, on its way back
  booked,    \* booked[ref]: amount booked by the provider under ref, or NoTx
  reversed   \* refs the provider has reversed

flowVars == <<flow, wire, answer>>
ledgerVars == <<booked, reversed>>
vars == <<flow, wire, answer, booked, reversed, config, instance, providerSecret>>

\* pc: the leg awaited, "game" during playSpin, or "done" with the result:
\* the legs whose transactions it carries, and its errorCode.
Idle == [pc |-> "idle", try |-> 0, win |-> 0, error |-> "none", legs |-> {}]

Flow == [pc: {"idle", "game", "done"} \cup Legs, try: Nat,
         win: WinAmounts \cup {0}, error: Codes \cup {"none"}, legs: SUBSET Legs]

Init ==
  /\ ProvidersInit
  /\ flow = [s \in Spins |-> Idle]
  /\ wire = {}
  /\ answer = [s \in Spins |-> "none"]
  /\ booked = [ref \in Refs |-> NoTx]
  /\ reversed = {}

-----------------------------------------------------------------------------
(* The provider, external: it handles requests in any order. *)

\* The answer goes back to a flow that still waits for this very request.
Answer(r, code) ==
  answer' = IF flow[r.spin].pc = r.leg /\ flow[r.spin].try = r.try
            THEN [answer EXCEPT ![r.spin] = code] ELSE answer

\* A ref that is booked is never booked again: the provider repeats the first
\* answer or says that the ref is a duplicate.
Book(r) ==
  \/ /\ booked[r.ref] = NoTx
     /\ booked' = [booked EXCEPT ![r.ref] = r.amount]
     /\ Answer(r, "ok")
  \/ /\ booked[r.ref] = NoTx
     /\ \E code \in (IF r.leg = "debit" THEN {"insufficient_funds"} ELSE {"auth_failed"}) :
          Answer(r, code)
     /\ UNCHANGED booked
  \/ /\ booked[r.ref] # NoTx
     /\ \E code \in {"ok", "duplicate_ref"} : Answer(r, code)
     /\ UNCHANGED booked

Reverse(r) ==
  \/ /\ booked[r.ref] = NoTx
     /\ Answer(r, "unknown_ref")
     /\ UNCHANGED reversed
  \/ /\ booked[r.ref] # NoTx
     /\ reversed' = reversed \cup {r.ref}
     /\ \/ Answer(r, "ok")
        \/ r.ref \in reversed /\ Answer(r, "duplicate_ref")

Handle(r) ==
  /\ wire' = wire \ {r}
  /\ IF r.secret # providerSecret[TenantOf[r.spin]]
     THEN Answer(r, "invalid_signature") /\ UNCHANGED ledgerVars
     ELSE IF r.leg = "rollback" THEN Reverse(r) /\ UNCHANGED booked
     ELSE Book(r) /\ UNCHANGED reversed
  /\ UNCHANGED flow
  /\ UNCHANGED providerVars

Lose(r) ==
  /\ Failures # {}
  /\ wire' = wire \ {r}
  /\ UNCHANGED <<flow, answer>>
  /\ UNCHANGED ledgerVars
  /\ UNCHANGED providerVars

-----------------------------------------------------------------------------
(* runSpinFlow. *)

\* The call awaited by s ends: with the provider's answer, or without it.
Ends(s, code) ==
  /\ code \in Failures \cup {answer[s]}
  /\ code # "none"
  /\ answer' = [answer EXCEPT ![s] = "none"]

\* s resolves its provider again, sends a request, and awaits the answer.
Send(s, to, ref, amount) ==
  /\ ResolveProvider(TenantOf[s])
  /\ flow' = [flow EXCEPT ![s] = to]
  /\ wire' = wire \cup {[spin |-> s, try |-> to.try, leg |-> to.pc, ref |-> ref,
                         amount |-> amount, secret |-> Signer(TenantOf[s])]}

Finish(s, error, legs) ==
  /\ flow' = [flow EXCEPT ![s] = [flow[s] EXCEPT !.pc = "done", !.error = error,
                                                !.legs = legs]]
  /\ UNCHANGED wire
  /\ UNCHANGED providerVars

\* The debit is rolled back; a provider that cannot be resolved is swallowed
\* like any other failure of the rollback.
Unwind(s, error) ==
  IF Resolvable(TenantOf[s])
  THEN Send(s, [flow[s] EXCEPT !.pc = "rollback", !.error = error], DebitRef(s), 0)
  ELSE Finish(s, error, {"debit"})

\* The tenant's provider must resolve, or the call throws and nothing happens.
\* A caller may call again with the ref of a flow that has returned.
RunSpinFlow(s) ==
  /\ flow[s].pc \in {"idle", "done"}
  /\ flow[s].try < MaxTries[s]
  /\ Send(s, [pc |-> "debit", try |-> flow[s].try + 1, win |-> 0,
              error |-> "none", legs |-> {}], DebitRef(s), 1)
  /\ UNCHANGED answer
  /\ UNCHANGED ledgerVars

\* A slip: only a refusal for lack of funds stops the spin.
DebitEndsUnlessBroke(s) ==
  /\ flow[s].pc = "debit"
  /\ \E code \in Codes \cup {"ok"} :
       /\ Ends(s, code)
       /\ IF code # "insufficient_funds"
          THEN /\ flow' = [flow EXCEPT ![s] = [flow[s] EXCEPT !.pc = "game",
                                                            !.legs = {"debit"}]]
               /\ UNCHANGED wire
               /\ UNCHANGED providerVars
          ELSE Finish(s, code, {})
  /\ UNCHANGED ledgerVars

DebitEnds(s) ==
  /\ flow[s].pc = "debit"
  /\ \E code \in Codes \cup {"ok"} :
       /\ Ends(s, code)
       /\ IF code = "ok"
          THEN /\ flow' = [flow EXCEPT ![s] = [flow[s] EXCEPT !.pc = "game",
                                                            !.legs = {"debit"}]]
               /\ UNCHANGED wire
               /\ UNCHANGED providerVars
          ELSE Finish(s, code, {})
  /\ UNCHANGED ledgerVars

GameThrows(s) ==
  /\ flow[s].pc = "game"
  /\ Unwind(s, "game_failed")
  /\ UNCHANGED answer
  /\ UNCHANGED ledgerVars

GameReturns(s, win) ==
  /\ flow[s].pc = "game"
  /\ IF win = 0 THEN Finish(s, "none", {"debit"})
     ELSE IF Resolvable(TenantOf[s])
     THEN Send(s, [flow[s] EXCEPT !.pc = "credit", !.win = win], WinRef(s), win)
     ELSE Finish(s, ResolveError(TenantOf[s]), {"debit"})
  /\ UNCHANGED answer
  /\ UNCHANGED ledgerVars

CreditEnds(s) ==
  /\ flow[s].pc = "credit"
  /\ \E code \in Codes \cup {"ok"} :
       /\ Ends(s, code)
       /\ IF code = "ok" THEN Finish(s, "none", {"debit", "credit"}) ELSE Unwind(s, code)
  /\ UNCHANGED ledgerVars

\* A slip: a rollback that failed is sent again, for ever.
RollbackEndsOrRepeats(s) ==
  /\ flow[s].pc = "rollback"
  /\ \E code \in Codes \cup {"ok"} :
       /\ Ends(s, code)
       /\ IF code = "ok" THEN Finish(s, flow[s].error, {"debit", "rollback"})
          ELSE Unwind(s, flow[s].error)
  /\ UNCHANGED ledgerVars

RollbackEnds(s) ==
  /\ flow[s].pc = "rollback"
  /\ \E code \in Codes \cup {"ok"} :
       /\ Ends(s, code)
       /\ Finish(s, flow[s].error,
                 IF code = "ok" THEN {"debit", "rollback"} ELSE {"debit"})
  /\ UNCHANGED ledgerVars

FlowStep(s) ==
  \/ DebitEnds(s)
  \/ GameThrows(s)
  \/ \E win \in WinAmounts : GameReturns(s, win)
  \/ CreditEnds(s)
  \/ RollbackEnds(s)

SpinNext ==
  \/ \E s \in Spins : RunSpinFlow(s) \/ FlowStep(s)
  \/ \E r \in wire : Handle(r) \/ Lose(r)

OperatorNext ==
  /\ \E t \in Tenants : OperatorStep(t)
  /\ UNCHANGED flowVars
  /\ UNCHANGED ledgerVars

Next == SpinNext \/ OperatorNext

Spec == Init /\ [][Next]_vars

\* The game returns, and every HTTP call carries a timeout: a flow never waits
\* for ever.
FairSpec == Spec /\ \A s \in Spins : WF_vars(FlowStep(s))

-----------------------------------------------------------------------------

TypeOK ==
  /\ ProvidersTypeOK
  /\ flow \in [Spins -> Flow]
  /\ wire \subseteq Request
  /\ answer \in [Spins -> Codes \cup {"none", "ok"}]
  /\ booked \in [Refs -> Nat \cup {NoTx}]
  /\ reversed \subseteq Refs

Charged(s) == booked[DebitRef(s)] # NoTx /\ DebitRef(s) \notin reversed

WinPaid(s) == booked[WinRef(s)] # NoTx

Committed(s) == flow[s].pc = "done" /\ flow[s].error = "none"

\* The player is charged, and the win, if there is one, is booked.
Settled(s) ==
  /\ Charged(s)
  /\ IF flow[s].win > 0 THEN booked[WinRef(s)] = flow[s].win ELSE ~WinPaid(s)

\* The player's account is as if the spin had never been.
Cancelled(s) == ~Charged(s) /\ ~WinPaid(s)

\* What the caller of runSpinFlow can see in the result of a flow whose money
\* it has to look up: a leg that ended without the provider's answer, or a
\* debit that was neither committed nor rolled back.
Doubtful(s) ==
  \/ flow[s].error \in Unanswered
  \/ flow[s].error # "none" /\ "debit" \in flow[s].legs /\ "rollback" \notin flow[s].legs

Outstanding(s) == {r \in wire : r.spin = s}

\* A result that shows no doubt tells the truth until its caller uses the ref
\* again: committed means charged and paid, anything else means that nothing of
\* the spin is left in the ledger, and no request that could change it is still
\* on its way.  Lost and late requests, secret rotations, deactivated tenants
\* and other spins' retries in the middle of a spin only ever produce results
\* the caller can tell to be in doubt.
ResultTellsOutcome ==
  \A s \in Spins : flow[s].pc = "done" /\ flow[s].try = 1 /\ ~Doubtful(s) =>
    /\ IF Committed(s) THEN Settled(s) ELSE Cancelled(s)
    /\ Outstanding(s) = {}

\* However often a spin is retried under its ref, and whatever arrives late, a
\* win is booked only for a spin whose bet was booked, and a flow that reports
\* a committed win has one in the ledger.
WinsBacked ==
  \A s \in Spins :
    /\ WinPaid(s) => booked[DebitRef(s)] # NoTx
    /\ Committed(s) /\ flow[s].win > 0 => WinPaid(s)

\* Every call of runSpinFlow returns, whatever the provider and the operator do.
FlowsEnd ==
  \A s \in Spins : flow[s].pc \notin {"idle", "done"} ~> flow[s].pc = "done"

=============================================================================
