------------------------ MODULE WalletSpinFlowProofs ------------------------
(***************************************************************************)
(* Proofs about WalletSpinFlow for any number of tenants, spins, wins,     *)
(* secret rotations and ways a call may fail.                              *)
(***************************************************************************)
EXTENDS WalletSpinFlow, TLAPS

USE SpinAssumption, ProvidersAssumption
DEF SpinAssumption, ProvidersAssumption, Unanswered

\* A configuration that resolves has a secret to sign with.
LEMMA SignerType ==
  ASSUME TypeOK, NEW t \in Tenants, Resolvable(t)
  PROVE  Signer(t) \in Secrets
BY DEF TypeOK, ProvidersTypeOK, Resolvable, ResolveError, Signer, Secrets

\* Resolving a provider caches a secret and changes no configuration.
LEMMA ResolveType ==
  ASSUME TypeOK, NEW t \in Tenants, ResolveProvider(t)
  PROVE  ProvidersTypeOK'
<1>1. Signer(t) \in Secrets
  BY SignerType DEF ResolveProvider
<1>2. QED
  BY <1>1 DEF TypeOK, ProvidersTypeOK, ResolveProvider

\* Sending a well-typed request from a well-typed flow keeps the types.
LEMMA SendType ==
  ASSUME TypeOK, NEW s \in Spins, NEW to \in Flow, to.try \in Nat, to.pc \in Legs,
         NEW ref \in Refs, NEW amount \in Nat, Send(s, to, ref, amount)
  PROVE  /\ ProvidersTypeOK'
         /\ flow' \in [Spins -> Flow]
         /\ wire' \subseteq Request
<1>1. TenantOf[s] \in Tenants
  OBVIOUS
<1>2. Signer(TenantOf[s]) \in Secrets
  BY <1>1, SignerType DEF Send, ResolveProvider
<1>3. ProvidersTypeOK'
  BY <1>1, ResolveType DEF Send
<1>4. flow' \in [Spins -> Flow]
  BY DEF Send, TypeOK
<1>5. [spin |-> s, try |-> to.try, leg |-> to.pc, ref |-> ref, amount |-> amount,
       secret |-> Signer(TenantOf[s])] \in Request
  BY <1>2 DEF Request
<1>6. QED
  BY <1>3, <1>4, <1>5 DEF Send, TypeOK

\* A flow that returns keeps the types.
LEMMA FinishType ==
  ASSUME TypeOK, NEW s \in Spins, NEW error \in Codes \cup {"none"}, NEW legs \in SUBSET Legs,
         Finish(s, error, legs)
  PROVE  /\ ProvidersTypeOK'
         /\ flow' \in [Spins -> Flow]
         /\ wire' \subseteq Request
<1>1. flow[s] \in Flow
  BY DEF TypeOK
<1>2. [flow[s] EXCEPT !.pc = "done", !.error = error, !.legs = legs] \in Flow
  BY <1>1 DEF Flow
<1>3. flow' \in [Spins -> Flow]
  BY <1>2 DEF Finish, TypeOK
<1>4. QED
  BY <1>3 DEF Finish, TypeOK, ProvidersTypeOK, providerVars

\* So does a rollback, whether it is sent or its provider cannot be resolved.
LEMMA UnwindType ==
  ASSUME TypeOK, NEW s \in Spins, NEW error \in Codes, Unwind(s, error)
  PROVE  /\ ProvidersTypeOK'
         /\ flow' \in [Spins -> Flow]
         /\ wire' \subseteq Request
<1>1. CASE Resolvable(TenantOf[s])
  <2> DEFINE to == [flow[s] EXCEPT !.pc = "rollback", !.error = error]
  <2>1. to \in Flow /\ to.try \in Nat /\ to.pc \in Legs
    <3>1. flow[s] \in Flow
      BY DEF TypeOK
    <3>2. QED
      BY <3>1 DEF Flow, Legs
  <2>2. DebitRef(s) \in Refs /\ 0 \in Nat
    BY DEF DebitRef, Refs
  <2>3. Send(s, to, DebitRef(s), 0)
    BY <1>1 DEF Unwind
  <2> HIDE DEF to
  <2>4. QED
    BY <2>1, <2>2, <2>3, SendType
<1>2. CASE ~Resolvable(TenantOf[s])
  <2>1. Finish(s, error, {"debit"}) /\ {"debit"} \in SUBSET Legs
    BY <1>2 DEF Unwind, Legs
  <2>2. QED
    BY <2>1, FinishType
<1>3. QED
  BY <1>1, <1>2

\* An answer of the provider is one of the codes.
LEMMA AnswerType ==
  ASSUME TypeOK, NEW r \in Request, NEW code \in Codes \cup {"ok"}, Answer(r, code)
  PROVE  answer' \in [Spins -> Codes \cup {"none", "ok"}]
BY DEF TypeOK, Answer, Request

\* Calling runSpinFlow keeps the types.
LEMMA RunType ==
  ASSUME TypeOK, NEW s \in Spins, RunSpinFlow(s)
  PROVE  TypeOK'
<1> DEFINE to == [pc |-> "debit", try |-> flow[s].try + 1, win |-> 0,
                  error |-> "none", legs |-> {}]
<1>1. flow[s].try \in Nat
  BY DEF TypeOK, Flow
<1>2. flow[s].try + 1 \in Nat
  BY <1>1
<1>4. to \in Flow /\ to.try \in Nat /\ to.pc \in Legs
  BY <1>2 DEF Flow, Legs
<1>5. DebitRef(s) \in Refs /\ 1 \in Nat
  BY DEF DebitRef, Refs
<1>6. Send(s, to, DebitRef(s), 1)
  BY DEF RunSpinFlow
<1> HIDE DEF to
<1>7. QED
  BY <1>4, <1>5, <1>6, SendType DEF RunSpinFlow, TypeOK, ledgerVars

\* The end of a call consumes its answer.
LEMMA EndsType ==
  ASSUME TypeOK, NEW s \in Spins, NEW code, Ends(s, code)
  PROVE  answer' \in [Spins -> Codes \cup {"none", "ok"}]
BY DEF TypeOK, Ends

\* Every step of a running flow keeps the types.
LEMMA StepType ==
  ASSUME TypeOK, NEW s \in Spins, FlowStep(s)
  PROVE  TypeOK'
<1>1. flow[s] \in Flow
  BY DEF TypeOK
<1>2. CASE DebitEnds(s)
  <2>1. PICK code \in Codes \cup {"ok"} :
          /\ Ends(s, code)
          /\ IF code = "ok"
             THEN /\ flow' = [flow EXCEPT ![s] = [flow[s] EXCEPT !.pc = "game",
                                                               !.legs = {"debit"}]]
                  /\ UNCHANGED wire
                  /\ UNCHANGED providerVars
             ELSE Finish(s, code, {})
    BY <1>2 DEF DebitEnds
  <2>2. CASE code = "ok"
    <3>1. [flow[s] EXCEPT !.pc = "game", !.legs = {"debit"}] \in Flow
      BY <1>1 DEF Flow, Legs
    <3>2. flow' \in [Spins -> Flow]
      BY <2>1, <2>2, <3>1 DEF TypeOK
    <3>3. QED
      BY <1>2, <2>1, <2>2, <3>2, EndsType
         DEF DebitEnds, TypeOK, ProvidersTypeOK, providerVars, ledgerVars
  <2>3. CASE code # "ok"
    <3>1. code \in Codes \cup {"none"} /\ {} \in SUBSET Legs /\ Finish(s, code, {})
      BY <2>1, <2>3
    <3>2. QED
      BY <1>2, <2>1, <3>1, FinishType, EndsType DEF DebitEnds, TypeOK, ledgerVars
  <2>4. QED
    BY <2>2, <2>3
<1>3. CASE GameThrows(s)
  <2>1. "game_failed" \in Codes
    BY DEF Codes
  <2>2. QED
    BY <1>1, <1>3, <2>1, UnwindType DEF GameThrows, TypeOK, ledgerVars
<1>4. ASSUME NEW win \in WinAmounts, GameReturns(s, win)
      PROVE  TypeOK'
  <2>1. CASE win = 0
    <3>1. Finish(s, "none", {"debit"}) /\ {"debit"} \in SUBSET Legs
      BY <1>4, <2>1 DEF GameReturns, Legs
    <3>2. QED
      BY <1>4, <3>1, FinishType DEF GameReturns, TypeOK, ledgerVars
  <2>2. CASE win # 0 /\ Resolvable(TenantOf[s])
    <3> DEFINE to == [flow[s] EXCEPT !.pc = "credit", !.win = win]
    <3>1. to \in Flow /\ to.try \in Nat /\ to.pc \in Legs
      BY <1>1, <1>4 DEF Flow, Legs, GameReturns
    <3>2. WinRef(s) \in Refs /\ win \in Nat
      BY DEF WinRef, Refs
    <3>3. Send(s, to, WinRef(s), win)
      BY <1>4, <2>2 DEF GameReturns
    <3> HIDE DEF to
    <3>4. QED
      BY <1>4, <3>1, <3>2, <3>3, SendType DEF GameReturns, TypeOK, ledgerVars
  <2>3. CASE win # 0 /\ ~Resolvable(TenantOf[s])
    <3>1. /\ Finish(s, ResolveError(TenantOf[s]), {"debit"})
          /\ {"debit"} \in SUBSET Legs
          /\ ResolveError(TenantOf[s]) \in Codes \cup {"none"}
      BY <1>4, <2>3 DEF GameReturns, Legs, ResolveError, Codes
    <3>2. QED
      BY <1>4, <3>1, FinishType DEF GameReturns, TypeOK, ledgerVars
  <2>4. QED
    BY <2>1, <2>2, <2>3
<1>5. CASE CreditEnds(s)
  <2>1. PICK code \in Codes \cup {"ok"} :
          /\ Ends(s, code)
          /\ IF code = "ok" THEN Finish(s, "none", {"debit", "credit"})
             ELSE Unwind(s, code)
    BY <1>5 DEF CreditEnds
  <2>2. CASE code = "ok"
    <3>1. Finish(s, "none", {"debit", "credit"}) /\ {"debit", "credit"} \in SUBSET Legs
      BY <2>1, <2>2 DEF Legs
    <3>2. QED
      BY <1>5, <2>1, <3>1, FinishType, EndsType DEF CreditEnds, TypeOK, ledgerVars
  <2>3. CASE code # "ok"
    <3>1. code \in Codes /\ Unwind(s, code)
      BY <2>1, <2>3
    <3>2. QED
      BY <1>5, <2>1, <3>1, UnwindType, EndsType DEF CreditEnds, TypeOK, ledgerVars
  <2>4. QED
    BY <2>2, <2>3
<1>6. CASE RollbackEnds(s)
  <2>1. PICK code \in Codes \cup {"ok"} :
          /\ Ends(s, code)
          /\ Finish(s, flow[s].error,
                    IF code = "ok" THEN {"debit", "rollback"} ELSE {"debit"})
    BY <1>6 DEF RollbackEnds
  <2>2. /\ flow[s].error \in Codes \cup {"none"}
        /\ (IF code = "ok" THEN {"debit", "rollback"} ELSE {"debit"}) \in SUBSET Legs
    BY <1>1 DEF Flow, Legs
  <2>3. QED
    BY <1>6, <2>1, <2>2, FinishType, EndsType DEF RollbackEnds, TypeOK, ledgerVars
<1>7. QED
  BY <1>2, <1>3, <1>4, <1>5, <1>6, Zenon DEF FlowStep

\* So do the provider and the network.
LEMMA HandleType ==
  ASSUME TypeOK, NEW r \in wire, Handle(r) \/ Lose(r)
  PROVE  TypeOK'
<1>1. r \in Request /\ r.ref \in Refs /\ r.amount \in Nat
  BY DEF TypeOK, Request
<1>2. CASE Lose(r)
  BY <1>2 DEF Lose, TypeOK, ProvidersTypeOK, providerVars, ledgerVars
<1>3. CASE Handle(r)
  <2>1. /\ wire' \subseteq Request
        /\ flow' \in [Spins -> Flow]
        /\ ProvidersTypeOK'
    BY <1>3 DEF Handle, TypeOK, ProvidersTypeOK, providerVars
  <2>2. {"insufficient_funds", "auth_failed", "unknown_ref", "duplicate_ref",
         "invalid_signature", "ok"} \subseteq Codes \cup {"ok"}
    BY DEF Codes
  <2>3. CASE r.secret # providerSecret[TenantOf[r.spin]]
    BY <1>1, <1>3, <2>1, <2>2, <2>3, AnswerType DEF Handle, TypeOK, ledgerVars
  <2>4. CASE Reverse(r) /\ UNCHANGED booked
    <3>1. \E code \in Codes \cup {"ok"} : Answer(r, code)
      BY <2>2, <2>4 DEF Reverse
    <3>2. reversed' \subseteq Refs
      BY <1>1, <2>4 DEF Reverse, TypeOK
    <3>3. QED
      BY <1>1, <2>1, <2>4, <3>1, <3>2, AnswerType DEF TypeOK
  <2>5. CASE Book(r) /\ UNCHANGED reversed
    <3>1. \E code \in Codes \cup {"ok"} : Answer(r, code)
      BY <2>2, <2>5 DEF Book
    <3>2. booked' \in [Refs -> Nat \cup {NoTx}]
      BY <1>1, <2>5 DEF Book, TypeOK
    <3>3. QED
      BY <1>1, <2>1, <2>5, <3>1, <3>2, AnswerType DEF TypeOK
  <2>6. QED
    BY <1>3, <2>3, <2>4, <2>5, Zenon DEF Handle
<1>4. QED
  BY <1>2, <1>3

\* So does the operator.
LEMMA OperatorType ==
  ASSUME TypeOK, OperatorNext
  PROVE  TypeOK'
<1>1. PICK t \in Tenants : OperatorStep(t)
  BY DEF OperatorNext
<1>2. ProvidersTypeOK'
  <2>1. CASE SetTenantWalletConfig(t, providerSecret[t])
    <3> DEFINE saved == [secret |-> providerSecret[t], active |-> TRUE]
    <3>1. saved \in [secret: Secrets, active: BOOLEAN]
      BY DEF TypeOK, ProvidersTypeOK
    <3>2. config' = [config EXCEPT ![t] = saved] /\ UNCHANGED <<instance, providerSecret>>
      BY <2>1 DEF SetTenantWalletConfig
    <3> HIDE DEF saved
    <3>3. QED
      BY <3>1, <3>2 DEF TypeOK, ProvidersTypeOK
  <2>2. CASE Deactivate(t)
    <3> DEFINE closed == [config[t] EXCEPT !.active = FALSE]
    <3>1. config[t] \in [secret: Secrets, active: BOOLEAN]
      BY <2>2 DEF Deactivate, TypeOK, ProvidersTypeOK
    <3>2. closed \in [secret: Secrets, active: BOOLEAN]
      BY <3>1
    <3>3. config' = [config EXCEPT ![t] = closed] /\ UNCHANGED <<instance, providerSecret>>
      BY <2>2 DEF Deactivate
    <3> HIDE DEF closed
    <3>4. QED
      BY <3>2, <3>3 DEF TypeOK, ProvidersTypeOK
  <2>3. CASE Invalidate(t)
    BY <2>3 DEF Invalidate, TypeOK, ProvidersTypeOK
  <2>4. CASE RotateSecret(t)
    BY <2>4 DEF RotateSecret, TypeOK, ProvidersTypeOK, Secrets
  <2>5. QED
    BY <1>1, <2>1, <2>2, <2>3, <2>4 DEF OperatorStep
<1>3. QED
  BY <1>2 DEF OperatorNext, flowVars, ledgerVars, TypeOK

\* What a flow that returns changes, field by field.
LEMMA FinishFields ==
  ASSUME TypeOK, NEW s \in Spins, NEW error, NEW legs, Finish(s, error, legs)
  PROVE  /\ flow'[s].pc = "done" /\ flow'[s].error = error /\ flow'[s].legs = legs
         /\ flow'[s].win = flow[s].win /\ flow'[s].try = flow[s].try
         /\ \A q \in Spins \ {s} : flow'[q] = flow[q]
         /\ wire' = wire
<1>1. flow \in [Spins -> Flow] /\ flow[s] \in Flow
  BY DEF TypeOK
<1>2. flow'[s] = [flow[s] EXCEPT !.pc = "done", !.error = error, !.legs = legs]
  BY <1>1 DEF Finish
<1>3. QED
  BY <1>1, <1>2 DEF Finish, Flow

\* What a flow that sends a request changes.
LEMMA SendFields ==
  ASSUME TypeOK, NEW s \in Spins, NEW to, NEW ref, NEW amount, Send(s, to, ref, amount)
  PROVE  /\ flow'[s] = to
         /\ \A q \in Spins \ {s} : flow'[q] = flow[q]
         /\ \E r : /\ wire' = wire \cup {r}
                  /\ r.spin = s /\ r.leg = to.pc /\ r.ref = ref /\ r.amount = amount
<1> DEFINE req == [spin |-> s, try |-> to.try, leg |-> to.pc, ref |-> ref,
                   amount |-> amount, secret |-> Signer(TenantOf[s])]
<1>1. wire' = wire \cup {req}
  BY DEF Send
<1>2. req.spin = s /\ req.leg = to.pc /\ req.ref = ref /\ req.amount = amount
  OBVIOUS
<1> HIDE DEF req
<1>3. \E r : /\ wire' = wire \cup {r}
            /\ r.spin = s /\ r.leg = to.pc /\ r.ref = ref /\ r.amount = amount
  BY <1>1, <1>2
<1>4. /\ flow'[s] = to
      /\ \A q \in Spins \ {s} : flow'[q] = flow[q]
  BY DEF Send, TypeOK
<1>5. QED
  BY <1>3, <1>4

\* What a rollback changes, sent or swallowed.
LEMMA UnwindFields ==
  ASSUME TypeOK, NEW s \in Spins, NEW error, Unwind(s, error)
  PROVE  /\ flow'[s].win = flow[s].win /\ flow'[s].try = flow[s].try
         /\ flow'[s].error = error
         /\ \A q \in Spins \ {s} : flow'[q] = flow[q]
         /\ \/ /\ flow'[s].pc = "rollback"
               /\ flow'[s].legs = flow[s].legs
               /\ \E r : /\ wire' = wire \cup {r}
                        /\ r.spin = s /\ r.leg = "rollback" /\ r.ref = DebitRef(s)
            \/ flow'[s].pc = "done" /\ flow'[s].legs = {"debit"} /\ wire' = wire
<1>1. CASE Resolvable(TenantOf[s])
  <2> DEFINE to == [flow[s] EXCEPT !.pc = "rollback", !.error = error]
  <2>1. /\ to.pc = "rollback" /\ to.error = error /\ to.win = flow[s].win
        /\ to.try = flow[s].try /\ to.legs = flow[s].legs
    BY DEF TypeOK, Flow
  <2>2. Send(s, to, DebitRef(s), 0)
    BY <1>1 DEF Unwind
  <2> HIDE DEF to
  <2>3. QED
    BY <2>1, <2>2, SendFields
<1>2. CASE ~Resolvable(TenantOf[s])
  BY <1>2, FinishFields DEF Unwind
<1>3. QED
  BY <1>1, <1>2

\* A step of s moves its flow on from a leg or from playSpin, and no other.
LEMMA StepMoves ==
  ASSUME TypeOK, NEW s \in Spins, FlowStep(s)
  PROVE  /\ flow[s].pc \notin {"idle", "done"}
         /\ flow'[s].pc # "idle"
         /\ flow'[s].try = flow[s].try
         /\ \A q \in Spins \ {s} : flow'[q] = flow[q]
<1> DEFINE Moves == /\ flow[s].pc \notin {"idle", "done"}
                    /\ flow'[s].pc # "idle"
                    /\ flow'[s].try = flow[s].try
                    /\ \A q \in Spins \ {s} : flow'[q] = flow[q]
<1>0. flow \in [Spins -> Flow] /\ flow[s] \in Flow
  BY DEF TypeOK
<1>1. CASE DebitEnds(s)
  <2>1. CASE flow' = [flow EXCEPT ![s] = [flow[s] EXCEPT !.pc = "game", !.legs = {"debit"}]]
    BY <1>0, <1>1, <2>1 DEF DebitEnds, Flow
  <2>2. CASE \E code : Finish(s, code, {})
    BY <1>1, <2>2, FinishFields DEF DebitEnds
  <2>3. QED
    BY <1>1, <2>1, <2>2 DEF DebitEnds
<1>2. CASE GameThrows(s)
  BY <1>2, UnwindFields DEF GameThrows
<1>3. ASSUME NEW win \in WinAmounts, GameReturns(s, win)
      PROVE  Moves
  <2>1. CASE \E error : Finish(s, error, {"debit"})
    BY <1>3, <2>1, FinishFields DEF GameReturns
  <2>2. CASE Send(s, [flow[s] EXCEPT !.pc = "credit", !.win = win], WinRef(s), win)
    <3>1. flow'[s] = [flow[s] EXCEPT !.pc = "credit", !.win = win]
      BY <2>2, SendFields
    <3>2. \A q \in Spins \ {s} : flow'[q] = flow[q]
      BY <2>2, SendFields
    <3>3. QED
      BY <1>0, <1>3, <3>1, <3>2 DEF GameReturns, Flow
  <2>3. QED
    BY <1>3, <2>1, <2>2 DEF GameReturns
<1>4. CASE CreditEnds(s)
  BY <1>4, FinishFields, UnwindFields DEF CreditEnds
<1>5. CASE RollbackEnds(s)
  BY <1>5, FinishFields DEF RollbackEnds
<1> HIDE DEF Moves
<1>6. FlowStep(s) => Moves
  <2>1. (DebitEnds(s) => Moves) /\ (GameThrows(s) => Moves) /\ (CreditEnds(s) => Moves)
          /\ (RollbackEnds(s) => Moves)
    BY <1>1, <1>2, <1>4, <1>5 DEF Moves
  <2>2. QED
    BY <1>3, <2>1, Zenon DEF FlowStep
<1>7. QED
  BY <1>6 DEF Moves

\* Each variable keeps its type, for any number of calls per ref and whatever
\* the network, the provider and the operator do.
THEOREM TypeCorrect == Spec => []TypeOK
<1>1. Init => TypeOK
  <2> SUFFICES ASSUME Init PROVE TypeOK
    OBVIOUS
  <2>1. Idle \in Flow
    BY DEF Idle, Flow, Legs
  <2>2. ProvidersTypeOK
    <3>1. 0 \in Secrets /\ TRUE \in BOOLEAN
      BY DEF Secrets
    <3>2. [secret |-> 0, active |-> TRUE] \in [secret: Secrets, active: BOOLEAN]
      BY <3>1
    <3>3. QED
      BY <3>1, <3>2 DEF Init, ProvidersInit, ProvidersTypeOK
  <2>3. QED
    BY <2>1, <2>2 DEF Init, TypeOK, Idle, Request
<1>2. TypeOK /\ [Next]_vars => TypeOK'
  <2> SUFFICES ASSUME TypeOK, [Next]_vars
               PROVE  TypeOK'
    OBVIOUS
  <2>1. CASE UNCHANGED vars
    BY <2>1 DEF vars, TypeOK, ProvidersTypeOK
  <2>2. QED
    BY <2>1, RunType, StepType, HandleType, OperatorType, Zenon DEF Next, SpinNext
<1>3. QED
  BY <1>1, <1>2, PTL DEF Spec

-----------------------------------------------------------------------------
(* The inductive invariant behind ResultTellsOutcome: SpinInv holds of a spin *)
(* until its ref is used again, and RefOwned keeps the retries of other spins *)
(* away from its bookings.                                                    *)

Sent(s, leg) == {r \in Outstanding(s) : r.leg = leg}

\* Each leg is sent at most once, under the ref of its booking.
WireInv(s) ==
  /\ \A q, r \in Outstanding(s) : q.leg = r.leg => q = r
  /\ \A r \in Outstanding(s) :
       /\ r.ref = (IF r.leg = "credit" THEN WinRef(s) ELSE DebitRef(s))
       /\ r.leg = "credit" => r.amount = flow[s].win

\* An answer is on its way only to a flow that awaits it.
AnswerInv(s) ==
  /\ flow[s].pc \notin Legs => answer[s] = "none"
  /\ answer[s] \notin Unanswered
  /\ flow[s].pc # "idle" => flow[s].try = 1
  /\ answer[s] # "none" => Sent(s, flow[s].pc) = {}

DebitInv(s) ==
  /\ flow[s].pc = "idle" =>
       Outstanding(s) = {} /\ booked[DebitRef(s)] = NoTx
  /\ flow[s].pc = "debit" =>
       /\ \A r \in Outstanding(s) : r.leg = "debit" /\ booked[DebitRef(s)] = NoTx
       /\ answer[s] = "ok" => booked[DebitRef(s)] # NoTx
       /\ answer[s] \notin {"ok", "none"} => booked[DebitRef(s)] = NoTx
  /\ flow[s].pc \in {"idle", "debit", "game"} =>
       /\ ~WinPaid(s)
       /\ DebitRef(s) \notin reversed
       /\ flow[s].win = 0
  /\ flow[s].pc = "game" => Charged(s) /\ Outstanding(s) = {}

CreditInv(s) ==
  /\ flow[s].pc = "credit" =>
       /\ Charged(s)
       /\ flow[s].win > 0
       /\ \A r \in Outstanding(s) : r.leg = "credit" /\ ~WinPaid(s)
       /\ answer[s] = "ok" => booked[WinRef(s)] = flow[s].win
       /\ answer[s] \notin {"ok", "none"} => ~WinPaid(s)
  /\ flow[s].pc = "rollback" =>
       /\ booked[DebitRef(s)] # NoTx
       /\ flow[s].error # "none"
       /\ \A r \in Outstanding(s) : r.leg # "debit"
       /\ answer[s] = "ok" => DebitRef(s) \in reversed
       /\ flow[s].error \notin Unanswered =>
            ~WinPaid(s) /\ Sent(s, "credit") = {}

ResultInv(s) ==
  flow[s].pc = "done" /\ ~Doubtful(s) =>
    /\ IF Committed(s) THEN Settled(s) ELSE Cancelled(s)
    /\ Outstanding(s) = {}

SpinInv(s) ==
  WireInv(s) /\ AnswerInv(s) /\ DebitInv(s) /\ CreditInv(s) /\ ResultInv(s)

\* A flow that was called counts its call: beyond "idle", try is at least 1.
CalledInv == \A s \in Spins : flow[s].pc # "idle" => flow[s].try >= 1

\* Whatever the try, a request carries a ref of its own spin.
RefOwned == \A r \in wire : r.ref \in {DebitRef(r.spin), WinRef(r.spin)}

IInv ==
  /\ CalledInv
  /\ RefOwned
  /\ \A s \in Spins : flow[s].try <= 1 => SpinInv(s)

\* Every step keeps the count of calls.
LEMMA CalledStep ==
  ASSUME TypeOK, CalledInv, [Next]_vars
  PROVE  CalledInv'
<1>1. ASSUME NEW s \in Spins, RunSpinFlow(s)
      PROVE  CalledInv'
  <2>1. flow[s].try \in Nat
    BY DEF TypeOK, Flow
  <2>2. QED
    BY <1>1, <2>1 DEF RunSpinFlow, Send, CalledInv, TypeOK
<1>2. ASSUME NEW s \in Spins, FlowStep(s)
      PROVE  CalledInv'
  BY <1>2, StepMoves DEF CalledInv, TypeOK
<1>3. ASSUME NEW r \in wire, Handle(r) \/ Lose(r)
      PROVE  CalledInv'
  BY <1>3 DEF Handle, Lose, CalledInv
<1>4. CASE OperatorNext
  BY <1>4 DEF OperatorNext, flowVars, CalledInv
<1>5. CASE UNCHANGED vars
  BY <1>5 DEF vars, CalledInv
<1>6. QED
  BY <1>1, <1>2, <1>3, <1>4, <1>5, Zenon DEF Next, SpinNext

\* A spin whose flow, answer, requests and bookings stay keeps its invariant.
LEMMA Frame ==
  ASSUME NEW q \in Spins, SpinInv(q),
         flow'[q] = flow[q], answer'[q] = answer[q], Outstanding(q)' = Outstanding(q),
         booked'[DebitRef(q)] = booked[DebitRef(q)], booked'[WinRef(q)] = booked[WinRef(q)],
         DebitRef(q) \in reversed' <=> DebitRef(q) \in reversed
  PROVE  SpinInv(q)'
BY DEF SpinInv, WireInv, AnswerInv, DebitInv, CreditInv, ResultInv, Sent, Doubtful,
       Committed, Settled, Cancelled, Charged, WinPaid, DebitRef, WinRef

\* What the wire holds of s after a step that sends nothing, or one request of s.
LEMMA NothingSent ==
  ASSUME wire' = wire, NEW q
  PROVE  Outstanding(q)' = Outstanding(q)
BY DEF Outstanding

\* A request sent by one spin is no other spin's.
LEMMA OneSent ==
  ASSUME NEW s, NEW r, r.spin = s, wire' = wire \cup {r}
  PROVE  /\ Outstanding(s)' = Outstanding(s) \cup {r}
         /\ \A q \in Spins \ {s} : Outstanding(q)' = Outstanding(q)
BY DEF Outstanding

\* A call leaves the other spins alone; the first call of s establishes SpinInv.
LEMMA RunKeepsInv ==
  ASSUME TypeOK, CalledInv, NEW s \in Spins, RunSpinFlow(s)
  PROVE  /\ flow'[s].try = flow[s].try + 1
         /\ \A q \in Spins \ {s} : flow'[q] = flow[q] /\ (SpinInv(q) => SpinInv(q)')
         /\ SpinInv(s) /\ flow[s].try = 0 => SpinInv(s)'
<1> DEFINE to == [pc |-> "debit", try |-> flow[s].try + 1, win |-> 0,
                  error |-> "none", legs |-> {}]
<1>1. Send(s, to, DebitRef(s), 1)
  BY DEF RunSpinFlow
<1>2. PICK r : /\ wire' = wire \cup {r}
               /\ r.spin = s /\ r.leg = "debit" /\ r.ref = DebitRef(s)
  BY <1>1, SendFields
<1>3. /\ flow'[s] = to
      /\ \A q \in Spins \ {s} : flow'[q] = flow[q]
  BY <1>1, SendFields
<1>4. /\ Outstanding(s)' = Outstanding(s) \cup {r}
      /\ \A q \in Spins \ {s} : Outstanding(q)' = Outstanding(q)
  BY <1>2, OneSent
<1>5. answer' = answer /\ booked' = booked /\ reversed' = reversed
  BY DEF RunSpinFlow, ledgerVars
<1>6. ASSUME SpinInv(s), flow[s].try = 0
      PROVE  SpinInv(s)'
  <2>1. flow[s].pc = "idle" /\ answer[s] = "none" /\ Outstanding(s)' = {r}
    BY <1>4, <1>6 DEF CalledInv, SpinInv, AnswerInv, DebitInv, Legs
  <2>2. WireInv(s)'
    BY <1>2, <2>1 DEF WireInv
  <2>3. AnswerInv(s)'
    BY <1>3, <1>5, <1>6, <2>1 DEF AnswerInv, Legs
  <2>4. DebitInv(s)' /\ CreditInv(s)' /\ ResultInv(s)'
    BY <1>2, <1>3, <1>5, <1>6, <2>1
       DEF SpinInv, DebitInv, CreditInv, ResultInv, WinPaid, DebitRef, WinRef
  <2>5. QED
    BY <2>2, <2>3, <2>4 DEF SpinInv
<1>7. \A q \in Spins \ {s} : SpinInv(q) => SpinInv(q)'
  BY <1>3, <1>4, <1>5, Frame
<1>8. flow'[s].try = flow[s].try + 1
  BY <1>3
<1>9. QED
  BY <1>3, <1>6, <1>7, <1>8

\* A step of s leaves every other flow, its requests and its answer alone.
LEMMA StepKeepsOthers ==
  ASSUME TypeOK, NEW s \in Spins, FlowStep(s), NEW q \in Spins \ {s}, SpinInv(q)
  PROVE  SpinInv(q)'
<1>1. flow'[q] = flow[q]
  BY StepMoves
<1> DEFINE Quiet == /\ answer'[q] = answer[q] /\ Outstanding(q)' = Outstanding(q)
                    /\ UNCHANGED ledgerVars
<1>2. ASSUME NEW code, Ends(s, code)
      PROVE  answer'[q] = answer[q]
  BY <1>2 DEF Ends, TypeOK
<1>3. ASSUME NEW error, NEW legs, Finish(s, error, legs)
      PROVE  Outstanding(q)' = Outstanding(q)
  BY <1>3, NothingSent DEF Finish
<1>4. ASSUME NEW error, Unwind(s, error)
      PROVE  Outstanding(q)' = Outstanding(q)
  BY <1>4, UnwindFields, NothingSent, OneSent
<1>5. ASSUME DebitEnds(s) PROVE Quiet
  <2>1. answer'[q] = answer[q]
    BY <1>2, <1>5 DEF DebitEnds
  <2>2. Outstanding(q)' = Outstanding(q)
    BY <1>3, <1>5, NothingSent DEF DebitEnds
  <2>3. QED
    BY <1>5, <2>1, <2>2 DEF DebitEnds
<1>6. ASSUME GameThrows(s) PROVE Quiet
  BY <1>4, <1>6 DEF GameThrows
<1>7. ASSUME NEW win \in WinAmounts, GameReturns(s, win)
      PROVE  Quiet
  <2>1. ASSUME NEW to, Send(s, to, WinRef(s), win)
        PROVE  Outstanding(q)' = Outstanding(q)
    BY <2>1, SendFields, OneSent
  <2>2. Outstanding(q)' = Outstanding(q)
    BY <1>3, <1>7, <2>1 DEF GameReturns
  <2>3. QED
    BY <1>7, <2>2 DEF GameReturns
<1>8. ASSUME CreditEnds(s) PROVE Quiet
  <2>1. answer'[q] = answer[q]
    BY <1>2, <1>8 DEF CreditEnds
  <2>2. Outstanding(q)' = Outstanding(q)
    BY <1>3, <1>4, <1>8 DEF CreditEnds
  <2>3. QED
    BY <1>8, <2>1, <2>2 DEF CreditEnds
<1>9. ASSUME RollbackEnds(s) PROVE Quiet
  <2>1. answer'[q] = answer[q]
    BY <1>2, <1>9 DEF RollbackEnds
  <2>2. Outstanding(q)' = Outstanding(q)
    BY <1>3, <1>9 DEF RollbackEnds
  <2>3. QED
    BY <1>9, <2>1, <2>2 DEF RollbackEnds
<1> HIDE DEF Quiet
<1>10. Quiet
  <2>1. /\ DebitEnds(s) => Quiet
        /\ GameThrows(s) => Quiet
        /\ CreditEnds(s) => Quiet
        /\ RollbackEnds(s) => Quiet
    BY <1>5, <1>6, <1>8, <1>9 DEF Quiet
  <2>2. QED
    BY <1>7, <2>1, Zenon DEF FlowStep
<1>11. QED
  BY <1>1, <1>10, Frame DEF Quiet, ledgerVars

\* The codes a call may end with, told apart by what they say of the ledger.
LEMMA CodeOf ==
  ASSUME NEW s \in Spins, NEW code \in Codes \cup {"ok"}, Ends(s, code), SpinInv(s),
         TypeOK
  PROVE  /\ answer'[s] = "none"
         /\ code = "ok" => answer[s] = "ok"
         /\ code \notin Unanswered =>
              code = answer[s] /\ answer[s] # "none"
BY DEF Ends, TypeOK, SpinInv, AnswerInv

\* The end of the debit: booked when it says ok, not booked when it says no.
LEMMA DebitKeepsInv ==
  ASSUME TypeOK, NEW s \in Spins, SpinInv(s), DebitEnds(s)
  PROVE  SpinInv(s)'
<1>0. flow[s] \in Flow /\ flow[s].pc = "debit"
  BY DEF TypeOK, DebitEnds
<1>1. PICK code \in Codes \cup {"ok"} :
        /\ Ends(s, code)
        /\ IF code = "ok"
           THEN /\ flow' = [flow EXCEPT ![s] = [flow[s] EXCEPT !.pc = "game",
                                                             !.legs = {"debit"}]]
                /\ UNCHANGED wire
                /\ UNCHANGED providerVars
           ELSE Finish(s, code, {})
  BY DEF DebitEnds
<1>2. /\ wire' = wire
      /\ booked' = booked /\ reversed' = reversed
  BY <1>1 DEF DebitEnds, ledgerVars, Finish
<1>3. Outstanding(s)' = Outstanding(s)
  BY <1>2, NothingSent
<1>4. /\ answer'[s] = "none"
      /\ code = "ok" => answer[s] = "ok"
      /\ code \notin Unanswered =>
           code = answer[s] /\ answer[s] # "none"
  BY <1>1, CodeOf
<1>5. answer[s] # "none" => Outstanding(s) = {}
  BY <1>0 DEF SpinInv, AnswerInv, DebitInv, Sent
<1>6. CASE code = "ok"
  <2>1. /\ flow'[s].pc = "game" /\ flow'[s].legs = {"debit"}
        /\ flow'[s].win = flow[s].win /\ flow'[s].try = flow[s].try
        /\ flow'[s].error = flow[s].error
    <3>1. flow'[s] = [flow[s] EXCEPT !.pc = "game", !.legs = {"debit"}]
      BY <1>1, <1>6 DEF TypeOK
    <3>2. QED
      BY <1>0, <3>1 DEF Flow
  <2>2. QED
    BY <1>0, <1>2, <1>3, <1>4, <1>5, <1>6, <2>1
       DEF SpinInv, WireInv, AnswerInv, DebitInv, CreditInv, ResultInv, Charged, WinPaid,
           DebitRef, WinRef, Legs, Sent
<1>7. CASE code # "ok"
  <2>1. /\ flow'[s].pc = "done" /\ flow'[s].error = code /\ flow'[s].legs = {}
        /\ flow'[s].win = flow[s].win /\ flow'[s].try = flow[s].try
    BY <1>1, <1>7, FinishFields
  <2>2. WireInv(s)' /\ AnswerInv(s)' /\ DebitInv(s)' /\ CreditInv(s)'
    BY <1>0, <1>2, <1>3, <1>4, <1>5, <2>1
       DEF SpinInv, WireInv, AnswerInv, DebitInv, CreditInv, Sent
  <2>3. ResultInv(s)'
    <3>1. CASE code \in Unanswered
      BY <2>1, <3>1 DEF ResultInv, Doubtful
    <3>2. CASE code \notin Unanswered
      <4>1. code # "none" /\ code = answer[s] /\ answer[s] \notin {"none", "ok"}
        BY <1>4, <1>7, <3>2
      <4>2. booked[DebitRef(s)] = NoTx /\ ~WinPaid(s) /\ Outstanding(s) = {}
        BY <1>0, <1>5, <4>1 DEF SpinInv, DebitInv
      <4>3. QED
        BY <1>2, <1>3, <2>1, <4>1, <4>2
           DEF ResultInv, Committed, Cancelled, Charged, WinPaid, DebitRef, WinRef
    <3>3. QED
      BY <3>1, <3>2
  <2>4. QED
    BY <2>2, <2>3 DEF SpinInv
<1>8. QED
  BY <1>6, <1>7

\* A rollback starts on a booked debit, with no win booked unless in doubt.
LEMMA UnwindKeepsInv ==
  ASSUME TypeOK, NEW s \in Spins, SpinInv(s), NEW error \in Codes, Unwind(s, error),
         flow[s].pc \in {"game", "credit"}, answer'[s] = "none",
         booked' = booked, reversed' = reversed,
         error \notin Unanswered =>
           ~WinPaid(s) /\ Outstanding(s) = {}
  PROVE  SpinInv(s)'
<1>1. /\ flow'[s].win = flow[s].win /\ flow'[s].try = flow[s].try
      /\ flow'[s].error = error /\ error # "none"
  BY UnwindFields DEF Codes
<1>2. /\ booked[DebitRef(s)] # NoTx
      /\ flow[s].try = 1
      /\ \A r \in Outstanding(s) : r.leg = "credit"
  BY DEF SpinInv, AnswerInv, DebitInv, CreditInv, Charged
<1>3. CASE /\ flow'[s].pc = "rollback"
           /\ \E r : /\ wire' = wire \cup {r}
                     /\ r.spin = s /\ r.leg = "rollback" /\ r.ref = DebitRef(s)
  <2>1. PICK r : /\ wire' = wire \cup {r}
                 /\ r.spin = s /\ r.leg = "rollback" /\ r.ref = DebitRef(s)
    BY <1>3
  <2>2. Outstanding(s)' = Outstanding(s) \cup {r}
    BY <2>1, OneSent
  <2>3. WireInv(s)'
    BY <1>1, <1>2, <2>1, <2>2 DEF SpinInv, WireInv, DebitRef, WinRef
  <2>4. AnswerInv(s)' /\ DebitInv(s)' /\ ResultInv(s)'
    BY <1>1, <1>2, <1>3 DEF AnswerInv, DebitInv, ResultInv
  <2>5. CreditInv(s)'
    BY <1>1, <1>2, <1>3, <2>1, <2>2 DEF CreditInv, WinPaid, DebitRef, WinRef, Sent
  <2>6. QED
    BY <2>3, <2>4, <2>5 DEF SpinInv
<1>4. CASE flow'[s].pc = "done" /\ flow'[s].legs = {"debit"} /\ wire' = wire
  <2>1. Outstanding(s)' = Outstanding(s)
    BY <1>4, NothingSent
  <2>2. Doubtful(s)'
    BY <1>1, <1>4 DEF Doubtful
  <2>3. QED
    BY <1>1, <1>2, <1>4, <2>1, <2>2
       DEF SpinInv, WireInv, AnswerInv, DebitInv, CreditInv, ResultInv, DebitRef, WinRef
<1>5. QED
  BY <1>3, <1>4, UnwindFields

\* A game that throws leads to a rollback of a debit that stands alone.
LEMMA ThrowKeepsInv ==
  ASSUME TypeOK, NEW s \in Spins, SpinInv(s), GameThrows(s)
  PROVE  SpinInv(s)'
<1>1. /\ flow[s].pc = "game" /\ Unwind(s, "game_failed") /\ answer' = answer
      /\ booked' = booked /\ reversed' = reversed
  BY DEF GameThrows, ledgerVars
<1>2. answer[s] = "none" /\ ~WinPaid(s) /\ Outstanding(s) = {}
  BY <1>1 DEF SpinInv, AnswerInv, DebitInv, Legs
<1>3. "game_failed" \in Codes
  BY DEF Codes
<1>4. QED
  BY <1>1, <1>2, <1>3, UnwindKeepsInv

\* A win leads to the only credit of the spin; no win commits on the debit.
LEMMA ReturnKeepsInv ==
  ASSUME TypeOK, NEW s \in Spins, SpinInv(s), NEW win \in WinAmounts, GameReturns(s, win)
  PROVE  SpinInv(s)'
<1>0. /\ flow[s] \in Flow /\ flow[s].pc = "game" /\ answer' = answer
      /\ booked' = booked /\ reversed' = reversed
  BY DEF TypeOK, GameReturns, ledgerVars
<1>1. /\ Outstanding(s) = {} /\ Charged(s) /\ ~WinPaid(s) /\ flow[s].win = 0
      /\ answer[s] = "none" /\ flow[s].try = 1
  BY <1>0 DEF SpinInv, AnswerInv, DebitInv, Legs
<1>2. ASSUME NEW error, Finish(s, error, {"debit"}),
             error = "none" \/ error \in Codes
      PROVE  SpinInv(s)'
  <2>1. /\ flow'[s].pc = "done" /\ flow'[s].error = error /\ flow'[s].legs = {"debit"}
        /\ flow'[s].win = 0 /\ flow'[s].try = 1 /\ wire' = wire
    BY <1>1, <1>2, FinishFields
  <2>2. Outstanding(s)' = {}
    BY <1>1, <2>1, NothingSent
  <2>3. WireInv(s)' /\ AnswerInv(s)' /\ DebitInv(s)' /\ CreditInv(s)'
    BY <1>0, <1>1, <2>1, <2>2 DEF WireInv, AnswerInv, DebitInv, CreditInv, Sent
  <2>4. ResultInv(s)'
    <3>1. CASE error = "none"
      BY <1>0, <1>1, <2>1, <2>2, <3>1
         DEF ResultInv, Committed, Settled, Charged, WinPaid, DebitRef, WinRef
    <3>2. CASE error # "none"
      BY <2>1, <3>2 DEF ResultInv, Doubtful
    <3>3. QED
      BY <3>1, <3>2
  <2>5. QED
    BY <2>3, <2>4 DEF SpinInv
<1>3. CASE win = 0
  BY <1>2, <1>3 DEF GameReturns
<1>4. CASE win # 0 /\ Resolvable(TenantOf[s])
  <2> DEFINE to == [flow[s] EXCEPT !.pc = "credit", !.win = win]
  <2>1. Send(s, to, WinRef(s), win)
    BY <1>4 DEF GameReturns
  <2>2. to.pc = "credit" /\ to.win = win /\ to.try = flow[s].try /\ to.error = flow[s].error
    BY <1>0 DEF Flow
  <2> HIDE DEF to
  <2>3. PICK r : /\ wire' = wire \cup {r}
                 /\ r.spin = s /\ r.leg = "credit" /\ r.ref = WinRef(s) /\ r.amount = win
    BY <2>1, <2>2, SendFields
  <2>4. flow'[s] = to
    BY <2>1, SendFields
  <2>5. Outstanding(s)' = {r}
    BY <1>1, <2>3, OneSent
  <2>6. win \in Nat /\ win > 0
    BY <1>4
  <2>7. WireInv(s)'
    BY <2>2, <2>3, <2>4, <2>5 DEF WireInv, DebitRef, WinRef
  <2>8. AnswerInv(s)' /\ DebitInv(s)' /\ ResultInv(s)'
    BY <1>0, <1>1, <2>2, <2>4 DEF AnswerInv, DebitInv, ResultInv
  <2>9. CreditInv(s)'
    BY <1>0, <1>1, <2>2, <2>3, <2>4, <2>5, <2>6
       DEF CreditInv, Charged, WinPaid, DebitRef, WinRef
  <2>10. QED
    BY <2>7, <2>8, <2>9 DEF SpinInv
<1>5. CASE win # 0 /\ ~Resolvable(TenantOf[s])
  <2>1. Finish(s, ResolveError(TenantOf[s]), {"debit"})
    BY <1>5 DEF GameReturns
  <2>2. ResolveError(TenantOf[s]) = "none" \/ ResolveError(TenantOf[s]) \in Codes
    BY DEF ResolveError, Codes
  <2>3. QED
    BY <1>2, <2>1, <2>2
<1>6. QED
  BY <1>3, <1>4, <1>5

\* The end of the credit: committed on ok, rolled back on anything else.
LEMMA CreditKeepsInv ==
  ASSUME TypeOK, NEW s \in Spins, SpinInv(s), CreditEnds(s)
  PROVE  SpinInv(s)'
<1>0. flow[s] \in Flow /\ flow[s].pc = "credit" /\ booked' = booked /\ reversed' = reversed
  BY DEF TypeOK, CreditEnds, ledgerVars
<1>1. PICK code \in Codes \cup {"ok"} :
        /\ Ends(s, code)
        /\ IF code = "ok" THEN Finish(s, "none", {"debit", "credit"}) ELSE Unwind(s, code)
  BY DEF CreditEnds
<1>2. /\ answer'[s] = "none"
      /\ code = "ok" => answer[s] = "ok"
      /\ code \notin Unanswered =>
           code = answer[s] /\ answer[s] # "none"
  BY <1>1, CodeOf
<1>3. answer[s] # "none" => Outstanding(s) = {}
  BY <1>0 DEF SpinInv, AnswerInv, CreditInv, Sent
<1>4. CASE code = "ok"
  <2>1. /\ flow'[s].pc = "done" /\ flow'[s].error = "none"
        /\ flow'[s].win = flow[s].win /\ flow'[s].try = flow[s].try /\ wire' = wire
    BY <1>1, <1>4, FinishFields
  <2>2. /\ Outstanding(s)' = {}
        /\ booked[WinRef(s)] = flow[s].win /\ Charged(s) /\ flow[s].win > 0 /\ flow[s].try = 1
    BY <1>0, <1>2, <1>3, <1>4, <2>1, NothingSent DEF SpinInv, AnswerInv, CreditInv
  <2>3. WireInv(s)' /\ AnswerInv(s)' /\ DebitInv(s)' /\ CreditInv(s)'
    BY <1>2, <2>1, <2>2 DEF WireInv, AnswerInv, DebitInv, CreditInv, Sent
  <2>4. ResultInv(s)'
    BY <1>0, <2>1, <2>2
       DEF ResultInv, Committed, Settled, Charged, WinPaid, DebitRef, WinRef
  <2>5. QED
    BY <2>3, <2>4 DEF SpinInv
<1>5. CASE code # "ok"
  <2>1. code \in Codes /\ Unwind(s, code)
    BY <1>1, <1>5
  <2>2. code \notin Unanswered =>
          ~WinPaid(s) /\ Outstanding(s) = {}
    BY <1>0, <1>2, <1>3, <1>5 DEF SpinInv, CreditInv
  <2>3. QED
    BY <1>0, <1>2, <2>1, <2>2, UnwindKeepsInv
<1>6. QED
  BY <1>4, <1>5

\* The end of the rollback: without doubt only if the debit is reversed.
LEMMA RollbackKeepsInv ==
  ASSUME TypeOK, NEW s \in Spins, SpinInv(s), RollbackEnds(s)
  PROVE  SpinInv(s)'
<1>0. flow[s].pc = "rollback" /\ booked' = booked /\ reversed' = reversed
  BY DEF RollbackEnds, ledgerVars
<1>1. PICK code \in Codes \cup {"ok"} :
        /\ Ends(s, code)
        /\ Finish(s, flow[s].error,
                  IF code = "ok" THEN {"debit", "rollback"} ELSE {"debit"})
  BY DEF RollbackEnds
<1>2. answer'[s] = "none" /\ (code = "ok" => answer[s] = "ok")
  BY <1>1, CodeOf
<1>3. /\ flow'[s].pc = "done" /\ flow'[s].error = flow[s].error
      /\ flow'[s].legs = (IF code = "ok" THEN {"debit", "rollback"} ELSE {"debit"})
      /\ flow'[s].win = flow[s].win /\ flow'[s].try = flow[s].try
      /\ wire' = wire
  BY <1>1, FinishFields
<1>4. Outstanding(s)' = Outstanding(s)
  BY <1>3, NothingSent
<1>5. WireInv(s)' /\ AnswerInv(s)' /\ DebitInv(s)' /\ CreditInv(s)'
  BY <1>0, <1>2, <1>3, <1>4 DEF SpinInv, WireInv, AnswerInv, DebitInv, CreditInv, DebitRef, WinRef
<1>6. ResultInv(s)'
  <2>1. CASE Doubtful(s)'
    BY <2>1 DEF ResultInv
  <2>2. CASE ~Doubtful(s)'
    <3>1. /\ flow[s].error \notin Unanswered
          /\ flow[s].error # "none"
          /\ code = "ok"
      BY <1>0, <1>3, <2>2 DEF Doubtful, SpinInv, CreditInv
    <3>2. /\ DebitRef(s) \in reversed /\ ~WinPaid(s)
          /\ Sent(s, "credit") = {} /\ Sent(s, "rollback") = {}
          /\ \A r \in Outstanding(s) : r.leg # "debit"
      BY <1>0, <1>2, <3>1 DEF SpinInv, AnswerInv, CreditInv
    <3>3. Outstanding(s) = {}
      <4>1. \A r \in Outstanding(s) : r.leg \in {"debit", "credit", "rollback"}
        BY DEF Outstanding, TypeOK, Request, Legs
      <4>2. QED
        BY <3>2, <4>1 DEF Sent
    <3>4. QED
      BY <1>0, <1>3, <1>4, <3>1, <3>2, <3>3
         DEF ResultInv, Committed, Cancelled, Charged, WinPaid, DebitRef, WinRef
  <2>3. QED
    BY <2>1, <2>2
<1>7. QED
  BY <1>5, <1>6 DEF SpinInv

\* What handling or losing a request does to its flow's requests.
LEMMA Taken ==
  ASSUME NEW r \in wire, wire' = wire \ {r}
  PROVE  /\ Outstanding(r.spin)' = Outstanding(r.spin) \ {r}
         /\ \A q \in Spins \ {r.spin} : Outstanding(q)' = Outstanding(q)
         /\ r \in Outstanding(r.spin)
BY DEF Outstanding

\* A lost request only shrinks what is on the wire.
LEMMA LoseKeepsInv ==
  ASSUME TypeOK, NEW r \in wire, NEW s \in Spins, s = r.spin, SpinInv(s), Lose(r)
  PROVE  SpinInv(s)'
<1>1. /\ flow' = flow /\ answer' = answer /\ booked' = booked /\ reversed' = reversed
      /\ Outstanding(s)' = Outstanding(s) \ {r}
      /\ r \in Outstanding(s)
  BY Taken DEF Lose, ledgerVars
<1>2. QED
  BY <1>1 DEF SpinInv, WireInv, AnswerInv, DebitInv, CreditInv, ResultInv, Sent, Charged,
              WinPaid, Settled, Cancelled, Committed, Doubtful, DebitRef, WinRef

\* The provider's answer reaches only the flow that awaits this request.
LEMMA AnswerFields ==
  ASSUME TypeOK, NEW r \in Request, NEW code, Answer(r, code)
  PROVE  /\ answer'[r.spin] \in {answer[r.spin], code}
         /\ flow[r.spin].pc # r.leg => answer'[r.spin] = answer[r.spin]
         /\ \A q \in Spins \ {r.spin} : answer'[q] = answer[q]
BY DEF TypeOK, Answer, Request

\* What handling a request of each leg does to the ledger, and what it answers.
LEMMA HandleFields ==
  ASSUME TypeOK, NEW r \in wire, r \in Request, Handle(r)
  PROVE  \E code \in {"ok", "insufficient_funds", "auth_failed", "invalid_signature",
                      "unknown_ref", "duplicate_ref"} :
           /\ Answer(r, code)
           /\ \A ref \in Refs \ {r.ref} :
                booked'[ref] = booked[ref] /\ (ref \in reversed' <=> ref \in reversed)
           /\ r.leg = "rollback" =>
                /\ booked' = booked
                /\ booked[r.ref] # NoTx /\ code = "ok" => r.ref \in reversed'
           /\ r.leg # "rollback" =>
                /\ reversed' = reversed
                /\ booked'[r.ref] # booked[r.ref] => code = "ok" /\ booked'[r.ref] = r.amount
                /\ code = "ok" => booked'[r.ref] # NoTx
<1>1. r.ref \in Refs /\ r.amount \in Nat /\ booked \in [Refs -> Nat \cup {NoTx}]
  BY DEF TypeOK, Request
<1>2. CASE Answer(r, "invalid_signature") /\ UNCHANGED ledgerVars
  BY <1>2 DEF ledgerVars
<1>3. CASE r.leg = "rollback" /\ Reverse(r) /\ UNCHANGED booked
  BY <1>1, <1>3 DEF Reverse
<1>4. CASE r.leg # "rollback" /\ Book(r) /\ UNCHANGED reversed
  <2>1. CASE /\ booked[r.ref] = NoTx
             /\ booked' = [booked EXCEPT ![r.ref] = r.amount]
             /\ Answer(r, "ok")
    BY <1>1, <1>4, <2>1
  <2>2. CASE UNCHANGED booked /\ booked[r.ref] = NoTx
    BY <1>1, <1>4, <2>2 DEF Book
  <2>3. CASE UNCHANGED booked /\ booked[r.ref] # NoTx
    BY <1>1, <1>4, <2>3 DEF Book
  <2>4. QED
    BY <1>4, <2>1, <2>2, <2>3 DEF Book
<1>5. QED
  BY <1>2, <1>3, <1>4 DEF Handle

\* A request handled, however late, agrees with what its spin's flow concludes.
LEMMA HandleKeepsInv ==
  ASSUME TypeOK, NEW r \in wire, NEW s \in Spins, s = r.spin, SpinInv(s), Handle(r)
  PROVE  SpinInv(s)'
<1>0. r \in Request /\ r.leg \in Legs
  BY DEF TypeOK, Request
<1>1. PICK code \in {"ok", "insufficient_funds", "auth_failed", "invalid_signature",
                      "unknown_ref", "duplicate_ref"} :
        /\ Answer(r, code)
        /\ \A ref \in Refs \ {r.ref} :
             booked'[ref] = booked[ref] /\ (ref \in reversed' <=> ref \in reversed)
        /\ r.leg = "rollback" =>
             /\ booked' = booked
             /\ booked[r.ref] # NoTx /\ code = "ok" => r.ref \in reversed'
        /\ r.leg # "rollback" =>
             /\ reversed' = reversed
             /\ booked'[r.ref] # booked[r.ref] => code = "ok" /\ booked'[r.ref] = r.amount
             /\ code = "ok" => booked'[r.ref] # NoTx
  BY <1>0, HandleFields
<1>2. /\ Outstanding(s)' = Outstanding(s) \ {r}
      /\ r \in Outstanding(s)
      /\ flow' = flow
  BY Taken DEF Handle
<1>3. /\ answer'[s] \in {answer[s], code}
      /\ flow[s].pc # r.leg => answer'[s] = answer[s]
  BY <1>0, <1>1, AnswerFields
<1>4. /\ r.ref = (IF r.leg = "credit" THEN WinRef(s) ELSE DebitRef(s))
      /\ r.leg = "credit" => r.amount = flow[s].win
      /\ \A x \in Outstanding(s) \ {r} : x.leg # r.leg
  BY <1>2 DEF SpinInv, WireInv
<1>5. \A q \in Spins : DebitRef(q) \in Refs /\ WinRef(q) \in Refs
  BY DEF DebitRef, WinRef, Refs
<1>6. WireInv(s)'
  BY <1>2 DEF SpinInv, WireInv, DebitRef, WinRef
<1>7. AnswerInv(s)'
  BY <1>0, <1>2, <1>3, <1>4 DEF SpinInv, AnswerInv, Sent
<1>8. DebitInv(s)'
  <2>1. flow[s].pc \notin {"idle", "game"}
    BY <1>2 DEF SpinInv, DebitInv
  <2>2. CASE flow[s].pc = "debit"
    <3>1. /\ r.leg = "debit" /\ booked[DebitRef(s)] = NoTx
          /\ \A x \in Outstanding(s) : x = r
          /\ answer[s] = "none"
      BY <1>2, <1>4, <2>2 DEF SpinInv, DebitInv, AnswerInv, Sent
    <3>2. Outstanding(s)' = {}
      BY <1>2, <3>1
    <3>3. /\ answer'[s] = "ok" => booked'[DebitRef(s)] # NoTx
          /\ answer'[s] \notin {"ok", "none"} => booked'[DebitRef(s)] = NoTx
      BY <1>1, <1>3, <1>4, <3>1
    <3>4. booked'[WinRef(s)] = booked[WinRef(s)] /\ reversed' = reversed
      BY <1>1, <1>4, <1>5, <3>1 DEF DebitRef, WinRef
    <3>5. QED
      BY <1>2, <2>2, <3>2, <3>3, <3>4 DEF SpinInv, DebitInv, WinPaid, DebitRef, WinRef
  <2>3. CASE flow[s].pc \notin {"idle", "game", "debit"}
    BY <1>2, <2>3 DEF DebitInv
  <2>4. QED
    BY <2>1, <2>2, <2>3
<1>9. CreditInv(s)'
  <2>1. CASE flow[s].pc = "credit"
    <3>1. /\ r.leg = "credit" /\ ~WinPaid(s) /\ Charged(s) /\ flow[s].win > 0
          /\ \A x \in Outstanding(s) : x = r
          /\ answer[s] = "none"
      BY <1>2, <1>4, <2>1 DEF SpinInv, CreditInv, AnswerInv, Sent
    <3>2. Outstanding(s)' = {}
      BY <1>2, <3>1
    <3>3. Charged(s)'
      BY <1>1, <1>4, <1>5, <3>1 DEF Charged, DebitRef, WinRef
    <3>4. /\ answer'[s] = "ok" => booked'[WinRef(s)] = flow[s].win
          /\ answer'[s] \notin {"ok", "none"} => ~WinPaid(s)'
      BY <1>1, <1>3, <1>4, <3>1 DEF WinPaid, WinRef
    <3>5. QED
      BY <1>2, <2>1, <3>1, <3>2, <3>3, <3>4 DEF CreditInv, WinRef
  <2>2. CASE flow[s].pc = "rollback"
    <3>1. /\ booked[DebitRef(s)] # NoTx /\ flow[s].error # "none"
          /\ \A x \in Outstanding(s) : x.leg # "debit"
      BY <2>2 DEF SpinInv, CreditInv
    <3>2. CASE r.leg = "credit"
      <4>1. flow[s].error \in Unanswered
        BY <1>2, <2>2, <3>2 DEF SpinInv, CreditInv, Sent
      <4>2. /\ booked'[DebitRef(s)] = booked[DebitRef(s)]
            /\ DebitRef(s) \in reversed' <=> DebitRef(s) \in reversed
            /\ answer'[s] = answer[s]
        BY <1>1, <1>3, <1>4, <1>5, <2>2, <3>2 DEF DebitRef, WinRef
      <4>3. QED
        BY <1>2, <2>2, <3>1, <4>1, <4>2 DEF SpinInv, CreditInv, DebitRef
    <3>3. CASE r.leg = "rollback"
      <4>1. /\ booked' = booked
            /\ answer[s] = "none"
            /\ answer'[s] = "ok" => DebitRef(s) \in reversed'
        BY <1>1, <1>2, <1>3, <1>4, <2>2, <3>1, <3>3 DEF SpinInv, AnswerInv, Sent
      <4>2. QED
        BY <1>2, <2>2, <3>1, <4>1 DEF SpinInv, CreditInv, WinPaid, DebitRef, WinRef, Sent
    <3>4. QED
      BY <1>0, <1>2, <3>1, <3>2, <3>3 DEF Legs
  <2>3. CASE flow[s].pc \notin {"credit", "rollback"}
    BY <1>2, <2>3 DEF CreditInv
  <2>4. QED
    BY <2>1, <2>2, <2>3
<1>10. ResultInv(s)'
  <2>1. flow[s].pc = "done" => Doubtful(s)
    BY <1>2 DEF SpinInv, ResultInv
  <2>2. QED
    BY <1>2, <2>1 DEF ResultInv, Doubtful
<1>11. QED
  BY <1>6, <1>7, <1>8, <1>9, <1>10 DEF SpinInv

\* Handling a request of one spin, on whatever try, leaves the others alone.
LEMMA HandleKeepsOthers ==
  ASSUME TypeOK, RefOwned, NEW r \in wire, Handle(r),
         NEW q \in Spins \ {r.spin}, SpinInv(q)
  PROVE  SpinInv(q)'
<1>0. r \in Request
  BY DEF TypeOK
<1>1. PICK code \in {"ok", "insufficient_funds", "auth_failed", "invalid_signature",
                      "unknown_ref", "duplicate_ref"} :
        /\ Answer(r, code)
        /\ \A ref \in Refs \ {r.ref} :
             booked'[ref] = booked[ref] /\ (ref \in reversed' <=> ref \in reversed)
  BY <1>0, HandleFields
<1>2. flow'[q] = flow[q] /\ Outstanding(q)' = Outstanding(q) /\ answer'[q] = answer[q]
  BY <1>0, <1>1, AnswerFields, Taken DEF Handle
<1>3. /\ DebitRef(q) \in Refs /\ WinRef(q) \in Refs
      /\ DebitRef(q) # r.ref /\ WinRef(q) # r.ref
  BY DEF RefOwned, DebitRef, WinRef, Refs
<1>4. QED
  BY <1>1, <1>2, <1>3, Frame

\* Every request sent carries a ref of its own spin.
LEMMA RefOwnedStep ==
  ASSUME TypeOK, RefOwned, [Next]_vars
  PROVE  RefOwned'
<1> DEFINE Owned(r) == r.ref \in {DebitRef(r.spin), WinRef(r.spin)}
           Grows == \/ wire' \subseteq wire
                    \/ \E r : wire' = wire \cup {r} /\ Owned(r)
<1>1. ASSUME NEW s \in Spins, NEW to, NEW ref \in {DebitRef(s), WinRef(s)}, NEW amount,
             Send(s, to, ref, amount)
      PROVE  Grows
  BY <1>1, SendFields
<1>2. ASSUME NEW s \in Spins, NEW error, NEW legs, Finish(s, error, legs)
      PROVE  Grows
  BY <1>2 DEF Finish
<1>3. ASSUME NEW s \in Spins, NEW error, Unwind(s, error)
      PROVE  Grows
  BY <1>1, <1>2, <1>3 DEF Unwind
<1> HIDE DEF Grows
<1>4. ASSUME NEW s \in Spins, RunSpinFlow(s)
      PROVE  Grows
  BY <1>1, <1>4 DEF RunSpinFlow
<1>5. ASSUME NEW s \in Spins, FlowStep(s)
      PROVE  Grows
  <2>1. ASSUME DebitEnds(s) PROVE Grows
    BY <1>2, <2>1 DEF DebitEnds, Grows
  <2>2. ASSUME GameThrows(s) PROVE Grows
    BY <1>3, <2>2 DEF GameThrows
  <2>3. ASSUME NEW win \in WinAmounts, GameReturns(s, win) PROVE Grows
    BY <1>1, <1>2, <2>3 DEF GameReturns
  <2>4. ASSUME CreditEnds(s) PROVE Grows
    BY <1>2, <1>3, <2>4 DEF CreditEnds
  <2>5. ASSUME RollbackEnds(s) PROVE Grows
    BY <1>2, <2>5 DEF RollbackEnds
  <2>6. QED
    BY <1>5, <2>1, <2>2, <2>3, <2>4, <2>5, Zenon DEF FlowStep
<1>6. ASSUME NEW r \in wire, Handle(r) \/ Lose(r)
      PROVE  Grows
  BY <1>6 DEF Handle, Lose, Grows
<1>7. ASSUME OperatorNext \/ UNCHANGED vars
      PROVE  Grows
  BY <1>7 DEF OperatorNext, flowVars, vars, Grows
<1>8. Grows
  BY <1>4, <1>5, <1>6, <1>7, Zenon DEF Next, SpinNext
<1>9. QED
  BY <1>8 DEF Grows, RefOwned, DebitRef, WinRef

\* Whatever the network loses or delays, whatever the operator does to the
\* tenant and however often other refs are retried, the result of the first
\* call with a ref is true unless its caller can tell that it is in doubt.
THEOREM ResultIsTrue == Spec => []ResultTellsOutcome
<1>1. Init => IInv
  BY DEF Init, IInv, CalledInv, RefOwned, SpinInv, WireInv, AnswerInv, DebitInv, CreditInv,
         ResultInv, Idle, Outstanding, WinPaid, DebitRef, WinRef, Refs, Legs
<1>2. TypeOK /\ IInv /\ [Next]_vars => IInv'
  <2> SUFFICES ASSUME TypeOK, IInv, [Next]_vars
               PROVE  \A q \in Spins : flow'[q].try <= 1 => SpinInv(q)'
    BY CalledStep, RefOwnedStep DEF IInv
  <2> DEFINE Kept == \A q \in Spins : flow'[q].try <= 1 => SpinInv(q)'
  <2>0. /\ CalledInv /\ RefOwned
        /\ \A q \in Spins : flow[q].try \in Nat /\ (flow[q].try <= 1 => SpinInv(q))
    BY DEF IInv, TypeOK, Flow
  <2>1. ASSUME NEW s \in Spins, RunSpinFlow(s)
        PROVE  Kept
    <3>1. /\ flow'[s].try = flow[s].try + 1
          /\ \A q \in Spins \ {s} : flow'[q] = flow[q] /\ (SpinInv(q) => SpinInv(q)')
          /\ SpinInv(s) /\ flow[s].try = 0 => SpinInv(s)'
      BY <2>0, <2>1, RunKeepsInv
    <3>2. flow'[s].try <= 1 => flow[s].try = 0 /\ SpinInv(s)
      BY <2>0, <3>1
    <3>3. \A q \in Spins \ {s} : flow'[q].try <= 1 => SpinInv(q)'
      BY <2>0, <3>1
    <3>4. QED
      BY <3>1, <3>2, <3>3
  <2>2. ASSUME NEW s \in Spins, FlowStep(s)
        PROVE  Kept
    <3>1. /\ flow'[s].try = flow[s].try
          /\ \A q \in Spins \ {s} : flow'[q] = flow[q]
      BY <2>2, StepMoves
    <3>2. SpinInv(s) => SpinInv(s)'
      BY <2>2, DebitKeepsInv, ThrowKeepsInv, ReturnKeepsInv, CreditKeepsInv,
         RollbackKeepsInv, Zenon DEF FlowStep
    <3>3. \A q \in Spins \ {s} : SpinInv(q) => SpinInv(q)'
      BY <2>2, StepKeepsOthers
    <3>4. QED
      BY <2>0, <3>1, <3>2, <3>3
  <2>3. ASSUME NEW r \in wire, Handle(r)
        PROVE  Kept
    <3>1. r.spin \in Spins /\ flow' = flow
      BY <2>3 DEF TypeOK, Request, Handle
    <3>2. SpinInv(r.spin) => SpinInv(r.spin)'
      BY <2>3, <3>1, HandleKeepsInv
    <3>3. \A q \in Spins \ {r.spin} : SpinInv(q) => SpinInv(q)'
      BY <2>0, <2>3, HandleKeepsOthers
    <3>4. QED
      BY <2>0, <3>1, <3>2, <3>3
  <2>4. ASSUME NEW r \in wire, Lose(r)
        PROVE  Kept
    <3>1. r.spin \in Spins
      BY DEF TypeOK, Request
    <3>2. SpinInv(r.spin) => SpinInv(r.spin)'
      BY <2>4, <3>1, LoseKeepsInv
    <3>3. /\ flow' = flow /\ answer' = answer /\ booked' = booked /\ reversed' = reversed
          /\ \A q \in Spins \ {r.spin} : Outstanding(q)' = Outstanding(q)
      BY <2>4, Taken DEF Lose, ledgerVars
    <3>4. \A q \in Spins \ {r.spin} : SpinInv(q) => SpinInv(q)'
      BY <3>3, Frame
    <3>5. QED
      BY <2>0, <3>2, <3>3, <3>4
  <2>5. ASSUME OperatorNext \/ UNCHANGED vars
        PROVE  Kept
    <3>1. /\ flow' = flow /\ answer' = answer /\ booked' = booked /\ reversed' = reversed
          /\ wire' = wire
      BY <2>5 DEF OperatorNext, flowVars, ledgerVars, vars
    <3>2. \A q \in Spins : SpinInv(q) => SpinInv(q)'
      BY <3>1, NothingSent, Frame
    <3>3. QED
      BY <2>0, <3>1, <3>2
  <2> HIDE DEF Kept
  <2>6. Kept
    BY <2>1, <2>2, <2>3, <2>4, <2>5, Zenon DEF Next, SpinNext
  <2>7. QED
    BY <2>6 DEF Kept
<1>3. TypeOK /\ IInv => ResultTellsOutcome
  BY DEF IInv, SpinInv, ResultInv, ResultTellsOutcome
<1>4. QED
  BY <1>1, <1>2, <1>3, TypeCorrect, PTL DEF Spec

-----------------------------------------------------------------------------
(* The inductive invariant behind WinsBacked.  It holds of a spin in every     *)
(* call with its ref, not only in the first: late requests of earlier calls    *)
(* carry the same refs, and a booking is never undone.                         *)

DebitBooked(s) == booked[DebitRef(s)] # NoTx

\* A request for a win is sent under the win's ref, after the debit was booked.
LegsBacked ==
  \A r \in wire :
    IF r.leg = "credit" THEN r.ref = WinRef(r.spin) /\ DebitBooked(r.spin)
    ELSE r.ref = DebitRef(r.spin)

\* Where a flow stands tells what is booked for it.
FlowBacked(s) ==
  /\ flow[s].pc \in {"game", "credit", "rollback"} => DebitBooked(s)
  /\ flow[s].pc \in {"debit", "game"} => flow[s].win = 0
  /\ flow[s].pc = "rollback" => flow[s].error # "none"
  /\ Committed(s) /\ flow[s].win > 0 => WinPaid(s)

\* So does an answer on its way back.
AnswerBacked(s) ==
  /\ flow[s].pc \notin Legs => answer[s] = "none"
  /\ flow[s].pc = "debit" /\ answer[s] = "ok" => DebitBooked(s)
  /\ flow[s].pc = "credit" /\ answer[s] = "ok" => WinPaid(s)

BackedInv(s) ==
  (WinPaid(s) => DebitBooked(s)) /\ FlowBacked(s) /\ AnswerBacked(s)

BackedIInv == LegsBacked /\ \A s \in Spins : BackedInv(s)

\* Bookings are only ever added: what backs a spin whose flow and answer stay
\* goes on backing it.
LEMMA BackedFrame ==
  ASSUME NEW q \in Spins, BackedInv(q),
         flow'[q] = flow[q], answer'[q] = answer[q],
         DebitBooked(q) => DebitBooked(q)',
         WinPaid(q) => WinPaid(q)',
         WinPaid(q)' => WinPaid(q) \/ DebitBooked(q)'
  PROVE  BackedInv(q)'
BY DEF BackedInv, FlowBacked, AnswerBacked, Committed

\* A step of s consumes at most its own answer, and books nothing.
LEMMA StepIsQuiet ==
  ASSUME TypeOK, NEW s \in Spins, FlowStep(s)
  PROVE  /\ booked' = booked
         /\ \A q \in Spins \ {s} : answer'[q] = answer[q]
<1> DEFINE Quiet == booked' = booked /\ \A q \in Spins \ {s} : answer'[q] = answer[q]
<1>1. ASSUME NEW code, Ends(s, code)
      PROVE  \A q \in Spins \ {s} : answer'[q] = answer[q]
  BY <1>1 DEF Ends, TypeOK
<1>2. (DebitEnds(s) => Quiet) /\ (CreditEnds(s) => Quiet) /\ (RollbackEnds(s) => Quiet)
  BY <1>1 DEF DebitEnds, CreditEnds, RollbackEnds, ledgerVars
<1>3. GameThrows(s) => Quiet
  BY DEF GameThrows, ledgerVars
<1>4. ASSUME NEW win \in WinAmounts, GameReturns(s, win)
      PROVE  Quiet
  BY <1>4 DEF GameReturns, ledgerVars
<1> HIDE DEF Quiet
<1>5. Quiet
  BY <1>2, <1>3, <1>4, Zenon DEF FlowStep
<1>6. QED
  BY <1>5 DEF Quiet

\* How a call ended tells what the provider had answered, if anything.
LEMMA EndedBacked ==
  ASSUME TypeOK, NEW s \in Spins, NEW code \in Codes \cup {"ok"}, Ends(s, code)
  PROVE  answer'[s] = "none" /\ (code = "ok" => answer[s] = "ok")
BY DEF Ends, TypeOK

\* A rollback starts on a booked debit and never ends as committed.
LEMMA UnwindBacked ==
  ASSUME TypeOK, NEW s \in Spins, BackedInv(s), NEW error \in Codes, Unwind(s, error),
         DebitBooked(s), answer'[s] = "none", booked' = booked
  PROVE  BackedInv(s)'
<1>1. flow'[s].error = error /\ error # "none" /\ flow'[s].pc \in {"rollback", "done"}
  BY UnwindFields DEF Codes
<1>2. QED
  BY <1>1 DEF BackedInv, FlowBacked, AnswerBacked, Committed, WinPaid, DebitBooked, DebitRef,
              WinRef

\* Each step of a flow goes on only with what the ledger backs.
LEMMA StepBacked ==
  ASSUME TypeOK, NEW s \in Spins, BackedInv(s), FlowStep(s)
  PROVE  BackedInv(s)'
<1>0. flow[s] \in Flow /\ booked' = booked
  BY StepIsQuiet DEF TypeOK
<1>1. CASE DebitEnds(s)
  <2>1. PICK code \in Codes \cup {"ok"} :
          /\ Ends(s, code)
          /\ IF code = "ok"
             THEN flow' = [flow EXCEPT ![s] = [flow[s] EXCEPT !.pc = "game",
                                                             !.legs = {"debit"}]]
             ELSE Finish(s, code, {})
    BY <1>1 DEF DebitEnds
  <2>2. answer'[s] = "none" /\ (code = "ok" => answer[s] = "ok") /\ flow[s].pc = "debit"
    BY <1>1, <2>1, EndedBacked DEF DebitEnds
  <2>3. CASE code = "ok"
    <3>1. flow'[s] = [flow[s] EXCEPT !.pc = "game", !.legs = {"debit"}]
      BY <2>1, <2>3 DEF TypeOK
    <3>2. flow'[s].pc = "game" /\ flow'[s].win = flow[s].win
      BY <1>0, <3>1 DEF Flow
    <3>3. QED
      BY <1>0, <2>2, <2>3, <3>2
         DEF BackedInv, FlowBacked, AnswerBacked, Committed, WinPaid, DebitBooked, DebitRef,
             WinRef
  <2>4. CASE code # "ok"
    <3>1. flow'[s].pc = "done" /\ flow'[s].error = code /\ code # "none"
      BY <2>1, <2>4, FinishFields DEF Ends
    <3>2. QED
      BY <1>0, <2>2, <3>1
         DEF BackedInv, FlowBacked, AnswerBacked, Committed, WinPaid, DebitBooked, DebitRef,
             WinRef
  <2>5. QED
    BY <2>3, <2>4
<1>2. CASE GameThrows(s)
  <2>1. /\ Unwind(s, "game_failed") /\ "game_failed" \in Codes
        /\ DebitBooked(s) /\ answer'[s] = "none"
    BY <1>2 DEF GameThrows, Codes, BackedInv, FlowBacked, AnswerBacked, Legs
  <2>2. QED
    BY <1>0, <2>1, UnwindBacked
<1>3. ASSUME NEW win \in WinAmounts, GameReturns(s, win)
      PROVE  BackedInv(s)'
  <2>1. DebitBooked(s) /\ flow[s].win = 0 /\ answer'[s] = "none"
    BY <1>3 DEF GameReturns, BackedInv, FlowBacked, AnswerBacked, Legs
  <2>2. ASSUME NEW error, Finish(s, error, {"debit"})
        PROVE  BackedInv(s)'
    <3>1. flow'[s].pc = "done" /\ flow'[s].win = 0
      BY <2>1, <2>2, FinishFields
    <3>2. QED
      BY <1>0, <2>1, <3>1
         DEF BackedInv, FlowBacked, AnswerBacked, WinPaid, DebitBooked, DebitRef, WinRef
  <2>3. CASE Send(s, [flow[s] EXCEPT !.pc = "credit", !.win = win], WinRef(s), win)
    <3>1. flow'[s] = [flow[s] EXCEPT !.pc = "credit", !.win = win]
      BY <2>3, SendFields
    <3>2. flow'[s].pc = "credit"
      BY <1>0, <3>1 DEF Flow
    <3>3. QED
      BY <1>0, <2>1, <3>2
         DEF BackedInv, FlowBacked, AnswerBacked, Committed, WinPaid, DebitBooked, DebitRef,
             WinRef
  <2>4. QED
    BY <1>3, <2>2, <2>3 DEF GameReturns
<1>4. CASE CreditEnds(s)
  <2>1. PICK code \in Codes \cup {"ok"} :
          /\ Ends(s, code)
          /\ IF code = "ok" THEN Finish(s, "none", {"debit", "credit"}) ELSE Unwind(s, code)
    BY <1>4 DEF CreditEnds
  <2>2. /\ answer'[s] = "none" /\ (code = "ok" => answer[s] = "ok") /\ flow[s].pc = "credit"
        /\ DebitBooked(s)
    BY <1>4, <2>1, EndedBacked DEF CreditEnds, BackedInv, FlowBacked
  <2>3. CASE code = "ok"
    <3>1. WinPaid(s) /\ flow'[s].pc = "done"
      BY <2>1, <2>2, <2>3, FinishFields DEF BackedInv, AnswerBacked
    <3>2. QED
      BY <1>0, <2>2, <3>1
         DEF BackedInv, FlowBacked, AnswerBacked, Committed, WinPaid, DebitBooked, DebitRef,
             WinRef
  <2>4. CASE code # "ok"
    BY <1>0, <2>1, <2>2, <2>4, UnwindBacked
  <2>5. QED
    BY <2>3, <2>4
<1>5. CASE RollbackEnds(s)
  <2>1. /\ flow'[s].pc = "done" /\ flow'[s].error # "none" /\ answer'[s] = "none"
    BY <1>5, EndedBacked, FinishFields DEF RollbackEnds, BackedInv, FlowBacked
  <2>2. QED
    BY <1>0, <2>1
       DEF BackedInv, FlowBacked, AnswerBacked, Committed, WinPaid, DebitBooked, DebitRef,
           WinRef
<1>6. QED
  BY <1>1, <1>2, <1>3, <1>4, <1>5, Zenon DEF FlowStep

\* What a flow sends is backed: a credit leaves only a flow whose debit is booked.
LEMMA SendBacked ==
  ASSUME TypeOK, LegsBacked, NEW s \in Spins, NEW to, NEW ref, NEW amount,
         Send(s, to, ref, amount), booked' = booked,
         IF to.pc = "credit" THEN ref = WinRef(s) /\ DebitBooked(s) ELSE ref = DebitRef(s)
  PROVE  LegsBacked'
<1>1. PICK r : wire' = wire \cup {r} /\ r.spin = s /\ r.leg = to.pc /\ r.ref = ref
  BY SendFields
<1>2. QED
  BY <1>1 DEF LegsBacked, DebitBooked, DebitRef, WinRef

\* So the wire stays backed in every step of a flow.
LEMMA StepLegsBacked ==
  ASSUME TypeOK, LegsBacked, NEW s \in Spins, BackedInv(s), FlowStep(s)
  PROVE  LegsBacked'
<1>0. flow[s] \in Flow /\ booked' = booked
  BY StepIsQuiet DEF TypeOK
<1>1. ASSUME wire' = wire
      PROVE  LegsBacked'
  BY <1>0, <1>1 DEF LegsBacked, DebitBooked, DebitRef, WinRef
<1>2. ASSUME NEW error, NEW legs, Finish(s, error, legs)
      PROVE  LegsBacked'
  BY <1>1, <1>2 DEF Finish
<1>3. ASSUME NEW error, Unwind(s, error)
      PROVE  LegsBacked'
  <2>1. CASE Send(s, [flow[s] EXCEPT !.pc = "rollback", !.error = error], DebitRef(s), 0)
    <3> DEFINE to == [flow[s] EXCEPT !.pc = "rollback", !.error = error]
    <3>1. to.pc = "rollback"
      BY <1>0 DEF Flow
    <3> HIDE DEF to
    <3>2. Send(s, to, DebitRef(s), 0)
      BY <2>1 DEF to
    <3>3. QED
      BY <1>0, <3>1, <3>2, SendBacked
  <2>2. QED
    BY <1>2, <1>3, <2>1 DEF Unwind
<1>4. DebitEnds(s) => LegsBacked'
  BY <1>1, <1>2 DEF DebitEnds
<1>5. GameThrows(s) => LegsBacked'
  BY <1>3 DEF GameThrows
<1>6. ASSUME NEW win \in WinAmounts, GameReturns(s, win)
      PROVE  LegsBacked'
  <2>1. CASE Send(s, [flow[s] EXCEPT !.pc = "credit", !.win = win], WinRef(s), win)
    <3> DEFINE to == [flow[s] EXCEPT !.pc = "credit", !.win = win]
    <3>1. to.pc = "credit" /\ DebitBooked(s)
      BY <1>0, <1>6 DEF Flow, GameReturns, BackedInv, FlowBacked
    <3> HIDE DEF to
    <3>2. Send(s, to, WinRef(s), win)
      BY <2>1 DEF to
    <3>3. QED
      BY <1>0, <3>1, <3>2, SendBacked
  <2>2. QED
    BY <1>2, <1>6, <2>1 DEF GameReturns
<1>7. (CreditEnds(s) => LegsBacked') /\ (RollbackEnds(s) => LegsBacked')
  BY <1>2, <1>3 DEF CreditEnds, RollbackEnds
<1>8. QED
  BY <1>4, <1>5, <1>6, <1>7, Zenon DEF FlowStep

\* A call with a ref, the first or a later one, starts with nothing promised.
LEMMA RunBacked ==
  ASSUME TypeOK, BackedIInv, NEW s \in Spins, RunSpinFlow(s)
  PROVE  BackedIInv'
<1> DEFINE to == [pc |-> "debit", try |-> flow[s].try + 1, win |-> 0,
                  error |-> "none", legs |-> {}]
<1>1. /\ Send(s, to, DebitRef(s), 1) /\ to.pc = "debit" /\ to.win = 0
      /\ answer' = answer /\ booked' = booked /\ flow[s].pc \in {"idle", "done"}
  BY DEF RunSpinFlow, ledgerVars
<1> HIDE DEF to
<1>2. flow'[s] = to /\ \A q \in Spins \ {s} : flow'[q] = flow[q]
  BY <1>1, SendFields
<1>3. LegsBacked'
  BY <1>1, SendBacked DEF BackedIInv
<1>4. BackedInv(s)'
  BY <1>1, <1>2 DEF BackedIInv, BackedInv, FlowBacked, AnswerBacked, Committed, WinPaid,
                    DebitBooked, DebitRef, WinRef, Legs
<1>5. ASSUME NEW q \in Spins \ {s}
      PROVE  BackedInv(q)'
  <2>1. BackedInv(q)
    BY DEF BackedIInv
  <2>2. QED
    BY <1>1, <1>2, <2>1, BackedFrame DEF WinPaid, DebitBooked, DebitRef, WinRef
<1>6. QED
  BY <1>3, <1>4, <1>5 DEF BackedIInv

\* However late a request is handled, a win is booked only where a debit is.
LEMMA HandleBacked ==
  ASSUME TypeOK, BackedIInv, NEW r \in wire, Handle(r)
  PROVE  BackedIInv'
<1>0. r \in Request /\ r.spin \in Spins /\ r.leg \in Legs /\ flow' = flow
  BY DEF TypeOK, Request, Handle
<1>1. PICK code \in {"ok", "insufficient_funds", "auth_failed", "invalid_signature",
                      "unknown_ref", "duplicate_ref"} :
        /\ Answer(r, code)
        /\ \A ref \in Refs \ {r.ref} : booked'[ref] = booked[ref]
        /\ r.leg = "rollback" => booked' = booked
        /\ r.leg # "rollback" =>
             /\ booked'[r.ref] # booked[r.ref] => code = "ok" /\ booked'[r.ref] = r.amount
             /\ code = "ok" => booked'[r.ref] # NoTx
  BY <1>0, HandleFields
<1>2. IF r.leg = "credit" THEN r.ref = WinRef(r.spin) /\ DebitBooked(r.spin)
      ELSE r.ref = DebitRef(r.spin)
  BY DEF BackedIInv, LegsBacked
<1>3. /\ answer'[r.spin] \in {answer[r.spin], code}
      /\ flow[r.spin].pc # r.leg => answer'[r.spin] = answer[r.spin]
      /\ \A q \in Spins \ {r.spin} : answer'[q] = answer[q]
  BY <1>0, <1>1, AnswerFields
<1>4. \A q \in Spins : /\ DebitRef(q) \in Refs /\ WinRef(q) \in Refs
                       /\ q # r.spin => DebitRef(q) # r.ref /\ WinRef(q) # r.ref
                       /\ DebitRef(q) # WinRef(r.spin) /\ WinRef(q) # DebitRef(r.spin)
  BY <1>2 DEF DebitRef, WinRef, Refs
<1>5. r.amount # NoTx
  BY <1>0 DEF Request
<1>6. \A ref \in Refs : booked[ref] # NoTx => booked'[ref] # NoTx
  BY <1>0, <1>1, <1>5 DEF Legs
<1>7. \A q \in Spins : /\ DebitBooked(q) => DebitBooked(q)'
                       /\ WinPaid(q) => WinPaid(q)'
                       /\ WinPaid(q)' => WinPaid(q) \/ DebitBooked(q)'
  <2> SUFFICES ASSUME NEW q \in Spins
               PROVE  /\ DebitBooked(q) => DebitBooked(q)'
                      /\ WinPaid(q) => WinPaid(q)'
                      /\ WinPaid(q)' => WinPaid(q) \/ DebitBooked(q)'
    OBVIOUS
  <2>1. (DebitBooked(q) => DebitBooked(q)') /\ (WinPaid(q) => WinPaid(q)')
    BY <1>4, <1>6 DEF DebitBooked, WinPaid, DebitRef, WinRef
  <2>2. CASE WinRef(q) = r.ref
    <3>1. q = r.spin /\ r.leg = "credit"
      BY <1>0, <1>2, <1>4, <2>2
    <3>2. QED
      BY <1>2, <2>1, <3>1
  <2>3. CASE WinRef(q) # r.ref
    BY <1>1, <1>4, <2>1, <2>3 DEF WinPaid, WinRef
  <2>4. QED
    BY <2>2, <2>3
<1>8. ASSUME NEW q \in Spins \ {r.spin}
      PROVE  BackedInv(q)'
  <2>1. BackedInv(q)
    BY DEF BackedIInv
  <2>2. QED
    BY <1>0, <1>3, <1>7, <2>1, BackedFrame
<1>9. BackedInv(r.spin)'
  <2>1. BackedInv(r.spin)
    BY <1>0 DEF BackedIInv
  <2>2. (WinPaid(r.spin) => DebitBooked(r.spin))' /\ FlowBacked(r.spin)'
    BY <1>0, <1>7, <2>1 DEF BackedInv, FlowBacked, Committed
  <2>3. AnswerBacked(r.spin)'
    <3>1. CASE answer'[r.spin] = answer[r.spin]
      BY <1>0, <1>7, <2>1, <3>1 DEF BackedInv, AnswerBacked
    <3>2. CASE answer'[r.spin] = code /\ flow[r.spin].pc = r.leg
      <4>1. r.leg # "rollback" /\ code = "ok" => booked'[r.ref] # NoTx
        BY <1>1
      <4>2. QED
        BY <1>0, <1>2, <3>2, <4>1
           DEF AnswerBacked, DebitBooked, WinPaid, DebitRef, WinRef, Legs
    <3>3. QED
      BY <1>3, <3>1, <3>2
  <2>4. QED
    BY <2>2, <2>3 DEF BackedInv
<1>10. LegsBacked'
  <2>1. wire' \subseteq wire /\ \A x \in wire : x.spin \in Spins
    BY DEF Handle, TypeOK, Request
  <2>2. QED
    BY <1>7, <2>1 DEF BackedIInv, LegsBacked, DebitRef, WinRef
<1>11. QED
  BY <1>0, <1>8, <1>9, <1>10 DEF BackedIInv

\* However often a ref is used and however late its requests arrive, a win is
\* booked only for a spin whose bet was booked, and a committed win is booked.
THEOREM WinsAreBacked == Spec => []WinsBacked
<1>1. Init => BackedIInv
  BY DEF Init, Idle, BackedIInv, LegsBacked, BackedInv, FlowBacked, AnswerBacked, Committed,
         WinPaid, DebitBooked, DebitRef, WinRef, Refs, Legs
<1>2. TypeOK /\ BackedIInv /\ [Next]_vars => BackedIInv'
  <2> SUFFICES ASSUME TypeOK, BackedIInv, [Next]_vars
               PROVE  BackedIInv'
    OBVIOUS
  <2>1. ASSUME NEW s \in Spins, RunSpinFlow(s)
        PROVE  BackedIInv'
    BY <2>1, RunBacked
  <2>2. ASSUME NEW s \in Spins, FlowStep(s)
        PROVE  BackedIInv'
    <3>1. LegsBacked /\ \A q \in Spins : BackedInv(q)
      BY DEF BackedIInv
    <3>2. LegsBacked' /\ BackedInv(s)'
      BY <2>2, <3>1, StepBacked, StepLegsBacked
    <3>3. ASSUME NEW q \in Spins \ {s}
          PROVE  BackedInv(q)'
      BY <2>2, <3>1, StepMoves, StepIsQuiet, BackedFrame
         DEF WinPaid, DebitBooked, DebitRef, WinRef
    <3>4. QED
      BY <3>2, <3>3 DEF BackedIInv
  <2>3. ASSUME NEW r \in wire, Handle(r)
        PROVE  BackedIInv'
    BY <2>3, HandleBacked
  <2>4. ASSUME NEW r \in wire, Lose(r)
        PROVE  BackedIInv'
    BY <2>4 DEF Lose, ledgerVars, BackedIInv, LegsBacked, BackedInv, FlowBacked, AnswerBacked,
                Committed, WinPaid, DebitBooked, DebitRef, WinRef
  <2>5. ASSUME OperatorNext \/ UNCHANGED vars
        PROVE  BackedIInv'
    <3>1. flow' = flow /\ answer' = answer /\ booked' = booked /\ wire' = wire
      BY <2>5 DEF OperatorNext, flowVars, ledgerVars, vars
    <3>2. QED
      BY <3>1 DEF BackedIInv, LegsBacked, BackedInv, FlowBacked, AnswerBacked, Committed,
                  WinPaid, DebitBooked, DebitRef, WinRef
  <2>6. QED
    BY <2>1, <2>2, <2>3, <2>4, <2>5, Zenon DEF Next, SpinNext
<1>3. TypeOK /\ BackedIInv => WinsBacked
  BY DEF BackedIInv, BackedInv, FlowBacked, DebitBooked, WinsBacked
<1>4. QED
  BY <1>1, <1>2, <1>3, TypeCorrect, PTL DEF Spec
=============================================================================
