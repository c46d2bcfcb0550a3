----------------------------- MODULE RateLimit ------------------------------
(***************************************************************************)
(* One token bucket of server/lib/rate-limit.ts under concurrent requests: *)
(* consume reads the bucket, computes, and writes it back, and the store   *)
(* serves the reads and the writes of several requests in any order.       *)
(*                                                                         *)
(* Abstractions.  Tokens and time are integers: One units make a token,    *)
(* Rate units come back per tick, Second ticks make a second.  Keys never  *)
(* meet, so one bucket stands for all; the counters of refusals are left   *)
(* out.  A call that fails is an error of the store, the answer a 500.     *)
(***************************************************************************)
EXTENDS Integers, FiniteSets

CONSTANTS
  Requests,
  One, Capacity,   \* a token and a full bucket (cfg.tokens), in units
  Rate, Second,    \* units per tick (cfg.refillPerSec), ticks per second
  Ttl,             \* ticks Redis keeps a bucket after a save
  MaxTime          \* bound: the last instant

ASSUME RateLimitAssumption ==
  /\ IsFiniteSet(Requests)
  /\ {One, Rate, Second} \subseteq Nat \ {0}
  /\ {Capacity, Ttl, MaxTime} \subseteq Nat
  /\ One <= Capacity
  /\ Capacity <= Rate * Ttl      \* a bucket refills before it expires

\* A bucket, with the requests it was charged for (history).
Bucket == [tokens: 0 .. Capacity, last: Nat, spent: SUBSET Requests]

VARIABLES
  now,
  bucket, gone,    \* the stored bucket; TRUE when the store has none
  calls,           \* by request: where consume is, its nowMs, the bucket it read
  overlapped,      \* calls that saved while another was between its read and its save (history)
  rewound          \* ticks that counted twice, a save being stamped before what it read (history)

limitVars == <<now, bucket, gone, calls, overlapped, rewound>>

Full(t, spent) == [tokens |-> Capacity, last |-> t, spent |-> spent]

LimitInit ==
  /\ now = 0
  /\ bucket = Full(0, {})
  /\ gone = TRUE
  /\ calls = [r \in Requests |-> [step |-> "idle", stamp |-> 0, read |-> Full(0, {})]]
  /\ overlapped = {}
  /\ rewound = 0

At(step) == {r \in Requests : calls[r].step = step}

-----------------------------------------------------------------------------

Lesser(m, n) == IF m < n THEN m ELSE n
Greater(m, n) == IF m < n THEN n ELSE m

\* refill: the tokens of b at t.
Refill(b, t) == Lesser(Capacity, b.tokens + Rate * Greater(0, t - b.last))

\* Slip: the last token of a bucket is kept.
PassesAbove(tokens) == tokens > One

\* consume's test.
Passes(tokens) == tokens >= One

\* Slip: a charge keeps the time of the bucket it read.
ConsumedAtRead(r, b, t) ==
  LET tokens == Refill(b, t)
  IN  IF Passes(tokens) THEN [tokens |-> tokens - One, last |-> b.last, spent |-> b.spent \cup {r}]
                        ELSE [tokens |-> tokens, last |-> t, spent |-> b.spent]

\* The bucket that request r, stamped t, saves after reading b.
Consumed(r, b, t) ==
  LET tokens == Refill(b, t)
  IN  IF Passes(tokens) THEN [tokens |-> tokens - One, last |-> t, spent |-> b.spent \cup {r}]
                        ELSE [tokens |-> tokens, last |-> t, spent |-> b.spent]

\* Slip: whole seconds, rounded down.
RetryAfterDown(tokens) == Greater(1, (One - tokens) \div (Rate * Second))

\* retryAfterSeconds: the deficit over the rate, rounded up, a second at least.
RetryAfter(tokens) == Greater(1, (One - tokens + Rate * Second - 1) \div (Rate * Second))

-----------------------------------------------------------------------------

\* The preHandler takes the time and calls consume, which asks for the bucket.
Arrive(r) ==
  /\ calls[r].step = "idle"
  /\ calls' = [calls EXCEPT ![r].step = "asked", ![r].stamp = now]
  /\ UNCHANGED <<now, bucket, gone, overlapped, rewound>>

\* The store serves the read; a missing bucket is a full one.
Load(r) ==
  /\ calls[r].step = "asked"
  /\ calls' = [calls EXCEPT ![r].step = "loaded",
                            ![r].read = IF gone THEN Full(calls[r].stamp, bucket.spent) ELSE bucket]
  /\ UNCHANGED <<now, bucket, gone, overlapped, rewound>>

\* The store serves the save of what r computed from what it read.
Put(r) ==
  /\ calls[r].step = "loaded"
  /\ bucket' = Consumed(r, calls[r].read, calls[r].stamp)
  /\ gone' = FALSE
  /\ rewound' = rewound + Greater(0, calls[r].read.last - calls[r].stamp)
  /\ UNCHANGED now

\* ... and the request passes or is turned away with 429.
SaveBucket(r) ==
  /\ Put(r)
  /\ calls' = [calls EXCEPT ![r].step =
       IF Passes(Refill(calls[r].read, calls[r].stamp)) THEN "allowed" ELSE "refused"]
  /\ overlapped' = IF At("loaded") = {r} THEN overlapped ELSE overlapped \cup {r}

\* The call rejects: before the store served the read or the save, or after it
\* served the save.
ConsumeFails(r) ==
  /\ \/ calls[r].step \in {"asked", "loaded"} /\ UNCHANGED <<now, bucket, gone, rewound>>
     \/ Put(r)
  /\ calls' = [calls EXCEPT ![r].step = "failed"]
  /\ UNCHANGED overlapped

\* Redis drops the bucket, whose save came at or after its lastRefillMs.  A read
\* takes less than the time to live: none under way is stamped before a refill.
DropBucket ==
  /\ ~gone
  /\ now >= bucket.last + Ttl
  /\ \A r \in At("asked") : Capacity <= Rate * (calls[r].stamp - bucket.last)
  /\ gone' = TRUE
  /\ UNCHANGED <<now, bucket, calls, overlapped, rewound>>

Tick ==
  /\ now < MaxTime
  /\ now' = now + 1
  /\ UNCHANGED <<bucket, gone, calls, overlapped, rewound>>

LimitNext ==
  \/ \E r \in Requests : Arrive(r) \/ Load(r) \/ SaveBucket(r) \/ ConsumeFails(r)
  \/ DropBucket
  \/ Tick

LimitSpec == LimitInit /\ [][LimitNext]_limitVars

-----------------------------------------------------------------------------

CallSteps == {"idle", "asked", "loaded", "allowed", "refused", "failed"}

(* Every bucket holds between nothing and its capacity, however the calls  *)
(* overlap: refill clamps and consume takes a token only when there is one. *)
LimitTypeOK ==
  /\ now \in Nat
  /\ bucket \in Bucket
  /\ gone \in BOOLEAN
  /\ calls \in [Requests -> [step: CallSteps, stamp: Nat, read: Bucket]]
  /\ overlapped \subseteq Requests
  /\ rewound \in Nat

(* The requests that passed without another between its read and its save  *)
(* are within the burst and the refill, counting again the time a late     *)
(* stamp gave back: consume gives too much only through overlapping calls  *)
(* and through stamps older than the bucket.                               *)
WithinBudget ==
  One * Cardinality(At("allowed") \ overlapped) <= Capacity + Rate * (now + rewound)

(* Nobody is turned away before a whole burst was spent, on requests that  *)
(* passed or whose save failed: a refill, a refusal, an expiry and a stale *)
(* save take no token.                                                     *)
BurstServed ==
  At("refused") # {} => Capacity < One * (1 + Cardinality(At("allowed") \cup At("failed")))

(* A client that waits the Retry-After it was given passes, when nobody    *)
(* came in between: the rounding never sends it back too early.            *)
RetrySuffices ==
  \A r \in At("refused") :
    LET tokens == Refill(calls[r].read, calls[r].stamp)
    IN  bucket = Consumed(r, calls[r].read, calls[r].stamp)
          => Passes(Refill(bucket, calls[r].stamp + Second * RetryAfter(tokens)))
=============================================================================
