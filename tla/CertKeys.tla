------------------------------- MODULE CertKeys ------------------------------
(***************************************************************************)
(* The signing key of server/state/hsm.ts, what it signs - reports of      *)
(* server/state/cert.ts, licences of server/lib/marketplace-auth.ts - and  *)
(* the regulator's decisions of server/routes/cert.ts, over crashes and    *)
(* restarts of the server.  The key outlives a process in a file that is   *)
(* truncated first and written then; submissions live in memory.           *)
(*                                                                         *)
(* Abstractions.  A key is the number of its drawing.  Expiry of licences  *)
(* and what a report says are left out; of a submission's statuses only    *)
(* those an await lets others see are there.  A PDF that cannot be         *)
(* rendered (a title its font has no glyph for) makes generateParPdf throw.*)
(***************************************************************************)
EXTENDS Naturals

CONSTANTS
  Submissions,
  MaxKeys,   \* bound: keys drawn
  Torn,      \* a file that is empty or cut short
  NoKey

ASSUME CertAssumption ==
  /\ MaxKeys \in Nat \ {0}
  /\ Torn \notin Nat \cup {NoKey}
  /\ NoKey \notin Nat

Key == 1 .. MaxKeys

VARIABLES
  phase,     \* of the server: down, starting, drawn, writing, ready
  key,       \* kp: the key it holds
  keyFile,   \* hsm-keys.json
  drawn,     \* keys drawn so far
  licences,  \* the keys of the licences issued so far (history)
  unread,    \* a key on file could not be read at some start (history)
  sub        \* submissions; pdf: the key its seal carries; early: a regulator approved
             \* it before it had a package (history)

certVars == <<phase, key, keyFile, drawn, licences, unread, sub>>

NoSubmissions == [s \in Submissions |-> NoKey]

CertInit ==
  /\ phase = "down"
  /\ key = NoKey
  /\ keyFile = NoKey
  /\ drawn = 0
  /\ licences = {}
  /\ unread = FALSE
  /\ sub = NoSubmissions

-----------------------------------------------------------------------------

StartUp ==
  /\ phase = "down"
  /\ phase' = "starting"
  /\ UNCHANGED <<key, keyFile, drawn, licences, unread, sub>>

\* "file missing or unreadable - fall through and generate"
Draw ==
  /\ drawn < MaxKeys
  /\ drawn' = drawn + 1
  /\ key' = drawn + 1
  /\ phase' = "drawn"

ReadKey ==
  /\ phase = "starting"
  /\ IF keyFile \in Key
     THEN /\ key' = keyFile
          /\ phase' = "ready"
          /\ UNCHANGED drawn
     ELSE Draw
  /\ UNCHANGED <<keyFile, licences, unread, sub>>

\* readFile throws though there is a key: no descriptor left, no permission, no mount.
ReadFails ==
  /\ phase = "starting"
  /\ keyFile \in Key
  /\ Draw
  /\ unread' = TRUE
  /\ UNCHANGED <<keyFile, licences, sub>>

\* A slip: init does not await persist, and the server serves.
TruncateAndServe ==
  /\ phase = "drawn"
  /\ keyFile' = Torn
  /\ phase' = "ready"
  /\ UNCHANGED <<key, drawn, licences, unread, sub>>

\* writeFile opens the file with O_TRUNC ...
Truncate ==
  /\ phase = "drawn"
  /\ keyFile' = Torn
  /\ phase' = "writing"
  /\ UNCHANGED <<key, drawn, licences, unread, sub>>

\* ... and has written it; only then init sets kp and the routes are registered.
Persist ==
  /\ phase = "writing"
  /\ keyFile' = key
  /\ phase' = "ready"
  /\ UNCHANGED <<key, drawn, licences, unread, sub>>

\* A crash, a deployment, or a persist that throws: init rejects and so does start-up.
ServerCrash ==
  /\ phase # "down"
  /\ phase' = "down"
  /\ key' = NoKey
  /\ sub' = NoSubmissions
  /\ UNCHANGED <<keyFile, drawn, licences, unread>>

-----------------------------------------------------------------------------

\* issueLicenseJwt
IssueLicence ==
  /\ phase = "ready"
  /\ licences' = licences \cup {key}
  /\ UNCHANGED <<phase, key, keyFile, drawn, unread, sub>>

\* submit, and advance up to the await of the PDF; init finds kp there.
Submit(s) ==
  /\ phase = "ready"
  /\ sub[s] = NoKey
  /\ sub' = [sub EXCEPT ![s] = [status |-> "par_generated", pdf |-> NoKey,
                                downloadable |-> FALSE, rendering |-> TRUE, early |-> FALSE]]
  /\ UNCHANGED <<phase, key, keyFile, drawn, licences, unread>>

Rendering(s) == sub[s] # NoKey /\ sub[s].rendering

\* The rest of advance: it looked at the status before its awaits, and does not again.
Package(s) ==
  /\ Rendering(s)
  /\ sub' = [sub EXCEPT ![s].pdf = key, ![s].downloadable = TRUE,
                        ![s].status = "completed", ![s].rendering = FALSE]
  /\ UNCHANGED <<phase, key, keyFile, drawn, licences, unread>>

\* A slip: the error is caught and the submission goes on without its PDF.
FailAndComplete(s) ==
  /\ Rendering(s)
  /\ sub' = [sub EXCEPT ![s].rendering = FALSE, ![s].status = "completed"]
  /\ UNCHANGED <<phase, key, keyFile, drawn, licences, unread>>

\* generateParPdf throws, the request is answered 400, and the submission stays.
RenderFails(s) ==
  /\ Rendering(s)
  /\ sub' = [sub EXCEPT ![s].rendering = FALSE]
  /\ UNCHANGED <<phase, key, keyFile, drawn, licences, unread>>

StatusOf(decision) == IF decision = "approve" THEN "completed" ELSE "rejected"

\* Any submission there is can be decided, at any time and again: one that still
\* renders, one that failed to, one that was decided the other way.
SetRegulatorDecision(s, decision) ==
  /\ sub[s] # NoKey
  /\ sub' = [sub EXCEPT
       ![s].status = StatusOf(decision),
       ![s].early = sub[s].early \/ (decision = "approve" /\ ~sub[s].downloadable)]
  /\ UNCHANGED <<phase, key, keyFile, drawn, licences, unread>>

CertNext ==
  \/ StartUp \/ ReadKey \/ ReadFails \/ Truncate \/ Persist \/ ServerCrash
  \/ IssueLicence
  \/ \E s \in Submissions :
       \/ Submit(s) \/ Package(s) \/ RenderFails(s)
       \/ \E decision \in {"approve", "reject"} : SetRegulatorDecision(s, decision)

CertSpec == CertInit /\ [][CertNext]_certVars

-----------------------------------------------------------------------------

\* POST /api/marketplace/license/verify checks a licence with the key the server
\* holds: wherever in the making of the key file the server crashed, and however
\* often it restarted, every licence ever issued verifies - unless a start found
\* its key unreadable and took it for missing.
LicencesVerify == phase = "ready" /\ ~unread => licences \subseteq {key}

\* What is packaged carries the seal of the key the server holds, and a submission
\* is shown completed for cause, however its making ended and whatever was decided
\* when: it has its package, or a regulator approved it while it had none, which
\* nothing in the code prevents.
CompletedForCause ==
  \A s \in Submissions :
    sub[s] # NoKey =>
      /\ sub[s].downloadable => sub[s].pdf = key
      /\ sub[s].status = "completed" => sub[s].downloadable \/ sub[s].early

=============================================================================
