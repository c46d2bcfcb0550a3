------------------------------ MODULE ChunkedRun ------------------------------
(***************************************************************************)
(* runChunked and SimController of src/sim/cancel-resume.ts: a long        *)
(* simulation in chunks, paused, resumed and cancelled by its controller,  *)
(* with a checkpoint after each chunk from which a later call under the    *)
(* same jobId goes on.  Calls may overlap (two dashboards), the process    *)
(* may die, and the checkpoint store may fail.                             *)
(*                                                                         *)
(* Abstractions.  The state of the simulation is how often it has counted  *)
(* each spin.  Each call has a controller of its own and starts from an    *)
(* initial state nobody has touched.  External: processChunk counts the    *)
(* spins it was given, throws, or obeys the abort signal by returning what *)
(* it has.                                                                 *)
(***************************************************************************)
EXTENDS Naturals

CONSTANTS
  Runs,         \* calls of runChunked
  TotalSpins,
  ChunkSize,
  None

ASSUME RunAssumption ==
  /\ TotalSpins \in Nat
  /\ ChunkSize \in Nat \ {0}
  /\ None \notin {"finished", "cancelled"}
  /\ None \notin [spinsDone: Nat, state: [1 .. TotalSpins -> Nat]]

Spins == 1 .. TotalSpins

Nothing == [s \in Spins |-> 0]

VARIABLES
  controller,  \* controller[r]: the _state of its controller
  pc,          \* pc[r]: where the call is; parked in waitWhilePaused
  spinsDone,
  state,
  saved,       \* the checkpoint: spinsDone and state, or None
  status,      \* status[r]: what the call returned, or None
  overlapped,  \* two calls were under way at once (history)
  cut          \* a chunk returned early (history)

runVars == <<controller, pc, spinsDone, state, saved, status, overlapped, cut>>

RunInit ==
  /\ controller = [r \in Runs |-> "running"]
  /\ pc = [r \in Runs |-> "idle"]
  /\ spinsDone = [r \in Runs |-> 0]
  /\ state = [r \in Runs |-> Nothing]
  /\ saved = None
  /\ status = [r \in Runs |-> None]
  /\ overlapped = FALSE
  /\ cut = FALSE

Active(r) == pc[r] \notin {"idle", "over"}

-----------------------------------------------------------------------------

Pause(r) ==
  /\ controller[r] = "running"
  /\ controller' = [controller EXCEPT ![r] = "paused"]
  /\ UNCHANGED <<pc, spinsDone, state, saved, status, overlapped, cut>>

Woken(r) == [pc EXCEPT ![r] = IF pc[r] = "parked" THEN "top" ELSE pc[r]]

Resume(r) ==
  /\ controller[r] = "paused"
  /\ controller' = [controller EXCEPT ![r] = "running"]
  /\ pc' = Woken(r)
  /\ UNCHANGED <<spinsDone, state, saved, status, overlapped, cut>>

\* A slip: those who wait for the end of the pause are not told.
CancelUnheard(r) ==
  /\ controller[r] \notin {"cancelled", "finished"}
  /\ controller' = [controller EXCEPT ![r] = "cancelled"]
  /\ UNCHANGED <<pc, spinsDone, state, saved, status, overlapped, cut>>

Cancel(r) ==
  /\ controller[r] \notin {"cancelled", "finished"}
  /\ controller' = [controller EXCEPT ![r] = "cancelled"]
  /\ pc' = Woken(r)
  /\ UNCHANGED <<spinsDone, state, saved, status, overlapped, cut>>

-----------------------------------------------------------------------------

At(r, place) == pc' = [pc EXCEPT ![r] = place]

\* The call ends, with a status or, None, by rejecting.
End(r, answer) ==
  /\ At(r, "over")
  /\ status' = [status EXCEPT ![r] = answer]

Start(r) ==
  /\ pc[r] = "idle"
  /\ At(r, "loading")
  /\ overlapped' = (overlapped \/ \E q \in Runs : Active(q))
  /\ UNCHANGED <<controller, spinsDone, state, saved, status, cut>>

LoopPlace(done) == IF done < TotalSpins THEN "top" ELSE "clearing"

\* A slip: the counter is restored and the statistics are not.
LoadCounter(r) ==
  LET from == IF saved = None THEN [spinsDone |-> 0, state |-> Nothing]
              ELSE [saved EXCEPT !.state = Nothing]
  IN  /\ pc[r] = "loading"
      /\ spinsDone' = [spinsDone EXCEPT ![r] = from.spinsDone]
      /\ state' = [state EXCEPT ![r] = from.state]
      /\ At(r, LoopPlace(from.spinsDone))
      /\ UNCHANGED <<controller, saved, status, overlapped, cut>>

Load(r) ==
  LET from == IF saved = None THEN [spinsDone |-> 0, state |-> Nothing] ELSE saved
  IN  /\ pc[r] = "loading"
      /\ spinsDone' = [spinsDone EXCEPT ![r] = from.spinsDone]
      /\ state' = [state EXCEPT ![r] = from.state]
      /\ At(r, LoopPlace(from.spinsDone))
      /\ UNCHANGED <<controller, saved, status, overlapped, cut>>

\* waitWhilePaused; the caller goes on a tick later
Wait(r) ==
  /\ pc[r] = "top"
  /\ At(r, IF controller[r] = "paused" THEN "parked" ELSE "unpaused")
  /\ UNCHANGED <<controller, spinsDone, state, saved, status, overlapped, cut>>

\* A slip: a cancelled run drops its checkpoint, as a finished one does.
CheckAndClear(r) ==
  /\ pc[r] = "unpaused"
  /\ IF controller[r] = "cancelled"
     THEN /\ End(r, "cancelled")
          /\ saved' = None
     ELSE /\ At(r, "working")
          /\ UNCHANGED <<saved, status>>
  /\ UNCHANGED <<controller, spinsDone, state, overlapped, cut>>

Check(r) ==
  /\ pc[r] = "unpaused"
  /\ IF controller[r] = "cancelled" THEN End(r, "cancelled")
     ELSE /\ At(r, "working")
          /\ UNCHANGED status
  /\ UNCHANGED <<controller, spinsDone, state, saved, overlapped, cut>>

ChunkEnd(done) == IF done + ChunkSize < TotalSpins THEN done + ChunkSize ELSE TotalSpins

Counted(r, last) ==
  [s \in Spins |-> state[r][s] + (IF s \in spinsDone[r] + 1 .. last THEN 1 ELSE 0)]

\* processChunk, which may look at the abort signal
ProcessChunk(r) ==
  LET end == ChunkEnd(spinsDone[r])
  IN  /\ pc[r] = "working"
      /\ \E last \in spinsDone[r] .. end :
           /\ last # end => controller[r] = "cancelled"
           /\ state' = [state EXCEPT ![r] = Counted(r, last)]
           /\ cut' = (cut \/ last # end)
      /\ At(r, "saving")
      /\ UNCHANGED <<controller, spinsDone, saved, status, overlapped>>

Snapshot(r) == [spinsDone |-> ChunkEnd(spinsDone[r]), state |-> state[r]]

Save(r) ==
  /\ pc[r] = "saving"
  /\ spinsDone' = [spinsDone EXCEPT ![r] = ChunkEnd(spinsDone[r])]
  /\ saved' = Snapshot(r)
  /\ At(r, LoopPlace(ChunkEnd(spinsDone[r])))
  /\ UNCHANGED <<controller, state, status, overlapped, cut>>

\* clear and markFinished
Clear(r) ==
  /\ pc[r] = "clearing"
  /\ saved' = None
  /\ controller' = [controller EXCEPT ![r] = IF @ = "running" THEN "finished" ELSE @]
  /\ End(r, "finished")
  /\ UNCHANGED <<spinsDone, state, overlapped, cut>>

\* The variables of a call that ended without an answer are gone.
Dropped(of, S, value) == [r \in Runs |-> IF r \in S THEN value ELSE of[r]]

\* processChunk throws, or the store: it may have done what it was asked to.
Throws(r) ==
  /\ pc[r] \in {"loading", "working", "saving", "clearing"}
  /\ End(r, None)
  /\ saved' \in {saved} \cup (IF pc[r] = "saving" THEN {Snapshot(r)} ELSE {})
                        \cup (IF pc[r] = "clearing" THEN {None} ELSE {})
  /\ spinsDone' = Dropped(spinsDone, {r}, 0)
  /\ state' = Dropped(state, {r}, Nothing)
  /\ UNCHANGED <<controller, overlapped, cut>>

\* The process dies, with its controllers, and the store outlives it.
RunnerCrash ==
  LET died == {r \in Runs : Active(r)}
  IN  /\ died # {}
      /\ pc' = Dropped(pc, died, "over")
      /\ controller' = [r \in Runs |-> "running"]
      /\ spinsDone' = Dropped(spinsDone, died, 0)
      /\ state' = Dropped(state, died, Nothing)
      /\ UNCHANGED <<saved, status, overlapped, cut>>

Step(r) ==
  \/ Load(r) \/ Wait(r) \/ Check(r) \/ ProcessChunk(r) \/ Save(r) \/ Clear(r)

RunNext ==
  \/ \E r \in Runs : Start(r) \/ Step(r) \/ Throws(r) \/ Pause(r) \/ Resume(r) \/ Cancel(r)
  \/ RunnerCrash

\* Promises settle: chunks end and the store answers.  Nobody need resume a run.
RunSpec == RunInit /\ [][RunNext]_runVars /\ \A r \in Runs : WF_runVars(Step(r))

-----------------------------------------------------------------------------

UpTo(n) == [s \in Spins |-> IF s <= n THEN 1 ELSE 0]

\* "resumed without losing per-segment statistics" (cancel-resume.ts): the
\* result of a finished run counts every spin, and none twice, over any chain of
\* cancelled, failed and resumed runs before it and beside others of the job -
\* unless a chunk obeyed the abort signal, whose missing spins nobody makes up.
FinishedCountsAll ==
  \A r \in Runs : status[r] = "finished" /\ ~cut => state[r] = UpTo(TotalSpins)

Checkpointed(r) ==
  IF saved = None THEN spinsDone[r] = 0 /\ state[r] = Nothing
  ELSE saved = [spinsDone |-> spinsDone[r], state |-> state[r]]

\* "returns the last persisted checkpoint on cancel so the operator can resume
\* from exactly where they stopped" (runChunked), if no other call was under way.
CancelledIsResumable ==
  [][\A r \in Runs :
       status'[r] # status[r] /\ status'[r] = "cancelled" /\ ~overlapped
         => Checkpointed(r)' /\ saved' = saved]_runVars

\* A run that is not left paused ends: who waits for the end of a pause is woken
\* by resume and by cancel alike, also when it is paused again meanwhile.
RunsEnd ==
  \A r \in Runs : <>[](controller[r] # "paused") => (Active(r) ~> ~Active(r))

=============================================================================
