-------------------------- MODULE RunJournalProofs --------------------------
(***************************************************************************)
(* Proofs about the run journal, for any number of runs, processes, pids   *)
(* used again and crashes.  The inductive invariant says what a thread     *)
(* holds while it exists (its process, and the workspace slot) and what a  *)
(* sweep that is about to reclaim a run may rely on.                       *)
(***************************************************************************)
EXTENDS RunJournal, TLAPS

\* A run's thread lives in its owner's process and holds the slot.
ThreadsHoldSlot ==
  \A r \in Runs : Threaded(r) =>
    rows[r].owner \in up /\ slot = rows[r].owner /\ rows[r].state # None

\* What a sweep is about to reclaim was started; if its thread is there, its
\* lease ran out or it is being cancelled.
SweepsSound ==
  \A p \in Pids : \A r \in sweeps[p] :
    /\ rows[r].state # None
    /\ Threaded(r) /\ IsActive(r) =>
         rows[r].lease # "live" \/ rows[r].state = "CANCELLING"

JInv == TypeOK /\ OneThread /\ ThreadsHoldSlot /\ SweepsSound

-----------------------------------------------------------------------------
(* Types. *)

\* The states a step names are states of the table.
LEMMA StateNames ==
  /\ {"QUEUED", "GENERATING", "CANCELLING", "CANCELLED", "FAILED", "INTERRUPTED",
      "PASSED", "WAITING_FOR_HUMAN", "PROVIDER_UNAVAILABLE"} \subseteq States
  /\ \A outcome : Target(outcome) \in States
  /\ \A state : RecoveredState(state) \in States
  /\ Phases \subseteq States
BY DEF Phases, States, Active, Terminal, Parked, Target, RecoveredState

\* A worker with another stage and outcome is a worker again.
LEMMA WorkerMoved ==
  ASSUME TypeOK, NEW r \in Runs, NEW stage \in Stages,
         NEW outcome \in Outcomes \cup {None}
  PROVE  [workers EXCEPT ![r].stage = stage, ![r].outcome = outcome]
           \in [Runs -> Worker]
BY DEF TypeOK, Worker

\* A row with another state and lease is a row again.
LEMMA RowMoved ==
  ASSUME TypeOK, NEW r \in Runs, NEW state \in States, NEW lease \in Leases
  PROVE  [rows EXCEPT ![r].state = state, ![r].lease = lease]
           \in [Runs -> Row]
BY DEF TypeOK, Row

\* A row at rest is a row (finish, request_cancel, dismiss_interruption).
LEMMA RestingTypes ==
  ASSUME TypeOK, NEW r \in Runs, NEW state \in States, Resting(r, state)
  PROVE  rows' \in [Runs -> Row]
BY RowMoved, None \in Leases DEF Resting, Leases

\* A row its worker wrote is a row again (append, heartbeat), and what the
\* sweeps are left with are runs.
LEMMA RenewedTypes ==
  ASSUME TypeOK, NEW r \in Runs, NEW state \in States, NEW token \in BOOLEAN,
         Renewed(r, state, token), Heard(r)
  PROVE  rows' \in [Runs -> Row] /\ sweeps' \in [Pids -> SUBSET Runs]
<1> DEFINE row == [rows[r] EXCEPT !.state = state, !.lease = "live"]
<1>1. row \in Row /\ [row EXCEPT !.token = TRUE] \in Row
  BY DEF TypeOK, Row, Leases
<1>2. rows' = [rows EXCEPT ![r] = IF token THEN [row EXCEPT !.token = TRUE] ELSE row]
  BY DEF Renewed
<1> HIDE DEF row
<1>3. rows' \in [Runs -> Row]
  BY <1>1, <1>2 DEF TypeOK
<1>4. sweeps' \in [Pids -> SUBSET Runs]
  BY DEF Heard, TypeOK
<1> QED
  BY <1>3, <1>4

\* A step that only moves a worker to another stage and outcome.
LEMMA StageStep ==
  ASSUME TypeOK, NEW r \in Runs, NEW stage \in Stages,
         NEW outcome \in Outcomes \cup {None},
         workers' = [workers EXCEPT ![r].stage = stage, ![r].outcome = outcome],
         UNCHANGED <<rows, pacing, sweeps, slot, up, crashes>>
  PROVE  TypeOK'
BY WorkerMoved DEF TypeOK

\* Every step of a worker's thread leaves the variables well typed.
LEMMA WorkerTypes ==
  ASSUME TypeOK, NEW r \in Runs, WorkerSteps(r)
  PROVE  TypeOK'
<1> USE StateNames
<1>1. ASSUME NEW state \in States, NEW token \in BOOLEAN, Emit(r, state, token)
      PROVE  TypeOK'
  <2>1. Narrated(workers[r], state) \in Worker
    <3>1. workers[r] \in Worker /\ StillRepair(workers[r], state) \in BOOLEAN
      BY DEF TypeOK, StillRepair
    <3> QED
      BY <3>1 DEF Narrated, Worker
  <2> QED
    BY <1>1, <2>1, RenewedTypes DEF Emit, TypeOK
<1>2. ASSUME NEW token \in BOOLEAN, Heartbeat(r, token)
      PROVE  TypeOK'
  <2>1. rows[r].state \in States
    BY <1>2 DEF Heartbeat, IsActive, States
  <2> DEFINE beaten == rows[r].state = "CANCELLING"
  <2>0. beaten \in BOOLEAN /\ workers' = [workers EXCEPT ![r].beaten = beaten]
    BY <1>2 DEF Heartbeat
  <2> HIDE DEF beaten
  <2>2. workers' \in [Runs -> Worker]
    BY <2>0 DEF TypeOK, Worker
  <2> QED
    BY <1>2, <2>1, <2>2, RenewedTypes DEF Heartbeat, TypeOK
<1>3. ASSUME NEW token \in BOOLEAN, Park(r, token)
      PROVE  TypeOK'
  <2>1. workers' \in [Runs -> Worker]
    <3>1. "ending" \in Stages /\ {"provider_unavailable", "refused"} \subseteq Outcomes
      BY DEF Stages, Outcomes
    <3>2. \/ workers' = [workers EXCEPT ![r].stage = "ending",
                                        ![r].outcome = "provider_unavailable"]
          \/ workers' = [workers EXCEPT ![r].stage = "ending",
                                        ![r].outcome = "refused"]
      BY <1>3 DEF Park
    <3>3. CASE workers' = [workers EXCEPT ![r].stage = "ending",
                                          ![r].outcome = "provider_unavailable"]
      BY <3>1, <3>3, WorkerMoved
    <3>4. CASE workers' = [workers EXCEPT ![r].stage = "ending",
                                          ![r].outcome = "refused"]
      BY <3>1, <3>4, WorkerMoved
    <3> QED
      BY <3>2, <3>3, <3>4
  <2> QED
    BY <1>3, <2>1, RenewedTypes DEF Park, TypeOK
<1>4. ASSUME NEW state \in States, EmitRefused(r, state)
      PROVE  TypeOK'
  BY <1>4, StageStep DEF EmitRefused, Stages, Outcomes
<1>5. ASSUME NEW outcome \in Outcomes, Return(r, outcome)
      PROVE  TypeOK'
  <2> DEFINE stage == IF rows[r].state = "CANCELLING" THEN "ending" ELSE "returning"
             chosen == CASE rows[r].state = "CANCELLING" -> "cancelled"
                         [] rows[r].state \in Parked -> "provider_unavailable"
                         [] OTHER -> outcome
  <2>1. stage \in Stages /\ chosen \in Outcomes
    BY DEF Stages, Outcomes
  <2>2. workers' = [workers EXCEPT ![r].stage = stage, ![r].outcome = chosen]
    BY <1>5 DEF Return
  <2> HIDE DEF stage, chosen
  <2> QED
    BY <1>5, <2>1, <2>2, StageStep DEF Return
<1>6. ASSUME NEW provider \in BOOLEAN, Deny(r, provider)
      PROVE  TypeOK'
  <2> DEFINE stage == IF rows[r].state # "CANCELLING" /\ provider
                        THEN "parking" ELSE "ending"
             chosen == CASE rows[r].state = "CANCELLING" -> "cancelled"
                         [] provider -> None
                         [] OTHER -> "refused"
  <2>1. stage \in Stages /\ chosen \in Outcomes \cup {None}
    BY DEF Stages, Outcomes
  <2>2. workers' = [workers EXCEPT ![r].stage = stage, ![r].outcome = chosen]
    BY <1>6 DEF Deny
  <2> HIDE DEF stage, chosen
  <2> QED
    BY <1>6, <2>1, <2>2, StageStep DEF Deny
<1>7. ASSUME NEW interrupted \in BOOLEAN, Fail(r, interrupted)
      PROVE  TypeOK'
  BY <1>7, StageStep DEF Fail, Stages, Outcomes
<1>8. ASSUME Finish(r)
      PROVE  TypeOK'
  <2>1. workers' \in [Runs -> Worker]
    BY <1>8 DEF Finish, TypeOK, Worker, Stages
  <2>2. rows' \in [Runs -> Row]
    BY <1>8, RestingTypes DEF Finish, TypeOK
  <2> QED
    BY <1>8, <2>1, <2>2 DEF Finish, TypeOK
<1>9. ASSUME FinishRefused(r)
      PROVE  TypeOK'
  <2> DEFINE w == workers[r]
             raised == \/ w.stage = "returning"
                       \/ w.outcome = "refused" /\ rows[r].state = "CANCELLING"
             last == IF rows[r].state = "CANCELLING" THEN "cancelled" ELSE "failed"
  <2>1. w \in Worker /\ last \in Outcomes
    BY DEF TypeOK, Outcomes
  <2>2. [w EXCEPT !.stage = "ending", !.outcome = last] \in Worker
    BY <2>1 DEF Worker, Stages
  <2>3. [w EXCEPT !.stage = "closing"] \in Worker
    BY <2>1 DEF Worker, Stages
  <2>4. workers' = [workers EXCEPT ![r] =
          IF raised THEN [w EXCEPT !.stage = "ending", !.outcome = last]
                    ELSE [w EXCEPT !.stage = "closing"]]
    BY <1>9 DEF FinishRefused, TypeOK
  <2> HIDE DEF w, raised, last
  <2>5. workers' \in [Runs -> Worker]
    BY <2>2, <2>3, <2>4 DEF TypeOK
  <2> QED
    BY <1>9, <2>5 DEF FinishRefused, TypeOK
<1>10. ASSUME Release(r)
       PROVE  TypeOK'
  <2>1. [IdleWorker EXCEPT !.stage = "done"] \in Worker
    BY DEF IdleWorker, Worker, Stages
  <2> QED
    BY <1>10, <2>1 DEF Release, TypeOK
<1> QED
  BY <1>1, <1>2, <1>3, <1>4, <1>5, <1>6, <1>7, <1>8, <1>9, <1>10 DEF WorkerSteps

\* So does every other step.
LEMMA TypesKept ==
  ASSUME TypeOK, [Next]_vars
  PROVE  TypeOK'
<1> USE StateNames
<1>1. ASSUME NEW p \in Pids, NEW r \in Runs, NEW token \in BOOLEAN, Start(p, r, token)
      PROVE  TypeOK'
  <2>1. [state |-> "QUEUED", owner |-> p, token |-> token, lease |-> "live"] \in Row
    BY DEF Row, Leases
  <2>2. rows' \in [Runs -> Row]
    BY <1>1, <2>1 DEF Start, TypeOK
  <2>3. workers' \in [Runs -> Worker]
    BY <1>1 DEF Start, TypeOK, Worker, Stages
  <2> QED
    BY <1>1, <2>2, <2>3 DEF Start, TypeOK
<1>2. ASSUME NEW r \in Runs, PacerSteps(r)
      PROVE  TypeOK'
  <2>1. CASE PacerWakes(r)
    BY <2>1 DEF PacerWakes, TypeOK, Worker
  <2>2. CASE \E token \in BOOLEAN : PacerAppends(r, token)
    BY <2>2, RenewedTypes DEF PacerAppends, TypeOK
  <2> QED
    BY <1>2, <2>1, <2>2 DEF PacerSteps
<1>3. ASSUME NEW r \in Runs, UserSteps(r) \/ CompleteHumanWait(r) \/ Tick(r)
      PROVE  TypeOK'
  <2>1. rows' \in [Runs -> Row]
    <3>1. CASE UserSteps(r) \/ CompleteHumanWait(r)
      <4> "live" \in Leases
        BY DEF Leases
      <4>1. CASE rows' = [rows EXCEPT ![r].state = "CANCELLING", ![r].lease = "live"]
        BY <4>1, RowMoved
      <4>2. ASSUME NEW state \in {"CANCELLED", "WAITING_FOR_HUMAN"}, Resting(r, state)
            PROVE  rows' \in [Runs -> Row]
        BY <4>2, RestingTypes
      <4>3. Resting(r, "CANCELLED") \/ Resting(r, "WAITING_FOR_HUMAN")
              \/ rows' = [rows EXCEPT ![r].state = "CANCELLING", ![r].lease = "live"]
        BY <3>1 DEF UserSteps, RequestCancel, DismissInterruption, CompleteHumanWait
      <4> QED
        BY <4>1, <4>2, <4>3
    <3>2. CASE Tick(r)
      BY <3>2 DEF Tick, TypeOK, Row, Leases
    <3> QED
      BY <1>3, <3>1, <3>2
  <2> QED
    BY <1>3, <2>1 DEF UserSteps, RequestCancel, DismissInterruption,
       CompleteHumanWait, Tick, TypeOK
<1>4. ASSUME NEW p \in Pids, SweepSteps(p)
      PROVE  TypeOK'
  <2>1. CASE \E answering \in SUBSET Runs : Survey(p, answering)
    BY <2>1 DEF Survey, TypeOK
  <2>2. CASE Recover(p)
    <3>1. \A r \in Runs : [rows[r] EXCEPT !.state = RecoveredState(@), !.lease = None]
            \in Row
      BY DEF TypeOK, Row, Leases
    <3> QED
      BY <2>2, <3>1 DEF Recover, TypeOK
  <2> QED
    BY <1>4, <2>1, <2>2 DEF SweepSteps
<1>5. ASSUME NEW p \in Pids, Crash(p)
      PROVE  TypeOK'
  <2>1. [IdleWorker EXCEPT !.stage = "gone"] \in Worker
    BY DEF IdleWorker, Worker, Stages
  <2> QED
    BY <1>5, <2>1, BoundAssumption DEF Crash, TypeOK
<1>6. ASSUME NEW p \in Pids, Restart(p)
      PROVE  TypeOK'
  BY <1>6 DEF Restart, TypeOK
<1>7. CASE UNCHANGED vars
  BY <1>7 DEF vars, TypeOK
<1> QED
  BY <1>1, <1>2, <1>3, <1>4, <1>5, <1>6, <1>7, WorkerTypes DEF Next

-----------------------------------------------------------------------------
(* Threads, the slot and the sweeps. *)

\* A step that starts and ends no thread, and leaves on the sweeps' lists only
\* runs it did not touch, or that stopped, or whose lease is not renewed.
Quiet ==
  /\ UNCHANGED <<slot, up>>
  /\ \A r \in Runs :
       /\ Threaded(r)' => Threaded(r)
       /\ rows'[r].owner = rows[r].owner
       /\ rows[r].state # None => rows'[r].state # None
  /\ \A p \in Pids : \A r \in sweeps'[p] :
       /\ r \in sweeps[p]
       /\ \/ rows'[r] = rows[r]
          \/ rows'[r].state \notin Active \ {"CANCELLING"}
          \/ rows'[r].lease # "live"

\* A quiet step keeps the invariant.
LEMMA QuietKeeps ==
  ASSUME JInv, TypeOK', Quiet
  PROVE  JInv'
<1>1. OneThread' /\ ThreadsHoldSlot'
  BY DEF JInv, Quiet, OneThread, ThreadsHoldSlot
<1>2. SweepsSound'
  <2> SUFFICES ASSUME NEW p \in Pids, NEW r \in sweeps'[p]
               PROVE  /\ rows'[r].state # None
                      /\ Threaded(r)' /\ IsActive(r)' =>
                           rows'[r].lease # "live" \/ rows'[r].state = "CANCELLING"
    BY DEF SweepsSound
  <2>1. r \in sweeps[p] /\ r \in Runs
    BY DEF Quiet, JInv, TypeOK
  <2>2. /\ rows[r].state # None
        /\ Threaded(r) /\ IsActive(r) =>
             rows[r].lease # "live" \/ rows[r].state = "CANCELLING"
    BY <2>1 DEF JInv, SweepsSound
  <2> QED
    BY <2>1, <2>2 DEF Quiet, IsActive
<1> QED
  BY <1>1, <1>2 DEF JInv

\* An event, a renewal and the clock's event rewrite a row the sweeps then skip.
LEMMA RenewedQuiet ==
  ASSUME TypeOK, NEW r \in Runs, NEW state \in States, NEW token \in BOOLEAN,
         Renewed(r, state, token), Heard(r), UNCHANGED <<slot, up>>,
         \A q \in Runs : Threaded(q)' => Threaded(q)
  PROVE  Quiet
<1>1. \A q \in Runs : q # r => rows'[q] = rows[q]
  BY DEF Renewed, TypeOK
<1>2. rows'[r].owner = rows[r].owner /\ rows'[r].state = state
  <2> DEFINE row == [rows[r] EXCEPT !.state = state, !.lease = "live"]
  <2>1. rows'[r] = IF token THEN [row EXCEPT !.token = TRUE] ELSE row
    BY DEF Renewed, TypeOK
  <2>2. CASE token
    BY <2>1, <2>2 DEF TypeOK, Row
  <2>3. CASE ~token
    BY <2>1, <2>3 DEF TypeOK, Row
  <2> QED
    BY <2>2, <2>3
<1>3. \A p \in Pids : \A q \in sweeps'[p] : q \in sweeps[p] /\ q \in Runs /\ q # r
  BY DEF Heard, TypeOK
<1> QED
  BY <1>1, <1>2, <1>3, NoneAssumption DEF Quiet

\* So does a step that puts a row to rest, or on its way to a cancellation.
LEMMA MovedQuiet ==
  ASSUME TypeOK, NEW r \in Runs,
         NEW state \in States \ (Active \ {"CANCELLING"}), NEW lease \in Leases,
         rows' = [rows EXCEPT ![r].state = state, ![r].lease = lease],
         UNCHANGED <<sweeps, slot, up>>,
         \A q \in Runs : Threaded(q)' => Threaded(q)
  PROVE  Quiet
<1>1. \A q \in Runs : q # r => rows'[q] = rows[q]
  BY DEF TypeOK
<1>2. rows'[r].owner = rows[r].owner /\ rows'[r].state = state
  BY DEF TypeOK, Row
<1>3. \A p \in Pids : \A q \in sweeps[p] : q \in Runs
  BY DEF TypeOK
<1> QED
  BY <1>1, <1>2, <1>3, NoneAssumption DEF Quiet

\* A step of a worker's thread that is not its last ends no other thread and
\* starts none.
LEMMA WorkerThreads ==
  ASSUME TypeOK, NEW r \in Runs, WorkerSteps(r)
  PROVE  \A q \in Runs : Threaded(q)' => Threaded(q)
<1>1. Threaded(r)
  BY DEF WorkerSteps, Emit, Heartbeat, Park, EmitRefused, Return, Deny, Fail,
     Finish, FinishRefused, Release, Threaded
<1>2. \A q \in Runs : q # r => workers'[q] = workers[q]
  BY DEF WorkerSteps, Emit, Heartbeat, Park, EmitRefused, Return, Deny, Fail,
     Finish, FinishRefused, Release, TypeOK
<1> QED
  BY <1>1, <1>2 DEF Threaded

\* Where a finish leads is not an active state.
LEMMA FinishRests ==
  \A outcome : Target(outcome) \in States \ Active
BY DEF Target, States, Active, Terminal, Parked

\* The steps of a worker before it gives its slot back are quiet.
LEMMA WorkerQuiet ==
  ASSUME TypeOK, NEW r \in Runs, WorkerSteps(r), ~Release(r)
  PROVE  Quiet
<1>1. \A q \in Runs : Threaded(q)' => Threaded(q)
  BY WorkerThreads
<1>2. CASE UNCHANGED <<rows, sweeps, slot, up>>
  BY <1>1, <1>2 DEF Quiet
<1>3. ASSUME NEW state \in States, NEW token \in BOOLEAN, Emit(r, state, token)
      PROVE  Quiet
  BY <1>1, <1>3, RenewedQuiet DEF Emit
<1>4. ASSUME NEW token \in BOOLEAN, Heartbeat(r, token)
      PROVE  Quiet
  <2>1. rows[r].state \in States
    BY <1>4 DEF Heartbeat, IsActive, States
  <2> QED
    BY <1>1, <1>4, <2>1, RenewedQuiet DEF Heartbeat
<1>5. ASSUME NEW token \in BOOLEAN, Park(r, token)
      PROVE  Quiet
  BY <1>1, <1>2, <1>5, RenewedQuiet, StateNames DEF Park
<1>6. CASE Finish(r)
  <2>1. CASE Resting(r, Target(workers[r].outcome))
    <3>1. None \in Leases /\ Target(workers[r].outcome)
            \in States \ (Active \ {"CANCELLING"})
      BY FinishRests DEF Leases
    <3> QED
      BY <1>1, <1>6, <2>1, <3>1, MovedQuiet DEF Finish, Resting
  <2>2. CASE UNCHANGED rows
    BY <1>2, <1>6, <2>2 DEF Finish
  <2> QED
    BY <1>6, <2>1, <2>2 DEF Finish
<1> QED
  BY <1>2, <1>3, <1>4, <1>5, <1>6
  DEF WorkerSteps, EmitRefused, Return, Deny, Fail, FinishRefused

-----------------------------------------------------------------------------
(* The steps that are not quiet. *)

\* A start finds no thread: one would hold the slot of a living process.
LEMMA StartKeeps ==
  ASSUME JInv, TypeOK', NEW p \in Pids, NEW r \in Runs, NEW token \in BOOLEAN,
         Start(p, r, token)
  PROVE  JInv'
<1>1. \A q \in Runs : ~Threaded(q)
  BY PidAssumption DEF JInv, TypeOK, ThreadsHoldSlot, Start, SlotFree
<1>2. \A q \in Runs : q # r => rows'[q] = rows[q] /\ workers'[q] = workers[q]
  BY DEF Start, JInv, TypeOK
<1>3. \A q \in Runs : q # r => ~Threaded(q)'
  BY <1>1, <1>2 DEF Threaded
<1>4. rows'[r].state = "QUEUED" /\ rows'[r].owner = p
  BY DEF Start, JInv, TypeOK
<1>5. OneThread'
  BY <1>3 DEF OneThread
<1>6. ThreadsHoldSlot'
  BY <1>3, <1>4, StateNames, NoneAssumption DEF ThreadsHoldSlot, Start
<1>7. SweepsSound'
  <2>1. \A o \in Pids : \A q \in sweeps[o] : q \in Runs /\ q # r /\ rows[q].state # None
    BY DEF JInv, SweepsSound, TypeOK, Start
  <2> QED
    BY <1>2, <1>3, <2>1 DEF SweepsSound, Start
<1> QED
  BY <1>5, <1>6, <1>7 DEF JInv

\* The thread that gives the slot back is the only one.
LEMMA ReleaseKeeps ==
  ASSUME JInv, TypeOK', NEW r \in Runs, Release(r)
  PROVE  JInv'
<1>1. Threaded(r)
  BY DEF Release, Threaded
<1>2. workers'[r].stage = "done"
  BY DEF Release, JInv, TypeOK, IdleWorker
<1>3. \A q \in Runs : q # r => workers'[q] = workers[q] /\ ~Threaded(q)
  BY <1>1 DEF Release, JInv, TypeOK, OneThread
<1>4. \A q \in Runs : ~Threaded(q)'
  BY <1>2, <1>3 DEF Threaded
<1>5. SweepsSound'
  BY <1>4 DEF JInv, SweepsSound, Release, TypeOK
<1> QED
  BY <1>4, <1>5 DEF JInv, OneThread, ThreadsHoldSlot

\* A sweep lists a run whose thread is there only on a lapsed lease or an
\* unanswered cancellation: its owner is alive and is not another process.
LEMMA SurveyKeeps ==
  ASSUME JInv, TypeOK', NEW p \in Pids, NEW answering \in SUBSET Runs,
         Survey(p, answering)
  PROVE  JInv'
<1>1. ASSUME NEW r \in Runs, Reclaims(p, r, r \in answering)
      PROVE  /\ rows[r].state # None
             /\ Threaded(r) => rows[r].lease # "live" \/ rows[r].state = "CANCELLING"
  <2>1. rows[r].state # None
    BY <1>1, NoneAssumption DEF Reclaims, IsActive, States
  <2>2. ASSUME Threaded(r), rows[r].state # "CANCELLING"
        PROVE  rows[r].lease # "live"
    <3>1. rows[r].owner \in up
      BY <2>2 DEF JInv, ThreadsHoldSlot
    <3>2. workers[r].stage # "gone"
      BY <2>2 DEF Threaded
    <3> QED
      BY <1>1, <2>2, <3>1, <3>2 DEF Reclaims, CancelForced, Vouched
  <2> QED
    BY <2>1, <2>2
<1>2. UNCHANGED <<rows, workers, slot, up>>
  BY DEF Survey
<1>3. \A o \in Pids : \A r \in sweeps'[o] :
        r \in Runs /\ (r \in sweeps[o] \/ Reclaims(p, r, r \in answering))
  BY DEF Survey, JInv, TypeOK
<1>4. SweepsSound'
  BY <1>1, <1>2, <1>3 DEF JInv, SweepsSound, Threaded, IsActive
<1> QED
  BY <1>2, <1>4 DEF JInv, OneThread, ThreadsHoldSlot, Threaded

\* What a reclaim leaves is settled.
LEMMA RecoverKeeps ==
  ASSUME JInv, TypeOK', NEW p \in Pids, Recover(p)
  PROVE  JInv'
<1>1. \A r \in Runs : \/ rows'[r] = rows[r]
                      \/ /\ rows'[r].owner = rows[r].owner
                         /\ rows'[r].state \in {"CANCELLED", "INTERRUPTED"}
  BY DEF Recover, RecoveredState, JInv, TypeOK, Row
<1>2. \A o \in Pids : \A r \in sweeps'[o] : r \in sweeps[o] /\ r \in Runs
  BY DEF Recover, JInv, TypeOK
<1>3. Quiet
  BY <1>1, <1>2, StateNames, NoneAssumption DEF Quiet, Recover, Threaded, Active
<1> QED
  BY <1>3, QuietKeeps

\* A process takes its threads with it.
LEMMA CrashKeeps ==
  ASSUME JInv, TypeOK', NEW p \in Pids, Crash(p)
  PROVE  JInv'
<1>1. \A r \in Runs : Threaded(r)' => Threaded(r) /\ rows[r].owner # p
  BY DEF Crash, Threaded, IdleWorker
<1>2. \A o \in Pids : \A r \in sweeps'[o] : r \in sweeps[o] /\ r \in Runs
  BY DEF Crash, JInv, TypeOK
<1>3. OneThread' /\ ThreadsHoldSlot'
  BY <1>1 DEF JInv, OneThread, ThreadsHoldSlot, Crash
<1>4. SweepsSound'
  BY <1>1, <1>2 DEF JInv, SweepsSound, Crash, IsActive
<1> QED
  BY <1>3, <1>4 DEF JInv

\* A pid in use again brings back no thread.
LEMMA RestartKeeps ==
  ASSUME JInv, TypeOK', NEW p \in Pids, Restart(p)
  PROVE  JInv'
<1>1. OneThread' /\ ThreadsHoldSlot'
  BY DEF JInv, OneThread, ThreadsHoldSlot, Restart, Threaded
<1>2. SweepsSound'
  BY DEF JInv, SweepsSound, Restart, Threaded, IsActive
<1> QED
  BY <1>1, <1>2 DEF JInv

-----------------------------------------------------------------------------
(* The invariant. *)

\* Every step keeps the inductive invariant of the journal.
LEMMA JInvKept ==
  ASSUME JInv, [Next]_vars
  PROVE  JInv'
<1>1. TypeOK /\ TypeOK'
  BY TypesKept DEF JInv
<1>2. ASSUME NEW r \in Runs, WorkerSteps(r)
      PROVE  JInv'
  BY <1>1, <1>2, WorkerQuiet, QuietKeeps, ReleaseKeeps
<1>3. ASSUME NEW r \in Runs, PacerSteps(r)
      PROVE  JInv'
  <2>1. CASE UNCHANGED <<rows, workers, sweeps, slot, up>>
    BY <1>1, <2>1, QuietKeeps DEF Quiet, Threaded, JInv, TypeOK
  <2>2. ASSUME NEW token \in BOOLEAN, PacerAppends(r, token),
               Renewed(r, pacing[r], token), Heard(r)
        PROVE  JInv'
    BY <1>1, <2>2, RenewedQuiet, QuietKeeps, StateNames DEF PacerAppends, Threaded
  <2> QED
    BY <1>3, <2>1, <2>2 DEF PacerSteps, PacerWakes, PacerAppends
<1>4. ASSUME NEW r \in Runs, UserSteps(r) \/ CompleteHumanWait(r)
      PROVE  JInv'
  <2>1. \E state \in {"CANCELLING", "CANCELLED", "WAITING_FOR_HUMAN"},
           lease \in {"live", None} :
          rows' = [rows EXCEPT ![r].state = state, ![r].lease = lease]
    BY <1>4 DEF UserSteps, RequestCancel, DismissInterruption, CompleteHumanWait, Resting
  <2>2. {"CANCELLING", "CANCELLED", "WAITING_FOR_HUMAN"}
          \subseteq States \ (Active \ {"CANCELLING"})
    BY StateNames DEF Active
  <2>3. UNCHANGED <<workers, sweeps, slot, up>>
    BY <1>4 DEF UserSteps, RequestCancel, DismissInterruption, CompleteHumanWait
  <2>4. {"live", None} \subseteq Leases
    BY DEF Leases
  <2> QED
    BY <1>1, <2>1, <2>2, <2>3, <2>4, MovedQuiet, QuietKeeps DEF Threaded
<1>5. ASSUME NEW r \in Runs, Tick(r)
      PROVE  JInv'
  <2>1. \A q \in Runs : q # r => rows'[q] = rows[q]
    BY <1>1, <1>5 DEF Tick, TypeOK
  <2>2. /\ rows'[r].owner = rows[r].owner /\ rows'[r].state = rows[r].state
        /\ rows'[r].lease # "live"
    BY <1>1, <1>5 DEF Tick, TypeOK, Row
  <2> QED
    BY <1>1, <1>5, <2>1, <2>2, QuietKeeps DEF Tick, Quiet, Threaded, TypeOK
<1>6. ASSUME NEW p \in Pids, SweepSteps(p) \/ Crash(p) \/ Restart(p)
      PROVE  JInv'
  BY <1>1, <1>6, SurveyKeeps, RecoverKeeps, CrashKeeps, RestartKeeps DEF SweepSteps
<1>7. CASE UNCHANGED vars
  BY <1>1, <1>7 DEF vars, JInv, OneThread, ThreadsHoldSlot, SweepsSound, Threaded,
     IsActive
<1> QED
  BY <1>1, <1>2, <1>3, <1>4, <1>5, <1>6, <1>7, StartKeeps DEF Next

\* The inductive invariant holds in every reachable state of the journal.
THEOREM JournalInvariant == Spec => []JInv
<1>1. ASSUME Init
      PROVE  JInv
  <2>1. IdleWorker \in Worker
    BY DEF IdleWorker, Worker, Stages, States, Active
  <2>2. UnusedRow \in Row
    BY DEF UnusedRow, Row, Leases
  <2>3. TypeOK
    BY <1>1, <2>1, <2>2, BoundAssumption DEF Init, TypeOK
  <2>4. \A r \in Runs : ~Threaded(r)
    BY <1>1 DEF Init, Threaded, IdleWorker
  <2>5. SweepsSound
    BY <1>1 DEF Init, SweepsSound
  <2> QED
    BY <2>3, <2>4, <2>5 DEF JInv, OneThread, ThreadsHoldSlot
<1> QED
  BY <1>1, JInvKept, PTL DEF Spec

\* The rows, workers, clocks and sweeps stay what their tables say.
THEOREM JournalTypes == Spec => []TypeOK
<1>1. JInv => TypeOK
  BY DEF JInv
<1> QED
  BY <1>1, JournalInvariant, PTL

\* One thread at most works on a project, whatever runs were started,
\* cancelled, reclaimed under their thread or lost with their process
\* (acquire_workspace_slot around RunJournal.start).
THEOREM OneThreadPerProject == Spec => []OneThread
<1>1. JInv => OneThread
  BY DEF JInv
<1> QED
  BY <1>1, JournalInvariant, PTL

-----------------------------------------------------------------------------
(* What a step does to the state of a row. *)

\* The events of a worker, and of its phase clock, go to rows still open and
\* along an edge of the table.
Spoken(r) ==
  /\ rows[r].state \notin Terminal
  /\ rows'[r].state # "INTERRUPTED"
  /\ CanMove(rows[r].state, rows'[r].state)

\* A sweep reclaims an active row of its list.
Reclaimed(r) ==
  /\ \E p \in Pids : r \in sweeps[p]
  /\ IsActive(r)
  /\ rows'[r].state = RecoveredState(rows[r].state)

\* A row the user moves, or an escalation found after its interruption.
Moved(r) ==
  \/ rows[r].state \in Active /\ rows'[r].state = "CANCELLING"
  \/ rows[r].state \in Parked \cup {"INTERRUPTED", "FAILED"} /\ rows'[r].state = "CANCELLED"
  \/ rows[r].state = "INTERRUPTED" /\ rows'[r].state = "WAITING_FOR_HUMAN"

\* A row written by its worker or clock has the state it was written with.
LEMMA RenewedState ==
  ASSUME TypeOK, NEW r \in Runs, NEW state \in States, NEW token,
         Renewed(r, state, token)
  PROVE  rows'[r].state = state /\ \A q \in Runs : q # r => rows'[q] = rows[q]
BY DEF Renewed, TypeOK, Row

\* A row that is moved has the state it is moved to, and no other row changes.
LEMMA MovedState ==
  ASSUME TypeOK, NEW r \in Runs, NEW state, NEW lease,
         rows' = [rows EXCEPT ![r].state = state, ![r].lease = lease]
  PROVE  rows'[r].state = state /\ \A q \in Runs : q # r => rows'[q] = rows[q]
BY DEF TypeOK, Row

\* A start opens a row that was not used.
Started(r) == rows[r].state = None /\ rows'[r].state = "QUEUED"

\* Every step that changes the state of a row is one of these.
LEMMA StateChanges ==
  ASSUME TypeOK, [Next]_vars, NEW r \in Runs
  PROVE  \/ rows'[r].state = rows[r].state
         \/ Started(r) \/ Spoken(r) \/ Reclaimed(r) \/ Moved(r)
<1> DEFINE Goal == \/ rows'[r].state = rows[r].state
                   \/ Started(r) \/ Spoken(r) \/ Reclaimed(r) \/ Moved(r)
<1>1. ASSUME NEW q \in Runs, NEW state \in States, NEW token,
             Renewed(q, state, token),
             rows[q].state \notin Terminal, CanMove(rows[q].state, state),
             state # "INTERRUPTED"
      PROVE  Goal
  BY <1>1, RenewedState DEF Spoken
<1>2. ASSUME NEW q \in Runs, WorkerSteps(q)
      PROVE  Goal
  <2>1. CASE UNCHANGED rows
    BY <2>1
  <2>2. ASSUME NEW state \in States, NEW token \in BOOLEAN, Emit(q, state, token)
        PROVE  Goal
    BY <1>1, <2>2 DEF Emit, Appendable, Narration, Parked
  <2>3. ASSUME NEW token \in BOOLEAN, Heartbeat(q, token)
        PROVE  Goal
    <3>1. rows[q].state \in States
      BY <2>3 DEF Heartbeat, IsActive, States
    <3> QED
      BY <2>3, <3>1, RenewedState DEF Heartbeat
  <2>4. ASSUME NEW token \in BOOLEAN, Park(q, token)
        PROVE  Goal
    BY <1>1, <2>1, <2>4, StateNames DEF Park, Appendable
  <2>5. CASE Finish(q)
    <3>1. CASE FinishTakes(q) /\ Resting(q, Target(workers[q].outcome))
      <4> DEFINE target == Target(workers[q].outcome)
      <4>1. target # "INTERRUPTED"
        BY DEF Target
      <4>2. rows'[q].state = target /\ \A o \in Runs : o # q => rows'[o] = rows[o]
        BY <3>1, MovedState DEF Resting
      <4> QED
        BY <3>1, <4>1, <4>2 DEF FinishTakes, Spoken
    <3> QED
      BY <2>1, <2>5, <3>1 DEF Finish
  <2> HIDE DEF Goal
  <2> QED
    BY <1>2, <2>1, <2>2, <2>3, <2>4, <2>5
    DEF WorkerSteps, EmitRefused, Return, Deny, Fail, FinishRefused, Release
<1>3. ASSUME NEW q \in Runs, PacerSteps(q)
      PROVE  Goal
  <2>1. CASE UNCHANGED rows
    BY <2>1
  <2>2. \A state \in Phases : state # "INTERRUPTED"
    BY DEF Phases
  <2> HIDE DEF Goal
  <2> QED
    BY <1>1, <1>3, <2>1, <2>2, StateNames DEF PacerSteps, PacerWakes, PacerAppends, Appendable
<1>4. ASSUME NEW q \in Runs, UserSteps(q) \/ CompleteHumanWait(q)
      PROVE  Goal
  <2>1. \/ /\ rows[q].state \in Active
           /\ rows' = [rows EXCEPT ![q].state = "CANCELLING", ![q].lease = "live"]
        \/ /\ rows[q].state \in Parked \cup {"INTERRUPTED", "FAILED"}
           /\ rows' = [rows EXCEPT ![q].state = "CANCELLED", ![q].lease = None]
        \/ /\ rows[q].state = "INTERRUPTED"
           /\ rows' = [rows EXCEPT ![q].state = "WAITING_FOR_HUMAN", ![q].lease = None]
    BY <1>4 DEF UserSteps, RequestCancel, DismissInterruption, CompleteHumanWait, Resting
  <2> QED
    BY <2>1, MovedState DEF Moved
<1>5. ASSUME NEW q \in Runs, Tick(q)
      PROVE  Goal
  BY <1>5 DEF Tick, TypeOK, Row
<1>6. ASSUME NEW p \in Pids, Recover(p)
      PROVE  Goal
  BY <1>6 DEF Recover, IsActive, TypeOK, Row, Reclaimed
<1>7. ASSUME NEW p \in Pids, NEW q \in Runs, NEW token \in BOOLEAN, Start(p, q, token)
      PROVE  Goal
  BY <1>7 DEF Start, Started, TypeOK
<1>8. ASSUME NEW p \in Pids, SweepSteps(p) \/ Crash(p) \/ Restart(p)
      PROVE  Goal
  <2>1. CASE UNCHANGED rows
    BY <2>1
  <2> HIDE DEF Goal
  <2> QED
    BY <1>6, <1>8, <2>1 DEF SweepSteps, Survey, Crash, Restart
<1>9. CASE UNCHANGED vars
  BY <1>9 DEF vars
<1> HIDE DEF Goal
<1>10. ASSUME NEW q \in Runs,
              \/ WorkerSteps(q) \/ PacerSteps(q) \/ UserSteps(q)
              \/ CompleteHumanWait(q) \/ Tick(q)
       PROVE  Goal
  BY <1>2, <1>3, <1>4, <1>5, <1>10
<1>11. ASSUME Next
       PROVE  Goal
  <2>1. CASE \E p \in Pids, q \in Runs, token \in BOOLEAN : Start(p, q, token)
    BY <1>7, <2>1 DEF Goal
  <2>2. CASE \E q \in Runs : \/ WorkerSteps(q) \/ PacerSteps(q) \/ UserSteps(q)
                              \/ CompleteHumanWait(q) \/ Tick(q)
    BY <1>10, <2>2 DEF Goal
  <2>3. CASE \E p \in Pids : SweepSteps(p) \/ Crash(p) \/ Restart(p)
    BY <1>8, <2>3 DEF Goal
  <2> QED
    BY <1>11, <2>1, <2>2, <2>3 DEF Next
<1> QED
  BY <1>9, <1>11 DEF Goal

\* A cancellation, once asked for, is never overtaken by a pass, a wait, a park
\* or an interruption (request_cancel against append, finish and
\* recover_abandoned).
THEOREM CancellationStands == Spec => CancelStands
<1>1. ASSUME TypeOK, [Next]_vars, NEW r \in Runs, rows[r].state = "CANCELLING"
      PROVE  rows'[r].state \in {"CANCELLING", "CANCELLED", "FAILED"}
  <2>0. "CANCELLING" # None
    BY StateNames, NoneAssumption
  <2>1. CASE Moved(r) \/ Reclaimed(r)
    BY <1>1, <2>1 DEF Moved, Reclaimed, RecoveredState, Parked
  <2>2. CASE Spoken(r)
    <3>1. rows'[r].state = "CANCELLING" \/ rows'[r].state \in Stops
      BY <1>1, <2>2 DEF Spoken, CanMove, Transitions, Parked
    <3> QED
      BY <2>2, <3>1 DEF Stops, Spoken
  <2> QED
    BY <1>1, <2>0, <2>1, <2>2, StateChanges DEF Started
<1>2. TypeOK /\ [Next]_vars => [\A r \in Runs : rows[r].state = "CANCELLING" =>
        rows'[r].state \in {"CANCELLING", "CANCELLED", "FAILED"}]_vars
  BY <1>1
<1> QED
  BY <1>2, JournalTypes, PTL DEF Spec, CancelStands

\* A settled run stays settled (append and finish refuse a terminal row, and
\* recover_abandoned reads the row again before it reclaims).
THEOREM SettledStays == Spec => SettledOnce
<1> DEFINE Kept(r) ==
      /\ rows[r].state \in {"PASSED", "CANCELLED", "WAITING_FOR_HUMAN"} =>
           rows'[r].state = rows[r].state
      /\ rows[r].state \in {"FAILED", "INTERRUPTED"} =>
           \/ rows'[r].state \in {rows[r].state, "CANCELLED"}
           \/ rows[r].state = "INTERRUPTED" /\ rows'[r].state = "WAITING_FOR_HUMAN"
<1>1. ASSUME TypeOK, [Next]_vars, NEW r \in Runs
      PROVE  Kept(r)
  <2>1. CASE rows'[r].state = rows[r].state
    BY <2>1
  <2>2. CASE Started(r)
    BY <2>2, StateNames, NoneAssumption DEF Started
  <2>3. CASE Spoken(r)
    BY <2>3 DEF Spoken, Terminal
  <2>4. CASE Reclaimed(r)
    BY <2>4 DEF Reclaimed, IsActive, Active
  <2>5. CASE Moved(r)
    BY <2>5 DEF Moved, Active, Parked
  <2> QED
    BY <1>1, <2>1, <2>2, <2>3, <2>4, <2>5, StateChanges
<1>2. TypeOK /\ [Next]_vars => [\A r \in Runs : Kept(r)]_vars
  BY <1>1
<1> QED
  BY <1>2, JournalTypes, PTL DEF Spec, SettledOnce

\* A worker that spoke since a sweep looked is not interrupted by that sweep
\* (the heartbeat comparison of recover_abandoned).
THEOREM LiveWorkersKept == Spec => LiveWorkerKept
<1> DEFINE Kept(r) ==
      rows'[r].state = "INTERRUPTED" /\ rows[r].state # "INTERRUPTED" =>
        ~Threaded(r) \/ rows[r].lease # "live"
<1>1. ASSUME JInv, [Next]_vars, NEW r \in Runs
      PROVE  Kept(r)
  <2>1. TypeOK
    BY <1>1 DEF JInv
  <2>2. CASE Reclaimed(r)
    <3>1. Threaded(r) => rows[r].lease # "live" \/ rows[r].state = "CANCELLING"
      BY <1>1, <2>2 DEF JInv, SweepsSound, Reclaimed
    <3> QED
      BY <2>2, <3>1 DEF Reclaimed, RecoveredState
  <2> QED
    BY <1>1, <2>1, <2>2, StateChanges DEF Started, Spoken, Moved
<1>2. JInv /\ [Next]_vars => [\A r \in Runs : Kept(r)]_vars
  BY <1>1
<1> QED
  BY <1>2, JournalInvariant, PTL DEF Spec, LiveWorkerKept
-----------------------------------------------------------------------------
(* The life of a run: RunLife is implemented, but for the phase clock. *)

\* A worker that goes on in its loop while its run is parked has parked it
\* itself: the loop's own last word.
ParkedByLoop ==
  \A r \in Runs : workers[r].stage = "working" /\ rows[r].state \in Parked =>
    workers[r].last \in Parked

\* A loop that parked its run narrates nothing more.
LEMMA ParkedIsSilent ==
  ASSUME NEW w, w.last \in Parked PROVE Narration(w) = {}
BY DEF Narration, Parked

\* A step after which one row has another state, or none has.
OneMoves(r, state) ==
  rows'[r].state = state /\ \A q \in Runs : q # r => rows'[q].state = rows[q].state
StatesStay == \A q \in Runs : rows'[q].state = rows[q].state

\* The steps of one worker leave the rows and workers of other runs alone.
LEMMA WorkersOwn ==
  ASSUME TypeOK, NEW r \in Runs, WorkerSteps(r), NEW q \in Runs, q # r
  PROVE  rows'[q] = rows[q] /\ workers'[q] = workers[q]
<1>1. workers'[q] = workers[q]
  BY DEF WorkerSteps, Emit, Heartbeat, Park, EmitRefused, Return, Deny, Fail,
     Finish, FinishRefused, Release, TypeOK
<1>2. ASSUME NEW state, NEW token, Renewed(r, state, token)
      PROVE  rows'[q] = rows[q]
  BY <1>2 DEF Renewed, TypeOK
<1>3. ASSUME NEW state, Resting(r, state)
      PROVE  rows'[q] = rows[q]
  BY <1>3 DEF Resting, TypeOK
<1>4. rows'[q] = rows[q]
  BY <1>2, <1>3 DEF WorkerSteps, Emit, Heartbeat, Park, EmitRefused, Return, Deny,
     Fail, Finish, FinishRefused, Release
<1> QED
  BY <1>1, <1>4

\* What a worker's step does to the state of its row: an event of the loop, a
\* park by the shell, a finish, or nothing.
LEMMA WorkerMoves ==
  ASSUME TypeOK, NEW r \in Runs, WorkerSteps(r)
  PROVE  \/ StatesStay
         \/ \E state \in States, token \in BOOLEAN :
              Emit(r, state, token) /\ OneMoves(r, state)
         \/ /\ Appendable(rows[r].state, "PROVIDER_UNAVAILABLE")
            /\ workers'[r].stage = "ending"
            /\ OneMoves(r, "PROVIDER_UNAVAILABLE")
         \/ /\ FinishTakes(r) /\ workers'[r].stage = "closing"
            /\ OneMoves(r, Target(workers[r].outcome))
<1> DEFINE Goal ==
      \/ StatesStay
      \/ \E state \in States, token \in BOOLEAN :
           Emit(r, state, token) /\ OneMoves(r, state)
      \/ /\ Appendable(rows[r].state, "PROVIDER_UNAVAILABLE")
         /\ workers'[r].stage = "ending"
         /\ OneMoves(r, "PROVIDER_UNAVAILABLE")
      \/ /\ FinishTakes(r) /\ workers'[r].stage = "closing"
         /\ OneMoves(r, Target(workers[r].outcome))
<1>1. CASE UNCHANGED rows
  BY <1>1 DEF StatesStay
<1>2. ASSUME NEW state \in States, NEW token \in BOOLEAN, Renewed(r, state, token)
      PROVE  OneMoves(r, state)
  BY <1>2, RenewedState DEF OneMoves
<1>3. ASSUME NEW state \in States, NEW token \in BOOLEAN, Emit(r, state, token)
      PROVE  Goal
  BY <1>2, <1>3 DEF Emit
<1>4. ASSUME NEW token \in BOOLEAN, Heartbeat(r, token)
      PROVE  Goal
  <2>1. rows[r].state \in States
    BY <1>4 DEF Heartbeat, IsActive, States
  <2>2. OneMoves(r, rows[r].state)
    BY <1>2, <1>4, <2>1 DEF Heartbeat
  <2> QED
    BY <2>2 DEF OneMoves, StatesStay
<1>5. ASSUME NEW token \in BOOLEAN, Park(r, token)
      PROVE  Goal
  <2>1. CASE UNCHANGED rows
    BY <1>1, <2>1
  <2>2. CASE /\ Appendable(rows[r].state, "PROVIDER_UNAVAILABLE")
             /\ Renewed(r, "PROVIDER_UNAVAILABLE", token)
             /\ workers' = [workers EXCEPT ![r].stage = "ending",
                                           ![r].outcome = "provider_unavailable"]
    <3>1. workers'[r].stage = "ending"
      BY <2>2 DEF TypeOK, Worker
    <3> QED
      BY <1>2, <2>2, <3>1, StateNames
  <2> QED
    BY <1>5, <2>1, <2>2 DEF Park
<1>6. ASSUME Finish(r)
      PROVE  Goal
  <2>1. CASE UNCHANGED rows
    BY <1>1, <2>1
  <2>2. CASE FinishTakes(r) /\ Resting(r, Target(workers[r].outcome))
    <3>1. OneMoves(r, Target(workers[r].outcome))
      BY <2>2, MovedState DEF Resting, OneMoves
    <3>2. workers'[r].stage = "closing"
      BY <1>6 DEF Finish, TypeOK, Worker
    <3> QED
      BY <2>2, <3>1, <3>2
  <2> QED
    BY <1>6, <2>1, <2>2 DEF Finish
<1>7. ASSUME \/ \E state \in States : EmitRefused(r, state)
             \/ \E outcome \in Outcomes : Return(r, outcome)
             \/ \E provider \in BOOLEAN : Deny(r, provider)
             \/ \E interrupted \in BOOLEAN : Fail(r, interrupted)
             \/ FinishRefused(r) \/ Release(r)
      PROVE  Goal
  <2>1. UNCHANGED rows
    BY <1>7 DEF EmitRefused, Return, Deny, Fail, FinishRefused, Release
  <2> QED
    BY <1>1, <2>1
<1> HIDE DEF Goal
<1>8. Goal
  BY <1>3, <1>4, <1>5, <1>6, <1>7 DEF WorkerSteps
<1> QED
  BY <1>8 DEF Goal

\* What the clock's step does to it.
LEMMA ClockMoves ==
  ASSUME TypeOK, NEW r \in Runs, PacerSteps(r)
  PROVE  \/ StatesStay
         \/ /\ \E token \in BOOLEAN : PacerAppends(r, token)
            /\ Appendable(rows[r].state, pacing[r]) /\ pacing[r] \in Phases
            /\ OneMoves(r, pacing[r])
<1>1. CASE UNCHANGED rows
  BY <1>1 DEF StatesStay
<1>2. ASSUME NEW token \in BOOLEAN, PacerAppends(r, token),
             Appendable(rows[r].state, pacing[r]), Renewed(r, pacing[r], token)
      PROVE  pacing[r] \in Phases /\ OneMoves(r, pacing[r])
  BY <1>2, RenewedState, StateNames DEF PacerAppends, OneMoves
<1> QED
  BY <1>1, <1>2 DEF PacerSteps, PacerWakes, PacerAppends

\* What the user, and the reconciler's completion of a wait, do to it.
LEMMA PersonMoves ==
  ASSUME TypeOK, NEW r \in Runs, UserSteps(r) \/ CompleteHumanWait(r)
  PROVE  \E state \in {"CANCELLING", "CANCELLED", "WAITING_FOR_HUMAN"} :
           /\ OneMoves(r, state)
           /\ \/ state = "CANCELLING" /\ rows[r].state \in Active \ {"CANCELLING"}
              \/ state = "CANCELLED" /\ rows[r].state \in Parked \cup {"INTERRUPTED", "FAILED"}
              \/ state = "WAITING_FOR_HUMAN" /\ rows[r].state = "INTERRUPTED"
<1>1. PICK state \in {"CANCELLING", "CANCELLED", "WAITING_FOR_HUMAN"},
           lease \in {"live", None} :
        /\ rows' = [rows EXCEPT ![r].state = state, ![r].lease = lease]
        /\ \/ state = "CANCELLING" /\ rows[r].state \in Active \ {"CANCELLING"}
           \/ state = "CANCELLED" /\ rows[r].state \in Parked \cup {"INTERRUPTED", "FAILED"}
           \/ state = "WAITING_FOR_HUMAN" /\ rows[r].state = "INTERRUPTED"
  BY DEF UserSteps, RequestCancel, DismissInterruption, CompleteHumanWait, Resting
<1>2. OneMoves(r, state)
  BY <1>1, MovedState DEF OneMoves
<1> QED
  BY <1>1, <1>2

\* A start moves the row it opens.
LEMMA StartMoves ==
  ASSUME TypeOK, NEW p \in Pids, NEW r \in Runs, NEW token \in BOOLEAN,
         Start(p, r, token)
  PROVE  OneMoves(r, "QUEUED")
BY DEF Start, OneMoves, TypeOK

\* Time, surveys and processes move no state.
LEMMA QuietStates ==
  ASSUME TypeOK,
         \/ \E r \in Runs : Tick(r)
         \/ \E p \in Pids : \/ \E answering \in SUBSET Runs : Survey(p, answering)
                           \/ Crash(p) \/ Restart(p)
  PROVE  StatesStay
<1>1. ASSUME NEW r \in Runs, Tick(r)
      PROVE  StatesStay
  BY <1>1 DEF Tick, StatesStay, TypeOK, Row
<1> QED
  BY <1>1 DEF Survey, Crash, Restart, StatesStay

\* What a sweep does.
LEMMA SweepMoves ==
  ASSUME TypeOK, NEW p \in Pids, Recover(p)
  PROVE  \A r \in Runs :
           rows'[r].state = IF r \in sweeps[p] /\ IsActive(r)
                            THEN RecoveredState(rows[r].state) ELSE rows[r].state
BY DEF Recover, TypeOK, Row

\* Only its worker parks a run, and only a start puts a worker into its loop.
LEMMA OthersLeaveParked ==
  ASSUME TypeOK, Next, NEW r \in Runs, ~WorkerSteps(r)
  PROVE  /\ workers'[r].stage = "working" /\ rows'[r].state \in Parked =>
              workers'[r] = workers[r]
         /\ rows'[r].state \in Parked => rows[r].state \in Parked
<1> DEFINE Goal ==
      /\ workers'[r].stage = "working" /\ rows'[r].state \in Parked =>
           workers'[r] = workers[r]
      /\ rows'[r].state \in Parked => rows[r].state \in Parked
<1>1. ASSUME NEW q \in Runs, WorkerSteps(q)
      PROVE  Goal
  BY <1>1, WorkersOwn
<1>2. ASSUME NEW q \in Runs, NEW state \in States \ Parked, OneMoves(q, state),
             workers' = workers
      PROVE  Goal
  BY <1>2 DEF OneMoves
<1>3. ASSUME StatesStay, workers' = workers
      PROVE  Goal
  BY <1>3 DEF StatesStay
<1>4. ASSUME NEW q \in Runs, PacerSteps(q)
      PROVE  Goal
  <2>1. workers' = workers
    BY <1>4 DEF PacerSteps, PacerWakes, PacerAppends
  <2>2. Phases \subseteq States \ Parked
    BY StateNames DEF Phases, Parked
  <2> QED
    BY <1>2, <1>3, <1>4, <2>1, <2>2, ClockMoves
<1>5. ASSUME NEW q \in Runs, UserSteps(q) \/ CompleteHumanWait(q)
      PROVE  Goal
  <2>1. workers' = workers
    BY <1>5 DEF UserSteps, RequestCancel, DismissInterruption, CompleteHumanWait
  <2>2. {"CANCELLING", "CANCELLED", "WAITING_FOR_HUMAN"} \subseteq States \ Parked
    BY StateNames DEF Parked
  <2> QED
    BY <1>2, <1>5, <2>1, <2>2, PersonMoves
<1>6. ASSUME NEW q \in Runs, Tick(q)
      PROVE  Goal
  BY <1>3, <1>6, QuietStates DEF Tick
<1>7. ASSUME NEW p \in Pids, Recover(p)
      PROVE  Goal
  <2>1. \A state : RecoveredState(state) \notin Parked
    BY DEF RecoveredState, Parked
  <2>2. workers' = workers
    BY <1>7 DEF Recover
  <2> QED
    BY <1>7, <2>1, <2>2, SweepMoves
<1>8. ASSUME NEW p \in Pids, NEW answering \in SUBSET Runs, Survey(p, answering)
      PROVE  Goal
  BY <1>3, <1>8, QuietStates DEF Survey
<1>9. ASSUME NEW p \in Pids, Restart(p)
      PROVE  Goal
  BY <1>3, <1>9, QuietStates DEF Restart
<1>10. ASSUME NEW p \in Pids, Crash(p)
       PROVE  Goal
  <2>1. workers'[r] = workers[r] \/ workers'[r].stage = "gone"
    BY <1>10 DEF Crash, IdleWorker
  <2> QED
    BY <1>10, <2>1, QuietStates DEF StatesStay
<1>11. ASSUME NEW p \in Pids, NEW q \in Runs, NEW token \in BOOLEAN, Start(p, q, token)
       PROVE  Goal
  <2>1. OneMoves(q, "QUEUED")
    BY <1>11, StartMoves
  <2>2. r # q => workers'[r] = workers[r]
    BY <1>11 DEF Start, TypeOK
  <2> QED
    BY <2>1, <2>2 DEF OneMoves, Parked
<1> HIDE DEF Goal
<1>12. Goal
  BY <1>1, <1>4, <1>5, <1>6, <1>7, <1>8, <1>9, <1>10, <1>11 DEF Next, SweepSteps
<1> QED
  BY <1>12 DEF Goal

\* A park by the loop is the loop's last word, and stays it.
LEMMA ParkedByLoopKept ==
  ASSUME TypeOK, ParkedByLoop, [Next]_vars
  PROVE  ParkedByLoop'
<1> SUFFICES ASSUME NEW r \in Runs, workers'[r].stage = "working",
                    rows'[r].state \in Parked
             PROVE  workers'[r].last \in Parked
  BY DEF ParkedByLoop
<1>1. CASE UNCHANGED vars
  BY <1>1 DEF vars, ParkedByLoop
<1>2. CASE Next /\ ~WorkerSteps(r)
  BY <1>2, OthersLeaveParked DEF ParkedByLoop
<1>3. CASE WorkerSteps(r)
  <2>1. ASSUME NEW state \in States, NEW token \in BOOLEAN, Emit(r, state, token)
        PROVE  workers'[r].last \in Parked
    <3>1. rows'[r].state = state
      BY <2>1, RenewedState DEF Emit
    <3>2. workers'[r].last = state
      BY <2>1 DEF Emit, Narrated, TypeOK, Worker
    <3> QED
      BY <3>1, <3>2
  <2>3. ASSUME NEW token \in BOOLEAN, Heartbeat(r, token)
        PROVE  workers'[r].last \in Parked
    <3>1. rows[r].state \in States
      BY <2>3 DEF Heartbeat, IsActive, States
    <3>2. rows'[r].state = rows[r].state
      BY <2>3, <3>1, RenewedState DEF Heartbeat
    <3> QED
      BY <2>3, <3>2 DEF Heartbeat, IsActive, Active, Parked
  <2>4. ASSUME \A state \in States, token \in BOOLEAN : ~Emit(r, state, token),
               \A token \in BOOLEAN : ~Heartbeat(r, token)
        PROVE  workers'[r].stage # "working"
    <3> DEFINE Out == workers'[r].stage # "working"
    <3>1. ASSUME NEW stage \in Stages \ {"working"}, NEW outcome,
                 workers' = [workers EXCEPT ![r].stage = stage, ![r].outcome = outcome]
          PROVE  Out
      BY <3>1 DEF TypeOK, Worker
    <3>2. {"ending", "returning", "parking", "closing"} \subseteq Stages \ {"working"}
      BY DEF Stages
    <3>3. ASSUME NEW token \in BOOLEAN, Park(r, token) PROVE Out
      BY <3>1, <3>2, <3>3 DEF Park
    <3>4. ASSUME NEW state \in States, EmitRefused(r, state) PROVE Out
      BY <3>1, <3>2, <3>4 DEF EmitRefused
    <3>5. ASSUME NEW outcome \in Outcomes, Return(r, outcome) PROVE Out
      BY <3>1, <3>2, <3>5 DEF Return
    <3>6. ASSUME NEW provider \in BOOLEAN, Deny(r, provider) PROVE Out
      BY <3>1, <3>2, <3>6 DEF Deny
    <3>7. ASSUME NEW interrupted \in BOOLEAN, Fail(r, interrupted) PROVE Out
      BY <3>1, <3>2, <3>7 DEF Fail
    <3>8. CASE Finish(r)
      BY <3>8 DEF Finish, TypeOK, Worker
    <3>9. CASE FinishRefused(r)
      BY <3>9 DEF FinishRefused, TypeOK, Worker
    <3>10. CASE Release(r)
      BY <3>10 DEF Release, IdleWorker, TypeOK
    <3> HIDE DEF Out
    <3>11. Out
      BY <1>3, <2>4, <3>3, <3>4, <3>5, <3>6, <3>7, <3>8, <3>9, <3>10 DEF WorkerSteps, Out
    <3> QED
      BY <3>11 DEF Out
  <2> QED
    BY <2>1, <2>3, <2>4
<1> QED
  BY <1>1, <1>2, <1>3

\* The inductive invariant of the life of a run.
THEOREM LoopParksKnowingly == Spec => []ParkedByLoop
<1>1. Init => ParkedByLoop
  BY DEF Init, ParkedByLoop, IdleWorker
<1>2. TypeOK /\ ParkedByLoop /\ [Next]_vars => ParkedByLoop'
  BY ParkedByLoopKept
<1> QED
  BY <1>1, <1>2, JournalTypes, PTL DEF Spec
\* One row that moves is one life that moves; none, none.
LEMMA LivesMove ==
  ASSUME NEW r \in Runs, NEW state, OneMoves(r, state)
  PROVE  Lives' = [Lives EXCEPT ![r] = LifeOf(state)]
BY Zenon DEF Lives, OneMoves

LEMMA LivesStay == ASSUME StatesStay PROVE Lives' = Lives
BY Zenon DEF Lives, StatesStay

\* The edges of the table, but those into a cancellation and an interruption and
\* the ways back from a park, are ways RunLife lets a run go.
LEMMA EdgesLive ==
  ASSUME NEW from, NEW to, from \notin Terminal, CanMove(from, to),
         to \notin {"CANCELLING", "INTERRUPTED", None},
         from \in Parked => to \notin Active
  PROVE  LifeOf(to) = LifeOf(from) \/ LifeOf(to) \in Life!After(LifeOf(from))
<1>1. CASE from = to
  BY <1>1
<1>2. CASE to \in Transitions(from)
  <2>1. CASE from \in Active \ {"CANCELLING"}
    <3>1. LifeOf(from) = "working"
      BY <2>1 DEF LifeOf, Active, Parked
    <3>2. to \in {"CANCELLED", "FAILED", "WAITING_FOR_PROVIDER", "WAITING_FOR_HUMAN",
                  "PASSED"} \cup Parked \cup (Active \ {"CANCELLING"})
      BY <1>2, <2>1 DEF Transitions, Stops, Waits, Active, Parked
    <3> QED
      BY <3>1, <3>2 DEF LifeOf, Active, Parked, Life!After
  <2>2. CASE from = "CANCELLING"
    <3>1. to \in {"CANCELLED", "FAILED"}
      BY <1>2, <2>2 DEF Transitions, Stops, Parked
    <3>2. LifeOf(from) = "cancelling" /\ LifeOf(to) \in {"cancelled", "failed"}
      BY <2>2, <3>1 DEF LifeOf, Active, Parked
    <3> QED
      BY <3>2 DEF Life!After
  <2>3. CASE from \in Parked
    <3>1. to \in {"CANCELLED", "FAILED"}
      BY <1>2, <2>3 DEF Transitions, Active, Parked
    <3>2. LifeOf(from) = "parked" /\ LifeOf(to) \in {"cancelled", "failed"}
      BY <2>3, <3>1 DEF LifeOf, Active, Parked
    <3> QED
      BY <3>2 DEF Life!After
  <2>4. CASE from \notin Active \cup Parked
    BY <1>2, <2>4 DEF Transitions, Active, Parked, Terminal
  <2> QED
    BY <2>1, <2>2, <2>3, <2>4
<1> QED
  BY <1>1, <1>2 DEF CanMove

\* A row that moves along them is a step of the contract, or none of its affairs.
LEMMA EdgeIsStep ==
  ASSUME NEW r \in Runs, NEW to, OneMoves(r, to), rows[r].state \notin Terminal,
         CanMove(rows[r].state, to), to \notin {"CANCELLING", "INTERRUPTED", None},
         rows[r].state \in Parked => to \notin Active
  PROVE  Life!Next \/ Lives' = Lives
<1>1. Lives' = [Lives EXCEPT ![r] = LifeOf(to)] /\ Lives[r] = LifeOf(rows[r].state)
  BY LivesMove DEF Lives
<1>2. LifeOf(to) = Lives[r] \/ LifeOf(to) \in Life!After(Lives[r])
  BY <1>1, EdgesLive
<1>3. CASE LifeOf(to) = Lives[r]
  BY <1>1, <1>3 DEF Lives
<1>4. CASE LifeOf(to) \in Life!After(Lives[r])
  BY <1>1, <1>4 DEF Life!Next, Life!Move
<1> QED
  BY <1>2, <1>3, <1>4

\* A worker's steps keep to the contract: a loop that parked its run is silent.
LEMMA WorkerLives ==
  ASSUME TypeOK, ParkedByLoop, NEW r \in Runs, WorkerSteps(r)
  PROVE  Life!Next \/ Lives' = Lives
<1>1. CASE StatesStay
  BY <1>1, LivesStay
<1>2. ASSUME NEW state \in States, NEW token \in BOOLEAN,
             Emit(r, state, token), OneMoves(r, state)
      PROVE  Life!Next \/ Lives' = Lives
  <2>1. workers[r].last \notin Parked
    BY <1>2, ParkedIsSilent DEF Emit
  <2>2. rows[r].state \notin Parked
    BY <1>2, <2>1 DEF Emit, ParkedByLoop
  <2>3. state \notin {"CANCELLING", "INTERRUPTED"}
    BY <1>2 DEF Emit, Narration, Parked
  <2>4. state # None
    BY NoneAssumption
  <2> QED
    BY <1>2, <2>2, <2>3, <2>4, EdgeIsStep DEF Emit, Appendable
<1>3. CASE /\ Appendable(rows[r].state, "PROVIDER_UNAVAILABLE")
           /\ OneMoves(r, "PROVIDER_UNAVAILABLE")
  BY <1>3, EdgeIsStep, StateNames, NoneAssumption DEF Appendable, Active
<1>4. CASE FinishTakes(r) /\ OneMoves(r, Target(workers[r].outcome))
  <2>1. Target(workers[r].outcome) \notin Active \cup {"CANCELLING", "INTERRUPTED", None}
    BY FinishRests, NoneAssumption DEF Target, Active
  <2> QED
    BY <1>4, <2>1, EdgeIsStep DEF FinishTakes
<1> QED
  BY <1>1, <1>2, <1>3, <1>4, WorkerMoves

\* So do the clock's, but for its word about a parked run.
LEMMA ClockLives ==
  ASSUME TypeOK, NEW r \in Runs, PacerSteps(r)
  PROVE  Life!Next \/ ClockRevives \/ Lives' = Lives
<1>1. CASE StatesStay
  BY <1>1, LivesStay
<1>2. CASE rows[r].state \in Parked /\ \E token \in BOOLEAN : PacerAppends(r, token)
  BY <1>2 DEF ClockRevives
<1>3. CASE /\ Appendable(rows[r].state, pacing[r]) /\ pacing[r] \in Phases
           /\ OneMoves(r, pacing[r]) /\ rows[r].state \notin Parked
  <2>1. pacing[r] \notin {"CANCELLING", "INTERRUPTED", None}
    BY <1>3, StateNames, NoneAssumption DEF Phases
  <2> QED
    BY <1>3, <2>1, EdgeIsStep DEF Appendable
<1> QED
  BY <1>1, <1>2, <1>3, ClockMoves

\* The user's commands, and the completion of a wait.
LEMMA PersonLives ==
  ASSUME TypeOK, NEW r \in Runs, UserSteps(r) \/ CompleteHumanWait(r)
  PROVE  Life!Next
<1>1. PICK state \in {"CANCELLING", "CANCELLED", "WAITING_FOR_HUMAN"} :
        /\ OneMoves(r, state)
        /\ \/ state = "CANCELLING" /\ rows[r].state \in Active \ {"CANCELLING"}
           \/ state = "CANCELLED" /\ rows[r].state \in Parked \cup {"INTERRUPTED", "FAILED"}
           \/ state = "WAITING_FOR_HUMAN" /\ rows[r].state = "INTERRUPTED"
  BY PersonMoves
<1>2. LifeOf(state) \in Life!After(LifeOf(rows[r].state))
  BY <1>1 DEF LifeOf, Active, Parked, Life!After
<1>3. Lives' = [Lives EXCEPT ![r] = LifeOf(state)] /\ Lives[r] = LifeOf(rows[r].state)
  BY <1>1, LivesMove DEF Lives
<1> QED
  BY <1>2, <1>3 DEF Life!Next, Life!Move

\* Which states are busy, and which have begun.
LEMMA IdleLives ==
  ASSUME NEW state
  PROVE  LifeOf(state) \in Life!Busy <=> state \in Active
<1>1. CASE state \in Active
  BY <1>1 DEF LifeOf, Active, Parked, Life!Busy
<1>2. CASE state \notin Active
  BY <1>2 DEF LifeOf, Active, Life!Busy
<1> QED
  BY <1>1, <1>2

LEMMA BegunLives ==
  ASSUME NEW state \in States
  PROVE  LifeOf(state) # "unbegun"
<1>1. CASE state \in Active
  BY <1>1 DEF LifeOf, Active, Parked
<1>2. CASE state \in Terminal \cup Parked
  BY <1>2 DEF LifeOf, Active, Terminal, Parked
<1> QED
  BY <1>1, <1>2 DEF States

\* A start: the journal admits a run only when none is active, and in order.
LEMMA StartLives ==
  ASSUME TypeOK, NEW p \in Pids, NEW r \in Runs, NEW token \in BOOLEAN,
         Start(p, r, token)
  PROVE  Life!Next
<1>1. Lives' = [Lives EXCEPT ![r] = "working"]
  <2>1. LifeOf("QUEUED") = "working"
    BY DEF LifeOf, Active, Parked
  <2> QED
    BY <2>1, StartMoves, LivesMove
<1>2. \A q \in Runs : Lives[q] = LifeOf(rows[q].state)
  BY DEF Lives
<1>3. LifeOf(None) = "unbegun"
  BY StateNames, NoneAssumption DEF LifeOf, States, Active, Terminal, Parked
<1>4. \A q \in Runs : LifeOf(rows[q].state) \notin Life!Busy
  <2>1. ASSUME NEW state, state \notin Active
        PROVE  LifeOf(state) \notin Life!Busy
    BY <2>1, IdleLives
  <2> QED
    BY <2>1 DEF Start, NoActiveRun, IsActive
<1>5. \A q \in Runs : q < r => LifeOf(rows[q].state) # "unbegun"
  BY BegunLives DEF Start, TypeOK, Row
<1>6. rows[r].state = None
  BY DEF Start
<1> QED
  BY <1>1, <1>2, <1>3, <1>4, <1>5, <1>6 DEF Life!Next, Life!Begin

\* A sweep settles busy runs, several at once.
LEMMA SweepLives ==
  ASSUME TypeOK, NEW p \in Pids, Recover(p)
  PROVE  Life!Next
<1> DEFINE lost == {r \in Runs : r \in sweeps[p] /\ IsActive(r)}
<1>1. \A r \in Runs : Lives[r] = LifeOf(rows[r].state)
  BY DEF Lives
<1>2. \A r \in lost : Lives[r] \in Life!Busy
  BY <1>1, IdleLives DEF IsActive
<1>3. ASSUME NEW state \in Active
      PROVE  LifeOf(RecoveredState(state)) = Life!Settled(LifeOf(state))
  <2>1. CASE state = "CANCELLING"
    BY <2>1 DEF LifeOf, RecoveredState, Life!Settled, Active, Parked
  <2>2. CASE state # "CANCELLING"
    <3>1. LifeOf(state) = "working"
      BY <2>2 DEF LifeOf, Active, Parked
    <3>2. LifeOf("INTERRUPTED") = "interrupted"
      BY DEF LifeOf, Active, Parked
    <3> QED
      BY <2>2, <3>1, <3>2 DEF RecoveredState, Life!Settled
  <2> QED
    BY <2>1, <2>2
<1>4. \A r \in Runs : LifeOf(rows'[r].state) =
        IF r \in lost THEN Life!Settled(Lives[r]) ELSE Lives[r]
  <2> TAKE r \in Runs
  <2>1. CASE r \in lost
    <3>1. rows'[r].state = RecoveredState(rows[r].state) /\ rows[r].state \in Active
      BY <2>1, SweepMoves DEF IsActive
    <3> QED
      BY <1>1, <1>3, <2>1, <3>1
  <2>2. CASE r \notin lost
    <3>1. rows'[r].state = rows[r].state
      BY <2>2, SweepMoves
    <3> QED
      BY <1>1, <2>2, <3>1
  <2> QED
    BY <2>1, <2>2
<1>5. lost \in SUBSET Runs
  OBVIOUS
<1> HIDE DEF lost
<1>6. Lives' = [r \in Runs |-> IF r \in lost THEN Life!Settled(Lives[r]) ELSE Lives[r]]
  <2>1. Lives' = [r \in Runs |-> LifeOf(rows'[r].state)]
    BY Zenon DEF Lives
  <2> QED
    BY <1>4, <2>1
<1>7. Life!Reclaim(lost)
  BY <1>2, <1>6 DEF Life!Reclaim
<1> QED
  BY <1>5, <1>7 DEF Life!Next

\* The journal implements RunLife, but for the clock's word about a parked run:
\* whatever the worker, its clock, the user, sweeps and crashes do, for any
\* number of runs and processes (append, finish, request_cancel,
\* recover_abandoned and complete_human_wait on one row).
THEOREM JournalKeepsRunLife == Spec => KeepsRunLife
<1>1. ASSUME Init
      PROVE  Life!Init
  <2>1. LifeOf(None) = "unbegun"
    BY StateNames, NoneAssumption DEF LifeOf, States, Active, Terminal, Parked
  <2>2. \A r \in Runs : LifeOf(rows[r].state) = "unbegun"
    BY <1>1, <2>1 DEF Init, UnusedRow
  <2> QED
    BY <2>2 DEF Life!Init, Lives
<1>2. ASSUME TypeOK, ParkedByLoop, Next
      PROVE  Life!Next \/ ClockRevives \/ Lives' = Lives
  <2> DEFINE Goal == Life!Next \/ ClockRevives \/ Lives' = Lives
  <2>1. ASSUME NEW p \in Pids, NEW r \in Runs, NEW token \in BOOLEAN, Start(p, r, token)
        PROVE  Goal
    BY <1>2, <2>1, StartLives
  <2>2. ASSUME NEW r \in Runs,
               \/ WorkerSteps(r) \/ PacerSteps(r) \/ UserSteps(r)
               \/ CompleteHumanWait(r)
        PROVE  Goal
    BY <1>2, <2>2, WorkerLives, ClockLives, PersonLives
  <2>3. ASSUME NEW p \in Pids, Recover(p)
        PROVE  Goal
    BY <1>2, <2>3, SweepLives
  <2>4. ASSUME \/ \E r \in Runs : Tick(r)
               \/ \E p \in Pids : \/ \E answering \in SUBSET Runs : Survey(p, answering)
                                 \/ Crash(p) \/ Restart(p)
        PROVE  Goal
    BY <1>2, <2>4, QuietStates, LivesStay
  <2> HIDE DEF Goal
  <2>5. Goal
    BY <1>2, <2>1, <2>2, <2>3, <2>4 DEF Next, SweepSteps
  <2> QED
    BY <2>5 DEF Goal
<1>3. ASSUME UNCHANGED vars
      PROVE  Lives' = Lives
  BY <1>3, LivesStay DEF vars, StatesStay
<1>4. TypeOK /\ ParkedByLoop /\ [Next]_vars => [Life!Next \/ ClockRevives]_(Life!vars)
  BY <1>2, <1>3 DEF Life!vars
<1> QED
  BY <1>1, <1>4, JournalTypes, LoopParksKnowingly, PTL DEF Spec, KeepsRunLife

-----------------------------------------------------------------------------
(* What the contract gives. *)

\* RunLife runs one at a time.
LEMMA LifeAlone ==
  ASSUME Lives = [r \in Runs |-> Lives[r]], Life!OneAtATime, [Life!Next]_(Life!vars)
  PROVE  Life!OneAtATime'
<1>1. ASSUME NEW r \in Runs, Life!Begin(r)
      PROVE  Life!OneAtATime'
  BY <1>1 DEF Life!Begin, Life!OneAtATime, Life!Busy
<1>2. ASSUME NEW r \in Runs, Life!Move(r)
      PROVE  Life!OneAtATime'
  <2>1. PICK state \in Life!After(Lives[r]) : Lives' = [Lives EXCEPT ![r] = state]
    BY <1>2 DEF Life!Move
  <2>2. state \in Life!Busy => Lives[r] \in Life!Busy
    BY <2>1 DEF Life!After, Life!Busy
  <2> QED
    BY <2>1, <2>2 DEF Life!OneAtATime
<1>3. ASSUME NEW lost \in SUBSET Runs, Life!Reclaim(lost)
      PROVE  Life!OneAtATime'
  <2>1. \A r \in Runs : Lives'[r] \in Life!Busy => Lives[r] \in Life!Busy
    BY <1>3 DEF Life!Reclaim, Life!Settled, Life!Busy
  <2> QED
    BY <2>1 DEF Life!OneAtATime
<1>4. CASE UNCHANGED Life!vars
  BY <1>4 DEF Life!vars, Life!OneAtATime
<1> QED
  BY <1>1, <1>2, <1>3, <1>4 DEF Life!Next

\* At most one run of the journal is active.
OneActive == \A r, q \in Runs : IsActive(r) /\ IsActive(q) => r = q

\* While no clock revives a parked run, the journal holds one active run at
\* most, with no thread, slot or lease to keep it so: start's own check is
\* enough (the query for active states inside its transaction).
THEOREM UnrevivedRunsAlone == Spec /\ [][~ClockRevives]_vars => []OneActive
<1>1. Lives = [r \in Runs |-> Lives[r]]
  BY DEF Lives
<1>2. Life!Init => Life!OneAtATime
  BY DEF Life!Init, Life!OneAtATime, Life!Busy
<1>3. Life!OneAtATime => OneActive
  <2>1. \A r \in Runs : Lives[r] \in Life!Busy <=> IsActive(r)
    BY IdleLives DEF Lives, IsActive
  <2> QED
    BY <2>1 DEF Life!OneAtATime, OneActive
<1>4. [~ClockRevives]_vars /\ [Life!Next \/ ClockRevives]_(Life!vars)
        => [Life!Next]_(Life!vars)
  <2>1. UNCHANGED vars => UNCHANGED Life!vars
    BY LivesStay DEF vars, StatesStay, Life!vars
  <2> QED
    BY <2>1
<1>5. Life!OneAtATime /\ [Life!Next]_(Life!vars) => Life!OneAtATime'
  BY <1>1, LifeAlone
<1> QED
  BY <1>2, <1>3, <1>4, <1>5, JournalKeepsRunLife, PTL DEF KeepsRunLife

\* The clock that revives is the only way a parked run goes on: every other
\* step of the journal leaves it parked, or ends it.  (That it is one, although
\* "every out edge is taken by an explicit command", is a finding.)
THEOREM OnlyTheClockRevives ==
  Spec => [][\/ ClockRevives
             \/ \A r \in Runs : rows[r].state \in Parked =>
                  rows'[r].state \in Parked \cup {"CANCELLED", "FAILED"}]_vars
<1> DEFINE Stays == \A r \in Runs : rows[r].state \in Parked =>
                      rows'[r].state \in Parked \cup {"CANCELLED", "FAILED"}
<1>1. ASSUME NEW r \in Runs, rows[r].state \in Parked, Life!Next
      PROVE  Lives'[r] \in {"parked", "cancelled", "failed"}
  <2>1. Lives = [q \in Runs |-> Lives[q]] /\ Lives[r] = "parked"
    BY <1>1 DEF Lives, LifeOf, Active, Parked
  <2>2. ASSUME NEW q \in Runs, Life!Begin(q)
        PROVE  Lives'[r] = "parked"
    BY <2>1, <2>2 DEF Life!Begin
  <2>3. ASSUME NEW q \in Runs, Life!Move(q)
        PROVE  Lives'[r] \in {"parked", "cancelled", "failed"}
    BY <2>1, <2>3 DEF Life!Move, Life!After
  <2>4. ASSUME NEW lost \in SUBSET Runs, Life!Reclaim(lost)
        PROVE  Lives'[r] = "parked"
    BY <2>1, <2>4 DEF Life!Reclaim, Life!Busy
  <2> QED
    BY <1>1, <2>2, <2>3, <2>4 DEF Life!Next
<1>2. ASSUME NEW state, LifeOf(state) \in {"parked", "cancelled", "failed"}
      PROVE  state \in Parked \cup {"CANCELLED", "FAILED"}
  BY <1>2 DEF LifeOf
<1>3. \A r \in Runs : Lives[r] = LifeOf(rows[r].state) /\ Lives'[r] = LifeOf(rows'[r].state)
  BY DEF Lives
<1>4. ASSUME [Life!Next \/ ClockRevives]_(Life!vars)
      PROVE  ClockRevives \/ Stays
  <2>1. CASE Life!Next
    BY <1>1, <1>2, <1>3, <2>1
  <2>2. CASE UNCHANGED Life!vars
    <3>1. \A r \in Runs : rows[r].state \in Parked => Lives[r] = "parked"
      BY DEF Lives, LifeOf, Active, Parked
    <3> QED
      BY <1>2, <1>3, <2>2, <3>1 DEF Life!vars
  <2> QED
    BY <1>4, <2>1, <2>2
<1>5. [Life!Next \/ ClockRevives]_(Life!vars) => [ClockRevives \/ Stays]_vars
  BY <1>4
<1> QED
  BY <1>5, JournalKeepsRunLife, PTL DEF KeepsRunLife

-----------------------------------------------------------------------------
(* The loop's narration and the transition table. *)

\* The repair screen speaks while the revision is generated, and the loop goes
\* on to the audit from there: words for which the table has no edge.
ScreenSpeaks(w, state) ==
  \/ w.last = "GENERATING" /\ w.repair /\ state = "REVISING"
  \/ w.last = "REVISING" /\ ~w.repair /\ state = "AUDITING"

\* The table takes every other word of the loop in the state the loop is in.
LEMMA TableTakes ==
  ASSUME NEW w \in Worker, NEW state \in Narration(w), ~ScreenSpeaks(w, state)
  PROVE  Appendable(w.last, state)
<1>1. CASE w.last = "QUEUED"
  BY <1>1 DEF Narration, Appendable, CanMove, Transitions, Terminal
<1>2. CASE w.last = "GENERATING"
  BY <1>2 DEF Narration, Appendable, CanMove, Transitions, Terminal, ScreenSpeaks, Parked
<1>3. CASE w.last = "WAITING_FOR_CAPABILITY"
  BY <1>3 DEF Narration, Appendable, CanMove, Transitions, Terminal
<1>4. CASE w.last = "AUDITING"
  BY <1>4 DEF Narration, Appendable, CanMove, Transitions, Terminal, Parked
<1>5. CASE w.last = "REVISING"
  BY <1>5 DEF Narration, Appendable, CanMove, Transitions, Terminal, ScreenSpeaks
<1>6. CASE w.last \notin {"QUEUED", "GENERATING", "WAITING_FOR_CAPABILITY",
                          "AUDITING", "REVISING"}
  BY <1>6 DEF Narration
<1> QED
  BY <1>1, <1>2, <1>3, <1>4, <1>5, <1>6

\* A run that nothing but its worker moved is refused an event of its own only
\* where the repair screen spoke (cli/build.py narrates REVISING while the row
\* is GENERATING, runtime/runs.py has no such edge).
THEOREM OnlyTheScreenIsRefused ==
  Spec => [][\A r \in Runs, state \in States :
               rows[r].state = workers[r].last /\ EmitRefused(r, state) =>
                 ScreenSpeaks(workers[r], state)]_vars
<1>1. ASSUME TypeOK, NEW r \in Runs, NEW state \in States,
             rows[r].state = workers[r].last, EmitRefused(r, state)
      PROVE  ScreenSpeaks(workers[r], state)
  <2>1. workers[r] \in Worker /\ state \in Narration(workers[r])
    BY <1>1 DEF TypeOK, EmitRefused
  <2>2. SUFFICES ASSUME ~ScreenSpeaks(workers[r], state)
                 PROVE  FALSE
    OBVIOUS
  <2>3. Appendable(rows[r].state, state)
    BY <1>1, <2>1, <2>2, TableTakes
  <2>4. workers[r].last # "CANCELLING"
    BY <2>1 DEF Narration
  <2> QED
    BY <1>1, <2>3, <2>4 DEF EmitRefused
<1>2. TypeOK /\ [Next]_vars =>
        [\A r \in Runs, state \in States :
           rows[r].state = workers[r].last /\ EmitRefused(r, state) =>
             ScreenSpeaks(workers[r], state)]_vars
  BY <1>1
<1> QED
  BY <1>2, JournalTypes, PTL DEF Spec

=============================================================================
