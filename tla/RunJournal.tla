----------------------------- MODULE RunJournal -----------------------------
(***************************************************************************)
(* The run journal (runtime/runs.py) and the shell that drives one build   *)
(* through it (runtime/commands.py), with the watchdog of other processes. *)
(*                                                                         *)
(* Every journal operation is one SQLite transaction and one action here.  *)
(* Around those transactions run, without any lock: the worker thread of a *)
(* run, which reads the state and writes later; its phase clock, a second  *)
(* thread that captures the worker's last state and appends it later; a    *)
(* user who cancels at any moment; and sweeps of any process, which        *)
(* snapshot the rows, probe the operating system, and reclaim afterwards.  *)
(* Processes crash, and their pids are used again.                         *)
(***************************************************************************)
EXTENDS Integers, FiniteSets

CONSTANTS
  Pids,        \* process ids that CrossAudit processes of one project run under
  Watchers,    \* those whose process is a console, with a watchdog thread
  MaxRuns,     \* bound of the model: runs started
  MaxCrashes,  \* bound of the model: process deaths
  None

ASSUME PidAssumption == Watchers \subseteq Pids /\ None \notin Pids
ASSUME BoundAssumption == MaxRuns \in Nat /\ MaxCrashes \in Nat

VARIABLES
  rows,     \* the runs table, by run number in the order of their start
  workers,  \* the thread that drives each run
  pacing,   \* the phase clock of each run: the state it is about to append
  sweeps,   \* the runs each process's recover_abandoned is about to reclaim
  slot,     \* the pid in the project's workspace slot file, or None
  up,       \* which pids are alive
  crashes   \* history: process deaths so far, up to MaxCrashes

vars == <<rows, workers, pacing, sweeps, slot, up, crashes>>

Runs == 1..MaxRuns

Active   == {"QUEUED", "GENERATING", "WAITING_FOR_CAPABILITY", "AUDITING",
             "REVISING", "CANCELLING"}
Terminal == {"WAITING_FOR_PROVIDER", "WAITING_FOR_HUMAN", "PASSED",
             "CANCELLED", "FAILED", "INTERRUPTED"}
Parked   == {"PROVIDER_UNAVAILABLE"}
States   == Active \cup Terminal \cup Parked

ASSUME NoneAssumption == None \notin States

\* The edges of _TRANSITIONS: every active state may stop, and the working
\* ones may park or wait; CANCELLING may only stop.
Stops == {"CANCELLED", "FAILED", "INTERRUPTED"}
Waits == {"WAITING_FOR_PROVIDER", "WAITING_FOR_HUMAN", "PASSED", "CANCELLING"}
Transitions(state) ==
  CASE state = "QUEUED"      -> Stops \cup Waits \cup {"GENERATING"}
    [] state = "GENERATING"  -> Stops \cup Waits \cup Parked \cup
                                {"WAITING_FOR_CAPABILITY", "AUDITING"}
    [] state = "WAITING_FOR_CAPABILITY" -> Stops \cup Waits \cup {"GENERATING"}
    [] state = "AUDITING"    -> Stops \cup Waits \cup Parked \cup {"REVISING"}
    [] state = "REVISING"    -> Stops \cup Waits \cup Parked \cup
                                {"GENERATING", "WAITING_FOR_CAPABILITY"}
    [] state = "CANCELLING"  -> Stops
    [] state \in Parked      -> {"GENERATING", "AUDITING", "REVISING",
                                 "CANCELLING", "CANCELLED", "FAILED"}
    [] state \in {"WAITING_FOR_PROVIDER", "WAITING_FOR_HUMAN", "FAILED"} -> {"CANCELLED"}
    [] state = "INTERRUPTED" -> {"CANCELLED", "WAITING_FOR_HUMAN"}
    [] OTHER                 -> {}

CanMove(state, target) == state = target \/ target \in Transitions(state)

\* append refuses a terminal row even where the table has an edge.
Appendable(state, target) == state \notin Terminal /\ CanMove(state, target)

\* A lease is live, has run out, or has been silent for the stall window; a
\* resting row holds none.
Leases == {"live", "expired", "stalled", None}

Row == [state: States \cup {None}, owner: Pids \cup {None}, token: BOOLEAN,
        lease: Leases]

UnusedRow == [state |-> None, owner |-> None, token |-> FALSE, lease |-> None]

\* Stages of a worker: before its run, in the loop, about to park on a
\* provider failure, finishing from the loop's return or from an exception
\* handler, about to give its slot back, ended, and gone with its process.
Stages == {"off", "working", "parking", "returning", "ending", "closing",
           "done", "gone"}
Outcomes == {"passed", "escalated", "blocked", "provider_unavailable",
             "refused", "cancelled", "failed"}

Worker == [stage: Stages, last: States, repair: BOOLEAN, beaten: BOOLEAN,
           outcome: Outcomes \cup {None}]

\* RUN_PHASES: the states whose silence the phase clock narrates.
Phases == {"QUEUED", "GENERATING", "REVISING", "AUDITING"}

IdleWorker == [stage |-> "off", last |-> "QUEUED", repair |-> FALSE,
               beaten |-> FALSE, outcome |-> None]

TypeOK ==
  /\ rows \in [Runs -> Row]
  /\ workers \in [Runs -> Worker]
  /\ pacing \in [Runs -> Phases \cup {None, "ended"}]
  /\ sweeps \in [Pids -> SUBSET Runs]
  /\ slot \in Pids \cup {None}
  /\ up \in SUBSET Pids
  /\ crashes \in 0..MaxCrashes

Init ==
  /\ rows = [r \in Runs |-> UnusedRow]
  /\ workers = [r \in Runs |-> IdleWorker]
  /\ pacing = [r \in Runs |-> None]
  /\ sweeps = [p \in Pids |-> {}]
  /\ slot = None
  /\ up = Pids
  /\ crashes = 0

-----------------------------------------------------------------------------
IsActive(r) == rows[r].state \in Active

\* The worker's thread exists: its process is the incarnation that started it.
Threaded(r) == workers[r].stage \notin {"off", "done", "gone"}

\* A row a worker has written: its state, a fresh lease, and an identity token
\* if the process could attest itself this time (_token_refresh).
Renewed(r, state, token) ==
  LET row == [rows[r] EXCEPT !.state = state, !.lease = "live"] IN
  rows' = [rows EXCEPT ![r] = IF token THEN [row EXCEPT !.token = TRUE] ELSE row]

\* Mutant of Heard: a sweep does not compare the heartbeat it saw.
NotHeard(r) == UNCHANGED sweeps

\* A sweep that applies its reclaims skips a run whose heartbeat advanced.
Heard(r) == sweeps' = [p \in Pids |-> sweeps[p] \ {r}]

Resting(r, state) ==
  rows' = [rows EXCEPT ![r].state = state, ![r].lease = None]

-----------------------------------------------------------------------------
(* The command shell. *)

\* Mutant of SlotFree: the journal's own single-run check is relied on alone.
SlotFreeForAll == TRUE

\* acquire_workspace_slot drops the slot of a dead pid, then wants it unused.
SlotFree == slot = None \/ slot \notin up

\* Mutant of NoActiveRun: the slot alone admits a run.
AnyActiveRuns == TRUE

NoActiveRun == \A q \in Runs : ~IsActive(q)

\* Start claims the slot, then inserts the row unless a run is active.
Start(p, r, token) ==
  /\ p \in up
  /\ rows[r].state = None
  /\ \A q \in Runs : q < r => rows[q].state # None
  /\ SlotFree
  /\ NoActiveRun
  /\ slot' = p
  /\ rows' = [rows EXCEPT ![r] = [state |-> "QUEUED", owner |-> p,
                                  token |-> token, lease |-> "live"]]
  /\ workers' = [workers EXCEPT ![r].stage = "working"]
  /\ UNCHANGED <<pacing, sweeps, up, crashes>>

\* What run_loop narrates next.  A round goes generate, audit, revise; the
\* repair screen speaks in REVISING while it generates, and goes on to the audit
\* or to another round; an outage while generating or auditing parks the run.
Narration(w) ==
  CASE w.last = "QUEUED" -> {"QUEUED", "GENERATING"}
    [] w.last = "GENERATING" ->
         {"GENERATING", "WAITING_FOR_CAPABILITY", "AUDITING"} \cup Parked
         \cup (IF w.repair THEN {"REVISING"} ELSE {})
    [] w.last = "WAITING_FOR_CAPABILITY" -> {"WAITING_FOR_CAPABILITY", "GENERATING"}
    [] w.last = "AUDITING" -> {"AUDITING", "REVISING"} \cup Parked
    [] w.last = "REVISING" -> {"REVISING", "GENERATING"}
                              \cup (IF w.repair THEN {} ELSE {"AUDITING"})
    [] OTHER -> {}

\* A revision is due after an audit's request, and while it is generated until
\* the screen has spoken or the audit has begun.
StillRepair(w, state) ==
  \/ w.last = "AUDITING" /\ state = "REVISING"
  \/ w.last = "REVISING" /\ state = "GENERATING"
  \/ /\ w.repair /\ state # "AUDITING"
     /\ ~(w.last = "GENERATING" /\ state = "REVISING")

Narrated(w, state) ==
  [w EXCEPT !.last = state, !.repair = StillRepair(w, state)]

Emit(r, state, token) ==
  /\ workers[r].stage = "working"
  /\ state \in Narration(workers[r])
  /\ rows[r].state # "CANCELLING"
  /\ Appendable(rows[r].state, state)
  /\ Renewed(r, state, token)
  /\ Heard(r)
  /\ workers' = [workers EXCEPT ![r] = Narrated(@, state)]
  /\ UNCHANGED <<pacing, slot, up, crashes>>

\* A refused event ends the run: cancelled if that is why, else failed.
EmitRefused(r, state) ==
  /\ workers[r].stage = "working"
  /\ state \in Narration(workers[r])
  /\ \/ rows[r].state = "CANCELLING"
     \/ ~Appendable(rows[r].state, state)
  /\ ~(rows[r].state \in Terminal /\ rows[r].state = state)
  /\ workers' = [workers EXCEPT ![r].stage = "ending", ![r].outcome =
                   IF rows[r].state = "CANCELLING" THEN "cancelled" ELSE "failed"]
  /\ UNCHANGED <<rows, pacing, sweeps, slot, up, crashes>>

\* The lease renewal at a provider-call boundary.
\* Bound of the model: one renewal after a cancellation was requested.
Heartbeat(r, token) ==
  /\ workers[r].stage = "working" /\ ~workers[r].beaten
  /\ IsActive(r)
  /\ Renewed(r, rows[r].state, token)
  /\ Heard(r)
  /\ workers' = [workers EXCEPT ![r].beaten = rows[r].state = "CANCELLING"]
  /\ UNCHANGED <<pacing, slot, up, crashes>>

\* The loop returned: _drive reads the state and chooses an outcome from it.
Return(r, outcome) ==
  /\ workers[r].stage = "working"
  /\ \/ outcome = "passed" /\ workers[r].last = "AUDITING"
     \/ outcome = "escalated"
     \/ outcome = "blocked" /\ workers[r].last \notin Parked
  /\ workers' = [workers EXCEPT
       ![r].stage = IF rows[r].state = "CANCELLING" THEN "ending" ELSE "returning",
       ![r].outcome = CASE rows[r].state = "CANCELLING" -> "cancelled"
                        [] rows[r].state \in Parked -> "provider_unavailable"
                        [] OTHER -> outcome]
  /\ UNCHANGED <<rows, pacing, sweeps, slot, up, crashes>>

\* The loop raised a Denial; one of a provider category tries to park.
Deny(r, provider) ==
  /\ workers[r].stage = "working"
  /\ workers' = [workers EXCEPT
       ![r].stage = IF rows[r].state # "CANCELLING" /\ provider THEN "parking"
                    ELSE "ending",
       ![r].outcome = CASE rows[r].state = "CANCELLING" -> "cancelled"
                        [] provider -> None
                        [] OTHER -> "refused"]
  /\ UNCHANGED <<rows, pacing, sweeps, slot, up, crashes>>

Park(r, token) ==
  /\ workers[r].stage = "parking"
  /\ IF Appendable(rows[r].state, "PROVIDER_UNAVAILABLE")
     THEN /\ Renewed(r, "PROVIDER_UNAVAILABLE", token)
          /\ Heard(r)
          /\ workers' = [workers EXCEPT ![r].stage = "ending",
                                        ![r].outcome = "provider_unavailable"]
     ELSE /\ workers' = [workers EXCEPT ![r].stage = "ending",
                                        ![r].outcome = "refused"]
          /\ UNCHANGED <<rows, sweeps>>
  /\ UNCHANGED <<pacing, slot, up, crashes>>

\* The loop raised anything else, or the user pressed ^C in its terminal.
Fail(r, interrupted) ==
  /\ workers[r].stage = "working"
  /\ workers' = [workers EXCEPT ![r].stage = "ending", ![r].outcome =
       IF interrupted \/ rows[r].state = "CANCELLING" THEN "cancelled" ELSE "failed"]
  /\ UNCHANGED <<rows, pacing, sweeps, slot, up, crashes>>

Target(outcome) ==
  CASE outcome = "passed" -> "PASSED"
    [] outcome \in {"escalated", "blocked", "refused"} -> "WAITING_FOR_HUMAN"
    [] outcome = "provider_unavailable" -> "PROVIDER_UNAVAILABLE"
    [] outcome = "cancelled" -> "CANCELLED"
    [] OTHER -> "FAILED"

\* Mutant of FinishTakes: a finish does not look whether the run has ended.
FinishTakesTwice(r) == CanMove(rows[r].state, Target(workers[r].outcome))

FinishTakes(r) ==
  /\ rows[r].state \notin Terminal
  /\ CanMove(rows[r].state, Target(workers[r].outcome))

\* RunJournal.finish.  On a run already settled it does nothing.
Finish(r) ==
  /\ workers[r].stage \in {"returning", "ending"}
  /\ rows[r].state \in Terminal \/ FinishTakes(r)
  /\ IF FinishTakes(r) THEN Resting(r, Target(workers[r].outcome))
     ELSE UNCHANGED rows
  /\ workers' = [workers EXCEPT ![r].stage = "closing"]
  /\ UNCHANGED <<pacing, sweeps, slot, up, crashes>>

\* finish has no edge to take.  Raised from the loop's return it reaches the
\* last handler; a refusal overtaken by a cancellation is cancelled; any other
\* error of a handler leaves the row as it is.
FinishRefused(r) ==
  /\ workers[r].stage \in {"returning", "ending"}
  /\ rows[r].state \notin Terminal /\ ~FinishTakes(r)
  /\ workers' = [workers EXCEPT ![r] =
       IF @.stage = "returning" \/ (@.outcome = "refused" /\ rows[r].state = "CANCELLING")
       THEN [@ EXCEPT !.stage = "ending", !.outcome =
               IF rows[r].state = "CANCELLING" THEN "cancelled" ELSE "failed"]
       ELSE [@ EXCEPT !.stage = "closing"]]
  /\ UNCHANGED <<rows, pacing, sweeps, slot, up, crashes>>

\* The finally clause: the slot file is removed, whoever it names.
Release(r) ==
  /\ workers[r].stage = "closing"
  /\ slot' = None
  /\ workers' = [workers EXCEPT ![r] = [IdleWorker EXCEPT !.stage = "done"]]
  /\ UNCHANGED <<rows, pacing, sweeps, up, crashes>>

-----------------------------------------------------------------------------
(* The phase clock, a thread beside the worker. *)

\* It has been silent too long in a phase it narrates, and captures the
\* state of the worker's last event.
PacerWakes(r) ==
  /\ pacing[r] = None
  /\ workers[r].stage \in {"working", "parking", "returning", "ending", "closing"}
  /\ workers[r].last \in Phases
  /\ pacing' = [pacing EXCEPT ![r] = workers[r].last]
  /\ UNCHANGED <<rows, workers, sweeps, slot, up, crashes>>

\* It appends what it captured, whatever the worker did meanwhile; a refusal
\* ends the thread.
PacerAppends(r, token) ==
  /\ pacing[r] \in Phases
  /\ IF Appendable(rows[r].state, pacing[r])
     THEN /\ Renewed(r, pacing[r], token)
          /\ Heard(r)
          /\ pacing' = [pacing EXCEPT ![r] = None]
     ELSE /\ pacing' = [pacing EXCEPT ![r] = "ended"]
          /\ UNCHANGED <<rows, sweeps>>
  /\ UNCHANGED <<workers, slot, up, crashes>>

-----------------------------------------------------------------------------
(* The user. *)

RequestCancel(r) ==
  /\ \/ /\ rows[r].state \in Active \ {"CANCELLING"}
        /\ rows' = [rows EXCEPT ![r].state = "CANCELLING", ![r].lease = "live"]
     \/ /\ rows[r].state \in Parked
        /\ Resting(r, "CANCELLED")
  /\ UNCHANGED <<workers, pacing, sweeps, slot, up, crashes>>

DismissInterruption(r) ==
  /\ rows[r].state \in {"INTERRUPTED", "FAILED"}
  /\ Resting(r, "CANCELLED")
  /\ UNCHANGED <<workers, pacing, sweeps, slot, up, crashes>>

-----------------------------------------------------------------------------
(* The watchdog: recover_abandoned reads the active rows and probes the     *)
(* operating system with no lock held, and applies its reclaims at the end. *)

\* Mutant of Vouched: any process with the owner's pid is taken for the owner.
VouchedByPid(r, answers) == rows[r].owner \in up

\* why_reclaim finds no reason: the owner is alive and its token matches, or
\* nothing comparable was learned and the lease had not run out.
Vouched(r, answers) ==
  /\ rows[r].owner \in up
  /\ IF rows[r].token /\ answers THEN workers[r].stage # "gone"
     ELSE rows[r].lease = "live"

\* Mutant of CancelForced: the pid's own runs are exempt even then.
CancelNotForced(r) == FALSE

\* _cancel_grace_elapsed: nobody acknowledged a cancellation in time.
CancelForced(r) ==
  rows[r].state = "CANCELLING" /\ rows[r].lease \in {"stalled", None}

\* A run of the sweeping pid is its own.
Reclaims(p, r, answers) ==
  /\ IsActive(r)
  /\ CancelForced(r) \/ (rows[r].owner # p /\ ~Vouched(r, answers))

\* The rows and what the probes tell of them, in one step: between the two, a
\* row only changes by its worker, which the sweep hears, or by the user.
\* answering: the runs of whose owner the operating system tells the identity.
Survey(p, answering) ==
  /\ p \in up /\ sweeps[p] = {}
  /\ \E r \in Runs : Reclaims(p, r, r \in answering)
  /\ sweeps' = [sweeps EXCEPT ![p] = {r \in Runs : Reclaims(p, r, r \in answering)}]
  /\ UNCHANGED <<rows, workers, pacing, slot, up, crashes>>

\* Mutant of RecoveredState: the word for the outcome is stored as the state.
RecoveredOutcome(state) == IF state = "CANCELLING" THEN "cancelled" ELSE "interrupted"

RecoveredState(state) == IF state = "CANCELLING" THEN "CANCELLED" ELSE "INTERRUPTED"

\* The rows are read again: a settled one is left alone.
Recover(p) ==
  /\ sweeps[p] # {}
  /\ rows' = [r \in Runs |-> IF r \in sweeps[p] /\ IsActive(r)
                THEN [rows[r] EXCEPT !.state = RecoveredState(@), !.lease = None]
                ELSE rows[r]]
  /\ sweeps' = [sweeps EXCEPT ![p] = {}]
  /\ UNCHANGED <<workers, pacing, slot, up, crashes>>

\* complete_human_wait, for an escalation recorded before the worker died.
CompleteHumanWait(r) ==
  /\ rows[r].state = "INTERRUPTED"
  /\ Resting(r, "WAITING_FOR_HUMAN")
  /\ UNCHANGED <<workers, pacing, sweeps, slot, up, crashes>>

-----------------------------------------------------------------------------
(* Time and processes. *)

\* A lease of silence more; only a cancellation is judged by the stall window.
Tick(r) ==
  /\ \/ IsActive(r) /\ rows[r].lease = "live"
     \/ rows[r].state = "CANCELLING" /\ rows[r].lease = "expired"
  /\ rows' = [rows EXCEPT ![r].lease = IF @ = "live" THEN "expired" ELSE "stalled"]
  /\ UNCHANGED <<workers, pacing, sweeps, slot, up, crashes>>

\* A process dies with its threads; the slot file and the rows remain.
Crash(p) ==
  /\ p \in up /\ crashes < MaxCrashes
  /\ crashes' = crashes + 1
  /\ up' = up \ {p}
  /\ workers' = [r \in Runs |-> IF rows[r].owner = p
                   THEN [IdleWorker EXCEPT !.stage = "gone"] ELSE workers[r]]
  /\ pacing' = [r \in Runs |-> IF rows[r].owner = p THEN "ended" ELSE pacing[r]]
  /\ sweeps' = [sweeps EXCEPT ![p] = {}]
  /\ UNCHANGED <<rows, slot>>

\* The pid is in use again, by another CrossAudit process.
Restart(p) ==
  /\ p \notin up
  /\ up' = up \cup {p}
  /\ UNCHANGED <<rows, workers, pacing, sweeps, slot, crashes>>

-----------------------------------------------------------------------------
WorkerSteps(r) ==
  \/ \E token \in BOOLEAN :
       \/ \E state \in States : Emit(r, state, token)
       \/ Heartbeat(r, token) \/ Park(r, token)
  \/ \E state \in States : EmitRefused(r, state)
  \/ \E outcome \in Outcomes : Return(r, outcome)
  \/ \E provider \in BOOLEAN : Deny(r, provider)
  \/ \E interrupted \in BOOLEAN : Fail(r, interrupted)
  \/ Finish(r) \/ FinishRefused(r) \/ Release(r)

PacerSteps(r) == PacerWakes(r) \/ \E token \in BOOLEAN : PacerAppends(r, token)

UserSteps(r) == RequestCancel(r) \/ DismissInterruption(r)

SweepSteps(p) ==
  (\E answering \in SUBSET Runs : Survey(p, answering)) \/ Recover(p)

Next ==
  \/ \E p \in Pids, r \in Runs, token \in BOOLEAN : Start(p, r, token)
  \/ \E r \in Runs : \/ WorkerSteps(r) \/ PacerSteps(r) \/ UserSteps(r)
                     \/ CompleteHumanWait(r) \/ Tick(r)
  \/ \E p \in Pids : SweepSteps(p) \/ Crash(p) \/ Restart(p)

\* The watchdog thread of a console sweeps for as long as the process lives
\* (liveness_watch), and time passes.  Nothing is asked of a worker.
Fairness ==
  /\ \A p \in Watchers : WF_vars(SweepSteps(p))
  /\ \A r \in Runs : WF_vars(Tick(r))

Spec == Init /\ [][Next]_vars /\ Fairness

-----------------------------------------------------------------------------
(* Properties. *)

\* At most one run's thread works on the project, although a forced
\* cancellation frees the journal under a thread that is still there
\* (recover_abandoned, A3): the slot stays with that thread.
OneThread ==
  \A r, q \in Runs : Threaded(r) /\ Threaded(q) => r = q

\* A run whose thread is there is interrupted only after its lease ran out
\* unrenewed: no sweep overtakes a worker that spoke while it probed.
LiveWorkerKept ==
  [][\A r \in Runs :
       rows'[r].state = "INTERRUPTED" /\ rows[r].state # "INTERRUPTED" =>
         ~Threaded(r) \/ rows[r].lease # "live"]_vars

\* A cancellation the user asked for is never overtaken: whatever finish,
\* event or sweep was under way, the run ends CANCELLED, or FAILED.
CancelStands ==
  [][\A r \in Runs : rows[r].state = "CANCELLING" =>
       rows'[r].state \in {"CANCELLING", "CANCELLED", "FAILED"}]_vars

\* A run that was settled stays settled: a worker that comes back after a
\* sweep or a second sweep changes nothing (recovered exactly once).
SettledOnce ==
  [][\A r \in Runs :
       /\ rows[r].state \in {"PASSED", "CANCELLED", "WAITING_FOR_HUMAN"} =>
            rows'[r].state = rows[r].state
       /\ rows[r].state \in {"FAILED", "INTERRUPTED"} =>
            \/ rows'[r].state \in {rows[r].state, "CANCELLED"}
            \/ rows[r].state = "INTERRUPTED" /\ rows'[r].state = "WAITING_FOR_HUMAN"]_vars

\* A console that keeps running.
Watched(p) == \E q \in Watchers \ {p} : q \in up

\* A cancellation completes although its worker never acknowledges it, while a
\* console runs, the worker's own included.
CancelCompletes ==
  \A r \in Runs :
    rows[r].state = "CANCELLING" ~> rows[r].state # "CANCELLING" \/ ~Watched(None)

\* The active run of a dead process is settled while a console of another pid
\* runs, even when the pid is in use again.
AbandonedSettled ==
  \A r \in Runs :
    IsActive(r) /\ workers[r].stage = "gone" ~>
      ~IsActive(r) \/ ~Watched(rows[r].owner)

-----------------------------------------------------------------------------
(* The contract of a run's life, RunLife.                                   *)

LifeOf(state) ==
  CASE state \in Active \ {"CANCELLING"}          -> "working"
    [] state = "CANCELLING"                       -> "cancelling"
    [] state \in Parked                           -> "parked"
    [] state \in {"WAITING_FOR_PROVIDER",
                  "WAITING_FOR_HUMAN"}            -> "asking"
    [] state = "PASSED"                           -> "passed"
    [] state = "CANCELLED"                        -> "cancelled"
    [] state = "FAILED"                           -> "failed"
    [] state = "INTERRUPTED"                      -> "interrupted"
    [] OTHER                                      -> "unbegun"

Lives == [r \in Runs |-> LifeOf(rows[r].state)]

Life == INSTANCE RunLife WITH life <- Lives

\* The phase clock appends the state it captured to a run that was parked since.
ClockRevives ==
  \E r \in Runs, token \in BOOLEAN : rows[r].state \in Parked /\ PacerAppends(r, token)

\* Whatever the worker, its clock, the user, sweeps and crashes do, a run lives
\* as RunLife says; a clock that revives a parked run is all that breaks it.
KeepsRunLife == Life!Init /\ [][Life!Next \/ ClockRevives]_(Life!vars)

-----------------------------------------------------------------------------
(* Claims of the code's own documents; see the findings in the README. *)

\* "every out edge is taken by an explicit command, not a timer" (runs.py:191).
ParkedStaysParked ==
  [][\A r \in Runs : rows[r].state \in Parked =>
       rows'[r].state \in Parked \cup {"CANCELLED", "FAILED"}]_vars

\* "the round is committed and audited as usual" (docs/DECISIONS.md:6572): the
\* repair screen's word is no reason for the journal to refuse an event of a
\* run that nothing but its worker moved.
NarrationTaken ==
  [][\A r \in Runs, state \in States :
       rows[r].state = workers[r].last => ~EmitRefused(r, state)]_vars
=============================================================================
