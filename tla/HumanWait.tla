------------------------------ MODULE HumanWait ------------------------------
(***************************************************************************)
(* "A person owns the next step" is written to two stores: the run journal *)
(* (a run that waits) and the cycle store (an ESCALATED cycle, the decision *)
(* object that names the run).  This module composes the two with everyone *)
(* who writes them: the worker that parks or stops, the person who rules,  *)
(* stops or retries, and the watchdog that completes a torn half from what *)
(* it read before (reconcile_human_wait).  Each store's transaction is one *)
(* action; between two of them anybody may act, or die.                    *)
(*                                                                         *)
(* CycleStore and RunJournal hold the detail of either store.  Here a run  *)
(* that works is WORKING or CANCELLING; a cycle keeps what these writers   *)
(* read.  HEAD only moves forward, one commit at a time.  Every run has a  *)
(* task of its own, so the reconciler's chat-and-task match finds nothing. *)
(***************************************************************************)
EXTENDS Integers, FiniteSets

CONSTANTS
  MaxRuns,     \* bound of the model: runs started
  MaxCommits,  \* bound of the model: commits after the first
  MaxCommands, \* bound of the model: commands of a person
  MaxDeaths,   \* bound of the model: deaths of a worker or of the console
  None

ASSUME BoundAssumption ==
  /\ MaxRuns \in Nat /\ MaxCommits \in Nat
  /\ MaxCommands \in Nat /\ MaxDeaths \in Nat

VARIABLES
  rows,     \* the runs table, by run number in the order of their start
  cycles,   \* state.json: root commit -> cycle, or None
  head,     \* HEAD of the project
  worker,   \* the one thread that works on the project, or an idle one
  person,   \* the second half of what the person's last command has to do
  sweep,    \* what the watchdog's pass holds in memory
  noted,    \* how many runs had started when an escalation was last logged
  commands, \* history: commands of the person so far, up to MaxCommands
  deaths    \* history: deaths so far, up to MaxDeaths

vars == <<rows, cycles, head, worker, person, sweep, noted, commands, deaths>>

Runs    == 1..MaxRuns
Commits == 0..MaxCommits

Active   == {"WORKING", "CANCELLING"}
Waiting  == {"WAITING_FOR_HUMAN", "PROVIDER_UNAVAILABLE"}
States   == Active \cup Waiting \cup {"INTERRUPTED", "CANCELLED", "PASSED"}
Outcomes == {"passed", "escalated", "refused", "provider_unavailable", "cancelled"}

ASSUME NoneAssumption == None \notin Int /\ None \notin States \cup Outcomes

Row == [state: States \cup {None}, outcome: Outcomes \cup {None}]
UnusedRow == [state |-> None, outcome |-> None]

\* run is escalation_run_id.
Cycle == [status: {"OPEN", "BLOCKED", "PASSED", "ESCALATED"}, at: Commits,
          run: Runs \cup {None}, closed: BOOLEAN, reopened: BOOLEAN,
          kind: {"provider", "audit"}]

ASSUME NoneIsNoCycle == None \notin Cycle

\* "stopping" has decided a stop that is no park and has yet to record it;
\* "parked" and "shell" have parked the run, the loop itself or the shell after
\* a Denial; "writing" is the shell about to write the cycle side.
Stages == {"loop", "committed", "auditing", "stopping", "parked", "shell",
           "writing", "finishing"}
Worker == [run: Runs \cup {None}, stage: Stages, cycle: Commits \cup {None},
           outcome: Outcomes \cup {None}]
IdleWorker == [run |-> None, stage |-> "loop", cycle |-> None, outcome |-> None]

Person == [doing: {"nothing", "stopping", "settling", "retrying"},
           what: Runs \cup Commits \cup {None}]
AtRest == [doing |-> "nothing", what |-> None]

\* plan: what the snapshot says of the commit at: the cycle to escalate, None
\* when a cycle has to be created, or Leave.
Leave == -1
Sweep == [stage: {"idle", "healing", "deciding", "writing"}, heal: SUBSET Runs,
          at: Commits, plan: Commits \cup {None, Leave}, row: Runs \cup {None}]
IdleSweep == [stage |-> "idle", heal |-> {}, at |-> 0, plan |-> None, row |-> None]

TypeOK ==
  /\ rows \in [Runs -> Row]
  /\ cycles \in [Commits -> Cycle \cup {None}]
  /\ head \in Commits
  /\ worker \in Worker
  /\ person \in Person
  /\ sweep \in Sweep
  /\ noted \in 0..MaxRuns
  /\ commands \in 0..MaxCommands
  /\ deaths \in 0..MaxDeaths

Init ==
  /\ rows = [r \in Runs |-> UnusedRow]
  /\ cycles = [c \in Commits |-> None]
  /\ head = 0
  /\ worker = IdleWorker
  /\ person = AtRest
  /\ sweep = IdleSweep
  /\ noted = 0
  /\ commands = 0
  /\ deaths = 0

-----------------------------------------------------------------------------
(* The two stores. *)

Known == {c \in Commits : cycles[c] # None}
Started == {r \in Runs : rows[r].state # None}
Latest(r) == r \in Started /\ \A q \in Started : q <= r

SetRow(r, state, outcome) ==
  rows' = [rows EXCEPT ![r] = [state |-> state, outcome |-> outcome]]

\* A write of an escalation is logged with its time.
Noted == noted' = Cardinality(Started)

Pending(cycle, r, kind) ==
  [cycle EXCEPT !.status = "ESCALATED", !.kind = kind,
                !.run = IF r = None THEN @ ELSE r]

Escalatable(c) == c \in Known /\ cycles[c].status # "PASSED"

\* StateStore.escalate: a Denial leaves the store alone.
Escalate(c, r, kind) ==
  IF Escalatable(c)
  THEN cycles' = [cycles EXCEPT ![c] = Pending(@, r, kind)] /\ Noted
  ELSE UNCHANGED <<cycles, noted>>

NewCycle == [status |-> "OPEN", at |-> head, run |-> None, closed |-> FALSE,
             reopened |-> FALSE, kind |-> "audit"]

\* Mutant of Anchorable: a recorded PASS at the anchor is not looked at.
AnchorableAnyStatus(n) == n \in Known => cycles[n].at = n

\* record_build_escalation writes the cycle whose id is the anchor's.
Anchorable(n) ==
  n \in Known => cycles[n].at = n /\ cycles[n].status # "PASSED"

AnchorEscalation(n, r, kind) ==
  IF Anchorable(n)
  THEN /\ cycles' = [cycles EXCEPT ![n] =
            Pending(IF n \in Known THEN @ ELSE [NewCycle EXCEPT !.at = n], r, kind)]
       /\ Noted
  ELSE UNCHANGED <<cycles, noted>>

-----------------------------------------------------------------------------
(* The worker. *)

At(r, stage) == worker.run = r /\ worker.stage = stage

Finishing(outcome) ==
  worker' = [worker EXCEPT !.stage = "finishing", !.outcome = outcome]

\* The slot is free and no run is active; routing may be committed first.  A
\* continuation needs a cycle a person reopened.
Start(r, c, routed) ==
  /\ worker.run = None
  /\ rows[r].state = None /\ \A q \in Runs : q < r => rows[q].state # None
  /\ \A q \in Runs : rows[q].state \notin Active
  /\ c # None => c \in Known /\ cycles[c].status = "OPEN" /\ cycles[c].reopened
  /\ person.doing = "retrying" => c = person.what
  /\ head + routed <= MaxCommits
  /\ head' = head + routed
  /\ SetRow(r, "WORKING", None)
  /\ worker' = [IdleWorker EXCEPT !.run = r, !.cycle = c]
  /\ person' = IF person.doing = "retrying" THEN AtRest ELSE person
  /\ UNCHANGED <<cycles, sweep, noted, commands, deaths>>

\* The round's files are committed; the loop spoke before, and was not refused.
Commit(r) ==
  /\ At(r, "loop") /\ rows[r].state = "WORKING"
  /\ head < MaxCommits
  /\ head' = head + 1
  /\ worker' = [worker EXCEPT !.stage = "committed"]
  /\ UNCHANGED <<rows, cycles, person, sweep, noted, commands, deaths>>

\* cmd_run with a continuation: the cycle moves on to the new commit.
Continue(r) ==
  LET c == worker.cycle IN
  /\ At(r, "committed") /\ c # None
  /\ IF \/ cycles[c].status = "BLOCKED"
        \/ cycles[c].status = "OPEN" /\ cycles[c].reopened
     THEN /\ cycles' = [cycles EXCEPT ![c].status = "OPEN", ![c].at = head,
                                      ![c].reopened = FALSE]
          /\ worker' = [worker EXCEPT !.stage = "auditing"]
     ELSE Finishing("refused") /\ UNCHANGED cycles
  /\ UNCHANGED <<rows, head, person, sweep, noted, commands, deaths>>

\* cmd_run without one: open_or_advance.  A cycle on this commit, else one on
\* its parent, decides; a pending decision ends the run, with a decision object
\* of its own for a refused child.
Open(r) ==
  LET here  == {c \in Known : cycles[c].at = head /\ cycles[c].status # "PASSED"}
      below == {c \in Known : cycles[c].at = head - 1 /\ cycles[c].status # "PASSED"}
      near  == IF here # {} THEN here ELSE below
  IN
  /\ At(r, "committed") /\ worker.cycle = None
  /\ \/ /\ near = {}
        /\ cycles' = [cycles EXCEPT ![head] = NewCycle]
        /\ worker' = [worker EXCEPT !.stage = "auditing", !.cycle = head]
        /\ UNCHANGED noted
     \/ \E c \in near :
          /\ cycles[c].status # "ESCALATED"
          /\ cycles' = [cycles EXCEPT ![c].status = "OPEN", ![c].at = head]
          /\ worker' = [worker EXCEPT !.stage = "auditing", !.cycle = c]
          /\ UNCHANGED noted
     \/ \E c \in near :
          /\ cycles[c].status = "ESCALATED"
          /\ IF cycles[c].at = head THEN UNCHANGED <<cycles, noted>>
             ELSE AnchorEscalation(head, None, "audit")
          /\ Finishing("escalated")
  /\ UNCHANGED <<rows, head, person, sweep, commands, deaths>>

\* The report is committed, which moves HEAD, and then the verdict is recorded:
\* an escalation by verdict names no run.
Verdict(r, status) ==
  LET c == worker.cycle IN
  /\ At(r, "auditing") /\ head < MaxCommits
  /\ head' = head + 1
  /\ IF cycles[c].at = head
     THEN /\ cycles' = [cycles EXCEPT ![c].status = status, ![c].kind = "audit"]
          /\ IF status = "ESCALATED" THEN Noted ELSE UNCHANGED noted
     ELSE UNCHANGED <<cycles, noted>>
  /\ CASE status = "PASSED"    -> Finishing("passed")
       [] status = "ESCALATED" -> Finishing("escalated")
       [] OTHER -> worker' = [worker EXCEPT !.stage = "loop"]
  /\ UNCHANGED <<rows, person, sweep, commands, deaths>>

\* The loop stops for a reason that is no provider wait.
Stop(r) ==
  /\ At(r, "loop")
  /\ worker' = [worker EXCEPT !.stage = "stopping"]
  /\ UNCHANGED <<rows, cycles, head, person, sweep, noted, commands, deaths>>

\* A Denial the shell makes a refusal.  A commit without science has its
\* decision object minted by cmd_run itself.
Refuse(r, noScience) ==
  /\ \E stage \in {"loop", "committed", "auditing"} : At(r, stage)
  /\ noScience => At(r, "committed")
  /\ IF noScience THEN AnchorEscalation(head, r, "audit")
     ELSE UNCHANGED <<cycles, noted>>
  /\ Finishing("refused")
  /\ UNCHANGED <<rows, head, person, sweep, commands, deaths>>

\* A provider failure: run side first.  The loop parks for itself, from the
\* generator or the auditor; the shell parks what came out of the loop.  The
\* journal refuses a run the user is cancelling.
Park(r, byShell) ==
  /\ At(r, "loop") \/ (At(r, "auditing") /\ ~byShell)
  /\ IF rows[r].state = "WORKING"
     THEN /\ SetRow(r, "PROVIDER_UNAVAILABLE", None)
          /\ worker' = [worker EXCEPT !.stage = IF byShell THEN "shell" ELSE "parked"]
     ELSE Finishing("cancelled") /\ UNCHANGED rows
  /\ UNCHANGED <<cycles, head, person, sweep, noted, commands, deaths>>

\* Mutant of RecordDecision: the loop goes on after it recorded a stop.
RecordDecisionGoesOn(r) ==
  /\ At(r, "stopping") \/ At(r, "parked")
  /\ IF worker.cycle # None THEN Escalate(worker.cycle, r, "audit")
     ELSE AnchorEscalation(head, r, "audit")
  /\ IF At(r, "parked") THEN Finishing("provider_unavailable")
     ELSE worker' = [worker EXCEPT !.stage = "loop"]
  /\ UNCHANGED <<rows, head, person, sweep, commands, deaths>>

\* record_decision_object: for a stop cycle first, for a park run first.
RecordDecision(r) ==
  LET kind == IF At(r, "parked") THEN "provider" ELSE "audit" IN
  /\ At(r, "stopping") \/ At(r, "parked")
  /\ IF worker.cycle # None THEN Escalate(worker.cycle, r, kind)
     ELSE AnchorEscalation(head, r, kind)
  /\ Finishing(IF At(r, "parked") THEN "provider_unavailable" ELSE "escalated")
  /\ UNCHANGED <<rows, head, person, sweep, commands, deaths>>

\* What a snapshot says of the cycle standing on HEAD; a park and a sweep take
\* the first they meet.
Plans ==
  LET here == {c \in Known : cycles[c].at = head} IN
  IF here = {} THEN {None}
  ELSE {IF cycles[c].status \in {"ESCALATED", "PASSED"} \/ cycles[c].closed
        THEN Leave ELSE c : c \in here}

\* _record_park_cycle reads the run, HEAD and a snapshot, and then writes.
ShellReads(r) ==
  /\ At(r, "shell")
  /\ \/ /\ rows[r].state # "PROVIDER_UNAVAILABLE" \/ Leave \in Plans
        /\ Finishing("provider_unavailable")
     \/ \E plan \in Plans \ {Leave} :
          /\ rows[r].state = "PROVIDER_UNAVAILABLE"
          /\ worker' = [worker EXCEPT !.stage = "writing", !.cycle = plan]
  /\ UNCHANGED <<rows, cycles, head, person, sweep, noted, commands, deaths>>

ShellWrites(r) ==
  /\ At(r, "writing")
  /\ IF worker.cycle # None THEN Escalate(worker.cycle, r, "provider")
     ELSE AnchorEscalation(head, r, "provider")
  /\ Finishing("provider_unavailable")
  /\ UNCHANGED <<rows, head, person, sweep, commands, deaths>>

\* Mutant of Settled: the word for the outcome is stored as the state.
SettledAsOutcome(outcome) == outcome

Settled(outcome) ==
  CASE outcome = "passed" -> "PASSED"
    [] outcome = "provider_unavailable" -> "PROVIDER_UNAVAILABLE"
    [] outcome = "cancelled" -> "CANCELLED"
    [] OTHER -> "WAITING_FOR_HUMAN"

\* finish, and the slot is given back.  A cancellation wins; a run already
\* settled stays as it is.
Finish(r) ==
  LET outcome == IF rows[r].state = "CANCELLING" THEN "cancelled" ELSE worker.outcome IN
  /\ At(r, "finishing")
  /\ IF rows[r].state \in Active \cup {"PROVIDER_UNAVAILABLE"}
     THEN SetRow(r, Settled(outcome), outcome) ELSE UNCHANGED rows
  /\ worker' = IdleWorker
  /\ UNCHANGED <<cycles, head, person, sweep, noted, commands, deaths>>

-----------------------------------------------------------------------------
(* The person. *)

Command == commands < MaxCommands /\ commands' = commands + 1
Free == person.doing = "nothing"

\* RunCommandService.request_cancel: a parked run is settled at once, and then
\* the decisions that name it are closed.
RequestCancel(r) ==
  /\ Free /\ Command
  /\ \/ /\ rows[r].state = "WORKING"
        /\ SetRow(r, "CANCELLING", None)
        /\ UNCHANGED person
     \/ /\ rows[r].state = "PROVIDER_UNAVAILABLE"
        /\ SetRow(r, "CANCELLED", "cancelled")
        /\ person' = [doing |-> "stopping", what |-> r]
  /\ UNCHANGED <<cycles, head, worker, sweep, noted, deaths>>

Closed(cycle) ==
  [cycle EXCEPT !.status = "BLOCKED", !.closed = TRUE, !.reopened = FALSE]

\* Mutant of CloseParkEscalations: only the cycle at HEAD is looked at.
CloseParkEscalationAtHead ==
  /\ person.doing = "stopping"
  /\ cycles' = [c \in Commits |->
       IF /\ c \in Known /\ cycles[c].status = "ESCALATED"
          /\ cycles[c].run = person.what /\ cycles[c].at = head
       THEN Closed(cycles[c]) ELSE cycles[c]]
  /\ person' = AtRest
  /\ UNCHANGED <<rows, head, worker, sweep, noted, commands, deaths>>

CloseParkEscalations ==
  /\ person.doing = "stopping"
  /\ cycles' = [c \in Commits |->
       IF c \in Known /\ cycles[c].status = "ESCALATED" /\ cycles[c].run = person.what
       THEN Closed(cycles[c]) ELSE cycles[c]]
  /\ person' = AtRest
  /\ UNCHANGED <<rows, head, worker, sweep, noted, commands, deaths>>

DismissInterruption(r) ==
  /\ Free /\ Command
  /\ rows[r].state = "INTERRUPTED"
  /\ SetRow(r, "CANCELLED", "cancelled")
  /\ UNCHANGED <<cycles, head, worker, person, sweep, noted, deaths>>

\* resolve_escalation close, and then settle_closed_escalation.
Close(c) ==
  /\ Free /\ Command
  /\ c \in Known /\ cycles[c].status = "ESCALATED"
  /\ cycles' = [cycles EXCEPT ![c] = Closed(@)]
  /\ person' = IF cycles[c].run = None THEN AtRest
               ELSE [doing |-> "settling", what |-> cycles[c].run]
  /\ UNCHANGED <<rows, head, worker, sweep, noted, deaths>>

\* Mutant of SettleClosed: only a run that still works is settled.
SettleClosedWorking ==
  /\ person.doing = "settling"
  /\ IF rows[person.what].state = "WORKING"
     THEN SetRow(person.what, "CANCELLED", "cancelled") ELSE UNCHANGED rows
  /\ person' = AtRest
  /\ UNCHANGED <<cycles, head, worker, sweep, noted, commands, deaths>>

SettleClosed ==
  /\ person.doing = "settling"
  /\ IF rows[person.what].state = "PROVIDER_UNAVAILABLE"
     THEN SetRow(person.what, "CANCELLED", "cancelled") ELSE UNCHANGED rows
  /\ person' = AtRest
  /\ UNCHANGED <<cycles, head, worker, sweep, noted, commands, deaths>>

\* resolve_escalation reopen: the reference goes.  The retry of a provider
\* failure goes on to start the run again.
Reopen(c, retry) ==
  /\ Free /\ Command
  /\ c \in Known /\ cycles[c].status = "ESCALATED"
  /\ retry => cycles[c].kind = "provider"
  /\ cycles' = [cycles EXCEPT ![c].status = "OPEN", ![c].reopened = TRUE,
                              ![c].run = None]
  /\ person' = IF retry THEN [doing |-> "retrying", what |-> c] ELSE AtRest
  /\ UNCHANGED <<rows, head, worker, sweep, noted, deaths>>

\* The retry could not start: the cycle is escalated again, naming no run.
RetryRefused ==
  /\ person.doing = "retrying"
  /\ Escalate(person.what, None, "provider")
  /\ person' = AtRest
  /\ UNCHANGED <<rows, head, worker, sweep, commands, deaths>>

-----------------------------------------------------------------------------
(* The watchdog. *)

\* recover_abandoned, in the terms of RunJournal: the worker is gone.
Recover(r) ==
  /\ rows[r].state \in Active /\ worker.run # r
  /\ rows' = [rows EXCEPT ![r].state =
       IF rows[r].state = "CANCELLING" THEN "CANCELLED" ELSE "INTERRUPTED"]
  /\ UNCHANGED <<cycles, head, worker, person, sweep, noted, commands, deaths>>

\* Mutant of Completable: a decision that names a run completes it only if it
\* is the newest.
CompletableNewest ==
  {r \in Runs : /\ rows[r].state = "INTERRUPTED" /\ Latest(r) /\ noted >= r
                /\ \E c \in Known : cycles[c].status = "ESCALATED" /\ cycles[c].run = None}

\* Direction A: interrupted runs a pending decision names, and the newest row
\* for one that names none, when an escalation was logged since that row began.
Completable ==
  {r \in Runs : /\ rows[r].state = "INTERRUPTED"
                /\ \E c \in Known : /\ cycles[c].status = "ESCALATED"
                                    /\ \/ cycles[c].run = r
                                       \/ cycles[c].run = None /\ Latest(r) /\ noted >= r}

\* The rows and the cycle store are read.
Survey ==
  /\ sweep.stage = "idle"
  /\ Started # {}
  /\ \E plan \in Plans :
       sweep' = [stage |-> "healing", heal |-> Completable, at |-> head,
                 plan |-> plan, row |-> None]
  /\ UNCHANGED <<rows, cycles, head, worker, person, noted, commands, deaths>>

\* complete_human_wait looks at the row again.
CompleteHumanWait(r) ==
  /\ sweep.stage = "healing" /\ r \in sweep.heal
  /\ IF rows[r].state = "INTERRUPTED"
     THEN SetRow(r, "WAITING_FOR_HUMAN", "escalated") ELSE UNCHANGED rows
  /\ sweep' = [sweep EXCEPT !.heal = @ \ {r}]
  /\ UNCHANGED <<cycles, head, worker, person, noted, commands, deaths>>

\* Outcomes whose writers left no decision object behind.
CycleLess(r) ==
  /\ rows[r].state \in Waiting
  /\ rows[r].outcome \in {None, "refused", "provider_unavailable"}

\* Mutant of LookAtLatest: a row parked by a worker that died before it finished
\* is passed over.
LookAtLatestFinished ==
  /\ sweep.stage = "healing" /\ sweep.heal = {}
  /\ \E r \in Runs :
       /\ Latest(r)
       /\ sweep' = IF CycleLess(r) /\ rows[r].outcome # None
                   THEN [sweep EXCEPT !.stage = "deciding", !.row = r]
                   ELSE IdleSweep
  /\ UNCHANGED <<rows, cycles, head, worker, person, noted, commands, deaths>>

\* Direction B looks at the newest row, then at HEAD.
LookAtLatest ==
  /\ sweep.stage = "healing" /\ sweep.heal = {}
  /\ \E r \in Runs :
       /\ Latest(r)
       /\ sweep' = IF CycleLess(r)
                   THEN [sweep EXCEPT !.stage = "deciding", !.row = r]
                   ELSE IdleSweep
  /\ UNCHANGED <<rows, cycles, head, worker, person, noted, commands, deaths>>

\* A commit made after the snapshot has no cycle in it.
Decide ==
  LET plan == IF head = sweep.at THEN sweep.plan ELSE None IN
  /\ sweep.stage = "deciding"
  /\ sweep' = IF plan = Leave THEN IdleSweep
              ELSE [sweep EXCEPT !.stage = "writing", !.at = head, !.plan = plan]
  /\ UNCHANGED <<rows, cycles, head, worker, person, noted, commands, deaths>>

\* A run that waits for a person never leaves that state.
SweepKind(r) ==
  IF rows[r].state = "WAITING_FOR_HUMAN" THEN "audit" ELSE "provider"

CompleteDecision ==
  /\ sweep.stage = "writing"
  /\ IF sweep.plan # None THEN Escalate(sweep.plan, sweep.row, SweepKind(sweep.row))
     ELSE AnchorEscalation(sweep.at, sweep.row, SweepKind(sweep.row))
  /\ sweep' = IdleSweep
  /\ UNCHANGED <<rows, head, worker, person, commands, deaths>>

-----------------------------------------------------------------------------
(* Deaths.  The console is started again at once. *)

Death == deaths < MaxDeaths /\ deaths' = deaths + 1

WorkerDies ==
  /\ Death
  /\ worker.run # None
  /\ worker' = IdleWorker
  /\ UNCHANGED <<rows, cycles, head, person, sweep, noted, commands>>

ConsoleDies ==
  /\ Death
  /\ person' = AtRest
  /\ sweep' = IdleSweep
  /\ UNCHANGED <<rows, cycles, head, worker, noted, commands>>

-----------------------------------------------------------------------------
WorkerSteps(r) ==
  \/ Commit(r) \/ Continue(r) \/ Open(r) \/ Stop(r)
  \/ \E status \in {"PASSED", "BLOCKED", "ESCALATED"} : Verdict(r, status)
  \/ \E b \in BOOLEAN : Park(r, b) \/ Refuse(r, b)
  \/ RecordDecision(r) \/ ShellReads(r) \/ ShellWrites(r) \/ Finish(r)

\* What a command still has to do once it has done its first half.
SecondHalf == CloseParkEscalations \/ SettleClosed

PersonSteps ==
  \/ \E r \in Runs : RequestCancel(r) \/ DismissInterruption(r)
  \/ \E c \in Commits : Close(c) \/ \E retry \in BOOLEAN : Reopen(c, retry)
  \/ SecondHalf \/ RetryRefused

SweepSteps ==
  \/ Survey \/ LookAtLatest \/ Decide \/ CompleteDecision
  \/ \E r \in Runs : Recover(r) \/ CompleteHumanWait(r)

Next ==
  \/ \E r \in Runs, c \in Commits \cup {None}, routed \in {0, 1} : Start(r, c, routed)
  \/ \E r \in Runs : WorkerSteps(r)
  \/ PersonSteps \/ SweepSteps
  \/ WorkerDies \/ ConsoleDies

\* The watchdog thread sweeps for as long as the console lives, and a command's
\* handler runs to its end.  Nothing is asked of the worker or the person.
Fairness ==
  /\ WF_vars(Survey) /\ WF_vars(LookAtLatest) /\ WF_vars(Decide)
  /\ WF_vars(CompleteDecision) /\ WF_vars(SecondHalf)
  /\ \A r \in Runs : WF_vars(Recover(r)) /\ WF_vars(CompleteHumanWait(r))

Spec == Init /\ [][Next]_vars /\ Fairness

-----------------------------------------------------------------------------
(* Properties. *)

\* A pending decision names the run, and is one of its own.
Names(c, r) == c \in Known /\ cycles[c].status = "ESCALATED" /\ cycles[c].run = r

\* A decision object is evidence about one stop (escalate's docstring): whatever
\* the worker, the shell and the sweep wrote from old reads, a run a cycle names
\* has stopped or is about to, and never goes on to pass.
DecisionNamesStopped ==
  \A c \in Known : cycles[c].run # None =>
    LET r == cycles[c].run IN
    /\ rows[r].state \notin {None, "PASSED"}
    /\ rows[r].state = "WORKING" /\ worker.run = r =>
         worker.stage = "finishing" /\ worker.outcome # "passed"

\* No writer of an escalation, least of all a sweep that acts on a snapshot from
\* before the verdict, turns a recorded PASS into a question for a person.
VerdictOutranks ==
  [][\A c \in Known : cycles[c].status = "PASSED" => cycles'[c].status = "PASSED"]_vars

\* The newest run waits for a person, and there is nothing to decide on: no
\* pending decision names it and HEAD holds no verdict, decision or ruling.
DecisionDue(r) ==
  /\ Latest(r) /\ CycleLess(r)
  /\ \A c \in Known : ~Names(c, r)
  /\ Leave \notin Plans

\* A death between the two writes of a park loses nothing: the person is given
\* the decision object in the end (reconcile_human_wait, direction B).
ParkGetsDecision == \A r \in Runs : DecisionDue(r) ~> ~DecisionDue(r)

\* A death between the two writes of a stop loses nothing: the run that was
\* interrupted is told as waiting for its decision (direction A).
TornStopHealed ==
  \A r \in Runs :
    (rows[r].state = "INTERRUPTED" /\ \E c \in Known : Names(c, r)) ~>
      ~(rows[r].state = "INTERRUPTED" /\ \E c \in Known : Names(c, r))

\* A parked run that goes on asking for a decision that was closed.
Unheard(r) ==
  /\ rows[r].state = "PROVIDER_UNAVAILABLE"
  /\ \E c \in Known : /\ cycles[c].closed /\ cycles[c].status = "BLOCKED"
                      /\ cycles[c].run = r

\* A ruling that closes the decision of a parked run reaches the run, unless a
\* death comes between (settle_closed_escalation).
RulingReachesRun == \A r \in Runs : Unheard(r) ~> ~Unheard(r) \/ deaths > 0

\* Stopping a parked run takes its decisions off the table, however many name
\* it, if neither its worker nor a sweep is between two writes about it.
StopClosesDecisions ==
  \A r \in Runs :
    (/\ person.doing = "stopping" /\ person.what = r
     /\ worker.run # r /\ sweep.row # r) ~>
      (\A c \in Known : ~Names(c, r)) \/ deaths > 0

-----------------------------------------------------------------------------
(* The contract of a run's life, RunLife.                                   *)

LifeOf(state) ==
  CASE state = "WORKING"              -> "working"
    [] state = "CANCELLING"           -> "cancelling"
    [] state = "PROVIDER_UNAVAILABLE" -> "parked"
    [] state = "WAITING_FOR_HUMAN"    -> "asking"
    [] state = "INTERRUPTED"          -> "interrupted"
    [] state = "CANCELLED"            -> "cancelled"
    [] state = "PASSED"               -> "passed"
    [] OTHER                          -> "unbegun"

Lives == [r \in Runs |-> LifeOf(rows[r].state)]

Life == INSTANCE RunLife WITH life <- Lives

\* With the cycle store written beside it, by whoever wrote or died between the
\* two, a run lives as RunLife says: no second half of a command, of a park or of
\* a sweep brings one back.
KeepsRunLife == Life!Spec

-----------------------------------------------------------------------------
(* Claims of the code's own documents; see the findings in the README. *)

\* "Complete a torn needs-a-human write, in either direction, exactly once"
\* (console/daemon.py:411): one stop, one decision object.
OneDecisionPerStop ==
  \A c, d \in Known, r \in Runs : Names(c, r) /\ Names(d, r) => c = d
=============================================================================
