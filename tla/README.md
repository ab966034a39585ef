# CrossAudit in TLA+

CrossAudit (4.17.0) is a local audit harness for generated work. A generator
model writes files into a Git repository; deterministic checks and then an
auditor model of another vendor review the committed result; a controller keeps
score, hands what it cannot decide to a person, and lets a passed result be
admitted once. Several operating-system processes take part (command line
builds, one or more consoles with watchdog threads, verifiers), and they meet
only in files: Git, a JSON state file, a SQLite journal, a hash-chained ledger
and a handful of lock files. This directory models that meeting.

Paths below are relative to `src/src/crossaudit/` unless they start with `docs/`
(that is `src/docs/`).

## 1. Inventory

| Component | State it keeps | Operations | Talks to |
|---|---|---|---|
| Cycle store, `controller/state.py` | `state.json`: one record per audit cycle (active commit, round, status, pinned rules, verdict rows, latest and consumed receipts) | `open_or_advance`, `continue_cycle`, `record_verdict`, `escalate`, `record_build_escalation`, `resolve_escalation`, `admit`, each under one lock file | every command |
| Commands, `cli/main.py`, `receipt/` | what one invocation remembers between two store transactions; receipts in Git | `run`, `audit`, `resolve`, `verify --admit` | store, Git, auditor |
| Run journal, `runtime/runs.py` | SQLite: `runs`, `run_events`, `run_messages`; leases and identity tokens | `start`, `append`, `heartbeat`, `finish`, `request_cancel`, `recover_abandoned`, `dismiss_interruption`, `complete_human_wait`, steering messages, retention | command shell, consoles |
| Command shell, `runtime/commands.py`, `pacing.py` | a worker thread per run; a phase-clock thread beside it | `start`, `_drive` and its exception paths, `_emit`, `_park_provider_unavailable`, the clock's tick | journal, build loop, slots |
| Slots and identity, `runtime/workspaces.py`, `processes.py` | one slot file per project, under a lock directory | acquire, release, liveness and identity probes | command shell |
| Build loop, `cli/build.py`, `file_identity.py` | rounds in memory; the working tree and the index while a revision is neither committed nor rolled back | generate, use a tool, apply, stage, screen, commit, audit, revise, stop | shell, store, providers, usage |
| Console watchdog, `console/server.py`, `daemon.py` | none of its own; a pass holds a snapshot | `liveness_watch`, `reconcile_human_wait`, `settle_closed_escalation`, HTTP handlers | journal, store |
| Evidence ledger, `ledger/chain.py` | hash-chained JSON lines, a lock file, a cached head per writer | append, verify | broker, receipts |
| Tool broker and approvals, `broker/`, `policy/` | one pending card per run, grants per run and per project, a token per run | execute, ask, answer, time out | build loop, console, ledger |
| Provider resilience, `providers/resilience.py` | circuit rows per provider and model | call with retries and fallback, reset | build loop, auditor |
| Usage, `usage.py` | a JSON-lines file of provider turns | record, attribute a round to its cycle, refuse over budget | build loop |
| Provider adapters, auditor, checks, receipts' cryptography, generator, documents | none shared between processes | pure functions and external calls | build loop, commands |
| Chats, projects, pages, transfers, HPC, MCP, setup | navigation files | console and command-line front ends | |

What is hard here, and what must hold because of it:

* **Cycle store.** Each mutation is atomic; a command is not. An audit opens a
  round, works for minutes and records a verdict in a second transaction;
  ancestry is proved on a copy read before the lock; a receipt is committed to
  Git before the store hears of it; two verifiers hold the same receipt. Needed:
  one admission per receipt, no status without the decision that justifies it,
  one standard and one decision per round, and a person's ruling that machines
  do not take for themselves.
* **Run journal.** A worker, its phase clock, the user and the sweeps of other
  processes all write one row. Sweeps probe the operating system with no lock
  held, processes die, pids return. Needed: one thread per project, no sweep
  over a worker that spoke, cancellations that stand and that finish, orphans
  that are settled.
* **Both together.** "Needs a person" lives in two stores written one after the
  other, by a worker that may die in between, and is completed by a watchdog that
  acts on what it read before. Needed: no stop without its decision, no decision
  about a run that went on, and a recorded PASS that stays one.
* **Lock files.** Three of them are broken by age, by whoever looks.
* **Ledger and broker.** Torn tails, a cached head, a lock broken by age; an
  append between any two steps of a tool call; answers that name the run and not
  the call. Needed: no effect without its record and its consent, one chain.
* **Build loop.** Refusals of many kinds, each with its own rollback and its own
  memory of what to tell the generator, in an index the user shares. Needed: what
  is refused is gone, what is committed was screened, what the generator must
  know stays before it, and the loop ends.
* **Resilience.** Retries, fallbacks and a breaker whose count outlives its
  cool-down; counters under a lock of one process only.

`PROJECT.json` lists each of these as a hazard at its line, with the properties
that cover it or the reason none does yet.

## 2. Modules and plan

| Module | Models | Proofs |
|---|---|---|
| `Approvals` | the abstract life of an approval: minted, in force, spent once, withdrawn | |
| `RunLife` | the abstract life of a run: begun one at a time, parked, cancelled, settled | |
| `AtomicLog` | an append-only log whose appends take effect at one moment | |
| `CycleStore` | the cycle store and the commands as sequences of its transactions | `CycleStoreProofs` |
| | that it implements `Approvals` | `ApprovalsProofs` |
| `RunJournal` | journal, worker, phase clock, user, sweeps, slot, crashes; that it implements `RunLife`, the phase clock aside | `RunJournalProofs` |
| `HumanWait` | journal and store together: the two-store writes of a stop and of a park, and the watchdog that completes them; that it implements `RunLife` | `HumanWaitProofs` |
| `EvidenceLedger` | the ledger file operation by file operation, under a lock file that can be stolen; that it implements `AtomicLog` until it is | `EvidenceLedgerProofs` |
| `GovernedTools` (extends `EvidenceLedger`) | broker, approval gate, authorizations, receipt evidence, over the ledger | `GovernedToolsProofs` |
| `Resilience` | the routes and circuits of one provider turn | |
| `BuildLoop` (extends `Resilience`) | rounds, guidance, tools, revisions, screens, commits, audits, over the provider turn | `BuildLoopProofs` |
| `MC...` | instances for TLC | |

The order followed the weight of the promise: first what decides whether work
enters the record (`CycleStore`), then what keeps a project from being stuck or
worked on twice (`RunJournal`), then their composition (`HumanWait`), then what
tools may do and what is on record about it (`GovernedTools`), then the loop that
makes the work (`BuildLoop`).

Left for later, in this order: `prune_terminal_runs` beside the messages it
forgets (`runtime/runs.py:1110`); the start and stop of the console process; the
amounts of the usage budgets; receipts' sealing beyond the tool evidence.

How the models meet. `RunJournal` and `HumanWait` look at the same runs, one from
the side of threads, leases and probes, the other from the side of what a person is
asked; `RunLife` is the contract both are shown to keep. `HumanWait` repeats the two
stores with the columns its
writers read; its `Recover` stands for `RunJournal`'s sweep, its `Open`,
`Continue` and `Verdict` for `CycleStore`'s transactions. `BuildLoop` ends where
`HumanWait` begins: its `Return` after a stop is `HumanWait`'s `Stop` or `Park`,
and its `Audit` is `CycleStore`'s audit. `GovernedTools` is what happens inside
`BuildLoop`'s `UseTool`.

## 3. CycleStore

| Variable | Code |
|---|---|
| `cycles` | `state.json` "cycles". With one repository a cycle id is a hash of its root commit, so cycles are indexed by root |
| `audits` | the locals of one `cmd_run` or `cmd_audit`: the cycle and round it opened, the pin and rules it applies, its verdict; `stage` is where it stands between transactions |
| `verifying` | the receipt a `verify --admit` verified and has not yet admitted |
| `admissions`, `stops` | history, for properties and for the bound |

`open_or_advance` is one action per branch that leads to an audit or writes:
`ResumeOpenRound`, `ReadvanceSameSha`, `AdvanceToChild`, `RefusedByEscalation`,
`OpenCycle`. Its two scans over the sorted map are `FirstOf(Standing(sha))` and
`FirstOf(Extended(sha))`, with `Rank` the order of the ids: where two cycles
stand on one commit, a hash decides. A continuation is `ProveAncestry` (no lock),
then `ContinueCycle` or `ContinuationRefused`. The end of an audit is
`MintReceipt` (report and receipt in Git), then `RecordVerdict` or
`VerdictNotRecorded`. `Escalate`, `RecordBuildEscalation` and `RecordLock` put a
decision before a person, `Reopen` and `Close` are the rulings. `Verify` checks a
receipt's bindings on a snapshot and `Admit` consumes it. A raise inside the
locked block discards the record in memory, so a refusal changes nothing. An
invocation that dies is one whose next action never comes; nothing is fair.

Abstractions. The verdict of the checks and the auditor is arbitrary;
`DCL_ONLY` is stored as `ESCALATE` is. A receipt is named by the audit that
minted it, its digest taken as injective. Commit ancestry is a constant graph.
Verdict rows are a set: the code appends and never reads by position. Branches
that return without an audit or a write are stutters. An `audit` refused by a
pending decision still audits and mints a receipt that no verdict row will
carry; that receipt cannot verify or be admitted, so the model keeps only what
it writes to the store (`RefusedByEscalation`, `RecordLock`). Reasons, kinds,
chat ids and timestamps are left out. The lock file is taken as mutual
exclusion; see the hazards on its stale break.

### Runs

`cycle_store` (`MCCycleStore.cfg`, 806,187 distinct states): two commits, a root
and a revision made directly on it; the revision can come as a child or as a
named continuation, and its cycle sorts first, so that both scans have a choice.
Three audits, two verifiers, two commits of the constitution, a budget of two
rounds. Symmetry permutes audits, verifiers and rules; nothing orders them, and
only safety is checked.

* Three audits: two that race on one round and a third that moves the cycle on.
* `MaxRounds = 2`: a blocked round with budget left, and the last one.
* `RoundCap = 3` (bound): one round beyond the budget, which reopening reaches.
* `MaxStops = 1` (bound): one build-level stop anywhere in the schedule.

Safety: `AdmittedOnce`, `PassIsBacked`, `OneStandardPerCycle`,
`OneDecisionPerRound`, `SpentBudgetEscalates`. Steps: `PassStands` and
`RulingRequired`. Refinement: `ImplementsApprovals`. The two step properties
except the one step that replaces a cycle by a fresh one under the same id; that
step is the subject of a finding. `RulingRequired` speaks of escalations that
rest on a recorded verdict: a build-level stop on a round still under audit is
overtaken by that audit's verdict, which is what `record_verdict` is written to
do.

### What it implements

`Approvals` is what a reader who publishes on the store's word relies on, with
no rounds, statuses or commits: a receipt says one thing for ever; a cycle
stands on at most one approval, which never replaces another one in force; an
approval is spent at most once, while it is the one in force. `CycleStore` maps
to it by `Said` (a receipt's verdict), `InForce` (the receipt of a cycle that is
PASSED or CONSUMED), `Endorsed` (receipts whose PASS was recorded) and
`admissions`. `ImplementsApprovals` is the abstract specification under that
mapping, a property of the `cycle_store` run and a theorem of `ApprovalsProofs`.
`Withdraw` is needed for the one step a finding is about: a cycle started over
under its own id loses its approval.

## 4. RunJournal

| Variable | Code |
|---|---|
| `rows` | the `runs` table: state, owner pid, whether an identity token is stored, the age of the lease in three steps (live, run out, silent for the stall window) |
| `workers` | the thread in `_drive`: its stage, the state it narrated last, whether a repair is due, the outcome it chose |
| `pacing` | the phase clock: the state it captured and has not appended |
| `sweeps` | per process, what `recover_abandoned` decided to reclaim and has not written |
| `slot` | the pid in the project's slot file |
| `up`, `crashes` | the operating system |

The transition table is `Transitions`; `append` is `Emit`/`EmitRefused`, with
`Narration` the states `run_loop` can say next. `_drive` is split where it gives
up its transaction: `Return`, `Deny` or `Fail` read the state and choose an
outcome, `Park` tries the provider park, `Finish`/`FinishRefused` write, and
`Release` is the finally clause that removes the slot file. A refused finish
takes the handler the code takes: from the loop's return it falls to the last
handler, from a handler it leaves the row. `PacerWakes` and `PacerAppends` are
the clock's read and its later write. `Survey` is the part of
`recover_abandoned` that reads rows and probes without a lock; `Recover` is the
transaction at its end, which reads the rows again.

Abstractions, each with its reason:

* `Survey` merges the snapshot and the probes. In between, a row is changed only
  by its worker (then its heartbeat advanced and the sweep passes it over, which
  `Heard` says by dropping it from the pending set) or by the user (and `Recover`
  reads the state again).
* An identity token is modelled by what it tells: whether the process with the
  owner's pid is the one that started the run. Whether a process could attest
  itself, and whether the system answers a probe, is an arbitrary choice.
* `Start` joins the slot's claim and the row's insert (`NoActiveRun` is the query
  in its transaction); when the insert is refused
  the slot is given back, and all another start could see meanwhile is a refusal.
* The stall window is tracked only for a run being cancelled, the only place
  `recover_abandoned` asks for it. `mark_stalled_runs` changes no state.
* `WAITING_FOR_PROVIDER` is in the table and reached by no caller.
* Steering messages are in `BuildLoop`, which reads them. Retention is not
  modelled.

Fairness. `WF(SweepSteps(p))` for each console pid: the watchdog thread loops
until the process stops (`console/server.py`, `liveness_watch`).
`WF(Tick(r))`: time passes. Nothing is asked of a worker, which may hang in a
provider call for ever; of the user; or of a restart. A console that is dead is
not fair, and the liveness properties say so: what they promise is promised
while a console is up.

### Runs

`run_journal` (`MCRunJournal.cfg`, 169,340 distinct states): one run, two pids,
one of them a console, `MaxCrashes = 2` (bound), so that the worker's process and
the console can both die and either pid can return. Checks `LiveWorkerKept`,
`KeepsRunLife` and the two liveness properties `CancelCompletes` and
`AbandonedSettled`. No symmetry, because of liveness. One bound is in a guard:
a worker renews its lease once after a cancellation was requested. A worker that
renews for ever is alive and reaches its next event, where the journal refuses
it; the bound stands for that.

`two_runs` (`MCTwoRuns.cfg`, 964,069 distinct states): two runs one after the
other in one console. The first may be cancelled by force under its own thread,
which frees the journal row; `OneThread` holds all the same because the slot file
stays until that thread's finally clause. `KeepsRunLife` is checked here too, where
a second run can begin under the first. One pid is the sharp case: with two,
the slot's owner is the more easily seen to be alive.

The system may rest in both models (all work done, nobody asks for more), so
deadlock is not checked.

### What it implements

`RunLife` is what the rest of the product relies on when it reads a run, with no
phases, owners, leases or heartbeats: runs begin in order and one at a time; a
cancellation that was asked for ends the run CANCELLED or FAILED; a parked run does
not go on by itself; what passed, was cancelled or asks a person stays. `Lives` maps
a row to its life (`LifeOf`); `Begin` is `Start`, `Move` any write of a worker or a
person that changes the life, `Reclaim` a sweep's transaction, which may settle
several runs. The phase clock breaks the contract in one way, which a finding is
about: it moves a parked row back to work (`ClockRevives`). `KeepsRunLife` says that
every other step of the journal is one of `RunLife`. It implies `CancelStands` and
`SettledOnce`, which are stated for the reader and proved, and not run.

## 5. HumanWait

| Variable | Code |
|---|---|
| `rows` | the `runs` table, by the order of start: state and outcome, `WORKING` for every state a worker narrates |
| `cycles` | `state.json`: status, active commit, `escalation_run_id` (`run`), `closed_by_human`, `human_reopened`, and whether the escalation is a provider wait |
| `head` | HEAD of the project |
| `worker` | the thread of `_drive` and `run_loop`: where it stands between its writes to the two stores |
| `person` | what the second half of `request_cancel`, of a ruling or of a retry still has to do |
| `sweep` | what a pass of `reconcile_human_wait` holds: the rows to complete, the HEAD and plan of its snapshot, the row it looked at |
| `noted` | the log line of the newest escalation, by the runs that had started |

A stop for a person writes the cycle first and the run at its end
(`RecordDecision`, `Finish`); a provider wait parks the run first and writes the
cycle after (`Park`, then `RecordDecision` in the loop, or `ShellReads` and
`ShellWrites` in the shell). Between any two of these the worker may die, the
person may stop, close, reopen or retry, and HEAD may move. The watchdog's pass is
`Survey` (rows and cycles), `CompleteHumanWait` for the rows of direction A,
`LookAtLatest`, `Decide` and `CompleteDecision` for direction B, in that order;
everything it does after `Survey` it does from memory, except that the journal and
the store look again inside their own transactions, as the code does.

Abstractions. HEAD only moves forward. Every run has a task of its own, so the
reconciler's match by chat and task, made for runs from before run ids were
recorded, finds nothing. Rows and cycles are read in one step: what changes
between the two reads could as well have changed before the first or after the
second, since each later write looks at its store again. A pass keeps the plan of
the HEAD it saw and treats any later commit as one without a cycle, because its
snapshot has none. The one second of slack in `recorded_since` is dropped. A row
revived by the phase clock is `RunJournal`'s subject; failed and interrupted ends
of a worker that is not dead too. One person acts at a time, and a console that
died is started again at once.

`human_wait` (`MCHumanWait.cfg`, 226,784 distinct states): `MaxRuns = 2`, the one
that stops and a later one that makes it no longer the newest; `MaxCommits = 2`,
a round's commit and the report's, so that a verdict is possible and HEAD can move
between a park and its completion; `MaxCommands = 1` and `MaxDeaths = 1`, one
person's command and one death anywhere in the schedule. A second death adds a
death during the repair of the first; the repair's own steps are the watchdog's,
which starts over from the stores. Checks `DecisionNamesStopped`,
`VerdictOutranks`, and the liveness properties `ParkGetsDecision` (direction B),
`TornStopHealed` (direction A), `RulingReachesRun` and `StopClosesDecisions`.

`KeepsRunLife` here is `RunLife`'s whole specification, with no exception, since a
row the clock revives is left to `RunJournal`: no torn write, ruling, retry or
reconciling pass brings a run back. It is a theorem, and not a property of the run.

Fairness. Each step of a pass, and the recovery of an abandoned run:
`liveness_watch` repeats for as long as the console lives, and survives an
exception of a pass. The second half of a command: its handler runs to the end
unless the console dies, and then the properties about it say `deaths > 0`.
Nothing is asked of the worker or of the person.

## 6. EvidenceLedger and GovernedTools

| Variable | Code |
|---|---|
| `entries`, `half` | the lines of the JSONL file, and an unterminated one at its end |
| `lock`, `stale` | the `O_EXCL` lock file: who made it, and whether it is older than `_LOCK_STALE_S` |
| `writer` | each ledger object: where it is in `append`, its cached head and the size it was cached at |
| `job`, `granted` | a call in `ToolBroker.execute` between two appends; the token of the run |
| `pending`, `decided`, `runGrants` | the inbox of the human gate: card, decision, grants for a run |
| `auth` | `authorizations.json`: the switch for writing tools, tools approved for the project |
| `stopped`, `receipt` | runs being cancelled; what a receipt says of tools |

`append` is `AppendEntry`, then `TakeLock` or `SeeStaleLock`/`BreakLock` or
`GiveUp`, then `Write`, then `ReleaseLock`: the lock's age is read in one call and
the file removed in the next, by a waiter and by the holder who leaves alike, and
nobody looks whose file it is. `Write` may write in part; `append` does not
notice. A call of the broker is `Propose`, `Decide`, `Approve` or `Ask` and what
ends the wait (`TakeAnswer`, `TimeOut`, `SeeStopped` and `TurnAway`), `RunTool`,
`Report`; each but the last calls `append` and the next waits for its result.
`Mint` is `_tool_evidence` at the receipt.

The product appends from the broker only, one worker of a project at a time; the
ledger's docstring promises several writers, so one of the model's is no run
(`Foreign`) and only appends. Taking the lock by theft forks the chain, and so
`OneChain` and `RecordedFirst` speak of executions in which no lock was taken from
under a writer that held it (`overtaken`). That is the strongest true statement:
with two waiters at a stale lock, both get in. `Consent`, `HonestAbsence` and
`CardSettled` need no such condition.

Abstractions. A line's digest is its place in the file. A tool that fails and one
that succeeds are one (`RunTool` for better or worse). Calls outside the token's
scope, life, hosts or ceilings are refused before anything this model keeps.
Reading and replacing `authorizations.json` is one step. `INBOX.cancel` has no
caller.

What the ledger implements. `AtomicLog` is the promise to those who append: an
append takes effect once, at the end, at one moment between its call and its answer;
one that was refused never did; one whose caller died took effect or not; an entry
that was cut off is the last one for ever. `ImplementsLog` maps the file's lines to
the log (`Said`), a torn tail to its seal, and a writer's call to the stretch from
`AppendEntry` until its result stands (`Attempt`); the write to the file is the moment.
Waiting for the lock, breaking it and releasing it change nothing a caller can see. It
speaks of the steps up to the first theft of a held lock (`overtaken`), as `OneChain`
does, and a theft that harmed nothing yet is already one.

`governed_tools` (`MCGovernedTools.cfg`, 405,524 distinct states): two runs, one
after the other, and a foreign writer; a tool of each kind (level 2 that writes,
level 3 that may be approved for a run or a project, level 5 that is asked about
each time); `MaxCalls = 2`, so that one answer can meet another card and a grant
another call; `MaxActs = 1`, one answer, one switch, one stop or one foreign
append; `MaxFaults = 1`, one deadline, one stale lock under a live holder, one
short write or one death. A lock left by a dead writer grows old at no cost.
Fairness: a worker goes on with a call it began. At a card it holds no lock, and
the card has a deadline (`DEFAULT_WAIT_SECONDS`).

## 7. Resilience and BuildLoop

| Variable | Code |
|---|---|
| `circuit` | `provider-resilience.json`: per route the failures since its last success and whether `open_until` lies ahead |
| `call`, `keys` | the routes a `complete` still has and the attempts on the first; credentials in the environment |
| `loop` | the locals of `run_loop`: round, tool calls and compute jobs, re-asks spent, `owner_guidance` and what else is in the prompt, the cycle it adopted, why it stops |
| `queue` | `run_messages` by id: the round each message came in, and whether it was consumed |
| `lines` | usage lines of the run: their round, and whether they name the cycle |
| `tree`, `index`, `landed`, `userWork` | revisions in the working tree and the index, what the last commit took, work the user staged |

A round is `StartRound` (drains the messages), provider turns (`PlaceCall`,
`TryRoute`, `Answer`, `LoseRoutes`, `RefuseCall`), the reply (`UseTool`, `RunJob`,
`Reask`, `GiveUpOnReply`, `RefuseReply`), the revision as one transaction of files (`Apply`,
`RefuseRendering`, `Stage`), the screens (`NoProgress`, `RefuseSecret`,
`RefuseRepair`, `Judge`), the commit (`Commit`, `FailCommit`) and the audit
(`Settled`, `Blocked`, `AuditorWaits`). Each refusal has the rollback, the re-ask
and the memory the code gives it. From outside come messages, drains that fail
(`LoseDrain`), the user's `git add`, cancellations, deaths and repaired providers.

Abstractions. What replies and audits say is arbitrary. A revision is one file of
one of five kinds (`Kinds`), a new one in each round, so that the user has no edit of
theirs to lose under it: a change of the round's own file before it is staged ends the
run, which is `Abort`; one between staging and commit, and a `git add` of the user's
onto that very path, are not modelled. Budget amounts are a call that may be refused. A
count of failures beyond the threshold is kept as the threshold. One process is
modelled: the breaker's lock is of one process, and two would lose each other's counts.

What the screens read. `_staged_secret` looks at the names of all that is staged and at
the added lines in the first 512 KiB of the diff (`cli/build.py:458,470-471`). It does
not ask whether there was more. So a credential behind a file with a longer diff, or far
down in such a file, is committed: a file of kind "bulk" is one whose diff is that long,
with or without a credential in it, and while one is staged the scan may refuse a
"secret" beside it or let it through (`ScanPasses`), as the order of the paths has it. A
file that git takes for binary has no lines in the diff; whatever its bytes are, it is
a "good" or a "stray" one here. The repair guard has a bound of its own, and notices:
what it could not read it refuses or lets through with a caution, by `repair.mode`, and
`RefuseRepair` and `Judge` allow either for "bulk". A path beyond the scope of the repair, a binary and
the growth of a file it takes from git's lists, which are not cut; these are "stray" and
always refused. The guard is taken to be on (`repair.enabled`, its default). Thus
`OnlyScreenedCommitted` says which credential the scan keeps out, those staged
with nothing longer than it reads, and that a repair is held to the guard's lists.

What the generator is told. `owner_guidance` grows by what each round drains, and the
prompt gets the newest 16,000 bytes of it (`_bound_guidance`, `cli/build.py:174`).
`Prompt` is the messages that are in those bytes whole; `Size` gives each its bytes and
those of the blank line before it. The tail of one message that is cut in the middle is
not counted as told. `GuidanceStays` relates the prompt to what the queue had accepted
(`Heard`): the newest that fit, no fewer, and nothing else.

`build_loop` (`MCBuildLoop.cfg`, 886,811 distinct states): `NumRoutes = 2`, a
provider and a fallback, their credentials there or not; `MaxAttempts = 2` and
`BreakAt = 2`, a retry that the breaker may forbid; `MaxFailures = 3`, enough to open
the circuit of one route while the other serves and to fail its probe after the
cool-down, and to lose all routes of one call; `MaxRounds = 3`, the least with a first,
a middle and a last round; `MaxMsgs = 2` and `GuidanceBytes = 2`, messages of one and of
two bytes, so that the second folds the first in a later round; `MaxQueue = 1`, a
backlog that is full; `MaxOutside = 2`, two events from
outside: the two messages, or one and a drain that fails, or a file that the user stages
and a cancellation.
What these bounds leave out of the run the proofs have, since every safety property of
it is a theorem: `MaxRuns = 1`, so that what one run leaves does not reach the next
(what a dead worker left staged acts on it as a file of the user's does, which is in the
run); `MaxTools = MaxJobs = 0`, so that a request is one too many and is not served
(that serving them comes to an end is in the `Measure` below).
Fairness: the loop goes on. Every provider call and every tool has a deadline, so a
worker that lives takes its next step; one that does not is `Die`, and the run is over.

Why the loop ends is proved apart from fairness. `Measure` in `BuildLoopProofs` counts,
most significant first: whether the run works, the rounds it has left, how far the
round is from its end, tool calls, jobs and re-asks left, whether the provider is still
to be called, and the routes and attempts the call has left. Every step of the loop itself
lowers it in the lexicographic order, whatever the model, the screens and the auditor
answer and however many failures there are; every step from outside but the start of
the next run lowers it or leaves it (`LoopDescends`), and the order has no endless
descent (`DescentEnds`). What is left to TLC is that a loop that lives always has such
a step to take: `LoopEnds`.

## 8. Findings

Each has a run that TLC must find violated; the trace is the schedule.

* `finding_erased`: auditing a passed root commit once more opens a fresh cycle
  under the same id and drops its verdict rows. `controller/state.py:465-466`:
  "Every decision this cycle ever reached stays here with the standard it was
  judged against."
* `finding_closed`: a cycle a person closed is continued by a child commit,
  passes and is admitted, because closing stores the status of a cycle that waits
  for a revision and nobody reads `closed_by_human`. `controller/state.py:510`:
  "`close` ends the cycle without admission".
* `finding_reopened`: reopening a round that has its verdict leads to a re-audit
  whose verdict the store must refuse as a second one. `cli/main.py:1384` advises
  exactly that re-audit. A new commit is the way out.
* `finding_revived`: the phase clock appends a state it read before the run was
  parked, and the parked run is working again with no worker behind it.
  `runtime/runs.py:191-192`: "every out edge is taken by an explicit command,
  not a timer."
* `finding_screened`: the repair screen narrates REVISING while the row is
  GENERATING, an edge the table lacks; the run ends FAILED before its round is
  committed. `docs/DECISIONS.md:6571-6572`: "the round is committed and audited
  as usual".
* `finding_duplicated`: a commit between the park and the pass that completes it,
  or a worker's own write between the pass's snapshot and its write, gives one stop
  two decisions: direction B looks at the cycle on HEAD and not for one that names
  the run already. `console/daemon.py:411`: "Complete a torn needs-a-human write,
  in either direction, exactly once."

The `RunJournal` model also reads one comment more exactly than it is written:
`recover_abandoned` says of a wedged thread that it no longer holds the run
slot. It no longer holds the journal's row; the slot file it does hold, and that
is why `OneThread` is true.

What they leave true is proved, so that each names its exact cause.
`ErasedByReauditOnly`: decisions are dropped when the root commit is audited anew
after its cycle passed or moved on, and by nothing else. `ClosedLeftByFourDoors`: a
closed cycle is taken up by a further round (a revision, a child or the same commit),
the verdict of an audit that still ran, an audit of its root anew, or a build-level
stop; no admission, ruling or late verifier does. `OnlyTheClockRevives`: a parked run
goes on by the phase clock alone. `OnlyTheScreenIsRefused`: of a run that nothing but
its worker moved, the table refuses no event but REVISING while a repair is generated
and the AUDITING after it. `FutileOnlyWhenReopened`: an audit begins on a commit and
round that have their verdict only when a person reopened the cycle, as long as no
build-level stop sets a round back. The condition is needed, which a run with a fourth
audit showed: where a stale continuation has brought a cycle back to its root, such a
stop has set its round to 1 and a person has closed it, a child of the root starts a
second audit of the round it already had. `OneDecisionButForRepeats`: a stop gets a
second decision only when direction B completes it although a cycle names the run
already, or although the worker that stopped is still to write its own.

### Divergences without a run

Read off while modelling. Most are behaviours the models have; none is stated as
a property.

* Guidance. `runtime/runs.py:760-763` says a crashed worker leaves messages
  unread, to be redelivered; they are marked consumed before the round that
  reads them. `runs.py:720-721` says nothing is dropped; a message accepted in
  the last round is never read. `cli/build.py` says of the messages that they are
  "accumulated for every later round"; they are, but what reaches the generator is
  the newest 16,000 bytes, as the comment at `cli/build.py:171` and
  `test_prompt_folding` have it.
* Credentials. `cli/build.py:467` says the generator "can never write a credential
  into the audit history"; the scan stops after 512 KiB of the staged diff without
  refusing the rest, and sees no line of a binary file.
* The user's index. The loop stages its own files and then screens and commits
  the whole index: the user's staged work makes a round that changed nothing
  look like progress (`cli/build.py:1035`), a file the guard refuses there
  refuses the generator's repair, and a `git add` between the screen and the
  commit is committed unscanned.
* What a dead worker left in the tree and the index is committed by the next
  run; `file_identity.py` disclaims crash atomicity.
* A re-ask for a round that changed nothing drops the audit's findings from the
  prompt (`cli/build.py:1046`), which is the exception in `CauseStays`.
* Usage lines of rounds refused before the first audit never name a cycle, and
  the file is rewritten in place.
* Reopening a parked run's decision without starting a run is undone by the next
  pass, which names the same run again; `controller/state.py:529-530` says a
  future escalation will name the run of the retry. Closing one of two
  duplicates leaves the other pending. A retry that cannot start escalates
  without a run id (`console/server.py:2088`), so that direction A may take an
  unrelated interrupted row for it.
* Stopping a run in the moment between its park and its cycle write leaves a
  decision nobody waits for (`runtime/commands.py:122-127`), and a pass that
  read before a ruling may escalate a closed cycle again
  (`console/daemon.py:432-439`).
* A torn tail of the ledger is refused and never repaired; a short `os.write` is
  not noticed (`ledger/chain.py:115`, where `usage.py` loops).

## 9. Proofs

All theorems are checked by TLAPS to the last leaf, with no assumption but those
the modules state: the commit graph and rank are functions over the commits, the
budget is positive, watchers are pids, runs are writers, a level is between 0 and
6, bounds are naturals (those on runs, rounds, routes and attempts positive), and
`None` is none of the values it stands beside.

**CycleStoreProofs.** For any commit graph, any set of audits, verifiers and
rules and any budget. The six invariants are not inductive: the store alone
cannot tell a late verdict from a second one. `IInv` adds what a cycle owes to
the audits its rows name (each was recorded once, for this cycle, with this
verdict and standard), what an audit's memory is worth at each stage, and that a
consumed receipt which a cycle still shows finds it CONSUMED. The proof has one
lemma per action on top of three shapes a transaction has (`AuditOnly`,
`StoreOnly`, `StoreAndAudit`); the step that needs the whole invariant is
`RecordVerdictKeeps`. From `IInv` follow `TypeCorrect`, `AdmissionOnce`,
`PassBacked`, `OneStandard`, `OneDecision`, `SpentBudget`, and the step theorems
`PassIsFinal` and `RulingIsRequired`, which read them off `StepMoves` (what a step
does to one record, by the status it had). `StepLeaves` says the same by the action
that did it, with what it does to the decisions and the round; `ErasedByReauditOnly`
and `ClosedLeftByFourDoors` rest on that, and so does `RowsBehind`, the invariant
behind `FutileOnlyWhenReopened`: no decision is ahead of its cycle's round, and an open
round that has its decision was reopened.

**RunJournalProofs.** For any number of runs, pids and deaths. `JInv` adds to
`OneThread` that a thread's owner is up and named by the slot, and that what a
sweep is about to reclaim has no thread, or a lease that ran out, or a
cancellation pending. Most steps are quiet: they start no thread, leave slot
and processes alone, and freshen no lease a sweep relies on unless the sweep
hears of it (`QuietKeeps`). The step theorems rest on `StateChanges`, which lists
every way a row's state can change; `CancellationStands` and `SettledStays` read
it against the table, `LiveWorkersKept` against the sweeps.

`JournalKeepsRunLife` is the refinement of `RunLife`, and needs an invariant of its
own. An event may take a row from PROVIDER_UNAVAILABLE to GENERATING by the table;
that no worker's event does needs `ParkedByLoop` (`LoopParksKnowingly`): a thread that
still works in its loop while its row is parked parked it itself, and a loop that did
has nothing more to narrate. A step is then one row's move that `RunLife` allows, no
move of any life, a start, a reclaim of busy runs, or `ClockRevives`. From the abstract
specification alone follow `UnrevivedRunsAlone`, that without a revival at most one run
is active (so `start`'s own query is enough for the journal, and the slot is what keeps
the threads apart), and `OnlyTheClockRevives`. `OnlyTheScreenIsRefused` compares the
loop's narration with the transition table, word by word (`TableTakes`).

**ApprovalsProofs.** `StoreImplementsApprovals`: every step of `CycleStore` is a
step of `Approvals` or a stutter under the mapping. Most steps leave each of the
four mapped variables alone, or change one as `Mint` does; the steps that need the
invariant are those that touch a cycle with an approval in force.

**HumanWaitProofs.** For any number of runs, commits, commands and deaths. The two
properties do not follow from the stores alone: that a sweep with an old row names
nobody who works needs that the row it looked at is still at rest, and that a
worker names itself only as it stops needs that its place says what its row holds.
`WaitInv` is these facts. Two lemmas carry the proof: `AuthorsWrite`, that every
step writes the cycle store in one way (`Written`: not over a PASS, naming at most
one run, its author's), and `RowsMove`, that every row moves along one of eight
edges. `VerdictsOutrank` is then read off `Written`, `DecisionsNameTheStopped` off
the invariant, and `WaitKeepsRunLife`, the refinement of `RunLife`, off the edges and
the one step that moves several rows. `OneDecisionButForRepeats` has an invariant of its
own, `NamedOnce`: no two cycles name one run, and none names a run whose worker has yet
to write.

**EvidenceLedgerProofs, GovernedToolsProofs.** For any set of writers, runs and
tools with any levels, and any number of calls and faults. `LedgerInv` says that,
until a lock is overtaken, the writer past the lock is the one its file names, and
its line continues the file as it is. A cached head is then safe, since a head
cached at this size is the last line, or that of a torn file, which is refused
before the head is looked at.
`ToolsInv` says which lines are on record at each phase of a call, whose answer a
card can carry and where a standing yes came from. Theorems: `ToolsInvariant`,
`ToolTypes`, `LedgerIsOneChain`, `ToolsAreRecordedFirst`, `ToolsHaveConsent`,
`AbsenceIsHonest`. `LedgerImplementsLog` is the refinement of `AtomicLog`. The broker
reaches the ledger only through its own operations (`BrokerUsesLedger`), each of which
is a step of the log, a stutter, or the theft. `Write` is where the invariant is
needed: the line continues the file as it is now, so that appending it is appending to
the log. `UnbrokenLedgerIsLog` draws the conclusion a reader wants: an execution
without a theft is an execution of the log.

**BuildLoopProofs.** For any number of routes, attempts, rounds, messages of any
sizes, tool calls, jobs and runs, and any breaker threshold. `LoopInv` adds to the
properties what a loop may hold in each phase (`Placed`), how its counters bound one another (`Counts`)
what has been screened by the time of the commit (`Screens`) and that
`owner_guidance` is what the queue had when it was last read (`GuidanceRead`). How
many bytes messages have plays no part in that argument. Most steps
have one of four shapes: they leave the loop alone, stop it, refuse a round and
roll it back, or end the loop; the rest are taken one by one. Theorems:
`LoopInvariant`, `LoopTypes`, `RoutesProbedOnce`, `CauseIsTold`,
`GuidanceIsKept`, `RefusalsLeaveNothing`, `CommitsAreScreened`,
`SelfHealsFirst`, `SpendIsAttributed`, `OutagesStop`; and the descent of section 7,
`LoopDescends` and `DescentEnds`. That order is the lexicographic product of nine
copies of the naturals, whose well-foundedness the library of the prover has; a step
lowers one component and leaves the more significant ones (`UsedUp`).

**Only model-checked.** Liveness, which is out of the prover's reach:
`CancelCompletes`, `AbandonedSettled`, `ParkGetsDecision`, `TornStopHealed`,
`RulingReachesRun`, `StopClosesDecisions`, `CardSettled`, `LoopEnds` (the descent is
proved; that the fair loop always has a step to take is about ENABLED). And the six
findings, whose causes are proved and whose traces are TLC's. Every safety
invariant and step property of a passing run is a theorem.

## 10. Not modelled, and why

* `prune_terminal_runs` and the other retention: throttled housekeeping of rows no
  property mentions; listed as a hazard because it forgets `run_messages`.
* Starting and stopping the console process, its HTTP surface beyond the commands
  above, chats, projects, transfers and pages: one process rewrites navigation
  files and renders projections of the journal.
* The workspace manager's capacity across projects, and the stale break of the
  cycle store's and the workspace manager's lock files: the same construction as
  the ledger's, modelled there.
* Provider adapters, external services, HPC and MCP: their answers are arbitrary
  choices. Usage amounts, prices and warnings.
* Pure functions with no state shared between processes (deterministic checks,
  auditor prompt and validation, receipts' schema and signatures, repair guard's
  reading of a diff, documents): their result is an arbitrary choice where the
  models need it, and what they compute is left to the tests. They are most of the
  repository's lines; these models are about its processes and files.
* What the user does to the very files of a round between its staging and its commit.
* Two processes at one circuit file, and two acts at once on
  `authorizations.json`: listed under the hazards with what would be lost.
