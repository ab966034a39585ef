----------------------------- MODULE CycleStore -----------------------------
(***************************************************************************)
(* The controller's cycle store (controller/state.py) and the commands     *)
(* that drive it from separate processes: `run`, `audit`, `resolve`,       *)
(* `verify --admit`, and the build-level stops that record a decision for  *)
(* a person.                                                               *)
(*                                                                         *)
(* Every mutation of StateStore happens under one file lock and is one     *)
(* action here.  What is NOT under the lock is what makes the store hard:  *)
(* an audit opens its round in one locked transaction, works for minutes,  *)
(* and records its verdict in a second one; a continuation proves ancestry *)
(* against a copy of the cycle read before it takes the lock; `verify`     *)
(* reads a snapshot and admits later.  An audit that crashes is one whose  *)
(* second transaction never happens.                                       *)
(*                                                                         *)
(* A cycle id is a hash of the repository and the root commit              *)
(* (cycle_id_for), so with one repository a cycle is named by its root.    *)
(***************************************************************************)
EXTENDS Integers, FiniteSets

CONSTANTS
  Commits,    \* commits of the science repository that change science files
  Parent,     \* the direct parent of a commit, or None for one on a ledger commit
  Descends,   \* <<older, newer>>: is_ancestor(older, newer) holds in git
  Rank,       \* the position of a cycle id in the sorted state file
  Rules,      \* commits of the constitution
  Audits,     \* invocations of `run` and `audit`; each mints its own receipt
  Verifiers,  \* invocations of `verify --admit`
  MaxRounds,  \* cfg.max_rounds: the revision budget of a cycle
  RoundCap,   \* bound of the model: no transaction raises a round above it
  MaxStops,   \* bound of the model: how many build-level stops happen
  None

ASSUME CommitGraphAssumption ==
  /\ Parent \in [Commits -> Commits \cup {None}]
  /\ Descends \subseteq Commits \X Commits
  /\ Rank \in [Commits -> Nat]
ASSUME BudgetAssumption == MaxRounds \in Nat \ {0} /\ RoundCap \in Nat /\ MaxStops \in Nat

VARIABLES
  cycles,      \* state.json "cycles": root commit -> cycle record, or None
  audits,      \* what each invocation of run/audit holds in its own memory
  verifying,   \* the receipt each verifier has verified and not yet admitted
  admissions,  \* history: how often each receipt was consumed by admit
  stops        \* history: how many build-level stops happened, up to MaxStops

vars == <<cycles, audits, verifying, admissions, stops>>

Statuses == {"OPEN", "BLOCKED", "PASSED", "ESCALATED", "CONSUMED"}
\* DCL_ONLY, a round no model reviewed, is stored as an ESCALATE is.
Verdicts == {"PASS", "BLOCKED", "ESCALATE"}

\* One row of a cycle's append-only "verdicts" list.  The receipt names the
\* audit that minted it; rows are never read by position, so they are a set.
Row == [round: Nat, sha: Commits, verdict: Verdicts,
        receipt: Audits, rules: Rules]

Cycle == [active: Commits, round: Nat, status: Statuses, awaiting: BOOLEAN,
          reopened: BOOLEAN, closed: BOOLEAN, pin: Rules \cup {None},
          receipt: Audits \cup {None}, consumed: SUBSET Audits,
          verdicts: SUBSET Row]

ASSUME NoneAssumption ==
  None \notin Commits \cup Rules \cup Audits \cup Verdicts \cup Cycle

\* Where an invocation stands: "proving" has read the cycle it will continue,
\* "auditing" has its round open, "minted" has committed its receipt to git,
\* "locked" was refused by a pending decision and has yet to record that,
\* "recorded" wrote its verdict row, and "void" ended without one.
Stages == {"idle", "proving", "auditing", "minted", "locked", "recorded", "void"}

Audit == [stage: Stages, cid: Commits \cup {None}, sha: Commits \cup {None},
          round: Nat, pin: Rules \cup {None}, rules: Rules \cup {None},
          verdict: Verdicts \cup {None}]

TypeOK ==
  /\ cycles \in [Commits -> Cycle \cup {None}]
  /\ audits \in [Audits -> Audit]
  /\ verifying \in [Verifiers -> Audits \cup {None}]
  /\ admissions \in [Audits -> Nat]
  /\ stops \in 0..MaxStops

IdleAudit == [stage |-> "idle", cid |-> None, sha |-> None, round |-> 0,
              pin |-> None, rules |-> None, verdict |-> None]

Init ==
  /\ cycles = [c \in Commits |-> None]
  /\ audits = [a \in Audits |-> IdleAudit]
  /\ verifying = [v \in Verifiers |-> None]
  /\ admissions = [a \in Audits |-> 0]
  /\ stops = 0

-----------------------------------------------------------------------------
(* Reading the store. *)

Known == {c \in Commits : cycles[c] # None}

\* The cycle a scan over the sorted cycles map meets first.
FirstOf(S) == {c \in S : \A d \in S : Rank[c] <= Rank[d]}

HasVerdictFor(cycle, sha) == \E row \in cycle.verdicts : row.sha = sha

RecordedVerdict(cycle, round, sha) ==
  \E row \in cycle.verdicts : row.round = round /\ row.sha = sha

\* open_or_advance's first scan stops at a cycle standing on this commit in
\* any status but PASSED, which no branch of the scan names.
Standing(sha) ==
  {c \in Known : cycles[c].active = sha /\ cycles[c].status # "PASSED"}

\* Its second scan: cycles a direct child of their active commit advances.
Extended(sha) ==
  {c \in Known : /\ Parent[sha] # None
                 /\ cycles[c].active = Parent[sha]
                 /\ cycles[c].status \in {"ESCALATED", "BLOCKED", "OPEN"}}

\* The standard an audit applies: the cycle's pin, else the newest committed
\* rules; and the snapshot of the cycle its receipt will carry.
BeginAudit(a, cid, sha, cycle, head) ==
  audits' = [audits EXCEPT ![a] =
    [stage |-> "auditing", cid |-> cid, sha |-> sha, round |-> cycle.round,
     pin |-> cycle.pin, rules |-> IF cycle.pin = None THEN head ELSE cycle.pin,
     verdict |-> None]]

Store(cid, cycle) == cycles' = [cycles EXCEPT ![cid] = cycle]

NextRound(cycle, sha) ==
  [cycle EXCEPT !.round = @ + 1, !.active = sha, !.status = "OPEN",
                !.awaiting = TRUE]

FreshCycle(sha, head) ==
  [active |-> sha, round |-> 1, status |-> "OPEN", awaiting |-> TRUE,
   reopened |-> FALSE, closed |-> FALSE, pin |-> head, receipt |-> None,
   consumed |-> {}, verdicts |-> {}]

-----------------------------------------------------------------------------
(* open_or_advance, as `run` and `audit` call it: one action per branch that *)
(* leads to an audit or changes the store.  The branches that return without *)
(* either (already admitted, verdict already recorded, a pending decision on *)
(* the very commit) leave every variable alone.                              *)

ResumeOpenRound(a, sha, head) ==
  /\ audits[a].stage = "idle"
  /\ \E cid \in FirstOf(Standing(sha)) :
       /\ cycles[cid].status = "OPEN" /\ cycles[cid].awaiting
       /\ BeginAudit(a, cid, sha, cycles[cid], head)
  /\ UNCHANGED <<cycles, verifying, admissions, stops>>

ReadvanceSameSha(a, sha, head) ==
  /\ audits[a].stage = "idle"
  /\ \E cid \in FirstOf(Standing(sha)) :
       LET next == NextRound(cycles[cid], sha) IN
       /\ cycles[cid].status \in {"OPEN", "BLOCKED"}
       /\ ~(cycles[cid].status = "OPEN" /\ cycles[cid].awaiting)
       /\ ~HasVerdictFor(cycles[cid], sha)
       /\ next.round <= RoundCap
       /\ Store(cid, next)
       /\ BeginAudit(a, cid, sha, next, head)
  /\ UNCHANGED <<verifying, admissions, stops>>

AdvanceToChild(a, sha, head) ==
  /\ audits[a].stage = "idle"
  /\ Standing(sha) = {}
  /\ \E cid \in FirstOf(Extended(sha)) :
       LET next == NextRound(cycles[cid], sha) IN
       /\ cycles[cid].status # "ESCALATED"
       /\ next.round <= RoundCap
       /\ Store(cid, next)
       /\ BeginAudit(a, cid, sha, next, head)
  /\ UNCHANGED <<verifying, admissions, stops>>

RefusedByEscalation(a, sha) ==
  /\ audits[a].stage = "idle"
  /\ Standing(sha) = {}
  /\ \E cid \in FirstOf(Extended(sha)) :
       /\ cycles[cid].status = "ESCALATED"
       /\ audits' = [audits EXCEPT ![a] = [IdleAudit EXCEPT
                       !.stage = "locked", !.cid = cid, !.sha = sha]]
  /\ UNCHANGED <<cycles, verifying, admissions, stops>>

\* Nothing matched: a new cycle is stored under the commit's own id, whatever
\* that id held before.
OpenCycle(a, sha, head) ==
  /\ audits[a].stage = "idle"
  /\ Standing(sha) = {}
  /\ Extended(sha) = {}
  /\ Store(sha, FreshCycle(sha, head))
  /\ BeginAudit(a, sha, sha, FreshCycle(sha, head), head)
  /\ UNCHANGED <<verifying, admissions, stops>>

-----------------------------------------------------------------------------
(* A build revision: `run` with a continuation cycle. *)

\* The cycle is read without the lock and the new commit is shown to descend
\* from the active commit that copy names.
ProveAncestry(a, cid, sha) ==
  /\ audits[a].stage = "idle"
  /\ cid \in Known
  /\ <<cycles[cid].active, sha>> \in Descends
  /\ audits' = [audits EXCEPT ![a] = [IdleAudit EXCEPT
                  !.stage = "proving", !.cid = cid, !.sha = sha]]
  /\ UNCHANGED <<cycles, verifying, admissions, stops>>

\* Mutant of CanContinue: a pending decision does not stop a build revision.
CanContinueEscalated(cycle, sha) ==
  /\ \/ cycle.status \in {"BLOCKED", "ESCALATED"}
     \/ cycle.status = "OPEN" /\ cycle.reopened
  /\ cycle.active # sha

CanContinue(cycle, sha) ==
  /\ cycle.status = "BLOCKED" \/ (cycle.status = "OPEN" /\ cycle.reopened)
  /\ cycle.active # sha

ContinueCycle(a, head) ==
  LET cid  == audits[a].cid
      sha  == audits[a].sha
      next == [NextRound(cycles[cid], sha) EXCEPT !.reopened = FALSE] IN
  /\ audits[a].stage = "proving"
  /\ CanContinue(cycles[cid], sha)
  /\ next.round <= RoundCap
  /\ Store(cid, next)
  /\ BeginAudit(a, cid, sha, next, head)
  /\ UNCHANGED <<verifying, admissions, stops>>

EndAudit(a) == audits' = [audits EXCEPT ![a].stage = "void"]

ContinuationRefused(a) ==
  /\ audits[a].stage = "proving"
  /\ ~CanContinue(cycles[audits[a].cid], audits[a].sha)
  /\ EndAudit(a)
  /\ UNCHANGED <<cycles, verifying, admissions, stops>>

-----------------------------------------------------------------------------
(* The end of an audit: report and receipt are committed to git first, and   *)
(* only then does record_verdict offer the decision to the store.            *)

MintReceipt(a, verdict) ==
  /\ audits[a].stage = "auditing"
  /\ audits' = [audits EXCEPT ![a].stage = "minted", ![a].verdict = verdict]
  /\ UNCHANGED <<cycles, verifying, admissions, stops>>

\* Mutant of StatusAfter: off by one, the last round of the budget blocks.
StatusAfterLastRound(verdict, round) ==
  CASE verdict = "PASS" -> "PASSED"
    [] verdict = "ESCALATE" -> "ESCALATED"
    [] OTHER -> IF round > MaxRounds THEN "ESCALATED" ELSE "BLOCKED"

StatusAfter(verdict, round) ==
  CASE verdict = "PASS" -> "PASSED"
    [] verdict = "ESCALATE" -> "ESCALATED"
    [] OTHER -> IF round >= MaxRounds THEN "ESCALATED" ELSE "BLOCKED"

\* Mutants of Recordable: the stale-commit check, the pin check and the
\* one-verdict-per-round check are dropped, one at a time.
RecordableStale(cycle, audit) ==
  /\ cycle.status # "CONSUMED"
  /\ cycle.pin \in {None, audit.rules}
  /\ ~RecordedVerdict(cycle, cycle.round, audit.sha)
RecordableAnyRules(cycle, audit) ==
  /\ cycle.active = audit.sha
  /\ cycle.status # "CONSUMED"
  /\ ~RecordedVerdict(cycle, cycle.round, audit.sha)
RecordableAgain(cycle, audit) ==
  /\ cycle.active = audit.sha
  /\ cycle.status # "CONSUMED"
  /\ cycle.pin \in {None, audit.rules}

\* A verdict for a commit the cycle has left, or for an admitted cycle, is
\* dropped; one judged by other rules than the pin, or a second one for the
\* same round and commit, is denied.
Recordable(cycle, audit) ==
  /\ cycle.active = audit.sha
  /\ cycle.status # "CONSUMED"
  /\ cycle.pin \in {None, audit.rules}
  /\ ~RecordedVerdict(cycle, cycle.round, audit.sha)

WithVerdict(cycle, a) ==
  [cycle EXCEPT
     !.status = StatusAfter(audits[a].verdict, cycle.round),
     !.awaiting = FALSE,
     !.pin = IF @ = None THEN audits[a].rules ELSE @,
     !.receipt = a,
     !.verdicts = @ \cup {[round |-> cycle.round, sha |-> audits[a].sha,
                           verdict |-> audits[a].verdict, receipt |-> a,
                           rules |-> audits[a].rules]}]

RecordVerdict(a) ==
  LET cid == audits[a].cid IN
  /\ audits[a].stage = "minted"
  /\ Recordable(cycles[cid], audits[a])
  /\ Store(cid, WithVerdict(cycles[cid], a))
  /\ audits' = [audits EXCEPT ![a].stage = "recorded"]
  /\ UNCHANGED <<verifying, admissions, stops>>

VerdictNotRecorded(a) ==
  /\ audits[a].stage = "minted"
  /\ ~Recordable(cycles[audits[a].cid], audits[a])
  /\ EndAudit(a)
  /\ UNCHANGED <<cycles, verifying, admissions, stops>>

-----------------------------------------------------------------------------
(* Decisions handed to a person.                                            *)

Escalated(cycle) == [cycle EXCEPT !.status = "ESCALATED", !.awaiting = FALSE]

Stop == stops < MaxStops /\ stops' = stops + 1

\* escalate: a build-level stop on a cycle the build opened.
Escalate(cid) ==
  /\ Stop
  /\ cid \in Known
  /\ cycles[cid].status \in {"OPEN", "BLOCKED", "ESCALATED"}
  /\ Store(cid, Escalated(cycles[cid]))
  /\ UNCHANGED <<audits, verifying, admissions>>

\* record_build_escalation: a stop anchored at a commit rather than a cycle.
\* A cycle it creates has no pinned rules.
\* Mutant of BuildEscalatable: a decision already reached is not looked at.
BuildEscalatableAnyStatus(sha) == sha \in Known => cycles[sha].active = sha

BuildEscalatable(sha) ==
  sha \in Known => /\ cycles[sha].active = sha
                   /\ cycles[sha].status \notin {"PASSED", "CONSUMED"}

BuildEscalated(sha, round) ==
  LET base == IF sha \in Known THEN cycles[sha] ELSE FreshCycle(sha, None)
  IN  [Escalated(base) EXCEPT !.round = round]

RecordBuildEscalation(sha, round) ==
  /\ Stop
  /\ BuildEscalatable(sha)
  /\ Store(sha, BuildEscalated(sha, round))
  /\ UNCHANGED <<audits, verifying, admissions>>

\* _record_lock: the commit refused by RefusedByEscalation gets a decision
\* object of its own, in a transaction of its own.
RecordLock(a) ==
  LET sha == audits[a].sha IN
  /\ audits[a].stage = "locked"
  /\ IF BuildEscalatable(sha)
     THEN Store(sha, BuildEscalated(sha, 1))
     ELSE UNCHANGED cycles
  /\ EndAudit(a)
  /\ UNCHANGED <<verifying, admissions, stops>>

\* resolve_escalation.
Reopen(cid) ==
  /\ cid \in Known
  /\ cycles[cid].status = "ESCALATED"
  /\ Store(cid, [cycles[cid] EXCEPT !.status = "OPEN", !.awaiting = TRUE,
                                    !.reopened = TRUE])
  /\ UNCHANGED <<audits, verifying, admissions, stops>>

\* Mutant of Close: it stores a status no reader of the store knows.
CloseAsClosed(cid) ==
  /\ cid \in Known
  /\ cycles[cid].status = "ESCALATED"
  /\ Store(cid, [cycles[cid] EXCEPT !.status = "CLOSED", !.closed = TRUE,
                                    !.reopened = FALSE])
  /\ UNCHANGED <<audits, verifying, admissions, stops>>

Close(cid) ==
  /\ cid \in Known
  /\ cycles[cid].status = "ESCALATED"
  /\ Store(cid, [cycles[cid] EXCEPT !.status = "BLOCKED", !.closed = TRUE,
                                    !.reopened = FALSE])
  /\ UNCHANGED <<audits, verifying, admissions, stops>>

-----------------------------------------------------------------------------
(* `verify --admit`: the receipt's bindings are re-derived from a snapshot,  *)
(* then it is consumed under the lock.                                       *)

ReceiptVerifies(a) ==
  LET audit == audits[a] IN
  \/ audit.pin = None
  \/ /\ audit.cid \in Known
     /\ cycles[audit.cid].pin = audit.pin
     /\ \E row \in cycles[audit.cid].verdicts :
          /\ row.round = audit.round /\ row.sha = audit.sha
          /\ row.verdict = audit.verdict /\ row.receipt = a

Verify(v, a) ==
  /\ verifying[v] = None
  /\ audits[a].stage \in {"minted", "recorded", "void"}
  /\ audits[a].verdict = "PASS"
  /\ ReceiptVerifies(a)
  /\ verifying' = [verifying EXCEPT ![v] = a]
  /\ UNCHANGED <<cycles, audits, admissions, stops>>

\* Mutant of Admissible: status and replay were checked before the lock only.
AdmissibleBySnapshot(cycle, a) ==
  cycle.active = audits[a].sha /\ cycle.receipt = a

Admissible(cycle, a) ==
  /\ cycle.status = "PASSED"
  /\ cycle.active = audits[a].sha
  /\ a \notin cycle.consumed
  /\ cycle.receipt = a

Admit(v) ==
  LET a   == verifying[v]
      cid == audits[a].cid IN
  /\ a # None
  /\ Admissible(cycles[cid], a)
  /\ Store(cid, [cycles[cid] EXCEPT !.status = "CONSUMED",
                                    !.consumed = @ \cup {a}])
  /\ verifying' = [verifying EXCEPT ![v] = None]
  /\ admissions' = [admissions EXCEPT ![a] = @ + 1]
  /\ UNCHANGED <<audits, stops>>

AdmissionRefused(v) ==
  /\ verifying[v] # None
  /\ ~Admissible(cycles[audits[verifying[v]].cid], verifying[v])
  /\ verifying' = [verifying EXCEPT ![v] = None]
  /\ UNCHANGED <<cycles, audits, admissions, stops>>

-----------------------------------------------------------------------------
OpenOrAdvance(a, sha, head) ==
  \/ ResumeOpenRound(a, sha, head)
  \/ ReadvanceSameSha(a, sha, head)
  \/ AdvanceToChild(a, sha, head)
  \/ RefusedByEscalation(a, sha)
  \/ OpenCycle(a, sha, head)

Next ==
  \/ \E a \in Audits, sha \in Commits, head \in Rules : OpenOrAdvance(a, sha, head)
  \/ \E a \in Audits, cid \in Commits, sha \in Commits : ProveAncestry(a, cid, sha)
  \/ \E a \in Audits, head \in Rules : ContinueCycle(a, head)
  \/ \E a \in Audits, verdict \in Verdicts : MintReceipt(a, verdict)
  \/ \E a \in Audits : \/ ContinuationRefused(a) \/ RecordLock(a)
                       \/ RecordVerdict(a) \/ VerdictNotRecorded(a)
  \/ \E cid \in Commits : Escalate(cid) \/ Reopen(cid) \/ Close(cid)
  \/ \E sha \in Commits, round \in 1..MaxRounds : RecordBuildEscalation(sha, round)
  \/ \E v \in Verifiers, a \in Audits : Verify(v, a)
  \/ \E v \in Verifiers : Admit(v) \/ AdmissionRefused(v)

Spec == Init /\ [][Next]_vars

-----------------------------------------------------------------------------
(* Properties.                                                               *)

\* A receipt is consumed at most once, and only one whose audit passed, however
\* many verifiers hold it at the same time (StateStore.admit).
AdmittedOnce ==
  \A a \in Audits : admissions[a] > 0 =>
    admissions[a] = 1 /\ audits[a].verdict = "PASS"

\* A cycle reads PASSED or CONSUMED only on a recorded PASS for the round and the
\* commit it stands on now, and its latest receipt is that row's: a late verdict
\* of another audit cannot lend a newer commit its approval.
PassIsBacked ==
  \A c \in Known : cycles[c].status \in {"PASSED", "CONSUMED"} =>
    \E row \in cycles[c].verdicts :
      /\ row.round = cycles[c].round /\ row.sha = cycles[c].active
      /\ row.verdict = "PASS" /\ row.receipt = cycles[c].receipt

\* Every decision of a cycle names the one standard the cycle is pinned to, and
\* its audit really applied that standard, although audits choose it before
\* they work and record it after (D36 clause 1).
OneStandardPerCycle ==
  \A c \in Known : \A row \in cycles[c].verdicts :
    row.rules = cycles[c].pin /\ audits[row.receipt].rules = row.rules

\* One decision per round and commit: no audit supersedes another's decision on
\* the same round, and no audit is recorded twice (D36 clause 2).
OneDecisionPerRound ==
  \A c \in Known : \A r1, r2 \in cycles[c].verdicts :
    \/ r1.round = r2.round /\ r1.sha = r2.sha
    \/ r1.receipt = r2.receipt
    => r1 = r2

\* A cycle waits for a revision only while it has a round left; a spent budget
\* is in human hands, unless a person closed the cycle.
SpentBudgetEscalates ==
  \A c \in Known : cycles[c].status = "BLOCKED" /\ ~cycles[c].closed =>
    cycles[c].round < MaxRounds

\* A cycle whose record was replaced by a new one of the same root commit.
Restarted(c) == cycles'[c].verdicts = {} /\ cycles'[c].round = 1

\* No supervisor, late audit or build stop changes a PASS or an admission: from
\* PASSED the record only becomes CONSUMED, and its decisions stay.
PassStands ==
  [][\A c \in Known : cycles[c].status \in {"PASSED", "CONSUMED"} /\ ~Restarted(c) =>
       /\ cycles'[c].status \in {cycles[c].status, "CONSUMED"}
       /\ cycles'[c].verdicts = cycles[c].verdicts
       /\ cycles'[c].receipt = cycles[c].receipt]_vars

\* An escalation that rests on a recorded verdict is left only by the ruling of
\* a person: no audit still in flight and no revision moves it on.
RulingRequired ==
  [][\A c \in Known :
       /\ cycles[c].status = "ESCALATED"
       /\ RecordedVerdict(cycles[c], cycles[c].round, cycles[c].active)
       /\ ~Restarted(c)
       => \/ cycles'[c].status = "ESCALATED"
          \/ cycles'[c].status = "OPEN" /\ cycles'[c].reopened
          \/ cycles'[c].status = "BLOCKED" /\ cycles'[c].closed]_vars

\* The refinement mapping: the receipt a stored record stands on, what each
\* receipt says, and which ones ever became such a standing.
Claim(k) ==
  IF k # None /\ k.status \in {"PASSED", "CONSUMED"} THEN k.receipt ELSE None

InForce  == [c \in Commits |-> Claim(cycles[c])]
Said     == [a \in Audits |-> audits[a].verdict]
Endorsed == {a \in Audits : audits[a].stage = "recorded" /\ audits[a].verdict = "PASS"}

Approval == INSTANCE Approvals WITH
  Cycles <- Commits, Receipts <- Audits, Decisions <- Verdicts,
  decision <- Said, approved <- Endorsed, inForce <- InForce, spent <- admissions

\* The store implements the abstract life of an approval: no audit,
\* continuation, build stop or second verifier puts another receipt in the
\* place of the one in force or spends it twice (StateStore.record_verdict,
\* admit, open_or_advance).
ImplementsApprovals == Approval!Spec

-----------------------------------------------------------------------------
(* Claims of the code's own documents that the store does not keep; see the  *)
(* findings in the README.                                                   *)

\* "Every decision this cycle ever reached stays here" (state.py:466).
DecisionsNeverErased ==
  [][\A c \in Known : cycles[c].verdicts \subseteq cycles'[c].verdicts]_vars

\* "`close` ends the cycle without admission" (state.py:510).
ClosedStaysOut ==
  \A c \in Known : cycles[c].closed => cycles[c].status # "CONSUMED"

\* "`reopen` returns the increment to the loop for another audit round"
\* (state.py:509): an audit that starts has a round that can take its verdict.
NoFutileAudit ==
  [][\A a \in Audits :
       audits[a].stage # "auditing" /\ audits'[a].stage = "auditing" =>
         ~RecordedVerdict(cycles'[audits'[a].cid], audits'[a].round, audits'[a].sha)]_vars
=============================================================================
