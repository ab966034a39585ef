---------------------------- MODULE GovernedTools ----------------------------
(***************************************************************************)
(* The tool broker (broker/__init__.py, broker/routing.py), the policy it   *)
(* asks, the human approval gate with its inbox (broker/humanapproval.py),  *)
(* the standing authorizations of a project (broker/approval.py) and the    *)
(* receipt's view of the evidence (receipt/build.py), over the evidence     *)
(* ledger every step of a call is written to.                               *)
(*                                                                          *)
(* A project's runs work one after another, each with a broker and so a      *)
(* ledger object of its own.  A call goes                                    *)
(*    tool_call -> decision -> [approval] -> the tool -> tool_result        *)
(* and an append stands between each two of them, in which the person may   *)
(* act or the process may die.  The ledger's own contract is for several    *)
(* writers: some of the model's are no runs and only append.                *)
(***************************************************************************)
EXTENDS EvidenceLedger

CONSTANTS
  Runs,       \* the writers that are runs; the others only append
  Tools,      \* every tool of the registries
  Level,      \* the permission level of each
  Writing,    \* those that write
  MaxCalls,   \* bound of the model: calls of all runs together
  MaxActs     \* bound of the model: acts of the person, appends of other writers

Calls  == 1..MaxCalls
Kinds  == {"tool_call", "decision", "approval", "tool_result", "foreign"}
Scopes == {"once", "run", "project", "deny"}

ASSUME ToolAssumption ==
  /\ Level \in [Tools -> 0..6] /\ Writing \subseteq Tools
  /\ MaxCalls \in Nat \ {0} /\ MaxActs \in Nat
ASSUME RunAssumption == Runs \subseteq Writers /\ None # "none"
ASSUME WhatAssumption == What = [kind: Kinds, call: Calls, yes: BOOLEAN]

VARIABLES
  job,       \* each run's call: its phase, number and, once known, the answer
  granted,   \* the tools of each run's token, or None before its first call
  pending,   \* the inbox: the card of each run, by its call
  decided,   \* the inbox: the decision left for each run
  runGrants, \* the inbox: tools a person approved for a run
  auth,      \* authorizations.json
  stopped,   \* runs whose cancellation was requested
  receipt,   \* what a run's receipt says of tools: "none", "ledger", None before it
  made,      \* history: the calls made so far, in order
  effects,   \* history: calls whose tool ran
  reported,  \* history: calls reported as succeeded
  answers,   \* history: the person's answers, by the card they were given on
  acts       \* history: acts of the person and of other writers so far

brokerVars == <<job, granted, pending, decided, runGrants, auth, stopped, receipt,
                made, effects, reported, answers, acts>>
vars == <<ledgerVars, brokerVars>>

\* A run is "new", works and has "ended".  Of its working phases "calling",
\* "deciding", "approving" and "recording" wait for an append, then
\* for what follows it; "asking" waits at a card, "turning" has seen the run
\* stopped and is about to take its card back.
Phases == {"new", "between", "calling", "deciding", "asking", "turning", "approving",
           "recording", "ended"}
Job == [phase: Phases, call: Calls \cup {None}, yes: BOOLEAN]
Resting == [phase |-> "between", call |-> None, yes |-> FALSE]
Unborn  == [Resting EXCEPT !.phase = "new"]
Ended   == [Resting EXCEPT !.phase = "ended"]

Call   == [tool: Tools, run: Runs]
Answers == [scope: Scopes, card: Calls]

TypeOK ==
  /\ LedgerTypeOK
  /\ job \in [Runs -> Job]
  /\ granted \in [Runs -> (SUBSET Tools) \cup {None}]
  /\ pending \in [Runs -> Calls \cup {None}]
  /\ decided \in [Runs -> Answers \cup {None}]
  /\ runGrants \in SUBSET (Runs \X Tools)
  /\ auth \in [writes: BOOLEAN, tools: SUBSET Tools]
  /\ stopped \in SUBSET Runs
  /\ receipt \in [Runs -> {"none", "ledger", None}]
  /\ made \in Seq(Call) /\ Len(made) <= MaxCalls
  /\ effects \in SUBSET Calls /\ reported \in SUBSET Calls
  /\ answers \in SUBSET Answers
  /\ acts \in 0..MaxActs

Init ==
  /\ LedgerInit
  /\ job = [w \in Runs |-> Unborn]
  /\ granted = [w \in Runs |-> None]
  /\ pending = [w \in Runs |-> None] /\ decided = [w \in Runs |-> None]
  /\ runGrants = {} /\ stopped = {}
  /\ auth \in [writes: BOOLEAN, tools: {{}}]
  /\ receipt = [w \in Runs |-> None]
  /\ made = <<>> /\ effects = {} /\ reported = {} /\ answers = {}
  /\ acts = 0

-----------------------------------------------------------------------------
(* The broker. *)

Tool(w) == made[job[w].call].tool
Says(kind, call, yes) == [kind |-> kind, call |-> call, yes |-> yes]

\* Append is called; phase waits for it.
Record(w, phase, kind, yes) ==
  /\ job' = [job EXCEPT ![w].phase = phase, ![w].yes = yes]
  /\ AppendEntry(w, Says(kind, job[w].call, yes))

\* The append phase waited for has returned.
Recorded(w, phase) == job[w].phase = phase /\ Returned(w, "written")

\* live_registry: the tools that write are there if the project authorized writes.
LiveTools == {t \in Tools : t \in Writing => auth.writes}

\* build_broker_and_token, at the first call of a run: its token is made of what
\* the project offers then.  There is one worker to a project.
Begin(w) ==
  /\ job[w].phase = "new"
  /\ \A v \in Runs : job[v].phase \in {"new", "ended"}
  /\ granted' = [granted EXCEPT ![w] = LiveTools]
  /\ job' = [job EXCEPT ![w] = Resting]
  /\ UNCHANGED <<ledgerVars, pending, decided, runGrants, auth, stopped, receipt, made,
                 effects, reported, answers, acts>>

\* execute: a proposal is recorded before it is looked at.
Propose(w, t) ==
  /\ job[w].phase = "between" /\ Len(made) < MaxCalls
  /\ made' = Append(made, [tool |-> t, run |-> w])
  /\ job' = [job EXCEPT ![w] = [phase |-> "calling", call |-> Len(made) + 1, yes |-> FALSE]]
  /\ AppendEntry(w, Says("tool_call", Len(made) + 1, FALSE))
  /\ UNCHANGED <<granted, pending, decided, runGrants, auth, stopped, receipt, effects,
                 reported, answers, acts>>

\* decide, for a call within the scope, life, hosts and ceilings of its grant.
Decide(w) ==
  /\ Recorded(w, "calling")
  /\ Record(w, "deciding", "decision", Tool(w) \in granted[w])
  /\ UNCHANGED <<granted, pending, decided, runGrants, auth, stopped, receipt, made,
                 effects, reported, answers, acts>>

\* APPROVAL_MIN_LEVEL.
NeedsApproval(t) == Level[t] >= 2

\* Mutant of PerCallOnly: off by two levels.
PerCallOnlyCritical(t) == Level[t] >= 6

\* PER_CALL_ONLY_LEVEL.
PerCallOnly(t) == Level[t] >= 4

AtGate(w) == Recorded(w, "deciding") /\ job[w].yes /\ NeedsApproval(Tool(w))

\* approve, and what the gate looks up before it asks.
Standing(w) ==
  LET t == Tool(w) IN
  \/ Level[t] = 2 /\ t \in Writing /\ auth.writes
  \/ ~PerCallOnly(t) /\ (<<w, t>> \in runGrants \/ t \in auth.tools)

Approve(w) ==
  /\ AtGate(w) /\ (Standing(w) \/ Level[Tool(w)] >= 6)
  /\ Record(w, "approving", "approval", Standing(w))
  /\ UNCHANGED <<granted, pending, decided, runGrants, auth, stopped, receipt, made,
                 effects, reported, answers, acts>>

\* open: a card for the person; a decision left over is dropped.
Ask(w) ==
  /\ AtGate(w) /\ ~Standing(w) /\ Level[Tool(w)] < 6
  /\ pending' = [pending EXCEPT ![w] = job[w].call]
  /\ decided' = [decided EXCEPT ![w] = None]
  /\ job' = [job EXCEPT ![w].phase = "asking"]
  /\ UNCHANGED <<ledgerVars, granted, runGrants, auth, stopped, receipt, made,
                 effects, reported, answers, acts>>

\* wait pops the decision and the card; the gate keeps what it grants beyond
\* this call, below PER_CALL_ONLY_LEVEL.
TakeAnswer(w) ==
  LET t == Tool(w)
      scope == decided[w].scope
      kept == ~PerCallOnly(t)
  IN
  /\ job[w].phase = "asking" /\ decided[w] # None
  /\ pending' = [pending EXCEPT ![w] = None]
  /\ decided' = [decided EXCEPT ![w] = None]
  /\ runGrants' = IF kept /\ scope = "run" THEN runGrants \cup {<<w, t>>} ELSE runGrants
  /\ auth' = IF kept /\ scope = "project" THEN [auth EXCEPT !.tools = @ \cup {t}] ELSE auth
  /\ Record(w, "approving", "approval", scope # "deny")
  /\ UNCHANGED <<granted, stopped, receipt, made, effects, reported, answers, acts>>

\* Mutant of TimeOut: the deadline is looked at for a stopped run only.
TimeOutOfStopped(w) ==
  /\ job[w].phase = "asking" /\ decided[w] = None /\ w \in stopped
  /\ pending' = [pending EXCEPT ![w] = None]
  /\ Record(w, "approving", "approval", FALSE)
  /\ UNCHANGED <<granted, decided, runGrants, auth, stopped, receipt, made,
                 effects, reported, answers, acts>>

\* DEFAULT_WAIT_SECONDS have passed without a decision.
TimeOut(w) ==
  /\ job[w].phase = "asking" /\ decided[w] = None
  /\ pending' = [pending EXCEPT ![w] = None]
  /\ Record(w, "approving", "approval", FALSE)
  /\ UNCHANGED <<granted, decided, runGrants, auth, stopped, receipt, made,
                 effects, reported, answers, acts>>

\* The run was stopped.  is_cancelled is asked outside the inbox's lock; the card
\* goes a moment later.
SeeStopped(w) ==
  /\ job[w].phase = "asking" /\ w \in stopped
  /\ job' = [job EXCEPT ![w].phase = "turning"]
  /\ UNCHANGED <<ledgerVars, granted, pending, decided, runGrants, auth, stopped,
                 receipt, made, effects, reported, answers, acts>>

TurnAway(w) ==
  /\ job[w].phase = "turning"
  /\ pending' = [pending EXCEPT ![w] = None]
  /\ Record(w, "approving", "approval", FALSE)
  /\ UNCHANGED <<granted, decided, runGrants, auth, stopped, receipt, made,
                 effects, reported, answers, acts>>

Refused(w) ==
  /\ Recorded(w, "deciding") \/ Recorded(w, "approving")
  /\ ~job[w].yes
  /\ job' = [job EXCEPT ![w] = Resting]
  /\ UNCHANGED <<ledgerVars, granted, pending, decided, runGrants, auth, stopped,
                 receipt, made, effects, reported, answers, acts>>

\* The handler runs, for better or worse, and then its result is recorded.
RunTool(w) ==
  /\ \/ Recorded(w, "deciding") /\ ~NeedsApproval(Tool(w))
     \/ Recorded(w, "approving")
  /\ job[w].yes
  /\ effects' = effects \cup {job[w].call}
  /\ Record(w, "recording", "tool_result", TRUE)
  /\ UNCHANGED <<granted, pending, decided, runGrants, auth, stopped, receipt, made,
                 reported, answers, acts>>

Report(w) ==
  /\ Recorded(w, "recording")
  /\ reported' = reported \cup {job[w].call}
  /\ job' = [job EXCEPT ![w] = Resting]
  /\ UNCHANGED <<ledgerVars, granted, pending, decided, runGrants, auth, stopped,
                 receipt, made, effects, answers, acts>>

\* The ledger refused an append: the denial ends the run.
Fail(w) ==
  /\ job[w].phase \in {"calling", "deciding", "approving", "recording"}
  /\ Returned(w, "refused")
  /\ job' = [job EXCEPT ![w] = Ended]
  /\ UNCHANGED <<ledgerVars, granted, pending, decided, runGrants, auth, stopped,
                 receipt, made, effects, reported, answers, acts>>

-----------------------------------------------------------------------------
(* The receipt. *)

\* verify, of all of the file.
Verifies == ChainVerifies /\ ~Torn

\* Mutant of Evidence: a ledger that does not verify counts as none.
EvidenceSoftened == IF entries = <<>> \/ ~Verifies THEN "none" ELSE "ledger"

\* _tool_evidence: nothing is said of tools if the ledger is empty, and a ledger
\* that does not verify refuses the receipt.
Evidence == IF entries = <<>> /\ ~Torn THEN "none" ELSE IF Verifies THEN "ledger" ELSE None

\* The run's work is audited and passes; a broken ledger gets no receipt.
Mint(w) ==
  /\ job[w].phase = "between"
  /\ Evidence # None
  /\ receipt' = [receipt EXCEPT ![w] = Evidence]
  /\ job' = [job EXCEPT ![w] = Ended]
  /\ UNCHANGED <<ledgerVars, granted, pending, decided, runGrants, auth, stopped,
                 made, effects, reported, answers, acts>>

-----------------------------------------------------------------------------
(* The person, and deaths. *)

Act == acts < MaxActs /\ acts' = acts + 1

\* resolve: any of the scopes is taken, for whatever card the run shows by now.
Resolve(w, scope) ==
  /\ Act
  /\ pending[w] # None
  /\ decided' = [decided EXCEPT ![w] = [scope |-> scope, card |-> pending[w]]]
  /\ answers' = answers \cup {[scope |-> scope, card |-> pending[w]]}
  /\ UNCHANGED <<ledgerVars, job, granted, pending, runGrants, auth, stopped, receipt,
                 made, effects, reported>>

SetWrites(on) ==
  /\ Act
  /\ auth.writes # on
  /\ auth' = [auth EXCEPT !.writes = on]
  /\ UNCHANGED <<ledgerVars, job, granted, pending, decided, runGrants, stopped,
                 receipt, made, effects, reported, answers>>

Stop(w) ==
  /\ Act
  /\ w \notin stopped /\ job[w].phase \notin {"new", "ended"}
  /\ stopped' = stopped \cup {w}
  /\ UNCHANGED <<ledgerVars, job, granted, pending, decided, runGrants, auth, receipt,
                 made, effects, reported, answers>>

\* The process of the run at work is gone, and the inbox with it.
Die(w) ==
  /\ job[w].phase \notin {"new", "ended"}
  /\ LedgerDeath(w)
  /\ job' = [job EXCEPT ![w] = Ended]
  /\ pending' = [v \in Runs |-> None] /\ decided' = [v \in Runs |-> None]
  /\ runGrants' = {}
  /\ UNCHANGED <<granted, auth, stopped, receipt, made, effects, reported, answers, acts>>

\* A writer that is no run.
Foreign(w) ==
  /\ \/ writer[w].stage = "idle" /\ Act /\ AppendEntry(w, Says("foreign", 1, FALSE))
     \/ writer[w].stage # "idle" /\ LedgerDeath(w) /\ UNCHANGED acts
  /\ UNCHANGED <<job, granted, pending, decided, runGrants, auth, stopped, receipt,
                 made, effects, reported, answers>>

-----------------------------------------------------------------------------
\* What the worker does by itself once it has begun a call.
WorkerStep(w) ==
  \/ Decide(w) \/ RunTool(w) \/ Approve(w) \/ Ask(w) \/ TakeAnswer(w) \/ TimeOut(w) \/ SeeStopped(w)
  \/ TurnAway(w) \/ Refused(w) \/ Report(w) \/ Fail(w)

RunStep(w) ==
  \/ \E t \in Tools : Propose(w, t)
  \/ \E scope \in Scopes : Resolve(w, scope)
  \/ Begin(w) \/ Mint(w) \/ Stop(w) \/ Die(w) \/ WorkerStep(w)

Next ==
  \/ \E w \in Runs : RunStep(w)
  \/ \E w \in Writers \ Runs : Foreign(w)
  \/ \E w \in Writers : LedgerStep(w) /\ UNCHANGED brokerVars
  \/ \E on \in BOOLEAN : SetWrites(on)
  \/ LockGrowsOld /\ UNCHANGED brokerVars

\* A worker goes on with a call it began: it holds no lock while it waits at a
\* card, and the card's deadline passes.
Fairness == \A w \in Runs : WF_vars(WorkerStep(w))

Spec == Init /\ [][Next]_vars /\ Fairness

-----------------------------------------------------------------------------
(* Properties. *)

\* A line of the ledger says so, or the unterminated one at its end was to.
Line(what) == half = what \/ \E i \in 1..Len(entries) : entries[i].what = what

\* "every step is written to the append-only Evidence Ledger ... no tool can
\* report a success the broker did not record" (broker/__init__.py): whatever ran
\* was proposed, allowed and, where that is called for, approved on record, and
\* whatever was reported has its result there, across deaths and short writes; at
\* most the last line was cut off, and then nothing is ever added to it.  As far
\* as the lock goes: a writer whose lock was removed can still glue its line on.
RecordedFirst == ~overtaken =>
  /\ \A c \in effects :
       /\ Line(Says("tool_call", c, FALSE)) /\ Line(Says("decision", c, TRUE))
       /\ NeedsApproval(made[c].tool) => Line(Says("approval", c, TRUE))
  /\ \A c \in reported : Line(Says("tool_result", c, TRUE))

\* A person said yes on the card of call c.
YesOn(c) == \E a \in answers : a.card = c /\ a.scope # "deny"

\* A person allowed the tool of call c beyond another call it was asked about.
YesBefore(c) ==
  \E a \in answers : /\ made[a.card].tool = made[c].tool
                     /\ a.scope = "project" \/ (a.scope = "run" /\ made[a.card].run = made[c].run)

\* "Permission comes from the human ... Level 4+ is always per-call"
\* (humanapproval.py): whatever was answered, late, twice or for another call, a
\* tool of level 4 or 5 ran only on a yes to its own card, one of level 3 on that
\* or on a standing yes for the same tool, and one of level 6 never.
Consent ==
  \A c \in effects :
    /\ Level[made[c].tool] >= 3 => YesOn(c) \/ (YesBefore(c) /\ Level[made[c].tool] < 4)
    /\ Level[made[c].tool] < 6

\* "omitting the block would state, over a valid signature, that this audit used
\* no tools" (receipt/build.py): no receipt says so after a tool has run.
HonestAbsence ==
  [][\A w \in Runs : receipt[w] = None /\ receipt'[w] = "none" => effects = {}]_vars

\* A worker is never left waiting at a card: "Deny-by-default" comes in the end.
CardSettled == \A w \in Runs : pending[w] # None ~> pending[w] = None
=============================================================================
