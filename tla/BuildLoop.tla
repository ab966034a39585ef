------------------------------ MODULE BuildLoop ------------------------------
(***************************************************************************)
(* The generate-audit-repair loop of a run (cli/build.py run_loop), over the *)
(* provider layer its generator calls (Resilience), with the owner messages  *)
(* it drains (runtime/runs.py), the revision it applies, stages and commits  *)
(* (file_identity.py, cli/build.py) and the usage lines it writes (usage.py). *)
(*                                                                          *)
(* What a reply says is left to the generator and what an audit says to the  *)
(* auditor; the audit itself and the cycle it writes are CycleStore's.  A    *)
(* revision is one file of its own, of one of five kinds: one the loop takes *)
(* ("good"), the bytes already committed ("same"), one with a credential in  *)
(* its text ("secret"), one with a diff longer than the screens read, be it  *)
(* what it may ("bulk"), and one that the repair guard refuses by git's own  *)
(* lists ("stray").                                                          *)
(***************************************************************************)
EXTENDS Resilience, Functions

CONSTANTS
  MaxRuns,       \* bound of the model: runs of the project, at work one after another
  MaxRounds,     \* max_rounds
  MaxTools,      \* MAX_MCP_CALLS_PER_BUILD
  MaxJobs,       \* MAX_AGENT_JOBS_PER_BUILD
  MaxMsgs,       \* bound of the model: messages the owner sends to a run
  Size,          \* the bytes of each, with the blank line that joins it to the last
  MaxQueue,      \* MAX_STEER_QUEUE
  GuidanceBytes, \* MAX_GUIDANCE_BYTES, and one such blank line
  MaxOutside     \* bound of the model: events from outside the loop

Msgs == 1..MaxMsgs

ASSUME LoopAssumption ==
  /\ MaxRuns \in Nat \ {0} /\ MaxRounds \in Nat \ {0}
  /\ MaxTools \in Nat /\ MaxJobs \in Nat /\ MaxOutside \in Nat
  /\ MaxMsgs \in Nat /\ Size \in [Msgs -> Nat] /\ MaxQueue \in Nat /\ GuidanceBytes \in Nat

VARIABLES
  run,      \* the latest run
  loop,     \* its loop
  queue,    \* its run_messages by id: the round each came in, and whether it was read
  lines,    \* its usage lines: their round, and whether they name the cycle
  tree,     \* revisions in the working tree that are not committed
  index,    \* what is staged: revisions, and work of the user's
  landed,   \* what the last commit of the run took from the index
  userWork, \* the user's work: None, "staged" or "committed"
  dead,     \* history: runs whose worker died
  outside   \* history: events from outside so far

treeVars == <<tree, index, landed, userWork>>
loopVars == <<run, loop, queue, lines, treeVars, dead, outside>>
vars == <<resilienceVars, loopVars>>

Runs   == 1..MaxRuns
Rounds == 1..MaxRounds
Kinds  == {"good", "same", "secret", "bulk", "stray"}

\* A revision by its run and round; the user's is of run 0.
Revision == [run: 0..MaxRuns, round: 0..MaxRounds, kind: Kinds]

\* "round" is the top of the for loop, "calling" the generator before a provider
\* turn and in it, "replied" after it; a revision is then "applied", "staged" and
\* "judged" until it is committed, and audited.  A loop that "stopped" is in its
\* tail, one that "settled" has its verdict.
Phases == {"round", "calling", "replied", "applied", "staged", "judged",
           "auditing", "stopped", "settled", "ended"}

\* Why a loop stopped for a person; "spent" is the round budget.
Stops == {"budget", "provider", "answered", "format", "refused", "export", "no_progress",
          "repair_refused", "secret", "uncommitted", "spent"}
Waits == {"budget", "provider"}

ASSUME LoopNoneAssumption ==
  /\ None \notin Kinds \cup Stops \cup {"staged", "committed"}
  /\ None \notin [round: 0..MaxRounds, read: BOOLEAN]

\* What the generator is told beside its task: the findings of the last BLOCKED
\* audit ("cause") and why its last revision was refused ("refusal").  guided is
\* owner_guidance.  For the properties, adopted is the first round whose audit named
\* a cycle, drained the last one that read the queue, and blanks and refusals count
\* the rounds that changed nothing and the repairs refused.
Fresh == [phase |-> "round", round |-> 0, calls |-> 0, jobs |-> 0, reasked |-> FALSE,
          kind |-> None, unchanged |-> FALSE, refused |-> FALSE, repair |-> FALSE,
          cause |-> FALSE, told |-> {}, guided |-> {}, cycle |-> FALSE, stop |-> None,
          adopted |-> 0, drained |-> 0, blanks |-> 0, refusals |-> 0]
Over  == [Fresh EXCEPT !.phase = "ended"]

Loops ==
  [phase: Phases, round: 0..MaxRounds, calls: 0..(MaxTools + 1), jobs: 0..(MaxJobs + 1),
   reasked: BOOLEAN, kind: Kinds \cup {None}, unchanged: BOOLEAN, refused: BOOLEAN,
   repair: BOOLEAN, cause: BOOLEAN, told: SUBSET {"cause", "refusal"},
   guided: SUBSET Msgs, cycle: BOOLEAN, stop: Stops \cup {None}, adopted: 0..MaxRounds,
   drained: 0..MaxRounds, blanks: 0..MaxRounds, refusals: 0..MaxRounds]

TypeOK ==
  /\ ResilienceTypeOK
  /\ run \in 0..MaxRuns
  /\ loop \in Loops
  /\ queue \in [Msgs -> [round: 0..MaxRounds, read: BOOLEAN] \cup {None}]
  /\ lines \in SUBSET [round: Rounds, cycle: BOOLEAN]
  /\ tree \in SUBSET Revision /\ index \in SUBSET Revision /\ landed \in SUBSET Revision
  /\ userWork \in {None, "staged", "committed"}
  /\ dead \in SUBSET Runs
  /\ outside \in 0..MaxOutside

Init ==
  /\ ResilienceInit
  /\ run = 0 /\ loop = Over
  /\ queue = [m \in Msgs |-> None] /\ lines = {}
  /\ tree = {} /\ index = {} /\ landed = {} /\ userWork = None
  /\ dead = {} /\ outside = 0

-----------------------------------------------------------------------------
At(phase) == loop.phase = phase
Working   == loop.phase # "ended"
Mine      == [run |-> run, round |-> loop.round, kind |-> loop.kind]

\* Mutant of Last: one round too many.
LastOffByOne == loop.round > MaxRounds

\* range(1, max_rounds + 1).
Last == loop.round = MaxRounds

\* A step that changes nothing else.
OnlyLoop == UNCHANGED <<resilienceVars, run, queue, lines, treeVars, dead, outside>>

Stop(why) == loop' = [loop EXCEPT !.phase = "stopped", !.stop = why]

\* A new run, or one that continues a cycle.
Begin(continued) ==
  /\ ~Working /\ run < MaxRuns
  /\ run' = run + 1
  /\ loop' = [Fresh EXCEPT !.cycle = continued]
  /\ queue' = [m \in Msgs |-> None] /\ lines' = {} /\ landed' = {}
  /\ UNCHANGED <<resilienceVars, tree, index, userWork, dead, outside>>

Unread == {m \in Msgs : queue[m] # None /\ ~queue[m].read}

\* Mutant of Guided: the messages shape only the round that drained them.
GuidedOnce == Unread

\* owner_guidance, accumulated.
Guided == loop.guided \cup Unread

\* Bytes of messages joined into one text.
Bytes(messages) == SumFunctionOnSet(Size, messages)

\* _bound_guidance: the messages of owner_guidance that reach the generator whole,
\* which are the newest that fit.
Prompt == {m \in loop.guided : Bytes({n \in loop.guided : n >= m}) <= GuidanceBytes}

\* That the last revision changed nothing stays in mind until the next one.
NextRound ==
  [loop EXCEPT !.phase = "calling", !.round = @ + 1, !.reasked = FALSE,
               !.kind = IF @ = "same" THEN @ ELSE None]

\* The top of a round: drain_guidance marks what it reads as consumed.
StartRound ==
  /\ At("round") /\ ~Last
  /\ loop' = [NextRound EXCEPT !.guided = Guided, !.drained = loop.round + 1]
  /\ queue' = [m \in Msgs |-> IF m \in Unread THEN [queue[m] EXCEPT !.read = TRUE]
                              ELSE queue[m]]
  /\ UNCHANGED <<resilienceVars, run, lines, treeVars, dead, outside>>

\* The for loop has no more rounds.
SpendRounds ==
  /\ At("round") /\ Last
  /\ Stop("spent")
  /\ OnlyLoop

-----------------------------------------------------------------------------
(* A provider turn. *)

\* enforce_budget refuses, or every circuit is open.
RefuseCall(why) ==
  /\ At("calling") /\ call = None
  /\ why = "provider" => AllCoolingDown
  /\ Stop(why)
  /\ OnlyLoop

PlaceCall == At("calling") /\ BeginCall /\ UNCHANGED loopVars

TryRoute ==
  /\ At("calling")
  /\ SkipRoute \/ \E retryable \in BOOLEAN : FailAttempt(retryable)
  /\ UNCHANGED loopVars

\* Mutant of ExhaustedStop: an outage is a refused round.
ExhaustedStopAsRefusal ==
  loop' = [loop EXCEPT !.phase = "round", !.told = @ \cup {"refusal"}]

\* routes_exhausted is one of PROVIDER_WAIT_CATEGORIES: the run parks.
ExhaustedStop == Stop("provider")

LoseRoutes ==
  /\ At("calling") /\ Exhausted
  /\ ExhaustedStop
  /\ UNCHANGED <<run, queue, lines, treeVars, dead, outside>>

\* record_completion writes the line with what the loop knows by then.
Answer ==
  /\ At("calling") /\ Succeed
  /\ loop' = [loop EXCEPT !.phase = "replied"]
  /\ lines' = lines \cup {[round |-> loop.round, cycle |-> loop.cycle]}
  /\ UNCHANGED <<run, queue, treeVars, dead, outside>>

-----------------------------------------------------------------------------
(* The reply. *)

\* Mutant of Counted: the call is not counted.
CountedNever(n) == n

\* total_tool_calls and total_compute_jobs, each over all rounds of the build.
Counted(n) == n + 1

\* The result of a request goes back to the generator in the same round; one request
\* too many ends the run.
Serve(counted, exceeded) ==
  loop' = IF exceeded THEN [counted EXCEPT !.phase = "stopped", !.stop = "refused"]
          ELSE [counted EXCEPT !.phase = "calling", !.reasked = FALSE]

\* A tool of the broker's or of an MCP server.
UseTool ==
  LET n == Counted(loop.calls) IN
  /\ At("replied")
  /\ Serve([loop EXCEPT !.calls = n], n > MaxTools)
  /\ OnlyLoop

\* A remote calculation.
RunJob ==
  LET n == Counted(loop.jobs) IN
  /\ At("replied")
  /\ Serve([loop EXCEPT !.jobs = n], n > MaxJobs)
  /\ OnlyLoop

\* generate re-asks once after a malformed reply.
Reask ==
  /\ At("replied") /\ ~loop.reasked
  /\ loop' = [loop EXCEPT !.phase = "calling", !.reasked = TRUE]
  /\ OnlyLoop

\* Terminal: a second malformed reply, which may be an answer to the person, and a
\* well-formed one without files.
GiveUpOnReply(why) ==
  /\ At("replied")
  /\ why \in {"format", "answered"} => loop.reasked
  /\ Stop(why)
  /\ OnlyLoop

\* Mutant of Refusal: what the revision was refused for replaces the findings.
RefusalAlone == {"refusal"}

\* What the generator is told after a refusal before the next audit.
Refusal == {"refusal"} \cup (IF loop.cause THEN {"cause"} ELSE {})

\* The round is refused; the next is the loop's to take, if there is one.
RefuseRound(why) ==
  IF Last THEN Stop(why)
  ELSE loop' = [loop EXCEPT !.phase = "round", !.told = Refusal]

\* A path outside the scope or changed under the loop ("spent" if it is the last
\* round), or an export that does not validate; before anything is written.
RefuseReply(why) ==
  /\ At("replied")
  /\ RefuseRound(why)
  /\ OnlyLoop

-----------------------------------------------------------------------------
(* The revision. *)

\* apply, as one transaction.
Apply(kind) ==
  /\ At("replied")
  /\ loop' = [loop EXCEPT !.phase = "applied", !.kind = kind]
  /\ tree' = IF kind = "same" THEN tree ELSE tree \cup {[Mine EXCEPT !.kind = kind]}
  /\ UNCHANGED <<resilienceVars, run, queue, lines, index, landed, userWork, dead, outside>>

\* Mutant of Unstaged: git reset.
UnstagedAll == {}

\* The index as it was for the round's own paths.
Unstaged == index \ {Mine}

\* Leaving the with block of a revision that was not finalized.
Rollback ==
  /\ tree' = tree \ {Mine} /\ index' = Unstaged
  /\ UNCHANGED <<resilienceVars, run, queue, lines, landed, userWork, dead, outside>>

\* render_export refuses.
RefuseRendering ==
  /\ At("applied")
  /\ Rollback
  /\ RefuseRound("export")

\* _stage_generated: the round's own files, into an index that may hold more.
Stage ==
  /\ At("applied")
  /\ index' = index \cup (tree \cap {Mine})
  /\ loop' = [loop EXCEPT !.phase = "staged"]
  /\ UNCHANGED <<resilienceVars, run, queue, lines, tree, landed, userWork, dead, outside>>

Holds(kind) == \E x \in index : x.kind = kind

\* Nothing is staged: one free re-ask, and the findings give way to it.
NoProgress ==
  LET told == [loop EXCEPT !.blanks = @ + 1] IN
  /\ At("staged") /\ index = {}
  /\ Rollback
  /\ loop' = IF ~loop.unchanged /\ ~Last
             THEN [told EXCEPT !.phase = "round", !.unchanged = TRUE, !.told = {"refusal"}]
             ELSE [told EXCEPT !.phase = "stopped", !.stop = "no_progress"]

\* _staged_secret reads the added lines in the first 512 KiB of the staged diff, and
\* refuses nothing because there are more: beside a longer file it may see a
\* credential or not, as the order of the paths has it.
ScanPasses == Holds("secret") => Holds("bulk")

RefuseSecret ==
  /\ At("staged") /\ Holds("secret")
  /\ Rollback
  /\ Stop("secret")

\* Mutant of Screened: a repair that was re-asked for is taken as it comes.
ScreenedOnce == loop.repair /\ ~loop.refused

\* Revisions after a BLOCKED audit are screened, until the next audit.
Screened == loop.repair

\* Mutant of FreeRepair: the last round is the one that gets it.
FreeRepairOfLast == ~loop.refused /\ Last

FreeRepair == ~loop.refused /\ ~Last

\* The repair guard refuses what is staged: one free re-ask here too.  What it could
\* not read for its length is refused or let through, as repair.mode has it.
RefuseRepair ==
  LET told == [loop EXCEPT !.refusals = @ + 1, !.told = Refusal] IN
  /\ At("staged") /\ ScanPasses
  /\ Screened /\ (Holds("stray") \/ Holds("bulk"))
  /\ Rollback
  /\ loop' = IF FreeRepair
             THEN [told EXCEPT !.phase = "round", !.refused = TRUE]
             ELSE [told EXCEPT !.phase = "stopped", !.stop = "repair_refused"]

Judge ==
  /\ At("staged") /\ index # {} /\ ScanPasses
  /\ ~(Screened /\ Holds("stray"))
  /\ loop' = [loop EXCEPT !.phase = "judged"]
  /\ OnlyLoop

\* git commit takes the index as it is by now.
Commit ==
  /\ At("judged")
  /\ landed' = index /\ index' = {} /\ tree' = tree \ index
  /\ userWork' = IF userWork = "staged" THEN "committed" ELSE userWork
  /\ loop' = [loop EXCEPT !.phase = "auditing"]
  /\ UNCHANGED <<resilienceVars, run, queue, lines, dead, outside>>

FailCommit ==
  /\ At("judged")
  /\ Rollback
  /\ Stop("uncommitted")

-----------------------------------------------------------------------------
(* The audit. *)

\* Mutant of Stamp: the cycle is named on lines to come only.
StampForward == lines

\* attribute_round: this round's lines written without a cycle.
Stamp == {IF l.round = loop.round THEN [l EXCEPT !.cycle = TRUE] ELSE l : l \in lines}

\* adopt_cycle, and what every audit resets.
Audited ==
  [loop EXCEPT !.cycle = TRUE, !.repair = FALSE, !.kind = None,
               !.adopted = IF @ = 0 THEN loop.round ELSE @]

Audit(next) ==
  /\ At("auditing")
  /\ lines' = Stamp /\ landed' = {}
  /\ loop' = next
  /\ UNCHANGED <<resilienceVars, run, queue, tree, index, userWork, dead, outside>>

Settled == Audit([Audited EXCEPT !.phase = "settled"])

Blocked ==
  Audit([Audited EXCEPT !.phase = "round", !.repair = TRUE, !.cause = TRUE, !.told = {"cause"}])

\* The auditor lost every route, or the budget is spent: cmd_run opened the cycle.
AuditorWaits(why) == Audit([Audited EXCEPT !.phase = "stopped", !.stop = why])

\* The loop returns; if it stopped for a person the decision is recorded (HumanWait).
Return ==
  /\ At("stopped") \/ At("settled")
  /\ loop' = Over
  /\ OnlyLoop

-----------------------------------------------------------------------------
(* What comes from outside. *)

Event == outside < MaxOutside /\ outside' = outside + 1

\* An exception out of the loop: a cancellation seen at an event, a revision whose
\* files changed before staging, an audit that denies.
Abort ==
  /\ Event /\ Working
  /\ tree' = tree \ {Mine} /\ index' = Unstaged /\ landed' = {}
  /\ loop' = Over
  /\ Abandon
  /\ UNCHANGED <<run, queue, lines, userWork, dead>>

\* The process is gone: nothing is rolled back.
Die ==
  /\ Event /\ Working
  /\ dead' = dead \cup {run}
  /\ landed' = {}
  /\ loop' = Over
  /\ Abandon
  /\ UNCHANGED <<run, queue, lines, tree, index, userWork>>

\* enqueue_message, for a run that is live (a parked one is not), while the unread
\* backlog has room.  Ids count up.
SendMessage(m) ==
  /\ Event /\ Working /\ loop.stop \notin Waits
  /\ \A n \in Msgs : queue[n] # None <=> n < m
  /\ Cardinality(Unread) < MaxQueue
  /\ queue' = [queue EXCEPT ![m] = [round |-> loop.round, read |-> FALSE]]
  /\ UNCHANGED <<resilienceVars, run, loop, lines, treeVars, dead>>

\* "A queue hiccup must not kill the round": the drain fails and nothing is consumed.
LoseDrain ==
  /\ Event
  /\ At("round") /\ ~Last
  /\ loop' = NextRound
  /\ UNCHANGED <<resilienceVars, run, queue, lines, treeVars, dead>>

\* The user stages work of their own, in scope or not, of any length.
UserRevision(kind) == [run |-> 0, round |-> 0, kind |-> kind]

UserStages(kind) ==
  /\ Event
  /\ userWork = None /\ userWork' = "staged"
  /\ index' = index \cup {UserRevision(kind)}
  /\ UNCHANGED <<resilienceVars, run, loop, queue, lines, tree, landed, dead>>

RepairProvider ==
  /\ Event
  /\ Reset \/ \E r \in Routes : CoolDown(r)
  /\ UNCHANGED <<run, loop, queue, lines, treeVars, dead>>

-----------------------------------------------------------------------------
LoopStep ==
  \/ StartRound \/ SpendRounds \/ PlaceCall \/ TryRoute \/ LoseRoutes
  \/ \E why \in Waits : RefuseCall(why) \/ AuditorWaits(why)
  \/ Answer \/ UseTool \/ RunJob \/ Reask
  \/ \E why \in {"format", "answered", "refused"} : GiveUpOnReply(why)
  \/ \E why \in {"spent", "export"} : RefuseReply(why)
  \/ \E kind \in Kinds : Apply(kind)
  \/ RefuseRendering \/ Stage \/ NoProgress \/ RefuseSecret \/ RefuseRepair
  \/ Judge \/ Commit \/ FailCommit \/ Settled \/ Blocked \/ Return

Outside ==
  \/ \E continued \in BOOLEAN : Begin(continued)
  \/ \E m \in Msgs : SendMessage(m)
  \/ \E kind \in Kinds \ {"same"} : UserStages(kind)
  \/ LoseDrain \/ Abort \/ Die \/ RepairProvider

Next == LoopStep \/ Outside

\* The worker of a run goes on: every provider call and every tool has a deadline.
Spec == Init /\ [][Next]_vars /\ WF_vars(LoopStep)

-----------------------------------------------------------------------------
(* Properties. *)

\* "No further request can differ from the last one, and burning the remaining
\* rounds on it would present an infrastructure or spending stop as spent content
\* revisions" (build.py): when a provider turn ends without an answer the loop
\* stops in that round and waits for the provider.
OutageStops ==
  [][At("calling") /\ loop'.phase \notin {"calling", "replied", "ended"}
       => loop'.stop \in Waits /\ loop'.round = loop.round]_vars

\* "The audit's findings stay in the prompt: the generator must still see the
\* cause it is being asked to repair" (build.py): whatever was refused since, by
\* the guard, the scope or the export, in whatever order.  They give way only while
\* the last revision is one that changed nothing.
CauseStays ==
  At("calling") /\ loop.cause /\ "cause" \notin loop.told => loop.kind = "same"

\* What was accepted before the last round that read the queue.
Heard == {m \in Msgs : queue[m] # None /\ queue[m].round < loop.drained}

\* "drained exactly once, accumulated for every later round"; "recent steering is
\* what still applies" (build.py): of what was accepted before the queue was last
\* read, in whatever rounds it was read and after whatever refusals and failed
\* drains, the generator lacks only what is older than the newest 16,000 bytes; and
\* it is told nothing else.
GuidanceStays ==
  At("calling") =>
    /\ Prompt \subseteq Heard
    /\ \A m \in Heard \ Prompt : ~(Bytes({n \in Heard : n >= m}) <= GuidanceBytes)

\* Whatever is refused leaves nothing behind and whatever the user staged is left
\* alone: between rounds and after a run the tree and the index hold no revision,
\* but what a dead worker left, and the user's work is staged until it is committed.
RefusedLeavesNothing ==
  /\ \A x \in tree \cup index :
       x.run = 0 \/ x.run \in dead \/ (x = Mine /\ loop.phase \in {"applied", "staged", "judged"})
  /\ userWork = "staged" => \E x \in index : x.run = 0

\* "Defense-in-depth: never commit a credential"; "a repair round is screened before
\* it is committed" (build.py), as far as the screens read: a commit of a loop holds
\* its own revision with a credential only together with a file longer than the scan
\* reads, and after a BLOCKED audit never one the guard refuses by git's own lists,
\* however many refusals and re-asks lie between and whatever the user stages.
OnlyScreenedCommitted ==
  \A x \in landed : x.run = run =>
    /\ x.kind = "secret" => \E y \in landed : y.kind = "bulk"
    /\ x.kind = "stray" => ~loop.cause

\* "self-heal before any human is bothered": a run that stops before its last round
\* because nothing changed, or because its repair was refused, had one re-ask for
\* that same reason.
SelfHealFirst ==
  ~Last => /\ loop.stop = "no_progress" => loop.blanks = 2
           /\ loop.stop = "repair_refused" => loop.refusals = 2

\* The backfill of attribute_round: from the first audit of a run on, every usage
\* line of its rounds names the cycle.  The lines of rounds refused before any
\* audit are left without one.
SpendAttributed ==
  \A l \in lines : Working /\ ~l.cycle => loop.adopted = 0 \/ l.round < loop.adopted

\* The bounds hold together: whatever the generator, the providers and the person
\* do, a loop that began comes to an end.
LoopEnds == Working ~> ~Working
=============================================================================
