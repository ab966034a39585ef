--------------------------- MODULE BuildLoopProofs --------------------------
(***************************************************************************)
(* What the generate-audit-repair loop keeps, for any routes, rounds,      *)
(* retries, tools and messages.  None of the properties is inductive: a    *)
(* refusal is judged in one phase by what earlier phases put into the tree, *)
(* the index, the queue and the prompt, so the invariant says what each    *)
(* phase owes to those before it.                                          *)
(***************************************************************************)
EXTENDS BuildLoop, WellFoundedInduction, FiniteSetTheorems, TLAPS

USE LoopAssumption, ResilienceAssumption, LoopNoneAssumption, NoneAssumption

\* What was read is in owner_guidance; what was not came after the queue was last read.
GuidanceRead ==
  Working =>
    /\ loop.drained <= loop.round
    /\ \A m \in Msgs :
         /\ queue[m] # None =>
              /\ queue[m].round <= loop.round
              /\ IF queue[m].read THEN m \in loop.guided /\ queue[m].round < loop.drained
                 ELSE loop.drained <= queue[m].round
         /\ m \in loop.guided => queue[m] # None /\ queue[m].read

\* The free re-asks are spent once, and the counters stay within their bounds.
Counts ==
  /\ Working => run >= 1
  /\ loop.phase \in {"calling", "replied", "applied", "staged", "judged", "auditing"} =>
       loop.round >= 1
  /\ loop.phase # "stopped" =>
       /\ loop.calls <= MaxTools /\ loop.jobs <= MaxJobs /\ loop.stop = None
       /\ loop.blanks = IF loop.unchanged THEN 1 ELSE 0
       /\ loop.refusals = IF loop.refused THEN 1 ELSE 0
  /\ loop.unchanged \/ loop.refused => MaxRounds >= 2
  /\ SelfHealFirst

\* A round's own revision is in the tree when applied and in the index when staged,
\* so an empty index means a revision that changed nothing.
Placed ==
  loop.phase \in {"applied", "staged", "judged"} =>
    /\ loop.kind \in Kinds
    /\ loop.phase = "applied" /\ loop.kind # "same" => Mine \in tree
    /\ loop.phase # "applied" => (loop.kind # "same" \/ Mine \in tree => Mine \in index)

\* CauseStays from the refusal on, until the next revision is applied.
CauseTold ==
  loop.phase \in {"round", "calling", "replied"} /\ loop.cause /\ "cause" \notin loop.told
    => loop.kind = "same"

\* After a BLOCKED audit the guard is on until the next audit, and what the screens let
\* through is what is committed.
Screens ==
  /\ loop.phase \notin {"stopped", "settled", "ended"} => (loop.cause => loop.repair)
  /\ landed # {} => loop.phase = "auditing"
  /\ loop.phase = "judged" => \A x \in index : x.run = run =>
       /\ x.kind = "secret" => \E y \in index : y.kind = "bulk"
       /\ x.kind = "stray" => ~loop.cause
  /\ OnlyScreenedCommitted

\* A loop that adopted a cycle knows it, and no line is of a round to come.
Billed ==
  /\ loop.adopted # 0 => loop.cycle
  /\ Working => \A l \in lines : l.round <= loop.round
  /\ SpendAttributed

\* TypeOK but for the loop and the calls.
RestTypeOK ==
  /\ run \in 0..MaxRuns
  /\ queue \in [Msgs -> [round: 0..MaxRounds, read: BOOLEAN] \cup {None}]
  /\ lines \in SUBSET [round: Rounds, cycle: BOOLEAN]
  /\ tree \in SUBSET Revision /\ index \in SUBSET Revision /\ landed \in SUBSET Revision
  /\ userWork \in {None, "staged", "committed"}
  /\ dead \in SUBSET Runs
  /\ outside \in 0..MaxOutside

LEMMA FreshIs ==
  /\ Fresh \in Loops
  /\ Fresh.phase = "round" /\ Fresh.round = 0 /\ Fresh.calls = 0 /\ Fresh.jobs = 0
  /\ Fresh.kind = None
  /\ ~Fresh.unchanged /\ ~Fresh.refused /\ ~Fresh.repair /\ ~Fresh.cause
  /\ Fresh.guided = {} /\ Fresh.stop = None /\ Fresh.adopted = 0 /\ Fresh.drained = 0
  /\ Fresh.blanks = 0 /\ Fresh.refusals = 0
  BY DEF Fresh, Phases, Loops

LEMMA OverIs ==
  /\ Over \in Loops
  /\ Over.phase = "ended" /\ Over.round = 0 /\ Over.calls = 0 /\ Over.jobs = 0
  /\ Over.kind = None
  /\ ~Over.unchanged /\ ~Over.refused /\ ~Over.repair /\ ~Over.cause
  /\ Over.guided = {} /\ Over.stop = None /\ Over.adopted = 0 /\ Over.drained = 0
  /\ Over.blanks = 0 /\ Over.refusals = 0
  BY FreshIs DEF Over, Loops, Phases

LEMMA UserRevisionIs == \A kind : UserRevision(kind).run = 0
  BY DEF UserRevision

\* A round begins, whether its drain went through or not.
Entered ==
  /\ loop.phase = "round" /\ loop.round < MaxRounds
  /\ loop'.phase = "calling" /\ loop'.round = loop.round + 1
  /\ loop'.kind = IF loop.kind = "same" THEN loop.kind ELSE None
  /\ loop'.calls = loop.calls /\ loop'.jobs = loop.jobs
  /\ loop'.unchanged = loop.unchanged /\ loop'.refused = loop.refused
  /\ loop'.repair = loop.repair /\ loop'.cause = loop.cause /\ loop'.told = loop.told
  /\ loop'.cycle = loop.cycle /\ loop'.stop = loop.stop /\ loop'.adopted = loop.adopted
  /\ loop'.blanks = loop.blanks /\ loop'.refusals = loop.refusals
  /\ UNCHANGED <<run, lines, tree, index, landed, userWork, dead>>

LEMMA NextRoundIs ==
  ASSUME loop \in Loops, At("round"), ~Last
  PROVE  /\ NextRound \in Loops /\ loop.round + 1 \in 0..MaxRounds
         /\ loop.phase = "round" /\ loop.round < MaxRounds
         /\ NextRound.phase = "calling" /\ NextRound.round = loop.round + 1
         /\ NextRound.kind = IF loop.kind = "same" THEN loop.kind ELSE None
         /\ NextRound.calls = loop.calls /\ NextRound.jobs = loop.jobs
         /\ NextRound.unchanged = loop.unchanged /\ NextRound.refused = loop.refused
         /\ NextRound.repair = loop.repair /\ NextRound.cause = loop.cause
         /\ NextRound.told = loop.told /\ NextRound.cycle = loop.cycle
         /\ NextRound.stop = loop.stop /\ NextRound.adopted = loop.adopted
         /\ NextRound.blanks = loop.blanks /\ NextRound.refusals = loop.refusals
         /\ NextRound.guided = loop.guided /\ NextRound.drained = loop.drained
<1>1. loop.phase = "round" /\ loop.round < MaxRounds /\ loop.round + 1 \in 0..MaxRounds
  BY DEF Loops, At, Last
<1>2. PICK kind \in Kinds \cup {None} :
        /\ kind = IF loop.kind = "same" THEN loop.kind ELSE None
        /\ NextRound = [loop EXCEPT !.phase = "calling", !.round = loop.round + 1,
                                    !.reasked = FALSE, !.kind = kind]
  BY DEF NextRound, Loops
<1>3. NextRound \in Loops
  BY <1>1, <1>2 DEF Loops, Phases
<1> QED
  BY <1>1, <1>2, <1>3 DEF Loops

LEMMA StartRoundIs ==
  ASSUME loop \in Loops, StartRound
  PROVE  /\ loop' \in Loops /\ Entered
         /\ loop'.guided = Guided /\ loop'.drained = loop.round + 1
<1>1. At("round") /\ ~Last
  BY DEF StartRound
<1>2. loop' = [NextRound EXCEPT !.guided = Guided, !.drained = loop.round + 1]
  BY DEF StartRound
<1>3. Guided \in SUBSET Msgs
  BY DEF Guided, Unread, Loops
<1>4. loop' \in Loops
  BY <1>1, <1>2, <1>3, NextRoundIs DEF Loops
<1>5. loop'.guided = Guided /\ loop'.drained = loop.round + 1
  BY <1>1, <1>2, NextRoundIs DEF Loops
<1>6. Entered
  BY <1>1, <1>2, NextRoundIs DEF Loops, Entered, StartRound, treeVars
<1> QED
  BY <1>4, <1>5, <1>6

LEMMA LoseDrainIs ==
  ASSUME loop \in Loops, LoseDrain
  PROVE  /\ loop' \in Loops /\ Entered
         /\ loop'.guided = loop.guided /\ loop'.drained = loop.drained
<1>1. At("round") /\ ~Last /\ loop' = NextRound
  BY DEF LoseDrain
<1>2. Entered
  BY <1>1, NextRoundIs DEF Entered, LoseDrain, treeVars
<1> QED
  BY <1>1, <1>2, NextRoundIs

LEMMA StampTypes ==
  ASSUME TypeOK, Counts, At("auditing")
  PROVE  Stamp \in SUBSET [round: Rounds, cycle: BOOLEAN]
<1>1. \A l \in [round: Rounds, cycle: BOOLEAN] :
        [l EXCEPT !.cycle = TRUE] \in [round: Rounds, cycle: BOOLEAN]
  OBVIOUS
<1>2. \A l \in lines : l \in [round: Rounds, cycle: BOOLEAN]
  BY DEF TypeOK
<1> QED
  BY <1>1, <1>2 DEF Stamp

LEMMA StampBills ==
  ASSUME TypeOK, Counts, Billed, At("auditing"), lines' = Stamp, loop'.round = loop.round,
         loop'.cycle = TRUE,
         loop'.adopted = IF loop.adopted = 0 THEN loop.round ELSE loop.adopted
  PROVE  Billed'
<1>1. \A l \in lines' :
        l.round <= loop.round /\ (~l.cycle => l \in lines /\ l.round # loop.round)
  BY DEF TypeOK, Loops, Billed, Stamp, Working, At
<1>2. \A l \in lines : l.round \in Nat
  BY DEF TypeOK, Loops, Rounds
<1>3. loop.round \in Nat /\ loop.adopted \in Nat /\ loop.round >= 1
  BY DEF TypeOK, Loops, Counts, At
<1>4. \A l \in lines' : ~l.cycle => l.round < loop'.adopted
  BY <1>1, <1>2, <1>3 DEF Billed, SpendAttributed, Working, At
<1> QED
  BY <1>1, <1>4 DEF Billed, SpendAttributed

LEMMA RefusalIs ==
  Refusal \subseteq {"cause", "refusal"} /\ (loop.cause => "cause" \in Refusal)
  BY DEF Refusal

(* The shapes a step has. *)

\* The loop and what it writes stay as they are.
Idle ==
  /\ UNCHANGED <<run, loop, queue, lines, treeVars, dead>>
  /\ Event \/ UNCHANGED outside

\* The round's revision is taken back.
Undone == tree' = tree \ {Mine} /\ index' = index \ {Mine}

\* The loop stops for a person, for any reason but the two that have a re-ask.
HaltStep ==
  \E why \in Stops \ {"no_progress", "repair_refused"} :
    /\ loop' = [loop EXCEPT !.phase = "stopped", !.stop = why]
    /\ UNCHANGED <<run, queue, lines, landed, userWork, dead, outside>>
    /\ \/ /\ loop.phase \in {"round", "calling", "replied"}
          /\ UNCHANGED <<tree, index>>
       \/ /\ loop.phase \in {"applied", "staged", "judged"}
          /\ Undone

\* The round is refused and another follows.
RefuseStep ==
  /\ ~Last
  /\ loop' = [loop EXCEPT !.phase = "round", !.told = Refusal]
  /\ UNCHANGED <<run, queue, lines, landed, userWork, dead, outside>>
  /\ \/ loop.phase = "replied" /\ UNCHANGED <<tree, index>>
     \/ loop.phase = "applied" /\ Undone

EndStep == Return \/ Abort \/ Die

LEMMA Refuses ==
  ASSUME RefuseRendering \/ \E why \in {"spent", "export"} : RefuseReply(why)
  PROVE  HaltStep \/ RefuseStep
<1>1. PICK why \in {"spent", "export"} :
        /\ RefuseRound(why)
        /\ UNCHANGED <<run, queue, lines, landed, userWork, dead, outside>>
        /\ \/ loop.phase = "replied" /\ UNCHANGED <<tree, index>>
           \/ loop.phase = "applied" /\ Undone
  BY DEF RefuseRendering, RefuseReply, OnlyLoop, treeVars, Rollback, Unstaged, Undone,
         At
<1>2. CASE Last
  BY <1>1, <1>2 DEF RefuseRound, Stop, Stops, HaltStep
<1>3. CASE ~Last
  BY <1>1, <1>3 DEF RefuseRound, RefuseStep
<1> QED
  BY <1>2, <1>3

LEMMA Halts ==
  /\ SpendRounds => HaltStep
  /\ LoseRoutes => HaltStep
  /\ \A why \in Waits : RefuseCall(why) => HaltStep
  /\ \A why \in {"format", "answered", "refused"} : GiveUpOnReply(why) => HaltStep
  /\ RefuseSecret => HaltStep
  /\ FailCommit => HaltStep
<1>1. SpendRounds => HaltStep
  BY DEF SpendRounds, Stop, Stops, OnlyLoop, treeVars, At, HaltStep
<1>2. LoseRoutes => HaltStep
  BY DEF LoseRoutes, ExhaustedStop, Stop, Stops, treeVars, At, HaltStep
<1>3. \A why \in Waits : RefuseCall(why) => HaltStep
  BY DEF RefuseCall, Waits, Stop, Stops, OnlyLoop, treeVars, At, HaltStep
<1>4. \A why \in {"format", "answered", "refused"} : GiveUpOnReply(why) => HaltStep
  BY DEF GiveUpOnReply, Stop, Stops, OnlyLoop, treeVars, At, HaltStep
<1>5. RefuseSecret => HaltStep
  BY DEF RefuseSecret, Stop, Stops, Rollback, Unstaged, Undone, At, HaltStep
<1>6. FailCommit => HaltStep
  BY DEF FailCommit, Stop, Stops, Rollback, Unstaged, Undone, At, HaltStep
<1> QED
  BY <1>1, <1>2, <1>3, <1>4, <1>5, <1>6

LEMMA Steps ==
  ASSUME [Next]_vars
  PROVE  \/ Idle \/ StartRound \/ HaltStep \/ RefuseStep
         \/ Answer \/ UseTool \/ RunJob \/ Reask
         \/ \E kind \in Kinds : Apply(kind)
         \/ Stage \/ NoProgress \/ RefuseRepair \/ Judge \/ Commit
         \/ Settled \/ Blocked \/ \E why \in Waits : AuditorWaits(why)
         \/ EndStep
         \/ \E continued \in BOOLEAN : Begin(continued)
         \/ \E m \in Msgs : SendMessage(m)
         \/ \E kind \in Kinds \ {"same"} : UserStages(kind)
         \/ LoseDrain
<1>1. PlaceCall \/ TryRoute \/ RepairProvider \/ UNCHANGED vars => Idle
  BY DEF PlaceCall, TryRoute, RepairProvider, Event, vars, loopVars, Idle
<1> QED
  BY <1>1, Halts, Refuses DEF Next, LoopStep, Outside, EndStep

LEMMA CountsKept ==
  ASSUME TypeOK, Counts, [Next]_vars
  PROVE  Counts'
<1>1. CASE Idle
  BY <1>1 DEF TypeOK, Loops, Counts, SelfHealFirst, Last, At, Working, Stops, Idle,
         loopVars, treeVars
<1>2. CASE StartRound \/ LoseDrain
  BY <1>2, StartRoundIs, LoseDrainIs
    DEF TypeOK, Loops, Counts, SelfHealFirst, Last, At, Working,
         Stops, Entered
<1>3. CASE HaltStep
  BY <1>3 DEF TypeOK, Loops, Counts, SelfHealFirst, Last, At, Working, Stops, HaltStep,
         Undone
<1>4. CASE RefuseStep
  BY <1>4, RefusalIs DEF TypeOK, Loops, Counts, SelfHealFirst, Last, At, Working, Stops,
         RefuseStep, Undone
<1>5. CASE Answer
  BY <1>5 DEF TypeOK, Loops, Counts, SelfHealFirst, Last, At, Working, Stops, Answer,
         treeVars
<1>6. CASE UseTool
  BY <1>6 DEF TypeOK, Loops, Counts, SelfHealFirst, Last, At, Working, Stops, UseTool,
         Serve,
         Counted, OnlyLoop, treeVars
<1>7. CASE Reask
  BY <1>7 DEF TypeOK, Loops, Counts, SelfHealFirst, Last, At, Working, Stops, Reask,
         OnlyLoop, treeVars
<1>8. CASE \E kind \in Kinds : Apply(kind)
  BY <1>8 DEF TypeOK, Loops, Counts, SelfHealFirst, Last, At, Working, Stops, Apply,
         Mine
<1>9. CASE Stage
  BY <1>9 DEF TypeOK, Loops, Counts, SelfHealFirst, Last, At, Working, Stops, Stage
<1>10. CASE NoProgress
  BY <1>10 DEF TypeOK, Loops, Counts, SelfHealFirst, Last, At, Working, Stops,
         NoProgress, Rollback, Unstaged
<1>11. CASE RefuseRepair
  BY <1>11, RefusalIs DEF TypeOK, Loops, Counts, SelfHealFirst, Last, At, Working,
         Stops,
         RefuseRepair, Rollback, Unstaged, FreeRepair
<1>12. CASE Judge
  BY <1>12 DEF TypeOK, Loops, Counts, SelfHealFirst, Last, At, Working, Stops, Judge,
         Screened, ScanPasses, Holds, OnlyLoop, treeVars
<1>13. CASE Commit
  BY <1>13 DEF TypeOK, Loops, Counts, SelfHealFirst, Last, At, Working, Stops, Commit
<1>14. CASE Settled
  BY <1>14 DEF TypeOK, Loops, Counts, SelfHealFirst, Last, At, Working, Stops, Settled,
         Audit, Audited
<1>15. CASE Blocked
  BY <1>15 DEF TypeOK, Loops, Counts, SelfHealFirst, Last, At, Working, Stops, Blocked,
         Audit, Audited
<1>16. CASE \E why \in Waits : AuditorWaits(why)
  BY <1>16 DEF TypeOK, Loops, Counts, SelfHealFirst, Last, At, Working, Stops,
         AuditorWaits, Waits, Audit, Audited
<1>17. CASE EndStep
  BY <1>17, OverIs DEF TypeOK, Loops, Counts, SelfHealFirst, Last, At, Working, Stops,
         EndStep, Return, Abort, Die, Event, Unstaged, OnlyLoop, treeVars
<1>18. CASE \E continued \in BOOLEAN : Begin(continued)
  BY <1>18, FreshIs DEF TypeOK, Loops, Counts, SelfHealFirst, Last, At, Working, Stops,
         Begin
<1>19. CASE \E m \in Msgs : SendMessage(m)
  BY <1>19 DEF TypeOK, Loops, Counts, SelfHealFirst, Last, At, Working, Stops,
         SendMessage, Event, treeVars
<1>20. CASE \E kind \in Kinds \ {"same"} : UserStages(kind)
  BY <1>20, UserRevisionIs DEF TypeOK, Loops, Counts, SelfHealFirst, Last, At, Working,
         Stops, UserStages, Event
<1>21. CASE RunJob
  BY <1>21 DEF TypeOK, Loops, Counts, SelfHealFirst, Last, At, Working, Stops, RunJob,
         Serve,
         Counted, OnlyLoop, treeVars
<1> QED
  BY Steps, <1>1, <1>2, <1>3, <1>4, <1>5, <1>6, <1>7, <1>8, <1>9, <1>10, <1>11, <1>12,
         <1>13, <1>14, <1>15, <1>16, <1>17, <1>18, <1>19, <1>20, <1>21

LEMMA PlacedKept ==
  ASSUME TypeOK, Counts, Placed, [Next]_vars
  PROVE  Placed'
<1>1. CASE Idle
  BY <1>1 DEF TypeOK, Loops, Counts, Placed, Mine, At, Working, Idle, loopVars, treeVars
<1>2. CASE StartRound \/ LoseDrain
  BY <1>2, StartRoundIs, LoseDrainIs DEF TypeOK, Loops, Counts, Placed, Mine, At, Working,
         Entered
<1>3. CASE HaltStep
  BY <1>3 DEF TypeOK, Loops, Counts, Placed, Mine, At, Working, HaltStep, Undone
<1>4. CASE RefuseStep
  BY <1>4, RefusalIs DEF TypeOK, Loops, Counts, Placed, Mine, At, Working, RefuseStep,
         Undone
<1>5. CASE Answer
  BY <1>5 DEF TypeOK, Loops, Counts, Placed, Mine, At, Working, Answer, treeVars
<1>6. CASE UseTool
  BY <1>6 DEF TypeOK, Loops, Counts, Placed, Mine, At, Working, UseTool, Serve, Counted,
         OnlyLoop, treeVars
<1>7. CASE Reask
  BY <1>7 DEF TypeOK, Loops, Counts, Placed, Mine, At, Working, Reask, OnlyLoop,
         treeVars
<1>8. CASE \E kind \in Kinds : Apply(kind)
  BY <1>8 DEF TypeOK, Loops, Counts, Placed, Mine, At, Working, Apply, Mine
<1>9. CASE Stage
  BY <1>9 DEF TypeOK, Loops, Counts, Placed, Mine, At, Working, Stage
<1>10. CASE NoProgress
  BY <1>10 DEF TypeOK, Loops, Counts, Placed, Mine, At, Working, NoProgress, Rollback,
         Unstaged
<1>11. CASE RefuseRepair
  BY <1>11, RefusalIs DEF TypeOK, Loops, Counts, Placed, Mine, At, Working,
         RefuseRepair,
         Rollback, Unstaged, FreeRepair
<1>12. CASE Judge
  BY <1>12 DEF TypeOK, Loops, Counts, Placed, Mine, At, Working, Judge, Screened,
         ScanPasses, Holds,
         OnlyLoop, treeVars
<1>13. CASE Commit
  BY <1>13 DEF TypeOK, Loops, Counts, Placed, Mine, At, Working, Commit
<1>14. CASE Settled
  BY <1>14 DEF TypeOK, Loops, Counts, Placed, Mine, At, Working, Settled, Audit, Audited
<1>15. CASE Blocked
  BY <1>15 DEF TypeOK, Loops, Counts, Placed, Mine, At, Working, Blocked, Audit, Audited
<1>16. CASE \E why \in Waits : AuditorWaits(why)
  BY <1>16 DEF TypeOK, Loops, Counts, Placed, Mine, At, Working, AuditorWaits, Waits,
         Audit, Audited
<1>17. CASE EndStep
  BY <1>17, OverIs DEF TypeOK, Loops, Counts, Placed, Mine, At, Working, EndStep,
         Return,
         Abort, Die, Event, Unstaged, OnlyLoop, treeVars
<1>18. CASE \E continued \in BOOLEAN : Begin(continued)
  BY <1>18, FreshIs DEF TypeOK, Loops, Counts, Placed, Mine, At, Working, Begin
<1>19. CASE \E m \in Msgs : SendMessage(m)
  BY <1>19 DEF TypeOK, Loops, Counts, Placed, Mine, At, Working, SendMessage, Event,
         treeVars
<1>20. CASE \E kind \in Kinds \ {"same"} : UserStages(kind)
  BY <1>20, UserRevisionIs DEF TypeOK, Loops, Counts, Placed, Mine, At, Working,
         UserStages, Event
<1>21. CASE RunJob
  BY <1>21 DEF TypeOK, Loops, Counts, Placed, Mine, At, Working, RunJob, Serve, Counted,
         OnlyLoop, treeVars
<1> QED
  BY Steps, <1>1, <1>2, <1>3, <1>4, <1>5, <1>6, <1>7, <1>8, <1>9, <1>10, <1>11, <1>12,
         <1>13, <1>14, <1>15, <1>16, <1>17, <1>18, <1>19, <1>20, <1>21

LEMMA CauseToldKept ==
  ASSUME TypeOK, Placed, CauseTold, [Next]_vars
  PROVE  CauseTold'
<1>1. CASE Idle
  BY <1>1 DEF TypeOK, Loops, Placed, CauseTold, At, Working, Idle, loopVars, treeVars
<1>2. CASE StartRound \/ LoseDrain
  BY <1>2, StartRoundIs, LoseDrainIs
    DEF TypeOK, Loops, Placed, CauseTold, At, Working, Entered
<1>3. CASE HaltStep
  BY <1>3 DEF TypeOK, Loops, Placed, CauseTold, At, Working, HaltStep, Undone
<1>4. CASE RefuseStep
  BY <1>4, RefusalIs DEF TypeOK, Loops, Placed, CauseTold, At, Working, RefuseStep,
         Undone
<1>5. CASE Answer
  BY <1>5 DEF TypeOK, Loops, Placed, CauseTold, At, Working, Answer, treeVars
<1>6. CASE UseTool
  BY <1>6 DEF TypeOK, Loops, Placed, CauseTold, At, Working, UseTool, Serve, Counted,
         OnlyLoop,
         treeVars
<1>7. CASE Reask
  BY <1>7 DEF TypeOK, Loops, Placed, CauseTold, At, Working, Reask, OnlyLoop, treeVars
<1>8. CASE \E kind \in Kinds : Apply(kind)
  BY <1>8 DEF TypeOK, Loops, Placed, CauseTold, At, Working, Apply, Mine
<1>9. CASE Stage
  BY <1>9 DEF TypeOK, Loops, Placed, CauseTold, At, Working, Stage
<1>10. CASE NoProgress
  BY <1>10 DEF TypeOK, Loops, Placed, CauseTold, At, Working, NoProgress, Rollback,
         Unstaged
<1>11. CASE RefuseRepair
  BY <1>11, RefusalIs DEF TypeOK, Loops, Placed, CauseTold, At, Working, RefuseRepair,
         Rollback, Unstaged, FreeRepair
<1>12. CASE Judge
  BY <1>12 DEF TypeOK, Loops, Placed, CauseTold, At, Working, Judge, Screened,
         ScanPasses, Holds,
         OnlyLoop, treeVars
<1>13. CASE Commit
  BY <1>13 DEF TypeOK, Loops, Placed, CauseTold, At, Working, Commit
<1>14. CASE Settled
  BY <1>14 DEF TypeOK, Loops, Placed, CauseTold, At, Working, Settled, Audit, Audited
<1>15. CASE Blocked
  BY <1>15 DEF TypeOK, Loops, Placed, CauseTold, At, Working, Blocked, Audit, Audited
<1>16. CASE \E why \in Waits : AuditorWaits(why)
  BY <1>16 DEF TypeOK, Loops, Placed, CauseTold, At, Working, AuditorWaits, Waits,
         Audit,
         Audited
<1>17. CASE EndStep
  BY <1>17, OverIs DEF TypeOK, Loops, Placed, CauseTold, At, Working, EndStep, Return,
         Abort, Die, Event, Unstaged, OnlyLoop, treeVars
<1>18. CASE \E continued \in BOOLEAN : Begin(continued)
  BY <1>18, FreshIs DEF TypeOK, Loops, Placed, CauseTold, At, Working, Begin
<1>19. CASE \E m \in Msgs : SendMessage(m)
  BY <1>19 DEF TypeOK, Loops, Placed, CauseTold, At, Working, SendMessage, Event,
         treeVars
<1>20. CASE \E kind \in Kinds \ {"same"} : UserStages(kind)
  BY <1>20, UserRevisionIs DEF TypeOK, Loops, Placed, CauseTold, At, Working,
         UserStages,
         Event
<1>21. CASE RunJob
  BY <1>21 DEF TypeOK, Loops, Placed, CauseTold, At, Working, RunJob, Serve, Counted,
         OnlyLoop,
         treeVars
<1> QED
  BY Steps, <1>1, <1>2, <1>3, <1>4, <1>5, <1>6, <1>7, <1>8, <1>9, <1>10, <1>11, <1>12,
         <1>13, <1>14, <1>15, <1>16, <1>17, <1>18, <1>19, <1>20, <1>21

LEMMA NothingLeft ==
  ASSUME TypeOK, Counts, Placed, RefusedLeavesNothing, [Next]_vars
  PROVE  RefusedLeavesNothing'
<1>1. CASE Idle
  BY <1>1 DEF TypeOK, Loops, Counts, Placed, RefusedLeavesNothing, Mine, At, Working,
         Idle, loopVars, treeVars
<1>2. CASE StartRound \/ LoseDrain
  BY <1>2, StartRoundIs, LoseDrainIs
    DEF TypeOK, Loops, Counts, Placed, RefusedLeavesNothing, Mine,
         At, Working, Entered
<1>3. CASE HaltStep
  BY <1>3 DEF TypeOK, Loops, Counts, Placed, RefusedLeavesNothing, Mine, At, Working,
         HaltStep, Undone
<1>4. CASE RefuseStep
  BY <1>4, RefusalIs DEF TypeOK, Loops, Counts, Placed, RefusedLeavesNothing, Mine, At,
         Working, RefuseStep, Undone
<1>5. CASE Answer
  BY <1>5 DEF TypeOK, Loops, Counts, Placed, RefusedLeavesNothing, Mine, At, Working,
         Answer, treeVars
<1>6. CASE UseTool
  BY <1>6 DEF TypeOK, Loops, Counts, Placed, RefusedLeavesNothing, Mine, At, Working,
         UseTool, Serve, Counted, OnlyLoop, treeVars
<1>7. CASE Reask
  BY <1>7 DEF TypeOK, Loops, Counts, Placed, RefusedLeavesNothing, Mine, At, Working,
         Reask, OnlyLoop, treeVars
<1>8. CASE \E kind \in Kinds : Apply(kind)
  BY <1>8 DEF TypeOK, Loops, Counts, Placed, RefusedLeavesNothing, Mine, At, Working,
         Apply, Mine
<1>9. CASE Stage
  BY <1>9 DEF TypeOK, Loops, Counts, Placed, RefusedLeavesNothing, Mine, At, Working,
         Stage
<1>10. CASE NoProgress
  BY <1>10 DEF TypeOK, Loops, Counts, Placed, RefusedLeavesNothing, Mine, At, Working,
         NoProgress, Rollback, Unstaged
<1>11. CASE RefuseRepair
  BY <1>11, RefusalIs DEF TypeOK, Loops, Counts, Placed, RefusedLeavesNothing, Mine, At,
         Working, RefuseRepair, Rollback, Unstaged, FreeRepair
<1>12. CASE Judge
  BY <1>12 DEF TypeOK, Loops, Counts, Placed, RefusedLeavesNothing, Mine, At, Working,
         Judge, Screened, ScanPasses, Holds, OnlyLoop, treeVars
<1>13. CASE Commit
  BY <1>13 DEF TypeOK, Loops, Counts, Placed, RefusedLeavesNothing, Mine, At, Working,
         Commit
<1>14. CASE Settled
  BY <1>14 DEF TypeOK, Loops, Counts, Placed, RefusedLeavesNothing, Mine, At, Working,
         Settled, Audit, Audited
<1>15. CASE Blocked
  BY <1>15 DEF TypeOK, Loops, Counts, Placed, RefusedLeavesNothing, Mine, At, Working,
         Blocked, Audit, Audited
<1>16. CASE \E why \in Waits : AuditorWaits(why)
  BY <1>16 DEF TypeOK, Loops, Counts, Placed, RefusedLeavesNothing, Mine, At, Working,
         AuditorWaits, Waits, Audit, Audited
<1>17. CASE EndStep
  BY <1>17, OverIs DEF TypeOK, Loops, Counts, Placed, RefusedLeavesNothing, Mine, At,
         Working, EndStep, Return, Abort, Die, Event, Unstaged, OnlyLoop, treeVars
<1>18. CASE \E continued \in BOOLEAN : Begin(continued)
  BY <1>18, FreshIs DEF TypeOK, Loops, Counts, Placed, RefusedLeavesNothing, Mine, At,
         Working, Begin
<1>19. CASE \E m \in Msgs : SendMessage(m)
  BY <1>19 DEF TypeOK, Loops, Counts, Placed, RefusedLeavesNothing, Mine, At, Working,
         SendMessage, Event, treeVars
<1>20. CASE \E kind \in Kinds \ {"same"} : UserStages(kind)
  BY <1>20, UserRevisionIs DEF TypeOK, Loops, Counts, Placed, RefusedLeavesNothing,
         Mine,
         At, Working, UserStages, Event
<1>21. CASE RunJob
  BY <1>21 DEF TypeOK, Loops, Counts, Placed, RefusedLeavesNothing, Mine, At, Working,
         RunJob, Serve, Counted, OnlyLoop, treeVars
<1> QED
  BY Steps, <1>1, <1>2, <1>3, <1>4, <1>5, <1>6, <1>7, <1>8, <1>9, <1>10, <1>11, <1>12,
         <1>13, <1>14, <1>15, <1>16, <1>17, <1>18, <1>19, <1>20, <1>21

LEMMA ScreensKept ==
  ASSUME TypeOK, Counts, Screens, [Next]_vars
  PROVE  Screens'
<1>1. CASE Idle
  BY <1>1 DEF TypeOK, Loops, Counts, Screens, OnlyScreenedCommitted, At, Working, Idle,
         loopVars, treeVars
<1>2. CASE StartRound \/ LoseDrain
  BY <1>2, StartRoundIs, LoseDrainIs
    DEF TypeOK, Loops, Counts, Screens, OnlyScreenedCommitted, At,
         Working, Entered
<1>3. CASE HaltStep
  BY <1>3 DEF TypeOK, Loops, Counts, Screens, OnlyScreenedCommitted, At, Working,
         HaltStep, Undone
<1>4. CASE RefuseStep
  BY <1>4, RefusalIs DEF TypeOK, Loops, Counts, Screens, OnlyScreenedCommitted, At,
         Working, RefuseStep, Undone
<1>5. CASE Answer
  BY <1>5 DEF TypeOK, Loops, Counts, Screens, OnlyScreenedCommitted, At, Working,
         Answer,
         treeVars
<1>6. CASE UseTool
  BY <1>6 DEF TypeOK, Loops, Counts, Screens, OnlyScreenedCommitted, At, Working,
         UseTool, Serve, Counted, OnlyLoop, treeVars
<1>7. CASE Reask
  BY <1>7 DEF TypeOK, Loops, Counts, Screens, OnlyScreenedCommitted, At, Working, Reask,
         OnlyLoop, treeVars
<1>8. CASE \E kind \in Kinds : Apply(kind)
  BY <1>8 DEF TypeOK, Loops, Counts, Screens, OnlyScreenedCommitted, At, Working, Apply,
         Mine
<1>9. CASE Stage
  BY <1>9 DEF TypeOK, Loops, Counts, Screens, OnlyScreenedCommitted, At, Working, Stage
<1>10. CASE NoProgress
  BY <1>10 DEF TypeOK, Loops, Counts, Screens, OnlyScreenedCommitted, At, Working,
         NoProgress, Rollback, Unstaged
<1>11. CASE RefuseRepair
  BY <1>11, RefusalIs DEF TypeOK, Loops, Counts, Screens, OnlyScreenedCommitted, At,
         Working, RefuseRepair, Rollback, Unstaged, FreeRepair
<1>12. CASE Judge
  BY <1>12 DEF TypeOK, Loops, Counts, Screens, OnlyScreenedCommitted, At, Working,
         Judge,
         Screened, ScanPasses, Holds, OnlyLoop, treeVars
<1>13. CASE Commit
  BY <1>13 DEF TypeOK, Loops, Counts, Screens, OnlyScreenedCommitted, At, Working,
         Commit
<1>14. CASE Settled
  BY <1>14 DEF TypeOK, Loops, Counts, Screens, OnlyScreenedCommitted, At, Working,
         Settled, Audit, Audited
<1>15. CASE Blocked
  BY <1>15 DEF TypeOK, Loops, Counts, Screens, OnlyScreenedCommitted, At, Working,
         Blocked, Audit, Audited
<1>16. CASE \E why \in Waits : AuditorWaits(why)
  BY <1>16 DEF TypeOK, Loops, Counts, Screens, OnlyScreenedCommitted, At, Working,
         AuditorWaits, Waits, Audit, Audited
<1>17. CASE EndStep
  BY <1>17, OverIs DEF TypeOK, Loops, Counts, Screens, OnlyScreenedCommitted, At,
         Working, EndStep, Return, Abort, Die, Event, Unstaged, OnlyLoop, treeVars
<1>18. CASE \E continued \in BOOLEAN : Begin(continued)
  BY <1>18, FreshIs DEF TypeOK, Loops, Counts, Screens, OnlyScreenedCommitted, At,
         Working, Begin
<1>19. CASE \E m \in Msgs : SendMessage(m)
  BY <1>19 DEF TypeOK, Loops, Counts, Screens, OnlyScreenedCommitted, At, Working,
         SendMessage, Event, treeVars
<1>20. CASE \E kind \in Kinds \ {"same"} : UserStages(kind)
  BY <1>20, UserRevisionIs DEF TypeOK, Loops, Counts, Screens, OnlyScreenedCommitted,
         At,
         Working, UserStages, Event
<1>21. CASE RunJob
  BY <1>21 DEF TypeOK, Loops, Counts, Screens, OnlyScreenedCommitted, At, Working,
         RunJob, Serve, Counted, OnlyLoop, treeVars
<1> QED
  BY Steps, <1>1, <1>2, <1>3, <1>4, <1>5, <1>6, <1>7, <1>8, <1>9, <1>10, <1>11, <1>12,
         <1>13, <1>14, <1>15, <1>16, <1>17, <1>18, <1>19, <1>20, <1>21

LEMMA BilledKept ==
  ASSUME TypeOK, Counts, Billed, [Next]_vars
  PROVE  Billed'
<1>1. CASE Idle
  BY <1>1 DEF TypeOK, Loops, Counts, Billed, SpendAttributed, At, Working, Idle,
         loopVars, treeVars
<1>2. CASE StartRound \/ LoseDrain
  <2>1. Working /\ loop'.round = loop.round + 1 /\ loop'.cycle = loop.cycle
        /\ loop'.adopted = loop.adopted /\ lines' = lines
    BY <1>2, StartRoundIs, LoseDrainIs DEF TypeOK, Entered, Working
  <2>2. \A l \in lines : l.round \in Nat
    BY DEF TypeOK, Rounds
  <2> QED
    BY <2>1, <2>2 DEF TypeOK, Loops, Billed, SpendAttributed
<1>3. CASE HaltStep
  BY <1>3 DEF TypeOK, Loops, Counts, Billed, SpendAttributed, At, Working, HaltStep,
         Undone
<1>4. CASE RefuseStep
  BY <1>4, RefusalIs DEF TypeOK, Loops, Counts, Billed, SpendAttributed, At, Working,
         RefuseStep, Undone
<1>5. CASE Answer
  BY <1>5 DEF TypeOK, Loops, Counts, Billed, SpendAttributed, At, Working, Answer,
         treeVars
<1>6. CASE UseTool
  BY <1>6 DEF TypeOK, Loops, Counts, Billed, SpendAttributed, At, Working, UseTool,
         Serve,
         Counted, OnlyLoop, treeVars
<1>7. CASE Reask
  BY <1>7 DEF TypeOK, Loops, Counts, Billed, SpendAttributed, At, Working, Reask,
         OnlyLoop, treeVars
<1>8. CASE \E kind \in Kinds : Apply(kind)
  BY <1>8 DEF TypeOK, Loops, Counts, Billed, SpendAttributed, At, Working, Apply, Mine
<1>9. CASE Stage
  BY <1>9 DEF TypeOK, Loops, Counts, Billed, SpendAttributed, At, Working, Stage
<1>10. CASE NoProgress
  BY <1>10 DEF TypeOK, Loops, Counts, Billed, SpendAttributed, At, Working, NoProgress,
         Rollback, Unstaged
<1>11. CASE RefuseRepair
  BY <1>11, RefusalIs DEF TypeOK, Loops, Counts, Billed, SpendAttributed, At, Working,
         RefuseRepair, Rollback, Unstaged, FreeRepair
<1>12. CASE Judge
  BY <1>12 DEF TypeOK, Loops, Counts, Billed, SpendAttributed, At, Working, Judge,
         Screened, ScanPasses, Holds, OnlyLoop, treeVars
<1>13. CASE Commit
  BY <1>13 DEF TypeOK, Loops, Counts, Billed, SpendAttributed, At, Working, Commit
<1>14. CASE Settled
  BY <1>14, StampBills DEF TypeOK, Loops, At, Audit, Audited, Settled
<1>15. CASE Blocked
  BY <1>15, StampBills DEF TypeOK, Loops, At, Audit, Audited, Blocked
<1>16. CASE \E why \in Waits : AuditorWaits(why)
  BY <1>16, StampBills DEF TypeOK, Loops, At, Audit, Audited, AuditorWaits
<1>17. CASE EndStep
  BY <1>17, OverIs DEF TypeOK, Loops, Counts, Billed, SpendAttributed, At, Working,
         EndStep, Return, Abort, Die, Event, Unstaged, OnlyLoop, treeVars
<1>18. CASE \E continued \in BOOLEAN : Begin(continued)
  BY <1>18, FreshIs DEF TypeOK, Loops, Counts, Billed, SpendAttributed, At, Working,
         Begin
<1>19. CASE \E m \in Msgs : SendMessage(m)
  BY <1>19 DEF TypeOK, Loops, Counts, Billed, SpendAttributed, At, Working, SendMessage,
         Event, treeVars
<1>20. CASE \E kind \in Kinds \ {"same"} : UserStages(kind)
  BY <1>20, UserRevisionIs DEF TypeOK, Loops, Counts, Billed, SpendAttributed, At,
         Working, UserStages, Event
<1>21. CASE RunJob
  BY <1>21 DEF TypeOK, Loops, Counts, Billed, SpendAttributed, At, Working, RunJob,
         Serve,
         Counted, OnlyLoop, treeVars
<1> QED
  BY Steps, <1>1, <1>2, <1>3, <1>4, <1>5, <1>6, <1>7, <1>8, <1>9, <1>10, <1>11, <1>12,
         <1>13, <1>14, <1>15, <1>16, <1>17, <1>18, <1>19, <1>20, <1>21

LEMMA LoopTyped ==
  ASSUME loop \in Loops, Counts, [Next]_vars
  PROVE  (loop \in Loops)'
<1>1. CASE Idle
  BY <1>1 DEF Loops, Counts, At, Working, Phases, Stops, Idle, loopVars, treeVars
<1>2. CASE StartRound \/ LoseDrain
  BY <1>2, StartRoundIs, LoseDrainIs
<1>3. CASE HaltStep
  <2>1. PICK why \in Stops : loop' = [loop EXCEPT !.phase = "stopped", !.stop = why]
    BY <1>3 DEF HaltStep
  <2> QED
    BY <2>1 DEF Loops, Phases
<1>4. CASE RefuseStep
  BY <1>4, RefusalIs DEF Loops, Counts, At, Working, Phases, Stops, RefuseStep, Undone
<1>5. CASE Answer
  BY <1>5 DEF Loops, Counts, At, Working, Phases, Stops, Answer, treeVars
<1>6. CASE UseTool
  <2>1. loop.calls + 1 \in 0..(MaxTools + 1) /\ "refused" \in Stops
    BY <1>6 DEF UseTool, Serve, Counts, Loops, At, Stops
  <2> QED
    BY <1>6, <2>1 DEF UseTool, Serve, Counted, Loops, Phases
<1>7. CASE Reask
  BY <1>7 DEF Loops, Counts, At, Working, Phases, Stops, Reask, OnlyLoop, treeVars
<1>8. CASE \E kind \in Kinds : Apply(kind)
  <2>1. PICK kind \in Kinds : loop' = [loop EXCEPT !.phase = "applied", !.kind = kind]
    BY <1>8 DEF Apply
  <2> QED
    BY <2>1 DEF Loops, Phases
<1>9. CASE Stage
  BY <1>9 DEF Loops, Counts, At, Working, Phases, Stops, Stage
<1>10. CASE NoProgress
  <2>1. loop.blanks + 1 \in 0..MaxRounds /\ "no_progress" \in Stops
    BY <1>10 DEF NoProgress, Counts, Loops, At, Stops
  <2> QED
    BY <1>10, <2>1 DEF NoProgress, Loops, Phases
<1>11. CASE RefuseRepair
  <2>1. loop.refusals + 1 \in 0..MaxRounds /\ "repair_refused" \in Stops
    BY <1>11 DEF RefuseRepair, Counts, Loops, At, Stops
  <2> QED
    BY <1>11, <2>1, RefusalIs DEF RefuseRepair, Loops, Phases
<1>12. CASE Judge
  BY <1>12 DEF Loops, Counts, At, Working, Phases, Stops, Judge, Screened, ScanPasses,
         Holds,
         OnlyLoop, treeVars
<1>13. CASE Commit
  BY <1>13 DEF Loops, Counts, At, Working, Phases, Stops, Commit
<1>14. CASE Settled
  BY <1>14 DEF Loops, Counts, At, Working, Phases, Stops, Settled, Audit, Audited
<1>15. CASE Blocked
  BY <1>15 DEF Loops, Counts, At, Working, Phases, Stops, Blocked, Audit, Audited
<1>16. CASE \E why \in Waits : AuditorWaits(why)
  <2>1. PICK why \in Stops : loop' = [Audited EXCEPT !.phase = "stopped", !.stop = why]
    BY <1>16 DEF AuditorWaits, Audit, Waits, Stops
  <2> QED
    BY <2>1 DEF Audited, Loops, Phases
<1>17. CASE EndStep
  BY <1>17, OverIs DEF Loops, Counts, At, Working, Phases, Stops, EndStep, Return,
         Abort,
         Die, Event, Unstaged, OnlyLoop, treeVars
<1>18. CASE \E continued \in BOOLEAN : Begin(continued)
  BY <1>18, FreshIs DEF Loops, Counts, At, Working, Phases, Stops, Begin
<1>19. CASE \E m \in Msgs : SendMessage(m)
  BY <1>19 DEF Loops, Counts, At, Working, Phases, Stops, SendMessage, Event, treeVars
<1>20. CASE \E kind \in Kinds \ {"same"} : UserStages(kind)
  BY <1>20, UserRevisionIs DEF Loops, Counts, At, Working, Phases, Stops, UserStages,
         Event
<1>21. CASE RunJob
  <2>1. loop.jobs + 1 \in 0..(MaxJobs + 1) /\ "refused" \in Stops
    BY <1>21 DEF RunJob, Serve, Counts, Loops, At, Stops
  <2> QED
    BY <1>21, <2>1 DEF RunJob, Serve, Counted, Loops, Phases
<1> QED
  BY Steps, <1>1, <1>2, <1>3, <1>4, <1>5, <1>6, <1>7, <1>8, <1>9, <1>10, <1>11, <1>12,
         <1>13, <1>14, <1>15, <1>16, <1>17, <1>18, <1>19, <1>20, <1>21

LEMMA RestTyped ==
  ASSUME TypeOK, Counts, [Next]_vars
  PROVE  RestTypeOK'
<1>1. CASE Idle
  BY <1>1 DEF TypeOK, RestTypeOK, Idle, Event, treeVars
<1>2. CASE StartRound
  <2>1. \A m \in Unread : [queue[m] EXCEPT !.read = TRUE] \in [round: 0..MaxRounds, read: BOOLEAN]
    BY DEF TypeOK, Unread
  <2> QED
    BY <1>2, <2>1 DEF TypeOK, RestTypeOK, StartRound, treeVars
<1>3. CASE HaltStep
  BY <1>3 DEF TypeOK, Loops, Counts, RestTypeOK, At, Runs, HaltStep, Undone
<1>4. CASE RefuseStep
  BY <1>4, RefusalIs DEF TypeOK, Loops, Counts, RestTypeOK, At, Working, Runs,
         RefuseStep, Undone
<1>5. CASE Answer
  <2>1. [round |-> loop.round, cycle |-> loop.cycle] \in [round: Rounds, cycle: BOOLEAN]
    BY <1>5 DEF TypeOK, Loops, Counts, Answer, At, Rounds
  <2> QED
    BY <1>5, <2>1 DEF TypeOK, RestTypeOK, Answer, treeVars
<1>6. CASE UseTool
  BY <1>6 DEF TypeOK, Loops, Counts, RestTypeOK, At, Runs, UseTool, Serve, Counted,
         OnlyLoop, treeVars
<1>7. CASE Reask
  BY <1>7 DEF TypeOK, Loops, Counts, RestTypeOK, At, Runs, Reask, OnlyLoop,
         treeVars
<1>8. CASE \E kind \in Kinds : Apply(kind)
  <2>1. PICK kind \in Kinds : Apply(kind)
    BY <1>8
  <2>2. [Mine EXCEPT !.kind = kind] \in Revision
    BY DEF TypeOK, Loops, Mine, Revision
  <2> QED
    BY <2>1, <2>2 DEF TypeOK, RestTypeOK, Apply
<1>9. CASE Stage
  BY <1>9 DEF TypeOK, Loops, Counts, RestTypeOK, At, Runs, Stage
<1>10. CASE NoProgress
  BY <1>10 DEF TypeOK, Loops, Counts, RestTypeOK, At, Runs, NoProgress,
         Rollback, Unstaged
<1>11. CASE RefuseRepair
  BY <1>11, RefusalIs DEF TypeOK, Loops, Counts, RestTypeOK, At, Working, Runs,
         RefuseRepair, Rollback, Unstaged, FreeRepair
<1>12. CASE Judge
  BY <1>12 DEF TypeOK, Loops, Counts, RestTypeOK, At, Runs, Judge, Screened,
         Holds, OnlyLoop, treeVars
<1>13. CASE Commit
  BY <1>13 DEF TypeOK, Loops, Counts, RestTypeOK, At, Runs, Commit
<1>14. CASE Settled
  BY <1>14, StampTypes DEF TypeOK, RestTypeOK, At, Audit, Settled
<1>15. CASE Blocked
  BY <1>15, StampTypes DEF TypeOK, RestTypeOK, At, Audit, Blocked
<1>16. CASE \E why \in Waits : AuditorWaits(why)
  BY <1>16, StampTypes DEF TypeOK, RestTypeOK, At, Audit, AuditorWaits
<1>17. CASE EndStep
  <2>1. CASE Return
    BY <2>1 DEF TypeOK, RestTypeOK, Return, OnlyLoop, treeVars
  <2>2. CASE Abort
    BY <2>2 DEF TypeOK, RestTypeOK, Abort, Unstaged, Event
  <2>3. CASE Die
    <3>1. run \in Runs
      BY <2>3 DEF TypeOK, Counts, Die, Runs
    <3> QED
      BY <2>3, <3>1 DEF TypeOK, RestTypeOK, Die, Event
  <2> QED
    BY <1>17, <2>1, <2>2, <2>3 DEF EndStep
<1>18. CASE \E continued \in BOOLEAN : Begin(continued)
  BY <1>18, FreshIs DEF TypeOK, Loops, Counts, RestTypeOK, At, Runs, Begin
<1>19. CASE \E m \in Msgs : SendMessage(m)
  BY <1>19 DEF TypeOK, Loops, Counts, RestTypeOK, At, Runs, SendMessage, Event,
         treeVars
<1>20. CASE \E kind \in Kinds \ {"same"} : UserStages(kind)
  <2>1. PICK kind \in Kinds \ {"same"} : UserStages(kind)
    BY <1>20
  <2>2. UserRevision(kind) \in Revision
    BY DEF UserRevision, Revision, Kinds
  <2> QED
    BY <2>1, <2>2 DEF TypeOK, RestTypeOK, UserStages, Event
<1>21. CASE RunJob
  BY <1>21 DEF TypeOK, Loops, Counts, RestTypeOK, At, Runs, RunJob, Serve, Counted,
         OnlyLoop, treeVars
<1>22. CASE LoseDrain
  BY <1>22 DEF TypeOK, RestTypeOK, LoseDrain, Event, treeVars
<1> QED
  BY Steps, <1>1, <1>2, <1>3, <1>4, <1>5, <1>6, <1>7, <1>8, <1>9, <1>10, <1>11, <1>12,
         <1>13, <1>14, <1>15, <1>16, <1>17, <1>18, <1>19, <1>20, <1>21, <1>22

LEMMA GuidanceReadKept ==
  ASSUME TypeOK, GuidanceRead, [Next]_vars
  PROVE  GuidanceRead'
<1>1. CASE Idle
  BY <1>1 DEF TypeOK, Loops, GuidanceRead, At, Working, Idle, loopVars, treeVars
<1>2. CASE StartRound
  <2>1. /\ Working /\ loop'.guided = Guided /\ loop.round \in Nat /\ loop.drained \in Nat
        /\ loop'.round = loop.round + 1 /\ loop'.drained = loop.round + 1
    BY <1>2, StartRoundIs DEF TypeOK, Loops, Entered, Working
  <2>2. \A m \in Msgs : queue'[m] = IF m \in Unread THEN [queue[m] EXCEPT !.read = TRUE]
                                    ELSE queue[m]
    BY <1>2 DEF StartRound
  <2>3. \A m \in Msgs : queue[m] # None => queue[m] \in [round: 0..MaxRounds, read: BOOLEAN]
    BY DEF TypeOK
  <2> SUFFICES ASSUME NEW m \in Msgs
               PROVE  /\ queue'[m] # None =>
                           /\ queue'[m].round <= loop'.round
                           /\ IF queue'[m].read
                              THEN m \in loop'.guided /\ queue'[m].round < loop'.drained
                              ELSE loop'.drained <= queue'[m].round
                      /\ m \in loop'.guided => queue'[m] # None /\ queue'[m].read
    BY <2>1 DEF GuidanceRead
  <2>4. /\ loop.drained <= loop.round
        /\ queue[m] # None =>
             /\ queue[m].round <= loop.round
             /\ IF queue[m].read THEN m \in loop.guided /\ queue[m].round < loop.drained
                ELSE loop.drained <= queue[m].round
        /\ m \in loop.guided => queue[m] # None /\ queue[m].read
    BY <2>1 DEF GuidanceRead
  <2>5. CASE m \in Unread
    <3>1. queue[m] # None /\ ~queue[m].read /\ queue[m].round <= loop.round
      BY <2>4, <2>5 DEF Unread
    <3>2. queue'[m] = [queue[m] EXCEPT !.read = TRUE]
      BY <2>2, <2>5
    <3>3. queue[m] \in [round: 0..MaxRounds, read: BOOLEAN]
      BY <2>3, <3>1
    <3>4. queue'[m] \in [round: 0..MaxRounds, read: BOOLEAN]
      BY <3>2, <3>3
    <3>5. queue'[m].read /\ queue'[m].round = queue[m].round /\ queue[m].round \in Nat
      BY <3>2, <3>3
    <3>6. queue'[m] # None
      BY <3>4
    <3> QED
      BY <2>1, <2>5, <3>1, <3>5, <3>6 DEF Guided
  <2>6. CASE m \notin Unread
    <3>1. queue'[m] = queue[m]
      BY <2>2, <2>6
    <3>2. queue[m] # None => queue[m].read
      BY <2>6 DEF Unread
    <3>3. queue[m] # None => queue[m].round \in Nat
      BY <2>3
    <3>4. m \in loop'.guided <=> m \in loop.guided
      BY <2>1, <2>6 DEF Guided
    <3> QED
      BY <2>1, <2>4, <3>1, <3>2, <3>3, <3>4
  <2> QED
    BY <2>5, <2>6
<1>3. CASE HaltStep
  BY <1>3 DEF TypeOK, Loops, GuidanceRead, At, Working, HaltStep, Undone
<1>4. CASE RefuseStep
  BY <1>4, RefusalIs DEF TypeOK, Loops, GuidanceRead, At, Working, RefuseStep, Undone
<1>5. CASE Answer
  BY <1>5 DEF TypeOK, Loops, GuidanceRead, At, Working, Answer, treeVars
<1>6. CASE UseTool
  BY <1>6 DEF TypeOK, Loops, GuidanceRead, At, Working, UseTool, Serve, Counted,
         OnlyLoop,
         treeVars
<1>7. CASE Reask
  BY <1>7 DEF TypeOK, Loops, GuidanceRead, At, Working, Reask, OnlyLoop, treeVars
<1>8. CASE \E kind \in Kinds : Apply(kind)
  BY <1>8 DEF TypeOK, Loops, GuidanceRead, At, Working, Apply, Mine
<1>9. CASE Stage
  BY <1>9 DEF TypeOK, Loops, GuidanceRead, At, Working, Stage
<1>10. CASE NoProgress
  BY <1>10 DEF TypeOK, Loops, GuidanceRead, At, Working, NoProgress, Rollback, Unstaged
<1>11. CASE RefuseRepair
  BY <1>11, RefusalIs DEF TypeOK, Loops, GuidanceRead, At, Working, RefuseRepair,
         Rollback, Unstaged, FreeRepair
<1>12. CASE Judge
  BY <1>12 DEF TypeOK, Loops, GuidanceRead, At, Working, Judge, Screened, ScanPasses,
         Holds,
         OnlyLoop, treeVars
<1>13. CASE Commit
  BY <1>13 DEF TypeOK, Loops, GuidanceRead, At, Working, Commit
<1>14. CASE Settled
  BY <1>14 DEF TypeOK, Loops, GuidanceRead, At, Working, Settled, Audit, Audited
<1>15. CASE Blocked
  BY <1>15 DEF TypeOK, Loops, GuidanceRead, At, Working, Blocked, Audit, Audited
<1>16. CASE \E why \in Waits : AuditorWaits(why)
  BY <1>16 DEF TypeOK, Loops, GuidanceRead, At, Working, AuditorWaits, Waits, Audit,
         Audited
<1>17. CASE EndStep
  BY <1>17, OverIs DEF TypeOK, Loops, GuidanceRead, At, Working, EndStep, Return, Abort,
         Die, Event, Unstaged, OnlyLoop, treeVars
<1>18. CASE \E continued \in BOOLEAN : Begin(continued)
  BY <1>18, FreshIs DEF TypeOK, Loops, GuidanceRead, At, Working, Begin
<1>19. CASE \E m \in Msgs : SendMessage(m)
  <2>1. PICK m \in Msgs : SendMessage(m)
    BY <1>19
  <2>2. /\ Working /\ UNCHANGED loop /\ queue[m] = None
        /\ queue' = [queue EXCEPT ![m] = [round |-> loop.round, read |-> FALSE]]
    BY <2>1 DEF SendMessage, Msgs
  <2>3. loop.round \in 0..MaxRounds /\ loop.drained \in Nat /\ loop.drained <= loop.round
        /\ m \notin loop.guided
    BY <2>2 DEF TypeOK, Loops, GuidanceRead
  <2>4. /\ queue'[m] = [round |-> loop.round, read |-> FALSE]
        /\ \A n \in Msgs \ {m} : queue'[n] = queue[n]
    BY <2>2 DEF TypeOK
  <2> QED
    BY <2>2, <2>3, <2>4 DEF GuidanceRead, Working
<1>20. CASE \E kind \in Kinds \ {"same"} : UserStages(kind)
  BY <1>20, UserRevisionIs DEF TypeOK, Loops, GuidanceRead, At, Working, UserStages,
         Event
<1>21. CASE RunJob
  BY <1>21 DEF TypeOK, Loops, GuidanceRead, At, Working, RunJob, Serve, Counted,
         OnlyLoop,
         treeVars
<1>22. CASE LoseDrain
  <2>1. /\ Working /\ loop.round \in Nat /\ loop.drained \in Nat
        /\ loop'.round = loop.round + 1
        /\ loop'.drained = loop.drained /\ loop'.guided = loop.guided /\ queue' = queue
    BY <1>22, LoseDrainIs DEF TypeOK, Loops, Entered, LoseDrain, Working
  <2>2. \A m \in Msgs : queue[m] # None => queue[m].round \in Nat
    BY DEF TypeOK
  <2> QED
    BY <2>1, <2>2 DEF GuidanceRead
<1> QED
  BY Steps, <1>1, <1>2, <1>3, <1>4, <1>5, <1>6, <1>7, <1>8, <1>9, <1>10, <1>11, <1>12,
         <1>13, <1>14, <1>15, <1>16, <1>17, <1>18, <1>19, <1>20, <1>21, <1>22

(* The provider turn. *)

LEMMA Smallest ==
  ASSUME NEW S, S \subseteq Nat, S # {}
  PROVE  \E n \in S : \A m \in S : n <= m
<1>1. PICK n \in S : \A m \in S : ~(<<m, n>> \in OpToRel(<, Nat))
  BY WFMin, NatLessThanWellFounded
<1>2. \A m \in S : ~(m < n)
  BY <1>1 DEF OpToRel
<1> QED
  BY <1>2

LEMMA CurrentIs ==
  ASSUME ResilienceTypeOK, Calling
  PROVE  Current \in call.todo /\ Current \in Routes
<1>1. call.todo \subseteq Routes /\ call.todo # {}
  BY DEF ResilienceTypeOK, Calling
<1>2. call.todo \subseteq Nat
  BY <1>1 DEF Routes
<1>3. \E r \in call.todo : \A s \in call.todo : r <= s
  BY <1>1, <1>2, Smallest
<1> QED
  BY <1>1, <1>3 DEF Current

LEMMA StruckIs ==
  ASSUME NEW row \in [failures: 0..BreakAt, open: BOOLEAN]
  PROVE  /\ Struck(row) \in [failures: 0..BreakAt, open: BOOLEAN]
         /\ ~Struck(row).open => Struck(row).failures < BreakAt
<1> DEFINE n == IF row.failures < BreakAt THEN row.failures + 1 ELSE BreakAt
<1>1. n \in 0..BreakAt
  OBVIOUS
<1>2. Struck(row) = [failures |-> n, open |-> row.open \/ n = BreakAt]
  BY DEF Struck
<1>3. (row.open \/ n = BreakAt) \in BOOLEAN
  OBVIOUS
<1> HIDE DEF n
<1>4. n # BreakAt => n < BreakAt
  BY <1>1
<1>5. n = BreakAt => (row.open \/ n = BreakAt) = TRUE
  OBVIOUS
<1>6. n = BreakAt => Struck(row) = [failures |-> n, open |-> TRUE]
  BY <1>2, <1>5
<1>7. Struck(row) \in [failures: 0..BreakAt, open: BOOLEAN]
  BY <1>1, <1>2, <1>3
<1> QED
  BY <1>2, <1>4, <1>6, <1>7

\* What a step may do to a call and to the circuits.
CallSteps ==
  \/ BeginCall \/ SkipRoute \/ \E retryable \in BOOLEAN : FailAttempt(retryable)
  \/ Succeed \/ Exhausted \/ Abandon \/ Reset \/ \E r \in Routes : CoolDown(r)
  \/ UNCHANGED resilienceVars

LEMMA Calls ==
  ASSUME [Next]_vars
  PROVE  CallSteps
  BY DEF Next, LoopStep, Outside, vars, CallSteps, StartRound, SpendRounds, PlaceCall,
         TryRoute, LoseRoutes, RefuseCall, AuditorWaits, Answer, UseTool, RunJob,
         LoseDrain, Reask,
         GiveUpOnReply, RefuseReply, Apply, RefuseRendering, Stage, NoProgress,
         RefuseSecret, RefuseRepair, Judge, Commit, FailCommit, Settled, Blocked,
         Return,
         Begin, SendMessage, UserStages, Abort, Die, RepairProvider, Rollback, Audit,
         OnlyLoop

LEMMA Recorded ==
  ASSUME ResilienceTypeOK, Calling, RecordFailure(Current)
  PROVE  /\ circuit' \in [Routes -> [failures: 0..BreakAt, open: BOOLEAN]]
         /\ circuit'[Current] = Struck(circuit[Current])
         /\ circuit[Current] \in [failures: 0..BreakAt, open: BOOLEAN]
<1>1. circuit[Current] \in [failures: 0..BreakAt, open: BOOLEAN]
  BY CurrentIs DEF ResilienceTypeOK
<1> QED
  BY <1>1, CurrentIs, StruckIs DEF ResilienceTypeOK, RecordFailure

LEMMA CallKeeps ==
  ASSUME ResilienceTypeOK, ProbeOnce, CallSteps
  PROVE  ResilienceTypeOK' /\ ProbeOnce'
<1>1. CASE BeginCall
  BY <1>1 DEF ResilienceTypeOK, ProbeOnce, BeginCall, Available, Calling
<1>2. CASE SkipRoute
  <2>1. Calling /\ RecordFailure(Current)
    BY <1>2 DEF SkipRoute
  <2> QED
    BY <1>2, <2>1, Recorded DEF ResilienceTypeOK, ProbeOnce, SkipRoute, NextRoute,
         Calling
<1>3. CASE \E retryable \in BOOLEAN : FailAttempt(retryable)
  <2>1. PICK retryable \in BOOLEAN : FailAttempt(retryable)
    BY <1>3
  <2>2. Calling /\ RecordFailure(Current)
    BY <2>1 DEF FailAttempt
  <2>3. CASE GivesUp(Current, retryable)
    BY <2>1, <2>2, <2>3, Recorded DEF ResilienceTypeOK, ProbeOnce, FailAttempt,
         NextRoute, Calling
  <2>4. CASE ~GivesUp(Current, retryable)
    <3>1. call \in [todo: SUBSET Routes, attempt: 0..(MaxAttempts - 1)]
      BY <2>2 DEF ResilienceTypeOK, Calling
    <3>2. call' = [call EXCEPT !.attempt = call.attempt + 1]
      BY <2>1, <2>4 DEF FailAttempt
    <3>3. call.attempt + 1 < MaxAttempts /\ ~Struck(circuit[Current]).open
      BY <2>4, <3>1 DEF GivesUp
    <3>4. call'.todo = call.todo /\ Current' = Current
      BY <3>1, <3>2 DEF Current
    <3>5. circuit'[Current].failures < BreakAt
      BY <2>2, <3>3, Recorded, StruckIs
    <3>6. ProbeOnce'
      BY <3>4, <3>5 DEF ProbeOnce
    <3> QED
      BY <2>1, <2>2, <3>1, <3>2, <3>3, <3>6, Recorded DEF ResilienceTypeOK, FailAttempt
  <2> QED
    BY <2>3, <2>4
<1>4. CASE Succeed \/ Exhausted \/ Abandon
  <2>1. call' = None
    BY <1>4 DEF Succeed, Exhausted, Abandon
  <2>2. circuit' \in [Routes -> [failures: 0..BreakAt, open: BOOLEAN]]
    <3>1. Closed \in [failures: 0..BreakAt, open: BOOLEAN]
      BY DEF Closed
    <3> QED
      BY <1>4, <3>1 DEF ResilienceTypeOK, Succeed, Exhausted, Abandon
  <2> QED
    BY <1>4, <2>1, <2>2 DEF ResilienceTypeOK, ProbeOnce, Calling, Succeed, Exhausted,
         Abandon
<1>5. CASE Reset
  <2>1. circuit' = [r \in Routes |-> Closed] /\ UNCHANGED <<keys, call, failures>>
    BY <1>5 DEF Reset
  <2>2. Calling' => Calling /\ Current' = Current
    BY <2>1 DEF Calling, Current
  <2> QED
    BY <2>1, <2>2, CurrentIs DEF ResilienceTypeOK, ProbeOnce, Calling, Closed
<1>6. CASE \E r \in Routes : CoolDown(r)
  <2>1. PICK r \in Routes : CoolDown(r)
    BY <1>6
  <2>2. Calling' => Calling /\ Current' = Current
    BY <2>1 DEF Calling, Current, CoolDown
  <2>3. /\ circuit' \in [Routes -> [failures: 0..BreakAt, open: BOOLEAN]]
        /\ \A s \in Routes : circuit'[s].failures = circuit[s].failures
    <3>1. \A s \in Routes : circuit[s] \in [failures: 0..BreakAt, open: BOOLEAN]
      BY DEF ResilienceTypeOK
    <3>2. circuit' = [circuit EXCEPT ![r] = [circuit[r] EXCEPT !.open = FALSE]]
      BY <2>1 DEF CoolDown
    <3>3. \A row \in [failures: 0..BreakAt, open: BOOLEAN] :
            /\ [row EXCEPT !.open = FALSE] \in [failures: 0..BreakAt, open: BOOLEAN]
            /\ [row EXCEPT !.open = FALSE].failures = row.failures
      OBVIOUS
    <3> QED
      BY <3>1, <3>2, <3>3 DEF ResilienceTypeOK
  <2> QED
    BY <2>1, <2>2, <2>3, CurrentIs DEF ResilienceTypeOK, ProbeOnce, CoolDown, Calling
<1>7. CASE UNCHANGED resilienceVars
  BY <1>7 DEF ResilienceTypeOK, ProbeOnce, resilienceVars, Calling, Current
<1> QED
  BY <1>1, <1>2, <1>3, <1>4, <1>5, <1>6, <1>7 DEF CallSteps

-----------------------------------------------------------------------------
LoopInv ==
  /\ TypeOK /\ ProbeOnce
  /\ Counts /\ Placed /\ CauseTold /\ GuidanceRead /\ Screens /\ Billed
  /\ RefusedLeavesNothing

LEMMA LoopInvInit == Init => LoopInv
<1> SUFFICES ASSUME Init
             PROVE  LoopInv
  OBVIOUS
<1>1. ResilienceTypeOK
  <2>1. Closed \in [failures: 0..BreakAt, open: BOOLEAN]
    BY DEF Closed
  <2> QED
    BY <2>1 DEF Init, ResilienceInit, ResilienceTypeOK
<1>2. TypeOK
  BY <1>1, OverIs DEF Init, TypeOK
<1>3. ProbeOnce
  BY DEF Init, ResilienceInit, ProbeOnce, Calling
<1>4. Counts
  BY OverIs DEF Init, Counts, SelfHealFirst, Working, Stops
<1>5. Placed /\ CauseTold /\ GuidanceRead /\ Screens
  BY OverIs DEF Init, Placed, CauseTold, GuidanceRead, Screens, OnlyScreenedCommitted,
                Working
<1>6. Billed
  BY OverIs DEF Init, Billed, SpendAttributed, Working
<1>7. RefusedLeavesNothing
  BY DEF Init, RefusedLeavesNothing
<1> QED
  BY <1>2, <1>3, <1>4, <1>5, <1>6, <1>7 DEF LoopInv

LEMMA LoopInvStep == LoopInv /\ [Next]_vars => LoopInv'
<1> SUFFICES ASSUME LoopInv, [Next]_vars
             PROVE  LoopInv'
  OBVIOUS
<1>1. ResilienceTypeOK' /\ ProbeOnce'
  BY Calls, CallKeeps DEF LoopInv, TypeOK
<1>2. (loop \in Loops)' /\ RestTypeOK'
  BY LoopTyped, RestTyped DEF LoopInv, TypeOK
<1>3. TypeOK'
  BY <1>1, <1>2 DEF TypeOK, RestTypeOK
<1>4. Counts' /\ Placed' /\ CauseTold'
  BY CountsKept, PlacedKept, CauseToldKept DEF LoopInv
<1>5. GuidanceRead' /\ Screens' /\ Billed'
  BY GuidanceReadKept, ScreensKept, BilledKept DEF LoopInv
<1>6. RefusedLeavesNothing'
  BY NothingLeft DEF LoopInv
<1> QED
  BY <1>1, <1>3, <1>4, <1>5, <1>6 DEF LoopInv

\* The invariant of the loop, from which the theorems below are read off.
THEOREM LoopInvariant == Spec => []LoopInv
  BY LoopInvInit, LoopInvStep, PTL DEF Spec

\* Type correctness, for any number of runs, rounds, routes, tools and messages.
THEOREM LoopTypes == Spec => []TypeOK
<1>1. LoopInv => TypeOK
  BY DEF LoopInv
<1> QED
  BY <1>1, LoopInvariant, PTL

\* The breaker holds within a call: a route at its threshold is tried once.
THEOREM RoutesProbedOnce == Spec => []ProbeOnce
<1>1. LoopInv => ProbeOnce
  BY DEF LoopInv
<1> QED
  BY <1>1, LoopInvariant, PTL

\* The findings of the last audit stay before the generator through every refusal.
THEOREM CauseIsTold == Spec => []CauseStays
<1>1. LoopInv => CauseStays
  BY DEF LoopInv, CauseTold, CauseStays, At
<1> QED
  BY <1>1, LoopInvariant, PTL

\* Of the messages accepted before the queue was last read, the generator has the
\* newest that fit into the prompt, whatever their sizes, and nothing else.
THEOREM GuidanceIsKept == Spec => []GuidanceStays
<1>1. LoopInv => GuidanceStays
  <2> SUFFICES ASSUME LoopInv, At("calling")
               PROVE  /\ Prompt \subseteq Heard
                      /\ \A m \in Heard \ Prompt :
                           ~(Bytes({n \in Heard : n >= m}) <= GuidanceBytes)
    BY DEF GuidanceStays
  <2>1. loop.guided \subseteq Msgs /\ loop.drained \in Nat
    BY DEF LoopInv, TypeOK, Loops
  <2>2. \A m \in Msgs : queue[m] # None => queue[m].round \in Nat
    BY DEF LoopInv, TypeOK
  <2>3. \A m \in Msgs : m \in loop.guided <=> queue[m] # None /\ queue[m].round < loop.drained
    BY <2>1, <2>2 DEF LoopInv, GuidanceRead, Working, At
  <2>4. loop.guided = Heard
    BY <2>1, <2>3 DEF Heard
  <2> QED
    BY <2>4 DEF Prompt
<1> QED
  BY <1>1, LoopInvariant, PTL

\* What was refused leaves nothing in the tree or the index, and the user's staged
\* work is untouched.
THEOREM RefusalsLeaveNothing == Spec => []RefusedLeavesNothing
<1>1. LoopInv => RefusedLeavesNothing
  BY DEF LoopInv
<1> QED
  BY <1>1, LoopInvariant, PTL

\* What is committed passed the screens: no credential but beside a file longer than the
\* scan reads, no repair the guard refuses by git's lists.
THEOREM CommitsAreScreened == Spec => []OnlyScreenedCommitted
<1>1. LoopInv => OnlyScreenedCommitted
  BY DEF LoopInv, Screens
<1> QED
  BY <1>1, LoopInvariant, PTL

\* A person is asked before the last round only after a re-ask for the same reason.
THEOREM SelfHealsFirst == Spec => []SelfHealFirst
<1>1. LoopInv => SelfHealFirst
  BY DEF LoopInv, Counts
<1> QED
  BY <1>1, LoopInvariant, PTL

\* From the first audit on every usage line of the run's rounds names the cycle.
THEOREM SpendIsAttributed == Spec => []SpendAttributed
<1>1. LoopInv => SpendAttributed
  BY DEF LoopInv, Billed
<1> QED
  BY <1>1, LoopInvariant, PTL

\* A provider turn that ends without an answer stops the loop in its round.
THEOREM OutagesStop == Spec => OutageStops
<1>1. LoopInv /\ [Next]_vars =>
        [At("calling") /\ loop'.phase \notin {"calling", "replied", "ended"}
           => loop'.stop \in Waits /\ loop'.round = loop.round]_vars
  <2> SUFFICES ASSUME LoopInv, Next, At("calling"),
                      loop'.phase \notin {"calling", "replied", "ended"}
               PROVE  loop'.stop \in Waits /\ loop'.round = loop.round
    BY DEF At, vars, loopVars
  <2>1. loop \in Loops
    BY DEF LoopInv, TypeOK
  <2>2. CASE LoseRoutes \/ \E why \in Waits : RefuseCall(why)
    BY <2>1, <2>2 DEF LoseRoutes, ExhaustedStop, RefuseCall, Stop, Loops, Waits
  <2>3. CASE PlaceCall \/ TryRoute \/ RepairProvider
    BY <2>3 DEF PlaceCall, TryRoute, RepairProvider, loopVars, At
  <2>4. CASE Answer \/ Abort \/ Die \/ \E m \in Msgs : SendMessage(m)
    BY <2>1, <2>4, OverIs DEF Answer, Abort, Die, SendMessage, Loops, At
  <2>5. CASE \E kind \in Kinds \ {"same"} : UserStages(kind)
    BY <2>5 DEF UserStages, At
  <2>6. CASE \E continued \in BOOLEAN : Begin(continued)
    BY <2>6 DEF Begin, Working, At
  <2>7. CASE \/ StartRound \/ LoseDrain \/ SpendRounds \/ UseTool \/ RunJob \/ Reask
             \/ \E why \in {"format", "answered", "refused"} : GiveUpOnReply(why)
             \/ \E why \in {"spent", "export"} : RefuseReply(why)
             \/ \E kind \in Kinds : Apply(kind)
    BY <2>7 DEF StartRound, LoseDrain, SpendRounds, UseTool, RunJob, Reask,
         GiveUpOnReply,
                RefuseReply, Apply, At
  <2>8. CASE \/ RefuseRendering \/ Stage \/ NoProgress \/ RefuseSecret \/ RefuseRepair
             \/ Judge \/ Commit \/ FailCommit \/ Settled \/ Blocked \/ Return
             \/ \E why \in Waits : AuditorWaits(why)
    BY <2>8 DEF RefuseRendering, Stage, NoProgress, RefuseSecret, RefuseRepair, Judge,
                Commit, FailCommit, Settled, Blocked, Return, AuditorWaits, Audit, At
  <2> QED
    BY <2>2, <2>3, <2>4, <2>5, <2>6, <2>7, <2>8 DEF Next, LoopStep, Outside
<1> QED
  BY <1>1, LoopInvariant, PTL DEF Spec, OutageStops

-----------------------------------------------------------------------------
(* Why a loop comes to an end (run_loop's for over the rounds, generate's own *)
(* loop, complete's over routes and attempts): whatever it does uses up one of *)
(* nine counts and leaves those before it alone.                              *)

Rank(phase) ==
  CASE phase \in {"calling", "replied"} -> 6
    [] phase = "applied"  -> 5
    [] phase = "staged"   -> 4
    [] phase = "judged"   -> 3
    [] phase = "auditing" -> 2
    [] phase = "round"    -> 1
    [] OTHER -> 0

RoutesLeft   == IF call = None THEN 0 ELSE Cardinality(call.todo)
AttemptsLeft == IF call = None THEN 0 ELSE MaxAttempts - call.attempt

Measure ==
  <<IF Working THEN 1 ELSE 0,
    MaxRounds - loop.round,
    Rank(loop.phase),
    ((MaxTools + 1) - loop.calls) + ((MaxJobs + 1) - loop.jobs),
    IF loop.reasked THEN 0 ELSE 1,
    IF At("calling") THEN 1 ELSE 0,
    IF call = None THEN 1 ELSE 0,
    RoutesLeft,
    AttemptsLeft>>

Counters == [1..9 -> Nat]
NatLess  == {p \in Nat \X Nat : p[1] < p[2]}
Less     == LexProductOrdering(NatLess, Nat, 9)

\* The measure got smaller.
Closer == <<Measure', Measure>> \in Less

LEMMA RankIs ==
  /\ \A phase : Rank(phase) \in 0..6
  /\ Rank("calling") = 6 /\ Rank("replied") = 6 /\ Rank("applied") = 5 /\ Rank("staged") = 4
  /\ Rank("judged") = 3 /\ Rank("auditing") = 2 /\ Rank("round") = 1
  /\ Rank("stopped") = 0 /\ Rank("settled") = 0
BY DEF Rank

LEMMA RoutesCounted ==
  ASSUME ResilienceTypeOK, call # None
  PROVE  /\ IsFiniteSet(call.todo) /\ Cardinality(call.todo) \in Nat
         /\ \A r \in call.todo : Cardinality(call.todo \ {r}) < Cardinality(call.todo)
<1>1. IsFiniteSet(Routes)
  BY FS_Interval DEF Routes
<1>2. call.todo \subseteq Routes
  BY DEF ResilienceTypeOK
<1>3. IsFiniteSet(call.todo)
  BY <1>1, <1>2, FS_Subset
<1>4. Cardinality(call.todo) \in Nat
  BY <1>3, FS_CardinalityType
<1>5. \A r \in call.todo : Cardinality(call.todo \ {r}) = Cardinality(call.todo) - 1
  BY <1>3, FS_RemoveElement
<1> QED
  BY <1>3, <1>4, <1>5

LEMMA MeasureTyped == ASSUME TypeOK PROVE Measure \in Counters
<1>1. /\ MaxRounds - loop.round \in Nat
      /\ ((MaxTools + 1) - loop.calls) + ((MaxJobs + 1) - loop.jobs) \in Nat
  BY DEF TypeOK, Loops
<1>2. RoutesLeft \in Nat
  BY RoutesCounted DEF TypeOK, RoutesLeft
<1>3. AttemptsLeft \in Nat
  BY DEF TypeOK, ResilienceTypeOK, AttemptsLeft
<1>4. Rank(loop.phase) \in Nat
  BY RankIs
<1> QED
  BY <1>1, <1>2, <1>3, <1>4 DEF Measure, Counters

\* One count is used up, those before it stay.
LEMMA UsedUp ==
  ASSUME Measure \in Counters, Measure' \in Counters, NEW j \in 1..9,
         Measure'[j] < Measure[j], \A i \in 1..(j - 1) : Measure'[i] = Measure[i]
  PROVE  Closer
<1> DEFINE m == Measure
           n == Measure'
<1>1. m \in [1..9 -> Nat] /\ n \in [1..9 -> Nat]
  BY DEF Counters
<1>2. n[j] < m[j] /\ \A i \in 1..(j - 1) : n[i] = m[i]
  OBVIOUS
<1> HIDE DEF m, n
<1>3. <<n[j], m[j]>> \in NatLess
  <2>1. n[j] \in Nat /\ m[j] \in Nat
    BY <1>1
  <2> QED
    BY <1>2, <2>1 DEF NatLess
<1>4. <<n, m>> \in Less
  BY <1>1, <1>2, <1>3 DEF Less, LexProductOrdering
<1> QED
  BY <1>4 DEF Closer, m, n

LEMMA LessIsWellFounded == IsWellFoundedOn(Less, Counters)
<1>1. IsWellFoundedOn(NatLess, Nat)
  <2>1. ASSUME NEW T \in SUBSET Nat, T # {}
        PROVE  \E n \in T : \A m \in T : ~(<<m, n>> \in NatLess)
    <3>1. PICK n \in T : \A m \in T : n <= m
      BY <2>1, Smallest
    <3>2. \A m \in T : ~(<<m, n>> \in NatLess)
      BY <3>1 DEF NatLess
    <3> QED
      BY <3>1, <3>2
  <2> QED
    BY <2>1, MinWF
<1> QED
  BY <1>1, WFLexProductOrdering DEF Less, Counters

\* The phase moves on within a round.
Advances ==
  /\ loop.phase # "ended" /\ loop'.phase # "ended" /\ loop'.round = loop.round
  /\ Rank(loop'.phase) < Rank(loop.phase)

LEMMA PhaseCount ==
  ASSUME Measure \in Counters, Measure' \in Counters, Advances
  PROVE  Closer
<1>1. Measure'[3] < Measure[3] /\ Measure'[1] = Measure[1] /\ Measure'[2] = Measure[2]
  BY DEF Measure, Advances, Working
<1>2. \A i \in 1..(3 - 1) : Measure'[i] = Measure[i]
  BY <1>1
<1> QED
  BY <1>1, <1>2, UsedUp

LEMMA RunCount ==
  ASSUME Measure \in Counters, Measure' \in Counters, Working, loop' = Over
  PROVE  Closer
<1>1. Measure'[1] < Measure[1]
  BY OverIs DEF Measure, Working
<1> QED
  BY <1>1, UsedUp

\* The steps that leave the provider turn, or the reply, or the revision, behind.
LEMMA Advancing ==
  ASSUME TypeOK,
         \/ SpendRounds \/ LoseRoutes \/ \E why \in Waits : RefuseCall(why) \/ AuditorWaits(why)
         \/ \E why \in {"format", "answered", "refused"} : GiveUpOnReply(why)
         \/ \E why \in {"spent", "export"} : RefuseReply(why)
         \/ \E kind \in Kinds : Apply(kind)
         \/ RefuseRendering \/ Stage \/ NoProgress \/ RefuseSecret \/ RefuseRepair
         \/ Judge \/ Commit \/ FailCommit \/ Settled \/ Blocked
  PROVE  Advances
<1>1. loop \in Loops
  BY DEF TypeOK
<1>2. ASSUME HaltStep PROVE Advances
  <2>1. /\ loop'.phase = "stopped" /\ loop'.round = loop.round
        /\ loop.phase \in {"round", "calling", "replied", "applied", "staged", "judged"}
    BY <1>1, <1>2 DEF HaltStep, Loops
  <2> QED
    BY <2>1, RankIs DEF Advances
<1>3. ASSUME RefuseStep PROVE Advances
  <2>1. /\ loop'.phase = "round" /\ loop'.round = loop.round
        /\ loop.phase \in {"replied", "applied"}
    BY <1>1, <1>3 DEF RefuseStep, Loops
  <2> QED
    BY <2>1, RankIs DEF Advances
<1>4. ASSUME NEW kind \in Kinds, Apply(kind) PROVE Advances
  <2>1. loop' = [loop EXCEPT !.phase = "applied", !.kind = kind] /\ loop.phase = "replied"
    BY <1>4, Zenon DEF Apply, At
  <2>2. loop'.phase = "applied" /\ loop'.round = loop.round
    BY <1>1, <2>1 DEF Loops
  <2> QED
    BY <2>1, <2>2, RankIs DEF Advances
<1>5. ASSUME Stage \/ Judge \/ Commit PROVE Advances
  <2>1. /\ loop'.round = loop.round
        /\ \/ loop.phase = "applied" /\ loop'.phase = "staged"
           \/ loop.phase = "staged" /\ loop'.phase = "judged"
           \/ loop.phase = "judged" /\ loop'.phase = "auditing"
    BY <1>1, <1>5 DEF Stage, Judge, Commit, At, Loops
  <2> QED
    BY <2>1, RankIs DEF Advances
<1>6. ASSUME NoProgress \/ RefuseRepair PROVE Advances
  <2>1. /\ loop.phase = "staged" /\ loop'.round = loop.round
        /\ loop'.phase \in {"round", "stopped"}
    <3>1. ASSUME NoProgress
          PROVE  loop'.round = loop.round /\ loop'.phase \in {"round", "stopped"}
      BY <1>1, <3>1 DEF NoProgress, Loops
    <3>2. ASSUME RefuseRepair
          PROVE  loop'.round = loop.round /\ loop'.phase \in {"round", "stopped"}
      BY <1>1, <3>2 DEF RefuseRepair, Loops
    <3> QED
      BY <1>6, <3>1, <3>2 DEF NoProgress, RefuseRepair, At
  <2> QED
    BY <2>1, RankIs DEF Advances
<1>7. ASSUME Settled \/ Blocked \/ \E why \in Waits : AuditorWaits(why) PROVE Advances
  <2>1. /\ loop.phase = "auditing" /\ loop'.round = loop.round
        /\ loop'.phase \in {"settled", "round", "stopped"}
    <3>1. Audited.round = loop.round /\ DOMAIN Audited = DOMAIN loop
      BY <1>1 DEF Audited, Loops
    <3>2. "phase" \in DOMAIN loop /\ "round" \in DOMAIN loop
      BY <1>1 DEF Loops
    <3>3. CASE Settled
      BY <3>1, <3>2, <3>3 DEF Settled, Audit, At
    <3>4. CASE Blocked
      BY <3>1, <3>2, <3>4 DEF Blocked, Audit, At
    <3>5. CASE \E why \in Waits : AuditorWaits(why)
      <4>1. PICK why \in Waits : AuditorWaits(why)
        BY <3>5
      <4>2. At("auditing") /\ loop' = [Audited EXCEPT !.phase = "stopped", !.stop = why]
        BY <4>1, Zenon DEF AuditorWaits, Audit
      <4> QED
        BY <3>1, <3>2, <4>2 DEF At
    <3> QED
      BY <1>7, <3>3, <3>4, <3>5
  <2> QED
    BY <2>1, RankIs DEF Advances
<1> QED
  BY <1>2, <1>3, <1>4, <1>5, <1>6, <1>7, Halts, Refuses

\* The steps that count up: a round, a tool, a re-ask, a call, a route, an attempt.
LEMMA RoundCount ==
  ASSUME TypeOK, Measure \in Counters, Measure' \in Counters, StartRound \/ LoseDrain
  PROVE  Closer
<1>1. loop \in Loops
  BY DEF TypeOK
<1>2. loop.phase = "round" /\ loop'.phase = "calling" /\ loop'.round = loop.round + 1
  BY <1>1, StartRoundIs, LoseDrainIs DEF Entered
<1>3. Measure'[2] < Measure[2] /\ Measure'[1] = Measure[1]
  BY <1>1, <1>2 DEF Measure, Working, Loops
<1> QED
  BY <1>3, UsedUp

LEMMA ToolCount ==
  ASSUME TypeOK, Measure \in Counters, Measure' \in Counters, UseTool \/ RunJob
  PROVE  Closer
<1>1. /\ loop \in Loops /\ loop.phase = "replied" /\ loop'.round = loop.round
      /\ \/ loop'.calls = loop.calls + 1 /\ loop'.jobs = loop.jobs
         \/ loop'.jobs = loop.jobs + 1 /\ loop'.calls = loop.calls
      /\ loop'.phase \in {"stopped", "calling"}
  <2>1. loop \in Loops
    BY DEF TypeOK
  <2>2. CASE UseTool
    BY <2>1, <2>2 DEF Loops, UseTool, Serve, Counted, At
  <2>3. CASE RunJob
    BY <2>1, <2>3 DEF Loops, RunJob, Serve, Counted, At
  <2> QED
    BY <2>1, <2>2, <2>3
<1>2. CASE loop'.phase = "stopped"
  BY <1>1, <1>2, RankIs, PhaseCount DEF Advances
<1>3. CASE loop'.phase = "calling"
  <2>1. /\ loop.calls \in Int /\ loop.jobs \in Int
        /\ Measure[4] = ((MaxTools + 1) - loop.calls) + ((MaxJobs + 1) - loop.jobs)
        /\ Measure'[4] = ((MaxTools + 1) - loop'.calls) + ((MaxJobs + 1) - loop'.jobs)
    BY <1>1 DEF Measure, Loops
  <2>2. Measure'[4] < Measure[4]
    BY <1>1, <2>1
  <2>3. Measure'[1] = Measure[1] /\ Measure'[2] = Measure[2] /\ Measure'[3] = Measure[3]
    BY <1>1, <1>3, RankIs DEF Measure, Working
  <2>4. \A i \in 1..(4 - 1) : Measure'[i] = Measure[i]
    BY <2>3
  <2> QED
    BY <2>2, <2>4, UsedUp
<1> QED
  BY <1>1, <1>2, <1>3

LEMMA ReaskCount ==
  ASSUME TypeOK, Measure \in Counters, Measure' \in Counters, Reask
  PROVE  Closer
<1>1. /\ loop \in Loops /\ loop.phase = "replied" /\ ~loop.reasked
      /\ loop'.round = loop.round /\ loop'.calls = loop.calls /\ loop'.jobs = loop.jobs
      /\ loop'.phase = "calling" /\ loop'.reasked
  BY DEF TypeOK, Loops, Reask, At
<1>2. /\ Measure'[5] < Measure[5] /\ Measure'[1] = Measure[1] /\ Measure'[2] = Measure[2]
      /\ Measure'[3] = Measure[3] /\ Measure'[4] = Measure[4]
  BY <1>1, RankIs DEF Measure, Working, Loops
<1>3. \A i \in 1..(5 - 1) : Measure'[i] = Measure[i]
  BY <1>2
<1> QED
  BY <1>2, <1>3, UsedUp

LEMMA AnswerCount ==
  ASSUME TypeOK, Measure \in Counters, Measure' \in Counters, Answer
  PROVE  Closer
<1>1. /\ loop \in Loops /\ loop.phase = "calling" /\ loop'.phase = "replied"
      /\ loop'.round = loop.round /\ loop'.calls = loop.calls /\ loop'.jobs = loop.jobs
      /\ loop'.reasked = loop.reasked
  BY DEF TypeOK, Loops, Answer, At
<1>2. /\ Measure'[6] < Measure[6] /\ Measure'[1] = Measure[1] /\ Measure'[2] = Measure[2]
      /\ Measure'[3] = Measure[3] /\ Measure'[4] = Measure[4] /\ Measure'[5] = Measure[5]
  BY <1>1, RankIs DEF Measure, Working, At, Loops
<1>3. \A i \in 1..(6 - 1) : Measure'[i] = Measure[i]
  BY <1>2
<1> QED
  BY <1>2, <1>3, UsedUp

\* Within a provider turn only the call changes.
LEMMA TurnCount ==
  ASSUME TypeOK, Measure \in Counters, Measure' \in Counters, PlaceCall \/ TryRoute
  PROVE  Closer
<1>1. /\ UNCHANGED loop
      /\ \A i \in 1..6 : Measure'[i] = Measure[i]
  BY DEF PlaceCall, TryRoute, loopVars, Measure, Working, At
<1>2. CASE PlaceCall
  <2>1. Measure'[7] < Measure[7]
    BY <1>2, NoneAssumption DEF PlaceCall, BeginCall, Measure, Available
  <2> QED
    BY <1>1, <2>1, UsedUp
<1>3. CASE TryRoute
  <2>1. ResilienceTypeOK /\ call # None /\ Current \in call.todo
    BY <1>3, CurrentIs DEF TypeOK, TryRoute, SkipRoute, FailAttempt, Calling
  <2>2. \/ call' = NextRoute
        \/ call' = [call EXCEPT !.attempt = @ + 1]
    BY <1>3 DEF TryRoute, SkipRoute, FailAttempt
  <2>3. call' # None
    BY <2>1, <2>2 DEF ResilienceTypeOK, NextRoute
  <2>4. Measure'[7] = Measure[7] /\ Measure[8] = Cardinality(call.todo)
    BY <2>1, <2>3 DEF Measure, RoutesLeft
  <2>5. CASE call' = NextRoute
    <3>1. Measure'[8] < Measure[8]
      BY <2>1, <2>3, <2>4, <2>5, RoutesCounted DEF Measure, RoutesLeft, NextRoute
    <3>2. \A i \in 1..(8 - 1) : Measure'[i] = Measure[i]
      BY <1>1, <2>4
    <3> QED
      BY <3>1, <3>2, UsedUp
  <2>6. CASE call' = [call EXCEPT !.attempt = @ + 1]
    <3>1. /\ call'.todo = call.todo /\ call'.attempt = call.attempt + 1
          /\ call.attempt \in Nat
      BY <2>1, <2>6 DEF ResilienceTypeOK
    <3>2. Measure'[9] < Measure[9] /\ Measure'[8] = Measure[8]
      BY <2>1, <2>3, <3>1 DEF Measure, RoutesLeft, AttemptsLeft
    <3>3. \A i \in 1..(9 - 1) : Measure'[i] = Measure[i]
      BY <1>1, <2>4, <3>2
    <3> QED
      BY <3>2, <3>3, UsedUp
  <2> QED
    BY <2>2, <2>5, <2>6
<1> QED
  BY <1>2, <1>3

\* Every step of the loop uses something up.
LEMMA LoopStepCounts ==
  ASSUME TypeOK, Measure \in Counters, Measure' \in Counters, LoopStep
  PROVE  Closer
<1>1. ASSUME Return PROVE Closer
  BY <1>1, RunCount DEF Return, Working, At
<1> QED
  BY <1>1, Advancing, PhaseCount, RoundCount, ToolCount, ReaskCount, AnswerCount,
         TurnCount
  DEF LoopStep

\* What comes from outside ends the loop or leaves all counts alone, unless it is
\* the next run.
LEMMA OutsideCounts ==
  ASSUME TypeOK, Measure \in Counters, Measure' \in Counters, Outside,
         ~\E continued \in BOOLEAN : Begin(continued)
  PROVE  Closer \/ Measure' = Measure
<1>1. CASE Abort \/ Die
  BY <1>1, RunCount DEF Abort, Die
<1>2. CASE \/ \E m \in Msgs : SendMessage(m)
           \/ \E kind \in Kinds \ {"same"} : UserStages(kind)
           \/ RepairProvider
  <2>1. UNCHANGED <<loop, call>>
    BY <1>2 DEF SendMessage, UserStages, RepairProvider, Reset, CoolDown, resilienceVars
  <2> QED
    BY <2>1 DEF Measure, Working, At, RoutesLeft, AttemptsLeft
<1> QED
  BY <1>1, <1>2, RoundCount DEF Outside

LEMMA MeasureInvariant == Spec => [](Measure \in Counters)
  BY LoopTypes, MeasureTyped, PTL

\* Why a run's loop ends, for any rounds, tools, routes and attempts and with no
\* bound on the failures: every step it takes brings it closer to the end in a
\* well-founded order, and nothing from outside takes it back but the start of the
\* next run (run_loop, generate and complete have no loop without a bound).
THEOREM LoopDescends == Spec =>
  [][/\ LoopStep => Closer
     /\ (\A continued \in BOOLEAN : ~Begin(continued)) => Closer \/ Measure' = Measure]_vars
<1>1. /\ TypeOK /\ Measure \in Counters /\ (Measure \in Counters)' /\ [Next]_vars
      => [/\ LoopStep => Closer
          /\ (\A continued \in BOOLEAN : ~Begin(continued))
               => Closer \/ Measure' = Measure]_vars
  BY LoopStepCounts, OutsideCounts DEF Next
<1> QED
  BY <1>1, LoopTypes, MeasureInvariant, PTL DEF Spec

\* The order has no endless descent, so a run takes finitely many steps of its loop.
THEOREM DescentEnds ==
  ~ \E m \in [Nat -> Counters] : \A n \in Nat : <<m[n + 1], m[n]>> \in Less
  BY LessIsWellFounded DEF IsWellFoundedOn
=============================================================================
