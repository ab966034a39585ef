--------------------------- MODULE HumanWaitProofs ---------------------------
(***************************************************************************)
(* Proofs about HumanWait, for any number of runs, commits, commands and    *)
(* deaths.  The invariant says what the worker's place is worth in either   *)
(* store, what a sweep still knows of the row it read, and that nobody a    *)
(* decision names went on.  Every step writes the cycle store in one way,   *)
(* or not at all (Written), and moves each row along one of a few edges     *)
(* (Moved); the lemmas that say so carry most of the rest.                  *)
(***************************************************************************)
EXTENDS HumanWait, FiniteSetTheorems, TLAPS

USE BoundAssumption, NoneAssumption

-----------------------------------------------------------------------------
(* The invariant. *)

Early  == {"loop", "committed", "auditing", "stopping"}
Parked == {"parked", "shell", "writing"}

Named(r) == \E c \in Known : cycles[c].run = r

\* Before its stop is written the run works and no decision names it; after a park
\* it is parked, or was stopped since.
Placed(stage, outcome, state, named) ==
  /\ stage \in Early => state \in Active /\ ~named
  /\ stage \in Parked => state \in {"PROVIDER_UNAVAILABLE", "CANCELLED"}
  /\ stage = "finishing" =>
       IF outcome = "provider_unavailable"
       THEN state \in {"PROVIDER_UNAVAILABLE", "CANCELLED"}
       ELSE state \in Active
  /\ stage = "finishing" => outcome # None
  /\ stage = "finishing" /\ outcome = "passed" => ~named

GoodWorker ==
  /\ worker.run = None => worker = IdleWorker
  /\ worker.run # None =>
       Placed(worker.stage, worker.outcome, rows[worker.run].state, Named(worker.run))

GoodNames == \A r \in Runs : Named(r) => rows[r].state \notin {None, "PASSED"}

\* A row direction B looked at is at rest, and stays so or is stopped.
GoodSweep ==
  /\ sweep.at <= head
  /\ sweep.stage \in {"deciding", "writing"} =>
       sweep.row \in Runs /\ rows[sweep.row].state \in Waiting \cup {"CANCELLED"}
  /\ sweep.stage = "writing" => sweep.plan # Leave

GoodPerson == person.doing \in {"stopping", "settling"} => person.what \in Runs

\* A commit has no cycle before it is made, and an audit's cycle is not decided.
GoodCycles ==
  /\ \A c \in Known : c <= head
  /\ worker.stage = "committed" /\ head \in Known => cycles[head].status # "PASSED"
  /\ worker.stage = "auditing" =>
       worker.cycle \in Known /\ cycles[worker.cycle].status # "PASSED"
  /\ worker.stage \in {"loop", "committed"} /\ worker.cycle # None => worker.cycle \in Known

WaitInv ==
  TypeOK /\ GoodWorker /\ GoodNames /\ GoodSweep /\ GoodPerson /\ GoodCycles

-----------------------------------------------------------------------------
(* The shapes of a step. *)

\* The cycle store is written, if at all, on cycles that were not PASSED, and names
\* no run it did not name, but r.
Written(r) ==
  /\ cycles' \in [Commits -> Cycle \cup {None}]
  /\ noted' \in 0..MaxRuns
  /\ \A d \in Commits :
       \/ cycles'[d] = cycles[d]
       \/ /\ cycles'[d] # None /\ d <= head
          /\ cycles[d] # None => cycles[d].status # "PASSED"
          /\ cycles'[d].run \in {r, None} \/ (cycles[d] # None /\ cycles'[d].run = cycles[d].run)
          /\ cycles'[d].status = "PASSED" => worker.stage = "auditing" /\ worker'.stage = "finishing"

\* Who names a run: its worker as it stops, or the sweep.
Author(r) ==
  \/ r = None
  \/ /\ r \in Runs /\ worker.run = r /\ UNCHANGED rows
     /\ worker.stage \in Early \cup Parked
     /\ worker'.run = r /\ worker'.stage = "finishing" /\ worker'.outcome # "passed"
  \/ /\ r = sweep.row /\ CompleteDecision /\ UNCHANGED <<rows, worker>>
     /\ sweep.stage = "writing"

\* The edges of a row.
Moved(q) ==
  LET old == rows[q].state
      new == rows'[q].state
  IN
  \/ rows'[q] = rows[q]
  \/ old = None /\ new = "WORKING" /\ worker.run = None /\ worker'.run = q
  \/ old \in Active /\ worker.run # q /\ new \in {"CANCELLED", "INTERRUPTED"} /\ UNCHANGED worker
  \/ old = "WORKING" /\ new = "CANCELLING" /\ UNCHANGED worker
  \/ old = "PROVIDER_UNAVAILABLE" /\ new = "CANCELLED" /\ UNCHANGED worker
  \/ old = "INTERRUPTED" /\ new \in {"CANCELLED", "WAITING_FOR_HUMAN"} /\ UNCHANGED worker
  \/ /\ q = worker.run /\ old = "WORKING" /\ new = "PROVIDER_UNAVAILABLE"
     /\ worker'.run = q /\ worker'.stage \in {"parked", "shell"}
  \/ /\ q = worker.run /\ worker' = IdleWorker /\ worker.stage = "finishing"
     /\ old = "PROVIDER_UNAVAILABLE" => new \in {"PROVIDER_UNAVAILABLE", "CANCELLED"}
     /\ new = "PASSED" => worker.outcome = "passed"
     /\ new # None /\ old \in Active \cup {"PROVIDER_UNAVAILABLE"}

LEMMA NotedIs == ASSUME Noted PROVE noted' \in 0..MaxRuns
<1>1. IsFiniteSet(Runs) /\ Cardinality(Runs) = MaxRuns
  BY FS_Interval DEF Runs
<1>2. IsFiniteSet(Started) /\ Cardinality(Started) <= MaxRuns
  BY <1>1, FS_Subset DEF Started
<1>3. Cardinality(Started) \in Nat
  BY <1>2, FS_CardinalityType
<1> QED
  BY <1>2, <1>3 DEF Noted

LEMMA PlansAre == Plans \subseteq Commits \cup {None, Leave}
  BY DEF Plans, Known

LEMMA NewCycleIs == ASSUME TypeOK PROVE NewCycle \in Cycle /\ NewCycle.run = None
  BY DEF TypeOK, NewCycle, Cycle

LEMMA PendingIs ==
  ASSUME NEW cycle \in Cycle, NEW r \in Runs \cup {None}, NEW kind \in {"provider", "audit"}
  PROVE  /\ Pending(cycle, r, kind) \in Cycle
         /\ Pending(cycle, r, kind).status = "ESCALATED"
         /\ Pending(cycle, r, kind).run \in {r, cycle.run}
  BY DEF Pending, Cycle

\* One cycle is written.
LEMMA OneWritten ==
  ASSUME TypeOK, NEW c \in Commits, c <= head, NEW r \in Runs \cup {None}, NEW x \in Cycle,
         cycles' = [cycles EXCEPT ![c] = x], noted' \in 0..MaxRuns,
         cycles[c] # None => cycles[c].status # "PASSED",
         x.run \in {r, None} \/ (cycles[c] # None /\ x.run = cycles[c].run),
         x.status = "PASSED" => worker.stage = "auditing" /\ worker'.stage = "finishing"
  PROVE  Written(r)
<1>1. \A d \in Commits : d # c => cycles'[d] = cycles[d]
  BY DEF TypeOK
<1>2. cycles'[c] = x /\ x # None
  BY NoneIsNoCycle DEF TypeOK
<1>3. cycles' \in [Commits -> Cycle \cup {None}]
  BY DEF TypeOK
<1> QED
  BY <1>1, <1>2, <1>3 DEF Written

LEMMA NothingWritten ==
  ASSUME TypeOK, UNCHANGED cycles, noted' \in 0..MaxRuns
  PROVE  Written(None)
  BY DEF TypeOK, Written

LEMMA EscalateWrites ==
  ASSUME TypeOK, GoodCycles, NEW c, NEW r \in Runs \cup {None},
         NEW kind \in {"provider", "audit"}, Escalate(c, r, kind)
  PROVE  Written(r)
<1>1. CASE Escalatable(c)
  <2> DEFINE x == Pending(cycles[c], r, kind)
  <2>1. c \in Commits /\ cycles[c] \in Cycle /\ cycles[c] # None /\ cycles[c].status # "PASSED"
    BY <1>1 DEF Escalatable, Known, TypeOK
  <2>2. cycles' = [cycles EXCEPT ![c] = x] /\ noted' \in 0..MaxRuns
    BY <1>1, NotedIs DEF Escalate
  <2>3. x \in Cycle /\ x.status = "ESCALATED" /\ x.run \in {r, cycles[c].run}
    BY <2>1, PendingIs
  <2>4. c <= head
    BY <1>1 DEF Escalatable, GoodCycles
  <2> HIDE DEF x
  <2> QED
    BY <2>1, <2>2, <2>3, <2>4, OneWritten
<1>2. CASE ~Escalatable(c)
  BY <1>2 DEF Escalate, Written, TypeOK
<1> QED
  BY <1>1, <1>2

LEMMA AnchorWrites ==
  ASSUME TypeOK, GoodCycles, NEW n \in Commits, n <= head, NEW r \in Runs \cup {None},
         NEW kind \in {"provider", "audit"}, AnchorEscalation(n, r, kind)
  PROVE  Written(r)
<1>1. CASE Anchorable(n)
  <2> DEFINE base == IF n \in Known THEN cycles[n] ELSE [NewCycle EXCEPT !.at = n]
             x == Pending(base, r, kind)
  <2>1. base \in Cycle /\ (base.run = None \/ (n \in Known /\ base.run = cycles[n].run))
    BY NewCycleIs DEF TypeOK, Cycle, Known
  <2>2. cycles' = [cycles EXCEPT ![n] = x] /\ noted' \in 0..MaxRuns
    BY <1>1, NotedIs DEF AnchorEscalation
  <2> HIDE DEF base
  <2>3. x \in Cycle /\ x.status = "ESCALATED" /\ x.run \in {r, base.run}
    BY <2>1, PendingIs
  <2>4. cycles[n] # None => cycles[n].status # "PASSED"
    BY <1>1 DEF Anchorable, Known
  <2> HIDE DEF x
  <2>5. x.run \in {r, None} \/ (cycles[n] # None /\ x.run = cycles[n].run)
    BY <2>1, <2>3 DEF Known
  <2> QED
    BY <2>2, <2>3, <2>4, <2>5, OneWritten
<1>2. CASE ~Anchorable(n)
  BY <1>2 DEF AnchorEscalation, Written, TypeOK
<1> QED
  BY <1>1, <1>2

\* Several cycles are closed at once.
LEMMA ClosedIs ==
  ASSUME NEW cycle \in Cycle
  PROVE  Closed(cycle) \in Cycle /\ Closed(cycle).status = "BLOCKED" /\ Closed(cycle).run = cycle.run
  BY DEF Closed, Cycle

LEMMA WrittenNames ==
  ASSUME TypeOK, NEW r \in Runs \cup {None}, Written(r)
  PROVE  \A q \in Runs : Named(q)' => Named(q) \/ q = r
<1> SUFFICES ASSUME NEW q \in Runs, NEW c \in Commits, cycles'[c] # None, cycles'[c].run = q
             PROVE  Named(q) \/ q = r
  BY DEF Named, Known
<1>1. q # None
  BY DEF Runs
<1> QED
  BY <1>1 DEF Written, Named, Known

LEMMA AuthorsWrite ==
  ASSUME WaitInv, [Next]_vars
  PROVE  \E r \in Runs \cup {None} : Written(r) /\ Author(r)
<1> USE DEF WaitInv
<1>1. noted \in 0..MaxRuns
  BY DEF TypeOK
<1>a. Author(None) /\ None \in Runs \cup {None}
  BY DEF Author
<1>h. head <= head
  BY DEF TypeOK, Commits
<1>2. ASSUME NEW r \in Runs, Continue(r) PROVE Written(None)
  <2>1. CASE cycles' = cycles
    BY <1>1, <1>2, <2>1, NothingWritten DEF Continue
  <2>2. CASE cycles' # cycles
    <3> DEFINE c == worker.cycle
               x == [cycles[c] EXCEPT !.status = "OPEN", !.at = head, !.reopened = FALSE]
    <3>1. worker.stage = "committed" /\ worker.cycle # None
      BY <1>2 DEF Continue, At
    <3>2. c \in Commits /\ cycles[c] # None /\ cycles[c] \in Cycle /\ c <= head
      BY <3>1 DEF GoodCycles, TypeOK, Known
    <3>3. cycles[c].status \in {"BLOCKED", "OPEN"} /\ UNCHANGED noted
      BY <1>2, <2>2 DEF Continue
    <3>4. cycles' = [cycles EXCEPT ![c] = x]
      BY <1>2, <2>2 DEF Continue
    <3>5. x \in Cycle /\ x.status = "OPEN" /\ x.run = cycles[c].run
      BY <3>2 DEF Cycle, TypeOK
    <3> HIDE DEF x, c
    <3> QED
      BY <1>1, <3>2, <3>3, <3>4, <3>5, OneWritten
  <2> QED
    BY <2>1, <2>2
<1>3. ASSUME NEW r \in Runs, Open(r) PROVE Written(None)
  <2>1. head \in Commits /\ worker.stage = "committed"
    BY <1>3 DEF TypeOK, Open, At
  <2>2. CASE cycles' = [cycles EXCEPT ![head] = NewCycle] /\ UNCHANGED noted
    <3>1. NewCycle \in Cycle /\ NewCycle.run = None /\ NewCycle.status = "OPEN"
      BY NewCycleIs DEF NewCycle
    <3>2. cycles[head] # None => cycles[head].status # "PASSED"
      BY <2>1 DEF GoodCycles, Known
    <3> QED
      BY <1>1, <1>h, <2>1, <2>2, <3>1, <3>2, OneWritten
  <2>3. ASSUME NEW c \in Known, cycles[c].status # "PASSED", UNCHANGED noted,
               cycles' = [cycles EXCEPT ![c].status = "OPEN", ![c].at = head]
        PROVE  Written(None)
    <3> DEFINE x == [cycles[c] EXCEPT !.status = "OPEN", !.at = head]
    <3>1. c \in Commits /\ cycles[c] # None /\ cycles[c] \in Cycle /\ c <= head
      BY DEF GoodCycles, TypeOK, Known
    <3>2. x \in Cycle /\ x.status = "OPEN" /\ x.run = cycles[c].run
      BY <3>1 DEF Cycle, TypeOK
    <3>3. cycles' = [cycles EXCEPT ![c] = x]
      BY <2>3
    <3> HIDE DEF x
    <3> QED
      BY <1>1, <2>3, <3>1, <3>2, <3>3, OneWritten
  <2>4. CASE UNCHANGED <<cycles, noted>>
    BY <1>1, <2>4, NothingWritten
  <2>5. CASE AnchorEscalation(head, None, "audit")
    BY <1>h, <2>1, <2>5, AnchorWrites
  <2> QED
    BY <1>3, <2>2, <2>3, <2>4, <2>5 DEF Open
<1>4. ASSUME NEW r \in Runs, NEW status \in {"PASSED", "BLOCKED", "ESCALATED"},
             Verdict(r, status)
      PROVE  Written(None)
  <2> DEFINE c == worker.cycle
             x == [cycles[c] EXCEPT !.status = status, !.kind = "audit"]
  <2>1. worker.stage = "auditing" /\ worker.run \in Runs
    BY <1>4 DEF Verdict, At
  <2>2. c \in Commits /\ cycles[c] # None /\ cycles[c] \in Cycle /\ c <= head
        /\ cycles[c].status # "PASSED"
    BY <2>1 DEF GoodCycles, TypeOK, Known
  <2>3. noted' \in 0..MaxRuns
    BY <1>1, <1>4, NotedIs DEF Verdict
  <2>4. x \in Cycle /\ x.status = status /\ x.run = cycles[c].run
    BY <2>2 DEF Cycle
  <2>5. status = "PASSED" => worker'.stage = "finishing"
    BY <1>4 DEF Verdict, Finishing, TypeOK, Worker
  <2>6. cycles' = [cycles EXCEPT ![c] = x] \/ cycles' = cycles
    BY <1>4 DEF Verdict
  <2> HIDE DEF x, c
  <2> QED
    BY <2>1, <2>2, <2>3, <2>4, <2>5, <2>6, OneWritten, NothingWritten
<1>5. ASSUME NEW r \in Runs, NEW noScience \in BOOLEAN, Refuse(r, noScience)
      PROVE  (Written(r) /\ Author(r)) \/ Written(None)
  <2>1. CASE noScience
    <3>1. Written(r)
      BY <1>5, <1>h, <2>1, AnchorWrites DEF Refuse, TypeOK
    <3>2. Author(r)
      BY <1>5 DEF Refuse, At, Author, Early, Finishing, TypeOK, Worker
    <3> QED
      BY <3>1, <3>2
  <2>2. CASE ~noScience
    BY <1>1, <1>5, <2>2, NothingWritten DEF Refuse
  <2> QED
    BY <2>1, <2>2
<1>6. ASSUME NEW r \in Runs, RecordDecision(r) PROVE Written(r) /\ Author(r)
  <2>1. Author(r)
    BY <1>6 DEF RecordDecision, At, Author, Early, Parked, Finishing, TypeOK, Worker
  <2>2. Written(r)
    BY <1>6, <1>h, AnchorWrites, EscalateWrites DEF RecordDecision, TypeOK
  <2> QED
    BY <2>1, <2>2
<1>7. ASSUME NEW r \in Runs, ShellWrites(r) PROVE Written(r) /\ Author(r)
  <2>1. Author(r)
    BY <1>7 DEF ShellWrites, At, Author, Parked, Finishing, TypeOK, Worker
  <2>2. Written(r)
    BY <1>7, <1>h, AnchorWrites, EscalateWrites DEF ShellWrites, TypeOK
  <2> QED
    BY <2>1, <2>2
<1>8. ASSUME NEW c \in Commits, Close(c) PROVE Written(None)
  <2>1. cycles[c] # None /\ cycles[c] \in Cycle /\ c <= head /\ cycles[c].status = "ESCALATED"
    BY <1>8 DEF Close, GoodCycles, TypeOK, Known
  <2>2. cycles' = [cycles EXCEPT ![c] = Closed(cycles[c])] /\ UNCHANGED noted
    BY <1>8 DEF Close
  <2> QED
    BY <1>1, <2>1, <2>2, ClosedIs, OneWritten
<1>9. ASSUME NEW c \in Commits, NEW retry \in BOOLEAN, Reopen(c, retry) PROVE Written(None)
  <2> DEFINE x == [cycles[c] EXCEPT !.status = "OPEN", !.reopened = TRUE, !.run = None]
  <2>1. cycles[c] # None /\ cycles[c] \in Cycle /\ c <= head /\ cycles[c].status = "ESCALATED"
    BY <1>9 DEF Reopen, GoodCycles, TypeOK, Known
  <2>2. cycles' = [cycles EXCEPT ![c] = x] /\ UNCHANGED noted
    BY <1>9 DEF Reopen
  <2>3. x \in Cycle /\ x.status = "OPEN" /\ x.run = None
    BY <2>1 DEF Cycle
  <2> HIDE DEF x
  <2> QED
    BY <1>1, <2>1, <2>2, <2>3, OneWritten
<1>10. ASSUME CloseParkEscalations PROVE Written(None)
  <2> DEFINE hit(c) == c \in Known /\ cycles[c].status = "ESCALATED" /\ cycles[c].run = person.what
  <2>1. cycles' = [c \in Commits |-> IF hit(c) THEN Closed(cycles[c]) ELSE cycles[c]]
        /\ UNCHANGED noted
    BY <1>10 DEF CloseParkEscalations
  <2>2. \A c \in Commits : hit(c) =>
          /\ cycles[c] \in Cycle /\ cycles[c] # None /\ c <= head
          /\ cycles[c].status = "ESCALATED"
    BY DEF GoodCycles, TypeOK, Known
  <2>3. \A c \in Commits : hit(c) =>
          /\ Closed(cycles[c]) \in Cycle /\ Closed(cycles[c]) # None
          /\ Closed(cycles[c]).status = "BLOCKED" /\ Closed(cycles[c]).run = cycles[c].run
    BY <2>2, ClosedIs, NoneIsNoCycle
  <2> HIDE DEF hit
  <2>4. cycles' \in [Commits -> Cycle \cup {None}]
    BY <2>1, <2>3 DEF TypeOK
  <2>5. \A d \in Commits : \/ cycles'[d] = cycles[d]
                           \/ hit(d) /\ cycles'[d] = Closed(cycles[d])
    BY <2>1
  <2> QED
    BY <1>1, <2>1, <2>2, <2>3, <2>4, <2>5 DEF Written
<1>11. ASSUME RetryRefused PROVE Written(None)
  BY <1>11, EscalateWrites DEF RetryRefused
<1>12. ASSUME CompleteDecision PROVE Written(sweep.row) /\ Author(sweep.row) /\ sweep.row \in Runs
  <2>1. sweep.row \in Runs /\ sweep.at \in Commits /\ sweep.at <= head
    BY <1>12 DEF CompleteDecision, GoodSweep, TypeOK, Sweep
  <2>2. SweepKind(sweep.row) \in {"provider", "audit"}
    BY DEF SweepKind
  <2>3. Written(sweep.row)
    BY <1>12, <2>1, <2>2, AnchorWrites, EscalateWrites DEF CompleteDecision
  <2> QED
    BY <1>12, <2>1, <2>3 DEF CompleteDecision, Author
<1>13. ASSUME UNCHANGED <<cycles, noted>> PROVE Written(None)
  BY <1>1, <1>13, NothingWritten
<1>14. CASE \E r \in Runs, c \in Commits \cup {None}, routed \in {0, 1} : Start(r, c, routed)
  BY <1>14, <1>13, <1>a DEF Start
<1>15. CASE \E r \in Runs : WorkerSteps(r)
  <2> PICK r \in Runs : WorkerSteps(r)
    BY <1>15
  <2>1. CASE Commit(r) \/ Stop(r) \/ ShellReads(r) \/ Finish(r) \/ \E b \in BOOLEAN : Park(r, b)
    BY <2>1, <1>13, <1>a DEF Commit, Stop, ShellReads, Finish, Park
  <2> QED
    BY <2>1, <1>2, <1>3, <1>4, <1>5, <1>6, <1>7, <1>a DEF WorkerSteps
<1>16. CASE PersonSteps
  <2>1. CASE SettleClosed \/ \E r \in Runs : RequestCancel(r) \/ DismissInterruption(r)
    BY <2>1, <1>13, <1>a DEF SettleClosed, RequestCancel, DismissInterruption
  <2> QED
    BY <1>16, <2>1, <1>8, <1>9, <1>10, <1>11, <1>a DEF PersonSteps, SecondHalf
<1>17. CASE SweepSteps
  <2>1. CASE Survey \/ LookAtLatest \/ Decide \/ \E r \in Runs : Recover(r) \/ CompleteHumanWait(r)
    BY <2>1, <1>13, <1>a DEF Survey, LookAtLatest, Decide, Recover, CompleteHumanWait
  <2> QED
    BY <1>17, <2>1, <1>12, <1>a DEF SweepSteps
<1>18. CASE WorkerDies \/ ConsoleDies \/ UNCHANGED vars
  BY <1>18, <1>13, <1>a DEF WorkerDies, ConsoleDies, vars
<1> QED
  BY <1>14, <1>15, <1>16, <1>17, <1>18 DEF Next

\* What a row is after its state is set.
LEMMA SetRowIs ==
  ASSUME TypeOK, NEW r \in Runs, NEW state, NEW outcome, SetRow(r, state, outcome)
  PROVE  /\ rows' = [rows EXCEPT ![r] = [state |-> state, outcome |-> outcome]]
         /\ rows'[r].state = state
         /\ \A q \in Runs : q # r => rows'[q] = rows[q]
  BY DEF SetRow, TypeOK

LEMMA RowsMove ==
  ASSUME WaitInv, [Next]_vars
  PROVE  \A q \in Runs : Moved(q)
<1> USE DEF WaitInv
<1>1. ASSUME UNCHANGED rows PROVE \A q \in Runs : Moved(q)
  BY <1>1 DEF Moved
<1>2. ASSUME NEW r \in Runs, NEW state, NEW outcome, SetRow(r, state, outcome), Moved(r)
      PROVE  \A q \in Runs : Moved(q)
  BY <1>2, SetRowIs DEF Moved
<1>3. CASE \E r \in Runs, c \in Commits \cup {None}, routed \in {0, 1} : Start(r, c, routed)
  <2> PICK r \in Runs, c \in Commits \cup {None}, routed \in {0, 1} : Start(r, c, routed)
    BY <1>3
  <2>1. SetRow(r, "WORKING", None) /\ rows[r].state = None /\ worker.run = None
    BY DEF Start
  <2>2. worker'.run = r
    BY DEF Start, IdleWorker
  <2> QED
    BY <1>2, <2>1, <2>2, SetRowIs DEF Moved
<1>4. CASE \E r \in Runs : WorkerSteps(r)
  <2> PICK r \in Runs : WorkerSteps(r)
    BY <1>4
  <2>1. ASSUME NEW b \in BOOLEAN, Park(r, b) PROVE \A q \in Runs : Moved(q)
    <3>1. CASE rows[r].state = "WORKING"
      <4>1. SetRow(r, "PROVIDER_UNAVAILABLE", None) /\ worker.run = r
        BY <2>1, <3>1 DEF Park, At
      <4>2. worker'.run = r /\ worker'.stage \in {"parked", "shell"}
        BY <2>1, <3>1 DEF Park, At, TypeOK, Worker
      <4> QED
        BY <1>2, <3>1, <4>1, <4>2, SetRowIs DEF Moved
    <3>2. CASE rows[r].state # "WORKING"
      BY <1>1, <2>1, <3>2 DEF Park
    <3> QED
      BY <3>1, <3>2
  <2>2. ASSUME Finish(r) PROVE \A q \in Runs : Moved(q)
    <3> DEFINE outcome == IF rows[r].state = "CANCELLING" THEN "cancelled" ELSE worker.outcome
    <3>1. worker.run = r /\ worker.stage = "finishing" /\ worker' = IdleWorker
      BY <2>2 DEF Finish, At
    <3>2. CASE rows[r].state \in Active \cup {"PROVIDER_UNAVAILABLE"}
      <4>1. SetRow(r, Settled(outcome), outcome)
        BY <2>2, <3>2 DEF Finish
      <4>2. /\ Settled(outcome) # None
            /\ Settled(outcome) = "PASSED" => worker.outcome = "passed"
        BY DEF Settled, States, Active, Waiting
      <4>3. rows[r].state = "PROVIDER_UNAVAILABLE" => Settled(outcome) = "PROVIDER_UNAVAILABLE"
        BY <3>1 DEF GoodWorker, Placed, Settled, Active, Runs
      <4> HIDE DEF outcome
      <4> QED
        BY <1>2, <3>1, <3>2, <4>1, <4>2, <4>3, SetRowIs DEF Moved
    <3>3. CASE rows[r].state \notin Active \cup {"PROVIDER_UNAVAILABLE"}
      BY <1>1, <2>2, <3>3 DEF Finish
    <3> QED
      BY <3>2, <3>3
  <2>3. CASE \/ Commit(r) \/ Continue(r) \/ Open(r) \/ Stop(r) \/ RecordDecision(r)
             \/ ShellReads(r) \/ ShellWrites(r) \/ \E b \in BOOLEAN : Refuse(r, b)
             \/ \E status \in {"PASSED", "BLOCKED", "ESCALATED"} : Verdict(r, status)
    BY <1>1, <2>3 DEF Commit, Continue, Open, Stop, RecordDecision, ShellReads, ShellWrites,
       Refuse, Verdict
  <2> QED
    BY <2>1, <2>2, <2>3 DEF WorkerSteps
<1>5. CASE PersonSteps
  <2>1. ASSUME NEW r \in Runs, RequestCancel(r) PROVE \A q \in Runs : Moved(q)
    <3>1. CASE rows[r].state = "WORKING" /\ SetRow(r, "CANCELLING", None)
      BY <1>2, <2>1, <3>1, SetRowIs DEF RequestCancel, Moved
    <3>2. CASE rows[r].state = "PROVIDER_UNAVAILABLE" /\ SetRow(r, "CANCELLED", "cancelled")
      BY <1>2, <2>1, <3>2, SetRowIs DEF RequestCancel, Moved
    <3> QED
      BY <2>1, <3>1, <3>2 DEF RequestCancel
  <2>2. ASSUME NEW r \in Runs, DismissInterruption(r) PROVE \A q \in Runs : Moved(q)
    <3>1. SetRow(r, "CANCELLED", "cancelled") /\ rows[r].state = "INTERRUPTED" /\ UNCHANGED worker
      BY <2>2 DEF DismissInterruption
    <3> QED
      BY <1>2, <3>1, SetRowIs DEF Moved
  <2>3. ASSUME SettleClosed PROVE \A q \in Runs : Moved(q)
    <3>1. person.what \in Runs /\ UNCHANGED worker
      BY <2>3 DEF SettleClosed, GoodPerson
    <3>2. CASE rows[person.what].state = "PROVIDER_UNAVAILABLE"
      <4>1. SetRow(person.what, "CANCELLED", "cancelled")
        BY <2>3, <3>2 DEF SettleClosed
      <4> QED
        BY <1>2, <3>1, <3>2, <4>1, SetRowIs DEF Moved
    <3>3. CASE rows[person.what].state # "PROVIDER_UNAVAILABLE"
      BY <1>1, <2>3, <3>3 DEF SettleClosed
    <3> QED
      BY <3>2, <3>3
  <2>4. CASE \/ CloseParkEscalations \/ RetryRefused
             \/ \E c \in Commits : Close(c) \/ \E retry \in BOOLEAN : Reopen(c, retry)
    BY <1>1, <2>4 DEF CloseParkEscalations, RetryRefused, Close, Reopen
  <2> QED
    BY <1>5, <2>1, <2>2, <2>3, <2>4 DEF PersonSteps, SecondHalf
<1>6. CASE SweepSteps
  <2>1. ASSUME NEW r \in Runs, Recover(r) PROVE \A q \in Runs : Moved(q)
    <3>1. rows[r].state \in Active /\ worker.run # r /\ UNCHANGED worker
      BY <2>1 DEF Recover
    <3>2. /\ rows'[r].state \in {"CANCELLED", "INTERRUPTED"}
          /\ \A q \in Runs : q # r => rows'[q] = rows[q]
      BY <2>1 DEF Recover, TypeOK, Row
    <3> QED
      BY <3>1, <3>2 DEF Moved
  <2>2. ASSUME NEW r \in Runs, CompleteHumanWait(r) PROVE \A q \in Runs : Moved(q)
    <3>1. CASE rows[r].state = "INTERRUPTED"
      <4>1. SetRow(r, "WAITING_FOR_HUMAN", "escalated") /\ UNCHANGED worker
        BY <2>2, <3>1 DEF CompleteHumanWait
      <4> QED
        BY <1>2, <3>1, <4>1, SetRowIs DEF Moved
    <3>2. CASE rows[r].state # "INTERRUPTED"
      BY <1>1, <2>2, <3>2 DEF CompleteHumanWait
    <3> QED
      BY <3>1, <3>2
  <2>3. CASE Survey \/ LookAtLatest \/ Decide \/ CompleteDecision
    BY <1>1, <2>3 DEF Survey, LookAtLatest, Decide, CompleteDecision
  <2> QED
    BY <1>6, <2>1, <2>2, <2>3 DEF SweepSteps
<1>7. CASE WorkerDies \/ ConsoleDies \/ UNCHANGED vars
  BY <1>1, <1>7 DEF WorkerDies, ConsoleDies, vars
<1> QED
  BY <1>3, <1>4, <1>5, <1>6, <1>7 DEF Next

-----------------------------------------------------------------------------
(* Types. *)

LEMMA SetRowTyped ==
  ASSUME TypeOK, NEW r \in Runs, NEW state \in States, NEW outcome \in Outcomes \cup {None},
         SetRow(r, state, outcome)
  PROVE  rows' \in [Runs -> Row]
  BY DEF SetRow, TypeOK, Row

LEMMA RowsTyped == ASSUME WaitInv, [Next]_vars PROVE rows' \in [Runs -> Row]
<1> USE DEF WaitInv
<1>1. ASSUME UNCHANGED rows PROVE rows' \in [Runs -> Row]
  BY <1>1 DEF TypeOK
<1>2. /\ {"WORKING", "CANCELLING", "CANCELLED", "INTERRUPTED", "PROVIDER_UNAVAILABLE",
          "WAITING_FOR_HUMAN", "PASSED"} \subseteq States
      /\ {"escalated", "cancelled"} \subseteq Outcomes
  BY DEF States, Active, Waiting, Outcomes
<1>3. CASE \E r \in Runs, c \in Commits \cup {None}, routed \in {0, 1} : Start(r, c, routed)
  BY <1>2, <1>3, SetRowTyped DEF Start
<1>4. CASE \E r \in Runs : WorkerSteps(r)
  <2> PICK r \in Runs : WorkerSteps(r)
    BY <1>4
  <2>1. ASSUME NEW b \in BOOLEAN, Park(r, b) PROVE rows' \in [Runs -> Row]
    BY <1>1, <1>2, <2>1, SetRowTyped DEF Park
  <2>2. ASSUME Finish(r) PROVE rows' \in [Runs -> Row]
    <3> DEFINE outcome == IF rows[r].state = "CANCELLING" THEN "cancelled" ELSE worker.outcome
    <3>1. worker.outcome \in Outcomes \cup {None}
      BY DEF TypeOK, Worker
    <3>2. outcome \in Outcomes \cup {None}
      BY <1>2, <3>1
    <3>3. Settled(outcome) \in States
      BY <1>2 DEF Settled
    <3> HIDE DEF outcome
    <3>4. UNCHANGED rows \/ SetRow(r, Settled(outcome), outcome)
      BY <2>2 DEF Finish, outcome
    <3> QED
      BY <1>1, <3>2, <3>3, <3>4, SetRowTyped
  <2>3. CASE \/ Commit(r) \/ Continue(r) \/ Open(r) \/ Stop(r) \/ RecordDecision(r)
             \/ ShellReads(r) \/ ShellWrites(r) \/ \E b \in BOOLEAN : Refuse(r, b)
             \/ \E status \in {"PASSED", "BLOCKED", "ESCALATED"} : Verdict(r, status)
    BY <1>1, <2>3 DEF Commit, Continue, Open, Stop, RecordDecision, ShellReads, ShellWrites,
       Refuse, Verdict
  <2> QED
    BY <2>1, <2>2, <2>3 DEF WorkerSteps
<1>5. CASE PersonSteps
  <2>1. CASE \E r \in Runs : RequestCancel(r) \/ DismissInterruption(r)
    BY <1>2, <2>1, SetRowTyped DEF RequestCancel, DismissInterruption
  <2>2. CASE SettleClosed
    BY <1>1, <1>2, <2>2, SetRowTyped DEF SettleClosed, GoodPerson
  <2>3. CASE \/ CloseParkEscalations \/ RetryRefused
             \/ \E c \in Commits : Close(c) \/ \E retry \in BOOLEAN : Reopen(c, retry)
    BY <1>1, <2>3 DEF CloseParkEscalations, RetryRefused, Close, Reopen
  <2> QED
    BY <1>5, <2>1, <2>2, <2>3 DEF PersonSteps, SecondHalf
<1>6. CASE SweepSteps
  <2>1. CASE \E r \in Runs : Recover(r)
    BY <1>2, <2>1 DEF Recover, TypeOK, Row
  <2>2. CASE \E r \in Runs : CompleteHumanWait(r)
    BY <1>1, <1>2, <2>2, SetRowTyped DEF CompleteHumanWait
  <2>3. CASE Survey \/ LookAtLatest \/ Decide \/ CompleteDecision
    BY <1>1, <2>3 DEF Survey, LookAtLatest, Decide, CompleteDecision
  <2> QED
    BY <1>6, <2>1, <2>2, <2>3 DEF SweepSteps
<1>7. CASE WorkerDies \/ ConsoleDies \/ UNCHANGED vars
  BY <1>1, <1>7 DEF WorkerDies, ConsoleDies, vars
<1> QED
  BY <1>3, <1>4, <1>5, <1>6, <1>7 DEF Next

LEMMA HeadMoves == ASSUME WaitInv, [Next]_vars PROVE head' \in Commits /\ head <= head'
<1> USE DEF WaitInv, TypeOK, Commits
<1>1. CASE UNCHANGED head
  BY <1>1
<1>2. CASE \E r \in Runs, c \in Commits \cup {None}, routed \in {0, 1} : Start(r, c, routed)
  BY <1>2 DEF Start
<1>3. CASE \E r \in Runs : Commit(r)
  BY <1>3 DEF Commit
<1>4. CASE \E r \in Runs : \E status \in {"PASSED", "BLOCKED", "ESCALATED"} : Verdict(r, status)
  BY <1>4 DEF Verdict
<1>5. CASE \E r \in Runs : \/ Continue(r) \/ Open(r) \/ Stop(r) \/ RecordDecision(r)
             \/ ShellReads(r) \/ ShellWrites(r) \/ Finish(r)
             \/ \E b \in BOOLEAN : Park(r, b) \/ Refuse(r, b)
  BY <1>1, <1>5 DEF Continue, Open, Stop, RecordDecision, ShellReads, ShellWrites, Finish, Park, Refuse
<1>6. CASE PersonSteps
  BY <1>1, <1>6 DEF PersonSteps, SecondHalf, RequestCancel, DismissInterruption, Close, Reopen,
     CloseParkEscalations, SettleClosed, RetryRefused
<1>7. CASE SweepSteps
  BY <1>1, <1>7 DEF SweepSteps, Survey, LookAtLatest, Decide, CompleteDecision, Recover,
     CompleteHumanWait
<1>8. CASE WorkerDies \/ ConsoleDies \/ UNCHANGED vars
  BY <1>1, <1>8 DEF WorkerDies, ConsoleDies, vars
<1> QED
  BY <1>2, <1>3, <1>4, <1>5, <1>6, <1>7, <1>8 DEF Next, WorkerSteps

LEMMA CountersTyped ==
  ASSUME WaitInv, [Next]_vars
  PROVE  commands' \in 0..MaxCommands /\ deaths' \in 0..MaxDeaths
<1> USE DEF WaitInv, TypeOK
<1>1. CASE UNCHANGED <<commands, deaths>>
  BY <1>1
<1>2. CASE Command /\ UNCHANGED deaths
  BY <1>2 DEF Command
<1>3. CASE Death /\ UNCHANGED commands
  BY <1>3 DEF Death
<1>4. CASE \E r \in Runs, c \in Commits \cup {None}, routed \in {0, 1} : Start(r, c, routed)
  BY <1>1, <1>4 DEF Start
<1>5. CASE \E r \in Runs : WorkerSteps(r)
  BY <1>1, <1>5 DEF WorkerSteps, Commit, Continue, Open, Stop, Verdict, RecordDecision, ShellReads,
     ShellWrites, Finish, Park, Refuse
<1>6. CASE PersonSteps
  BY <1>1, <1>2, <1>6 DEF PersonSteps, SecondHalf, RequestCancel, DismissInterruption, Close, Reopen,
     CloseParkEscalations, SettleClosed, RetryRefused
<1>7. CASE SweepSteps
  BY <1>1, <1>7 DEF SweepSteps, Survey, LookAtLatest, Decide, CompleteDecision, Recover,
     CompleteHumanWait
<1>8. CASE WorkerDies \/ ConsoleDies \/ UNCHANGED vars
  BY <1>1, <1>3, <1>8 DEF WorkerDies, ConsoleDies, vars
<1> QED
  BY <1>4, <1>5, <1>6, <1>7, <1>8 DEF Next

\* The person's second half, and what it is about.
LEMMA PersonKept == ASSUME WaitInv, [Next]_vars PROVE person' \in Person /\ GoodPerson'
<1> USE DEF WaitInv
<1>1. CASE UNCHANGED person
  BY <1>1 DEF TypeOK, GoodPerson
<1>2. CASE person' = AtRest
  BY <1>2 DEF AtRest, Person, GoodPerson
<1>3. CASE \E r \in Runs, c \in Commits \cup {None}, routed \in {0, 1} : Start(r, c, routed)
  BY <1>1, <1>2, <1>3 DEF Start
<1>4. CASE \E r \in Runs : WorkerSteps(r)
  BY <1>1, <1>4 DEF WorkerSteps, Commit, Continue, Open, Stop, Verdict, RecordDecision, ShellReads,
     ShellWrites, Finish, Park, Refuse
<1>5. CASE PersonSteps
  <2>1. CASE \E r \in Runs : RequestCancel(r)
    BY <1>1, <2>1 DEF RequestCancel, Person, GoodPerson
  <2>2. ASSUME NEW c \in Commits, Close(c) PROVE person' \in Person /\ GoodPerson'
    <3>1. cycles[c] \in Cycle
      BY <2>2 DEF Close, TypeOK, Known
    <3>2. cycles[c].run \in Runs \cup {None}
      BY <3>1 DEF Cycle
    <3> QED
      BY <1>2, <2>2, <3>2 DEF Close, Person, GoodPerson
  <2>3. CASE \E c \in Commits : \E retry \in BOOLEAN : Reopen(c, retry)
    BY <1>2, <2>3 DEF Reopen, Person, GoodPerson
  <2>4. CASE (\E r \in Runs : DismissInterruption(r)) \/ SecondHalf \/ RetryRefused
    BY <1>1, <1>2, <2>4 DEF SecondHalf, DismissInterruption, CloseParkEscalations, SettleClosed,
       RetryRefused
  <2> QED
    BY <1>5, <2>1, <2>2, <2>3, <2>4 DEF PersonSteps
<1>6. CASE SweepSteps
  BY <1>1, <1>6 DEF SweepSteps, Survey, LookAtLatest, Decide, CompleteDecision, Recover,
     CompleteHumanWait
<1>7. CASE WorkerDies \/ ConsoleDies \/ UNCHANGED vars
  BY <1>1, <1>2, <1>7 DEF WorkerDies, ConsoleDies, vars
<1> QED
  BY <1>3, <1>4, <1>5, <1>6, <1>7 DEF Next

\* A sweep holds its row at rest, whatever happens to it meanwhile.
LEMMA SweepKept == ASSUME WaitInv, [Next]_vars PROVE sweep' \in Sweep /\ GoodSweep'
<1> USE DEF WaitInv
<1>h. head \in Nat /\ head' \in Nat /\ head <= head' /\ sweep.at \in Nat
  BY HeadMoves DEF TypeOK, Commits, Sweep
<1>s. sweep \in Sweep /\ IdleSweep \in Sweep
  BY DEF TypeOK, Sweep, IdleSweep, Commits
<1>r. ASSUME NEW q \in Runs, rows[q].state \in Waiting \cup {"CANCELLED"}
      PROVE  rows'[q].state \in Waiting \cup {"CANCELLED"}
  BY <1>r, RowsMove DEF Moved, Active, Waiting, States
<1>1. CASE UNCHANGED sweep
  BY <1>1, <1>h, <1>s, <1>r DEF GoodSweep
<1>2. CASE sweep' = IdleSweep
  BY <1>2, <1>h, <1>s DEF IdleSweep, GoodSweep
<1>3. CASE \E r \in Runs, c \in Commits \cup {None}, routed \in {0, 1} : Start(r, c, routed)
  BY <1>1, <1>3 DEF Start
<1>4. CASE \E r \in Runs : WorkerSteps(r)
  BY <1>1, <1>4 DEF WorkerSteps, Commit, Continue, Open, Stop, Verdict, RecordDecision, ShellReads,
     ShellWrites, Finish, Park, Refuse
<1>5. CASE PersonSteps
  BY <1>1, <1>5 DEF PersonSteps, SecondHalf, RequestCancel, DismissInterruption, Close, Reopen,
     CloseParkEscalations, SettleClosed, RetryRefused
<1>6. CASE SweepSteps
  <2>1. CASE Survey
    <3> PICK plan \in Plans :
          sweep' = [stage |-> "healing", heal |-> Completable, at |-> head, plan |-> plan, row |-> None]
      BY <2>1 DEF Survey
    <3>1. plan \in Commits \cup {None, Leave} /\ head \in Commits /\ Completable \subseteq Runs
      BY PlansAre DEF TypeOK, Completable
    <3> QED
      BY <1>h, <3>1 DEF Sweep, GoodSweep
  <2>2. CASE LookAtLatest
    <3> PICK r \in Runs : sweep' = IF CycleLess(r) THEN [sweep EXCEPT !.stage = "deciding", !.row = r]
                                   ELSE IdleSweep
      BY <2>2 DEF LookAtLatest
    <3>1. CASE CycleLess(r)
      <4>1. rows'[r].state \in Waiting
        BY <2>2, <3>1 DEF CycleLess, LookAtLatest
      <4>2. sweep' = [sweep EXCEPT !.stage = "deciding", !.row = r]
        BY <3>1
      <4>3. sweep' \in Sweep /\ sweep'.stage = "deciding" /\ sweep'.row = r /\ sweep'.at = sweep.at
        BY <1>s, <4>2 DEF Sweep
      <4> QED
        BY <1>h, <4>1, <4>3 DEF GoodSweep
    <3> QED
      BY <1>2, <3>1
  <2>3. CASE Decide
    <3> DEFINE plan == IF head = sweep.at THEN sweep.plan ELSE None
    <3>1. CASE plan = Leave
      BY <1>2, <2>3, <3>1 DEF Decide
    <3>2. CASE plan # Leave
      <4>1. sweep' = [sweep EXCEPT !.stage = "writing", !.at = head, !.plan = plan]
        BY <2>3, <3>2 DEF Decide
      <4>2. plan \in Commits \cup {None, Leave} /\ head \in Commits
        BY <1>s DEF Sweep, TypeOK
      <4> HIDE DEF plan
      <4>3. /\ sweep' \in Sweep /\ sweep'.stage = "writing" /\ sweep'.row = sweep.row
            /\ sweep'.at = head /\ sweep'.plan = plan
        BY <1>s, <4>1, <4>2 DEF Sweep
      <4> QED
        BY <1>h, <1>r, <2>3, <3>2, <4>3 DEF GoodSweep, Decide
    <3> QED
      BY <3>1, <3>2
  <2>4. CASE \E r \in Runs : CompleteHumanWait(r)
    <3> PICK r \in Runs : CompleteHumanWait(r)
      BY <2>4
    <3>1. sweep' = [sweep EXCEPT !.heal = @ \ {r}] /\ sweep.stage = "healing"
      BY DEF CompleteHumanWait
    <3>2. sweep' \in Sweep /\ sweep'.stage = "healing" /\ sweep'.at = sweep.at
      BY <1>s, <3>1 DEF Sweep
    <3> QED
      BY <1>h, <3>2 DEF GoodSweep
  <2>5. CASE CompleteDecision \/ \E r \in Runs : Recover(r)
    BY <1>1, <1>2, <2>5 DEF CompleteDecision, Recover
  <2> QED
    BY <1>6, <2>1, <2>2, <2>3, <2>4, <2>5 DEF SweepSteps
<1>7. CASE WorkerDies \/ ConsoleDies \/ UNCHANGED vars
  BY <1>1, <1>2, <1>7 DEF WorkerDies, ConsoleDies, vars
<1> QED
  BY <1>3, <1>4, <1>5, <1>6, <1>7 DEF Next

-----------------------------------------------------------------------------
(* The worker's place. *)

LEMMA FinishingIs ==
  ASSUME TypeOK, NEW outcome \in Outcomes, Finishing(outcome)
  PROVE  /\ worker' \in Worker /\ worker'.run = worker.run
         /\ worker'.stage = "finishing" /\ worker'.outcome = outcome
  BY DEF Finishing, TypeOK, Worker, Stages

LEMMA StageIs ==
  ASSUME TypeOK, NEW stage \in Stages, worker' = [worker EXCEPT !.stage = stage]
  PROVE  worker' \in Worker /\ worker'.run = worker.run /\ worker'.stage = stage
         /\ worker'.cycle = worker.cycle
  BY DEF TypeOK, Worker

LEMMA StageAndCycleIs ==
  ASSUME TypeOK, NEW stage \in Stages, NEW c \in Commits \cup {None},
         worker' = [worker EXCEPT !.stage = stage, !.cycle = c]
  PROVE  worker' \in Worker /\ worker'.run = worker.run /\ worker'.stage = stage
         /\ worker'.cycle = c
  BY DEF TypeOK, Worker

\* No step of the worker's own names a run, unless it finishes.
LEMMA StillUnnamed ==
  ASSUME WaitInv, [Next]_vars, NEW q \in Runs, ~Named(q),
         worker'.stage = "finishing" /\ worker'.run = q => worker'.outcome = "passed",
         sweep.stage = "writing" => sweep.row # q \/ rows # rows' \/ worker # worker'
  PROVE  ~Named(q)'
<1> USE DEF WaitInv
<1>1. PICK r \in Runs \cup {None} : Written(r) /\ Author(r)
  BY AuthorsWrite
<1>2. r # q
  BY <1>1 DEF Author, Runs
<1> QED
  BY <1>1, <1>2, WrittenNames

\* How the worker goes on from where it is.
LEMMA WorkerGoesOn ==
  ASSUME WaitInv, [Next]_vars, NEW r \in Runs, worker.run = r, WorkerSteps(r)
  PROVE  /\ worker' \in Worker
         /\ worker' = IdleWorker \/ (worker'.run = r /\ worker'.stage # worker.stage)
         /\ worker'.run = r =>
              Placed(worker'.stage, worker'.outcome, rows'[r].state, Named(r)')
<1> USE DEF WaitInv
<1>p. Placed(worker.stage, worker.outcome, rows[r].state, Named(r))
  BY DEF GoodWorker, Runs
<1>o. Outcomes = {"passed", "escalated", "refused", "provider_unavailable", "cancelled"}
  BY DEF Outcomes
<1>s. Stages = {"loop", "committed", "auditing", "stopping", "parked", "shell", "writing", "finishing"}
  BY DEF Stages
\* A worker that has not stopped moves to such a place again, and its row stays.
<1>1. ASSUME worker.stage \in Early, worker' \in Worker, worker'.run = r,
             worker'.stage \in Early, worker'.stage # worker.stage, UNCHANGED rows
      PROVE  Placed(worker'.stage, worker'.outcome, rows'[r].state, Named(r)')
  <2>1. rows[r].state \in Active /\ ~Named(r)
    BY <1>1, <1>p DEF Placed
  <2>2. worker # worker' /\ worker'.stage # "finishing"
    BY <1>1 DEF Early
  <2>3. ~Named(r)'
    BY <2>1, <2>2, StillUnnamed
  <2> QED
    BY <1>1, <2>1, <2>2, <2>3 DEF Placed, Early, Parked
\* It decides how to end, and its row stays.
<1>2. ASSUME worker.stage \in Early, NEW outcome \in Outcomes \ {"provider_unavailable"},
             Finishing(outcome), UNCHANGED rows
      PROVE  Placed(worker'.stage, worker'.outcome, rows'[r].state, Named(r)')
  <2>1. rows[r].state \in Active /\ ~Named(r)
    BY <1>2, <1>p DEF Placed
  <2>2. worker'.stage = "finishing" /\ worker'.outcome = outcome /\ worker' # worker /\ outcome # None
    BY <1>2, FinishingIs DEF Early
  <2>3. worker'.outcome = "passed" => ~Named(r)'
    BY <2>1, <2>2, StillUnnamed
  <2> QED
    BY <1>2, <2>1, <2>2, <2>3 DEF Placed, Early, Parked
<1>3. ASSUME worker.stage \in Parked, Finishing("provider_unavailable"), UNCHANGED rows
      PROVE  Placed(worker'.stage, worker'.outcome, rows'[r].state, Named(r)')
  <2>1. rows[r].state \in {"PROVIDER_UNAVAILABLE", "CANCELLED"}
    BY <1>3, <1>p DEF Placed
  <2>2. worker'.stage = "finishing" /\ worker'.outcome = "provider_unavailable"
    BY <1>3, <1>o, FinishingIs
  <2>3. "provider_unavailable" # None
    BY <1>o
  <2> QED
    BY <1>3, <2>1, <2>2, <2>3 DEF Placed, Early, Parked
<1>4. CASE Commit(r)
  <2>1. worker.stage = "loop" /\ UNCHANGED rows /\ worker' = [worker EXCEPT !.stage = "committed"]
    BY <1>4 DEF Commit, At
  <2> QED
    BY <1>1, <1>s, <2>1, StageIs DEF Early
<1>5. CASE Stop(r)
  <2>1. worker.stage = "loop" /\ UNCHANGED rows /\ worker' = [worker EXCEPT !.stage = "stopping"]
    BY <1>5 DEF Stop, At
  <2> QED
    BY <1>1, <1>s, <2>1, StageIs DEF Early
<1>6. CASE Continue(r)
  <2>1. worker.stage = "committed" /\ UNCHANGED rows
    BY <1>6 DEF Continue, At
  <2>2. Finishing("refused") \/ worker' = [worker EXCEPT !.stage = "auditing"]
    BY <1>6 DEF Continue
  <2> QED
    BY <1>1, <1>2, <1>o, <1>s, <2>1, <2>2, StageIs, FinishingIs DEF Early
<1>7. CASE Open(r)
  <2>1. worker.stage = "committed" /\ UNCHANGED rows /\ head \in Commits
    BY <1>7 DEF Open, At, TypeOK
  <2>2. \/ Finishing("escalated")
        \/ \E c \in Commits : worker' = [worker EXCEPT !.stage = "auditing", !.cycle = c]
    BY <1>7, <2>1 DEF Open, Known
  <2> QED
    BY <1>1, <1>2, <1>o, <1>s, <2>1, <2>2, StageAndCycleIs, FinishingIs DEF Early
<1>8. CASE \E status \in {"PASSED", "BLOCKED", "ESCALATED"} : Verdict(r, status)
  <2>1. worker.stage = "auditing" /\ UNCHANGED rows
    BY <1>8 DEF Verdict, At
  <2>2. \/ Finishing("passed") \/ Finishing("escalated")
        \/ worker' = [worker EXCEPT !.stage = "loop"]
    BY <1>8 DEF Verdict
  <2> QED
    BY <1>1, <1>2, <1>o, <1>s, <2>1, <2>2, StageIs, FinishingIs DEF Early
<1>9. CASE \E b \in BOOLEAN : Refuse(r, b)
  <2>1. worker.stage \in Early \ {"stopping"} /\ UNCHANGED rows /\ Finishing("refused")
    BY <1>9 DEF Refuse, At, Early
  <2> QED
    BY <1>2, <1>o, <2>1, FinishingIs DEF Early
<1>10. CASE \E b \in BOOLEAN : Park(r, b)
  <2>1. worker.stage \in {"loop", "auditing"}
    BY <1>10 DEF Park, At
  <2>2. CASE rows[r].state = "WORKING"
    <3>1. \E stage \in {"parked", "shell"} : worker' = [worker EXCEPT !.stage = stage]
      BY <1>10, <2>2 DEF Park
    <3>2. rows'[r].state = "PROVIDER_UNAVAILABLE"
      BY <1>10, <2>2, SetRowIs DEF Park
    <3>3. worker' \in Worker /\ worker'.run = r /\ worker'.stage \in {"parked", "shell"}
      BY <1>s, <3>1, StageIs
    <3> QED
      BY <2>1, <3>2, <3>3 DEF Placed, Early, Parked
  <2>3. CASE rows[r].state # "WORKING"
    <3>1. Finishing("cancelled") /\ UNCHANGED rows
      BY <1>10, <2>3 DEF Park
    <3> QED
      BY <1>2, <1>o, <2>1, <3>1, FinishingIs DEF Early
  <2> QED
    BY <2>2, <2>3
<1>11. CASE RecordDecision(r)
  <2>1. UNCHANGED rows
    BY <1>11 DEF RecordDecision
  <2>2. CASE worker.stage = "stopping"
    <3>1. Finishing("escalated")
      BY <1>11, <2>2 DEF RecordDecision, At
    <3> QED
      BY <1>2, <1>o, <2>1, <2>2, <3>1, FinishingIs DEF Early
  <2>3. CASE worker.stage = "parked"
    <3>1. Finishing("provider_unavailable")
      BY <1>11, <2>3 DEF RecordDecision, At
    <3> QED
      BY <1>3, <1>o, <2>1, <2>3, <3>1, FinishingIs DEF Parked
  <2> QED
    BY <1>11, <2>2, <2>3 DEF RecordDecision, At
<1>12. CASE ShellWrites(r)
  <2>1. worker.stage = "writing" /\ UNCHANGED rows /\ Finishing("provider_unavailable")
    BY <1>12 DEF ShellWrites, At
  <2> QED
    BY <1>3, <1>o, <2>1, FinishingIs DEF Parked
<1>13. CASE ShellReads(r)
  <2>1. worker.stage = "shell" /\ UNCHANGED rows
    BY <1>13 DEF ShellReads, At
  <2>2. CASE Finishing("provider_unavailable")
    BY <1>3, <1>o, <2>1, <2>2, FinishingIs DEF Parked
  <2>3. ASSUME NEW plan \in Plans \ {Leave},
               worker' = [worker EXCEPT !.stage = "writing", !.cycle = plan]
        PROVE  /\ worker' \in Worker /\ worker'.run = r /\ worker'.stage = "writing"
    BY <1>s, <2>3, PlansAre, StageAndCycleIs
  <2>4. rows[r].state \in {"PROVIDER_UNAVAILABLE", "CANCELLED"}
    BY <1>p, <2>1 DEF Placed, Parked
  <2> QED
    BY <1>13, <2>1, <2>2, <2>3, <2>4 DEF ShellReads, Placed, Early, Parked
<1>14. CASE Finish(r)
  <2>1. worker' = IdleWorker
    BY <1>14 DEF Finish
  <2> QED
    BY <2>1, <1>s DEF IdleWorker, Worker, Runs
<1> QED
  BY <1>4, <1>5, <1>6, <1>7, <1>8, <1>9, <1>10, <1>11, <1>12, <1>13, <1>14 DEF WorkerSteps

LEMMA WorkerIs == ASSUME NEW r \in Runs, WorkerSteps(r) PROVE worker.run = r
  BY DEF WorkerSteps, At, Commit, Continue, Open, Stop, Verdict, RecordDecision, ShellReads,
     ShellWrites, Finish, Park, Refuse

\* Whoever is not the worker leaves it where it is, or kills it.
LEMMA OthersLeaveWorker ==
  ASSUME [Next]_vars, ~\E r \in Runs : WorkerSteps(r),
         ~\E r \in Runs, c \in Commits \cup {None}, routed \in {0, 1} : Start(r, c, routed)
  PROVE  (UNCHANGED <<worker, head>>) \/ worker' = IdleWorker
<1>1. CASE PersonSteps
  BY <1>1 DEF PersonSteps, SecondHalf, RequestCancel, DismissInterruption, Close, Reopen,
     CloseParkEscalations, SettleClosed, RetryRefused
<1>2. CASE SweepSteps
  BY <1>2 DEF SweepSteps, Survey, LookAtLatest, Decide, CompleteDecision, Recover,
     CompleteHumanWait
<1>3. CASE WorkerDies \/ ConsoleDies \/ UNCHANGED vars
  BY <1>3 DEF WorkerDies, ConsoleDies, vars
<1> QED
  BY <1>1, <1>2, <1>3 DEF Next

\* A worker starts in the loop, with a row of its own that nobody knows.
LEMMA StartIs ==
  ASSUME WaitInv, NEW r \in Runs, NEW c \in Commits \cup {None}, NEW routed \in {0, 1},
         Start(r, c, routed)
  PROVE  /\ worker' \in Worker /\ worker'.run = r /\ worker'.stage = "loop" /\ worker'.cycle = c
         /\ c # None => c \in Known
         /\ rows'[r].state = "WORKING" /\ UNCHANGED cycles /\ ~Named(r)'
<1>1. worker' = [IdleWorker EXCEPT !.run = r, !.cycle = c]
  BY DEF Start
<1>2. worker' \in Worker /\ worker'.run = r /\ worker'.stage = "loop" /\ worker'.cycle = c
  BY <1>1 DEF IdleWorker, Worker, Stages
<1>3. rows'[r].state = "WORKING" /\ UNCHANGED cycles /\ rows[r].state = None
  BY SetRowIs DEF Start, WaitInv
<1>4. ~Named(r)'
  BY <1>3 DEF WaitInv, GoodNames, Named, Known
<1> QED
  BY <1>2, <1>3, <1>4 DEF Start

LEMMA WorkerKept == ASSUME WaitInv, [Next]_vars PROVE worker' \in Worker /\ GoodWorker'
<1> USE DEF WaitInv
<1>i. IdleWorker \in Worker /\ IdleWorker.run = None
  BY DEF IdleWorker, Worker, Stages
<1>1. CASE worker' = IdleWorker
  BY <1>1, <1>i DEF GoodWorker
<1>2. CASE \E r \in Runs, c \in Commits \cup {None}, routed \in {0, 1} : Start(r, c, routed)
  <2> PICK r \in Runs, c \in Commits \cup {None}, routed \in {0, 1} : Start(r, c, routed)
    BY <1>2
  <2>1. r # None
    BY DEF Runs
  <2> QED
    BY <2>1, StartIs DEF GoodWorker, Placed, Early, Parked, Active
<1>3. CASE \E r \in Runs : WorkerSteps(r)
  <2> PICK r \in Runs : WorkerSteps(r)
    BY <1>3
  <2>1. r # None /\ worker.run = r
    BY WorkerIs DEF Runs
  <2>2. CASE worker'.run = r
    BY <2>1, <2>2, WorkerGoesOn DEF GoodWorker
  <2> QED
    BY <1>1, <2>1, <2>2, WorkerGoesOn
<1>4. CASE UNCHANGED worker
  <2>1. CASE worker.run = None
    BY <1>4, <2>1 DEF GoodWorker, TypeOK
  <2>2. CASE worker.run # None
    <3> DEFINE q == worker.run
    <3>1. q \in Runs
      BY <2>2 DEF TypeOK, Worker
    <3>2. Placed(worker.stage, worker.outcome, rows[q].state, Named(q)) /\ Moved(q)
      BY <2>2, <3>1, RowsMove DEF GoodWorker
    <3>3. ASSUME rows[q].state \in Active, ~Named(q),
                 worker.stage = "finishing" => worker.outcome = "passed"
          PROVE  ~Named(q)'
      <4>1. sweep.stage = "writing" => sweep.row # q
        BY <3>3 DEF GoodSweep, Active, Waiting
      <4> QED
        BY <1>4, <3>1, <3>3, <4>1, StillUnnamed
    <3>4. worker.stage \in Early => worker.stage # "finishing"
      BY DEF Early
    <3>5. "passed" # "provider_unavailable"
      OBVIOUS
    <3>6. rows[q].state \in Active => rows'[q].state \in Active
      BY <1>4, <2>2, <3>2 DEF Moved, Active, Placed, Early, Parked, IdleWorker
    <3>7. rows[q].state \in {"PROVIDER_UNAVAILABLE", "CANCELLED"} =>
            rows'[q].state \in {"PROVIDER_UNAVAILABLE", "CANCELLED"}
      BY <1>4, <2>2, <3>1, <3>2 DEF Moved, Active, IdleWorker, States
    <3> HIDE DEF q
    <3>8. Placed(worker.stage, worker.outcome, rows'[q].state, Named(q)')
      BY <3>2, <3>3, <3>4, <3>5, <3>6, <3>7 DEF Placed
    <3> QED
      BY <1>4, <2>2, <3>8 DEF GoodWorker, q, TypeOK
  <2> QED
    BY <2>1, <2>2
<1> QED
  BY <1>1, <1>2, <1>3, <1>4, OthersLeaveWorker

LEMMA NamesKept == ASSUME WaitInv, [Next]_vars PROVE GoodNames'
<1> USE DEF WaitInv
<1> SUFFICES ASSUME NEW q \in Runs, Named(q)' PROVE rows'[q].state \notin {None, "PASSED"}
  BY DEF GoodNames
<1>1. PICK r \in Runs \cup {None} : Written(r) /\ Author(r)
  BY AuthorsWrite
<1>2. Moved(q) /\ q # None
  BY RowsMove DEF Runs
<1>3. CASE Named(q)
  <2>1. rows[q].state \notin {None, "PASSED"}
    BY <1>3 DEF GoodNames
  <2>2. q = worker.run /\ worker.stage = "finishing" => worker.outcome # "passed"
    BY <1>2, <1>3 DEF GoodWorker, Placed
  <2> QED
    BY <1>2, <2>1, <2>2 DEF Moved, States, Active, Waiting
<1>4. CASE q = r
  <2>1. CASE worker.run = q /\ worker.stage \in Early \cup Parked /\ UNCHANGED rows
    <3>1. rows[q].state \in Active \cup {"PROVIDER_UNAVAILABLE", "CANCELLED"}
      BY <1>2, <2>1 DEF GoodWorker, Placed
    <3> QED
      BY <2>1, <3>1 DEF Active, Waiting, States
  <2>2. CASE q = sweep.row /\ sweep.stage = "writing" /\ UNCHANGED rows
    BY <2>2 DEF GoodSweep, Waiting, States
  <2> QED
    BY <1>1, <1>2, <1>4, <2>1, <2>2 DEF Author
<1> QED
  BY <1>1, <1>3, <1>4, WrittenNames

\* The places where the worker is about to rely on the cycle store.
LEMMA StageReached ==
  ASSUME WaitInv, NEW r \in Runs, WorkerSteps(r)
  PROVE  /\ worker'.stage = "committed" => Commit(r)
         /\ worker'.stage = "auditing" => Continue(r) \/ Open(r)
         /\ worker'.stage = "loop" =>
              worker' = IdleWorker \/ (worker'.cycle = worker.cycle /\ worker.stage = "auditing")
<1> USE DEF WaitInv
<1>o. {"passed", "escalated", "refused", "provider_unavailable", "cancelled"} \subseteq Outcomes
  BY DEF Outcomes
<1>s. {"loop", "stopping", "parked", "shell", "writing"} \subseteq Stages
  BY DEF Stages
<1>1. CASE \E outcome \in Outcomes : Finishing(outcome)
  BY <1>1, FinishingIs
<1>2. CASE Stop(r)
  BY <1>2, <1>s, StageIs DEF Stop
<1>3. ASSUME NEW status \in {"PASSED", "BLOCKED", "ESCALATED"}, Verdict(r, status)
      PROVE  (\E outcome \in Outcomes : Finishing(outcome))
             \/ (worker'.stage = "loop" /\ worker'.cycle = worker.cycle /\ worker.stage = "auditing")
  <2>1. worker.stage = "auditing"
    BY <1>3 DEF Verdict, At
  <2>2. \/ Finishing("passed") \/ Finishing("escalated")
        \/ worker' = [worker EXCEPT !.stage = "loop"]
    BY <1>3 DEF Verdict
  <2>3. CASE worker' = [worker EXCEPT !.stage = "loop"]
    BY <1>s, <2>1, <2>3, StageIs
  <2>4. "passed" \in Outcomes /\ "escalated" \in Outcomes
    BY <1>o
  <2> QED
    BY <2>2, <2>3, <2>4
<1>4. ASSUME NEW b \in BOOLEAN, Park(r, b)
      PROVE  (\E outcome \in Outcomes : Finishing(outcome)) \/ worker'.stage \in {"parked", "shell"}
  BY <1>4, <1>o, <1>s, StageIs DEF Park
<1>5. CASE ShellReads(r)
  <2>1. CASE Finishing("provider_unavailable")
    BY <1>1, <1>o, <2>1
  <2>2. CASE \E plan \in Plans \ {Leave} : worker' = [worker EXCEPT !.stage = "writing", !.cycle = plan]
    BY <1>s, <2>2, PlansAre, StageAndCycleIs
  <2> QED
    BY <1>5, <2>1, <2>2 DEF ShellReads
<1>6. CASE Finish(r)
  <2>1. worker' = IdleWorker /\ worker'.stage = "loop"
    BY <1>6 DEF Finish, IdleWorker
  <2>2. worker'.stage # "committed" /\ worker'.stage # "auditing"
    BY <2>1
  <2> QED
    BY <2>1, <2>2
<1>7. CASE RecordDecision(r) \/ ShellWrites(r) \/ \E b \in BOOLEAN : Refuse(r, b)
  BY <1>1, <1>o, <1>7 DEF RecordDecision, ShellWrites, Refuse
<1>8. CASE Commit(r)
  BY <1>8, StageIs DEF Commit, Stages
<1>9. CASE Continue(r)
  <2>1. Finishing("refused") \/ worker' = [worker EXCEPT !.stage = "auditing"]
    BY <1>9 DEF Continue
  <2>2. CASE worker' = [worker EXCEPT !.stage = "auditing"]
    BY <1>9, <2>2, StageIs DEF Stages
  <2> QED
    BY <1>1, <1>o, <2>1, <2>2
<1>10. CASE Open(r)
  <2>1. \/ Finishing("escalated")
        \/ \E c \in Commits : worker' = [worker EXCEPT !.stage = "auditing", !.cycle = c]
    BY <1>10 DEF Open, Known, TypeOK
  <2>2. CASE \E c \in Commits : worker' = [worker EXCEPT !.stage = "auditing", !.cycle = c]
    BY <1>10, <2>2, StageAndCycleIs DEF Stages
  <2> QED
    BY <1>1, <1>o, <2>1, <2>2
<1> QED
  BY <1>1, <1>2, <1>3, <1>4, <1>5, <1>6, <1>7, <1>8, <1>9, <1>10 DEF WorkerSteps

LEMMA CyclesKept == ASSUME WaitInv, [Next]_vars PROVE GoodCycles'
<1> USE DEF WaitInv
<1>h. head \in Nat /\ head' \in Nat /\ head <= head' /\ Commits \subseteq Nat
  BY HeadMoves DEF TypeOK, Commits
<1>w. PICK a \in Runs \cup {None} : Written(a) /\ Author(a)
  BY AuthorsWrite
<1>1. \A c \in Known' : c <= head'
  BY <1>h, <1>w DEF Written, GoodCycles, Known
<1>2. \A c \in Known : c \in Known'
  BY <1>w DEF Written, Known
<1>3. ASSUME NEW c \in Known', c \in Known => cycles[c].status # "PASSED",
             worker'.stage # "finishing"
      PROVE  cycles'[c].status # "PASSED"
  BY <1>w, <1>3 DEF Written, Known
<1>4. CASE worker' = IdleWorker
  BY <1>1, <1>4 DEF GoodCycles, IdleWorker
<1>5. CASE UNCHANGED <<worker, head>>
  BY <1>1, <1>2, <1>3, <1>5 DEF GoodCycles
<1>6. CASE \E r \in Runs, c \in Commits \cup {None}, routed \in {0, 1} : Start(r, c, routed)
  <2> PICK r \in Runs, c \in Commits \cup {None}, routed \in {0, 1} : Start(r, c, routed)
    BY <1>6
  <2> QED
    BY <1>1, <1>2, StartIs DEF GoodCycles
<1>7. CASE \E r \in Runs : WorkerSteps(r)
  <2> PICK r \in Runs : WorkerSteps(r)
    BY <1>7
  <2>1. CASE Commit(r)
    <3>1. /\ head' = head + 1 /\ UNCHANGED cycles
          /\ worker'.stage = "committed" /\ worker'.cycle = worker.cycle /\ worker.stage = "loop"
      BY <2>1, StageIs DEF Commit, At, Stages
    <3>2. head' \notin Known'
      BY <1>h, <3>1 DEF GoodCycles, Known
    <3> QED
      BY <1>1, <1>2, <3>1, <3>2 DEF GoodCycles
  <2>2. CASE Continue(r)
    <3>1. CASE Finishing("refused")
      BY <1>1, <3>1, FinishingIs DEF GoodCycles, Outcomes
    <3>2. CASE ~Finishing("refused")
      <4>1. /\ worker.stage = "committed" /\ worker.cycle # None
            /\ cycles[worker.cycle].status \in {"BLOCKED", "OPEN"}
            /\ worker' = [worker EXCEPT !.stage = "auditing"]
        BY <2>2, <3>2 DEF Continue, At
      <4>2. worker'.stage = "auditing" /\ worker'.cycle = worker.cycle
        BY <4>1, StageIs DEF Stages
      <4>3. worker.cycle \in Known
        BY <4>1 DEF GoodCycles
      <4> QED
        BY <1>1, <1>2, <1>3, <4>1, <4>2, <4>3 DEF GoodCycles
    <3> QED
      BY <3>1, <3>2
  <2>3. CASE Open(r)
    <3>1. CASE Finishing("escalated")
      BY <1>1, <3>1, FinishingIs DEF GoodCycles, Outcomes
    <3>2. CASE ~Finishing("escalated")
      <4>1. PICK c \in Commits :
              /\ worker' = [worker EXCEPT !.stage = "auditing", !.cycle = c]
              /\ \/ c = head /\ cycles' = [cycles EXCEPT ![head] = NewCycle]
                 \/ /\ c \in Known /\ cycles[c].status # "PASSED"
                    /\ cycles' = [cycles EXCEPT ![c].status = "OPEN", ![c].at = head]
        BY <2>3, <3>2 DEF Open, Known, TypeOK
      <4>2. worker'.stage = "auditing" /\ worker'.cycle = c
        BY <4>1, StageAndCycleIs DEF Stages
      <4>3. CASE c = head /\ cycles' = [cycles EXCEPT ![head] = NewCycle]
        <5>1. cycles'[c] = NewCycle /\ NewCycle # None /\ NewCycle.status = "OPEN"
          BY <4>3, NewCycleIs, NoneIsNoCycle DEF TypeOK, NewCycle
        <5> QED
          BY <1>1, <4>2, <5>1 DEF GoodCycles, Known
      <4>4. CASE c \in Known /\ cycles[c].status # "PASSED"
        BY <1>1, <1>2, <1>3, <4>2, <4>4 DEF GoodCycles
      <4> QED
        BY <4>1, <4>3, <4>4
    <3> QED
      BY <3>1, <3>2
  <2>4. CASE ~Commit(r) /\ ~Continue(r) /\ ~Open(r)
    <3>1. worker'.stage \notin {"committed", "auditing"}
      BY <2>4, StageReached
    <3>2. worker'.stage = "loop" /\ worker' # IdleWorker =>
            worker'.cycle = worker.cycle /\ worker.cycle \in Known
      BY StageReached DEF GoodCycles
    <3> QED
      BY <1>1, <1>2, <1>4, <3>1, <3>2 DEF GoodCycles
  <2> QED
    BY <2>1, <2>2, <2>3, <2>4
<1> QED
  BY <1>4, <1>5, <1>6, <1>7, OthersLeaveWorker

-----------------------------------------------------------------------------
(* The theorems. *)

LEMMA WaitInvKept == ASSUME WaitInv, [Next]_vars PROVE WaitInv'
<1>1. PICK r \in Runs \cup {None} : Written(r)
  BY AuthorsWrite
<1>2. TypeOK'
  BY <1>1, RowsTyped, HeadMoves, CountersTyped, PersonKept, SweepKept, WorkerKept DEF TypeOK, Written
<1> QED
  BY <1>2, WorkerKept, NamesKept, SweepKept, PersonKept, CyclesKept DEF WaitInv

LEMMA WaitInvStarts == ASSUME Init PROVE WaitInv
<1>1. TypeOK
  BY DEF Init, TypeOK, Row, UnusedRow, Worker, IdleWorker, Stages, Person, AtRest, Sweep, IdleSweep,
     Commits
<1>2. Known = {} /\ head <= head /\ IdleSweep.at <= head
  BY DEF Init, Known, IdleSweep
<1> QED
  BY <1>1, <1>2 DEF Init, WaitInv, GoodWorker, GoodNames, GoodSweep, GoodPerson, GoodCycles, Named,
     IdleWorker, IdleSweep, AtRest

\* The invariant all the rest follows from: where the worker and the sweep stand
\* says what both stores hold about their runs (commands.py, daemon.py).
THEOREM WaitInvariant == Spec => []WaitInv
<1>1. Init => WaitInv
  BY WaitInvStarts
<1>2. WaitInv /\ [Next]_vars => WaitInv'
  BY WaitInvKept
<1> QED
  BY <1>1, <1>2, PTL DEF Spec

\* Every variable keeps its type, whatever the number of runs and commits.
THEOREM WaitTypes == Spec => []TypeOK
<1>1. WaitInv => TypeOK
  BY DEF WaitInv
<1> QED
  BY <1>1, WaitInvariant, PTL

\* A decision object is evidence about one stop: a run a cycle names has stopped
\* or is about to, and never goes on to pass (state.py, escalate).
THEOREM DecisionsNameTheStopped == Spec => []DecisionNamesStopped
<1>1. ASSUME WaitInv PROVE DecisionNamesStopped
  <2> SUFFICES ASSUME NEW c \in Known, cycles[c].run # None
               PROVE  LET r == cycles[c].run IN
                      /\ rows[r].state \notin {None, "PASSED"}
                      /\ rows[r].state = "WORKING" /\ worker.run = r =>
                           worker.stage = "finishing" /\ worker.outcome # "passed"
    BY DEF DecisionNamesStopped
  <2> DEFINE r == cycles[c].run
  <2>1. r \in Runs /\ Named(r) /\ r # None
    BY <1>1 DEF WaitInv, TypeOK, Known, Cycle, Named
  <2>2. rows[r].state \notin {None, "PASSED"}
    BY <1>1, <2>1 DEF WaitInv, GoodNames
  <2>3. ASSUME rows[r].state = "WORKING", worker.run = r
        PROVE  worker.stage = "finishing" /\ worker.outcome # "passed"
    <3>1. Placed(worker.stage, worker.outcome, rows[r].state, Named(r))
      BY <1>1, <2>1, <2>3 DEF WaitInv, GoodWorker
    <3>2. worker.stage \in Early \cup Parked \cup {"finishing"}
      BY <1>1 DEF WaitInv, TypeOK, Worker, Stages, Early, Parked
    <3> QED
      BY <2>1, <2>3, <3>1, <3>2 DEF Placed
  <2> QED
    BY <2>2, <2>3
<1> QED
  BY <1>1, WaitInvariant, PTL

\* No writer of an escalation turns a recorded PASS into a question for a person,
\* from however old a snapshot it acts (daemon.py, reconcile_human_wait).
THEOREM VerdictsOutrank == Spec => VerdictOutranks
<1>1. ASSUME WaitInv, [Next]_vars
      PROVE  [\A c \in Known : cycles[c].status = "PASSED" => cycles'[c].status = "PASSED"]_vars
  <2>1. PICK r \in Runs \cup {None} : Written(r)
    BY <1>1, AuthorsWrite
  <2> QED
    BY <2>1 DEF Written, Known
<1> QED
  BY <1>1, WaitInvariant, PTL DEF Spec, VerdictOutranks

-----------------------------------------------------------------------------
(* The life of a run: RunLife is implemented. *)

LEMMA LivesStay == ASSUME UNCHANGED rows PROVE Lives' = Lives
BY Zenon DEF Lives

\* A row that is set along a way of the contract is a step of it.
LEMMA RowLives ==
  ASSUME TypeOK, NEW r \in Runs, NEW state, NEW outcome, SetRow(r, state, outcome),
         LifeOf(state) \in Life!After(LifeOf(rows[r].state))
  PROVE  Life!Next
<1>1. \A q \in Runs : rows'[q].state = IF q = r THEN state ELSE rows[q].state
  BY SetRowIs
<1>2. Lives' = [q \in Runs |-> LifeOf(rows'[q].state)]
  BY Zenon DEF Lives
<1>3. Lives' = [Lives EXCEPT ![r] = LifeOf(state)] /\ Lives[r] = LifeOf(rows[r].state)
  BY <1>1, <1>2 DEF Lives
<1> QED
  BY <1>3 DEF Life!Next, Life!Move

\* The steps that read the rows or write the cycle store alone.
LEMMA StoreSteps ==
  ASSUME \/ \E r \in Runs :
              \/ Commit(r) \/ Continue(r) \/ Open(r) \/ Stop(r) \/ RecordDecision(r)
              \/ ShellReads(r) \/ ShellWrites(r) \/ \E b \in BOOLEAN : Refuse(r, b)
              \/ \E status \in {"PASSED", "BLOCKED", "ESCALATED"} : Verdict(r, status)
         \/ CloseParkEscalations \/ RetryRefused
         \/ \E c \in Commits : Close(c) \/ \E retry \in BOOLEAN : Reopen(c, retry)
         \/ Survey \/ LookAtLatest \/ Decide \/ CompleteDecision
  PROVE  rows' = rows
<1>1. ASSUME NEW r \in Runs, Commit(r) \/ Stop(r) PROVE rows' = rows
  BY <1>1 DEF Commit, Stop
<1>2. ASSUME NEW r \in Runs, Continue(r) PROVE rows' = rows
  BY <1>2 DEF Continue
<1>3. ASSUME NEW r \in Runs, Open(r) PROVE rows' = rows
  BY <1>3, Zenon DEF Open
<1>4. ASSUME NEW r \in Runs, RecordDecision(r) \/ ShellWrites(r) PROVE rows' = rows
  BY <1>4 DEF RecordDecision, ShellWrites
<1>5. ASSUME NEW r \in Runs, ShellReads(r) PROVE rows' = rows
  BY <1>5, Zenon DEF ShellReads
<1>6. ASSUME NEW r \in Runs, NEW b \in BOOLEAN, Refuse(r, b) PROVE rows' = rows
  BY <1>6 DEF Refuse
<1>7. ASSUME NEW r \in Runs, NEW status, Verdict(r, status) PROVE rows' = rows
  BY <1>7 DEF Verdict
<1>8. CASE CloseParkEscalations \/ RetryRefused
  BY <1>8 DEF CloseParkEscalations, RetryRefused
<1>9. ASSUME NEW c \in Commits, Close(c) \/ \E retry \in BOOLEAN : Reopen(c, retry)
      PROVE  rows' = rows
  BY <1>9, Zenon DEF Close, Reopen
<1>10. CASE Survey \/ LookAtLatest \/ Decide \/ CompleteDecision
  BY <1>10, Zenon DEF Survey, LookAtLatest, Decide, CompleteDecision
<1> QED
  BY <1>1, <1>2, <1>3, <1>4, <1>5, <1>6, <1>7, <1>8, <1>9, <1>10

\* The worker: a run that works is parked or finished, a cancelled one is
\* finished as cancelled, and one that was parked stays as it is.
LEMMA WorkerLives ==
  ASSUME WaitInv, NEW r \in Runs, WorkerSteps(r)
  PROVE  Life!Next \/ Lives' = Lives
<1> USE DEF WaitInv
<1>1. ASSUME NEW b \in BOOLEAN, Park(r, b) PROVE Life!Next \/ Lives' = Lives
  <2>1. CASE rows[r].state = "WORKING"
    <3>1. SetRow(r, "PROVIDER_UNAVAILABLE", None)
      BY <1>1, <2>1 DEF Park
    <3>2. LifeOf("PROVIDER_UNAVAILABLE") \in Life!After(LifeOf(rows[r].state))
      BY <2>1 DEF LifeOf, Life!After
    <3> QED
      BY <3>1, <3>2, RowLives
  <2>2. CASE rows[r].state # "WORKING"
    BY <1>1, <2>2, LivesStay DEF Park
  <2> QED
    BY <2>1, <2>2
<1>2. CASE Finish(r)
  <2> DEFINE outcome == IF rows[r].state = "CANCELLING" THEN "cancelled" ELSE worker.outcome
  <2>1. worker.run = r /\ worker.stage = "finishing" /\ r # None
    BY <1>2 DEF Finish, At, Runs
  <2>2. Placed("finishing", worker.outcome, rows[r].state, Named(r))
    BY <2>1 DEF GoodWorker
  <2>3. rows[r].state \in Active \cup {"PROVIDER_UNAVAILABLE"} => SetRow(r, Settled(outcome), outcome)
    BY <1>2 DEF Finish
  <2>4. CASE rows[r].state = "CANCELLING"
    <3>1. Settled(outcome) = "CANCELLED"
      BY <2>4 DEF Settled
    <3>2. LifeOf("CANCELLED") \in Life!After(LifeOf(rows[r].state))
      BY <2>4 DEF LifeOf, Life!After
    <3> HIDE DEF outcome
    <3> QED
      BY <2>3, <2>4, <3>1, <3>2, RowLives DEF Active
  <2>5. CASE rows[r].state = "WORKING"
    <3>1. Settled(outcome) \in {"PASSED", "PROVIDER_UNAVAILABLE", "CANCELLED", "WAITING_FOR_HUMAN"}
      BY DEF Settled
    <3> HIDE DEF outcome
    <3>2. LifeOf(Settled(outcome)) \in Life!After(LifeOf(rows[r].state))
      BY <2>5, <3>1 DEF LifeOf, Life!After
    <3> QED
      BY <2>3, <2>5, <3>2, RowLives DEF Active
  <2>6. CASE rows[r].state = "PROVIDER_UNAVAILABLE"
    <3>1. Settled(outcome) = "PROVIDER_UNAVAILABLE"
      BY <2>2, <2>6 DEF Placed, Settled, Active
    <3> HIDE DEF outcome
    <3>2. \A q \in Runs : rows'[q].state = rows[q].state
      BY <2>3, <2>6, <3>1, SetRowIs
    <3> QED
      BY <3>2, Zenon DEF Lives
  <2>7. CASE rows[r].state \notin Active \cup {"PROVIDER_UNAVAILABLE"}
    BY <1>2, <2>7, LivesStay DEF Finish
  <2> QED
    BY <2>4, <2>5, <2>6, <2>7 DEF Active
<1>3. ASSUME \/ Commit(r) \/ Continue(r) \/ Open(r) \/ Stop(r) \/ RecordDecision(r)
             \/ ShellReads(r) \/ ShellWrites(r) \/ \E b \in BOOLEAN : Refuse(r, b)
             \/ \E status \in {"PASSED", "BLOCKED", "ESCALATED"} : Verdict(r, status)
      PROVE  rows' = rows
  BY <1>3, StoreSteps
<1> QED
  BY <1>1, <1>2, <1>3, LivesStay DEF WorkerSteps

\* The person: a run is cancelled, or what had parked or was interrupted is.
LEMMA PersonLives ==
  ASSUME WaitInv, PersonSteps
  PROVE  Life!Next \/ Lives' = Lives
<1> USE DEF WaitInv
<1>1. ASSUME NEW r \in Runs, RequestCancel(r) PROVE Life!Next
  <2>1. CASE rows[r].state = "WORKING" /\ SetRow(r, "CANCELLING", None)
    <3>1. LifeOf("CANCELLING") \in Life!After(LifeOf(rows[r].state))
      BY <2>1 DEF LifeOf, Life!After
    <3> QED
      BY <2>1, <3>1, RowLives
  <2>2. CASE rows[r].state = "PROVIDER_UNAVAILABLE" /\ SetRow(r, "CANCELLED", "cancelled")
    <3>1. LifeOf("CANCELLED") \in Life!After(LifeOf(rows[r].state))
      BY <2>2 DEF LifeOf, Life!After
    <3> QED
      BY <2>2, <3>1, RowLives
  <2> QED
    BY <1>1, <2>1, <2>2 DEF RequestCancel
<1>2. ASSUME NEW r \in Runs, DismissInterruption(r) PROVE Life!Next
  <2>1. rows[r].state = "INTERRUPTED" /\ SetRow(r, "CANCELLED", "cancelled")
    BY <1>2 DEF DismissInterruption
  <2>2. LifeOf("CANCELLED") \in Life!After(LifeOf(rows[r].state))
    BY <2>1 DEF LifeOf, Life!After
  <2> QED
    BY <2>1, <2>2, RowLives
<1>3. CASE SettleClosed
  <2>1. person.what \in Runs
    BY <1>3 DEF SettleClosed, GoodPerson
  <2>2. CASE rows[person.what].state = "PROVIDER_UNAVAILABLE"
    <3>1. SetRow(person.what, "CANCELLED", "cancelled")
      BY <1>3, <2>2 DEF SettleClosed
    <3>2. LifeOf("CANCELLED") \in Life!After(LifeOf(rows[person.what].state))
      BY <2>2 DEF LifeOf, Life!After
    <3> QED
      BY <2>1, <3>1, <3>2, RowLives
  <2>3. CASE rows[person.what].state # "PROVIDER_UNAVAILABLE"
    BY <1>3, <2>3, LivesStay DEF SettleClosed
  <2> QED
    BY <2>2, <2>3
<1>4. ASSUME \/ CloseParkEscalations \/ RetryRefused
             \/ \E c \in Commits : Close(c) \/ \E retry \in BOOLEAN : Reopen(c, retry)
      PROVE  rows' = rows
  BY <1>4, StoreSteps
<1> QED
  BY <1>1, <1>2, <1>3, <1>4, LivesStay DEF PersonSteps, SecondHalf

\* The watchdog: a run whose worker is gone is settled, and one that was
\* interrupted asks.
LEMMA SweepLives ==
  ASSUME WaitInv, SweepSteps
  PROVE  Life!Next \/ Lives' = Lives
<1> USE DEF WaitInv
<1>1. ASSUME NEW r \in Runs, Recover(r) PROVE Life!Next
  <2>1. rows[r].state \in Active
    BY <1>1 DEF Recover
  <2>2. \A q \in Runs : rows'[q].state =
          IF q # r THEN rows[q].state
          ELSE IF rows[r].state = "CANCELLING" THEN "CANCELLED" ELSE "INTERRUPTED"
    BY <1>1 DEF Recover, TypeOK, Row
  <2>3. Lives[r] = LifeOf(rows[r].state) /\ Lives[r] \in Life!Busy
    BY <2>1 DEF Lives, LifeOf, Active, Life!Busy
  <2>4. LifeOf(rows'[r].state) = Life!Settled(Lives[r])
    BY <2>1, <2>2, <2>3 DEF LifeOf, Active, Life!Settled
  <2>5. Lives' = [q \in Runs |-> LifeOf(rows'[q].state)]
    BY Zenon DEF Lives
  <2>6. Lives' = [q \in Runs |-> IF q \in {r} THEN Life!Settled(Lives[q]) ELSE Lives[q]]
    BY <2>2, <2>4, <2>5 DEF Lives
  <2> QED
    BY <2>3, <2>6 DEF Life!Next, Life!Reclaim
<1>2. ASSUME NEW r \in Runs, CompleteHumanWait(r) PROVE Life!Next \/ Lives' = Lives
  <2>1. CASE rows[r].state = "INTERRUPTED"
    <3>1. SetRow(r, "WAITING_FOR_HUMAN", "escalated")
      BY <1>2, <2>1 DEF CompleteHumanWait
    <3>2. LifeOf("WAITING_FOR_HUMAN") \in Life!After(LifeOf(rows[r].state))
      BY <2>1 DEF LifeOf, Life!After
    <3> QED
      BY <3>1, <3>2, RowLives
  <2>2. CASE rows[r].state # "INTERRUPTED"
    BY <1>2, <2>2, LivesStay DEF CompleteHumanWait
  <2> QED
    BY <2>1, <2>2
<1>3. ASSUME Survey \/ LookAtLatest \/ Decide \/ CompleteDecision
      PROVE  rows' = rows
  BY <1>3, StoreSteps
<1> QED
  BY <1>1, <1>2, <1>3, LivesStay DEF SweepSteps

\* A start begins the next run, when no other works.
LEMMA StartLives ==
  ASSUME WaitInv, NEW r \in Runs, NEW c \in Commits \cup {None}, NEW routed \in {0, 1},
         Start(r, c, routed)
  PROVE  Life!Next
<1> USE DEF WaitInv
<1>1. \A q \in Runs : rows'[q].state = IF q = r THEN "WORKING" ELSE rows[q].state
  BY SetRowIs DEF Start
<1>2. Lives' = [q \in Runs |-> LifeOf(rows'[q].state)]
  BY Zenon DEF Lives
<1>3. Lives' = [Lives EXCEPT ![r] = "working"]
  <2>1. LifeOf("WORKING") = "working"
    BY DEF LifeOf
  <2> QED
    BY <1>1, <1>2, <2>1 DEF Lives
<1>4. Lives[r] = "unbegun"
  BY DEF Lives, LifeOf, Start, States, Active, Waiting
<1>5. \A q \in Runs : Lives[q] \notin Life!Busy
  <2>1. \A state : state \notin Active => LifeOf(state) \notin Life!Busy
    BY DEF LifeOf, Active, Life!Busy
  <2> QED
    BY <2>1 DEF Start, Lives
<1>6. \A q \in Runs : q < r => Lives[q] # "unbegun"
  <2>1. \A state \in States : LifeOf(state) # "unbegun"
    BY DEF LifeOf, States, Active, Waiting
  <2> QED
    BY <2>1 DEF Start, Lives, TypeOK, Row
<1> QED
  BY <1>3, <1>4, <1>5, <1>6 DEF Life!Next, Life!Begin

\* The rows implement RunLife, whatever the worker, the person, the sweep and
\* the deaths between their writes to the two stores do (commands.py, daemon.py).
THEOREM WaitKeepsRunLife == Spec => KeepsRunLife
<1>1. ASSUME Init PROVE Life!Init
  <2>1. \A r \in Runs : LifeOf(rows[r].state) = "unbegun"
    BY <1>1 DEF Init, UnusedRow, LifeOf, States, Active, Waiting
  <2> QED
    BY <2>1 DEF Life!Init, Lives
<1>2. ASSUME WaitInv, [Next]_vars
      PROVE  Life!Next \/ Lives' = Lives
  <2>1. CASE WorkerDies \/ ConsoleDies \/ UNCHANGED vars
    BY <2>1, LivesStay DEF WorkerDies, ConsoleDies, vars
  <2> QED
    BY <1>2, <2>1, WorkerLives, PersonLives, SweepLives, StartLives DEF Next
<1>3. WaitInv /\ [Next]_vars => [Life!Next]_(Life!vars)
  BY <1>2 DEF Life!vars
<1> QED
  BY <1>1, <1>3, WaitInvariant, PTL DEF Spec, KeepsRunLife, Life!Spec

-----------------------------------------------------------------------------
(* One stop, one decision: what is true of it, and what breaks it. *)

\* The cycle a sweep is about to escalate.
Target == IF sweep.plan # None THEN sweep.plan ELSE sweep.at

\* Direction B writes although the stop has its decision in another cycle, or
\* although the worker that stopped is still about to write it.
CompletesAgain ==
  /\ CompleteDecision
  /\ \/ \E d \in Known \ {Target} : cycles[d].run = sweep.row
     \/ worker.run = sweep.row /\ worker.stage \in Parked

\* No two cycles name a run, and none names one whose worker has yet to write
\* its decision.
NamedOnce ==
  /\ \A c, d \in Known : cycles[c].run = cycles[d].run /\ cycles[c].run # None => c = d
  /\ worker.run # None /\ worker.stage \in Parked => ~Named(worker.run)

\* A step writes one cycle; closing the decisions of a stopped run writes several.
OneWrite(c) == \A d \in Commits \ {c} : cycles'[d] = cycles[d]

LEMMA ExceptIsOneWrite ==
  ASSUME TypeOK, NEW c, NEW x, cycles' = [cycles EXCEPT ![c] = x]
  PROVE  OneWrite(c)
  BY DEF TypeOK, OneWrite

LEMMA EscalateIsOneWrite ==
  ASSUME TypeOK, NEW c, NEW r, NEW kind, Escalate(c, r, kind)
  PROVE  OneWrite(c)
<1>1. CASE cycles' = [cycles EXCEPT ![c] = Pending(cycles[c], r, kind)]
  BY <1>1, ExceptIsOneWrite
<1>2. CASE UNCHANGED cycles
  BY <1>2 DEF OneWrite
<1> QED
  BY <1>1, <1>2 DEF Escalate

LEMMA AnchorIsOneWrite ==
  ASSUME TypeOK, NEW n, NEW r, NEW kind, AnchorEscalation(n, r, kind)
  PROVE  OneWrite(n)
<1> DEFINE base == IF n \in Known THEN cycles[n] ELSE [NewCycle EXCEPT !.at = n]
<1>1. CASE cycles' = [cycles EXCEPT ![n] = Pending(base, r, kind)]
  BY <1>1, ExceptIsOneWrite
<1>2. CASE UNCHANGED cycles
  BY <1>2 DEF OneWrite
<1> HIDE DEF base
<1>3. Anchorable(n) => cycles' = [cycles EXCEPT ![n] = Pending(base, r, kind)]
  BY DEF AnchorEscalation, base
<1> QED
  BY <1>1, <1>2, <1>3 DEF AnchorEscalation

\* The worker writes one cycle at a time.
LEMMA WorkerWritesOne ==
  ASSUME TypeOK, NEW r \in Runs, WorkerSteps(r)
  PROVE  \E c : OneWrite(c)
<1>0. CASE UNCHANGED cycles
  BY <1>0 DEF OneWrite
<1>1. CASE Continue(r)
  <2>1. \/ UNCHANGED cycles
        \/ cycles' = [cycles EXCEPT ![worker.cycle] =
             [cycles[worker.cycle] EXCEPT !.status = "OPEN", !.at = head, !.reopened = FALSE]]
    BY <1>1 DEF Continue
  <2> QED
    BY <1>0, <2>1, ExceptIsOneWrite
<1>2. CASE Open(r)
  <2>1. CASE cycles' = [cycles EXCEPT ![head] = NewCycle]
    BY <2>1, ExceptIsOneWrite
  <2>2. ASSUME NEW c \in Known, cycles' = [cycles EXCEPT ![c].status = "OPEN", ![c].at = head]
        PROVE  OneWrite(c)
    <3>1. cycles' = [cycles EXCEPT ![c] = [cycles[c] EXCEPT !.status = "OPEN", !.at = head]]
      BY <2>2
    <3> QED
      BY <3>1, ExceptIsOneWrite
  <2>3. CASE AnchorEscalation(head, None, "audit")
    BY <2>3, AnchorIsOneWrite
  <2> QED
    BY <1>0, <1>2, <2>1, <2>2, <2>3 DEF Open
<1>3. ASSUME NEW status, Verdict(r, status)
      PROVE  \E c : OneWrite(c)
  <2>1. \/ UNCHANGED cycles
        \/ cycles' = [cycles EXCEPT ![worker.cycle] =
             [cycles[worker.cycle] EXCEPT !.status = status, !.kind = "audit"]]
    BY <1>3 DEF Verdict
  <2> QED
    BY <1>0, <2>1, ExceptIsOneWrite
<1>4. CASE RecordDecision(r) \/ ShellWrites(r) \/ \E b \in BOOLEAN : Refuse(r, b)
  BY <1>0, <1>4, EscalateIsOneWrite, AnchorIsOneWrite DEF RecordDecision, ShellWrites, Refuse
<1>5. CASE Commit(r) \/ Stop(r) \/ ShellReads(r) \/ Finish(r) \/ \E b \in BOOLEAN : Park(r, b)
  BY <1>0, <1>5 DEF Commit, Stop, ShellReads, Finish, Park
<1> QED
  BY <1>1, <1>2, <1>3, <1>4, <1>5 DEF WorkerSteps

\* So does everyone else, but for a stop that closes what names the run.
LEMMA StepWritesOne ==
  ASSUME TypeOK, [Next]_vars
  PROVE  CloseParkEscalations \/ \E c : OneWrite(c)
<1>0. CASE UNCHANGED cycles
  BY <1>0 DEF OneWrite
<1>1. ASSUME NEW c \in Commits, Close(c)
      PROVE  \E d : OneWrite(d)
  BY <1>1, ExceptIsOneWrite DEF Close
<1>2. ASSUME NEW c \in Commits, NEW retry \in BOOLEAN, Reopen(c, retry)
      PROVE  \E d : OneWrite(d)
  <2>1. cycles' = [cycles EXCEPT ![c] =
          [cycles[c] EXCEPT !.status = "OPEN", !.reopened = TRUE, !.run = None]]
    BY <1>2 DEF Reopen
  <2> QED
    BY <2>1, ExceptIsOneWrite
<1>3. CASE RetryRefused \/ CompleteDecision
  BY <1>3, EscalateIsOneWrite, AnchorIsOneWrite DEF RetryRefused, CompleteDecision
<1>4. CASE SettleClosed \/ \E r \in Runs : RequestCancel(r) \/ DismissInterruption(r)
  BY <1>0, <1>4 DEF SettleClosed, RequestCancel, DismissInterruption
<1>5. CASE Survey \/ LookAtLatest \/ Decide \/ \E r \in Runs : Recover(r) \/ CompleteHumanWait(r)
  BY <1>0, <1>5 DEF Survey, LookAtLatest, Decide, Recover, CompleteHumanWait
<1>6. CASE WorkerDies \/ ConsoleDies \/ UNCHANGED vars
  BY <1>0, <1>6 DEF WorkerDies, ConsoleDies, vars
<1>7. CASE \E r \in Runs, c \in Commits \cup {None}, routed \in {0, 1} : Start(r, c, routed)
  BY <1>0, <1>7 DEF Start
<1>8. CASE PersonSteps
  BY <1>1, <1>2, <1>3, <1>4, <1>8 DEF PersonSteps, SecondHalf
<1>9. CASE SweepSteps
  BY <1>3, <1>5, <1>9 DEF SweepSteps
<1> QED
  BY <1>6, <1>7, <1>8, <1>9, WorkerWritesOne DEF Next

\* A sweep's completion writes its target.
LEMMA CompletionWrites ==
  ASSUME TypeOK, CompleteDecision
  PROVE  OneWrite(Target)
  BY EscalateIsOneWrite, AnchorIsOneWrite DEF CompleteDecision, Target

\* A cycle that comes to name a run is written by the run's worker as it stops, or
\* by a completion, and then it is the completion's target.
LEMMA WhoNames ==
  ASSUME WaitInv, [Next]_vars, NEW q \in Runs, NEW c \in Commits,
         cycles'[c] # None, cycles'[c].run = q, c \in Known => cycles[c].run # q
  PROVE  \/ /\ worker.run = q /\ worker.stage \in Early \cup Parked
            /\ worker'.stage = "finishing"
         \/ CompleteDecision /\ q = sweep.row /\ c = Target /\ UNCHANGED worker
<1>1. PICK r \in Runs \cup {None} : Written(r) /\ Author(r)
  BY AuthorsWrite
<1>2. q # None
  BY DEF Runs
<1>3. r = q
  BY <1>1, <1>2 DEF Written, Known
<1>4. CASE CompleteDecision /\ r = sweep.row /\ UNCHANGED worker
  <2>1. OneWrite(Target)
    BY <1>4, CompletionWrites DEF WaitInv
  <2>2. cycles'[c] # cycles[c]
    BY DEF Known
  <2> QED
    BY <1>3, <1>4, <2>1, <2>2 DEF OneWrite
<1> QED
  BY <1>1, <1>2, <1>3, <1>4 DEF Author

\* Without a repeated completion no two cycles come to name one run.
LEMMA NamedOnceKept ==
  ASSUME WaitInv, NamedOnce, [Next]_vars, ~CompletesAgain
  PROVE  NamedOnce'
<1> USE DEF WaitInv
<1>1. ASSUME NEW c \in Commits, NEW d \in Commits, NEW q \in Runs, c # d,
             cycles'[c] # None, cycles'[c].run = q, d \in Known, cycles[d].run = q
      PROVE  c \in Known /\ cycles[c].run = q
  <2> SUFFICES ASSUME c \in Known => cycles[c].run # q
               PROVE  FALSE
    OBVIOUS
  <2>1. Named(q) /\ q # None
    BY <1>1 DEF Named, Runs
  <2>2. CASE worker.run = q /\ worker.stage \in Early \cup Parked
    BY <2>1, <2>2 DEF GoodWorker, Placed, NamedOnce
  <2>3. CASE CompleteDecision /\ q = sweep.row /\ c = Target
    BY <1>1, <2>3 DEF CompletesAgain
  <2> QED
    BY <1>1, <2>2, <2>3, WhoNames
<1>2. ASSUME NEW c \in Commits, NEW d \in Commits, NEW q \in Runs, c # d,
             cycles'[c] # None, cycles'[c].run = q, cycles'[d] # None, cycles'[d].run = q
      PROVE  FALSE
  <2>1. CASE \E x : OneWrite(x)
    <3>1. \/ cycles'[c] = cycles[c]
          \/ cycles'[d] = cycles[d]
      BY <1>2, <2>1 DEF OneWrite
    <3>2. \/ c \in Known /\ cycles[c].run = q
          \/ d \in Known /\ cycles[d].run = q
      BY <1>2, <3>1 DEF Known
    <3>3. c \in Known /\ cycles[c].run = q /\ d \in Known /\ cycles[d].run = q
      BY <1>1, <1>2, <3>2
    <3> QED
      BY <1>2, <3>3 DEF NamedOnce, Runs
  <2>2. CASE CloseParkEscalations
    <3>1. ASSUME NEW x \in Commits, cycles'[x] # None
          PROVE  x \in Known /\ cycles[x].run = cycles'[x].run
      <4>1. \/ cycles'[x] = cycles[x]
            \/ x \in Known /\ cycles'[x] = Closed(cycles[x])
        BY <2>2 DEF CloseParkEscalations
      <4> QED
        BY <3>1, <4>1, ClosedIs DEF TypeOK, Known
    <3>2. c \in Known /\ cycles[c].run = q /\ d \in Known /\ cycles[d].run = q
      BY <1>2, <3>1
    <3> QED
      BY <1>2, <3>2 DEF NamedOnce, Runs
  <2> QED
    BY <2>1, <2>2, StepWritesOne
<1>3. ASSUME worker'.run # None, worker'.stage \in Parked,
             NEW x \in Commits, cycles'[x] # None, cycles'[x].run = worker'.run
      PROVE  FALSE
  <2> DEFINE q == worker'.run
  <2>1. q \in Runs /\ worker.run = q /\ worker.stage \in Early \cup Parked
    <3>1. worker' # IdleWorker
      BY <1>3 DEF IdleWorker
    <3>2. CASE \E r \in Runs, c \in Commits \cup {None}, routed \in {0, 1} : Start(r, c, routed)
      BY <1>3, <3>2, StartIs DEF Parked
    <3>3. CASE \E r \in Runs : WorkerSteps(r)
      <4>1. PICK r \in Runs : WorkerSteps(r)
        BY <3>3
      <4>2. worker.run = r /\ worker'.run = r
        BY <3>1, <4>1, WorkerIs, WorkerGoesOn
      <4>3. worker.stage # "finishing"
        BY <3>1, <4>1 DEF WorkerSteps, At, Commit, Continue, Open, Stop, Verdict,
           RecordDecision, ShellReads, ShellWrites, Finish, Park, Refuse
      <4> QED
        BY <4>2, <4>3 DEF TypeOK, Worker, Stages, Early, Parked
    <3>4. CASE UNCHANGED worker
      BY <1>3, <3>4 DEF TypeOK, Worker
    <3> QED
      BY <3>1, <3>2, <3>3, <3>4, OthersLeaveWorker
  <2>2. ~Named(q) /\ q # None
    BY <2>1 DEF GoodWorker, Placed, NamedOnce, Runs
  <2>3. cycles'[x] # None /\ cycles'[x].run = q
    BY <1>3
  <2>4. x \in Known => cycles[x].run # q
    BY <2>2 DEF Named
  <2>5. worker'.stage # "finishing"
    BY <1>3 DEF Parked
  <2>6. CompleteDecision /\ q = sweep.row /\ UNCHANGED worker
    BY <2>1, <2>3, <2>4, <2>5, WhoNames
  <2> QED
    BY <1>3, <2>6 DEF CompletesAgain
<1>4. ASSUME NEW c \in Commits, cycles'[c] # None, cycles'[c].run # None
      PROVE  cycles'[c].run \in Runs
  BY <1>4, WaitInvKept DEF TypeOK, Cycle
<1> QED
  BY <1>2, <1>3, <1>4 DEF NamedOnce, Known, Named

\* One stop has one decision until the watchdog completes one again: neither the
\* worker, the shell or a person, nor a death between any two of their writes, nor
\* a completion that finds the stop undecided and its worker gone, gives a run a
\* second one (record_decision_object, _record_park_cycle, reconcile_human_wait).
THEOREM OneDecisionButForRepeats ==
  Spec /\ [][~CompletesAgain]_vars => []OneDecisionPerStop
<1>1. Init => NamedOnce
  BY DEF Init, NamedOnce, Known, IdleWorker
<1>2. WaitInv /\ NamedOnce /\ [Next]_vars /\ [~CompletesAgain]_vars => NamedOnce'
  <2>1. ASSUME UNCHANGED vars, NamedOnce
        PROVE  NamedOnce'
    BY <2>1 DEF vars, NamedOnce, Named, Known
  <2> QED
    BY <2>1, NamedOnceKept
<1>3. NamedOnce => OneDecisionPerStop
  BY DEF NamedOnce, OneDecisionPerStop, Names, Runs
<1> QED
  BY <1>1, <1>2, <1>3, WaitInvariant, PTL DEF Spec

=============================================================================
