------------------------- MODULE GovernedToolsProofs ------------------------
(***************************************************************************)
(* What the tool broker promises, for any tools, runs and writers and any  *)
(* number of calls, acts and faults.  The inductive invariant follows one  *)
(* call of one run: what its append was called with is on its way to the   *)
(* file or there, what came before it is there, and a yes it carries is    *)
(* a yes to this call or one that stands for its tool.                     *)
(***************************************************************************)
EXTENDS GovernedTools, EvidenceLedgerProofs

Awaiting == {"calling", "deciding", "approving", "recording"}
AtCard   == {"asking", "turning"}
Active   == Awaiting \cup AtCard

\* What the append waited for in each phase was called with.
Expected(j) ==
  CASE j.phase = "calling"   -> Says("tool_call", j.call, FALSE)
    [] j.phase = "deciding"  -> Says("decision", j.call, j.yes)
    [] j.phase = "approving" -> Says("approval", j.call, j.yes)
    [] OTHER                 -> Says("tool_result", j.call, TRUE)

\* The file is not empty.
Something == entries # <<>> \/ Torn

Consented(c) ==
  /\ Level[made[c].tool] >= 3 => YesOn(c) \/ (YesBefore(c) /\ Level[made[c].tool] < 4)
  /\ Level[made[c].tool] < 6

\* The call a run is at is its own, a card shows that call, and a decision left
\* while it is asked was given on that card.
GoodCard(w) ==
  /\ job[w].phase \in Active =>
       job[w].call \in 1..Len(made) /\ made[job[w].call].run = w
  /\ pending[w] # None => job[w].phase \in AtCard /\ pending[w] = job[w].call
  /\ decided[w] # None => decided[w] \in answers
  /\ decided[w] # None /\ job[w].phase = "asking" => decided[w].card = job[w].call
  /\ job[w].phase \in AtCard => Level[Tool(w)] < 6
  /\ job[w].phase = "approving" /\ job[w].yes => Consented(job[w].call)

\* What a run's append was called with is on its way, and was written if it says so.
GoodAppend(w) ==
  /\ writer[w].result = "written" => Something
  /\ job[w].phase \in Awaiting =>
       /\ writer[w].stage \in {"waiting", "breaking"} => writer[w].what = Expected(job[w])
       /\ writer[w].stage = "writing" => writer[w].line.what = Expected(job[w])
       /\ writer[w].result = "written" /\ ~overtaken => Line(Expected(job[w]))

\* What came before the append a run waits for is on record.
GoodTrail(w) ==
  LET c == job[w].call IN
  /\ ~overtaken =>
       /\ job[w].phase \in Active \ {"calling"} => Line(Says("tool_call", c, FALSE))
       /\ job[w].phase \in AtCard \cup {"approving", "recording"} =>
            Line(Says("decision", c, TRUE))
       /\ job[w].phase = "recording" /\ NeedsApproval(Tool(w)) =>
            Line(Says("approval", c, TRUE))
  /\ job[w].phase \in AtCard => job[w].yes /\ NeedsApproval(Tool(w))
  /\ job[w].phase = "approving" => NeedsApproval(Tool(w))
  /\ job[w].phase = "recording" => c \in effects

GoodRun(w) == GoodCard(w) /\ GoodAppend(w) /\ GoodTrail(w)

\* A tool kept for a run or a project was allowed so by a person.
GoodGrants ==
  /\ \A g \in runGrants :
       /\ ~PerCallOnly(g[2])
       /\ \E a \in answers : a.scope = "run" /\ made[a.card].tool = g[2] /\ made[a.card].run = g[1]
  /\ \A t \in auth.tools :
       /\ ~PerCallOnly(t)
       /\ \E a \in answers : a.scope = "project" /\ made[a.card].tool = t
  /\ \A a \in answers : a.card \in 1..Len(made)

GoodEffects ==
  /\ RecordedFirst /\ Consent
  /\ effects \subseteq 1..Len(made) /\ reported \subseteq effects
  /\ effects # {} => Something

BrokerTypeOK ==
  /\ job \in [Runs -> Job]
  /\ granted \in [Runs -> (SUBSET Tools) \cup {None}]
  /\ pending \in [Runs -> Calls \cup {None}]
  /\ decided \in [Runs -> Answers \cup {None}]
  /\ runGrants \in SUBSET (Runs \X Tools)
  /\ auth \in [writes: BOOLEAN, tools: SUBSET Tools]
  /\ stopped \in SUBSET Runs
  /\ receipt \in [Runs -> {"none", "ledger", None}]
  /\ made \in Seq(Call) /\ Len(made) <= MaxCalls
  /\ effects \in SUBSET Calls /\ reported \in SUBSET Calls
  /\ answers \in SUBSET Answers
  /\ acts \in 0..MaxActs

RunsGood == \A w \in Runs : GoodRun(w)

ToolsInv == LedgerInv /\ BrokerTypeOK /\ RunsGood /\ GoodGrants /\ GoodEffects

-----------------------------------------------------------------------------
(* The ledger under the broker. *)

\* The call of a run at work, and what is said of it, are typed.
LEMMA CallTyped ==
  ASSUME ToolsInv, NEW w \in Runs, job[w].phase \in Active
  PROVE  /\ job[w].call \in Calls /\ job[w].call \in 1..Len(made)
         /\ made[job[w].call] \in Call /\ Tool(w) \in Tools /\ Level[Tool(w)] \in Int
         /\ made[job[w].call].run = w
<1>1. /\ job[w].call \in 1..Len(made) /\ made[job[w].call].run = w
      /\ made \in Seq(Call) /\ Len(made) <= MaxCalls
  BY DEF ToolsInv, BrokerTypeOK, RunsGood, GoodRun, GoodCard
<1>2. job[w].call \in Calls
  BY <1>1, ToolAssumption DEF Calls
<1>3. made[job[w].call] \in Call
  BY <1>1
<1> QED
  BY <1>1, <1>2, <1>3, ToolAssumption DEF Tool, Call

LEMMA SaysTyped ==
  ASSUME NEW k \in Kinds, NEW c \in Calls, NEW yes \in BOOLEAN
  PROVE  Says(k, c, yes) \in What
BY WhatAssumption DEF Says

\* Everything the broker does to the ledger is something a ledger can undergo.
LEMMA BrokerUsesLedger == ASSUME ToolsInv, [Next]_vars PROVE [LedgerNext]_ledgerVars
<1>1. ASSUME NEW w \in Runs, NEW phase, NEW k \in Kinds, NEW yes \in BOOLEAN,
             Record(w, phase, k, yes), job[w].phase \in Active
      PROVE  LedgerNext
  <2>1. Says(k, job[w].call, yes) \in What /\ w \in Writers
    BY <1>1, CallTyped, SaysTyped, RunAssumption
  <2> QED
    BY <1>1, <2>1 DEF Record, LedgerNext
<1>2. ASSUME NEW w \in Runs, WorkerStep(w)
      PROVE  [LedgerNext]_ledgerVars
  <2>1. CASE Decide(w) \/ Approve(w) \/ TimeOut(w) \/ TurnAway(w) \/ RunTool(w) \/ TakeAnswer(w)
    <3>1. job[w].phase \in Active
      BY <2>1 DEF Decide, Approve, TimeOut, TurnAway, RunTool, TakeAnswer, AtGate,
         Recorded, Active, Awaiting, AtCard
    <3>2. CASE Decide(w)
      <4>1. (Tool(w) \in granted[w]) \in BOOLEAN
        OBVIOUS
      <4> QED
        BY <1>1, <3>1, <3>2, <4>1 DEF Decide, Kinds
    <3>3. CASE Approve(w)
      <4>1. Standing(w) \in BOOLEAN
        BY DEF Standing
      <4> QED
        BY <1>1, <3>1, <3>3, <4>1 DEF Approve, Kinds
    <3>4. CASE TakeAnswer(w)
      <4>1. (decided[w].scope # "deny") \in BOOLEAN
        OBVIOUS
      <4> QED
        BY <1>1, <3>1, <3>4, <4>1 DEF TakeAnswer, Kinds
    <3> QED
      BY <1>1, <2>1, <3>1, <3>2, <3>3, <3>4 DEF TimeOut, TurnAway, RunTool, Kinds
  <2>2. CASE Ask(w) \/ SeeStopped(w) \/ Refused(w) \/ Report(w) \/ Fail(w)
    BY <2>2 DEF Ask, SeeStopped, Refused, Report, Fail
  <2> QED
    BY <1>2, <2>1, <2>2 DEF WorkerStep
<1>3. ASSUME NEW w \in Runs, RunStep(w)
      PROVE  [LedgerNext]_ledgerVars
  <2>1. ASSUME NEW t \in Tools, Propose(w, t)
        PROVE  LedgerNext
    <3>1. Len(made) + 1 \in Calls
      BY <2>1, ToolAssumption DEF Propose, Calls, ToolsInv, BrokerTypeOK
    <3>2. Says("tool_call", Len(made) + 1, FALSE) \in What /\ w \in Writers
      BY <3>1, SaysTyped, RunAssumption DEF Kinds
    <3> QED
      BY <2>1, <3>2 DEF Propose, LedgerNext
  <2>2. CASE Die(w)
    BY <2>2, RunAssumption DEF Die, LedgerNext
  <2>3. CASE \/ \E scope \in Scopes : Resolve(w, scope)
             \/ Begin(w) \/ Mint(w) \/ Stop(w)
    BY <2>3 DEF Resolve, Begin, Mint, Stop
  <2> QED
    BY <1>2, <1>3, <2>1, <2>2, <2>3 DEF RunStep
<1>4. ASSUME NEW w \in Writers, Foreign(w)
      PROVE  LedgerNext
  <2>1. Says("foreign", 1, FALSE) \in What
    <3>1. 1 \in Calls
      BY ToolAssumption DEF Calls
    <3> QED
      BY <3>1, SaysTyped DEF Kinds
  <2> QED
    BY <1>4, <2>1 DEF Foreign, LedgerNext
<1> QED
  BY <1>3, <1>4 DEF Next, SetWrites, LedgerNext, vars

\* Lines stay: a torn tail is not written to while the ledger is not overtaken.
LEMMA LinesStay ==
  ASSUME LedgerInv, [LedgerNext]_ledgerVars
  PROVE  /\ ~overtaken' => ~overtaken /\ \A what \in What : Line(what) => Line(what)'
         /\ Something => Something'
<1>0. entries \in Seq(Entry \cup {Glued})
  BY DEF LedgerInv, LedgerTypeOK
<1>1. ASSUME NEW w \in Writers, NEW whole \in BOOLEAN, Write(w, whole)
      PROVE  /\ ~overtaken => \A what \in What : Line(what) => Line(what)'
             /\ Something'
  <2> DEFINE line == writer[w].line
  <2>1. line \in Entry /\ Written(line, whole)
    BY <1>1 DEF Write, LedgerInv, WritersGood, GoodWriter
  <2>2. /\ half' # None <=> ~whole
        /\ Len(entries') = IF whole THEN Len(entries) + 1 ELSE Len(entries)
    BY <2>1, WrittenTyped
  <2>3. Something'
    BY <1>0, <2>2 DEF Something, Torn
  <2>4. ASSUME ~overtaken, NEW what \in What, Line(what) PROVE Line(what)'
    <3>1. ~Torn
      BY <1>1, <2>4 DEF Write, LedgerInv, ChainGood, LineContinues
    <3>2. PICK i \in 1..Len(entries) : entries[i].what = what
      BY <2>4, <3>1, NoneAssumption DEF Line, Torn
    <3>3. entries' = Append(entries, line) \/ entries' = entries
      BY <2>1, <3>1 DEF Written
    <3>4. i \in 1..Len(entries') /\ entries'[i] = entries[i]
      <4>1. line \in Entry \cup {Glued}
        BY <2>1
      <4> HIDE DEF line
      <4> QED
        BY <1>0, <3>3, <4>1
    <3> QED
      BY <3>2, <3>4 DEF Line
  <2> QED
    BY <2>3, <2>4
<1>2. ASSUME NEW w \in Writers, LedgerDeath(w)
      PROVE  /\ ~overtaken => \A what \in What : Line(what) => Line(what)'
             /\ Something => Something'
  <2>1. CASE half' = half
    BY <1>2, <2>1 DEF LedgerDeath, Line, Something, Torn
  <2>2. CASE writer[w].stage = "writing" /\ half' = writer[w].line.what
    <3>1. half' \in What /\ half' # None
      BY <2>2, NoneAssumption DEF LedgerInv, WritersGood, GoodWriter, Entry
    <3>2. ~overtaken => half = None
      BY <2>2 DEF LedgerInv, ChainGood, LineContinues, Torn
    <3> QED
      BY <1>2, <3>1, <3>2, NoneAssumption DEF LedgerDeath, Line, Something, Torn
  <2> QED
    BY <1>2, <2>1, <2>2 DEF LedgerDeath
<1>3. ASSUME UNCHANGED <<entries, half>>
      PROVE  /\ \A what \in What : Line(what) => Line(what)'
             /\ Something => Something'
  BY <1>3 DEF Line, Something, Torn
<1>4. overtaken => overtaken'
  BY DEF LedgerNext, ledgerVars, AppendEntry, LedgerStep, TakeLock, SeeStaleLock, BreakLock,
     GiveUp, ReleaseLock, Unlink, Write, LedgerDeath, LockGrowsOld
<1>5. \/ UNCHANGED <<entries, half>>
      \/ \E w \in Writers, whole \in BOOLEAN : Write(w, whole)
      \/ \E w \in Writers : LedgerDeath(w)
  BY DEF LedgerNext, ledgerVars, AppendEntry, LedgerStep, TakeLock, SeeStaleLock, BreakLock,
     GiveUp, ReleaseLock, LockGrowsOld
<1>6. overtaken' \in BOOLEAN /\ overtaken \in BOOLEAN
  BY LedgerKeeps DEF LedgerInv, LedgerTypeOK
<1> QED
  BY <1>1, <1>2, <1>3, <1>4, <1>5, <1>6

-----------------------------------------------------------------------------
(* What no step takes back. *)

\* Calls, answers and effects are added and never taken back.
LEMMA HistoryGrows ==
  ASSUME ToolsInv, [Next]_vars
  PROVE  /\ Len(made) <= Len(made') /\ \A c \in 1..Len(made) : made'[c] = made[c]
         /\ answers \subseteq answers' /\ effects \subseteq effects'
<1>1. CASE UNCHANGED made
  <2>1. answers \subseteq answers' /\ effects \subseteq effects'
    BY DEF Next, vars, brokerVars, RunStep, WorkerStep, Propose, Resolve, Begin, Mint, Stop, Die,
       Decide, RunTool, Approve, Ask, TakeAnswer, TimeOut, SeeStopped, TurnAway, Refused, Report,
       Fail, Foreign, SetWrites
  <2> QED
    BY <1>1, <2>1 DEF ToolsInv, BrokerTypeOK
<1>2. CASE \E w \in Runs, t \in Tools : Propose(w, t)
  <2>1. PICK w \in Runs, t \in Tools : Propose(w, t)
    BY <1>2
  <2>2. made' = Append(made, [tool |-> t, run |-> w]) /\ UNCHANGED <<answers, effects>>
    BY <2>1 DEF Propose
  <2>3. made \in Seq(Call) /\ [tool |-> t, run |-> w] \in Call
    BY DEF ToolsInv, BrokerTypeOK, Call
  <2> QED
    BY <2>2, <2>3
<1>3. UNCHANGED made \/ \E w \in Runs, t \in Tools : Propose(w, t)
  BY DEF Next, vars, brokerVars, RunStep, WorkerStep, Resolve, Begin, Mint, Stop, Die,
     Decide, RunTool, Approve, Ask, TakeAnswer, TimeOut, SeeStopped, TurnAway, Refused, Report,
     Fail, Foreign, SetWrites
<1> QED
  BY <1>1, <1>2, <1>3

\* Neither is a yes, nor a line.
LEMMA ConsentStays ==
  ASSUME ToolsInv, [Next]_vars, NEW c \in 1..Len(made), Consented(c)
  PROVE  Consented(c)'
<1>1. made'[c] = made[c] /\ answers \subseteq answers'
  BY HistoryGrows
<1>2. YesOn(c) => YesOn(c)'
  BY <1>1 DEF YesOn
<1>3. YesBefore(c) => YesBefore(c)'
  <2> SUFFICES ASSUME YesBefore(c) PROVE YesBefore(c)'
    OBVIOUS
  <2>1. PICK a \in answers :
          /\ made[a.card].tool = made[c].tool
          /\ a.scope = "project" \/ (a.scope = "run" /\ made[a.card].run = made[c].run)
    BY DEF YesBefore
  <2>2. made'[a.card] = made[a.card] /\ a \in answers'
    BY <1>1, HistoryGrows DEF ToolsInv, GoodGrants
  <2> QED
    BY <1>1, <2>1, <2>2 DEF YesBefore
<1> QED
  BY <1>1, <1>2, <1>3 DEF Consented

LEMMA LinesGrow ==
  ASSUME ToolsInv, [Next]_vars
  PROVE  /\ ~overtaken' => ~overtaken /\ \A what \in What : Line(what) => Line(what)'
         /\ Something => Something'
BY BrokerUsesLedger, LinesStay DEF ToolsInv

\* What is expected of a run's append is what an entry can say.
LEMMA ExpectedTyped ==
  ASSUME ToolsInv, NEW w \in Runs, job[w].phase \in Awaiting
  PROVE  Expected(job[w]) \in What
<1>1. job[w].call \in Calls /\ job[w].yes \in BOOLEAN
  BY CallTyped DEF ToolsInv, BrokerTypeOK, Job, Active
<1> QED
  BY <1>1, WhatAssumption DEF Expected, Says, Kinds, Awaiting

\* A run that does not move is good after the step of another, whose death may
\* empty the inbox.
LEMMA TrailStays ==
  ASSUME ToolsInv, [Next]_vars, NEW v \in Runs, job'[v] = job[v]
  PROVE  GoodTrail(v)'
<1>1. CASE job[v].phase \in Active
  <2>1. /\ job[v].call \in Calls /\ job[v].call \in 1..Len(made)
        /\ made'[job[v].call] = made[job[v].call] /\ effects \subseteq effects'
    BY <1>1, CallTyped, HistoryGrows
  <2>2. /\ Says("tool_call", job[v].call, FALSE) \in What
        /\ Says("decision", job[v].call, TRUE) \in What
        /\ Says("approval", job[v].call, TRUE) \in What
    BY <2>1, SaysTyped DEF Kinds
  <2>3. Tool(v)' = Tool(v) /\ GoodTrail(v)
    BY <2>1 DEF Tool, ToolsInv, RunsGood, GoodRun
  <2>4. ASSUME ~overtaken'
        PROVE  /\ ~overtaken
               /\ Line(Says("tool_call", job[v].call, FALSE))
                    => Line(Says("tool_call", job[v].call, FALSE))'
               /\ Line(Says("decision", job[v].call, TRUE))
                    => Line(Says("decision", job[v].call, TRUE))'
               /\ Line(Says("approval", job[v].call, TRUE))
                    => Line(Says("approval", job[v].call, TRUE))'
    BY <2>2, <2>4, LinesGrow
  <2> QED
    BY <2>1, <2>3, <2>4 DEF GoodTrail, NeedsApproval, Says
<1>2. CASE job[v].phase \notin Active
  BY <1>2 DEF GoodTrail, Active, Awaiting, AtCard
<1> QED
  BY <1>1, <1>2

LEMMA CardStays ==
  ASSUME ToolsInv, [Next]_vars, NEW v \in Runs, job'[v] = job[v],
         pending'[v] \in {pending[v], None}, decided'[v] \in {decided[v], None}
  PROVE  GoodCard(v)'
<1>1. GoodCard(v) /\ answers \subseteq answers' /\ Len(made) <= Len(made')
  BY HistoryGrows DEF ToolsInv, RunsGood, GoodRun
<1>2. CASE job[v].phase \in Active
  <2>1. /\ job[v].call \in 1..Len(made) /\ made'[job[v].call] = made[job[v].call]
        /\ job[v].call \in 1..Len(made')
    BY <1>1, <1>2, CallTyped, HistoryGrows DEF ToolsInv, BrokerTypeOK
  <2>2. Consented(job[v].call) => Consented(job[v].call)'
    BY <2>1, ConsentStays
  <2> QED
    BY <1>1, <1>2, <2>1, <2>2 DEF GoodCard, Tool
<1>3. CASE job[v].phase \notin Active
  BY <1>1, <1>3 DEF GoodCard, Active, Awaiting, AtCard
<1> QED
  BY <1>2, <1>3

LEMMA AppendStays ==
  ASSUME ToolsInv, [Next]_vars, NEW v \in Runs, job'[v] = job[v], writer'[v] = writer[v]
  PROVE  GoodAppend(v)'
<1>1. GoodAppend(v) /\ (Something => Something') /\ Expected(job'[v]) = Expected(job[v])
  BY LinesGrow DEF ToolsInv, RunsGood, GoodRun
<1>2. ASSUME job[v].phase \in Awaiting, ~overtaken', Line(Expected(job[v]))
      PROVE  ~overtaken /\ Line(Expected(job[v]))'
  BY <1>2, ExpectedTyped, LinesGrow
<1>3. ~overtaken' => ~overtaken
  BY LinesGrow
<1> QED
  BY <1>1, <1>2, <1>3 DEF GoodAppend

\* Runs other than w do not move.
LEMMA OthersStay ==
  ASSUME ToolsInv, [Next]_vars, NEW w \in Runs,
         \A v \in Runs \ {w} :
           /\ job'[v] = job[v] /\ writer'[v] = writer[v]
           /\ pending'[v] \in {pending[v], None} /\ decided'[v] \in {decided[v], None},
         GoodRun(w)'
  PROVE  RunsGood'
BY TrailStays, CardStays, AppendStays DEF RunsGood, GoodRun

\* What a person kept stays allowed while nothing is added to it.
LEMMA GrantsStay ==
  ASSUME ToolsInv, [Next]_vars, runGrants' \subseteq runGrants,
         auth'.tools \subseteq auth.tools, answers' = answers
  PROVE  GoodGrants'
<1>1. \A a \in answers : a.card \in 1..Len(made) /\ made'[a.card] = made[a.card]
  BY HistoryGrows DEF ToolsInv, GoodGrants
<1>2. \A a \in answers' : a.card \in 1..Len(made')
  BY <1>1, HistoryGrows DEF ToolsInv, BrokerTypeOK
<1>3. ASSUME NEW g \in runGrants'
      PROVE  /\ ~PerCallOnly(g[2])
             /\ \E a \in answers' : /\ a.scope = "run" /\ made'[a.card].tool = g[2]
                                    /\ made'[a.card].run = g[1]
  <2>1. PICK a \in answers : a.scope = "run" /\ made[a.card].tool = g[2] /\ made[a.card].run = g[1]
    BY DEF ToolsInv, GoodGrants
  <2> QED
    BY <1>1, <2>1 DEF ToolsInv, GoodGrants
<1>4. ASSUME NEW t \in auth'.tools
      PROVE  /\ ~PerCallOnly(t)
             /\ \E a \in answers' : a.scope = "project" /\ made'[a.card].tool = t
  <2>1. PICK a \in answers : a.scope = "project" /\ made[a.card].tool = t
    BY DEF ToolsInv, GoodGrants
  <2> QED
    BY <1>1, <2>1 DEF ToolsInv, GoodGrants
<1> QED
  BY <1>2, <1>3, <1>4 DEF GoodGrants, PerCallOnly

\* The record of one call that ran stays as it is.
OnRecord(c) ==
  /\ Line(Says("tool_call", c, FALSE)) /\ Line(Says("decision", c, TRUE))
  /\ NeedsApproval(made[c].tool) => Line(Says("approval", c, TRUE))

LEMMA RecordStays ==
  ASSUME ToolsInv, [Next]_vars, ~overtaken', NEW c \in 1..Len(made), c \in Calls
  PROVE  /\ ~overtaken
         /\ OnRecord(c) => OnRecord(c)'
         /\ Line(Says("tool_result", c, TRUE)) => Line(Says("tool_result", c, TRUE))'
<1>1. /\ Says("tool_call", c, FALSE) \in What /\ Says("decision", c, TRUE) \in What
      /\ Says("approval", c, TRUE) \in What /\ Says("tool_result", c, TRUE) \in What
  BY SaysTyped DEF Kinds
<1>2. /\ ~overtaken /\ \A what \in What : Line(what) => Line(what)'
      /\ made'[c] = made[c]
  BY LinesGrow, HistoryGrows
<1> QED
  BY <1>1, <1>2 DEF OnRecord, NeedsApproval, Says

\* Calls that ran stay recorded and consented to; one that runs now, or is
\* reported now, has to be.
LEMMA EffectsGrow ==
  ASSUME ToolsInv, [Next]_vars, NEW new, NEW told,
         effects' = effects \cup new, reported' = reported \cup told,
         \A c \in new : /\ c \in 1..Len(made) /\ c \in Calls /\ Consented(c)
                        /\ Something /\ (~overtaken => OnRecord(c)),
         \A c \in told : /\ c \in effects
                         /\ ~overtaken => Line(Says("tool_result", c, TRUE))
  PROVE  GoodEffects'
<1>1. /\ effects' \subseteq 1..Len(made) /\ effects' \subseteq Calls
      /\ reported' \subseteq effects'
  BY DEF ToolsInv, GoodEffects, BrokerTypeOK
<1>2. ASSUME NEW c \in effects'
      PROVE  Consented(c) /\ Something /\ (~overtaken => OnRecord(c))
  BY DEF ToolsInv, GoodEffects, Consent, Consented, RecordedFirst, OnRecord
<1>3. ASSUME NEW c \in reported', ~overtaken
      PROVE  Line(Says("tool_result", c, TRUE))
  BY <1>3 DEF ToolsInv, GoodEffects, RecordedFirst
<1>4. Consent'
  <2>1. ASSUME NEW c \in effects' PROVE Consented(c)'
    BY <1>1, <1>2, ConsentStays
  <2> QED
    BY <2>1 DEF Consent, Consented
<1>5. RecordedFirst'
  <2>1. ASSUME ~overtaken', NEW c \in effects' PROVE OnRecord(c)'
    BY <1>1, <1>2, <2>1, RecordStays
  <2>2. ASSUME ~overtaken', NEW c \in reported' PROVE Line(Says("tool_result", c, TRUE))'
    BY <1>1, <1>3, <2>2, RecordStays
  <2> QED
    BY <2>1, <2>2 DEF RecordedFirst, OnRecord
<1>6. effects' # {} => Something'
  BY <1>2, LinesGrow
<1>7. effects' \subseteq 1..Len(made')
  BY <1>1, HistoryGrows DEF ToolsInv, BrokerTypeOK
<1> QED
  BY <1>1, <1>4, <1>5, <1>6, <1>7 DEF GoodEffects

\* Nothing runs and nothing is reported.
LEMMA EffectsStay ==
  ASSUME ToolsInv, [Next]_vars, UNCHANGED <<effects, reported>>
  PROVE  GoodEffects'
<1> DEFINE none == {}
<1>1. effects' = effects \cup none /\ reported' = reported \cup none /\ \A c \in none : FALSE
  OBVIOUS
<1> HIDE DEF none
<1> QED
  BY <1>1, EffectsGrow

-----------------------------------------------------------------------------
(* One lemma per kind of step. *)

\* What is known of a run before it moves.
LEMMA RunFacts ==
  ASSUME ToolsInv, NEW w \in Runs
  PROVE  /\ w \in Writers /\ job[w] \in Job /\ GoodCard(w) /\ GoodAppend(w) /\ GoodTrail(w)
         /\ job \in [Runs -> Job]
         /\ pending[w] \in Calls \cup {None} /\ decided[w] \in Answers \cup {None}
         /\ writer \in [Writers -> WriterRecord] /\ GoodWriter(writer[w])
BY RunAssumption DEF ToolsInv, BrokerTypeOK, RunsGood, GoodRun, LedgerInv, LedgerTypeOK,
   WritersGood, WriterRecord

\* The append a run waited for returned: what it was called with is on record.
LEMMA WasRecorded ==
  ASSUME ToolsInv, NEW w \in Runs, NEW phase \in Awaiting, Recorded(w, phase)
  PROVE  job[w].phase = phase /\ Something /\ (~overtaken => Line(Expected(job[w])))
BY RunFacts DEF Recorded, Returned, GoodAppend

\* A run comes to rest: it waits for nothing and shows no card.
LEMMA Rests ==
  ASSUME ToolsInv, [Next]_vars, NEW w \in Runs, NEW j \in Job, j.phase \notin Active,
         job' = [job EXCEPT ![w] = j],
         pending'[w] = None, decided'[w] \in {decided[w], None},
         writer'[w].result = writer[w].result \/ writer'[w].result = None
  PROVE  GoodRun(w)'
<1>1. job'[w] = j /\ job' \in [Runs -> Job]
  BY RunFacts
<1>2. GoodCard(w)'
  BY <1>1, RunFacts, HistoryGrows DEF GoodCard, Active, Awaiting, AtCard
<1>3. GoodAppend(w)'
  BY <1>1, RunFacts, LinesGrow, NoneAssumption DEF GoodAppend, Active, Results
<1>4. GoodTrail(w)'
  BY <1>1 DEF GoodTrail, Active, Awaiting, AtCard
<1> QED
  BY <1>2, <1>3, <1>4 DEF GoodRun

\* A run calls append and waits for it.
LEMMA Appends ==
  ASSUME ToolsInv, [Next]_vars, NEW w \in Runs, NEW j \in Job, j.phase \in Awaiting,
         job' = [job EXCEPT ![w] = j], AppendEntry(w, Expected(j))
  PROVE  /\ GoodAppend(w)' /\ job'[w] = j
         /\ \A v \in Runs \ {w} : job'[v] = job[v] /\ writer'[v] = writer[v]
         /\ UNCHANGED <<entries, half, overtaken>>
<1>1. job'[w] = j /\ \A v \in Runs \ {w} : job'[v] = job[v]
  BY RunFacts
<1>2. /\ writer'[w].stage = "waiting" /\ writer'[w].what = Expected(j)
      /\ writer'[w].result = None
      /\ \A v \in Runs \ {w} : writer'[v] = writer[v]
  BY RunFacts, RunAssumption DEF AppendEntry, WriterRecord
<1>3. GoodAppend(w)'
  BY <1>1, <1>2, NoneAssumption DEF GoodAppend, Results
<1> QED
  BY <1>1, <1>2, <1>3 DEF AppendEntry

\* The entry each phase waits for.
Waits(phase, k, yes) ==
  \/ phase = "deciding" /\ k = "decision"
  \/ phase = "approving" /\ k = "approval"
  \/ phase = "recording" /\ k = "tool_result" /\ yes = TRUE

\* The record of a job, one field at a time.
LEMMA RecordIsAppend ==
  ASSUME ToolsInv, NEW w \in Runs, NEW phase \in Awaiting, NEW k, NEW yes \in BOOLEAN,
         job[w].phase \in Active, Record(w, phase, k, yes),
         Waits(phase, k, yes)
  PROVE  \E j \in Job : /\ j.phase = phase /\ j.call = job[w].call /\ j.yes = yes
                        /\ job' = [job EXCEPT ![w] = j] /\ AppendEntry(w, Expected(j))
<1> DEFINE j == [job[w] EXCEPT !.phase = phase, !.yes = yes]
<1>1. j \in Job /\ j.phase = phase /\ j.call = job[w].call /\ j.yes = yes
  BY RunFacts DEF Job, Phases, Awaiting
<1>2. job' = [job EXCEPT ![w] = j]
  <2>1. job' = [job EXCEPT ![w].phase = phase, ![w].yes = yes]
    BY DEF Record
  <2> QED
    BY <2>1, RunFacts
<1> HIDE DEF j
<1>3. Expected(j) = Says(k, job[w].call, yes)
  BY <1>1 DEF Expected, Says, Waits
<1> QED
  BY <1>1, <1>2, <1>3 DEF Record

\* What a step owes, in one place.
LEMMA StepKeeps ==
  ASSUME ToolsInv, [Next]_vars, BrokerTypeOK', RunsGood', GoodGrants', GoodEffects'
  PROVE  ToolsInv'
<1>1. LedgerInv'
  BY BrokerUsesLedger, LedgerKeeps DEF ToolsInv
<1> QED
  BY <1>1 DEF ToolsInv

\* A run at a call goes on to wait for its next append.
LEMMA RecordStep ==
  ASSUME ToolsInv, [Next]_vars, NEW w \in Runs, NEW phase \in Awaiting, NEW k,
         NEW yes \in BOOLEAN, job[w].phase \in Active, Record(w, phase, k, yes),
         Waits(phase, k, yes)
  PROVE  /\ job'[w].phase = phase /\ job'[w].call = job[w].call /\ job'[w].yes = yes
         /\ job' \in [Runs -> Job] /\ GoodAppend(w)'
         /\ \A v \in Runs \ {w} : job'[v] = job[v] /\ writer'[v] = writer[v]
         /\ UNCHANGED <<entries, half, overtaken>>
<1>1. PICK j \in Job : /\ j.phase = phase /\ j.call = job[w].call /\ j.yes = yes
                       /\ job' = [job EXCEPT ![w] = j] /\ AppendEntry(w, Expected(j))
  BY RecordIsAppend
<1>2. job' \in [Runs -> Job]
  BY <1>1, RunFacts
<1> QED
  BY <1>1, <1>2, Appends

\* A step of one run that grants nothing, runs nothing and makes no call.
LEMMA QuietStep ==
  ASSUME ToolsInv, [Next]_vars, NEW w \in Runs, job' \in [Runs -> Job],
         pending' \in [Runs -> Calls \cup {None}], decided' \in [Runs -> Answers \cup {None}],
         \A v \in Runs \ {w} :
           /\ job'[v] = job[v] /\ writer'[v] = writer[v]
           /\ pending'[v] \in {pending[v], None} /\ decided'[v] \in {decided[v], None},
         GoodRun(w)',
         granted' \in [Runs -> (SUBSET Tools) \cup {None}], runGrants' \subseteq runGrants,
         stopped' \in SUBSET Runs, acts' \in 0..MaxActs,
         receipt' \in [Runs -> {"none", "ledger", None}],
         UNCHANGED <<auth, made, effects, reported, answers>>
  PROVE  ToolsInv'
<1>1. RunsGood'
  BY OthersStay
<1>2. GoodGrants'
  BY GrantsStay
<1>3. GoodEffects'
  BY EffectsStay
<1>4. BrokerTypeOK'
  BY DEF ToolsInv, BrokerTypeOK
<1> QED
  BY <1>1, <1>2, <1>3, <1>4, StepKeeps

\* The parts of the types the steps below leave alone.
LEMMA Typed ==
  ASSUME ToolsInv
  PROVE  /\ granted \in [Runs -> (SUBSET Tools) \cup {None}]
         /\ pending \in [Runs -> Calls \cup {None}]
         /\ decided \in [Runs -> Answers \cup {None}]
         /\ stopped \in SUBSET Runs /\ acts \in 0..MaxActs
         /\ receipt \in [Runs -> {"none", "ledger", None}]
         /\ auth \in [writes: BOOLEAN, tools: SUBSET Tools]
BY DEF ToolsInv, BrokerTypeOK

\* The proposal is on record when the policy is asked (ToolBroker.execute).
LEMMA DecideKeeps ==
  ASSUME ToolsInv, [Next]_vars, NEW w \in Runs, Decide(w)
  PROVE  ToolsInv'
<1> DEFINE yes == Tool(w) \in granted[w]
<1>1. job[w].phase = "calling" /\ (~overtaken => Line(Says("tool_call", job[w].call, FALSE)))
  BY WasRecorded DEF Decide, Awaiting, Expected
<1>2. yes \in BOOLEAN /\ Record(w, "deciding", "decision", yes)
  BY DEF Decide
<1> HIDE DEF yes
<1>3. /\ job'[w].phase = "deciding" /\ job'[w].call = job[w].call /\ job'[w].yes = yes
      /\ job' \in [Runs -> Job] /\ GoodAppend(w)'
      /\ \A v \in Runs \ {w} : job'[v] = job[v] /\ writer'[v] = writer[v]
      /\ UNCHANGED <<entries, half, overtaken>>
  BY <1>1, <1>2, RecordStep DEF Active, Awaiting, Waits
<1>4. UNCHANGED <<granted, pending, decided, runGrants, auth, stopped, receipt, made,
                  effects, reported, answers, acts>>
  BY DEF Decide
<1>5. GoodTrail(w)'
  BY <1>1, <1>3, <1>4 DEF GoodTrail, AtCard, Line, Says
<1>6. GoodCard(w)'
  BY <1>1, <1>3, <1>4, RunFacts DEF GoodCard, AtCard, Active, Awaiting
<1> QED
  BY <1>3, <1>4, <1>5, <1>6, QuietStep, Typed DEF GoodRun

\* At the gate the proposal and the decision are on record.
LEMMA AtGateFacts ==
  ASSUME ToolsInv, NEW w \in Runs, AtGate(w)
  PROVE  /\ job[w].phase = "deciding" /\ job[w].yes /\ pending[w] = None
         /\ NeedsApproval(Tool(w)) /\ Tool(w) \in Tools /\ Level[Tool(w)] \in 0..6
         /\ ~overtaken => /\ Line(Says("tool_call", job[w].call, FALSE))
                          /\ Line(Says("decision", job[w].call, TRUE))
<1>1. /\ job[w].phase = "deciding" /\ job[w].yes /\ NeedsApproval(Tool(w))
      /\ ~overtaken => Line(Says("decision", job[w].call, job[w].yes))
  BY WasRecorded DEF AtGate, Awaiting, Expected
<1>2. job[w].yes = TRUE
  BY <1>1, RunFacts DEF Job
<1>3. ~overtaken => Line(Says("tool_call", job[w].call, FALSE))
  BY <1>1, RunFacts DEF GoodTrail, Active, Awaiting
<1>4. pending[w] = None
  BY <1>1, RunFacts DEF GoodCard, AtCard
<1>5. Tool(w) \in Tools /\ Level[Tool(w)] \in 0..6
  BY <1>1, CallTyped, ToolAssumption DEF Active, Awaiting
<1> QED
  BY <1>1, <1>2, <1>3, <1>4, <1>5

\* What stands for a tool was allowed by a person, or is a level 2 tool.
LEMMA StandingConsents ==
  ASSUME ToolsInv, NEW w \in Runs, AtGate(w), Standing(w)
  PROVE  Consented(job[w].call)
<1>1. /\ Tool(w) \in Tools /\ Level[Tool(w)] \in 0..6
      /\ job[w].call \in 1..Len(made) /\ made[job[w].call].run = w
      /\ Tool(w) = made[job[w].call].tool
  BY AtGateFacts, CallTyped DEF Active, Awaiting, Tool
<1>2. CASE Level[Tool(w)] = 2
  BY <1>1, <1>2 DEF Consented
<1>3. CASE ~PerCallOnly(Tool(w)) /\ <<w, Tool(w)>> \in runGrants
  <2>1. PICK a \in answers : a.scope = "run" /\ made[a.card].tool = Tool(w) /\ made[a.card].run = w
    BY <1>3 DEF ToolsInv, GoodGrants
  <2> QED
    BY <1>1, <1>3, <2>1 DEF Consented, YesBefore, PerCallOnly
<1>4. CASE ~PerCallOnly(Tool(w)) /\ Tool(w) \in auth.tools
  <2>1. PICK a \in answers : a.scope = "project" /\ made[a.card].tool = Tool(w)
    BY <1>4 DEF ToolsInv, GoodGrants
  <2> QED
    BY <1>1, <1>4, <2>1 DEF Consented, YesBefore, PerCallOnly
<1> QED
  BY <1>2, <1>3, <1>4 DEF Standing

\* The gate asks no card, or its card ended: what it says is recorded, and a yes
\* is consented to (approve, HumanApprovalGate).
LEMMA Answered ==
  ASSUME ToolsInv, [Next]_vars, NEW w \in Runs, NEW yes \in BOOLEAN,
         AtGate(w) \/ job[w].phase \in AtCard,
         Record(w, "approving", "approval", yes),
         pending' = [pending EXCEPT ![w] = None] \/ (AtGate(w) /\ UNCHANGED pending),
         UNCHANGED <<made, effects>>,
         decided' = decided \/ decided' = [decided EXCEPT ![w] = None],
         answers' = answers, yes => Consented(job[w].call)
  PROVE  /\ job' \in [Runs -> Job] /\ GoodRun(w)'
         /\ pending' \in [Runs -> Calls \cup {None}]
         /\ decided' \in [Runs -> Answers \cup {None}]
         /\ \A v \in Runs \ {w} :
              /\ job'[v] = job[v] /\ writer'[v] = writer[v]
              /\ pending'[v] = pending[v] /\ decided'[v] = decided[v]
<1>1. job[w].phase \in {"deciding"} \cup AtCard
  BY AtGateFacts
<1>2. /\ job'[w].phase = "approving" /\ job'[w].call = job[w].call /\ job'[w].yes = yes
      /\ job' \in [Runs -> Job] /\ GoodAppend(w)'
      /\ \A v \in Runs \ {w} : job'[v] = job[v] /\ writer'[v] = writer[v]
      /\ UNCHANGED <<entries, half, overtaken>>
  BY <1>1, RecordStep DEF Active, Awaiting, Waits
<1>3. /\ NeedsApproval(Tool(w))
      /\ ~overtaken => /\ Line(Says("tool_call", job[w].call, FALSE))
                       /\ Line(Says("decision", job[w].call, TRUE))
  BY <1>1, AtGateFacts, RunFacts DEF GoodTrail, Active, AtCard
<1>4. GoodTrail(w)'
  BY <1>2, <1>3 DEF GoodTrail, AtCard, Line, Says, Tool, NeedsApproval
<1>5. /\ pending' \in [Runs -> Calls \cup {None}] /\ pending'[w] = None
      /\ decided' \in [Runs -> Answers \cup {None}]
      /\ decided'[w] # None => decided'[w] \in answers
      /\ \A v \in Runs \ {w} : pending'[v] = pending[v] /\ decided'[v] = decided[v]
  BY Typed, RunFacts, AtGateFacts DEF GoodCard
<1>6. job[w].call \in 1..Len(made) /\ made[job[w].call].run = w
  BY <1>1, CallTyped DEF Active, Awaiting
<1>7. PICK c \in 1..Len(made) : c = job[w].call
  BY <1>6
<1>8. GoodCard(w)'
  <2>1. yes => Consented(c)'
    BY <1>7, ConsentStays
  <2>2. yes => Consented(job[w].call)'
    BY <1>2, <1>7, <2>1 DEF Consented, YesOn, YesBefore
  <2> QED
    BY <1>2, <1>5, <1>6, <2>2 DEF GoodCard, AtCard
<1> QED
  BY <1>2, <1>4, <1>5, <1>8 DEF GoodRun

\* approve without a card.
LEMMA ApproveKeeps ==
  ASSUME ToolsInv, [Next]_vars, NEW w \in Runs, Approve(w)
  PROVE  ToolsInv'
<1> DEFINE yes == Standing(w)
<1>1. yes \in BOOLEAN /\ Record(w, "approving", "approval", yes) /\ AtGate(w)
  BY DEF Approve, Standing
<1>2. yes => Consented(job[w].call)
  BY <1>1, StandingConsents
<1>3. UNCHANGED <<granted, pending, decided, runGrants, auth, stopped, receipt, made,
                  effects, reported, answers, acts>>
  BY DEF Approve
<1> HIDE DEF yes
<1> QED
  BY <1>1, <1>2, <1>3, Answered, QuietStep, Typed

\* A card that ends without an answer says no.
LEMMA NoAnswerKeeps ==
  ASSUME ToolsInv, [Next]_vars, NEW w \in Runs, TimeOut(w) \/ TurnAway(w)
  PROVE  ToolsInv'
<1>1. /\ job[w].phase \in AtCard /\ Record(w, "approving", "approval", FALSE)
      /\ pending' = [pending EXCEPT ![w] = None] /\ FALSE \in BOOLEAN
      /\ UNCHANGED <<granted, decided, runGrants, auth, stopped, receipt, made,
                     effects, reported, answers, acts>>
  BY DEF TimeOut, TurnAway, AtCard
<1> QED
  BY <1>1, Answered, QuietStep, Typed

\* The answer on a card: a yes is a yes to this call, and what it grants beyond it
\* is granted for this tool.
LEMMA TakeAnswerKeeps ==
  ASSUME ToolsInv, [Next]_vars, NEW w \in Runs, TakeAnswer(w)
  PROVE  ToolsInv'
<1> DEFINE t == Tool(w)
           d == decided[w]
           yes == d.scope # "deny"
<1>1. /\ job[w].phase = "asking" /\ d # None /\ yes \in BOOLEAN
      /\ Record(w, "approving", "approval", yes)
      /\ pending' = [pending EXCEPT ![w] = None]
      /\ decided' = [decided EXCEPT ![w] = None]
      /\ UNCHANGED <<granted, stopped, receipt, made, effects, reported, answers, acts>>
  BY DEF TakeAnswer
<1>2. /\ d \in answers /\ d.card = job[w].call /\ Level[t] < 6
      /\ job[w].call \in 1..Len(made) /\ made[job[w].call].tool = t
      /\ made[job[w].call].run = w /\ t \in Tools
  BY <1>1, RunFacts, CallTyped DEF GoodCard, AtCard, Active, Tool
<1>3. yes => Consented(job[w].call)
  BY <1>2 DEF Consented, YesOn
<1>4. /\ job' \in [Runs -> Job] /\ GoodRun(w)'
      /\ pending' \in [Runs -> Calls \cup {None}]
      /\ decided' \in [Runs -> Answers \cup {None}]
      /\ \A v \in Runs \ {w} :
           /\ job'[v] = job[v] /\ writer'[v] = writer[v]
           /\ pending'[v] = pending[v] /\ decided'[v] = decided[v]
  <2> HIDE DEF yes
  <2> QED
    BY <1>1, <1>3, Answered DEF AtCard
<1>5. RunsGood'
  BY <1>4, OthersStay
<1>6. /\ \A g \in runGrants' : g \in runGrants
           \/ (g = <<w, t>> /\ ~PerCallOnly(t) /\ d.scope = "run")
      /\ \A u \in auth'.tools : u \in auth.tools
           \/ (u = t /\ ~PerCallOnly(t) /\ d.scope = "project")
      /\ runGrants' \in SUBSET (Runs \X Tools)
      /\ auth' \in [writes: BOOLEAN, tools: SUBSET Tools]
  BY <1>2, Typed DEF TakeAnswer, ToolsInv, BrokerTypeOK
<1>7. GoodGrants'
  <2>1. ASSUME NEW g \in runGrants'
        PROVE  /\ ~PerCallOnly(g[2])
               /\ \E a \in answers : /\ a.scope = "run" /\ made[a.card].tool = g[2]
                                     /\ made[a.card].run = g[1]
    BY <1>2, <1>6 DEF ToolsInv, GoodGrants
  <2>2. ASSUME NEW u \in auth'.tools
        PROVE  /\ ~PerCallOnly(u)
               /\ \E a \in answers : a.scope = "project" /\ made[a.card].tool = u
    BY <1>2, <1>6 DEF ToolsInv, GoodGrants
  <2>3. \A a \in answers : a.card \in 1..Len(made)
    BY DEF ToolsInv, GoodGrants
  <2> QED
    BY <1>1, <2>1, <2>2, <2>3 DEF GoodGrants, PerCallOnly
<1>8. GoodEffects'
  BY <1>1, EffectsStay
<1>9. BrokerTypeOK'
  BY <1>1, <1>4, <1>6 DEF ToolsInv, BrokerTypeOK
<1> QED
  BY <1>5, <1>7, <1>8, <1>9, StepKeeps

\* A card is shown, or its run was seen to be stopped (ApprovalInbox.open, wait).
LEMMA CardKeeps ==
  ASSUME ToolsInv, [Next]_vars, NEW w \in Runs, Ask(w) \/ SeeStopped(w)
  PROVE  ToolsInv'
<1> DEFINE j == [job[w] EXCEPT !.phase = IF Ask(w) THEN "asking" ELSE "turning"]
<1>1. /\ job' = [job EXCEPT ![w] = j] /\ UNCHANGED ledgerVars
      /\ UNCHANGED <<granted, runGrants, auth, stopped, receipt, made, effects, reported,
                     answers, acts>>
  <2>1. CASE Ask(w)
    BY <2>1, RunFacts DEF Ask
  <2>2. CASE SeeStopped(w) /\ ~Ask(w)
    BY <2>2, RunFacts DEF SeeStopped
  <2> QED
    BY <2>1, <2>2
<1>2. /\ j \in Job /\ j.call = job[w].call /\ j.yes = job[w].yes /\ j.phase \in AtCard
      /\ j.phase = "asking" <=> Ask(w)
  BY RunFacts DEF Job, Phases, AtCard
<1> HIDE DEF j
<1>3. /\ job' \in [Runs -> Job] /\ job'[w] = j
      /\ \A v \in Runs \ {w} : job'[v] = job[v] /\ writer'[v] = writer[v]
  BY <1>1, <1>2, RunFacts DEF ledgerVars
<1>4. /\ pending' \in [Runs -> Calls \cup {None}]
      /\ decided' \in [Runs -> Answers \cup {None}]
      /\ \A v \in Runs \ {w} : pending'[v] = pending[v] /\ decided'[v] = decided[v]
      /\ Ask(w) => pending'[w] = job[w].call /\ decided'[w] = None
      /\ ~Ask(w) => job[w].phase = "asking" /\ pending' = pending /\ decided' = decided
  BY CallTyped, Typed, AtGateFacts DEF Ask, SeeStopped, Active, Awaiting
<1>5. /\ job[w].yes /\ NeedsApproval(Tool(w)) /\ Level[Tool(w)] < 6
      /\ ~overtaken => /\ Line(Says("tool_call", job[w].call, FALSE))
                       /\ Line(Says("decision", job[w].call, TRUE))
      /\ job[w].phase \in Active
  <2>1. CASE Ask(w)
    BY <2>1, AtGateFacts DEF Ask, Active, Awaiting
  <2>2. CASE SeeStopped(w)
    BY <2>2, RunFacts DEF SeeStopped, GoodTrail, GoodCard, Active, AtCard
  <2> QED
    BY <2>1, <2>2
<1>6. job[w].call \in 1..Len(made) /\ made[job[w].call].run = w
  BY <1>5, CallTyped
<1>7. GoodTrail(w)'
  BY <1>1, <1>2, <1>3, <1>5 DEF GoodTrail, Line, Says, Tool, NeedsApproval, AtCard, ledgerVars
<1>8. GoodCard(w)'
  BY <1>1, <1>2, <1>3, <1>4, <1>5, <1>6, RunFacts DEF GoodCard, AtCard, Tool
<1>9. GoodAppend(w)'
  BY <1>1, <1>2, <1>3, RunFacts, LinesGrow DEF GoodAppend, AtCard, Awaiting, ledgerVars
<1>10. GoodRun(w)'
  BY <1>7, <1>8, <1>9 DEF GoodRun
<1> QED
  BY <1>1, <1>3, <1>4, <1>10, QuietStep, Typed

\* A run rests, ends or begins.
LEMMA RestKeeps ==
  ASSUME ToolsInv, [Next]_vars, NEW w \in Runs,
         Begin(w) \/ Refused(w) \/ Fail(w) \/ Mint(w)
  PROVE  ToolsInv'
<1>1. /\ job' = [job EXCEPT ![w] = Resting] \/ job' = [job EXCEPT ![w] = Ended]
      /\ Resting \in Job /\ Ended \in Job
      /\ Resting.phase \notin Active /\ Ended.phase \notin Active
  BY DEF Begin, Refused, Fail, Mint, Resting, Ended, Job, Phases, Active, Awaiting, AtCard
<1>2. /\ UNCHANGED ledgerVars
      /\ UNCHANGED <<pending, decided, runGrants, auth, stopped, made, effects, reported,
                     answers, acts>>
      /\ job[w].phase \notin AtCard
  BY DEF Begin, Refused, Fail, Mint, Recorded, AtCard
<1>3. pending[w] = None
  BY <1>2, RunFacts DEF GoodCard
<1>4. GoodRun(w)'
  BY <1>1, <1>2, <1>3, Rests DEF ledgerVars
<1>5. /\ job' \in [Runs -> Job]
      /\ \A v \in Runs \ {w} : job'[v] = job[v] /\ writer'[v] = writer[v]
  BY <1>1, <1>2, RunFacts DEF ledgerVars
<1>6. granted' \in [Runs -> (SUBSET Tools) \cup {None}]
  BY Typed DEF Begin, Refused, Fail, Mint, LiveTools
<1>7. receipt' \in [Runs -> {"none", "ledger", None}]
  BY Typed DEF Begin, Refused, Fail, Mint, Evidence
<1> QED
  BY <1>2, <1>4, <1>5, <1>6, <1>7, QuietStep, Typed

\* A call is proposed.
LEMMA ProposeKeeps ==
  ASSUME ToolsInv, [Next]_vars, NEW w \in Runs, NEW t \in Tools, Propose(w, t)
  PROVE  ToolsInv'
<1> DEFINE n == Len(made) + 1
           j == [phase |-> "calling", call |-> n, yes |-> FALSE]
<1>1. /\ n \in Calls /\ made' \in Seq(Call) /\ Len(made') = n /\ n <= MaxCalls
      /\ made'[n] = [tool |-> t, run |-> w] /\ n \in 1..Len(made')
  <2>1. made \in Seq(Call) /\ [tool |-> t, run |-> w] \in Call /\ Len(made) < MaxCalls
    BY DEF ToolsInv, BrokerTypeOK, Call, Propose
  <2> QED
    BY <2>1, ToolAssumption DEF Propose, Calls
<1>2. /\ job[w].phase = "between" /\ job' = [job EXCEPT ![w] = j]
      /\ AppendEntry(w, Says("tool_call", n, FALSE))
      /\ UNCHANGED <<granted, pending, decided, runGrants, auth, stopped, receipt, effects,
                     reported, answers, acts>>
  BY DEF Propose
<1>3. j \in Job /\ j.phase = "calling" /\ j.call = n /\ Expected(j) = Says("tool_call", n, FALSE)
  BY <1>1 DEF Job, Phases, Expected
<1> HIDE DEF j, n
<1>4. /\ GoodAppend(w)' /\ job'[w] = j /\ job' \in [Runs -> Job]
      /\ \A v \in Runs \ {w} : job'[v] = job[v] /\ writer'[v] = writer[v]
  BY <1>2, <1>3, Appends, RunFacts DEF Awaiting
<1>5. pending[w] = None
  BY <1>2, RunFacts DEF GoodCard, AtCard
<1>6. GoodCard(w)'
  BY <1>1, <1>2, <1>3, <1>4, <1>5, RunFacts DEF GoodCard, AtCard
<1>7. GoodTrail(w)'
  BY <1>3, <1>4 DEF GoodTrail, AtCard
<1>8. RunsGood'
  BY <1>2, <1>4, <1>6, <1>7, OthersStay DEF GoodRun
<1>9. BrokerTypeOK'
  BY <1>1, <1>2, <1>4 DEF ToolsInv, BrokerTypeOK
<1> QED
  BY <1>2, <1>8, <1>9, GrantsStay, EffectsStay, StepKeeps

\* The tool runs: everything that has to be on record is.
LEMMA RunToolKeeps ==
  ASSUME ToolsInv, [Next]_vars, NEW w \in Runs, RunTool(w)
  PROVE  ToolsInv'
<1>1. /\ job[w].phase \in {"deciding", "approving"} /\ job[w].yes
      /\ Record(w, "recording", "tool_result", TRUE) /\ TRUE \in BOOLEAN
      /\ effects' = effects \cup {job[w].call}
      /\ UNCHANGED <<granted, pending, decided, runGrants, auth, stopped, receipt, made,
                     reported, answers, acts>>
      /\ Something
  BY WasRecorded DEF RunTool, Recorded, Awaiting
<1>2. /\ job[w].call \in Calls /\ job[w].call \in 1..Len(made)
      /\ Tool(w) = made[job[w].call].tool /\ Tool(w) \in Tools /\ Level[Tool(w)] \in 0..6
      /\ made[job[w].call].run = w /\ job[w].yes = TRUE
  BY <1>1, CallTyped, RunFacts, ToolAssumption DEF Active, Awaiting, Tool, Job
<1>3. Consented(job[w].call) /\ (~overtaken => OnRecord(job[w].call))
  <2>1. CASE job[w].phase = "deciding"
    <3>1. ~NeedsApproval(Tool(w)) /\ (~overtaken => Line(Expected(job[w])))
      BY <2>1, WasRecorded DEF RunTool, Recorded, Awaiting
    <3>2. ~overtaken => Line(Says("decision", job[w].call, TRUE))
      BY <1>2, <2>1, <3>1 DEF Expected
    <3>3. ~overtaken => Line(Says("tool_call", job[w].call, FALSE))
      BY <2>1, RunFacts DEF GoodTrail, Active, Awaiting
    <3>4. Level[made[job[w].call].tool] \in 0..6 /\ Level[made[job[w].call].tool] < 2
      BY <1>2, <3>1 DEF NeedsApproval
    <3>5. Consented(job[w].call)
      BY <3>4 DEF Consented
    <3>6. ~NeedsApproval(made[job[w].call].tool)
      BY <3>4 DEF NeedsApproval
    <3> QED
      BY <3>2, <3>3, <3>5, <3>6 DEF OnRecord
  <2>2. CASE job[w].phase = "approving"
    <3>1. ~overtaken => Line(Expected(job[w]))
      BY <2>2, WasRecorded DEF RunTool, Recorded, Awaiting
    <3>2. ~overtaken => Line(Says("approval", job[w].call, TRUE))
      BY <1>2, <2>2, <3>1 DEF Expected
    <3>3. ~overtaken => /\ Line(Says("tool_call", job[w].call, FALSE))
                        /\ Line(Says("decision", job[w].call, TRUE))
      BY <2>2, RunFacts DEF GoodTrail, Active, Awaiting
    <3>4. Consented(job[w].call)
      BY <1>1, <2>2, RunFacts DEF GoodCard
    <3> QED
      BY <3>2, <3>3, <3>4 DEF OnRecord
  <2> QED
    BY <1>1, <2>1, <2>2
<1>4. /\ job'[w].phase = "recording" /\ job'[w].call = job[w].call
      /\ job' \in [Runs -> Job] /\ GoodAppend(w)'
      /\ \A v \in Runs \ {w} : job'[v] = job[v] /\ writer'[v] = writer[v]
      /\ UNCHANGED <<entries, half, overtaken>>
  BY <1>1, RecordStep DEF Active, Awaiting, Waits
<1>5. GoodTrail(w)'
  BY <1>1, <1>2, <1>3, <1>4 DEF GoodTrail, OnRecord, Line, Says, Tool, NeedsApproval, AtCard
<1>6. pending[w] = None
  BY <1>1, RunFacts DEF GoodCard, AtCard
<1>7. GoodCard(w)'
  BY <1>1, <1>2, <1>4, <1>6, RunFacts DEF GoodCard, AtCard
<1>8. RunsGood'
  BY <1>1, <1>4, <1>5, <1>7, OthersStay DEF GoodRun
<1>9. GoodEffects'
  <2> DEFINE none == {}
             ran  == {job[w].call}
  <2>1. reported' = reported \cup none /\ \A c \in none : FALSE
    BY <1>1
  <2>2. /\ effects' = effects \cup ran
        /\ \A c \in ran : /\ c \in 1..Len(made) /\ c \in Calls /\ Consented(c)
                         /\ Something /\ (~overtaken => OnRecord(c))
    BY <1>1, <1>2, <1>3
  <2> HIDE DEF none, ran
  <2> QED
    BY <2>1, <2>2, EffectsGrow
<1>10. BrokerTypeOK'
  BY <1>1, <1>2, <1>4 DEF ToolsInv, BrokerTypeOK
<1> QED
  BY <1>1, <1>8, <1>9, <1>10, GrantsStay, StepKeeps

\* The result is reported once it is on record.
LEMMA ReportKeeps ==
  ASSUME ToolsInv, [Next]_vars, NEW w \in Runs, Report(w)
  PROVE  ToolsInv'
<1>1. /\ job[w].phase = "recording" /\ (~overtaken => Line(Says("tool_result", job[w].call, TRUE)))
  BY WasRecorded DEF Report, Awaiting, Expected
<1>2. job[w].call \in effects /\ pending[w] = None
  BY <1>1, RunFacts DEF GoodTrail, GoodCard, AtCard
<1>3. /\ job' = [job EXCEPT ![w] = Resting] /\ UNCHANGED ledgerVars
      /\ reported' = reported \cup {job[w].call}
      /\ UNCHANGED <<granted, pending, decided, runGrants, auth, stopped, receipt, made,
                     effects, answers, acts>>
  BY DEF Report
<1>4. Resting \in Job /\ Resting.phase \notin Active
  BY DEF Resting, Job, Phases, Active, Awaiting, AtCard
<1>5. GoodRun(w)'
  BY <1>2, <1>3, <1>4, Rests DEF ledgerVars
<1>6. /\ job' \in [Runs -> Job]
      /\ \A v \in Runs \ {w} : job'[v] = job[v] /\ writer'[v] = writer[v]
  BY <1>3, <1>4, RunFacts DEF ledgerVars
<1>7. RunsGood'
  BY <1>3, <1>5, <1>6, OthersStay
<1>8. GoodEffects'
  <2> DEFINE none == {}
             told == {job[w].call}
  <2>1. effects' = effects \cup none /\ \A c \in none : FALSE
    BY <1>3
  <2>2. /\ reported' = reported \cup told
        /\ \A c \in told : c \in effects /\ (~overtaken => Line(Says("tool_result", c, TRUE)))
    BY <1>1, <1>2, <1>3
  <2> HIDE DEF none, told
  <2> QED
    BY <2>1, <2>2, EffectsGrow
<1>9. BrokerTypeOK'
  BY <1>1, <1>3, <1>6, CallTyped DEF ToolsInv, BrokerTypeOK, Active, Awaiting
<1> QED
  BY <1>3, <1>7, <1>8, <1>9, GrantsStay, StepKeeps

\* The person answers on whatever card the run shows (ApprovalInbox.resolve).
LEMMA ResolveKeeps ==
  ASSUME ToolsInv, [Next]_vars, NEW w \in Runs, NEW scope \in Scopes, Resolve(w, scope)
  PROVE  ToolsInv'
<1> DEFINE a == [scope |-> scope, card |-> pending[w]]
<1>1. /\ pending[w] # None /\ pending[w] \in Calls /\ a \in Answers
      /\ decided' = [decided EXCEPT ![w] = a] /\ answers' = answers \cup {a}
      /\ UNCHANGED ledgerVars /\ acts' \in 0..MaxActs
      /\ UNCHANGED <<job, granted, pending, runGrants, auth, stopped, receipt, made,
                     effects, reported>>
  BY RunFacts, Typed, ToolAssumption DEF Resolve, Act, Answers
<1>2. job[w].phase \in AtCard /\ pending[w] = job[w].call /\ pending[w] \in 1..Len(made)
  BY <1>1, RunFacts DEF GoodCard, Active
<1>3. a.card = job[w].call /\ a.card \in 1..Len(made)
  BY <1>2
<1> HIDE DEF a
<1>4. /\ decided' \in [Runs -> Answers \cup {None}] /\ decided'[w] = a
      /\ \A v \in Runs \ {w} : decided'[v] = decided[v]
  BY <1>1, Typed
<1>5. GoodCard(w)'
  <2>1. job[w].phase # "approving"
    BY <1>2 DEF AtCard
  <2> QED
    BY <1>1, <1>2, <1>3, <1>4, <2>1, RunFacts DEF GoodCard, Tool
<1>6. GoodTrail(w)' /\ GoodAppend(w)'
  BY <1>1, TrailStays, AppendStays DEF ledgerVars
<1>7. RunsGood'
  <2>1. GoodRun(w)'
    BY <1>5, <1>6 DEF GoodRun
  <2> QED
    BY <1>1, <1>4, <2>1, OthersStay DEF ledgerVars
<1>8. GoodGrants'
  BY <1>1, <1>3 DEF ToolsInv, GoodGrants
<1>9. BrokerTypeOK'
  BY <1>1, <1>4 DEF ToolsInv, BrokerTypeOK
<1> QED
  BY <1>1, <1>7, <1>8, <1>9, EffectsStay, StepKeeps

\* Writes are authorized or not, a run is stopped, a file grows old: no call moves.
LEMMA BystandersKeep ==
  ASSUME ToolsInv, [Next]_vars, UNCHANGED <<job, pending, decided>>,
         \A v \in Runs : writer'[v] = writer[v],
         auth' \in [writes: BOOLEAN, tools: SUBSET Tools], auth'.tools = auth.tools,
         stopped' \in SUBSET Runs, acts' \in 0..MaxActs,
         UNCHANGED <<granted, runGrants, receipt, made, effects, reported, answers>>
  PROVE  ToolsInv'
<1>1. RunsGood'
  BY TrailStays, CardStays, AppendStays DEF RunsGood, GoodRun
<1>2. BrokerTypeOK'
  BY DEF ToolsInv, BrokerTypeOK
<1> QED
  BY <1>1, <1>2, GrantsStay, EffectsStay, StepKeeps

\* A death empties the inbox; what the dead run had begun stays as recorded.
LEMMA DieKeeps ==
  ASSUME ToolsInv, [Next]_vars, NEW w \in Runs, Die(w)
  PROVE  ToolsInv'
<1>1. /\ job' = [job EXCEPT ![w] = Ended] /\ writer' = [writer EXCEPT ![w] = Fresh]
      /\ pending' = [v \in Runs |-> None] /\ decided' = [v \in Runs |-> None]
      /\ runGrants' = {}
      /\ UNCHANGED <<granted, auth, stopped, receipt, made, effects, reported, answers, acts>>
  BY DEF Die, LedgerDeath
<1>2. Ended \in Job /\ Ended.phase \notin Active
  BY DEF Ended, Resting, Job, Phases, Active, Awaiting, AtCard
<1>3. /\ writer'[w].result = None /\ \A v \in Runs \ {w} : writer'[v] = writer[v]
  BY <1>1, RunFacts, RunAssumption DEF Fresh
<1>4. GoodRun(w)'
  BY <1>1, <1>2, <1>3, Rests
<1>5. job' \in [Runs -> Job] /\ \A v \in Runs \ {w} : job'[v] = job[v]
  BY <1>1, <1>2, RunFacts
<1> QED
  BY <1>1, <1>3, <1>4, <1>5, QuietStep, Typed

\* A step inside append keeps the promise of what it was called with.
LEMMA LedgerStepKeeps ==
  ASSUME ToolsInv, [Next]_vars, NEW w \in Writers, LedgerStep(w), UNCHANGED brokerVars
  PROVE  ToolsInv'
<1>1. \A v \in Writers \ {w} : writer'[v] = writer[v]
  BY RunFacts DEF LedgerStep, TakeLock, SeeStaleLock, BreakLock, GiveUp, ReleaseLock, Write,
     ToolsInv, LedgerInv, LedgerTypeOK
<1>2. ASSUME w \in Runs PROVE GoodRun(w)'
  <2>1. GoodTrail(w)' /\ GoodCard(w)'
    BY <1>2, TrailStays, CardStays DEF brokerVars
  <2>2. GoodAppend(w) /\ GoodWriter(writer[w]) /\ writer \in [Writers -> WriterRecord]
    BY <1>2, RunFacts
  <2>3. Expected(job[w])' = Expected(job[w]) /\ job'[w] = job[w]
    BY DEF brokerVars, Expected, Says
  <2>4. CASE SeeStaleLock(w) \/ BreakLock(w)
    <3>1. /\ writer'[w].result = writer[w].result /\ writer'[w].what = writer[w].what
          /\ writer[w].stage \in {"waiting", "breaking"}
          /\ writer'[w].stage \in {"waiting", "breaking"}
          /\ UNCHANGED <<entries, half>> /\ (~overtaken' => ~overtaken)
      BY <1>2, <2>2, <2>4, LinesGrow DEF SeeStaleLock, BreakLock, WriterRecord
    <3>2. GoodAppend(w)'
      BY <2>2, <2>3, <3>1 DEF GoodAppend, Line, Something, Torn
    <3> QED
      BY <2>1, <3>2 DEF GoodRun
  <2>5. CASE GiveUp(w)
    <3>1. writer'[w].result = "refused" /\ writer'[w].stage = "idle"
      BY <2>2, <2>5 DEF GiveUp, WriterRecord
    <3>2. GoodAppend(w)'
      BY <3>1 DEF GoodAppend
    <3> QED
      BY <2>1, <3>2 DEF GoodRun
  <2>6. CASE TakeLock(w)
    <3>1. /\ writer'[w].result # "written"
          /\ writer'[w].stage \in {"writing", "leaving"}
          /\ writer'[w].stage = "writing" => writer'[w].line.what = writer[w].what
          /\ writer[w].stage = "waiting"
      BY <2>2, <2>6, NoneAssumption DEF TakeLock, WriterRecord, Results
    <3>2. GoodAppend(w)'
      BY <2>2, <2>3, <3>1 DEF GoodAppend
    <3> QED
      BY <2>1, <3>2 DEF GoodRun
  <2>7. CASE ReleaseLock(w)
    <3>1. /\ writer'[w].result = writer[w].result /\ writer'[w].stage = "idle"
          /\ UNCHANGED <<entries, half>> /\ (~overtaken' => ~overtaken)
      BY <1>2, <2>2, <2>7, LinesGrow DEF ReleaseLock, WriterRecord
    <3>2. GoodAppend(w)'
      BY <2>2, <2>3, <3>1 DEF GoodAppend, Line, Something, Torn
    <3> QED
      BY <2>1, <3>2 DEF GoodRun
  <2>8. ASSUME NEW whole \in BOOLEAN, Write(w, whole)
        PROVE  GoodRun(w)'
    <3> DEFINE line == writer[w].line
    <3>1. /\ writer[w].stage = "writing" /\ line \in Entry /\ Written(line, whole)
          /\ writer'[w].stage = "leaving" /\ overtaken' = overtaken
          /\ entries \in Seq(Entry \cup {Glued})
      BY <2>2, <2>8 DEF Write, GoodWriter, WriterRecord, ToolsInv, LedgerInv, LedgerTypeOK
    <3>2. Something'
      <4>1. /\ half' # None <=> ~whole
            /\ Len(entries') = IF whole THEN Len(entries) + 1 ELSE Len(entries)
        BY <3>1, WrittenTyped DEF ToolsInv
      <4> QED
        BY <3>1, <4>1 DEF Something, Torn
    <3>3. PICK l \in Entry : l = line
      BY <3>1
    <3>4. ASSUME ~overtaken PROVE Line(l.what)'
      <4>1. ~Torn
        BY <3>1, <3>4 DEF ToolsInv, LedgerInv, ChainGood, LineContinues
      <4>2. CASE whole
        <5>1. entries' = Append(entries, l)
          BY <3>1, <3>3, <4>1, <4>2 DEF Written
        <5>2. Len(entries') = Len(entries) + 1 /\ entries'[Len(entries) + 1] = l
              /\ Len(entries) + 1 \in 1..Len(entries')
          BY <3>1, <5>1
        <5>3. \E i \in 1..Len(entries') : entries'[i].what = l.what
          BY <5>2
        <5> QED
          BY <5>3 DEF Line
      <4>3. CASE ~whole
        BY <3>1, <3>3, <4>3 DEF Written, Line
      <4> QED
        BY <4>2, <4>3
    <3>5. GoodAppend(w)'
      <4>1. job[w].phase \in Awaiting => l.what = Expected(job[w])
        BY <2>2, <3>1, <3>3 DEF GoodAppend
      <4>2. ASSUME job[w].phase \in Awaiting, ~overtaken' PROVE Line(Expected(job[w]))'
        BY <2>3, <3>1, <3>4, <4>1, <4>2 DEF Line
      <4> QED
        BY <2>3, <3>1, <3>2, <4>2 DEF GoodAppend
    <3> QED
      BY <2>1, <3>5 DEF GoodRun
  <2> QED
    BY <2>4, <2>5, <2>6, <2>7, <2>8 DEF LedgerStep
<1>3. RunsGood'
  <2>1. CASE w \in Runs
    BY <1>1, <1>2, <2>1, OthersStay, RunAssumption DEF brokerVars
  <2>2. CASE w \notin Runs
    BY <1>1, <2>2, TrailStays, CardStays, AppendStays, RunAssumption DEF brokerVars, RunsGood, GoodRun
  <2> QED
    BY <2>1, <2>2
<1>4. BrokerTypeOK'
  BY DEF ToolsInv, BrokerTypeOK, brokerVars
<1> QED
  BY <1>3, <1>4, GrantsStay, EffectsStay, StepKeeps DEF brokerVars

-----------------------------------------------------------------------------
(* The theorems. *)

\* Before the first call nothing is owed.
LEMMA InitTools == Init => ToolsInv
<1> SUFFICES ASSUME Init PROVE ToolsInv
  OBVIOUS
<1>1. LedgerInv
  BY LedgerStarts DEF Init
<1>2. Unborn \in Job /\ Unborn.phase = "new"
  BY DEF Unborn, Resting, Job, Phases
<1>3. made = <<>> /\ Len(made) = 0 /\ made \in Seq(Call)
  BY DEF Init
<1>4. BrokerTypeOK
  <2>1. job \in [Runs -> Job]
    BY <1>2 DEF Init
  <2>2. auth \in [writes: BOOLEAN, tools: SUBSET Tools]
    BY DEF Init
  <2>3. Len(made) <= MaxCalls /\ 0 \in 0..MaxActs
    BY <1>3, ToolAssumption
  <2>4. /\ granted \in [Runs -> (SUBSET Tools) \cup {None}]
        /\ pending \in [Runs -> Calls \cup {None}]
        /\ decided \in [Runs -> Answers \cup {None}]
        /\ receipt \in [Runs -> {"none", "ledger", None}]
    BY DEF Init
  <2>5. /\ runGrants \in SUBSET (Runs \X Tools) /\ stopped \in SUBSET Runs
        /\ effects \in SUBSET Calls /\ reported \in SUBSET Calls
        /\ answers \in SUBSET Answers /\ acts \in 0..MaxActs
    BY <2>3 DEF Init
  <2> QED
    BY <1>3, <2>1, <2>2, <2>3, <2>4, <2>5 DEF BrokerTypeOK
<1>5. ASSUME NEW w \in Runs PROVE GoodRun(w)
  <2>1. job[w].phase = "new" /\ pending[w] = None /\ decided[w] = None
    BY <1>2, <1>5 DEF Init
  <2>2. writer[w].result = None
    BY RunAssumption DEF Init, LedgerInit, Fresh
  <2> QED
    BY <2>1, <2>2, NoneAssumption DEF GoodRun, GoodCard, GoodAppend, GoodTrail, Active, Awaiting,
       AtCard, Results
<1>6. GoodGrants
  <2>1. auth.tools = {}
    BY DEF Init
  <2> QED
    BY <2>1 DEF Init, GoodGrants
<1>7. GoodEffects
  BY DEF Init, GoodEffects, RecordedFirst, Consent
<1> QED
  BY <1>1, <1>4, <1>5, <1>6, <1>7 DEF ToolsInv, RunsGood

\* Every step of every run, writer and person keeps the invariant.
LEMMA NextTools == ToolsInv /\ [Next]_vars => ToolsInv'
<1> SUFFICES ASSUME ToolsInv, [Next]_vars PROVE ToolsInv'
  OBVIOUS
<1>1. ASSUME NEW w \in Runs, RunStep(w)
      PROVE  ToolsInv'
  <2>1. CASE WorkerStep(w)
    BY <2>1, DecideKeeps, RunToolKeeps, ApproveKeeps, CardKeeps, TakeAnswerKeeps,
       NoAnswerKeeps, RestKeeps, ReportKeeps DEF WorkerStep
  <2>2. CASE Stop(w)
    <3>1. /\ stopped' \in SUBSET Runs /\ acts' \in 0..MaxActs
          /\ UNCHANGED <<ledgerVars, job, granted, pending, decided, runGrants, auth, receipt,
                         made, effects, reported, answers>>
      BY <2>2, Typed, ToolAssumption DEF Stop, Act
    <3> QED
      BY <3>1, Typed, BystandersKeep DEF ledgerVars
  <2> QED
    BY <1>1, <2>1, <2>2, ProposeKeeps, ResolveKeeps, RestKeeps, DieKeeps DEF RunStep
<1>2. ASSUME NEW w \in Writers \ Runs, Foreign(w)
      PROVE  ToolsInv'
  <2>1. \A v \in Runs : writer'[v] = writer[v]
    BY <1>2, RunAssumption DEF Foreign, AppendEntry, LedgerDeath, ToolsInv, LedgerInv, LedgerTypeOK
  <2>2. /\ acts' \in 0..MaxActs
        /\ UNCHANGED <<job, granted, pending, decided, runGrants, auth, stopped, receipt, made,
                       effects, reported, answers>>
    <3>1. Act \/ UNCHANGED acts
      BY <1>2 DEF Foreign
    <3>2. acts' \in 0..MaxActs
      BY <3>1, Typed, ToolAssumption DEF Act
    <3> QED
      BY <1>2, <3>2 DEF Foreign
  <2> QED
    BY <2>1, <2>2, Typed, BystandersKeep
<1>3. ASSUME NEW on \in BOOLEAN, SetWrites(on)
      PROVE  ToolsInv'
  <2>1. /\ auth' \in [writes: BOOLEAN, tools: SUBSET Tools] /\ auth'.tools = auth.tools
        /\ acts' \in 0..MaxActs
        /\ UNCHANGED <<ledgerVars, job, granted, pending, decided, runGrants, stopped, receipt,
                       made, effects, reported, answers>>
    BY <1>3, Typed, ToolAssumption DEF SetWrites, Act
  <2> QED
    BY <2>1, Typed, BystandersKeep DEF ledgerVars
<1>4. ASSUME UNCHANGED brokerVars, UNCHANGED writer
      PROVE  ToolsInv'
  BY <1>4, Typed, BystandersKeep DEF brokerVars
<1> QED
  BY <1>1, <1>2, <1>3, <1>4, LedgerStepKeeps DEF Next, LockGrowsOld, vars, ledgerVars

\* The invariant of the broker over its ledger.
THEOREM ToolsInvariant == Spec => []ToolsInv
BY InitTools, NextTools, PTL DEF Spec

\* Ledger, calls, cards and grants keep their shape, whatever is glued or cached.
THEOREM ToolTypes == Spec => []TypeOK
<1>1. ToolsInv => TypeOK
  BY DEF ToolsInv, LedgerInv, BrokerTypeOK, TypeOK
<1> QED
  BY <1>1, ToolsInvariant, PTL

\* The ledger does not fork while no holder is overtaken (EvidenceLedger.append).
THEOREM LedgerIsOneChain == Spec => []OneChain
<1>1. ToolsInv => OneChain
  BY DEF ToolsInv, LedgerInv, ChainGood, OneChain
<1> QED
  BY <1>1, ToolsInvariant, PTL

\* Nothing runs and nothing succeeds off the record (ToolBroker.execute).
THEOREM ToolsAreRecordedFirst == Spec => []RecordedFirst
<1>1. ToolsInv => RecordedFirst
  BY DEF ToolsInv, GoodEffects
<1> QED
  BY <1>1, ToolsInvariant, PTL

\* Nothing runs without the consent its level asks for (HumanApprovalGate).
THEOREM ToolsHaveConsent == Spec => []Consent
<1>1. ToolsInv => Consent
  BY DEF ToolsInv, GoodEffects
<1> QED
  BY <1>1, ToolsInvariant, PTL

\* A receipt that says nothing of tools is minted before any ran (_tool_evidence).
THEOREM AbsenceIsHonest == Spec => HonestAbsence
<1> DEFINE Honest == \A w \in Runs : receipt[w] = None /\ receipt'[w] = "none" => effects = {}
<1>1. ASSUME ToolsInv, [Next]_vars PROVE [Honest]_vars
  <2>1. CASE \E w \in Runs : Mint(w)
    <3>1. PICK w \in Runs : Mint(w)
      BY <2>1
    <3>2. receipt' = [receipt EXCEPT ![w] = Evidence]
      BY <3>1 DEF Mint
    <3>3. ASSUME effects # {} PROVE Evidence # "none"
      <4>1. ~(entries = <<>> /\ ~Torn)
        BY <1>1, <3>3 DEF ToolsInv, GoodEffects, Something
      <4>2. Evidence = "ledger" \/ Evidence = None
        BY <4>1 DEF Evidence
      <4>3. Evidence # None
        BY <3>1 DEF Mint
      <4> QED
        BY <4>2, <4>3
    <3>4. receipt \in [Runs -> {"none", "ledger", None}]
      BY <1>1, Typed
    <3>5. ASSUME NEW v \in Runs, receipt[v] = None, receipt'[v] = "none"
          PROVE  effects = {}
      BY <3>2, <3>3, <3>4, <3>5, RunAssumption
    <3> QED
      BY <3>5
  <2>2. CASE UNCHANGED receipt
    <3>1. ASSUME NEW v \in Runs, receipt[v] = None, receipt'[v] = "none"
          PROVE  effects = {}
      BY <2>2, <3>1, RunAssumption
    <3> QED
      BY <3>1
  <2> QED
    BY <1>1, <2>1, <2>2 DEF Next, vars, brokerVars, RunStep, WorkerStep, Propose, Resolve, Begin,
       Stop, Die, Decide, RunTool, Approve, Ask, TakeAnswer, TimeOut, SeeStopped, TurnAway,
       Refused, Report, Fail, Foreign, SetWrites
<1> QED
  BY <1>1, ToolsInvariant, PTL DEF Spec, HonestAbsence

\* The ledger of the broker is a log that is appended to at one moment, for any
\* writers, tools, runs and faults, for as long as no lock file was removed under its
\* holder (EvidenceLedger.append under _Lock and _refuse_torn_tail).
THEOREM LedgerImplementsLog == Spec => ImplementsLog
<1>1. Init => Log!Init
  BY LedgerStartsLog DEF Init
<1>2. ToolsInv /\ [Next]_vars => [overtaken' \/ Log!Next]_(Log!vars)
  BY BrokerUsesLedger, LedgerLogs DEF ToolsInv
<1> QED
  BY <1>1, <1>2, ToolsInvariant, PTL DEF Spec, ImplementsLog

\* While no lock file is removed under its holder, the ledger is that log.
THEOREM UnbrokenLedgerIsLog == Spec /\ []~overtaken => Log!Spec
<1>1. [overtaken' \/ Log!Next]_(Log!vars) /\ ~overtaken' => [Log!Next]_(Log!vars)
  OBVIOUS
<1> QED
  BY <1>1, LedgerImplementsLog, PTL DEF ImplementsLog, Log!Spec
=============================================================================
