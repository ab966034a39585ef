-------------------------- MODULE CycleStoreProofs --------------------------
(***************************************************************************)
(* Proofs about the cycle store, for any commit graph, any number of       *)
(* audits and verifiers, and any budget.  The inductive invariant ties a   *)
(* cycle's record to the audits whose receipts it names: the store alone   *)
(* cannot tell a late verdict from a second one, but an audit that was     *)
(* recorded once is never recorded again.                                  *)
(***************************************************************************)
EXTENDS CycleStore, TLAPS

\* What a stored cycle record k of root c owes to the audits aud.
GoodCycle(c, k, aud) ==
  /\ \A row \in k.verdicts :
       /\ aud[row.receipt].stage = "recorded"
       /\ aud[row.receipt].cid = c
       /\ aud[row.receipt].verdict = row.verdict
       /\ aud[row.receipt].rules = row.rules
       /\ row.rules = k.pin
  /\ \A r1, r2 \in k.verdicts :
       \/ r1.round = r2.round /\ r1.sha = r2.sha
       \/ r1.receipt = r2.receipt
       => r1 = r2
  /\ k.status \in {"PASSED", "CONSUMED"} =>
       \E row \in k.verdicts :
         /\ row.round = k.round /\ row.sha = k.active
         /\ row.verdict = "PASS" /\ row.receipt = k.receipt
  /\ k.status = "BLOCKED" /\ ~k.closed => k.round < MaxRounds
  /\ k.receipt # None => /\ aud[k.receipt].stage = "recorded"
                         /\ aud[k.receipt].cid = c

\* What an invocation's memory is worth at each stage.
GoodAudit(audit, known) ==
  /\ audit.stage # "idle" => audit.cid \in known /\ audit.sha \in Commits
  /\ audit.stage \in {"auditing", "minted", "recorded"} => audit.rules \in Rules
  /\ audit.stage \in {"minted", "recorded"} => audit.verdict \in Verdicts
  /\ audit.verdict # None => audit.stage \in {"minted", "recorded", "void"}

\* A consumed receipt passed, and a cycle that still shows it is CONSUMED.
GoodAdmission(a) ==
  admissions[a] > 0 =>
    /\ admissions[a] = 1
    /\ audits[a].stage = "recorded" /\ audits[a].verdict = "PASS"
    /\ cycles[audits[a].cid].receipt = a => cycles[audits[a].cid].status = "CONSUMED"

GoodVerifier(v) == verifying[v] # None => audits[verifying[v]].verdict = "PASS"

CyclesGood     == \A c \in Known : GoodCycle(c, cycles[c], audits)
AuditsGood     == \A a \in Audits : GoodAudit(audits[a], Known)
AdmissionsGood == \A a \in Audits : GoodAdmission(a)
VerifiersGood  == \A v \in Verifiers : GoodVerifier(v)

IInv == TypeOK /\ CyclesGood /\ AuditsGood /\ AdmissionsGood /\ VerifiersGood

-----------------------------------------------------------------------------
(* The record operators: what each transaction stores is a cycle again.      *)

\* A round advanced by one is a cycle record again (open_or_advance).
LEMMA NextRoundType ==
  ASSUME NEW k \in Cycle, NEW sha \in Commits
  PROVE  NextRound(k, sha) \in Cycle
<1>1. k.round + 1 \in Nat
  BY DEF Cycle
<1>2. NextRound(k, sha) = [k EXCEPT !.round = k.round + 1, !.active = sha,
                                    !.status = "OPEN", !.awaiting = TRUE]
  BY DEF NextRound
<1> HIDE DEF NextRound
<1> QED
  BY <1>1, <1>2, "OPEN" \in Statuses DEF Cycle, Statuses

\* So is the record of a new cycle (open_or_advance).
LEMMA FreshCycleType ==
  ASSUME NEW sha \in Commits, NEW head \in Rules \cup {None}
  PROVE  FreshCycle(sha, head) \in Cycle
BY DEF FreshCycle, Cycle, Statuses

\* So is a record handed to a person (escalate).
LEMMA EscalatedType ==
  ASSUME NEW k \in Cycle
  PROVE  Escalated(k) \in Cycle
BY DEF Escalated, Cycle, Statuses

\* So is a record that gained a verdict row (record_verdict).
LEMMA WithVerdictType ==
  ASSUME NEW a \in Audits, NEW k \in Cycle,
         audits[a].rules \in Rules, audits[a].verdict \in Verdicts,
         audits[a].sha \in Commits
  PROVE  WithVerdict(k, a) \in Cycle
<1> DEFINE row == [round |-> k.round, sha |-> audits[a].sha,
                   verdict |-> audits[a].verdict, receipt |-> a,
                   rules |-> audits[a].rules]
<1>1. row \in Row
  BY DEF Row, Cycle
<1>2. StatusAfter(audits[a].verdict, k.round) \in Statuses
  BY DEF StatusAfter, Statuses
<1>3. (k.verdicts \cup {row}) \in SUBSET Row
  BY <1>1 DEF Cycle
<1> HIDE DEF row
<1>4. WithVerdict(k, a) =
        [k EXCEPT !.status = StatusAfter(audits[a].verdict, k.round),
                  !.awaiting = FALSE,
                  !.pin = IF k.pin = None THEN audits[a].rules ELSE k.pin,
                  !.receipt = a,
                  !.verdicts = k.verdicts \cup {row}]
  BY DEF WithVerdict, row, Cycle
<1> QED
  BY <1>2, <1>3, <1>4 DEF Cycle

(* The record operators keep a good cycle good. *)

\* A new round leaves PASSED and BLOCKED, so it owes nothing new.
LEMMA NextRoundGood ==
  ASSUME NEW c, NEW k \in Cycle, NEW aud, NEW sha, GoodCycle(c, k, aud)
  PROVE  GoodCycle(c, NextRound(k, sha), aud)
BY DEF GoodCycle, NextRound, Cycle, Statuses

\* A new cycle has no decision to answer for.
LEMMA FreshCycleGood ==
  ASSUME NEW c, NEW sha, NEW head, NEW aud
  PROVE  GoodCycle(c, FreshCycle(sha, head), aud)
BY DEF GoodCycle, FreshCycle

\* A cycle handed to a person keeps the decisions it had.
LEMMA EscalatedGood ==
  ASSUME NEW c, NEW k \in Cycle, NEW aud, GoodCycle(c, k, aud)
  PROVE  GoodCycle(c, Escalated(k), aud)
BY DEF GoodCycle, Escalated, Cycle, Statuses

\* A cycle stays good while the audits recorded in it stay as they are.
LEMMA GoodCycleFrame ==
  ASSUME NEW c, NEW k \in Cycle, NEW aud, NEW aud2, GoodCycle(c, k, aud),
         \A a \in Audits : aud[a].stage = "recorded" => aud2[a] = aud[a]
  PROVE  GoodCycle(c, k, aud2)
<1>1. \A row \in k.verdicts : row.receipt \in Audits
  BY DEF Cycle, Row
<1> QED
  BY <1>1 DEF GoodCycle, Cycle

-----------------------------------------------------------------------------
(* The two ways a step moves: it stores one cycle, and it moves one audit.   *)

KeepsRecorded == \A a \in Audits : audits[a].stage = "recorded" => audits'[a] = audits[a]

\* A stored cycle is a cycle record (StateStore.cycle).
LEMMA KnownType ==
  ASSUME TypeOK, NEW c \in Known
  PROVE  c \in Commits /\ cycles[c] \in Cycle
BY DEF Known, TypeOK

\* Storing a good record keeps the cycles well typed, known and good.
LEMMA StoreStep ==
  ASSUME TypeOK, CyclesGood, KeepsRecorded,
         NEW cid \in Commits, NEW k \in Cycle, Store(cid, k),
         GoodCycle(cid, k, audits')
  PROVE  /\ cycles' \in [Commits -> Cycle \cup {None}]
         /\ Known \subseteq Known' /\ cid \in Known'
         /\ CyclesGood'
<1>1. cycles' = [cycles EXCEPT ![cid] = k]
  BY DEF Store
<1>2. cycles' \in [Commits -> Cycle \cup {None}]
  BY <1>1 DEF TypeOK
<1>3. k # None
  BY NoneAssumption
<1>4. Known' = Known \cup {cid}
  BY <1>1, <1>3 DEF Known, TypeOK
<1>5. ASSUME NEW c \in Known'
      PROVE  GoodCycle(c, cycles'[c], audits')
  <2>1. CASE c = cid
    BY <2>1, <1>1 DEF TypeOK
  <2>2. CASE c # cid
    <3>1. c \in Known /\ cycles'[c] = cycles[c] /\ cycles[c] \in Cycle
      BY <2>2, <1>1, <1>4 DEF Known, TypeOK
    <3>2. GoodCycle(c, cycles[c], audits)
      BY <3>1 DEF CyclesGood
    <3>3. GoodCycle(c, cycles[c], audits')
      BY <3>1, <3>2, GoodCycleFrame DEF KeepsRecorded
    <3> QED
      BY <3>1, <3>3
  <2> QED
    BY <2>1, <2>2
<1> QED
  BY <1>2, <1>4, <1>5 DEF CyclesGood

\* Cycles left alone stay good.
LEMMA CyclesKept ==
  ASSUME TypeOK, CyclesGood, KeepsRecorded, UNCHANGED cycles
  PROVE  Known' = Known /\ CyclesGood'
<1>1. Known' = Known
  BY DEF Known
<1>2. ASSUME NEW c \in Known
      PROVE  GoodCycle(c, cycles[c], audits')
  BY KnownType, GoodCycleFrame DEF CyclesGood, KeepsRecorded
<1> QED
  BY <1>1, <1>2 DEF CyclesGood

\* Moving an audit that was not recorded, without changing a verdict it has.
LEMMA AuditStep ==
  ASSUME TypeOK, AuditsGood, VerifiersGood, Known \subseteq Known',
         NEW a \in Audits, NEW x \in Audit,
         audits' = [audits EXCEPT ![a] = x], audits[a].stage # "recorded",
         x.verdict = audits[a].verdict \/ audits[a].verdict = None,
         GoodAudit(x, Known'), UNCHANGED verifying
  PROVE  /\ audits' \in [Audits -> Audit]
         /\ KeepsRecorded
         /\ AuditsGood' /\ VerifiersGood'
<1>1. audits' \in [Audits -> Audit]
  BY DEF TypeOK
<1>2. \A b \in Audits : b # a => audits'[b] = audits[b]
  BY DEF TypeOK
<1>3. audits'[a] = x
  BY DEF TypeOK
<1>4. KeepsRecorded
  BY <1>2 DEF KeepsRecorded
<1>5. AuditsGood'
  BY <1>2, <1>3 DEF AuditsGood, GoodAudit
<1>6. ASSUME NEW v \in Verifiers, verifying[v] # None
      PROVE  audits'[verifying[v]].verdict = "PASS"
  <2>1. verifying[v] \in Audits /\ audits[verifying[v]].verdict = "PASS"
    BY <1>6 DEF TypeOK, VerifiersGood, GoodVerifier
  <2>2. "PASS" # None
    BY NoneAssumption DEF Verdicts
  <2> QED
    BY <2>1, <2>2, <1>2, <1>3
<1> QED
  BY <1>1, <1>4, <1>5, <1>6 DEF VerifiersGood, GoodVerifier


\* A stored record either shows no admitted receipt or shows the one it showed,
\* and an admitted cycle stays admitted.
KeepsReceipt(cid, k) ==
  \/ k.receipt = None
  \/ admissions[k.receipt] = 0
  \/ /\ cid \in Known /\ k.receipt = cycles[cid].receipt
     /\ cycles[cid].status = "CONSUMED" => k.status = "CONSUMED"

\* Storing cid keeps what is known of admitted receipts, if the record keeps
\* its receipt and its CONSUMED status or shows a receipt never admitted.
LEMMA AdmissionsStored ==
  ASSUME IInv, KeepsRecorded, UNCHANGED admissions,
         NEW cid \in Commits, NEW k \in Cycle, Store(cid, k), KeepsReceipt(cid, k)
  PROVE  AdmissionsGood'
<1> SUFFICES ASSUME NEW a \in Audits, admissions[a] > 0
             PROVE  /\ admissions[a] = 1
                    /\ audits'[a].stage = "recorded" /\ audits'[a].verdict = "PASS"
                    /\ cycles'[audits'[a].cid].receipt = a =>
                         cycles'[audits'[a].cid].status = "CONSUMED"
  BY DEF AdmissionsGood, GoodAdmission
<1> DEFINE d == audits[a].cid
<1>1. /\ admissions[a] = 1
      /\ audits[a].stage = "recorded" /\ audits[a].verdict = "PASS"
      /\ cycles[d].receipt = a => cycles[d].status = "CONSUMED"
  BY DEF IInv, AdmissionsGood, GoodAdmission
<1>2. audits'[a] = audits[a]
  BY <1>1 DEF KeepsRecorded
<1>3. d \in Commits /\ cycles \in [Commits -> Cycle \cup {None}]
  BY <1>1 DEF IInv, AuditsGood, GoodAudit, Known, TypeOK
<1>4. ASSUME cycles'[d].receipt = a
      PROVE  cycles'[d].status = "CONSUMED"
  <2>1. CASE d = cid
    <3>1. k.receipt = a /\ cycles'[d] = k
      BY <2>1, <1>3, <1>4 DEF Store
    <3>2. a # None
      BY NoneAssumption
    <3> QED
      BY <3>1, <3>2, <2>1, <1>1 DEF KeepsReceipt
  <2>2. CASE d # cid
    BY <2>2, <1>1, <1>3, <1>4 DEF Store
  <2> QED
    BY <2>1, <2>2
<1> QED
  BY <1>1, <1>2, <1>4

-----------------------------------------------------------------------------
(* The three shapes a transaction has, each shown to keep the invariant.     *)

\* A step that only moves an audit.
LEMMA AuditOnly ==
  ASSUME IInv, NEW a \in Audits, NEW x \in Audit,
         audits' = [audits EXCEPT ![a] = x], audits[a].stage # "recorded",
         x.verdict = audits[a].verdict \/ audits[a].verdict = None,
         GoodAudit(x, Known), UNCHANGED <<cycles, verifying, admissions, stops>>
  PROVE  IInv'
<1>1. Known' = Known
  BY DEF Known
<1>2. audits' \in [Audits -> Audit] /\ KeepsRecorded /\ AuditsGood' /\ VerifiersGood'
  <2>1. GoodAudit(x, Known')
    BY <1>1
  <2> QED
    BY <1>1, <2>1, AuditStep DEF IInv
<1>3. CyclesGood'
  BY <1>2, CyclesKept DEF IInv
<1>4. TypeOK'
  BY <1>2 DEF IInv, TypeOK
<1>5. AdmissionsGood'
  BY <1>2 DEF IInv, AdmissionsGood, GoodAdmission, KeepsRecorded
<1> QED
  BY <1>2, <1>3, <1>4, <1>5 DEF IInv

\* A step that stores a cycle and moves an audit.
LEMMA StoreAndAudit ==
  ASSUME IInv, NEW cid \in Commits, NEW k \in Cycle, Store(cid, k),
         KeepsReceipt(cid, k), NEW a \in Audits, NEW x \in Audit,
         audits' = [audits EXCEPT ![a] = x], audits[a].stage # "recorded",
         x.verdict = audits[a].verdict \/ audits[a].verdict = None,
         GoodAudit(x, Known \cup {cid}),
         GoodCycle(cid, k, audits) \/ GoodCycle(cid, k, audits'),
         UNCHANGED <<verifying, admissions, stops>>
  PROVE  IInv'
<1>1. Known' = Known \cup {cid}
  <2>1. k # None
    BY NoneAssumption
  <2> QED
    BY <2>1 DEF IInv, TypeOK, Store, Known
<1>2. audits' \in [Audits -> Audit] /\ KeepsRecorded /\ AuditsGood' /\ VerifiersGood'
  <2>1. GoodAudit(x, Known') /\ Known \subseteq Known'
    BY <1>1
  <2> QED
    BY <2>1, AuditStep DEF IInv
<1>3. GoodCycle(cid, k, audits')
  BY <1>2, GoodCycleFrame DEF KeepsRecorded
<1>4. cycles' \in [Commits -> Cycle \cup {None}] /\ CyclesGood'
  BY <1>2, <1>3, StoreStep DEF IInv
<1>5. AdmissionsGood'
  BY <1>2, AdmissionsStored
<1>6. TypeOK'
  BY <1>2, <1>4 DEF IInv, TypeOK
<1> QED
  BY <1>2, <1>4, <1>5, <1>6 DEF IInv

\* A step that only stores a cycle.
LEMMA StoreOnly ==
  ASSUME IInv, NEW cid \in Commits, NEW k \in Cycle, Store(cid, k),
         KeepsReceipt(cid, k), GoodCycle(cid, k, audits),
         UNCHANGED <<audits, verifying, admissions>>, stops' \in 0..MaxStops
  PROVE  IInv'
<1>1. KeepsRecorded
  BY DEF KeepsRecorded
<1>2. GoodCycle(cid, k, audits')
  OBVIOUS
<1>3. /\ cycles' \in [Commits -> Cycle \cup {None}]
      /\ Known \subseteq Known' /\ CyclesGood'
  BY <1>1, <1>2, StoreStep DEF IInv
<1>4. AdmissionsGood'
  BY <1>1, AdmissionsStored
<1>5. AuditsGood' /\ VerifiersGood'
  BY <1>3 DEF IInv, AuditsGood, GoodAudit, VerifiersGood, GoodVerifier
<1>6. TypeOK'
  BY <1>3 DEF IInv, TypeOK
<1> QED
  BY <1>3, <1>4, <1>5, <1>6 DEF IInv

\* What BeginAudit and EndAudit write is an audit with what its stage owes.
BegunAudit(cid, sha, cycle, head) ==
  [stage |-> "auditing", cid |-> cid, sha |-> sha, round |-> cycle.round,
   pin |-> cycle.pin, rules |-> IF cycle.pin = None THEN head ELSE cycle.pin,
   verdict |-> None]

\* What an audit remembers when its round opens is sound.
LEMMA BegunAuditGood ==
  ASSUME NEW cid \in Commits, NEW sha \in Commits, NEW k \in Cycle,
         NEW head \in Rules, NEW known, cid \in known
  PROVE  /\ BegunAudit(cid, sha, k, head) \in Audit
         /\ GoodAudit(BegunAudit(cid, sha, k, head), known)
         /\ BegunAudit(cid, sha, k, head).verdict = None
BY DEF BegunAudit, GoodAudit, Audit, Stages, Cycle

\* An invocation that has not audited yet carries no verdict, and one past
\* "idle" works on a known cycle.
LEMMA AuditFacts ==
  ASSUME IInv, NEW a \in Audits
  PROVE  /\ audits[a] \in Audit
         /\ audits[a].stage \in {"idle", "proving", "auditing", "locked"} =>
              audits[a].verdict = None
         /\ audits[a].stage # "idle" =>
              /\ audits[a].cid \in Known /\ audits[a].cid \in Commits
              /\ audits[a].sha \in Commits
              /\ cycles[audits[a].cid] \in Cycle
              /\ GoodCycle(audits[a].cid, cycles[audits[a].cid], audits)
BY KnownType DEF IInv, TypeOK, AuditsGood, GoodAudit, CyclesGood, Known

\* What the invariant says of one stored cycle.
LEMMA KnownFacts ==
  ASSUME IInv, NEW c \in Known
  PROVE  /\ c \in Commits /\ cycles[c] \in Cycle
         /\ GoodCycle(c, cycles[c], audits)
BY KnownType DEF IInv, CyclesGood

\* An audit may give up at any stage before its verdict is recorded.
LEMMA EndAuditKeeps ==
  ASSUME IInv, NEW a \in Audits, audits[a].stage \in {"proving", "minted"},
         EndAudit(a), UNCHANGED <<cycles, verifying, admissions, stops>>
  PROVE  IInv'
<1> DEFINE x == [audits[a] EXCEPT !.stage = "void"]
<1>1. x \in Audit /\ x.verdict = audits[a].verdict /\ GoodAudit(x, Known)
  BY AuditFacts DEF Audit, Stages, GoodAudit
<1>2. audits' = [audits EXCEPT ![a] = x]
  BY DEF EndAudit
<1> QED
  BY <1>1, <1>2, AuditOnly

-----------------------------------------------------------------------------
(* Each action keeps the invariant. *)

\* Every branch of open_or_advance keeps the invariant.
LEMMA OpenOrAdvanceKeeps ==
  ASSUME IInv, NEW a \in Audits, NEW sha \in Commits, NEW head \in Rules,
         OpenOrAdvance(a, sha, head)
  PROVE  IInv'
<1>0. audits[a].stage = "idle" /\ audits[a].verdict = None
  BY AuditFacts DEF OpenOrAdvance, ResumeOpenRound, ReadvanceSameSha,
     AdvanceToChild, RefusedByEscalation, OpenCycle
<1>1. CASE ResumeOpenRound(a, sha, head)
  <2>1. PICK cid \in Known : BeginAudit(a, cid, sha, cycles[cid], head)
    BY <1>1 DEF ResumeOpenRound, FirstOf, Standing
  <2>2. audits' = [audits EXCEPT ![a] = BegunAudit(cid, sha, cycles[cid], head)]
    BY <2>1 DEF BeginAudit, BegunAudit
  <2> QED
    BY <1>0, <1>1, <2>2, KnownFacts, BegunAuditGood, AuditOnly DEF ResumeOpenRound
<1>2. CASE ReadvanceSameSha(a, sha, head) \/ AdvanceToChild(a, sha, head)
  <2>1. PICK cid \in Known :
          /\ cycles[cid].status \in {"OPEN", "BLOCKED"}
          /\ Store(cid, NextRound(cycles[cid], sha))
          /\ BeginAudit(a, cid, sha, NextRound(cycles[cid], sha), head)
    BY <1>2 DEF ReadvanceSameSha, AdvanceToChild, FirstOf, Standing, Extended
  <2> DEFINE k == NextRound(cycles[cid], sha)
  <2>2. cid \in Commits /\ k \in Cycle /\ GoodCycle(cid, k, audits)
    BY KnownFacts, NextRoundType, NextRoundGood
  <2>3. KeepsReceipt(cid, k)
    BY <2>1, KnownFacts DEF KeepsReceipt, NextRound, Cycle
  <2>4. audits' = [audits EXCEPT ![a] = BegunAudit(cid, sha, k, head)]
    BY <2>1 DEF BeginAudit, BegunAudit
  <2>5. UNCHANGED <<verifying, admissions, stops>>
    BY <1>2 DEF ReadvanceSameSha, AdvanceToChild
  <2> HIDE DEF k
  <2>6. Store(cid, k)
    BY <2>1 DEF k
  <2>7. /\ BegunAudit(cid, sha, k, head) \in Audit
        /\ GoodAudit(BegunAudit(cid, sha, k, head), Known \cup {cid})
        /\ BegunAudit(cid, sha, k, head).verdict = None
    BY <2>2, BegunAuditGood
  <2> QED
    BY <1>0, <2>2, <2>3, <2>4, <2>5, <2>6, <2>7, StoreAndAudit
<1>3. CASE RefusedByEscalation(a, sha)
  <2>1. PICK cid \in Known : audits' = [audits EXCEPT ![a] = [IdleAudit EXCEPT
                       !.stage = "locked", !.cid = cid, !.sha = sha]]
    BY <1>3 DEF RefusedByEscalation, FirstOf, Extended
  <2> DEFINE x == [IdleAudit EXCEPT !.stage = "locked", !.cid = cid, !.sha = sha]
  <2>2. x \in Audit /\ GoodAudit(x, Known) /\ x.verdict = None
    BY KnownFacts DEF IdleAudit, Audit, Stages, GoodAudit
  <2> QED
    BY <1>0, <1>3, <2>1, <2>2, AuditOnly DEF RefusedByEscalation
<1>4. CASE OpenCycle(a, sha, head)
  <2> DEFINE k == FreshCycle(sha, head)
  <2>1. k \in Cycle /\ GoodCycle(sha, k, audits)
    BY FreshCycleType, FreshCycleGood
  <2>2. KeepsReceipt(sha, k)
    BY DEF KeepsReceipt, FreshCycle
  <2>3. audits' = [audits EXCEPT ![a] = BegunAudit(sha, sha, k, head)]
    BY <1>4 DEF OpenCycle, BeginAudit, BegunAudit
  <2>4. Store(sha, k) /\ UNCHANGED <<verifying, admissions, stops>>
    BY <1>4 DEF OpenCycle
  <2> HIDE DEF k
  <2>5. /\ BegunAudit(sha, sha, k, head) \in Audit
        /\ GoodAudit(BegunAudit(sha, sha, k, head), Known \cup {sha})
        /\ BegunAudit(sha, sha, k, head).verdict = None
    BY <2>1, BegunAuditGood
  <2> QED
    BY <1>0, <2>1, <2>2, <2>3, <2>4, <2>5, StoreAndAudit
<1> QED
  BY <1>1, <1>2, <1>3, <1>4 DEF OpenOrAdvance

\* Reading a cycle outside the lock keeps it.
LEMMA ProveAncestryKeeps ==
  ASSUME IInv, NEW a \in Audits, NEW cid \in Commits, NEW sha \in Commits,
         ProveAncestry(a, cid, sha)
  PROVE  IInv'
<1> DEFINE x == [IdleAudit EXCEPT !.stage = "proving", !.cid = cid, !.sha = sha]
<1>1. x \in Audit /\ GoodAudit(x, Known) /\ x.verdict = None
  BY DEF ProveAncestry, IdleAudit, Audit, Stages, GoodAudit
<1>2. audits[a].stage = "idle" /\ audits[a].verdict = None
  BY AuditFacts DEF ProveAncestry
<1> QED
  BY <1>1, <1>2, AuditOnly DEF ProveAncestry

\* continue_cycle keeps it, however old the copy it was proved against.
LEMMA ContinueCycleKeeps ==
  ASSUME IInv, NEW a \in Audits, NEW head \in Rules, ContinueCycle(a, head)
  PROVE  IInv'
<1> DEFINE cid == audits[a].cid
           sha == audits[a].sha
           n   == NextRound(cycles[cid], sha)
           k   == [n EXCEPT !.reopened = FALSE]
<1>1. /\ audits[a].stage = "proving" /\ audits[a].verdict = None
      /\ cid \in Known /\ cid \in Commits /\ sha \in Commits
      /\ cycles[cid] \in Cycle /\ GoodCycle(cid, cycles[cid], audits)
  BY AuditFacts DEF ContinueCycle
<1>2. n \in Cycle /\ GoodCycle(cid, n, audits)
  BY <1>1, NextRoundType, NextRoundGood
<1>3. /\ Store(cid, k) /\ BeginAudit(a, cid, sha, k, head)
      /\ cycles[cid].status # "CONSUMED"
      /\ UNCHANGED <<verifying, admissions, stops>>
  BY DEF ContinueCycle, CanContinue
<1>4. n.receipt = cycles[cid].receipt
  BY <1>1 DEF NextRound, Cycle
<1> HIDE DEF n
<1>5. k \in Cycle /\ GoodCycle(cid, k, audits) /\ k.receipt = cycles[cid].receipt
  BY <1>2, <1>4 DEF Cycle, GoodCycle
<1> HIDE DEF k
<1>6. KeepsReceipt(cid, k)
  BY <1>1, <1>3, <1>5 DEF KeepsReceipt
<1>7. audits' = [audits EXCEPT ![a] = BegunAudit(cid, sha, k, head)]
  BY <1>3 DEF BeginAudit, BegunAudit
<1>8. /\ BegunAudit(cid, sha, k, head) \in Audit
      /\ GoodAudit(BegunAudit(cid, sha, k, head), Known \cup {cid})
      /\ BegunAudit(cid, sha, k, head).verdict = None
  BY <1>1, <1>5, BegunAuditGood
<1> QED
  BY <1>1, <1>3, <1>5, <1>6, <1>7, <1>8, StoreAndAudit

\* Committing report and receipt keeps it.
LEMMA MintReceiptKeeps ==
  ASSUME IInv, NEW a \in Audits, NEW verdict \in Verdicts, MintReceipt(a, verdict)
  PROVE  IInv'
<1> DEFINE x == [audits[a] EXCEPT !.stage = "minted", !.verdict = verdict]
<1>1. audits[a].stage = "auditing" /\ audits[a].verdict = None
  BY AuditFacts DEF MintReceipt
<1>2. audits[a].rules \in Rules
  BY <1>1 DEF IInv, AuditsGood, GoodAudit
<1>3. x \in Audit /\ GoodAudit(x, Known)
  BY <1>1, <1>2, AuditFacts DEF Audit, Stages, GoodAudit
<1>4. audits' = [audits EXCEPT ![a] = x]
  BY DEF MintReceipt
<1> QED
  BY <1>1, <1>3, <1>4, AuditOnly DEF MintReceipt

\* The step the whole invariant is for: the new row joins the others.
LEMMA RecordVerdictKeeps ==
  ASSUME IInv, NEW a \in Audits, RecordVerdict(a)
  PROVE  IInv'
<1> DEFINE cid == audits[a].cid
           x   == [audits[a] EXCEPT !.stage = "recorded"]
           new == [round |-> cycles[cid].round, sha |-> audits[a].sha,
                   verdict |-> audits[a].verdict, receipt |-> a,
                   rules |-> audits[a].rules]
           k   == WithVerdict(cycles[cid], a)
<1>1. /\ audits[a].stage = "minted" /\ audits[a] \in Audit
      /\ audits[a].sha \in Commits /\ audits[a].rules \in Rules
      /\ audits[a].verdict \in Verdicts
      /\ cid \in Known /\ cid \in Commits
      /\ cycles[cid] \in Cycle /\ GoodCycle(cid, cycles[cid], audits)
  BY AuditFacts DEF RecordVerdict, IInv, AuditsGood, GoodAudit
<1>2. /\ Recordable(cycles[cid], audits[a]) /\ Store(cid, k)
      /\ audits' = [audits EXCEPT ![a] = x]
      /\ UNCHANGED <<verifying, admissions, stops>>
  BY DEF RecordVerdict
<1>3. k \in Cycle
  BY <1>1, WithVerdictType
<1>4. x \in Audit /\ x.verdict = audits[a].verdict /\ GoodAudit(x, Known \cup {cid})
  BY <1>1, AuditFacts DEF Audit, Stages, GoodAudit
<1>5. admissions[a] = 0
  BY <1>1 DEF IInv, TypeOK, AdmissionsGood, GoodAdmission
<1>6. /\ k.verdicts = cycles[cid].verdicts \cup {new}
      /\ k.pin = new.rules /\ k.receipt = a /\ k.round = cycles[cid].round
      /\ k.active = cycles[cid].active /\ k.closed = cycles[cid].closed
      /\ k.status = StatusAfter(audits[a].verdict, cycles[cid].round)
      /\ cycles[cid].pin \in {None, new.rules}
  BY <1>1, <1>2 DEF WithVerdict, Recordable, Cycle
<1>7. KeepsReceipt(cid, k)
  BY <1>5, <1>6 DEF KeepsReceipt
<1>8. audits'[a] = x /\ \A b \in Audits : b # a => audits'[b] = audits[b]
  BY <1>2 DEF IInv, TypeOK
<1>9. \A row \in cycles[cid].verdicts :
        /\ row.receipt \in Audits /\ row.receipt # a
        /\ ~(row.round = new.round /\ row.sha = new.sha)
        /\ row.rules \in Rules
  BY <1>1, <1>2 DEF GoodCycle, Recordable, RecordedVerdict, Cycle, Row
<1>10. \A row \in cycles[cid].verdicts :
        /\ audits'[row.receipt].stage = "recorded"
        /\ audits'[row.receipt].cid = cid
        /\ audits'[row.receipt].verdict = row.verdict
        /\ audits'[row.receipt].rules = row.rules
        /\ row.rules = k.pin
  <2>1. ASSUME NEW row \in cycles[cid].verdicts
        PROVE  row.rules = cycles[cid].pin /\ cycles[cid].pin # None
    BY <1>1, <1>9, NoneAssumption DEF GoodCycle
  <2> QED
    BY <1>1, <1>6, <1>8, <1>9, <2>1 DEF GoodCycle
<1>11. /\ audits'[a].stage = "recorded" /\ audits'[a].cid = cid
       /\ audits'[a].verdict = new.verdict /\ audits'[a].rules = new.rules
  BY <1>1, <1>8 DEF Audit
<1>12. audits[a].verdict # "PASS" => k.status \in {"BLOCKED", "ESCALATED"}
  BY <1>1, <1>6 DEF StatusAfter, Verdicts
<1>13. k.status = "BLOCKED" => k.round < MaxRounds
  BY <1>1, <1>6, BudgetAssumption DEF StatusAfter, Cycle
<1>14. new.sha = k.active /\ new.round = k.round /\ new.receipt = a
       /\ new.verdict = audits[a].verdict
  BY <1>2, <1>6 DEF Recordable
<1> HIDE DEF new, k, x
<1>15. GoodCycle(cid, k, audits')
  <2>1. \A r1, r2 \in k.verdicts :
          (r1.round = r2.round /\ r1.sha = r2.sha) \/ r1.receipt = r2.receipt => r1 = r2
    BY <1>1, <1>6, <1>9, <1>14 DEF GoodCycle
  <2>2. k.status \in {"PASSED", "CONSUMED"} =>
          \E row \in k.verdicts :
            /\ row.round = k.round /\ row.sha = k.active
            /\ row.verdict = "PASS" /\ row.receipt = k.receipt
    BY <1>6, <1>12, <1>14
  <2> QED
    BY <1>6, <1>10, <1>11, <1>13, <1>14, <2>1, <2>2 DEF GoodCycle
<1> QED
  BY <1>1, <1>2, <1>3, <1>4, <1>7, <1>15, StoreAndAudit

\* What a build-level stop stores, whether or not the commit has a cycle.
LEMMA BuildEscalatedGood ==
  ASSUME IInv, NEW sha \in Commits, NEW round \in Nat, BuildEscalatable(sha)
  PROVE  /\ BuildEscalated(sha, round) \in Cycle
         /\ GoodCycle(sha, BuildEscalated(sha, round), audits)
         /\ KeepsReceipt(sha, BuildEscalated(sha, round))
<1> DEFINE base == IF sha \in Known THEN cycles[sha] ELSE FreshCycle(sha, None)
           e    == Escalated(base)
           k    == [e EXCEPT !.round = round]
<1>1. base \in Cycle /\ GoodCycle(sha, base, audits)
  BY KnownFacts, FreshCycleType, FreshCycleGood
<1>2. base.receipt = None \/
        (sha \in Known /\ base.receipt = cycles[sha].receipt
         /\ cycles[sha].status # "CONSUMED")
  BY DEF BuildEscalatable, FreshCycle
<1> HIDE DEF base
<1>3. e \in Cycle /\ GoodCycle(sha, e, audits)
  BY <1>1, EscalatedType, EscalatedGood
<1>4. e.receipt = base.receipt /\ e.status = "ESCALATED"
  BY <1>1 DEF Escalated, Cycle
<1> HIDE DEF e
<1>5. k \in Cycle /\ k.receipt = base.receipt /\ GoodCycle(sha, k, audits)
  BY <1>3, <1>4 DEF Cycle, GoodCycle
<1>6. BuildEscalated(sha, round) = k
  BY DEF BuildEscalated, e, base
<1> HIDE DEF k
<1> QED
  BY <1>2, <1>5, <1>6 DEF KeepsReceipt

\* record_build_escalation keeps it.
LEMMA RecordBuildEscalationKeeps ==
  ASSUME IInv, NEW sha \in Commits, NEW round \in 1..MaxRounds,
         RecordBuildEscalation(sha, round)
  PROVE  IInv'
<1>1. stops' \in 0..MaxStops
  BY BudgetAssumption DEF RecordBuildEscalation, Stop, IInv, TypeOK
<1>2. round \in Nat
  BY BudgetAssumption
<1> QED
  BY <1>1, <1>2, BuildEscalatedGood, StoreOnly DEF RecordBuildEscalation

\* So does the same call made for a refused commit (_record_lock).
LEMMA RecordLockKeeps ==
  ASSUME IInv, NEW a \in Audits, RecordLock(a)
  PROVE  IInv'
<1> DEFINE sha == audits[a].sha
           x   == [audits[a] EXCEPT !.stage = "void"]
<1>1. /\ audits[a].stage = "locked" /\ sha \in Commits
      /\ audits' = [audits EXCEPT ![a] = x]
      /\ UNCHANGED <<verifying, admissions, stops>>
  BY AuditFacts DEF RecordLock, EndAudit
<1>2. x \in Audit /\ x.verdict = audits[a].verdict /\ GoodAudit(x, Known)
  BY <1>1, AuditFacts DEF Audit, Stages, GoodAudit
<1>3. GoodAudit(x, Known \cup {sha})
  BY <1>2 DEF GoodAudit
<1> HIDE DEF x
<1>4. CASE BuildEscalatable(sha)
  <2>1. Store(sha, BuildEscalated(sha, 1))
    BY <1>4 DEF RecordLock
  <2> QED
    BY <1>1, <1>2, <1>3, <1>4, <2>1, BuildEscalatedGood, StoreAndAudit
<1>5. CASE ~BuildEscalatable(sha)
  BY <1>1, <1>2, <1>5, AuditOnly DEF RecordLock
<1> QED
  BY <1>4, <1>5

\* escalate keeps it.
LEMMA EscalateKeeps ==
  ASSUME IInv, NEW cid \in Commits, Escalate(cid)
  PROVE  IInv'
<1>1. stops' \in 0..MaxStops
  BY BudgetAssumption DEF Escalate, Stop, IInv, TypeOK
<1>2. cid \in Known /\ cycles[cid].status # "CONSUMED"
  BY DEF Escalate
<1>3. Escalated(cycles[cid]) \in Cycle /\ GoodCycle(cid, Escalated(cycles[cid]), audits)
  BY <1>2, KnownFacts, EscalatedType, EscalatedGood
<1>4. KeepsReceipt(cid, Escalated(cycles[cid]))
  BY <1>2, KnownFacts DEF KeepsReceipt, Escalated, Cycle
<1> QED
  BY <1>1, <1>3, <1>4, StoreOnly DEF Escalate

\* Both rulings of resolve_escalation keep it.
LEMMA RulingKeeps ==
  ASSUME IInv, NEW cid \in Commits, Reopen(cid) \/ Close(cid)
  PROVE  IInv'
<1>1. cid \in Known /\ cycles[cid].status = "ESCALATED"
  BY DEF Reopen, Close
<1>2. PICK k \in Cycle :
        /\ Store(cid, k) /\ k.receipt = cycles[cid].receipt
        /\ GoodCycle(cid, k, audits)
  <2>1. cycles[cid] \in Cycle /\ GoodCycle(cid, cycles[cid], audits)
    BY <1>1, KnownFacts
  <2>2. CASE Reopen(cid)
    <3> DEFINE k == [cycles[cid] EXCEPT !.status = "OPEN", !.awaiting = TRUE,
                                        !.reopened = TRUE]
    <3>1. /\ k \in Cycle /\ k.receipt = cycles[cid].receipt
          /\ GoodCycle(cid, k, audits)
      BY <2>1 DEF Cycle, Statuses, GoodCycle
    <3> QED
      BY <2>2, <3>1 DEF Reopen
  <2>3. CASE Close(cid)
    <3> DEFINE k == [cycles[cid] EXCEPT !.status = "BLOCKED", !.closed = TRUE,
                                        !.reopened = FALSE]
    <3>1. /\ k \in Cycle /\ k.receipt = cycles[cid].receipt
          /\ GoodCycle(cid, k, audits)
      BY <2>1 DEF Cycle, Statuses, GoodCycle
    <3> QED
      BY <2>3, <3>1 DEF Close
  <2> QED
    BY <2>2, <2>3
<1>3. KeepsReceipt(cid, k)
  BY <1>1, <1>2 DEF KeepsReceipt
<1>4. stops' \in 0..MaxStops /\ UNCHANGED <<audits, verifying, admissions>>
  BY DEF Reopen, Close, IInv, TypeOK
<1> QED
  BY <1>2, <1>3, <1>4, StoreOnly

\* A verifier takes up or drops a receipt; nothing else moves.
LEMMA VerifierKeeps ==
  ASSUME IInv, NEW v \in Verifiers,
         (\E a \in Audits : Verify(v, a)) \/ AdmissionRefused(v)
  PROVE  IInv'
<1>1. UNCHANGED <<cycles, audits, admissions, stops>>
  BY DEF Verify, AdmissionRefused
<1>2. verifying' \in [Verifiers -> Audits \cup {None}] /\ VerifiersGood'
  <2>1. PICK r \in Audits \cup {None} :
          /\ verifying' = [verifying EXCEPT ![v] = r]
          /\ r # None => audits[r].verdict = "PASS"
    BY DEF Verify, AdmissionRefused
  <2> QED
    BY <1>1, <2>1 DEF IInv, TypeOK, VerifiersGood, GoodVerifier
<1> QED
  BY <1>1, <1>2 DEF IInv, TypeOK, CyclesGood, AuditsGood, AdmissionsGood,
     GoodAdmission, Known

\* Consuming a receipt keeps it (StateStore.admit).
LEMMA AdmitKeeps ==
  ASSUME IInv, NEW v \in Verifiers, Admit(v)
  PROVE  IInv'
<1> DEFINE a   == verifying[v]
           cid == audits[a].cid
           k   == [cycles[cid] EXCEPT !.status = "CONSUMED",
                                      !.consumed = @ \cup {a}]
<1>1. /\ a \in Audits /\ audits[a].verdict = "PASS" /\ "PASS" # None
      /\ Admissible(cycles[cid], a) /\ Store(cid, k)
      /\ verifying' = [verifying EXCEPT ![v] = None]
      /\ admissions' = [admissions EXCEPT ![a] = @ + 1]
      /\ UNCHANGED <<audits, stops>>
  BY NoneAssumption DEF Admit, IInv, TypeOK, VerifiersGood, GoodVerifier, Verdicts
<1>2. audits[a].stage # "idle"
  BY <1>1 DEF IInv, AuditsGood, GoodAudit
<1>3. /\ cid \in Known /\ cid \in Commits /\ cycles[cid] \in Cycle
      /\ GoodCycle(cid, cycles[cid], audits)
  BY <1>1, <1>2, AuditFacts
<1>4. /\ cycles[cid].status = "PASSED" /\ cycles[cid].receipt = a /\ a # None
      /\ audits[a].stage = "recorded"
  BY <1>1, <1>3, NoneAssumption DEF Admissible, GoodCycle
<1>5. admissions[a] = 0 /\ admissions'[a] = 1
  BY <1>1, <1>4 DEF IInv, TypeOK, AdmissionsGood, GoodAdmission
<1>6. /\ k \in Cycle /\ k.receipt = a /\ k.status = "CONSUMED"
      /\ GoodCycle(cid, k, audits)
  BY <1>1, <1>3, <1>4 DEF Cycle, Statuses, GoodCycle
<1> HIDE DEF k
<1>7. KeepsRecorded /\ GoodCycle(cid, k, audits')
  BY <1>1, <1>6 DEF KeepsRecorded
<1>8. /\ cycles' \in [Commits -> Cycle \cup {None}]
      /\ Known \subseteq Known' /\ CyclesGood'
  BY <1>1, <1>3, <1>6, <1>7, StoreStep DEF IInv
<1>9. AdmissionsGood'
  <2> SUFFICES ASSUME NEW b \in Audits, admissions'[b] > 0
               PROVE  /\ admissions'[b] = 1
                      /\ audits[b].stage = "recorded" /\ audits[b].verdict = "PASS"
                      /\ cycles'[audits[b].cid].receipt = b =>
                           cycles'[audits[b].cid].status = "CONSUMED"
    BY <1>1 DEF AdmissionsGood, GoodAdmission
  <2>1. CASE b = a
    BY <2>1, <1>1, <1>3, <1>4, <1>5, <1>6 DEF Store, IInv, TypeOK
  <2>2. CASE b # a
    <3>1. /\ admissions[b] = 1 /\ admissions'[b] = 1
          /\ audits[b].stage = "recorded" /\ audits[b].verdict = "PASS"
          /\ cycles[audits[b].cid].receipt = b =>
               cycles[audits[b].cid].status = "CONSUMED"
      BY <2>2, <1>1 DEF IInv, TypeOK, AdmissionsGood, GoodAdmission
    <3>2. audits[b].cid \in Commits
      BY <3>1, AuditFacts
    <3>3. CASE audits[b].cid = cid
      BY <2>2, <3>1, <3>3, <1>1, <1>3, <1>6 DEF Store, IInv, TypeOK
    <3>4. CASE audits[b].cid # cid
      BY <3>1, <3>2, <3>4, <1>1 DEF Store, IInv, TypeOK
    <3> QED
      BY <3>1, <3>3, <3>4
  <2> QED
    BY <2>1, <2>2
<1>10. AuditsGood' /\ VerifiersGood'
  <2>1. AuditsGood'
    BY <1>1, <1>8 DEF IInv, AuditsGood, GoodAudit
  <2>2. VerifiersGood'
    BY <1>1 DEF IInv, TypeOK, VerifiersGood, GoodVerifier
  <2> QED
    BY <2>1, <2>2
<1>11. TypeOK'
  BY <1>1, <1>8 DEF IInv, TypeOK
<1> QED
  BY <1>8, <1>9, <1>10, <1>11 DEF IInv

-----------------------------------------------------------------------------
(* The theorems. *)

\* The invariant holds of the empty store and of every step.
LEMMA InitIInv == Init => IInv
<1> SUFFICES ASSUME Init PROVE IInv
  OBVIOUS
<1>1. Known = {}
  BY DEF Init, Known
<1>2. IdleAudit \in Audit
  BY DEF IdleAudit, Audit, Stages
<1>3. TypeOK
  BY <1>2, BudgetAssumption DEF Init, TypeOK
<1>4. AuditsGood
  BY DEF Init, AuditsGood, GoodAudit, IdleAudit
<1> QED
  BY <1>1, <1>3, <1>4 DEF Init, IInv, CyclesGood, AdmissionsGood, GoodAdmission,
     VerifiersGood, GoodVerifier

\* Every step of the store keeps the invariant.
LEMMA NextIInv == IInv /\ [Next]_vars => IInv'
<1> SUFFICES ASSUME IInv, [Next]_vars PROVE IInv'
  OBVIOUS
<1>1. ASSUME NEW a \in Audits, NEW sha \in Commits, NEW head \in Rules,
             OpenOrAdvance(a, sha, head)
      PROVE  IInv'
  BY <1>1, OpenOrAdvanceKeeps
<1>2. ASSUME NEW a \in Audits, NEW cid \in Commits, NEW sha \in Commits,
             ProveAncestry(a, cid, sha)
      PROVE  IInv'
  BY <1>2, ProveAncestryKeeps
<1>3. ASSUME NEW a \in Audits, NEW head \in Rules, ContinueCycle(a, head)
      PROVE  IInv'
  BY <1>3, ContinueCycleKeeps
<1>4. ASSUME NEW a \in Audits, NEW verdict \in Verdicts, MintReceipt(a, verdict)
      PROVE  IInv'
  BY <1>4, MintReceiptKeeps
<1>5. ASSUME NEW a \in Audits, ContinuationRefused(a) \/ VerdictNotRecorded(a)
      PROVE  IInv'
  BY <1>5, EndAuditKeeps DEF ContinuationRefused, VerdictNotRecorded
<1>6. ASSUME NEW a \in Audits, RecordLock(a) \/ RecordVerdict(a)
      PROVE  IInv'
  BY <1>6, RecordLockKeeps, RecordVerdictKeeps
<1>7. ASSUME NEW cid \in Commits, Escalate(cid) \/ Reopen(cid) \/ Close(cid)
      PROVE  IInv'
  BY <1>7, EscalateKeeps, RulingKeeps
<1>8. ASSUME NEW sha \in Commits, NEW round \in 1..MaxRounds,
             RecordBuildEscalation(sha, round)
      PROVE  IInv'
  BY <1>8, RecordBuildEscalationKeeps
<1>9. ASSUME NEW v \in Verifiers,
             (\E a \in Audits : Verify(v, a)) \/ Admit(v) \/ AdmissionRefused(v)
      PROVE  IInv'
  BY <1>9, AdmitKeeps, VerifierKeeps
<1>10. CASE UNCHANGED vars
  BY <1>10 DEF vars, IInv, TypeOK, CyclesGood, AuditsGood, AdmissionsGood,
     GoodAdmission, VerifiersGood, GoodVerifier, Known
<1> QED
  BY <1>1, <1>2, <1>3, <1>4, <1>5, <1>6, <1>7, <1>8, <1>9, <1>10 DEF Next

\* The invariant the theorems below follow from: what every stored cycle,
\* audit, admission and verifier of StateStore owes to the others.
THEOREM StoreInvariant == Spec => []IInv
BY InitIInv, NextIInv, PTL DEF Spec

\* Every record the store can hold, and every audit's memory, is well typed.
THEOREM TypeCorrect == Spec => []TypeOK
<1>1. IInv => TypeOK
  BY DEF IInv
<1> QED
  BY <1>1, StoreInvariant, PTL

\* A receipt is admitted at most once, and only a PASS (StateStore.admit).
THEOREM AdmissionOnce == Spec => []AdmittedOnce
<1>1. IInv => AdmittedOnce
  BY DEF IInv, AdmissionsGood, GoodAdmission, AdmittedOnce
<1> QED
  BY <1>1, StoreInvariant, PTL

\* PASSED and CONSUMED rest on a PASS for the round and commit the cycle is at.
THEOREM PassBacked == Spec => []PassIsBacked
<1>1. IInv => PassIsBacked
  BY DEF IInv, CyclesGood, GoodCycle, PassIsBacked
<1> QED
  BY <1>1, StoreInvariant, PTL

\* All decisions of a cycle were reached under the rules it is pinned to.
THEOREM OneStandard == Spec => []OneStandardPerCycle
<1>1. IInv => OneStandardPerCycle
  BY DEF IInv, CyclesGood, GoodCycle, OneStandardPerCycle
<1> QED
  BY <1>1, StoreInvariant, PTL

\* No round of a commit is decided twice and no audit is recorded twice.
THEOREM OneDecision == Spec => []OneDecisionPerRound
<1>1. IInv => OneDecisionPerRound
  BY DEF IInv, CyclesGood, GoodCycle, OneDecisionPerRound
<1> QED
  BY <1>1, StoreInvariant, PTL

\* A cycle whose budget is spent is not left waiting for a revision.
THEOREM SpentBudget == Spec => []SpentBudgetEscalates
<1>1. IInv => SpentBudgetEscalates
  BY DEF IInv, CyclesGood, GoodCycle, SpentBudgetEscalates
<1> QED
  BY <1>1, StoreInvariant, PTL

-----------------------------------------------------------------------------
(* What a step may do to one cycle, by the reason it may. *)

\* An audit round, a build stop or a late verdict moves only an undecided
\* record; a decided one is moved by a ruling, an admission or a restart.
Moved(c) ==
  LET k == cycles[c]  n == cycles'[c] IN
  \/ n = k
  \/ k.status \in {"OPEN", "BLOCKED"}
  \/ Restarted(c)
  \/ k.status = "ESCALATED" /\ \/ n.status = "ESCALATED"
                               \/ n.status = "OPEN" /\ n.reopened
                               \/ n.status = "BLOCKED" /\ n.closed
  \/ k.status = "ESCALATED" /\ ~RecordedVerdict(k, k.round, k.active)
  \/ /\ k.status = "PASSED" /\ n.status = "CONSUMED"
     /\ n.verdicts = k.verdicts /\ n.receipt = k.receipt

\* A transaction on one cycle leaves every other record as it was.
LEMMA StoreElsewhere ==
  ASSUME IInv, NEW c \in Known, NEW cid \in Commits, NEW k, Store(cid, k)
  PROVE  IF c = cid THEN cycles'[c] = k ELSE cycles'[c] = cycles[c]
BY KnownFacts DEF Store, IInv, TypeOK

\* What one step can do to the record of one cycle.
LEMMA StepMoves ==
  ASSUME IInv, [Next]_vars, NEW c \in Known
  PROVE  Moved(c)
<1>0. /\ c \in Commits /\ cycles[c] \in Cycle
      /\ GoodCycle(c, cycles[c], audits)
  BY KnownFacts
<1>1. ASSUME NEW a \in Audits, NEW sha \in Commits, NEW head \in Rules,
             OpenOrAdvance(a, sha, head)
      PROVE  Moved(c)
  <2>1. CASE OpenCycle(a, sha, head)
    <3>1. IF c = sha THEN cycles'[c] = FreshCycle(sha, head)
                     ELSE cycles'[c] = cycles[c]
      BY <2>1, StoreElsewhere DEF OpenCycle
    <3> QED
      BY <3>1 DEF Moved, Restarted, FreshCycle
  <2>2. CASE ReadvanceSameSha(a, sha, head) \/ AdvanceToChild(a, sha, head)
    <3>1. PICK cid \in Known :
            /\ cycles[cid].status \in {"OPEN", "BLOCKED"}
            /\ Store(cid, NextRound(cycles[cid], sha))
      BY <2>2 DEF ReadvanceSameSha, AdvanceToChild, FirstOf, Standing, Extended
    <3> QED
      BY <3>1, StoreElsewhere, KnownFacts DEF Moved
  <2>3. CASE UNCHANGED cycles
    BY <2>3 DEF Moved
  <2> QED
    BY <1>1, <2>1, <2>2, <2>3 DEF OpenOrAdvance, ResumeOpenRound, RefusedByEscalation
<1>2. ASSUME NEW a \in Audits, NEW head \in Rules, ContinueCycle(a, head)
      PROVE  Moved(c)
  <2>1. /\ audits[a].cid \in Commits
        /\ cycles[audits[a].cid].status \in {"OPEN", "BLOCKED"}
    BY <1>2, AuditFacts DEF ContinueCycle, CanContinue
  <2>2. PICK k : Store(audits[a].cid, k)
    BY <1>2 DEF ContinueCycle
  <2> QED
    BY <2>1, <2>2, StoreElsewhere DEF Moved
<1>3. ASSUME NEW a \in Audits, RecordVerdict(a)
      PROVE  Moved(c)
  <2> DEFINE cid == audits[a].cid
  <2>1. cid \in Commits /\ cycles[cid] \in Cycle /\ GoodCycle(cid, cycles[cid], audits)
    BY <1>3, AuditFacts DEF RecordVerdict
  <2>2. /\ ~RecordedVerdict(cycles[cid], cycles[cid].round, cycles[cid].active)
        /\ cycles[cid].status # "CONSUMED"
    BY <1>3 DEF RecordVerdict, Recordable
  <2>3. cycles[cid].status # "PASSED"
    BY <2>1, <2>2 DEF GoodCycle, RecordedVerdict
  <2>4. cycles[cid].status \in Statuses
    BY <2>1 DEF Cycle
  <2>5. CASE c = cid
    BY <2>2, <2>3, <2>4, <2>5 DEF Moved, Statuses
  <2>6. CASE c # cid
    BY <1>3, <2>1, <2>6, StoreElsewhere DEF RecordVerdict, Moved
  <2> QED
    BY <2>5, <2>6
<1>4. ASSUME NEW sha \in Commits, NEW round, BuildEscalatable(sha),
             Store(sha, BuildEscalated(sha, round))
      PROVE  Moved(c)
  <2>1. CASE c = sha
    <3>1. /\ cycles[c].status \in {"OPEN", "BLOCKED", "ESCALATED"}
      BY <1>0, <1>4, <2>1 DEF BuildEscalatable, Cycle, Statuses
    <3>2. cycles'[c] = BuildEscalated(c, round)
      BY <1>4, <2>1, StoreElsewhere
    <3>3. BuildEscalated(c, round) = [Escalated(cycles[c]) EXCEPT !.round = round]
      BY DEF BuildEscalated
    <3>4. cycles'[c].status = "ESCALATED"
      BY <1>0, <3>2, <3>3 DEF Escalated, Cycle
    <3> QED
      BY <3>1, <3>4 DEF Moved
  <2>2. CASE c # sha
    BY <1>4, <2>2, StoreElsewhere DEF Moved
  <2> QED
    BY <2>1, <2>2
<1>5. ASSUME NEW cid \in Commits, Escalate(cid) \/ Reopen(cid) \/ Close(cid)
      PROVE  Moved(c)
  <2>1. CASE Escalate(cid)
    <3>1. IF c = cid THEN cycles'[c] = Escalated(cycles[cid])
                     ELSE cycles'[c] = cycles[c]
      BY <2>1, StoreElsewhere DEF Escalate
    <3> QED
      BY <1>0, <2>1, <3>1 DEF Escalate, Moved, Escalated, Cycle
  <2>2. CASE Reopen(cid)
    <3>1. IF c = cid THEN cycles'[c] = [cycles[cid] EXCEPT
                            !.status = "OPEN", !.awaiting = TRUE, !.reopened = TRUE]
                     ELSE cycles'[c] = cycles[c]
      BY <2>2, StoreElsewhere DEF Reopen
    <3> QED
      BY <1>0, <2>2, <3>1 DEF Reopen, Moved, Cycle
  <2>3. CASE Close(cid)
    <3>1. IF c = cid THEN cycles'[c] = [cycles[cid] EXCEPT
                            !.status = "BLOCKED", !.closed = TRUE, !.reopened = FALSE]
                     ELSE cycles'[c] = cycles[c]
      BY <2>3, StoreElsewhere DEF Close
    <3> QED
      BY <1>0, <2>3, <3>1 DEF Close, Moved, Cycle
  <2> QED
    BY <1>5, <2>1, <2>2, <2>3
<1>6. ASSUME NEW v \in Verifiers, Admit(v)
      PROVE  Moved(c)
  <2> DEFINE cid == audits[verifying[v]].cid
  <2>1. verifying[v] \in Audits /\ audits[verifying[v]].stage # "idle"
    BY <1>6, NoneAssumption
    DEF Admit, IInv, TypeOK, VerifiersGood, GoodVerifier, AuditsGood, GoodAudit, Verdicts
  <2>2. cid \in Commits /\ cycles[cid].status = "PASSED"
    BY <1>6, <2>1, AuditFacts DEF Admit, Admissible
  <2>3. IF c = cid
        THEN cycles'[c] = [cycles[cid] EXCEPT !.status = "CONSUMED",
                                              !.consumed = @ \cup {verifying[v]}]
        ELSE cycles'[c] = cycles[c]
    BY <1>6, <2>2, StoreElsewhere DEF Admit
  <2>4. CASE c = cid
    <3>1. /\ cycles'[c].status = "CONSUMED"
          /\ cycles'[c].verdicts = cycles[c].verdicts
          /\ cycles'[c].receipt = cycles[c].receipt
      BY <1>0, <2>3, <2>4 DEF Cycle
    <3> QED
      BY <2>2, <2>4, <3>1 DEF Moved
  <2>5. CASE c # cid
    BY <2>3, <2>5 DEF Moved
  <2> QED
    BY <2>4, <2>5
<1>7. CASE UNCHANGED cycles
  BY <1>7 DEF Moved
<1>8. CASE Next
  <2>1. CASE \E a \in Audits : RecordLock(a)
    <3>1. PICK a \in Audits : RecordLock(a)
      BY <2>1
    <3>2. audits[a].sha \in Commits
      BY <3>1, AuditFacts DEF RecordLock
    <3> QED
      BY <3>1, <3>2, <1>4, <1>7 DEF RecordLock
  <2>2. CASE \E sha \in Commits, round \in 1..MaxRounds : RecordBuildEscalation(sha, round)
    BY <2>2, <1>4 DEF RecordBuildEscalation
  <2>3. CASE \/ \E a \in Audits, cid \in Commits, sha \in Commits : ProveAncestry(a, cid, sha)
             \/ \E a \in Audits, verdict \in Verdicts : MintReceipt(a, verdict)
             \/ \E a \in Audits : ContinuationRefused(a) \/ VerdictNotRecorded(a)
             \/ \E v \in Verifiers, a \in Audits : Verify(v, a)
             \/ \E v \in Verifiers : AdmissionRefused(v)
    BY <2>3, <1>7 DEF ProveAncestry, MintReceipt, ContinuationRefused,
       VerdictNotRecorded, Verify, AdmissionRefused
  <2> QED
    BY <1>1, <1>2, <1>3, <1>5, <1>6, <1>8, <2>1, <2>2, <2>3 DEF Next
<1> QED
  BY <1>7, <1>8 DEF vars

\* A PASS and an admission outlive every supervisor, late audit and build stop.
THEOREM PassIsFinal == Spec => PassStands
<1> DEFINE Stands(c) ==
      cycles[c].status \in {"PASSED", "CONSUMED"} /\ ~Restarted(c) =>
        /\ cycles'[c].status \in {cycles[c].status, "CONSUMED"}
        /\ cycles'[c].verdicts = cycles[c].verdicts
        /\ cycles'[c].receipt = cycles[c].receipt
<1>1. IInv /\ [Next]_vars => [\A c \in Known : Stands(c)]_vars
  BY StepMoves DEF Moved
<1> QED
  BY <1>1, StoreInvariant, PTL DEF Spec, PassStands

\* A decision that rests on a verdict leaves a person's hands by a ruling only.
THEOREM RulingIsRequired == Spec => RulingRequired
<1> DEFINE Ruled(c) ==
      /\ cycles[c].status = "ESCALATED"
      /\ RecordedVerdict(cycles[c], cycles[c].round, cycles[c].active)
      /\ ~Restarted(c)
      => \/ cycles'[c].status = "ESCALATED"
         \/ cycles'[c].status = "OPEN" /\ cycles'[c].reopened
         \/ cycles'[c].status = "BLOCKED" /\ cycles'[c].closed
<1>1. IInv /\ [Next]_vars => [\A c \in Known : Ruled(c)]_vars
  BY StepMoves DEF Moved
<1> QED
  BY <1>1, StoreInvariant, PTL DEF Spec, RulingRequired

-----------------------------------------------------------------------------
(* What the findings leave true: the doors a record can be left by. *)

\* An audit of the root commit stored a new cycle in the place of this one.
Reaudited(c) == \E a \in Audits, head \in Rules : OpenCycle(a, c, head)

\* A further round was opened in this cycle: by a build revision, by a child of
\* its active commit, or by the same commit again.
RoundOpened(c) ==
  \E a \in Audits, head \in Rules :
    \/ audits[a].cid = c /\ ContinueCycle(a, head)
    \/ \E sha \in Commits :
         \/ c \in FirstOf(Extended(sha)) /\ AdvanceToChild(a, sha, head)
         \/ c \in FirstOf(Standing(sha)) /\ ReadvanceSameSha(a, sha, head)

\* An audit that had begun earlier recorded its verdict in this cycle.
VerdictLanded(c) == \E a \in Audits : audits[a].cid = c /\ RecordVerdict(a)

\* The doors a record can be left by, and what each does to its decisions and its
\* round.
Left(c) ==
  LET k == cycles[c]  n == cycles'[c] IN
  \/ n = k
  \/ Reaudited(c) /\ n.verdicts = {}
  \/ RoundOpened(c) /\ n.verdicts = k.verdicts /\ n.round = k.round + 1
  \/ n.status = "ESCALATED" /\ n.verdicts = k.verdicts
  \/ /\ k.status \in {"ESCALATED", "PASSED"}
     /\ n.verdicts = k.verdicts /\ n.round = k.round
     /\ n.status = "OPEN" => n.reopened
  \/ /\ VerdictLanded(c) /\ k.verdicts \subseteq n.verdicts
     /\ \A row \in n.verdicts \ k.verdicts : row.round = k.round
     /\ n.round = k.round /\ n.status # "OPEN"

\* A record is left by these doors only.
LEMMA StepLeaves ==
  ASSUME IInv, [Next]_vars, NEW c \in Known
  PROVE  Left(c)
<1>0. c \in Commits /\ cycles[c] \in Cycle
  BY KnownFacts
<1>1. ASSUME NEW a \in Audits, NEW sha \in Commits, NEW head \in Rules,
             OpenOrAdvance(a, sha, head)
      PROVE  Left(c)
  <2>1. CASE OpenCycle(a, sha, head)
    <3>1. c = sha => Reaudited(c) /\ cycles'[c].verdicts = {}
      <4>1. c = sha => cycles'[c] = FreshCycle(sha, head)
        BY <2>1, StoreElsewhere DEF OpenCycle
      <4> QED
        BY <2>1, <4>1 DEF Reaudited, FreshCycle
    <3>2. c # sha => cycles'[c] = cycles[c]
      BY <2>1, StoreElsewhere DEF OpenCycle
    <3> QED
      BY <3>1, <3>2 DEF Left
  <2>2. CASE ReadvanceSameSha(a, sha, head)
    <3>1. PICK cid \in FirstOf(Standing(sha)) : Store(cid, NextRound(cycles[cid], sha))
      BY <2>2 DEF ReadvanceSameSha
    <3>2. cid \in Commits
      BY <3>1 DEF FirstOf, Standing, Known
    <3>3. CASE c = cid
      <4>1. RoundOpened(c)
        BY <2>2, <3>1, <3>3 DEF RoundOpened
      <4>2. cycles'[c] = NextRound(cycles[c], sha)
        BY <3>1, <3>2, <3>3, StoreElsewhere
      <4>3. /\ cycles'[c].verdicts = cycles[c].verdicts
            /\ cycles'[c].round = cycles[c].round + 1
        BY <1>0, <4>2 DEF NextRound, Cycle
      <4> QED
        BY <4>1, <4>3 DEF Left
    <3>4. CASE c # cid
      BY <3>1, <3>2, <3>4, StoreElsewhere DEF Left
    <3> QED
      BY <3>3, <3>4
  <2>3. CASE AdvanceToChild(a, sha, head)
    <3>1. PICK cid \in FirstOf(Extended(sha)) : Store(cid, NextRound(cycles[cid], sha))
      BY <2>3 DEF AdvanceToChild
    <3>2. cid \in Commits
      BY <3>1 DEF FirstOf, Extended, Known
    <3>3. CASE c = cid
      <4>1. RoundOpened(c)
        BY <2>3, <3>1, <3>3 DEF RoundOpened
      <4>2. cycles'[c] = NextRound(cycles[c], sha)
        BY <3>1, <3>2, <3>3, StoreElsewhere
      <4>3. /\ cycles'[c].verdicts = cycles[c].verdicts
            /\ cycles'[c].round = cycles[c].round + 1
        BY <1>0, <4>2 DEF NextRound, Cycle
      <4> QED
        BY <4>1, <4>3 DEF Left
    <3>4. CASE c # cid
      BY <3>1, <3>2, <3>4, StoreElsewhere DEF Left
    <3> QED
      BY <3>3, <3>4
  <2>4. CASE UNCHANGED cycles
    BY <2>4 DEF Left
  <2> QED
    BY <1>1, <2>1, <2>2, <2>3, <2>4 DEF OpenOrAdvance, ResumeOpenRound, RefusedByEscalation
<1>2. ASSUME NEW a \in Audits, NEW head \in Rules, ContinueCycle(a, head)
      PROVE  Left(c)
  <2> DEFINE cid == audits[a].cid
             next == [NextRound(cycles[cid], audits[a].sha) EXCEPT !.reopened = FALSE]
  <2>1. cid \in Commits /\ Store(cid, next)
    BY <1>2, AuditFacts DEF ContinueCycle
  <2>2. CASE c = cid
    <3>1. RoundOpened(c)
      BY <1>2, <2>2 DEF RoundOpened
    <3>2. cycles'[c] = [NextRound(cycles[c], audits[a].sha) EXCEPT !.reopened = FALSE]
      BY <2>1, <2>2, StoreElsewhere
    <3>3. /\ cycles'[c].verdicts = cycles[c].verdicts
          /\ cycles'[c].round = cycles[c].round + 1
      BY <1>0, <3>2 DEF NextRound, Cycle
    <3> QED
      BY <3>1, <3>3 DEF Left
  <2>3. CASE c # cid
    BY <2>1, <2>3, StoreElsewhere DEF Left
  <2> QED
    BY <2>2, <2>3
<1>3. ASSUME NEW a \in Audits, RecordVerdict(a)
      PROVE  Left(c)
  <2> DEFINE cid == audits[a].cid
  <2>1. cid \in Commits /\ Store(cid, WithVerdict(cycles[cid], a))
    BY <1>3, AuditFacts DEF RecordVerdict
  <2>2. CASE c = cid
    <3>1. VerdictLanded(c)
      BY <1>3, <2>2 DEF VerdictLanded
    <3>2. cycles'[c] = WithVerdict(cycles[c], a)
      BY <2>1, <2>2, StoreElsewhere
    <3>3. /\ cycles[c].verdicts \subseteq cycles'[c].verdicts
          /\ \A row \in cycles'[c].verdicts \ cycles[c].verdicts : row.round = cycles[c].round
          /\ cycles'[c].round = cycles[c].round
      BY <1>0, <3>2 DEF WithVerdict, Cycle
    <3>4. cycles'[c].status = StatusAfter(audits[a].verdict, cycles[c].round)
      BY <1>0, <3>2 DEF WithVerdict, Cycle
    <3>5. cycles'[c].status # "OPEN"
      BY <3>4 DEF StatusAfter
    <3> QED
      BY <3>1, <3>3, <3>5 DEF Left
  <2>3. CASE c # cid
    BY <2>1, <2>3, StoreElsewhere DEF Left
  <2> QED
    BY <2>2, <2>3
<1>4. ASSUME NEW sha \in Commits, NEW round, BuildEscalatable(sha),
             Store(sha, BuildEscalated(sha, round))
      PROVE  Left(c)
  <2>1. CASE c = sha
    <3>1. cycles'[c] = BuildEscalated(c, round)
      BY <1>4, <2>1, StoreElsewhere
    <3>2. BuildEscalated(c, round) = [Escalated(cycles[c]) EXCEPT !.round = round]
      BY DEF BuildEscalated
    <3>3. cycles'[c].status = "ESCALATED" /\ cycles'[c].verdicts = cycles[c].verdicts
      BY <1>0, <3>1, <3>2 DEF Escalated, Cycle
    <3> QED
      BY <3>3 DEF Left
  <2>2. CASE c # sha
    BY <1>4, <2>2, StoreElsewhere DEF Left
  <2> QED
    BY <2>1, <2>2
<1>5. ASSUME NEW cid \in Commits, Escalate(cid) \/ Reopen(cid) \/ Close(cid)
      PROVE  Left(c)
  <2>1. CASE c # cid
    <3>1. PICK k : Store(cid, k)
      BY <1>5 DEF Escalate, Reopen, Close
    <3> QED
      BY <2>1, <3>1, StoreElsewhere DEF Left
  <2>2. CASE c = cid /\ Escalate(cid)
    <3>1. cycles'[c] = Escalated(cycles[c])
      BY <2>2, StoreElsewhere DEF Escalate
    <3>2. cycles'[c].status = "ESCALATED" /\ cycles'[c].verdicts = cycles[c].verdicts
      BY <1>0, <3>1 DEF Escalated, Cycle
    <3> QED
      BY <3>2 DEF Left
  <2>3. CASE c = cid /\ (Reopen(cid) \/ Close(cid))
    <3>1. \/ cycles'[c] = [cycles[c] EXCEPT !.status = "OPEN", !.awaiting = TRUE,
                                            !.reopened = TRUE]
          \/ cycles'[c] = [cycles[c] EXCEPT !.status = "BLOCKED", !.closed = TRUE,
                                            !.reopened = FALSE]
      BY <2>3, StoreElsewhere DEF Reopen, Close
    <3>2. /\ cycles'[c].verdicts = cycles[c].verdicts /\ cycles'[c].round = cycles[c].round
          /\ cycles'[c].status = "OPEN" => cycles'[c].reopened
      BY <1>0, <3>1 DEF Cycle
    <3>3. cycles[c].status = "ESCALATED"
      BY <2>3 DEF Reopen, Close
    <3> QED
      BY <3>2, <3>3 DEF Left
  <2> QED
    BY <1>5, <2>1, <2>2, <2>3
<1>6. ASSUME NEW v \in Verifiers, Admit(v)
      PROVE  Left(c)
  <2> DEFINE cid == audits[verifying[v]].cid
  <2>1. verifying[v] \in Audits /\ audits[verifying[v]].stage # "idle"
    BY <1>6, NoneAssumption
    DEF Admit, IInv, TypeOK, VerifiersGood, GoodVerifier, AuditsGood, GoodAudit, Verdicts
  <2>2. cid \in Commits /\ cycles[cid].status = "PASSED"
    BY <1>6, <2>1, AuditFacts DEF Admit, Admissible
  <2>3. Store(cid, [cycles[cid] EXCEPT !.status = "CONSUMED",
                                       !.consumed = @ \cup {verifying[v]}])
    BY <1>6 DEF Admit
  <2>4. CASE c = cid
    <3>1. cycles'[c] = [cycles[c] EXCEPT !.status = "CONSUMED",
                                         !.consumed = @ \cup {verifying[v]}]
      BY <2>2, <2>3, <2>4, StoreElsewhere
    <3>2. /\ cycles'[c].verdicts = cycles[c].verdicts /\ cycles'[c].round = cycles[c].round
          /\ cycles'[c].status = "CONSUMED"
      BY <1>0, <3>1 DEF Cycle
    <3> QED
      BY <2>2, <2>4, <3>2 DEF Left
  <2>5. CASE c # cid
    BY <2>2, <2>3, <2>5, StoreElsewhere DEF Left
  <2> QED
    BY <2>4, <2>5
<1>7. CASE UNCHANGED cycles
  BY <1>7 DEF Left
<1>8. CASE Next
  <2>1. CASE \E a \in Audits : RecordLock(a)
    <3>1. PICK a \in Audits : RecordLock(a)
      BY <2>1
    <3>2. audits[a].sha \in Commits
      BY <3>1, AuditFacts DEF RecordLock
    <3> QED
      BY <3>1, <3>2, <1>4, <1>7 DEF RecordLock
  <2>2. CASE \E sha \in Commits, round \in 1..MaxRounds : RecordBuildEscalation(sha, round)
    BY <2>2, <1>4 DEF RecordBuildEscalation
  <2>3. CASE \/ \E a \in Audits, cid \in Commits, sha \in Commits : ProveAncestry(a, cid, sha)
             \/ \E a \in Audits, verdict \in Verdicts : MintReceipt(a, verdict)
             \/ \E a \in Audits : ContinuationRefused(a) \/ VerdictNotRecorded(a)
             \/ \E v \in Verifiers, a \in Audits : Verify(v, a)
             \/ \E v \in Verifiers : AdmissionRefused(v)
    BY <2>3, <1>7 DEF ProveAncestry, MintReceipt, ContinuationRefused,
       VerdictNotRecorded, Verify, AdmissionRefused
  <2> QED
    BY <1>1, <1>2, <1>3, <1>5, <1>6, <1>8, <2>1, <2>2, <2>3 DEF Next
<1> QED
  BY <1>7, <1>8 DEF vars

\* A decision of a cycle is lost in one way only: the root commit is audited
\* anew after its cycle passed or moved on to another commit, and the new cycle
\* takes the record's place (StateStore.open_or_advance).
THEOREM ErasedByReauditOnly ==
  Spec => [][\A c \in Known :
               \/ cycles[c].verdicts \subseteq cycles'[c].verdicts
               \/ /\ Reaudited(c)
                  /\ cycles[c].status = "PASSED" \/ cycles[c].active # c]_vars
<1> DEFINE Spared(c) ==
      \/ cycles[c].verdicts \subseteq cycles'[c].verdicts
      \/ /\ Reaudited(c)
         /\ cycles[c].status = "PASSED" \/ cycles[c].active # c
<1>1. ASSUME IInv, [Next]_vars, NEW c \in Known
      PROVE  Spared(c)
  <2>1. CASE Reaudited(c)
    BY <2>1 DEF Reaudited, OpenCycle, Standing
  <2>2. CASE ~Reaudited(c)
    BY <1>1, <2>2, StepLeaves DEF Left
  <2> QED
    BY <2>1, <2>2
<1>2. IInv /\ [Next]_vars => [\A c \in Known : Spared(c)]_vars
  BY <1>1
<1> QED
  BY <1>2, StoreInvariant, PTL DEF Spec

\* A cycle a person closed without admission is taken up again by one of four
\* doors and no other: a further round, the verdict of an audit that was still
\* running, an audit of its root commit anew, or a build-level stop
\* (StateStore.resolve_escalation stores BLOCKED, which those four accept).
THEOREM ClosedLeftByFourDoors ==
  Spec => [][\A c \in Known : cycles[c].closed /\ cycles[c].status = "BLOCKED" =>
               \/ cycles'[c] = cycles[c]
               \/ RoundOpened(c)
               \/ VerdictLanded(c)
               \/ Reaudited(c)
               \/ cycles'[c].status = "ESCALATED"]_vars
<1> DEFINE Stays(c) ==
      cycles[c].closed /\ cycles[c].status = "BLOCKED" =>
        \/ cycles'[c] = cycles[c]
        \/ RoundOpened(c)
        \/ VerdictLanded(c)
        \/ Reaudited(c)
        \/ cycles'[c].status = "ESCALATED"
<1>1. IInv /\ [Next]_vars => [\A c \in Known : Stays(c)]_vars
  BY StepLeaves DEF Left
<1> QED
  BY <1>1, StoreInvariant, PTL DEF Spec

\* A round is set back: only a stop anchored at a commit does it, which takes the
\* build's own count of rounds, or 1 (record_build_escalation, _record_lock).
SetsBack == \E c \in Known : ~Reaudited(c) /\ cycles'[c].round < cycles[c].round

\* No decision is ahead of its cycle's round, and an open round that has its
\* decision was reopened by a person.
RowsBehind ==
  \A c \in Known :
    /\ \A row \in cycles[c].verdicts : row.round <= cycles[c].round
    /\ cycles[c].status = "OPEN" /\ (\E row \in cycles[c].verdicts : row.round = cycles[c].round)
         => cycles[c].reopened

\* An audit that begins where its verdict is already recorded.
BeginsDecided(a) ==
  /\ audits[a].stage # "auditing" /\ audits'[a].stage = "auditing"
  /\ RecordedVerdict(cycles'[audits'[a].cid], audits'[a].round, audits'[a].sha)

\* A record that appears starts with no decision (open_or_advance and
\* record_build_escalation create one; every other transaction needs one).
LEMMA NewRecord ==
  ASSUME IInv, [Next]_vars, NEW c \in Commits, c \notin Known, cycles'[c] # None
  PROVE  cycles'[c].verdicts = {}
<1>0. cycles \in [Commits -> Cycle \cup {None}] /\ cycles[c] = None
  BY DEF IInv, TypeOK, Known
<1>1. ASSUME NEW cid \in Commits, NEW k, Store(cid, k)
      PROVE  cid = c /\ cycles'[c] = k
  BY <1>0, <1>1 DEF Store
<1>2. ASSUME NEW cid \in Known, NEW k, Store(cid, k)
      PROVE  FALSE
  BY <1>1, <1>2 DEF Known
<1>3. ASSUME NEW a \in Audits, NEW sha \in Commits, NEW head \in Rules,
             OpenOrAdvance(a, sha, head)
      PROVE  cycles'[c].verdicts = {}
  <2>1. CASE OpenCycle(a, sha, head)
    <3>1. cycles'[c] = FreshCycle(sha, head)
      BY <2>1, <1>1 DEF OpenCycle
    <3> QED
      BY <3>1 DEF FreshCycle
  <2>2. ~ReadvanceSameSha(a, sha, head)
    <3> SUFFICES ASSUME ReadvanceSameSha(a, sha, head) PROVE FALSE
      OBVIOUS
    <3>1. PICK cid \in FirstOf(Standing(sha)) : Store(cid, NextRound(cycles[cid], sha))
      BY DEF ReadvanceSameSha
    <3> QED
      BY <3>1, <1>2 DEF FirstOf, Standing
  <2>3. ~AdvanceToChild(a, sha, head)
    <3> SUFFICES ASSUME AdvanceToChild(a, sha, head) PROVE FALSE
      OBVIOUS
    <3>1. PICK cid \in FirstOf(Extended(sha)) : Store(cid, NextRound(cycles[cid], sha))
      BY DEF AdvanceToChild
    <3> QED
      BY <3>1, <1>2 DEF FirstOf, Extended
  <2> QED
    BY <1>0, <1>3, <2>1, <2>2, <2>3 DEF OpenOrAdvance, ResumeOpenRound, RefusedByEscalation
<1>4. ASSUME NEW a \in Audits, NEW head \in Rules, ContinueCycle(a, head)
      PROVE  FALSE
  BY <1>4, <1>2, AuditFacts DEF ContinueCycle
<1>5. ASSUME NEW a \in Audits, RecordVerdict(a)
      PROVE  FALSE
  BY <1>5, <1>2, AuditFacts DEF RecordVerdict
<1>6. ASSUME NEW sha \in Commits, NEW round, Store(sha, BuildEscalated(sha, round))
      PROVE  cycles'[c].verdicts = {}
  <2>1. c = sha /\ cycles'[c] = BuildEscalated(c, round)
    BY <1>1, <1>6
  <2>2. BuildEscalated(c, round) = [Escalated(FreshCycle(c, None)) EXCEPT !.round = round]
    BY DEF BuildEscalated
  <2> QED
    BY <2>1, <2>2 DEF Escalated, FreshCycle
<1>7. ASSUME NEW cid \in Commits, Escalate(cid) \/ Reopen(cid) \/ Close(cid)
      PROVE  FALSE
  <2>1. PICK k : cid \in Known /\ Store(cid, k)
    BY <1>7 DEF Escalate, Reopen, Close
  <2> QED
    BY <2>1, <1>2
<1>8. ASSUME NEW v \in Verifiers, Admit(v)
      PROVE  FALSE
  <2>1. verifying[v] \in Audits /\ audits[verifying[v]].stage # "idle"
    BY <1>8, NoneAssumption
    DEF Admit, IInv, TypeOK, VerifiersGood, GoodVerifier, AuditsGood, GoodAudit, Verdicts
  <2>2. audits[verifying[v]].cid \in Known
    BY <2>1, AuditFacts
  <2>3. PICK k : Store(audits[verifying[v]].cid, k)
    BY <1>8 DEF Admit
  <2> QED
    BY <2>2, <2>3, <1>2
<1>9. ~UNCHANGED cycles
  BY <1>0
<1>10. CASE Next
  <2>1. CASE \E a \in Audits : RecordLock(a)
    <3>1. PICK a \in Audits : RecordLock(a)
      BY <2>1
    <3>2. audits[a].sha \in Commits
      BY <3>1, AuditFacts DEF RecordLock
    <3> QED
      BY <3>1, <3>2, <1>6, <1>9 DEF RecordLock
  <2>2. CASE \E sha \in Commits, round \in 1..MaxRounds : RecordBuildEscalation(sha, round)
    BY <2>2, <1>6 DEF RecordBuildEscalation
  <2>3. ~ \/ \E a \in Audits, cid \in Commits, sha \in Commits : ProveAncestry(a, cid, sha)
          \/ \E a \in Audits, verdict \in Verdicts : MintReceipt(a, verdict)
          \/ \E a \in Audits : ContinuationRefused(a) \/ VerdictNotRecorded(a)
          \/ \E v \in Verifiers, a \in Audits : Verify(v, a)
          \/ \E v \in Verifiers : AdmissionRefused(v)
    BY <1>9 DEF ProveAncestry, MintReceipt, ContinuationRefused,
       VerdictNotRecorded, Verify, AdmissionRefused
  <2> QED
    BY <1>3, <1>4, <1>5, <1>7, <1>8, <1>10, <2>1, <2>2, <2>3 DEF Next
<1> QED
  BY <1>9, <1>10 DEF vars

\* An audit begins by opening a round or by resuming an open one
\* (StateStore.open_or_advance and its continuation branch).
LEMMA BeginsBy ==
  ASSUME IInv, Next, NEW a \in Audits,
         audits[a].stage # "auditing", audits'[a].stage = "auditing"
  PROVE  \E head \in Rules :
           \/ ContinueCycle(a, head)
           \/ \E sha \in Commits : \/ ResumeOpenRound(a, sha, head)
                                   \/ ReadvanceSameSha(a, sha, head)
                                   \/ AdvanceToChild(a, sha, head)
                                   \/ OpenCycle(a, sha, head)
<1>0. audits \in [Audits -> Audit]
  BY DEF IInv, TypeOK
<1>1. ASSUME NEW b \in Audits, NEW r, audits' = [audits EXCEPT ![b] = r]
      PROVE  a = b /\ r.stage = "auditing"
  BY <1>0, <1>1
<1>2. ~UNCHANGED audits
  OBVIOUS
<1>3. ASSUME NEW b \in Audits, EndAudit(b)
      PROVE  FALSE
  BY <1>0, <1>3 DEF EndAudit, Audit
<1>4. ASSUME NEW b \in Audits, NEW sha \in Commits, NEW head \in Rules,
             OpenOrAdvance(b, sha, head)
      PROVE  /\ a = b
             /\ \/ ResumeOpenRound(a, sha, head)
                \/ ReadvanceSameSha(a, sha, head)
                \/ AdvanceToChild(a, sha, head)
                \/ OpenCycle(a, sha, head)
  <2>1. ~RefusedByEscalation(b, sha)
    <3> SUFFICES ASSUME RefusedByEscalation(b, sha) PROVE FALSE
      OBVIOUS
    <3>1. PICK cid : audits' = [audits EXCEPT ![b] = [IdleAudit EXCEPT
                       !.stage = "locked", !.cid = cid, !.sha = sha]]
      BY DEF RefusedByEscalation
    <3> QED
      BY <3>1, <1>1 DEF IdleAudit
  <2>2. PICK r : audits' = [audits EXCEPT ![b] = r]
    BY <1>4, <2>1 DEF OpenOrAdvance, ResumeOpenRound, ReadvanceSameSha, AdvanceToChild,
       OpenCycle, BeginAudit
  <2> QED
    BY <1>1, <1>4, <2>1, <2>2 DEF OpenOrAdvance
<1>5. ASSUME NEW b \in Audits, NEW head \in Rules, ContinueCycle(b, head)
      PROVE  a = b
  <2>1. PICK r : audits' = [audits EXCEPT ![b] = r]
    BY <1>5 DEF ContinueCycle, BeginAudit
  <2> QED
    BY <1>1, <2>1
<1>6. ASSUME NEW b \in Audits, NEW cid \in Commits, NEW sha \in Commits,
             ProveAncestry(b, cid, sha)
      PROVE  FALSE
  <2>1. audits' = [audits EXCEPT ![b] = [IdleAudit EXCEPT
                    !.stage = "proving", !.cid = cid, !.sha = sha]]
    BY <1>6 DEF ProveAncestry
  <2> QED
    BY <2>1, <1>1 DEF IdleAudit
<1>7. ASSUME NEW b \in Audits, NEW verdict \in Verdicts, MintReceipt(b, verdict)
      PROVE  FALSE
  BY <1>0, <1>7 DEF MintReceipt, Audit
<1>8. ASSUME NEW b \in Audits, RecordVerdict(b)
      PROVE  FALSE
  BY <1>0, <1>8 DEF RecordVerdict, Audit
<1>9. ~ \/ \E b \in Audits : ContinuationRefused(b) \/ RecordLock(b) \/ VerdictNotRecorded(b)
        \/ \E cid \in Commits : Escalate(cid) \/ Reopen(cid) \/ Close(cid)
        \/ \E sha \in Commits, round \in 1..MaxRounds : RecordBuildEscalation(sha, round)
        \/ \E v \in Verifiers, b \in Audits : Verify(v, b)
        \/ \E v \in Verifiers : Admit(v) \/ AdmissionRefused(v)
  BY <1>2, <1>3 DEF ContinuationRefused, RecordLock, VerdictNotRecorded, Escalate, Reopen,
     Close, RecordBuildEscalation, Verify, Admit, AdmissionRefused
<1> QED
  BY <1>4, <1>5, <1>6, <1>7, <1>8, <1>9 DEF Next

\* The bound on the decisions is kept while no round is set back.
LEMMA RowsBehindKept ==
  ASSUME IInv, RowsBehind, [Next]_vars, ~SetsBack
  PROVE  RowsBehind'
<1> SUFFICES ASSUME NEW c \in Commits, cycles'[c] # None
             PROVE  /\ \A row \in cycles'[c].verdicts : row.round <= cycles'[c].round
                    /\ cycles'[c].status = "OPEN"
                       /\ (\E row \in cycles'[c].verdicts : row.round = cycles'[c].round)
                         => cycles'[c].reopened
  BY DEF RowsBehind, Known
<1>1. CASE c \notin Known
  BY <1>1, NewRecord
<1>2. CASE c \in Known /\ cycles'[c].verdicts = {}
  BY <1>2
<1>3. CASE c \in Known /\ ~Reaudited(c)
  <2>1. /\ cycles[c] \in Cycle /\ cycles'[c] \in Cycle
        /\ cycles'[c].round >= cycles[c].round
    <3>1. cycles[c] \in Cycle
      BY <1>3, KnownFacts
    <3>2. IInv'
      BY NextIInv
    <3>3. cycles'[c] \in Cycle
      BY <3>2 DEF IInv, TypeOK
    <3> QED
      BY <1>3, <3>1, <3>3 DEF SetsBack, Cycle
  <2>2. \A row \in cycles[c].verdicts : row.round \in Nat /\ row.round <= cycles[c].round
    BY <1>3, <2>1 DEF RowsBehind, Cycle, Row
  <2>3. cycles[c].round \in Nat /\ cycles'[c].round \in Nat
    BY <2>1 DEF Cycle
  <2>4. Left(c)
    BY <1>3, StepLeaves
  <2>5. CASE cycles'[c] = cycles[c]
    BY <1>3, <2>5 DEF RowsBehind
  <2>6. CASE cycles'[c].verdicts = cycles[c].verdicts /\ cycles'[c].round = cycles[c].round + 1
    BY <2>2, <2>3, <2>6
  <2>7. CASE cycles'[c].status = "ESCALATED" /\ cycles'[c].verdicts = cycles[c].verdicts
    BY <2>1, <2>2, <2>3, <2>7
  <2>8. CASE /\ cycles'[c].verdicts = cycles[c].verdicts /\ cycles'[c].round = cycles[c].round
             /\ cycles'[c].status = "OPEN" => cycles'[c].reopened
    BY <2>2, <2>8
  <2>9. CASE /\ \A row \in cycles'[c].verdicts \ cycles[c].verdicts : row.round = cycles[c].round
             /\ cycles'[c].round = cycles[c].round /\ cycles'[c].status # "OPEN"
    BY <2>2, <2>3, <2>9
  <2> QED
    BY <1>3, <2>4, <2>5, <2>6, <2>7, <2>8, <2>9 DEF Left
<1>4. CASE c \in Known /\ Reaudited(c)
  <2>1. PICK a \in Audits, head \in Rules : OpenCycle(a, c, head)
    BY <1>4 DEF Reaudited
  <2>2. cycles'[c] = FreshCycle(c, head)
    BY <1>4, <2>1, StoreElsewhere DEF OpenCycle
  <2> QED
    BY <1>4, <1>2, <2>2 DEF FreshCycle
<1> QED
  BY <1>1, <1>3, <1>4

\* As long as no build-level stop sets a round back, only a round that a person
\* reopened is audited again under a decision it has: no retry, revision or late
\* audit starts one that the store must refuse (StateStore.open_or_advance,
\* resolve_escalation).
THEOREM FutileOnlyWhenReopened ==
  Spec /\ [][~SetsBack]_vars =>
    [][\A a \in Audits : BeginsDecided(a) => cycles[audits'[a].cid].reopened]_vars
<1> DEFINE ByRuling ==
      \A a \in Audits : BeginsDecided(a) => cycles[audits'[a].cid].reopened
<1>1. Init => RowsBehind
  BY DEF Init, RowsBehind, Known
<1>2. IInv /\ RowsBehind /\ [Next]_vars /\ [~SetsBack]_vars => RowsBehind'
  <2>1. UNCHANGED vars /\ RowsBehind => RowsBehind'
    BY DEF vars, RowsBehind, Known
  <2> QED
    BY <2>1, RowsBehindKept
<1>3. IInv /\ RowsBehind /\ [Next]_vars => [ByRuling]_vars
  <2> SUFFICES ASSUME IInv, RowsBehind, Next, NEW a \in Audits, BeginsDecided(a)
               PROVE  cycles[audits'[a].cid].reopened
    BY DEF vars
  <2>0. /\ audits[a].stage # "auditing" /\ audits'[a].stage = "auditing"
        /\ audits \in [Audits -> Audit] /\ cycles \in [Commits -> Cycle \cup {None}]
    BY DEF BeginsDecided, IInv, TypeOK
  <2>1. PICK row \in cycles'[audits'[a].cid].verdicts : row.round = audits'[a].round
    BY DEF BeginsDecided, RecordedVerdict
  <2>2. ASSUME NEW cid \in Known, NEW sha \in Commits, NEW head \in Rules,
               NEW k \in Cycle, k.verdicts = cycles[cid].verdicts,
               Store(cid, k), BeginAudit(a, cid, sha, k, head)
        PROVE  k.round <= cycles[cid].round
    <3>1. audits'[a].cid = cid /\ audits'[a].round = k.round
      BY <2>0, <2>2 DEF BeginAudit
    <3>2. cycles'[cid] = k
      BY <2>2, KnownFacts, StoreElsewhere
    <3>3. row \in cycles[cid].verdicts /\ row.round = k.round
      BY <2>1, <2>2, <3>1, <3>2
    <3> QED
      BY <3>3 DEF RowsBehind
  <2>3. ASSUME NEW cid \in Known, NEW sha \in Commits
        PROVE  /\ NextRound(cycles[cid], sha) \in Cycle
               /\ NextRound(cycles[cid], sha).verdicts = cycles[cid].verdicts
               /\ ~(NextRound(cycles[cid], sha).round <= cycles[cid].round)
    <3>1. cycles[cid] \in Cycle
      BY KnownFacts
    <3>2. NextRound(cycles[cid], sha) \in Cycle
      BY <3>1, NextRoundType
    <3>3. /\ NextRound(cycles[cid], sha).verdicts = cycles[cid].verdicts
          /\ NextRound(cycles[cid], sha).round = cycles[cid].round + 1
      BY <3>1 DEF NextRound, Cycle
    <3>4. cycles[cid].round \in Nat
      BY <3>1 DEF Cycle
    <3> QED
      BY <3>2, <3>3, <3>4
  <2>4. PICK head \in Rules :
             \/ ContinueCycle(a, head)
             \/ \E sha \in Commits : \/ ResumeOpenRound(a, sha, head)
                                     \/ ReadvanceSameSha(a, sha, head)
                                     \/ AdvanceToChild(a, sha, head)
                                     \/ OpenCycle(a, sha, head)
    BY <2>0, BeginsBy
  <2>5. ~ContinueCycle(a, head)
    <3> SUFFICES ASSUME ContinueCycle(a, head) PROVE FALSE
      OBVIOUS
    <3> DEFINE cid  == audits[a].cid
               sha  == audits[a].sha
               next == [NextRound(cycles[cid], sha) EXCEPT !.reopened = FALSE]
    <3>1. cid \in Known /\ sha \in Commits
      BY AuditFacts DEF ContinueCycle
    <3>2. Store(cid, next) /\ BeginAudit(a, cid, sha, next, head)
      BY DEF ContinueCycle
    <3> DEFINE n == NextRound(cycles[cid], sha)
    <3>3. n \in Cycle /\ n.verdicts = cycles[cid].verdicts /\ ~(n.round <= cycles[cid].round)
      BY <3>1, <2>3
    <3>4. next = [n EXCEPT !.reopened = FALSE]
      OBVIOUS
    <3> HIDE DEF n, next
    <3>5. next \in Cycle /\ next.verdicts = n.verdicts /\ next.round = n.round
      BY <3>3, <3>4 DEF Cycle
    <3>6. next.round <= cycles[cid].round
      BY <3>1, <3>2, <3>5, <3>3, <2>2
    <3> QED
      BY <3>5, <3>6, <3>3
  <2>6. ASSUME NEW sha \in Commits, ReadvanceSameSha(a, sha, head) \/ AdvanceToChild(a, sha, head)
        PROVE  FALSE
    <3>1. PICK cid \in Known : /\ Store(cid, NextRound(cycles[cid], sha))
                               /\ BeginAudit(a, cid, sha, NextRound(cycles[cid], sha), head)
      BY <2>6 DEF ReadvanceSameSha, AdvanceToChild, FirstOf, Standing, Extended
    <3>2. NextRound(cycles[cid], sha).round <= cycles[cid].round
      BY <3>1, <2>2, <2>3
    <3> QED
      BY <3>1, <3>2, <2>3
  <2>7. ASSUME NEW sha \in Commits, OpenCycle(a, sha, head)
        PROVE  FALSE
    <3>1. audits'[a].cid = sha
      BY <2>0, <2>7 DEF OpenCycle, BeginAudit
    <3>2. cycles'[sha] = FreshCycle(sha, head)
      BY <2>0, <2>7 DEF OpenCycle, Store
    <3> QED
      BY <2>1, <3>1, <3>2 DEF FreshCycle
  <2>8. ASSUME NEW sha \in Commits, ResumeOpenRound(a, sha, head)
        PROVE  cycles[audits'[a].cid].reopened
    <3>1. PICK cid \in Known : /\ cycles[cid].status = "OPEN"
                               /\ BeginAudit(a, cid, sha, cycles[cid], head)
      BY <2>8 DEF ResumeOpenRound, FirstOf, Standing
    <3>2. audits'[a].cid = cid /\ audits'[a].round = cycles[cid].round
      BY <2>0, <3>1 DEF BeginAudit
    <3>3. cycles' = cycles
      BY <2>8 DEF ResumeOpenRound
    <3> QED
      BY <2>1, <3>1, <3>2, <3>3 DEF RowsBehind
  <2> QED
    BY <2>4, <2>5, <2>6, <2>7, <2>8
<1> QED
  BY <1>1, <1>2, <1>3, StoreInvariant, PTL DEF Spec
=============================================================================
