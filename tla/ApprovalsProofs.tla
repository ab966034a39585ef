-------------------------- MODULE ApprovalsProofs ---------------------------
(***************************************************************************)
(* Proof that the cycle store implements Approvals, for any commit graph   *)
(* and any number of audits and verifiers: a mint, a recorded PASS, an     *)
(* admission and a fresh cycle over an approved one are the abstract       *)
(* Mint, Approve, Spend and Withdraw; every other step is a stutter.       *)
(***************************************************************************)
EXTENDS CycleStoreProofs

AbstractVars == <<Said, Endorsed, InForce, admissions>>

\* A transaction on one cycle changes what that cycle claims and nothing else.
LEMMA StoreClaims ==
  ASSUME TypeOK, NEW cid \in Commits, NEW k, Store(cid, k)
  PROVE  InForce' = [InForce EXCEPT ![cid] = Claim(k)]
BY DEF Store, InForce, TypeOK

\* An undecided record before and after: no approval comes or goes.
LEMMA QuietStore ==
  ASSUME TypeOK, NEW cid \in Commits, NEW k, Store(cid, k),
         Claim(cycles[cid]) = None, Claim(k) = None
  PROVE  InForce' = InForce
BY StoreClaims DEF InForce

\* An audit that was not recorded moves on without a new verdict.
LEMMA QuietAudit ==
  ASSUME TypeOK, NEW a \in Audits, NEW x \in Audit,
         audits' = [audits EXCEPT ![a] = x],
         audits[a].stage # "recorded", x.stage # "recorded",
         x.verdict = audits[a].verdict
  PROVE  Said' = Said /\ Endorsed' = Endorsed
BY DEF TypeOK, Said, Endorsed

\* A command that has not minted holds no verdict.
LEMMA Unminted ==
  ASSUME IInv, NEW a \in Audits,
         audits[a].stage \in {"idle", "proving", "auditing", "locked"}
  PROVE  audits[a].verdict = None /\ audits[a].stage # "recorded"
BY DEF IInv, AuditsGood, GoodAudit

\* A begun audit holds no verdict either (BeginAudit, RefusedByEscalation).
LEMMA BegunQuietly ==
  ASSUME IInv, NEW a \in Audits, NEW cid \in Commits, NEW sha \in Commits,
         NEW k \in Cycle, NEW head \in Rules,
         audits[a].stage \in {"idle", "proving"}, BeginAudit(a, cid, sha, k, head)
  PROVE  Said' = Said /\ Endorsed' = Endorsed
<1> DEFINE x == [stage |-> "auditing", cid |-> cid, sha |-> sha, round |-> k.round,
                 pin |-> k.pin, rules |-> IF k.pin = None THEN head ELSE k.pin,
                 verdict |-> None]
<1>1. x \in Audit
  BY DEF Audit, Cycle, Stages
<1>2. audits' = [audits EXCEPT ![a] = x]
  BY DEF BeginAudit
<1>3. audits[a].verdict = None /\ audits[a].stage # "recorded"
  BY Unminted
<1>4. x.verdict = None /\ x.stage = "auditing"
  OBVIOUS
<1> QED
  BY <1>1, <1>2, <1>3, <1>4, QuietAudit DEF IInv

\* An audit that ends without a row was not recorded and says what it said.
LEMMA EndedQuietly ==
  ASSUME IInv, NEW a \in Audits, audits[a].stage # "recorded", EndAudit(a)
  PROVE  Said' = Said /\ Endorsed' = Endorsed
BY DEF IInv, TypeOK, Audit, Stages, EndAudit, Said, Endorsed

-----------------------------------------------------------------------------
(* One lemma per group of operations: a step of the store is a step of the   *)
(* abstract life of an approval.                                             *)

AbstractStep == [Approval!Next]_AbstractVars

\* open_or_advance opens and advances only undecided cycles; a fresh cycle
\* over an approved one withdraws the approval.
LEMMA OpenOrAdvanceImplements ==
  ASSUME IInv, NEW a \in Audits, NEW sha \in Commits, NEW head \in Rules,
         OpenOrAdvance(a, sha, head)
  PROVE  AbstractStep
<1>1. CASE ResumeOpenRound(a, sha, head)
  <2>1. PICK cid \in Known : BeginAudit(a, cid, sha, cycles[cid], head)
    BY <1>1 DEF ResumeOpenRound, FirstOf, Standing
  <2>2. Said' = Said /\ Endorsed' = Endorsed
    BY <1>1, <2>1, KnownFacts, BegunQuietly DEF ResumeOpenRound
  <2> QED
    BY <1>1, <2>2 DEF ResumeOpenRound, AbstractStep, AbstractVars, InForce
<1>2. CASE ReadvanceSameSha(a, sha, head) \/ AdvanceToChild(a, sha, head)
  <2>1. PICK cid \in Known :
          /\ cycles[cid].status \in {"OPEN", "BLOCKED"}
          /\ Store(cid, NextRound(cycles[cid], sha))
          /\ BeginAudit(a, cid, sha, NextRound(cycles[cid], sha), head)
          /\ audits[a].stage = "idle" /\ UNCHANGED admissions
    BY <1>2 DEF ReadvanceSameSha, AdvanceToChild, FirstOf, Standing, Extended
  <2>2. cid \in Commits /\ cycles[cid] \in Cycle
    BY KnownFacts
  <2>3. NextRound(cycles[cid], sha) \in Cycle
    BY <2>2, NextRoundType
  <2>4. Said' = Said /\ Endorsed' = Endorsed
    BY <2>1, <2>2, <2>3, BegunQuietly
  <2>5. InForce' = InForce
    BY <2>1, <2>2, QuietStore DEF Claim, NextRound, Cycle, IInv
  <2> QED
    BY <2>1, <2>4, <2>5 DEF AbstractStep, AbstractVars
<1>3. CASE RefusedByEscalation(a, sha)
  <2>1. PICK cid \in Commits : audits' = [audits EXCEPT ![a] = [IdleAudit EXCEPT
                                 !.stage = "locked", !.cid = cid, !.sha = sha]]
    BY <1>3 DEF RefusedByEscalation, FirstOf, Extended, Known
  <2> DEFINE x == [IdleAudit EXCEPT !.stage = "locked", !.cid = cid, !.sha = sha]
  <2>2. x \in Audit /\ x.stage = "locked" /\ x.verdict = None
    BY DEF IdleAudit, Audit, Stages
  <2>3. audits[a].verdict = None /\ audits[a].stage # "recorded"
    BY <1>3, Unminted DEF RefusedByEscalation
  <2>4. Said' = Said /\ Endorsed' = Endorsed
    BY <2>1, <2>2, <2>3, QuietAudit DEF IInv
  <2> QED
    BY <1>3, <2>4 DEF RefusedByEscalation, AbstractStep, AbstractVars, InForce
<1>4. CASE OpenCycle(a, sha, head)
  <2> DEFINE k == FreshCycle(sha, head)
  <2>1. k \in Cycle
    BY FreshCycleType
  <2>2. Said' = Said /\ Endorsed' = Endorsed
    BY <1>4, <2>1, BegunQuietly DEF OpenCycle
  <2>3. Claim(k) = None
    BY DEF Claim, FreshCycle
  <2>4. InForce' = [InForce EXCEPT ![sha] = None]
    BY <1>4, <2>3, StoreClaims DEF OpenCycle, IInv
  <2>5. CASE InForce[sha] = None
    BY <1>4, <2>2, <2>4, <2>5 DEF OpenCycle, AbstractStep, AbstractVars, InForce
  <2>6. CASE InForce[sha] # None
    <3>1. Approval!Withdraw(sha)
      BY <1>4, <2>2, <2>4, <2>6 DEF OpenCycle, Approval!Withdraw
    <3> QED
      BY <3>1 DEF AbstractStep, Approval!Next
  <2> QED
    BY <2>5, <2>6
<1> QED
  BY <1>1, <1>2, <1>3, <1>4 DEF OpenOrAdvance

\* A build revision opens a round of an undecided cycle (continue_cycle).
LEMMA ContinueCycleImplements ==
  ASSUME IInv, NEW a \in Audits, NEW head \in Rules, ContinueCycle(a, head)
  PROVE  AbstractStep
<1> DEFINE cid == audits[a].cid
           sha == audits[a].sha
           k   == [NextRound(cycles[cid], sha) EXCEPT !.reopened = FALSE]
<1>1. /\ cid \in Commits /\ sha \in Commits /\ cycles[cid] \in Cycle
      /\ cycles[cid].status \in {"OPEN", "BLOCKED"}
  BY AuditFacts DEF ContinueCycle, CanContinue
<1>2. k \in Cycle /\ k.status = "OPEN"
  <2>1. NextRound(cycles[cid], sha) \in Cycle /\ NextRound(cycles[cid], sha).status = "OPEN"
    BY <1>1, NextRoundType DEF NextRound, Cycle
  <2> QED
    BY <2>1 DEF Cycle
<1>3. Store(cid, k) /\ BeginAudit(a, cid, sha, k, head) /\ UNCHANGED admissions
  BY DEF ContinueCycle
<1> HIDE DEF k, cid, sha
<1>4. Said' = Said /\ Endorsed' = Endorsed
  BY <1>1, <1>2, <1>3, BegunQuietly DEF ContinueCycle
<1>5. InForce' = InForce
  BY <1>1, <1>2, <1>3, QuietStore DEF Claim, IInv
<1> QED
  BY <1>3, <1>4, <1>5 DEF AbstractStep, AbstractVars

\* A receipt committed to git is the abstract Mint (audit_command).
LEMMA MintReceiptImplements ==
  ASSUME IInv, NEW a \in Audits, NEW verdict \in Verdicts, MintReceipt(a, verdict)
  PROVE  AbstractStep
<1>1. audits[a].verdict = None /\ audits[a].stage = "auditing"
  BY Unminted DEF MintReceipt
<1>2. Said[a] = None /\ Said' = [Said EXCEPT ![a] = verdict]
  BY <1>1 DEF MintReceipt, Said, IInv, TypeOK, Audit
<1>3. Endorsed' = Endorsed
  BY <1>1 DEF MintReceipt, Endorsed, IInv, TypeOK, Audit
<1>4. InForce' = InForce /\ UNCHANGED admissions
  BY DEF MintReceipt, InForce
<1>5. Approval!Mint(a, verdict)
  BY <1>2, <1>3, <1>4 DEF Approval!Mint
<1> QED
  BY <1>5 DEF AbstractStep, Approval!Next

\* A recorded PASS is the abstract Approve: the cycle had no approval, because
\* one it had would rest on a verdict of this very round and commit.
LEMMA RecordVerdictImplements ==
  ASSUME IInv, NEW a \in Audits, RecordVerdict(a)
  PROVE  AbstractStep
<1> DEFINE cid == audits[a].cid
           k   == WithVerdict(cycles[cid], a)
           verdict == audits[a].verdict
<1>1. /\ cid \in Commits /\ cycles[cid] \in Cycle /\ audits[a] \in Audit
      /\ GoodCycle(cid, cycles[cid], audits)
      /\ audits[a].stage = "minted" /\ verdict \in Verdicts
  BY AuditFacts DEF RecordVerdict, IInv, AuditsGood, GoodAudit
<1>2. /\ ~RecordedVerdict(cycles[cid], cycles[cid].round, cycles[cid].active)
      /\ cycles[cid].status # "CONSUMED"
  BY DEF RecordVerdict, Recordable
<1>3. Claim(cycles[cid]) = None
  BY <1>1, <1>2 DEF GoodCycle, RecordedVerdict, Claim
<1>4. k \in Cycle /\ k.receipt = a /\ k.status = StatusAfter(verdict, cycles[cid].round)
  <2>1. audits[a].rules \in Rules
    BY <1>1 DEF IInv, AuditsGood, GoodAudit
  <2>2. audits[a].sha \in Commits
    BY <1>1, AuditFacts
  <2>3. k \in Cycle
    BY <1>1, <2>1, <2>2, WithVerdictType
  <2>4. k.receipt = a /\ k.status = StatusAfter(verdict, cycles[cid].round)
    BY <1>1 DEF WithVerdict, Cycle
  <2> QED
    BY <2>3, <2>4
<1>4a. k # None
  BY <1>4, NoneAssumption
<1>5. Store(cid, k) /\ UNCHANGED admissions
  BY DEF RecordVerdict
<1>6. /\ Said' = Said
      /\ Endorsed' = IF verdict = "PASS" THEN Endorsed \cup {a} ELSE Endorsed
      /\ a \notin Endorsed
  BY <1>1 DEF RecordVerdict, Said, Endorsed, IInv, TypeOK, Audit
<1> HIDE DEF k
<1>7. InForce' = [InForce EXCEPT ![cid] = Claim(k)]
  BY <1>1, <1>5, StoreClaims DEF IInv
<1>8. CASE verdict = "PASS"
  <2>1. Claim(k) = a
    BY <1>4, <1>8, <1>4a DEF Claim, StatusAfter
  <2>2. InForce[cid] = None /\ Said[a] = "PASS"
    BY <1>1, <1>3, <1>8 DEF InForce, Said
  <2>3. Approval!Approve(cid, a)
    BY <1>5, <1>6, <1>7, <1>8, <2>1, <2>2 DEF Approval!Approve
  <2> QED
    BY <1>1, <2>3 DEF AbstractStep, Approval!Next
<1>9. CASE verdict # "PASS"
  <2>1. k.status \in {"ESCALATED", "BLOCKED"}
    BY <1>1, <1>4, <1>9 DEF StatusAfter, Verdicts
  <2>2. Claim(k) = None
    BY <2>1 DEF Claim
  <2>3. InForce' = InForce
    BY <1>1, <1>3, <1>5, <2>2, QuietStore DEF IInv
  <2> QED
    BY <1>5, <1>6, <1>9, <2>3 DEF AbstractStep, AbstractVars
<1> QED
  BY <1>8, <1>9

\* Handing a decision to a person touches no approval (escalate,
\* record_build_escalation).
LEMMA BuildEscalatedQuietly ==
  ASSUME IInv, NEW sha \in Commits, NEW round, BuildEscalatable(sha),
         Store(sha, BuildEscalated(sha, round))
  PROVE  InForce' = InForce
<1>1. Claim(cycles[sha]) = None
  BY DEF BuildEscalatable, Claim, Known
<1>2. BuildEscalated(sha, round).status = "ESCALATED"
  <2>1. CASE sha \in Known
    BY <2>1, KnownFacts DEF BuildEscalated, Escalated, Cycle
  <2>2. CASE sha \notin Known
    BY <2>2 DEF BuildEscalated, Escalated, FreshCycle
  <2> QED
    BY <2>1, <2>2
<1>3. Claim(BuildEscalated(sha, round)) = None
  BY <1>2 DEF Claim
<1> QED
  BY <1>1, <1>3, QuietStore DEF IInv

\* Neither do a person's rulings, which move only escalated cycles, nor a stop
\* on a cycle the build opened (resolve_escalation, escalate).
LEMMA RulingImplements ==
  ASSUME IInv, NEW cid \in Commits, Escalate(cid) \/ Reopen(cid) \/ Close(cid)
  PROVE  AbstractStep
<1>1. /\ cycles[cid] \in Cycle
      /\ cycles[cid].status \in {"OPEN", "BLOCKED", "ESCALATED"}
  BY KnownFacts DEF Escalate, Reopen, Close
<1>2. PICK k : Store(cid, k) /\ k.status \in {"OPEN", "BLOCKED", "ESCALATED"}
  <2>1. CASE Escalate(cid)
    <3>1. Escalated(cycles[cid]).status = "ESCALATED"
      BY <1>1 DEF Escalated, Cycle
    <3> QED
      BY <2>1, <3>1 DEF Escalate
  <2>2. CASE Reopen(cid)
    <3>1. [cycles[cid] EXCEPT !.status = "OPEN", !.awaiting = TRUE,
                              !.reopened = TRUE].status = "OPEN"
      BY <1>1 DEF Cycle
    <3> QED
      BY <2>2, <3>1 DEF Reopen
  <2>3. CASE Close(cid)
    <3>1. [cycles[cid] EXCEPT !.status = "BLOCKED", !.closed = TRUE,
                              !.reopened = FALSE].status = "BLOCKED"
      BY <1>1 DEF Cycle
    <3> QED
      BY <2>3, <3>1 DEF Close
  <2> QED
    BY <2>1, <2>2, <2>3
<1>3. Claim(cycles[cid]) = None /\ Claim(k) = None
  BY <1>1, <1>2 DEF Claim
<1>4. InForce' = InForce
  BY <1>2, <1>3, QuietStore DEF IInv
<1>5. UNCHANGED <<audits, admissions>>
  BY DEF Escalate, Reopen, Close
<1> QED
  BY <1>4, <1>5 DEF AbstractStep, AbstractVars, Said, Endorsed

\* An admission is the abstract Spend (StateStore.admit).
LEMMA AdmitImplements ==
  ASSUME IInv, NEW v \in Verifiers, Admit(v)
  PROVE  AbstractStep
<1> DEFINE a   == verifying[v]
           cid == audits[a].cid
           k   == [cycles[cid] EXCEPT !.status = "CONSUMED",
                                      !.consumed = @ \cup {a}]
<1>1. /\ a \in Audits /\ audits[a].verdict = "PASS" /\ a # None /\ "PASS" # None
      /\ Admissible(cycles[cid], a) /\ Store(cid, k)
      /\ admissions' = [admissions EXCEPT ![a] = @ + 1]
      /\ UNCHANGED audits
  BY NoneAssumption DEF Admit, IInv, TypeOK, VerifiersGood, GoodVerifier, Verdicts
<1>2. audits[a].stage # "idle"
  BY <1>1 DEF IInv, AuditsGood, GoodAudit
<1>3. cid \in Commits /\ cycles[cid] \in Cycle
  BY <1>1, <1>2, AuditFacts
<1>4. cycles[cid].status = "PASSED" /\ cycles[cid].receipt = a /\ cycles[cid] # None
  BY <1>1, <1>3, NoneAssumption DEF Admissible
<1>5. admissions[a] = 0
  BY <1>1, <1>4 DEF IInv, TypeOK, AdmissionsGood, GoodAdmission
<1>6. k.status = "CONSUMED" /\ k.receipt = a /\ k \in Cycle
  BY <1>1, <1>3, <1>4 DEF Cycle, Statuses
<1>6a. k # None
  BY <1>6, NoneAssumption
<1> HIDE DEF k
<1>7. InForce[cid] = a /\ Claim(k) = a
  BY <1>3, <1>4, <1>6, <1>6a DEF InForce, Claim
<1>8. InForce' = InForce
  <2>1. InForce' = [InForce EXCEPT ![cid] = Claim(k)]
    BY <1>1, <1>3, StoreClaims DEF IInv
  <2> QED
    BY <1>3, <1>7, <2>1 DEF InForce
<1>9. admissions' = [admissions EXCEPT ![InForce[cid]] = 1]
  BY <1>1, <1>5, <1>7
<1>10. Approval!Spend(cid)
  BY <1>1, <1>5, <1>7, <1>8, <1>9 DEF Approval!Spend, Said, Endorsed
<1> QED
  BY <1>3, <1>10 DEF AbstractStep, Approval!Next

-----------------------------------------------------------------------------
(* The refinement. *)

\* The empty store has no receipts and no approvals.
LEMMA InitImplements == Init => Approval!Init
BY NoneAssumption DEF Init, IdleAudit, Approval!Init, Said, Endorsed, InForce, Claim

\* Every step of the store is a step of Approvals or leaves its state alone.
LEMMA NextImplements == IInv /\ [Next]_vars => AbstractStep
<1> SUFFICES ASSUME IInv, [Next]_vars PROVE AbstractStep
  OBVIOUS
<1>1. ASSUME NEW a \in Audits, RecordLock(a)
      PROVE  AbstractStep
  <2>1. audits[a].stage = "locked" /\ audits[a].sha \in Commits
    BY <1>1, AuditFacts DEF RecordLock
  <2>2. Said' = Said /\ Endorsed' = Endorsed
    BY <1>1, <2>1, EndedQuietly DEF RecordLock
  <2>3. InForce' = InForce
    BY <1>1, <2>1, BuildEscalatedQuietly DEF RecordLock, InForce
  <2> QED
    BY <1>1, <2>2, <2>3 DEF RecordLock, AbstractStep, AbstractVars
<1>2. ASSUME NEW a \in Audits, ContinuationRefused(a) \/ VerdictNotRecorded(a)
      PROVE  AbstractStep
  <2>1. Said' = Said /\ Endorsed' = Endorsed
    BY <1>2, EndedQuietly DEF ContinuationRefused, VerdictNotRecorded
  <2> QED
    BY <1>2, <2>1 DEF ContinuationRefused, VerdictNotRecorded, AbstractStep,
       AbstractVars, InForce
<1>3. ASSUME NEW sha \in Commits, NEW round, RecordBuildEscalation(sha, round)
      PROVE  AbstractStep
  BY <1>3, BuildEscalatedQuietly DEF RecordBuildEscalation, AbstractStep,
     AbstractVars, Said, Endorsed
<1>4. ASSUME NEW v \in Verifiers,
             (\E a \in Audits : Verify(v, a)) \/ AdmissionRefused(v)
      PROVE  AbstractStep
  BY <1>4 DEF Verify, AdmissionRefused, AbstractStep, AbstractVars, Said, Endorsed, InForce
<1>5. ASSUME NEW a \in Audits, NEW cid \in Commits, NEW sha \in Commits,
             ProveAncestry(a, cid, sha)
      PROVE  AbstractStep
  <2> DEFINE x == [IdleAudit EXCEPT !.stage = "proving", !.cid = cid, !.sha = sha]
  <2>1. x \in Audit /\ x.stage = "proving" /\ x.verdict = None
    BY DEF IdleAudit, Audit, Stages
  <2>2. audits[a].verdict = None /\ audits[a].stage # "recorded"
    BY <1>5, Unminted DEF ProveAncestry
  <2>3. audits' = [audits EXCEPT ![a] = x]
    BY <1>5 DEF ProveAncestry
  <2>4. Said' = Said /\ Endorsed' = Endorsed
    BY <2>1, <2>2, <2>3, QuietAudit DEF IInv
  <2> QED
    BY <1>5, <2>4 DEF ProveAncestry, AbstractStep, AbstractVars, InForce
<1>6. CASE UNCHANGED vars
  BY <1>6 DEF vars, AbstractStep, AbstractVars, Said, Endorsed, InForce
<1> QED
  BY <1>1, <1>2, <1>3, <1>4, <1>5, <1>6, OpenOrAdvanceImplements,
     ContinueCycleImplements, MintReceiptImplements, RecordVerdictImplements,
     RulingImplements, AdmitImplements DEF Next

\* The cycle store implements Approvals: whatever the audits, stops, rulings and
\* verifiers do, a cycle's approval is never replaced while in force, and is
\* spent at most once and only while in force (StateStore).
THEOREM StoreImplementsApprovals == Spec => ImplementsApprovals
<1>1. Init => Approval!Init
  BY InitImplements
<1>2. IInv /\ [Next]_vars => [Approval!Next]_Approval!vars
  BY NextImplements DEF AbstractStep, AbstractVars, Approval!vars
<1> QED
  BY <1>1, <1>2, StoreInvariant, PTL DEF Spec, ImplementsApprovals, Approval!Spec
=============================================================================
