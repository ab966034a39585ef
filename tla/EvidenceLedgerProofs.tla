------------------------ MODULE EvidenceLedgerProofs ------------------------
(***************************************************************************)
(* The evidence ledger keeps one chain, for any number of writers and      *)
(* faults, for as long as no lock file was removed under its holder.  The  *)
(* inductive invariant says why: only the writer named in the lock file is *)
(* past the lock, its line continues the file as it is, and a cached head  *)
(* is either the last line of a file of that size or of a torn one, which  *)
(* is refused before the head is looked at.                                *)
(***************************************************************************)
EXTENDS EvidenceLedger, TLAPS

WriterRecord == [stage: Stages, what: What \cup {None},
                 result: Results \cup {None}, line: Entry \cup {None},
                 head: Nat \cup {None}, size: Nat \X BOOLEAN]

\* What a writer remembers: its line while it writes, what it was called with
\* while it waits, and a head that fits the size remembered with it.
GoodWriter(x) ==
  /\ x \in WriterRecord
  /\ x.stage = "writing" => x.line \in Entry
  /\ x.stage \in {"waiting", "breaking"} => x.what \in What
  /\ x.head # None /\ ~x.size[2] => x.head = x.size[1]

WritersGood == \A w \in Writers : GoodWriter(writer[w])

\* The lock file names whoever is past the lock.
LockHeld == \A w \in Writers : Holds(w) => lock = w

\* The line about to be written continues the file.
LineContinues ==
  \A w \in Writers : writer[w].stage = "writing" =>
    ~Torn /\ writer[w].line.prev = Len(entries) /\ writer[w].line.seq = Len(entries)

ChainGood == ChainVerifies /\ LockHeld /\ LineContinues

LedgerInv == LedgerTypeOK /\ WritersGood /\ (~overtaken => ChainGood)

\* Everything that can happen to a ledger.
LedgerNext ==
  \/ \E w \in Writers, what \in What : AppendEntry(w, what)
  \/ \E w \in Writers : LedgerStep(w) \/ LedgerDeath(w)
  \/ LockGrowsOld

-----------------------------------------------------------------------------
\* One writer moves: the others remember what they did.
LEMMA WriterMoves ==
  ASSUME LedgerInv, NEW w \in Writers, NEW x, GoodWriter(x),
         writer' = [writer EXCEPT ![w] = x]
  PROVE  /\ writer' \in [Writers -> WriterRecord]
         /\ WritersGood'
         /\ writer'[w] = x
         /\ \A v \in Writers : v # w => writer'[v] = writer[v]
<1>1. writer \in [Writers -> WriterRecord]
  BY DEF LedgerInv, LedgerTypeOK, WriterRecord
<1>2. x \in WriterRecord
  BY DEF GoodWriter
<1>3. writer'[w] = x /\ \A v \in Writers : v # w => writer'[v] = writer[v]
  BY <1>1
<1>4. WritersGood'
  BY <1>3 DEF LedgerInv, WritersGood
<1> QED
  BY <1>1, <1>2, <1>3, <1>4

\* A writer that neither takes nor leaves the lock disturbs nothing.
LEMMA OutsideTheLock ==
  ASSUME LedgerInv, NEW w \in Writers, NEW x, GoodWriter(x),
         writer' = [writer EXCEPT ![w] = x], ~Holds(w),
         x.stage \in {"idle", "waiting", "breaking"},
         UNCHANGED <<entries, half, lock, stale, overtaken>>,
         faults' \in 0..MaxFaults
  PROVE  LedgerInv'
<1>1. /\ writer' \in [Writers -> WriterRecord] /\ WritersGood'
      /\ writer'[w] = x /\ \A v \in Writers : v # w => writer'[v] = writer[v]
  BY WriterMoves
<1>2. LedgerTypeOK'
  BY <1>1 DEF LedgerInv, LedgerTypeOK, WriterRecord
<1>3. ASSUME ~overtaken PROVE ChainGood'
  BY <1>1, <1>3 DEF LedgerInv, ChainGood, ChainVerifies, LockHeld, LineContinues, Holds, Torn
<1> QED
  BY <1>1, <1>2, <1>3 DEF LedgerInv

\* append is called, an old lock is seen, the deadline passes.
LEMMA CallsAndDeadlines ==
  ASSUME LedgerInv, NEW w \in Writers,
         \/ \E what \in What : AppendEntry(w, what)
         \/ SeeStaleLock(w) \/ GiveUp(w)
  PROVE  LedgerInv'
<1>1. writer[w] \in WriterRecord /\ GoodWriter(writer[w])
  BY DEF LedgerInv, WritersGood, GoodWriter
<1>2. faults \in 0..MaxFaults
  BY DEF LedgerInv, LedgerTypeOK
<1>3. ASSUME NEW what \in What, AppendEntry(w, what)
      PROVE  LedgerInv'
  <2> DEFINE x == [writer[w] EXCEPT !.stage = "waiting", !.what = what, !.result = None]
  <2>1. GoodWriter(x) /\ x.stage = "waiting"
    BY <1>1 DEF GoodWriter, WriterRecord, Stages
  <2>2. writer' = [writer EXCEPT ![w] = x]
    BY <1>3 DEF AppendEntry, LedgerInv, LedgerTypeOK
  <2> QED
    BY <1>2, <1>3, <2>1, <2>2, OutsideTheLock DEF AppendEntry, Holds
<1>4. CASE SeeStaleLock(w)
  <2> DEFINE x == [writer[w] EXCEPT !.stage = "breaking"]
  <2>1. GoodWriter(x) /\ x.stage = "breaking"
    BY <1>1, <1>4 DEF GoodWriter, WriterRecord, Stages, SeeStaleLock
  <2>2. writer' = [writer EXCEPT ![w] = x]
    BY <1>4 DEF SeeStaleLock, LedgerInv, LedgerTypeOK
  <2> QED
    BY <1>2, <1>4, <2>1, <2>2, OutsideTheLock DEF SeeStaleLock, Holds
<1>5. CASE GiveUp(w)
  <2> DEFINE x == [writer[w] EXCEPT !.stage = "idle", !.what = None, !.result = "refused"]
  <2>1. GoodWriter(x) /\ x.stage = "idle"
    BY <1>1, <1>5 DEF GoodWriter, WriterRecord, Stages, Results, GiveUp
  <2>2. writer' = [writer EXCEPT ![w] = x]
    BY <1>5 DEF GiveUp, LedgerInv, LedgerTypeOK
  <2>3. faults' \in 0..MaxFaults
    BY <1>2, <1>5, FaultAssumption DEF GiveUp, Fault
  <2> QED
    BY <1>5, <2>1, <2>2, <2>3, OutsideTheLock DEF GiveUp, Holds
<1> QED
  BY <1>3, <1>4, <1>5

\* Removing a lock file, by a waiter that found it old or by a holder on its way
\* out: either it was the remover's own or nobody's, or the ledger is overtaken.
LEMMA Unlinking ==
  ASSUME LedgerInv, NEW w \in Writers, BreakLock(w) \/ ReleaseLock(w)
  PROVE  LedgerInv'
<1> DEFINE x == [writer[w] EXCEPT !.stage = IF BreakLock(w) THEN "waiting" ELSE "idle"]
<1>1. /\ Unlink(w) /\ UNCHANGED <<entries, half, faults>>
      /\ writer' = [writer EXCEPT ![w] = x]
      /\ writer[w].stage \in {"breaking", "leaving"}
  BY DEF BreakLock, ReleaseLock, LedgerInv, LedgerTypeOK
<1>2. GoodWriter(x) /\ x.stage \in {"waiting", "idle"}
  <2>1. GoodWriter(writer[w])
    BY DEF LedgerInv, WritersGood
  <2>2. BreakLock(w) => writer[w].stage = "breaking"
    BY DEF BreakLock
  <2> QED
    BY <2>1, <2>2 DEF GoodWriter, WriterRecord, Stages
<1> HIDE DEF x
<1>3. /\ writer' \in [Writers -> WriterRecord] /\ WritersGood'
      /\ writer'[w] = x /\ \A v \in Writers : v # w => writer'[v] = writer[v]
  BY <1>1, <1>2, WriterMoves
<1>4. LedgerTypeOK'
  BY <1>1, <1>3 DEF LedgerInv, LedgerTypeOK, WriterRecord, Unlink
<1>5. ASSUME ~overtaken' PROVE ChainGood'
  <2>1. ~overtaken /\ ChainGood /\ (lock = None \/ lock = w \/ ~Holds(lock))
    BY <1>1, <1>5 DEF Unlink, LedgerInv
  <2>2. \A v \in Writers : v # w => ~Holds(v)
    BY <2>1, NoneAssumption DEF ChainGood, LockHeld
  <2>3. \A v \in Writers : ~Holds(v)'
    BY <1>2, <1>3, <2>2 DEF Holds
  <2> QED
    BY <1>1, <2>1, <2>3 DEF ChainGood, ChainVerifies, LockHeld, LineContinues, Holds
<1> QED
  BY <1>3, <1>4, <1>5 DEF LedgerInv

\* With the lock free and no torn tail the head is the last line's place, cached
\* or not, and the line made from it is the next one.
LEMMA HeadIsLast ==
  ASSUME LedgerInv, NEW w \in Writers, ~Torn, ChainVerifies
  PROVE  HeadPlace(w) = Len(entries) /\ SeqAfter(Len(entries)) = Len(entries)
<1>1. GoodWriter(writer[w]) /\ Len(entries) \in Nat
  BY DEF LedgerInv, WritersGood, LedgerTypeOK
<1>2. HeadPlace(w) = Len(entries)
  BY <1>1 DEF HeadPlace, Size, GoodWriter, WriterRecord
<1>3. SeqAfter(Len(entries)) = Len(entries)
  BY <1>1 DEF SeqAfter, ChainVerifies
<1> QED
  BY <1>2, <1>3

\* Whatever is cached or glued, the line made is an entry.
LEMMA LineTyped ==
  ASSUME LedgerInv, NEW w \in Writers, NEW what \in What
  PROVE  [seq |-> SeqAfter(HeadPlace(w)), prev |-> HeadPlace(w), what |-> what] \in Entry
<1>1. GoodWriter(writer[w]) /\ Len(entries) \in Nat
  BY DEF LedgerInv, WritersGood, LedgerTypeOK
<1>2. HeadPlace(w) \in Nat
  BY <1>1 DEF HeadPlace, GoodWriter, WriterRecord
<1>3. ASSUME NEW h \in Nat PROVE SeqAfter(h) \in Nat
  <2>1. CASE h \in 1..Len(entries)
    <3>1. entries[h] \in Entry \cup {Glued}
      BY <2>1 DEF LedgerInv, LedgerTypeOK
    <3>2. entries[h].seq \in Nat \/ entries[h].seq = -1
      BY <3>1 DEF Entry, Glued
    <3> QED
      BY <2>1, <3>2 DEF SeqAfter
  <2>2. CASE h \notin 1..Len(entries)
    BY <2>2 DEF SeqAfter
  <2> QED
    BY <2>1, <2>2
<1> QED
  BY <1>2, <1>3 DEF Entry

\* The lock is taken: by O_EXCL nobody else is past it.
LEMMA Taking ==
  ASSUME LedgerInv, NEW w \in Writers, TakeLock(w)
  PROVE  LedgerInv'
<1> DEFINE h == HeadPlace(w)
           line == [seq |-> SeqAfter(h), prev |-> h, what |-> writer[w].what]
           x == [writer[w] EXCEPT
                   !.stage = IF Torn THEN "leaving" ELSE "writing",
                   !.result = IF Torn THEN "refused" ELSE None,
                   !.what = None,
                   !.line = IF Torn THEN None ELSE line]
<1>1. /\ writer[w].stage = "waiting" /\ lock = None /\ lock' = w /\ stale' = FALSE
      /\ writer' = [writer EXCEPT ![w] = x]
      /\ UNCHANGED <<entries, half, overtaken, faults>>
  BY DEF TakeLock, LockIsFree, RefuseTornTail, LedgerInv, LedgerTypeOK
<1>2. line \in Entry /\ line.prev = h /\ line.seq = SeqAfter(h)
  <2>1. writer[w].what \in What
    BY <1>1 DEF LedgerInv, WritersGood, GoodWriter
  <2> QED
    BY <2>1, LineTyped
<1> HIDE DEF line
<1>3. GoodWriter(writer[w])
  BY DEF LedgerInv, WritersGood
<1>4. GoodWriter(x)
  BY <1>2, <1>3 DEF GoodWriter, WriterRecord, Stages, Results
<1>5. /\ x.stage = "writing" => ~Torn /\ x.line = line
      /\ x.stage \in {"writing", "leaving"}
  BY <1>3 DEF GoodWriter, WriterRecord
<1> HIDE DEF x
<1>6. /\ writer' \in [Writers -> WriterRecord] /\ WritersGood'
      /\ writer'[w] = x /\ \A v \in Writers : v # w => writer'[v] = writer[v]
  BY <1>1, <1>4, WriterMoves
<1>7. LedgerTypeOK'
  BY <1>1, <1>6 DEF LedgerInv, LedgerTypeOK, WriterRecord
<1>8. ASSUME ~overtaken PROVE ChainGood'
  <2>1. ChainGood
    BY <1>8 DEF LedgerInv
  <2>2. \A v \in Writers : ~Holds(v)
    BY <1>1, <2>1, NoneAssumption DEF ChainGood, LockHeld
  <2>3. LockHeld'
    BY <1>1, <1>6, <2>2 DEF LockHeld, Holds
  <2>4. LineContinues'
    <3>1. ~Torn => h = Len(entries) /\ SeqAfter(h) = Len(entries)
      BY <2>1, HeadIsLast DEF ChainGood
    <3> QED
      BY <1>1, <1>2, <1>5, <1>6, <2>2, <3>1 DEF LineContinues, Holds, Torn
  <2> QED
    BY <1>1, <2>1, <2>3, <2>4 DEF ChainGood, ChainVerifies
<1> QED
  BY <1>1, <1>6, <1>7, <1>8 DEF LedgerInv

\* What reaches the file is typed; a whole line that continues an intact chain
\* continues it, and part of one leaves the lines as they were.
LEMMA WrittenTyped ==
  ASSUME LedgerInv, NEW line \in Entry, NEW whole \in BOOLEAN, Written(line, whole)
  PROVE  /\ entries' \in Seq(Entry \cup {Glued}) /\ half' \in What \cup {None}
         /\ half' # None <=> ~whole
         /\ Len(entries') = IF whole THEN Len(entries) + 1 ELSE Len(entries)
<1>1. entries \in Seq(Entry \cup {Glued}) /\ line.what \in What /\ line.what # None
  BY NoneAssumption DEF LedgerInv, LedgerTypeOK, Entry
<1>2. half' \in What \cup {None} /\ (half' # None <=> ~whole)
  BY <1>1 DEF Written
<1>3. CASE whole
  <2>1. PICK e \in Entry \cup {Glued} : entries' = Append(entries, e)
    BY <1>3 DEF Written
  <2> QED
    BY <1>1, <1>2, <1>3, <2>1
<1>4. CASE ~whole
  BY <1>1, <1>2, <1>4 DEF Written
<1> QED
  BY <1>3, <1>4

LEMMA WrittenContinues ==
  ASSUME LedgerInv, ChainVerifies, ~Torn, NEW line \in Entry, NEW whole \in BOOLEAN,
         Written(line, whole), line.prev = Len(entries), line.seq = Len(entries)
  PROVE  ChainVerifies'
<1>1. entries \in Seq(Entry \cup {Glued})
  BY DEF LedgerInv, LedgerTypeOK
<1>2. CASE whole
  <2>1. entries' = Append(entries, line)
    BY <1>2 DEF Written
  <2>2. line \in Entry \cup {Glued} /\ Len(entries) \in Nat
    BY <1>1
  <2>3. ASSUME NEW i \in 1..Len(entries')
        PROVE  entries'[i].prev = i - 1 /\ entries'[i].seq = i - 1
    <3>1. Len(entries') = Len(entries) + 1
      BY <1>1, <2>1, <2>2
    <3>2. CASE i = Len(entries) + 1
      <4>1. entries'[i] = line
        BY <1>1, <2>1, <2>2, <3>2
      <4> QED
        BY <2>2, <3>2, <4>1
    <3>3. CASE i # Len(entries) + 1
      <4>1. i \in 1..Len(entries) /\ entries'[i] = entries[i]
        BY <1>1, <2>1, <2>2, <3>1, <3>3
      <4> QED
        BY <4>1 DEF ChainVerifies
    <3> QED
      BY <3>2, <3>3
  <2> QED
    BY <2>3 DEF ChainVerifies
<1>3. CASE ~whole
  BY <1>3 DEF Written, ChainVerifies
<1> QED
  BY <1>2, <1>3

\* The line is written, all of it or a part; the head cached with it fits.
LEMMA Writes ==
  ASSUME LedgerInv, NEW w \in Writers, NEW whole \in BOOLEAN, Write(w, whole)
  PROVE  LedgerInv'
<1> DEFINE line == writer[w].line
           x == [writer[w] EXCEPT !.stage = "leaving", !.result = "written",
                   !.head = Len(entries) + 1, !.size = Size', !.line = None]
<1>1. /\ writer[w].stage = "writing" /\ Written(line, whole)
      /\ writer' = [writer EXCEPT ![w] = x]
      /\ UNCHANGED <<lock, stale, overtaken>>
  BY DEF Write, LedgerInv, LedgerTypeOK
<1>2. GoodWriter(writer[w]) /\ line \in Entry /\ Len(entries) \in Nat
  BY <1>1 DEF LedgerInv, WritersGood, GoodWriter, LedgerTypeOK
<1>3. /\ entries' \in Seq(Entry \cup {Glued}) /\ half' \in What \cup {None}
      /\ half' # None <=> ~whole
      /\ Len(entries') = IF whole THEN Len(entries) + 1 ELSE Len(entries)
  BY <1>1, <1>2, WrittenTyped
<1>4. GoodWriter(x) /\ x.stage = "leaving"
  <2>1. Size' \in Nat \X BOOLEAN /\ (~Size'[2] => Size'[1] = Len(entries) + 1)
    <3>1. Size' = <<Len(entries'), ~whole>>
      BY <1>3 DEF Size, Torn
    <3>2. Len(entries') \in Nat /\ (whole => Len(entries') = Len(entries) + 1)
      BY <1>2, <1>3
    <3> QED
      BY <3>1, <3>2
  <2>2. Len(entries) + 1 \in Nat
    BY <1>2
  <2> DEFINE n == Len(entries) + 1
             z == Size'
  <2>3. n \in Nat /\ z \in Nat \X BOOLEAN /\ (~z[2] => n = z[1])
    BY <2>1, <2>2
  <2>4. x = [writer[w] EXCEPT !.stage = "leaving", !.result = "written",
                              !.head = n, !.size = z, !.line = None]
    OBVIOUS
  <2> HIDE DEF line, n, z, x
  <2>5. writer[w] \in WriterRecord
    BY <1>2 DEF GoodWriter
  <2>6. x \in WriterRecord /\ x.stage = "leaving" /\ x.head = n /\ x.size = z
    BY <2>3, <2>4, <2>5 DEF WriterRecord, Stages, Results
  <2> QED
    BY <2>3, <2>6 DEF GoodWriter
<1> HIDE DEF x
<1>5. /\ writer' \in [Writers -> WriterRecord] /\ WritersGood'
      /\ writer'[w] = x /\ \A v \in Writers : v # w => writer'[v] = writer[v]
  BY <1>1, <1>4, WriterMoves
<1>6. faults' \in 0..MaxFaults
  BY FaultAssumption DEF Write, Fault, LedgerInv, LedgerTypeOK
<1>7. LedgerTypeOK'
  BY <1>1, <1>3, <1>5, <1>6 DEF LedgerInv, LedgerTypeOK, WriterRecord
<1>8. ASSUME ~overtaken PROVE ChainGood'
  <2>1. ChainGood
    BY <1>8 DEF LedgerInv
  <2>2. \A v \in Writers : v # w => ~Holds(v)
    BY <1>1, <2>1 DEF ChainGood, LockHeld, Holds
  <2>3. ChainVerifies'
    BY <1>1, <1>2, <2>1, WrittenContinues DEF ChainGood, LineContinues
  <2>4. LockHeld' /\ LineContinues'
    BY <1>1, <1>4, <1>5, <2>1, <2>2 DEF ChainGood, LockHeld, LineContinues, Holds
  <2> QED
    BY <2>3, <2>4 DEF ChainGood
<1> QED
  BY <1>1, <1>5, <1>7, <1>8 DEF LedgerInv

\* A death in the middle of a write leaves a part of a line that continued the
\* chain; one anywhere else leaves the file alone.
LEMMA Dying ==
  ASSUME LedgerInv, NEW w \in Writers, LedgerDeath(w)
  PROVE  LedgerInv'
<1>1. /\ writer' = [writer EXCEPT ![w] = Fresh]
      /\ UNCHANGED <<entries, lock, stale, overtaken>>
      /\ faults' \in 0..MaxFaults
      /\ half' = half \/ (writer[w].stage = "writing" /\ half' \in What)
  BY FaultAssumption
  DEF LedgerDeath, Fault, LedgerInv, LedgerTypeOK, WritersGood, GoodWriter, Entry
<1>2. GoodWriter(Fresh) /\ Fresh.stage = "idle"
  BY DEF GoodWriter, WriterRecord, Fresh, Stages
<1>3. /\ writer' \in [Writers -> WriterRecord] /\ WritersGood'
      /\ writer'[w] = Fresh /\ \A v \in Writers : v # w => writer'[v] = writer[v]
  BY <1>1, <1>2, WriterMoves
<1>4. LedgerTypeOK'
  BY <1>1, <1>3 DEF LedgerInv, LedgerTypeOK, WriterRecord
<1>5. ASSUME ~overtaken PROVE ChainGood'
  <2>1. ChainGood
    BY <1>5 DEF LedgerInv
  <2>2. LockHeld' /\ ChainVerifies'
    BY <1>1, <1>2, <1>3, <2>1 DEF ChainGood, LockHeld, Holds, ChainVerifies
  <2>3. LineContinues'
    <3>1. CASE half' = half
      BY <1>1, <1>2, <1>3, <2>1, <3>1 DEF ChainGood, LineContinues, Torn
    <3>2. CASE writer[w].stage = "writing"
      <4>1. \A v \in Writers : v # w => ~Holds(v)
        BY <2>1, <3>2 DEF ChainGood, LockHeld, Holds
      <4> QED
        BY <1>2, <1>3, <4>1 DEF LineContinues, Holds
    <3> QED
      BY <1>1, <3>1, <3>2
  <2> QED
    BY <2>2, <2>3 DEF ChainGood
<1> QED
  BY <1>1, <1>3, <1>4, <1>5 DEF LedgerInv

\* The empty ledger is a chain.
LEMMA LedgerStarts == LedgerInit => LedgerInv
<1> SUFFICES ASSUME LedgerInit PROVE LedgerInv
  OBVIOUS
<1>1. Fresh \in WriterRecord /\ GoodWriter(Fresh) /\ Fresh.stage = "idle"
  BY DEF GoodWriter, WriterRecord, Fresh, Stages
<1>2. \A w \in Writers : writer[w] = Fresh
  BY DEF LedgerInit
<1>3. entries = <<>> /\ Len(entries) = 0
  BY DEF LedgerInit
<1>4. LedgerTypeOK
  <2>1. entries \in Seq(Entry \cup {Glued}) /\ faults \in 0..MaxFaults
    BY <1>3, FaultAssumption DEF LedgerInit
  <2>2. writer \in [Writers -> WriterRecord]
    BY <1>1 DEF LedgerInit
  <2> QED
    BY <2>1, <2>2 DEF LedgerInit, LedgerTypeOK, WriterRecord
<1>5. WritersGood
  BY <1>1, <1>2 DEF WritersGood
<1>6. ChainGood
  BY <1>1, <1>2, <1>3 DEF ChainGood, ChainVerifies, LockHeld, LineContinues, Holds
<1> QED
  BY <1>4, <1>5, <1>6 DEF LedgerInv

\* Nothing that happens to a ledger breaks the invariant (EvidenceLedger.append).
LEMMA LedgerKeeps ==
  ASSUME LedgerInv, [LedgerNext]_ledgerVars
  PROVE  LedgerInv'
<1>1. CASE UNCHANGED ledgerVars
  BY <1>1 DEF ledgerVars, LedgerInv, LedgerTypeOK, WritersGood, ChainGood, ChainVerifies,
     LockHeld, LineContinues, Holds, Torn
<1>2. CASE LockGrowsOld
  <2>1. faults' \in 0..MaxFaults /\ stale' \in BOOLEAN
        /\ UNCHANGED <<entries, half, lock, writer, overtaken>>
    BY <1>2, FaultAssumption DEF LockGrowsOld, Fault, LedgerInv, LedgerTypeOK
  <2> QED
    BY <2>1 DEF LedgerInv, LedgerTypeOK, WritersGood, ChainGood, ChainVerifies,
       LockHeld, LineContinues, Holds, Torn
<1> QED
  BY <1>1, <1>2, CallsAndDeadlines, Unlinking, Taking, Writes, Dying
  DEF LedgerNext, LedgerStep

-----------------------------------------------------------------------------
(* The ledger implements AtomicLog. *)

Attempts == [w \in Writers |-> Attempt(w)]

\* One writer moves: the appends of the others stay what they were.
LEMMA AttemptMoves ==
  ASSUME NEW w \in Writers, \A v \in Writers : v # w => writer'[v] = writer[v]
  PROVE  Attempts' = [Attempts EXCEPT ![w] = Attempt(w)']
BY DEF Attempts, Attempt

\* What one line more says, whole or cut off.
LEMMA SaidGrows ==
  ASSUME LedgerInv, ~Torn, NEW line \in Entry,
         \/ entries' = Append(entries, line) /\ half' = None
         \/ entries' = entries /\ half' = line.what
  PROVE  Said' = Append(Said, line.what)
<1>1. /\ entries \in Seq(Entry \cup {Glued}) /\ Len(entries) \in Nat
      /\ line \in Entry \cup {Glued} /\ line.what # None
  BY NoneAssumption DEF LedgerInv, LedgerTypeOK, Entry
<1> DEFINE whats == [i \in 1..Len(entries) |-> entries[i].what]
<1>2. \A i \in 1..Len(entries) : entries[i].what \in What \cup {None}
  BY <1>1 DEF Entry, Glued
<1>3. whats \in Seq(What \cup {None}) /\ Len(whats) = Len(entries)
  BY <1>1, <1>2
<1>4. Said = whats
  BY <1>3 DEF Said, Torn
<1>5. CASE entries' = Append(entries, line) /\ half' = None
  <2>1. /\ Len(entries') = Len(entries) + 1
        /\ \A i \in 1..Len(entries) : entries'[i] = entries[i]
        /\ entries'[Len(entries) + 1] = line
    BY <1>1, <1>5
  <2> DEFINE more == [i \in 1..Len(entries') |-> entries'[i].what]
  <2>2. more = Append(whats, line.what)
    BY <1>1, <1>3, <2>1
  <2>3. more \in Seq(What \cup {None})
    BY <1>3, <2>2 DEF Entry
  <2>4. Said' = more
    BY <1>5, <2>3 DEF Said, Torn
  <2> QED
    BY <1>4, <2>2, <2>4
<1>6. CASE entries' = entries /\ half' = line.what
  <2>1. Said' = whats \o <<line.what>>
    BY <1>1, <1>6 DEF Said, Torn
  <2> QED
    BY <1>3, <1>4, <2>1 DEF Entry
<1> QED
  BY <1>5, <1>6

LogStep == Log!Next \/ UNCHANGED <<Said, Torn, Attempts>>

\* append is called, and gives up at its deadline.
LEMMA CallsAndDeadlinesLog ==
  ASSUME LedgerInv, NEW w \in Writers,
         \/ \E what \in What : AppendEntry(w, what)
         \/ SeeStaleLock(w) \/ GiveUp(w)
  PROVE  LogStep
<1>1. GoodWriter(writer[w]) /\ Attempts[w] = Attempt(w)
  BY DEF LedgerInv, WritersGood, Attempts
<1>2. /\ UNCHANGED <<Said, Torn>>
      /\ \A v \in Writers : v # w => writer'[v] = writer[v]
  BY DEF AppendEntry, SeeStaleLock, GiveUp, Said, Torn, LedgerInv, LedgerTypeOK
<1>3. Attempts' = [Attempts EXCEPT ![w] = Attempt(w)']
  BY <1>2, AttemptMoves
<1>4. ASSUME NEW what \in What, AppendEntry(w, what)
      PROVE  Log!Begin(w, what)
  <2>1. Attempt(w).what = None
    BY <1>4 DEF AppendEntry, Attempt
  <2>2. writer'[w].stage = "waiting" /\ writer'[w].what = what
    BY <1>4 DEF AppendEntry, LedgerInv, LedgerTypeOK
  <2>3. Attempt(w)' = Log!Appending(what)
    BY <2>2 DEF Attempt, Log!Appending
  <2> QED
    BY <1>1, <1>2, <1>3, <2>1, <2>3 DEF Log!Begin, Attempts
<1>5. CASE SeeStaleLock(w)
  <2>1. Attempt(w)' = Attempt(w)
    BY <1>5 DEF SeeStaleLock, Attempt, LedgerInv, LedgerTypeOK
  <2> QED
    BY <1>1, <1>2, <1>3, <2>1 DEF LogStep, Attempts
<1>6. CASE GiveUp(w)
  <2>1. Attempt(w).what # None /\ Attempt(w)' = Log!Answered("refused")
    BY <1>1, <1>6, NoneAssumption
    DEF GiveUp, GoodWriter, Attempt, Log!Answered, LedgerInv, LedgerTypeOK
  <2>2. Log!Refuse(w)
    BY <1>1, <1>2, <1>3, <2>1 DEF Log!Refuse, Attempts
  <2> QED
    BY <2>2 DEF LogStep, Log!Next, Log!Step
<1> QED
  BY <1>4, <1>5, <1>6 DEF LogStep, Log!Next, Log!Step

\* Whatever happens to the lock file is nothing to the log.
LEMMA UnlinkingLog ==
  ASSUME LedgerInv, NEW w \in Writers, BreakLock(w) \/ ReleaseLock(w)
  PROVE  LogStep
<1>1. /\ UNCHANGED <<Said, Torn>>
      /\ \A v \in Writers : v # w => writer'[v] = writer[v]
      /\ Attempt(w)' = Attempt(w)
  BY DEF BreakLock, ReleaseLock, Said, Torn, Attempt, LedgerInv, LedgerTypeOK
<1> QED
  BY <1>1, AttemptMoves DEF LogStep, Attempts

\* With the lock taken the append goes on, or meets the sealed end.
LEMMA TakingLog ==
  ASSUME LedgerInv, NEW w \in Writers, TakeLock(w)
  PROVE  LogStep
<1>1. /\ UNCHANGED <<Said, Torn>>
      /\ \A v \in Writers : v # w => writer'[v] = writer[v]
      /\ GoodWriter(writer[w]) /\ Attempts[w] = Attempt(w)
  BY DEF TakeLock, Said, Torn, Attempts, LedgerInv, LedgerTypeOK, WritersGood
<1>2. Attempts' = [Attempts EXCEPT ![w] = Attempt(w)']
  BY <1>1, AttemptMoves
<1>3. Attempt(w).what # None
  BY <1>1, NoneAssumption DEF TakeLock, GoodWriter, Attempt
<1>4. CASE Torn
  <2>1. Attempt(w)' = Log!Answered("refused")
    BY <1>4 DEF TakeLock, RefuseTornTail, Attempt, Log!Answered, LedgerInv, LedgerTypeOK
  <2>2. Log!Refuse(w)
    BY <1>1, <1>2, <1>3, <2>1 DEF Log!Refuse, Attempts
  <2> QED
    BY <2>2 DEF LogStep, Log!Next, Log!Step
<1>5. CASE ~Torn
  <2>1. Attempt(w)' = Attempt(w)
    BY <1>5 DEF TakeLock, RefuseTornTail, Attempt, LedgerInv, LedgerTypeOK
  <2> QED
    BY <1>1, <1>2, <2>1 DEF LogStep, Attempts
<1> QED
  BY <1>4, <1>5

\* The append takes effect when its line reaches the file.
LEMMA WritesLog ==
  ASSUME LedgerInv, NEW w \in Writers, NEW whole \in BOOLEAN, Write(w, whole), ~overtaken
  PROVE  LogStep
<1> DEFINE line == writer[w].line
<1>1. /\ writer[w].stage = "writing" /\ line \in Entry /\ Written(line, whole)
      /\ ~Torn /\ Attempts[w] = Attempt(w)
      /\ \A v \in Writers : v # w => writer'[v] = writer[v]
  BY DEF Write, LedgerInv, LedgerTypeOK, WritersGood, GoodWriter, ChainGood, LineContinues,
     Attempts
<1>2. Attempt(w).what = line.what /\ line.what # None
  BY <1>1, NoneAssumption DEF Attempt, Entry
<1>3. Attempt(w)' = Log!Answered("written")
  BY DEF Write, Attempt, Log!Answered, LedgerInv, LedgerTypeOK
<1>4. Attempts' = [Attempts EXCEPT ![w] = Attempt(w)']
  BY <1>1, AttemptMoves
<1>5. Said' = Append(Said, line.what)
  BY <1>1, SaidGrows DEF Written
<1>6. Torn' = ~whole
  BY <1>1, <1>2 DEF Written, Torn
<1>7. Log!TakeEffect(w, whole)
  BY <1>1, <1>2, <1>5, <1>6 DEF Log!TakeEffect, Attempts
<1>8. Log!Write(w)
  BY <1>3, <1>4, <1>7 DEF Log!Write, Attempts
<1> QED
  BY <1>8 DEF LogStep, Log!Next, Log!Step

\* A writer that dies leaves nothing, or the beginning of its line.
LEMMA DyingLog ==
  ASSUME LedgerInv, NEW w \in Writers, LedgerDeath(w), ~overtaken
  PROVE  LogStep
<1>1. /\ \A v \in Writers : v # w => writer'[v] = writer[v]
      /\ Attempt(w)' = Log!Answered(None) /\ Attempts[w] = Attempt(w)
  BY DEF LedgerDeath, Fresh, Attempt, Attempts, Log!Answered, LedgerInv, LedgerTypeOK
<1>2. Attempts' = [Attempts EXCEPT ![w] = Attempt(w)']
  BY <1>1, AttemptMoves
<1>3. Log!TakeEffect(w, FALSE) \/ UNCHANGED <<Said, Torn>>
  <2>1. CASE half' = half
    BY <2>1 DEF LedgerDeath, Said, Torn
  <2>2. CASE writer[w].stage = "writing" /\ half' = writer[w].line.what
    <3>1. ~Torn /\ writer[w].line \in Entry /\ entries' = entries
      BY <2>2 DEF LedgerDeath, LedgerInv, WritersGood, GoodWriter, ChainGood, LineContinues
    <3>2. Said' = Append(Said, writer[w].line.what)
      BY <2>2, <3>1, SaidGrows
    <3>3. writer[w].line.what # None /\ Attempt(w).what = writer[w].line.what
      BY <2>2, <3>1, NoneAssumption DEF Attempt, Entry
    <3> QED
      BY <1>1, <2>2, <3>1, <3>2, <3>3 DEF Log!TakeEffect, Attempts, Torn
  <2> QED
    BY <2>1, <2>2 DEF LedgerDeath
<1>4. Log!Die(w)
  BY <1>1, <1>2, <1>3 DEF Log!Die, Attempts
<1> QED
  BY <1>4 DEF LogStep, Log!Next, Log!Step

\* The empty ledger is the empty log, and whatever happens to a ledger whose lock
\* was never removed under its holder is a step of the log, or nothing to it.
LEMMA LedgerStartsLog == LedgerInit => Log!Init
<1> SUFFICES ASSUME LedgerInit PROVE Log!Init
  OBVIOUS
<1>1. Said = <<>> /\ ~Torn
  BY DEF LedgerInit, Said, Torn
<1>2. \A w \in Writers : Attempt(w) = Log!Answered(None)
  BY DEF LedgerInit, Fresh, Attempt, Log!Answered
<1> QED
  BY <1>1, <1>2 DEF Log!Init

LEMMA LedgerLogs ==
  ASSUME LedgerInv, [LedgerNext]_ledgerVars, ~overtaken'
  PROVE  [Log!Next]_(Log!vars)
<1>1. ~overtaken
  BY DEF LedgerNext, ledgerVars, LedgerStep, LedgerDeath, LockGrowsOld, AppendEntry, TakeLock,
     SeeStaleLock, BreakLock, GiveUp, ReleaseLock, Write, Unlink
<1>2. ASSUME UNCHANGED <<entries, half, writer>> PROVE LogStep
  <2>1. UNCHANGED <<Said, Torn>>
    BY <1>2 DEF Said, Torn
  <2>2. UNCHANGED Attempts
    BY <1>2 DEF Attempts, Attempt
  <2> QED
    BY <2>1, <2>2 DEF LogStep
<1>3. ASSUME UNCHANGED ledgerVars \/ LockGrowsOld PROVE LogStep
  BY <1>2, <1>3 DEF ledgerVars, LockGrowsOld
<1>4. ASSUME \E w \in Writers : LedgerStep(w) \/ LedgerDeath(w) PROVE LogStep
  BY <1>1, <1>4, CallsAndDeadlinesLog, UnlinkingLog, TakingLog, WritesLog, DyingLog
  DEF LedgerStep
<1>5. LogStep
  BY <1>3, <1>4, CallsAndDeadlinesLog DEF LedgerNext
<1> QED
  BY <1>5 DEF LogStep, Log!vars, Attempts
=============================================================================
