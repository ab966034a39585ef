--------------------------- MODULE EvidenceLedger ---------------------------
(***************************************************************************)
(* The append-only, hash-chained evidence ledger of a project              *)
(* (ledger/chain.py): a JSONL file, an O_EXCL lock file beside it and, in   *)
(* the memory of every writer, a cached head guarded by the file's size.    *)
(*                                                                          *)
(* A line is the record of its seq, the entry its prev names and what it    *)
(* says.  Its digest stands for its place in the file: no two lines have    *)
(* the same one.  Time is left out: a lock file may become old at any       *)
(* moment, whether its writer is dead or only slow, and a waiting writer    *)
(* may reach its deadline at any moment.                                    *)
(***************************************************************************)
EXTENDS Integers, Sequences, FiniteSets

CONSTANTS
  Writers,  \* threads that append, each with a ledger object of its own
  What,     \* what an entry says: its kind, run and payload
  MaxFaults, \* bound of the model: deadlines, old lock files, short writes and deaths
  None

ASSUME FaultAssumption == MaxFaults \in Nat

VARIABLES
  entries,   \* the complete lines of the file
  half,      \* what the unterminated line at the end of the file was to say, or None
  lock,      \* the lock file: the writer that created it, or None
  stale,     \* the lock file is older than _LOCK_STALE_S
  writer,    \* where each writer is in append, and its cached head
  overtaken, \* history: a lock file was removed under a writer that held it
  faults     \* history: faults so far

ledgerVars == <<entries, half, lock, stale, writer, overtaken, faults>>

\* What a line can be: an entry, or what is left of one that was glued onto a
\* torn tail.
Entry == [seq: Nat, prev: Nat, what: What]
Glued == [seq |-> -1, prev |-> -1, what |-> None]

\* "breaking" has seen an old lock file and is about to unlink it; "writing" has
\* taken the lock and made its line; "leaving" is about to unlink on its way out,
\* with its result.
Stages  == {"idle", "waiting", "breaking", "writing", "leaving"}
Results == {"written", "refused"}

ASSUME NoneAssumption ==
  None \notin Int /\ None \notin Writers /\ None \notin What /\ None \notin Results

\* head is the place of the line whose digest is cached, 0 for an empty ledger;
\* size is the number of complete lines, and whether another was begun.
Fresh == [stage |-> "idle", what |-> None, result |-> None,
          line |-> None, head |-> None, size |-> <<0, FALSE>>]

LedgerTypeOK ==
  /\ entries \in Seq(Entry \cup {Glued})
  /\ half \in What \cup {None}
  /\ stale \in BOOLEAN /\ overtaken \in BOOLEAN
  /\ lock \in Writers \cup {None}
  /\ writer \in [Writers -> [stage: Stages, what: What \cup {None},
                             result: Results \cup {None}, line: Entry \cup {None},
                             head: Nat \cup {None}, size: Nat \X BOOLEAN]]
  /\ faults \in 0..MaxFaults

LedgerInit ==
  /\ entries = <<>> /\ half = None
  /\ lock = None /\ stale = FALSE
  /\ writer = [w \in Writers |-> Fresh]
  /\ overtaken = FALSE /\ faults = 0

-----------------------------------------------------------------------------
Holds(w) == writer[w].stage \in {"writing", "leaving"}
Torn == half # None
Fault == faults < MaxFaults /\ faults' = faults + 1

Size == <<Len(entries), Torn>>

\* append is called; it returns with a result.
AppendEntry(w, what) ==
  /\ writer[w].stage = "idle"
  /\ writer' = [writer EXCEPT ![w].stage = "waiting", ![w].what = what,
                              ![w].result = None]
  /\ UNCHANGED <<entries, half, lock, stale, overtaken, faults>>

Returned(w, result) == writer[w].stage = "idle" /\ writer[w].result = result

\* The age of the file is read in a call of its own.
SeeStaleLock(w) ==
  /\ writer[w].stage = "waiting" /\ lock # None /\ stale
  /\ writer' = [writer EXCEPT ![w].stage = "breaking"]
  /\ UNCHANGED <<entries, half, lock, stale, overtaken, faults>>

\* unlink(missing_ok) removes whatever lock file is there.
Unlink(w) ==
  /\ lock' = None /\ stale' = FALSE
  /\ overtaken' = (overtaken \/ (lock # None /\ lock # w /\ Holds(lock)))

BreakLock(w) ==
  /\ writer[w].stage = "breaking"
  /\ Unlink(w)
  /\ writer' = [writer EXCEPT ![w].stage = "waiting"]
  /\ UNCHANGED <<entries, half, faults>>

\* The deadline of _LOCK_TIMEOUT_S.
GiveUp(w) ==
  /\ writer[w].stage = "waiting" /\ lock # None
  /\ Fault
  /\ writer' = [writer EXCEPT ![w].stage = "idle", ![w].what = None, ![w].result = "refused"]
  /\ UNCHANGED <<entries, half, lock, stale, overtaken>>

\* Mutant of HeadPlace: the cached head is used whatever size the file has.
HeadPlaceFromCache(w) ==
  IF writer[w].head # None THEN writer[w].head ELSE Len(entries)

\* _head_locked: the cached head if the file has the size last seen, else the
\* last complete line.
HeadPlace(w) ==
  IF writer[w].head # None /\ writer[w].size = Size THEN writer[w].head
  ELSE Len(entries)

\* Mutant of SeqAfter: what an empty ledger answers is not counted up.
SeqAfterUncounted(h) == IF h \in 1..Len(entries) THEN entries[h].seq + 1 ELSE -1

\* The first entry is 0: an empty ledger answers GENESIS and -1.
SeqAfter(h) == IF h \in 1..Len(entries) THEN entries[h].seq + 1 ELSE 0

\* Mutant of RefuseTornTail: a torn tail is looked for in an empty file only.
RefuseTornTailOfEmpty == Torn /\ entries = <<>>

RefuseTornTail == Torn

\* Mutant of LockIsFree: the file is created without O_EXCL.
LockIsFreeAlways == lock \in Writers \cup {None}

\* O_CREAT | O_EXCL succeeds.
LockIsFree == lock = None

\* With the lock taken a torn tail is refused, and the line is made from the head;
\* the file may change again before it is written.
TakeLock(w) ==
  LET h == HeadPlace(w) IN
  /\ writer[w].stage = "waiting" /\ LockIsFree
  /\ lock' = w /\ stale' = FALSE
  /\ writer' = [writer EXCEPT
       ![w].stage = IF RefuseTornTail THEN "leaving" ELSE "writing",
       ![w].result = IF RefuseTornTail THEN "refused" ELSE None,
       ![w].what = None,
       ![w].line = IF RefuseTornTail THEN None
                   ELSE [seq |-> SeqAfter(h), prev |-> h, what |-> writer[w].what]]
  /\ UNCHANGED <<entries, half, overtaken, faults>>

\* What reaches the file.
Written(line, whole) ==
  /\ entries' = CASE Torn /\ whole  -> Append(entries, Glued)
                  [] ~Torn /\ whole -> Append(entries, line)
                  [] OTHER -> entries
  /\ half' = IF whole THEN None ELSE line.what

\* os.write and fsync.  That it wrote in part is not noticed: the head is cached
\* and append returns its digest.
Write(w, whole) ==
  /\ writer[w].stage = "writing"
  /\ Written(writer[w].line, whole)
  /\ IF whole THEN UNCHANGED faults ELSE Fault
  /\ writer' = [writer EXCEPT ![w].stage = "leaving", ![w].result = "written",
                              ![w].head = Len(entries) + 1, ![w].size = Size',
                              ![w].line = None]
  /\ UNCHANGED <<lock, stale, overtaken>>

\* __exit__, whoever the file belongs to by now.
ReleaseLock(w) ==
  /\ writer[w].stage = "leaving"
  /\ Unlink(w)
  /\ writer' = [writer EXCEPT ![w].stage = "idle"]
  /\ UNCHANGED <<entries, half, faults>>

\* Nobody looks at the age of the file but a writer that waits; a fault only if
\* the lock is still held.
LockGrowsOld ==
  /\ lock # None /\ ~stale
  /\ \E w \in Writers : writer[w].stage = "waiting"
  /\ IF Holds(lock) THEN Fault ELSE UNCHANGED faults
  /\ stale' = TRUE
  /\ UNCHANGED <<entries, half, lock, writer, overtaken>>

\* The process is gone, perhaps with half a line written; its lock file stays.
LedgerDeath(w) ==
  /\ Fault
  /\ \/ UNCHANGED half
     \/ writer[w].stage = "writing" /\ half' = writer[w].line.what
  /\ writer' = [writer EXCEPT ![w] = Fresh]
  /\ UNCHANGED <<entries, lock, stale, overtaken>>

\* One step inside append.
LedgerStep(w) ==
  \/ TakeLock(w) \/ SeeStaleLock(w) \/ BreakLock(w) \/ GiveUp(w)
  \/ ReleaseLock(w)
  \/ \E whole \in BOOLEAN : Write(w, whole)

-----------------------------------------------------------------------------
\* verify: content is the line's own, prev names the line before, seq counts up.
ChainVerifies ==
  \A i \in 1..Len(entries) : entries[i].prev = i - 1 /\ entries[i].seq = i - 1

\* "two writers can never fork the chain" (append's docstring), as far as it
\* goes: for as long as no lock file was removed under the writer that held it,
\* all complete lines verify, whatever the deaths, the torn tails, the lock
\* files left behind and the heads that were cached.
OneChain == ~overtaken => ChainVerifies

-----------------------------------------------------------------------------
(* The ledger as a log that is appended to at one moment (AtomicLog). *)

\* What the lines say, the one that was cut off among them.
Said == [i \in 1..Len(entries) |-> entries[i].what] \o (IF Torn THEN <<half>> ELSE <<>>)

\* An append is open until its result stands, which is before the lock is released.
Attempt(w) ==
  CASE writer[w].stage = "writing" -> [what |-> writer[w].line.what, answer |-> None]
    [] writer[w].stage \in {"waiting", "breaking"} -> [what |-> writer[w].what, answer |-> None]
    [] OTHER -> [what |-> None, answer |-> writer[w].result]

Log == INSTANCE AtomicLog WITH
  Callers <- Writers,
  log     <- Said,
  sealed  <- Torn,
  call    <- [w \in Writers |-> Attempt(w)]

\* "Appends are serialised by an O_EXCL lock and made durable with fsync ... so a
\* crash cannot interleave two chains" (chain.py): with locks that are broken,
\* heads that are cached, deaths and short writes, an append that answers took
\* effect exactly once, at the end, between its call and its answer, one that is
\* refused never did, and nothing follows an entry that was cut off.  As far as the
\* lock goes, as in OneChain.
ImplementsLog == Log!Init /\ [][overtaken' \/ Log!Next]_(Log!vars)
=============================================================================
