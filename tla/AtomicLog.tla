------------------------------ MODULE AtomicLog ------------------------------
(***************************************************************************)
(* What the evidence ledger promises those who append to it, with nothing   *)
(* of how it keeps the promise: no lines, no digests, no lock file, no       *)
(* cached heads.  An append takes effect at one moment between its call and  *)
(* its answer, at the end of the log, and once; one that was refused takes   *)
(* none; one whose caller died takes it or not.  What is in the log stays.   *)
(* The end of the log may be cut off, which no caller is told: the log is    *)
(* sealed then, and refuses whatever comes.  EvidenceLedger implements this  *)
(* specification (ImplementsLog there).                                      *)
(***************************************************************************)
EXTENDS Sequences

CONSTANTS Callers, What, None

VARIABLES
  log,    \* what was appended, in order
  sealed, \* the last entry is cut off
  call    \* each caller's: what it appends while it does, and then the answer

vars == <<log, sealed, call>>

Appending(what)  == [what |-> what, answer |-> None]
Answered(answer) == [what |-> None, answer |-> answer]

Init ==
  /\ log = <<>> /\ sealed = FALSE
  /\ call = [c \in Callers |-> Answered(None)]

Begin(c, what) ==
  /\ call[c].what = None
  /\ call' = [call EXCEPT ![c] = Appending(what)]
  /\ UNCHANGED <<log, sealed>>

\* The append of a caller takes effect, whole or cut off.
TakeEffect(c, whole) ==
  /\ call[c].what # None /\ ~sealed
  /\ log' = Append(log, call[c].what)
  /\ sealed' = ~whole

Write(c) ==
  /\ \E whole \in BOOLEAN : TakeEffect(c, whole)
  /\ call' = [call EXCEPT ![c] = Answered("written")]

Refuse(c) ==
  /\ call[c].what # None
  /\ call' = [call EXCEPT ![c] = Answered("refused")]
  /\ UNCHANGED <<log, sealed>>

\* The caller is gone; the end of what it was writing may be missing.
Die(c) ==
  /\ TakeEffect(c, FALSE) \/ UNCHANGED <<log, sealed>>
  /\ call' = [call EXCEPT ![c] = Answered(None)]

Step(c) ==
  \/ \E what \in What : Begin(c, what)
  \/ Write(c) \/ Refuse(c) \/ Die(c)

Next == \E c \in Callers : Step(c)

Spec == Init /\ [][Next]_vars
=============================================================================
