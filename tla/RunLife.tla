------------------------------- MODULE RunLife -------------------------------
(***************************************************************************)
(* The life of a run as the rest of the project relies on it, with nothing   *)
(* of the phases it works through, of owners, leases and heartbeats, or of   *)
(* the order in which a worker, a person and a watchdog write it: runs are   *)
(* begun one after the other, one at a time; a cancellation that was asked   *)
(* for ends the run; a parked run does not go on by itself; a run that       *)
(* passed, was cancelled or asks a person stays that way.  RunJournal (but   *)
(* for one thing its phase clock does) and HumanWait implement this          *)
(* specification (KeepsRunLife there).                                       *)
(***************************************************************************)
EXTENDS Integers

CONSTANT Runs

VARIABLE life  \* what has become of each run

vars == <<life>>

Busy == {"working", "cancelling"}

Init == life = [r \in Runs |-> "unbegun"]

Begin(r) ==
  /\ life[r] = "unbegun"
  /\ \A q \in Runs : life[q] \notin Busy
  /\ \A q \in Runs : q < r => life[q] # "unbegun"
  /\ life' = [life EXCEPT ![r] = "working"]

\* Where a run may go, by its worker or a person.
After(state) ==
  CASE state = "working"     -> {"cancelling", "parked", "asking", "passed",
                                 "cancelled", "failed"}
    [] state = "cancelling"  -> {"cancelled", "failed"}
    [] state = "parked"      -> {"cancelled", "failed"}
    [] state = "interrupted" -> {"asking", "cancelled"}
    [] state = "failed"      -> {"cancelled"}
    [] OTHER                 -> {}

Move(r) ==
  \E state \in After(life[r]) : life' = [life EXCEPT ![r] = state]

\* A watchdog settles runs whose worker it finds gone.
Settled(state) == IF state = "cancelling" THEN "cancelled" ELSE "interrupted"

Reclaim(lost) ==
  /\ \A r \in lost : life[r] \in Busy
  /\ life' = [r \in Runs |-> IF r \in lost THEN Settled(life[r]) ELSE life[r]]

Next ==
  \/ \E r \in Runs : Begin(r) \/ Move(r)
  \/ \E lost \in SUBSET Runs : Reclaim(lost)

Spec == Init /\ [][Next]_vars

\* The first thing it promises: one run at a time.
OneAtATime == \A r, q \in Runs : life[r] \in Busy /\ life[q] \in Busy => r = q
=============================================================================
