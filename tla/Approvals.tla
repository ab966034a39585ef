----------------------------- MODULE Approvals ------------------------------
(***************************************************************************)
(* What the cycle store promises those who publish on its word, with       *)
(* nothing of how it keeps the promise: no rounds, no statuses, no locks,  *)
(* no commits.  A cycle has at most one approval in force.  An approval    *)
(* never replaces another one in force, so whoever verified the first      *)
(* cannot be made to publish under the second; it is spent at most once,   *)
(* and only while it is the one in force.  CycleStore implements this      *)
(* specification (ImplementsApprovals there).                              *)
(***************************************************************************)
EXTENDS Naturals

CONSTANTS Cycles, Receipts, Decisions, None

VARIABLES
  decision,  \* what each receipt says, None until it is minted
  approved,  \* history: the receipts that have been an approval in force
  inForce,   \* the approval each cycle stands on, or None
  spent      \* how often each receipt was admitted

vars == <<decision, approved, inForce, spent>>

Init ==
  /\ decision = [r \in Receipts |-> None]
  /\ approved = {}
  /\ inForce = [c \in Cycles |-> None]
  /\ spent = [r \in Receipts |-> 0]

\* A receipt is minted once and says the same thing for ever.
Mint(r, d) ==
  /\ decision[r] = None
  /\ decision' = [decision EXCEPT ![r] = d]
  /\ UNCHANGED <<approved, inForce, spent>>

\* A cycle without an approval takes one that never was in force before.
Approve(c, r) ==
  /\ inForce[c] = None
  /\ decision[r] = "PASS"
  /\ r \notin approved
  /\ inForce' = [inForce EXCEPT ![c] = r]
  /\ approved' = approved \cup {r}
  /\ UNCHANGED <<decision, spent>>

\* The approval in force is spent, and stays the one in force.
Spend(c) ==
  /\ inForce[c] # None
  /\ spent[inForce[c]] = 0
  /\ spent' = [spent EXCEPT ![inForce[c]] = 1]
  /\ UNCHANGED <<decision, approved, inForce>>

\* The cycle is started over: its approval can never be spent again.
Withdraw(c) ==
  /\ inForce[c] # None
  /\ inForce' = [inForce EXCEPT ![c] = None]
  /\ UNCHANGED <<decision, approved, spent>>

Next ==
  \/ \E r \in Receipts, d \in Decisions : Mint(r, d)
  \/ \E c \in Cycles, r \in Receipts : Approve(c, r)
  \/ \E c \in Cycles : Spend(c) \/ Withdraw(c)

Spec == Init /\ [][Next]_vars
=============================================================================
