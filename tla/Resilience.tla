----------------------------- MODULE Resilience -----------------------------
(***************************************************************************)
(* One provider turn of one role (providers/resilience.py): the budget gate, *)
(* the circuits of the configured routes as the call finds them, bounded     *)
(* attempts on each, and the circuits as the call leaves them.               *)
(*                                                                          *)
(* A circuit is a row of provider-resilience.json.  Its open_until is kept   *)
(* as a Boolean: it may pass at any moment, and the count of failures stays. *)
(* A count beyond the threshold is kept as the threshold: nothing tells them *)
(* apart.                                                                    *)
(***************************************************************************)
EXTENDS Integers, FiniteSets

CONSTANTS
  NumRoutes,   \* the role and its fallbacks, in the order they are tried
  MaxAttempts, \* resilience.max_attempts
  BreakAt,     \* resilience.circuit_breaker_failures
  MaxFailures, \* bound of the model: failed attempts
  KeySets,     \* the credentials the environment may hold, as sets of routes
  None

Routes == 1..NumRoutes

ASSUME ResilienceAssumption ==
  /\ NumRoutes \in Nat \ {0} /\ MaxAttempts \in Nat \ {0} /\ BreakAt \in Nat \ {0}
  /\ MaxFailures \in Nat /\ KeySets \subseteq SUBSET Routes
ASSUME NoneAssumption == None \notin Int /\ None \notin [todo: SUBSET Routes, attempt: Nat]

VARIABLES
  circuit,  \* each route's failures since its last success, and whether it is open
  keys,     \* the routes whose credential is in the environment
  call,     \* the call being made: the routes it still has and the attempts spent
            \* on the first of them; None between calls
  failures  \* history: failed attempts so far

resilienceVars == <<circuit, keys, call, failures>>

Closed == [failures |-> 0, open |-> FALSE]

ResilienceTypeOK ==
  /\ circuit \in [Routes -> [failures: 0..BreakAt, open: BOOLEAN]]
  /\ keys \in KeySets
  /\ call \in [todo: SUBSET Routes, attempt: 0..(MaxAttempts - 1)] \cup {None}
  /\ failures \in 0..MaxFailures

ResilienceInit ==
  /\ circuit = [r \in Routes |-> Closed]
  /\ keys \in KeySets
  /\ call = None /\ failures = 0

-----------------------------------------------------------------------------
\* candidates whose circuit is not open when the call begins.
Available == {r \in Routes : ~circuit[r].open}

AllCoolingDown == call = None /\ Available = {}

BeginCall ==
  /\ call = None /\ Available # {}
  /\ call' = [todo |-> Available, attempt |-> 0]
  /\ UNCHANGED <<circuit, keys, failures>>

Current == CHOOSE r \in call.todo : \A s \in call.todo : r <= s
Calling == call # None /\ call.todo # {}

\* _record of a failure.
Struck(row) ==
  LET n == IF row.failures < BreakAt THEN row.failures + 1 ELSE BreakAt IN
  [failures |-> n, open |-> row.open \/ n = BreakAt]

RecordFailure(r) == circuit' = [circuit EXCEPT ![r] = Struck(@)]

NextRoute == [todo |-> call.todo \ {Current}, attempt |-> 0]

\* A route without its credential is recorded as failed and passed over.
SkipRoute ==
  /\ Calling /\ Current \notin keys
  /\ RecordFailure(Current)
  /\ call' = NextRoute
  /\ UNCHANGED <<keys, failures>>

\* Mutant of GivesUp: the circuit this failure opened is not looked at.
GivesUpLate(r, retryable) == ~retryable \/ call.attempt + 1 >= MaxAttempts

\* After a failed attempt: not retryable, the circuit is open by now, or the
\* attempts are spent.
GivesUp(r, retryable) ==
  ~retryable \/ Struck(circuit[r]).open \/ call.attempt + 1 >= MaxAttempts

FailAttempt(retryable) ==
  /\ Calling /\ Current \in keys
  /\ failures < MaxFailures /\ failures' = failures + 1
  /\ RecordFailure(Current)
  /\ call' = IF GivesUp(Current, retryable) THEN NextRoute
             ELSE [call EXCEPT !.attempt = @ + 1]
  /\ UNCHANGED keys

Succeed ==
  /\ Calling /\ Current \in keys
  /\ circuit' = [circuit EXCEPT ![Current] = Closed]
  /\ call' = None
  /\ UNCHANGED <<keys, failures>>

\* routes_exhausted.
Exhausted ==
  /\ call # None /\ call.todo = {}
  /\ call' = None
  /\ UNCHANGED <<circuit, keys, failures>>

\* The worker is gone in the middle of a call.
Abandon == call' = None /\ UNCHANGED <<circuit, keys, failures>>

\* open_until passes.
CoolDown(r) ==
  /\ circuit[r].open
  /\ circuit' = [circuit EXCEPT ![r].open = FALSE]
  /\ UNCHANGED <<keys, call, failures>>

\* reset, after the person repaired a provider.
Reset ==
  /\ \E r \in Routes : circuit[r] # Closed
  /\ circuit' = [r \in Routes |-> Closed]
  /\ UNCHANGED <<keys, call, failures>>

-----------------------------------------------------------------------------
\* The breaker holds within a call: a route whose failures have reached the
\* threshold, in this call or in earlier ones whose cool-down has passed, gets
\* one attempt of a call and no retry.
ProbeOnce ==
  Calling /\ call.attempt > 0 => circuit[Current].failures < BreakAt
=============================================================================
