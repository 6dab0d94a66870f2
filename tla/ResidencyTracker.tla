--------------------------- MODULE ResidencyTracker ---------------------------
(***************************************************************************)
(* gateway/dispatcher/residency.py: which models have been served, and     *)
(* which was served last.  mark() runs under the tracker's own lock, so    *)
(* one call is one step.                                                   *)
(***************************************************************************)
CONSTANTS
  Models,    \* the values of  request.model or "unknown"
  NoModel    \* None, before the first call; not a model

VARIABLES
  seen,      \* self._seen
  last       \* self._last

Tags == [cold : BOOLEAN, switch : BOOLEAN]

ResidencyTypeOK == seen \subseteq Models /\ last \in Models \cup {NoModel}

ResidencyInit == seen = {} /\ last = NoModel

\* What mark(model) returns, from the state it finds.
Classify(m) == [cold |-> m \notin seen, switch |-> last # NoModel /\ last # m]

\* The switch remembered, the model not: every request would look cold.
MarkForgetful(m) == last' = m /\ UNCHANGED seen

\* What mark(model) leaves behind.
Mark(m) == seen' = seen \cup {m} /\ last' = m
=============================================================================
