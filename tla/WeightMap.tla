------------------------------ MODULE WeightMap ------------------------------
(***************************************************************************)
(* The notation 'a:2,b:1' in which tenants are given weights, quanta and   *)
(* shares of a load: gateway/config.py parses it for the gateway's         *)
(* environment, scripts/loadgen.py for its command line.  A spec is the    *)
(* sequence of its nonblank parts; the value of a part without a colon is  *)
(* Null, that of one whose value is no number is Garbled.                  *)
(***************************************************************************)
EXTENDS Integers, Sequences, SequencesExt

CONSTANTS Null, Garbled

\* An environment variable that is not set, or empty.  One with nothing but
\* blanks and commas is <<>>, which is refused.
Unset == Null

ValueOf(part) == IF part.value = Null THEN 1 ELSE part.value

\* Any number taken for a weight.
AcceptedAnyNumber(spec) == spec # <<>> /\ \A i \in DOMAIN spec : spec[i].value # Garbled

\* Both parsers raise a ValueError for everything else.
Accepted(spec) ==
  /\ spec # <<>>
  /\ \A i \in DOMAIN spec : spec[i].value # Garbled /\ ValueOf(spec[i]) >= 1

Keys(spec) == {spec[i].key : i \in DOMAIN spec}

Positions(spec, k) == {i \in DOMAIN spec : spec[i].key = k}

\* A dict keeps the last value given for a key ...
ParseWeightMap(spec) == [k \in Keys(spec) |-> ValueOf(spec[Max(Positions(spec, k))])]

\* ... and the order in which the keys first came.
KeyOrder(spec) ==
  SetToSortSeq(Keys(spec), LAMBDA k, l : Min(Positions(spec, k)) < Min(Positions(spec, l)))

ParseTenantMix(spec) ==
  [i \in DOMAIN spec |-> [tenant |-> spec[i].key, weight |-> ValueOf(spec[i])]]

\* Every tenant of the mix once, whatever its weight.
BuildUnweighted(mix) == [i \in DOMAIN mix |-> mix[i].tenant]

BuildSchedule(mix) ==
  FlattenSeq([i \in DOMAIN mix |-> [k \in 1..mix[i].weight |-> mix[i].tenant]])
=============================================================================
