-------------------------- MODULE ParameterDomains --------------------------
(***************************************************************************)
(* control/parameter_domain.h for integers: builders, which may be used    *)
(* again after create(), and the domains they make.  Of a domain of        *)
(* floating point numbers, size() is high - low.                           *)
(***************************************************************************)
EXTENDS Integers, Sequences, FiniteSets, Functions

CONSTANTS
  Bounds,        \* values for with_range
  Categories,    \* values for with_values
  MaxValues      \* bound on the values of a domain

VARIABLES
  values_,                                   \* of a CategoricalDomainBuilder
  low_, high_, exclude_low_, exclude_high_,  \* of a ContinuousDomainBuilder
  domain,                                    \* what create() returned last
  said                                       \* history: what was asked of that domain

continuous == <<low_, high_, exclude_low_, exclude_high_>>
vars == <<values_, continuous, domain, said>>

Init ==
  /\ values_ = <<>>
  /\ low_ = 0 /\ high_ = 0 /\ exclude_low_ = FALSE /\ exclude_high_ = FALSE
  /\ domain = [kind |-> "none"] /\ said = {}

-----------------------------------------------------------------------------
with_values(values) ==
  /\ values_' = values_ \o values
  /\ UNCHANGED <<continuous, domain, said>>

(* The values move to the domain, and the builder starts anew. *)
CreateCategorical ==
  /\ domain' = [kind |-> "categorical", values |-> values_]
  /\ values_' = <<>>
  /\ said' = Range(values_)
  /\ UNCHANGED continuous

(* A second range replaces the first. *)
with_range(low, high) ==
  /\ low_' = low /\ high_' = high
  /\ UNCHANGED <<values_, exclude_low_, exclude_high_, domain, said>>

exclude_low(excluded) ==
  /\ exclude_low_' = excluded
  /\ UNCHANGED <<values_, low_, high_, exclude_high_, domain, said>>

exclude_high(excluded) ==
  /\ exclude_high_' = excluded
  /\ UNCHANGED <<values_, low_, high_, exclude_low_, domain, said>>

CreateContinuous ==
  /\ domain' = [kind |-> "continuous", low |-> low_, high |-> high_,
                exclude_low |-> exclude_low_, exclude_high |-> exclude_high_]
  /\ said' = (low_..high_) \ ((IF exclude_low_ THEN {low_} ELSE {})
                               \union (IF exclude_high_ THEN {high_} ELSE {}))
  /\ UNCHANGED <<values_, continuous>>

Next ==
  \/ \E values \in {<<v>> : v \in Categories} \union {<<v, w>> : v, w \in Categories} :
       /\ IsInjective(values_ \o values) /\ Len(values_ \o values) <= MaxValues
       /\ with_values(values)
  \/ CreateCategorical
  \/ \E low \in Bounds, high \in Bounds : with_range(low, high)
  \/ \E excluded \in BOOLEAN : exclude_low(excluded) \/ exclude_high(excluded)
  \/ CreateContinuous

Spec == Init /\ [][Next]_vars

-----------------------------------------------------------------------------
in_domain(value) ==
  CASE domain.kind = "categorical" -> \E i \in DOMAIN domain.values : domain.values[i] = value
    [] domain.kind = "continuous" ->
         CASE domain.exclude_low /\ domain.exclude_high -> domain.low < value /\ value < domain.high
           [] domain.exclude_low /\ ~domain.exclude_high -> domain.low < value /\ value <= domain.high
           [] ~domain.exclude_low /\ domain.exclude_high -> domain.low <= value /\ value < domain.high
           [] OTHER -> domain.low <= value /\ value <= domain.high
    [] OTHER -> FALSE

(* Fault: one end too many is left out. *)
range_size_open(low, high, no_low, no_high) == high - low + 1 - IF no_low \/ no_high THEN 1 ELSE 0

range_size(low, high, no_low, no_high) ==
  high - low + 1 - (IF no_low THEN 1 ELSE 0) - (IF no_high THEN 1 ELSE 0)

size ==
  IF domain.kind = "categorical" THEN Len(domain.values)
  ELSE range_size(domain.low, domain.high, domain.exclude_low, domain.exclude_high)

(* A range the wrong way round, or of one value that both ends exclude,    *)
(* has no size: it would be negative.                                      *)
HasSize ==
  \/ domain.kind = "categorical"
  \/ /\ domain.kind = "continuous" /\ domain.low <= domain.high
     /\ domain.low = domain.high => ~(domain.exclude_low /\ domain.exclude_high)

(* Whatever order a builder is used in, and how often, the domain has the  *)
(* values that were asked of it since, and its size is their number.       *)
DomainsAreExact ==
  /\ \A v \in Bounds \union Categories : in_domain(v) <=> v \in said
  /\ HasSize => size = Cardinality(said)

=============================================================================
