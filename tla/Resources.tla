----------------------------- MODULE Resources -----------------------------
(***************************************************************************)
(* Resource maps of ray-core (resource.rs): a map from resource names to   *)
(* quantities, where an absent name counts as zero.                        *)
(*                                                                         *)
(* Quantities are f64 in the code.  They are modelled as natural numbers   *)
(* of some unit: the callers only add and subtract the same requested      *)
(* quantities, and rounding and negative requests are not modelled.        *)
(***************************************************************************)
EXTENDS Naturals, Integers, FiniteSets

CONSTANT Res   \* the resource names ("CPU", "GPU", "memory", custom labels)

\* A HashMap<String, f64>: a function on the names that have an entry.
IsResMap(m) == DOMAIN m \subseteq Res /\ m \in [DOMAIN m -> Nat]

get(m, r) == IF r \in DOMAIN m THEN m[r] ELSE 0

\* Mutant: a resource that runs out by exactly one unit still satisfies.
can_satisfy_OffByOne(m, required) == \A r \in DOMAIN required : get(m, r) + 1 >= required[r]

can_satisfy(m, required) == \A r \in DOMAIN required : get(m, r) >= required[r]

\* Entries that reach zero are removed; entries `other` does not name stay.
subtract(m, other) ==
  LET names == DOMAIN m \cup DOMAIN other
      kept  == {r \in names : r \in DOMAIN other => get(m, r) - other[r] > 0}
  IN  [r \in kept |-> get(m, r) - get(other, r)]

add(m, other) ==
  [r \in DOMAIN m \cup DOMAIN other |-> get(m, r) + get(other, r)]

-----------------------------------------------------------------------------
\* The units of r that the holders in S ask for together, need[h] each: one
\* pair per unit, so that the demand is the cardinality of a set.
Units(S, need, r) == UNION {{h} \X (1 .. get(need[h], r)) : h \in S}

Demand(S, need, r) == Cardinality(Units(S, need, r))
=============================================================================
