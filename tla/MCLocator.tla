------------------------------ MODULE MCLocator ------------------------------
(***************************************************************************)
(* A small instance of Locator: two filters with threads and a fast one;   *)
(* one text activates all, the other one has the prefix of a filter.       *)
(***************************************************************************)
EXTENDS Locator

CONSTANTS f1, f2, fast, all, prefixed

MCFiltersOf == [t \in {all, prefixed} |-> IF t = all THEN {f1, f2, fast} ELSE {fast}]
=============================================================================
