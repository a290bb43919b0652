-------------------------------- MODULE Maps --------------------------------
(***************************************************************************)
(* std::map as functions with a domain that grows.                         *)
(***************************************************************************)

\* f with f[x] = v.
Assign(f, x, v) == [y \in DOMAIN f \cup {x} |-> IF y = x THEN v ELSE f[y]]

\* What operator[] makes of a key that is not there.
Lookup(f, x) == IF x \in DOMAIN f THEN f[x] ELSE 0
=============================================================================
