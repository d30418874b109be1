-------------------------------- MODULE Maps --------------------------------
(***************************************************************************)
(* HashMaps, as functions whose domain is the set of their keys.           *)
(***************************************************************************)
EXTENDS Naturals

CONSTANT None           \* Option::None; not a member of any other set

EmptyMap == [x \in {} |-> 0]
Put(f, k, v) == [x \in DOMAIN f \cup {k} |-> IF x = k THEN v ELSE f[x]]
Get(f, k, default) == IF k \in DOMAIN f THEN f[k] ELSE default
Drop(f, k) == [x \in DOMAIN f \ {k} |-> f[x]]
Keep(f, S) == [x \in DOMAIN f \cap S |-> f[x]]

\* saturating_sub()
SatSub(a, b) == IF a > b THEN a - b ELSE 0
=============================================================================
