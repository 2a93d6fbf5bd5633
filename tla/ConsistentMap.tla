--------------------------- MODULE ConsistentMap ---------------------------
(***************************************************************************)
(* ConsistentMap of common/consistent_map.h: a std::map whose find goes on *)
(* to the next key, and from the last one to the first, so that the keys   *)
(* form a ring on which each node owns what lies between the key before it *)
(* and its own.  Nothing in the repository uses it yet.  data_ is a        *)
(* function on a set of numbers, the operations are operators.             *)
(***************************************************************************)
EXTENDS Integers

CONSTANTS
  KeyMod,   \* the number of values of the type K
  HashMod,  \* 2^32: erase takes a uint32_t, whatever K is
  Nodes     \* the values

Keys == 0 .. KeyMod - 1

Maps == UNION {[S -> Nodes] : S \in SUBSET Keys}

Update(data, hash, node) ==
  [h \in DOMAIN data \cup {hash} |-> IF h = hash THEN node ELSE data[h]]

\* std::map::insert leaves an entry that is already there alone.
Insert(data, hash, node) ==
  IF hash \in DOMAIN data THEN data ELSE Update(data, hash, node)

Erase(data, hash) == [h \in DOMAIN data \ {hash % HashMod} |-> data[h]]

\* The keys from lower_bound on.
NotBefore(data, hash) == {h \in DOMAIN data : h >= hash}

Least(S) == CHOOSE h \in S : \A k \in S : h <= k

\* The key find stops at, of a map that is not empty: of an empty one find
\* returns false.
Point(data, hash) ==
  IF NotBefore(data, hash) = {} THEN Least(DOMAIN data)
  ELSE Least(NotBefore(data, hash))

Find(data, hash) == data[Point(data, hash)]

-----------------------------------------------------------------------------
(* What a ring is *)

\* The way from a hash to a key, in the direction of growing keys.
Distance(hash, k) == IF k >= hash THEN k - hash ELSE k + KeyMod - hash
=============================================================================
