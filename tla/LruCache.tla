------------------------------- MODULE LruCache ------------------------------
(***************************************************************************)
(* The cache of lru/cache.go, as the sequence of its entries <<key, value>> *)
(* with the one used last in front: the order of its list with the values  *)
(* of its map.                                                             *)
(***************************************************************************)
LOCAL INSTANCE Naturals
LOCAL INSTANCE Sequences

Keys(c)     == {c[i][1] : i \in DOMAIN c}
Place(c, k) == CHOOSE i \in DOMAIN c : c[i][1] = k
Value(c, k) == c[Place(c, k)][2]

\* The entries but that of a key that is there.
Others(c, k) ==
    SubSeq(c, 1, Place(c, k) - 1) \o SubSeq(c, Place(c, k) + 1, Len(c))

\* Get of a key that is there.
Used(c, k) == <<<<k, Value(c, k)>>>> \o Others(c, k)

\* removeItem takes the last one when there is no room for a new key; a key
\* that is there gets the new value.
Put(c, k, v, capacity) ==
    <<<<k, v>>>> \o (IF k \in Keys(c) THEN Others(c, k)
                     ELSE IF Len(c) = capacity THEN SubSeq(c, 1, Len(c) - 1)
                     ELSE c)
=============================================================================
