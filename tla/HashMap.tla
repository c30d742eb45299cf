------------------------------- MODULE HashMap -------------------------------
(***************************************************************************)
(* hash_map.c: a table of chains.  A table is a function from buckets to   *)
(* sequences of entries, head of the chain first; the hash of a key is a   *)
(* parameter, so that keys can be made to collide.                         *)
(***************************************************************************)
EXTENDS Naturals, Sequences, FiniteSets, SequencesExt, FiniteSetsExt

CONSTANTS Buckets, Hash

Entry(k, v) == [key |-> k, value |-> v]

hm_create == [b \in Buckets |-> <<>>]

\* Places of key k in chain c: the loops compare keys from the head on.
Places(c, k) == {i \in DOMAIN c : c[i].key = k}

\* Update in place, or insert at the head.
hm_put(t, k, v) ==
    LET c == t[Hash[k]]
        at == Places(c, k)
    IN [t EXCEPT ![Hash[k]] = IF at = {} THEN <<Entry(k, v)>> \o c
                                         ELSE [c EXCEPT ![Min(at)].value = v]]

\* The first entry with the key, or the given null.
hm_get(t, k, null) ==
    LET c == t[Hash[k]]
        at == Places(c, k)
    IN IF at = {} THEN null ELSE c[Min(at)].value

\* A bug that must not happen: the chain is cut at the entry.
DeleteRest(t, k) ==
    LET c == t[Hash[k]]
        at == Places(c, k)
    IN [t EXCEPT ![Hash[k]] = IF at = {} THEN c ELSE SubSeq(c, 1, Min(at) - 1)]

\* Unlink the first entry with the key; nothing without one.
hm_delete(t, k) ==
    LET c == t[Hash[k]]
        at == Places(c, k)
    IN [t EXCEPT ![Hash[k]] = IF at = {} THEN c ELSE RemoveAt(c, Min(at))]
=============================================================================
