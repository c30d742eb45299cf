------------------------------ MODULE DynArray ------------------------------
(***************************************************************************)
(* dynamic_array.c as the shell uses it: NULL until it is created, then    *)
(* data with room for capacity elements.  Elements past the size are       *)
(* uninitialised and not represented.                                      *)
(***************************************************************************)
EXTENDS Naturals, Sequences

NoArray == [made |-> FALSE, capacity |-> 0, data |-> <<>>]

da_create(n) == [made |-> TRUE, capacity |-> n, data |-> <<>>]

\* A bug that must not happen: the array does not grow.
PutInPlace(d, x) == IF ~d.made THEN d ELSE [d EXCEPT !.data = Append(@, x)]

\* Doubles a full array, an empty one from one element on; does nothing to
\* NULL.
da_put(d, x) ==
    IF ~d.made THEN d
    ELSE [d EXCEPT !.capacity = IF Len(d.data) < @ THEN @
                                ELSE 2 * (IF @ = 0 THEN 1 ELSE @),
                   !.data = Append(@, x)]
=============================================================================
