-------------------------------- MODULE Dict --------------------------------
(***************************************************************************)
(* What a table of names promises: one value per name or none, and every   *)
(* operation touches the name it is given and no other.                    *)
(***************************************************************************)
CONSTANTS Keys, Values, Absent

VARIABLE dict       \* dict[k]: the value of k, or Absent

DictInit   == dict = [k \in Keys |-> Absent]
Put(k, v)  == dict' = [dict EXCEPT ![k] = v]
Delete(k)  == dict' = [dict EXCEPT ![k] = Absent]
DictNext   == \E k \in Keys : Delete(k) \/ \E v \in Values : Put(k, v)
DictSpec   == DictInit /\ [][DictNext]_dict
=============================================================================
