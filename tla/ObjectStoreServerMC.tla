------------------------ MODULE ObjectStoreServerMC ------------------------
(***************************************************************************)
(* One handler that gets and waits, and one that puts, deletes, spills and *)
(* restores, on two objects; "one" is asked for by an id that is cut off,  *)
(* the zero object by an empty one.  The budget has room for one object.   *)
(***************************************************************************)
EXTENDS ObjectStoreServer

CONSTANT a

MCSize == [d \in Contents |-> IF d = a THEN 1 ELSE 0]

zero == [id |-> <<>>]
one  == [id |-> <<1, 1>>]

MCIdLists == {<<zero, one>>}
MCSpillLists == {<<one>>}
MCGetIds == {one}
MCRefIds == {one}

item(p) == [object_id |-> p, data |-> a]
MCPutItems == {item(one)}
MCPutLists == {<<item(zero), item(one)>>, <<item(zero), item(Conv!Unset)>>}
MCObjs == Conv!Id(ObjectIdLen)
=============================================================================
