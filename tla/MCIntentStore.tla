--------------------------- MODULE MCIntentStore ---------------------------
(* Three requests that race for two intents and for a uuid of none. A third *)
(* intent has the key of the first.                                         *)
EXTENDS IntentStore

CONSTANTS i1, i2, i3

KeyOf == [i \in Ids |-> IF i \in {i1, i3} THEN "a" ELSE "b"]
=============================================================================
