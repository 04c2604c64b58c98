-------------------------------- MODULE MCBridge --------------------------------
(***************************************************************************)
(* Bridge with two targets, both in the import file, and one word, which   *)
(* the event to the first of them contains.                                *)
(***************************************************************************)
EXTENDS Bridge

CONSTANTS t1, t2, w, r0, r1, r2, noSecret, s1

TwoTargets == {t1, t2}
OneWord == {w}
ThreeRules == {r0, r1, r2}
TwoSecrets == {noSecret, s1}
FileRule == [t \in Imported |-> r1]
FileWords == [t \in Imported |-> IF t = t1 THEN {w} ELSE {}]
================================================================================
