------------------------------ MODULE MCMigrations ------------------------------
(***************************************************************************)
(* Migrations with the bridge and the CLI, one target, and an old list     *)
(* with a word and a part that is blank.                                   *)
(***************************************************************************)
EXTENDS Migrations

CONSTANTS bridge, cli, t1, w, rw, blank

BridgeAndCLI == {bridge, cli}
OneTarget == {t1}
OneWord == {w}
RawParts == {rw, blank}
Normalizing == [r \in RawParts |-> IF r = blank THEN NoWord ELSE w]
================================================================================
