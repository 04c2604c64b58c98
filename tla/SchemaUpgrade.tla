----------------------------- MODULE SchemaUpgrade -----------------------------
(***************************************************************************)
(* What InitDB and RunMigrations promise to those who use the database,    *)
(* without tables, columns, transactions or failures: the database climbs  *)
(* from the version it has to the latest, one version at a time and never  *)
(* back, and no pairing and no blocked word changes on the way; a process  *)
(* is let in at the latest version only; and only processes that are in    *)
(* change the data.                                                        *)
(***************************************************************************)
EXTENDS Naturals

CONSTANTS Process, Target, Word, Latest

VARIABLES version,   \* of the schema
          linked,    \* the targets with a pairing
          blocked,   \* the words blocked for each target
          up         \* the processes that use the database

vars == <<version, linked, blocked, up>>

Init == /\ version \in 0 .. Latest
        /\ linked \in SUBSET Target
        /\ blocked \in [Target -> SUBSET Word]
        /\ up = {}

Climb == /\ version < Latest
         /\ version' = version + 1
         /\ UNCHANGED <<linked, blocked, up>>

Enter(p) == /\ version = Latest
            /\ up' = up \cup {p}
            /\ UNCHANGED <<version, linked, blocked>>

Leave(p) == /\ up' = up \ {p}
            /\ UNCHANGED <<version, linked, blocked>>

Link(t) == /\ linked' \in {linked \cup {t}, linked \ {t}}
           /\ UNCHANGED <<version, blocked, up>>

Block(t, w) == /\ \/ blocked' = [blocked EXCEPT ![t] = @ \cup {w}]
                  \/ blocked' = [blocked EXCEPT ![t] = @ \ {w}]
               /\ UNCHANGED <<version, linked, up>>

Next == \/ Climb
        \/ \E p \in Process : Enter(p) \/ Leave(p)
        \/ up # {} /\ \E t \in Target : Link(t) \/ \E w \in Word : Block(t, w)

Spec == Init /\ [][Next]_vars
================================================================================
