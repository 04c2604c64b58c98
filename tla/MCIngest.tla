-------------------------------- MODULE MCIngest --------------------------------
(***************************************************************************)
(* Ingest with two messages, which carry the same file or are a file and a *)
(* text, and two targets, one of which has a rule at the start.            *)
(***************************************************************************)
EXTENDS Ingest

CONSTANTS m1, m2, t1, t2, f

OneMessage == {m1}
TwoMessages == {m1, m2}
TwoTargets == {t1, t2}
SameFile == [m \in Message |-> f]
FileAndText == [m \in Message |-> IF m = m1 THEN f ELSE NoFile]
Either == {SameFile, FileAndText}
OnlyFiles == {SameFile}
TagRule == {{}, {"tag"}}
TwoRules == {{}, {"tag"}, {"spam"}}
NoRule == [rejects |-> {}, simulation |-> FALSE]
RuleForOne == {[t \in Target |-> IF t = t1 THEN NoRule ELSE [rejects |-> r, simulation |-> FALSE]] :
                   r \in RuleSets \ {{}}}
NoRules == {[t \in Target |-> NoRule]}
================================================================================
