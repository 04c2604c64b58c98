--------------------------------- MODULE Bridge ---------------------------------
(***************************************************************************)
(* Messages to one target, one at a time, composed with PairingAdmin: the  *)
(* producer reads the pairings when a message arrives, and the queue       *)
(* processor reads the pairing and then the blocked words again on every   *)
(* attempt to deliver, and sends what passes them some time later, while   *)
(* commands and imports change both tables.  The queue in between is       *)
(* EventCustody's: an event that is not settled is claimed again.  Each    *)
(* text contains Caption's words, and moderation scores it over the        *)
(* threshold of the rules in Strict.                                       *)
(***************************************************************************)
EXTENDS PairingAdmin

CONSTANTS To,          \* the target
          Caption,     \* the words in the text
          Strict,      \* rule_configs whose moderation blocks them
          Simulating   \* rule_configs with simulation_mode

ASSUME BridgeAssumption ==
    /\ To \in Target /\ Caption \subseteq Word
    /\ Strict \subseteq Rule /\ Simulating \subseteq Rule
    /\ DefaultRule \notin Strict \cup Simulating

VARIABLES
    ev,      \* where the event is, if there is one
    config,  \* ruleConfig of processQueuedEvent
    \* history, until the verdict: the rules the pairing has had since the claim,
    \* none if reading it failed; until the send: whether the text has been
    \* blocked since the claim
    rulesSince, blockedSince

historySince == <<rulesSince, blockedSince>>
eventVars == <<ev, config, historySince>>
bridgeVars == <<vars, eventVars>>

\* The words of To are those that were asked for, see BlocksInForce.
InForce == To \notin cut /\ ~(imp.step = "words" /\ imp.item = {To})

\* The text has a word that was asked to be blocked for To.
Barred == asked[To] \cap Caption # {} /\ InForce

NoAttempt == /\ config' = DefaultRule
             /\ rulesSince' = {} /\ blockedSince' = FALSE

BridgeInit ==
    /\ Init
    /\ ev = "none" /\ config = DefaultRule
    /\ rulesSince = {} /\ blockedSince = FALSE

\* The producer: GetPairingsBySource, and an event per target that is linked.
Arrive ==
    /\ ev = "none" /\ To \in linked
    /\ ev' = "queued"
    /\ UNCHANGED <<vars, config, historySince>>

\* ClaimNextPendingEvent, and GetPairing.  A missing row, whose rule is the
\* default, and an error leave an empty rule config.
Claim ==
    /\ ev = "queued"
    /\ ev' = "claimed"
    /\ \/ config' = rule[To] /\ rulesSince' = {rule[To]} /\ NoFault
       \/ config' = DefaultRule /\ rulesSince' = {} /\ Fault
    /\ blockedSince' = Barred
    /\ UNCHANGED <<tables, tg, imp, history, commands, imports>>

\* Mutant: blocked words count for pairings that exist.
Blocked_Linked == To \in linked /\ words[To] \cap Caption # {}
\* GetBlockedWords and containsBlockedWord.
Blocked == words[To] \cap Caption # {}

\* Mutant: simulation_mode counts for the keywords only.
Moderated_Always == config \in Strict
Moderated == config \in Strict /\ config \notin Simulating

Filtered == Moderated \/ (Blocked /\ config \notin Simulating)

\* The acknowledgement may fail, or the bridge stop before it, and the event is
\* claimed again.
Settle ==
    /\ ev' \in {"none", "queued"}
    /\ NoAttempt
    /\ UNCHANGED vars

\* The verdict, on the words as they are read now and the rules as they were.
Filter == ev = "claimed" /\ Filtered /\ Settle

Pass ==
    /\ ev = "claimed" /\ ~Filtered
    /\ ev' = "passed"
    /\ rulesSince' = {}
    /\ UNCHANGED <<vars, config, blockedSince>>

\* consumer.Send, after the file was downloaded, or AddDigestEvent for a pairing
\* with a digest: nothing is read again.
Send == ev = "passed" /\ Settle

\* The blocked words cannot be read, the destination is over its rate limit, the
\* send or the insert fails.
Again ==
    /\ ev \in {"claimed", "passed"}
    /\ ev' = "queued"
    /\ NoAttempt
    /\ UNCHANGED vars

\* The bridge stops, in the middle of a Telegram command too; the CLI goes on.
Crash ==
    /\ tg # NoTg \/ ev \in {"claimed", "passed"}
    /\ EndTg
    /\ IF ev \in {"claimed", "passed"} THEN ev' = "queued" /\ NoAttempt
                                       ELSE UNCHANGED eventVars
    /\ UNCHANGED <<tables, imp, history, boundVars>>

\* A step of PairingAdmin, between two of the event's.
AdminStep ==
    /\ Next
    /\ rulesSince' = IF rulesSince = {} THEN {} ELSE rulesSince \cup {rule'[To]}
    /\ blockedSince' = (blockedSince /\ Barred')
    /\ UNCHANGED <<ev, config>>

BridgeNext == Arrive \/ Claim \/ Filter \/ Pass \/ Send \/ Again \/ Crash \/ AdminStep

BridgeSpec == BridgeInit /\ [][BridgeNext]_bridgeVars

--------------------------------------------------------------------------------
\* An event whose text is blocked throughout the attempt goes out only in
\* simulation: also when its word was blocked after it was queued, or before its
\* target was unlinked and linked again, but not while or after an import has
\* taken the word away.  A /block that comes during the attempt may come too
\* late: processQueuedEvent reads the words before it downloads and sends.
BlockedNotSent ==
    [][Send /\ blockedSince => config \in Simulating]_bridgeVars

\* Moderation and simulation follow the rules the pairing had in this attempt:
\* with rules that block an event it does not pass, with rules that only simulate
\* it is not filtered, unless reading the pairing failed.
VerdictFollowsRules ==
    [][rulesSince # {} =>
        /\ Pass => ~(rulesSince \subseteq Strict \ Simulating)
        /\ Filter => ~(rulesSince \subseteq Simulating)]_bridgeVars
================================================================================
