------------------------------ MODULE PairingAdmin ------------------------------
(***************************************************************************)
(* The tables pairings and blocked_words of one source and the commands    *)
(* that change them: Telegram's, handled one at a time by the update loop; *)
(* Discord's, handled concurrently; and the CLI, a process of its own      *)
(* whose import applies a file of pairings, one statement after the other. *)
(* A command is a sequence of transactions, any of which may fail.         *)
(***************************************************************************)
EXTENDS Naturals

CONSTANTS
    Target, Word, Rule, DefaultRule, Secret, NoSecret,
    Imported,              \* targets in the import file
    ItemRule, ItemWords,   \* what the file says of them
    MaxCommands,           \* bound: admin commands
    MaxImports,            \* bound: runs of import-pairings
    MaxFaults              \* bound: failed transactions

ASSUME ConstantsAssumption ==
    /\ DefaultRule \in Rule /\ NoSecret \in Secret
    /\ Imported \subseteq Target
    /\ ItemRule \in [Imported -> Rule] /\ ItemWords \in [Imported -> SUBSET Word]
    /\ MaxCommands \in Nat /\ MaxImports \in Nat /\ MaxFaults \in Nat

VARIABLES
    linked, rule, secret,   \* table pairings
    words,                  \* table blocked_words
    asked,      \* history: words blocked by a command or an import, not lifted
    cut,        \* history: targets whose import ended with words left to add
    tg,         \* the Telegram command between two transactions
    imp,        \* the import between two transactions
    \* history: targets others changed since a command began, the secrets when
    \* the import began, and whether a statement the import ignores failed
    touched, secretBefore, ignored,
    commands, imports, faults   \* counters of the bounds

wordVars == <<words, asked, cut>>
tables == <<linked, rule, secret, wordVars>>
history == <<touched, secretBefore, ignored>>
boundVars == <<commands, imports, faults>>
vars == <<tables, tg, imp, history, boundVars>>

NoTg == [op |-> "none", todo |-> {}, all |-> {}]
NoImp == [step |-> "idle", todo |-> {}, item |-> {}, secret |-> NoSecret,
          left |-> {}]

Init ==
    /\ linked \in SUBSET Target
    /\ rule = [t \in Target |-> DefaultRule]
    /\ secret = [t \in Target |-> NoSecret]
    /\ words = [t \in Target |-> {}] /\ asked = words /\ cut = {}
    /\ tg = NoTg /\ imp = NoImp
    /\ touched = [a \in {"tg", "cli"} |-> {}]
    /\ secretBefore = secret /\ ignored = FALSE
    /\ commands = 0 /\ imports = 0 /\ faults = 0

Fault == faults < MaxFaults /\ faults' = faults + 1
NoFault == UNCHANGED faults
Command == commands < MaxCommands /\ commands' = commands + 1

\* actor changed the rows of T.
Touch(actor, T) ==
    touched' = [a \in DOMAIN touched |-> IF a = actor THEN touched[a]
                                                     ELSE touched[a] \cup T]

--------------------------------------------------------------------------------
(* Statements.                                                              *)

\* LinkChannel: a pairing that exists keeps its rules and takes the secret.
LinkChannel(t, s) ==
    /\ linked' = linked \cup {t}
    /\ secret' = [secret EXCEPT ![t] = s]

\* UnlinkChannel leaves blocked_words alone.
UnlinkChannel(t) ==
    /\ linked' = linked \ {t}
    /\ rule' = [rule EXCEPT ![t] = DefaultRule]
    /\ secret' = [secret EXCEPT ![t] = NoSecret]

\* UpdateRuleConfig: no row changes, and no error, without a pairing.
UpdateRuleConfig(t, r) ==
    rule' = IF t \in linked THEN [rule EXCEPT ![t] = r] ELSE rule

\* Statements on blocked_words, and what they mean for whoever made them.
InTargets(f, T, S(_)) == [t \in Target |-> IF t \in T THEN S(f[t]) ELSE f[t]]
Change(T, S(_)) ==
    words' = InTargets(words, T, S) /\ asked' = InTargets(asked, T, S) /\ UNCHANGED cut

Block(T, w) == Change(T, LAMBDA W : W \cup {w})
Unblock(T, w) == Change(T, LAMBDA W : W \ {w})
ClearBlocks(T) == Change(T, LAMBDA W : {})

--------------------------------------------------------------------------------
(* Commands of Discord channels and add-webhook.                            *)

Join(t, s) ==  \* !join, without a secret, or add-webhook
    /\ Command
    /\ LinkChannel(t, s)
    /\ Touch("other", {t})
    /\ UNCHANGED <<rule, wordVars, tg, imp, secretBefore, ignored, imports, faults>>

Unlink(t) ==
    /\ Command
    /\ t \in linked
    /\ UnlinkChannel(t)
    /\ Touch("other", {t})
    /\ UNCHANGED <<wordVars, tg, imp, secretBefore, ignored, imports, faults>>

\* !unblock and !clearblocks of one channel; the look-up of the pairing and the
\* statement are one step, here and in TgUnblock.
DiscordUnblock(t) ==
    /\ Command
    /\ t \in linked
    /\ ClearBlocks({t}) \/ \E w \in Word : Unblock({t}, w)
    /\ Touch("other", {t})
    /\ UNCHANGED <<linked, rule, secret, tg, imp, secretBefore, ignored,
                   imports, faults>>

--------------------------------------------------------------------------------
(* Commands of the Telegram chat.                                           *)

\* GetPairingsBySource, at the start of every command.
BeginTg(op, arg, T) ==
    /\ tg.op = "none" /\ linked # {}
    /\ Command
    /\ tg' = [op |-> op, todo |-> T, all |-> T, arg |-> arg]
    /\ touched' = [touched EXCEPT !["tg"] = {}]
    /\ UNCHANGED <<tables, imp, secretBefore, ignored, imports, faults>>

\* /block w for all targets or for one, and /setrule for one.
BeginBlock(w) == \E T \in {linked} \cup {{t} : t \in linked} : BeginTg("block", w, T)
BeginSetRule(r) == \E t \in linked : BeginTg("setrule", r, {t})

EndTg == tg' = NoTg

\* Mutant: the loop ends with its first target.
Left_None(t) == {}
Left(t) == tg.todo \ {t}

\* AddBlockedWordForAllTargets: the first error ends the loop.
BlockNext(t) ==
    /\ tg.op = "block" /\ t \in tg.todo
    /\ \/ /\ Block({t}, tg.arg)
          /\ tg' = [tg EXCEPT !.todo = Left(t)]
          /\ Touch("tg", {t}) /\ NoFault
       \/ EndTg /\ UNCHANGED <<wordVars, touched>> /\ Fault
    /\ UNCHANGED <<linked, rule, secret, imp, secretBefore, ignored, commands, imports>>

\* The reply to the chat: blocked for all.
BlockDone ==
    /\ tg.op = "block" /\ tg.todo = {}
    /\ EndTg
    /\ UNCHANGED <<tables, imp, history, boundVars>>

ApplySetRule(t) ==
    /\ tg.op = "setrule" /\ t \in tg.todo
    /\ \/ /\ UpdateRuleConfig(t, tg.arg)
          /\ Touch("tg", {t}) /\ NoFault
       \/ UNCHANGED <<rule, touched>> /\ Fault
    /\ EndTg
    /\ UNCHANGED <<linked, secret, wordVars, imp, secretBefore, ignored, commands, imports>>

\* /unblock and /clearblocks: one statement, for one target or for the source,
\* the pairings that are unlinked included.
TgUnblock ==
    /\ tg.op = "none" /\ linked # {}
    /\ Command
    /\ \E T \in {Target} \cup {{t} : t \in linked} :
        /\ ClearBlocks(T) \/ \E w \in Word : Unblock(T, w)
        /\ Touch("tg", T)
    /\ UNCHANGED <<linked, rule, secret, tg, imp, secretBefore, ignored,
                   imports, faults>>

--------------------------------------------------------------------------------
(* import-pairings, without include-secrets and with replace-blocked.       *)

StartImport ==
    /\ imp.step = "idle" /\ imports < MaxImports
    /\ imports' = imports + 1
    /\ imp' = [NoImp EXCEPT !.step = "next", !.todo = Imported]
    /\ touched' = [touched EXCEPT !["cli"] = {}]
    /\ secretBefore' = secret /\ ignored' = FALSE
    /\ UNCHANGED <<tables, tg, commands, faults>>

\* The next step of the import, or its end at an error.
Then(step) == imp' = [imp EXCEPT !.step = step] /\ NoFault
Abort == imp' = NoImp /\ Fault

\* Mutant: the import passes no secret on.
Kept_None(t) == NoSecret
Kept(t) == secret[t]

\* GetPairing, for the secret to keep; its error counts as "no secret".
ReadItem(t) ==
    /\ imp.step = "next" /\ t \in imp.todo
    /\ \E s \in {Kept(t), NoSecret} :
        /\ imp' = [imp EXCEPT !.step = "link", !.todo = @ \ {t}, !.item = {t}, !.secret = s]
        /\ \/ s = Kept(t) /\ NoFault /\ UNCHANGED ignored
           \/ s = NoSecret /\ Fault /\ ignored' = TRUE
    /\ UNCHANGED <<tables, tg, touched, secretBefore, commands, imports>>

ImportLink(t) ==
    /\ imp.step = "link" /\ imp.item = {t}
    /\ \/ LinkChannel(t, imp.secret) /\ Touch("cli", {t}) /\ Then("rule")
       \/ UNCHANGED <<linked, secret, touched>> /\ Abort
    /\ UNCHANGED <<rule, wordVars, tg, secretBefore, ignored, commands, imports>>

ImportRule(t) ==
    /\ imp.step = "rule" /\ imp.item = {t}
    /\ \/ /\ UpdateRuleConfig(t, ItemRule[t])
          /\ Touch("cli", {t}) /\ Then("clear")
       \/ UNCHANGED <<rule, touched>> /\ Abort
    /\ UNCHANGED <<linked, secret, wordVars, tg, secretBefore, ignored, commands, imports>>

\* Mutant: the import adds its words to those that are there.
Cleared_None(t) == UNCHANGED wordVars
\* DELETE; whoever imports asks for the words of the file, some of which may
\* have been blocked all along.
Cleared(t) == /\ words' = [words EXCEPT ![t] = {}]
              /\ asked' = [asked EXCEPT ![t] = @ \cap ItemWords[t]]
              /\ UNCHANGED cut

\* The error of this one is dropped.
ImportClear(t) ==
    /\ imp.step = "clear" /\ imp.item = {t}
    /\ imp' = [imp EXCEPT !.step = "words", !.left = ItemWords[t]]
    /\ \/ Cleared(t) /\ Touch("cli", {t}) /\ NoFault /\ UNCHANGED ignored
       \/ UNCHANGED <<wordVars, touched>> /\ Fault /\ ignored' = TRUE
    /\ UNCHANGED <<linked, rule, secret, tg, secretBefore, commands, imports>>

\* Mutant: the error of a word is dropped like that of the DELETE.
AfterWordError_Next(w) == imp' = [imp EXCEPT !.left = @ \ {w}]
AfterWordError(w) == imp' = NoImp

CutShort == cut' = IF imp.left = {} THEN cut ELSE cut \cup imp.item

ImportWord(t, w) ==
    /\ imp.step = "words" /\ imp.item = {t}
    /\ w \in imp.left
    /\ \/ /\ Block({t}, w) /\ Touch("cli", {t})
          /\ imp' = [imp EXCEPT !.left = @ \ {w}] /\ NoFault
       \/ /\ AfterWordError(w) /\ Fault /\ CutShort
          /\ UNCHANGED <<words, asked, touched>>
    /\ UNCHANGED <<linked, rule, secret, tg, secretBefore, ignored, commands, imports>>

EndItem ==
    /\ imp.step = "words" /\ imp.left = {}
    /\ imp' = [imp EXCEPT !.step = IF imp.todo = {} THEN "done" ELSE "next", !.item = {}]
    /\ cut' = cut \ imp.item
    /\ UNCHANGED <<linked, rule, secret, words, asked, tg, history, boundVars>>

\* "Imported n pairings", and the process ends; or it was stopped on the way.
EndImport ==
    /\ imp.step # "idle"
    /\ imp' = NoImp /\ CutShort
    /\ UNCHANGED <<linked, rule, secret, words, asked, tg, history, boundVars>>

--------------------------------------------------------------------------------
Import == \/ StartImport \/ EndItem \/ EndImport
          \/ \E t \in Imported : \/ ReadItem(t) \/ ImportLink(t) \/ ImportRule(t)
                                 \/ ImportClear(t) \/ \E w \in Word : ImportWord(t, w)

Next == \/ \E t \in Target : \/ Unlink(t) \/ DiscordUnblock(t)
                             \/ \E s \in Secret : Join(t, s)
                             \/ BlockNext(t) \/ ApplySetRule(t)
        \/ \E w \in Word : BeginBlock(w)
        \/ \E r \in Rule : BeginSetRule(r)
        \/ BlockDone \/ TgUnblock
        \/ Import

Spec == Init /\ [][Next]_vars

--------------------------------------------------------------------------------
\* The tables and the two commands in progress have their types; a pairing that
\* does not exist has no rules and no secret.
TypeOK ==
    /\ linked \subseteq Target
    /\ rule \in [Target -> Rule] /\ secret \in [Target -> Secret]
    /\ words \in [Target -> SUBSET Word] /\ asked \in [Target -> SUBSET Word]
    /\ cut \subseteq Target
    /\ \A t \in Target \ linked : rule[t] = DefaultRule /\ secret[t] = NoSecret
    /\ tg.op \in {"none", "block", "setrule"} /\ tg.todo \subseteq tg.all
    /\ imp.step \in {"idle", "next", "link", "rule", "clear", "words", "done"}
    /\ imp.step \in {"link", "rule", "clear", "words"} <=> imp.item # {}
    /\ imp.todo \subseteq Imported \ imp.item

Undisturbed == {t \in Imported : t \notin touched["cli"]}

\* An import that reports success leaves each pairing that nobody else changed
\* meanwhile as the file describes it, also when an earlier run of it failed or
\* was stopped half-way, unless a statement whose error it ignores failed.
ImportConverges ==
    imp.step = "done" /\ ~ignored =>
        \A t \in Undisturbed :
            t \in linked /\ rule[t] = ItemRule[t] /\ words[t] = ItemWords[t]

\* A word that was blocked and not unblocked is in the table, whatever happens
\* to the pairing, but for the moments between an import's DELETE and its
\* INSERTs, and for good when the import ends in between, until another one
\* gets through.  Nothing is blocked that nobody asked for.
BlocksInForce ==
    \A t \in Target :
        /\ words[t] \subseteq asked[t]
        /\ \/ words[t] = asked[t]
           \/ t \in cut
           \/ imp.item = {t} /\ asked[t] \ words[t] \subseteq imp.left

\* Without include-secrets an import changes no secret, with the same provisos.
SecretsKept ==
    imp.step = "done" /\ ~ignored => \A t \in Undisturbed : secret[t] = secretBefore[t]

\* When the chat is told that a word is blocked for its targets, each of them
\* has it, unless another command has changed that target since.
BlockCovers ==
    [][BlockDone => \A t \in tg.all \ touched["tg"] : tg.arg \in words[t]]_vars
================================================================================
