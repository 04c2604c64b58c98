------------------------------ MODULE BridgeProofs ------------------------------
(***************************************************************************)
(* Proofs about PairingAdmin for any pairings, words and rules, any import *)
(* file, and any number of commands, imports and failures; and about       *)
(* Bridge: what PairingAdmin promises holds with the bridge running, and   *)
(* every verdict on an event follows from it, for any number of events.    *)
(***************************************************************************)
EXTENDS Bridge, TLAPS

USE DEF wordVars, tables, history, boundVars, vars, historySince, eventVars, bridgeVars

ImportStep == {"idle", "next", "link", "rule", "clear", "words", "done"}

TablesOK == /\ linked \subseteq Target
            /\ rule \in [Target -> Rule] /\ secret \in [Target -> Secret]
            /\ words \in [Target -> SUBSET Word] /\ asked \in [Target -> SUBSET Word]
            /\ cut \subseteq Target
            /\ \A t \in Target \ linked : rule[t] = DefaultRule /\ secret[t] = NoSecret

Running(op, Arg) ==
    [op : {op}, todo : SUBSET Target, all : SUBSET Target, arg : Arg]
TgOK == /\ tg = NoTg \/ tg \in Running("block", Word) \/ tg \in Running("setrule", Rule)
        /\ tg.todo \subseteq tg.all

ImpOK == /\ imp \in [step : ImportStep, todo : SUBSET Imported, item : SUBSET Imported,
                     secret : Secret, left : SUBSET Word]
         /\ imp.step \in {"link", "rule", "clear", "words"} <=> imp.item # {}
         /\ imp.todo \subseteq Imported \ imp.item
         /\ \A t, u \in imp.item : t = u
         /\ imp.step = "done" => imp.todo = {}

HistoryOK == /\ touched \in [{"tg", "cli"} -> SUBSET Target]
             /\ secretBefore \in [Target -> Secret] /\ ignored \in BOOLEAN

\* The words that should be blocked for t and are not.
Missing(t) == asked[t] \ words[t]

\* They are words of the file, and those the import has still to add, if it is
\* at t.
MissingIsDue ==
    \A t \in Target :
        /\ words[t] \subseteq asked[t]
        /\ t \in cut => t \in Imported /\ Missing(t) \subseteq ItemWords[t]
        /\ IF imp.step = "words" /\ t \in imp.item
           THEN Missing(t) \subseteq imp.left
           ELSE t \notin cut => Missing(t) = {}

LeftIsDue ==
    /\ imp.step # "words" => imp.left = {}
    /\ imp.step = "words" => \A t \in imp.item : imp.left \subseteq ItemWords[t]

Undone(t, steps) == t \in imp.todo \/ (t \in imp.item /\ imp.step \in steps)

\* What the import has done to pairings nobody else has changed since.
Progress ==
    imp.step # "idle" /\ ~ignored =>
        \A t \in Undisturbed :
            /\ secret[t] = secretBefore[t]
            /\ t \in imp.item /\ imp.step = "link" => imp.secret = secretBefore[t]
            /\ Undone(t, {"link"}) \/ t \in linked
            /\ Undone(t, {"link", "rule"}) \/ rule[t] = ItemRule[t]
            /\ \/ Undone(t, {"link", "rule", "clear"})
               \/ t \in imp.item /\ words[t] = ItemWords[t] \ imp.left
               \/ t \notin imp.item /\ words[t] = ItemWords[t]

\* The targets that /block is through with have the word, if nobody else has
\* changed them since.
Covered ==
    tg.op = "block" =>
        \A t \in tg.all \ (tg.todo \cup touched["tg"]) : tg.arg \in words[t]

TypesOK == TablesOK /\ TgOK /\ ImpOK /\ HistoryOK
IInv == TypesOK /\ MissingIsDue /\ LeftIsDue /\ Progress /\ Covered

LEMMA InitInv == Init => IInv
<1> SUFFICES ASSUME Init PROVE IInv
  OBVIOUS
<1> USE ConstantsAssumption DEF ConstantsAssumption, Init
<1>1. TypesOK
  BY DEF TypesOK, TablesOK, TgOK, ImpOK, HistoryOK, NoTg, NoImp, ImportStep
<1>2. MissingIsDue /\ LeftIsDue /\ Progress /\ Covered
  BY DEF MissingIsDue, Missing, LeftIsDue, Progress, Covered, NoTg, NoImp
<1>3. QED
  BY <1>1, <1>2 DEF IInv

--------------------------------------------------------------------------------
\* A statement changes the blocked words of its targets only, and takes a word
\* away only from those it should not be blocked for.
LEMMA StatementEffect ==
    ASSUME TablesOK, NEW T \in SUBSET Target, NEW w,
           (w \in Word /\ Block(T, w)) \/ Unblock(T, w) \/ ClearBlocks(T)
    PROVE  /\ words' \in [Target -> SUBSET Word] /\ asked' \in [Target -> SUBSET Word]
           /\ cut' = cut
           /\ \A t \in Target \ T : words'[t] = words[t]
           /\ \A t \in Target : Missing(t)' \subseteq Missing(t)
           /\ \A t \in Target : words[t] \subseteq asked[t] => words'[t] \subseteq asked'[t]
           /\ Block(T, w) => \A t \in T : words'[t] = words[t] \cup {w}
<1>1. CASE w \in Word /\ Block(T, w)
  BY <1>1 DEF Block, Change, InTargets, TablesOK, Missing
<1>2. CASE Unblock(T, w)
  <2>1. /\ words' = [t \in Target |-> IF t \in T THEN words[t] \ {w} ELSE words[t]]
        /\ asked' = [t \in Target |-> IF t \in T THEN asked[t] \ {w} ELSE asked[t]]
        /\ cut' = cut
    BY <1>2 DEF Unblock, Change, InTargets
  <2>2. ~Block(T, w) \/ \A t \in T : words'[t] = words[t] \cup {w}
    BY DEF Block, Change, InTargets, TablesOK
  <2>3. QED
    BY <2>1, <2>2 DEF TablesOK, Missing
<1>3. CASE ClearBlocks(T)
  <2>1. /\ words' = [t \in Target |-> IF t \in T THEN {} ELSE words[t]]
        /\ asked' = [t \in Target |-> IF t \in T THEN {} ELSE asked[t]]
        /\ cut' = cut
    BY <1>3 DEF ClearBlocks, Change, InTargets
  <2>2. ~Block(T, w) \/ \A t \in T : words'[t] = words[t] \cup {w}
    BY DEF Block, Change, InTargets, TablesOK
  <2>3. QED
    BY <2>1, <2>2 DEF TablesOK, Missing
<1>4. QED
  BY <1>1, <1>2, <1>3

--------------------------------------------------------------------------------
(* The commands.                                                            *)

AdminCommand ==
    \/ \E t \in Target : \/ Unlink(t) \/ DiscordUnblock(t)
                         \/ \E s \in Secret : Join(t, s)
                         \/ BlockNext(t) \/ ApplySetRule(t)
    \/ \E w \in Word : BeginBlock(w)
    \/ \E r \in Rule : BeginSetRule(r)
    \/ BlockDone \/ TgUnblock

\* The targets that actor does not find touched are as they were.
Others(actor) ==
    \A t \in Target : t \notin touched'[actor] =>
        /\ t \notin touched[actor]
        /\ t \in linked' <=> t \in linked
        /\ rule'[t] = rule[t] /\ secret'[t] = secret[t] /\ words'[t] = words[t]

NoWordLost == /\ \A t \in Target : Missing(t)' \subseteq Missing(t)
              /\ \A t \in Target : words[t] \subseteq asked[t] => words'[t] \subseteq asked'[t]

CommandResult == /\ TablesOK' /\ HistoryOK' /\ Others("cli") /\ NoWordLost
                 /\ UNCHANGED <<imp, secretBefore, ignored, cut>>

LEMMA CommandEffect == TypesOK /\ AdminCommand => CommandResult
<1> SUFFICES ASSUME TypesOK, AdminCommand PROVE CommandResult
  OBVIOUS
<1> USE ConstantsAssumption DEF ConstantsAssumption
<1>0. TablesOK /\ TgOK /\ HistoryOK
  BY DEF TypesOK
<1>1. ASSUME NEW t \in Target, Unlink(t) \/ \E s \in Secret : Join(t, s) PROVE CommandResult
  <2>1. /\ UNCHANGED <<imp, secretBefore, ignored, words, asked, cut>>
        /\ Touch("other", {t})
    BY <1>1 DEF Unlink, Join
  <2>2. TablesOK' /\ \A u \in Target \ {t} : /\ u \in linked' <=> u \in linked
                                             /\ rule'[u] = rule[u] /\ secret'[u] = secret[u]
    BY <1>0, <1>1, <2>1 DEF Unlink, Join, LinkChannel, UnlinkChannel, TablesOK
  <2>3. HistoryOK' /\ touched'["cli"] = touched["cli"] \cup {t}
    BY <1>0, <2>1 DEF HistoryOK, Touch
  <2>4. Others("cli")
    BY <2>1, <2>2, <2>3 DEF Others
  <2>5. NoWordLost
    BY <2>1 DEF NoWordLost, Missing
  <2>6. QED
    BY <2>1, <2>2, <2>3, <2>4, <2>5 DEF CommandResult
<1>2. ASSUME NEW T \in SUBSET Target, NEW actor, NEW w,
             (w \in Word /\ Block(T, w)) \/ Unblock(T, w) \/ ClearBlocks(T),
             Touch(actor, T), actor # "cli",
             UNCHANGED <<linked, rule, secret, imp, secretBefore, ignored>>
      PROVE  CommandResult
  <2>1. /\ words' \in [Target -> SUBSET Word] /\ asked' \in [Target -> SUBSET Word]
        /\ cut' = cut /\ NoWordLost
        /\ \A t \in Target \ T : words'[t] = words[t]
    BY <1>0, <1>2, StatementEffect DEF NoWordLost
  <2>2. TablesOK'
    BY <1>0, <1>2, <2>1 DEF TablesOK
  <2>3. HistoryOK' /\ touched'["cli"] = touched["cli"] \cup T
    BY <1>0, <1>2 DEF HistoryOK, Touch
  <2>4. Others("cli")
    BY <1>2, <2>1, <2>3 DEF Others
  <2>5. QED
    BY <1>2, <2>1, <2>2, <2>3, <2>4 DEF CommandResult
<1>3. ASSUME NEW t \in Target, DiscordUnblock(t) PROVE CommandResult
  <2>1. PICK w : Unblock({t}, w) \/ ClearBlocks({t})
    BY <1>3 DEF DiscordUnblock
  <2>2. Touch("other", {t}) /\ UNCHANGED <<linked, rule, secret, imp, secretBefore, ignored>>
    BY <1>3 DEF DiscordUnblock
  <2>3. QED
    BY <1>2, <2>1, <2>2
<1>4. CASE TgUnblock
  <2>1. PICK T \in SUBSET Target : /\ ClearBlocks(T) \/ \E w \in Word : Unblock(T, w)
                                   /\ Touch("tg", T)
    BY <1>0, <1>4 DEF TgUnblock, TablesOK
  <2>2. UNCHANGED <<linked, rule, secret, imp, secretBefore, ignored>>
    BY <1>4 DEF TgUnblock
  <2>3. PICK w : Unblock(T, w) \/ ClearBlocks(T)
    BY <2>1
  <2>4. QED
    BY <1>2, <2>1, <2>2, <2>3
<1>5. ASSUME /\ UNCHANGED <<linked, rule, secret, words, asked, cut, imp, secretBefore, ignored>>
             /\ touched' \in [{"tg", "cli"} -> SUBSET Target]
             /\ touched'["cli"] = touched["cli"]
      PROVE  CommandResult
  BY <1>0, <1>5 DEF CommandResult, TablesOK, HistoryOK, Others, NoWordLost, Missing
<1>6. CASE (\E w \in Word : BeginBlock(w)) \/ (\E r \in Rule : BeginSetRule(r)) \/ BlockDone
  <2>1. /\ UNCHANGED <<linked, rule, secret, words, asked, cut, imp, secretBefore, ignored>>
        /\ touched' = touched \/ touched' = [touched EXCEPT !["tg"] = {}]
    BY <1>6 DEF BeginBlock, BeginSetRule, BeginTg, BlockDone
  <2>2. QED
    BY <1>0, <1>5, <2>1 DEF HistoryOK
<1>7. ASSUME NEW t \in Target, BlockNext(t) PROVE CommandResult
  <2>1. CASE UNCHANGED <<wordVars, touched>>
    BY <1>0, <1>5, <1>7, <2>1 DEF BlockNext, HistoryOK
  <2>2. CASE Block({t}, tg.arg) /\ Touch("tg", {t})
    <3>1. tg.arg \in Word
      BY <1>0, <1>7 DEF BlockNext, TgOK, Running, NoTg
    <3>2. UNCHANGED <<linked, rule, secret, imp, secretBefore, ignored>>
      BY <1>7 DEF BlockNext
    <3>3. QED
      BY <1>2, <2>2, <3>1, <3>2
  <2>3. QED
    BY <1>7, <2>1, <2>2 DEF BlockNext
<1>8. ASSUME NEW t \in Target, ApplySetRule(t) PROVE CommandResult
  <2>1. UNCHANGED <<linked, secret, words, asked, cut, imp, secretBefore, ignored>>
    BY <1>8 DEF ApplySetRule
  <2>2. CASE UNCHANGED <<rule, touched>>
    BY <1>0, <1>5, <2>1, <2>2 DEF HistoryOK
  <2>3. CASE UpdateRuleConfig(t, tg.arg) /\ Touch("tg", {t})
    <3>1. tg.arg \in Rule
      BY <1>0, <1>8 DEF ApplySetRule, TgOK, Running, NoTg
    <3>2. TablesOK' /\ \A u \in Target \ {t} : rule'[u] = rule[u]
      BY <1>0, <2>1, <2>3, <3>1 DEF TablesOK, UpdateRuleConfig
    <3>3. HistoryOK' /\ touched'["cli"] = touched["cli"] \cup {t}
      BY <1>0, <2>1, <2>3 DEF HistoryOK, Touch
    <3>4. Others("cli") /\ NoWordLost
      BY <2>1, <3>2, <3>3 DEF Others, NoWordLost, Missing
    <3>5. QED
      BY <2>1, <3>2, <3>3, <3>4 DEF CommandResult
  <2>4. QED
    BY <1>8, <2>2, <2>3 DEF ApplySetRule
<1>9. QED
  BY <1>1, <1>3, <1>4, <1>6, <1>7, <1>8 DEF AdminCommand

\* A command leaves the import what it has done, but for the pairings it touches.
LEMMA CommandKeepsImport ==
    IInv /\ CommandResult => ImpOK' /\ MissingIsDue' /\ LeftIsDue' /\ Progress'
<1> SUFFICES ASSUME IInv, CommandResult
             PROVE  ImpOK' /\ MissingIsDue' /\ LeftIsDue' /\ Progress'
  OBVIOUS
<1>1. UNCHANGED <<imp, secretBefore, ignored, cut>> /\ Others("cli") /\ NoWordLost
  BY DEF CommandResult
<1>2. ImpOK' /\ LeftIsDue'
  BY <1>1 DEF IInv, TypesOK, ImpOK, LeftIsDue
<1>3. MissingIsDue'
  BY <1>1 DEF IInv, MissingIsDue, NoWordLost
<1>4. Progress'
  <2>1. \A t \in Undisturbed' : /\ t \in Undisturbed /\ t \in Target
                                /\ t \in linked' <=> t \in linked
                                /\ rule'[t] = rule[t] /\ secret'[t] = secret[t]
                                /\ words'[t] = words[t]
    BY <1>1, ConstantsAssumption DEF Undisturbed, Others, ConstantsAssumption
  <2>2. QED
    BY <1>1, <2>1 DEF IInv, Progress, Undone
<1>5. QED
  BY <1>2, <1>3, <1>4

\* The targets /block is through with keep its word.
LEMMA CommandKeepsTg == IInv /\ AdminCommand => TgOK' /\ Covered'
<1> SUFFICES ASSUME IInv, AdminCommand PROVE TgOK' /\ Covered'
  OBVIOUS
<1>0. TablesOK /\ TgOK /\ HistoryOK /\ Covered
  BY DEF IInv, TypesOK
<1>1. CASE tg' = NoTg
  BY <1>1 DEF TgOK, Covered, NoTg
<1>2. ASSUME NEW op, NEW arg, NEW T \in SUBSET Target, BeginTg(op, arg, T),
             (op = "block" /\ arg \in Word) \/ (op = "setrule" /\ arg \in Rule)
      PROVE  TgOK' /\ Covered'
  BY <1>2 DEF BeginTg, TgOK, Covered, Running
<1>3. ASSUME NEW t \in Target, BlockNext(t), tg' # NoTg
      PROVE  TgOK' /\ Covered'
  <2>1. /\ t \in tg.todo /\ tg \in Running("block", Word)
        /\ Block({t}, tg.arg) /\ Touch("tg", {t})
        /\ tg' = [tg EXCEPT !.todo = tg.todo \ {t}]
    BY <1>0, <1>3 DEF BlockNext, EndTg, Left, TgOK, Running, NoTg
  <2>2. touched'["tg"] = touched["tg"]
    BY <1>0, <2>1 DEF HistoryOK, Touch
  <2>3. \A u \in Target : words'[u] = IF u = t THEN words[u] \cup {tg.arg} ELSE words[u]
    BY <1>0, <2>1 DEF Block, Change, InTargets, TablesOK
  <2>4. tg.all \subseteq Target /\ tg'.all = tg.all /\ tg'.arg = tg.arg /\ tg'.op = tg.op
        /\ tg'.todo = tg.todo \ {t} /\ tg.op = "block"
    BY <2>1 DEF Running
  <2>5. TgOK'
    BY <1>0, <2>1 DEF TgOK, Running
  <2>6. ASSUME NEW u \in tg.all \ ((tg.todo \ {t}) \cup touched["tg"])
        PROVE  tg.arg \in words'[u]
    <3>1. CASE u = t
      BY <2>3, <2>4, <3>1
    <3>2. CASE u # t
      BY <1>0, <2>3, <2>4, <2>6, <3>2 DEF Covered
    <3>3. QED
      BY <3>1, <3>2
  <2>7. Covered'
    BY <2>2, <2>4, <2>6 DEF Covered
  <2>8. QED
    BY <2>5, <2>7
<1>4. ASSUME NEW t \in Target, NEW T \in SUBSET Target, t \in T, tg' = tg, Touch("other", T),
             \A u \in Target \ T : words'[u] = words[u]
      PROVE  TgOK' /\ Covered'
  <2>1. touched'["tg"] = touched["tg"] \cup T
    BY <1>0, <1>4 DEF HistoryOK, Touch
  <2>2. tg.all \subseteq Target
    BY <1>0 DEF TgOK, Running, NoTg
  <2>3. QED
    BY <1>0, <1>4, <2>1, <2>2 DEF TgOK, Covered
<1>5. ASSUME NEW t \in Target, Unlink(t) \/ \E s \in Secret : Join(t, s)
      PROVE  TgOK' /\ Covered'
  <2>1. UNCHANGED <<tg, words>> /\ Touch("other", {t})
    BY <1>5 DEF Unlink, Join
  <2>2. QED
    BY <1>4, <2>1
<1>6. ASSUME NEW t \in Target, DiscordUnblock(t)
      PROVE  TgOK' /\ Covered'
  <2>1. /\ \E w : Unblock({t}, w) \/ ClearBlocks({t})
        /\ tg' = tg /\ Touch("other", {t})
    BY <1>6 DEF DiscordUnblock
  <2>2. \A u \in Target \ {t} : words'[u] = words[u]
    BY <1>0, <2>1, StatementEffect
  <2>3. QED
    BY <1>4, <2>1, <2>2
<1>7. CASE TgUnblock
  BY <1>0, <1>7 DEF TgUnblock, TgOK, Running, Covered, NoTg
<1>8. QED
  <2>1. ASSUME NEW w \in Word, BeginBlock(w) PROVE TgOK' /\ Covered'
    <3>1. PICK T \in {linked} \cup {{t} : t \in linked} : BeginTg("block", w, T)
      BY <2>1 DEF BeginBlock
    <3>2. T \in SUBSET Target
      BY <1>0 DEF TablesOK
    <3>3. QED
      BY <1>2, <3>1, <3>2
  <2>2. ASSUME NEW r \in Rule, BeginSetRule(r) PROVE TgOK' /\ Covered'
    <3>1. PICK t \in linked : BeginTg("setrule", r, {t})
      BY <2>2 DEF BeginSetRule
    <3>2. {t} \in SUBSET Target
      BY <1>0 DEF TablesOK
    <3>3. QED
      BY <1>2, <3>1, <3>2
  <2>3. ASSUME BlockDone \/ \E t \in Target : ApplySetRule(t) PROVE tg' = NoTg
    BY <2>3 DEF BlockDone, ApplySetRule, EndTg
  <2>4. QED
    BY <1>1, <1>3, <1>5, <1>6, <1>7, <2>1, <2>2, <2>3 DEF AdminCommand

--------------------------------------------------------------------------------
(* The import.                                                              *)

ImportResult == ImpOK' /\ MissingIsDue' /\ LeftIsDue' /\ Progress'

\* It ends, and the words it has left to add are accounted for.
LEMMA ImportStops ==
    ASSUME IInv, imp' = NoImp, UNCHANGED <<words, asked>>, CutShort
    PROVE  ImportResult
<1>0. ImpOK /\ MissingIsDue /\ LeftIsDue
  BY DEF IInv, TypesOK
<1>1. ImpOK'
  BY ConstantsAssumption DEF ImpOK, NoImp, ImportStep, ConstantsAssumption
<1>2. LeftIsDue' /\ Progress'
  BY DEF LeftIsDue, Progress, NoImp
<1>3. \A t \in cut' : t \in cut \/ (t \in imp.item /\ imp.step = "words")
  BY <1>0 DEF CutShort, LeftIsDue
<1>4. ASSUME NEW t \in Target
      PROVE  /\ words[t] \subseteq asked[t]
             /\ t \in cut' => t \in Imported /\ Missing(t) \subseteq ItemWords[t]
             /\ t \notin cut' => Missing(t) = {}
  <2>1. CASE imp.step = "words" /\ t \in imp.item
    <3>1. Missing(t) \subseteq imp.left /\ imp.left \subseteq ItemWords[t] /\ t \in Imported
      BY <1>0, <2>1 DEF MissingIsDue, LeftIsDue, ImpOK
    <3>2. t \notin cut' => imp.left = {}
      BY <2>1 DEF CutShort
    <3>3. QED
      BY <1>0, <3>1, <3>2 DEF MissingIsDue
  <2>2. CASE ~(imp.step = "words" /\ t \in imp.item)
    <3>1. t \in cut' <=> t \in cut
      BY <1>3, <2>2 DEF CutShort
    <3>2. QED
      BY <1>0, <2>2, <3>1 DEF MissingIsDue
  <2>3. QED
    BY <2>1, <2>2
<1>5. MissingIsDue'
  BY <1>4 DEF MissingIsDue, Missing, NoImp
<1>6. QED
  BY <1>1, <1>2, <1>5 DEF ImportResult

\* An import that ends before it has words left to add leaves none.
LEMMA ImportAborts ==
    ASSUME IInv, imp.step # "words", Abort, UNCHANGED wordVars
    PROVE  ImportResult
<1>1. CutShort
  BY DEF IInv, LeftIsDue, CutShort
<1>2. QED
  BY <1>1, ImportStops DEF Abort

LEMMA StartImportStep == IInv /\ StartImport => ImportResult
<1> SUFFICES ASSUME IInv, StartImport PROVE ImportResult
  OBVIOUS
<1>1. /\ imp.step = "idle" /\ UNCHANGED tables
      /\ imp' = [NoImp EXCEPT !.step = "next", !.todo = Imported]
      /\ touched' = [touched EXCEPT !["cli"] = {}] /\ secretBefore' = secret
  BY DEF StartImport
<1>2. /\ imp'.step = "next" /\ imp'.todo = Imported /\ imp'.item = {} /\ imp'.left = {}
      /\ imp'.secret = NoSecret
  BY <1>1 DEF NoImp
<1>3. ImpOK'
  BY <1>1, ConstantsAssumption DEF ImpOK, NoImp, ImportStep, ConstantsAssumption
<1>4. MissingIsDue' /\ LeftIsDue'
  BY <1>1, <1>2 DEF IInv, MissingIsDue, Missing, LeftIsDue
<1>5. Progress'
  BY <1>1, <1>2 DEF Progress, Undone, Undisturbed
<1>6. QED
  BY <1>3, <1>4, <1>5 DEF ImportResult

LEMMA ReadItemStep == \A t \in Imported : IInv /\ ReadItem(t) => ImportResult
<1> SUFFICES ASSUME NEW t \in Imported, IInv, ReadItem(t) PROVE ImportResult
  OBVIOUS
<1>0. ImpOK /\ TablesOK /\ t \in Target
  BY ConstantsAssumption DEF IInv, TypesOK, ConstantsAssumption
<1>1. PICK s \in {Kept(t), NoSecret} :
        /\ imp' = [imp EXCEPT !.step = "link", !.todo = imp.todo \ {t}, !.item = {t},
                              !.secret = s]
        /\ \/ s = Kept(t) /\ UNCHANGED ignored
           \/ ignored' = TRUE
  BY DEF ReadItem
<1>2. UNCHANGED <<tables, touched, secretBefore>> /\ imp.step = "next" /\ t \in imp.todo
  BY DEF ReadItem
<1>3. s \in Secret
  BY <1>0, ConstantsAssumption DEF Kept, TablesOK, ConstantsAssumption
<1>4. /\ imp'.step = "link" /\ imp'.todo = imp.todo \ {t} /\ imp'.item = {t}
      /\ imp'.secret = s /\ imp'.left = imp.left /\ imp.item = {}
  BY <1>0, <1>1, <1>2 DEF ImpOK
<1>5. ImpOK'
  BY <1>0, <1>1, <1>2, <1>3, <1>4 DEF ImpOK, ImportStep
<1>6. MissingIsDue' /\ LeftIsDue'
  BY <1>2, <1>4 DEF IInv, MissingIsDue, Missing, LeftIsDue
<1>7. Progress'
  <2>1. ~ignored' => s = secret[t] /\ ~ignored
    BY <1>1 DEF Kept
  <2>2. QED
    BY <1>2, <1>4, <2>1 DEF IInv, Progress, Undone, Undisturbed
<1>8. QED
  BY <1>5, <1>6, <1>7 DEF ImportResult

LEMMA ImportLinkStep == \A t \in Imported : IInv /\ ImportLink(t) => ImportResult
<1> SUFFICES ASSUME NEW t \in Imported, IInv, ImportLink(t) PROVE ImportResult
  OBVIOUS
<1>0. ImpOK /\ TablesOK /\ HistoryOK /\ t \in Target
  BY ConstantsAssumption DEF IInv, TypesOK, ConstantsAssumption
<1>1. imp.step = "link" /\ imp.item = {t}
      /\ UNCHANGED <<rule, words, asked, cut, secretBefore, ignored>>
  BY DEF ImportLink
<1>2. CASE Abort
  BY <1>1, <1>2, ImportAborts
<1>3. CASE LinkChannel(t, imp.secret) /\ Touch("cli", {t}) /\ Then("rule")
  <2>1. imp' = [imp EXCEPT !.step = "rule"] /\ touched'["cli"] = touched["cli"]
        /\ linked' = linked \cup {t} /\ secret' = [secret EXCEPT ![t] = imp.secret]
    BY <1>0, <1>3 DEF Then, Touch, HistoryOK, LinkChannel
  <2>2. /\ imp'.step = "rule" /\ imp'.todo = imp.todo /\ imp'.item = imp.item
        /\ imp'.left = imp.left
    BY <1>0, <2>1 DEF ImpOK
  <2>3. ImpOK'
    BY <1>0, <1>1, <2>1, <2>2 DEF ImpOK, ImportStep
  <2>4. MissingIsDue' /\ LeftIsDue'
    BY <1>1, <2>2 DEF IInv, MissingIsDue, Missing, LeftIsDue
  <2>5. Undisturbed' = Undisturbed /\ Undisturbed \subseteq Target
    BY <2>1, ConstantsAssumption DEF Undisturbed, ConstantsAssumption
  <2>6. Progress'
    BY <1>0, <1>1, <2>1, <2>2, <2>5 DEF IInv, Progress, Undone, TablesOK
  <2>7. QED
    BY <2>3, <2>4, <2>6 DEF ImportResult
<1>4. QED
  BY <1>2, <1>3 DEF ImportLink

LEMMA ImportRuleStep == \A t \in Imported : IInv /\ ImportRule(t) => ImportResult
<1> SUFFICES ASSUME NEW t \in Imported, IInv, ImportRule(t) PROVE ImportResult
  OBVIOUS
<1>0. ImpOK /\ TablesOK /\ HistoryOK /\ t \in Target
  BY ConstantsAssumption DEF IInv, TypesOK, ConstantsAssumption
<1>1. imp.step = "rule" /\ imp.item = {t}
      /\ UNCHANGED <<linked, secret, words, asked, cut, secretBefore, ignored>>
  BY DEF ImportRule
<1>2. CASE Abort
  BY <1>1, <1>2, ImportAborts
<1>3. CASE UpdateRuleConfig(t, ItemRule[t]) /\ Touch("cli", {t}) /\ Then("clear")
  <2>1. imp' = [imp EXCEPT !.step = "clear"] /\ touched'["cli"] = touched["cli"]
        /\ rule' = IF t \in linked THEN [rule EXCEPT ![t] = ItemRule[t]] ELSE rule
    BY <1>0, <1>3 DEF Then, Touch, HistoryOK, UpdateRuleConfig
  <2>2. /\ imp'.step = "clear" /\ imp'.todo = imp.todo /\ imp'.item = imp.item
        /\ imp'.left = imp.left
    BY <1>0, <2>1 DEF ImpOK
  <2>3. ImpOK'
    BY <1>0, <1>1, <2>1, <2>2 DEF ImpOK, ImportStep
  <2>4. MissingIsDue' /\ LeftIsDue'
    BY <1>1, <2>2 DEF IInv, MissingIsDue, Missing, LeftIsDue
  <2>5. Undisturbed' = Undisturbed /\ Undisturbed \subseteq Target
    BY <2>1, ConstantsAssumption DEF Undisturbed, ConstantsAssumption
  <2>6. Progress'
    BY <1>0, <1>1, <2>1, <2>2, <2>5 DEF IInv, Progress, Undone, TablesOK, ImpOK
  <2>7. QED
    BY <2>3, <2>4, <2>6 DEF ImportResult
<1>4. QED
  BY <1>2, <1>3 DEF ImportRule

LEMMA ImportClearStep == \A t \in Imported : IInv /\ ImportClear(t) => ImportResult
<1> SUFFICES ASSUME NEW t \in Imported, IInv, ImportClear(t) PROVE ImportResult
  OBVIOUS
<1>0. ImpOK /\ TablesOK /\ HistoryOK /\ t \in Target /\ ItemWords[t] \in SUBSET Word
  BY ConstantsAssumption DEF IInv, TypesOK, ConstantsAssumption
<1>1. /\ imp.step = "clear" /\ imp.item = {t}
      /\ imp' = [imp EXCEPT !.step = "words", !.left = ItemWords[t]]
      /\ UNCHANGED <<linked, rule, secret, secretBefore>>
  BY DEF ImportClear
<1>2. /\ imp'.step = "words" /\ imp'.todo = imp.todo /\ imp'.item = imp.item
      /\ imp'.left = ItemWords[t]
  BY <1>0, <1>1 DEF ImpOK
<1>3. ImpOK' /\ LeftIsDue'
  BY <1>0, <1>1, <1>2 DEF ImpOK, ImportStep, LeftIsDue
<1>4. CASE Cleared(t) /\ Touch("cli", {t}) /\ UNCHANGED ignored
  <2>1. /\ words' = [words EXCEPT ![t] = {}]
        /\ asked' = [asked EXCEPT ![t] = asked[t] \cap ItemWords[t]]
        /\ cut' = cut
    BY <1>4 DEF Cleared
  <2>2. MissingIsDue'
    BY <1>0, <1>1, <1>2, <2>1 DEF IInv, MissingIsDue, Missing, TablesOK
  <2>3. Undisturbed' = Undisturbed /\ Undisturbed \subseteq Target
    BY <1>0, <1>4, ConstantsAssumption
    DEF Undisturbed, Touch, HistoryOK, ConstantsAssumption
  <2>4. Progress'
    BY <1>0, <1>1, <1>2, <1>4, <2>1, <2>3 DEF IInv, Progress, Undone, TablesOK, ImpOK
  <2>5. QED
    BY <1>3, <2>2, <2>4 DEF ImportResult
<1>5. CASE UNCHANGED <<wordVars, touched>> /\ ignored' = TRUE
  <2>1. MissingIsDue'
    BY <1>0, <1>1, <1>2, <1>5 DEF IInv, MissingIsDue, Missing
  <2>2. Progress'
    BY <1>5 DEF Progress
  <2>3. QED
    BY <1>3, <2>1, <2>2 DEF ImportResult
<1>6. QED
  BY <1>4, <1>5 DEF ImportClear

LEMMA ImportWordStep ==
    \A t \in Imported, w \in Word : IInv /\ ImportWord(t, w) => ImportResult
<1> SUFFICES ASSUME NEW t \in Imported, NEW w \in Word, IInv, ImportWord(t, w)
             PROVE  ImportResult
  OBVIOUS
<1>0. ImpOK /\ TablesOK /\ HistoryOK /\ t \in Target
  BY ConstantsAssumption DEF IInv, TypesOK, ConstantsAssumption
<1>1. imp.step = "words" /\ imp.item = {t} /\ w \in imp.left
      /\ UNCHANGED <<linked, rule, secret, secretBefore, ignored>>
  BY DEF ImportWord
<1>2. CASE AfterWordError(w) /\ CutShort /\ UNCHANGED <<words, asked>>
  BY <1>2, ImportStops DEF AfterWordError
<1>3. CASE Block({t}, w) /\ Touch("cli", {t}) /\ imp' = [imp EXCEPT !.left = imp.left \ {w}]
  <2>1. /\ words' = [u \in Target |-> IF u = t THEN words[u] \cup {w} ELSE words[u]]
        /\ asked' = [u \in Target |-> IF u = t THEN asked[u] \cup {w} ELSE asked[u]]
        /\ cut' = cut
    BY <1>3 DEF Block, Change, InTargets
  <2>2. /\ imp'.step = imp.step /\ imp'.todo = imp.todo /\ imp'.item = imp.item
        /\ imp'.left = imp.left \ {w}
    BY <1>0, <1>3 DEF ImpOK
  <2>3. ImpOK'
    BY <1>0, <1>3, <2>2 DEF ImpOK
  <2>4. LeftIsDue'
    BY <1>1, <2>2 DEF IInv, LeftIsDue
  <2>5. MissingIsDue'
    BY <1>0, <1>1, <2>1, <2>2 DEF IInv, MissingIsDue, Missing
  <2>6. Undisturbed' = Undisturbed /\ Undisturbed \subseteq Target
    BY <1>0, <1>3, ConstantsAssumption
    DEF Undisturbed, Touch, HistoryOK, ConstantsAssumption
  <2>7. w \in ItemWords[t]
    BY <1>1 DEF IInv, LeftIsDue
  <2>8. Progress'
    BY <1>0, <1>1, <2>1, <2>2, <2>6, <2>7 DEF IInv, Progress, Undone
  <2>9. QED
    BY <2>3, <2>4, <2>5, <2>8 DEF ImportResult
<1>4. QED
  BY <1>2, <1>3 DEF ImportWord

LEMMA EndItemStep == IInv /\ EndItem => ImportResult
<1> SUFFICES ASSUME IInv, EndItem PROVE ImportResult
  OBVIOUS
<1>0. ImpOK /\ MissingIsDue
  BY DEF IInv, TypesOK
<1>1. /\ imp.step = "words" /\ imp.left = {} /\ cut' = cut \ imp.item
      /\ imp' = [imp EXCEPT !.step = IF imp.todo = {} THEN "done" ELSE "next", !.item = {}]
      /\ UNCHANGED <<linked, rule, secret, words, asked, touched, secretBefore, ignored>>
  BY DEF EndItem
<1>2. /\ imp'.step = (IF imp.todo = {} THEN "done" ELSE "next") /\ imp'.todo = imp.todo
      /\ imp'.item = {} /\ imp'.left = {}
  BY <1>0, <1>1 DEF ImpOK
<1>3. ImpOK'
  BY <1>0, <1>1, <1>2 DEF ImpOK, ImportStep
<1>4. MissingIsDue' /\ LeftIsDue'
  BY <1>0, <1>1, <1>2 DEF MissingIsDue, Missing, LeftIsDue
<1>5. Progress'
  BY <1>1, <1>2 DEF IInv, Progress, Undone, Undisturbed
<1>6. QED
  BY <1>3, <1>4, <1>5 DEF ImportResult

LEMMA ImportStepInv == IInv /\ Import => ImportResult
<1> SUFFICES ASSUME IInv, Import PROVE ImportResult
  OBVIOUS
<1>1. CASE EndImport
  BY <1>1, ImportStops DEF EndImport
<1>2. QED
  BY <1>1, StartImportStep, ReadItemStep, ImportLinkStep, ImportRuleStep, ImportClearStep,
     ImportWordStep, EndItemStep
  DEF Import

\* What the import leaves to the commands.
ImportLeaves ==
    /\ TablesOK' /\ HistoryOK' /\ tg' = tg
    /\ \A t \in Target \ touched'["tg"] : t \notin touched["tg"] /\ words'[t] = words[t]

LEMMA ImportEffect == TypesOK /\ Import => ImportLeaves
<1> SUFFICES ASSUME TypesOK, Import PROVE ImportLeaves
  OBVIOUS
<1> USE DEF ImportLeaves
<1>0. ImpOK /\ TablesOK /\ HistoryOK /\ Imported \subseteq Target
  BY ConstantsAssumption DEF TypesOK, ConstantsAssumption
<1>1. CASE StartImport
  BY <1>0, <1>1 DEF StartImport, TablesOK, HistoryOK
<1>2. CASE EndItem \/ EndImport
  BY <1>0, <1>2 DEF EndItem, EndImport, CutShort, TablesOK, HistoryOK, ImpOK
<1>3. ASSUME NEW t \in Imported, ReadItem(t) PROVE ImportLeaves
  BY <1>0, <1>3 DEF ReadItem, TablesOK, HistoryOK
<1>4. ASSUME NEW t \in Target, tg' = tg, UNCHANGED <<secretBefore>>, ignored' \in BOOLEAN,
             TablesOK', \A u \in Target \ {t} : words'[u] = words[u],
             Touch("cli", {t}) \/ UNCHANGED <<words, touched>>
      PROVE  ImportLeaves
  BY <1>0, <1>4 DEF HistoryOK, Touch
<1>5. ASSUME NEW t \in Imported, ImportLink(t) PROVE ImportLeaves
  <2>1. /\ tg' = tg /\ UNCHANGED <<rule, words, asked, cut, secretBefore, ignored>>
        /\ Touch("cli", {t}) \/ UNCHANGED <<words, touched>>
    BY <1>5 DEF ImportLink
  <2>2. TablesOK'
    BY <1>0, <1>5, <2>1 DEF ImportLink, LinkChannel, TablesOK, ImpOK
  <2>3. QED
    BY <1>0, <1>4, <2>1, <2>2 DEF HistoryOK
<1>6. ASSUME NEW t \in Imported, ImportRule(t) PROVE ImportLeaves
  <2>1. /\ tg' = tg /\ UNCHANGED <<linked, secret, words, asked, cut, secretBefore, ignored>>
        /\ Touch("cli", {t}) \/ UNCHANGED <<words, touched>>
    BY <1>6 DEF ImportRule
  <2>2. TablesOK'
    BY <1>0, <1>6, <2>1, ConstantsAssumption
    DEF ImportRule, UpdateRuleConfig, TablesOK, ConstantsAssumption
  <2>3. QED
    BY <1>0, <1>4, <2>1, <2>2 DEF HistoryOK
<1>7. ASSUME NEW t \in Imported, ImportClear(t) PROVE ImportLeaves
  <2>1. /\ tg' = tg /\ UNCHANGED <<linked, rule, secret, secretBefore>>
        /\ \/ Cleared(t) /\ Touch("cli", {t}) /\ UNCHANGED ignored
           \/ UNCHANGED <<words, asked, cut, touched>> /\ ignored' = TRUE
    BY <1>7 DEF ImportClear
  <2>2. TablesOK' /\ \A u \in Target \ {t} : words'[u] = words[u]
    BY <1>0, <2>1 DEF Cleared, TablesOK
  <2>3. QED
    BY <1>0, <1>4, <2>1, <2>2 DEF HistoryOK
<1>8. ASSUME NEW t \in Imported, NEW w \in Word, ImportWord(t, w) PROVE ImportLeaves
  <2>1. /\ tg' = tg /\ UNCHANGED <<linked, rule, secret, secretBefore, ignored>>
        /\ \/ Block({t}, w) /\ Touch("cli", {t})
           \/ UNCHANGED <<words, asked, touched>> /\ CutShort
    BY <1>8 DEF ImportWord
  <2>2. TablesOK' /\ \A u \in Target \ {t} : words'[u] = words[u]
    <3>1. CASE Block({t}, w)
      BY <1>0, <2>1, <3>1, StatementEffect DEF TablesOK
    <3>2. CASE UNCHANGED <<words, asked>> /\ CutShort
      BY <1>0, <2>1, <3>2 DEF TablesOK, CutShort, ImpOK
    <3>3. QED
      BY <2>1, <3>1, <3>2
  <2>3. QED
    BY <1>0, <1>4, <2>1, <2>2 DEF HistoryOK
<1>9. QED
  BY <1>1, <1>2, <1>3, <1>5, <1>6, <1>7, <1>8 DEF Import

LEMMA ImportKeepsTg == IInv /\ ImportLeaves => TgOK' /\ Covered'
<1> SUFFICES ASSUME IInv, ImportLeaves PROVE TgOK' /\ Covered'
  OBVIOUS
<1>1. TgOK /\ Covered /\ tg.all \subseteq Target
  BY DEF IInv, TypesOK, TgOK, Running, NoTg
<1>2. QED
  BY <1>1 DEF ImportLeaves, TgOK, Covered

--------------------------------------------------------------------------------
LEMMA StepInv == IInv /\ [Next]_vars => IInv'
<1> SUFFICES ASSUME IInv, [Next]_vars PROVE IInv'
  OBVIOUS
<1>0. TypesOK
  BY DEF IInv
<1>1. CASE AdminCommand
  BY <1>0, <1>1, CommandEffect, CommandKeepsImport, CommandKeepsTg
  DEF IInv, TypesOK, CommandResult
<1>2. CASE Import
  BY <1>0, <1>2, ImportEffect, ImportKeepsTg, ImportStepInv
  DEF IInv, TypesOK, ImportLeaves, ImportResult
<1>3. CASE UNCHANGED vars
  BY <1>3 DEF IInv, TypesOK, TablesOK, TgOK, ImpOK, HistoryOK, MissingIsDue, Missing,
              LeftIsDue, Progress, Undone, Undisturbed, Covered
<1>4. QED
  BY <1>1, <1>2, <1>3 DEF Next, AdminCommand

LEMMA InvImplies ==
    IInv => TypeOK /\ BlocksInForce /\ ImportConverges /\ SecretsKept
<1> SUFFICES ASSUME IInv PROVE TypeOK /\ BlocksInForce /\ ImportConverges /\ SecretsKept
  OBVIOUS
<1>1. TypeOK
  BY DEF IInv, TypesOK, TablesOK, TgOK, Running, NoTg, ImpOK, ImportStep, TypeOK
<1>2. BlocksInForce
  <2>1. ASSUME NEW t \in Target
        PROVE  /\ words[t] \subseteq asked[t]
               /\ \/ words[t] = asked[t]
                  \/ t \in cut
                  \/ imp.item = {t} /\ asked[t] \ words[t] \subseteq imp.left
    <3>1. CASE imp.step = "words" /\ t \in imp.item
      <4>1. imp.item = {t}
        BY <3>1 DEF IInv, TypesOK, ImpOK
      <4>2. QED
        BY <3>1, <4>1 DEF IInv, MissingIsDue, Missing
    <3>2. CASE ~(imp.step = "words" /\ t \in imp.item)
      BY <3>2 DEF IInv, MissingIsDue, Missing
    <3>3. QED
      BY <3>1, <3>2
  <2>2. QED
    BY <2>1 DEF BlocksInForce
<1>3. ImportConverges /\ SecretsKept
  <2>1. ASSUME imp.step = "done", ~ignored, NEW t \in Undisturbed
        PROVE  /\ t \in linked /\ rule[t] = ItemRule[t] /\ words[t] = ItemWords[t]
               /\ secret[t] = secretBefore[t]
    <3>1. imp.item = {} /\ imp.todo = {}
      BY <2>1 DEF IInv, TypesOK, ImpOK
    <3>2. QED
      BY <2>1, <3>1 DEF IInv, Progress, Undone
  <2>2. QED
    BY <2>1 DEF ImportConverges, SecretsKept
<1>4. QED
  BY <1>1, <1>2, <1>3

LEMMA CoversStep == IInv => (BlockDone => \A t \in tg.all \ touched["tg"] : tg.arg \in words[t])
<1> SUFFICES ASSUME IInv, BlockDone, NEW t \in tg.all \ touched["tg"]
             PROVE  tg.arg \in words[t]
  OBVIOUS
<1>1. tg.op = "block" /\ tg.todo = {}
  BY DEF BlockDone
<1>2. QED
  BY <1>1 DEF IInv, Covered

LEMMA Invariance == Spec => []IInv
BY InitInv, StepInv, PTL DEF Spec

\* The tables, the Telegram command and the import are well typed, for any
\* pairings and any import file.
THEOREM TypeCorrect == Spec => []TypeOK
BY InvImplies, Invariance, PTL

\* An import that reports success has done what the file says, after any number
\* of imports that failed or were stopped.
THEOREM ImportsConverge == Spec => []ImportConverges
BY InvImplies, Invariance, PTL

\* Without include-secrets an import keeps the secrets.
THEOREM SecretsAreKept == Spec => []SecretsKept
BY InvImplies, Invariance, PTL

\* What was blocked and not unblocked is in the table, but for the words an
\* import has still to add, or has left out when it ended.
THEOREM BlocksStayInForce == Spec => []BlocksInForce
BY InvImplies, Invariance, PTL

\* When /block has answered, the word is blocked for all of its targets that
\* nobody else has changed meanwhile.
THEOREM BlocksCover == Spec => BlockCovers
<1> DEFINE Told == BlockDone => \A t \in tg.all \ touched["tg"] : tg.arg \in words[t]
<1>1. IInv => [Told]_vars
  BY CoversStep
<1>2. QED
  BY <1>1, Invariance, PTL DEF Spec, BlockCovers

--------------------------------------------------------------------------------
(* The bridge runs.                                                         *)

\* The rules of the verdict are rules the pairing has had since the claim, unless
\* reading them failed.
ConfigWasRead == rulesSince # {} => config \in rulesSince

\* A text that has been blocked since the claim is blocked now; once it is on its
\* way it is so in simulation.
HeldBack == blockedSince => Barred /\ (ev = "passed" => config \in Simulating)

BInv == IInv /\ ConfigWasRead /\ HeldBack

\* A step of the event leaves the tables and the import alone, and at most ends
\* the Telegram command.
EventStep == Arrive \/ Claim \/ Filter \/ Pass \/ Send \/ Again \/ Crash

LEMMA EventKeepsTables == IInv /\ EventStep => IInv'
<1> SUFFICES ASSUME IInv, EventStep PROVE IInv'
  OBVIOUS
<1>1. UNCHANGED <<tables, imp, history>> /\ (tg' = tg \/ tg' = NoTg)
  BY DEF EventStep, Arrive, Claim, Filter, Pass, Send, Settle, Again, Crash, EndTg
<1>2. TypesOK'
  BY <1>1 DEF IInv, TypesOK, TablesOK, TgOK, ImpOK, HistoryOK, NoTg
<1>3. MissingIsDue' /\ LeftIsDue' /\ Progress'
  BY <1>1 DEF IInv, MissingIsDue, Missing, LeftIsDue, Progress, Undone, Undisturbed
<1>4. Covered'
  BY <1>1 DEF IInv, Covered, NoTg
<1>5. QED
  BY <1>2, <1>3, <1>4 DEF IInv

\* What was asked to be blocked is in the table, when no import has taken it away.
LEMMA BarredIsBlocked == IInv /\ Barred => Blocked
<1> SUFFICES ASSUME IInv, Barred PROVE Blocked
  OBVIOUS
<1>1. To \in Target /\ \A t \in imp.item : imp.item = {t}
  BY BridgeAssumption DEF BridgeAssumption, IInv, TypesOK, ImpOK
<1>2. Missing(To) = {}
  BY <1>1 DEF IInv, MissingIsDue, Barred, InForce
<1>3. QED
  BY <1>2 DEF Missing, Barred, Blocked

LEMMA BridgeInitInv == BridgeInit => BInv
BY InitInv DEF BridgeInit, BInv, ConfigWasRead, HeldBack

\* The words are read in Pass: a blocked text that passes does so in simulation.
LEMMA EventKeepsVerdict == BInv /\ EventStep => ConfigWasRead' /\ HeldBack'
<1> SUFFICES ASSUME BInv, EventStep PROVE ConfigWasRead' /\ HeldBack'
  OBVIOUS
<1>1. Barred' = Barred
  BY DEF EventStep, Arrive, Claim, Filter, Pass, Send, Settle, Again, Crash, Barred, InForce
<1>2. CASE Arrive
  BY <1>1, <1>2 DEF Arrive, BInv, ConfigWasRead, HeldBack
<1>3. CASE Claim
  BY <1>1, <1>3 DEF Claim, ConfigWasRead, HeldBack
<1>4. CASE Pass
  <2>1. blockedSince => config \in Simulating
    BY <1>4, BarredIsBlocked DEF BInv, HeldBack, Pass, Filtered
  <2>2. QED
    BY <1>1, <1>4, <2>1 DEF Pass, BInv, ConfigWasRead, HeldBack
<1>5. CASE Filter \/ Send \/ Again
  BY <1>5 DEF Filter, Send, Settle, Again, NoAttempt, ConfigWasRead, HeldBack
<1>6. CASE Crash
  BY <1>1, <1>6 DEF Crash, NoAttempt, BInv, ConfigWasRead, HeldBack
<1>7. QED
  BY <1>2, <1>3, <1>4, <1>5, <1>6 DEF EventStep

LEMMA BridgeStepInv == BInv /\ [BridgeNext]_bridgeVars => BInv'
<1> SUFFICES ASSUME BInv, [BridgeNext]_bridgeVars PROVE BInv'
  OBVIOUS
<1>1. CASE EventStep
  BY <1>1, EventKeepsTables, EventKeepsVerdict DEF BInv
<1>2. CASE AdminStep
  <2>1. IInv'
    BY <1>2, StepInv DEF AdminStep, BInv
  <2>2. ConfigWasRead' /\ HeldBack'
    BY <1>2 DEF AdminStep, BInv, ConfigWasRead, HeldBack
  <2>3. QED
    BY <2>1, <2>2 DEF BInv
<1>3. CASE UNCHANGED bridgeVars
  <2>1. IInv'
    BY <1>3, StepInv DEF BInv
  <2>2. ConfigWasRead' /\ HeldBack'
    BY <1>3 DEF BInv, ConfigWasRead, HeldBack, Barred, InForce
  <2>3. QED
    BY <2>1, <2>2 DEF BInv
<1>4. QED
  BY <1>1, <1>2, <1>3 DEF BridgeNext, EventStep

LEMMA BridgeInvariance == BridgeSpec => []BInv
BY BridgeInitInv, BridgeStepInv, PTL DEF BridgeSpec

\* What is promised of pairings, imports and blocked words holds while events go
\* through the bridge and the bridge is stopped and started.
THEOREM TablesAreKept ==
    BridgeSpec => [](TypeOK /\ BlocksInForce /\ ImportConverges /\ SecretsKept)
<1>1. BInv => TypeOK /\ BlocksInForce /\ ImportConverges /\ SecretsKept
  BY InvImplies DEF BInv
<1>2. QED
  BY <1>1, BridgeInvariance, PTL

\* When /block has answered, its word is blocked, also while the queue processor
\* and the CLI are at work.
THEOREM BlocksCoverInBridge == BridgeSpec => BlockCovers
<1> DEFINE Told == BlockDone => \A t \in tg.all \ touched["tg"] : tg.arg \in words[t]
<1>1. BInv => [Told]_vars
  BY CoversStep DEF BInv
<1>2. QED
  BY <1>1, BridgeInvariance, PTL DEF BridgeSpec, BlockCovers

\* processQueuedEvent: an event whose text is blocked throughout the attempt goes
\* out in simulation only, however late after the words were read it is sent.
THEOREM BlockedIsNotSent == BridgeSpec => BlockedNotSent
<1> DEFINE Held == Send /\ blockedSince => config \in Simulating
<1>1. BInv => [Held]_bridgeVars
  BY DEF BInv, HeldBack, Send
<1>2. QED
  BY <1>1, BridgeInvariance, PTL DEF BridgeSpec, BlockedNotSent

\* processQueuedEvent: moderation and simulation follow rules the pairing had
\* during the attempt.
THEOREM VerdictsFollowRules == BridgeSpec => VerdictFollowsRules
<1> DEFINE Follows == rulesSince # {} =>
        /\ Pass => ~(rulesSince \subseteq Strict \ Simulating)
        /\ Filter => ~(rulesSince \subseteq Simulating)
<1>1. BInv => [Follows]_bridgeVars
  BY DEF BInv, ConfigWasRead, Pass, Filter, Filtered, Moderated
<1>2. QED
  BY <1>1, BridgeInvariance, PTL DEF BridgeSpec, VerdictFollowsRules
================================================================================
