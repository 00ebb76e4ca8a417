---------------------------- MODULE ChannelProofs ----------------------------
(***************************************************************************)
(* Proofs about Channel, for any number of posts, actions and runs.        *)
(***************************************************************************)
EXTENDS Channel, TLAPS

Texts == [run : Nat, ok : BOOLEAN, text : {"none", "half", "json"}]
Stages == {"clear", "open", "command", "done", "copy", "dbus", "check", "restart", "respond"}
Scripts == [at : Stages, out : Texts, linked : BOOLEAN]
Pages == [at : {"posted", "file", "copy", "dbus", "shown"}, action : Actions, run : Nat,
          past : SUBSET Nat, shown : Texts, from : {"none", "file", "copy", "dbus"}]

TypeOK ==
    /\ upload \in [ResultFiles -> Texts] /\ copies \in [ResultFiles -> Texts]
    /\ lastResult \in Texts
    /\ script \in [Posts -> Scripts \cup {NoScript}]
    /\ page \in [Posts -> Pages \cup {NoPage}]
    /\ posted \in Nat /\ ended \in SUBSET Nat
    /\ unseen \in BOOLEAN

\* The side of the page or the script of p goes on.
Active(p) == Waiting(p) \/ ~Quiet(p)
Own(p) == {Result(page[p].run, ok) : ok \in BOOLEAN}

\* The page begins to look when the script has cleared the file, or gives up.
Turns ==
    \A p \in Posts :
        /\ script[p].at = "clear" => page[p].at \in {"posted", "shown"}
        /\ page[p].at = "posted" => ~Quiet(p)

\* Every run has a number of its own, and has not ended while its script runs.
Numbers ==
    /\ 0 \notin ended /\ \A n \in ended : n <= posted
    /\ \A p \in Posts : page[p] # NoPage =>
          /\ page[p].run \in 1..posted /\ page[p].past \subseteq ended
          /\ \A q \in Posts \ {p} : page[q] # NoPage => page[q].run # page[p].run
    /\ \A p \in Posts : ~Quiet(p) =>
          /\ page[p] # NoPage /\ page[p].run \notin ended
          /\ script[p].out \in Own(p) \cup {Half}

\* Two posts that go on and share a result file have met.
Alone ==
    \A p, q \in Posts :
        p # q /\ Active(p) /\ Active(q) /\ File(p) = File(q) => p \in crossed

\* A post that met no other finds in its result file what its own script has
\* left there, stage by stage.
Cleared(p) == upload[File(p)] = NoText /\ copies[File(p)] = NoText
Opened(p) == upload[File(p)] = Half /\ copies[File(p)] = NoText
Written(p) == upload[File(p)] \in Own(p) \cup {Half}
Copied(p) == Written(p) /\ copies[File(p)] = upload[File(p)]

Stage(p) ==
    /\ script[p].at = "open" => Cleared(p)
    /\ script[p].at \in {"command", "done"} => Opened(p) /\ script[p].linked = TRUE
    /\ script[p].at = "copy" =>
          Written(p) /\ copies[File(p)] = NoText /\ upload[File(p)] = script[p].out
    /\ script[p].at \in {"dbus", "check", "restart", "respond"} =>
          Copied(p) /\ upload[File(p)] = script[p].out
    /\ script[p].at = "idle" => Copied(p)

Ran(p) == script[p].at \in {"done", "copy", "dbus", "check", "restart", "respond"}

Staged ==
    \A p \in Posts \ crossed : Active(p) =>
        /\ Stage(p)
        /\ p \notin killed =>
              /\ page[p].at # "dbus"
              /\ Ran(p) => script[p].out \in Own(p)
              /\ Quiet(p) => upload[File(p)] \in Own(p)

\* What a waiting page can find in its file or the copy: nothing from before.
Fresh ==
    \A p \in Posts : Waiting(p) /\ script[p].at # "clear" =>
        /\ upload[File(p)].run \notin page[p].past
        /\ copies[File(p)].run \notin page[p].past

\* A script that still has to restart the service, or to find out that it
\* need not.
Pending(p) ==
    \/ script[p].at = "restart"
    \/ /\ script[p].at \in {"done", "copy", "dbus", "check"}
       /\ page[p].action \in Restarting
       /\ script[p].out = Result(page[p].run, TRUE)

WillFollow == pool = auths \/ unseen \/ \E p \in Posts : Pending(p)

\* The inductive invariant.
CInv ==
    /\ TypeOK /\ Turns /\ Numbers /\ Alone /\ Staged /\ Fresh /\ WillFollow
    /\ OwnResult /\ FreshResult

-----------------------------------------------------------------------------
\* A script's step, seen from its own post and its own result file ...
Keeps(p) == upload'[File(p)] = upload[File(p)] /\ copies'[File(p)] = copies[File(p)]
Holds(p) ==
    /\ script'[p] \in Scripts
    /\ script'[p].out = script[p].out /\ script'[p].linked = script[p].linked

Step(p) ==
    \/ /\ script[p].at = "clear" /\ script'[p].at = "open" /\ Holds(p)
       /\ upload'[File(p)] = NoText /\ copies'[File(p)] = NoText
    \/ /\ script[p].at = "open" /\ script'[p].at = "command"
       /\ script'[p] \in Scripts
       /\ script'[p].out = script[p].out /\ script'[p].linked = TRUE
       /\ upload'[File(p)] = Half /\ copies'[File(p)] = copies[File(p)]
    \/ /\ script[p].at = "command" /\ script'[p].at = "done" /\ Keeps(p)
       /\ script'[p] \in Scripts
       /\ script'[p].out \in Own(p) /\ script'[p].linked = script[p].linked
    \/ /\ script[p].at = "done" /\ script'[p].at = "copy" /\ Holds(p)
       /\ copies'[File(p)] = copies[File(p)]
       /\ \/ upload'[File(p)] = upload[File(p)] /\ script[p].linked # TRUE
          \/ upload'[File(p)] = script[p].out
          \/ upload'[File(p)] = Half /\ IsResult(upload[File(p)])
    \/ /\ script[p].at = "copy" /\ script'[p].at = "dbus" /\ Holds(p)
       /\ upload'[File(p)] = upload[File(p)]
       /\ \/ copies'[File(p)] = upload[File(p)]
          \/ copies'[File(p)] = copies[File(p)] /\ upload[File(p)] = NoText
    \/ /\ script[p].at = "dbus" /\ script'[p].at = "check" /\ Holds(p) /\ Keeps(p)
    \/ /\ script[p].at = "check" /\ Holds(p) /\ Keeps(p)
       /\ script'[p].at \in {"restart", "respond"}
    \/ /\ script[p].at = "restart" /\ script'[p].at = "respond" /\ Holds(p) /\ Keeps(p)
    \/ /\ script[p].at = "respond" /\ script'[p] = NoScript /\ Keeps(p)

\* ... and from the other ones.
Aside(p) ==
    /\ \A q \in Posts \ {p} :
          /\ page'[q] = page[q]
          /\ \/ script'[q] = script[q]
             \/ /\ script[q] # NoScript /\ File(q) = File(p)
                /\ script'[q] = [script[q] EXCEPT !.linked = FALSE]
             \/ /\ script[q].at \in {"command", "done"} /\ q \in killed'
                /\ script'[q] = [script[q] EXCEPT !.at = "done", !.out = Half]
    /\ \A f \in ResultFiles \ {File(p)} : upload'[f] = upload[f] /\ copies'[f] = copies[f]
    /\ posted' = posted /\ crossed' = crossed /\ killed \subseteq killed'
    /\ \/ page'[p] = page[p]
       \/ /\ page[p].at = "posted" /\ script'[p] = NoScript
          /\ page'[p] = [page[p] EXCEPT !.at = "file"]
    /\ script'[p] = NoScript => page'[p].at # "posted"
    /\ \/ ended' = ended
       \/ ended' = ended \cup {page[p].run} /\ script'[p] = NoScript

\* What the page's side of a post does: it looks elsewhere, or shows something.
Look(p) ==
    /\ UNCHANGED <<auths, pool, upload, copies, lastResult, script, posted,
                   ended, crossed, killed, unseen>>
    /\ \A q \in Posts \ {p} : page'[q] = page[q]
    /\ page'[p] \in Pages /\ page[p] \in Pages /\ Waiting(p)
    /\ page'[p].run = page[p].run /\ page'[p].past = page[p].past
    /\ page'[p].action = page[p].action
    /\ \/ /\ script[p].at # "clear" /\ page'[p].at \in {"file", "copy", "dbus"}
          /\ page'[p].at = "dbus" => page[p].at = "copy" /\ copies[File(p)] = Half
       \/ /\ page'[p].at = "shown"
          /\ \/ page[p].at = "file" /\ page'[p].shown = upload[File(p)]
             \/ page[p].at = "copy" /\ page'[p].shown = copies[File(p)]
             \/ page[p].at = "dbus" /\ page'[p].from = "dbus"
             \/ page'[p].shown = NoText

-----------------------------------------------------------------------------
\* What a file may hold is a text.
LEMMA TextsTyped ==
    /\ NoText \in Texts /\ Half \in Texts /\ NoText # Half
    /\ ~IsResult(NoText) /\ ~IsResult(Half) /\ NoText.run = 0 /\ Half.run = 0
    /\ \A n \in Nat, ok \in BOOLEAN :
          /\ Result(n, ok) \in Texts /\ Result(n, ok) # NoText /\ Result(n, ok) # Half
          /\ IsResult(Result(n, ok)) /\ Result(n, ok).run = n /\ Result(n, ok).ok = ok
BY DEF NoText, Half, Result, Texts, IsResult

\* The types of a post and of its script, spelled out.
LEMMA Typed ==
    ASSUME TypeOK, NEW p \in Posts
    PROVE  /\ Quiet(p) <=> script[p].at = "idle"
           /\ Quiet(p) \/ (script[p] \in Scripts /\ script[p].at \in Stages /\ script[p].out \in Texts)
           /\ page[p] = NoPage <=> page[p].at = "idle"
           /\ page[p] = NoPage \/ page[p] \in Pages
           /\ page[p] # NoPage => File(p) \in ResultFiles /\ page[p].run \in Nat
           /\ NoScript.at = "idle" /\ NoPage.at = "idle" /\ NoScript \notin Scripts
BY DEF TypeOK, Quiet, NoScript, NoPage, Scripts, Stages, Pages, File, ResultFiles

\* What a script's step does.
LEMMA ScriptSteps ==
    ASSUME TypeOK, Turns, Numbers, NEW p \in Posts, ScriptRuns(p)
    PROVE  Step(p) /\ Aside(p)
<1>1. /\ ~Quiet(p) /\ script[p] \in Scripts /\ page[p] \in Pages
      /\ File(p) \in ResultFiles /\ script[p].at \in Stages
      /\ page[p].run \in Nat
  BY Typed DEF ScriptRuns, Numbers
<1>2. /\ upload \in [ResultFiles -> Texts] /\ copies \in [ResultFiles -> Texts]
      /\ script \in [Posts -> Scripts \cup {NoScript}]
      /\ page \in [Posts -> Pages \cup {NoPage}]
  BY DEF TypeOK
<1>3. CASE ClearResult(p)
  <2>1. /\ script[p].at = "clear" /\ script'[p] = [script[p] EXCEPT !.at = "open"]
        /\ upload'[File(p)] = NoText /\ copies'[File(p)] = NoText
    BY <1>1, <1>2, <1>3 DEF ClearResult
  <2>2. Step(p)
    BY <1>1, <2>1 DEF Step, Holds, Scripts, Stages
  <2>3. Aside(p)
    BY <1>1, <1>2, <1>3, <2>1 DEF Aside, ClearResult, Quiet, NoScript
  <2> QED
    BY <2>2, <2>3
<1>4. CASE OpenOut(p)
  <2>1. /\ script[p].at = "open"
        /\ script'[p] = [script[p] EXCEPT !.at = "command", !.linked = TRUE]
        /\ upload'[File(p)] = Half /\ copies' = copies
    BY <1>1, <1>2, <1>4 DEF OpenOut
  <2>2. Step(p)
    BY <1>1, <2>1 DEF Step, Scripts, Stages
  <2>3. Aside(p)
    BY <1>1, <1>2, <1>4, <2>1 DEF Aside, OpenOut, NoScript
  <2> QED
    BY <2>2, <2>3
<1>5. ASSUME NEW ok \in BOOLEAN, CommandEnds(p, ok) PROVE Step(p) /\ Aside(p)
  <2>1. /\ script[p].at = "command"
        /\ script'[p] = [script[p] EXCEPT !.at = "done", !.out = Result(page[p].run, ok)]
        /\ upload' = upload /\ copies' = copies
    BY <1>1, <1>2, <1>5 DEF CommandEnds
  <2>2. Result(page[p].run, ok) \in Texts /\ Result(page[p].run, ok) \in Own(p)
    BY <1>1, TextsTyped DEF Own
  <2>3. /\ script'[p] \in Scripts /\ script'[p].at = "done"
        /\ script'[p].out \in Own(p) /\ script'[p].linked = script[p].linked
    BY <1>1, <2>1, <2>2 DEF Scripts, Stages
  <2>4. Step(p)
    BY <2>1, <2>3 DEF Step, Keeps
  <2>5. Aside(p)
    BY <1>1, <1>2, <1>5, <2>1 DEF Aside, CommandEnds, NoScript
  <2> QED
    BY <2>4, <2>5
<1>6. CASE WriteOut(p)
  <2>1. /\ script[p].at = "done" /\ script'[p] = [script[p] EXCEPT !.at = "copy"]
        /\ copies' = copies
    BY <1>1, <1>2, <1>6 DEF WriteOut, Goto
  <2>2. PICK text : /\ text \in IF IsResult(upload[File(p)]) THEN {script[p].out, Half}
                                                             ELSE {script[p].out}
                    /\ upload' = IF script[p].linked
                                   THEN [upload EXCEPT ![File(p)] = text] ELSE upload
    BY <1>6 DEF WriteOut
  <2>3. \/ upload'[File(p)] = upload[File(p)] /\ script[p].linked # TRUE
        \/ upload'[File(p)] = script[p].out
        \/ upload'[File(p)] = Half /\ IsResult(upload[File(p)])
    BY <1>1, <1>2, <2>2 DEF Scripts
  <2>4. Step(p)
    BY <1>1, <2>1, <2>3 DEF Step, Holds, Scripts, Stages
  <2>5. Aside(p)
    BY <1>1, <1>2, <1>6, <2>1, <2>2 DEF Aside, WriteOut, Goto, NoScript
  <2> QED
    BY <2>4, <2>5
<1>7. CASE CopyOut(p)
  <2>1. /\ script[p].at = "copy" /\ script'[p] = [script[p] EXCEPT !.at = "dbus"]
        /\ upload' = upload
        /\ copies' = IF upload[File(p)] = NoText THEN copies
                     ELSE [copies EXCEPT ![File(p)] = upload[File(p)]]
    BY <1>1, <1>2, <1>7 DEF CopyOut, Goto
  <2>2. Step(p)
    BY <1>1, <1>2, <2>1 DEF Step, Holds, Scripts, Stages
  <2>3. Aside(p)
    BY <1>1, <1>2, <1>7, <2>1 DEF Aside, CopyOut, Goto, NoScript
  <2> QED
    BY <2>2, <2>3
<1>8. CASE SetDbus(p) \/ Check(p)
  <2>1. PICK at \in {"check", "restart", "respond"} :
           /\ script' = [script EXCEPT ![p].at = at]
           /\ IF at = "check" THEN script[p].at = "dbus" ELSE script[p].at = "check"
    <3>1. CASE SetDbus(p)
      BY <3>1 DEF SetDbus, Goto
    <3>2. CASE Check(p)
      BY <3>2 DEF Check, Goto
    <3> QED
      BY <1>8, <3>1, <3>2
  <2>2. /\ script'[p] = [script[p] EXCEPT !.at = at]
        /\ \A q \in Posts \ {p} : script'[q] = script[q]
        /\ UNCHANGED <<upload, copies, page, posted, ended, crossed, killed>>
    BY <1>1, <1>2, <1>8, <2>1 DEF SetDbus, Check
  <2>3. /\ Holds(p) /\ script'[p].at = at /\ script'[p] # NoScript
    BY <1>1, <2>2, Typed DEF Holds, Scripts, Stages
  <2>4. Step(p)
    BY <2>1, <2>2, <2>3 DEF Step, Keeps
  <2>5. Aside(p)
    BY <2>2, <2>3 DEF Aside
  <2> QED
    BY <2>4, <2>5
<1>9. CASE Restart(p)
  <2>1. /\ script[p].at = "restart" /\ script'[p] = [script[p] EXCEPT !.at = "respond"]
        /\ UNCHANGED <<upload, copies, page, posted, ended, crossed>>
    BY <1>1, <1>2, <1>9 DEF Restart
  <2>2. Step(p)
    BY <1>1, <2>1 DEF Step, Holds, Keeps, Scripts, Stages
  <2>3. /\ killed \subseteq killed'
        /\ \A q \in Posts \ {p} :
              \/ script'[q] = script[q]
              \/ /\ script[q].at \in {"command", "done"} /\ q \in killed'
                 /\ script'[q] = [script[q] EXCEPT !.at = "done", !.out = Half]
    BY <1>9 DEF Restart
  <2>4. script'[p] # NoScript
    BY <1>1, <2>1 DEF Scripts, NoScript
  <2>5. Aside(p)
    BY <2>1, <2>3, <2>4 DEF Aside
  <2> QED
    BY <2>2, <2>5
<1>10. CASE Respond(p)
  <2>1. /\ script[p].at = "respond" /\ script'[p] = NoScript
        /\ \A q \in Posts \ {p} : script'[q] = script[q] /\ page'[q] = page[q]
        /\ page'[p] = IF page[p].at = "posted" THEN [page[p] EXCEPT !.at = "file"] ELSE page[p]
        /\ ended' = ended \cup {page[p].run}
        /\ UNCHANGED <<upload, copies, posted, crossed, killed>>
    BY <1>1, <1>2, <1>10 DEF Respond
  <2>2. Step(p)
    BY <2>1 DEF Step, Keeps
  <2>3. page'[p].at # "posted"
    BY <1>1, <2>1 DEF Pages
  <2>4. Aside(p)
    BY <2>1, <2>3 DEF Aside
  <2> QED
    BY <2>2, <2>4
<1> QED
  BY <1>3, <1>4, <1>5, <1>6, <1>7, <1>8, <1>9, <1>10
  DEF ScriptRuns, OtherCommand, CommandFails, LoginPoll, AccountRemove

\* What the page's side does.
LEMMA PageSteps ==
    ASSUME TypeOK, Turns, NEW p \in Posts, PagePolls(p)
    PROVE  Look(p)
<1>1. /\ Waiting(p) /\ page[p] \in Pages /\ File(p) \in ResultFiles
      /\ page[p].at # "posted" => script[p].at # "clear"
  <2>1. Waiting(p)
    BY DEF PagePolls, EarlyAnswer, ReadFile, ReadCopy, ReadDbus, GiveUp, Waiting
  <2>2. page[p] # NoPage
    BY <2>1, Typed DEF Waiting
  <2> QED
    BY <2>1, <2>2, Typed DEF Turns, Waiting
<1>2. /\ upload[File(p)] \in Texts /\ copies[File(p)] \in Texts /\ lastResult \in Texts
      /\ page \in [Posts -> Pages \cup {NoPage}]
  BY <1>1 DEF TypeOK
<1>3. ASSUME NEW at \in {"file", "copy", "dbus"}, TurnTo(p, at), script[p].at # "clear",
             at = "dbus" => page[p].at = "copy" /\ copies[File(p)] = Half
      PROVE  Look(p)
  <2>1. /\ page'[p] = [page[p] EXCEPT !.at = at]
        /\ \A q \in Posts \ {p} : page'[q] = page[q]
        /\ UNCHANGED <<auths, pool, upload, copies, lastResult, script, posted,
                       ended, crossed, killed, unseen>>
    BY <1>2, <1>3 DEF TurnTo
  <2>2. /\ page'[p] \in Pages /\ page'[p].at = at
        /\ page'[p].run = page[p].run /\ page'[p].past = page[p].past
        /\ page'[p].action = page[p].action
    BY <1>1, <2>1 DEF Pages
  <2> QED
    BY <1>1, <1>3, <2>1, <2>2 DEF Look
<1>4. ASSUME NEW text \in Texts, NEW from \in {"none", "file", "copy", "dbus"},
             Show(p, text, from),
             \/ page[p].at = "file" /\ text = upload[File(p)]
             \/ page[p].at = "copy" /\ text = copies[File(p)]
             \/ page[p].at = "dbus" /\ from = "dbus"
             \/ text = NoText
      PROVE  Look(p)
  <2>1. /\ page'[p] = [page[p] EXCEPT !.at = "shown", !.shown = text, !.from = from]
        /\ \A q \in Posts \ {p} : page'[q] = page[q]
        /\ UNCHANGED <<auths, pool, upload, copies, lastResult, script, posted,
                       ended, crossed, killed, unseen>>
    BY <1>2, <1>4 DEF Show
  <2>2. /\ page'[p] \in Pages /\ page'[p].at = "shown" /\ page'[p].shown = text
        /\ page'[p].run = page[p].run /\ page'[p].past = page[p].past
        /\ page'[p].action = page[p].action /\ page'[p].from = from
    BY <1>1, <2>1 DEF Pages
  <2> QED
    BY <1>1, <1>4, <2>1, <2>2 DEF Look
<1>5. CASE EarlyAnswer(p)
  BY <1>3, <1>5 DEF EarlyAnswer
<1>6. CASE ReadFile(p)
  BY <1>1, <1>2, <1>3, <1>4, <1>6 DEF ReadFile
<1>7. CASE ReadCopy(p)
  BY <1>1, <1>2, <1>3, <1>4, <1>7 DEF ReadCopy
<1>8. CASE ReadDbus(p)
  BY <1>1, <1>2, <1>3, <1>4, <1>8 DEF ReadDbus
<1>9. CASE GiveUp(p)
  BY <1>4, <1>9, TextsTyped DEF GiveUp
<1> QED
  BY <1>5, <1>6, <1>7, <1>8, <1>9 DEF PagePolls

\* A post: its script and its page begin anew, and nothing else changes.
Begin(p) ==
    /\ ~Active(p)
    /\ \A q \in Posts \ {p} : page'[q] = page[q] /\ script'[q] = script[q]
    /\ script'[p] \in Scripts /\ script'[p].at = "clear" /\ script'[p].out = Half
    /\ page'[p] \in Pages /\ page'[p].at = "posted" /\ page'[p].run = posted + 1
    /\ page'[p].past = ended
    /\ posted' = posted + 1
    /\ UNCHANGED <<auths, pool, upload, copies, lastResult, ended, unseen>>
    /\ killed' = killed \ {p}
    /\ \A q \in Posts \ {p} :
          IF Active(q) /\ FileOf(page'[p].action) = File(q)
            THEN p \in crossed' /\ q \in crossed' ELSE q \in crossed => q \in crossed'

\* What pressing a button does to page and script.
LEMMA PostStep ==
    ASSUME TypeOK, Numbers, NEW p \in Posts, NEW action \in Actions, Post(p, action)
    PROVE  Begin(p)
<1>1. /\ script \in [Posts -> Scripts \cup {NoScript}]
      /\ page \in [Posts -> Pages \cup {NoPage}]
      /\ posted \in Nat /\ ended \in SUBSET Nat
  BY DEF TypeOK
<1>2. /\ script'[p] = [at |-> "clear", out |-> Half, linked |-> FALSE]
      /\ page'[p] = [at |-> "posted", action |-> action, run |-> posted + 1,
                     past |-> ended, shown |-> NoText, from |-> "none"]
      /\ \A q \in Posts \ {p} : page'[q] = page[q] /\ script'[q] = script[q]
  BY <1>1 DEF Post
<1>3. script'[p] \in Scripts /\ page'[p] \in Pages
  BY <1>1, <1>2, TextsTyped DEF Scripts, Stages, Pages
<1>4. ASSUME NEW q \in Posts \ {p}
      PROVE  IF Active(q) /\ FileOf(page'[p].action) = File(q)
               THEN p \in crossed' /\ q \in crossed' ELSE q \in crossed => q \in crossed'
  <2>1. page'[p].action = action
    BY <1>2
  <2>2. Active(q) => page[q].at # "idle"
    BY Typed DEF Active, Waiting, Numbers
  <2>3. Active(q) /\ FileOf(action) = File(q) => q \in Meets(p, action)
    BY <2>2 DEF Meets, Active, SameFile, File
  <2>4. crossed' = IF Meets(p, action) = {} THEN crossed \ {p}
                   ELSE crossed \cup {p} \cup Meets(p, action)
    BY DEF Post
  <2> QED
    BY <2>1, <2>3, <2>4
<1>5. /\ ~Active(p) /\ posted' = posted + 1 /\ killed' = killed \ {p}
      /\ UNCHANGED <<auths, pool, upload, copies, lastResult, ended, unseen>>
  BY DEF Post, Active
<1> QED
  BY <1>2, <1>3, <1>4, <1>5 DEF Begin

\* What a step of the posts is, each kind in the form the proofs use.
LEMMA Kinds ==
    ASSUME TypeOK, Turns, Numbers, [ChannelNext]_channelVars
    PROVE  \/ \E p \in Posts : Begin(p)
           \/ \E p \in Posts : ScriptRuns(p) /\ Step(p) /\ Aside(p)
           \/ \E p \in Posts : Look(p)
           \/ UNCHANGED channelVars
BY PostStep, ScriptSteps, PageSteps DEF ChannelNext

\* Every variable keeps its type.
LEMMA StaysTyped ==
    ASSUME TypeOK, Turns, Numbers, [ChannelNext]_channelVars
    PROVE  TypeOK'
<1>1. /\ upload \in [ResultFiles -> Texts] /\ copies \in [ResultFiles -> Texts]
      /\ lastResult \in Texts
      /\ script \in [Posts -> Scripts \cup {NoScript}]
      /\ page \in [Posts -> Pages \cup {NoPage}]
      /\ posted \in Nat /\ ended \in SUBSET Nat /\ unseen \in BOOLEAN
  BY DEF TypeOK
<1>2. ASSUME NEW p \in Posts, NEW action \in Actions, Post(p, action) PROVE TypeOK'
  <2>1. Begin(p)
    BY <1>2, PostStep
  <2>2. /\ script' \in [Posts -> Scripts \cup {NoScript}]
        /\ page' \in [Posts -> Pages \cup {NoPage}]
    <3>1. /\ script' = [q \in Posts |-> script'[q]] /\ page' = [q \in Posts |-> page'[q]]
      BY <1>1, <1>2 DEF Post
    <3> QED
      BY <1>1, <2>1, <3>1 DEF Begin
  <2>3. unseen' \in BOOLEAN
    BY <1>1, <2>1 DEF Begin
  <2> QED
    BY <1>1, <2>1, <2>2, <2>3 DEF Begin, TypeOK
<1>3. ASSUME NEW p \in Posts, PagePolls(p) PROVE TypeOK'
  <2>1. Look(p)
    BY <1>3, PageSteps
  <2>2. page' = [q \in Posts |-> page'[q]]
    BY <1>1, <1>3 DEF PagePolls, EarlyAnswer, ReadFile, ReadCopy, ReadDbus, GiveUp, TurnTo, Show
  <2>3. page' \in [Posts -> Pages \cup {NoPage}]
    BY <1>1, <2>1, <2>2 DEF Look
  <2>4. unseen' \in BOOLEAN
    BY <1>1, <2>1 DEF Look
  <2> QED
    BY <1>1, <2>1, <2>3, <2>4 DEF Look, TypeOK
<1>4. ASSUME NEW p \in Posts, ScriptRuns(p) PROVE TypeOK'
  <2>1. Step(p) /\ Aside(p)
    BY <1>4, ScriptSteps
  <2>2. /\ ~Quiet(p) /\ script[p] \in Scripts /\ page[p] \in Pages /\ File(p) \in ResultFiles
        /\ page[p].run \in Nat /\ script[p].out \in Texts
    BY <1>4, Typed DEF ScriptRuns, Numbers
  <2>3. /\ script' = [q \in Posts |-> script'[q]] /\ page' = [q \in Posts |-> page'[q]]
        /\ upload' = [f \in ResultFiles |-> upload'[f]]
        /\ copies' = [f \in ResultFiles |-> copies'[f]]
    BY <1>1, <1>4 DEF ScriptRuns, ClearResult, OpenOut, OtherCommand, CommandFails,
       LoginPoll, AccountRemove, CommandEnds, WriteOut, CopyOut, SetDbus, Check,
       Restart, Respond, Goto
  <2>4. script' \in [Posts -> Scripts \cup {NoScript}]
    <3>1. script'[p] \in Scripts \cup {NoScript}
      BY <2>1 DEF Step, Holds
    <3>2. ASSUME NEW q \in Posts \ {p} PROVE script'[q] \in Scripts \cup {NoScript}
      <4>1. script[q] \in Scripts \/ script[q] = NoScript
        BY <1>1
      <4>2. /\ script[q] \in Scripts => [script[q] EXCEPT !.linked = FALSE] \in Scripts
            /\ script[q] \in Scripts => [script[q] EXCEPT !.at = "done", !.out = Half] \in Scripts
        BY TextsTyped DEF Scripts, Stages
      <4>3. script[q] = NoScript => script[q].at \notin {"command", "done"}
        BY DEF NoScript
      <4> QED
        BY <2>1, <4>1, <4>2, <4>3 DEF Aside
    <3> QED
      BY <2>3, <3>1, <3>2
  <2>5. page' \in [Posts -> Pages \cup {NoPage}]
    <3>1. [page[p] EXCEPT !.at = "file"] \in Pages
      BY <2>2 DEF Pages
    <3>2. page'[p] \in Pages
      BY <2>1, <2>2, <3>1 DEF Aside
    <3>3. \A q \in Posts \ {p} : page'[q] = page[q]
      BY <2>1 DEF Aside
    <3> QED
      BY <1>1, <2>3, <3>2, <3>3
  <2>6. /\ upload'[File(p)] \in Texts /\ copies'[File(p)] \in Texts
    BY <1>1, <2>1, <2>2, TextsTyped DEF Step, Keeps
  <2>7. upload' \in [ResultFiles -> Texts] /\ copies' \in [ResultFiles -> Texts]
    <3>1. \A f \in ResultFiles \ {File(p)} : upload'[f] \in Texts /\ copies'[f] \in Texts
      BY <1>1, <2>1 DEF Aside
    <3> QED
      BY <2>3, <2>6, <3>1
  <2>8. lastResult' \in Texts
    <3>1. upload[File(p)] \in Texts
      BY <1>1, <2>2
    <3>2. lastResult' \in {lastResult, NoText, upload[File(p)]}
      BY <1>4 DEF ScriptRuns, ClearResult, OpenOut, OtherCommand, CommandFails,
         LoginPoll, AccountRemove, CommandEnds, WriteOut, CopyOut, SetDbus, Check,
         Restart, Respond
    <3> QED
      BY <1>1, <3>1, <3>2, TextsTyped
  <2>9. unseen' \in BOOLEAN
    BY <1>1, <1>4 DEF ScriptRuns, ClearResult, OpenOut, OtherCommand,
       CommandFails, LoginPoll, AccountRemove, CommandEnds, WriteOut, CopyOut, SetDbus,
       Check, Restart, Respond
  <2>10. posted' \in Nat /\ ended' \in SUBSET Nat
    BY <1>1, <2>1, <2>2 DEF Aside
  <2> QED
    BY <2>4, <2>5, <2>7, <2>8, <2>9, <2>10 DEF TypeOK
<1>5. CASE UNCHANGED channelVars
  BY <1>1, <1>5 DEF channelVars, TypeOK
<1> QED
  BY <1>2, <1>3, <1>4, <1>5 DEF ChannelNext

\* The posts take their turns, and no number is used twice.
LEMMA StaysInTurn ==
    ASSUME TypeOK, Turns, Numbers, [ChannelNext]_channelVars
    PROVE  Turns' /\ Numbers'
<1>1. TypeOK'
  BY StaysTyped
<1>2. ASSUME NEW p \in Posts, Begin(p) PROVE Turns' /\ Numbers'
  <2>1. page'[p] # NoPage /\ script'[p] # NoScript /\ posted \in Nat
    BY <1>2, Typed DEF Begin, TypeOK, Pages, NoPage
  <2>2. Turns'
    BY <1>2, <2>1 DEF Begin, Turns, Quiet
  <2>3. 0 \notin ended' /\ \A n \in ended' : n <= posted'
    BY <1>2, <2>1 DEF Begin, Numbers, TypeOK
  <2>4. ASSUME NEW q \in Posts, page'[q] # NoPage
        PROVE  /\ page'[q].run \in 1..posted' /\ page'[q].past \subseteq ended'
               /\ \A r \in Posts \ {q} : page'[r] # NoPage => page'[r].run # page'[q].run
    <3>1. \A r \in Posts \ {p} : page'[r] # NoPage =>
             /\ page'[r].run \in 1..posted /\ page'[r].past \subseteq ended
             /\ page'[r].run = page[r].run /\ page[r] # NoPage
      BY <1>2 DEF Begin, Numbers
    <3>2. /\ page'[p].run = posted + 1 /\ page'[p].past = ended
          /\ posted' = posted + 1 /\ ended' = ended
      BY <1>2 DEF Begin
    <3>3. \A r \in Posts \ {q} : page'[r] # NoPage => page'[r].run # page'[q].run
      BY <2>1, <2>4, <3>1, <3>2 DEF Numbers
    <3> QED
      BY <2>1, <2>4, <3>1, <3>2, <3>3
  <2>5. ASSUME NEW q \in Posts, script'[q] # NoScript
        PROVE  /\ page'[q] # NoPage /\ page'[q].run \notin ended'
               /\ script'[q].out \in Own(q)' \cup {Half}
    <3>1. CASE q = p
      <4>1. posted + 1 \notin ended
        BY <2>1 DEF Numbers, TypeOK
      <4> QED
        BY <1>2, <2>1, <3>1, <4>1 DEF Begin
    <3>2. CASE q # p
      BY <1>2, <2>5, <3>2 DEF Begin, Numbers, Quiet, Own
    <3> QED
      BY <3>1, <3>2
  <2> QED
    BY <2>2, <2>3, <2>4, <2>5 DEF Numbers, Quiet
<1>3. ASSUME NEW p \in Posts, Look(p) PROVE Turns' /\ Numbers'
  <2>1. /\ page[p] # NoPage /\ page'[p] # NoPage
        /\ \A q \in Posts : /\ page'[q] # NoPage <=> page[q] # NoPage
                            /\ page'[q].run = page[q].run /\ page'[q].past = page[q].past
    BY <1>3, Typed DEF Look, Pages, NoPage
  <2>2. /\ page'[p].at # "posted"
        /\ script[p].at = "clear" => page'[p].at = "shown"
    BY <1>3 DEF Look
  <2>3. Turns'
    BY <1>3, <2>2 DEF Look, Turns, Quiet
  <2>4. Numbers'
    BY <1>3, <2>1 DEF Look, Numbers, Quiet, Own
  <2> QED
    BY <2>3, <2>4
<1>4. ASSUME NEW p \in Posts, ~Quiet(p), Step(p), Aside(p) PROVE Turns' /\ Numbers'
  <2>1. /\ page[p] # NoPage /\ page[p] \in Pages
        /\ page[p].run \notin ended /\ page[p].run \in 1..posted
    BY <1>4, Typed DEF Numbers
  <2>2. \A q \in Posts : /\ page'[q] # NoPage <=> page[q] # NoPage
                         /\ page'[q].run = page[q].run /\ page'[q].past = page[q].past
                         /\ q # p => page'[q] = page[q]
    <3>1. \A q \in Posts \ {p} : page'[q] = page[q]
      BY <1>4 DEF Aside
    <3>2. page'[p] = page[p] \/ page'[p] = [page[p] EXCEPT !.at = "file"]
      BY <1>4 DEF Aside
    <3>3. /\ page'[p] # NoPage
          /\ page'[p].run = page[p].run /\ page'[p].past = page[p].past
      BY <2>1, <3>2 DEF Pages, NoPage
    <3> QED
      BY <2>1, <3>1, <3>3
  <2>3. \A q \in Posts \ {p} :
           /\ script'[q] = NoScript <=> script[q] = NoScript
           /\ script'[q].at = "clear" => script[q].at = "clear"
           /\ script'[q].at = script[q].at \/ script'[q].at = "done"
           /\ script'[q] # NoScript => script'[q].out = script[q].out \/ script'[q].out = Half
    <3> SUFFICES ASSUME NEW q \in Posts \ {p}
                 PROVE  /\ script'[q] = NoScript <=> script[q] = NoScript
                        /\ script'[q].at = "clear" => script[q].at = "clear"
                        /\ script'[q].at = script[q].at \/ script'[q].at = "done"
                        /\ script'[q] # NoScript =>
                              script'[q].out = script[q].out \/ script'[q].out = Half
      OBVIOUS
    <3>1. script[q] = NoScript \/ script[q] \in Scripts
      BY DEF TypeOK
    <3>2. CASE script'[q] = script[q]
      BY <3>2
    <3>3. CASE script'[q] # script[q]
      <4>1. \/ script[q] # NoScript /\ script'[q] = [script[q] EXCEPT !.linked = FALSE]
            \/ /\ script[q].at \in {"command", "done"}
               /\ script'[q] = [script[q] EXCEPT !.at = "done", !.out = Half]
        BY <1>4, <3>3 DEF Aside
      <4>2. script[q] \in Scripts
        BY <3>1, <4>1, Typed
      <4>3. CASE script'[q] = [script[q] EXCEPT !.linked = FALSE]
        <5>1. /\ script'[q].at = script[q].at /\ script'[q].out = script[q].out
              /\ script[q].at # "idle"
          BY <4>2, <4>3 DEF Scripts, Stages
        <5> QED
          BY <5>1, Typed
      <4>4. CASE script'[q] = [script[q] EXCEPT !.at = "done", !.out = Half]
        <5>1. /\ script'[q].at = "done" /\ script'[q].out = Half
              /\ script[q].at # "idle"
          BY <4>2, <4>4 DEF Scripts, Stages
        <5> QED
          BY <5>1, Typed
      <4> QED
        BY <4>1, <4>3, <4>4
    <3> QED
      BY <3>2, <3>3
  <2>4. /\ script'[p].at # "clear"
        /\ script'[p] # NoScript => script'[p].out \in {script[p].out} \cup Own(p)
    <3>1. NoScript.at = "idle"
      BY Typed
    <3>2. script'[p].at # "clear"
      BY <1>4, <3>1 DEF Step
    <3>3. script'[p] # NoScript => script'[p].out \in {script[p].out} \cup Own(p)
      BY <1>4 DEF Step, Holds
    <3> QED
      BY <3>2, <3>3
  <2>5. Turns'
    <3>1. ASSUME NEW q \in Posts \ {p}
          PROVE  /\ script'[q].at = "clear" => page'[q].at \in {"posted", "shown"}
                 /\ page'[q].at = "posted" => script'[q] # NoScript
      BY <2>2, <2>3 DEF Turns, Quiet
    <3>2. script'[p] = NoScript => page'[p].at # "posted"
      BY <1>4 DEF Aside
    <3> QED
      BY <2>4, <3>1, <3>2 DEF Turns, Quiet
  <2>6. /\ 0 \notin ended' /\ \A n \in ended' : n <= posted'
        /\ ended \subseteq ended' /\ posted' = posted
    <3>1. ended' \subseteq ended \cup {page[p].run} /\ ended \subseteq ended'
          /\ posted' = posted
      BY <1>4 DEF Aside
    <3>2. posted \in Nat /\ 0 \notin ended /\ \A n \in ended : n <= posted
      BY DEF TypeOK, Numbers
    <3>3. page[p].run # 0 /\ page[p].run <= posted
      BY <2>1, <3>2
    <3> QED
      BY <3>1, <3>2, <3>3
  <2>7. ASSUME NEW q \in Posts, page'[q] # NoPage
        PROVE  /\ page'[q].run \in 1..posted' /\ page'[q].past \subseteq ended'
               /\ \A r \in Posts \ {q} : page'[r] # NoPage => page'[r].run # page'[q].run
    <3>1. /\ page[q] # NoPage /\ page'[q].run = page[q].run /\ page'[q].past = page[q].past
      BY <2>2, <2>7
    <3>2. /\ page[q].run \in 1..posted /\ page[q].past \subseteq ended
          /\ \A r \in Posts \ {q} : page[r] # NoPage => page[r].run # page[q].run
      BY <3>1 DEF Numbers
    <3> QED
      BY <2>2, <2>6, <3>1, <3>2
  <2>8. ASSUME NEW q \in Posts, script'[q] # NoScript
        PROVE  /\ page'[q] # NoPage /\ page'[q].run \notin ended'
               /\ script'[q].out \in Own(q)' \cup {Half}
    <3>1. script[q] # NoScript
      BY <1>4, <2>3, <2>8 DEF Quiet
    <3>2. /\ page[q] # NoPage /\ page[q].run \notin ended
          /\ script[q].out \in Own(q) \cup {Half}
      BY <3>1 DEF Numbers, Quiet
    <3>3. page'[q].run \notin ended'
      <4>1. q # p => page[q].run # page[p].run
        BY <2>1, <3>2 DEF Numbers
      <4>2. ended' = ended \/ (ended' = ended \cup {page[p].run} /\ script'[p] = NoScript)
        BY <1>4 DEF Aside
      <4>3. page'[q].run = page[q].run
        BY <2>2
      <4> QED
        BY <2>8, <3>2, <4>1, <4>2, <4>3
    <3>4. Own(q)' = Own(q)
      BY <2>2 DEF Own
    <3> QED
      BY <2>2, <2>3, <2>4, <2>8, <3>2, <3>3, <3>4
  <2> QED
    BY <2>5, <2>6, <2>7, <2>8 DEF Numbers, Quiet
<1>5. CASE UNCHANGED channelVars
  BY <1>5 DEF channelVars, Turns, Numbers, Quiet, Own
<1> QED
  BY <1>2, <1>3, <1>4, <1>5, Kinds DEF ScriptRuns

\* As long as no post begins to go on, none can meet another.
LEMMA NoneBegins ==
    ASSUME Alone, crossed' = crossed,
           \A q \in Posts : (Active(q)' => Active(q)) /\ File(q)' = File(q)
    PROVE  Alone'
<1>1. ASSUME NEW q \in Posts, NEW r \in Posts, q # r, Active(q)', Active(r)',
             File(q)' = File(r)'
      PROVE  q \in crossed'
  <2>1. Active(q) /\ Active(r) /\ File(q) = File(r)
    BY <1>1
  <2> QED
    BY <1>1, <2>1 DEF Alone
<1> QED
  BY <1>1 DEF Alone

\* Two posts that go on on one result file have met.
LEMMA StaysAlone ==
    ASSUME TypeOK, Turns, Numbers, Alone, [ChannelNext]_channelVars
    PROVE  Alone'
<1>1. ASSUME NEW p \in Posts, Begin(p) PROVE Alone'
  <2>1. \A q \in Posts \ {p} : (Active(q)' <=> Active(q)) /\ File(q)' = File(q)
    BY <1>1 DEF Begin, Active, Waiting, Quiet, File
  <2>2. File(p)' = FileOf(page'[p].action)
    BY DEF File
  <2>3. \A q \in Posts \ {p} :
           /\ q \in crossed => q \in crossed'
           /\ Active(q) /\ File(p)' = File(q) => p \in crossed' /\ q \in crossed'
    BY <1>1, <2>2 DEF Begin
  <2> QED
    BY <2>1, <2>3 DEF Alone
<1>2. ASSUME NEW p \in Posts, Look(p) PROVE Alone'
  <2>1. \A q \in Posts : (Active(q)' => Active(q)) /\ File(q)' = File(q)
    BY <1>2 DEF Look, Active, Waiting, Quiet, File
  <2>2. crossed' = crossed
    BY <1>2 DEF Look
  <2> QED
    BY <2>1, <2>2, NoneBegins
<1>3. ASSUME NEW p \in Posts, ~Quiet(p), Step(p), Aside(p) PROVE Alone'
  <2>1. \A q \in Posts : File(q)' = File(q) /\ (Active(q)' => Active(q))
    <3>1. ASSUME NEW q \in Posts \ {p} PROVE File(q)' = File(q) /\ (Active(q)' => Active(q))
      <4>1. page'[q] = page[q]
        BY <1>3 DEF Aside
      <4>2. script[q] = NoScript => script'[q] = NoScript
        <5>1. script[q] = NoScript => script[q].at \notin {"command", "done"}
          BY Typed
        <5> QED
          BY <1>3, <5>1 DEF Aside
      <4> QED
        BY <4>1, <4>2 DEF File, Active, Waiting, Quiet
    <3>2. File(p)' = File(p)
      <4>1. page[p] \in Pages
        BY <1>3, Typed DEF Numbers
      <4> QED
        BY <1>3, <4>1 DEF Aside, File, Pages
    <3>3. Active(p)
      BY <1>3 DEF Active
    <3> QED
      BY <3>1, <3>2, <3>3
  <2>2. crossed' = crossed
    BY <1>3 DEF Aside
  <2> QED
    BY <2>1, <2>2, NoneBegins
<1>4. CASE UNCHANGED channelVars
  BY <1>4 DEF channelVars, Alone, Active, Waiting, Quiet, File
<1> QED
  BY <1>1, <1>2, <1>3, <1>4, Kinds DEF ScriptRuns

\* A script that goes on writes to the file of no other post it has not met.
LEMMA OtherFile ==
    ASSUME TypeOK, Numbers, Alone, NEW p \in Posts, ~Quiet(p), Aside(p),
           NEW q \in Posts \ {p}, q \notin crossed, Active(q)
    PROVE  /\ page'[q] = page[q]
           /\ upload'[File(q)] = upload[File(q)] /\ copies'[File(q)] = copies[File(q)]
           /\ \/ script'[q] = script[q]
              \/ /\ script[q] \in Scripts
                 /\ script[q].at \in {"command", "done"} /\ q \in killed'
                 /\ script'[q].at = "done" /\ script'[q].linked = script[q].linked
<1>1. Active(p)
  BY DEF Active
<1>2. File(q) # File(p)
  BY <1>1 DEF Alone
<1>3. page[q] # NoPage /\ page[q] \in Pages
  BY Typed DEF Active, Waiting, Numbers
<1>4. File(q) \in ResultFiles
  BY <1>3, Typed
<1>5. \/ script'[q] = script[q]
      \/ /\ script[q].at \in {"command", "done"} /\ q \in killed'
         /\ script'[q] = [script[q] EXCEPT !.at = "done", !.out = Half]
  BY <1>2 DEF Aside
<1>6. script[q].at \in {"command", "done"} => script[q] \in Scripts
  BY Typed
<1>7. script[q] \in Scripts =>
         LET s == [script[q] EXCEPT !.at = "done", !.out = Half]
         IN s.at = "done" /\ s.linked = script[q].linked
  BY DEF Scripts
<1>8. page'[q] = page[q]
  BY DEF Aside
<1>9. upload'[File(q)] = upload[File(q)] /\ copies'[File(q)] = copies[File(q)]
  BY <1>2, <1>4 DEF Aside
<1> QED
  BY <1>5, <1>6, <1>7, <1>8, <1>9

\* The stages of a post that met no other.
StagedAt(p) ==
    /\ Stage(p)
    /\ p \notin killed =>
          /\ page[p].at # "dbus"
          /\ Ran(p) => script[p].out \in Own(p)
          /\ Quiet(p) => upload[File(p)] \in Own(p)

\* A step of one post keeps the stages of all.
LEMMA StaysStaged ==
    ASSUME TypeOK, Turns, Numbers, Alone, Staged, [ChannelNext]_channelVars
    PROVE  Staged'
<1>1. SUFFICES ASSUME NEW q \in Posts, q \notin crossed', Active(q)'
               PROVE  StagedAt(q)'
  BY DEF Staged, StagedAt
<1>2. q \notin crossed /\ Active(q) => StagedAt(q)
  BY DEF Staged, StagedAt
<1>3. ASSUME NEW p \in Posts, Begin(p) PROVE StagedAt(q)'
  <2>1. CASE q = p
    <3>1. script'[q].at = "clear" /\ page'[q].at = "posted" /\ script'[q] # NoScript
      BY <1>3, <2>1, Typed DEF Begin
    <3> QED
      BY <3>1 DEF StagedAt, Stage, Ran, Quiet
  <2>2. CASE q # p
    <3>1. /\ page'[q] = page[q] /\ script'[q] = script[q]
          /\ upload' = upload /\ copies' = copies
          /\ q \in killed' <=> q \in killed
          /\ q \in crossed => q \in crossed'
      BY <1>3, <2>2 DEF Begin
    <3>2. Active(q) /\ q \notin crossed
      BY <1>1, <3>1 DEF Active, Waiting, Quiet
    <3> QED
      BY <1>2, <3>1, <3>2 DEF StagedAt, Stage, Ran, Quiet, Cleared, Opened, Written,
         Copied, Own, File
  <2> QED
    BY <2>1, <2>2
<1>4. ASSUME NEW p \in Posts, Look(p) PROVE StagedAt(q)'
  <2>1. /\ UNCHANGED <<upload, copies, script, crossed, killed>>
        /\ page'[q].run = page[q].run /\ page'[q].action = page[q].action
        /\ Waiting(q)' => Waiting(q)
    BY <1>4 DEF Look, Waiting
  <2>2. Active(q)
    BY <1>1, <2>1 DEF Active, Quiet
  <2>3. StagedAt(q)
    BY <1>1, <1>2, <2>1, <2>2
  <2>4. Stage(q)'
    BY <2>1, <2>3 DEF StagedAt, Stage, Cleared, Opened, Written, Copied, Own, File
  <2>5. ASSUME q \notin killed PROVE page'[q].at # "dbus"
    <3>1. CASE q # p
      BY <1>4, <2>3, <2>5, <3>1 DEF Look, StagedAt
    <3>2. CASE q = p
      <4>1. Half \notin Own(q)
        BY <1>4, <3>2, TextsTyped DEF Look, Own, Pages
      <4>2. script[q].at # "clear" => copies[File(q)] # Half
        BY <2>3, <2>5, <4>1, Typed, TextsTyped DEF StagedAt, Stage, Cleared, Opened,
           Written, Copied, Ran, Stages
      <4> QED
        BY <1>4, <3>2, <4>2 DEF Look
    <3> QED
      BY <3>1, <3>2
  <2> QED
    BY <2>1, <2>3, <2>4, <2>5 DEF StagedAt, Ran, Quiet, Own, File
<1>5. ASSUME NEW p \in Posts, ~Quiet(p), Step(p), Aside(p) PROVE StagedAt(q)'
  <2>1. q \notin crossed /\ (q \notin killed' => q \notin killed)
    BY <1>1, <1>5 DEF Aside
  <2>2. CASE q # p
    <3>1. Active(q)
      <4>1. page'[q] = page[q]
        BY <1>5, <2>2 DEF Aside
      <4>2. script[q] = NoScript => script'[q] = NoScript
        BY <1>5, <2>2, Typed DEF Aside
      <4> QED
        BY <1>1, <4>1, <4>2 DEF Active, Waiting, Quiet
    <3>2. StagedAt(q)
      BY <1>2, <2>1, <3>1
    <3>3. /\ page'[q] = page[q]
          /\ upload'[File(q)] = upload[File(q)] /\ copies'[File(q)] = copies[File(q)]
          /\ \/ script'[q] = script[q]
             \/ /\ script[q] \in Scripts
                /\ script[q].at \in {"command", "done"} /\ q \in killed'
                /\ script'[q].at = "done" /\ script'[q].linked = script[q].linked
      BY <1>5, <2>1, <2>2, <3>1, OtherFile
    <3>4. File(q)' = File(q) /\ Own(q)' = Own(q)
      BY <3>3 DEF File, Own
    <3>5. CASE script'[q] = script[q]
      BY <2>1, <3>2, <3>3, <3>4, <3>5 DEF StagedAt, Stage, Ran, Quiet, Cleared, Opened,
         Written, Copied
    <3>6. CASE script'[q] # script[q]
      <4>1. /\ script[q].at \in {"command", "done"} /\ q \in killed'
            /\ script'[q].at = "done" /\ script'[q].linked = script[q].linked
        BY <3>3, <3>6
      <4>2. Opened(q) /\ script[q].linked = TRUE
        BY <3>2, <4>1 DEF StagedAt, Stage
      <4> QED
        BY <3>3, <3>4, <4>1, <4>2 DEF StagedAt, Stage, Opened
    <3> QED
      BY <3>5, <3>6
  <2>3. CASE q = p
    <3>1. Active(p) /\ StagedAt(p)
      BY <1>2, <1>5, <2>1, <2>3 DEF Active
    <3>2. page[p] \in Pages /\ page[p].run \in Nat
      BY <1>5, Typed DEF Numbers
    <3>3. /\ page'[p].run = page[p].run /\ page'[p].action = page[p].action
          /\ page'[p].at = "dbus" => page[p].at = "dbus"
      BY <1>5, <3>2 DEF Aside, Pages
    <3>4. File(p)' = File(p) /\ Own(p)' = Own(p)
      BY <3>3 DEF File, Own
    <3>5. Half \notin Own(p) /\ NoText \notin Own(p) /\ \A t \in Own(p) : IsResult(t)
      BY <3>2, TextsTyped DEF Own
    <3>6. script[p].out \in Own(p) \cup {Half}
      BY <1>5 DEF Numbers
    <3>7. /\ NoScript.at = "idle" /\ (script'[p] = NoScript <=> script'[p].at = "idle")
      BY <1>5, StaysTyped, Typed DEF TypeOK, NoScript, Scripts, Stages
    <3>8. /\ Stage(p)
          /\ p \notin killed' => (Ran(p) => script[p].out \in Own(p))
      BY <2>1, <2>3, <3>1 DEF StagedAt
    <3>9. ASSUME NEW a \in Stages, script[p].at = a
          PROVE  /\ Stage(p)'
                 /\ p \notin killed' => (Ran(p)' => script'[p].out \in Own(p))
                 /\ p \notin killed' => (Quiet(p)' => upload'[File(p)] \in Own(p))
      <4>1. CASE a = "clear"
        BY <1>5, <3>4, <3>7, <3>9, <4>1 DEF Step, Stage, Cleared, Ran, Quiet
      <4>2. CASE a = "open"
        BY <1>5, <3>4, <3>7, <3>8, <3>9, <4>2
        DEF Step, Stage, Cleared, Opened, Ran, Quiet
      <4>3. CASE a = "command"
        BY <1>5, <3>4, <3>7, <3>8, <3>9, <4>3
        DEF Step, Stage, Opened, Ran, Quiet, Keeps
      <4>4. CASE a = "done"
        <5>1. /\ script'[p].at = "copy" /\ script'[p].out = script[p].out
              /\ upload'[File(p)] = script[p].out /\ copies'[File(p)] = NoText
          BY <1>5, <3>8, <3>9, <4>4, TextsTyped DEF Step, Stage, Opened, Holds
        <5> QED
          BY <3>4, <3>6, <3>7, <3>8, <3>9, <4>4, <5>1 DEF Stage, Written, Ran, Quiet
      <4>5. CASE a = "copy"
        <5>1. /\ script'[p].at = "dbus" /\ script'[p].out = script[p].out
              /\ upload'[File(p)] = script[p].out /\ copies'[File(p)] = script[p].out
          BY <1>5, <3>5, <3>6, <3>8, <3>9, <4>5, TextsTyped DEF Step, Stage, Holds
        <5> QED
          BY <3>4, <3>6, <3>7, <3>8, <3>9, <4>5, <5>1
          DEF Stage, Written, Copied, Ran, Quiet
      <4>6. CASE a \in {"dbus", "check", "restart"}
        <5>1. /\ script'[p].at \in {"check", "restart", "respond"}
              /\ script'[p].out = script[p].out
              /\ upload'[File(p)] = script[p].out /\ copies'[File(p)] = script[p].out
          BY <1>5, <3>8, <3>9, <4>6 DEF Step, Stage, Holds, Keeps, Copied
        <5> QED
          BY <3>4, <3>6, <3>7, <3>8, <3>9, <4>6, <5>1
          DEF Stage, Written, Copied, Ran, Quiet
      <4>7. CASE a = "respond"
        <5>1. /\ script'[p].at = "idle"
              /\ upload'[File(p)] = script[p].out /\ copies'[File(p)] = script[p].out
          BY <1>5, <3>7, <3>8, <3>9, <4>7 DEF Step, Stage, Keeps, Copied
        <5> QED
          BY <3>4, <3>6, <3>8, <3>9, <4>7, <5>1 DEF Stage, Written, Copied, Ran, Quiet
      <4> QED
        BY <3>9, <4>1, <4>2, <4>3, <4>4, <4>5, <4>6, <4>7 DEF Stages
    <3>10. script[p].at \in Stages
      BY <1>5, Typed
    <3>11. p \notin killed' => page'[p].at # "dbus"
      BY <2>1, <2>3, <3>1, <3>3 DEF StagedAt
    <3>12. (upload[File(p)])' = upload'[File(p)] /\ Own(p)' = Own(p)
      BY <3>4
    <3> QED
      BY <2>3, <3>9, <3>10, <3>11, <3>12 DEF StagedAt
  <2> QED
    BY <2>2, <2>3
<1>6. CASE UNCHANGED channelVars
  <2>1. Active(q) /\ q \notin crossed
    BY <1>1, <1>6 DEF channelVars, Active, Waiting, Quiet
  <2> QED
    BY <1>2, <1>6, <2>1 DEF channelVars, StagedAt, Stage, Ran, Quiet, Cleared, Opened,
       Written, Copied, Own, File
<1> QED
  BY <1>3, <1>4, <1>5, <1>6, Kinds DEF ScriptRuns

\* What a waiting page may find is never from before its post: a file that has
\* been cleared is written to only by runs that have not ended.
LEMMA StaysFresh ==
    ASSUME TypeOK, Turns, Numbers, Fresh, [ChannelNext]_channelVars
    PROVE  Fresh'
<1>1. SUFFICES ASSUME NEW q \in Posts, Waiting(q)', script'[q].at # "clear"
               PROVE  /\ (upload[File(q)])'.run \notin page'[q].past
                      /\ (copies[File(q)])'.run \notin page'[q].past
  BY DEF Fresh
<1>2. Waiting(q) /\ script[q].at # "clear" =>
         /\ upload[File(q)].run \notin page[q].past
         /\ copies[File(q)].run \notin page[q].past
  BY DEF Fresh
<1>3. ASSUME NEW p \in Posts, Begin(p)
      PROVE  /\ (upload[File(q)])'.run \notin page'[q].past
             /\ (copies[File(q)])'.run \notin page'[q].past
  <2>1. /\ q # p
        /\ page'[q] = page[q] /\ script'[q] = script[q] /\ upload' = upload /\ copies' = copies
    BY <1>1, <1>3 DEF Begin
  <2> QED
    BY <1>1, <1>2, <2>1 DEF Waiting, File
<1>4. ASSUME NEW p \in Posts, Look(p)
      PROVE  /\ (upload[File(q)])'.run \notin page'[q].past
             /\ (copies[File(q)])'.run \notin page'[q].past
  <2>1. /\ upload' = upload /\ copies' = copies /\ script' = script
        /\ page'[q].past = page[q].past /\ page'[q].action = page[q].action
        /\ Waiting(q)
    BY <1>1, <1>4 DEF Look, Waiting
  <2> QED
    BY <1>1, <1>2, <2>1 DEF File
<1>5. ASSUME NEW p \in Posts, ~Quiet(p), Step(p), Aside(p)
      PROVE  /\ (upload[File(q)])'.run \notin page'[q].past
             /\ (copies[File(q)])'.run \notin page'[q].past
  <2>1. /\ page[p] \in Pages /\ page[p].run \notin ended /\ page[p].run \in Nat
        /\ script[p].out \in Own(p) \cup {Half} /\ 0 \notin ended
    BY <1>5, Typed DEF Numbers
  <2>2. /\ page'[q].past = page[q].past /\ page'[q].action = page[q].action
        /\ Waiting(q)
    <3>1. CASE q = p
      BY <1>1, <1>5, <2>1, <3>1 DEF Aside, Pages, Waiting
    <3>2. CASE q # p
      BY <1>1, <1>5, <3>2 DEF Aside, Waiting
    <3> QED
      BY <3>1, <3>2
  <2>3. /\ page[q] # NoPage /\ File(q) \in ResultFiles /\ page[q].past \subseteq ended
    BY <2>2, Typed DEF Waiting, Numbers
  <2>4. File(q)' = File(q)
    BY <2>2 DEF File
  <2>5. /\ script[p].out.run \notin page[q].past
        /\ NoText.run \notin page[q].past /\ Half.run \notin page[q].past
    BY <2>1, <2>3, TextsTyped DEF Own
  <2>6. CASE File(q) # File(p)
    <3>1. upload'[File(q)] = upload[File(q)] /\ copies'[File(q)] = copies[File(q)]
      BY <1>5, <2>3, <2>6 DEF Aside
    <3>2. script[q].at # "clear"
      <4>1. q # p
        BY <2>6
      <4>2. script[q].at = "clear" => script[q] \in Scripts
        BY Typed
      <4>3. script[q] \in Scripts => [script[q] EXCEPT !.linked = FALSE].at = script[q].at
        BY DEF Scripts
      <4> QED
        BY <1>1, <1>5, <2>6, <4>1, <4>2, <4>3 DEF Aside
    <3> QED
      BY <1>2, <2>2, <2>4, <3>1, <3>2
  <2>7. CASE File(q) = File(p)
    <3>1. script[p].at = "clear" =>
             upload'[File(p)] = NoText /\ copies'[File(p)] = NoText
      BY <1>5 DEF Step
    <3>2. script[q].at = "clear" => q = p \/ script[p].at = "clear"
      <4>1. script[q].at = "clear" => script[q] \in Scripts
        BY Typed
      <4>2. script[q] \in Scripts => [script[q] EXCEPT !.linked = FALSE].at = script[q].at
        BY DEF Scripts
      <4> QED
        BY <1>1, <1>5, <4>1, <4>2 DEF Aside
    <3>3. CASE script[p].at = "clear"
      BY <2>2, <2>4, <2>5, <2>7, <3>1, <3>3
    <3>4. CASE script[p].at # "clear"
      <4>1. /\ upload[File(q)].run \notin page[q].past
            /\ copies[File(q)].run \notin page[q].past
        BY <1>2, <2>2, <3>2, <3>4
      <4>2. /\ upload'[File(p)] \in {upload[File(p)], Half, script[p].out}
            /\ copies'[File(p)] \in {copies[File(p)], upload[File(p)]}
        BY <1>5, <3>4 DEF Step, Keeps
      <4> QED
        BY <2>2, <2>4, <2>5, <2>7, <4>1, <4>2
    <3> QED
      BY <3>3, <3>4
  <2> QED
    BY <2>6, <2>7
<1>6. CASE UNCHANGED channelVars
  BY <1>1, <1>2, <1>6 DEF channelVars, Waiting, File
<1> QED
  BY <1>3, <1>4, <1>5, <1>6, Kinds DEF ScriptRuns

\* What a page has shown.
LEMMA StaysShown ==
    ASSUME TypeOK, Turns, Numbers, Staged, Fresh, OwnResult, FreshResult,
           [ChannelNext]_channelVars
    PROVE  OwnResult' /\ FreshResult'
<1>1. SUFFICES ASSUME NEW q \in Posts, Showing(q)'
               PROVE  /\ q \notin crossed' \cup killed' => page'[q].shown.run = page'[q].run
                      /\ page'[q].from # "dbus" => page'[q].shown.run \notin page'[q].past
  BY DEF OwnResult, FreshResult
<1>2. CASE page'[q] = page[q] /\ (q \in crossed \cup killed => q \in crossed' \cup killed')
  BY <1>1, <1>2 DEF OwnResult, FreshResult, Showing
<1>3. ASSUME NEW p \in Posts, Begin(p)
      PROVE  page'[q] = page[q] /\ (q \in crossed \cup killed => q \in crossed' \cup killed')
  BY <1>1, <1>3 DEF Begin, Showing
<1>4. ASSUME NEW p \in Posts, ~Quiet(p), Step(p), Aside(p)
      PROVE  page'[q] = page[q] /\ (q \in crossed \cup killed => q \in crossed' \cup killed')
  <2>1. q = p => page'[q] = page[q]
    <3>1. page[p] \in Pages
      BY <1>4, Typed DEF Numbers
    <3>2. [page[p] EXCEPT !.at = "file"].at # "shown"
      BY <3>1 DEF Pages
    <3> QED
      BY <1>1, <1>4, <3>2 DEF Aside, Showing
  <2> QED
    BY <1>4, <2>1 DEF Aside
<1>5. ASSUME NEW p \in Posts, Look(p)
      PROVE  /\ q \notin crossed' \cup killed' => page'[q].shown.run = page'[q].run
             /\ page'[q].from # "dbus" => page'[q].shown.run \notin page'[q].past
  <2>1. UNCHANGED <<crossed, killed>>
    BY <1>5 DEF Look
  <2>2. CASE q # p
    BY <1>2, <1>5, <2>1, <2>2 DEF Look
  <2>3. CASE q = p
    <3>1. /\ Waiting(q) /\ page[q].run \in Nat /\ page[q] \in Pages
          /\ page'[q].run = page[q].run /\ page'[q].past = page[q].past
          /\ page'[q].at = "shown" /\ IsResult(page'[q].shown)
      BY <1>1, <1>5, <2>3 DEF Look, Showing, Pages
    <3>2. \/ page[q].at = "file" /\ page'[q].shown = upload[File(q)]
          \/ page[q].at = "copy" /\ page'[q].shown = copies[File(q)]
          \/ page[q].at = "dbus" /\ page'[q].from = "dbus"
      BY <1>5, <2>3, <3>1, TextsTyped DEF Look
    <3>3. script[q].at # "clear"
      BY <3>2 DEF Turns
    <3>4. ASSUME q \notin crossed \cup killed
          PROVE  page'[q].shown.run = page[q].run
      <4>1. StagedAt(q)
        BY <3>1, <3>4 DEF Staged, StagedAt, Active
      <4>2. page'[q].shown \in {upload[File(q)], copies[File(q)]}
        BY <3>2, <3>4, <4>1 DEF StagedAt
      <4>3. \A t \in Own(q) : t.run = page[q].run
        BY <3>1, TextsTyped DEF Own
      <4>4. /\ IsResult(upload[File(q)]) => upload[File(q)] \in Own(q)
            /\ IsResult(copies[File(q)]) => copies[File(q)] \in Own(q)
        BY <3>3, <4>1, Typed, TextsTyped DEF StagedAt, Stage, Cleared, Opened, Written,
           Copied, Stages
      <4> QED
        BY <3>1, <4>2, <4>3, <4>4
    <3>5. page'[q].from # "dbus" => page'[q].shown.run \notin page[q].past
      BY <3>1, <3>2, <3>3 DEF Fresh
    <3> QED
      BY <2>1, <3>1, <3>4, <3>5
  <2> QED
    BY <2>2, <2>3
<1>6. CASE UNCHANGED channelVars
  BY <1>2, <1>6 DEF channelVars
<1> QED
  BY <1>2, <1>3, <1>4, <1>5, <1>6, Kinds DEF ScriptRuns

-----------------------------------------------------------------------------
\* The credentials.  A command that has changed them restarts the service, or
\* it has met another run, whose result it may take for its own.
LEMMA StaysFollowing ==
    ASSUME TypeOK, Turns, Numbers, Alone, Staged, WillFollow, [ChannelNext]_channelVars
    PROVE  WillFollow'
<1>1. ASSUME NEW p \in Posts, NEW action \in Actions, Post(p, action) PROVE WillFollow'
  <2>1. Begin(p)
    BY <1>1, PostStep
  <2>2. UNCHANGED <<auths, pool, unseen>>
    BY <2>1 DEF Begin
  <2>3. ASSUME NEW q \in Posts, Pending(q) PROVE Pending(q)'
    <3>1. q # p
      BY <2>1, <2>3, Typed DEF Begin, Active, Pending
    <3>2. page'[q] = page[q] /\ script'[q] = script[q]
      BY <2>1, <3>1 DEF Begin
    <3> QED
      BY <2>3, <3>2 DEF Pending
  <2> QED
    BY <2>2, <2>3 DEF WillFollow
<1>2. ASSUME NEW p \in Posts, PagePolls(p) PROVE WillFollow'
  <2>1. Look(p)
    BY <1>2, PageSteps
  <2>2. UNCHANGED <<auths, pool, unseen, script>>
    BY <2>1 DEF Look
  <2>3. \A q \in Posts : page'[q].run = page[q].run /\ page'[q].action = page[q].action
    BY <2>1 DEF Look
  <2>4. \A q \in Posts : Pending(q) => Pending(q)'
    BY <2>2, <2>3 DEF Pending
  <2> QED
    BY <2>2, <2>4 DEF WillFollow
<1>3. ASSUME NEW p \in Posts, ScriptRuns(p) PROVE WillFollow'
  <2>1. /\ ~Quiet(p) /\ Step(p) /\ Aside(p)
        /\ script[p] \in Scripts /\ page[p] \in Pages /\ File(p) \in ResultFiles
        /\ script[p].at \in Stages
    BY <1>3, ScriptSteps, Typed DEF ScriptRuns, Numbers
  <2>2. CASE Restart(p)
    BY <2>2 DEF Restart, WillFollow
  <2>3. CASE script[p].at # "restart"
    <3>1. UNCHANGED pool
      BY <1>3, <2>3 DEF ScriptRuns, ClearResult, OpenOut, OtherCommand, CommandFails,
         LoginPoll, AccountRemove, CommandEnds, WriteOut, CopyOut, SetDbus, Check,
         Restart, Respond
    <3>2. \A q \in Posts : page'[q].run = page[q].run /\ page'[q].action = page[q].action
      <4>1. \A q \in Posts \ {p} : page'[q] = page[q]
        BY <2>1 DEF Aside
      <4>2. page'[p] = page[p] \/ page'[p] = [page[p] EXCEPT !.at = "file"]
        BY <2>1 DEF Aside
      <4>3. page'[p].run = page[p].run /\ page'[p].action = page[p].action
        BY <2>1, <4>2 DEF Pages
      <4> QED
        BY <4>1, <4>3
    <3>3. ASSUME NEW q \in Posts \ {p}, Pending(q) PROVE Pending(q)'
      <4>1. \/ script'[q] = script[q]
            \/ script[q] # NoScript /\ script'[q] = [script[q] EXCEPT !.linked = FALSE]
        BY <1>3, <2>3 DEF ScriptRuns, ClearResult, OpenOut, OtherCommand, CommandFails,
           LoginPoll, AccountRemove, CommandEnds, WriteOut, CopyOut, SetDbus, Check,
           Restart, Respond, Goto, TypeOK, Quiet
      <4>2. script[q] # NoScript => script[q] \in Scripts
        BY DEF TypeOK
      <4>3. script'[q].at = script[q].at /\ script'[q].out = script[q].out
        BY <4>1, <4>2 DEF Scripts
      <4> QED
        BY <3>2, <3>3, <4>3 DEF Pending
    <3>4. CASE script[p].at \in {"clear", "open", "respond"}
      <4>1. UNCHANGED <<auths, unseen>>
        BY <1>3, <3>4 DEF ScriptRuns, ClearResult, OpenOut, OtherCommand, CommandFails,
           LoginPoll, AccountRemove, CommandEnds, WriteOut, CopyOut, SetDbus, Check,
           Restart, Respond
      <4>2. ~Pending(p)
        BY <3>4 DEF Pending
      <4> QED
        BY <3>1, <3>3, <4>1, <4>2 DEF WillFollow
    <3>5. CASE script[p].at = "command"
      <4>1. ~Pending(p) /\ unseen' = unseen
        BY <1>3, <3>5 DEF Pending, ScriptRuns, ClearResult, OpenOut, OtherCommand,
           CommandFails, LoginPoll, AccountRemove, CommandEnds, WriteOut, CopyOut,
           SetDbus, Check, Restart, Respond
      <4>2. CASE auths' = auths
        BY <3>1, <3>3, <4>1, <4>2 DEF WillFollow
      <4>3. CASE auths' # auths
        <5>1. CommandEnds(p, TRUE) /\ page[p].action \in {"poll", "remove"}
          BY <1>3, <3>5, <4>3 DEF ScriptRuns, ClearResult, OpenOut, OtherCommand,
             CommandFails, LoginPoll, AccountRemove, WriteOut, CopyOut, SetDbus, Check,
             Restart, Respond
        <5>2. script'[p] = [script[p] EXCEPT !.at = "done", !.out = Result(page[p].run, TRUE)]
          BY <5>1 DEF CommandEnds, TypeOK
        <5>3. Pending(p)'
          BY <2>1, <3>2, <5>1, <5>2 DEF Pending, Restarting, Scripts
        <5> QED
          BY <5>3 DEF WillFollow
      <4> QED
        BY <4>2, <4>3
    <3>6. CASE script[p].at \in {"done", "copy", "dbus"}
      <4>1. UNCHANGED <<auths, unseen>>
        BY <1>3, <3>6 DEF ScriptRuns, ClearResult, OpenOut, OtherCommand, CommandFails,
           LoginPoll, AccountRemove, CommandEnds, WriteOut, CopyOut, SetDbus, Check,
           Restart, Respond
      <4>2. script'[p].at \in {"copy", "dbus", "check"} /\ script'[p].out = script[p].out
        BY <2>1, <3>6 DEF Step, Holds
      <4>3. Pending(p) => Pending(p)'
        BY <3>2, <3>6, <4>2 DEF Pending
      <4> QED
        BY <3>1, <3>3, <4>1, <4>3 DEF WillFollow
    <3>7. CASE script[p].at = "check"
      <4>1. Check(p) /\ auths' = auths
        BY <1>3, <3>7 DEF ScriptRuns, ClearResult, OpenOut, OtherCommand, CommandFails,
           LoginPoll, AccountRemove, CommandEnds, WriteOut, CopyOut, SetDbus, Check,
           Restart, Respond
      <4>2. PICK ok \in IF upload[File(p)] = Half THEN BOOLEAN ELSE {upload[File(p)].ok} :
               /\ script' = [script EXCEPT ![p].at = IF ok /\ page[p].action \in Restarting
                                                       THEN "restart" ELSE "respond"]
               /\ unseen' = (unseen \/ (~(ok /\ page[p].action \in Restarting) /\ p \in crossed))
        BY <4>1 DEF Check, Goto
      <4>3. ok \in BOOLEAN
        BY <2>1, <4>2 DEF TypeOK, Texts
      <4>4. unseen = TRUE => unseen' = TRUE
        BY <4>2
      <4>5. CASE ok /\ page[p].action \in Restarting
        <5>1. script'[p] = [script[p] EXCEPT !.at = "restart"]
          BY <2>1, <4>2, <4>5 DEF TypeOK
        <5> QED
          BY <2>1, <5>1 DEF Pending, WillFollow, Scripts
      <4>6. CASE ~(ok /\ page[p].action \in Restarting) /\ p \in crossed
        BY <4>2, <4>6 DEF WillFollow
      <4>7. CASE ~(ok /\ page[p].action \in Restarting) /\ p \notin crossed
        <5>1. upload[File(p)] = script[p].out
          BY <2>1, <3>7, <4>7 DEF Staged, Stage, Active
        <5>2. ~Pending(p)
          <6>1. script[p].out = Result(page[p].run, TRUE) => ok = TRUE
            <7>1. ASSUME script[p].out = Result(page[p].run, TRUE) PROVE ok = TRUE
              <8>1. page[p].run \in Nat
                BY <2>1 DEF Pages
              <8>2. upload[File(p)] # Half /\ upload[File(p)].ok = TRUE
                BY <5>1, <7>1, <8>1, TextsTyped
              <8> QED
                BY <4>2, <8>2
            <7> QED
              BY <7>1
          <6> QED
            BY <3>7, <4>7, <6>1 DEF Pending
        <5> QED
          BY <3>1, <3>3, <4>1, <4>4, <5>2 DEF WillFollow, TypeOK
      <4> QED
        BY <4>5, <4>6, <4>7
    <3> QED
      BY <2>1, <2>3, <3>4, <3>5, <3>6, <3>7 DEF Stages
  <2>4. script[p].at = "restart" => Restart(p)
    BY <1>3 DEF ScriptRuns, ClearResult, OpenOut, OtherCommand, CommandFails,
       LoginPoll, AccountRemove, CommandEnds, WriteOut, CopyOut, SetDbus, Check, Respond
  <2> QED
    BY <2>2, <2>3, <2>4
<1>4. CASE UNCHANGED channelVars
  BY <1>4 DEF channelVars, WillFollow, Pending
<1> QED
  BY <1>1, <1>2, <1>3, <1>4 DEF ChannelNext

-----------------------------------------------------------------------------
\* The invariant holds at the start.
LEMMA InitCInv == ASSUME ChannelInit PROVE CInv
<1>1. \A p \in Posts : /\ Quiet(p) /\ page[p] = NoPage /\ ~Waiting(p) /\ ~Active(p)
                       /\ script[p].at = "idle" /\ page[p].at = "idle" /\ ~Showing(p)
  BY DEF ChannelInit, Quiet, Waiting, Active, NoScript, NoPage, Showing
<1>2. TypeOK
  <2>1. upload \in [ResultFiles -> Texts] /\ lastResult \in Texts
    BY TextsTyped DEF ChannelInit
  <2>2. /\ copies = upload /\ script = [p \in Posts |-> NoScript]
        /\ page = [p \in Posts |-> NoPage]
        /\ posted = 1 /\ ended = {1} /\ unseen = FALSE
    BY DEF ChannelInit
  <2>3. unseen \in BOOLEAN
    BY <2>2
  <2> QED
    BY <2>1, <2>2, <2>3 DEF TypeOK
<1>3. Turns /\ Numbers
  BY <1>1 DEF ChannelInit, Turns, Numbers
<1>4. Alone /\ Staged /\ Fresh
  BY <1>1 DEF Alone, Staged, Fresh
<1>5. WillFollow /\ OwnResult /\ FreshResult
  BY <1>1 DEF ChannelInit, WillFollow, OwnResult, FreshResult
<1> QED
  BY <1>2, <1>3, <1>4, <1>5 DEF CInv

\* The invariant of files, scripts and pages holds in every reachable state.
THEOREM ResultsInductive == ChannelSpec => []CInv
<1>1. ChannelInit => CInv
  BY InitCInv
<1>2. CInv /\ [ChannelNext]_channelVars => CInv'
  <2>1. ASSUME CInv, [ChannelNext]_channelVars PROVE CInv'
    <3>1. /\ TypeOK /\ Turns /\ Numbers /\ Alone /\ Staged /\ Fresh /\ WillFollow
          /\ OwnResult /\ FreshResult
      BY <2>1 DEF CInv
    <3>2. TypeOK' /\ Turns' /\ Numbers'
      BY <2>1, <3>1, StaysTyped, StaysInTurn
    <3>3. Alone' /\ Staged'
      BY <2>1, <3>1, StaysAlone, StaysStaged
    <3>4. Fresh' /\ OwnResult' /\ FreshResult'
      BY <2>1, <3>1, StaysFresh, StaysShown
    <3>5. WillFollow'
      BY <2>1, <3>1, StaysFollowing
    <3> QED
      BY <3>2, <3>3, <3>4, <3>5 DEF CInv
  <2> QED
    BY <2>1
<1> QED
  BY <1>1, <1>2, PTL DEF ChannelSpec

\* However many buttons are pressed, and whatever the scripts do to each
\* other: a post that met no other on its result file, and whose command no
\* restart has killed, shows its own result.
THEOREM ShowsItsOwn == ChannelSpec => []OwnResult
<1>1. CInv => OwnResult
  BY DEF CInv
<1> QED
  BY <1>1, ResultsInductive, PTL

\* No post shows what a result file held before it, met or killed or not.
THEOREM ShowsNothingOld == ChannelSpec => []FreshResult
<1>1. CInv => FreshResult
  BY DEF CInv
<1> QED
  BY <1>1, ResultsInductive, PTL

\* When every script has ended the upstream works with the credentials on the
\* disk, or a run that met another one has not restarted the service.
THEOREM UpstreamFollows == ChannelSpec => []PoolFollows
<1>1. CInv => PoolFollows
  <2>1. ASSUME CInv, \A p \in Posts : Quiet(p) PROVE pool = auths \/ unseen
    <3>1. TypeOK /\ WillFollow
      BY <2>1 DEF CInv
    <3>2. \A p \in Posts : ~Pending(p)
      BY <2>1, <3>1, Typed DEF Pending
    <3> QED
      BY <3>1, <3>2 DEF WillFollow
  <2> QED
    BY <2>1 DEF PoolFollows
<1> QED
  BY <1>1, ResultsInductive, PTL
=============================================================================
