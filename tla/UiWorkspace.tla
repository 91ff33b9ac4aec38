---------------------------- MODULE UiWorkspace ----------------------------
(***************************************************************************)
(* How the browser UI edits and saves the configuration: the shell of      *)
(* ui/src/bootstrap.ts and what the Publishers, the Consumers and the      *)
(* Settings view do through it.                                            *)
(*                                                                         *)
(* JavaScript runs to completion between two awaits of a request, so a     *)
(* step is what happens between two of them.  Awaits that no request       *)
(* stands behind (ticks, hooks, form rendering) belong to the step.  A     *)
(* prompt or a confirmation is modal and is answered within the step.      *)
(*                                                                         *)
(* A section of the configuration is a sequence of entries; an entry has   *)
(* an identity and one of two contents, so that an edit can be undone by   *)
(* hand.  The settings are a section of one entry.  What the server keeps  *)
(* and answers (ui_app.rs) is external.                                    *)
(***************************************************************************)
EXTENDS Naturals, Sequences, FiniteSets

CONSTANTS
  Calls,     \* bound: the saves and toggles under way at a time
  MaxId,     \* bound: how many entries are ever created
  MaxEdits,  \* bound: what the user does and what fails
  None

Lists    == {"consumers", "publishers"}
Sections == Lists \cup {"config"}
Tabs     == Sections
Entries  == [id : 0 .. MaxId, content : 0 .. 1]

ASSUME NoneIsNothing ==
  /\ None \notin Seq(Entries)
  /\ None \notin Nat
  /\ None \notin {"workspace", "consumers", "publishers", "history"}
ASSUME BoundsAreNumbers == MaxId \in Nat \ (0 .. 1) /\ MaxEdits \in Nat

VARIABLES
  live,      \* the configuration of the page, which the views edit in place
  settings,  \* the copy of its settings that the Settings form edits
  baseline,  \* what a registered section is compared with
  saved,     \* state.saved_sections
  winSaved,  \* window._mqb_saved_sections.consumers
  opened,    \* the tabs that are initialized
  sel,       \* the selected consumer
  status,    \* the consumers that run, as last polled
  calls,     \* the saves and toggles under way
  server,    \* external: the stored configuration
  running,   \* external: the consumers that run
  nextId, edits,
  wanted,    \* history: each section as the user has last made it
  exposed,   \* history: the sections edited beside a save, or saved twice at once
  unmarked   \* history: the sections stored without a baseline taking it

page  == <<live, settings, baseline, saved, winSaved, opened, sel, status>>
world == <<server, running>>
bounds == <<nextId, edits>>
ghosts == <<wanted, exposed, unmarked>>
vars == <<page, calls, world, bounds, ghosts>>

Kinds == {"workspace", "consumers", "publishers", "history"}
Free == [kind |-> None, phase |-> "free", posted |-> None, got |-> None,
         key |-> None, clicked |-> None, moved |-> FALSE, deletes |-> FALSE]

\* What a save stores of its own and marks as saved.
Covers(kind) ==
  CASE kind = "workspace" -> Sections
    [] kind \in Lists -> {kind}
    [] OTHER -> {}

Saving(c) == calls[c].phase \in {"post", "get", "reply"}
Savers == {c \in Calls : Saving(c)}
Covered(cs) == UNION {Covers(calls[c].kind) : c \in cs}

\* getValue of a section's tracker.
Current(s) == IF s = "config" THEN settings ELSE live[s]
isDirty(s) == baseline[s] # None /\ Current(s) # baseline[s]
computeWorkspaceDirty == \E s \in Sections : isDirty(s)

Ids(list) == {list[i].id : i \in DOMAIN list}
Without(list, i) ==
  [j \in 1 .. Len(list) - 1 |-> IF j < i THEN list[j] ELSE list[j + 1]]
Clamp(i, list) ==
  IF i > Len(list) THEN (IF list = <<>> THEN 1 ELSE Len(list))
  ELSE IF i < 1 THEN 1 ELSE i

TypeOK ==
  /\ live \in [Sections -> Seq(Entries)]
  /\ settings \in Seq(Entries)
  /\ baseline \in [Sections -> Seq(Entries) \cup {None}]
  /\ saved \in [Sections -> Seq(Entries)]
  /\ winSaved \in Seq(Entries) \cup {None}
  /\ opened \subseteq Tabs
  /\ sel \in Nat
  /\ status \subseteq 0 .. MaxId
  /\ server \in [Sections -> Seq(Entries)]
  /\ running \subseteq 0 .. MaxId
  /\ \A s \in opened : baseline[s] # None
  /\ \A c \in Calls : Saving(c) <=> calls[c].kind \in Kinds
  /\ \A s \in Lists : \A i, j \in DOMAIN live[s] :
       live[s][i].id = live[s][j].id => i = j

-----------------------------------------------------------------------------
(* Initialization of the views.  Each returns what it makes of the page p, *)
(* a record of the variables it may change.                                *)

Page == [live |-> live, settings |-> settings, baseline |-> baseline,
         saved |-> saved, winSaved |-> winSaved, opened |-> opened, sel |-> sel]

Become(p) ==
  /\ live' = p.live /\ settings' = p.settings /\ baseline' = p.baseline
  /\ saved' = p.saved /\ winSaved' = p.winSaved /\ opened' = p.opened
  /\ sel' = p.sel

\* A tracker keeps its baseline; a first one starts from the saved section.
createDirtyTracker(previous, savedSection) ==
  IF previous = None THEN savedSection ELSE previous

registerDirtySection(p, s) ==
  [p EXCEPT !.baseline[s] = createDirtyTracker(@, p.saved[s])]

\* A bug: every section is marked, not only the one that was stored.
markEverySectionSaved(p, s, value) ==
  [p EXCEPT !.saved[s] = value,
            !.baseline = [t \in Sections |->
                            IF @[t] = None THEN None
                            ELSE IF t = s THEN value ELSE p.live[t]]]

markSectionSaved(p, s, value) ==
  [p EXCEPT !.saved[s] = value,
            !.baseline[s] = IF @ = None THEN None ELSE value]

\* What is in the list when the view opens counts as saved.
initPublishers(p) ==
  registerDirtySection([p EXCEPT !.saved["publishers"] = p.live["publishers"]],
                       "publishers")

initConsumers(p) ==
  LET marked == IF p.winSaved = None
                THEN markSectionSaved(p, "consumers", p.live["consumers"])
                ELSE p
  IN  [registerDirtySection(marked, "consumers")
         EXCEPT !.sel = Clamp(@, p.live["consumers"])]

initSettings(p) ==
  registerDirtySection([p EXCEPT !.settings = p.live["config"],
                                 !.saved["config"] = p.live["config"]],
                       "config")

initTabIfNeeded(p, tab) ==
  IF tab \in p.opened THEN p
  ELSE [CASE tab = "publishers" -> initPublishers(p)
          [] tab = "consumers" -> initConsumers(p)
          [] tab = "config" -> initSettings(p)
        EXCEPT !.opened = @ \cup {tab}]

reinitializeWorkspaceViews(p) ==
  LET p1 == IF "publishers" \in p.opened THEN initPublishers(p) ELSE p
      p2 == IF "consumers" \in p.opened THEN initConsumers(p1) ELSE p1
  IN  IF "config" \in p.opened THEN initSettings(p2) ELSE p2

\* The page as bootstrapApp leaves it: the stored configuration, nothing open
\* but the tab that pickDefaultTab takes from the hash or the configuration.
bootstrapApp(config, tab) ==
  initTabIfNeeded(
    [live |-> config, settings |-> config["config"],
     baseline |-> [s \in Sections |-> None], saved |-> config,
     winSaved |-> None, opened |-> {}, sel |-> 1], tab)

Init ==
  /\ server = [s \in Sections |->
                 <<[id |-> IF s = "consumers" THEN 1
                           ELSE IF s = "publishers" THEN 2 ELSE 0,
                    content |-> 0]>>]
  /\ running = {}
  /\ \E tab \in Tabs :
       LET p == bootstrapApp(server, tab)
       IN  /\ live = p.live /\ settings = p.settings /\ baseline = p.baseline
           /\ saved = p.saved /\ winSaved = p.winSaved /\ opened = p.opened
           /\ sel = p.sel
  /\ status = {}
  /\ calls = [c \in Calls |-> Free]
  /\ nextId = 3 /\ edits = 0
  /\ wanted = server
  /\ exposed = {}
  /\ unmarked = {}

Reload ==
  /\ edits < MaxEdits /\ edits' = edits + 1
  /\ \E tab \in Tabs : Become(bootstrapApp(server, tab))
  /\ status' = running
  /\ calls' = [c \in Calls |-> Free]
  /\ wanted' = server
  /\ exposed' = {} /\ unmarked' = {}
  /\ UNCHANGED <<world, nextId>>

OpenTab(tab) ==
  /\ tab \notin opened
  /\ Become(initTabIfNeeded(Page, tab))
  /\ UNCHANGED <<status, calls, world, bounds, wanted, exposed>>
  /\ unmarked' = unmarked \cup
       (IF tab = "publishers" /\ live[tab] # server[tab] THEN {tab} ELSE {})

-----------------------------------------------------------------------------
(* What the user changes.                                                  *)

\* A change of the consumer list or of its selection, under a toggle's save.
Moved(call) == IF call.clicked = None THEN call ELSE [call EXCEPT !.moved = TRUE]
Moves == calls' = [c \in Calls |-> Moved(calls[c])]

Edit(s) ==
  /\ edits < MaxEdits
  /\ edits' = edits + 1
  /\ wanted' = [wanted EXCEPT ![s] = Current(s)']
  /\ exposed' = exposed \cup (Covered(Savers) \cap {s})

\* The page with one more entry in a list.
Added(p, s) ==
  [p EXCEPT !.live[s] = Append(@, [id |-> nextId, content |-> 0])]

Fresh == nextId <= MaxId /\ nextId' = nextId + 1

addConsumerAction ==
  /\ "consumers" \in opened
  /\ Fresh
  /\ LET p == Added(Page, "consumers")
     IN  Become([p EXCEPT !.sel = Len(p.live["consumers"])])
  /\ Edit("consumers")
  /\ Moves
  /\ UNCHANGED <<status, world, unmarked>>

addPublisherAction ==
  /\ "publishers" \in opened
  /\ Fresh
  /\ Become(Added(Page, "publishers"))
  /\ Edit("publishers")
  /\ UNCHANGED <<status, calls, world, unmarked>>

\* The new publisher is in the list before its view opens, which then counts it
\* as saved.
copyCurrentConsumerAction ==
  /\ "consumers" \in opened
  /\ sel \in DOMAIN live["consumers"]
  /\ Fresh
  /\ Become(initTabIfNeeded(Added(Page, "publishers"), "publishers"))
  /\ Edit("publishers")
  /\ unmarked' = unmarked \cup ({"publishers"} \ opened)
  /\ UNCHANGED <<status, calls, world>>

\* The list without the new consumer is recorded as saved, if none was.
copyCurrentPublisherAction ==
  /\ "publishers" \in opened
  /\ live["publishers"] # <<>>
  /\ Fresh
  /\ LET p == IF winSaved = None
              THEN [Page EXCEPT !.winSaved = live["consumers"],
                                !.saved["consumers"] = live["consumers"]]
              ELSE Page
         q == initTabIfNeeded(Added(p, "consumers"), "consumers")
     IN  Become([q EXCEPT !.sel = Len(q.live["consumers"])])
  /\ Edit("consumers")
  /\ Moves
  /\ UNCHANGED <<status, world, unmarked>>

\* A form writes to the entry that is selected.
editEntry(s, i) ==
  /\ s \in opened
  /\ i \in DOMAIN live[s]
  /\ live' = [live EXCEPT ![s][i].content = 1 - @]
  /\ Edit(s)
  /\ UNCHANGED <<settings, baseline, saved, winSaved, opened, sel, status,
                 calls, world, nextId, unmarked>>

renderConsumerForm == editEntry("consumers", sel)
renderPublisherForm == \E i \in 1 .. MaxId : editEntry("publishers", i)

editSettings ==
  /\ "config" \in opened
  /\ settings' = [settings EXCEPT ![1].content = 1 - @]
  /\ Edit("config")
  /\ UNCHANGED <<live, baseline, saved, winSaved, opened, sel, status,
                 calls, world, nextId, unmarked>>

deleteCurrentConsumerAction ==
  /\ "consumers" \in opened
  /\ sel \in DOMAIN live["consumers"]
  /\ LET rest == Without(live["consumers"], sel)
     IN  /\ live' = [live EXCEPT !["consumers"] = rest]
         /\ sel' = IF rest = <<>> THEN 0 ELSE Clamp(sel, rest)
  /\ Edit("consumers")
  /\ Moves
  /\ UNCHANGED <<settings, baseline, saved, winSaved, opened, status, world,
                 nextId, unmarked>>

restoreConsumerStateFromView(i) ==
  /\ "consumers" \in opened
  /\ i \in DOMAIN live["consumers"]
  /\ i # sel
  /\ sel' = i
  /\ Moves
  /\ UNCHANGED <<live, settings, baseline, saved, winSaved, opened, status,
                 world, bounds, ghosts>>

-----------------------------------------------------------------------------
(* Saving.                                                                 *)

Set(c, call) == calls' = [calls EXCEPT ![c] = call]

\* A save is under way beside others: what any of them covers is at stake.
Beside(kind) ==
  IF Savers = {} THEN exposed
  ELSE exposed \cup Covers(kind) \cup Covered(Savers)

\* The request carries the whole configuration of the page, as it is now.
Send(c, kind, call) ==
  /\ Set(c, [call EXCEPT !.kind = kind, !.phase = "post", !.posted = live'])
  /\ exposed' = Beside(kind)

\* A bug: the settings are left out.
beforeWorkspaceSaveNothing(p) == p.live

mergeSettingsConfig(config, from) == [config EXCEPT !["config"] = from]

\* The hook that the Settings view registers.
beforeWorkspaceSave(p) ==
  IF "config" \in p.opened THEN mergeSettingsConfig(p.live, p.settings)
  ELSE p.live

\* The button is disabled while the workspace is saved.
saveWorkspace(c) ==
  /\ calls[c] = Free
  /\ \A d \in Calls : calls[d].kind # "workspace"
  /\ live' = beforeWorkspaceSave(Page)
  /\ Send(c, "workspace", Free)
  /\ UNCHANGED <<settings, baseline, saved, winSaved, opened, sel, status,
                 world, bounds, wanted, unmarked>>

\* scheduleHistorySync: the timer saves the section of the history, silently.
historySync(c) ==
  /\ calls[c] = Free
  /\ \A d \in Calls : calls[d].kind # "history"
  /\ UNCHANGED <<page, world, wanted, unmarked, nextId>>
  /\ edits < MaxEdits /\ edits' = edits + 1
  /\ Send(c, "history", Free)

deleteCurrentPublisherAction(c, i) ==
  /\ calls[c] = Free
  /\ "publishers" \in opened
  /\ i \in DOMAIN live["publishers"]
  /\ edits < MaxEdits /\ edits' = edits + 1
  /\ live' = [live EXCEPT !["publishers"] = Without(@, i)]
  /\ wanted' = [wanted EXCEPT !["publishers"] = live'["publishers"]]
  /\ Send(c, "publishers", [Free EXCEPT !.deletes = TRUE])
  /\ UNCHANGED <<settings, baseline, saved, winSaved, opened, sel, status,
                 world, nextId, unmarked>>

hasUnsavedConsumers == winSaved # None /\ winSaved # live["consumers"]
isSavedConsumer(id) == winSaved # None /\ id \in Ids(winSaved)

\* A click on Start or Stop: a consumer that does not run is saved first.
toggleActiveConsumer(c) ==
  /\ calls[c] = Free
  /\ "consumers" \in opened
  /\ sel \in DOMAIN live["consumers"]
  /\ edits < MaxEdits /\ edits' = edits + 1
  /\ LET id == live["consumers"][sel].id
         call == [Free EXCEPT !.key = id, !.clicked = id]
     IN  /\ UNCHANGED <<page, world, wanted, unmarked, nextId>>
         /\ IF id \notin status /\ (hasUnsavedConsumers \/ ~ isSavedConsumer(id))
            THEN Send(c, "consumers", call)
            ELSE /\ Set(c, [call EXCEPT !.phase = IF id \in status THEN "stop"
                                                  ELSE "start"])
                 /\ UNCHANGED exposed

\* The server stores a configuration and stops the consumers that it changes.
Store(config) ==
  /\ server' = config
  /\ running' = {id \in running : \E i \in DOMAIN config["consumers"] :
                   /\ config["consumers"][i].id = id
                   /\ \E j \in DOMAIN server["consumers"] :
                        server["consumers"][j] = config["consumers"][i]}

\* The list that a toggle has stored and is about to fetch is overwritten.
Overtakes(c, call) ==
  calls' = [d \in Calls |->
    IF d = c THEN call
    ELSE IF calls[d].phase = "get"
            /\ calls[d].posted["consumers"] # server'["consumers"]
    THEN Moved(calls[d]) ELSE calls[d]]

\* POST /config reaches the server.
postConfig(c) ==
  /\ calls[c].phase = "post"
  /\ Store(calls[c].posted)
  /\ unmarked' = unmarked \cup {s \in Sections : server'[s] # server[s]}
  /\ Overtakes(c, [calls[c] EXCEPT !.phase = "get"])
  /\ UNCHANGED <<page, bounds, wanted, exposed>>

\* GET /config is answered.
fetchConfigFromServer(c) ==
  /\ calls[c].phase = "get"
  /\ Set(c, [calls[c] EXCEPT !.phase = "reply", !.got = server])
  /\ UNCHANGED <<page, world, bounds, ghosts>>

\* With the last save, the sections at stake are whatever has come of them.
Settle(c) ==
  IF Savers \subseteq {c}
  THEN /\ exposed' = {}
       /\ wanted' = [s \in Sections |-> IF s \in exposed THEN Current(s)'
                                        ELSE wanted[s]]
  ELSE UNCHANGED <<exposed, wanted>>

\* A baseline takes what the server keeps, or something else.
Mark(sections, got) ==
  {s \in unmarked : s \notin sections} \cup {s \in sections : got[s] # server[s]}

replaceLiveConfig(p, got) == [p EXCEPT !.live = got]

\* The hook that the Settings view registers.
afterWorkspaceSave(p) ==
  IF "config" \in p.opened THEN [p EXCEPT !.settings = p.live["config"]] ELSE p

workspaceSaved(p, got) ==
  LET p1 == afterWorkspaceSave(replaceLiveConfig(p, got))
      p2 == reinitializeWorkspaceViews(p1)
      p3 == markSectionSaved(p2, "publishers", got["publishers"])
      p4 == markSectionSaved(p3, "consumers", got["consumers"])
  IN  markSectionSaved(p4, "config", got["config"])

finishWorkspace(c) ==
  /\ calls[c].phase = "reply" /\ calls[c].kind = "workspace"
  /\ Become(workspaceSaved(Page, calls[c].got))
  /\ calls' = [d \in Calls |-> IF d = c THEN Free ELSE Moved(calls[d])]
  /\ Settle(c)
  /\ unmarked' = Mark(Sections, calls[c].got)
  /\ UNCHANGED <<status, world, bounds>>

sectionSaved(p, s, got) ==
  markSectionSaved([p EXCEPT !.live[s] = got[s]], s, got[s])

\* A bug: the consumer that was saved last.
startKeyOfLast(got) == got[Len(got)].id

\* The consumer that Start names once it has been saved.
startKey(got) == got[sel].id

finishSection(c) ==
  LET call == calls[c]
      s == call.kind
      p == sectionSaved(Page, s, call.got)
  IN  /\ call.phase = "reply" /\ s \in Lists
      /\ Become(IF s = "consumers" THEN [p EXCEPT !.winSaved = call.got[s]] ELSE p)
      /\ Set(c, IF s = "consumers" /\ sel \in DOMAIN call.got[s]
                THEN [call EXCEPT !.phase = "start", !.kind = None, !.got = None,
                                  !.posted = None, !.key = startKey(call.got[s])]
                ELSE Free)
      /\ Settle(c)
      /\ unmarked' = Mark({s}, call.got)
      /\ UNCHANGED <<status, world, bounds>>

finishHistory(c) ==
  /\ calls[c].phase = "reply" /\ calls[c].kind = "history"
  /\ UNCHANGED <<page, world, bounds, unmarked>>
  /\ Set(c, Free)
  /\ Settle(c)

\* A request fails, having been carried out or not.  A deletion is marked as
\* saved all the same, and Start goes on with the consumer that was clicked.
saveFails(c) ==
  LET call == calls[c]
      next == IF call.clicked = None THEN Free
              ELSE [call EXCEPT !.phase = "start", !.kind = None, !.got = None,
                                !.posted = None]
  IN
  /\ Saving(c)
  /\ \/ UNCHANGED world /\ Set(c, next)
     \/ call.phase = "post" /\ Store(call.posted) /\ Overtakes(c, next)
  /\ LET p == IF call.deletes
              THEN markSectionSaved(Page, "publishers", live["publishers"])
              ELSE Page
     IN  Become(p)
  /\ Settle(c)
  /\ unmarked' = unmarked \cup {s \in Sections : server'[s] # server[s]}
                   \cup (IF call.deletes THEN {"publishers"} ELSE {})
  /\ edits < MaxEdits /\ edits' = edits + 1
  /\ UNCHANGED <<status, nextId>>

-----------------------------------------------------------------------------
(* Start and stop, and the status.                                         *)

\* POST /consumer-start or /consumer-stop, refused for an unknown consumer; the
\* status is polled after a success.
consumerRequest(c) ==
  LET call == calls[c] IN
  /\ call.phase \in {"start", "stop"}
  /\ running' = IF call.phase = "stop" THEN running \ {call.key}
                ELSE running \cup ({call.key} \cap Ids(server["consumers"]))
  /\ status' = running'
  /\ Set(c, Free)
  /\ UNCHANGED <<live, settings, baseline, saved, winSaved, opened, sel, server,
                 bounds, ghosts>>

pollRuntimeStatus ==
  /\ status # running
  /\ status' = running
  /\ UNCHANGED <<live, settings, baseline, saved, winSaved, opened, sel, calls,
                 world, bounds, ghosts>>

Next ==
  \/ Reload
  \/ \E tab \in Tabs : OpenTab(tab)
  \/ addConsumerAction
  \/ addPublisherAction
  \/ copyCurrentConsumerAction
  \/ copyCurrentPublisherAction
  \/ renderConsumerForm
  \/ renderPublisherForm
  \/ editSettings
  \/ deleteCurrentConsumerAction
  \/ \E i \in 1 .. MaxId : restoreConsumerStateFromView(i)
  \/ \E c \in Calls :
       \/ saveWorkspace(c)
       \/ historySync(c)
       \/ \E i \in 1 .. MaxId : deleteCurrentPublisherAction(c, i)
       \/ toggleActiveConsumer(c)
       \/ postConfig(c)
       \/ fetchConfigFromServer(c)
       \/ finishWorkspace(c)
       \/ finishSection(c)
       \/ finishHistory(c)
       \/ saveFails(c)
       \/ consumerRequest(c)
  \/ pollRuntimeStatus

Spec == Init /\ [][Next]_vars

-----------------------------------------------------------------------------
(* What the user has made of a section stays on the page through every     *)
(* save, also one that fails or that another section caused; only what is  *)
(* edited beside a save of the same section, or saved twice at once, may   *)
(* be overwritten (replaceConfigFromSave, saveConfigSection).              *)
EditsSurvive ==
  \A s \in Sections \ exposed : s \in opened => Current(s) = wanted[s]

(* A section that does not count as edited is what the server keeps,       *)
(* unless something was stored that no baseline took, or a baseline taken  *)
(* of something that was not stored (markSectionSaved).                    *)
CleanMeansSaved ==
  \A s \in opened \ unmarked : isDirty(s) \/ Current(s) = server[s]

(* Start and Stop act on the consumer that was clicked, although Start     *)
(* saves first and takes the key from the answer, as long as the list and  *)
(* the selection stay as they were meanwhile, and no other save that was   *)
(* under way overwrites the list before it is fetched                      *)
(* (toggleActiveConsumer).                                                 *)
ToggleHitsTheClicked ==
  \A c \in Calls : calls[c].phase \in {"start", "stop"} =>
    calls[c].moved \/ calls[c].key = calls[c].clicked

=============================================================================
