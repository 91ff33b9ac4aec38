---------------------------- MODULE UiPublishers ----------------------------
(***************************************************************************)
(* The publishers view of the browser UI (ui/src/lib/publishers-view.ts):  *)
(* sending, the answers that come late, the history of what was sent and   *)
(* where it is kept, and the panel that shows the selected publisher.      *)
(*                                                                         *)
(* The state of a page is one record, and an operator gives the page that  *)
(* a function of the code leaves behind.  A step is what happens between   *)
(* two awaits of a request; a save of the workspace or of the history is   *)
(* one step (UiWorkspace interleaves theirs).  A payload is one of two     *)
(* texts, of which 1 is what beautifying leaves.                           *)
(*                                                                         *)
(* The history is kept in four places: in the page, in the browser's       *)
(* storage, in what the page read of that storage when it was loaded, and  *)
(* at the server.                                                          *)
(***************************************************************************)
EXTENDS Naturals, Sequences, FiniteSets

CONSTANTS
  Sends,      \* bound: the sends under way at a time
  Names,      \* the names that are given to publishers
  MaxId,      \* bound: how many publishers are ever created
  MaxSends,   \* bound
  MaxEvents,  \* bound: what else the user does, and what fails
  None        \* no name, no payload, no response

Ids == 1 .. MaxId
Keys == Ids \cup Names
Payloads == 0 .. 1
Publishers == [id : Ids, name : Names \cup {None}, payload : Payloads]
Entries == [n : 0 .. MaxSends, payload : Payloads]
Histories == [Keys -> Seq(Entries)]
States == [of : Ids, n : 0 .. MaxSends, is : {"sending", "answer", "error", "history"}]
Deletions == [at : Nat, posted : Seq(Publishers)]
SentRequests == [of : Ids, payload : Payloads]

ASSUME BoundsAreNumbers == MaxId \in Nat \ {0} /\ MaxSends \in Nat /\ MaxEvents \in Nat
\* An id is generated, and is nobody's name.
ASSUME NamesAreNoIds == \A name \in Names : name \notin Nat
ASSUME NoneIsNothing == None \notin Deletions

VARIABLES
  page,    \* what the view keeps; it is lost with the page, but for local, stored
  world,   \* external: the publishers and the history that the server stores
  nextId, nextSend, events,
  filed,   \* history: what was answered for each publisher since it was cleared last,
           \* newest first
  rolled,  \* history: the publishers for which another copy of the history was taken
           \* than the one that the view keeps up to date
  sent,    \* history: each send, its publisher and its payload
  touched, \* history: the sends whose publisher was edited before the answer
  replaced,\* history: the publishers that a form of another was written over
  named    \* history: the names that each publisher has had

ghosts == <<filed, rolled, sent, touched, replaced, named>>
bounds == <<nextId, nextSend, events>>
vars == <<page, world, bounds, ghosts>>

Nothing == [k \in Keys |-> None]
NoHistory == [k \in Keys |-> <<>>]
Free == [phase |-> "free", pub |-> None, n |-> 0, attached |-> FALSE]

Event == events < MaxEvents /\ events' = events + 1

-----------------------------------------------------------------------------
(* What is kept per publisher is found under its id or under its name.     *)

publisherStorageKeysFor(p) == {p.id} \cup (Names \cap {p.name})

historyBucketKeyFor(p) == p.id

\* The value under the first key that has one.
Found(map, p, absent) ==
  IF map[p.id] # absent \/ p.name = None THEN map[p.id] ELSE map[p.name]

readLocalPublisherState(pg, p) == Found(pg.local, p, None)
currentHistoryEntries(pg, p) == Found(pg.history, p, <<>>)
getPublisherResponseState(pg, p) == Found(pg.responses, p, None)

setPublisherResponseState(pg, p, response) ==
  [pg EXCEPT !.responses = [k \in Keys |->
     IF k \in publisherStorageKeysFor(p) THEN response ELSE @[k]]]

setLocalPublisherState(pg, p, payload) ==
  [pg EXCEPT !.local = [k \in Keys |->
     IF k \in publisherStorageKeysFor(p) THEN payload ELSE @[k]]]

persistHistory(pg) == [pg EXCEPT !.stored = pg.history]

\* The timer of two seconds is set anew.
scheduleHistorySync(pg) == [pg EXCEPT !.timer = TRUE]

-----------------------------------------------------------------------------
(* The panel.                                                              *)

\* The index of the selected publisher, the first one if there is none there.
currentPublisher(pg) ==
  IF pg.publishers = <<>> THEN 0
  ELSE IF pg.selected \in DOMAIN pg.publishers THEN pg.selected ELSE 1

Selected(pg) == pg.publishers[currentPublisher(pg)]
Has(pg) == pg.publishers # <<>>

\* The payload on the panel, and the one that a send has.
requestPayload(pg) ==
  LET kept == readLocalPublisherState(pg, Selected(pg))
  IN  IF kept # None THEN kept ELSE Selected(pg).payload

\* A bug: the panel keeps the response it shows.
renderEverythingElse(pg) == [pg EXCEPT !.selected = currentPublisher(pg)]

renderSelectedPublisher(pg) ==
  IF ~ Has(pg) THEN pg
  ELSE [pg EXCEPT !.selected = currentPublisher(pg),
                  !.response = getPublisherResponseState(pg, Selected(pg))]

\* The form holds a document of its own, until it is rendered again.
WithForm(pg) == IF Has(pg) THEN [pg EXCEPT !.form = Selected(pg)] ELSE pg

restorePublisherStateFromView(pg, i) ==
  LET n == Len(pg.publishers)
      clamped == IF n = 0 THEN 0 ELSE IF i > n THEN n ELSE i
  IN  WithForm(renderSelectedPublisher([pg EXCEPT !.selected = clamped]))

\* The publisher with the id is written over.  What a send under way holds is the
\* publisher of the list, until that is deleted or the list is made of new objects.
Overwrite(pg, id, p) ==
  [pg EXCEPT
     !.publishers = [i \in DOMAIN @ |-> IF @[i].id = id THEN p ELSE @[i]],
     !.calls = [c \in Sends |->
       IF @[c].attached /\ @[c].pub.id = id THEN [@[c] EXCEPT !.pub = p]
       ELSE @[c]]]

Change(pg, p) == Overwrite(pg, p.id, p)

normalizePublishers(pg, list) ==
  [pg EXCEPT !.publishers = list,
             !.calls = [c \in Sends |-> [@[c] EXCEPT !.attached = FALSE]]]

Added(pg, p) == [pg EXCEPT !.publishers = Append(@, p)]

hasPublisherHistoryEntries(history) == \E k \in Keys : history[k] # <<>>

\* The copy in the browser was read when the page was loaded.
hydrateHistory(pg) ==
  IF hasPublisherHistoryEntries(pg.cache) THEN [pg EXCEPT !.history = pg.cache]
  ELSE IF hasPublisherHistoryEntries(pg.stored) THEN [pg EXCEPT !.history = pg.stored]
  ELSE persistHistory([pg EXCEPT !.history = pg.config])

initPublishers(pg) ==
  LET p1 == hydrateHistory([pg EXCEPT !.responses = Nothing])
  IN  restorePublisherStateFromView(normalizePublishers(p1, pg.publishers),
                                    pg.selected)

\* A page as it is loaded, with what the browser has stored.
Loaded(local, stored, selected) ==
  initPublishers(
    [publishers |-> world.publishers, selected |-> selected, response |-> None,
     responses |-> Nothing, local |-> local, history |-> stored,
     stored |-> stored, cache |-> stored, config |-> world.history,
     timer |-> FALSE, calls |-> [c \in Sends |-> Free], deleting |-> None,
     form |-> None])

\* Histories of earlier versions are under the name of a publisher.
Init ==
  /\ \E name \in Names, legacy \in BOOLEAN :
       world = [publishers |-> <<[id |-> 1, name |-> name, payload |-> 0]>>,
                history |-> IF legacy
                            THEN [NoHistory EXCEPT ![name] = <<[n |-> 0, payload |-> 0]>>]
                            ELSE NoHistory]
  /\ page = Loaded(Nothing, NoHistory, 1)
  /\ nextId = 2 /\ nextSend = 1 /\ events = 0
  /\ filed = [i \in Ids |-> <<>>]
  /\ rolled = {}
  /\ sent = [n \in 1 .. MaxSends |-> [of |-> 1, payload |-> 0]]
  /\ touched = {}
  /\ replaced = {}
  /\ named = {<<1, world.publishers[1].name>>}

-----------------------------------------------------------------------------
(* The list and the selected publisher.                                    *)

Fresh == nextId <= MaxId /\ nextId' = nextId + 1

\* A publisher whose payload or name is changed while its send is under way.
Touches(p) ==
  touched' = touched \cup
    {page.calls[c].n : c \in {d \in Sends : page.calls[d].attached
                                            /\ page.calls[d].pub.id = p.id}}

Renamed(p) == named' = named \cup {<<p.id, p.name>>}

New(p) ==
  /\ Renamed(p)
  /\ UNCHANGED <<world, nextSend, filed, rolled, sent, touched, replaced>>

addPublisherAction ==
  LET p == [id |-> nextId, name |-> None, payload |-> 0] IN
  /\ Event /\ Fresh
  /\ page' = restorePublisherStateFromView(Added(page, p), Len(page.publishers) + 1)
  /\ New(p)

cloneCurrentPublisherAction ==
  LET p == [Selected(page) EXCEPT !.id = nextId] IN
  /\ Has(page)
  /\ Event /\ Fresh
  /\ page' = restorePublisherStateFromView(Added(page, p), Len(page.publishers) + 1)
  /\ New(p)

saveCurrentPublisherVariantAction(name) ==
  LET p == [Selected(page) EXCEPT !.id = nextId, !.name = name] IN
  /\ Has(page)
  /\ Event /\ Fresh
  /\ page' = renderSelectedPublisher(Added(page, p))
  /\ New(p)

savePublisherHistoryAsPublisherAction(i, name) ==
  LET entries == currentHistoryEntries(page, Selected(page))
      p == [id |-> nextId, name |-> name, payload |-> entries[i].payload]
  IN  /\ Has(page)
      /\ i \in DOMAIN entries
      /\ Event /\ Fresh
      /\ page' = restorePublisherStateFromView(
                   setLocalPublisherState(Added(page, p), p, p.payload),
                   Len(page.publishers) + 1)
      /\ New(p)

selectPublisher(i) ==
  /\ i \in DOMAIN page.publishers
  /\ i # page.selected
  /\ page' = restorePublisherStateFromView(page, i)
  /\ UNCHANGED <<world, bounds, ghosts>>

\* An edit in the form, of the name or of another field: the whole document of
\* the form is written over the selected publisher, its payload as it was when the
\* form was rendered.  What is kept for the panel stays.  While a deletion is being
\* saved, the form is still that of the deleted publisher.
renderPublisherForm(name) ==
  LET old == Selected(page)
      p == [page.form EXCEPT !.name = name]
  IN  /\ Has(page)
      /\ page.form # None
      /\ Event
      /\ page' = renderSelectedPublisher(
                   [Overwrite(page, old.id, p) EXCEPT !.form = p])
      /\ Touches(old)
      /\ Renamed(p)
      /\ replaced' = IF p.id = old.id THEN replaced ELSE replaced \cup {old.id}
      /\ UNCHANGED <<world, nextId, nextSend, filed, rolled, sent>>

updatePublisherPayload(payload) ==
  LET p == [Selected(page) EXCEPT !.payload = payload] IN
  /\ Has(page)
  /\ payload # Selected(page).payload
  /\ Event
  /\ page' = setLocalPublisherState(Change(page, p), p, payload)
  /\ Touches(p)
  /\ UNCHANGED <<world, nextId, nextSend, filed, rolled, sent, replaced, named>>

\* What is kept for the panel still has the text as it was.
beautifyPublisherPayloadAction ==
  LET p == [Selected(page) EXCEPT !.payload = 1] IN
  /\ Has(page)
  /\ Selected(page).payload = 0
  /\ Event
  /\ page' = renderSelectedPublisher(Change(page, p))
  /\ Touches(p)
  /\ UNCHANGED <<world, nextId, nextSend, filed, rolled, sent, replaced, named>>

-----------------------------------------------------------------------------
(* Sending.                                                                *)

Response(p, n, is) == [of |-> p.id, n |-> n, is |-> is]

setPublisherResponsePending(pg, p, n) ==
  LET response == Response(p, n, "sending")
  IN  [setPublisherResponseState(pg, p, response) EXCEPT !.response = response]

Sending(pg, c) ==
  LET p == Selected(pg)
  IN  [setPublisherResponsePending(pg, p, nextSend)
         EXCEPT !.calls[c] = [phase |-> "waiting", pub |-> p, n |-> nextSend,
                              attached |-> TRUE]]

Send(pg, c) ==
  /\ pg.calls[c] = Free
  /\ Has(pg)
  /\ nextSend <= MaxSends
  /\ nextSend' = nextSend + 1
  /\ page' = Sending(pg, c)
  /\ sent' = [sent EXCEPT ![nextSend] = [of |-> Selected(pg).id,
                                         payload |-> Selected(pg).payload]]

sendPublisherAction(c) ==
  /\ Send(page, c)
  /\ UNCHANGED <<world, nextId, events, filed, rolled, touched, replaced, named>>

\* A bug: the answer is shown and not kept.
shownOnly(pg, p, n) == [pg EXCEPT !.response = Response(p, n, "answer")]

applyPublisherResponseState(pg, p, n) ==
  LET response == Response(p, n, "answer")
  IN  [setPublisherResponseState(pg, p, response) EXCEPT !.response = response]

\* The entry is built from the publisher as it is when the answer comes.
buildHistoryEntry(p, n) == [n |-> n, payload |-> p.payload]

\* A bug: the bucket is that of the selected publisher.
filedUnderSelected(pg, p, entry) ==
  [pg EXCEPT !.history[Selected(pg).id] = <<entry>> \o @]

fileHistoryEntry(pg, p, entry) ==
  [pg EXCEPT !.history[historyBucketKeyFor(p)] = <<entry>> \o @]

\* An answer of any status: it is on the panel until the panel is rendered,
\* within the same step.
answered(c) ==
  LET call == page.calls[c]
      p1 == applyPublisherResponseState(page, call.pub, call.n)
      p2 == persistHistory(fileHistoryEntry(p1, call.pub,
                                            buildHistoryEntry(call.pub, call.n)))
  IN  /\ call.phase = "waiting"
      /\ page' = [scheduleHistorySync(renderSelectedPublisher(p2))
                    EXCEPT !.calls[c] = Free]
      /\ filed' = [filed EXCEPT ![call.pub.id] = <<call.n>> \o @]
      /\ UNCHANGED <<world, bounds, rolled, sent, touched, replaced, named>>

\* The request fails or is aborted after ten seconds: the panel shows it,
\* whatever publisher is selected, and nothing is filed.
publishFails(c) ==
  LET call == page.calls[c]
      response == Response(call.pub, call.n, "error")
  IN  /\ call.phase = "waiting"
      /\ Event
      /\ page' = [setPublisherResponseState(page, call.pub, response)
                    EXCEPT !.response = response, !.calls[c] = Free]
      /\ UNCHANGED <<world, nextId, nextSend, ghosts>>

-----------------------------------------------------------------------------
(* The history.                                                            *)

\* A bucket under the name of the publisher stays.
clearActivePublisherHistory ==
  /\ Has(page)
  /\ Event
  /\ LET p == Selected(page) IN
     /\ page' = scheduleHistorySync(renderSelectedPublisher(persistHistory(
                  [page EXCEPT !.history[historyBucketKeyFor(p)] = <<>>])))
     /\ filed' = [filed EXCEPT ![p.id] = <<>>]
     /\ rolled' = rolled \ {p.id}
  /\ UNCHANGED <<world, nextId, nextSend, sent, touched, replaced, named>>

buildHistoryResponseState(p, entry) == Response(p, entry.n, "history")

Shown(pg, i) ==
  LET entry == currentHistoryEntries(pg, Selected(pg))[i]
      p == [Selected(pg) EXCEPT !.payload = entry.payload]
      local == setLocalPublisherState(Change(pg, p), p, entry.payload)
  IN  renderSelectedPublisher(
        setPublisherResponseState(local, p, buildHistoryResponseState(p, entry)))

CanShow(i) ==
  /\ Has(page)
  /\ i \in DOMAIN currentHistoryEntries(page, Selected(page))

showPublisherHistoryEntry(i) ==
  /\ CanShow(i)
  /\ Event
  /\ page' = Shown(page, i)
  /\ Touches(Selected(page))
  /\ UNCHANGED <<world, nextId, nextSend, filed, rolled, sent, replaced, named>>

resendPublisherHistoryAction(c, i) ==
  /\ CanShow(i)
  /\ Send(Shown(page, i), c)
  /\ Touches(Selected(page))
  /\ UNCHANGED <<world, nextId, events, filed, rolled, replaced, named>>

\* The section of the history is saved, with the rest of the page's
\* configuration, or the request fails.
historySync ==
  /\ page.timer
  /\ \/ /\ world' = [publishers |-> page.publishers, history |-> page.history]
        /\ page' = [page EXCEPT !.timer = FALSE, !.config = page.history]
        /\ UNCHANGED events
     \/ /\ Event
        /\ page' = [page EXCEPT !.timer = FALSE]
        /\ UNCHANGED world
  /\ UNCHANGED <<nextId, nextSend, ghosts>>

-----------------------------------------------------------------------------
(* Deleting, saving the workspace, loading the page.                       *)

\* What was kept for the publisher goes, what it shares by name with another
\* included; then the section is saved.  A send under way keeps what it holds.
deleteCurrentPublisherAction ==
  /\ Has(page)
  /\ page.deleting = None
  /\ Event
  /\ LET i == currentPublisher(page)
         p == Selected(page)
         rest == [j \in 1 .. Len(page.publishers) - 1 |->
                    page.publishers[IF j < i THEN j ELSE j + 1]]
         gone == publisherStorageKeysFor(p)
     IN  /\ page' = persistHistory(
              [page EXCEPT
                 !.publishers = rest, !.deleting = [at |-> i, posted |-> rest],
                 !.local = [k \in Keys |-> IF k \in gone THEN None ELSE @[k]],
                 !.history = [k \in Keys |-> IF k \in gone THEN <<>> ELSE @[k]],
                 !.responses = [k \in Keys |-> IF k \in gone THEN None ELSE @[k]],
                 !.calls = [c \in Sends |->
                   IF @[c].attached /\ @[c].pub.id = p.id
                   THEN [@[c] EXCEPT !.attached = FALSE] ELSE @[c]]])
         /\ filed' = [filed EXCEPT ![p.id] = <<>>]
         /\ rolled' = rolled \ {p.id}
  /\ UNCHANGED <<world, nextId, nextSend, sent, touched, replaced, named>>

\* The answer to the save; a failed one leaves the list as it is.
deletionSaved ==
  /\ page.deleting # None
  /\ LET at == page.deleting.at
         after(pg) == [restorePublisherStateFromView(pg, at) EXCEPT !.deleting = None]
     IN  \/ /\ world' = [publishers |-> page.deleting.posted, history |-> page.config]
            /\ page' = after(normalizePublishers(page, page.deleting.posted))
            /\ UNCHANGED events
         \/ /\ Event
            /\ page' = after(page)
            /\ UNCHANGED world
  /\ UNCHANGED <<nextId, nextSend, ghosts>>

\* The publishers whose history changes, if another copy is taken than the stored
\* one.
Rolls(other) ==
  rolled' = rolled \cup
    {i \in Ids : other /\ page'.history[i] # page.history[i]}

\* The views are set up again after the configuration was stored: the history that
\* was read when the page was loaded comes before the one stored since.
workspaceSaved ==
  /\ page.deleting = None
  /\ Event
  /\ world' = [publishers |-> page.publishers, history |-> page.config]
  /\ page' = initPublishers(page)
  /\ Rolls(hasPublisherHistoryEntries(page.cache)
            \/ ~ hasPublisherHistoryEntries(page.stored))
  /\ UNCHANGED <<nextId, nextSend, filed, sent, touched, replaced, named>>

\* A page that is loaded while a history is stored has all of it.
Reload ==
  /\ Event
  /\ page' = Loaded(page.local, page.stored, page.selected)
  /\ Rolls(~ hasPublisherHistoryEntries(page.stored))
  /\ UNCHANGED <<world, nextId, nextSend, filed, sent, touched, replaced, named>>

Next ==
  \/ addPublisherAction
  \/ cloneCurrentPublisherAction
  \/ beautifyPublisherPayloadAction
  \/ clearActivePublisherHistory
  \/ historySync
  \/ deleteCurrentPublisherAction
  \/ deletionSaved
  \/ workspaceSaved
  \/ Reload
  \/ \E payload \in 0 .. 1 : updatePublisherPayload(payload)
  \/ \E i \in Ids : selectPublisher(i)
  \/ \E name \in Names \cup {None} : renderPublisherForm(name)
  \/ \E name \in Names :
       \/ saveCurrentPublisherVariantAction(name)
       \/ \E i \in 1 .. MaxSends : savePublisherHistoryAsPublisherAction(i, name)
  \/ \E i \in 1 .. MaxSends : showPublisherHistoryEntry(i)
  \/ \E c \in Sends :
       \/ sendPublisherAction(c)
       \/ answered(c)
       \/ publishFails(c)
       \/ \E i \in 1 .. MaxSends : resendPublisherHistoryAction(c, i)

Spec == Init /\ [][Next]_vars

-----------------------------------------------------------------------------
(* Properties.                                                             *)

TypeOK ==
  /\ page \in [publishers : Seq(Publishers), selected : Nat, response : States \cup {None},
               responses : [Keys -> States \cup {None}],
               local : [Keys -> Payloads \cup {None}],
               history : Histories, stored : Histories, cache : Histories,
               config : Histories, timer : BOOLEAN,
               calls : [Sends -> [phase : {"free", "waiting"}, pub : Publishers \cup {None},
                                  n : 0 .. MaxSends, attached : BOOLEAN]],
               deleting : Deletions \cup {None}, form : Publishers \cup {None}]
  /\ world \in [publishers : Seq(Publishers), history : Histories]
  /\ nextId \in 1 .. MaxId + 1 /\ nextSend \in 1 .. MaxSends + 1 /\ events \in 0 .. MaxEvents
  /\ filed \in [Ids -> Seq(0 .. MaxSends)]
  /\ rolled \subseteq Ids /\ replaced \subseteq Ids
  /\ sent \in [1 .. MaxSends -> SentRequests]
  /\ touched \subseteq 1 .. MaxSends
  /\ named \subseteq Ids \X (Names \cup {None})

Numbers(entries) == [j \in DOMAIN entries |-> entries[j].n]

(* The history of a publisher in the list is what was answered for it,     *)
(* newest first, each answer once, whatever the order in which answers,    *)
(* deletions, clears, renames and page loads come.  A publisher for which  *)
(* hydrateHistory took another copy than the stored one (the copy of the   *)
(* page load after a save of the workspace, the server's when nothing is   *)
(* stored) is excepted until it is cleared: AnsweredIsInHistory says what  *)
(* is lost.  Any entry, of those too, is of a send of that publisher, with *)
(* the payload that was sent, unless the publisher was edited before the   *)
(* answer (sendPublisherAction builds the entry after its await).          *)
AnswersAreFiled ==
  \A i \in DOMAIN page.publishers :
    LET id == page.publishers[i].id
        entries == page.history[id]
    IN  /\ id \notin rolled => filed[id] = Numbers(entries)
        /\ \A j \in DOMAIN entries :
             LET n == entries[j].n
             IN  n \in touched \/ sent[n] = [of |-> id, payload |-> entries[j].payload]

(* The history shows every send that was answered, until it is cleared.    *)
(* The code loses those since the page was loaded when the workspace is    *)
(* saved, if a history was stored then (hydrateHistory).                   *)
AnsweredIsInHistory ==
  \A i \in DOMAIN page.publishers :
    LET id == page.publishers[i].id
        shown == Numbers(page.history[id])
    IN  \A j \in DOMAIN filed[id] : \E k \in DOMAIN shown : shown[k] = filed[id][j]

(* What a send has as its payload is the text on the panel.  The code      *)
(* shows what is kept for the panel and sends what the publisher has; an   *)
(* edit in the form, or a load of the page, brings an older payload back   *)
(* to the publisher only (renderPublisherForm, renderSelectedPublisher).   *)
PayloadShownIsSent == Has(page) => requestPayload(page) = Selected(page).payload

(* The response on the panel is that of the selected publisher, or of one  *)
(* that has had its name; only the error of a send is shown whatever is    *)
(* selected, and a deleted publisher's response until its save is answered *)
(* (applyPublisherResponseState writes to the panel, and the panel is      *)
(* rendered again for the selected publisher).                             *)
ResponseIsOfSelected ==
  Has(page) /\ page.deleting = None /\ page.response # None
    /\ page.response.is # "error" =>
       LET p == Selected(page)
       IN  \/ page.response.of = p.id
           \/ <<page.response.of, p.name>> \in named

(* No publisher is left showing "Sending": what is kept under its id says  *)
(* so only while that send is under way, also when it is renamed, edited   *)
(* or deleted meanwhile (setPublisherResponseState).  A publisher that the *)
(* form of a deleted one was written over has another id and is excepted,  *)
(* and what is kept under a name, which others may share, is not covered.  *)
SendingIsUnderWay ==
  \A i \in Ids \ replaced :
    page.responses[i] # None /\ page.responses[i].is = "sending" =>
      \E c \in Sends : page.calls[c].phase = "waiting"
                       /\ page.calls[c].n = page.responses[i].n

=============================================================================
