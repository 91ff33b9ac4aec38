------------------------- MODULE UiPublishersProofs -------------------------
(***************************************************************************)
(* That a late answer goes where it belongs, for any number of publishers, *)
(* names and sends: an inductive invariant of UiPublishers.                *)
(*                                                                         *)
(* The view's functions give pages, and a handler calls several of them.   *)
(* So the parts of the invariant are predicates of a page, and of what the *)
(* history variables say at that time; first come the lemmas about the     *)
(* functions, whatever the page, and then one for each action.             *)
(***************************************************************************)
EXTENDS UiPublishers, TLAPS

Labels == Names \cup {None}
CallTypes == [phase : {"free", "waiting"}, pub : Publishers \cup {None},
              n : 0 .. MaxSends, attached : BOOLEAN]
Pages == [publishers : Seq(Publishers), selected : Nat, response : States \cup {None},
          responses : [Keys -> States \cup {None}], local : [Keys -> Payloads \cup {None}],
          history : Histories, stored : Histories, cache : Histories,
          config : Histories, timer : BOOLEAN, calls : [Sends -> CallTypes],
          deleting : Deletions \cup {None}, form : Publishers \cup {None}]

\* What the history variables and the counters say.
Pasts == [nextId : 1 .. MaxId + 1, nextSend : 1 .. MaxSends + 1,
          sent : [1 .. MaxSends -> SentRequests], touched : SUBSET (1 .. MaxSends),
          replaced : SUBSET Ids, named : SUBSET (Ids \X Labels)]
Past == [nextId |-> nextId, nextSend |-> nextSend, sent |-> sent, touched |-> touched,
         replaced |-> replaced, named |-> named]

\* What they say later.
Grows(g, h) ==
  /\ g.nextId <= h.nextId
  /\ g.nextSend <= h.nextSend
  /\ \A n \in 1 .. g.nextSend - 1 : h.sent[n] = g.sent[n]
  /\ g.touched \subseteq h.touched
  /\ g.replaced \subseteq h.replaced
  /\ g.named \subseteq h.named

\* The publisher was made, and has had its name.
Known(p, g) == p \in Publishers /\ p.id < g.nextId /\ <<p.id, p.name>> \in g.named

\* No id is in a list twice.
ListOK(list, g) ==
  /\ list \in Seq(Publishers)
  /\ \A i \in DOMAIN list : Known(list[i], g)
  /\ \A i, j \in DOMAIN list : list[i].id = list[j].id => i = j

\* The number is of a send of the publisher, and the payload is the one that was
\* sent, unless the publisher was edited before the answer.
IsOf(n, payload, id, g) ==
  /\ n \in 1 .. g.nextSend - 1
  /\ n \in g.touched \/ g.sent[n] = [of |-> id, payload |-> payload]

\* What is kept under an id was sent.
HistoryOK(history, g) ==
  /\ history \in Histories
  /\ \A k \in Ids : \A j \in DOMAIN history[k] :
       IsOf(history[k][j].n, history[k][j].payload, k, g)

\* A send under way has a publisher that was made, and, until that is deleted or
\* the list is made of new objects, one of the list.
CallOK(call, list, g) ==
  /\ call \in CallTypes
  /\ call.phase = "waiting" =>
       Known(call.pub, g) /\ IsOf(call.n, call.pub.payload, call.pub.id, g)
  /\ call.attached =>
       /\ call.phase = "waiting"
       /\ \E i \in DOMAIN list : list[i] = call.pub

\* What is kept under an id is of that publisher, and under a name of one that
\* has had the name.
ResponsesOK(responses, g) ==
  /\ responses \in [Keys -> States \cup {None}]
  /\ \A i \in Ids : responses[i] # None => responses[i].of = i
  /\ \A name \in Names : responses[name] # None => <<responses[name].of, name>> \in g.named

PageOK(pg, g) ==
  /\ pg \in Pages
  /\ ListOK(pg.publishers, g)
  /\ HistoryOK(pg.history, g) /\ HistoryOK(pg.stored, g)
  /\ HistoryOK(pg.cache, g) /\ HistoryOK(pg.config, g)
  /\ \A c \in Sends : CallOK(pg.calls[c], pg.publishers, g)
  /\ ResponsesOK(pg.responses, g)
  /\ pg.deleting # None => ListOK(pg.deleting.posted, g)
  /\ pg.form # None => Known(pg.form, g)

\* The form is of the selected publisher, or of one that is not in the list.
FormOK(pg) ==
  pg.form # None =>
    \A i \in DOMAIN pg.publishers : pg.publishers[i].id = pg.form.id => i = pg.selected

\* The panel as it is rendered; it is not while a deletion is under way.
ShownOK(pg, g) ==
  Has(pg) /\ pg.response # None /\ pg.response.is # "error" =>
    LET p == Selected(pg)
    IN  pg.response.of = p.id \/ <<pg.response.of, p.name>> \in g.named

PanelOK(pg, g) == pg.deleting = None => ShownOK(pg, g)

\* What says "Sending" under an id has a send under way, of that publisher.
SendingOK(pg, g) ==
  \A i \in Ids \ g.replaced : pg.responses[i] # None /\ pg.responses[i].is = "sending" =>
    \E c \in Sends : /\ pg.calls[c].phase = "waiting"
                     /\ pg.calls[c].n = pg.responses[i].n
                     /\ pg.calls[c].pub.id = i

\* What was answered for each publisher is what its history has, and so has the
\* copy that the view keeps up to date, unless another copy was taken.
FiledOK(f, other, pg) ==
  /\ f \in [Ids -> Seq(0 .. MaxSends)]
  /\ other \subseteq Ids
  /\ \A i \in Ids \ other : f[i] = Numbers(pg.history[i]) /\ pg.stored[i] = pg.history[i]

WorldOK(w, g) ==
  /\ w \in [publishers : Seq(Publishers), history : Histories]
  /\ ListOK(w.publishers, g)
  /\ HistoryOK(w.history, g)

IInv ==
  /\ Past \in Pasts
  /\ events \in 0 .. MaxEvents
  /\ PageOK(page, Past)
  /\ WorldOK(world, Past)
  /\ PanelOK(page, Past)
  /\ FormOK(page)
  /\ SendingOK(page, Past)
  /\ FiledOK(filed, rolled, page)

-----------------------------------------------------------------------------
(* What stays true as more is sent, named and edited.                      *)

\* An id is no name.
LEMMA IdsAreNoNames == Ids \subseteq Nat /\ \A i \in Ids : i \notin Names
BY NamesAreNoIds DEF Ids

\* A known publisher and a payload that was sent stay so.
LEMMA FactsStay ==
  ASSUME NEW g \in Pasts, NEW h \in Pasts, Grows(g, h)
  PROVE  /\ \A p : Known(p, g) => Known(p, h)
         /\ \A n, payload, id : IsOf(n, payload, id, g) => IsOf(n, payload, id, h)
<1>1. /\ g.nextId \in Nat /\ h.nextId \in Nat /\ g.nextSend \in Nat /\ h.nextSend \in Nat
      /\ g.nextId <= h.nextId /\ g.nextSend <= h.nextSend
  BY BoundsAreNumbers DEF Pasts, Grows
<1>2. ASSUME NEW p, Known(p, g) PROVE Known(p, h)
  <2>1. p.id \in Nat
    BY <1>2, IdsAreNoNames DEF Known, Publishers
  <2> QED
    BY <1>1, <1>2, <2>1 DEF Known, Grows
<1>3. ASSUME NEW n, NEW payload, NEW id, IsOf(n, payload, id, g)
      PROVE  IsOf(n, payload, id, h)
  BY <1>1, <1>3 DEF IsOf, Grows
<1> QED
  BY <1>2, <1>3

\* So do the parts of a page.
LEMMA PageStays ==
  ASSUME NEW g \in Pasts, NEW h \in Pasts, Grows(g, h)
  PROVE  /\ \A list : ListOK(list, g) => ListOK(list, h)
         /\ \A history : HistoryOK(history, g) => HistoryOK(history, h)
         /\ \A w : WorldOK(w, g) => WorldOK(w, h)
         /\ \A pg : PageOK(pg, g) => PageOK(pg, h)
         /\ \A pg : PanelOK(pg, g) => PanelOK(pg, h)
         /\ \A pg : SendingOK(pg, g) => SendingOK(pg, h)
<1>1. \A list : ListOK(list, g) => ListOK(list, h)
  BY FactsStay DEF ListOK
<1>2. \A history : HistoryOK(history, g) => HistoryOK(history, h)
  BY FactsStay DEF HistoryOK
<1>3. \A call, list : CallOK(call, list, g) => CallOK(call, list, h)
  BY FactsStay DEF CallOK
<1>4. \A responses : ResponsesOK(responses, g) => ResponsesOK(responses, h)
  BY DEF ResponsesOK, Grows
<1>5. \A w : WorldOK(w, g) => WorldOK(w, h)
  BY <1>1, <1>2 DEF WorldOK
<1>6. \A pg : PageOK(pg, g) => PageOK(pg, h)
  <2>1. \A p : Known(p, g) => Known(p, h)
    BY FactsStay
  <2> QED
    BY <1>1, <1>2, <1>3, <1>4, <2>1 DEF PageOK
<1>7. \A pg : PanelOK(pg, g) => PanelOK(pg, h)
  BY DEF PanelOK, ShownOK, Grows
<1>8. \A pg : SendingOK(pg, g) => SendingOK(pg, h)
  BY DEF SendingOK, Grows
<1> QED
  BY <1>1, <1>2, <1>5, <1>6, <1>7, <1>8

-----------------------------------------------------------------------------
(* The panel.                                                              *)

\* The selected publisher is in the list.
LEMMA SelectedIsKnown ==
  ASSUME NEW g \in Pasts, NEW pg, PageOK(pg, g), Has(pg)
  PROVE  /\ currentPublisher(pg) \in DOMAIN pg.publishers
         /\ currentPublisher(pg) \in Nat
         /\ Selected(pg) \in Publishers
         /\ Known(Selected(pg), g)
<1>1. pg.publishers \in Seq(Publishers) /\ pg.publishers # <<>>
  BY DEF PageOK, ListOK, Has
<1>2. 1 \in DOMAIN pg.publishers /\ DOMAIN pg.publishers \subseteq Nat
  BY <1>1
<1>3. currentPublisher(pg) \in DOMAIN pg.publishers
  BY <1>1, <1>2 DEF currentPublisher
<1>4. Known(Selected(pg), g)
  BY <1>3 DEF PageOK, ListOK, Selected
<1> QED
  BY <1>2, <1>3, <1>4 DEF Known

\* What is kept for a publisher is found under its id or its name.
LEMMA FoundIsKept ==
  ASSUME NEW p \in Publishers, NEW map, NEW absent
  PROVE  \/ Found(map, p, absent) = map[p.id]
         \/ p.name \in Names /\ Found(map, p, absent) = map[p.name]
BY DEF Found, Publishers

\* Two pages that differ in the panel, the form and the timer only.
SameBeside(q, pg) ==
  /\ q.publishers = pg.publishers /\ q.responses = pg.responses /\ q.local = pg.local
  /\ q.history = pg.history /\ q.stored = pg.stored /\ q.cache = pg.cache
  /\ q.config = pg.config /\ q.calls = pg.calls /\ q.deleting = pg.deleting

\* The panel is no part of what a page keeps.
LEMMA PanelIsApart ==
  ASSUME NEW g \in Pasts, NEW pg, PageOK(pg, g), NEW q \in Pages, SameBeside(q, pg),
         q.form = None \/ Known(q.form, g)
  PROVE  /\ PageOK(q, g)
         /\ SendingOK(pg, g) => SendingOK(q, g)
BY DEF PageOK, SendingOK, SameBeside

\* A rendered panel shows the response of the selected publisher.
LEMMA RenderShows ==
  ASSUME NEW g \in Pasts, NEW pg, PageOK(pg, g)
  PROVE  LET q == renderSelectedPublisher(pg)
         IN  /\ PageOK(q, g) /\ PanelOK(q, g) /\ ShownOK(q, g) /\ SameBeside(q, pg)
             /\ q.form = pg.form
             /\ Has(pg) => q.selected = currentPublisher(pg)
             /\ FormOK(pg) => FormOK(q)
             /\ SendingOK(pg, g) => SendingOK(q, g)
<1> DEFINE q == renderSelectedPublisher(pg)
           p == Selected(pg)
           r == Found(pg.responses, p, None)
<1>1. CASE ~ Has(pg)
  BY <1>1 DEF renderSelectedPublisher, PanelOK, ShownOK, SameBeside
<1>2. CASE Has(pg)
  <2>1. /\ currentPublisher(pg) \in DOMAIN pg.publishers /\ currentPublisher(pg) \in Nat
        /\ p \in Publishers /\ p.id \in Keys
    BY <1>2, SelectedIsKnown DEF Publishers, Keys
  <2>2. r = pg.responses[p.id] \/ (p.name \in Names /\ r = pg.responses[p.name])
    BY <2>1, FoundIsKept
  <2>3. r \in States \cup {None} /\ (r # None => r.of = p.id \/ <<r.of, p.name>> \in g.named)
    <3>1. ResponsesOK(pg.responses, g)
      BY DEF PageOK
    <3>2. \A k \in Keys : pg.responses[k] \in States \cup {None}
      BY <3>1 DEF ResponsesOK
    <3>3. CASE r = pg.responses[p.id]
      BY <3>1, <3>2, <3>3, <2>1 DEF ResponsesOK, Publishers
    <3>4. CASE p.name \in Names /\ r = pg.responses[p.name]
      BY <3>1, <3>2, <3>4 DEF ResponsesOK, Keys
    <3> QED
      BY <2>2, <3>3, <3>4
  <2>4. q = [pg EXCEPT !.selected = currentPublisher(pg), !.response = r]
    BY <1>2 DEF renderSelectedPublisher, getPublisherResponseState
  <2>5. /\ q \in Pages /\ SameBeside(q, pg) /\ q.selected = currentPublisher(pg)
        /\ q.response = r /\ q.form = pg.form
    BY <2>1, <2>3, <2>4 DEF PageOK, Pages, SameBeside
  <2>6. Selected(q) = p
    BY <2>1, <2>5, <1>2 DEF Selected, currentPublisher, SameBeside, Has
  <2>7. ShownOK(q, g) /\ PanelOK(q, g)
    BY <2>3, <2>5, <2>6 DEF PanelOK, ShownOK
  <2>8. FormOK(pg) => FormOK(q)
    BY <2>5 DEF FormOK, SameBeside, currentPublisher
  <2>9. q.form = None \/ Known(q.form, g)
    BY <2>5 DEF PageOK
  <2> HIDE DEF q
  <2> QED
    BY <1>2, <2>5, <2>7, <2>8, <2>9, PanelIsApart DEF q
<1> QED
  BY <1>1, <1>2

\* The form is rendered for the selected publisher.
LEMMA WithFormShows ==
  ASSUME NEW g \in Pasts, NEW pg, PageOK(pg, g), PanelOK(pg, g), ShownOK(pg, g),
         Has(pg) => pg.selected = currentPublisher(pg)
  PROVE  LET q == WithForm(pg)
         IN  /\ PageOK(q, g) /\ PanelOK(q, g) /\ ShownOK(q, g) /\ SameBeside(q, pg)
             /\ FormOK(q)
             /\ SendingOK(pg, g) => SendingOK(q, g)
<1> DEFINE q == WithForm(pg)
<1>1. CASE ~ Has(pg)
  BY <1>1 DEF WithForm, SameBeside, FormOK, Has
<1>2. CASE Has(pg)
  <2>1. /\ Selected(pg) \in Publishers /\ Known(Selected(pg), g)
        /\ currentPublisher(pg) \in DOMAIN pg.publishers
    BY <1>2, SelectedIsKnown
  <2>2. q = [pg EXCEPT !.form = Selected(pg)]
    BY <1>2 DEF WithForm
  <2>3. /\ q \in Pages /\ SameBeside(q, pg) /\ q.form = Selected(pg)
        /\ q.selected = pg.selected /\ q.response = pg.response
    BY <2>1, <2>2 DEF PageOK, Pages, SameBeside
  <2> HIDE DEF q
  <2>4. PageOK(q, g) /\ (SendingOK(pg, g) => SendingOK(q, g))
    BY <2>1, <2>3, PanelIsApart
  <2>5. PanelOK(q, g) /\ ShownOK(q, g)
    BY <2>3 DEF PanelOK, ShownOK, SameBeside, Has, Selected, currentPublisher
  <2>6. FormOK(q)
    BY <1>2, <2>1, <2>3 DEF FormOK, PageOK, ListOK, SameBeside, Selected
  <2> QED
    BY <2>3, <2>4, <2>5, <2>6 DEF q
<1> QED
  BY <1>1, <1>2

\* A page on which another publisher is selected.
LEMMA RestoreShows ==
  ASSUME NEW g \in Pasts, NEW pg, PageOK(pg, g), NEW i \in Nat
  PROVE  LET q == restorePublisherStateFromView(pg, i)
         IN  /\ PageOK(q, g) /\ PanelOK(q, g) /\ ShownOK(q, g) /\ SameBeside(q, pg)
             /\ FormOK(q)
             /\ SendingOK(pg, g) => SendingOK(q, g)
<1> DEFINE n == Len(pg.publishers)
           clamped == IF n = 0 THEN 0 ELSE IF i > n THEN n ELSE i
           r == [pg EXCEPT !.selected = clamped]
           shown == renderSelectedPublisher(r)
           q == WithForm(shown)
<1>1. n \in Nat /\ clamped \in Nat
  BY DEF PageOK, ListOK
<1>2. restorePublisherStateFromView(pg, i) = q
  BY DEF restorePublisherStateFromView
<1> HIDE DEF n, clamped
<1>3. r \in Pages /\ SameBeside(r, pg) /\ r.form = pg.form
  BY <1>1 DEF PageOK, Pages, SameBeside
<1>4. r.form = None \/ Known(r.form, g)
  BY <1>3 DEF PageOK
<1> HIDE DEF r
<1>5. PageOK(r, g) /\ (SendingOK(pg, g) => SendingOK(r, g))
  BY <1>3, <1>4, PanelIsApart
<1>6. /\ PageOK(shown, g) /\ PanelOK(shown, g) /\ ShownOK(shown, g) /\ SameBeside(shown, r)
      /\ Has(r) => shown.selected = currentPublisher(r)
      /\ SendingOK(r, g) => SendingOK(shown, g)
  BY <1>5, RenderShows
<1> HIDE DEF shown
<1>7. Has(shown) => shown.selected = currentPublisher(shown)
  BY <1>6 DEF SameBeside, Has, currentPublisher
<1>8. /\ PageOK(q, g) /\ PanelOK(q, g) /\ ShownOK(q, g) /\ SameBeside(q, shown)
      /\ FormOK(q)
      /\ SendingOK(shown, g) => SendingOK(q, g)
  BY <1>6, <1>7, WithFormShows
<1> HIDE DEF q
<1>9. SameBeside(q, pg)
  BY <1>3, <1>6, <1>8 DEF SameBeside
<1> QED
  BY <1>2, <1>5, <1>6, <1>8, <1>9

-----------------------------------------------------------------------------
(* What is kept for a publisher.                                           *)

\* A response of a publisher is kept for it, and for no other id.
LEMMA ResponseIsKept ==
  ASSUME NEW g \in Pasts, NEW pg, PageOK(pg, g), NEW p, Known(p, g),
         NEW r \in States, r.of = p.id
  PROVE  LET q == setPublisherResponseState(pg, p, r)
         IN  /\ PageOK(q, g)
             /\ q = [pg EXCEPT !.responses = q.responses]
             /\ p.id \in Ids /\ q.responses[p.id] = r
             /\ \A i \in Ids \ {p.id} : q.responses[i] = pg.responses[i]
<1> DEFINE q == setPublisherResponseState(pg, p, r)
           responses == [k \in Keys |-> IF k \in publisherStorageKeysFor(p) THEN r
                                        ELSE pg.responses[k]]
<1>1. p \in Publishers /\ p.id \in Ids /\ <<p.id, p.name>> \in g.named
  BY DEF Known, Publishers
<1>2. q = [pg EXCEPT !.responses = responses]
  BY DEF setPublisherResponseState
<1>3. ResponsesOK(pg.responses, g)
  BY DEF PageOK
<1>4. /\ p.id \in publisherStorageKeysFor(p)
      /\ \A i \in Ids \ {p.id} : i \notin publisherStorageKeysFor(p)
      /\ \A name \in Names : name \in publisherStorageKeysFor(p) => name = p.name
  BY <1>1, IdsAreNoNames DEF publisherStorageKeysFor
<1>5. /\ \A i \in Ids : responses[i] = IF i = p.id THEN r ELSE pg.responses[i]
      /\ \A name \in Names : responses[name] # pg.responses[name]
                               => responses[name] = r /\ name = p.name
  BY <1>4 DEF Keys
<1>6. responses \in [Keys -> States \cup {None}]
  BY <1>3 DEF ResponsesOK
<1> HIDE DEF responses
<1>7. ResponsesOK(responses, g)
  BY <1>1, <1>3, <1>5, <1>6 DEF ResponsesOK
<1>8. /\ q \in Pages /\ q.responses = responses /\ q.publishers = pg.publishers
      /\ q.history = pg.history /\ q.stored = pg.stored /\ q.cache = pg.cache
      /\ q.config = pg.config /\ q.calls = pg.calls /\ q.deleting = pg.deleting
      /\ q.form = pg.form
  BY <1>2, <1>6 DEF PageOK, Pages
<1>9. PageOK(q, g)
  BY <1>7, <1>8 DEF PageOK
<1> QED
  BY <1>1, <1>2, <1>5, <1>8, <1>9

\* A payload is kept for the panel.
LEMMA PayloadIsKept ==
  ASSUME NEW g \in Pasts, NEW pg, PageOK(pg, g), NEW p, NEW payload \in Payloads
  PROVE  LET q == setLocalPublisherState(pg, p, payload)
         IN  PageOK(q, g) /\ q = [pg EXCEPT !.local = q.local]
<1> DEFINE q == setLocalPublisherState(pg, p, payload)
           local == [k \in Keys |-> IF k \in publisherStorageKeysFor(p) THEN payload
                                    ELSE pg.local[k]]
<1>1. q = [pg EXCEPT !.local = local]
  BY DEF setLocalPublisherState
<1>2. local \in [Keys -> Payloads \cup {None}]
  BY DEF PageOK, Pages
<1> HIDE DEF local
<1>3. /\ q \in Pages /\ q.local = local /\ q.publishers = pg.publishers
      /\ q.responses = pg.responses
      /\ q.history = pg.history /\ q.stored = pg.stored /\ q.cache = pg.cache
      /\ q.config = pg.config /\ q.calls = pg.calls /\ q.deleting = pg.deleting
      /\ q.form = pg.form
  BY <1>1, <1>2 DEF PageOK, Pages
<1>4. PageOK(q, g)
  BY <1>3 DEF PageOK
<1> QED
  BY <1>1, <1>3, <1>4

-----------------------------------------------------------------------------
(* The list.                                                               *)

\* The sends under way are the same, whatever they hold.
SameCalls(q, pg) ==
  \A c \in Sends : /\ q.calls[c].phase = pg.calls[c].phase
                   /\ q.calls[c].n = pg.calls[c].n
                   /\ q.calls[c].phase = "waiting" => q.calls[c].pub.id = pg.calls[c].pub.id

\* Two pages that differ in the list and the sends only.
SameButList(q, pg) ==
  /\ q.selected = pg.selected /\ q.response = pg.response /\ q.responses = pg.responses
  /\ q.local = pg.local /\ q.history = pg.history /\ q.stored = pg.stored
  /\ q.cache = pg.cache /\ q.config = pg.config /\ q.timer = pg.timer
  /\ q.deleting = pg.deleting /\ q.form = pg.form

\* What is sent of the publisher is marked.
Marked(pg, id, g) ==
  \A c \in Sends : pg.calls[c].attached /\ pg.calls[c].pub.id = id =>
    pg.calls[c].n \in g.touched

\* The sends under way are the same, and so are the publishers of those of another
\* one.
SameCallsBut(q, pg, id) ==
  \A c \in Sends : /\ q.calls[c].phase = pg.calls[c].phase
                   /\ q.calls[c].n = pg.calls[c].n
                   /\ pg.calls[c].phase = "waiting" /\ pg.calls[c].pub.id # id
                        => q.calls[c].pub = pg.calls[c].pub

\* A publisher of the list is written over, by one with its id or with an id that is
\* not in the list.
LEMMA OverwriteIsKept ==
  ASSUME NEW g \in Pasts, NEW pg, PageOK(pg, g), NEW id, NEW p, Known(p, g),
         p.id = id \/ \A i \in DOMAIN pg.publishers : pg.publishers[i].id # p.id,
         Marked(pg, id, g), NEW q, q = Overwrite(pg, id, p)
  PROVE  /\ PageOK(q, g) /\ SameCallsBut(q, pg, id) /\ SameButList(q, pg)
         /\ p.id = id => SameCalls(q, pg)
         /\ DOMAIN q.publishers = DOMAIN pg.publishers
         /\ Has(pg) => Has(q) /\ currentPublisher(q) = currentPublisher(pg)
         /\ \A i \in DOMAIN pg.publishers :
              q.publishers[i] = IF pg.publishers[i].id = id THEN p ELSE pg.publishers[i]
<1> DEFINE list == [i \in DOMAIN pg.publishers |->
                      IF pg.publishers[i].id = id THEN p ELSE pg.publishers[i]]
           calls == [c \in Sends |->
                       IF pg.calls[c].attached /\ pg.calls[c].pub.id = id
                       THEN [pg.calls[c] EXCEPT !.pub = p] ELSE pg.calls[c]]
<1>1. q = [pg EXCEPT !.publishers = list, !.calls = calls]
  BY DEF Overwrite, PageOK, Pages
<1>2. /\ p \in Publishers /\ pg.publishers \in Seq(Publishers)
      /\ DOMAIN pg.publishers = 1 .. Len(pg.publishers) /\ Len(pg.publishers) \in Nat
      /\ \A i \in DOMAIN pg.publishers : Known(pg.publishers[i], g)
      /\ \A i, j \in DOMAIN pg.publishers :
           pg.publishers[i].id = pg.publishers[j].id => i = j
  BY DEF Known, PageOK, ListOK
<1>3. list \in Seq(Publishers) /\ DOMAIN list = DOMAIN pg.publishers
  BY <1>2
<1>4. \A i \in DOMAIN list : list[i] = IF pg.publishers[i].id = id THEN p ELSE pg.publishers[i]
  BY <1>3
<1> HIDE DEF list
<1>5. ListOK(list, g)
  <2>1. \A i \in DOMAIN list : Known(list[i], g)
    BY <1>2, <1>3, <1>4
  <2>2. ASSUME NEW i \in DOMAIN list, NEW j \in DOMAIN list, list[i].id = list[j].id
        PROVE  i = j
    <3>1. CASE pg.publishers[i].id = id /\ pg.publishers[j].id = id
      BY <3>1, <1>2, <1>3
    <3>2. CASE pg.publishers[i].id # id /\ pg.publishers[j].id # id
      BY <3>2, <2>2, <1>2, <1>3, <1>4
    <3>3. CASE pg.publishers[i].id = id /\ pg.publishers[j].id # id
      BY <3>3, <2>2, <1>3, <1>4
    <3>4. CASE pg.publishers[i].id # id /\ pg.publishers[j].id = id
      BY <3>4, <2>2, <1>3, <1>4
    <3> QED
      BY <3>1, <3>2, <3>3, <3>4
  <2> QED
    BY <1>3, <2>1, <2>2 DEF ListOK
<1>6. ASSUME NEW c \in Sends
      PROVE  /\ calls[c] \in CallTypes /\ CallOK(calls[c], list, g)
             /\ calls[c].phase = pg.calls[c].phase /\ calls[c].n = pg.calls[c].n
             /\ pg.calls[c].pub.id # id => calls[c].pub = pg.calls[c].pub
             /\ p.id = id /\ calls[c].phase = "waiting" => calls[c].pub.id = pg.calls[c].pub.id
  <2>1. CallOK(pg.calls[c], pg.publishers, g) /\ pg.calls[c] \in CallTypes
    BY DEF PageOK, CallOK
  <2>2. CASE pg.calls[c].attached /\ pg.calls[c].pub.id = id
    <3>1. calls[c] = [pg.calls[c] EXCEPT !.pub = p]
      BY <2>2
    <3>2. /\ calls[c] \in CallTypes /\ calls[c].pub = p /\ calls[c].n = pg.calls[c].n
          /\ calls[c].phase = pg.calls[c].phase /\ calls[c].attached = pg.calls[c].attached
      BY <3>1, <2>1, <1>2 DEF CallTypes
    <3> HIDE DEF calls
    <3>3. pg.calls[c].phase = "waiting" /\ \E i \in DOMAIN list : pg.publishers[i] = pg.calls[c].pub
      BY <2>1, <2>2, <1>3 DEF CallOK
    <3>4. IsOf(calls[c].n, p.payload, p.id, g)
      BY <2>1, <2>2, <3>2, <3>3 DEF CallOK, IsOf, Marked
    <3>5. \E i \in DOMAIN list : list[i] = p
      BY <2>2, <3>3, <1>4
    <3> QED
      BY <2>2, <3>2, <3>3, <3>4, <3>5 DEF CallOK
  <2>3. CASE ~ (pg.calls[c].attached /\ pg.calls[c].pub.id = id)
    <3>1. calls[c] = pg.calls[c]
      BY <2>3
    <3> HIDE DEF calls
    <3>2. pg.calls[c].attached => \E i \in DOMAIN list : list[i] = pg.calls[c].pub
      <4> HAVE pg.calls[c].attached
      <4>1. PICK i \in DOMAIN list : pg.publishers[i] = pg.calls[c].pub
        BY <2>1, <1>3 DEF CallOK
      <4>2. list[i] = pg.publishers[i]
        BY <4>1, <2>3, <1>4
      <4> QED
        BY <4>1, <4>2
    <3> QED
      BY <3>1, <3>2, <2>1 DEF CallOK
  <2> QED
    BY <2>2, <2>3
<1>7. calls \in [Sends -> CallTypes]
  BY <1>6
<1> HIDE DEF calls
<1>8. /\ q \in Pages /\ q.calls = calls /\ q.publishers = list
      /\ q.responses = pg.responses /\ q.selected = pg.selected
      /\ q.history = pg.history /\ q.stored = pg.stored /\ q.cache = pg.cache
      /\ q.config = pg.config /\ q.deleting = pg.deleting /\ q.form = pg.form
  BY <1>1, <1>3, <1>7 DEF PageOK, Pages
<1>9. SameButList(q, pg)
  BY <1>1 DEF PageOK, Pages, SameButList
<1>10. /\ PageOK(q, g) /\ SameCallsBut(q, pg, id)
       /\ p.id = id => SameCalls(q, pg)
  BY <1>5, <1>6, <1>8 DEF PageOK, SameCalls, SameCallsBut
<1>11. Has(pg) => Has(q) /\ currentPublisher(q) = currentPublisher(pg)
  <2> HAVE Has(pg)
  <2>1. 1 \in DOMAIN list
    BY <1>2, <1>3 DEF Has
  <2>2. list # <<>>
    BY <2>1
  <2> QED
    BY <2>2, <1>3, <1>8 DEF Has, currentPublisher
<1> QED
  BY <1>3, <1>4, <1>8, <1>10, <1>11, <1>9

\* A publisher of the list is changed in place.
LEMMA ChangeIsKept ==
  ASSUME NEW g \in Pasts, NEW pg, PageOK(pg, g), NEW p, Known(p, g),
         Marked(pg, p.id, g), NEW q, q = Change(pg, p)
  PROVE  /\ PageOK(q, g) /\ SameCalls(q, pg) /\ SameButList(q, pg)
         /\ FormOK(pg) => FormOK(q)
         /\ Has(pg) => Has(q) /\ currentPublisher(q) = currentPublisher(pg)
         /\ \A i \in DOMAIN pg.publishers : pg.publishers[i].id = p.id => q.publishers[i] = p
<1>1. q = Overwrite(pg, p.id, p)
  BY DEF Change
<1>2. /\ PageOK(q, g) /\ SameButList(q, pg) /\ SameCalls(q, pg)
      /\ DOMAIN q.publishers = DOMAIN pg.publishers
      /\ Has(pg) => Has(q) /\ currentPublisher(q) = currentPublisher(pg)
      /\ \A i \in DOMAIN pg.publishers :
           q.publishers[i] = IF pg.publishers[i].id = p.id THEN p ELSE pg.publishers[i]
  BY <1>1, OverwriteIsKept
<1>3. FormOK(pg) => FormOK(q)
  BY <1>2 DEF FormOK, SameButList
<1> QED
  BY <1>2, <1>3

\* The list is made of new objects, which no send holds.
LEMMA NormalizedIsKept ==
  ASSUME NEW g \in Pasts, NEW pg, PageOK(pg, g), NEW list, ListOK(list, g),
         NEW q, q = normalizePublishers(pg, list)
  PROVE  /\ PageOK(q, g) /\ SameCalls(q, pg) /\ SameButList(q, pg) /\ q.publishers = list
<1> DEFINE calls == [c \in Sends |-> [pg.calls[c] EXCEPT !.attached = FALSE]]
<1>1. q = [pg EXCEPT !.publishers = list, !.calls = calls]
  BY DEF normalizePublishers, PageOK, Pages
<1>2. ASSUME NEW c \in Sends
      PROVE  /\ calls[c] \in CallTypes /\ CallOK(calls[c], list, g)
             /\ calls[c].phase = pg.calls[c].phase /\ calls[c].n = pg.calls[c].n
             /\ calls[c].pub = pg.calls[c].pub
  <2>1. CallOK(pg.calls[c], pg.publishers, g) /\ pg.calls[c] \in CallTypes
    BY DEF PageOK, CallOK
  <2>2. calls[c] = [pg.calls[c] EXCEPT !.attached = FALSE]
    OBVIOUS
  <2> HIDE DEF calls
  <2>3. /\ calls[c] \in CallTypes /\ calls[c].phase = pg.calls[c].phase
        /\ calls[c].n = pg.calls[c].n /\ calls[c].pub = pg.calls[c].pub
        /\ calls[c].attached = FALSE
    BY <2>1, <2>2 DEF CallTypes
  <2> QED
    BY <2>1, <2>3 DEF CallOK
<1>3. calls \in [Sends -> CallTypes]
  BY <1>2
<1> HIDE DEF calls
<1>4. /\ q \in Pages /\ q.calls = calls /\ q.publishers = list
      /\ q.responses = pg.responses
      /\ q.history = pg.history /\ q.stored = pg.stored /\ q.cache = pg.cache
      /\ q.config = pg.config /\ q.deleting = pg.deleting /\ q.form = pg.form
  BY <1>1, <1>3 DEF PageOK, Pages, ListOK
<1>5. SameButList(q, pg)
  BY <1>1 DEF PageOK, Pages, SameButList
<1>6. PageOK(q, g) /\ SameCalls(q, pg)
  BY <1>2, <1>4 DEF PageOK, SameCalls
<1> QED
  BY <1>4, <1>6, <1>5

\* A publisher with a new id comes at the end of the list.
LEMMA AddedIsKept ==
  ASSUME NEW g \in Pasts, NEW h \in Pasts, Grows(g, h), NEW pg, PageOK(pg, g),
         NEW p, Known(p, h), p.id = g.nextId
  PROVE  LET q == Added(pg, p)
         IN  /\ PageOK(q, h)
             /\ q = [pg EXCEPT !.publishers = q.publishers]
             /\ FormOK(pg) => FormOK(q)
<1> DEFINE q == Added(pg, p)
           list == Append(pg.publishers, p)
           n == Len(pg.publishers)
<1>1. PageOK(pg, h)
  BY PageStays
<1>2. /\ p \in Publishers /\ pg.publishers \in Seq(Publishers)
      /\ DOMAIN pg.publishers = 1 .. n /\ n \in Nat
      /\ \A i \in 1 .. n : Known(pg.publishers[i], h) /\ pg.publishers[i].id < p.id
      /\ \A i, j \in 1 .. n :
           pg.publishers[i].id = pg.publishers[j].id => i = j
  <2>1. ListOK(pg.publishers, g) /\ ListOK(pg.publishers, h)
    BY <1>1 DEF PageOK
  <2>2. pg.publishers \in Seq(Publishers) /\ DOMAIN pg.publishers = 1 .. n /\ n \in Nat
    BY <2>1 DEF ListOK
  <2>3. \A i \in 1 .. n : Known(pg.publishers[i], h) /\ Known(pg.publishers[i], g)
    BY <2>1, <2>2 DEF ListOK
  <2>4. \A i \in 1 .. n : pg.publishers[i].id < p.id
    BY <2>3 DEF Known
  <2> QED
    BY <2>1, <2>2, <2>3, <2>4 DEF ListOK, Known
<1>3. /\ list \in Seq(Publishers) /\ DOMAIN list = 1 .. n + 1
      /\ \A i \in 1 .. n : list[i] = pg.publishers[i]
      /\ list[n + 1] = p
  BY <1>2
<1>4. \A i \in 1 .. n : list[i].id # p.id
  <2> SUFFICES ASSUME NEW i \in 1 .. n PROVE list[i].id # p.id
    OBVIOUS
  <2>1. pg.publishers[i].id \in Nat /\ p.id \in Nat /\ pg.publishers[i].id < p.id
    BY <1>2, IdsAreNoNames DEF Known, Publishers
  <2>2. list[i] = pg.publishers[i]
    BY <1>3
  <2> QED
    BY <2>1, <2>2
<1>5. \A i \in DOMAIN list : i \in 1 .. n \/ i = n + 1
  BY <1>2, <1>3
<1> HIDE DEF list
<1>6. ListOK(list, h)
  BY <1>2, <1>3, <1>4, <1>5 DEF ListOK
<1>7. ASSUME NEW c \in Sends PROVE CallOK(pg.calls[c], list, h)
  <2>1. CallOK(pg.calls[c], pg.publishers, h)
    BY <1>1 DEF PageOK
  <2>2. \A i \in DOMAIN pg.publishers : i \in DOMAIN list /\ list[i] = pg.publishers[i]
    BY <1>2, <1>3
  <2> QED
    BY <2>1, <2>2 DEF CallOK
<1>8. q = [pg EXCEPT !.publishers = list]
  BY DEF Added, list
<1>9. /\ q \in Pages /\ q.calls = pg.calls /\ q.publishers = list
      /\ q.responses = pg.responses
      /\ q.history = pg.history /\ q.stored = pg.stored /\ q.cache = pg.cache
      /\ q.config = pg.config /\ q.deleting = pg.deleting /\ q.form = pg.form
      /\ q.selected = pg.selected
  BY <1>3, <1>8, <1>1 DEF PageOK, Pages
<1>10. PageOK(q, h)
  BY <1>1, <1>6, <1>7, <1>9 DEF PageOK
<1>11. FormOK(pg) => FormOK(q)
  <2> SUFFICES ASSUME FormOK(pg), pg.form # None, NEW i \in DOMAIN list,
                      list[i].id = pg.form.id
               PROVE  i = pg.selected
    BY <1>9 DEF FormOK
  <2>1. Known(pg.form, g)
    BY DEF PageOK
  <2>2. pg.form.id \in Nat /\ p.id \in Nat /\ pg.form.id < p.id
    BY <2>1, <1>2, IdsAreNoNames DEF Known, Publishers
  <2>3. i # n + 1
    BY <2>2, <1>3
  <2>4. i \in DOMAIN pg.publishers /\ list[i] = pg.publishers[i]
    BY <2>3, <1>2, <1>3, <1>5
  <2> QED
    BY <2>4 DEF FormOK
<1> QED
  BY <1>8, <1>9, <1>10, <1>11

-----------------------------------------------------------------------------
(* Setting up the view.                                                    *)

\* Two pages that differ in the history and its copy only.
SameButHistory(q, pg) == q = [pg EXCEPT !.history = q.history, !.stored = q.stored]

\* A history and its copy in the browser are replaced by ones that are in order.
LEMMA HistoryIsKept ==
  ASSUME NEW g \in Pasts, NEW pg, PageOK(pg, g), NEW q, SameButHistory(q, pg),
         HistoryOK(q.history, g), HistoryOK(q.stored, g)
  PROVE  /\ PageOK(q, g)
         /\ q.responses = pg.responses /\ q.calls = pg.calls /\ q.cache = pg.cache
         /\ q.publishers = pg.publishers /\ q.deleting = pg.deleting
         /\ q.selected = pg.selected /\ q.response = pg.response /\ q.form = pg.form
<1>1. /\ q \in Pages
      /\ q.calls = pg.calls /\ q.publishers = pg.publishers
      /\ q.responses = pg.responses /\ q.cache = pg.cache
      /\ q.config = pg.config /\ q.deleting = pg.deleting /\ q.selected = pg.selected
      /\ q.response = pg.response /\ q.form = pg.form
  BY DEF PageOK, Pages, HistoryOK, SameButHistory
<1>2. PageOK(q, g)
  BY <1>1 DEF PageOK
<1> QED
  BY <1>1, <1>2

\* One of the three stores of the history is taken; the one in the browser keeps
\* what it has, unless it has nothing.
Takes(q, pg) ==
  /\ hasPublisherHistoryEntries(pg.cache) => q.history = pg.cache /\ q.stored = pg.stored
  /\ ~ hasPublisherHistoryEntries(pg.cache) =>
       IF hasPublisherHistoryEntries(pg.stored)
       THEN q.history = pg.stored /\ q.stored = pg.stored
       ELSE q.history = pg.config /\ q.stored = pg.config

\* That is what setting up the view does.
LEMMA HydratedIsKept ==
  ASSUME NEW g \in Pasts, NEW pg, PageOK(pg, g)
  PROVE  LET q == hydrateHistory(pg)
         IN  PageOK(q, g) /\ SameButHistory(q, pg) /\ Takes(q, pg)
<1> DEFINE q == hydrateHistory(pg)
<1>1. /\ HistoryOK(pg.history, g) /\ HistoryOK(pg.stored, g) /\ HistoryOK(pg.cache, g)
      /\ HistoryOK(pg.config, g) /\ pg \in Pages
  BY DEF PageOK
<1>2. Takes(q, pg) /\ q = [pg EXCEPT !.history = q.history, !.stored = q.stored]
  <2>1. CASE hasPublisherHistoryEntries(pg.cache)
    <3>1. q = [pg EXCEPT !.history = pg.cache, !.stored = pg.stored]
      BY <1>1, <2>1 DEF hydrateHistory, Pages
    <3>2. q.history = pg.cache /\ q.stored = pg.stored
      BY <3>1, <1>1 DEF Pages
    <3> HIDE DEF q
    <3> QED
      BY <2>1, <3>1, <3>2 DEF Takes
  <2>2. CASE ~ hasPublisherHistoryEntries(pg.cache) /\ hasPublisherHistoryEntries(pg.stored)
    <3>1. q = [pg EXCEPT !.history = pg.stored, !.stored = pg.stored]
      BY <1>1, <2>2 DEF hydrateHistory, Pages
    <3>2. q.history = pg.stored /\ q.stored = pg.stored
      BY <3>1, <1>1 DEF Pages
    <3> HIDE DEF q
    <3> QED
      BY <2>2, <3>1, <3>2 DEF Takes
  <2>3. CASE ~ hasPublisherHistoryEntries(pg.cache) /\ ~ hasPublisherHistoryEntries(pg.stored)
    <3>1. q = [pg EXCEPT !.history = pg.config, !.stored = pg.config]
      BY <1>1, <2>3 DEF hydrateHistory, persistHistory, Pages
    <3>2. q.history = pg.config /\ q.stored = pg.config
      BY <3>1, <1>1 DEF Pages
    <3> HIDE DEF q
    <3> QED
      BY <2>3, <3>1, <3>2 DEF Takes
  <2> QED
    BY <2>1, <2>2, <2>3
<1> HIDE DEF q
<1>3. SameButHistory(q, pg) /\ HistoryOK(q.history, g) /\ HistoryOK(q.stored, g)
  BY <1>1, <1>2 DEF SameButHistory, Takes
<1>4. PageOK(q, g)
  BY <1>3, HistoryIsKept
<1> QED
  BY <1>2, <1>3, <1>4 DEF q

\* The view is set up: nothing is shown as sending, and the panel is rendered.
LEMMA InitPublishersIsKept ==
  ASSUME NEW g \in Pasts, NEW pg, PageOK(pg, g)
  PROVE  LET q == initPublishers(pg)
         IN  /\ PageOK(q, g) /\ PanelOK(q, g) /\ FormOK(q) /\ SendingOK(q, g)
             /\ Takes(q, pg)
<1> DEFINE p0 == [pg EXCEPT !.responses = Nothing]
           p1 == hydrateHistory(p0)
           p2 == normalizePublishers(p1, pg.publishers)
           q  == restorePublisherStateFromView(p2, pg.selected)
<1>1. initPublishers(pg) = q
  BY DEF initPublishers
<1>2. ListOK(pg.publishers, g) /\ pg.selected \in Nat
  BY DEF PageOK, Pages
<1>3. /\ PageOK(p0, g) /\ p0.responses = Nothing
      /\ p0.cache = pg.cache /\ p0.stored = pg.stored /\ p0.config = pg.config
  <2>1. ResponsesOK(Nothing, g)
    BY DEF ResponsesOK, Nothing, Keys
  <2>2. /\ p0 \in Pages /\ p0.responses = Nothing
        /\ p0.calls = pg.calls /\ p0.publishers = pg.publishers
        /\ p0.history = pg.history /\ p0.stored = pg.stored /\ p0.cache = pg.cache
        /\ p0.config = pg.config /\ p0.deleting = pg.deleting /\ p0.form = pg.form
    BY <2>1 DEF PageOK, Pages, ResponsesOK
  <2> HIDE DEF p0
  <2> QED
    BY <2>1, <2>2 DEF PageOK
<1> HIDE DEF p0
<1>4. PageOK(p1, g) /\ SameButHistory(p1, p0) /\ Takes(p1, p0)
  BY <1>3, HydratedIsKept
<1>5. p1.responses = Nothing
  BY <1>3, <1>4 DEF PageOK, Pages, SameButHistory
<1> HIDE DEF p1
<1>6. p2 = normalizePublishers(p1, pg.publishers)
  OBVIOUS
<1> HIDE DEF p2
<1>7. PageOK(p2, g) /\ SameButList(p2, p1)
  BY <1>2, <1>4, <1>6, NormalizedIsKept
<1>8. SendingOK(p2, g) /\ p2.history = p1.history /\ p2.stored = p1.stored
  BY <1>5, <1>7 DEF SendingOK, Nothing, Keys, SameButList
<1>9. /\ PageOK(q, g) /\ PanelOK(q, g) /\ FormOK(q) /\ SameBeside(q, p2)
      /\ SendingOK(q, g)
  BY <1>2, <1>7, <1>8, RestoreShows
<1> HIDE DEF q
<1> QED
  BY <1>1, <1>3, <1>4, <1>8, <1>9 DEF SameBeside, Takes

\* A page that is loaded has one of the stored histories, and nothing under way.
LEMMA LoadedIsKept ==
  ASSUME NEW g \in Pasts, WorldOK(world, g), NEW local \in [Keys -> Payloads \cup {None}],
         NEW stored, HistoryOK(stored, g), NEW selected \in Nat
  PROVE  LET q == Loaded(local, stored, selected)
         IN  /\ PageOK(q, g) /\ PanelOK(q, g) /\ FormOK(q) /\ SendingOK(q, g)
             /\ q.history = IF hasPublisherHistoryEntries(stored) THEN stored
                            ELSE world.history
             /\ q.stored = q.history
<1> DEFINE calls == [c \in Sends |-> Free]
           p0 == [publishers |-> world.publishers, selected |-> selected, response |-> None,
                  responses |-> Nothing, local |-> local, history |-> stored,
                  stored |-> stored, cache |-> stored, config |-> world.history,
                  timer |-> FALSE, calls |-> calls, deleting |-> None, form |-> None]
<1>1. ListOK(world.publishers, g) /\ HistoryOK(world.history, g)
  BY DEF WorldOK
<1>2. ResponsesOK(Nothing, g)
  BY DEF ResponsesOK, Nothing, Keys
<1>3. /\ calls \in [Sends -> CallTypes]
      /\ \A c \in Sends : CallOK(calls[c], world.publishers, g)
  BY BoundsAreNumbers DEF Free, CallTypes, CallOK
<1> HIDE DEF calls
<1>4. p0 \in Pages
  BY <1>1, <1>2, <1>3 DEF Pages, ListOK, HistoryOK, ResponsesOK
<1>5. PageOK(p0, g)
  BY <1>1, <1>2, <1>3, <1>4 DEF PageOK
<1>6. p0.cache = stored /\ p0.stored = stored /\ p0.config = world.history
  OBVIOUS
<1>7. Loaded(local, stored, selected) = initPublishers(p0)
  BY DEF Loaded, calls
<1> HIDE DEF p0
<1> QED
  BY <1>5, <1>6, <1>7, InitPublishersIsKept DEF Takes

-----------------------------------------------------------------------------
(* Sends, and what is shown of earlier ones.                               *)

\* Nothing begins to show "Sending", and no send ends.
LEMMA SendingStays ==
  ASSUME NEW g \in Pasts, NEW pg, SendingOK(pg, g), NEW q, SameCalls(q, pg),
         \A i \in Ids : \/ q.responses[i] = pg.responses[i]
                        \/ q.responses[i] = None
                        \/ q.responses[i].is # "sending"
  PROVE  SendingOK(q, g)
<1> SUFFICES ASSUME NEW i \in Ids \ g.replaced, q.responses[i] # None, q.responses[i].is = "sending"
             PROVE  \E c \in Sends : /\ q.calls[c].phase = "waiting"
                                     /\ q.calls[c].n = q.responses[i].n
                                     /\ q.calls[c].pub.id = i
  BY DEF SendingOK
<1>1. q.responses[i] = pg.responses[i]
  OBVIOUS
<1>2. PICK c \in Sends : /\ pg.calls[c].phase = "waiting"
                         /\ pg.calls[c].n = pg.responses[i].n
                         /\ pg.calls[c].pub.id = i
  BY <1>1 DEF SendingOK
<1> QED
  BY <1>1, <1>2 DEF SameCalls

\* The entries of a publisher.
LEMMA EntriesAreTyped ==
  ASSUME NEW g \in Pasts, NEW pg, PageOK(pg, g), NEW p \in Publishers,
         NEW i \in DOMAIN currentHistoryEntries(pg, p)
  PROVE  currentHistoryEntries(pg, p)[i] \in Entries
<1>1. \A k \in Keys : pg.history[k] \in Seq(Entries)
  BY DEF PageOK, HistoryOK, Histories
<1>2. p.id \in Keys /\ (p.name \in Names => p.name \in Keys)
  BY DEF Publishers, Keys
<1>3. currentHistoryEntries(pg, p) \in Seq(Entries)
  BY <1>1, <1>2, FoundIsKept DEF currentHistoryEntries
<1> QED
  BY <1>3

\* The payload of an entry becomes that of the publisher, and what the publisher
\* was sent with before is touched.
LEMMA ShownIsKept ==
  ASSUME NEW g \in Pasts, NEW pg, PageOK(pg, g), Has(pg),
         NEW i \in DOMAIN currentHistoryEntries(pg, Selected(pg)),
         Marked(pg, Selected(pg).id, g)
  PROVE  LET q == Shown(pg, i)
         IN  /\ PageOK(q, g) /\ PanelOK(q, g) /\ Has(q) /\ SameCalls(q, pg)
             /\ q.history = pg.history /\ q.stored = pg.stored /\ q.cache = pg.cache
             /\ FormOK(pg) => FormOK(q)
             /\ SendingOK(pg, g) => SendingOK(q, g)
<1> DEFINE entry == currentHistoryEntries(pg, Selected(pg))[i]
           p  == [Selected(pg) EXCEPT !.payload = entry.payload]
           p1 == Change(pg, p)
           p2 == setLocalPublisherState(p1, p, entry.payload)
           r  == buildHistoryResponseState(p, entry)
           p3 == setPublisherResponseState(p2, p, r)
           q  == renderSelectedPublisher(p3)
<1>1. Selected(pg) \in Publishers /\ Known(Selected(pg), g)
  BY SelectedIsKnown
<1>2. entry \in Entries
  BY <1>1, EntriesAreTyped
<1> HIDE DEF entry
<1>3. entry.payload \in Payloads /\ entry.n \in 0 .. MaxSends
  BY <1>2 DEF Entries
<1>4. Known(p, g) /\ p.id = Selected(pg).id
  BY <1>1, <1>3 DEF Known, Publishers
<1>5. r \in States /\ r.of = p.id /\ r.is = "history"
  BY <1>3, <1>4 DEF buildHistoryResponseState, Response, States, Known, Publishers
<1>6. Shown(pg, i) = q
  BY DEF Shown, entry
<1> HIDE DEF p, r
<1>7. /\ PageOK(p1, g) /\ SameCalls(p1, pg) /\ SameButList(p1, pg) /\ Has(p1)
      /\ FormOK(pg) => FormOK(p1)
  <2>1. Marked(pg, p.id, g)
    BY <1>4
  <2>2. p1 = Change(pg, p)
    OBVIOUS
  <2> HIDE DEF p1
  <2> QED
    BY <1>4, <2>1, <2>2, ChangeIsKept
<1>8. /\ p1.responses = pg.responses /\ p1.history = pg.history /\ p1.stored = pg.stored
      /\ p1.cache = pg.cache
  BY <1>7 DEF SameButList
<1> HIDE DEF p1
<1>9. PageOK(p2, g) /\ p2 = [p1 EXCEPT !.local = p2.local]
  BY <1>3, <1>7, PayloadIsKept
<1>10. /\ p2.responses = pg.responses /\ p2.history = pg.history /\ p2.stored = pg.stored
       /\ p2.cache = pg.cache /\ p2.calls = p1.calls /\ p2.publishers = p1.publishers
       /\ p2.form = p1.form /\ p2.selected = p1.selected
  BY <1>7, <1>8, <1>9 DEF PageOK, Pages
<1> HIDE DEF p2
<1>11. /\ PageOK(p3, g) /\ p3 = [p2 EXCEPT !.responses = p3.responses]
       /\ p3.responses[p.id] = r
       /\ \A j \in Ids \ {p.id} : p3.responses[j] = p2.responses[j]
  BY <1>4, <1>5, <1>9, ResponseIsKept
<1>12. /\ p3.history = pg.history /\ p3.stored = pg.stored
       /\ p3.cache = pg.cache /\ p3.calls = p1.calls /\ p3.publishers = p1.publishers
       /\ p3.form = p1.form /\ p3.selected = p1.selected
  BY <1>9, <1>10, <1>11 DEF PageOK, Pages
<1> HIDE DEF p3
<1>13. /\ PageOK(q, g) /\ PanelOK(q, g) /\ SameBeside(q, p3)
       /\ FormOK(p3) => FormOK(q)
  BY <1>11, RenderShows, Zenon
<1> HIDE DEF q
<1>14. /\ Has(q) /\ SameCalls(q, pg)
       /\ q.history = pg.history /\ q.stored = pg.stored /\ q.cache = pg.cache
  BY <1>7, <1>12, <1>13 DEF SameBeside, SameCalls, Has
<1>15. SendingOK(pg, g) => SendingOK(q, g)
  <2> HAVE SendingOK(pg, g)
  <2>1. \A j \in Ids : q.responses[j] = pg.responses[j] \/ q.responses[j].is # "sending"
    BY <1>5, <1>10, <1>11, <1>13 DEF SameBeside
  <2> QED
    BY <2>1, <1>14, SendingStays
<1>16. FormOK(pg) => FormOK(q)
  BY <1>7, <1>12, <1>13 DEF FormOK
<1> QED
  BY <1>6, <1>13, <1>14, <1>15, <1>16

\* A send begins, with a new number and the publisher of the panel.
LEMMA SendBegins ==
  ASSUME NEW g \in Pasts, NEW h \in Pasts, Grows(g, h), NEW pg, PageOK(pg, g), Has(pg),
         NEW c \in Sends, pg.calls[c] = Free,
         g.nextSend = nextSend, nextSend <= MaxSends, h.nextSend = nextSend + 1,
         h.sent[nextSend] = [of |-> Selected(pg).id, payload |-> Selected(pg).payload]
  PROVE  LET q == Sending(pg, c)
         IN  /\ PageOK(q, h) /\ PanelOK(q, h)
             /\ q.history = pg.history /\ q.stored = pg.stored /\ q.cache = pg.cache
             /\ FormOK(pg) => FormOK(q)
             /\ SendingOK(pg, g) => SendingOK(q, h)
<1> DEFINE n  == nextSend
           p  == Selected(pg)
           r  == Response(p, n, "sending")
           p1 == setPublisherResponseState(pg, p, r)
           call == [phase |-> "waiting", pub |-> p, n |-> n, attached |-> TRUE]
           calls == [pg.calls EXCEPT ![c] = call]
           q  == Sending(pg, c)
<1>1. PageOK(pg, h)
  BY PageStays
<1>2. p \in Publishers /\ Known(p, h) /\ currentPublisher(pg) \in DOMAIN pg.publishers
  BY <1>1, SelectedIsKnown
<1>3. n \in 1 .. MaxSends /\ n \in 0 .. MaxSends /\ n \in 1 .. h.nextSend - 1
  BY BoundsAreNumbers DEF Pasts
<1>4. r \in States /\ r.of = p.id /\ r.n = n /\ r.is = "sending"
  BY <1>2, <1>3 DEF Response, States, Publishers
<1>5. ListOK(pg.publishers, h) /\ pg.publishers[currentPublisher(pg)] = p
  BY <1>1 DEF PageOK, Selected
<1>6. CallOK(call, pg.publishers, h) /\ call \in CallTypes
  <2>1. call \in CallTypes
    BY <1>2, <1>3 DEF CallTypes
  <2>2. IsOf(n, p.payload, p.id, h)
    BY <1>3 DEF IsOf
  <2>3. \E i \in DOMAIN pg.publishers : pg.publishers[i] = p
    BY <1>2, <1>5
  <2> QED
    BY <2>1, <2>2, <2>3, <1>2 DEF CallOK
<1> HIDE DEF r, p, n
<1>7. /\ PageOK(p1, h) /\ p1 = [pg EXCEPT !.responses = p1.responses] /\ p1.responses[p.id] = r
      /\ p.id \in Ids
      /\ \A i \in Ids \ {p.id} : p1.responses[i] = pg.responses[i]
  BY <1>1, <1>2, <1>4, ResponseIsKept
<1>8. q = [p1 EXCEPT !.response = r, !.calls[c] = call]
  BY DEF Sending, setPublisherResponsePending, p, n, r
<1> HIDE DEF p1, call
<1>9. /\ p1.history = pg.history /\ p1.stored = pg.stored /\ p1.cache = pg.cache
      /\ p1.publishers = pg.publishers /\ p1.calls = pg.calls
      /\ p1.selected = pg.selected /\ p1.form = pg.form
  BY <1>1, <1>7 DEF PageOK, Pages
<1>10. calls \in [Sends -> CallTypes] /\ q = [p1 EXCEPT !.response = r, !.calls = calls]
  BY <1>1, <1>6, <1>7, <1>8, <1>9 DEF PageOK, Pages
<1>11. \A d \in Sends : calls[d] = IF d = c THEN call ELSE pg.calls[d]
  BY <1>1 DEF PageOK, Pages
<1> HIDE DEF calls, q
<1>12. /\ q \in Pages /\ q.response = r /\ q.calls = calls
       /\ q.responses = p1.responses /\ q.publishers = pg.publishers
       /\ q.history = pg.history /\ q.stored = pg.stored /\ q.cache = pg.cache
       /\ q.config = p1.config /\ q.deleting = p1.deleting /\ q.selected = pg.selected
       /\ q.form = p1.form
  BY <1>4, <1>7, <1>9, <1>10 DEF PageOK, Pages
<1>13. PageOK(q, h)
  BY <1>6, <1>7, <1>9, <1>11, <1>12 DEF PageOK
<1>14. PanelOK(q, h)
  <2>1. Selected(q) = p
    BY <1>12 DEF Selected, currentPublisher, p
  <2> QED
    BY <2>1, <1>4, <1>12 DEF PanelOK, ShownOK
<1>15. SendingOK(pg, g) => SendingOK(q, h)
  <2> SUFFICES ASSUME SendingOK(pg, h), NEW i \in Ids \ h.replaced, q.responses[i] # None,
                      q.responses[i].is = "sending"
               PROVE  \E d \in Sends : /\ q.calls[d].phase = "waiting"
                                       /\ q.calls[d].n = q.responses[i].n
                                       /\ q.calls[d].pub.id = i
    BY PageStays DEF SendingOK
  <2>1. CASE i = p.id
    <3>1. calls[c] = call /\ call.phase = "waiting" /\ call.n = n /\ call.pub = p
      BY <1>11 DEF call
    <3> QED
      BY <2>1, <3>1, <1>4, <1>7, <1>12
  <2>2. CASE i # p.id
    <3>1. q.responses[i] = pg.responses[i]
      BY <2>2, <1>7, <1>12
    <3>2. PICK d \in Sends : /\ pg.calls[d].phase = "waiting"
                             /\ pg.calls[d].n = pg.responses[i].n
                             /\ pg.calls[d].pub.id = i
      BY <3>1 DEF SendingOK
    <3>3. d # c
      BY <3>2 DEF Free
    <3> QED
      BY <3>1, <3>2, <3>3, <1>11, <1>12
  <2> QED
    BY <2>1, <2>2
<1>16. FormOK(pg) => FormOK(q)
  BY <1>9, <1>12 DEF FormOK
<1> QED
  BY <1>12, <1>13, <1>14, <1>15, <1>16 DEF q

-----------------------------------------------------------------------------
(* The steps.                                                              *)

\* What a step has to keep.
LEMMA StepKeeps ==
  ASSUME Past' \in Pasts, events' \in 0 .. MaxEvents,
         PageOK(page', Past'), WorldOK(world', Past'), PanelOK(page', Past'),
         FormOK(page'), SendingOK(page', Past'), FiledOK(filed', rolled', page')
  PROVE  IInv'
BY DEF IInv

\* What a failure or an act of the user costs.
LEMMA EventCounts == IInv /\ Event => events' \in 0 .. MaxEvents
BY BoundsAreNumbers DEF IInv, Event

\* A step in which nothing is sent, answered or stored.
LEMMA QuietKeeps ==
  ASSUME IInv, Past' \in Pasts, Grows(Past, Past'), world' = world,
         filed' = filed, rolled' = rolled,
         events' \in 0 .. MaxEvents, PageOK(page', Past'), PanelOK(page', Past'), FormOK(page'),
         SameCalls(page', page), page'.history = page.history,
         page'.stored = page.stored, page'.cache = page.cache,
         \A i \in Ids : \/ page'.responses[i] = page.responses[i]
                        \/ page'.responses[i] = None
                        \/ page'.responses[i].is # "sending"
  PROVE  IInv'
<1>1. WorldOK(world', Past')
  BY PageStays DEF IInv
<1>2. SendingOK(page', Past')
  <2>1. SendingOK(page, Past')
    BY PageStays DEF IInv
  <2> QED
    BY <2>1, SendingStays
<1>3. FiledOK(filed', rolled', page')
  BY DEF IInv, FiledOK
<1> QED
  BY <1>1, <1>2, <1>3, StepKeeps

\* Nothing that was said is different.
LEMMA PastStays ==
  ASSUME IInv, UNCHANGED <<nextId, nextSend, sent, touched, replaced, named>>
  PROVE  Past' = Past /\ Past \in Pasts /\ Past' \in Pasts /\ Grows(Past, Past')
<1>1. Past' = Past /\ Past \in Pasts
  BY DEF IInv, Past
<1>2. Past.nextId \in Nat /\ Past.nextSend \in Nat
  BY <1>1, BoundsAreNumbers DEF Pasts
<1> QED
  BY <1>1, <1>2 DEF Grows

\* A new publisher has the next id.
LEMMA PastOfNew ==
  ASSUME IInv, Fresh, NEW p \in Publishers, p.id = nextId, New(p)
  PROVE  Past' \in Pasts /\ Grows(Past, Past') /\ Known(p, Past') /\ p.id = Past.nextId
<1>1. /\ Past \in Pasts /\ Past.nextId = nextId /\ Past.nextSend = nextSend /\ Past.sent = sent
      /\ Past.touched = touched /\ Past.replaced = replaced /\ Past.named = named
      /\ Past'.nextId = nextId + 1 /\ Past'.nextSend = nextSend /\ Past'.sent = sent
      /\ Past'.touched = touched /\ Past'.replaced = replaced
      /\ Past'.named = named \cup {<<p.id, p.name>>}
  BY DEF IInv, Past, Fresh, New, Renamed
<1>2. nextId \in Nat /\ nextSend \in Nat /\ nextId \in 1 .. MaxId /\ nextId + 1 \in 1 .. MaxId + 1
  BY <1>1, BoundsAreNumbers DEF Pasts, Fresh
<1>3. p.id \in Ids /\ p.name \in Labels
  BY DEF Publishers, Labels
<1>4. Past' \in Pasts
  <2>1. Past' = [nextId |-> nextId + 1, nextSend |-> nextSend, sent |-> sent,
                 touched |-> touched, replaced |-> replaced,
                 named |-> named \cup {<<p.id, p.name>>}]
    BY DEF Past, Fresh, New, Renamed
  <2> QED
    BY <2>1, <1>1, <1>2, <1>3 DEF Pasts
<1>5. Grows(Past, Past')
  BY <1>1, <1>2 DEF Grows
<1>6. Known(p, Past')
  BY <1>1, <1>2 DEF Known
<1> QED
  BY <1>1, <1>4, <1>5, <1>6

\* What is sent of a publisher that is edited is marked.
TouchedBy(p) == {page.calls[c].n : c \in {d \in Sends : page.calls[d].attached
                                                        /\ page.calls[d].pub.id = p.id}}
LEMMA TouchedWereSent ==
  ASSUME IInv, NEW p
  PROVE  /\ TouchedBy(p) \subseteq 1 .. MaxSends
         /\ Touches(p) => touched' = touched \cup TouchedBy(p)
<1>1. ASSUME NEW c \in Sends, page.calls[c].attached PROVE page.calls[c].n \in 1 .. MaxSends
  <2>1. CallOK(page.calls[c], page.publishers, Past) /\ Past \in Pasts
    BY DEF IInv, PageOK
  <2>2. page.calls[c].n \in 1 .. Past.nextSend - 1 /\ Past.nextSend \in 1 .. MaxSends + 1
    BY <1>1, <2>1 DEF CallOK, IsOf, Pasts
  <2> QED
    BY <2>2, BoundsAreNumbers
<1> QED
  BY <1>1 DEF TouchedBy, Touches

\* A publisher is edited.
LEMMA PastOfTouched ==
  ASSUME IInv, NEW p, Touches(p), UNCHANGED <<nextId, nextSend, sent, replaced, named>>
  PROVE  /\ Past' \in Pasts /\ Grows(Past, Past')
         /\ Marked(page, p.id, Past')
<1>1. /\ Past \in Pasts /\ Past.nextId = nextId /\ Past.nextSend = nextSend /\ Past.sent = sent
      /\ Past.touched = touched /\ Past.replaced = replaced /\ Past.named = named
      /\ Past'.nextId = nextId /\ Past'.nextSend = nextSend /\ Past'.sent = sent
      /\ Past'.touched = touched \cup TouchedBy(p) /\ Past'.replaced = replaced
      /\ Past'.named = named
  BY TouchedWereSent DEF IInv, Past
<1>2. nextId \in Nat /\ nextSend \in Nat
  BY <1>1, BoundsAreNumbers DEF Pasts
<1>3. Past' \in Pasts
  <2>1. Past' = [nextId |-> nextId, nextSend |-> nextSend, sent |-> sent,
                 touched |-> touched \cup TouchedBy(p), replaced |-> replaced,
                 named |-> named]
    BY TouchedWereSent DEF Past
  <2> QED
    BY <2>1, <1>1, TouchedWereSent DEF Pasts
<1>4. Grows(Past, Past')
  BY <1>1, <1>2 DEF Grows
<1>5. Marked(page, p.id, Past')
  BY <1>1 DEF TouchedBy, Marked
<1> QED
  BY <1>3, <1>4, <1>5

\* The form is written over a publisher.
LEMMA PastOfForm ==
  ASSUME IInv, NEW old, old.id \in Ids, Touches(old),
         NEW p \in Publishers, p.id < nextId, Renamed(p),
         replaced' = IF p.id = old.id THEN replaced ELSE replaced \cup {old.id},
         UNCHANGED <<nextId, nextSend, sent>>
  PROVE  /\ Past' \in Pasts /\ Grows(Past, Past') /\ Known(p, Past')
         /\ Marked(page, old.id, Past')
         /\ p.id # old.id => old.id \in Past'.replaced
<1>1. /\ Past \in Pasts /\ Past.nextId = nextId /\ Past.nextSend = nextSend /\ Past.sent = sent
      /\ Past.touched = touched /\ Past.replaced = replaced /\ Past.named = named
      /\ Past'.nextId = nextId /\ Past'.nextSend = nextSend /\ Past'.sent = sent
      /\ Past'.touched = touched \cup TouchedBy(old) /\ Past'.replaced = replaced'
      /\ Past'.named = named \cup {<<p.id, p.name>>}
  BY TouchedWereSent DEF IInv, Past, Renamed
<1>2. nextId \in Nat /\ nextSend \in Nat
  BY <1>1, BoundsAreNumbers DEF Pasts
<1>3. p.id \in Ids /\ p.name \in Labels
  BY DEF Publishers, Labels
<1>4. Past' \in Pasts
  <2>1. Past' = [nextId |-> nextId, nextSend |-> nextSend, sent |-> sent,
                 touched |-> touched \cup TouchedBy(old), replaced |-> replaced',
                 named |-> named \cup {<<p.id, p.name>>}]
    BY TouchedWereSent DEF Past, Renamed
  <2>2. replaced' \subseteq Ids /\ TouchedBy(old) \subseteq 1 .. MaxSends
    BY <1>1, TouchedWereSent DEF Pasts
  <2> QED
    BY <2>1, <2>2, <1>1, <1>3 DEF Pasts
<1>5. Grows(Past, Past')
  BY <1>1, <1>2 DEF Grows
<1>6. Known(p, Past')
  BY <1>1 DEF Known
<1>7. Marked(page, old.id, Past')
  BY <1>1 DEF TouchedBy, Marked
<1> QED
  BY <1>1, <1>4, <1>5, <1>6, <1>7

-----------------------------------------------------------------------------
(* The list and the selected publisher.                                    *)

\* A new publisher at the end of the list, before the panel is rendered.
LEMMA NewIsKept ==
  ASSUME IInv, Event, Fresh, NEW p \in Publishers, p.id = nextId, New(p),
         NEW q, q = Added(page, p)
  PROVE  /\ Past' \in Pasts /\ Grows(Past, Past') /\ Known(p, Past')
         /\ world' = world /\ filed' = filed /\ rolled' = rolled /\ events' \in 0 .. MaxEvents
         /\ PageOK(q, Past') /\ FormOK(q)
         /\ q.calls = page.calls /\ q.responses = page.responses
         /\ q.history = page.history /\ q.stored = page.stored /\ q.cache = page.cache
<1>1. Past' \in Pasts /\ Grows(Past, Past') /\ Known(p, Past') /\ p.id = Past.nextId
  BY PastOfNew
<1>2. PageOK(page, Past) /\ FormOK(page) /\ Past \in Pasts
  BY DEF IInv
<1>3. PageOK(Added(page, p), Past') /\ FormOK(Added(page, p))
  BY <1>1, <1>2, AddedIsKept
<1>4. /\ q.calls = page.calls /\ q.responses = page.responses
      /\ q.history = page.history /\ q.stored = page.stored /\ q.cache = page.cache
  BY <1>2 DEF Added, PageOK, Pages
<1>5. world' = world /\ filed' = filed /\ rolled' = rolled /\ events' \in 0 .. MaxEvents
  BY EventCounts DEF New
<1> QED
  BY <1>1, <1>3, <1>4, <1>5

\* A step that leaves a page as the new publisher does, but for the panel.
LEMMA RenderedNewKeeps ==
  ASSUME IInv, Past' \in Pasts, Grows(Past, Past'), world' = world,
         filed' = filed, rolled' = rolled,
         events' \in 0 .. MaxEvents, PageOK(page', Past'), PanelOK(page', Past'), FormOK(page'),
         NEW q, SameBeside(page', q), q.calls = page.calls, q.responses = page.responses,
         q.history = page.history, q.stored = page.stored, q.cache = page.cache
  PROVE  IInv'
<1>1. /\ SameCalls(page', page) /\ page'.responses = page.responses
      /\ page'.history = page.history /\ page'.stored = page.stored
      /\ page'.cache = page.cache
  BY DEF SameBeside, SameCalls
<1> QED
  BY <1>1, QuietKeeps

\* An empty publisher is added and selected.
LEMMA AddKeeps == ASSUME IInv, addPublisherAction PROVE IInv'
<1> DEFINE p == [id |-> nextId, name |-> None, payload |-> 0]
           q == Added(page, p)
           n == Len(page.publishers) + 1
<1>1. /\ Event /\ Fresh /\ New(p) /\ page' = restorePublisherStateFromView(q, n)
  BY DEF addPublisherAction
<1>2. Past \in Pasts /\ Past.nextId = nextId /\ page.publishers \in Seq(Publishers)
  BY DEF IInv, Past, PageOK, ListOK
<1>3. p \in Publishers /\ p.id = nextId
  <2>1. nextId \in Ids
    BY <1>1, <1>2, BoundsAreNumbers DEF Fresh, Ids, Pasts
  <2> QED
    BY <2>1 DEF Publishers, Payloads
<1> HIDE DEF p
<1>4. q = Added(page, p) /\ n \in Nat
  BY <1>2
<1> HIDE DEF q, n
<1>5. /\ Past' \in Pasts /\ Grows(Past, Past')
      /\ world' = world /\ filed' = filed /\ rolled' = rolled /\ events' \in 0 .. MaxEvents
      /\ PageOK(q, Past') /\ FormOK(q)
      /\ q.calls = page.calls /\ q.responses = page.responses
      /\ q.history = page.history /\ q.stored = page.stored /\ q.cache = page.cache
  BY <1>1, <1>3, <1>4, NewIsKept
<1>6. /\ PageOK(page', Past') /\ PanelOK(page', Past') /\ FormOK(page')
      /\ SameBeside(page', q)
  BY <1>1, <1>4, <1>5, RestoreShows
<1> QED
  BY <1>5, <1>6, RenderedNewKeeps

\* A copy of the selected publisher is added and selected.
LEMMA CloneKeeps == ASSUME IInv, cloneCurrentPublisherAction PROVE IInv'
<1> DEFINE p == [Selected(page) EXCEPT !.id = nextId]
           q == Added(page, p)
           n == Len(page.publishers) + 1
<1>1. /\ Event /\ Fresh /\ New(p) /\ page' = restorePublisherStateFromView(q, n) /\ Has(page)
  BY DEF cloneCurrentPublisherAction
<1>2. /\ Past \in Pasts /\ Past.nextId = nextId /\ page.publishers \in Seq(Publishers)
      /\ PageOK(page, Past)
  BY DEF IInv, Past, PageOK, ListOK
<1>3. p \in Publishers /\ p.id = nextId
  <2>1. nextId \in Ids
    BY <1>1, <1>2, BoundsAreNumbers DEF Fresh, Ids, Pasts
  <2>2. Selected(page) \in Publishers
    BY <1>1, <1>2, SelectedIsKnown
  <2> QED
    BY <2>1, <2>2 DEF Publishers
<1> HIDE DEF p
<1>4. q = Added(page, p) /\ n \in Nat
  BY <1>2
<1> HIDE DEF q, n
<1>5. /\ Past' \in Pasts /\ Grows(Past, Past')
      /\ world' = world /\ filed' = filed /\ rolled' = rolled /\ events' \in 0 .. MaxEvents
      /\ PageOK(q, Past') /\ FormOK(q)
      /\ q.calls = page.calls /\ q.responses = page.responses
      /\ q.history = page.history /\ q.stored = page.stored /\ q.cache = page.cache
  BY <1>1, <1>3, <1>4, NewIsKept
<1>6. /\ PageOK(page', Past') /\ PanelOK(page', Past') /\ FormOK(page')
      /\ SameBeside(page', q)
  BY <1>1, <1>4, <1>5, RestoreShows
<1> QED
  BY <1>5, <1>6, RenderedNewKeeps

\* A copy with another name is added, and not selected.
LEMMA VariantKeeps ==
  ASSUME IInv, NEW name \in Names, saveCurrentPublisherVariantAction(name)
  PROVE  IInv'
<1> DEFINE p == [Selected(page) EXCEPT !.id = nextId, !.name = name]
           q == Added(page, p)
<1>1. /\ Event /\ Fresh /\ New(p) /\ page' = renderSelectedPublisher(q) /\ Has(page)
  BY DEF saveCurrentPublisherVariantAction
<1>2. /\ Past \in Pasts /\ Past.nextId = nextId /\ PageOK(page, Past)
  BY DEF IInv, Past
<1>3. p \in Publishers /\ p.id = nextId
  <2>1. nextId \in Ids
    BY <1>1, <1>2, BoundsAreNumbers DEF Fresh, Ids, Pasts
  <2>2. Selected(page) \in Publishers
    BY <1>1, <1>2, SelectedIsKnown
  <2> QED
    BY <2>1, <2>2 DEF Publishers
<1> HIDE DEF p
<1>4. q = Added(page, p)
  OBVIOUS
<1> HIDE DEF q
<1>5. /\ Past' \in Pasts /\ Grows(Past, Past')
      /\ world' = world /\ filed' = filed /\ rolled' = rolled /\ events' \in 0 .. MaxEvents
      /\ PageOK(q, Past') /\ FormOK(q)
      /\ q.calls = page.calls /\ q.responses = page.responses
      /\ q.history = page.history /\ q.stored = page.stored /\ q.cache = page.cache
  BY <1>1, <1>3, <1>4, NewIsKept
<1>6. /\ PageOK(page', Past') /\ PanelOK(page', Past') /\ FormOK(page')
      /\ SameBeside(page', q)
  BY <1>1, <1>5, RenderShows
<1> QED
  BY <1>5, <1>6, RenderedNewKeeps

\* An entry of the history becomes a publisher, whose payload is kept at once.
LEMMA HistoryAsPublisherKeeps ==
  ASSUME IInv, NEW i, NEW name \in Names, savePublisherHistoryAsPublisherAction(i, name)
  PROVE  IInv'
<1> DEFINE entries == currentHistoryEntries(page, Selected(page))
           p == [id |-> nextId, name |-> name, payload |-> entries[i].payload]
           q == Added(page, p)
           r == setLocalPublisherState(q, p, p.payload)
           n == Len(page.publishers) + 1
<1>1. /\ Event /\ Fresh /\ New(p) /\ page' = restorePublisherStateFromView(r, n) /\ Has(page)
      /\ i \in DOMAIN entries
  BY DEF savePublisherHistoryAsPublisherAction
<1>2. /\ Past \in Pasts /\ Past.nextId = nextId /\ PageOK(page, Past)
      /\ page.publishers \in Seq(Publishers)
  BY DEF IInv, Past, PageOK, ListOK
<1>3. p \in Publishers /\ p.id = nextId /\ p.payload \in Payloads
  <2>1. nextId \in Ids
    BY <1>1, <1>2, BoundsAreNumbers DEF Fresh, Ids, Pasts
  <2>2. Selected(page) \in Publishers
    BY <1>1, <1>2, SelectedIsKnown
  <2>3. entries[i] \in Entries
    BY <2>2, <1>1, <1>2, EntriesAreTyped
  <2> QED
    BY <2>1, <2>3 DEF Publishers, Entries
<1> HIDE DEF p
<1>4. q = Added(page, p) /\ n \in Nat
  BY <1>2
<1> HIDE DEF q, n
<1>5. /\ Past' \in Pasts /\ Grows(Past, Past')
      /\ world' = world /\ filed' = filed /\ rolled' = rolled /\ events' \in 0 .. MaxEvents
      /\ PageOK(q, Past') /\ FormOK(q)
      /\ q.calls = page.calls /\ q.responses = page.responses
      /\ q.history = page.history /\ q.stored = page.stored /\ q.cache = page.cache
  BY <1>1, <1>3, <1>4, NewIsKept
<1>6. PageOK(r, Past') /\ r = [q EXCEPT !.local = r.local]
  BY <1>3, <1>5, PayloadIsKept
<1>7. /\ r.calls = page.calls /\ r.responses = page.responses
      /\ r.history = page.history /\ r.stored = page.stored /\ r.cache = page.cache
  BY <1>5, <1>6 DEF PageOK, Pages
<1> HIDE DEF r
<1>8. /\ PageOK(page', Past') /\ PanelOK(page', Past') /\ FormOK(page')
      /\ SameBeside(page', r)
  BY <1>1, <1>4, <1>5, <1>6, RestoreShows
<1> QED
  BY <1>5, <1>7, <1>8, RenderedNewKeeps

\* Another publisher is selected.
LEMMA SelectKeeps ==
  ASSUME IInv, NEW i \in Ids, selectPublisher(i)
  PROVE  IInv'
<1>1. /\ page' = restorePublisherStateFromView(page, i) /\ i \in Nat
      /\ world' = world /\ filed' = filed /\ rolled' = rolled /\ events' = events
      /\ UNCHANGED <<nextId, nextSend, sent, touched, replaced, named>>
  BY IdsAreNoNames DEF selectPublisher, bounds, ghosts
<1>2. /\ Past' = Past /\ Past \in Pasts /\ Past' \in Pasts /\ Grows(Past, Past')
      /\ PageOK(page, Past) /\ events' \in 0 .. MaxEvents
  BY <1>1, PastStays DEF IInv
<1>3. /\ PageOK(page', Past') /\ PanelOK(page', Past') /\ FormOK(page')
      /\ SameBeside(page', page)
  BY <1>1, <1>2, RestoreShows
<1> QED
  BY <1>1, <1>2, <1>3, RenderedNewKeeps

\* The document of the form is written over the selected publisher.
LEMMA FormKeeps ==
  ASSUME IInv, NEW name \in Labels, renderPublisherForm(name)
  PROVE  IInv'
<1> DEFINE old == Selected(page)
           p  == [page.form EXCEPT !.name = name]
           q0 == Overwrite(page, old.id, p)
           q  == [q0 EXCEPT !.form = p]
<1>1. /\ Has(page) /\ page.form # None /\ Event /\ Touches(old) /\ Renamed(p)
      /\ page' = renderSelectedPublisher(q)
      /\ replaced' = IF p.id = old.id THEN replaced ELSE replaced \cup {old.id}
      /\ world' = world /\ filed' = filed /\ rolled' = rolled
      /\ UNCHANGED <<nextId, nextSend, sent>>
  BY DEF renderPublisherForm
<1>2. /\ Past \in Pasts /\ PageOK(page, Past) /\ FormOK(page) /\ SendingOK(page, Past)
      /\ events' \in 0 .. MaxEvents
  BY <1>1, EventCounts DEF IInv
<1>3. /\ old \in Publishers /\ old.id \in Ids
      /\ currentPublisher(page) \in DOMAIN page.publishers
      /\ page.publishers[currentPublisher(page)] = old
  BY <1>1, <1>2, SelectedIsKnown DEF Publishers, Selected
<1>4. p \in Publishers /\ p.id = page.form.id /\ p.id < nextId
  BY <1>1, <1>2 DEF PageOK, Known, Publishers, Labels, Past
<1>5. \A i \in DOMAIN page.publishers :
        page.publishers[i].id = p.id => i = currentPublisher(page)
  BY <1>1, <1>2, <1>4 DEF FormOK, currentPublisher, Has
<1> HIDE DEF p
<1>6. /\ Past' \in Pasts /\ Grows(Past, Past') /\ Known(p, Past')
      /\ Marked(page, old.id, Past')
      /\ p.id # old.id => old.id \in Past'.replaced
  BY <1>1, <1>3, <1>4, PastOfForm
<1>7. PageOK(page, Past') /\ SendingOK(page, Past')
  BY <1>2, <1>6, PageStays
<1>8. p.id = old.id \/ \A i \in DOMAIN page.publishers : page.publishers[i].id # p.id
  BY <1>3, <1>5
<1>9. q0 = Overwrite(page, old.id, p)
  OBVIOUS
<1> HIDE DEF q0, old
<1>10. /\ PageOK(q0, Past') /\ SameCallsBut(q0, page, old.id) /\ SameButList(q0, page)
       /\ p.id = old.id => SameCalls(q0, page)
       /\ DOMAIN q0.publishers = DOMAIN page.publishers
       /\ Has(q0) /\ currentPublisher(q0) = currentPublisher(page)
       /\ \A i \in DOMAIN page.publishers :
            q0.publishers[i] = IF page.publishers[i].id = old.id THEN p ELSE page.publishers[i]
  BY <1>1, <1>6, <1>7, <1>8, <1>9, OverwriteIsKept
<1>11. /\ q \in Pages /\ SameBeside(q, q0) /\ q.form = p /\ q.selected = q0.selected
  BY <1>4, <1>10 DEF PageOK, Pages, SameBeside
<1> HIDE DEF q
<1>12. PageOK(q, Past') /\ Has(q) /\ currentPublisher(q) = currentPublisher(page)
  BY <1>6, <1>10, <1>11, PanelIsApart DEF SameBeside, Has, currentPublisher
<1>13. /\ PageOK(page', Past') /\ PanelOK(page', Past') /\ SameBeside(page', q)
       /\ page'.form = p /\ page'.selected = currentPublisher(page)
  BY <1>1, <1>6, <1>11, <1>12, RenderShows
<1>14. /\ page'.publishers = q0.publishers /\ page'.calls = q0.calls
       /\ page'.responses = page.responses
       /\ page'.history = page.history /\ page'.stored = page.stored
  BY <1>10, <1>11, <1>13 DEF SameBeside, SameButList
<1>15. FormOK(page')
  <2> SUFFICES ASSUME NEW i \in DOMAIN page.publishers, q0.publishers[i].id = p.id
               PROVE  i = currentPublisher(page)
    BY <1>10, <1>13, <1>14 DEF FormOK
  <2>1. CASE page.publishers[i].id = old.id
    BY <2>1, <1>2, <1>3 DEF PageOK, ListOK
  <2>2. CASE page.publishers[i].id # old.id
    BY <2>2, <1>5, <1>10
  <2> QED
    BY <2>1, <2>2
<1>16. SendingOK(page', Past')
  <2> SUFFICES ASSUME NEW i \in Ids \ Past'.replaced, page.responses[i] # None,
                      page.responses[i].is = "sending"
               PROVE  \E c \in Sends : /\ q0.calls[c].phase = "waiting"
                                       /\ q0.calls[c].n = page.responses[i].n
                                       /\ q0.calls[c].pub.id = i
    BY <1>14 DEF SendingOK
  <2>1. PICK c \in Sends : /\ page.calls[c].phase = "waiting"
                           /\ page.calls[c].n = page.responses[i].n
                           /\ page.calls[c].pub.id = i
    BY <1>7 DEF SendingOK
  <2>2. i = old.id => p.id = old.id
    BY <1>6
  <2> QED
    BY <2>1, <2>2, <1>10 DEF SameCalls, SameCallsBut
<1>17. WorldOK(world', Past')
  BY <1>1, <1>6, PageStays DEF IInv
<1>18. FiledOK(filed', rolled', page')
  BY <1>1, <1>14 DEF IInv, FiledOK
<1> QED
  BY <1>2, <1>6, <1>13, <1>15, <1>16, <1>17, <1>18, StepKeeps

\* The selected publisher gets another payload, in place.
LEMMA EditedIsKept ==
  ASSUME IInv, Has(page),
         NEW p \in Publishers, p.id = Selected(page).id, p.name = Selected(page).name,
         Touches(p),
         UNCHANGED <<nextId, nextSend, sent, replaced, named>>,
         NEW q, q = Change(page, p)
  PROVE  /\ Past' \in Pasts /\ Grows(Past, Past')
         /\ PageOK(q, Past') /\ SameCalls(q, page) /\ SameButList(q, page)
         /\ Has(q) /\ Selected(q) = p /\ FormOK(q)
<1>1. Past \in Pasts /\ PageOK(page, Past) /\ FormOK(page)
  BY DEF IInv
<1>2. /\ Selected(page) \in Publishers /\ Known(Selected(page), Past)
      /\ currentPublisher(page) \in DOMAIN page.publishers
  BY <1>1, SelectedIsKnown
<1>3. Known(p, Past)
  BY <1>2 DEF Known
<1>4. /\ Past' \in Pasts /\ Grows(Past, Past')
      /\ Marked(page, p.id, Past')
  BY PastOfTouched
<1>5. Known(p, Past')
  BY <1>1, <1>3, <1>4, FactsStay
<1>6. PageOK(page, Past')
  BY <1>1, <1>4, PageStays
<1>7. /\ PageOK(q, Past') /\ SameCalls(q, page) /\ SameButList(q, page)
      /\ FormOK(q) /\ Has(q) /\ currentPublisher(q) = currentPublisher(page)
      /\ \A i \in DOMAIN page.publishers : page.publishers[i].id = p.id => q.publishers[i] = p
  BY <1>1, <1>4, <1>5, <1>6, ChangeIsKept
<1>8. Selected(q) = p
  BY <1>2, <1>7 DEF Selected
<1> QED
  BY <1>4, <1>7, <1>8

\* The payload is edited; the panel is left as it is.
LEMMA PayloadKeeps ==
  ASSUME IInv, NEW payload \in Payloads, updatePublisherPayload(payload)
  PROVE  IInv'
<1> DEFINE p == [Selected(page) EXCEPT !.payload = payload]
           q == Change(page, p)
<1>1. /\ Has(page) /\ Event /\ Touches(p) /\ page' = setLocalPublisherState(q, p, payload)
      /\ world' = world /\ filed' = filed /\ rolled' = rolled
      /\ UNCHANGED <<nextId, nextSend, sent, replaced, named>>
  BY DEF updatePublisherPayload
<1>2. /\ q = Change(page, p) /\ p \in Publishers
      /\ p.id = Selected(page).id /\ p.name = Selected(page).name
  BY <1>1, SelectedIsKnown DEF IInv, Publishers
<1> HIDE DEF p, q
<1>3. /\ Past' \in Pasts /\ Grows(Past, Past')
      /\ PageOK(q, Past') /\ SameCalls(q, page) /\ SameButList(q, page)
      /\ Has(q) /\ Selected(q) = p /\ FormOK(q)
  BY <1>1, <1>2, EditedIsKept
<1>4. PageOK(page', Past') /\ page' = [q EXCEPT !.local = page'.local]
  BY <1>1, <1>3, PayloadIsKept
<1>5. /\ page'.publishers = q.publishers /\ page'.selected = q.selected
      /\ page'.response = q.response /\ page'.calls = q.calls /\ page'.deleting = q.deleting
      /\ page'.responses = q.responses /\ page'.history = q.history
      /\ page'.stored = q.stored /\ page'.cache = q.cache /\ page'.form = q.form
  BY <1>3, <1>4 DEF PageOK, Pages
<1>6. /\ SameCalls(page', page) /\ page'.responses = page.responses
      /\ page'.history = page.history /\ page'.stored = page.stored
      /\ page'.cache = page.cache
  BY <1>3, <1>5 DEF SameButList, SameCalls
<1>7. PanelOK(page', Past')
  <2>1. Selected(page') = p
    BY <1>3, <1>5 DEF Selected, currentPublisher
  <2>2. PanelOK(page, Past')
    BY <1>3, PageStays DEF IInv
  <2>3. page'.response = page.response /\ page'.deleting = page.deleting
    BY <1>3, <1>5 DEF SameButList
  <2> QED
    BY <2>1, <2>2, <2>3, <1>1, <1>2, <1>3 DEF PanelOK, ShownOK
<1>8. events' \in 0 .. MaxEvents
  BY <1>1, EventCounts
<1>9. FormOK(page')
  BY <1>3, <1>5 DEF FormOK
<1> QED
  BY <1>1, <1>3, <1>4, <1>6, <1>7, <1>8, <1>9, QuietKeeps

\* The payload is beautified, and the panel rendered.
LEMMA BeautifyKeeps == ASSUME IInv, beautifyPublisherPayloadAction PROVE IInv'
<1> DEFINE p == [Selected(page) EXCEPT !.payload = 1]
           q == Change(page, p)
<1>1. /\ Has(page) /\ Event /\ Touches(p) /\ page' = renderSelectedPublisher(q)
      /\ world' = world /\ filed' = filed /\ rolled' = rolled
      /\ UNCHANGED <<nextId, nextSend, sent, replaced, named>>
  BY DEF beautifyPublisherPayloadAction
<1>2. /\ q = Change(page, p) /\ p \in Publishers
      /\ p.id = Selected(page).id /\ p.name = Selected(page).name
  BY <1>1, SelectedIsKnown DEF IInv, Publishers, Payloads
<1> HIDE DEF p, q
<1>3. /\ Past' \in Pasts /\ Grows(Past, Past')
      /\ PageOK(q, Past') /\ FormOK(q) /\ SameCalls(q, page) /\ SameButList(q, page)
  BY <1>1, <1>2, EditedIsKept
<1>4. /\ PageOK(page', Past') /\ PanelOK(page', Past') /\ FormOK(page')
      /\ SameBeside(page', q)
  BY <1>1, <1>3, RenderShows
<1>5. /\ SameCalls(page', page) /\ page'.responses = page.responses
      /\ page'.history = page.history /\ page'.stored = page.stored
      /\ page'.cache = page.cache
  BY <1>3, <1>4 DEF SameBeside, SameButList, SameCalls
<1>6. events' \in 0 .. MaxEvents
  BY <1>1, EventCounts
<1> QED
  BY <1>1, <1>3, <1>4, <1>5, <1>6, QuietKeeps

-----------------------------------------------------------------------------
(* Sending, and showing again.                                             *)

\* What a page shows again, with the selected publisher marked as edited.
LEMMA ShownNow ==
  ASSUME IInv, NEW i, CanShow(i), NEW g \in Pasts, Grows(Past, g),
         TouchedBy(Selected(page)) \subseteq g.touched
  PROVE  LET q == Shown(page, i)
         IN  /\ PageOK(q, g) /\ PanelOK(q, g) /\ Has(q) /\ SameCalls(q, page)
             /\ q.history = page.history /\ q.stored = page.stored /\ q.cache = page.cache
             /\ FormOK(q) /\ SendingOK(q, g)
<1>1. /\ PageOK(page, g) /\ Has(page) /\ FormOK(page) /\ SendingOK(page, g)
      /\ i \in DOMAIN currentHistoryEntries(page, Selected(page))
  BY PageStays DEF IInv, CanShow
<1>2. Marked(page, Selected(page).id, g)
  BY DEF TouchedBy, Marked
<1> QED
  BY <1>1, <1>2, ShownIsKept

\* An entry of the history is shown again.
LEMMA ShowKeeps ==
  ASSUME IInv, NEW i, showPublisherHistoryEntry(i)
  PROVE  IInv'
<1> DEFINE p == Selected(page)
<1>1. /\ CanShow(i) /\ Event /\ Touches(p) /\ page' = Shown(page, i)
      /\ world' = world /\ filed' = filed /\ rolled' = rolled
      /\ UNCHANGED <<nextId, nextSend, sent, replaced, named>>
  BY DEF showPublisherHistoryEntry
<1>2. Past' \in Pasts /\ Grows(Past, Past') /\ TouchedBy(p) \subseteq Past'.touched
  BY <1>1, PastOfTouched, TouchedWereSent DEF Past
<1>3. /\ PageOK(page', Past') /\ PanelOK(page', Past') /\ SameCalls(page', page)
      /\ page'.history = page.history /\ page'.stored = page.stored
      /\ page'.cache = page.cache /\ FormOK(page')
      /\ SendingOK(page', Past')
  BY <1>1, <1>2, ShownNow
<1>4. events' \in 0 .. MaxEvents
  BY <1>1, EventCounts
<1>5. WorldOK(world', Past')
  BY <1>1, <1>2, PageStays DEF IInv
<1>6. FiledOK(filed', rolled', page')
  BY <1>1, <1>3 DEF IInv, FiledOK
<1> QED
  BY <1>2, <1>3, <1>4, <1>5, <1>6, StepKeeps

\* A send of a page that may have been changed in the same step.
LEMMA SendOf ==
  ASSUME IInv, NEW g \in Pasts, Grows(Past, g), NEW pg, PageOK(pg, g), FormOK(pg),
         SendingOK(pg, g),
         pg.history = page.history, pg.stored = page.stored, pg.cache = page.cache,
         NEW c \in Sends, Send(pg, c), nextId' = nextId, replaced' = replaced, named' = named,
         g = [nextId |-> nextId, nextSend |-> nextSend, sent |-> sent, touched |-> touched',
              replaced |-> replaced, named |-> named],
         world' = world, filed' = filed, rolled' = rolled, events' = events
  PROVE  IInv'
<1> DEFINE request == [of |-> Selected(pg).id, payload |-> Selected(pg).payload]
<1>1. /\ pg.calls[c] = Free /\ Has(pg) /\ nextSend <= MaxSends /\ nextSend' = nextSend + 1
      /\ page' = Sending(pg, c) /\ sent' = [sent EXCEPT ![nextSend] = request]
  BY DEF Send
<1>2. /\ Past \in Pasts
      /\ Past' = [nextId |-> nextId, nextSend |-> nextSend + 1, sent |-> sent',
                  touched |-> touched', replaced |-> replaced, named |-> named]
  BY <1>1 DEF IInv, Past
<1>3. /\ sent \in [1 .. MaxSends -> SentRequests] /\ nextSend \in Nat /\ nextSend \in 1 .. MaxSends
      /\ nextId \in 1 .. MaxId + 1 /\ nextId \in Nat
  BY <1>1, <1>2, BoundsAreNumbers DEF Pasts
<1>4. request \in SentRequests
  BY <1>1, SelectedIsKnown DEF Publishers, SentRequests
<1> HIDE DEF request
<1>5. /\ sent' \in [1 .. MaxSends -> SentRequests] /\ sent'[nextSend] = request
      /\ \A n \in 1 .. nextSend - 1 : sent'[n] = sent[n]
  <2>1. \A n \in 1 .. nextSend - 1 : n \in 1 .. MaxSends /\ n # nextSend
    BY <1>3, BoundsAreNumbers
  <2> QED
    BY <2>1, <1>1, <1>3, <1>4
<1>6. Past' \in Pasts
  <2>1. /\ touched' \subseteq 1 .. MaxSends /\ named \subseteq Ids \X Labels
        /\ replaced \subseteq Ids
    <3>1. g.touched = touched' /\ g.named = named /\ g.replaced = replaced
      BY <1>2
    <3> QED
      BY <3>1 DEF Pasts
  <2>2. nextSend + 1 \in 1 .. MaxSends + 1
    BY <1>3, BoundsAreNumbers
  <2> QED
    BY <2>1, <2>2, <1>2, <1>3, <1>5 DEF Pasts
<1>7. Grows(g, Past') /\ Grows(Past, Past')
  BY <1>2, <1>3, <1>5 DEF Grows, Past
<1>8. /\ g.nextSend = nextSend /\ Past'.nextSend = nextSend + 1
      /\ Past'.sent[nextSend] = [of |-> Selected(pg).id, payload |-> Selected(pg).payload]
  BY <1>2, <1>5 DEF request
<1>9. /\ PageOK(page', Past') /\ PanelOK(page', Past')
      /\ page'.history = pg.history /\ page'.stored = pg.stored /\ page'.cache = pg.cache
      /\ FormOK(page') /\ SendingOK(page', Past')
  BY <1>1, <1>6, <1>7, <1>8, SendBegins
<1>10. WorldOK(world', Past')
  BY <1>2, <1>6, <1>7, PageStays DEF IInv
<1>11. FiledOK(filed', rolled', page')
  BY <1>9 DEF IInv, FiledOK
<1>12. events' \in 0 .. MaxEvents
  BY DEF IInv
<1> QED
  BY <1>6, <1>9, <1>10, <1>11, <1>12, StepKeeps

\* The payload of the panel is sent.
LEMMA SendKeeps ==
  ASSUME IInv, NEW c \in Sends, sendPublisherAction(c)
  PROVE  IInv'
<1>1. /\ Send(page, c) /\ nextId' = nextId /\ named' = named /\ touched' = touched
      /\ replaced' = replaced /\ rolled' = rolled
      /\ world' = world /\ filed' = filed /\ events' = events
  BY DEF sendPublisherAction
<1>2. /\ Past \in Pasts /\ PageOK(page, Past) /\ FormOK(page) /\ SendingOK(page, Past)
      /\ Past = [nextId |-> nextId, nextSend |-> nextSend, sent |-> sent,
                 touched |-> touched', replaced |-> replaced, named |-> named]
  BY <1>1 DEF IInv, Past
<1>3. Grows(Past, Past)
  BY <1>2, BoundsAreNumbers DEF Grows, Pasts
<1> QED
  BY <1>1, <1>2, <1>3, SendOf

\* An entry of the history is shown, and sent again.
LEMMA ResendKeeps ==
  ASSUME IInv, NEW c \in Sends, NEW i, resendPublisherHistoryAction(c, i)
  PROVE  IInv'
<1> DEFINE p == Selected(page)
           g == [nextId |-> nextId, nextSend |-> nextSend, sent |-> sent,
                 touched |-> touched', replaced |-> replaced, named |-> named]
           q == Shown(page, i)
<1>1. /\ CanShow(i) /\ Send(q, c) /\ Touches(p) /\ nextId' = nextId /\ named' = named
      /\ replaced' = replaced /\ rolled' = rolled
      /\ world' = world /\ filed' = filed /\ events' = events
  BY DEF resendPublisherHistoryAction
<1>2. touched' = touched \cup TouchedBy(p) /\ TouchedBy(p) \subseteq 1 .. MaxSends
  BY <1>1, TouchedWereSent
<1>3. Past \in Pasts /\ touched \subseteq 1 .. MaxSends /\ touched = Past.touched
  BY DEF IInv, Past, Pasts
<1>4. g \in Pasts /\ Grows(Past, g) /\ TouchedBy(p) \subseteq g.touched
  <2>1. g \in Pasts
    BY <1>2, <1>3 DEF Past, Pasts
  <2>2. nextId \in Nat /\ nextSend \in Nat
    BY <1>3, BoundsAreNumbers DEF Past, Pasts
  <2>3. Grows(Past, g)
    BY <2>2, <1>2, <1>3 DEF Past, Grows
  <2> QED
    BY <2>1, <2>3, <1>2, <1>3
<1>5. g = [nextId |-> nextId, nextSend |-> nextSend, sent |-> sent, touched |-> touched',
           replaced |-> replaced, named |-> named]
  OBVIOUS
<1> HIDE DEF g
<1>6. /\ PageOK(q, g) /\ FormOK(q) /\ SendingOK(q, g)
      /\ q.history = page.history /\ q.stored = page.stored /\ q.cache = page.cache
  BY <1>1, <1>4, ShownNow
<1> HIDE DEF q
<1> QED
  BY <1>1, <1>4, <1>5, <1>6, SendOf

-----------------------------------------------------------------------------
(* The answers.                                                            *)

\* An entry comes first, and the others after it.
Prepended(e, s) == <<e>> \o s

IsPrepended(t, e, s) ==
  /\ DOMAIN t = 1 .. Len(s) + 1
  /\ Len(s) \in Nat /\ DOMAIN s = 1 .. Len(s)
  /\ t[1] = e
  /\ \A j \in 2 .. Len(s) + 1 : j - 1 \in 1 .. Len(s) /\ t[j] = s[j - 1]

\* That is what prepending does.
LEMMA PrependIsIn ==
  ASSUME NEW S, NEW s \in Seq(S), NEW e \in S
  PROVE  Prepended(e, s) \in Seq(S) /\ IsPrepended(Prepended(e, s), e, s)
BY SMTT(20) DEF Prepended, IsPrepended

\* So does its number.
LEMMA PrependIsNumbered ==
  ASSUME NEW s \in Seq(Entries), NEW e \in Entries
  PROVE  Numbers(Prepended(e, s)) = Prepended(e.n, Numbers(s))
<1> DEFINE m == Prepended(e, s)
           t == Numbers(s)
           u == Prepended(e.n, t)
           n == Len(s)
<1> HIDE DEF m
<1>1. /\ DOMAIN m = 1 .. n + 1 /\ n \in Nat /\ DOMAIN s = 1 .. n
      /\ m[1] = e
      /\ \A j \in 2 .. n + 1 : j - 1 \in 1 .. n /\ m[j] = s[j - 1]
  <2>1. IsPrepended(m, e, s) /\ m \in Seq(Entries)
    BY PrependIsIn DEF m
  <2> QED
    BY <2>1 DEF IsPrepended
<1>2. e.n \in 0 .. MaxSends /\ \A j \in 1 .. n : s[j].n \in 0 .. MaxSends
  <2>1. e.n \in 0 .. MaxSends
    BY DEF Entries
  <2>2. ASSUME NEW j \in 1 .. n PROVE s[j].n \in 0 .. MaxSends
    <3>1. s[j] \in Entries
      BY <1>1
    <3> QED
      BY <3>1 DEF Entries
  <2> QED
    BY <2>1, <2>2
<1>3. t \in Seq(0 .. MaxSends) /\ Len(t) = n /\ \A j \in 1 .. n : t[j] = s[j].n
  BY <1>1, <1>2 DEF Numbers
<1> HIDE DEF t
<1> HIDE DEF u
<1>4. /\ DOMAIN u = 1 .. n + 1
      /\ u[1] = e.n
      /\ \A j \in 2 .. n + 1 : u[j] = t[j - 1]
      /\ u \in Seq(0 .. MaxSends)
  <2>1. IsPrepended(u, e.n, t) /\ u \in Seq(0 .. MaxSends)
    BY <1>2, <1>3, PrependIsIn DEF u
  <2> QED
    BY <2>1, <1>3 DEF IsPrepended
<1>5. Numbers(m) = [j \in 1 .. n + 1 |-> m[j].n]
  BY <1>1 DEF Numbers
<1> HIDE DEF n
<1>6. ASSUME NEW j \in 1 .. n + 1 PROVE m[j].n = u[j]
  <2>1. CASE j = 1
    BY <2>1, <1>1, <1>4
  <2>2. CASE j # 1
    <3>1. j \in 2 .. n + 1
      BY <2>2, <1>1
    <3> QED
      BY <3>1, <1>1, <1>3, <1>4
  <2> QED
    BY <2>1, <2>2
<1>7. u = [j \in 1 .. n + 1 |-> u[j]]
  BY <1>4
<1> QED
  BY <1>5, <1>6, <1>7 DEF m, t, u

\* Two pages that differ in the sends and the timer only.
SameButCalls(q, pg) ==
  /\ q.publishers = pg.publishers /\ q.responses = pg.responses /\ q.history = pg.history
  /\ q.stored = pg.stored /\ q.cache = pg.cache /\ q.config = pg.config
  /\ q.deleting = pg.deleting /\ q.response = pg.response /\ q.selected = pg.selected
  /\ q.form = pg.form

\* A send that shows nothing ends.
LEMMA SendEnds ==
  ASSUME NEW g \in Pasts, NEW pg, PageOK(pg, g), NEW c \in Sends,
         NEW q \in Pages, q.calls = [pg.calls EXCEPT ![c] = Free], SameButCalls(q, pg),
         NEW id, id = pg.calls[c].pub.id, pg.responses[id].is # "sending"
  PROVE  PageOK(q, g) /\ (SendingOK(pg, g) => SendingOK(q, g))
<1>1. \A d \in Sends : q.calls[d] = IF d = c THEN Free ELSE pg.calls[d]
  BY DEF PageOK, Pages
<1>2. CallOK(Free, q.publishers, g)
  BY BoundsAreNumbers DEF CallOK, Free, CallTypes
<1>3. PageOK(q, g)
  BY <1>1, <1>2 DEF PageOK, SameButCalls
<1>4. ASSUME SendingOK(pg, g), NEW i \in Ids \ g.replaced, q.responses[i] # None,
             q.responses[i].is = "sending"
      PROVE  \E d \in Sends : /\ q.calls[d].phase = "waiting"
                              /\ q.calls[d].n = q.responses[i].n
                              /\ q.calls[d].pub.id = i
  <2>1. PICK d \in Sends : /\ pg.calls[d].phase = "waiting"
                           /\ pg.calls[d].n = pg.responses[i].n
                           /\ pg.calls[d].pub.id = i
    BY <1>4 DEF SendingOK, SameButCalls
  <2>2. d # c
    BY <2>1, <1>4 DEF SameButCalls
  <2> QED
    BY <2>1, <2>2, <1>1 DEF SameButCalls
<1> QED
  BY <1>3, <1>4 DEF SendingOK

\* The answer comes: the panel shows it until it is rendered, and it is filed
\* for the publisher that was sent.
LEMMA AnsweredKeeps ==
  ASSUME IInv, NEW c \in Sends, answered(c)
  PROVE  IInv'
<1> DEFINE call == page.calls[c]
           p  == call.pub
           r  == Response(p, call.n, "answer")
           p0 == setPublisherResponseState(page, p, r)
           p1 == applyPublisherResponseState(page, p, call.n)
           e  == buildHistoryEntry(p, call.n)
           p2 == persistHistory(fileHistoryEntry(p1, p, e))
           p3 == renderSelectedPublisher(p2)
           h  == [page.history EXCEPT ![p.id] = Prepended(e, @)]
<1>1. /\ call.phase = "waiting"
      /\ page' = [scheduleHistorySync(p3) EXCEPT !.calls[c] = Free]
      /\ filed' = [filed EXCEPT ![p.id] = Prepended(call.n, @)]
      /\ world' = world /\ events' = events
      /\ rolled' = rolled /\ UNCHANGED <<nextId, nextSend, sent, touched, replaced, named>>
  BY DEF answered, bounds, Prepended
<1>2. /\ Past' = Past /\ Past \in Pasts /\ Past' \in Pasts
      /\ PageOK(page, Past) /\ FormOK(page) /\ SendingOK(page, Past)
      /\ FiledOK(filed, rolled, page)
      /\ WorldOK(world', Past') /\ events' \in 0 .. MaxEvents
  BY <1>1, PastStays DEF IInv
<1>3. /\ call \in CallTypes /\ p \in Publishers /\ Known(p, Past) /\ p.id \in Ids
      /\ call.n \in 0 .. MaxSends /\ IsOf(call.n, p.payload, p.id, Past)
  BY <1>1, <1>2 DEF PageOK, CallOK, Known, Publishers, CallTypes
<1>4. r \in States /\ r.of = p.id /\ r.is = "answer"
  BY <1>3 DEF Response, States, Publishers
<1>5. e \in Entries /\ e.n = call.n /\ IsOf(e.n, e.payload, p.id, Past)
  BY <1>3 DEF buildHistoryEntry, Entries, Publishers
<1>6. p1 = [p0 EXCEPT !.response = r]
  BY DEF applyPublisherResponseState
<1>7. p2 = persistHistory([p1 EXCEPT !.history[p.id] = Prepended(e, @)])
  BY DEF fileHistoryEntry, historyBucketKeyFor, Prepended
<1> HIDE DEF r, e
<1>8. /\ PageOK(p0, Past) /\ p0 = [page EXCEPT !.responses = p0.responses]
      /\ p0.responses[p.id] = r
      /\ \A i \in Ids \ {p.id} : p0.responses[i] = page.responses[i]
  BY <1>2, <1>3, <1>4, ResponseIsKept
<1> HIDE DEF p0
<1>9. /\ p0.calls = page.calls /\ p0.history = page.history
  BY <1>2, <1>8 DEF PageOK, Pages
<1>10. /\ p1 \in Pages /\ SameBeside(p1, p0)
       /\ p1.form = page.form /\ p1.selected = page.selected /\ p1.publishers = page.publishers
  BY <1>2, <1>4, <1>6, <1>8 DEF PageOK, Pages, SameBeside
<1>11. PageOK(p1, Past)
  <2>1. p1.form = None \/ Known(p1.form, Past)
    BY <1>2, <1>10 DEF PageOK
  <2> QED
    BY <2>1, <1>2, <1>8, <1>10, PanelIsApart
<1> HIDE DEF p1
<1>12. p1.history = page.history /\ p1.calls = page.calls /\ p1.responses = p0.responses
  BY <1>9, <1>10 DEF SameBeside
<1>13. /\ \A i \in Ids : h[i] = IF i = p.id THEN Prepended(e, page.history[i])
                               ELSE page.history[i]
       /\ HistoryOK(h, Past)
  <2>1. page.history \in Histories /\ HistoryOK(page.history, Past) /\ Ids \subseteq Keys
    BY <1>2 DEF PageOK, HistoryOK, Keys
  <2>2. page.history[p.id] \in Seq(Entries)
    BY <2>1, <1>3 DEF Histories
  <2> DEFINE s == page.history[p.id]
             t == Prepended(e, s)
  <2>3. /\ t \in Seq(Entries) /\ DOMAIN t = 1 .. Len(s) + 1 /\ t[1] = e
        /\ Len(s) \in Nat /\ DOMAIN s = 1 .. Len(s)
        /\ \A j \in 2 .. Len(s) + 1 : j - 1 \in 1 .. Len(s) /\ t[j] = s[j - 1]
    <3> HIDE DEF t
    <3>1. t \in Seq(Entries) /\ IsPrepended(t, e, s)
      BY <2>2, <1>5, PrependIsIn DEF t
    <3> QED
      BY <3>1 DEF IsPrepended
  <2> HIDE DEF t
  <2>4. h = [page.history EXCEPT ![p.id] = t]
    BY DEF t
  <2> HIDE DEF h
  <2>5. /\ h \in Histories
        /\ \A i \in Ids : h[i] = IF i = p.id THEN t ELSE page.history[i]
    BY <2>1, <2>3, <2>4, <1>3 DEF Histories
  <2>6. ASSUME NEW j \in DOMAIN t PROVE IsOf(t[j].n, t[j].payload, p.id, Past)
    <3>1. CASE j = 1
      <4>1. t[j] = e
        BY <3>1, <2>3
      <4> QED
        BY <4>1, <1>5
    <3>2. CASE j # 1
      <4>1. j \in 2 .. Len(s) + 1
        <5>1. j \in 1 .. Len(s) + 1 /\ Len(s) \in Nat
          BY <2>3
        <5> QED
          BY <5>1, <3>2
      <4>2. t[j] = s[j - 1] /\ j - 1 \in DOMAIN s
        BY <4>1, <2>3
      <4> QED
        BY <4>2, <2>1, <1>3 DEF HistoryOK
    <3> QED
      BY <3>1, <3>2
  <2> QED
    BY <2>1, <2>5, <2>6 DEF HistoryOK, t
<1>14. /\ p2.history = h /\ p2.stored = h
       /\ SameButHistory(p2, p1)
  <2>1. [p1 EXCEPT !.history[p.id] = Prepended(e, @)] = [p1 EXCEPT !.history = h]
    BY <1>12
  <2> HIDE DEF h
  <2>2. p2 = [p1 EXCEPT !.history = h, !.stored = h]
    BY <2>1, <1>7, <1>11 DEF persistHistory, PageOK, Pages
  <2> HIDE DEF p2
  <2>3. p2.history = h /\ p2.stored = h
    BY <2>2, <1>11 DEF PageOK, Pages
  <2>4. SameButHistory(p2, p1)
    BY <2>2, <2>3 DEF SameButHistory
  <2> QED
    BY <2>3, <2>4
<1> HIDE DEF p2, h
<1>15. /\ PageOK(p2, Past) /\ p2.responses = p1.responses /\ p2.calls = p1.calls
       /\ p2.form = p1.form /\ p2.selected = p1.selected /\ p2.publishers = p1.publishers
  <2>1. HistoryOK(p2.history, Past) /\ HistoryOK(p2.stored, Past)
    BY <1>13, <1>14
  <2> QED
    BY <2>1, <1>2, <1>11, <1>14, HistoryIsKept
<1>16. SendingOK(p2, Past) /\ FormOK(p2)
  <2>1. SameCalls(p2, page)
    BY <1>12, <1>15 DEF SameCalls
  <2>2. \A i \in Ids : p2.responses[i] = page.responses[i] \/ p2.responses[i].is # "sending"
    BY <1>4, <1>8, <1>12, <1>15
  <2>3. FormOK(p2)
    BY <1>2, <1>10, <1>15 DEF FormOK
  <2> QED
    BY <2>1, <2>2, <2>3, <1>2, SendingStays
<1>17. /\ PageOK(p3, Past) /\ PanelOK(p3, Past) /\ SameBeside(p3, p2)
       /\ SendingOK(p3, Past) /\ FormOK(p3)
  BY <1>2, <1>15, <1>16, RenderShows
<1> HIDE DEF p3
<1>18. /\ p3.calls = page.calls /\ p3.responses = p0.responses /\ p3.history = h
       /\ p3.stored = h
  BY <1>12, <1>14, <1>15, <1>17 DEF SameBeside
<1>19. /\ page' \in Pages /\ page'.calls = [p3.calls EXCEPT ![c] = Free]
       /\ SameButCalls(page', p3)
  <2>1. Free \in CallTypes
    BY BoundsAreNumbers DEF Free, CallTypes
  <2>2. page' = [p3 EXCEPT !.timer = TRUE, !.calls = [p3.calls EXCEPT ![c] = Free]]
    BY <1>1 DEF scheduleHistorySync
  <2>3. [p3.calls EXCEPT ![c] = Free] \in [Sends -> CallTypes]
    BY <2>1, <1>17 DEF PageOK, Pages
  <2> QED
    BY <2>2, <2>3, <1>17 DEF PageOK, Pages, SameButCalls
<1>20. p3.responses[p.id].is # "sending" /\ p.id = p3.calls[c].pub.id
  BY <1>4, <1>8, <1>18
<1>21. PageOK(page', Past) /\ SendingOK(page', Past)
  BY <1>2, <1>17, <1>19, <1>20, SendEnds
<1>22. PanelOK(page', Past) /\ FormOK(page')
  BY <1>17, <1>19 DEF SameButCalls, PanelOK, ShownOK, FormOK, Has, Selected,
    currentPublisher
<1>23. FiledOK(filed', rolled', page')
  <2>1. /\ page'.history = h /\ page'.stored = h /\ filed \in [Ids -> Seq(0 .. MaxSends)]
        /\ \A i \in Ids \ rolled : filed[i] = Numbers(page.history[i])
    BY <1>2, <1>18, <1>19 DEF FiledOK, SameButCalls
  <2>2. page.history[p.id] \in Seq(Entries)
    BY <1>2, <1>3 DEF PageOK, HistoryOK, Histories, Keys
  <2>3. p.id \notin rolled =>
           Numbers(Prepended(e, page.history[p.id])) = Prepended(call.n, filed[p.id])
    BY <2>1, <2>2, <1>3, <1>5, PrependIsNumbered
  <2>4. Prepended(call.n, filed[p.id]) \in Seq(0 .. MaxSends)
    BY <2>1, <1>3, PrependIsIn
  <2>5. /\ filed' \in [Ids -> Seq(0 .. MaxSends)]
        /\ \A i \in Ids : filed'[i] = IF i = p.id THEN Prepended(call.n, filed[p.id]) ELSE filed[i]
    BY <2>1, <2>4, <1>1, <1>3
  <2>6. ASSUME NEW i \in Ids \ rolled PROVE filed'[i] = Numbers(page'.history[i])
    <3>1. CASE i = p.id
      BY <3>1, <2>1, <2>3, <2>5, <1>13
    <3>2. CASE i # p.id
      BY <3>2, <2>1, <2>5, <1>13
    <3> QED
      BY <3>1, <3>2
  <2> QED
    BY <1>1, <1>2, <2>1, <2>5, <2>6 DEF FiledOK
<1> QED
  BY <1>2, <1>21, <1>22, <1>23, StepKeeps

\* The request fails: the panel shows it, whatever publisher is selected.
LEMMA FailsKeeps ==
  ASSUME IInv, NEW c \in Sends, publishFails(c)
  PROVE  IInv'
<1> DEFINE call == page.calls[c]
           p  == call.pub
           r  == Response(p, call.n, "error")
           p0 == setPublisherResponseState(page, p, r)
           p1 == [p0 EXCEPT !.response = r]
<1>1. /\ call.phase = "waiting" /\ Event
      /\ page' = [p0 EXCEPT !.response = r, !.calls[c] = Free]
      /\ world' = world /\ filed' = filed /\ rolled' = rolled
      /\ UNCHANGED <<nextId, nextSend, sent, touched, replaced, named>>
  BY DEF publishFails, ghosts
<1>2. /\ Past' = Past /\ Past \in Pasts /\ Past' \in Pasts
      /\ PageOK(page, Past) /\ FormOK(page) /\ SendingOK(page, Past)
      /\ FiledOK(filed, rolled, page)
      /\ WorldOK(world', Past') /\ events' \in 0 .. MaxEvents
  BY <1>1, PastStays, EventCounts DEF IInv
<1>3. /\ call \in CallTypes /\ p \in Publishers /\ Known(p, Past) /\ p.id \in Ids
      /\ call.n \in 0 .. MaxSends
  BY <1>1, <1>2 DEF PageOK, CallOK, Known, Publishers, CallTypes
<1>4. r \in States /\ r.of = p.id /\ r.is = "error"
  BY <1>3 DEF Response, States, Publishers
<1> HIDE DEF r
<1>5. /\ PageOK(p0, Past) /\ p0 = [page EXCEPT !.responses = p0.responses]
      /\ p0.responses[p.id] = r
      /\ \A i \in Ids \ {p.id} : p0.responses[i] = page.responses[i]
  BY <1>2, <1>3, <1>4, ResponseIsKept
<1> HIDE DEF p0
<1>6. /\ p0.calls = page.calls /\ p0.history = page.history /\ p0.stored = page.stored
      /\ p0.form = page.form /\ p0.selected = page.selected /\ p0.publishers = page.publishers
  BY <1>2, <1>5 DEF PageOK, Pages
<1>7. /\ p1 \in Pages /\ SameBeside(p1, p0) /\ p1.response = r
      /\ p1.form = p0.form /\ p1.selected = p0.selected
      /\ page' = [p1 EXCEPT !.calls = [p1.calls EXCEPT ![c] = Free]]
  BY <1>1, <1>4, <1>5 DEF PageOK, Pages, SameBeside
<1> HIDE DEF p1
<1>8. PageOK(p1, Past)
  <2>1. p1.form = None \/ Known(p1.form, Past)
    BY <1>2, <1>6, <1>7 DEF PageOK
  <2> QED
    BY <2>1, <1>2, <1>5, <1>7, PanelIsApart
<1>9. p1.calls = page.calls /\ p1.responses = p0.responses
  BY <1>6, <1>7 DEF SameBeside
<1>10. SendingOK(p1, Past)
  <2>1. SameCalls(p1, page)
    BY <1>9 DEF SameCalls
  <2>2. \A i \in Ids : p1.responses[i] = page.responses[i] \/ p1.responses[i].is # "sending"
    BY <1>4, <1>5, <1>9
  <2> QED
    BY <2>1, <2>2, <1>2, SendingStays
<1>11. /\ page' \in Pages /\ page'.calls = [p1.calls EXCEPT ![c] = Free]
       /\ SameButCalls(page', p1)
  <2>1. Free \in CallTypes
    BY BoundsAreNumbers DEF Free, CallTypes
  <2>2. [p1.calls EXCEPT ![c] = Free] \in [Sends -> CallTypes]
    BY <2>1, <1>8 DEF PageOK, Pages
  <2> QED
    BY <2>2, <1>7 DEF Pages, SameButCalls
<1>12. p1.responses[p.id].is # "sending" /\ p.id = p1.calls[c].pub.id
  BY <1>4, <1>5, <1>9
<1>13. PageOK(page', Past) /\ SendingOK(page', Past)
  BY <1>2, <1>8, <1>10, <1>11, <1>12, SendEnds
<1>14. PanelOK(page', Past)
  BY <1>4, <1>7, <1>11 DEF SameButCalls, PanelOK, ShownOK
<1>15. FormOK(page') /\ FiledOK(filed', rolled', page')
  BY <1>1, <1>2, <1>6, <1>7, <1>11 DEF SameBeside, SameButCalls, FormOK, FiledOK
<1> QED
  BY <1>2, <1>13, <1>14, <1>15, StepKeeps

-----------------------------------------------------------------------------
(* The history.                                                            *)

\* What was filed for a publisher is cleared.
LEMMA ClearedIsKept ==
  ASSUME NEW g \in Pasts, NEW history, HistoryOK(history, g), NEW h \in Histories,
         \A i \in Ids : h[i] = history[i] \/ h[i] = <<>>
  PROVE  HistoryOK(h, g)
BY DEF HistoryOK

\* Of two functions one has nothing for the publisher, and else what the other has.
Cleared(f, of, id) == f[id] = <<>> /\ \A i \in Ids \ {id} : f[i] = of[i]

\* What was filed of a publisher is forgotten with its history.
LEMMA FiledIsCleared ==
  ASSUME NEW f, NEW other, NEW pg, FiledOK(f, other, pg), NEW id \in Ids,
         NEW e \in [Ids -> Seq(0 .. MaxSends)], Cleared(e, f, id),
         NEW q, Cleared(q.history, pg.history, id), q.stored = q.history
  PROVE  FiledOK(e, other \ {id}, q)
<1>1. \A i \in Ids : e[i] = IF i = id THEN <<>> ELSE f[i]
  BY DEF FiledOK, Cleared
<1>2. Numbers(<<>>) = <<>>
  BY DEF Numbers
<1>3. ASSUME NEW i \in Ids \ (other \ {id}) PROVE e[i] = Numbers(q.history[i])
  <2>1. CASE i = id
    BY <2>1, <1>1, <1>2 DEF Cleared
  <2>2. CASE i # id
    BY <2>2, <1>1 DEF FiledOK, Cleared
  <2> QED
    BY <2>1, <2>2
<1> QED
  BY <1>1, <1>3 DEF FiledOK

\* The history of the selected publisher is cleared.
LEMMA ClearKeeps == ASSUME IInv, clearActivePublisherHistory PROVE IInv'
<1> DEFINE p  == Selected(page)
           h  == [page.history EXCEPT ![p.id] = <<>>]
           p1 == [page EXCEPT !.history = h, !.stored = h]
           p2 == renderSelectedPublisher(p1)
<1>1. /\ Has(page) /\ Event
      /\ page' = scheduleHistorySync(renderSelectedPublisher(persistHistory(
                   [page EXCEPT !.history[historyBucketKeyFor(p)] = <<>>])))
      /\ filed' = [filed EXCEPT ![p.id] = <<>>]
      /\ rolled' = rolled \ {p.id}
      /\ world' = world /\ UNCHANGED <<nextId, nextSend, sent, touched, replaced, named>>
  BY DEF clearActivePublisherHistory
<1>2. /\ Past' = Past /\ Past \in Pasts /\ Past' \in Pasts
      /\ PageOK(page, Past) /\ FormOK(page) /\ SendingOK(page, Past)
      /\ FiledOK(filed, rolled, page)
      /\ WorldOK(world', Past') /\ events' \in 0 .. MaxEvents
  BY <1>1, PastStays, EventCounts DEF IInv
<1>3. p.id \in Ids
  BY <1>1, <1>2, SelectedIsKnown DEF Publishers
<1>4. /\ h \in Histories /\ HistoryOK(page.history, Past)
      /\ h[p.id] = <<>> /\ \A i \in Ids \ {p.id} : h[i] = page.history[i]
  BY <1>2, <1>3 DEF PageOK, HistoryOK, Histories, Keys
<1> HIDE DEF h
<1>5. HistoryOK(h, Past)
  <2>1. \A i \in Ids : h[i] = page.history[i] \/ h[i] = <<>>
    BY <1>4
  <2> QED
    BY <2>1, <1>2, <1>4, ClearedIsKept
<1>6. page' = [p2 EXCEPT !.timer = TRUE]
  <2>1. [page EXCEPT !.history[historyBucketKeyFor(p)] = <<>>] = [page EXCEPT !.history = h]
    BY DEF historyBucketKeyFor, h
  <2>2. persistHistory([page EXCEPT !.history = h]) = p1
    BY <1>2 DEF persistHistory, PageOK, Pages
  <2> QED
    BY <2>1, <2>2, <1>1 DEF scheduleHistorySync
<1>7. p1.history = h /\ p1.stored = h
  BY <1>2 DEF PageOK, Pages
<1>8. SameButHistory(p1, page)
  BY <1>7 DEF SameButHistory
<1> HIDE DEF p1
<1>9. /\ PageOK(p1, Past) /\ p1.responses = page.responses /\ p1.calls = page.calls
      /\ p1.form = page.form /\ p1.selected = page.selected /\ p1.publishers = page.publishers
  <2>1. HistoryOK(p1.history, Past) /\ HistoryOK(p1.stored, Past)
    BY <1>5, <1>7
  <2> QED
    BY <2>1, <1>2, <1>8, HistoryIsKept
<1>10. SendingOK(p1, Past) /\ FormOK(p1)
  BY <1>2, <1>9 DEF SendingOK, FormOK
<1>11. /\ PageOK(p2, Past) /\ PanelOK(p2, Past) /\ SameBeside(p2, p1)
       /\ SendingOK(p2, Past) /\ FormOK(p2)
  BY <1>2, <1>9, <1>10, RenderShows
<1> HIDE DEF p2
<1>12. /\ page' \in Pages /\ SameBeside(page', p2)
       /\ page'.response = p2.response /\ page'.selected = p2.selected
       /\ page'.form = p2.form
  BY <1>6, <1>11 DEF PageOK, Pages, SameBeside
<1>13. PageOK(page', Past) /\ SendingOK(page', Past) /\ FormOK(page')
  <2>1. page'.form = None \/ Known(page'.form, Past)
    BY <1>11, <1>12 DEF PageOK
  <2>2. FormOK(page')
    BY <1>11, <1>12 DEF FormOK, SameBeside
  <2> QED
    BY <2>1, <2>2, <1>2, <1>11, <1>12, PanelIsApart
<1>14. PanelOK(page', Past)
  BY <1>11, <1>12 DEF SameBeside, PanelOK, ShownOK, Has, Selected, currentPublisher
<1>15. FiledOK(filed', rolled', page')
  <2>1. page'.history = h /\ page'.stored = h
    BY <1>7, <1>11, <1>12 DEF SameBeside
  <2>2. Cleared(page'.history, page.history, p.id)
    BY <2>1, <1>4 DEF Cleared
  <2>3. filed' \in [Ids -> Seq(0 .. MaxSends)] /\ Cleared(filed', filed, p.id)
    BY <1>1, <1>2, <1>3 DEF FiledOK, Cleared
  <2> QED
    BY <2>1, <2>2, <2>3, <1>1, <1>2, <1>3, FiledIsCleared
<1> QED
  BY <1>2, <1>13, <1>14, <1>15, StepKeeps

\* Two pages that differ in what the server has, and in the timer.
SameButConfig(q, pg) ==
  /\ q.publishers = pg.publishers /\ q.responses = pg.responses /\ q.calls = pg.calls
  /\ q.history = pg.history /\ q.stored = pg.stored /\ q.cache = pg.cache
  /\ q.deleting = pg.deleting /\ q.response = pg.response /\ q.selected = pg.selected
  /\ q.form = pg.form

\* The history is saved, or the request fails.
LEMMA HistorySyncKeeps == ASSUME IInv, historySync PROVE IInv'
<1>1. /\ \/ /\ world' = [publishers |-> page.publishers, history |-> page.history]
            /\ page' = [page EXCEPT !.timer = FALSE, !.config = page.history]
            /\ events' = events
         \/ /\ Event
            /\ page' = [page EXCEPT !.timer = FALSE]
            /\ world' = world
      /\ filed' = filed /\ rolled' = rolled
      /\ UNCHANGED <<nextId, nextSend, sent, touched, replaced, named>>
  BY DEF historySync, ghosts
<1>2. /\ Past' = Past /\ Past \in Pasts /\ Past' \in Pasts
      /\ PageOK(page, Past) /\ PanelOK(page, Past) /\ FormOK(page) /\ SendingOK(page, Past)
      /\ FiledOK(filed, rolled, page) /\ WorldOK(world, Past) /\ events' \in 0 .. MaxEvents
  BY <1>1, PastStays, EventCounts DEF IInv
<1>3. ListOK(page.publishers, Past) /\ HistoryOK(page.history, Past) /\ HistoryOK(page.config, Past)
  BY <1>2 DEF PageOK
<1>4. WorldOK(world', Past)
  BY <1>1, <1>2, <1>3 DEF WorldOK, ListOK, HistoryOK
<1>5. /\ page' \in Pages /\ SameButConfig(page', page) /\ HistoryOK(page'.config, Past)
  BY <1>1, <1>2, <1>3 DEF PageOK, Pages, SameButConfig, HistoryOK
<1>6. PageOK(page', Past)
  BY <1>2, <1>5 DEF PageOK, SameButConfig
<1>7. /\ PanelOK(page', Past) /\ FormOK(page') /\ SendingOK(page', Past)
      /\ FiledOK(filed', rolled', page')
  BY <1>1, <1>2, <1>5 DEF SameButConfig, PanelOK, ShownOK, Has, Selected, currentPublisher,
    FormOK, SendingOK, FiledOK
<1> QED
  BY <1>2, <1>4, <1>6, <1>7, StepKeeps

-----------------------------------------------------------------------------
(* Deleting, saving the workspace, loading the page.                       *)

\* A list without one of its publishers.
Without(list, i) ==
  [j \in 1 .. Len(list) - 1 |-> list[IF j < i THEN j ELSE j + 1]]

\* It is in order.
LEMMA RestIsInOrder ==
  ASSUME NEW g \in Pasts, NEW list, ListOK(list, g), list # <<>>, NEW i \in DOMAIN list
  PROVE  /\ ListOK(Without(list, i), g)
         /\ \A j \in DOMAIN Without(list, i) :
              \E k \in DOMAIN list : Without(list, i)[j] = list[k]
         /\ \A k \in DOMAIN list : k # i =>
              \E j \in DOMAIN Without(list, i) : Without(list, i)[j] = list[k]
         /\ \A j \in DOMAIN Without(list, i) : Without(list, i)[j].id # list[i].id
<1> DEFINE n == Len(list)
           rest == Without(list, i)
<1>1. /\ n \in Nat /\ DOMAIN list = 1 .. n /\ n - 1 \in Nat /\ i \in 1 .. n
      /\ \A k \in 1 .. n : list[k] \in Publishers
  BY DEF ListOK
<1>2. \A j \in 1 .. n - 1 : (IF j < i THEN j ELSE j + 1) \in 1 .. n
  BY <1>1
<1>3. rest = [j \in 1 .. n - 1 |-> list[IF j < i THEN j ELSE j + 1]]
  BY DEF Without
<1> HIDE DEF n, rest
<1>4. /\ DOMAIN rest = 1 .. n - 1 /\ rest \in Seq(Publishers)
      /\ \A j \in 1 .. n - 1 : rest[j] = list[IF j < i THEN j ELSE j + 1]
  BY <1>1, <1>2, <1>3
<1>5. ASSUME NEW j \in DOMAIN rest PROVE \E k \in DOMAIN list : rest[j] = list[k]
  BY <1>1, <1>2, <1>4
<1>6. ListOK(rest, g)
  <2>1. ASSUME NEW j \in 1 .. n - 1, NEW k \in 1 .. n - 1, rest[j].id = rest[k].id
        PROVE  j = k
    <3>1. list[IF j < i THEN j ELSE j + 1].id = list[IF k < i THEN k ELSE k + 1].id
      BY <2>1, <1>4
    <3>2. (IF j < i THEN j ELSE j + 1) = (IF k < i THEN k ELSE k + 1)
      BY <3>1, <1>1, <1>2 DEF ListOK
    <3> QED
      BY <3>2, <1>1
  <2> QED
    BY <2>1, <1>4, <1>5 DEF ListOK
<1>7. ASSUME NEW k \in DOMAIN list, k # i PROVE \E j \in DOMAIN rest : rest[j] = list[k]
  <2> DEFINE j == IF k < i THEN k ELSE k - 1
  <2>1. j \in 1 .. n - 1 /\ k = IF j < i THEN j ELSE j + 1
    BY <1>1, <1>7
  <2> HIDE DEF j
  <2>2. rest[j] = list[k]
    BY <2>1, <1>4
  <2> QED
    BY <2>1, <2>2, <1>4
<1>8. ASSUME NEW j \in DOMAIN rest PROVE rest[j].id # list[i].id
  <2> DEFINE k == IF j < i THEN j ELSE j + 1
  <2>1. k \in 1 .. n /\ k # i
    BY <1>1, <1>2, <1>4
  <2>2. rest[j] = list[k]
    BY <1>4
  <2> HIDE DEF k
  <2> QED
    BY <2>1, <2>2, <1>1 DEF ListOK
<1> QED
  BY <1>5, <1>6, <1>7, <1>8 DEF rest

\* A publisher is deleted, and what was kept for it.
LEMMA DeleteKeeps == ASSUME IInv, deleteCurrentPublisherAction PROVE IInv'
<1> DEFINE i == currentPublisher(page)
           p == Selected(page)
           rest == Without(page.publishers, i)
           gone == publisherStorageKeysFor(p)
           local == [k \in Keys |-> IF k \in gone THEN None ELSE page.local[k]]
           h == [k \in Keys |-> IF k \in gone THEN <<>> ELSE page.history[k]]
           responses == [k \in Keys |-> IF k \in gone THEN None ELSE page.responses[k]]
           deleting == [at |-> i, posted |-> rest]
           calls == [c \in Sends |->
                       IF page.calls[c].attached /\ page.calls[c].pub.id = p.id
                       THEN [page.calls[c] EXCEPT !.attached = FALSE] ELSE page.calls[c]]
<1>1. /\ Has(page) /\ Event
      /\ page' = persistHistory([page EXCEPT !.publishers = rest, !.deleting = deleting,
                                             !.local = local, !.history = h,
                                             !.responses = responses, !.calls = calls])
      /\ filed' = [filed EXCEPT ![p.id] = <<>>]
      /\ rolled' = rolled \ {p.id}
      /\ world' = world /\ UNCHANGED <<nextId, nextSend, sent, touched, replaced, named>>
  <2>1. page \in Pages
    BY DEF IInv, PageOK
  <2> QED
    BY <2>1 DEF deleteCurrentPublisherAction, Without, Pages
<1>2. /\ Past' = Past /\ Past \in Pasts /\ Past' \in Pasts
      /\ PageOK(page, Past) /\ FormOK(page) /\ SendingOK(page, Past)
      /\ FiledOK(filed, rolled, page)
      /\ WorldOK(world', Past') /\ events' \in 0 .. MaxEvents
  BY <1>1, PastStays, EventCounts DEF IInv
<1>3. /\ p.id \in Ids /\ i \in DOMAIN page.publishers /\ i \in Nat /\ page.publishers[i] = p
      /\ page.selected \in DOMAIN page.publishers => page.selected = i
  BY <1>1, <1>2, SelectedIsKnown DEF Publishers, Selected, currentPublisher, Has
<1>4. /\ ListOK(page.publishers, Past) /\ page.publishers # <<>>
      /\ HistoryOK(page.history, Past) /\ page.history \in Histories
      /\ ResponsesOK(page.responses, Past)
      /\ page.responses \in [Keys -> States \cup {None}]
  BY <1>1, <1>2 DEF PageOK, Has, HistoryOK, ResponsesOK
<1> HIDE DEF i, p
<1>5. /\ ListOK(rest, Past)
      /\ \A j \in DOMAIN rest : \E k \in DOMAIN page.publishers : rest[j] = page.publishers[k]
      /\ \A k \in DOMAIN page.publishers : k # i =>
           \E j \in DOMAIN rest : rest[j] = page.publishers[k]
      /\ \A j \in DOMAIN rest : rest[j].id # p.id
  BY <1>2, <1>3, <1>4, RestIsInOrder
<1> HIDE DEF rest
<1>6. deleting \in Deletions /\ deleting.posted = rest
  BY <1>3, <1>5 DEF Deletions, ListOK
<1>7. p.id \in gone /\ \A k \in Ids \ {p.id} : k \notin gone
  BY <1>3, IdsAreNoNames DEF publisherStorageKeysFor
<1> HIDE DEF gone
<1>8. local \in [Keys -> Payloads \cup {None}]
  BY <1>2 DEF PageOK, Pages
<1>9. /\ h \in Histories /\ Cleared(h, page.history, p.id)
      /\ \A k \in Ids : h[k] = page.history[k] \/ h[k] = <<>>
  <2>1. \A k \in Keys : <<>> \in Seq(Entries) /\ page.history[k] \in Seq(Entries)
    BY <1>4 DEF Histories
  <2>2. h \in Histories
    BY <2>1 DEF Histories
  <2> QED
    BY <2>2, <1>3, <1>7 DEF Cleared, Keys
<1>10. /\ \A k \in Keys : responses[k] = page.responses[k] \/ responses[k] = None
       /\ responses \in [Keys -> States \cup {None}]
  BY <1>4
<1> HIDE DEF h, responses, local, deleting
<1>11. HistoryOK(h, Past)
  BY <1>2, <1>4, <1>9, ClearedIsKept
<1>12. ResponsesOK(responses, Past)
  BY <1>4, <1>10 DEF ResponsesOK, Keys
<1>13. ASSUME NEW c \in Sends
       PROVE  /\ calls[c] \in CallTypes /\ CallOK(calls[c], rest, Past)
              /\ calls[c].phase = page.calls[c].phase /\ calls[c].n = page.calls[c].n
              /\ calls[c].pub = page.calls[c].pub
  <2>1. CallOK(page.calls[c], page.publishers, Past) /\ page.calls[c] \in CallTypes
    BY <1>2 DEF PageOK, CallOK
  <2>2. CASE page.calls[c].attached /\ page.calls[c].pub.id = p.id
    <3>1. calls[c] = [page.calls[c] EXCEPT !.attached = FALSE]
      BY <2>2
    <3> HIDE DEF calls
    <3>2. /\ calls[c] \in CallTypes /\ calls[c].phase = page.calls[c].phase
          /\ calls[c].n = page.calls[c].n /\ calls[c].pub = page.calls[c].pub
          /\ calls[c].attached = FALSE
      BY <2>1, <3>1 DEF CallTypes
    <3> QED
      BY <2>1, <3>2 DEF CallOK
  <2>3. CASE ~ (page.calls[c].attached /\ page.calls[c].pub.id = p.id)
    <3>1. calls[c] = page.calls[c]
      BY <2>3
    <3> HIDE DEF calls
    <3>2. page.calls[c].attached => \E j \in DOMAIN rest : rest[j] = page.calls[c].pub
      <4> HAVE page.calls[c].attached
      <4>1. PICK k \in DOMAIN page.publishers : page.publishers[k] = page.calls[c].pub
        BY <2>1 DEF CallOK
      <4>2. k # i
        BY <4>1, <2>3, <1>3
      <4> QED
        BY <4>1, <4>2, <1>5
    <3> QED
      BY <2>1, <3>1, <3>2 DEF CallOK
  <2> QED
    BY <2>2, <2>3
<1> HIDE DEF calls
<1>14. /\ page' \in Pages /\ page'.publishers = rest /\ page'.deleting = deleting
       /\ page'.history = h /\ page'.stored = h /\ page'.responses = responses
       /\ page'.calls = calls /\ page'.cache = page.cache /\ page'.config = page.config
       /\ page'.form = page.form /\ page'.selected = page.selected
  <2>1. calls \in [Sends -> CallTypes]
    BY <1>13 DEF calls
  <2> QED
    BY <2>1, <1>1, <1>2, <1>5, <1>6, <1>8, <1>9, <1>10
    DEF PageOK, Pages, persistHistory, ListOK
<1>15. PageOK(page', Past)
  BY <1>2, <1>5, <1>6, <1>11, <1>12, <1>13, <1>14 DEF PageOK
<1>16. PanelOK(page', Past)
  BY <1>6, <1>14, NoneIsNothing DEF PanelOK
<1>17. SendingOK(page', Past)
  <2>1. SameCalls(page', page)
    BY <1>13, <1>14 DEF SameCalls
  <2>2. \A k \in Ids : page'.responses[k] = page.responses[k] \/ page'.responses[k] = None
    BY <1>10, <1>14 DEF Keys
  <2> QED
    BY <2>1, <2>2, <1>2, SendingStays
<1>18. FiledOK(filed', rolled', page')
  <2>1. Cleared(page'.history, page.history, p.id)
    BY <1>9, <1>14
  <2>2. filed' \in [Ids -> Seq(0 .. MaxSends)] /\ Cleared(filed', filed, p.id)
    BY <1>1, <1>2, <1>3 DEF FiledOK, Cleared
  <2> QED
    BY <2>1, <2>2, <1>1, <1>2, <1>3, <1>14, FiledIsCleared
<1>19. FormOK(page')
  <2> SUFFICES ASSUME page.form # None, NEW j \in DOMAIN rest, rest[j].id = page.form.id
               PROVE  FALSE
    BY <1>14 DEF FormOK
  <2>1. PICK k \in DOMAIN page.publishers : rest[j] = page.publishers[k]
    BY <1>5
  <2>2. k = i
    BY <2>1, <1>2, <1>3 DEF FormOK
  <2> QED
    BY <2>1, <2>2, <1>3, <1>5
<1> QED
  BY <1>2, <1>15, <1>16, <1>17, <1>18, <1>19, StepKeeps

\* The deletion is saved, and the list is the one that was posted; or it is not.
\* Then the panel is rendered.
LEMMA DeletionSavedKeeps == ASSUME IInv, deletionSaved PROVE IInv'
<1> DEFINE at == page.deleting.at
           posted == page.deleting.posted
           n == normalizePublishers(page, posted)
<1>1. /\ page.deleting # None
      /\ \/ /\ world' = [publishers |-> posted, history |-> page.config]
            /\ page' = [restorePublisherStateFromView(n, at) EXCEPT !.deleting = None]
            /\ events' = events
         \/ /\ Event
            /\ page' = [restorePublisherStateFromView(page, at) EXCEPT !.deleting = None]
            /\ world' = world
      /\ filed' = filed /\ rolled' = rolled
      /\ UNCHANGED <<nextId, nextSend, sent, touched, replaced, named>>
  BY DEF deletionSaved, ghosts
<1>2. /\ Past' = Past /\ Past \in Pasts /\ Past' \in Pasts
      /\ PageOK(page, Past) /\ SendingOK(page, Past)
      /\ FiledOK(filed, rolled, page) /\ WorldOK(world, Past) /\ events' \in 0 .. MaxEvents
  BY <1>1, PastStays, EventCounts DEF IInv
<1>3. at \in Nat /\ ListOK(posted, Past) /\ HistoryOK(page.config, Past)
  BY <1>1, <1>2 DEF PageOK, Pages, Deletions
<1>4. WorldOK(world', Past)
  BY <1>1, <1>2, <1>3 DEF WorldOK, ListOK, HistoryOK
<1>5. PageOK(n, Past) /\ SameCalls(n, page) /\ SameButList(n, page)
  BY <1>2, <1>3, NormalizedIsKept
<1>6. SendingOK(n, Past) /\ n.history = page.history /\ n.stored = page.stored
  <2>1. \A i \in Ids : n.responses[i] = page.responses[i]
    BY <1>5 DEF SameButList
  <2>2. SendingOK(n, Past)
    BY <2>1, <1>2, <1>5, SendingStays
  <2> QED
    BY <2>2, <1>5 DEF SameButList
<1> HIDE DEF n
<1>7. PICK pg : /\ PageOK(pg, Past) /\ SendingOK(pg, Past)
                /\ pg.history = page.history /\ pg.stored = page.stored
                /\ page' = [restorePublisherStateFromView(pg, at) EXCEPT !.deleting = None]
  BY <1>1, <1>2, <1>5, <1>6
<1> DEFINE q == restorePublisherStateFromView(pg, at)
<1>8. /\ PageOK(q, Past) /\ ShownOK(q, Past) /\ SameBeside(q, pg)
      /\ FormOK(q) /\ SendingOK(q, Past)
  BY <1>2, <1>3, <1>7, RestoreShows
<1>9. page' = [q EXCEPT !.deleting = None]
  BY <1>7
<1> HIDE DEF q
<1>10. /\ page' \in Pages /\ page'.deleting = None
       /\ page'.publishers = q.publishers /\ page'.responses = q.responses
       /\ page'.history = q.history /\ page'.stored = q.stored /\ page'.cache = q.cache
       /\ page'.config = q.config /\ page'.calls = q.calls
       /\ page'.response = q.response /\ page'.selected = q.selected /\ page'.form = q.form
  BY <1>8, <1>9 DEF PageOK, Pages
<1>11. PageOK(page', Past)
  BY <1>8, <1>10 DEF PageOK
<1>12. PanelOK(page', Past)
  BY <1>8, <1>10 DEF PanelOK, ShownOK, Has, Selected, currentPublisher
<1>13. SendingOK(page', Past) /\ FormOK(page') /\ FiledOK(filed', rolled', page')
  <2>1. SendingOK(page', Past)
    BY <1>8, <1>10 DEF SendingOK
  <2>2. FormOK(page')
    BY <1>8, <1>10 DEF FormOK
  <2>3. page'.history = page.history /\ page'.stored = page.stored
    BY <1>7, <1>8, <1>10 DEF SameBeside
  <2>4. FiledOK(filed', rolled', page')
    BY <2>3, <1>1, <1>2 DEF FiledOK
  <2> QED
    BY <2>1, <2>2, <2>4
<1> QED
  BY <1>2, <1>4, <1>11, <1>12, <1>13, StepKeeps

\* Where another copy of the history is taken, what was answered is not compared.
LEMMA TakenIsFiled ==
  ASSUME NEW f, NEW other, NEW pg, FiledOK(f, other, pg), NEW q, NEW rolls \in BOOLEAN,
         NEW more, more = other \cup {i \in Ids : rolls /\ q.history[i] # pg.history[i]},
         ~ rolls => q.history = pg.stored,
         q.stored = pg.stored \/ q.stored = q.history
  PROVE  FiledOK(f, more, q)
<1>1. ASSUME NEW i \in Ids \ more
      PROVE  f[i] = Numbers(q.history[i]) /\ q.stored[i] = q.history[i]
  <2>1. i \notin other /\ f[i] = Numbers(pg.history[i]) /\ pg.stored[i] = pg.history[i]
    BY <1>1 DEF FiledOK
  <2>2. q.history[i] = pg.history[i]
    BY <2>1, <1>1
  <2> QED
    BY <2>1, <2>2
<1> QED
  BY <1>1 DEF FiledOK

\* The views are set up again after the workspace was saved.
LEMMA WorkspaceSavedKeeps == ASSUME IInv, workspaceSaved PROVE IInv'
<1> DEFINE rolls == hasPublisherHistoryEntries(page.cache)
                      \/ ~ hasPublisherHistoryEntries(page.stored)
<1>1. /\ Event /\ filed' = filed
      /\ rolled' = rolled \cup {i \in Ids : rolls /\ page'.history[i] # page.history[i]}
      /\ world' = [publishers |-> page.publishers, history |-> page.config]
      /\ page' = initPublishers(page)
      /\ UNCHANGED <<nextId, nextSend, sent, touched, replaced, named>>
  BY DEF workspaceSaved, Rolls
<1>2. /\ Past' = Past /\ Past \in Pasts /\ Past' \in Pasts
      /\ PageOK(page, Past) /\ FiledOK(filed, rolled, page)
      /\ events' \in 0 .. MaxEvents
  BY <1>1, PastStays, EventCounts DEF IInv
<1>3. WorldOK(world', Past)
  BY <1>1, <1>2 DEF WorldOK, PageOK, ListOK, HistoryOK
<1>4. /\ PageOK(page', Past) /\ PanelOK(page', Past) /\ FormOK(page')
      /\ SendingOK(page', Past) /\ Takes(page', page)
  BY <1>1, <1>2, InitPublishersIsKept
<1>5. rolls \in BOOLEAN /\ (~ rolls => page'.history = page.stored)
  BY <1>4 DEF Takes, hasPublisherHistoryEntries
<1>6. page'.stored = page.stored \/ page'.stored = page'.history
  BY <1>4 DEF Takes
<1> HIDE DEF rolls
<1>7. FiledOK(filed', rolled', page')
  BY <1>1, <1>2, <1>5, <1>6, TakenIsFiled
<1> QED
  BY <1>2, <1>3, <1>4, <1>7, StepKeeps

\* The page is loaded again.
LEMMA ReloadKeeps == ASSUME IInv, Reload PROVE IInv'
<1> DEFINE rolls == ~ hasPublisherHistoryEntries(page.stored)
<1>1. /\ Event /\ page' = Loaded(page.local, page.stored, page.selected)
      /\ rolled' = rolled \cup {i \in Ids : rolls /\ page'.history[i] # page.history[i]}
      /\ filed' = filed /\ world' = world
      /\ UNCHANGED <<nextId, nextSend, sent, touched, replaced, named>>
  BY DEF Reload, Rolls
<1>2. /\ Past' = Past /\ Past \in Pasts /\ Past' \in Pasts
      /\ PageOK(page, Past) /\ FiledOK(filed, rolled, page) /\ WorldOK(world, Past)
      /\ WorldOK(world', Past) /\ events' \in 0 .. MaxEvents
  BY <1>1, PastStays, EventCounts DEF IInv
<1>3. /\ page.local \in [Keys -> Payloads \cup {None}] /\ HistoryOK(page.stored, Past)
      /\ page.selected \in Nat
  BY <1>2 DEF PageOK, Pages
<1>4. /\ PageOK(page', Past) /\ PanelOK(page', Past) /\ FormOK(page')
      /\ SendingOK(page', Past)
      /\ page'.history = IF hasPublisherHistoryEntries(page.stored) THEN page.stored
                         ELSE world.history
      /\ page'.stored = page'.history
  BY <1>1, <1>2, <1>3, LoadedIsKept
<1>5. rolls \in BOOLEAN /\ (~ rolls => page'.history = page.stored)
  BY <1>4 DEF hasPublisherHistoryEntries
<1> HIDE DEF rolls
<1>6. FiledOK(filed', rolled', page')
  BY <1>1, <1>2, <1>4, <1>5, TakenIsFiled
<1> QED
  BY <1>2, <1>4, <1>6, StepKeeps

-----------------------------------------------------------------------------
(* The theorems.                                                           *)

\* The page is loaded from what the server has, of which a name may have a
\* history of an earlier version.
LEMMA InitInvariant == Init => IInv
<1> SUFFICES ASSUME Init PROVE IInv
  OBVIOUS
<1>1. PICK name \in Names, legacy \in BOOLEAN :
        world = [publishers |-> <<[id |-> 1, name |-> name, payload |-> 0]>>,
                 history |-> IF legacy
                             THEN [NoHistory EXCEPT ![name] = <<[n |-> 0, payload |-> 0]>>]
                             ELSE NoHistory]
  BY DEF Init
<1> DEFINE p == [id |-> 1, name |-> name, payload |-> 0]
           e == [n |-> 0, payload |-> 0]
<1>2. /\ page = Loaded(Nothing, NoHistory, 1)
      /\ nextId = 2 /\ nextSend = 1 /\ events = 0
      /\ filed = [i \in Ids |-> <<>>]
      /\ rolled = {}
      /\ sent = [n \in 1 .. MaxSends |-> [of |-> 1, payload |-> 0]]
      /\ touched = {} /\ replaced = {}
      /\ named = {<<1, world.publishers[1].name>>}
  BY DEF Init
<1>3. p \in Publishers /\ 1 \in Ids /\ name \in Labels
  BY BoundsAreNumbers DEF Publishers, Ids, Labels, Payloads
<1>4. e \in Entries
  BY BoundsAreNumbers DEF Entries, Payloads
<1>5. named = {<<1, name>>}
  BY <1>1, <1>2
<1>6. Past \in Pasts
  <2>1. /\ 2 \in 1 .. MaxId + 1 /\ 1 \in 1 .. MaxSends + 1
        /\ [of |-> 1, payload |-> 0] \in SentRequests
    BY <1>3, BoundsAreNumbers DEF Payloads, SentRequests
  <2>2. {<<1, name>>} \subseteq Ids \X Labels
    BY <1>3
  <2> QED
    BY <2>1, <2>2, <1>2, <1>5 DEF Past, Pasts
<1>7. /\ NoHistory \in Histories /\ HistoryOK(NoHistory, Past)
      /\ ~ hasPublisherHistoryEntries(NoHistory)
  <2>1. NoHistory \in [Keys -> Seq(Entries)] /\ \A k \in Keys : NoHistory[k] = <<>>
    BY DEF NoHistory
  <2> QED
    BY <2>1 DEF Histories, HistoryOK, hasPublisherHistoryEntries, Keys
<1>8. /\ HistoryOK(world.history, Past)
      /\ \A i \in Ids : world.history[i] = <<>>
  <2> DEFINE h == [NoHistory EXCEPT ![name] = <<e>>]
  <2>1. \A i \in Ids : i # name
    BY IdsAreNoNames
  <2>2. <<e>> \in Seq(Entries)
    BY <1>4
  <2>3. h \in Histories /\ \A i \in Ids : h[i] = <<>>
    BY <2>1, <2>2, <1>7 DEF Histories, NoHistory, Keys
  <2>4. \A i \in Ids : NoHistory[i] = <<>>
    BY DEF NoHistory, Keys
  <2>5. world.history = h \/ world.history = NoHistory
    BY <1>1
  <2> HIDE DEF h
  <2>6. HistoryOK(h, Past)
    BY <2>3 DEF HistoryOK
  <2> QED
    BY <2>3, <2>4, <2>5, <2>6, <1>7
<1>9. WorldOK(world, Past)
  <2>1. world.publishers = <<p>> /\ world.history \in Histories
    BY <1>1, <1>8 DEF HistoryOK
  <2>2. Known(p, Past)
    <3>1. Past.nextId = 2 /\ Past.named = {<<1, name>>}
      BY <1>2, <1>5 DEF Past
    <3>2. p \in Publishers /\ p.id = 1 /\ p.name = name
      BY <1>3
    <3> QED
      BY <3>1, <3>2 DEF Known
  <2> HIDE DEF p
  <2>3. ListOK(<<p>>, Past)
    BY <2>2, <1>3 DEF ListOK
  <2>4. world \in [publishers : Seq(Publishers), history : Histories]
    <3>1. world = [publishers |-> world.publishers, history |-> world.history]
      BY <1>1
    <3> QED
      BY <3>1, <2>1, <2>3 DEF ListOK
  <2> QED
    BY <2>1, <2>3, <2>4, <1>8 DEF WorldOK
<1> HIDE DEF p, e
<1>10. Nothing \in [Keys -> Payloads \cup {None}] /\ 1 \in Nat
  BY DEF Nothing
<1>11. /\ PageOK(page, Past) /\ PanelOK(page, Past) /\ FormOK(page) /\ SendingOK(page, Past)
       /\ page.history = world.history /\ page.stored = page.history
  BY <1>2, <1>6, <1>7, <1>9, <1>10, LoadedIsKept
<1>12. FiledOK(filed, rolled, page)
  <2>1. Numbers(<<>>) = <<>>
    BY DEF Numbers
  <2> QED
    BY <2>1, <1>2, <1>8, <1>11 DEF FiledOK
<1>13. events \in 0 .. MaxEvents
  BY <1>2, BoundsAreNumbers
<1> QED
  BY <1>6, <1>9, <1>11, <1>12, <1>13 DEF IInv

\* Every step keeps it.
LEMMA NextKeeps == IInv /\ [Next]_vars => IInv'
<1> SUFFICES ASSUME IInv, [Next]_vars PROVE IInv'
  OBVIOUS
<1>1. CASE addPublisherAction
  BY <1>1, AddKeeps
<1>2. CASE cloneCurrentPublisherAction
  BY <1>2, CloneKeeps
<1>3. CASE beautifyPublisherPayloadAction
  BY <1>3, BeautifyKeeps
<1>4. CASE clearActivePublisherHistory
  BY <1>4, ClearKeeps
<1>5. CASE historySync
  BY <1>5, HistorySyncKeeps
<1>6. CASE deleteCurrentPublisherAction
  BY <1>6, DeleteKeeps
<1>7. CASE deletionSaved
  BY <1>7, DeletionSavedKeeps
<1>8. CASE workspaceSaved
  BY <1>8, WorkspaceSavedKeeps
<1>9. CASE Reload
  BY <1>9, ReloadKeeps
<1>10. ASSUME NEW payload \in 0 .. 1, updatePublisherPayload(payload) PROVE IInv'
  BY <1>10, PayloadKeeps DEF Payloads
<1>11. ASSUME NEW i \in Ids, selectPublisher(i) PROVE IInv'
  BY <1>11, SelectKeeps
<1>12. ASSUME NEW name \in Names \cup {None}, renderPublisherForm(name) PROVE IInv'
  BY <1>12, FormKeeps DEF Labels
<1>13. ASSUME NEW name \in Names, saveCurrentPublisherVariantAction(name) PROVE IInv'
  BY <1>13, VariantKeeps
<1>14. ASSUME NEW name \in Names, NEW i \in 1 .. MaxSends,
              savePublisherHistoryAsPublisherAction(i, name)
       PROVE  IInv'
  BY <1>14, HistoryAsPublisherKeeps
<1>15. ASSUME NEW i \in 1 .. MaxSends, showPublisherHistoryEntry(i) PROVE IInv'
  BY <1>15, ShowKeeps
<1>16. ASSUME NEW c \in Sends, sendPublisherAction(c) PROVE IInv'
  BY <1>16, SendKeeps
<1>17. ASSUME NEW c \in Sends, answered(c) PROVE IInv'
  BY <1>17, AnsweredKeeps
<1>18. ASSUME NEW c \in Sends, publishFails(c) PROVE IInv'
  BY <1>18, FailsKeeps
<1>19. ASSUME NEW c \in Sends, NEW i \in 1 .. MaxSends, resendPublisherHistoryAction(c, i)
       PROVE  IInv'
  BY <1>19, ResendKeeps
<1>20. CASE UNCHANGED vars
  <2>1. /\ page' = page /\ world' = world /\ events' = events /\ filed' = filed
        /\ rolled' = rolled
        /\ UNCHANGED <<nextId, nextSend, sent, touched, replaced, named>>
    BY <1>20 DEF vars, bounds, ghosts
  <2>2. Past' = Past
    BY <2>1 DEF Past
  <2> QED
    BY <2>1, <2>2 DEF IInv
<1> QED
  BY <1>1, <1>2, <1>3, <1>4, <1>5, <1>6, <1>7, <1>8, <1>9, <1>10, <1>11, <1>12, <1>13,
     <1>14, <1>15, <1>16, <1>17, <1>18, <1>19, <1>20 DEF Next

\* Whatever the order of sends, answers, edits, deletions, saves and loads: no id
\* is in the list twice, what is kept under an id is of that publisher, and a send
\* under way has the publisher of the list or one that was taken from it.
THEOREM Invariant == Spec => []IInv
<1>1. Init => IInv
  BY InitInvariant
<1>2. IInv /\ [Next]_vars => IInv'
  BY NextKeeps
<1> QED
  BY <1>1, <1>2, PTL DEF Spec

\* The view keeps publishers, responses and histories where they belong: what a
\* function of the view leaves behind is a page again.
THEOREM TypeCorrect == Spec => []TypeOK
<1>1. IInv => TypeOK
  <2> SUFFICES ASSUME IInv PROVE TypeOK
    OBVIOUS
  <2>1. page \in Pages /\ world \in [publishers : Seq(Publishers), history : Histories]
    BY DEF IInv, PageOK, WorldOK
  <2>2. /\ nextId \in 1 .. MaxId + 1 /\ nextSend \in 1 .. MaxSends + 1
        /\ sent \in [1 .. MaxSends -> SentRequests] /\ touched \subseteq 1 .. MaxSends
        /\ replaced \subseteq Ids /\ named \subseteq Ids \X (Names \cup {None})
    BY DEF IInv, Past, Pasts, Labels
  <2>3. /\ events \in 0 .. MaxEvents /\ filed \in [Ids -> Seq(0 .. MaxSends)]
        /\ rolled \subseteq Ids
    BY DEF IInv, FiledOK
  <2> QED
    BY <2>1, <2>2, <2>3 DEF TypeOK, Pages, CallTypes
<1> QED
  BY <1>1, Invariant, PTL

\* A late answer is filed for the publisher that was sent, with the payload that was
\* sent unless the publisher was edited before it (sendPublisherAction after its
\* await).  The history of a publisher is all that was answered for it, but for
\* those of which hydrateHistory took another copy: of these the theorem says that
\* no entry is made up, and not that none is lost.
THEOREM AnswersAreKept == Spec => []AnswersAreFiled
<1>1. IInv => AnswersAreFiled
  <2> SUFFICES ASSUME IInv, NEW i \in DOMAIN page.publishers
               PROVE  LET id == page.publishers[i].id
                          entries == page.history[id]
                      IN  /\ id \notin rolled => filed[id] = Numbers(entries)
                          /\ \A j \in DOMAIN entries :
                               LET n == entries[j].n
                               IN  \/ n \in touched
                                   \/ sent[n] = [of |-> id, payload |-> entries[j].payload]
    BY DEF AnswersAreFiled
  <2> DEFINE id == page.publishers[i].id
             entries == page.history[id]
  <2>1. id \in Ids
    BY DEF IInv, PageOK, ListOK, Known, Publishers
  <2>2. id \notin rolled => filed[id] = Numbers(entries)
    BY <2>1 DEF IInv, FiledOK
  <2>3. \A j \in DOMAIN entries : IsOf(entries[j].n, entries[j].payload, id, Past)
    BY <2>1 DEF IInv, PageOK, HistoryOK
  <2> QED
    BY <2>2, <2>3 DEF IsOf, Past
<1> QED
  BY <1>1, Invariant, PTL

\* The panel never keeps the answer of a publisher that is not selected and has
\* not had the selected one's name (renderSelectedPublisher).
THEOREM ResponsesAreOfSelected == Spec => []ResponseIsOfSelected
<1>1. IInv => ResponseIsOfSelected
  BY DEF IInv, PanelOK, ShownOK, ResponseIsOfSelected, Past
<1> QED
  BY <1>1, Invariant, PTL

\* No publisher is left showing "Sending", but one that the form of a deleted one
\* was written over (setPublisherResponseState).
THEOREM SendsEnd == Spec => []SendingIsUnderWay
<1>1. IInv => SendingIsUnderWay
  BY DEF IInv, SendingOK, SendingIsUnderWay, Past
<1> QED
  BY <1>1, Invariant, PTL

=============================================================================
