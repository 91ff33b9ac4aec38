-------------------------- MODULE UiWorkspaceProofs -------------------------
(***************************************************************************)
(* That saves keep what the user makes of the configuration, that a clean  *)
(* section is what the server keeps, and that Start and Stop act on the    *)
(* consumer that was clicked; for any number of saves and toggles at once, *)
(* and of edits.                                                           *)
(***************************************************************************)
EXTENDS UiWorkspace, SequenceTheorems, TLAPS

\* Lists of entries created before the n-th, each with an identity of its own.
ListsOf(n) ==
  {l \in Seq([id : 0 .. n - 1, content : 0 .. 1]) :
     \A i, j \in DOMAIN l : l[i].id = l[j].id => i = j}

ConfigsOf(n) == [Sections -> ListsOf(n)]

PagesOf(n) ==
  [live : ConfigsOf(n), settings : ListsOf(n),
   baseline : [Sections -> ListsOf(n) \cup {None}], saved : ConfigsOf(n),
   winSaved : ListsOf(n) \cup {None}, opened : SUBSET Tabs, sel : Nat]

\* A call saves while it has a kind; then it has what it posts, and what it got.
CallsOf(n) ==
  {x \in [kind : Kinds \cup {None},
          phase : {"free", "post", "get", "reply", "start", "stop"},
          posted : ConfigsOf(n) \cup {None}, got : ConfigsOf(n) \cup {None},
          key : Nat \cup {None}, clicked : Nat \cup {None},
          moved : BOOLEAN, deletes : BOOLEAN] :
     /\ x.phase \in {"post", "get", "reply"} <=> x.kind \in Kinds
     /\ x.phase \in {"post", "get", "reply"} => x.posted \in ConfigsOf(n)
     /\ x.phase = "reply" => x.got \in ConfigsOf(n)}

Typed ==
  /\ nextId \in 3 .. MaxId + 1
  /\ Page \in PagesOf(nextId)
  /\ status \subseteq 0 .. MaxId /\ running \subseteq 0 .. MaxId
  /\ server \in ConfigsOf(nextId) /\ wanted \in ConfigsOf(nextId)
  /\ exposed \subseteq Sections /\ unmarked \subseteq Sections
  /\ edits \in Nat
  /\ calls \in [Calls -> CallsOf(nextId)]

-----------------------------------------------------------------------------
(* Lists.                                                                  *)

LEMMA ListsGrow ==
  ASSUME NEW n \in Nat
  PROVE  ListsOf(n) \subseteq ListsOf(n + 1)
<1>1. [id : 0 .. n - 1, content : 0 .. 1] \subseteq [id : 0 .. (n + 1) - 1, content : 0 .. 1]
  OBVIOUS
<1>2. Seq([id : 0 .. n - 1, content : 0 .. 1])
        \subseteq Seq([id : 0 .. (n + 1) - 1, content : 0 .. 1])
  BY <1>1, SeqMonotonic
<1> QED
  BY <1>2 DEF ListsOf

LEMMA NoneIsNoList ==
  ASSUME NEW n \in 3 .. MaxId + 1
  PROVE  None \notin ListsOf(n) /\ ListsOf(n) \subseteq Seq(Entries)
<1>1. [id : 0 .. n - 1, content : 0 .. 1] \subseteq Entries
  BY BoundsAreNumbers DEF Entries
<1>2. Seq([id : 0 .. n - 1, content : 0 .. 1]) \subseteq Seq(Entries)
  BY <1>1, SeqMonotonic
<1> QED
  BY <1>2, NoneIsNothing DEF ListsOf

\* One more entry.
LEMMA AddedList ==
  ASSUME NEW n \in Nat, NEW l \in ListsOf(n)
  PROVE  Append(l, [id |-> n, content |-> 0]) \in ListsOf(n + 1)
<1> DEFINE e == [id |-> n, content |-> 0]
           a == Append(l, e)
           E == [id : 0 .. (n + 1) - 1, content : 0 .. 1]
<1>1. l \in ListsOf(n + 1)
  BY ListsGrow
<1>2. l \in Seq(E) /\ \A i \in DOMAIN l : l[i].id # n
  <2>1. l \in Seq([id : 0 .. n - 1, content : 0 .. 1])
    BY DEF ListsOf
  <2>2. \A i \in DOMAIN l : l[i] \in [id : 0 .. n - 1, content : 0 .. 1]
    BY <2>1, ElementOfSeq, LenProperties
  <2> QED
    BY <1>1, <2>2 DEF ListsOf
<1>3. e \in E
  OBVIOUS
<1>4. /\ a \in Seq(E) /\ Len(l) \in Nat
      /\ DOMAIN a = 1 .. Len(l) + 1 /\ DOMAIN l = 1 .. Len(l)
      /\ \A i \in 1 .. Len(l) : a[i] = l[i]
      /\ a[Len(l) + 1] = e
  <2> HIDE DEF e, E
  <2>1. a \in Seq(E) /\ Len(a) = Len(l) + 1 /\ Len(l) \in Nat
    BY <1>2, <1>3, AppendProperties, LenProperties
  <2> QED
    BY <1>2, <1>3, <2>1, AppendProperties, LenProperties
<1>5. ASSUME NEW i \in DOMAIN a, NEW j \in DOMAIN a, a[i].id = a[j].id
      PROVE  i = j
  <2>1. \A k \in DOMAIN a : k \in DOMAIN l \/ k = Len(l) + 1
    BY <1>4
  <2>2. e.id = n
    OBVIOUS
  <2> HIDE DEF a, e, E
  <2>3. CASE i \in DOMAIN l /\ j \in DOMAIN l
    BY <2>3, <1>4, <1>5 DEF ListsOf
  <2>4. CASE i = Len(l) + 1 /\ j \in DOMAIN l
    BY <2>2, <2>4, <1>2, <1>4, <1>5
  <2>5. CASE j = Len(l) + 1 /\ i \in DOMAIN l
    BY <2>2, <2>5, <1>2, <1>4, <1>5
  <2> QED
    BY <2>1, <2>3, <2>4, <2>5
<1> HIDE DEF a
<1>6. a \in ListsOf(n + 1)
  BY <1>4, <1>5 DEF ListsOf
<1> QED
  BY <1>6 DEF a

\* One entry less.
LEMMA ShorterList ==
  ASSUME NEW n \in Nat, NEW l \in ListsOf(n), NEW i \in DOMAIN l
  PROVE  Without(l, i) \in ListsOf(n)
<1> DEFINE E == [id : 0 .. n - 1, content : 0 .. 1]
           m == Len(l)
           old(j) == IF j < i THEN j ELSE j + 1
           w == [j \in 1 .. m - 1 |-> l[old(j)]]
<1>1. l \in Seq(E) /\ m \in Nat /\ DOMAIN l = 1 .. m /\ i \in 1 .. m
  BY LenProperties DEF ListsOf
<1>2. \A j \in 1 .. m : l[j] \in E
  BY <1>1, ElementOfSeq
<1>3. /\ \A j \in 1 .. m - 1 : old(j) \in 1 .. m
      /\ \A j, k \in 1 .. m - 1 : old(j) = old(k) => j = k
  BY <1>1
<1>4. Without(l, i) = w
  BY DEF Without
<1> HIDE DEF E, m, old
<1>5. w \in Seq(E) /\ DOMAIN w = 1 .. m - 1
  <2>1. \A j \in 1 .. m - 1 : w[j] \in E
    BY <1>2, <1>3
  <2>2. m - 1 \in Nat
    BY <1>1
  <2> HIDE DEF w
  <2>3. w = [j \in 1 .. m - 1 |-> w[j]]
    BY DEF w
  <2> QED
    BY <2>1, <2>2, <2>3, IsASeq
<1>6. ASSUME NEW j \in DOMAIN w, NEW k \in DOMAIN w, w[j].id = w[k].id
      PROVE  j = k
  <2>1. w[j] = l[old(j)] /\ w[k] = l[old(k)] /\ old(j) \in DOMAIN l /\ old(k) \in DOMAIN l
    BY <1>1, <1>3, <1>5
  <2>2. old(j) = old(k)
    BY <2>1, <1>6 DEF ListsOf
  <2> QED
    BY <2>2, <1>3, <1>5
<1> HIDE DEF w
<1> QED
  BY <1>4, <1>5, <1>6 DEF ListsOf, E

\* One entry with another content.
LEMMA EditedList ==
  ASSUME NEW n \in Nat, NEW l \in ListsOf(n), NEW i \in DOMAIN l
  PROVE  [l EXCEPT ![i].content = 1 - @] \in ListsOf(n)
<1> DEFINE E == [id : 0 .. n - 1, content : 0 .. 1]
           e == [l[i] EXCEPT !.content = 1 - @]
           w == [l EXCEPT ![i] = e]
<1>1. l \in Seq(E) /\ DOMAIN l = 1 .. Len(l)
  BY LenProperties DEF ListsOf
<1>2. l[i] \in E
  BY <1>1, ElementOfSeq
<1>3. e \in E /\ e.id = l[i].id
  BY <1>2
<1>4. w = [l EXCEPT ![i].content = 1 - @]
  OBVIOUS
<1> HIDE DEF E, e
<1>5. w \in Seq(E) /\ DOMAIN w = DOMAIN l
      /\ w[i] = e /\ \A j \in DOMAIN l : j # i => w[j] = l[j]
  BY <1>1, <1>3, ExceptSeq
<1>6. \A j \in DOMAIN l : w[j].id = l[j].id
  BY <1>3, <1>5
<1> HIDE DEF w
<1>7. w \in ListsOf(n)
  BY <1>5, <1>6 DEF ListsOf, E
<1> QED
  BY <1>4, <1>7

-----------------------------------------------------------------------------
(* The views: what each initialization makes of a page.                    *)

LEMMA Marked ==
  ASSUME NEW n, NEW p \in PagesOf(n), NEW s \in Sections, NEW v \in ListsOf(n),
         NEW q, q = markSectionSaved(p, s, v)
  PROVE  /\ q \in PagesOf(n)
         /\ q.live = p.live /\ q.settings = p.settings /\ q.winSaved = p.winSaved
         /\ q.opened = p.opened /\ q.sel = p.sel
         /\ q.saved = [p.saved EXCEPT ![s] = v]
         /\ q.baseline = [p.baseline EXCEPT ![s] = IF p.baseline[s] = None THEN None ELSE v]
<1> DEFINE b == IF p.baseline[s] = None THEN None ELSE v
           S == [p.saved EXCEPT ![s] = v]
           B == [p.baseline EXCEPT ![s] = b]
<1>1. q = [p EXCEPT !.saved = S, !.baseline = B]
  BY DEF markSectionSaved
<1>2. p.saved \in ConfigsOf(n) /\ p.baseline \in [Sections -> ListsOf(n) \cup {None}]
  BY DEF PagesOf
<1>3. b \in ListsOf(n) \cup {None}
  OBVIOUS
<1> HIDE DEF b
<1>4. S \in ConfigsOf(n) /\ B \in [Sections -> ListsOf(n) \cup {None}]
  BY <1>2, <1>3 DEF ConfigsOf
<1> HIDE DEF S, B
<1>5. q \in PagesOf(n) /\ q.saved = S /\ q.baseline = B
      /\ q.live = p.live /\ q.settings = p.settings /\ q.winSaved = p.winSaved
      /\ q.opened = p.opened /\ q.sel = p.sel
  BY <1>1, <1>4 DEF PagesOf
<1> QED
  BY <1>5 DEF S, B, b

LEMMA Registered ==
  ASSUME NEW n, NEW p \in PagesOf(n), NEW s \in Sections,
         NEW q, q = registerDirtySection(p, s)
  PROVE  /\ q \in PagesOf(n)
         /\ q.live = p.live /\ q.settings = p.settings /\ q.winSaved = p.winSaved
         /\ q.opened = p.opened /\ q.sel = p.sel /\ q.saved = p.saved
         /\ q.baseline = [p.baseline EXCEPT ![s] =
                            IF p.baseline[s] = None THEN p.saved[s] ELSE p.baseline[s]]
<1> DEFINE b == IF p.baseline[s] = None THEN p.saved[s] ELSE p.baseline[s]
           B == [p.baseline EXCEPT ![s] = b]
<1>1. q = [p EXCEPT !.baseline = B]
  BY DEF registerDirtySection, createDirtyTracker
<1>2. p.saved \in ConfigsOf(n) /\ p.baseline \in [Sections -> ListsOf(n) \cup {None}]
  BY DEF PagesOf
<1>3. b \in ListsOf(n) \cup {None}
  BY <1>2 DEF ConfigsOf
<1> HIDE DEF b
<1>4. B \in [Sections -> ListsOf(n) \cup {None}]
  BY <1>2, <1>3
<1> HIDE DEF B
<1>5. q \in PagesOf(n) /\ q.saved = p.saved /\ q.baseline = B
      /\ q.live = p.live /\ q.settings = p.settings /\ q.winSaved = p.winSaved
      /\ q.opened = p.opened /\ q.sel = p.sel
  BY <1>1, <1>4 DEF PagesOf
<1> QED
  BY <1>5 DEF B, b

\* A view that is initialized touches its own section only; the first time,
\* its baseline is what is in the list, or for the consumers what the page
\* recorded as saved.
Initialized(p, q, s, first) ==
  /\ q.live = p.live /\ q.winSaved = p.winSaved /\ q.opened = p.opened
  /\ s # "config" => q.settings = p.settings
  /\ s = "config" => q.settings = p.live["config"]
  /\ s # "consumers" => q.sel = p.sel
  /\ \A t \in Sections \ {s} : q.saved[t] = p.saved[t] /\ q.baseline[t] = p.baseline[t]
  /\ p.baseline[s] = None => q.baseline[s] = first
  /\ q.baseline[s] # None

LEMMA PublishersInitialized ==
  ASSUME NEW n \in 3 .. MaxId + 1, NEW p \in PagesOf(n), NEW q, q = initPublishers(p)
  PROVE  q \in PagesOf(n) /\ Initialized(p, q, "publishers", p.live["publishers"])
<1> DEFINE s == "publishers"
           S == [p.saved EXCEPT ![s] = p.live[s]]
           p1 == [p EXCEPT !.saved = S]
<1>1. s \in Sections /\ s # "config" /\ s # "consumers"
  BY DEF Sections, Lists
<1>2. p.live \in ConfigsOf(n) /\ p.saved \in ConfigsOf(n)
      /\ p.baseline \in [Sections -> ListsOf(n) \cup {None}]
  BY DEF PagesOf
<1>3. q = registerDirtySection(p1, s)
  BY DEF initPublishers
<1> HIDE DEF s
<1>4. p.live[s] \in ListsOf(n) /\ p.live[s] # None
  BY <1>1, <1>2, NoneIsNoList DEF ConfigsOf
<1>5. S \in ConfigsOf(n) /\ S[s] = p.live[s] /\ \A t \in Sections \ {s} : S[t] = p.saved[t]
  BY <1>1, <1>2, <1>4 DEF ConfigsOf
<1> HIDE DEF S
<1>6. p1 \in PagesOf(n) /\ p1.saved = S /\ p1.baseline = p.baseline
      /\ p1.live = p.live /\ p1.settings = p.settings /\ p1.winSaved = p.winSaved
      /\ p1.opened = p.opened /\ p1.sel = p.sel
  BY <1>5 DEF PagesOf
<1> HIDE DEF p1
<1>7. /\ q \in PagesOf(n)
      /\ q.live = p.live /\ q.settings = p.settings /\ q.winSaved = p.winSaved
      /\ q.opened = p.opened /\ q.sel = p.sel /\ q.saved = S
      /\ q.baseline = [p.baseline EXCEPT ![s] =
                         IF p.baseline[s] = None THEN S[s] ELSE p.baseline[s]]
  BY <1>1, <1>3, <1>6, Registered
<1>8. /\ \A t \in Sections \ {s} : q.saved[t] = p.saved[t] /\ q.baseline[t] = p.baseline[t]
      /\ p.baseline[s] = None => q.baseline[s] = p.live[s]
      /\ q.baseline[s] # None
  BY <1>1, <1>2, <1>4, <1>5, <1>7
<1>9. Initialized(p, q, s, p.live[s])
  BY <1>1, <1>7, <1>8 DEF Initialized
<1> QED
  BY <1>7, <1>9 DEF s

LEMMA SettingsInitialized ==
  ASSUME NEW n \in 3 .. MaxId + 1, NEW p \in PagesOf(n), NEW q, q = initSettings(p)
  PROVE  q \in PagesOf(n) /\ Initialized(p, q, "config", p.live["config"])
<1> DEFINE s == "config"
           v == p.live[s]
           S == [p.saved EXCEPT ![s] = v]
           p1 == [p EXCEPT !.settings = v, !.saved = S]
<1>1. s \in Sections /\ s # "consumers"
  BY DEF Sections, Lists
<1>2. p.live \in ConfigsOf(n) /\ p.saved \in ConfigsOf(n)
      /\ p.baseline \in [Sections -> ListsOf(n) \cup {None}]
  BY DEF PagesOf
<1>3. q = registerDirtySection(p1, s)
  BY DEF initSettings
<1>4. v \in ListsOf(n) /\ v # None
  BY <1>1, <1>2, NoneIsNoList DEF ConfigsOf
<1> DEFINE c == s
<1> HIDE DEF s, v
<1>5. S \in ConfigsOf(n) /\ S[s] = v /\ \A t \in Sections \ {s} : S[t] = p.saved[t]
  BY <1>1, <1>2, <1>4 DEF ConfigsOf
<1> HIDE DEF S
<1>6. p1 \in PagesOf(n) /\ p1.saved = S /\ p1.baseline = p.baseline
      /\ p1.live = p.live /\ p1.settings = v /\ p1.winSaved = p.winSaved
      /\ p1.opened = p.opened /\ p1.sel = p.sel
  BY <1>4, <1>5 DEF PagesOf
<1> HIDE DEF p1
<1>7. /\ q \in PagesOf(n)
      /\ q.live = p.live /\ q.settings = v /\ q.winSaved = p.winSaved
      /\ q.opened = p.opened /\ q.sel = p.sel /\ q.saved = S
      /\ q.baseline = [p.baseline EXCEPT ![s] =
                         IF p.baseline[s] = None THEN S[s] ELSE p.baseline[s]]
  BY <1>1, <1>3, <1>6, Registered
<1>8. /\ \A t \in Sections \ {s} : q.saved[t] = p.saved[t] /\ q.baseline[t] = p.baseline[t]
      /\ p.baseline[s] = None => q.baseline[s] = v
      /\ q.baseline[s] # None
  BY <1>1, <1>2, <1>4, <1>5, <1>7
<1>9. Initialized(p, q, s, v)
  BY <1>1, <1>7, <1>8 DEF Initialized, s, v
<1> QED
  BY <1>7, <1>9 DEF s, v

LEMMA ConsumersInitialized ==
  ASSUME NEW n \in 3 .. MaxId + 1, NEW p \in PagesOf(n), NEW q, q = initConsumers(p)
  PROVE  /\ q \in PagesOf(n)
         /\ Initialized(p, q, "consumers",
                        IF p.winSaved = None THEN p.live["consumers"]
                        ELSE p.saved["consumers"])
<1> DEFINE s == "consumers"
           v == p.live[s]
           p1 == IF p.winSaved = None THEN markSectionSaved(p, s, v) ELSE p
           p2 == registerDirtySection(p1, s)
           k == Clamp(p2.sel, p.live[s])
           first == IF p.winSaved = None THEN v ELSE p.saved[s]
<1>1. s \in Sections /\ s # "config"
  BY DEF Sections, Lists
<1>2. p.live \in ConfigsOf(n) /\ p.saved \in ConfigsOf(n)
      /\ p.baseline \in [Sections -> ListsOf(n) \cup {None}]
  BY DEF PagesOf
<1>3. q = [p2 EXCEPT !.sel = k]
  BY DEF initConsumers
<1>4. v \in ListsOf(n) /\ v # None /\ p.saved[s] \in ListsOf(n) /\ p.saved[s] # None
  BY <1>1, <1>2, NoneIsNoList DEF ConfigsOf
<1>5. Len(v) \in Nat
  BY <1>4, LenProperties DEF ListsOf
<1> HIDE DEF s
<1>6. /\ p1 \in PagesOf(n)
      /\ p1.live = p.live /\ p1.settings = p.settings /\ p1.winSaved = p.winSaved
      /\ p1.opened = p.opened /\ p1.sel = p.sel /\ p1.saved[s] = first
      /\ p1.baseline[s] = IF p.winSaved = None /\ p.baseline[s] # None THEN v
                          ELSE p.baseline[s]
      /\ \A t \in Sections \ {s} : p1.saved[t] = p.saved[t] /\ p1.baseline[t] = p.baseline[t]
  <2>1. CASE p.winSaved = None
    <3>1. p1 = markSectionSaved(p, s, v)
      BY <2>1
    <3> HIDE DEF p1
    <3>2. /\ p1 \in PagesOf(n)
          /\ p1.live = p.live /\ p1.settings = p.settings /\ p1.winSaved = p.winSaved
          /\ p1.opened = p.opened /\ p1.sel = p.sel
          /\ p1.saved = [p.saved EXCEPT ![s] = v]
          /\ p1.baseline = [p.baseline EXCEPT ![s] = IF p.baseline[s] = None THEN None ELSE v]
      BY <3>1, <1>1, <1>4, Marked
    <3>3. p.saved \in [Sections -> ListsOf(n)]
      BY <1>2 DEF ConfigsOf
    <3> HIDE DEF v
    <3>4. /\ p1.saved[s] = v
          /\ p1.baseline[s] = IF p.baseline[s] # None THEN v ELSE p.baseline[s]
          /\ \A t \in Sections \ {s} : p1.saved[t] = p.saved[t] /\ p1.baseline[t] = p.baseline[t]
      BY <3>2, <3>3, <1>1, <1>2
    <3> QED
      BY <2>1, <3>2, <3>4
  <2>2. CASE p.winSaved # None
    BY <2>2
  <2> QED
    BY <2>1, <2>2
<1>7. p1.baseline \in [Sections -> ListsOf(n) \cup {None}]
  BY <1>6 DEF PagesOf
<1> HIDE DEF p1
<1>8. /\ p2 \in PagesOf(n)
      /\ p2.live = p1.live /\ p2.settings = p1.settings /\ p2.winSaved = p1.winSaved
      /\ p2.opened = p1.opened /\ p2.sel = p1.sel /\ p2.saved = p1.saved
      /\ p2.baseline = [p1.baseline EXCEPT ![s] =
                          IF p1.baseline[s] = None THEN p1.saved[s] ELSE p1.baseline[s]]
  BY <1>1, <1>6, Registered
<1>9. k \in Nat
  BY <1>5, <1>6, <1>8 DEF Clamp, PagesOf
<1> HIDE DEF p2, k
<1>10. /\ q \in PagesOf(n)
       /\ q.live = p2.live /\ q.settings = p2.settings /\ q.winSaved = p2.winSaved
       /\ q.opened = p2.opened /\ q.saved = p2.saved /\ q.baseline = p2.baseline
  BY <1>3, <1>8, <1>9 DEF PagesOf
<1>11. first # None
  BY <1>4
<1> HIDE DEF first
<1>12. /\ \A t \in Sections \ {s} : q.saved[t] = p.saved[t] /\ q.baseline[t] = p.baseline[t]
       /\ p.baseline[s] = None => q.baseline[s] = first
       /\ q.baseline[s] # None
  BY <1>1, <1>4, <1>6, <1>7, <1>8, <1>10, <1>11
<1>13. Initialized(p, q, s, first)
  BY <1>1, <1>6, <1>8, <1>10, <1>12 DEF Initialized, s
<1> QED
  BY <1>10, <1>13 DEF first, s

\* What a view that opens takes as its baseline.
First(p, tab) ==
  IF tab = "consumers" /\ p.winSaved # None THEN p.saved[tab] ELSE p.live[tab]

LEMMA TabInitialized ==
  ASSUME NEW n \in 3 .. MaxId + 1, NEW p \in PagesOf(n), NEW tab \in Tabs,
         tab \notin p.opened, p.baseline[tab] = None,
         NEW q, q = initTabIfNeeded(p, tab)
  PROVE  /\ q \in PagesOf(n)
         /\ q.opened = p.opened \cup {tab}
         /\ q.live = p.live /\ q.winSaved = p.winSaved
         /\ q.settings = IF tab = "config" THEN p.live[tab] ELSE p.settings
         /\ tab # "consumers" => q.sel = p.sel
         /\ \A t \in Sections \ {tab} : q.saved[t] = p.saved[t] /\ q.baseline[t] = p.baseline[t]
         /\ q.baseline[tab] = First(p, tab)
<1> DEFINE r == CASE tab = "publishers" -> initPublishers(p)
                  [] tab = "consumers" -> initConsumers(p)
                  [] tab = "config" -> initSettings(p)
<1>1. q = [r EXCEPT !.opened = @ \cup {tab}]
  BY DEF initTabIfNeeded
<1>2. tab \in Sections /\ tab \in {"publishers", "consumers", "config"}
  BY DEF Tabs, Sections, Lists
<1>3. r \in PagesOf(n) /\ Initialized(p, r, tab, First(p, tab))
  <2>1. CASE tab = "publishers"
    <3>1. r = initPublishers(p) /\ First(p, tab) = p.live["publishers"]
      BY <2>1 DEF First
    <3> HIDE DEF r
    <3> QED
      BY <2>1, <3>1, PublishersInitialized
  <2>2. CASE tab = "consumers"
    <3>1. /\ r = initConsumers(p)
          /\ First(p, tab) = IF p.winSaved = None THEN p.live["consumers"]
                             ELSE p.saved["consumers"]
      BY <2>2 DEF First
    <3> HIDE DEF r
    <3> QED
      BY <2>2, <3>1, ConsumersInitialized
  <2>3. CASE tab = "config"
    <3>1. r = initSettings(p) /\ First(p, tab) = p.live["config"]
      BY <2>3 DEF First
    <3> HIDE DEF r
    <3> QED
      BY <2>3, <3>1, SettingsInitialized
  <2> QED
    BY <1>2, <2>1, <2>2, <2>3
<1> HIDE DEF r
<1>4. r.opened \cup {tab} \in SUBSET Tabs
  BY <1>3 DEF PagesOf
<1>5. /\ q \in PagesOf(n) /\ q.opened = r.opened \cup {tab}
      /\ q.live = r.live /\ q.settings = r.settings /\ q.baseline = r.baseline
      /\ q.saved = r.saved /\ q.winSaved = r.winSaved /\ q.sel = r.sel
  BY <1>1, <1>3, <1>4 DEF PagesOf
<1> QED
  BY <1>2, <1>3, <1>5 DEF Initialized

\* The page after a load: the stored configuration and one tab.
LEMMA Bootstrapped ==
  ASSUME NEW n \in 3 .. MaxId + 1, NEW config \in ConfigsOf(n), NEW tab \in Tabs,
         NEW q, q = bootstrapApp(config, tab)
  PROVE  /\ q \in PagesOf(n)
         /\ q.opened = {tab} /\ q.live = config /\ q.winSaved = None
         /\ q.settings = config["config"]
         /\ q.baseline[tab] = config[tab]
         /\ \A t \in Sections \ {tab} : q.saved[t] = config[t] /\ q.baseline[t] = None
<1> DEFINE p == [live |-> config, settings |-> config["config"],
                 baseline |-> [s \in Sections |-> None], saved |-> config,
                 winSaved |-> None, opened |-> {}, sel |-> 1]
<1>1. q = initTabIfNeeded(p, tab)
  BY DEF bootstrapApp
<1>2. config["config"] \in ListsOf(n) /\ tab \in Sections
  BY DEF ConfigsOf, Sections, Tabs
<1>3. p \in PagesOf(n)
  BY <1>2 DEF PagesOf
<1>4. /\ p.live = config /\ p.settings = config["config"] /\ p.winSaved = None
      /\ p.opened = {} /\ p.saved = config /\ p.baseline = [s \in Sections |-> None]
  OBVIOUS
<1> HIDE DEF p
<1>5. tab \notin p.opened /\ p.baseline[tab] = None /\ First(p, tab) = config[tab]
  BY <1>2, <1>4 DEF First
<1>6. /\ q \in PagesOf(n)
      /\ q.opened = p.opened \cup {tab}
      /\ q.live = p.live /\ q.winSaved = p.winSaved
      /\ q.settings = IF tab = "config" THEN p.live[tab] ELSE p.settings
      /\ \A t \in Sections \ {tab} : q.saved[t] = p.saved[t] /\ q.baseline[t] = p.baseline[t]
      /\ q.baseline[tab] = First(p, tab)
  BY <1>1, <1>3, <1>5, TabInitialized
<1>7. q.opened = {tab}
  BY <1>4, <1>6
<1> QED
  BY <1>2, <1>4, <1>5, <1>6, <1>7

\* A section that was saved: its list is what was fetched.
LEMMA SectionSaved ==
  ASSUME NEW n \in 3 .. MaxId + 1, NEW p \in PagesOf(n), NEW s \in Sections,
         NEW got \in ConfigsOf(n), NEW q, q = sectionSaved(p, s, got)
  PROVE  /\ q \in PagesOf(n)
         /\ q.settings = p.settings /\ q.winSaved = p.winSaved
         /\ q.opened = p.opened /\ q.sel = p.sel
         /\ q.live[s] = got[s] /\ q.saved[s] = got[s]
         /\ q.baseline[s] = IF p.baseline[s] = None THEN None ELSE got[s]
         /\ \A t \in Sections \ {s} : /\ q.live[t] = p.live[t] /\ q.saved[t] = p.saved[t]
                                      /\ q.baseline[t] = p.baseline[t]
<1> DEFINE L == [p.live EXCEPT ![s] = got[s]]
           p1 == [p EXCEPT !.live = L]
<1>1. q = markSectionSaved(p1, s, got[s])
  BY DEF sectionSaved
<1>2. got[s] \in ListsOf(n) /\ p.live \in ConfigsOf(n) /\ p.saved \in ConfigsOf(n)
      /\ p.baseline \in [Sections -> ListsOf(n) \cup {None}]
  BY DEF ConfigsOf, PagesOf
<1>3. L \in ConfigsOf(n) /\ L[s] = got[s] /\ \A t \in Sections \ {s} : L[t] = p.live[t]
  BY <1>2 DEF ConfigsOf
<1> HIDE DEF L
<1>4. /\ p1 \in PagesOf(n) /\ p1.live = L
      /\ p1.settings = p.settings /\ p1.winSaved = p.winSaved /\ p1.opened = p.opened
      /\ p1.sel = p.sel /\ p1.saved = p.saved /\ p1.baseline = p.baseline
  BY <1>3 DEF PagesOf
<1> HIDE DEF p1
<1> DEFINE v == got[s]
<1> HIDE DEF v
<1>5. v \in ListsOf(n) /\ q = markSectionSaved(p1, s, v)
  BY <1>1, <1>2 DEF v
<1>6. /\ q \in PagesOf(n)
      /\ q.live = p1.live /\ q.settings = p1.settings /\ q.winSaved = p1.winSaved
      /\ q.opened = p1.opened /\ q.sel = p1.sel
      /\ q.saved = [p1.saved EXCEPT ![s] = v]
      /\ q.baseline = [p1.baseline EXCEPT ![s] = IF p1.baseline[s] = None THEN None ELSE v]
  BY <1>4, <1>5, Marked
<1>7. v = got[s]
  BY DEF v
<1> QED
  BY <1>2, <1>3, <1>4, <1>6, <1>7 DEF ConfigsOf

\* After a save of the workspace, the views that are open start again.
Restarted(p, q, tabs) ==
  /\ q.live = p.live /\ q.winSaved = p.winSaved /\ q.opened = p.opened
  /\ q.settings = IF "config" \in tabs THEN p.live["config"] ELSE p.settings
  /\ "consumers" \notin tabs => q.sel = p.sel
  /\ \A t \in Sections \ tabs : q.saved[t] = p.saved[t] /\ q.baseline[t] = p.baseline[t]
  /\ \A t \in tabs : q.baseline[t] # None

\* One view more.
LEMMA OneMoreRestarted ==
  ASSUME NEW p, NEW p1, NEW q, NEW tabs \in SUBSET Tabs, NEW s \in Sections \ tabs,
         NEW first, Restarted(p, p1, tabs), Initialized(p1, q, s, first)
  PROVE  Restarted(p, q, tabs \cup {s})
<1>1. /\ q.live = p.live /\ q.winSaved = p.winSaved /\ q.opened = p.opened
      /\ q.settings = IF "config" \in tabs \cup {s} THEN p.live["config"] ELSE p.settings
      /\ "consumers" \notin tabs \cup {s} => q.sel = p.sel
  BY DEF Restarted, Initialized
<1>2. \A t \in Sections \ (tabs \cup {s}) :
        q.saved[t] = p.saved[t] /\ q.baseline[t] = p.baseline[t]
  BY DEF Restarted, Initialized
<1>3. \A t \in tabs \cup {s} : q.baseline[t] # None
  BY DEF Restarted, Initialized, Tabs
<1> QED
  BY <1>1, <1>2, <1>3 DEF Restarted

LEMMA Reinitialized ==
  ASSUME NEW n \in 3 .. MaxId + 1, NEW p \in PagesOf(n),
         NEW q, q = reinitializeWorkspaceViews(p)
  PROVE  q \in PagesOf(n) /\ Restarted(p, q, p.opened)
<1> DEFINE p1 == IF "publishers" \in p.opened THEN initPublishers(p) ELSE p
           p2 == IF "consumers" \in p.opened THEN initConsumers(p1) ELSE p1
           p3 == IF "config" \in p.opened THEN initSettings(p2) ELSE p2
           t1 == p.opened \cap {"publishers"}
           t2 == p.opened \cap {"publishers", "consumers"}
<1>1. q = p3
  BY DEF reinitializeWorkspaceViews
<1>2. /\ p.opened \in SUBSET Tabs
      /\ {"publishers", "consumers", "config"} \subseteq Sections
      /\ p.opened = p.opened \cap {"publishers", "consumers", "config"}
  BY DEF PagesOf, Tabs, Sections, Lists
<1>3. Restarted(p, p, {})
  BY DEF Restarted
<1>4. p1 \in PagesOf(n) /\ Restarted(p, p1, t1)
  <2>1. CASE "publishers" \in p.opened
    <3>1. p1 = initPublishers(p) /\ t1 = {} \cup {"publishers"}
      BY <2>1
    <3> HIDE DEF p1, t1
    <3>2. p1 \in PagesOf(n) /\ Initialized(p, p1, "publishers", p.live["publishers"])
      BY <3>1, PublishersInitialized
    <3> QED
      BY <3>1, <3>2, <1>2, <1>3, OneMoreRestarted
  <2>2. CASE "publishers" \notin p.opened
    BY <2>2, <1>3
  <2> QED
    BY <2>1, <2>2
<1> HIDE DEF p1
<1>5. p2 \in PagesOf(n) /\ Restarted(p, p2, t2)
  <2>1. CASE "consumers" \in p.opened
    <3>1. p2 = initConsumers(p1) /\ t2 = t1 \cup {"consumers"} /\ "consumers" \notin t1
          /\ t1 \in SUBSET Tabs
      BY <2>1, <1>2
    <3> HIDE DEF p2, t1, t2
    <3>2. PICK first : p2 \in PagesOf(n) /\ Initialized(p1, p2, "consumers", first)
      BY <3>1, <1>4, ConsumersInitialized
    <3> QED
      BY <3>1, <3>2, <1>2, <1>4, OneMoreRestarted
  <2>2. CASE "consumers" \notin p.opened
    <3>1. p2 = p1 /\ t2 = t1
      BY <2>2
    <3> QED
      BY <3>1, <1>4
  <2> QED
    BY <2>1, <2>2
<1> HIDE DEF p2, t1
<1>6. p3 \in PagesOf(n) /\ Restarted(p, p3, p.opened)
  <2>1. CASE "config" \in p.opened
    <3>1. p3 = initSettings(p2) /\ p.opened = t2 \cup {"config"} /\ "config" \notin t2
          /\ t2 \in SUBSET Tabs
      BY <2>1, <1>2
    <3> HIDE DEF p3, t2
    <3>2. p3 \in PagesOf(n) /\ Initialized(p2, p3, "config", p2.live["config"])
      BY <3>1, <1>5, SettingsInitialized
    <3> QED
      BY <3>1, <3>2, <1>2, <1>5, OneMoreRestarted
  <2>2. CASE "config" \notin p.opened
    <3>1. p3 = p2 /\ p.opened = t2
      BY <2>2, <1>2
    <3> QED
      BY <3>1, <1>5
  <2> QED
    BY <2>1, <2>2
<1> QED
  BY <1>1, <1>6

\* A section that is marked with what was fetched.
Alike(x, y) ==
  /\ x.live = y.live /\ x.settings = y.settings /\ x.winSaved = y.winSaved
  /\ x.opened = y.opened /\ x.sel = y.sel

Marks(x, y, s, got) ==
  /\ x.saved = [y.saved EXCEPT ![s] = got[s]]
  /\ x.baseline = [y.baseline EXCEPT ![s] = IF y.baseline[s] = None THEN None ELSE got[s]]

LEMMA MarkedAsFetched ==
  ASSUME NEW n, NEW p \in PagesOf(n), NEW s \in Sections, NEW got \in ConfigsOf(n),
         NEW q, q = markSectionSaved(p, s, got[s])
  PROVE  q \in PagesOf(n) /\ Alike(q, p) /\ Marks(q, p, s, got)
<1> DEFINE v == got[s]
<1>1. v \in ListsOf(n)
  BY DEF ConfigsOf
<1> HIDE DEF v
<1>2. q = markSectionSaved(p, s, v)
  BY DEF v
<1>3. /\ q \in PagesOf(n)
      /\ q.live = p.live /\ q.settings = p.settings /\ q.winSaved = p.winSaved
      /\ q.opened = p.opened /\ q.sel = p.sel
      /\ q.saved = [p.saved EXCEPT ![s] = v]
      /\ q.baseline = [p.baseline EXCEPT ![s] = IF p.baseline[s] = None THEN None ELSE v]
  BY <1>1, <1>2, Marked
<1>4. v = got[s]
  BY DEF v
<1> QED
  BY <1>3, <1>4 DEF Alike, Marks

\* A save of the workspace leaves what was fetched, on the page and as the
\* baselines.
LEMMA WorkspaceSaved ==
  ASSUME NEW n \in 3 .. MaxId + 1, NEW p \in PagesOf(n), NEW got \in ConfigsOf(n),
         NEW q, q = workspaceSaved(p, got)
  PROVE  /\ q \in PagesOf(n)
         /\ q.live = got /\ q.winSaved = p.winSaved /\ q.opened = p.opened
         /\ q.settings = IF "config" \in p.opened THEN got["config"] ELSE p.settings
         /\ "consumers" \notin p.opened => q.sel = p.sel
         /\ \A t \in Sections : q.saved[t] = got[t]
         /\ \A t \in p.opened : q.baseline[t] = got[t]
         /\ \A t \in Sections \ p.opened : p.baseline[t] = None => q.baseline[t] = None
<1> DEFINE p0 == replaceLiveConfig(p, got)
           p1 == afterWorkspaceSave(p0)
           p2 == reinitializeWorkspaceViews(p1)
           p3 == markSectionSaved(p2, "publishers", got["publishers"])
           p4 == markSectionSaved(p3, "consumers", got["consumers"])
           p5 == markSectionSaved(p4, "config", got["config"])
<1>1. q = p5
  BY DEF workspaceSaved
<1>2. /\ {"publishers", "consumers", "config"} = Sections
      /\ \A s \in Sections : got[s] \in ListsOf(n)
      /\ p.opened \subseteq Sections
  BY DEF Sections, Lists, ConfigsOf, PagesOf, Tabs
<1>3. /\ p0 \in PagesOf(n) /\ p0.live = got /\ p0.winSaved = p.winSaved
      /\ p0.opened = p.opened /\ p0.settings = p.settings /\ p0.sel = p.sel
      /\ p0.saved = p.saved /\ p0.baseline = p.baseline
  BY DEF replaceLiveConfig, PagesOf
<1> HIDE DEF p0
<1>4. /\ p1 \in PagesOf(n) /\ p1.live = got /\ p1.winSaved = p.winSaved
      /\ p1.opened = p.opened /\ p1.sel = p.sel
      /\ p1.settings = IF "config" \in p.opened THEN got["config"] ELSE p.settings
      /\ p1.saved = p.saved /\ p1.baseline = p.baseline
  <2>1. CASE "config" \in p.opened
    <3>1. p1 = [p0 EXCEPT !.settings = got["config"]]
      BY <1>3, <2>1 DEF afterWorkspaceSave
    <3> QED
      BY <3>1, <2>1, <1>2, <1>3 DEF PagesOf
  <2>2. CASE "config" \notin p.opened
    BY <2>2, <1>3 DEF afterWorkspaceSave
  <2> QED
    BY <2>1, <2>2
<1> HIDE DEF p1
<1>5. p2 \in PagesOf(n) /\ Restarted(p1, p2, p1.opened)
  BY <1>4, Reinitialized
<1> HIDE DEF p2
<1>6. /\ p2.live = got /\ p2.winSaved = p.winSaved /\ p2.opened = p.opened
      /\ p2.settings = IF "config" \in p.opened THEN got["config"] ELSE p.settings
      /\ "consumers" \notin p.opened => p2.sel = p.sel
      /\ \A t \in Sections \ p.opened : p2.baseline[t] = p.baseline[t]
      /\ \A t \in p.opened : p2.baseline[t] # None
  BY <1>4, <1>5 DEF Restarted
<1>8. p3 \in PagesOf(n) /\ Alike(p3, p2) /\ Marks(p3, p2, "publishers", got)
  BY <1>2, <1>5, MarkedAsFetched
<1> HIDE DEF p3
<1>9. p4 \in PagesOf(n) /\ Alike(p4, p3) /\ Marks(p4, p3, "consumers", got)
  BY <1>2, <1>8, MarkedAsFetched
<1> HIDE DEF p4
<1>10. p5 \in PagesOf(n) /\ Alike(p5, p4) /\ Marks(p5, p4, "config", got)
  BY <1>2, <1>9, MarkedAsFetched
<1> HIDE DEF p5
<1>11. /\ \A x \in PagesOf(n) : /\ x.saved \in [Sections -> ListsOf(n)]
                                /\ x.baseline \in [Sections -> ListsOf(n) \cup {None}]
       /\ p2 \in PagesOf(n) /\ p3 \in PagesOf(n) /\ p4 \in PagesOf(n) /\ p5 \in PagesOf(n)
  BY <1>5, <1>8, <1>9, <1>10 DEF PagesOf, ConfigsOf
<1>12. \A t \in Sections : /\ p5.saved[t] = got[t]
                           /\ p5.baseline[t] = IF p2.baseline[t] = None THEN None ELSE got[t]
  <2>1. ASSUME NEW t \in Sections
        PROVE  /\ p3.saved[t] = IF t = "publishers" THEN got[t] ELSE p2.saved[t]
               /\ p3.baseline[t] = IF t = "publishers" /\ p2.baseline[t] # None THEN got[t]
                                   ELSE p2.baseline[t]
               /\ p4.saved[t] = IF t = "consumers" THEN got[t] ELSE p3.saved[t]
               /\ p4.baseline[t] = IF t = "consumers" /\ p3.baseline[t] # None THEN got[t]
                                   ELSE p3.baseline[t]
               /\ p5.saved[t] = IF t = "config" THEN got[t] ELSE p4.saved[t]
               /\ p5.baseline[t] = IF t = "config" /\ p4.baseline[t] # None THEN got[t]
                                   ELSE p4.baseline[t]
    BY <2>1, <1>8, <1>9, <1>10, <1>11 DEF Marks
  <2>2. \A t \in Sections : got[t] # None
    BY <1>2, NoneIsNoList
  <2> QED
    BY <2>1, <2>2, <1>2
<1>13. /\ p5 \in PagesOf(n) /\ p5.live = got /\ p5.winSaved = p.winSaved
       /\ p5.opened = p.opened /\ p5.settings = p2.settings /\ p5.sel = p2.sel
  BY <1>6, <1>8, <1>9, <1>10 DEF Alike
<1> QED
  BY <1>1, <1>2, <1>6, <1>12, <1>13

-----------------------------------------------------------------------------
(* Calls.                                                                  *)

LEMMA TypesGrow ==
  ASSUME NEW n \in Nat
  PROVE  /\ ConfigsOf(n) \subseteq ConfigsOf(n + 1)
         /\ PagesOf(n) \subseteq PagesOf(n + 1)
         /\ CallsOf(n) \subseteq CallsOf(n + 1)
<1>1. ListsOf(n) \subseteq ListsOf(n + 1)
  BY ListsGrow
<1> DEFINE A == ListsOf(n)
           B == ListsOf(n + 1)
<1>2. ConfigsOf(n) = [Sections -> A] /\ ConfigsOf(n + 1) = [Sections -> B]
  BY DEF ConfigsOf
<1> HIDE DEF A, B
<1>3. [Sections -> A] \subseteq [Sections -> B]
      /\ [Sections -> A \cup {None}] \subseteq [Sections -> B \cup {None}]
  BY <1>1 DEF A, B
<1>4. ConfigsOf(n) \subseteq ConfigsOf(n + 1)
  BY <1>2, <1>3
<1>5. PagesOf(n) \subseteq PagesOf(n + 1)
  BY <1>1, <1>3, <1>4 DEF PagesOf, A, B
<1>6. CallsOf(n) \subseteq CallsOf(n + 1)
  BY <1>4 DEF CallsOf
<1> QED
  BY <1>4, <1>5, <1>6

LEMMA MovedCall ==
  ASSUME NEW n, NEW x \in CallsOf(n)
  PROVE  /\ Moved(x) \in CallsOf(n)
         /\ Moved(x).kind = x.kind /\ Moved(x).phase = x.phase
         /\ Moved(x).posted = x.posted /\ Moved(x).got = x.got
         /\ Moved(x).key = x.key /\ Moved(x).clicked = x.clicked
         /\ Moved(x).deletes = x.deletes
         /\ x.moved => Moved(x).moved
         /\ x.clicked # None => Moved(x).moved
<1>1. CASE x.clicked = None
  <2>1. Moved(x) = x
    BY <1>1 DEF Moved
  <2> QED
    BY <2>1, <1>1
<1>2. CASE x.clicked # None
  <2>1. Moved(x) = [x EXCEPT !.moved = TRUE]
    BY <1>2 DEF Moved
  <2> QED
    BY <2>1, <1>2 DEF CallsOf
<1> QED
  BY <1>1, <1>2

\* No call is at work.
LEMMA FreeCall ==
  ASSUME NEW n
  PROVE  /\ Free \in CallsOf(n)
         /\ Free.kind = None /\ Free.phase = "free" /\ Free.clicked = None
BY NoneIsNothing DEF Free, CallsOf, Kinds

-----------------------------------------------------------------------------
(* The invariant.                                                          *)

\* A toggle that saves first will name the consumer that was clicked, as long
\* as the list that it posts, and later fetches, has it where it is selected.
OfToggle(x) ==
  /\ "consumers" \in opened
  /\ ~ x.deletes
  /\ x.kind # None => x.kind = "consumers" /\ x.key = x.clicked
  /\ x.kind # None /\ ~ x.moved =>
       /\ sel \in DOMAIN x.posted["consumers"]
       /\ x.posted["consumers"][sel].id = x.clicked
       /\ x.phase = "get" => server["consumers"] = x.posted["consumers"]
       /\ x.phase = "reply" => x.got["consumers"] = x.posted["consumers"]

Toggles ==
  \A c \in Calls :
    /\ calls[c].clicked # None => OfToggle(calls[c])
    /\ calls[c].kind = "consumers" => calls[c].clicked # None
    /\ calls[c].phase \in {"start", "stop"} =>
         calls[c].moved \/ calls[c].key = calls[c].clicked

\* Of a section that was not opened, everything is what the server keeps, and
\* so is what any save posts or fetches of it.
Unopened ==
  \A s \in Sections \ opened :
    /\ live[s] = server[s] /\ Current(s) = server[s] /\ wanted[s] = server[s]
    /\ saved[s] = server[s] /\ baseline[s] = None
    /\ s = "consumers" => winSaved = None
    /\ \A c \in Savers : /\ calls[c].posted[s] = server[s]
                         /\ calls[c].phase = "reply" => calls[c].got[s] = server[s]

\* Nothing is at stake without a save.
Quiet == Savers = {} => exposed = {}

\* A save of a section that is not at stake is the only one, and what it has
\* posted, stored and fetched of the section is what the user made of it.
Alone ==
  \A c \in Savers : \A s \in Covers(calls[c].kind) \ exposed :
    /\ Savers = {c}
    /\ calls[c].posted[s] = wanted[s]
    /\ calls[c].phase = "get" => server[s] = wanted[s]
    /\ calls[c].phase = "reply" => calls[c].got[s] = wanted[s]

\* The baseline of an open section exists, and is what the server keeps unless
\* the section is marked otherwise.
Based ==
  \A s \in opened : /\ baseline[s] # None
                    /\ s \notin unmarked => baseline[s] = server[s]

Inv ==
  /\ Toggles /\ Unopened /\ Quiet /\ Alone /\ Based /\ EditsSurvive

IInv == Typed /\ Inv

-----------------------------------------------------------------------------
(* What the user does.                                                     *)

\* The user changes the sections of E, none or one, and may open a tab.
LocalStep(E) ==
  /\ E \subseteq opened' /\ opened \subseteq opened'
  /\ \A s \in Sections \ E : Current(s)' = Current(s) /\ live'[s] = live[s]
  /\ \A s \in Sections \ opened' : /\ saved'[s] = saved[s] /\ baseline'[s] = baseline[s]
                                   /\ s = "consumers" => winSaved' = winSaved
  /\ \A s \in opened : baseline'[s] = baseline[s]
  /\ \A s \in opened' \ opened : /\ baseline'[s] # None
                                 /\ s \notin unmarked' => baseline'[s] = server[s]
  /\ wanted' = [s \in Sections |-> IF s \in E THEN Current(s)' ELSE wanted[s]]
  /\ exposed' = exposed \cup (Covered(Savers) \cap E)
  /\ unmarked \subseteq unmarked'
  /\ server' = server
  /\ Moves \/ (calls' = calls /\ ("consumers" \in opened => sel' = sel))

LEMMA LocalKeeps ==
  ASSUME IInv, NEW E \in SUBSET Sections, LocalStep(E)
  PROVE  Inv'
<1> USE DEF IInv, Inv
<1>1. opened \subseteq Sections
  BY DEF Typed, PagesOf, Page, Tabs
<1>2. /\ \A c \in Calls :
           /\ calls'[c].kind = calls[c].kind /\ calls'[c].phase = calls[c].phase
           /\ calls'[c].posted = calls[c].posted /\ calls'[c].got = calls[c].got
           /\ calls'[c].key = calls[c].key /\ calls'[c].clicked = calls[c].clicked
           /\ calls'[c].deletes = calls[c].deletes
           /\ calls[c].moved => calls'[c].moved
      /\ \/ \A c \in Calls : calls[c].clicked # None => calls'[c].moved
         \/ "consumers" \in opened => sel' = sel
  <2>1. CASE Moves
    <3>1. \A c \in Calls : calls'[c] = Moved(calls[c]) /\ calls[c] \in CallsOf(nextId)
      BY <2>1 DEF Moves, Typed
    <3>2. ASSUME NEW x, x \in CallsOf(nextId)
          PROVE  /\ Moved(x).kind = x.kind /\ Moved(x).phase = x.phase
                 /\ Moved(x).posted = x.posted /\ Moved(x).got = x.got
                 /\ Moved(x).key = x.key /\ Moved(x).clicked = x.clicked
                 /\ Moved(x).deletes = x.deletes
                 /\ x.moved => Moved(x).moved
                 /\ x.clicked # None => Moved(x).moved
      BY <3>2, MovedCall
    <3>3. ASSUME NEW c \in Calls
          PROVE  /\ calls'[c].kind = calls[c].kind /\ calls'[c].phase = calls[c].phase
                 /\ calls'[c].posted = calls[c].posted /\ calls'[c].got = calls[c].got
                 /\ calls'[c].key = calls[c].key /\ calls'[c].clicked = calls[c].clicked
                 /\ calls'[c].deletes = calls[c].deletes
                 /\ calls[c].moved => calls'[c].moved
                 /\ calls[c].clicked # None => calls'[c].moved
      BY <3>1, <3>2, <3>3, Zenon
    <3> QED
      BY <3>3
  <2>2. CASE calls' = calls /\ ("consumers" \in opened => sel' = sel)
    BY <2>2
  <2> QED
    BY <2>1, <2>2 DEF LocalStep
<1>3. Savers' = Savers
  BY <1>2 DEF Savers, Saving
<1>4. \A c \in Calls : Covers(calls'[c].kind) = Covers(calls[c].kind)
  BY <1>2
<1>5. Toggles'
  <2> SUFFICES ASSUME NEW c \in Calls
               PROVE  /\ calls'[c].clicked # None => OfToggle(calls[c])'
                      /\ calls'[c].kind = "consumers" => calls'[c].clicked # None
                      /\ calls'[c].phase \in {"start", "stop"} =>
                           calls'[c].moved \/ calls'[c].key = calls'[c].clicked
    BY DEF Toggles
  <2>1. ASSUME calls[c].clicked # None
        PROVE  OfToggle(calls[c])'
    <3>1. OfToggle(calls[c])
      BY <2>1 DEF Toggles
    <3>2. "consumers" \in opened' /\ server' = server
      BY <3>1 DEF OfToggle, LocalStep
    <3>3. ~ calls'[c].moved => ~ calls[c].moved /\ sel' = sel
      BY <1>2, <2>1, <3>1 DEF OfToggle
    <3> QED
      BY <1>2, <3>1, <3>2, <3>3 DEF OfToggle
  <2>2. /\ calls[c].kind = "consumers" => calls[c].clicked # None
        /\ calls[c].phase \in {"start", "stop"} =>
             calls[c].moved \/ calls[c].key = calls[c].clicked
    BY DEF Toggles
  <2> QED
    BY <1>2, <2>1, <2>2
<1>6. Unopened'
  <2> SUFFICES ASSUME NEW s \in Sections \ opened'
               PROVE  /\ live'[s] = server'[s] /\ Current(s)' = server'[s]
                      /\ wanted'[s] = server'[s]
                      /\ saved'[s] = server'[s] /\ baseline'[s] = None
                      /\ s = "consumers" => winSaved' = None
                      /\ \A c \in Savers' :
                           /\ calls'[c].posted[s] = server'[s]
                           /\ calls'[c].phase = "reply" => calls'[c].got[s] = server'[s]
    BY DEF Unopened
  <2>1. s \in Sections \ opened /\ s \notin E
    BY DEF LocalStep
  <2>2. /\ live[s] = server[s] /\ Current(s) = server[s] /\ wanted[s] = server[s]
        /\ saved[s] = server[s] /\ baseline[s] = None
        /\ s = "consumers" => winSaved = None
    BY <2>1 DEF Unopened
  <2>3. \A c \in Savers : /\ calls[c].posted[s] = server[s]
                          /\ calls[c].phase = "reply" => calls[c].got[s] = server[s]
    BY <2>1 DEF Unopened
  <2>4. /\ Current(s)' = Current(s) /\ live'[s] = live[s] /\ wanted'[s] = wanted[s]
        /\ saved'[s] = saved[s] /\ baseline'[s] = baseline[s] /\ server' = server
        /\ s = "consumers" => winSaved' = winSaved
    BY <2>1 DEF LocalStep
  <2>5. \A c \in Savers' : /\ calls'[c].posted[s] = server'[s]
                           /\ calls'[c].phase = "reply" => calls'[c].got[s] = server'[s]
    BY <1>2, <1>3, <2>3, <2>4 DEF Savers
  <2> QED
    BY <2>2, <2>4, <2>5
<1>7. Quiet'
  <2>1. Savers = {} => Covered(Savers) = {}
    BY DEF Covered
  <2> QED
    BY <1>3, <2>1 DEF Quiet, LocalStep
<1>8. Alone'
  <2> SUFFICES ASSUME NEW c \in Savers',
                      NEW s \in Covers(calls'[c].kind) \ exposed'
               PROVE  /\ Savers' = {c}
                      /\ calls'[c].posted[s] = wanted'[s]
                      /\ calls'[c].phase = "get" => server'[s] = wanted'[s]
                      /\ calls'[c].phase = "reply" => calls'[c].got[s] = wanted'[s]
    BY DEF Alone
  <2>1. c \in Savers /\ c \in Calls /\ s \in Covers(calls[c].kind) /\ s \notin exposed
    BY <1>3, <1>4 DEF LocalStep, Savers
  <2>2. s \notin E /\ s \in Sections
    <3>1. s \in Covered(Savers)
      BY <2>1 DEF Covered
    <3>2. Covers(calls[c].kind) \subseteq Sections
      BY DEF Covers, Sections
    <3> QED
      BY <2>1, <3>1, <3>2 DEF LocalStep
  <2>3. wanted'[s] = wanted[s] /\ server' = server
    BY <2>2 DEF LocalStep
  <2>4. /\ Savers = {c}
        /\ calls[c].posted[s] = wanted[s]
        /\ calls[c].phase = "get" => server[s] = wanted[s]
        /\ calls[c].phase = "reply" => calls[c].got[s] = wanted[s]
    BY <2>1 DEF Alone
  <2> QED
    BY <2>1, <2>3, <2>4, <1>2, <1>3
<1>9. Based'
  <2>1. ASSUME NEW s \in opened'
        PROVE  baseline'[s] # None /\ (s \notin unmarked' => baseline'[s] = server'[s])
    <3>1. CASE s \in opened
      BY <3>1 DEF Based, LocalStep
    <3>2. CASE s \notin opened
      BY <3>2, <2>1 DEF LocalStep
    <3> QED
      BY <3>1, <3>2
  <2> QED
    BY <2>1 DEF Based
<1>10. EditsSurvive'
  <2> SUFFICES ASSUME NEW s \in Sections \ exposed', s \in opened'
               PROVE  Current(s)' = wanted'[s]
    BY DEF EditsSurvive
  <2>1. s \notin exposed
    BY DEF LocalStep
  <2>2. CASE s \in E
    BY <2>2 DEF LocalStep
  <2>3. CASE s \notin E
    <3>1. Current(s)' = Current(s) /\ wanted'[s] = wanted[s]
      BY <2>3 DEF LocalStep
    <3>2. Current(s) = wanted[s]
      <4>1. CASE s \in opened
        BY <4>1, <2>1 DEF EditsSurvive
      <4>2. CASE s \notin opened
        BY <4>2 DEF Unopened
      <4> QED
        BY <4>1, <4>2
    <3> QED
      BY <3>1, <3>2
  <2> QED
    BY <2>2, <2>3
<1> QED
  BY <1>5, <1>6, <1>7, <1>8, <1>9, <1>10

\* The variables of the page are those of Page.
LEMMA PageFields ==
  /\ Page.live = live /\ Page.settings = settings /\ Page.baseline = baseline
  /\ Page.saved = saved /\ Page.winSaved = winSaved /\ Page.opened = opened
  /\ Page.sel = sel
BY DEF Page

LEMMA Becomes ==
  ASSUME NEW m, NEW q \in PagesOf(m), Become(q)
  PROVE  Page' \in PagesOf(m)
BY DEF Become, Page, PagesOf

\* What a local step leaves of the types.
LEMMA LocalTyped ==
  ASSUME Typed, NEW E \in SUBSET Sections, LocalStep(E),
         nextId' \in {nextId, nextId + 1}, nextId' <= MaxId + 1, edits' \in Nat,
         Page' \in PagesOf(nextId'), unmarked' \subseteq Sections,
         status' = status, running' = running
  PROVE  Typed'
<1> DEFINE m == nextId'
<1>1. /\ nextId \in Nat /\ nextId \in 3 .. MaxId + 1 /\ m \in 3 .. MaxId + 1
      /\ m = nextId \/ m = nextId + 1
  BY BoundsAreNumbers DEF Typed
<1> HIDE DEF m
<1>2. ConfigsOf(nextId) \subseteq ConfigsOf(m) /\ CallsOf(nextId) \subseteq CallsOf(m)
  BY <1>1, TypesGrow
<1>3. server' \in ConfigsOf(m)
  BY <1>2 DEF LocalStep, Typed
<1>4. wanted' \in ConfigsOf(m)
  <2>1. \A s \in Sections : wanted[s] \in ListsOf(m)
    BY <1>2 DEF Typed, ConfigsOf
  <2>2. \A s \in Sections : Current(s)' \in ListsOf(m)
    BY DEF Current, Page, PagesOf, ConfigsOf, m
  <2> QED
    BY <2>1, <2>2 DEF LocalStep, ConfigsOf
<1>5. calls' \in [Calls -> CallsOf(m)]
  <2>1. calls \in [Calls -> CallsOf(m)]
    BY <1>2 DEF Typed
  <2>2. CASE Moves
    <3>1. \A c \in Calls : Moved(calls[c]) \in CallsOf(m)
      BY <2>1, MovedCall
    <3> QED
      BY <2>2, <3>1 DEF Moves
  <2> QED
    BY <2>1, <2>2 DEF LocalStep
<1>6. exposed' \subseteq Sections
  BY DEF LocalStep, Typed
<1>7. /\ Page' \in PagesOf(m) /\ unmarked' \subseteq Sections /\ edits' \in Nat
      /\ status' \subseteq 0 .. MaxId /\ running' \subseteq 0 .. MaxId
  BY DEF Typed, m
<1> QED
  BY <1>1, <1>3, <1>4, <1>5, <1>6, <1>7 DEF Typed, m

LEMMA EditMakes ==
  ASSUME Typed, NEW s \in Sections, Edit(s)
  PROVE  /\ wanted' = [t \in Sections |-> IF t \in {s} THEN Current(t)' ELSE wanted[t]]
         /\ exposed' = exposed \cup (Covered(Savers) \cap {s})
         /\ edits' \in Nat
<1>1. wanted \in [Sections -> ListsOf(nextId)] /\ edits \in Nat
  BY DEF Typed, ConfigsOf
<1>2. wanted' = [wanted EXCEPT ![s] = Current(s)'] /\ edits' = edits + 1
      /\ exposed' = exposed \cup (Covered(Savers) \cap {s})
  BY DEF Edit
<1>3. wanted' = [t \in Sections |-> IF t = s THEN Current(s)' ELSE wanted[t]]
  BY <1>1, <1>2
<1>4. [t \in Sections |-> IF t \in {s} THEN Current(t)' ELSE wanted[t]]
        = [t \in Sections |-> IF t = s THEN Current(s)' ELSE wanted[t]]
  <2>1. \A t \in Sections : (IF t \in {s} THEN Current(t)' ELSE wanted[t])
                              = (IF t = s THEN Current(s)' ELSE wanted[t])
    <3> SUFFICES ASSUME NEW t \in Sections
                 PROVE  (IF t \in {s} THEN Current(t)' ELSE wanted[t])
                          = (IF t = s THEN Current(s)' ELSE wanted[t])
      OBVIOUS
    <3> QED
      BY DEF Current
  <2> QED
    BY <2>1
<1>5. wanted' = [t \in Sections |-> IF t \in {s} THEN Current(t)' ELSE wanted[t]]
  BY <1>3, <1>4, Zenon
<1>6. edits' \in Nat /\ exposed' = exposed \cup (Covered(Savers) \cap {s})
  BY <1>1, <1>2
<1> QED
  BY <1>5, <1>6, Zenon

\* The page with a new entry.
LEMMA AddedPage ==
  ASSUME NEW p \in PagesOf(nextId), nextId \in Nat, NEW s \in Lists, NEW q, q = Added(p, s)
  PROVE  /\ q \in PagesOf(nextId + 1)
         /\ \A t \in Sections \ {s} : q.live[t] = p.live[t]
         /\ q.settings = p.settings /\ q.baseline = p.baseline /\ q.saved = p.saved
         /\ q.winSaved = p.winSaved /\ q.opened = p.opened /\ q.sel = p.sel
         /\ Len(q.live[s]) \in Nat
<1> DEFINE n == nextId
           a == Append(p.live[s], [id |-> n, content |-> 0])
           L == [p.live EXCEPT ![s] = a]
<1>1. n \in Nat /\ q = [p EXCEPT !.live = L]
  BY DEF Added
<1>2. s \in Sections /\ p \in PagesOf(n)
  BY DEF Sections
<1> HIDE DEF n
<1>3. p \in PagesOf(n + 1) /\ p.live \in ConfigsOf(n + 1) /\ p.live[s] \in ListsOf(n)
  BY <1>1, <1>2, TypesGrow DEF PagesOf, ConfigsOf
<1>4. a \in ListsOf(n + 1)
  BY <1>1, <1>3, AddedList
<1>5. Len(a) \in Nat
  BY <1>4, LenProperties DEF ListsOf
<1> HIDE DEF a
<1>6. L \in ConfigsOf(n + 1) /\ L[s] = a /\ \A t \in Sections \ {s} : L[t] = p.live[t]
  BY <1>2, <1>3, <1>4 DEF ConfigsOf
<1> HIDE DEF L
<1>7. q \in PagesOf(n + 1) /\ q.live = L
      /\ q.settings = p.settings /\ q.baseline = p.baseline /\ q.saved = p.saved
      /\ q.winSaved = p.winSaved /\ q.opened = p.opened /\ q.sel = p.sel
  BY <1>1, <1>3, <1>6 DEF PagesOf
<1> QED
  BY <1>5, <1>6, <1>7 DEF n

LEMMA LocalPreserves ==
  ASSUME IInv, NEW E \in SUBSET Sections, LocalStep(E),
         nextId' \in {nextId, nextId + 1}, nextId' <= MaxId + 1, edits' \in Nat,
         Page' \in PagesOf(nextId'), unmarked' \subseteq Sections,
         status' = status, running' = running
  PROVE  IInv'
<1>1. Inv'
  BY LocalKeeps
<1>2. Typed'
  BY LocalTyped DEF IInv
<1> QED
  BY <1>1, <1>2 DEF IInv

\* What is known of the types.
LEMMA Types ==
  ASSUME Typed
  PROVE  /\ nextId \in Nat /\ nextId \in 3 .. MaxId + 1 /\ nextId <= MaxId + 1
         /\ Page \in PagesOf(nextId)
         /\ live \in ConfigsOf(nextId) /\ settings \in ListsOf(nextId)
         /\ opened \subseteq Tabs /\ opened \subseteq Sections /\ sel \in Nat
         /\ wanted = [s \in Sections |-> wanted[s]]
         /\ unmarked \subseteq Sections /\ exposed \subseteq Sections /\ edits \in Nat
BY BoundsAreNumbers DEF Typed, PagesOf, Page, Tabs, ConfigsOf

LEMMA OpenTabPreserves ==
  ASSUME IInv, NEW tab \in Tabs, OpenTab(tab)
  PROVE  IInv'
<1> DEFINE q == initTabIfNeeded(Page, tab)
<1>1. /\ tab \notin opened /\ Become(q) /\ tab \in Sections
      /\ UNCHANGED <<status, calls, world, bounds, wanted, exposed>>
      /\ unmarked' = unmarked \cup
           (IF tab = "publishers" /\ live[tab] # server[tab] THEN {tab} ELSE {})
  BY DEF OpenTab, Tabs
<1>2. /\ live[tab] = server[tab] /\ Current(tab) = server[tab]
      /\ baseline[tab] = None
      /\ tab = "consumers" => winSaved = None
  BY <1>1 DEF IInv, Inv, Unopened
<1>3. Typed
  BY DEF IInv
<1> HIDE DEF q
<1>4. /\ q \in PagesOf(nextId)
      /\ q.opened = opened \cup {tab}
      /\ q.live = live /\ q.winSaved = winSaved
      /\ q.settings = IF tab = "config" THEN live[tab] ELSE settings
      /\ tab # "consumers" => q.sel = sel
      /\ \A t \in Sections \ {tab} : q.saved[t] = saved[t] /\ q.baseline[t] = baseline[t]
      /\ q.baseline[tab] = First(Page, tab)
  BY <1>1, <1>2, <1>3, Types, PageFields, TabInitialized DEF q
<1>5. First(Page, tab) = server[tab] /\ server[tab] # None
  <2>1. server[tab] # None
    BY <1>1, <1>3, Types, NoneIsNoList DEF Typed, ConfigsOf
  <2> QED
    BY <2>1, <1>2, PageFields DEF First
<1>6. /\ live' = live /\ winSaved' = winSaved /\ opened' = opened \cup {tab}
      /\ settings' = (IF tab = "config" THEN live[tab] ELSE settings)
      /\ tab # "consumers" => sel' = sel
      /\ \A t \in Sections \ {tab} : saved'[t] = saved[t] /\ baseline'[t] = baseline[t]
      /\ baseline'[tab] = server[tab]
  BY <1>1, <1>4, <1>5 DEF Become
<1>7. settings' = settings
  BY <1>2, <1>6 DEF Current
<1>8. \A s \in Sections : Current(s)' = Current(s)
  BY <1>6, <1>7 DEF Current
<1>9. LocalStep({})
  <2>1. wanted' = [s \in Sections |-> IF s \in {} THEN Current(s)' ELSE wanted[s]]
    BY <1>1, <1>3, Types
  <2>2. calls' = calls /\ ("consumers" \in opened => sel' = sel)
    BY <1>1, <1>6
  <2>3. server' = server /\ exposed' = exposed /\ unmarked \subseteq unmarked'
    BY <1>1 DEF world
  <2>4. \A s \in opened : baseline'[s] = baseline[s]
    BY <1>1, <1>3, <1>6, Types
  <2> QED
    BY <1>1, <1>5, <1>6, <1>8, <2>1, <2>2, <2>3, <2>4 DEF LocalStep
<1>10. Page' \in PagesOf(nextId')
  BY <1>1, <1>4, Becomes DEF bounds
<1>11. nextId' = nextId /\ edits' = edits /\ running' = running /\ unmarked' \subseteq Sections
       /\ status' = status
  BY <1>1, <1>3, Types DEF bounds, world
<1> QED
  BY <1>3, <1>9, <1>10, <1>11, Types, LocalPreserves

\* A step that changes the section of E and nothing else that a save, or a view
\* that is not open, could notice.
LEMMA ChangePreserves ==
  ASSUME IInv, NEW s \in Sections, Edit(s), s \in opened', opened \subseteq opened',
         opened' \subseteq opened \cup {s}, NEW m, m = nextId',
         m \in {nextId, nextId + 1}, m <= MaxId + 1, Page' \in PagesOf(m),
         \A t \in Sections \ {s} : /\ live'[t] = live[t] /\ saved'[t] = saved[t]
                                   /\ baseline'[t] = baseline[t],
         s # "config" => settings' = settings,
         s # "consumers" => winSaved' = winSaved,
         s \in opened => baseline'[s] = baseline[s],
         s \notin opened => baseline'[s] # None /\ (s \notin unmarked' => baseline'[s] = server[s]),
         unmarked \subseteq unmarked', unmarked' \subseteq Sections,
         UNCHANGED <<status, world>>,
         Moves \/ (calls' = calls /\ ("consumers" \in opened => sel' = sel))
  PROVE  IInv'
<1>1. Typed
  BY DEF IInv
<1>2. /\ wanted' = [t \in Sections |-> IF t \in {s} THEN Current(t)' ELSE wanted[t]]
      /\ exposed' = exposed \cup (Covered(Savers) \cap {s})
      /\ edits' \in Nat
  BY <1>1, EditMakes
<1>3. \A t \in Sections \ {s} : Current(t)' = Current(t)
  BY DEF Current
<1>4. server' = server /\ running' = running /\ status' = status
  BY DEF world
<1>5. \A t \in opened : baseline'[t] = baseline[t]
  BY <1>1, Types
<1>6. LocalStep({s})
  BY <1>2, <1>3, <1>4, <1>5 DEF LocalStep
<1> QED
  BY <1>1, <1>2, <1>4, <1>6, LocalPreserves

LEMMA addConsumerPreserves ==
  ASSUME IInv, addConsumerAction
  PROVE  IInv'
<1> DEFINE s == "consumers"
           p == Added(Page, s)
           q == [p EXCEPT !.sel = Len(p.live[s])]
<1>1. /\ s \in opened /\ nextId <= MaxId /\ nextId' = nextId + 1
      /\ Become(q) /\ Edit(s) /\ Moves
      /\ UNCHANGED <<status, world, unmarked>>
  BY DEF addConsumerAction, Fresh
<1>2. Typed
  BY DEF IInv
<1>3. s \in Lists /\ s \in Sections
  BY DEF Lists, Sections
<1> HIDE DEF p
<1>4. /\ p \in PagesOf(nextId + 1)
      /\ \A t \in Sections \ {s} : p.live[t] = live[t]
      /\ p.settings = settings /\ p.baseline = baseline /\ p.saved = saved
      /\ p.winSaved = winSaved /\ p.opened = opened /\ Len(p.live[s]) \in Nat
  BY <1>2, <1>3, Types, PageFields, AddedPage DEF p
<1> HIDE DEF s
<1>5. /\ q \in PagesOf(nextId + 1)
      /\ q.live = p.live /\ q.settings = p.settings /\ q.baseline = p.baseline
      /\ q.saved = p.saved /\ q.winSaved = p.winSaved /\ q.opened = p.opened
  BY <1>4 DEF PagesOf
<1> HIDE DEF q
<1>6. /\ live' = p.live /\ settings' = settings /\ baseline' = baseline
      /\ saved' = saved /\ winSaved' = winSaved /\ opened' = opened
  BY <1>1, <1>4, <1>5 DEF Become
<1>7. Page' \in PagesOf(nextId + 1)
  BY <1>1, <1>5, Becomes
<1>8. nextId + 1 <= MaxId + 1 /\ unmarked' = unmarked /\ unmarked \subseteq Sections
      /\ UNCHANGED <<status, world>>
  BY <1>1, <1>2, Types, BoundsAreNumbers
<1> QED
  BY <1>1, <1>3, <1>4, <1>6, <1>7, <1>8, ChangePreserves

LEMMA addPublisherPreserves ==
  ASSUME IInv, addPublisherAction
  PROVE  IInv'
<1> DEFINE s == "publishers"
           q == Added(Page, s)
<1>1. /\ s \in opened /\ nextId <= MaxId /\ nextId' = nextId + 1
      /\ Become(q) /\ Edit(s)
      /\ UNCHANGED <<status, calls, world, unmarked>>
  BY DEF addPublisherAction, Fresh
<1>2. Typed
  BY DEF IInv
<1>3. s \in Lists /\ s \in Sections
  BY DEF Lists, Sections
<1> HIDE DEF q
<1>4. /\ q \in PagesOf(nextId + 1)
      /\ \A t \in Sections \ {s} : q.live[t] = live[t]
      /\ q.settings = settings /\ q.baseline = baseline /\ q.saved = saved
      /\ q.winSaved = winSaved /\ q.opened = opened /\ q.sel = sel
  BY <1>2, <1>3, Types, PageFields, AddedPage DEF q
<1> HIDE DEF s
<1>6. /\ live' = q.live /\ settings' = settings /\ baseline' = baseline
      /\ saved' = saved /\ winSaved' = winSaved /\ opened' = opened /\ sel' = sel
  BY <1>1, <1>4 DEF Become
<1>7. Page' \in PagesOf(nextId + 1)
  BY <1>1, <1>4, Becomes
<1>8. nextId + 1 <= MaxId + 1 /\ unmarked' = unmarked /\ unmarked \subseteq Sections
      /\ UNCHANGED <<status, world>> /\ calls' = calls
  BY <1>1, <1>2, Types, BoundsAreNumbers
<1> QED
  BY <1>1, <1>3, <1>4, <1>6, <1>7, <1>8, ChangePreserves

LEMMA copyConsumerPreserves ==
  ASSUME IInv, copyCurrentConsumerAction
  PROVE  IInv'
<1> DEFINE s == "publishers"
           p == Added(Page, s)
           q == initTabIfNeeded(p, s)
<1>1. /\ nextId <= MaxId /\ nextId' = nextId + 1
      /\ Become(q) /\ Edit(s)
      /\ unmarked' = unmarked \cup ({s} \ opened)
      /\ UNCHANGED <<status, calls, world>>
  BY DEF copyCurrentConsumerAction, Fresh
<1>2. Typed
  BY DEF IInv
<1>3. s \in Lists /\ s \in Sections /\ s \in Tabs
  BY DEF Lists, Sections, Tabs
<1>4. nextId + 1 \in 3 .. MaxId + 1 /\ nextId + 1 <= MaxId + 1
  BY <1>1, <1>2, Types, BoundsAreNumbers
<1> HIDE DEF p
<1>5. /\ p \in PagesOf(nextId + 1)
      /\ \A t \in Sections \ {s} : p.live[t] = live[t]
      /\ p.settings = settings /\ p.baseline = baseline /\ p.saved = saved
      /\ p.winSaved = winSaved /\ p.opened = opened /\ p.sel = sel
  BY <1>2, <1>3, Types, PageFields, AddedPage DEF p
<1>6. /\ q \in PagesOf(nextId + 1)
      /\ q.live = p.live /\ q.settings = settings /\ q.winSaved = winSaved
      /\ q.opened = opened \cup {s} /\ q.sel = sel
      /\ \A t \in Sections \ {s} : q.saved[t] = saved[t] /\ q.baseline[t] = baseline[t]
      /\ s \in opened => q.baseline[s] = baseline[s]
      /\ s \notin opened => q.baseline[s] # None
  <2>1. CASE s \in opened
    <3>1. q = p
      BY <2>1, <1>5 DEF initTabIfNeeded
    <3> QED
      BY <2>1, <3>1, <1>5
  <2>2. CASE s \notin opened
    <3>1. baseline[s] = None
      BY <2>2, <1>3 DEF IInv, Inv, Unopened
    <3>2. First(p, s) = p.live[s] /\ p.live[s] # None
      BY <1>3, <1>4, <1>5, NoneIsNoList DEF First, PagesOf, ConfigsOf
    <3> HIDE DEF q
    <3>3. /\ q \in PagesOf(nextId + 1)
          /\ q.opened = p.opened \cup {s}
          /\ q.live = p.live /\ q.winSaved = p.winSaved
          /\ q.settings = IF s = "config" THEN p.live[s] ELSE p.settings
          /\ s # "consumers" => q.sel = p.sel
          /\ \A t \in Sections \ {s} : q.saved[t] = p.saved[t] /\ q.baseline[t] = p.baseline[t]
          /\ q.baseline[s] = First(p, s)
      BY <2>2, <3>1, <1>3, <1>4, <1>5, TabInitialized DEF q
    <3> QED
      BY <2>2, <3>2, <3>3, <1>5
  <2> QED
    BY <2>1, <2>2
<1> HIDE DEF q, s
<1>7. /\ live' = p.live /\ settings' = settings /\ winSaved' = winSaved
      /\ opened' = opened \cup {s} /\ sel' = sel
      /\ \A t \in Sections \ {s} : saved'[t] = saved[t] /\ baseline'[t] = baseline[t]
      /\ s \in opened => baseline'[s] = baseline[s]
      /\ s \notin opened => baseline'[s] # None
  BY <1>1, <1>6 DEF Become
<1>8. Page' \in PagesOf(nextId + 1)
  BY <1>1, <1>6, Becomes
<1>9. /\ unmarked \subseteq unmarked' /\ unmarked' \subseteq Sections
      /\ s \notin opened => s \in unmarked'
      /\ UNCHANGED <<status, world>> /\ calls' = calls
  BY <1>1, <1>2, <1>3, Types
<1> QED
  BY <1>1, <1>3, <1>4, <1>5, <1>7, <1>8, <1>9, ChangePreserves

LEMMA copyPublisherPreserves ==
  ASSUME IInv, copyCurrentPublisherAction
  PROVE  IInv'
<1> DEFINE s == "consumers"
           b == IF winSaved = None
                THEN [Page EXCEPT !.winSaved = live[s], !.saved[s] = live[s]]
                ELSE Page
           p == Added(b, s)
           q == initTabIfNeeded(p, s)
           r == [q EXCEPT !.sel = Len(q.live[s])]
<1>1. /\ nextId <= MaxId /\ nextId' = nextId + 1
      /\ Become(r) /\ Edit(s) /\ Moves
      /\ UNCHANGED <<status, world, unmarked>>
  BY DEF copyCurrentPublisherAction, Fresh
<1>2. Typed
  BY DEF IInv
<1>3. s \in Lists /\ s \in Sections /\ s \in Tabs /\ s # "config"
  BY DEF Lists, Sections, Tabs
<1>4. nextId + 1 \in 3 .. MaxId + 1 /\ nextId + 1 <= MaxId + 1
  BY <1>1, <1>2, Types, BoundsAreNumbers
<1> HIDE DEF s
<1>5. /\ b \in PagesOf(nextId)
      /\ b.live = live /\ b.settings = settings /\ b.baseline = baseline
      /\ \A t \in Sections \ {s} : b.saved[t] = saved[t]
      /\ b.saved[s] = saved[s] \/ b.saved[s] = live[s]
      /\ b.winSaved # None /\ b.opened = opened /\ b.sel = sel
  <2>1. CASE winSaved = None
    <3> DEFINE S == [saved EXCEPT ![s] = live[s]]
    <3>1. /\ Page \in PagesOf(nextId) /\ live[s] \in ListsOf(nextId) /\ live[s] # None
          /\ saved \in ConfigsOf(nextId)
      BY <1>2, <1>3, Types, NoneIsNoList, PageFields DEF PagesOf, ConfigsOf
    <3>2. S \in ConfigsOf(nextId) /\ S[s] = live[s] /\ \A t \in Sections \ {s} : S[t] = saved[t]
      BY <1>3, <3>1 DEF ConfigsOf
    <3>3. b = [Page EXCEPT !.winSaved = live[s], !.saved = S]
      BY <2>1, PageFields
    <3> HIDE DEF S, b
    <3> QED
      BY <3>1, <3>2, <3>3, PageFields DEF PagesOf
  <2>2. CASE winSaved # None
    <3>1. b = Page
      BY <2>2
    <3> QED
      BY <2>2, <3>1, <1>2, Types, PageFields
  <2> QED
    BY <2>1, <2>2
<1> HIDE DEF b, p
<1>6. /\ p \in PagesOf(nextId + 1)
      /\ \A t \in Sections \ {s} : p.live[t] = live[t] /\ p.saved[t] = saved[t]
      /\ p.saved[s] = saved[s] \/ p.saved[s] = live[s]
      /\ p.settings = settings /\ p.baseline = baseline
      /\ p.winSaved # None /\ p.opened = opened
  <2>1. /\ p \in PagesOf(nextId + 1)
        /\ \A t \in Sections \ {s} : p.live[t] = b.live[t]
        /\ p.settings = b.settings /\ p.baseline = b.baseline /\ p.saved = b.saved
        /\ p.winSaved = b.winSaved /\ p.opened = b.opened
    BY <1>2, <1>3, <1>5, Types, AddedPage DEF p
  <2> QED
    BY <2>1, <1>5
<1>7. /\ q \in PagesOf(nextId + 1)
      /\ q.live = p.live /\ q.settings = settings
      /\ q.opened = opened \cup {s}
      /\ \A t \in Sections \ {s} : q.saved[t] = saved[t] /\ q.baseline[t] = baseline[t]
      /\ s \in opened => q.baseline[s] = baseline[s]
      /\ s \notin opened => q.baseline[s] # None /\ q.baseline[s] = server[s]
  <2>1. CASE s \in opened
    <3>1. q = p
      BY <2>1, <1>6 DEF initTabIfNeeded
    <3> QED
      BY <2>1, <3>1, <1>6
  <2>2. CASE s \notin opened
    <3>1. baseline[s] = None /\ saved[s] = server[s] /\ live[s] = server[s]
      BY <2>2, <1>3 DEF IInv, Inv, Unopened
    <3>2. First(p, s) = p.saved[s] /\ p.saved[s] = server[s]
      BY <1>3, <1>6, <3>1 DEF First, s
    <3>3. server[s] # None
      BY <1>2, <1>3, Types, NoneIsNoList DEF Typed, ConfigsOf
    <3> HIDE DEF q
    <3>4. /\ q \in PagesOf(nextId + 1)
          /\ q.opened = p.opened \cup {s}
          /\ q.live = p.live
          /\ q.settings = IF s = "config" THEN p.live[s] ELSE p.settings
          /\ \A t \in Sections \ {s} : q.saved[t] = p.saved[t] /\ q.baseline[t] = p.baseline[t]
          /\ q.baseline[s] = First(p, s)
      BY <2>2, <3>1, <1>3, <1>4, <1>6, TabInitialized DEF q
    <3> QED
      BY <2>2, <3>2, <3>3, <3>4, <1>3, <1>6
  <2> QED
    BY <2>1, <2>2
<1> HIDE DEF q
<1>8. Len(q.live[s]) \in Nat
  BY <1>3, <1>7, LenProperties DEF PagesOf, ConfigsOf, ListsOf
<1>9. /\ r \in PagesOf(nextId + 1)
      /\ r.live = q.live /\ r.settings = q.settings /\ r.baseline = q.baseline
      /\ r.saved = q.saved /\ r.opened = q.opened
  BY <1>7, <1>8 DEF PagesOf
<1> HIDE DEF r
<1>10. /\ live' = p.live /\ settings' = settings
       /\ opened' = opened \cup {s}
       /\ \A t \in Sections \ {s} : saved'[t] = saved[t] /\ baseline'[t] = baseline[t]
       /\ s \in opened => baseline'[s] = baseline[s]
       /\ s \notin opened => baseline'[s] # None /\ baseline'[s] = server[s]
  BY <1>1, <1>7, <1>9 DEF Become
<1>11. Page' \in PagesOf(nextId + 1)
  BY <1>1, <1>9, Becomes
<1>12. unmarked' = unmarked /\ unmarked \subseteq Sections /\ UNCHANGED <<status, world>>
  BY <1>1, <1>2, Types
<1>13. s # "consumers" => winSaved' = winSaved
  BY DEF s
<1> QED
  BY <1>1, <1>3, <1>4, <1>6, <1>10, <1>11, <1>12, <1>13, ChangePreserves

LEMMA editEntryPreserves ==
  ASSUME IInv, NEW s \in Lists, NEW i, editEntry(s, i)
  PROVE  IInv'
<1> DEFINE l == [live[s] EXCEPT ![i].content = 1 - @]
<1>1. /\ s \in opened /\ i \in DOMAIN live[s]
      /\ live' = [live EXCEPT ![s] = l]
      /\ Edit(s)
      /\ UNCHANGED <<settings, baseline, saved, winSaved, opened, sel, status,
                     calls, world, nextId, unmarked>>
  BY DEF editEntry
<1>2. Typed
  BY DEF IInv
<1>3. s \in Sections /\ s # "config"
  BY DEF Lists, Sections
<1>4. l \in ListsOf(nextId)
  BY <1>1, <1>2, <1>3, Types, EditedList DEF ConfigsOf
<1> HIDE DEF l
<1>5. live' \in ConfigsOf(nextId) /\ \A t \in Sections \ {s} : live'[t] = live[t]
  BY <1>1, <1>2, <1>3, <1>4, Types DEF ConfigsOf
<1>6. Page' \in PagesOf(nextId')
  BY <1>1, <1>2, <1>5, Types DEF Page, PagesOf
<1>7. /\ nextId' = nextId /\ nextId <= MaxId + 1 /\ unmarked \subseteq Sections
      /\ UNCHANGED <<status, world>>
  BY <1>1, <1>2, Types
<1> QED
  BY <1>1, <1>3, <1>5, <1>6, <1>7, ChangePreserves

LEMMA editSettingsPreserves ==
  ASSUME IInv, editSettings
  PROVE  IInv'
<1> DEFINE s == "config"
           l == [settings EXCEPT ![1].content = 1 - @]
<1>1. /\ s \in opened /\ settings' = l
      /\ Edit(s)
      /\ UNCHANGED <<live, baseline, saved, winSaved, opened, sel, status,
                     calls, world, nextId, unmarked>>
  BY DEF editSettings
<1>2. Typed
  BY DEF IInv
<1>3. s \in Sections
  BY DEF Lists, Sections
<1> HIDE DEF s
<1>4. l \in ListsOf(nextId)
  <2>1. settings \in ListsOf(nextId) /\ nextId \in Nat
    BY <1>2, Types
  <2>2. CASE 1 \in DOMAIN settings
    BY <2>1, <2>2, EditedList
  <2>3. CASE 1 \notin DOMAIN settings
    <3>1. settings = [j \in DOMAIN settings |-> settings[j]]
      BY <2>1, LenProperties DEF ListsOf
    <3>2. l = settings
      BY <2>3, <3>1
    <3> QED
      BY <2>1, <3>2
  <2> QED
    BY <2>2, <2>3
<1> HIDE DEF l
<1>5. Page' \in PagesOf(nextId')
  BY <1>1, <1>2, <1>4, Types DEF Page, PagesOf
<1>6. /\ nextId' = nextId /\ nextId <= MaxId + 1 /\ unmarked \subseteq Sections
      /\ UNCHANGED <<status, world>>
  BY <1>1, <1>2, Types
<1>7. s # "config" => settings' = settings
  BY DEF s
<1> QED
  BY <1>1, <1>3, <1>5, <1>6, <1>7, ChangePreserves

LEMMA deleteConsumerPreserves ==
  ASSUME IInv, deleteCurrentConsumerAction
  PROVE  IInv'
<1> DEFINE s == "consumers"
           rest == Without(live[s], sel)
<1>1. /\ s \in opened /\ sel \in DOMAIN live[s]
      /\ live' = [live EXCEPT ![s] = rest]
      /\ sel' = IF rest = <<>> THEN 0 ELSE Clamp(sel, rest)
      /\ Edit(s) /\ Moves
      /\ UNCHANGED <<settings, baseline, saved, winSaved, opened, status, world,
                     nextId, unmarked>>
  BY DEF deleteCurrentConsumerAction
<1>2. Typed
  BY DEF IInv
<1>3. s \in Sections
  BY DEF Lists, Sections
<1> HIDE DEF s
<1>4. rest \in ListsOf(nextId)
  BY <1>1, <1>2, <1>3, Types, ShorterList DEF ConfigsOf
<1>5. Len(rest) \in Nat
  BY <1>4, LenProperties DEF ListsOf
<1> HIDE DEF rest
<1>6. sel' \in Nat
  BY <1>1, <1>2, <1>5, Types DEF Clamp
<1>7. live' \in ConfigsOf(nextId) /\ \A t \in Sections \ {s} : live'[t] = live[t]
  BY <1>1, <1>2, <1>3, <1>4, Types DEF ConfigsOf
<1>8. Page' \in PagesOf(nextId')
  BY <1>1, <1>2, <1>6, <1>7, Types DEF Page, PagesOf
<1>9. /\ nextId' = nextId /\ nextId <= MaxId + 1 /\ unmarked \subseteq Sections
      /\ UNCHANGED <<status, world>>
  BY <1>1, <1>2, Types
<1> QED
  BY <1>1, <1>3, <1>7, <1>8, <1>9, ChangePreserves

LEMMA selectPreserves ==
  ASSUME IInv, NEW i \in 1 .. MaxId, restoreConsumerStateFromView(i)
  PROVE  IInv'
<1>1. /\ sel' = i /\ Moves
      /\ UNCHANGED <<live, settings, baseline, saved, winSaved, opened, status,
                     world, bounds, ghosts>>
  BY DEF restoreConsumerStateFromView
<1>2. Typed
  BY DEF IInv
<1>3. wanted' = [s \in Sections |-> IF s \in {} THEN Current(s)' ELSE wanted[s]]
  BY <1>1, <1>2, Types DEF ghosts
<1>4. \A s \in Sections : Current(s)' = Current(s)
  BY <1>1 DEF Current
<1>5. LocalStep({})
  BY <1>1, <1>3, <1>4 DEF LocalStep, world, ghosts
<1>6. Page' \in PagesOf(nextId')
  BY <1>1, <1>2, Types, BoundsAreNumbers DEF Page, PagesOf, bounds
<1>7. /\ nextId' = nextId /\ edits' = edits /\ running' = running /\ unmarked' = unmarked
      /\ status' = status
  BY <1>1 DEF bounds, world, ghosts
<1> QED
  BY <1>2, <1>5, <1>6, <1>7, Types, LocalPreserves

-----------------------------------------------------------------------------
(* A save starts.                                                          *)

\* The call y, which c starts, posts the page as it is now.
Starts(c, kind, y) ==
  /\ calls[c] = Free /\ kind \in Kinds
  /\ y \in CallsOf(nextId) /\ y.kind = kind /\ y.phase = "post" /\ y.posted = live'
  /\ calls' = [calls EXCEPT ![c] = y]
  /\ exposed' = Beside(kind)
  /\ kind = "consumers" <=> y.clicked # None
  /\ y.clicked # None =>
       /\ "consumers" \in opened /\ ~ y.deletes /\ y.key = y.clicked
       /\ sel \in DOMAIN live'["consumers"]
       /\ live'["consumers"][sel].id = y.clicked
  /\ UNCHANGED <<settings, baseline, saved, winSaved, opened, sel, status, world,
                 nextId, unmarked>>
  /\ live' \in ConfigsOf(nextId) /\ wanted' \in ConfigsOf(nextId)
  /\ edits' \in Nat
  /\ \A s \in Sections \ opened : live'[s] = live[s] /\ wanted'[s] = wanted[s]
  /\ \A s \in opened \ exposed : Current(s)' = wanted'[s]
  /\ Savers = {} => \A s \in Covers(kind) : live'[s] = wanted'[s]

LEMMA StartPreserves ==
  ASSUME IInv, NEW c \in Calls, NEW kind, NEW y, Starts(c, kind, y)
  PROVE  IInv'
<1>1. Typed
  BY DEF IInv
<1>2. /\ calls \in [Calls -> CallsOf(nextId)]
      /\ calls' \in [Calls -> CallsOf(nextId)]
      /\ calls'[c] = y /\ \A d \in Calls \ {c} : calls'[d] = calls[d]
      /\ server' = server /\ running' = running /\ nextId' = nextId /\ opened' = opened
      /\ status' = status /\ unmarked' = unmarked /\ baseline' = baseline /\ sel' = sel
      /\ settings' = settings /\ saved' = saved /\ winSaved' = winSaved
  BY <1>1 DEF Typed, Starts, world
<1>3. /\ Savers' = Savers \cup {c} /\ c \notin Savers
      /\ \A d \in Savers : d \in Calls /\ d # c
  BY <1>2, FreeCall DEF Savers, Saving, Starts
<1>4. Covers(kind) \subseteq Sections /\ Covered(Savers) \subseteq Sections
  BY DEF Covers, Covered, Sections
<1>5. /\ exposed \subseteq exposed' /\ exposed' \subseteq Sections
      /\ Savers = {} => exposed = {} /\ exposed' = {}
      /\ Savers # {} => Covers(kind) \subseteq exposed' /\ Covered(Savers) \subseteq exposed'
  BY <1>1, <1>4, Types DEF Starts, Beside, IInv, Inv, Quiet
<1>6. Typed'
  <2>1. Page' \in PagesOf(nextId')
    BY <1>1, <1>2, Types DEF Page, PagesOf, Starts
  <2> QED
    BY <1>1, <1>2, <1>5, <2>1 DEF Typed, Starts
<1>7. Toggles'
  <2> SUFFICES ASSUME NEW d \in Calls
               PROVE  /\ calls'[d].clicked # None => OfToggle(calls[d])'
                      /\ calls'[d].kind = "consumers" => calls'[d].clicked # None
                      /\ calls'[d].phase \in {"start", "stop"} =>
                           calls'[d].moved \/ calls'[d].key = calls'[d].clicked
    BY DEF Toggles
  <2>1. CASE d = c
    BY <2>1, <1>2 DEF OfToggle, Starts
  <2>2. CASE d # c
    <3>1. /\ calls[d].clicked # None => OfToggle(calls[d])
          /\ calls[d].kind = "consumers" => calls[d].clicked # None
          /\ calls[d].phase \in {"start", "stop"} =>
               calls[d].moved \/ calls[d].key = calls[d].clicked
      BY DEF IInv, Inv, Toggles
    <3> QED
      BY <2>2, <3>1, <1>2 DEF OfToggle
  <2> QED
    BY <2>1, <2>2
<1>8. Unopened'
  <2> SUFFICES ASSUME NEW s \in Sections \ opened
               PROVE  /\ live'[s] = server[s] /\ Current(s)' = server[s]
                      /\ wanted'[s] = server[s]
                      /\ saved[s] = server[s] /\ baseline[s] = None
                      /\ s = "consumers" => winSaved = None
                      /\ \A d \in Savers' :
                           /\ calls'[d].posted[s] = server[s]
                           /\ calls'[d].phase = "reply" => calls'[d].got[s] = server[s]
    BY <1>2 DEF Unopened
  <2>1. /\ live[s] = server[s] /\ Current(s) = server[s] /\ wanted[s] = server[s]
        /\ saved[s] = server[s] /\ baseline[s] = None
        /\ s = "consumers" => winSaved = None
    BY DEF IInv, Inv, Unopened
  <2>2. \A d \in Savers : /\ calls[d].posted[s] = server[s]
                          /\ calls[d].phase = "reply" => calls[d].got[s] = server[s]
    BY DEF IInv, Inv, Unopened
  <2>3. live'[s] = server[s] /\ wanted'[s] = server[s] /\ y.phase = "post" /\ y.posted = live'
    BY <2>1 DEF Starts
  <2>4. Current(s)' = server[s]
    BY <2>1, <2>3, <1>2 DEF Current
  <2>5. \A d \in Savers' : /\ calls'[d].posted[s] = server[s]
                           /\ calls'[d].phase = "reply" => calls'[d].got[s] = server[s]
    BY <1>2, <1>3, <2>2, <2>3
  <2> QED
    BY <2>1, <2>3, <2>4, <2>5
<1>9. Quiet'
  BY <1>3 DEF Quiet
<1>10. Alone'
  <2> SUFFICES ASSUME NEW d \in Savers', NEW s \in Covers(calls'[d].kind) \ exposed'
               PROVE  /\ Savers' = {d}
                      /\ calls'[d].posted[s] = wanted'[s]
                      /\ calls'[d].phase = "get" => server'[s] = wanted'[s]
                      /\ calls'[d].phase = "reply" => calls'[d].got[s] = wanted'[s]
    BY DEF Alone
  <2>1. d # c => s \in Covered(Savers)
    BY <1>2, <1>3 DEF Covered
  <2>2. d = c => s \in Covers(kind)
    BY <1>2 DEF Starts
  <2>3. Savers = {}
    BY <1>3, <1>5, <2>1, <2>2
  <2>4. d = c /\ s \in Covers(kind) /\ y.phase = "post" /\ y.posted = live'
    BY <1>3, <2>2, <2>3 DEF Starts
  <2> QED
    BY <1>2, <1>3, <2>3, <2>4 DEF Starts
<1>11. Based'
  BY <1>2 DEF Based, IInv, Inv
<1>12. EditsSurvive'
  BY <1>2, <1>5 DEF EditsSurvive, Starts
<1> QED
  BY <1>6, <1>7, <1>8, <1>9, <1>10, <1>11, <1>12 DEF IInv, Inv

Posting(x, kind, l) == [x EXCEPT !.kind = kind, !.phase = "post", !.posted = l]

LEMMA PostingCall ==
  ASSUME NEW n, NEW x \in CallsOf(n), NEW kind \in Kinds, NEW l \in ConfigsOf(n),
         NEW y, y = Posting(x, kind, l)
  PROVE  /\ y \in CallsOf(n) /\ y.kind = kind /\ y.phase = "post" /\ y.posted = l
         /\ y.clicked = x.clicked /\ y.key = x.key /\ y.deletes = x.deletes
BY DEF CallsOf, Posting

\* A page that nothing is at stake of is what the user made of it.
LEMMA WantedPage ==
  ASSUME IInv, NEW s \in Sections \ exposed
  PROVE  Current(s) = wanted[s] /\ (s \notin opened => live[s] = wanted[s])
BY DEF IInv, Inv, EditsSurvive, Unopened

LEMMA saveWorkspacePreserves ==
  ASSUME IInv, NEW c \in Calls, saveWorkspace(c)
  PROVE  IInv'
<1> DEFINE y == Posting(Free, "workspace", live')
<1>1. /\ calls[c] = Free /\ live' = beforeWorkspaceSave(Page)
      /\ calls' = [calls EXCEPT ![c] = y] /\ exposed' = Beside("workspace")
      /\ UNCHANGED <<settings, baseline, saved, winSaved, opened, sel, status,
                     world, bounds, wanted, unmarked>>
  BY DEF saveWorkspace, Send, Set, Posting
<1>2. Typed
  BY DEF IInv
<1>3. /\ "config" \in Sections /\ "workspace" \in Kinds /\ "workspace" # "consumers"
      /\ wanted \in ConfigsOf(nextId) /\ Covers("workspace") = Sections
  BY <1>2 DEF Sections, Lists, Kinds, Typed, Covers
<1>4. /\ live' \in ConfigsOf(nextId)
      /\ \A s \in Sections \ {"config"} : live'[s] = live[s]
      /\ live'["config"] = IF "config" \in opened THEN settings ELSE live["config"]
  <2>1. live' = IF "config" \in opened THEN [live EXCEPT !["config"] = settings] ELSE live
    BY <1>1, PageFields DEF beforeWorkspaceSave, mergeSettingsConfig
  <2> QED
    BY <2>1, <1>2, <1>3, Types DEF ConfigsOf
<1>5. y \in CallsOf(nextId) /\ y.kind = "workspace" /\ y.phase = "post"
      /\ y.posted = live' /\ y.clicked = None
  <2>1. Free \in CallsOf(nextId) /\ Free.clicked = None
    BY FreeCall
  <2> QED
    BY <2>1, <1>3, <1>4, PostingCall
<1> HIDE DEF y
<1>6. \A s \in opened \ exposed : Current(s)' = wanted'[s]
  <2>1. \A s \in opened \ exposed : Current(s) = wanted[s] /\ s \in Sections
    BY <1>2, Types, WantedPage
  <2>2. \A s \in Sections : Current(s)' = Current(s)
    BY <1>1, <1>4 DEF Current
  <2> QED
    BY <2>1, <2>2, <1>1
<1>7. Savers = {} => \A s \in Covers("workspace") : live'[s] = wanted'[s]
  <2> SUFFICES ASSUME Savers = {}, NEW s \in Sections
               PROVE  live'[s] = wanted[s]
    BY <1>1, <1>3
  <2>1. exposed = {}
    BY DEF IInv, Inv, Quiet
  <2>2. Current(s) = wanted[s] /\ (s \notin opened => live[s] = wanted[s])
    BY <2>1, WantedPage
  <2> QED
    BY <2>2, <1>4 DEF Current
<1>8. \A s \in Sections \ opened : live'[s] = live[s]
  BY <1>4
<1>9. nextId' = nextId /\ edits' \in Nat
  BY <1>1, <1>2, Types DEF bounds
<1>10. Starts(c, "workspace", y)
  BY <1>1, <1>3, <1>4, <1>5, <1>6, <1>7, <1>8, <1>9 DEF Starts
<1> QED
  BY <1>10, StartPreserves

LEMMA historySyncPreserves ==
  ASSUME IInv, NEW c \in Calls, historySync(c)
  PROVE  IInv'
<1> DEFINE y == Posting(Free, "history", live')
<1>1. /\ calls[c] = Free /\ edits' = edits + 1
      /\ calls' = [calls EXCEPT ![c] = y] /\ exposed' = Beside("history")
      /\ UNCHANGED <<page, world, wanted, unmarked, nextId>>
  BY DEF historySync, Send, Set, Posting
<1>2. Typed
  BY DEF IInv
<1>3. "history" \in Kinds /\ "history" # "consumers" /\ Covers("history") = {}
  BY DEF Kinds, Covers, Lists
<1>4. live' \in ConfigsOf(nextId) /\ wanted' \in ConfigsOf(nextId) /\ edits' \in Nat
  BY <1>1, <1>2, Types DEF page, Typed
<1>5. y \in CallsOf(nextId) /\ y.kind = "history" /\ y.phase = "post"
      /\ y.posted = live' /\ y.clicked = None
  <2>1. Free \in CallsOf(nextId) /\ Free.clicked = None
    BY FreeCall
  <2> QED
    BY <2>1, <1>3, <1>4, PostingCall
<1> HIDE DEF y
<1>6. \A s \in opened \ exposed : Current(s)' = wanted'[s]
  <2>1. \A s \in opened \ exposed : Current(s) = wanted[s] /\ s \in Sections
    BY <1>2, Types, WantedPage
  <2>2. \A s \in Sections : Current(s)' = Current(s)
    BY <1>1 DEF Current, page
  <2> QED
    BY <2>1, <2>2, <1>1
<1>7. Starts(c, "history", y)
  BY <1>1, <1>3, <1>4, <1>5, <1>6 DEF Starts, page
<1> QED
  BY <1>7, StartPreserves

LEMMA deletePublisherPreserves ==
  ASSUME IInv, NEW c \in Calls, NEW i, deleteCurrentPublisherAction(c, i)
  PROVE  IInv'
<1> DEFINE s == "publishers"
           x == [Free EXCEPT !.deletes = TRUE]
           y == Posting(x, s, live')
           rest == Without(live[s], i)
<1>1. /\ calls[c] = Free /\ s \in opened /\ i \in DOMAIN live[s]
      /\ live' = [live EXCEPT ![s] = rest]
      /\ wanted' = [wanted EXCEPT ![s] = live'[s]]
      /\ edits' = edits + 1
      /\ calls' = [calls EXCEPT ![c] = y] /\ exposed' = Beside(s)
      /\ UNCHANGED <<settings, baseline, saved, winSaved, opened, sel, status,
                     world, nextId, unmarked>>
  BY DEF deleteCurrentPublisherAction, Send, Set, Posting
<1>2. Typed
  BY DEF IInv
<1>3. s \in Sections /\ s # "config" /\ s \in Kinds /\ s # "consumers" /\ Covers(s) = {s}
  BY DEF Lists, Sections, Kinds, Covers
<1> HIDE DEF s
<1>4. rest \in ListsOf(nextId)
  BY <1>1, <1>2, <1>3, Types, ShorterList DEF ConfigsOf
<1> HIDE DEF rest
<1>5. /\ live' \in ConfigsOf(nextId) /\ wanted' \in ConfigsOf(nextId) /\ edits' \in Nat
      /\ wanted'[s] = live'[s]
      /\ \A t \in Sections \ {s} : live'[t] = live[t] /\ wanted'[t] = wanted[t]
  BY <1>1, <1>2, <1>3, <1>4, Types DEF ConfigsOf, Typed
<1>6. y \in CallsOf(nextId) /\ y.kind = s /\ y.phase = "post"
      /\ y.posted = live' /\ y.clicked = None
  <2>1. x \in CallsOf(nextId) /\ x.clicked = None
    BY FreeCall DEF Free, CallsOf
  <2> HIDE DEF x
  <2> QED
    BY <2>1, <1>3, <1>5, PostingCall
<1> HIDE DEF y
<1>7. \A t \in opened \ exposed : Current(t)' = wanted'[t]
  <2>1. \A t \in opened \ exposed : Current(t) = wanted[t] /\ t \in Sections
    BY <1>2, Types, WantedPage
  <2>2. \A t \in Sections \ {s} : Current(t)' = Current(t)
    BY <1>1, <1>5 DEF Current
  <2>3. Current(s)' = live'[s]
    BY <1>3 DEF Current
  <2> QED
    BY <2>1, <2>2, <2>3, <1>5
<1>8. Starts(c, s, y)
  BY <1>1, <1>3, <1>5, <1>6, <1>7 DEF Starts
<1> QED
  BY <1>8, StartPreserves

\* A call that saves nothing: a toggle that goes on to its request, or a call
\* that is over; and whatever else no save could notice.
LEMMA AsidePreserves ==
  ASSUME IInv, NEW c \in Calls, c \notin Savers, NEW y \in CallsOf(nextId),
         y.kind = None,
         y.clicked # None => "consumers" \in opened /\ ~ y.deletes,
         y.phase \in {"start", "stop"} => y.key = y.clicked,
         calls' = [calls EXCEPT ![c] = y],
         UNCHANGED <<live, settings, baseline, saved, winSaved, opened, sel, server,
                     ghosts, nextId>>,
         edits' \in Nat, status' \subseteq 0 .. MaxId, running' \subseteq 0 .. MaxId
  PROVE  IInv'
<1>1. Typed
  BY DEF IInv
<1>2. /\ calls' \in [Calls -> CallsOf(nextId)] /\ nextId' = nextId
      /\ calls'[c] = y /\ \A d \in Calls \ {c} : calls'[d] = calls[d]
      /\ wanted' = wanted /\ exposed' = exposed /\ unmarked' = unmarked
      /\ server' = server /\ opened' = opened /\ sel' = sel
  BY <1>1 DEF Typed, ghosts
<1>3. y.phase \notin {"post", "get", "reply"}
  BY NoneIsNothing DEF CallsOf, Kinds
<1>4. Savers' = Savers /\ \A d \in Savers : d \in Calls /\ calls'[d] = calls[d]
  BY <1>2, <1>3 DEF Savers, Saving
<1>5. Typed'
  <2>1. Page' \in PagesOf(nextId')
    BY <1>1, <1>2 DEF Page, Typed
  <2> QED
    BY <1>1, <1>2, <2>1 DEF Typed
<1>6. Toggles'
  <2> SUFFICES ASSUME NEW d \in Calls
               PROVE  /\ calls'[d].clicked # None => OfToggle(calls[d])'
                      /\ calls'[d].kind = "consumers" => calls'[d].clicked # None
                      /\ calls'[d].phase \in {"start", "stop"} =>
                           calls'[d].moved \/ calls'[d].key = calls'[d].clicked
    BY DEF Toggles
  <2>1. CASE d = c
    BY <2>1, <1>2, NoneIsNothing DEF OfToggle
  <2>2. CASE d # c
    <3>1. /\ calls[d].clicked # None => OfToggle(calls[d])
          /\ calls[d].kind = "consumers" => calls[d].clicked # None
          /\ calls[d].phase \in {"start", "stop"} =>
               calls[d].moved \/ calls[d].key = calls[d].clicked
      BY DEF IInv, Inv, Toggles
    <3> QED
      BY <2>2, <3>1, <1>2 DEF OfToggle
  <2> QED
    BY <2>1, <2>2
<1>7. Unopened'
  BY <1>2, <1>4 DEF IInv, Inv, Unopened, Current
<1>8. Quiet'
  BY <1>2, <1>4 DEF IInv, Inv, Quiet
<1>9. Alone'
  BY <1>2, <1>4 DEF IInv, Inv, Alone
<1>10. Based'
  BY <1>2 DEF IInv, Inv, Based
<1>11. EditsSurvive'
  BY <1>2 DEF IInv, Inv, EditsSurvive, Current
<1> QED
  BY <1>5, <1>6, <1>7, <1>8, <1>9, <1>10, <1>11 DEF IInv, Inv

LEMMA togglePreserves ==
  ASSUME IInv, NEW c \in Calls, toggleActiveConsumer(c)
  PROVE  IInv'
<1> DEFINE s == "consumers"
           id == live[s][sel].id
           x == [Free EXCEPT !.key = id, !.clicked = id]
           y == Posting(x, s, live')
           z == [x EXCEPT !.phase = IF id \in status THEN "stop" ELSE "start"]
<1>1. /\ calls[c] = Free /\ s \in opened /\ sel \in DOMAIN live[s]
      /\ edits' = edits + 1
      /\ UNCHANGED <<page, world, wanted, unmarked, nextId>>
      /\ \/ calls' = [calls EXCEPT ![c] = y] /\ exposed' = Beside(s)
         \/ calls' = [calls EXCEPT ![c] = z] /\ exposed' = exposed
  BY DEF toggleActiveConsumer, Send, Set, Posting
<1>2. Typed
  BY DEF IInv
<1>3. /\ s \in Sections /\ s # "config" /\ s \in Kinds /\ Covers(s) = {s}
  BY DEF Lists, Sections, Kinds, Covers
<1> HIDE DEF s
<1>4. id \in Nat /\ id # None
  <2>1. live[s] \in Seq([id : 0 .. nextId - 1, content : 0 .. 1])
    BY <1>2, <1>3, Types DEF ConfigsOf, ListsOf
  <2>2. live[s][sel] \in [id : 0 .. nextId - 1, content : 0 .. 1]
    <3> DEFINE E == [id : 0 .. nextId - 1, content : 0 .. 1]
               l == live[s]
    <3>1. l \in Seq(E) /\ sel \in DOMAIN l
      BY <1>1, <2>1
    <3> HIDE DEF E, l
    <3>2. sel \in 1 .. Len(l)
      BY <3>1, LenProperties
    <3>3. l[sel] \in E
      BY <3>1, <3>2, ElementOfSeq
    <3> QED
      BY <3>3 DEF E, l
  <2>3. id \in 0 .. nextId - 1
    BY <2>2
  <2> QED
    BY <2>3, <1>2, Types, NoneIsNothing
<1> HIDE DEF id
<1>5. /\ x \in CallsOf(nextId) /\ x.clicked = id /\ x.key = id /\ x.kind = None
      /\ x.deletes = FALSE /\ x.phase = "free"
  BY <1>4, FreeCall DEF Free, CallsOf
<1> HIDE DEF x
<1>6. /\ live' \in ConfigsOf(nextId) /\ wanted' \in ConfigsOf(nextId) /\ edits' \in Nat
      /\ live' = live
  BY <1>1, <1>2, Types DEF page, Typed
<1>7. CASE calls' = [calls EXCEPT ![c] = y] /\ exposed' = Beside(s)
  <2>1. y \in CallsOf(nextId) /\ y.kind = s /\ y.phase = "post" /\ y.posted = live'
        /\ y.clicked = id /\ y.key = id /\ y.deletes = FALSE
    BY <1>3, <1>5, <1>6, PostingCall
  <2> HIDE DEF y
  <2>2. \A t \in opened \ exposed : Current(t)' = wanted'[t]
    <3>1. \A t \in opened \ exposed : Current(t) = wanted[t] /\ t \in Sections
      BY <1>2, Types, WantedPage
    <3>2. \A t \in Sections : Current(t)' = Current(t)
      BY <1>1 DEF Current, page
    <3> QED
      BY <3>1, <3>2, <1>1
  <2>3. Savers = {} => \A t \in Covers(s) : live'[t] = wanted'[t]
    <3> SUFFICES ASSUME Savers = {}
                 PROVE  live[s] = wanted[s]
      BY <1>1, <1>3, <1>6
    <3>1. exposed = {}
      BY DEF IInv, Inv, Quiet
    <3>2. Current(s) = wanted[s]
      BY <3>1, <1>3, WantedPage
    <3> QED
      BY <3>2, <1>3 DEF Current
  <2>4. sel \in DOMAIN live'["consumers"] /\ live'["consumers"][sel].id = y.clicked
    BY <1>1, <1>6, <2>1 DEF id, s
  <2>5. (s = "consumers" <=> y.clicked # None) /\ "consumers" \in opened
    BY <1>1, <1>4, <2>1 DEF s
  <2>6. Starts(c, s, y)
    BY <1>1, <1>3, <1>6, <1>7, <2>1, <2>2, <2>3, <2>4, <2>5 DEF Starts, page
  <2> QED
    BY <2>6, StartPreserves
<1>8. CASE calls' = [calls EXCEPT ![c] = z] /\ exposed' = exposed
  <2>1. /\ z \in CallsOf(nextId) /\ z.kind = None /\ z.key = z.clicked /\ ~ z.deletes
    <3>1. z \in CallsOf(nextId)
      <4>1. x.kind \notin Kinds
        BY <1>5, NoneIsNothing DEF Kinds
      <4> QED
        BY <1>5, <4>1 DEF CallsOf
    <3> QED
      BY <1>5, <3>1 DEF CallsOf
  <2> HIDE DEF z
  <2>2. c \notin Savers /\ "consumers" \in opened
    BY <1>1, FreeCall DEF Savers, Saving, s
  <2>3. /\ UNCHANGED <<live, settings, baseline, saved, winSaved, opened, sel, server,
                       ghosts, nextId>>
        /\ status' \subseteq 0 .. MaxId /\ running' \subseteq 0 .. MaxId
    BY <1>1, <1>2, <1>8 DEF page, world, ghosts, Typed
  <2> QED
    BY <1>6, <1>8, <2>1, <2>2, <2>3, AsidePreserves
<1> QED
  BY <1>1, <1>7, <1>8

-----------------------------------------------------------------------------
(* A save goes on, and ends.                                               *)

\* The other calls stay as they are; of a toggle it is recorded when the list
\* that it will fetch, or the selection, is another.
OthersStay(c) ==
  \A d \in Calls \ {c} :
    /\ calls'[d].kind = calls[d].kind /\ calls'[d].phase = calls[d].phase
    /\ calls'[d].posted = calls[d].posted /\ calls'[d].got = calls[d].got
    /\ calls'[d].key = calls[d].key /\ calls'[d].clicked = calls[d].clicked
    /\ calls'[d].deletes = calls[d].deletes
    /\ calls[d].moved => calls'[d].moved
    /\ calls[d].clicked # None /\ ~ calls'[d].moved =>
         /\ "consumers" \in opened => sel' = sel
         /\ calls[d].phase = "get" => server'["consumers"] = calls[d].posted["consumers"]

\* What becomes of the call c itself.
CallIs(c, y) ==
  /\ y \in CallsOf(nextId) /\ calls'[c] = y
  /\ y.kind = "consumers" => y.clicked # None
  /\ y.clicked # None => OfToggle(calls[c])'
  /\ y.phase \in {"start", "stop"} => y.moved \/ y.key = y.clicked
  /\ \/ /\ y.kind = calls[c].kind /\ y.posted = calls[c].posted
        /\ y.phase = "get" => server' = y.posted
        /\ y.phase = "reply" => calls[c].phase = "get" /\ y.got = server
        /\ y.phase = "post" => FALSE
        /\ UNCHANGED <<exposed, wanted>>
     \/ /\ y.kind = None
        /\ Settle(c)

\* The page takes what was fetched, in the sections that the save covers.
PageTakes(c) ==
  /\ Page' \in PagesOf(nextId) /\ opened' = opened
  /\ \A s \in opened :
       \/ Current(s)' = Current(s)
       \/ /\ calls[c].phase = "reply" /\ s \in Covers(calls[c].kind)
          /\ Current(s)' = calls[c].got[s]
  /\ \A s \in opened : /\ baseline'[s] # None
                       /\ s \notin unmarked' => baseline'[s] = server'[s]
  /\ \A s \in Sections \ opened :
       /\ live'[s] = server[s] /\ Current(s)' = server[s] /\ saved'[s] = server[s]
       /\ baseline'[s] = None
       /\ s = "consumers" => winSaved' = None

Goes(c, y) ==
  /\ calls' \in [Calls -> CallsOf(nextId)]
  /\ OthersStay(c) /\ CallIs(c, y) /\ PageTakes(c)
  /\ server' = server \/ (calls[c].phase = "post" /\ server' = calls[c].posted)
  /\ nextId' = nextId /\ edits' \in Nat /\ unmarked' \subseteq Sections
  /\ status' \subseteq 0 .. MaxId /\ running' \subseteq 0 .. MaxId

LEMMA GoesPreserves ==
  ASSUME IInv, NEW c \in Savers, NEW y, Goes(c, y)
  PROVE  IInv'
<1>1. Typed
  BY DEF IInv
<1>2. /\ c \in Calls /\ calls[c] \in CallsOf(nextId)
      /\ \A d \in Savers : d \in Calls /\ calls[d] \in CallsOf(nextId)
      /\ \A d \in Calls : Saving(d) <=> calls[d].kind \in Kinds
      /\ \A d \in Calls : Saving(d)' <=> calls'[d].kind \in Kinds
  BY <1>1 DEF Typed, Savers, Saving, CallsOf, Goes
<1>3. OthersStay(c) /\ CallIs(c, y) /\ PageTakes(c)
  BY DEF Goes
<1>4. \/ /\ y.kind = calls[c].kind /\ Savers' = Savers
         /\ y.posted = calls[c].posted
         /\ y.phase = "get" => server' = y.posted
         /\ y.phase = "reply" => calls[c].phase = "get" /\ y.got = server
         /\ exposed' = exposed /\ wanted' = wanted
      \/ /\ y.kind = None /\ Savers' = Savers \ {c}
         /\ Settle(c)
  <2>1. \A d \in Calls \ {c} : d \in Savers' <=> d \in Savers
    BY <1>2, <1>3 DEF Savers, OthersStay
  <2>2. Savers \subseteq Calls /\ Savers' \subseteq Calls
    BY DEF Savers
  <2>3. CASE y.kind = calls[c].kind
    <3>1. c \in Savers'
      BY <2>3, <1>2, <1>3 DEF Savers, CallIs
    <3>2. Savers' = Savers
      BY <3>1, <2>1, <2>2
    <3>3. y.kind # None
      BY <2>3, <1>2, NoneIsNothing DEF Savers, Kinds
    <3> QED
      BY <2>3, <3>2, <3>3, <1>3 DEF CallIs
  <2>4. CASE y.kind = None /\ Settle(c)
    <3>1. c \notin Savers'
      BY <2>4, <1>2, <1>3, NoneIsNothing DEF Savers, CallIs, Kinds
    <3>2. Savers' = Savers \ {c}
      BY <3>1, <2>1, <2>2
    <3> QED
      BY <2>4, <3>2
  <2> QED
    BY <1>3, <2>3, <2>4 DEF CallIs
<1>5. \A d \in Savers' \ {c} : /\ d \in Savers /\ calls'[d].kind = calls[d].kind
                               /\ calls'[d].phase = calls[d].phase
                               /\ calls'[d].posted = calls[d].posted
                               /\ calls'[d].got = calls[d].got
  BY <1>2, <1>3, <1>4 DEF OthersStay
<1>6. \/ exposed' = exposed /\ wanted' = wanted
      \/ /\ Savers \subseteq {c} /\ y.kind = None /\ exposed' = {}
         /\ wanted' = [s \in Sections |-> IF s \in exposed THEN Current(s)' ELSE wanted[s]]
  BY <1>4 DEF Settle
<1>7. \A s \in Sections \ opened :
        /\ live[s] = server[s] /\ Current(s) = server[s] /\ wanted[s] = server[s]
        /\ \A d \in Savers : /\ calls[d].posted[s] = server[s]
                             /\ calls[d].phase = "reply" => calls[d].got[s] = server[s]
  BY DEF IInv, Inv, Unopened
<1>8. \A s \in Sections \ opened : server'[s] = server[s]
  BY <1>7 DEF Goes
<1>9. ASSUME NEW d \in Savers, NEW s \in Covers(calls[d].kind) \ exposed
      PROVE  /\ Savers = {d} /\ d = c
             /\ calls[d].posted[s] = wanted[s]
             /\ calls[d].phase = "get" => server[s] = wanted[s]
             /\ calls[d].phase = "reply" => calls[d].got[s] = wanted[s]
  BY <1>9 DEF IInv, Inv, Alone
<1>10. opened' = opened /\ opened \subseteq Sections
  BY <1>1, <1>3, Types DEF PageTakes
<1>11. Typed'
  <2>1. wanted' \in ConfigsOf(nextId)
    <3>1. \A s \in Sections : Current(s)' \in ListsOf(nextId)
      BY <1>3 DEF PageTakes, Page, PagesOf, ConfigsOf, Current
    <3>2. wanted \in ConfigsOf(nextId)
      BY <1>1 DEF Typed
    <3> QED
      BY <3>1, <3>2, <1>6 DEF ConfigsOf
  <2>2. server' \in ConfigsOf(nextId)
    BY <1>1, <1>2 DEF Goes, Typed, CallsOf
  <2>3. exposed' \subseteq Sections
    BY <1>1, <1>6, Types
  <2> QED
    BY <1>1, <1>3, <2>1, <2>2, <2>3 DEF Goes, Typed, PageTakes
<1>12. Toggles'
  <2> SUFFICES ASSUME NEW d \in Calls
               PROVE  /\ calls'[d].clicked # None => OfToggle(calls[d])'
                      /\ calls'[d].kind = "consumers" => calls'[d].clicked # None
                      /\ calls'[d].phase \in {"start", "stop"} =>
                           calls'[d].moved \/ calls'[d].key = calls'[d].clicked
    BY DEF Toggles
  <2>1. CASE d = c
    BY <2>1, <1>3 DEF CallIs
  <2>2. CASE d # c
    <3>1. /\ calls[d].clicked # None => OfToggle(calls[d])
          /\ calls[d].kind = "consumers" => calls[d].clicked # None
          /\ calls[d].phase \in {"start", "stop"} =>
               calls[d].moved \/ calls[d].key = calls[d].clicked
      BY DEF IInv, Inv, Toggles
    <3>2. /\ calls'[d].kind = calls[d].kind /\ calls'[d].phase = calls[d].phase
          /\ calls'[d].posted = calls[d].posted /\ calls'[d].got = calls[d].got
          /\ calls'[d].key = calls[d].key /\ calls'[d].clicked = calls[d].clicked
          /\ calls'[d].deletes = calls[d].deletes
          /\ calls[d].moved => calls'[d].moved
          /\ calls[d].clicked # None /\ ~ calls'[d].moved =>
               /\ "consumers" \in opened => sel' = sel
               /\ calls[d].phase = "get" => server'["consumers"] = calls[d].posted["consumers"]
      BY <2>2, <1>3 DEF OthersStay
    <3>3. calls[d].clicked # None => OfToggle(calls[d])'
      BY <3>1, <3>2, <1>10 DEF OfToggle
    <3> QED
      BY <3>1, <3>2, <3>3
  <2> QED
    BY <2>1, <2>2
<1>13. Unopened'
  <2> SUFFICES ASSUME NEW s \in Sections \ opened
               PROVE  /\ live'[s] = server'[s] /\ Current(s)' = server'[s]
                      /\ wanted'[s] = server'[s]
                      /\ saved'[s] = server'[s] /\ baseline'[s] = None
                      /\ s = "consumers" => winSaved' = None
                      /\ \A d \in Savers' :
                           /\ calls'[d].posted[s] = server'[s]
                           /\ calls'[d].phase = "reply" => calls'[d].got[s] = server'[s]
    BY <1>10 DEF Unopened
  <2>1. /\ live'[s] = server'[s] /\ Current(s)' = server'[s] /\ saved'[s] = server'[s]
        /\ baseline'[s] = None
        /\ s = "consumers" => winSaved' = None
    BY <1>3, <1>8 DEF PageTakes
  <2>2. wanted'[s] = server'[s]
    BY <1>6, <1>7, <1>8, <2>1
  <2>3. ASSUME NEW d \in Savers'
        PROVE  /\ calls'[d].posted[s] = server'[s]
               /\ calls'[d].phase = "reply" => calls'[d].got[s] = server'[s]
    <3>1. CASE d = c
      BY <3>1, <2>3, <1>3, <1>4, <1>7, <1>8 DEF CallIs
    <3>2. CASE d # c
      BY <3>2, <2>3, <1>5, <1>7, <1>8
    <3> QED
      BY <3>1, <3>2
  <2> QED
    BY <2>1, <2>2, <2>3
<1>14. Quiet'
  <2> SUFFICES ASSUME Savers' = {}
               PROVE  exposed' = {}
    BY DEF Quiet
  <2>1. Savers \subseteq {c} /\ Settle(c)
    BY <1>4
  <2> QED
    BY <2>1 DEF Settle
<1>15. Alone'
  <2> SUFFICES ASSUME NEW d \in Savers', NEW s \in Covers(calls'[d].kind) \ exposed'
               PROVE  /\ Savers' = {d}
                      /\ calls'[d].posted[s] = wanted'[s]
                      /\ calls'[d].phase = "get" => server'[s] = wanted'[s]
                      /\ calls'[d].phase = "reply" => calls'[d].got[s] = wanted'[s]
    BY DEF Alone
  <2>1. CASE d = c
    <3>1. /\ calls'[c] = y /\ y.kind = calls[c].kind /\ Savers' = Savers
          /\ y.posted = calls[c].posted
          /\ y.phase = "get" => server' = y.posted
          /\ y.phase = "reply" => calls[c].phase = "get" /\ y.got = server
          /\ exposed' = exposed /\ wanted' = wanted
      BY <2>1, <1>3, <1>4 DEF CallIs
    <3>2. /\ Savers = {c}
          /\ calls[c].posted[s] = wanted[s]
          /\ calls[c].phase = "get" => server[s] = wanted[s]
      BY <2>1, <3>1, <1>9
    <3> QED
      BY <2>1, <3>1, <3>2
  <2>2. CASE d # c
    <3>1. d \in Savers /\ Covers(calls'[d].kind) = Covers(calls[d].kind)
      BY <2>2, <1>5
    <3>2. exposed' = exposed
      BY <2>2, <3>1, <1>6
    <3> QED
      BY <2>2, <3>1, <3>2, <1>9
  <2> QED
    BY <2>1, <2>2
<1>16. Based'
  BY <1>3, <1>10 DEF Based, PageTakes
<1>17. EditsSurvive'
  <2> SUFFICES ASSUME NEW s \in Sections \ exposed', s \in opened
               PROVE  Current(s)' = wanted'[s]
    BY <1>10 DEF EditsSurvive
  <2>1. CASE s \in exposed
    BY <2>1, <1>6
  <2>2. CASE s \notin exposed
    <3>1. wanted'[s] = wanted[s]
      BY <2>2, <1>6
    <3>2. Current(s) = wanted[s]
      BY <2>2 DEF IInv, Inv, EditsSurvive
    <3>3. calls[c].phase = "reply" /\ s \in Covers(calls[c].kind) => calls[c].got[s] = wanted[s]
      BY <2>2, <1>9
    <3> QED
      BY <3>1, <3>2, <3>3, <1>3 DEF PageTakes
  <2> QED
    BY <2>1, <2>2
<1> QED
  BY <1>11, <1>12, <1>13, <1>14, <1>15, <1>16, <1>17 DEF IInv, Inv

\* The other calls do not notice, or their toggles are marked as moved.
LEMMA OthersKept ==
  ASSUME IInv, NEW c \in Calls, NEW y \in CallsOf(nextId),
         \/ calls' = [calls EXCEPT ![c] = y] /\ server' = server /\ sel' = sel
         \/ Overtakes(c, y) /\ sel' = sel
         \/ /\ calls' = [d \in Calls |-> IF d = c THEN y ELSE Moved(calls[d])]
            /\ "consumers" \notin opened => sel' = sel
  PROVE  /\ OthersStay(c) /\ calls'[c] = y
         /\ calls' \in [Calls -> CallsOf(nextId)]
<1>1. calls \in [Calls -> CallsOf(nextId)] /\ server \in ConfigsOf(nextId)
  BY DEF IInv, Typed
<1>2. \A d \in Calls : /\ Moved(calls[d]) \in CallsOf(nextId)
                       /\ Moved(calls[d]).kind = calls[d].kind
                       /\ Moved(calls[d]).phase = calls[d].phase
                       /\ Moved(calls[d]).posted = calls[d].posted
                       /\ Moved(calls[d]).got = calls[d].got
                       /\ Moved(calls[d]).key = calls[d].key
                       /\ Moved(calls[d]).clicked = calls[d].clicked
                       /\ Moved(calls[d]).deletes = calls[d].deletes
                       /\ calls[d].moved => Moved(calls[d]).moved
                       /\ calls[d].clicked # None => Moved(calls[d]).moved
  <2>1. ASSUME NEW x, x \in CallsOf(nextId)
        PROVE  /\ Moved(x) \in CallsOf(nextId)
               /\ Moved(x).kind = x.kind /\ Moved(x).phase = x.phase
               /\ Moved(x).posted = x.posted /\ Moved(x).got = x.got
               /\ Moved(x).key = x.key /\ Moved(x).clicked = x.clicked
               /\ Moved(x).deletes = x.deletes
               /\ x.moved => Moved(x).moved
               /\ x.clicked # None => Moved(x).moved
    BY <2>1, MovedCall
  <2>2. \A d \in Calls : calls[d] \in CallsOf(nextId)
    BY <1>1
  <2> QED
    BY <2>1, <2>2
<1>3. CASE calls' = [calls EXCEPT ![c] = y] /\ server' = server /\ sel' = sel
  <2>1. ASSUME NEW d \in Calls \ {c}, calls[d].clicked # None, ~ calls[d].moved,
               calls[d].phase = "get"
        PROVE  server["consumers"] = calls[d].posted["consumers"]
    <3>1. OfToggle(calls[d])
      BY <2>1 DEF IInv, Inv, Toggles
    <3>2. calls[d].kind # None
      BY <2>1, <1>1, NoneIsNothing DEF CallsOf, Kinds
    <3> QED
      BY <3>1, <3>2, <2>1 DEF OfToggle
  <2> QED
    BY <1>1, <1>3, <2>1 DEF OthersStay
<1>4. CASE Overtakes(c, y) /\ sel' = sel
  <2>1. ASSUME NEW d \in Calls \ {c}
        PROVE  \/ calls'[d] = Moved(calls[d])
               \/ /\ calls'[d] = calls[d]
                  /\ calls[d].phase = "get" =>
                       server'["consumers"] = calls[d].posted["consumers"]
    BY <1>4 DEF Overtakes
  <2>2. OthersStay(c)
    BY <1>2, <1>4, <2>1 DEF OthersStay
  <2> QED
    BY <1>1, <1>2, <1>4, <2>2 DEF Overtakes
<1>5. CASE /\ calls' = [d \in Calls |-> IF d = c THEN y ELSE Moved(calls[d])]
           /\ "consumers" \notin opened => sel' = sel
  <2>1. \A d \in Calls \ {c} : calls'[d] = Moved(calls[d])
    BY <1>5
  <2>2. OthersStay(c)
    BY <1>2, <2>1 DEF OthersStay
  <2> QED
    BY <1>1, <1>2, <1>5, <2>2
<1> QED
  BY <1>3, <1>4, <1>5

\* What the invariant says of a call that saves.
LEMMA OfSaver ==
  ASSUME IInv, NEW c \in Savers
  PROVE  /\ c \in Calls /\ calls[c] \in CallsOf(nextId) /\ calls[c].kind \in Kinds
         /\ calls[c].posted \in ConfigsOf(nextId)
         /\ calls[c].phase = "reply" => calls[c].got \in ConfigsOf(nextId)
         /\ calls[c].kind # None
         /\ calls[c].kind = "consumers" <=> calls[c].clicked # None
         /\ calls[c].clicked # None => OfToggle(calls[c])
         /\ \A s \in Sections \ opened :
              /\ calls[c].posted[s] = server[s]
              /\ calls[c].phase = "reply" => calls[c].got[s] = server[s]
<1>1. c \in Calls /\ calls[c] \in CallsOf(nextId) /\ Saving(c)
  BY DEF IInv, Typed, Savers
<1>2. /\ calls[c].kind \in Kinds /\ calls[c].posted \in ConfigsOf(nextId)
      /\ calls[c].phase = "reply" => calls[c].got \in ConfigsOf(nextId)
      /\ calls[c].kind # None
  BY <1>1, NoneIsNothing DEF Saving, CallsOf, Kinds
<1>3. calls[c].clicked # None => OfToggle(calls[c])
  BY <1>1 DEF IInv, Inv, Toggles
<1>4. calls[c].kind = "consumers" <=> calls[c].clicked # None
  BY <1>1, <1>2, <1>3 DEF IInv, Inv, Toggles, OfToggle
<1> QED
  BY <1>1, <1>2, <1>3, <1>4 DEF IInv, Inv, Unopened

\* The page stays as it is, and what is stored is marked.
LEMMA PageStays ==
  ASSUME IInv, NEW c \in Savers,
         UNCHANGED <<live, settings, baseline, saved, winSaved, opened, sel>>,
         \A s \in opened : s \notin unmarked' => s \notin unmarked /\ server'[s] = server[s]
  PROVE  PageTakes(c)
<1>1. Page' \in PagesOf(nextId) /\ opened' = opened
  BY DEF IInv, Typed, Page
<1>2. \A s \in Sections : Current(s)' = Current(s)
  BY DEF Current
<1>3. opened \subseteq Sections
  BY Types DEF IInv
<1>4. \A s \in opened : baseline'[s] # None /\ (s \notin unmarked' => baseline'[s] = server'[s])
  BY DEF IInv, Inv, Based
<1>5. \A s \in Sections \ opened :
        /\ live'[s] = server[s] /\ Current(s)' = server[s] /\ saved'[s] = server[s]
        /\ baseline'[s] = None
        /\ s = "consumers" => winSaved' = None
  BY <1>2 DEF IInv, Inv, Unopened
<1> QED
  BY <1>1, <1>2, <1>3, <1>4, <1>5 DEF PageTakes

LEMMA postConfigPreserves ==
  ASSUME IInv, NEW c \in Calls, postConfig(c)
  PROVE  IInv'
<1> DEFINE y == [calls[c] EXCEPT !.phase = "get"]
<1>1. /\ calls[c].phase = "post" /\ server' = calls[c].posted
      /\ running' \subseteq running
      /\ unmarked' = unmarked \cup {s \in Sections : server'[s] # server[s]}
      /\ Overtakes(c, y)
      /\ UNCHANGED <<page, bounds, wanted, exposed>>
  BY DEF postConfig, Store
<1>2. Typed
  BY DEF IInv
<1>3. c \in Savers
  BY <1>1 DEF Savers, Saving
<1>4. /\ calls[c] \in CallsOf(nextId) /\ calls[c].kind \in Kinds /\ calls[c].kind # None
      /\ calls[c].kind = "consumers" <=> calls[c].clicked # None
      /\ calls[c].clicked # None => OfToggle(calls[c])
  BY <1>3, OfSaver
<1>5. /\ y \in CallsOf(nextId) /\ y.kind = calls[c].kind /\ y.phase = "get"
      /\ y.posted = calls[c].posted /\ y.key = calls[c].key /\ y.clicked = calls[c].clicked
      /\ y.moved = calls[c].moved /\ y.deletes = calls[c].deletes
  BY <1>1, <1>4 DEF CallsOf
<1> HIDE DEF y
<1>6. OthersStay(c) /\ calls'[c] = y /\ calls' \in [Calls -> CallsOf(nextId)]
  BY <1>1, <1>5, OthersKept DEF page
<1>7. y.clicked # None => OfToggle(calls[c])'
  <2>1. opened' = opened /\ sel' = sel
    BY <1>1 DEF page
  <2> QED
    BY <1>1, <1>4, <1>5, <1>6, <2>1 DEF OfToggle
<1>8. CallIs(c, y)
  BY <1>1, <1>4, <1>5, <1>6, <1>7 DEF CallIs
<1>9. PageTakes(c)
  <2>1. \A s \in opened : s \in Sections
    BY <1>2, Types
  <2> QED
    BY <1>1, <1>3, <2>1, PageStays DEF page
<1>10. Goes(c, y)
  BY <1>1, <1>2, <1>6, <1>8, <1>9, Types DEF Goes, page, bounds, Typed
<1> QED
  BY <1>3, <1>10, GoesPreserves

LEMMA fetchConfigPreserves ==
  ASSUME IInv, NEW c \in Calls, fetchConfigFromServer(c)
  PROVE  IInv'
<1> DEFINE y == [calls[c] EXCEPT !.phase = "reply", !.got = server]
<1>1. /\ calls[c].phase = "get"
      /\ calls' = [calls EXCEPT ![c] = y]
      /\ UNCHANGED <<page, world, bounds, ghosts>>
  BY DEF fetchConfigFromServer, Set
<1>2. Typed
  BY DEF IInv
<1>3. c \in Savers
  BY <1>1 DEF Savers, Saving
<1>4. /\ calls[c] \in CallsOf(nextId) /\ calls[c].kind \in Kinds /\ calls[c].kind # None
      /\ calls[c].kind = "consumers" <=> calls[c].clicked # None
      /\ calls[c].clicked # None => OfToggle(calls[c])
      /\ server \in ConfigsOf(nextId)
  BY <1>2, <1>3, OfSaver DEF Typed
<1>5. /\ y \in CallsOf(nextId) /\ y.kind = calls[c].kind /\ y.phase = "reply"
      /\ y.got = server
      /\ y.posted = calls[c].posted /\ y.key = calls[c].key /\ y.clicked = calls[c].clicked
      /\ y.moved = calls[c].moved /\ y.deletes = calls[c].deletes
  BY <1>1, <1>4 DEF CallsOf
<1> HIDE DEF y
<1>6. OthersStay(c) /\ calls'[c] = y /\ calls' \in [Calls -> CallsOf(nextId)]
  BY <1>1, <1>5, OthersKept DEF page, world
<1>7. y.clicked # None => OfToggle(calls[c])'
  <2>1. opened' = opened /\ sel' = sel
    BY <1>1 DEF page
  <2> QED
    BY <1>1, <1>4, <1>5, <1>6, <2>1 DEF OfToggle
<1>8. CallIs(c, y)
  BY <1>1, <1>4, <1>5, <1>6, <1>7 DEF CallIs, ghosts
<1>9. PageTakes(c)
  BY <1>1, <1>3, PageStays DEF page, world, ghosts
<1>10. Goes(c, y)
  BY <1>1, <1>2, <1>6, <1>8, <1>9, Types DEF Goes, page, world, bounds, ghosts, Typed
<1> QED
  BY <1>3, <1>10, GoesPreserves

LEMMA finishHistoryPreserves ==
  ASSUME IInv, NEW c \in Calls, finishHistory(c)
  PROVE  IInv'
<1>1. /\ calls[c].phase = "reply"
      /\ UNCHANGED <<page, world, bounds, unmarked>>
      /\ calls' = [calls EXCEPT ![c] = Free]
      /\ Settle(c)
  BY DEF finishHistory, Set
<1>2. Typed
  BY DEF IInv
<1>3. c \in Savers
  BY <1>1 DEF Savers, Saving
<1>4. Free \in CallsOf(nextId) /\ Free.kind = None /\ Free.phase = "free" /\ Free.clicked = None
  BY FreeCall
<1>5. OthersStay(c) /\ calls'[c] = Free /\ calls' \in [Calls -> CallsOf(nextId)]
  BY <1>1, <1>4, OthersKept DEF page, world
<1>6. CallIs(c, Free)
  BY <1>1, <1>4, <1>5, NoneIsNothing DEF CallIs
<1>7. PageTakes(c)
  BY <1>1, <1>3, PageStays DEF page, world
<1>8. Goes(c, Free)
  BY <1>1, <1>2, <1>5, <1>6, <1>7, Types DEF Goes, page, world, bounds, Typed
<1> QED
  BY <1>3, <1>8, GoesPreserves

LEMMA finishWorkspacePreserves ==
  ASSUME IInv, NEW c \in Calls, finishWorkspace(c)
  PROVE  IInv'
<1> DEFINE got == calls[c].got
           q == workspaceSaved(Page, got)
<1>1. /\ calls[c].phase = "reply" /\ calls[c].kind = "workspace"
      /\ Become(q)
      /\ calls' = [d \in Calls |-> IF d = c THEN Free ELSE Moved(calls[d])]
      /\ Settle(c)
      /\ unmarked' = Mark(Sections, got)
      /\ UNCHANGED <<status, world, bounds>>
  BY DEF finishWorkspace
<1>2. Typed
  BY DEF IInv
<1>3. c \in Savers
  BY <1>1 DEF Savers, Saving
<1>4. /\ got \in ConfigsOf(nextId)
      /\ \A s \in Sections \ opened : got[s] = server[s]
  BY <1>1, <1>3, OfSaver
<1>5. /\ Page \in PagesOf(nextId) /\ nextId \in 3 .. MaxId + 1
      /\ opened \subseteq Sections /\ Sections = {"publishers", "consumers", "config"}
  BY <1>2, Types DEF Sections, Lists
<1> HIDE DEF q
<1>6. /\ q \in PagesOf(nextId)
      /\ q.live = got /\ q.winSaved = winSaved /\ q.opened = opened
      /\ q.settings = IF "config" \in opened THEN got["config"] ELSE settings
      /\ "consumers" \notin opened => q.sel = sel
      /\ \A t \in Sections : q.saved[t] = got[t]
      /\ \A t \in opened : q.baseline[t] = got[t]
      /\ \A t \in Sections \ opened : baseline[t] = None => q.baseline[t] = None
  BY <1>4, <1>5, PageFields, WorkspaceSaved DEF q
<1>7. /\ live' = got /\ winSaved' = winSaved /\ opened' = opened
      /\ settings' = (IF "config" \in opened THEN got["config"] ELSE settings)
      /\ "consumers" \notin opened => sel' = sel
      /\ \A t \in Sections : saved'[t] = got[t]
      /\ \A t \in opened : baseline'[t] = got[t]
      /\ \A t \in Sections \ opened : baseline[t] = None => baseline'[t] = None
  BY <1>1, <1>6 DEF Become
<1>8. Free \in CallsOf(nextId) /\ Free.kind = None /\ Free.phase = "free" /\ Free.clicked = None
  BY FreeCall
<1>9. OthersStay(c) /\ calls'[c] = Free /\ calls' \in [Calls -> CallsOf(nextId)]
  BY <1>1, <1>7, <1>8, OthersKept
<1>10. CallIs(c, Free)
  BY <1>1, <1>8, <1>9, NoneIsNothing DEF CallIs
<1>11. PageTakes(c)
  <2>1. Page' \in PagesOf(nextId)
    BY <1>1, <1>6, Becomes
  <2>2. Covers(calls[c].kind) = Sections
    BY <1>1 DEF Covers, Lists
  <2>3. \A s \in opened : Current(s)' = got[s]
    BY <1>7 DEF Current
  <2>4. \A s \in opened : got[s] # None /\ (s \notin unmarked' => got[s] = server'[s])
    <3>1. \A s \in Sections : got[s] # None
      BY <1>4, <1>5, NoneIsNoList DEF ConfigsOf
    <3> QED
      BY <3>1, <1>1, <1>5 DEF Mark, world
  <2>5. ASSUME NEW s \in Sections \ opened
        PROVE  /\ live'[s] = server[s] /\ Current(s)' = server[s] /\ saved'[s] = server[s]
               /\ baseline'[s] = None
               /\ s = "consumers" => winSaved' = None
    <3>1. /\ Current(s) = server[s] /\ baseline[s] = None
          /\ s = "consumers" => winSaved = None
      BY DEF IInv, Inv, Unopened
    <3> QED
      BY <3>1, <1>4, <1>7 DEF Current
  <2> QED
    BY <1>1, <1>5, <1>7, <2>1, <2>2, <2>3, <2>4, <2>5 DEF PageTakes
<1>12. unmarked' \subseteq Sections
  BY <1>1, <1>2, Types DEF Mark
<1>13. Goes(c, Free)
  BY <1>1, <1>2, <1>9, <1>10, <1>11, <1>12, Types DEF Goes, world, bounds, Typed
<1> QED
  BY <1>3, <1>13, GoesPreserves

LEMMA finishSectionPreserves ==
  ASSUME IInv, NEW c \in Calls, finishSection(c)
  PROVE  IInv'
<1>0. PICK s \in Lists : calls[c].kind = s
  BY DEF finishSection
<1> DEFINE call == calls[c]
           got == call.got
           p == sectionSaved(Page, s, got)
           q == IF s = "consumers" THEN [p EXCEPT !.winSaved = got[s]] ELSE p
           y == IF s = "consumers" /\ sel \in DOMAIN got[s]
                THEN [call EXCEPT !.phase = "start", !.kind = None, !.got = None,
                                  !.posted = None, !.key = startKey(got[s])]
                ELSE Free
<1>1. /\ call.phase = "reply" /\ call.kind = s
      /\ Become(q)
      /\ calls' = [calls EXCEPT ![c] = y]
      /\ Settle(c)
      /\ unmarked' = Mark({s}, got)
      /\ UNCHANGED <<status, world, bounds>>
  BY <1>0 DEF finishSection, Set
<1>2. Typed
  BY DEF IInv
<1>3. c \in Savers
  BY <1>1 DEF Savers, Saving
<1>4. /\ call \in CallsOf(nextId) /\ got \in ConfigsOf(nextId)
      /\ s = "consumers" <=> call.clicked # None
      /\ call.clicked # None => OfToggle(call)
      /\ \A t \in Sections \ opened : got[t] = server[t]
  BY <1>1, <1>3, OfSaver
<1>5. /\ Page \in PagesOf(nextId) /\ nextId \in 3 .. MaxId + 1
      /\ opened \subseteq Sections /\ s \in Sections /\ s # "config"
      /\ "consumers" \in Sections /\ Covers(s) = {s}
  BY <1>2, Types DEF Sections, Lists, Covers
<1>6. s = "consumers" => s \in opened
  BY <1>4 DEF OfToggle
<1>7. got[s] \in ListsOf(nextId)
  BY <1>4, <1>5 DEF ConfigsOf
<1> HIDE DEF p
<1>8. /\ p \in PagesOf(nextId)
      /\ p.settings = settings /\ p.winSaved = winSaved
      /\ p.opened = opened /\ p.sel = sel
      /\ p.live[s] = got[s] /\ p.saved[s] = got[s]
      /\ p.baseline[s] = IF baseline[s] = None THEN None ELSE got[s]
      /\ \A t \in Sections \ {s} : /\ p.live[t] = live[t] /\ p.saved[t] = saved[t]
                                   /\ p.baseline[t] = baseline[t]
  <2> HIDE DEF got
  <2> QED
    BY <1>4, <1>5, PageFields, SectionSaved DEF p
<1>9. /\ q \in PagesOf(nextId) /\ q.live = p.live /\ q.settings = p.settings
      /\ q.opened = p.opened /\ q.sel = p.sel /\ q.saved = p.saved /\ q.baseline = p.baseline
      /\ s # "consumers" => q.winSaved = winSaved
  BY <1>7, <1>8 DEF PagesOf
<1> HIDE DEF q
<1>10. /\ settings' = settings /\ opened' = opened /\ sel' = sel
       /\ live'[s] = got[s] /\ saved'[s] = got[s]
       /\ baseline'[s] = (IF baseline[s] = None THEN None ELSE got[s])
       /\ \A t \in Sections \ {s} : /\ live'[t] = live[t] /\ saved'[t] = saved[t]
                                    /\ baseline'[t] = baseline[t]
       /\ s # "consumers" => winSaved' = winSaved
  BY <1>1, <1>8, <1>9 DEF Become
<1>11. /\ y \in CallsOf(nextId) /\ y.kind = None /\ y.phase \in {"free", "start"}
       /\ y.clicked # None => "consumers" \in opened /\ ~ y.deletes
       /\ y.phase = "start" => y.moved \/ y.key = y.clicked
  <2>1. CASE s = "consumers" /\ sel \in DOMAIN got[s]
    <3> DEFINE k == got[s][sel].id
    <3>1. y = [call EXCEPT !.phase = "start", !.kind = None, !.got = None,
                           !.posted = None, !.key = k]
      BY <2>1 DEF startKey
    <3>2. k \in Nat
      <4> DEFINE E == [id : 0 .. nextId - 1, content : 0 .. 1]
                 l == got[s]
      <4>1. l \in Seq(E) /\ sel \in DOMAIN l
        BY <2>1, <1>7 DEF ListsOf
      <4> HIDE DEF E, l
      <4>2. l[sel] \in E
        BY <4>1, LenProperties, ElementOfSeq
      <4>3. l[sel].id \in 0 .. nextId - 1
        BY <4>2 DEF E
      <4> QED
        BY <4>3, <1>5 DEF l
    <3>3. ~ call.moved => k = call.clicked
      BY <2>1, <1>1, <1>4, NoneIsNothing DEF OfToggle
    <3>4. "consumers" \in opened /\ ~ call.deletes
      BY <2>1, <1>4 DEF OfToggle
    <3> HIDE DEF k, y
    <3>5. /\ y \in CallsOf(nextId) /\ y.kind = None /\ y.phase = "start"
          /\ y.key = k /\ y.clicked = call.clicked /\ y.moved = call.moved
          /\ y.deletes = call.deletes
      BY <3>1, <3>2, <1>4, NoneIsNothing DEF CallsOf, Kinds
    <3> QED
      BY <3>3, <3>4, <3>5
  <2>2. CASE ~ (s = "consumers" /\ sel \in DOMAIN got[s])
    <3>1. y = Free
      BY <2>2
    <3> QED
      BY <3>1, FreeCall
  <2> QED
    BY <2>1, <2>2
<1> HIDE DEF y
<1>12. OthersStay(c) /\ calls'[c] = y /\ calls' \in [Calls -> CallsOf(nextId)]
  BY <1>1, <1>10, <1>11, OthersKept DEF world
<1>13. CallIs(c, y)
  <2>1. y.clicked # None => OfToggle(calls[c])'
    BY <1>10, <1>11, <1>12 DEF OfToggle
  <2> QED
    BY <2>1, <1>1, <1>11, <1>12, NoneIsNothing DEF CallIs
<1>14. PageTakes(c)
  <2>1. Page' \in PagesOf(nextId)
    BY <1>1, <1>9, <1>8, Becomes
  <2>2. Current(s)' = got[s] /\ \A t \in Sections \ {s} : Current(t)' = Current(t)
    BY <1>5, <1>10 DEF Current
  <2>3. \A t \in opened : \/ Current(t)' = Current(t)
                          \/ t \in Covers(s) /\ Current(t)' = got[t]
    BY <2>2, <1>5
  <2>4. ASSUME NEW t \in opened
        PROVE  baseline'[t] # None /\ (t \notin unmarked' => baseline'[t] = server'[t])
    <3>1. baseline[t] # None /\ (t \notin unmarked => baseline[t] = server[t])
      BY DEF IInv, Inv, Based
    <3>2. got[s] # None
      BY <1>5, <1>7, NoneIsNoList
    <3>3. server' = server /\ (t \notin unmarked' =>
            /\ t # s => t \notin unmarked
            /\ t = s => got[t] = server[t])
      BY <1>1 DEF Mark, world
    <3> QED
      BY <3>1, <3>2, <3>3, <1>5, <1>10
  <2>5. ASSUME NEW t \in Sections \ opened
        PROVE  /\ live'[t] = server[t] /\ Current(t)' = server[t] /\ saved'[t] = server[t]
               /\ baseline'[t] = None
               /\ t = "consumers" => winSaved' = None
    <3>1. /\ live[t] = server[t] /\ Current(t) = server[t] /\ saved[t] = server[t]
          /\ baseline[t] = None
          /\ t = "consumers" => winSaved = None
      BY DEF IInv, Inv, Unopened
    <3>2. got[t] = server[t]
      BY <1>4
    <3> QED
      BY <3>1, <3>2, <2>2, <1>6, <1>10
  <2> QED
    BY <1>1, <1>10, <2>1, <2>3, <2>4, <2>5 DEF PageTakes
<1>15. unmarked' \subseteq Sections
  BY <1>1, <1>2, <1>5, Types DEF Mark
<1>16. Goes(c, y)
  BY <1>1, <1>2, <1>12, <1>13, <1>14, <1>15, Types DEF Goes, world, bounds, Typed
<1> QED
  BY <1>3, <1>16, GoesPreserves

LEMMA saveFailsPreserves ==
  ASSUME IInv, NEW c \in Calls, saveFails(c)
  PROVE  IInv'
<1> DEFINE call == calls[c]
           s == "publishers"
           y == IF call.clicked = None THEN Free
                ELSE [call EXCEPT !.phase = "start", !.kind = None, !.got = None,
                                  !.posted = None]
           q == IF call.deletes THEN markSectionSaved(Page, s, live[s]) ELSE Page
<1>1. /\ Saving(c)
      /\ \/ UNCHANGED world /\ calls' = [calls EXCEPT ![c] = y]
         \/ /\ call.phase = "post" /\ server' = call.posted /\ running' \subseteq running
            /\ Overtakes(c, y)
      /\ Become(q)
      /\ Settle(c)
      /\ unmarked' = unmarked \cup {t \in Sections : server'[t] # server[t]}
                       \cup (IF call.deletes THEN {s} ELSE {})
      /\ edits' = edits + 1
      /\ UNCHANGED <<status, nextId>>
  BY DEF saveFails, Set, Store
<1>2. Typed
  BY DEF IInv
<1>3. c \in Savers
  BY <1>1 DEF Savers
<1>4. /\ call \in CallsOf(nextId) /\ call.kind # None
      /\ call.clicked # None => OfToggle(call)
  BY <1>3, OfSaver
<1>5. /\ Page \in PagesOf(nextId) /\ nextId \in 3 .. MaxId + 1
      /\ opened \subseteq Sections /\ s \in Sections /\ s # "consumers" /\ s # "config"
  BY <1>2, Types DEF Sections, Lists
<1> HIDE DEF s
<1>6. live[s] \in ListsOf(nextId) /\ live[s] # None
  BY <1>2, <1>5, Types, NoneIsNoList DEF ConfigsOf
<1>7. /\ q \in PagesOf(nextId)
      /\ q.live = live /\ q.settings = settings /\ q.winSaved = winSaved
      /\ q.opened = opened /\ q.sel = sel
      /\ \A t \in Sections : t # s \/ ~ call.deletes =>
           q.saved[t] = saved[t] /\ q.baseline[t] = baseline[t]
      /\ call.deletes => /\ q.saved[s] = live[s]
                         /\ q.baseline[s] = IF baseline[s] = None THEN None ELSE live[s]
  <2>1. CASE call.deletes
    <3> DEFINE v == live[s]
    <3>1. q = markSectionSaved(Page, s, v)
      BY <2>1
    <3> HIDE DEF q, v
    <3>2. v \in ListsOf(nextId) /\ v = live[s]
      BY <1>6 DEF v
    <3>3. /\ q \in PagesOf(nextId)
          /\ q.live = Page.live /\ q.settings = Page.settings /\ q.winSaved = Page.winSaved
          /\ q.opened = Page.opened /\ q.sel = Page.sel
          /\ q.saved = [Page.saved EXCEPT ![s] = v]
          /\ q.baseline = [Page.baseline EXCEPT ![s] = IF Page.baseline[s] = None THEN None ELSE v]
      BY <3>1, <3>2, <1>5, Marked
    <3>4. /\ saved \in [Sections -> ListsOf(nextId)]
          /\ baseline \in [Sections -> ListsOf(nextId) \cup {None}]
      BY <1>5, PageFields DEF PagesOf, ConfigsOf
    <3> QED
      BY <2>1, <3>2, <3>3, <3>4, <1>5, PageFields
  <2>2. CASE ~ call.deletes
    <3>1. q = Page
      BY <2>2
    <3> QED
      BY <2>2, <3>1, <1>5, PageFields
  <2> QED
    BY <2>1, <2>2
<1> HIDE DEF q
<1>8. /\ live' = live /\ settings' = settings /\ winSaved' = winSaved
      /\ opened' = opened /\ sel' = sel
      /\ \A t \in Sections : t # s \/ ~ call.deletes =>
           saved'[t] = saved[t] /\ baseline'[t] = baseline[t]
      /\ call.deletes => /\ saved'[s] = live[s]
                         /\ baseline'[s] = IF baseline[s] = None THEN None ELSE live[s]
  BY <1>1, <1>7 DEF Become
<1>9. /\ y \in CallsOf(nextId) /\ y.kind = None
      /\ y.clicked # None => "consumers" \in opened /\ ~ y.deletes
      /\ y.phase \in {"start", "stop"} => y.key = y.clicked
  <2>1. CASE call.clicked = None
    <3>1. y = Free
      BY <2>1
    <3> QED
      BY <3>1, FreeCall
  <2>2. CASE call.clicked # None
    <3>1. y = [call EXCEPT !.phase = "start", !.kind = None, !.got = None, !.posted = None]
      BY <2>2
    <3>2. "consumers" \in opened /\ ~ call.deletes /\ call.key = call.clicked
      BY <2>2, <1>4 DEF OfToggle
    <3> HIDE DEF y
    <3>3. /\ y \in CallsOf(nextId) /\ y.kind = None /\ y.phase = "start"
          /\ y.key = call.key /\ y.clicked = call.clicked /\ y.deletes = call.deletes
      BY <3>1, <1>4, NoneIsNothing DEF CallsOf, Kinds
    <3> QED
      BY <3>2, <3>3
  <2> QED
    BY <2>1, <2>2
<1> HIDE DEF y
<1>10. OthersStay(c) /\ calls'[c] = y /\ calls' \in [Calls -> CallsOf(nextId)]
  BY <1>1, <1>8, <1>9, OthersKept DEF world
<1>11. CallIs(c, y)
  <2>1. y.clicked # None => OfToggle(calls[c])'
    BY <1>8, <1>9, <1>10 DEF OfToggle
  <2> QED
    BY <2>1, <1>1, <1>9, <1>10, NoneIsNothing DEF CallIs
<1>12. PageTakes(c)
  <2>1. Page' \in PagesOf(nextId)
    BY <1>1, <1>7, Becomes
  <2>2. \A t \in Sections : Current(t)' = Current(t)
    BY <1>8 DEF Current
  <2>3. ASSUME NEW t \in opened
        PROVE  baseline'[t] # None /\ (t \notin unmarked' => baseline'[t] = server'[t])
    <3>1. baseline[t] # None /\ (t \notin unmarked => baseline[t] = server[t])
      BY DEF IInv, Inv, Based
    <3>2. t \notin unmarked' => /\ t \notin unmarked /\ server'[t] = server[t]
                                /\ t # s \/ ~ call.deletes
      BY <1>1, <1>5
    <3> QED
      BY <3>1, <3>2, <1>5, <1>6, <1>8
  <2>4. ASSUME NEW t \in Sections \ opened
        PROVE  /\ live'[t] = server[t] /\ Current(t)' = server[t] /\ saved'[t] = server[t]
               /\ baseline'[t] = None
               /\ t = "consumers" => winSaved' = None
    <3>1. /\ live[t] = server[t] /\ Current(t) = server[t] /\ saved[t] = server[t]
          /\ baseline[t] = None
          /\ t = "consumers" => winSaved = None
      BY DEF IInv, Inv, Unopened
    <3> QED
      BY <3>1, <2>2, <1>8
  <2> QED
    BY <1>5, <1>8, <2>1, <2>2, <2>3, <2>4 DEF PageTakes
<1>13. unmarked' \subseteq Sections
  BY <1>1, <1>2, <1>5, Types
<1>14. /\ server' = server \/ (call.phase = "post" /\ server' = call.posted)
       /\ running' \subseteq running
  BY <1>1 DEF world
<1>15. Goes(c, y)
  BY <1>1, <1>2, <1>10, <1>11, <1>12, <1>13, <1>14, Types DEF Goes, Typed
<1> QED
  BY <1>3, <1>15, GoesPreserves

-----------------------------------------------------------------------------
(* The rest, and the theorems.                                             *)

LEMMA consumerRequestPreserves ==
  ASSUME IInv, NEW c \in Calls, consumerRequest(c)
  PROVE  IInv'
<1>1. /\ calls[c].phase \in {"start", "stop"}
      /\ running' \subseteq running \cup Ids(server["consumers"])
      /\ status' = running'
      /\ calls' = [calls EXCEPT ![c] = Free]
      /\ UNCHANGED <<live, settings, baseline, saved, winSaved, opened, sel, server,
                     bounds, ghosts>>
  BY DEF consumerRequest, Set
<1>2. Typed
  BY DEF IInv
<1>3. Ids(server["consumers"]) \subseteq 0 .. MaxId
  <2> DEFINE n == nextId
             E == [id : 0 .. n - 1, content : 0 .. 1]
             l == server["consumers"]
  <2>1. l \in Seq(E) /\ n \in 3 .. MaxId + 1
    BY <1>2, Types DEF Typed, ConfigsOf, ListsOf, Sections, Lists
  <2> HIDE DEF l, E
  <2>2. \A i \in DOMAIN l : l[i] \in E
    BY <2>1, LenProperties, ElementOfSeq
  <2>3. \A i \in DOMAIN l : l[i].id \in 0 .. MaxId
    BY <2>1, <2>2, BoundsAreNumbers DEF E
  <2> QED
    BY <2>3 DEF Ids, l
<1>4. c \notin Savers
  BY <1>1 DEF Savers, Saving
<1>5. running' \subseteq 0 .. MaxId /\ status' \subseteq 0 .. MaxId /\ edits' \in Nat
  BY <1>1, <1>2, <1>3 DEF Typed, bounds
<1> QED
  BY <1>1, <1>4, <1>5, FreeCall, AsidePreserves DEF bounds

\* The status of the consumers is all that changes, or nothing.
LEMMA StatusPreserves ==
  ASSUME IInv, status' \subseteq 0 .. MaxId,
         UNCHANGED <<live, settings, baseline, saved, winSaved, opened, sel, calls,
                     world, bounds, ghosts>>
  PROVE  IInv'
<1>1. Typed'
  BY DEF IInv, Typed, Page, world, bounds, ghosts
<1>2. Savers' = Savers
  BY DEF Savers, Saving
<1>3. Toggles'
  BY DEF IInv, Inv, Toggles, OfToggle, world
<1>4. Unopened' /\ Quiet' /\ Alone' /\ Based' /\ EditsSurvive'
  BY <1>2 DEF IInv, Inv, Unopened, Quiet, Alone, Based, EditsSurvive, Current, world, ghosts
<1> QED
  BY <1>1, <1>3, <1>4 DEF IInv, Inv

\* A page that was just loaded, with one tab.
Loaded(tab) ==
  /\ nextId \in 3 .. MaxId + 1 /\ server \in ConfigsOf(nextId)
  /\ status \subseteq 0 .. MaxId /\ running \subseteq 0 .. MaxId /\ edits \in Nat
  /\ Page \in PagesOf(nextId)
  /\ opened = {tab} /\ live = server /\ winSaved = None /\ settings = server["config"]
  /\ baseline[tab] = server[tab]
  /\ \A t \in Sections \ {tab} : saved[t] = server[t] /\ baseline[t] = None
  /\ calls = [c \in Calls |-> Free]
  /\ wanted = server /\ exposed = {} /\ unmarked = {}

LEMMA LoadedHolds ==
  ASSUME NEW tab \in Tabs
  PROVE  Loaded(tab) => IInv
<1> SUFFICES ASSUME Loaded(tab)
             PROVE  IInv
  OBVIOUS
<1>1. Free \in CallsOf(nextId) /\ Free.kind = None /\ Free.phase = "free" /\ Free.clicked = None
  BY FreeCall
<1>2. Typed
  BY <1>1 DEF Loaded, Typed
<1>3. Savers = {}
  BY <1>1 DEF Loaded, Savers, Saving
<1>4. Toggles
  BY <1>1, NoneIsNothing DEF Loaded, Toggles
<1>5. tab \in Sections /\ \A s \in Sections : Current(s) = server[s] /\ server[s] # None
  BY NoneIsNoList DEF Loaded, Current, Tabs, ConfigsOf
<1>6. Unopened
  BY <1>3, <1>5 DEF Loaded, Unopened
<1>7. Quiet /\ Alone
  BY <1>3 DEF Loaded, Quiet, Alone
<1>8. Based
  BY <1>5 DEF Loaded, Based
<1>9. EditsSurvive
  BY <1>5 DEF Loaded, EditsSurvive
<1> QED
  BY <1>2, <1>4, <1>6, <1>7, <1>8, <1>9 DEF IInv, Inv

LEMMA ReloadPreserves ==
  ASSUME IInv, Reload
  PROVE  IInv'
<1>1. PICK tab \in Tabs : Become(bootstrapApp(server, tab))
  BY DEF Reload
<1>2. /\ edits' = edits + 1 /\ status' = running /\ calls' = [c \in Calls |-> Free]
      /\ wanted' = server /\ exposed' = {} /\ unmarked' = {}
      /\ UNCHANGED <<world, nextId>>
  BY DEF Reload
<1> DEFINE q == bootstrapApp(server, tab)
<1> HIDE DEF q
<1>3. Typed /\ server \in ConfigsOf(nextId) /\ nextId \in 3 .. MaxId + 1
  BY DEF IInv, Typed
<1>4. /\ q \in PagesOf(nextId)
      /\ q.opened = {tab} /\ q.live = server /\ q.winSaved = None
      /\ q.settings = server["config"]
      /\ q.baseline[tab] = server[tab]
      /\ \A t \in Sections \ {tab} : q.saved[t] = server[t] /\ q.baseline[t] = None
  BY <1>3, Bootstrapped DEF q
<1>5. Become(q)
  BY <1>1 DEF q
<1>6. Page' \in PagesOf(nextId)
  BY <1>4, <1>5, Becomes
<1>7. Loaded(tab)'
  BY <1>2, <1>3, <1>4, <1>5, <1>6, Types DEF Loaded, Become, world, Typed
<1>8. Loaded(tab)' => IInv'
  BY LoadedHolds, PTL
<1> QED
  BY <1>7, <1>8

LEMMA InitHolds == Init => IInv
<1> SUFFICES ASSUME Init
             PROVE  IInv
  OBVIOUS
<1>1. PICK tab \in Tabs :
        LET p == bootstrapApp(server, tab)
        IN  /\ live = p.live /\ settings = p.settings /\ baseline = p.baseline
            /\ saved = p.saved /\ winSaved = p.winSaved /\ opened = p.opened
            /\ sel = p.sel
  BY DEF Init
<1> DEFINE q == bootstrapApp(server, tab)
<1>2. /\ live = q.live /\ settings = q.settings /\ baseline = q.baseline
      /\ saved = q.saved /\ winSaved = q.winSaved /\ opened = q.opened /\ sel = q.sel
  BY <1>1
<1> HIDE DEF q
<1>3. nextId = 3 /\ nextId \in 3 .. MaxId + 1
  BY BoundsAreNumbers DEF Init
<1>4. server \in ConfigsOf(nextId)
  <2> DEFINE e(s) == [id |-> IF s = "consumers" THEN 1
                             ELSE IF s = "publishers" THEN 2 ELSE 0, content |-> 0]
             E == [id : 0 .. 3 - 1, content : 0 .. 1]
  <2>1. \A s \in Sections : e(s) \in E
    OBVIOUS
  <2>2. server = [s \in Sections |-> <<e(s)>>]
    BY DEF Init
  <2> HIDE DEF e, E
  <2>3. ASSUME NEW s \in Sections
        PROVE  <<e(s)>> \in ListsOf(3)
    <3>1. <<e(s)>> \in Seq(E) /\ DOMAIN <<e(s)>> = {1}
      BY <2>1
    <3> QED
      BY <3>1 DEF ListsOf, E
  <2> QED
    BY <2>2, <2>3, <1>3 DEF ConfigsOf
<1>5. /\ q \in PagesOf(nextId)
      /\ q.opened = {tab} /\ q.live = server /\ q.winSaved = None
      /\ q.settings = server["config"]
      /\ q.baseline[tab] = server[tab]
      /\ \A t \in Sections \ {tab} : q.saved[t] = server[t] /\ q.baseline[t] = None
  BY <1>3, <1>4, Bootstrapped DEF q
<1>6. Page \in PagesOf(nextId)
  BY <1>2, <1>5 DEF Page, PagesOf
<1>7. Loaded(tab)
  BY <1>2, <1>3, <1>4, <1>5, <1>6 DEF Loaded, Init
<1> QED
  BY <1>7, LoadedHolds

\* Every step preserves the invariant.
LEMMA NextPreserves ==
  ASSUME IInv, [Next]_vars
  PROVE  IInv'
<1>1. CASE Reload
  BY <1>1, ReloadPreserves
<1>2. CASE \E tab \in Tabs : OpenTab(tab)
  BY <1>2, OpenTabPreserves
<1>3. CASE addConsumerAction
  BY <1>3, addConsumerPreserves
<1>4. CASE addPublisherAction
  BY <1>4, addPublisherPreserves
<1>5. CASE copyCurrentConsumerAction
  BY <1>5, copyConsumerPreserves
<1>6. CASE copyCurrentPublisherAction
  BY <1>6, copyPublisherPreserves
<1>7. CASE renderConsumerForm
  BY <1>7, editEntryPreserves DEF renderConsumerForm, Lists
<1>8. CASE renderPublisherForm
  BY <1>8, editEntryPreserves DEF renderPublisherForm, Lists
<1>9. CASE editSettings
  BY <1>9, editSettingsPreserves
<1>10. CASE deleteCurrentConsumerAction
  BY <1>10, deleteConsumerPreserves
<1>11. CASE \E i \in 1 .. MaxId : restoreConsumerStateFromView(i)
  BY <1>11, selectPreserves
<1>12. ASSUME NEW c \in Calls,
              \/ saveWorkspace(c)
              \/ historySync(c)
              \/ \E i \in 1 .. MaxId : deleteCurrentPublisherAction(c, i)
              \/ toggleActiveConsumer(c)
              \/ postConfig(c)
              \/ fetchConfigFromServer(c)
              \/ finishWorkspace(c)
              \/ finishSection(c)
              \/ finishHistory(c)
              \/ saveFails(c)
              \/ consumerRequest(c)
       PROVE  IInv'
  <2>1. CASE saveWorkspace(c)
    BY <2>1, saveWorkspacePreserves
  <2>2. CASE historySync(c)
    BY <2>2, historySyncPreserves
  <2>3. CASE \E i \in 1 .. MaxId : deleteCurrentPublisherAction(c, i)
    BY <2>3, deletePublisherPreserves
  <2>4. CASE toggleActiveConsumer(c)
    BY <2>4, togglePreserves
  <2>5. CASE postConfig(c)
    BY <2>5, postConfigPreserves
  <2>6. CASE fetchConfigFromServer(c)
    BY <2>6, fetchConfigPreserves
  <2>7. CASE finishWorkspace(c)
    BY <2>7, finishWorkspacePreserves
  <2>8. CASE finishSection(c)
    BY <2>8, finishSectionPreserves
  <2>9. CASE finishHistory(c)
    BY <2>9, finishHistoryPreserves
  <2>10. CASE saveFails(c)
    BY <2>10, saveFailsPreserves
  <2>11. CASE consumerRequest(c)
    BY <2>11, consumerRequestPreserves
  <2> QED
    BY <1>12, <2>1, <2>2, <2>3, <2>4, <2>5, <2>6, <2>7, <2>8, <2>9, <2>10, <2>11
<1>13. CASE pollRuntimeStatus \/ UNCHANGED vars
  <2>1. status \subseteq 0 .. MaxId /\ running \subseteq 0 .. MaxId
    BY DEF IInv, Typed
  <2>2. UNCHANGED <<live, settings, baseline, saved, winSaved, opened, sel, calls,
                    world, bounds, ghosts>> /\ status' \in {status, running}
    BY <1>13 DEF pollRuntimeStatus, vars, page, world, bounds, ghosts
  <2> QED
    BY <2>1, <2>2, StatusPreserves
<1> QED
  BY <1>1, <1>2, <1>3, <1>4, <1>5, <1>6, <1>7, <1>8, <1>9, <1>10, <1>11, <1>12, <1>13
     DEF Next

(* The invariant holds in every state: what a save under way has posted,   *)
(* stored and fetched is what the user made of the section, unless the     *)
(* section is at stake, and a section that was not opened is everywhere    *)
(* what the server keeps (saveConfigSection, replaceConfigFromSave).       *)
THEOREM Invariant == Spec => []IInv
<1>1. Init => IInv
  BY InitHolds
<1>2. IInv /\ [Next]_vars => IInv'
  BY NextPreserves
<1> QED
  BY <1>1, <1>2, PTL DEF Spec

(* The variables have their types, the entries of a list have identities   *)
(* of their own, and an open section has a baseline (registerDirtySection). *)
THEOREM TypeCorrect == Spec => []TypeOK
<1>1. ASSUME IInv
      PROVE  TypeOK
  <2>1. Typed /\ ListsOf(nextId) \subseteq Seq(Entries)
    BY <1>1, Types, NoneIsNoList DEF IInv
  <2>2. /\ live \in [Sections -> ListsOf(nextId)] /\ settings \in ListsOf(nextId)
        /\ baseline \in [Sections -> ListsOf(nextId) \cup {None}]
        /\ saved \in [Sections -> ListsOf(nextId)]
        /\ winSaved \in ListsOf(nextId) \cup {None}
        /\ opened \subseteq Tabs /\ sel \in Nat
        /\ server \in [Sections -> ListsOf(nextId)]
        /\ status \subseteq 0 .. MaxId /\ running \subseteq 0 .. MaxId
    BY <2>1, PageFields DEF Typed, PagesOf, ConfigsOf
  <2>3. \A s \in opened : baseline[s] # None
    BY <1>1 DEF IInv, Inv, Based
  <2>4. \A c \in Calls : Saving(c) <=> calls[c].kind \in Kinds
    BY <2>1 DEF Typed, CallsOf, Saving
  <2>5. \A s \in Lists : \A i, j \in DOMAIN live[s] :
          live[s][i].id = live[s][j].id => i = j
    BY <2>2 DEF ListsOf, Sections
  <2>6. /\ live \in [Sections -> Seq(Entries)] /\ saved \in [Sections -> Seq(Entries)]
        /\ server \in [Sections -> Seq(Entries)] /\ settings \in Seq(Entries)
        /\ baseline \in [Sections -> Seq(Entries) \cup {None}]
        /\ winSaved \in Seq(Entries) \cup {None}
    BY <2>1, <2>2
  <2> QED
    BY <2>2, <2>3, <2>4, <2>5, <2>6 DEF TypeOK
<1>2. IInv => TypeOK
  BY <1>1
<1> QED
  BY <1>2, Invariant, PTL

(* What the user has made of a section stays on the page through every     *)
(* save, also one that fails or that another section caused; only what is  *)
(* edited beside a save of the same section, or saved twice at once, may   *)
(* be overwritten (replaceConfigFromSave, saveConfigSection).              *)
THEOREM EditsAreKept == Spec => []EditsSurvive
<1>1. IInv => EditsSurvive
  BY DEF IInv, Inv
<1> QED
  BY <1>1, Invariant, PTL

(* A section that does not count as edited is what the server keeps,       *)
(* unless it was marked otherwise (markSectionSaved).                      *)
THEOREM CleanIsSaved == Spec => []CleanMeansSaved
<1>1. IInv => CleanMeansSaved
  BY DEF IInv, Inv, Based, CleanMeansSaved, isDirty
<1> QED
  BY <1>1, Invariant, PTL

(* Start and Stop act on the consumer that was clicked, as long as the     *)
(* list and the selection stay as they were while Start saves, and no      *)
(* other save overwrites the list before it is fetched                     *)
(* (toggleActiveConsumer).                                                 *)
THEOREM TogglesHit == Spec => []ToggleHitsTheClicked
<1>1. IInv => ToggleHitsTheClicked
  BY DEF IInv, Inv, Toggles, ToggleHitsTheClicked
<1> QED
  BY <1>1, Invariant, PTL

=============================================================================
