---------------------------- MODULE UiNavigation ----------------------------
(***************************************************************************)
(* Where the user is in the page: the tab, the entry that is selected in   *)
(* each list, and the address that keeps both for a reload                 *)
(* (ui/src/bootstrap.ts, lib/routing.ts, lib/consumers-view.ts,            *)
(* lib/publishers-view.ts, the panels).                                    *)
(*                                                                         *)
(* A switch of tabs is a thread that waits four times, so that several may *)
(* be under way; a step is what happens between two waits.  An entry is    *)
(* its position, and an address is a tab with a position, or Unset for one *)
(* that has none.                                                          *)
(***************************************************************************)
EXTENDS Integers, Sequences, SequencesExt, FiniteSetsExt

CONSTANTS
  MaxEntries,  \* bound: of a list
  MaxSwitches, \* bound: switches under way at a time
  MaxMoves     \* bound: what the user does

\* The bounds are numbers.
ASSUME NavigationBounds == MaxEntries \in Nat /\ MaxSwitches \in Nat /\ MaxMoves \in Nat

VARIABLE nav

navVars == <<nav>>

Lists == {"publishers", "consumers"}
Tabs  == Lists \cup {"config"}
Unset == -1
Hash(tab, idx)   == [tab |-> tab, idx |-> idx]
IndexOf(hash, tab, otherwise) ==
  IF hash.tab = tab /\ hash.idx # Unset THEN hash.idx ELSE otherwise

-----------------------------------------------------------------------------
(* The address.                                                            *)

resolveTabFromHash(hash) == hash.tab

nextHashForTab(hash, tab, remembered) ==
  IF hash.tab = tab THEN hash ELSE Hash(tab, remembered)

pickDefaultTab(hash, configured) ==
  IF resolveTabFromHash(hash) # "" THEN resolveTabFromHash(hash)
  ELSE IF configured # "" THEN configured ELSE "publishers"

rememberSelectionFromHash(n) ==
  IF n.hash.idx = Unset THEN n ELSE [n EXCEPT !.last[n.hash.tab] = n.hash.idx]

rememberedIndexForTab(n, tab) == IF tab \in Lists THEN n.last[tab] ELSE Unset

-----------------------------------------------------------------------------
(* The lists.                                                              *)

Clamped(idx, count) == Max({0, Min({idx, count - 1})})

markRememberedSelection(n, tab, idx) == [n EXCEPT !.last[tab] = idx, !.window[tab] = idx]

\* A bug: the address takes the position as it was asked for.
asAsked(n, idx) ==
  [markRememberedSelection(n, "publishers", Clamped(idx, n.count["publishers"])) EXCEPT
     !.selected["publishers"] = Clamped(idx, n.count["publishers"]),
     !.hash = Hash("publishers", idx)]

restorePublisher(n, idx) ==
  LET i == Clamped(idx, n.count["publishers"])
  IN  [markRememberedSelection(n, "publishers", i) EXCEPT
         !.selected["publishers"] = i, !.hash = Hash("publishers", i)]

restoreConsumer(n, idx) ==
  LET i == Clamped(idx, n.count["consumers"])
  IN  [markRememberedSelection(n, "consumers", i) EXCEPT
         !.selected["consumers"] = i, !.hash = Hash("consumers", i)]

Restore(n, tab, idx) ==
  IF tab = "publishers" THEN restorePublisher(n, idx)
  ELSE restoreConsumer(n, idx)

\* The publishers view has the window's copy of the last position.
initPublishersTab(n) ==
  restorePublisher(n,
    IndexOf(n.hash, "publishers",
            Min({n.window["publishers"], Max({0, n.count["publishers"] - 1})})))

initConsumersTab(n) == \* from where the messages were read
  restoreConsumer(n,
    IndexOf(n.hash, "consumers",
            Min({n.last["consumers"], Max({0, n.count["consumers"] - 1})})))

restoreTabState(n, tab) ==
  IF tab \notin Lists THEN n
  ELSE LET idx == IF n.pending[tab] # Unset THEN n.pending[tab]
                  ELSE IndexOf(n.hash, tab, n.last[tab])
       IN  Restore([n EXCEPT !.pending = [t \in Lists |-> Unset]], tab, idx)

-----------------------------------------------------------------------------
(* Switches and deletions are threads.  Ghosts: "crossed", whether two     *)
(* threads were under way at a time since none was, and "copied", the      *)
(* entry that a copy made, that the user has not left and since which no   *)
(* two threads crossed.                                                    *)

Begin(n, thread) ==
  [n EXCEPT !.threads = Append(@, thread), !.crossed = n.threads # <<>>,
            !.copied = IF n.threads = <<>> THEN @ ELSE [t \in Lists |-> Unset]]

switchMain(n, tab) ==
  Begin([rememberSelectionFromHash(n) EXCEPT !.active = tab], [tab |-> tab, pc |-> "tick"])

\* A page that is loaded with an address.
bootstrapApp(count, hash, configured) ==
  switchMain([active |-> "publishers", hash |-> hash, count |-> count,
              selected |-> [t \in Lists |-> Unset], last |-> [t \in Lists |-> 0],
              window |-> [t \in Lists |-> 0], pending |-> [t \in Lists |-> Unset],
              ready |-> {}, threads |-> <<>>, crossed |-> FALSE,
              copied |-> [t \in Lists |-> Unset], moves |-> 0],
             pickDefaultTab(hash, configured))

Hashes == {Hash("", Unset), Hash("config", Unset)} \cup
          [tab : Lists, idx : {Unset} \cup 0 .. MaxEntries]

NavigationInit ==
  \E count \in [Lists -> {0, 2}], hash \in Hashes, configured \in Tabs \cup {""} :
    nav = bootstrapApp(count, hash, configured)

Goto(i, pc, n) == nav' = [n EXCEPT !.threads[i].pc = pc]
Ended(i, n)    == nav' = [n EXCEPT !.threads = RemoveAt(@, i)]

initTabIfNeeded(i) ==
  LET tab == nav.threads[i].tab
  IN  CASE tab \in nav.ready                      -> Goto(i, "restore", nav)
        [] tab = "publishers" /\ tab \notin nav.ready -> Goto(i, "form", initPublishersTab(nav))
        [] tab = "consumers" /\ tab \notin nav.ready  -> Goto(i, "messages", nav)
        [] tab = "config" /\ tab \notin nav.ready     -> Goto(i, "form", nav)

Step(i) ==
  LET tab == nav.threads[i].tab
      pc  == nav.threads[i].pc
  IN  \/ pc = "tick" /\ initTabIfNeeded(i)
      \/ pc = "messages" /\ Goto(i, "form", initConsumersTab(nav))
      \/ pc = "form" /\ Goto(i, "restore", [nav EXCEPT !.ready = @ \cup {tab}])
      \/ pc = "restore" /\ Goto(i, "end", restoreTabState(nav, tab))
      \/ /\ pc = "end"
         /\ Ended(i, [nav EXCEPT !.hash =
                        nextHashForTab(@, tab, rememberedIndexForTab(nav, tab))])

-----------------------------------------------------------------------------
(* The user.                                                               *)

Moves(n) == nav.moves < MaxMoves /\ nav' = [n EXCEPT !.moves = nav.moves + 1]
MayBegin     == Len(nav.threads) < MaxSwitches

\* What the user picks or makes in a list is no longer the copy.
Leave(n, tab) == [n EXCEPT !.copied[tab] = Unset]

TabShown(tab)   == nav.active = tab /\ tab \in nav.ready
Current(tab) == TabShown(tab) /\ nav.selected[tab] \in 0 .. nav.count[tab] - 1

clickTab(tab) == MayBegin /\ Moves(switchMain(nav, tab))

\* The address is edited.
onHashChange(hash) ==
  /\ MayBegin /\ hash # nav.hash
  /\ LET n == [nav EXCEPT !.hash = hash]
     IN  IF resolveTabFromHash(hash) = "" THEN Moves(n)
         ELSE Moves(switchMain(IF hash.idx = Unset THEN n ELSE Leave(n, hash.tab),
                               resolveTabFromHash(hash)))

openPublisher(i) ==
  /\ TabShown("publishers") /\ i < nav.count["publishers"]
  /\ Moves(Leave(restorePublisher(nav, i), "publishers"))

openConsumer(i) ==
  /\ TabShown("consumers") /\ i < nav.count["consumers"]
  /\ Moves(Leave(restoreConsumer(nav, i), "consumers"))

Grown(n, tab) == [n EXCEPT !.count[tab] = @ + 1]

addEntry(tab) ==
  /\ TabShown(tab) /\ nav.count[tab] < MaxEntries
  /\ Moves(Leave(Restore(Grown(nav, tab), tab, nav.count[tab]), tab))

CopyTo(tab) == \* the copy is to be opened by the switch that shows it
  /\ MayBegin /\ nav.count[tab] < MaxEntries
  /\ LET n == Grown([nav EXCEPT !.pending[tab] = nav.count[tab],
                                !.copied[tab] = nav.count[tab]], tab)
     IN  Moves(switchMain(n, tab))

copyCurrentConsumerAction  == Current("consumers") /\ CopyTo("publishers")
copyCurrentPublisherAction == Current("publishers") /\ CopyTo("consumers")

Shrunk(n, tab) == Leave([n EXCEPT !.count[tab] = @ - 1], tab)

\* The entry after the deleted one is selected, or none.
Deleted(n, tab, at) ==
  IF n.count[tab] = 0 THEN [n EXCEPT !.selected[tab] = Unset, !.hash = Hash(tab, 0)]
  ELSE Restore(n, tab, at)

deleteCurrentConsumer ==
  /\ Current("consumers")
  /\ Moves(Deleted(Shrunk(nav, "consumers"), "consumers", nav.selected["consumers"]))

\* A publisher is deleted at once and saved, and then the next one is shown.
deleteCurrentPublisher ==
  /\ Current("publishers") /\ MayBegin
  /\ Moves(Begin(Shrunk(nav, "publishers"),
                 [tab |-> "publishers", pc |-> "saving", at |-> nav.selected["publishers"]]))

deletionDone(i) ==
  /\ nav.threads[i].pc = "saving"
  /\ Ended(i, Deleted(nav, "publishers", nav.threads[i].at))

\* What was not saved is lost, so that a list may be shorter.
NavigationReload ==
  \E count \in [Lists -> 0 .. MaxEntries], configured \in Tabs \cup {""} :
    /\ nav.threads = <<>>
    /\ \A t \in Lists : count[t] \in {nav.count[t], nav.count[t] - 1}
    /\ Moves(bootstrapApp(count, nav.hash, configured))

NavigationNext ==
  \/ \E i \in DOMAIN nav.threads : Step(i) \/ deletionDone(i)
  \/ \E tab \in Tabs : clickTab(tab)
  \/ \E hash \in Hashes : onHashChange(hash)
  \/ \E i \in 0 .. MaxEntries - 1 : openPublisher(i) \/ openConsumer(i)
  \/ \E tab \in Lists : addEntry(tab)
  \/ copyCurrentConsumerAction \/ copyCurrentPublisherAction
  \/ deleteCurrentConsumer \/ deleteCurrentPublisher
  \/ NavigationReload

NavigationSpec == NavigationInit /\ [][NavigationNext]_navVars

-----------------------------------------------------------------------------
(* What the page may hold.                                                 *)

Positions == Nat \cup {Unset}
Threads ==
  [tab : Tabs, pc : {"tick", "messages", "form", "restore", "end"}]
    \cup [tab : {"publishers"}, pc : {"saving"}, at : Nat]
Addresses == {Hash("", Unset), Hash("config", Unset)} \cup [tab : Lists, idx : Positions]

NavigationTypeOK ==
  nav \in [active : Tabs, hash : Addresses, count : [Lists -> Nat],
           selected : [Lists -> Positions], last : [Lists -> Nat], window : [Lists -> Nat],
           pending : [Lists -> Positions], ready : SUBSET Tabs, threads : Seq(Threads),
           crossed : BOOLEAN, copied : [Lists -> Positions], moves : 0 .. MaxMoves]

-----------------------------------------------------------------------------
(* Properties.                                                             *)

Settled == nav.threads = <<>> /\ ~ nav.crossed

\* When nothing is under way, and neither was more than one thing at a time,
\* the address names the tab that is shown and the entry that is selected in
\* it: a reload comes back to it (switchMain, restoreTabState, replaceHash).
PlaceIsInTheHash ==
  (Settled /\ nav.hash.tab # "") =>
    /\ nav.hash.tab = nav.active
    /\ nav.active \in Lists /\ nav.count[nav.active] > 0 =>
         /\ nav.selected[nav.active] \in 0 .. nav.count[nav.active] - 1
         /\ nav.hash.idx = nav.selected[nav.active]

\* An entry that was made as a copy is selected once the switch is done, and
\* stays so in its list whatever tabs are shown and however the address is
\* edited, and no restore that is pending opens it again later; unless switches
\* crossed: one takes back what is pending for both lists
\* (copyCurrentConsumerAction, clearLegacyPendingRestoreGlobals).
CopyIsOpened ==
  nav.threads = <<>> =>
    \A tab \in Lists :
      nav.copied[tab] # Unset => /\ nav.selected[tab] = nav.copied[tab]
                                /\ nav.pending[tab] = Unset

NavigationSettles == PlaceIsInTheHash /\ CopyIsOpened
=============================================================================
