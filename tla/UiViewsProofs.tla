--------------------------- MODULE UiViewsProofs ---------------------------
(***************************************************************************)
(* Of four parts of the page, for any number of what they hold: that each  *)
(* dialog is answered (UiDialogs), that the history in the browser is as   *)
(* was promised (UiStorage), that the address and what is selected settle  *)
(* (UiNavigation), and that no render costs an edit of a consumer's answer *)
(* (UiResponses).                                                          *)
(***************************************************************************)
EXTENDS UiDialogs, UiStorage, UiNavigation, UiResponses,
        FiniteSetTheorems, WellFoundedInduction, SequenceTheorems, TLAPS

-----------------------------------------------------------------------------
(* Dialogs.  The line of those that wait is the numbers after the shown    *)
(* one, up to the last that was asked.                                     *)

\* The shown dialog and the line behind it are the last that were asked.
LineIsInOrder ==
  /\ dlg.active = NoDialog => dlg.pending = <<>>
  /\ dlg.active # NoDialog => dlg.active + Len(dlg.pending) = dlg.asked
  /\ \A i \in 1 .. Len(dlg.pending) : dlg.pending[i] = dlg.active + i

\* What hides was asked, and if it is not answered yet, it was dismissed.
HidingWereDismissed ==
  \A id \in dlg.hiding :
    /\ id <= dlg.asked
    /\ dlg.answers[id] = Open => dlg.meant[id] = "null"

\* Nothing is answered that was not asked.
RestIsOpen == \A id \in Dialogs : id > dlg.asked => dlg.answers[id] = Open

DialogIInv ==
  /\ DialogTypeOK
  /\ LineIsInOrder
  /\ HidingWereDismissed
  /\ RestIsOpen
  /\ EachIsAnswered

-----------------------------------------------------------------------------
(* The page asks nothing at first.                                         *)

\* The invariant holds of a page that was just loaded.
LEMMA DialogInitInvariant ==
  ASSUME MaxDialogs \in Nat, DialogInit
  PROVE  DialogIInv
<1>1. DialogTypeOK
  BY DEF DialogInit, DialogTypeOK, Dialogs, NoDialog, Modes, Answers, Open
<1>2. LineIsInOrder /\ HidingWereDismissed /\ RestIsOpen /\ EachIsAnswered
  BY DEF DialogInit, LineIsInOrder, HidingWereDismissed, RestIsOpen, EachIsAnswered, Dialogs,
     NoDialog, Open
<1> QED
  BY <1>1, <1>2 DEF DialogIInv

-----------------------------------------------------------------------------
(* The answer to the shown dialog, which handleClose gives at once and     *)
(* createAfterHideHandler when the dialog has hidden.                      *)

\* A page that differs from one with the invariant in that the shown dialog
\* got the answer that was meant, and the next one is shown.
LEMMA AnswerKeeps ==
  ASSUME MaxDialogs \in Nat, DialogIInv, dlg.active # NoDialog,
         NEW result \in Answers, NEW hiding \in SUBSET dlg.hiding,
         dlg' = Resolved([dlg EXCEPT !.hiding = hiding, !.meant[dlg.active] = result], result)
  PROVE  DialogIInv'
<1> DEFINE a == dlg.active
           p == dlg.pending
<1>1. /\ a \in Dialogs /\ p \in Seq(Dialogs) /\ dlg.asked \in 0 .. MaxDialogs
      /\ a + Len(p) = dlg.asked /\ dlg.hiding \subseteq Dialogs
  BY DEF DialogIInv, DialogTypeOK, LineIsInOrder, Dialogs, NoDialog
<1>2. /\ dlg'.asked = dlg.asked /\ dlg'.hiding = hiding /\ dlg'.mode = dlg.mode
      /\ dlg'.answers = [dlg.answers EXCEPT ![a] = result]
      /\ dlg'.meant = [dlg.meant EXCEPT ![a] = result]
      /\ dlg'.active = IF p = <<>> THEN NoDialog ELSE Head(p)
      /\ dlg'.pending = IF p = <<>> THEN <<>> ELSE Tail(p)
      /\ dlg' = [active |-> dlg'.active, pending |-> dlg'.pending, asked |-> dlg.asked,
                 hiding |-> hiding, mode |-> dlg.mode, answers |-> dlg'.answers,
                 meant |-> dlg'.meant]
  BY DEF DialogIInv, DialogTypeOK, Resolved
<1>3. p # <<>> => Head(p) = a + 1 /\ Head(p) \in Dialogs /\ Tail(p) \in Seq(Dialogs)
  <2> HAVE p # <<>>
  <2>1. Len(p) >= 1 /\ Head(p) = p[1]
    BY <1>1
  <2>2. p[1] = a + 1
    BY <2>1, <1>1 DEF DialogIInv, LineIsInOrder
  <2> QED
    BY <2>1, <2>2, <1>1
<1>4. DialogTypeOK'
  <2>1. dlg'.active \in Dialogs \cup {NoDialog} /\ dlg'.pending \in Seq(Dialogs)
    BY <1>1, <1>2, <1>3
  <2>2. /\ dlg'.answers \in [Dialogs -> Answers \cup {Open}]
        /\ dlg'.meant \in [Dialogs -> Answers \cup {Open}]
    BY <1>1, <1>2 DEF DialogIInv, DialogTypeOK
  <2> QED
    BY <2>1, <2>2, <1>1, <1>2 DEF DialogIInv, DialogTypeOK
<1>5. LineIsInOrder'
  <2>1. CASE p = <<>>
    BY <2>1, <1>2 DEF LineIsInOrder, NoDialog
  <2>2. CASE p # <<>>
    <3>1. /\ dlg'.active = a + 1 /\ dlg'.active # NoDialog
          /\ dlg'.pending = Tail(p) /\ Len(Tail(p)) = Len(p) - 1
          /\ a \in Nat /\ Len(p) \in Nat /\ Len(Tail(p)) \in Nat
      BY <2>2, <1>1, <1>2, <1>3 DEF Dialogs, NoDialog
    <3>2. \A i \in 1 .. Len(Tail(p)) : Tail(p)[i] = (a + 1) + i
      <4> SUFFICES ASSUME NEW i \in 1 .. Len(Tail(p)) PROVE Tail(p)[i] = (a + 1) + i
        OBVIOUS
      <4>1. Tail(p)[i] = p[i + 1] /\ i + 1 \in 1 .. Len(p)
        BY <2>2, <1>1, <3>1
      <4>2. p[i + 1] = a + (i + 1)
        BY <4>1 DEF DialogIInv, LineIsInOrder
      <4>3. a + (i + 1) = (a + 1) + i
        BY <3>1
      <4> QED
        BY <4>1, <4>2, <4>3, Zenon
    <3>3. dlg'.active + Len(dlg'.pending) = dlg'.asked
      <4>1. Len(dlg'.pending) = Len(p) - 1 /\ dlg'.asked = dlg.asked
        BY <3>1, <1>2, Zenon
      <4>2. (a + 1) + (Len(p) - 1) = dlg.asked
        BY <3>1, <1>1
      <4> QED
        BY <3>1, <4>1, <4>2, Zenon
    <3>4. \A i \in 1 .. Len(dlg'.pending) : dlg'.pending[i] = dlg'.active + i
      BY <3>1, <3>2, Zenon
    <3> QED
      BY <3>1, <3>3, <3>4, Zenon DEF LineIsInOrder
  <2> QED
    BY <2>1, <2>2
<1>6. \A id \in Dialogs : dlg'.answers[id] = IF id = a THEN result ELSE dlg.answers[id]
  BY <1>1, <1>2 DEF DialogIInv, DialogTypeOK
<1>7. \A id \in Dialogs : dlg'.meant[id] = IF id = a THEN result ELSE dlg.meant[id]
  BY <1>1, <1>2 DEF DialogIInv, DialogTypeOK
<1>8. result # Open
  BY DEF Answers, Open
<1>9. HidingWereDismissed'
  BY <1>1, <1>2, <1>6, <1>7, <1>8 DEF DialogIInv, HidingWereDismissed
<1>10. RestIsOpen'
  BY <1>1, <1>2, <1>6 DEF DialogIInv, RestIsOpen, Dialogs
<1>11. EachIsAnswered'
  <2> SUFFICES ASSUME NEW id \in 1 .. dlg.asked
               PROVE  /\ dlg'.answers[id] # Open => dlg'.answers[id] = dlg'.meant[id]
                      /\ dlg'.answers[id] = Open
                           <=> (dlg'.active # NoDialog /\ id >= dlg'.active)
    BY <1>2 DEF EachIsAnswered
  <2>1. id \in Dialogs
    BY <1>1 DEF Dialogs
  <2>2. /\ dlg.answers[id] # Open => dlg.answers[id] = dlg.meant[id]
        /\ dlg.answers[id] = Open <=> id >= a
    BY DEF DialogIInv, EachIsAnswered
  <2>3. dlg'.answers[id] # Open => dlg'.answers[id] = dlg'.meant[id]
    BY <2>1, <2>2, <1>6, <1>7
  <2>4. CASE p = <<>>
    <3>1. a = dlg.asked /\ dlg'.active = NoDialog
      BY <2>4, <1>1, <1>2 DEF Dialogs
    <3> QED
      BY <3>1, <2>1, <2>2, <2>3, <1>1, <1>6, <1>8 DEF Dialogs
  <2>5. CASE p # <<>>
    <3>1. dlg'.active = a + 1 /\ dlg'.active # NoDialog
      BY <2>5, <1>1, <1>2, <1>3 DEF Dialogs, NoDialog
    <3> QED
      BY <3>1, <2>1, <2>2, <2>3, <1>1, <1>6, <1>8 DEF Dialogs
  <2> QED
    BY <2>4, <2>5
<1> QED
  BY <1>4, <1>5, <1>9, <1>10, <1>11 DEF DialogIInv

-----------------------------------------------------------------------------
(* The steps.                                                              *)

\* Who asks is last in the line, or is shown at once.
LEMMA AskKeeps ==
  ASSUME MaxDialogs \in Nat, DialogIInv, NEW mode \in Modes, showDialog(mode)
  PROVE  DialogIInv'
<1> DEFINE id == dlg.asked + 1
           p  == dlg.pending
<1>1. /\ id \in Dialogs /\ p \in Seq(Dialogs) /\ dlg.asked \in 0 .. MaxDialogs
      /\ dlg.active \in Dialogs \cup {NoDialog} /\ dlg.asked < MaxDialogs
  BY DEF DialogIInv, DialogTypeOK, showDialog, Dialogs
<1>2. /\ dlg'.asked = id /\ dlg'.hiding = dlg.hiding
      /\ dlg'.answers = dlg.answers /\ dlg'.meant = dlg.meant
      /\ dlg'.mode = [dlg.mode EXCEPT ![id] = mode]
      /\ dlg' = [active |-> dlg'.active, pending |-> dlg'.pending, asked |-> id,
                 hiding |-> dlg.hiding, mode |-> dlg'.mode, answers |-> dlg.answers,
                 meant |-> dlg.meant]
      /\ \/ dlg.active # NoDialog /\ dlg'.active = dlg.active /\ dlg'.pending = Append(p, id)
         \/ dlg.active = NoDialog /\ dlg'.active = id /\ dlg'.pending = p
  BY DEF DialogIInv, DialogTypeOK, showDialog
<1>3. DialogTypeOK'
  <2>1. dlg'.active \in Dialogs \cup {NoDialog} /\ dlg'.pending \in Seq(Dialogs)
    <3>1. Append(p, id) \in Seq(Dialogs)
      BY <1>1
    <3> QED
      BY <3>1, <1>1, <1>2, Zenon
  <2>2. dlg'.mode \in [Dialogs -> Modes] /\ id \in 0 .. MaxDialogs
    BY <1>1, <1>2 DEF DialogIInv, DialogTypeOK
  <2> QED
    BY <2>1, <2>2, <1>1, <1>2 DEF DialogIInv, DialogTypeOK
<1>4. LineIsInOrder'
  <2>1. CASE dlg.active = NoDialog
    BY <2>1, <1>1, <1>2 DEF DialogIInv, LineIsInOrder, NoDialog
  <2>2. CASE dlg.active # NoDialog
    <3>1. /\ dlg'.active = dlg.active /\ dlg'.pending = Append(p, id)
          /\ dlg.active \in Nat /\ Len(p) \in Nat /\ Len(Append(p, id)) = Len(p) + 1
      BY <2>2, <1>1, <1>2 DEF Dialogs, NoDialog
    <3>2. dlg.active + Len(p) = dlg.asked
      BY <2>2 DEF DialogIInv, LineIsInOrder
    <3>3. dlg'.active + Len(dlg'.pending) = dlg'.asked
      <4>1. Len(dlg'.pending) = Len(p) + 1 /\ dlg'.asked = dlg.asked + 1
        BY <3>1, <1>2, Zenon
      <4>2. dlg.active + (Len(p) + 1) = dlg.asked + 1
        BY <3>1, <3>2
      <4> QED
        BY <3>1, <4>1, <4>2, Zenon
    <3>4. \A i \in 1 .. Len(p) + 1 : Append(p, id)[i] = dlg.active + i
      <4> SUFFICES ASSUME NEW i \in 1 .. Len(p) + 1
                   PROVE  Append(p, id)[i] = dlg.active + i
        OBVIOUS
      <4>1. CASE i \in 1 .. Len(p)
        <5>1. Append(p, id)[i] = p[i]
          BY <4>1, <1>1
        <5> QED
          BY <4>1, <5>1 DEF DialogIInv, LineIsInOrder
      <4>2. CASE i = Len(p) + 1
        <5>1. Append(p, id)[i] = id
          BY <4>2, <1>1
        <5>2. id = dlg.active + i
          BY <4>2, <3>1, <3>2
        <5> QED
          BY <5>1, <5>2, Zenon
      <4> QED
        BY <4>1, <4>2, <3>1
    <3>5. \A i \in 1 .. Len(dlg'.pending) : dlg'.pending[i] = dlg'.active + i
      BY <3>1, <3>4, Zenon
    <3>6. dlg'.active # NoDialog
      BY <2>2, <3>1
    <3> QED
      BY <3>3, <3>5, <3>6, Zenon DEF LineIsInOrder
  <2> QED
    BY <2>1, <2>2
<1>5. HidingWereDismissed'
  BY <1>1, <1>2 DEF DialogIInv, DialogTypeOK, HidingWereDismissed, Dialogs
<1>6. RestIsOpen'
  BY <1>1, <1>2 DEF DialogIInv, RestIsOpen, Dialogs
<1>7. EachIsAnswered'
  <2> SUFFICES ASSUME NEW n \in 1 .. id
               PROVE  /\ dlg.answers[n] # Open => dlg.answers[n] = dlg.meant[n]
                      /\ dlg.answers[n] = Open <=> (dlg'.active # NoDialog /\ n >= dlg'.active)
    BY <1>2 DEF EachIsAnswered
  <2>1. CASE n = id
    <3>1. dlg.answers[n] = Open
      BY <2>1, <1>1 DEF DialogIInv, RestIsOpen
    <3>2. dlg.active # NoDialog => dlg.active <= dlg.asked
      BY <1>1 DEF DialogIInv, LineIsInOrder, Dialogs
    <3> QED
      BY <2>1, <3>1, <3>2, <1>1, <1>2 DEF Dialogs, NoDialog
  <2>2. CASE n # id
    <3>1. n \in 1 .. dlg.asked /\ n < id
      BY <2>2, <1>1
    <3>2. /\ dlg.answers[n] # Open => dlg.answers[n] = dlg.meant[n]
          /\ dlg.answers[n] = Open <=> (dlg.active # NoDialog /\ n >= dlg.active)
      BY <3>1 DEF DialogIInv, EachIsAnswered
    <3> QED
      BY <3>1, <3>2, <1>1, <1>2 DEF Dialogs, NoDialog
  <2> QED
    BY <2>1, <2>2
<1> QED
  BY <1>3, <1>4, <1>5, <1>6, <1>7 DEF DialogIInv

\* A button of the shown dialog answers it.
LEMMA CloseKeeps ==
  ASSUME MaxDialogs \in Nat, DialogIInv, NEW result \in Answers, handleClose(result)
  PROVE  DialogIInv'
<1>1. dlg.active # NoDialog /\ dlg.active \in Dialogs
  BY DEF handleClose, DialogIInv, DialogTypeOK
<1>2. dlg' = Resolved([dlg EXCEPT !.hiding = dlg.hiding, !.meant[dlg.active] = result], result)
  BY <1>1 DEF handleClose, closeDialog, DialogIInv, DialogTypeOK
<1> QED
  BY <1>1, <1>2, AnswerKeeps

\* The shown dialog begins to hide.
LEMMA DismissKeeps ==
  ASSUME MaxDialogs \in Nat, DialogIInv, dismiss
  PROVE  DialogIInv'
<1> DEFINE a == dlg.active
<1>1. /\ a # NoDialog /\ a \in Dialogs /\ dlg.asked \in 0 .. MaxDialogs /\ a <= dlg.asked
  BY DEF dismiss, DialogIInv, DialogTypeOK, LineIsInOrder, Dialogs
<1>2. /\ dlg'.asked = dlg.asked /\ dlg'.hiding = dlg.hiding \cup {a} /\ dlg'.mode = dlg.mode
      /\ dlg'.answers = dlg.answers /\ dlg'.meant = [dlg.meant EXCEPT ![a] = "null"]
      /\ dlg'.active = a /\ dlg'.pending = dlg.pending
      /\ dlg' = [active |-> a, pending |-> dlg.pending, asked |-> dlg.asked,
                 hiding |-> dlg'.hiding, mode |-> dlg.mode, answers |-> dlg.answers,
                 meant |-> dlg'.meant]
  BY DEF dismiss, DialogIInv, DialogTypeOK
<1>3. DialogTypeOK'
  <2>1. dlg'.meant \in [Dialogs -> Answers \cup {Open}] /\ dlg'.hiding \in SUBSET Dialogs
    BY <1>1, <1>2 DEF DialogIInv, DialogTypeOK, Answers
  <2> QED
    BY <2>1, <1>1, <1>2 DEF DialogIInv, DialogTypeOK
<1>4. LineIsInOrder' /\ RestIsOpen'
  BY <1>2 DEF DialogIInv, LineIsInOrder, RestIsOpen
<1>5. \A id \in Dialogs : dlg'.meant[id] = IF id = a THEN "null" ELSE dlg.meant[id]
  BY <1>1, <1>2 DEF DialogIInv, DialogTypeOK
<1>6. HidingWereDismissed'
  BY <1>1, <1>2, <1>5 DEF DialogIInv, DialogTypeOK, HidingWereDismissed
<1>7. EachIsAnswered'
  BY <1>1, <1>2, <1>5 DEF DialogIInv, EachIsAnswered, Dialogs
<1> QED
  BY <1>3, <1>4, <1>6, <1>7 DEF DialogIInv

\* A dialog has hidden: it is answered if it is still the shown one.
LEMMA HiddenKeeps ==
  ASSUME MaxDialogs \in Nat, DialogIInv, NEW id \in Dialogs, createAfterHideHandler(id)
  PROVE  DialogIInv'
<1>1. id \in dlg.hiding /\ id # NoDialog
  BY DEF createAfterHideHandler, Dialogs, NoDialog
<1>2. CASE dlg.active # id
  <2>1. dlg' = [dlg EXCEPT !.hiding = dlg.hiding \ {id}]
    BY <1>2 DEF createAfterHideHandler, closeDialog, DialogIInv, DialogTypeOK
  <2>2. DialogTypeOK'
    BY <2>1 DEF DialogIInv, DialogTypeOK
  <2> QED
    BY <2>1, <2>2
    DEF DialogIInv, DialogTypeOK, LineIsInOrder, HidingWereDismissed, RestIsOpen, EachIsAnswered
<1>3. CASE dlg.active = id
  <2>1. id \in 1 .. dlg.asked /\ dlg.answers[id] = Open /\ dlg.meant[id] = "null"
    BY <1>1, <1>3 DEF DialogIInv, DialogTypeOK, HidingWereDismissed, EachIsAnswered, Dialogs
  <2>2. dlg' = Resolved([dlg EXCEPT !.hiding = dlg.hiding \ {id}, !.meant[id] = "null"], "null")
    BY <1>1, <1>3, <2>1 DEF createAfterHideHandler, closeDialog, DialogIInv, DialogTypeOK
  <2>3. "null" \in Answers
    BY DEF Answers
  <2> QED
    BY <1>1, <1>3, <2>2, <2>3, AnswerKeeps
<1> QED
  BY <1>2, <1>3

-----------------------------------------------------------------------------
(* The theorems.                                                           *)

\* Every step keeps the invariant.
LEMMA DialogNextKeeps ==
  ASSUME MaxDialogs \in Nat, DialogIInv, [DialogNext]_dialogVars
  PROVE  DialogIInv'
<1>1. CASE UNCHANGED dialogVars
  BY <1>1
  DEF dialogVars, DialogIInv, DialogTypeOK, LineIsInOrder, HidingWereDismissed, RestIsOpen,
      EachIsAnswered
<1>2. CASE DialogNext
  <2>1. ASSUME NEW mode \in Modes, showDialog(mode) PROVE DialogIInv'
    BY <2>1, AskKeeps
  <2>2. ASSUME NEW result \in Answers, handleClose(result) PROVE DialogIInv'
    BY <2>2, CloseKeeps
  <2>3. ASSUME dismiss PROVE DialogIInv'
    BY <2>3, DismissKeeps
  <2>4. ASSUME NEW id \in Dialogs, createAfterHideHandler(id) PROVE DialogIInv'
    BY <2>4, HiddenKeeps
  <2> QED
    BY <1>2, <2>1, <2>2, <2>3, <2>4 DEF DialogNext
<1> QED
  BY <1>1, <1>2

\* The invariant holds in every reachable state, for any number of dialogs.
THEOREM DialogInvariant ==
  ASSUME MaxDialogs \in Nat
  PROVE  DialogSpec => []DialogIInv
<1>1. DialogInit => DialogIInv
  BY DialogInitInvariant
<1>2. DialogIInv /\ [DialogNext]_dialogVars => DialogIInv'
  BY DialogNextKeeps
<1> QED
  BY <1>1, <1>2, PTL DEF DialogSpec

\* The dialogs keep their types (showDialog, closeDialog).
THEOREM DialogTypeCorrect ==
  ASSUME MaxDialogs \in Nat
  PROVE  DialogSpec => []DialogTypeOK
<1>1. DialogIInv => DialogTypeOK
  BY DEF DialogIInv
<1> QED
  BY <1>1, DialogInvariant, PTL

\* However many dialogs are asked at once, and however late a dismissed one
\* tells that it has hidden, each is answered with what the user did with it,
\* in the order of asking (showDialog, handleClose, createAfterHideHandler).
THEOREM DialogsAreAnswered ==
  ASSUME MaxDialogs \in Nat
  PROVE  DialogSpec => []EachIsAnswered
<1>1. DialogIInv => EachIsAnswered
  BY DEF DialogIInv
<1> QED
  BY <1>1, DialogInvariant, PTL

-----------------------------------------------------------------------------
(* Storage.  What is in the storage or about to be written was sealed with *)
(* a key, or was asked for as plain text.                                  *)

StoragePages ==
  [server : [target : {"cli", "desktop"}, keyStore : BOOLEAN,
             mode : DOMAIN STORAGE_MODE_UI, boot : Nat \ {0}],
   security : Securities, raw : Texts, rows : SUBSET Messages,
   writes : Seq([key : Nat, read : BOOLEAN, rows : SUBSET Messages]),
   next : 1 .. MaxMessages + 1, events : 0 .. MaxChanges,
   open : SUBSET Messages, loaded : SUBSET Messages, under : Nat,
   made : SUBSET (Nat \X Messages)]

WriteSet == [key : Nat, read : BOOLEAN, rows : SUBSET Messages]
StorageModes == DOMAIN STORAGE_MODE_UI

\* Every row was sealed with the key.
AreMade(rows, key, made) == \A m \in rows : <<key, m>> \in made

\* What is in the storage is as it was promised to each of the messages.
TextIsPromised(raw, open, made) ==
  /\ raw.how = "plain" => raw.rows \subseteq open
  /\ raw.how = "sealed" => AreMade(raw.rows, raw.key, made)

\* What will be written was sealed.
WritesAreMade(writes, made) ==
  \A i \in 1 .. Len(writes) : writes[i].read => AreMade(writes[i].rows, writes[i].key, made)

LoadedIsPromised(c) == \A m \in c.loaded : m \in c.open \/ <<c.under, m>> \in c.made

\* Who was told of encryption has a key.
HasKey(info) == info.messagesEncrypted => info.messageKeyHex # 0

Promised(c) ==
  /\ TextIsPromised(c.raw, c.open, c.made)
  /\ WritesAreMade(c.writes, c.made)
  /\ LoadedIsPromised(c)
  /\ HasKey(c.security)

StorageIInv == cache \in StoragePages /\ Promised(cache)

-----------------------------------------------------------------------------
\* What a text of each kind holds.
LEMMA TypesOfTexts ==
  ASSUME NEW raw \in Texts
  PROVE  /\ raw.how \in {"nothing", "plain", "sealed"}
         /\ raw.how = "plain" => raw.rows \subseteq Messages
         /\ raw.how = "sealed" => raw.key \in Nat /\ raw.rows \subseteq Messages
BY DEF Texts, Absent, Plain, Sealed

\* Each way to write gives a text.
LEMMA TextsAreTexts ==
  /\ Absent \in Texts
  /\ \A rows \in SUBSET Messages : Plain(rows) \in Texts
  /\ \A rows \in SUBSET Messages, key \in Nat : Sealed(key, rows) \in Texts
BY DEF Texts

Info(target, store, source, encrypted, persistent, key) ==
  [target |-> target, keyStoreAvailable |-> store, persistentMessagesAvailable |-> store,
   keySource |-> source, messagesEncrypted |-> encrypted, messagesPersistent |-> persistent,
   messageKeyHex |-> key]

\* What a server may tell of itself, if it has a key whenever it tells of encryption.
LEMMA IsSecurity ==
  ASSUME NEW target \in {"cli", "desktop"}, NEW store \in BOOLEAN, NEW encrypted \in BOOLEAN,
         NEW persistent \in BOOLEAN, NEW key \in Nat, encrypted => key # 0,
         NEW source \in {"none", "ephemeral-process", "os-key-store"}
  PROVE  /\ Info(target, store, source, encrypted, persistent, key) \in Securities
         /\ HasKey(Info(target, store, source, encrypted, persistent, key))
BY DEF Info, Securities, HasKey

\* What a server tells.
LEMMA SecurityOfServer ==
  ASSUME NEW server \in [target : {"cli", "desktop"}, keyStore : BOOLEAN,
                         mode : StorageModes, boot : Nat \ {0}]
  PROVE  StorageSecurity(server) \in Securities /\ HasKey(StorageSecurity(server))
<1> DEFINE sealed  == server.mode \notin {"unencrypted", "balanced"}
           durable == server.mode = "durable" /\ server.target = "desktop" /\ server.keyStore
           source  == IF durable THEN "os-key-store"
                      ELSE IF sealed THEN "ephemeral-process" ELSE "none"
           key     == IF durable THEN Persistent ELSE IF sealed THEN server.boot ELSE 0
           lasts   == durable \/ ~ sealed
<1>1. StorageSecurity(server) =
        Info(server.target, server.keyStore, source, sealed, lasts, key)
  BY DEF StorageSecurity, Info
<1>2. /\ source \in {"none", "ephemeral-process", "os-key-store"}
      /\ key \in Nat /\ (sealed => key # 0)
      /\ server.target \in {"cli", "desktop"} /\ server.keyStore \in BOOLEAN
  BY DEF Persistent
<1>3. sealed \in BOOLEAN /\ lasts \in BOOLEAN
  OBVIOUS
<1> HIDE DEF sealed, lasts, durable, source, key
<1> QED
  BY <1>1, <1>2, <1>3, IsSecurity

\* So is what a page knows that was told nothing.
LEMMA SecurityOfNone == EMPTY_STORAGE_SECURITY \in Securities /\ HasKey(EMPTY_STORAGE_SECURITY)
BY DEF EMPTY_STORAGE_SECURITY, Securities, HasKey

\* The user is offered modes that there are.
LEMMA ChosenModes ==
  ASSUME NEW info PROVE pruneStorageModeOptions(info) \subseteq StorageModes
<1>1. StorageModes = {"unencrypted", "balanced", "env_temporary_messages", "temporary_messages",
                      "sensitive", "durable"}
  BY DEF StorageModes, STORAGE_MODE_UI
<1>2. availableStorageModeValues(info) \subseteq StorageModes
  BY <1>1 DEF availableStorageModeValues
<1> QED
  BY <1>2 DEF pruneStorageModeOptions, getStorageModeUiOptions

\* What a text gives is promised.
LEMMA ReadIsPromised ==
  ASSUME NEW raw \in Texts, NEW info \in Securities, NEW open, NEW made,
         TextIsPromised(raw, open, made)
  PROVE  LET got == getStoredJson(raw, info)
         IN  /\ got.raw \in Texts /\ TextIsPromised(got.raw, open, made)
             /\ got.rows \subseteq Messages
             /\ \A m \in got.rows : m \in open \/ <<info.messageKeyHex, m>> \in made
<1> DEFINE got == getStoredJson(raw, info)
<1>1. CASE raw.how = "nothing"
  BY <1>1 DEF getStoredJson
<1>2. CASE raw.how # "nothing" /\ Opens(raw, info)
  <2>1. got = [rows |-> decryptJson(raw, info), raw |-> raw]
    BY <1>2 DEF getStoredJson
  <2>2. decryptJson(raw, info) = raw.rows
    BY <1>2 DEF Opens, decryptJson
  <2>3. raw.how = "plain" \/ (raw.how = "sealed" /\ raw.key = info.messageKeyHex)
    BY <1>2 DEF Opens
  <2> HIDE DEF got
  <2>4. got.raw = raw /\ got.rows = raw.rows
    BY <2>1, <2>2
  <2>5. raw.rows \subseteq Messages
    BY <2>3, TypesOfTexts
  <2> QED
    BY <2>3, <2>4, <2>5 DEF TextIsPromised, AreMade, got
<1>3. CASE raw.how # "nothing" /\ ~ Opens(raw, info)
  <2>1. got.rows = {} /\ got.raw \in {Absent, raw}
    BY <1>3 DEF getStoredJson
  <2>2. TextIsPromised(Absent, open, made)
    BY DEF TextIsPromised, Absent
  <2> HIDE DEF got
  <2> QED
    BY <2>1, <2>2, TextsAreTexts DEF got
<1> QED
  BY <1>1, <1>2, <1>3

-----------------------------------------------------------------------------
\* Sequences.
LEMMA WritesAppend ==
  ASSUME NEW writes \in Seq(WriteSet), NEW made, WritesAreMade(writes, made),
         NEW w \in WriteSet, ~ w.read
  PROVE  /\ Append(writes, w) \in Seq(WriteSet)
         /\ WritesAreMade(Append(writes, w), made)
BY DEF WritesAreMade

\* A sequence without one of its elements: the others move up.
LEMMA WithoutOne ==
  ASSUME NEW S, NEW s \in Seq(S), NEW n \in 1 .. Len(s)
  PROVE  /\ RemoveAt(s, n) \in Seq(S)
         /\ Len(RemoveAt(s, n)) = Len(s) - 1
         /\ \A i \in 1 .. Len(s) - 1 :
              RemoveAt(s, n)[i] = IF i < n THEN s[i] ELSE s[i + 1]
<1> DEFINE a == SubSeq(s, 1, n - 1)
           b == SubSeq(s, n + 1, Len(s))
<1>1. /\ Len(s) \in Nat /\ n \in Nat /\ 1 <= n /\ n <= Len(s)
      /\ \A i \in 1 .. Len(s) : s[i] \in S
  OBVIOUS
<1>2. /\ a \in Seq(S) /\ Len(a) = n - 1
      /\ \A i \in 1 .. n - 1 : a[i] = s[i]
  BY <1>1, SubSeqProperties
<1>3. /\ b \in Seq(S) /\ Len(b) = Len(s) - n
      /\ \A i \in 1 .. Len(s) - n : b[i] = s[n + i]
  <2>1. /\ b \in Seq(S)
        /\ Len(b) = IF n + 1 <= Len(s) THEN Len(s) - (n + 1) + 1 ELSE 0
        /\ \A i \in 1 .. Len(s) - (n + 1) + 1 : b[i] = s[(n + 1) + i - 1]
    BY <1>1, SubSeqProperties
  <2> QED
    BY <1>1, <2>1
<1> HIDE DEF a, b
<1>4. /\ a \o b \in Seq(S) /\ Len(a \o b) = Len(a) + Len(b)
      /\ \A i \in 1 .. Len(a) + Len(b) :
           (a \o b)[i] = IF i <= Len(a) THEN a[i] ELSE b[i - Len(a)]
  BY <1>2, <1>3, ConcatProperties
<1>5. ASSUME NEW i \in 1 .. Len(s) - 1
      PROVE  (a \o b)[i] = IF i < n THEN s[i] ELSE s[i + 1]
  <2>1. CASE i < n
    BY <1>1, <1>2, <1>3, <1>4, <2>1
  <2>2. CASE ~(i < n)
    <3>1. (a \o b)[i] = b[i - (n - 1)] /\ i - (n - 1) \in 1 .. Len(s) - n
      BY <1>1, <1>2, <1>3, <1>4, <2>2
    <3>2. b[i - (n - 1)] = s[n + (i - (n - 1))]
      BY <1>3, <3>1
    <3>3. n + (i - (n - 1)) = i + 1
      BY <1>1
    <3> QED
      BY <2>2, <3>1, <3>2, <3>3
  <2> QED
    BY <2>1, <2>2
<1>6. RemoveAt(s, n) = a \o b
  BY DEF RemoveAt, a, b
<1>7. Len(a) + Len(b) = Len(s) - 1
  BY <1>1, <1>2, <1>3
<1> QED
  BY <1>4, <1>5, <1>6, <1>7

\* Without a write, what will be written is still sealed.
LEMMA WritesRemove ==
  ASSUME NEW writes \in Seq(WriteSet), NEW made, WritesAreMade(writes, made),
         NEW n \in 1 .. Len(writes)
  PROVE  /\ RemoveAt(writes, n) \in Seq(WriteSet)
         /\ WritesAreMade(RemoveAt(writes, n), made)
<1> DEFINE r == RemoveAt(writes, n)
<1>4. /\ r \in Seq(WriteSet) /\ Len(r) = Len(writes) - 1
      /\ \A i \in 1 .. Len(r) : r[i] = IF i < n THEN writes[i] ELSE writes[i + 1]
  BY WithoutOne
<1> HIDE DEF r
<1>5. ASSUME NEW i \in 1 .. Len(r), r[i].read
      PROVE  AreMade(r[i].rows, r[i].key, made)
  <2>1. CASE i < n
    <3>1. r[i] = writes[i] /\ i \in 1 .. Len(writes)
      BY <2>1, <1>4
    <3> QED
      BY <3>1, <1>5 DEF WritesAreMade
  <2>2. CASE ~ i < n
    <3>1. r[i] = writes[i + 1] /\ i + 1 \in 1 .. Len(writes)
      BY <2>2, <1>4
    <3> QED
      BY <3>1, <1>5 DEF WritesAreMade
  <2> QED
    BY <2>1, <2>2
<1> QED
  BY <1>4, <1>5 DEF WritesAreMade, r

-----------------------------------------------------------------------------
\* More was sealed and written in the clear: what was promised still is.
LEMMA MoreIsPromised ==
  ASSUME NEW raw \in Texts, NEW open, NEW made, NEW more, NEW sealed,
         open \subseteq more, made \subseteq sealed, TextIsPromised(raw, open, made)
  PROVE  TextIsPromised(raw, more, sealed)
BY DEF TextIsPromised, AreMade

\* A write, in the clear or begun.
LEMMA PersistKeeps ==
  ASSUME NEW c \in StoragePages, Promised(c), NEW d \in persistMessages(c)
  PROVE  d \in StoragePages /\ Promised(d)
<1> DEFINE info == c.security
           open == IF info.messagesEncrypted THEN c.open ELSE c.open \cup c.rows
<1>1. PICK e \in setStoredJson(c, c.rows) :
        d = [e EXCEPT !.open = IF info.messagesEncrypted THEN @ ELSE @ \cup c.rows]
  BY DEF persistMessages
<1>2. /\ c.raw \in Texts /\ c.rows \subseteq Messages /\ c.open \subseteq Messages
      /\ c.writes \in Seq(WriteSet) /\ info \in Securities
  BY DEF StoragePages, WriteSet
<1>3. CASE ~ hasEncryptedMessages(info)
  <2>1. PICK raw \in {Plain(c.rows), c.raw} : e = [c EXCEPT !.raw = raw]
    BY <1>1, <1>3 DEF setStoredJson, setItem
  <2>2. ~ info.messagesEncrypted
    BY <1>3 DEF hasEncryptedMessages, Promised, HasKey
  <2>3. d = [c EXCEPT !.raw = raw, !.open = c.open \cup c.rows]
    BY <1>1, <2>1, <2>2 DEF StoragePages
  <2>4. raw \in Texts
    BY <1>2, <2>1, TextsAreTexts
  <2>5. TextIsPromised(raw, c.open \cup c.rows, c.made)
    <3>1. TextIsPromised(Plain(c.rows), c.open \cup c.rows, c.made)
      BY DEF TextIsPromised, Plain
    <3>2. TextIsPromised(c.raw, c.open \cup c.rows, c.made)
      BY <1>2, MoreIsPromised DEF Promised
    <3> QED
      BY <2>1, <3>1, <3>2
  <2>6. d \in StoragePages
    BY <1>2, <2>3, <2>4 DEF StoragePages
  <2>7. /\ d.raw = raw /\ d.open = c.open \cup c.rows /\ d.made = c.made
        /\ d.writes = c.writes /\ d.loaded = c.loaded /\ d.under = c.under
        /\ d.security = info
    BY <2>3 DEF StoragePages
  <2> QED
    BY <2>5, <2>6, <2>7 DEF Promised, LoadedIsPromised
<1>4. CASE hasEncryptedMessages(info)
  <2> DEFINE w == [key |-> info.messageKeyHex, read |-> FALSE, rows |-> {}]
  <2>1. e = [c EXCEPT !.writes = Append(c.writes, w)]
    BY <1>1, <1>4 DEF setStoredJson
  <2>2. w \in WriteSet /\ ~ w.read
    BY <1>2 DEF WriteSet, Securities
  <2> HIDE DEF w
  <2>3. d = [c EXCEPT !.writes = Append(c.writes, w)]
    BY <1>1, <1>4, <2>1 DEF StoragePages, hasEncryptedMessages
  <2>4. /\ Append(c.writes, w) \in Seq(WriteSet)
        /\ WritesAreMade(Append(c.writes, w), c.made)
    BY <1>2, <2>2, WritesAppend DEF Promised
  <2>5. d \in StoragePages
    BY <2>3, <2>4 DEF StoragePages, WriteSet
  <2>6. /\ d.raw = c.raw /\ d.open = c.open /\ d.made = c.made
        /\ d.writes = Append(c.writes, w) /\ d.loaded = c.loaded /\ d.under = c.under
        /\ d.security = info
    BY <2>3 DEF StoragePages
  <2> QED
    BY <2>4, <2>5, <2>6 DEF Promised, LoadedIsPromised
<1> QED
  BY <1>3, <1>4

\* New messages, and none.
LEMMA CollectKeeps ==
  ASSUME StorageBounds, StorageIInv, Collect \/ clearConsumerHistory
  PROVE  StorageIInv'
<1>1. CASE Collect
  <2> DEFINE c == [cache EXCEPT !.rows = @ \cup {cache.next}, !.next = @ + 1]
  <2>1. cache' \in persistMessages(c)
    BY <1>1 DEF Collect
  <2>2. c \in StoragePages
    <3> DEFINE rows == cache.rows \cup {cache.next}
               next == cache.next + 1
    <3>1. /\ cache \in StoragePages /\ cache.rows \subseteq Messages
          /\ cache.next \in 1 .. MaxMessages + 1
      BY DEF StorageIInv, StoragePages
    <3>2. rows \subseteq Messages /\ next \in 1 .. MaxMessages + 1
      BY <1>1, <3>1 DEF Collect, Messages, StorageBounds
    <3>3. c = [cache EXCEPT !.rows = rows, !.next = next]
      OBVIOUS
    <3> HIDE DEF c, rows, next
    <3> QED
      BY <3>1, <3>2, <3>3 DEF StoragePages
  <2>3. Promised(c)
    BY DEF StorageIInv, StoragePages, Promised, LoadedIsPromised
  <2> HIDE DEF c
  <2> QED
    BY <2>1, <2>2, <2>3, PersistKeeps DEF StorageIInv
<1>2. CASE clearConsumerHistory
  <2> DEFINE c == [cache EXCEPT !.rows = {}]
  <2>1. cache' \in persistMessages(c)
    BY <1>2 DEF clearConsumerHistory
  <2>2. c \in StoragePages
    BY DEF StorageIInv, StoragePages
  <2>3. Promised(c)
    BY DEF StorageIInv, StoragePages, Promised, LoadedIsPromised
  <2> HIDE DEF c
  <2> QED
    BY <2>1, <2>2, <2>3, PersistKeeps DEF StorageIInv
<1> QED
  BY <1>1, <1>2

\* The rows of a write are those that the page has when it is sealed.
LEMMA ImportKeeps ==
  ASSUME StorageIInv, NEW i \in DOMAIN cache.writes, importMessageKey(i)
  PROVE  StorageIInv'
<1> DEFINE key    == cache.writes[i].key
           w      == [cache.writes[i] EXCEPT !.read = TRUE, !.rows = cache.rows]
           writes == [cache.writes EXCEPT ![i] = w]
           made   == cache.made \cup {<<key, m>> : m \in cache.rows}
<1>1. /\ cache \in StoragePages /\ cache.writes \in Seq(WriteSet) /\ cache.rows \subseteq Messages
      /\ cache.made \subseteq Nat \X Messages /\ cache.raw \in Texts
      /\ cache.writes[i] \in WriteSet /\ DOMAIN cache.writes = 1 .. Len(cache.writes)
  <2>1. /\ cache \in StoragePages /\ cache.writes \in Seq(WriteSet) /\ cache.rows \subseteq Messages
        /\ cache.made \subseteq Nat \X Messages /\ cache.raw \in Texts
    BY DEF StorageIInv, StoragePages, WriteSet
  <2> QED
    BY <2>1
<1>2. cache' = [cache EXCEPT !.writes = writes, !.made = made]
  BY DEF importMessageKey
<1>3. w \in WriteSet /\ w.key = key /\ w.rows = cache.rows /\ key \in Nat
  BY <1>1 DEF WriteSet
<1> HIDE DEF w, key
<1>4. writes \in Seq(WriteSet) /\ Len(writes) = Len(cache.writes) /\ writes[i] = w
      /\ \A j \in 1 .. Len(cache.writes) : j # i => writes[j] = cache.writes[j]
  BY <1>1, <1>3
<1>5. made \subseteq Nat \X Messages /\ cache.made \subseteq made
  BY <1>1, <1>3
<1>6. AreMade(cache.rows, key, made)
  BY DEF AreMade
<1> HIDE DEF writes, made
<1>7. WritesAreMade(writes, made)
  <2> SUFFICES ASSUME NEW j \in 1 .. Len(writes), writes[j].read
               PROVE  AreMade(writes[j].rows, writes[j].key, made)
    BY DEF WritesAreMade
  <2>1. CASE j = i
    BY <2>1, <1>3, <1>4, <1>6
  <2>2. CASE j # i
    BY <2>2, <1>4, <1>5 DEF StorageIInv, Promised, WritesAreMade, AreMade
  <2> QED
    BY <2>1, <2>2
<1>8. cache' \in StoragePages
  BY <1>1, <1>2, <1>4, <1>5 DEF StoragePages, WriteSet
<1>9. /\ cache'.raw = cache.raw /\ cache'.open = cache.open /\ cache'.made = made
      /\ cache'.writes = writes /\ cache'.loaded = cache.loaded /\ cache'.under = cache.under
      /\ cache'.security = cache.security
  BY <1>1, <1>2 DEF StoragePages
<1>10. TextIsPromised(cache.raw, cache.open, made)
  BY <1>1, <1>5, MoreIsPromised DEF StorageIInv, Promised
<1> QED
  BY <1>5, <1>7, <1>8, <1>9, <1>10 DEF StorageIInv, Promised, LoadedIsPromised

\* A sealed text is written, unless the storage refuses it.
LEMMA SealKeeps ==
  ASSUME StorageIInv, NEW i \in DOMAIN cache.writes, encryptJson(i)
  PROVE  StorageIInv'
<1> DEFINE w == cache.writes[i]
           writes == RemoveAt(cache.writes, i)
<1>1. PICK raw \in {Sealed(w.key, w.rows), cache.raw} :
        cache' = [cache EXCEPT !.raw = raw, !.writes = writes]
  BY DEF encryptJson, setItem
<1>2. /\ cache \in StoragePages /\ cache.writes \in Seq(WriteSet) /\ cache.raw \in Texts
      /\ w \in WriteSet /\ i \in 1 .. Len(cache.writes) /\ w.read
  <2>1. cache \in StoragePages /\ cache.writes \in Seq(WriteSet) /\ cache.raw \in Texts
    BY DEF StorageIInv, StoragePages, WriteSet
  <2>2. w.read
    BY DEF encryptJson
  <2> QED
    BY <2>1, <2>2
<1>3. writes \in Seq(WriteSet) /\ WritesAreMade(writes, cache.made)
  BY <1>2, WritesRemove DEF StorageIInv, Promised
<1>4. AreMade(w.rows, w.key, cache.made)
  BY <1>2 DEF StorageIInv, Promised, WritesAreMade
<1>5. w.key \in Nat /\ w.rows \in SUBSET Messages
  BY <1>2 DEF WriteSet
<1> HIDE DEF w, writes
<1>6. raw \in Texts /\ TextIsPromised(raw, cache.open, cache.made)
  <2>1. CASE raw = cache.raw
    BY <2>1, <1>2 DEF StorageIInv, Promised
  <2>2. CASE raw = Sealed(w.key, w.rows)
    BY <2>2, <1>4, <1>5, TextsAreTexts DEF TextIsPromised, Sealed
  <2> QED
    BY <1>1, <2>1, <2>2
<1>7. cache' \in StoragePages
  BY <1>1, <1>2, <1>3, <1>6 DEF StoragePages, WriteSet
<1>8. /\ cache'.raw = raw /\ cache'.open = cache.open /\ cache'.made = cache.made
      /\ cache'.writes = writes /\ cache'.loaded = cache.loaded /\ cache'.under = cache.under
      /\ cache'.security = cache.security
  BY <1>1, <1>2 DEF StoragePages
<1> QED
  BY <1>3, <1>6, <1>7, <1>8 DEF StorageIInv, Promised, LoadedIsPromised

\* A page that has read what is in the storage.
LEMMA StorageReloadKeeps ==
  ASSUME StorageBounds, StorageIInv, StorageReload
  PROVE  StorageIInv'
<1>1. PICK info \in {StorageSecurity(cache.server), EMPTY_STORAGE_SECURITY} :
        LET got == getStoredJson(cache.raw, info)
        IN  /\ cache.events < MaxChanges
            /\ cache' = [cache EXCEPT !.security = info, !.raw = got.raw, !.rows = got.rows,
                            !.writes = <<>>, !.loaded = got.rows,
                            !.under = info.messageKeyHex, !.events = cache.events + 1]
  BY Zenon DEF StorageReload, StorageEvent, normalizeStorageSecurityInfo, readStoredMessages
<1>2. cache \in StoragePages /\ cache.raw \in Texts /\ cache.server \in
        [target : {"cli", "desktop"}, keyStore : BOOLEAN, mode : StorageModes, boot : Nat \ {0}]
  BY DEF StorageIInv, StoragePages, StorageModes
<1>3. info \in Securities /\ HasKey(info)
  BY <1>1, <1>2, SecurityOfServer, SecurityOfNone
<1> DEFINE got == getStoredJson(cache.raw, info)
<1>4. /\ got.raw \in Texts /\ TextIsPromised(got.raw, cache.open, cache.made)
      /\ got.rows \subseteq Messages
      /\ \A m \in got.rows : m \in cache.open \/ <<info.messageKeyHex, m>> \in cache.made
  BY <1>2, <1>3, ReadIsPromised DEF StorageIInv, Promised
<1> HIDE DEF got
<1> DEFINE raw == got.raw
           rows == got.rows
<1>5. cache.events < MaxChanges /\
      cache' = [cache EXCEPT !.security = info, !.raw = raw, !.rows = rows, !.writes = <<>>,
                  !.loaded = rows, !.under = info.messageKeyHex, !.events = cache.events + 1]
  BY <1>1 DEF got
<1>6. raw \in Texts /\ rows \subseteq Messages
  BY <1>4
<1> HIDE DEF raw, rows
<1>7. cache' \in StoragePages
  <2> DEFINE events == cache.events + 1
             key    == info.messageKeyHex
             writes == <<>>
  <2>1. events \in 0 .. MaxChanges /\ key \in Nat
    BY <1>2, <1>3, <1>5 DEF StoragePages, Securities, StorageBounds
  <2>2. cache' = [cache EXCEPT !.security = info, !.raw = raw, !.rows = rows, !.writes = writes,
                    !.loaded = rows, !.under = key, !.events = events]
    BY <1>5
  <2>3. writes \in Seq(WriteSet)
    OBVIOUS
  <2> HIDE DEF events, key, writes
  <2> QED
    BY <1>2, <1>3, <1>6, <2>1, <2>2, <2>3 DEF StoragePages, WriteSet
<1>8. /\ cache'.raw = raw /\ cache'.open = cache.open /\ cache'.made = cache.made
      /\ cache'.writes = <<>> /\ cache'.loaded = rows /\ cache'.under = info.messageKeyHex
      /\ cache'.security = info
  BY <1>2, <1>5 DEF StoragePages
<1>9. WritesAreMade(<<>>, cache.made)
  BY DEF WritesAreMade
<1> QED
  BY <1>3, <1>4, <1>7, <1>8, <1>9 DEF StorageIInv, Promised, LoadedIsPromised, raw, rows

\* Another mode, another process of the server.
LEMMA ServerKeeps ==
  ASSUME StorageBounds, StorageIInv, replaceConfigFromSave \/ ServerRestart
  PROVE  StorageIInv'
<1>1. cache \in StoragePages /\ cache.server \in
        [target : {"cli", "desktop"}, keyStore : BOOLEAN, mode : StorageModes, boot : Nat \ {0}]
  BY DEF StorageIInv, StoragePages, StorageModes
<1>2. CASE replaceConfigFromSave
  <2>1. PICK mode \in pruneStorageModeOptions(cache.security), answered \in BOOLEAN :
          LET server == [cache.server EXCEPT !.mode = mode]
          IN  StorageEvent([cache EXCEPT !.server = server,
                              !.security = IF answered THEN StorageSecurity(server) ELSE @])
    BY <1>2, Zenon DEF replaceConfigFromSave, normalizeStorageSecurityInfo
  <2> DEFINE server == [cache.server EXCEPT !.mode = mode]
             info   == IF answered THEN StorageSecurity(server) ELSE cache.security
  <2>2. mode \in StorageModes
    BY ChosenModes
  <2>3. server \in [target : {"cli", "desktop"}, keyStore : BOOLEAN, mode : StorageModes,
                    boot : Nat \ {0}]
    BY <1>1, <2>2
  <2>4. cache.events < MaxChanges /\
        cache' = [cache EXCEPT !.server = server, !.security = info, !.events = cache.events + 1]
    BY <2>1, <1>1 DEF StorageEvent, StoragePages
  <2> HIDE DEF server
  <2>5. StorageSecurity(server) \in Securities /\ HasKey(StorageSecurity(server))
    BY <2>3, SecurityOfServer
  <2>6. info \in Securities /\ HasKey(info)
    BY <1>1, <2>5 DEF StorageIInv, Promised, StoragePages
  <2> HIDE DEF info
  <2>7. cache' \in StoragePages
    <3> DEFINE events == cache.events + 1
    <3>1. events \in 0 .. MaxChanges
      BY <1>1, <2>4 DEF StoragePages, StorageBounds
    <3>2. cache' = [cache EXCEPT !.server = server, !.security = info, !.events = events]
      BY <2>4
    <3> HIDE DEF events
    <3> QED
      BY <1>1, <2>3, <2>6, <3>1, <3>2 DEF StoragePages, StorageModes
  <2>8. /\ cache'.raw = cache.raw /\ cache'.open = cache.open /\ cache'.made = cache.made
        /\ cache'.writes = cache.writes /\ cache'.loaded = cache.loaded
        /\ cache'.under = cache.under /\ cache'.security = info
    BY <1>1, <2>4 DEF StoragePages
  <2> QED
    BY <2>6, <2>7, <2>8 DEF StorageIInv, Promised, LoadedIsPromised
<1>3. CASE ServerRestart
  <2>1. /\ cache.events < MaxChanges
        /\ cache' = [cache EXCEPT !.server.boot = @ + 1, !.events = cache.events + 1]
    BY <1>1, <1>3 DEF ServerRestart, StorageEvent, StoragePages
  <2>2. cache' \in StoragePages
    <3> DEFINE events == cache.events + 1
               server == [cache.server EXCEPT !.boot = @ + 1]
    <3>1. events \in 0 .. MaxChanges
      BY <1>1, <2>1 DEF StoragePages, StorageBounds
    <3>2. server \in [target : {"cli", "desktop"}, keyStore : BOOLEAN, mode : StorageModes,
                      boot : Nat \ {0}]
      <4>1. cache.server.boot + 1 \in Nat \ {0}
        BY <1>1
      <4> QED
        BY <1>1, <4>1
    <3>3. cache' = [cache EXCEPT !.server = server, !.events = events]
      BY <2>1, <1>1 DEF StoragePages
    <3> HIDE DEF events, server
    <3> QED
      BY <1>1, <3>1, <3>2, <3>3 DEF StoragePages, StorageModes
  <2>3. /\ cache'.raw = cache.raw /\ cache'.open = cache.open /\ cache'.made = cache.made
        /\ cache'.writes = cache.writes /\ cache'.loaded = cache.loaded
        /\ cache'.under = cache.under /\ cache'.security = cache.security
    BY <1>1, <2>1 DEF StoragePages
  <2> QED
    BY <2>2, <2>3 DEF StorageIInv, Promised, LoadedIsPromised
<1> QED
  BY <1>2, <1>3

\* A page that was just loaded, with an empty storage, has promised nothing.
LEMMA StorageStarts == ASSUME StorageBounds, StorageInit PROVE StorageIInv
<1>1. PICK server \in Servers :
        cache = [server |-> server, security |-> StorageSecurity(server), raw |-> Absent,
                 rows |-> {}, writes |-> <<>>, next |-> 1, events |-> 0,
                 open |-> {}, loaded |-> {}, under |-> 0, made |-> {}]
  BY DEF StorageInit
<1>2. server \in [target : {"cli", "desktop"}, keyStore : BOOLEAN, mode : StorageModes,
                  boot : Nat \ {0}]
  BY DEF Servers, StorageModes, STORAGE_MODE_UI
<1>3. StorageSecurity(server) \in Securities /\ HasKey(StorageSecurity(server))
  BY <1>2, SecurityOfServer
<1>4. cache \in StoragePages
  BY <1>1, <1>2, <1>3, TextsAreTexts DEF StoragePages, StorageModes, StorageBounds
<1>5. TextIsPromised(Absent, {}, {}) /\ WritesAreMade(<<>>, {})
  BY DEF TextIsPromised, Absent, WritesAreMade
<1> QED
  BY <1>1, <1>3, <1>4, <1>5 DEF StorageIInv, Promised, LoadedIsPromised

\* What is in the storage, what will be written and what was read are as they
\* were promised, in every reachable state and for any number of messages and of
\* restarts (encryptJson, setStoredJson, StorageSecurity).
THEOREM StorageInvariant == StorageSpec => []StorageIInv
<1>1. StorageInit => StorageIInv
  BY StorageStarts, StorageBounds
<1>2. StorageIInv /\ [StorageNext]_cacheVars => StorageIInv'
  <2> SUFFICES ASSUME StorageIInv, [StorageNext]_cacheVars PROVE StorageIInv'
    OBVIOUS
  <2>1. CASE Collect \/ clearConsumerHistory
    BY <2>1, CollectKeeps, StorageBounds
  <2>2. CASE \E i \in DOMAIN cache.writes : importMessageKey(i) \/ encryptJson(i)
    BY <2>2, ImportKeeps, SealKeeps
  <2>3. CASE replaceConfigFromSave \/ ServerRestart
    BY <2>3, ServerKeeps, StorageBounds
  <2>4. CASE StorageReload
    BY <2>4, StorageReloadKeeps, StorageBounds
  <2>5. CASE UNCHANGED cacheVars
    BY <2>5 DEF cacheVars, StorageIInv, Promised, LoadedIsPromised
  <2> QED
    BY <2>1, <2>2, <2>3, <2>4, <2>5 DEF StorageNext
<1> QED
  BY <1>1, <1>2, PTL DEF StorageSpec

\* The storage keeps its types (setStoredJson, getStoredJson).
THEOREM StorageTypeCorrect == StorageSpec => []StorageTypeOK
<1>1. StorageIInv => StorageTypeOK
  BY DEF StorageIInv, StorageTypeOK, StoragePages
<1> QED
  BY <1>1, StorageInvariant, PTL

\* However the mode changes, the server restarts and the page is reloaded while
\* writes wait for their encryption, a message is in the clear only if the page
\* had it while it was told of no encryption, and a page begins only with such
\* messages and those that its own key sealed (setStoredJson, getStoredJson,
\* encryptJson, replaceConfigFromSave).
THEOREM HistoryIsPromised == StorageSpec => []HistoryIsAsPromised
<1>1. StorageIInv => HistoryIsAsPromised
  BY DEF StorageIInv, Promised, TextIsPromised, LoadedIsPromised, HistoryIsAsPromised
<1> QED
  BY <1>1, StorageInvariant, PTL

-----------------------------------------------------------------------------
(* Navigation.  Unless threads crossed, one at most is under way, and it   *)
(* is of the tab that is shown; a copy is pending for it, or was opened.   *)

NavigationPages ==
  [active : Tabs, hash : Addresses, count : [Lists -> Nat],
   selected : [Lists -> Positions], last : [Lists -> Nat], window : [Lists -> Nat],
   pending : [Lists -> Positions], ready : SUBSET Tabs, threads : Seq(Threads),
   crossed : BOOLEAN, copied : [Lists -> Positions], moves : 0 .. MaxMoves]

\* The list that is shown has an entry selected, if it has any, and it is remembered.
Placed(n) ==
  n.active \in Lists /\ n.count[n.active] > 0 =>
    /\ n.selected[n.active] \in 0 .. n.count[n.active] - 1
    /\ n.last[n.active] = n.selected[n.active]

\* The address is that of the place, or none.
Addressed(n) ==
  /\ n.hash.tab \in {"", n.active}
  /\ n.hash.tab = n.active /\ n.active \in Lists /\ n.count[n.active] > 0 =>
       n.hash.idx = n.selected[n.active]

\* Unless threads crossed, there is one at most, and it is about the tab that is shown.
OneAtATime(n) ==
  ~ n.crossed => /\ Len(n.threads) <= 1
                 /\ \A i \in 1 .. Len(n.threads) : n.threads[i].tab = n.active

PlaceIsKept(n) ==
  ~ n.crossed => /\ n.threads = <<>> => Placed(n) /\ Addressed(n)
                 /\ \A i \in 1 .. Len(n.threads) :
                      n.threads[i].pc = "end" /\ n.active \in Lists => Placed(n) /\ Addressed(n)

\* A tab is restored when it is ready, and only the consumers wait for messages.
RestoredAreReady(n) ==
  \A i \in 1 .. Len(n.threads) :
    /\ n.threads[i].pc \in {"restore", "end"} => n.threads[i].tab \in n.ready
    /\ n.threads[i].pc = "messages" => n.threads[i].tab = "consumers"

Begun == {"tick", "messages", "form", "restore"}

\* A switch to the list is under way that has not restored it yet.
Waits(n, tab) ==
  \E i \in 1 .. Len(n.threads) : n.threads[i].tab = tab /\ n.threads[i].pc \in Begun

\* What is pending for a list has a switch that will open it.
PendingIsOpened(n) == \A tab \in Lists : n.pending[tab] # Unset => Waits(n, tab)

\* The copy was opened: whatever restores the list again restores the copy.
CopyIsThere(n, tab) ==
  /\ n.pending[tab] = Unset
  /\ n.selected[tab] = n.copied[tab] /\ n.last[tab] = n.copied[tab]
  /\ n.hash.tab = tab => n.hash.idx \in {Unset, n.copied[tab]}
  /\ tab \in n.ready
  /\ \A i \in 1 .. Len(n.threads) :
       n.threads[i].tab = tab => n.threads[i].pc \in {"tick", "restore", "end"}

CopyIsKept(n) ==
  \A tab \in Lists :
    n.copied[tab] # Unset =>
      /\ ~ n.crossed
      /\ n.copied[tab] < n.count[tab]
      /\ (n.pending[tab] = n.copied[tab] /\ Waits(n, tab)) \/ CopyIsThere(n, tab)

InOrder(n) ==
  /\ OneAtATime(n)
  /\ PlaceIsKept(n)
  /\ RestoredAreReady(n)
  /\ PendingIsOpened(n)
  /\ CopyIsKept(n)

NavigationIInv == nav \in NavigationPages /\ InOrder(nav)

-----------------------------------------------------------------------------
(* Positions, addresses, threads.                                          *)

\* A clamped position is in the list, if it has entries (Math.max, Math.min).
LEMMA ClampedInList ==
  ASSUME NEW idx \in Int, NEW count \in Nat
  PROVE  /\ Clamped(idx, count) \in Nat
         /\ count > 0 => Clamped(idx, count) \in 0 .. count - 1
         /\ idx \in 0 .. count - 1 => Clamped(idx, count) = idx
<1> DEFINE least == IF idx <= count - 1 THEN idx ELSE count - 1
           most  == IF 0 <= least THEN least ELSE 0
<1>1. Min({idx, count - 1}) = least
  BY DEF Min
<1>2. Max({0, least}) = most
  BY DEF Max
<1>3. Clamped(idx, count) = most
  BY <1>1, <1>2 DEF Clamped
<1> QED
  BY <1>3

\* A position is a number.
LEMMA PositionsAreInts == \A p \in Positions : p \in Int
BY DEF Positions, Unset

\* The least and the greatest of two numbers are numbers.
LEMMA MinMaxAreInts ==
  ASSUME NEW a \in Int, NEW b \in Int
  PROVE  Min({a, b}) \in Int /\ Max({a, b}) \in Int
<1>1. Min({a, b}) = IF a <= b THEN a ELSE b
  BY DEF Min
<1>2. Max({a, b}) = IF a <= b THEN b ELSE a
  BY DEF Max
<1> QED
  BY <1>1, <1>2

\* An address of a list.
LEMMA HashIs ==
  ASSUME NEW tab \in Lists, NEW i \in Positions
  PROVE  Hash(tab, i) \in Addresses /\ Hash(tab, i).tab = tab /\ Hash(tab, i).idx = i
BY DEF Hash, Addresses

\* What the address bar may hold.
LEMMA HashesAreAddresses == \A hash \in Hashes : hash \in Addresses
<1>1. {Unset} \cup 0 .. MaxEntries \subseteq Positions
  BY NavigationBounds DEF Positions
<1> QED
  BY <1>1 DEF Hashes, Addresses

\* What an address may name: a position only in a list.
LEMMA AddressIs ==
  ASSUME NEW h \in Addresses
  PROVE  /\ h.tab \in Tabs \cup {""} /\ h.idx \in Positions
         /\ h.idx # Unset => h.tab \in Lists /\ h.idx \in Nat
<1>1. CASE h \in {Hash("", Unset), Hash("config", Unset)}
  <2>1. h = Hash("", Unset) \/ h = Hash("config", Unset)
    BY <1>1
  <2>2. Hash("", Unset).tab = "" /\ Hash("", Unset).idx = Unset
    BY DEF Hash
  <2>3. Hash("config", Unset).tab = "config" /\ Hash("config", Unset).idx = Unset
    BY DEF Hash
  <2> QED
    BY <2>1, <2>2, <2>3 DEF Tabs, Positions
<1>2. CASE h \in [tab : Lists, idx : Positions]
  BY <1>2 DEF Tabs, Positions
<1> QED
  BY <1>1, <1>2 DEF Addresses

\* What a thread may be doing.
LEMMA ThreadIs ==
  ASSUME NEW t \in Threads
  PROVE  /\ t.tab \in Tabs
         /\ t.pc \in Begun \cup {"end", "saving"}
         /\ t.pc = "saving" => t.tab = "publishers" /\ t.at \in Nat
BY DEF Threads, Begun, Tabs, Lists

\* A thread goes on.
LEMMA MovedThread ==
  ASSUME NEW s \in Seq(Threads), NEW i \in 1 .. Len(s), s[i].pc \in Begun,
         NEW pc \in Begun \cup {"end"}
  PROVE  LET r == [s EXCEPT ![i].pc = pc]
         IN  /\ r \in Seq(Threads) /\ Len(r) = Len(s)
             /\ r[i].tab = s[i].tab /\ r[i].pc = pc
             /\ \A j \in 1 .. Len(s) : j # i => r[j] = s[j]
<1> DEFINE t == [s[i] EXCEPT !.pc = pc]
           r == [s EXCEPT ![i] = t]
<1>1. t \in Threads /\ t.tab = s[i].tab /\ t.pc = pc
  BY DEF Threads, Begun
<1> HIDE DEF t
<1>2. /\ r \in Seq(Threads) /\ Len(r) = Len(s) /\ r[i] = t
      /\ \A j \in 1 .. Len(s) : j # i => r[j] = s[j]
  BY <1>1
<1> QED
  BY <1>1, <1>2 DEF t

\* One that ended: the others stay.
LEMMA EndedThread ==
  ASSUME NEW s \in Seq(Threads), NEW i \in 1 .. Len(s)
  PROVE  /\ RemoveAt(s, i) \in Seq(Threads) /\ Len(RemoveAt(s, i)) = Len(s) - 1
         /\ \A j \in 1 .. Len(RemoveAt(s, i)) :
              \E k \in 1 .. Len(s) : RemoveAt(s, i)[j] = s[k]
         /\ \A k \in 1 .. Len(s) :
              k # i => \E j \in 1 .. Len(RemoveAt(s, i)) : RemoveAt(s, i)[j] = s[k]
<1> DEFINE r == RemoveAt(s, i)
<1>1. /\ r \in Seq(Threads) /\ Len(r) = Len(s) - 1
      /\ \A j \in 1 .. Len(s) - 1 : r[j] = IF j < i THEN s[j] ELSE s[j + 1]
  BY WithoutOne
<1> HIDE DEF r
<1>2. ASSUME NEW j \in 1 .. Len(r)
      PROVE  \E k \in 1 .. Len(s) : r[j] = s[k]
  <2>1. CASE j < i
    BY <1>1, <2>1
  <2>2. CASE ~ j < i
    <3>1. j + 1 \in 1 .. Len(s) /\ r[j] = s[j + 1]
      BY <1>1, <2>2
    <3> QED
      BY <3>1
  <2> QED
    BY <2>1, <2>2
<1>3. ASSUME NEW k \in 1 .. Len(s), k # i
      PROVE  \E j \in 1 .. Len(r) : r[j] = s[k]
  <2>1. CASE k < i
    <3>1. k \in 1 .. Len(r) /\ r[k] = s[k]
      BY <1>1, <2>1
    <3> QED
      BY <3>1
  <2>2. CASE ~ k < i
    <3>1. k - 1 \in 1 .. Len(r) /\ ~ k - 1 < i /\ k - 1 + 1 = k
      BY <1>1, <1>3, <2>2
    <3>2. r[k - 1] = s[k]
      BY <1>1, <3>1
    <3> QED
      BY <3>1, <3>2
  <2> QED
    BY <2>1, <2>2
<1> QED
  BY <1>1, <1>2, <1>3 DEF r

-----------------------------------------------------------------------------
(* A list shows an entry.                                                  *)

\* "m" is "n" but that the list shows an entry, if it has any, at its address.
Shows(n, m, tab) ==
  /\ m \in NavigationPages
  /\ m.hash.tab = tab
  /\ m.count[tab] > 0 => /\ m.selected[tab] \in 0 .. m.count[tab] - 1
                         /\ m.last[tab] = m.selected[tab]
                         /\ m.hash.idx = m.selected[tab]
  /\ \A t \in Lists \ {tab} : /\ m.selected[t] = n.selected[t] /\ m.last[t] = n.last[t]
                              /\ m.count[t] = n.count[t] /\ m.copied[t] = n.copied[t]
  /\ m.active = n.active /\ m.ready = n.ready /\ m.threads = n.threads
  /\ m.crossed = n.crossed

\* A restored list shows an entry, the one that is asked for if it is there.
LEMMA RestoreShows ==
  ASSUME NEW n \in NavigationPages, NEW tab \in Lists, NEW idx \in Int
  PROVE  /\ Shows(n, Restore(n, tab, idx), tab)
         /\ Restore(n, tab, idx).pending = n.pending
         /\ Restore(n, tab, idx).count = n.count
         /\ Restore(n, tab, idx).copied = n.copied
         /\ Restore(n, tab, idx).moves = n.moves
         /\ idx \in 0 .. n.count[tab] - 1 => Restore(n, tab, idx).selected[tab] = idx
<1> DEFINE i == Clamped(idx, n.count[tab])
           m == Restore(n, tab, idx)
<1>1. n.count[tab] \in Nat
  BY DEF NavigationPages
<1>2. /\ i \in Nat /\ (n.count[tab] > 0 => i \in 0 .. n.count[tab] - 1)
      /\ (idx \in 0 .. n.count[tab] - 1 => i = idx)
  BY <1>1, ClampedInList
<1>3. m = [n EXCEPT !.last = [@ EXCEPT ![tab] = i], !.window = [@ EXCEPT ![tab] = i],
                    !.selected = [@ EXCEPT ![tab] = i], !.hash = Hash(tab, i)]
  BY DEF Restore, restorePublisher, restoreConsumer, markRememberedSelection, Lists,
     NavigationPages
<1> HIDE DEF i, m
<1> DEFINE last     == [n.last EXCEPT ![tab] = i]
           window   == [n.window EXCEPT ![tab] = i]
           selected == [n.selected EXCEPT ![tab] = i]
           hash     == Hash(tab, i)
<1>4. i \in Positions
  BY <1>2 DEF Positions
<1>5. hash \in Addresses /\ hash.tab = tab /\ hash.idx = i
  BY <1>4, HashIs
<1>6. /\ last \in [Lists -> Nat] /\ window \in [Lists -> Nat] /\ selected \in [Lists -> Positions]
      /\ last[tab] = i /\ selected[tab] = i
      /\ \A t \in Lists \ {tab} : last[t] = n.last[t] /\ selected[t] = n.selected[t]
  BY <1>2, <1>4 DEF NavigationPages
<1>7. m = [n EXCEPT !.last = last, !.window = window, !.selected = selected, !.hash = hash]
  BY <1>3
<1> HIDE DEF last, window, selected, hash
<1>8. m \in NavigationPages
  BY <1>5, <1>6, <1>7 DEF NavigationPages
<1>9. /\ m.last = last /\ m.selected = selected /\ m.hash = hash
      /\ m.count = n.count /\ m.copied = n.copied /\ m.pending = n.pending
      /\ m.active = n.active /\ m.ready = n.ready /\ m.threads = n.threads
      /\ m.crossed = n.crossed /\ m.moves = n.moves
  BY <1>7 DEF NavigationPages
<1> QED
  BY <1>2, <1>5, <1>6, <1>8, <1>9 DEF Shows, m

\* The list of a deleted entry.
LEMMA DeletedShows ==
  ASSUME NEW n \in NavigationPages, NEW tab \in Lists, NEW at \in Nat
  PROVE  /\ Shows(n, Deleted(n, tab, at), tab)
         /\ Deleted(n, tab, at).pending = n.pending
         /\ Deleted(n, tab, at).copied = n.copied
         /\ Deleted(n, tab, at).count = n.count
         /\ Deleted(n, tab, at).moves = n.moves
<1>1. CASE n.count[tab] = 0
  <2> DEFINE selected == [n.selected EXCEPT ![tab] = Unset]
             hash     == Hash(tab, 0)
             m == Deleted(n, tab, at)
  <2>1. m = [n EXCEPT !.selected = selected, !.hash = hash]
    BY <1>1 DEF Deleted, NavigationPages
  <2>2. /\ selected \in [Lists -> Positions]
        /\ \A t \in Lists \ {tab} : selected[t] = n.selected[t]
    BY DEF NavigationPages, Positions, Unset
  <2>3. hash \in Addresses /\ hash.tab = tab
    BY HashIs DEF Positions
  <2> HIDE DEF selected, hash, m
  <2>4. m \in NavigationPages
    BY <2>1, <2>2, <2>3 DEF NavigationPages
  <2>5. /\ m.last = n.last /\ m.selected = selected /\ m.hash = hash
        /\ m.count = n.count /\ m.copied = n.copied /\ m.pending = n.pending
        /\ m.active = n.active /\ m.ready = n.ready /\ m.threads = n.threads
        /\ m.crossed = n.crossed /\ m.moves = n.moves
    BY <2>1 DEF NavigationPages
  <2> QED
    BY <1>1, <2>2, <2>3, <2>4, <2>5 DEF Shows, m
<1>2. CASE n.count[tab] # 0
  BY <1>2, RestoreShows DEF Deleted
<1> QED
  BY <1>1, <1>2

\* The list that is shown is where the address is.
LEMMA ShownIsPlaced ==
  ASSUME NEW n, NEW m, NEW tab \in Lists, Shows(n, m, tab), m.active = tab
  PROVE  Placed(m) /\ Addressed(m)
BY DEF Shows, Placed, Addressed

-----------------------------------------------------------------------------
(* What the user does in the list that is shown.                           *)

\* An entry is picked, made or deleted in the list that is shown, and so the
\* copy was left, if it is there.
LEMMA UserStays ==
  ASSUME NEW n \in NavigationPages, NEW m, NEW tab \in Lists, InOrder(n), Shows(n, m, tab),
         n.active = tab, m.pending = n.pending, m.copied[tab] = Unset
  PROVE  InOrder(m)
<1>1. OneAtATime(m)
  BY DEF InOrder, OneAtATime, Shows
<1>2. PlaceIsKept(m)
  BY ShownIsPlaced DEF PlaceIsKept, Shows
<1>3. RestoredAreReady(m)
  BY DEF InOrder, RestoredAreReady, Shows
<1>4. \A t \in Lists : Waits(n, t) => Waits(m, t)
  BY DEF Waits, Shows
<1>5. PendingIsOpened(m)
  BY <1>4 DEF InOrder, PendingIsOpened
<1>6. CopyIsKept(m)
  <2> SUFFICES ASSUME NEW t \in Lists, m.copied[t] # Unset
               PROVE  /\ ~ m.crossed /\ m.copied[t] < m.count[t]
                      /\ (m.pending[t] = m.copied[t] /\ Waits(m, t)) \/ CopyIsThere(m, t)
    BY DEF CopyIsKept
  <2>1. t # tab /\ m.copied[t] = n.copied[t] /\ m.count[t] = n.count[t] /\ m.crossed = n.crossed
    BY DEF Shows
  <2>2. /\ ~ n.crossed /\ n.copied[t] < n.count[t]
        /\ (n.pending[t] = n.copied[t] /\ Waits(n, t)) \/ CopyIsThere(n, t)
    BY <2>1 DEF InOrder, CopyIsKept
  <2>3. CopyIsThere(n, t) => CopyIsThere(m, t)
    BY <2>1 DEF CopyIsThere, Shows
  <2> QED
    BY <1>4, <2>1, <2>2, <2>3
<1> QED
  BY <1>1, <1>2, <1>3, <1>5, <1>6 DEF InOrder

-----------------------------------------------------------------------------
(* Threads go on.                                                          *)

\* The thread "i" of "m" is that of "n" at another place; the others are as they were.
Advances(n, m, i, pc) ==
  /\ Len(m.threads) = Len(n.threads)
  /\ m.threads[i].tab = n.threads[i].tab /\ m.threads[i].pc = pc
  /\ \A j \in 1 .. Len(n.threads) : j # i => m.threads[j] = n.threads[j]

\* Unless threads crossed, a thread is the only one.
LEMMA OnlyThread ==
  ASSUME NEW n \in NavigationPages, InOrder(n), ~ n.crossed, NEW i \in 1 .. Len(n.threads)
  PROVE  Len(n.threads) = 1 /\ i = 1 /\ n.threads[i].tab = n.active
<1> DEFINE length == Len(n.threads)
<1>1. length \in Nat /\ i \in 1 .. length
  BY DEF NavigationPages
<1>2. length <= 1 /\ n.threads[i].tab = n.active
  BY Zenon DEF InOrder, OneAtATime
<1> HIDE DEF length
<1>3. length = 1 /\ i = 1
  BY <1>1, <1>2
<1> QED
  BY <1>2, <1>3 DEF length

\* What waits for its list to be restored does so still.
LEMMA AdvancedWaits ==
  ASSUME NEW n \in NavigationPages, NEW m, NEW i \in 1 .. Len(n.threads), NEW pc,
         Advances(n, m, i, pc), NEW tab \in Lists, Waits(n, tab),
         n.threads[i].tab = tab => pc \in Begun
  PROVE  Waits(m, tab)
<1>1. PICK j \in 1 .. Len(n.threads) : n.threads[j].tab = tab /\ n.threads[j].pc \in Begun
  BY DEF Waits
<1>2. m.threads[j].tab = tab /\ m.threads[j].pc \in Begun /\ j \in 1 .. Len(m.threads)
  BY <1>1 DEF Advances
<1> QED
  BY <1>2 DEF Waits

\* A step that shows nothing: the tab is found ready, or begins to be, or a page is
\* there that has no list.
LEMMA QuietStepKeeps ==
  ASSUME NEW n \in NavigationPages, NEW m, InOrder(n), NEW i \in 1 .. Len(n.threads),
         n.threads[i].pc \in Begun, NEW pc \in Begun \cup {"end"}, Advances(n, m, i, pc),
         n.threads[i].tab \in Lists => pc \in Begun,
         pc \in {"restore", "end"} => n.threads[i].tab \in m.ready,
         pc \notin {"restore", "end"} => n.threads[i].tab \notin n.ready /\ pc # "tick",
         pc = "messages" => n.threads[i].tab = "consumers",
         n.ready \subseteq m.ready,
         m.active = n.active, m.hash = n.hash, m.count = n.count, m.selected = n.selected,
         m.last = n.last, m.pending = n.pending, m.crossed = n.crossed, m.copied = n.copied
  PROVE  InOrder(m)
<1>0. Len(n.threads) \in Nat /\ n.threads[i] \in Threads
  BY DEF NavigationPages
<1>1. OneAtATime(m)
  BY <1>0 DEF InOrder, OneAtATime, Advances
<1>2. PlaceIsKept(m)
  <2> SUFFICES ASSUME ~ m.crossed
               PROVE  /\ m.threads # <<>>
                      /\ \A j \in 1 .. Len(m.threads) :
                           ~ (m.threads[j].pc = "end" /\ m.active \in Lists)
    BY DEF PlaceIsKept
  <2>1. Len(n.threads) = 1 /\ n.threads[i].tab = n.active
    BY OnlyThread
  <2>2. Len(m.threads) = 1 /\ i = 1
    BY <2>1 DEF Advances
  <2>3. m.threads[1].pc = pc /\ m.active = n.threads[i].tab
    BY <2>1, <2>2 DEF Advances
  <2> QED
    BY <2>2, <2>3 DEF Begun
<1>3. RestoredAreReady(m)
  BY DEF InOrder, RestoredAreReady, Advances
<1>4. \A t \in Lists : Waits(n, t) => Waits(m, t)
  BY AdvancedWaits
<1>5. PendingIsOpened(m)
  BY <1>4 DEF InOrder, PendingIsOpened
<1>6. CopyIsKept(m)
  <2> SUFFICES ASSUME NEW t \in Lists, n.copied[t] # Unset
               PROVE  CopyIsThere(n, t) => CopyIsThere(m, t)
    BY <1>4 DEF CopyIsKept, InOrder
  <2> SUFFICES ASSUME CopyIsThere(n, t), NEW j \in 1 .. Len(n.threads), m.threads[j].tab = t
               PROVE  m.threads[j].pc \in {"tick", "restore", "end"}
    BY DEF CopyIsThere, Advances
  <2>1. CASE j = i
    BY <2>1 DEF CopyIsThere, Advances
  <2>2. CASE j # i
    BY <2>2 DEF CopyIsThere, Advances
  <2> QED
    BY <2>1, <2>2
<1> QED
  BY <1>1, <1>2, <1>3, <1>5, <1>6 DEF InOrder

\* A list is shown for the first time.
LEMMA FirstShowKeeps ==
  ASSUME NEW n \in NavigationPages, NEW k, NEW m, InOrder(n), NEW i \in 1 .. Len(n.threads),
         n.threads[i].pc \in Begun, n.threads[i].tab \in Lists, Shows(n, k, n.threads[i].tab),
         n.threads[i].tab \notin n.ready \/ n.threads[i].pc = "messages",
         k.pending = n.pending, k.copied = n.copied, k.count = n.count,
         Advances(n, m, i, "form"),
         m.active = k.active, m.hash = k.hash, m.count = k.count, m.selected = k.selected,
         m.last = k.last, m.pending = k.pending, m.crossed = k.crossed, m.copied = k.copied,
         m.ready = k.ready
  PROVE  InOrder(m)
<1> DEFINE tab == n.threads[i].tab
<1>0. Len(n.threads) \in Nat /\ n.threads[i] \in Threads
  BY DEF NavigationPages
<1>1. OneAtATime(m)
  BY <1>0 DEF InOrder, OneAtATime, Advances, Shows
<1>2. PlaceIsKept(m)
  <2> SUFFICES ASSUME ~ m.crossed
               PROVE  /\ m.threads # <<>>
                      /\ \A j \in 1 .. Len(m.threads) : m.threads[j].pc # "end"
    BY DEF PlaceIsKept
  <2>1. Len(n.threads) = 1
    BY OnlyThread DEF Shows
  <2>2. Len(m.threads) = 1 /\ i = 1
    BY <2>1 DEF Advances
  <2> QED
    BY <2>2 DEF Advances
<1>3. RestoredAreReady(m)
  BY DEF InOrder, RestoredAreReady, Advances, Shows
<1>4. \A t \in Lists : Waits(n, t) => Waits(m, t)
  BY AdvancedWaits DEF Begun
<1>5. PendingIsOpened(m)
  BY <1>4 DEF InOrder, PendingIsOpened
<1>6. CopyIsKept(m)
  <2> SUFFICES ASSUME NEW t \in Lists, n.copied[t] # Unset
               PROVE  CopyIsThere(n, t) => CopyIsThere(m, t)
    BY <1>4 DEF CopyIsKept, InOrder, Shows
  <2> SUFFICES ASSUME CopyIsThere(n, t) PROVE CopyIsThere(m, t)
    OBVIOUS
  <2>1. t # tab
    BY DEF CopyIsThere
  <2>2. /\ m.selected[t] = n.selected[t] /\ m.last[t] = n.last[t] /\ m.hash.tab = tab
        /\ m.ready = n.ready
    BY <2>1 DEF Shows
  <2>3. ASSUME NEW j \in 1 .. Len(m.threads), m.threads[j].tab = t
        PROVE  m.threads[j].pc \in {"tick", "restore", "end"}
    BY <2>1, <2>3 DEF CopyIsThere, Advances
  <2> QED
    BY <2>1, <2>2, <2>3 DEF CopyIsThere
<1> QED
  BY <1>1, <1>2, <1>3, <1>5, <1>6 DEF InOrder

\* A list is restored, with what is pending for it.
LEMMA RestoreKeeps ==
  ASSUME NEW n \in NavigationPages, NEW k, NEW m, InOrder(n), NEW i \in 1 .. Len(n.threads),
         n.threads[i].pc = "restore", n.threads[i].tab \in Lists,
         Shows(n, k, n.threads[i].tab), k.copied = n.copied, k.count = n.count,
         n.copied[n.threads[i].tab] # Unset =>
           k.selected[n.threads[i].tab] = n.copied[n.threads[i].tab],
         Advances(n, m, i, "end"),
         m.active = k.active, m.hash = k.hash, m.count = k.count, m.selected = k.selected,
         m.last = k.last, m.crossed = k.crossed, m.copied = k.copied, m.ready = k.ready,
         \A t \in Lists : m.pending[t] = Unset
  PROVE  InOrder(m)
<1> DEFINE tab == n.threads[i].tab
<1>0. /\ Len(n.threads) \in Nat /\ n.threads[i] \in Threads
      /\ \A t \in Lists : n.copied[t] \in Positions /\ n.count[t] \in Nat
  BY DEF NavigationPages
<1>1. OneAtATime(m)
  BY <1>0 DEF InOrder, OneAtATime, Advances, Shows
<1>2. PlaceIsKept(m)
  <2> SUFFICES ASSUME ~ m.crossed PROVE Placed(m) /\ Addressed(m)
    BY DEF PlaceIsKept
  <2>1. k.active = tab
    BY <1>0 DEF InOrder, OneAtATime, Shows
  <2>2. Placed(k) /\ Addressed(k)
    BY <2>1, ShownIsPlaced
  <2> QED
    BY <2>2 DEF Placed, Addressed
<1>3. RestoredAreReady(m)
  BY DEF InOrder, RestoredAreReady, Advances, Shows
<1>4. PendingIsOpened(m)
  BY DEF PendingIsOpened
<1>5. CopyIsKept(m)
  <2> SUFFICES ASSUME NEW t \in Lists, n.copied[t] # Unset
               PROVE  /\ ~ n.crossed /\ n.copied[t] < n.count[t]
                      /\ CopyIsThere(m, t)
    BY DEF CopyIsKept, Shows
  <2>1. /\ ~ n.crossed /\ n.copied[t] < n.count[t]
        /\ (n.pending[t] = n.copied[t] /\ Waits(n, t)) \/ CopyIsThere(n, t)
    BY DEF InOrder, CopyIsKept
  <2>2. Len(n.threads) = 1 /\ i = 1
    BY <2>1, OnlyThread
  <2>3. \A j \in 1 .. Len(m.threads) : m.threads[j].pc = "end"
    BY <2>2 DEF Advances
  <2>4. CASE t = tab
    <3>1. k.selected[t] = n.copied[t] /\ k.count[t] > 0
      BY <1>0, <2>1, <2>4 DEF Positions, Unset
    <3>2. k.last[t] = n.copied[t] /\ k.hash.idx = n.copied[t]
      BY <2>4, <3>1 DEF Shows
    <3>3. t \in n.ready
      BY <2>4 DEF InOrder, RestoredAreReady
    <3> QED
      BY <2>1, <2>3, <3>1, <3>2, <3>3 DEF CopyIsThere, Shows
  <2>5. CASE t # tab
    <3>1. ~ Waits(n, t)
      BY <2>2, <2>5 DEF Waits
    <3>2. CopyIsThere(n, t)
      BY <2>1, <3>1
    <3>3. /\ m.selected[t] = n.selected[t] /\ m.last[t] = n.last[t] /\ m.hash.tab = tab
          /\ m.ready = n.ready
      BY <2>5 DEF Shows
    <3> QED
      BY <2>1, <2>3, <2>5, <3>2, <3>3 DEF CopyIsThere
  <2> QED
    BY <2>4, <2>5
<1> QED
  BY <1>1, <1>2, <1>3, <1>4, <1>5 DEF InOrder

-----------------------------------------------------------------------------
(* Threads end.                                                            *)

\* "m" is "n" without the thread "i".
Ends(n, m, i) ==
  /\ m.threads \in Seq(Threads)
  /\ Len(m.threads) = Len(n.threads) - 1
  /\ \A j \in 1 .. Len(m.threads) : \E k \in 1 .. Len(n.threads) : m.threads[j] = n.threads[k]
  /\ \A k \in 1 .. Len(n.threads) :
       k # i => \E j \in 1 .. Len(m.threads) : m.threads[j] = n.threads[k]

\* What ends depends on the threads alone.
LEMMA EndsOfSame ==
  ASSUME NEW n, NEW k, k.threads = n.threads, NEW m, NEW i, Ends(k, m, i)
  PROVE  Ends(n, m, i)
BY DEF Ends

\* When the only thread ends, none is left.
LEMMA LastEnds ==
  ASSUME NEW n \in NavigationPages, InOrder(n), ~ n.crossed, NEW i \in 1 .. Len(n.threads),
         NEW m, Ends(n, m, i)
  PROVE  Len(m.threads) = 0 /\ i = 1 /\ Len(n.threads) = 1 /\ n.threads[i].tab = n.active
<1>1. Len(n.threads) = 1 /\ i = 1 /\ n.threads[i].tab = n.active
  BY OnlyThread
<1>2. Len(m.threads) = 0
  BY <1>1 DEF Ends
<1> QED
  BY <1>1, <1>2

\* What waits is not what ended.
LEMMA OthersWait ==
  ASSUME NEW n, NEW m, NEW i \in 1 .. Len(n.threads), n.threads[i].pc \notin Begun,
         Ends(n, m, i), NEW tab \in Lists, Waits(n, tab)
  PROVE  Waits(m, tab)
<1>1. PICK k \in 1 .. Len(n.threads) : n.threads[k].tab = tab /\ n.threads[k].pc \in Begun
  BY DEF Waits
<1>2. PICK j \in 1 .. Len(m.threads) : m.threads[j] = n.threads[k]
  BY <1>1 DEF Ends
<1> QED
  BY <1>1, <1>2 DEF Waits

\* The address is set, if it is not of the tab, and the switch is done.
LEMMA EndKeeps ==
  ASSUME NEW n \in NavigationPages, NEW m, InOrder(n), NEW i \in 1 .. Len(n.threads),
         n.threads[i].pc = "end", Ends(n, m, i),
         m.hash.tab = n.threads[i].tab,
         n.hash.tab = n.threads[i].tab => m.hash = n.hash,
         n.hash.tab # n.threads[i].tab /\ n.threads[i].tab \in Lists =>
           m.hash.idx = n.last[n.threads[i].tab],
         m.active = n.active, m.count = n.count, m.selected = n.selected, m.last = n.last,
         m.pending = n.pending, m.crossed = n.crossed, m.copied = n.copied, m.ready = n.ready
  PROVE  InOrder(m)
<1> DEFINE tab == n.threads[i].tab
<1>0. n.threads[i].pc \notin Begun
  BY DEF Begun
<1>1. OneAtATime(m)
  <2> SUFFICES ASSUME ~ n.crossed PROVE Len(m.threads) = 0
    BY DEF OneAtATime
  <2> QED
    BY LastEnds
<1>2. PlaceIsKept(m)
  <2> SUFFICES ASSUME ~ n.crossed PROVE Placed(m) /\ Addressed(m)
    BY DEF PlaceIsKept
  <2>1. tab = n.active
    BY LastEnds
  <2>2. CASE tab \in Lists
    <3>1. Placed(n) /\ Addressed(n)
      BY <2>1, <2>2 DEF InOrder, PlaceIsKept
    <3> QED
      BY <2>1, <2>2, <3>1 DEF Placed, Addressed
  <2>3. CASE tab \notin Lists
    BY <2>1, <2>3 DEF Placed, Addressed
  <2> QED
    BY <2>2, <2>3
<1>3. RestoredAreReady(m)
  <2>1. \A k \in 1 .. Len(n.threads) :
          /\ n.threads[k].pc \in {"restore", "end"} => n.threads[k].tab \in n.ready
          /\ n.threads[k].pc = "messages" => n.threads[k].tab = "consumers"
    BY DEF InOrder, RestoredAreReady
  <2> SUFFICES ASSUME NEW j \in 1 .. Len(m.threads)
               PROVE  /\ m.threads[j].pc \in {"restore", "end"} => m.threads[j].tab \in m.ready
                      /\ m.threads[j].pc = "messages" => m.threads[j].tab = "consumers"
    BY DEF RestoredAreReady
  <2>2. PICK k \in 1 .. Len(n.threads) : m.threads[j] = n.threads[k]
    BY DEF Ends
  <2>3. m.ready = n.ready
    OBVIOUS
  <2> QED
    BY <2>1, <2>2, <2>3
<1>4. PendingIsOpened(m)
  BY <1>0, OthersWait DEF InOrder, PendingIsOpened
<1>5. CopyIsKept(m)
  <2> SUFFICES ASSUME NEW t \in Lists, n.copied[t] # Unset
               PROVE  /\ ~ n.crossed /\ n.copied[t] < n.count[t]
                      /\ CopyIsThere(m, t)
    BY DEF CopyIsKept
  <2>1. /\ ~ n.crossed /\ n.copied[t] < n.count[t]
        /\ (n.pending[t] = n.copied[t] /\ Waits(n, t)) \/ CopyIsThere(n, t)
    BY DEF InOrder, CopyIsKept
  <2>2. Len(m.threads) = 0 /\ Len(n.threads) = 1 /\ i = 1
    BY <2>1, LastEnds
  <2>3. ~ Waits(n, t)
    BY <1>0, <2>2 DEF Waits
  <2>4. CopyIsThere(n, t)
    BY <2>1, <2>3
  <2> QED
    BY <2>1, <2>2, <2>4 DEF CopyIsThere
<1> QED
  BY <1>1, <1>2, <1>3, <1>4, <1>5 DEF InOrder

\* A deletion was saved, and the next publisher is shown.
LEMMA SavedKeeps ==
  ASSUME NEW n \in NavigationPages, NEW k, NEW m, InOrder(n), NEW i \in 1 .. Len(n.threads),
         n.threads[i].pc = "saving", Shows(n, k, "publishers"), Ends(n, m, i),
         k.copied = n.copied, k.pending = n.pending, k.count = n.count,
         m.active = k.active, m.hash = k.hash, m.count = k.count, m.selected = k.selected,
         m.last = k.last, m.pending = k.pending, m.crossed = k.crossed, m.copied = k.copied,
         m.ready = k.ready
  PROVE  InOrder(m)
<1>0. /\ n.threads[i].pc \notin Begun /\ "publishers" \in Lists
      /\ n.threads[i].tab = "publishers"
  <2>1. n.threads[i] \in Threads
    BY DEF NavigationPages
  <2> QED
    BY <2>1, ThreadIs DEF Begun, Lists
<1>1. OneAtATime(m)
  <2> SUFFICES ASSUME ~ n.crossed PROVE Len(m.threads) = 0
    BY DEF OneAtATime, Shows
  <2> QED
    BY LastEnds
<1>2. PlaceIsKept(m)
  <2> SUFFICES ASSUME ~ n.crossed PROVE Placed(m) /\ Addressed(m)
    BY DEF PlaceIsKept, Shows
  <2>1. k.active = "publishers"
    BY <1>0, LastEnds DEF Shows
  <2>2. Placed(k) /\ Addressed(k)
    BY <1>0, <2>1, ShownIsPlaced
  <2> QED
    BY <2>2 DEF Placed, Addressed
<1>3. RestoredAreReady(m)
  <2>1. \A h \in 1 .. Len(n.threads) :
          /\ n.threads[h].pc \in {"restore", "end"} => n.threads[h].tab \in n.ready
          /\ n.threads[h].pc = "messages" => n.threads[h].tab = "consumers"
    BY DEF InOrder, RestoredAreReady
  <2> SUFFICES ASSUME NEW j \in 1 .. Len(m.threads)
               PROVE  /\ m.threads[j].pc \in {"restore", "end"} => m.threads[j].tab \in m.ready
                      /\ m.threads[j].pc = "messages" => m.threads[j].tab = "consumers"
    BY DEF RestoredAreReady
  <2>2. PICK h \in 1 .. Len(n.threads) : m.threads[j] = n.threads[h]
    BY DEF Ends
  <2>3. m.ready = n.ready
    BY DEF Shows
  <2> QED
    BY <2>1, <2>2, <2>3
<1>4. PendingIsOpened(m)
  BY <1>0, OthersWait DEF InOrder, PendingIsOpened
<1>5. CopyIsKept(m)
  <2> SUFFICES ASSUME NEW t \in Lists, n.copied[t] # Unset
               PROVE  /\ ~ n.crossed /\ n.copied[t] < n.count[t]
                      /\ CopyIsThere(m, t)
    BY DEF CopyIsKept, Shows
  <2>1. /\ ~ n.crossed /\ n.copied[t] < n.count[t]
        /\ (n.pending[t] = n.copied[t] /\ Waits(n, t)) \/ CopyIsThere(n, t)
    BY DEF InOrder, CopyIsKept
  <2>2. Len(m.threads) = 0 /\ Len(n.threads) = 1 /\ i = 1
    BY <2>1, LastEnds
  <2>3. ~ Waits(n, t)
    BY <1>0, <2>2 DEF Waits
  <2>4. CopyIsThere(n, t)
    BY <2>1, <2>3
  <2>5. t # "publishers"
    BY <1>0, <2>4 DEF CopyIsThere
  <2>6. /\ m.selected[t] = n.selected[t] /\ m.last[t] = n.last[t] /\ m.hash.tab = "publishers"
        /\ m.ready = n.ready
    BY <2>5 DEF Shows
  <2> QED
    BY <2>1, <2>2, <2>4, <2>5, <2>6 DEF CopyIsThere
<1> QED
  BY <1>1, <1>2, <1>3, <1>4, <1>5 DEF InOrder

-----------------------------------------------------------------------------
(* Threads begin.                                                          *)

\* A thread begins: for what was pending, or for a copy, only a switch to its list.
LEMMA BeginKeeps ==
  ASSUME NEW n \in NavigationPages, InOrder(n), NEW m, NEW th \in Threads,
         th.pc \in {"tick", "saving"}, th.tab = m.active,
         m.threads = Append(n.threads, th), m.crossed <=> n.threads # <<>>, m.ready = n.ready,
         \A t \in Lists : m.pending[t] # Unset =>
           n.pending[t] # Unset \/ (th.tab = t /\ th.pc = "tick"),
         \A t \in Lists : m.copied[t] # Unset =>
           /\ n.threads = <<>> /\ m.copied[t] < m.count[t]
           /\ \/ m.pending[t] = m.copied[t] /\ th.tab = t /\ th.pc = "tick"
              \/ CopyIsThere(m, t)
  PROVE  InOrder(m)
<1>1. /\ n.threads \in Seq(Threads) /\ Len(n.threads) \in Nat
      /\ Len(m.threads) = Len(n.threads) + 1 /\ m.threads[Len(n.threads) + 1] = th
      /\ \A j \in 1 .. Len(n.threads) : m.threads[j] = n.threads[j]
  <2>1. n.threads \in Seq(Threads)
    BY DEF NavigationPages
  <2> QED
    BY <2>1
<1>2. n.threads = <<>> => Len(m.threads) = 1 /\ m.threads[1] = th
  BY <1>1
<1>3. OneAtATime(m)
  BY <1>2 DEF OneAtATime
<1>4. PlaceIsKept(m)
  <2> SUFFICES ASSUME n.threads = <<>>
               PROVE  /\ m.threads # <<>>
                      /\ \A j \in 1 .. Len(m.threads) : m.threads[j].pc # "end"
    BY DEF PlaceIsKept
  <2> QED
    BY <1>2
<1>5. RestoredAreReady(m)
  <2> SUFFICES ASSUME NEW j \in 1 .. Len(m.threads), m.threads[j].pc \notin {"tick", "saving"}
               PROVE  /\ m.threads[j].pc \in {"restore", "end"} => m.threads[j].tab \in m.ready
                      /\ m.threads[j].pc = "messages" => m.threads[j].tab = "consumers"
    BY DEF RestoredAreReady
  <2>1. j \in 1 .. Len(n.threads) /\ m.threads[j] = n.threads[j]
    BY <1>1
  <2> QED
    BY <2>1 DEF InOrder, RestoredAreReady
<1>6. \A t \in Lists : Waits(n, t) \/ (th.tab = t /\ th.pc = "tick") => Waits(m, t)
  <2> TAKE t \in Lists
  <2>1. ASSUME Waits(n, t) PROVE Waits(m, t)
    <3>1. PICK j \in 1 .. Len(n.threads) : n.threads[j].tab = t /\ n.threads[j].pc \in Begun
      BY <2>1 DEF Waits
    <3>2. j \in 1 .. Len(m.threads) /\ m.threads[j] = n.threads[j]
      BY <1>1
    <3> QED
      BY <3>1, <3>2 DEF Waits
  <2>2. ASSUME th.tab = t, th.pc = "tick" PROVE Waits(m, t)
    <3>1. Len(n.threads) + 1 \in 1 .. Len(m.threads)
      BY <1>1
    <3> QED
      BY <1>1, <2>2, <3>1 DEF Waits, Begun
  <2> QED
    BY <2>1, <2>2
<1>7. PendingIsOpened(m)
  BY <1>6 DEF InOrder, PendingIsOpened
<1>8. CopyIsKept(m)
  BY <1>6 DEF CopyIsKept
<1> QED
  BY <1>3, <1>4, <1>5, <1>7, <1>8 DEF InOrder

\* A copy that was opened stays where it is while a thread begins.
LEMMA CopyStays ==
  ASSUME NEW n \in NavigationPages, InOrder(n), n.threads = <<>>, NEW m, NEW th, NEW t \in Lists,
         n.copied[t] # Unset, m.copied[t] = n.copied[t], m.pending[t] = n.pending[t],
         m.selected[t] = n.selected[t], m.last[t] \in {n.last[t], n.copied[t]},
         m.hash.tab = t => m.hash.idx \in {Unset, n.copied[t]}, m.ready = n.ready,
         m.threads = Append(n.threads, th), th.tab = t => th.pc = "tick"
  PROVE  n.copied[t] < n.count[t] /\ CopyIsThere(m, t)
<1>1. ~ Waits(n, t)
  BY DEF Waits
<1>2. n.copied[t] < n.count[t] /\ CopyIsThere(n, t)
  BY <1>1 DEF InOrder, CopyIsKept
<1>3. Len(m.threads) = 1 /\ m.threads[1] = th
  OBVIOUS
<1> QED
  BY <1>2, <1>3 DEF CopyIsThere

\* The thread of a switch.
Switch(tab) == [tab |-> tab, pc |-> "tick"]

\* A switch of tabs remembers the entry of the address that it leaves.
LEMMA SwitchIs ==
  ASSUME NEW n \in NavigationPages, NEW tab \in Tabs
  PROVE  /\ switchMain(n, tab) \in NavigationPages
         /\ switchMain(n, tab).active = tab
         /\ switchMain(n, tab).threads = Append(n.threads, Switch(tab))
         /\ switchMain(n, tab).crossed <=> n.threads # <<>>
         /\ n.threads = <<>> => switchMain(n, tab).copied = n.copied
         /\ n.threads # <<>> => \A t \in Lists : switchMain(n, tab).copied[t] = Unset
         /\ \A t \in Lists : switchMain(n, tab).last[t] =
              IF n.hash.tab = t /\ n.hash.idx # Unset THEN n.hash.idx ELSE n.last[t]
         /\ switchMain(n, tab).hash = n.hash /\ switchMain(n, tab).count = n.count
         /\ switchMain(n, tab).selected = n.selected /\ switchMain(n, tab).pending = n.pending
         /\ switchMain(n, tab).ready = n.ready /\ switchMain(n, tab).moves = n.moves
<1> DEFINE last    == IF n.hash.idx = Unset THEN n.last
                      ELSE [n.last EXCEPT ![n.hash.tab] = n.hash.idx]
           threads == Append(n.threads, Switch(tab))
           crossed == n.threads # <<>>
           copied  == IF n.threads = <<>> THEN n.copied ELSE [t \in Lists |-> Unset]
           m       == switchMain(n, tab)
<1>1. m = [n EXCEPT !.last = last, !.active = tab, !.threads = threads, !.crossed = crossed,
                    !.copied = copied]
  BY DEF switchMain, Begin, rememberSelectionFromHash, Switch, NavigationPages
<1>2. n.hash \in Addresses /\ n.last \in [Lists -> Nat] /\ n.copied \in [Lists -> Positions]
      /\ n.threads \in Seq(Threads)
  BY DEF NavigationPages
<1>3. n.hash.idx # Unset => n.hash.tab \in Lists /\ n.hash.idx \in Nat
  BY <1>2, AddressIs
<1>4. /\ last \in [Lists -> Nat]
      /\ \A t \in Lists : last[t] =
           IF n.hash.tab = t /\ n.hash.idx # Unset THEN n.hash.idx ELSE n.last[t]
  BY <1>2, <1>3
<1>5. threads \in Seq(Threads)
  <2>1. Switch(tab) \in Threads
    BY DEF Switch, Threads
  <2> QED
    BY <1>2, <2>1
<1>6. copied \in [Lists -> Positions]
  BY <1>2 DEF Positions
<1>7. crossed \in BOOLEAN
  OBVIOUS
<1>8. /\ n.threads = <<>> => copied = n.copied
      /\ n.threads # <<>> => \A t \in Lists : copied[t] = Unset
      /\ crossed <=> n.threads # <<>>
  OBVIOUS
<1> HIDE DEF last, threads, crossed, copied, m
<1>9. m \in NavigationPages
  BY <1>1, <1>4, <1>5, <1>6, <1>7 DEF NavigationPages
<1>10. /\ m.active = tab /\ m.threads = threads /\ m.crossed = crossed /\ m.copied = copied
       /\ m.last = last /\ m.hash = n.hash /\ m.count = n.count /\ m.selected = n.selected
       /\ m.pending = n.pending /\ m.ready = n.ready /\ m.moves = n.moves
  BY <1>1 DEF NavigationPages
<1> QED
  BY <1>4, <1>8, <1>9, <1>10 DEF m, threads

-----------------------------------------------------------------------------
(* The steps of a switch.                                                  *)

\* Neither the bound of the moves nor the window's copy is part of the order.
LEMMA MovesKeep ==
  ASSUME NEW n \in NavigationPages, NEW m, InOrder(n),
         m.active = n.active, m.hash = n.hash, m.count = n.count, m.selected = n.selected,
         m.last = n.last, m.pending = n.pending, m.ready = n.ready, m.threads = n.threads,
         m.crossed = n.crossed, m.copied = n.copied
  PROVE  InOrder(m)
<1>1. OneAtATime(m)
  BY DEF InOrder, OneAtATime
<1>2. PlaceIsKept(m)
  BY DEF InOrder, PlaceIsKept, Placed, Addressed
<1>3. RestoredAreReady(m)
  BY DEF InOrder, RestoredAreReady
<1>4. PendingIsOpened(m)
  BY DEF InOrder, PendingIsOpened, Waits
<1>5. CopyIsKept(m)
  BY DEF InOrder, CopyIsKept, CopyIsThere, Waits
<1> QED
  BY <1>1, <1>2, <1>3, <1>4, <1>5 DEF InOrder

\* A thread goes on, and nothing else changes.
LEMMA GotoIs ==
  ASSUME NEW k \in NavigationPages, NEW i \in 1 .. Len(k.threads), k.threads[i].pc \in Begun,
         NEW pc \in Begun \cup {"end"}, NEW m, m = [k EXCEPT !.threads[i].pc = pc]
  PROVE  /\ m \in NavigationPages /\ Advances(k, m, i, pc)
         /\ m.active = k.active /\ m.hash = k.hash /\ m.count = k.count
         /\ m.selected = k.selected /\ m.last = k.last /\ m.pending = k.pending
         /\ m.ready = k.ready /\ m.crossed = k.crossed /\ m.copied = k.copied
<1> DEFINE threads == [k.threads EXCEPT ![i].pc = pc]
<1>1. k.threads \in Seq(Threads)
  BY DEF NavigationPages
<1>2. /\ threads \in Seq(Threads) /\ Len(threads) = Len(k.threads)
      /\ threads[i].tab = k.threads[i].tab /\ threads[i].pc = pc
      /\ \A j \in 1 .. Len(k.threads) : j # i => threads[j] = k.threads[j]
  BY <1>1, MovedThread
<1>3. m = [k EXCEPT !.threads = threads]
  BY DEF NavigationPages
<1> HIDE DEF threads
<1>4. m \in NavigationPages
  BY <1>2, <1>3 DEF NavigationPages
<1>5. /\ m.threads = threads
      /\ m.active = k.active /\ m.hash = k.hash /\ m.count = k.count
      /\ m.selected = k.selected /\ m.last = k.last /\ m.pending = k.pending
      /\ m.ready = k.ready /\ m.crossed = k.crossed /\ m.copied = k.copied
  BY <1>3 DEF NavigationPages
<1> QED
  BY <1>2, <1>4, <1>5 DEF Advances

\* A thread ends, and nothing else changes.
LEMMA EndedIs ==
  ASSUME NEW k \in NavigationPages, NEW i \in 1 .. Len(k.threads),
         NEW m, m = [k EXCEPT !.threads = RemoveAt(@, i)]
  PROVE  /\ m \in NavigationPages /\ Ends(k, m, i)
         /\ m.active = k.active /\ m.hash = k.hash /\ m.count = k.count
         /\ m.selected = k.selected /\ m.last = k.last /\ m.pending = k.pending
         /\ m.ready = k.ready /\ m.crossed = k.crossed /\ m.copied = k.copied
<1> DEFINE threads == RemoveAt(k.threads, i)
<1>1. k.threads \in Seq(Threads)
  BY DEF NavigationPages
<1>2. /\ threads \in Seq(Threads) /\ Len(threads) = Len(k.threads) - 1
      /\ \A j \in 1 .. Len(threads) : \E l \in 1 .. Len(k.threads) : threads[j] = k.threads[l]
      /\ \A l \in 1 .. Len(k.threads) :
           l # i => \E j \in 1 .. Len(threads) : threads[j] = k.threads[l]
  BY <1>1, EndedThread
<1>3. m = [k EXCEPT !.threads = threads]
  BY DEF NavigationPages
<1> HIDE DEF threads
<1>4. m \in NavigationPages
  BY <1>2, <1>3 DEF NavigationPages
<1>5. /\ m.threads = threads
      /\ m.active = k.active /\ m.hash = k.hash /\ m.count = k.count
      /\ m.selected = k.selected /\ m.last = k.last /\ m.pending = k.pending
      /\ m.ready = k.ready /\ m.crossed = k.crossed /\ m.copied = k.copied
  BY <1>3 DEF NavigationPages
<1> QED
  BY <1>2, <1>4, <1>5 DEF Ends

\* A step that follows one of the list's: threads are those of the page before.
LEMMA ShownAdvances ==
  ASSUME NEW n, NEW k, NEW m, NEW i, NEW pc, k.threads = n.threads, Advances(k, m, i, pc)
  PROVE  Advances(n, m, i, pc)
BY DEF Advances

\* The position from which a list is first shown is a number.
LEMMA FirstPosition ==
  ASSUME NEW n \in NavigationPages, NEW tab \in Lists
  PROVE  /\ IndexOf(n.hash, tab, Min({n.window[tab], Max({0, n.count[tab] - 1})})) \in Int
         /\ IndexOf(n.hash, tab, Min({n.last[tab], Max({0, n.count[tab] - 1})})) \in Int
         /\ IndexOf(n.hash, tab, n.last[tab]) \in Int
<1>1. /\ n.window[tab] \in Int /\ n.last[tab] \in Int /\ n.count[tab] - 1 \in Int
      /\ n.hash \in Addresses
  BY DEF NavigationPages
<1>2. n.hash.idx \in Int
  BY <1>1, AddressIs, PositionsAreInts
<1>3. Max({0, n.count[tab] - 1}) \in Int
  <2> DEFINE bottom == 0
             last   == n.count[tab] - 1
  <2>1. bottom \in Int /\ last \in Int
    BY <1>1
  <2> HIDE DEF bottom, last
  <2>2. Max({bottom, last}) \in Int
    BY <2>1, MinMaxAreInts
  <2> QED
    BY <2>2 DEF bottom, last
<1>4. /\ Min({n.window[tab], Max({0, n.count[tab] - 1})}) \in Int
      /\ Min({n.last[tab], Max({0, n.count[tab] - 1})}) \in Int
  <2> DEFINE top == Max({0, n.count[tab] - 1})
  <2>1. top \in Int
    BY <1>3
  <2> HIDE DEF top
  <2>2. Min({n.window[tab], top}) \in Int /\ Min({n.last[tab], top}) \in Int
    BY <1>1, <2>1, MinMaxAreInts
  <2> QED
    BY <2>2 DEF top
<1> QED
  BY <1>1, <1>2, <1>4 DEF IndexOf

\* The tab is found ready, or begins to be.
LEMMA TickKeeps ==
  ASSUME NavigationIInv, NEW i \in 1 .. Len(nav.threads), nav.threads[i].pc = "tick",
         initTabIfNeeded(i)
  PROVE  NavigationIInv'
<1> DEFINE tab == nav.threads[i].tab
<1>1. nav \in NavigationPages /\ InOrder(nav) /\ nav.threads[i].pc \in Begun
  BY DEF NavigationIInv, Begun
<1>2. tab \in Tabs
  <2>1. nav.threads[i] \in Threads
    BY <1>1 DEF NavigationPages
  <2> QED
    BY <2>1, ThreadIs
<1>3. {"restore", "messages", "form"} \subseteq Begun
  BY DEF Begun
<1>4. CASE tab \in nav.ready
  <2>1. nav' = [nav EXCEPT !.threads[i].pc = "restore"]
    BY <1>4 DEF initTabIfNeeded, Goto
  <2> QED
    BY <1>1, <1>3, <1>4, <2>1, GotoIs, QuietStepKeeps DEF NavigationIInv
<1>5. CASE tab \notin nav.ready /\ tab = "publishers"
  <2> DEFINE idx == IndexOf(nav.hash, "publishers",
                       Min({nav.window["publishers"], Max({0, nav.count["publishers"] - 1})}))
             k == Restore(nav, "publishers", idx)
  <2>1. nav' = [k EXCEPT !.threads[i].pc = "form"]
    BY <1>5 DEF initTabIfNeeded, Goto, initPublishersTab, Restore
  <2>2. "publishers" \in Lists /\ idx \in Int
    BY <1>1, FirstPosition DEF Lists
  <2> HIDE DEF idx
  <2>3. /\ Shows(nav, k, "publishers") /\ k.pending = nav.pending /\ k.count = nav.count
        /\ k.copied = nav.copied
    BY <1>1, <2>2, RestoreShows
  <2> HIDE DEF k
  <2>4. k \in NavigationPages /\ k.threads = nav.threads
    BY <2>3 DEF Shows
  <2>5. /\ nav' \in NavigationPages /\ Advances(k, nav', i, "form")
        /\ nav'.active = k.active /\ nav'.hash = k.hash /\ nav'.count = k.count
        /\ nav'.selected = k.selected /\ nav'.last = k.last /\ nav'.pending = k.pending
        /\ nav'.ready = k.ready /\ nav'.crossed = k.crossed /\ nav'.copied = k.copied
    BY <1>1, <1>3, <2>1, <2>4, GotoIs
  <2>6. Advances(nav, nav', i, "form")
    BY <2>4, <2>5, ShownAdvances
  <2> QED
    BY <1>1, <1>5, <2>2, <2>3, <2>5, <2>6, FirstShowKeeps DEF NavigationIInv
<1>6. CASE tab \notin nav.ready /\ tab = "consumers"
  <2>1. nav' = [nav EXCEPT !.threads[i].pc = "messages"]
    BY <1>6 DEF initTabIfNeeded, Goto
  <2> QED
    BY <1>1, <1>3, <1>6, <2>1, GotoIs, QuietStepKeeps DEF NavigationIInv
<1>7. CASE tab \notin nav.ready /\ tab = "config"
  <2>1. nav' = [nav EXCEPT !.threads[i].pc = "form"]
    BY <1>7 DEF initTabIfNeeded, Goto
  <2> QED
    BY <1>1, <1>3, <1>7, <2>1, GotoIs, QuietStepKeeps DEF NavigationIInv
<1> QED
  BY <1>2, <1>4, <1>5, <1>6, <1>7 DEF Tabs, Lists

\* The consumers are shown when their messages were read.
LEMMA MessagesKeep ==
  ASSUME NavigationIInv, NEW i \in 1 .. Len(nav.threads), nav.threads[i].pc = "messages",
         Goto(i, "form", initConsumersTab(nav))
  PROVE  NavigationIInv'
<1>1. nav \in NavigationPages /\ InOrder(nav) /\ nav.threads[i].pc \in Begun /\ "form" \in Begun
  BY DEF NavigationIInv, Begun
<1> DEFINE idx == IndexOf(nav.hash, "consumers",
                     Min({nav.last["consumers"], Max({0, nav.count["consumers"] - 1})}))
           k == Restore(nav, "consumers", idx)
<1>2. nav' = [k EXCEPT !.threads[i].pc = "form"]
  BY DEF Goto, initConsumersTab, Restore
<1>3. "consumers" \in Lists /\ idx \in Int
  BY <1>1, FirstPosition DEF Lists
<1> HIDE DEF idx
<1>4. /\ Shows(nav, k, "consumers") /\ k.pending = nav.pending /\ k.count = nav.count
      /\ k.copied = nav.copied
  BY <1>1, <1>3, RestoreShows
<1> HIDE DEF k
<1>5. k \in NavigationPages /\ k.threads = nav.threads
  BY <1>4 DEF Shows
<1>6. /\ nav' \in NavigationPages /\ Advances(k, nav', i, "form")
      /\ nav'.active = k.active /\ nav'.hash = k.hash /\ nav'.count = k.count
      /\ nav'.selected = k.selected /\ nav'.last = k.last /\ nav'.pending = k.pending
      /\ nav'.ready = k.ready /\ nav'.crossed = k.crossed /\ nav'.copied = k.copied
  BY <1>1, <1>2, <1>5, GotoIs
<1>7. Advances(nav, nav', i, "form")
  BY <1>5, <1>6, ShownAdvances
<1>8. nav.threads[i].tab = "consumers"
  BY <1>1 DEF InOrder, RestoredAreReady
<1> QED
  BY <1>1, <1>3, <1>4, <1>6, <1>7, <1>8, FirstShowKeeps DEF NavigationIInv

\* The tab is ready.
LEMMA FormKeeps ==
  ASSUME NavigationIInv, NEW i \in 1 .. Len(nav.threads), nav.threads[i].pc = "form",
         Goto(i, "restore", [nav EXCEPT !.ready = @ \cup {nav.threads[i].tab}])
  PROVE  NavigationIInv'
<1> DEFINE k == [nav EXCEPT !.ready = nav.ready \cup {nav.threads[i].tab}]
<1>1. nav \in NavigationPages /\ InOrder(nav) /\ nav.threads[i].pc \in Begun /\ "restore" \in Begun
  BY DEF NavigationIInv, Begun
<1>2. nav.threads[i].tab \in Tabs
  <2>1. nav.threads[i] \in Threads
    BY <1>1 DEF NavigationPages
  <2> QED
    BY <2>1, ThreadIs
<1>3. nav' = [k EXCEPT !.threads[i].pc = "restore"]
  BY DEF Goto
<1>4. k \in NavigationPages
  BY <1>1, <1>2 DEF NavigationPages
<1>5. /\ k.threads = nav.threads /\ k.ready = nav.ready \cup {nav.threads[i].tab}
      /\ k.active = nav.active /\ k.hash = nav.hash /\ k.count = nav.count
      /\ k.selected = nav.selected /\ k.last = nav.last /\ k.pending = nav.pending
      /\ k.crossed = nav.crossed /\ k.copied = nav.copied
  BY <1>1 DEF NavigationPages
<1> HIDE DEF k
<1>6. /\ nav' \in NavigationPages /\ Advances(k, nav', i, "restore")
      /\ nav'.active = k.active /\ nav'.hash = k.hash /\ nav'.count = k.count
      /\ nav'.selected = k.selected /\ nav'.last = k.last /\ nav'.pending = k.pending
      /\ nav'.ready = k.ready /\ nav'.crossed = k.crossed /\ nav'.copied = k.copied
  BY <1>1, <1>3, <1>4, <1>5, GotoIs
<1>7. Advances(nav, nav', i, "restore")
  BY <1>5, <1>6, ShownAdvances
<1> QED
  BY <1>1, <1>5, <1>6, <1>7, QuietStepKeeps DEF NavigationIInv

\* The tab is restored: a list, with what is pending for it.
LEMMA RestoreStepKeeps ==
  ASSUME NavigationIInv, NEW i \in 1 .. Len(nav.threads), nav.threads[i].pc = "restore",
         Goto(i, "end", restoreTabState(nav, nav.threads[i].tab))
  PROVE  NavigationIInv'
<1> DEFINE tab == nav.threads[i].tab
<1>1. nav \in NavigationPages /\ InOrder(nav) /\ nav.threads[i].pc \in Begun
  BY DEF NavigationIInv, Begun
<1>2. CASE tab \notin Lists
  <2>1. nav' = [nav EXCEPT !.threads[i].pc = "end"]
    BY <1>2 DEF Goto, restoreTabState
  <2>2. tab \in nav.ready
    BY <1>1 DEF InOrder, RestoredAreReady
  <2>3. /\ nav' \in NavigationPages /\ Advances(nav, nav', i, "end")
        /\ nav'.active = nav.active /\ nav'.hash = nav.hash /\ nav'.count = nav.count
        /\ nav'.selected = nav.selected /\ nav'.last = nav.last /\ nav'.pending = nav.pending
        /\ nav'.ready = nav.ready /\ nav'.crossed = nav.crossed /\ nav'.copied = nav.copied
    BY <1>1, <2>1, GotoIs
  <2>4. InOrder(nav')
    BY <1>1, <1>2, <2>2, <2>3, QuietStepKeeps
  <2> QED
    BY <2>3, <2>4 DEF NavigationIInv
<1>3. CASE tab \in Lists
  <2> DEFINE none == [t \in Lists |-> Unset]
             l    == [nav EXCEPT !.pending = none]
             idx  == IF nav.pending[tab] # Unset THEN nav.pending[tab]
                     ELSE IndexOf(nav.hash, tab, nav.last[tab])
             k    == Restore(l, tab, idx)
  <2>1. nav' = [k EXCEPT !.threads[i].pc = "end"]
    BY <1>3 DEF Goto, restoreTabState
  <2>2. none \in [Lists -> Positions] /\ \A t \in Lists : none[t] = Unset
    BY DEF Positions
  <2> HIDE DEF none
  <2>3. l \in NavigationPages
    BY <1>1, <2>2 DEF NavigationPages
  <2>4. /\ l.pending = none /\ l.active = nav.active /\ l.hash = nav.hash /\ l.count = nav.count
        /\ l.selected = nav.selected /\ l.last = nav.last /\ l.threads = nav.threads
        /\ l.ready = nav.ready /\ l.crossed = nav.crossed /\ l.copied = nav.copied
    BY <1>1 DEF NavigationPages
  <2>5. /\ nav.pending[tab] \in Positions /\ nav.copied[tab] \in Positions
        /\ nav.count[tab] \in Nat
    BY <1>1, <1>3 DEF NavigationPages
  <2>6. idx \in Int
    <3>1. nav.pending[tab] \in Int /\ IndexOf(nav.hash, tab, nav.last[tab]) \in Int
      BY <1>1, <1>3, <2>5, FirstPosition, PositionsAreInts
    <3> QED
      BY <3>1
  <2>7. ASSUME nav.copied[tab] # Unset
        PROVE  idx = nav.copied[tab] /\ idx \in 0 .. nav.count[tab] - 1
    <3>1. /\ nav.copied[tab] < nav.count[tab]
          /\ nav.pending[tab] = nav.copied[tab] \/ CopyIsThere(nav, tab)
      BY <1>1, <1>3, <2>7 DEF InOrder, CopyIsKept
    <3>2. idx = nav.copied[tab]
      BY <2>7, <3>1 DEF CopyIsThere, IndexOf
    <3>3. nav.copied[tab] \in Nat
      BY <2>5, <2>7 DEF Positions
    <3> QED
      BY <2>5, <3>1, <3>2, <3>3
  <2> HIDE DEF l, idx
  <2>8. /\ Shows(l, k, tab) /\ k.pending = none /\ k.count = l.count /\ k.copied = l.copied
        /\ idx \in 0 .. l.count[tab] - 1 => k.selected[tab] = idx
    BY <1>3, <2>3, <2>4, <2>6, RestoreShows
  <2> HIDE DEF k
  <2>9. Shows(nav, k, tab) /\ k \in NavigationPages /\ k.threads = nav.threads
    BY <2>4, <2>8 DEF Shows
  <2>10. nav.copied[tab] # Unset => k.selected[tab] = nav.copied[tab]
    BY <2>4, <2>7, <2>8
  <2>11. /\ nav' \in NavigationPages /\ Advances(k, nav', i, "end")
         /\ nav'.active = k.active /\ nav'.hash = k.hash /\ nav'.count = k.count
         /\ nav'.selected = k.selected /\ nav'.last = k.last /\ nav'.pending = k.pending
         /\ nav'.ready = k.ready /\ nav'.crossed = k.crossed /\ nav'.copied = k.copied
    BY <1>1, <2>1, <2>9, GotoIs
  <2>12. Advances(nav, nav', i, "end")
    BY <2>9, <2>11, ShownAdvances
  <2> QED
    BY <1>1, <1>3, <2>2, <2>4, <2>8, <2>9, <2>10, <2>11, <2>12, RestoreKeeps DEF NavigationIInv
<1> QED
  BY <1>2, <1>3

\* The switch is done.
LEMMA EndStepKeeps ==
  ASSUME NavigationIInv, NEW i \in 1 .. Len(nav.threads), nav.threads[i].pc = "end",
         LET tab == nav.threads[i].tab
         IN  Ended(i, [nav EXCEPT !.hash =
                         nextHashForTab(@, tab, rememberedIndexForTab(nav, tab))])
  PROVE  NavigationIInv'
<1> DEFINE tab  == nav.threads[i].tab
           hash == nextHashForTab(nav.hash, tab, rememberedIndexForTab(nav, tab))
           k    == [nav EXCEPT !.hash = hash]
<1>1. nav \in NavigationPages /\ InOrder(nav)
  BY DEF NavigationIInv
<1>2. nav.hash \in Addresses /\ nav.last \in [Lists -> Nat] /\ tab \in Tabs
  <2>1. nav.threads[i] \in Threads
    BY <1>1 DEF NavigationPages
  <2> QED
    BY <1>1, <2>1, ThreadIs DEF NavigationPages
<1>3. /\ hash \in Addresses /\ hash.tab = tab
      /\ nav.hash.tab = tab => hash = nav.hash
      /\ nav.hash.tab # tab /\ tab \in Lists => hash.idx = nav.last[tab]
  <2>1. CASE nav.hash.tab = tab
    BY <1>2, <2>1 DEF nextHashForTab
  <2>2. CASE nav.hash.tab # tab /\ tab \in Lists
    <3>1. hash = Hash(tab, nav.last[tab]) /\ nav.last[tab] \in Positions
      BY <1>2, <2>2 DEF nextHashForTab, rememberedIndexForTab, Positions
    <3> QED
      BY <2>2, <3>1, HashIs
  <2>3. CASE nav.hash.tab # tab /\ tab \notin Lists
    <3>1. hash = Hash("config", Unset) /\ tab = "config"
      BY <1>2, <2>3 DEF nextHashForTab, rememberedIndexForTab, Tabs
    <3>2. Hash("config", Unset).tab = "config"
      BY DEF Hash
    <3> QED
      BY <2>3, <3>1, <3>2 DEF Addresses
  <2> QED
    BY <2>1, <2>2, <2>3
<1>4. nav' = [k EXCEPT !.threads = RemoveAt(@, i)]
  BY DEF Ended
<1> HIDE DEF hash
<1>5. k \in NavigationPages
  BY <1>1, <1>3 DEF NavigationPages
<1>6. /\ k.threads = nav.threads /\ k.hash = hash
      /\ k.active = nav.active /\ k.count = nav.count
      /\ k.selected = nav.selected /\ k.last = nav.last /\ k.pending = nav.pending
      /\ k.ready = nav.ready /\ k.crossed = nav.crossed /\ k.copied = nav.copied
  BY <1>1 DEF NavigationPages
<1> HIDE DEF k
<1>7. /\ nav' \in NavigationPages /\ Ends(k, nav', i)
      /\ nav'.active = k.active /\ nav'.hash = k.hash /\ nav'.count = k.count
      /\ nav'.selected = k.selected /\ nav'.last = k.last /\ nav'.pending = k.pending
      /\ nav'.ready = k.ready /\ nav'.crossed = k.crossed /\ nav'.copied = k.copied
  BY <1>4, <1>5, <1>6, EndedIs
<1>8. Ends(nav, nav', i)
  BY <1>6, <1>7, EndsOfSame
<1> QED
  BY <1>1, <1>3, <1>6, <1>7, <1>8, EndKeeps DEF NavigationIInv

\* A deletion was saved.
LEMMA DeletionDoneKeeps ==
  ASSUME NavigationIInv, NEW i \in 1 .. Len(nav.threads), deletionDone(i)
  PROVE  NavigationIInv'
<1> DEFINE k == Deleted(nav, "publishers", nav.threads[i].at)
<1>1. nav \in NavigationPages /\ InOrder(nav) /\ nav.threads[i].pc = "saving"
  BY DEF NavigationIInv, deletionDone
<1>2. nav.threads[i].at \in Nat /\ "publishers" \in Lists
  <2>1. nav.threads[i] \in Threads
    BY <1>1 DEF NavigationPages
  <2> QED
    BY <1>1, <2>1, ThreadIs DEF Lists
<1>3. nav' = [k EXCEPT !.threads = RemoveAt(@, i)]
  BY DEF deletionDone, Ended
<1>4. /\ Shows(nav, k, "publishers") /\ k.pending = nav.pending /\ k.copied = nav.copied
      /\ k.count = nav.count
  BY <1>1, <1>2, DeletedShows
<1> HIDE DEF k
<1>5. k \in NavigationPages /\ k.threads = nav.threads
  BY <1>4 DEF Shows
<1>6. /\ nav' \in NavigationPages /\ Ends(k, nav', i)
      /\ nav'.active = k.active /\ nav'.hash = k.hash /\ nav'.count = k.count
      /\ nav'.selected = k.selected /\ nav'.last = k.last /\ nav'.pending = k.pending
      /\ nav'.ready = k.ready /\ nav'.crossed = k.crossed /\ nav'.copied = k.copied
  BY <1>3, <1>5, EndedIs
<1>7. Ends(nav, nav', i)
  BY <1>5, <1>6, EndsOfSame
<1> QED
  BY <1>1, <1>4, <1>6, <1>7, SavedKeeps DEF NavigationIInv

-----------------------------------------------------------------------------
(* What the user does.                                                     *)

\* A switch, after which the address may be another and a copy may be pending.
LEMMA SwitchKeeps ==
  ASSUME NEW n \in NavigationPages, InOrder(n), NEW k \in NavigationPages, NEW tab \in Tabs,
         k.threads = n.threads, k.ready = n.ready, k.selected = n.selected, k.last = n.last,
         \A t \in Lists : k.pending[t] # Unset => n.pending[t] # Unset \/ t = tab,
         \A t \in Lists : k.copied[t] # Unset =>
           \/ t = tab /\ k.pending[t] = k.copied[t] /\ k.copied[t] < k.count[t]
           \/ /\ k.copied[t] = n.copied[t] /\ k.count[t] = n.count[t]
              /\ k.pending[t] = n.pending[t]
              /\ k.hash.tab = t => k.hash.idx = Unset \/ k.hash = n.hash
  PROVE  InOrder(switchMain(k, tab)) /\ switchMain(k, tab) \in NavigationPages
<1> DEFINE m == switchMain(k, tab)
<1>1. /\ m \in NavigationPages
      /\ m.active = tab
      /\ m.threads = Append(n.threads, Switch(tab))
      /\ m.crossed <=> n.threads # <<>>
      /\ n.threads = <<>> => m.copied = k.copied
      /\ n.threads # <<>> => \A t \in Lists : m.copied[t] = Unset
      /\ \A t \in Lists : m.last[t] =
           IF k.hash.tab = t /\ k.hash.idx # Unset THEN k.hash.idx ELSE n.last[t]
      /\ m.hash = k.hash /\ m.count = k.count
      /\ m.selected = n.selected /\ m.pending = k.pending
      /\ m.ready = n.ready
  BY SwitchIs
<1> HIDE DEF m
<1>2. Switch(tab) \in Threads /\ Switch(tab).pc = "tick" /\ Switch(tab).tab = tab
  BY DEF Switch, Threads
<1>3. ASSUME NEW t \in Lists, m.copied[t] # Unset
      PROVE  /\ n.threads = <<>> /\ m.copied[t] < m.count[t]
             /\ (m.pending[t] = m.copied[t] /\ tab = t) \/ CopyIsThere(m, t)
  <2>1. n.threads = <<>> /\ m.copied[t] = k.copied[t]
    BY <1>1, <1>3
  <2>2. CASE t = tab /\ k.pending[t] = k.copied[t] /\ k.copied[t] < k.count[t]
    BY <1>1, <2>1, <2>2
  <2>3. CASE /\ k.copied[t] = n.copied[t] /\ k.count[t] = n.count[t]
             /\ k.pending[t] = n.pending[t]
             /\ k.hash.tab = t => k.hash.idx = Unset \/ k.hash = n.hash
    <3>1. n.copied[t] # Unset
      BY <1>3, <2>1, <2>3
    <3>2. CopyIsThere(n, t)
      <4>1. ~ Waits(n, t)
        BY <2>1 DEF Waits
      <4> QED
        BY <3>1, <4>1 DEF InOrder, CopyIsKept
    <3>3. m.hash.tab = t => m.hash.idx \in {Unset, n.copied[t]}
      BY <1>1, <2>3, <3>2 DEF CopyIsThere
    <3>4. m.last[t] \in {n.last[t], n.copied[t]}
      BY <1>1, <3>3
    <3>5. n.copied[t] < n.count[t] /\ CopyIsThere(m, t)
      <4>1. /\ m.copied[t] = n.copied[t] /\ m.pending[t] = n.pending[t]
            /\ m.selected[t] = n.selected[t] /\ m.ready = n.ready
            /\ m.threads = Append(n.threads, Switch(tab))
        BY <1>1, <2>1, <2>3
      <4>2. Switch(tab).tab = t => Switch(tab).pc = "tick"
        BY <1>2
      <4> QED
        BY <2>1, <3>1, <3>3, <3>4, <4>1, <4>2, CopyStays
    <3> QED
      BY <1>1, <2>1, <2>3, <3>5
  <2> QED
    BY <1>3, <2>1, <2>2, <2>3
<1>4. InOrder(m)
  BY <1>1, <1>2, <1>3, BeginKeeps
<1> QED
  BY <1>1, <1>4 DEF m

\* The user moves on to a page that is in order.
LEMMA MovesTo ==
  ASSUME NavigationIInv, NEW n \in NavigationPages, InOrder(n), Moves(n)
  PROVE  NavigationIInv'
<1>1. nav.moves < MaxMoves /\ nav' = [n EXCEPT !.moves = nav.moves + 1]
  BY DEF Moves
<1>2. nav.moves + 1 \in 0 .. MaxMoves
  <2>1. nav.moves \in 0 .. MaxMoves
    BY DEF NavigationIInv, NavigationPages
  <2> QED
    BY <1>1, <2>1, NavigationBounds
<1> DEFINE moves == nav.moves + 1
<1>3. nav' = [n EXCEPT !.moves = moves] /\ moves \in 0 .. MaxMoves
  BY <1>1, <1>2
<1> HIDE DEF moves
<1>4. nav' \in NavigationPages
  BY <1>3 DEF NavigationPages
<1>5. /\ nav'.active = n.active /\ nav'.hash = n.hash /\ nav'.count = n.count
      /\ nav'.selected = n.selected /\ nav'.last = n.last /\ nav'.pending = n.pending
      /\ nav'.ready = n.ready /\ nav'.threads = n.threads /\ nav'.crossed = n.crossed
      /\ nav'.copied = n.copied
  BY <1>3 DEF NavigationPages
<1>6. InOrder(nav')
  BY <1>5, MovesKeep
<1> QED
  BY <1>4, <1>6 DEF NavigationIInv

\* A tab is clicked.
LEMMA ClickKeeps ==
  ASSUME NavigationIInv, NEW tab \in Tabs, clickTab(tab)
  PROVE  NavigationIInv'
<1>1. nav \in NavigationPages /\ InOrder(nav) /\ Moves(switchMain(nav, tab))
  BY DEF NavigationIInv, clickTab
<1>2. InOrder(switchMain(nav, tab)) /\ switchMain(nav, tab) \in NavigationPages
  BY <1>1, SwitchKeeps
<1> QED
  BY <1>1, <1>2, MovesTo

\* What the user leaves is no copy.
LEMMA LeaveIs ==
  ASSUME NEW n \in NavigationPages, NEW tab \in Lists
  PROVE  /\ Leave(n, tab) \in NavigationPages
         /\ Leave(n, tab).copied[tab] = Unset
         /\ \A t \in Lists \ {tab} : Leave(n, tab).copied[t] = n.copied[t]
         /\ Leave(n, tab).active = n.active /\ Leave(n, tab).hash = n.hash
         /\ Leave(n, tab).count = n.count /\ Leave(n, tab).selected = n.selected
         /\ Leave(n, tab).last = n.last /\ Leave(n, tab).pending = n.pending
         /\ Leave(n, tab).ready = n.ready /\ Leave(n, tab).threads = n.threads
         /\ Leave(n, tab).crossed = n.crossed /\ Leave(n, tab).moves = n.moves
<1> DEFINE copied == [n.copied EXCEPT ![tab] = Unset]
           m == Leave(n, tab)
<1>1. m = [n EXCEPT !.copied = copied]
  BY DEF Leave, NavigationPages
<1>2. /\ copied \in [Lists -> Positions] /\ copied[tab] = Unset
      /\ \A t \in Lists \ {tab} : copied[t] = n.copied[t]
  BY DEF NavigationPages, Positions
<1> HIDE DEF copied, m
<1>3. m \in NavigationPages
  BY <1>1, <1>2 DEF NavigationPages
<1>4. /\ m.copied = copied /\ m.active = n.active /\ m.hash = n.hash
      /\ m.count = n.count /\ m.selected = n.selected
      /\ m.last = n.last /\ m.pending = n.pending
      /\ m.ready = n.ready /\ m.threads = n.threads
      /\ m.crossed = n.crossed /\ m.moves = n.moves
  BY <1>1 DEF NavigationPages
<1> QED
  BY <1>2, <1>3, <1>4 DEF m

\* A list of another length.
LEMMA CountIs ==
  ASSUME NEW n \in NavigationPages, NEW tab \in Lists, NEW count \in Nat, NEW m,
         m = [n EXCEPT !.count[tab] = count]
  PROVE  /\ m \in NavigationPages /\ m.count[tab] = count
         /\ \A t \in Lists \ {tab} : m.count[t] = n.count[t]
         /\ m.active = n.active /\ m.hash = n.hash /\ m.selected = n.selected
         /\ m.last = n.last /\ m.pending = n.pending /\ m.ready = n.ready
         /\ m.threads = n.threads /\ m.crossed = n.crossed /\ m.copied = n.copied
         /\ m.moves = n.moves
<1> DEFINE counts == [n.count EXCEPT ![tab] = count]
<1>1. m = [n EXCEPT !.count = counts]
  BY DEF NavigationPages
<1>2. /\ counts \in [Lists -> Nat] /\ counts[tab] = count
      /\ \A t \in Lists \ {tab} : counts[t] = n.count[t]
  BY DEF NavigationPages
<1> HIDE DEF counts
<1>3. m \in NavigationPages
  BY <1>1, <1>2 DEF NavigationPages
<1>4. /\ m.count = counts /\ m.copied = n.copied /\ m.active = n.active /\ m.hash = n.hash
      /\ m.selected = n.selected
      /\ m.last = n.last /\ m.pending = n.pending
      /\ m.ready = n.ready /\ m.threads = n.threads
      /\ m.crossed = n.crossed /\ m.moves = n.moves
  BY <1>1 DEF NavigationPages
<1> QED
  BY <1>2, <1>3, <1>4

\* The address is edited: nothing else, or a switch to its tab.
LEMMA HashChangeKeeps ==
  ASSUME NavigationIInv, NEW hash \in Hashes, onHashChange(hash)
  PROVE  NavigationIInv'
<1> DEFINE n == [nav EXCEPT !.hash = hash]
<1>1. nav \in NavigationPages /\ InOrder(nav)
  BY DEF NavigationIInv
<1>2. hash \in Addresses
  BY HashesAreAddresses
<1>3. /\ hash.tab \in Tabs \cup {""}
      /\ hash.idx # Unset => hash.tab \in Lists
  BY <1>2, AddressIs
<1>4. n \in NavigationPages
  BY <1>1, <1>2 DEF NavigationPages
<1>5. /\ n.hash = hash /\ n.active = nav.active /\ n.count = nav.count
      /\ n.selected = nav.selected /\ n.last = nav.last /\ n.pending = nav.pending
      /\ n.ready = nav.ready /\ n.threads = nav.threads /\ n.crossed = nav.crossed
      /\ n.copied = nav.copied
  BY <1>1 DEF NavigationPages
<1>6. CASE hash.tab = ""
  <2>1. Moves(n)
    BY <1>6 DEF onHashChange, resolveTabFromHash
  <2> HIDE DEF n
  <2>2. OneAtATime(n)
    BY <1>1, <1>5 DEF InOrder, OneAtATime
  <2>3. PlaceIsKept(n)
    <3>1. "" \notin Tabs /\ nav.active \in Tabs
      BY <1>1 DEF NavigationPages, Tabs, Lists
    <3> QED
      BY <1>1, <1>5, <1>6, <3>1 DEF InOrder, PlaceIsKept, Placed, Addressed
  <2>4. RestoredAreReady(n) /\ PendingIsOpened(n)
    BY <1>1, <1>5 DEF InOrder, RestoredAreReady, PendingIsOpened, Waits
  <2>5. CopyIsKept(n)
    <3>1. "" \notin Lists
      BY DEF Lists
    <3>2. \A t \in Lists : n.hash.tab # t
      BY <1>5, <1>6, <3>1
    <3>3. \A t \in Lists : /\ Waits(nav, t) => Waits(n, t)
                           /\ CopyIsThere(nav, t) => CopyIsThere(n, t)
      BY <1>5, <3>2 DEF CopyIsThere, Waits
    <3> QED
      BY <1>1, <1>5, <3>3 DEF InOrder, CopyIsKept
  <2>6. InOrder(n)
    BY <2>2, <2>3, <2>4, <2>5 DEF InOrder
  <2> QED
    BY <1>4, <2>1, <2>6, MovesTo
<1>7. CASE hash.tab # "" /\ hash.idx = Unset
  <2>1. Moves(switchMain(n, hash.tab)) /\ hash.tab \in Tabs
    BY <1>3, <1>7 DEF onHashChange, resolveTabFromHash
  <2> HIDE DEF n
  <2>2. InOrder(switchMain(n, hash.tab)) /\ switchMain(n, hash.tab) \in NavigationPages
    BY <1>1, <1>4, <1>5, <1>7, <2>1, SwitchKeeps
  <2> QED
    BY <2>1, <2>2, MovesTo
<1>8. CASE hash.tab # "" /\ hash.idx # Unset
  <2> DEFINE k == Leave(n, hash.tab)
  <2>1. Moves(switchMain(k, hash.tab)) /\ hash.tab \in Lists /\ hash.tab \in Tabs
    BY <1>3, <1>8 DEF onHashChange, resolveTabFromHash
  <2> HIDE DEF n
  <2>2. /\ k \in NavigationPages /\ k.copied[hash.tab] = Unset
        /\ \A t \in Lists \ {hash.tab} : k.copied[t] = n.copied[t]
        /\ k.hash = n.hash /\ k.count = n.count /\ k.selected = n.selected
        /\ k.last = n.last /\ k.pending = n.pending
        /\ k.ready = n.ready /\ k.threads = n.threads
    BY <1>4, <2>1, LeaveIs
  <2> HIDE DEF k
  <2>3. InOrder(switchMain(k, hash.tab)) /\ switchMain(k, hash.tab) \in NavigationPages
    BY <1>1, <1>5, <2>1, <2>2, SwitchKeeps
  <2> QED
    BY <2>1, <2>3, MovesTo
<1> QED
  BY <1>6, <1>7, <1>8

\* An entry of the list that is shown is opened, and what was a copy in it is left.
LEMMA OpenKeeps ==
  ASSUME NavigationIInv, NEW tab \in Lists, NEW i \in Nat, nav.active = tab,
         Moves(Leave(Restore(nav, tab, i), tab))
  PROVE  NavigationIInv'
<1> DEFINE k == Restore(nav, tab, i)
           m == Leave(k, tab)
<1>1. nav \in NavigationPages /\ InOrder(nav)
  BY DEF NavigationIInv
<1>2. Shows(nav, k, tab) /\ k.pending = nav.pending
  BY <1>1, RestoreShows
<1> HIDE DEF k
<1>3. k \in NavigationPages
  BY <1>2 DEF Shows
<1>4. /\ m \in NavigationPages /\ m.copied[tab] = Unset
      /\ \A t \in Lists \ {tab} : m.copied[t] = k.copied[t]
      /\ m.active = k.active /\ m.hash = k.hash /\ m.count = k.count /\ m.selected = k.selected
      /\ m.last = k.last /\ m.pending = k.pending /\ m.ready = k.ready
      /\ m.threads = k.threads /\ m.crossed = k.crossed
  BY <1>3, LeaveIs
<1>5. Moves(m)
  BY DEF k
<1> HIDE DEF m
<1>6. Shows(nav, m, tab)
  BY <1>2, <1>4 DEF Shows
<1>7. InOrder(m)
  BY <1>1, <1>2, <1>4, <1>6, UserStays
<1> QED
  BY <1>4, <1>5, <1>7, MovesTo

\* A new entry is shown.
LEMMA AddKeeps ==
  ASSUME NavigationIInv, NEW tab \in Lists, addEntry(tab)
  PROVE  NavigationIInv'
<1> DEFINE g == Grown(nav, tab)
           k == Restore(g, tab, nav.count[tab])
           m == Leave(k, tab)
<1>1. nav \in NavigationPages /\ InOrder(nav) /\ nav.active = tab
  BY DEF NavigationIInv, addEntry, TabShown
<1>2. nav.count[tab] \in Nat /\ nav.count[tab] + 1 \in Nat
  BY <1>1 DEF NavigationPages
<1>3. g = [nav EXCEPT !.count[tab] = nav.count[tab] + 1]
  BY <1>1 DEF Grown, NavigationPages
<1> HIDE DEF g
<1>4. /\ g \in NavigationPages /\ \A t \in Lists \ {tab} : g.count[t] = nav.count[t]
      /\ g.active = nav.active /\ g.hash = nav.hash /\ g.selected = nav.selected
      /\ g.last = nav.last /\ g.pending = nav.pending /\ g.ready = nav.ready
      /\ g.threads = nav.threads /\ g.crossed = nav.crossed /\ g.copied = nav.copied
  BY <1>1, <1>2, <1>3, CountIs
<1>5. Shows(g, k, tab) /\ k.pending = g.pending
  BY <1>2, <1>4, RestoreShows
<1>6. Moves(m)
  BY DEF addEntry, g
<1> HIDE DEF k
<1>7. k \in NavigationPages
  BY <1>5 DEF Shows
<1>8. /\ m \in NavigationPages /\ m.copied[tab] = Unset
      /\ \A t \in Lists \ {tab} : m.copied[t] = k.copied[t]
      /\ m.active = k.active /\ m.hash = k.hash /\ m.count = k.count /\ m.selected = k.selected
      /\ m.last = k.last /\ m.pending = k.pending /\ m.ready = k.ready
      /\ m.threads = k.threads /\ m.crossed = k.crossed
  BY <1>7, LeaveIs
<1> HIDE DEF m
<1>9. Shows(nav, m, tab)
  BY <1>4, <1>5, <1>8 DEF Shows
<1>10. InOrder(m)
  BY <1>1, <1>4, <1>5, <1>8, <1>9, UserStays
<1> QED
  BY <1>6, <1>8, <1>10, MovesTo

\* A publisher is opened from the list.
LEMMA OpenPublisherKeeps ==
  ASSUME NavigationIInv, NEW i \in Nat, openPublisher(i)
  PROVE  NavigationIInv'
<1>1. "publishers" \in Lists /\ nav.active = "publishers"
  BY DEF openPublisher, TabShown, Lists
<1>2. Moves(Leave(Restore(nav, "publishers", i), "publishers"))
  BY DEF openPublisher, Restore
<1> QED
  BY <1>1, <1>2, OpenKeeps

\* A consumer is opened from the list.
LEMMA OpenConsumerKeeps ==
  ASSUME NavigationIInv, NEW i \in Nat, openConsumer(i)
  PROVE  NavigationIInv'
<1>1. "consumers" \in Lists /\ nav.active = "consumers"
  BY DEF openConsumer, TabShown, Lists
<1>2. Moves(Leave(Restore(nav, "consumers", i), "consumers"))
  BY DEF openConsumer, Restore
<1> QED
  BY <1>1, <1>2, OpenKeeps

\* A copy is pending for the list that its switch will show.
LEMMA CopyToKeeps ==
  ASSUME NavigationIInv, NEW tab \in Lists, CopyTo(tab)
  PROVE  NavigationIInv'
<1> DEFINE at      == nav.count[tab]
           pending == [nav.pending EXCEPT ![tab] = at]
           copied  == [nav.copied EXCEPT ![tab] = at]
           l       == [nav EXCEPT !.pending = pending, !.copied = copied]
           k       == Grown(l, tab)
<1>1. nav \in NavigationPages /\ InOrder(nav) /\ tab \in Tabs
  BY DEF NavigationIInv, Tabs
<1>2. at \in Nat /\ at + 1 \in Nat /\ at < at + 1
  BY <1>1 DEF NavigationPages
<1>3. Moves(switchMain(k, tab))
  <2>1. l = [nav EXCEPT !.pending[tab] = nav.count[tab], !.copied[tab] = nav.count[tab]]
    BY <1>1 DEF NavigationPages
  <2> QED
    BY <2>1 DEF CopyTo
<1>4. /\ pending \in [Lists -> Positions] /\ pending[tab] = at
      /\ \A t \in Lists \ {tab} : pending[t] = nav.pending[t]
  BY <1>1, <1>2 DEF NavigationPages, Positions
<1>5. /\ copied \in [Lists -> Positions] /\ copied[tab] = at
      /\ \A t \in Lists \ {tab} : copied[t] = nav.copied[t]
  BY <1>1, <1>2 DEF NavigationPages, Positions
<1> HIDE DEF pending, copied
<1>6. l \in NavigationPages
  BY <1>1, <1>4, <1>5 DEF NavigationPages
<1>7. /\ l.pending = pending /\ l.copied = copied /\ l.count = nav.count
      /\ l.hash = nav.hash /\ l.selected = nav.selected /\ l.last = nav.last
      /\ l.ready = nav.ready /\ l.threads = nav.threads
  BY <1>1 DEF NavigationPages
<1> HIDE DEF l
<1>8. k = [l EXCEPT !.count[tab] = at + 1]
  BY <1>6, <1>7 DEF Grown, NavigationPages
<1> HIDE DEF k, at
<1>9. /\ k \in NavigationPages /\ k.count[tab] = at + 1
      /\ \A t \in Lists \ {tab} : k.count[t] = l.count[t]
      /\ k.hash = l.hash /\ k.selected = l.selected /\ k.last = l.last
      /\ k.pending = l.pending /\ k.ready = l.ready /\ k.threads = l.threads
      /\ k.copied = l.copied
  BY <1>2, <1>6, <1>8, CountIs
<1>10. \A t \in Lists : k.pending[t] # Unset => nav.pending[t] # Unset \/ t = tab
  BY <1>4, <1>7, <1>9
<1>11. \A t \in Lists : k.copied[t] # Unset =>
         \/ t = tab /\ k.pending[t] = k.copied[t] /\ k.copied[t] < k.count[t]
         \/ /\ k.copied[t] = nav.copied[t] /\ k.count[t] = nav.count[t]
            /\ k.pending[t] = nav.pending[t]
            /\ k.hash.tab = t => k.hash.idx = Unset \/ k.hash = nav.hash
  <2> TAKE t \in Lists
  <2>1. CASE t = tab
    BY <1>2, <1>4, <1>5, <1>7, <1>9, <2>1
  <2>2. CASE t # tab
    BY <1>4, <1>5, <1>7, <1>9, <2>2
  <2> QED
    BY <2>1, <2>2
<1>12. InOrder(switchMain(k, tab)) /\ switchMain(k, tab) \in NavigationPages
  BY <1>1, <1>7, <1>9, <1>10, <1>11, SwitchKeeps
<1> QED
  BY <1>3, <1>12, MovesTo

\* A list without the entry that is deleted.
LEMMA ShrunkIs ==
  ASSUME NEW n \in NavigationPages, NEW tab \in Lists, n.count[tab] # 0
  PROVE  /\ Shrunk(n, tab) \in NavigationPages /\ Shrunk(n, tab).copied[tab] = Unset
         /\ \A t \in Lists \ {tab} : /\ Shrunk(n, tab).count[t] = n.count[t]
                                     /\ Shrunk(n, tab).copied[t] = n.copied[t]
         /\ Shrunk(n, tab).active = n.active /\ Shrunk(n, tab).hash = n.hash
         /\ Shrunk(n, tab).selected = n.selected /\ Shrunk(n, tab).last = n.last
         /\ Shrunk(n, tab).pending = n.pending /\ Shrunk(n, tab).ready = n.ready
         /\ Shrunk(n, tab).threads = n.threads /\ Shrunk(n, tab).crossed = n.crossed
<1> DEFINE count == n.count[tab] - 1
           k == [n EXCEPT !.count[tab] = count]
           m == Leave(k, tab)
<1>1. count \in Nat
  BY DEF NavigationPages
<1>2. k = [n EXCEPT !.count[tab] = @ - 1]
  BY DEF NavigationPages
<1>3. m = Shrunk(n, tab)
  BY <1>2 DEF Shrunk
<1> HIDE DEF count
<1>4. /\ k \in NavigationPages /\ \A t \in Lists \ {tab} : k.count[t] = n.count[t]
      /\ k.active = n.active /\ k.hash = n.hash /\ k.selected = n.selected
      /\ k.last = n.last /\ k.pending = n.pending /\ k.ready = n.ready
      /\ k.threads = n.threads /\ k.crossed = n.crossed /\ k.copied = n.copied
  BY <1>1, CountIs
<1> HIDE DEF k
<1>5. /\ m \in NavigationPages /\ m.copied[tab] = Unset
      /\ \A t \in Lists \ {tab} : m.copied[t] = k.copied[t]
      /\ m.active = k.active /\ m.hash = k.hash /\ m.count = k.count /\ m.selected = k.selected
      /\ m.last = k.last /\ m.pending = k.pending /\ m.ready = k.ready
      /\ m.threads = k.threads /\ m.crossed = k.crossed
  BY <1>4, LeaveIs
<1> HIDE DEF m
<1> QED
  BY <1>3, <1>4, <1>5

\* What is current is an entry of the list.
LEMMA CurrentIs ==
  ASSUME NEW tab \in Lists, nav \in NavigationPages, Current(tab)
  PROVE  nav.active = tab /\ nav.selected[tab] \in Nat /\ nav.count[tab] # 0
<1>1. nav.count[tab] \in Nat /\ nav.selected[tab] \in 0 .. nav.count[tab] - 1
  BY DEF NavigationPages, Current
<1>2. nav.active = tab
  BY DEF Current, TabShown
<1> QED
  BY <1>1, <1>2

\* A consumer is deleted, and the next one is shown.
LEMMA DeleteConsumerKeeps ==
  ASSUME NavigationIInv, deleteCurrentConsumer
  PROVE  NavigationIInv'
<1> DEFINE at == nav.selected["consumers"]
           k  == Shrunk(nav, "consumers")
           m  == Deleted(k, "consumers", at)
<1>1. nav \in NavigationPages /\ InOrder(nav) /\ "consumers" \in Lists
  BY DEF NavigationIInv, Lists
<1>2. nav.active = "consumers" /\ at \in Nat /\ nav.count["consumers"] # 0
  BY <1>1, CurrentIs DEF deleteCurrentConsumer
<1>3. Moves(m)
  BY DEF deleteCurrentConsumer
<1>4. /\ k \in NavigationPages /\ k.copied["consumers"] = Unset
      /\ \A t \in Lists \ {"consumers"} : /\ k.count[t] = nav.count[t]
                                          /\ k.copied[t] = nav.copied[t]
      /\ k.active = nav.active /\ k.hash = nav.hash
      /\ k.selected = nav.selected /\ k.last = nav.last
      /\ k.pending = nav.pending /\ k.ready = nav.ready
      /\ k.threads = nav.threads /\ k.crossed = nav.crossed
  BY <1>1, <1>2, ShrunkIs
<1> HIDE DEF k, at
<1>5. Shows(k, m, "consumers") /\ m.pending = k.pending /\ m.copied = k.copied
  BY <1>1, <1>2, <1>4, DeletedShows
<1> HIDE DEF m
<1>6. Shows(nav, m, "consumers") /\ m \in NavigationPages
  BY <1>4, <1>5 DEF Shows
<1>7. InOrder(m)
  BY <1>1, <1>2, <1>4, <1>5, <1>6, UserStays
<1> QED
  BY <1>3, <1>6, <1>7, MovesTo

\* The thread of a deletion.
Saving(at) == [tab |-> "publishers", pc |-> "saving", at |-> at]

\* A thread begins.
LEMMA BeginIs ==
  ASSUME NEW n \in NavigationPages, NEW th \in Threads
  PROVE  /\ Begin(n, th) \in NavigationPages
         /\ Begin(n, th).threads = Append(n.threads, th)
         /\ Begin(n, th).crossed <=> n.threads # <<>>
         /\ n.threads = <<>> => Begin(n, th).copied = n.copied
         /\ n.threads # <<>> => \A t \in Lists : Begin(n, th).copied[t] = Unset
         /\ Begin(n, th).active = n.active /\ Begin(n, th).hash = n.hash
         /\ Begin(n, th).count = n.count /\ Begin(n, th).selected = n.selected
         /\ Begin(n, th).last = n.last /\ Begin(n, th).pending = n.pending
         /\ Begin(n, th).ready = n.ready
<1> DEFINE threads == Append(n.threads, th)
           crossed == n.threads # <<>>
           copied  == IF n.threads = <<>> THEN n.copied ELSE [t \in Lists |-> Unset]
           m       == Begin(n, th)
<1>1. m = [n EXCEPT !.threads = threads, !.crossed = crossed, !.copied = copied]
  BY DEF Begin, NavigationPages
<1>2. n.copied \in [Lists -> Positions] /\ n.threads \in Seq(Threads)
  BY DEF NavigationPages
<1>3. threads \in Seq(Threads)
  BY <1>2
<1>4. copied \in [Lists -> Positions]
  BY <1>2 DEF Positions
<1>5. crossed \in BOOLEAN
  OBVIOUS
<1>6. /\ n.threads = <<>> => copied = n.copied
      /\ n.threads # <<>> => \A t \in Lists : copied[t] = Unset
      /\ crossed <=> n.threads # <<>>
  OBVIOUS
<1> HIDE DEF threads, crossed, copied, m
<1>7. m \in NavigationPages
  BY <1>1, <1>3, <1>4, <1>5 DEF NavigationPages
<1>8. /\ m.threads = threads /\ m.crossed = crossed /\ m.copied = copied
      /\ m.active = n.active /\ m.last = n.last /\ m.hash = n.hash /\ m.count = n.count
      /\ m.selected = n.selected /\ m.pending = n.pending /\ m.ready = n.ready
  BY <1>1 DEF NavigationPages
<1> QED
  BY <1>6, <1>7, <1>8 DEF m, threads

\* A publisher is deleted, and saved.
LEMMA DeletePublisherKeeps ==
  ASSUME NavigationIInv, deleteCurrentPublisher
  PROVE  NavigationIInv'
<1> DEFINE at == nav.selected["publishers"]
           k  == Shrunk(nav, "publishers")
           th == Saving(at)
           m  == Begin(k, th)
<1>1. nav \in NavigationPages /\ InOrder(nav) /\ "publishers" \in Lists
  BY DEF NavigationIInv, Lists
<1>2. nav.active = "publishers" /\ at \in Nat /\ nav.count["publishers"] # 0
  BY <1>1, CurrentIs DEF deleteCurrentPublisher
<1>3. Moves(m)
  BY DEF deleteCurrentPublisher, Saving
<1>4. /\ k \in NavigationPages /\ k.copied["publishers"] = Unset
      /\ \A t \in Lists \ {"publishers"} : /\ k.count[t] = nav.count[t]
                                           /\ k.copied[t] = nav.copied[t]
      /\ k.active = nav.active /\ k.hash = nav.hash
      /\ k.selected = nav.selected /\ k.last = nav.last
      /\ k.pending = nav.pending /\ k.ready = nav.ready
      /\ k.threads = nav.threads /\ k.crossed = nav.crossed
  BY <1>1, <1>2, ShrunkIs
<1> HIDE DEF k, at
<1>5. th \in Threads /\ th.pc = "saving" /\ th.tab = "publishers"
  BY <1>2 DEF Saving, Threads
<1> HIDE DEF th
<1>6. /\ m \in NavigationPages
      /\ m.threads = Append(k.threads, th)
      /\ m.crossed <=> k.threads # <<>>
      /\ k.threads = <<>> => m.copied = k.copied
      /\ k.threads # <<>> => \A t \in Lists : m.copied[t] = Unset
      /\ m.active = k.active /\ m.hash = k.hash /\ m.count = k.count
      /\ m.selected = k.selected /\ m.last = k.last /\ m.pending = k.pending
      /\ m.ready = k.ready
  BY <1>4, <1>5, BeginIs
<1> HIDE DEF m
<1>7. ASSUME NEW t \in Lists, m.copied[t] # Unset
      PROVE  nav.threads = <<>> /\ m.copied[t] < m.count[t] /\ CopyIsThere(m, t)
  <2>1. nav.threads = <<>> /\ m.copied = k.copied /\ t # "publishers"
    BY <1>4, <1>6, <1>7
  <2>2. /\ m.copied[t] = nav.copied[t] /\ m.count[t] = nav.count[t]
        /\ m.pending[t] = nav.pending[t] /\ m.selected[t] = nav.selected[t]
        /\ m.last[t] = nav.last[t] /\ m.hash = nav.hash /\ m.ready = nav.ready
        /\ m.threads = Append(nav.threads, th)
    BY <1>4, <1>6, <2>1
  <2>3. nav.copied[t] # Unset /\ CopyIsThere(nav, t)
    <3>1. ~ Waits(nav, t)
      BY <2>1 DEF Waits
    <3> QED
      BY <1>1, <1>7, <2>2, <3>1 DEF InOrder, CopyIsKept
  <2>4. m.hash.tab = t => m.hash.idx \in {Unset, nav.copied[t]}
    BY <2>2, <2>3 DEF CopyIsThere
  <2>5. nav.copied[t] < nav.count[t] /\ CopyIsThere(m, t)
    BY <1>1, <1>5, <2>1, <2>2, <2>3, <2>4, CopyStays
  <2> QED
    BY <2>1, <2>2, <2>5
<1>8. InOrder(m)
  BY <1>1, <1>2, <1>4, <1>5, <1>6, <1>7, BeginKeeps
<1> QED
  BY <1>3, <1>6, <1>8, MovesTo

-----------------------------------------------------------------------------
(* A page that is loaded.                                                  *)

\* The tab that a page is configured to begin with, or none.
FirstTabs == Tabs \cup {""}

\* The page before its first switch.
Loaded(count, hash) ==
  [active |-> "publishers", hash |-> hash, count |-> count,
   selected |-> [t \in Lists |-> Unset], last |-> [t \in Lists |-> 0],
   window |-> [t \in Lists |-> 0], pending |-> [t \in Lists |-> Unset],
   ready |-> {}, threads |-> <<>>, crossed |-> FALSE,
   copied |-> [t \in Lists |-> Unset], moves |-> 0]

\* A page that is loaded is in order, whatever its address and its entries are.
LEMMA LoadedIsInOrder ==
  ASSUME NEW count \in [Lists -> Nat], NEW hash \in Addresses, NEW configured \in FirstTabs
  PROVE  /\ bootstrapApp(count, hash, configured) \in NavigationPages
         /\ InOrder(bootstrapApp(count, hash, configured))
<1> DEFINE k   == Loaded(count, hash)
           n   == [k EXCEPT !.crossed = TRUE]
           tab == pickDefaultTab(hash, configured)
<1>1. tab \in Tabs
  <2>1. hash.tab \in Tabs \cup {""}
    BY AddressIs
  <2> QED
    BY <2>1 DEF pickDefaultTab, resolveTabFromHash, FirstTabs, Tabs, Lists
<1>2. bootstrapApp(count, hash, configured) = switchMain(k, tab)
  BY DEF bootstrapApp, Loaded
<1> HIDE DEF tab
<1> DEFINE none == [t \in Lists |-> Unset]
           zero == [t \in Lists |-> 0]
<1>3. /\ none \in [Lists -> Positions] /\ \A t \in Lists : none[t] = Unset
      /\ zero \in [Lists -> Nat]
  BY DEF Positions
<1>4. k = [active |-> "publishers", hash |-> hash, count |-> count, selected |-> none,
           last |-> zero, window |-> zero, pending |-> none, ready |-> {}, threads |-> <<>>,
           crossed |-> FALSE, copied |-> none, moves |-> 0]
  BY DEF Loaded
<1> HIDE DEF none, zero, k
<1>5. "publishers" \in Tabs /\ 0 \in 0 .. MaxMoves /\ <<>> \in Seq(Threads)
  <2>1. <<>> \in Seq(Threads)
    BY EmptySeq
  <2>2. 0 \in 0 .. MaxMoves
    BY NavigationBounds DEF NavigationBounds
  <2>3. "publishers" \in Tabs
    BY DEF Tabs, Lists
  <2> QED
    BY <2>1, <2>2, <2>3
<1>6. k \in NavigationPages
  BY <1>3, <1>4, <1>5 DEF NavigationPages
<1>7. n \in NavigationPages
  BY <1>6 DEF NavigationPages
<1>8. k.pending = none /\ k.copied = none /\ k.threads = <<>>
  BY <1>4
<1>9. /\ n.pending = none /\ n.copied = none /\ n.threads = <<>> /\ n.crossed
      /\ k.threads = n.threads /\ k.ready = n.ready /\ k.selected = n.selected
      /\ k.last = n.last
  BY <1>6, <1>8 DEF NavigationPages
<1> HIDE DEF n
<1>10. InOrder(n)
  <2>1. OneAtATime(n) /\ PlaceIsKept(n)
    BY <1>9 DEF OneAtATime, PlaceIsKept
  <2>2. RestoredAreReady(n)
    <3>1. Len(n.threads) = 0
      BY <1>9
    <3> QED
      BY <3>1 DEF RestoredAreReady
  <2>3. PendingIsOpened(n) /\ CopyIsKept(n)
    BY <1>3, <1>9 DEF PendingIsOpened, CopyIsKept
  <2> QED
    BY <2>1, <2>2, <2>3 DEF InOrder
<1>11. InOrder(switchMain(k, tab)) /\ switchMain(k, tab) \in NavigationPages
  BY <1>1, <1>3, <1>6, <1>7, <1>8, <1>9, <1>10, SwitchKeeps
<1> QED
  BY <1>2, <1>11

\* The first page is in order.
LEMMA NavigationInitInOrder == NavigationInit => NavigationIInv
<1> SUFFICES ASSUME NEW count \in [Lists -> {0, 2}], NEW hash \in Hashes,
                    NEW configured \in FirstTabs,
                    nav = bootstrapApp(count, hash, configured)
             PROVE  NavigationIInv
  BY DEF NavigationInit, FirstTabs
<1>1. count \in [Lists -> Nat] /\ hash \in Addresses
  <2>1. {0, 2} \subseteq Nat
    OBVIOUS
  <2> QED
    BY <2>1, HashesAreAddresses
<1> QED
  BY <1>1, LoadedIsInOrder DEF NavigationIInv

\* So is a page that is loaded again.
LEMMA NavigationReloadKeeps ==
  ASSUME NavigationIInv, NavigationReload
  PROVE  NavigationIInv'
<1>1. PICK count \in [Lists -> 0 .. MaxEntries], configured \in FirstTabs :
        Moves(bootstrapApp(count, nav.hash, configured))
  BY DEF NavigationReload, FirstTabs
<1>2. count \in [Lists -> Nat] /\ nav.hash \in Addresses
  <2>1. 0 .. MaxEntries \subseteq Nat
    BY NavigationBounds DEF NavigationBounds
  <2>2. nav.hash \in Addresses
    BY DEF NavigationIInv, NavigationPages
  <2> QED
    BY <2>1, <2>2
<1>3. /\ bootstrapApp(count, nav.hash, configured) \in NavigationPages
      /\ InOrder(bootstrapApp(count, nav.hash, configured))
  BY <1>2, LoadedIsInOrder
<1> QED
  BY <1>1, <1>3, MovesTo

-----------------------------------------------------------------------------
(* Every step.                                                             *)

\* A switch goes on.
LEMMA SwitchStepKeeps ==
  ASSUME NavigationIInv, NEW i \in 1 .. Len(nav.threads), Step(i)
  PROVE  NavigationIInv'
BY TickKeeps, MessagesKeep, FormKeeps, RestoreStepKeeps, EndStepKeeps DEF Step

\* Every step keeps the order.
LEMMA NavigationNextKeeps ==
  ASSUME NavigationIInv, [NavigationNext]_navVars
  PROVE  NavigationIInv'
<1>1. ASSUME NEW i \in DOMAIN nav.threads, Step(i) \/ deletionDone(i)
      PROVE  NavigationIInv'
  <2>1. nav.threads \in Seq(Threads)
    BY DEF NavigationIInv, NavigationPages
  <2>2. i \in 1 .. Len(nav.threads)
    BY <2>1
  <2> QED
    BY <1>1, <2>2, SwitchStepKeeps, DeletionDoneKeeps
<1>2. ASSUME NEW i \in 0 .. MaxEntries - 1, openPublisher(i) \/ openConsumer(i)
      PROVE  NavigationIInv'
  <2>1. i \in Nat
    BY NavigationBounds
  <2> QED
    BY <1>2, <2>1, OpenPublisherKeeps, OpenConsumerKeeps
<1>3. CASE copyCurrentConsumerAction
  BY <1>3, CopyToKeeps DEF copyCurrentConsumerAction, Lists
<1>4. CASE copyCurrentPublisherAction
  BY <1>4, CopyToKeeps DEF copyCurrentPublisherAction, Lists
<1>5. CASE UNCHANGED navVars
  BY <1>5 DEF navVars, NavigationIInv
<1> QED
  BY <1>1, <1>2, <1>3, <1>4, <1>5, ClickKeeps, HashChangeKeeps, AddKeeps,
     DeleteConsumerKeeps, DeletePublisherKeeps, NavigationReloadKeeps DEF NavigationNext

\* The order holds in every reachable state, for lists, switches and moves of any
\* number (switchMain, initTabIfNeeded, restoreTabState).
THEOREM NavigationInvariant == NavigationSpec => []NavigationIInv
<1>1. NavigationInit => NavigationIInv
  BY NavigationInitInOrder
<1>2. NavigationIInv /\ [NavigationNext]_navVars => NavigationIInv'
  BY NavigationNextKeeps
<1> QED
  BY <1>1, <1>2, PTL DEF NavigationSpec

\* The place keeps its types (markRememberedSelection, replaceHash).
THEOREM NavigationTypeCorrect == NavigationSpec => []NavigationTypeOK
<1>1. NavigationIInv => NavigationTypeOK
  BY DEF NavigationIInv, NavigationPages, NavigationTypeOK
<1> QED
  BY <1>1, NavigationInvariant, PTL

\* However tabs are switched, entries opened, made, copied and deleted and the
\* address edited, when nothing is under way the address names what is shown and
\* a copy that was not left is selected; unless switches crossed (switchMain,
\* restoreTabState, clearLegacyPendingRestoreGlobals, copyCurrentConsumerAction).
THEOREM PlacesSettle == NavigationSpec => []NavigationSettles
<1>1. NavigationIInv => NavigationSettles
  <2> SUFFICES ASSUME NavigationIInv PROVE NavigationSettles
    OBVIOUS
  <2>1. PlaceIsInTheHash
    BY DEF NavigationIInv, InOrder, PlaceIsKept, Placed, Addressed, PlaceIsInTheHash, Settled
  <2>2. CopyIsOpened
    <3>1. nav.threads = <<>> => \A tab \in Lists : ~ Waits(nav, tab)
      BY DEF Waits
    <3> QED
      BY <3>1 DEF NavigationIInv, InOrder, CopyIsKept, CopyIsThere, CopyIsOpened
  <2> QED
    BY <2>1, <2>2 DEF NavigationSettles
<1> QED
  BY <1>1, NavigationInvariant, PTL

-----------------------------------------------------------------------------
(* Answers of consumers.  The rows say what was typed, and are those of    *)
(* the consumer, or would be made again as they are.                       *)

\* The pages that there may be.
ResponsePages ==
  [server : [1 .. Count -> Consumers], consumers : [1 .. Count -> Consumers],
   selected : 1 .. Count, key : Nat, shown : OutputModes, rows : Seq(Rows),
   payload : Bodies, lastId : Nat, saving : [1 .. Count -> Consumers] \cup {<<>>},
   landed : BOOLEAN, asked : [1 .. Count -> OutputModes], typed : Seq(Rows),
   edited : BOOLEAN, moves : 0 .. MaxTurns]

\* The consumer that is selected.
Of(p) == p.consumers[p.selected]

\* What the rows of a consumer say when they are made from it.
RowsOf(c) == Said(responseRowsFromConsumer(c, 0))

\* The rows are those that the user knows, and match the consumer, or would be
\* made again from it as they are.
RowsInOrder(p) ==
  /\ p.key = Of(p).id
  /\ Said(p.rows) = p.typed
  /\ responseRowsMatchConsumer(p.rows, Of(p)) \/ p.typed = RowsOf(Of(p))

\* What is said of nothing but blanks is that nothing is said.
SameBody(given, shown) == given = shown \/ (given = Blank /\ shown = NoText)

\* An edit was written through to the consumer.
EditInOrder(p) ==
  p.edited =>
    /\ Of(p).response # NoAnswer
    /\ Of(p).response.headers = headersFromResponseRows(p.rows)
    /\ SameBody(Of(p).response.payload, p.payload)
    /\ Of(p).mode = "response" => Of(p).out = Of(p).response

ResponseIInv == resp \in ResponsePages /\ RowsInOrder(resp) /\ EditInOrder(resp)

-----------------------------------------------------------------------------
(* Answers.                                                                *)

\* A set of positions has a last one.
LEMMA MaxIs ==
  ASSUME NEW n \in Nat, NEW S \in SUBSET (1 .. n), S # {}
  PROVE  Max(S) \in S /\ \A y \in S : y <= Max(S)
<1> DEFINE T == {n - x : x \in S}
           R == OpToRel(<, Nat)
<1>1. T \subseteq Nat /\ T # {}
  <2>1. \A x \in S : n - x \in Nat
    OBVIOUS
  <2>2. PICK x \in S : TRUE
    OBVIOUS
  <2> QED
    BY <2>1, <2>2
<1>2. IsWellFoundedOn(R, Nat)
  BY NatLessThanWellFounded, Zenon
<1>3. \A x, y \in Nat : <<y, x>> \notin R => x <= y
  BY DEF OpToRel
<1> HIDE DEF R
<1>4. PICK t \in T : \A y \in T : ~ (<<y, t>> \in R)
  <2> HIDE DEF T
  <2> QED BY <1>1, <1>2, WFMin
<1>5. PICK m \in S : t = n - m
  BY <1>4
<1>6. ASSUME NEW y \in S PROVE m >= y
  <2>1. n - y \in T /\ n - y \in Nat /\ n - m \in Nat
    OBVIOUS
  <2>2. <<n - y, n - m>> \notin R
    BY <1>4, <1>5, <2>1
  <2>3. n - m <= n - y
    BY <1>3, <2>1, <2>2
  <2> QED
    BY <2>3
<1>7. \A y \in S : Max(S) >= y /\ Max(S) \in S
  BY <1>6 DEF Max
<1> QED
  BY <1>7

\* An answer is not none.
LEMMA NoAnswerIsNone ==
  /\ \A a \in ConsumerAnswers : a # NoAnswer
  /\ \A h, b : Answer(h, b) # NoAnswer /\ Answer(h, b).headers = h /\ Answer(h, b).payload = b
<1>1. ASSUME NEW a \in ConsumerAnswers PROVE a # NoAnswer
  <2>1. DOMAIN a = {"headers", "payload"} /\ DOMAIN NoAnswer = {"none"}
    BY DEF ConsumerAnswers, NoAnswer
  <2> QED
    BY <2>1
<1>2. ASSUME NEW h, NEW b
      PROVE  Answer(h, b) # NoAnswer /\ Answer(h, b).headers = h /\ Answer(h, b).payload = b
  <2>1. DOMAIN Answer(h, b) = {"headers", "payload"} /\ DOMAIN NoAnswer = {"none"}
    BY DEF Answer, NoAnswer
  <2> QED
    BY <2>1 DEF Answer
<1> QED
  BY <1>1, <1>2

\* An answer is made of headers and a body.
LEMMA AnswerIs ==
  ASSUME NEW h \in HeaderSets, NEW b \in Bodies
  PROVE  Answer(h, b) \in ConsumerAnswers
BY DEF Answer, ConsumerAnswers

\* The rows give headers.
LEMMA HeadersOfRows ==
  ASSUME NEW rows \in Seq(Rows)
  PROVE  headersFromResponseRows(rows) \in HeaderSets
<1> DEFINE on == {i \in DOMAIN rows : rows[i].enabled /\ rows[i].key # NoText}
           keys == {rows[i].key : i \in on}
           At(k) == {i \in on : rows[i].key = k}
           h == headersFromResponseRows(rows)
<1>1. DOMAIN rows = 1 .. Len(rows) /\ Len(rows) \in Nat
  OBVIOUS
<1>2. h = [k \in keys |-> rows[Max(At(k))].value]
  BY Zenon DEF headersFromResponseRows
<1>3. \A i \in DOMAIN rows : rows[i].key \in HeaderNames /\ rows[i].value \in HeaderValues
  <2>1. \A i \in DOMAIN rows : rows[i] \in Rows
    BY <1>1
  <2> QED
    BY <2>1 DEF Rows
<1>4. keys \in SUBSET HeaderNames
  BY <1>3
<1>5. ASSUME NEW k \in keys PROVE rows[Max(At(k))].value \in HeaderValues
  <2>1. At(k) \in SUBSET (1 .. Len(rows)) /\ At(k) # {}
    BY <1>1
  <2> HIDE DEF At
  <2>2. Max(At(k)) \in At(k)
    BY <1>1, <2>1, MaxIs
  <2>3. Max(At(k)) \in DOMAIN rows
    BY <1>1, <2>1, <2>2
  <2> QED
    BY <1>3, <2>3
<1> HIDE DEF keys, h, At
<1>6. h \in [keys -> HeaderValues]
  BY <1>2, <1>5
<1> QED
  BY <1>4, <1>6 DEF HeaderSets, h

\* An answer without what says nothing is an answer with the same body, or none.
LEMMA NormalizedIs ==
  ASSUME NEW r \in MaybeAnswers
  PROVE  LET m == normalizeConsumerResponse(r)
         IN  /\ m \in MaybeAnswers
             /\ r # NoAnswer =>
                  /\ r \in ConsumerAnswers
                  /\ m = NoAnswer => r.payload \in {NoText, Blank}
                  /\ m # NoAnswer => m \in ConsumerAnswers /\ m.payload = r.payload
<1>1. CASE r = NoAnswer
  BY <1>1 DEF normalizeConsumerResponse, MaybeAnswers
<1>2. CASE r # NoAnswer
  <2> DEFINE named == {k \in DOMAIN r.headers : k # NoText /\ r.headers[k] # NoText}
             h == [k \in named |-> r.headers[k]]
             m == normalizeConsumerResponse(r)
  <2>1. r \in ConsumerAnswers
    BY <1>2 DEF MaybeAnswers
  <2>2. PICK S \in SUBSET HeaderNames : r.headers \in [S -> HeaderValues]
    BY <2>1 DEF ConsumerAnswers, HeaderSets
  <2>3. named \in SUBSET HeaderNames /\ h \in [named -> HeaderValues]
    BY <2>2
  <2>4. h \in HeaderSets
    BY <2>3 DEF HeaderSets
  <2>5. m = IF named = {} /\ r.payload \in {NoText, Blank} THEN NoAnswer
            ELSE Answer(h, r.payload)
    BY <1>2 DEF normalizeConsumerResponse
  <2> HIDE DEF named, h, m
  <2>6. Answer(h, r.payload) \in ConsumerAnswers /\ Answer(h, r.payload).payload = r.payload
    BY <2>1, <2>4, AnswerIs, NoAnswerIsNone DEF ConsumerAnswers
  <2>7. Answer(h, r.payload) # NoAnswer
    BY NoAnswerIsNone
  <2> QED
    BY <1>2, <2>1, <2>5, <2>6, <2>7 DEF m, MaybeAnswers
<1> QED
  BY <1>1, <1>2

\* The names of headers are put in some order, each once.
LEMMA NamesInOrder ==
  ASSUME NEW S \in SUBSET HeaderNames
  PROVE  SetToSeq(S) \in [1 .. Cardinality(S) -> S] /\ Cardinality(S) \in Nat
<1>1. IsFiniteSet(S)
  BY ResponseConstants, FS_Subset DEF ResponseConstants
<1>2. Cardinality(S) \in Nat /\ ExistsBijection(1 .. Cardinality(S), S)
  BY <1>1, FS_CardinalityType
<1>3. \E f \in [1 .. Cardinality(S) -> S] : IsInjective(f)
  BY <1>2 DEF ExistsBijection, Bijection, Injection
<1> QED
  BY <1>2, <1>3 DEF SetToSeq

\* A row that is made from a header.
RowOf(id, key, value) == [id |-> id, key |-> key, value |-> value, enabled |-> TRUE]

\* What it says, without its identity.
LEMMA RowSaid ==
  ASSUME NEW id, NEW key, NEW value
  PROVE  [RowOf(id, key, value) EXCEPT !.id = 0] = RowOf(0, key, value)
<1> DEFINE enabled == TRUE
<1>1. \A i : RowOf(i, key, value) = [id |-> i, key |-> key, value |-> value, enabled |-> enabled]
  BY DEF RowOf
<1> HIDE DEF enabled
<1>2. [[id |-> id, key |-> key, value |-> value, enabled |-> enabled] EXCEPT !.id = 0] =
        [id |-> 0, key |-> key, value |-> value, enabled |-> enabled]
  OBVIOUS
<1> QED
  BY <1>1, <1>2

\* The rows that are made from a consumer say the same whatever their identities.
LEMMA RowsFrom ==
  ASSUME NEW c \in Consumers, NEW id \in Nat
  PROVE  /\ responseRowsFromConsumer(c, id) \in Seq(Rows)
         /\ Said(responseRowsFromConsumer(c, id)) = RowsOf(c)
<1> DEFINE r    == normalizeConsumerResponse(c.response)
           keys == IF r = NoAnswer THEN <<>> ELSE SetToSeq(DOMAIN r.headers)
           Row(i, at) == [id |-> at + i, key |-> keys[i], value |-> r.headers[keys[i]],
                          enabled |-> TRUE]
           From(at) == [i \in DOMAIN keys |-> Row(i, at)]
<1>1. c.response \in MaybeAnswers
  BY DEF Consumers
<1>2. r \in MaybeAnswers
  BY <1>1, NormalizedIs
<1>3. \A at : responseRowsFromConsumer(c, at) = From(at)
  BY DEF responseRowsFromConsumer
<1> HIDE DEF r
<1>4. PICK n \in Nat : /\ DOMAIN keys = 1 .. n
                       /\ \A i \in 1 .. n :
                            keys[i] \in HeaderNames /\ r.headers[keys[i]] \in HeaderValues
  <2>1. CASE r = NoAnswer
    <3>1. keys = <<>>
      BY <2>1
    <3>2. DOMAIN keys = 1 .. 0 /\ 0 \in Nat /\ \A i \in 1 .. 0 : FALSE
      BY <3>1
    <3> QED
      BY <3>2
  <2>2. CASE r # NoAnswer
    <3>1. r \in ConsumerAnswers
      BY <1>2, <2>2 DEF MaybeAnswers
    <3>2. PICK S \in SUBSET HeaderNames : r.headers \in [S -> HeaderValues]
      BY <3>1 DEF ConsumerAnswers, HeaderSets
    <3>3. keys = SetToSeq(S)
      BY <2>2, <3>2
    <3>4. keys \in [1 .. Cardinality(S) -> S] /\ Cardinality(S) \in Nat
      BY <3>3, NamesInOrder
    <3> HIDE DEF keys
    <3>5. /\ DOMAIN keys = 1 .. Cardinality(S)
          /\ \A i \in 1 .. Cardinality(S) :
               keys[i] \in HeaderNames /\ r.headers[keys[i]] \in HeaderValues
      BY <3>2, <3>4
    <3> QED
      BY <3>4, <3>5
  <2> QED
    BY <2>1, <2>2
<1> HIDE DEF keys
<1>5. ASSUME NEW at \in Nat
      PROVE  /\ From(at) \in Seq(Rows)
             /\ Said(From(at)) = [i \in 1 .. n |-> [Row(i, 0) EXCEPT !.id = 0]]
  <2>1. \A i \in 1 .. n : Row(i, at) \in Rows
    BY <1>4 DEF Rows
  <2>2. From(at) = [i \in 1 .. n |-> Row(i, at)]
    BY <1>4, Zenon
  <2>3. \A i \in 1 .. n : [Row(i, at) EXCEPT !.id = 0] = [Row(i, 0) EXCEPT !.id = 0]
    <3> TAKE i \in 1 .. n
    <3> DEFINE key   == keys[i]
               value == r.headers[keys[i]]
    <3>1. Row(i, at) = RowOf(at + i, key, value) /\ Row(i, 0) = RowOf(0 + i, key, value)
      BY DEF RowOf
    <3> HIDE DEF Row, key, value
    <3>2. [RowOf(at + i, key, value) EXCEPT !.id = 0] = RowOf(0, key, value)
      BY RowSaid
    <3>3. [RowOf(0 + i, key, value) EXCEPT !.id = 0] = RowOf(0, key, value)
      BY RowSaid
    <3> QED
      BY <3>1, <3>2, <3>3
  <2> HIDE DEF Row
  <2>4. From(at) \in [1 .. n -> Rows]
    BY <2>1, <2>2
  <2>5. From(at) \in Seq(Rows)
    BY <2>4, SeqDef
  <2>6. Said(From(at)) = [i \in 1 .. n |-> [Row(i, at) EXCEPT !.id = 0]]
    BY <2>2 DEF Said
  <2> QED
    BY <2>3, <2>5, <2>6
<1>6. RowsOf(c) = [i \in 1 .. n |-> [Row(i, 0) EXCEPT !.id = 0]]
  <2>1. 0 \in Nat /\ responseRowsFromConsumer(c, 0) = From(0)
    BY <1>3
  <2> HIDE DEF From, Row
  <2> QED
    BY <1>5, <2>1 DEF RowsOf
<1> HIDE DEF From, Row
<1> QED
  BY <1>3, <1>5, <1>6
-----------------------------------------------------------------------------
(* Pages.                                                                  *)

\* The selected consumer is one.
LEMMA OfIs ==
  ASSUME NEW p \in ResponsePages
  PROVE  /\ Of(p) \in Consumers /\ Of(p).id \in Nat /\ Of(p).mode \in OutputModes
         /\ Of(p).response \in MaybeAnswers /\ Of(p).out \in MaybeAnswers
<1>1. p.consumers \in [1 .. Count -> Consumers] /\ p.selected \in 1 .. Count
  BY DEF ResponsePages
<1>2. Of(p) \in Consumers
  BY <1>1 DEF Of
<1> QED
  BY <1>2 DEF Consumers

\* A row keeps its rows.
Keeps(p) == p.key = Of(p).id /\ responseRowsMatchConsumer(p.rows, Of(p))

\* What a render makes of a page.
LEMMA RenderIs ==
  ASSUME NEW p \in ResponsePages
  PROVE  /\ renderSelectedConsumer(p) \in ResponsePages
         /\ renderSelectedConsumer(p).consumers = p.consumers
         /\ renderSelectedConsumer(p).selected = p.selected
         /\ renderSelectedConsumer(p).key = Of(p).id
         /\ renderSelectedConsumer(p).edited = p.edited
         /\ renderSelectedConsumer(p).typed = p.typed
         /\ Keeps(p) => renderSelectedConsumer(p).rows = p.rows
         /\ ~ Keeps(p) => Said(renderSelectedConsumer(p).rows) = RowsOf(Of(p))
         /\ Of(p).response # NoAnswer =>
              SameBody(Of(p).response.payload, renderSelectedConsumer(p).payload)
<1> DEFINE c    == Of(p)
           r    == normalizeConsumerResponse(c.response)
           rows == IF Keeps(p) THEN p.rows ELSE responseRowsFromConsumer(c, p.lastId)
           last == IF Keeps(p) THEN p.lastId ELSE p.lastId + Len(rows)
           body == IF r = NoAnswer THEN NoText ELSE r.payload
           m    == renderSelectedConsumer(p)
<1>1. /\ c \in Consumers /\ c.id \in Nat /\ c.mode \in OutputModes
      /\ c.response \in MaybeAnswers /\ p.lastId \in Nat /\ p.rows \in Seq(Rows)
  BY OfIs DEF ResponsePages
<1>2. m = [p EXCEPT !.key = c.id, !.shown = c.mode, !.rows = rows, !.lastId = last,
                    !.payload = body]
  BY DEF renderSelectedConsumer, Keeps, Of, ResponsePages
<1>3. rows \in Seq(Rows) /\ (~ Keeps(p) => Said(rows) = RowsOf(c)) /\ (Keeps(p) => rows = p.rows)
  BY <1>1, RowsFrom
<1>4. last \in Nat
  <2>1. Len(rows) \in Nat
    BY <1>3
  <2> QED
    BY <1>1, <2>1
<1>5. /\ body \in Bodies
      /\ c.response # NoAnswer => SameBody(c.response.payload, body)
  <2>1. /\ r \in MaybeAnswers
        /\ c.response # NoAnswer =>
             /\ c.response \in ConsumerAnswers
             /\ r = NoAnswer => c.response.payload \in {NoText, Blank}
             /\ r # NoAnswer => r \in ConsumerAnswers /\ r.payload = c.response.payload
    BY <1>1, NormalizedIs
  <2> HIDE DEF r
  <2>2. r # NoAnswer => r.payload \in Bodies
    BY <2>1 DEF MaybeAnswers, ConsumerAnswers
  <2>3. NoText \in Bodies
    BY ResponseConstants DEF ResponseConstants
  <2> QED
    BY <2>1, <2>2, <2>3 DEF SameBody
<1> HIDE DEF c, r, rows, last, body, m
<1>6. m \in ResponsePages
  BY <1>1, <1>2, <1>3, <1>4, <1>5 DEF ResponsePages
<1>7. /\ m.consumers = p.consumers /\ m.selected = p.selected /\ m.key = c.id
      /\ m.edited = p.edited /\ m.typed = p.typed /\ m.rows = rows /\ m.payload = body
  BY <1>2 DEF ResponsePages
<1> QED
  BY <1>3, <1>5, <1>6, <1>7 DEF m, c

\* What the rows say is rows.
LEMMA SaidIs ==
  ASSUME NEW rows \in Seq(Rows)
  PROVE  /\ Said(rows) \in Seq(Rows) /\ Len(Said(rows)) = Len(rows)
         /\ \A i \in 1 .. Len(rows) :
              /\ rows[i] \in Rows /\ Said(rows)[i] \in Rows
              /\ Said(rows)[i] = [rows[i] EXCEPT !.id = 0]
<1>1. /\ DOMAIN rows = 1 .. Len(rows) /\ Len(rows) \in Nat
      /\ \A i \in 1 .. Len(rows) : rows[i] \in Rows
  OBVIOUS
<1>2. \A i \in 1 .. Len(rows) : [rows[i] EXCEPT !.id = 0] \in Rows
  BY <1>1 DEF Rows
<1>3. Said(rows) = [i \in 1 .. Len(rows) |-> [rows[i] EXCEPT !.id = 0]]
  BY <1>1, Zenon DEF Said
<1>4. Said(rows) \in [1 .. Len(rows) -> Rows]
  BY <1>2, <1>3
<1>5. Said(rows) \in Seq(Rows)
  BY <1>1, <1>4, SeqDef
<1>6. Len(Said(rows)) = Len(rows)
  BY <1>1, <1>4, <1>5, LenProperties
<1> QED
  BY <1>1, <1>2, <1>3, <1>5, <1>6

\* An editor that was just opened is in order.
LEMMA OpenedIs ==
  ASSUME NEW p \in ResponsePages, p.key = Of(p).id,
         responseRowsMatchConsumer(p.rows, Of(p)) \/ Said(p.rows) = RowsOf(Of(p))
  PROVE  /\ Opened(p) \in ResponsePages /\ RowsInOrder(Opened(p)) /\ EditInOrder(Opened(p))
<1> DEFINE typed == Said(p.rows)
           m     == Opened(p)
<1>1. m = [p EXCEPT !.typed = typed, !.edited = FALSE]
  BY DEF Opened
<1>2. typed \in Seq(Rows)
  BY SaidIs DEF ResponsePages
<1>3. typed = Said(p.rows)
  OBVIOUS
<1> HIDE DEF typed, m
<1>4. m \in ResponsePages
  BY <1>1, <1>2 DEF ResponsePages
<1>5. /\ m.consumers = p.consumers /\ m.selected = p.selected /\ m.key = p.key
      /\ m.rows = p.rows /\ m.typed = typed /\ ~ m.edited
  BY <1>1 DEF ResponsePages
<1>6. Of(m) = Of(p)
  BY <1>5 DEF Of
<1>7. RowsInOrder(m) /\ EditInOrder(m)
  BY <1>3, <1>5, <1>6 DEF RowsInOrder, EditInOrder
<1> QED
  BY <1>4, <1>7 DEF m

\* Whatever the page, the consumer that is opened is in order.
LEMMA RestoredIs ==
  ASSUME NEW p \in ResponsePages, NEW i \in 1 .. Count
  PROVE  /\ Opened(restoreConsumerStateFromView(p, i)) \in ResponsePages
         /\ RowsInOrder(Opened(restoreConsumerStateFromView(p, i)))
         /\ EditInOrder(Opened(restoreConsumerStateFromView(p, i)))
<1> DEFINE q == [p EXCEPT !.selected = i]
           m == renderSelectedConsumer(q)
<1>1. q \in ResponsePages
  BY DEF ResponsePages
<1>2. restoreConsumerStateFromView(p, i) = m
  BY DEF restoreConsumerStateFromView
<1> HIDE DEF q
<1>3. /\ m \in ResponsePages /\ m.consumers = q.consumers /\ m.selected = q.selected
      /\ m.key = Of(q).id
      /\ Keeps(q) => m.rows = q.rows
      /\ ~ Keeps(q) => Said(m.rows) = RowsOf(Of(q))
  BY <1>1, RenderIs
<1> HIDE DEF m
<1>4. Of(m) = Of(q)
  BY <1>3 DEF Of
<1>5. m.key = Of(m).id /\ (responseRowsMatchConsumer(m.rows, Of(m)) \/ Said(m.rows) = RowsOf(Of(m)))
  BY <1>3, <1>4 DEF Keeps
<1> QED
  BY <1>2, <1>3, <1>5, OpenedIs

\* A render keeps the order.
LEMMA RenderKeeps ==
  ASSUME NEW p \in ResponsePages, RowsInOrder(p), EditInOrder(p)
  PROVE  /\ renderSelectedConsumer(p) \in ResponsePages
         /\ RowsInOrder(renderSelectedConsumer(p))
         /\ EditInOrder(renderSelectedConsumer(p))
<1> DEFINE m == renderSelectedConsumer(p)
<1>1. /\ m \in ResponsePages /\ m.consumers = p.consumers /\ m.selected = p.selected
      /\ m.key = Of(p).id /\ m.edited = p.edited /\ m.typed = p.typed
      /\ Keeps(p) => m.rows = p.rows
      /\ ~ Keeps(p) => Said(m.rows) = RowsOf(Of(p))
      /\ Of(p).response # NoAnswer => SameBody(Of(p).response.payload, m.payload)
  BY RenderIs
<1> HIDE DEF m
<1>2. Of(m) = Of(p)
  BY <1>1 DEF Of
<1>3. CASE Keeps(p)
  <2>1. RowsInOrder(m)
    BY <1>1, <1>2, <1>3 DEF RowsInOrder
  <2>2. EditInOrder(m)
    BY <1>1, <1>2, <1>3 DEF EditInOrder
  <2> QED
    BY <1>1, <2>1, <2>2 DEF m
<1>4. CASE ~ Keeps(p)
  <2>1. ~ responseRowsMatchConsumer(p.rows, Of(p)) /\ p.typed = RowsOf(Of(p))
    BY <1>4 DEF Keeps, RowsInOrder
  <2>2. ~ p.edited
    BY <2>1 DEF EditInOrder, responseRowsMatchConsumer
  <2>3. RowsInOrder(m)
    BY <1>1, <1>2, <1>4, <2>1 DEF RowsInOrder
  <2>4. EditInOrder(m)
    BY <1>1, <2>2 DEF EditInOrder
  <2> QED
    BY <1>1, <2>3, <2>4 DEF m
<1> QED
  BY <1>3, <1>4

\* The page with another configuration of the selected consumer.
WithConsumer(p, c, shown) ==
  [p EXCEPT !.consumers = [p.consumers EXCEPT ![p.selected] = c], !.shown = shown]

\* The page with another configuration of its consumer is as it was else.
LEMMA ConsumerIs ==
  ASSUME NEW p \in ResponsePages, NEW c \in Consumers, NEW shown \in OutputModes
  PROVE  LET m == WithConsumer(p, c, shown)
         IN  /\ m \in ResponsePages /\ Of(m) = c
             /\ m.selected = p.selected /\ m.key = p.key /\ m.rows = p.rows
             /\ m.typed = p.typed /\ m.edited = p.edited /\ m.payload = p.payload
<1> DEFINE consumers == [p.consumers EXCEPT ![p.selected] = c]
           m == WithConsumer(p, c, shown)
<1>1. m = [p EXCEPT !.consumers = consumers, !.shown = shown]
  BY DEF WithConsumer
<1>2. p.consumers \in [1 .. Count -> Consumers] /\ p.selected \in 1 .. Count
  BY DEF ResponsePages
<1>3. consumers \in [1 .. Count -> Consumers] /\ consumers[p.selected] = c
  BY <1>2
<1> HIDE DEF consumers, m
<1>4. m \in ResponsePages
  BY <1>1, <1>3 DEF ResponsePages
<1>5. /\ m.consumers = consumers /\ m.selected = p.selected /\ m.key = p.key /\ m.rows = p.rows
      /\ m.typed = p.typed /\ m.edited = p.edited /\ m.payload = p.payload
  BY <1>1 DEF ResponsePages
<1> QED
  BY <1>3, <1>4, <1>5 DEF Of, m

\* An edit is written through.
LEMMA AppliedIs ==
  ASSUME NEW p \in ResponsePages, p.key = Of(p).id, Said(p.rows) = p.typed
  PROVE  /\ applyResponseStateToConsumer(p) \in ResponsePages
         /\ RowsInOrder(applyResponseStateToConsumer(p))
         /\ EditInOrder(applyResponseStateToConsumer(p))
<1> DEFINE headers == headersFromResponseRows(p.rows)
           answer  == Answer(headers, p.payload)
           c == [Of(p) EXCEPT !.mode = "response", !.out = answer, !.response = answer]
           m == applyResponseStateToConsumer(p)
<1>1. headers \in HeaderSets /\ p.payload \in Bodies /\ p.shown \in OutputModes
  BY HeadersOfRows DEF ResponsePages
<1>2. answer \in ConsumerAnswers /\ answer # NoAnswer /\ answer.headers = headers
      /\ answer.payload = p.payload
  BY <1>1, AnswerIs, NoAnswerIsNone
<1>3. m = WithConsumer(p, c, p.shown)
  BY DEF applyResponseStateToConsumer, WithConsumer, Of, ResponsePages
<1> HIDE DEF headers, answer, m
<1>4. Of(p) \in Consumers
  BY OfIs
<1>5. /\ c \in Consumers /\ c.id = Of(p).id /\ c.out = answer /\ c.response = answer
  BY <1>2, <1>4 DEF Consumers, MaybeAnswers, OutputModes
<1> HIDE DEF c
<1>6. /\ m \in ResponsePages /\ Of(m) = c /\ m.key = p.key /\ m.rows = p.rows
      /\ m.typed = p.typed /\ m.payload = p.payload
  BY <1>1, <1>3, <1>5, ConsumerIs
<1>7. responseRowsMatchConsumer(m.rows, Of(m))
  BY <1>2, <1>5, <1>6 DEF responseRowsMatchConsumer, headers
<1>8. RowsInOrder(m)
  BY <1>5, <1>6, <1>7 DEF RowsInOrder
<1>9. EditInOrder(m)
  BY <1>2, <1>5, <1>6 DEF EditInOrder, SameBody, headers
<1> QED
  BY <1>6, <1>8, <1>9 DEF m

-----------------------------------------------------------------------------
(* What the user does.                                                     *)

\* What is said of rows that are known one by one.
LEMMA SaidBy ==
  ASSUME NEW rows \in Seq(Rows), NEW typed \in Seq(Rows), Len(typed) = Len(rows),
         \A i \in 1 .. Len(rows) : typed[i] = [rows[i] EXCEPT !.id = 0]
  PROVE  Said(rows) = typed
<1>1. Said(rows) \in Seq(Rows) /\ Len(Said(rows)) = Len(rows)
  BY SaidIs
<1>2. \A i \in 1 .. Len(rows) : Said(rows)[i] = typed[i]
  BY SaidIs
<1> QED
  BY <1>1, <1>2, SeqEqual

\* One row is changed.
LEMMA RowChanged ==
  ASSUME NEW rows \in Seq(Rows), NEW i \in DOMAIN rows, NEW row \in Rows, NEW said \in Rows,
         said = [row EXCEPT !.id = 0]
  PROVE  /\ [rows EXCEPT ![i] = row] \in Seq(Rows)
         /\ Said([rows EXCEPT ![i] = row]) = [Said(rows) EXCEPT ![i] = said]
<1> DEFINE m == [rows EXCEPT ![i] = row]
           typed == [Said(rows) EXCEPT ![i] = said]
<1>1. i \in 1 .. Len(rows) /\ Len(rows) \in Nat
  OBVIOUS
<1>2. /\ m \in Seq(Rows) /\ Len(m) = Len(rows)
      /\ \A j \in 1 .. Len(rows) : m[j] = IF j = i THEN row ELSE rows[j]
  BY <1>1, ExceptSeq
<1>3. /\ Said(rows) \in Seq(Rows) /\ Len(Said(rows)) = Len(rows)
      /\ \A j \in 1 .. Len(rows) : Said(rows)[j] = [rows[j] EXCEPT !.id = 0]
  BY SaidIs
<1>4. /\ typed \in Seq(Rows) /\ Len(typed) = Len(rows)
      /\ \A j \in 1 .. Len(rows) : typed[j] = IF j = i THEN said ELSE Said(rows)[j]
  BY <1>1, <1>3, ExceptSeq
<1> HIDE DEF m, typed
<1>5. \A j \in 1 .. Len(m) : typed[j] = [m[j] EXCEPT !.id = 0]
  BY <1>2, <1>3, <1>4
<1>6. Said(m) = typed
  BY <1>2, <1>4, <1>5, SaidBy
<1> QED
  BY <1>2, <1>6 DEF m, typed

\* A row is added.
LEMMA RowAdded ==
  ASSUME NEW rows \in Seq(Rows), NEW row \in Rows, NEW said \in Rows, said = [row EXCEPT !.id = 0]
  PROVE  /\ Append(rows, row) \in Seq(Rows)
         /\ Said(Append(rows, row)) = Append(Said(rows), said)
<1> DEFINE m == Append(rows, row)
           typed == Append(Said(rows), said)
<1>1. /\ m \in Seq(Rows) /\ Len(m) = Len(rows) + 1 /\ Len(rows) \in Nat
      /\ \A j \in 1 .. Len(rows) + 1 : m[j] = IF j = Len(rows) + 1 THEN row ELSE rows[j]
  OBVIOUS
<1>2. /\ Said(rows) \in Seq(Rows) /\ Len(Said(rows)) = Len(rows)
      /\ \A j \in 1 .. Len(rows) : Said(rows)[j] = [rows[j] EXCEPT !.id = 0]
  BY SaidIs
<1>3. /\ typed \in Seq(Rows) /\ Len(typed) = Len(rows) + 1
      /\ \A j \in 1 .. Len(rows) + 1 :
           typed[j] = IF j = Len(rows) + 1 THEN said ELSE Said(rows)[j]
  BY <1>2
<1> HIDE DEF m, typed
<1>4. \A j \in 1 .. Len(m) : typed[j] = [m[j] EXCEPT !.id = 0]
  <2> TAKE j \in 1 .. Len(m)
  <2>1. j \in 1 .. Len(rows) + 1 /\ (j # Len(rows) + 1 => j \in 1 .. Len(rows))
    BY <1>1
  <2>2. CASE j = Len(rows) + 1
    BY <1>1, <1>3, <2>1, <2>2
  <2>3. CASE j # Len(rows) + 1
    BY <1>1, <1>2, <1>3, <2>1, <2>3
  <2> QED
    BY <2>2, <2>3
<1>5. Said(m) = typed
  BY <1>1, <1>3, <1>4, SaidBy
<1> QED
  BY <1>1, <1>5 DEF m, typed

\* A row is removed.
LEMMA RowRemoved ==
  ASSUME NEW rows \in Seq(Rows), NEW i \in DOMAIN rows
  PROVE  /\ RemoveAt(rows, i) \in Seq(Rows)
         /\ Said(RemoveAt(rows, i)) = RemoveAt(Said(rows), i)
<1> DEFINE m == RemoveAt(rows, i)
           typed == RemoveAt(Said(rows), i)
<1>1. i \in 1 .. Len(rows) /\ Len(rows) \in Nat
  OBVIOUS
<1>2. /\ Said(rows) \in Seq(Rows) /\ Len(Said(rows)) = Len(rows)
      /\ \A j \in 1 .. Len(rows) : Said(rows)[j] = [rows[j] EXCEPT !.id = 0]
  BY SaidIs
<1>3. /\ m \in Seq(Rows) /\ Len(m) = Len(rows) - 1
      /\ \A j \in 1 .. Len(rows) - 1 : m[j] = IF j < i THEN rows[j] ELSE rows[j + 1]
  BY <1>1, WithoutOne
<1>4. /\ typed \in Seq(Rows) /\ Len(typed) = Len(rows) - 1
      /\ \A j \in 1 .. Len(rows) - 1 :
           typed[j] = IF j < i THEN Said(rows)[j] ELSE Said(rows)[j + 1]
  BY <1>1, <1>2, WithoutOne
<1> HIDE DEF m, typed
<1>5. \A j \in 1 .. Len(m) : typed[j] = [m[j] EXCEPT !.id = 0]
  <2> TAKE j \in 1 .. Len(m)
  <2>1. j \in 1 .. Len(rows) - 1 /\ j \in 1 .. Len(rows) /\ j + 1 \in 1 .. Len(rows)
    BY <1>1, <1>3
  <2> QED
    BY <1>2, <1>3, <1>4, <2>1
<1>6. Said(m) = typed
  BY <1>3, <1>4, <1>5, SaidBy
<1> QED
  BY <1>3, <1>6 DEF m, typed

\* What one of the rows says when it is edited.
LEMMA RowEdited ==
  ASSUME NEW row \in Rows
  PROVE  /\ \A key \in HeaderNames :
              /\ [row EXCEPT !.key = key] \in Rows
              /\ [[row EXCEPT !.id = 0] EXCEPT !.key = key] \in Rows
              /\ [[row EXCEPT !.id = 0] EXCEPT !.key = key]
                   = [[row EXCEPT !.key = key] EXCEPT !.id = 0]
         /\ \A value \in HeaderValues :
              /\ [row EXCEPT !.value = value] \in Rows
              /\ [[row EXCEPT !.id = 0] EXCEPT !.value = value] \in Rows
              /\ [[row EXCEPT !.id = 0] EXCEPT !.value = value]
                   = [[row EXCEPT !.value = value] EXCEPT !.id = 0]
         /\ [row EXCEPT !.enabled = ~ @] \in Rows
         /\ [[row EXCEPT !.id = 0] EXCEPT !.enabled = ~ @] \in Rows
         /\ [[row EXCEPT !.id = 0] EXCEPT !.enabled = ~ @]
              = [[row EXCEPT !.enabled = ~ @] EXCEPT !.id = 0]
BY DEF Rows

\* A turn of the user is counted.
LEMMA TurnKeeps ==
  ASSUME resp \in ResponsePages, NEW p \in ResponsePages, RowsInOrder(p), EditInOrder(p), Turn(p)
  PROVE  ResponseIInv'
<1>1. resp.moves + 1 \in 0 .. MaxTurns /\ resp' = [p EXCEPT !.moves = resp.moves + 1]
  BY ResponseConstants DEF ResponseConstants, Turn, ResponsePages
<1>2. resp' \in ResponsePages
  BY <1>1 DEF ResponsePages
<1>3. /\ resp'.consumers = p.consumers /\ resp'.selected = p.selected /\ resp'.key = p.key
      /\ resp'.rows = p.rows /\ resp'.typed = p.typed /\ resp'.edited = p.edited
      /\ resp'.payload = p.payload
  BY <1>1 DEF ResponsePages
<1>4. Of(resp)' = Of(p)
  BY <1>3 DEF Of
<1>5. RowsInOrder(resp)'
  BY <1>3, <1>4 DEF RowsInOrder
<1>6. EditInOrder(resp)'
  BY <1>3, <1>4 DEF EditInOrder
<1> QED
  BY <1>2, <1>5, <1>6 DEF ResponseIInv

\* An edit of the rows.
LEMMA EditKeeps ==
  ASSUME ResponseIInv, NEW rows \in Seq(Rows), NEW typed, typed = Said(rows), Edit(rows, typed)
  PROVE  ResponseIInv'
<1> DEFINE last == IF Len(rows) > Len(resp.rows) THEN resp.lastId + 1 ELSE resp.lastId
           q == [resp EXCEPT !.rows = rows, !.typed = typed, !.edited = TRUE, !.lastId = last]
<1>1. resp \in ResponsePages /\ resp.key = Of(resp).id /\ resp.lastId \in Nat
  BY DEF ResponseIInv, RowsInOrder, ResponsePages
<1>2. Turn(applyResponseStateToConsumer(q))
  BY DEF Edit
<1>3. last \in Nat /\ typed \in Seq(Rows)
  BY <1>1, SaidIs
<1> HIDE DEF last
<1>4. q \in ResponsePages
  BY <1>1, <1>3 DEF ResponsePages
<1>5. /\ q.consumers = resp.consumers /\ q.selected = resp.selected /\ q.key = resp.key
      /\ q.rows = rows /\ q.typed = typed
  BY <1>1 DEF ResponsePages
<1> HIDE DEF q
<1>6. Of(q) = Of(resp)
  BY <1>5 DEF Of
<1>7. q.key = Of(q).id /\ Said(q.rows) = q.typed
  BY <1>1, <1>5, <1>6
<1>8. /\ applyResponseStateToConsumer(q) \in ResponsePages
      /\ RowsInOrder(applyResponseStateToConsumer(q))
      /\ EditInOrder(applyResponseStateToConsumer(q))
  BY <1>4, <1>7, AppliedIs
<1> QED
  BY <1>1, <1>2, <1>8, TurnKeeps

\* Another output than an answer is chosen.
LEMMA OutputKeeps ==
  ASSUME NEW p \in ResponsePages, RowsInOrder(p), EditInOrder(p),
         NEW mode \in OutputModes, mode # "response",
         NEW m, m = [p EXCEPT !.consumers[p.selected] = [@ EXCEPT !.mode = mode, !.out = NoAnswer],
                              !.shown = mode]
  PROVE  m \in ResponsePages /\ RowsInOrder(m) /\ EditInOrder(m)
<1> DEFINE c == [Of(p) EXCEPT !.mode = mode, !.out = NoAnswer]
<1>1. m = WithConsumer(p, c, mode)
  BY DEF WithConsumer, Of
<1>2. Of(p) \in Consumers
  BY OfIs
<1>3. /\ c \in Consumers /\ c.id = Of(p).id /\ c.response = Of(p).response /\ c.mode = mode
  BY <1>2 DEF Consumers, MaybeAnswers
<1> HIDE DEF c
<1>4. /\ m \in ResponsePages /\ Of(m) = c /\ m.selected = p.selected /\ m.key = p.key
      /\ m.rows = p.rows /\ m.typed = p.typed /\ m.edited = p.edited /\ m.payload = p.payload
  BY <1>1, <1>3, ConsumerIs
<1>5. /\ responseRowsMatchConsumer(p.rows, c) = responseRowsMatchConsumer(p.rows, Of(p))
      /\ RowsOf(c) = RowsOf(Of(p))
  BY <1>3 DEF responseRowsMatchConsumer, RowsOf, responseRowsFromConsumer
<1>6. RowsInOrder(m)
  BY <1>3, <1>4, <1>5 DEF RowsInOrder
<1>7. EditInOrder(m)
  BY <1>3, <1>4 DEF EditInOrder
<1> QED
  BY <1>4, <1>6, <1>7

\* A row for a header is added.
LEMMA HeaderAddKeeps ==
  ASSUME ResponseIInv, addConsumerResponseHeader
  PROVE  ResponseIInv'
<1> DEFINE row(id) == RowOf(id, NoText, NoText)
           rows == Append(resp.rows, row(resp.lastId + 1))
           typed == Append(resp.typed, row(0))
<1>1. Edit(rows, typed)
  BY DEF addConsumerResponseHeader, RowOf
<1>2. resp.rows \in Seq(Rows) /\ resp.lastId + 1 \in Nat /\ Said(resp.rows) = resp.typed
  BY DEF ResponseIInv, ResponsePages, RowsInOrder
<1>3. \A id \in Nat : row(id) \in Rows
  BY ResponseConstants DEF ResponseConstants, RowOf, Rows
<1>4. row(0) = [row(resp.lastId + 1) EXCEPT !.id = 0]
  BY RowSaid
<1> HIDE DEF row
<1>5. rows \in Seq(Rows) /\ Said(rows) = typed
  BY <1>2, <1>3, <1>4, RowAdded
<1> HIDE DEF rows, typed
<1> QED
  BY <1>1, <1>5, EditKeeps

\* A row is typed into.
LEMMA RowEditKeeps ==
  ASSUME ResponseIInv, NEW i \in DOMAIN resp.rows, NEW row \in Rows, NEW said \in Rows,
         said = [row EXCEPT !.id = 0],
         Edit([resp.rows EXCEPT ![i] = row], [resp.typed EXCEPT ![i] = said])
  PROVE  ResponseIInv'
<1>1. resp.rows \in Seq(Rows) /\ Said(resp.rows) = resp.typed
  BY DEF ResponseIInv, ResponsePages, RowsInOrder
<1>2. /\ [resp.rows EXCEPT ![i] = row] \in Seq(Rows)
      /\ Said([resp.rows EXCEPT ![i] = row]) = [resp.typed EXCEPT ![i] = said]
  BY <1>1, RowChanged
<1> QED
  BY <1>2, EditKeeps

\* The key or the value of a row is typed, or the row is switched on or off.
LEMMA UpdateKeeps ==
  ASSUME ResponseIInv, NEW i \in DOMAIN resp.rows,
         updateConsumerResponseHeader(i) \/ toggleConsumerResponseHeader(i)
  PROVE  ResponseIInv'
<1> DEFINE row == resp.rows[i]
           said == [row EXCEPT !.id = 0]
<1>1. resp.rows \in Seq(Rows) /\ Said(resp.rows) = resp.typed
  BY DEF ResponseIInv, ResponsePages, RowsInOrder
<1>2. row \in Rows /\ resp.typed[i] = said
  BY <1>1, SaidIs
<1>3. CASE \E key \in HeaderNames :
             Edit([resp.rows EXCEPT ![i].key = key], [resp.typed EXCEPT ![i].key = key])
  <2>1. PICK key \in HeaderNames :
          Edit([resp.rows EXCEPT ![i] = [row EXCEPT !.key = key]],
               [resp.typed EXCEPT ![i] = [resp.typed[i] EXCEPT !.key = key]])
    BY <1>3
  <2> DEFINE row2 == [row EXCEPT !.key = key]
             said2 == [said EXCEPT !.key = key]
  <2>2. Edit([resp.rows EXCEPT ![i] = row2], [resp.typed EXCEPT ![i] = said2])
    BY <1>2, <2>1
  <2> HIDE DEF row
  <2>3. row2 \in Rows /\ said2 \in Rows /\ said2 = [row2 EXCEPT !.id = 0]
    BY <1>2, RowEdited
  <2> HIDE DEF row2, said2
  <2> QED
    BY <2>2, <2>3, RowEditKeeps
<1>4. CASE \E value \in HeaderValues :
             Edit([resp.rows EXCEPT ![i].value = value], [resp.typed EXCEPT ![i].value = value])
  <2>1. PICK value \in HeaderValues :
          Edit([resp.rows EXCEPT ![i] = [row EXCEPT !.value = value]],
               [resp.typed EXCEPT ![i] = [resp.typed[i] EXCEPT !.value = value]])
    BY <1>4
  <2> DEFINE row2 == [row EXCEPT !.value = value]
             said2 == [said EXCEPT !.value = value]
  <2>2. Edit([resp.rows EXCEPT ![i] = row2], [resp.typed EXCEPT ![i] = said2])
    BY <1>2, <2>1
  <2> HIDE DEF row
  <2>3. row2 \in Rows /\ said2 \in Rows /\ said2 = [row2 EXCEPT !.id = 0]
    BY <1>2, RowEdited
  <2> HIDE DEF row2, said2
  <2> QED
    BY <2>2, <2>3, RowEditKeeps
<1>5. CASE toggleConsumerResponseHeader(i)
  <2> DEFINE row2 == [row EXCEPT !.enabled = ~ @]
             said2 == [said EXCEPT !.enabled = ~ @]
  <2>1. Edit([resp.rows EXCEPT ![i] = [row EXCEPT !.enabled = ~ @]],
             [resp.typed EXCEPT ![i] = [resp.typed[i] EXCEPT !.enabled = ~ @]])
    BY <1>5 DEF toggleConsumerResponseHeader
  <2>2. Edit([resp.rows EXCEPT ![i] = row2], [resp.typed EXCEPT ![i] = said2])
    BY <1>2, <2>1
  <2> HIDE DEF row
  <2>3. row2 \in Rows /\ said2 \in Rows /\ said2 = [row2 EXCEPT !.id = 0]
    BY <1>2, RowEdited
  <2> HIDE DEF row2, said2
  <2> QED
    BY <2>2, <2>3, RowEditKeeps
<1> QED
  BY <1>3, <1>4, <1>5 DEF updateConsumerResponseHeader

\* A row for a header is removed.
LEMMA RemoveKeeps ==
  ASSUME ResponseIInv, NEW i \in DOMAIN resp.rows, removeConsumerResponseHeader(i)
  PROVE  ResponseIInv'
<1>1. resp.rows \in Seq(Rows) /\ Said(resp.rows) = resp.typed
  BY DEF ResponseIInv, ResponsePages, RowsInOrder
<1>2. RemoveAt(resp.rows, i) \in Seq(Rows)
      /\ Said(RemoveAt(resp.rows, i)) = RemoveAt(resp.typed, i)
  BY <1>1, RowRemoved
<1> QED
  BY <1>2, EditKeeps DEF removeConsumerResponseHeader

\* The payload is typed.
LEMMA PayloadKeeps ==
  ASSUME ResponseIInv, updateConsumerResponsePayload
  PROVE  ResponseIInv'
<1>1. resp \in ResponsePages /\ resp.key = Of(resp).id /\ Said(resp.rows) = resp.typed
  BY DEF ResponseIInv, RowsInOrder
<1>2. PICK payload \in Bodies :
        Turn(applyResponseStateToConsumer([resp EXCEPT !.payload = payload, !.edited = TRUE]))
  BY DEF updateConsumerResponsePayload
<1> DEFINE q == [resp EXCEPT !.payload = payload, !.edited = TRUE]
<1>3. q \in ResponsePages
  BY <1>1 DEF ResponsePages
<1>4. /\ q.consumers = resp.consumers /\ q.selected = resp.selected /\ q.key = resp.key
      /\ q.rows = resp.rows /\ q.typed = resp.typed
  BY <1>1 DEF ResponsePages
<1> HIDE DEF q
<1>5. q.key = Of(q).id /\ Said(q.rows) = q.typed
  BY <1>1, <1>4 DEF Of
<1>6. /\ applyResponseStateToConsumer(q) \in ResponsePages
      /\ RowsInOrder(applyResponseStateToConsumer(q))
      /\ EditInOrder(applyResponseStateToConsumer(q))
  BY <1>3, <1>5, AppliedIs
<1>7. Turn(applyResponseStateToConsumer(q))
  BY <1>2 DEF q
<1> QED
  BY <1>1, <1>6, <1>7, TurnKeeps

\* An output is chosen.
LEMMA ChoiceKeeps ==
  ASSUME ResponseIInv, NEW mode \in OutputModes, setConsumerOutputModeAction(mode)
  PROVE  ResponseIInv'
<1> DEFINE Output(m) == [resp EXCEPT !.consumers[resp.selected] =
                                       [@ EXCEPT !.mode = m, !.out = NoAnswer], !.shown = m]
           q == [resp EXCEPT !.shown = mode, !.edited = TRUE]
<1>1. /\ resp \in ResponsePages /\ resp.key = Of(resp).id /\ Said(resp.rows) = resp.typed
      /\ RowsInOrder(resp) /\ EditInOrder(resp)
  BY DEF ResponseIInv, RowsInOrder
<1>2. \/ mode # "response" /\ Turn(Output(mode))
      \/ Turn(renderSelectedConsumer(Output("none")))
      \/ Turn(applyResponseStateToConsumer(q))
  BY Zenon DEF setConsumerOutputModeAction, OutputModes
<1>3. \A m \in OutputModes : m # "response" =>
        Output(m) \in ResponsePages /\ RowsInOrder(Output(m)) /\ EditInOrder(Output(m))
  BY <1>1, OutputKeeps, Zenon
<1> HIDE DEF Output
<1>4. CASE mode # "response" /\ Turn(Output(mode))
  BY <1>1, <1>3, <1>4, TurnKeeps
<1>5. CASE Turn(renderSelectedConsumer(Output("none")))
  <2>1. Output("none") \in ResponsePages /\ RowsInOrder(Output("none"))
        /\ EditInOrder(Output("none"))
    BY <1>3 DEF OutputModes
  <2> QED
    BY <1>1, <1>5, <2>1, RenderKeeps, TurnKeeps
<1>6. CASE Turn(applyResponseStateToConsumer(q))
  <2>1. q \in ResponsePages
    BY <1>1 DEF ResponsePages
  <2>2. /\ q.consumers = resp.consumers /\ q.selected = resp.selected /\ q.key = resp.key
        /\ q.rows = resp.rows /\ q.typed = resp.typed
    BY <1>1 DEF ResponsePages
  <2> HIDE DEF q
  <2>3. q.key = Of(q).id /\ Said(q.rows) = q.typed
    BY <1>1, <2>2 DEF Of
  <2>4. /\ applyResponseStateToConsumer(q) \in ResponsePages
        /\ RowsInOrder(applyResponseStateToConsumer(q))
        /\ EditInOrder(applyResponseStateToConsumer(q))
    BY <2>1, <2>3, AppliedIs
  <2> QED
    BY <1>1, <1>6, <2>4, TurnKeeps
<1> QED
  BY <1>2, <1>4, <1>5, <1>6

-----------------------------------------------------------------------------
(* Saves.                                                                  *)

\* What the page and the server make of a consumer is one.
LEMMA ConsumersAre ==
  ASSUME NEW c \in Consumers
  PROVE  normalizeConsumerConfig(c) \in Consumers /\ update_config(c) \in Consumers
<1>1. /\ c.id \in Nat /\ c.mode \in OutputModes
      /\ c.out \in MaybeAnswers /\ c.response \in MaybeAnswers
  BY DEF Consumers
<1>2. \A r \in MaybeAnswers : normalizeConsumerResponse(r) \in MaybeAnswers
  BY NormalizedIs
<1>3. NoAnswer \in MaybeAnswers
  BY DEF MaybeAnswers
<1>4. normalizeConsumerConfig(c) \in Consumers
  <2>1. NoHeaders \in HeaderSets
    <3>1. NoHeaders \in [{} -> HeaderValues] /\ {} \in SUBSET HeaderNames
      BY DEF NoHeaders
    <3> QED
      BY <3>1 DEF HeaderSets
  <2>2. Answer(NoHeaders, NoText) \in MaybeAnswers
    BY <2>1, AnswerIs, ResponseConstants DEF ResponseConstants, MaybeAnswers
  <2>3. normalizeOutput(c) \in MaybeAnswers
    BY <1>1, <1>3, <2>2, Zenon DEF normalizeOutput
  <2> DEFINE out == normalizeOutput(c)
             response == normalizeConsumerResponse(c.response)
  <2>4. normalizeConsumerConfig(c) = [c EXCEPT !.out = out, !.response = response]
    BY DEF normalizeConsumerConfig
  <2>5. out \in MaybeAnswers /\ response \in MaybeAnswers
    BY <1>1, <1>2, <2>3
  <2> HIDE DEF out, response
  <2> QED
    BY <2>4, <2>5 DEF Consumers
<1>5. update_config(c) \in Consumers
  <2> DEFINE a == migrate_legacy_consumer_response(c)
             b == normalize_consumer_output(a)
             fallback == normalizeConsumerResponse(a.response)
             own == normalizeConsumerResponse(a.out)
             out == IF own # NoAnswer THEN own ELSE fallback
             response == IF b.mode = "response" THEN b.out ELSE NoAnswer
  <2>1. a \in Consumers
    BY <1>1, <1>3 DEF migrate_legacy_consumer_response, Consumers, OutputModes
  <2>2. b = a \/ b = [a EXCEPT !.out = out] \/ b = [a EXCEPT !.mode = "response", !.out = fallback]
    <3>1. a.mode \in {"none", "publisher", "response"}
      BY <2>1 DEF Consumers, OutputModes
    <3> QED
      BY <3>1 DEF normalize_consumer_output
  <2>3. update_config(c) = [b EXCEPT !.response = response]
    BY DEF update_config
  <2> HIDE DEF a
  <2>4. fallback \in MaybeAnswers /\ own \in MaybeAnswers
    BY <1>2, <2>1 DEF Consumers
  <2> HIDE DEF fallback, own, b
  <2>5. b \in Consumers
    BY <2>1, <2>2, <2>4 DEF Consumers, OutputModes
  <2>6. response \in MaybeAnswers
    BY <1>3, <2>5 DEF Consumers
  <2> HIDE DEF response
  <2> QED
    BY <2>3, <2>5, <2>6 DEF Consumers
<1> QED
  BY <1>4, <1>5

\* The page as it is loaded.
LEMMA LoadedIs ==
  ASSUME NEW server \in [1 .. Count -> Consumers]
  PROVE  /\ initConsumers(server) \in ResponsePages
         /\ RowsInOrder(initConsumers(server)) /\ EditInOrder(initConsumers(server))
<1> DEFINE consumers == [i \in DOMAIN server |-> normalizeConsumerConfig(server[i])]
           asked == [i \in DOMAIN server |-> server[i].mode]
           p == [server |-> server, consumers |-> consumers,
                 selected |-> 1, key |-> 0, shown |-> "none", rows |-> <<>>, payload |-> NoText,
                 lastId |-> 0, saving |-> <<>>, landed |-> FALSE, asked |-> asked,
                 typed |-> <<>>, edited |-> FALSE, moves |-> 0]
<1>1. initConsumers(server) = Opened(restoreConsumerStateFromView(p, 1))
  BY DEF initConsumers
<1>2. consumers \in [1 .. Count -> Consumers] /\ asked \in [1 .. Count -> OutputModes]
  <2>1. \A i \in 1 .. Count : server[i] \in Consumers
    OBVIOUS
  <2>2. \A i \in 1 .. Count : server[i].mode \in OutputModes
    BY <2>1 DEF Consumers
  <2> QED
    BY <2>1, <2>2, ConsumersAre
<1>3. /\ 1 \in 1 .. Count /\ 0 \in 0 .. MaxTurns /\ NoText \in Bodies
      /\ "none" \in OutputModes /\ <<>> \in Seq(Rows) /\ 0 \in Nat
  BY ResponseConstants DEF ResponseConstants, OutputModes
<1> HIDE DEF consumers, asked
<1>4. p \in ResponsePages
  BY <1>2, <1>3 DEF ResponsePages
<1> HIDE DEF p
<1> QED
  BY <1>1, <1>3, <1>4, RestoredIs

\* The page as it is loaded first is in order.
LEMMA ResponseInitIs ==
  ASSUME ResponseInit
  PROVE  ResponseIInv
<1>1. PICK shapes \in [1 .. Count -> Shapes] :
        resp = initConsumers([i \in 1 .. Count |->
                 [id |-> i, mode |-> shapes[i].mode, out |-> shapes[i].out,
                  response |-> shapes[i].response]])
  BY DEF ResponseInit
<1> DEFINE server == [i \in 1 .. Count |->
                 [id |-> i, mode |-> shapes[i].mode, out |-> shapes[i].out,
                  response |-> shapes[i].response]]
<1>2. Given \in ConsumerAnswers
  <2> DEFINE v == CHOOSE v \in HeaderValues : v # NoText
             b == CHOOSE b \in Bodies : b \notin {NoText, Blank}
             keys == HeaderNames \ {NoText}
             h == [k \in keys |-> v]
  <2>1. v \in HeaderValues /\ b \in Bodies
    BY ResponseConstants DEF ResponseConstants
  <2>2. Given = Answer(h, b)
    BY DEF Given
  <2> HIDE DEF v, b
  <2>3. h \in [keys -> HeaderValues] /\ keys \in SUBSET HeaderNames
    BY <2>1
  <2> HIDE DEF h, keys
  <2>4. h \in HeaderSets
    BY <2>3 DEF HeaderSets
  <2> QED
    BY <2>1, <2>2, <2>4, AnswerIs
<1>3. \A x \in Shapes :
        x.mode \in OutputModes /\ x.out \in MaybeAnswers /\ x.response \in MaybeAnswers
  BY <1>2 DEF Shapes, Stored, OutputModes, MaybeAnswers
<1>4. \A i \in 1 .. Count : server[i] \in Consumers
  <2> TAKE i \in 1 .. Count
  <2>1. shapes[i] \in Shapes /\ i \in Nat
    BY ResponseConstants DEF ResponseConstants
  <2> QED
    BY <1>3, <2>1 DEF Consumers
<1>5. server \in [1 .. Count -> Consumers]
  BY <1>4
<1>6. resp = initConsumers(server)
  BY <1>1
<1> HIDE DEF server
<1> QED
  BY <1>5, <1>6, LoadedIs DEF ResponseIInv

\* The page is loaded again.
LEMMA ReloadKeeps ==
  ASSUME ResponseIInv, ResponseReload
  PROVE  ResponseIInv'
<1> DEFINE q == initConsumers(resp.server)
           m == [q EXCEPT !.asked = resp.asked]
<1>1. resp \in ResponsePages
  BY DEF ResponseIInv
<1>2. resp.server \in [1 .. Count -> Consumers] /\ resp.asked \in [1 .. Count -> OutputModes]
  BY <1>1 DEF ResponsePages
<1>3. q \in ResponsePages /\ RowsInOrder(q) /\ EditInOrder(q)
  BY <1>2, LoadedIs
<1>4. Turn(m)
  BY DEF ResponseReload
<1> HIDE DEF q
<1>5. m \in ResponsePages
  BY <1>2, <1>3 DEF ResponsePages
<1>6. /\ m.consumers = q.consumers /\ m.selected = q.selected /\ m.key = q.key
      /\ m.rows = q.rows /\ m.typed = q.typed /\ m.edited = q.edited /\ m.payload = q.payload
  BY <1>3 DEF ResponsePages
<1> HIDE DEF m
<1>7. Of(m) = Of(q)
  BY <1>6 DEF Of
<1>8. RowsInOrder(m) /\ EditInOrder(m)
  BY <1>3, <1>6, <1>7 DEF RowsInOrder, EditInOrder
<1> QED
  BY <1>1, <1>4, <1>5, <1>8, TurnKeeps

\* What only concerns the saves.
LEMMA SaveKeeps ==
  ASSUME ResponseIInv, NEW m \in ResponsePages, m.consumers = resp.consumers,
         m.selected = resp.selected, m.key = resp.key, m.rows = resp.rows,
         m.typed = resp.typed, m.edited = resp.edited, m.payload = resp.payload
  PROVE  RowsInOrder(m) /\ EditInOrder(m)
<1>1. Of(m) = Of(resp)
  BY DEF Of
<1> QED
  BY <1>1 DEF ResponseIInv, RowsInOrder, EditInOrder

\* A save begins, lands, is answered or fails.
LEMMA SavesKeep ==
  ASSUME ResponseIInv,
         saveCurrentConsumerAction \/ saveLands \/ saveConsumersSection \/ saveFails
  PROVE  ResponseIInv'
<1>1. resp \in ResponsePages
  BY DEF ResponseIInv
<1>2. /\ resp.server \in [1 .. Count -> Consumers] /\ resp.consumers \in [1 .. Count -> Consumers]
      /\ resp.selected \in 1 .. Count
      /\ resp.saving # <<>> => resp.saving \in [1 .. Count -> Consumers]
      /\ DOMAIN resp.asked = 1 .. Count
  BY <1>1 DEF ResponsePages
<1>3. CASE saveCurrentConsumerAction
  <2> DEFINE m == [resp EXCEPT !.saving = resp.consumers, !.landed = FALSE]
  <2>1. Turn(m)
    BY <1>3 DEF saveCurrentConsumerAction
  <2>2. m \in ResponsePages
    BY <1>1, <1>2 DEF ResponsePages
  <2>3. /\ m.consumers = resp.consumers /\ m.selected = resp.selected /\ m.key = resp.key
        /\ m.rows = resp.rows /\ m.typed = resp.typed /\ m.edited = resp.edited
        /\ m.payload = resp.payload
    BY <1>1 DEF ResponsePages
  <2> HIDE DEF m
  <2>4. RowsInOrder(m) /\ EditInOrder(m)
    BY <2>2, <2>3, SaveKeeps
  <2> QED
    BY <1>1, <2>1, <2>2, <2>4, TurnKeeps
<1>4. CASE saveLands
  <2> DEFINE server == [i \in 1 .. Count |-> update_config(resp.saving[i])]
             asked == [i \in 1 .. Count |-> resp.saving[i].mode]
             m == [resp EXCEPT !.landed = TRUE, !.server = server, !.asked = asked]
  <2>1. resp' = m /\ resp.saving \in [1 .. Count -> Consumers]
    BY <1>2, <1>4 DEF saveLands
  <2>2. server \in [1 .. Count -> Consumers]
    BY <2>1, ConsumersAre
  <2>3. asked \in [1 .. Count -> OutputModes]
    <3>1. \A i \in 1 .. Count : resp.saving[i] \in Consumers
      BY <2>1
    <3> QED
      BY <3>1 DEF Consumers
  <2> HIDE DEF server, asked
  <2>4. m \in ResponsePages
    BY <1>1, <2>2, <2>3 DEF ResponsePages
  <2>5. /\ m.consumers = resp.consumers /\ m.selected = resp.selected /\ m.key = resp.key
        /\ m.rows = resp.rows /\ m.typed = resp.typed /\ m.edited = resp.edited
        /\ m.payload = resp.payload
    BY <1>1 DEF ResponsePages
  <2> HIDE DEF m
  <2>6. RowsInOrder(m) /\ EditInOrder(m)
    BY <2>4, <2>5, SaveKeeps
  <2> QED
    BY <2>1, <2>4, <2>6 DEF ResponseIInv
<1>5. CASE saveConsumersSection
  <2> DEFINE consumers == [i \in 1 .. Count |-> normalizeConsumerConfig(resp.server[i])]
             m == [resp EXCEPT !.saving = <<>>, !.landed = FALSE, !.consumers = consumers]
  <2>1. resp' = Opened(restoreConsumerStateFromView(m, resp.selected))
    BY <1>2, <1>5 DEF saveConsumersSection
  <2>2. consumers \in [1 .. Count -> Consumers]
    BY <1>2, ConsumersAre
  <2> HIDE DEF consumers
  <2>3. m \in ResponsePages
    BY <1>1, <2>2 DEF ResponsePages
  <2> HIDE DEF m
  <2> QED
    BY <1>2, <2>1, <2>3, RestoredIs DEF ResponseIInv
<1>6. CASE saveFails
  <2> DEFINE m == [resp EXCEPT !.saving = <<>>, !.landed = FALSE]
  <2>1. resp' = m
    BY <1>6 DEF saveFails
  <2>2. m \in ResponsePages
    BY <1>1 DEF ResponsePages
  <2>3. /\ m.consumers = resp.consumers /\ m.selected = resp.selected /\ m.key = resp.key
        /\ m.rows = resp.rows /\ m.typed = resp.typed /\ m.edited = resp.edited
        /\ m.payload = resp.payload
    BY <1>1 DEF ResponsePages
  <2> HIDE DEF m
  <2>4. RowsInOrder(m) /\ EditInOrder(m)
    BY <2>2, <2>3, SaveKeeps
  <2> QED
    BY <2>1, <2>2, <2>4 DEF ResponseIInv
<1> QED
  BY <1>3, <1>4, <1>5, <1>6

-----------------------------------------------------------------------------

\* Every step.
LEMMA ResponseNextKeeps ==
  ASSUME ResponseIInv, [ResponseNext]_respVars
  PROVE  ResponseIInv'
<1>1. CASE addConsumerResponseHeader
  BY <1>1, HeaderAddKeeps
<1>2. ASSUME NEW i \in DOMAIN resp.rows,
             updateConsumerResponseHeader(i) \/ toggleConsumerResponseHeader(i)
               \/ removeConsumerResponseHeader(i)
      PROVE  ResponseIInv'
  BY <1>2, UpdateKeeps, RemoveKeeps
<1>3. CASE updateConsumerResponsePayload
  BY <1>3, PayloadKeeps
<1>4. ASSUME NEW mode \in OutputModes, setConsumerOutputModeAction(mode)
      PROVE  ResponseIInv'
  BY <1>4, ChoiceKeeps
<1>5. CASE statusArrives
  BY <1>5, RenderKeeps, TurnKeeps DEF statusArrives, ResponseIInv
<1>6. ASSUME NEW i \in DOMAIN resp.consumers, selectConsumer(i)
      PROVE  ResponseIInv'
  <2>1. resp \in ResponsePages /\ i \in 1 .. Count
    BY DEF ResponseIInv, ResponsePages
  <2> QED
    BY <1>6, <2>1, RestoredIs, TurnKeeps DEF selectConsumer
<1>7. CASE saveCurrentConsumerAction \/ saveLands \/ saveConsumersSection \/ saveFails
  BY <1>7, SavesKeep
<1>8. CASE ResponseReload
  BY <1>8, ReloadKeeps
<1>9. CASE UNCHANGED respVars
  BY <1>9 DEF respVars, ResponseIInv
<1> QED
  BY <1>1, <1>2, <1>3, <1>4, <1>5, <1>6, <1>7, <1>8, <1>9 DEF ResponseNext

\* The rows are in order whatever the user and the server do (the handlers of
\* consumers-view.ts that render the editor or write its rows through).
THEOREM ResponseInvariant == ResponseSpec => []ResponseIInv
<1>1. ResponseInit => ResponseIInv
  BY ResponseInitIs
<1>2. ResponseIInv /\ [ResponseNext]_respVars => ResponseIInv'
  BY ResponseNextKeeps
<1> QED
  BY <1>1, <1>2, PTL DEF ResponseSpec

\* The state of the editor of an answer (initConsumers) has its type.
THEOREM ResponseTypeCorrect == ResponseSpec => []ResponseTypeOK
<1>1. ResponseIInv => ResponseTypeOK
  BY DEF ResponseIInv, ResponsePages, ResponseTypeOK
<1> QED
  BY <1>1, ResponseInvariant, PTL

\* No render costs an edit in progress (responseRowsMatchConsumer), whatever
\* comes between edits: renders, other outputs, saves that land or fail.
THEOREM EditsAreKept == ResponseSpec => []RowsAreKept
<1>1. ResponseIInv => RowsAreKept
  BY DEF ResponseIInv, RowsInOrder, EditInOrder, RowsAreKept, Of, SameBody
<1> QED
  BY <1>1, ResponseInvariant, PTL
=============================================================================
