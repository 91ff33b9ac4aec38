----------------------------- MODULE UiDialogs -----------------------------
(***************************************************************************)
(* The dialogs of the page: whoever asks waits for the answer, one dialog  *)
(* is shown at a time and the others wait in line                          *)
(* (ui/src/lib/dialogs.ts, components/Dialog.svelte).                      *)
(*                                                                         *)
(* A dialog that the user dismisses hides first, and tells so when it has  *)
(* (wa-after-hide); until then its buttons answer, and what it tells may   *)
(* come when another dialog is shown.                                      *)
(***************************************************************************)
EXTENDS Naturals, Sequences

CONSTANT MaxDialogs \* bound

VARIABLE dlg

dialogVars == <<dlg>>

Dialogs  == 1 .. MaxDialogs
NoDialog == 0
Modes    == {"message", "confirm", "prompt", "choose"}

\* What the buttons of a dialog answer.  Of a text or a choice, that it is one.
Buttons == [message |-> {"true"}, confirm |-> {"true", "false"},
            prompt |-> {"value", "null"}, choose |-> {"value", "null"}]
Answers == {"true", "false", "value", "null"}
Open    == "open" \* the one who asked waits

\* Ghost: "meant" is what the user did with each dialog.
DialogInit ==
  dlg = [active |-> NoDialog, pending |-> <<>>, asked |-> 0, hiding |-> {},
         mode |-> [id \in Dialogs |-> "message"],
         answers |-> [id \in Dialogs |-> Open], meant |-> [id \in Dialogs |-> Open]]

showDialog(mode) ==
  LET id == dlg.asked + 1
      d  == [dlg EXCEPT !.asked = id, !.mode[id] = mode]
  IN  /\ dlg.asked < MaxDialogs
      /\ \/ /\ dlg.active # NoDialog
            /\ dlg' = [d EXCEPT !.pending = Append(@, id)]
         \/ /\ dlg.active = NoDialog
            /\ dlg' = [d EXCEPT !.active = id]

\* The promise is resolved and the next in line is shown.
Resolved(d, result) ==
  [d EXCEPT !.answers[d.active] = result,
            !.active  = IF d.pending = <<>> THEN NoDialog ELSE Head(d.pending),
            !.pending = IF d.pending = <<>> THEN <<>> ELSE Tail(d.pending)]

\* A bug: whatever dialog is shown is closed.
closesAny(d, result, expected) == IF d.active = NoDialog THEN d ELSE Resolved(d, result)

closeDialog(d, result, expected) ==
  IF d.active # expected \/ d.active = NoDialog THEN d ELSE Resolved(d, result)

handleClose(result) ==
  /\ dlg.active # NoDialog
  /\ result \in Buttons[dlg.mode[dlg.active]]
  /\ dlg' = closeDialog([dlg EXCEPT !.meant[dlg.active] = result], result, dlg.active)

\* The escape key or a click beside the dialog.
dismiss ==
  /\ dlg.active # NoDialog
  /\ dlg.active \notin dlg.hiding
  /\ dlg' = [dlg EXCEPT !.hiding = @ \cup {dlg.active}, !.meant[dlg.active] = "null"]

createAfterHideHandler(id) ==
  /\ id \in dlg.hiding
  /\ dlg' = closeDialog([dlg EXCEPT !.hiding = @ \ {id}], "null", id)

DialogNext ==
  \/ \E mode \in Modes : showDialog(mode)
  \/ \E result \in Answers : handleClose(result)
  \/ dismiss
  \/ \E id \in Dialogs : createAfterHideHandler(id)

DialogSpec == DialogInit /\ [][DialogNext]_dialogVars

-----------------------------------------------------------------------------
(* Properties.                                                             *)

DialogTypeOK ==
  dlg \in [active : Dialogs \cup {NoDialog}, pending : Seq(Dialogs), asked : 0 .. MaxDialogs,
           hiding : SUBSET Dialogs, mode : [Dialogs -> Modes],
           answers : [Dialogs -> Answers \cup {Open}], meant : [Dialogs -> Answers \cup {Open}]]

\* Whoever asks gets what the user did with that very dialog, and in the order
\* of asking; none is answered before it was shown, and nobody waits when no
\* dialog is shown (showDialog, closeDialog).
EachIsAnswered ==
  \A id \in 1 .. dlg.asked :
    /\ dlg.answers[id] # Open => dlg.answers[id] = dlg.meant[id]
    /\ dlg.answers[id] = Open <=> (dlg.active # NoDialog /\ id >= dlg.active)
=============================================================================
