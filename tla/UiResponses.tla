---------------------------- MODULE UiResponses ----------------------------
(***************************************************************************)
(* The editor of a consumer's answer: the rows of headers that the user    *)
(* types into while the page renders again whenever a status or messages   *)
(* arrive, and the way of an answer through a save                         *)
(* (ui/src/lib/consumers-view.ts, crates/core/src/ui_app.rs, config.rs).   *)
(*                                                                         *)
(* A consumer has an answer twice: in its output, from where it is given,  *)
(* and beside it, from where the editor has it.                            *)
(***************************************************************************)
EXTENDS Naturals, Sequences, SequencesExt, FiniteSetsExt

CONSTANTS
  Count,        \* how many consumers there are
  HeaderNames,  \* what is typed as the name of a header
  HeaderValues, \* as its value
  Bodies,       \* as the payload
  MaxRows,      \* bound: of the editor
  MaxTurns      \* bound: what the user does, and renders

NoText == ""
Blank  == " "

\* There are consumers, the bounds are numbers, and what is typed is nothing, or something.
ASSUME ResponseConstants ==
  /\ Count \in Nat \ {0} /\ MaxRows \in Nat /\ MaxTurns \in Nat
  /\ IsFiniteSet(HeaderNames) /\ NoText \in HeaderNames
  /\ NoText \in HeaderValues /\ \E v \in HeaderValues : v # NoText
  /\ {NoText, Blank} \subseteq Bodies /\ \E b \in Bodies : b \notin {NoText, Blank}

VARIABLE resp

respVars == <<resp>>

OutputModes == {"none", "publisher", "response"}

NoAnswer == [none |-> TRUE]
Answer(headers, payload) == [headers |-> headers, payload |-> payload]
NoHeaders == [k \in {} |-> NoText]

-----------------------------------------------------------------------------
(* Answers.                                                                *)

\* Headers without a name or a value are dropped, and then an answer that says
\* nothing.
normalizeConsumerResponse(r) ==
  IF r = NoAnswer THEN NoAnswer
  ELSE LET named == {k \in DOMAIN r.headers : k # NoText /\ r.headers[k] # NoText}
       IN  IF named = {} /\ r.payload \in {NoText, Blank} THEN NoAnswer
           ELSE Answer([k \in named |-> r.headers[k]], r.payload)

normalizeOutput(c) ==
  IF c.mode # "response" THEN NoAnswer
  ELSE IF c.out = NoAnswer THEN Answer(NoHeaders, NoText) ELSE c.out

normalizeConsumerConfig(c) ==
  [c EXCEPT !.out = normalizeOutput(c), !.response = normalizeConsumerResponse(@)]

\* The server's: an answer beside an output of none is taken for the output.
migrate_legacy_consumer_response(c) ==
  IF c.mode = "none" /\ c.response # NoAnswer
  THEN [c EXCEPT !.mode = "response", !.out = c.response, !.response = NoAnswer] ELSE c

normalize_consumer_output(c) ==
  LET fallback == normalizeConsumerResponse(c.response)
      own == normalizeConsumerResponse(c.out)
  IN  CASE c.mode = "publisher" -> c
        [] c.mode = "response" -> [c EXCEPT !.out = IF own # NoAnswer THEN own ELSE fallback]
        [] c.mode = "none" -> IF fallback = NoAnswer THEN c
                              ELSE [c EXCEPT !.mode = "response", !.out = fallback]

update_config(c) ==
  LET d == normalize_consumer_output(migrate_legacy_consumer_response(c))
  IN  [d EXCEPT !.response = IF d.mode = "response" THEN d.out ELSE NoAnswer]

-----------------------------------------------------------------------------
(* The editor.                                                             *)

responseRowsFromConsumer(c, id) ==
  LET r    == normalizeConsumerResponse(c.response)
      keys == IF r = NoAnswer THEN <<>> ELSE SetToSeq(DOMAIN r.headers)
  IN  [i \in DOMAIN keys |->
         [id |-> id + i, key |-> keys[i], value |-> r.headers[keys[i]], enabled |-> TRUE]]

\* Of rows with one name the last one counts.
headersFromResponseRows(rows) ==
  LET on == {i \in DOMAIN rows : rows[i].enabled /\ rows[i].key # NoText}
  IN  [k \in {rows[i].key : i \in on} |->
         rows[Max({i \in on : rows[i].key = k})].value]

\* A bug: the rows are compared with the answer as it will be saved.
matchNormalized(rows, c) ==
  LET r == normalizeConsumerResponse(c.response)
  IN  IF r = NoAnswer THEN rows = <<>> ELSE headersFromResponseRows(rows) = r.headers

responseRowsMatchConsumer(rows, c) ==
  IF c.response = NoAnswer THEN rows = <<>>
  ELSE headersFromResponseRows(rows) = c.response.headers

renderSelectedConsumer(p) ==
  LET c    == p.consumers[p.selected]
      r    == normalizeConsumerResponse(c.response)
      keep == p.key = c.id /\ responseRowsMatchConsumer(p.rows, c)
      rows == IF keep THEN p.rows ELSE responseRowsFromConsumer(c, p.lastId)
  IN  [p EXCEPT !.key = c.id, !.shown = c.mode, !.rows = rows,
                !.lastId = IF keep THEN @ ELSE @ + Len(rows),
                !.payload = IF r = NoAnswer THEN NoText ELSE r.payload]

applyResponseStateToConsumer(p) ==
  LET answer == Answer(headersFromResponseRows(p.rows), p.payload)
  IN  [p EXCEPT !.consumers[p.selected] =
                  [@ EXCEPT !.mode = "response", !.out = answer, !.response = answer]]

\* What a row says.
Said(rows) == [i \in DOMAIN rows |-> [rows[i] EXCEPT !.id = 0]]

restoreConsumerStateFromView(p, i) == renderSelectedConsumer([p EXCEPT !.selected = i])

\* Ghosts: "typed" are the rows as the user knows them, "edited" says whether
\* there is an edit since the editor was opened or saved.
Opened(p) == [p EXCEPT !.typed = Said(p.rows), !.edited = FALSE]

initConsumers(server) ==
  Opened(restoreConsumerStateFromView(
    [server |-> server, consumers |-> [i \in DOMAIN server |-> normalizeConsumerConfig(server[i])],
     selected |-> 1, key |-> 0, shown |-> "none", rows |-> <<>>, payload |-> NoText, lastId |-> 0,
     saving |-> <<>>, landed |-> FALSE, asked |-> [i \in DOMAIN server |-> server[i].mode],
     typed |-> <<>>, edited |-> FALSE, moves |-> 0], 1))

-----------------------------------------------------------------------------
(* Consumers as a file or an earlier page left them.                       *)

Given ==
  Answer([k \in HeaderNames \ {NoText} |-> CHOOSE v \in HeaderValues : v # NoText],
         CHOOSE b \in Bodies : b \notin {NoText, Blank})
Stored(mode, out, response) == [mode |-> mode, out |-> out, response |-> response]
Shapes == {Stored("none", NoAnswer, NoAnswer), Stored("publisher", NoAnswer, NoAnswer),
           Stored("response", Given, Given), Stored("response", Given, NoAnswer)}

ResponseInit ==
  \E shapes \in [1 .. Count -> Shapes] :
    resp = initConsumers([i \in 1 .. Count |->
             [id |-> i, mode |-> shapes[i].mode, out |-> shapes[i].out,
              response |-> shapes[i].response]])

Turn(p) == resp.moves < MaxTurns /\ resp' = [p EXCEPT !.moves = resp.moves + 1]

\* An edit is shown in the rows and written through.
Edit(rows, typed) ==
  /\ resp.shown = "response"
  /\ Turn(applyResponseStateToConsumer(
       [resp EXCEPT !.rows = rows, !.typed = typed, !.edited = TRUE,
                    !.lastId = IF Len(rows) > Len(resp.rows) THEN @ + 1 ELSE @]))

addConsumerResponseHeader ==
  LET row(id) == [id |-> id, key |-> NoText, value |-> NoText, enabled |-> TRUE]
  IN  /\ Len(resp.rows) < MaxRows
      /\ Edit(Append(resp.rows, row(resp.lastId + 1)), Append(resp.typed, row(0)))

updateConsumerResponseHeader(i) ==
  \/ \E key \in HeaderNames :
       Edit([resp.rows EXCEPT ![i].key = key], [resp.typed EXCEPT ![i].key = key])
  \/ \E value \in HeaderValues :
       Edit([resp.rows EXCEPT ![i].value = value], [resp.typed EXCEPT ![i].value = value])

toggleConsumerResponseHeader(i) ==
  Edit([resp.rows EXCEPT ![i].enabled = ~ @], [resp.typed EXCEPT ![i].enabled = ~ @])

removeConsumerResponseHeader(i) == Edit(RemoveAt(resp.rows, i), RemoveAt(resp.typed, i))

updateConsumerResponsePayload ==
  \E payload \in Bodies \ {resp.payload} :
    /\ resp.shown = "response"
    /\ Turn(applyResponseStateToConsumer([resp EXCEPT !.payload = payload, !.edited = TRUE]))

\* Without a publisher there is, the mode becomes none.
setConsumerOutputModeAction(mode) ==
  LET Output(m) == [resp EXCEPT !.consumers[resp.selected] =
                                  [@ EXCEPT !.mode = m, !.out = NoAnswer], !.shown = m]
  IN  /\ mode # resp.shown
      /\ CASE mode = "publisher" -> \/ Turn(Output(mode))
                                    \/ Turn(renderSelectedConsumer(Output("none")))
           [] mode = "response"  ->
                Turn(applyResponseStateToConsumer([resp EXCEPT !.shown = mode, !.edited = TRUE]))
           [] mode = "none"      -> Turn(Output(mode))

\* A status, messages, or a change in the consumer's form.
statusArrives == Turn(renderSelectedConsumer(resp))

selectConsumer(i) ==
  /\ i # resp.selected
  /\ Turn(Opened(restoreConsumerStateFromView(resp, i)))

\* Ghost: "asked" are the modes that the last save was to store.
saveCurrentConsumerAction ==
  /\ resp.saving = <<>>
  /\ Turn([resp EXCEPT !.saving = resp.consumers, !.landed = FALSE])

saveLands ==
  /\ resp.saving # <<>> /\ ~ resp.landed
  /\ resp' = [resp EXCEPT !.landed = TRUE,
                          !.server = [i \in DOMAIN @ |-> update_config(resp.saving[i])],
                          !.asked = [i \in DOMAIN @ |-> resp.saving[i].mode]]

\* What the server has is taken over.
saveConsumersSection ==
  /\ resp.landed /\ resp.saving # <<>>
  /\ resp' = Opened(restoreConsumerStateFromView(
               [resp EXCEPT !.saving = <<>>, !.landed = FALSE,
                  !.consumers = [i \in DOMAIN @ |-> normalizeConsumerConfig(resp.server[i])]],
               resp.selected))

saveFails ==
  /\ resp.saving # <<>>
  /\ resp' = [resp EXCEPT !.saving = <<>>, !.landed = FALSE]

ResponseReload == Turn([initConsumers(resp.server) EXCEPT !.asked = resp.asked])

ResponseNext ==
  \/ addConsumerResponseHeader
  \/ \E i \in DOMAIN resp.rows :
       updateConsumerResponseHeader(i) \/ toggleConsumerResponseHeader(i)
         \/ removeConsumerResponseHeader(i)
  \/ updateConsumerResponsePayload
  \/ \E mode \in OutputModes : setConsumerOutputModeAction(mode)
  \/ statusArrives
  \/ \E i \in DOMAIN resp.consumers : selectConsumer(i)
  \/ saveCurrentConsumerAction \/ saveLands \/ saveConsumersSection \/ saveFails
  \/ ResponseReload

ResponseSpec == ResponseInit /\ [][ResponseNext]_respVars

-----------------------------------------------------------------------------
(* What the page may hold.                                                 *)

HeaderSets == UNION {[S -> HeaderValues] : S \in SUBSET HeaderNames}
ConsumerAnswers == [headers : HeaderSets, payload : Bodies]
MaybeAnswers == ConsumerAnswers \cup {NoAnswer}
Consumers ==
  [id : Nat, mode : OutputModes, out : MaybeAnswers, response : MaybeAnswers]
Rows == [id : Nat, key : HeaderNames, value : HeaderValues, enabled : BOOLEAN]

ResponseTypeOK ==
  resp \in [server : [1 .. Count -> Consumers], consumers : [1 .. Count -> Consumers],
            selected : 1 .. Count, key : Nat, shown : OutputModes, rows : Seq(Rows),
            payload : Bodies, lastId : Nat, saving : [1 .. Count -> Consumers] \cup {<<>>},
            landed : BOOLEAN, asked : [1 .. Count -> OutputModes], typed : Seq(Rows),
            edited : BOOLEAN, moves : 0 .. MaxTurns]

-----------------------------------------------------------------------------
(* Properties.                                                             *)

\* No render costs an edit in progress: until another consumer is opened or a
\* save is answered, the rows say what the user typed into them, those that are
\* disabled or have no name or value yet included, and the answer that the
\* consumer gives is the one that the editor shows
\* (responseRowsMatchConsumer: "rebuilding them costs an edit in progress").
RowsAreKept ==
  /\ Said(resp.rows) = resp.typed
  /\ LET c == resp.consumers[resp.selected]
     IN  resp.edited /\ c.mode = "response" =>
           /\ c.out.headers = headersFromResponseRows(resp.rows)
           /\ c.out.payload = resp.payload \/ (c.out.payload = Blank /\ resp.payload = NoText)

\* The server stores the output that the user chose for a consumer: the editor
\* lets one "choose whether this consumer should acknowledge, forward to a
\* publisher, or return a custom response" (ConsumersPanel.svelte).
ChosenModeIsSaved ==
  \A i \in DOMAIN resp.server : resp.server[i].mode = resp.asked[i]
=============================================================================
