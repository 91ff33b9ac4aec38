----------------------------- MODULE UiRequests -----------------------------
(***************************************************************************)
(* The request that the publishers view builds from its request bar and    *)
(* its header rows, the history entry that is made of it, and how showing  *)
(* the entry again puts the request back (ui/src/lib/publishers-view.ts,   *)
(* workspace-config.ts).                                                   *)
(*                                                                         *)
(* A text is a sequence of parts: of a URL the first part is the host and  *)
(* the others are its path.  One publisher is modelled; its payload, the   *)
(* answers that come late and the saves of the workspace are in            *)
(* UiPublishers.  Types of endpoint stand for their layouts: "http" has    *)
(* its URL, composed of two fields, "amqp" has two plain fields.           *)
(*                                                                         *)
(* The headers are kept in three places that do not follow each other      *)
(* everywhere: the rows of the panel (and of the browser's storage), the   *)
(* headers of the publisher, and the custom headers of its endpoint.       *)
(***************************************************************************)
EXTENDS Naturals, Sequences, SequencesExt

CONSTANTS
  MaxEdits,  \* bound: edits and page loads
  MaxRows,   \* bound: the header rows
  MaxSends   \* bound: the sends, each of which is answered

VARIABLE req

vars == <<req>>

Texts   == {<<>>, <<"h">>, <<"h", "p">>, <<"p">>}
Methods == {"", "GET"}
HeaderKeys == {"", "k"}
Values  == 0 .. 1

-----------------------------------------------------------------------------
(* Endpoints and their request bar.                                        *)

createDefaultPublisherEndpoint(type) ==
  IF type = "http"
  THEN [method |-> "POST", url |-> <<"h">>, path |-> <<>>, custom |-> <<>>]
  ELSE [queue |-> <<"p">>, url |-> <<"h">>]

REQUEST_BAR_LAYOUTS(type) == IF type = "http" THEN {"url"} ELSE {"queue", "url"}

IsUrl(text) == text # <<>> /\ text[1] = "h"

\* A bug: an address without a path leaves the old path.
hostOnly(config, text) ==
  IF ~ IsUrl(text) THEN [config EXCEPT !.url = text, !.path = <<>>]
  ELSE IF Tail(text) = <<>> THEN [config EXCEPT !.url = text]
  ELSE [config EXCEPT !.url = <<text[1]>>, !.path = Tail(text)]

applyHttpUrlToEndpoint(config, text) ==
  IF IsUrl(text) THEN [config EXCEPT !.url = <<text[1]>>, !.path = Tail(text)]
  ELSE [config EXCEPT !.url = text, !.path = <<>>]

composeHttpRequestUrl(config) ==
  IF config.path = <<>> \/ IsSuffix(config.path, config.url) THEN config.url
  ELSE config.url \o config.path

currentRequestBarValues(type, config) ==
  [f \in REQUEST_BAR_LAYOUTS(type) |->
     IF type = "http" THEN composeHttpRequestUrl(config) ELSE config[f]]

parsePathAndQuery(text) == IF IsUrl(text) THEN Tail(text) ELSE <<>>

-----------------------------------------------------------------------------
(* Header rows.  The ids by which the panel tells them apart are left out. *)

Enabled(row) == row.enabled /\ row.key # ""

\* Object.fromEntries: the last of the rows with one key counts.
ToMap(rows) ==
  LET on == SelectSeq(rows, Enabled)
  IN  {[k |-> on[i].key, v |-> on[i].value] :
         i \in {j \in DOMAIN on : \A l \in DOMAIN on :
                  l > j => on[l].key # on[j].key}}

\* The rows kept in the browser, or those of the configuration if it has none.
buildMetadataRows(r) ==
  IF r.local # <<>> THEN r.local
  ELSE IF r.type = "http"
  THEN [i \in DOMAIN r.config.custom |->
          [key |-> r.config.custom[i].k, value |-> r.config.custom[i].v, enabled |-> TRUE]]
  ELSE <<>>

renderSelectedPublisher(r) == [r EXCEPT !.rows = buildMetadataRows(r)]

\* The rows of the panel become those of the publisher and of its configuration.
syncMetadataRowsToPublisher(r, rows) ==
  LET custom == SetToSeq(ToMap(rows))
      synced == [r EXCEPT !.rows = rows, !.headers = rows, !.local = rows, !.from = "user"]
  IN  IF r.type = "http" THEN [synced EXCEPT !.config.custom = custom] ELSE synced

-----------------------------------------------------------------------------
(* The request and its history entry.                                      *)

buildPublishRequestDetails(r) ==
  LET values == currentRequestBarValues(r.type, r.config)
  IN  [metadata |-> ToMap(r.rows),
       fields |-> values,
       method |-> IF r.type # "http" THEN ""
                  ELSE IF r.config.method = "" THEN "POST" ELSE r.config.method,
       path |-> IF r.type = "http" THEN parsePathAndQuery(values["url"]) ELSE <<>>]

\* The headers of the publisher, not the rows of the panel, are recorded; the
\* request itself goes with it as it was sent.
buildHistoryEntry(r) ==
  LET details == buildPublishRequestDetails(r)
  IN  [headers |-> r.headers,
       metadata |-> SelectSeq(r.headers, Enabled),
       method |-> IF r.type = "http" THEN r.config.method ELSE "",
       http_method |-> details.method,
       fields |-> details.fields,
       request |-> details,
       from |-> r.from]

\* What the load of a page makes of an entry: without metadata, all its
\* headers count, the disabled ones too.
sanitizeHistoryEntry(entry) ==
  [entry EXCEPT !.metadata = IF @ # <<>> THEN @ ELSE entry.headers]

\* A field that was blank is left as it is.
requestValuesFromHistoryEntry(config, entry) ==
  [f \in DOMAIN config |->
     IF f \in DOMAIN entry.fields /\ entry.fields[f] # <<>> THEN entry.fields[f]
     ELSE config[f]]

\* Likewise the headers of an entry that has none.
applyHistoryRequestFieldsToPublisher(type, config, entry) ==
  IF type # "http" THEN requestValuesFromHistoryEntry(config, entry)
  ELSE LET method == IF entry.method # "" THEN entry.method ELSE entry.http_method
           c1 == [config EXCEPT !.method = method]
           c2 == IF entry.fields["url"] = <<>> THEN c1
                 ELSE applyHttpUrlToEndpoint(c1, entry.fields["url"])
       IN  IF entry.metadata = <<>> THEN c2
           ELSE [c2 EXCEPT !.custom =
                   SetToSeq(ToMap([i \in DOMAIN entry.metadata |->
                                     [entry.metadata[i] EXCEPT !.enabled = TRUE]]))]

\* All rows of an entry are enabled.  The headers of the publisher stay what they are.
Restored(r, entry) ==
  renderSelectedPublisher(
    [r EXCEPT !.config = applyHistoryRequestFieldsToPublisher(r.type, @, entry),
              !.from = "entry",
              !.local = [i \in DOMAIN entry.metadata |->
                           [entry.metadata[i] EXCEPT !.enabled = TRUE]]])

\* An answered send of the request that the panel shows.
Filed(r) ==
  renderSelectedPublisher(
    [r EXCEPT !.entries = <<buildHistoryEntry(r)>> \o @, !.timer = TRUE])

Document(r) == [config |-> r.config, headers |-> r.headers]

\* A document of the publisher, from the form or from the server, in its place.
\* The rows of the panel are those the browser keeps.
Taken(r, doc) ==
  renderSelectedPublisher(
    [r EXCEPT !.config = doc.config, !.headers = doc.headers,
              !.from = IF doc.headers = r.headers THEN @ ELSE "document"])

-----------------------------------------------------------------------------
\* A publisher that was just added, or one that was saved with its path in both
\* fields of its address and two rows of one key, which counts as an edit.
Stored(type) ==
  LET default == createDefaultPublisherEndpoint(type)
      both == [default EXCEPT !.url = <<"h", "p">>, !.path = <<"p">>,
                              !.custom = <<[k |-> "k", v |-> 1]>>]
      rows == [v \in 1 .. 2 |-> [key |-> "k", value |-> v - 1, enabled |-> TRUE]]
  IN  {[config |-> default, headers |-> <<>>]}
      \cup IF type = "http" THEN {[config |-> both, headers |-> rows]} ELSE {}

Init ==
  \E type \in {"http", "amqp"} : \E doc \in Stored(type) :
    req = [type |-> type, config |-> doc.config, headers |-> doc.headers,
           local |-> doc.headers, rows |-> doc.headers, entries |-> <<>>,
           saved |-> doc,    \* the publisher as the server stores it
           form |-> doc,     \* as the form of the definition holds it
           timer |-> FALSE,
           shown |-> 0,      \* history: the entry that was shown last, if nothing
                             \* was edited since
           from |-> "user",  \* history: who gave the rows, the user or an entry, if
                             \* no document took the headers of the publisher since
           edits |-> IF doc.headers = <<>> THEN 0 ELSE 1]

Becomes(r) ==
  /\ req.edits < MaxEdits
  /\ req' = [r EXCEPT !.edits = req.edits + 1, !.shown = 0]

updatePublisherMethod ==
  /\ req.type = "http"
  /\ \E method \in Methods : Becomes([req EXCEPT !.config.method = method])

updatePublisherRequestField ==
  \E field \in REQUEST_BAR_LAYOUTS(req.type), text \in Texts :
    Becomes(renderSelectedPublisher(
      IF req.type = "http"
      THEN [req EXCEPT !.config = applyHttpUrlToEndpoint(@, text)]
      ELSE [req EXCEPT !.config[field] = text]))

\* An edit in the form of the definition: the whole document that the form was
\* rendered with is taken, its address and headers as they were then.
renderPublisherForm == Becomes(Taken(req, req.form))

\* The publisher is opened again: the form is rendered anew.
restorePublisherStateFromView ==
  /\ req.form # Document(req)
  /\ req' = [renderSelectedPublisher(req) EXCEPT !.form = Document(req)]

addPublisherMetadataRow ==
  /\ Len(req.rows) < MaxRows
  /\ Becomes(syncMetadataRowsToPublisher(req,
       Append(req.rows, [key |-> "", value |-> 0, enabled |-> TRUE])))

updatePublisherMetadataRow ==
  \E i \in DOMAIN req.rows, key \in HeaderKeys, value \in Values :
    Becomes(syncMetadataRowsToPublisher(req,
      [req.rows EXCEPT ![i].key = key, ![i].value = value]))

togglePublisherMetadataRow ==
  \E i \in DOMAIN req.rows :
    Becomes(syncMetadataRowsToPublisher(req, [req.rows EXCEPT ![i].enabled = ~ @]))

removePublisherMetadataRow ==
  \E i \in DOMAIN req.rows :
    Becomes(syncMetadataRowsToPublisher(req, RemoveAt(req.rows, i)))

\* A send that is answered before anything else happens.
sendPublisherAction ==
  /\ Len(req.entries) < MaxSends
  /\ req' = [Filed(req) EXCEPT !.shown = 0]

showPublisherHistoryEntry ==
  \E i \in DOMAIN req.entries :
    /\ req.shown # i
    /\ req' = [Restored(req, req.entries[i]) EXCEPT !.shown = i]

\* The entry is shown, and is the next one when its request is filed again.
resendPublisherHistoryAction ==
  /\ Len(req.entries) < MaxSends
  /\ \E i \in DOMAIN req.entries :
       req' = [Filed(Restored(req, req.entries[i])) EXCEPT !.shown = i + 1]

\* Two seconds after an answer the history is saved, with the rest of the page's
\* configuration.
historySync ==
  /\ req.timer
  /\ req' = [req EXCEPT !.timer = FALSE, !.saved = Document(req)]

Reload ==
  LET loaded == Taken(req, req.saved)
  IN  Becomes([loaded EXCEPT !.form = req.saved, !.timer = FALSE,
                 !.entries = [i \in DOMAIN @ |-> sanitizeHistoryEntry(@[i])]])

Next ==
  \/ updatePublisherMethod
  \/ updatePublisherRequestField
  \/ renderPublisherForm
  \/ restorePublisherStateFromView
  \/ addPublisherMetadataRow
  \/ updatePublisherMetadataRow
  \/ togglePublisherMetadataRow
  \/ removePublisherMetadataRow
  \/ sendPublisherAction
  \/ showPublisherHistoryEntry
  \/ resendPublisherHistoryAction
  \/ historySync
  \/ Reload

-----------------------------------------------------------------------------
Repeats(was, now) ==
  /\ now.method = was.method
  /\ \A f \in DOMAIN was.fields :
       was.fields[f] # <<>> => now.fields[f] = was.fields[f]

HasHeadersOf(was, now) == was.metadata # {} => now.metadata = was.metadata

(* Showing an entry of the history again, after whatever edits, sends and  *)
(* page loads, builds the request that was sent: its method, its address   *)
(* and every field that was not blank, through all the conversions between *)
(* rows, configuration and request bar.  It has the headers that were sent *)
(* if the user typed them; what was sent with the rows of an entry, or     *)
(* after the form or a load brought an older document back, is filed with  *)
(* other headers, as neither showPublisherHistoryEntry nor the callback of *)
(* the form keeps rows and headers in step.  What was sent without headers *)
(* or with a blank field leaves those of the publisher as they are.        *)
ResendRepeats ==
  req.shown # 0 =>
    LET entry == req.entries[req.shown]
        now == buildPublishRequestDetails(req)
    IN  /\ Repeats(entry.request, now)
        /\ entry.from = "user" => HasHeadersOf(entry.request, now)

(* An entry that resendPublisherHistoryAction filed is the request that it *)
(* sent again: shown, it has the headers that were sent.  The code records *)
(* the headers of the publisher (buildHistoryEntry), not those it sent.    *)
ResentIsFiled ==
  req.shown # 0 =>
    LET entry == req.entries[req.shown]
    IN  entry.from = "entry" =>
          HasHeadersOf(entry.request, buildPublishRequestDetails(req))

=============================================================================
