----------------------------- MODULE UiEntities -----------------------------
(***************************************************************************)
(* The publishers and consumers of the workspace as collections: documents *)
(* that are exported, imported and previewed, names that must not clash,   *)
(* and the references of consumers to publishers                           *)
(* (ui/src/lib/import-export.ts, workspace-config.ts, publishers-view.ts,  *)
(* consumers-view.ts).                                                     *)
(*                                                                         *)
(* A name is a sequence of parts, <<>> if blank; suffixes are parts.  An   *)
(* address is such a sequence too, its first part the host.  An id of 0 is *)
(* an absent one.  Documents are the inputs of imports.                    *)
(***************************************************************************)
EXTENDS Naturals, Sequences, SequencesExt, FiniteSetsExt, TLC

CONSTANTS
  Documents,  \* the documents of others
  MaxEntries, \* bound: publishers, and consumers
  MaxEdits    \* bound: steps

VARIABLE ent

vars == <<ent>>

Field(rows, Get(_)) == [i \in DOMAIN rows |-> Get(rows[i])]
NamesOf(rows) == {rows[i].name : i \in DOMAIN rows}
Ids(rows)   == {rows[i].id : i \in DOMAIN rows}
First(rows, Is(_)) == IF \E i \in DOMAIN rows : Is(rows[i])
                      THEN SelectSeq(rows, Is)[1] ELSE [id |-> 0, name |-> <<>>]
Numbered(base, sep, i) == IF i = 0 THEN base ELSE Append(base, sep \o ToString(i))
Unused(base, sep, used) ==
  Numbered(base, sep, Min({i \in 0 .. Cardinality(used) :
                             Numbered(base, sep, i) \notin used}))

NoOutput == [mode |-> "none", id |-> 0, name |-> <<>>]

-----------------------------------------------------------------------------
(* Names.                                                                  *)

\* A bug: the first suffix is not compared.
suffixOnce(base, used) == IF base \in used THEN Numbered(base, "_", 1) ELSE base

nextUniqueName(base, used) == Unused(base, "_", used)

nextUniquePublisherName(base, used) ==
  Unused(IF base = <<>> THEN <<"publisher">> ELSE base, " ", used)

normalizeNamedArray(rows) == SelectSeq(rows, LAMBDA r : r.name # <<>>)

mergeEntry(rows, row) ==
  Append(rows, [row EXCEPT !.name = nextUniqueName(row.name, NamesOf(rows))])

\* Ids are kept: those of a document may be those of the workspace.
mergeNamedEntries(currentRows, incomingRows) ==
  FoldLeft(mergeEntry, currentRows, incomingRows)

\* One that has no characters left gets a name of its own.
sanitizeConsumerName(name) == IF name = <<>> THEN <<"consumer">> ELSE name

-----------------------------------------------------------------------------
(* Presets of older versions become publishers.  A preset is a request for *)
(* the publisher "for"; requests of other tools have the same form.        *)

getRawPublisherStorageKey(p) == IF p.id # 0 THEN <<ToString(p.id)>> ELSE p.name

createDefaultRawPublisherEndpoint(type) ==
  [type |-> type, url |-> <<"localhost">>, path |-> <<>>]

\* Only an address of HTTP is taken apart.
applyLegacyRequestToRawPublisher(p, preset) ==
  [p EXCEPT !.endpoint =
     IF preset.url = <<>> THEN @
     ELSE IF preset.type = "http"
     THEN [@ EXCEPT !.url = <<preset.url[1]>>, !.path = Tail(preset.url)]
     ELSE [@ EXCEPT !.url = preset.url],
   !.payload = preset.payload]

sanitizePresets(presets) ==
  Field(presets, LAMBDA p : IF p.name = <<>> THEN [p EXCEPT !.name = <<"Imported preset">>]
                            ELSE p)

\* c has the publishers and the next free id; key is the name or id of one.
migratePreset(c, key, base, preset) ==
  LET fresh == [id |-> 0, name |-> key, payload |-> 0,
                endpoint |-> createDefaultRawPublisherEndpoint(preset.type)]
      p     == IF base.name = <<>> THEN fresh ELSE base
      name  == IF base.name = <<>> THEN preset.name ELSE base.name \o preset.name
  IN  [c EXCEPT !.publishers =
         Append(@, applyLegacyRequestToRawPublisher(
                     [p EXCEPT !.id = c.nextId,
                               !.name = nextUniquePublisherName(name, NamesOf(c.publishers))],
                     preset)),
       !.nextId = @ + 1]

migrateLegacyPresetsToPublishers(c) ==
  LET keys == FoldLeft(LAMBDA s, p : IF p.for \in ToSet(s) THEN s ELSE Append(s, p.for),
                       <<>>, c.presets)
      OfKey(d, key) ==
        LET base == First(d.publishers, LAMBDA p : getRawPublisherStorageKey(p) = key
                                                   \/ p.name = key)
        IN  FoldLeft(LAMBDA e, preset : migratePreset(e, key, base, preset), d,
                     SelectSeq(sanitizePresets(c.presets), LAMBDA p : p.for = key))
  IN  [FoldLeft(OfKey, c, keys) EXCEPT !.presets = <<>>]

\* An unknown mode, and none, are "balanced".
sanitizeConfigSecurity(mode) ==
  IF mode \in {"unencrypted", "balanced", "env_temporary_messages",
               "temporary_messages", "sensitive", "durable"}
  THEN mode ELSE "balanced"

migrateConfigSecurity(mode, extract_secrets) ==
  IF mode # "" THEN sanitizeConfigSecurity(mode)
  ELSE IF extract_secrets THEN "balanced" ELSE "unencrypted"

isSensitiveConfig(c) == sanitizeConfigSecurity(c.mode) \in {"sensitive", "durable"}

ensureWorkspaceCollections(c) ==
  [migrateLegacyPresetsToPublishers(c) EXCEPT !.mode = migrateConfigSecurity(@, TRUE)]

-----------------------------------------------------------------------------
(* Documents of other tools.                                               *)

Request(name, type, url) ==
  [for |-> <<>>, name |-> name, type |-> type, url |-> url, payload |-> 1]

\* Folders nest; an item may be a folder and have a request.
RECURSIVE flattenPostmanItems(_)
flattenPostmanItems(items) ==
  FlattenSeq([i \in DOMAIN items |->
    (IF items[i].url # <<>> THEN <<items[i]>> ELSE <<>>)
      \o flattenPostmanItems(items[i].item)])

parsePostmanCollection(doc) ==
  LET entries == flattenPostmanItems(doc.item)
  IN  [i \in DOMAIN entries |->
         Request(IF entries[i].name # <<>> THEN entries[i].name
                 ELSE <<"Postman request", ToString(i)>>, "http", entries[i].url)]

\* The operations of a path are taken in the order of this list.
parseOpenApiDocument(doc) ==
  FlattenSeq([i \in DOMAIN doc.paths |->
    LET methods == SelectSeq(<<"get", "post", "put", "delete", "patch", "head", "options">>,
                             LAMBDA m : m \in doc.paths[i].operations)
    IN  [j \in DOMAIN methods |->
           Request(<<methods[j], doc.paths[i].path>>, "http",
                   <<"baseUrl", doc.paths[i].path>>)]])

\* Version 3 lists operations that refer to channels, version 2 has them
\* in the channels; an operation whose channel is not there is left out.
resolveRef(doc, ref) == ref \in ToSet(doc.channels)

v3Operations(doc) ==
  LET found == SelectSeq(doc.operations, LAMBDA o : resolveRef(doc, o.channel))
  IN  Field(found, LAMBDA o : Request(o.name, "http", <<"baseUrl", o.channel>>))

v2Operations(doc) ==
  FlattenSeq([i \in DOMAIN doc.channels |->
    LET directions == SelectSeq(<<"PUBLISH", "SUBSCRIBE">>,
                                LAMBDA d : [d |-> d, channel |-> doc.channels[i]]
                                             \in doc.has)
    IN  [j \in DOMAIN directions |->
           Request(<<directions[j], doc.channels[i]>>, "http",
                   <<"baseUrl", doc.channels[i]>>)]])

parseAsyncApiDocument(doc) == IF doc.version = 3 THEN v3Operations(doc) ELSE v2Operations(doc)

\* The first format that finds a request is taken.
parseRequestImport(doc) ==
  CASE doc.type = "postman"  -> parsePostmanCollection(doc)
    [] doc.type = "openapi"  -> parseOpenApiDocument(doc)
    [] doc.type = "asyncapi" -> parseAsyncApiDocument(doc)
    [] OTHER                 -> <<>>

\* None is found: the import is refused.
extractImportedRequests(doc) == parseRequestImport(doc)

\* A document of its own, and one that keeps its configuration under "config";
\* a configuration without that, as it is in a file, has no type.
Own(doc)   == doc.type \in {"mqb-export", "mqb-config", "mqb-presets", ""}
Under(doc) == doc.type \in {"mqb-export", "mqb-config"}

EnvOf(doc) ==
  IF Own(doc) THEN doc.env
  ELSE IF doc.type \in {"openapi", "asyncapi"} THEN ("baseUrl" :> doc.server) ELSE <<>>

-----------------------------------------------------------------------------
(* References of consumers to publishers.                                  *)

findPublisherByOutputValue(publishers, value) ==
  LET byId == First(publishers, LAMBDA p : value.id # 0 /\ p.id = value.id)
  IN  IF byId.id # 0 THEN byId
      ELSE First(publishers, LAMBDA p : value.name # <<>> /\ p.name = value.name)

\* A publisher without an id gets one when it is offered.
nextPublisherOptions(e) ==
  LET Give(d, p) == [d EXCEPT !.publishers = Append(d.publishers,
                                [p EXCEPT !.id = IF p.id = 0 THEN d.nextId ELSE p.id]),
                              !.nextId = @ + 1]
  IN  FoldLeft(Give, [e EXCEPT !.publishers = <<>>], e.publishers)

\* What the panel shows as chosen: the id if there is such a publisher.
getSelectedPublisherValue(publishers, out) ==
  IF out.mode # "publisher" THEN NoOutput
  ELSE IF out.id \in Ids(publishers) \ {0} THEN [out EXCEPT !.name = <<>>]
  ELSE [out EXCEPT !.id = 0]

createConsumerPublisherOutput(publishers, value) ==
  LET p == findPublisherByOutputValue(publishers, value)
  IN  [mode |-> "publisher", id |-> p.id,
       name |-> IF p.id # 0 THEN p.name ELSE value.name]

\* Two maps: of one id the last publisher counts; a name that appears twice
\* is dropped, and taken up again when it appears a third time.
WithId(publishers, id) ==
  LET at == {i \in DOMAIN publishers : publishers[i].id = id}
  IN  IF id = 0 \/ at = {} THEN NoOutput ELSE publishers[Max(at)]
WithName(publishers, name) ==
  LET at == {i \in DOMAIN publishers : publishers[i].name = name}
  IN  IF name = <<>> \/ Cardinality(at) % 2 = 0 THEN NoOutput ELSE publishers[Max(at)]

\* A bug: names before ids.
nameFirst(publishers, out, previous) ==
  LET byName == WithName(publishers, out.name)
  IN  IF byName.id # 0 THEN byName ELSE WithId(publishers, out.id)

\* previous is what a publisher that was saved was called, if one was: an output
\* that still has that name goes with it.
Referred(publishers, out, previous) ==
  LET byId   == WithId(publishers, out.id)
      byName == WithName(publishers, out.name)
  IN  CASE byId.id # 0 -> byId
        [] byId.id = 0 /\ byName.id # 0 -> byName
        [] OTHER -> IF previous.name # <<>> /\ out.name = previous.name
                    THEN WithId(publishers, previous.id) ELSE NoOutput

syncConsumerPublisherReferences(publishers, consumers, previous) ==
  Field(consumers, LAMBDA c :
    LET p == Referred(publishers, c.out, previous)
    IN  IF c.out.mode # "publisher" \/ p.id = 0 THEN c
        ELSE [c EXCEPT !.out.id = p.id, !.out.name = p.name])

normalizeOutput(out) == IF out.mode = "publisher" THEN out ELSE NoOutput

normalizeConsumerConfig(c, id) ==
  [c EXCEPT !.id = IF @ = 0 THEN id ELSE @, !.out = normalizeOutput(@)]

\* The first publisher that has the id or the name.
resolveConsumerOutputEndpoint(out, publishers) ==
  First(publishers, LAMBDA p : \/ out.id # 0 /\ p.id = out.id
                               \/ out.name # <<>> /\ p.name = out.name)

buildConsumerRouteDoc(consumer, publishers) ==
  [name |-> consumer.name,
   output |-> IF consumer.out.mode = "publisher"
              THEN resolveConsumerOutputEndpoint(consumer.out, publishers).id ELSE 0]

-----------------------------------------------------------------------------
Publisher(id, name) == [id |-> id, name |-> name, payload |-> 0,
                        endpoint |-> createDefaultRawPublisherEndpoint("http")]
Consumer(id, name)  == [id |-> id, name |-> name, out |-> NoOutput]

Init ==
  ent = [publishers |-> <<Publisher(1, <<"a">>), Publisher(2, <<"b">>)>>,
         consumers |-> <<[Consumer(1, <<"a">>) EXCEPT !.out =
                            [mode |-> "publisher", id |-> 1, name |-> <<"a">>]]>>,
         presets |-> <<>>, env |-> <<>>, mode |-> "balanced", nextId |-> 3,
         file |-> <<>>, cache |-> "none", shown |-> <<>>, did |-> "", edits |-> 0]

Fits(e) == Len(e.publishers) <= MaxEntries /\ Len(e.consumers) <= MaxEntries

Does(did, e) ==
  /\ ent.edits < MaxEdits
  /\ Fits(e)
  /\ ent' = [e EXCEPT !.did = did, !.edits = ent.edits + 1]

\* The config and the env vars of the workspace.
exportFullBundle ==
  LET c == ensureWorkspaceCollections(ent)
  IN  Does("export", [c EXCEPT !.file =
        <<[type |-> "mqb-export", publishers |-> c.publishers, consumers |-> c.consumers,
           presets |-> <<>>, env |-> c.env, mode |-> c.mode]>>])

Inputs == Documents \cup ToSet(ent.file)

\* How the history of publishers is kept in the browser, by the mode and by
\* whether the page has the key of the server.
HistoryCache(c, key) ==
  IF c.mode \in {"env_temporary_messages", "temporary_messages", "durable"}
  THEN IF key THEN "encrypted" ELSE "none"
  ELSE IF isSensitiveConfig(c) THEN "none" ELSE "plain"

\* The server answers with what it was sent, or the import fails.
saveImportedConfig(did, c) ==
  \/ \E key \in BOOLEAN :
       LET saved == ensureWorkspaceCollections(c)
       IN  Does(did, [saved EXCEPT !.cache = HistoryCache(saved, key)])
  \/ Does("failed", ent)

\* The presets beside the configuration are added to those in it.  Where the
\* document is the configuration, that is the same ones again.
importAppConfigFromJsonText ==
  \E doc \in {d \in Inputs : Own(d)} :
    saveImportedConfig("import",
      [ent EXCEPT
        !.publishers = mergeNamedEntries(normalizeNamedArray(ent.publishers),
                                         normalizeNamedArray(doc.publishers)),
        !.consumers  = mergeNamedEntries(normalizeNamedArray(ent.consumers),
                                         normalizeNamedArray(doc.consumers)),
        !.presets = @ \o doc.presets \o (IF Under(doc) THEN <<>> ELSE doc.presets),
        !.env     = doc.env @@ @,
        !.mode    = IF doc.mode = "" THEN @ ELSE doc.mode])

\* Its configuration replaces that of the workspace; its env vars count only
\* if its presets do.  One that is neither an export nor presets is taken for a
\* document of requests, and refused if it has none.
importFromJsonText ==
  \E doc \in Inputs, includeConfig, includePresets \in BOOLEAN :
    LET own == doc.type \in {"mqb-export", "mqb-presets"}
        cfg == includeConfig /\ doc.type = "mqb-export"
        c   == IF cfg THEN [ent EXCEPT !.publishers = doc.publishers,
                                       !.consumers = doc.consumers, !.mode = doc.mode]
               ELSE ent
        rows == IF own THEN doc.presets
                ELSE Field(parseRequestImport(doc),
                           LAMBDA r : [r EXCEPT !.for = <<"a">>])
    IN  /\ includeConfig \/ includePresets
        /\ own \/ rows # <<>>
        /\ saveImportedConfig("replace",
             IF includePresets
             THEN [c EXCEPT !.presets = @ \o rows, !.env = EnvOf(doc) @@ @] ELSE c)

resetAppConfigToDefaults ==
  saveImportedConfig("reset", [ent EXCEPT !.publishers = <<>>, !.consumers = <<>>])

\* The address goes into the URL whole, after it was split.
importRequestsToPublishers ==
  \E doc \in {d \in Documents : ~ Own(d)} :
    LET requests == extractImportedRequests(doc)
        New(i)   == [id |-> ent.nextId + i, name |-> requests[i].name,
                     payload |-> requests[i].payload,
                     endpoint |-> [type |-> requests[i].type, url |-> requests[i].url,
                                   path |-> Tail(requests[i].url)]]
    IN  Does("requests",
          [ent EXCEPT !.publishers = @ \o [i \in DOMAIN requests |-> New(i)],
                      !.nextId = @ + Len(requests) + 1])

importMqbToPublisherAction ==
  \E doc \in {d \in Inputs : d.type = "mqb-presets"} :
    Does("presets", ensureWorkspaceCollections([ent EXCEPT !.presets = doc.presets]))

importAsyncApiToConsumerAction ==
  \E doc \in {d \in Documents : ~ Own(d)} :
    LET requests == extractImportedRequests(doc)
        Add(e, r) == [e EXCEPT
          !.consumers = Append(@, Consumer(e.nextId,
              nextUniqueName(sanitizeConsumerName(r.name), NamesOf(e.consumers)))),
          !.nextId = @ + 1]
    IN  Does("requests", FoldLeft(Add, ent, requests))

importMqbToConsumerAction ==
  \E doc \in {d \in Inputs : Under(d)} :
    LET Named(c)  == [c EXCEPT !.name = sanitizeConsumerName(@)]
        Add(e, c) ==
          [e EXCEPT !.consumers = mergeEntry(e.consumers,
                                             Named(normalizeConsumerConfig(c, e.nextId))),
                    !.nextId = @ + 1]
    IN  Does("merge", FoldLeft(Add, ent, doc.consumers))

cloneCurrentConsumerAction ==
  \E i \in DOMAIN ent.consumers :
    LET name == nextUniqueName(sanitizeConsumerName(ent.consumers[i].name)
                                 \o <<"_copy">>, NamesOf(ent.consumers))
    IN  Does("clone", [ent EXCEPT
          !.consumers = Append(@, [@[i] EXCEPT !.id = ent.nextId, !.name = name]),
          !.nextId = @ + 1])

renderPublisherForm ==
  \E i \in DOMAIN ent.publishers, name \in {<<>>, <<"a">>, <<"b">>} :
    Does("rename", [ent EXCEPT !.publishers[i].name = name])

deleteCurrentPublisherAction ==
  \E i \in DOMAIN ent.publishers :
    Does("delete", [ent EXCEPT !.publishers = RemoveAt(@, i)])

\* With one publisher it is chosen at once, with none the mode stays "none".
setConsumerOutputModeAction ==
  \E i \in DOMAIN ent.consumers, mode \in {"none", "publisher"} :
    LET e   == nextPublisherOptions(ent)
        ps  == e.publishers
        out == ent.consumers[i].out
    IN  Does("choose",
          IF mode = "none" \/ ps = <<>> THEN [ent EXCEPT !.consumers[i].out = NoOutput]
          ELSE [e EXCEPT !.consumers[i].out =
                  createConsumerPublisherOutput(ps,
                    IF Len(ps) = 1 THEN ps[1] ELSE getSelectedPublisherValue(ps, out))])

setConsumerOutputPublisherAction ==
  \E i \in DOMAIN ent.consumers, j \in DOMAIN ent.publishers :
    LET e == nextPublisherOptions(ent)
    IN  /\ ent.consumers[i].out.mode = "publisher"
        /\ Does("choose", [e EXCEPT !.consumers[i].out =
             createConsumerPublisherOutput(e.publishers, e.publishers[j])])

\* Nothing that the page calls passes a previous name: of the callers only
\* saveCurrentPublisherAction does, and no panel has a control for it.
initPublishers ==
  LET e == nextPublisherOptions(ent)
  IN  Does("sync", [e EXCEPT
        !.consumers = syncConsumerPublisherReferences(e.publishers, ent.consumers, NoOutput)])

currentConsumerConfigVariants ==
  \E i \in DOMAIN ent.consumers :
    Does("preview", [ent EXCEPT
      !.shown = <<buildConsumerRouteDoc(ent.consumers[i], ent.publishers)>>])

Next ==
  \/ exportFullBundle
  \/ importAppConfigFromJsonText
  \/ importFromJsonText
  \/ resetAppConfigToDefaults
  \/ importRequestsToPublishers
  \/ importMqbToPublisherAction
  \/ importAsyncApiToConsumerAction
  \/ importMqbToConsumerAction
  \/ cloneCurrentConsumerAction
  \/ renderPublisherForm
  \/ deleteCurrentPublisherAction
  \/ setConsumerOutputModeAction
  \/ setConsumerOutputPublisherAction
  \/ initPublishers
  \/ currentConsumerConfigVariants

-----------------------------------------------------------------------------
NamedOnly(rows) == SelectSeq(rows, LAMBDA r : r.name # <<>>)
NewNames(old, new) ==
  \A i \in Len(old) + 1 .. Len(new) :
    \A j \in 1 .. Len(new) : j # i => new[j].name # new[i].name

AnImportKeeps ==
  ent'.did = "import" /\ ent' # ent =>
    /\ IsPrefix(NamedOnly(ent.publishers), ent'.publishers)
    /\ IsPrefix(NamedOnly(ent.consumers), ent'.consumers)
    /\ NewNames(NamedOnly(ent.publishers), ent'.publishers)
    /\ NewNames(NamedOnly(ent.consumers), ent'.consumers)

(* An import of a configuration leaves every entry that has a name as it   *)
(* was, and none of the entries that it adds, the presets it turns into    *)
(* publishers among them, has the name of another                          *)
(* (importAppConfigFromJsonText, mergeNamedEntries, nextUniqueName,        *)
(* migrateLegacyPresetsToPublishers).                                      *)
ImportKeeps == [][AnImportKeeps]_vars

ASyncKeepsReferences ==
  ent'.did = "sync" /\ Cardinality(Ids(ent.publishers)) = Len(ent.publishers) =>
    \A i \in DOMAIN ent.consumers, j \in DOMAIN ent.publishers :
      LET out == ent.consumers[i].out
          p   == ent.publishers[j]
      IN  out.mode = "publisher" /\ out.id = p.id /\ p.id # 0 =>
            ent'.consumers[i].out = [out EXCEPT !.name = p.name]

(* As long as no two publishers have one id, an output that a user chose   *)
(* goes to that publisher however it and others are renamed, deleted or    *)
(* imported, and when the references are synced it has its present name    *)
(* (syncConsumerPublisherReferences, createConsumerPublisherOutput).       *)
ReferencesKeep == [][ASyncKeepsReferences]_vars

=============================================================================
