------------------------------- MODULE UiForm -------------------------------
(***************************************************************************)
(* The form in which an endpoint is edited: the kinds of endpoints that    *)
(* the backend's schema registers, the fields that the form shows of them, *)
(* the editors of the fields, and the normalisation of what they store     *)
(* (ui/src/lib/forms/custom-form.ts, endpoint-utils.ts,                    *)
(* endpoint-metadata.ts, schema-utils.ts, routes.ts).                      *)
(*                                                                         *)
(* An endpoint is [kind, at, mw]: "at" maps the fields of its config to    *)
(* tagged values, "mw" is the list of its middlewares.  The one value of a *)
(* scalar kind and the list of a fanout are a field of their own; a nested *)
(* endpoint is the name it refers to.  What the schema-form library does,  *)
(* as the code expects it, is in Seeded and Generic.                       *)
(***************************************************************************)
EXTENDS Naturals, Sequences, SequencesExt, FiniteSetsExt, TLC

CONSTANTS
  Schema,    \* kind -> [fields, required, structural], the backend's schema
  Documents, \* the endpoints there may be in a configuration
  MaxEdits   \* bound

VARIABLE form

vars == <<form>>

Null    == <<"null", "">>
Text(t) == <<"text", t>>
Flag(b) == <<"flag", b>>
Map(m)  == <<"map", m>>
List(s) == <<"list", s>>
Tag(v)  == v[1]
Val(v)  == v[2]

Has(m, f)    == f \in DOMAIN m
Put(m, f, v) == (f :> v) @@ m
Without(m, fs) == [f \in DOMAIN m \ fs |-> m[f]]

-----------------------------------------------------------------------------
(* The registry of endpoint kinds.                                         *)

ENDPOINT_KIND_OVERRIDES ==
  LET Transport(basic) == [basic |-> basic, structural |-> FALSE]
      Helper(basic, consumer) ==
        [basic |-> basic, structural |-> TRUE, publisher |-> TRUE, consumer |-> consumer]
  IN  [http   |-> Transport({"url", "path", "basic_auth"}),
       file   |-> Transport({"path", "format"}),
       static |-> Helper({"value"}, TRUE),
       ref    |-> [Helper({"value"}, FALSE) EXCEPT !.publisher = FALSE],
       switch |-> Helper({"metadata_key", "default", "cases", "when"}, FALSE),
       fanout |-> Helper({"items"}, FALSE)]

resolveMetadata(kind, structural, derived) ==
  LET over == IF Has(ENDPOINT_KIND_OVERRIDES, kind)
              THEN ENDPOINT_KIND_OVERRIDES[kind] ELSE <<>>
      Or(field, default) == IF Has(over, field) THEN over[field] ELSE default
  IN  [structural |-> structural, basic |-> Or("basic", derived),
       publisher |-> Or("publisher", TRUE), consumer |-> Or("consumer", ~ structural)]

seedFromOverrides ==
  [k \in DOMAIN ENDPOINT_KIND_OVERRIDES |->
     resolveMetadata(k, ENDPOINT_KIND_OVERRIDES[k].structural, {})]

deriveBasicFields(kind) ==
  IF Schema[kind].required = <<>> THEN {}
  ELSE ToSet(SubSeq(Schema[kind].required, 1, Min({4, Len(Schema[kind].required)})))

registerEndpointKindsFromSchema(registry) ==
  IF DOMAIN Schema = {} THEN registry
  ELSE [k \in DOMAIN Schema |->
          resolveMetadata(k, \/ Schema[k].structural
                             \/ Has(registry, k) /\ registry[k].structural,
                          deriveBasicFields(k))]

rebuildDerivedCollections(registry, role) == {k \in DOMAIN registry : registry[k][role]}

\* Transports first, the structural kinds under a heading.
getEndpointTypeGroups(registry, role) ==
  LET kinds == rebuildDerivedCollections(registry, role)
  IN  SelectSeq(<<{k \in kinds : ~ registry[k].structural},
                  {k \in kinds : registry[k].structural}>>, LAMBDA g : g # {})

-----------------------------------------------------------------------------
(* The fields that the form has.                                           *)

resolveRootArrayItemSchema(kind) == Schema[kind].fields

\* Optional nested endpoints have no editor; the format is pinned.
applyEndpointSchemaDefaults(fields) ==
  [f \in {g \in DOMAIN fields : fields[g].type # "endpoint or null"} |->
     IF f = "format" THEN [fields[f] EXCEPT !.default = Text("raw")] ELSE fields[f]]

\* A nested endpoint is edited as a reference.
forceRefOnlyEndpoints(fields) ==
  [f \in DOMAIN fields |->
     IF fields[f].type = "endpoint" THEN [fields[f] EXCEPT !.type = "ref"] ELSE fields[f]]

\* A superseded field is shown while the configuration still has it.
hideUnusedDeprecatedProperties(fields, at) ==
  [f \in {g \in DOMAIN fields : fields[g].deprecated => Has(at, g)} |-> fields[f]]

createConsumerFormSchema(endpoint) ==
  hideUnusedDeprecatedProperties(
    forceRefOnlyEndpoints(applyEndpointSchemaDefaults(
      resolveRootArrayItemSchema(endpoint.kind))), endpoint.at)

customVisibility(role, f, only) ==
  /\ only \in {"", role}
  /\ role = "publisher" => f \notin {"url", "method", "queue", "topic", "database", "path",
                                     "collection", "payload", "headers"}

\* The basic fields are open, the others are under "advanced options".
createEndpointRenderer(registry, kind, fields) ==
  LET visible == DOMAIN fields \cap registry[kind].basic
  IN  <<visible, DOMAIN fields \ visible>>

\* The fields that are rendered, each with the editor of its type.
renderConsumerForm(role, registry, endpoint) ==
  LET fields == createConsumerFormSchema(endpoint)
      parts  == createEndpointRenderer(registry, endpoint.kind, fields)
      shown  == {f \in parts[1] \cup parts[2] : customVisibility(role, f, fields[f].only)}
  IN  [f \in shown |-> fields[f].type]

\* The library stores the default of every field that it renders.
Seeded(endpoint) ==
  LET fields == createConsumerFormSchema(endpoint)
      absent == {f \in DOMAIN fields : fields[f].default # Null /\ ~ Has(endpoint.at, f)}
      Of(f)  == IF fields[f].type = "encryption" /\ Has(endpoint.at, f)
                THEN Map(Val(endpoint.at[f]) @@ Val(fields[f].default)) ELSE endpoint.at[f]
  IN  [endpoint EXCEPT !.at = [f \in absent |-> fields[f].default] @@
                              [f \in DOMAIN endpoint.at |->
                                 IF Has(fields, f) THEN Of(f) ELSE endpoint.at[f]]]

-----------------------------------------------------------------------------
(* The normalisation of endpoints.                                         *)

Nothing == [type |-> "missing"] \* in place of a list of middlewares

createDefaultEndpoint(kind) ==
  [kind |-> kind,
   at   |-> CASE kind \in {"static", "ref"} -> [value |-> Text("")]
              [] kind = "switch" -> [metadata_key |-> Text("type"), cases |-> Map(<<>>),
                                     default |-> Text("")]
              [] kind = "fanout" -> [items |-> List(<<"">>)]
              [] OTHER -> <<>>,
   mw   |-> IF kind \in {"static", "ref", "switch", "fanout"} THEN <<>>
            ELSE <<[type |-> "metrics"]>>]

normalizeMiddlewares(mw) ==
  LET Kept(m) == IF m.type = "dlq" /\ m.to = "none" THEN [m EXCEPT !.to = ""] ELSE m
      list    == SelectSeq(mw, LAMBDA m : m.type \notin {"junk", "missing"})
  IN  [i \in DOMAIN list |-> Kept(list[i])]

\* What a nested endpoint becomes that is not there.
Recursed(to) == IF to = "none" THEN "http" ELSE to

SEEDED_ENCRYPTION_DEFAULTS == [cipher |-> Text("xchacha20"), key_id |-> Text("default")]

isUnsetEncryption(encryption) ==
  /\ Tag(encryption) = "map"
  /\ \A f \in DOMAIN Val(encryption) :
       LET v == Val(encryption)[f]
       IN  \/ v \in {Null, Text("")}
           \/ Has(SEEDED_ENCRYPTION_DEFAULTS, f) /\ v = SEEDED_ENCRYPTION_DEFAULTS[f]

dropUnsetEncryption(at) ==
  IF Has(at, "encryption") /\ isUnsetEncryption(at["encryption"])
  THEN Without(at, {"encryption"}) ELSE at

predicateMode(at) == Has(at, "when") /\ Tag(at["when"]) = "list" /\ Val(at["when"]) # <<>>

normalizeSwitch(at) ==
  LET cases == IF Has(at, "cases") /\ Tag(at["cases"]) = "map" THEN Val(at["cases"]) ELSE <<>>
      key   == IF Has(at, "metadata_key") THEN at["metadata_key"] ELSE Text("")
      other == Put(Without(at, {"when", "metadata_key", "cases"}), "default",
                   IF Has(at, "default") THEN at["default"] ELSE Text(""))
  IN  IF predicateMode(at)
      THEN Put(other, "when", List([i \in DOMAIN Val(at["when"]) |->
                                      Recursed(Val(at["when"])[i])]))
      ELSE [metadata_key |-> IF key = Text("") THEN Text("type") ELSE key,
            cases |-> Map([c \in DOMAIN cases |-> Recursed(cases[c])])] @@ other

normalizeScalarEndpointValue(v) == \* a string, or an object that has one
  IF Tag(v) \in {"text", "object"} THEN Text(Val(v)) ELSE Text("")

ensureEndpointDefaults(e) ==
  LET first == createDefaultEndpoint(e.kind)
      \* `{ switch: ... }` of the data replaces the default's as a whole
      at == CASE e.kind = "switch" -> normalizeSwitch(e.at)
              [] e.kind = "fanout" ->
                   [items |-> IF Tag(e.at["items"]) = "list"
                              THEN List([i \in DOMAIN Val(e.at["items"]) |->
                                           Recursed(Val(e.at["items"])[i])])
                              ELSE first.at["items"]]
              [] e.kind \in {"static", "ref"} ->
                   [value |-> normalizeScalarEndpointValue(e.at["value"])]
              [] OTHER -> e.at
  IN  [kind |-> e.kind, at |-> dropUnsetEncryption(at),
       mw |-> normalizeMiddlewares(IF e.mw = <<Nothing>> THEN first.mw ELSE e.mw)]

-----------------------------------------------------------------------------
(* Copies between the sides: a client has one URL, a listener has an       *)
(* address and a path.  An address is <<"url", [host, path]>>.             *)

Url(host, path) == <<"url", [host |-> host, path |-> path]>>

splitEndpointUrl(v) == Val(v)

normalizeListenHost(host) == IF host = "localhost" THEN "127.0.0.1" ELSE host

getMutableClientEndpointParts(e) ==
  /\ e.kind = "http" /\ Has(e.at, "url")
  /\ splitEndpointUrl(e.at["url"]).host # ""

PathOf(at) == IF Has(at, "path") THEN Val(at["path"]) ELSE ""

createConsumerEndpointFromPublisherEndpoint(e) ==
  IF ~ getMutableClientEndpointParts(e) THEN e
  ELSE LET url  == splitEndpointUrl(e.at["url"])
           path == IF url.path # "" THEN url.path ELSE PathOf(e.at)
           at   == Put(e.at, "url", Url(normalizeListenHost(url.host), ""))
       IN  [e EXCEPT !.at = IF path # "" THEN Put(at, "path", Text(path))
                            ELSE Without(at, {"path"})]

createPublisherEndpointFromConsumerEndpoint(e) ==
  IF ~ getMutableClientEndpointParts(e) THEN e
  ELSE LET url  == splitEndpointUrl(e.at["url"])
           path == IF Has(e.at, "path") THEN PathOf(e.at) ELSE url.path
       IN  [e EXCEPT !.at = Without(Put(e.at, "url", Url(url.host, path)), {"path"})]

-----------------------------------------------------------------------------
(* Opening the form.  "stored" is the configuration in memory, "store" the *)
(* data of the form, "mapping" the rules of a transform as they were when  *)
(* the form was rendered, "late" what a timeout has to look at.  "wanted"  *)
(* and "addr" are ghosts: the config as the user means it, and the address *)
(* that it names.                                                          *)

Transforms(e) == {i \in DOMAIN e.mw : e.mw[i].type = "transform"}
TheTransform(e) == IF Transforms(e) = {} THEN [mapping |-> <<>>, schema |-> Null]
                   ELSE e.mw[Min(Transforms(e))]

Rows(m) == LET keys == SetToSeq(DOMAIN m)
           IN  [i \in DOMAIN keys |-> [key |-> keys[i], was |-> keys[i], value |-> m[keys[i]]]]

transformMappingRows(e) ==
  LET m == TheTransform(e).mapping IN Rows([k \in DOMAIN m |-> m[k].path])

headerRows(e) == IF Has(e.at, "custom_headers") THEN Rows(Val(e.at["custom_headers"])) ELSE <<>>

\* What the code says of a boolean that is null, at the top or in a tls block.
Mended(kind, f, v) ==
  LET type == IF Has(Schema[kind].fields, f) THEN Schema[kind].fields[f].type ELSE "none"
  IN  CASE type = "flag" /\ v = Null -> Flag(FALSE)
        [] type = "tls" /\ Tag(v) = "map" ->
             Map([k \in DOMAIN Val(v) |->
                    IF k = "required" /\ Val(v)[k] = Null THEN Flag(FALSE) ELSE Val(v)[k]])
        [] OTHER -> v

fixNullBooleans(e) == [e EXCEPT !.at = [f \in DOMAIN e.at |-> Mended(e.kind, f, e.at[f])]]

Address(role, at) ==
  IF ~ Has(at, "url") THEN <<>>
  ELSE LET url == Val(at["url"])
           own == Has(at, "path") /\ (role = "consumer" \/ url.path = "")
       IN  <<url.host, IF own THEN Val(at["path"]) ELSE url.path>>

Opened(role, registry, e) ==
  LET current == ensureEndpointDefaults(e)
      store   == Seeded(current)
  IN  [role |-> role, registry |-> registry, current |-> current, store |-> store,
       fields |-> renderConsumerForm(role, registry, current),
       rows |-> [headers |-> headerRows(store), mapping |-> transformMappingRows(store)],
       mapping |-> TheTransform(store).mapping, error |-> FALSE,
       late |-> fixNullBooleans(store) # store,
       wanted |-> current, addr |-> Address(role, current.at), n |-> 0]

Init ==
  \E e \in Documents, role \in {"publisher", "consumer"},
     registry \in {seedFromOverrides, registerEndpointKindsFromSchema(seedFromOverrides)} :
       /\ Has(registry, e.kind) /\ registry[e.kind][role]
       /\ form = Opened(role, registry, e)

-----------------------------------------------------------------------------
(* The editors.  A change reaches the store first; the view then merges it *)
(* into the configuration, normalised.                                     *)

Becomes(f) == form.n < MaxEdits /\ form' = [f EXCEPT !.n = form.n + 1]

\* The callback of renderConsumerForm.
updated(f, store, wanted) ==
  [f EXCEPT !.store = store, !.current = ensureEndpointDefaults(store), !.wanted = wanted,
            !.addr = IF wanted = f.wanted THEN @ ELSE Address(f.role, wanted.at)]

FieldsOf(type) == {f \in DOMAIN form.fields : form.fields[f] = type}

\* A value goes to the store, and is what the user wants.
setPath(f, v) ==
  Becomes(updated(form, [form.store EXCEPT !.at = Put(@, f, v)],
                        [form.wanted EXCEPT !.at = Put(@, f, v)]))

renderField == \* what the library has an editor for
  \/ \E f \in FieldsOf("text"), t \in {"", "p"} : setPath(f, Text(t))
  \/ \E f \in FieldsOf("url"), h \in {"h", "localhost"} : setPath(f, Url(h, ""))

renderBoolean == \E f \in FieldsOf("flag"), b \in BOOLEAN : setPath(f, Flag(b))

tlsToggle ==
  \E f \in FieldsOf("tls"), b \in BOOLEAN :
    LET old == IF Has(form.store.at, f) /\ Tag(form.store.at[f]) = "map"
               THEN Val(form.store.at[f]) ELSE <<>>
    IN  setPath(f, Map(Put(old, "required", Flag(b))))

basicAuthChange ==
  \E f \in FieldsOf("auth"), user \in {"", "u"}, password \in {"", "w"} :
    LET v == <<"auth", <<user, password>>>>
    IN  setPath(f, IF user = "" /\ password = "" THEN Null ELSE v)

encryptionChange ==
  \E f \in FieldsOf("encryption"), part \in {"key", "key_id"}, t \in {"", "k"} :
    LET old == IF Has(form.store.at, f) THEN Val(form.store.at[f]) ELSE <<>>
    IN  setPath(f, Map(Put(old, part, Text(t))))

deriveScalarEndpointValue(v) == Val(v)

commitScalarEndpointValue(type, old, next) == \* keeps the shape of an object
  IF type = "object" \/ Tag(old) = "object" THEN <<"object", next>> ELSE Text(next)

scalarChange ==
  \E type \in {"scalar", "object", "ref"}, next \in {"", "p"} : \E f \in FieldsOf(type) :
    LET v == commitScalarEndpointValue(type, form.store.at[f], next)
    IN  Becomes(updated(form, [form.store EXCEPT !.at = Put(@, f, v)],
                              [form.wanted EXCEPT !.at = Put(@, f, Text(next))]))

Lists == {<<>>, <<"p">>, <<"p", "q">>}
Cases == {<<>>, [a |-> "p"]}

\* Predicates replace the lookup by a key; no predicate brings it back.
switchChange ==
  \/ \E f \in FieldsOf("cases"), m \in Cases : setPath(f, Map(m))
  \/ \E f \in FieldsOf("when"), s \in Lists : setPath(f, List(s))
  \/ \E f \in FieldsOf("list"), s \in Lists : setPath(f, List(s))

\* The rows of an editor of keys and values (HeadersEditor.svelte).
Keys == {"", "a", "b"}
RowEdits(rows) ==
  {Append(rows, [key |-> "", was |-> "", value |-> ""])}
  \cup {RemoveAt(rows, i) : i \in DOMAIN rows}
  \cup {[rows EXCEPT ![i].key = k] : i \in DOMAIN rows, k \in Keys}
  \cup {[rows EXCEPT ![i].value = t] : i \in DOMAIN rows, t \in {"", "p"}}

\* Rows without a key are left out; of two rows with a key the last counts.
Named(rows, Value(_)) ==
  [k \in {rows[i].key : i \in DOMAIN rows} \ {""} |->
     Value(rows[Max({i \in DOMAIN rows : rows[i].key = k})])]

customHeadersChange ==
  \E f \in FieldsOf("headers") : \E rows \in RowEdits(form.rows.headers) :
    LET m == Map(Named(rows, LAMBDA row : row.value))
    IN  Becomes(updated([form EXCEPT !.rows.headers = rows],
                        [form.store EXCEPT !.at = Put(@, f, m)],
                        [form.wanted EXCEPT !.at = Put(@, f, m)]))

SetTransform(e, field, v) ==
  [e EXCEPT !.mw[Min(Transforms(e))] = [@ EXCEPT ![field] = v]]

\* A bug: the rule is looked up by the new key.
ruleOfKey(mapping, row) ==
  [path |-> row.value, more |-> IF Has(mapping, row.key) THEN mapping[row.key].more ELSE ""]

\* A renamed row keeps what its rule had beside the path.
mappingRule(mapping, row) ==
  LET was == IF row.was # "" THEN row.was ELSE row.key
  IN  [path |-> row.value, more |-> IF Has(mapping, was) THEN mapping[was].more ELSE ""]

mappingChange ==
  /\ Transforms(form.store) # {}
  /\ \E rows \in RowEdits(form.rows.mapping) :
       LET m == Named(rows, LAMBDA row : mappingRule(form.mapping, row))
       IN  Becomes(updated([form EXCEPT !.rows.mapping = rows],
                           SetTransform(form.store, "mapping", m), form.wanted))

\* Only an object is stored, of anything else the user is told.
schemaCommit ==
  /\ Transforms(form.store) # {}
  /\ \E raw \in {Null, Text("{"), List(<<>>), Map(<<>>)} :
       IF Tag(raw) \in {"text", "list"} THEN Becomes([form EXCEPT !.error = TRUE])
       ELSE Becomes(updated([form EXCEPT !.error = FALSE],
                            SetTransform(form.store, "schema", raw),
                            SetTransform(form.wanted, "schema", raw)))

middlewaresChange ==
  \E mw \in {Append(form.store.mw, [type |-> "dlq", to |-> "none"])}
            \cup {RemoveAt(form.store.mw, i) : i \in DOMAIN form.store.mw \ Transforms(form.store)}
            \cup {[form.store.mw EXCEPT ![i] = [type |-> "dlq", to |-> "p"]] :
                    i \in {j \in DOMAIN form.store.mw : form.store.mw[j].type = "dlq"}} :
    Becomes(updated(form, [form.store EXCEPT !.mw = mw],
                          [form.wanted EXCEPT !.mw = mw]))

-----------------------------------------------------------------------------
(* Around the editors.                                                     *)

\* The timeout that rendering set reads the store anew.
NullBooleansTimeout ==
  /\ form.late
  /\ form' = [updated(form, fixNullBooleans(form.store), form.wanted) EXCEPT !.late = FALSE]

\* The library may report what it stored by itself.
Render == Becomes(updated(form, form.store, form.wanted))

Predicates(at) == Has(at, "when") /\ Val(at["when"]) # <<>>
Meant(at) ==
  IF Predicates(at) THEN Without(at, {"cases", "metadata_key"}) ELSE Without(at, {"when"})

\* Another consumer was selected, or the view was left, and then this one:
\* what a switch with predicates had of cases is gone by then.
Reopen ==
  LET opened == Opened(form.role, form.registry, form.current)
  IN  Becomes([opened EXCEPT !.wanted = [form.wanted EXCEPT !.at = Meant(form.wanted.at)]])

addAction ==
  \E i \in 1 .. 2 :
    /\ i \in DOMAIN getEndpointTypeGroups(form.registry, form.role)
    /\ \E kind \in getEndpointTypeGroups(form.registry, form.role)[i] :
         /\ Has(Schema, kind)
         /\ Becomes([Opened(form.role, form.registry, createDefaultEndpoint(kind))
                       EXCEPT !.n = form.n])

\* Copies a publisher to the consumers, or a consumer to the publishers.
copyAction ==
  LET to == IF form.role = "publisher" THEN "consumer" ELSE "publisher"
      e  == IF to = "consumer" THEN createConsumerEndpointFromPublisherEndpoint(form.current)
            ELSE createPublisherEndpointFromConsumerEndpoint(form.current)
  IN  /\ form.registry[form.current.kind][to]
      /\ Becomes([Opened(to, form.registry, e) EXCEPT
                    !.addr = IF form.addr = <<>> THEN @
                             ELSE <<IF to = "consumer" /\ form.addr[1] = "localhost"
                                    THEN "127.0.0.1" ELSE form.addr[1], form.addr[2]>>])

Next ==
  \/ renderField \/ renderBoolean \/ tlsToggle \/ basicAuthChange \/ encryptionChange
  \/ scalarChange \/ switchChange \/ customHeadersChange \/ mappingChange \/ schemaCommit
  \/ middlewaresChange \/ NullBooleansTimeout \/ Render \/ Reopen \/ addAction \/ copyAction

-----------------------------------------------------------------------------
(* Properties.                                                             *)

\* Of a block the form may add defaults; null stands for false.
SameValue(c, w) ==
  \/ c = w
  \/ w = Null /\ c = Flag(FALSE)
  \/ w = Text("") /\ c = Text("type")
  \/ /\ Tag(c) = "map" /\ Tag(w) = "map"
     /\ \A k \in DOMAIN Val(w) :
          /\ Has(Val(c), k)
          /\ \/ Val(c)[k] = Val(w)[k]
             \/ Val(w)[k] = Null /\ Val(c)[k] = Flag(FALSE)

Chosen(block) == \* what of an encryption is the user's
  \E k \in DOMAIN block : block[k] \notin {Null, Text("")}
                          /\ ~ (Has(SEEDED_ENCRYPTION_DEFAULTS, k)
                                /\ block[k] = SEEDED_ENCRYPTION_DEFAULTS[k])

\* After any sequence of edits, of re-renders and of copies between the two
\* sides, the endpoint in the configuration is what the user meant: every
\* field that was edited has its value and every other field the one it was
\* opened with; of fields that were absent only the schema's defaults are
\* there, and no encryption without anything of the user's; a switch has cases
\* or predicates, never both, and a renamed mapping rule has kept what stood
\* beside its path; a copy names the same address (renderConsumerForm's
\* callback, ensureEndpointDefaults, transformMappingRenderer,
\* createConsumerEndpointFromPublisherEndpoint and its inverse).
FormSavesWhatIsMeant ==
  LET at     == form.current.at
      meant  == Meant(form.wanted.at)
      fields == Schema[form.current.kind].fields
      rules  == TheTransform(form.current).mapping
      rows   == form.rows.mapping
  IN  /\ \A f \in DOMAIN at :
           IF f = "encryption" THEN Chosen(Val(at[f]))
           ELSE ~ Has(meant, f) => \/ f \in {"cases", "metadata_key"} /\ ~ Predicates(at)
                                   \/ at[f] = fields[f].default
                                   \/ f = "format" /\ at[f] = Text("raw")
      /\ \A f \in DOMAIN meant :
           IF f = "encryption" /\ ~ Chosen(Val(meant[f])) THEN ~ Has(at, f)
           ELSE Has(at, f) /\ SameValue(at[f], meant[f])
      /\ ~ (Has(at, "when") /\ (Has(at, "cases") \/ Has(at, "metadata_key")))
      /\ \A i \in DOMAIN rows :
           /\ rows[i].was # "" /\ rows[i].key # ""
           /\ \A j \in DOMAIN rows : j > i => rows[j].key # rows[i].key
           => rules[rows[i].key].more = form.mapping[rows[i].was].more
      /\ TheTransform(form.current).schema = TheTransform(form.wanted).schema
      /\ Address(form.role, at) = form.addr
=============================================================================
