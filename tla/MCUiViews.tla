----------------------------- MODULE MCUiViews -----------------------------
(***************************************************************************)
(* The parts of the page that keep a state of their own, each checked by   *)
(* itself in one run: "part" says which one an execution is about.         *)
(***************************************************************************)
EXTENDS UiPublishers, UiDialogs, UiStorage, UiNavigation, UiResponses, TLC

VARIABLES part, ent, tree, form, err, pay

allVars == <<part, vars, dlg, cache, nav, ent, tree, form, resp, err, pay>>

\* Sends are interchangeable.
Symmetry == Permutations(Sends)

-----------------------------------------------------------------------------
(* Imports: a workspace with an entry that lacks an id and a name that is  *)
(* used twice, presets, and one document of every other format.            *)

Pub(id, name) ==
  [id |-> id, name |-> name, payload |-> 0,
   endpoint |-> [type |-> "http", url |-> <<"localhost">>, path |-> <<>>]]
Preset(for, name) ==
  [for |-> for, name |-> name, type |-> "http", url |-> <<"h", "p">>, payload |-> 1]

MCDocuments ==
  {[type |-> "mqb-config", publishers |-> <<Pub(101, <<"a">>), Pub(0, <<>>)>>,
    consumers |-> <<[id |-> 102, name |-> <<"a">>,
                     out |-> [mode |-> "publisher", id |-> 101, name |-> <<"a">>]]>>,
    presets |-> <<Preset(<<"a">>, <<"r">>)>>, env |-> ("k" :> 1), mode |-> "durable"],
   [type |-> "mqb-presets", publishers |-> <<>>, consumers |-> <<>>,
    presets |-> <<Preset(<<"a">>, <<"r">>), Preset(<<"b">>, <<>>)>>, env |-> <<>>, mode |-> ""],
   [type |-> "", publishers |-> <<Pub(101, <<"b">>)>>, consumers |-> <<>>,
    presets |-> <<Preset(<<"b">>, <<"r">>)>>, env |-> <<>>, mode |-> ""],
   [type |-> "postman",
    item |-> <<[name |-> <<"f">>, url |-> <<>>,
                item |-> <<[name |-> <<>>, url |-> <<"h", "p">>, item |-> <<>>]>>]>>],
   [type |-> "openapi", paths |-> <<[path |-> "p", operations |-> {"get", "post"}]>>,
    server |-> "h"],
   [type |-> "asyncapi", version |-> 3, channels |-> <<"p">>, server |-> "h",
    operations |-> <<[name |-> <<"a">>, channel |-> "p"], [name |-> <<"b">>, channel |-> "q"]>>],
   [type |-> "asyncapi", version |-> 2, channels |-> <<"p">>, server |-> "h",
    has |-> {[d |-> "PUBLISH", channel |-> "p"]}]}

-----------------------------------------------------------------------------
(* Sidebars: paths that share prefixes, a name, and other protocols.       *)

Entity(name, type, host, path, order) ==
  [name |-> name, type |-> type, host |-> host, path |-> path, order |-> order]

MCPool ==
  {Entity("", "http", "h1", path, 0) :
     path \in {<<>>, <<"p1", "p2">>, <<"p1", "p2", "p1">>, <<"p1", "p2", "p2">>, <<"p2", "p1">>}}
  \cup {Entity("n2", "http", "h1", <<"p1", "p2">>, 1), Entity("n2", "kafka", "h1", <<"p1">>, 0),
        Entity("", "mongodb", "", <<"p1">>, 0)}

-----------------------------------------------------------------------------
(* Forms: one kind for every editor, endpoints as older versions and other *)
(* tools left them.                                                        *)

Field(type, default) ==
  [type |-> type, default |-> default, only |-> "", deprecated |-> FALSE]
Kind(fields, required, structural) ==
  [fields |-> fields, required |-> required, structural |-> structural]

Null     == <<"null", "">>
Value(t) == <<"text", t>>
Map(m)  == <<"map", m>>
List(s) == <<"list", s>>

MCSchema ==
  [http   |-> Kind([url |-> Field("url", Null), path |-> Field("text", Null),
                    basic_auth |-> Field("auth", Null),
                    custom_headers |-> Field("headers", Map(<<>>)),
                    compressed |-> Field("flag", <<"flag", FALSE>>),
                    tls |-> Field("tls", Map([required |-> <<"flag", FALSE>>])),
                    stream_response_to |-> Field("endpoint or null", Value("null")),
                    listeners |-> [Field("text", Value("1")) EXCEPT !.only = "consumer"]],
                   <<"url">>, FALSE),
   file   |-> Kind([path |-> Field("text", Null), format |-> Field("text", Value("normal")),
                    encryption |-> Field("encryption", Map([cipher |-> Value("xchacha20"),
                                                            key_id |-> Value("default")])),
                    idempotency |-> [Field("text", Null) EXCEPT !.deprecated = TRUE]],
                   <<"path">>, FALSE),
   newer  |-> Kind([address |-> Field("text", Null), retries |-> Field("text", Value("3"))],
                   <<"address">>, FALSE),
   switch |-> Kind([metadata_key |-> Field("text", Null), cases |-> Field("cases", Null),
                    when |-> Field("when", Null), default |-> Field("endpoint", Null)],
                   <<>>, TRUE),
   fanout |-> Kind([items |-> Field("list", Null)], <<>>, FALSE),
   static |-> Kind([value |-> Field("scalar", Null)], <<>>, TRUE),
   ref    |-> Kind([value |-> Field("object", Null)], <<>>, TRUE)]

Doc(kind, at, mw) == [kind |-> kind, at |-> at, mw |-> mw]
Url(host, path)   == <<"url", [host |-> host, path |-> path]>>

MCEndpoints ==
  {Doc("http", [url |-> Url("localhost", "p"), path |-> Value("q"), basic_auth |-> Null,
                compressed |-> Null], <<[type |-> "missing"]>>),
   Doc("http", [url |-> Url("h", ""), path |-> Value("p"), custom_headers |-> Map([a |-> "1"]),
                tls |-> Map([required |-> Null, ca |-> Value("f")])],
       <<[type |-> "dlq", to |-> "none"], [type |-> "junk"]>>),
   Doc("file", [path |-> Value("f"), idempotency |-> Value("old")], <<>>),
   Doc("file", [path |-> Value("f"),
                encryption |-> Map([key |-> Value("k"), key_id |-> Value("k2")])],
       <<[type |-> "transform", schema |-> Null,
          mapping |-> [a |-> [path |-> "x", more |-> "d"], b |-> [path |-> "y", more |-> ""]]]>>),
   Doc("newer", [address |-> Value("h")], <<[type |-> "metrics"]>>),
   Doc("switch", [metadata_key |-> Value("k"), cases |-> Map([a |-> "p"]),
                  when |-> List(<<"none">>)], <<>>),
   Doc("switch", [cases |-> Map([a |-> "none"]), when |-> List(<<>>), default |-> Value("p")], <<>>),
   Doc("fanout", [items |-> Value("bad")], <<>>),
   Doc("static", [value |-> <<"object", "s">>], <<>>),
   Doc("ref", [value |-> Null], <<>>)}

-----------------------------------------------------------------------------
(* Rejected configurations: a name of two bytes and one of two UTF-16      *)
(* units before the fault, nested lists, and blocks that lack a field.     *)

Text(t)  == [kind |-> "text", of |-> t]
Items(s) == [kind |-> "array", of |-> s]
Block(m) == [kind |-> "object", of |-> m]
In(key, value) == [key |-> key, value |-> value]

MCConfigs ==
  {Block(<<In("consumers", Items(<<
       Block(<<In("name", Text("two bytes")),
               In("out", Block(<<In("url", Text("a")),
                 In("mw", Items(<<Block(<<In("key", Text("a"))>>),
                                  Block(<<In("max", Text("1"))>>)>>))>>))>>),
       Block(<<In("id", Text("c")), In("mw", Items(<<>>)), In("out", Block(<<>>))>>)>>)),
     In("publishers", Items(<<Text("a")>>))>>),
   Block(<<In("publishers", Items(<<
       Block(<<In("name", Text("two units")),
               In("out", Block(<<In("max", Text("1")),
                 In("mw", Items(<<Block(<<In("max", Text("1"))>>),
                                  Block(<<In("other", Text("1"))>>)>>))>>))>>)>>)),
     In("routes", Block(<<In("two units", Block(<<In("url", Text("a"))>>)),
                          In("two bytes", Items(<<Items(<<Text("1")>>)>>))>>))>>)}

MCDefinitions ==
  {[required |-> {"key"}, properties |-> {"key", "max"}],
   [required |-> {"url"}, properties |-> {"url", "max", "mw"}],
   [required |-> {}, properties |-> {"name"}]}

MCChars ==
  [n \in {"consumers", "publishers", "routes", "name", "id", "out", "mw", "url", "key", "max",
          "other", "a", "c", "1"} |-> <<1, 1>>] @@ ("two bytes" :> <<2>>) @@ ("two units" :> <<4, 3>>)

-----------------------------------------------------------------------------
(* Payloads: none, one with a bar and a control character, hex digits, a   *)
(* character that is not ASCII, JSON and XML.                              *)

MCTexts == {<<>>, <<97, 124, 7>>, <<54, 49>>, <<233>>, <<32, 91, 32, 54, 93>>, <<60, 97, 47, 62>>}

-----------------------------------------------------------------------------

CONSTANT MaxEdits

Entities == INSTANCE UiEntities WITH Documents <- MCDocuments, MaxEntries <- MaxEdits + 2
Trees    == INSTANCE UiTrees WITH Pool <- MCPool, Words <- {"http", "kafka", "h1", "p1", "n2"},
                                  MaxEdits <- MaxEdits - 1
Form     == INSTANCE UiForm WITH Schema <- MCSchema, Documents <- MCEndpoints
Errors   == INSTANCE UiErrors WITH Documents <- MCConfigs, Definitions <- MCDefinitions,
                                   Chars <- MCChars
Payload  == INSTANCE UiPayload WITH Texts <- MCTexts, Nibbles <- {6, 12}, BytesPerLine <- 2,
                                    MaxMoves <- MaxEdits

Idle == <<>>

AServer == [target |-> "cli", keyStore |-> FALSE, mode |-> "balanced", boot |-> 1]

\* The publishers, the dialogs, the storage, the place and the answers of the
\* consumers are there in every part.
MCInit ==
  /\ \/ /\ part = "entities" /\ Entities!Init
        /\ tree = Idle /\ form = Idle /\ err = Idle /\ pay = Idle
     \/ /\ part = "trees" /\ Trees!Init
        /\ ent = Idle /\ form = Idle /\ err = Idle /\ pay = Idle
     \/ /\ part = "form" /\ Form!Init
        /\ ent = Idle /\ tree = Idle /\ err = Idle /\ pay = Idle
     \/ /\ part = "errors" /\ Errors!Init
        /\ ent = Idle /\ tree = Idle /\ form = Idle /\ pay = Idle
     \/ /\ part = "payload" /\ Payload!Init
        /\ ent = Idle /\ tree = Idle /\ form = Idle /\ err = Idle
     \/ /\ part \in {"publishers", "dialogs", "storage", "navigation", "responses"}
        /\ ent = Idle /\ tree = Idle /\ form = Idle /\ err = Idle /\ pay = Idle
  /\ DialogInit
  /\ Init /\ (part # "publishers" => world.history = NoHistory)
  /\ StorageInit /\ (part # "storage" => cache.server = AServer)
  /\ NavigationInit
  /\ part # "navigation" => nav = bootstrapApp([t \in Lists |-> 0], Hash("", Unset), "")
  /\ ResponseInit
  /\ part # "responses" => \A i \in DOMAIN resp.asked : resp.asked[i] = "none"

NextEntities ==
  part = "entities" /\ Entities!Next
    /\ UNCHANGED <<part, vars, dlg, cache, nav, tree, form, resp, err, pay>>
NextTrees ==
  part = "trees" /\ Trees!Next
    /\ UNCHANGED <<part, vars, dlg, cache, nav, ent, form, resp, err, pay>>
NextForm ==
  part = "form" /\ Form!Next
    /\ UNCHANGED <<part, vars, dlg, cache, nav, ent, tree, resp, err, pay>>
NextStorage ==
  part = "storage" /\ StorageNext
    /\ UNCHANGED <<part, vars, dlg, nav, ent, tree, form, resp, err, pay>>
NextNavigation ==
  part = "navigation" /\ NavigationNext
    /\ UNCHANGED <<part, vars, dlg, cache, ent, tree, form, resp, err, pay>>
NextPublishers ==
  part = "publishers" /\ Next
    /\ UNCHANGED <<part, dlg, cache, nav, ent, tree, form, resp, err, pay>>
NextDialogs ==
  part = "dialogs" /\ DialogNext
    /\ UNCHANGED <<part, vars, cache, nav, ent, tree, form, resp, err, pay>>
NextResponses ==
  part = "responses" /\ ResponseNext
    /\ UNCHANGED <<part, vars, dlg, cache, nav, ent, tree, form, err, pay>>
NextErrors ==
  part = "errors" /\ Errors!Next
    /\ UNCHANGED <<part, vars, dlg, cache, nav, ent, tree, form, resp, pay>>
NextPayload ==
  part = "payload" /\ Payload!Next
    /\ UNCHANGED <<part, vars, dlg, cache, nav, ent, tree, form, resp, err>>

MCNext ==
  \/ NextEntities
  \/ NextTrees
  \/ NextForm
  \/ NextStorage
  \/ NextNavigation
  \/ NextPublishers
  \/ NextDialogs
  \/ NextResponses
  \/ NextErrors
  \/ NextPayload

-----------------------------------------------------------------------------
(* The properties of the parts; each is stated in the part's module.       *)
(* HistoryIsAsPromised, NavigationSettles, EachIsAnswered,                 *)
(* AnswersAreFiled, ResponseIsOfSelected, SendingIsUnderWay and            *)
(* RowsAreKept are checked as they stand there.                            *)

\* The rows of a sidebar show every entity that matches once.
EachIsListedOnce == part = "trees" => Trees!EachIsListedOnce

\* The endpoint that a form leaves in the configuration is what the user meant.
FormSavesWhatIsMeant == part = "form" => Form!FormSavesWhatIsMeant

\* A rejected save names what is at fault.
FaultIsNamed == part = "errors" => Errors!FaultIsNamed

\* What is typed, as text or as hex digits, is the payload.
PayloadIsMeant == part = "payload" => Payload!PayloadIsMeant

\* An import changes no entry that is there and gives no name twice.
ImportKeeps == [][part = "entities" => Entities!AnImportKeeps]_allVars

\* The output of a consumer follows the publisher that the user chose.
ReferencesKeep == [][part = "entities" => Entities!ASyncKeepsReferences]_allVars
=============================================================================
