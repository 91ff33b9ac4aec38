# A TLA+ model of mq-bridge-app

mq-bridge-app moves messages between brokers, files and databases: as a command
(`mq-bridge-app copy`), as a server with a browser UI, as a desktop shell and as
an MCP server that a language model drives. The routing engine, mq-bridge, is a
library outside this repository. What this repository adds is the management of
routes under user-chosen names, the counters and captured messages kept under
those names, the configuration that says what runs, the presence of several such
processes on one machine, and a browser page in which a user edits, saves, sends and
watches all of this while requests are under way. The management is concurrent,
restartable and spread over many small locks; the page is one thread cut into pieces
by its awaits. Both are modelled here.

Paths below are relative to `src/`. Each definition that models code is mapped to
its lines in `PROJECT.json`, under `map`.

## 1. Inventory

| Component | State | Operations | What is hard about it |
|---|---|---|---|
| **MCP route manager**, `crates/cli/src/mcp.rs` | `routes` (name to handle), `starting` (reserved names), `publishers` | `start_route`, `stop_route`, `wait_route`, `route_messages`, `list_routes`, `route_status`, `publish` | one server value is cloned into every session; `run()` and `stop()` are awaited without a lock; counters and buffers are keyed by name and outlive the route |
| **Route metrics**, `crates/core/src/route_metrics.rs` | three maps: counters, samples, starts | `counter_for`, `forget`, sampler task, `throughput`, `sequence`, `timing` | two and three nested locks, a sampler that reads first and writes later |
| **Message capture**, same file | a bounded channel per topic, in a process-global registry | `with_capacity`, `open`, `push`, `drain` | dropping the oldest message takes three calls of the channel |
| **Presence registry**, `crates/core/src/status_registry.rs` | one lease file per process, temporaries, the `released` flag | heartbeat, `publish`, `release`, `list` | blocking threads outlive an abort, other processes delete files, crashes at any step, two schema versions in one directory |
| **UI application server**, `crates/core/src/ui_app.rs`, `web_ui.rs` | configuration, table of collectors, storage security, status cache | `start_consumer`, `start_configured_consumers`, `stop_consumer`, `update_config`, `runtime_status`, `consumer_status`, `publish`, recovery reset | an update takes three locks one after the other; calls work on copies; the table is locked over awaited calls of the engine |
| **Configuration and secrets**, `config.rs`, `encrypted_config.rs` | the configuration file, the secret store, the master key | load, migrate, extract secrets, save, encrypt | two stores written one after the other without a transaction, five security modes |
| **Desktop shell**, `crates/desktop/src/lib.rs` | keychain entries, recovery status | key preparation, load with recovery, reset with backup | each step can fail with the earlier ones done |
| **Copy pipeline and command**, `copy_pipeline.rs`, `main.rs` | none / exit status | option placement, checkpoint identity, result classification | pure, many cases |
| **Command line and shutdown**, `main.rs`, `cli_command.rs`, `bin/compat.rs` | process-wide shutdown | parsing; signal, drain, release | the order of release at the end |
| **MCP installer**, `mcp_install.rs` | client configuration files | merge, write | sequential |
| **Plugins**, `plugins.rs` | trusted paths | load once at start | native code |
| **Browser UI: editing and saving**, `bootstrap.ts`, `dirty-state.ts`, `config-api.ts`, `settings.ts` | the configuration as edited, baselines, the flags of what is edited | edit, add, copy, delete, save a section, save the workspace, start and stop | edits during a save, two saves at a time, a configuration replaced under the views |
| **Browser UI: status and messages**, `runtime-status.ts`, `consumers-view.ts` | the last status, rows of messages, the last sequence seen | poll, fetch, clear, limits | overlapping polls and fetches of a destructive read |
| **Browser UI: sending and history**, `publishers-view.ts` | responses and history of each publisher, three stores of it | edit, send, file the answer, show again, sync | answers that come when the publisher is another or gone |
| **Browser UI: imports and references**, `import-export.ts`, `workspace-config.ts` | publishers and consumers as collections | import five formats, merge, migrate, sync references | names and ids that clash |
| **Browser UI: sidebars**, `grouping-utils.ts`, `publisher-grouping.ts`, `consumer-grouping.ts`, panels | the open groups, the filter | build, flatten, filter | prefixes, single children, the only group |
| **Browser UI: endpoint forms**, `custom-form.ts`, `endpoint-utils.ts`, `endpoint-metadata.ts`, `schema-utils.ts`, `routes.ts` | the endpoint being edited, rows and timers of its editors | render, edit a field, normalise, copy between sides | rendering stores defaults, normalisation between edits |
| **Browser UI: storage**, `encrypted-json-storage.ts`, `storage-security.ts`, `storage.ts` | the history in the browser, sealed or not | read, write, change of mode | keys that end with a process |
| **Browser UI: navigation**, `bootstrap.ts`, `routing.ts` | tab, selection, address, what is pending | switch, select, copy, delete, reload | switches of four awaits that overlap |
| **Browser UI: dialogs**, `dialogs.ts`, `Dialog.svelte` | the dialog shown, the line behind it | ask, answer, dismiss | the late word of a dialog that hid |
| **Browser UI: consumer responses**, `consumers-view.ts`, `HeaderRowsEditor.svelte` | the rows of an answer, the two places a consumer has it in | type, disable, choose, save | a render with every status; a migration with every save |
| **Browser UI: errors of a save**, `save-error.ts`, `config-api.ts` | the registered schema | explain a rejected save | a column of bytes on a text of UTF-16 units; a field missed by a block further out |
| **Browser UI: payload editor**, `payload-format.ts`, `PayloadDisplay.svelte`, `CodeEditor.svelte` | the view, a hex view being edited | type text or digits, switch views, beautify, import | half a byte between two digits; what reads as digits and as text |

How they interact. The MCP manager and the UI server each own a `RouteMetrics`
and use `MessageCapture` through the global registry; both start engine tasks whose
handlers count and capture. The UI server owns one presence lease, fed by its own
status, and lists the leases of other processes. The UI server saves through
`config.rs`, which writes to a secret store that the desktop shell supplies. The
browser talks to the UI server by polling, by destructive reads of captured messages
and by whole-configuration posts. Its views share the configuration object of the
page, and all save through the shell in `bootstrap.ts`.

What makes each correct:

* **Route manager**: a live route can always be found and stopped; a name is given
  to one route at a time; what a name leaves behind is never inherited; a failed
  start releases its name.
* **Metrics**: a forgotten key stays forgotten; a sample never belongs to an
  earlier route of the name; a finished job keeps its timing; no lock order waits
  for ever.
* **Capture**: last-N, each message once, in order.
* **Presence**: a released lease stays gone, a dead process disappears, a healthy one
  is always seen, remains are reclaimed, versions coexist.
* **UI server**: what runs is what is configured; file, memory and security status
  agree; no collector is lost; calls return.
* **Configuration**: a save never loses a secret, and what was saved can be read again
  under its mode and key.
* **Page**: what the user typed stays until it is saved, and what counts as saved is
  saved; an answer belongs to what it answers, however late it is; a captured message
  is shown once; a request sent again is the one that was sent; a form stores what was
  meant; a list shows everything once; the history is kept as its mode says.

The hazards, each at its line, are in `PROJECT.json` under `hazards`, with the
properties that would notice them, or with the reason why none does.

## 2. Modules

| Module | Role |
|---|---|
| `RouteSlots` | abstract specification: one slot per name, free, reserved, running, free again; a running route is never replaced |
| `McpRoutes`, `MCMcpRoutes` | the MCP route manager; implements `RouteSlots` |
| `McpRoutesProofs` | its proofs |
| `RouteMetrics` | counters, samples, starts, their locks and the sampler |
| `MessageCapture` | one capture channel, its pushers and drains |
| `RouteMetricsProofs` | the proofs of both |
| `MCRouteMetrics` | both of them in one run |
| `StatusRegistry` | leases, heartbeats, release, crashes, listings |
| `StatusRegistryProofs` | its proofs |
| `UiConsumers`, `MCUiConsumers` | collectors and configuration of the UI server; implements `RouteSlots` |
| `UiConsumersProofs` | its proofs |
| `UiWorkspace`, `MCUiWorkspace` | the page's configuration: edits, saves, deletions, toggles; the second checks `UiRequests` too |
| `UiWorkspaceProofs` | its proofs |
| `UiPublishers` | sends, late answers, the history and its stores |
| `UiPublishersProofs` | its proofs |
| `UiMessages`, `MCUiMessages` | status polls and the collection of captured messages |
| `UiMessagesProofs` | its proofs |
| `UiRequests` | a request through rows, configuration, history and back |
| `UiEntities` | imports, migrations, names and references |
| `UiTrees` | the sidebars |
| `UiForm` | endpoints in a form |
| `UiStorage` | the sealed history |
| `UiNavigation` | tab, selection and address |
| `UiDialogs` | dialogs |
| `UiResponses` | the editor of a consumer's answer and its way through a save |
| `UiViewsProofs` | proofs of `UiStorage`, `UiNavigation`, `UiDialogs` and `UiResponses` |
| `UiErrors` | what the page says of a rejected configuration |
| `UiPayload` | the editor of a payload and its hex view |
| `MCUiViews` | these but `UiRequests`, and `UiPublishers`, in one run |

Definitions whose comment begins with "A bug:" are variants of the definition after
them, each with one plausible mistake. No specification uses them: they serve to
confirm that each property fails when the code is wrong.

### McpRoutes

A client is a tool call; `pc` says between which two awaits or unlocks it is, and
each action is what the code does up to the next such point. A run is one route
that got past the claim of its name. `routes` and `starting` are the fields of
`BridgeMcp`; `counters`/`count`/`feeds` split `RouteMetrics.counters` into the map,
the atomics behind it and the atomic each handler holds, because `forget` removes
the first and not the others; `buffer`/`capacity` are the capture channels by
topic. `moved` is history. A push into the channel is one step here; its three
calls are the subject of `MessageCapture`.

The order of the code is kept: claim under both locks (`StartClaim`), counter,
channel and `run()`, then either both locks again (`StartInsert`) or `forget`,
`drain` and release of the name (`FailForget`, `FailDrain`, `FailRelease`).
`stop_route` removes the handle first and works on without a lock (`StopRemove` to
`StopDrain`). `route_messages` and `wait_route` check under the lock and read after it.

### RouteMetrics, MessageCapture

Lock by lock and channel call by channel call; a block of code under one lock is one
step, and a thread may be anywhere between two. `RouteMetrics` has three callers and
the sampler; `LockOrder` is the order in which the sampler takes its two locks.
Reads of one map are left out, as they change nothing.

### StatusRegistry

An instance has three threads of its own: the heartbeat task, the blocking job that
writes the file, and the call of `release()`. A reader is a listing. Every file
operation is a step. Times are ages in ticks, capped past the last comparison, so
that the state space is finite with an unbounded clock. The constants choose the
platform (`Windows`: the old lease is removed before the rename), whether file
operations fail (`IoErrors`), whether a publish may be suspended past the TTL
(`Prompt`), and which instances write another schema version (`Newer`,
`NewerParses`).

### UiConsumers

Each tokio `RwLock` is a queue of requests: granted are the first writer, or the
readers before it. That keeps both the order of service and the fact that a waiting
writer holds up later readers. A call keeps the guard for as long as the code does:
`start_ui_collector_routes` over `run()`, `stop_consumer` and `update_config` over
`stop()`, the status calls hold the configuration over the reads of the table and
the probes. `copy` is the configuration a call has read, `new` the one an update was
given. A consumer's configuration is one value, compared as a whole, as the code
compares its JSON. `overlapped` records that an update ran beside an update or a
start.

### The page

JavaScript runs to completion between two awaits, so a step of these modules is what
happens between two awaits of a request; awaits that no request stands behind (ticks,
hooks of the form library) belong to the step, and a prompt is answered within it,
but in `UiNavigation`, `UiDialogs` and `UiForm`, where ticks, hiding and timers are
the subject and are steps themselves.

* `UiWorkspace`: a section of the configuration is a sequence of entries with an
  identity and one of two contents. `calls` are the saves and toggles under way, with
  what each has read before its await. `server` stores what it is posted, or fails.
  `wanted`, `exposed` and `unmarked` are history: what the user made of a section,
  and the two ways in which the code gives up on it (section 5).
* `UiPublishers`: the page is one record, and an operator is the page that a function
  of the code leaves behind. A send is three steps: begun, answered or failed. The
  storage of the browser (`local`, `stored`), the copy of the history that was read when
  the page was loaded (`cache`) and the server's copy are apart, as in the code: a save of
  the workspace takes the history from `cache` (`hydrateHistory`). The form of the
  definition is a document of its own (`form`), rendered when a publisher is opened and
  written over it with each edit. `filed`, `sent` and `named` are history and only added to,
  but that what is cleared or deleted leaves `filed`; `rolled`, `touched` and `replaced`
  mark the exceptions of section 5.
* `UiMessages`: a poll and a fetch have a phase each; the reads of the server are
  destructive, and `gone` keeps what was dropped for a reason the code has. One poll is
  the interval's, with its guard, the other a direct call without one.
* `UiRequests`: one publisher, with its request bar and history entries, and the three
  places in which it has headers: the rows of the panel, its own and those of its endpoint.
  It is edited in the bar, in the rows and in the form, sent, saved and loaded again, and
  entries are shown and sent again, which files further ones. The payload, late answers and
  saves of the workspace are in `UiPublishers`. `from` and `shown` are history.
* `UiEntities`: documents are inputs; names are sequences of parts, so that suffixes
  can be told from names. An import is one step, as in the code but for the requests
  at its end, whose failure is an input. `syncConsumerPublisherReferences` has the previous
  name and id as an argument, which no step passes: `saveCurrentPublisherAction`, its only
  caller that does, is called from nowhere in the page. What the JSON preview looks up
  (`buildConsumerRouteDoc`) is modelled and in no property.
* `UiTrees`: words for texts. The filter, the open groups and the entities change, and
  the tree is a function of them.
* `UiForm`: an endpoint is its kind, a function from fields to tagged values, and its
  middlewares. `Schema` and `Documents` are constants: kinds with one field for each
  editor of the code, endpoints as older versions left them. `wanted` follows what the
  user meant, from the edits alone.
* `UiStorage`: a key is a number, of the key store, of a server process, or none. A
  text is plain or sealed with a key.
* `UiNavigation`: a switch of tabs is a thread with four steps.
* `UiDialogs`: a line of dialogs; one that is dismissed hides first and tells later.
* `UiResponses`: the rows of the editor beside the two places in which a consumer has
  an answer, renders at any time, and the server's normalisation of a save.
* `UiErrors`: a configuration is a tree, its text a sequence of tokens with the bytes of
  their characters. The scan of `jsonPathAtOffset` is compared with the place in the tree
  that the server objects to; `Documents`, `Definitions` and `Chars` are constants.
* `UiPayload`: a text is the sequence of its character codes, a hex view its rows of
  digits, as edits of single digits are what it is about. `meant` follows the digits as
  the user types them. Layout of JSON is left out, and XML is a single tag.

## 3. Runs

Runs that pass:

| Run | Question | Bounds, and why they are enough |
|---|---|---|
| `mcp_concurrent` | Can any interleaving of tool calls lose a live route, give a name twice, leave something behind, or never release a name? | 2 calls, 1 name, 2 routes, capture on and off, 1 message per route. The conflicts are between two calls about one name; different names share nothing. The safety part is also proved for all sizes. |
| `mcp_sequential` | Does one caller see true totals and its own messages when it reuses names? | 1 call, 2 names, 3 routes, 2 messages, capacities 0 and 2: two restarts of a name, and a full buffer |
| `route_metrics` | Do callers and sampler keep the maps consistent and return? Is each captured message returned once, in order, the last ones kept? | 3 callers on 1 key: one that holds, one that waits, one that comes back; the locks are per map, not per key. 2 handlers, 2 drains, capacity 2, 4 messages: the buffer is filled twice, and both handlers can find it full. |
| `registry_safety` | Can a released lease come back, a dead process stay, a fresh one be missed? | 1 lease, 1 reader, TTL 2, failing file operations, a crash at any step. Leases do not touch each other's files. |
| `registry_liveness` | Is a running process advertised again and again, and are remains reclaimed? | 1 lease, 1 reader, TTL 1, on the platform where the rename does not replace |
| `ui_consumers` | Are collectors ever lost, does what runs follow the configuration, do the copies of the configuration agree, do calls return? | 2 calls, 2 consumers, 2 configurations that edit one consumer and remove the other: boot with two consumers, an update that stops two of them, one that stops none |
| `ui_workspace` | Are edits kept, are flags true, does a toggle hit the clicked consumer? And is a request that is shown again, after whatever happened to its publisher, the one that was sent? | 2 saves or toggles and 3 edits over 3 sections: one beside a save, one undone by hand, one on another section. 3 edits or page loads, 2 header rows, 2 sends or resends, HTTP and a type with plain fields: an entry made of another entry, with an edit before, between and after; what a third would be made of, the second is made of already. |
| `ui_messages` | Does the page lose or double a captured message, and does it collect what is captured? | 1 consumer, 2 polls, 2 fetches, a buffer of 1 and limits of 1 and 2 with 2 messages and 2 events: an overflow on each side, and two loops at once. Consumers are fetched one after the other and keep separate rows. |
| `ui_views` | Ten questions, one for each part of the page that keeps a state of its own | 2 sends over 2 publishers with 3 other events: a rename, a deletion or a load before either answer; for the other parts 3 to 4 edits or events for each, 2 rows, 2 selections, 4 dialogs, 2 overlapping switches, 10 endpoints over 7 kinds, 7 documents of 6 formats, 8 entities with shared prefixes, of which up to 2 more than the edits are in a list, 2 configurations with every place a rejection can name, 6 payloads with lines of 2 bytes |

A run with several parts has one execution for each: `part` is chosen at the start and
never changes, and a property that is about one part holds of the others by saying
nothing. The parts share no state in the code either, or only through operations that
one of them has in full.

Runs that show a disagreement between the code and what it says of itself (section 6):
`mcp_resurface`, `ui_tail`, `ui_response`.

Bounds. `MaxMessages` (messages of one route, or of the page), `MaxCount` and `MaxTime`
(metrics), `MaxPushed` (capture), `MaxListing` (ticks a listing takes), `Submitted`
(configurations), `MaxEdits`, `MaxEvents`, `MaxMoves`, `MaxTurns` (what a user does), `MaxSends`,
`MaxId` and `PublisherIds` (identities), `MaxRows`, `MaxEntries`, `MaxSwitches`,
`MaxDialogs`, `Count` (consumers with an answer), `MaxChanges` (restarts, reloads and saved settings). Each is a guard on the environment, not on the code; at its bound
`RouteMetrics` lets the clock stand still, and in `StatusRegistry` ages saturate.
Symmetry is used where no liveness property is checked. Deadlock is checked where the
system goes on for ever; a capture channel and a page whose user has done all that the
bounds allow may stop, so it is not checked there.

### Fairness

* `McpRoutes`: weak fairness of each call in progress. The async runtime polls a
  ready task again, tokio's locks serve in order, `run()` and `stop()` of the
  engine return, and `wait_route` has a deadline. No call is assumed to begin, and no
  message to arrive.
* `RouteMetrics`: strong fairness of each call and of the sampler, because the locks
  are fair: who waits for one is served although others keep taking it. The model
  does not keep the queue, so the strong form stands for it.
* `UiConsumers`: weak fairness only, because here the queues are in the state.
  Nothing relies on the timeout of `runtime_status`, as `consumer_status` has none.
* `StatusRegistry`: weak fairness of each owner's task and blocking job, of a
  release that has begun, of readers (an open UI polls) and of time. Liveness is
  checked with `Prompt`, that is, for processes that are not suspended past the TTL
  in the middle of every publish; without it a reader may take each temporary away.
* `UiMessages`: weak fairness of the interval's poll and of the steps of a fetch. The
  interval fires again and again (`setInterval`), and a request ends with an answer or
  an error. Nothing is assumed of the user, of captures or of the server's restarts.

## 4. Proofs

Checked by TLAPS, for every number of calls, names, routes, processes, readers,
consumers, configurations, fetches, messages, edits, publishers, sends and dialogs, every capacity, limit
and TTL, and either platform, unless the theorem says otherwise. The assumptions are
those of the modules: bounds are natural numbers, capacities are positive,
`None` and `Absent` are not identities, the name of a publisher is nobody's id (ids are
generated, `NamesAreNoIds`), newer instances are instances, one of the limits
of `KeepLast` is the largest. Four theorems have one of their own, in the statement: one
caller (section 5, two theorems), one reader on a platform where a rename replaces, or
that records of a newer version parse. With them, every safety property that the runs of
`McpRoutes`, `StatusRegistry`, `UiConsumers`, `UiMessages`, `UiWorkspace`, `RouteMetrics`
and `MessageCapture` check is proved, and those of `UiPublishers`, `UiDialogs`, `UiStorage`,
`UiNavigation` and `UiResponses` that passing runs check.

**`McpRoutesProofs`.** `NoOrphanRoute`, `ReservationIsExclusive` and
`QuiescentNameIsClean` are not inductive: that a failed start drains the buffer says
nothing unless one knows that the buffer could not have been filled by another
route, that only a call bound to the name forgets its counter, and that a route that
captures has a channel. `IInv` adds: calls are bound to a name and a run of that name
(`CallsAreBound`); the table is keyed by the name a run was started under, and a
reserved name has no route (`TableIsKeyedByName`); a live capturing route has an open
channel (`CaptureIsOpen`); a counter or a captured message under a name without a
route belongs to a call that has yet to remove it (`CountersAreOwned`,
`BuffersAreOwned`). One lemma per conjunct, one step per action; three lemmas say
where counters and messages can appear and where routes can leave the table, and
carry most of the ownership argument. `ImplementsSlots` then maps each action to a
step of `RouteSlots` or to a stutter. `TotalsAreTrueOfOneCaller` and
`CapturedAreOwnOfOneCaller` assume that there is one call (`OneCaller`), which is what the
two properties are stated for. By `CountersAreOwned` and `BuffersAreOwned` a name that this
call does not work on is then clean without a route, so a start meets neither counter nor
message of another; the rest says that each handler feeds the counter of its own run
(`CountersAreOwn`), that a route and a stop find their own under the name
(`RoutesHaveTheirOwn`, `CallsFindTheirOwn`), and that what is reported is of a route that
moves nothing more (`RepliesAreFinal`).

**`StatusRegistryProofs`.** `ReleasedStaysGone` rests on `ReleaseExcludesPublish` (the
mutex covers the whole publish and the whole removal, and the flag keeps later
publishes out). `CrashedRowsExpire` rests on the ages: the record of a dead process
is at least as old as its death (`DeadLeasesAge`), a dead process runs nothing
(`DeadIsQuiet`), and a row is only found by a listing in progress
(`RowsBelongToListings`). `ParsedVersionsCoexist` has a premise, that the record of the
other version parses: under it `NewerAreNotDoomed` is invariant, and only the owner
can remove such a lease. Without it, with
`NewerParses` set to FALSE, the property fails (section 6).
`FreshPeersAreListedByOneReader` assumes one reader and a platform where the rename
replaces; both are needed. Another reader may remove a fresh lease that it has judged by
the record before it, and without the replacing rename there is an instant without a lease.
The argument: a lease whose row a listing owes, and that it has yet to come to, is still
there and fresh (`OwedAreFresh`), because its age cannot pass that of the last heartbeat
(`LeasesAreOfAStamp`) and the only reader removes only a lease it has already come to
(`DoomedHaveBeenRead`).

**`UiConsumersProofs`.** All three invariants of the server's consumers and the
refinement of `RouteSlots`. The locks serve in the order of their queues, so the key of
the invariant is that whoever has a task in hand, started and not yet entered or taken
out and not yet stopped, is first in the queue as a writer. From this it follows that a
task without an entry belongs to exactly one call, and that no other call is in the
middle of its change. `RunningFollowsConfig` and `CopiesAgree` speak of a server on which
no update ran beside another or beside a start (`overlapped`); while that is so, an update
is the only call that changes anything (`UpdatesAreAlone`), what a call has read before it
waited is still the configuration (`CopiesAreCurrent`), and an update has stopped what it
must before it saves (`StoppedBeforeSave`, `SavedInOrder`).

**`UiWorkspaceProofs`.** `EditsSurvive`, `CleanMeansSaved` and `ToggleHitsTheClicked` for
any number of saves at a time. None is inductive. The invariant follows a save through
its three steps. `Alone`: a save of a section that is not at stake is the only save, and
what it has posted, then stored, then fetched of it is what the user made of it.
`Unopened`: a section whose tab was never opened is everywhere, in the page, on the
server and in each save under way, what the server keeps; so a save, which posts and
fetches all sections, cannot disturb it, and the tab that opens later starts from it.
`Based`: the baseline of an open section is what the server keeps, unless it was marked.
`Toggles`: the list that a toggle posts, and later fetches, has the clicked consumer
where it is selected. Seven lemmas say what each initialization makes of a page, whatever
the page. Then the steps fall into three kinds, a change by the user, the start of a
save, and its progress or end, each with one lemma that preserves the invariant and one
short lemma for each action to show that it is of that kind.

**`UiMessagesProofs`.** `EachMessageOnePlace`: every captured message is in one place, once,
whatever is polled, fetched, cut off and cleared in between. The places are the server's
buffer of each consumer, its rows in the page, and the answer each fetch has in hand. The
invariant adds that a captured message which is in no place has been dropped, and one that
was dropped is in none. One lemma (`Moves`) is about sets of places only: a step that
gathers in one place what some places held and what is new, and drops the rest, keeps the
property. Every action that moves messages is an instance of it.

**`RouteMetricsProofs`.** `SamplesFollowCounters` is about two maps under two locks, and
would fail at a step that writes what was read before. The invariant says that a call
between two maps is the writer (`WriterIsInACall`), that the sampler takes its locks in
order and has the counters while nobody writes (`SamplerHasItsLocks`), and what the
writer has done by then (`CallsAreInOrder`): so while the sampler has the counters,
nobody can have forgotten one.

Of the capture channel, in the same module, `EachMessageOnce` needs `HandsAreOwn`: the message in the hand
of a pusher is in nobody else's hand, and in no drain's, and every message that is
anywhere was pushed, so that a new number is new. `PushesKeepTheLast` needs what the drains
have: in the order of its handler a message that a drain has taken comes before what is in the
channel, and the message in a hand after all of that handler (`HandlersInOrder`). For the
oldest to go, `LastAreKept` says of a channel whose pushes never overlapped that the one
message in hand is the last of all and finds room at the second try, whatever the drains take
in between. Lemmas about sequences say what appending at the end and taking the first do to one
without duplicates, and to one that is sorted by any relation.

**`UiPublishersProofs`.** A handler of the view calls several functions, each of which makes
of one page another. So the invariant is a conjunction of predicates of a page, and of
what the history variables say at that time (`Past`); a lemma for each function says what
it makes of any page that is in order, and the lemma of an action follows the calls of the
handler. `AnswersAreFiled` is not inductive: the answer is filed from what the send holds,
so the invariant has for each send that it holds a publisher that was made, with the payload
that was sent unless the send is marked as touched, and that an attached one holds the
publisher of the list (`CallOK`); for a change in place to keep that, no id may be twice in
the list (`ListOK`). The form writes its whole document over the selected publisher, so it
must be of that one or of one that is no longer in the list (`FormOK`), or an id would come
up twice. What may be loaded later must be in order now,
so the same is said of the three stores of the history, of the server's, and of a list that
was posted (`HistoryOK`, `WorldOK`). The history of a publisher, and the copy that the view
keeps up to date, are what was answered for it (`FiledOK`), unless another copy was taken
(`rolled`): then `AnswersAreKept` says that no entry is made up, not that none is lost, which
does happen (section 6). What is kept under a name is of one
that has had the name (`ResponsesOK`), which is as much as holds of the panel, and it is only
as it should be once it was rendered (`ShownOK`). What says "Sending" under an id has a send of
that publisher under way (`SendingOK`), without which another's answer might take its end away;
a publisher that the form of a deleted one was written over (`replaced`) is excepted.
`Grows` says how the history variables change, and what was in order stays so. The proof rests
on `NamesAreNoIds`: a publisher whose name is another's id would take its history.

**`UiViewsProofs`.** Four parts of the page that share nothing.

Of the dialogs, `EachIsAnswered`: the line is the numbers from the active one to the last
asked, in order; those before it are answered as meant. A dialog that is hiding and has been
passed by answers nobody, which is what `closeDialog`'s comparison of identities is for.

Of the storage, `HistoryIsAsPromised`, for any number of messages, of writes that wait and of
restarts. A write takes its key before it waits and its rows are sealed after it, and by then
the mode, the server and the page may be others. So the invariant says of the text in the
storage, and of each write that has sealed its rows, that every row of it was sealed with the
key that it names, or was in the page while it was told of no encryption (`TextIsPromised`,
`WritesAreMade`); of what a page began with, that it came from there
(`LoadedIsPromised`); and that whoever was told of encryption has a key (`HasKey`).

Of the navigation, `NavigationSettles`, for any number of entries, moves and switches under
way. The property is about pages at rest, and the invariant about every step between: unless
threads crossed, at most one is under way and it is of the tab that is shown (`OneAtATime`),
and what a switch finds when it comes to its end is the place that the address must name
(`PlaceIsKept`). What is pending for a list has a switch to it that has not restored it yet
(`PendingIsOpened`), so nothing that is pending outlives its switch. A copy has such a switch,
or is selected and remembered, with no address of its list that names another entry
(`CopyIsKept`): whatever restores the list then restores the copy. Its steps are of five kinds
(a step that shows nothing, a list shown for the first time, a list restored, an end, a
beginning), with one lemma for each that says when it keeps the order, and one for each action.

Of the answers of consumers, `RowsAreKept`, for any number of consumers, rows, edits and
saves, and any names, values and bodies. That the rows say what the user typed is not
inductive: the next render may make them again from a consumer that holds less. So the
invariant says that the rows either match the consumer, which keeps them, or say what would
be made of it again (`RowsInOrder`), and that after an edit the consumer has the answer that
the rows give, in its output as well where its mode is to respond (`EditInOrder`). Where
the rows do not match there has then been no edit, and making them again changes nothing.
A save that lands or fails leaves the page alone, and its answer opens the editor anew.
`ChosenModeIsSaved` is not among what is proved: it fails (section 6).

The assumptions are that the bounds are natural numbers (`StorageBounds`, `NavigationBounds`),
and that a name, a value and a body can be empty or say something, with finitely many names
(`ResponseConstants`).

Only model-checked: every liveness property; and of the page, requests sent again, imports,
forms, sidebars, errors and payloads. Liveness under fairness, and what a
recursive definition computes for every input (the trees, the imports, the forms, the scan of
a text), are beyond this prover; the rest is left to TLC because it is about bounded histories
of one user, where an instance covers the cases.

## 5. What holds only without concurrency

Some properties are stated for callers that wait for each answer, because
the code gives up more when calls overlap:

* `TotalsAreTrue` and `CapturedAreOwn` in `McpRoutes`: `stop_route` frees a name before
  it clears what is kept under it. With a second caller `mcp_resurface` shows the second
  to fail; the first fails in the same window.
* The first part of `PushesKeepTheLast` in `MessageCapture`: pushes that overlap may drop the
  newer message.
* `RunningFollowsConfig` and `CopiesAgree` in `UiConsumers`: nothing covers a whole
  update. Two updates at a time may save in one order and swap in the other; a start
  that has read the configuration before an update inserts its collector after it,
  with the old settings, and since an update compares configurations and not what
  runs, the next updates leave it as it is. The start at boot
  (`web_ui.rs:94-97`) runs beside the first requests.

* `EditsSurvive` in `UiWorkspace` excepts the sections in `exposed`: a save replaces the
  page's configuration with the server's, so what is typed into a section between its
  post and the answer is overwritten, and so is one of two saves at a time.
* `CleanMeansSaved` excepts `unmarked`: the server stores the whole configuration with
  every section save, and marks only the section that asked as saved.
* `ToggleHitsTheClicked` excepts a list or a selection that moved during the save: by a
  change of the user, or because another save that was under way is stored between the
  toggle's POST and its GET (`consumers-view.ts:909`), whose list the toggle then fetches
  and takes the entry at the selected index from.
* `AnswersAreFiled` excepts the payload of a publisher that was edited before the
  answer, from which the entry is built (`touched`), and says nothing of the length and
  order of a history that was taken from another copy than the stored one (`rolled`): the
  one of the page load, which a save of the workspace brings back, or the server's when none
  is stored. `AnsweredIsInHistory`, without exceptions, fails (section 6).
* `SendingIsUnderWay` excepts a publisher that the form of a deleted one was written over
  (`replaced`): while a deletion is being saved, the form still is the deleted publisher's,
  and an edit in it gives its id to the next one. It is about what is kept under ids, not
  under names.
* `ResponseIsOfSelected` allows a response of any publisher that has had the name of the
  selected one.
* `ResendRepeats` speaks of the headers only of entries whose rows the user gave (`from`):
  showing an entry, the form, and a page load leave the rows of the panel and the headers of
  the publisher apart, and an entry records the latter. `ResentIsFiled`, of entries that were
  sent again, fails (section 6). Blank fields and absent headers of an entry leave those of
  the publisher as they are.
* `FreshPeersAreListed` is checked with one reader, and `RunningIsAdvertised` with `Prompt`.
* `PayloadIsMeant` excepts payloads that are not ASCII or that read as hex digits
  themselves, while digits are edited (section 6).

## 6. Findings

Each is shown by a run; quotations are in `PROJECT.json`.

1. `stop_route` drains the buffer of a name that may already have a new route
   (`mcp.rs:1015`), which its own comment means to prevent (`mcp_resurface`).
2. The status that the page keeps has no `outcome` (`runtime-status.ts:93`), so the last
   messages of a consumer that finished are not fetched, although the code has a case
   for it (`ui_tail`).
3. A consumer that is set to acknowledge, with a custom response beside it, is stored
   with the response (`config.rs:743`, `ui_response`).

Others are shown by changing a constant or a property of a configuration:

* A capture channel keeps the capacity of its first access, so a restarted route keeps
  another number of messages than its `capture_last` (`mcp.rs:785`): `KeepsLastN` of
  `McpRoutes` with one call, one name and two values of `KeepLast`. `dev/docs/MCP.md:165`
  says "`capture_last: N` keeps the last N messages that flow through the route".
* On Windows the lease is absent between removal and rename, while the module says that
  leases are replaced atomically (`status_registry.rs:3`, `370`): `FreshPeersAreListed` with
  `Windows = TRUE`.
* A record of another schema version that does not parse is deleted before its version
  is looked at (`status_registry.rs:414`): `VersionsCoexist` with a newer instance and
  `NewerParses = FALSE`.
* With concurrent handlers a full buffer may drop the newer message
  (`route_metrics.rs:330`): `OldestIsDropped` with two handlers.
* A save of the workspace takes the history of publishers back to what it was at the page
  load, and the next answer stores that (`publishers-view.ts:651`): `AnsweredIsInHistory` in
  `ui_views`. `dev/docs/getting-started/desktop-ui.md:36` calls it "previous sends".
* A history entry that is sent again after its headers were edited files the edited
  headers, which were not sent (`publishers-view.ts:1004`): `ResentIsFiled` of `UiRequests`.
* The panel shows the payload kept in the browser while a send posts the publisher's
  (`publishers-view.ts:806`, `1111`); an edit in the form, which writes its whole document
  over the publisher, leaves the two apart: `PayloadShownIsSent` in `ui_views`.
  `desktop-ui.md:34` calls the former "the outgoing payload".

Seen while modelling, and without a run. In the server:

* A running consumer keeps the endpoint of the publisher it was started with when
  only that publisher is edited, as `update_config` compares the consumer alone
  (`ui_app.rs:1735`).
* `list()` judges a record and then removes whatever is at the path; a fresh lease
  renamed into place in between is lost until the next heartbeat
  (`status_registry.rs:425`). `RunningIsAdvertised` covers the recovery.
* `starting` is locked without `routes` on the path of a failed start (`mcp.rs:825`),
  although the comment at 214-217 has them locked together; the proofs show that
  nothing depends on it there.
* The sampler reads the clock before its locks (`route_metrics.rs:264`), so a counter
  created in between is sampled with an earlier instant than its start; the
  difference is saturated at zero.
* `drain()` ends when it finds the channel empty, which continuous pushing can put
  off (`route_metrics.rs:335`).
* The heartbeat's closure holds a clone of the `UiApp` that owns the lease, so the
  lease is removed by the explicit call only (`ui_app.rs:1539`).
* Nothing forgets the counter of a UI consumer; its total goes on over restarts.

In the page, saving and editing:

* A publisher's deletion marks the publishers as saved although the save of their
  section has failed (`publishers-view.ts:394`).
* A consumer copied to the publishers before that tab was opened is in its baseline, and
  so counts as saved (`consumers-view.ts:771`, `publishers-view.ts:60`).
* `_mqb_saved_sections.consumers` is not renewed by a save of the workspace, so Start may
  take a stale consumer for unsaved or for saved (`consumers-view.ts:504`).
* A section save posts the whole configuration of the page.
* Form drafts are kept by index; the busy mark of a toggle is reset by the next status
  (`consumers-view.ts:480`); a file that is browsed for is written to whatever is selected
  when the dialog ends (`publishers-view.ts:840`).
* `restoreTabState` takes back what is pending for both lists, so a copy made during a
  switch may not be opened, and overlapping switches or a deletion may leave the address
  naming another tab (`bootstrap.ts:156`). Deleting acts on the next publisher while the
  panel still shows the deleted one.
* A second answer given to a hiding dialog goes to whichever is active
  (`Dialog.svelte:41`).

Messages and history:

* After a restart of the server the sequence starts again and the page's `lastSeen` hides
  new messages until it is passed (`consumers-view.ts:593`); an answer that is drained and
  then fails to arrive is lost; a block is taken oldest first and cut at the end, so the
  older messages are kept (601).
* Writes of the sealed history are started in order but may end in another, and the text
  is made after the key is there (`encrypted-json-storage.ts:138`). A write under way when
  the mode becomes plain hides the history; a durable history is deleted by a reload under
  a temporary mode; a page that outlives its server goes on with the old key; if the
  security request fails at load the history counts as not encrypted (`bootstrap.ts:398`).
* The history of publishers is kept under a name as well as an id, so entries of two
  publishers of one name may meet (`publishers-view.ts:690`); the error of a send is shown
  whatever is selected (266); what was cleared and not synced comes back; a deletion
  schedules no sync. Its stored copy is not encrypted in any mode (682).
* A history entry with disabled headers only has them enabled after a load
  (`workspace-config.ts:191`).

Imports, lists and forms:

* Entries without a name are dropped by an import, and ids are kept, so importing one's
  own export under new names doubles ids, and references follow the first
  (`import-export.ts:235`, `publishers-view.ts:1275`); of three publishers of one name the
  third counts as unique (1281). An imported request has the whole address as its URL and
  its path again beside it (431). The presets of a document that is the configuration
  itself, or presets alone, are taken twice (`import-export.ts:274`, `303`).
* Searching for a group's own label hides its children (`ConsumersPanel.svelte:129`).
* ClickHouse's `database` and gRPC's `topic` have no field for a publisher
  (`custom-form.ts:123`); a new mapping rule named as an earlier one takes what stands
  beside it (1107); a switch loses its cases once predicates are added and it is rendered.
* A file consumer with `output.response` but no `response` shows an empty editor, whose first
  edit replaces its answer (`consumers-view.ts:372`); a blank payload without headers is
  reset by the next render (`utils.ts:110`); choosing a publisher and saving drops the
  custom response.
* The hex view shows a text as Latin-1 and reads its digits as UTF-8, so any edit there
  changes the characters that are not ASCII (`PayloadDisplay.svelte:80`,
  `payload-format.ts:50`). A payload of hex digits is shown as the bytes they stand for,
  and an edit replaces the digits by those (`payload-format.ts:109`). Half a byte that is
  typed alone leaves the old payload. In view `auto` a binary payload is not shown as hex
  digits (`PayloadDisplay.svelte:93`). A selection that changes by the address while a hex
  view has the focus leaves that view, whose end then writes it to the new selection (117).
* Without a schema, a missing field is blamed on the deepest blocks that lack it, whatever
  they are (`save-error.ts:116`).

## 7. Not modelled

Left out for good: the engine beyond what its callers see; text and layout; TLS,
HTTP routing and origin checks; native plugins; argument parsing; the installer; the
copy pipeline, whose operators are pure; themes, icons and generated code. Left out of the modelled parts: a clock that jumps back, a failing
removal of one's own lease, directory permissions, the smoothed rate, calls whose
future is dropped by a client that disconnects (but for the status timeout),
consumers that share a runtime key, and validation errors, which change nothing.

The configuration file and its secret store (`config.rs`, `encrypted_config.rs`) and the
desktop shell's keys and recovery are not modelled: their operations are one function
each, and their hazards are failures of the file system between two writes, which are
listed with their lines. Of the forms, nested endpoints are rendered by the same code
and are a value here; the schema-form library is external. `publish`, of both servers,
sends once and keeps nothing.
