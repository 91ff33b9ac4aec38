----------------------------- MODULE UiStorage -----------------------------
(***************************************************************************)
(* What the page keeps in the browser's storage and how: the history of    *)
(* the messages, in the clear or sealed with a key that the server hands   *)
(* out, under the security mode that is chosen in the settings             *)
(* (ui/src/lib/encrypted-json-storage.ts, storage-security.ts, storage.ts, *)
(* settings.ts, consumers-view.ts, ../bootstrap.ts).                       *)
(*                                                                         *)
(* A key is a number: 0 is no key, Persistent the one in the key store of  *)
(* the desktop, another number that of one process of the server.  A       *)
(* sealed text opens with its key only.                                    *)
(***************************************************************************)
EXTENDS Naturals, Sequences, SequencesExt

CONSTANTS
  MaxMessages, \* bound
  MaxChanges   \* bound: restarts of the server, reloads and saved settings

\* The bounds are numbers.
ASSUME StorageBounds == MaxMessages \in Nat /\ MaxChanges \in Nat

VARIABLE cache

cacheVars == <<cache>>

Persistent == 100
Absent     == [how |-> "nothing"]
Plain(rows)       == [how |-> "plain", rows |-> rows]
Sealed(key, rows) == [how |-> "sealed", key |-> key, rows |-> rows]

-----------------------------------------------------------------------------
(* Modes of security.                                                      *)

STORAGE_MODE_UI ==
  [unencrypted            |-> {"cli", "desktop"},
   balanced               |-> {"cli", "desktop"},
   env_temporary_messages |-> {"cli"},
   temporary_messages     |-> {"desktop"},
   sensitive              |-> {"desktop"},
   durable                |-> {"desktop"}]

availableStorageModeValues(info) ==
  IF info.target = "cli" THEN {"unencrypted", "balanced", "env_temporary_messages"}
  ELSE IF ~ info.keyStoreAvailable THEN {"unencrypted", "temporary_messages"}
  ELSE {"unencrypted", "balanced", "sensitive"} \cup
       (IF info.persistentMessagesAvailable THEN {"durable"} ELSE {})

getStorageModeUiOptions(info) ==
  {v \in availableStorageModeValues(info) : info.target \in STORAGE_MODE_UI[v]}

\* The options that are left of the select; the current mode stays chosen.
pruneStorageModeOptions(info) == getStorageModeUiOptions(info)

\* The server's answer to GET /storage-security.
StorageSecurity(server) ==
  LET sealed  == server.mode \notin {"unencrypted", "balanced"}
      durable == server.mode = "durable" /\ server.target = "desktop" /\ server.keyStore
  IN  [target |-> server.target, keyStoreAvailable |-> server.keyStore,
       persistentMessagesAvailable |-> server.keyStore,
       keySource |-> IF durable THEN "os-key-store"
                     ELSE IF sealed THEN "ephemeral-process" ELSE "none",
       messagesEncrypted |-> sealed, messagesPersistent |-> durable \/ ~ sealed,
       messageKeyHex |-> IF durable THEN Persistent ELSE IF sealed THEN server.boot ELSE 0]

normalizeStorageSecurityInfo(raw) == raw

\* What a page takes that gets no answer when it is loaded.
EMPTY_STORAGE_SECURITY ==
  [target |-> "cli", keyStoreAvailable |-> FALSE, persistentMessagesAvailable |-> FALSE,
   keySource |-> "none", messagesEncrypted |-> FALSE, messagesPersistent |-> TRUE,
   messageKeyHex |-> 0]

hasTemporaryEncryptedMessages(info) ==
  info.messagesEncrypted /\ ~ info.messagesPersistent /\ info.keySource = "ephemeral-process"

\* A bug: history that does not outlive the server is not sealed.
sealedIfKept(info) == info.messagesPersistent /\ info.messageKeyHex # 0

hasEncryptedMessages(info) == info.messagesEncrypted /\ info.messageKeyHex # 0

-----------------------------------------------------------------------------
(* The slot in the storage.  A write into the storage may be refused, and  *)
(* nobody is told (localStorageBackend).                                   *)

\* What a text gives that is read under the security "info".
decryptJson(raw, info) ==
  CASE raw.how = "plain" -> raw.rows
    [] raw.how = "sealed" /\ raw.key = info.messageKeyHex -> raw.rows

Opens(raw, info) ==
  \/ raw.how = "plain"
  \/ raw.how = "sealed" /\ hasEncryptedMessages(info) /\ raw.key = info.messageKeyHex

getStoredJson(raw, info) ==
  IF raw.how = "nothing" THEN [rows |-> {}, raw |-> raw]
  ELSE IF Opens(raw, info) THEN [rows |-> decryptJson(raw, info), raw |-> raw]
  ELSE [rows |-> {}, raw |-> IF hasTemporaryEncryptedMessages(info) THEN Absent ELSE raw]

setItem(raw, value) == {value, raw}

\* In the clear it is written at once, else when it is sealed: "writes" are
\* those under way.  What is sealed is what the page has when the key is there.
setStoredJson(c, rows) ==
  LET info == c.security
  IN  IF ~ hasEncryptedMessages(info)
      THEN {[c EXCEPT !.raw = raw] : raw \in setItem(c.raw, Plain(rows))}
      ELSE {[c EXCEPT !.writes = Append(@, [key |-> info.messageKeyHex, read |-> FALSE,
                                            rows |-> {}])]}

-----------------------------------------------------------------------------
(* The page.  Ghosts: "open" are the messages that a page wrote which had  *)
(* been told of no encryption, "made" those that were sealed, each with    *)
(* its key, "loaded" is what the page began with and "under" the key that  *)
(* it then had.                                                            *)

Servers == [target : {"cli", "desktop"}, keyStore : BOOLEAN, mode : {"balanced"}, boot : {1}]

StorageInit ==
  \E server \in Servers :
    /\ server.target = "cli" => ~ server.keyStore
    /\ cache = [server |-> server, security |-> StorageSecurity(server), raw |-> Absent,
                rows |-> {}, writes |-> <<>>, next |-> 1, events |-> 0,
                open |-> {}, loaded |-> {}, under |-> 0, made |-> {}]

persistMessages(c) ==
  {[d EXCEPT !.open = IF c.security.messagesEncrypted THEN @ ELSE @ \cup c.rows] :
     d \in setStoredJson(c, c.rows)}

\* New messages came with a fetch.
Collect ==
  /\ cache.next <= MaxMessages
  /\ Len(cache.writes) < 2
  /\ cache' \in persistMessages([cache EXCEPT !.rows = @ \cup {cache.next}, !.next = @ + 1])

clearConsumerHistory ==
  /\ cache.rows # {}
  /\ Len(cache.writes) < 2
  /\ cache' \in persistMessages([cache EXCEPT !.rows = {}])

\* The key was imported: the page's rows are turned into text.
importMessageKey(i) ==
  /\ ~ cache.writes[i].read
  /\ LET key == cache.writes[i].key
     IN  cache' = [cache EXCEPT !.writes[i] = [@ EXCEPT !.read = TRUE, !.rows = cache.rows],
                                !.made = @ \cup {<<key, m>> : m \in cache.rows}]

\* The text was sealed.
encryptJson(i) ==
  /\ cache.writes[i].read
  /\ \E raw \in setItem(cache.raw, Sealed(cache.writes[i].key, cache.writes[i].rows)) :
       cache' = [cache EXCEPT !.raw = raw, !.writes = RemoveAt(@, i)]

StorageEvent(c) == cache.events < MaxChanges /\ cache' = [c EXCEPT !.events = cache.events + 1]

\* A save answers with the security of the new mode, unless that fetch fails.
replaceConfigFromSave ==
  \E mode \in pruneStorageModeOptions(cache.security), answered \in BOOLEAN :
    LET server == [cache.server EXCEPT !.mode = mode]
    IN  StorageEvent([cache EXCEPT !.server = server,
                 !.security = IF answered
                              THEN normalizeStorageSecurityInfo(StorageSecurity(server)) ELSE @])

ServerRestart == StorageEvent([cache EXCEPT !.server.boot = @ + 1])

\* The rows of the page are those of the storage.
readStoredMessages(raw, info) == getStoredJson(raw, info).rows

\* A load of the page; writes that were under way are gone.
StorageReload ==
  \E info \in {normalizeStorageSecurityInfo(StorageSecurity(cache.server)),
              EMPTY_STORAGE_SECURITY} :
    LET got  == getStoredJson(cache.raw, info)
        rows == readStoredMessages(cache.raw, info)
    IN StorageEvent([cache EXCEPT !.security = info, !.raw = got.raw, !.rows = rows,
               !.writes = <<>>, !.loaded = rows, !.under = info.messageKeyHex])

StorageNext ==
  \/ Collect \/ clearConsumerHistory
  \/ \E i \in DOMAIN cache.writes : importMessageKey(i) \/ encryptJson(i)
  \/ replaceConfigFromSave \/ ServerRestart \/ StorageReload

-----------------------------------------------------------------------------
(* What the page and the storage may hold.                                 *)

Messages == 1 .. MaxMessages
Texts ==
  {Absent} \cup {Plain(rows) : rows \in SUBSET Messages}
    \cup {Sealed(key, rows) : key \in Nat, rows \in SUBSET Messages}
Securities ==
  [target : {"cli", "desktop"}, keyStoreAvailable : BOOLEAN,
   persistentMessagesAvailable : BOOLEAN,
   keySource : {"none", "ephemeral-process", "os-key-store"}, messagesEncrypted : BOOLEAN,
   messagesPersistent : BOOLEAN, messageKeyHex : Nat]

StorageTypeOK ==
  cache \in [server : [target : {"cli", "desktop"}, keyStore : BOOLEAN,
                       mode : DOMAIN STORAGE_MODE_UI, boot : Nat \ {0}],
             security : Securities, raw : Texts, rows : SUBSET Messages,
             writes : Seq([key : Nat, read : BOOLEAN, rows : SUBSET Messages]),
             next : 1 .. MaxMessages + 1, events : 0 .. MaxChanges,
             open : SUBSET Messages, loaded : SUBSET Messages, under : Nat,
             made : SUBSET (Nat \X Messages)]

StorageSpec == StorageInit /\ [][StorageNext]_cacheVars

-----------------------------------------------------------------------------
(* Properties.                                                             *)

\* What was collected while the history is encrypted is never on the disk in
\* the clear, unless the page had it still when it was told of no encryption (or,
\* when it was loaded, of nothing); and what a page begins with was written in such a mode, or
\* sealed with a key the server has still: the temporary history of a server
\* ends with it ("encrypted message history cleared after restart", settings.ts;
\* setStoredJson, getStoredJson, replaceConfigFromSave).  This is the history of
\* consumers; that of publishers is written in the clear (persistHistory).
HistoryIsAsPromised ==
  /\ cache.raw.how = "plain" => cache.raw.rows \subseteq cache.open
  /\ \A m \in cache.loaded : m \in cache.open \/ <<cache.under, m>> \in cache.made
=============================================================================
