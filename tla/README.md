# A TLA+ model of the Command Code provider plugin

The plugin (Go, `impl.go`, `main.go` and others) lets CLIProxyAPI, the *host*, use
Command Code, the *upstream*, as a provider. A small Python helper
(`scripts/commandcode_loopback_bridge.py`) takes part in the browser login. This directory
holds specifications of the parts that keep state or run concurrently, configurations that
check them with TLC, and proofs checked by TLAPS.

Paths in this file and in the modules are relative to the repository.

## 1. The system

The host calls the plugin through a C interface; `handleMethod` (`main.go`) dispatches on the
method name. Calls run concurrently, each in a thread of the host. Goroutines are only started
for streams. Shared state lies in package variables: the login sessions (`loginMu`), the model
catalog (`commandCodeCatalog.mu`), the quota cache and shared key (`quotaMu`), the configuration
(`configMu`).

| Component | State | Operations | Talks to |
|---|---|---|---|
| Login sessions (`impl.go`) | `loginSessions` under `loginMu` | `auth.login.start`, `auth.login.poll`, public callback route | upstream `whoami`; host; loopback helper |
| Loopback bridge (`scripts/`) | `server.bound`, `server.consumed`, threads | `/start`, `/callback`, shutdown | browser; plugin's callback route |
| Model catalog (`models_dynamic.go`) | last good catalog, `nextRefresh` under `mu` | `snapshot`, `fetch`; names: `catalogPublicID`, `upstreamModelID` | upstream model list; host; every execution |
| Chat execution and streaming (`impl.go`) | one goroutine per stream | `execute`, `execute_stream`, the producer, `callUpstream` | host stream calls; upstream |
| Responses execution (`responses.go`) | as above, with item and sequence counters | `produceResponses`, `buildExecutorCompletion` | the same event loop |
| Responses input and tools (`responses.go`, `responses_namespace.go`) | none; the client keeps the history | `normalizeResponses`, namespace and custom tools | chat messages |
| Chat messages (`impl.go`, `chat_compat.go`) | none; the client keeps the history | `normalizeChatRequest`, conversion of messages and tool results | upstream |
| Usage accounting (`impl.go`) | none | `usagePayload`, token counters | both executions |
| Quota reads (`quota.go`, `quota_auth.go`) | `quotaCache`, `quotaAPIKey` under `quotaMu` | `quota.fetch`, quota pages, lookups | upstream (three paths); credential files |
| Quota access (`quota_access.go`) | none | `quotaAuthorize` | host management endpoint |
| Quota dashboard server (`quota_dashboard.go`) | none | account list, one account's quota | quota access, quota reads |
| Quota dashboard page (`quota_dashboard.html`) | key, cards, buttons, fetches under way, `sessionStorage` | unlock, list, refresh all, refresh one | dashboard server |
| Configuration (`impl.go`) | base URLs, quota settings under `configMu` | `applyConfigYAML` | - |
| Credentials (`impl.go`) | none (files are the host's) | parse, refresh, file names | host |

### What is hard

* **Login.** `handleCommandCodeCallback` takes a session out of the table, verifies the key with
  the mutex released, and puts the session back. Polls, sweeps by new logins and further
  deliveries run meanwhile. Every call reads the clock before it waits for the mutex. The route
  is public. The helper gives up after 20 s, the plugin's HTTP client after ten minutes.
* **Bridge.** Requests run in threads; `/start` checks and sets `server.bound` without the lock
  that `deliver` uses; the answer to the browser is written before the shutdown is started.
* **Catalog.** One mutex is held across a network call that everything waits for; a failure must
  not lose the catalog; a name learnt from one catalog is resolved against a later one.
* **Streams.** A chunk is a host call that can fail, also after the host has taken it. Finish
  events may come anywhere or not at all. Responses events are numbered and nested.
* **Quota.** Three requests per read, each resolving its key anew; a key shared by all reads that
  name none; a retry after a 401; a cache written by reads that end in any order.
* **Conversations.** The plugin is stateless between two requests. Tools are renamed and custom
  inputs wrapped on the way up, both undone on the way down, and done again when the client sends
  its history; call IDs are the model's and may come again.
* **Dashboard page.** Every fetch is awaited, and its answer meets a page whose key, cards and
  buttons may have changed; passes over the accounts overlap.

### What makes each part correct

* Login: a session has one holder; a credential is handed over at most once, in time, only if it
  was verified for this login; only a delivery with the bridge token can end a live session early.
* Bridge: one forward per helper process; "saved" is only shown if the key was stored; nobody
  hangs.
* Catalog: one refresh per period; current answers; the last good catalog survives; a listed name
  reaches the model it was listed for.
* Streams: a clean close means a complete answer, the same as without streaming; failure at any
  host call ends in one close with an error; items and numbers are consecutive and bracketed.
* Quota: an account never sees another's data; the cache is never older than its TTL and never
  erased by a failure; a read does not hammer the provider.
* Conversations: an accepted request brings the whole history, in order and under the names the
  model used; a call reaches the client as it declared the tool; what the plugin answered it
  accepts again.
* Usage: one answer has the same counts streamed and plain, whatever the provider calls them.
* Dashboard page: a rejected key stays forgotten; only checked keys are kept; the page comes to
  rest; no card is left out.

## 2. Modules

| Module | Models | Kind |
|---|---|---|
| `LoginSessions` | the session table, its three calls | state machine |
| `LoginPromise` | what the host may rely on | abstract specification, implemented by `LoginSessions` |
| `LoginBridge` | the helper in front of `LoginSessions` | composition: extends `LoginSessions` |
| `ModelAliases` | public names and their resolution | operators |
| `ModelCatalog` | catalog, refreshes, listings | state machine, uses `ModelAliases` |
| `UsageCounters` | `usagePayload` and the counters with their field names | operators |
| `UpstreamEvents` | the event loop of `callUpstream` on its result | operators, used by both streams; extends `UsageCounters` |
| `StreamContract` | what a host may rely on in a chat stream | abstract specification, implemented by `ChatStream` |
| `ChatStream` | `execute_stream` and the chat producer | state machine |
| `ResponsesStream` | `produceResponses` | state machine |
| `ChatMessages` | a chat request as the upstream gets it | operators |
| `ResponseTools` | Responses items and tools as chat requests, calls as items | operators; extends `ChatMessages` |
| `Conversation` | client, plugin and model over several requests | composition: extends `ResponseTools` |
| `QuotaReads` | concurrent quota reads | state machine |
| `QuotaPage` | the dashboard's script with the plugin's answers to it | state machine |
| `MC...` | instances for TLC | |
| `Login_proofs` | theorems about `LoginSessions` and `LoginBridge` | proofs; extends `LoginBridge` |
| `ModelCatalog_proofs`, `ChatStream_proofs`, `ResponsesStream_proofs`, `Conversation_proofs`, `QuotaReads_proofs`, `QuotaPage_proofs` | theorems about the module of the same name | proofs |
| `UpstreamEvents_proofs` | lemmas on results and usage objects that the two streams share | proofs; extends `UpstreamEvents` |

Definitions that begin with "Mutant:" in their comment are faulty variants of the definition
after them. They are used by nothing in the specifications; put in the place of the right
definition they show that a property can fail.

### How state and actions correspond to the code

**LoginSessions.** A step is one critical section of `loginMu` or the code between two.
`StartCall`/`StartInsert` are `startCommandCodeLogin` before and in its mutex, with the sweep of
expired sessions. `PollCall`, then one of `PollSuccess`, `PollExpired`, `PollPending`, is
`pollCommandCodeLogin`. `CallbackCall` reads clock and headers; `CallbackReject`, `CallbackSpend`
and `CallbackAdmit` are the outcomes of the first critical section (the code's checks after the
unlock only decide the answer, since the session is already gone); `VerifyFails` and
`VerifySucceeds` are `fetchWhoAmI`; `CallbackStore` is the second critical section. A login stands
for the state and bridge token of one start. `issued`, `claims` and `proved` are history: what
was issued, handed over and verified. `CallbackCall` requires of a delivery with proof that the
login exists: the token is 256 random bits.

**LoginBridge.** Threads of the helper have a place (`bind`, `send`, `await`, `accepted`,
`refused`). `StartRequest` is the test of `server.bound`, `StartBind` the assignment. `Deliver` is
the locked part of `deliver`. `Forward` enters the plugin (`CallbackCall`), `PluginCallback` lets
the plugin proceed and, at its end, gives the waiting thread its answer. `ForwardFails` may happen
at any time before the answer: 20 s have passed or the connection broke. The helper looks at no
clock of ours, so the model does not relate 20 s to the five minutes of a session; a delivery that
comes late is a poll or callback that finds the session expired. `Reply`, `ReplyLost`, `Shutdown`
and `Restart` are the ends of a helper.

**ModelCatalog.** `Lock` takes the mutex, reads the clock and decides; `FetchSucceeds` and
`FetchFails` are the rest of the `if`; `Return` copies and unlocks. An upstream answer is a set of
entries (ID, compatible or not); an ID is the sequence of its segments. `listed` is the catalog of
the last listing, which is what the host knows.

**ChatStream.** One step is one host call or one upstream event. `Emit` describes a host call: it
succeeds; or it fails and the chunk arrived or not (`callHost` reports an error also when the
reply cannot be decoded). `Accept`/`Refuse` is the handler, `Role` ... `Usage` the producer,
`ReadDelta`, `ReadFinish`, `ReadEnd` the event loop, `Close` the deferred close.

**ResponsesStream.** One upstream event puts the stream events it causes into `todo`, from which
they are emitted one host call at a time, numbered when they are emitted, as in the code.

**UsageCounters.** An upstream usage object is two functions, one from its keys to numbers and one
from its detail objects to such functions. The lists of spellings are the code's. A finish event of
`UpstreamEvents` carries a usage object or none; the last one wins, as in the code.

**ChatMessages, ResponseTools, Conversation.** The operators keep the code's names where it has a
function of that name; `Convert` is one round of the loop over messages in `callUpstream`, and
`Converted` the whole loop, a function of the number of messages gone through. Contents are sequences of part kinds, tool names are sequences so that the hash
of a namespace and a name is their concatenation, and a text that may be JSON says only whether it
is JSON and whether it is an object with a string `input`. A step of `Conversation` is a request
(`Ask`: the client adds a message or none and sends its history) or an answer (`Answer`: the
upstream's calls are converted, delivered, and run by the client, which keeps all of it in its own
format). `AddTools` is an `additional_tools` item. `spoken` and `told` are history: what the two
sides said independent of any format, the parts of the system's messages apart, since the upstream
gets those in a field of their own; `HistoryArrives` compares both with what was sent.

**QuotaPage.** A step is a turn of the browser's event loop: a click or the form, or the arrival of
one answer with everything the script does before the next `await`. `Continue` is the loop of
`refresh`, from one batch to the next that has a card to load. A request remembers the key it was
made with; `Absorb` is `api` on its answer. `verified`, `rejected` and `overtaken` are history.

**QuotaReads.** A read goes from the cache over the three paths to the storing of the document;
per path it resolves a key, sends it, and after a 401 looks the credential up again. A document is
abstracted to the accounts whose data is in it and the time of its first part.
An `auth_index` is a file's name or a position among the files there are, which shift when one is
added or removed; `meant` is history: the accounts a read has named so far.

## 3. Runs

| Run | Configuration | Bounds | Shows |
|---|---|---|---|
| `login` | `MCLoginSessions.cfg` | 2 logins, 2 keys, 1 poll and 2 callbacks at a time, lifetime 1, clock to 2 | the safety of the table; refinement of `LoginPromise` |
| `bridge` | `MCLoginBridge.cfg` | 2 logins, 2 browser requests at a time, no time limit | one forward per helper; "saved" is true |
| `bridge_liveness` | `BridgeLiveness.cfg` | 1 login, 2 browser requests, lifetime 0, clock to 1 | nobody hangs; a stored credential is collected |
| `catalog` | `MCModelCatalog.cfg` | 2 callers, periods 2 and 1, clock to 4, 4 IDs of at most 2 segments, one of them unusable | pacing, currency, no loss, names |
| `catalog_long_ids` | `CatalogLongIds.cfg` | an ID with 3 segments | counterexample: a name that resolves to another model |
| `chat_stream` | `MCChatStream.cfg` | one stream, up to 4 deltas and calls, any finish events, 3 usage objects | completeness, agreement with the plain completion, counts, refinement of `StreamContract` |
| `responses_stream` | `MCResponsesStream.cfg` | one stream, up to 5 deltas and calls | numbers, brackets, items |
| `conversation` | `MCConversation.cfg` | 3 requests, 2 calls, 2 call IDs, 1 item of more tools, 10 tool lists | history, tools and inputs survive every conversion |
| `dropped_parts` | `DroppedParts.cfg` | tool results with an image | counterexample: the image disappears |
| `quota` | `MCQuotaReads.cfg` | 2 files (so 2 positions), 2 reads, 1 renewed key, TTL 1, clock to 1 | accounts apart, fresh cache, bounded retries |
| `quota_stored` | `QuotaStored.cfg` | 1 read | counterexample: a read with its own key gets another account |
| `quota_page` | `QuotaPage.cfg` | 2 keys, 2 passes at a time, 0 or 3 accounts in batches of 2, 3 acts of user and administrator | keys, rest, every card asked |

### Why the bounds are enough

* *Login*: what can go wrong needs two holders of one session, or a session of another login
  swept or stored meanwhile: two callbacks, one poll, two logins. Polls take no time besides their
  one critical section, so two at once are two after another with old readings, which one poller
  also produces. With lifetime 1 and a clock to 2 a session can be fresh, just valid and expired.
* *Bridge*: two threads race for `bound` and `consumed`; two logins let one helper start for the
  wrong one. In `bridge` the clock stands still, since lifetimes are `login`'s subject; in
  `bridge_liveness` sessions expire.
* *Catalog*: a waiter needs a second caller; with periods 2 and 1 and a clock to 4 a success, a
  failure and another refresh fit. Four IDs have two providers with the same model, that
  model's bare name, and an unusable ID.
* *Streams*: streams share nothing, so one is enough. Four (five) deltas let text, reasoning and
  calls surround each other in every way, and two calls follow a text item.
  Of several usage objects the last one counts. The three in the run cover
  nested and flat spellings, a zero in front of a count, a missing total and missing output.
* *Conversations*: a call, its result and a second call with the same ID need three requests. The
  tool lists have every type of tool, one name in and out of a namespace, and every reason for
  which a list is refused; inputs are text, JSON and already wrapped ones.
* *Dashboard page*: a late answer needs two requests, and a key entered in between a third act.
  Three accounts make a full batch and a short one; no account makes the button call `init`.
* *Quota*: two reads race for the shared key and the cache. Two files are an account and another
  one to mix it up with. One renewal makes one key stale.

Sets of interchangeable callers, logins and keys are declared symmetric in the runs that check
safety only.

### What the counterexamples say

* `catalog_long_ids`: with `a/x`, `b/x` and `c/a/x`, the last is listed under its unique short
  name `a/x`, which resolves to the first. README.md promises collision protection. With IDs of at
  most two segments this cannot happen: theorem `NamesAreSafe`.
* `quota_stored`: `quota.fetch` with a key but neither index nor ID is not marked as requested.
  After a 401 it uses the first credential file and caches that account's document under the
  fingerprint of its own key. The comment of `quotaResolveAPIKey` says a requested lookup never
  does.
* `dropped_parts`: of a tool result (and of a system message) only the text parts are sent. An
  image in it disappears without an error, although CHAT_COMPATIBILITY.md says that unsupported
  parts fail. `conversation` therefore has results and system messages of text alone.

Three more places where the code and its documents disagree are part of the models, without a run
of their own:
* After a verified delivery the session is back in the table with its token. Until the host polls,
  the same delivery is accepted again (`CallbackAdmit` after `CallbackStore`), and if its
  verification fails the verified credential is gone; the comment at `impl.go:476` says "one
  attempt". `StoredIsCollected` names this case.
* The helper writes the browser's answer before it starts its shutdown. If the browser has gone,
  the write raises and the helper stays up, its login consumed (`ReplyLost`);
  `scripts/README.md:26` says that it exits after a server response.
* The helper shows "Secure bridge failed; start a new login" after 20 s (`ForwardFails`), while
  the plugin goes on to verify and the host completes this login.

The streamed usage chunk is made from an empty text, so output that the provider did not count is
estimated from the text in a plain answer and is 0 in a stream. `StreamMatchesCompletion` states
the agreement of the two with this exception.

### Fairness

* `LoginBridge`: a forward ends, with an answer or without (`ForwardFails`, 20 s socket timeout);
  the threads that answer and shut down are run; polls end; the host polls again and again until
  the expiry time that it was told (`ExpiresAt` in the answer to `auth.login.start`). No fairness
  of the plugin's verification, of the browser, of the user or of `Tick`.
* `ModelCatalog`: a fetch ends (client timeout of six seconds); a waiter for a Go mutex is not
  starved (starvation mode of `sync.Mutex`), hence strong fairness of `Lock`.
* `ChatStream`, `ResponsesStream`: the goroutine runs, host calls return, and an upstream answer
  ends: the client's timeout of ten minutes includes the body.
* `QuotaPage`: of the requests of each pass, and of those of single cards, one is answered in the
  end (the plugin's own requests have timeouts of 4 and 20 s). The user need not do anything.

## 4. Proofs

All theorems are for arbitrary constants that satisfy the modules' named assumptions:
`KeyAssumption` (no key is `NoKey`), `TimeAssumption` and the like (times and bounds are natural
numbers), `CatalogAssumption`, `UsagesAssumption` (an upstream's counts are natural numbers, and
its details stand in the containers the code looks into), `ConversationAssumption` (what JSON has
as lists are lists, and a client's messages have the four roles that have no call and no result).
Four theorems have a hypothesis of their own, each refuted without it by a run: `NamesAreSafe` and
`NamesSurvive` are for IDs of at most two segments (`catalog_long_ids`), `OwnAccounts` for reads
that do not come as a stored key without index or ID (`quota_stored`), `WholeHistoryArrives` for
results and system messages of text alone (`dropped_parts`). An inductive invariant was checked by TLC on the instance of
the component's run before it was proved.

`Login_proofs`, the session table
* `TypeCorrect` - `TypeOK` is inductive.
* `HeldOnceHolds` - `HeldOnce` says for every login that at most one of start call, table, callback
  and "handed over" has it. Together with `TypeOK` it is inductive. It is what "claimed at most
  once" lacks: the count alone is not inductive, because a session that is in a callback and has
  been handed over could be stored again.
* `ClaimedOnce` - follows: a claim needs the session in the table, where `HeldOnce` says it has not
  been claimed.
* `OnlyProvedCredentials` - needs the strengthening `StoresProved`: a callback past its
  verification has its pair of login and key in `proved`.
* `Refinement` - every step of the table is a step of `LoginPromise` or a stutter; `HeldOnce` is
  used in every case where the session moves between holders.
* `Lifetimes`, `TimelyClaims`, `OnlyProofOrAge` - the action properties. Every holder of a session
  (start call, table, callback) keeps the creation time in `issued`; so the age a poll or a sweep
  computes is that of the login, whoever had the session meanwhile.

`Login_proofs`, the helper in front of it
* `ForwardInv` - the one delivery that found the helper not consumed is on its way, or was
  forwarded. `forwards <= 1` alone does not say that no second thread is about to send.
* `AnswerInv` - a thread that was answered 2xx is about a login with a verified key, and one that
  waits has its own callback at work in the plugin. It uses `StoresProved` of the table.
* `ForwardsOnce` and `SavedIsStored` follow.
* `HelperIsACaller` - every step of the composition is a step of `LoginSessions` or leaves it alone;
  so (`PromiseBehindHelper`) all that is proved of the table holds behind the helper.

`ModelCatalog_proofs`
* The inductive invariant `CatalogInv`: types; the mutex (`Exclusive`: a call past it is the
  holder); `nextRefresh` is the start of the last fetch plus the period of its outcome; a call that
  copies read its clock within that period.
* `TypeCorrect`, `RefreshesSerialized`, `RefreshPacing`, `AnswerAge`, `LastGood` follow from it.
* `NamesAreSafe`, `NamesSurvive` - `ShortNameIsShort`, `ShortOfferIsUnique`, `OfferResolves`,
  `OfferSurvives` are the lemmas on names.

`UpstreamEvents_proofs`
* What an event and the end of an answer do to a result; that the first of a set of places exists
  (`FirstPlace`, from well-foundedness); what the lists of spellings find in any usage object:
  numbers (`FoundIsNat`), a count if there is one (`PositiveFound`, `ContainerFound`, `CachedFound`);
  and that the text of an answer changes only an output that was not counted
  (`OnlyOutputIsEstimated`).

`ChatStream_proofs`
* The inductive invariant `Inv` says for each stream what the host has been told when its goroutine
  is at a given place (`Told`): from the role on, the chunks of each kind are as many as the result
  counts and the calls among them are numbered in the order they stand in (`Tally`); the finish
  reason stands last before the usage is told, and so on. `CleanMeansComplete` says nothing of a
  stream that is still open and is not inductive: whether a finish chunk completes the stream
  depends on what came before.
* `CleanIsComplete`, `StreamedIsWhole` and `HitsReported` follow, the last two with the lemmas on
  usage objects.
* `ContractKept` - the refinement of `StreamContract`. The stage of a stream is a function of its
  chunks; `Told` fixes it at each place of the goroutine, so that each kind of chunk moves it one
  stage (`EmitVisible`) and a clean close finds it finished.

`ResponsesStream_proofs`
* The invariant speaks of the plan of a stream: the events received followed by those in `todo`.
  Each upstream event extends a plan that is bracketed and opens items in order (`Bracketed`,
  `Opened`), emitting moves an event from one part to the other, and a failure cuts the plan short.
  `received` alone has no such invariant, since its next event depends on `todo`.
* `Consecutive`, `Bracketing` and `CleanIsComplete` follow; the last also counts the items
  (`Counted`) and the terminal event (`Finished`).

`Conversation_proofs`
* A request converts the whole history anew, while a step of the conversation adds one or a few
  items to it. Only three functions of a list are reasoned about as a whole (`FlattenAt`,
  `ConvertedAt` and what they rest on, by the least place where a claim would fail): flattened or
  converted, a list agrees with the same list in front of one element more. From there on the
  lemmas say what one element more makes of each operator: of the tools in force, of the messages
  an item is, of what is sent and heard.
* `Adds` says that a longer history can be read and is heard as the shorter one with the given
  facts after it. Such steps can be put one after another (`AddsBoth`), so that an answer is added
  from a text, its calls and their results. For a result to be found the name of its call, the
  calls before it must be known by their IDs (`Knows`), the last of those that share one.
* `CallReturned` is the round trip of a call: what a Responses client gets of it, sent back as an
  item, is the call that the model made. It needs that two declared tools have two aliases, which
  `flattenResponseTools` checked when the request was accepted.
* The inductive invariant `IInv`: a conversation that was not refused can be read, and is heard as
  it was said in its text (`Going`); where results and instructions are text, that is everything
  (`Worded`); a request under way is that of the present history and its tools fit; the calls of
  the last answer were delivered as declared. The invariants of the run are not inductive: they
  speak of requests, and what the next one brings depends on the items the client has kept.
* `WholeHistoryArrives`, `CallsComeAsDeclared`, `OwnAnswersAreAccepted` and `EveryToolHasItsName`
  follow from `ConversationInvariant`. `AllTextArrives` is the first of them without a hypothesis:
  whatever is said, nothing is lost but the parts of results and instructions that are not text.

`QuotaReads_proofs`
* `SendingInv` - the types, and of each read the keys sent for its path: a second one only after a
  401, and another one (`RetriedOnceHolds`).
* `DatedInv` - a read begins before its data is fetched, a cached document was stored with a time
  not after that of its data, and has data (`FreshAnswers`, `FailuresHarmless`).
* `OwnInv` - the keys a read holds or has sent, its data and the file its position stands for
  belong to an account it has named; only a read that named none searches for one, and it means
  every file (`OwnAccounts`). `OwnAccountOnly` alone is not inductive: it says nothing of the key
  that the next part of the document will be fetched with.

`QuotaPage_proofs`
* `RejectedStaysForgotten` is inductive once "no key" is known never to be rejected.
* `StoredIsVerified` needs `Current`: the key of a pending list request is the page's key, unless
  the user has entered another one meanwhile.

Only model-checked: liveness (`AcceptedStreamsEnd`, `StreamsEnd`, `DeliveryIsAnswered`,
`StoredIsCollected`, `CallsReturn`, `ComesToRest`, `EveryCardIsAsked`), which with fairness is
outside the prover's reach. Every other property of a passing run is the subject of a theorem. The
type invariants of the streams (`TypeOK` in their modules) are stated for proofs and belong to no
run.

## 5. Not modelled

* Syntax: request parsing and validation that refuses before any state changes, HTML, JSON,
  masking, numbers and rendering of quota documents, the text of messages and deltas.
* Credentials and configuration: field names, file names and line patterns, converted without
  state. A model would restate the patterns, which tests settle better.
  Four things seen while reading: a key with `[-_]` is compared as a literal prefix, so
  `public-base-url` in the file is not found (`impl.go:61`); a file with `commandCodeApiKey` is
  recognised, but the stored record has no key (`impl.go:229`); a refresh answers with the file
  name `commandcode.json` whatever file the record has (`impl.go:409`); `quota.fetch` looks for
  `resetAt` where the document has `reset_at` (`quota.go:684`).
* Of requests: generation parameters, token limits, tool descriptions and schemas, `tool_choice`
  other than "none", and the fixed fields of the upstream's body. `instructions` is a system
  message and a string as `input` a message with one text.
* Of the dashboard page: the drawing of windows and credits, and decoding the console's key.
* The C interface and its buffers, the vendored host SDK.
* The host and the upstream, apart from what the code sees of them.

## 6. Plan

Done: the login with its promise, the bridge, the catalog with names, both streams with their
usage, the conversations in both formats, the quota reads, the dashboard page; proofs of every
safety property that a passing run checks, and of both refinements.

Next:
1. The promise of the helper as an abstract specification of its own.
2. `/start` with two browsers: `server.bound` is tested and set outside the lock. The model has the
   interleaving, but a property needs to say which login such a helper may forward.
3. The three parts of a quota document, each with a key resolved anew: an abstract specification
   that says which renewals of a credential may meet in one document.
