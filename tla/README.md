# A TLA+ development of ut-control

ut-control is a C library for unit-test programs: a *control plane* that
receives YAML or JSON messages over HTTP or WebSocket while a test runs and
calls back the test's functions, a *key-value pair* (KVP) store that those
messages and the test's profiles are parsed into, and a small logger.  This
directory models it in TLA+, checks the models with TLC on small instances, and
proves some of the results with TLAPS for every instance.  Paths below are
relative to the directory above this one: `src/src/ut_control_plane.c` is the
library's control plane.

- [The system](#the-system): components, state, operations, hazards
- [The modules](#the-modules) and how they correspond to the code
- [The runs](#the-runs): what each shows, bounds, fairness
- [Where the code and its words disagree](#where-the-code-and-its-words-disagree)
- [The proofs](#the-proofs)
- [What is not modelled](#what-is-not-modelled), and [the plan](#the-plan)

## The system

### Components

| component | source | state it keeps | operations |
|---|---|---|---|
| message queue | `ut_control_plane.c:97-141` | `message_queue[32]`, `message_count`, `queue_mutex`, `queue_condition` | `enqueue_message`, `dequeue_message` |
| control plane instance | `ut_control_plane.c:399-540` | `magic`, lws context, thread handles, `exit_request`, `callbackEntryList`, `callback_entry_index` | `UT_ControlPlane_Init`, `_Start`, `_Stop`, `_Exit`, `_RegisterCallbackOnMessage` |
| state machine thread | `ut_control_plane.c:143-254` | the message in hand, the parsed document, the loop counter | `service_state_machine`, `call_callback_on_match` |
| websocket thread and ingest | `ut_control_plane.c:175-370` | the POST buffer of a session, the payload it allocates | `service_ws_requests`, `callback_http`, `callback_echo` |
| KVP instance | `ut_kvp.c:65-265` | `magic`, `fy_handle` | `ut_kvp_createInstance`, `_open`, `_openMemory`, `_close`, `_destroyInstance`, `_getData` |
| include processing | `ut_kvp.c:882-1246` | none (recursion over documents) | `process_node_copy`, `process_include`, `merge_nodes` |
| KVP queries | `ut_kvp.c:291-880` | none | `ut_kvp_get*Field`, `_getListCount`, `_getDataBytes`, `_fieldPresent` |
| maps | `ut_control_plane.c:542-574` | none | `UT_Control_GetMapValue`, `_GetMapString` |
| logger | `ut_log.c` | `gLogInit`, `gLogFileName` | `UT_log*` |

### How they interact

Three kinds of thread share a control plane instance.  The *client* calls the
API.  Each `UT_ControlPlane_Start` creates a *state machine* thread, which
creates a *websocket* thread in turn.  libwebsockets calls `callback_http` (or
`callback_echo`) in the websocket thread; the callback allocates a payload and
passes it to the state machine through the message queue.  The state machine
opens the payload as a KVP document, calls every registered callback whose key
is in it, and frees the payload.  `UT_ControlPlane_Stop` sends `EXIT_REQUESTED`
through the same queue and joins the state machine, which sets `exit_request`
and joins the websocket thread; `UT_ControlPlane_Exit` stops, destroys the
context and frees the instance.  KVP instances belong to one thread at a time:
the test's, or the state machine's for the length of one message.

### What is hard about it, and what makes it correct

- The queue is the only lock-protected structure; its critical sections must
  exclude each other, lose no wake-up, and keep order across the shift loop.
- It is *lossy*: a full queue drops what it is given, payload or exit request.
- The threads use an instance that the client frees; only a chain of two joins
  keeps that safe.  No thread may run when Stop has returned.
- A payload has one owner at a time, through four functions and two threads,
  one of which may fail to parse it.
- The callback list is written without a lock while it is read.
- A KVP instance survives failing calls, most of which destroy what it held.  A
  failing call must not leave it half filled.
- Includes nest, cycle, clash on keys and fail; the depth limit must hold, and
  every error path has its own list of things to release.
- The bodies of several requests arrive in interleaved chunks, on connections
  that are lost, or kept and used again.
- The queries convert texts to numbers and bytes at the edges of their types,
  into buffers of fixed and of growing size.
- The name of the log file is shared by all threads without a lock.

The `hazards` of `PROJECT.json` list these one by one at the lines where they
bite, with the properties that cover each and, for those nothing covers yet, why.

## The modules

| module | what it is | models |
|---|---|---|
| `QueueOps` | the queue as a value: `Enqueue` on a sequence | 97-109 as one step |
| `LossyQueue` | abstract specification: an atomic bounded lossy FIFO | what the callers of the queue rely on |
| `MessageQueue` | the two functions, statement by statement | `ut_control_plane.c:97-141` |
| `MCMessageQueue` | instance for TLC | |
| `MessageQueueProofs` | proofs about `MessageQueue` | |
| `ControlPlaneService` | abstract specification: one server with a bounded line | what a test relies on between Init and Exit |
| `ControlPlane` | one instance and its threads, over an atomic queue | `ut_control_plane.c:143-540` |
| `MCControlPlane` | instance for TLC | |
| `ControlPlaneProofs` | proofs about `ControlPlane` | |
| `KvpNode` | nodes of a document, `merge_nodes`, the libfyaml calls it uses | `ut_kvp.c:1054-1100` |
| `KvpCopy` | `process_node_copy` and `process_include`, as functions by recursion | `ut_kvp.c:913-1222` |
| `KvpInclude` | opening documents of a file system; what the copy must be | uses `KvpCopy` |
| `MCKvpInclude` | file systems for TLC | |
| `KvpIncludeProofs` | proofs about `KvpInclude` | |
| `KvpInstance` | the life of a KVP instance, call by call | `ut_kvp.c:65-265` |
| `MCKvpInstance` | sources for TLC, copied by `KvpCopy` | |
| `KvpQuery` | the queries, as operators on a document | `ut_kvp.c:291-464`, `:512-879` |
| `LoopFacts` | induction and loops over the naturals, sequences, the loops of `KvpNode` | what the proofs about loops use |
| `ControlMaps` | the two conversion maps | `ut_control_plane.c:542-574` |
| `KvpProfile` | an instance with its queries and maps; what the answers must be | extends `KvpInstance`, `KvpQuery`, `ControlMaps` |
| `KvpProfileProofs` | proofs about `KvpInstance` and `KvpProfile` | |
| `IncludeFetch` | what nested calls of `process_include` acquire and release | `ut_kvp.c:881-911`, `:1102-1222` |
| `IncludeFetchProofs` | proofs about `IncludeFetch` | |
| `HttpIngest` | sessions, chunks and completion of request bodies | `ut_control_plane.c:83-92`, `:256-397` |
| `MCHttpIngest` | instance for TLC | |
| `HttpIngestProofs` | proofs about `HttpIngest` | |
| `UtLog` | threads that log and name the log file | `ut_log.c` |
| `MCUtLog` | instance for TLC | |
| `UtLogProofs` | proofs about `UtLog` | |

`MessageQueue` is shown to implement `LossyQueue`, whose `Put` is the `Enqueue`
of `QueueOps`; `ControlPlane` uses that same operator, and takes the head of
the sequence, in one step.  That is what justifies the atomic queue there.
`ControlPlane` in turn is shown to implement `ControlPlaneService`, which has
no threads, flags or joins. `MCKvpInstance` composes the life of an instance
with the include processing: the sources it opens carry the copies
`ProcessNodeCopy` makes of them; and, by `KvpProfile`, with the queries and
maps, which are asked after every call that succeeds and of an instance without
a document (a call that fails leaves one of the two, `NoHalfOpenedProfile`). 
`HttpIngest` ends where `ControlPlane` begins: its `Hand` is the call of
`enqueue_message`, its `handed` the payloads `WsReceive` takes from nowhere.
`IncludeFetch` and `KvpCopy` are two views of the same recursion, one of the
resources and one of the documents.

**MessageQueue.**  `pc` names the statement a thread is at.  `pthread_cond_wait`
is three steps: `GetTest` releases the mutex and joins `waiters` at once,
`PutSignal` or `SpuriousWakeup` takes a thread out, `GetRelock` waits for the
mutex and goes back to the test.  The slots are an array indexed from 0, and
`GetShift` moves one slot per step.  `malloc` may fail in `GetNoMemory`
(in a build with `NDEBUG`; with assertions the program ends there).  `data`
stands for the argument of a producer and for the copy a consumer returns.

**ControlPlane.**  `sm` and `ws` give the position of the two threads of each
*generation*, the g-th Start.  A payload is the number of its allocation, so
that order of arrival is order of numbers; `heap` holds those not freed.  A
message holds a set of fields chosen when it is parsed, or fails to parse.
`RegisterCallbackOnMessage` returns an error, or puts its four stores (key,
callback, user data, index) in `stores`, from which they become visible to the
state machine in any order: the code has neither lock nor barrier, and the
Makefile has an arm target.  The history `torn` holds the entries of which,
while the message in hand is dispatched, one store has overtaken another in
front of it.  Two simplifications: the key lands as a whole (until then a
message matches it or not), and the stores of one registration have landed
before the client calls again.  `Init` may fail (port 0, no context); that it
clears what `malloc` returns before it looks at it (`:411`) ends the program,
and is left out.  The client starts an instance only when it is stopped, calls
the API from one thread that is not a callback, and forgets the instance after
Exit.  In the HTTP build the payload of a request is what
`LWS_CALLBACK_HTTP_BODY_COMPLETION` allocates; in the WebSocket build
`LWS_CALLBACK_RECEIVE` does the same.  `called`, `dropped` and `arrived` are
history.

**KvpNode, KvpCopy, KvpInclude.**  A node is a scalar, a scalar with the
`!include` tag, a sequence or a mapping, the last an ordered list of pairs.
`MappingAppend` refuses a key that is there and `NodeInsert` replaces its value,
whole, which is how libfyaml's `fy_node_mapping_append` and `fy_node_insert`
behave; the loops over pairs and entries are recursive functions, which can be
reasoned about.  A file, local or remote, holds a root or cannot be used
(`NoNode`): every failure of `process_include` returns `NULL`.  The `!include`
tag of the model is every tag the code takes for one: `strncmp` over the length
of the tag accepts the beginnings of `!include` too (`:930`).  Keys are atomic;
those in `IncludeKey` contain the text "include", which is the test the code makes.

The recursion of `process_node_copy` is two functions.  `CopyNode` descends into
a node, given what the includes of its depth give (`Included`) and a copy of that
(`Recopied`: a tag, or an include in a sequence, copies what `process_include`
has copied); its domain are the nodes nested at most `Height` deep.  `CopyAt`
gives the `CopyNode` of each depth from that of the next.  `MaxNesting` bounds
how deep a document nests before anything is included, and is a parameter, as is
the limit of depth; `Height` is what the nesting of a copy cannot exceed, since
each level of includes adds a document twice (that it cannot is part of what is
proved).  The assumptions on the constants say that documents have such nodes
and different keys in each mapping (`DocumentAssumption`), and that a document
uses the name of a file as a key only to mark where it is from
(`MarkAssumption`), by which `WithinLimit` recognises it.

**KvpInstance.**  A source is what a call finds: whether it parses, whether its
anchors resolve, its root, and the copy of the root.  `fy_handle` is a document
or none; every failure path of the two opening functions is an action or a
disjunct of one, `fy_document_create` and `strdup` failing included, and each
says whether it destroys the source document it leaves with: what is `Left`
goes to `leaked`.  `leaked` and `profiles` are history.  A document that does
not parse reaches `ut_kvp_openMemory`'s copy because
`fy_document_resolve(NULL)` returns 0.

**KvpQuery, ControlMaps, KvpProfile.**  A query changes nothing, so it is an
operator on a document (`KvpInstance!fy_handle`).  Texts are sequences of
characters, because the conversions read them character by character; a key is a
sequence of names and separators.  `Strtoul`, `Words` (`strtok`, `%s` of
`scanf`) and `NodeByPath` stand for the C library and libfyaml.  The word has 64
values in the run and a byte 8, so that every edge is near.  The result of
`ut_kvp_getField` has room for `MaxElementSize` bytes, and the `%s` it is scanned
with knows no bound (`:325`): a longer word overruns the caller's variables, and
the program, if it goes on, reads some text (`Overrun`).  `NumbersAreExact` is
about the words that fit (`Fits`).  A buffer is the
sequence of what its bytes hold, `"garbage"` before the call.  `KvpProfile`
defines what a word means by writing numerals out (`Numeral`), which is
independent of how `Strtoul` reads them.  The loops are recursive functions:
`Words` and `NodeByPath` go through a text and a path, `Magnitude` through
digits, and `ut_kvp_getDataBytes` through tokens, a `PutByte` a round.  `Content`
is what libfyaml may give: the nodes of the copies, a tagged scalar past the
depth limit among them.  `NotationsAgree`, `QueriesAgree` and the numbers are
about the keys that fit (`FittingKeys`): a key that is cut asks for another
node, and the index behind a key may be what is cut.

**IncludeFetch.**  `stack` is the call stack of `process_include`, each frame
with its depth, its place, what it has to release (`owns`), what it has of a
download.  Every call of the environment fails or not.  Calls nest through
`process_node_copy`, in which an `!include` tag adds a level that is no call of
`process_include`: the depth of a nested call is any above the caller's.
`leaked` and `faults` (memory freed twice) are history.

**HttpIngest.**  One thread makes all the callbacks, so each is one action.  A
byte is known by its request and its place.  `Begin`, `Disconnect` and the
choice of the size of a chunk are the environment's.  The body is what has
arrived when the completion is called: libwebsockets calls it when the length
announced has been read.  A connection may carry another request after any
completion, with the session data as it was left.  `server` is the build.
`handed`, `refused` and `starved` (sessions in which `malloc` failed) are
history.

**UtLog.**  `pc` is the place of a thread.  `gLogFileName` is a buffer of bytes
that all threads share.  A thread that names the file may empty the buffer first
(`SnprintfEmpties`), then its bytes, the `NUL` behind them and the flag
`gLogInit` land one by one, in any order; `fopen` reads byte by byte up to a
`NUL`, and other threads do the same in between.  So a line may be lost because
the name is empty at that moment, or go to a name of which bytes are missing or
belong to another.  `localtime` returns one struct for all threads: while another
thread is between `localtime` and `strftime`, each digit of a name may be of any
second that has passed.  Three things are simplified: the stores of a call have
all landed when it returns; the digits stand for the whole text `strftime`
prints; `ut-log_` and `.log`, which every name has alike, are left out (a name
longer than `UT_LOG_MAX_PATH` is cut).  What a line begins with and holds is
chosen when it is written, since no other part of the state depends on it.

## The runs

With two workers `ut_log` takes two minutes, `kvp_include` a minute and a half,
`control_plane` one, every other run about half a minute or less.

| run | module | checks | bounds |
|---|---|---|---|
| `message_queue` | `MCMessageQueue` | `TypeOK`, `MutualExclusion`, `NoLostWakeup`, `ImplementsLossyQueue`, `EnqueueReturns`, `QueuedIsTaken` | 3 slots, 2 producers, 1 consumer, 2 messages |
| `control_plane` | `MCControlPlane` | `TypeOK`, `ThreadsUseLiveInstance`, `StoppedMeansQuiet`, `PayloadOwnership`, `OnlyDropsLeak`, `ListensUntilStopped`, `ImplementsService`, `EveryMatchIsCalled`, `StopReturnsIfQueued`, `QueuedIsHandled` | 2 slots, 2 entries, 2 keys, 2 payloads, 2 starts |
| `http_ingest` | `MCHttpIngest` | `TypeOK`, `BodyWholeOrRefused`, `BytesInOrderOnce` | 2 sessions, 3 requests, bodies up to 3 bytes, buffer of 3 |
| `kvp_instance` | `MCKvpInstance` | `TypeOK`, `HandleHasRoot`, `LatestProfileWins`, `OnlyUnresolvedLeak`, `NoHalfOpenedProfile`, `NumbersAreExact`, `BytesAllOrNothing`, `NotationsAgree`, `QueriesAgree`, `MapsInvert` | 10 sources, 3 profiles open at once, 39 keys, 25 texts, word of 6 bits, byte of 3, first buffer 2, keys up to 8, results of 8 |
| `kvp_include` | `MCKvpInclude` | `TypeOK`, `IncludesPrevail`, `FullyExpanded`, `KeysKeepWithinLimit` | 4 files, 28 documents for each of two, 7 for the third, depth limit 3 |
| `include_fetch` | `IncludeFetch` | `OnlyUnparsedTmpLeaks`, `FetchedWhole`, `EveryIncludeReturns` | depth limit 3, 2 includes in a document, downloads up to 3 bytes |
| `ut_log` | `MCUtLog` | `SettledNamePrevails`, `LazyNameIsDefault`, `ColoursStayOutOfFile` | 2 threads, 3 calls, 2 seconds of 2 digits, names of 5, lines of 10 |
| five violation runs | | one property each | see the next section |

Why the bounds are enough.  Three slots are the fewest with a shift of more than
one step and a queue that is neither empty nor full in between; 32 behave alike,
as the proofs confirm, which also cover any number of consumers.  In
`control_plane` two payloads and an exit request overfill two slots; two starts
are the fewest in which one generation can meet what another has left; two
entries are the fewest with an order.  `kvp_include` has cycles of one, two and
three files, and with limit 3 a chain of its four files is longer than the
limit; `kvp_depth_tag` has the limit of the code, 5, and seven files.  Three
profiles are the fewest with one before and one after another.

In `http_ingest` two sessions interleave their chunks and three requests let
one session carry a second while the other is in between; a body of three bytes
is the first that a buffer of three refuses, and it may come in one, two or
three chunks.  The texts of `MCKvpInstance` have every notation with a value
below, at and above each range, and lists of the size of the first buffer, of
one more and of a second doubling; its keys have one of the greatest length and
one beyond, and its words one that fills the result and one a character
longer.  In `ut_log` two threads find the name missing, or one sets a path
while the other does; one of its directories fits the buffer and one is cut. 
In `include_fetch` calls nest to the limit, with an include left to do at each
level.

What the less obvious properties say:

- `NoLostWakeup` relates the count, the sleepers and the positions of all
  threads: while messages are queued somebody awake will look at them.
- `ImplementsLossyQueue` is refinement: `fifo` is the sequence of slots below
  `message_count`, with the adjustments for a thread between the statements of a
  critical section.
- `ImplementsService` is refinement too.  The abstract plane receives a message,
  puts it in line or loses it when the line is full, takes the oldest and
  finishes it, which frees its payload; it stops being served when a request to
  stop is finished, and Stop returns when nothing is received or handled any
  more.  Both threads of every start map to that one server: whatever a second
  start does, it takes and receives nothing.  That messages are handled in the
  order of their arrival (`DeliveryOrder`), once each, is part of it.
- `OnlyDropsLeak` gives every allocated payload an owner unless a full queue
  dropped it.  With the finding below it says that this is the only leak of a
  live instance.
- `EveryMatchIsCalled` compares, when a dispatch ends, the entries called with
  those whose key is in the message *at that moment*, and what each was called
  with (key, callback and user data) with what was registered: registration may
  run alongside.  Only the entries in `torn` are excepted.
- `IncludesPrevail` compares the copy, built by appends and merges, with a
  definition that reads the documents key by key.
- `LatestProfileWins` does the same for the profiles opened one after another.
- `FullyExpanded` also says that a copy is copied unchanged: what
  `ut_kvp_getData` returns for a document can be given to `ut_kvp_openMemory`.
- `ListensUntilStopped`: from the return of the first Start to its Stop, no message,
  parsed or not, ends the websocket thread, or the state machine.
- `BodyWholeOrRefused` names the exception to "a payload is a body": after
  `malloc` has failed, and on that connection only.
- `NumbersAreExact` and `BytesAllOrNothing` compare the conversions, steps and
  buffers of the code with the meaning of the text; `QueriesAgree` compares the
  queries with each other, and the string with its buffer.
- `SettledNamePrevails` relates a line to the moment it was begun: a name that
  was then settled (the last call that stored it had stored it alone) is where
  the line goes.  It says nothing while two threads store names: see below.
- `LazyNameIsDefault` is what is left then, when only default names are stored:
  every byte of the name a line is opened by is that of some default name, at
  its place, and the name has its whole length unless the flag has overtaken
  bytes it stands for (`overtaken`).  The digits need not be of one second, and
  a line that finds the buffer emptied is lost.
- `OnlyUnparsedTmpLeaks` covers memory that `write_memory_callback` frees when
  `realloc` fails and `process_include` frees again: the pointer is `NULL` by then.

Deadlock is checked except in the control-plane runs, where the client may stop
calling and every thread may have ended, and in `ut_log`, where the calls are
used up.

**Fairness.**  `MessageQueue!FairSpec`: each thread that can take its next
statement does (weak), a thread that is repeatedly offered the mutex gets it
(strong, on the lock actions: glibc's mutex is not fair by contract, but no
thread here holds it without bound), and `malloc` does not fail for ever (strong
on `GetCopy`).  `ControlPlane!FairSpec`: threads run, pending stores land, a
callback and `lws_service` return, `malloc` does not fail for ever.  Nobody has
to call the API, and no message has to arrive.  `IncludeFetch!FairSpec`: the
calls that `process_include` makes return.  For the transfer that is an
assumption about the server, since the code sets no timeout: a server that stays
silent keeps `ut_kvp_open`, or the state machine that opens a payload, waiting
for ever.  Nobody has to open a document.

## Where the code and its words disagree

Each of these is a run that TLC must find violated; `PROJECT.json` quotes the
lines.

| run | property | what happens |
|---|---|---|
| `exit_leak` | `FreedMeansNoLeak` | payloads queued behind `EXIT_REQUESTED` are not freed by Exit (`:460`) |
| `stop_hangs` | `StopReturns` | a full queue drops `EXIT_REQUESTED`; Stop never returns (`:492`) |
| `restart_deaf` | `ListensOnceStarted` | `exit_request` is never cleared; a second Start does not listen (`:218`) |
| `memory_profiles_lost` | `AllProfilesPresent` | `ut_kvp_openMemory` replaces the profiles opened before (`ut_kvp.c:245`) |
| `kvp_depth_tag` | `WithinLimit` | includes through a tag or a sequence entry get past the depth limit (`:938`, `:976`) |

Other facts the models show and a reader should know of.

- A full queue drops a message and with it the only pointer to its payload
  (`ut_control_plane.c:100`; the comment at `:360` says that the state machine
  frees it).  `OnlyDropsLeak` says that this is the only leak of a live instance.
- While a registration is under way, the dispatch may call an entry that is not
  complete, if its stores overtake one another: `UT_ControlPlane_RegisterCallbackOnMessage`
  has no lock and no barrier (`:537`), the Makefile has an arm target, and the
  tests register after the start.  `EveryMatchIsCalled` excepts exactly these
  entries (`torn`).
- When `malloc` fails at the completion of a body (`:350`) the bytes stay in the
  session data, in front of the next request on that connection.
- In the WebSocket build a message that libwebsockets delivers in pieces becomes
  as many payloads (`:270`).
- Of the seven failing paths that leave with a source document, six destroy it.
  `OnlyUnresolvedLeak` names the other: `ut_kvp_openMemory` returns
  without destroying the document it has built when its anchors do not resolve
  (`ut_kvp.c:211`).
- Merging into a root that is not a mapping changes nothing while `ut_kvp_open`
  reports success (`ut_kvp.c:1082` assigns a parameter), which is the last case
  of `LatestProfileWins`.
- The temporary file of a fetched document that does not parse is not closed
  (`ut_kvp.c:1179`), the one exception `OnlyUnparsedTmpLeaks` names.
- `strtoul` takes a minus and wraps: -1 comes back as the largest number of 64
  bits, a number close to -2^64 as a small one of any width.
  `ut_kvp_getDataBytes` accepts the mark `0X`, the integer queries only `0x`.
- A field whose first word has `UT_KVP_MAX_ELEMENT_SIZE` characters or more
  overruns the result of `ut_kvp_getBoolField` and of the integer queries
  (`ut_kvp.c:325`).  The loss of the stack is not modelled; that the result may
  be any text is, and `NumbersAreExact` leaves these fields out.
- `ut_kvp_getStringField` leaves no terminator when the text is as long as the
  buffer or longer (`ut_kvp.c:624`).
- A key of `UT_KVP_MAX_ELEMENT_SIZE` characters or more is cut when it has no
  dot, and written past the end of its buffer when it has one (`ut_kvp.c:857`,
  `:873`); `NotationsAgree` is about shorter ones.
- A thread that found `gLogInit` false and was slow replaces a path that
  `UT_log_setLogFilePath` has set in the meantime by the default one
  (`ut_log.c:79`).  `SettledNamePrevails` therefore speaks of names that were
  stored by one thread alone.
- Two first lines at once both name the file, and the second empties and writes
  again a name that the first may be opening: a line may be lost, or go to a
  file whose name mixes two seconds.

## The proofs

Every theorem holds for all values of the constants that satisfy the named
assumptions of the modules: at least one slot, one consumer, one entry, one
start; disjoint producers and consumers; model values distinct from the values
they stand beside; documents as libfyaml gives them (`ContentAssumption`); maps
without duplicates; documents of bounded nesting.  Every invariant and every
safety property of the passing runs is the conclusion of one of them.

**MessageQueueProofs** proves type correctness, mutual exclusion, `NoLostWakeup`
and the refinement of `LossyQueue`.  The inductive invariant adds to the types:
which code a role runs (`Roles`), that the mutex is held exactly by the thread
inside (`Holder`), that what was tested under the mutex still holds where it is
used (`Tested`), where a thread carries a message (`Carries`), which slots are
filled and how far the shift has come (`Filled`), and who still owes a signal
(`SignalDue`).  None of these follows from the others: mutual exclusion is
needed for `Tested`, and `Tested` for the types, since `message_count--` is not
guarded at its line.

**ControlPlaneProofs** proves type correctness, `ThreadsUseLiveInstance`,
`StoppedMeansQuiet`, `PayloadOwnership`, `OnlyDropsLeak`, `DeliveryOrder`,
`ListensUntilStopped` and `EveryMatchIsCalled`; and the refinement of
`ControlPlaneService`.  The invariant has four parts: `Lifecycle` (only the
generation of the handle runs, and the state machine ends after its websocket
thread), `InHand`, `Custody` (payloads increase from the hand through the queue
to the socket, and every allocated one is accounted for) and `Registration`
(what has landed of a registration is in its slot, and the entries below the
index are complete, but for the one whose index overtook the rest, which is in
`torn`).  Three more are proved on top of it. `FirstRun`: before the first Stop
no exit request is set, queued or in hand, so that nothing tells the websocket
thread to end; with the second Start this is lost, see `restart_deaf`. 
`Dispatching`: in the middle of a dispatch what has been called is what matches
among the entries the loop has passed, which an entry registered meanwhile does
not change, since it comes behind the index. `OneServer`: the threads of a
later start find `exit_request` set and end, and it is set exactly when the
first state machine is done with a request to stop.

With these `ImplementsService` is proved step by step (`ClientService`,
`SmService`, `WsService`).  A message being released counts as handled once
`exit_request` is set, since from then on nothing is taken; that Stop returns
only when nothing is under way needs the chain of joins (`Lifecycle`), and that a
plane started again receives nothing needs `FirstRun`.

**HttpIngestProofs** proves type correctness, `BodyWholeOrRefused` and
`BytesInOrderOnce`.  That a payload is one whole body needs to be said of every
session while it collects (`Collected`: it ends with exactly the bytes received,
behind what a failed `malloc` has left), and that no other session has bytes of
its request (`Carried`, `Own`).  `Past`, `HandedWhole` and `RefusedForGood` say
of the payloads and refusals so far that no session will come back to them.

**IncludeFetchProofs** proves `OnlyUnparsedTmpLeaks` and `FetchedWhole`, and that
calls nest no deeper than `UT_KVP_MAX_INCLUDE_DEPTH` (`NestingIsBounded`).  The
invariant says of every call on the stack what it owns at its place, exactly
(`UrlOwns`, `FileOwns`); what its memory holds (`Holds`); and that its caller is
copying, and less deep (`Nested`).  Each error path then releases all there is,
and the one that does not is the exception of the property.

**KvpProfileProofs** proves of the life of an instance type correctness,
`HandleHasRoot`, `OnlyUnresolvedLeak`, `NoHalfOpenedProfile` and
`LatestProfileWins`, and of its queries and the maps `MapsInvert`,
`NotationsAgree`, `NumbersAreExact`, `BytesAllOrNothing` and `QueriesAgree`.

- *Life*: `LatestProfileWins` rests on `NodeInsertFacts` (`LoopFacts`): after n
  rounds of the loop of `merge_nodes`, a key has the value of the last of the n
  pairs with the key, or what it had, and no key is there twice.  `Layered`
  states `LatestProfileWins` for every key there is, of a root and a list of
  profiles, which is what a merge with one profile more preserves.
- *Maps*: an `int` survives `uint32_t` and back (`SignedUnsigned`).
- *Numbers*: the numerals exist and are unique (`NumeralFacts`); the value
  `strtoul` accumulates over the digits is the number they spell
  (`SpelledIsMagnitude`, by induction over the digits, leading zeros included);
  `strtoul` uses a word to the end exactly when digits are all there is
  (`StrtoulWhole`).  `ReadAlike` puts them together: where the mark is decided
  may differ between the code (`strstr` for the fields, the first two characters
  for bytes) and the meaning of the text, but then an `x` is left among the
  digits, and both reject the word.
- *Bytes*: `Filled` is the invariant of the loop: as many bytes as tokens, each
  the value of its token, in a buffer that is large enough; or a token that is no
  byte, or no memory.
- *Documents*: from `Layered` every value in the root of the instance is a node
  of some source (`DocumentIs`), so that a path leads to such a node
  (`PathLeads`), and one step more to its entry (`PathAppended`).

**UtLogProofs** proves `SettledNamePrevails` and `LazyNameIsDefault` for any
number of threads, and `ColoursStayOutOfFile` for lines of any length.  The
invariant has six parts.  `Types` includes that the last byte of the buffer is
`NUL`, so that every name ends; `Locals` says what a thread has in hand at its
place.  `Alone` says what has landed of a name while one thread is the only one
to store any; `Settled` that nobody touches a settled name, because the flag is
set with it; `Expecting` that a line reads the settled name from its test to its
file.  `Lazy` says, as long as no path was set, that every byte in the buffer, in
hand and read is that of a default name at its place, and that without
overtaking the flag finds all of them but the first, which `snprintf` may empty.
For the colours `Keeps` is the invariant of the loop of `UT_stripColorCode`:
what is kept are the characters shown so far, each at its place.

**KvpIncludeProofs** proves type correctness (no `!include` survives in a copy),
`IncludesPrevail`, `FullyExpanded` and `KeysKeepWithinLimit`, for all documents,
cyclic includes and all limits.  The inductive invariant (`IInv`) says only that
the copy is what `process_node_copy` makes of the opened file; the work is a
theory of that copy, in four layers.

1. *Existence.*  A recursive function is a `CHOOSE`; of each (`Nested`, `Copied`,
   `Appended`, `CopyNode`, `Nodes`, `CopyAt`, `IncludedAfter`, `Provides`) it is
   shown first that there is such a function.
2. *Loops.*  `CopyPairsFacts`: after the loop over the pairs of a mapping, a key
   has the value of the last include that gives it one, or else that of the pair
   that was copied, and no key is there twice.  `CopyEntriesFacts`: a sequence
   holds its copied entries.
3. *Nodes.*  `Good(h, K, Z)` are the nodes nested at most h deep, without tags,
   with keys of Z alone and no scalar under a key of K.  `CopyGood`, by induction
   over the nesting: when the includes give good nodes, a copy is good.  That it
   stays within `Height`, where `CopyNode` is defined, is part of it.
4. *Includes.*  From the limit up, since a copy at a depth needs those of the
   next: with K = {} and all keys it gives the types (`AlwaysTagless`); with
   K = `IncludeKey`, along complete chains, that nothing is left to include
   (`AlwaysClean`), and a node with nothing to include copies to itself
   (`CleanCopies`); with the keys of the files within the limit for Z
   `KeysKeepWithinLimit` (`AlwaysKeyed`); and `AlwaysPrevails` that the values of
   the copies are the ones `Provides` reads off the documents.

The hypothesis of `KeysKeepWithinLimit`, that no document uses a tag or a
sequence, is needed: `kvp_depth_tag` is a counterexample without it.  The step
of the induction fails there: a document is copied a second time, from a lesser
depth, and an include that the first copy left as it was, for want of depth, is
expanded by the second.

**LoopFacts** is where the loops start from.  A predicate cannot be passed to a
theorem here, so induction is over sets (`SetInduction`, from the
well-foundedness of the naturals), and a loop is a sequence of functions on a set
of states (`RoundsExist`).  Each loop of the code is given once as a recursive
function, shown to exist, and followed round by round; that of `fy_node_insert`,
on which profiles and includes both rest, is followed here.

**Only model-checked.**

- Liveness under fairness, which needs `ENABLED`: `EnqueueReturns`,
  `QueuedIsTaken`, `StopReturnsIfQueued`, `QueuedIsHandled`,
  `EveryIncludeReturns`.
- The five violations.

## What is not modelled

- API misuse: a second Start without Stop, Stop or Exit from a callback or from
  the signal handler of the test program, concurrent API calls; failing
  `pthread_create`.  The API calls of `ControlPlane` come from one client thread,
  in the order the header asks for.
- `ut_kvp_getFloatField` and `ut_kvp_getDoubleField`: what they add to
  `ut_kvp_getField` is `strtof` and `strtod` of the C library.
- NULL arguments of the queries, which are answered like a missing document.
- The URI of a request, which decides nothing; the bytes of a WebSocket message
  beyond a NUL, where `strncpy` ends the copy.
- The wording of log lines and the time stamps in them; what two lines written
  at once to one file do to each other.
- What the program does after it has written past a buffer (`ut_kvp.c:325`,
  `:873`) or through a null pointer.
- libfyaml's own failures to allocate inside a copy; documents that are included
  are not resolved for anchors, and anchors are not represented.
- Third-party code, scripts, the test program.

## The plan

Order of the modules; all but the last are built.

1. `QueueOps`, `LossyQueue`, `MessageQueue`: the queue and its refinement, proved.
2. `ControlPlane`: threads, lifecycle, ownership, dispatch, proved.
3. `KvpNode`, `KvpCopy`, `KvpInclude`: include processing against a reference,
   proved.
4. `KvpInstance`: life of an instance, proved.
5. `HttpIngest`: sessions, chunks, completion, connection loss and reuse.
6. `IncludeFetch`: resources of `process_include` along its error paths.
7. `KvpQuery`, `ControlMaps`, `KvpProfile`: the queries against the meaning of a
   profile.
8. `UtLog`: the lazy initialisation of the log path by several threads.
9. `ControlPlaneService`: an abstract plane (messages are handled in order or
   lost, until the stop) that `ControlPlane` implements, proved.
10. `ControlPlaneMisuse`: second Start, calls from callbacks and handlers, failing
   `pthread_create`; which of the properties of `ControlPlane` survive.

Theorems worth proving next.  Of `ControlPlaneMisuse`, which parts of `Lifecycle`
and of `OneServer` survive a second Start.
