# Verification of charles-mcp

charles-mcp is a stdio MCP server that lets an AI client observe HTTP traffic through the Charles
proxy. This directory holds TLA+ modules that model it, TLC configurations that model-check them
on small instances, and TLAPS proofs of theorems about them for every instance.

    tlc -workers 2 -config LiveQueue.cfg MCLiveManager      # one run
    tlapm LiveOwnershipProofs.tla                           # one module of proofs

## The system

| Component | Source | State | Operations that change it |
|---|---|---|---|
| Live sessions | `internal/core/live.go` | map of sessions (active, cursor, queue of changed entry IDs, keys of the last export, generation, entries), `ownedRecording`, one mutex | Start, Read (read and peek), Capture, Stop, Expire, Close, DeleteCapture |
| Capture store | `internal/core/store.go` | SQLite: captures, entries, artifacts | SaveCapture, DeleteCapture, SaveArtifact |
| Charles client | `internal/core/charles.go` | none: each operation is an HTTP call | Record, Throttle, clear, quit; Recording, Snapshot and EnsureStopped read |
| Server process | `cmd/charles-mcp/main.go` | the ticker, the deferred Close | start, expire tick, orderly exit |
| Tool dispatch | `internal/app/app.go` | none | hands a call to one tool; `proxy_by_time` starts, waits and stops |
| Environment reset | `internal/app/reset.go` | files of Charles and of the backup | clear, quit, record on/off, backup, restore |
| Replay | `internal/core/replay.go` | none | builds a request, sends it, saves experiment and comparison |
| Workflow, discovery, decoding | `workflow.go`, `signature.go`, `decode.go` | none | consume a window, save findings |
| Query and statistics | `internal/core/query.go` | none | none |
| Import | `internal/core/import.go` | captures named by the digest of their content | SaveCapture |
| Configuration | `internal/app/config.go`, `main.go` | none after the start | none |
| Entry model | `internal/core/model.go` | none | normalisation, identity, ID |

**How they interact.** The MCP library runs tool calls in goroutines of their own. Live sessions are
protected by one mutex, which each operation holds from its first line to its last, the HTTP calls
to Charles included. Charles itself is outside: its user presses the record button, clears the
session and removes transactions at any moment, traffic keeps arriving, and the answer to a call may
be lost after Charles has acted. The store is shared by all components and, on disk, by all server
processes a client starts. The tools other than the live ones take no lock: Reset reads the status of
the sessions and acts afterwards, replay, discovery and workflow make several store and HTTP calls
each, and copies of the configuration are sequences of renames.

**What is hard**, by component:

* *Live sessions*: what an export means when Charles was cleared, when a response changed an entry
  that waits, was read, or was rejected by a filter; who owns the recording when the call that
  started it, the first snapshot or the rollback fails, when sessions overlap, expire in any order or
  are left behind, when the user interferes, when the process ends between two calls, and when a
  second process works on the same Charles.
* *Store and the tools that save*: a capture deleted under a call that is about to save something about
  it; a request sent whose outcome is not saved; the order in which a call saves and reports.
* *Reset*: a check whose answer is stale when it is used; a file replaced but not its pair; a crash
  between two renames; jobs that overlap.
* *Data*: maps ranged over in random order, offsets into rows that grow, codings a header names and
  Charles removed, archives above a limit, lists cut after they were ranked.

**What makes each correct.** *Live sessions*: reading is lossless and never repeats itself, the capture is the
session, entries keep their identity, recording stays on while a session needs it and is
restored, in the end, exactly if the server turned it on. *Store*: rows are what was saved, deletes leave nothing
behind. *Reset*: profiles are never lost or half written, and a mix is reported. *Replay,
workflow*: the request is the recorded one with the overrides, what was sent is recorded and reported. *Query*:
pages read to the end have shown the matches, and statistics agree with them. *Import*: a capture holds its file.
*Decoding*: what is shown without a warning is decoded, and what is too large is not shown.

## The modules

| Module | Contents |
|---|---|
| `LiveSession` | pure operators on one session: the effect of a snapshot on the session and on its rows, the page of a read |
| `LiveManager` | the state machine: manager, Charles, its user, traffic, time, store, process; its properties |
| `LiveFeed` | abstract: what a reader is promised, without Charles, exports, cursors or rows |
| `LiveFeedRefinement` | the refinement mapping under which `LiveManager` implements `LiveFeed` |
| `ControlTools` | `LiveManager` composed with `reset_environment` and `proxy_by_time` |
| `TwoServers` | two instances of `LiveManager` over one Charles and one database |
| `Artifacts` | decode, discovery, replay and workflow as sequences of calls, with deletes, imports, crashes |
| `ConfigRestore` | backup and restore, rename by rename, with Charles and other jobs beside them |
| `ReplayRequest` | `BuildReplay`: what overrides make of a recorded request, in any order of the maps |
| `JsonPointer` | the name of a JSON field, there and back |
| `MutationPlan` | `mutationPlan`: ranking, recipes and cuts |
| `QueryPages` | pages and statistics of a capture that grows between the calls |
| `SessionImport` | `ImportFile`, the parsers, the converter and the rows; native snapshots |
| `BodyDecoding` | the chain of content codings, the classification and the limits |
| `Configuration` | defaults, file, environment, flags |
| `Tools` | the dispatcher: the modules from `Artifacts` to `Configuration`, one per behaviour |
| `MCLiveManager`, `MCControlTools`, `MCTwoServers` | constants for TLC, symmetry, a specification that keeps recording on |
| `MCTools` | values for `Tools`: those of `MCReplayRequest`, `MCJsonPointer`, `MCMutationPlan`, `MCQueryPages`, `MCSessionImport`, `MCBodyDecoding`, and its own |
| `LiveManagerProofs` | what a snapshot and a read preserve; theorems on types, lossless reading and the rows of a capture |
| `LiveOwnershipProofs` | theorems on the ownership of the recording |
| `LiveDeliveryProofs` | theorems: nothing is read twice, captures only grow, the refinement of the feed |
| `TwoServersProofs` | theorems on two servers, each a feed of its own, from the lemmas about one |
| `ControlToolsProofs` | theorems on `proxy_by_time` and `reset_environment` beside the live tools, which stay a feed |
| `ConfigRestoreProofs` | theorems on profiles |
| `ArtifactsProofs` | theorems on what the tools leave in the database |
| `ToolsProofs` | theorems on each tool of `Tools` |

### The live sessions and the code

`sessions`, `owned` are the fields of `LiveManager`; a session in TLA+ has the fields of
`LiveSession`, with `hashes` merged into `entries` (the two maps change together and are indexed
alike), `age` for the time since `Updated`, and three history fields (`seen`, `final`, `told`) that
no action reads. `store` holds the rows of each capture by entry ID, the sequence column and the
sequence inside the payload separately, because the upsert replaces only the payload. `recorder` and
`traffic` are Charles.

`recorder` says not only whether Charles records but who turned it on. The code cannot see that; it
is what the properties are about. Only `SetRecorder` writes it.

A transaction is `[req, nth, ver]`: what `Identity()` formats, which twin of equal requests of the
same millisecond it is (invisible to the program), and a stamp of its content (what the hash tells
apart). An entry ID is the tuple its digest is taken of; the digest is assumed free of collisions. A filter is the set
of contents it matches.

An operation of the manager with at most one call that changes Charles is one action: the mutex
makes the rest atomic, and what happens outside during its calls commutes to before or after it. `Start`
makes up to three such calls and `Stop` reads the traffic before it makes one, so they are sequences of
actions, and `op` records which operation holds the mutex and where it is. The world (traffic, user,
time, a crash) acts at every stage. A call to Charles answers, is refused (Charles did not act), or is
lost (Charles acted, the caller gets an error).

`Stop` decides `Active = {s}` and `owned` when it takes the final snapshot, the code after it;
both are protected by the mutex in between, which lemma `CallsNext` shows. `Expire` visits the
sessions in the order of a Go map. Only the stop of the last active session can call Charles, so
its outcomes are: no call; a call that succeeds, and all stale sessions go; a call that fails, and the session it was made
for and any stopped ones not yet visited stay.

`LiveFeed` has no cursor: an open feed has the newest content of its entries and a queue of what waits. The
mapping takes `entries` without their numbers as the contents and the part of `events` behind the
cursor as the queue. A `Read` is one `Serve` that adds the news of its snapshot at the end and delivers a prefix;
a peek, a capture and a stop add only.

### The composed live modules

`ControlTools` adds `calls`: what each client waits for. `ResetCheck` is `Status` under the mutex, `ResetAct` the call
to Charles when the mutex is long free: everything of `LiveManager` may happen in between, with the requests, late responses, clears and
removals of `TrafficChanges`. `proxy_by_time` is `TimedStart`,
which is `Start` with a call that waits for it, a countdown that runs with the clock, and `TimedStop`; `Returned` moves the
call on when the operation it is in lets go of the mutex. `Cancel` is the client that gives up: the code then stops the session
under a context of its own.

`TwoServers` shares Charles, its traffic, which changes in all the ways of `TrafficChanges`, and `store`; `sessions`, `owned` and `op` exist twice. A client may ask its server
to delete any capture of the database.

### The tools and the code

`Artifacts`: a call has `todo`, the store and HTTP calls its tool has still to make, in the order of
the code. Each of them is one action, may fail if the store does, and fails when the client has
cancelled. A workflow is the concatenation `WorkflowSteps` of its parts, as `Workflow` calls them. `late` and `stale` are
history: a delete has overtaken the call. A decoding inside a workflow reports its error and goes on (`TryDecode`). `ListFindings` takes
`MaxFindings` of the findings about the entry, any of them (`Newest`): they are ordered by the text of the wall clock, which may be set back.

`ConfigRestore`: a job walks through `readConfig`, `writeConfig`, `copyFiles`, `look`, `moveOld`,
`moveNew` and, if the second rename fails, `rollback`. A file is the generation of its content; a directory is
the sequence of its files, so that a copy in part and a mix of generations can be told. `left` are
stages nobody removes: after a crash, and after a rollback that failed (`keepStage`). `both` says of a job whether a profiles path was
given; a job without one ends behind the configuration file. `split` is history: the places where such a job wrote a file without its pair.

`ReplayRequest`: a range over a map is a loop that takes any remaining key; a JSON object is a function from
paths, headers are present or not. `MutationPlan`: a field is its surface, what its name looks like, and its place in the
alphabet. `QueryPages`: a capture is a function from places in the order of sequence, then of storing, to entries; a new row may take any free place
(`live.go:117`, `store.go:98`). A page is computed from the rows of its moment and the offset of the caller; `known` and `dropped` are history: what
matched at the first page, and whether any entry has ceased to match since. `SessionImport`: a content is its kind, its
size against the limit and its transactions; the converter of an installed Charles is a function of content and version.
`BodyDecoding`: a body is its layers around a content of some shape; `large` and `refused` say with how many of its layers it is above
the limit, or a frame the decoder of zstd refuses. The labels are those of the first Content-Encoding line, the only one `Headers.Get` reads. `Configuration`: one setting with a flag, one
that depends on it, one for all others.

### Known abstractions

* `Close` ends the process. In the code a handler that waits for the mutex at that moment still runs
  for as long as the process takes to return from `run`.
* A lost call acts before its caller gives up. A call Charles performs after its caller's timeout is
  not modelled separately; between the two nothing else in the manager runs that would tell them
  apart, except after the operation has returned.
* A failed snapshot has no effect, whichever part failed: export, parsing, or the transaction.
  Read, Capture and a refused Start with a failed snapshot are therefore stuttering steps.
* The live modules do not model the format of the export; all three yield a list of entries
  (`SessionImport` has the native one with its fall back).
* Session and capture IDs are random in the code; here one name from `Sids` stands for both and
  may be used again once nothing is left of it.
* In `ControlTools` a Charles that quits comes back with an empty session, recording or not.
* In `BodyDecoding` bytes decode as a label says exactly if that is their outermost layer: damaged streams, and garbage a decoder happens
  to accept, are contents of their own.
* In `Artifacts` scores and candidates are any choice: the model lets a workflow select any entries of its page.

## The runs

| Run | Module, cfg | Question | Result |
|---|---|---|---|
| live_queue | `MCLiveManager`, `LiveQueue.cfg` | Is reading lossless, without repetition, is the capture what the session holds, whatever the traffic does, and is all of it a feed (`ImplementsFeed`)? | holds |
| live_recording | `LiveRecording.cfg` | Is the ownership of the recording kept by the sessions that need it, with three of them, a meddling user and failing calls? | holds |
| live_quiet_user | `LiveQuietUser.cfg` | Does the server stop only what it started, as long as the user leaves the button alone? | holds |
| live_abandoned | `LiveAbandoned.cfg` | Do sessions that clients forget expire, and does the recording started for them end? | holds |
| control_timed | `MCControlTools`, `ControlTimed.cfg` | Does `proxy_by_time` find its session when its time is over, return with it stopped unless Charles failed the stop's call, and always return, beside other clients, resets and the ticker? | holds |
| two_servers | `MCTwoServers`, `TwoServers.cfg` | Does a recording one of two servers started keep an owner, and an owner its session? | holds |
| tools | `MCTools`, `Tools.cfg` | Does each of the other tools do what it promises (24 properties)? | holds |
| live_sequence | `LiveSequence.cfg` | Are the entries of an export numbered in the order Charles shows them? | violated |
| live_lost_start | `LiveLostStart.cfg` | Is a recording the server started always restored? | violated |
| live_user_recording | `LiveUserRecording.cfg` | Does the server stop only a recording it started? | violated |
| live_stop_retry | `LiveStopRetry.cfg` | Does a client that was told its session is stopped have the final snapshot? | violated |
| replay_order | `MCTools`, `ReplayOrder.cfg` | Do JSON overrides that can all take effect do so? | violated |

**Why tools is one run.** `App.Call` hands a call to one tool by its name. The tools of this run share no state in
the models, so `Tools` is their disjoint union: a behaviour chooses a tool and is a behaviour of that
module alone. The constants of `Tools` are those of the modules, and `MCTools` gives them values. Its properties are, by module:

* `ReplayRequest`: `SeparateOverridesApply`, overrides of fields that are not inside each other all take effect and nothing
  else changes; `LabelFitsBody`, a new body never keeps the coding or digest of the recorded one; `HeadersAsAsked`, headers are
  sent as overridden and else as recorded, but labels that no longer fit and those of one hop, whatever the order of the overrides.
* `JsonPointer`: `NamesLeadBack`, the name of a field names that field.
* `MutationPlan`: `FavouredFieldsFirst` and `EveryTargetIsRemoved`, what the two cuts of the plan may cost.
* `QueryPages`: `PagesAreWhole`, who reads to the end has seen every entry that matched at the first page, wherever rows are added
  meanwhile, unless one ceased to match (an entry may be shown twice); `LastPageIsLast`, who saw none twice has also seen everything that
  matches at the last page; `StatsAgree`.
* `SessionImport`: `CapturesAreTheirFiles` after imports of any files that fail anywhere and of any order; `ImportIsStored`, what an
  import answered is in the store, over the rows another converter left; `OversizedIsFinal`, what ends in a size error is never
  handed to the converter: a file or a download above the limit, or an archive whose directory passes it before it names a member twice.
* `BodyDecoding`: `NoWarningNoLayer`; `TooLargeIsAnError`, a body above the limit, as recorded or without any layer taken off, is not
  shown, and the limit never ends in the warning of a body that does not decompress; `TextIsWhole`.
* `Configuration`: `FirstMentionDecides`, `RecordingsFollowData`, each with the exceptions named under Divergences.
* `ConfigRestore`: `ProfilesNeverLost` with three jobs that overlap, crash and fail and a Charles that starts under them;
  `ProfilesWhole` and `MixedOnlyIfReported` for jobs one after the other, some of them for the configuration file alone.
* `Artifacts`: `OrphansOnlyLate` and `AnsweredIsRecorded` with all faults; `ComparisonsRest` and `ReportShowsReplay` with two calls that
  overlap with each other and with deletes.

The five violated ones are disagreements of the code with its documentation:

* **live_sequence** (`live.go:117`). The number of a new entry is the number of entries of the session plus
  the number of *changes* met before it in this snapshot plus one. With an updated entry before a new one a number
  is skipped. The next snapshot continues from the number of entries, that is from below it, so a later entry gets the same number or, after another step, a
  smaller one. `ORDER BY sequence` then shows the capture out of order.
* **live_lost_start** (`live.go:68`). If the answer to `/recording/start` is lost, `Start` returns
  before it sets `ownedRecording`; the recording is never restored.
* **live_user_recording** (`live.go:71`). `Start` reads that recording is off, the user turns it on, and
  `/recording/start` changes nothing; `Start` takes ownership all the same, and the end of the session, or of the
  process, stops the user's recording.
* **live_stop_retry** (`live.go:221`). A `Stop` whose final snapshot fails ends the session all the
  same and reports the error; the retry finds an inactive session and reports success.
* **replay_order** (`replay.go:116`). JSON overrides are applied in the order of a Go map. One may write an object and
  another a field inside it: both take effect if the outer one comes first. Applied last it removes the inner one, and
  the request goes out without it and without an error. Two spellings of one field, of which one has to lose, are not counted (`Compatible`).

### Divergences

Further places where the code does less than it or its documentation says, met while modelling. They
are visible in the actions of the models and are the reason for the exact wording of the properties; no run is
spent on them.

* *Reset and sessions* (`reset.go:13`). Reset reads the status under the mutex and acts after it is released: a `Start` in
  between has its session cleared, its recording stopped, or Charles quit (`ResetCheck`, `ResetAct`).
* *proxy_by_time and a short TTL* (`app.go:228`). Nothing keeps its session alive while it waits: with a TTL
  shorter than the duration the ticker expires it and the call ends without a `capture_id`. `TimedCaptureKept`
  is checked with a TTL above the duration.
* *A user who restarts recording* (`live.go:201`). `ownedRecording` is not checked against the switch again: a recording the user
  stopped and restarted during a session is stopped with it. It breaks `StopsOnlyItsOwn` as well.
* *A stop that Charles refuses* (`live.go:204`, `app.go:228`). `proxy_by_time` then returns the error with its session active; another Stop,
  the ticker or Close ends it. `TimedCallStops` says that the manager still owns what there is to restore.
* *Two servers* (`live.go:201`, `live.go:267`). `activeCount` and the check of `DeleteCapture` know one process: a server stops a
  recording, or deletes a capture, that a session of another one still uses. `mcp.go:24` and `mcp.go:52` promise otherwise.
* *Deletes that are overtaken* (`replay.go:232`). An experiment or comparison may be saved about an entry deleted while the
  request was out, and a second delete finds no capture: hence `late` in `OrphansOnlyLate`. A signature finding quotes every
  entry compared but belongs to the capture of the first (`signature.go:145`).
* *Cancelled replays* (`replay.go:232`). The outcome is saved with the context of the call: after a client gave up, a request
  that was sent is recorded nowhere. `AnsweredIsRecorded` therefore speaks of calls that answered.
* *Full reports* (`workflow.go:320`, `store.go:156`). A report lists twenty findings about the entry, the newest by the text of the wall
  clock; with twenty others of overlapping calls, or of a clock that was ahead, its own comparison is missing: `ReportShowsReplay` says that it is there or the
  list full.
* *The configuration alone* (`reset.go:36`, `46`, `55`). Without a profiles path a backup or a restore copies the file and succeeds: file and profiles of
  that place are of different generations, and nothing says so. `MixedOnlyIfReported` leaves such places out until a job for both, or Charles, writes them.
* *Pages of a growing capture* (`query.go:202`). An entry added before the offset moves a row to the next page, where it is shown again,
  and is itself not shown; a row that ceases to match moves one off the pages unseen. No page says so.
* *Archives above the limit* (`import.go:389`). One that names a member twice before the limit is passed fails for that and is handed to the converter, and
  a file that is rewritten during the call is converted whatever it holds; `docs/verification.md:15` says of every archive above the limit that it never is.
* *Frames of zstd* (`decode.go:73`). One above the memory of the decoder is no `SizeLimitError`: the call goes on with the warning that Charles may
  have decoded the body, and shows the compressed bytes.
* *Windows of failed workflows* (`workflow.go:232`). The cursor advances when the window is taken; an error of a later step
  returns without a report, and the entries are consumed.
* *Restore and a Charles that starts* (`reset.go:43`). `EnsureStopped` is asked once, before the copies.
* *Bodies that were not captured* (`replay.go:142`). They are noticed by their Content-Length only: a request sent in
  chunks is repeated with an empty body.
* *Recipes that cannot run* (`workflow.go:139`). The plan looks at fields only, and proposes changes of bodies `BuildReplay`
  refuses.
* *Converted imports* (`import.go:95`). The ID of a capture is made of the bytes and the format, its rows of what the installed
  Charles makes of the path: another version adds rows to the same capture beside those it does not replace, and a file rewritten meanwhile is stored under the ID
  of its old content. `CapturesAreTheirFiles` is about the formats parsed here.
* *Hexadecimal previews* (`decode.go:150`, `228`). They are cut at half of `max_chars` in bytes, while `truncated` was computed
  from the runes of the text: `TextIsWhole` leaves them out.
* *Flags* (`main.go:51`, `config.go:47`). `--data-dir` replaces a recordings directory that only the file names, and an empty
  `CHARLES_MCP_DATA_DIR` fails the start although the flag names a directory.

### Bounds, and why they are enough

`MaxClock` bounds the events that change the traffic, `MaxTraffic` the transactions in the Charles session, `MaxBurst` the
equal requests of one millisecond, `Sids` the sessions, `TTL` the ticks to staleness (an age is not
counted beyond it, so time itself needs no bound).

* *live_queue*: one session, three traffic events, two transactions at a time, twins, pages of one and
  two, a filter that rejects every other content. What one session does to its capture does not depend
  on another; three events suffice for: new, changed while it waits, changed again after it was read;
  or a pair of twins of which one is removed and the other changes; or a cleared session refilled.
  Restarts, deletion of the capture and expiry are unbounded. `RecordingSpec` starts with the user's
  recording on and nobody touching the button, since ownership is the subject of the other runs.
* *live_sequence* needs a fourth traffic event and a third transaction: a late answer before a new
  request, then another request.
* *live_recording*: three sessions, no traffic: ownership never depends on it. Three is the
  smallest number with two sessions expiring while a third does not. Sessions are symmetric there (the
  properties of this run are invariants and an action property).
* *live_quiet_user*, *live_abandoned*: two sessions, no traffic, no symmetry under the liveness property.
* *control_timed*: one client of `proxy_by_time` and two sessions, the second for the requests of everyone else; a wait
  of one tick and a TTL of two, the smallest with a tick between the end of the wait and expiry. Traffic is bounded by 0: whether a call
  finds its session, stops it and returns does not depend on what the session holds. What the sessions hold beside these tools,
  `ToolsKeepReads`, `ToolsKeepCaptures` and `ToolsKeepTheFeed` prove for any traffic.
* *two_servers*: one session each and one change of the traffic: either server starts, stops, expires, deletes, exits and crashes at any
  stage of the other. What clients of both read is proved for any traffic.
* *tools*: `ReplayRequest` has two overrides at a time, on two levels, with two spellings of one key; `JsonPointer` all keys of up to
  two characters of which both escapes are made, and the three longer ones that overlap, at a depth of one and two (`MaxDepth`); `MutationPlan` nine fields, enough that both cuts bite, in every
  subset a request may have; `QueryPages` three places, pages of one and two, so that a page boundary falls before, on and after an
  added row; `SessionImport` two files with three and five contents, two versions of Charles that may come and go; `BodyDecoding` up to two
  codings, above the limit with any number of layers, refused by zstd or not; `Configuration` every combination of three sources of three settings;
  `ConfigRestore` two files in a directory, two jobs and three new contents of Charles in a row, or three jobs that overlap;
  a report with room for one finding;
  `Artifacts` one call with all faults on two captures of two entries and one, or two calls on one entry each.

### Fairness

`FairSpec` assumes weak fairness of the steps of a handler that holds the mutex (Go runs
it, and each call has a timeout), of time, and of `Expire` (the ticker fires every 30 seconds for as long as the process lives). For `ExpireRestoring` it also
assumes that a call to Charles is answered at last: if every call failed forever nothing would end
the recording, whatever the server did. Nothing is assumed of clients, of the user or of traffic, and the property is conditional on
clients having gone: their reads would keep a session young.

`ToolFairSpec` (control_timed) assumes weak fairness of handlers that hold the mutex and of time, and strong fairness of a
`proxy_by_time` call whose time is over. The mutex it waits for is free again and again while other
clients keep taking it; Go's `sync.Mutex` hands over to a waiter that starves, after a millisecond.

### Faults

Each property of a passing run is confronted with a fault in a definition it depends on, and TLC finds the
property violated. The faults are the operators headed *Fault*, or named for one beside the definition they replace: in the live modules
queueing only new entries, queueing without looking at what waits, renumbering an entry that changes, overlooking an
export that got shorter, a cursor one too far, giving ownership up after a failed rollback, no rollback, restoring
at any expiry, claiming a running recording, never expiring active sessions, waiting after a `Start` that failed, giving ownership up with
a stop that Charles refused; in the tools, among others, steps in another order, an error dropped, a rollback without the kept
stage, a page that skips a row, a size error taken for a warning, a cut before the ranking, and an escape in the wrong order.

`Faults` in `Artifacts` and `ConfigRestore` is something else: the constant that names what the world may do (the store
fails, a client cancels, the process crashes, calls overlap, Charles starts or writes). Both modules are run with
different sets of them, and the theorems hold for any set unless they say so.

## The proofs

TLAPS checks every theorem for arbitrary constants (sets of sessions, clients and filters, limits and TTL, files and jobs,
captures, entries and calls, recorded requests and overrides, keys and depths of fields, rows, queries, archives, bodies, settings), any amount of
traffic and any length of behaviour. The assumptions are the types of the constants:

* `ConstantsAssumption` in `LiveManager`; in `TwoServers` the same for both, and no session with the same name
  (their IDs are random); in `ControlTools` a duration above 0, and `Duration < TTL` where it is named.
* `ConstantsOK` in each module of a tool, which `ValuesOK` in `Tools` collects. Beyond types they say: captures share no
  entries; a path is not empty and its parents are paths (`ReplayRequest`); keys are sequences of characters (`JsonPointer`); a query has the
  conditions of `Query` (`QueryPages`); the fields are finitely many, no two alike in surface and name
  (`MutationPlan`); a report has room for a finding (`Artifacts`); an override of a header says whether it sets or removes it (`ReplayRequest`);
  the layers of a recorded body are among the codings its headers name, in their order (`BodyDecoding`): bytes
  compressed without a header that says so are to the program a content of their own, not a layer.
* `Alone`, where it is named: jobs of `ConfigRestore` do not overlap and Charles does not write under them. `ValuesOK`
  has it of the instance "restore" only.

| Theorem | States |
|---|---|
| `TypeCorrectness` | `Spec => []TypeOK` |
| `LosslessPagination` | `Spec => []NoLostUpdate` |
| `CapturesMirrorSessions` | `Spec => []StoreMirrors` |
| `StartedRecordingIsOwned` | `Spec => []StartedIsOwned` |
| `OwnersHaveSessions` | `Spec => []OwnerHasSession` |
| `RecordingStaysWhileNeeded` | `Spec => NoStopWhileNeeded` |
| `QuietUserKeepsRecording` | `QuietSpec => StopsOnlyItsOwn` |
| `NothingIsReadTwice` | `Spec => []NoRedelivery` |
| `CapturesNeverLoseEntries` | `Spec => CapturesOnlyGrow` |
| `ServerIsAFeed` | `Spec => ImplementsFeed` |
| `OneOfTwoOwns`, `OwnersOfBothHaveSessions` | `Spec => []OneServerOwns`, `Spec => []OwnersHaveSessions` of `TwoServers` |
| `ReadsOfBothLossless` | `Spec => [](A!NoLostUpdate /\ B!NoLostUpdate)` |
| `BothReadNothingTwice` | `Spec => [](A!NoRedelivery /\ B!NoRedelivery)` |
| `BothKeepCaptures` | `Spec => A!CapturesOnlyGrow /\ B!CapturesOnlyGrow` |
| `BothAreFeeds` | `Spec => A!ImplementsFeed /\ B!ImplementsFeed` |
| `ToolsKeepOwnership` | `ToolSpec => [](TypeOK /\ StartedIsOwned /\ OwnerHasSession)` |
| `ToolsKeepReads` | `ToolSpec => [](NoLostUpdate /\ NoRedelivery)` |
| `ToolsKeepCaptures`, `ToolsKeepTheFeed` | `ToolSpec => CapturesOnlyGrow`, `ToolSpec => ImplementsFeed` |
| `TimedCallsFindTheirSession` | `ToolSpec => []TimedCaptureKept`, `Duration < TTL` |
| `TimedCallsStopTheirSession` | `ToolSpec => TimedCallStops` |
| `ProfilesAreKept`, `RestoresKeepProfiles` | `Spec => []ProfilesNeverLost`, of `ConfigRestore` and of `Tools` |
| `ProfilesAreWhole`, `RestoresLeaveWholes` | `Spec => []ProfilesWhole`, `Alone` |
| `MixesAreReported`, `RestoresReportMixes` | `Spec => []MixedOnlyIfReported`, `Alone` |
| `OrphansAreLate`, `OrphansComeLate` | `Spec => []OrphansOnlyLate`, of `Artifacts` and of `Tools` |
| `ComparisonsHaveExperiments`, `ComparisonsFollowExperiments` | `Spec => []ComparisonsRest` |
| `AnswersAreRecorded`, `AnswersLeaveRecords` | `Spec => []AnsweredIsRecorded` |
| `ReportsShowReplays`, `ReportsListReplays` | `Spec => []ReportShowsReplay` |
| `SeparateOverridesAllApply` | `Spec => []SeparateOverridesApply`, this one and the following of `Tools` |
| `LabelsFitTheBody`, `HeadersSentAreAsked` | `Spec => []LabelFitsBody`, `Spec => []HeadersAsAsked` |
| `NamesOfFieldsLeadBack` | `Spec => []NamesLeadBack` |
| `FavouredFieldsComeFirst`, `TargetsAreRemovedFirst` | `Spec => []FavouredFieldsFirst`, `Spec => []EveryTargetIsRemoved` |
| `PagesShowEveryMatch`, `LastPagesEndWithTheLast` | `Spec => []PagesAreWhole`, `Spec => LastPageIsLast` |
| `StatisticsCountWhatPagesList` | `Spec => []StatsAgree` |
| `CapturesHoldTheirFiles` | `Spec => []CapturesAreTheirFiles` |
| `ImportsAreStored`, `OversizedIsNeverConverted` | `Spec => []ImportIsStored`, `Spec => []OversizedIsFinal` |
| `NoWarningMeansDecoded` | `Spec => []NoWarningNoLayer` |
| `TooLargeIsNotShown`, `UnmarkedTextIsWhole` | `Spec => []TooLargeIsAnError`, `Spec => []TextIsWhole` |
| `PriorityOfSources`, `RecordingsAreBelowData` | `Spec => []FirstMentionDecides`, `Spec => []RecordingsFollowData` |

`TypeOK` is inductive. That the cursor stays within the queue, and the queue within the entries,
belongs to it: without it the later proofs could not speak of what waits behind the cursor.

*Reading.* The first lemmas of `LiveManagerProofs` show of one session that a snapshot and a page of a read keep `IsLossless`, and
that a snapshot of a session and of rows that mirror it gives a session and rows that mirror it.
The others lift this: every step leaves a session alone, or takes a snapshot of it, or
advances it over a page, or deactivates it (`StepTouches`). `StoreMirrors` needs one fact more: while `Start` runs,
its session and its capture do not exist yet (`StartIsFresh`), so its first rows are all the rows.

*Reading nothing twice* needs to know how content moves in Charles. An entry is named after the place of a transaction in the export and its
identity; the danger is a name that comes to mean another transaction, or older content. `IsTracked` says why it does not:
either every transaction of the last export is still at its place, with content that only got newer (`IsIntact`), or some
place is empty or held by a later request (`IsBroken`). Every change of the traffic keeps the disjunction, and a broken place makes the next
snapshot start a generation (`BrokenIsReset`). With it a snapshot queues an entry only for content no read has consumed.

*Captures only grow* because entries do (`SnapshotGrows`) and rows are entries (`RowsBelong`). This is weaker than `StoreMirrors`, and has to be: a
second server may delete the capture of a session, whose later snapshots save what changes.

*The feed.* `ServerIsAFeed` is a step simulation. By `StepTouches` a step of the manager opens a session, ends some, or serves one: the
snapshot's additions are an arrival of exactly the news that does not wait (`SnapshotArrivals`), and a page delivers a prefix
of queue and additions (`AdvanceDelivers`).

*Ownership.* `OwnerHasSession` is not inductive: a stop or a rollback
under way was decided when the operation took the mutex. `CallsOK` adds what was decided: a rollback runs
with no active session, the call of a stop with its own session the only active one, a `Start` that does not turn
recording on does not rely on the ownership it found. From the same invariant each step that switches
recording off is one at which no other session needs it.

*Quiet user.* Under `QuietSpec`, `QuietOK` says that a recording owned or about to be started is not the user's.

*Two servers.* A step is one of the one server that leaves the fields of the other alone, or the reverse (`StepOfOne`). The
lemmas about one server are lemmas about a step, not about a behaviour, so they apply to each of the two in turn; what remains is that their
invariants ask nothing of Charles and of the database that the other server could undo (`SharedTypes`). Only `StartIsFresh` speaks of
captures the other one might store, and there the names differ. The proofs about reading add what a session has tracked of the traffic:
`TrafficTracked` holds of the steps of any server (`SameTracking`), so to a session the other server is one more who clears Charles.
Each server implements the feed by the mapping of one, with the steps of the other as stutters.

*Control tools.* `ResetActCharles` shows that a reset reaches Charles behind the back of the manager but changes nothing the manager keeps,
so the invariants of `LiveManager` hold beside it, and the feed as well: a clear by a reset whose check is stale breaks places or leaves them intact
like one by the user (`ResetActDelivers`). `TimedOK` says of a call of `proxy_by_time` that waits that its session is
there, with an age that the ticks waited so far bound: with `Duration < TTL` it cannot be stale before the call stops it, and a session that
is not stale outlives every step but the end of the process (`SessionsStay`). Of a call whose `Start` still runs, it says
that the operation is that one, or has ended with the session or without one. `StoppingOK` says of one in its Stop that the operation is that
stop, and that ownership is what it restores: a failed call leaves it owned.

*Tools.* A behaviour of `Tools` is one of a single module (`StepOfTool`): the theorems of `ConfigRestoreProofs` and
`ArtifactsProofs` carry over, and each of the others has its inductive invariant beside its properties.

*Induction over data.* The library's induction theorems take an operator, which the provers cannot instantiate. What they can use is that a relation
is well founded: then every set of naturals has a least member (`Least`), so a set with 0 and with every successor is all of them (`Induction`), and a
set of sequences with the empty one and closed under `Append` is all of them (`SeqInduction`). A statement is proved for all values by naming the set of values it
holds of.

*Names.* Escaping, joining, splitting and unescaping are defined by folds or a recursive function over a text. Lemmas `WidenStep`, `NarrowStep`,
`SplitStep` and `PointerStep` say what one more character, or key, does to each, from which inductions follow: an escaped key
has no slash and no tilde at its end (`EscapedKey`), so the first unescaping gives the slashes back and touches nothing else, and the second the tildes
(`KeysLeadBack`); a text without slashes is one part (`SplitRest`), so the parts of a name are the escaped keys of its path (`PathsLeadBack`).

*Replays.* `RequestOK` follows `BuildReplay` through its loops: while overrides are applied, those done are in effect and fields that
none touches are as recorded. What makes it inductive is lemma `Change`: a change of a path leaves every path alone that is
neither in it nor above it, and separate overrides have no such paths among them (`OneMore`).

*Lists in order.* A sorted list gives each element the place that the number of elements before it says. Lemma `Ranks` shows of any
finite set with a strict order that this is a place of its own for everybody, from the first to the last. It serves the plan and the rows
of a query.

*Plans.* `PlanOK` says that no field is passed over for one that comes after it (`BestFirst`), which the cut of the targets keeps,
and that the recipes are in rows of three in the order of the targets (`InOrder`), which the cut of the list keeps.
`RecipesBefore` reads both backwards: a recipe in the plan has all recipes of all better fields before it, and the removal of its own field.

*Pages.* `PagesOK` says that every entry in front of the offset, in the order of its moment, that matched at the first page has been shown (`InFront`).
A row added anywhere moves others only away from the front, so what stands in front of the offset was in front before it, or is new; only an entry that
ceases to match moves others towards the front, and `dropped` says so. A page shows what comes after the offset (`PageShows`, `AskStep`), and behind
the last there is nothing. If no entry was shown twice, as many have been shown as the offset counts, so they are all there is. Statistics are
dropped whenever what they are of changes (`AgreesStep`). That
the groups add up to the rows listed is lemma `SumsOfGroups`, by a smallest set of groups on which sum and count differ.

*Imports.* `ImportOK` says of the call that what it will save is what the parser makes of the bytes its capture is named after, and
of the rows that their ID is made of capture, number and identity. An import of the same bytes therefore replaces rows by those of the same
number, and imports of others do not touch them (`SaveStep`). `SizeOK` says that of contents above the limit only archives are parsed.

*Bodies.* `PeelingOK` says that until something is warned of, the layers left are among the labels left: a label that is the outermost
layer takes it away, one that is not is `identity` or ends in a warning, and with no labels left there are no layers. `SizesOK` says that no
body on the way was above the limit, and that a loop that ended early met a layer its label does not name, or a frame zstd refuses. `PreviewOK`
says what of the text is shown before and after the cut.

*Configuration.* `ConfigOK` says that at each stage the configuration is the sources read so far, laid over the defaults.

*Profiles.* `DiskOK` says what is in the stage of a job at each of its steps; a job removes its stage only
where it has put a directory in place or has moved none away. That is enough for `ProfilesNeverLost` whatever overlaps. The other two theorems
assume `Alone`: jobs do not overlap and Charles does not write while one runs. `WholeOK` adds that the copy made so far is a prefix of the
source, which does not change under it, and `Paired` that files and profiles of a place that no job of the file alone has split belong together once no job runs
and no error was reported; a job for both that copies from a split place passes the split on. Without `Alone` both are false, and it is what the instance "restore" of the run assumes.

*Artifacts.* `InOrder` is the plan of a call: what it loads it loads before it sends, a comparison comes after its experiment and
before the findings are listed, and a plan with a send has all three after it. Lemmas on concatenation show it of every
`WorkflowSteps`, and `TailStep` that it stays true of what is left to do. `HasSent` relates the plan to the database: of a
call that has sent, experiment and comparison are saved or still planned, and the report lists the comparison or has still to be
made, unless it is full. `HasLoaded` says that what a call works on is stored unless a delete overtook it, which gives the place of everything it saves. `Pairs`
strengthens `ComparisonsRest` by the entry both are about: a delete takes both or none.

*Only model-checked.* The liveness properties `AbandonedIsRestored` and `TimedCallEnds` are out of reach of TLAPS. Every other property of a passing run is
the statement of a theorem. The five violated properties are false, and what the
code does instead is proved where it can be stated: `StoreMirrors`, `StartedIsOwned`, `QuietUserKeepsRecording` and
`SeparateOverridesAllApply` are the true parts of four of them.

Where induction over data can be avoided it is: the operators of `LiveSession` are set comprehensions and bounded quantifiers, `InOrder`
states the order of a queue or of a plan instead of computing it, plans of workflows are concatenations of literal sequences, and
a sorted list is defined by ranks (`Ranked`, `MetaOrder`, `Sorted`) instead of by an algorithm, as Go's `sort.Slice` and SQL's `ORDER BY` promise it.

## The plan

Done, in this order: the live sessions with the store rows, the recording switch and the process (everything else reads what
they wrote, and most of what can go wrong unnoticed is there); the feed they implement; resets and timed captures beside them; two
servers; the artifacts of overlapping calls; backup and restore; the pure tools; then the proofs, in the same order.

Left, should the project be continued:

1. Runs for the divergences above that name a document, with the properties the documents state.
2. A property for the hazard that has none: a workflow that fails after it took its window.

## Not modelled, and why

* The MCP library, its transport, schemas and descriptions, the one-shot flags (`--version`, tools, check), and the demo: no
  state of their own.
* `ListRecordings`, `ListCaptures`, `Status`: they only read, one call each. Throttle: one request nothing else
  depends on. Defaults and ranges of arguments.
* What the parsers of XML, JSON and native exports copy from field to field, header and body formats, `scoreEntry`, the scores of
  discovery, the class of an entry: conversions and heuristics whose values no property here distinguishes. The control around them is modelled.
* Libraries (JMESPath, the decompressors, Protobuf descriptors, `strings`): taken to do what their interface says, and mapped as
  external where a definition stands for one.
* SQLite, HTTP and the file system are taken to do what their interface says: a transaction is
  atomic, a rename is atomic, a call ends within its timeout.
* Performance, and limits of inputs other than the ones above.
