# Verification of the e2b Go client

TLA+ modules, TLC configurations and TLAPS proofs about the Go client for E2B
sandboxes (`src/`).  The client is a thin layer over a control plane (HTTP) and
over the daemon in each sandbox, envd (ConnectRPC streams); what is hard in it
is what it keeps in memory between calls: the life of a sandbox handle shared by
concurrent callers, the goroutines that consume event streams, and the clean-up
of a provisioning that fails half way.

## Inventory

| Part | State it keeps | Operations | What is hard | What makes it correct |
|---|---|---|---|---|
| Sandbox handle (`sandbox.go`, `control.go`) | `closed`, `destroying`, `destroyWait`, the record in `client`, under `mu` | `Destroy`/`Kill`, `Connect`, `Pause`, `GetInfo`, `GetMetrics`, `SetTimeout`, `CreateSnapshot`, ... | concurrent `Destroy` calls join, wait, give up and take over; requests are made without the lock, so that their answers meet another state | one DELETE at a time; nil means gone; no waiter is left behind; closed is final; late calls are refused |
| Control-plane client (`client.go`, `errors.go`) | none (an HTTP client with a timeout) | one request each | which status is which error | the sentinels tell the truth |
| Commands and PTYs (`process.go`) | per handle: the three output buffers, `result`, `err` under `mu`; `done` | `StartCommand`, `CreatePTY`, `ConnectProcess`, `ConnectPTY`, `Disconnect`, `Wait`, output getters; stdin, resize, kill | a goroutine per handle, callbacks outside the lock, cancellation racing the end of the process, handles that attach in the middle | output exact and in order, results never truncated, all waiters agree, `done` is final, `Wait` ends |
| Exec (`sandbox.go`) | none | `StartCommand` + `Wait` under a timeout | the timeout races the end | as for commands |
| Provisioning (`e2b.go`, `control.go`) | the sandbox it has created | `CreateSandbox`: POST, install, clean up; `ConnectSandbox`: POST | partial failure, a cancelled caller, lost answers, extreme timeouts | a handle is ready; an orphan is announced; the lifetime is the one asked for; it returns |
| Directory watch (`filesystem.go`) | `err`, `done` | `WatchDir`, `Stop`, `Wait` | stop, deadline, broken stream and events race | events exact and in order, errors of `Wait` are real, stop ends it |
| Reading and listing (`sandbox.go`, `filesystem.go`) | none | `ReadFile`, `ListFiles`: RPC or HTTP, then `cat` or `find` | two attempts, each admitted on its own, over a tree that changes; errors joined and forgotten | what is returned was true at some moment, nothing is invented or lost, what is sent after a `Destroy` has succeeded is in vain, and the last request of its call |
| One-request operations (`volume.go`, `filesystem.go`, `process.go`, `control.go`) | none | volumes, their content, snapshots, paths, stdin and signals, pausing and resuming | the meaning of 204, 404, 409 and of RPC codes; late, lost and repeated answers | errors and booleans are true; every change is accounted for; calls return |
| Listings (`control.go`, `volume.go`, `process.go`) | none | `ListSandboxes`, `ListSnapshots`, `ListVolumes`, `ListProcesses` | - | the client passes on what the service says and keeps nothing between pages: not modelled |
| Configuration (`config.go`) | none | rounding of durations, comparison of versions, default timeouts | overflow, versions that do not parse | the service is asked for what the caller asked for |
| Wire types (`control_types.go`, `types.go`), `doc.go` | none | conversions | - | data, left out |

How they interact: a method of `Sandbox` first takes a copy of the transport
under `mu` (`activeTransport`) and then talks to the control plane or to envd
without the lock; `Connect` and `Destroy` come back for a second locked section.
`CreateSandbox` uses `Exec` and then `Destroy` of a handle nobody else has yet.
`Exec` is a caller of `CommandHandle.Wait`, and the second attempt of a read or a
listing.  User code is called back from the stream goroutines.

## Modules

| Module | Models | Correspondence |
|---|---|---|
| `ControlPlane` | how one HTTP answer becomes an error | one operator per Go function; an answer is a status and whether its body decodes |
| `Sandbox` | a handle, its concurrent callers, its requests and the sandbox behind them | each section under `Sandbox.mu` is one action; a request is `Send`, `Serve...`, `Receive` or `RequestFails` |
| `SandboxContract` | what the handle promises, without channels, contexts, requests or program counters | refined by `Sandbox` (`ImplementsContract`) |
| `StreamContract` | what a handle on a stream of events promises, without cursors, locks, contexts or goroutines: events in order, each once, then one verdict for all who wait | refined by `Command`, with one stream for each handle, and by `Watch` |
| `Command` | a process, the handle that started it, handles that attached, waiters | envd's events are a log and a stream is a cursor into it; each section under `CommandHandle.mu`, each callback, and the deferred calls are actions |
| `Config` | durations in whole seconds, versions | one operator per Go function, over integers of a fixed width |
| `Provision` | one `CreateSandbox` or `ConnectSandbox` | one action per outcome of POST, `Exec` and DELETE; uses `Config` and `ControlPlane` |
| `Requests` | concurrent operations that are one request each, on one resource | `Send`, `Serve`, `Receive`; what a method makes of an answer is an operator per method |
| `Files` | `ReadFile` and `ListFiles` over a tree that changes and a handle that is destroyed | an attempt is `Begin`, `Send`, the steps of its walk, and an action that concludes it; the handle is an instance of `SandboxContract` |
| `Watch` | one directory watch and its waiters | log and cursor as in `Command`; the cause for which the context is done is kept |
| `SandboxProofs`, `CommandProofs`, `ProvisionProofs`, `WatchProofs`, `FilesProofs`, `RequestsProofs`, `ConfigProofs` | the theorems about each module | |
| `ContractProofs` | what follows from the two contracts for those who rely on them | |
| `MCSandbox`, `MCCommand`, `MCProvision`, `MCWatch`, `MCFiles`, `MCRequests` | the instances for TLC | |

`Sandbox`.  `closed`, `destroying`, `destroyWait`, `record` are the fields;
a channel is named by the call that made it and `signalled` is the set of closed
channels; `pc`, `waitOn`, `transport`, `outcome` are the locals of a call;
`request`, `reply`, `remote` are the network, the control plane and the sandbox.
Two fields that the code sets together (`client.record` and the two RPC clients
made from it) are one variable.  The `select` of a waiting `Destroy` is two
actions, `DestroyWake` and `DestroyGiveUp`, both enabled when both are ready.  A
request may fail before or after it was served, and may be served after its
caller has returned.  `earlier` is the only history variable: the `Destroy` and
`Connect` calls that had returned when a method was called.  It says which calls
do not overlap: `RefusedAfterDestroy` is about a method called after a `Destroy`,
`ConnectNilMeansInstalled` about a `Connect` called after another, whose record
it replaces (of two that overlap, either may win).

`Command`.  A chunk of output is its position in the log, so that `captured`,
`reported` (what the callbacks got), `result` and `given` (what a `Wait`
returned) can be compared with the log.  `mu` is modelled explicitly because a
callback may read the output: `Callback`, `Finish`, `Seal` and `WaitReturns`
need it free.  A stream is cut off by cancellation or a broken connection at any
point, also after the end event.

`Provision`.  `faults` is chosen in the initial state: `network` (answers lost
or late, so that a client timeout expires) and `service` (500).  The caller's
context may be done at any step.  An answer of 300 or more means that the
service did nothing.  `arguments.connect` tells the two calls apart;
`lifetime` is the number of seconds the POST asked for, computed by the
operators of `Config`.

`Requests`.  A behaviour fixes the `kind` of the resource: a volume, a path in a
volume, a snapshot, a sandbox (pausing and resuming), a path in a sandbox, or a
process.  `Ops(kind)` and the comments beside it say which methods are which
operation.  The services are external: `Effects` lists what they may do and
answer, and a service that fails may have done its work.  A request may be
served after its call has returned.  `Interpret` collects the methods'
readings of an answer; the HTTP ones are made of the operators of
`ControlPlane`.  `seen` is a history variable.  The methods of a
`CommandHandle` keep their transport and are sent after `Destroy` too.

`Files`.  An attempt is a user of the abstract handle, so that the fallback
(which goes through `Exec` and `StartCommand`) may be refused although the first
attempt was admitted.  The check of the handle and the request are two steps,
`Begin` and `Send`, as in the code: a `Destroy` may succeed between them.
`request` says of each attempt whether it was sent, and whether a `Destroy` had
succeeded by then; `LateRequestsFail` is about those that were sent too late.  A directory is read once and its entries are visited one
at a time, and the tree may change between any two of these steps.  `errors` is
a set: its members are what `errors.Is` finds in a joined error.  `seen` is a
history variable, the trees there were during the call.

`Watch`.  `context` is the reason for which the stream's context is done; the
first one wins, as in Go.

## Runs

| Run | Instance | Shows |
|---|---|---|
| `sandbox_safety` | 2 `Destroy`, 2 `Connect`, symmetric | the safety properties of the handle in every interleaving |
| `sandbox_contract` | 2 `Destroy`, 1 `Connect`, fairness | the refinement of `SandboxContract`, that no call is ever stuck and that all return |
| `sandbox_ops` | 1 `Destroy`, 1 `Pause`, 1 query | "not found" is true, also of paused sandboxes |
| `sandbox_onedelete` | 2 `Destroy` | violated: "only the first call hits the control plane" (`sandbox.go:193`) |
| `command_safety` | 2 handles, 2 waiters, 2 output streams, 2 data events | exactness of captures, callbacks and results, finality; the refinement of `StreamContract` by all handles at once |
| `command_live` | 2 handles, 1 waiter | `Wait` ends with the process or the cancellation |
| `command_finalresult` | 1 handle, 1 waiter | violated: `Wait` "returns the final result" (`process.go:167`) |
| `provision` | all arguments and faults, fairness | what a result of `CreateSandbox` and `ConnectSandbox` says of the sandbox and of its lifetime; that they return and are never stuck |
| `provision_orphan` | the same | violated: "install failures cause the sandbox to be destroyed" (`e2b.go:39`) |
| `watch` | 2 waiters, 2 event types, 3 messages, fairness | order, honest errors, stop; the refinement of `StreamContract` |
| `files` | 1 call, 1 `Destroy`, 2 paths, 2 edits | what a read or a listing returns was true; a request sent after a `Destroy` succeeded yields nothing, is the last one of its call and is reported |
| `requests` | 2 calls on a resource of each kind, fairness | errors and booleans are true, the books balance, calls return and can always give up |

The three violations are disagreements of a comment with the code; in each the
code's behaviour looks deliberate (a test expects the first) and the
comment is too strong.  The comment of `ErrSandboxDestroyed` (`errors.go:22-23`,
"any operation on a Sandbox whose Destroy has already been called") is too
strong in the same way: after a `Destroy` that failed operations are admitted
again.  What does hold is `RefusedAfterDestroy`: a method called after a
`Destroy` returned nil is refused.

### Bounds

* Calls.  Two `Destroy` calls give every relation of a leader to another caller
  (join, wake, give up, take over, come later); two `Connect` calls give records
  that replace each other and a `Connect` that meets a destruction at each of
  its points.  A caller that retries is another call.  The methods that make
  one request interact with the handle only through the check of the two flags,
  so that one of each kind is enough.
* `MaxEvents = 2` (`Command`): two events are enough for two chunks of the same
  or of different streams, and for a chunk before and after an attachment.  The
  end event is not counted.  `MaxEvents = 3` (`Watch`): events before and after
  a message of another kind.
* `Files`.  One call: calls share nothing but the handle.  Two paths, one of them
  deeper than 32 levels, two contents and `MaxEdits = 2`: a file that appears
  and disappears, or changes between the attempts, or moves from one path to the
  other, during the call.
* `Requests`.  Two calls: a change and its repetition, or a change and its
  opposite.  `RequestTimeouts` has zero and a negative value, which stand for the
  default, and a positive one.
* `Provision`.  `Second = 4`, `MaxDuration = 31`, `DefaultConnect = 20`: small
  enough to enumerate, and with all the cases of the arithmetic (no whole number
  of seconds, overflow of the rounding); `Timeouts` are the values around zero,
  around one second and up to the last that can be rounded.
* Every other variable is finite by itself.  The theorems lift the safety
  properties to any number of calls, handles, waiters, streams, events, paths,
  edits and durations.

### Fairness

* `Sandbox`: weak fairness of each call, no more: goroutines run, and a
  request comes back because `newAPIClient` always sets a timeout.  Nothing is
  assumed of the service or of contexts.  The number of calls is finite in the
  model: with an endless supply of new `Destroy` calls whose DELETEs all fail, a
  waiter could lose the race for the lock for ever, and the code does not
  prevent that.
* `Command`: weak fairness of the goroutine of each handle (callbacks return)
  and of waiters.  The process need not exit and connections need not break.
* `Provision`: weak fairness of the call; without network faults the control
  plane answers.  The installing process need not end.
* `Watch`: weak fairness of the goroutine and of waiters.
* `Requests`: weak fairness of `GiveUp` only: a client with a timeout, or a done
  context, ends a call.  Neither the network nor the services are fair.  The
  client for envd has no timeout, and so `CallsReturn` promises nothing there
  until the context is done.
* `Files`: none; the model states safety only.

## Proofs

TLAPS checks every theorem for all values of the constants; the only
assumptions are on the constants: `CallsAssumption` (the kinds of calls are
disjoint, and `NoCall` is not a call), `CommandAssumption` (the handle that
starts the process is not one that attaches; "other" and "end" are not output
streams; `MaxEvents` is a number), `WatchAssumption` (the same two facts),
`FaultsAssumption` and `TimeoutsAssumption` (which faults there are; timeouts are
durations), `ConfigAssumption` (a second and the default are positive and fit
the width), `FilesAssumption` (the special values are no contents, trees or
calls) and `RequestsAssumption` (finitely many calls; timeouts are integers).

`SandboxProofs`.  The properties are inductive only together with facts about
requests: `IInv` says in addition that an answer in flight and an outcome not
yet looked at tell the truth about the sandbox (`AnswersHonest`,
`OutcomesHonest`), that a waiting call holds the current channel or a closed one
(`WaitersKnowTheirChannel`), that a late call never gets past the check
(`LateCallsHeldBack`) and that an installed record is that of a `Connect` that
returned nil (`RecordInstalled`).  One lemma per part shows that every action
preserves it.  From `IInv` follow the safety properties, the action property
`ClosedIsFinal`, and the refinement: the owner of the contract is `destroyWait`,
and each action is mapped to a step of the contract or shown invisible.

Liveness of the handle, from `Fairness` and `[]NobodyIsStuck`: a call moves by its
own steps only (`OthersKeepOut`) and each of them takes it on (`OwnStepGoesOn`), so
that whoever has passed the check returns (`RequestsComeBack`) and with it every
call but a `Destroy` (`UserCallsReturn`).  A `Destroy` that leads closes its
channel on the way; `WaitersKnowTheirChannel` says that the one a waiter holds is
closed or such a leader's, and channels stay closed, so that no wait is for ever
(`WaitersAreWoken`) and a `Destroy` comes to return or to wait for the next one
(`DestroysGoOn`).  Once the handle is closed nobody leads any more: if any
`Destroy` ever succeeds, all calls return (`SuccessReleasesAll`).  What is left to
TLC of `CallsReturn` is the case in which every DELETE fails: then the waiters
take over one after the other, and that they come to an end is an induction over
the calls that have not returned.

`CommandProofs`.  Lemmas on windows of the log (`WindowSkips`,
`WindowExtends`, `CaptureStays`) carry `OutputIsWindow` through each event.
`IInv` adds that "end" is the last event of the log, where the cursor stands in
each phase, that a result equals the capture at the end of the log (after which
no data can arrive), that `done` is closed last and leaves a result or an error,
that callbacks are at most the chunk in hand behind, and that what a waiter was
told is what the handle says.  `SuccessIsComplete` combines four of them.

`Refinement` maps each handle to a stream of `StreamContract`: it was
sent the output that came after its attachment, took what its callbacks were
given, and its verdict is what `Wait` returns once `done` is closed.  One lemma
per kind of step (`Unseen`, `NothingTold`, `ChunkInHand`, `TakenIsWindowNext`)
says what it does to the streams of all handles; `OthersRest` lets each handle
move while the others rest, and `NewsForAll` that an event of the process comes
to all of them in one step.  The refinement needs `IInv`: that the taken events
are the first ones of the window is how `HandOver` is always due, and that the
capture is complete is why `Settle` may say success.

`ProvisionProofs`.  `IInv` relates the place of the call, the two requests and
the sandbox, and says what each result implies.  `LifetimeIsAsAsked` combines it
with the arithmetic of `ConfigProofs`.  `CreateComesToAnEnd` is liveness: `Rank`
says how far the call has come, a step of the call, or of the control plane when
an answer is awaited, raises it and nothing lowers it (`Onward`, `Leaves`), so
that under `Fairness` the call returns after at most eight ranks, provided that
`[]NeverStuck`.

`ConfigProofs`. For every width: rounding goes up, by less than a second, for
every duration that is at least a second minus a nanosecond below the largest
(`RoundsUp`); beyond that the sum wraps and the service is asked for no time or
a negative one (`OverflowAsksForNothing`, which is why the lifetime property
excludes these durations); a connection without a timeout asks for the default;
versions that parse are totally ordered (`VersionsAreOrdered`), and the versions that get the legacy
user are closed downwards. A version that does not parse compares as older in
both directions.

`WatchProofs`.  `IInv` says that the message in hand is the one at the cursor,
that why the loop ended is still visible in the world (`CauseInv`: the context's
first cause, the broken stream, or the end of the log), that `err` is what
`WatchError` makes of it before `done` is closed, and that waiters were told
`err`.  `EventsInOrder` is inductive with it; the other properties follow.
`Refinement` maps the watch to one stream of `StreamContract`, which its
user abandons by a cancellation: `Stop` and a done context may then end it with
nil although events are left.  `CancelledForGood`, that the first cause of the
context stays, is what the contract asks of an abandoned stream.

`FilesProofs`.  Per call, `IInv` says that the current tree is among those seen
while the call runs, that what a walk has found and still has to visit was
there, that a file there throughout is found, still to be visited or the reason
for an error (`Walked`), and that `ErrFileNotFound` has a cause, whichever of the
attempts met it (`Blamed`).  The last is kept when errors are joined, and the
reason why forgetting the first error is sound is `Answered`.  For
`LateRequestsAreInVain`, `Sent` says that a request is that of an attempt which was
let in, that a late one means a closed handle, and that nothing follows it;
closed means gone, so that no attempt can succeed any more.  `UsesTheHandle`
shows that the module composes with the contract of the handle as
it stands: every step of the readers, of their edits and of the destroyers
is a step of `SandboxContract` or leaves the handle alone.

`RequestsProofs`.  `Interpretation`, proved from lemmas about the operators of
`ControlPlane`, says what each method may conclude from each answer.  Per call,
`IInv` follows a request from what it found (`HonestInv`) to what its call says
(`TrueInv`, `ResultInv`).  `ReportsBalance` is about what calls returned, and is
not inductive: calls that returned without an answer may still be served.
`BooksInv` states the balance of the requests that were served, which only
`Serve` changes; the calls that report a change are among the ones that
certainly made it, and those that possibly did are among the ones counted as
possible, so that the cardinalities compare.

`CallsComeToAnEnd` is liveness: a limited call stays
limited until it returns, since a context that is done stays done, and `GiveUp`
ends it; so weak fairness of `GiveUp` is enough, provided that
`[]LimitedCanGiveUp`.

`ContractProofs`.  What the contracts give, for all who implement them.  Of
a handle (`SandboxPromise`, `SandboxForever`): a `Destroy` reports success only
of a sandbox that is gone; the record in use is that of a `Connect` that was
told so; success is never undone, and nothing is let in while a destruction is
owned or after it.  Of a stream (`StreamPromise`, `AnswersAgree`, `StreamFinal`):
what was handed over are the first events sent; all answers are one verdict;
success without abandoning means that nothing is missing, then and later, because
a stream that has ended is sent no more; nothing changes after the verdict.  Their
hypotheses are about names only: the kinds of callers are disjoint (`Roles`), and
"pending" is no verdict and success no failure (`Names`).  That no handle is
without a result (`NeverWithoutResult`), that all waiters get the same answer, that
nil without a cancellation is complete and that `onEvent` is quiet after `Wait`
are parts of the refinements, which the runs check; they are proved from `IInv`
as theorems of their own as well (`ResultOrError`, `AnswersAgree`, `NilIsWhole`,
`QuietAfterWait`).

### What is only model-checked

* ENABLED.  `NobodyIsStuck`, `NeverStuck` and `LimitedCanGiveUp` say that an
  action is possible; they are invariants of the runs `sandbox_contract`,
  `provision` and `requests`, and hypotheses of the liveness theorems of
  `SandboxProofs`, `ProvisionProofs` and `RequestsProofs`.  Nothing else is assumed
  there: the rest of those arguments is proved.  The run of `NobodyIsStuck` has
  no `Pause` and no query: they take the steps of a `Connect` up to its
  second section, and return from there unconditionally.
* Liveness by induction over data: `CallsReturn` of `Sandbox` when no `Destroy`
  succeeds (over the calls that have not returned, since each may fail and hand
  the DELETE on to another),
  `WaitEndsWithProcess` and `StopEndsWait` (over the messages still in the log).
* The refinements are proved for safety, which is all the contracts state.

## Not modelled

* The listings (of sandboxes, snapshots, volumes, processes): one request each,
  whose result and continuation token are passed on.  The client keeps no state
  between pages and promises nothing about them.
* `CreateVolume` and `UpdateMetadata`, which relate to no earlier state of the
  client; `Rename`, which relates two paths; `Sandbox.WriteFile`, a multipart
  upload; `Client.GetSandboxInfo` without a handle; the options of writes.
* Wire types, conversions, URLs and headers: data.
* Text.  Surrounding blanks of a path (the fallback trims it, the HTTP request
  does not) and lines of `find` that do not parse; an empty prefix, which means
  `/workspace` in the fallback only; blank volume IDs, which are not checked.
* The leak of stream contexts that nobody cancels; processes that envd started
  although `StartCommand` failed (the state is there, no property is about it);
  callbacks that wait for their own handle, which block by construction.

Known limits of what the properties say: `Files` takes the content of a file for
one value that is read in one step, so that `ReadsAreTrue` does not cover the torn
content of a file that is rewritten in place while envd or `cat` reads it; the shell fallback of a listing has no
bound of 32 levels, so that it may list more than the RPC would; it may report
`ErrFileNotFound` for a directory that is there when an entry vanishes while
`find` runs, which `ListingsAreTrue` allows for; `KillProcess` may return true
twice, because a signal takes effect later, which is why `ReportsBalance` leaves
processes out; a deletion's success is taken to be 204, as the code does.

## Plan

1. Done: `ControlPlane`, `Sandbox` with its contract, `Command`, `Provision`,
   `Watch`, and their proofs.
2. Done: `Config` with its theorems, and `ConnectSandbox` with lifetimes in
   `Provision`.
3. Done: `Files` over the contract of the handle, and its proofs.
4. Done: `Requests` for volumes, their content, snapshots, paths and processes,
   and its proofs.
5. Done: `StreamContract`, refined by `Command` and `Watch`; what the contracts
   imply; `Files` shown to use the handle as its contract says; the liveness of
   `Provision` and `Requests`, and that of `Sandbox` up to an induction, reduced
   to ENABLED.
6. Left: `Rename` (two paths in one operation), `CreateVolume` whose answer is
   lost (a volume nobody knows), `WriteFile` and its encoding.
