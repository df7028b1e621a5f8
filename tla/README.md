# Unified Figma runtime in TLA+

A specification of the runtime that carries an LLM client's commands to a Figma
plugin and its answers back: the MCP server, the tool `unified_execute`, the
execution planner, the command queue, the WebSocket bridge, the connections, the
plugin's dispatch and its handlers over a small Figma file, and the legacy
backends, with TLC runs on small instances and TLAPS proofs for every value of the
constants.

Paths below are relative to the repository. The implementation is `src/**/*.js`,
`figma-plugin/code.js` and `figma-plugin/ui.html`.

## 1. The system

    MCP client --stdio--> SimpleMcpServer --> UnifiedRuntimeService
                               |                    |
                     legacy adapters, each          |
                     with a child process           |
                                                    |
              ExecutionPlanner --> CommandRouter.execute()
                                                    |  enqueue(() => bridge.execute(..))
                                              CommandQueue        one lane, bounded FIFO
                                                    |
                                           UnifiedRuntimeBridge   pending table, timers
                                                    |  WebSocket, port 39417
                                     ui.html (one per plugin window)
                                                    |  postMessage
                                     code.js: handleCommand, one async handler
                                              per command, not serialised

The coordinator is one Node process, so a handler runs to its next `await`
without interruption. The plugin windows are other processes. Nothing is
persisted; a restart of either side begins from its initial state.

### Components

| Component | State it keeps | Operations | What makes it correct | Modelled in |
|---|---|---|---|---|
| `runtime/commandQueue.js` | `items`, `active`, a wait timer per item | `enqueue`, `#drain`, the timer | bounded, no call lost or answered twice, served in order, never idle with work, no unbounded wait | `CommandQueue`, `SerialLane` |
| `runtime/unifiedBridge.js` | `wss`, `startPromise`, `socket`, `connectionGeneration`, `pending`, `recentTimeouts`, `orphanResponseCount` | `start`, `execute`, `close`, connection / message / close events, command timers | requests matched to their own answers, a timer per request and no more, one paired connection, a disconnect reported only when it is one | `UnifiedBridge` |
| the `ws` package and the browser's WebSocket | messages in flight, two `readyState`s | delivery, breaks, closing handshake | external | `Wire` |
| `figma-plugin/ui.html` | `ws`, `reconnectTimer` | connect and reconnect, relay in both directions | a response is sent on whatever connection is open by then, or dropped | `PluginUi` |
| `figma-plugin/code.js`, dispatch | handlers under way | `onmessage`, `handleCommand`, `validateEnvelope` | each command handled at most once, each ending an answer | `PluginUi`, `PluginCalls` |
| `runtime/commandRouter.js` | none of its own | `execute` | the answer and its operation record say what is known of the command; what throws was not sent | `UnifiedExecute` (up to the queue), `Runtime` (from `enqueue` on), `ExecutionPlanner` (what a plan sees of it) |
| `runtime/reconciliation.js` | none | `recommendReconciliation` | advice that is safe to follow | `Reconciliation`, `Runtime` (which errors are ambiguous) |
| `runtime/service.js`, `server.js`, `index.js` | the wiring | `status`, `executePlan`, tools | the bridge starts on the first `status` or `execute`; an invalid plan starts nothing | `Runtime`, `UnifiedBridge!Status`, `ExecutionPlanner!Call` |
| `planning/executionPlanner.js` | a plan, the results of a run | `buildPlan`, `preflightPlan`, `executePlan`, `resumePlan` | a step runs only after its dependencies succeeded, no step that succeeded runs again, the report tells what ran | `PlanGraph`, `ExecutionPlanner`, `PlanProgress` |
| `runtime/compoundCapabilities.js` | none | `runDiff`, `runVerify`, `runMeasure` | an answer is about the nodes that are there | `UnifiedExecute` |
| `figma-plugin/code.js`, handlers | the document, style caches, loaded fonts | 24 operations | an ok means it was applied, an error that nothing was; an `operationKey` or a sync makes a retry harmless; lookups find what is there; content is not lost | `FigmaDocument`, `PluginCalls`, `PluginHandlers`, `PluginStyles`, `DesignApply`, `PluginVariables`, `Plugin` |
| `runtime/limits.js` | none | `checkPayloadShape` | agrees with a recursive definition of depth and size | `PayloadShape`, `PayloadTrees` |
| `mcp/server.js` | a line buffer | `#pump`, `#handle` | each request answered once, wherever the chunks end | `McpServer` |
| `adapters/*`, `mcp/stdioClient.js` | child process, `clientPromise`, pending table | `getClient`, `close`, `request` | every call ends, and no child process is forgotten | `StdioClient`, `LegacyBackend` |
| `registry.js`, `coordinator.js` | none | `statuses`, `probeBackend`, `determineActiveBackend` | a failing backend spoils no other | `LegacyBackend`, `McpServer` (not `determineActiveBackend`) |
| `capabilities.js`, `protocol.js`, `protocolAdapters/*` | static tables | the registry, schemas, `toEnvelope` | every capability can be sent and handled, and has a retry-safety class | `CapabilityTable`, `UnifiedExecute` (schemas as a yes or no) |
| `errors.js`, `config.js`, `logger.js`, `utils.js` | none | formatting, I/O | - | not modelled |

### What is hard here

* A command can time out, be disconnected, or be superseded while the plugin
  carries it out. The caller's view and the document's then differ, and the
  retry advice rests on the caller's view.
* Timers race the events they guard: the wait timer races the lane becoming
  free, the command timer races the response.
* `execute()` reads `this.socket` after `await this.start()`.
* Two plugin windows supersede each other; the old connection's close event and
  late messages arrive when the new one is already paired.
* The queue runs one command at a time, the plugin does not: once a command has
  timed out the next one is sent while the first handler may still run.
* A plan can fail, pause or be thrown out of at any step, and be resumed from a
  record of what an earlier run believed, while another run of it is under way.
* Inside the plugin two handlers change one file between each other's awaits, and
  so does its user: handles and lists grow old, a lookup and the change that rests
  on it are apart, and a handler may fail when half of its work is in the file.
* The legacy adapters share one promise for a client that is being connected, and
  close whichever client is current.

`PROJECT.json` lists these and others line by line under `hazards`.

## 2. Modules

| Module | What it is |
|---|---|
| `Requests` | the constant `Calls`: one call of `execute()`, its request id and its envelope |
| `SerialLane` | abstract: a lane that admits, starts in ticket order and concludes calls, never idle with work |
| `CommandQueue` | `commandQueue.js`; implements `SerialLane` (`ImplementsLane`) |
| `Wire` | the WebSocket connections, both ends' states and the messages in flight |
| `UnifiedBridge` | `unifiedBridge.js`, over `Wire` |
| `PluginUi` | `ui.html` and the dispatch of `code.js`, over `Wire` |
| `RemoteCommand` | abstract: what a caller may conclude from the answer to a remote command |
| `Runtime` | the composition, the router's view of an answer, the properties; implements `RemoteCommand` |
| `PlanGraph` | `preflightPlan` and `topologicalOrder`, as recursive functions, and what they are for: `Executable`, `IsRunningOrder` |
| `PlanProgress` | abstract: which steps a run may attempt, given what it knows |
| `ExecutionPlanner` | `executionPlanner.js` and the service's `executePlan`, over calls that answer as `RemoteCommand`; implements `PlanProgress` |
| `CapabilityTable` | `capabilities.js`: families, operations, mutation, retry-safety classes |
| `Reconciliation` | `reconciliation.js`, for commands as the plugin gets them |
| `FigmaDocument` | the node tree: what Figma's calls do to it and when they throw |
| `PluginCalls` | commands inside the plugin: dispatch, turns, the awaits the handlers share |
| `PluginHandlers` | node, group, component, instance, text and read handlers |
| `PluginStyles` | styles, their caches, and lookups by name |
| `DesignApply` | `handleApplyPlan`, build and sync |
| `PluginVariables` | variable collections and bindings |
| `Plugin` | the handlers together, beside a user in the same file; the properties |
| `ToolCalls` | the requests of MCP tool calls |
| `PayloadShape` | `checkPayloadShape`, as a recursive function |
| `PayloadTrees` | the recursive definition of size and depth it is compared with, and all small payloads; for TLC only |
| `UnifiedExecute` | the tool `unified_execute`: `CommandRouter.execute()` up to the queue, compound capabilities |
| `StdioClient` | `stdioClient.js`: the pending table and the child process |
| `LegacyBackend` | `adapters/custom.js` and `plumb.js`: the shared client, status and probe |
| `McpServer` | `mcp/server.js`, over `LegacyBackend` and `UnifiedExecute` |
| `RecursiveFunctions` | lemmas: least elements, and recursion over a well-founded relation, stated with sets |
| `DocumentProofs` | what each call of the plugin API does to the node tree, for trees of any shape |
| `CommandQueueProofs`, `RuntimeProofs`, `PlanGraphProofs`, `ExecutionPlannerProofs`, `PluginProofs`, `McpServerProofs` | the theorems |
| `MCCommandQueue`, `MCRuntime`, `MCPlanner`, `MCPlugin`, `MCMcpServer` | instances for TLC |

Three compositions cover the path of a command. `McpServer` goes from the client to
`enqueue()`, where a command comes back with any answer; `Runtime` from `enqueue()`
to the plugin's door and back; `Plugin` has what lies behind the door. They meet at
two interfaces: the answer of `enqueue()`, and commands that are handled at most
once but may overlap, because the coordinator gives up on one that the plugin is
still working at. `ExecutionPlanner` stands on `RemoteCommand`, which `Runtime`
implements.

### Correspondence

Queue. `items`, `active` and `promise` are the queue's fields and the promises
`enqueue()` returned. `armed` is the set of wait timers set and not cleared,
`queuedAt` is `trace.queuedAt` as a logical clock. `Enqueue` and `Finish` include
the call of `#drain()` they end with (`Drain`). All wait timers have the same
duration and Node fires those in the order they were set, hence `OldestTimer`;
the proofs need it. Assigning to `promise[c]` stands for settling a promise. The
model would overwrite where JavaScript would ignore the second settlement, which
makes `AnsweredOnce` a real demand.

Bridge. `execute()` is two steps, `Execute` up to `await this.start()` and
`ResumeSends` / `ResumeFails` after it; `launching` holds the calls in between.
`wss` stands for `this.wss` and `this.startPromise` together. `failed` is the
state in which `startPromise` stays rejected; no step leaves it, as in the code.
Connections are numbered by the generation they were given, so
`sentGeneration[c]` names the connection `c` was sent on. `reply[c]` is how
`execute()`'s promise settled. `"response"` covers responses with `ok: false`
and those `validateResponseEnvelope` rejects: in each case the plugin's handler
had ended. `Close` is `close()` of a started bridge up to the await of
`wss.close()`, `CloseEnds` what follows it; in the program it runs when the
process exits, in the tests at any time.

Atomicity. In Node a promise's reactions run before the next timer or socket
event. `FollowUpDue` says some are due; `WaitExpires`, `CommandExpires`,
`StartSettles`, `BridgeEvent` and `PluginConnects` wait for them. Whatever
`#drain()` does between `item.job(..)` and the `await` in `execute()` is one step
with it (`RunJob`).

Wire. Each connection is two FIFO sequences. It may break at any moment
(`Break`): what had not arrived is lost, and what did arrive is followed by the
end of the connection. A closing handshake travels behind the messages already
sent, and the server still delivers messages on a closing socket. A connection
that is dead without either end noticing is covered by a plugin that never
reads and never answers.

Plugin. `Connect` includes the reconnect timer: nothing happens in `ui.html`
between a close and the reconnect, so only the order matters. A refused
connection attempt changes nothing and is left out. `executing[p]` is the set of
handlers under way in window `p`; `HandlerEnds` sends the response on the
connection open at that moment, as `window.onmessage` does, or drops it.
`PluginQuits` kills the handlers of a window (the model need not say what an
idle window does when it is closed: that is a lost connection). `ran` is a
history variable: what became of each command in Figma.

Planner. One action per way an iteration of the loop can go: `Skip`,
`MarkPaused`, `MarkBlocked`, `DryRun`, `Throws`, and `Send` with `Settle` before
and after the `await`. `Call` is the service's `executePlan` up to the loop,
preflight included; `results[r][s]` is the status run `r` recorded for `s`,
`todo[r]` the rest of `order`. The iterations between two awaits are one step of
Node and several of the model; the finer interleaving is harmless, since runs
share nothing but the results of runs that have returned. `<<r, s>>` is the call
of `router.execute()` that run `r` makes for step `s`. It is answered as
`RemoteCommand` says, which is what `Runtime` implements; an answer of the plugin
may still say `ok: false`. A step with several reads (a compound capability)
counts as one command. A throw may come at any step that is about to be sent;
nothing ties it to the payload, so a step may throw in one run and not in
another. `Restart` ends the process in the middle of a plan. `previousRun` is a
run of the same plan that has returned, as its documentation requires; the code
does not check it. The branch for a capability that did not resolve is
unreachable behind the service's preflight and has no action.

Plugin. The sandbox has one thread and asynchronous handlers. A call whose `pc` is
an await is in the hands of Figma; once its answer is there the call takes the
`turn` and keeps it to its next await. Code between two awaits is therefore atomic
although it is several steps of the model. `doc` is the node tree (type, parent,
children, plugin key, operation key, style), `page` the page on show, `library` the
local styles, the two caches and the loaded fonts. `by` names the call that made a
node or style, and is history, as are `after` (the calls that were over when this
one began), `here` (what the others made is on the one page this one looks at: its
plan's, or the one on show) and `before`. `FigmaDocument` says of each call of the plugin API
when it throws and what it changes; that part is external. It includes what bites:
a group left empty goes away, a removed handle throws, the children of an
instance cannot be rearranged, new nodes appear at the end of the page on show.
`Wrap` may also be refused for reasons outside the model. The actions follow the
handlers; those that share their first steps (nodes by id, a style by name, a font)
share `NodeAnswered`, `FindStyle`, `ListAnswered`, `FontAnswered`.

Assumed there: an await on a value that is already at hand lets nothing in between;
`figma.loadAllPagesAsync` is merged with the start of the read, and the batches of
one read with each other; a fill style of a boolean op is left out; effect and grid
styles behave as paint styles do, and the operations that both families name alike
are one. Attributes are not modelled, so `ErrorsChangeNothing` speaks of the tree,
the styles of nodes and the library, and says nothing of a patch of which half the
fields were set. A text range sets one field at a time.

Server. A session is a sequence of messages; `stdin` is its text in pieces, a piece
per line end and one per line, and `ReadChunk` takes any number of them. `Lines` states
what the loop of `#pump()` comes to, by where the line ends are; it yields a set,
because the messages of one chunk are worked on beside one another. `handled` are requests without a reply. A job is a tool call on one backend, `due` what the
promise it awaits was settled with; as in `Runtime`, promise reactions (`Reacts`)
come before the next event. `clients[k]` is a `StdioMcpClient` with its child.
`connect()` is the waiter `Connecting` of the initialize request. `withTimeout()`
puts a second timer of the same length around a request and is one with it. A
child may answer late, wrongly, never, or end. Three things end the coordinator
(`down`): a line on `stdin` that is not JSON, such a line from a child, and, as the
system decides, a write to a child that has ended, of a request or of the notification
behind `connect()`. The adapters' `close()` is two steps: `CloseAdapter` tells the client
to end, and `Closed`, behind the await, forgets whatever client is there by then. The
adapters share nothing and are alike; the instance has one.

`UnifiedExecute` reduces a payload to what `execute()` decides by: its nesting
(`shape`), whether the schema accepts it, whether a design compiles, a dry run, and
the nodes a compound capability reads. `refusal` has the checks in the order of the
code. `lost` are the nodes whose last read failed on the way, so that verify and
measure take them for missing.

Left out: `pluginVersion` and `pluginProtocolVersion` (set by `hello`, read by
`status()` only); the coordinator's check of a response's envelope, which the plugin's
responses pass (`code.js` builds each with the protocol's version, the request's id
and a boolean `ok`: 1721, 1735), so that `JobSettles` has each resolve; the legacy `request()`, which nothing
calls; telemetry.

## 3. Runs

| Run | Module | Instance | What it shows |
|---|---|---|---|
| `queue` | `MCCommandQueue` | 4 calls, queue of 2 | invariants of the queue, `AnsweredOnce`, `ImplementsLane`, `WaitIsBounded` |
| `runtime` | `MCRuntime` | 3 calls, queue of 1, 2 windows, 2 connections, 1 remembered timeout | consistency of bridge, timers and pairing; `ImplementsRemoteCommand` |
| `runtime_live` | `MCRuntime` | 2 calls, otherwise the same | `EveryCallAnswered` |
| `never_reached` | `MCRuntime` | 2 calls | violated: `NeverReachedMeansUnsent` |
| `unambiguous` | `MCRuntime` | 2 calls | violated: `UnambiguousMeansKnown` |
| `stranded` | `MCRuntime` | 2 calls | violated: `PendingOnLiveConnection` |
| `planner` | `MCPlanner` | all plans of 3 steps with up to 2 ids each, known or not; of these, 2 plans in 2 runs with 1 checkpoint | preflight is exact, the order is a running order, what runs send and report, `ImplementsPlanProgress` |
| `planner_live` | `MCPlanner` | a plan of 2 steps, 2 runs | `EveryRunEnds` |
| `planner_payload` | `MCPlanner` | as `planner_live` | violated: `PayloadErrorsComeFirst` |
| `plugin` | `MCPlugin` | 2 of 60 commands, 12 nodes on 2 pages, 1 act of the user | the handlers alone, overlapping, and one after the other: `OkMeansApplied`, `ErrorsChangeNothing`, `RepeatChangesNothing`, `AdvisedRetryAddsNothing`, `LookupsMissNothing`, `CacheIsTrue`, `ContentSurvives` |
| `retry_overlap` | `MCPlugin` | the same | violated: `SafeRetryNeverDuplicates` |
| `mcp` | `MCMcpServer` | sessions of 2 or 3 messages, 1 backend, 3 clients, 1 change of the file | `EveryRequestReplied`, `ProcessesAreOwned`, `ExecuteTellsTruth` |

Bounds. Four calls over a lane and a queue of two let the lane be busy, the
queue fill, one call be refused, and calls arrive again after others have ended.
In the composed model three calls are one on the lane, one waiting and one
refused; while the lane's call times out and its handler still runs, the next
call is sent beside it. Two connections are a supersession by the other window,
or a reconnect of the same one; a third repeats the second.
`RecentCap = 1` makes eviction from `recentTimeouts` happen at the second
timeout. `MaxConns` is the only bound without a counterpart in the code; the
proofs hold for every value of it. Calls and windows are symmetric in the
`runtime` run; no liveness is checked under symmetry.

Three steps are the least in which a step has a dependency that has one itself,
two share a dependency, or a cycle has a step outside. `planner` goes through
all 18522 such plans (with repeated, unknown and own ids). For the runs two are
enough: `Chain`, listed backwards, passes failures and pauses down a path, and
`Fork` has an independent branch for `stopOnFailure`, a dry run and a checkpoint
shared by two steps. Two runs are one that fails or pauses and one that resumes
it, or two that overlap; the proofs cover longer chains of resumed runs. Runs are
symmetric in `planner`, not in the others.

The commands of `MCPlugin` are chosen so that each handler meets every way it can
end, and so that pairs of them meet on the same nodes: two plans that share keys, one
of them on another page, group and set under one operation key, styles of one name,
moves into each other's subtree. Two commands are what overlaps in the program (the
queue sends the next one only after a timeout), and the least for a retry. One act of
the user may fall between any two awaits; he deletes one of three nodes that commands
use, shows the other page, or makes or removes a style. More acts add no new kind of
staleness: each await is followed by the same checks. Calls are symmetric, and no
liveness is checked there.

In `mcp`, text is cut at every position. Three requests let a second status call share
a client that is being connected and a third come after a close; three clients are one
that fails, one that is lost and one that serves. Payloads of up to seven objects
(`ShapeIsExact`, evaluated by TLC before the run) go past both bounds of the shape
check, which are 2 and 4 there. `TableIsComplete` and `HandlersMatchTable` are
evaluated in the same way: every capability of the table can be sent, has a
retry-safety class if it mutates, and has a handler in the plugin, which has no
others.

Deadlock is not checked where each call is made once and a behaviour ends; in `plugin`
and `mcp` it is, with a step `Rest` that is possible only when everything is answered.

Fairness. `QueueFairSpec` assumes only that wait timers fire. `FairSpec` assumes
of the coordinator that promise reactions run, timers fire and the import of
`ws` settles: all are the event loop's own doing. Nothing is assumed of callers,
of the network, or of the plugin, which may hang for ever. The timers are fair
one by one although a step that is due holds them back, because due steps are
fair themselves and finitely many. `ExecutionPlanner!FairSpec` assumes that the
loop goes on and that every call of `execute()` is answered; the first is the
event loop, the second is `EveryCallAnswered` of `Runtime`. `McpServer!Spec` assumes
that Node reads what there is to read, runs promise reactions and fires its timers, and
that `enqueue()` answers. Of the backends it assumes nothing: they may hang for ever.

## 4. What is proved

For every set of calls and windows, every capacity, every number of connections
and every cap on remembered timeouts, every set of plans, runs and checkpoints. The assumptions are those the modules
name: capacities and bounds are natural numbers, and `NoCall` is not a call.

`CommandQueueProofs`. `QueueInv` is inductive. Beyond the properties it carries
the clock facts that make `ServedInOrder` inductive: waiting calls have
increasing tickets above the ticket served last, and none is above `now`. With
one timer per waiting call (`TimersMatchItems`) and the order of timers, the
timer that fires is that of the head of the queue, so the splice is a `Tail`
(`WaitTimerDropsHead`). From the invariant follow
`QueueTypes`, `TimersBoundWaits`, `LaneNeverIdles`, `NoCallIsLost`,
`FirstComeFirstServed`, `BoundedAndWorkConserving`, `OneAnswerPerCall` and the
refinement `QueueImplementsLane`.

`RuntimeProofs`. `SharedInv` is the coordinator's invariant with the types of
connections and plugin. `PendingIsActive` and `TimerIffPending` are not inductive
alone: that no second request is sent needs the queue's invariant and
`LaneServed` (the lane's call is launching or pending exactly while it has no
reply), and that its reply is still open needs `FreshCalls` (a call that has not
started left no trace in the bridge). `PairingConsistent` needs `ServerStates`: a
closing server keeps neither an open connection nor a request.

In the second half of the module `DeliveryInv` links what the coordinator knows to what
the plugin did, through the messages in flight: a command is in flight on the
connection it was sent on, once, and has not run (`CommandsInFlight`); a running
handler belongs to one window (`HandlersRun`); a response in flight is the only
one and its command is done and not counted as an orphan (`ResponsesInFlight`);
an answer "ok" was earned (`AnswersAreEarned`). The lemmas `FewerCommands` and
`FewerResponses` treat all the ways messages disappear at once, so only the three
steps that add a message or start a handler need an argument of their own. It
yields `UnsentNeverRuns`, `OrphansAreCountedOnce`, `DisconnectsAreReal` and the
main theorem, `RuntimeImplementsRemoteCommand`: a command runs at most once, "ok"
means it was carried out, a rejection of a command that was not sent means it
never will be; after any other rejection it may run still.

`RecursiveFunctions` and `PlanGraphProofs`. `preflightPlan()` and
`topologicalOrder()` walk a graph, and the model defines them as recursive functions.
The library's induction theorems take an operator and cannot be cited here, so
induction is done with sets: `LeastNumber` (a set of numbers that is not empty has a
least element), `LeastSize` (a family of finite sets has a smallest one), and
`RecursionTheorem`: a definition that looks only below its argument, by a relation in
which every nonempty set has a minimal element, has a solution, and `CHOOSE` finds it.
The relations are the calls that `visit()` makes: for the rest of a list, and for
what a step depends on. `OrderGrounded` shows that it ends on a plan without a cycle,
`CycleGrounded` that it ends on every plan, because `visiting` grows. On these, `OrderOfAcyclicPlan` shows by a least counterexample that
`topologicalOrder()` returns a running order of every plan without a cycle,
`CycleFound` that the search reports a cycle exactly when there is one, and
`PreflightExact` that preflight accepts exactly the plans that can be run at all:
some order of the steps has every dependency before its dependents.

`ExecutionPlannerProofs`. `PlannerInv` carries, beyond the properties, the order
of what is left (`RestInOrder`: every dependency of a step in `todo` is recorded
or stands before it), that the only call without a record is the current step's
(`SentInTurn`), what each record says of the calls (`RecordsAreTrue`) and what the
flags say of the records (`FlagsAreTrue`, from which a run is never both halted
and paused). `AnswersAreEarned` is what is needed of `RemoteCommand`: an answer
"ok" means the effect is there. That a run starts on a running order comes from
`PlanGraphProofs` (`OrdersRun`, `OnlyExecutablePlansRun`), so nothing is assumed of
the two walks. The main theorem is `PlannerImplementsProgress`:
whatever fails, pauses, throws or is resumed, a run attempts a step once, on
dependencies known to have succeeded, and never one known to have succeeded.

`PluginProofs`. Most steps of the plugin are `Plain`: they leave styles and caches
alone and go on from a place the handler may be in; one lemma per handler says so. They are also `Careful`: but for the
commands in `Slow`, which have several changes to make, a step changes the file only
when it ends its command. So in `CallsInv` a command that runs alone has left the file
as it found it, unless it is slow, and the action property `ErrorsLeaveNoTrace` follows.
`StylesInv` is about lookups by name: a list under way misses only styles that an
overlapping call or the user has made (`MissesOthersOnly`), and a list, cached or not,
holds styles of its kind, none of them deleted by a command unless that command
overlapped another (`TrueList`). It is inductive because calls that have overlapped stay so
(`OverlapsStay`). From it
follow `CachesTrue` and `LookupsComplete`, for any number of calls, styles and acts of
the user.

`DocumentProofs`. `IsForest` speaks of ancestors, which a recursive function computes,
and no step keeps it by an argument from node to node. `IsTree` says the same locally:
each node hangs where its parent lists it, once, and no set of nodes has all its parents
in itself, which is what "no cycle" comes to without a rank. `TreeIsForest` gets the
first from the second, by `RecursionTheorem` of `RecursiveFunctions`; from it too come
the equations of `Ancestors` that the other lemmas use. `IsDocument` adds that no group
is without content, since Figma removes such a group with its last child (`Sweep`):
were there one, any step would remove it. For `Add`, `RemoveNode`, `InsertChild` and
`Wrap`, and for the insertions one after the other by which a group is dissolved
(`EmptyingSpares`, over a recursive function again), it is shown that they turn a document into a document and lose
no node but groups and what they are meant to remove (`Spares`), and that they leave the
plan keys where they are (`Tags`).

On these, `PluginProofs` has `DocInv`: the file is a document, the page on show is one
of its pages, and a plan that is at its ops stays within them (`PlanInv`, without which
nothing is known of the type of a node it makes). `Tends` is what every step of a
command does to the file: it stays a document, no page goes, and content goes only if
the command deletes or, in a sync, is the emptied boolean it makes anew. From it follow
`PluginTyped` (`PluginTypeOK`) and the action property `ContentStays` (`ContentSurvives`).

The last result is `OkIsApplied` (`OkMeansApplied`): a design command that answers ok has
its plan in the file. A handler of several passes over its ops, with awaits in the first,
needs an invariant of its own, `BuildInv`, which the steps of other calls and of the user
keep (`TagStays`) and every step of the plan does (`Onward`):

* `Progress`: every op up to the place in the passes has an entry in `nodesByKey`, and no
  boolean before its turn.
* `Tagged`: the handles in `existing` and `nodesByKey` are of nodes that carry the op's
  key or are gone, however long ago they were taken. So two ops have two nodes
  (`OpsApart`), and none is a group, which Figma might remove with its last child: for
  that the handlers must never key a group (`NoKeyedGroups`).
* `Applied`, once the booleans are built: the call keeps the turn to its answer, each
  boolean behind the position holds the nodes of its ops, and each op placed so far is
  under its parent's node. It is here that `IsPlanTree` is needed: a later op must not
  move an earlier one again.

`PruningSparesPlan` shows that what a sync removes at the end, with everything below it,
holds no node of the plan: a node of the plan hangs under nodes of the plan up to the
target page, and none of those is pruned.

`McpServerProofs`. For the backends `LegacyInv` says what an adapter holds: `client` is
a client that connected, `clientPromise` one that is connecting or failed to, and
unless the adapter was closed while it was connecting, no other client of it is
connecting (`OneConnects`); `getClient()` makes a client only when it holds neither, so
every process that is up and not killed is held, failed, or of such an adapter
(`Owned`). A `close()` that forgets a client behind its await needs `JobsInv`: the job
goes on before any event, and until it does its adapter's client is none or one that was told
to end, which no other job's step undoes (`Harmless`, `StepsKeepHarmless`). That is
`NoProcessForgotten`. For `unified_execute`, `RunsOK` says of a run that no change of
the file has disturbed that the nodes it has read so far are exactly those that were
asked for, are there, and were not lost on the way (`Gathered`), and that what it told
the caller is so (`Told`). It needs `SessionOK`: what is in the buffer and in
`stdin` are pieces of messages of this session, however the chunks cut them, which is
an induction over the concatenation (`FlatteningKeepsElements`). The result is
`ExecutionTellsTruth`.

Assumed of the constants, each by name in the module that declares them: bounds and
capacities are natural numbers; `NoCall`, `NoRun`, `NoStep`, `None` and the like are
none of the values they stand beside; what the schemas guarantee of inputs (a plan's
steps, a session's arguments and a command's fields are sequences and sets of the
right things: `PlanAssumption`, `SessionsAssumption`, `CommandAssumption`,
`StyleAssumption`). Of these, `CommandAssumption` has indices not below 0
(`capabilities.js:116`, `130`) and compiled plans with at least one op, of types that
`createFigmaNode()` knows: the compiler is a package of its own, and a design has a
root. A plan's ops are a list with distinct ids, each op under another or at the root
(`IsPlanTree`), since the compiler flattens a tree and refuses an id twice (`custom.js:7`), and
`instance.swap` names two nodes. `FileAssumption` says that the file the plugin finds is
one Figma can hold, and that no group in it has a plan key, which nothing in `code.js`
writes on one. `AnswerAssumption` and `DueAssumption` keep `None` apart from "ok", and
`CapabilitiesAssumption` says that the compound capabilities are diff, verify and measure.
TLC evaluates all of them on the instances.

Only model-checked: the liveness properties `WaitIsBounded`, `EveryCallAnswered`,
`EveryRunEnds` and `EveryRequestReplied` (fairness and `ENABLED` are beyond the
prover); that `checkPayloadShape()` agrees with the recursive definition in
`PayloadTrees` (a module with `RECURSIVE` operators cannot be proved about); and two
properties of the plugin about a command sent again, `AdvisedRetryAddsNothing` and
`RepeatChangesNothing`. These two speak of two commands and hold when no third comes
between, as in the instance, where there are two calls. With a third they do not: it may
move what the first attempt made out of the page that a sync goes to, or undo what the
first command did.
They also rest on what authors choose: two commands under one `operationKey` that make
different types, or two pages with a plan's target name, give two results. Stated for
every value of the constants they would need all of that as hypotheses, and TLC checks
the case the advice is about.

## 5. Where the code and its documentation part

* `neverReachedBridge` (`never_reached`). `CommandRouter.execute()` sets it for
  every rejection of `enqueue()`. A job's own `COMMAND_TIMEOUT` is such a
  rejection, so the record of a command that was sent says it was not.
* Ambiguity (`unambiguous`). `AMBIGUOUS_ERROR_CODES` lacks `PLUGIN_DISCONNECTED`.
  The run shows a command that has been handed to the plugin, whose connection
  then ends: the advice is that Figma's state is known.
* Superseded connections (`stranded`). Requests in flight on a connection that
  another window supersedes are not rejected when it closes; they wait for their
  timer.
* Payload errors (`planner_payload`). `preflightPlan()` is documented to check
  every payload against its schema and checks none. `router.execute()` throws on
  such a payload in the middle of the plan, nothing catches it, and the tool
  answers `executed: false` although steps ran; their results are lost.
* Safe retries (`retry_overlap`). A retry with the same `operationKey` is said to find
  the result of the first attempt. It does if that is over (`AdvisedRetryAddsNothing`);
  after a timeout it may still be at work, both look before either has tagged
  anything, and there are two groups. A sync has the same window.

Smaller disagreements the properties name as exceptions: `instance.create`, text styles
and a move onto a page fail after their first change (`FailsLate`); a sync keeps a node
of another type (`KeepsType`); a boolean within a boolean that Figma refuses is missing
from a plan that answers ok (`SkippedBoolean`), and a sync of such a plan leaves the old
outer boolean beside the new one, since it still holds the old inner one when the code
looks whether it is empty (`Nested`); after such a refusal the shapes stay where they were,
and a sync that prunes may remove that place with them and answer ok (`Applies`); an op
under a shape or a text stays where it is, without a warning (`UnderShape`); `custom.verify` reports a read that was lost on the
way as a missing node (`lost`); a client whose `connect()` fails, or that was connecting
when its adapter was closed, leaves its process running (`ProcessesAreOwned`).

`RuntimeImplementsRemoteCommand` bounds the damage of the first three: the caller
holds an answer that `RemoteCommand` calls `unknown`, and a caller that treats every
rejection after sending as unknown is never misled.

## 6. Not modelled

* Values: geometry, paints, text, images, SVG, what a read returns of a node beyond its
  presence, the arithmetic of `custom.measure` and the comparison of `custom.diff`.
* The Zod schemas and the design compiler, but for whether they accept a payload.
* `determineActiveBackend()`, a pure choice over two statuses; reordering and removal of
  pages; `initialize` and `tools/list`, which return constants.
* Failures that end the process (a port in use, SIGINT) or the wait for which ends with
  it (`close()` before `start()` awaits a server that is not there), a failed import of
  `ws`, after which every call ends in an error (`EveryCallAnswered`) and nothing
  recovers, and the plugin version that a superseded connection may overwrite.
* Bytes: a character cut by a chunk, configuration values that are not numbers.
* The acceptance scripts, tests and the archive, which are not part of the program.

## 7. Plan

What was planned is modelled, checked and, where the prover reaches, proved. What could
be added:

1. `RepeatChangesNothing` as a lemma for each kind of command: that the operation applied
   to its own result changes nothing.
2. `AdvisedRetryAddsNothing` with its hypotheses spelled out. For this `SelectSeq` in
   `findByPluginKey` would give way to a recursive function, which tlapm can expand.
3. The compiler of designs, so that `IsPlanTree` becomes a theorem about its output.

`PROJECT.json` gives the status of every component and, under `hazards`, which of
them no property covers yet.
