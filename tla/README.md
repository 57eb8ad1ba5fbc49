# Tappet: TLA+ models, model checking and proofs

Tappet is a broker between an MCP client and downstream MCP servers ("providers"). It starts
providers lazily, serializes calls to each, and serves *capability packages*: immutable
descriptions (manifest, skills, schemas, context files) that are loaded into memory, installed
in a registry under an ID, searched, described, read in chunks, and used to route invocations.
Its older form serves a *hierarchy*: a directory tree of JSON files that a separate command, the
structure generator, writes from the tool lists of the providers.

This directory models the parts of that program whose correctness depends on the order in which
goroutines, deadlines, errors and shutdown happen. File and line references are relative to the
repository (`src/` in `PROJECT.json`).

## 1. Inventory

| Part | State | Operations | Interacts with |
|---|---|---|---|
| Provider registry, `internal/hierarchy/hierarchy.go` (`ServerRegistry`) | `clients`, `clientLoads`, `clientMutex`, `closed` under `mu`; one child process or stream per client | `ExecuteMappedTool`, `GetOrLoadServer`, `GetClientMutex`, `ClientMutex.LockContext/Unlock`, `Close` | client factory, invocation contexts, lifecycle context |
| Provider start, same file (`newProviderClient`, `providerStartContext`) | `err`, `detached`, `done`, two `context.AfterFunc` callbacks | `detach`, `abort`, `cancelStartup`, `cancel` | transport `Start`/`Initialize`, registry `Close` |
| Capability registry, `internal/capability/registry.go` | `entries`, `nodes`, `nextGeneration`, `revision`, `closed`; per generation `refs`, `retired` | `Add`, `Reinstall`, `Uninstall`, `Lookup`, `ResolveOperation`, `ResolveToolPath`, `Browse`, lease `Release`, `Close` | records and their snapshots; every caller |
| Snapshot store and loader, `snapshot.go`, `loader.go`, `record.go` | reservation counters, content-addressed objects with `refs`, staging transactions | `LoadAll`, `Load`, `begin`, `reserve`, `stageReserved`, `abort`, `commit`, `acquireArtifact`, releases | files on disk, registry reclamation, read leases |
| Read lease store, `read.go` | `reads`, `attempts`, `pinnedBytes`, `replayBytes`, `closed` | `Read` (initial and continuation), `sweepLocked`, `Stats`, `Close` | registry lookup, artifact leases, clock |
| Projection store, `describe.go` | cached projections, idle deadlines, byte and count quotas | `Describe` first page / cursor page, sweep, `Close` | registry, clock |
| Catalog and search, `catalog.go`, `search.go` | a signing key; registry revision in cursors | `Search`, cursors, lexical ranking | registry |
| Provider event queue, `internal/client/provider_events.go` | bounded queue, byte count, handler, stop | `enqueue`, `run`, `fail`, `stop` | transport reader goroutine, response validation |
| Response validation, `json_validation.go`, `response_validation_transport.go` | first failure, RPC errors by request ID | `fail`, `recordRPCError`, `takeRPCError`, `SendRequest` with one retry | transports, event queue |
| Bounded readers and stdio transport, `response_limit.go` | limit signal, child process, handlers | `Start`, `SendRequest`, `signalLimit`, `Close`, `CloseFailed` | child process |
| Client wrapper, `client.go` | close flag, ping task | ping, `ListTools`, `CallTool`, `Close` | transport |
| Legacy hierarchy, `hierarchy.go` | an immutable tree of nodes | load, path resolution, browse | provider registry, the generator's files |
| Structure generator, `structure_generator/generator.go` | the output directory, a staging directory and a backup per command | `GenerateStructure`, `replaceGeneratedDirectory`, `Regenerate`, `RegenerateDirectory` | other commands, the user's edits, the broker that loads the tree |
| Server and backends, `internal/server` | runtime with backend and closers | tool handlers, shutdown | all of the above |
| Manifest, YAML, skill validation; package source; configuration; commands | none that lasts | validation, parsing | loader, server |

Hard behaviours: a load that several invocations wait for and one of them cancels; a shutdown
that overtakes a starting provider; a deadline that passes while a mutex token is taken;
`AfterFunc` callbacks that run late; package generations that are replaced while leased; a
read whose store lock is released between the attempt lookup and the commit; retries, competing
continuations and expiry; quotas shared by concurrent loads; files that change while being
copied; a registry that changes between two pages, or between the lookups of one browse; a
command that dies between two renames. `PROJECT.json` lists each at its line under `hazards`.

What makes each part correct, in short: one process per provider and one call at a time, every
process closed exactly once, nobody fails for somebody else's cancellation, everybody returns
(provider registry); an established stream outlives its request and not the registry (provider
start); exact reference counts, reclamation exactly when unused, the newest generation current,
derived tables never stale (capability registry); quotas hold, nothing leaks, a reservation is
honoured (snapshot store); one response per offset, no gap, held as promised, pins and
accounting exact (read leases); cursors die with the revision, pages neither skip nor repeat
(projections, catalog); what a browse lists was installed and can be called (backend); a failure is
told for what it is and reaches everybody (event queue, transport); a published tree is never torn or
lost and what the user wrote is kept (generator).

## 2. Modules

| Module | Models | Runs |
|---|---|---|
| `ProviderService` | what the provider registry promises (abstract) | |
| `ProviderRegistry` | `ServerRegistry`, `ClientMutex`, `ExecuteMappedTool`; implements `ProviderService` | `provider_registry`, `provider_registry_close` |
| `ProviderRegistryProofs` | theorems: its invariants, that it implements `ProviderService`, and those of `ProviderStart` | |
| `ProviderStart` | `newProviderClient`, `providerStartContext` | `provider_start` |
| `ProviderConnection` | `responseValidatingTransport`, `providerEventQueue`, `responseValidation`, `limitedStdioTransport` | `provider_connection` |
| `ProviderConnectionProofs` | theorems about it | |
| `Counting`, `CountingProofs` | sums and sorted lists defined by counting, and lemmas about them | |
| `SnapshotStore` | `SnapshotStore`, `stagingTransaction`, `Snapshot`, `Loader` | `snapshot_store` |
| `SnapshotStoreProofs` | theorems about it | |
| `CapabilityRegistry` | `Registry` | `capability_registry_path`, and `catalog` |
| `Search` (extends `CapabilityRegistry`) | lexical matching and ranking, as operators | `catalog` |
| `Catalog` (extends `Search`) | `Catalog.Search` with cursors, `capabilityBackend` browse and execute, composed with the registry | `catalog` |
| `CapabilityProofs` | theorems about `CapabilityRegistry` and, on top of them, `Search` and `Catalog` | |
| `Projections` | `ProjectionStore` | `projections` |
| `ProjectionsProofs` | theorems about it | |
| `ReadLeases` | `ReadLeaseStore` | `read_leases`, `read_leases_stale` |
| `ReadLeasesProofs` | theorems about it | |
| `Structure` | the generated tree, `Regenerate`, loading and path resolution, as operators | `generator` |
| `Generator` (extends `Structure`) | the generator's commands, crashes, the user | `generator`, `generator_edits` |
| `GeneratorProofs` | theorems about it | |
| `MC...` | constants and symmetry for TLC | |

Every module contains, before some of its operations, a *faulty variant* of that operation: the
slip a change to the code might introduce. They are not part of any specification. Replacing the
operation by its variant makes TLC refute the property paired with it in `PROJECT.json`
(`mutants`), which shows that the property depends on the code it is about.

### ProviderRegistry

An invocation is one goroutine in `ExecuteMappedTool`; `pc` says where it is. A critical section
under `ServerRegistry.mu` is one action, because no other reader of that state can observe its
inside. The code between critical sections (the select on a load, the factory, the channel mutex, the
call) is split wherever another goroutine can act.

| Code | Action |
|---|---|
| entry, `context.WithTimeout` | `Begin`, `Expire` |
| loop head of `GetOrLoadServer` under the lock | `Lookup` (`LookupClosed/Cached/Join/Unknown/Initiate`) |
| select on `ctx.Done` and `load.done` | `AwaitLoad` |
| `clientFactory` | `FactoryOpens`, `FactoryReturns` |
| second locked section | `Publish` (`PublishMade/TooLate/Error`) |
| `closeFailedProvider` after it | `Cleanup` |
| `GetClientMutex` | `GetClientMutex` |
| `LockContext`: select, then recheck of the context | `LockContext`, `RecheckContext` |
| `CallTool` and the deferred `Unlock` | `CallReturns` |
| `Close`: locked part, then one client after another | `Close`, `CloseClient` |

Each invocation makes at most one load, one client and one mutex, so these objects carry its
name and are never reused. A load that a waiter has joined keeps its outcome after leaving the
table, as the Go object does. `Cleanup` and `CloseClient` close the process for good. The code's
`closeFailedProvider` (`hierarchy.go:833`) gives a cleanup two seconds, after which it logs the failure and
goes on; what a child does then is the operating system's (`ProviderConnection` has the close of one child step by step).

*Refinement.* `ProviderService` says what callers may rely on without locks, load tables or mutexes: per
provider a phase (`absent`, `starting`, `up`, `stopping`, `down`), its processes and its callers.
`ProviderRegistry!Service` is the mapping: a provider is *up* while its client is cached, *starting* while
some invocation is in flight with it (in the factory, about to publish, or closing a client that
came too late), *stopping* while `Close` has yet to close it; its processes are those open and its
callers those in `CallTool`. `ImplementsService` is checked by TLC and proved. It carries what single invariants
would say separately: single-flight start, one process per provider, calls only to a provider that is
up and one at a time while open, no start that succeeds after the shutdown, no return from `down`.

### ProviderStart

One call of `newProviderClient`. The transport is nondeterministic; the two `AfterFunc` callbacks
have states `armed`, `running`, `ran` and `stopped`, so a callback whose context has ended can still
run after `detach` or `abort` tried to stop it. `needManualStart` is true for every transport
(`client.go:67`, `:90`, `:110`), so the branch without a start context is left out. A request that is made
with a context that is already done is refused by the transport (external). `Start` may fail with its process or
stream already there. After a failed `Start` an ended invocation is blamed whatever the error was
(`elapsedContextError`), after a failed `Initialize` only for an error of its context; `FailsCleanly` has the second. The code relies on that: if
the invocation ends between the check after `Start` and `detach`, its callback may cancel the start
context before `detach`, and only the refused `Initialize` keeps the dead client from being returned.

### CapabilityRegistry

A record is published at most once and names its generation. Public methods hold the registry
lock throughout and are one action each, except `ResolveToolPath`, which releases its read lock
before it calls `ResolveOperation`: the action `ResolveToolPath` records what the path meant and
`ResolveOperation` leases. `nodes` is rebuilt by every change (`Hierarchy`). `reclaimed` counts the runs of
`reclaimLocked`, i.e. of `Record.release`.

### SnapshotStore

`LoadAll` calls `loadFromRoot` for one package after another, appends the record or finds its ID taken, and
rolls back what it has when anything fails; other loads are calls of `Load`. A load runs through `loadFromRoot`: open and reserve the manifest, stage it, parse it and open and
reserve the artifacts it names, stage them, normalize, commit. Two packages with one ID are a case of the model that
the code guards against twice: the ID has to be the name of the directory (`loader.go:133`), so the test in
`LoadAll` never fails. Each `reserve`, `commit` and release is one
locked action; staging one file is an action because loads interleave there. A content is a model
value with a size and stands for its digest. What a file holds when it is copied is chosen
freely, so it may differ from the size that was declared.

### ReadLeases

An initial read is `LookupAttempt` (first locked section), `PinArtifact` (registry and artifact lease,
no lock) and `CommitLease` or `CommitRefused` (second locked section). A continuation is
one locked action. The lazy sweep is part of every operation that runs it. The attempt key is
a hash over all request fields, so the request stands for it. `served` is a history of the
responses that left the store; no action reads it. Replay bytes are counted in units of the
fixed reservation per lease. The registry is reduced to the set of artifacts it would find.

### ProviderConnection

One stdio connection. The actors are the reader goroutine inside mcp-go, the event workers, the
requests (two nested selects each: `sendRequestOnce` around `awaitLimitedStdioResponse`), the goroutine that
`fail` starts, the registry that owns the connection, and the child. A frame is reduced to its
kind: too long, invalid, a response, a notification of some size. Publication and reaction
are separate steps (`ReadTooLong`/`KillAtLimit`, `FailOverflow`/`StopOverflow`), and so are each select and its second
look. mcp-go's own `SendRequest` and the child are external: a pending request may break once the
transport is closed, unread, or without a child (`BreakAnswer`). The owner closes only after it has
cancelled the context of the child, as `ServerRegistry.Close` and `abort` do. `enqueue`'s marshalling error cannot
happen for a decoded notification and is left out; so are `SendNotification` and the HTTP transports, which use the
same validating transport over mcp-go's own. `SendNotification` changes no state.

### Search and Catalog

`Search` keeps of a text its normalized form (`Exact`) and its set of tokens (`Tokens`), which are constants: the
tokenizer and Unicode folding are not modelled. `MatchKinds` lists what `matchCapability` tries, `MatchCapability` takes the
first that applies, and `SearchResults` adds the identifier short-cut, scope, sort and limit. `SearchHonoursContract` compares them
with a definition written from the contract (`ContractRank`): all evidence of a record, the best
row of the table, the best score in it, ties by ID. `Matches` and `Evidence` are tables of query and record, which TLC
computes once.

`SearchHonoursContract` is about queries with a token. A query without one, such as a single symbol, gets no results at all
(`search.go:129`), also when a capability has exactly that name or tag; the contract says that exact names and tags compare the
whole normalized text and "always qualify" (`MILESTONE_3_SEARCH_CONTRACT.md:80`, `:145`). The restriction was found by the proof.

`Catalog` adds two kinds of readers to the actions of the registry. `CatalogSearch` is one locked step; the
cursor it returns names path, revision and offset. The backend's browse is split as the code is: one
locked read of the hierarchy (`Browse`), then per child a lookup that leases a generation (`BrowseLookup`, a
registry caller of its own), the reading of its operations (`BrowseRead`) and the release, and last the
capability at the path itself (`BrowseOwn`). `Execute` resolves a path that a browse has listed.
Two things the model shows besides its properties. Operations of one package with the same
provider tool are listed once when the capability itself is browsed (the last one wins) and make the browse of
its parent fail. And a listed path can stand for something in a second installed package as well, in which
case resolving it finds the other one or an ambiguity: it may be that package's legacy spelling, its
capability ID followed by an operation, or the ID of a package with one operation. `ListedPathsResolve` names
this as its exception; an earlier form that allowed only for the legacy spelling could not be proved, and TLC refuted it
once the instance had an operation `add` of `math` beside the capability `math.add`.

### Projections

`Describe` checks the request, `Lookup` leases, projects and releases, and the four `FirstPage...` actions are the
locked section that follows, split by its outcome. `CursorPage` is one locked section. The sweep is part of each.
An item is a size; a page is what `boundedPage` could have cut, where taking one item less until it fits
is part of the operator. A client can repeat a cursor, give up, and use any limit. Cursors carry a
signature over all they say, so a client has those it was given and no others.

### Structure and Generator

A tree maps files (directory and name) to nodes; a directory is there while a file is below it. `GeneratedTree` is what `GenerateStructure` stages;
`RegeneratedIndex` and `RegeneratedRoot` are what `Regenerate` writes per directory; `LoadHierarchy`, `ListedTools` and
`ResolvePath` are the broker's side. Of overviews their kind, counts and child summaries are kept, because the
rule that recognises a generated text (`LooksGenerated`) and idempotence depend on them. `Generator` runs two
commands against one output directory: every rename and every file that `Regenerate` writes is a step, any call
may fail, any command may die, also between truncating a file and writing it. The model
lists a directory when it is visited, the code before it descends; this matters only to the summary of a
tree that changes meanwhile.

The user does what `generator.go:363` and `:520` provide for. `MoveTool` takes a tool file to any directory there is, to a new
one, to the top, or to one of its own name, whose index it becomes (`tool/tool.json`); `MoveFolder` takes a directory
with everything in it below another one or to the top; `EditOverview` writes an overview. A directory that a move
empties is taken to be removed with it: the code would write an index into an empty directory that is left standing.

A hierarchy path is a string with dots. The model has it as the sequence of its parts, and `Parts` says what a name
with a dot comes to, so such a name changes the level of everything below it, as in the code. `LoadHierarchy` skips
every file called `root.json`, at any depth (`hierarchy.go:111`), takes a file at the top with the name of the output directory for
the index of the top (`OutputName`), and of two files with one path keeps the later one of the walk. The walk's order between
`n.json` and the directories whose name begins with `n` followed by a sign before the dot, such as `n-x`, is approximated: no two files of
one path are ordered by it. Generated names never lead to these cases (`validateGeneratedNames`), but the user's moves do. The two
properties that need a tidy tree say so in their premises, and the run reaches trees on both sides of each:

* `EveryToolReachable` is about intact trees with an index in every directory, with names that are files' own paths
  (`PlainNames`: no file is called `root` but `root.json`, none has a dot in its name) and in which no tool that is
  an index is below another tool of its name (`NoNamesake`). Otherwise: a directory called `root` has its index written by
  `Regenerate` and skipped by `LoadHierarchy`, so nothing below it can be browsed to; the same goes for a directory with a dot in its
  name, whose path has a level nobody lists; and of two tools `a/a/a.json` and `a/a.json` only one is filed under its path.
* `RegenerateSettles` says without a premise that a second `Regenerate` finds nothing to do. That `root.json` counts every tool is
  said of the flat layout (`FlatLayout`), the one the generator itself makes: tool files in directories, none of
  them the index of its directory. Otherwise the count is lower: a tool at the top (`generator.go:299` looks at directories only), one that is
  the index of a top directory (`:562` skips the index), and what else is in a directory whose index is a tool (`:554`) are
  loaded by the broker and not counted.

Observations that are not findings: the comment that generated overviews always match the heuristic
(`generator.go:487`) is not true of "S: 1 tool; ...", so such overviews go stale rather than being refreshed; a crash between
the two renames leaves the old tree only under its `.previous` name; a crash between truncation
and write loses an overview that was to be kept.

## 3. Runs, bounds and fairness

| Run | Instance | What it shows |
|---|---|---|
| `provider_registry` | 2 invocations, a configured provider and an unknown name, fairness | the refinement; cancellation, tokens, closing; every invocation returns; shutdown releases every process |
| `provider_registry_close` | 2 invocations | finding: calls overlap across `Close` |
| `provider_start` | one start | no stream dies with its request; none survives the registry; failed starts leave nothing |
| `provider_connection` | 1 request, 1 worker, 2 frames; events of 1 and 2 bytes, limits 1 event and 2 bytes, fairness | queue accounting, classification of failures, failed close; a failure reaches everybody; closing returns |
| `snapshot_store` | `LoadAll` of 2 packages and 2 more loads, up to 2 artifacts each, 3 contents, a lease; quotas 4, 4, 4 bytes | quotas, reservations, reference counts, roll-back |
| `catalog` | 3 records of 2 capabilities, a caller, a pager, a browser with 2 lookups, 3 queries | reclamation, path leases, pages, ranking, browse answers |
| `capability_registry_path` | 3 records, 1 caller | finding: a path lease can belong to a generation without that path |
| `projections` | 2 clients, 2 generations, limits of 2 entries and 9 bytes, clock to 3 | pages, accounting, deadlines |
| `read_leases` | 3 readers, 5 requests, a 2-byte artifact and an unreadable one, clock to 2 | replay, gaps, deadlines, quotas, pins |
| `read_leases_stale` | 2 readers | finding: a committed replay can lose to staleness |
| `generator` | 2 commands, 4 provider lists (2 of them refused), new directories `a` and `root/x.y`, 2 texts, 2 moves or edits | publication, crashes, reachability, edits, idempotence |
| `generator_edits` | 1 command, the same lists and directories, 1 text, 1 move or edit | finding: edits of `root.json` are lost |

*Bounds.* Two invocations let one initiate a load while the other waits for it, takes it over after a
cancellation, or finds it cached; the theorems hold for any number. The unknown name reaches the configuration
error. Two versions of one package and one overlapping package reach every rule of path
resolution, and a search finds a record by each of its tiers. Four loads with two names reach sharing
inside a package and between packages, a roll-back with another load half way, and a load that finds a quota
taken by others. In `read_leases` the limits admit two leases and three
readers compete; `Idle = 1`, `Absolute = 2` and `Horizon = 2` let a lease expire idle, be renewed,
and reach its absolute deadline; `projections` uses 2, 3 and 3. In `projections` one generation takes three
pages and the other has an item too large for any response; `MaxIssued` bounds the entries made. `Horizon`
caps the clocks, `MaxFrames` the frames of a connection and `MaxEdits` what the user does. Two frames overflow the
queue, retry a request, or combine a response with a failure. Requests of one connection meet only in the failure they
share. Two generator commands overlap at every step; a third would meet the same two directories. The new
directories have the name of a tool, the name `root` and a name with a dot, and the output directory has the name of a tool; two
moves make a tool the index of a directory, put it at the top, nest a folder, and bring two namesakes together (2.3 million states).
Symmetry is used on loads, leases, readers, clients and commands in runs without liveness properties;
none of the models distinguishes their members.

The type invariants (`TypeOK`, `StartTypeOK`) are not among the runs' properties. They are proved,
alone or as part of the inductive invariant.

*Deadlock* is checked where the processes terminate in a named final state (`Terminated`) and
turned off where the system may simply have nothing left to do in the instance (all records
published, all loads finished).

*Fairness.* `ProviderRegistry!Fairness`: steps that need only the goroutine itself and a lock that is
free are weakly fair, because the Go runtime schedules every runnable goroutine. `Expire` is weakly fair,
because `context.WithTimeout` fires after 30 s. The factory and the call are fair only
once the invocation's context is done: a provider may hang, and the transports return on
`ctx.Done`. Taking the token is strongly needed by nobody: an invocation that never gets it returns
at its deadline. `Begin` and `Close` are not fair. `ProviderStart!FairStartSpec` assumes only
that a callback runs once it was triggered; neither context need ever end. `ProviderConnection!FairSpec` makes the goroutines fair,
assumes that handlers return and that `exec.CommandContext` kills; it assumes nothing of the child, of deadlines
or of when the owner closes.

## 4. Findings

All four are differences between documentation and code, each shown by a run that is expected
to be violated; `PROJECT.json` quotes the lines.

* **Serialization across Close.** `Close` installs an empty mutex map (`hierarchy.go:854`). An
  invocation that obtained its client before and calls `GetClientMutex` after gets a new mutex and
  calls the provider while another call runs. `SerializedWhileOpen` is what does hold.
* **Path resolution is not atomic.** `ResolveToolPath` releases the lock between matching and leasing
  (`registry.go:207`). `PathLeaseExactOrNewer` is what does hold: the lease has the operation,
  and disagrees with the path only if its generation was published after the match.
* **A committed replay can lose to staleness.** `readInitial` does not consult the attempt table again when the
  registry lookup fails (`read.go:154`).
* **Manual edits of the root overview are lost.** `Regenerate` writes `root.json` without reading it
  (`generator.go:360`), and in other directories takes a text with a colon and "with" for a generated one.
  `PlainEditsKept` is what does hold.

## 5. Proofs

TLAPS proves the theorems below for every value of the constants that meets the named assumption of the
module: any number of invocations, providers, records, callers, readers, loads, clients and commands, any
contents, sizes and limits. `PROJECT.json` (`theorems`) pairs each with the property it states. The
last paragraph of this section names the properties that are not proved.

The proofs share one shape. An inductive invariant (`Inductive`, `IInv`, `CatalogInv`) is a conjunction of named
parts; one lemma per action shows that it is kept, split by the parts the action can disturb; the properties
follow from it. Its parts are needed because none of the properties is inductive alone.

*`ProviderRegistryProofs`* (`ConstantsAssumption`: `None` is no invocation; configured names are provider names):
`TypeCorrect`, `InductiveInvariant`, `SerializedWhileOpenHolds`, `OneProcessPerProviderHolds`, `OneCloserHolds`,
`TokenConservedHolds`, `OnlyOwnCancellationHolds`, `CallsCachedClientHolds`, `ImplementsServiceHolds`.
`Inductive` adds: a load in the table belongs to a
goroutine that is loading, and there is one loader per provider unless `Close` emptied the table
(`LoadsConsistent`); every open process is with its loader, in the cache or in the list `Close` took,
and these are disjoint (`ProcessesConsistent`); while the registry is open everybody at the lock
has the mutex in the table, and a missing token has exactly one holder (`MutexesConsistent`);
a published load is the cached client (`ClientsConsistent`).
For the refinement each action is shown to be the service's step it looks like (`LookupInitiate` a `BeginStart`, `FactoryOpens`
an `Open`, `Publish` a `Succeed` or `Fail`, `CloseClient` a `Stop`, ...) or to show nothing (`SilentStep`). The mapping's phases are
told apart by `Inductive`: whoever is in flight with a provider is alone with it (`AloneInFlight`), so the
provider has no other process, no cached client and nothing on `Close`'s list.
Of `ProviderStart`: `StartTypesHold`, `EstablishedOutlivesRequestHolds`, `FailsCleanlyHolds`. In `StartInductive` each cause leaves a trace:
an error of the context implies that it ended, a callback that runs was triggered by its context, an abort belongs to a failed start, and after `detach` the invocation's end is not what
cancelled the context unless `Initialize` is refused for it; so a returned client can only have lost its context to the registry's.

*`CapabilityProofs`, the registry* (`RegistryAssumption`: finitely many callers, capabilities and operations per record; a record has an ID, which is
one of its places in the hierarchy, and every place has its parent): `TypeCorrect`, `InductiveInvariant`, `RefsExactHolds`,
`ReclaimedExactlyWhenUnusedHolds`, `RetiredExactlyHolds`, `NewestIsCurrentHolds`, `RevisionTracksEntriesHolds`,
`PathLeaseExactOrNewerHolds`. The count of leases is the cardinality of the set of holders. Reclamation needs
exact counts (the last reference must mean no holder), exact counts need that an unpublished
record has no holder, and numbering needs that no number above the last was given out. The path lease adds
`Resolutions`: whoever is between the two locks remembers the last generation number it saw, and every generation of the
wanted capability that was published by then gives the path its meaning.

*`CapabilityProofs`, the catalog* (`SearchAssumption`: the operation lists are the operations, `PathOrder` lists every path once, texts have
finitely many tokens, of at least a byte;
`CatalogAssumption`: a reader's lookups are callers of its own, listed paths are built as `legacyToolPath` builds them):
`CatalogInvariant`, `ReadersUseRegistry`, `PagesOfOneRevisionHolds`, `BrowseAnswerTrueHolds`, `ListedPathsResolveHolds`.
`ReadersUseRegistry` says that every behaviour of the composition is one of the registry, so the registry's theorems hold
in it. `CatalogInv` adds: what a reader remembers is true of the registry as long as the revision it remembers is
the current one (`PagerTrue`, `ViewTrue`, `AnswerTrue`), which is where `RevisionTracksEntries` matters; of a reader's lookups only
the last can hold a lease (`LookupsTrue`); the tools it has collected are, per capability, those of one generation, and
none belongs to a child that is still to come (`ToolsTrue`). The uniqueness of a listed path's meaning rests on
`NodesTrue`, that the hierarchy is the one of the entries.

*`CapabilityProofs`, search*: `SearchHonoursContractHolds` (an action property). Each kind of match is one row of the contract's table:
it finds nothing exactly if no field of the row qualifies, and else one match with the row's tier and best score
(`ExactRow`, `LexicalRow`, `KindsAreRows`). Trying the kinds in order therefore finds the first row that has evidence (`MatchIsRank`), and
the identifier short-cut is "the query names something installed" (`QualifiedNames`). Installed records have different IDs, so the
order of results is strict (`RankedStrict`), the sorted list has every record once, and its beginning is better than
the rest (`ResultsHonoured`).

*`CountingProofs`*. The stores keep counters that must equal sums over sets; projections, results and directories are sorted. The library's
induction theorems are out of the provers' reach, so `Counting` defines a sum as the number of pairs of an element and a unit of its value, and the element
at place *i* of a sorted list by how many elements precede it. The lemmas (how a
sum changes when an element comes, goes or changes; the sum over a union; that a sorted list has each element once, in order) follow from the
library's theorems on cardinality. Where induction cannot be avoided it is by least counterexample: a set of numbers that is not
empty has a least element (`LeastNumber`), so a set with 0 and with every successor has all (`AllNumbers`).

*`SnapshotStoreProofs`* (`StoreAssumption`: finite sets, sizes and quotas are natural numbers): `InductiveInvariant`, `TypeCorrect`,
`QuotasCorrect`, `ReservationsCorrect`, `ObjectsCorrect`, `HonouredCorrect`. A staging transaction has reserved what its declared files add
up to and holds files of exactly the declared sizes (`FilesOK`); hence its distinct new contents need no more
than it reserved, and `commit` cannot find the quota exhausted. `LoadAll` has at most one package under way and drops
none it committed (`BatchOK`), so whoever holds a committed snapshot will release it.

*`ReadLeasesProofs`* (`ReadAssumption`: what `validateReadLeaseLimits` and `validateReadBounds` let through; finitely many readers):
`InductiveInvariant`, `TypeCorrect`, `AccountingCorrect`, `ObjectRefsCorrect`, `ChunksCorrect`, `HeldCorrect`. The parts of the invariant are
predicates on tables given as arguments, because one locked section first sweeps and then changes them: sweeping keeps the
parts, and so does adding or advancing a lease afterwards. `Tables` and `Amounts` are the accounting; `History`
says that the chunk in the replay slot is the last one served and the earlier ones end where it begins at the latest; `Kept` that
an unexpired response is in the table or superseded.

*`ProjectionsProofs`* (`ProjectionsAssumption`: positive quotas and times, items have sizes, IDs are ordered):
`InductiveInvariant`, `AccountingCorrect`, `RetainedCorrect`, `HonouredCorrect`, `TilesCorrect`, `ServedCorrect` (an action property). That pages
tile has two halves. The first is about `copySection`: a page cut at an offset with a limit is what the concatenated
sections have there (`Copied`), whichever section boundaries it crosses. The second follows a client: what it has gathered is a prefix of
its projection, the cursor's offset is its length (`Prefix`), the entry behind a cursor has the client's projection and
deadlines (`Linked`), and no two clients share an entry (`Apart`).

*`ProviderConnectionProofs`* (`ConnectionAssumption`: there are finitely many workers and at least one, sizes and limits are
natural numbers): `InductiveInvariant`, `EventsInvariant`, `TypesHold`, `QueueAccountingHolds`, `FailureIsClassifiedHolds`,
`CloseFailedReapsHolds`. Classification rests on the order of publication: a transport that the gateway closed, a
child it killed and a reader that gave up each imply a failure or a limit signal already visible
(`Announced`); hence a broken answer implies one of these or a cause that is not the gateway's (`Published`).
The second look at `limitCh` removes one alternative and the second look at `validation.done` the other
(`Stages`), so what is returned as broken has a cause of its own. `EventsOK` adds to the accounting that a worker carries bytes only
between receiving an event and giving it back.

*`GeneratorProofs`* (`NamesAssumption`: names are listed in order, none is "/"; `InputsAssumption`: provider lists are lists of named
providers with named tools; directories the user makes are paths of names): `InductiveInvariant`, `NeverTornCorrect`, `SurvivesCorrect`, `EditsCorrect`, `FiledInvariant`,
`ReachableCorrect`, `SettlingInvariant`, `SettlesCorrect` (an action property).
The first four need two facts about a single written file: an index is written only where
there is no tool, and `root.json` has none; so no writing adds or drops a tool. `TreeKept` is stronger than
`PublishedTreeSurvives`: the whole tree that survives is not the backup of a command that is about to remove it.
`Filed` says where files can be: a file with a tool has just one, named like the file and in no other file, and
one without is `root.json` or the index of its directory. A move loses no tool if no two files end in the same place; for a folder
(`Rebased`, `FolderMoves`) that follows from `Filed`, so the two are proved in one induction (`BothInvariants`), for moves of any tool file or folder.
With plain names and no namesakes, the keys of loaded nodes and the files correspond: an index is filed under its directory, another file under a path
that no directory has unless its index is a tool (`KeyOf`, `FlatIsLast`, `NodesOf`). Hence every listed path resolves to its own tool
(`ResolveOf`, `IntactReachable`), for trees of any depth.
That `Regenerate` settles rests on locality: the overview of a directory depends on the files below it alone (`SameBelow`, `CountSame`,
`SummariesSame`). A directory is visited after all its descendants and before its ancestors (`VisitsOrdered`, `NoneBelowLater`), so what is written later
leaves its overview as it was (`StaysSettled`). A directory whose index is a tool is settled as it is. `SettledSoFar` says that all directories
visited so far are settled, as long as nobody else
touches the tree. At the end every directory is settled, a second pass writes
nothing (`NothingToWrite`), and in the flat layout the count in `root.json` is the sum over disjoint subtrees that together hold every tool once
(`CountedOnce`, `RootCount`).

Only model-checked, and why: liveness (`EveryInvocationReturns`, `ShutdownReleasesProviders`,
`LifecycleReachesProvider`, `FailureReaches`, `OwnerReturns`) needs fairness and `ENABLED`, which this prover cannot
handle. Every invariant and action property of the passing runs is proved.

## 6. Plan

In order:

1. The bounded readers of the HTTP transports (lines, SSE events, bodies) as operators against reference
   definitions; the ping task and the list of invalid tools of the client wrapper.
2. Composition of registry, snapshot store and read leases; an abstract content store (a
   package's bytes exist while installed, leased or pinned) that it implements.

## 7. Not modelled, and why

Document validation (manifest, YAML, skill front matter) is stateless and field by field; a
model would restate it. So is the conversion of a hierarchy to capability candidates, and the
generator's command fetches tool lists one provider after another with nothing that lasts. Package source
access and configuration are operating system calls and one-time parsing. The tokenizer and Unicode
folding of search are constants. HTTP middleware, logging, tool declarations and the commands are
wiring. The rest of the parts without a module are in the plan above.
