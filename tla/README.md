# The Beads Protocol in TLA+

BDP serves Beads, the Links between them and aliases for them over HTTP/JSON. The
repository has three authorities of growing ambition: the canonical reference store
(`packages/server/src/retained-v01`), the Read+Update profile (`sequence-executor.ts`
and its recovery store) and the transactional profile (`transaction-*.ts`). Each is one
single-threaded process over one SQLite file. Around them are a read plane, evaluators
of schemas and selectors, client libraries, command lines and a conformance runner.

What is hard about this code is not data races. It is what a caller may rely on across
retries, expiry, restarts and commits whose fate is unknown; what interleaves where the
code awaits or calls foreign code back; what a startup check must accept of whatever any
legal order of requests left behind; and ends that must come, be told, and be true.

All lines, hazards, runs and theorems are listed with their sources in `PROJECT.json`.

## Inventory

Paths are below `packages/server/src` where none is given.

| part | state | operations | what makes it correct |
|---|---|---|---|
| reference store: `retained-v01/store.ts`, `recovery.ts`, `reference-comparison.ts`, `alias-witness.ts` | decisions by (principal, key), identities, live Resources, versions, aliases, events | create, update, delete of Beads and Links, put and delete of aliases, replay, stop, open with verification | one decision per key for ever; a retry is recognised whatever happened to its aliases; addresses keep one meaning; no dangling Link; the next start accepts the file |
| batches (format 6): `retained-v01/batch-*.ts`, `store.ts` 431-580 | the same | several operations in one decision, grouped recovery | all or nothing, guards on the versions before the batch, a group with one member is that member |
| retained HTTP: `retained-v01/http.ts`, `collections.ts`; event pages of `store.ts` 1136-1204 | cursors bound to viewer, source and limit | collection pages, event pages, resume | each item once, in order, of one observation |
| transactional store: `transaction-store.ts`, `-submission`, `-comparison`, `-sequence`, `-dependencies`, `-service` | receipts and reservations by key, creator facts, change groups, identities, aliases, policy generation | direct submission with its comparison loop, sequences member by member, cancel, expiry, policy drain, startup, receipt pages | reservations have an owner that will end them; one effect per key; answers stand; dependents use the Resource their creator's key stands for; the new policy is final; nobody waits in a circle |
| groups: `transaction-batch.ts` 757-1200, `transaction-set.ts` | a staged graph | operations in order, set operations, labels | changes and Events are the difference between before and after |
| transactional feed: `transaction-changefeed.ts`, `-sse.ts`, `-events.ts`, leases in `transaction-service.ts` | checkpoints, leases, stream writers | pages of groups, SSE with drain barrier, revocation, close | no group skipped or repeated; one policy per stream; closing ends |
| snapshots: `transaction-snapshot.ts` | captured collections with expiry | capture, page, expire | pages of one capture agree and continue in the feed |
| Read+Update: `sequence-executor.ts`, `recovery-store.ts`, `member-*.ts`, `resource-evaluator.ts`, `alias-evaluator.ts` | claims, retained outcomes, the graph with inline copies of Links | admit, run a member per turn, replay, expire, drain, fence, restart | a member takes effect once; retries are recognised; the copies are current |
| coordinator: `read-sequence-lifecycle.ts` | phase, owner, plane | start, enter, close, reactions | who closes hears of both, once both have ended |
| authority reads: `authority-read.ts` | one entry at a time | enter, materialize, deliver, abort | nothing leaves that contradicts itself or may not be read |
| pagination: `read-pagination.ts` | a bounded set of snapshots, sealed cursors, clock, timer | page, release, expire, resize | capacity is what is held; a cursor yields its snapshot or an expiry that is justified |
| Read server: `index.ts` | operations, connections, drain | admit, abort, close, bind, serve | ends come in order and are told |
| selectors: `read-selector.ts` | stacks of a parse and of an evaluation | parse, evaluate | the value is that of the grammar |
| schema evaluators: `installed-schema-*.ts` | frames, memo, threads | qualify, evaluate, match | the verdict is that of the definitions; what is accepted ends |
| development server: `development-runtime.ts` | listener, owner, requests | start, request, staged close | every stage is reached, failures can be tried again |
| client library: `packages/client` | exchanges, continuations, shared discovery | operations of the retained, Read and Read+Update clients | "not submitted" is true; one page per continuation; ends in time |
| command lines: `apps/bdp` | journals on disk, runs | mutate, retry, list | a failure had no effect; an unknown outcome can be sent again |
| conformance runner: `packages/conformance` | matrix of scenarios, sockets | prepare, act, clean up, raw exchange | a verdict has the evidence it needs; every run ends |
| protocol types, configuration, adapters, bd domain | none that outlives a call | parsing, validation, mapping | pure |

Interaction. The HTTP layers call the authorities and await between calls, and are
modelled by the calls they make. The feed and the snapshots read the groups and the
policy of the transactional store. Groups and Read+Update members use one evaluator
(`MemberGraph`). The coordinator owns an executor and a read plane; the development server
owns a listener and a coordinator; the Read server owns a pagination engine and a Scope port.
Clients know servers through exchanges only.

## Modules

Every module is one component, or one that composes others; properties stand at the end
of the component's module. Definitions named `X_reason` beside
a definition `X` are mutants: the plausible bug that shows that a property can fail.

### The reference store

* `RetainedTables` — the tables, requests, alias references and the identity of a request
  under its witnesses (`prepareLink`, `resolveAliasReferences`, `compareCapturedReferences`),
  and `verifySingletonRecovery`: what the next start demands of the tables, translated from
  `recovery.ts` alone. It shares no rule with the operations, so that it can be wrong about
  them.
* `RetainedStore` — one action per request kind, each a whole decision: preconditions in
  the code's order, effects, version rows, event, decision and answer in one SQLite
  transaction; replays; the transaction that fails, the commit that took effect without an
  answer (the store fences itself), stop, and `Open` with the verification of the file. At its
  end the properties and the mapping to `DecisionLedger`, the abstract promise: each key is
  decided at most once and every answer is that decision.
* `RetainedBatch`, `BatchRecovery` — batches over the same tables, and the grouped recovery
  with the batch's properties.
* `RetainedEvents` — event pages with their two kinds of cursors.
* `PagedReads` — the snapshot authority, and the collection reads over it.
* `RetainedStore_proofs`, `RetainedBatch_proofs` — theorems.

A document is a member of `Values` and an edit a function of `Changes`; validation is
membership of a result in the valid values. Revisions are event positions (the code draws
UUIDs: both are fresh). A principal's authority is uniform in this store, as in the code.

### The transactional store

* `TransactionStore` — first requests with their references as terms (a Resource, an alias, an
  earlier member's creation), the semantic identity under stored witnesses
  (`normalizeTransaction`), and the comparison of a direct request with a reservation whose
  terms are still open (`compareDependencyTemplate`, `compareAliasTemplate`). The code
  unifies; the model asks for one meaning of every term under which the fields agree, with an
  open value for terms that are only equated with each other.
  Then the authority: receipts, facts and groups; direct calls (`Submit`, `Poll`,
  `Deadline`, `Execute`, `FailExecution`), sequences (`AdmitSequence`, `Turn` in its three
  ways, `Cancel`), retention (`Sweep`), the drain and publication of a policy (`Pause`,
  `Publish`, `Resume`), and `Stop`/`Open`. An action is a run of the process between two
  awaits. What a request does to Resources is a choice over the outcomes evaluation can have
  for its references; identities, aliases and positions are kept exactly, because later
  requests are decided by them. Carriers of several operations under one key are one request.
* `MutationLedger` — the abstract promise: a key is held by one execution at a time, an
  effect under it is for ever, a failure may be forgotten, and whoever is told of an effect is
  told that one.
  The properties, the refinement and the fairness are at the end of `TransactionStore`.
  `TransactionStore_proofs` — theorems.
* `GroupEvaluation` — what one transaction's operations do to the graph and its Events.
* `TransactionReceipts` — pages of receipts, with expiry and restricted views.
* `TransactionSnapshot` — retained snapshots and their continuation in the changes.
* `TransactionFeed` — pages of `readChanges` and `readEvents`, packets of live streams,
  checkpoints and cursors bound to the view; requests with their minimum waits (`Ask`,
  `Retry`, `GiveUp`), the step from a selected response to a live stream with capacity and
  lease (`StartStream`), the pump with its drain barrier (`Write`, `Drain`, `Pull`, `End`),
  clients that receive, disconnect and resume, and the service that closes, fences itself and
  restarts; the properties and fairness. `Commit` and `Publish` stand for the steps of
  `TransactionStore` that append a group and replace the policy: the feed reads nothing else
  of the store. `TransactionFeed_proofs` — theorems.

The HTTP layer awaits between selecting a response and registering it as a stream; that
gap is a step of its own, since a policy may be published in it. A token records what has
been read; the hashes that bind it to view and source are modelled by the view it carries and
by a client that keeps to one feed. The Scope's epoch is fixed for the life of a file and left
out. Heartbeats pass the same barrier as frames and are left out. A page's limit of bytes is
subsumed in its limit of items.

### Read+Update and reads

* `MemberGraph` — one member's effect on Resources, owned copies and aliases.
  `MemberLifecycle` — requests, claims, turns, retention, draining and restarts over it, with
  the properties and the refinement at its end. Opaque addresses come from the list `Opaque`
  (the code hashes a counter); `AddressesLeft` is a bound: it stops the members when the list
  is used up. `MemberLifecycle_proofs` — theorems.
* `ReadSequenceLifecycle` — the coordinator with its owner and plane, a stack of calls that
  may be entered again, and promise reactions.
* `AuthorityGraph` — what an entry discloses of a reader that may contradict itself.
  `AuthorityDelivery` — how one read is delivered with its callbacks, signal and close.
* `ReadServer`, `DevelopmentServer` — the two servers with their ends.
* `ReadSelector`, `SchemaEvaluation`, `SchemaPattern` — pure algorithms, run step by step and
  compared with definitions of what they should compute.

### Clients and tools

* `CommandInvocation`, `CommandListing` — mutations and collections of `bdp`.
* `ClientOperation`, `ClientSession`, `UpdateClient` — the bounded transport, the Read client
  and the Read+Update client.
* `ScenarioMatrix`, `RawExchange` — the runner and its socket exchange.

### Instances

`MCRetainedStore`, `MCRetainedBatch`, `MCTransactionStore` and `MCTransactionFeed` instantiate
one system each. `MCObservations`, `MCMembers`, `MCEvaluation`, `MCClients` and `MCLifecycles`
put systems that share no state side by side: `part` says whose behaviour this is and the
others stay as they begin, so that one run asks one question of all of them (is what is read
one observation; are ends true; does everything end). Nothing is composed there that the code
composes; the properties of a part are stated in its own module. The instances of `lifecycles`
and of `clients` are in their configurations, so that `MCLifecycles_proofs` and
`MCClients_proofs` hold for all others too.

## Properties and runs

| run | question | bounds | states |
|---|---|---|---|
| `retained_store` | do addresses keep one meaning, Links their ends, versions their index and retries their decision, and does the next start accept the file | format 7, four decisions out of nineteen requests | 226 k |
| `retained_batch` | all or nothing, guards, one decision per key, grouped recovery | format 6, three decisions out of nine requests and sixteen batches, batches of three members and nine aliases, a fault anywhere | 215 k |
| `tx_sequences` | reservations, facts, bindings, verdicts, groups | two sequences and a direct call over three keys | 1.7 M |
| `tx_retries` | witnesses and retries while aliases move, the final policy, the ledger, and that every call ends | one sequence and one or two calls, or two crossed sequences and a call, four keys | 231 k |
| `feed` | is each item seen once, in order and in one view, is what streams hold bounded, does closing end, does an attentive client get everything | two clients, one stream, three groups, pages of two items | 128 k |
| `observations` | does a read over several requests tell one observation and keep what it announced | six parts, see `MCObservations` | 1.1 M |
| `members` | claims, answers, graph and copies of Read+Update | three requests of up to three members, two in progress, of three families | 186 k |
| `evaluation` | do schemas, patterns, selectors, disclosure and groups compute what the definitions say | graphs of three and six nodes, patterns of three atoms, transactions of three operations, five revisions | 843 k |
| `clients` | are the clients' ends true and traversals whole | three runs of a command, two callers of a session and of a client | 1.4 M |
| `lifecycles` | does everything end, and truly | two requests or callers of each part, two scenarios | 273 k |
| `command_unresolved` | see Findings | two runs of one command | |
| `batch_reopen` | see Findings | `retained_batch` with one decision | |

Why the bounds suffice. In the reference store a decision changes the meaning of at most
two addresses, and every property relates two or three decisions, so four decisions over two
Beads, one Link and one contested address reach each combination of earlier state and request;
a batch is itself several operations, so three decisions do. In the transactional store the
conflicts are pairwise (two claimants of one key) and a dependent has its creator one member
away; two sequences and a call give every pair an order and leave a third party to interfere.
Expiry, failure, cancellation and restart are unbounded in these runs. In the feed a gap or a
repetition arises at one boundary: between two groups, or inside a group that a packet splits;
clients do not read each other's state and meet only in the stream capacity. Traversals need a
first page, one between and a last one; capacities are small enough to be exhausted by two
readers. A client's end is decided by one exchange, the one before it and the signals around
it. Where a schema, a pattern or a selector is evaluated, the inputs are all those of the
stated size. `Replaceable` switches the publication of policies on only where it is the
question.

The limits of a batch are 32 members and 96 aliases. They are the constants
`MaximumOperations` and `MaximumWitnesses`, 3 and 9 in `retained_batch` and `batch_reopen`;
`LongBatch` goes beyond both, with five Links between ten addresses that nothing binds
(`Unbound`). `DrawsElsewhere`, an action constraint, keeps the addresses drawn by the server
apart from those ten: they are as good as any other, and there only to be looked up.

`feed` narrows what the second client asks for (`Narrowed` in `MCTransactionFeed`): streams of
the change feed, from its beginning or from the present, that need not wait, until it has received
an item; and a third group is committed only if it never asked. That client is there to compete
for the stream, and everything the first does is free. No fairness is assumed of what is
narrowed, neither of asking nor of committing.

`tx_retries` narrows what arrives, by the action constraint `Narrowed`: of the sequences,
requests and interruptions that may arrive there are three families, and within each the
owner is free. It narrows the environment alone; a state the owner may leave is always left in
the ways the owner has.

Symmetry is used in the runs that check no liveness: keys of the reference store
(`KeySymmetry`), sequences (`CallerSymmetry`; nothing in the instances of requests tells
them apart), and callers (`Alike`, `Interchangeable`).

Deadlock is checked in `tx_sequences`, the feed and `members`. Elsewhere
`CHECK_DEADLOCK FALSE` says that the system may really stop: the store with its last decision
made, an algorithm at its result, a client or a server that has ended, the narrowed arrivals of
`tx_retries` in a stopped process.

`VerdictsStand` deserves a comment: while a member is unresolved, a direct request with its
key may already be told that it conflicts; this must stay true whatever the creators and
aliases turn out to be. The requests of which this cannot be said are those naming aliases the
receipt did not witness, which the code reads anew each time. `RetriesMeetTheirReceipts`
excludes a retry whose creator permanently failed in that very attempt: the failure may be
forgotten and its key taken by another sequence, so the dependent has a receipt bound to a
Resource the failed attempt does not know. The protocol's text describes the same conflict
(`specs/history/pre-canonical-20261101/profiles/write/write.md`).

### Findings

`command_unresolved`: `docs/cli-design/bdp-cli.md:272-274` says that a transient response to a
replay "is not a terminal disposition for the original key; an unresolved original outcome
stays unknown with same-key recovery". `apps/bdp/src/canonical-runtime.ts:915` derives the
outcome of a retry from that retry alone. When the original run reported `unknown` and the
retry is interrupted before its request is dispatched, is refused for an unrelated reason, or
finds the credential changed, it reports `failure` and names no recovery file.

`batch_reopen`: `docs/reference-service.md:48-49` says that the engine "retains identities,
durable outcomes and exact saved responses across reopen". `applyBatch` looks up the References
of a batch before it counts its members (`retained-v01/store.ts:474` before `:482`) and stores
the refusal with every alias it looked up (`:560-570`). `prepareBatch` does not bound the
members; the request's 65536 bytes do, and have room for hundreds. The check of the next start
fails for a batch with more than 96 aliases before it looks at the status of its decision
(`batch-recovery.ts:77-85`). One batch of 49 Links between 98 unbound addresses is refused with
413, and the store never opens again. `GroupedRecoveryAccepts` says that nothing else does this:
the check fails exactly when such a batch (`Overlong`) is among the decisions.

### Fairness

Liveness is stated under the fairness of the code's own continuations and of nothing else.

* `tx_retries` — `WF(Turn(a))`: `executeSequence` asks the scheduler for a turn after each
  member and the scheduler's contract is to deliver it. `WF(Execute(c))`: an admitted direct
  call continues in the next microtask. `WF(Deadline(c))`: the comparison's budget is finite
  and measured once. Nothing is assumed of expiry, publication, failures or restarts, and a
  process that stops releases its calls (`EveryCallEnds` ends with `mode = "stopped"`).
* `feed` — `ServiceFairness`: immediates, poll delays, abort listeners and the deadline of
  a minimum wait. `ShutdownCompletes` assumes nothing of clients: closing ends although they
  never read. `StreamsCatchUp` has the premise that a connected client reads (`Attentive`).
* `lifecycles` — the steps of the part itself and its timers. Servers, peers, ports,
  credential sources, executors and users may be silent for ever.

## Proofs

### The reference store

`RetainedStore_proofs` holds for every set of addresses, keys, documents and edits, any
number of decisions and any number of faults. Assumptions are those of `RetainedTables` and
`RetainedStore` (reserved locators lie in the alias namespace, `None` is no address, and so
on); TLC evaluates them in the runs.

The inductive invariant `IInv` has four parts. `Placed`: an alias locator is neither reserved
nor an identity and its target is a Bead identity; live Resources have identities.
`LinkEndpointsLive`: live Links join live Beads. It is inductive only together with `Placed`,
because a Link's Reference goes through an alias to a Bead identity. `SettledAll`: each
decision carries the identity computed from its own request and witnesses, which is why
a retry is recognised whatever the aliases are today. `IsSequence(events)`. The lemmas state
what each kind of decision preserves of each part; each theorem then has one step per
action. A second invariant, `VInv`, ties version rows to events and gives
`VersionsStayComplete`. `StoreImplementsLedger` maps each step to a step of `DecisionLedger` or
to a stutter: an answer leaves the store only from the committed row of its key.

| theorem | property |
|---|---|
| `Invariance` | `IInv` |
| `TypesHold` | `TypeOK` |
| `AliasesStayPlaced` | `AliasesWellPlaced` |
| `LinksAreLive` | `LinkEndpointsLive` |
| `RetriesAreRecognised` | `RetryIsRecognised` |
| `HistoryStays` | `HistoryIsPermanent` |
| `VersionsStayComplete` | `VersionIndexComplete` |
| `RecoveryAlwaysAccepts` | `RecoveryAccepts` |
| `StoreImplementsLedger` | `ImplementsLedger` |

`RecoveryAccepts` is the largest of them. The check reads the whole log again and judges each
row against the rows before it, so its invariant `RecInv` is the check itself, position by
position, with four things the check does not ask and its next step needs:

* `EventSound`: the revision of an event is no later than its position. The check demands that a
  new revision is not among the earlier ones of its Resource, and only this shows that the next
  position is fresh. It also says that an event's kind is that of its identity.
* `CreationsTold`: an address was created by a decision exactly when the event chain has an event
  of it by then. The check reads creations from the decisions and kinds from the events; a stored
  witness is judged by both.
* `FreshContext`: a live version without a historical source has no previous revision. The
  answer of an update that changes nothing is compared with the row of the version it names.
* `Placed` and `Versioned`, from the two invariants above.

What an old row was judged by lies in a prefix of the two logs. `ChainKept`, `IncidenceKept` and
`DecisionsKept` show that a prefix reads the same after the log has grown (`Grown`), so the old
rows stand (`OldEventStands`, `OldDecisionStands`); `TablesAreCurrent` says that the tables are
what the chain ends in, which turns each condition on the chain into a guard of a request. The
new row is then judged once for decisions that make no transition (`QuietStep`) and once for
those that make one (`CompleteStep`), and `DecisionRecorded` puts the parts together.

### The reference store with batches

`RetainedBatch_proofs` is about `BatchSpec`: single requests and batches over the same tables,
for every set of addresses, requests and batches of any length. Besides the assumptions above
it has `BatchesAssumption`: a batch has members and they are requests of the contract, a handle
names an earlier member that creates what the field asks for (`prepareBatch`), and `Order` lists every address once, so that the final rows, which the code sorts by
address, are a sequence of all that a batch touched.

The inductive invariant `BInv` adds to the parts of `IInv` what relates a decision to the
state it was taken in. `CurrentRevisions`: the revision of a live Resource is its last event.
`Facts` of all decisions together are exactly the events, in order, so that the tables "before
decision `d`" are a prefix of the log. `RowSettled` is `SettledAll` for a row of either kind.
`GuardedOutcome`: the facts before a decision are an initial segment of the events and its
guards hold of that segment. This is inductive where `GuardsHold` is not: `GuardsHold` counts
the facts of the decisions before `d`, and only together with `Facts` is that count the place
at which the decision was taken.

A batch decides its members on a working graph before it publishes anything, so what it
publishes rests on what every prefix of its members left there (`GraphInv`): the working Links
are well joined, what it allocated was free, each member's place in the graph agrees in kind
with what it names, an address not yet touched is as in the tables, and the guards passed so
far are guards on the tables. `WorkingGraphSound` proves it for every number of members, by
the least number for which it could fail (`UpTo`); `GraphsUnfold` is the recursion the working
graph satisfies. `PublishTables`, `PublishedRow` and `PublishedEvents` then read from the final
graph what the one transaction writes. After that `RecordedStep` treats a batch and a single
request alike: a step records one decision (`Recorded`), whose facts are the new events, or
changes no table (`BatchSteps`).

`OneMemberAlwaysAgrees` compares two evaluations of one request: the working graph of a batch
with this member alone, and the single request. `SoloGraph` writes that graph out, with the
witnesses and references it is decided by (`SoloWitnesses`, `SoloReference`); creations, updates
and deletions are then compared check by check (`SoloCreates`, `SoloUpdates`, `SoloDeletes`). It
is about requests without a historical source version, which a member cannot have. Both codes
measure only what an update leaves: one that changes nothing is accepted whatever its size.

`GroupedRecoveryAlwaysAccepts` says that the next start of a store of format 6 accepts its tables
if and only if no batch was kept that is too long and has too many aliases (`Overlong`); it
assumes nothing more of the batches. The start replays every decision from nothing, on a state of its
own. If there is no such batch, each decision stands (`ReplayAccepts`). That
is not inductive, since whether a new decision stands depends on the state the earlier ones leave
in the replay. `ReplayInv` adds this to `BInv`: every decision stood on the state the replay had
reached, and the state after the last one is `Current` — its identities, aliases, live Resources
and position are those of the tables, and it has met the revision of every live Resource.
`Tabular` says that `identities` is a function, so that two of them that agree everywhere are
equal. A batch stands because of what every prefix
of its members left in the working graph: `Traced` keeps for each of them which addresses were
created or deleted by then (`Maps`) and which revision each working Resource still carries, and
the conditions of the replay on mappings (`MappingStands`) and final rows are read from it.

A batch that is not too long keeps few enough aliases: a member has at most two References that
go through the alias table (`BatchWitnessCount`), and `WitnessesAssumption` says that
`MaximumWitnesses` is at least twice `MaximumOperations`, as 96 is of 32. If there is such a batch,
it does not stand (`OverlongFails`) and a replay that failed stays failed (`FailedStays`), so
nothing submitted afterwards repairs the store. The invariant is `GroupedInv`: `BInv`, and
`ReplayInv` while `NoneOverlong` holds; decisions are only ever appended, so that `NoneOverlong`
after a step holds before it (`OverlongStays`).

| theorem | property |
|---|---|
| `BatchInvariance` | `BInv` |
| `BatchLinksAreLive` | `LinkEndpointsLive` |
| `BatchRetriesAreRecognised` | `BatchRetryIsRecognised` |
| `GuardsAlwaysHold` | `GuardsHold` |
| `BatchHistoryStays` | `HistoryIsPermanent` |
| `BatchesImplementLedger` | `ImplementsLedger` |
| `OneMemberAlwaysAgrees` | `OneMemberAgrees` |
| `GroupedRecoveryAlwaysAccepts` | `GroupedRecoveryAccepts` |

### The transactional store

`TransactionStore_proofs` holds for every set of keys, direct calls, sequences in flight,
requests and programs. It assumes `SubmissionsAssumption` (what is admitted has the shape that
`prepareSequence` and `normalizeTransaction` let through: members under keys of their own,
creators earlier members that create; a request of its own refers to Resources and aliases) and
`ClaimantsAssumption` (the absent value is nothing
else, and the claim of a call is not that of a member). TLC evaluates both in the runs.

The inductive invariant `IInv`, part by part, and what needs it:

* `RowShapes`, `CallerShapes`, `TypeOK` — what the tables look like. A receipt differs from its
  request only in its references, and its owner is its transaction or nobody.
* `UnresolvedHasTurn` — a receipt that is still a template is owned by a member of a running
  sequence that has yet to come to it. This is what keeps its creators' facts alive:
  `DeferredHasFacts` is not inductive without it, because the facts of an attempt go with its
  last turn.
* `ClaimsMatchReceipts` — in both directions. That no pending receipt is an orphan needs that no
  execution loses its reservation, and conversely: a sequence that ended owning a key it no longer
  names would break one, a cancellation that drops a key by name the other.
* `RowHasTransaction` — a receipt's transaction is a call, or a member of a sequence that has
  begun, with that member's request. `BoundToCreator` is stated through it.
* `FactsAreAllocations` — a creator's fact is nothing yet, that it failed, or the allocation
  under its key, whose receipt is decided. This carries `BoundToCreator` over the turn of a
  dependent; it is inductive because an effect under a key is never undone or repeated.
* `GroupsHaveReceipts`; and `PolicyLeavesNothing` — the state `PolicyIsFinal` says no step
  leaves.

The steps are classified by what they do to the receipts: reserve, drop, keep, publish, sweep
or finish (`StepRows`). What concerns the receipts alone is proved for these six kinds; what
relates them to callers has one step per action.

`StoreImplementsLedger` maps a reservation to `Reserve`, its release to `Release`, expiry of a
failure to `Forget`, an execution to `Effect` or `Fail`, an answer that repeats a receipt to
`Tell`, and everything else to a stutter. An execution that takes effect and whose answer is lost
is an `Effect` nobody is told of.

Two more invariants are about the answers.

`AInv` gives `VerdictsStand`. Its core, `AnswersStand`, is stronger than the property: while a
receipt is a template, an answer told of it is the answer of *every* resolution the facts
recorded so far leave open, not of the one that comes to be. This is inductive because
a fact is recorded once, so that the resolutions only become fewer, and because the one that
comes to be is among them; the rest of `AInv` says so:

* `FactsFit`: facts are recorded in the order of the members, each once, and each is an identity
  the creation may allocate: the one it supplied, or one committed.
* `AllocationsFit`: the same of what decided receipts allocated, which is what later attempts
  take their facts from.
* `RowsAreRead`: what a pending receipt compares with. A direct reservation normalized its
  request with its own witnesses when it was made and does not look at the aliases again; a
  template has its request as identity and the supplied identities of its own program.
* `ClaimsAreUsed`: a claim that was ever in a receipt or an answer is never made again, so an
  answer told of a transaction that is gone is not contradicted by a new one under its key.

`RInv` gives `RetriesMeetTheirReceipts`. `AnswersAreBound`: whoever was told an effect presented
its creators as what their keys stand for, and an effect under a key is never undone. A
retry with its creators bound therefore presents the same request, and `AnswersStand` excludes
the conflict. `DecidedAreBound`: the references of a decided receipt are Resources.

Both have the hypothesis `[]IdentitiesAreUris`: every identity allocated is one that references
may name (`Uris`). A template compares with the members of `Uris`, so an identity outside it
could be told apart from all of them. `PositionsAreUris` discharges it where `Uris` includes every
position, as the strings of the code do; the instances of the runs satisfy it within their
bounds.

| theorem | property |
|---|---|
| `Invariance` | `IInv` |
| `AnswersInvariance` | `AInv` |
| `PositionsAreUris` | `IdentitiesAreUris` |
| `Verdicts` | `VerdictsStand` |
| `RetriesInvariance` | `RInv` |
| `Retries` | `RetriesMeetTheirReceipts` |
| `Reservations` | `ReservationsAreOwned` |
| `Effects` | `EffectsAreTold` |
| `Policy` | `PolicyIsFinal` |
| `StoreImplementsLedger` | `ImplementsLedger` |

### The transactional feed

`TransactionFeed_proofs` holds for every set of clients and Resources, every stream capacity,
high-water mark and page size, and logs of any groups of Events over the Resources. It assumes
`ReadsAssumption` and `FeedAssumption`, which TLC evaluates in the runs.

`LInv` is `LeasesMatchStreams` with the shape of each connection: a live one has the fields of
a stream and a waiting one those of a request, so that aborting a stream leaves it a stream. A
step that replaces one connection is one lemma (`OneConnectionLeased`); revoking or closing
aborts many at once and is another (`AbortedShaped`). `CInv` adds the bounds: the streams are a
finite set of at most the capacity, a packet is within its limit, and a socket that does not
wait for a drain has room for a frame.

`VInv` adds to `LInv` what the streams hold. What a running stream has yet to write, and what was
selected and not yet opened, was projected under one policy; for a running stream it is the
policy in force. Four facts carry it: a read projects under the present policy
(`PacketOfView`); `StartStream` opens a stream only if the policy is still that of the
response; a running stream has a lease (`LInv`), so publication aborts it; and an aborted
stream writes nothing more. `StreamsKeepTheirView` says of steps what `VInv` says of states,
because `Write` takes its frame from what the stream has yet to write.

`FInv` adds what each client has been told. `FollowsWithoutGap` alone is not inductive: an item
that a client receives was sent long before, perhaps under a policy since replaced. So the
invariant follows the items from the log to the client. What a client took in, followed by what
is on the wire and by what the pump has yet to write, is `Gapless` (each due place once, in the
order of the log, none left out before the last), and the token it will be continued from
`Reaches` exactly as far: a place is told if and only if it is not beyond the token. Three
arguments carry it over the steps.

* *Order.* The log is ordered by position and ordinal, and `InOrder` lists a set by rank; ranks
  fill the numbers below the set's size (`Ranks`, by counting), so a sequence without gaps is a
  prefix of that list (`GaplessIsPrefix`). No induction over sequences is needed.
* *Reading.* A page or packet after a token tells the first places beyond it, and its own
  continuation stands for what it told (`EventsFollow`, `ChangesFollow`); joined to a sequence
  that reaches the token it leaves no gap (`Extends`). A token is acceptable only under the view
  it was given for, or at the very beginning, where nothing has been told (`Admitted`).
* *Growth.* A committed group comes after everything that is due, and beyond every token that
  was given (`GrownLog`).

A broken connection loses what is on the wire, and a prefix of a gapless sequence is gapless
(`SentPrefix`); the client's cursor stands for what it took in, not for what was sent.

| theorem | property |
|---|---|
| `StreamsStayContained` | `StreamsAreContained` |
| `ViewsArePerStream` | `StreamsKeepTheirView` |
| `FeedsAreGapless` | `FollowsWithoutGap` |

### The Read+Update profile

`MemberLifecycle_proofs` holds for every set of principals and of requests of any length, every
retention, any limit of Links at an endpoint, and any number of failures and restarts. It
assumes `CarriersAssumption` (each member is as `ReadUpdateOperation` and its field rules let
it through, and an address it names is below the Scope), `OpaqueAssumption` (so is an
address the store allocates) and `EndpointAssumption`; TLC evaluates them in `members`.

The inductive invariant `IInv` says of the keys what the comparison of a retry rests on:

* `DecidedRow`: a decided row has the identity of the member it was retained for, under
  witnesses `Understood` for that member. That all references through one alias have one
  target is part of it: a retry resolves its aliases by the witnesses and not by the graph, and
  `SameMeaning` shows that it then has the same identity.
* `ClaimsHaveOwners`, which needs that a turn gives up the claim of its own member and that a
  key occurs in the rest of the request wherever it is still claimed.
* A creation of an effect is an address ever used, and belongs to one key. `Consumes` is the
  fact about the operations behind it: what is created was no address before.
* `GraphShape`: live addresses were recorded, and none is an alias.

What a step does to the keys is one of five kinds: keep, reserve, drop claims, forget, or finish
one key (`Steps`). The refinement and the answers read these kinds and no action.

`LinkSound` is what is inductive about the Links. To the property it adds that no address
ever used is external and that the Resources are finitely many, which counting needs. All
operations but those on aliases change one Resource and renew the copies of at most one
other: `ChangeIsSound` says what such a change may leave (a Bead that goes has no Links; a
Link that comes or changes ends at Beads, with room at its target), `CopiesAre` and
`CopiesStand` what happens to the copies. `AllocationIs` needs that a free address in a list
is at some least place.

| theorem | property |
|---|---|
| `Invariance` | `IInv` |
| `KeysStaySettled` | `KeysAreSettled` |
| `GraphStaysSound` | `GraphIsSound` |
| `RetriesTell` | `RetriesAndRevisionsTell` |
| `MembersImplementLedger` | `ImplementsLedger` |

The theorems are about `Spec`; the run `members` restricts it to three families of requests
(`FamilySpec`), each with as many steps as its question needs.

### What has to end

`MCLifecycles_proofs` holds for every set of requests, users and reads, every choice of plans and
streams, and every limit and number of attempts and scenarios. It assumes `PartsAssumption`,
`NoneIsNothing` (the value that stands for a missing one is none of the others) and `LastIsLast`
(what follows the last unit of a framed answer is `extra`); TLC evaluates them in `lifecycles`.

`LifecyclesInv` gives each part the invariant of its own, and a step of the composition is a step of
one part. Of the properties only few are inductive as they stand; what is added:

* *Read server.* `StagesAgree` ties the ends of the process, of the listener and of the server
  to each other, and `OperationSound` says who an operation was ended by: its own signal, or a close
  whose grace is over. An operation that runs during the grace is one that `draining` waits for, so
  none is left when the engine goes.
* *Development server.* `StartSound` says what a start has opened at each of its awaits, and
  `CloseSound` that the requests still pending when the listener has closed are those the close
  waits for. The owner closes after them, because nothing is admitted once `closing` is set.
* *Coordinator.* A callback may enter the coordinator again. `StackSound` says what the stack may
  be: one call, or a callback inside a read; and each call has saved `accepting` or nothing, so that
  restoring a phase never undoes a close. `PhaseSound` derives the state of the plane and of the
  promises from the phase.
* *Delivery.* The outcome of a read follows from where its entry is and from what was captured; a
  second entry makes `failure` certain.
* *Matrix.* An operation that outlives its deadline stays in `running`. `RunningSound` says which
  one that can be at each place, and `ReportsSound` that a scenario that leaves one behind is the
  last one that ran. A recheck names an earlier pass (`PassesRest`), since a scenario whose rechecks
  are unmet never starts.
* *Exchange.* Evidence copies what the socket has written, and `WritesSound` relates that to the
  pieces that were handed over and flushed.

`EverythingEnds` has a safety half, `StepsAreFinal`, proved from the same invariant, and a liveness
half, which stays with TLC.

| theorem | property |
|---|---|
| `LifecyclesInvariant` | `LifecyclesInv` |
| `LifecyclesEndsAreTrue` | `EndsAreTrue` |
| `LifecyclesStepsAreFinal` | `StepsAreFinal` |

### What clients say

`MCClients_proofs` holds for every set of commands, keys and credentials, every number of runs and
callers, every plan of exchanges and every three positive times. It assumes `ClientsAssumption`
(the times are positive, the kinds of calls are known, a submission is the last exchange of its
plan) and `NoneIsNothing`; TLC evaluates them in `clients`.

`ClientsInv` is an invariant for each part, and a step of the composition is a step of one part:

* *Command line.* `JournalsSound` says that a journal holds the request of the run that wrote it,
  whatever stage it has reached, and `PlacesSound` which journal a run names at each of its
  places: its own, which is then saved, or the one it sends again. `SentSound` relates the
  server's decisions to what was answered: a key is decided for a request that was sent and
  answered so. So all that is sent for one journal has one key, which is decided once, and a run
  that nobody shares its key with has had exactly the effect that it was told.
* *Retained operation.* An exchange that is interrupted ends by its own deadline, and the operation
  renames that end. `FailureSound` says that at every cleanup the failure has the first of the
  signals for its cause, and `SignalsSound` that whoever waits has had no signal, so that the
  deadline of an exchange comes first only when it is alone. `ClockSound`
  bounds the clock at each place: an exchange by its deadline, a cleanup by its window, the next
  exchange by the check before it. A stream that breaks leaves nothing to clean up, so that no
  timer fires between the failure and its end; without that, its end could tell the wrong cause.
* *Read+Update calls.* `SubmissionSound` says that only the last exchange of a mutation submits,
  and `TellingSound` that a call which goes on behind its end is stopped, so that what was told
  not to be submitted never is.

| theorem | property |
|---|---|
| `ClientsAreSound` | `ClientsInv` |
| `ClientsTellTheTruth` | `EndsAreTrue` |

### Only model-checked

* The properties of the runs `observations` and `evaluation`, and the liveness half of
  `EverythingEnds`.
* `TraversalsAreWhole` and `PlacesAreKept` of the run `clients`: the places and the counts of a
  session are filters and folds of sequences, about which the prover knows nothing.

Out of the prover's reach altogether: liveness, because the prover does not reason about
`ENABLED`; what a recursive definition computes for every input of a data type, because that is
an induction over data (schemas, patterns, selectors); and modules with `RECURSIVE` operators.
Induction over the members of a batch or the places of a log is within reach: the statement for
every number up to a bound follows from the least number for which it fails.

## Not modelled

* Transactional store: parsing of batches, projection of labels, size limits. Snapshots: the
  commitments that detect tampering.
* Groups: aliases inside a group, numeric admission, diagnostics.
* Read+Update: refusal by media type, a change of principal, the end of the revision counter,
  policies, schemas, patches and size limits of members; that the owner delivers turns.
* Pagination: the idle timer is modelled for safety only.
* Command lines: grammar, compilation of input, layout, ordinals; `bdpbd` and `bdptest`; the
  durability of a journal's directory that was just created.
* Clients: relabelling of probes, the discover operation, validation of bodies.
* Reference store: which of a Link's two ends decides the code of its refusal when both are bad.
* Conformance runner: the limit of observations of a scenario, private Transactional actions, validation of options, plans and bindings,
  assertions, manifests, artifacts, reports, the fetch executor.
* Read server: parsing and headers. Selectors: scanning. Development server: credentials, routing.
* Schemas: building the graph, arrays, scalar assertions, decimals, budgets. Patterns: parsing,
  character classes.
* Authority reads: validation of options, selectors, collections of Types; a signal that throws
  when its listener is removed.
* Protocol types and parsers, adapters and the bd domain, configuration: pure functions of one
  document. HTTP handling is represented by the calls it makes.

## Plan

1. `TransactionSnapshot`: pages of one capture.
2. `ReadsAreOneObservation`, part by part.
