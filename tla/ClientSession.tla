---------------------------- MODULE ClientSession ----------------------------
(***************************************************************************)
(* A Read client of the client library: its operations (BdpClient#perform, *)
(* performHistory, discover), the discovery they share, and the registry   *)
(* of the continuation URLs the server issued to their traversals          *)
(* (SessionCore, ContinuationRegistry).                                    *)
(*                                                                         *)
(* A context is [kind, subject, variant]: a collection (its name, no       *)
(* variant), a Bead's Links (the Bead, the direction) or the versions of a *)
(* resource (the resource, the limit).  A request names the kind and the   *)
(* subject; a continuing request takes its context from the registry.      *)
(* A continuation lives in `entries`, one sequence per URL, or is leased   *)
(* to the operation that is using it.                                      *)
(***************************************************************************)
EXTENDS Integers, Sequences, FiniteSets, SequencesExt

CONSTANTS
  Callers,          \* callers: one operation of each at a time
  Urls,             \* the URLs the server may issue
  Contexts,         \* the contexts of the requests
  Owners,           \* continuation scopes, the absent one included
  NoUrl, NoLease,   \* neither a URL nor an entry
  MaxContexts,      \* MAXIMUM_CONTINUATION_CONTEXTS
  MaxHistory,       \* MAXIMUM_CONTINUATION_HISTORY_ENTRIES
  MaxLate           \* bound: transport calls left unsettled behind their operations

SessionAssumption ==
  /\ NoUrl \notin Urls
  /\ MaxContexts \in Nat
  /\ MaxHistory \in Nat

VARIABLES
  ops,        \* per caller: its operation
  entries,    \* ContinuationRegistry.entries
  size,       \* ContinuationRegistry.size
  held,       \* ContinuationRegistry.historySize
  discovery,  \* "none", "probing", "describing", "stopping" or "known"
  late,       \* transport calls still running after their operation has ended
  client      \* "open", "closing", "settling" or "closed"

registry == <<entries, size, held>>
vars == <<ops, entries, size, held, discovery, late, client>>

(* A continuation is [context, owner, history, pages]: the URLs its          *)
(* traversal has met and, a ghost, the number of pages it has read.         *)
Idle == [phase |-> "idle", context |-> NoLease, owner |-> NoLease, url |-> NoUrl,
         lease |-> NoLease, aborted |-> FALSE, answer |-> NoUrl, last |-> "none"]

Init ==
  /\ ops = [c \in Callers |-> Idle]
  /\ entries = [u \in Urls |-> << >>]
  /\ size = 0
  /\ held = 0
  /\ discovery = "none"
  /\ late = 0
  /\ client = "open"

-----------------------------------------------------------------------------
(* The registry.  Its operators are about the entries after the change.    *)

Leased == {c \in Callers : ops[c].lease # NoLease}

HistoryIn(s) == FoldLeft(LAMBDA n, e : n + Cardinality(e.history), 0, s)

(* The entries of `owner` a request for (kind, subject) may continue.      *)
Matches(entry, owner, context) ==
  /\ entry.owner = owner
  /\ entry.context.kind = context.kind
  /\ entry.context.subject = context.subject

(* entries.findIndex: the first entry at `url` that matches; 0 when none.  *)
Found(url, owner, context) ==
  SelectInSeq(entries[url], LAMBDA e : Matches(e, owner, context))

(* The traversal at `url` of another direction of the same Bead's Links, or *)
(* another History traversal: what commit refuses next to `context`.       *)
OtherDirection(e, owner, context) ==
  /\ context.kind = "bead-links"
  /\ Matches(e, owner, context)
  /\ e.context.variant # context.variant

OtherHistory(e, owner, context) ==
  /\ context.kind = "history-versions"
  /\ e.owner = owner
  /\ e.context.kind = "history-versions"

(* Mutant: only what is available is looked at, not what is leased.         *)
Conflicts_available(c, next, owner, context) ==
  \E i \in DOMAIN entries[next] :
    \/ OtherDirection(entries[next][i], owner, context)
    \/ OtherHistory(entries[next][i], owner, context)

Conflicts(c, next, owner, context) ==
  \/ \E i \in DOMAIN entries[next] :
       \/ OtherDirection(entries[next][i], owner, context)
       \/ OtherHistory(entries[next][i], owner, context)
  \/ \E d \in Leased :
       /\ ops[d].url = next
       /\ \/ OtherDirection(ops[d].lease, owner, context)
          \/ d # c /\ OtherHistory(ops[d].lease, owner, context)

(* Commit's refusals, in its order: a repeated URL or a cycle, a URL that  *)
(* another traversal of the owner holds, no room for one more continuation *)
(* or for one more URL of a history.                                       *)
HistoryOf(lease) == IF lease = NoLease THEN {} ELSE lease.history
PagesOf(lease) == IF lease = NoLease THEN 0 ELSE lease.pages
Spent(c) == IF ops[c].lease = NoLease THEN 0 ELSE 1

Repeats(c, next) == next = ops[c].url \/ next \in HistoryOf(ops[c].lease)

Full(c, next) ==
  IF next = NoUrl THEN FALSE
  ELSE size - Spent(c) + 1 > MaxContexts \/ held + 1 > MaxHistory

CommitRefused(c, next) ==
  CASE next # NoUrl /\ Repeats(c, next) -> "problem"
    [] next # NoUrl /\ Conflicts(c, next, ops[c].owner, ops[c].context) -> "problem"
    [] Full(c, next) -> "failed"
    [] OTHER -> "no"

(* ContinuationRegistry.commit: the lease is spent; the next URL, if any,  *)
(* becomes available with the traversal's history.                         *)
Commit(c, next) ==
  LET op == ops[c] IN
  IF next = NoUrl
  THEN /\ size' = size - Spent(c)
       /\ held' = held - Cardinality(HistoryOf(op.lease))
       /\ UNCHANGED entries
  ELSE /\ entries' = [entries EXCEPT ![next] = Append(@,
              [context |-> op.context, owner |-> op.owner,
               history |-> HistoryOf(op.lease) \union {next},
               pages |-> PagesOf(op.lease) + 1])]
       /\ size' = size - Spent(c) + 1
       /\ held' = held + 1

(* release, unless the client is closed: ContinuationRegistry.restore makes *)
(* the continuation available again, and counts nothing.                   *)
Restore(c) ==
  /\ entries' = IF ops[c].lease = NoLease \/ client = "closed" THEN entries
                ELSE [entries EXCEPT ![ops[c].url] = Append(@, ops[c].lease)]
  /\ UNCHANGED <<size, held>>

-----------------------------------------------------------------------------
(* An operation's steps.                                                   *)

(* The operation ends: its signal is detached, its completion resolved.    *)
Ended(op, outcome) == [Idle EXCEPT !.last = outcome]

(* It waits for the discovery in flight, starting one when none is; a      *)
(* known discovery resolves at the next turn.                              *)
AwaitDiscovery(c, op) ==
  IF discovery = "known"
  THEN /\ ops' = [ops EXCEPT ![c] = [op EXCEPT !.phase = "described"]]
       /\ UNCHANGED discovery
  ELSE /\ ops' = [ops EXCEPT ![c] = [op EXCEPT !.phase = "discovering"]]
       /\ discovery' = IF discovery = "none" THEN "probing" ELSE discovery

(* perform or performHistory of a first page: admitted while open.         *)
BeginFirst(c) ==
  /\ client = "open"
  /\ ops[c].phase = "idle"
  /\ \E context \in Contexts, owner \in Owners :
       AwaitDiscovery(c, [Idle EXCEPT !.context = context, !.owner = owner])
  /\ UNCHANGED <<registry, late, client>>

(* ... of a further page: the continuation is taken out of the registry    *)
(* before anything is awaited.                                             *)
BeginNext(c) ==
  /\ client = "open"
  /\ ops[c].phase = "idle"
  /\ \E url \in Urls, owner \in Owners, context \in Contexts :
       LET at == Found(url, owner, context)
           entry == entries[url][at]
       IN /\ at # 0
          /\ entries' = [entries EXCEPT ![url] = RemoveAt(@, at)]
          /\ AwaitDiscovery(c, [Idle EXCEPT !.context = entry.context, !.owner = owner,
                                            !.url = url, !.lease = entry])
  /\ UNCHANGED <<size, held, late, client>>

(* ... of a further page nothing in the registry matches: a local error.   *)
BeginRefused(c) ==
  /\ client = "open"
  /\ ops[c].phase = "idle"
  /\ \E url \in Urls, owner \in Owners, context \in Contexts :
       Found(url, owner, context) = 0
  /\ ops' = [ops EXCEPT ![c] = Ended(@, "failed")]
  /\ UNCHANGED <<registry, discovery, late, client>>

(* The operation's signal is aborted: a wait it is in is rejected.  A      *)
(* transport call it was waiting for goes on without it.                   *)
Aborted(op) ==
  [op EXCEPT !.aborted = TRUE,
             !.phase = IF @ \in {"discovering", "fetching"} THEN "rejected" ELSE @]

CallerAborts(c) ==
  /\ ops[c].phase # "idle"
  /\ ~ops[c].aborted
  /\ ops[c].phase = "fetching" => late < MaxLate
  /\ ops' = [ops EXCEPT ![c] = Aborted(@)]
  /\ late' = IF ops[c].phase = "fetching" THEN late + 1 ELSE late
  /\ UNCHANGED <<registry, discovery, client>>

(* The rejection reaches the operation: release restores its continuation. *)
Rejected(c) ==
  /\ ops[c].phase = "rejected"
  /\ Restore(c)
  /\ ops' = [ops EXCEPT ![c] = Ended(@, "aborted")]
  /\ UNCHANGED <<discovery, late, client>>

(* The discovery resolved: the request is routed.  The URL refused by the  *)
(* routing is a problem; an operation aborted meanwhile sends nothing.     *)
(* Mutant: the signal is not looked at between discovery and transport.     *)
MustStop_never(c) == FALSE

MustStop(c) == ops[c].aborted

Route(c) ==
  /\ ops[c].phase = "described"
  /\ \/ /\ Restore(c)
        /\ \E outcome \in {"problem", "failed"} :
             ops' = [ops EXCEPT ![c] = Ended(@, outcome)]
     \/ /\ MustStop(c)
        /\ Restore(c)
        /\ ops' = [ops EXCEPT ![c] = Ended(@, "aborted")]
     \/ /\ ~MustStop(c)
        /\ ops' = [ops EXCEPT ![c].phase = "fetching"]
        /\ UNCHANGED registry
  /\ UNCHANGED <<discovery, late, client>>

(* The transport settles: a page with the next URL, or with none.          *)
Respond(c) ==
  /\ ops[c].phase = "fetching"
  /\ \E next \in Urls \union {NoUrl} :
       ops' = [ops EXCEPT ![c].phase = "page", ![c].answer = next]
  /\ UNCHANGED <<registry, discovery, late, client>>

(* ... with a problem, a rejection, or a body its validation refuses: the  *)
(* continuation is restored, whether or not the signal is aborted by then. *)
RespondBadly(c) ==
  /\ ops[c].phase = "fetching"
  /\ Restore(c)
  /\ \E outcome \in {"problem", "failed"} :
       ops' = [ops EXCEPT ![c] = Ended(@, outcome)]
  /\ UNCHANGED <<discovery, late, client>>

(* The page reaches the operation: committed unless it was aborted.        *)
Accept(c) ==
  LET refused == CommitRefused(c, ops[c].answer) IN
  /\ ops[c].phase = "page"
  /\ IF ops[c].aborted \/ refused # "no"
     THEN /\ Restore(c)
          /\ ops' = [ops EXCEPT ![c] =
                       Ended(@, IF ops[c].aborted THEN "aborted" ELSE refused)]
     ELSE /\ Commit(c, ops[c].answer)
          /\ ops' = [ops EXCEPT ![c] = Ended(@, "page")]
  /\ UNCHANGED <<discovery, late, client>>

(* forgetContinuations: what `owner` has available, not what is leased.    *)
Forget(owner) ==
  LET Own(e) == e.owner = owner
      gone == [u \in Urls |-> SelectSeq(entries[u], Own)]
  IN /\ \E u \in Urls : gone[u] # << >>
     /\ entries' = [u \in Urls |-> SelectSeq(entries[u], LAMBDA e : ~Own(e))]
     /\ size' = size - MapThenSumSet(LAMBDA u : Len(gone[u]), Urls)
     /\ held' = held - MapThenSumSet(LAMBDA u : HistoryIn(gone[u]), Urls)
     /\ UNCHANGED <<ops, discovery, late, client>>

-----------------------------------------------------------------------------
(* Discovery: one load for every operation that waits, an operation of its *)
(* own that only close aborts.                                             *)

Waiting(c) == ops[c].phase = "discovering"

Probed ==
  /\ discovery = "probing"
  /\ discovery' = "describing"
  /\ UNCHANGED <<ops, registry, late, client>>

(* Known for good: the waiting operations resolve.                         *)
Discovered ==
  /\ discovery = "describing"
  /\ discovery' = "known"
  /\ ops' = [c \in Callers |->
               IF Waiting(c) THEN [ops[c] EXCEPT !.phase = "described"] ELSE ops[c]]
  /\ UNCHANGED <<registry, late, client>>

(* It failed: every waiting operation ends with the failure, and the next  *)
(* one starts another.                                                     *)
RestoreAll(released) ==
  /\ \E order \in SetToSeqs(released) :
       entries' = [u \in Urls |->
         LET at == SelectSeq(order, LAMBDA c : ops[c].url = u)
         IN entries[u] \o [i \in DOMAIN at |-> ops[at[i]].lease]]
  /\ UNCHANGED <<size, held>>

NotDiscovered ==
  /\ discovery \in {"probing", "describing"}
  /\ discovery' = "none"
  /\ \E outcome \in {"problem", "failed"} :
       ops' = [c \in Callers |-> IF Waiting(c) THEN Ended(ops[c], outcome) ELSE ops[c]]
  /\ RestoreAll({c \in Callers : Waiting(c) /\ ops[c].lease # NoLease})
  /\ UNCHANGED <<late, client>>

DiscoveryStops ==
  /\ discovery = "stopping"
  /\ discovery' = "none"
  /\ UNCHANGED <<ops, registry, late, client>>

-----------------------------------------------------------------------------
(* The end of the client.                                                  *)

LateSettles ==
  /\ late > 0
  /\ late' = late - 1
  /\ UNCHANGED <<ops, registry, discovery, client>>

(* close: every admitted operation, the discovery included, is aborted.    *)
InFlight == {"probing", "describing"}

Close ==
  /\ client = "open"
  /\ client' = "closing"
  /\ ops' = [c \in Callers |-> IF ops[c].phase = "idle" THEN ops[c] ELSE Aborted(ops[c])]
  /\ late' = late + Cardinality({c \in Callers : ops[c].phase = "fetching"})
                  + (IF discovery \in InFlight THEN 1 ELSE 0)
  /\ discovery' = IF discovery \in InFlight THEN "stopping" ELSE discovery
  /\ UNCHANGED registry

(* ... their completions awaited ...                                       *)
AllEnded == (\A c \in Callers : ops[c].phase = "idle") /\ discovery # "stopping"

CloseSettles ==
  /\ client = "closing"
  /\ AllEnded
  /\ client' = "settling"
  /\ UNCHANGED <<ops, registry, discovery, late>>

(* ... and the transport calls too until a timer fires, which need not wait *)
(* for any of them: then nothing is kept.                                  *)
CloseEnds ==
  /\ client = "settling"
  /\ client' = "closed"
  /\ entries' = [u \in Urls |-> << >>]
  /\ size' = 0
  /\ held' = 0
  /\ UNCHANGED <<ops, discovery, late>>

Next ==
  \/ \E c \in Callers :
       \/ BeginFirst(c) \/ BeginNext(c) \/ BeginRefused(c)
       \/ CallerAborts(c) \/ Rejected(c)
       \/ Route(c) \/ Respond(c) \/ RespondBadly(c) \/ Accept(c)
  \/ \E owner \in Owners : Forget(owner)
  \/ Probed \/ Discovered \/ NotDiscovered \/ DiscoveryStops
  \/ LateSettles \/ Close \/ CloseSettles \/ CloseEnds

Spec == Init /\ [][Next]_vars

(* What runs by itself: rejected waits and resolved continuations, close's *)
(* steps and its timer.  Nothing obliges a transport to settle.            *)
Local(c) == Rejected(c) \/ Route(c) \/ Accept(c)

Fairness ==
  /\ \A c \in Callers : WF_vars(Local(c))
  /\ WF_vars(DiscoveryStops)
  /\ WF_vars(CloseSettles)
  /\ WF_vars(CloseEnds)
-----------------------------------------------------------------------------
(* What the Read client promises about its operations and their traversals. *)

(* The two counts the registry keeps by hand are exact through leases,      *)
(* restores and forgetting, so its bounds neither leak nor let more in:     *)
(* size is what is available or leased, historySize their histories.        *)
CountsAreExact ==
  /\ size = MapThenSumSet(LAMBDA u : Len(entries[u]), Urls) + Cardinality(Leased)
  /\ held = MapThenSumSet(LAMBDA u : HistoryIn(entries[u]), Urls)
              + MapThenSumSet(LAMBDA c : Cardinality(ops[c].lease.history), Leased)

(* The continuations of one URL, available or leased.                       *)
At(u) == {entries[u][i] : i \in DOMAIN entries[u]}
           \union {ops[c].lease : c \in {d \in Leased : ops[d].url = u}}

(* A request that names a Bead and a URL can only mean one direction: under *)
(* one owner, a URL is never held for two directions of the same Bead's     *)
(* Links, whatever was leased, restored or committed in between (reserve    *)
(* matches the Bead only).                                                  *)
DirectionsAreApart ==
  \A u \in Urls : \A e, f \in At(u) :
    (Matches(e, f.owner, f.context) /\ e.context.kind = "bead-links")
      => e.context.variant = f.context.variant

(* Under one owner, a URL belongs to one History traversal at most.         *)
HistoriesAreApart ==
  \A u \in Urls, owner \in Owners :
    LET Mine(e) == e.owner = owner /\ e.context.kind = "history-versions"
    IN Len(SelectSeq(entries[u], Mine))
         + Cardinality({c \in Leased : ops[c].url = u /\ Mine(ops[c].lease)}) <= 1

(* A traversal never reads a page twice: it has met as many URLs as it has  *)
(* read pages, so a server that repeats itself cannot keep a caller going   *)
(* round (commit's tests of the URL and of the history).                    *)
TraversalsDoNotCycle == \A u \in Urls : \A e \in At(u) : e.pages = Cardinality(e.history)

(* How often continuation `e` stands at `u`, available or leased.           *)
Places(u, e) ==
  Len(SelectSeq(entries[u], LAMBDA f : f = e))
    + Cardinality({c \in Leased : ops[c].url = u /\ ops[c].lease = e})

(* A continuation goes away only because its caller got the page, because   *)
(* it was forgotten while nobody used it, or at the end of the client: a    *)
(* failed, refused or aborted call can be made again.                       *)
Answered(u, e) ==
  {c \in Leased : ops[c].url = u /\ ops[c].lease = e
                    /\ ops'[c].phase = "idle" /\ ops'[c].last = "page"}
Forgetting == ops' = ops /\ client' = client

PlacesAreKept ==
  \A u \in Urls : \A e \in At(u) :
    \/ Places(u, e)' >= Places(u, e) - Cardinality(Answered(u, e))
    \/ Forgetting /\ Cardinality({c \in Leased : ops[c].url = u /\ ops[c].lease = e})
                       <= Places(u, e)'
    \/ client' = "closed"

(* Aborting one caller leaves the discovery the others wait for in flight:  *)
(* nobody waits for a discovery that nobody is loading.                     *)
WaitersAreServed == (\E c \in Callers : Waiting(c)) => discovery \in InFlight

(* Once close was called nothing more is sent, by an operation or by the    *)
(* discovery.                                                               *)
Sending == {c \in Callers : ops[c].phase = "fetching"}
NothingSentAfterClose ==
  client # "open" => Sending' \subseteq Sending /\ discovery' \in {discovery, "none"}

(* A closed client keeps nothing, and nothing brings a continuation back.   *)
ClosedIsEmpty ==
  client = "closed" =>
    /\ \A u \in Urls : At(u) = {}
    /\ size = 0 /\ held = 0
===============================================================================
