---------------------------- MODULE TransactionFeed ----------------------------
(***************************************************************************)
(* What the transactional authority's log of change groups shows to a      *)
(* reader: pages of the changefeed and of the Events of a source, and the  *)
(* packets of a live stream (transaction-changefeed.ts,                    *)
(* transaction-events.ts and the reads of transaction-store.ts).           *)
(*                                                                         *)
(* A feed is "changes", "scope" (the Scope's Events) or a Resource (the    *)
(* Events that concern it).  A token stands for a checkpoint, an Event     *)
(* cursor and the position of a scan: everything up to event ordinal of    *)
(* group at has been read.  Ordinals count from one; the changefeed has    *)
(* one item per group, of ordinal zero.                                    *)
(***************************************************************************)
EXTENDS Integers, Sequences, FiniteSets, SequencesExt, Functions

CONSTANTS
  Resources,     \* the Resources whose Events are read
  MaximumItems   \* Events per page or packet

Feeds == {"changes", "scope"} \cup Resources

ASSUME ReadsAssumption ==
  /\ MaximumItems \in Nat \ {0}
  /\ Resources \cap {"changes", "scope"} = {}

VARIABLES
  groups,      \* by position: for each event of the group the Resources it concerns
  generation   \* of the authorization policy; it names the authorization view

Position == Len(groups)

\* No checkpoint and no cursor; "genesis" in the changefeed, under every view.
Start == [at |-> 0, ordinal |-> 0, view |-> 0]
Token(n, o) == [at |-> n, ordinal |-> o, view |-> generation]
Checkpoint(n) == IF n = 0 THEN Start ELSE Token(n, 0)
\* Mutant: a token is not bound to the view it was given under.
Acceptable_anyView(token) == token.at \in Nat

\* A token is well-formed, and of the view in force.
Acceptable(token) == token.at \in Nat /\ (token.at = 0 \/ token.view = generation)

Item(n, o) == [position |-> n, ordinal |-> o, view |-> generation]
TokenOf(item) == [at |-> item.position, ordinal |-> item.ordinal, view |-> item.view]

Concerns(feed, facts) == feed = "scope" \/ feed \in facts

\* A Resource that no committed group created, or that the policy hides, is no
\* source.
Known(feed) ==
  feed \in Resources =>
    generation = 0 /\ \E n \in 1..Position : feed \in UNION Range(groups[n])

\* The ordinals group n has beyond a token; the published policy shows none.
Shown(feed, n, token) ==
  {o \in 1..Len(groups[n]) : /\ generation = 0 /\ Concerns(feed, groups[n][o])
                             /\ n = token.at => o > token.ordinal}

\* The order of the log.
Before(p, q) == p.position < q.position \/ (p.position = q.position /\ p.ordinal < q.ordinal)
InOrder(S) ==
  [i \in 1..Cardinality(S) |-> CHOOSE p \in S : Cardinality({q \in S : Before(q, p)}) = i - 1]

\* The Events group n has beyond a token, and these in order.
Beyond(feed, n, token) == {Item(n, o) : o \in Shown(feed, n, token)}
Remaining(feed, n, token) == InOrder(Beyond(feed, n, token))

FirstGroup(token) == IF token.at = 0 THEN 1 ELSE token.at
Limited(items) == SubSeq(items, 1, IF Len(items) < MaximumItems THEN Len(items) ELSE MaximumItems)

\* One group of the changefeed: invisible groups are shown as bare advances.
ChangesAfter(token) ==
  IF token.at < Position THEN <<Item(token.at + 1, 0)>> ELSE <<>>

\* A page of Events runs over groups until it is full.
EventPage(feed, token) ==
  Limited(InOrder(UNION {Beyond(feed, n, token) : n \in FirstGroup(token)..Position}))

Page(feed, token) == IF feed = "changes" THEN ChangesAfter(token) ELSE EventPage(feed, token)

\* Mutant: a group that shows the source nothing does not advance the scan.
EventPacket_stuck(feed, token) ==
  LET at == FirstGroup(token)
      rest == Remaining(feed, at, token)
      items == Limited(rest) IN
  IF at > Position THEN [items |-> <<>>, next |-> Token(at, 0)]
  ELSE [items |-> items,
        next |-> IF items # <<>> /\ Len(items) = Len(rest) THEN Token(at + 1, 0)
                 ELSE Token(at, IF items = <<>> THEN 0 ELSE Last(items).ordinal)]

\* A packet of a live stream reads one group and says where the next begins.
EventPacket(feed, token) ==
  LET at == FirstGroup(token)
      rest == Remaining(feed, at, token)
      items == Limited(rest) IN
  IF at > Position THEN [items |-> <<>>, next |-> Token(at, 0)]
  ELSE [items |-> items,
        next |-> IF Len(items) = Len(rest) THEN Token(at + 1, 0)
                 ELSE Token(at, Last(items).ordinal)]

\* An empty page of the changefeed goes on from where it was asked.
Packet(feed, token) ==
  IF feed = "changes"
  THEN LET items == ChangesAfter(token) IN
       [items |-> items, next |-> IF items = <<>> THEN token ELSE Checkpoint(token.at + 1)]
  ELSE EventPacket(feed, token)
-----------------------------------------------------------------------------
(***************************************************************************)
(* Clients that follow the log of change groups, by finite pages and by    *)
(* live streams, while groups commit, the authorization policy is          *)
(* published, connections break and the service closes (the feed part of   *)
(* transaction-service.ts, transaction-sse.ts, transaction-runtime.ts and  *)
(* the authorization leases of transaction-store.ts).                      *)
(*                                                                         *)
(* Commit and Publish stand for the steps of TransactionStore that append  *)
(* a group and replace the policy.  Each client has at most one request or *)
(* stream at a time.                                                       *)
(***************************************************************************)

CONSTANTS
  Clients,
  None,
  Bodies,           \* the groups that may commit
  MaximumGroups,    \* bound on the log
  Minima,           \* minimum positions a request may ask for
  MaximumStreams,   \* the service's stream capacity
  HighWater,        \* frames the socket accepts before it asks to wait for a drain
  Replaceable       \* whether the operator replaces the authorization policy

ASSUME FeedAssumption ==
  /\ MaximumGroups \in Nat /\ Minima \subseteq Nat
  /\ MaximumStreams \in Nat \ {0} /\ HighWater \in Nat \ {0}
  /\ \A b \in Bodies : b \in Seq(SUBSET Resources)

VARIABLES
  mode,      \* the service: "open", "closing", "stopped"
  conns,     \* client -> its request or stream
  leases,    \* the streams whose authorization leases the owner holds
  clients    \* client -> [feed, cursor, anchor, seen]: what it has and resumes from

vars == <<groups, generation, mode, conns, leases, clients>>
log == <<groups, generation>>

Idle == [phase |-> "idle"]
Fresh == [feed |-> None, cursor |-> None, anchor |-> 0, seen |-> <<>>]

Phase(c) == conns[c].phase
Live(c) == Phase(c) = "live"
Streams == {c \in Clients : Live(c)}

\* The client takes in an item: it will resume from it.
Seeing(client, item) ==
  [client EXCEPT !.cursor = TokenOf(item), !.seen = Append(@, item)]
SeeingAll(client, items) ==
  IF items = <<>> THEN client
  ELSE [client EXCEPT !.cursor = TokenOf(Last(items)), !.seen = @ \o items]

\* Told that its cursor belongs to another view, a client begins anew.
Refused(client) ==
  IF client.cursor = None \/ ~Acceptable(client.cursor) THEN Fresh ELSE client

Aborted(C) ==
  [c \in Clients |-> IF c \in C /\ Live(c) THEN [conns[c] EXCEPT !.aborted = TRUE] ELSE conns[c]]
-----------------------------------------------------------------------------
(* The authority's log. *)

Commit ==
  /\ mode # "stopped" /\ generation = 0 /\ Position < MaximumGroups
  /\ \E b \in Bodies : groups' = Append(groups, b)
  /\ UNCHANGED <<generation, mode, conns, leases, clients>>

\* The policy is replaced and every lease revoked in one run.
Publish ==
  /\ Replaceable /\ mode # "stopped" /\ generation = 0
  /\ generation' = 1
  /\ conns' = Aborted(leases)
  /\ leases' = {}
  /\ UNCHANGED <<groups, mode, clients>>
-----------------------------------------------------------------------------
(* Requests: changes, events and beginEvents with their minimum waits. *)

\* Answers to an attempt: "missing", "foreign", "behind" or "page".  The
\* changefeed checks its checkpoint first and Events their cursor last.
AttemptAnswer(r) ==
  LET foreignMinimum == r.minimum # 0 /\ r.context # generation IN
  CASE ~Known(r.feed) -> "missing"
    [] r.feed = "changes" /\ ~Acceptable(r.token) -> "foreign"
    [] foreignMinimum -> "foreign"
    [] Position < r.minimum -> "behind"
    [] ~Acceptable(r.token) -> "foreign"
    [] OTHER -> "page"

Selected(r) ==
  LET packet == Packet(r.feed, r.token) IN
  [phase |-> "selected", feed |-> r.feed, view |-> generation,
   items |-> packet.items, next |-> packet.next]

\* A finite page is delivered with its answer, or lost on the way.
Delivered(client, r) ==
  SeeingAll([client EXCEPT !.cursor = IF r.feed = "changes" THEN r.token ELSE @],
            Page(r.feed, r.token))

\* One attempt of request r by client c, who is known to the service as me.
Attempt(c, r, me) ==
  LET answer == AttemptAnswer(r) IN
  \/ /\ answer = "behind"
     /\ conns' = [conns EXCEPT ![c] = [r EXCEPT !.phase = "waiting"]]
     /\ clients' = [clients EXCEPT ![c] = me]
  \/ /\ answer \in {"missing", "foreign"}
     /\ conns' = [conns EXCEPT ![c] = Idle]
     /\ clients' = [clients EXCEPT ![c] = Refused(me)]
  \/ /\ answer = "page" /\ r.media = "json"
     /\ conns' = [conns EXCEPT ![c] = Idle]
     /\ \E received \in BOOLEAN :
          clients' = [clients EXCEPT ![c] = IF received THEN Delivered(me, r) ELSE me]
  \/ /\ answer = "page" /\ r.media = "sse"
     /\ conns' = [conns EXCEPT ![c] = Selected(r)]
     /\ clients' = [clients EXCEPT ![c] = me]

Request(feed, token, minimum, media) ==
  [phase |-> "new", feed |-> feed, token |-> token, minimum |-> minimum,
   context |-> generation, media |-> media]

\* A client resumes from what it has, or begins: the changefeed at genesis or at
\* the present position, captured once.
Ask(c) ==
  /\ mode = "open" /\ Phase(c) = "idle"
  /\ \E minimum \in Minima, media \in {"json", "sse"} :
       \/ /\ clients[c].cursor # None
          /\ Attempt(c, Request(clients[c].feed, clients[c].cursor, minimum, media), clients[c])
       \/ /\ clients[c].cursor = None
          /\ \E feed \in Feeds, anchor \in {0, Position} :
               /\ feed # "changes" => anchor = 0
               /\ Attempt(c, Request(feed, Checkpoint(anchor), minimum, media),
                          [Fresh EXCEPT !.feed = feed, !.anchor = anchor])
  /\ UNCHANGED <<log, mode, leases>>

\* The next attempt of a request that waits for its minimum.
Retry(c) ==
  /\ Phase(c) = "waiting" /\ mode # "stopped"
  /\ Attempt(c, conns[c], clients[c])
  /\ UNCHANGED <<log, mode, leases>>

\* The wait's deadline passes, or its client is gone.
GiveUp(c) ==
  /\ Phase(c) = "waiting"
  /\ conns' = [conns EXCEPT ![c] = Idle]
  /\ UNCHANGED <<log, mode, leases, clients>>
-----------------------------------------------------------------------------
(* Live streams: service.stream and the pump. *)

Opened(s) ==
  [phase |-> "live", feed |-> s.feed, view |-> s.view, items |-> s.items, next |-> s.next,
   wire |-> <<>>, blocked |-> FALSE, aborted |-> FALSE]

\* Mutant: the lease is taken for whatever policy is in force.
StartStream_current(c) ==
  /\ Phase(c) = "selected"
  /\ IF mode = "open" /\ Cardinality(Streams) < MaximumStreams
     THEN /\ conns' = [conns EXCEPT ![c] = Opened(conns[c])]
          /\ leases' = leases \cup {c}
          /\ UNCHANGED clients
     ELSE /\ conns' = [conns EXCEPT ![c] = Idle]
          /\ clients' = [clients EXCEPT ![c] = Refused(@)]
          /\ UNCHANGED leases
  /\ UNCHANGED <<log, mode>>

\* The response selected earlier becomes a stream if the service is open, has
\* room, and the policy is still that of the response.
StartStream(c) ==
  /\ Phase(c) = "selected"
  /\ IF mode = "open" /\ Cardinality(Streams) < MaximumStreams /\ conns[c].view = generation
     THEN /\ conns' = [conns EXCEPT ![c] = Opened(conns[c])]
          /\ leases' = leases \cup {c}
          /\ UNCHANGED clients
     ELSE /\ conns' = [conns EXCEPT ![c] = Idle]
          /\ clients' = [clients EXCEPT ![c] = Refused(@)]
          /\ UNCHANGED leases
  /\ UNCHANGED <<log, mode>>

Running(c) == Live(c) /\ ~conns[c].aborted

\* Mutant: the pump does not wait for the drain.
Write_eager(c) ==
  /\ Running(c) /\ conns[c].items # <<>>
  /\ conns' = [conns EXCEPT ![c].wire = Append(@, Head(conns[c].items)),
                            ![c].items = Tail(@),
                            ![c].blocked = Len(conns[c].wire) + 1 >= HighWater]
  /\ UNCHANGED <<log, mode, leases, clients>>

\* A frame enters the socket; a full socket makes the pump wait.
Write(c) ==
  /\ Running(c) /\ conns[c].items # <<>> /\ ~conns[c].blocked
  /\ conns' = [conns EXCEPT ![c].wire = Append(@, Head(conns[c].items)),
                            ![c].items = Tail(@),
                            ![c].blocked = Len(conns[c].wire) + 1 >= HighWater]
  /\ UNCHANGED <<log, mode, leases, clients>>

Receive(c) ==
  /\ Live(c) /\ conns[c].wire # <<>>
  /\ clients' = [clients EXCEPT ![c] = Seeing(@, Head(conns[c].wire))]
  /\ conns' = [conns EXCEPT ![c].wire = Tail(@)]
  /\ UNCHANGED <<log, mode, leases>>

Drain(c) ==
  /\ Running(c) /\ conns[c].blocked /\ conns[c].wire = <<>>
  /\ conns' = [conns EXCEPT ![c].blocked = FALSE]
  /\ UNCHANGED <<log, mode, leases, clients>>

\* After its last frame the pump reads the next packet, at once or after the
\* poll delay; a read that is refused ends the stream.
Pull(c) ==
  /\ Running(c) /\ conns[c].items = <<>> /\ ~conns[c].blocked
  /\ conns' =
       IF mode = "open" /\ Known(conns[c].feed) /\ Acceptable(conns[c].next)
       THEN LET packet == Packet(conns[c].feed, conns[c].next) IN
            [conns EXCEPT ![c].items = packet.items, ![c].next = packet.next]
       ELSE [conns EXCEPT ![c].aborted = TRUE]
  /\ UNCHANGED <<log, mode, leases, clients>>

\* Mutant: a pump waiting for its drain does not hear that it is aborted.
End_deaf(c) ==
  /\ Live(c) /\ conns[c].aborted /\ (conns[c].blocked => conns[c].wire = <<>>)
  /\ conns' = [conns EXCEPT ![c] = Idle]
  /\ leases' = leases \ {c}
  /\ UNCHANGED <<log, mode, clients>>

\* Mutant: the lease is not given back.
End_leased(c) ==
  /\ Live(c) /\ conns[c].aborted
  /\ conns' = [conns EXCEPT ![c] = Idle]
  /\ UNCHANGED <<log, mode, clients, leases>>

\* An aborted pump ends wherever it waits; what the socket still held is lost.
End(c) ==
  /\ Live(c) /\ conns[c].aborted
  /\ conns' = [conns EXCEPT ![c] = Idle]
  /\ leases' = leases \ {c}
  /\ UNCHANGED <<log, mode, clients>>

Disconnect(c) ==
  /\ \/ Phase(c) = "selected" /\ conns' = [conns EXCEPT ![c] = Idle]
     \/ Running(c) /\ conns' = [conns EXCEPT ![c].aborted = TRUE, ![c].wire = <<>>]
  /\ UNCHANGED <<log, mode, leases, clients>>
-----------------------------------------------------------------------------
(* Closing, failing and restarting. *)

\* close stops admission and aborts the streams...
Close ==
  /\ mode = "open"
  /\ mode' = "closing"
  /\ conns' = Aborted(Clients)
  /\ UNCHANGED <<log, leases, clients>>

\* ... and the owner is closed when they and the admitted requests have ended.
Closed ==
  /\ mode = "closing"
  /\ \A c \in Clients : Phase(c) \notin {"waiting", "live"}
  /\ mode' = "stopped"
  /\ leases' = {}
  /\ UNCHANGED <<log, conns, clients>>

\* A storage failure fences the owner and revokes every lease.
Fence ==
  /\ mode # "stopped"
  /\ mode' = "stopped"
  /\ conns' = Aborted(leases)
  /\ leases' = {}
  /\ UNCHANGED <<log, clients>>

\* A new process: the log is what was committed, connections are gone.
Restart ==
  /\ mode = "stopped"
  /\ mode' = "open"
  /\ conns' = [c \in Clients |-> Idle]
  /\ leases' = {}
  /\ UNCHANGED <<log, clients>>

Init ==
  /\ groups = <<>> /\ generation = 0 /\ mode = "open" /\ leases = {}
  /\ conns = [c \in Clients |-> Idle]
  /\ clients = [c \in Clients |-> Fresh]

Next ==
  \/ Commit \/ Publish \/ Close \/ Closed \/ Fence \/ Restart
  \/ \E c \in Clients :
       \/ Ask(c) \/ Retry(c) \/ GiveUp(c)
       \/ StartStream(c) \/ Write(c) \/ Receive(c) \/ Drain(c) \/ Pull(c)
       \/ End(c) \/ Disconnect(c)

Spec == Init /\ [][Next]_vars
-------------------------------------------------------------------------------
(* What those who follow the log may rely on. *)

At(n, o) == [position |-> n, ordinal |-> o]
Place(item) == At(item.position, item.ordinal)

\* All that a feed has after an anchor, whatever was paged, streamed or lost.
Due(feed, anchor) ==
  IF feed = "changes" THEN {At(n, 0) : n \in (anchor + 1)..Position}
  ELSE UNION {{At(n, o) : o \in {m \in 1..Len(groups[n]) : Concerns(feed, groups[n][m])}} :
              n \in 1..Position}

\* What a client took in, over pages, streams, lost answers, broken connections
\* and reconnections by checkpoint or Last-Event-ID, is what its feed has after
\* its anchor: each item once, in order, none left out, all of one view.  For
\* "start=now" the anchor is the position the request was admitted at.
FollowsWithoutGap ==
  \A c \in Clients : LET client == clients[c] IN
    client.seen # <<>> =>
      /\ IsPrefix([i \in 1..Len(client.seen) |-> Place(client.seen[i])],
                  InOrder(Due(client.feed, client.anchor)))
      /\ Cardinality({item.view : item \in Range(client.seen)}) = 1

\* A frame enters a stream only under the authorization policy in force, which
\* is the one its response was selected under: nothing of a view is streamed
\* once its policy was replaced, whatever the stream was waiting for.
StreamsKeepTheirView ==
  [][\A c \in Clients :
       Live(c) /\ conns'[c].phase = "live" /\ Len(conns'[c].wire) > Len(conns[c].wire) =>
         Last(conns'[c].wire).view = generation' /\ conns[c].view = generation']_vars

\* Every running stream has a lease, by which a new policy or a fence can end
\* it, and no lease outlives its stream.
LeasesMatchStreams ==
  /\ leases \subseteq Streams
  /\ \A c \in Clients : Running(c) => c \in leases

\* There are no more streams than the service admits, those included that ended
\* for their client only, and none holds more than a packet and what its socket
\* takes, however slowly its client reads.
StreamsAreBounded ==
  /\ Cardinality(Streams) <= MaximumStreams
  /\ \A c \in Streams :
       Len(conns[c].wire) <= HighWater /\ Len(conns[c].items) <= MaximumItems

\* What a client's stream holds of the service is bounded and can be taken back.
StreamsAreContained == LeasesMatchStreams /\ StreamsAreBounded

(***************************************************************************)
(* Liveness.  Continuations of the service run: immediates, poll delays,   *)
(* abort listeners, deadlines of minimum waits.  Nothing is assumed of     *)
(* commits or of clients, except in Attentive, where a connected client    *)
(* reads from its socket.                                                  *)
(***************************************************************************)
ServiceFairness ==
  /\ WF_vars(Closed)
  /\ \A c \in Clients :
       /\ WF_vars(GiveUp(c)) /\ WF_vars(StartStream(c))
       /\ WF_vars(Write(c)) /\ WF_vars(Pull(c)) /\ WF_vars(End(c))

Attentive == \A c \in Clients : WF_vars(Receive(c)) /\ WF_vars(Drain(c))

ServiceSpec == Spec /\ ServiceFairness

\* Closing ends, even while clients with open streams read nothing at all.
ShutdownCompletes == mode = "closing" ~> mode = "stopped"

Has(c, n) ==
  \A p \in Due(conns[c].feed, clients[c].anchor) :
    p.position <= n => p \in {Place(item) : item \in Range(clients[c].seen)}

\* A client that reads its stream gets every committed group of the feed, unless
\* the stream ends; groups that show it nothing do not hold the stream up.
StreamsCatchUp ==
  Attentive =>
    \A c \in Clients, n \in 1..MaximumGroups :
      Live(c) /\ n <= Position ~> (~Live(c) \/ generation = 1 \/ Has(c, n))
=============================================================================
