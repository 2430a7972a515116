------------------------------- MODULE MCClients -------------------------------
(***************************************************************************)
(* The clients, side by side: the command line with its journals and its   *)
(* collections, an operation of the retained client, the session of the    *)
(* Read client, and the calls of the Read+Update client.  They share no    *)
(* state: a behaviour is one of them, while the others stay as they begin. *)
(***************************************************************************)
EXTENDS CommandInvocation, Sequences, TLC

CONSTANTS
  create, delete, mine, c1, c2, anyone, scope, NoUrl, NoLease,
  Users,                                    \* callers of a session and of a client
  SomePlans, OperationTime, ExchangeTime, CleanupTime,   \* ClientOperation
  SomeKinds                                 \* of the calls of the Read+Update client

VARIABLES
  part,                                                  \* whose behaviour this is
  run, buffer, report, begun, shown,                     \* CommandListing
  plan, at, now, signals, exchange, result, dispatched,  \* ClientOperation
  ops, entries, size, held, discovery, late, client,     \* ClientSession
  calls, place, closed                                   \* UpdateClient

listing == <<run, buffer, report, begun, shown>>
operation == <<plan, at, now, signals, exchange, result, dispatched>>
session == <<ops, entries, size, held, discovery, late, client>>
updates == <<calls, place, closed>>
-----------------------------------------------------------------------------
PageSizesOf5 == {1, 2, 4}
LimitsOf5 == {0, 3}
BothFormats == {"jsonl", "table"}

Listing == INSTANCE CommandListing WITH
  Population <- 5, PageSizes <- PageSizesOf5, Limits <- LimitsOf5, Formats <- BothFormats,
  MaximumRuns <- 4
-----------------------------------------------------------------------------
\* bindWrite, a page with its discovery, a read that may meet an alias, a write.
EveryPlan == {<<"probe", "read", "read">>, <<"follow", "read">>, <<"submit">>}

Operation == INSTANCE ClientOperation WITH x <- exchange, Plans <- SomePlans
-----------------------------------------------------------------------------
\* Both directions of a Bead's Links, and the versions of a resource.
LinksAndVersions ==
  {[kind |-> "bead-links", subject |-> "bead", variant |-> d] : d \in {"in", "out"}}
  \cup {[kind |-> "history-versions", subject |-> "bead", variant |-> "limit"]}
TwoUrls == {"u1", "u2"}
TwoOwners == {anyone, scope}

Session == INSTANCE ClientSession WITH
  Callers <- Users, Urls <- TwoUrls, Contexts <- LinksAndVersions, Owners <- TwoOwners,
  MaxContexts <- 2, MaxHistory <- 2, MaxLate <- 1

\* The second owner reads versions only.
Reading ==
  /\ Session!Next
  /\ \A c \in Users :
       ops'[c].owner = scope => ops'[c].context.kind = "history-versions"
-----------------------------------------------------------------------------
NextAndMutate == {"next", "mutate"}

Updating == INSTANCE UpdateClient WITH Callers <- Users, Kinds <- SomeKinds
-----------------------------------------------------------------------------
ASSUME ClientsAssumption ==
  Operation!TimesArePositive /\ Operation!PlansAreSound /\ Updating!KindsAreKnown
ASSUME Session!SessionAssumption

\* What is told of runs, operations and calls.
Words ==
  {"success", "unknown", "not-submitted", "settled", "cap-exceeded", "answer", "problem", "closed",
   "aborted", "timeout", "invalid-input", "invalid-response", "transport", "network", "redirect",
   "broken", "none", "null", "pending", "completed", "failed", "read"}

\* None is none of the values it stands for the lack of.
ASSUME NoneIsNothing ==
  /\ None \notin Nat \cup Words
  /\ None \notin [code : Words, submission : Words, http : Nat \cup {None}]
  /\ None \notin [code : Words, submission : Words, settlement : Words \cup {None}, body : Words]

\* Nothing tells the callers apart.
Alike == Permutations(Users)

ClientsInit ==
  /\ part \in {"retries", "commands", "listing", "operation", "session", "updates"}
  /\ Init /\ Listing!Init /\ Session!Init /\ Updating!Init
  /\ IF part = "operation" THEN Operation!Init
     ELSE plan = <<>> /\ at = "over" /\ now = 0 /\ signals = <<>> /\ exchange = None
          /\ result = None /\ dispatched = 0

\* Three runs of one command under one credential; two of any while it changes.
Commanding == part = "retries" \/ part = "commands"

Command ==
  /\ Commanding /\ Next
  /\ IF part = "retries"
     THEN UNCHANGED credential /\ \A p \in DOMAIN runs' : runs'[p].write.command = create
     ELSE Cardinality(DOMAIN runs') <= 2

ClientsNext ==
  \/ Command /\ UNCHANGED <<part, listing, operation, session, updates>>
  \/ part = "listing" /\ Listing!Next /\ UNCHANGED <<part, vars, operation, session, updates>>
  \/ part = "operation" /\ Operation!Next /\ UNCHANGED <<part, vars, listing, session, updates>>
  \/ part = "session" /\ Reading /\ UNCHANGED <<part, vars, listing, operation, updates>>
  \/ part = "updates" /\ Updating!Next /\ UNCHANGED <<part, vars, listing, operation, session>>

ClientsSpec ==
  ClientsInit /\ [][ClientsNext]_<<part, vars, listing, operation, session, updates>>
-----------------------------------------------------------------------------
(* What clients say of what they did is true. *)

\* Whatever answers, keeps silent, is late or is killed: what was not submitted is
\* not submitted, what failed had no effect, what is unknown can be sent again and
\* takes effect once, and an end has the cause that it tells (bounded-http-transport.ts,
\* read-update.ts run, canonical-runtime.ts runCanonicalInvocation).
EndsAreTrue ==
  /\ Commanding =>
       SentIsSaved /\ ReportsAreTrue /\ UnknownIsRecoverable /\ JournalAppliesOnce
  /\ part = "operation" =>
       /\ Operation!NotSubmittedIsTrue /\ Operation!SettlementIsTrue
       /\ Operation!EndsInTime /\ Operation!AnswersAreInTime
       /\ Operation!NothingStaysOpen /\ Operation!FirstCauseIsKept
  /\ part = "updates" =>
       /\ Updating!NotSubmittedIsTrue /\ Updating!CauseIsTrue
       /\ Updating!ContextIsItsOwn /\ Updating!ClosedTellsAll

\* Pages that are asked for one after the other, by several callers and over several
\* runs, make whole traversals: nothing is shown twice or left out, none goes round
\* or continues another one, what is counted is there (client/src/index.ts
\* ContinuationRegistry, canonical-runtime.ts).
TraversalsAreWhole ==
  /\ part = "listing" =>
       Listing!ShownInOrder /\ Listing!CompletionIsTrue /\ Listing!LimitIsKept
  /\ part = "session" =>
       /\ Session!CountsAreExact /\ Session!TraversalsDoNotCycle
       /\ Session!DirectionsAreApart /\ Session!HistoriesAreApart
       /\ Session!WaitersAreServed /\ Session!ClosedIsEmpty
  /\ part = "updates" => Updating!PlaceIsKept

\* A continuation goes away only with the page it was for, when it is forgotten, or
\* with the client, which sends nothing once it closes (ContinuationRegistry, close).
PlacesAreKept ==
  [][part = "session" => Session!PlacesAreKept /\ Session!NothingSentAfterClose]_session
=============================================================================
