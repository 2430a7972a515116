--------------------------- MODULE CommandInvocation ---------------------------
(***************************************************************************)
(* Mutations from the command line (apps/bdp canonical-runtime.ts and      *)
(* canonical-io.ts, client retained-read.ts).  A run freezes its request   *)
(* with a key, publishes it in a journal on disk, sends it once and says   *)
(* what became of it; a later run may send a journal again.  Processes are *)
(* killed, machines lose power, requests and answers get lost.  The server *)
(* decides a key once.                                                     *)
(***************************************************************************)
EXTENDS Naturals, FiniteSets

CONSTANTS
  Commands,        \* what a run may ask for
  SuppliedKeys,    \* keys given by a user; other keys are drawn, one per run
  Credentials,
  MaximumRuns,     \* bound
  None

ASSUME KeysAreNotDrawn == SuppliedKeys \cap Nat = {}

VARIABLES
  disk,        \* run -> the journal it wrote
  runs,        \* the runs so far
  credential,  \* of the configuration
  sent,        \* run -> the request it sent
  answers,     \* run -> what the server answered, received or not
  decided,     \* key -> what the server decided
  reports,     \* what runs said when they ended
  told         \* ghost: the decisions runs received

vars == <<disk, runs, credential, sent, answers, decided, reports, told>>

Runs == 1..MaximumRuns
Put(f, x, y) == [z \in DOMAIN f \cup {x} |-> IF z = x THEN y ELSE f[z]]
Nothing == [x \in {} |-> None]
At(p, places) == p \in DOMAIN runs /\ runs[p].at \in places
Moved(p, place) == runs' = [runs EXCEPT ![p].at = place]

\* A journal has its name once it is renamed; the name survives a power loss
\* once the directory is synchronised.
Named == {f \in DOMAIN disk : disk[f].stage \in {"renamed", "saved"}}
-----------------------------------------------------------------------------
(* What a run says. *)

\* Causes after which nothing is known: no answer, one that cannot be read, and
\* the problems that do not decide the key.
LeavesUnknown(cause) == cause \in {"lost", "conflict", "unavailable"}

Recovery(p) == runs[p].journal

Ends(p, outcome, operation) ==
  /\ Moved(p, "over")
  /\ reports' = reports \cup
       {[run |-> p, outcome |-> outcome, operation |-> operation,
         recovery |-> IF outcome = "unknown" THEN Recovery(p) ELSE None]}

Fails(p, cause) == Ends(p, IF LeavesUnknown(cause) THEN "unknown" ELSE "failure", None)
-----------------------------------------------------------------------------
(* A run. *)

\* A new run, up to the frozen request: nothing is written or sent before.
Start(command, key) ==
  LET p == Cardinality(DOMAIN runs) + 1
      frozen == [command |-> command, key |-> IF key = None THEN p ELSE key] IN
  /\ p \in Runs
  /\ runs' = Put(runs, p, [at |-> "frozen", write |-> frozen, journal |-> None, retry |-> FALSE,
                           boundary |-> credential])
  /\ UNCHANGED <<disk, credential, sent, answers, decided, reports, told>>

\* The journal is written beside its place, synchronised, renamed, and its
\* directory synchronised.
NextStage == [written |-> "synced", synced |-> "renamed", renamed |-> "saved"]

Save(p) ==
  /\ At(p, {"frozen", "saving"})
  /\ IF p \notin DOMAIN disk
     THEN /\ disk' = Put(disk, p, [write |-> runs[p].write, boundary |-> runs[p].boundary,
                                   stage |-> "written"])
          /\ Moved(p, "saving")
     ELSE /\ disk[p].stage \in DOMAIN NextStage
          /\ disk' = [disk EXCEPT ![p].stage = NextStage[@]]
          /\ UNCHANGED runs
  /\ UNCHANGED <<credential, sent, answers, decided, reports, told>>

\* What the journal call returned for.
Saved(p) == p \in DOMAIN disk /\ disk[p].stage = "saved"

\* From here on the request counts as submitted.
Prepared(p) ==
  /\ At(p, {"saving"}) /\ Saved(p)
  /\ runs' = [runs EXCEPT ![p].at = "prepared", ![p].journal = p]
  /\ UNCHANGED <<disk, credential, sent, answers, decided, reports, told>>

\* Discovery, the journal or an interruption stops the run before.
FailEarly(p) ==
  /\ At(p, {"frozen", "saving"}) /\ Fails(p, "local")
  /\ UNCHANGED <<disk, credential, sent, answers, decided, told>>

\* Mutant: the request is sent under a key of its own.
Resent_drawn(p, f) == [disk[f].write EXCEPT !.key = p]

\* A journal is sent as it is.
Resent(p, f) == disk[f].write

\* A run that sends a journal again, with the credential it was written under.
Retry(f) ==
  LET p == Cardinality(DOMAIN runs) + 1
      changed == disk[f].boundary # credential IN
  /\ p \in Runs /\ f \in Named
  /\ runs' = Put(runs, p, [at |-> IF changed THEN "over" ELSE "prepared", write |-> Resent(p, f),
                           journal |-> IF changed THEN None ELSE f, retry |-> TRUE,
                           boundary |-> credential])
  /\ reports' = IF changed
                THEN reports \cup {[run |-> p, outcome |-> "failure", operation |-> None,
                                    recovery |-> None]}
                ELSE reports
  /\ UNCHANGED <<disk, credential, sent, answers, decided, told>>

Send(p) ==
  /\ At(p, {"prepared"}) /\ Moved(p, "sent")
  /\ sent' = Put(sent, p, runs[p].write)
  /\ UNCHANGED <<disk, credential, answers, decided, reports, told>>

\* Interrupted, or out of time, before the request is dispatched.
NotSent(p) ==
  /\ At(p, {"prepared"}) /\ Fails(p, "local")
  /\ UNCHANGED <<disk, credential, sent, answers, decided, told>>

\* The connection fails, the time is over, the user interrupts, or the answer is
\* not one the client accepts.
GiveUp(p) ==
  /\ At(p, {"sent"}) /\ Fails(p, "lost")
  /\ UNCHANGED <<disk, credential, sent, answers, decided, told>>

Decisions == {"success", "failure"}

Receive(p) ==
  /\ At(p, {"sent"}) /\ p \in DOMAIN answers
  /\ IF answers[p] = "success"
     THEN Moved(p, "known") /\ UNCHANGED reports
     ELSE Fails(p, answers[p])
  /\ told' = IF answers[p] \in Decisions THEN told \cup {<<sent[p].key, <<sent[p], answers[p]>>>>}
             ELSE told
  /\ UNCHANGED <<disk, credential, sent, answers, decided>>

\* The result is shown, or cannot be.
Show(p) ==
  /\ At(p, {"known"})
  /\ \E outcome \in {"success", "failure"} : Ends(p, outcome, "success")
  /\ UNCHANGED <<disk, credential, sent, answers, decided, told>>

Kill(p) ==
  /\ At(p, {"frozen", "saving", "prepared", "sent", "known"}) /\ Moved(p, "over")
  /\ UNCHANGED <<disk, credential, sent, answers, decided, reports, told>>
-----------------------------------------------------------------------------
(* Around it. *)

\* All runs stop.  What was not synchronised is lost; a name may be.
PowerLoss ==
  /\ \E p \in DOMAIN runs : runs[p].at # "over"
  /\ runs' = [p \in DOMAIN runs |-> [runs[p] EXCEPT !.at = "over"]]
  /\ \E lost \in SUBSET {f \in DOMAIN disk : disk[f].stage = "renamed"} :
       disk' = [f \in {f \in DOMAIN disk : disk[f].stage # "written"} |->
                  [disk[f] EXCEPT !.stage = IF f \in lost THEN "synced"
                                            ELSE IF @ = "renamed" THEN "saved" ELSE @]]
  /\ UNCHANGED <<credential, sent, answers, decided, reports, told>>

ChangeCredential ==
  /\ credential' \in Credentials \ {credential}
  /\ UNCHANGED <<disk, runs, sent, answers, decided, reports, told>>

\* The server handles a request at most once, at any time after it was sent.  It
\* may refuse before it looks at the key.
Handle(p) ==
  LET w == sent[p]
      answered(code) == answers' = Put(answers, p, code) IN
  /\ p \in DOMAIN sent \ DOMAIN answers
  /\ \/ \E code \in {"refused", "unavailable"} : answered(code) /\ UNCHANGED decided
     \/ /\ w.key \in DOMAIN decided
        /\ answered(IF decided[w.key][1] = w THEN decided[w.key][2] ELSE "conflict")
        /\ UNCHANGED decided
     \/ /\ w.key \notin DOMAIN decided
        /\ \E result \in Decisions : answered(result) /\ decided' = Put(decided, w.key, <<w, result>>)
  /\ UNCHANGED <<disk, runs, credential, sent, reports, told>>

Init ==
  /\ disk = Nothing /\ runs = Nothing /\ credential = CHOOSE c \in Credentials : TRUE
  /\ sent = Nothing /\ answers = Nothing /\ decided = Nothing /\ reports = {} /\ told = {}

Next ==
  \/ \E c \in Commands, k \in SuppliedKeys \cup {None} : Start(c, k)
  \/ \E f \in DOMAIN disk : Retry(f)
  \/ \E p \in Runs :
       \/ Save(p) \/ Prepared(p) \/ FailEarly(p) \/ Send(p) \/ NotSent(p) \/ GiveUp(p)
       \/ Receive(p) \/ Show(p) \/ Kill(p) \/ Handle(p)
  \/ PowerLoss \/ ChangeCredential

Spec == Init /\ [][Next]_vars
-----------------------------------------------------------------------------
Applied(w) == w.key \in DOMAIN decided /\ decided[w.key] = <<w, "success">>
Alone(p) == \A q \in DOMAIN runs : runs[q].write.key = runs[p].write.key => q = p

\* What a run sent can be sent again: its journal is on disk, also after the
\* process was killed or the power lost (canonical-io.ts saveCanonicalJournal).
\* A journal that a killed run left unsynchronised and that is sent again is the
\* exception.
SentIsSaved ==
  \A p \in DOMAIN sent : ~runs[p].retry =>
    p \in DOMAIN disk /\ disk[p].stage = "saved" /\ disk[p].write = sent[p]

\* A run that says it failed, and whose key nobody else used, had no effect and
\* will have none; one that succeeded had its own (runCanonicalInvocation).
ReportsAreTrue ==
  \A r \in reports :
    /\ r.outcome = "success" \/ r.operation = "success" => Applied(runs[r.run].write)
    /\ r.outcome = "failure" /\ r.operation = None /\ Alone(r.run) => ~Applied(runs[r.run].write)

\* A run that does not know names the journal of its request, which is there
\* whatever happens if the run that wrote it ever had its path
\* (runCanonicalInvocation: context.recovery).
UnknownIsRecoverable ==
  \A r \in reports : r.outcome = "unknown" =>
    /\ r.recovery \in DOMAIN disk
    /\ disk[r.recovery].write = runs[r.run].write
    /\ runs[r.recovery].journal # None => r.recovery \in Named

\* However often a journal is sent, its command has an effect at most once
\* (retry: the frozen key).
JournalAppliesOnce ==
  \A f \in DOMAIN disk :
    Cardinality({k \in DOMAIN decided : decided[k][2] = "success" /\
                   \E p \in DOMAIN sent : sent[p] = decided[k][1] /\ (p = f \/ runs[p].journal = f)}) <= 1

\* An unresolved original outcome stays unknown with same-key recovery: a run
\* that sends a journal again, after another said that it does not know, and
\* learns no decision says so too (docs/cli-design/bdp-cli.md:272-274).
UnresolvedStaysUnknown ==
  \A r \in reports, first \in reports :
    /\ first.outcome = "unknown" /\ first.run < r.run
    /\ runs[r.run].retry /\ first.recovery \in Named
    /\ runs[first.run].write = runs[r.run].write
    /\ \A d \in told : d[1] # runs[r.run].write.key
    => r.outcome = "unknown" /\ r.recovery = first.recovery
=============================================================================
