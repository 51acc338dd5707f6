------------------------------- MODULE Silver --------------------------------
(***************************************************************************)
(* Silver: observation versions, their occurrences, derivations,           *)
(* invalidations and the current view (ADR-023 with amendments 1 and 2,    *)
(* ADR-038), under the operations that write them: process and replay of   *)
(* any capture, release and rollback of a derivation, repair by            *)
(* replay_derivation, and invalidate with its mirror in reconcile.         *)
(*                                                                         *)
(* The ledger appears through what RunLedger proves of it: of the workers  *)
(* that hold a run at most one still commits, and a new generation or a    *)
(* new claim fences the older claim off.  `pending` is what pending_runs   *)
(* would list, less the runs under a live claim.                           *)
(*                                                                         *)
(* A capture is its place in the capture log and stands for its fetched_at.*)
(***************************************************************************)
EXTENDS Naturals, Sequences, FiniteSets

CONSTANTS
    Runs,           \* scheduled instants, of any target
    Target,         \* the target of each run
    Transport,      \* the transport of each target
    Owner,          \* owner_transport in the registry of each key, or "none"
    Payloads,       \* documents, by content
    ServedBy,       \* the target that serves each document
    Covers,         \* the observation identities a document has rows for
    Published,      \* source_published_at of each document, 0 when absent
    Derivations,    \* derivation ids in lexicographic order
    Contract,       \* contract_version of each derivation
    Computes,       \* the target whose manifest each derivation comes from
    Quarantined,    \* <<payload, derivation>> that do not map
    Workers,        \* pods that run process
    MaxCaptures,    \* bound: entries of the capture log
    MaxReleases,    \* bound: releases after the first
    MaxDecisions    \* bound: invalidations

Keys == DOMAIN Owner
Targets == DOMAIN Transport
Anything == 0       \* derivation_id NULL: every derivation's output

ASSUME SilverAssumption ==
    /\ Target \in [Runs -> Targets] /\ ServedBy \in [Payloads -> Targets]
    /\ Covers \in [Payloads -> SUBSET Keys] /\ Published \in [Payloads -> Nat]
    /\ Derivations \subseteq Nat \ {Anything} /\ Derivations # {}
    /\ Contract \in [Derivations -> Nat] /\ Computes \in [Derivations -> Targets]
    /\ Quarantined \subseteq Payloads \X Derivations
    /\ {MaxCaptures, MaxReleases, MaxDecisions} \subseteq Nat

VARIABLES
    captures,     \* the capture log: run and payload, in order of fetched_at
    names,        \* the capture each run names, 0 for none
    pending,      \* runs that process will claim
    deployed,     \* the derivation each target's pods compute
    releases,     \* releases so far
    registered,   \* derivations in the order their first commit registered them
    versions,     \* table observations
    occurrences,  \* table observation_occurrences
    decisions,    \* invalidation objects in Bronze
    invalid,      \* table invalidations
    workers,      \* per pod: the claim it works on
    done,         \* history: <<capture, derivation>> whose rows were committed
    repairs       \* history: repairs asked for while nothing ran that derivation

vars == <<captures, names, pending, deployed, releases, registered, versions,
          occurrences, decisions, invalid, workers, done, repairs>>
silver == <<registered, versions, occurrences>>

CaptureIds == 1 .. MaxCaptures
Version == [key: Keys, payload: Payloads, derivation: Derivations, run: Runs]
Occurrence == [key: Keys, payload: Payloads, derivation: Derivations,
               capture: CaptureIds]
Decision == [capture: CaptureIds, derivation: Derivations \cup {Anything}]
Idle == [pc |-> "idle", capture |-> 0, derivation |-> 0, live |-> FALSE]
Working == [pc: {"claimed", "map", "refuse"}, capture: CaptureIds,
            derivation: Derivations, live: BOOLEAN]
\* Between two runs of one process() the pod keeps the derivation it started with.
Between == [pc: {"idle"}, capture: {0}, derivation: Derivations, live: {FALSE}]

RunOf(c) == captures[c].run
Doc(c) == captures[c].payload
HeldBy(v, r) == workers[v].pc # "idle" /\ workers[v].live /\ RunOf(workers[v].capture) = r
FencedOff(r) ==
    [v \in Workers |-> IF HeldBy(v, r) THEN [workers[v] EXCEPT !.live = FALSE]
                                       ELSE workers[v]]

------------------------------------------------------------------------------
(* The current view.                                                       *)

\* Mutant: a decision about every derivation is not found.
InvalidatedByName(c, d) == \E i \in invalid : i.capture = c /\ i.derivation = d

\* is_invalidated: for this derivation, or for every one.
is_invalidated(c, d) ==
    \E i \in invalid : i.capture = c /\ i.derivation \in {d, Anything}

\* ordering_instant of one occurrence.
ordering_instant(p, c) == IF Published[p] # 0 THEN Published[p] ELSE c

OccurrencesOf(v) ==
    {o \in occurrences : o.key = v.key /\ o.payload = v.payload
                         /\ o.derivation = v.derivation}
ValidOccurrences(v) ==
    {o \in OccurrencesOf(v) : ~is_invalidated(o.capture, o.derivation)}

owner_rank(k, p) ==
    IF Owner[k] \in {"none", Transport[ServedBy[p]]} THEN 1 ELSE 0
registered_at(d) == CHOOSE i \in DOMAIN registered : registered[i] = d
Greatest(S) == CHOOSE m \in S : \A n \in S : n <= m

\* Mutant: a release outranks newer data.
RankByRelease(k, p, instant, d) ==
    <<owner_rank(k, p), Contract[d], registered_at(d), instant, d>>

\* rank(): owner, newest valid occurrence, contract, registration, id.
rank(k, p, instant, d) ==
    <<owner_rank(k, p), instant, Contract[d], registered_at(d), d>>

Exceeds(s, t) ==
    \E i \in DOMAIN s : s[i] > t[i] /\ \A j \in 1 .. i - 1 : s[j] = t[j]
VersionRank(v) ==
    rank(v.key, v.payload,
         Greatest({ordering_instant(o.payload, o.capture) : o \in ValidOccurrences(v)}),
         v.derivation)

\* observations_current: per key the best version with a valid occurrence,
\* all of them when the order leaves a tie.
Current(k) ==
    LET C == {v \in versions : v.key = k /\ ValidOccurrences(v) # {}}
        R == [v \in C |-> VersionRank(v)]
    IN  {v \in C : \A u \in C : ~Exceeds(R[u], R[v])}

------------------------------------------------------------------------------
(* Operations.                                                             *)

Init ==
    /\ captures = <<>> /\ names = [r \in Runs |-> 0] /\ pending = {}
    /\ deployed \in {f \in [Targets -> Derivations] : \A t \in Targets : Computes[f[t]] = t}
    /\ releases = 0
    /\ registered = <<>> /\ versions = {} /\ occurrences = {}
    /\ decisions = {} /\ invalid = {}
    /\ workers = [w \in Workers |-> Idle]
    /\ done = {} /\ repairs = {}

\* A capture reaches Bronze and the ledger.  A first capture, or a later one
\* with another payload, is a generation: the run is pending and any claim on
\* it is fenced off.  A later one with the payload of the named capture is a
\* poll.
Capture(r, p) ==
    /\ Len(captures) < MaxCaptures /\ ServedBy[p] = Target[r]
    /\ captures' = Append(captures, [run |-> r, payload |-> p])
    /\ IF names[r] # 0 /\ Doc(names[r]) = p
       THEN UNCHANGED <<names, pending, workers>>
       ELSE /\ names' = [names EXCEPT ![r] = Len(captures) + 1]
            /\ pending' = pending \cup {r}
            /\ workers' = FencedOff(r)
    /\ UNCHANGED <<silver, deployed, releases, decisions, invalid, done, repairs>>

\* A release, or a rollback, of a target's derivation.
Release(t, d) ==
    /\ releases < MaxReleases /\ deployed[t] # d /\ Computes[d] = t
    /\ releases' = releases + 1
    /\ deployed' = [deployed EXCEPT ![t] = d]
    /\ repairs' = repairs \ {d}
    /\ UNCHANGED <<silver, captures, names, pending, decisions, invalid, workers, done>>

\* process: claim a pending run, or one whose holder let its lease expire.
\* The derivation is computed once, when the pod starts: a pod that outlives a
\* release goes on with the old one.
Claim(w, r, d) ==
    /\ workers[w].pc = "idle" /\ names[r] # 0
    /\ d \in {deployed[Target[r]], workers[w].derivation} \ {0}
    /\ Computes[d] = Target[r]
    /\ r \in pending \/ \E v \in Workers : HeldBy(v, r)
    /\ pending' = pending \ {r}
    /\ workers' = [FencedOff(r) EXCEPT ![w] =
         [pc |-> "claimed", capture |-> names[r],
          derivation |-> d, live |-> TRUE]]
    /\ UNCHANGED <<silver, captures, names, deployed, releases, decisions, invalid,
                   done, repairs>>

\* process_one asks for invalidations before it reads the payload.
CheckInvalidated(w) ==
    /\ workers[w].pc = "claimed"
    /\ workers' = [workers EXCEPT ![w].pc =
         IF is_invalidated(workers[w].capture, workers[w].derivation)
         THEN "refuse" ELSE "map"]
    /\ UNCHANGED <<silver, captures, names, pending, deployed, releases, decisions,
                   invalid, done, repairs>>

\* Mutant: a version seen before gets no occurrence (before amendment 2).
OccurrencesOfNewVersionsOnly(c, d) ==
    occurrences \cup
        {[key |-> k, payload |-> Doc(c), derivation |-> d, capture |-> c] :
            k \in {k \in Covers[Doc(c)] :
                     ~\E v \in versions : v.key = k /\ v.payload = Doc(c)
                                          /\ v.derivation = d}}

\* The upserts of commit(): a version per row unless it exists, an occurrence
\* per row and capture unless it exists.
VersionsWith(c, d) ==
    versions \cup
        {[key |-> k, payload |-> Doc(c), derivation |-> d, run |-> RunOf(c)] :
            k \in {k \in Covers[Doc(c)] :
                     ~\E v \in versions : v.key = k /\ v.payload = Doc(c)
                                          /\ v.derivation = d}}
OccurrencesWith(c, d) ==
    occurrences \cup
        {[key |-> k, payload |-> Doc(c), derivation |-> d, capture |-> c] :
            k \in Covers[Doc(c)]}

\* Mutant: every commit registers, a known derivation moves to the end.
RegisteredLast(d) == Append(SelectSeq(registered, LAMBDA e : e # d), d)

\* register_derivation: the first registration stays.
RegisteredWith(d) ==
    IF \E i \in DOMAIN registered : registered[i] = d THEN registered
                                                      ELSE Append(registered, d)

\* commit(): under a lost fence nothing; otherwise the derivation is
\* registered whatever the outcome, and a document that maps writes its rows.
Commit(w) ==
    LET c == workers[w].capture  d == workers[w].derivation IN
    /\ workers[w].pc \in {"map", "refuse"}
    /\ workers' = [workers EXCEPT ![w] = [Idle EXCEPT !.derivation = d]]
    /\ IF workers[w].live
       THEN /\ registered' = RegisteredWith(d)
            /\ IF workers[w].pc = "map" /\ <<Doc(c), d>> \notin Quarantined
               THEN /\ versions' = VersionsWith(c, d)
                    /\ occurrences' = OccurrencesWith(c, d)
                    /\ done' = done \cup {<<c, d>>}
               ELSE UNCHANGED <<versions, occurrences, done>>
       ELSE UNCHANGED <<silver, done>>
    /\ UNCHANGED <<captures, names, pending, deployed, releases, decisions, invalid,
                   repairs>>

\* The pod exits or dies: the run it held is still captured, or its replay
\* abandoned.
Exit(w) ==
    /\ workers[w] # Idle
    /\ workers' = [workers EXCEPT ![w] = Idle]
    /\ pending' = pending \cup {r \in Runs : HeldBy(w, r)}
    /\ UNCHANGED <<silver, captures, names, deployed, releases, decisions, invalid,
                   done, repairs>>

\* replay_range over any range: it reconciles, which mirrors every decision,
\* and enqueues every run of the range that names a capture.
ReplayRange(R) ==
    /\ R # {} /\ \A r \in R : names[r] # 0
    /\ ~(R \subseteq pending)
    /\ pending' = pending \cup R
    /\ invalid' = invalid \cup decisions
    /\ UNCHANGED <<silver, captures, names, deployed, releases, decisions, workers,
                   done, repairs>>

\* runs_with_derivation: the runs whose attempt inserted a version with it.
runs_with_derivation(d) == {v.run : v \in {v \in versions : v.derivation = d}}

\* replay_derivation, the repair of a bad release.
ReplayDerivation(d) ==
    /\ runs_with_derivation(d) # {}
    /\ pending' = pending \cup runs_with_derivation(d)
    /\ repairs' =
         IF (\A t \in Targets : deployed[t] # d)
            /\ (\A w \in Workers : workers[w].derivation # d)
         THEN repairs \cup {d} ELSE repairs
    /\ UNCHANGED <<silver, captures, names, deployed, releases, decisions, invalid,
                   workers, done>>

\* invalidate: the decision is a Bronze object first.
Invalidate(c, d) ==
    /\ Cardinality(decisions) < MaxDecisions
    /\ decisions' = decisions \cup {[capture |-> c, derivation |-> d]}
    /\ UNCHANGED <<silver, captures, names, pending, deployed, releases, invalid,
                   workers, done, repairs>>

\* add_invalidation: by invalidate itself, or later by any reconcile.
Mirror(i) ==
    /\ i \in decisions \ invalid
    /\ invalid' = invalid \cup {i}
    /\ UNCHANGED <<silver, captures, names, pending, deployed, releases, decisions,
                   workers, done, repairs>>

Next ==
    \/ \E r \in Runs, p \in Payloads : Capture(r, p)
    \/ \E t \in Targets, d \in Derivations : Release(t, d)
    \/ \E w \in Workers, r \in Runs, d \in Derivations : Claim(w, r, d)
    \/ \E w \in Workers : CheckInvalidated(w) \/ Commit(w) \/ Exit(w)
    \/ \E R \in SUBSET Runs : ReplayRange(R)
    \/ \E d \in Derivations : ReplayDerivation(d)
    \/ \E c \in DOMAIN captures, d \in Derivations \cup {Anything} : Invalidate(c, d)
    \/ \E i \in decisions : Mirror(i)

Spec == Init /\ [][Next]_vars

------------------------------------------------------------------------------
(* Properties.                                                             *)

\* The tables keep the shape of the migrations, with at most one version per
\* identity, payload and derivation (the upsert key of observations).
TypeOK ==
    /\ captures \in Seq([run: Runs, payload: Payloads])
    /\ names \in [Runs -> CaptureIds \cup {0}] /\ pending \subseteq Runs
    /\ deployed \in [Targets -> Derivations] /\ releases \in 0 .. MaxReleases
    /\ registered \in Seq(Derivations) /\ Len(registered) <= Cardinality(Derivations)
    /\ versions \subseteq Version /\ occurrences \subseteq Occurrence
    /\ decisions \subseteq Decision /\ invalid \subseteq decisions
    /\ workers \in [Workers -> Working \cup Between \cup {Idle}]
    /\ \A u, v \in versions :
          u.key = v.key /\ u.payload = v.payload /\ u.derivation = v.derivation => u = v

\* What the current view promises, stated over the history of commits and not
\* over the tables: of the captures processed so far, each under each
\* derivation, the one that wins among those not invalidated.
Rank(k, x) == rank(k, Doc(x[1]), ordering_instant(Doc(x[1]), x[1]), x[2])
Winners(k) ==
    LET C == {x \in done : k \in Covers[Doc(x[1])] /\ ~is_invalidated(x[1], x[2])} IN
    {x \in C : \A y \in C : ~Exceeds(Rank(k, y), Rank(k, x))}

\* The current view is a function of the set of commits: it does not depend on
\* the order of the commits nor on how often a replay repeats one, although a
\* payload that comes back only adds an occurrence to an old version (ADR-023
\* amendment 2) and an invalidation may come before or after the commit.
CurrentFollowsTheCommits ==
    \A k \in Keys :
        {<<v.payload, v.derivation>> : v \in Current(k)}
          = {<<Doc(x[1]), x[2]>> : x \in Winners(k)}

\* A row that is current was produced, by its own derivation, from a capture
\* in Bronze whose output nobody invalidated: whatever was in flight when the
\* decision was mirrored (process_one checks long before it commits).
CurrentIsNotInvalidated ==
    \A k \in Keys : \A v \in Current(k) :
        \E c \in DOMAIN captures :
            /\ Doc(c) = v.payload /\ k \in Covers[Doc(c)]
            /\ <<c, v.derivation>> \in done
            /\ ~\E i \in invalid : i.capture = c
                                   /\ i.derivation \in {v.derivation, Anything}

\* The newest ordering instant among the current rows of a key.
Instants(k) ==
    UNION {{ordering_instant(o.payload, o.capture) : o \in ValidOccurrences(v)} :
              v \in Current(k)}
OwnerCurrent(k) == \E v \in Current(k) : owner_rank(k, v.payload) = 1

\* Replaying an older capture never outranks a newer one, whatever derivation
\* it is replayed with (ADR-023 §4): a step that invalidates nothing never
\* makes an older row current, except the system of record's over the copy.
CurrentNeverRegresses ==
    [][silver' # silver /\ invalid' = invalid =>
        \A k \in Keys : Current(k) # {} =>
            \/ OwnerCurrent(k)' /\ ~OwnerCurrent(k)
            \/ Greatest(Instants(k)') >= Greatest(Instants(k))]_vars

\* An exact retry adds nothing (ADR-023 §6): the view changes only when a
\* capture is committed under a derivation for the first time or a decision
\* is mirrored, never by a replay, a release or a rollback on its own.
ExactRetryChangesNothing ==
    [][silver' # silver /\ done' = done /\ invalid' = invalid =>
        \A k \in Keys : Current(k)' = Current(k)]_vars

\* replay_derivation: "replay every capture that has a Silver row with
\* derivation_id" (replay.py), after which "the corrected rows outrank the bad
\* ones" (ADR-023 §4): once the replays are drained no current row has it.
RepairRetiresTheDerivation ==
    (pending = {} /\ \A w \in Workers : workers[w].pc = "idle") =>
        \A k \in Keys : \A v \in Current(k) : v.derivation \notin repairs

------------------------------------------------------------------------------
(* Why they hold: the inductive invariant of SilverProofs.                 *)

\* Whoever works on a capture works on one that is in Bronze.
SilverShape ==
    /\ captures \in Seq([run: Runs, payload: Payloads]) /\ Len(captures) <= MaxCaptures
    /\ names \in [Runs -> 0 .. Len(captures)]
    /\ deployed \in [Targets -> Derivations]
    /\ workers \in [Workers -> Working \cup Between \cup {Idle}]
    /\ \A w \in Workers : workers[w].pc # "idle" => workers[w].capture \in DOMAIN captures
    /\ decisions \subseteq Decision /\ invalid \subseteq decisions

\* A derivation is registered once, before its first row.
RegisteredOnce ==
    /\ registered \in Seq(Derivations)
    /\ \A i, j \in DOMAIN registered : registered[i] = registered[j] => i = j
    /\ \A x \in done : \E i \in DOMAIN registered : registered[i] = x[2]

\* The tables are what the commits wrote: the occurrences and the versions of
\* each document, under each derivation it was committed with.
TablesFollow ==
    /\ IsFiniteSet(done) /\ done \subseteq (DOMAIN captures) \X Derivations
    /\ \A o \in occurrences :
          /\ o \in Occurrence /\ <<o.capture, o.derivation>> \in done
          /\ o.payload = Doc(o.capture) /\ o.key \in Covers[o.payload]
    /\ \A x \in done : \A k \in Covers[Doc(x[1])] :
          [key |-> k, payload |-> Doc(x[1]), derivation |-> x[2], capture |-> x[1]]
            \in occurrences
    /\ \A v \in versions : v \in Version
    /\ \A x \in done : \A k \in Covers[Doc(x[1])] : \E v \in versions :
          v.key = k /\ v.payload = Doc(x[1]) /\ v.derivation = x[2]

SilverInv == SilverShape /\ RegisteredOnce /\ TablesFollow
==============================================================================
