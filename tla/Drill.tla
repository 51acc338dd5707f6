-------------------------------- MODULE Drill --------------------------------
(***************************************************************************)
(* The restore drill (runtime/drill.py, ADR-036 amendment 5): every target *)
(* is rebuilt in a scratch store from the Bronze replica, then compared    *)
(* with the live store, while live goes on capturing, processing,          *)
(* replaying, invalidating and replicating.                                *)
(*                                                                         *)
(* The targets share a dataset and a transport, as the committed           *)
(* settlement targets do.  One observation identity stands for all: the    *)
(* drill compares per identity.  A pair is then a payload, a fingerprint a *)
(* payload with the value a derivation computes from it.  A capture is its *)
(* place in the log and stands for its fetched_at.                         *)
(***************************************************************************)
EXTENDS Naturals, Sequences, FiniteSets

CONSTANTS
    Runs,          \* scheduled instants of all targets, in order
    Target,        \* the target of each run; targets are 1 .. N, in manifest order
    Payloads,
    Serves,        \* the payloads the source of each run may serve
    Derivations,   \* in lexicographic order of their ids
    Value,         \* Value[d][p]: what derivation d computes from payload p
    Unmappable,    \* payloads that are quarantined
    MaxCaptures,   \* bound: captures
    MaxEvents      \* bound: releases, invalidations, entries gone from the replica,
                   \* blobs not yet there and acknowledgements the ledger never
                   \* got, together

Targets == {Target[r] : r \in Runs}

ASSUME DrillAssumption ==
    /\ Runs \subseteq Nat /\ IsFiniteSet(Runs) /\ Runs # {}
    /\ Targets = 1 .. Cardinality(Targets)
    /\ Derivations \subseteq Nat /\ Derivations # {}
    /\ Value \in [Derivations -> [Payloads -> Nat]]
    /\ Unmappable \subseteq Payloads /\ Serves \in [Runs -> SUBSET Payloads]
    /\ {MaxCaptures, MaxEvents} \subseteq Nat

VARIABLES
    captures,    \* the capture log of store A
    replica,     \* store B: the entries, the decisions and the blobs it has
    lost,        \* captures that store B had or should have, and has not
    decisions,   \* invalidated captures, as Bronze objects in store A
    deployed,    \* the derivation the pods run
    releases,    \* releases so far
    live,        \* the live store
    scratch,     \* the scratch store
    drill,       \* the drill's local variables
    report       \* per target: none, ok, failed or crashed

vars == <<captures, replica, lost, decisions, deployed, releases, live, scratch,
          drill, report>>

------------------------------------------------------------------------------
(* A store: runs, attempts, Silver versions and mirrored decisions.        *)

Empty == [rows |-> {},                         \* versions
          occurrences |-> {},                  \* <<payload, derivation, capture>>
          names |-> [r \in Runs |-> 0],        \* the capture each run names
          processed |-> {},                    \* runs in state processed
          began |-> [r \in Runs |-> 0],        \* first process attempt; 0 for none
          registered |-> << >>,                \* derivations, oldest first
          invalid |-> {}]                      \* table invalidations

RunOf(c) == captures[c].run
Doc(c) == captures[c].payload
Own(S, t) == {c \in S : Target[RunOf(c)] = t}

HasRow(s, p, d) == \E v \in s.rows : v.payload = p /\ v.derivation = d

\* process_one of capture c under derivation d: what it commits in store s, when
\* the entry and the blob are there and when they are not.
ProcessOne(s, c, d, there) ==
    LET r == RunOf(c)
        known == \E i \in DOMAIN s.registered : s.registered[i] = d
        claimed == [s EXCEPT !.names[r] = c,
                      !.began[r] = IF @ = 0 THEN Len(captures) ELSE @,
                      !.registered = IF known THEN @ ELSE Append(@, d)]
    IN
    IF ~there \/ c \in s.invalid \/ Doc(c) \in Unmappable
    THEN [claimed EXCEPT !.processed = @ \ {r}]
    ELSE [claimed EXCEPT
            !.processed = @ \cup {r},
            !.occurrences = @ \cup {<<Doc(c), d, c>>},
            !.rows = IF HasRow(s, Doc(c), d) THEN @
                     ELSE @ \cup {[payload |-> Doc(c), derivation |-> d, capture |-> c]}]

EntriesOf(E, r) == {c \in E : RunOf(c) = r}

\* Mutant: the first entry of the listing, which is in order of age.
Oldest(S) == CHOOSE c \in S : \A e \in S : c <= e

Newest(S) == CHOOSE c \in S : \A e \in S : e <= c

\* reconcile, for run r over entries E: the newest entry that is not
\* invalidated, if its payload is not the one of the capture the run names.
Generation(s, E, r) ==
    LET V == EntriesOf(E, r) \ s.invalid  c == s.names[r] IN
    IF V = {} THEN c
    ELSE IF c = 0 \/ (Newest(V) > c /\ Doc(Newest(V)) # Doc(c)) THEN Newest(V) ELSE c

------------------------------------------------------------------------------
(* Live: capture, process, replay, release, invalidate; replication.       *)

Events == releases + Cardinality(decisions) + Cardinality(lost)
          + Cardinality({c \in DOMAIN captures : ~captures[c].acked}) + Cardinality(drill.down)
          + Cardinality(drill.unread)

Capture(r, p, acked) ==
    /\ Len(captures) < MaxCaptures
    /\ acked \/ Events < MaxEvents
    /\ captures' = Append(captures, [run |-> r, payload |-> p, acked |-> acked])
    /\ UNCHANGED <<replica, lost, decisions, deployed, releases, live, scratch, drill, report>>

\* process: reconcile mirrors the decisions, then a new generation is mapped.
Process(r) ==
    LET s == [live EXCEPT !.invalid = @ \cup Own(decisions, Target[r])]
        c == Generation(s, DOMAIN captures, r) IN
    /\ c # live.names[r]
    /\ live' = ProcessOne(s, c, deployed, TRUE)
    /\ UNCHANGED <<captures, replica, lost, decisions, deployed, releases, scratch, drill, report>>

\* A replay of the capture the run names, under the derivation that runs now.
Replay(r) ==
    /\ live.names[r] # 0
    /\ live' = ProcessOne(live, live.names[r], deployed, TRUE)
    /\ live' # live
    /\ UNCHANGED <<captures, replica, lost, decisions, deployed, releases, scratch, drill, report>>

Release(d) ==
    /\ Events < MaxEvents /\ d # deployed
    /\ releases' = releases + 1
    /\ deployed' = d
    /\ UNCHANGED <<captures, replica, lost, decisions, live, scratch, drill, report>>

\* invalidate writes Bronze; the table follows now or with the next reconcile.
Invalidate(c, mirrored) ==
    /\ Events < MaxEvents
    /\ decisions' = decisions \cup {c}
    /\ live' = IF mirrored THEN [live EXCEPT !.invalid = @ \cup {c}] ELSE live
    /\ UNCHANGED <<captures, replica, lost, deployed, releases, scratch, drill, report>>

\* `rclone copy --immutable` of the whole bucket, object by object: what was
\* written behind its listing waits for the next pass, in no order of age.  So
\* an entry may be there before its blob; RebuildOne copies the blobs.
Replicate(E, D) ==
    /\ E \cup D # {}
    /\ replica' = [replica EXCEPT !.entries = @ \cup E, !.decisions = @ \cup D]
    /\ UNCHANGED <<captures, lost, decisions, deployed, releases, live, scratch, drill, report>>

\* What the drill is there to find: an entry is gone from the replica.
Lose(c) ==
    /\ Events < MaxEvents /\ c \in replica.entries
    /\ lost' = lost \cup {c}
    /\ replica' = [replica EXCEPT !.entries = @ \ {c}]
    /\ UNCHANGED <<captures, decisions, deployed, releases, live, scratch, drill, report>>

------------------------------------------------------------------------------
(* The rebuild of one target.                                              *)

RunsOf(t) == {r \in Runs : Target[r] = t}
Entries(t) == Own(replica.entries, t)

Start ==
    /\ drill.pc = "off"
    /\ drill' = [drill EXCEPT !.pc = "snapshot", !.running = deployed]
    /\ UNCHANGED <<captures, replica, lost, decisions, deployed, releases, live, scratch, report>>

\* _rebuild_target: the replica's log of the target before the rebuild.
Snapshot ==
    /\ drill.pc = "snapshot"
    /\ drill' = [drill EXCEPT !.pc = "reconcile", !.snapshot[drill.at] = Entries(drill.at)]
    /\ UNCHANGED <<captures, replica, lost, decisions, deployed, releases, live, scratch, report>>

\* The target is rebuilt, or given up: the next one, or the comparison.
Done(d) == [d EXCEPT !.todo = {},
              !.pc = IF d.at + 1 \in Targets THEN "snapshot" ELSE "ids",
              !.at = IF d.at + 1 \in Targets THEN d.at + 1 ELSE 1]

\* The drill does not list target t again, so the rest of its copy comes now.
Arrived(t) == [replica EXCEPT !.entries = @ \cup (Own(DOMAIN captures, t) \ lost),
                              !.decisions = @ \cup Own(decisions, t)]

\* reconcile over the whole replica: each run is pending on its newest capture.
RebuildNewest ==
    LET t == drill.at
        invalid == scratch.invalid \cup Own(replica.decisions, t)
        valid(r) == EntriesOf(Entries(t), r) \ invalid
    IN
    /\ drill.pc = "reconcile"
    /\ scratch' = [scratch EXCEPT !.invalid = invalid]
    /\ drill' = [drill EXCEPT !.pc = "pending",
                   !.todo = {Newest(valid(r)) : r \in {r \in RunsOf(t) : valid(r) # {}}}]
    /\ UNCHANGED <<captures, replica, lost, decisions, deployed, releases, live, report>>

\* The runs whose instant is in the window of process.
Recent == {{r \in RunsOf(drill.at) : since <= r} : since \in RunsOf(drill.at)} \cup {{}}

\* The reconcile that process starts with, over the runs of its window: a run
\* goes on to a valid capture that came since and has another payload, and stays
\* on one that was invalidated since when there is none.
RebuildPending(recent) ==
    LET t == drill.at
        invalid == scratch.invalid \cup Own(replica.decisions, t)
        valid(r) == EntriesOf(Entries(t), r) \ invalid
        named == {c \in drill.todo : RunOf(c) \notin recent \/
                    LET V == valid(RunOf(c)) IN
                    V = {} \/ Newest(V) <= c \/ Doc(Newest(V)) = Doc(c)}
        later == {Newest(valid(r)) : r \in {r \in recent :
                    valid(r) # {} /\ \A c \in named : RunOf(c) # r}}
    IN
    /\ drill.pc = "pending"
    /\ scratch' = [scratch EXCEPT !.invalid = invalid]
    /\ drill' = [drill EXCEPT !.pc = "process", !.todo = named \cup later]
    /\ UNCHANGED <<captures, replica, lost, decisions, deployed, releases, live, report>>

\* The captures whose payload differs from the run's previous capture.
Distinct(V) ==
    {c \in V : \A e \in V : e < c /\ (\A n \in V : ~(e < n /\ n < c)) => Doc(e) # Doc(c)}

\* Then every run with more than one payload change, capture by capture.
RebuildHistory ==
    LET t == drill.at
        distinct(r) == Distinct(EntriesOf(Entries(t), r) \ scratch.invalid)
        again == {r \in RunsOf(t) : Cardinality(distinct(r)) >= 2 /\ scratch.names[r] # 0}
    IN
    /\ drill.pc = "process" /\ drill.todo = {}
    /\ drill' = [drill EXCEPT !.pc = "replay", !.todo = UNION {distinct(r) : r \in again}]
    /\ UNCHANGED <<captures, replica, lost, decisions, deployed, releases, live, scratch, report>>

\* Run by run, and of a run the oldest first.
NextOf(S) == CHOOSE c \in S : \A e \in S : RunOf(c) < RunOf(e) \/ (RunOf(c) = RunOf(e) /\ c <= e)

\* process_one of the next capture.  Its blob has come by now or it has not;
\* replica.blobs are those that were found.
RebuildOne ==
    LET c == NextOf(drill.todo)
        read(there) == there /\ c \notin scratch.invalid
    IN
    /\ drill.pc \in {"process", "replay"} /\ drill.todo # {}
    /\ \E there \in BOOLEAN :
          /\ there => c \in replica.entries
          /\ ~there => c \notin replica.entries
                       \/ (Doc(c) \notin replica.blobs /\ Events < MaxEvents)
          /\ scratch' = ProcessOne(scratch, c, drill.running, there)
          /\ replica' = IF read(there) THEN [replica EXCEPT !.blobs = @ \cup {Doc(c)}]
                        ELSE replica
          /\ drill' = [drill EXCEPT !.todo = @ \ {c},
                !.unread = IF read(there) THEN @ ELSE @ \cup {c},
                !.failed = IF read(there) /\ Doc(c) \notin Unmappable THEN @
                           ELSE @ \cup {drill.at}]
    /\ UNCHANGED <<captures, lost, decisions, deployed, releases, live, report>>

RebuiltTarget ==
    /\ drill.pc = "replay" /\ drill.todo = {}
    /\ drill' = Done(drill)
    /\ replica' = Arrived(drill.at)
    /\ UNCHANGED <<captures, lost, decisions, deployed, releases, live, scratch, report>>

\* _rebuild_target catches StoreUnavailable: the target has failed, and what was
\* processed before stays in the scratch store.
RebuildStopped ==
    /\ drill.pc \in {"reconcile", "pending", "process", "replay"} /\ Events < MaxEvents
    /\ drill' = Done([drill EXCEPT !.down = @ \cup {drill.at}])
    /\ replica' = Arrived(drill.at)
    /\ UNCHANGED <<captures, lost, decisions, deployed, releases, live, scratch, report>>

\* --dry-run: counts entries and runs, and touches nothing.
DryRun ==
    /\ drill.pc = "off"
    /\ drill' = [drill EXCEPT !.pc = "done"]
    /\ report' = [t \in Targets |-> "ok"]
    /\ UNCHANGED <<captures, replica, lost, decisions, deployed, releases, live, scratch>>

------------------------------------------------------------------------------
(* The comparison of one target.                                           *)

Fingerprint(v) == <<v.payload, Value[v.derivation][v.payload]>>

\* The target's own valid versions: its attempts inserted them, and no
\* invalidated capture did.
OwnRows(s, t) == {v \in s.rows : Target[RunOf(v.capture)] = t /\ v.capture \notin s.invalid}

\* Mutant: the bound is read when the target is compared.
BoundNow(t) == IF Entries(t) = {} THEN 0 ELSE Newest(Entries(t))

\* _within: the replica's newest capture of the target; 0 when it has none.
Bound(t) == IF drill.snapshot[t] = {} THEN 0 ELSE Newest(drill.snapshot[t])

\* Mutant: whatever the replica does not have is lag.
ComparedIfPresent(t) == {v \in OwnRows(live, t) : v.capture \in drill.snapshot[t]}

\* The live versions that the rebuild is held against.
Compared(t) == {v \in OwnRows(live, t) : Bound(t) = 0 \/ v.capture <= Bound(t)}

\* registered_at and the id, as one number.
RankOf(d) == CHOOSE i \in DOMAIN live.registered : live.registered[i] = d

\* The version of the newest derivation of each pair; the others are historical.
NewestOf(V) == {v \in V : \A u \in V : u.payload = v.payload => RankOf(u.derivation) <= RankOf(v.derivation)}

\* The first of _live_side's two passes: the derivations to rank.
CompareIds ==
    /\ drill.pc = "ids"
    /\ drill' = [drill EXCEPT !.pc = "rows", !.ids = {v.derivation : v \in Compared(drill.at)}]
    /\ UNCHANGED <<captures, replica, lost, decisions, deployed, releases, live, scratch, report>>

\* Whether the rebuild must have processed run r: its capture is in the replica
\* or it was there when the replica's newest one was fetched.  An instant
\* between captures n and n + 1 is before the bound when n is.
Expected(t, r) ==
    LET c == live.names[r] IN
    \/ c \in drill.snapshot[t] \/ Bound(t) = 0
    \/ IF captures[c].acked THEN c < Bound(t) ELSE live.began[r] < Bound(t)

ProcessedExpected(t) ==
    {r \in RunsOf(t) \cap live.processed : live.names[r] \notin live.invalid /\ Expected(t, r)}

\* What live holds that neither the target's rebuild nor a sibling's has:
\* missing, or diverging when the pair is there with another value.
Unmatched(t) ==
    {v \in NewestOf(Compared(t)) : ~\E u \in scratch.rows : Fingerprint(u) = Fingerprint(v)}

Passes(t) ==
    /\ t \notin drill.failed \cup drill.down
    /\ Cardinality(RunsOf(t) \cap scratch.processed) >= Cardinality(ProcessedExpected(t))
    /\ Unmatched(t) = {}

\* Without a live store the rebuild alone decides.
CompareNothing ==
    /\ drill.pc = "ids" /\ drill.at = 1
    /\ report' = [t \in Targets |-> IF t \in drill.failed \cup drill.down THEN "failed" ELSE "ok"]
    /\ drill' = [drill EXCEPT !.pc = "done"]
    /\ UNCHANGED <<captures, replica, lost, decisions, deployed, releases, live, scratch>>

\* The second pass and the report.  A version of a derivation that the first
\* pass did not meet has no rank: KeyError, and the drill ends there.
CompareRows ==
    LET t == drill.at
        crash == t \notin drill.down /\ {v.derivation : v \in Compared(t)} \ drill.ids # {}
        last == crash \/ t + 1 \notin Targets
    IN
    /\ drill.pc = "rows"
    /\ report' = [report EXCEPT ![t] = IF crash THEN "crashed" ELSE IF Passes(t) THEN "ok" ELSE "failed"]
    /\ drill' = [drill EXCEPT !.pc = IF last THEN "done" ELSE "ids",
                              !.at = IF last THEN @ ELSE @ + 1, !.ids = {}, !.compared = last]
    /\ UNCHANGED <<captures, replica, lost, decisions, deployed, releases, live, scratch>>

------------------------------------------------------------------------------
Init ==
    /\ captures = << >> /\ lost = {} /\ decisions = {} /\ releases = 0
    /\ replica = [entries |-> {}, decisions |-> {}, blobs |-> {}]
    /\ deployed = CHOOSE d \in Derivations : \A e \in Derivations : d <= e
    /\ live = Empty /\ scratch = Empty
    /\ drill = [pc |-> "off", at |-> 1, compared |-> FALSE, running |-> deployed,
                snapshot |-> [t \in Targets |-> {}], failed |-> {}, down |-> {},
                unread |-> {}, todo |-> {}, ids |-> {}]
    /\ report = [t \in Targets |-> "none"]

LiveNext ==
    \/ \E r \in Runs : Process(r) \/ Replay(r)
    \/ \E d \in Derivations : Release(d)
    \/ \E c \in DOMAIN captures, mirrored \in BOOLEAN : Invalidate(c, mirrored)

\* Of the target that is being rebuilt: the others' objects are read later.
ReplicaNext ==
    \/ \E E \in SUBSET (Own(DOMAIN captures, drill.at) \ (replica.entries \cup lost)),
          D \in SUBSET (Own(decisions, drill.at) \ replica.decisions) : Replicate(E, D)
    \/ \E c \in Entries(drill.at) : Lose(c)

DrillNext ==
    \/ Start
    \/ Snapshot \/ RebuildNewest \/ \E recent \in Recent : RebuildPending(recent)
    \/ RebuildHistory \/ RebuildOne \/ RebuiltTarget \/ RebuildStopped \/ DryRun
    \/ CompareIds \/ CompareRows \/ CompareNothing

\* What happens after the report is the next drill's.  Live steps neither read
\* nor write what the rebuild does, and the replica may receive an entry late:
\* the steps that commute with the drill's are taken in one order only, live
\* before the drill or inside the comparison, replication before the readings
\* of the replica's log or when the target is done (Arrived), and a loss also
\* before the entry that is read next.
Next ==
    \/ /\ drill.pc = "off"
       /\ \E r \in Runs, p \in Payloads, acked \in BOOLEAN : p \in Serves[r] /\ Capture(r, p, acked)
    \/ /\ \/ drill.pc = "off"
          \/ drill.pc = "rows"
          \/ drill.pc = "ids" /\ drill.at > 1
       /\ LiveNext
    \/ /\ \/ drill.pc \in {"snapshot", "reconcile", "pending"}
          \/ drill.pc = "process" /\ drill.todo = {}
       /\ ReplicaNext
    \/ /\ drill.pc \in {"process", "replay"} /\ drill.todo # {}
       /\ Lose(NextOf(drill.todo))
    \/ DrillNext

Spec == Init /\ [][Next]_vars

------------------------------------------------------------------------------
(* Properties.                                                             *)

TypeOK ==
    /\ captures \in Seq([run: Runs, payload: Payloads, acked: BOOLEAN])
    /\ replica.entries \cup lost \cup decisions \subseteq DOMAIN captures
    /\ replica.entries \cap lost = {} /\ replica.decisions \subseteq decisions
    /\ \A c \in drill.unread : Target[RunOf(c)] \in drill.failed
    /\ \A s \in {live, scratch} :
          /\ \A v \in s.rows : <<v.payload, v.derivation, v.capture>> \in s.occurrences
          /\ \A r \in s.processed : s.names[r] # 0 /\ s.began[r] # 0
          /\ s.invalid \subseteq decisions
    /\ \A t \in Targets : report[t] \in {"none", "ok", "failed", "crashed"}

\* What may make the drill fail a target: the replica lost an entry, or has not
\* received one that is older than its newest; a document does not map; the
\* store was away; the running implementation computes another value than live
\* has; a decision reached the replica before the live table; the replica never
\* received the target.
Cause(t) ==
    \/ lost # {} \/ t \in drill.down
    \/ \E c \in DOMAIN captures : LET u == Target[RunOf(c)] IN
          c \notin drill.snapshot[u] /\ c < Bound(u)
    \/ \E c \in replica.entries : Doc(c) \in Unmappable
    \/ \E v \in live.rows : Fingerprint(v) # <<v.payload, Value[drill.running][v.payload]>>
    \/ scratch.invalid \ live.invalid # {}
    \/ drill.snapshot[t] = {}

\* The ledger has no capture attempt of the capture that the run names, so the
\* drill dates the run by its first processing, which was of an older capture.
Misdated(t) ==
    \E r \in RunsOf(t) :
        /\ live.names[r] > Bound(t) /\ ~captures[live.names[r]].acked
        /\ live.began[r] < Bound(t)

\* The rebuild listed a capture that it then could not read, because the replica
\* has the entry and not yet the blob, or that was invalidated in between.
Unread(t) == \E c \in drill.unread : Target[RunOf(c)] = t

\* "lag, never loss" (drill.py), as far as it holds: whatever live captures,
\* processes, replays, invalidates or replicates while the drill runs, a target
\* that fails has one of the causes above, lags in a run that is misdated, or
\* was rebuilt while an object of one of its captures was still on its way.
FailureHasACause ==
    [][\A t \in Targets :
          report[t] = "none" /\ report'[t] = "failed"
          => Cause(t) \/ Misdated(t) \/ Unread(t)]_vars

\* What the comment of _live_side says, and what does not hold: lag alone fails
\* no target.  A misdated run refutes it, and so does an entry before its blob.
LagIsNotLoss ==
    [][\A t \in Targets :
          report[t] = "none" /\ report'[t] = "failed" => Cause(t)]_vars

\* A lost entry is not passed over: when a target is ok, the rebuild has the
\* document of each lost capture that live processed, whichever target it is
\* of, if live had its version from a capture of this target that is valid and
\* that the bound reaches (_own_rows goes by the capture that inserted it).
LossIsReported ==
    [][\A t \in Targets : report[t] = "none" /\ report'[t] = "ok" /\ drill.pc = "rows" =>
        \A c \in lost, v \in OwnRows(live, t) :
            (/\ <<Doc(c), v.derivation, c>> \in live.occurrences /\ v.payload = Doc(c)
             /\ v.capture <= Bound(t))
            => \E u \in scratch.rows : u.payload = Doc(c)]_vars

CurrentDoc(s) ==
    LET O == {o \in s.occurrences : o[3] \notin s.invalid} IN
    {o[1] : o \in {o \in O : \A n \in O : n[3] <= o[3]}}

\* The rebuild is a restore: when the replica is complete, every run of live
\* names its newest valid capture (live skips one that repeats the payload, the
\* rebuild dates the document by it) and no target failed, the scratch store
\* shows the document as current that live shows, although live skipped the
\* captures that were superseded before it ran and the drill replays them all.
RestoredViewAgrees ==
    (/\ drill.compared /\ drill.pc = "done" /\ \A t \in Targets : report[t] = "ok"
     /\ lost = {} /\ UNION {drill.snapshot[t] : t \in Targets} = DOMAIN captures
     /\ live.invalid = decisions /\ scratch.invalid = decisions
     /\ \A r \in Runs : LET V == EntriesOf(DOMAIN captures, r) IN
          V = {} \/ (V \ decisions # {} /\ live.names[r] = Newest(V \ decisions)))
    => CurrentDoc(scratch) = CurrentDoc(live)
==============================================================================
