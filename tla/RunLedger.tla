------------------------------ MODULE RunLedger ------------------------------
(***************************************************************************)
(* The run ledger of energy_platform.store: one row of `runs` per          *)
(* scheduled instant of a target, one row of `run_attempts` per attempt,   *)
(* leases that expire and a fence that every claim and every re-capture    *)
(* bumps (ADR-024).                                                        *)
(*                                                                         *)
(* Each lower-case operator below is one method of the Store protocol as   *)
(* PostgresStore runs it, one transaction, and constrains only the tables  *)
(* runs and attempts.  LedgerNext closes them with the most general        *)
(* client: any caller, in any order, with any clock reading.  The theorems *)
(* about LedgerSpec therefore hold for every composition whose steps are   *)
(* ledger steps; module Pipeline is one.                                   *)
(*                                                                         *)
(* A capture id is `target:instant:attempt` and a run is one instant of    *)
(* one target, so within a run the attempt number stands for the id.       *)
(***************************************************************************)
EXTENDS Naturals

CONSTANTS
    Instants,     \* scheduled_for values of the target: the keys of runs
    Workers,      \* lease owners: pods that run `process`
    Operators,    \* sessions that enqueue replays
    Captures,     \* attempt numbers a capture of a run can have
    Times,        \* clock readings; each caller passes its own `now`
    Ttl,          \* lease_ttl
    MaxAttempts,  \* bound: rows of run_attempts
    MaxFence      \* bound: value of runs.fence

ASSUME InstantsAssumption == Instants # {}
ASSUME CapturesAssumption == Captures \subseteq Nat \ {0}
ASSUME TimesAssumption == Times \subseteq Nat \ {0}
ASSUME TtlAssumption == Ttl \in Nat \ {0}
ASSUME BoundsAssumption == MaxAttempts \in Nat /\ MaxFence \in Nat
\* A lease owner is `host:pid`, never the NULL of an unowned lease.
ASSUME NobodyAssumption == "nobody" \notin Workers

VARIABLES
    runs,       \* table runs, by scheduled instant
    attempts,   \* table run_attempts, by id
    used,       \* ids of run_attempts handed out so far
    claims,     \* per worker: the Claim it got from claim() and still holds
    enqueuing   \* enqueue_replay statements whose NOT EXISTS was evaluated

tables == <<runs, attempts, used>>
ledgerVars == <<runs, attempts, used, claims, enqueuing>>

------------------------------------------------------------------------------
(* Rows.  NULL is 0 for a capture, a fence and a lease, "nobody" for an    *)
(* owner and "open" for an outcome.                                        *)

NoCapture == 0
NoLease == 0
NoFence == 0
Nobody == "nobody"

RunState == {"absent", "scheduled", "captured", "processed", "failed",
             "missing_capture", "unrecoverable"}
\* capture and backfill attempts are both "fetch", and their
\* source_unavailable is "failed": no ledger operation reads the difference.
AttemptKind == {"absent", "fetch", "process", "replay"}
AttemptOutcome == {"open", "ok", "failed", "lost_lease", "quarantined"}
AttemptIds == 1 .. MaxAttempts

Run == [state: RunState, fence: Nat, owner: Workers \cup {Nobody}, until: Nat,
        capture: Captures \cup {NoCapture}]
RunAttempt == [run: Instants, kind: AttemptKind, owner: Workers \cup {Nobody},
               until: Nat, fence: Nat, capture: Captures \cup {NoCapture},
               outcome: AttemptOutcome]
Claim == [id: AttemptIds \cup {0}, run: Instants, fence: Nat,
          capture: Captures \cup {NoCapture}]

SomeInstant == CHOOSE t \in Instants : TRUE
NoRun == [state |-> "absent", fence |-> 0, owner |-> Nobody, until |-> NoLease,
          capture |-> NoCapture]
NoAttempt == [run |-> SomeInstant, kind |-> "absent", owner |-> Nobody,
              until |-> NoLease, fence |-> NoFence, capture |-> NoCapture,
              outcome |-> "open"]
NoClaim == [id |-> 0, run |-> SomeInstant, fence |-> NoFence,
            capture |-> NoCapture]

\* Mutant: the lease_owner test is forgotten.
PendingIfUnfinished(a) == a.outcome = "open"

\* RunAttempt.pending: nobody ever leased it.
Pending(a) == a.outcome = "open" /\ a.owner = Nobody

\* RunAttempt.expired: unfinished, leased, and the lease ran out.
Expired(a, now) == a.outcome = "open" /\ a.owner # Nobody /\ a.until < now

PendingReplay(a, t) == a.run = t /\ a.kind = "replay" /\ Pending(a)
DeadReplay(a, t, now) == a.run = t /\ a.kind = "replay" /\ Expired(a, now)

Exists(t) == runs[t].state # "absent"
Holding(w) == claims[w].id # 0
Fresh(w) == Holding(w) /\ runs[claims[w].run].fence = claims[w].fence
LeaseFree(t, now) == runs[t].until = NoLease \/ runs[t].until < now

\* Mutant: replays abandoned by a dead worker are not listed.
PendingRunWithoutDead(t, now) ==
    \/ runs[t].state = "captured"
    \/ \E i \in AttemptIds : PendingReplay(attempts[i], t)

\* pending_runs: state captured, or a replay that is pending or abandoned.
PendingRun(t, now) ==
    \/ runs[t].state = "captured"
    \/ \E i \in AttemptIds :
          PendingReplay(attempts[i], t) \/ DeadReplay(attempts[i], t, now)

------------------------------------------------------------------------------
(* The Store methods.                                                      *)

\* Mutant: only a scheduled run takes a first capture.
EnsuredRunIfScheduled(r, state, c) ==
    IF r.state = "absent"
    THEN [NoRun EXCEPT !.state = state, !.capture = c]
    ELSE IF state = "captured" /\ r.state = "scheduled" /\ r.capture = NoCapture
         THEN [r EXCEPT !.state = "captured", !.capture = c]
         ELSE r

\* ensure_run, on one row: insert it; or record a first capture, unless the
\* run already names one or is processed; or leave it alone.
EnsuredRun(r, state, c) ==
    IF r.state = "absent"
    THEN [NoRun EXCEPT !.state = state, !.capture = c]
    ELSE IF state = "captured" /\ r.state # "processed" /\ r.capture = NoCapture
         THEN [r EXCEPT !.state = "captured", !.capture = c]
         ELSE r

ensure_run(t, state, c) ==
    /\ runs' = [runs EXCEPT ![t] = EnsuredRun(@, state, c)]
    /\ UNCHANGED <<attempts, used>>

set_state(t, state) ==
    /\ runs' = [runs EXCEPT ![t].state = state]
    /\ UNCHANGED <<attempts, used>>

\* Mutants: the re-capture does not fence; it does not lower the state.
RecapturedRunUnfenced(r, c) == [r EXCEPT !.state = "captured", !.capture = c]
RecapturedRunKeepsState(r, c) ==
    [r EXCEPT !.capture = c, !.fence = @ + 1, !.owner = Nobody, !.until = NoLease]

\* A new generation: the run is pending again on capture c, and whoever holds
\* a claim on the older capture is fenced off.
RecapturedRun(r, c) ==
    [r EXCEPT !.state = "captured", !.capture = c, !.fence = @ + 1,
              !.owner = Nobody, !.until = NoLease]

mark_recaptured(t, c) ==
    /\ runs[t].fence < MaxFence
    /\ runs' = [runs EXCEPT ![t] = RecapturedRun(@, c)]
    /\ UNCHANGED <<attempts, used>>

NewRow(row) ==
    /\ used < MaxAttempts
    /\ used' = used + 1
    /\ attempts' = [attempts EXCEPT ![used + 1] = row]

\* The row claim() leases: the oldest pending replay, else a new row.
PendingReplays(t) == {i \in AttemptIds : PendingReplay(attempts[i], t)}
DeadReplays(t, now) == {i \in AttemptIds : DeadReplay(attempts[i], t, now)}
IsLeastPending(i, t) ==
    i \in PendingReplays(t) /\ \A j \in PendingReplays(t) : i <= j

\* The abandoned replays of the run are closed as lost_lease.
Closed(t, now) ==
    [i \in AttemptIds |->
        IF DeadReplay(attempts[i], t, now)
        THEN [attempts[i] EXCEPT !.outcome = "lost_lease"]
        ELSE attempts[i]]

\* Mutant: the fence stays where it is.
LeasedRunUnfenced(r, w, now) == [r EXCEPT !.owner = w, !.until = now + Ttl]

LeasedRun(r, w, now) ==
    [r EXCEPT !.fence = @ + 1, !.owner = w, !.until = now + Ttl]

LeasedAttempt(t, kind, w, now) ==
    [run |-> t, kind |-> kind, owner |-> w, until |-> now + Ttl,
     fence |-> runs[t].fence + 1, capture |-> runs[t].capture,
     outcome |-> "open"]

\* Mutant: the lease changes hands without a new fence.
ClaimRowUnfenced(w, t, now, i, kind) ==
    /\ runs' = [runs EXCEPT ![t].owner = w, ![t].until = now + Ttl]
    /\ attempts' = [Closed(t, now) EXCEPT ![i] =
         [LeasedAttempt(t, kind, w, now) EXCEPT !.fence = runs[t].fence]]
    /\ claims' = [claims EXCEPT ![w] =
         [id |-> i, run |-> t, fence |-> runs[t].fence,
          capture |-> runs[t].capture]]

\* claim() on row i: bump the fence, take the lease, close abandoned replays
\* and lease attempt i (a repair someone abandoned is reopened as a replay).
ClaimRow(w, t, now, i, kind) ==
    /\ runs' = [runs EXCEPT ![t] = LeasedRun(@, w, now)]
    /\ attempts' =
         [Closed(t, now) EXCEPT ![i] = LeasedAttempt(t, kind, w, now)]
    /\ claims' = [claims EXCEPT ![w] =
         [id |-> i, run |-> t, fence |-> runs[t].fence + 1,
          capture |-> runs[t].capture]]

claim(w, t, now) ==
    /\ LeaseFree(t, now)
    /\ runs[t].fence < MaxFence
    /\ \/ \E i \in AttemptIds :
            /\ IsLeastPending(i, t)
            /\ ClaimRow(w, t, now, i, "replay")
            /\ UNCHANGED used
       \/ /\ PendingReplays(t) = {}
          /\ used < MaxAttempts
          /\ used' = used + 1
          /\ ClaimRow(w, t, now, used + 1,
                      IF DeadReplays(t, now) # {} THEN "replay" ELSE "process")

\* renew(): the run's lease only; the attempt row keeps its own lease_until.
renew(w, now) ==
    /\ Fresh(w)
    /\ runs' = [runs EXCEPT ![claims[w].run].until = now + Ttl]
    /\ UNCHANGED <<attempts, used, claims>>

\* Mutant: commit() without its fence check.
CommitAnyFence(w, state, outcome) ==
    /\ Holding(w)
    /\ attempts' = [attempts EXCEPT ![claims[w].id].outcome = outcome]
    /\ runs' = [runs EXCEPT ![claims[w].run] =
         [@ EXCEPT !.state = state, !.owner = Nobody, !.until = NoLease]]
    /\ claims' = [claims EXCEPT ![w] = NoClaim]
    /\ UNCHANGED used

\* commit() under the current fence: close the attempt, set the state and
\* release the lease.
CommitFresh(w, state, outcome) ==
    /\ Fresh(w)
    /\ attempts' = [attempts EXCEPT ![claims[w].id].outcome = outcome]
    /\ runs' = [runs EXCEPT ![claims[w].run] =
         [@ EXCEPT !.state = state, !.owner = Nobody, !.until = NoLease]]
    /\ claims' = [claims EXCEPT ![w] = NoClaim]
    /\ UNCHANGED used

\* commit() under a stale fence: nothing but the attempt's own lost_lease.
CommitStale(w) ==
    /\ Holding(w) /\ ~Fresh(w)
    /\ attempts' = [attempts EXCEPT ![claims[w].id].outcome =
         IF @ = "open" THEN "lost_lease" ELSE @]
    /\ claims' = [claims EXCEPT ![w] = NoClaim]
    /\ UNCHANGED <<runs, used>>

record_attempt(t, outcome, c) ==
    /\ NewRow([run |-> t, kind |-> "fetch", owner |-> Nobody, until |-> NoLease,
               fence |-> NoFence, capture |-> c, outcome |-> outcome])
    /\ UNCHANGED runs

\* enqueue_replay() is INSERT ... SELECT ... WHERE NOT EXISTS at READ
\* COMMITTED with no lock on the run and no unique index: the subquery is
\* evaluated on a snapshot, the row appears when the transaction commits.
EnqueueCheck(o, t) ==
    /\ PendingReplays(t) = {}
    /\ enqueuing' = enqueuing \cup {<<o, t, runs[t].capture>>}
    /\ UNCHANGED tables

EnqueueInsert(o, t, c) ==
    /\ <<o, t, c>> \in enqueuing
    /\ NewRow([run |-> t, kind |-> "replay", owner |-> Nobody,
               until |-> NoLease, fence |-> NoFence, capture |-> c,
               outcome |-> "open"])
    /\ enqueuing' = enqueuing \ {<<o, t, c>>}
    /\ UNCHANGED runs

------------------------------------------------------------------------------
(* The most general client.                                                *)

LedgerInit ==
    /\ runs = [t \in Instants |-> NoRun]
    /\ attempts = [i \in AttemptIds |-> NoAttempt]
    /\ used = 0
    /\ claims = [w \in Workers |-> NoClaim]
    /\ enqueuing = {}

\* capture acknowledges with or without a capture; the gap detector inserts
\* the instants nobody captured.
EnsureRun(t) ==
    /\ \/ \E c \in Captures : ensure_run(t, "captured", c)
       \/ \E state \in {"scheduled", "missing_capture", "unrecoverable"} :
             ensure_run(t, state, NoCapture)
    /\ UNCHANGED <<claims, enqueuing>>

\* The gap detector's unfenced transition.
SetState(t) ==
    /\ Exists(t)
    /\ \E state \in {"missing_capture", "unrecoverable"} : set_state(t, state)
    /\ UNCHANGED <<claims, enqueuing>>

MarkRecaptured(t) ==
    /\ Exists(t)
    /\ \E c \in Captures : mark_recaptured(t, c)
    /\ UNCHANGED <<claims, enqueuing>>

ClaimRun(w, t) ==
    /\ Exists(t) /\ ~Holding(w)
    /\ \E now \in Times : claim(w, t, now)
    /\ UNCHANGED enqueuing

Renew(w) ==
    /\ \E now \in Times : renew(w, now)
    /\ UNCHANGED enqueuing

\* What process_one commits: rows, a failure or a quarantine; a claim that
\* names no capture can only fail.
CommitRun(w) ==
    /\ \/ /\ claims[w].capture # NoCapture
          /\ CommitFresh(w, "processed", "ok")
       \/ \E outcome \in {"failed", "quarantined"} :
             CommitFresh(w, "failed", outcome)
       \/ CommitStale(w)
    /\ UNCHANGED enqueuing

\* The pod dies, or the database is lost, while it holds a claim.
Crash(w) ==
    /\ Holding(w)
    /\ claims' = [claims EXCEPT ![w] = NoClaim]
    /\ UNCHANGED <<runs, attempts, used, enqueuing>>

RecordAttempt(t) ==
    /\ Exists(t)
    /\ \/ \E c \in Captures : record_attempt(t, "ok", c)
       \/ record_attempt(t, "failed", NoCapture)
    /\ UNCHANGED <<claims, enqueuing>>

\* replay_range and replay_derivation skip a run that names no capture.
EnqueueReplay(o, t) ==
    /\ runs[t].capture # NoCapture
    /\ \A e \in enqueuing : e[1] # o
    /\ EnqueueCheck(o, t)
    /\ UNCHANGED claims

InsertReplay(o, t) ==
    /\ \E c \in Captures : EnqueueInsert(o, t, c)
    /\ UNCHANGED claims

LedgerNext ==
    \/ \E t \in Instants :
          EnsureRun(t) \/ SetState(t) \/ MarkRecaptured(t) \/ RecordAttempt(t)
    \/ \E w \in Workers, t \in Instants : ClaimRun(w, t)
    \/ \E w \in Workers : Renew(w) \/ CommitRun(w) \/ Crash(w)
    \/ \E o \in Operators, t \in Instants :
          EnqueueReplay(o, t) \/ InsertReplay(o, t)

LedgerSpec == LedgerInit /\ [][LedgerNext]_ledgerVars

------------------------------------------------------------------------------
(* Properties.                                                             *)

\* Every table and every claim a worker keeps has the shape the store's row
\* types give it (protocol.py).
LedgerTypeOK ==
    /\ runs \in [Instants -> Run]
    /\ attempts \in [AttemptIds -> RunAttempt]
    /\ used \in 0 .. MaxAttempts
    /\ claims \in [Workers -> Claim]
    /\ enqueuing \subseteq Operators \X Instants \X Captures

\* Ids beyond `used` are free, the ones handed out belong to an existing run,
\* as does a replay being enqueued, and a run that does not exist has no row.
RowsAllocated ==
    /\ \A i \in AttemptIds :
          /\ i > used => attempts[i] = NoAttempt
          /\ i <= used => attempts[i].kind # "absent" /\ Exists(attempts[i].run)
    /\ \A e \in enqueuing : Exists(e[2])
    /\ \A t \in Instants : ~Exists(t) => runs[t] = NoRun

\* The fence a claim handed out identifies it: no attempt carries a fence
\* ahead of its run, and no two attempts of a run share one (claim(),
\* mark_recaptured()).
FencesIdentifyClaims ==
    \A i \in AttemptIds :
        /\ attempts[i].fence <= runs[attempts[i].run].fence
        /\ \A j \in AttemptIds :
              i # j /\ attempts[i].run = attempts[j].run
                    /\ attempts[i].fence = attempts[j].fence
              => attempts[i].fence = NoFence

\* A claim is backed by the attempt row it was given, unchanged since.
ClaimsAreBacked ==
    \A w \in Workers : Holding(w) =>
        LET c == claims[w] IN
        /\ c.id <= used
        /\ attempts[c.id].run = c.run
        /\ attempts[c.id].fence = c.fence
        /\ attempts[c.id].capture = c.capture
        /\ attempts[c.id].kind \in {"process", "replay"}
        /\ attempts[c.id].owner = w
        /\ c.fence # NoFence

\* A claim that would still pass commit()'s fence check has its attempt
\* unfinished and its lease unreleased, and is for the capture the run names
\* now: the generation a run names cannot change under a live claim (ADR-024
\* amendment 1).
FreshClaimIsCurrent ==
    \A w \in Workers : Fresh(w) =>
        /\ attempts[claims[w].id].outcome = "open"
        /\ runs[claims[w].run].owner = w
        /\ runs[claims[w].run].until # NoLease
        /\ \/ claims[w].capture = NoCapture
           \/ claims[w].capture = runs[claims[w].run].capture

\* Of the workers that believe they hold the same run, at most one can still
\* commit: two commits of one claim generation never both write (ADR-024 §4).
SingleCommitter ==
    \A v, w \in Workers :
        Fresh(v) /\ Fresh(w) /\ claims[v].run = claims[w].run => v = w

\* Whether attempt i is the last successful processing of run t.
LastOk(i, t) ==
    /\ attempts[i].run = t /\ attempts[i].outcome = "ok"
    /\ attempts[i].kind \in {"process", "replay"}
    /\ \A j \in AttemptIds :
          /\ attempts[j].run = t /\ attempts[j].outcome = "ok"
          /\ attempts[j].kind \in {"process", "replay"}
          => attempts[j].fence <= attempts[i].fence

\* A processed run names the capture its last successful attempt processed:
\* a slow worker never marks processed a generation it did not read, however
\* leases expire and re-captures interleave (review 2 DC-02).
ProcessedIsTheNamedCapture ==
    \A t \in Instants : runs[t].state = "processed" =>
        /\ runs[t].capture # NoCapture
        /\ \E i \in AttemptIds : LastOk(i, t) /\ attempts[i].capture = runs[t].capture

\* A run that is under lease has an unfinished attempt of the same owner and
\* fence, so whoever waits for the lease waits for a real attempt.
LeaseHasAnAttempt ==
    \A t \in Instants : runs[t].until # NoLease =>
        /\ runs[t].owner # Nobody
        /\ \E i \in AttemptIds :
              /\ attempts[i].run = t /\ attempts[i].fence = runs[t].fence
              /\ attempts[i].owner = runs[t].owner
              /\ attempts[i].outcome = "open"

\* Where a fence comes from: the attempt claim() opened under it, or a
\* re-capture, which left the run pending unless the gap detector moved it.
FenceLeavesWork ==
    \A t \in Instants : runs[t].fence # 0 =>
        \/ runs[t].state \in {"captured", "missing_capture", "unrecoverable"}
        \/ \E j \in AttemptIds : attempts[j].run = t
                                /\ attempts[j].fence = runs[t].fence

\* An attempt loses its lease only once the run's fence has moved past it.
LostLeaseIsSuperseded ==
    \A i \in AttemptIds : attempts[i].outcome = "lost_lease" =>
        attempts[i].fence < runs[attempts[i].run].fence

\* A replay closed as lost_lease is not forgotten: a later claim took the run
\* over, or the re-capture that fenced it off left the run pending, unless the
\* gap detector moved it (ADR-024 amendment 2).
LostReplayIsNotForgotten ==
    \A i \in AttemptIds :
        attempts[i].kind = "replay" /\ attempts[i].outcome = "lost_lease" =>
            \/ runs[attempts[i].run].state \in
                  {"captured", "missing_capture", "unrecoverable"}
            \/ \E j \in AttemptIds : attempts[j].run = attempts[i].run
                                    /\ attempts[j].fence > attempts[i].fence

\* The inductive invariant the theorems rest on: the rows a claim was given
\* are still there, under the fence that identifies it.
LedgerInv ==
    /\ LedgerTypeOK
    /\ RowsAllocated
    /\ FencesIdentifyClaims
    /\ ClaimsAreBacked
    /\ FreshClaimIsCurrent
    /\ LeaseHasAnAttempt
    /\ ProcessedIsTheNamedCapture
    /\ FenceLeavesWork
    /\ LostLeaseIsSuperseded

\* The audit trail is append-only: a finished attempt keeps its outcome and a
\* leased one its fence, owner and capture, although commit() and claim()
\* update rows by id alone.
AttemptsAreFinal ==
    [][\A i \in AttemptIds :
        /\ attempts[i].outcome # "open" => attempts'[i] = attempts[i]
        /\ attempts[i].owner # Nobody =>
              /\ attempts'[i].owner = attempts[i].owner
              /\ attempts'[i].fence = attempts[i].fence
              /\ attempts'[i].capture = attempts[i].capture]_ledgerVars

\* enqueue_replay: "Add a pending replay attempt unless one is already
\* pending" (protocol.py, Store.enqueue_replay).
OnePendingReplay ==
    \A t \in Instants, i, j \in AttemptIds :
        PendingReplay(attempts[i], t) /\ PendingReplay(attempts[j], t) => i = j

==============================================================================
