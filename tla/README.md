# energy-platform: TLA+ models, checks and proofs

The energy platform fetches documents from market data sources, keeps every
one of them for ever (Bronze), and derives from them the observations its
readers see (Silver). Nothing about the derivation is trusted: documents are
corrected by their sources, releases are wrong and are rolled back, pods die,
the database is away, and everything must be rebuilt from Bronze. This
directory models the part of the code that makes this work.

## 1. The system

| Component | State | Operations | Talks to |
|---|---|---|---|
| Bronze (`bronze/`) | content-addressed blobs; the capture log, one entry per `(target, instant, attempt)`; invalidation objects | `Bronze.capture`, `read`, `put_invalidation`, listings | object store |
| Object-store client (`fetch/objectstore.py`) | none | signed requests with retries; create-only PUT | S3 gateway |
| Run ledger (`store/`, tables `runs`, `run_attempts`) | per run: state, fence, lease, named capture; per attempt: kind, lease, fence, capture, outcome | `ensure_run`, `set_state`, `mark_recaptured`, `claim`, `renew`, `commit`, `record_attempt`, `enqueue_replay` | Postgres |
| Silver (`store/`, tables `observations`, `observation_occurrences`, `derivations`, `invalidations`; views) | versions by (identity, payload, derivation), occurrences by capture, registrations, decisions | `commit`, `add_invalidation`, `current_rows` | Postgres |
| Runtime verbs (`runtime/`) | only local variables between store calls | `capture`, `recapture`, `backfill`, `reconcile`, `process`, `replay_range`, `replay_derivation`, `detect_gaps`, `invalidate` | Bronze, ledger, Silver, source |
| Fetch (`fetch/policy_gate.py`, `plan.py`, `client.py`, `policy.py`) | the gate's counters, the token bucket | wait for the network policy; plan the requests of a block; fetch with checks, redirects, retries | source, name service |
| Cron, calendar (`runtime/cron.py`, `schedule.py`, `context.py`, `contracts/intervals.py`) | none | instants of a schedule, the instant of a capture, delivery days, intervals, months | every verb |
| Freshness (`runtime/freshness.py`) | one row per target | status of the partition that is reported | ledger, Silver, Bronze |
| Restore drill (`runtime/drill.py`) | scratch store, snapshots | rebuild from the replica and compare with live | Bronze replica, both stores |
| Contracts (`contracts/`) | none | schema of a manifest, admission against the registries, goldens | harness, runtime |
| Parsing and mapping (`parse/`, `mapping/`) | none | document to observations and quality events, or quarantine | process, goldens, triage |
| Triage (`triage/`) | a proposal in the outbox | detect drift, ask a model, constrain and apply its answer | manifest, captures |
| Harness, MCP (`harness/`, `mcp/`) | files of a target, session journal, outbox | scaffold, write, record, test, request admission, bundle | people and agents |

How they interact. Each target has CronJobs for capture, recapture, backfill,
process and gap detection. A CronJob excludes itself
(`concurrencyPolicy: Forbid`), not the others, and people start the same verbs
as Jobs: any two verbs overlap. A verb writes Bronze first and the ledger last.
Each store method is one transaction; between two of them a verb acts on what
it has read. The ledger's fence is the only protection of a commit.

What is hard, and where each hazard bites, is listed in `PROJECT.json` under
`hazards`. In short: leases that expire under slow workers; corrections that
arrive while the previous payload is processed; acknowledgements lost, late or
out of order; writers that race for one entry key, and responses that are lost
after the request took effect; payloads that come back; replays of old
captures, releases and rollbacks in any order; decisions that arrive while the
capture is processed; detectors that act on an old listing; a drill that reads
two stores that move; names that resolve to something else a moment later; pods
that start late, over midnight or a change of the clock; text edits made on the
word of a language model.

What makes each component correct:

* ledger: at most one holder can commit; processed means that the named
  capture was processed; no replay and no finished attempt is lost;
* Bronze: the capture log is an append-only history, acknowledged entries stay,
  and an entry says what the source served to that fetch;
* Silver: the current view is a function of what was committed and of the
  decisions, whatever the order; it does not go back in time;
* runtime: it only makes ledger steps, and every capture is processed in the end;
* fetch: no work before the network policy, no payload from an unchecked
  address, the run's own day, a bounded number of requests, and an end that
  every step comes closer to (the declared rate is not kept, section 4);
* calendar and freshness: no phantom gap, no instant that nobody looks at, and a
  late day that is seen;
* drill: lag is not reported as loss but in two named cases, loss is reported,
  and a full replica gives the view of live;
* contribution: a bundle is runnable, and its goldens stay green while the
  registries grow; a proposal changes what it may; a clean bill of triage is
  true; a write that is answered is all or nothing.

## 2. Modules

| Module | Models |
|---|---|
| `RunLedger` | the Store methods on `runs` and `run_attempts`, and their most general client `LedgerSpec` |
| `CaptureLog` | what Bronze promises: numbered, immutable entries whose blob is there |
| `Bronze` | the capture path request by request; implements `CaptureLog` |
| `Silver` | versions, occurrences, registrations, decisions, the current view |
| `Pipeline` | the verbs, one store call per step, over the tables of `RunLedger` |
| `Drill` | the restore drill beside a live store and a replica |
| `Fetch` | the policy gate, the requests of a block, the fetcher and the rate limiter it may be given |
| `Calendar` | civil time, delivery days, cron expressions, instants, months (operators) |
| `Freshness` | a schedule carried out, the gap detector's timing and the freshness row; extends `Calendar` |
| `Manifest` | the schema of a manifest and its admission (operators) |
| `Mapping` | decode, parse, map, completeness, goldens; extends `Manifest` |
| `Triage` | detection of drift and the fate of an answer; extends `Mapping` |
| `Contribution` | the tools, surface rules, gates and bundle; extends `Triage` |
| `RunLedgerProofs`, `BronzeProofs`, `SilverProofs`, `PipelineProofs`, `DrillProofs`, `FetchProofs`, `FreshnessProofs`, `ContributionProofs` | the theorems about each, section 5 |
| `MC*` | the constants of the TLC instances; `MCFreshnessRare` has the cadences of section 4 |

**RunLedger.** A run is one scheduled instant of one target, so an instant is
its key, and a capture id is its attempt number. `EnsuredRun`,
`RecapturedRun`, `LeasedRun` say what a method makes of a row; the lower-case
operators are the methods. Every method is atomic, as in `PostgresStore`,
except `enqueue_replay`: its `NOT EXISTS` holds no lock, so `EnqueueCheck` and
`EnqueueInsert` are two steps. Each caller passes its own `now`, so `claim` and
`renew` take any clock reading. `LedgerNext` lets anybody call anything in any
order; `renew` is there as part of the protocol, no verb calls it. Left out:
`origin`, `error`, timestamps, and the difference between kinds and outcomes
that no method reads.

**Bronze.** A pod goes through `baseline`, `fetch`, `list`, `blob`, `put` and
`readback`; `fetched` numbers the fetches, `served` is what the source
answered, and at which URL: discovery and redirects end at any one. `PutEntry` has the three outcomes of a create-only PUT: refused,
created, and created with the response lost, which `_request` turns into a
refusal of its own retry. `CreateOnly = FALSE` is the gateway that ignores
`If-None-Match`. A crash is possible everywhere: `ObjectStoreError` is not
caught by `capture`, so the store giving up is one.

**Silver.** A capture is its place in the log, which stands for its
`fetched_at`. A document covers identities; a derivation computes one target.
`Claim`, `CheckInvalidated` and `Commit` are separate, so releases, decisions
and other pods come in between. The ledger appears as the flag `live` of a
worker: of those who hold a run one can commit, which is `SingleCommitter` of
`RunLedger`. `done` and `repairs` are history variables for the properties.

**Pipeline.** Each pod has a program counter; a step makes one store call, and
Bronze's capture is one step, as `ImplementsCaptureLog` allows. `process` and
`replay_range` run the same `Reconcile` steps. The reads of `process_one` go
with the claim. `process` lists the instants of its window widened by the
correction days (`InWindow`), `replay_range` and the rebuild of the drill the
whole log, and the gap detector those between its tolerance and its look-back
(`GapInstants`); the clock counts in the unit of the instants. `pending_runs` has
no window: a run the ledger knows is claimed whatever its age. For which instants
people and the backfill start a verb is left open.

**Drill.** One observation identity stands for all, because the comparison is
per identity. `ProcessOne` and `Generation` are `process_one` and `reconcile` on
a store that is a value, so that the live store and the scratch store use the
same ones. The rebuild of a target makes one `process_one` per step: first the
newest capture of every run (`RebuildNewest`), which the reconcile inside
`process` may move on for the runs of its window (`RebuildPending`, for any window),
then each distinct capture of the runs that have several (`RebuildHistory`);
`drill.todo` is what is left of the pass. Replication copies in any order, so an
entry may be there before its blob, and an entry may be lost after it was listed:
`process_one` then fails and the capture is `drill.unread`. `replica.blobs` are the
blobs that a step has found there. The store may go away at any of these steps
(`RebuildStopped`), and what was processed stays. The drill does not read the
replica of a target again when it is done with it, so what was still missing then
arrives at once (`Arrived`), one of the orders that cannot be told apart.
`Bound`, `Compared`, `Expected` are `_live_side`; `CompareIds` and
`CompareRows` are its two passes over live rows, between which live may register
a derivation (then the drill crashes on a missing rank, report `crashed`).
Steps of live that commute with the rebuild are taken in one order only, as
`Next` says.

**Fetch.** The gate makes three connects a round; the network may turn one into
a failure at most `MaxGlitches` times. `Pod` is the fetcher: `Check`, `Resolve`,
`Acquire`, `SendFails` or `SendAnswered`, then `Refuse`, `Redirect` or `Answer`.
`status` is a representative of each class the code tells apart. The bucket is
counted in fractions of a token, so that the arithmetic is exact; in the code it
is a float. `HasLimiter` says whether the fetcher was given a limiter: FALSE is
what `cli.py` builds and what the run checks. The gate is the one with a policy
canary, which the chart gives it; with `policy_canary = None`
(`policy_gate.py:120`) only the metadata canary is left, and a node that blocks it
opens the gate before the pod's policy is in force.

**Calendar and Freshness.** Time is counted in the ticks a cron field can name
and a day has `DayLen` of them. The zone skips one tick and repeats one, inside
the instants of the cadence. `Freshness` lets the clock run, pods start up to
`MaxDelay` late, by hand or not at all, days become complete and incomplete
again, and the detector run at least every `DetectEvery` ticks. The partition is
a delivery day; partitions of an hour (`ceps_load`) and of a month are not modelled.

**Manifest, Mapping, Triage, Contribution.** A manifest is the record its YAML
holds, an optional key being in the record's DOMAIN or not. A document is its
record-shaped units; a cell says how it is written and what number it stands
for, because separators, signs and types are what the engine tells apart. The
answer of the triage backend is any set of operations. An edit of the
manifest's text does what it is for or, where a comment or a quoted text looks
like the key, nothing or something else, each edit on its own (`Edits`); the guard
has to catch that.
In `Contribution` a call on disk is two steps where the code makes two writes or
writes before it checks, and the server may die in between. `Truth` is what
every document says, so that `NoFalseHealth` can tell a wrong reading from a
right one.

## 3. Runs

| Run | Instance | Shows |
|---|---|---|
| `ledger` | 1 run, 2 workers, 1 operator, 2 captures, clock {1,3}, TTL 1, 3 attempts, fence to 3 | the ledger's invariants under any client |
| `bronze` | 1 instant, 2 pods, 2 documents, 2 URLs, 3 fetches, 2 collisions, 1 lost response | Bronze implements `CaptureLog`; acknowledged entries stay; entries are faithful, 304 included |
| `silver_replay` | 1 run, documents a and b, 2 derivations, 2 pods, 3 captures, 2 releases | the view follows the commits and ignores retries |
| `silver_invalidate` | system of record and copy, 3 derivations, 1 decision | nothing current is invalidated; the view never regresses |
| `pipeline_acks` | 2 capture pods, 1 process pod, 2 fetches, 1 fault; instant 1 read at 2 and 4, window 2, correction 1 | the ledger names entries; newest content is processed |
| `pipeline_replay` | 1 capture pod, 2 process pods, 1 operator, 1 fault; window 2, no correction | ledger steps only; replays are carried out; newest content is processed when the ledger knows it |
| `pipeline_gaps` | gap detector, 1 decision, a document that does not map; window 2, correction 1, tolerance 1 | newest content is settled |
| `pipeline_late_gap` | as above | finding |
| `drill` | 2 targets of one dataset, 2 documents, 2 derivations, 3 captures, 1 event (release, decision, lost entry, blob not yet there, lost acknowledgement or store away) | a failure has a cause; a loss is reported; a full replica restores the view |
| `fetch` | 5 blocks, 6 URLs on 2 hosts, 3 addresses, 1 redirect, 3 attempts, no limiter, 2 rounds in a row, 1 accident | policy, peer, own day, bounded requests, every step closer to the end, end |
| `freshness` | days of 4 ticks, 3 instants a day, both changes of the clock, 14 ticks, delay up to 2, 2 events | no phantom gap, nothing slips through, late days are seen and stay in view, the calendar agrees with itself |
| `contribution` | 2 targets, 8 documents, 8 manifests, 6 goldens, 9 operations (and renames of both metrics), a contract that may grow, 3 changing calls | bundles are runnable and stay green; proposals are contained; no false health; writes are all or nothing |

Why the bounds are enough. Runs do not interact in the ledger (no method reads
two rows of `runs`), so one run has every behaviour, and the theorems hold for
any number. Two workers, two readings more than a TTL apart and a fence up to 3
contain: claim, expiry, second claim, re-capture, and the commits of both in
either order. Three captures contain a, b, a. Two collisions instead of five
keep the limit reachable. In the liveness runs `MaxAttempts` and `MaxFence` are
above what the bounded events can use, so no bound blocks a pod; `MaxFetches`,
`MaxReplays`, `MaxDecisions` and `MaxFaults` bound the environment only.

The window of `process`: the last reading of the clock, 4, is the last one at which
instant 1 is in a window of 2 with 1 day of correction (`pipeline_acks`,
`pipeline_gaps`), so there process has to repair whatever was lost; without the
correction (`pipeline_replay`) the instant has left the window, and what must be
processed is what the ledger was told. The detector's look-back has no correction:
it no longer sees the instant at 4.

In `drill`, three captures and two targets contain a, b, a on one run and a
sibling that holds the same document; each event alone is enough for each cause,
and `LossIsReported` needs the loss only (4.7 million states). Documents that do not map and several
events at once are left to the theorems of `DrillProofs`. In `fetch` one redirect,
three attempts put a retry after a redirect after a retry. The
calendar repeats after a day and a change of the clock; the horizon has both
changes with a day around each. In `contribution` three changing calls are
enough to write a manifest, a golden and a fixture in any order, and the initial
directories stand for what earlier sessions left.

Deadlock is checked in the runs of the ledger, Bronze, Silver and the pipeline.
A pod that fetched, a finished drill, the horizon of the calendar and the last
call of a session are ends, so those runs allow it. Symmetry (pods are
interchangeable) is used only where no liveness is checked.

Fairness (`Pipeline!Fairness`): weak fairness of each started capture pod and
of each process pod, because a pod that runs goes on and the process CronJob
fires again; of the commit of an open `enqueue_replay`; and of the clock, so
that leases expire. None for the source, the gap detector, the operators or
faults. `Fetch!Spec` has weak fairness of the pod's own steps: every connect and
every request has a timeout, the sleeps are bounded by `Delays` and by the bucket.
None for `PolicyApplied`: a policy that never comes closes the gate.

`NewestIsProcessed` has two conditions, both about what the code does not do: the
gap detector did not write over the run (finding of section 4), and the instant is
in the window of `process` or the ledger knows the content of its newest entry. An
acknowledgement that stays lost until the instant has left the window is repaired
by `replay_range` only, which looks at the whole log.

Each property has a mutant in `PROJECT.json`: a plausible mistake in the code
under which TLC finds the property violated.

Type invariants are theorems: `LedgerTypeOK` (and a conjunct of `LedgerInv`), those
of `Bronze` over a gateway that creates only, of `Silver` for finitely many
derivations, and of `Pipeline`, `Drill` and `Fetch`. The runs list what the theorems
rest on and what could go wrong instead.

## 4. Findings

`pipeline_late_gap`, quoted in `PROJECT.json`: the gap detector may leave a
captured run as `unrecoverable` for ever.

Further statements of comments that do not hold. Each is a property in its
module; TLC refutes it with the configuration named, which is kept for that and
is not one of the runs.

* `OnePendingReplay` (`RunLedger`, `MCRunLedgerReplays.cfg`): two sessions that
  enqueue a replay at the same time both insert one (`store/postgres.py:475`,
  against `store/protocol.py:272`). Redundant work.
* `RefusedMeansAnotherWriter` (`Bronze`, `MCBronzeLost.cfg`): a create-only PUT
  whose response was lost is refused by its own entry, and the fetch is entered
  twice (`fetch/objectstore.py:454`, against `bronze/capture_log.py:87`).
* `RepairRetiresTheDerivation` (`Silver`, `MCSilverRepair.cfg`):
  `runs_with_derivation` joins the attempt that inserted a version, so a run that
  only added an occurrence is not replayed and the bad row stays current
  (`store/postgres.py:512`, against `runtime/replay.py:27`).
* `NoInvalidGeneration` (`Pipeline`, `MCPipelineGeneration.cfg`): reconcile does
  not move a run from an invalidated capture to a later one with the same payload
  (`runtime/reconcile.py:55`, against `:32`).
* `RejectedLeavesNoFile` (`Contribution`, `MCContributionReject.cfg`): a date that
  does not exist makes `yaml.safe_load` raise ValueError, which nothing catches:
  the write is not rolled back and the server's loop ends (against
  `mcp/tools.py:8`).
* `LateSurfaces` (`Freshness`, `MCFreshnessDaily.cfg` of `MCFreshnessRare`): twice a
  daily cadence is longer than the next day lasts, so a day is never reported as
  late (against `runtime/freshness.py:15`).
* `LateStaysInView` (`Freshness`, `MCFreshnessWeekdays.cfg` of `MCFreshnessRare`):
  before a day without instants `cadence_of` jumps from the distance of two
  instants to a day, the tolerance with it, and a late day is pending again.
* `NothingSlipsThrough` (`Freshness`, `MCFreshnessMonthly.cfg` of
  `MCFreshnessRare`): `cadence_of` finds at most one instant of a monthly cadence
  in two days and calls it daily, so the tolerance of 48 hours is as long as the
  look-back, and what is past the one is past the other (`runtime/gaps.py:81`,
  `:88`, against `:3`). The monthly targets have no detected gap.
* `RateIsKept` (`Fetch`, `MCFetchRate.cfg`): `_live_fetcher` (`cli.py:200`) builds
  fetchers without a rate limiter and `rate_limiter_for` (`fetch/plan.py:98`) has no
  caller, so the `rate_limit` of a rest block is not honoured, against
  `fetch/plan.py:10`. With `HasLimiter = TRUE` the same configuration satisfies it.
* `LagIsNotLoss` (`Drill`): two kinds of lag fail a target. A capture may be rebuilt
  while the replica has its entry and not yet its blob, and `process_one` fails
  (`runtime/process.py:80`, against `runtime/drill.py:29`); `FailureHasACause` names
  this `Unread`. And a run whose newest capture no capture attempt names
  (its acknowledgement was lost) is dated by its first processing, which was of
  an older capture; so a re-capture that is not yet replicated counts as expected
  and the target fails, although it only lags (`runtime/drill.py:326`, against
  `:29`). For the latter, `MCDrill` with both runs of one target and `MaxEvents = 2` (some minutes):
  capture 1 is processed and invalidated, capture 2 of the other run is
  replicated, capture 3 is processed and neither acknowledged nor replicated.
  `FailureHasACause` names this case `Misdated`.

The theorems about the last three properties of `Freshness` have the conditions
that exclude these cadences (section 5).

Met while modelling, and outside the properties: the gates of a bundle look at
golden rows only (`harness/goldens.py:115`), so a column that agrees with the right
one in every golden row and differs elsewhere is bundled. A live store skips a later capture that repeats the payload
of a run, while the rebuild dates the document by it, which is why
`RestoredViewAgrees` asks that each run names its newest capture. A document with records of
two shapes gives `no_drift` although half of it is not read. Two rename
operations may point two metrics at one field; the goldens have to catch that.
A fixture directory that has only its blob cannot be recorded again.
`prepare_bundle` reads the files again after the gates. A proposal may be made
for a capture of which nothing is read: the check of the patched manifest looks
at the quarantine and at missing sources, not at `no_records`
(`triage/pipeline.py:489`). The drill goes by the capture that inserted a version
(`_own_rows`), so a version whose inserting capture is invalidated is not
compared even when another valid capture has the same document; `LossIsReported`
says so. A document all of whose field names are unsafe
(`SAFE_NAME`) has no inventory, and triage finds nothing missing in it: `no_drift`
of a document of which nothing is read (`triage/pipeline.py:187`; `Regular` of
`Contribution` excludes it). A
`HostEntry` that allows http and leaves `ports` at `(443,)` admits
http URLs that the egress policy refuses (`contracts/hosts.py:16`):
`RegistriesAssumption` makes the port the maintainer's duty.

## 5. Proofs

Eight modules prove theorems for every value of the constants that satisfies
the named ASSUMEs of the model (`InstantsAssumption`, `BronzeAssumption`,
`DrillAssumption`, ...): any number of runs, pods, captures, documents and
derivations, and any bounds. Every safety property that a passing run checks is a
theorem. `PROJECT.json` lists
the theorems one by one; this is the argument of each module.

**RunLedgerProofs.** `SingleCommitter` is not inductive: nothing in it says that
two claims of one run have different fences. `LedgerInv` adds what the code
relies on: attempt rows beyond `used` are empty (`RowsAllocated`); no attempt has
a fence above its run's and no two of a run share one (`FencesIdentifyClaims`); a
claim's row still has the claim's fence, owner and capture (`ClaimsAreBacked`);
a run under lease has an unfinished attempt (`LeaseHasAnAttempt`). Two fresh
claims of one run then have the fence of the run and so one row, one owner.
`ProcessedIsTheNamedCapture` needs that a fresh claim is for the named capture
(`FreshClaimIsCurrent`), which `mark_recaptured` keeps by bumping the fence, and
that its fence is the largest of the run. `LostReplayIsNotForgotten` needs
`FenceLeavesWork` and `LostLeaseIsSuperseded`. Each Store method has a lemma;
`SameFenceStep` and `NewRowStep` are the parts shared by those that leave the
fences alone or only add a row.

**PipelineProofs.** The ledger's variables are those of `RunLedger` and the verbs
call its operators, so `PipelineImplementsLedger` is a step-by-step argument:
every step of a verb is a `LedgerNext` step or leaves the ledger alone. What it
needs is in `PipelineInv`: an enqueue under way belongs to the session that is
about to insert, a pod about to commit holds its claim, and what a pod has read
names entries of the log. The log only grows and runs stay, so what was read
stays true (`PodStable`, `FetcherStable`, `GapStable`), and one lemma for each kind
of step does the rest. `LedgerInvariant` then gives `PodsCommitExclusively` and
`PodsProcessTheNamedCapture` for the verbs, without a proof of their own.

**BronzeProofs.** `LogInv` holds over any gateway, and gives
`EntriesStayFaithful`: what a pod holds in its hands is what the source answered
to its own fetch, a 304 included, because the baseline it was answered against is
an entry that never changes; and the attempts of an instant are numbered without
holes, because a PUT is made for the number after the last one listed. Over a
gateway that creates only, `BronzeInv` adds that an entry under a key is never
replaced, and counts: each entry stands for a fetch that is over or for a lost
response, so attempts stay in their range. The refinement mapping sends an
instant's entries to the sequence of their payloads; `HistoryStep` shows that
exactly the step which creates an object appends to it.

**SilverProofs.** `SilverInv` says that the tables are what `done`, the set of
commits, says: an occurrence for each commit and identity, a version for each
pair that was met, each derivation registered once. From it `Current` is computed
as an operator of `done`, the decisions and the registrations alone
(`ViewIsAFunctionOfTheCommits`): the rank of a version is the greatest of its
occurrences' instants, so ranking versions is ranking commits (the rank lemmas),
and a finite set has a maximum. The two action properties compare that operator
before and after a commit: the same commit again adds nothing to `done`; another
one only wins if nothing exceeds it. `SilverTypeOK` adds `KeyedOnce`: the upsert
inserts a row only where none has its key, so an identity, payload and derivation
never have two versions.

**DrillProofs.** The hard part is what the rebuild owes to the replica half-way
through. While nothing is lost, what the drill has listed stays in the replica
(`KeptInv`); a target fails only over a document that does not map or a capture it
could not read (`FailedInv`). A target that failed, is down, or is about to process
what was invalidated since it was listed owes nothing more (`Broken`). Any other
that is finished shows each valid capture of its listing, and one in work has for
each of them a capture of its run still to do or done, and in the second pass one
with the same document (`ShownInv`); the latest valid capture of a run has its
occurrence or is still to be processed (`LatestInv`).
Two arguments carry the second pass. A capture that is not distinct repeats an
earlier one of its run that is (`ChangeBefore`). A run that the second pass skips
has one distinct document, so its newest capture showed them all. Both invariants
have to survive decisions that reach the scratch store target by target, entries
that reach the replica late, and a store that goes away at any step. Then
`FailuresHaveCauses`: without a cause each run and version that live is held to
was rebuilt, with the same value; `LossStaysReported`: every version within the
bound is compared, by the newest derivation of its pair; `RestoredViewsAgree`:
both stores have the occurrence of the latest valid capture of all.

**FetchProofs.** `Inv` has the control state, that the gate's loop and the fetcher
exclude each other (`LoopInv`), that the URL and the addresses in hand are the
ones checked for this hop (`EgressInv`; a redirect goes back to the check and
drops both), and that before the first redirect the URL is the run's own or the
discovery page (`DayInv`). For the gate `GateInv` counts: while the policy is not
in force, each round in a row that found the canary denied cost one connect to an
open destination, so the count never exceeds the accidents. Without
`MaxGlitches < BlockedInARow` that theorem is false: the gate opens early.
No theorem is about the rate, which the program does not keep. For the end of a
fetch, `Moves` says in seven abstract moves what the steps do to the control state, the
tries and the hops. `Left` counts the steps that are left at most: the tries left in
this hop, then the hops, then the gate's rounds. Each step makes it smaller
(`EveryStepIsCloser`), except `PolicyApplied`, which is the network's and happens
once; this is the safety half of `FetchEnds`, whose other half is fairness. `CountInv`
bounds the requests sent by the hops and tries used up, which gives
`RequestsAreBounded`. `FetchTypeCorrect` is the whole type invariant; it needs the
rules of the clock (a sleep is bounded by the bucket).

**FreshnessProofs.** Local time is division with remainder, so the module starts
with lemmas on `\div` and `%` for any day length, then: the wall clock never goes
back by a day, each midnight is found, the search over candidate instants finds
the newest one of the cadence or there is none, and days tile the line over both
changes of the clock. `NoGapIsPhantom` assumes that the scheduler starts no job a
day or more late (`MaxDelay <= DayLen`; the chart's `startingDeadlineSeconds` is
ten minutes): otherwise a pod captures for the next instant. `NoInstantSlipsThrough`
assumes that the tolerance, at any time up to the horizon, and one detector period
fit into the look-back together; then the detector's round after an instant has
passed its tolerance still sees it. The daily cadences satisfy it; the monthly ones do not (section 4). The row has two
theorems. `LateDaysStayInView`: through the next day the row keeps a late day, or
moves to the day before, as long as the tolerance grows no faster than time passes
(`ToleranceKeepsPace`); `RowInv` says that the row was true at the detector's last
round. `LateDaysSurface`: a day of which a pod has captured is recorded as late
before the next day is over, unless one of the two was complete (`SurfaceInv`, day
by day; the last round is at most `DetectEvery` old). It needs that this round is
past the tolerance (`ToleranceEndsInTime`) and `MaxDelay + DetectEvery < DayLen`. The
shipped cadences of daily partitions (`*/15`, hourly, `15 13-16`) satisfy the
conditions, those of once a day or on working days only do not (section 4).
`OftenAssumption` has TLC check them on the instance.

**ContributionProofs.** `DiskInv`, `CallInv`, `OutInv` and `RegistryInv`:
directories hold what the schema accepts or nothing that can be read; a call in
progress remembers what it has to undo; what was handed out is admitted by the
registries as they are now. Admission, the egress policy and the mapping engine
check a manifest in three places; the lemmas show that the first implies the
others and goes on to imply them when the registries grow (`Grows`), which gives
`AdmittedStaysUsable`. `ProposalsAreContained` rests on the guard alone, whatever
the text edits did: `GuardContains` reads off the comparison of the two manifests,
with what may differ put to a common value, that all else is the same, key by key.
A document that is read is read alike under registries that
have grown (`StaysRead`): no unit gets a fault by an entry that is added. So what a
golden demanded at the gates it finds later (`BundlesStayGreen`), and what triage
found clean stays clean.

`HealthIsTrue` is about `detect`: without a finding every mapped field is in the
inventory and there is an observation; in a document whose units have one shape
then every unit is a record (`NoDriftMeansAllIsRead`). A record says what the same
names say in a document that is read rightly (`SameStart`, `SameValue`), and two
units cannot fall on one period, because no number that `Truth` tells is in one
column twice (`StartsDiffer`; with one price all day a constant period index would
go unseen). The condition, `DocumentsAgree`, is about the documents alone;
`AgreementAssumption` has TLC check it on the instance. A document with units of two
shapes violates the condition and the property (section 4).

The ASSUMEs of the model are about what a person maintains: the registries only
grow (`ContractGrows`), and every host that allows http lists its port
(`HostsServe`).

What stays model-checked is liveness: `NewestIsProcessed`, `ReplaysAreCarriedOut` and
`FetchEnds` (of the last the safety half is proved).

## 6. Plan

Extend the model: hour and month partitions of the freshness row
(`runtime/freshness.py:103`, `:116`); the gate without policy canary; the
comparison of two transports; the cold tier and `verify` of Bronze.

## 7. Not modelled

Listed in `PROJECT.json` under `components` with the reason. Quality events and
alerts are write-only; the file and memory backends of Bronze serve tests (of
them, `FileCaptureLog.put_new` creates a file and then writes it, so a death in
between leaves an empty entry for good); types of single fields of a manifest
are the schema library's; a target's own parser is code of its own; signing,
listing pages and bucket set-up are protocol; the schema migrations make the
tables that `RunLedger`, `Silver` and `Freshness` have as state; the deployment
is declarative.
