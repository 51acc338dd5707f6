------------------------------ MODULE Pipeline -------------------------------
(***************************************************************************)
(* The runtime verbs of one target over Bronze and the run ledger:         *)
(* capture, recapture and backfill with their acknowledgement, process     *)
(* with the reconcile it starts with, the gap detector, replay and         *)
(* invalidate.  Each step makes at most one store call, so every pod may   *)
(* act on what it read before other pods moved on; any pod may die, or     *)
(* lose the store, between two of its steps.  The tables are RunLedger's,  *)
(* and every behaviour here is a behaviour of LedgerSpec.                  *)
(*                                                                         *)
(* A capture of instant t is its place in log[t], as Bronze numbers it.    *)
(* Every answer of the source is a 200 here; Bronze.tla has the 304.       *)
(***************************************************************************)
EXTENDS RunLedger, Sequences, FiniteSets

CONSTANTS
    Day,            \* delivery day of each instant
    Fetchers,       \* pods that capture, recapture or backfill
    Payloads,       \* documents the source serves
    Unmappable,     \* documents that are quarantined
    DetectGaps,     \* whether the gap detector runs
    Window,         \* how far back the gap detector lists: reconcile_window
    Correction,     \* how much farther reconcile lists: correction.days
    Tolerance,      \* the age from which an instant may be a gap
    MaxFetches,     \* bound: captures started
    MaxReplays,     \* bound: replays asked for
    MaxDecisions,   \* bound: invalidations
    MaxFaults       \* bound: pods that die or lose the store

ASSUME PipelineAssumption ==
    /\ Instants \subseteq Nat /\ DOMAIN Day = Instants
    /\ Unmappable \subseteq Payloads /\ DetectGaps \in BOOLEAN
    /\ {MaxFetches, MaxReplays, MaxDecisions, MaxFaults} \subseteq Nat
    /\ Workers \cap Operators = {}
    /\ IsFiniteSet(Fetchers) /\ 1 .. MaxFetches \subseteq Captures

\* Days and hours, counted in the units of the clock.
ASSUME WindowAssumption == {Window, Correction, Tolerance} \subseteq Nat

VARIABLES
    clock,       \* the clock the pods read
    log,         \* the capture log: per instant the payloads of its entries
    decisions,   \* invalidation objects in Bronze: <<instant, capture>>
    invalid,     \* table invalidations
    fetchers,    \* per capture pod: its local state
    pods,        \* per process pod and per operator's session: its local state
    gap,         \* the gap detector's local state
    count        \* how often the bounded events happened

pipelineVars == <<clock, log, decisions, invalid, fetchers, pods, gap, count>>
vars == <<ledgerVars, pipelineVars>>

Sessions == Workers \cup Operators

Off == "off"
FetcherOff == [pc |-> Off, t |-> SomeInstant, force |-> FALSE, base |-> "none",
               capture |-> NoCapture, outcome |-> "ok", recaptured |-> FALSE]
PodOff == [pc |-> Off, now |-> 0, todo |-> {}, at |-> SomeInstant,
           newest |-> [t \in Instants |-> NoCapture], named |-> NoCapture,
           verdict |-> "none"]
GapOff == [pc |-> Off, todo |-> {}, entry |-> [t \in Instants |-> NoCapture],
           state |-> [t \in Instants |-> "absent"]]

Counted(event, max) ==
    count[event] < max /\ count' = [count EXCEPT ![event] = @ + 1]

MaxOf(S) == CHOOSE m \in S : \A n \in S : n <= m

------------------------------------------------------------------------------
(* capture, recapture (force) and backfill.                                *)

\* capture_baseline: the payload of the newest entry of the delivery day.
Baseline(t) ==
    LET D == {s \in Instants : Day[s] = Day[t] /\ log[s] # <<>>} IN
    IF D = {} THEN "none" ELSE log[MaxOf(D)][Len(log[MaxOf(D)])]

\* The verb lists the instant: an unforced capture of one that has an entry
\* only acknowledges it.
FetchStart(f, t, force) ==
    /\ fetchers[f].pc = Off
    /\ Counted("fetches", MaxFetches)
    /\ fetchers' = [fetchers EXCEPT ![f] =
         IF log[t] # <<>> /\ ~force
         THEN [FetcherOff EXCEPT !.pc = "ensure", !.t = t,
                                 !.capture = Len(log[t]), !.outcome = "noop"]
         ELSE [FetcherOff EXCEPT !.pc = "fetch", !.t = t, !.force = force,
                                 !.base = Baseline(t)]]
    /\ UNCHANGED <<ledgerVars, clock, log, decisions, invalid, pods, gap>>

\* Mutant: the ledger is told before Bronze has the entry.
FetchUnrecorded(f, p) ==
    /\ fetchers[f].pc = "fetch"
    /\ fetchers' = [fetchers EXCEPT ![f].pc = "ensure",
                                    ![f].capture = Len(log[fetchers[f].t]) + 1]
    /\ UNCHANGED <<ledgerVars, clock, log, decisions, invalid, pods, gap, count>>

\* Bronze.capture, in one step (Bronze.tla has its own): an unforced capture
\* that lost the race returns the entry it found, any other adds one.
FetchOk(f, p) ==
    LET s == fetchers[f]  n == Len(log[s.t]) IN
    /\ s.pc = "fetch"
    /\ IF n # 0 /\ ~s.force
       THEN /\ fetchers' = [fetchers EXCEPT ![f] =
                 [FetcherOff EXCEPT !.pc = "ensure", !.t = s.t, !.capture = n]]
            /\ UNCHANGED log
       ELSE /\ log' = [log EXCEPT ![s.t] = Append(@, p)]
            /\ fetchers' = [fetchers EXCEPT ![f] =
                 [FetcherOff EXCEPT !.pc = "ensure", !.t = s.t, !.capture = n + 1,
                                    !.recaptured = s.force /\ p # s.base]]
    /\ UNCHANGED <<ledgerVars, clock, decisions, invalid, pods, gap, count>>

\* The source, the request or Bronze refused: acknowledged without a capture.
FetchFailed(f) ==
    /\ fetchers[f].pc = "fetch"
    /\ fetchers' = [fetchers EXCEPT ![f] =
         [FetcherOff EXCEPT !.pc = "ensure", !.t = fetchers[f].t, !.outcome = "failed"]]
    /\ UNCHANGED <<ledgerVars, clock, log, decisions, invalid, pods, gap, count>>

\* _ack, one store call per step.
AckEnsure(f) ==
    LET s == fetchers[f]
        state == IF s.capture # NoCapture THEN "captured" ELSE "scheduled"
    IN
    /\ s.pc = "ensure"
    /\ ensure_run(s.t, state, s.capture)
    /\ fetchers' = [fetchers EXCEPT ![f] =
         IF s.recaptured /\ EnsuredRun(runs[s.t], state, s.capture).capture # s.capture
         THEN [@ EXCEPT !.pc = "mark"]
         ELSE IF s.outcome # "noop"
              THEN [@ EXCEPT !.pc = "record", !.recaptured = FALSE]
              ELSE FetcherOff]
    /\ UNCHANGED <<claims, enqueuing, clock, log, decisions, invalid, pods, gap, count>>

AckMark(f) ==
    /\ fetchers[f].pc = "mark"
    /\ mark_recaptured(fetchers[f].t, fetchers[f].capture)
    /\ fetchers' = [fetchers EXCEPT ![f].pc = "record", ![f].recaptured = FALSE]
    /\ UNCHANGED <<claims, enqueuing, clock, log, decisions, invalid, pods, gap, count>>

AckRecord(f) ==
    /\ fetchers[f].pc = "record"
    /\ record_attempt(fetchers[f].t, fetchers[f].outcome, fetchers[f].capture)
    /\ fetchers' = [fetchers EXCEPT ![f] = FetcherOff]
    /\ UNCHANGED <<claims, enqueuing, clock, log, decisions, invalid, pods, gap, count>>

\* The pod dies, or _ack meets StoreUnavailable and leaves it to reconcile.
FetcherStops(f) ==
    /\ fetchers[f].pc # Off
    /\ Counted("faults", MaxFaults)
    /\ fetchers' = [fetchers EXCEPT ![f] = FetcherOff]
    /\ UNCHANGED <<ledgerVars, clock, log, decisions, invalid, pods, gap>>

------------------------------------------------------------------------------
(* process and replay_range both start with reconcile.                     *)

\* The newest entry of each instant that is not invalidated.
NewestValid(t, decided) ==
    LET V == {c \in DOMAIN log[t] : <<t, c>> \notin decided} IN
    IF V = {} THEN NoCapture ELSE MaxOf(V)

\* Where a session goes when it has reconciled.
AfterReconcile(w) == IF w \in Operators THEN "replay" ELSE "pending"

\* The instants whose entries process lists.  Instants and clock count alike.
InWindow(t) == clock <= t + Window + Correction

\* Every decision in Bronze is mirrored, which commutes with all but the check
\* of another pod, then the capture log of the instants seen is listed.
Reconcile(w, seen) ==
    LET newest == [t \in Instants |->
                     IF t \in seen THEN NewestValid(t, invalid \cup decisions)
                     ELSE NoCapture]
        todo == {t \in Instants : newest[t] # NoCapture}
    IN
    /\ pods[w].pc = Off
    /\ invalid' = invalid \cup decisions
    /\ pods' = [pods EXCEPT ![w] =
         [PodOff EXCEPT !.pc = IF todo # {} THEN "ensure" ELSE AfterReconcile(w),
                        !.now = clock, !.todo = todo, !.newest = newest]]
    /\ UNCHANGED <<ledgerVars, clock, log, decisions, fetchers, gap>>

\* Mutant: the window is not widened by the correction days.
ReconcileListUnwidened(w) ==
    Reconcile(w, {t \in Instants : clock <= t + Window}) /\ UNCHANGED count

\* process starts: it looks at its window only.
ReconcileList(w) == Reconcile(w, {t \in Instants : InWindow(t)}) /\ UNCHANGED count

ReconcileEnsure(w, t) ==
    /\ pods[w].pc = "ensure" /\ t \in pods[w].todo
    /\ ensure_run(t, "captured", pods[w].newest[t])
    /\ pods' = [pods EXCEPT ![w] =
         [@ EXCEPT !.pc = "advance", !.at = t, !.todo = pods[w].todo \ {t},
                   !.named = EnsuredRun(runs[t], "captured", pods[w].newest[t]).capture]]
    /\ UNCHANGED <<claims, enqueuing, clock, log, decisions, invalid, fetchers, gap, count>>

\* Mutant: a later entry never makes an existing run pending again.
NeverAdvances(w) == FALSE

\* A later attempt with another payload than the capture the run named when
\* ensure_run answered is a new generation.
Advances(w) ==
    LET s == pods[w]  n == s.newest[s.at] IN
    /\ s.named # NoCapture /\ n > s.named
    /\ log[s.at][n] # log[s.at][s.named]

ReconcileAdvance(w) ==
    /\ pods[w].pc = "advance"
    /\ IF Advances(w)
       THEN mark_recaptured(pods[w].at, pods[w].newest[pods[w].at])
       ELSE UNCHANGED tables
    /\ pods' = [pods EXCEPT ![w] =
         IF @.todo # {} THEN [@ EXCEPT !.pc = "ensure"]
         ELSE [PodOff EXCEPT !.pc = AfterReconcile(w), !.now = pods[w].now]]
    /\ UNCHANGED <<claims, enqueuing, clock, log, decisions, invalid, fetchers, gap, count>>

\* Mutant: the runs listed are those of the window.
ListPendingInWindow(w) ==
    /\ pods[w].pc = "pending"
    /\ LET todo == {t \in Instants : PendingRun(t, pods[w].now) /\ InWindow(t)} IN
       pods' = [pods EXCEPT ![w] =
         IF todo = {} THEN PodOff
         ELSE [PodOff EXCEPT !.pc = "claim", !.todo = todo]]
    /\ UNCHANGED <<ledgerVars, clock, log, decisions, invalid, fetchers, gap, count>>

ListPending(w) ==
    /\ pods[w].pc = "pending"
    /\ LET todo == {t \in Instants : PendingRun(t, pods[w].now)} IN
       pods' = [pods EXCEPT ![w] =
         IF todo = {} THEN PodOff
         ELSE [PodOff EXCEPT !.pc = "claim", !.todo = todo]]
    /\ UNCHANGED <<ledgerVars, clock, log, decisions, invalid, fetchers, gap, count>>

\* process_one up to its commit: the entry must be there, must not be
\* invalidated and must map.
Verdict(t, c) ==
    IF c \notin DOMAIN log[t] THEN "failed"
    ELSE IF <<t, c>> \in invalid \/ log[t][c] \in Unmappable THEN "quarantined"
         ELSE "ok"

\* The runs listed are claimed one by one, whatever became of them since.  The
\* reads of process_one go with the claim: entries do not change, and a mirror
\* between the two might as well have come before the claim.
ClaimNext(w, t) ==
    /\ pods[w].pc = "claim" /\ t \in pods[w].todo
    /\ IF LeaseFree(t, clock)
       THEN /\ claim(w, t, clock)
            /\ pods' = [pods EXCEPT ![w] =
                 [@ EXCEPT !.pc = "commit", !.todo = pods[w].todo \ {t},
                           !.verdict = Verdict(t, runs[t].capture)]]
       ELSE /\ pods' = [pods EXCEPT ![w] =
                 IF @.todo = {t} THEN PodOff ELSE [@ EXCEPT !.todo = pods[w].todo \ {t}]]
            /\ UNCHANGED <<tables, claims>>
    /\ UNCHANGED <<enqueuing, clock, log, decisions, invalid, fetchers, gap, count>>

PodAfterCommit(w) ==
    IF pods[w].todo = {} THEN PodOff
    ELSE [PodOff EXCEPT !.pc = "claim", !.todo = pods[w].todo]

\* Mutant: the state is set outside the fenced transaction.
CommitClaimedUnfenced(w) ==
    /\ pods[w].pc = "commit"
    /\ attempts' = [attempts EXCEPT ![claims[w].id].outcome = pods[w].verdict]
    /\ runs' = [runs EXCEPT ![claims[w].run].state =
         IF pods[w].verdict = "ok" THEN "processed" ELSE "failed"]
    /\ claims' = [claims EXCEPT ![w] = NoClaim]
    /\ pods' = [pods EXCEPT ![w] = PodAfterCommit(w)]
    /\ UNCHANGED <<used, enqueuing, clock, log, decisions, invalid, fetchers, gap, count>>

CommitClaimed(w) ==
    /\ pods[w].pc = "commit"
    /\ \/ CommitFresh(w, IF pods[w].verdict = "ok" THEN "processed" ELSE "failed",
                      pods[w].verdict)
       \/ CommitStale(w)
    /\ pods' = [pods EXCEPT ![w] = PodAfterCommit(w)]
    /\ UNCHANGED <<enqueuing, clock, log, decisions, invalid, fetchers, gap, count>>

\* The pod dies, or an exception of the store ends it.  Bound: only while the
\* clock can still run past the lease it leaves behind.
PodStops(w) ==
    /\ pods[w].pc # Off
    /\ Holding(w) => \E now \in Times : runs[claims[w].run].until < now
    /\ Counted("faults", MaxFaults)
    /\ pods' = [pods EXCEPT ![w] = PodOff]
    /\ IF Holding(w) THEN Crash(w) ELSE UNCHANGED ledgerVars
    /\ UNCHANGED <<clock, log, decisions, invalid, fetchers, gap>>

------------------------------------------------------------------------------
(* replay_range and replay_derivation, by an operator's session o.         *)

\* replay_range starts: it looks at the whole log.
ReplayRange(o) == Reconcile(o, Instants) /\ Counted("replays", MaxReplays)

\* The runs of its range, once it has reconciled, that name a capture.
ReplayRuns(o, R) ==
    /\ pods[o].pc = "replay" /\ \A t \in R : runs[t].capture # NoCapture
    /\ pods' = [pods EXCEPT ![o] =
         IF R = {} THEN PodOff ELSE [PodOff EXCEPT !.pc = "enqueue", !.todo = R]]
    /\ UNCHANGED <<ledgerVars, clock, log, decisions, invalid, fetchers, gap, count>>

\* replay_derivation starts: the runs of some successful attempt.
ReplayDerivation(o, R) ==
    /\ pods[o].pc = Off /\ R # {}
    /\ \A t \in R : \E i \in AttemptIds :
          /\ attempts[i].run = t /\ attempts[i].outcome = "ok"
          /\ attempts[i].kind \in {"process", "replay"}
    /\ Counted("replays", MaxReplays)
    /\ pods' = [pods EXCEPT ![o] = [PodOff EXCEPT !.pc = "enqueue", !.todo = R]]
    /\ UNCHANGED <<ledgerVars, clock, log, decisions, invalid, fetchers, gap>>

\* enqueue_replay of the next run, unless a replay of it is pending.
Replay(o, t) ==
    /\ pods[o].pc = "enqueue" /\ t \in pods[o].todo
    /\ IF PendingReplays(t) = {}
       THEN /\ EnqueueReplay(o, t)
            /\ pods' = [pods EXCEPT ![o] =
                 [@ EXCEPT !.pc = "insert", !.at = t, !.todo = pods[o].todo \ {t}]]
       ELSE /\ pods' = [pods EXCEPT ![o] =
                 IF @.todo = {t} THEN PodOff ELSE [@ EXCEPT !.todo = pods[o].todo \ {t}]]
            /\ UNCHANGED ledgerVars
    /\ UNCHANGED <<clock, log, decisions, invalid, fetchers, gap, count>>

ReplayInserted(o) ==
    /\ pods[o].pc = "insert"
    /\ InsertReplay(o, pods[o].at)
    /\ pods' = [pods EXCEPT ![o] =
         IF @.todo = {} THEN PodOff ELSE [@ EXCEPT !.pc = "enqueue"]]
    /\ UNCHANGED <<clock, log, decisions, invalid, fetchers, gap, count>>

\* The session ends between two of its calls.
SessionStops(o) ==
    /\ pods[o].pc \notin {Off, "insert"}
    /\ Counted("faults", MaxFaults)
    /\ pods' = [pods EXCEPT ![o] = PodOff]
    /\ UNCHANGED <<ledgerVars, clock, log, decisions, invalid, fetchers, gap>>

------------------------------------------------------------------------------
(* The gap detector: it reads Bronze, then the ledger, then acts.          *)

\* The instants it looks at: past the tolerance, within the look-back.
GapInstants == {t \in Instants : t + Tolerance <= clock /\ clock <= t + Window}

GapList ==
    /\ DetectGaps /\ gap.pc = Off /\ GapInstants # {}
    /\ gap' = [gap EXCEPT !.pc = "runs", !.todo = GapInstants,
                          !.entry = [t \in Instants |-> Len(log[t])]]
    /\ UNCHANGED <<ledgerVars, clock, log, decisions, invalid, fetchers, pods, count>>

GapRuns ==
    /\ gap.pc = "runs"
    /\ gap' = [gap EXCEPT !.pc = "act", !.state = [t \in Instants |-> runs[t].state]]
    /\ UNCHANGED <<ledgerVars, clock, log, decisions, invalid, fetchers, pods, count>>

\* A capture nobody told the ledger of is reconciled (a run that named one when
\* it was read still does, and ensure_run leaves it alone); an instant without
\* an entry is recoverable or not, as history.max_age has it by now.
GapAction(t, recoverable) ==
    LET kind == IF recoverable THEN "missing_capture" ELSE "unrecoverable"
        moves == IF recoverable THEN {"scheduled", "failed"}
                 ELSE RunState \ {"unrecoverable"}
    IN
    IF gap.entry[t] # NoCapture THEN ensure_run(t, "captured", gap.entry[t])
    ELSE IF gap.state[t] = "absent" THEN ensure_run(t, kind, NoCapture)
         ELSE IF gap.state[t] \in moves THEN set_state(t, kind)
              ELSE UNCHANGED tables

GapAct(t, recoverable) ==
    /\ gap.pc = "act" /\ t \in gap.todo
    /\ GapAction(t, recoverable)
    /\ gap' = IF gap.todo = {t} THEN GapOff ELSE [gap EXCEPT !.todo = @ \ {t}]
    /\ UNCHANGED <<claims, enqueuing, clock, log, decisions, invalid, fetchers, pods, count>>

------------------------------------------------------------------------------
(* Invalidation and time.                                                  *)

\* invalidate: the Bronze object; the next reconcile mirrors it.
Invalidate(t, c) ==
    /\ c \in DOMAIN log[t] /\ <<t, c>> \notin decisions
    /\ Counted("decisions", MaxDecisions)
    /\ decisions' = decisions \cup {<<t, c>>}
    /\ UNCHANGED <<ledgerVars, clock, log, invalid, fetchers, pods, gap>>

\* Longer than a lease passes.
Tick ==
    /\ \E now \in Times : now > clock + Ttl /\ clock' = now
    /\ UNCHANGED <<ledgerVars, log, decisions, invalid, fetchers, pods, gap, count>>

------------------------------------------------------------------------------

Init ==
    /\ LedgerInit
    /\ clock \in Times /\ \A now \in Times : clock <= now
    /\ log = [t \in Instants |-> <<>>] /\ decisions = {} /\ invalid = {}
    /\ fetchers = [f \in Fetchers |-> FetcherOff]
    /\ pods = [w \in Sessions |-> PodOff]
    /\ gap = GapOff
    /\ count = [e \in {"fetches", "replays", "decisions", "faults"} |-> 0]

FetcherStep(f) ==
    \/ \E p \in Payloads : FetchOk(f, p)
    \/ FetchFailed(f) \/ AckEnsure(f) \/ AckMark(f) \/ AckRecord(f)

PodStep(w) ==
    \/ ReconcileList(w) \/ ReconcileAdvance(w) \/ ListPending(w)
    \/ \E t \in Instants : ReconcileEnsure(w, t) \/ ClaimNext(w, t)
    \/ CommitClaimed(w)

SessionStep(o) ==
    \/ ReplayRange(o) \/ ReconcileAdvance(o) \/ ReplayInserted(o) \/ SessionStops(o)
    \/ \E t \in Instants : ReconcileEnsure(o, t) \/ Replay(o, t)
    \/ \E R \in SUBSET Instants : ReplayRuns(o, R) \/ ReplayDerivation(o, R)

GapStep ==
    \/ GapList \/ GapRuns
    \/ \E t \in Instants, recoverable \in BOOLEAN : GapAct(t, recoverable)

Next ==
    \/ \E f \in Fetchers, t \in Instants, force \in BOOLEAN : FetchStart(f, t, force)
    \/ \E f \in Fetchers : FetcherStep(f) \/ FetcherStops(f)
    \/ \E w \in Workers : PodStep(w) \/ PodStops(w)
    \/ GapStep
    \/ \E o \in Operators : SessionStep(o)
    \/ \E t \in Instants : \E c \in DOMAIN log[t] : Invalidate(t, c)
    \/ Tick

Spec == Init /\ [][Next]_vars

\* A started pod goes on, process starts again with every firing of its
\* CronJob, an open transaction ends and time passes.  Nothing is asked of the
\* source, of the gap detector or of the people.
Fairness ==
    /\ \A f \in Fetchers : WF_vars(FetcherStep(f))
    /\ \A w \in Workers : WF_vars(PodStep(w))
    /\ \A o \in Operators : WF_vars(ReplayInserted(o))
    /\ WF_vars(Tick)

FairSpec == Spec /\ Fairness

------------------------------------------------------------------------------
(* Properties.                                                             *)

\* The local states of the pods are those of the verbs' code.
TypeOK ==
    /\ LedgerTypeOK
    /\ clock \in Times
    /\ log \in [Instants -> Seq(Payloads)]
    /\ invalid \subseteq decisions /\ decisions \subseteq Instants \X Captures
    /\ \A f \in Fetchers :
          /\ fetchers[f].pc \in {Off, "fetch", "ensure", "mark", "record"}
          /\ fetchers[f].pc = "mark" => fetchers[f].capture # NoCapture
    /\ \A w \in Workers :
          /\ pods[w].pc \in {Off, "ensure", "advance", "pending", "claim", "commit"}
          /\ Holding(w) <=> pods[w].pc = "commit"
    /\ \A o \in Operators :
          /\ pods[o].pc \in {Off, "ensure", "advance", "replay", "enqueue", "insert"}
          /\ pods[o].pc = "insert" <=> \E e \in enqueuing : e[1] = o

\* Bronze comes first: whatever capture the ledger names, in a run, in an
\* attempt or in the hands of a worker, is an entry of the capture log
\* (ADR-024 §1), however a capture pod dies between Bronze and the ledger.
LedgerNamesEntries ==
    /\ \A t \in Instants : runs[t].capture <= Len(log[t])
    /\ \A i \in AttemptIds : attempts[i].capture <= Len(log[attempts[i].run])
    /\ \A w \in Workers : Holding(w) => claims[w].capture <= Len(log[claims[w].run])

\* The run is done with the content of its newest entry.
Settled(t) ==
    /\ runs[t].capture # NoCapture
    /\ log[t][runs[t].capture] = log[t][Len(log[t])]
    /\ \/ runs[t].state = "processed" /\ log[t][Len(log[t])] \notin Unmappable
       \/ /\ runs[t].state = "failed"
          /\ log[t][Len(log[t])] \in Unmappable \/ <<t, runs[t].capture>> \in invalid

\* The gap detector moved a run that names a capture, from what it had read
\* before the capture.
MarkedAsGap(t) ==
    runs[t].state \in {"missing_capture", "unrecoverable"} /\ runs[t].capture # NoCapture

\* The ledger knows the content of the newest entry, from whichever pod.
Acknowledged(t) ==
    runs[t].capture # NoCapture /\ log[t][runs[t].capture] = log[t][Len(log[t])]

\* Every capture is processed in the end: whatever acknowledgements were lost,
\* late or out of order, the run ends on the content of its newest entry and
\* is processed, or failed if that cannot map (ADR-024 §2; review 2 DC-01).  Two
\* conditions: the gap detector did not write over it; and while the instant was
\* in the window of process somebody told the ledger of that content.  Process
\* does so itself when it runs in time; an acknowledgement that stays lost for
\* longer than the window is repaired by a replay only.
NewestIsProcessed ==
    \A t \in Instants :
        <>[](/\ log[t] # <<>> /\ <<t, Len(log[t])>> \notin decisions
             /\ InWindow(t) \/ Acknowledged(t)
             => Settled(t) \/ MarkedAsGap(t))

\* A requested replay is carried out: no replay stays pending and none stays
\* in the hands of a pod that died (ADR-024 amendment 2).
ReplaysAreCarriedOut ==
    <>[](\A i \in AttemptIds : attempts[i].kind = "replay" => attempts[i].outcome # "open")

\* "an entry exists and the run is not processed: ... the next process claims
\* it" (gaps.py): a capture in Bronze is never left behind as a gap.
CapturedIsNoGap ==
    \A t \in Instants : <>[](log[t] # <<>> => ~MarkedAsGap(t))

\* "so the ledger never names an invalidated capture as a run's generation"
\* (reconcile.py): eventually no pending or processed run names one that was
\* mirrored, when the run has a valid capture.
NoInvalidGeneration ==
    \A t \in Instants :
        <>[](NewestValid(t, invalid) # NoCapture => <<t, runs[t].capture>> \notin invalid)

------------------------------------------------------------------------------
(* Why they hold: the inductive invariant of PipelineProofs.               *)

\* The local states of the pods.  A capture's baseline is only compared.
FetcherState(base) ==
    [pc: {Off, "fetch", "ensure", "mark", "record"}, t: Instants, force: BOOLEAN,
     base: {base}, capture: Nat, outcome: {"ok", "noop", "failed"}, recaptured: BOOLEAN]
PodState ==
    [pc: {Off, "ensure", "advance", "pending", "claim", "commit", "replay", "enqueue",
          "insert"},
     now: Times \cup {0}, todo: SUBSET Instants, at: Instants,
     newest: [Instants -> Nat], named: Nat,
     verdict: {"none", "ok", "failed", "quarantined"}]
GapState ==
    [pc: {Off, "runs", "act"}, todo: SUBSET Instants, entry: [Instants -> Nat],
     state: [Instants -> RunState]]

\* A capture pod's state s: what it will tell the ledger is in Bronze, and it
\* records an attempt only of a run that is there.
FetcherInv(s) ==
    /\ s \in FetcherState(s.base)
    /\ s.capture <= Len(log[s.t])
    /\ s.pc \in {"ensure", "mark", "record"} =>
          (s.outcome = "failed" <=> s.capture = NoCapture)
    /\ s.pc \in {"mark", "record"} => Exists(s.t) /\ s.outcome # "noop"
    /\ s.pc = "mark" \/ s.recaptured => s.outcome = "ok"

\* The state s of a pod or session w: what it read of Bronze still is there, and
\* it claims only runs that are there.
PodInv(w, s) ==
    /\ s \in PodState
    /\ \A t \in Instants : s.newest[t] <= Len(log[t])
    /\ s.pc \in {"ensure", "advance"} => \A t \in s.todo : s.newest[t] # NoCapture
    /\ s.pc = "advance" => Exists(s.at)
    /\ s.pc \in {"claim", "commit"} => \A t \in s.todo : Exists(t)
    /\ w \in Workers =>
          /\ s.pc \in {Off, "ensure", "advance", "pending", "claim", "commit"}
          /\ Holding(w) <=> s.pc = "commit"
          /\ s.pc = "commit" => /\ s.verdict # "none"
                                /\ s.verdict = "ok" => claims[w].capture # NoCapture
    /\ w \in Operators =>
          /\ s.pc \in {Off, "ensure", "advance", "replay", "enqueue", "insert"}
          /\ s.pc = "insert" <=> \E e \in enqueuing : e[1] = w

\* The gap detector's state: as old as it may be.
GapInv ==
    /\ gap \in GapState
    /\ \A t \in Instants : gap.entry[t] <= Len(log[t])
    /\ gap.pc = "act" => \A t \in Instants : gap.state[t] # "absent" => Exists(t)

\* A replay that is being enqueued names an entry too, one per session.
Enqueued ==
    \A e \in enqueuing :
        /\ e[3] <= Len(log[e[2]])
        /\ \A d \in enqueuing : d[1] = e[1] => d = e

\* Captures are numbered by the fetches that were started.
Fetching == {f \in Fetchers : fetchers[f].pc = "fetch"}
Numbered ==
    /\ count["fetches"] <= MaxFetches
    /\ \A t \in Instants : Len(log[t]) + Cardinality(Fetching) <= count["fetches"]

Shape ==
    /\ clock \in Times
    /\ log \in [Instants -> Seq(Payloads)]
    /\ invalid \subseteq decisions /\ decisions \subseteq Instants \X Captures
    /\ fetchers = [f \in Fetchers |-> fetchers[f]]
    /\ pods = [w \in Sessions |-> pods[w]]
    /\ count \in [{"fetches", "replays", "decisions", "faults"} -> Nat]

PipelineInv ==
    /\ LedgerInv
    /\ Shape
    /\ Numbered
    /\ LedgerNamesEntries /\ Enqueued
    /\ \A f \in Fetchers : FetcherInv(fetchers[f])
    /\ \A w \in Sessions : PodInv(w, pods[w])
    /\ GapInv

==============================================================================
