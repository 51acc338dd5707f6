---------------------------- MODULE PipelineProofs ---------------------------
(***************************************************************************)
(* Theorems about the runtime verbs, for any number of pods, sessions,     *)
(* instants and documents and any bounds: every behaviour of the pipeline  *)
(* is a behaviour of the ledger under its most general client, so the      *)
(* theorems of RunLedgerProofs hold of it, and the ledger names only       *)
(* captures that Bronze has.                                               *)
(***************************************************************************)
EXTENDS Pipeline, RunLedgerProofs, FiniteSetTheorems, WellFoundedInduction

USE InstantsAssumption, CapturesAssumption, TimesAssumption, TtlAssumption,
    BoundsAssumption, NobodyAssumption, PipelineAssumption

------------------------------------------------------------------------------
(* What every step keeps.                                                  *)

\* A run that is in the ledger stays there, and so does an entry in Bronze.
RunsStay == \A t \in Instants : Exists(t) => runs'[t].state # "absent"
LogGrows == \A t \in Instants : Len(log[t]) <= Len(log'[t])

\* No method of the store deletes a run.
LEMMA RunsStayThere ==
    ASSUME LedgerInv, [LedgerNext]_ledgerVars PROVE RunsStay
<1>0. runs \in [Instants -> Run] /\ claims \in [Workers -> Claim]
  BY DEF LedgerInv, LedgerTypeOK
<1>1. ASSUME NEW t \in Instants, EnsureRun(t) PROVE RunsStay
  BY <1>0, <1>1 DEF EnsureRun, ensure_run, EnsuredRun, RunsStay, Exists, Run
<1>2. ASSUME NEW t \in Instants, SetState(t) PROVE RunsStay
  BY <1>0, <1>2 DEF SetState, set_state, RunsStay, Exists, Run
<1>3. ASSUME NEW t \in Instants, MarkRecaptured(t) PROVE RunsStay
  BY <1>0, <1>3 DEF MarkRecaptured, mark_recaptured, RecapturedRun, RunsStay, Exists, Run
<1>4. ASSUME NEW w \in Workers, NEW t \in Instants, ClaimRun(w, t) PROVE RunsStay
  <2>1. PICK now \in Times : runs' = [runs EXCEPT ![t] = LeasedRun(@, w, now)]
    BY <1>4 DEF ClaimRun, claim, ClaimRow
  <2> QED BY <1>0, <2>1 DEF LeasedRun, RunsStay, Exists, Run
<1>5. ASSUME NEW w \in Workers, Renew(w) PROVE RunsStay
  BY <1>0, <1>5 DEF Renew, renew, RunsStay, Exists, Run
<1>6. ASSUME NEW w \in Workers, CommitRun(w) PROVE RunsStay
  <2>1. CASE UNCHANGED runs
    BY <2>1 DEF RunsStay, Exists
  <2>2. ASSUME NEW s \in {"processed", "failed"},
               runs' = [runs EXCEPT ![claims[w].run] =
                  [@ EXCEPT !.state = s, !.owner = Nobody, !.until = NoLease]]
        PROVE  RunsStay
    BY <1>0, <2>2 DEF RunsStay, Exists, Run
  <2> QED BY <1>6, <2>1, <2>2 DEF CommitRun, CommitFresh, CommitStale
<1>7. CASE UNCHANGED runs
  BY <1>7 DEF RunsStay, Exists
<1>8. ASSUME NEW t \in Instants, RecordAttempt(t) PROVE RunsStay
  BY <1>7, <1>8 DEF RecordAttempt, record_attempt
<1>9. ASSUME NEW w \in Workers, Crash(w) PROVE RunsStay
  BY <1>7, <1>9 DEF Crash
<1>10. ASSUME NEW o \in Operators, NEW t \in Instants,
              EnqueueReplay(o, t) \/ InsertReplay(o, t)
       PROVE  RunsStay
  BY <1>7, <1>10 DEF EnqueueReplay, EnqueueCheck, tables, InsertReplay, EnqueueInsert
<1>11. CASE UNCHANGED ledgerVars
  BY <1>7, <1>11 DEF ledgerVars
<1> QED
  BY <1>1, <1>2, <1>3, <1>4, <1>5, <1>6, <1>8, <1>9, <1>10, <1>11 DEF LedgerNext

\* What a capture pod knows stays true while others move.
LEMMA FetcherStable ==
    ASSUME RunsStay, LogGrows, log \in [Instants -> Seq(Payloads)],
           log' \in [Instants -> Seq(Payloads)], NEW s, FetcherInv(s)
    PROVE  FetcherInv(s)'
<1>1. s.t \in Instants /\ s.capture \in Nat /\ s.capture <= Len(log[s.t])
  BY DEF FetcherInv, FetcherState
<1>2. Len(log[s.t]) \in Nat /\ Len(log'[s.t]) \in Nat /\ Len(log[s.t]) <= Len(log'[s.t])
  <2>1. \A t \in Instants :
           Len(log[t]) \in Nat /\ Len(log'[t]) \in Nat /\ Len(log[t]) <= Len(log'[t])
    BY DEF LogGrows
  <2> QED BY <1>1, <2>1
<1>3. s.capture <= Len(log'[s.t])
  BY <1>1, <1>2
<1>4. Exists(s.t) => Exists(s.t)'
  BY <1>1 DEF RunsStay, Exists
<1> QED BY <1>3, <1>4 DEF FetcherInv, FetcherState

\* What a pod or a session knows stays true while others move.
LEMMA PodStable ==
    ASSUME RunsStay, LogGrows, log \in [Instants -> Seq(Payloads)],
           log' \in [Instants -> Seq(Payloads)], NEW w, NEW s, PodInv(w, s),
           w \in Workers => claims'[w] = claims[w],
           w \in Operators =>
              ((\E e \in enqueuing' : e[1] = w) <=> (\E e \in enqueuing : e[1] = w))
    PROVE  PodInv(w, s)'
<1>1. s \in PodState
  BY DEF PodInv
<1>2. s.newest \in [Instants -> Nat] /\ s.todo \subseteq Instants /\ s.at \in Instants
  BY <1>1 DEF PodState
<1>3. ASSUME NEW t \in Instants PROVE s.newest[t] <= Len(log'[t])
  <2>1. Len(log[t]) \in Nat /\ Len(log'[t]) \in Nat /\ Len(log[t]) <= Len(log'[t])
    BY DEF LogGrows
  <2>2. s.newest[t] \in Nat /\ s.newest[t] <= Len(log[t])
    BY <1>2 DEF PodInv
  <2> QED BY <2>1, <2>2
<1>4. \A t \in Instants : Exists(t) => Exists(t)'
  BY DEF RunsStay, Exists
<1>5. s.pc \in {"ensure", "advance"} => \A t \in s.todo : s.newest[t] # NoCapture
  BY DEF PodInv
<1>6. s.pc = "advance" => Exists(s.at)'
  BY <1>2, <1>4 DEF PodInv
<1>7. s.pc \in {"claim", "commit"} => \A t \in s.todo : Exists(t)'
  BY <1>2, <1>4 DEF PodInv
<1>8. w \in Workers =>
          /\ s.pc \in {Off, "ensure", "advance", "pending", "claim", "commit"}
          /\ Holding(w)' <=> s.pc = "commit"
          /\ s.pc = "commit" => /\ s.verdict # "none"
                                /\ s.verdict = "ok" => claims'[w].capture # NoCapture
  BY DEF PodInv, Holding
<1>9. w \in Operators =>
          /\ s.pc \in {Off, "ensure", "advance", "replay", "enqueue", "insert"}
          /\ s.pc = "insert" <=> \E e \in enqueuing' : e[1] = w
  BY DEF PodInv
<1> QED BY <1>1, <1>3, <1>5, <1>6, <1>7, <1>8, <1>9 DEF PodInv, PodState

\* What the gap detector knows stays true while others move.
LEMMA GapStable ==
    ASSUME RunsStay, LogGrows, log \in [Instants -> Seq(Payloads)],
           log' \in [Instants -> Seq(Payloads)], GapInv, UNCHANGED gap
    PROVE  GapInv'
<1>1. gap \in GapState
  BY DEF GapInv
<1>2. gap.entry \in [Instants -> Nat]
  BY <1>1 DEF GapState
<1>3. ASSUME NEW t \in Instants PROVE gap.entry[t] <= Len(log'[t])
  <2>1. Len(log[t]) \in Nat /\ Len(log'[t]) \in Nat /\ Len(log[t]) <= Len(log'[t])
    BY DEF LogGrows
  <2>2. gap.entry[t] \in Nat /\ gap.entry[t] <= Len(log[t])
    BY <1>2 DEF GapInv
  <2> QED BY <2>1, <2>2
<1> QED BY <1>1, <1>3 DEF GapInv, RunsStay, Exists, GapState

\* Nothing moves but what the step says: a capture pod f.
LEMMA FetcherMoves ==
    ASSUME PipelineInv, [LedgerNext]_ledgerVars, NEW f \in Fetchers, NEW s,
           fetchers' = [fetchers EXCEPT ![f] = s], FetcherInv(s)',
           log' \in [Instants -> Seq(Payloads)], LogGrows,
           UNCHANGED <<claims, enqueuing, clock, decisions, invalid, pods, gap>>,
           count' \in [{"fetches", "replays", "decisions", "faults"} -> Nat],
           Numbered', LedgerNamesEntries', Enqueued'
    PROVE  PipelineInv'
<1>1. LedgerInv'
  BY InvStep DEF PipelineInv
<1>2. RunsStay
  BY RunsStayThere DEF PipelineInv
<1>3. log \in [Instants -> Seq(Payloads)] /\ Shape
  BY DEF PipelineInv, Shape
<1>4. fetchers' = [g \in Fetchers |-> IF g = f THEN s ELSE fetchers[g]]
  BY <1>3 DEF Shape
<1>5. fetchers' = [g \in Fetchers |-> fetchers'[g]]
  BY <1>4
<1>6. Shape'
  BY <1>3, <1>5 DEF Shape
<1>7. ASSUME NEW g \in Fetchers PROVE FetcherInv(fetchers[g])'
  <2>1. PICK r : r = fetchers'[g]
    OBVIOUS
  <2>2. CASE g = f
    <3>1. r = s
      BY <1>4, <2>1, <2>2
    <3> QED BY <2>1, <3>1 DEF FetcherInv, FetcherState, Exists
  <2>3. CASE g # f
    <3>1. FetcherInv(r)
      BY <1>4, <2>1, <2>3 DEF PipelineInv
    <3>2. FetcherInv(r)'
      BY <1>2, <1>3, <3>1, FetcherStable
    <3> QED BY <2>1, <3>2 DEF FetcherInv, FetcherState, Exists
  <2> QED BY <2>2, <2>3
<1>8. ASSUME NEW v \in Sessions PROVE PodInv(v, pods[v])'
  <2>1. PICK r : r = pods[v]
    OBVIOUS
  <2>2. PodInv(v, r)
    BY <2>1 DEF PipelineInv
  <2>3. PodInv(v, r)'
    BY <1>2, <1>3, <2>2, PodStable
  <2> QED BY <2>1, <2>3 DEF PodInv, PodState, Exists, Holding
<1>9. GapInv'
  BY <1>2, <1>3, GapStable DEF PipelineInv
<1> QED BY <1>1, <1>6, <1>7, <1>8, <1>9 DEF PipelineInv

\* Nothing moves but what the step says: a pod or a session w.
LEMMA PodMoves ==
    ASSUME PipelineInv, [LedgerNext]_ledgerVars, NEW w \in Sessions, NEW s,
           pods' = [pods EXCEPT ![w] = s], PodInv(w, s)',
           UNCHANGED <<clock, log, decisions, fetchers, gap>>, invalid' \subseteq decisions,
           count' \in [{"fetches", "replays", "decisions", "faults"} -> Nat],
           count'["fetches"] = count["fetches"],
           \A v \in Workers : v # w => claims'[v] = claims[v],
           \A v \in Operators : v # w =>
              ((\E e \in enqueuing' : e[1] = v) <=> (\E e \in enqueuing : e[1] = v)),
           LedgerNamesEntries', Enqueued'
    PROVE  PipelineInv'
<1>1. LedgerInv'
  BY InvStep DEF PipelineInv
<1>2. RunsStay
  BY RunsStayThere DEF PipelineInv
<1>3. log \in [Instants -> Seq(Payloads)] /\ Shape
  BY DEF PipelineInv, Shape
<1>4. LogGrows
  BY <1>3 DEF LogGrows
<1>5. pods' = [v \in Sessions |-> IF v = w THEN s ELSE pods[v]]
  BY <1>3 DEF Shape
<1>6. pods' = [v \in Sessions |-> pods'[v]]
  BY <1>5
<1>7. Shape'
  BY <1>3, <1>6 DEF Shape
<1>8. Numbered'
  BY DEF PipelineInv, Numbered, Fetching
<1>9. ASSUME NEW g \in Fetchers PROVE FetcherInv(fetchers[g])'
  <2>1. PICK r : r = fetchers[g]
    OBVIOUS
  <2>2. FetcherInv(r)
    BY <2>1 DEF PipelineInv
  <2>3. FetcherInv(r)'
    BY <1>2, <1>3, <1>4, <2>2, FetcherStable
  <2> QED BY <2>1, <2>3 DEF FetcherInv, FetcherState, Exists
<1>10. ASSUME NEW v \in Sessions PROVE PodInv(v, pods[v])'
  <2>1. PICK r : r = pods'[v]
    OBVIOUS
  <2>2. CASE v = w
    <3>1. r = s
      BY <1>5, <2>1, <2>2
    <3> QED BY <2>1, <2>2, <3>1 DEF PodInv, PodState, Exists, Holding
  <2>3. CASE v # w
    <3>1. PodInv(v, r)
      BY <1>5, <2>1, <2>3 DEF PipelineInv
    <3>2. PodInv(v, r)'
      BY <1>2, <1>3, <1>4, <2>3, <3>1, PodStable
    <3> QED BY <2>1, <3>2 DEF PodInv, PodState, Exists, Holding
  <2> QED BY <2>2, <2>3
<1>11. GapInv'
  BY <1>2, <1>3, <1>4, GapStable DEF PipelineInv
<1> QED BY <1>1, <1>7, <1>8, <1>9, <1>10, <1>11 DEF PipelineInv

\* Nothing moves but what the step says: the gap detector, an invalidation or
\* the clock.
LEMMA OthersMove ==
    ASSUME PipelineInv, [LedgerNext]_ledgerVars, GapInv', clock' \in Times,
           UNCHANGED <<claims, enqueuing, log, invalid, fetchers, pods>>,
           invalid \subseteq decisions', decisions' \subseteq Instants \X Captures,
           count' \in [{"fetches", "replays", "decisions", "faults"} -> Nat],
           count'["fetches"] = count["fetches"],
           LedgerNamesEntries'
    PROVE  PipelineInv'
<1>1. LedgerInv'
  BY InvStep DEF PipelineInv
<1>2. RunsStay
  BY RunsStayThere DEF PipelineInv
<1>3. log \in [Instants -> Seq(Payloads)] /\ Shape
  BY DEF PipelineInv, Shape
<1>4. LogGrows
  BY <1>3 DEF LogGrows
<1>5. Shape'
  BY <1>3 DEF Shape
<1>6. Numbered' /\ Enqueued'
  BY DEF PipelineInv, Numbered, Fetching, Enqueued
<1>7. ASSUME NEW g \in Fetchers PROVE FetcherInv(fetchers[g])'
  <2>1. PICK r : r = fetchers[g]
    OBVIOUS
  <2>2. FetcherInv(r)
    BY <2>1 DEF PipelineInv
  <2>3. FetcherInv(r)'
    BY <1>2, <1>3, <1>4, <2>2, FetcherStable
  <2> QED BY <2>1, <2>3 DEF FetcherInv, FetcherState, Exists
<1>8. ASSUME NEW v \in Sessions PROVE PodInv(v, pods[v])'
  <2>1. PICK r : r = pods[v]
    OBVIOUS
  <2>2. PodInv(v, r)
    BY <2>1 DEF PipelineInv
  <2>3. PodInv(v, r)'
    BY <1>2, <1>3, <1>4, <2>2, PodStable
  <2> QED BY <2>1, <2>3 DEF PodInv, PodState, Exists, Holding
<1> QED BY <1>1, <1>5, <1>6, <1>7, <1>8 DEF PipelineInv

------------------------------------------------------------------------------
(* The captures the ledger names.                                          *)

\* A capture in the ledger is a number, of a run.
LEMMA CaptureNumbers ==
    ASSUME LedgerTypeOK
    PROVE  /\ \A t \in Instants : runs[t].capture \in Nat
           /\ \A i \in AttemptIds : attempts[i].capture \in Nat /\ attempts[i].run \in Instants
           /\ \A w \in Workers : claims[w].capture \in Nat /\ claims[w].run \in Instants
           /\ \A e \in enqueuing : e[3] \in Nat /\ e[2] \in Instants
<1>1. Captures \cup {NoCapture} \subseteq Nat
  BY DEF NoCapture
<1>2. \A t \in Instants : runs[t].capture \in Nat
  BY <1>1 DEF LedgerTypeOK, Run
<1>3. \A i \in AttemptIds : attempts[i].capture \in Nat /\ attempts[i].run \in Instants
  <2>1. \A i \in AttemptIds : attempts[i] \in RunAttempt
    BY DEF LedgerTypeOK
  <2>2. \A a \in RunAttempt : a.capture \in Nat /\ a.run \in Instants
    BY <1>1 DEF RunAttempt
  <2> QED BY <2>1, <2>2
<1>4. \A w \in Workers : claims[w].capture \in Nat /\ claims[w].run \in Instants
  <2>1. \A w \in Workers : claims[w] \in Claim
    BY DEF LedgerTypeOK
  <2>2. \A c \in Claim : c.capture \in Nat /\ c.run \in Instants
    BY <1>1 DEF Claim
  <2> QED BY <2>1, <2>2
<1>5. ASSUME NEW e \in enqueuing PROVE e[3] \in Nat /\ e[2] \in Instants
  <2>1. e \in Operators \X Instants \X Captures
    BY DEF LedgerTypeOK
  <2>2. e[3] \in Captures /\ e[2] \in Instants
    BY <2>1
  <2> QED BY <1>1, <2>2
<1> QED BY <1>2, <1>3, <1>4, <1>5

\* Bronze grows and the ledger stands still.
LEMMA NamesIfLogGrows ==
    ASSUME PipelineInv, UNCHANGED ledgerVars, LogGrows, log' \in [Instants -> Seq(Payloads)]
    PROVE  LedgerNamesEntries' /\ Enqueued'
<1>1. LedgerTypeOK /\ LedgerNamesEntries /\ Enqueued /\ log \in [Instants -> Seq(Payloads)]
  BY DEF PipelineInv, LedgerInv, Shape
<1>2. \A t \in Instants : \A c \in Nat : c <= Len(log[t]) => c <= Len(log'[t])
  <2> SUFFICES ASSUME NEW t \in Instants, NEW c \in Nat, c <= Len(log[t])
               PROVE  c <= Len(log'[t])
    OBVIOUS
  <2>1. log[t] \in Seq(Payloads) /\ log'[t] \in Seq(Payloads)
    BY <1>1
  <2>2. Len(log[t]) \in Nat /\ Len(log'[t]) \in Nat
    BY <2>1
  <2>3. Len(log[t]) <= Len(log'[t])
    BY DEF LogGrows
  <2> QED BY <2>2, <2>3
<1>3. /\ \A t \in Instants : runs[t].capture \in Nat
      /\ \A i \in AttemptIds : attempts[i].capture \in Nat /\ attempts[i].run \in Instants
      /\ \A w \in Workers : claims[w].capture \in Nat /\ claims[w].run \in Instants
      /\ \A e \in enqueuing : e[3] \in Nat /\ e[2] \in Instants
  BY <1>1, CaptureNumbers
<1>4. LedgerNamesEntries'
  BY <1>1, <1>2, <1>3 DEF LedgerNamesEntries, ledgerVars, Holding
<1>5. Enqueued'
  BY <1>1, <1>2, <1>3 DEF Enqueued, ledgerVars
<1> QED BY <1>4, <1>5

\* A run may be given another capture that is an entry.
LEMMA NamesIfRunMoves ==
    ASSUME LedgerTypeOK, LedgerNamesEntries, NEW t \in Instants, NEW r,
           runs' = [runs EXCEPT ![t] = r], r.capture <= Len(log[t]),
           UNCHANGED <<attempts, claims, log>>
    PROVE  LedgerNamesEntries'
<1>1. \A u \in Instants : runs'[u] = IF u = t THEN r ELSE runs[u]
  BY DEF LedgerTypeOK
<1> QED BY <1>1 DEF LedgerNamesEntries, Holding

\* ensure_run, mark_recaptured and set_state.
LEMMA NamesIfEnsured ==
    ASSUME LedgerTypeOK, LedgerNamesEntries, NEW t \in Instants, NEW state, NEW c,
           ensure_run(t, state, c), c <= Len(log[t]), UNCHANGED <<claims, log>>
    PROVE  LedgerNamesEntries'
<1> DEFINE r == EnsuredRun(runs[t], state, c)
<1>1. runs[t] \in Run
  BY DEF LedgerTypeOK
<1>2. r.capture = c \/ r.capture = runs[t].capture
  BY <1>1 DEF EnsuredRun, NoRun, Run
<1>3. runs' = [runs EXCEPT ![t] = r] /\ UNCHANGED attempts
  BY DEF ensure_run, LedgerTypeOK
<1> HIDE DEF r
<1>4. r.capture <= Len(log[t])
  BY <1>2 DEF LedgerNamesEntries
<1> QED BY <1>3, <1>4, NamesIfRunMoves

LEMMA NamesIfRecaptured ==
    ASSUME LedgerTypeOK, LedgerNamesEntries, NEW t \in Instants, NEW c,
           mark_recaptured(t, c), c <= Len(log[t]), UNCHANGED <<claims, log>>
    PROVE  LedgerNamesEntries'
<1> DEFINE r == RecapturedRun(runs[t], c)
<1>1. runs[t] \in Run
  BY DEF LedgerTypeOK
<1>2. r.capture = c
  BY <1>1 DEF RecapturedRun, Run
<1>3. runs' = [runs EXCEPT ![t] = r] /\ UNCHANGED attempts
  BY DEF mark_recaptured, LedgerTypeOK
<1> HIDE DEF r
<1> QED BY <1>2, <1>3, NamesIfRunMoves

LEMMA NamesIfStateSet ==
    ASSUME LedgerTypeOK, LedgerNamesEntries, NEW t \in Instants, NEW state,
           set_state(t, state), UNCHANGED <<claims, log>>
    PROVE  LedgerNamesEntries'
<1> DEFINE r == [runs[t] EXCEPT !.state = state]
<1>1. runs[t] \in Run
  BY DEF LedgerTypeOK
<1>2. r.capture = runs[t].capture
  BY <1>1 DEF Run
<1>3. runs' = [runs EXCEPT ![t] = r] /\ UNCHANGED attempts
  BY DEF set_state, LedgerTypeOK
<1> HIDE DEF r
<1>4. r.capture <= Len(log[t])
  BY <1>2 DEF LedgerNamesEntries
<1> QED BY <1>3, <1>4, NamesIfRunMoves

\* A new attempt names what its caller gives it.
LEMMA NamesIfNewRow ==
    ASSUME LedgerTypeOK, LedgerNamesEntries, NEW row, NewRow(row),
           row.capture <= Len(log[row.run]), UNCHANGED <<runs, claims, log>>
    PROVE  LedgerNamesEntries'
<1>1. \A i \in AttemptIds : attempts'[i] = row \/ attempts'[i] = attempts[i]
  BY DEF NewRow, LedgerTypeOK
<1> QED BY <1>1 DEF LedgerNamesEntries, Holding

\* A claim and its attempt name the capture of the run.
LEMMA NamesIfClaimed ==
    ASSUME LedgerTypeOK, LedgerNamesEntries, NEW w \in Workers, NEW t \in Instants,
           NEW now, claim(w, t, now), UNCHANGED log
    PROVE  LedgerNamesEntries'
<1>1. PICK i, kind : ClaimRow(w, t, now, i, kind)
  BY DEF claim
<1>2. runs[t] \in Run /\ runs[t].capture <= Len(log[t])
  BY DEF LedgerTypeOK, LedgerNamesEntries
<1>3. \A u \in Instants : runs'[u].capture = runs[u].capture
  <2>1. LeasedRun(runs[t], w, now).capture = runs[t].capture
    BY <1>2 DEF LeasedRun, Run
  <2>2. \A u \in Instants :
           runs'[u] = IF u = t THEN LeasedRun(runs[t], w, now) ELSE runs[u]
    BY <1>1 DEF ClaimRow, LedgerTypeOK
  <2> HIDE DEF LeasedRun
  <2> QED BY <2>1, <2>2
<1>4. ASSUME NEW j \in AttemptIds
      PROVE  attempts'[j].capture <= Len(log[attempts'[j].run])
  <2>1. attempts[j] \in RunAttempt /\ attempts[j].capture <= Len(log[attempts[j].run])
    BY DEF LedgerTypeOK, LedgerNamesEntries
  <2>2. \/ attempts'[j] = LeasedAttempt(t, kind, w, now)
        \/ attempts'[j] = Closed(t, now)[j]
    BY <1>1 DEF ClaimRow, Closed
  <2>3. /\ Closed(t, now)[j].capture = attempts[j].capture
        /\ Closed(t, now)[j].run = attempts[j].run
    BY <2>1 DEF Closed, RunAttempt
  <2>4. /\ LeasedAttempt(t, kind, w, now).capture = runs[t].capture
        /\ LeasedAttempt(t, kind, w, now).run = t
    BY DEF LeasedAttempt
  <2> QED BY <1>2, <2>1, <2>2, <2>3, <2>4
<1>5. ASSUME NEW v \in Workers
      PROVE  Holding(v)' => claims'[v].capture <= Len(log[claims'[v].run])
  <2>1. \/ claims'[v] = claims[v]
        \/ claims'[v] = [id |-> i, run |-> t, fence |-> runs[t].fence + 1,
                         capture |-> runs[t].capture]
    BY <1>1 DEF ClaimRow, LedgerTypeOK
  <2>2. CASE claims'[v] = claims[v]
    BY <2>2 DEF LedgerNamesEntries, Holding
  <2>3. CASE claims'[v] = [id |-> i, run |-> t, fence |-> runs[t].fence + 1,
                           capture |-> runs[t].capture]
    BY <1>2, <2>3
  <2> QED BY <2>1, <2>2, <2>3
<1> QED BY <1>3, <1>4, <1>5 DEF LedgerNamesEntries

\* A worker that gives its claim back renames nothing.
LEMMA NamesIfReleased ==
    ASSUME LedgerTypeOK, LedgerNamesEntries, NEW w \in Workers,
           claims' = [claims EXCEPT ![w] = NoClaim], UNCHANGED log,
           \A t \in Instants : runs'[t].capture = runs[t].capture,
           \A i \in AttemptIds : /\ attempts'[i].capture = attempts[i].capture
                                 /\ attempts'[i].run = attempts[i].run
    PROVE  LedgerNamesEntries'
<1>1. \A v \in Workers : claims'[v] = IF v = w THEN NoClaim ELSE claims[v]
  BY DEF LedgerTypeOK
<1>2. NoClaim.id = 0
  BY DEF NoClaim
<1>3. \A v \in Workers : Holding(v)' => claims'[v] = claims[v] /\ Holding(v)
  BY <1>1, <1>2 DEF Holding
<1> QED BY <1>3 DEF LedgerNamesEntries

------------------------------------------------------------------------------
(* Capture numbers.                                                        *)

\* The numbers of Numbered are numbers.
LEMMA FetchesCounted ==
    ASSUME PipelineInv
    PROVE  /\ IsFiniteSet(Fetching) /\ Cardinality(Fetching) \in Nat
           /\ count["fetches"] \in Nat /\ MaxFetches \in Nat
           /\ \A t \in Instants : Len(log[t]) \in Nat
<1>1. Fetching \in SUBSET Fetchers
  BY DEF Fetching
<1>2. IsFiniteSet(Fetching)
  BY <1>1, FS_Subset
<1>3. Cardinality(Fetching) \in Nat
  BY <1>2, FS_CardinalityType
<1>4. count["fetches"] \in Nat
  BY DEF PipelineInv, Shape
<1>5. \A t \in Instants : Len(log[t]) \in Nat
  BY DEF PipelineInv, Shape
<1> QED BY <1>2, <1>3, <1>4, <1>5

\* An entry has one of the numbers a capture can have.
LEMMA EntriesAreCaptures ==
    ASSUME PipelineInv, NEW t \in Instants, NEW c \in Nat, c # NoCapture, c <= Len(log[t])
    PROVE  c \in Captures
<1>1. /\ Cardinality(Fetching) \in Nat /\ count["fetches"] \in Nat /\ MaxFetches \in Nat
      /\ Len(log[t]) \in Nat
  BY FetchesCounted
<1>2. /\ count["fetches"] <= MaxFetches
      /\ Len(log[t]) + Cardinality(Fetching) <= count["fetches"]
  BY DEF PipelineInv, Numbered
<1>3. c \in 1 .. MaxFetches
  BY <1>1, <1>2 DEF NoCapture
<1> QED BY <1>3

\* Who fetches when pod f moves on.
LEMMA FetchingMoves ==
    ASSUME PipelineInv, NEW f \in Fetchers, NEW s, fetchers' = [fetchers EXCEPT ![f] = s]
    PROVE  /\ s.pc # "fetch" => Fetching' = Fetching \ {f}
           /\ s.pc = "fetch" => Fetching' = Fetching \cup {f}
<1>1. fetchers = [g \in Fetchers |-> fetchers[g]]
  BY DEF PipelineInv, Shape
<1>2. \A g \in Fetchers : fetchers'[g] = IF g = f THEN s ELSE fetchers[g]
  BY <1>1
<1> QED BY <1>2 DEF Fetching

\* Without a new entry and a new fetch there is no new number.
LEMMA NumberedIfNoFetch ==
    ASSUME PipelineInv, NEW f \in Fetchers, NEW s, fetchers' = [fetchers EXCEPT ![f] = s],
           s.pc # "fetch", UNCHANGED log, count'["fetches"] \in Nat,
           count["fetches"] <= count'["fetches"], count'["fetches"] <= MaxFetches
    PROVE  Numbered'
<1>1. Fetching' \in SUBSET Fetching
  <2>1. Fetching' = Fetching \ {f}
    BY FetchingMoves
  <2> QED BY <2>1
<1>2. /\ IsFiniteSet(Fetching) /\ Cardinality(Fetching) \in Nat /\ count["fetches"] \in Nat
      /\ \A t \in Instants : Len(log[t]) \in Nat
  BY FetchesCounted
<1>3. IsFiniteSet(Fetching') /\ Cardinality(Fetching') <= Cardinality(Fetching)
  BY <1>1, <1>2, FS_Subset
<1>4. Cardinality(Fetching') \in Nat
  BY <1>3, FS_CardinalityType
<1>5. ASSUME NEW t \in Instants
      PROVE  Len(log'[t]) + Cardinality(Fetching') <= count'["fetches"]
  <2>1. Len(log[t]) + Cardinality(Fetching) <= count["fetches"]
    BY DEF PipelineInv, Numbered
  <2> QED BY <1>2, <1>3, <1>4, <2>1
<1> QED BY <1>5 DEF Numbered

\* A fetch that starts may become the next number.
LEMMA NumberedIfFetchStarts ==
    ASSUME PipelineInv, NEW f \in Fetchers, NEW s, fetchers' = [fetchers EXCEPT ![f] = s],
           s.pc = "fetch", UNCHANGED log,
           count'["fetches"] = count["fetches"] + 1, count'["fetches"] <= MaxFetches
    PROVE  Numbered'
<1>1. Fetching' = Fetching \cup {f}
  BY FetchingMoves
<1>2. /\ IsFiniteSet(Fetching) /\ Cardinality(Fetching) \in Nat /\ count["fetches"] \in Nat
      /\ \A t \in Instants : Len(log[t]) \in Nat
  BY FetchesCounted
<1>3. Cardinality(Fetching') = IF f \in Fetching THEN Cardinality(Fetching)
                                                 ELSE Cardinality(Fetching) + 1
  BY <1>1, <1>2, FS_AddElement
<1>4. ASSUME NEW t \in Instants
      PROVE  Len(log'[t]) + Cardinality(Fetching') <= count'["fetches"]
  <2>1. Len(log[t]) + Cardinality(Fetching) <= count["fetches"]
    BY DEF PipelineInv, Numbered
  <2> QED BY <1>2, <1>3, <2>1
<1> QED BY <1>4 DEF Numbered

\* A fetch that ends gives its number to at most one entry of each instant.
LEMMA NumberedIfFetchEnds ==
    ASSUME PipelineInv, NEW f \in Fetchers, NEW s, fetchers' = [fetchers EXCEPT ![f] = s],
           s.pc # "fetch", fetchers[f].pc = "fetch", UNCHANGED count,
           \A t \in Instants : Len(log'[t]) \in Nat /\ Len(log'[t]) <= Len(log[t]) + 1
    PROVE  Numbered'
<1>1. Fetching' = Fetching \ {f} /\ f \in Fetching
  BY FetchingMoves DEF Fetching
<1>2. /\ IsFiniteSet(Fetching) /\ Cardinality(Fetching) \in Nat /\ count["fetches"] \in Nat
      /\ \A t \in Instants : Len(log[t]) \in Nat
  BY FetchesCounted
<1>3. IsFiniteSet(Fetching') /\ Cardinality(Fetching') = Cardinality(Fetching) - 1
  BY <1>1, <1>2, FS_RemoveElement
<1>4. Cardinality(Fetching') \in Nat
  BY <1>3, FS_CardinalityType
<1>5. ASSUME NEW t \in Instants
      PROVE  Len(log'[t]) + Cardinality(Fetching') <= count'["fetches"]
  <2>1. Len(log[t]) + Cardinality(Fetching) <= count["fetches"]
    BY DEF PipelineInv, Numbered
  <2>2. Len(log'[t]) \in Nat /\ Len(log'[t]) <= Len(log[t]) + 1 /\ Len(log[t]) \in Nat
    BY <1>2
  <2>3. PICK new, old, before, after, fetched :
           /\ new = Len(log'[t]) /\ old = Len(log[t]) /\ fetched = count["fetches"]
           /\ before = Cardinality(Fetching) /\ after = Cardinality(Fetching')
    OBVIOUS
  <2>4. /\ new \in Nat /\ old \in Nat /\ before \in Nat /\ after \in Nat /\ fetched \in Nat
        /\ new <= old + 1 /\ after = before - 1 /\ old + before <= fetched
    BY <1>2, <1>3, <1>4, <2>1, <2>2, <2>3
  <2>5. new + after <= fetched
    BY <2>4
  <2>6. count'["fetches"] = fetched
    BY <2>3
  <2> QED BY <2>3, <2>5, <2>6
<1>6. count'["fetches"] <= MaxFetches
  BY DEF PipelineInv, Numbered
<1> QED BY <1>5, <1>6 DEF Numbered

------------------------------------------------------------------------------
(* capture, recapture and backfill.                                        *)

\* The state of a capture pod that is off, and of one that has started.
LEMMA FetcherOffOk ==
    ASSUME log \in [Instants -> Seq(Payloads)] PROVE FetcherInv(FetcherOff)
<1>1. SomeInstant \in Instants
  BY NullRows
<1>2. Len(log[SomeInstant]) \in Nat
  BY <1>1
<1> QED BY <1>1, <1>2 DEF FetcherInv, FetcherState, FetcherOff, Off, NoCapture

LEMMA FetcherStopsInv ==
    ASSUME PipelineInv, NEW f \in Fetchers, FetcherStops(f) PROVE PipelineInv'
<1>1. /\ fetchers' = [fetchers EXCEPT ![f] = FetcherOff] /\ UNCHANGED ledgerVars
      /\ UNCHANGED <<clock, log, decisions, invalid, pods, gap>>
      /\ count' = [count EXCEPT !["faults"] = @ + 1]
  BY DEF FetcherStops, Counted
<1>2. log \in [Instants -> Seq(Payloads)] /\ log' \in [Instants -> Seq(Payloads)]
  BY <1>1 DEF PipelineInv, Shape
<1>3. count \in [{"fetches", "replays", "decisions", "faults"} -> Nat]
  BY DEF PipelineInv, Shape
<1>4. /\ count' \in [{"fetches", "replays", "decisions", "faults"} -> Nat]
      /\ count'["fetches"] = count["fetches"] /\ count["fetches"] \in Nat
  BY <1>1, <1>3
<1>5. LogGrows
  BY <1>1, <1>2 DEF LogGrows
<1>6. LedgerNamesEntries' /\ Enqueued'
  BY <1>1, <1>2, <1>5, NamesIfLogGrows
<1>7. FetcherOff.pc # "fetch"
  BY DEF FetcherOff, Off
<1>8. count["fetches"] <= count'["fetches"] /\ count'["fetches"] <= MaxFetches
  BY <1>4 DEF PipelineInv, Numbered
<1>9. Numbered'
  BY <1>1, <1>4, <1>7, <1>8, NumberedIfNoFetch
<1>10. PICK s : s = FetcherOff
  OBVIOUS
<1>11. FetcherInv(s)'
  <2>1. FetcherInv(s)
    BY <1>2, <1>10, FetcherOffOk
  <2> QED BY <1>1, <2>1 DEF FetcherInv, FetcherState, Exists, ledgerVars
<1> QED
  BY <1>1, <1>2, <1>4, <1>5, <1>6, <1>9, <1>10, <1>11, FetcherMoves DEF ledgerVars

LEMMA FetchStartInv ==
    ASSUME PipelineInv, NEW f \in Fetchers, NEW t \in Instants, NEW force \in BOOLEAN,
           FetchStart(f, t, force)
    PROVE  PipelineInv'
<1> DEFINE noop == [FetcherOff EXCEPT !.pc = "ensure", !.t = t,
                                      !.capture = Len(log[t]), !.outcome = "noop"]
           start == [FetcherOff EXCEPT !.pc = "fetch", !.t = t, !.force = force,
                                       !.base = Baseline(t)]
<1>1. /\ UNCHANGED ledgerVars /\ UNCHANGED <<clock, log, decisions, invalid, pods, gap>>
      /\ count["fetches"] < MaxFetches
      /\ count' = [count EXCEPT !["fetches"] = @ + 1]
  BY DEF FetchStart, Counted
<1>2. log \in [Instants -> Seq(Payloads)] /\ log' \in [Instants -> Seq(Payloads)]
  BY <1>1 DEF PipelineInv, Shape
<1>3. count \in [{"fetches", "replays", "decisions", "faults"} -> Nat]
  BY DEF PipelineInv, Shape
<1>4. /\ count' \in [{"fetches", "replays", "decisions", "faults"} -> Nat]
      /\ count'["fetches"] = count["fetches"] + 1 /\ count["fetches"] \in Nat
  BY <1>1, <1>3
<1>5. count["fetches"] <= count'["fetches"] /\ count'["fetches"] <= MaxFetches
      /\ count'["fetches"] \in Nat
  BY <1>1, <1>4
<1>6. LogGrows
  BY <1>1, <1>2 DEF LogGrows
<1>7. LedgerNamesEntries' /\ Enqueued'
  BY <1>1, <1>2, <1>6, NamesIfLogGrows
<1>8. ASSUME NEW s, fetchers' = [fetchers EXCEPT ![f] = s], FetcherInv(s), Numbered'
      PROVE  PipelineInv'
  <2>1. FetcherInv(s)'
    BY <1>1, <1>8 DEF FetcherInv, FetcherState, Exists, ledgerVars
  <2> QED BY <1>1, <1>2, <1>4, <1>6, <1>7, <1>8, <2>1, FetcherMoves DEF ledgerVars
<1>9. Len(log[t]) \in Nat
  BY <1>2
<1>10. CASE log[t] # <<>> /\ ~force
  <2>1. fetchers' = [fetchers EXCEPT ![f] = noop]
    BY <1>10 DEF FetchStart
  <2>2. Len(log[t]) # 0
    BY <1>2, <1>10
  <2>3. /\ noop \in FetcherState(noop.base) /\ noop.t = t /\ noop.capture = Len(log[t])
        /\ noop.pc = "ensure" /\ noop.outcome = "noop" /\ noop.recaptured = FALSE
    BY <1>9 DEF FetcherOff, FetcherState
  <2> HIDE DEF noop
  <2>4. FetcherInv(noop)
    BY <1>9, <2>2, <2>3 DEF FetcherInv, NoCapture
  <2>5. Numbered'
    BY <1>1, <1>5, <2>1, <2>3, NumberedIfNoFetch
  <2> QED BY <1>8, <2>1, <2>4, <2>5
<1>11. CASE ~(log[t] # <<>> /\ ~force)
  <2>1. fetchers' = [fetchers EXCEPT ![f] = start]
    BY <1>11 DEF FetchStart
  <2>2. /\ start \in FetcherState(start.base) /\ start.t = t /\ start.capture = NoCapture
        /\ start.pc = "fetch" /\ start.recaptured = FALSE
    BY DEF FetcherOff, FetcherState, NoCapture
  <2> HIDE DEF start
  <2>3. FetcherInv(start)
    BY <1>9, <2>2 DEF FetcherInv, NoCapture
  <2>4. Numbered'
    BY <1>1, <1>4, <1>5, <2>1, <2>2, NumberedIfFetchStarts
  <2> QED BY <1>8, <2>1, <2>3, <2>4
<1> QED BY <1>10, <1>11

\* Bronze has the entry before the ledger hears of it.
LEMMA FetchOkInv ==
    ASSUME PipelineInv, NEW f \in Fetchers, NEW p \in Payloads, FetchOk(f, p)
    PROVE  PipelineInv'
<1> DEFINE t == fetchers[f].t
           n == Len(log[t])
           found == [FetcherOff EXCEPT !.pc = "ensure", !.t = t, !.capture = n]
           new == [FetcherOff EXCEPT !.pc = "ensure", !.t = t, !.capture = n + 1,
                        !.recaptured = fetchers[f].force /\ p # fetchers[f].base]
<1>1. /\ UNCHANGED ledgerVars /\ UNCHANGED <<clock, decisions, invalid, pods, gap, count>>
      /\ fetchers[f].pc = "fetch"
  BY DEF FetchOk
<1>2. log \in [Instants -> Seq(Payloads)]
      /\ count' \in [{"fetches", "replays", "decisions", "faults"} -> Nat]
  BY <1>1 DEF PipelineInv, Shape
<1>3. FetcherInv(fetchers[f])
  BY DEF PipelineInv
<1>4. t \in Instants /\ fetchers[f].force \in BOOLEAN
  BY <1>3 DEF FetcherInv, FetcherState
<1> HIDE DEF t
<1>5. n \in Nat
  BY <1>2, <1>4
<1>6. ASSUME NEW s, fetchers' = [fetchers EXCEPT ![f] = s], FetcherInv(s)', s.pc # "fetch",
             log' \in [Instants -> Seq(Payloads)],
             \A u \in Instants : Len(log'[u]) = Len(log[u]) \/ Len(log'[u]) = Len(log[u]) + 1
      PROVE  PipelineInv'
  <2>1. \A u \in Instants : Len(log[u]) \in Nat
    BY <1>2
  <2>2. LogGrows
    BY <1>6, <2>1 DEF LogGrows
  <2>3. \A u \in Instants : Len(log'[u]) \in Nat /\ Len(log'[u]) <= Len(log[u]) + 1
    BY <1>6, <2>1
  <2>4. Numbered'
    BY <1>1, <1>6, <2>3, NumberedIfFetchEnds
  <2>5. LedgerNamesEntries' /\ Enqueued'
    BY <1>1, <1>6, <2>2, NamesIfLogGrows
  <2> QED BY <1>1, <1>2, <1>6, <2>2, <2>4, <2>5, FetcherMoves DEF ledgerVars
<1>7. CASE n # 0 /\ ~fetchers[f].force
  <2>1. fetchers' = [fetchers EXCEPT ![f] = found] /\ UNCHANGED log
    BY <1>7 DEF FetchOk, t
  <2>2. /\ found \in FetcherState(found.base) /\ found.t = t /\ found.capture = n
        /\ found.pc = "ensure" /\ found.outcome = "ok"
    BY <1>4, <1>5 DEF FetcherOff, FetcherState
  <2>3. PICK s : s = found
    OBVIOUS
  <2> HIDE DEF found
  <2>4. FetcherInv(s)'
    BY <1>5, <1>7, <2>1, <2>2, <2>3 DEF FetcherInv, FetcherState, NoCapture
  <2>5. fetchers' = [fetchers EXCEPT ![f] = s] /\ s.pc # "fetch"
    BY <2>1, <2>2, <2>3
  <2>6. log' \in [Instants -> Seq(Payloads)] /\ \A u \in Instants : Len(log'[u]) = Len(log[u])
    BY <1>2, <2>1
  <2> QED BY <1>6, <2>4, <2>5, <2>6
<1>8. CASE ~(n # 0 /\ ~fetchers[f].force)
  <2>1. fetchers' = [fetchers EXCEPT ![f] = new]
        /\ log' = [log EXCEPT ![t] = Append(@, p)]
    BY <1>8 DEF FetchOk, t
  <2>2. /\ new \in FetcherState(new.base) /\ new.t = t /\ new.capture = n + 1
        /\ new.pc = "ensure" /\ new.outcome = "ok"
    <3> DEFINE m == n + 1
               b == fetchers[f].force /\ p # fetchers[f].base
    <3>1. m \in Nat /\ b \in BOOLEAN
      BY <1>5
    <3> HIDE DEF m, b
    <3> DEFINE r == [FetcherOff EXCEPT !.pc = "ensure", !.t = t, !.capture = m,
                                       !.recaptured = b]
    <3>2. /\ r \in FetcherState(r.base) /\ r.t = t /\ r.capture = m
          /\ r.pc = "ensure" /\ r.outcome = "ok"
      BY <1>4, <3>1 DEF FetcherOff, FetcherState
    <3> QED BY <3>2 DEF m, b
  <2>3. PICK s : s = new
    OBVIOUS
  <2>4. \A u \in Instants : log'[u] = IF u = t THEN Append(log[t], p) ELSE log[u]
    BY <1>2, <2>1
  <2>5. Append(log[t], p) \in Seq(Payloads) /\ Len(Append(log[t], p)) = n + 1
    BY <1>2, <1>4
  <2>6. log' \in [Instants -> Seq(Payloads)]
    BY <1>2, <1>4, <2>1, <2>5
  <2>7. \A u \in Instants : Len(log'[u]) = Len(log[u]) \/ Len(log'[u]) = Len(log[u]) + 1
    BY <2>4, <2>5
  <2>8. Len(log'[t]) = n + 1
    BY <1>4, <2>4, <2>5
  <2> HIDE DEF new, n
  <2>9. FetcherInv(s)'
    BY <1>5, <2>2, <2>3, <2>8 DEF FetcherInv, FetcherState, NoCapture
  <2>10. fetchers' = [fetchers EXCEPT ![f] = s] /\ s.pc # "fetch"
    BY <2>1, <2>2, <2>3
  <2> QED BY <1>6, <2>6, <2>7, <2>9, <2>10
<1> QED BY <1>7, <1>8

LEMMA FetchFailedInv ==
    ASSUME PipelineInv, NEW f \in Fetchers, FetchFailed(f) PROVE PipelineInv'
<1> DEFINE t == fetchers[f].t
           failed == [FetcherOff EXCEPT !.pc = "ensure", !.t = t, !.outcome = "failed"]
<1>1. /\ UNCHANGED ledgerVars
      /\ UNCHANGED <<clock, log, decisions, invalid, pods, gap, count>>
      /\ fetchers[f].pc = "fetch" /\ fetchers' = [fetchers EXCEPT ![f] = failed]
  BY DEF FetchFailed
<1>2. /\ log \in [Instants -> Seq(Payloads)] /\ log' \in [Instants -> Seq(Payloads)]
      /\ count' \in [{"fetches", "replays", "decisions", "faults"} -> Nat]
  BY <1>1 DEF PipelineInv, Shape
<1>3. FetcherInv(fetchers[f])
  BY DEF PipelineInv
<1>4. t \in Instants
  BY <1>3 DEF FetcherInv, FetcherState
<1> HIDE DEF t
<1>5. \A u \in Instants : Len(log[u]) \in Nat
  BY <1>2
<1>6. /\ failed \in FetcherState(failed.base) /\ failed.t = t /\ failed.capture = NoCapture
      /\ failed.pc = "ensure" /\ failed.outcome = "failed" /\ failed.recaptured = FALSE
  BY <1>4 DEF FetcherOff, FetcherState, NoCapture
<1>7. PICK s : s = failed
  OBVIOUS
<1> HIDE DEF failed
<1>8. FetcherInv(s)'
  BY <1>1, <1>4, <1>5, <1>6, <1>7 DEF FetcherInv, FetcherState, NoCapture
<1>9. LogGrows /\ \A u \in Instants : Len(log'[u]) \in Nat /\ Len(log'[u]) <= Len(log[u]) + 1
  BY <1>1, <1>5 DEF LogGrows
<1>10. fetchers' = [fetchers EXCEPT ![f] = s] /\ s.pc # "fetch"
  BY <1>1, <1>6, <1>7
<1>11. Numbered'
  BY <1>1, <1>9, <1>10, NumberedIfFetchEnds
<1>12. LedgerNamesEntries' /\ Enqueued'
  BY <1>1, <1>2, <1>9, NamesIfLogGrows
<1> QED
  BY <1>1, <1>2, <1>8, <1>9, <1>10, <1>11, <1>12, FetcherMoves DEF ledgerVars

\* A capture pod that calls the store.
LEMMA FetcherCalls ==
    ASSUME PipelineInv, [LedgerNext]_ledgerVars, NEW f \in Fetchers, NEW s,
           fetchers' = [fetchers EXCEPT ![f] = s], FetcherInv(s)', s.pc # "fetch",
           UNCHANGED <<claims, enqueuing, clock, log, decisions, invalid, pods, gap, count>>,
           LedgerNamesEntries'
    PROVE  PipelineInv'
<1>1. /\ log \in [Instants -> Seq(Payloads)] /\ log' \in [Instants -> Seq(Payloads)]
      /\ count' \in [{"fetches", "replays", "decisions", "faults"} -> Nat]
  BY DEF PipelineInv, Shape
<1>2. LogGrows
  BY <1>1 DEF LogGrows
<1>3. count["fetches"] \in Nat /\ count["fetches"] <= MaxFetches
  BY FetchesCounted DEF PipelineInv, Numbered
<1>4. count'["fetches"] \in Nat /\ count["fetches"] <= count'["fetches"]
      /\ count'["fetches"] <= MaxFetches
  BY <1>3
<1>5. Numbered'
  BY <1>4, NumberedIfNoFetch
<1>6. Enqueued'
  BY DEF PipelineInv, Enqueued
<1> QED BY <1>1, <1>2, <1>5, <1>6, FetcherMoves

\* The acknowledgement: one store call per step, each a step of the ledger.
LEMMA AckEnsureInv ==
    ASSUME PipelineInv, NEW f \in Fetchers, AckEnsure(f)
    PROVE  PipelineInv' /\ [LedgerNext]_ledgerVars
<1> DEFINE q == fetchers[f]
           state == IF q.capture # NoCapture THEN "captured" ELSE "scheduled"
           mark == [q EXCEPT !.pc = "mark"]
           record == [q EXCEPT !.pc = "record", !.recaptured = FALSE]
<1>1. /\ q.pc = "ensure" /\ ensure_run(q.t, state, q.capture)
      /\ UNCHANGED <<claims, enqueuing, clock, log, decisions, invalid, pods, gap, count>>
  BY DEF AckEnsure
<1>2. /\ log \in [Instants -> Seq(Payloads)] /\ log' \in [Instants -> Seq(Payloads)]
      /\ count' \in [{"fetches", "replays", "decisions", "faults"} -> Nat]
      /\ LedgerTypeOK /\ LedgerNamesEntries /\ Enqueued
  BY <1>1 DEF PipelineInv, Shape, LedgerInv
<1>3. FetcherInv(q) /\ q \in FetcherState(q.base)
  BY DEF PipelineInv, FetcherInv
<1>4. q.t \in Instants /\ q.capture \in Nat /\ q.capture <= Len(log[q.t])
  BY <1>3 DEF FetcherInv, FetcherState
<1>5. EnsureRun(q.t)
  <2>1. CASE q.capture # NoCapture
    <3>1. q.capture \in Captures
      BY <1>4, <2>1, EntriesAreCaptures
    <3> QED BY <1>1, <2>1, <3>1 DEF EnsureRun
  <2>2. CASE q.capture = NoCapture
    BY <1>1, <2>2 DEF EnsureRun
  <2> QED BY <2>1, <2>2
<1>6. [LedgerNext]_ledgerVars
  BY <1>4, <1>5 DEF LedgerNext
<1>7. LedgerNamesEntries'
  BY <1>1, <1>2, <1>4, NamesIfEnsured
<1>8. Enqueued'
  BY <1>1, <1>2 DEF Enqueued
<1>9. runs'[q.t].state # "absent"
  <2>1. runs \in [Instants -> Run]
    BY <1>2 DEF LedgerTypeOK
  <2>2. runs'[q.t] = EnsuredRun(runs[q.t], state, q.capture)
    BY <1>1, <1>4, <2>1 DEF ensure_run
  <2>3. EnsuredRun(runs[q.t], state, q.capture).state # "absent"
    BY <1>4, <2>1 DEF EnsuredRun, NoRun, Run
  <2> QED BY <2>2, <2>3
<1>10. LogGrows
  BY <1>1, <1>2 DEF LogGrows
<1>11. ASSUME NEW s, fetchers' = [fetchers EXCEPT ![f] = s], FetcherInv(s)', s.pc # "fetch"
       PROVE  PipelineInv'
  BY <1>1, <1>6, <1>7, <1>11, FetcherCalls
<1>12. PICK r : r = q
  OBVIOUS
<1>13. /\ r \in FetcherState(r.base) /\ r.pc = "ensure" /\ r.t \in Instants
       /\ r.capture <= Len(log'[r.t]) /\ (r.outcome = "failed" <=> r.capture = NoCapture)
       /\ (r.recaptured => r.outcome = "ok") /\ Exists(r.t)'
  <2> HIDE DEF q
  <2> QED BY <1>1, <1>3, <1>4, <1>9, <1>12 DEF FetcherInv, Exists
<1>14. CASE q.recaptured /\ fetchers' = [fetchers EXCEPT ![f] = mark]
  <2>1. PICK s : s = [r EXCEPT !.pc = "mark"]
    OBVIOUS
  <2>2. /\ s \in FetcherState(s.base) /\ s.pc = "mark" /\ s.t = r.t /\ s.capture = r.capture
        /\ s.outcome = r.outcome
    BY <1>13, <2>1 DEF FetcherState
  <2>3. FetcherInv(s)'
    BY <1>12, <1>13, <1>14, <2>2 DEF FetcherInv, FetcherState
  <2> QED BY <1>6, <1>11, <1>12, <1>14, <2>1, <2>2, <2>3
<1>15. CASE q.outcome # "noop" /\ fetchers' = [fetchers EXCEPT ![f] = record]
  <2>1. PICK s : s = [r EXCEPT !.pc = "record", !.recaptured = FALSE]
    OBVIOUS
  <2>2. /\ s \in FetcherState(s.base) /\ s.pc = "record" /\ s.t = r.t
        /\ s.capture = r.capture /\ s.outcome = r.outcome /\ s.recaptured = FALSE
    BY <1>13, <2>1 DEF FetcherState
  <2>3. FetcherInv(s)'
    BY <1>12, <1>13, <1>15, <2>2 DEF FetcherInv, FetcherState
  <2> QED BY <1>6, <1>11, <1>12, <1>15, <2>1, <2>2, <2>3
<1>16. CASE fetchers' = [fetchers EXCEPT ![f] = FetcherOff]
  <2>1. PICK s : s = FetcherOff
    OBVIOUS
  <2>2. FetcherInv(s)
    BY <1>2, <2>1, FetcherOffOk
  <2>3. RunsStay
    BY <1>6, RunsStayThere DEF PipelineInv
  <2>4. FetcherInv(s)'
    BY <1>2, <1>10, <2>2, <2>3, FetcherStable
  <2>5. s.pc # "fetch"
    BY <2>1 DEF FetcherOff, Off
  <2> QED BY <1>6, <1>11, <1>16, <2>1, <2>4, <2>5
<1>17. \/ q.recaptured /\ fetchers' = [fetchers EXCEPT ![f] = mark]
       \/ q.outcome # "noop" /\ fetchers' = [fetchers EXCEPT ![f] = record]
       \/ fetchers' = [fetchers EXCEPT ![f] = FetcherOff]
  BY DEF AckEnsure, PipelineInv, Shape
<1> QED BY <1>6, <1>14, <1>15, <1>16, <1>17

LEMMA AckMarkInv ==
    ASSUME PipelineInv, NEW f \in Fetchers, AckMark(f)
    PROVE  PipelineInv' /\ [LedgerNext]_ledgerVars
<1>1. PICK r : r = fetchers[f]
  OBVIOUS
<1> DEFINE s == [r EXCEPT !.pc = "record", !.recaptured = FALSE]
<1>2. /\ r.pc = "mark" /\ mark_recaptured(r.t, r.capture)
      /\ UNCHANGED <<claims, enqueuing, clock, log, decisions, invalid, pods, gap, count>>
  BY <1>1 DEF AckMark
<1>3. fetchers' = [fetchers EXCEPT ![f] = s]
  BY <1>1 DEF AckMark, PipelineInv, Shape
<1>4. /\ log \in [Instants -> Seq(Payloads)] /\ LedgerTypeOK /\ LedgerNamesEntries
      /\ FetcherInv(r)
  BY <1>1 DEF PipelineInv, Shape, LedgerInv
<1>5. /\ r \in FetcherState(r.base) /\ r.t \in Instants /\ r.capture \in Nat
      /\ r.capture <= Len(log[r.t]) /\ r.outcome = "ok" /\ r.capture # NoCapture
      /\ Exists(r.t)
  BY <1>2, <1>4 DEF FetcherInv, FetcherState
<1>6. MarkRecaptured(r.t)
  <2>1. r.capture \in Captures
    BY <1>5, EntriesAreCaptures
  <2> QED BY <1>2, <1>5, <2>1 DEF MarkRecaptured
<1>7. [LedgerNext]_ledgerVars
  BY <1>5, <1>6 DEF LedgerNext
<1>8. LedgerNamesEntries'
  BY <1>2, <1>4, <1>5, NamesIfRecaptured
<1>9. Exists(r.t)'
  <2>1. RunsStay
    BY <1>7, RunsStayThere DEF PipelineInv
  <2> QED BY <1>5, <2>1 DEF RunsStay, Exists
<1>10. /\ s \in FetcherState(s.base) /\ s.pc = "record" /\ s.t = r.t
       /\ s.capture = r.capture /\ s.outcome = r.outcome /\ s.recaptured = FALSE
  BY <1>5 DEF FetcherState
<1>11. FetcherInv(s)'
  <2> HIDE DEF s
  <2> QED BY <1>2, <1>5, <1>9, <1>10 DEF FetcherInv, FetcherState
<1> HIDE DEF s
<1> QED BY <1>2, <1>3, <1>7, <1>8, <1>10, <1>11, FetcherCalls

LEMMA AckRecordInv ==
    ASSUME PipelineInv, NEW f \in Fetchers, AckRecord(f)
    PROVE  PipelineInv' /\ [LedgerNext]_ledgerVars
<1>1. PICK r : r = fetchers[f]
  OBVIOUS
<1>2. /\ r.pc = "record" /\ record_attempt(r.t, r.outcome, r.capture)
      /\ UNCHANGED <<claims, enqueuing, clock, log, decisions, invalid, pods, gap, count>>
      /\ fetchers' = [fetchers EXCEPT ![f] = FetcherOff]
  BY <1>1 DEF AckRecord
<1>3. /\ log \in [Instants -> Seq(Payloads)] /\ log' \in [Instants -> Seq(Payloads)]
      /\ LedgerTypeOK /\ LedgerNamesEntries /\ FetcherInv(r)
  BY <1>1, <1>2 DEF PipelineInv, Shape, LedgerInv
<1>4. /\ r.t \in Instants /\ r.capture \in Nat /\ r.capture <= Len(log[r.t])
      /\ r.outcome \in {"ok", "failed"} /\ (r.outcome = "failed" <=> r.capture = NoCapture)
      /\ Exists(r.t)
  BY <1>2, <1>3 DEF FetcherInv, FetcherState
<1>5. RecordAttempt(r.t)
  <2>1. CASE r.outcome = "failed"
    BY <1>2, <1>4, <2>1 DEF RecordAttempt
  <2>2. CASE r.outcome = "ok"
    <3>1. r.capture \in Captures
      BY <1>4, <2>2, EntriesAreCaptures
    <3> QED BY <1>2, <1>4, <2>2, <3>1 DEF RecordAttempt
  <2> QED BY <1>4, <2>1, <2>2
<1>6. [LedgerNext]_ledgerVars
  BY <1>4, <1>5 DEF LedgerNext
<1>7. LedgerNamesEntries'
  <2> DEFINE row == [run |-> r.t, kind |-> "fetch", owner |-> Nobody, until |-> NoLease,
                     fence |-> NoFence, capture |-> r.capture, outcome |-> r.outcome]
  <2>1. row.run = r.t /\ row.capture = r.capture /\ NewRow(row) /\ UNCHANGED runs
    BY <1>2 DEF record_attempt
  <2> HIDE DEF row
  <2> QED BY <1>2, <1>3, <1>4, <2>1, NamesIfNewRow
<1>8. PICK s : s = FetcherOff
  OBVIOUS
<1>9. FetcherInv(s)' /\ s.pc # "fetch"
  <2>1. FetcherInv(s)
    BY <1>3, <1>8, FetcherOffOk
  <2>2. RunsStay
    BY <1>6, RunsStayThere DEF PipelineInv
  <2>3. LogGrows
    BY <1>2, <1>3 DEF LogGrows
  <2>4. s.pc # "fetch"
    BY <1>8 DEF FetcherOff, Off
  <2> QED BY <1>3, <2>1, <2>2, <2>3, <2>4, FetcherStable
<1> QED BY <1>2, <1>6, <1>7, <1>8, <1>9, FetcherCalls

------------------------------------------------------------------------------
(* process, replay_range and replay_derivation.                            *)

\* A pod or a session that only reads.
LEMMA PodReads ==
    ASSUME PipelineInv, UNCHANGED ledgerVars, NEW w \in Sessions, NEW s,
           pods' = [pods EXCEPT ![w] = s], PodInv(w, s)',
           UNCHANGED <<clock, log, decisions, fetchers, gap>>, invalid' \subseteq decisions,
           count' \in [{"fetches", "replays", "decisions", "faults"} -> Nat],
           count'["fetches"] = count["fetches"]
    PROVE  PipelineInv'
<1>1. UNCHANGED <<runs, attempts, claims, enqueuing>>
  BY DEF ledgerVars
<1>2. LedgerNamesEntries' /\ Enqueued'
  BY <1>1 DEF PipelineInv, LedgerNamesEntries, Enqueued, Holding
<1> QED BY <1>1, <1>2, PodMoves

\* A pod or a session that calls the store.
LEMMA PodCalls ==
    ASSUME PipelineInv, [LedgerNext]_ledgerVars, NEW w \in Sessions, NEW s,
           pods' = [pods EXCEPT ![w] = s], PodInv(w, s)',
           UNCHANGED <<clock, log, decisions, invalid, fetchers, gap, count>>,
           \A v \in Workers : v # w => claims'[v] = claims[v],
           \A v \in Operators : v # w =>
              ((\E e \in enqueuing' : e[1] = v) <=> (\E e \in enqueuing : e[1] = v)),
           LedgerNamesEntries', Enqueued'
    PROVE  PipelineInv'
<1>1. /\ invalid' \subseteq decisions
      /\ count' \in [{"fetches", "replays", "decisions", "faults"} -> Nat]
  BY DEF PipelineInv, Shape
<1> QED BY <1>1, PodMoves

\* The state of a pod or a session between two of its tasks.
RestsAt(s, pc, todo) ==
    /\ s \in PodState /\ s.pc = pc /\ s.todo = todo
    /\ \A t \in Instants : s.newest[t] = 0

LEMMA OffRests == RestsAt(PodOff, Off, {})
<1> DEFINE none == [t \in Instants |-> NoCapture]
<1>1. SomeInstant \in Instants /\ none \in [Instants -> Nat]
      /\ \A t \in Instants : none[t] = 0
  BY NullRows DEF NoCapture
<1>2. PodOff = [pc |-> Off, now |-> 0, todo |-> {}, at |-> SomeInstant, newest |-> none,
                named |-> 0, verdict |-> "none"]
  BY DEF PodOff, NoCapture
<1> HIDE DEF none
<1>3. PodOff \in PodState /\ PodOff.newest = none /\ PodOff.pc = Off /\ PodOff.todo = {}
  BY <1>1, <1>2 DEF PodState
<1> QED BY <1>1, <1>3 DEF RestsAt

LEMMA RestingPod ==
    ASSUME log' \in [Instants -> Seq(Payloads)], NEW w \in Sessions, NEW s,
           NEW pc \in {Off, "pending", "claim", "replay", "enqueue"}, NEW todo,
           RestsAt(s, pc, todo),
           pc = "claim" => \A t \in todo : runs'[t].state # "absent",
           w \in Workers => pc \in {Off, "pending", "claim"} /\ claims'[w].id = 0,
           w \in Operators =>
              pc \in {Off, "replay", "enqueue"} /\ ~\E e \in enqueuing' : e[1] = w
    PROVE  PodInv(w, s)'
<1>1. s \in PodState /\ s.pc = pc /\ s.todo = todo /\ \A t \in Instants : s.newest[t] = 0
  BY DEF RestsAt
<1>2. \A t \in Instants : Len(log'[t]) \in Nat
  OBVIOUS
<1>3. \A t \in Instants : s.newest[t] <= Len(log'[t])
  BY <1>1, <1>2
<1>4. pc \notin {"ensure", "advance", "commit", "insert"}
  BY DEF Off
<1>5. s.pc = "claim" => \A t \in s.todo : Exists(t)'
  BY <1>1 DEF Exists
<1>6. w \in Workers => ~Holding(w)'
  BY DEF Holding
<1> QED BY <1>1, <1>3, <1>4, <1>5, <1>6 DEF PodInv, PodState

\* What the invariant says of a pod or a session.
LEMMA PodFacts ==
    ASSUME PipelineInv, NEW w \in Sessions
    PROVE  /\ PodInv(w, pods[w]) /\ pods[w] \in PodState
           /\ pods[w].todo \subseteq Instants /\ pods[w].at \in Instants
           /\ pods[w].now \in Times \cup {0} /\ pods[w].newest \in [Instants -> Nat]
           /\ w \in Workers => w \notin Operators /\ (Holding(w) <=> pods[w].pc = "commit")
           /\ w \in Operators => (pods[w].pc = "insert" <=> \E e \in enqueuing : e[1] = w)
<1>1. PodInv(w, pods[w])
  BY DEF PipelineInv
<1>2. pods[w] \in PodState
  BY <1>1 DEF PodInv
<1>3. /\ pods[w].todo \subseteq Instants /\ pods[w].at \in Instants
      /\ pods[w].now \in Times \cup {0} /\ pods[w].newest \in [Instants -> Nat]
  BY <1>2 DEF PodState
<1>4. w \in Workers => w \notin Operators /\ (Holding(w) <=> pods[w].pc = "commit")
  BY <1>1 DEF PodInv
<1>5. w \in Operators => (pods[w].pc = "insert" <=> \E e \in enqueuing : e[1] = w)
  BY <1>1 DEF PodInv
<1> QED BY <1>1, <1>2, <1>3, <1>4, <1>5

\* A pod or a session comes to rest without a call of the store.
LEMMA PodRests ==
    ASSUME PipelineInv, UNCHANGED ledgerVars, NEW w \in Sessions,
           pods[w].pc \notin {"commit", "insert"},
           NEW pc \in {Off, "pending", "claim", "replay", "enqueue"},
           NEW todo, NEW s, RestsAt(s, pc, todo), pods' = [pods EXCEPT ![w] = s],
           UNCHANGED <<clock, log, decisions, fetchers, gap>>, invalid' \subseteq decisions,
           count' \in [{"fetches", "replays", "decisions", "faults"} -> Nat],
           count'["fetches"] = count["fetches"],
           pc = "claim" => \A t \in todo : Exists(t),
           w \in Workers => pc \in {Off, "pending", "claim"},
           w \in Operators => pc \in {Off, "replay", "enqueue"}
    PROVE  PipelineInv'
<1>1. UNCHANGED <<runs, claims, enqueuing>>
  BY DEF ledgerVars
<1>2. log' \in [Instants -> Seq(Payloads)]
  BY DEF PipelineInv, Shape
<1>3. w \in Workers => claims'[w].id = 0
  BY <1>1, PodFacts DEF Holding
<1>4. w \in Operators => ~\E e \in enqueuing' : e[1] = w
  BY <1>1, PodFacts
<1>5. pc = "claim" => \A t \in todo : runs'[t].state # "absent"
  BY <1>1 DEF Exists
<1>6. PodInv(w, s)'
  BY <1>2, <1>3, <1>4, <1>5, RestingPod
<1> QED BY <1>6, PodReads

\* What pending_runs lists is in the ledger.
LEMMA PendingRunsExist ==
    ASSUME LedgerInv, NEW t \in Instants, NEW now, PendingRun(t, now) PROVE Exists(t)
<1>1. CASE runs[t].state = "captured"
  BY <1>1 DEF Exists
<1>2. ASSUME NEW i \in AttemptIds, attempts[i].run = t, attempts[i].kind = "replay"
      PROVE  Exists(t)
  <2>1. NoAttempt.kind = "absent"
    BY DEF NoAttempt
  <2>2. used \in Nat /\ i \in Nat
    BY DEF LedgerInv, LedgerTypeOK, AttemptIds
  <2>3. ~(i > used)
    BY <1>2, <2>1 DEF LedgerInv, RowsAllocated
  <2>4. i <= used
    BY <2>2, <2>3
  <2> QED BY <1>2, <2>4 DEF LedgerInv, RowsAllocated
<1> QED BY <1>1, <1>2 DEF PendingRun, PendingReplay, DeadReplay

LEMMA ListPendingInv ==
    ASSUME PipelineInv, NEW w \in Workers, ListPending(w) PROVE PipelineInv'
<1> DEFINE todo == {t \in Instants : PendingRun(t, pods[w].now)}
<1>1. /\ pods[w].pc = "pending" /\ UNCHANGED ledgerVars
      /\ UNCHANGED <<clock, log, decisions, invalid, fetchers, gap, count>>
  BY DEF ListPending
<1>2. \/ pods' = [pods EXCEPT ![w] = PodOff]
      \/ pods' = [pods EXCEPT ![w] = [PodOff EXCEPT !.pc = "claim", !.todo = todo]]
  BY DEF ListPending
<1>3. todo \in SUBSET Instants /\ \A t \in todo : Exists(t)
  BY PendingRunsExist DEF PipelineInv
<1> HIDE DEF todo
<1>4. /\ invalid' \subseteq decisions /\ w \in Sessions /\ w \notin Operators
      /\ count' \in [{"fetches", "replays", "decisions", "faults"} -> Nat]
  BY <1>1 DEF PipelineInv, Shape, Sessions
<1>5. CASE pods' = [pods EXCEPT ![w] = PodOff]
  BY <1>1, <1>4, <1>5, OffRests, PodRests DEF Off
<1>6. CASE pods' = [pods EXCEPT ![w] = [PodOff EXCEPT !.pc = "claim", !.todo = todo]]
  <2>1. PICK s : s = [PodOff EXCEPT !.pc = "claim", !.todo = todo]
    OBVIOUS
  <2>2. RestsAt(s, "claim", todo)
    BY <1>3, <2>1, OffRests DEF RestsAt, PodState
  <2>3. pods' = [pods EXCEPT ![w] = s]
    BY <1>6, <2>1
  <2> QED BY <1>1, <1>3, <1>4, <2>2, <2>3, PodRests
<1> QED BY <1>2, <1>5, <1>6

\* A set of numbers that is not empty has a least element.
LEMMA LeastNumber ==
    ASSUME NEW S \in SUBSET Nat, S # {}
    PROVE  \E m \in S : \A n \in S : m <= n
<1> DEFINE R == OpToRel(<, Nat)
<1>1. \A x, y \in Nat : <<x, y>> \in R <=> x < y
  BY DEF OpToRel
<1>2. IsWellFoundedOn(R, Nat)
  BY NatLessThanWellFounded
<1> HIDE DEF R
<1>3. PICK m \in S : \A n \in S : <<n, m>> \notin R
  BY <1>2, WFMin
<1>4. ASSUME NEW n \in S PROVE m <= n
  <2>1. m \in Nat /\ n \in Nat /\ ~(n < m)
    BY <1>1, <1>3
  <2> QED BY <2>1
<1> QED BY <1>4

\* A set of numbers that is bounded and not empty has a greatest element.
LEMMA GreatestNumber ==
    ASSUME NEW b \in Nat, NEW S \in SUBSET (0 .. b), S # {}
    PROVE  \E m \in S : \A n \in S : n <= m
<1> DEFINE T == {b - n : n \in S}
<1>1. T \in SUBSET Nat /\ T # {}
  <2>1. \A n \in S : b - n \in Nat
    OBVIOUS
  <2>2. T # {}
    OBVIOUS
  <2> QED BY <2>1, <2>2
<1> HIDE DEF T
<1>2. PICK k \in T : \A j \in T : k <= j
  BY <1>1, LeastNumber
<1>3. PICK m \in S : k = b - m
  BY DEF T
<1>4. ASSUME NEW n \in S PROVE n <= m
  <2>1. b - n \in T
    BY DEF T
  <2>2. b - m <= b - n /\ m \in Nat /\ n \in Nat
    BY <1>2, <1>3, <2>1
  <2> QED BY <2>2
<1> QED BY <1>4

\* The newest valid entry is an entry.
LEMMA NewestValidIsAnEntry ==
    ASSUME log \in [Instants -> Seq(Payloads)], NEW t \in Instants, NEW decided
    PROVE  NewestValid(t, decided) \in Nat /\ NewestValid(t, decided) <= Len(log[t])
<1> DEFINE V == {c \in DOMAIN log[t] : <<t, c>> \notin decided}
<1>1. Len(log[t]) \in Nat /\ DOMAIN log[t] = 1 .. Len(log[t])
  OBVIOUS
<1>2. V \in SUBSET (1 .. Len(log[t])) /\ V \in SUBSET Nat
  BY <1>1
<1>3. NewestValid(t, decided) = IF V = {} THEN NoCapture ELSE MaxOf(V)
  BY DEF NewestValid
<1> HIDE DEF V
<1>4. CASE V = {}
  BY <1>1, <1>3, <1>4 DEF NoCapture
<1>5. CASE V # {}
  <2>1. V \in SUBSET (0 .. Len(log[t]))
    BY <1>1, <1>2
  <2>2. \E m \in V : \A n \in V : n <= m
    BY <1>1, <1>5, <2>1, GreatestNumber
  <2>3. MaxOf(V) \in V
    BY <2>2 DEF MaxOf
  <2>4. NewestValid(t, decided) = MaxOf(V)
    BY <1>3, <1>5
  <2>5. NewestValid(t, decided) \in 1 .. Len(log[t])
    BY <1>2, <2>3, <2>4
  <2> QED BY <1>1, <2>5
<1> QED BY <1>4, <1>5

LEMMA ReconcileInv ==
    ASSUME PipelineInv, NEW w \in Sessions, NEW seen, Reconcile(w, seen),
           count' \in [{"fetches", "replays", "decisions", "faults"} -> Nat],
           count'["fetches"] = count["fetches"]
    PROVE  PipelineInv'
<1> DEFINE newest == [t \in Instants |->
                       IF t \in seen THEN NewestValid(t, invalid \cup decisions)
                       ELSE NoCapture]
           todo == {t \in Instants : newest[t] # NoCapture}
<1>1. /\ pods[w].pc = Off /\ UNCHANGED ledgerVars /\ invalid' = invalid \cup decisions
      /\ UNCHANGED <<clock, log, decisions, fetchers, gap>>
  BY DEF Reconcile
<1>2. /\ log \in [Instants -> Seq(Payloads)] /\ log' \in [Instants -> Seq(Payloads)]
      /\ invalid' \subseteq decisions /\ clock \in Times \cup {0}
  BY <1>1 DEF PipelineInv, Shape
<1>3. /\ newest \in [Instants -> Nat] /\ todo \in SUBSET Instants
      /\ \A t \in Instants : newest[t] <= Len(log'[t])
      /\ \A t \in Instants : t \in todo <=> newest[t] # NoCapture
  <2>1. \A t \in Instants : Len(log'[t]) \in Nat /\ NoCapture \in Nat
    BY <1>2 DEF NoCapture
  <2>2. \A t \in Instants : NoCapture <= Len(log'[t])
    BY <2>1 DEF NoCapture
  <2> QED BY <1>1, <1>2, <2>1, <2>2, NewestValidIsAnEntry
<1>4. PICK pc : pc = IF todo # {} THEN "ensure" ELSE AfterReconcile(w)
  OBVIOUS
<1>5. PICK s : s = [PodOff EXCEPT !.pc = pc, !.now = clock, !.todo = todo, !.newest = newest]
  OBVIOUS
<1>6. pods' = [pods EXCEPT ![w] = s]
  BY <1>4, <1>5 DEF Reconcile
<1> HIDE DEF newest, todo
<1>7. pc \in {"ensure", "replay", "pending"}
  BY <1>4 DEF AfterReconcile
<1>8. s \in PodState /\ s.pc = pc /\ s.todo = todo /\ s.newest = newest
  BY <1>2, <1>3, <1>5, <1>7, OffRests DEF RestsAt, PodState
<1>9. CASE todo # {}
  <2>1. s.pc = "ensure"
    BY <1>4, <1>8, <1>9
  <2>2. (w \in Workers => ~Holding(w)') /\ (w \in Operators => ~\E e \in enqueuing' : e[1] = w)
    BY <1>1, PodFacts DEF ledgerVars, Holding, Off
  <2>3. /\ \A t \in Instants : s.newest[t] <= Len(log'[t])
        /\ \A t \in s.todo : s.newest[t] # NoCapture
    BY <1>3, <1>8
  <2>4. PodInv(w, s)'
    BY <1>8, <2>1, <2>2, <2>3 DEF PodInv, PodState
  <2> QED BY <1>1, <1>2, <1>6, <2>4, PodReads
<1>10. CASE todo = {}
  <2>1. pc = AfterReconcile(w) /\ RestsAt(s, pc, {})
    BY <1>3, <1>4, <1>8, <1>10 DEF RestsAt, NoCapture
  <2>2. /\ w \in Workers => w \notin Operators /\ pc = "pending"
        /\ w \in Operators => pc = "replay"
        /\ pc \in {"pending", "replay"}
    BY <2>1 DEF AfterReconcile
  <2>3. pods[w].pc \notin {"commit", "insert"}
    BY <1>1 DEF Off
  <2>4. /\ pc \in {Off, "pending", "claim", "replay", "enqueue"} /\ pc # "claim"
        /\ w \in Workers => pc \in {Off, "pending", "claim"}
        /\ w \in Operators => pc \in {Off, "replay", "enqueue"}
    BY <2>2
  <2> QED BY <1>1, <1>2, <1>6, <2>1, <2>3, <2>4, PodRests
<1> QED BY <1>9, <1>10

LEMMA ReconcileEnsureInv ==
    ASSUME PipelineInv, NEW w \in Sessions, NEW t \in Instants, ReconcileEnsure(w, t)
    PROVE  PipelineInv' /\ [LedgerNext]_ledgerVars
<1>1. PICK r : r = pods[w]
  OBVIOUS
<1>2. PICK c : c = r.newest[t]
  OBVIOUS
<1>3. PICK m : m = EnsuredRun(runs[t], "captured", c).capture
  OBVIOUS
<1>4. PICK s : s = [r EXCEPT !.pc = "advance", !.at = t, !.todo = r.todo \ {t}, !.named = m]
  OBVIOUS
<1>5. /\ r.pc = "ensure" /\ t \in r.todo /\ ensure_run(t, "captured", c)
      /\ UNCHANGED <<claims, enqueuing, clock, log, decisions, invalid, fetchers, gap, count>>
  BY <1>1, <1>2 DEF ReconcileEnsure
<1>6. pods' = [pods EXCEPT ![w] = s]
  BY <1>1, <1>2, <1>3, <1>4 DEF ReconcileEnsure, PipelineInv, Shape
<1>7. /\ log \in [Instants -> Seq(Payloads)] /\ LedgerTypeOK /\ LedgerNamesEntries /\ Enqueued
  BY DEF PipelineInv, Shape, LedgerInv
<1>8. r \in PodState /\ PodInv(w, r) /\ r.todo \subseteq Instants /\ r.newest \in [Instants -> Nat]
  BY <1>1, PodFacts
<1>9. c \in Nat /\ c <= Len(log[t]) /\ c # NoCapture
  BY <1>2, <1>5, <1>8 DEF PodInv
<1>10. c \in Captures
  BY <1>9, EntriesAreCaptures
<1>11. EnsureRun(t)
  BY <1>5, <1>10 DEF EnsureRun
<1>12. [LedgerNext]_ledgerVars
  BY <1>11 DEF LedgerNext
<1>13. LedgerNamesEntries'
  BY <1>5, <1>7, <1>9, NamesIfEnsured
<1>14. Enqueued'
  BY <1>5, <1>7 DEF Enqueued
<1>15. runs[t] \in Run /\ EnsuredRun(runs[t], "captured", c) \in Run
  BY <1>7, <1>10, EnsuredRunType DEF LedgerTypeOK
<1>16. m \in Nat
  <2>1. \A x \in Run : x.capture \in Captures \cup {NoCapture}
    BY DEF Run
  <2>2. Captures \cup {NoCapture} \subseteq Nat
    BY DEF NoCapture
  <2> QED BY <1>3, <1>15, <2>1, <2>2
<1>17. runs'[t].state # "absent"
  <2>1. runs'[t] = EnsuredRun(runs[t], "captured", c)
    BY <1>5, <1>7 DEF ensure_run, LedgerTypeOK
  <2>2. EnsuredRun(runs[t], "captured", c).state # "absent"
    BY <1>15 DEF EnsuredRun, NoRun, Run
  <2> QED BY <2>1, <2>2
<1>18. /\ s \in PodState /\ s.pc = "advance" /\ s.at = t /\ s.newest = r.newest
       /\ s.todo = r.todo \ {t}
  <2>1. PICK d : d = r.todo \ {t}
    OBVIOUS
  <2>2. s = [r EXCEPT !.pc = "advance", !.at = t, !.todo = d, !.named = m]
    BY <1>4, <1>8, <2>1 DEF PodState
  <2>3. d \in SUBSET Instants
    BY <1>8, <2>1
  <2> QED BY <1>8, <1>16, <2>1, <2>2, <2>3 DEF PodState
<1>19. /\ \A u \in Instants : s.newest[u] <= Len(log'[u])
       /\ \A u \in s.todo : s.newest[u] # NoCapture
  BY <1>5, <1>8, <1>18 DEF PodInv
<1>20. Exists(s.at)'
  BY <1>17, <1>18 DEF Exists
<1>21. /\ w \in Workers => ~Holding(w)'
       /\ w \in Operators => ~\E e \in enqueuing' : e[1] = w
  BY <1>1, <1>5, PodFacts DEF Holding
<1>22. PodInv(w, s)'
  BY <1>18, <1>19, <1>20, <1>21 DEF PodInv, PodState
<1> QED BY <1>5, <1>6, <1>12, <1>13, <1>14, <1>22, PodCalls

LEMMA ReconcileAdvanceInv ==
    ASSUME PipelineInv, NEW w \in Sessions, ReconcileAdvance(w)
    PROVE  PipelineInv' /\ [LedgerNext]_ledgerVars
<1>1. PICK r : r = pods[w]
  OBVIOUS
<1>2. PICK t : t = r.at
  OBVIOUS
<1>3. /\ r.pc = "advance"
      /\ UNCHANGED <<claims, enqueuing, clock, log, decisions, invalid, fetchers, gap, count>>
      /\ IF Advances(w) THEN mark_recaptured(t, r.newest[t]) ELSE UNCHANGED tables
  BY <1>1, <1>2 DEF ReconcileAdvance
<1>4. /\ log \in [Instants -> Seq(Payloads)] /\ log' \in [Instants -> Seq(Payloads)]
      /\ LedgerTypeOK /\ LedgerNamesEntries /\ Enqueued
  BY <1>3 DEF PipelineInv, Shape, LedgerInv
<1>5. /\ r \in PodState /\ PodInv(w, r) /\ r.todo \subseteq Instants /\ t \in Instants
      /\ r.newest \in [Instants -> Nat] /\ r.now \in Times \cup {0} /\ r.named \in Nat
  BY <1>1, <1>2, PodFacts DEF PodState
<1>6. Exists(t) /\ r.newest[t] \in Nat /\ r.newest[t] <= Len(log[t])
  BY <1>2, <1>3, <1>5 DEF PodInv
<1>7. LedgerNamesEntries' /\ [LedgerNext]_ledgerVars
  <2>1. CASE Advances(w)
    <3>1. r.newest[t] > r.named
      BY <1>1, <1>2, <2>1 DEF Advances
    <3>2. r.newest[t] \in Captures
      <4>1. r.newest[t] # NoCapture
        BY <1>5, <1>6, <3>1 DEF NoCapture
      <4> QED BY <1>5, <1>6, <4>1, EntriesAreCaptures
    <3>3. MarkRecaptured(t)
      BY <1>3, <1>6, <2>1, <3>2 DEF MarkRecaptured
    <3>4. LedgerNamesEntries'
      BY <1>3, <1>4, <1>5, <1>6, <2>1, NamesIfRecaptured
    <3> QED BY <1>5, <3>3, <3>4 DEF LedgerNext
  <2>2. CASE ~Advances(w)
    BY <1>3, <1>4, <2>2 DEF tables, ledgerVars, LedgerNamesEntries, Holding
  <2> QED BY <2>1, <2>2
<1>8. Enqueued'
  BY <1>3, <1>4 DEF Enqueued
<1>9. /\ w \in Workers => ~Holding(w)' /\ claims'[w].id = 0
      /\ w \in Operators => ~\E e \in enqueuing' : e[1] = w
  BY <1>1, <1>3, PodFacts DEF Holding
<1>10. ASSUME NEW s, pods' = [pods EXCEPT ![w] = s], PodInv(w, s)' PROVE PipelineInv'
  BY <1>3, <1>7, <1>8, <1>10, PodCalls
<1>11. CASE r.todo # {}
  <2>1. PICK s : s = [r EXCEPT !.pc = "ensure"]
    OBVIOUS
  <2>2. pods' = [pods EXCEPT ![w] = s]
    BY <1>1, <1>11, <2>1 DEF ReconcileAdvance, PipelineInv, Shape
  <2>3. s \in PodState /\ s.pc = "ensure" /\ s.newest = r.newest /\ s.todo = r.todo
    BY <1>5, <2>1 DEF PodState
  <2>4. /\ \A u \in Instants : s.newest[u] <= Len(log'[u])
        /\ \A u \in s.todo : s.newest[u] # NoCapture
    BY <1>3, <1>5, <2>3 DEF PodInv
  <2>5. PodInv(w, s)'
    BY <1>9, <2>3, <2>4 DEF PodInv, PodState
  <2> QED BY <1>7, <1>10, <2>2, <2>5
<1>12. CASE r.todo = {}
  <2>1. PICK pc : pc = AfterReconcile(w)
    OBVIOUS
  <2>2. PICK s : s = [PodOff EXCEPT !.pc = pc, !.now = r.now]
    OBVIOUS
  <2>3. pods' = [pods EXCEPT ![w] = s]
    BY <1>1, <1>12, <2>1, <2>2 DEF ReconcileAdvance, PipelineInv, Shape
  <2>4. /\ pc \in {"pending", "replay"} /\ (w \in Operators => pc = "replay")
        /\ w \in Workers => pc = "pending"
    BY <2>1 DEF AfterReconcile
  <2>5. RestsAt(s, pc, {})
    BY <1>5, <2>2, <2>4, OffRests DEF RestsAt, PodState
  <2>6. /\ pc \in {Off, "pending", "claim", "replay", "enqueue"} /\ pc # "claim"
        /\ w \in Workers => pc \in {Off, "pending", "claim"}
        /\ w \in Operators => pc \in {Off, "replay", "enqueue"}
    BY <2>4
  <2>7. PodInv(w, s)'
    BY <1>4, <1>9, <2>5, <2>6, RestingPod
  <2> QED BY <1>7, <1>10, <2>3, <2>7
<1> QED BY <1>11, <1>12

\* The claim a worker is given: not NoClaim, and of the run's capture.
LEMMA ClaimGiven ==
    ASSUME LedgerTypeOK, NEW w \in Workers, NEW t \in Instants, NEW now, claim(w, t, now)
    PROVE  /\ Holding(w)' /\ claims'[w].capture = runs[t].capture
           /\ \A v \in Workers : v # w => claims'[v] = claims[v]
<1>1. PICK i, kind : ClaimRow(w, t, now, i, kind) /\ i # 0
  <2>1. used \in Nat
    BY DEF LedgerTypeOK
  <2>2. used + 1 # 0 /\ 0 \notin AttemptIds
    BY <2>1 DEF AttemptIds
  <2> QED BY <2>2 DEF claim
<1>2. \A v \in Workers :
         claims'[v] = IF v = w THEN [id |-> i, run |-> t, fence |-> runs[t].fence + 1,
                                     capture |-> runs[t].capture]
                      ELSE claims[v]
  BY <1>1 DEF ClaimRow, LedgerTypeOK
<1>3. claims'[w].id = i /\ claims'[w].capture = runs[t].capture
  BY <1>2
<1> QED BY <1>1, <1>2, <1>3 DEF Holding

\* Only an entry of the capture log is mapped.
LEMMA VerdictOf ==
    ASSUME log \in [Instants -> Seq(Payloads)], NEW t \in Instants, NEW c
    PROVE  /\ Verdict(t, c) \in {"ok", "failed", "quarantined"}
           /\ Verdict(t, c) = "ok" => c # NoCapture
<1>1. DOMAIN log[t] = 1 .. Len(log[t]) /\ Len(log[t]) \in Nat
  OBVIOUS
<1>2. NoCapture \notin DOMAIN log[t]
  BY <1>1 DEF NoCapture
<1> QED BY <1>2 DEF Verdict

LEMMA ClaimNextInv ==
    ASSUME PipelineInv, NEW w \in Workers, NEW t \in Instants, ClaimNext(w, t)
    PROVE  PipelineInv' /\ [LedgerNext]_ledgerVars
<1>1. PICK r : r = pods[w]
  OBVIOUS
<1>2. PICK d : d = r.todo \ {t}
  OBVIOUS
<1>3. /\ r.pc = "claim" /\ t \in r.todo /\ w \in Sessions /\ w \notin Operators
      /\ UNCHANGED <<enqueuing, clock, log, decisions, invalid, fetchers, gap, count>>
  BY <1>1 DEF ClaimNext, Sessions
<1>4. /\ log \in [Instants -> Seq(Payloads)] /\ log' \in [Instants -> Seq(Payloads)]
      /\ LedgerTypeOK /\ LedgerNamesEntries /\ Enqueued /\ clock \in Times
      /\ invalid' \subseteq decisions
      /\ count' \in [{"fetches", "replays", "decisions", "faults"} -> Nat]
  BY <1>3 DEF PipelineInv, Shape, LedgerInv
<1>5. /\ r \in PodState /\ PodInv(w, r) /\ r.todo \subseteq Instants
      /\ r.newest \in [Instants -> Nat] /\ ~Holding(w)
  BY <1>1, <1>3, PodFacts
<1>6. /\ d \in SUBSET Instants /\ \A u \in r.todo : Exists(u)
      /\ \A u \in Instants : r.newest[u] <= Len(log[u])
  BY <1>2, <1>3, <1>5 DEF PodInv
<1>7. CASE LeaseFree(t, clock)
  <2>1. PICK v : v = Verdict(t, runs[t].capture)
    OBVIOUS
  <2>2. PICK s : s = [r EXCEPT !.pc = "commit", !.todo = d, !.verdict = v]
    OBVIOUS
  <2>3. claim(w, t, clock) /\ pods' = [pods EXCEPT ![w] = s]
    BY <1>1, <1>2, <1>7, <2>1, <2>2 DEF ClaimNext, PipelineInv, Shape
  <2>4. [LedgerNext]_ledgerVars
    <3>1. ClaimRun(w, t)
      BY <1>3, <1>4, <1>5, <1>6, <2>3 DEF ClaimRun
    <3> QED BY <3>1 DEF LedgerNext
  <2>5. v \in {"ok", "failed", "quarantined"} /\ (v = "ok" => runs[t].capture # NoCapture)
    BY <1>4, <2>1, VerdictOf
  <2>6. /\ s \in PodState /\ s.pc = "commit" /\ s.todo = d /\ s.newest = r.newest
        /\ s.verdict = v
    BY <1>5, <1>6, <2>2, <2>5 DEF PodState
  <2>7. /\ Holding(w)' /\ claims'[w].capture = runs[t].capture
        /\ \A x \in Workers : x # w => claims'[x] = claims[x]
    BY <1>4, <2>3, ClaimGiven
  <2>8. RunsStay
    BY <2>4, RunsStayThere DEF PipelineInv
  <2>9. \A u \in s.todo : Exists(u)'
    BY <1>2, <1>5, <1>6, <2>6, <2>8 DEF RunsStay, Exists
  <2>10. \A u \in Instants : s.newest[u] <= Len(log'[u])
    BY <1>3, <1>6, <2>6
  <2>11. PodInv(w, s)'
    BY <1>3, <2>5, <2>6, <2>7, <2>9, <2>10 DEF PodInv, PodState
  <2>12. LedgerNamesEntries'
    BY <1>3, <1>4, <2>3, NamesIfClaimed
  <2>13. Enqueued'
    BY <1>3, <1>4 DEF Enqueued
  <2> QED BY <1>3, <2>3, <2>4, <2>7, <2>11, <2>12, <2>13, PodCalls
<1>8. CASE ~LeaseFree(t, clock)
  <2>1. UNCHANGED ledgerVars
    BY <1>3, <1>8 DEF ClaimNext, tables, ledgerVars
  <2>2. CASE r.todo = {t}
    <3>1. pods' = [pods EXCEPT ![w] = PodOff]
      BY <1>1, <1>8, <2>2 DEF ClaimNext
    <3>2. pods[w].pc \notin {"commit", "insert"}
      BY <1>1, <1>3
    <3> QED BY <1>3, <1>4, <2>1, <3>1, <3>2, OffRests, PodRests DEF Off
  <2>3. CASE r.todo # {t}
    <3>1. PICK s : s = [r EXCEPT !.todo = d]
      OBVIOUS
    <3>2. pods' = [pods EXCEPT ![w] = s]
      BY <1>1, <1>2, <1>8, <2>3, <3>1 DEF ClaimNext, PipelineInv, Shape
    <3>3. s \in PodState /\ s.pc = "claim" /\ s.todo = d /\ s.newest = r.newest
      BY <1>3, <1>5, <1>6, <3>1 DEF PodState
    <3>4. ~Holding(w)' /\ \A u \in s.todo : Exists(u)'
      BY <1>2, <1>5, <1>6, <2>1, <3>3 DEF ledgerVars, Holding, Exists
    <3>5. \A u \in Instants : s.newest[u] <= Len(log'[u])
      BY <1>3, <1>6, <3>3
    <3>6. PodInv(w, s)'
      BY <1>3, <3>3, <3>4, <3>5 DEF PodInv, PodState
    <3> QED BY <1>3, <1>4, <2>1, <3>2, <3>6, PodReads
  <2> QED BY <2>2, <2>3
<1> QED BY <1>7, <1>8

\* What commit() leaves of the captures the ledger names, and of the claim.
LEMMA NamesIfCommitted ==
    ASSUME LedgerTypeOK, LedgerNamesEntries, NEW w \in Workers, NEW state, NEW outcome,
           CommitFresh(w, state, outcome) \/ CommitStale(w), UNCHANGED log
    PROVE  /\ LedgerNamesEntries' /\ claims'[w].id = 0
           /\ \A v \in Workers : v # w => claims'[v] = claims[v]
<1>1. claims' = [claims EXCEPT ![w] = NoClaim]
  BY DEF CommitFresh, CommitStale
<1>2. \A v \in Workers : claims'[v] = IF v = w THEN NoClaim ELSE claims[v]
  BY <1>1 DEF LedgerTypeOK
<1>3. claims'[w].id = 0 /\ \A v \in Workers : v # w => claims'[v] = claims[v]
  BY <1>2 DEF NoClaim
<1>4. PICK i, o : attempts' = [attempts EXCEPT ![i].outcome = o]
  BY DEF CommitFresh, CommitStale
<1>5. ASSUME NEW j \in AttemptIds
      PROVE  attempts'[j].capture = attempts[j].capture /\ attempts'[j].run = attempts[j].run
  <2>1. attempts[j] \in RunAttempt
    BY DEF LedgerTypeOK
  <2>2. attempts'[j] = attempts[j] \/ attempts'[j] = [attempts[j] EXCEPT !.outcome = o]
    BY <1>4 DEF LedgerTypeOK
  <2> QED BY <2>1, <2>2 DEF RunAttempt
<1>6. ASSUME NEW t \in Instants PROVE runs'[t].capture = runs[t].capture
  <2>1. runs[t] \in Run
    BY DEF LedgerTypeOK
  <2>2. \/ runs'[t] = runs[t]
        \/ runs'[t] = [runs[t] EXCEPT !.state = state, !.owner = Nobody, !.until = NoLease]
    BY DEF CommitFresh, CommitStale, LedgerTypeOK
  <2> QED BY <2>1, <2>2 DEF Run
<1>7. LedgerNamesEntries'
  BY <1>1, <1>5, <1>6, NamesIfReleased
<1> QED BY <1>3, <1>7

LEMMA CommitClaimedInv ==
    ASSUME PipelineInv, NEW w \in Workers, CommitClaimed(w)
    PROVE  PipelineInv' /\ [LedgerNext]_ledgerVars
<1>1. PICK r : r = pods[w]
  OBVIOUS
<1>2. PICK state : state = IF r.verdict = "ok" THEN "processed" ELSE "failed"
  OBVIOUS
<1>3. /\ r.pc = "commit" /\ w \in Sessions /\ w \notin Operators
      /\ CommitFresh(w, state, r.verdict) \/ CommitStale(w)
      /\ UNCHANGED <<enqueuing, clock, log, decisions, invalid, fetchers, gap, count>>
  BY <1>1, <1>2 DEF CommitClaimed, Sessions
<1>4. /\ log \in [Instants -> Seq(Payloads)] /\ log' \in [Instants -> Seq(Payloads)]
      /\ LedgerTypeOK /\ LedgerNamesEntries /\ Enqueued
  BY <1>3 DEF PipelineInv, Shape, LedgerInv
<1>5. r \in PodState /\ PodInv(w, r) /\ r.todo \in SUBSET Instants
  BY <1>1, <1>3, PodFacts
<1>6. /\ \A u \in r.todo : Exists(u)
      /\ r.verdict \in {"ok", "failed", "quarantined"}
      /\ r.verdict = "ok" => claims[w].capture # NoCapture
  BY <1>3, <1>5 DEF PodInv, PodState
<1>7. [LedgerNext]_ledgerVars
  <2>1. CommitRun(w)
    <3>1. CASE CommitStale(w)
      BY <1>3, <3>1 DEF CommitRun
    <3>2. CASE CommitFresh(w, state, r.verdict) /\ r.verdict = "ok"
      BY <1>2, <1>3, <1>6, <3>2 DEF CommitRun
    <3>3. CASE CommitFresh(w, state, r.verdict) /\ r.verdict # "ok"
      <4>1. state = "failed" /\ r.verdict \in {"failed", "quarantined"}
        BY <1>2, <1>6, <3>3
      <4> QED BY <1>3, <3>3, <4>1 DEF CommitRun
    <3> QED BY <1>3, <3>1, <3>2, <3>3
  <2> QED BY <2>1 DEF LedgerNext
<1>8. /\ LedgerNamesEntries' /\ claims'[w].id = 0
      /\ \A v \in Workers : v # w => claims'[v] = claims[v]
  BY <1>3, <1>4, NamesIfCommitted
<1>9. RunsStay
  BY <1>7, RunsStayThere DEF PipelineInv
<1>10. Enqueued'
  BY <1>3, <1>4 DEF Enqueued
<1>11. ASSUME NEW s, pods' = [pods EXCEPT ![w] = s], PodInv(w, s)' PROVE PipelineInv'
  BY <1>3, <1>7, <1>8, <1>10, <1>11, PodCalls
<1>12. CASE r.todo = {}
  <2>1. PICK s : s = PodOff
    OBVIOUS
  <2>2. pods' = [pods EXCEPT ![w] = s]
    BY <1>1, <1>12, <2>1 DEF CommitClaimed, PodAfterCommit
  <2>3. PodInv(w, s)'
    BY <1>3, <1>4, <1>8, <2>1, OffRests, RestingPod DEF Off
  <2> QED BY <1>7, <1>11, <2>2, <2>3
<1>13. CASE r.todo # {}
  <2>1. PICK s : s = [PodOff EXCEPT !.pc = "claim", !.todo = r.todo]
    OBVIOUS
  <2>2. pods' = [pods EXCEPT ![w] = s]
    BY <1>1, <1>13, <2>1 DEF CommitClaimed, PodAfterCommit
  <2>3. RestsAt(s, "claim", r.todo)
    BY <1>5, <2>1, OffRests DEF RestsAt, PodState
  <2>4. \A u \in r.todo : runs'[u].state # "absent"
    BY <1>5, <1>6, <1>9 DEF RunsStay
  <2>5. PodInv(w, s)'
    BY <1>3, <1>4, <1>8, <2>3, <2>4, RestingPod
  <2> QED BY <1>7, <1>11, <2>2, <2>5
<1> QED BY <1>12, <1>13

LEMMA PodStopsInv ==
    ASSUME PipelineInv, NEW w \in Workers, PodStops(w)
    PROVE  PipelineInv' /\ [LedgerNext]_ledgerVars
<1>1. /\ pods' = [pods EXCEPT ![w] = PodOff] /\ w \in Sessions /\ w \notin Operators
      /\ count' = [count EXCEPT !["faults"] = @ + 1]
      /\ IF Holding(w) THEN Crash(w) ELSE UNCHANGED ledgerVars
      /\ UNCHANGED <<clock, log, decisions, invalid, fetchers, gap>>
  BY DEF PodStops, Counted, Sessions
<1>2. /\ log \in [Instants -> Seq(Payloads)] /\ log' \in [Instants -> Seq(Payloads)]
      /\ LedgerTypeOK /\ LedgerNamesEntries /\ Enqueued /\ invalid' \subseteq decisions
      /\ count \in [{"fetches", "replays", "decisions", "faults"} -> Nat]
  BY <1>1 DEF PipelineInv, Shape, LedgerInv
<1>3. /\ count' \in [{"fetches", "replays", "decisions", "faults"} -> Nat]
      /\ count'["fetches"] = count["fetches"]
  BY <1>1, <1>2
<1>4. CASE Holding(w)
  <2>1. /\ Crash(w) /\ claims' = [claims EXCEPT ![w] = NoClaim]
        /\ UNCHANGED <<runs, attempts, used, enqueuing>>
    BY <1>1, <1>4 DEF Crash
  <2>2. [LedgerNext]_ledgerVars
    BY <2>1 DEF LedgerNext
  <2>3. LedgerNamesEntries'
    BY <1>1, <1>2, <2>1, NamesIfReleased
  <2>4. claims'[w].id = 0 /\ \A v \in Workers : v # w => claims'[v] = claims[v]
    BY <1>2, <2>1 DEF LedgerTypeOK, NoClaim
  <2>5. Enqueued'
    BY <1>1, <1>2, <2>1 DEF Enqueued
  <2>6. PICK s : s = PodOff
    OBVIOUS
  <2>7. PodInv(w, s)'
    BY <1>1, <1>2, <2>4, <2>6, OffRests, RestingPod DEF Off
  <2> QED BY <1>1, <1>2, <1>3, <2>1, <2>2, <2>3, <2>4, <2>5, <2>6, <2>7, PodMoves
<1>5. CASE ~Holding(w)
  <2>1. UNCHANGED ledgerVars
    BY <1>1, <1>5
  <2>2. pods[w].pc \notin {"commit", "insert"}
    BY <1>1, <1>5, PodFacts DEF PodInv, Off
  <2> QED BY <1>1, <1>2, <1>3, <2>1, <2>2, OffRests, PodRests DEF Off
<1> QED BY <1>4, <1>5

\* The session lists runs to replay, or ends.
LEMMA SessionRests ==
    ASSUME PipelineInv, NEW o \in Operators, pods[o].pc \notin {"commit", "insert"},
           NEW R \in SUBSET Instants, UNCHANGED ledgerVars,
           \/ pods' = [pods EXCEPT ![o] = PodOff]
           \/ pods' = [pods EXCEPT ![o] = [PodOff EXCEPT !.pc = "enqueue", !.todo = R]],
           UNCHANGED <<clock, log, decisions, invalid, fetchers, gap>>,
           count' \in [{"fetches", "replays", "decisions", "faults"} -> Nat],
           count'["fetches"] = count["fetches"]
    PROVE  PipelineInv'
<1>1. invalid' \subseteq decisions /\ o \in Sessions /\ o \notin Workers
  BY DEF PipelineInv, Shape, Sessions
<1>2. CASE pods' = [pods EXCEPT ![o] = PodOff]
  BY <1>1, <1>2, OffRests, PodRests DEF Off
<1>3. CASE pods' = [pods EXCEPT ![o] = [PodOff EXCEPT !.pc = "enqueue", !.todo = R]]
  <2>1. PICK s : s = [PodOff EXCEPT !.pc = "enqueue", !.todo = R]
    OBVIOUS
  <2>2. RestsAt(s, "enqueue", R)
    BY <2>1, OffRests DEF RestsAt, PodState
  <2>3. pods' = [pods EXCEPT ![o] = s]
    BY <1>3, <2>1
  <2> QED BY <1>1, <2>2, <2>3, PodRests
<1> QED BY <1>2, <1>3

LEMMA ReplayRunsInv ==
    ASSUME PipelineInv, NEW o \in Operators, NEW R \in SUBSET Instants, ReplayRuns(o, R)
    PROVE  PipelineInv'
<1>1. /\ pods[o].pc = "replay" /\ UNCHANGED ledgerVars
      /\ UNCHANGED <<clock, log, decisions, invalid, fetchers, gap, count>>
      /\ \/ pods' = [pods EXCEPT ![o] = PodOff]
         \/ pods' = [pods EXCEPT ![o] = [PodOff EXCEPT !.pc = "enqueue", !.todo = R]]
  BY DEF ReplayRuns
<1>2. count' \in [{"fetches", "replays", "decisions", "faults"} -> Nat]
  BY <1>1 DEF PipelineInv, Shape
<1> QED BY <1>1, <1>2, SessionRests

LEMMA ReplayDerivationInv ==
    ASSUME PipelineInv, NEW o \in Operators, NEW R \in SUBSET Instants,
           ReplayDerivation(o, R)
    PROVE  PipelineInv'
<1>1. /\ pods[o].pc = Off /\ UNCHANGED ledgerVars
      /\ UNCHANGED <<clock, log, decisions, invalid, fetchers, gap>>
      /\ count' = [count EXCEPT !["replays"] = @ + 1]
      /\ pods' = [pods EXCEPT ![o] = [PodOff EXCEPT !.pc = "enqueue", !.todo = R]]
  BY DEF ReplayDerivation, Counted
<1>2. count \in [{"fetches", "replays", "decisions", "faults"} -> Nat]
  BY DEF PipelineInv, Shape
<1>3. /\ count' \in [{"fetches", "replays", "decisions", "faults"} -> Nat]
      /\ count'["fetches"] = count["fetches"]
  BY <1>1, <1>2
<1>4. pods[o].pc \notin {"commit", "insert"}
  BY <1>1 DEF Off
<1> QED BY <1>1, <1>3, <1>4, SessionRests

LEMMA SessionStopsInv ==
    ASSUME PipelineInv, NEW o \in Operators, SessionStops(o) PROVE PipelineInv'
<1>1. /\ pods[o].pc # "insert" /\ UNCHANGED ledgerVars
      /\ UNCHANGED <<clock, log, decisions, invalid, fetchers, gap>>
      /\ count' = [count EXCEPT !["faults"] = @ + 1]
      /\ pods' = [pods EXCEPT ![o] = PodOff]
  BY DEF SessionStops, Counted
<1>2. count \in [{"fetches", "replays", "decisions", "faults"} -> Nat]
  BY DEF PipelineInv, Shape
<1>3. /\ count' \in [{"fetches", "replays", "decisions", "faults"} -> Nat]
      /\ count'["fetches"] = count["fetches"]
  BY <1>1, <1>2
<1>4. pods[o].pc \notin {"commit", "insert"}
  <2>1. o \in Sessions /\ PodInv(o, pods[o])
    BY DEF PipelineInv, Sessions
  <2> QED BY <1>1, <2>1 DEF PodInv, Off
<1> QED BY <1>1, <1>3, <1>4, SessionRests

LEMMA ReplayInv ==
    ASSUME PipelineInv, NEW o \in Operators, NEW t \in Instants, Replay(o, t)
    PROVE  PipelineInv' /\ [LedgerNext]_ledgerVars
<1>1. PICK r : r = pods[o]
  OBVIOUS
<1>2. PICK d : d = r.todo \ {t}
  OBVIOUS
<1>3. /\ r.pc = "enqueue" /\ t \in r.todo /\ o \in Sessions /\ o \notin Workers
      /\ UNCHANGED <<clock, log, decisions, invalid, fetchers, gap, count>>
  BY <1>1 DEF Replay, Sessions
<1>4. /\ log \in [Instants -> Seq(Payloads)] /\ LedgerTypeOK
      /\ LedgerNamesEntries /\ Enqueued /\ invalid' \subseteq decisions
      /\ count' \in [{"fetches", "replays", "decisions", "faults"} -> Nat]
  BY <1>3 DEF PipelineInv, Shape, LedgerInv
<1>5. /\ r \in PodState /\ r.newest \in [Instants -> Nat] /\ d \in SUBSET Instants
      /\ \A u \in Instants : r.newest[u] <= Len(log[u])
      /\ ~\E e \in enqueuing : e[1] = o
  BY <1>1, <1>2, <1>3, PodFacts DEF PodInv
<1>6. CASE PendingReplays(t) = {}
  <2>1. PICK s : s = [r EXCEPT !.pc = "insert", !.at = t, !.todo = d]
    OBVIOUS
  <2>2. EnqueueReplay(o, t) /\ pods' = [pods EXCEPT ![o] = s]
    BY <1>1, <1>2, <1>6, <2>1 DEF Replay, PipelineInv, Shape
  <2>3. [LedgerNext]_ledgerVars
    BY <2>2 DEF LedgerNext
  <2>4. PICK e : e = <<o, t, runs[t].capture>>
    OBVIOUS
  <2>5. /\ enqueuing' = enqueuing \cup {e} /\ UNCHANGED <<runs, attempts, claims>>
        /\ e[1] = o /\ e[2] = t /\ e[3] = runs[t].capture
    BY <2>2, <2>4 DEF EnqueueReplay, EnqueueCheck, tables
  <2>6. LedgerNamesEntries'
    BY <1>3, <1>4, <2>5 DEF LedgerNamesEntries, Holding
  <2>7. Enqueued'
    BY <1>3, <1>4, <1>5, <2>5 DEF LedgerNamesEntries, Enqueued
  <2>8. /\ s \in PodState /\ s.pc = "insert" /\ s.newest = r.newest
    BY <1>5, <2>1 DEF PodState
  <2>9. /\ \A u \in Instants : s.newest[u] <= Len(log'[u])
        /\ \E x \in enqueuing' : x[1] = o
    BY <1>3, <1>5, <2>5, <2>8
  <2>10. PodInv(o, s)'
    BY <1>3, <2>8, <2>9 DEF PodInv, PodState
  <2>11. \A v \in Operators : v # o =>
            ((\E x \in enqueuing' : x[1] = v) <=> (\E x \in enqueuing : x[1] = v))
    BY <2>5
  <2> QED BY <1>3, <2>2, <2>3, <2>5, <2>6, <2>7, <2>10, <2>11, PodCalls
<1>7. CASE PendingReplays(t) # {}
  <2>1. UNCHANGED ledgerVars
    BY <1>7 DEF Replay
  <2>2. CASE r.todo = {t}
    <3>1. pods' = [pods EXCEPT ![o] = PodOff]
      BY <1>1, <1>7, <2>2 DEF Replay
    <3>2. pods[o].pc \notin {"commit", "insert"}
      BY <1>1, <1>3
    <3> QED BY <1>3, <1>4, <2>1, <3>1, <3>2, OffRests, PodRests DEF Off
  <2>3. CASE r.todo # {t}
    <3>1. PICK s : s = [r EXCEPT !.todo = d]
      OBVIOUS
    <3>2. pods' = [pods EXCEPT ![o] = s]
      BY <1>1, <1>2, <1>7, <2>3, <3>1 DEF Replay, PipelineInv, Shape
    <3>3. s \in PodState /\ s.pc = "enqueue" /\ s.newest = r.newest
      BY <1>3, <1>5, <3>1 DEF PodState
    <3>4. /\ \A u \in Instants : s.newest[u] <= Len(log'[u])
          /\ ~\E e \in enqueuing' : e[1] = o
      BY <1>3, <1>5, <2>1, <3>3 DEF ledgerVars
    <3>5. PodInv(o, s)'
      BY <1>3, <3>3, <3>4 DEF PodInv, PodState
    <3> QED BY <1>3, <1>4, <2>1, <3>2, <3>5, PodReads
  <2> QED BY <2>2, <2>3
<1> QED BY <1>6, <1>7

LEMMA ReplayInsertedInv ==
    ASSUME PipelineInv, NEW o \in Operators, ReplayInserted(o)
    PROVE  PipelineInv' /\ [LedgerNext]_ledgerVars
<1>1. PICK r : r = pods[o]
  OBVIOUS
<1>2. PICK t : t = r.at
  OBVIOUS
<1>3. /\ r.pc = "insert" /\ InsertReplay(o, t) /\ o \in Sessions /\ o \notin Workers
      /\ UNCHANGED <<clock, log, decisions, invalid, fetchers, gap, count>>
  BY <1>1, <1>2 DEF ReplayInserted, Sessions
<1>4. /\ log \in [Instants -> Seq(Payloads)] /\ log' \in [Instants -> Seq(Payloads)]
      /\ LedgerTypeOK /\ LedgerNamesEntries /\ Enqueued
  BY <1>3 DEF PipelineInv, Shape, LedgerInv
<1>5. /\ r \in PodState /\ r.newest \in [Instants -> Nat] /\ t \in Instants
      /\ \A u \in Instants : r.newest[u] <= Len(log[u])
  BY <1>1, <1>2, <1>3, PodFacts DEF PodInv
<1>6. [LedgerNext]_ledgerVars
  BY <1>3, <1>5 DEF LedgerNext
<1>7. PICK c \in Captures : EnqueueInsert(o, t, c) /\ UNCHANGED claims
  BY <1>3 DEF InsertReplay
<1>8. PICK e : e = <<o, t, c>>
  OBVIOUS
<1>9. /\ e \in enqueuing /\ enqueuing' = enqueuing \ {e} /\ UNCHANGED runs
      /\ e[1] = o /\ e[2] = t /\ e[3] = c
  BY <1>7, <1>8 DEF EnqueueInsert
<1>10. LedgerNamesEntries'
  <2> DEFINE row == [run |-> t, kind |-> "replay", owner |-> Nobody, until |-> NoLease,
                     fence |-> NoFence, capture |-> c, outcome |-> "open"]
  <2>1. row.run = t /\ row.capture = c /\ NewRow(row)
    BY <1>7 DEF EnqueueInsert
  <2>2. c <= Len(log[t])
    BY <1>4, <1>9 DEF Enqueued
  <2> HIDE DEF row
  <2> QED BY <1>3, <1>4, <1>7, <1>9, <2>1, <2>2, NamesIfNewRow
<1>11. Enqueued'
  BY <1>3, <1>4, <1>9 DEF Enqueued
<1>12. ~\E x \in enqueuing' : x[1] = o
  BY <1>4, <1>9 DEF Enqueued
<1>13. \A v \in Operators : v # o =>
          ((\E x \in enqueuing' : x[1] = v) <=> (\E x \in enqueuing : x[1] = v))
  BY <1>9
<1>14. ASSUME NEW s, pods' = [pods EXCEPT ![o] = s], PodInv(o, s)' PROVE PipelineInv'
  BY <1>3, <1>6, <1>7, <1>10, <1>11, <1>13, <1>14, PodCalls
<1>15. CASE r.todo = {}
  <2>1. PICK s : s = PodOff
    OBVIOUS
  <2>2. pods' = [pods EXCEPT ![o] = s]
    BY <1>1, <1>15, <2>1 DEF ReplayInserted, PipelineInv, Shape
  <2>3. PodInv(o, s)'
    BY <1>3, <1>4, <1>12, <2>1, OffRests, RestingPod DEF Off
  <2> QED BY <1>6, <1>14, <2>2, <2>3
<1>16. CASE r.todo # {}
  <2>1. PICK s : s = [r EXCEPT !.pc = "enqueue"]
    OBVIOUS
  <2>2. pods' = [pods EXCEPT ![o] = s]
    BY <1>1, <1>16, <2>1 DEF ReplayInserted, PipelineInv, Shape
  <2>3. s \in PodState /\ s.pc = "enqueue" /\ s.newest = r.newest
    BY <1>5, <2>1 DEF PodState
  <2>4. \A u \in Instants : s.newest[u] <= Len(log'[u])
    BY <1>3, <1>5, <2>3
  <2>5. PodInv(o, s)'
    BY <1>3, <1>12, <2>3, <2>4 DEF PodInv, PodState
  <2> QED BY <1>6, <1>14, <2>2, <2>5
<1> QED BY <1>15, <1>16

------------------------------------------------------------------------------
(* The gap detector, invalidations and time.                               *)

LEMMA GapListInv ==
    ASSUME PipelineInv, GapList PROVE PipelineInv'
<1> DEFINE entry == [t \in Instants |-> Len(log[t])]
<1>1. /\ UNCHANGED ledgerVars
      /\ UNCHANGED <<clock, log, decisions, invalid, fetchers, pods, count>>
      /\ gap' = [gap EXCEPT !.pc = "runs", !.todo = GapInstants, !.entry = entry]
  BY DEF GapList
<1>2. /\ log \in [Instants -> Seq(Payloads)] /\ gap \in GapState
      /\ GapInstants \in SUBSET Instants
  BY DEF PipelineInv, Shape, GapInv, GapInstants
<1>3. entry \in [Instants -> Nat] /\ \A t \in Instants : entry[t] <= Len(log'[t])
  <2>1. \A t \in Instants : Len(log[t]) \in Nat
    BY <1>2
  <2>2. entry \in [Instants -> Nat] /\ \A t \in Instants : entry[t] = Len(log[t])
    BY <2>1
  <2> HIDE DEF entry
  <2> QED BY <1>1, <2>1, <2>2
<1> HIDE DEF entry
<1>4. gap' \in GapState /\ gap'.pc = "runs" /\ gap'.entry = entry
  BY <1>1, <1>2, <1>3 DEF GapState
<1>5. GapInv'
  BY <1>3, <1>4 DEF GapInv, GapState
<1>6. /\ clock' \in Times /\ invalid \subseteq decisions'
      /\ decisions' \subseteq Instants \X Captures
      /\ count' \in [{"fetches", "replays", "decisions", "faults"} -> Nat]
  BY <1>1 DEF PipelineInv, Shape
<1>7. LedgerNamesEntries'
  BY <1>1 DEF PipelineInv, LedgerNamesEntries, ledgerVars, Holding
<1> QED BY <1>1, <1>5, <1>6, <1>7, OthersMove DEF ledgerVars

LEMMA GapRunsInv ==
    ASSUME PipelineInv, GapRuns PROVE PipelineInv'
<1> DEFINE state == [t \in Instants |-> runs[t].state]
<1>1. /\ UNCHANGED ledgerVars
      /\ UNCHANGED <<clock, log, decisions, invalid, fetchers, pods, count>>
      /\ gap' = [gap EXCEPT !.pc = "act", !.state = state]
  BY DEF GapRuns
<1>2. /\ gap \in GapState /\ GapInv /\ runs \in [Instants -> Run]
  BY DEF PipelineInv, GapInv, LedgerInv, LedgerTypeOK
<1>3. /\ state \in [Instants -> RunState]
      /\ \A t \in Instants : state[t] # "absent" => runs'[t].state # "absent"
  BY <1>1, <1>2 DEF Run, ledgerVars
<1> HIDE DEF state
<1>4. /\ gap' \in GapState /\ gap'.pc = "act" /\ gap'.state = state
      /\ gap'.entry = gap.entry
  BY <1>1, <1>2, <1>3 DEF GapState
<1>5. GapInv'
  BY <1>1, <1>2, <1>3, <1>4 DEF GapInv, GapState, Exists
<1>6. /\ clock' \in Times /\ invalid \subseteq decisions'
      /\ decisions' \subseteq Instants \X Captures
      /\ count' \in [{"fetches", "replays", "decisions", "faults"} -> Nat]
  BY <1>1 DEF PipelineInv, Shape
<1>7. LedgerNamesEntries'
  BY <1>1 DEF PipelineInv, LedgerNamesEntries, ledgerVars, Holding
<1> QED BY <1>1, <1>5, <1>6, <1>7, OthersMove DEF ledgerVars

\* Each action of the gap detector is a step of the ledger, and the capture it
\* names is the newest entry it had listed.
LEMMA GapActionSteps ==
    ASSUME PipelineInv, NEW t \in Instants, NEW recoverable \in BOOLEAN,
           gap.pc = "act", GapAction(t, recoverable), UNCHANGED <<claims, enqueuing, log>>
    PROVE  [LedgerNext]_ledgerVars /\ LedgerNamesEntries'
<1>1. PICK kind : kind = IF recoverable THEN "missing_capture" ELSE "unrecoverable"
  OBVIOUS
<1>2. kind \in {"missing_capture", "unrecoverable"}
  BY <1>1
<1>3. \/ gap.entry[t] # NoCapture /\ ensure_run(t, "captured", gap.entry[t])
      \/ ensure_run(t, kind, NoCapture)
      \/ gap.state[t] # "absent" /\ set_state(t, kind)
      \/ UNCHANGED tables
  BY <1>1 DEF GapAction
<1>4. /\ log \in [Instants -> Seq(Payloads)] /\ LedgerTypeOK /\ LedgerNamesEntries
      /\ GapInv /\ gap.entry \in [Instants -> Nat] /\ gap.entry[t] \in Nat
  BY DEF PipelineInv, Shape, LedgerInv, GapInv, GapState
<1>5. Len(log[t]) \in Nat /\ gap.entry[t] <= Len(log[t])
  BY <1>4 DEF GapInv
<1>6. CASE gap.entry[t] # NoCapture /\ ensure_run(t, "captured", gap.entry[t])
  <2>1. gap.entry[t] \in Captures
    BY <1>4, <1>5, <1>6, EntriesAreCaptures
  <2>2. EnsureRun(t)
    BY <1>6, <2>1 DEF EnsureRun
  <2>3. LedgerNamesEntries'
    BY <1>4, <1>5, <1>6, NamesIfEnsured
  <2> QED BY <2>2, <2>3 DEF LedgerNext
<1>7. CASE ensure_run(t, kind, NoCapture)
  <2>1. EnsureRun(t)
    BY <1>2, <1>7 DEF EnsureRun
  <2>2. NoCapture <= Len(log[t])
    BY <1>5 DEF NoCapture
  <2>3. LedgerNamesEntries'
    BY <1>4, <1>7, <2>2, NamesIfEnsured
  <2> QED BY <2>1, <2>3 DEF LedgerNext
<1>8. CASE gap.state[t] # "absent" /\ set_state(t, kind)
  <2>1. Exists(t)
    BY <1>4, <1>8 DEF GapInv
  <2>2. SetState(t)
    BY <1>2, <1>8, <2>1 DEF SetState
  <2>3. LedgerNamesEntries'
    BY <1>4, <1>8, NamesIfStateSet
  <2> QED BY <2>2, <2>3 DEF LedgerNext
<1>9. CASE UNCHANGED tables
  BY <1>4, <1>9 DEF tables, ledgerVars, LedgerNamesEntries, Holding
<1> QED BY <1>3, <1>6, <1>7, <1>8, <1>9

LEMMA GapActInv ==
    ASSUME PipelineInv, NEW t \in Instants, NEW recoverable \in BOOLEAN,
           GapAct(t, recoverable)
    PROVE  PipelineInv' /\ [LedgerNext]_ledgerVars
<1>1. /\ gap.pc = "act" /\ GapAction(t, recoverable)
      /\ UNCHANGED <<claims, enqueuing, clock, log, decisions, invalid, fetchers, pods, count>>
      /\ gap' = IF gap.todo = {t} THEN GapOff ELSE [gap EXCEPT !.todo = @ \ {t}]
  BY DEF GapAct
<1>2. [LedgerNext]_ledgerVars /\ LedgerNamesEntries'
  BY <1>1, GapActionSteps
<1>3. RunsStay
  BY <1>2, RunsStayThere DEF PipelineInv
<1>4. log \in [Instants -> Seq(Payloads)] /\ GapInv /\ gap \in GapState
      /\ gap.entry \in [Instants -> Nat] /\ gap.state \in [Instants -> RunState]
  BY DEF PipelineInv, Shape, GapInv, GapState
<1>5. \A u \in Instants : Len(log'[u]) \in Nat
  BY <1>1, <1>4
<1>6. GapInv'
  <2>1. CASE gap.todo = {t}
    <3> DEFINE none == [u \in Instants |-> NoCapture]
               gone == [u \in Instants |-> "absent"]
    <3>1. /\ none \in [Instants -> Nat] /\ gone \in [Instants -> RunState]
          /\ \A u \in Instants : none[u] = 0
      BY DEF NoCapture, RunState
    <3>2. gap' = [pc |-> Off, todo |-> {}, entry |-> none, state |-> gone]
      BY <1>1, <2>1 DEF GapOff
    <3> HIDE DEF none, gone
    <3>3. gap' \in GapState /\ gap'.pc # "act" /\ gap'.entry = none
      BY <3>1, <3>2 DEF GapState, Off
    <3>4. GapInv'
      BY <1>5, <3>1, <3>3 DEF GapInv, GapState
    <3> QED BY <3>4
  <2>2. CASE gap.todo # {t}
    <3>1. PICK d : d = gap.todo \ {t}
      OBVIOUS
    <3>2. gap' = [gap EXCEPT !.todo = d] /\ d \in SUBSET Instants
      BY <1>1, <1>4, <2>2, <3>1 DEF GapState
    <3>3. gap' \in GapState /\ gap'.entry = gap.entry /\ gap'.state = gap.state
      BY <1>4, <3>2 DEF GapState
    <3>4. /\ \A u \in Instants : gap'.entry[u] <= Len(log'[u])
          /\ \A u \in Instants : gap'.state[u] # "absent" => Exists(u)'
      BY <1>1, <1>3, <1>4, <3>3 DEF GapInv, RunsStay, Exists
    <3>5. GapInv'
      BY <3>3, <3>4 DEF GapInv, GapState
    <3> QED BY <3>5
  <2> QED BY <2>1, <2>2
<1>7. /\ clock' \in Times /\ invalid \subseteq decisions'
      /\ decisions' \subseteq Instants \X Captures
      /\ count' \in [{"fetches", "replays", "decisions", "faults"} -> Nat]
  BY <1>1 DEF PipelineInv, Shape
<1> QED BY <1>1, <1>2, <1>6, <1>7, OthersMove

LEMMA InvalidateInv ==
    ASSUME PipelineInv, NEW t \in Instants, NEW c \in DOMAIN log[t], Invalidate(t, c)
    PROVE  PipelineInv'
<1>1. /\ UNCHANGED ledgerVars /\ UNCHANGED <<clock, log, invalid, fetchers, pods, gap>>
      /\ decisions' = decisions \cup {<<t, c>>}
      /\ count' = [count EXCEPT !["decisions"] = @ + 1]
  BY DEF Invalidate, Counted
<1>2. /\ log \in [Instants -> Seq(Payloads)] /\ clock' \in Times
      /\ invalid \subseteq decisions /\ decisions \subseteq Instants \X Captures
      /\ count \in [{"fetches", "replays", "decisions", "faults"} -> Nat]
      /\ GapInv
  BY <1>1 DEF PipelineInv, Shape
<1>3. /\ count' \in [{"fetches", "replays", "decisions", "faults"} -> Nat]
      /\ count'["fetches"] = count["fetches"]
  BY <1>1, <1>2
<1>4. Len(log[t]) \in Nat /\ DOMAIN log[t] = 1 .. Len(log[t])
  BY <1>2
<1>5. c \in Nat /\ c # NoCapture /\ c <= Len(log[t])
  BY <1>4 DEF NoCapture
<1>6. c \in Captures
  BY <1>5, EntriesAreCaptures
<1>7. invalid \subseteq decisions' /\ decisions' \subseteq Instants \X Captures
  BY <1>1, <1>2, <1>6
<1>8. GapInv'
  BY <1>1, <1>2 DEF GapInv, GapState, Exists, ledgerVars
<1>9. LedgerNamesEntries'
  BY <1>1 DEF PipelineInv, LedgerNamesEntries, ledgerVars, Holding
<1> QED BY <1>1, <1>2, <1>3, <1>7, <1>8, <1>9, OthersMove DEF ledgerVars

LEMMA TickInv ==
    ASSUME PipelineInv, Tick PROVE PipelineInv'
<1>1. /\ UNCHANGED ledgerVars /\ clock' \in Times
      /\ UNCHANGED <<log, decisions, invalid, fetchers, pods, gap, count>>
  BY DEF Tick
<1>2. /\ invalid \subseteq decisions' /\ decisions' \subseteq Instants \X Captures
      /\ count' \in [{"fetches", "replays", "decisions", "faults"} -> Nat]
      /\ GapInv
  BY <1>1 DEF PipelineInv, Shape
<1>3. GapInv'
  BY <1>1, <1>2 DEF GapInv, GapState, Exists, ledgerVars
<1>4. LedgerNamesEntries'
  BY <1>1 DEF PipelineInv, LedgerNamesEntries, ledgerVars, Holding
<1> QED BY <1>1, <1>2, <1>3, <1>4, OthersMove DEF ledgerVars

------------------------------------------------------------------------------
(* The theorems.                                                           *)

\* Nothing has been captured and nobody runs: the invariant holds.
LEMMA PipelineInit == Init => PipelineInv
<1> SUFFICES ASSUME Init PROVE PipelineInv
  OBVIOUS
<1>1. LedgerInv /\ LedgerTypeOK
  BY InvInit DEF Init, LedgerInv
<1>2. /\ log = [t \in Instants |-> <<>>] /\ decisions = {} /\ invalid = {}
      /\ clock \in Times /\ enqueuing = {}
      /\ fetchers = [f \in Fetchers |-> FetcherOff] /\ pods = [w \in Sessions |-> PodOff]
      /\ count = [e \in {"fetches", "replays", "decisions", "faults"} |-> 0]
      /\ \A t \in Instants : ~Exists(t)
      /\ \A w \in Workers : ~Holding(w)
  BY DEF Init, LedgerInit, Exists, Holding, NoRun, NoClaim
<1>3. log \in [Instants -> Seq(Payloads)] /\ \A t \in Instants : Len(log[t]) = 0
  BY <1>2
<1>4. Shape
  BY <1>2, <1>3 DEF Shape
<1>5. Numbered
  <2>1. FetcherOff.pc # "fetch"
    BY DEF FetcherOff, Off
  <2>2. Fetching = {}
    BY <1>2, <2>1 DEF Fetching
  <2>3. Cardinality(Fetching) = 0
    BY <2>2, FS_EmptySet
  <2> QED BY <1>2, <1>3, <2>3 DEF Numbered
<1>6. LedgerNamesEntries /\ Enqueued
  <2>1. /\ \A t \in Instants : runs[t] = NoRun
        /\ \A i \in AttemptIds : attempts[i] = NoAttempt
    BY DEF Init, LedgerInit
  <2>2. NoRun.capture = 0 /\ NoAttempt.capture = 0 /\ NoAttempt.run \in Instants
    BY NullRows DEF NoRun, NoAttempt, NoCapture
  <2> QED BY <1>2, <1>3, <2>1, <2>2 DEF LedgerNamesEntries, Enqueued
<1>7. \A f \in Fetchers : FetcherInv(fetchers[f])
  BY <1>2, <1>3, FetcherOffOk
<1>8. ASSUME NEW w \in Sessions PROVE PodInv(w, pods[w])
  <2>1. PICK s : s = pods[w]
    OBVIOUS
  <2>2. s \in PodState /\ s.pc = "off" /\ s.todo = {} /\ \A t \in Instants : s.newest[t] = 0
    BY <1>2, <2>1, OffRests DEF RestsAt, Off
  <2>3. ASSUME NEW t \in Instants PROVE s.newest[t] <= Len(log[t])
    <3>1. Len(log[t]) = 0 /\ s.newest[t] = 0
      BY <1>3, <2>2
    <3> QED BY <3>1
  <2>4. PodInv(w, s)
    BY <1>2, <2>2, <2>3 DEF PodInv, Off
  <2> QED BY <2>1, <2>4
<1>9. GapInv
  <2> DEFINE none == [u \in Instants |-> NoCapture]
             gone == [u \in Instants |-> "absent"]
  <2>1. /\ none \in [Instants -> Nat] /\ gone \in [Instants -> RunState]
        /\ \A u \in Instants : none[u] = 0
    BY DEF NoCapture, RunState
  <2>2. gap = [pc |-> Off, todo |-> {}, entry |-> none, state |-> gone]
    BY DEF Init, GapOff
  <2> HIDE DEF none, gone
  <2>3. gap \in GapState /\ gap.pc # "act" /\ gap.entry = none
    BY <2>1, <2>2 DEF GapState, Off
  <2> QED BY <1>3, <2>1, <2>3 DEF GapInv
<1> QED BY <1>1, <1>4, <1>5, <1>6, <1>7, <1>8, <1>9 DEF PipelineInv

\* Every step keeps the invariant, and the ledger sees a step of its own.
LEMMA PipelineStep ==
    PipelineInv /\ [Next]_vars => PipelineInv' /\ [LedgerNext]_ledgerVars
<1> SUFFICES ASSUME PipelineInv, [Next]_vars
             PROVE  PipelineInv' /\ [LedgerNext]_ledgerVars
  OBVIOUS
<1>1. ASSUME NEW f \in Fetchers, NEW t \in Instants, NEW force \in BOOLEAN,
             FetchStart(f, t, force)
      PROVE  PipelineInv' /\ [LedgerNext]_ledgerVars
  BY <1>1, FetchStartInv DEF FetchStart
<1>2. ASSUME NEW f \in Fetchers, FetcherStep(f) \/ FetcherStops(f)
      PROVE  PipelineInv' /\ [LedgerNext]_ledgerVars
  <2>1. ASSUME NEW p \in Payloads, FetchOk(f, p)
        PROVE  PipelineInv' /\ [LedgerNext]_ledgerVars
    BY <2>1, FetchOkInv DEF FetchOk
  <2>2. CASE FetchFailed(f)
    BY <2>2, FetchFailedInv DEF FetchFailed
  <2>3. CASE FetcherStops(f)
    BY <2>3, FetcherStopsInv DEF FetcherStops
  <2> QED BY <1>2, <2>1, <2>2, <2>3, AckEnsureInv, AckMarkInv, AckRecordInv DEF FetcherStep
<1>3. ASSUME NEW w \in Sessions, NEW seen, Reconcile(w, seen),
             UNCHANGED count \/ Counted("replays", MaxReplays)
      PROVE  PipelineInv' /\ [LedgerNext]_ledgerVars
  <2>1. count \in [{"fetches", "replays", "decisions", "faults"} -> Nat]
    BY DEF PipelineInv, Shape
  <2>2. /\ count' \in [{"fetches", "replays", "decisions", "faults"} -> Nat]
        /\ count'["fetches"] = count["fetches"]
    BY <1>3, <2>1 DEF Counted
  <2> QED BY <1>3, <2>2, ReconcileInv DEF Reconcile
<1>4. ASSUME NEW w \in Workers, PodStep(w) \/ PodStops(w)
      PROVE  PipelineInv' /\ [LedgerNext]_ledgerVars
  <2>1. w \in Sessions
    BY DEF Sessions
  <2>2. CASE ReconcileList(w)
    BY <1>3, <2>1, <2>2 DEF ReconcileList
  <2>3. CASE ListPending(w)
    BY <2>3, ListPendingInv DEF ListPending
  <2>4. CASE ReconcileAdvance(w)
    BY <2>1, <2>4, ReconcileAdvanceInv
  <2>5. ASSUME NEW t \in Instants, ReconcileEnsure(w, t)
        PROVE  PipelineInv' /\ [LedgerNext]_ledgerVars
    BY <2>1, <2>5, ReconcileEnsureInv
  <2>6. ASSUME NEW t \in Instants, ClaimNext(w, t)
        PROVE  PipelineInv' /\ [LedgerNext]_ledgerVars
    BY <2>6, ClaimNextInv
  <2>7. CASE CommitClaimed(w)
    BY <2>7, CommitClaimedInv
  <2>8. CASE PodStops(w)
    BY <2>8, PodStopsInv
  <2> QED BY <1>4, <2>2, <2>3, <2>4, <2>5, <2>6, <2>7, <2>8 DEF PodStep
<1>5. CASE GapStep
  <2>1. CASE GapList
    BY <2>1, GapListInv DEF GapList
  <2>2. CASE GapRuns
    BY <2>2, GapRunsInv DEF GapRuns
  <2> QED BY <1>5, <2>1, <2>2, GapActInv DEF GapStep
<1>6. ASSUME NEW o \in Operators, SessionStep(o)
      PROVE  PipelineInv' /\ [LedgerNext]_ledgerVars
  <2>1. o \in Sessions
    BY DEF Sessions
  <2>2. CASE ReplayRange(o)
    BY <1>3, <2>1, <2>2 DEF ReplayRange
  <2>3. CASE SessionStops(o)
    BY <2>3, SessionStopsInv DEF SessionStops
  <2>4. ASSUME NEW R \in SUBSET Instants, ReplayRuns(o, R)
        PROVE  PipelineInv' /\ [LedgerNext]_ledgerVars
    BY <2>4, ReplayRunsInv DEF ReplayRuns
  <2>5. ASSUME NEW R \in SUBSET Instants, ReplayDerivation(o, R)
        PROVE  PipelineInv' /\ [LedgerNext]_ledgerVars
    BY <2>5, ReplayDerivationInv DEF ReplayDerivation
  <2>6. CASE ReconcileAdvance(o)
    BY <2>1, <2>6, ReconcileAdvanceInv
  <2>7. ASSUME NEW t \in Instants, ReconcileEnsure(o, t) \/ Replay(o, t)
        PROVE  PipelineInv' /\ [LedgerNext]_ledgerVars
    BY <2>1, <2>7, ReconcileEnsureInv, ReplayInv
  <2>8. CASE ReplayInserted(o)
    BY <2>8, ReplayInsertedInv
  <2> QED BY <1>6, <2>2, <2>3, <2>4, <2>5, <2>6, <2>7, <2>8 DEF SessionStep
<1>7. ASSUME NEW t \in Instants, NEW c \in DOMAIN log[t], Invalidate(t, c)
      PROVE  PipelineInv' /\ [LedgerNext]_ledgerVars
  BY <1>7, InvalidateInv DEF Invalidate
<1>8. CASE Tick
  BY <1>8, TickInv DEF Tick
<1>9. CASE UNCHANGED vars
  <2>1. UNCHANGED ledgerVars /\ UNCHANGED pipelineVars
    BY <1>9 DEF vars
  <2>2. UNCHANGED <<clock, log, decisions, invalid, fetchers, pods, gap, count>>
    BY <2>1 DEF pipelineVars
  <2>3. GapInv'
    BY <2>1, <2>2 DEF PipelineInv, GapInv, GapState, Exists, ledgerVars
  <2>4. LedgerNamesEntries'
    BY <2>1, <2>2 DEF PipelineInv, LedgerNamesEntries, ledgerVars, Holding
  <2>5. /\ clock' \in Times /\ invalid \subseteq decisions'
        /\ decisions' \subseteq Instants \X Captures
        /\ count' \in [{"fetches", "replays", "decisions", "faults"} -> Nat]
    BY <2>2 DEF PipelineInv, Shape
  <2> QED BY <2>1, <2>2, <2>3, <2>4, <2>5, OthersMove DEF ledgerVars
<1> QED BY <1>1, <1>2, <1>4, <1>5, <1>6, <1>7, <1>8, <1>9 DEF Next

\* The inductive invariant holds in every reachable state.
THEOREM PipelineInvariant == Spec => []PipelineInv
  BY PipelineInit, PipelineStep, PTL DEF Spec

\* The verbs use the ledger as its most general client may: whatever the pods,
\* the sessions and the gap detector do, in any order and however they die, the
\* tables go through a behaviour of LedgerSpec.
THEOREM PipelineImplementsLedger == Spec => LedgerSpec
<1>1. Init => LedgerInit
  BY DEF Init
<1> QED
  BY <1>1, PipelineInvariant, PipelineStep, PTL DEF Spec, LedgerSpec

\* Bronze comes first: whatever capture the ledger names, in a run, in an
\* attempt or in the hands of a worker, is an entry of the capture log
\* (ADR-024 section 1).
THEOREM LedgerNamesOnlyEntries == Spec => []LedgerNamesEntries
<1>1. PipelineInv => LedgerNamesEntries
  BY DEF PipelineInv
<1> QED
  BY <1>1, PipelineInvariant, PTL

\* So no two pods of process can both commit a run they believe they hold.
THEOREM PodsCommitExclusively == Spec => []SingleCommitter
  BY PipelineImplementsLedger, CommitsAreExclusive, PTL

\* Nor does process ever mark a run processed on a capture it did not read.
THEOREM PodsProcessTheNamedCapture == Spec => []ProcessedIsTheNamedCapture
  BY PipelineImplementsLedger, ProcessedNamesItsCapture, PTL

\* The pods are where the verbs' code can be: a worker is about to commit
\* exactly when it holds a claim, a session to insert exactly when its
\* statement is under way.
THEOREM PipelineTypeOK == Spec => []TypeOK
<1>1. PipelineInv => TypeOK
  <2> SUFFICES ASSUME PipelineInv PROVE TypeOK
    OBVIOUS
  <2>1. LedgerTypeOK /\ Shape
    BY DEF PipelineInv, LedgerInv
  <2>2. ASSUME NEW f \in Fetchers
        PROVE  /\ fetchers[f].pc \in {Off, "fetch", "ensure", "mark", "record"}
               /\ fetchers[f].pc = "mark" => fetchers[f].capture # NoCapture
    <3>1. FetcherInv(fetchers[f])
      BY DEF PipelineInv
    <3> QED BY <3>1 DEF FetcherInv, FetcherState
  <2>3. ASSUME NEW w \in Workers
        PROVE  /\ pods[w].pc \in {Off, "ensure", "advance", "pending", "claim", "commit"}
               /\ Holding(w) <=> pods[w].pc = "commit"
    <3>1. PodInv(w, pods[w])
      BY DEF PipelineInv, Sessions
    <3> QED BY <3>1 DEF PodInv
  <2>4. ASSUME NEW o \in Operators
        PROVE  /\ pods[o].pc \in {Off, "ensure", "advance", "replay", "enqueue", "insert"}
               /\ pods[o].pc = "insert" <=> \E e \in enqueuing : e[1] = o
    <3>1. PodInv(o, pods[o])
      BY DEF PipelineInv, Sessions
    <3> QED BY <3>1 DEF PodInv
  <2> QED BY <2>1, <2>2, <2>3, <2>4 DEF TypeOK, Shape
<1> QED
  BY <1>1, PipelineInvariant, PTL
==============================================================================
