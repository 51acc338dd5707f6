--------------------------- MODULE RunLedgerProofs ---------------------------
(***************************************************************************)
(* Theorems about the run ledger, for any number of instants, workers,     *)
(* operators, captures and clock readings and any bounds.                  *)
(***************************************************************************)
EXTENDS RunLedger, TLAPS

USE InstantsAssumption, CapturesAssumption, TimesAssumption, TtlAssumption,
    BoundsAssumption, NobodyAssumption

\* The NULL rows are rows: they have the types of their tables.
LEMMA NullRows ==
    /\ SomeInstant \in Instants
    /\ NoRun \in Run
    /\ NoAttempt \in RunAttempt
    /\ NoClaim \in Claim
<1>1. SomeInstant \in Instants
  BY DEF SomeInstant
<1> QED
  BY <1>1 DEF NoRun, NoAttempt, NoClaim, Run, RunAttempt, Claim, RunState,
     AttemptKind, AttemptOutcome, NoLease, NoFence, NoCapture, Nobody

\* What each Store method makes of a row is a row again.
LEMMA EnsuredRunType ==
    ASSUME NEW r \in Run
    PROVE  /\ \A c \in Captures : EnsuredRun(r, "captured", c) \in Run
           /\ \A s \in {"scheduled", "missing_capture", "unrecoverable"} :
                 EnsuredRun(r, s, NoCapture) \in Run
  BY NullRows DEF EnsuredRun, Run, RunState, NoRun, NoCapture

\* mark_recaptured makes a row of a row, for any capture.
LEMMA RecapturedRunType ==
    ASSUME NEW r \in Run, NEW c \in Captures PROVE RecapturedRun(r, c) \in Run
<1>1. r.fence + 1 \in Nat /\ NoLease \in Nat
  BY DEF Run, NoLease
<1> QED
  BY <1>1 DEF RecapturedRun, Run, RunState

\* claim makes a row of a row, for any worker and any clock reading.
LEMMA LeasedRunType ==
    ASSUME NEW r \in Run, NEW w \in Workers, NEW now \in Times
    PROVE  LeasedRun(r, w, now) \in Run
<1>1. now + Ttl \in Nat /\ r.fence + 1 \in Nat
  BY DEF Run
<1> QED
  BY <1>1 DEF LeasedRun, Run

\* The empty tables have the types of the migrations.
LEMMA TypeInit == LedgerInit => LedgerTypeOK
  BY NullRows DEF LedgerInit, LedgerTypeOK

\* Every method keeps the shape of the tables and of the claims.
LEMMA TypeStep == LedgerTypeOK /\ [LedgerNext]_ledgerVars => LedgerTypeOK'
<1> SUFFICES ASSUME LedgerTypeOK, [LedgerNext]_ledgerVars PROVE LedgerTypeOK'
  OBVIOUS
<1>1. ASSUME NEW t \in Instants, EnsureRun(t) PROVE LedgerTypeOK'
  <2>1. runs' \in [Instants -> Run]
    <3>1. CASE \E c \in Captures : ensure_run(t, "captured", c)
      <4>1. PICK c \in Captures : ensure_run(t, "captured", c)
        BY <3>1
      <4>2. EnsuredRun(runs[t], "captured", c) \in Run
        BY EnsuredRunType DEF LedgerTypeOK
      <4> QED BY <4>1, <4>2 DEF LedgerTypeOK, ensure_run
    <3>2. CASE \E s \in {"scheduled", "missing_capture", "unrecoverable"} :
                  ensure_run(t, s, NoCapture)
      <4>1. PICK s \in {"scheduled", "missing_capture", "unrecoverable"} :
                  ensure_run(t, s, NoCapture)
        BY <3>2
      <4>2. EnsuredRun(runs[t], s, NoCapture) \in Run
        BY EnsuredRunType DEF LedgerTypeOK
      <4> QED BY <4>1, <4>2 DEF LedgerTypeOK, ensure_run
    <3> QED BY <1>1, <3>1, <3>2 DEF EnsureRun
  <2> QED BY <1>1, <2>1 DEF EnsureRun, ensure_run, LedgerTypeOK
<1>2. ASSUME NEW t \in Instants, SetState(t) PROVE LedgerTypeOK'
  BY <1>2 DEF SetState, set_state, LedgerTypeOK, Run, RunState
<1>3. ASSUME NEW t \in Instants, MarkRecaptured(t) PROVE LedgerTypeOK'
  <2>1. PICK c \in Captures : mark_recaptured(t, c)
    BY <1>3 DEF MarkRecaptured
  <2>2. RecapturedRun(runs[t], c) \in Run
    BY RecapturedRunType DEF LedgerTypeOK
  <2> QED BY <1>3, <2>1, <2>2 DEF MarkRecaptured, mark_recaptured, LedgerTypeOK
<1>4. ASSUME NEW t \in Instants, RecordAttempt(t) PROVE LedgerTypeOK'
  <2>1. PICK o \in {"ok", "failed"}, c \in Captures \cup {NoCapture} :
            record_attempt(t, o, c)
    BY <1>4 DEF RecordAttempt
  <2>2. [run |-> t, kind |-> "fetch", owner |-> Nobody, until |-> NoLease,
         fence |-> NoFence, capture |-> c, outcome |-> o] \in RunAttempt
    BY DEF RunAttempt, AttemptKind, AttemptOutcome, NoLease, NoFence
  <2>3. used + 1 \in Nat /\ used + 1 \in AttemptIds
    BY <2>1 DEF record_attempt, NewRow, LedgerTypeOK, AttemptIds
  <2>4. attempts' \in [AttemptIds -> RunAttempt] /\ used' \in 0 .. MaxAttempts
    BY <2>1, <2>2, <2>3 DEF record_attempt, NewRow, LedgerTypeOK, AttemptIds
  <2> QED BY <1>4, <2>1, <2>4 DEF RecordAttempt, record_attempt, LedgerTypeOK
<1>5. ASSUME NEW w \in Workers, NEW t \in Instants, ClaimRun(w, t)
      PROVE  LedgerTypeOK'
  <2>1. PICK now \in Times : claim(w, t, now)
    BY <1>5 DEF ClaimRun
  <2>2. ASSUME NEW i \in AttemptIds, NEW kind \in {"replay", "process"},
               ClaimRow(w, t, now, i, kind)
        PROVE  /\ runs' \in [Instants -> Run]
               /\ attempts' \in [AttemptIds -> RunAttempt]
               /\ claims' \in [Workers -> Claim]
    <3>1. LeasedRun(runs[t], w, now) \in Run
      BY LeasedRunType DEF LedgerTypeOK
    <3>2. LeasedAttempt(t, kind, w, now) \in RunAttempt
      <4>1. now + Ttl \in Nat /\ runs[t].fence + 1 \in Nat
            /\ runs[t].capture \in Captures \cup {NoCapture}
        BY DEF LedgerTypeOK, Run
      <4> QED
        BY <4>1 DEF LeasedAttempt, RunAttempt, AttemptKind, AttemptOutcome
    <3>3. Closed(t, now) \in [AttemptIds -> RunAttempt]
      BY DEF LedgerTypeOK, Closed, RunAttempt, AttemptOutcome
    <3> QED BY <2>2, <3>1, <3>2, <3>3 DEF ClaimRow, LedgerTypeOK, Claim, Run
  <2>3. CASE \E i \in AttemptIds : /\ IsLeastPending(i, t)
                                   /\ ClaimRow(w, t, now, i, "replay")
                                   /\ UNCHANGED used
    BY <1>5, <2>2, <2>3 DEF ClaimRun, LedgerTypeOK
  <2>4. CASE /\ used < MaxAttempts
             /\ used' = used + 1
             /\ ClaimRow(w, t, now, used + 1,
                      IF DeadReplays(t, now) # {} THEN "replay" ELSE "process")
    <3>1. used + 1 \in AttemptIds /\ used' \in 0 .. MaxAttempts
      BY <2>4 DEF LedgerTypeOK, AttemptIds
    <3> QED BY <1>5, <2>2, <2>4, <3>1 DEF ClaimRun, LedgerTypeOK
  <2> QED BY <2>1, <2>3, <2>4 DEF claim
<1>6. ASSUME NEW w \in Workers, Renew(w) PROVE LedgerTypeOK'
  <2>1. PICK now \in Times : renew(w, now)
    BY <1>6 DEF Renew
  <2>2. now + Ttl \in Nat /\ enqueuing' = enqueuing
    BY <1>6 DEF Renew
  <2>3. [runs[claims[w].run] EXCEPT !.until = now + Ttl] \in Run
        \/ claims[w].run \notin Instants
    BY <2>2 DEF LedgerTypeOK, Run
  <2> QED BY <2>1, <2>2, <2>3 DEF renew, LedgerTypeOK
<1>7. ASSUME NEW w \in Workers, CommitRun(w) PROVE LedgerTypeOK'
  <2>1. ASSUME NEW s \in {"processed", "failed"},
               NEW o \in {"ok", "failed", "quarantined"}, CommitFresh(w, s, o)
        PROVE  LedgerTypeOK'
    <3>1. claims[w].id \in AttemptIds /\ claims[w].run \in Instants
      BY <2>1 DEF CommitFresh, Fresh, Holding, LedgerTypeOK, Claim
    <3> QED
      BY <1>7, <2>1, <3>1, NullRows DEF CommitRun, CommitFresh, LedgerTypeOK,
         Run, RunState, RunAttempt, AttemptOutcome, NoLease
  <2>2. CASE CommitStale(w)
    BY <1>7, <2>2, NullRows DEF CommitRun, CommitStale, Holding, LedgerTypeOK,
       Claim, RunAttempt, AttemptOutcome
  <2> QED BY <1>7, <2>1, <2>2 DEF CommitRun
<1>8. ASSUME NEW w \in Workers, Crash(w) PROVE LedgerTypeOK'
  BY <1>8, NullRows DEF Crash, LedgerTypeOK
<1>9. ASSUME NEW o \in Operators, NEW t \in Instants, EnqueueReplay(o, t)
      PROVE  LedgerTypeOK'
  BY <1>9 DEF EnqueueReplay, EnqueueCheck, tables, LedgerTypeOK, Run, NoCapture
<1>10. ASSUME NEW o \in Operators, NEW t \in Instants, InsertReplay(o, t)
       PROVE  LedgerTypeOK'
  BY <1>10 DEF InsertReplay, EnqueueInsert, NewRow, LedgerTypeOK, RunAttempt,
     AttemptKind, AttemptOutcome, NoLease, NoFence, AttemptIds
<1>11. CASE UNCHANGED ledgerVars
  BY <1>11 DEF ledgerVars, LedgerTypeOK
<1> QED
  BY <1>1, <1>2, <1>3, <1>4, <1>5, <1>6, <1>7, <1>8, <1>9, <1>10, <1>11
     DEF LedgerNext

\* Type correctness of the ledger under its most general client.
THEOREM LedgerTypeCorrect == LedgerSpec => []LedgerTypeOK
  BY TypeInit, TypeStep, PTL DEF LedgerSpec

------------------------------------------------------------------------------
(* The inductive invariant.                                                *)

\* The empty ledger satisfies the inductive invariant.
LEMMA InvInit == LedgerInit => LedgerInv
<1> SUFFICES ASSUME LedgerInit PROVE LedgerInv
  OBVIOUS
<1>1. LedgerTypeOK
  BY TypeInit
<1>2. \A t \in Instants : runs[t] = NoRun
  BY DEF LedgerInit
<1>3. \A i \in AttemptIds : attempts[i] = NoAttempt
  BY DEF LedgerInit
<1>4. \A w \in Workers : ~Holding(w)
  BY DEF LedgerInit, Holding, NoClaim
<1>5. RowsAllocated
  BY <1>2, <1>3 DEF LedgerInit, RowsAllocated, AttemptIds, Exists, NoRun
<1>6. FencesIdentifyClaims
  BY <1>2, <1>3, NullRows DEF FencesIdentifyClaims, NoRun, NoAttempt, NoFence
<1>7. ClaimsAreBacked /\ FreshClaimIsCurrent
  BY <1>4 DEF ClaimsAreBacked, FreshClaimIsCurrent, Fresh
<1>8. LeaseHasAnAttempt /\ ProcessedIsTheNamedCapture /\ FenceLeavesWork
  BY <1>2 DEF LeaseHasAnAttempt, ProcessedIsTheNamedCapture, FenceLeavesWork,
     NoRun
<1>9. LostLeaseIsSuperseded
  BY <1>3 DEF LostLeaseIsSuperseded, NoAttempt
<1> QED
  BY <1>1, <1>5, <1>6, <1>7, <1>8, <1>9 DEF LedgerInv

\* A step that touches only runs, keeps fences and owners, leases nothing that
\* was not leased, and neither replaces a capture a run names nor makes a run
\* processed.
LEMMA SameFenceStep ==
    ASSUME LedgerInv, LedgerTypeOK', UNCHANGED <<attempts, used, claims, enqueuing>>,
           \A u \in Instants :
               /\ runs'[u].fence = runs[u].fence
               /\ runs'[u].owner = runs[u].owner
               /\ runs'[u].until = NoLease <=> runs[u].until = NoLease
               /\ runs[u].capture # NoCapture => runs'[u].capture = runs[u].capture
               /\ runs'[u].state = "processed" => runs[u].state = "processed"
               /\ runs[u].state # "absent" => runs'[u].state # "absent"
               /\ runs'[u].state = "absent" => runs'[u] = runs[u]
               /\ \/ runs'[u].state = runs[u].state
                  \/ runs'[u].state \in
                        {"captured", "missing_capture", "unrecoverable"}
                  \/ runs[u].fence = 0
    PROVE  LedgerInv'
<1> USE DEF LedgerInv
<1>0. \A w \in Workers : claims[w].run \in Instants /\ Fresh(w)' = Fresh(w)
  BY DEF LedgerTypeOK, Claim, Fresh, Holding
<1>1. RowsAllocated'
  <2>1. \A e \in enqueuing : e[2] \in Instants
    BY DEF LedgerTypeOK
  <2> QED BY <2>1 DEF RowsAllocated, Exists, LedgerTypeOK, RunAttempt
<1>2. FencesIdentifyClaims'
  BY DEF FencesIdentifyClaims, LedgerTypeOK, RunAttempt
<1>3. ClaimsAreBacked'
  BY DEF ClaimsAreBacked, Holding
<1>4. FreshClaimIsCurrent'
  BY <1>0 DEF FreshClaimIsCurrent, Fresh, Holding
<1>5. LeaseHasAnAttempt'
  BY DEF LeaseHasAnAttempt
<1>6. ProcessedIsTheNamedCapture'
  BY DEF ProcessedIsTheNamedCapture, LastOk
<1>7. FenceLeavesWork'
  BY DEF FenceLeavesWork
<1>8. LostLeaseIsSuperseded'
  BY DEF LostLeaseIsSuperseded, LedgerTypeOK, RunAttempt
<1> QED
  BY <1>1, <1>2, <1>3, <1>4, <1>5, <1>6, <1>7, <1>8

\* ensure_run keeps the invariant: it names a capture only where none was named.
LEMMA EnsureRunInv ==
    ASSUME LedgerInv, LedgerTypeOK', NEW t \in Instants, EnsureRun(t)
    PROVE  LedgerInv'
<1>1. PICK s \in {"captured", "scheduled", "missing_capture", "unrecoverable"},
           c \in Captures \cup {NoCapture} : ensure_run(t, s, c)
  BY DEF EnsureRun
<1>2. runs[t] \in Run /\ (runs[t].state = "absent" => runs[t] = NoRun)
  BY DEF LedgerInv, LedgerTypeOK, RowsAllocated, Exists
<1>3. runs'[t] = EnsuredRun(runs[t], s, c)
      /\ \A u \in Instants : u # t => runs'[u] = runs[u]
  BY <1>1 DEF ensure_run, LedgerInv, LedgerTypeOK
<1>4. CASE runs[t].state = "absent"
  <2>1. runs[t] = NoRun /\ runs'[t] = [NoRun EXCEPT !.state = s, !.capture = c]
    BY <1>2, <1>3, <1>4 DEF EnsuredRun
  <2>2. /\ runs'[t].fence = 0 /\ runs[t].fence = 0
        /\ runs'[t].owner = Nobody /\ runs[t].owner = Nobody
        /\ runs'[t].until = NoLease /\ runs[t].until = NoLease
        /\ runs[t].capture = NoCapture
        /\ runs'[t].state = s
    BY <2>1 DEF NoRun
  <2> QED
    BY <1>1, <1>3, <2>2, SameFenceStep DEF EnsureRun, ensure_run
<1>5. CASE runs[t].state # "absent"
  <2>1. \/ runs'[t] = runs[t]
        \/ /\ runs'[t] = [runs[t] EXCEPT !.state = "captured", !.capture = c]
           /\ runs[t].capture = NoCapture
    BY <1>3, <1>5 DEF EnsuredRun
  <2>2. /\ runs'[t].fence = runs[t].fence
        /\ runs'[t].owner = runs[t].owner
        /\ runs'[t].until = runs[t].until
        /\ runs[t].capture # NoCapture => runs'[t].capture = runs[t].capture
        /\ runs'[t].state = runs[t].state \/ runs'[t].state = "captured"
    BY <1>2, <2>1 DEF Run
  <2> QED
    BY <1>1, <1>3, <1>5, <2>2, SameFenceStep DEF EnsureRun, ensure_run
<1> QED
  BY <1>4, <1>5

\* The gap detector's set_state keeps the invariant: it never makes a run processed.
LEMMA SetStateInv ==
    ASSUME LedgerInv, LedgerTypeOK', NEW t \in Instants, SetState(t)
    PROVE  LedgerInv'
<1>1. PICK s \in {"missing_capture", "unrecoverable"} : set_state(t, s)
  BY DEF SetState
<1>2. runs'[t] = [runs[t] EXCEPT !.state = s] /\ runs[t] \in Run
      /\ \A u \in Instants : u # t => runs'[u] = runs[u]
  BY <1>1 DEF set_state, LedgerInv, LedgerTypeOK
<1>3. /\ runs'[t].fence = runs[t].fence
      /\ runs'[t].owner = runs[t].owner
      /\ runs'[t].until = runs[t].until
      /\ runs'[t].capture = runs[t].capture
      /\ runs'[t].state = s
  BY <1>2 DEF Run
<1> QED
  BY <1>1, <1>2, <1>3, SameFenceStep DEF SetState, set_state, Exists

\* mark_recaptured keeps the invariant: its new fence outdates every live claim.
LEMMA MarkRecapturedInv ==
    ASSUME LedgerInv, LedgerTypeOK', NEW t \in Instants, MarkRecaptured(t)
    PROVE  LedgerInv'
<1> USE DEF LedgerInv
<1>1. PICK c \in Captures : mark_recaptured(t, c)
  BY DEF MarkRecaptured
<1>2. runs'[t] = RecapturedRun(runs[t], c) /\ runs[t] \in Run
      /\ \A u \in Instants : u # t => runs'[u] = runs[u]
  BY <1>1 DEF mark_recaptured, LedgerTypeOK
<1>3. /\ runs'[t].fence = runs[t].fence + 1
      /\ runs'[t].until = NoLease
      /\ runs'[t].state = "captured"
      /\ runs[t].fence \in Nat
  BY <1>2 DEF Run, RecapturedRun
<1>4. UNCHANGED <<attempts, used, claims, enqueuing>>
  BY <1>1 DEF MarkRecaptured, mark_recaptured
<1>5. \A u \in Instants : runs'[u].fence \in Nat /\ runs[u].fence \in Nat
                         /\ runs'[u].fence >= runs[u].fence
  BY <1>2, <1>3 DEF LedgerTypeOK, Run
<1>6. \A i \in AttemptIds : attempts[i].run \in Instants
                           /\ attempts[i].fence \in Nat
  BY DEF LedgerTypeOK, RunAttempt
<1>7. \A w \in Workers : Fresh(w)' => Fresh(w) /\ claims[w].run # t
  <2> SUFFICES ASSUME NEW w \in Workers, Fresh(w)'
               PROVE  Fresh(w) /\ claims[w].run # t
    OBVIOUS
  <2>1. claims[w].run \in Instants /\ Holding(w)
        /\ runs'[claims[w].run].fence = claims[w].fence
    BY <1>4 DEF Fresh, Holding, LedgerTypeOK, Claim
  <2>2. claims[w].id \in AttemptIds /\ claims[w].fence = attempts[claims[w].id].fence
        /\ attempts[claims[w].id].run = claims[w].run
    BY <2>1 DEF ClaimsAreBacked, Holding, LedgerTypeOK, Claim
  <2>3. claims[w].fence <= runs[claims[w].run].fence
    BY <2>2 DEF FencesIdentifyClaims
  <2> QED
    BY <1>2, <1>3, <1>5, <1>6, <2>1, <2>2, <2>3 DEF Fresh
<1>8. RowsAllocated'
  <2>1. \A e \in enqueuing : e[2] \in Instants
    BY DEF LedgerTypeOK
  <2> QED BY <1>2, <1>3, <1>4, <1>6, <2>1 DEF RowsAllocated, Exists
<1>9. FencesIdentifyClaims'
  BY <1>4, <1>5, <1>6 DEF FencesIdentifyClaims
<1>10. ClaimsAreBacked'
  BY <1>4 DEF ClaimsAreBacked, Holding
<1>11. FreshClaimIsCurrent'
  BY <1>2, <1>4, <1>7 DEF FreshClaimIsCurrent, Fresh, Holding, LedgerTypeOK,
     Claim
<1>12. LeaseHasAnAttempt'
  BY <1>2, <1>3, <1>4 DEF LeaseHasAnAttempt
<1>13. ProcessedIsTheNamedCapture'
  BY <1>2, <1>3, <1>4 DEF ProcessedIsTheNamedCapture, LastOk
<1>14. FenceLeavesWork'
  BY <1>2, <1>3, <1>4 DEF FenceLeavesWork
<1>15. LostLeaseIsSuperseded'
  BY <1>4, <1>5, <1>6 DEF LostLeaseIsSuperseded
<1> QED
  BY <1>8, <1>9, <1>10, <1>11, <1>12, <1>13, <1>14, <1>15

\* renew keeps the invariant: it moves only the end of its own run's lease.
LEMMA RenewInv ==
    ASSUME LedgerInv, LedgerTypeOK', NEW w \in Workers, Renew(w)
    PROVE  LedgerInv'
<1>1. PICK now \in Times : renew(w, now)
  BY DEF Renew
<1>2. PICK t \in Instants : t = claims[w].run
  BY DEF LedgerInv, LedgerTypeOK, Claim
<1>3. runs'[t] = [runs[t] EXCEPT !.until = now + Ttl] /\ runs[t] \in Run
      /\ \A u \in Instants : u # t => runs'[u] = runs[u]
  BY <1>1, <1>2 DEF renew, LedgerInv, LedgerTypeOK
<1>4. runs[t].until # NoLease
  BY <1>1, <1>2 DEF renew, LedgerInv, FreshClaimIsCurrent
<1>5. now + Ttl # NoLease
  BY DEF NoLease
<1>6. /\ runs'[t].fence = runs[t].fence
      /\ runs'[t].owner = runs[t].owner
      /\ runs'[t].capture = runs[t].capture
      /\ runs'[t].state = runs[t].state
      /\ runs'[t].until # NoLease
  BY <1>3, <1>5 DEF Run
<1>7. runs[t].state # "absent"
  BY <1>4 DEF LedgerInv, RowsAllocated, Exists, NoRun
<1> QED
  BY <1>1, <1>3, <1>4, <1>6, <1>7, SameFenceStep DEF Renew, renew

\* A new row that nobody leases: a fetch attempt or a pending replay.
LEMMA NewRowStep ==
    ASSUME LedgerInv, LedgerTypeOK', UNCHANGED <<runs, claims>>,
           \A e \in enqueuing' : e \in enqueuing,
           NEW row \in RunAttempt, NewRow(row),
           row.kind # "absent", Exists(row.run), row.fence = NoFence,
           row.kind = "fetch" \/ row.outcome = "open",
           row.outcome # "lost_lease"
    PROVE  LedgerInv'
<1> USE DEF LedgerInv
<1> DEFINE n == used + 1
<1>1. n \in AttemptIds /\ n \in Nat /\ used \in Nat /\ used' = n
  BY DEF NewRow, LedgerTypeOK, AttemptIds
<1>2. attempts'[n] = row /\ attempts[n] = NoAttempt
      /\ \A i \in AttemptIds : i # n => attempts'[i] = attempts[i]
  BY <1>1 DEF NewRow, LedgerTypeOK, RowsAllocated, AttemptIds
<1>3. \A i \in AttemptIds : attempts[i].run \in Instants
                           /\ attempts[i].fence \in Nat /\ i \in Nat
  BY DEF LedgerTypeOK, RunAttempt, AttemptIds
<1>4. \A t \in Instants : runs[t].fence \in Nat
  BY DEF LedgerTypeOK, Run
<1>5. attempts[n].owner = Nobody /\ attempts[n].fence = NoFence
      /\ attempts[n].outcome = "open" /\ row.run \in Instants
  BY <1>2 DEF NoAttempt, RunAttempt
<1> HIDE DEF n
<1>6. \A w \in Workers : Holding(w) => claims[w].id \in AttemptIds /\ claims[w].id # n
  BY <1>1 DEF n, ClaimsAreBacked, LedgerTypeOK, Claim, Holding, AttemptIds
<1>7. RowsAllocated'
  <2>1. \A e \in enqueuing : e[2] \in Instants
    BY DEF LedgerTypeOK
  <2>2. \A i \in AttemptIds : i <= used' => i <= used \/ i = n
    BY <1>1, <1>3 DEF n
  <2>3. \A i \in AttemptIds : i > used' => i > used /\ i # n
    BY <1>1, <1>3 DEF n
  <2> QED BY <1>2, <1>3, <2>1, <2>2, <2>3 DEF RowsAllocated, Exists
<1>8. FencesIdentifyClaims'
  BY <1>2, <1>3, <1>4, <1>5 DEF FencesIdentifyClaims, NoFence
<1>9. ClaimsAreBacked'
  <2>1. used <= used'
    BY <1>1 DEF n
  <2>2. \A w \in Workers : Holding(w)' = Holding(w)
    BY DEF Holding
  <2>3. \A w \in Workers : Holding(w) => claims[w].id <= used'
    <3>1. \A i \in AttemptIds : i <= used => i <= used'
      BY <1>1, <1>3, <2>1
    <3> QED BY <1>6, <3>1 DEF ClaimsAreBacked
  <2> QED BY <1>2, <1>6, <2>2, <2>3 DEF ClaimsAreBacked
<1>10. FreshClaimIsCurrent'
  BY <1>2, <1>6 DEF FreshClaimIsCurrent, Fresh, Holding
<1>11. LeaseHasAnAttempt'
  BY <1>2, <1>5 DEF LeaseHasAnAttempt
<1>12. ProcessedIsTheNamedCapture'
  BY <1>2, <1>5 DEF ProcessedIsTheNamedCapture, LastOk
<1>13. FenceLeavesWork'
  BY <1>2, <1>5 DEF FenceLeavesWork, NoFence
<1>14. LostLeaseIsSuperseded'
  BY <1>2, <1>3 DEF LostLeaseIsSuperseded
<1> QED
  BY <1>7, <1>8, <1>9, <1>10, <1>11, <1>12, <1>13, <1>14

\* record_attempt keeps the invariant: a fetch attempt carries no fence.
LEMMA RecordAttemptInv ==
    ASSUME LedgerInv, LedgerTypeOK', NEW t \in Instants, RecordAttempt(t)
    PROVE  LedgerInv'
<1>1. PICK o \in {"ok", "failed"}, c \in Captures \cup {NoCapture} :
          record_attempt(t, o, c)
  BY DEF RecordAttempt
<1> DEFINE row == [run |-> t, kind |-> "fetch", owner |-> Nobody,
                   until |-> NoLease, fence |-> NoFence, capture |-> c,
                   outcome |-> o]
<1>2. row \in RunAttempt
  BY DEF RunAttempt, AttemptKind, AttemptOutcome, NoLease, NoFence
<1>3. NewRow(row)
  BY <1>1 DEF record_attempt
<1>4. row.kind = "fetch" /\ row.run = t /\ row.fence = NoFence /\ row.outcome = o
  OBVIOUS
<1>5. UNCHANGED <<runs, claims, enqueuing>> /\ Exists(t)
  BY <1>1 DEF RecordAttempt, record_attempt
<1> HIDE DEF row
<1> QED
  BY <1>2, <1>3, <1>4, <1>5, NewRowStep

\* The row enqueue_replay inserts keeps the invariant: nobody leases it yet.
LEMMA InsertReplayInv ==
    ASSUME LedgerInv, LedgerTypeOK', NEW o \in Operators, NEW t \in Instants,
           InsertReplay(o, t)
    PROVE  LedgerInv'
<1>1. PICK c \in Captures : EnqueueInsert(o, t, c)
  BY DEF InsertReplay
<1> DEFINE row == [run |-> t, kind |-> "replay", owner |-> Nobody,
                   until |-> NoLease, fence |-> NoFence, capture |-> c,
                   outcome |-> "open"]
<1>2. row \in RunAttempt
  BY DEF RunAttempt, AttemptKind, AttemptOutcome, NoLease, NoFence
<1>3. NewRow(row)
  BY <1>1 DEF EnqueueInsert
<1>4. row.kind = "replay" /\ row.run = t /\ row.fence = NoFence
      /\ row.outcome = "open"
  OBVIOUS
<1>5. UNCHANGED <<runs, claims>> /\ \A e \in enqueuing' : e \in enqueuing
  BY <1>1 DEF InsertReplay, EnqueueInsert
<1>6. Exists(t)
  <2>1. <<o, t, c>>[2] = t /\ <<o, t, c>> \in enqueuing
    BY <1>1 DEF EnqueueInsert
  <2> QED BY <2>1 DEF LedgerInv, RowsAllocated
<1> HIDE DEF row
<1> QED
  BY <1>2, <1>3, <1>4, <1>5, <1>6, NewRowStep

\* enqueue_replay's NOT EXISTS reads the tables and changes none of them.
LEMMA EnqueueReplayInv ==
    ASSUME LedgerInv, LedgerTypeOK', NEW o \in Operators, NEW t \in Instants,
           EnqueueReplay(o, t)
    PROVE  LedgerInv'
<1>1. UNCHANGED <<runs, attempts, used, claims>>
  BY DEF EnqueueReplay, EnqueueCheck, tables
<1>2. RowsAllocated'
  <2>1. Exists(t)
    BY DEF EnqueueReplay, LedgerInv, RowsAllocated, NoRun
  <2>2. enqueuing' = enqueuing \cup {<<o, t, runs[t].capture>>}
        /\ <<o, t, runs[t].capture>>[2] = t
    BY DEF EnqueueReplay, EnqueueCheck
  <2>3. \A e \in enqueuing' : Exists(e[2])
    BY <2>1, <2>2 DEF LedgerInv, RowsAllocated
  <2> QED BY <1>1, <2>3 DEF LedgerInv, RowsAllocated, Exists
<1> QED
  BY <1>1, <1>2 DEF LedgerInv, FencesIdentifyClaims, ClaimsAreBacked,
     FreshClaimIsCurrent, Fresh, Holding, LeaseHasAnAttempt,
     ProcessedIsTheNamedCapture, LastOk, FenceLeavesWork, LostLeaseIsSuperseded

\* claim on a chosen row keeps the invariant: its fence is above all others of the run.
LEMMA ClaimRowInv ==
    ASSUME LedgerInv, LedgerTypeOK', UNCHANGED enqueuing,
           NEW w \in Workers, NEW t \in Instants, NEW now \in Times, Exists(t),
           NEW i \in AttemptIds, NEW kind \in {"replay", "process"},
           ClaimRow(w, t, now, i, kind), attempts[i].owner = Nobody,
           attempts[i].outcome = "open",
           \/ i <= used /\ used' = used /\ attempts[i].run = t
           \/ i = used + 1 /\ used' = used + 1
    PROVE  LedgerInv'
<1> USE DEF LedgerInv
<1> DEFINE f == runs[t].fence + 1
<1>1. runs'[t] = LeasedRun(runs[t], w, now) /\ runs[t] \in Run
      /\ \A u \in Instants : u # t => runs'[u] = runs[u]
  BY DEF ClaimRow, LedgerTypeOK
<1>2. now + Ttl # NoLease /\ f \in Nat /\ f > runs[t].fence /\ f # 0
      /\ \A u \in Instants : runs[u].fence \in Nat
  BY <1>1 DEF NoLease, LedgerTypeOK, Run
<1>3. /\ runs'[t].fence = f /\ runs'[t].owner = w /\ runs'[t].until # NoLease
      /\ runs'[t].capture = runs[t].capture /\ runs'[t].state = runs[t].state
  BY <1>1, <1>2 DEF LeasedRun, Run
<1>4. /\ attempts'[i].run = t /\ attempts'[i].fence = f
      /\ attempts'[i].owner = w /\ attempts'[i].outcome = "open"
      /\ attempts'[i].kind = kind /\ attempts'[i].capture = runs[t].capture
  BY DEF ClaimRow, LeasedAttempt, Closed, LedgerTypeOK
<1>5. \A j \in AttemptIds : j # i =>
         /\ attempts'[j].run = attempts[j].run
         /\ attempts'[j].fence = attempts[j].fence
         /\ attempts'[j].owner = attempts[j].owner
         /\ attempts'[j].kind = attempts[j].kind
         /\ attempts'[j].capture = attempts[j].capture
         /\ \/ attempts'[j] = attempts[j]
            \/ /\ attempts[j].outcome = "open"
               /\ attempts'[j].outcome = "lost_lease"
               /\ attempts[j].run = t /\ attempts[j].kind = "replay"
  BY DEF ClaimRow, Closed, DeadReplay, Expired, LedgerTypeOK, RunAttempt
<1>6. \A j \in AttemptIds : /\ attempts[j].run \in Instants
                           /\ attempts[j].fence \in Nat /\ j \in Nat
                           /\ attempts[j].fence <= runs[attempts[j].run].fence
  BY DEF LedgerTypeOK, RunAttempt, AttemptIds, FencesIdentifyClaims
<1>7. /\ claims'[w].id = i /\ claims'[w].run = t /\ claims'[w].fence = f
      /\ claims'[w].capture = runs[t].capture
      /\ \A v \in Workers : v # w => claims'[v] = claims[v]
  BY DEF ClaimRow, LedgerTypeOK
<1>8. \A v \in Workers : v # w /\ Holding(v) =>
          claims[v].id \in AttemptIds /\ claims[v].id # i
  BY DEF ClaimsAreBacked, LedgerTypeOK, Claim, Holding, Nobody
<1>9. i # 0 /\ used \in Nat /\ used' \in Nat
  BY DEF AttemptIds, LedgerTypeOK
<1> HIDE DEF f
<1>10. RowsAllocated'
  <2>1. \A e \in enqueuing : e[2] \in Instants
    BY DEF LedgerTypeOK
  <2>2. \A u \in Instants : Exists(u)' = Exists(u)
    BY <1>1, <1>3 DEF Exists
  <2>3. \A j \in AttemptIds : j > used' => attempts'[j] = NoAttempt
    <3>1. \A j \in AttemptIds : j > used' => j > used /\ j # i
      BY <1>6, <1>9
    <3>2. \A j \in AttemptIds : j > used => attempts[j].kind = "absent"
      BY DEF RowsAllocated, NoAttempt
    <3> QED BY <1>5, <3>1, <3>2 DEF RowsAllocated
  <2>4. \A j \in AttemptIds : j <= used' =>
            attempts'[j].kind # "absent" /\ Exists(attempts'[j].run)
    <3>1. \A j \in AttemptIds : j <= used' => j <= used \/ j = i
      BY <1>6, <1>9
    <3> QED BY <1>4, <1>5, <3>1 DEF RowsAllocated
  <2>5. \A u \in Instants : ~Exists(u) => u # t
    OBVIOUS
  <2> QED BY <1>1, <1>4, <1>5, <1>6, <2>1, <2>2, <2>3, <2>4, <2>5
          DEF RowsAllocated
<1>11. FencesIdentifyClaims'
  BY <1>1, <1>2, <1>3, <1>4, <1>5, <1>6 DEF FencesIdentifyClaims, NoFence
<1>12. ClaimsAreBacked'
  <2>1. \A v \in Workers : v # w => Holding(v)' = Holding(v)
    BY <1>7 DEF Holding
  <2>2. \A j \in AttemptIds : j <= used => j <= used'
    BY <1>6, <1>9
  <2>3. i <= used'
    BY <1>6, <1>9
  <2>4. ASSUME NEW v \in Workers, v # w, Holding(v)
        PROVE  /\ claims'[v] = claims[v] /\ claims[v].id <= used'
               /\ attempts'[claims[v].id].run = claims[v].run
               /\ attempts'[claims[v].id].fence = claims[v].fence
               /\ attempts'[claims[v].id].capture = claims[v].capture
               /\ attempts'[claims[v].id].kind \in {"process", "replay"}
               /\ attempts'[claims[v].id].owner = v
               /\ claims[v].fence # NoFence
    BY <1>5, <1>7, <1>8, <2>2, <2>4 DEF ClaimsAreBacked
  <2> QED
    BY <1>2, <1>4, <1>7, <2>1, <2>3, <2>4 DEF ClaimsAreBacked, NoFence
<1>13. FreshClaimIsCurrent'
  <2>1. ASSUME NEW v \in Workers, v # w, Fresh(v)'
        PROVE  Fresh(v) /\ claims[v].run # t /\ claims[v].run \in Instants
    <3>1. claims'[v] = claims[v] /\ Holding(v) /\ claims[v].run \in Instants
          /\ runs'[claims[v].run].fence = claims[v].fence
      BY <1>7, <2>1 DEF Fresh, Holding, LedgerTypeOK, Claim
    <3>2. claims[v].fence <= runs[claims[v].run].fence
      BY <1>6, <1>8, <2>1, <3>1 DEF ClaimsAreBacked
    <3> QED BY <1>1, <1>2, <1>3, <3>1, <3>2 DEF Fresh
  <2>2. ASSUME NEW v \in Workers, v # w, Fresh(v)'
        PROVE  /\ attempts'[claims[v].id].outcome = "open"
               /\ claims'[v] = claims[v]
               /\ runs'[claims[v].run] = runs[claims[v].run]
    <3>1. Fresh(v) /\ Holding(v) /\ claims[v].run # t /\ claims[v].run \in Instants
      BY <2>1, <2>2 DEF Fresh
    <3>2. attempts[claims[v].id].run = claims[v].run
      BY <3>1 DEF ClaimsAreBacked
    <3> QED
      BY <1>1, <1>5, <1>7, <1>8, <2>2, <3>1, <3>2 DEF FreshClaimIsCurrent
  <2> QED
    BY <1>3, <1>4, <1>7, <2>1, <2>2 DEF FreshClaimIsCurrent
<1>14. LeaseHasAnAttempt'
  BY <1>1, <1>3, <1>4, <1>5 DEF LeaseHasAnAttempt, Nobody
<1>15. ProcessedIsTheNamedCapture'
  <2>1. \A u \in Instants : /\ runs'[u].state = runs[u].state
                           /\ runs'[u].capture = runs[u].capture
    BY <1>1, <1>3
  <2>2. ASSUME NEW k \in AttemptIds, NEW u \in Instants, LastOk(k, u)
        PROVE  LastOk(k, u)' /\ attempts'[k].capture = attempts[k].capture
    BY <1>4, <1>5, <2>2 DEF LastOk
  <2> QED BY <2>1, <2>2 DEF ProcessedIsTheNamedCapture
<1>16. FenceLeavesWork'
  <2>1. ASSUME NEW u \in Instants, u # t, NEW j \in AttemptIds,
               attempts[j].run = u, attempts[j].fence = runs[u].fence,
               runs[u].fence # 0
        PROVE  attempts'[j].run = u /\ attempts'[j].fence = runs'[u].fence
    <3>1. j # i
      BY <2>1 DEF RowsAllocated, NoAttempt, NoFence, AttemptIds, LedgerTypeOK
    <3> QED BY <1>1, <1>5, <2>1, <3>1
  <2>2. ASSUME NEW u \in Instants, u # t, runs'[u].fence # 0
        PROVE  \/ runs'[u].state \in
                     {"captured", "missing_capture", "unrecoverable"}
               \/ \E j \in AttemptIds : attempts'[j].run = u
                                       /\ attempts'[j].fence = runs'[u].fence
    BY <1>1, <2>1, <2>2 DEF FenceLeavesWork
  <2> QED BY <1>3, <1>4, <2>2 DEF FenceLeavesWork
<1>17. LostLeaseIsSuperseded'
  <2> SUFFICES ASSUME NEW j \in AttemptIds, attempts'[j].outcome = "lost_lease"
               PROVE  attempts'[j].fence < runs'[attempts'[j].run].fence
    BY DEF LostLeaseIsSuperseded
  <2>1. j # i /\ attempts'[j].fence = attempts[j].fence
        /\ attempts'[j].run = attempts[j].run
    BY <1>4, <1>5
  <2>2. CASE attempts[j].run = t
    BY <1>2, <1>3, <1>6, <2>1, <2>2
  <2>3. CASE attempts[j].run # t
    BY <1>1, <1>5, <1>6, <2>1, <2>3 DEF LostLeaseIsSuperseded
  <2> QED BY <2>2, <2>3
<1> QED
  BY <1>10, <1>11, <1>12, <1>13, <1>14, <1>15, <1>16, <1>17

\* claim keeps the invariant, on a pending replay or on a new row.
LEMMA ClaimRunInv ==
    ASSUME LedgerInv, LedgerTypeOK', NEW w \in Workers, NEW t \in Instants,
           ClaimRun(w, t)
    PROVE  LedgerInv'
<1>1. PICK now \in Times : claim(w, t, now)
  BY DEF ClaimRun
<1>2. Exists(t) /\ UNCHANGED enqueuing
  BY DEF ClaimRun
<1>3. CASE \E i \in AttemptIds : /\ IsLeastPending(i, t)
                                 /\ ClaimRow(w, t, now, i, "replay")
                                 /\ UNCHANGED used
  <2>1. PICK i \in AttemptIds : /\ IsLeastPending(i, t)
                                /\ ClaimRow(w, t, now, i, "replay")
                                /\ UNCHANGED used
    BY <1>3
  <2>2. attempts[i].kind = "replay" /\ attempts[i].run = t
        /\ attempts[i].owner = Nobody /\ attempts[i].outcome = "open"
    BY <2>1 DEF IsLeastPending, PendingReplays, PendingReplay, Pending
  <2>3. i <= used
    BY <2>2 DEF LedgerInv, RowsAllocated, NoAttempt, AttemptIds, LedgerTypeOK
  <2> QED BY <1>2, <2>1, <2>2, <2>3, ClaimRowInv
<1>4. CASE /\ used < MaxAttempts
           /\ used' = used + 1
           /\ ClaimRow(w, t, now, used + 1,
                    IF DeadReplays(t, now) # {} THEN "replay" ELSE "process")
  <2>1. used + 1 \in AttemptIds /\ used + 1 > used
    BY <1>4 DEF LedgerInv, LedgerTypeOK, AttemptIds
  <2>2. attempts[used + 1] = NoAttempt
    BY <2>1 DEF LedgerInv, RowsAllocated
  <2>3. attempts[used + 1].owner = Nobody /\ attempts[used + 1].outcome = "open"
    BY <2>2 DEF NoAttempt
  <2> QED BY <1>2, <1>4, <2>1, <2>3, ClaimRowInv
<1> QED
  BY <1>1, <1>3, <1>4 DEF claim

\* commit under the current fence keeps the invariant: it is for the named capture.
LEMMA CommitFreshInv ==
    ASSUME LedgerInv, LedgerTypeOK', UNCHANGED enqueuing, NEW w \in Workers,
           NEW s \in {"processed", "failed"},
           NEW o \in {"ok", "failed", "quarantined"}, CommitFresh(w, s, o),
           s = "processed" => o = "ok" /\ claims[w].capture # NoCapture
    PROVE  LedgerInv'
<1> USE DEF LedgerInv
<1>1. PICK t \in Instants : t = claims[w].run
  BY DEF LedgerTypeOK, Claim
<1>2. PICK k \in AttemptIds : k = claims[w].id
  BY DEF CommitFresh, Fresh, Holding, LedgerTypeOK, Claim
<1>3. Fresh(w) /\ Holding(w) /\ runs[t].fence = claims[w].fence
  BY <1>1 DEF CommitFresh, Fresh
<1>4. /\ attempts[k].run = t /\ attempts[k].fence = runs[t].fence
      /\ attempts[k].kind \in {"process", "replay"} /\ attempts[k].owner = w
      /\ attempts[k].capture = claims[w].capture
      /\ runs[t].fence # NoFence /\ attempts[k].outcome = "open"
      /\ runs[t].owner = w /\ k <= used
      /\ claims[w].capture # NoCapture => claims[w].capture = runs[t].capture
  BY <1>1, <1>2, <1>3 DEF ClaimsAreBacked, FreshClaimIsCurrent
<1>5. /\ runs'[t].fence = runs[t].fence /\ runs'[t].owner = Nobody
      /\ runs'[t].until = NoLease /\ runs'[t].capture = runs[t].capture
      /\ runs'[t].state = s
      /\ \A u \in Instants : u # t => runs'[u] = runs[u]
  BY <1>1 DEF CommitFresh, LedgerTypeOK, Run
<1>6. /\ attempts'[k].run = t /\ attempts'[k].fence = attempts[k].fence
      /\ attempts'[k].owner = w /\ attempts'[k].kind = attempts[k].kind
      /\ attempts'[k].capture = attempts[k].capture /\ attempts'[k].outcome = o
      /\ \A j \in AttemptIds : j # k => attempts'[j] = attempts[j]
  BY <1>2, <1>4 DEF CommitFresh, LedgerTypeOK, RunAttempt
<1>7. ~Holding(w)' /\ used' = used
      /\ \A v \in Workers : v # w => claims'[v] = claims[v]
  BY DEF CommitFresh, LedgerTypeOK, Holding, NoClaim
<1>8. \A j \in AttemptIds : /\ attempts[j].run \in Instants
                           /\ attempts[j].fence <= runs[attempts[j].run].fence
  BY DEF LedgerTypeOK, RunAttempt, FencesIdentifyClaims
<1>9. \A v \in Workers : v # w /\ Holding(v) =>
          /\ claims[v].id \in AttemptIds /\ claims[v].id # k
          /\ claims[v].run \in Instants
  BY <1>4 DEF ClaimsAreBacked, LedgerTypeOK, Claim, Holding
<1>10. RowsAllocated'
  <2>1. \A e \in enqueuing : e[2] \in Instants
    BY DEF LedgerTypeOK
  <2>2. Exists(t)
    BY <1>2, <1>4 DEF RowsAllocated
  <2>3. \A u \in Instants : Exists(u)' = Exists(u)
    BY <1>5, <2>2 DEF Exists
  <2>4. k <= used /\ ~(k > used)
    BY <1>4 DEF LedgerTypeOK, AttemptIds
  <2> QED
    BY <1>5, <1>6, <1>7, <1>8, <1>4, <2>1, <2>2, <2>3, <2>4 DEF RowsAllocated
<1>11. FencesIdentifyClaims'
  <2>1. \A j \in AttemptIds : attempts'[j].fence = attempts[j].fence
                             /\ attempts'[j].run = attempts[j].run
    BY <1>4, <1>6
  <2>2. \A u \in Instants : runs'[u].fence = runs[u].fence
    BY <1>5
  <2> QED BY <1>8, <2>1, <2>2 DEF FencesIdentifyClaims
<1>12. ClaimsAreBacked'
  BY <1>6, <1>7, <1>9 DEF ClaimsAreBacked, Holding
<1>13. FreshClaimIsCurrent'
  <2>1. ASSUME NEW v \in Workers, Fresh(v)'
        PROVE  Fresh(v) /\ v # w /\ claims[v].run # t
    <3>1. v # w /\ Holding(v) /\ claims'[v] = claims[v]
      BY <1>7, <2>1 DEF Fresh, Holding
    <3>2. Fresh(v)
      BY <1>5, <1>9, <2>1, <3>1 DEF Fresh
    <3> QED BY <1>4, <3>1, <3>2 DEF FreshClaimIsCurrent
  <2> QED
    BY <1>5, <1>6, <1>7, <1>9, <2>1 DEF FreshClaimIsCurrent, Fresh
<1>14. LeaseHasAnAttempt'
  BY <1>4, <1>5, <1>6 DEF LeaseHasAnAttempt
<1>15. ProcessedIsTheNamedCapture'
  <2>1. ASSUME NEW u \in Instants, u # t, runs'[u].state = "processed"
        PROVE  /\ runs'[u].capture # NoCapture
               /\ \E i \in AttemptIds : /\ LastOk(i, u)'
                                        /\ attempts'[i].capture = runs'[u].capture
    <3>1. PICK i \in AttemptIds : LastOk(i, u) /\ attempts[i].capture = runs[u].capture
      BY <1>5, <2>1 DEF ProcessedIsTheNamedCapture
    <3>2. LastOk(i, u)' /\ attempts'[i] = attempts[i]
      BY <1>4, <1>6, <2>1, <3>1 DEF LastOk
    <3> QED
      BY <1>5, <2>1, <3>1, <3>2 DEF ProcessedIsTheNamedCapture
  <2>2. ASSUME s = "processed"
        PROVE  /\ runs'[t].capture # NoCapture
               /\ LastOk(k, t)' /\ attempts'[k].capture = runs'[t].capture
    <3>1. \A j \in AttemptIds : attempts[j].run = t =>
             attempts[j].fence <= attempts[k].fence
      BY <1>4, <1>8
    <3>2. LastOk(k, t)'
      BY <1>4, <1>6, <2>2, <3>1 DEF LastOk
    <3> QED BY <1>4, <1>5, <1>6, <2>2, <3>2
  <2> QED BY <1>5, <2>1, <2>2 DEF ProcessedIsTheNamedCapture
<1>16. FenceLeavesWork'
  BY <1>4, <1>5, <1>6 DEF FenceLeavesWork
<1>17. LostLeaseIsSuperseded'
  BY <1>4, <1>5, <1>6, <1>8 DEF LostLeaseIsSuperseded
<1> QED
  BY <1>10, <1>11, <1>12, <1>13, <1>14, <1>15, <1>16, <1>17

\* commit under a lost fence keeps the invariant: it closes only its own attempt.
LEMMA CommitStaleInv ==
    ASSUME LedgerInv, LedgerTypeOK', UNCHANGED enqueuing, NEW w \in Workers,
           CommitStale(w)
    PROVE  LedgerInv'
<1> USE DEF LedgerInv
<1>1. PICK t \in Instants : t = claims[w].run
  BY DEF LedgerTypeOK, Claim
<1>2. PICK k \in AttemptIds : k = claims[w].id
  BY DEF CommitStale, Holding, LedgerTypeOK, Claim
<1>3. /\ attempts[k].run = t /\ attempts[k].fence # runs[t].fence
      /\ attempts[k].fence <= runs[t].fence
      /\ attempts[k].owner = w /\ k <= used
  BY <1>1, <1>2 DEF CommitStale, ClaimsAreBacked, Fresh, FencesIdentifyClaims
<1>4. /\ attempts'[k].run = t /\ attempts'[k].fence = attempts[k].fence
      /\ attempts'[k].owner = w /\ attempts'[k].kind = attempts[k].kind
      /\ attempts'[k].capture = attempts[k].capture
      /\ \/ attempts'[k].outcome = attempts[k].outcome
         \/ attempts[k].outcome = "open" /\ attempts'[k].outcome = "lost_lease"
      /\ \A j \in AttemptIds : j # k => attempts'[j] = attempts[j]
  BY <1>2, <1>3 DEF CommitStale, LedgerTypeOK, RunAttempt
<1>5. ~Holding(w)' /\ used' = used /\ runs' = runs
      /\ \A v \in Workers : v # w => claims'[v] = claims[v]
  BY DEF CommitStale, LedgerTypeOK, Holding, NoClaim
<1>6. \A v \in Workers : v # w /\ Holding(v) =>
          claims[v].id \in AttemptIds /\ claims[v].id # k
  BY <1>3 DEF ClaimsAreBacked, LedgerTypeOK, Claim, Holding
<1>7. RowsAllocated'
  <2>1. ~(k > used)
    BY <1>3 DEF LedgerTypeOK, AttemptIds
  <2> QED BY <1>3, <1>4, <1>5, <2>1 DEF RowsAllocated, Exists
<1>8. FencesIdentifyClaims'
  <2>1. \A j \in AttemptIds : attempts'[j].fence = attempts[j].fence
                             /\ attempts'[j].run = attempts[j].run
    BY <1>3, <1>4
  <2> QED BY <1>5, <2>1 DEF FencesIdentifyClaims
<1>9. ClaimsAreBacked'
  BY <1>4, <1>5, <1>6 DEF ClaimsAreBacked, Holding
<1>10. FreshClaimIsCurrent'
  BY <1>4, <1>5, <1>6 DEF FreshClaimIsCurrent, Fresh, Holding
<1>11. LeaseHasAnAttempt'
  BY <1>3, <1>4, <1>5 DEF LeaseHasAnAttempt
<1>12. ProcessedIsTheNamedCapture'
  BY <1>3, <1>4, <1>5 DEF ProcessedIsTheNamedCapture, LastOk
<1>13. FenceLeavesWork'
  BY <1>3, <1>4, <1>5 DEF FenceLeavesWork
<1>14. LostLeaseIsSuperseded'
  <2>1. attempts[k].fence < runs[t].fence
    BY <1>3 DEF LedgerTypeOK, RunAttempt, Run
  <2> QED BY <1>3, <1>4, <1>5, <2>1 DEF LostLeaseIsSuperseded
<1> QED
  BY <1>7, <1>8, <1>9, <1>10, <1>11, <1>12, <1>13, <1>14

\* A pod that dies keeps the invariant: its rows stay as they were.
LEMMA CrashInv ==
    ASSUME LedgerInv, LedgerTypeOK', NEW w \in Workers, Crash(w)
    PROVE  LedgerInv'
<1>1. UNCHANGED <<runs, attempts, used, enqueuing>>
  BY DEF Crash
<1>2. ~Holding(w)' /\ \A v \in Workers : v # w => claims'[v] = claims[v]
  BY DEF Crash, LedgerInv, LedgerTypeOK, Holding, NoClaim
<1>3. ClaimsAreBacked' /\ FreshClaimIsCurrent'
  BY <1>1, <1>2 DEF LedgerInv, ClaimsAreBacked, FreshClaimIsCurrent, Fresh,
     Holding
<1> QED
  BY <1>1, <1>3 DEF LedgerInv, RowsAllocated, Exists, FencesIdentifyClaims,
     LeaseHasAnAttempt, ProcessedIsTheNamedCapture, LastOk, FenceLeavesWork,
     LostLeaseIsSuperseded

\* Every step of the ledger keeps the inductive invariant.
LEMMA InvStep == LedgerInv /\ [LedgerNext]_ledgerVars => LedgerInv'
<1> SUFFICES ASSUME LedgerInv, [LedgerNext]_ledgerVars PROVE LedgerInv'
  OBVIOUS
<1>1. LedgerTypeOK'
  BY TypeStep DEF LedgerInv
<1>2. ASSUME NEW t \in Instants,
             EnsureRun(t) \/ SetState(t) \/ MarkRecaptured(t) \/ RecordAttempt(t)
      PROVE  LedgerInv'
  BY <1>1, <1>2, EnsureRunInv, SetStateInv, MarkRecapturedInv, RecordAttemptInv
<1>3. ASSUME NEW w \in Workers, NEW t \in Instants, ClaimRun(w, t)
      PROVE  LedgerInv'
  BY <1>1, <1>3, ClaimRunInv
<1>4. ASSUME NEW w \in Workers, CommitRun(w) PROVE LedgerInv'
  BY <1>1, <1>4, CommitFreshInv, CommitStaleInv DEF CommitRun
<1>5. ASSUME NEW w \in Workers, Renew(w) \/ Crash(w) PROVE LedgerInv'
  BY <1>1, <1>5, RenewInv, CrashInv
<1>6. ASSUME NEW o \in Operators, NEW t \in Instants,
             EnqueueReplay(o, t) \/ InsertReplay(o, t)
      PROVE  LedgerInv'
  BY <1>1, <1>6, EnqueueReplayInv, InsertReplayInv
<1>7. CASE UNCHANGED ledgerVars
  BY <1>1, <1>7 DEF ledgerVars, LedgerInv, RowsAllocated, Exists,
     FencesIdentifyClaims, ClaimsAreBacked, FreshClaimIsCurrent, Fresh, Holding,
     LeaseHasAnAttempt, ProcessedIsTheNamedCapture, LastOk, FenceLeavesWork,
     LostLeaseIsSuperseded
<1> QED
  BY <1>2, <1>3, <1>4, <1>5, <1>6, <1>7 DEF LedgerNext

\* The inductive invariant holds in every reachable state of the ledger.
THEOREM LedgerInvariant == LedgerSpec => []LedgerInv
  BY InvInit, InvStep, PTL DEF LedgerSpec

\* Mutual exclusion of commits (ADR-024 section 4): of all the workers that
\* believe they hold a run, at most one passes commit()'s fence check.
THEOREM CommitsAreExclusive == LedgerSpec => []SingleCommitter
<1>1. LedgerInv => SingleCommitter
  BY DEF LedgerInv, FreshClaimIsCurrent, SingleCommitter
<1> QED
  BY <1>1, LedgerInvariant, PTL

\* A processed run names the capture its last successful attempt read,
\* whatever leases expired and re-captures arrived meanwhile.
THEOREM ProcessedNamesItsCapture == LedgerSpec => []ProcessedIsTheNamedCapture
<1>1. LedgerInv => ProcessedIsTheNamedCapture
  BY DEF LedgerInv
<1> QED
  BY <1>1, LedgerInvariant, PTL

\* No live claim is for a generation the run no longer names.
THEOREM LiveClaimsAreCurrent == LedgerSpec => []FreshClaimIsCurrent
<1>1. LedgerInv => FreshClaimIsCurrent
  BY DEF LedgerInv
<1> QED
  BY <1>1, LedgerInvariant, PTL

\* Whoever waits for a lease waits for an unfinished attempt of its owner.
THEOREM LeasesHaveAttempts == LedgerSpec => []LeaseHasAnAttempt
<1>1. LedgerInv => LeaseHasAnAttempt
  BY DEF LedgerInv
<1> QED
  BY <1>1, LedgerInvariant, PTL

\* A replay that lost its lease is superseded by a later claim or by a run
\* that is pending again.
THEOREM LostReplaysAreNotForgotten == LedgerSpec => []LostReplayIsNotForgotten
<1>1. LedgerInv => LostReplayIsNotForgotten
  <2> SUFFICES ASSUME LedgerInv, NEW i \in AttemptIds,
                      attempts[i].outcome = "lost_lease"
               PROVE  \/ runs[attempts[i].run].state \in
                            {"captured", "missing_capture", "unrecoverable"}
                      \/ \E j \in AttemptIds :
                            /\ attempts[j].run = attempts[i].run
                            /\ attempts[j].fence > attempts[i].fence
    BY DEF LostReplayIsNotForgotten
  <2>1. PICK t \in Instants : t = attempts[i].run
    BY DEF LedgerInv, LedgerTypeOK, RunAttempt
  <2>2. attempts[i].fence < runs[t].fence /\ attempts[i].fence \in Nat
        /\ runs[t].fence \in Nat
    BY <2>1 DEF LedgerInv, LostLeaseIsSuperseded, LedgerTypeOK, RunAttempt, Run
  <2>3. runs[t].fence # 0
    BY <2>2
  <2> QED BY <2>1, <2>2, <2>3 DEF LedgerInv, FenceLeavesWork
<1> QED
  BY <1>1, LedgerInvariant, PTL

\* The audit trail is append-only: no step rewrites a finished attempt, nor
\* the owner, fence or capture of a leased one.
THEOREM AttemptsStayFinal == LedgerSpec => AttemptsAreFinal
<1> DEFINE Final ==
      \A i \in AttemptIds :
        /\ attempts[i].outcome # "open" => attempts'[i] = attempts[i]
        /\ attempts[i].owner # Nobody =>
              /\ attempts'[i].owner = attempts[i].owner
              /\ attempts'[i].fence = attempts[i].fence
              /\ attempts'[i].capture = attempts[i].capture
<1>1. LedgerInv /\ [LedgerNext]_ledgerVars => [Final]_ledgerVars
  <2> SUFFICES ASSUME LedgerInv, LedgerNext PROVE Final
    OBVIOUS
  <2>1. CASE attempts' = attempts
    BY <2>1
  <2>2. ASSUME NEW row, NewRow(row) PROVE Final
    <3>1. used + 1 \in AttemptIds /\ used + 1 > used
      BY <2>2 DEF NewRow, LedgerInv, LedgerTypeOK, AttemptIds
    <3>2. attempts[used + 1].outcome = "open" /\ attempts[used + 1].owner = Nobody
      BY <3>1 DEF LedgerInv, RowsAllocated, NoAttempt
    <3> QED BY <2>2, <3>2 DEF NewRow, LedgerInv, LedgerTypeOK
  <2>3. ASSUME NEW w \in Workers, NEW t \in Instants, NEW now \in Times,
               NEW i \in AttemptIds, NEW kind, ClaimRow(w, t, now, i, kind),
               attempts[i].owner = Nobody, attempts[i].outcome = "open"
        PROVE  Final
    BY <2>3 DEF ClaimRow, Closed, DeadReplay, Expired, LedgerInv, LedgerTypeOK,
       RunAttempt
  <2>4. ASSUME NEW w \in Workers, NEW t \in Instants, ClaimRun(w, t) PROVE Final
    <3>1. PICK now \in Times : claim(w, t, now)
      BY <2>4 DEF ClaimRun
    <3>2. CASE \E i \in AttemptIds : /\ IsLeastPending(i, t)
                                     /\ ClaimRow(w, t, now, i, "replay")
      <4>1. PICK i \in AttemptIds : /\ IsLeastPending(i, t)
                                    /\ ClaimRow(w, t, now, i, "replay")
        BY <3>2
      <4>2. attempts[i].owner = Nobody /\ attempts[i].outcome = "open"
        BY <4>1 DEF IsLeastPending, PendingReplays, PendingReplay, Pending
      <4> QED BY <2>3, <4>1, <4>2
    <3>3. CASE /\ used < MaxAttempts
               /\ \E kind \in {"replay", "process"} :
                     ClaimRow(w, t, now, used + 1, kind)
      <4>1. used + 1 \in AttemptIds /\ used + 1 > used
        BY <3>3 DEF LedgerInv, LedgerTypeOK, AttemptIds
      <4>2. attempts[used + 1].owner = Nobody
            /\ attempts[used + 1].outcome = "open"
        BY <4>1 DEF LedgerInv, RowsAllocated, NoAttempt
      <4> QED BY <2>3, <3>3, <4>1, <4>2
    <3> QED BY <3>1, <3>2, <3>3 DEF claim
  <2>5. ASSUME NEW w \in Workers, CommitRun(w) PROVE Final
    <3>1. claims[w].id \in AttemptIds
      BY <2>5 DEF CommitRun, CommitFresh, CommitStale, Fresh, Holding, LedgerInv,
         LedgerTypeOK, Claim
    <3>2. CASE CommitStale(w)
      BY <3>1, <3>2 DEF CommitStale, LedgerInv, LedgerTypeOK, RunAttempt
    <3>3. ASSUME NEW s, NEW o, CommitFresh(w, s, o) PROVE Final
      <4>1. attempts[claims[w].id].outcome = "open"
        BY <3>3 DEF CommitFresh, LedgerInv, FreshClaimIsCurrent
      <4> QED
        BY <3>1, <3>3, <4>1 DEF CommitFresh, LedgerInv, LedgerTypeOK, RunAttempt
    <3> QED BY <2>5, <3>2, <3>3 DEF CommitRun
  <2>6. ASSUME NEW t \in Instants, RecordAttempt(t) PROVE Final
    BY <2>2, <2>6 DEF RecordAttempt, record_attempt
  <2>7. ASSUME NEW o \in Operators, NEW t \in Instants, InsertReplay(o, t)
        PROVE  Final
    BY <2>2, <2>7 DEF InsertReplay, EnqueueInsert
  <2> HIDE DEF Final
  <2> QED
    BY <2>1, <2>4, <2>5, <2>6, <2>7 DEF LedgerNext, EnsureRun, ensure_run,
       SetState, set_state, MarkRecaptured, mark_recaptured, Renew, renew, Crash,
       EnqueueReplay, EnqueueCheck, tables
<1> QED
  BY <1>1, LedgerInvariant, PTL DEF LedgerSpec, AttemptsAreFinal
==============================================================================
