------------------------------- MODULE Bronze --------------------------------
(***************************************************************************)
(* The Bronze write path of one target, at the grain of its object-store   *)
(* requests: runtime.capture up to the acknowledgement, Bronze.capture,    *)
(* S3BlobStore.put and S3CaptureLog.put_new.  Any number of pods capture   *)
(* at once (the CronJobs capture, recapture and backfill and manual Jobs   *)
(* only exclude themselves), a pod may die between any two requests, and   *)
(* a response may be lost after its request took effect, in which case     *)
(* ObjectStore._request sends the request again.                           *)
(*                                                                         *)
(* fetched_at is the number of the fetch: served[n] is what the source     *)
(* answered to the n-th one.                                               *)
(***************************************************************************)
EXTENDS Naturals, Sequences, FiniteSets

CONSTANTS
    Instants,         \* scheduled_for values, in time order
    Day,              \* delivery day of each instant
    Urls,             \* resources: where discovery or a redirect may end
    Writers,          \* pods that run capture, recapture or backfill
    Payloads,         \* contents the source can serve
    CreateOnly,       \* the gateway honours If-None-Match: * on a PUT
    MaxCollisions,    \* MAX_ENTRY_COLLISIONS
    MaxFetches,       \* bound: fetches of a behaviour
    MaxLost           \* bound: lost responses of a behaviour

ASSUME BronzeAssumption ==
    /\ Instants # {} /\ Instants \subseteq Nat \ {0}
    /\ DOMAIN Day = Instants /\ Urls # {}
    /\ CreateOnly \in BOOLEAN
    /\ MaxCollisions \in Nat \ {0} /\ MaxFetches \in Nat /\ MaxLost \in Nat
    /\ "none" \notin Payloads

VARIABLES
    served,     \* the answers of the source so far: url and payload
    blobs,      \* payloads in the hot blob store
    entries,    \* the capture log: a set of entries, one per key
    acked,      \* entries whose writer was told it created them
    writers,    \* per pod: its local state
    lost        \* responses lost so far

vars == <<served, blobs, entries, acked, writers, lost>>

NoPayload == "none"
Statuses == {200, 304}
SomeInstant == CHOOSE t \in Instants : TRUE
SomeUrl == CHOOSE u \in Urls : TRUE

\* A CaptureEntry: its key is (t, attempt), its payload the content address.
Entry == [t: Instants, attempt: 1 .. MaxFetches + MaxLost,
          fetched: 1 .. MaxFetches, url: Urls, status: Statuses,
          payload: Payloads, changed: BOOLEAN]
NoEntry == [t |-> SomeInstant, attempt |-> 0, fetched |-> 0,
            url |-> SomeUrl, status |-> 200, payload |-> NoPayload,
            changed |-> FALSE]

Steps == {"idle", "baseline", "fetch", "list", "blob", "put", "readback"}
Writer == [pc: Steps, t: Instants, force: BOOLEAN, baseline: Entry \cup {NoEntry},
           status: Statuses, url: Urls, fetched: Nat, payload: Payloads \cup {NoPayload},
           attempt: Nat, tries: 0 .. MaxCollisions - 1, blob: BOOLEAN]
Idle == [pc |-> "idle", t |-> SomeInstant, force |-> FALSE, baseline |-> NoEntry,
         status |-> 200, url |-> SomeUrl, fetched |-> 0, payload |-> NoPayload, attempt |-> 0,
         tries |-> 0, blob |-> FALSE]

EntriesFor(t) == {e \in entries : e.t = t}
Later(d, e) == d.t > e.t \/ (d.t = e.t /\ d.attempt > e.attempt)
Newest(E) == CHOOSE e \in E : \A d \in E \ {e} : Later(e, d)
SameKey(d, e) == d.t = e.t /\ d.attempt = e.attempt

\* The attempt number Bronze.capture takes after listing the instant.
NextAttempt(t) ==
    IF EntriesFor(t) = {} THEN 1 ELSE Newest(EntriesFor(t)).attempt + 1

\* capture_baseline: the newest HTTP 200 entry of the run's delivery day.
Baseline(t) ==
    LET E == {e \in entries : e.status = 200 /\ Day[e.t] = Day[t]} IN
    IF E = {} THEN NoEntry ELSE Newest(E)

At(w, pc) == writers[w].pc = pc
Goto(w, pc) == writers' = [writers EXCEPT ![w].pc = pc]
Finish(w) == writers' = [writers EXCEPT ![w] = Idle]

------------------------------------------------------------------------------
(* The capture of one instant by pod w.                                    *)

\* capture(): an instant that has an entry is a noop unless forced.
Begin(w, t, force) ==
    /\ At(w, "idle")
    /\ EntriesFor(t) = {} \/ force
    /\ writers' = [writers EXCEPT ![w] =
         [Idle EXCEPT !.pc = "baseline", !.t = t, !.force = force]]
    /\ UNCHANGED <<served, blobs, entries, acked, lost>>

ReadBaseline(w) ==
    /\ At(w, "baseline")
    /\ writers' = [writers EXCEPT ![w].pc = "fetch",
                                  ![w].baseline = Baseline(writers[w].t)]
    /\ UNCHANGED <<served, blobs, entries, acked, lost>>

\* A conditional request may be answered 304 when the resource u still is what
\* the validators name; a server that compares dates may also say so of
\* another resource than the one the validators came from.
MayAnswer304(w, u, p) ==
    LET b == writers[w].baseline IN b # NoEntry /\ (b.payload = p \/ b.url # u)

\* Discovery and redirects end at u, where the source serves p: it may have
\* moved, corrected or restored the document since the last fetch.
Fetch(w, u, p, status) ==
    /\ At(w, "fetch")
    /\ Len(served) < MaxFetches
    /\ status = 304 => MayAnswer304(w, u, p)
    /\ served' = Append(served, [url |-> u, payload |-> p])
    /\ writers' = [writers EXCEPT ![w] =
         [@ EXCEPT !.pc = "list", !.status = status, !.url = u,
                   !.fetched = Len(served) + 1,
                   !.payload = IF status = 200 THEN p ELSE NoPayload]]
    /\ UNCHANGED <<blobs, entries, acked, lost>>

\* FetchFailed, EgressError, RenderError, SecretMissing: nothing in Bronze.
FetchFails(w) ==
    /\ At(w, "fetch")
    /\ Finish(w)
    /\ UNCHANGED <<served, blobs, entries, acked, lost>>

\* Mutant: a 304 is attached whatever resource the baseline is of.
Attaches304(w) == FALSE

\* A 304 is only ever attached to the payload of the same resource.
Refuses304(w) ==
    writers[w].status = 304 /\ writers[w].baseline.url # writers[w].url

\* Mutant: the entry goes first, the blob is left for later.
EntryFirst(w) == "put"

\* Where the loop goes after listing: the blob is written once, a 304 has none.
AfterList(w) ==
    IF writers[w].status = 304 \/ writers[w].blob THEN "put" ELSE "blob"

\* The top of Bronze.capture's loop: an unforced capture that finds an entry
\* returns it, unless it already collided; a wrong 304 raises BronzeError;
\* otherwise the next attempt number is taken.
List(w) ==
    /\ At(w, "list")
    /\ LET s == writers[w] IN
       IF (EntriesFor(s.t) # {} /\ ~s.force /\ s.tries = 0) \/ Refuses304(w)
       THEN Finish(w)
       ELSE writers' = [writers EXCEPT ![w].pc = AfterList(w),
                                       ![w].attempt = NextAttempt(s.t)]
    /\ UNCHANGED <<served, blobs, entries, acked, lost>>

\* S3BlobStore.put: content-addressed, so HEAD, PUT and any retry add the
\* payload or change nothing.
PutBlob(w) ==
    /\ At(w, "blob")
    /\ blobs' = blobs \cup {writers[w].payload}
    /\ writers' = [writers EXCEPT ![w].pc = "put", ![w].blob = TRUE]
    /\ UNCHANGED <<served, entries, acked, lost>>

\* The entry Bronze.capture builds; a 304 takes the baseline's payload.
EntryOf(w) ==
    LET s == writers[w]
        p == IF s.status = 304 THEN s.baseline.payload ELSE s.payload IN
    [t |-> s.t, attempt |-> s.attempt, fetched |-> s.fetched, url |-> s.url,
     status |-> s.status, payload |-> p, changed |-> s.baseline.payload # p]

\* put_new returned False: the next turn of the loop, or BronzeError.
Collide(w) ==
    IF writers[w].tries + 1 = MaxCollisions
    THEN Finish(w)
    ELSE writers' = [writers EXCEPT ![w].pc = "list", ![w].tries = @ + 1]

\* Mutant: an unconditional PUT.
NeverRefuses(e) == FALSE

\* The gateway answers 412 Precondition Failed.
Answers412(e) == CreateOnly /\ \E d \in entries : SameKey(d, e)

WriteEntry(e) == entries' = {d \in entries : ~SameKey(d, e)} \cup {e}

\* S3CaptureLog.put_new, the PUT.  When its response is lost the request is
\* sent again, and a create-only gateway answers 412 to the second one.
PutEntry(w) ==
    /\ At(w, "put")
    /\ LET e == EntryOf(w) IN
       \/ /\ Answers412(e)
          /\ Collide(w)
          /\ UNCHANGED <<entries, lost>>
       \/ /\ ~Answers412(e)
          /\ WriteEntry(e)
          /\ Goto(w, "readback")
          /\ UNCHANGED lost
       \/ /\ ~Answers412(e) /\ CreateOnly /\ lost < MaxLost
          /\ lost' = lost + 1
          /\ WriteEntry(e)
          /\ Collide(w)
    /\ UNCHANGED <<served, blobs, acked>>

\* put_new's read-back: an entry with another payload or fetched_at is another
\* writer's.
ReadBack(w) ==
    /\ At(w, "readback")
    /\ LET e == EntryOf(w) IN
       \/ /\ \E d \in entries : /\ SameKey(d, e) /\ d.payload = e.payload
                                /\ d.fetched = e.fetched
          /\ acked' = acked \cup {e}
          /\ Finish(w)
       \/ /\ ~\E d \in entries : /\ SameKey(d, e) /\ d.payload = e.payload
                                 /\ d.fetched = e.fetched
          /\ Collide(w)
          /\ UNCHANGED acked
    /\ UNCHANGED <<served, blobs, entries, lost>>

\* The pod dies, or the object store gives up: ObjectStoreError is not caught.
Crash(w) ==
    /\ ~At(w, "idle")
    /\ Finish(w)
    /\ UNCHANGED <<served, blobs, entries, acked, lost>>

Init ==
    /\ served = << >>
    /\ blobs = {}
    /\ entries = {}
    /\ acked = {}
    /\ writers = [w \in Writers |-> Idle]
    /\ lost = 0

Next ==
    \/ \E w \in Writers, t \in Instants, force \in BOOLEAN : Begin(w, t, force)
    \/ \E w \in Writers, u \in Urls, p \in Payloads, status \in Statuses :
          Fetch(w, u, p, status)
    \/ \E w \in Writers : \/ ReadBaseline(w) \/ FetchFails(w) \/ List(w)
                          \/ PutBlob(w) \/ PutEntry(w) \/ ReadBack(w) \/ Crash(w)

Spec == Init /\ [][Next]_vars

------------------------------------------------------------------------------
(* Properties.                                                             *)

\* The shape of the log, the blob store and every pod's local state.
TypeOK ==
    /\ served \in Seq([url: Urls, payload: Payloads])
    /\ blobs \subseteq Payloads
    /\ entries \subseteq Entry
    /\ acked \subseteq Entry
    /\ writers \in [Writers -> Writer]
    /\ lost \in 0 .. MaxLost

\* "every acknowledged capture keeps its entry" (bronze.py): an entry whose
\* writer was told it created it is in the log, as it was written, for ever.
AcknowledgedIsDurable == acked \subseteq entries

\* What an entry says was fetched is what the source served to that fetch,
\* a 304 included: the payload of an older answer is attached only when it
\* still was the answer (Bronze.capture's 304 branch, capture_baseline).
EntriesAreFaithful ==
    \A e \in entries :
        /\ e.fetched \in 1 .. Len(served)
        /\ served[e.fetched] = [url |-> e.url, payload |-> e.payload]

\* put_new: False "when another writer got there first" (capture_log.py): the
\* fetch of a pod that was refused has no entry yet.
RefusedMeansAnotherWriter ==
    \A w \in Writers : writers[w].tries > 0 =>
        \A e \in entries : e.fetched # writers[w].fetched

\* The log as the runtime reads it: per instant, ordered by attempt.
LogOf(t) ==
    [i \in 1 .. Cardinality(EntriesFor(t)) |->
        CHOOSE e \in EntriesFor(t) :
            Cardinality({d \in EntriesFor(t) : d.attempt <= e.attempt}) = i]

History == INSTANCE CaptureLog WITH
    log <- [t \in Instants |-> LogOf(t)], stored <- blobs

\* Bronze implements the append-only history, whatever writers race, die or
\* hear twice (ADR-024 section 1 and amendment 3).
ImplementsCaptureLog == History!LogSpec
------------------------------------------------------------------------------
(* Why they hold: the inductive invariants of BronzeProofs.                *)

\* The shape of the state, whatever the attempt numbers come to.
AnyEntry == [t: Instants, attempt: Nat \ {0}, fetched: 1 .. MaxFetches, url: Urls,
             status: Statuses, payload: Payloads, changed: BOOLEAN]
AnyWriter == [pc: Steps, t: Instants, force: BOOLEAN, baseline: AnyEntry \cup {NoEntry},
              status: Statuses, url: Urls, fetched: Nat,
              payload: Payloads \cup {NoPayload}, attempt: Nat,
              tries: 0 .. MaxCollisions - 1, blob: BOOLEAN]
Shape ==
    /\ served \in Seq([url: Urls, payload: Payloads]) /\ Len(served) <= MaxFetches
    /\ blobs \subseteq Payloads
    /\ entries \subseteq AnyEntry /\ IsFiniteSet(entries)
    /\ acked \subseteq AnyEntry
    /\ writers \in [Writers -> AnyWriter]
    /\ lost \in 0 .. MaxLost

\* Attempts are numbered 1, 2, 3, ... without a hole or a duplicate.
NumberedWithoutHoles ==
    /\ \A d, e \in entries : SameKey(d, e) => d = e
    /\ \A e \in entries : \A i \in 1 .. e.attempt :
          \E d \in entries : d.t = e.t /\ d.attempt = i

\* The local state s of a pod: how far it is.
HasFetched(s) == s.pc \in {"list", "blob", "put", "readback"}
HasNumber(s) == s.pc \in {"blob", "put", "readback"}
MayStillWrite(s) == s.pc \in {"list", "blob", "put"}

\* What it remembers of its fetch is what the source answered, and a 304 that
\* was not refused is about the baseline's resource.
FetchIsFaithful(s) ==
    /\ HasFetched(s) =>
          /\ s.fetched \in 1 .. Len(served)
          /\ served[s.fetched].url = s.url
          /\ s.status = 200 => s.payload = served[s.fetched].payload
          /\ s.status = 304 =>
                /\ s.baseline # NoEntry
                /\ \/ s.baseline.payload = served[s.fetched].payload
                   \/ s.baseline.url # s.url
    /\ HasNumber(s) /\ s.status = 304 => s.baseline.url = s.url

\* The blobs it will point at are stored, and it only stores what it got.
BlobIsStored(s) ==
    /\ s.pc = "blob" => s.status = 200
    /\ s.baseline # NoEntry => s.baseline.payload \in blobs
    /\ s.blob => HasFetched(s) /\ s.payload \in blobs
    /\ s.pc \in {"put", "readback"} => s.status = 304 \/ s.blob

\* The number it took, however old, leaves no hole.
NumberFits(s) ==
    HasNumber(s) =>
        /\ s.attempt # 0
        /\ s.attempt = 1 \/ \E d \in entries : d.t = s.t /\ d.attempt = s.attempt - 1

\* Inductive whatever the gateway does with a conditional PUT.
LogInv ==
    /\ Shape
    /\ EntriesAreFaithful
    /\ \A e \in entries : e.payload \in blobs
    /\ NumberedWithoutHoles
    /\ \A w \in Writers : /\ FetchIsFaithful(writers[w])
                          /\ BlobIsStored(writers[w])
                          /\ NumberFits(writers[w])

\* Fetches that may still become an entry, and the others.
Open == {n \in 1 .. Len(served) :
            \E w \in Writers : MayStillWrite(writers[w]) /\ writers[w].fetched = n}
Spent == (1 .. Len(served)) \ Open

\* Every entry stands for a fetch that is over or for a lost response.
EntriesAreAccounted ==
    /\ \A v, w \in Writers :
          HasFetched(writers[v]) /\ HasFetched(writers[w])
            /\ writers[v].fetched = writers[w].fetched => v = w
    /\ Cardinality(entries) <= Cardinality(Spent) + lost

\* Inductive when the gateway creates only: an entry is never written over, so
\* what a pod acknowledged, wrote or read is still there.
BronzeInv ==
    /\ LogInv
    /\ AcknowledgedIsDurable
    /\ \A w \in Writers :
          /\ At(w, "readback") => EntryOf(w) \in entries
          /\ writers[w].baseline \in entries \cup {NoEntry}
    /\ EntriesAreAccounted
==============================================================================
