---------------------------- MODULE BronzeProofs -----------------------------
(***************************************************************************)
(* Theorems about the Bronze write path, for any number of pods, instants, *)
(* documents and resources and any bounds.                                 *)
(***************************************************************************)
EXTENDS Bronze, FiniteSetTheorems, WellFoundedInduction, TLAPS

USE BronzeAssumption

\* The defaults of a pod's local state are instants, resources and no entry.
LEMMA Defaults ==
    /\ SomeInstant \in Instants /\ SomeUrl \in Urls
    /\ NoEntry \notin AnyEntry
    /\ Idle \in AnyWriter
<1>1. SomeInstant \in Instants /\ SomeUrl \in Urls
  BY DEF SomeInstant, SomeUrl
<1>2. NoEntry \notin AnyEntry
  BY DEF NoEntry, AnyEntry
<1>3. 0 \in 0 .. MaxCollisions - 1
  OBVIOUS
<1> QED BY <1>1, <1>2, <1>3 DEF Idle, AnyWriter, Steps, Statuses

\* A pod's local state keeps its shape when one of its variables is assigned.
LEMMA WriterFields ==
    ASSUME NEW r \in AnyWriter
    PROVE  /\ \A x \in Steps : [r EXCEPT !.pc = x] \in AnyWriter
           /\ \A x \in Instants : [r EXCEPT !.t = x] \in AnyWriter
           /\ \A x \in BOOLEAN : [r EXCEPT !.force = x] \in AnyWriter
           /\ \A x \in AnyEntry \cup {NoEntry} : [r EXCEPT !.baseline = x] \in AnyWriter
           /\ \A x \in Statuses : [r EXCEPT !.status = x] \in AnyWriter
           /\ \A x \in Urls : [r EXCEPT !.url = x] \in AnyWriter
           /\ \A x \in Nat : [r EXCEPT !.fetched = x] \in AnyWriter
           /\ \A x \in Payloads \cup {NoPayload} : [r EXCEPT !.payload = x] \in AnyWriter
           /\ \A x \in Nat : [r EXCEPT !.attempt = x] \in AnyWriter
           /\ \A x \in 0 .. MaxCollisions - 1 : [r EXCEPT !.tries = x] \in AnyWriter
           /\ \A x \in BOOLEAN : [r EXCEPT !.blob = x] \in AnyWriter
<1>1. \A x \in Steps : [r EXCEPT !.pc = x] \in AnyWriter
  BY DEF AnyWriter
<1>2. \A x \in Instants : [r EXCEPT !.t = x] \in AnyWriter
  BY DEF AnyWriter
<1>3. \A x \in BOOLEAN : [r EXCEPT !.force = x] \in AnyWriter
  BY DEF AnyWriter
<1>4. \A x \in AnyEntry \cup {NoEntry} : [r EXCEPT !.baseline = x] \in AnyWriter
  BY DEF AnyWriter
<1>5. \A x \in Statuses : [r EXCEPT !.status = x] \in AnyWriter
  BY DEF AnyWriter
<1>6. \A x \in Urls : [r EXCEPT !.url = x] \in AnyWriter
  BY DEF AnyWriter
<1>7. \A x \in Nat : [r EXCEPT !.fetched = x] \in AnyWriter
  BY DEF AnyWriter
<1>8. \A x \in Payloads \cup {NoPayload} : [r EXCEPT !.payload = x] \in AnyWriter
  BY DEF AnyWriter
<1>9. \A x \in Nat : [r EXCEPT !.attempt = x] \in AnyWriter
  BY DEF AnyWriter
<1>10. \A x \in 0 .. MaxCollisions - 1 : [r EXCEPT !.tries = x] \in AnyWriter
  BY DEF AnyWriter
<1>11. \A x \in BOOLEAN : [r EXCEPT !.blob = x] \in AnyWriter
  BY DEF AnyWriter
<1> QED
  BY <1>1, <1>2, <1>3, <1>4, <1>5, <1>6, <1>7, <1>8, <1>9, <1>10, <1>11

\* In a finite set, something has nothing above it: of the sets of elements
\* above an element take a smallest one, it has to be empty.
LEMMA MaximalElement ==
    ASSUME NEW E, IsFiniteSet(E), E # {}, NEW Above,
           \A x \in E : <<x, x>> \notin Above,
           \A x, y, z \in E :
              <<x, y>> \in Above /\ <<y, z>> \in Above => <<x, z>> \in Above
    PROVE  \E m \in E : \A x \in E : <<x, m>> \notin Above
<1> DEFINE Up(x) == {y \in E : <<y, x>> \in Above}
           T == {Up(x) : x \in E}
<1>1. T \subseteq FiniteSubsetsOf(E) /\ T # {}
  <2>1. FiniteSubsetsOf(E) = SUBSET E
    BY FS_FiniteSubsetsOfFinite
  <2>2. \A x \in E : Up(x) \in SUBSET E
    OBVIOUS
  <2> HIDE DEF Up
  <2>3. T \subseteq SUBSET E
    BY <2>2
  <2>4. PICK x \in E : TRUE
    OBVIOUS
  <2>5. Up(x) \in T
    OBVIOUS
  <2> QED BY <2>1, <2>3, <2>5
<1>2. IsWellFoundedOn(StrictSubsetOrdering(E), FiniteSubsetsOf(E))
  BY FS_StrictSubsetOrderingWellFounded
<1>3. PICK U \in T : \A V \in T : <<V, U>> \notin StrictSubsetOrdering(E)
  <2> HIDE DEF T
  <2> QED BY <1>1, <1>2, WFMin
<1>4. PICK m \in E : U = Up(m)
  OBVIOUS
<1>5. ASSUME NEW x \in E, <<x, m>> \in Above PROVE FALSE
  <2>1. Up(x) \subseteq Up(m) /\ x \in Up(m) /\ x \notin Up(x)
    BY <1>5
  <2>2. <<Up(x), U>> \in StrictSubsetOrdering(E)
    BY <1>4, <2>1 DEF StrictSubsetOrdering
  <2> QED BY <1>3, <2>2
<1> QED BY <1>5

\* Of finitely many entries with different keys one is the newest: capture and
\* capture_baseline always have an entry to take.
LEMMA NewestIsThere ==
    ASSUME NEW E \in SUBSET AnyEntry, IsFiniteSet(E), E # {},
           \A d, e \in E : SameKey(d, e) => d = e
    PROVE  Newest(E) \in E /\ \A d \in E \ {Newest(E)} : Later(Newest(E), d)
<1> DEFINE Above == {p \in E \X E : Later(p[1], p[2])}
<1>1. \A x, y \in E : <<x, y>> \in Above <=> Later(x, y)
  OBVIOUS
<1>2. \A x \in E : x.t \in Nat /\ x.attempt \in Nat
  BY DEF AnyEntry
<1>3. \A x \in E : <<x, x>> \notin Above
  BY <1>1, <1>2 DEF Later
<1>4. \A x, y, z \in E :
          <<x, y>> \in Above /\ <<y, z>> \in Above => <<x, z>> \in Above
  BY <1>1, <1>2 DEF Later
<1> HIDE DEF Above
<1>5. PICK m \in E : \A x \in E : <<x, m>> \notin Above
  BY <1>3, <1>4, MaximalElement
<1>6. ASSUME NEW d \in E \ {m} PROVE Later(m, d)
  <2>1. ~Later(d, m) /\ ~SameKey(d, m)
    BY <1>1, <1>5
  <2>2. d.t \in Nat /\ m.t \in Nat /\ d.attempt \in Nat /\ m.attempt \in Nat
    BY <1>2
  <2> QED BY <2>1, <2>2 DEF Later, SameKey
<1> QED BY <1>6 DEF Newest

\* The entries of one instant are a finite set with different keys.
LEMMA EntriesForIsLog ==
    ASSUME Shape, NumberedWithoutHoles, NEW t
    PROVE  /\ EntriesFor(t) \in SUBSET AnyEntry /\ IsFiniteSet(EntriesFor(t))
           /\ \A d, e \in EntriesFor(t) : SameKey(d, e) => d = e
<1>1. EntriesFor(t) \in SUBSET entries
  BY DEF EntriesFor
<1>2. IsFiniteSet(EntriesFor(t))
  BY <1>1, FS_Subset DEF Shape
<1> QED BY <1>1, <1>2 DEF Shape, NumberedWithoutHoles

\* The number Bronze.capture takes after listing is one more than a number
\* that is there, or 1.
LEMMA NextAttemptFits ==
    ASSUME Shape, NumberedWithoutHoles, NEW t
    PROVE  /\ NextAttempt(t) \in Nat \ {0}
           /\ \/ NextAttempt(t) = 1
              \/ \E d \in entries : d.t = t /\ d.attempt = NextAttempt(t) - 1
<1>1. CASE EntriesFor(t) = {}
  BY <1>1 DEF NextAttempt
<1>2. CASE EntriesFor(t) # {}
  <2> DEFINE m == Newest(EntriesFor(t))
  <2>1. m \in EntriesFor(t)
    BY <1>2, EntriesForIsLog, NewestIsThere
  <2> HIDE DEF m
  <2>2. m \in entries /\ m.t = t /\ m.attempt \in Nat
    BY <2>1 DEF EntriesFor, Shape, AnyEntry
  <2>3. NextAttempt(t) = m.attempt + 1
    BY <1>2 DEF NextAttempt, m
  <2> QED BY <2>2, <2>3
<1> QED BY <1>1, <1>2

\* capture_baseline gives an entry of the log or none.
LEMMA BaselineIsAnEntry ==
    ASSUME Shape, NumberedWithoutHoles, NEW t
    PROVE  Baseline(t) \in entries \cup {NoEntry}
<1> DEFINE E == {e \in entries : e.status = 200 /\ Day[e.t] = Day[t]}
<1>1. E \in SUBSET entries
  OBVIOUS
<1>2. E \in SUBSET AnyEntry /\ IsFiniteSet(E)
  BY <1>1, FS_Subset DEF Shape
<1>3. \A d, e \in E : SameKey(d, e) => d = e
  BY DEF NumberedWithoutHoles
<1>4. E # {} => Newest(E) \in E
  BY <1>2, <1>3, NewestIsThere
<1>5. Baseline(t) = IF E = {} THEN NoEntry ELSE Newest(E)
  BY DEF Baseline
<1> HIDE DEF E
<1> QED BY <1>1, <1>4, <1>5

------------------------------------------------------------------------------
(* The invariant that no gateway can break.                                *)

\* The empty Bronze is a Bronze.
LEMMA LogInvInit == Init => LogInv
<1> SUFFICES ASSUME Init PROVE LogInv
  OBVIOUS
<1>1. IsFiniteSet(entries)
  BY FS_EmptySet DEF Init
<1>2. Shape
  BY <1>1, Defaults DEF Init, Shape
<1>3. \A w \in Writers : writers[w] = Idle
  BY DEF Init
<1> QED
  BY <1>2, <1>3 DEF Init, LogInv, EntriesAreFaithful, NumberedWithoutHoles,
     FetchIsFaithful, BlobIsStored, NumberFits, HasFetched, HasNumber, Idle

\* A step of pod w on its own state, an acknowledgement included, only has
\* that state to answer for.
LEMMA AckStep ==
    ASSUME LogInv, NEW w \in Writers, NEW s \in AnyWriter,
           writers' = [writers EXCEPT ![w] = s],
           UNCHANGED <<served, blobs, entries, lost>>, acked' \subseteq AnyEntry,
           FetchIsFaithful(s), BlobIsStored(s), NumberFits(s)
    PROVE  LogInv'
<1>1. Shape'
  BY DEF LogInv, Shape
<1>2. \A v \in Writers : writers'[v] = IF v = w THEN s ELSE writers[v]
  BY DEF LogInv, Shape
<1>3. \A v \in Writers : /\ FetchIsFaithful(writers[v])'
                         /\ BlobIsStored(writers[v])'
                         /\ NumberFits(writers[v])'
  BY <1>2 DEF LogInv, FetchIsFaithful, BlobIsStored, NumberFits, HasFetched,
     HasNumber
<1> QED
  BY <1>1, <1>3 DEF LogInv, EntriesAreFaithful, NumberedWithoutHoles, SameKey

LEMMA LocalStep ==
    ASSUME LogInv, NEW w \in Writers, NEW s \in AnyWriter,
           writers' = [writers EXCEPT ![w] = s],
           UNCHANGED <<served, blobs, entries, acked, lost>>,
           FetchIsFaithful(s), BlobIsStored(s), NumberFits(s)
    PROVE  LogInv'
<1>1. acked' \subseteq AnyEntry
  BY DEF LogInv, Shape
<1> QED BY <1>1, AckStep

\* The idle state has nothing to answer for.
LEMMA IdleIsHarmless == FetchIsFaithful(Idle) /\ BlobIsStored(Idle) /\ NumberFits(Idle)
  BY DEF FetchIsFaithful, BlobIsStored, NumberFits, HasFetched, HasNumber, Idle

\* A pod that ends, by a noop, an error or its death, leaves Bronze as it is.
LEMMA FinishInv ==
    ASSUME LogInv, NEW w \in Writers, Finish(w),
           UNCHANGED <<served, blobs, entries, acked, lost>>
    PROVE  LogInv'
  BY LocalStep, IdleIsHarmless, Defaults DEF Finish

\* capture() starts.
LEMMA BeginInv ==
    ASSUME LogInv, NEW w \in Writers, NEW t \in Instants, NEW force \in BOOLEAN,
           Begin(w, t, force)
    PROVE  LogInv'
<1> DEFINE s == [Idle EXCEPT !.pc = "baseline", !.t = t, !.force = force]
<1>1. s \in AnyWriter
  <2>1. "baseline" \in Steps
    BY DEF Steps
  <2>2. [Idle EXCEPT !.pc = "baseline"] \in AnyWriter
    BY <2>1, Defaults, WriterFields
  <2>3. [[Idle EXCEPT !.pc = "baseline"] EXCEPT !.t = t] \in AnyWriter
    BY <2>2, WriterFields
  <2>4. [[[Idle EXCEPT !.pc = "baseline"] EXCEPT !.t = t] EXCEPT !.force = force]
          \in AnyWriter
    BY <2>3, WriterFields
  <2> QED BY <2>4
<1>2. FetchIsFaithful(s) /\ BlobIsStored(s) /\ NumberFits(s)
  BY DEF FetchIsFaithful, BlobIsStored, NumberFits, HasFetched, HasNumber, Idle
<1> HIDE DEF s
<1>3. writers' = [writers EXCEPT ![w] = s]
  BY DEF Begin, s
<1> QED BY <1>1, <1>2, <1>3, LocalStep DEF Begin

\* The baseline is an entry, so its blob is stored.
LEMMA ReadBaselineInv ==
    ASSUME LogInv, NEW w \in Writers, ReadBaseline(w) PROVE LogInv'
<1> DEFINE b == Baseline(writers[w].t)
           s == [writers[w] EXCEPT !.pc = "fetch", !.baseline = b]
<1>1. b \in entries \cup {NoEntry}
  BY BaselineIsAnEntry DEF LogInv
<1> HIDE DEF b
<1>2. writers[w] \in AnyWriter /\ b \in AnyEntry \cup {NoEntry}
  BY <1>1 DEF LogInv, Shape
<1>3. s \in AnyWriter
  <2>1. "fetch" \in Steps
    BY DEF Steps
  <2>2. [writers[w] EXCEPT !.pc = "fetch"] \in AnyWriter
    BY <1>2, <2>1, WriterFields
  <2>3. [[writers[w] EXCEPT !.pc = "fetch"] EXCEPT !.baseline = b] \in AnyWriter
    BY <1>2, <2>2, WriterFields
  <2> QED BY <2>3
<1>4. FetchIsFaithful(s) /\ NumberFits(s)
  BY <1>2 DEF FetchIsFaithful, NumberFits, HasFetched, HasNumber, AnyWriter
<1>5. b # NoEntry => b.payload \in blobs
  BY <1>1 DEF LogInv
<1>6. BlobIsStored(s)
  BY <1>2, <1>5 DEF LogInv, BlobIsStored, HasFetched, AnyWriter, ReadBaseline, At
<1>7. writers' = [writers EXCEPT ![w] = s]
  BY DEF ReadBaseline, b, LogInv, Shape
<1> HIDE DEF s
<1> QED BY <1>3, <1>4, <1>6, <1>7, LocalStep DEF ReadBaseline

\* What the source answered so far stays what it answered.
LEMMA ServedGrows ==
    ASSUME Shape, NEW x \in [url: Urls, payload: Payloads], served' = Append(served, x)
    PROVE  /\ served' \in Seq([url: Urls, payload: Payloads])
           /\ Len(served) \in Nat /\ Len(served') = Len(served) + 1
           /\ served'[Len(served) + 1] = x
           /\ \A n \in 1 .. Len(served) : served'[n] = served[n]
  BY DEF Shape

\* The answer x is remembered in s as it was given.
LEMMA FetchStep ==
    ASSUME LogInv, NEW w \in Writers, NEW s \in AnyWriter,
           NEW x \in [url: Urls, payload: Payloads],
           served' = Append(served, x), Len(served) < MaxFetches,
           writers' = [writers EXCEPT ![w] = s],
           UNCHANGED <<blobs, entries, acked, lost>>,
           s.pc = "list", s.fetched = Len(served) + 1, s.url = x.url, ~s.blob,
           s.status = 200 => s.payload = x.payload,
           s.status = 304 => /\ s.baseline # NoEntry
                             /\ s.baseline.payload = x.payload \/ s.baseline.url # s.url,
           s.baseline # NoEntry => s.baseline.payload \in blobs
    PROVE  LogInv'
<1>1. /\ served' \in Seq([url: Urls, payload: Payloads])
      /\ Len(served) \in Nat /\ Len(served') = Len(served) + 1
      /\ served'[Len(served) + 1] = x
      /\ \A n \in 1 .. Len(served) : served'[n] = served[n]
  BY ServedGrows DEF LogInv
<1>2. Shape'
  BY <1>1 DEF LogInv, Shape
<1>3. EntriesAreFaithful'
  <2>1. EntriesAreFaithful
    BY DEF LogInv
  <2>2. ASSUME NEW e \in entries
        PROVE  e.fetched \in 1 .. Len(served') /\ served'[e.fetched] = served[e.fetched]
    <3>1. e.fetched \in 1 .. Len(served)
      BY <2>1 DEF EntriesAreFaithful
    <3> QED BY <1>1, <3>1
  <2> QED BY <2>1, <2>2 DEF EntriesAreFaithful
<1>4. \A v \in Writers : writers'[v] = IF v = w THEN s ELSE writers[v]
  BY DEF LogInv, Shape
<1>5. FetchIsFaithful(s)' /\ BlobIsStored(s)' /\ NumberFits(s)'
  <2>1. s.fetched \in 1 .. Len(served') /\ served'[s.fetched] = x
    BY <1>1
  <2> QED
    BY <2>1 DEF FetchIsFaithful, BlobIsStored, NumberFits, HasFetched, HasNumber
<1>6. ASSUME NEW v \in Writers, v # w
      PROVE  FetchIsFaithful(writers[v])' /\ BlobIsStored(writers[v])'
             /\ NumberFits(writers[v])'
  <2>1. writers'[v] = writers[v]
    BY <1>4, <1>6
  <2>2. FetchIsFaithful(writers[v]) /\ BlobIsStored(writers[v]) /\ NumberFits(writers[v])
    BY DEF LogInv
  <2>3. HasFetched(writers[v]) => /\ writers[v].fetched \in 1 .. Len(served')
                                  /\ served'[writers[v].fetched] = served[writers[v].fetched]
    <3>1. HasFetched(writers[v]) => writers[v].fetched \in 1 .. Len(served)
      BY <2>2 DEF FetchIsFaithful
    <3> QED BY <1>1, <3>1
  <2>4. FetchIsFaithful(writers[v])'
    BY <2>1, <2>2, <2>3 DEF FetchIsFaithful, HasFetched, HasNumber
  <2> QED BY <2>1, <2>2, <2>4 DEF BlobIsStored, NumberFits, HasFetched, HasNumber
<1>7. NumberedWithoutHoles' /\ \A e \in entries' : e.payload \in blobs'
  BY DEF LogInv, NumberedWithoutHoles, SameKey
<1> QED BY <1>2, <1>3, <1>4, <1>5, <1>6, <1>7 DEF LogInv

LEMMA FetchInv ==
    ASSUME LogInv, NEW w \in Writers, NEW u \in Urls, NEW p \in Payloads,
           NEW status \in Statuses, Fetch(w, u, p, status)
    PROVE  LogInv'
<1> DEFINE x == [url |-> u, payload |-> p]
           s == [writers[w] EXCEPT !.pc = "list", !.status = status, !.url = u,
                    !.fetched = Len(served) + 1,
                    !.payload = IF status = 200 THEN p ELSE NoPayload]
<1>1. writers[w] \in AnyWriter /\ Len(served) \in Nat /\ writers[w].pc = "fetch"
  BY DEF LogInv, Shape, Fetch, At
<1>2. s \in AnyWriter
  <2> DEFINE s1 == [writers[w] EXCEPT !.pc = "list"]
             s2 == [s1 EXCEPT !.status = status]
             s3 == [s2 EXCEPT !.url = u]
             s4 == [s3 EXCEPT !.fetched = Len(served) + 1]
             s5 == [s4 EXCEPT !.payload = IF status = 200 THEN p ELSE NoPayload]
  <2> HIDE DEF s1, s2, s3, s4, s5
  <2>1. "list" \in Steps
    BY DEF Steps
  <2>2. s1 \in AnyWriter
    BY <1>1, <2>1, WriterFields DEF s1
  <2>3. s2 \in AnyWriter
    BY <2>2, WriterFields DEF s2
  <2>4. s3 \in AnyWriter
    BY <2>3, WriterFields DEF s3
  <2>5. s4 \in AnyWriter
    <3>1. Len(served) + 1 \in Nat
      BY <1>1
    <3> QED BY <2>4, <3>1, WriterFields DEF s4
  <2>6. s5 \in AnyWriter
    <3>1. (IF status = 200 THEN p ELSE NoPayload) \in Payloads \cup {NoPayload}
      OBVIOUS
    <3> QED BY <2>5, <3>1, WriterFields DEF s5
  <2> QED BY <2>6 DEF s1, s2, s3, s4, s5
<1>3. writers' = [writers EXCEPT ![w] = s]
  BY DEF Fetch
<1>4. /\ s.pc = "list" /\ s.fetched = Len(served) + 1 /\ s.url = u /\ s.status = status
      /\ s.payload = (IF status = 200 THEN p ELSE NoPayload)
      /\ s.baseline = writers[w].baseline /\ s.blob = writers[w].blob
  BY <1>1 DEF AnyWriter
<1>5. status = 304 => s.baseline # NoEntry /\ (s.baseline.payload = p \/ s.baseline.url # u)
  BY <1>4 DEF Fetch, MayAnswer304
<1>6. BlobIsStored(writers[w])
  BY DEF LogInv
<1>7. ~s.blob /\ (s.baseline # NoEntry => s.baseline.payload \in blobs)
  BY <1>1, <1>4, <1>6 DEF BlobIsStored, HasFetched
<1>8. x \in [url: Urls, payload: Payloads] /\ x.url = u /\ x.payload = p
  OBVIOUS
<1>9. /\ served' = Append(served, x) /\ Len(served) < MaxFetches
      /\ UNCHANGED <<blobs, entries, acked, lost>>
  BY DEF Fetch
<1> HIDE DEF s, x
<1>10. s.status = 200 => s.payload = x.payload
  BY <1>4, <1>8
<1>11. s.status = 304 => /\ s.baseline # NoEntry
                         /\ s.baseline.payload = x.payload \/ s.baseline.url # s.url
  BY <1>4, <1>5, <1>8
<1> QED BY <1>2, <1>3, <1>4, <1>7, <1>8, <1>9, <1>10, <1>11, FetchStep

\* The top of the loop: a noop, a refused 304 or the next attempt number.
LEMMA ListInv ==
    ASSUME LogInv, NEW w \in Writers, List(w) PROVE LogInv'
<1>1. CASE Finish(w)
  BY <1>1, FinishInv DEF List
<1>2. CASE ~Refuses304(w)
           /\ writers' = [writers EXCEPT ![w].pc = AfterList(w),
                                         ![w].attempt = NextAttempt(writers[w].t)]
  <2> DEFINE n == NextAttempt(writers[w].t)
             s == [writers[w] EXCEPT !.pc = AfterList(w), !.attempt = n]
  <2>1. writers[w] \in AnyWriter /\ writers[w].pc = "list"
    BY DEF LogInv, Shape, List, At
  <2>2. /\ n \in Nat \ {0}
        /\ n = 1 \/ \E d \in entries : d.t = writers[w].t /\ d.attempt = n - 1
    BY NextAttemptFits DEF LogInv
  <2>3. FetchIsFaithful(writers[w]) /\ BlobIsStored(writers[w])
    BY DEF LogInv
  <2> HIDE DEF n
  <2>4. s \in AnyWriter
    <3>1. AfterList(w) \in Steps
      BY DEF AfterList, Steps
    <3>2. [writers[w] EXCEPT !.pc = AfterList(w)] \in AnyWriter
      BY <2>1, <3>1, WriterFields
    <3>3. [[writers[w] EXCEPT !.pc = AfterList(w)] EXCEPT !.attempt = n] \in AnyWriter
      BY <2>2, <3>2, WriterFields
    <3> QED BY <3>3
  <2>5. /\ s.pc = AfterList(w) /\ s.attempt = n /\ s.t = writers[w].t
        /\ s.status = writers[w].status /\ s.url = writers[w].url
        /\ s.fetched = writers[w].fetched /\ s.payload = writers[w].payload
        /\ s.baseline = writers[w].baseline /\ s.blob = writers[w].blob
    BY <2>1 DEF AnyWriter
  <2>6. writers' = [writers EXCEPT ![w] = s]
    BY <1>2 DEF n, LogInv, Shape
  <2>7. \/ AfterList(w) = "put" /\ (s.status = 304 \/ s.blob)
        \/ AfterList(w) = "blob" /\ s.status = 200
    <3>1. writers[w].status \in Statuses
      BY <2>1 DEF AnyWriter
    <3>2. writers[w].status = 304 \/ writers[w].status = 200
      BY <3>1 DEF Statuses
    <3> HIDE DEF s
    <3> QED BY <2>5, <3>2 DEF AfterList
  <2>8. s.status = 304 => s.baseline.url = s.url
    BY <1>2, <2>5 DEF Refuses304
  <2> HIDE DEF s
  <2>9. FetchIsFaithful(s)
    BY <2>1, <2>3, <2>5, <2>8 DEF FetchIsFaithful, HasFetched
  <2>10. BlobIsStored(s)
    BY <2>1, <2>3, <2>5, <2>7 DEF BlobIsStored, HasFetched
  <2>11. NumberFits(s)
    BY <2>2, <2>5 DEF NumberFits
  <2> QED BY <2>4, <2>6, <2>9, <2>10, <2>11, LocalStep DEF List
<1> QED BY <1>1, <1>2 DEF List

\* put_new was refused: another turn of the loop, or the pod ends.
LEMMA CollideLocal ==
    ASSUME LogInv, NEW w \in Writers, Collide(w), HasNumber(writers[w])
    PROVE  \E s \in AnyWriter :
              /\ writers' = [writers EXCEPT ![w] = s]
              /\ FetchIsFaithful(s) /\ BlobIsStored(s) /\ NumberFits(s)
<1>1. CASE Finish(w)
  BY <1>1, IdleIsHarmless, Defaults DEF Finish
<1>2. CASE /\ writers[w].tries + 1 # MaxCollisions
           /\ writers' = [writers EXCEPT ![w].pc = "list", ![w].tries = @ + 1]
  <2> DEFINE s == [writers[w] EXCEPT !.pc = "list", !.tries = @ + 1]
  <2>1. writers[w] \in AnyWriter
    BY DEF LogInv, Shape
  <2>2. s \in AnyWriter
    <3>1. "list" \in Steps
      BY DEF Steps
    <3>2. writers[w].tries + 1 \in 0 .. MaxCollisions - 1
      BY <1>2, <2>1 DEF AnyWriter
    <3>3. [writers[w] EXCEPT !.pc = "list"] \in AnyWriter
      BY <2>1, <3>1, WriterFields
    <3>4. [[writers[w] EXCEPT !.pc = "list"] EXCEPT !.tries = writers[w].tries + 1]
            \in AnyWriter
      BY <3>2, <3>3, WriterFields
    <3> QED BY <3>4
  <2>3. /\ s.pc = "list" /\ s.status = writers[w].status /\ s.url = writers[w].url
        /\ s.fetched = writers[w].fetched /\ s.payload = writers[w].payload
        /\ s.baseline = writers[w].baseline /\ s.blob = writers[w].blob
    BY <2>1 DEF AnyWriter
  <2>4. writers' = [writers EXCEPT ![w] = s]
    BY <1>2 DEF LogInv, Shape
  <2>5. FetchIsFaithful(writers[w]) /\ BlobIsStored(writers[w])
    BY DEF LogInv
  <2> HIDE DEF s
  <2>6. FetchIsFaithful(s) /\ BlobIsStored(s) /\ NumberFits(s)
    BY <2>3, <2>5 DEF FetchIsFaithful, BlobIsStored, NumberFits, HasFetched, HasNumber
  <2> QED BY <2>2, <2>4, <2>6
<1> QED BY <1>1, <1>2 DEF Collide

\* S3BlobStore.put: blobs are only added.
LEMMA PutBlobInv ==
    ASSUME LogInv, NEW w \in Writers, PutBlob(w) PROVE LogInv'
<1> DEFINE s == [writers[w] EXCEPT !.pc = "put", !.blob = TRUE]
<1>1. writers[w] \in AnyWriter /\ writers[w].pc = "blob"
  BY DEF LogInv, Shape, PutBlob, At
<1>2. /\ FetchIsFaithful(writers[w]) /\ BlobIsStored(writers[w]) /\ NumberFits(writers[w])
  BY DEF LogInv
<1>3. s \in AnyWriter
  <2>1. "put" \in Steps /\ TRUE \in BOOLEAN
    BY DEF Steps
  <2>2. [writers[w] EXCEPT !.pc = "put"] \in AnyWriter
    BY <1>1, <2>1, WriterFields
  <2>3. [[writers[w] EXCEPT !.pc = "put"] EXCEPT !.blob = TRUE] \in AnyWriter
    BY <2>1, <2>2, WriterFields
  <2> QED BY <2>3
<1>4. /\ s.pc = "put" /\ s.blob /\ s.t = writers[w].t /\ s.attempt = writers[w].attempt
      /\ s.status = writers[w].status /\ s.url = writers[w].url
      /\ s.fetched = writers[w].fetched /\ s.payload = writers[w].payload
      /\ s.baseline = writers[w].baseline
  BY <1>1 DEF AnyWriter
<1>5. writers' = [writers EXCEPT ![w] = s]
  BY DEF PutBlob, LogInv, Shape
<1>6. writers[w].payload \in Payloads
  <2>1. writers[w].fetched \in 1 .. Len(served)
        /\ writers[w].payload = served[writers[w].fetched].payload
    BY <1>1, <1>2 DEF FetchIsFaithful, BlobIsStored, HasFetched
  <2>2. served \in Seq([url: Urls, payload: Payloads])
    BY DEF LogInv, Shape
  <2>3. ASSUME NEW n \in 1 .. Len(served) PROVE served[n].payload \in Payloads
    <3> DEFINE Answers == [url: Urls, payload: Payloads]
    <3>1. served \in Seq(Answers)
      BY <2>2
    <3>2. \A x \in Answers : x.payload \in Payloads
      OBVIOUS
    <3> HIDE DEF Answers
    <3>3. served[n] \in Answers
      BY <3>1
    <3> QED BY <3>2, <3>3
  <2> QED BY <2>1, <2>3
<1>7. blobs' = blobs \cup {writers[w].payload} /\ UNCHANGED <<served, entries, acked, lost>>
  BY DEF PutBlob
<1> HIDE DEF s
<1>8. Shape'
  BY <1>3, <1>5, <1>6, <1>7 DEF LogInv, Shape
<1>9. PICK r \in AnyWriter : r = s
  BY <1>3
<1>10. /\ FetchIsFaithful(r)' /\ BlobIsStored(r)' /\ NumberFits(r)'
  BY <1>1, <1>2, <1>4, <1>7, <1>9 DEF FetchIsFaithful, BlobIsStored, NumberFits,
     HasFetched, HasNumber
<1>11. \A v \in Writers : writers'[v] = IF v = w THEN r ELSE writers[v]
  BY <1>5, <1>9 DEF LogInv, Shape
<1>12. ASSUME NEW v \in Writers, v # w
       PROVE  FetchIsFaithful(writers[v])' /\ BlobIsStored(writers[v])'
              /\ NumberFits(writers[v])'
  <2>1. writers'[v] = writers[v]
    BY <1>11, <1>12
  <2>2. FetchIsFaithful(writers[v]) /\ BlobIsStored(writers[v]) /\ NumberFits(writers[v])
    BY DEF LogInv
  <2> QED BY <1>7, <2>1, <2>2 DEF FetchIsFaithful, BlobIsStored, NumberFits, HasFetched,
          HasNumber
<1>13. /\ EntriesAreFaithful' /\ NumberedWithoutHoles'
       /\ \A e \in entries' : e.payload \in blobs'
  BY <1>7 DEF LogInv, EntriesAreFaithful, NumberedWithoutHoles, SameKey
<1> QED BY <1>8, <1>10, <1>11, <1>12, <1>13 DEF LogInv

\* What an entry has to be to fit in the log.
Fits(e) ==
    /\ e \in AnyEntry
    /\ e.fetched \in 1 .. Len(served)
    /\ served[e.fetched] = [url |-> e.url, payload |-> e.payload]
    /\ e.payload \in blobs
    /\ e.attempt = 1 \/ \E d \in entries : d.t = e.t /\ d.attempt = e.attempt - 1

\* The entry Bronze.capture builds fits, a 304 included: its payload is the
\* baseline's, which is what the source still serves.
LEMMA EntryFits ==
    ASSUME LogInv, NEW w \in Writers, writers[w].pc \in {"put", "readback"}
    PROVE  Fits(EntryOf(w))
<1> DEFINE p == IF writers[w].status = 304 THEN writers[w].baseline.payload
                                           ELSE writers[w].payload
           e == EntryOf(w)
<1>1. writers[w] \in AnyWriter
  BY DEF LogInv, Shape
<1>2. FetchIsFaithful(writers[w]) /\ BlobIsStored(writers[w]) /\ NumberFits(writers[w])
  BY DEF LogInv
<1>3. /\ writers[w].t \in Instants /\ writers[w].attempt \in Nat
      /\ writers[w].status \in Statuses /\ writers[w].url \in Urls
      /\ writers[w].baseline \in AnyEntry \cup {NoEntry}
  BY <1>1 DEF AnyWriter
<1>4. writers[w].status = 304 \/ writers[w].status = 200
  BY <1>3 DEF Statuses
<1>5. /\ writers[w].fetched \in 1 .. Len(served)
      /\ served[writers[w].fetched].url = writers[w].url
      /\ served[writers[w].fetched].payload = p
  BY <1>2, <1>4 DEF FetchIsFaithful, HasFetched, HasNumber
<1>6. writers[w].attempt # 0
      /\ \/ writers[w].attempt = 1
         \/ \E d \in entries : d.t = writers[w].t /\ d.attempt = writers[w].attempt - 1
  BY <1>2 DEF NumberFits, HasNumber
<1>7. p \in blobs
  BY <1>2, <1>4 DEF BlobIsStored, FetchIsFaithful, HasFetched
<1>8. /\ e.t = writers[w].t /\ e.attempt = writers[w].attempt
      /\ e.fetched = writers[w].fetched /\ e.url = writers[w].url /\ e.payload = p
  BY DEF EntryOf
<1>9. writers[w].fetched \in 1 .. MaxFetches /\ p \in Payloads
  <2>1. Len(served) \in Nat /\ Len(served) <= MaxFetches
    BY DEF LogInv, Shape
  <2>2. blobs \subseteq Payloads
    BY DEF LogInv, Shape
  <2> QED BY <1>5, <1>7, <2>1, <2>2
<1>10. e \in AnyEntry
  <2>1. e = [t |-> writers[w].t, attempt |-> writers[w].attempt,
             fetched |-> writers[w].fetched, url |-> writers[w].url,
             status |-> writers[w].status, payload |-> p,
             changed |-> writers[w].baseline.payload # p]
    BY DEF EntryOf
  <2>2. (writers[w].baseline.payload # p) \in BOOLEAN
    OBVIOUS
  <2>3. writers[w].attempt \in Nat \ {0}
    BY <1>3, <1>6
  <2> HIDE DEF e, p
  <2> QED BY <1>3, <1>9, <2>1, <2>2, <2>3 DEF AnyEntry
<1>11. served[writers[w].fetched] = [url |-> writers[w].url, payload |-> p]
  <2> DEFINE Answers == [url: Urls, payload: Payloads]
  <2>1. served \in Seq(Answers)
    BY DEF LogInv, Shape
  <2>2. \A x \in Answers : x = [url |-> x.url, payload |-> x.payload]
    OBVIOUS
  <2> HIDE DEF Answers
  <2>3. served[writers[w].fetched] \in Answers
    BY <1>5, <2>1
  <2> QED BY <1>5, <2>2, <2>3
<1> HIDE DEF e, p
<1>12. Fits(e)
  BY <1>5, <1>6, <1>7, <1>8, <1>10, <1>11 DEF Fits
<1> QED BY <1>12 DEF e

\* S3CaptureLog.put_new: an entry that fits takes its place in the log, or that
\* of the entry with its key when the gateway lets it.
LEMMA EntryStep ==
    ASSUME LogInv, NEW w \in Writers, NEW s \in AnyWriter, NEW e, Fits(e),
           WriteEntry(e),
           writers' = [writers EXCEPT ![w] = s], lost' \in 0 .. MaxLost,
           UNCHANGED <<served, blobs, acked>>,
           FetchIsFaithful(s), BlobIsStored(s), NumberFits(s)
    PROVE  LogInv'
<1>1. e \in AnyEntry /\ entries \subseteq AnyEntry /\ IsFiniteSet(entries)
  BY DEF Fits, LogInv, Shape
<1> DEFINE Kept == {d \in entries : ~SameKey(d, e)}
<1>2. entries' = Kept \cup {e}
  BY DEF WriteEntry
<1>3. IsFiniteSet(entries')
  <2>1. Kept \in SUBSET entries
    OBVIOUS
  <2> HIDE DEF Kept
  <2>2. IsFiniteSet(Kept)
    BY <1>1, <2>1, FS_Subset
  <2> QED BY <1>2, <2>2, FS_AddElement
<1>4. entries' \subseteq AnyEntry
  BY <1>1, <1>2
<1>5. Shape'
  <2>1. Shape
    BY DEF LogInv
  <2> QED BY <1>3, <1>4, <2>1 DEF Shape
<1>6. EntriesAreFaithful' /\ \A d \in entries' : d.payload \in blobs'
  <2>1. EntriesAreFaithful /\ \A d \in entries : d.payload \in blobs
    BY DEF LogInv
  <2> QED BY <1>2, <2>1 DEF EntriesAreFaithful, Fits
<1>7. \* every key stays taken
      ASSUME NEW d \in entries
      PROVE  \E c \in entries' : c.t = d.t /\ c.attempt = d.attempt
  BY <1>2 DEF SameKey
<1>8. NumberedWithoutHoles'
  <2>1. NumberedWithoutHoles
    BY DEF LogInv
  <2>2. ASSUME NEW c \in entries', NEW d \in entries', SameKey(c, d) PROVE c = d
    BY <1>2, <2>1, <2>2 DEF NumberedWithoutHoles, SameKey
  <2>3. ASSUME NEW c \in entries', NEW i \in 1 .. c.attempt
        PROVE  \E d \in entries' : d.t = c.t /\ d.attempt = i
    <3>1. CASE c \in entries
      <4>1. \E d \in entries : d.t = c.t /\ d.attempt = i
        BY <2>1, <3>1 DEF NumberedWithoutHoles
      <4> QED BY <1>7, <4>1
    <3>2. CASE c = e
      <4>1. e.attempt \in Nat /\ i \in Nat /\ i <= e.attempt /\ i >= 1
        BY <1>1, <3>2 DEF AnyEntry
      <4>2. CASE i = e.attempt
        BY <1>2, <3>2, <4>2
      <4>3. CASE i # e.attempt
        <5>1. PICK d \in entries : d.t = e.t /\ d.attempt = e.attempt - 1
          BY <4>1, <4>3 DEF Fits
        <5>2. i \in 1 .. d.attempt
          BY <4>1, <4>3, <5>1
        <5>3. \E b \in entries : b.t = d.t /\ b.attempt = i
          BY <2>1, <5>2 DEF NumberedWithoutHoles
        <5> QED BY <1>7, <3>2, <5>1, <5>3
      <4> QED BY <4>2, <4>3
    <3> QED BY <1>2, <3>1, <3>2
  <2> QED BY <2>2, <2>3 DEF NumberedWithoutHoles
<1>9. \A v \in Writers : writers'[v] = IF v = w THEN s ELSE writers[v]
  BY DEF LogInv, Shape
<1>10. ASSUME NEW r, FetchIsFaithful(r), BlobIsStored(r), NumberFits(r)
       PROVE  FetchIsFaithful(r)' /\ BlobIsStored(r)' /\ NumberFits(r)'
  <2>1. FetchIsFaithful(r)' /\ BlobIsStored(r)'
    BY <1>10 DEF FetchIsFaithful, BlobIsStored, HasFetched, HasNumber
  <2>2. NumberFits(r)'
    BY <1>7, <1>10 DEF NumberFits, HasNumber
  <2> QED BY <2>1, <2>2
<1>11. ASSUME NEW v \in Writers
       PROVE  FetchIsFaithful(writers[v])' /\ BlobIsStored(writers[v])'
              /\ NumberFits(writers[v])'
  <2>1. PICK r : r = writers'[v]
    OBVIOUS
  <2>2. FetchIsFaithful(r) /\ BlobIsStored(r) /\ NumberFits(r)
    BY <1>9, <2>1 DEF LogInv
  <2>3. FetchIsFaithful(r)' /\ BlobIsStored(r)' /\ NumberFits(r)'
    BY <1>10, <2>2
  <2> QED BY <2>1, <2>3 DEF FetchIsFaithful, BlobIsStored, NumberFits, HasFetched, HasNumber
<1> QED BY <1>5, <1>6, <1>8, <1>11 DEF LogInv

\* The state a pod waits for the read-back in.
LEMMA GotoReadBack ==
    ASSUME LogInv, NEW w \in Writers, At(w, "put"), Goto(w, "readback")
    PROVE  \E s \in AnyWriter :
              /\ writers' = [writers EXCEPT ![w] = s]
              /\ FetchIsFaithful(s) /\ BlobIsStored(s) /\ NumberFits(s)
              /\ s = [writers[w] EXCEPT !.pc = "readback"]
<1> DEFINE s == [writers[w] EXCEPT !.pc = "readback"]
<1>1. writers[w] \in AnyWriter /\ writers[w].pc = "put"
  BY DEF LogInv, Shape, At
<1>2. s \in AnyWriter
  <2>1. "readback" \in Steps
    BY DEF Steps
  <2> QED BY <1>1, <2>1, WriterFields
<1>3. /\ s.pc = "readback" /\ s.t = writers[w].t /\ s.attempt = writers[w].attempt
      /\ s.status = writers[w].status /\ s.url = writers[w].url
      /\ s.fetched = writers[w].fetched /\ s.payload = writers[w].payload
      /\ s.baseline = writers[w].baseline /\ s.blob = writers[w].blob
  BY <1>1 DEF AnyWriter
<1>4. writers' = [writers EXCEPT ![w] = s]
  BY DEF Goto, LogInv, Shape
<1>5. FetchIsFaithful(writers[w]) /\ BlobIsStored(writers[w]) /\ NumberFits(writers[w])
  BY DEF LogInv
<1>6. FetchIsFaithful(s) /\ BlobIsStored(s) /\ NumberFits(s)
  <2> HIDE DEF s
  <2> QED
    BY <1>1, <1>3, <1>5 DEF FetchIsFaithful, BlobIsStored, NumberFits, HasFetched, HasNumber
<1> QED BY <1>2, <1>4, <1>6

\* The conditional PUT: refused, done, or done with its response lost.
LEMMA PutEntryInv ==
    ASSUME LogInv, NEW w \in Writers, PutEntry(w) PROVE LogInv'
<1>1. writers[w].pc = "put" /\ At(w, "put") /\ HasNumber(writers[w])
  BY DEF PutEntry, At, HasNumber
<1>2. Fits(EntryOf(w))
  BY <1>1, EntryFits
<1>3. lost \in 0 .. MaxLost
  BY DEF LogInv, Shape
<1>4. UNCHANGED <<served, blobs, acked>>
  BY DEF PutEntry
<1>5. CASE Collide(w) /\ UNCHANGED <<entries, lost>>
  BY <1>1, <1>4, <1>5, CollideLocal, LocalStep
<1>6. CASE WriteEntry(EntryOf(w)) /\ Goto(w, "readback") /\ UNCHANGED lost
  BY <1>1, <1>2, <1>3, <1>4, <1>6, GotoReadBack, EntryStep
<1>7. CASE lost < MaxLost /\ lost' = lost + 1 /\ WriteEntry(EntryOf(w)) /\ Collide(w)
  <2>1. lost' \in 0 .. MaxLost
    BY <1>3, <1>7
  <2> QED BY <1>1, <1>2, <1>4, <1>7, <2>1, CollideLocal, EntryStep
<1> QED BY <1>5, <1>6, <1>7 DEF PutEntry

\* The read-back: an acknowledgement, or a collision found late.
LEMMA ReadBackInv ==
    ASSUME LogInv, NEW w \in Writers, ReadBack(w) PROVE LogInv'
<1>1. writers[w].pc = "readback" /\ HasNumber(writers[w])
  BY DEF ReadBack, At, HasNumber
<1>2. UNCHANGED <<served, blobs, entries, lost>>
  BY DEF ReadBack
<1>3. EntryOf(w) \in AnyEntry
  BY <1>1, EntryFits DEF Fits
<1>4. CASE acked' = acked \cup {EntryOf(w)} /\ Finish(w)
  <2>1. acked' \subseteq AnyEntry
    BY <1>3, <1>4 DEF LogInv, Shape
  <2> QED BY <1>2, <1>4, <2>1, AckStep, IdleIsHarmless, Defaults DEF Finish
<1>5. CASE Collide(w) /\ UNCHANGED acked
  BY <1>1, <1>2, <1>5, CollideLocal, LocalStep
<1> QED BY <1>4, <1>5 DEF ReadBack

\* No step of any pod breaks the invariant, whatever the gateway does.
LEMMA LogInvStep == LogInv /\ [Next]_vars => LogInv'
<1> SUFFICES ASSUME LogInv, [Next]_vars PROVE LogInv'
  OBVIOUS
<1>1. ASSUME NEW w \in Writers, NEW t \in Instants, NEW force \in BOOLEAN,
             Begin(w, t, force)
      PROVE  LogInv'
  BY <1>1, BeginInv
<1>2. ASSUME NEW w \in Writers, NEW u \in Urls, NEW p \in Payloads,
             NEW status \in Statuses, Fetch(w, u, p, status)
      PROVE  LogInv'
  BY <1>2, FetchInv
<1>3. ASSUME NEW w \in Writers, ReadBaseline(w) PROVE LogInv'
  BY <1>3, ReadBaselineInv
<1>4. ASSUME NEW w \in Writers, FetchFails(w) \/ Crash(w) PROVE LogInv'
  BY <1>4, FinishInv DEF FetchFails, Crash
<1>5. ASSUME NEW w \in Writers, List(w) PROVE LogInv'
  BY <1>5, ListInv
<1>6. ASSUME NEW w \in Writers, PutBlob(w) PROVE LogInv'
  BY <1>6, PutBlobInv
<1>7. ASSUME NEW w \in Writers, PutEntry(w) PROVE LogInv'
  BY <1>7, PutEntryInv
<1>8. ASSUME NEW w \in Writers, ReadBack(w) PROVE LogInv'
  BY <1>8, ReadBackInv
<1>9. CASE UNCHANGED vars
  BY <1>9 DEF vars, LogInv, Shape, EntriesAreFaithful, NumberedWithoutHoles, SameKey,
     FetchIsFaithful, BlobIsStored, NumberFits, HasFetched, HasNumber
<1> QED BY <1>1, <1>2, <1>3, <1>4, <1>5, <1>6, <1>7, <1>8, <1>9 DEF Next

\* The log's invariant holds of every behaviour.
LEMMA LogInvAlways == Spec => []LogInv
  BY LogInvInit, LogInvStep, PTL DEF Spec

\* What an entry of Bronze says was fetched is what the source answered to that
\* very fetch, a 304 included, for any number of racing pods, lost responses
\* and crashes, and whether or not the gateway honours If-None-Match.
THEOREM EntriesStayFaithful == Spec => []EntriesAreFaithful
<1>1. LogInv => EntriesAreFaithful
  BY DEF LogInv
<1> QED BY <1>1, LogInvAlways, PTL

------------------------------------------------------------------------------
(* With a gateway that creates only, as put_new asks of it.                *)

\* Numbers up to n can be counted.
LEMMA CountedUpTo ==
    ASSUME NEW n \in Nat, NEW S \in SUBSET (1 .. n)
    PROVE  IsFiniteSet(S) /\ Cardinality(S) \in Nat /\ Cardinality(S) <= n
<1>1. IsFiniteSet(1 .. n) /\ Cardinality(1 .. n) = IF 1 > n THEN 0 ELSE n - 1 + 1
  BY FS_Interval
<1>2. Cardinality(1 .. n) = n
  BY <1>1
<1>3. IsFiniteSet(S) /\ Cardinality(S) <= n
  <2> DEFINE T == 1 .. n
  <2>1. IsFiniteSet(T) /\ Cardinality(T) = n /\ S \in SUBSET T
    BY <1>1, <1>2
  <2> HIDE DEF T
  <2>2. IsFiniteSet(S) /\ Cardinality(S) <= Cardinality(T)
    BY <2>1, FS_Subset
  <2> QED BY <2>1, <2>2
<1>4. Cardinality(S) \in Nat
  BY <1>3, FS_CardinalityType
<1> QED BY <1>3, <1>4

\* The fetches that are over can be counted, and so can the entries.
LEMMA SpentIsFinite ==
    ASSUME Shape
    PROVE  /\ IsFiniteSet(Spent) /\ Cardinality(Spent) \in Nat
           /\ Cardinality(Spent) <= Len(served)
           /\ IsFiniteSet(entries) /\ Cardinality(entries) \in Nat
           /\ lost \in Nat /\ lost <= MaxLost /\ Len(served) \in Nat
<1>1. Len(served) \in Nat /\ lost \in Nat /\ lost <= MaxLost /\ IsFiniteSet(entries)
  BY DEF Shape
<1>2. Spent \in SUBSET (1 .. Len(served))
  BY DEF Spent
<1>3. IsFiniteSet(Spent) /\ Cardinality(Spent) \in Nat /\ Cardinality(Spent) <= Len(served)
  BY <1>1, <1>2, CountedUpTo
<1>4. Cardinality(entries) \in Nat
  BY <1>1, FS_CardinalityType
<1> QED BY <1>1, <1>3, <1>4

\* A pod that writes no entry and fetches nothing opens no fetch again.
LEMMA QuietStep ==
    ASSUME BronzeInv, LogInv', NEW w \in Writers, NEW s,
           writers' = [writers EXCEPT ![w] = s],
           UNCHANGED <<served, entries, lost>>, acked' \subseteq entries,
           HasFetched(s) => HasFetched(writers[w]) /\ s.fetched = writers[w].fetched,
           MayStillWrite(s) => MayStillWrite(writers[w]),
           s.pc # "readback", s.baseline \in entries \cup {NoEntry}
    PROVE  BronzeInv'
<1>1. \A v \in Writers : writers'[v] = IF v = w THEN s ELSE writers[v]
  BY DEF BronzeInv, LogInv, Shape
<1>2. ASSUME NEW v \in Writers
      PROVE  /\ At(v, "readback")' => EntryOf(v)' \in entries'
             /\ writers'[v].baseline \in entries' \cup {NoEntry}
  <2>1. CASE v = w
    BY <1>1, <2>1 DEF At
  <2>2. CASE v # w
    <3>1. writers'[v] = writers[v]
      BY <1>1, <2>2
    <3>2. /\ At(v, "readback") => EntryOf(v) \in entries
          /\ writers[v].baseline \in entries \cup {NoEntry}
      BY DEF BronzeInv
    <3> QED BY <3>1, <3>2 DEF At, EntryOf
  <2> QED BY <2>1, <2>2
<1>3. ASSUME NEW u \in Writers, NEW v \in Writers, HasFetched(writers'[u]),
             HasFetched(writers'[v]), writers'[u].fetched = writers'[v].fetched
      PROVE  u = v
  <2>1. \A x \in Writers : HasFetched(writers'[x]) =>
            HasFetched(writers[x]) /\ writers[x].fetched = writers'[x].fetched
    BY <1>1
  <2> QED BY <1>3, <2>1 DEF BronzeInv, EntriesAreAccounted
<1>4. Cardinality(entries') <= Cardinality(Spent') + lost'
  <2>1. \A x \in Writers : MayStillWrite(writers'[x]) =>
            MayStillWrite(writers[x]) /\ writers[x].fetched = writers'[x].fetched
    BY <1>1 DEF MayStillWrite, HasFetched
  <2>2. Spent \in SUBSET Spent'
    BY <2>1 DEF Spent, Open, MayStillWrite
  <2>3. IsFiniteSet(Spent') /\ Cardinality(Spent') \in Nat
    <3>1. Len(served') \in Nat
      BY DEF LogInv, Shape
    <3>2. Spent' \in SUBSET (1 .. Len(served'))
      BY DEF Spent
    <3> QED BY <3>1, <3>2, CountedUpTo
  <2>4. Cardinality(Spent) <= Cardinality(Spent')
    BY <2>2, <2>3, FS_Subset
  <2>5. Cardinality(Spent) \in Nat /\ Cardinality(entries) \in Nat /\ lost \in Nat
    BY SpentIsFinite DEF BronzeInv, LogInv
  <2>6. Cardinality(entries) <= Cardinality(Spent) + lost
    BY DEF BronzeInv, EntriesAreAccounted
  <2> QED BY <2>3, <2>4, <2>5, <2>6
<1>5. EntriesAreAccounted'
  BY <1>3, <1>4 DEF EntriesAreAccounted, HasFetched
<1> QED BY <1>2, <1>5 DEF BronzeInv, AcknowledgedIsDurable

\* A pod that ends, or acknowledges what is in the log and ends.
LEMMA FinishQuiet ==
    ASSUME BronzeInv, LogInv', NEW w \in Writers, Finish(w),
           UNCHANGED <<served, entries, lost>>, acked' \subseteq entries
    PROVE  BronzeInv'
<1>1. /\ ~HasFetched(Idle) /\ ~MayStillWrite(Idle)
      /\ Idle.pc # "readback" /\ Idle.baseline = NoEntry
  BY DEF HasFetched, MayStillWrite, Idle
<1> QED BY <1>1, QuietStep DEF Finish

\* A refused PUT.
LEMMA CollideQuiet ==
    ASSUME BronzeInv, LogInv', NEW w \in Writers, At(w, "put"), Collide(w),
           UNCHANGED <<served, entries, lost, acked>>
    PROVE  BronzeInv'
<1>1. acked' \subseteq entries
  BY DEF BronzeInv, AcknowledgedIsDurable
<1>2. CASE Finish(w)
  BY <1>1, <1>2, FinishQuiet
<1>3. CASE writers' = [writers EXCEPT ![w].pc = "list", ![w].tries = @ + 1]
  <2> DEFINE s == [writers[w] EXCEPT !.pc = "list", !.tries = @ + 1]
  <2>1. writers[w] \in AnyWriter /\ writers[w].baseline \in entries \cup {NoEntry}
    BY DEF BronzeInv, LogInv, Shape
  <2>2. /\ s.pc = "list" /\ s.fetched = writers[w].fetched
        /\ s.baseline = writers[w].baseline
    BY <2>1 DEF AnyWriter
  <2>3. writers' = [writers EXCEPT ![w] = s]
    BY <1>3 DEF BronzeInv, LogInv, Shape
  <2> HIDE DEF s
  <2>4. HasFetched(writers[w]) /\ MayStillWrite(writers[w])
    BY DEF At, HasFetched, MayStillWrite
  <2> QED BY <1>1, <2>1, <2>2, <2>3, <2>4, QuietStep
<1> QED BY <1>2, <1>3 DEF Collide

\* The steps before the PUT.
LEMMA BeginQuiet ==
    ASSUME BronzeInv, LogInv', NEW w \in Writers, NEW t \in Instants,
           NEW force \in BOOLEAN, Begin(w, t, force)
    PROVE  BronzeInv'
<1> DEFINE s == [Idle EXCEPT !.pc = "baseline", !.t = t, !.force = force]
<1>1. s.pc = "baseline" /\ s.baseline = NoEntry
  BY DEF Idle
<1>2. writers' = [writers EXCEPT ![w] = s]
  BY DEF Begin
<1> HIDE DEF s
<1>3. ~HasFetched(s) /\ ~MayStillWrite(s)
  BY <1>1 DEF HasFetched, MayStillWrite
<1>4. acked' \subseteq entries /\ UNCHANGED <<served, entries, lost>>
  BY DEF Begin, BronzeInv, AcknowledgedIsDurable
<1> QED BY <1>1, <1>2, <1>3, <1>4, QuietStep

LEMMA ReadBaselineQuiet ==
    ASSUME BronzeInv, LogInv', NEW w \in Writers, ReadBaseline(w) PROVE BronzeInv'
<1> DEFINE b == Baseline(writers[w].t)
           s == [writers[w] EXCEPT !.pc = "fetch", !.baseline = b]
<1>1. b \in entries \cup {NoEntry}
  BY BaselineIsAnEntry DEF BronzeInv, LogInv
<1> HIDE DEF b
<1>2. writers[w] \in AnyWriter
  BY DEF BronzeInv, LogInv, Shape
<1>3. s.pc = "fetch" /\ s.baseline = b
  BY <1>2 DEF AnyWriter
<1>4. writers' = [writers EXCEPT ![w] = s]
  BY DEF ReadBaseline, b, BronzeInv, LogInv, Shape
<1> HIDE DEF s
<1>5. ~HasFetched(s) /\ ~MayStillWrite(s)
  BY <1>3 DEF HasFetched, MayStillWrite
<1>6. acked' \subseteq entries /\ UNCHANGED <<served, entries, lost>>
  BY DEF ReadBaseline, BronzeInv, AcknowledgedIsDurable
<1> QED BY <1>1, <1>3, <1>4, <1>5, <1>6, QuietStep

LEMMA ListQuiet ==
    ASSUME BronzeInv, LogInv', NEW w \in Writers, List(w) PROVE BronzeInv'
<1>1. acked' \subseteq entries /\ UNCHANGED <<served, entries, lost>>
  BY DEF List, BronzeInv, AcknowledgedIsDurable
<1>2. CASE Finish(w)
  BY <1>1, <1>2, FinishQuiet
<1>3. CASE writers' = [writers EXCEPT ![w].pc = AfterList(w),
                                      ![w].attempt = NextAttempt(writers[w].t)]
  <2> DEFINE n == NextAttempt(writers[w].t)
             s == [writers[w] EXCEPT !.pc = AfterList(w), !.attempt = n]
  <2> HIDE DEF n
  <2>1. writers[w] \in AnyWriter /\ writers[w].baseline \in entries \cup {NoEntry}
    BY DEF BronzeInv, LogInv, Shape
  <2>2. /\ s.pc = AfterList(w) /\ s.fetched = writers[w].fetched
        /\ s.baseline = writers[w].baseline
    BY <2>1 DEF AnyWriter
  <2>3. writers' = [writers EXCEPT ![w] = s]
    BY <1>3 DEF n, BronzeInv, LogInv, Shape
  <2> HIDE DEF s
  <2>4. HasFetched(writers[w]) /\ MayStillWrite(writers[w]) /\ s.pc # "readback"
    BY <2>2 DEF List, At, HasFetched, MayStillWrite, AfterList
  <2> QED BY <1>1, <2>1, <2>2, <2>3, <2>4, QuietStep
<1> QED BY <1>2, <1>3 DEF List

LEMMA PutBlobQuiet ==
    ASSUME BronzeInv, LogInv', NEW w \in Writers, PutBlob(w) PROVE BronzeInv'
<1> DEFINE s == [writers[w] EXCEPT !.pc = "put", !.blob = TRUE]
<1>1. writers[w] \in AnyWriter /\ writers[w].baseline \in entries \cup {NoEntry}
  BY DEF BronzeInv, LogInv, Shape
<1>2. s.pc = "put" /\ s.fetched = writers[w].fetched /\ s.baseline = writers[w].baseline
  BY <1>1 DEF AnyWriter
<1>3. writers' = [writers EXCEPT ![w] = s]
  BY DEF PutBlob, BronzeInv, LogInv, Shape
<1> HIDE DEF s
<1>4. HasFetched(writers[w]) /\ MayStillWrite(writers[w])
  BY DEF PutBlob, At, HasFetched, MayStillWrite
<1>5. acked' \subseteq entries /\ UNCHANGED <<served, entries, lost>>
  BY DEF PutBlob, BronzeInv, AcknowledgedIsDurable
<1> QED BY <1>1, <1>2, <1>3, <1>4, <1>5, QuietStep

\* The read-back always finds the pod's own entry, and acknowledges it.
LEMMA ReadBackQuiet ==
    ASSUME BronzeInv, LogInv', NEW w \in Writers, ReadBack(w) PROVE BronzeInv'
<1>1. EntryOf(w) \in entries
  BY DEF ReadBack, BronzeInv
<1>2. acked' = acked \cup {EntryOf(w)} /\ Finish(w) /\ UNCHANGED <<served, entries, lost>>
  BY <1>1 DEF ReadBack, SameKey
<1>3. acked' \subseteq entries
  BY <1>1, <1>2 DEF BronzeInv, AcknowledgedIsDurable
<1> QED BY <1>2, <1>3, FinishQuiet

\* A new fetch is open: the fetches that are over stay the same.
LEMMA FetchQuiet ==
    ASSUME BronzeInv, LogInv', NEW w \in Writers, NEW u \in Urls, NEW p \in Payloads,
           NEW status \in Statuses, Fetch(w, u, p, status)
    PROVE  BronzeInv'
<1> DEFINE n == Len(served) + 1
           s == [writers[w] EXCEPT !.pc = "list", !.status = status, !.url = u,
                    !.fetched = n, !.payload = IF status = 200 THEN p ELSE NoPayload]
<1>1. /\ writers[w] \in AnyWriter /\ writers[w].baseline \in entries \cup {NoEntry}
      /\ Len(served) \in Nat /\ n \in Nat /\ n \notin 1 .. Len(served)
  BY DEF BronzeInv, LogInv, Shape
<1>2. Len(served') = n
  BY DEF Fetch, BronzeInv, LogInv, Shape
<1> HIDE DEF n
<1>3. s.pc = "list" /\ s.fetched = n /\ s.baseline = writers[w].baseline
  BY <1>1 DEF AnyWriter
<1>4. writers' = [writers EXCEPT ![w] = s]
  BY DEF Fetch, n
<1> HIDE DEF s
<1>5. \A v \in Writers : writers'[v] = IF v = w THEN s ELSE writers[v]
  BY <1>4 DEF BronzeInv, LogInv, Shape
<1>6. UNCHANGED <<entries, acked, lost>>
  BY DEF Fetch
<1>7. HasFetched(s) /\ MayStillWrite(s) /\ ~HasFetched(writers[w])
      /\ ~MayStillWrite(writers[w])
  BY <1>3 DEF HasFetched, MayStillWrite, Fetch, At
<1>8. \A v \in Writers : HasFetched(writers[v]) => writers[v].fetched \in 1 .. Len(served)
  BY DEF BronzeInv, LogInv, FetchIsFaithful
<1>9. ASSUME NEW v \in Writers
      PROVE  /\ At(v, "readback")' => EntryOf(v)' \in entries'
             /\ writers'[v].baseline \in entries' \cup {NoEntry}
  <2>1. CASE v = w
    BY <1>1, <1>3, <1>5, <1>6, <2>1 DEF At
  <2>2. CASE v # w
    <3>1. writers'[v] = writers[v]
      BY <1>5, <2>2
    <3>2. /\ At(v, "readback") => EntryOf(v) \in entries
          /\ writers[v].baseline \in entries \cup {NoEntry}
      BY DEF BronzeInv
    <3> QED BY <1>6, <3>1, <3>2 DEF At, EntryOf
  <2> QED BY <2>1, <2>2
<1>10. ASSUME NEW x \in Writers, NEW v \in Writers, HasFetched(writers'[x]),
              HasFetched(writers'[v]), writers'[x].fetched = writers'[v].fetched
       PROVE  x = v
  <2>1. \A y \in Writers : y # w => writers'[y] = writers[y]
    BY <1>5
  <2>2. writers'[w] = s
    BY <1>5
  <2>3. CASE x # w /\ v # w
    BY <1>10, <2>1, <2>3 DEF BronzeInv, EntriesAreAccounted
  <2>4. CASE x = w /\ v # w
    BY <1>1, <1>3, <1>8, <1>10, <2>1, <2>2, <2>4
  <2>5. CASE v = w /\ x # w
    BY <1>1, <1>3, <1>8, <1>10, <2>1, <2>2, <2>5
  <2> QED BY <2>3, <2>4, <2>5
<1>11. Spent' = Spent
  <2>1. 1 .. Len(served') = (1 .. Len(served)) \cup {n}
    BY <1>1, <1>2 DEF n
  <2>2. \A m \in 1 .. Len(served) :
            (\E v \in Writers : MayStillWrite(writers'[v]) /\ writers'[v].fetched = m)
            <=> (\E v \in Writers : MayStillWrite(writers[v]) /\ writers[v].fetched = m)
    BY <1>1, <1>3, <1>5, <1>7
  <2>3. \E v \in Writers : MayStillWrite(writers'[v]) /\ writers'[v].fetched = n
    BY <1>3, <1>5, <1>7
  <2>4. Open' = Open \cup {n}
    BY <2>1, <2>2, <2>3 DEF Open, MayStillWrite
  <2>5. Open \subseteq 1 .. Len(served)
    BY DEF Open
  <2> QED BY <1>1, <2>1, <2>4, <2>5 DEF Spent
<1>12. EntriesAreAccounted'
  <2>1. Cardinality(entries) <= Cardinality(Spent) + lost
    BY DEF BronzeInv, EntriesAreAccounted
  <2> QED BY <1>6, <1>10, <1>11, <2>1 DEF EntriesAreAccounted, HasFetched
<1> QED BY <1>6, <1>9, <1>12 DEF BronzeInv, AcknowledgedIsDurable

\* A new entry is paid for: its fetch is over, or its response was lost.
LEMMA WriteQuiet ==
    ASSUME BronzeInv, LogInv', NEW w \in Writers, NEW s, NEW e, e \notin entries,
           entries' = entries \cup {e}, writers' = [writers EXCEPT ![w] = s],
           UNCHANGED <<served, acked>>, MayStillWrite(writers[w]),
           HasFetched(s) => s.fetched = writers[w].fetched,
           \/ lost' = lost /\ ~MayStillWrite(s)
           \/ lost' = lost + 1,
           s.pc = "readback" => EntryOf(w)' = e,
           s.baseline \in entries \cup {NoEntry}
    PROVE  BronzeInv'
<1>1. \A v \in Writers : writers'[v] = IF v = w THEN s ELSE writers[v]
  BY DEF BronzeInv, LogInv, Shape
<1>2. HasFetched(writers[w])
  BY DEF MayStillWrite, HasFetched
<1>3. ASSUME NEW v \in Writers
      PROVE  /\ At(v, "readback")' => EntryOf(v)' \in entries'
             /\ writers'[v].baseline \in entries' \cup {NoEntry}
  <2>1. CASE v = w
    BY <1>1, <2>1 DEF At
  <2>2. CASE v # w
    <3>1. writers'[v] = writers[v]
      BY <1>1, <2>2
    <3>2. /\ At(v, "readback") => EntryOf(v) \in entries
          /\ writers[v].baseline \in entries \cup {NoEntry}
      BY DEF BronzeInv
    <3> QED BY <3>1, <3>2 DEF At, EntryOf
  <2> QED BY <2>1, <2>2
<1>4. \A x \in Writers : HasFetched(writers'[x]) =>
            HasFetched(writers[x]) /\ writers[x].fetched = writers'[x].fetched
  BY <1>1, <1>2
<1>5. \A x, v \in Writers :
         HasFetched(writers[x]) /\ HasFetched(writers[v])
           /\ writers[x].fetched = writers[v].fetched => x = v
  BY DEF BronzeInv, EntriesAreAccounted
<1>6. \A x, v \in Writers :
         HasFetched(writers'[x]) /\ HasFetched(writers'[v])
           /\ writers'[x].fetched = writers'[v].fetched => x = v
  BY <1>4, <1>5
<1>7. /\ Cardinality(Spent) \in Nat /\ Cardinality(entries) \in Nat /\ lost \in Nat
      /\ IsFiniteSet(entries) /\ IsFiniteSet(Spent)
  BY SpentIsFinite DEF BronzeInv, LogInv
<1>8. Cardinality(entries') = Cardinality(entries) + 1
  BY <1>7, FS_AddElement
<1>9. Cardinality(entries) <= Cardinality(Spent) + lost
  BY DEF BronzeInv, EntriesAreAccounted
<1>10. Spent \in SUBSET Spent'
  <2>1. \A x \in Writers : MayStillWrite(writers'[x]) =>
            MayStillWrite(writers[x]) /\ writers[x].fetched = writers'[x].fetched
    BY <1>1 DEF MayStillWrite, HasFetched
  <2> QED BY <2>1 DEF Spent, Open, MayStillWrite
<1>11. IsFiniteSet(Spent') /\ Cardinality(Spent') \in Nat
  <2>1. Len(served') \in Nat
    BY DEF LogInv, Shape
  <2>2. Spent' \in SUBSET (1 .. Len(served'))
    BY DEF Spent
  <2> QED BY <2>1, <2>2, CountedUpTo
<1>12. Cardinality(entries') <= Cardinality(Spent') + lost'
  <2>1. CASE lost' = lost + 1
    <3>1. Cardinality(Spent) <= Cardinality(Spent')
      BY <1>10, <1>11, FS_Subset
    <3> QED BY <1>7, <1>8, <1>9, <1>11, <2>1, <3>1
  <2>2. CASE lost' = lost /\ ~MayStillWrite(s)
    <3> DEFINE n == writers[w].fetched
    <3>1. n \in 1 .. Len(served)
      BY <1>2 DEF BronzeInv, LogInv, FetchIsFaithful
    <3>2. n \in Open
      BY <3>1 DEF Open
    <3>3. ASSUME NEW v \in Writers, MayStillWrite(writers'[v]), writers'[v].fetched = n
          PROVE  FALSE
      <4>1. HasFetched(writers'[v])
        BY <3>3 DEF MayStillWrite, HasFetched
      <4>2. v = w
        BY <1>2, <1>4, <1>5, <3>3, <4>1
      <4> QED BY <1>1, <2>2, <3>3, <4>2
    <3> HIDE DEF n
    <3>4. n \notin Open'
      BY <3>3 DEF Open, MayStillWrite
    <3>5. n \in Spent' /\ n \notin Spent
      BY <3>1, <3>2, <3>4 DEF Spent
    <3>6. Spent \cup {n} \in SUBSET Spent'
      BY <1>10, <3>5
    <3>7. Cardinality(Spent \cup {n}) <= Cardinality(Spent')
      BY <1>11, <3>6, FS_Subset
    <3>8. Cardinality(Spent \cup {n}) = Cardinality(Spent) + 1
      BY <1>7, <3>5, FS_AddElement
    <3> QED BY <1>7, <1>8, <1>9, <1>11, <2>2, <3>7, <3>8
  <2> QED BY <2>1, <2>2
<1>13. EntriesAreAccounted'
  BY <1>6, <1>12 DEF EntriesAreAccounted, HasFetched
<1>14. AcknowledgedIsDurable'
  BY DEF BronzeInv, AcknowledgedIsDurable
<1> QED BY <1>3, <1>13, <1>14 DEF BronzeInv

\* A create-only gateway writes an entry only where none is.
LEMMA WriteAdds ==
    ASSUME CreateOnly, NEW e, ~Answers412(e), WriteEntry(e)
    PROVE  e \notin entries /\ entries' = entries \cup {e}
  BY DEF Answers412, WriteEntry, SameKey

LEMMA PutEntryQuiet ==
    ASSUME CreateOnly, BronzeInv, LogInv', NEW w \in Writers, PutEntry(w)
    PROVE  BronzeInv'
<1> DEFINE e == EntryOf(w)
<1>1. /\ At(w, "put") /\ MayStillWrite(writers[w]) /\ HasFetched(writers[w])
      /\ UNCHANGED <<served, blobs, acked>>
  BY DEF PutEntry, At, MayStillWrite, HasFetched
<1>2. writers[w] \in AnyWriter /\ writers[w].baseline \in entries \cup {NoEntry}
  BY DEF BronzeInv, LogInv, Shape
<1>3. CASE Collide(w) /\ UNCHANGED <<entries, lost>>
  BY <1>1, <1>3, CollideQuiet
<1>4. CASE ~Answers412(e) /\ WriteEntry(e) /\ Goto(w, "readback") /\ UNCHANGED lost
  <2>1. e \notin entries /\ entries' = entries \cup {e}
    BY <1>4, WriteAdds
  <2> DEFINE s == [writers[w] EXCEPT !.pc = "readback"]
  <2>2. /\ s.pc = "readback" /\ s.fetched = writers[w].fetched
        /\ s.baseline = writers[w].baseline
    BY <1>2 DEF AnyWriter
  <2>3. writers' = [writers EXCEPT ![w] = s]
    BY <1>4 DEF Goto, BronzeInv, LogInv, Shape
  <2>4. EntryOf(w)' = e
    <3>1. writers'[w] = s
      BY <2>3 DEF BronzeInv, LogInv, Shape
    <3>2. /\ s.t = writers[w].t /\ s.attempt = writers[w].attempt
          /\ s.url = writers[w].url /\ s.status = writers[w].status
          /\ s.payload = writers[w].payload
      BY <1>2 DEF AnyWriter
    <3> HIDE DEF s
    <3> QED BY <2>2, <3>1, <3>2 DEF EntryOf
  <2> HIDE DEF s, e
  <2>5. ~MayStillWrite(s)
    BY <2>2 DEF MayStillWrite
  <2> QED BY <1>1, <1>2, <1>4, <2>1, <2>2, <2>3, <2>4, <2>5, WriteQuiet
<1>5. CASE ~Answers412(e) /\ lost' = lost + 1 /\ WriteEntry(e) /\ Collide(w)
  <2>1. e \notin entries /\ entries' = entries \cup {e}
    BY <1>5, WriteAdds
  <2> HIDE DEF e
  <2>2. CASE Finish(w)
    <3>1. ~HasFetched(Idle) /\ Idle.pc # "readback" /\ Idle.baseline = NoEntry
      BY DEF HasFetched, Idle
    <3> QED BY <1>1, <1>5, <2>1, <2>2, <3>1, WriteQuiet DEF Finish
  <2>3. CASE writers' = [writers EXCEPT ![w].pc = "list", ![w].tries = @ + 1]
    <3> DEFINE s == [writers[w] EXCEPT !.pc = "list", !.tries = @ + 1]
    <3>1. /\ s.pc = "list" /\ s.fetched = writers[w].fetched
          /\ s.baseline = writers[w].baseline
      BY <1>2 DEF AnyWriter
    <3>2. writers' = [writers EXCEPT ![w] = s]
      BY <2>3 DEF BronzeInv, LogInv, Shape
    <3> HIDE DEF s
    <3> QED BY <1>1, <1>2, <1>5, <2>1, <3>1, <3>2, WriteQuiet
  <2> QED BY <1>5, <2>2, <2>3 DEF Collide
<1> QED BY <1>3, <1>4, <1>5 DEF PutEntry

LEMMA BronzeInvInit == Init => BronzeInv
<1> SUFFICES ASSUME Init PROVE BronzeInv
  OBVIOUS
<1>1. LogInv
  BY LogInvInit
<1>2. \A w \in Writers : writers[w] = Idle
  BY DEF Init
<1>3. ~HasFetched(Idle) /\ Idle.pc # "readback" /\ Idle.baseline = NoEntry
  BY DEF HasFetched, Idle
<1>4. Cardinality(entries) = 0
  BY FS_EmptySet DEF Init
<1>5. Cardinality(Spent) \in Nat /\ lost = 0
  BY <1>1, SpentIsFinite DEF LogInv, Init
<1>6. EntriesAreAccounted
  BY <1>2, <1>3, <1>4, <1>5 DEF EntriesAreAccounted
<1> QED BY <1>1, <1>2, <1>3, <1>6 DEF BronzeInv, AcknowledgedIsDurable, Init, At

LEMMA BronzeInvStep == CreateOnly /\ BronzeInv /\ [Next]_vars => BronzeInv'
<1> SUFFICES ASSUME CreateOnly, BronzeInv, [Next]_vars PROVE BronzeInv'
  OBVIOUS
<1>1. LogInv'
  BY LogInvStep DEF BronzeInv
<1>2. ASSUME NEW w \in Writers, NEW t \in Instants, NEW force \in BOOLEAN,
             Begin(w, t, force)
      PROVE  BronzeInv'
  BY <1>1, <1>2, BeginQuiet
<1>3. ASSUME NEW w \in Writers, NEW u \in Urls, NEW p \in Payloads,
             NEW status \in Statuses, Fetch(w, u, p, status)
      PROVE  BronzeInv'
  BY <1>1, <1>3, FetchQuiet
<1>4. ASSUME NEW w \in Writers, ReadBaseline(w) PROVE BronzeInv'
  BY <1>1, <1>4, ReadBaselineQuiet
<1>5. ASSUME NEW w \in Writers, FetchFails(w) \/ Crash(w) PROVE BronzeInv'
  BY <1>1, <1>5, FinishQuiet DEF FetchFails, Crash, BronzeInv, AcknowledgedIsDurable
<1>6. ASSUME NEW w \in Writers, List(w) PROVE BronzeInv'
  BY <1>1, <1>6, ListQuiet
<1>7. ASSUME NEW w \in Writers, PutBlob(w) PROVE BronzeInv'
  BY <1>1, <1>7, PutBlobQuiet
<1>8. ASSUME NEW w \in Writers, PutEntry(w) PROVE BronzeInv'
  BY <1>1, <1>8, PutEntryQuiet
<1>9. ASSUME NEW w \in Writers, ReadBack(w) PROVE BronzeInv'
  BY <1>1, <1>9, ReadBackQuiet
<1>10. CASE UNCHANGED vars
  BY <1>1, <1>10 DEF vars, BronzeInv, AcknowledgedIsDurable, At, EntryOf,
     EntriesAreAccounted, Spent, Open, MayStillWrite, HasFetched
<1> QED BY <1>2, <1>3, <1>4, <1>5, <1>6, <1>7, <1>8, <1>9, <1>10 DEF Next

LEMMA BronzeInvAlways == CreateOnly /\ Spec => []BronzeInv
<1>1. CreateOnly /\ BronzeInv /\ [Next]_vars => BronzeInv'
  BY BronzeInvStep
<1> SUFFICES ASSUME CreateOnly PROVE Spec => []BronzeInv
  OBVIOUS
<1>2. BronzeInv /\ [Next]_vars => BronzeInv'
  BY <1>1
<1> QED BY BronzeInvInit, <1>2, PTL DEF Spec

\* "every acknowledged capture keeps its entry": when the gateway honours
\* If-None-Match, what put_new's read-back acknowledged is in the log as it was
\* written for ever, for any number of pods, lost responses and crashes.
THEOREM AcknowledgedStaysDurable == CreateOnly /\ Spec => []AcknowledgedIsDurable
<1>1. BronzeInv => AcknowledgedIsDurable
  BY DEF BronzeInv
<1> QED BY <1>1, BronzeInvAlways, PTL

------------------------------------------------------------------------------
(* The log as a numbered history.                                          *)

\* An instant's entries up to e are as many as e's number says.
LEMMA NumberedUpTo ==
    ASSUME Shape, NumberedWithoutHoles, NEW t, NEW e \in EntriesFor(t)
    PROVE  Cardinality({d \in EntriesFor(t) : d.attempt <= e.attempt}) = e.attempt
<1> DEFINE P == {d \in EntriesFor(t) : d.attempt <= e.attempt}
           n == e.attempt
           f == [i \in 1 .. n |-> CHOOSE d \in EntriesFor(t) : d.attempt = i]
<1>1. \A d \in EntriesFor(t) : d \in entries /\ d.t = t /\ d.attempt \in Nat \ {0}
  BY DEF EntriesFor, Shape, AnyEntry
<1>2. n \in Nat
  BY <1>1
<1>3. ASSUME NEW i \in 1 .. n PROVE f[i] \in EntriesFor(t) /\ f[i].attempt = i
  <2>1. \E d \in entries : d.t = t /\ d.attempt = i
    BY <1>1 DEF NumberedWithoutHoles
  <2> QED BY <2>1 DEF EntriesFor
<1>4. \A d \in P : d.attempt \in 1 .. n /\ f[d.attempt] = d
  <2> SUFFICES ASSUME NEW d \in P PROVE d.attempt \in 1 .. n /\ f[d.attempt] = d
    OBVIOUS
  <2>1. d.attempt \in 1 .. n /\ d \in EntriesFor(t)
    BY <1>1, <1>2
  <2>2. f[d.attempt] \in EntriesFor(t) /\ f[d.attempt].attempt = d.attempt
    BY <1>3, <2>1
  <2> HIDE DEF f
  <2>3. f[d.attempt] = d
    BY <1>1, <2>1, <2>2 DEF NumberedWithoutHoles, SameKey
  <2> QED BY <2>1, <2>3
<1>5. f \in [1 .. n -> P]
  <2>1. \A i \in 1 .. n : f[i] \in P
    BY <1>2, <1>3
  <2> HIDE DEF P
  <2> QED BY <2>1
<1>6. \A i, j \in 1 .. n : f[i] = f[j] => i = j
  BY <1>3
<1> HIDE DEF f, P
<1>7. f \in Bijection(1 .. n, P)
  BY <1>4, <1>5, <1>6 DEF Bijection, Injection, Surjection, IsInjective
<1>8. ExistsBijection(1 .. n, P)
  BY <1>7 DEF ExistsBijection
<1> HIDE DEF n
<1>9. Cardinality(P) = n
  BY <1>2, <1>8, FS_CountingElements
<1> QED BY <1>9 DEF P, n

\* The numbers of an instant's entries are 1 .. N, and the log as the runtime
\* reads it has the entry with number i at place i.
LEMMA LogIsNumbered ==
    ASSUME Shape, NumberedWithoutHoles, NEW t
    PROVE  /\ Cardinality(EntriesFor(t)) \in Nat
           /\ \A e \in EntriesFor(t) : e.attempt \in 1 .. Cardinality(EntriesFor(t))
           /\ \A i \in 1 .. Cardinality(EntriesFor(t)) :
                 \E e \in EntriesFor(t) : e.attempt = i /\ LogOf(t)[i] = e
<1> DEFINE N == Cardinality(EntriesFor(t))
           P(e) == {d \in EntriesFor(t) : d.attempt <= e.attempt}
<1>1. \A d \in EntriesFor(t) : d \in entries /\ d.t = t /\ d.attempt \in Nat \ {0}
  BY DEF EntriesFor, Shape, AnyEntry
<1>2. /\ IsFiniteSet(EntriesFor(t)) /\ EntriesFor(t) \in SUBSET AnyEntry
      /\ \A d, e \in EntriesFor(t) : SameKey(d, e) => d = e
  BY EntriesForIsLog
<1>3. N \in Nat
  BY <1>2, FS_CardinalityType
<1>4. \A e \in EntriesFor(t) : Cardinality(P(e)) = e.attempt
  BY NumberedUpTo
<1>5. ASSUME EntriesFor(t) # {}
      PROVE  \E m \in EntriesFor(t) : m.attempt = N /\ \A e \in EntriesFor(t) : e.attempt <= N
  <2> DEFINE m == Newest(EntriesFor(t))
  <2>1. m \in EntriesFor(t) /\ \A d \in EntriesFor(t) \ {m} : Later(m, d)
    BY <1>2, <1>5, NewestIsThere
  <2> HIDE DEF m
  <2>2. ASSUME NEW d \in EntriesFor(t) PROVE d.attempt <= m.attempt
    <3>1. m.t \in Nat
      BY <1>2, <2>1 DEF AnyEntry
    <3>2. d.t = m.t /\ d.attempt \in Nat /\ m.attempt \in Nat
      BY <1>1, <2>1
    <3>3. d = m \/ Later(m, d)
      BY <2>1
    <3> QED BY <3>1, <3>2, <3>3 DEF Later
  <2>3. P(m) = EntriesFor(t)
    BY <2>2
  <2>4. m.attempt = N
    BY <1>4, <2>1, <2>3
  <2> QED BY <2>1, <2>2, <2>4
<1>6. EntriesFor(t) = {} => N = 0
  BY FS_EmptySet
<1> HIDE DEF N
<1>7. ASSUME NEW e \in EntriesFor(t) PROVE e.attempt \in 1 .. N
  BY <1>1, <1>3, <1>5
<1>8. ASSUME NEW i \in 1 .. N
      PROVE  \E e \in EntriesFor(t) : e.attempt = i /\ LogOf(t)[i] = e
  <2>1. EntriesFor(t) # {}
    BY <1>6, <1>8
  <2>2. PICK m \in EntriesFor(t) : m.attempt = N
    BY <1>5, <2>1
  <2>3. PICK e \in entries : e.t = t /\ e.attempt = i
    BY <1>1, <2>2 DEF NumberedWithoutHoles
  <2>4. e \in EntriesFor(t)
    BY <2>3 DEF EntriesFor
  <2>5. Cardinality(P(e)) = i
    BY <1>4, <2>3, <2>4
  <2>6. ASSUME NEW c \in EntriesFor(t), Cardinality(P(c)) = i PROVE c = e
    <3>1. c.attempt = i
      BY <1>4, <2>6
    <3> QED BY <1>1, <1>2, <2>3, <2>4, <3>1 DEF SameKey
  <2>7. LogOf(t)[i] = CHOOSE c \in EntriesFor(t) : Cardinality(P(c)) = i
    BY DEF LogOf, N
  <2> HIDE DEF P
  <2>8. (CHOOSE c \in EntriesFor(t) : Cardinality(P(c)) = i) = e
    BY <2>4, <2>5, <2>6
  <2> QED BY <2>3, <2>4, <2>7, <2>8
<1> QED BY <1>3, <1>7, <1>8 DEF N

\* Attempt numbers stay within the bounds of Entry: every number up to e's is
\* an entry, and every entry a fetch that is over or a lost response.
LEMMA BoundedAttempts ==
    ASSUME BronzeInv PROVE entries \subseteq Entry
<1> SUFFICES ASSUME NEW e \in entries PROVE e \in Entry
  OBVIOUS
<1>1. Shape /\ NumberedWithoutHoles
  BY DEF BronzeInv, LogInv
<1>2. e \in AnyEntry /\ e \in EntriesFor(e.t)
  BY <1>1 DEF Shape, EntriesFor
<1>3. e.attempt \in Nat \ {0} /\ Cardinality(EntriesFor(e.t)) \in Nat
      /\ e.attempt <= Cardinality(EntriesFor(e.t))
  BY <1>1, <1>2, LogIsNumbered DEF AnyEntry
<1>4. EntriesFor(e.t) \in SUBSET entries
  BY DEF EntriesFor
<1>5. Cardinality(EntriesFor(e.t)) <= Cardinality(entries)
  BY <1>1, <1>4, FS_Subset DEF Shape
<1>6. /\ Cardinality(Spent) \in Nat /\ Cardinality(Spent) <= Len(served)
      /\ Cardinality(entries) \in Nat
      /\ lost \in Nat /\ lost <= MaxLost /\ Len(served) \in Nat
  BY <1>1, SpentIsFinite
<1>7. Len(served) <= MaxFetches /\ Cardinality(entries) <= Cardinality(Spent) + lost
  BY DEF BronzeInv, EntriesAreAccounted, LogInv, Shape
<1>8. e.attempt \in 1 .. MaxFetches + MaxLost
  BY <1>3, <1>5, <1>6, <1>7
<1> QED BY <1>2, <1>8 DEF Entry, AnyEntry

\* A pod's local state has its shape when its baseline is a real entry.
LEMMA BoundedWriter ==
    ASSUME NEW r \in AnyWriter, r.baseline \in Entry \cup {NoEntry} PROVE r \in Writer
  BY DEF AnyWriter, Writer

\* The log, the blob store and every pod's local state keep their shape, and the
\* attempt numbers their bound: racing pods waste no number that is not a fetch
\* or a lost response.
THEOREM BronzeTypeOK == CreateOnly /\ Spec => []TypeOK
<1>1. ASSUME BronzeInv PROVE TypeOK
  <2>1. entries \subseteq Entry
    BY <1>1, BoundedAttempts
  <2>2. acked \subseteq Entry
    BY <1>1, <2>1 DEF BronzeInv, AcknowledgedIsDurable
  <2>3. ASSUME NEW w \in Writers PROVE writers[w] \in Writer
    <3>1. writers[w] \in AnyWriter /\ writers[w].baseline \in entries \cup {NoEntry}
      BY <1>1 DEF BronzeInv, LogInv, Shape
    <3> QED BY <2>1, <3>1, BoundedWriter
  <2>4. writers \in [Writers -> Writer]
    BY <1>1, <2>3 DEF BronzeInv, LogInv, Shape
  <2> QED BY <1>1, <2>1, <2>2, <2>4 DEF BronzeInv, LogInv, Shape, TypeOK
<1> QED BY <1>1, BronzeInvAlways, PTL

\* The numbering, of the state before and after a step.
LEMMA Numbering ==
    Shape /\ NumberedWithoutHoles =>
    \A t : /\ Cardinality(EntriesFor(t)) \in Nat
           /\ \A e \in EntriesFor(t) : e.attempt \in 1 .. Cardinality(EntriesFor(t))
           /\ \A i \in 1 .. Cardinality(EntriesFor(t)) :
                 \E e \in EntriesFor(t) : e.attempt = i /\ LogOf(t)[i] = e
  BY LogIsNumbered

LEMMA NumberingAfter ==
    Shape' /\ NumberedWithoutHoles' =>
    (\A t : /\ Cardinality(EntriesFor(t)) \in Nat
            /\ \A e \in EntriesFor(t) : e.attempt \in 1 .. Cardinality(EntriesFor(t))
            /\ \A i \in 1 .. Cardinality(EntriesFor(t)) :
                  \E e \in EntriesFor(t) : e.attempt = i /\ LogOf(t)[i] = e)'
  BY Numbering, PTL

\* The log of an instant is a sequence as long as it has entries.
LEMMA LogIsAFunction ==
    ASSUME NEW t
    PROVE  /\ DOMAIN LogOf(t) = 1 .. Cardinality(EntriesFor(t))
           /\ LogOf(t) = [i \in DOMAIN LogOf(t) |-> LogOf(t)[i]]
<1> DEFINE E(i) == CHOOSE e \in EntriesFor(t) :
                      Cardinality({d \in EntriesFor(t) : d.attempt <= e.attempt}) = i
<1>1. LogOf(t) = [i \in 1 .. Cardinality(EntriesFor(t)) |-> E(i)]
  BY DEF LogOf
<1> HIDE DEF E
<1> QED BY <1>1

LEMMA LogsAreFunctions ==
    \A t : /\ DOMAIN LogOf(t) = 1 .. Cardinality(EntriesFor(t))
           /\ LogOf(t) = [i \in DOMAIN LogOf(t) |-> LogOf(t)[i]]
  BY LogIsAFunction

\* A new key is the next number of its instant.
LEMMA NewKeyIsNext ==
    ASSUME Shape, NumberedWithoutHoles, NEW e, Fits(e),
           \A d \in entries : ~SameKey(d, e)
    PROVE  e.attempt = Cardinality(EntriesFor(e.t)) + 1
<1> DEFINE N == Cardinality(EntriesFor(e.t))
<1>1. /\ N \in Nat
      /\ \A d \in EntriesFor(e.t) : d.attempt \in 1 .. N
      /\ \A i \in 1 .. N : \E d \in EntriesFor(e.t) : d.attempt = i
  BY LogIsNumbered
<1> HIDE DEF N
<1>2. e.attempt \in Nat \ {0}
  BY DEF Fits, AnyEntry
<1>3. \A d \in entries : d.t = e.t <=> d \in EntriesFor(e.t)
  BY DEF EntriesFor
<1>4. e.attempt = 1 \/ e.attempt - 1 \in 1 .. N
  BY <1>1, <1>3 DEF Fits
<1>5. e.attempt \notin 1 .. N
  <2> SUFFICES ASSUME e.attempt \in 1 .. N PROVE FALSE
    OBVIOUS
  <2>1. PICK d \in EntriesFor(e.t) : d.attempt = e.attempt
    BY <1>1
  <2> QED BY <2>1 DEF SameKey, EntriesFor
<1>6. e.attempt = N + 1
  BY <1>1, <1>2, <1>4, <1>5
<1> QED BY <1>6 DEF N

\* Writing it appends it to the instant's log and leaves the others alone.
LEMMA NewKeyAppends ==
    ASSUME Shape, NumberedWithoutHoles, Shape', NumberedWithoutHoles', NEW e, Fits(e),
           \A d \in entries : ~SameKey(d, e), entries' = entries \cup {e}
    PROVE  /\ LogOf(e.t)' = Append(LogOf(e.t), e)
           /\ Len(LogOf(e.t)) = e.attempt - 1
           /\ \A t \in Instants : t # e.t => LogOf(t)' = LogOf(t)
<1> DEFINE N == Cardinality(EntriesFor(e.t))
           L == LogOf(e.t)
<1>1. e.attempt = N + 1
  BY NewKeyIsNext
<1>2. /\ N \in Nat
      /\ \A i \in 1 .. N : \E d \in EntriesFor(e.t) : d.attempt = i /\ L[i] = d
  BY LogIsNumbered
<1>3. EntriesFor(e.t)' = EntriesFor(e.t) \cup {e} /\ e \notin EntriesFor(e.t)
  BY DEF EntriesFor, SameKey
<1>4. Cardinality(EntriesFor(e.t)') = N + 1
  <2>1. IsFiniteSet(EntriesFor(e.t))
    BY EntriesForIsLog
  <2> QED BY <1>3, <2>1, FS_AddElement
<1>5. ASSUME NEW i \in 1 .. N + 1
      PROVE  \E d \in EntriesFor(e.t)' : d.attempt = i /\ LogOf(e.t)'[i] = d
  <2>1. \A t : \A j \in 1 .. Cardinality(EntriesFor(t)') :
            \E d \in EntriesFor(t)' : d.attempt = j /\ LogOf(t)'[j] = d
    BY NumberingAfter
  <2>2. \A j \in 1 .. Cardinality(EntriesFor(e.t)') :
            \E d \in EntriesFor(e.t)' : d.attempt = j /\ LogOf(e.t)'[j] = d
    BY <2>1
  <2> QED BY <1>4, <2>2
<1>6. \A d \in EntriesFor(e.t)' : d \in entries' /\ d.t = e.t
  BY DEF EntriesFor
<1>7. \A c, d \in EntriesFor(e.t)' : c.attempt = d.attempt => c = d
  BY <1>6 DEF NumberedWithoutHoles, SameKey
<1>8. \A i \in 1 .. N : LogOf(e.t)'[i] = L[i]
  <2> SUFFICES ASSUME NEW i \in 1 .. N PROVE LogOf(e.t)'[i] = L[i]
    OBVIOUS
  <2>1. PICK d \in EntriesFor(e.t) : d.attempt = i /\ L[i] = d
    BY <1>2
  <2>2. i \in 1 .. N + 1
    BY <1>2
  <2>3. PICK c \in EntriesFor(e.t)' : c.attempt = i /\ LogOf(e.t)'[i] = c
    BY <1>5, <2>2
  <2>4. d \in EntriesFor(e.t)'
    BY <1>3
  <2> QED BY <1>7, <2>1, <2>3, <2>4
<1>9. LogOf(e.t)'[N + 1] = e
  <2>1. N + 1 \in 1 .. N + 1
    BY <1>2
  <2>2. PICK c \in EntriesFor(e.t)' : c.attempt = N + 1 /\ LogOf(e.t)'[N + 1] = c
    BY <1>5, <2>1
  <2> QED BY <1>1, <1>3, <1>7, <2>2
<1>10. L \in Seq(AnyEntry) /\ Len(L) = N
  <2>1. DOMAIN L = 1 .. N /\ L = [i \in DOMAIN L |-> L[i]]
    BY LogIsAFunction
  <2>2. \A i \in 1 .. N : L[i] \in AnyEntry
    BY <1>2 DEF EntriesFor, Shape
  <2> HIDE DEF L, N
  <2>3. L \in [1 .. N -> AnyEntry]
    BY <2>1, <2>2
  <2> QED BY <1>2, <2>3
<1>11. LogOf(e.t)' \in Seq(AnyEntry) /\ Len(LogOf(e.t)') = N + 1
  <2> DEFINE M == LogOf(e.t)'
  <2>1. DOMAIN M = 1 .. N + 1 /\ M = [i \in DOMAIN M |-> M[i]]
    <3>1. (\A t : /\ DOMAIN LogOf(t) = 1 .. Cardinality(EntriesFor(t))
                  /\ LogOf(t) = [i \in DOMAIN LogOf(t) |-> LogOf(t)[i]])'
      BY LogsAreFunctions, PTL
    <3> QED BY <1>4, <3>1
  <2>2. \A i \in 1 .. N + 1 : M[i] \in AnyEntry
    BY <1>5, <1>6 DEF Shape
  <2> HIDE DEF M, N
  <2>3. M \in [1 .. N + 1 -> AnyEntry]
    BY <2>1, <2>2
  <2>4. N + 1 \in Nat
    BY <1>2
  <2>5. M \in Seq(AnyEntry) /\ Len(M) = N + 1
    BY <2>3, <2>4
  <2> QED BY <2>5 DEF M
<1> HIDE DEF L, N
<1>12. LogOf(e.t)' = Append(L, e)
  <2> DEFINE M == LogOf(e.t)'
             A == Append(L, e)
  <2>1. e \in AnyEntry
    BY DEF Fits
  <2>2. /\ A \in Seq(AnyEntry) /\ Len(A) = N + 1
        /\ A[N + 1] = e /\ \A i \in 1 .. N : A[i] = L[i]
    BY <1>2, <1>10, <2>1
  <2>3. /\ M \in Seq(AnyEntry) /\ Len(M) = N + 1
        /\ M[N + 1] = e /\ \A i \in 1 .. N : M[i] = L[i]
    BY <1>8, <1>9, <1>11
  <2> HIDE DEF M, A
  <2>4. \A i \in 1 .. N + 1 : M[i] = A[i]
    BY <1>2, <2>2, <2>3
  <2>5. M = A
    BY <1>2, <2>2, <2>3, <2>4
  <2> QED BY <2>5 DEF M, A
<1>13. ASSUME NEW t \in Instants, t # e.t PROVE LogOf(t)' = LogOf(t)
  <2>1. EntriesFor(t)' = EntriesFor(t)
    BY <1>13 DEF EntriesFor
  <2> QED BY <2>1 DEF LogOf
<1>14. Len(L) = e.attempt - 1
  BY <1>1, <1>2, <1>10
<1> QED BY <1>12, <1>13, <1>14 DEF L

LEMMA BoundedAfter == BronzeInv' => (entries \subseteq Entry)'
<1>1. BronzeInv => entries \subseteq Entry
  BY BoundedAttempts
<1> QED BY <1>1, PTL

\* Every step of a pod stores a blob, writes one new entry that fits, or leaves
\* the log and the blobs alone.
LEMMA StepOfTheLog ==
    ASSUME CreateOnly, BronzeInv, [Next]_vars
    PROVE  \/ UNCHANGED <<entries, blobs>>
           \/ entries' = entries /\ \E p \in Payloads : blobs' = blobs \cup {p}
           \/ /\ blobs' = blobs
              /\ \E e : /\ Fits(e) /\ entries' = entries \cup {e}
                        /\ \A d \in entries : ~SameKey(d, e)
<1>1. ASSUME NEW w \in Writers, PutBlob(w)
      PROVE  entries' = entries /\ \E p \in Payloads : blobs' = blobs \cup {p}
  <2>1. blobs' \subseteq Payloads
    <3>1. LogInv'
      BY LogInvStep DEF BronzeInv
    <3> QED BY <3>1 DEF LogInv, Shape
  <2> QED BY <1>1, <2>1 DEF PutBlob
<1>2. ASSUME NEW w \in Writers, PutEntry(w)
      PROVE  \/ UNCHANGED <<entries, blobs>>
             \/ /\ blobs' = blobs
                /\ \E e : /\ Fits(e) /\ entries' = entries \cup {e}
                          /\ \A d \in entries : ~SameKey(d, e)
  <2>1. writers[w].pc = "put" /\ UNCHANGED blobs
    BY <1>2 DEF PutEntry, At
  <2>2. Fits(EntryOf(w))
    BY <2>1, EntryFits DEF BronzeInv
  <2>3. CASE UNCHANGED entries
    BY <2>1, <2>3
  <2>4. CASE ~Answers412(EntryOf(w)) /\ WriteEntry(EntryOf(w))
    <3>1. entries' = entries \cup {EntryOf(w)}
      BY <2>4, WriteAdds
    <3>2. \A d \in entries : ~SameKey(d, EntryOf(w))
      BY <2>4 DEF Answers412
    <3> QED BY <2>1, <2>2, <3>1, <3>2
  <2> QED BY <1>2, <2>3, <2>4 DEF PutEntry
<1>3. CASE UNCHANGED vars
  BY <1>3 DEF vars
<1>4. ASSUME NEW w \in Writers,
             \/ \E t \in Instants, force \in BOOLEAN : Begin(w, t, force)
             \/ \E u \in Urls, p \in Payloads, status \in Statuses : Fetch(w, u, p, status)
             \/ ReadBaseline(w) \/ FetchFails(w) \/ List(w) \/ ReadBack(w) \/ Crash(w)
      PROVE  UNCHANGED <<entries, blobs>>
  BY <1>4 DEF Begin, Fetch, ReadBaseline, FetchFails, List, ReadBack, Crash
<1> QED BY <1>1, <1>2, <1>3, <1>4 DEF Next

\* The mapping takes every step to a step of the history, or to none.
LEMMA HistoryStep ==
    CreateOnly /\ BronzeInv /\ BronzeInv' /\ [Next]_vars
      => [History!LogNext]_(History!logVars)
<1> SUFFICES ASSUME CreateOnly, BronzeInv, BronzeInv', [Next]_vars
             PROVE  [History!LogNext]_(History!logVars)
  OBVIOUS
<1> DEFINE H == [t \in Instants |-> LogOf(t)]
<1>1. entries' = entries => H' = H
  BY DEF LogOf, EntriesFor
<1>2. CASE UNCHANGED <<entries, blobs>>
  BY <1>1, <1>2 DEF History!logVars
<1>3. CASE entries' = entries /\ \E p \in Payloads : blobs' = blobs \cup {p}
  <2>1. PICK p \in Payloads : blobs' = blobs \cup {p}
    BY <1>3
  <2>2. History!StoreBlob(p)
    BY <1>1, <1>3, <2>1 DEF History!StoreBlob
  <2> QED BY <2>2 DEF History!LogNext
<1>4. ASSUME NEW e, Fits(e), entries' = entries \cup {e}, blobs' = blobs,
             \A d \in entries : ~SameKey(d, e)
      PROVE  History!LogNext
  <2>1. Shape /\ NumberedWithoutHoles /\ Shape' /\ NumberedWithoutHoles'
    BY DEF BronzeInv, LogInv
  <2>2. /\ LogOf(e.t)' = Append(LogOf(e.t), e)
        /\ Len(LogOf(e.t)) = e.attempt - 1
        /\ \A t \in Instants : t # e.t => LogOf(t)' = LogOf(t)
    BY <1>4, <2>1, NewKeyAppends
  <2>3. e.payload \in blobs /\ e.t \in Instants /\ e.attempt \in Nat
    BY <1>4 DEF Fits, AnyEntry
  <2>4. e \in Entry
    <3>1. entries' \subseteq Entry
      BY BoundedAfter
    <3> QED BY <1>4, <3>1
  <2>5. H[e.t] = LogOf(e.t) /\ e.attempt = Len(H[e.t]) + 1
    BY <2>2, <2>3
  <2>6. H' = [H EXCEPT ![e.t] = Append(@, e)]
    <3>1. \A t \in Instants : LogOf(t)' = IF t = e.t THEN Append(LogOf(e.t), e) ELSE LogOf(t)
      BY <2>2
    <3> QED BY <2>3, <3>1
  <2>7. History!AppendEntry(e.t, e)
    BY <1>4, <2>3, <2>5, <2>6 DEF History!AppendEntry
  <2> QED BY <2>3, <2>4, <2>7 DEF History!LogNext
<1> QED BY <1>2, <1>3, <1>4, StepOfTheLog

\* The empty Bronze is the empty history.
LEMMA HistoryInit == Init => History!LogInit
<1> SUFFICES ASSUME Init PROVE History!LogInit
  OBVIOUS
<1>1. entries = {} /\ blobs = {}
  BY DEF Init
<1>2. ASSUME NEW t \in Instants PROVE LogOf(t) = << >>
  <2>1. EntriesFor(t) = {}
    BY <1>1 DEF EntriesFor
  <2>2. Cardinality(EntriesFor(t)) = 0
    BY <2>1, FS_EmptySet
  <2>3. DOMAIN LogOf(t) = 1 .. 0 /\ LogOf(t) = [i \in DOMAIN LogOf(t) |-> LogOf(t)[i]]
    BY <2>2, LogIsAFunction
  <2> DEFINE L == LogOf(t)
  <2>4. L \in Seq({}) /\ Len(L) = 0
    <3>1. L \in [1 .. 0 -> {}]
      BY <2>3
    <3> QED BY <3>1
  <2> HIDE DEF L
  <2>5. L = << >>
    BY <2>4
  <2> QED BY <2>5 DEF L
<1> QED BY <1>1, <1>2 DEF History!LogInit

\* Bronze implements the append-only history: whatever pods race, die or hear
\* twice, an instant's entries are numbered 1, 2, 3, ..., each is written once
\* and never again, and only after its blob (ADR-024, amendment 3).
THEOREM BronzeImplementsCaptureLog == CreateOnly /\ Spec => ImplementsCaptureLog
<1> SUFFICES ASSUME CreateOnly PROVE Spec => ImplementsCaptureLog
  OBVIOUS
<1>1. BronzeInv /\ BronzeInv' /\ [Next]_vars => [History!LogNext]_(History!logVars)
  BY HistoryStep
<1>2. Spec => []BronzeInv
  BY BronzeInvAlways
<1> QED BY HistoryInit, <1>1, <1>2, PTL DEF Spec, ImplementsCaptureLog, History!LogSpec
==============================================================================
