---------------------------- MODULE SilverProofs -----------------------------
(***************************************************************************)
(* Theorems about Silver, for any number of runs, targets, documents,      *)
(* derivations and workers and any bounds: what the tables hold and the    *)
(* current view shows depends on the set of commits alone.                 *)
(***************************************************************************)
EXTENDS Silver, FunctionTheorems, FiniteSetTheorems, WellFoundedInduction, TLAPS

------------------------------------------------------------------------------
(* Maxima: what Newest, Greatest and the first of a rank have to choose.   *)

\* In a finite set, something has nothing above it: of the sets of elements
\* above an element take a smallest one, it has to be empty.
LEMMA MaximalElement ==
    ASSUME NEW E, IsFiniteSet(E), E # {}, NEW Above,
           \A x \in E : <<x, x>> \notin Above,
           \A x, y, z \in E :
              <<x, y>> \in Above /\ <<y, z>> \in Above => <<x, z>> \in Above
    PROVE  \E m \in E : \A x \in E : <<x, m>> \notin Above
<1> DEFINE Up(x) == {y \in E : <<y, x>> \in Above}
           T == {Up(x) : x \in E}
<1>1. T \subseteq FiniteSubsetsOf(E) /\ T # {}
  <2>1. FiniteSubsetsOf(E) = SUBSET E
    BY FS_FiniteSubsetsOfFinite
  <2>2. \A x \in E : Up(x) \in SUBSET E
    OBVIOUS
  <2> HIDE DEF Up
  <2>3. T \subseteq SUBSET E
    BY <2>2
  <2>4. PICK x \in E : TRUE
    OBVIOUS
  <2>5. Up(x) \in T
    OBVIOUS
  <2> QED BY <2>1, <2>3, <2>5
<1>2. IsWellFoundedOn(StrictSubsetOrdering(E), FiniteSubsetsOf(E))
  BY FS_StrictSubsetOrderingWellFounded
<1>3. PICK U \in T : \A V \in T : <<V, U>> \notin StrictSubsetOrdering(E)
  <2> HIDE DEF T
  <2> QED BY <1>1, <1>2, WFMin
<1>4. PICK m \in E : U = Up(m)
  OBVIOUS
<1>5. ASSUME NEW x \in E, <<x, m>> \in Above PROVE FALSE
  <2>1. Up(x) \subseteq Up(m) /\ x \in Up(m) /\ x \notin Up(x)
    BY <1>5
  <2>2. <<Up(x), U>> \in StrictSubsetOrdering(E)
    BY <1>4, <2>1 DEF StrictSubsetOrdering
  <2> QED BY <1>3, <2>2
<1> QED BY <1>5

\* A finite set of numbers that is not empty has a greatest element.
LEMMA GreatestNumber ==
    ASSUME NEW S \in SUBSET Nat, IsFiniteSet(S), S # {}
    PROVE  \E m \in S : \A n \in S : n <= m
<1> DEFINE Above == {p \in S \X S : p[1] > p[2]}
<1>1. \A x, y \in S : <<x, y>> \in Above <=> x > y
  OBVIOUS
<1>2. \A x \in S : <<x, x>> \notin Above
  BY <1>1
<1>3. \A x, y, z \in S :
          <<x, y>> \in Above /\ <<y, z>> \in Above => <<x, z>> \in Above
  BY <1>1
<1> HIDE DEF Above
<1>4. PICK m \in S : \A x \in S : <<x, m>> \notin Above
  BY <1>2, <1>3, MaximalElement
<1>5. ASSUME NEW n \in S PROVE n <= m
  <2>1. n \in Nat /\ m \in Nat /\ ~(n > m)
    BY <1>1, <1>4
  <2> QED BY <2>1
<1> QED BY <1>5

USE SilverAssumption

------------------------------------------------------------------------------
(* The inductive invariant.                                                *)

\* Entries stay where they are.
LogKept ==
    \A c \in DOMAIN captures : c \in DOMAIN captures' /\ captures'[c] = captures[c]

LEMMA TablesStable ==
    ASSUME TablesFollow, LogKept, UNCHANGED <<versions, occurrences, done>>
    PROVE  TablesFollow'
<1>1. \A x \in done : x[1] \in DOMAIN captures
  BY DEF TablesFollow
<1>2. \A x \in done : Doc(x[1])' = Doc(x[1])
  BY <1>1 DEF LogKept, Doc
<1>3. IsFiniteSet(done') /\ done' \subseteq (DOMAIN captures') \X Derivations
  BY DEF TablesFollow, LogKept
<1>4. ASSUME NEW o \in occurrences
      PROVE  /\ o \in Occurrence /\ <<o.capture, o.derivation>> \in done'
             /\ o.payload = Doc(o.capture)' /\ o.key \in Covers[o.payload]
  <2>1. /\ o \in Occurrence /\ <<o.capture, o.derivation>> \in done
        /\ o.payload = Doc(o.capture) /\ o.key \in Covers[o.payload]
    BY DEF TablesFollow
  <2>2. Doc(o.capture)' = Doc(o.capture)
    BY <1>2, <2>1
  <2> QED BY <2>1, <2>2
<1>5. \A x \in done' : \A k \in Covers[Doc(x[1])'] :
        /\ [key |-> k, payload |-> Doc(x[1])', derivation |-> x[2], capture |-> x[1]]
             \in occurrences'
        /\ \E v \in versions' :
              v.key = k /\ v.payload = Doc(x[1])' /\ v.derivation = x[2]
  BY <1>2 DEF TablesFollow
<1>6. \A v \in versions' : v \in Version
  BY DEF TablesFollow
<1> QED BY <1>3, <1>4, <1>5, <1>6 DEF TablesFollow, Occurrence, Version, CaptureIds, Keys, Doc

LEMMA RegisteredStable ==
    ASSUME RegisteredOnce, UNCHANGED <<registered, done>> PROVE RegisteredOnce'
  BY DEF RegisteredOnce

\* The records of the pods.
LEMMA WorkerRecords ==
    ASSUME NEW x \in Working \cup Between \cup {Idle}
    PROVE  /\ x.pc # "idle" => x \in Working /\ [x EXCEPT !.live = FALSE] \in Working
           /\ x.pc = "idle" => x \notin Working
           /\ x.derivation \in Derivations \cup {0}
<1>1. CASE x \in Working
  BY <1>1 DEF Working
<1>2. CASE x \in Between
  BY <1>2 DEF Between, Working
<1>3. CASE x = Idle
  BY <1>3 DEF Idle, Working
<1> QED BY <1>1, <1>2, <1>3

LEMMA FencedOffShape ==
    ASSUME SilverShape, NEW r
    PROVE  /\ FencedOff(r) \in [Workers -> Working \cup Between \cup {Idle}]
           /\ \A w \in Workers : FencedOff(r)[w].pc # "idle" =>
                 FencedOff(r)[w].capture \in DOMAIN captures
<1> SUFFICES ASSUME NEW w \in Workers
             PROVE  /\ FencedOff(r)[w] \in Working \cup Between \cup {Idle}
                    /\ FencedOff(r)[w].pc # "idle" =>
                          FencedOff(r)[w].capture \in DOMAIN captures
  BY DEF FencedOff
<1>1. PICK x : x = workers[w]
  OBVIOUS
<1>2. /\ x \in Working \cup Between \cup {Idle}
      /\ x.pc # "idle" => x.capture \in DOMAIN captures
  BY <1>1 DEF SilverShape
<1>3. CASE HeldBy(w, r)
  <2>1. x.pc # "idle" /\ FencedOff(r)[w] = [x EXCEPT !.live = FALSE]
    BY <1>1, <1>3 DEF HeldBy, FencedOff
  <2>2. x \in Working /\ [x EXCEPT !.live = FALSE] \in Working
    BY <1>2, <2>1, WorkerRecords
  <2>3. [x EXCEPT !.live = FALSE].capture = x.capture
    BY <2>2 DEF Working
  <2> QED BY <1>2, <2>1, <2>2, <2>3
<1>4. CASE ~HeldBy(w, r)
  BY <1>1, <1>2, <1>4 DEF FencedOff
<1> QED BY <1>3, <1>4

\* A capture adds an entry.
LEMMA CaptureInv ==
    ASSUME SilverInv, NEW r \in Runs, NEW p \in Payloads, Capture(r, p) PROVE SilverInv'
<1> DEFINE e == [run |-> r, payload |-> p]
<1>1. /\ Len(captures) < MaxCaptures /\ captures' = Append(captures, e)
      /\ UNCHANGED <<registered, versions, occurrences, deployed, decisions, invalid, done>>
      /\ \/ UNCHANGED <<names, workers>>
         \/ names' = [names EXCEPT ![r] = Len(captures) + 1] /\ workers' = FencedOff(r)
  BY DEF Capture, silver
<1>2. SilverShape /\ RegisteredOnce /\ TablesFollow
  BY DEF SilverInv
<1>3. e \in [run: Runs, payload: Payloads]
  OBVIOUS
<1> HIDE DEF e
<1>4. captures \in Seq([run: Runs, payload: Payloads])
  BY <1>2 DEF SilverShape
<1>5. /\ captures' \in Seq([run: Runs, payload: Payloads]) /\ Len(captures') = Len(captures) + 1
      /\ DOMAIN captures = 1 .. Len(captures) /\ DOMAIN captures' = 1 .. Len(captures')
      /\ Len(captures) \in Nat
      /\ \A c \in 1 .. Len(captures) : captures'[c] = captures[c]
  BY <1>1, <1>3, <1>4
<1>6. LogKept
  BY <1>5 DEF LogKept
<1>7. names' \in [Runs -> 0 .. Len(captures')]
  <2>1. names \in [Runs -> 0 .. Len(captures)]
    BY <1>2 DEF SilverShape
  <2>2. 0 .. Len(captures) \subseteq 0 .. Len(captures') /\ Len(captures) + 1 \in 0 .. Len(captures')
    BY <1>5
  <2> QED BY <1>1, <2>1, <2>2
<1>8. /\ workers' \in [Workers -> Working \cup Between \cup {Idle}]
      /\ \A w \in Workers : workers'[w].pc # "idle" => workers'[w].capture \in DOMAIN captures
  BY <1>1, <1>2, FencedOffShape DEF SilverShape
<1>9. \A w \in Workers : workers'[w].pc # "idle" => workers'[w].capture \in DOMAIN captures'
  BY <1>6, <1>8 DEF LogKept
<1>10. Len(captures') <= MaxCaptures
  BY <1>1, <1>5
<1>11. SilverShape'
  BY <1>1, <1>2, <1>5, <1>7, <1>8, <1>9, <1>10 DEF SilverShape, Targets, Working, Between, Idle,
     Decision, CaptureIds
<1> QED BY <1>1, <1>2, <1>6, <1>11, TablesStable, RegisteredStable DEF SilverInv

\* What the other operations but commit change: the pods, the deployment and
\* the decisions.
LEMMA ShapeStable ==
    ASSUME SilverInv, UNCHANGED <<captures, names, silver, done>>,
           deployed' \in [Targets -> Derivations],
           workers' \in [Workers -> Working \cup Between \cup {Idle}],
           \A w \in Workers : workers'[w].pc # "idle" => workers'[w].capture \in DOMAIN captures,
           decisions' \subseteq Decision, invalid' \subseteq decisions'
    PROVE  SilverInv'
<1>1. SilverShape /\ RegisteredOnce /\ TablesFollow
  BY DEF SilverInv
<1>2. LogKept
  BY DEF LogKept
<1>3. SilverShape'
  BY <1>1 DEF SilverShape, Targets, Working, Between, Idle, Decision, CaptureIds
<1> QED BY <1>1, <1>2, <1>3, TablesStable, RegisteredStable DEF SilverInv, silver

LEMMA ClaimInv ==
    ASSUME SilverInv, NEW w \in Workers, NEW r \in Runs, NEW d \in Derivations, Claim(w, r, d)
    PROVE  SilverInv'
<1> DEFINE s == [pc |-> "claimed", capture |-> names[r], derivation |-> d, live |-> TRUE]
<1>1. /\ names[r] # 0 /\ workers' = [FencedOff(r) EXCEPT ![w] = s]
      /\ UNCHANGED <<captures, names, silver, deployed, decisions, invalid, done>>
  BY DEF Claim
<1>2. SilverShape
  BY DEF SilverInv
<1>3. /\ Len(captures) \in Nat /\ DOMAIN captures = 1 .. Len(captures)
      /\ names[r] \in 0 .. Len(captures) /\ Len(captures) <= MaxCaptures
  BY <1>2 DEF SilverShape
<1>4. names[r] \in DOMAIN captures /\ names[r] \in CaptureIds
  BY <1>1, <1>3 DEF CaptureIds
<1>5. s \in Working /\ s.capture = names[r]
  BY <1>4 DEF Working
<1> HIDE DEF s
<1>6. /\ FencedOff(r) \in [Workers -> Working \cup Between \cup {Idle}]
      /\ \A v \in Workers : FencedOff(r)[v].pc # "idle" =>
            FencedOff(r)[v].capture \in DOMAIN captures
  BY <1>2, FencedOffShape
<1>7. /\ workers' \in [Workers -> Working \cup Between \cup {Idle}]
      /\ \A v \in Workers : workers'[v] = IF v = w THEN s ELSE FencedOff(r)[v]
  BY <1>1, <1>5, <1>6
<1>8. \A v \in Workers : workers'[v].pc # "idle" => workers'[v].capture \in DOMAIN captures
  BY <1>4, <1>5, <1>6, <1>7
<1> QED BY <1>1, <1>2, <1>7, <1>8, ShapeStable DEF SilverShape

LEMMA CheckInvalidatedInv ==
    ASSUME SilverInv, NEW w \in Workers, CheckInvalidated(w) PROVE SilverInv'
<1>1. PICK x : x = workers[w]
  OBVIOUS
<1>2. PICK pc \in {"refuse", "map"} : workers' = [workers EXCEPT ![w] = [x EXCEPT !.pc = pc]]
  <2>1. workers = [v \in Workers |-> workers[v]]
    BY DEF SilverInv, SilverShape
  <2> QED BY <1>1, <2>1 DEF CheckInvalidated
<1>3. /\ x.pc = "claimed" /\ SilverShape
      /\ UNCHANGED <<captures, names, silver, deployed, decisions, invalid, done>>
  BY <1>1 DEF CheckInvalidated, SilverInv
<1>4. /\ x \in Working \cup Between \cup {Idle} /\ x.capture \in DOMAIN captures
      /\ workers \in [Workers -> Working \cup Between \cup {Idle}]
  BY <1>1, <1>3 DEF SilverShape
<1>5. x \in Working
  BY <1>3, <1>4, WorkerRecords
<1>6. PICK s : s = [x EXCEPT !.pc = pc]
  OBVIOUS
<1>7. s \in Working /\ s.capture = x.capture
  BY <1>5, <1>6 DEF Working
<1>8. /\ workers' \in [Workers -> Working \cup Between \cup {Idle}]
      /\ \A v \in Workers : workers'[v] = IF v = w THEN s ELSE workers[v]
  BY <1>2, <1>4, <1>6, <1>7
<1>9. \A v \in Workers : workers'[v].pc # "idle" => workers'[v].capture \in DOMAIN captures
  BY <1>3, <1>4, <1>7, <1>8 DEF SilverShape
<1> QED BY <1>3, <1>8, <1>9, ShapeStable DEF SilverShape

LEMMA ExitInv ==
    ASSUME SilverInv, NEW w \in Workers, Exit(w) PROVE SilverInv'
<1>1. /\ workers' = [workers EXCEPT ![w] = Idle] /\ SilverShape
      /\ UNCHANGED <<captures, names, silver, deployed, decisions, invalid, done>>
  BY DEF Exit, SilverInv
<1>2. workers \in [Workers -> Working \cup Between \cup {Idle}]
  BY <1>1 DEF SilverShape
<1>3. /\ workers' \in [Workers -> Working \cup Between \cup {Idle}]
      /\ \A v \in Workers : workers'[v] = IF v = w THEN Idle ELSE workers[v]
  BY <1>1, <1>2
<1>4. \A v \in Workers : workers'[v].pc # "idle" => workers'[v].capture \in DOMAIN captures
  BY <1>1, <1>3 DEF SilverShape, Idle
<1> QED BY <1>1, <1>3, <1>4, ShapeStable DEF SilverShape

\* Releases, repairs, replays, decisions and their mirror.
LEMMA OperatorsInv ==
    ASSUME SilverInv,
           \/ \E t \in Targets, d \in Derivations : Release(t, d)
           \/ \E R \in SUBSET Runs : ReplayRange(R)
           \/ \E d \in Derivations : ReplayDerivation(d)
           \/ \E c \in DOMAIN captures, d \in Derivations \cup {Anything} : Invalidate(c, d)
           \/ \E i \in decisions : Mirror(i)
           \/ UNCHANGED vars
    PROVE  SilverInv'
<1>1. SilverShape /\ decisions \subseteq Decision /\ invalid \subseteq decisions
      /\ deployed \in [Targets -> Derivations]
  BY DEF SilverInv, SilverShape
<1>2. ASSUME UNCHANGED <<captures, names, silver, done, workers>>,
             deployed' \in [Targets -> Derivations],
             decisions' \subseteq Decision, invalid' \subseteq decisions'
      PROVE  SilverInv'
  BY <1>1, <1>2, ShapeStable DEF SilverShape
<1>3. ASSUME NEW t \in Targets, NEW d \in Derivations, Release(t, d) PROVE SilverInv'
  BY <1>1, <1>2, <1>3 DEF Release
<1>4. ASSUME NEW R \in SUBSET Runs, ReplayRange(R) PROVE SilverInv'
  BY <1>1, <1>2, <1>4 DEF ReplayRange
<1>5. ASSUME NEW d \in Derivations, ReplayDerivation(d) PROVE SilverInv'
  BY <1>1, <1>2, <1>5 DEF ReplayDerivation
<1>6. ASSUME NEW c \in DOMAIN captures, NEW d \in Derivations \cup {Anything}, Invalidate(c, d)
      PROVE  SilverInv'
  <2>1. c \in CaptureIds
    <3>1. /\ Len(captures) \in Nat /\ DOMAIN captures = 1 .. Len(captures)
          /\ Len(captures) <= MaxCaptures
      BY <1>1 DEF SilverShape
    <3> QED BY <3>1 DEF CaptureIds
  <2>2. [capture |-> c, derivation |-> d] \in Decision
    BY <2>1 DEF Decision
  <2> QED BY <1>1, <1>2, <1>6, <2>2 DEF Invalidate
<1>7. ASSUME NEW i \in decisions, Mirror(i) PROVE SilverInv'
  BY <1>1, <1>2, <1>7 DEF Mirror
<1>8. CASE UNCHANGED vars
  BY <1>1, <1>2, <1>8 DEF vars, silver
<1> QED BY <1>3, <1>4, <1>5, <1>6, <1>7, <1>8

\* register_derivation keeps the places of those that are registered.
LEMMA RegisteredWithKeeps ==
    ASSUME RegisteredOnce, NEW d \in Derivations, NEW q, q = RegisteredWith(d)
    PROVE  /\ q \in Seq(Derivations)
           /\ \A i, j \in DOMAIN q : q[i] = q[j] => i = j
           /\ \A i \in DOMAIN registered : i \in DOMAIN q /\ q[i] = registered[i]
           /\ \E i \in DOMAIN q : q[i] = d
<1>1. /\ registered \in Seq(Derivations) /\ Len(registered) \in Nat
      /\ DOMAIN registered = 1 .. Len(registered)
      /\ \A i, j \in DOMAIN registered : registered[i] = registered[j] => i = j
  BY DEF RegisteredOnce
<1>2. CASE \E i \in DOMAIN registered : registered[i] = d
  <2>1. q = registered
    BY <1>2 DEF RegisteredWith
  <2> QED BY <1>1, <1>2, <2>1
<1>3. CASE ~\E i \in DOMAIN registered : registered[i] = d
  <2>1. q = Append(registered, d)
    BY <1>3 DEF RegisteredWith
  <2>2. /\ q \in Seq(Derivations) /\ Len(q) = Len(registered) + 1
        /\ DOMAIN q = 1 .. Len(registered) + 1
        /\ \A i \in 1 .. Len(registered) : q[i] = registered[i]
        /\ q[Len(registered) + 1] = d
    BY <1>1, <2>1
  <2>3. \A i \in DOMAIN q : i = Len(registered) + 1 \/ i \in DOMAIN registered
    BY <1>1, <2>2
  <2>4. \A i \in DOMAIN registered : i \in DOMAIN q /\ q[i] = registered[i] /\ q[i] # d
    BY <1>1, <1>3, <2>2
  <2>5. ASSUME NEW i \in DOMAIN q, NEW j \in DOMAIN q, q[i] = q[j] PROVE i = j
    <3>1. CASE i \in DOMAIN registered /\ j \in DOMAIN registered
      <4>1. registered[i] = registered[j]
        BY <2>4, <2>5, <3>1
      <4> QED BY <1>1, <3>1, <4>1
    <3>2. CASE i \notin DOMAIN registered
      BY <2>2, <2>3, <2>4, <2>5, <3>2
    <3>3. CASE j \notin DOMAIN registered
      BY <2>2, <2>3, <2>4, <2>5, <3>3
    <3> QED BY <3>1, <3>2, <3>3
  <2>6. \E i \in DOMAIN q : q[i] = d
    <3>1. Len(registered) + 1 \in DOMAIN q
      BY <1>1, <2>2
    <3> QED BY <2>2, <3>1
  <2>7. q \in Seq(Derivations)
    BY <2>2
  <2> QED BY <2>4, <2>5, <2>6, <2>7
<1> QED BY <1>2, <1>3

\* What a commit writes is what TablesFollow says of it.
LEMMA RowsWritten ==
    ASSUME SilverShape, TablesFollow, NEW c \in DOMAIN captures, NEW d \in Derivations,
           versions' = VersionsWith(c, d), occurrences' = OccurrencesWith(c, d),
           done' = done \cup {<<c, d>>}, UNCHANGED captures
    PROVE  TablesFollow'
<1> DEFINE p == Doc(c)
           Occ(k) == [key |-> k, payload |-> p, derivation |-> d, capture |-> c]
           Row(k) == [key |-> k, payload |-> p, derivation |-> d, run |-> RunOf(c)]
           Known(k) == \E v \in versions : v.key = k /\ v.payload = p /\ v.derivation = d
<1>1. occurrences' = occurrences \cup {Occ(k) : k \in Covers[p]}
  BY DEF OccurrencesWith
<1>2. versions' = versions \cup {Row(k) : k \in {k \in Covers[p] : ~Known(k)}}
  BY DEF VersionsWith
<1>3. /\ captures[c] \in [run: Runs, payload: Payloads] /\ c \in CaptureIds
      /\ \A x \in DOMAIN captures : Doc(x) \in Payloads
  <2>1. /\ captures \in Seq([run: Runs, payload: Payloads]) /\ Len(captures) \in Nat
        /\ DOMAIN captures = 1 .. Len(captures) /\ Len(captures) <= MaxCaptures
    BY DEF SilverShape
  <2>2. c \in CaptureIds
    BY <2>1 DEF CaptureIds
  <2>3. \A x \in DOMAIN captures : captures[x] \in [run: Runs, payload: Payloads]
    <3>1. PICK E : E = [run: Runs, payload: Payloads]
      OBVIOUS
    <3>2. captures \in Seq(E)
      BY <2>1, <3>1
    <3>3. \A x \in 1 .. Len(captures) : captures[x] \in E
      BY <3>2
    <3>4. \A x \in DOMAIN captures : captures[x] \in E
      BY <2>1, <3>3
    <3> QED BY <3>1, <3>4
  <2> QED BY <2>2, <2>3 DEF Doc
<1>4. p \in Payloads /\ RunOf(c) \in Runs /\ p = Doc(c) /\ Covers[p] \subseteq Keys
  BY <1>3 DEF Doc, RunOf
<1> HIDE DEF p
<1>5. \A k \in Covers[p] :
         /\ Occ(k) \in Occurrence /\ Occ(k).capture = c /\ Occ(k).derivation = d
         /\ Occ(k).payload = p /\ Occ(k).key = k
  BY <1>3, <1>4 DEF Occurrence
<1>6. \A k \in Covers[p] :
         /\ Row(k) \in Version /\ Row(k).key = k /\ Row(k).payload = p
         /\ Row(k).derivation = d
  BY <1>4 DEF Version
<1>7. \A x : Doc(x)' = Doc(x)
  BY DEF Doc
<1>8. IsFiniteSet(done') /\ done' \subseteq (DOMAIN captures') \X Derivations
  <2>1. IsFiniteSet(done) /\ done \subseteq (DOMAIN captures) \X Derivations
    BY DEF TablesFollow
  <2>2. IsFiniteSet(done')
    BY <2>1, FS_AddElement
  <2> QED BY <2>1, <2>2
<1>9. ASSUME NEW o \in occurrences'
      PROVE  /\ o \in Occurrence /\ <<o.capture, o.derivation>> \in done'
             /\ o.payload = Doc(o.capture) /\ o.key \in Covers[o.payload]
  <2>1. CASE o \in occurrences
    BY <2>1 DEF TablesFollow
  <2>2. ASSUME NEW k \in Covers[p], o = Occ(k)
        PROVE  /\ o \in Occurrence /\ <<o.capture, o.derivation>> \in done'
               /\ o.payload = Doc(o.capture) /\ o.key \in Covers[o.payload]
    <3> HIDE DEF Occ
    <3> QED BY <1>4, <1>5, <2>2
  <2> QED BY <1>1, <2>1, <2>2
<1>10. ASSUME NEW x \in done', NEW k \in Covers[Doc(x[1])]
       PROVE  /\ [key |-> k, payload |-> Doc(x[1]), derivation |-> x[2], capture |-> x[1]]
                    \in occurrences'
              /\ \E v \in versions' :
                    v.key = k /\ v.payload = Doc(x[1]) /\ v.derivation = x[2]
  <2>1. CASE x \in done
    BY <1>1, <1>2, <2>1 DEF TablesFollow
  <2>2. CASE x = <<c, d>>
    <3>1. x[1] = c /\ x[2] = d /\ k \in Covers[p]
      BY <1>4, <2>2
    <3>2. Occ(k) \in occurrences'
      BY <1>1, <3>1
    <3>3. \E v \in versions' : v.key = k /\ v.payload = p /\ v.derivation = d
      <4>1. CASE Known(k)
        BY <1>2, <4>1
      <4>2. CASE ~Known(k)
        <5>1. Row(k) \in versions'
          BY <1>2, <3>1, <4>2
        <5> HIDE DEF Row
        <5> QED BY <1>6, <3>1, <5>1
      <4> QED BY <4>1, <4>2
    <3> QED BY <1>4, <3>1, <3>2, <3>3
  <2> QED BY <2>1, <2>2
<1>11. ASSUME NEW v \in versions' PROVE v \in Version
  <2>1. CASE v \in versions
    BY <2>1 DEF TablesFollow
  <2>2. ASSUME NEW k \in Covers[p], v = Row(k) PROVE v \in Version
    BY <1>6, <2>2
  <2> QED BY <1>2, <2>1, <2>2
<1>12. /\ \A o \in occurrences' :
            /\ o \in Occurrence /\ <<o.capture, o.derivation>> \in done'
            /\ o.payload = Doc(o.capture)' /\ o.key \in Covers[o.payload]
       /\ \A x \in done' : \A k \in Covers[Doc(x[1])'] :
            /\ [key |-> k, payload |-> Doc(x[1])', derivation |-> x[2], capture |-> x[1]]
                 \in occurrences'
            /\ \E v \in versions' :
                  v.key = k /\ v.payload = Doc(x[1])' /\ v.derivation = x[2]
  BY <1>7, <1>9, <1>10
<1> QED
  BY <1>8, <1>11, <1>12 DEF TablesFollow, Occurrence, Version, CaptureIds, Keys, Doc

LEMMA CommitInv ==
    ASSUME SilverInv, NEW w \in Workers, Commit(w) PROVE SilverInv'
<1>1. PICK x, c, d : x = workers[w] /\ c = workers[w].capture /\ d = workers[w].derivation
  OBVIOUS
<1>2. SilverShape /\ RegisteredOnce /\ TablesFollow
  BY DEF SilverInv
<1>3. x \in Working /\ c \in DOMAIN captures /\ d \in Derivations
  <2>1. x \in Working \cup Between \cup {Idle} /\ x.pc # "idle" /\ c \in DOMAIN captures
    BY <1>1, <1>2 DEF SilverShape, Commit
  <2>2. x \in Working
    BY <2>1, WorkerRecords
  <2> QED BY <1>1, <2>1, <2>2 DEF Working
<1>4. PICK s : s = [Idle EXCEPT !.derivation = d]
  OBVIOUS
<1>5. s \in Between /\ s.pc = "idle"
  BY <1>3, <1>4 DEF Idle, Between
<1>6. /\ workers' = [workers EXCEPT ![w] = s]
      /\ UNCHANGED <<captures, names, deployed, decisions, invalid>>
  BY <1>1, <1>4 DEF Commit
<1>7. SilverShape'
  <2>1. workers \in [Workers -> Working \cup Between \cup {Idle}]
    BY <1>2 DEF SilverShape
  <2>2. /\ workers' \in [Workers -> Working \cup Between \cup {Idle}]
        /\ \A v \in Workers : workers'[v] = IF v = w THEN s ELSE workers[v]
    BY <1>5, <1>6, <2>1
  <2>3. \A v \in Workers : workers'[v].pc # "idle" => workers'[v].capture \in DOMAIN captures'
    BY <1>2, <1>5, <1>6, <2>2 DEF SilverShape
  <2> QED BY <1>2, <1>6, <2>2, <2>3
          DEF SilverShape, Targets, Working, Between, Idle, Decision, CaptureIds
<1>8. LogKept
  BY <1>6 DEF LogKept
<1>9. CASE UNCHANGED <<silver, done>>
  BY <1>2, <1>7, <1>8, <1>9, TablesStable, RegisteredStable DEF SilverInv, silver
<1>10. ASSUME registered' = RegisteredWith(d), done' \subseteq done \cup {<<c, d>>}
       PROVE  RegisteredOnce'
  <2>1. /\ registered' \in Seq(Derivations)
        /\ \A i, j \in DOMAIN registered' : registered'[i] = registered'[j] => i = j
        /\ \A i \in DOMAIN registered : i \in DOMAIN registered' /\ registered'[i] = registered[i]
        /\ \E i \in DOMAIN registered' : registered'[i] = d
    BY <1>2, <1>3, <1>10, RegisteredWithKeeps
  <2>2. \A y \in done' : \E i \in DOMAIN registered' : registered'[i] = y[2]
    <3>1. \A y \in done : \E i \in DOMAIN registered' : registered'[i] = y[2]
      BY <1>2, <2>1 DEF RegisteredOnce
    <3> QED BY <1>10, <2>1, <3>1
  <2> QED BY <2>1, <2>2 DEF RegisteredOnce
<1>11. CASE registered' = RegisteredWith(d) /\ UNCHANGED <<versions, occurrences, done>>
  BY <1>2, <1>7, <1>8, <1>10, <1>11, TablesStable DEF SilverInv
<1>12. CASE /\ registered' = RegisteredWith(d)
            /\ versions' = VersionsWith(c, d) /\ occurrences' = OccurrencesWith(c, d)
            /\ done' = done \cup {<<c, d>>}
  BY <1>2, <1>3, <1>6, <1>7, <1>10, <1>12, RowsWritten DEF SilverInv
<1> QED BY <1>1, <1>9, <1>11, <1>12 DEF Commit

\* The tables, the registry and the pods, in every reachable state.
THEOREM SilverInvariant == Spec => []SilverInv
<1>1. Init => SilverInv
  <2> SUFFICES ASSUME Init PROVE SilverInv
    OBVIOUS
  <2>1. captures = <<>> /\ registered = <<>> /\ versions = {} /\ occurrences = {} /\ done = {}
    BY DEF Init
  <2>2. DOMAIN captures = {} /\ DOMAIN registered = {} /\ Len(captures) = 0
        /\ captures \in Seq([run: Runs, payload: Payloads]) /\ registered \in Seq(Derivations)
    BY <2>1
  <2>3. TablesFollow
    BY <2>1, FS_EmptySet DEF TablesFollow
  <2>4. RegisteredOnce
    BY <2>1, <2>2 DEF RegisteredOnce
  <2>5. Idle.pc = "idle"
    BY DEF Idle
  <2>6. SilverShape
    BY <2>2, <2>5 DEF SilverShape, Init
  <2> QED BY <2>3, <2>4, <2>6 DEF SilverInv
<1>2. SilverInv /\ [Next]_vars => SilverInv'
  BY CaptureInv, ClaimInv, CheckInvalidatedInv, CommitInv, ExitInv, OperatorsInv DEF Next
<1> QED BY <1>1, <1>2, PTL DEF Spec

------------------------------------------------------------------------------
(* The current view, row by row.                                           *)

\* The versions that compete for a key, and the commits behind them.
Candidates(k) == {v \in versions : v.key = k /\ ValidOccurrences(v) # {}}
Rows(k) == {x \in done : k \in Covers[Doc(x[1])] /\ ~is_invalidated(x[1], x[2])}
Instant(x) == ordering_instant(Doc(x[1]), x[1])
InstantsOf(v) == {ordering_instant(o.payload, o.capture) : o \in ValidOccurrences(v)}
Newest(v) == Greatest(InstantsOf(v))

LEMMA CurrentIs ==
    ASSUME NEW k
    PROVE  Current(k) = {v \in Candidates(k) : \A u \in Candidates(k) :
                                                  ~Exceeds(VersionRank(u), VersionRank(v))}
  BY DEF Current, Candidates

LEMMA WinnersAre ==
    ASSUME NEW k
    PROVE  Winners(k) = {x \in Rows(k) : \A y \in Rows(k) : ~Exceeds(Rank(k, y), Rank(k, x))}
  BY DEF Winners, Rows

\* The rank is compared from left to right.
LEMMA ExceedsRank ==
    ASSUME NEW s, NEW t, DOMAIN s = 1 .. 5
    PROVE  Exceeds(s, t) <=>
             \/ s[1] > t[1]
             \/ s[1] = t[1] /\ s[2] > t[2]
             \/ s[1] = t[1] /\ s[2] = t[2] /\ s[3] > t[3]
             \/ s[1] = t[1] /\ s[2] = t[2] /\ s[3] = t[3] /\ s[4] > t[4]
             \/ s[1] = t[1] /\ s[2] = t[2] /\ s[3] = t[3] /\ s[4] = t[4] /\ s[5] > t[5]
<1> DEFINE At(i) == s[i] > t[i] /\ \A j \in 1 .. i - 1 : s[j] = t[j]
<1>1. /\ 1 .. 1 - 1 = {} /\ 1 .. 2 - 1 = {1} /\ 1 .. 3 - 1 = {1, 2}
      /\ 1 .. 4 - 1 = {1, 2, 3} /\ 1 .. 5 - 1 = {1, 2, 3, 4} /\ 1 .. 5 = {1, 2, 3, 4, 5}
  OBVIOUS
<1>2. Exceeds(s, t) <=> At(1) \/ At(2) \/ At(3) \/ At(4) \/ At(5)
  BY <1>1 DEF Exceeds
<1>3. /\ At(1) <=> s[1] > t[1]
      /\ At(2) <=> s[2] > t[2] /\ s[1] = t[1]
      /\ At(3) <=> s[3] > t[3] /\ s[1] = t[1] /\ s[2] = t[2]
  BY <1>1
<1>4. At(4) <=> s[4] > t[4] /\ s[1] = t[1] /\ s[2] = t[2] /\ s[3] = t[3]
  BY <1>1
<1>5. At(5) <=> s[5] > t[5] /\ s[1] = t[1] /\ s[2] = t[2] /\ s[3] = t[3] /\ s[4] = t[4]
  BY <1>1
<1> HIDE DEF At
<1> QED BY <1>2, <1>3, <1>4, <1>5

\* The five components of a commit's rank are numbers.
LEMMA RowRank ==
    ASSUME SilverInv, NEW k \in Keys, NEW x \in Rows(k)
    PROVE  /\ x \in done /\ x = <<x[1], x[2]>>
           /\ x[1] \in DOMAIN captures /\ x[1] \in CaptureIds /\ x[2] \in Derivations
           /\ Doc(x[1]) \in Payloads /\ k \in Covers[Doc(x[1])]
           /\ ~is_invalidated(x[1], x[2])
           /\ owner_rank(k, Doc(x[1])) \in Nat /\ Instant(x) \in Nat
           /\ Contract[x[2]] \in Nat /\ registered_at(x[2]) \in Nat /\ x[2] \in Nat
           /\ Rank(k, x) = <<owner_rank(k, Doc(x[1])), Instant(x), Contract[x[2]],
                             registered_at(x[2]), x[2]>>
<1>1. SilverShape /\ RegisteredOnce /\ TablesFollow
  BY DEF SilverInv
<1>2. /\ x \in done /\ x \in (DOMAIN captures) \X Derivations
      /\ k \in Covers[Doc(x[1])] /\ ~is_invalidated(x[1], x[2])
  BY <1>1 DEF Rows, TablesFollow
<1>3. x = <<x[1], x[2]>> /\ x[1] \in DOMAIN captures /\ x[2] \in Derivations
  BY <1>2
<1>4. x[1] \in CaptureIds /\ Doc(x[1]) \in Payloads
  <2>1. PICK E : E = [run: Runs, payload: Payloads]
    OBVIOUS
  <2>2. captures \in Seq(E) /\ Len(captures) \in Nat /\ Len(captures) <= MaxCaptures
    BY <1>1, <2>1 DEF SilverShape
  <2>3. x[1] \in 1 .. Len(captures) /\ captures[x[1]] \in E
    BY <1>3, <2>2
  <2>4. captures[x[1]].payload \in Payloads
    BY <2>1, <2>3
  <2> QED BY <2>2, <2>3, <2>4 DEF CaptureIds, Doc
<1>5. owner_rank(k, Doc(x[1])) \in Nat
  BY DEF owner_rank
<1>6. Instant(x) \in Nat
  BY <1>4 DEF Instant, ordering_instant, CaptureIds
<1>7. registered_at(x[2]) \in Nat
  <2>1. \E i \in DOMAIN registered : registered[i] = x[2]
    BY <1>1, <1>2 DEF RegisteredOnce
  <2>2. registered_at(x[2]) \in DOMAIN registered
    BY <2>1 DEF registered_at
  <2>3. registered \in Seq(Derivations) /\ DOMAIN registered = 1 .. Len(registered)
        /\ Len(registered) \in Nat
    BY <1>1 DEF RegisteredOnce
  <2> QED BY <2>2, <2>3
<1>8. Contract[x[2]] \in Nat /\ x[2] \in Nat
  BY <1>3
<1> QED BY <1>2, <1>3, <1>4, <1>5, <1>6, <1>7, <1>8 DEF Rank, rank, Instant

\* A version that competes ranks with one of the commits that wrote it: the
\* newest of those nobody invalidated.
LEMMA CandidateRow ==
    ASSUME SilverInv, NEW k \in Keys, NEW v \in Candidates(k)
    PROVE  /\ Newest(v) \in InstantsOf(v) /\ Newest(v) \in Nat
           /\ \A n \in InstantsOf(v) : n \in Nat /\ n <= Newest(v)
           /\ \E x \in Rows(k) :
                 /\ Doc(x[1]) = v.payload /\ x[2] = v.derivation
                 /\ Instant(x) = Newest(v) /\ Rank(k, x) = VersionRank(v)
<1>1. SilverShape /\ RegisteredOnce /\ TablesFollow
  BY DEF SilverInv
<1>2. v \in versions /\ v.key = k /\ ValidOccurrences(v) # {} /\ v \in Version
  BY <1>1 DEF Candidates, TablesFollow
<1>3. ASSUME NEW o \in ValidOccurrences(v)
      PROVE  /\ o \in Occurrence /\ <<o.capture, o.derivation>> \in Rows(k)
             /\ o.payload = v.payload /\ o.derivation = v.derivation
             /\ o.payload = Doc(o.capture)
  <2>1. /\ o \in occurrences /\ o.key = k /\ o.payload = v.payload
        /\ o.derivation = v.derivation /\ ~is_invalidated(o.capture, o.derivation)
    BY <1>2 DEF ValidOccurrences, OccurrencesOf
  <2>2. /\ o \in Occurrence /\ <<o.capture, o.derivation>> \in done
        /\ o.payload = Doc(o.capture) /\ o.key \in Covers[o.payload]
    BY <1>1, <2>1 DEF TablesFollow
  <2> QED BY <2>1, <2>2 DEF Rows
<1>4. InstantsOf(v) \subseteq {Published[v.payload]} \cup CaptureIds
  <2>1. \A o \in ValidOccurrences(v) :
           ordering_instant(o.payload, o.capture) \in {Published[v.payload]} \cup CaptureIds
    BY <1>3 DEF ordering_instant, Occurrence
  <2> QED BY <2>1 DEF InstantsOf
<1>5. IsFiniteSet(InstantsOf(v))
  <2>1. IsFiniteSet(CaptureIds)
    BY FS_Interval DEF CaptureIds
  <2>2. IsFiniteSet({Published[v.payload]} \cup CaptureIds)
    BY <2>1, FS_Singleton, FS_Union
  <2> QED BY <1>4, <2>2, FS_Subset
<1>6. InstantsOf(v) \in SUBSET Nat
  <2>1. Published[v.payload] \in Nat
    BY <1>2 DEF Version
  <2> QED BY <1>4, <2>1 DEF CaptureIds
<1>7. InstantsOf(v) # {}
  BY <1>2 DEF InstantsOf
<1>8. Newest(v) \in InstantsOf(v) /\ \A n \in InstantsOf(v) : n <= Newest(v)
  <2>1. \E m \in InstantsOf(v) : \A n \in InstantsOf(v) : n <= m
    BY <1>5, <1>6, <1>7, GreatestNumber
  <2> QED BY <2>1 DEF Newest, Greatest
<1>9. PICK o \in ValidOccurrences(v) : Newest(v) = ordering_instant(o.payload, o.capture)
  BY <1>8 DEF InstantsOf
<1>10. PICK x : x = <<o.capture, o.derivation>>
  OBVIOUS
<1>11. x \in Rows(k) /\ x[1] = o.capture /\ x[2] = v.derivation /\ Doc(x[1]) = v.payload
       /\ o.payload = v.payload
  BY <1>3, <1>10
<1>12. Instant(x) = Newest(v)
  BY <1>9, <1>11 DEF Instant
<1>13. Rank(k, x) = VersionRank(v)
  <2>1. Rank(k, x) = rank(k, v.payload, Newest(v), v.derivation)
    BY <1>11, <1>12 DEF Rank, Instant
  <2>2. VersionRank(v) = rank(k, v.payload, Newest(v), v.derivation)
    BY <1>2 DEF VersionRank, Newest, InstantsOf
  <2> QED BY <2>1, <2>2
<1> QED BY <1>6, <1>8, <1>11, <1>12, <1>13

\* Every commit that counts has a version that competes for it.
LEMMA RowCandidate ==
    ASSUME SilverInv, NEW k \in Keys, NEW x \in Rows(k)
    PROVE  \E v \in Candidates(k) :
              v.payload = Doc(x[1]) /\ v.derivation = x[2] /\ Instant(x) \in InstantsOf(v)
<1>1. TablesFollow
  BY DEF SilverInv
<1>2. x \in done /\ k \in Covers[Doc(x[1])] /\ ~is_invalidated(x[1], x[2])
  BY RowRank
<1>3. PICK v \in versions : v.key = k /\ v.payload = Doc(x[1]) /\ v.derivation = x[2]
  BY <1>1, <1>2 DEF TablesFollow
<1>4. PICK o : o = [key |-> k, payload |-> Doc(x[1]), derivation |-> x[2], capture |-> x[1]]
  OBVIOUS
<1>5. o \in occurrences
  BY <1>1, <1>2, <1>4 DEF TablesFollow
<1>6. o.key = k /\ o.payload = Doc(x[1]) /\ o.derivation = x[2] /\ o.capture = x[1]
  BY <1>4
<1>7. o \in ValidOccurrences(v)
  BY <1>2, <1>3, <1>5, <1>6 DEF ValidOccurrences, OccurrencesOf
<1>8. Instant(x) = ordering_instant(o.payload, o.capture)
  BY <1>6 DEF Instant
<1>9. Instant(x) \in InstantsOf(v) /\ v \in Candidates(k)
  BY <1>3, <1>7, <1>8 DEF InstantsOf, Candidates
<1> QED BY <1>3, <1>9

\* A version and a commit of the same document and derivation differ in rank
\* by the instant alone, and the version's is not the older one.
LEMMA BestOfVersion ==
    ASSUME SilverInv, NEW k \in Keys, NEW x \in Rows(k)
    PROVE  \E v \in Candidates(k), z \in Rows(k) :
              /\ v.payload = Doc(x[1]) /\ v.derivation = x[2] /\ VersionRank(v) = Rank(k, z)
              /\ Doc(z[1]) = Doc(x[1]) /\ z[2] = x[2] /\ Instant(z) >= Instant(x)
<1>1. PICK v \in Candidates(k) :
         v.payload = Doc(x[1]) /\ v.derivation = x[2] /\ Instant(x) \in InstantsOf(v)
  BY RowCandidate
<1>2. /\ \A n \in InstantsOf(v) : n \in Nat /\ n <= Newest(v)
      /\ Newest(v) \in Nat
      /\ \E z \in Rows(k) :
            /\ Doc(z[1]) = v.payload /\ z[2] = v.derivation
            /\ Instant(z) = Newest(v) /\ Rank(k, z) = VersionRank(v)
  BY <1>1, CandidateRow
<1>3. PICK z \in Rows(k) : /\ Doc(z[1]) = v.payload /\ z[2] = v.derivation
                           /\ Instant(z) = Newest(v) /\ Rank(k, z) = VersionRank(v)
  BY <1>2
<1>4. Instant(z) >= Instant(x)
  BY <1>1, <1>2, <1>3
<1> QED BY <1>1, <1>3, <1>4

\* A newer commit of the same document and derivation beats what the older
\* one beats, and is beaten only by what beats the older one.
LEMMA NewerBeatsMore ==
    ASSUME SilverInv, NEW k \in Keys, NEW x \in Rows(k), NEW z \in Rows(k), NEW y \in Rows(k),
           Doc(z[1]) = Doc(x[1]), z[2] = x[2], Instant(z) >= Instant(x)
    PROVE  /\ Exceeds(Rank(k, x), Rank(k, y)) => Exceeds(Rank(k, z), Rank(k, y))
           /\ Exceeds(Rank(k, y), Rank(k, z)) => Exceeds(Rank(k, y), Rank(k, x))
<1>1. PICK s, u, t : s = Rank(k, x) /\ u = Rank(k, z) /\ t = Rank(k, y)
  OBVIOUS
<1>2. /\ DOMAIN s = 1 .. 5 /\ DOMAIN u = 1 .. 5 /\ DOMAIN t = 1 .. 5
      /\ \A i \in 1 .. 5 : s[i] \in Nat /\ u[i] \in Nat /\ t[i] \in Nat
      /\ u[1] = s[1] /\ u[2] >= s[2] /\ u[3] = s[3] /\ u[4] = s[4] /\ u[5] = s[5]
  BY <1>1, RowRank
<1>3. /\ s[1] \in Nat /\ s[2] \in Nat /\ s[3] \in Nat /\ s[4] \in Nat /\ s[5] \in Nat
      /\ u[1] \in Nat /\ u[2] \in Nat /\ u[3] \in Nat /\ u[4] \in Nat /\ u[5] \in Nat
      /\ t[1] \in Nat /\ t[2] \in Nat /\ t[3] \in Nat /\ t[4] \in Nat /\ t[5] \in Nat
  BY <1>2
<1>4. Exceeds(s, t) => Exceeds(u, t)
  BY <1>2, <1>3, ExceedsRank
<1>5. Exceeds(t, u) => Exceeds(t, s)
  BY <1>2, <1>3, ExceedsRank
<1> QED BY <1>1, <1>4, <1>5

LEMMA ViewOfCommits == SilverInv => CurrentFollowsTheCommits
<1> SUFFICES ASSUME SilverInv, NEW k \in Keys
             PROVE  {<<v.payload, v.derivation>> : v \in Current(k)}
                      = {<<Doc(x[1]), x[2]>> : x \in Winners(k)}
  BY DEF CurrentFollowsTheCommits
<1>1. ASSUME NEW v \in Current(k)
      PROVE  \E x \in Winners(k) : <<v.payload, v.derivation>> = <<Doc(x[1]), x[2]>>
  <2>1. v \in Candidates(k) /\ \A u \in Candidates(k) : ~Exceeds(VersionRank(u), VersionRank(v))
    BY CurrentIs
  <2>2. PICK x \in Rows(k) : /\ Doc(x[1]) = v.payload /\ x[2] = v.derivation
                             /\ Rank(k, x) = VersionRank(v)
    BY <2>1, CandidateRow
  <2>3. ASSUME NEW y \in Rows(k), Exceeds(Rank(k, y), Rank(k, x)) PROVE FALSE
    <3>1. PICK u \in Candidates(k), z \in Rows(k) :
              /\ VersionRank(u) = Rank(k, z)
              /\ Doc(z[1]) = Doc(y[1]) /\ z[2] = y[2] /\ Instant(z) >= Instant(y)
      BY BestOfVersion
    <3>2. Exceeds(Rank(k, z), Rank(k, x))
      BY <2>3, <3>1, NewerBeatsMore
    <3> QED BY <2>1, <2>2, <3>1, <3>2
  <2>4. x \in Winners(k)
    BY <2>3, WinnersAre
  <2> QED BY <2>2, <2>4
<1>2. ASSUME NEW x \in Winners(k)
      PROVE  \E v \in Current(k) : <<v.payload, v.derivation>> = <<Doc(x[1]), x[2]>>
  <2>1. x \in Rows(k) /\ \A y \in Rows(k) : ~Exceeds(Rank(k, y), Rank(k, x))
    BY WinnersAre
  <2>2. PICK v \in Candidates(k), z \in Rows(k) :
           /\ v.payload = Doc(x[1]) /\ v.derivation = x[2] /\ VersionRank(v) = Rank(k, z)
           /\ Doc(z[1]) = Doc(x[1]) /\ z[2] = x[2] /\ Instant(z) >= Instant(x)
    BY <2>1, BestOfVersion
  <2>3. ASSUME NEW u \in Candidates(k), Exceeds(VersionRank(u), VersionRank(v)) PROVE FALSE
    <3>1. PICK y \in Rows(k) : Rank(k, y) = VersionRank(u)
      BY CandidateRow
    <3>2. Exceeds(Rank(k, y), Rank(k, x))
      BY <2>1, <2>2, <2>3, <3>1, NewerBeatsMore
    <3> QED BY <2>1, <3>2
  <2>4. v \in Current(k)
    BY <2>3, CurrentIs
  <2> QED BY <2>2, <2>4
<1> QED BY <1>1, <1>2

\* The current view depends on the set of commits alone: not on their order,
\* not on repetitions, and not on when the invalidations arrived.
THEOREM ViewIsAFunctionOfTheCommits == Spec => []CurrentFollowsTheCommits
  BY SilverInvariant, ViewOfCommits, PTL

LEMMA CurrentIsValid == SilverInv => CurrentIsNotInvalidated
<1> SUFFICES ASSUME SilverInv, NEW k \in Keys, NEW v \in Current(k)
             PROVE  \E c \in DOMAIN captures :
                       /\ Doc(c) = v.payload /\ k \in Covers[Doc(c)]
                       /\ <<c, v.derivation>> \in done
                       /\ ~\E i \in invalid : i.capture = c
                                              /\ i.derivation \in {v.derivation, Anything}
  BY DEF CurrentIsNotInvalidated
<1>1. v \in Candidates(k)
  BY CurrentIs
<1>2. PICK x \in Rows(k) : Doc(x[1]) = v.payload /\ x[2] = v.derivation
  BY <1>1, CandidateRow
<1>3. /\ x \in done /\ x = <<x[1], x[2]>> /\ x[1] \in DOMAIN captures
      /\ k \in Covers[Doc(x[1])] /\ ~is_invalidated(x[1], x[2])
  BY RowRank
<1> QED BY <1>2, <1>3 DEF is_invalidated

\* A current row has a capture in Bronze whose output nobody invalidated.
THEOREM CurrentStaysValid == Spec => []CurrentIsNotInvalidated
  BY SilverInvariant, CurrentIsValid, PTL

------------------------------------------------------------------------------
(* What a step does to the view.                                           *)

\* Only a commit writes the tables: it registers the derivation and, when the
\* document maps, writes its rows.
LEMMA SilverStep ==
    ASSUME SilverInv, [Next]_vars, silver' # silver, invalid' = invalid
    PROVE  /\ UNCHANGED captures
           /\ \E c \in DOMAIN captures, d \in Derivations :
                 /\ registered' = RegisteredWith(d)
                 /\ \/ UNCHANGED <<versions, occurrences, done>>
                    \/ /\ versions' = VersionsWith(c, d) /\ occurrences' = OccurrencesWith(c, d)
                       /\ done' = done \cup {<<c, d>>}
<1>1. PICK w \in Workers : Commit(w)
  BY DEF Next, vars, silver, Capture, Release, Claim, CheckInvalidated, Exit, ReplayRange,
         ReplayDerivation, Invalidate, Mirror
<1>2. PICK x, c, d : x = workers[w] /\ c = workers[w].capture /\ d = workers[w].derivation
  OBVIOUS
<1>3. c \in DOMAIN captures /\ d \in Derivations
  <2>1. x \in Working \cup Between \cup {Idle} /\ x.pc # "idle" /\ c \in DOMAIN captures
    BY <1>1, <1>2 DEF SilverInv, SilverShape, Commit
  <2>2. x \in Working
    BY <2>1, WorkerRecords
  <2> QED BY <1>2, <2>1, <2>2 DEF Working
<1>4. /\ UNCHANGED captures
      /\ registered' = RegisteredWith(d)
      /\ \/ UNCHANGED <<versions, occurrences, done>>
         \/ /\ versions' = VersionsWith(c, d) /\ occurrences' = OccurrencesWith(c, d)
            /\ done' = done \cup {<<c, d>>}
  BY <1>1, <1>2 DEF Commit, silver
<1> QED BY <1>3, <1>4

\* Registering a derivation does not move those that are registered.
LEMMA RegistrationStays ==
    ASSUME RegisteredOnce, NEW d \in Derivations, registered' = RegisteredWith(d),
           NEW e, \E i \in DOMAIN registered : registered[i] = e
    PROVE  registered_at(e)' = registered_at(e)
<1>1. /\ \A i, j \in DOMAIN registered' : registered'[i] = registered'[j] => i = j
      /\ \A i \in DOMAIN registered : i \in DOMAIN registered' /\ registered'[i] = registered[i]
  BY RegisteredWithKeeps
<1>2. PICK n : n = registered_at(e)
  OBVIOUS
<1>3. n \in DOMAIN registered /\ registered[n] = e
  BY <1>2 DEF registered_at
<1>4. n \in DOMAIN registered' /\ registered'[n] = e
  BY <1>1, <1>3
<1>5. \A i \in DOMAIN registered' : registered'[i] = e <=> i = n
  BY <1>1, <1>4
<1>6. registered_at(e)' = (CHOOSE i \in DOMAIN registered' : registered'[i] = e)
  BY DEF registered_at
<1>7. (CHOOSE i \in DOMAIN registered' : registered'[i] = e) = n
  BY <1>4, <1>5
<1> QED BY <1>2, <1>6, <1>7

\* Rows that are there are not written again.
LEMMA RowsKept ==
    ASSUME TablesFollow, NEW c, NEW d, <<c, d>> \in done
    PROVE  VersionsWith(c, d) = versions /\ OccurrencesWith(c, d) = occurrences
<1>1. PICK x \in done : x = <<c, d>>
  OBVIOUS
<1>2. x[1] = c /\ x[2] = d
  BY <1>1
<1>3. \A k \in Covers[Doc(c)] :
         /\ [key |-> k, payload |-> Doc(c), derivation |-> d, capture |-> c] \in occurrences
         /\ \E v \in versions : v.key = k /\ v.payload = Doc(c) /\ v.derivation = d
  <2>1. \A k \in Covers[Doc(x[1])] :
           /\ [key |-> k, payload |-> Doc(x[1]), derivation |-> x[2], capture |-> x[1]]
                \in occurrences
           /\ \E v \in versions : v.key = k /\ v.payload = Doc(x[1]) /\ v.derivation = x[2]
    BY DEF TablesFollow
  <2> QED BY <1>2, <2>1
<1>4. OccurrencesWith(c, d) = occurrences
  BY <1>3 DEF OccurrencesWith
<1>5. VersionsWith(c, d) = versions
  BY <1>3 DEF VersionsWith
<1> QED BY <1>4, <1>5

\* With the tables and the decisions the view stays what it was.
LEMMA ViewStays ==
    ASSUME SilverInv, UNCHANGED <<versions, occurrences, invalid>>,
           NEW d \in Derivations, registered' = RegisteredWith(d), NEW k \in Keys
    PROVE  Current(k)' = Current(k)
<1>1. \A v : ValidOccurrences(v)' = ValidOccurrences(v)
  BY DEF ValidOccurrences, OccurrencesOf, is_invalidated
<1>2. Candidates(k)' = Candidates(k)
  BY <1>1 DEF Candidates
<1>3. ASSUME NEW v \in Candidates(k) PROVE VersionRank(v)' = VersionRank(v)
  <2>1. PICK x \in Rows(k) : x[2] = v.derivation
    BY CandidateRow
  <2>2. \E i \in DOMAIN registered : registered[i] = v.derivation
    BY <2>1 DEF Rows, SilverInv, RegisteredOnce
  <2>3. registered_at(v.derivation)' = registered_at(v.derivation)
    BY <2>2, RegistrationStays DEF SilverInv
  <2>4. InstantsOf(v)' = InstantsOf(v)
    BY <1>1 DEF InstantsOf, ordering_instant
  <2>5. /\ VersionRank(v) = <<owner_rank(v.key, v.payload), Greatest(InstantsOf(v)),
                             Contract[v.derivation], registered_at(v.derivation), v.derivation>>
        /\ VersionRank(v)' = <<owner_rank(v.key, v.payload), Greatest(InstantsOf(v)'),
                              Contract[v.derivation], registered_at(v.derivation)', v.derivation>>
    BY DEF VersionRank, InstantsOf, rank
  <2> QED BY <2>3, <2>4, <2>5
<1>4. Current(k)' = {v \in Candidates(k)' : \A u \in Candidates(k)' :
                                               ~Exceeds(VersionRank(u)', VersionRank(v)')}
  BY DEF Current, Candidates
<1> QED BY <1>2, <1>3, <1>4, CurrentIs

\* Replaying what was already committed, refusing and quarantining change
\* nothing a reader of the current view sees.
THEOREM RetryChangesNothing == Spec => ExactRetryChangesNothing
<1>1. ASSUME SilverInv, [Next]_vars, silver' # silver, done' = done, invalid' = invalid,
             NEW k \in Keys
      PROVE  Current(k)' = Current(k)
  <2>1. PICK c \in DOMAIN captures, d \in Derivations :
           /\ registered' = RegisteredWith(d)
           /\ \/ UNCHANGED <<versions, occurrences, done>>
              \/ /\ versions' = VersionsWith(c, d) /\ occurrences' = OccurrencesWith(c, d)
                 /\ done' = done \cup {<<c, d>>}
    BY <1>1, SilverStep
  <2>2. UNCHANGED <<versions, occurrences>>
    <3>1. CASE UNCHANGED <<versions, occurrences, done>>
      BY <3>1
    <3>2. CASE /\ versions' = VersionsWith(c, d) /\ occurrences' = OccurrencesWith(c, d)
               /\ done' = done \cup {<<c, d>>}
      <4>1. <<c, d>> \in done /\ TablesFollow
        BY <1>1, <3>2 DEF SilverInv
      <4> QED BY <3>2, <4>1, RowsKept
    <3> QED BY <2>1, <3>1, <3>2
  <2> QED BY <1>1, <2>1, <2>2, ViewStays
<1>2. SilverInv /\ [Next]_vars =>
         (silver' # silver /\ done' = done /\ invalid' = invalid =>
             \A k \in Keys : Current(k)' = Current(k))
  BY <1>1 DEF Keys
<1> QED BY <1>2, SilverInvariant, PTL DEF Spec, ExactRetryChangesNothing

\* A key that some commit counts for has a current row: a finite set of ranks
\* has a greatest one.
LEMMA SomethingIsCurrent == SilverInv => \A k \in Keys : Rows(k) # {} => Current(k) # {}
<1> SUFFICES ASSUME SilverInv, NEW k \in Keys, Rows(k) # {} PROVE Current(k) # {}
  BY DEF Keys
<1> DEFINE Above == {p \in Rows(k) \X Rows(k) : Exceeds(Rank(k, p[1]), Rank(k, p[2]))}
<1>1. \A x, y \in Rows(k) : <<x, y>> \in Above <=> Exceeds(Rank(k, x), Rank(k, y))
  OBVIOUS
<1>2. IsFiniteSet(Rows(k))
  <2>1. Rows(k) \subseteq done /\ IsFiniteSet(done)
    BY DEF Rows, SilverInv, TablesFollow
  <2> QED BY <2>1, FS_Subset
<1>3. \A x \in Rows(k) : DOMAIN Rank(k, x) = 1 .. 5 /\ \A i \in 1 .. 5 : Rank(k, x)[i] \in Nat
  BY RowRank
<1> HIDE DEF Above
<1>4. ASSUME NEW x \in Rows(k) PROVE <<x, x>> \notin Above
  <2>1. PICK s : s = Rank(k, x)
    OBVIOUS
  <2>2. /\ DOMAIN s = 1 .. 5
        /\ s[1] \in Nat /\ s[2] \in Nat /\ s[3] \in Nat /\ s[4] \in Nat /\ s[5] \in Nat
    BY <1>3, <2>1
  <2>3. ~Exceeds(s, s)
    BY <2>2, ExceedsRank
  <2> QED BY <1>1, <2>1, <2>3
<1>5. ASSUME NEW x \in Rows(k), NEW y \in Rows(k), NEW z \in Rows(k),
             <<x, y>> \in Above, <<y, z>> \in Above
      PROVE  <<x, z>> \in Above
  <2>1. PICK s, t, u : s = Rank(k, x) /\ t = Rank(k, y) /\ u = Rank(k, z)
    OBVIOUS
  <2>2. /\ DOMAIN s = 1 .. 5 /\ DOMAIN t = 1 .. 5
        /\ s[1] \in Nat /\ s[2] \in Nat /\ s[3] \in Nat /\ s[4] \in Nat /\ s[5] \in Nat
        /\ u[1] \in Nat /\ u[2] \in Nat /\ u[3] \in Nat /\ u[4] \in Nat /\ u[5] \in Nat
        /\ t[1] \in Nat /\ t[2] \in Nat /\ t[3] \in Nat /\ t[4] \in Nat /\ t[5] \in Nat
    BY <1>3, <2>1
  <2>3. Exceeds(s, t) /\ Exceeds(t, u)
    BY <1>1, <1>5, <2>1
  <2>4. Exceeds(s, u)
    BY <2>2, <2>3, ExceedsRank
  <2> QED BY <1>1, <2>1, <2>4
<1>6. PICK m \in Rows(k) : \A x \in Rows(k) : <<x, m>> \notin Above
  <2>1. \A x, y, z \in Rows(k) : <<x, y>> \in Above /\ <<y, z>> \in Above => <<x, z>> \in Above
    BY <1>5
  <2> QED BY <1>2, <1>4, <2>1, MaximalElement
<1>7. m \in Winners(k)
  BY <1>1, <1>6, WinnersAre
<1>8. {<<v.payload, v.derivation>> : v \in Current(k)}
         = {<<Doc(x[1]), x[2]>> : x \in Winners(k)}
  BY ViewOfCommits DEF CurrentFollowsTheCommits
<1>9. PICK q : q = <<Doc(m[1]), m[2]>>
  OBVIOUS
<1>10. q \in {<<Doc(x[1]), x[2]>> : x \in Winners(k)}
  BY <1>7, <1>9
<1>11. \E v \in Current(k) : q = <<v.payload, v.derivation>>
  BY <1>8, <1>10
<1> QED BY <1>11

\* The newest instant among the current rows of a key is that of a commit no
\* other commit of the same owner is newer than.
NewestIsTheBest(k) ==
    \E x \in Rows(k) :
       /\ Greatest(Instants(k)) = Instant(x)
       /\ OwnerCurrent(k) <=> owner_rank(k, Doc(x[1])) = 1
       /\ \A y \in Rows(k) :
             /\ owner_rank(k, Doc(y[1])) <= owner_rank(k, Doc(x[1]))
             /\ owner_rank(k, Doc(y[1])) = owner_rank(k, Doc(x[1])) => Instant(y) <= Instant(x)

LEMMA NewestCurrent == SilverInv => \A k \in Keys : Current(k) # {} => NewestIsTheBest(k)
<1> SUFFICES ASSUME SilverInv, NEW k \in Keys, Current(k) # {} PROVE NewestIsTheBest(k)
  BY DEF Keys
<1>1. PICK v \in Current(k) : TRUE
  OBVIOUS
<1>2. \A u \in Current(k) : u \in Candidates(k)
        /\ \A c \in Candidates(k) : ~Exceeds(VersionRank(c), VersionRank(u))
  BY CurrentIs
<1>3. PICK x \in Rows(k) : /\ Doc(x[1]) = v.payload /\ x[2] = v.derivation
                           /\ Instant(x) = Newest(v) /\ Rank(k, x) = VersionRank(v)
  BY <1>2, CandidateRow
<1>4. ASSUME NEW y \in Rows(k), ~Exceeds(Rank(k, y), Rank(k, x))
      PROVE  /\ owner_rank(k, Doc(y[1])) <= owner_rank(k, Doc(x[1]))
             /\ owner_rank(k, Doc(y[1])) = owner_rank(k, Doc(x[1])) => Instant(y) <= Instant(x)
  <2>1. PICK s, t : s = Rank(k, y) /\ t = Rank(k, x)
    OBVIOUS
  <2>2. /\ DOMAIN s = 1 .. 5 /\ s[1] = owner_rank(k, Doc(y[1])) /\ s[2] = Instant(y)
        /\ t[1] = owner_rank(k, Doc(x[1])) /\ t[2] = Instant(x)
        /\ s[1] \in Nat /\ s[2] \in Nat /\ t[1] \in Nat /\ t[2] \in Nat
    BY <2>1, RowRank
  <2>3. ~(s[1] > t[1]) /\ ~(s[1] = t[1] /\ s[2] > t[2])
    BY <1>4, <2>1, <2>2, ExceedsRank
  <2> QED BY <2>2, <2>3
<1>5. ASSUME NEW y \in Rows(k) PROVE ~Exceeds(Rank(k, y), Rank(k, x))
  <2>1. PICK u \in Candidates(k), z \in Rows(k) :
            /\ VersionRank(u) = Rank(k, z)
            /\ Doc(z[1]) = Doc(y[1]) /\ z[2] = y[2] /\ Instant(z) >= Instant(y)
    BY BestOfVersion
  <2>2. Exceeds(Rank(k, y), Rank(k, x)) => Exceeds(Rank(k, z), Rank(k, x))
    BY <2>1, NewerBeatsMore
  <2> QED BY <1>2, <1>3, <2>1, <2>2
<1>6. ASSUME NEW u \in Current(k)
      PROVE  owner_rank(k, u.payload) = owner_rank(k, v.payload) /\ Newest(u) = Newest(v)
  <2>1. PICK y \in Rows(k) : /\ Doc(y[1]) = u.payload
                             /\ Instant(y) = Newest(u) /\ Rank(k, y) = VersionRank(u)
    BY <1>2, CandidateRow
  <2>2. ~Exceeds(Rank(k, y), Rank(k, x)) /\ ~Exceeds(Rank(k, x), Rank(k, y))
    BY <1>2, <1>3, <1>5, <2>1
  <2>3. PICK s, t : s = Rank(k, y) /\ t = Rank(k, x)
    OBVIOUS
  <2>4. /\ DOMAIN s = 1 .. 5 /\ s[1] = owner_rank(k, Doc(y[1])) /\ s[2] = Instant(y)
        /\ DOMAIN t = 1 .. 5 /\ t[1] = owner_rank(k, Doc(x[1])) /\ t[2] = Instant(x)
        /\ s[1] \in Nat /\ s[2] \in Nat /\ t[1] \in Nat /\ t[2] \in Nat
    BY <2>3, RowRank
  <2>5. ~(s[1] > t[1]) /\ ~(s[1] = t[1] /\ s[2] > t[2])
    BY <2>2, <2>3, <2>4, ExceedsRank
  <2>6. ~(t[1] > s[1]) /\ ~(t[1] = s[1] /\ t[2] > s[2])
    BY <2>2, <2>3, <2>4, ExceedsRank
  <2>7. s[1] = t[1] /\ s[2] = t[2]
    BY <2>4, <2>5, <2>6
  <2> QED BY <1>3, <2>1, <2>4, <2>7
<1>7. Greatest(Instants(k)) = Newest(v)
  <2>1. Instants(k) = UNION {InstantsOf(u) : u \in Current(k)}
    BY DEF Instants, InstantsOf
  <2>2. \A u \in Current(k) : /\ Newest(u) \in InstantsOf(u) /\ Newest(u) \in Nat
                              /\ \A n \in InstantsOf(u) : n \in Nat /\ n <= Newest(u)
    BY <1>2, CandidateRow
  <2>3. Newest(v) \in Instants(k) /\ Newest(v) \in Nat
    BY <1>1, <2>1, <2>2
  <2>4. \A n \in Instants(k) : n \in Nat /\ n <= Newest(v)
    BY <1>6, <2>1, <2>2
  <2>5. PICK g : g = Greatest(Instants(k))
    OBVIOUS
  <2>6. g \in Instants(k) /\ \A n \in Instants(k) : n <= g
    BY <2>3, <2>4, <2>5 DEF Greatest
  <2>7. g \in Nat /\ g <= Newest(v) /\ Newest(v) <= g
    BY <2>3, <2>4, <2>6
  <2> QED BY <2>3, <2>5, <2>7
<1>8. OwnerCurrent(k) <=> owner_rank(k, Doc(x[1])) = 1
  BY <1>1, <1>3, <1>6 DEF OwnerCurrent
<1> QED BY <1>3, <1>4, <1>5, <1>7, <1>8 DEF NewestIsTheBest

\* Committing an older capture, under whatever derivation, never makes an older
\* row current, except the system of record's over the copy.
THEOREM ReplayNeverRegresses == Spec => CurrentNeverRegresses
<1>1. ASSUME SilverInv, SilverInv', [Next]_vars, silver' # silver, invalid' = invalid,
             NEW k \in Keys, Current(k) # {},
             Rows(k)' # {} => Current(k)' # {}, Current(k)' # {} => NewestIsTheBest(k)'
      PROVE  \/ OwnerCurrent(k)' /\ ~OwnerCurrent(k)
             \/ Greatest(Instants(k)') >= Greatest(Instants(k))
  <2>1. PICK x \in Rows(k) :
           /\ Greatest(Instants(k)) = Instant(x)
           /\ OwnerCurrent(k) <=> owner_rank(k, Doc(x[1])) = 1
    BY <1>1, NewestCurrent DEF NewestIsTheBest
  <2>2. captures' = captures /\ done \subseteq done'
    BY <1>1, SilverStep
  <2>3. \A c, d : is_invalidated(c, d)' = is_invalidated(c, d)
    BY <1>1 DEF is_invalidated
  <2>4. \A c : Doc(c)' = Doc(c)
    BY <2>2 DEF Doc
  <2>5. x \in Rows(k)'
    BY <2>2, <2>3, <2>4 DEF Rows
  <2>6. PICK z \in Rows(k)' :
           /\ Greatest(Instants(k)') = Instant(z)'
           /\ OwnerCurrent(k)' <=> owner_rank(k, Doc(z[1])') = 1
           /\ owner_rank(k, Doc(x[1])') <= owner_rank(k, Doc(z[1])')
           /\ owner_rank(k, Doc(x[1])') = owner_rank(k, Doc(z[1])') => Instant(x)' <= Instant(z)'
    BY <1>1, <2>5 DEF NewestIsTheBest, owner_rank, Greatest
  <2>7. Instant(x)' = Instant(x) /\ Instant(z)' = Instant(z)
    BY <2>4 DEF Instant, ordering_instant
  <2>8. \A p : owner_rank(k, p) \in {0, 1}
    BY DEF owner_rank
  <2>9. CASE owner_rank(k, Doc(x[1])) = owner_rank(k, Doc(z[1]))
    <3>1. Instant(x) <= Instant(z)
      BY <2>4, <2>6, <2>7, <2>9
    <3>2. Instant(x) \in Nat
      BY <1>1, RowRank
    <3> QED BY <2>1, <2>6, <2>7, <3>1, <3>2
  <2>10. CASE owner_rank(k, Doc(x[1])) # owner_rank(k, Doc(z[1]))
    <3>1. owner_rank(k, Doc(x[1])) = 0 /\ owner_rank(k, Doc(z[1])) = 1
      BY <2>4, <2>6, <2>8, <2>10
    <3> QED BY <2>1, <2>4, <2>6, <3>1
  <2> QED BY <2>9, <2>10
<1>2. (SilverInv => \A k \in Keys : Rows(k) # {} => Current(k) # {})'
  BY SomethingIsCurrent, PTL
<1>3. (SilverInv => \A k \in Keys : Current(k) # {} => NewestIsTheBest(k))'
  BY NewestCurrent, PTL
<1>4. SilverInv /\ SilverInv' /\ [Next]_vars =>
         (silver' # silver /\ invalid' = invalid =>
            \A k \in Keys : Current(k) # {} =>
               \/ OwnerCurrent(k)' /\ ~OwnerCurrent(k)
               \/ Greatest(Instants(k)') >= Greatest(Instants(k)))
  <2> SUFFICES ASSUME SilverInv, SilverInv', [Next]_vars, silver' # silver, invalid' = invalid,
                      NEW k \in Keys, Current(k) # {}
               PROVE  \/ OwnerCurrent(k)' /\ ~OwnerCurrent(k)
                      \/ Greatest(Instants(k)') >= Greatest(Instants(k))
    BY DEF Keys
  <2>1. (Rows(k)' # {} => Current(k)' # {}) /\ (Current(k)' # {} => NewestIsTheBest(k)')
    BY <1>2, <1>3 DEF Keys
  <2> QED BY <1>1, <2>1
<1> QED BY <1>4, SilverInvariant, PTL DEF Spec, CurrentNeverRegresses

------------------------------------------------------------------------------
(* The shape of the tables.                                                *)

\* What the type invariant adds to SilverInv: the upsert of observations.
KeyedOnce ==
    \A u, v \in versions :
        u.key = v.key /\ u.payload = v.payload /\ u.derivation = v.derivation => u = v

ShapeInv == pending \subseteq Runs /\ releases \in 0 .. MaxReleases /\ KeyedOnce

\* A row is inserted only where no row has its key, and one commit brings one
\* row per key.
LEMMA UpsertKeepsKeys ==
    ASSUME KeyedOnce, NEW c, NEW d
    PROVE  \A u, v \in VersionsWith(c, d) :
              u.key = v.key /\ u.payload = v.payload /\ u.derivation = v.derivation => u = v
<1> DEFINE Row(k) == [key |-> k, payload |-> Doc(c), derivation |-> d, run |-> RunOf(c)]
           Free == {k \in Covers[Doc(c)] :
                     ~\E v \in versions : v.key = k /\ v.payload = Doc(c) /\ v.derivation = d}
<1>1. VersionsWith(c, d) = versions \cup {Row(k) : k \in Free}
  BY DEF VersionsWith
<1>2. \A k : Row(k).key = k /\ Row(k).payload = Doc(c) /\ Row(k).derivation = d
  OBVIOUS
<1>3. \A k \in Free : \A v \in versions : ~(v.key = k /\ v.payload = Doc(c) /\ v.derivation = d)
  OBVIOUS
<1> HIDE DEF Row, Free
<1> QED BY <1>1, <1>2, <1>3 DEF KeyedOnce

LEMMA ShapeStep == SilverInv /\ ShapeInv /\ [Next]_vars => ShapeInv'
<1> SUFFICES ASSUME SilverInv, ShapeInv, [Next]_vars PROVE ShapeInv'
  OBVIOUS
<1> USE DEF ShapeInv, silver
<1>0. MaxReleases \in Nat
  BY SilverAssumption
<1>1. ASSUME NEW r \in Runs, NEW p \in Payloads, Capture(r, p) PROVE ShapeInv'
  BY <1>1 DEF Capture, KeyedOnce
<1>2. ASSUME NEW t \in Targets, NEW d \in Derivations, Release(t, d) PROVE ShapeInv'
  BY <1>0, <1>2 DEF Release, KeyedOnce
<1>3. ASSUME NEW w \in Workers, NEW r \in Runs, NEW d \in Derivations, Claim(w, r, d) PROVE ShapeInv'
  BY <1>3 DEF Claim, KeyedOnce
<1>4. ASSUME NEW w \in Workers, CheckInvalidated(w) PROVE ShapeInv'
  BY <1>4 DEF CheckInvalidated, KeyedOnce
<1>5. ASSUME NEW w \in Workers, Commit(w) PROVE ShapeInv'
  <2>1. \/ versions' = versions
        \/ versions' = VersionsWith(workers[w].capture, workers[w].derivation)
    BY <1>5 DEF Commit
  <2>2. KeyedOnce'
    BY <2>1, UpsertKeepsKeys DEF KeyedOnce
  <2> QED BY <1>5, <2>2 DEF Commit
<1>6. ASSUME NEW w \in Workers, Exit(w) PROVE ShapeInv'
  BY <1>6 DEF Exit, KeyedOnce
<1>7. ASSUME NEW R \in SUBSET Runs, ReplayRange(R) PROVE ShapeInv'
  BY <1>7 DEF ReplayRange, KeyedOnce
<1>8. ASSUME NEW d \in Derivations, ReplayDerivation(d) PROVE ShapeInv'
  <2>1. runs_with_derivation(d) \subseteq Runs
    BY DEF runs_with_derivation, SilverInv, TablesFollow, Version
  <2> QED BY <1>8, <2>1 DEF ReplayDerivation, KeyedOnce
<1>9. ASSUME NEW c \in DOMAIN captures, NEW d \in Derivations \cup {Anything}, Invalidate(c, d) PROVE ShapeInv'
  BY <1>9 DEF Invalidate, KeyedOnce
<1>10. ASSUME NEW i \in decisions, Mirror(i) PROVE ShapeInv'
  BY <1>10 DEF Mirror, KeyedOnce
<1>11. CASE UNCHANGED vars
  BY <1>11 DEF vars, KeyedOnce
<1> QED BY <1>1, <1>2, <1>3, <1>4, <1>5, <1>6, <1>7, <1>8, <1>9, <1>10, <1>11 DEF Next

\* Each derivation is registered once, so there are no more registrations than
\* derivations.
LEMMA RegistrationsFit ==
    ASSUME RegisteredOnce, IsFiniteSet(Derivations)
    PROVE  Len(registered) <= Cardinality(Derivations)
<1>1. Len(registered) \in Nat /\ DOMAIN registered = 1 .. Len(registered)
  BY DEF RegisteredOnce
<1>2. registered \in [1 .. Len(registered) -> Derivations]
  BY <1>1 DEF RegisteredOnce
<1>3. registered \in Injection(1 .. Len(registered), Derivations)
  BY <1>1, <1>2, Fun_IsInj DEF RegisteredOnce
<1> DEFINE n == Len(registered)
<1>4. Cardinality(1 .. n) = n
  <2>0. 1 \in Int /\ n \in Int /\ n \in Nat
    BY <1>1
  <2> HIDE DEF n
  <2>1. Cardinality(1 .. n) = IF 1 > n THEN 0 ELSE n - 1 + 1
    BY <2>0, FS_Interval
  <2> QED BY <2>0, <2>1
<1>5. Cardinality(1 .. n) <= Cardinality(Derivations)
  BY <1>3, FS_Injection
<1> QED BY <1>4, <1>5

\* store/postgres.py, commit(): the tables keep the shape of the migrations, and
\* two commits of one document never give two versions of an identity.
THEOREM SilverTypeOK ==
  ASSUME IsFiniteSet(Derivations)
  PROVE  Spec => []TypeOK
<1>1. Init => ShapeInv
  BY SilverAssumption DEF Init, ShapeInv, KeyedOnce
<1>2. SilverInv /\ ShapeInv => TypeOK
  <2> SUFFICES ASSUME SilverInv, ShapeInv PROVE TypeOK
    OBVIOUS
  <2>1. names \in [Runs -> CaptureIds \cup {0}]
    BY SilverAssumption DEF SilverInv, SilverShape, CaptureIds
  <2>2. Len(registered) <= Cardinality(Derivations)
    BY RegistrationsFit DEF SilverInv
  <2> QED BY <2>1, <2>2 DEF TypeOK, SilverInv, SilverShape, RegisteredOnce, TablesFollow, ShapeInv, KeyedOnce
<1> QED BY <1>1, <1>2, ShapeStep, SilverInvariant, PTL DEF Spec
==============================================================================
