----------------------------- MODULE DrillProofs -----------------------------
(***************************************************************************)
(* Theorems about the restore drill, for any number of runs, targets,      *)
(* captures, payloads and derivations, and any number of events.  The      *)
(* invariant DrillInv says what the rebuild owes to the replica while      *)
(* nothing is lost: which captures are shown, which are still to be done.  *)
(***************************************************************************)
EXTENDS Drill, FiniteSetTheorems, WellFoundedInduction, TLAPS

USE DrillAssumption

------------------------------------------------------------------------------
(* Least and greatest elements.                                            *)

\* A set of numbers that is not empty has a least element.
LEMMA LeastNumber ==
    ASSUME NEW S \in SUBSET Nat, S # {}
    PROVE  \E m \in S : \A n \in S : m <= n
<1> DEFINE R == OpToRel(<, Nat)
<1>1. \A x, y \in Nat : <<x, y>> \in R <=> x < y
  BY DEF OpToRel
<1>2. IsWellFoundedOn(R, Nat)
  BY NatLessThanWellFounded
<1> HIDE DEF R
<1>3. PICK m \in S : \A n \in S : <<n, m>> \notin R
  BY <1>2, WFMin
<1>4. ASSUME NEW n \in S PROVE m <= n
  <2>1. m \in Nat /\ n \in Nat /\ ~(n < m)
    BY <1>1, <1>3
  <2> QED BY <2>1
<1> QED BY <1>4

\* A set of numbers that is bounded and not empty has a greatest element.
LEMMA GreatestNumber ==
    ASSUME NEW b \in Nat, NEW S \in SUBSET (0 .. b), S # {}
    PROVE  \E m \in S : \A n \in S : n <= m
<1> DEFINE T == {b - n : n \in S}
<1>1. T \in SUBSET Nat /\ T # {}
  <2>1. \A n \in S : b - n \in Nat
    OBVIOUS
  <2>2. T # {}
    OBVIOUS
  <2> QED BY <2>1, <2>2
<1> HIDE DEF T
<1>2. PICK k \in T : \A j \in T : k <= j
  BY <1>1, LeastNumber
<1>3. PICK m \in S : k = b - m
  BY DEF T
<1>4. ASSUME NEW n \in S PROVE n <= m
  <2>1. b - n \in T
    BY DEF T
  <2>2. b - m <= b - n /\ m \in Nat /\ n \in Nat
    BY <1>2, <1>3, <2>1
  <2> QED BY <2>2
<1> QED BY <1>4

\* What max() finds in a listing: its newest capture.
LEMMA NewestIsThere ==
    ASSUME NEW n \in Nat, NEW S \in SUBSET (1 .. n), S # {}
    PROVE  Newest(S) \in S /\ \A e \in S : e <= Newest(S)
<1>1. PICK m \in S : \A e \in S : e <= m
  <2>1. S \in SUBSET (0 .. n)
    OBVIOUS
  <2> QED BY <2>1, GreatestNumber
<1> QED BY <1>1 DEF Newest

\* The numbers of the targets: 1 is one of them, and the successor of one is
\* another one or there are no more.
LEMMA TargetsAre ==
    /\ Targets \subseteq Nat \ {0} /\ 1 \in Targets
    /\ \A t, u \in Targets : u < t + 1 => u = t \/ u < t
    /\ \A t, u \in Targets : t + 1 \notin Targets => u <= t
<1>1. IsFiniteSet(Targets)
  <2> DEFINE f == [r \in Runs |-> Target[r]]
  <2>1. f \in [Runs -> Targets] /\ \A t \in Targets : \E r \in Runs : f[r] = t
    BY DEF Targets
  <2> HIDE DEF f
  <2>2. f \in Surjection(Runs, Targets)
    BY <2>1 DEF Surjection, Range
  <2> QED BY <2>2, FS_Surjection
<1>2. PICK n \in Nat : Targets = 1 .. n
  BY <1>1, FS_CardinalityType
<1>3. Targets # {}
  BY DEF Targets
<1> QED BY <1>2, <1>3

------------------------------------------------------------------------------
(* The inductive invariant.                                                *)

Version == [payload: Payloads, derivation: Derivations, capture: Nat]
Occurrence == Payloads \X Derivations \X Nat

Store == [rows: SUBSET Version, occurrences: SUBSET Occurrence, names: [Runs -> Nat],
          processed: SUBSET Runs, began: [Runs -> Nat], registered: Seq(Derivations),
          invalid: SUBSET Nat]

LogInv ==
    /\ captures \in Seq([run: Runs, payload: Payloads, acked: BOOLEAN])
    /\ replica \in [entries: SUBSET Nat, decisions: SUBSET Nat, blobs: SUBSET Payloads]
    /\ replica.entries \cup lost \cup decisions \subseteq DOMAIN captures
    /\ replica.entries \cap lost = {} /\ replica.decisions \subseteq decisions
    /\ deployed \in Derivations

\* Of either store: what it names and shows is captured, what it shows it has
\* met.
StoreInv(s) ==
    /\ s \in Store
    /\ \A r \in Runs : s.names[r] # 0 =>
          s.names[r] \in DOMAIN captures /\ RunOf(s.names[r]) = r /\ s.began[r] # 0
    /\ \A r \in s.processed : s.names[r] # 0
    /\ \A v \in s.rows :
          /\ <<v.payload, v.derivation, v.capture>> \in s.occurrences
          /\ \E i \in DOMAIN s.registered : s.registered[i] = v.derivation
    /\ \A o \in s.occurrences : o[3] \in DOMAIN captures /\ Doc(o[3]) = o[1] /\ o[1] \notin Unmappable
    /\ s.invalid \subseteq decisions

\* A run that names a good capture has its occurrence.  So it is in live, which
\* reads what it captured; the rebuild may name what it could not read.
Named(s) ==
    \A r \in Runs :
        s.names[r] # 0 /\ s.names[r] \notin s.invalid /\ Doc(s.names[r]) \notin Unmappable
        => \E o \in s.occurrences : o[3] = s.names[r]

NamedInv == Named(live)

Rebuilding == {"snapshot", "reconcile", "pending", "process", "replay"}
Comparing == {"ids", "rows", "done"}

DrillInv0 ==
    /\ drill \in [pc: Rebuilding \cup Comparing \cup {"off"}, at: Targets, compared: BOOLEAN,
                  running: Derivations, snapshot: [Targets -> SUBSET Nat],
                  failed: SUBSET Targets, down: SUBSET Targets, unread: SUBSET Nat,
                  todo: SUBSET Nat, ids: SUBSET Derivations]
    /\ report \in [Targets -> {"none", "ok", "failed", "crashed"}]
    /\ drill.pc \notin Comparing => \A t \in Targets : report[t] = "none"
    /\ \A t \in Targets : report[t] = "ok" => t \notin drill.failed \cup drill.down
    /\ drill.pc \notin {"pending", "process", "replay"} => drill.todo = {}
    /\ drill.pc = "off" => /\ drill.at = 1 /\ drill.failed = {} /\ drill.down = {}
                           /\ \A t \in Targets : drill.snapshot[t] = {}
    /\ \A c \in drill.todo : c \in DOMAIN captures /\ Target[RunOf(c)] = drill.at
    /\ drill.pc # "process" => drill.todo \cap scratch.invalid = {}
    /\ \A c \in drill.unread : c \in DOMAIN captures /\ Target[RunOf(c)] \in drill.failed
    /\ \A t \in Targets : \A c \in drill.snapshot[t] : c \in DOMAIN captures /\ Target[RunOf(c)] = t

\* What the drill has listed stays in the replica unless it is lost.
KeptInv ==
    lost = {} => /\ drill.todo \subseteq replica.entries
                 /\ \A t \in Targets : drill.snapshot[t] \subseteq replica.entries

\* A target that failed has a document that does not map or one it did not read.
FailedInv ==
    lost = {} => \A t \in drill.failed : Unread(t) \/ \E c \in replica.entries : Doc(c) \in Unmappable

Finished(t) == drill.pc \in Comparing \/ (drill.pc \in Rebuilding /\ t < drill.at)

\* The rebuild of the target has failed or will: what it is to process has been
\* invalidated since it was named.
Broken(t) ==
    \/ t \in drill.failed \cup drill.down
    \/ t = drill.at /\ drill.pc = "process" /\ drill.todo \cap scratch.invalid # {}

\* The run of capture c is processed and its document is there.
Shown(c) == RunOf(c) \in scratch.processed /\ HasRow(scratch, Doc(c), drill.running)

\* Nothing is gone and nothing failed: the rebuild owes the replica all of it.
ShownInv ==
    lost = {} => \A t \in Targets : ~Broken(t) =>
      /\ Finished(t) => \A c \in drill.snapshot[t] \ scratch.invalid : Shown(c)
      /\ t = drill.at /\ drill.pc = "pending" => \A c \in drill.snapshot[t] \ scratch.invalid :
            \E e \in drill.todo : RunOf(e) = RunOf(c) /\ c <= e
      /\ t = drill.at /\ drill.pc = "process" => \A c \in drill.snapshot[t] \ scratch.invalid :
            \E e \in Entries(t) \ scratch.invalid :
               RunOf(e) = RunOf(c) /\ (e \in drill.todo \/ Shown(e))
      /\ t = drill.at /\ drill.pc = "replay" => \A c \in drill.snapshot[t] \ scratch.invalid :
            Shown(c) \/ \E e \in drill.todo : RunOf(e) = RunOf(c) /\ Doc(e) = Doc(c)

\* No later capture of its run is valid.
IsLatest(m) ==
    \A e \in DOMAIN captures : RunOf(e) = RunOf(m) /\ m < e => e \in scratch.invalid

\* The latest valid capture of every run is the first to be processed.
LatestInv ==
    lost = {} => \A t \in Targets :
       ~Broken(t) /\ (Finished(t) \/ (t = drill.at /\ drill.pc \in {"process", "replay"}))
       => \A m \in drill.snapshot[t] \ scratch.invalid : IsLatest(m) =>
             \/ \E o \in scratch.occurrences : o[3] = m
             \/ t = drill.at /\ drill.pc = "process" /\ m \in drill.todo

DrillInv ==
    LogInv /\ StoreInv(live) /\ StoreInv(scratch) /\ NamedInv /\ DrillInv0
    /\ KeptInv /\ FailedInv /\ ShownInv /\ LatestInv

------------------------------------------------------------------------------
(* Operators.                                                              *)

LEMMA CaptureType ==
    ASSUME LogInv, NEW c \in DOMAIN captures
    PROVE  /\ c \in Nat \ {0} /\ Len(captures) \in Nat /\ DOMAIN captures = 1 .. Len(captures)
           /\ RunOf(c) \in Runs /\ Doc(c) \in Payloads /\ Target[RunOf(c)] \in Targets
           /\ captures[c].acked \in BOOLEAN
<1> DEFINE E == [run: Runs, payload: Payloads, acked: BOOLEAN]
<1>1. captures \in Seq(E)
  BY DEF LogInv
<1>2. captures[c] \in E /\ Len(captures) \in Nat /\ DOMAIN captures = 1 .. Len(captures)
  <2> HIDE DEF E
  <2> QED BY <1>1
<1>3. c \in Nat \ {0}
  BY <1>2
<1>4. RunOf(c) \in Runs /\ Doc(c) \in Payloads /\ captures[c].acked \in BOOLEAN
  BY <1>2 DEF RunOf, Doc
<1>5. Target[RunOf(c)] \in Targets
  BY <1>4 DEF Targets
<1> QED BY <1>2, <1>3, <1>4, <1>5

\* process_one of a capture: what it adds, and that it keeps the store sound.
LEMMA ProcessOneStore ==
    ASSUME LogInv, NEW s, StoreInv(s), NEW c \in DOMAIN captures, NEW d \in Derivations,
           NEW there \in BOOLEAN
    PROVE  LET z == ProcessOne(s, c, d, there) IN
           /\ StoreInv(z) /\ (there /\ Named(s) => Named(z))
           /\ s.processed \ {RunOf(c)} \subseteq z.processed
           /\ z.invalid = s.invalid /\ s.occurrences \subseteq z.occurrences
           /\ \A p, e : HasRow(s, p, e) => HasRow(z, p, e)
           /\ there /\ Doc(c) \notin Unmappable /\ c \notin s.invalid =>
                 /\ s.processed \subseteq z.processed /\ RunOf(c) \in z.processed
                 /\ HasRow(z, Doc(c), d)
                 /\ \E o \in z.occurrences : o[3] = c
<1> DEFINE r == RunOf(c)
           p == Doc(c)
           bad == ~there \/ c \in s.invalid \/ p \in Unmappable
           v == [payload |-> p, derivation |-> d, capture |-> c]
           reg == IF \E i \in DOMAIN s.registered : s.registered[i] = d
                  THEN s.registered ELSE Append(s.registered, d)
           occ == IF bad THEN s.occurrences ELSE s.occurrences \cup {<<p, d, c>>}
           rows == IF bad \/ HasRow(s, p, d) THEN s.rows ELSE s.rows \cup {v}
           pro == IF bad THEN s.processed \ {r} ELSE s.processed \cup {r}
           nam == [s.names EXCEPT ![r] = c]
           beg == [s.began EXCEPT ![r] = IF @ = 0 THEN Len(captures) ELSE @]
           z == ProcessOne(s, c, d, there)
<1>1. s \in Store
  BY DEF StoreInv
<1>2. z = [s EXCEPT !.names = nam, !.began = beg, !.registered = reg, !.processed = pro,
                    !.occurrences = occ, !.rows = rows]
  BY <1>1 DEF ProcessOne, Store
<1>3. /\ r \in Runs /\ p \in Payloads /\ c \in Nat \ {0}
      /\ Len(captures) \in Nat \ {0}
  BY CaptureType
<1>4. /\ s.rows \in SUBSET Version /\ s.occurrences \in SUBSET Occurrence
      /\ s.names \in [Runs -> Nat] /\ s.processed \in SUBSET Runs /\ s.began \in [Runs -> Nat]
      /\ s.registered \in Seq(Derivations) /\ s.invalid \in SUBSET Nat
  BY <1>1 DEF Store
<1>5. /\ z.names = nam /\ z.began = beg /\ z.registered = reg /\ z.processed = pro
      /\ z.occurrences = occ /\ z.rows = rows /\ z.invalid = s.invalid
  BY <1>1, <1>2 DEF Store
<1>6. v \in Version /\ <<p, d, c>> \in Occurrence
  BY <1>3 DEF Version, Occurrence
<1>7. z \in Store
  <2>1. rows \in SUBSET Version /\ occ \in SUBSET Occurrence /\ pro \in SUBSET Runs
    BY <1>3, <1>4, <1>6
  <2>2. nam \in [Runs -> Nat] /\ beg \in [Runs -> Nat]
    BY <1>3, <1>4
  <2>3. reg \in Seq(Derivations)
    BY <1>4
  <2> HIDE DEF rows, occ, pro, nam, beg, reg, z
  <2> QED BY <1>1, <1>2, <2>1, <2>2, <2>3 DEF Store
<1>8. /\ \E i \in DOMAIN reg : reg[i] = d
      /\ \A e : (\E i \in DOMAIN s.registered : s.registered[i] = e) => \E i \in DOMAIN reg : reg[i] = e
  <2>1. CASE \E i \in DOMAIN s.registered : s.registered[i] = d
    BY <2>1
  <2>2. CASE ~\E i \in DOMAIN s.registered : s.registered[i] = d
    <3>1. reg = Append(s.registered, d)
      BY <2>2
    <3> HIDE DEF reg
    <3>2. PICK old : old = s.registered /\ old \in Seq(Derivations) /\ reg = Append(old, d)
      BY <1>4, <3>1
    <3>3. /\ DOMAIN reg = 1 .. Len(old) + 1 /\ reg[Len(old) + 1] = d /\ Len(old) \in Nat
          /\ \A i \in 1 .. Len(old) : reg[i] = old[i]
          /\ DOMAIN old = 1 .. Len(old)
      BY <3>2
    <3> QED BY <3>2, <3>3
  <2> QED BY <2>1, <2>2
<1>9. \A q, e : HasRow(s, q, e) => HasRow(z, q, e)
  <2>1. s.rows \subseteq rows
    OBVIOUS
  <2> HIDE DEF rows, z
  <2> QED BY <1>5, <2>1 DEF HasRow
<1>10. \A t \in Runs : z.names[t] # 0 =>
          z.names[t] \in DOMAIN captures /\ RunOf(z.names[t]) = t /\ z.began[t] # 0
  <2> SUFFICES ASSUME NEW t \in Runs, z.names[t] # 0
               PROVE  z.names[t] \in DOMAIN captures /\ RunOf(z.names[t]) = t /\ z.began[t] # 0
    OBVIOUS
  <2>1. CASE t # r
    <3>1. nam[t] = s.names[t] /\ beg[t] = s.began[t]
      BY <1>3, <1>4, <2>1
    <3> HIDE DEF nam, beg, z
    <3> QED BY <1>5, <3>1 DEF StoreInv
  <2>2. CASE t = r
    <3>1. nam[t] = c /\ beg[t] # 0
      BY <1>3, <1>4, <2>2
    <3> HIDE DEF nam, beg, z
    <3> QED BY <1>5, <2>2, <3>1
  <2> QED BY <2>1, <2>2
<1>11. \A t \in z.processed : z.names[t] # 0
  <2>1. \A t \in s.processed : s.names[t] # 0 /\ t \in Runs
    BY <1>4 DEF StoreInv
  <2>2. \A t \in pro : nam[t] # 0
    BY <1>3, <1>4, <2>1
  <2> HIDE DEF pro, nam, z
  <2> QED BY <1>5, <2>2
<1>12. \A u \in z.rows : /\ <<u.payload, u.derivation, u.capture>> \in z.occurrences
                         /\ \E i \in DOMAIN z.registered : z.registered[i] = u.derivation
  <2>1. \A u \in s.rows : /\ <<u.payload, u.derivation, u.capture>> \in occ
                          /\ \E i \in DOMAIN s.registered : s.registered[i] = u.derivation
    BY DEF StoreInv
  <2>2. \A u \in rows : u \in s.rows \/ (u = v /\ <<p, d, c>> \in occ)
    OBVIOUS
  <2>3. v.payload = p /\ v.derivation = d /\ v.capture = c
    OBVIOUS
  <2> HIDE DEF rows, occ, reg, z, v
  <2>4. \A u \in rows : /\ <<u.payload, u.derivation, u.capture>> \in occ
                        /\ \E i \in DOMAIN reg : reg[i] = u.derivation
    BY <1>8, <2>1, <2>2, <2>3
  <2> QED BY <1>5, <2>4
<1>13. \A o \in z.occurrences : o[3] \in DOMAIN captures /\ Doc(o[3]) = o[1] /\ o[1] \notin Unmappable
  <2>1. \A o \in s.occurrences : o[3] \in DOMAIN captures /\ Doc(o[3]) = o[1] /\ o[1] \notin Unmappable
    BY DEF StoreInv
  <2>2. \A o \in occ : o \in s.occurrences \/ (o = <<p, d, c>> /\ p \notin Unmappable)
    OBVIOUS
  <2>3. <<p, d, c>>[3] = c /\ <<p, d, c>>[1] = Doc(c)
    OBVIOUS
  <2> HIDE DEF occ, z
  <2> QED BY <1>5, <2>1, <2>2, <2>3
<1>14. z.invalid \subseteq decisions
  <2> HIDE DEF z
  <2> QED BY <1>5 DEF StoreInv
<1>15. StoreInv(z)
  <2> HIDE DEF z
  <2> QED BY <1>7, <1>10, <1>11, <1>12, <1>13, <1>14 DEF StoreInv
<1>16. z.invalid = s.invalid /\ s.occurrences \subseteq z.occurrences
  <2>1. s.occurrences \subseteq occ
    OBVIOUS
  <2> HIDE DEF occ, z
  <2> QED BY <1>5, <2>1
<1>17. ASSUME there, p \notin Unmappable, c \notin s.invalid
       PROVE  /\ s.processed \subseteq z.processed /\ r \in z.processed
              /\ HasRow(z, p, d) /\ \E o \in z.occurrences : o[3] = c
  <2>1. s.processed \subseteq pro /\ r \in pro
    BY <1>17
  <2>2. <<p, d, c>> \in occ /\ <<p, d, c>>[3] = c
    BY <1>17
  <2>3. HasRow(s, p, d) \/ (v \in rows /\ v.payload = p /\ v.derivation = d)
    BY <1>17
  <2>4. HasRow(z, p, d)
    <3> HIDE DEF rows, z, v, p, bad, reg, occ, pro, nam, beg
    <3>1. HasRow(s, p, d) => HasRow(z, p, d)
      BY <1>9
    <3>2. v \in rows /\ v.payload = p /\ v.derivation = d => HasRow(z, p, d)
      BY <1>5 DEF HasRow
    <3> QED BY <2>3, <3>1, <3>2
  <2> HIDE DEF occ, pro, z
  <2> QED BY <1>5, <2>1, <2>2, <2>4
<1>18. s.processed \ {r} \subseteq z.processed
  <2>1. s.processed \ {r} \subseteq pro
    OBVIOUS
  <2> HIDE DEF pro, z
  <2> QED BY <1>5, <2>1
<1>19. ASSUME there, Named(s) PROVE Named(z)
  <2> SUFFICES ASSUME NEW t \in Runs, z.names[t] # 0, z.names[t] \notin z.invalid,
                      Doc(z.names[t]) \notin Unmappable
               PROVE  \E o \in z.occurrences : o[3] = z.names[t]
    BY DEF Named
  <2>1. CASE t # r
    <3>1. nam[t] = s.names[t]
      BY <1>3, <1>4, <2>1
    <3> HIDE DEF nam, z
    <3> QED BY <1>5, <1>16, <1>19, <3>1 DEF Named
  <2>2. CASE t = r
    <3>1. nam[t] = c
      BY <1>3, <1>4, <2>2
    <3>2. z.names[t] = c
      <4> HIDE DEF nam, z
      <4> QED BY <1>5, <3>1
    <3> HIDE DEF z, nam
    <3> QED BY <1>5, <1>17, <1>19, <3>2
  <2> QED BY <2>1, <2>2
<1> HIDE DEF z
<1> QED BY <1>9, <1>15, <1>16, <1>17, <1>18, <1>19 DEF z

\* reconcile names nothing but a capture of the run.
LEMMA GenerationIsACapture ==
    ASSUME LogInv, NEW s, StoreInv(s), NEW r \in Runs
    PROVE  LET c == Generation(s, DOMAIN captures, r) IN
           c # s.names[r] => c \in DOMAIN captures /\ RunOf(c) = r
<1> DEFINE V == EntriesOf(DOMAIN captures, r) \ s.invalid
<1>1. CASE V = {}
  BY <1>1 DEF Generation
<1>2. CASE V # {}
  <2>1. Len(captures) \in Nat /\ V \in SUBSET (1 .. Len(captures))
    BY <1>2, CaptureType DEF EntriesOf
  <2>2. Newest(V) \in V
    <3> HIDE DEF V
    <3> QED BY <1>2, <2>1, NewestIsThere
  <2>3. Newest(V) \in DOMAIN captures /\ RunOf(Newest(V)) = r
    BY <2>2 DEF EntriesOf
  <2>4. Generation(s, DOMAIN captures, r) \in {s.names[r], Newest(V)}
    BY DEF Generation
  <2> QED BY <2>3, <2>4
<1> QED BY <1>1, <1>2

\* Of captures to be done one comes first.
LEMMA OneComesFirst ==
    ASSUME NEW S \in SUBSET Nat, S # {}, \A c \in S : RunOf(c) \in Runs
    PROVE  \E c \in S : \A e \in S : RunOf(c) < RunOf(e) \/ (RunOf(c) = RunOf(e) /\ c <= e)
<1>1. PICK n \in {RunOf(c) : c \in S} : \A m \in {RunOf(c) : c \in S} : n <= m
  <2>1. {RunOf(c) : c \in S} \in SUBSET Nat /\ {RunOf(c) : c \in S} # {}
    OBVIOUS
  <2> QED BY <2>1, LeastNumber
<1>2. PICK c \in {e \in S : RunOf(e) = n} : \A e \in {e \in S : RunOf(e) = n} : c <= e
  <2>1. {e \in S : RunOf(e) = n} \in SUBSET Nat /\ {e \in S : RunOf(e) = n} # {}
    OBVIOUS
  <2> QED BY <2>1, LeastNumber
<1>3. ASSUME NEW e \in S
      PROVE  RunOf(c) < RunOf(e) \/ (RunOf(c) = RunOf(e) /\ c <= e)
  <2>1. n <= RunOf(e) /\ RunOf(c) = n /\ RunOf(e) \in Nat
    BY <1>1, <1>2
  <2>2. CASE RunOf(e) = n
    BY <1>2, <2>1, <2>2
  <2>3. CASE RunOf(e) # n
    BY <2>1, <2>3
  <2> QED BY <2>2, <2>3
<1> QED BY <1>2, <1>3

\* Every capture shows the document of a change of its run that is not later.
LEMMA ChangeBefore ==
    ASSUME NEW V \in SUBSET Nat, NEW c \in V
    PROVE  \E f \in Distinct(V) : Doc(f) = Doc(c)
<1> DEFINE S == {f \in V : f <= c /\ \A n \in V : f <= n /\ n <= c => Doc(n) = Doc(c)}
<1>1. c \in S
  OBVIOUS
<1>2. PICK f \in S : \A e \in S : f <= e
  <2>1. S \in SUBSET Nat /\ S # {}
    BY <1>1
  <2> HIDE DEF S
  <2> QED BY <2>1, LeastNumber
<1>3. f \in V /\ Doc(f) = Doc(c) /\ f \in Nat
  BY <1>2
<1>4. ASSUME NEW e \in V, e < f, \A n \in V : ~(e < n /\ n < f), Doc(e) = Doc(f)
      PROVE  FALSE
  <2>1. ASSUME NEW n \in V, e <= n, n <= c PROVE Doc(n) = Doc(c)
    <3>1. n = e \/ f <= n
      BY <1>3, <1>4, <2>1
    <3> QED BY <1>2, <1>3, <1>4, <2>1, <3>1
  <2>2. e \in S
    BY <1>2, <1>4, <2>1
  <2> QED BY <1>2, <1>3, <1>4, <2>2
<1>5. f \in Distinct(V)
  BY <1>3, <1>4 DEF Distinct
<1> QED BY <1>3, <1>5

------------------------------------------------------------------------------
(* The steps: the initial state, live, the replica.                        *)

LEMMA EmptyStore == ASSUME LogInv PROVE StoreInv(Empty)
<1>1. << >> \in Seq(Derivations)
  OBVIOUS
<1>2. [r \in Runs |-> 0] \in [Runs -> Nat]
  OBVIOUS
<1>3. Empty \in Store
  BY <1>1, <1>2 DEF Empty, Store
<1> QED BY <1>3 DEF Empty, StoreInv

LEMMA DrillInit == Init => DrillInv
<1> SUFFICES ASSUME Init PROVE DrillInv
  OBVIOUS
<1>1. deployed \in Derivations
  <2>1. \E d \in Derivations : \A e \in Derivations : d <= e
    BY LeastNumber
  <2> QED BY <2>1 DEF Init
<1>2. LogInv
  BY <1>1 DEF Init, LogInv
<1>3. StoreInv(live) /\ StoreInv(scratch)
  BY <1>2, EmptyStore DEF Init
<1>4. DrillInv0
  BY <1>1, TargetsAre DEF Init, DrillInv0, Rebuilding, Comparing
<1>5. NamedInv /\ KeptInv /\ FailedInv
  BY DEF Init, NamedInv, Named, Empty, KeptInv, FailedInv
<1>6. ShownInv /\ LatestInv
  BY DEF Init, ShownInv, LatestInv, Finished, Rebuilding, Comparing
<1> QED BY <1>2, <1>3, <1>4, <1>5, <1>6 DEF DrillInv

\* What the drill has to do with: a step that leaves this alone, and takes
\* nothing from the replica, leaves the drill's invariant as it was.
drillVars == <<captures, scratch, drill, report>>

LEMMA DrillUndisturbed ==
    ASSUME DrillInv, UNCHANGED drillVars, lost' = {} => lost = {} /\ replica.entries \subseteq replica'.entries
    PROVE  DrillInv0' /\ KeptInv' /\ FailedInv' /\ ShownInv' /\ LatestInv'
<1> USE DEF drillVars
<1>1. \A c : RunOf(c)' = RunOf(c) /\ Doc(c)' = Doc(c)
  BY DEF RunOf, Doc
<1>2. DrillInv0'
  BY <1>1 DEF DrillInv, DrillInv0
<1>3. KeptInv'
  BY DEF DrillInv, KeptInv
<1>4. \A t : (Unread(t)' <=> Unread(t)) /\ (Broken(t)' <=> Broken(t)) /\ Finished(t)' = Finished(t)
  BY <1>1 DEF Unread, Broken, Finished
<1>5. FailedInv'
  BY <1>1, <1>4 DEF DrillInv, FailedInv
<1>6. \A c : Shown(c)' = Shown(c)
  BY <1>1 DEF Shown, HasRow
<1>7. lost' = {} => \A t : Entries(t) \subseteq Entries(t)'
  BY <1>1 DEF Entries, Own
<1>8. ShownInv'
  <2> SUFFICES ASSUME lost' = {} PROVE ShownInv'
    BY DEF ShownInv
  <2>1. ShownInv /\ lost = {}
    BY DEF DrillInv
  <2> QED BY <1>1, <1>4, <1>6, <1>7, <2>1 DEF ShownInv
<1>9. \A m : IsLatest(m)' = IsLatest(m)
  BY <1>1 DEF IsLatest
<1>10. LatestInv'
  BY <1>4, <1>9 DEF DrillInv, LatestInv
<1> QED BY <1>2, <1>3, <1>5, <1>8, <1>10

\* A longer log leaves what the drill has to do as it was, before it starts.
LEMMA CaptureStep ==
    ASSUME DrillInv, drill.pc = "off", NEW r \in Runs, NEW p \in Payloads, NEW acked \in BOOLEAN,
           Capture(r, p, acked)
    PROVE  DrillInv'
<1> DEFINE E == [run: Runs, payload: Payloads, acked: BOOLEAN]
           x == [run |-> r, payload |-> p, acked |-> acked]
<1>1. LogInv /\ StoreInv(live) /\ StoreInv(scratch) /\ NamedInv /\ DrillInv0 /\ KeptInv
      /\ FailedInv
  BY DEF DrillInv
<1>2. /\ captures' = Append(captures, x)
      /\ UNCHANGED <<replica, lost, decisions, deployed, releases, live, scratch, drill, report>>
  BY DEF Capture
<1>3. captures \in Seq(E) /\ x \in E
  BY <1>1 DEF LogInv
<1>4. /\ captures' \in Seq(E) /\ DOMAIN captures \subseteq DOMAIN captures'
      /\ \A c \in DOMAIN captures : captures'[c] = captures[c]
  <2> HIDE DEF E, x
  <2>1. captures' \in Seq(E)
    BY <1>2, <1>3
  <2>2. Len(captures) \in Nat /\ DOMAIN captures = 1 .. Len(captures)
        /\ DOMAIN captures' = 1 .. Len(captures) + 1
    BY <1>2, <1>3
  <2> QED BY <1>2, <1>3, <2>1, <2>2
<1>5. \A c \in DOMAIN captures : RunOf(c)' = RunOf(c) /\ Doc(c)' = Doc(c)
  BY <1>4 DEF RunOf, Doc
<1>6. LogInv'
  BY <1>1, <1>2, <1>4 DEF LogInv
<1>7. StoreInv(live)' /\ StoreInv(scratch)'
  <2>1. StoreInv(live)'
    <3>1. live' = live /\ decisions' = decisions
      BY <1>2
    <3> QED BY <1>1, <1>4, <1>5, <3>1 DEF StoreInv
  <2>2. StoreInv(scratch)'
    <3>1. scratch' = scratch /\ decisions' = decisions
      BY <1>2
    <3> QED BY <1>1, <1>4, <1>5, <3>1 DEF StoreInv
  <2> QED BY <2>1, <2>2
<1>8. DrillInv0'
  BY <1>1, <1>2, <1>4, <1>5 DEF DrillInv0
<1>9. KeptInv'
  BY <1>1, <1>2 DEF KeptInv
<1>10. NamedInv'
  <2>1. live' = live /\ \A r1 \in Runs : live.names[r1] # 0 => live.names[r1] \in DOMAIN captures
    BY <1>1, <1>2 DEF StoreInv
  <2> QED BY <1>5, <2>1 DEF DrillInv, NamedInv, Named
<1>11. FailedInv'
  BY <1>1, <1>2 DEF FailedInv, DrillInv0
<1>12. ShownInv' /\ LatestInv'
  BY <1>2 DEF ShownInv, LatestInv, Finished, Rebuilding, Comparing
<1> QED BY <1>6, <1>7, <1>8, <1>9, <1>10, <1>11, <1>12 DEF DrillInv

\* A store is as sound with more decisions mirrored.
LEMMA MirrorStore ==
    ASSUME LogInv, NEW s, StoreInv(s), NEW D, D \subseteq decisions
    PROVE  LET z == [s EXCEPT !.invalid = @ \cup D] IN
           StoreInv(z) /\ z.names = s.names /\ (Named(s) => Named(z))
<1> DEFINE z == [s EXCEPT !.invalid = @ \cup D]
<1>1. s \in Store /\ s.invalid \subseteq Nat /\ D \subseteq Nat
  <2>1. decisions \subseteq DOMAIN captures
    BY DEF LogInv
  <2> QED BY <2>1, CaptureType DEF StoreInv, Store
<1>2. /\ z.rows = s.rows /\ z.occurrences = s.occurrences /\ z.names = s.names
      /\ z.processed = s.processed /\ z.began = s.began /\ z.registered = s.registered
      /\ z.invalid = s.invalid \cup D
  BY <1>1 DEF Store
<1>3. z \in Store
  BY <1>1 DEF Store
<1> HIDE DEF z
<1>4. StoreInv(z)
  BY <1>2, <1>3 DEF StoreInv
<1>5. Named(s) => Named(z)
  BY <1>2 DEF Named
<1> QED BY <1>2, <1>4, <1>5 DEF z

\* The verbs of live and the decisions touch the live store only.
LEMMA LiveStep ==
    ASSUME DrillInv, LiveNext
    PROVE  DrillInv'
<1>1. LogInv /\ StoreInv(live) /\ StoreInv(scratch) /\ Named(live)
  BY DEF DrillInv, NamedInv
<1>2. /\ UNCHANGED <<captures, replica, lost, scratch, drill, report>>
      /\ LogInv' /\ decisions \subseteq decisions'
      /\ StoreInv(live)' /\ Named(live)'
  <2>1. ASSUME NEW r \in Runs, Process(r)
        PROVE  /\ UNCHANGED <<captures, replica, lost, decisions, deployed, scratch, drill, report>>
               /\ StoreInv(live)' /\ Named(live)'
    <3> DEFINE s == [live EXCEPT !.invalid = @ \cup Own(decisions, Target[r])]
               c == Generation(s, DOMAIN captures, r)
    <3>1. c # live.names[r] /\ live' = ProcessOne(s, c, deployed, TRUE)
          /\ UNCHANGED <<captures, replica, lost, decisions, deployed, scratch, drill, report>>
      BY <2>1 DEF Process
    <3>2. StoreInv(s) /\ s.names = live.names /\ Named(s)
      <4>1. Own(decisions, Target[r]) \subseteq decisions
        BY DEF Own
      <4> QED BY <1>1, <4>1, MirrorStore
    <3> HIDE DEF s
    <3>3. c \in DOMAIN captures
      BY <1>1, <3>1, <3>2, GenerationIsACapture
    <3> HIDE DEF c
    <3>4. deployed \in Derivations
      BY <1>1 DEF LogInv
    <3>5. StoreInv(live') /\ Named(live')
      BY <1>1, <3>1, <3>2, <3>3, <3>4, ProcessOneStore
    <3>6. StoreInv(live)' /\ Named(live)'
      BY <3>1, <3>5 DEF StoreInv, Named, RunOf, Doc
    <3> QED BY <3>1, <3>6
  <2>2. ASSUME NEW r \in Runs, Replay(r)
        PROVE  /\ UNCHANGED <<captures, replica, lost, decisions, deployed, scratch, drill, report>>
               /\ StoreInv(live)' /\ Named(live)'
    <3> DEFINE c == live.names[r]
    <3>1. c # 0 /\ live' = ProcessOne(live, c, deployed, TRUE)
          /\ UNCHANGED <<captures, replica, lost, decisions, deployed, scratch, drill, report>>
      BY <2>2 DEF Replay
    <3>2. c \in DOMAIN captures
      BY <1>1, <3>1 DEF StoreInv
    <3> HIDE DEF c
    <3>3. deployed \in Derivations
      BY <1>1 DEF LogInv
    <3>4. StoreInv(live') /\ Named(live')
      BY <1>1, <3>1, <3>2, <3>3, ProcessOneStore
    <3>5. StoreInv(live)' /\ Named(live)'
      BY <3>1, <3>4 DEF StoreInv, Named, RunOf, Doc
    <3> QED BY <3>1, <3>5
  <2>3. ASSUME NEW d \in Derivations, Release(d)
        PROVE  /\ UNCHANGED <<captures, replica, lost, decisions, live, scratch, drill, report>>
               /\ deployed' = d
    BY <2>3 DEF Release
  <2>4. ASSUME NEW c \in DOMAIN captures, NEW mirrored \in BOOLEAN, Invalidate(c, mirrored)
        PROVE  /\ UNCHANGED <<captures, replica, lost, deployed, scratch, drill, report>>
               /\ decisions' = decisions \cup {c}
               /\ StoreInv(live)' /\ Named(live)'
    <3>1. /\ UNCHANGED <<captures, replica, lost, deployed, scratch, drill, report>>
          /\ decisions' = decisions \cup {c}
          /\ live' = IF mirrored THEN [live EXCEPT !.invalid = @ \cup {c}] ELSE live
      BY <2>4 DEF Invalidate
    <3>2. /\ live'.rows = live.rows /\ live'.occurrences = live.occurrences
          /\ live'.began = live.began /\ live'.names = live.names
          /\ live'.processed = live.processed /\ live'.registered = live.registered
          /\ live.invalid \subseteq live'.invalid /\ live'.invalid \subseteq live.invalid \cup {c}
          /\ live' \in Store
      <4>1. live \in Store /\ c \in Nat
        BY <1>1, CaptureType DEF StoreInv
      <4>2. /\ live'.rows = live.rows /\ live'.occurrences = live.occurrences
            /\ live'.began = live.began /\ live'.names = live.names
            /\ live'.processed = live.processed /\ live'.registered = live.registered
        BY <3>1, <4>1 DEF Store
      <4>3. live' \in Store
        <5>1. CASE mirrored
          BY <3>1, <4>1, <5>1 DEF Store
        <5>2. CASE ~mirrored
          BY <3>1, <4>1, <5>2
        <5> QED BY <5>1, <5>2
      <4>4. live.invalid \subseteq live'.invalid /\ live'.invalid \subseteq live.invalid \cup {c}
        BY <3>1, <4>1 DEF Store
      <4> QED BY <4>2, <4>3, <4>4
    <3>3. captures' = captures /\ decisions \cup {c} \subseteq decisions'
      BY <3>1
    <3>4. \A e : RunOf(e)' = RunOf(e) /\ Doc(e)' = Doc(e)
      BY <3>3 DEF RunOf, Doc
    <3>5. StoreInv(live)' /\ Named(live)'
      BY <1>1, <3>2, <3>3, <3>4 DEF StoreInv, Named
    <3> QED BY <3>1, <3>5
  <2>5. CASE \E r \in Runs : Process(r) \/ Replay(r)
    <3>1. UNCHANGED <<captures, replica, lost, decisions, deployed, scratch, drill, report>>
          /\ StoreInv(live)' /\ Named(live)'
      BY <2>1, <2>2, <2>5
    <3> QED BY <1>1, <3>1 DEF LogInv
  <2>6. CASE \E d \in Derivations : Release(d)
    <3>1. PICK d \in Derivations :
             /\ UNCHANGED <<captures, replica, lost, decisions, live, scratch, drill, report>>
             /\ deployed' = d
      BY <2>3, <2>6
    <3>2. LogInv'
      BY <1>1, <3>1 DEF LogInv
    <3>3. StoreInv(live)' /\ Named(live)'
      BY <1>1, <3>1 DEF StoreInv, Named, RunOf, Doc
    <3> QED BY <3>1, <3>2, <3>3
  <2>7. CASE \E c \in DOMAIN captures, mirrored \in BOOLEAN : Invalidate(c, mirrored)
    <3>1. PICK c \in DOMAIN captures :
             /\ UNCHANGED <<captures, replica, lost, deployed, scratch, drill, report>>
             /\ decisions' = decisions \cup {c} /\ StoreInv(live)' /\ Named(live)'
      BY <2>4, <2>7
    <3>2. LogInv'
      BY <1>1, <3>1 DEF LogInv
    <3> QED BY <3>1, <3>2
  <2> QED BY <2>5, <2>6, <2>7 DEF LiveNext
<1>3. StoreInv(scratch)'
  BY <1>1, <1>2 DEF StoreInv, RunOf, Doc
<1>4. DrillInv0' /\ KeptInv' /\ FailedInv' /\ ShownInv' /\ LatestInv'
  BY <1>2, DrillUndisturbed DEF drillVars
<1> QED BY <1>2, <1>3, <1>4 DEF DrillInv, NamedInv

\* What the steps of the replica have in common.
LEMMA ReplicaTables ==
    ASSUME DrillInv, UNCHANGED <<captures, decisions, live, scratch, drill, report>>, LogInv',
           lost' = {} => lost = {} /\ replica.entries \subseteq replica'.entries
    PROVE  DrillInv'
<1>1. StoreInv(live)' /\ StoreInv(scratch)' /\ NamedInv'
  BY DEF DrillInv, StoreInv, NamedInv, Named, RunOf, Doc
<1>2. DrillInv0' /\ KeptInv' /\ FailedInv' /\ ShownInv' /\ LatestInv'
  BY DrillUndisturbed DEF drillVars
<1> QED BY <1>1, <1>2 DEF DrillInv

LEMMA LoseStep ==
    ASSUME DrillInv, NEW c, Lose(c)
    PROVE  DrillInv'
<1>1. /\ c \in replica.entries /\ lost' = lost \cup {c}
      /\ replica' = [replica EXCEPT !.entries = @ \ {c}]
      /\ UNCHANGED <<captures, decisions, deployed, live, scratch, drill, report>>
  BY DEF Lose
<1>2. LogInv
  BY DEF DrillInv
<1>3. /\ replica'.entries = replica.entries \ {c} /\ replica'.decisions = replica.decisions
      /\ replica' \in [entries: SUBSET Nat, decisions: SUBSET Nat, blobs: SUBSET Payloads]
  BY <1>1, <1>2 DEF LogInv
<1>4. LogInv'
  BY <1>1, <1>2, <1>3 DEF LogInv
<1> QED BY <1>1, <1>4, ReplicaTables

LEMMA ReplicaStep ==
    ASSUME DrillInv, ReplicaNext
    PROVE  DrillInv'
<1>1. LogInv
  BY DEF DrillInv
<1>2. CASE \E E \in SUBSET (Own(DOMAIN captures, drill.at) \ (replica.entries \cup lost)),
              D \in SUBSET (Own(decisions, drill.at) \ replica.decisions) : Replicate(E, D)
  <2>1. PICK E \in SUBSET (Own(DOMAIN captures, drill.at) \ (replica.entries \cup lost)) :
             \E D \in SUBSET (Own(decisions, drill.at) \ replica.decisions) : Replicate(E, D)
    BY <1>2
  <2>2. PICK D \in SUBSET (Own(decisions, drill.at) \ replica.decisions) : Replicate(E, D)
    BY <2>1
  <2>3. E \subseteq DOMAIN captures /\ E \cap lost = {} /\ D \subseteq decisions
    BY DEF Own
  <2>4. /\ replica' = [replica EXCEPT !.entries = @ \cup E, !.decisions = @ \cup D]
        /\ UNCHANGED <<captures, lost, decisions, deployed, releases, live, scratch, drill, report>>
    BY <2>2 DEF Replicate
  <2>5. E \subseteq Nat /\ D \subseteq Nat
    BY <1>1, <2>3, CaptureType DEF LogInv
  <2>6. /\ replica'.entries = replica.entries \cup E
        /\ replica'.decisions = replica.decisions \cup D
        /\ replica' \in [entries: SUBSET Nat, decisions: SUBSET Nat, blobs: SUBSET Payloads]
    BY <1>1, <2>4, <2>5 DEF LogInv
  <2>7. LogInv'
    BY <1>1, <2>3, <2>4, <2>6 DEF LogInv
  <2> QED BY <2>4, <2>6, <2>7, ReplicaTables
<1>3. CASE \E c \in Entries(drill.at) : Lose(c)
  BY <1>3, LoseStep
<1> QED BY <1>2, <1>3 DEF ReplicaNext

------------------------------------------------------------------------------
(* The steps of the drill.                                                 *)

LEMMA TablesStay ==
    ASSUME LogInv, StoreInv(live), StoreInv(scratch), NamedInv,
           UNCHANGED <<captures, replica, lost, decisions, deployed, live>>
    PROVE  /\ LogInv' /\ StoreInv(live)' /\ NamedInv' /\ (scratch' = scratch => StoreInv(scratch)')
           /\ lost' = lost /\ \A t : Entries(t)' = Entries(t)
           /\ \A c : RunOf(c)' = RunOf(c) /\ Doc(c)' = Doc(c)
           /\ FailedInv /\ drill'.failed = drill.failed /\ drill'.unread = drill.unread => FailedInv'
<1>1. \A c : RunOf(c)' = RunOf(c) /\ Doc(c)' = Doc(c)
  BY DEF RunOf, Doc
<1>2. LogInv'
  BY DEF LogInv
<1>3. StoreInv(live)' /\ NamedInv'
  BY <1>1 DEF StoreInv, NamedInv, Named
<1>4. scratch' = scratch => StoreInv(scratch)'
  BY <1>1 DEF StoreInv
<1>5. \A t : Entries(t)' = Entries(t)
  BY <1>1 DEF Entries, Own
<1>6. FailedInv /\ drill'.failed = drill.failed /\ drill'.unread = drill.unread => FailedInv'
  BY <1>1 DEF FailedInv, Unread
<1> QED BY <1>1, <1>2, <1>3, <1>4, <1>5, <1>6

\* What the rebuild owes to a target that is finished.
Owed(t) ==
    lost = {} /\ ~Broken(t) =>
       /\ \A c \in drill.snapshot[t] \ scratch.invalid : Shown(c)
       /\ \A m \in drill.snapshot[t] \ scratch.invalid :
             IsLatest(m) => \E o \in scratch.occurrences : o[3] = m

\* The rebuild of another target takes nothing from one that is finished.
LEMMA FinishedStays ==
    ASSUME DrillInv, UNCHANGED <<captures, lost>>,
           scratch.invalid \subseteq scratch'.invalid,
           \A c \in scratch'.invalid \ scratch.invalid : Target[RunOf(c)] = drill.at,
           \A r \in scratch.processed : Target[r] # drill.at => r \in scratch'.processed,
           \A p, d : HasRow(scratch, p, d) => HasRow(scratch', p, d),
           scratch.occurrences \subseteq scratch'.occurrences,
           drill'.running = drill.running,
           drill.failed \subseteq drill'.failed, drill.down \subseteq drill'.down,
           NEW t \in Targets, Finished(t), t # drill.at,
           drill'.snapshot[t] = drill.snapshot[t]
    PROVE  Owed(t)'
<1>1. DrillInv0 /\ ShownInv /\ LatestInv
  BY DEF DrillInv
<1>2. \A c : RunOf(c)' = RunOf(c) /\ Doc(c)' = Doc(c)
  BY DEF RunOf, Doc
<1>3. ~Broken(t)' => ~Broken(t)
  BY DEF Broken
<1>4. ASSUME lost' = {}, ~Broken(t)', NEW c \in drill'.snapshot[t] \ scratch'.invalid
      PROVE  Shown(c)'
  <2>1. Shown(c) /\ Target[RunOf(c)] = t
    BY <1>1, <1>3, <1>4 DEF ShownInv, DrillInv0
  <2>2. RunOf(c) \in scratch'.processed /\ HasRow(scratch', Doc(c), drill'.running)
    BY <2>1 DEF Shown
  <2> QED BY <1>2, <2>2 DEF Shown, HasRow
<1>5. ASSUME lost' = {}, ~Broken(t)',
             NEW m \in drill'.snapshot[t] \ scratch'.invalid, IsLatest(m)'
      PROVE  \E o \in scratch'.occurrences : o[3] = m
  <2>1. Target[RunOf(m)] = t
    BY <1>1 DEF DrillInv0
  <2>2. IsLatest(m)
    BY <1>2, <1>5, <2>1 DEF IsLatest
  <2>3. \E o \in scratch.occurrences : o[3] = m
    BY <1>1, <1>3, <1>5, <2>2 DEF LatestInv
  <2> QED BY <2>3
<1> QED BY <1>4, <1>5 DEF Owed

\* While the targets are compared nothing of the rebuild changes.
LEMMA ComparingStays ==
    ASSUME DrillInv, UNCHANGED <<captures, replica, lost, decisions, deployed, live, scratch>>,
           drill.pc \in Comparing, drill'.pc \in Comparing, DrillInv0',
           drill'.snapshot = drill.snapshot, drill'.failed = drill.failed,
           drill'.unread = drill.unread, drill'.down = drill.down, drill'.todo = drill.todo,
           drill'.running = drill.running
    PROVE  DrillInv'
<1>1. LogInv /\ StoreInv(live) /\ StoreInv(scratch) /\ NamedInv /\ DrillInv0 /\ KeptInv
      /\ FailedInv /\ ShownInv /\ LatestInv
  BY DEF DrillInv
<1>2. /\ LogInv' /\ StoreInv(live)' /\ NamedInv' /\ StoreInv(scratch)' /\ FailedInv'
      /\ \A c : RunOf(c)' = RunOf(c) /\ Doc(c)' = Doc(c)
  BY <1>1, TablesStay
<1>3. KeptInv'
  BY <1>1 DEF KeptInv
<1>4. \A t : Finished(t) /\ Finished(t)'
  BY DEF Finished
<1>5. drill.pc \notin {"pending", "process", "replay"} /\ drill'.pc \notin {"pending", "process", "replay"}
  BY DEF Comparing
<1>6. \A c : Shown(c)' = Shown(c) /\ IsLatest(c)' = IsLatest(c)
  BY <1>2 DEF Shown, HasRow, IsLatest
<1>7. \A t : Broken(t)' <=> Broken(t)
  BY <1>5 DEF Broken
<1>8. ShownInv'
  BY <1>1, <1>2, <1>4, <1>5, <1>6, <1>7 DEF ShownInv
<1>9. LatestInv'
  BY <1>1, <1>4, <1>5, <1>6, <1>7 DEF LatestInv
<1> QED BY <1>2, <1>3, <1>8, <1>9 DEF DrillInv

LEMMA StartStep ==
    ASSUME DrillInv, Start
    PROVE  DrillInv'
<1>1. LogInv /\ StoreInv(live) /\ StoreInv(scratch) /\ NamedInv /\ DrillInv0 /\ KeptInv
      /\ FailedInv
  BY DEF DrillInv
<1>2. /\ drill.pc = "off" /\ drill' = [drill EXCEPT !.pc = "snapshot", !.running = deployed]
      /\ UNCHANGED <<captures, replica, lost, decisions, deployed, live, scratch, report>>
  BY DEF Start
<1>3. LogInv' /\ StoreInv(live)' /\ NamedInv' /\ StoreInv(scratch)'
      /\ \A c : RunOf(c)' = RunOf(c) /\ Doc(c)' = Doc(c)
  BY <1>1, <1>2, TablesStay
<1>4. /\ drill'.pc = "snapshot" /\ drill'.running = deployed /\ drill'.at = drill.at
      /\ drill'.snapshot = drill.snapshot /\ drill'.failed = drill.failed /\ drill'.unread = drill.unread
      /\ drill'.down = drill.down /\ drill'.todo = drill.todo
  BY <1>1, <1>2 DEF DrillInv0
<1>5. DrillInv0'
  <2>1. drill' \in [pc: Rebuilding \cup Comparing \cup {"off"}, at: Targets, compared: BOOLEAN,
                    running: Derivations, snapshot: [Targets -> SUBSET Nat],
                    failed: SUBSET Targets, down: SUBSET Targets, unread: SUBSET Nat,
                    todo: SUBSET Nat, ids: SUBSET Derivations]
    BY <1>1, <1>2 DEF DrillInv0, LogInv, Rebuilding
  <2>2. drill.pc \notin Comparing
    BY <1>2 DEF Comparing
  <2> QED BY <1>1, <1>2, <1>3, <1>4, <2>1, <2>2 DEF DrillInv0
<1>6. KeptInv' /\ FailedInv'
  BY <1>1, <1>2, <1>4, TablesStay DEF KeptInv
<1>7. \A t \in Targets : ~Finished(t)'
  BY <1>1, <1>2, <1>4, TargetsAre DEF DrillInv0, Finished, Comparing
<1>8. ShownInv' /\ LatestInv'
  BY <1>4, <1>7 DEF ShownInv, LatestInv
<1> QED BY <1>3, <1>5, <1>6, <1>8 DEF DrillInv

LEMMA DryRunStep ==
    ASSUME DrillInv, DryRun
    PROVE  DrillInv'
<1>1. LogInv /\ StoreInv(live) /\ StoreInv(scratch) /\ NamedInv /\ DrillInv0 /\ KeptInv
      /\ FailedInv
  BY DEF DrillInv
<1>2. /\ drill.pc = "off" /\ drill' = [drill EXCEPT !.pc = "done"]
      /\ report' = [t \in Targets |-> "ok"]
      /\ UNCHANGED <<captures, replica, lost, decisions, deployed, live, scratch>>
  BY DEF DryRun
<1>3. LogInv' /\ StoreInv(live)' /\ NamedInv' /\ StoreInv(scratch)'
      /\ \A c : RunOf(c)' = RunOf(c) /\ Doc(c)' = Doc(c)
  BY <1>1, <1>2, TablesStay
<1>4. /\ drill'.pc = "done" /\ drill'.running = drill.running /\ drill'.at = drill.at
      /\ drill'.snapshot = drill.snapshot /\ drill'.failed = drill.failed /\ drill'.unread = drill.unread
      /\ drill'.down = drill.down /\ drill'.todo = drill.todo
      /\ drill.failed = {} /\ drill.down = {} /\ \A t \in Targets : drill.snapshot[t] = {}
  BY <1>1, <1>2 DEF DrillInv0
<1>5. DrillInv0'
  <2>1. drill' \in [pc: Rebuilding \cup Comparing \cup {"off"}, at: Targets, compared: BOOLEAN,
                    running: Derivations, snapshot: [Targets -> SUBSET Nat],
                    failed: SUBSET Targets, down: SUBSET Targets, unread: SUBSET Nat,
                    todo: SUBSET Nat, ids: SUBSET Derivations]
    BY <1>1, <1>2 DEF DrillInv0, Comparing
  <2>2. drill'.pc \in Comparing
    BY <1>4 DEF Comparing
  <2> QED BY <1>1, <1>2, <1>3, <1>4, <2>1, <2>2 DEF DrillInv0
<1>6. KeptInv' /\ FailedInv'
  BY <1>1, <1>2, <1>4, TablesStay DEF KeptInv
<1>7. ShownInv' /\ LatestInv'
  BY <1>4 DEF ShownInv, LatestInv
<1> QED BY <1>3, <1>5, <1>6, <1>7 DEF DrillInv

\* _rebuild_target lists the replica; what it finds is to be kept from now on.
LEMMA SnapshotStep ==
    ASSUME DrillInv, Snapshot
    PROVE  DrillInv'
<1> DEFINE a == drill.at
<1>1. LogInv /\ StoreInv(live) /\ StoreInv(scratch) /\ NamedInv /\ DrillInv0 /\ KeptInv
      /\ FailedInv
  BY DEF DrillInv
<1>2. /\ drill.pc = "snapshot"
      /\ drill' = [drill EXCEPT !.pc = "reconcile", !.snapshot[a] = Entries(a)]
      /\ UNCHANGED <<captures, replica, lost, decisions, deployed, live, scratch, report>>
  BY DEF Snapshot
<1>3. LogInv' /\ StoreInv(live)' /\ NamedInv' /\ StoreInv(scratch)'
      /\ \A c : RunOf(c)' = RunOf(c) /\ Doc(c)' = Doc(c)
  BY <1>1, <1>2, TablesStay
<1>4. /\ a \in Targets /\ drill.snapshot \in [Targets -> SUBSET Nat]
      /\ drill'.pc = "reconcile" /\ drill'.running = drill.running /\ drill'.at = a
      /\ drill'.snapshot = [drill.snapshot EXCEPT ![a] = Entries(a)]
      /\ drill'.failed = drill.failed /\ drill'.unread = drill.unread
      /\ drill'.down = drill.down /\ drill'.todo = drill.todo
  BY <1>1, <1>2 DEF DrillInv0
<1>5. /\ drill'.snapshot[a] = Entries(a)
      /\ \A t \in Targets : t # a => drill'.snapshot[t] = drill.snapshot[t]
  BY <1>4
<1>6. Entries(a) \subseteq replica.entries /\ Entries(a) \subseteq DOMAIN captures
      /\ \A c \in Entries(a) : Target[RunOf(c)] = a
  BY <1>1 DEF Entries, Own, LogInv
<1>7. DrillInv0'
  <2>1. Entries(a) \in SUBSET Nat
    BY <1>1, <1>6, CaptureType
  <2>2. [drill.snapshot EXCEPT ![a] = Entries(a)] \in [Targets -> SUBSET Nat]
    BY <1>4, <2>1
  <2>3. drill' \in [pc: Rebuilding \cup Comparing \cup {"off"}, at: Targets, compared: BOOLEAN,
                    running: Derivations, snapshot: [Targets -> SUBSET Nat],
                    failed: SUBSET Targets, down: SUBSET Targets, unread: SUBSET Nat,
                    todo: SUBSET Nat, ids: SUBSET Derivations]
    BY <1>1, <1>2, <2>2 DEF DrillInv0, Rebuilding
  <2>4. drill.pc \notin Comparing
    BY <1>2 DEF Comparing
  <2>5. \A t \in Targets : \A c \in drill'.snapshot[t] :
            c \in DOMAIN captures /\ Target[RunOf(c)] = t
    BY <1>1, <1>5, <1>6 DEF DrillInv0
  <2>6. /\ drill.todo = {}
        /\ \A t \in Targets : report[t] = "none"
    BY <1>1, <1>2, <2>4 DEF DrillInv0
  <2> QED BY <1>1, <1>2, <1>3, <1>4, <2>3, <2>5, <2>6 DEF DrillInv0
<1>8. KeptInv'
  BY <1>1, <1>2, <1>4, <1>5, <1>6 DEF KeptInv
<1>9. FailedInv'
  BY <1>1, <1>2, <1>4, TablesStay
<1>10. \A t \in Targets : Finished(t)' => Finished(t) /\ t # a
  BY <1>1, <1>2, <1>4, TargetsAre DEF Finished, Rebuilding, Comparing
<1>11. ASSUME NEW t \in Targets, Finished(t)'
       PROVE  Owed(t)'
  <2>1. Finished(t) /\ t # a /\ drill'.snapshot[t] = drill.snapshot[t]
    BY <1>5, <1>10, <1>11
  <2> QED BY <1>2, <1>4, <2>1, FinishedStays
<1>12. ShownInv'
  BY <1>4, <1>11 DEF ShownInv, Owed
<1>13. LatestInv'
  BY <1>4, <1>11 DEF LatestInv, Owed
<1> QED BY <1>3, <1>7, <1>8, <1>9, <1>12, <1>13 DEF DrillInv

\* The captures of a run that the replica lists and that are not invalidated.
ValidEntries(t, I, r) == EntriesOf(Entries(t), r) \ I

LEMMA ValidEntriesAre ==
    ASSUME LogInv, NEW t, NEW I, NEW r
    PROVE  LET V == ValidEntries(t, I, r) IN
           /\ \A c \in V : /\ c \in Entries(t) /\ c \in replica.entries /\ c \notin I
                           /\ RunOf(c) = r /\ Target[RunOf(c)] = t
                           /\ c \in DOMAIN captures /\ c \in Nat
           /\ V # {} => Newest(V) \in V /\ \A e \in V : e <= Newest(V)
<1> DEFINE V == ValidEntries(t, I, r)
<1>1. \A c \in V : /\ c \in Entries(t) /\ c \in replica.entries /\ c \notin I
                   /\ RunOf(c) = r /\ Target[RunOf(c)] = t /\ c \in DOMAIN captures
  BY DEF ValidEntries, EntriesOf, Entries, Own, LogInv
<1>2. \A c \in V : c \in Nat /\ Len(captures) \in Nat /\ DOMAIN captures = 1 .. Len(captures)
  BY <1>1, CaptureType
<1> HIDE DEF V
<1>3. V # {} => Newest(V) \in V /\ \A e \in V : e <= Newest(V)
  <2> SUFFICES ASSUME V # {} PROVE Newest(V) \in V /\ \A e \in V : e <= Newest(V)
    OBVIOUS
  <2>1. Len(captures) \in Nat /\ V \in SUBSET (1 .. Len(captures))
    BY <1>1, <1>2
  <2> QED BY <2>1, NewestIsThere
<1> QED BY <1>1, <1>2, <1>3 DEF V

LEMMA RebuildNewestStep ==
    ASSUME DrillInv, RebuildNewest
    PROVE  DrillInv'
<1> DEFINE a == drill.at
           invalid == scratch.invalid \cup Own(replica.decisions, a)
           valid(r) == EntriesOf(Entries(a), r) \ invalid
           todo == {Newest(valid(r)) : r \in {r \in RunsOf(a) : valid(r) # {}}}
<1>1. LogInv /\ StoreInv(live) /\ StoreInv(scratch) /\ NamedInv /\ DrillInv0 /\ KeptInv
      /\ FailedInv
  BY DEF DrillInv
<1>2. /\ drill.pc = "reconcile"
      /\ scratch' = [scratch EXCEPT !.invalid = invalid]
      /\ drill' = [drill EXCEPT !.pc = "pending", !.todo = todo]
      /\ UNCHANGED <<captures, replica, lost, decisions, deployed, live, report>>
  BY DEF RebuildNewest
<1>3. LogInv' /\ StoreInv(live)' /\ NamedInv' /\ Entries(a)' = Entries(a)
      /\ \A c : RunOf(c)' = RunOf(c) /\ Doc(c)' = Doc(c)
  BY <1>1, <1>2, TablesStay DEF DrillInv0
<1>4. /\ a \in Targets
      /\ drill'.pc = "pending" /\ drill'.running = drill.running /\ drill'.at = a
      /\ drill'.snapshot = drill.snapshot
      /\ drill'.failed = drill.failed /\ drill'.unread = drill.unread
      /\ drill'.down = drill.down /\ drill'.todo = todo
  BY <1>1, <1>2 DEF DrillInv0
<1>5. /\ scratch'.invalid = invalid /\ scratch'.occurrences = scratch.occurrences
      /\ scratch'.rows = scratch.rows /\ scratch'.processed = scratch.processed
  BY <1>1, <1>2 DEF StoreInv, Store
<1>6. Own(replica.decisions, a) \subseteq decisions
  BY <1>1 DEF Own, LogInv
<1>7. StoreInv(scratch)'
  <2>1. StoreInv(scratch')
    BY <1>1, <1>2, <1>6, MirrorStore
  <2> QED BY <1>2, <1>3, <2>1 DEF StoreInv
<1>8. ASSUME NEW r
      PROVE  /\ \A c \in valid(r) : /\ c \in replica.entries /\ c \notin invalid /\ RunOf(c) = r
                                    /\ Target[RunOf(c)] = a /\ c \in DOMAIN captures /\ c \in Nat
             /\ valid(r) # {} => Newest(valid(r)) \in valid(r) /\ \A e \in valid(r) : e <= Newest(valid(r))
  <2>1. valid(r) = ValidEntries(a, invalid, r)
    BY DEF ValidEntries
  <2> HIDE DEF valid, invalid, a
  <2>2. LET V == ValidEntries(a, invalid, r) IN
        /\ \A c \in V : /\ c \in Entries(a) /\ c \in replica.entries /\ c \notin invalid
                        /\ RunOf(c) = r /\ Target[RunOf(c)] = a
                        /\ c \in DOMAIN captures /\ c \in Nat
        /\ V # {} => Newest(V) \in V /\ \A e \in V : e <= Newest(V)
    BY <1>1, ValidEntriesAre
  <2> QED BY <2>1, <2>2
<1>9. \A c \in todo : \E r \in RunsOf(a) : c \in valid(r)
  <2>1. \A c \in todo : \E r \in RunsOf(a) : valid(r) # {} /\ c = Newest(valid(r))
    OBVIOUS
  <2> HIDE DEF todo, valid
  <2> QED BY <1>8, <2>1
<1>10. \A r : r \in RunsOf(a) /\ valid(r) # {} => Newest(valid(r)) \in todo
  OBVIOUS
<1> HIDE DEF todo
<1>11. DrillInv0'
  <2>1. \A c \in todo : /\ c \in DOMAIN captures /\ Target[RunOf(c)] = a
                        /\ c \in Nat /\ c \notin scratch'.invalid
    <3> HIDE DEF valid, invalid
    <3> QED BY <1>5, <1>8, <1>9
  <2>2. drill' \in [pc: Rebuilding \cup Comparing \cup {"off"}, at: Targets, compared: BOOLEAN,
                    running: Derivations, snapshot: [Targets -> SUBSET Nat],
                    failed: SUBSET Targets, down: SUBSET Targets, unread: SUBSET Nat,
                    todo: SUBSET Nat, ids: SUBSET Derivations]
    <3>1. todo \in SUBSET Nat
      BY <2>1
    <3> QED BY <1>1, <1>2, <3>1 DEF DrillInv0, Rebuilding
  <2>3. drill.pc \notin Comparing
    BY <1>2 DEF Comparing
  <2>4. \A t \in Targets : report[t] = "none"
    BY <1>1, <2>3 DEF DrillInv0
  <2>5. drill'.todo \cap scratch'.invalid = {}
    BY <1>4, <2>1
  <2> QED BY <1>1, <1>2, <1>3, <1>4, <2>1, <2>2, <2>4, <2>5 DEF DrillInv0
<1>12. KeptInv'
  <2>1. todo \subseteq replica.entries
    <3> HIDE DEF valid, invalid
    <3> QED BY <1>8, <1>9
  <2> QED BY <1>1, <1>2, <1>4, <2>1 DEF KeptInv
<1>13. FailedInv'
  BY <1>1, <1>2, <1>4, TablesStay
<1>14. \A t \in Targets : Finished(t)' => Finished(t) /\ t # a
  BY <1>1, <1>2, <1>4, TargetsAre DEF Finished, Rebuilding, Comparing
<1>15. ASSUME NEW t \in Targets, Finished(t)'
       PROVE  Owed(t)'
  <2>1. Finished(t) /\ t # a
    BY <1>14, <1>15
  <2>2. \A p, d : HasRow(scratch, p, d) => HasRow(scratch', p, d)
    BY <1>5 DEF HasRow
  <2>3. \A c \in scratch'.invalid \ scratch.invalid : Target[RunOf(c)] = a
    BY <1>5 DEF Own
  <2> QED BY <1>2, <1>4, <1>5, <2>1, <2>2, <2>3, FinishedStays
<1>16. ASSUME lost = {}, NEW m \in drill.snapshot[a] \ invalid
       PROVE  \E e \in todo : RunOf(e) = RunOf(m) /\ m <= e
  <2>1. m \in replica.entries /\ m \in DOMAIN captures /\ Target[RunOf(m)] = a
    BY <1>1, <1>4, <1>16 DEF KeptInv, DrillInv0
  <2>2. RunOf(m) \in RunsOf(a)
    BY <1>1, <2>1, CaptureType DEF RunsOf
  <2>3. m \in valid(RunOf(m))
    BY <1>16, <2>1 DEF EntriesOf, Entries, Own
  <2> HIDE DEF valid, invalid
  <2> QED BY <1>8, <1>10, <2>2, <2>3
<1>17. ShownInv'
  <2>1. ASSUME lost' = {}, NEW c \in drill'.snapshot[a] \ scratch'.invalid
        PROVE  \E e \in drill'.todo : RunOf(e)' = RunOf(c)' /\ c <= e
    BY <1>2, <1>3, <1>4, <1>5, <1>16, <2>1
  <2> QED BY <1>4, <1>15, <2>1 DEF ShownInv, Owed
<1>18. LatestInv'
  BY <1>4, <1>15 DEF LatestInv, Owed
<1> QED BY <1>3, <1>7, <1>11, <1>12, <1>13, <1>17, <1>18 DEF DrillInv

\* The second reconcile: what is named is the newest capture still, or it was
\* invalidated since, and then the target fails.
LEMMA RebuildPendingStep ==
    ASSUME DrillInv, NEW recent \in SUBSET RunsOf(drill.at), RebuildPending(recent)
    PROVE  DrillInv'
<1> DEFINE a == drill.at
           invalid == scratch.invalid \cup Own(replica.decisions, a)
           valid(r) == EntriesOf(Entries(a), r) \ invalid
           named == {c \in drill.todo : RunOf(c) \notin recent \/
                       LET V == valid(RunOf(c)) IN
                       V = {} \/ Newest(V) <= c \/ Doc(Newest(V)) = Doc(c)}
           later == {Newest(valid(r)) : r \in {r \in recent :
                       valid(r) # {} /\ \A c \in named : RunOf(c) # r}}
           todo == named \cup later
<1>1. LogInv /\ StoreInv(live) /\ StoreInv(scratch) /\ NamedInv /\ DrillInv0 /\ KeptInv
      /\ FailedInv /\ ShownInv
  BY DEF DrillInv
<1>2. /\ drill.pc = "pending"
      /\ scratch' = [scratch EXCEPT !.invalid = invalid]
      /\ drill' = [drill EXCEPT !.pc = "process", !.todo = todo]
      /\ UNCHANGED <<captures, replica, lost, decisions, deployed, live, report>>
  BY DEF RebuildPending
<1>3. LogInv' /\ StoreInv(live)' /\ NamedInv' /\ Entries(a)' = Entries(a)
      /\ \A c : RunOf(c)' = RunOf(c) /\ Doc(c)' = Doc(c)
  BY <1>1, <1>2, TablesStay DEF DrillInv0
<1>4. /\ a \in Targets
      /\ drill'.pc = "process" /\ drill'.running = drill.running /\ drill'.at = a
      /\ drill'.snapshot = drill.snapshot
      /\ drill'.failed = drill.failed /\ drill'.unread = drill.unread
      /\ drill'.down = drill.down /\ drill'.todo = todo
  BY <1>1, <1>2 DEF DrillInv0
<1>5. /\ scratch'.invalid = invalid /\ scratch'.occurrences = scratch.occurrences
      /\ scratch'.rows = scratch.rows /\ scratch'.processed = scratch.processed
  BY <1>1, <1>2 DEF StoreInv, Store
<1>6. Own(replica.decisions, a) \subseteq decisions
  BY <1>1 DEF Own, LogInv
<1>7. StoreInv(scratch)'
  <2>1. StoreInv(scratch')
    BY <1>1, <1>2, <1>6, MirrorStore
  <2> QED BY <1>2, <1>3, <2>1 DEF StoreInv
<1>8. ASSUME NEW r
      PROVE  /\ \A c \in valid(r) : /\ c \in replica.entries /\ c \notin invalid /\ RunOf(c) = r
                                    /\ Target[RunOf(c)] = a /\ c \in DOMAIN captures /\ c \in Nat
             /\ valid(r) # {} => Newest(valid(r)) \in valid(r) /\ \A e \in valid(r) : e <= Newest(valid(r))
  <2>1. valid(r) = ValidEntries(a, invalid, r)
    BY DEF ValidEntries
  <2> HIDE DEF valid, invalid, a
  <2>2. LET V == ValidEntries(a, invalid, r) IN
        /\ \A c \in V : /\ c \in Entries(a) /\ c \in replica.entries /\ c \notin invalid
                        /\ RunOf(c) = r /\ Target[RunOf(c)] = a
                        /\ c \in DOMAIN captures /\ c \in Nat
        /\ V # {} => Newest(V) \in V /\ \A e \in V : e <= Newest(V)
    BY <1>1, ValidEntriesAre
  <2> QED BY <2>1, <2>2
<1>9. \A c \in todo : c \in drill.todo \/ \E r \in recent : c \in valid(r)
  <2>1. \A c \in todo : c \in drill.todo \/ \E r \in recent : valid(r) # {} /\ c = Newest(valid(r))
    OBVIOUS
  <2> HIDE DEF todo, later, named, valid
  <2> QED BY <1>8, <2>1
<1>10. /\ named \subseteq todo
       /\ \A r \in recent : valid(r) # {} /\ (\A c \in named : RunOf(c) # r) => Newest(valid(r)) \in todo
       /\ \A e \in drill.todo : e \in named \/ (/\ RunOf(e) \in recent /\ valid(RunOf(e)) # {}
                                               /\ ~(Newest(valid(RunOf(e))) <= e))
  OBVIOUS
<1> HIDE DEF todo, later, named
<1>11. DrillInv0'
  <2>1. \A c \in todo : c \in DOMAIN captures /\ Target[RunOf(c)] = a /\ c \in Nat
    <3> HIDE DEF valid, invalid
    <3> QED BY <1>1, <1>8, <1>9 DEF DrillInv0
  <2>2. drill' \in [pc: Rebuilding \cup Comparing \cup {"off"}, at: Targets, compared: BOOLEAN,
                    running: Derivations, snapshot: [Targets -> SUBSET Nat],
                    failed: SUBSET Targets, down: SUBSET Targets, unread: SUBSET Nat,
                    todo: SUBSET Nat, ids: SUBSET Derivations]
    <3>1. todo \in SUBSET Nat
      BY <2>1
    <3> QED BY <1>1, <1>2, <3>1 DEF DrillInv0, Rebuilding
  <2>3. drill.pc \notin Comparing
    BY <1>2 DEF Comparing
  <2>4. \A t \in Targets : report[t] = "none"
    BY <1>1, <2>3 DEF DrillInv0
  <2> QED BY <1>1, <1>2, <1>3, <1>4, <2>1, <2>2, <2>4 DEF DrillInv0
<1>12. KeptInv'
  <2>1. lost = {} => todo \subseteq replica.entries
    <3> HIDE DEF valid, invalid
    <3> QED BY <1>1, <1>8, <1>9 DEF KeptInv
  <2> QED BY <1>1, <1>2, <1>4, <2>1 DEF KeptInv
<1>13. FailedInv'
  BY <1>1, <1>2, <1>4, TablesStay
<1>14. \A t \in Targets : Finished(t)' => Finished(t) /\ t # a
  BY <1>1, <1>2, <1>4, TargetsAre DEF Finished, Rebuilding, Comparing
<1>15. ASSUME NEW t \in Targets, Finished(t)'
       PROVE  Owed(t)'
  <2>1. Finished(t) /\ t # a
    BY <1>14, <1>15
  <2>2. \A p, d : HasRow(scratch, p, d) => HasRow(scratch', p, d)
    BY <1>5 DEF HasRow
  <2>3. \A c \in scratch'.invalid \ scratch.invalid : Target[RunOf(c)] = a
    BY <1>5 DEF Own
  <2> QED BY <1>2, <1>4, <1>5, <2>1, <2>2, <2>3, FinishedStays
<1>16. ASSUME lost = {}, ~Broken(a)', NEW m \in drill.snapshot[a] \ invalid
       PROVE  /\ \E e \in todo : e \in replica.entries /\ e \notin invalid /\ RunOf(e) = RunOf(m)
              /\ IsLatest(m)' => m \in todo
  <2>1. m \in replica.entries /\ m \in DOMAIN captures /\ Target[RunOf(m)] = a
    BY <1>1, <1>4, <1>16 DEF KeptInv, DrillInv0
  <2>2. m \in valid(RunOf(m)) /\ m \in Nat
    BY <1>1, <1>16, <2>1, CaptureType DEF EntriesOf, Entries, Own
  <2>3. todo \cap invalid = {} /\ a \notin drill.failed \cup drill.down
    BY <1>4, <1>5, <1>16 DEF Broken
  <2>4. PICK e \in drill.todo : RunOf(e) = RunOf(m) /\ m <= e
    <3>1. ~Broken(a)
      BY <1>2, <2>3 DEF Broken
    <3> QED BY <1>1, <1>2, <1>4, <1>16, <3>1 DEF ShownInv
  <2>5. e \in DOMAIN captures /\ e \in replica.entries /\ e \in Nat
    BY <1>1, <1>16, CaptureType DEF DrillInv0, KeptInv
  <2>6. \A f \in DOMAIN captures : RunOf(f) = RunOf(m) /\ f \notin invalid /\ IsLatest(m)' => ~(m < f)
    BY <1>2, <1>3, <1>5 DEF IsLatest
  <2>7. CASE e \in named
    <3>1. e \in todo /\ e \notin invalid
      BY <1>10, <2>3, <2>7
    <3>2. IsLatest(m)' => e = m
      BY <2>2, <2>4, <2>5, <2>6, <3>1
    <3> QED BY <2>4, <2>5, <3>1, <3>2
  <2>8. CASE e \notin named
    <3> DEFINE n == Newest(valid(RunOf(m)))
    <3>1. RunOf(m) \in recent /\ valid(RunOf(m)) # {} /\ ~(n <= e)
      BY <1>10, <2>4, <2>8
    <3>2. n \in valid(RunOf(m)) /\ n \in DOMAIN captures /\ n \in Nat /\ n \notin invalid
          /\ RunOf(n) = RunOf(m) /\ n \in replica.entries
      <4> HIDE DEF valid, invalid
      <4> QED BY <1>8, <3>1
    <3> HIDE DEF n
    <3>3. ~IsLatest(m)'
      BY <2>2, <2>4, <2>5, <2>6, <3>1, <3>2
    <3>4. CASE \A c \in named : RunOf(c) # RunOf(m)
      <4>1. n \in todo
        BY <1>10, <3>1, <3>4 DEF n
      <4> QED BY <3>2, <3>3, <4>1
    <3>5. CASE \E c \in named : RunOf(c) = RunOf(m)
      <4>1. PICK c \in named : RunOf(c) = RunOf(m)
        BY <3>5
      <4>2. c \in todo /\ c \notin invalid
        BY <1>10, <2>3
      <4>3. c \in replica.entries
        BY <1>12, <1>2, <1>4, <1>16, <4>2 DEF KeptInv
      <4> QED BY <3>3, <4>1, <4>2, <4>3
    <3> QED BY <3>4, <3>5
  <2> QED BY <2>7, <2>8
<1>17. ShownInv'
  <2>1. ASSUME lost' = {}, ~Broken(a)', NEW c \in drill'.snapshot[a] \ scratch'.invalid
        PROVE  \E e \in Entries(a)' \ scratch'.invalid :
                  RunOf(e)' = RunOf(c)' /\ e \in drill'.todo
    <3>1. PICK e \in todo : e \in replica.entries /\ e \notin invalid /\ RunOf(e) = RunOf(c)
      BY <1>2, <1>4, <1>5, <1>16, <2>1
    <3>2. Target[RunOf(e)] = a
      BY <1>4, <1>11, <1>3, <3>1 DEF DrillInv0
    <3>3. e \in Entries(a)
      BY <3>1, <3>2 DEF Entries, Own
    <3> QED BY <1>3, <1>4, <1>5, <3>1, <3>3
  <2> QED BY <1>4, <1>15, <2>1 DEF ShownInv, Owed
<1>18. LatestInv'
  <2>1. ASSUME lost' = {}, ~Broken(a)', NEW m \in drill'.snapshot[a] \ scratch'.invalid, IsLatest(m)'
        PROVE  m \in drill'.todo
    BY <1>2, <1>4, <1>5, <1>16, <2>1
  <2> QED BY <1>4, <1>15, <2>1 DEF LatestInv, Owed
<1> QED BY <1>3, <1>7, <1>11, <1>12, <1>13, <1>17, <1>18 DEF DrillInv

LEMMA TwoElements ==
    ASSUME NEW S, IsFiniteSet(S), NEW f \in S, NEW g \in S, f # g
    PROVE  Cardinality(S) >= 2
<1>1. Cardinality(S) \in Nat
  BY FS_CardinalityType
<1>2. Cardinality(S) # 0
  BY FS_EmptySet
<1>3. Cardinality(S) # 1
  <2>1. ASSUME Cardinality(S) = 1 PROVE FALSE
    <3>1. PICK x : S = {x}
      BY <2>1, FS_Singleton
    <3> QED BY <3>1
  <2> QED BY <2>1
<1> QED BY <1>1, <1>2, <1>3

\* A document that is not replayed is that of the capture already processed.
LEMMA RebuildHistoryStep ==
    ASSUME DrillInv, RebuildHistory
    PROVE  DrillInv'
<1> DEFINE a == drill.at
           valid(r) == EntriesOf(Entries(a), r) \ scratch.invalid
           again == {r \in RunsOf(a) : Cardinality(Distinct(valid(r))) >= 2 /\ scratch.names[r] # 0}
           todo == UNION {Distinct(valid(r)) : r \in again}
<1>1. LogInv /\ StoreInv(live) /\ StoreInv(scratch) /\ NamedInv /\ DrillInv0 /\ KeptInv
      /\ FailedInv /\ ShownInv /\ LatestInv
  BY DEF DrillInv
<1>2. /\ drill.pc = "process" /\ drill.todo = {}
      /\ drill' = [drill EXCEPT !.pc = "replay", !.todo = todo]
      /\ UNCHANGED <<captures, replica, lost, decisions, deployed, live, scratch, report>>
  BY DEF RebuildHistory
<1>3. LogInv' /\ StoreInv(live)' /\ NamedInv' /\ StoreInv(scratch)'
      /\ Entries(a)' = Entries(a) /\ \A c : RunOf(c)' = RunOf(c) /\ Doc(c)' = Doc(c)
  BY <1>1, <1>2, TablesStay DEF DrillInv0
<1>4. /\ a \in Targets
      /\ drill'.pc = "replay" /\ drill'.running = drill.running /\ drill'.at = a
      /\ drill'.snapshot = drill.snapshot
      /\ drill'.failed = drill.failed /\ drill'.unread = drill.unread
      /\ drill'.down = drill.down /\ drill'.todo = todo
  BY <1>1, <1>2 DEF DrillInv0
<1>5. ASSUME NEW r, NEW c \in valid(r)
      PROVE  /\ c \in Entries(a) /\ RunOf(c) = r /\ c \notin scratch.invalid
             /\ c \in DOMAIN captures /\ c \in Nat
             /\ Target[RunOf(c)] = a /\ c \in replica.entries
  <2>1. c \in Entries(a) /\ RunOf(c) = r /\ c \notin scratch.invalid
    BY DEF EntriesOf
  <2>2. c \in replica.entries /\ Target[RunOf(c)] = a /\ c \in DOMAIN captures
    BY <1>1, <2>1 DEF Entries, Own, LogInv
  <2> QED BY <1>1, <2>1, <2>2, CaptureType
<1> HIDE DEF valid
<1>6. \A c \in todo : \E r \in again : c \in valid(r)
  BY DEF Distinct
<1>7. \A r \in again : \A c \in Distinct(valid(r)) : c \in todo
  OBVIOUS
<1> HIDE DEF todo
<1>8. DrillInv0'
  <2>1. todo \in SUBSET Nat
    BY <1>5, <1>6
  <2>2. drill' \in [pc: Rebuilding \cup Comparing \cup {"off"}, at: Targets, compared: BOOLEAN,
                    running: Derivations, snapshot: [Targets -> SUBSET Nat],
                    failed: SUBSET Targets, down: SUBSET Targets, unread: SUBSET Nat,
                    todo: SUBSET Nat, ids: SUBSET Derivations]
    BY <1>1, <1>2, <2>1 DEF DrillInv0, Rebuilding
  <2>3. drill.pc \notin Comparing
    BY <1>2 DEF Comparing
  <2>4. \A c \in todo : c \in DOMAIN captures /\ Target[RunOf(c)] = a /\ c \notin scratch.invalid
    BY <1>5, <1>6
  <2>5. \A t \in Targets : report[t] = "none"
    BY <1>1, <2>3 DEF DrillInv0
  <2>6. drill'.todo \cap scratch'.invalid = {}
    BY <1>2, <1>4, <2>4
  <2> QED BY <1>1, <1>2, <1>3, <1>4, <2>2, <2>4, <2>5, <2>6 DEF DrillInv0
<1>9. KeptInv'
  BY <1>1, <1>2, <1>4, <1>5, <1>6 DEF KeptInv
<1>10. FailedInv'
  BY <1>1, <1>2, <1>4, TablesStay
<1>11. \A t \in Targets : Finished(t)' => Finished(t) /\ t # a
  BY <1>1, <1>2, <1>4, TargetsAre DEF Finished, Rebuilding, Comparing
<1>12. ASSUME NEW t \in Targets, Finished(t)'
       PROVE  Owed(t)'
  <2>1. Finished(t) /\ t # a
    BY <1>11, <1>12
  <2> QED BY <1>2, <1>4, <2>1, FinishedStays
<1>13. ASSUME lost = {}, ~Broken(a), NEW c \in drill.snapshot[a] \ scratch.invalid
       PROVE  Shown(c) \/ \E f \in todo : RunOf(f) = RunOf(c) /\ Doc(f) = Doc(c)
  <2> DEFINE V == valid(RunOf(c))
  <2>1. PICK e \in Entries(a) \ scratch.invalid : RunOf(e) = RunOf(c) /\ Shown(e)
    BY <1>1, <1>2, <1>4, <1>13 DEF ShownInv
  <2>2. c \in replica.entries /\ c \in DOMAIN captures /\ Target[RunOf(c)] = a
    BY <1>1, <1>4, <1>13 DEF KeptInv, DrillInv0
  <2>3. c \in V /\ e \in V
    BY <2>1, <2>2 DEF valid, EntriesOf, Entries, Own
  <2>4. V \in SUBSET Nat /\ IsFiniteSet(V)
    <3>1. V \subseteq 1 .. Len(captures) /\ Len(captures) \in Nat /\ V \subseteq Nat
      BY <1>1, <1>5, <2>2, CaptureType
    <3>2. IsFiniteSet(1 .. Len(captures))
      BY <3>1, FS_Interval
    <3> QED BY <3>1, <3>2, FS_Subset
  <2>5. IsFiniteSet(Distinct(V))
    <3>1. Distinct(V) \in SUBSET V
      BY DEF Distinct
    <3> QED BY <2>4, <3>1, FS_Subset
  <2> HIDE DEF V
  <2>6. PICK f \in Distinct(V) : Doc(f) = Doc(c)
    BY <2>3, <2>4, ChangeBefore
  <2>7. PICK g \in Distinct(V) : Doc(g) = Doc(e)
    BY <2>3, <2>4, ChangeBefore
  <2>8. CASE f = g
    BY <2>1, <2>6, <2>7, <2>8 DEF Shown
  <2>9. CASE f # g
    <3>1. Cardinality(Distinct(V)) >= 2
      BY <2>5, <2>9, TwoElements
    <3>2. RunOf(c) \in RunsOf(a) /\ scratch.names[RunOf(c)] # 0
      BY <1>1, <2>1, <2>2, CaptureType DEF RunsOf, Shown, StoreInv
    <3>3. f \in todo
      BY <1>7, <3>1, <3>2 DEF V
    <3>4. RunOf(f) = RunOf(c)
      BY <1>5, <2>6 DEF V, Distinct
    <3> QED BY <2>6, <3>3, <3>4
  <2> QED BY <2>8, <2>9
<1>14. Broken(a) => Broken(a)'
  BY <1>2, <1>4 DEF Broken
<1>15. ShownInv'
  <2>1. \A c : Shown(c)' = Shown(c)
    BY <1>2, <1>3, <1>4 DEF Shown, HasRow
  <2>2. ASSUME lost' = {}, ~Broken(a)', NEW c \in drill'.snapshot[a] \ scratch'.invalid
        PROVE  Shown(c)' \/ \E f \in drill'.todo : RunOf(f)' = RunOf(c)' /\ Doc(f)' = Doc(c)'
    BY <1>2, <1>3, <1>4, <1>13, <1>14, <2>1, <2>2
  <2> QED BY <1>4, <1>12, <2>2 DEF ShownInv, Owed
<1>16. LatestInv'
  <2>1. ASSUME lost' = {}, ~Broken(a)',
               NEW m \in drill'.snapshot[a] \ scratch'.invalid, IsLatest(m)'
        PROVE  \E o \in scratch'.occurrences : o[3] = m
    <3>1. IsLatest(m)
      BY <1>2, <1>3, <2>1 DEF IsLatest
    <3> QED BY <1>1, <1>2, <1>4, <1>14, <2>1, <3>1 DEF LatestInv
  <2> QED BY <1>4, <1>12, <2>1 DEF LatestInv, Owed
<1> QED BY <1>3, <1>8, <1>9, <1>10, <1>15, <1>16 DEF DrillInv

\* process_one brings one capture from what is to be done to what is shown, or
\* the target has failed.
LEMMA RebuildOneStep ==
    ASSUME DrillInv, RebuildOne
    PROVE  DrillInv'
<1> DEFINE a == drill.at
           first == NextOf(drill.todo)
           read(there) == there /\ first \notin scratch.invalid
           good(there) == read(there) /\ Doc(first) \notin Unmappable
           unread(there) == IF read(there) THEN drill.unread ELSE drill.unread \cup {first}
           failed(there) == IF good(there) THEN drill.failed ELSE drill.failed \cup {a}
<1>1. LogInv /\ StoreInv(live) /\ StoreInv(scratch) /\ NamedInv /\ DrillInv0 /\ KeptInv
      /\ FailedInv /\ ShownInv /\ LatestInv
  BY DEF DrillInv
<1>2. PICK there \in BOOLEAN :
      /\ there => first \in replica.entries
      /\ scratch' = ProcessOne(scratch, first, drill.running, there)
      /\ replica' = IF read(there) THEN [replica EXCEPT !.blobs = @ \cup {Doc(first)}] ELSE replica
      /\ drill' = [drill EXCEPT !.todo = @ \ {first}, !.unread = unread(there), !.failed = failed(there)]
  BY <1>1 DEF RebuildOne, DrillInv0
<1>3. /\ drill.pc \in {"process", "replay"} /\ drill.todo # {}
      /\ UNCHANGED <<captures, lost, decisions, deployed, live, report>>
  BY DEF RebuildOne
<1>4. first \in drill.todo
  <2>1. drill.todo \in SUBSET Nat /\ \A c \in drill.todo : RunOf(c) \in Runs
    BY <1>1, CaptureType DEF DrillInv0
  <2>2. \E c \in drill.todo : \A e \in drill.todo :
           RunOf(c) < RunOf(e) \/ (RunOf(c) = RunOf(e) /\ c <= e)
    BY <1>3, <2>1, OneComesFirst
  <2> QED BY <2>2 DEF NextOf
<1> HIDE DEF first
<1>5. /\ first \in DOMAIN captures /\ Target[RunOf(first)] = a /\ first \in Nat
      /\ Doc(first) \in Payloads
      /\ lost = {} => first \in replica.entries
      /\ a \in Targets /\ drill.running \in Derivations
  BY <1>1, <1>4, CaptureType DEF DrillInv0, KeptInv
<1>6. /\ drill'.pc = drill.pc /\ drill'.running = drill.running /\ drill'.at = a
      /\ drill'.snapshot = drill.snapshot
      /\ drill'.failed = failed(there) /\ drill'.unread = unread(there)
      /\ drill'.down = drill.down /\ drill'.todo = drill.todo \ {first}
  BY <1>1, <1>2 DEF DrillInv0
<1>7. \A c : RunOf(c)' = RunOf(c) /\ Doc(c)' = Doc(c)
  BY <1>3 DEF RunOf, Doc
<1>8. /\ replica'.entries = replica.entries /\ replica'.decisions = replica.decisions
      /\ replica' \in [entries: SUBSET Nat, decisions: SUBSET Nat, blobs: SUBSET Payloads]
      /\ Entries(a)' = Entries(a)
  <2>1. /\ replica'.entries = replica.entries /\ replica'.decisions = replica.decisions
        /\ replica' \in [entries: SUBSET Nat, decisions: SUBSET Nat, blobs: SUBSET Payloads]
    BY <1>1, <1>2, <1>5 DEF LogInv
  <2>2. Entries(a)' = Entries(a)
    BY <1>6, <1>7, <2>1 DEF Entries, Own
  <2> QED BY <2>1, <2>2
<1>9. LogInv' /\ StoreInv(live)' /\ NamedInv'
  BY <1>1, <1>3, <1>7, <1>8 DEF LogInv, StoreInv, NamedInv, Named
<1>10. /\ StoreInv(scratch')
       /\ scratch.processed \ {RunOf(first)} \subseteq scratch'.processed
       /\ scratch'.invalid = scratch.invalid /\ scratch.occurrences \subseteq scratch'.occurrences
       /\ \A p, e : HasRow(scratch, p, e) => HasRow(scratch', p, e)
       /\ good(there) =>
            /\ scratch.processed \subseteq scratch'.processed /\ RunOf(first) \in scratch'.processed
            /\ HasRow(scratch', Doc(first), drill.running)
            /\ \E o \in scratch'.occurrences : o[3] = first
  BY <1>1, <1>2, <1>5, ProcessOneStore
<1>11. StoreInv(scratch)'
  BY <1>3, <1>7, <1>10 DEF StoreInv
<1>12. FailedInv'
  <2> SUFFICES ASSUME lost' = {}, NEW t \in drill'.failed
               PROVE  Unread(t)' \/ \E c \in replica.entries : Doc(c)' \in Unmappable
    BY <1>8 DEF FailedInv
  <2>1. CASE t \in drill.failed
    <3>1. Unread(t) => Unread(t)'
      BY <1>6, <1>7 DEF Unread
    <3> QED BY <1>1, <1>3, <1>7, <2>1, <3>1 DEF FailedInv
  <2>2. CASE t \notin drill.failed
    <3>1. t = a /\ ~good(there)
      BY <1>6, <2>2
    <3>2. CASE read(there)
      BY <1>3, <1>5, <1>7, <3>1, <3>2
    <3>3. CASE ~read(there)
      BY <1>5, <1>6, <1>7, <3>1, <3>3 DEF Unread
    <3> QED BY <3>2, <3>3
  <2> QED BY <2>1, <2>2
<1>13. DrillInv0'
  <2>1. drill.unread \subseteq unread(there) /\ unread(there) \subseteq drill.unread \cup {first}
        /\ (first \in unread(there) => first \in drill.unread \/ a \in failed(there))
        /\ drill.failed \subseteq failed(there) /\ failed(there) \subseteq drill.failed \cup {a}
    OBVIOUS
  <2> HIDE DEF unread, failed
  <2>2. /\ unread(there) \in SUBSET Nat /\ failed(there) \in SUBSET Targets
        /\ drill.todo \ {first} \in SUBSET Nat
    BY <1>1, <1>5, <2>1 DEF DrillInv0
  <2>3. drill' \in [pc: Rebuilding \cup Comparing \cup {"off"}, at: Targets, compared: BOOLEAN,
                    running: Derivations, snapshot: [Targets -> SUBSET Nat],
                    failed: SUBSET Targets, down: SUBSET Targets, unread: SUBSET Nat,
                    todo: SUBSET Nat, ids: SUBSET Derivations]
    BY <1>1, <1>2, <2>2 DEF DrillInv0
  <2>4. drill.pc \notin Comparing
    BY <1>3 DEF Comparing
  <2>5. \A t \in Targets : report[t] = "none"
    BY <1>1, <2>4 DEF DrillInv0
  <2>6. \A c \in drill'.unread : c \in DOMAIN captures /\ Target[RunOf(c)] \in drill'.failed
    BY <1>1, <1>5, <1>6, <2>1 DEF DrillInv0
  <2> QED BY <1>1, <1>3, <1>6, <1>7, <1>10, <2>3, <2>5, <2>6 DEF DrillInv0
<1>14. KeptInv'
  BY <1>1, <1>3, <1>6, <1>8 DEF KeptInv
<1>15. \A t \in Targets : Finished(t)' => Finished(t) /\ t # a
  BY <1>1, <1>3, <1>6, TargetsAre DEF Finished, Rebuilding, Comparing
<1>16. ASSUME NEW t \in Targets, Finished(t)'
       PROVE  Owed(t)'
  <2>1. Finished(t) /\ t # a
    BY <1>15, <1>16
  <2>2. \A r \in scratch.processed : Target[r] # a => r \in scratch'.processed
    BY <1>5, <1>10
  <2>3. drill.failed \subseteq drill'.failed /\ drill.down \subseteq drill'.down
        /\ drill'.running = drill.running /\ drill'.snapshot[t] = drill.snapshot[t]
        /\ scratch.invalid \subseteq scratch'.invalid
        /\ \A c \in scratch'.invalid \ scratch.invalid : Target[RunOf(c)] = a
    BY <1>6, <1>10
  <2> HIDE DEF failed, unread
  <2> QED BY <1>3, <1>10, <2>1, <2>2, <2>3, FinishedStays
<1>17. ~Broken(a)' => ~Broken(a) /\ good(there)
  <2> SUFFICES ASSUME ~Broken(a)' PROVE ~Broken(a) /\ good(there)
    OBVIOUS
  <2>1. a \notin failed(there) \cup drill.down
    BY <1>6 DEF Broken
  <2>2. good(there) /\ a \notin drill.failed \cup drill.down
    BY <2>1
  <2>3. drill.pc = "process" => (drill.todo \ {first}) \cap scratch.invalid = {}
    BY <1>6, <1>10 DEF Broken
  <2> QED BY <2>2, <2>3 DEF Broken
<1>18. ASSUME lost' = {}, ~Broken(a)'
       PROVE  /\ \A c : Shown(c) => Shown(c)'
              /\ \A c : RunOf(c) = RunOf(first) /\ Doc(c) = Doc(first) => Shown(c)'
  <2>1. good(there)
    BY <1>17, <1>18
  <2>2. ASSUME NEW c, Shown(c) PROVE Shown(c)'
    <3>1. RunOf(c) \in scratch'.processed /\ HasRow(scratch', Doc(c), drill'.running)
      BY <1>6, <1>10, <2>1, <2>2 DEF Shown
    <3> QED BY <1>7, <3>1 DEF Shown, HasRow
  <2>3. ASSUME NEW c, RunOf(c) = RunOf(first), Doc(c) = Doc(first) PROVE Shown(c)'
    <3>1. RunOf(c) \in scratch'.processed /\ HasRow(scratch', Doc(c), drill'.running)
      BY <1>6, <1>10, <2>1, <2>3
    <3> QED BY <1>7, <3>1 DEF Shown, HasRow
  <2> QED BY <2>2, <2>3
<1>19. ShownInv'
  <2>1. ASSUME lost' = {}, ~Broken(a)', drill.pc = "process",
               NEW c \in drill.snapshot[a] \ scratch.invalid
        PROVE  \E e \in Entries(a) \ scratch.invalid :
                  RunOf(e) = RunOf(c) /\ (e \in drill'.todo \/ Shown(e)')
    <3>1. PICK e \in Entries(a) \ scratch.invalid :
             RunOf(e) = RunOf(c) /\ (e \in drill.todo \/ Shown(e))
      BY <1>1, <1>3, <1>5, <1>17, <2>1 DEF ShownInv
    <3>2. e \in drill'.todo \/ Shown(e)'
      BY <1>6, <1>18, <2>1, <3>1
    <3> QED BY <3>1, <3>2
  <2>2. ASSUME lost' = {}, ~Broken(a)', drill.pc = "replay",
               NEW c \in drill.snapshot[a] \ scratch.invalid
        PROVE  Shown(c)' \/ \E e \in drill'.todo : RunOf(e) = RunOf(c) /\ Doc(e) = Doc(c)
    <3>1. Shown(c) \/ \E e \in drill.todo : RunOf(e) = RunOf(c) /\ Doc(e) = Doc(c)
      BY <1>1, <1>3, <1>5, <1>17, <2>2 DEF ShownInv
    <3> QED BY <1>6, <1>18, <2>2, <3>1
  <2> HIDE DEF failed, unread
  <2> QED BY <1>3, <1>6, <1>7, <1>8, <1>10, <1>16, <2>1, <2>2 DEF ShownInv, Owed
<1>20. LatestInv'
  <2>1. ASSUME lost' = {}, ~Broken(a)', NEW m \in drill'.snapshot[a] \ scratch'.invalid, IsLatest(m)'
        PROVE  \/ \E o \in scratch'.occurrences : o[3] = m
               \/ drill'.pc = "process" /\ m \in drill'.todo
    <3>1. IsLatest(m)
      BY <1>3, <1>7, <1>10, <2>1 DEF IsLatest
    <3>2. \/ \E o \in scratch.occurrences : o[3] = m
          \/ drill.pc = "process" /\ m \in drill.todo
      BY <1>1, <1>3, <1>5, <1>6, <1>10, <1>17, <2>1, <3>1 DEF LatestInv
    <3>3. m = first => \E o \in scratch'.occurrences : o[3] = m
      BY <1>10, <1>17, <2>1
    <3> QED BY <1>6, <1>10, <3>2, <3>3
  <2> HIDE DEF failed, unread
  <2> QED BY <1>3, <1>6, <1>16, <2>1 DEF LatestInv, Owed
<1> QED BY <1>9, <1>11, <1>12, <1>13, <1>14, <1>19, <1>20 DEF DrillInv

\* What arrives for a target is of the log, is not lost and takes nothing away.
LEMMA WhatArrives ==
    ASSUME LogInv, NEW t, replica' = Arrived(t),
           UNCHANGED <<captures, lost, decisions, deployed>>
    PROVE  LogInv' /\ replica.entries \subseteq replica'.entries
<1>1. \A c \in DOMAIN captures : c \in Nat
  BY CaptureType
<1>2. /\ replica'.entries = replica.entries \cup (Own(DOMAIN captures, t) \ lost)
      /\ replica'.decisions = replica.decisions \cup Own(decisions, t)
      /\ replica'.blobs = replica.blobs
      /\ replica' \in [entries: SUBSET Nat, decisions: SUBSET Nat, blobs: SUBSET Payloads]
  <2> DEFINE E == Own(DOMAIN captures, t) \ lost
             D == Own(decisions, t)
  <2>1. E \subseteq Nat /\ D \subseteq Nat
    BY <1>1 DEF LogInv, Own
  <2>2. replica' = [replica EXCEPT !.entries = @ \cup E, !.decisions = @ \cup D]
    BY DEF Arrived
  <2> HIDE DEF E, D
  <2>3. /\ replica'.entries = replica.entries \cup E
        /\ replica'.decisions = replica.decisions \cup D
        /\ replica'.blobs = replica.blobs
        /\ replica' \in [entries: SUBSET Nat, decisions: SUBSET Nat, blobs: SUBSET Payloads]
    BY <2>1, <2>2 DEF LogInv
  <2> QED BY <2>3 DEF E, D
<1>3. LogInv'
  BY <1>2 DEF LogInv, Own
<1> QED BY <1>2, <1>3

\* A target is left when all of it is done, or as one that is down.
LEMMA DoneStep ==
    ASSUME DrillInv, drill.pc \in {"reconcile", "pending", "process", "replay"},
           NEW D \in SUBSET Targets, drill.down \subseteq D,
           drill' = [drill EXCEPT !.down = D, !.todo = {},
                       !.pc = IF drill.at + 1 \in Targets THEN "snapshot" ELSE "ids",
                       !.at = IF drill.at + 1 \in Targets THEN drill.at + 1 ELSE 1],
           drill.at \in D \/ (drill.pc = "replay" /\ drill.todo = {}),
           replica' = Arrived(drill.at),
           UNCHANGED <<captures, lost, decisions, deployed, live, scratch, report>>
    PROVE  DrillInv'
<1> DEFINE a == drill.at
           more == a + 1 \in Targets
<1>1. LogInv /\ StoreInv(live) /\ StoreInv(scratch) /\ NamedInv /\ DrillInv0 /\ KeptInv
      /\ FailedInv /\ ShownInv /\ LatestInv
  BY DEF DrillInv
<1>2. LogInv' /\ StoreInv(live)' /\ NamedInv' /\ StoreInv(scratch)'
      /\ \A c : RunOf(c)' = RunOf(c) /\ Doc(c)' = Doc(c)
  <2>1. \A c : RunOf(c)' = RunOf(c) /\ Doc(c)' = Doc(c)
    BY DEF RunOf, Doc
  <2>2. LogInv'
    BY <1>1, WhatArrives
  <2>3. StoreInv(live)' /\ StoreInv(scratch)' /\ NamedInv'
    BY <1>1, <2>1 DEF StoreInv, NamedInv, Named
  <2> QED BY <2>1, <2>2, <2>3
<1>3. drill' = [drill EXCEPT !.down = D, !.todo = {},
                  !.pc = IF more THEN "snapshot" ELSE "ids",
                  !.at = IF more THEN a + 1 ELSE 1]
  OBVIOUS
<1>4. /\ a \in Targets
      /\ drill'.pc = (IF more THEN "snapshot" ELSE "ids")
      /\ drill'.at = (IF more THEN a + 1 ELSE 1)
      /\ drill'.running = drill.running
      /\ drill'.snapshot = drill.snapshot
      /\ drill'.failed = drill.failed /\ drill'.unread = drill.unread
      /\ drill'.down = D /\ drill'.todo = {}
  BY <1>1, <1>3 DEF DrillInv0
<1>5. DrillInv0'
  <2>1. (IF more THEN a + 1 ELSE 1) \in Targets
    BY TargetsAre
  <2>2. (IF more THEN "snapshot" ELSE "ids") \in Rebuilding \cup Comparing \cup {"off"}
    BY DEF Rebuilding, Comparing
  <2>6. drill'.pc # "off"
    BY <1>4
  <2> DEFINE where == IF more THEN "snapshot" ELSE "ids"
             next == IF more THEN a + 1 ELSE 1
  <2>7. drill' = [drill EXCEPT !.down = D, !.todo = {}, !.pc = where, !.at = next]
    BY <1>3
  <2>8. where \in Rebuilding \cup Comparing \cup {"off"} /\ next \in Targets
    BY <2>1, <2>2
  <2> HIDE DEF more, where, next
  <2>3. drill' \in [pc: Rebuilding \cup Comparing \cup {"off"}, at: Targets, compared: BOOLEAN,
                    running: Derivations, snapshot: [Targets -> SUBSET Nat],
                    failed: SUBSET Targets, down: SUBSET Targets, unread: SUBSET Nat,
                    todo: SUBSET Nat, ids: SUBSET Derivations]
    <3>1. drill \in [pc: Rebuilding \cup Comparing \cup {"off"}, at: Targets, compared: BOOLEAN,
                     running: Derivations, snapshot: [Targets -> SUBSET Nat],
                     failed: SUBSET Targets, down: SUBSET Targets, unread: SUBSET Nat,
                     todo: SUBSET Nat, ids: SUBSET Derivations]
      BY <1>1 DEF DrillInv0
    <3> QED BY <2>7, <2>8, <3>1
  <2>4. drill.pc \notin Comparing
    BY DEF Comparing
  <2>5. \A t \in Targets : report[t] = "none"
    BY <1>1, <2>4 DEF DrillInv0
  <2> QED BY <1>1, <1>2, <1>4, <2>3, <2>5, <2>6 DEF DrillInv0
<1>6. KeptInv' /\ FailedInv'
  <2>1. replica.entries \subseteq replica'.entries /\ lost' = lost
    BY <1>1, WhatArrives
  <2>2. KeptInv'
    BY <1>1, <1>4, <2>1 DEF KeptInv
  <2>3. FailedInv'
    BY <1>1, <1>2, <1>4, <2>1 DEF FailedInv, Unread
  <2> QED BY <2>2, <2>3
<1>7. \A t \in Targets : Finished(t)' => t = a \/ (Finished(t) /\ t # a)
  <2>1. ASSUME NEW t \in Targets, Finished(t)' PROVE t = a \/ (t < a /\ t # a)
    <3>1. CASE more
      <4>1. t < a + 1
        BY <1>4, <2>1, <3>1 DEF Finished, Comparing
      <4> QED BY <1>4, <4>1, TargetsAre
    <3>2. CASE ~more
      <4>1. t <= a /\ t \in Nat /\ a \in Nat
        BY <1>4, <3>2, TargetsAre
      <4> QED BY <4>1
    <3> QED BY <3>1, <3>2
  <2> QED BY <2>1 DEF Finished, Rebuilding
<1> HIDE DEF more
<1>8. ASSUME NEW t \in Targets, Finished(t)'
      PROVE  Owed(t)'
  <2>1. CASE t # a
    <3>1. Finished(t) /\ t # a
      BY <1>7, <1>8, <2>1
    <3>2. /\ scratch.invalid \subseteq scratch'.invalid
          /\ \A c \in scratch'.invalid \ scratch.invalid : Target[RunOf(c)] = drill.at
          /\ \A r \in scratch.processed : Target[r] # drill.at => r \in scratch'.processed
          /\ \A p, d : HasRow(scratch, p, d) => HasRow(scratch', p, d)
          /\ scratch.occurrences \subseteq scratch'.occurrences
      OBVIOUS
    <3>3. drill'.snapshot[t] = drill.snapshot[t] /\ drill'.running = drill.running
          /\ drill.failed \subseteq drill'.failed /\ drill.down \subseteq drill'.down
      BY <1>4
    <3> QED BY <3>1, <3>2, <3>3, FinishedStays
  <2>2. CASE t = a
    <3>1. \A c : Shown(c)' = Shown(c) /\ IsLatest(c)' = IsLatest(c)
      BY <1>2, <1>4 DEF Shown, HasRow, IsLatest
    <3>2. ~Broken(t)' => ~Broken(t) /\ drill.pc = "replay" /\ drill.todo = {}
      BY <1>4, <2>2 DEF Broken
    <3>3. ASSUME lost' = {}, ~Broken(t)', NEW c \in drill'.snapshot[t] \ scratch'.invalid
          PROVE  Shown(c)
      BY <1>1, <1>2, <1>4, <2>2, <3>3, <3>2 DEF ShownInv
    <3>4. ASSUME lost' = {}, ~Broken(t)',
                 NEW m \in drill'.snapshot[t] \ scratch'.invalid, IsLatest(m)
          PROVE  \E o \in scratch'.occurrences : o[3] = m
      BY <1>1, <1>4, <2>2, <3>4, <3>2 DEF LatestInv
    <3> QED BY <3>1, <3>3, <3>4 DEF Owed
  <2> QED BY <2>1, <2>2
<1>9. ShownInv'
  BY <1>4, <1>8 DEF ShownInv, Owed
<1>10. LatestInv'
  BY <1>4, <1>8 DEF LatestInv, Owed
<1> QED BY <1>2, <1>5, <1>6, <1>9, <1>10 DEF DrillInv

LEMMA RebuiltTargetStep == ASSUME DrillInv, RebuiltTarget PROVE DrillInv'
<1>1. drill = [drill EXCEPT !.down = drill.down] /\ drill.down \in SUBSET Targets
  BY DEF DrillInv, DrillInv0
<1>2. drill' = [drill EXCEPT !.down = drill.down, !.todo = {},
               !.pc = IF drill.at + 1 \in Targets THEN "snapshot" ELSE "ids",
               !.at = IF drill.at + 1 \in Targets THEN drill.at + 1 ELSE 1]
  BY <1>1 DEF RebuiltTarget, Done, DrillInv, DrillInv0
<1>3. /\ drill.pc = "replay" /\ drill.todo = {}
      /\ replica' = Arrived(drill.at)
      /\ UNCHANGED <<captures, lost, decisions, deployed, live, scratch, report>>
  BY DEF RebuiltTarget
<1> QED BY <1>1, <1>2, <1>3, DoneStep

LEMMA RebuildStoppedStep == ASSUME DrillInv, RebuildStopped PROVE DrillInv'
<1> DEFINE D == drill.down \cup {drill.at}
<1>1. D \in SUBSET Targets /\ drill.down \subseteq D /\ drill.at \in D
  BY DEF DrillInv, DrillInv0
<1>2. drill' = [drill EXCEPT !.down = D, !.todo = {},
               !.pc = IF drill.at + 1 \in Targets THEN "snapshot" ELSE "ids",
               !.at = IF drill.at + 1 \in Targets THEN drill.at + 1 ELSE 1]
  BY DEF RebuildStopped, Done, DrillInv, DrillInv0
<1>3. /\ drill.pc \in {"reconcile", "pending", "process", "replay"}
      /\ replica' = Arrived(drill.at)
      /\ UNCHANGED <<captures, lost, decisions, deployed, live, scratch, report>>
  BY DEF RebuildStopped
<1> HIDE DEF D
<1> QED BY <1>1, <1>2, <1>3, DoneStep

LEMMA CompareStep ==
    ASSUME DrillInv, CompareIds \/ CompareRows \/ CompareNothing
    PROVE  DrillInv'
<1> DEFINE a == drill.at
           Drills == [pc: Rebuilding \cup Comparing \cup {"off"}, at: Targets, compared: BOOLEAN,
                      running: Derivations, snapshot: [Targets -> SUBSET Nat],
                      failed: SUBSET Targets, down: SUBSET Targets, unread: SUBSET Nat,
                      todo: SUBSET Nat, ids: SUBSET Derivations]
<1>1. LogInv /\ StoreInv(live) /\ StoreInv(scratch) /\ DrillInv0
  BY DEF DrillInv
<1>2. drill \in Drills /\ report \in [Targets -> {"none", "ok", "failed", "crashed"}]
      /\ a \in Targets
  BY <1>1 DEF DrillInv0
<1>3. /\ UNCHANGED <<captures, replica, lost, decisions, deployed, live, scratch>>
      /\ drill.pc \in {"ids", "rows"} /\ drill'.pc \in {"ids", "rows", "done"}
      /\ drill' \in Drills
      /\ drill'.snapshot = drill.snapshot
      /\ drill'.failed = drill.failed /\ drill'.unread = drill.unread
      /\ drill'.down = drill.down /\ drill'.todo = drill.todo /\ drill'.running = drill.running
      /\ report' \in [Targets -> {"none", "ok", "failed", "crashed"}]
      /\ \A t \in Targets : report'[t] = "ok" =>
            report[t] = "ok" \/ t \notin drill.failed \cup drill.down
  <2>1. CASE CompareIds
    <3>1. {v.derivation : v \in Compared(a)} \in SUBSET Derivations
      BY <1>1 DEF Compared, OwnRows, StoreInv, Store, Version
    <3> QED BY <1>2, <2>1, <3>1 DEF CompareIds, Comparing
  <2>2. CASE CompareRows
    <3>1. PICK last \in BOOLEAN, x \in {"ok", "failed", "crashed"} :
             /\ last \/ a + 1 \in Targets
             /\ report' = [report EXCEPT ![a] = x]
             /\ x = "ok" => a \notin drill.failed \cup drill.down
             /\ drill' = [drill EXCEPT !.pc = IF last THEN "done" ELSE "ids",
                             !.at = IF last THEN @ ELSE @ + 1, !.ids = {}, !.compared = last]
      BY <2>2 DEF CompareRows, Passes
    <3>2. /\ UNCHANGED <<captures, replica, lost, decisions, deployed, live, scratch>>
          /\ drill.pc = "rows"
      BY <2>2 DEF CompareRows
    <3>3. report' \in [Targets -> {"none", "ok", "failed", "crashed"}]
      BY <1>2, <3>1
    <3>4. \A t \in Targets : report'[t] = "ok" =>
              report[t] = "ok" \/ t \notin drill.failed \cup drill.down
      BY <1>2, <3>1
    <3>5. CASE last
      <4>1. drill' = [drill EXCEPT !.pc = "done", !.ids = {}, !.compared = TRUE]
        BY <1>2, <3>1, <3>5
      <4> QED BY <1>2, <3>2, <3>3, <3>4, <4>1 DEF Comparing
    <3>6. CASE ~last
      <4>1. drill' = [drill EXCEPT !.pc = "ids", !.at = a + 1, !.ids = {}, !.compared = FALSE]
            /\ a + 1 \in Targets
        BY <1>2, <3>1, <3>6
      <4> QED BY <1>2, <3>2, <3>3, <3>4, <4>1 DEF Comparing
    <3> QED BY <3>5, <3>6
  <2>3. CASE CompareNothing
    <3>1. /\ drill.pc = "ids" /\ drill' = [drill EXCEPT !.pc = "done"]
          /\ report' = [t \in Targets |-> IF t \in drill.failed \cup drill.down THEN "failed" ELSE "ok"]
          /\ UNCHANGED <<captures, replica, lost, decisions, deployed, live, scratch>>
      BY <2>3 DEF CompareNothing
    <3> QED BY <1>2, <3>1 DEF Comparing
  <2> QED BY <2>1, <2>2, <2>3
<1> HIDE DEF Drills
<1>4. \A c : RunOf(c)' = RunOf(c) /\ Doc(c)' = Doc(c)
  BY <1>3 DEF RunOf, Doc
<1>5. drill.pc \in Comparing /\ drill'.pc \in Comparing
      /\ drill.pc \notin {"pending", "process", "replay"}
      /\ drill'.pc \notin {"off", "process"}
  BY <1>3 DEF Comparing
<1>6. DrillInv0'
  BY <1>1, <1>3, <1>4, <1>5 DEF DrillInv0, Drills
<1> QED BY <1>3, <1>5, <1>6, ComparingStays

LEMMA DrillStep ==
    ASSUME DrillInv, [Next]_vars
    PROVE  DrillInv'
<1>1. CASE UNCHANGED vars
  <2>1. UNCHANGED drillVars /\ lost' = lost /\ replica' = replica
    BY <1>1 DEF vars, drillVars
  <2>2. LogInv' /\ StoreInv(live)' /\ NamedInv' /\ StoreInv(scratch)'
    <3>1. UNCHANGED <<captures, replica, lost, decisions, deployed, live, scratch>>
      BY <1>1 DEF vars
    <3> QED BY <3>1, TablesStay DEF DrillInv
  <2> QED BY <2>1, <2>2, DrillUndisturbed DEF DrillInv
<1>2. CASE /\ drill.pc = "off"
           /\ \E r \in Runs, p \in Payloads, acked \in BOOLEAN : p \in Serves[r] /\ Capture(r, p, acked)
  BY <1>2, CaptureStep
<1>3. CASE LiveNext
  BY <1>3, LiveStep
<1>4. CASE ReplicaNext
  BY <1>4, ReplicaStep
<1>5. CASE Lose(NextOf(drill.todo))
  BY <1>5, LoseStep
<1>6. CASE \E recent \in Recent : RebuildPending(recent)
  <2>1. PICK recent \in Recent : RebuildPending(recent)
    BY <1>6
  <2>2. recent \in SUBSET RunsOf(drill.at)
    BY <2>1 DEF Recent
  <2> QED BY <2>1, <2>2, RebuildPendingStep
<1>7. CASE DrillNext
  BY <1>6, <1>7, StartStep, SnapshotStep, RebuildNewestStep, RebuildHistoryStep, RebuildOneStep,
     RebuiltTargetStep, RebuildStoppedStep, DryRunStep, CompareStep DEF DrillNext
<1> QED BY <1>1, <1>2, <1>3, <1>4, <1>5, <1>7 DEF Next

------------------------------------------------------------------------------
(* The theorems.                                                           *)

\* At any moment of a drill: the listing that the rebuild works from stays in
\* the replica unless an entry is lost, a target that failed has a document that
\* does not map or one it could not read, a target that was rebuilt shows every
\* valid capture of its listing, and the latest of each run has its occurrence
\* (_rebuild_target).
THEOREM DrillInvariant == Spec => []DrillInv
<1> QED BY DrillInit, DrillStep, PTL DEF Spec

\* Both stores stay sound: a version has its occurrence, a processed run names
\* a capture and has begun, no table names a decision that Bronze does not have.
THEOREM DrillTypeOK == Spec => []TypeOK
<1>1. DrillInv => TypeOK
  <2> SUFFICES ASSUME DrillInv PROVE TypeOK
    OBVIOUS
  <2>1. ASSUME NEW s, StoreInv(s)
        PROVE  /\ \A v \in s.rows : <<v.payload, v.derivation, v.capture>> \in s.occurrences
               /\ \A r \in s.processed : s.names[r] # 0 /\ s.began[r] # 0
               /\ s.invalid \subseteq decisions
    <3>1. s.processed \subseteq Runs
      BY <2>1 DEF StoreInv, Store
    <3> QED BY <2>1, <3>1 DEF StoreInv
  <2> QED BY <2>1 DEF TypeOK, DrillInv, LogInv, DrillInv0
<1> QED BY <1>1, DrillInvariant, PTL

\* The version with the greatest rank of a pair that is compared.
LEMMA SomeIsNewest ==
    ASSUME StoreInv(live), NEW t \in Targets, NEW v \in Compared(t)
    PROVE  \E w \in NewestOf(Compared(t)) : w.payload = v.payload
<1> DEFINE S == {u \in Compared(t) : u.payload = v.payload}
           K == {RankOf(u.derivation) : u \in S}
           n == Len(live.registered)
<1>1. n \in Nat /\ DOMAIN live.registered = 1 .. n
  BY DEF StoreInv, Store
<1>2. ASSUME NEW u \in S PROVE RankOf(u.derivation) \in 1 .. n
  <2>1. u \in live.rows
    BY DEF Compared, OwnRows
  <2>2. \E i \in DOMAIN live.registered : live.registered[i] = u.derivation
    BY <2>1 DEF StoreInv
  <2> QED BY <1>1, <2>2 DEF RankOf
<1>3. K \in SUBSET (0 .. n) /\ K # {}
  BY <1>1, <1>2
<1> HIDE DEF K
<1>4. PICK m \in K : \A k \in K : k <= m
  BY <1>1, <1>3, GreatestNumber
<1>5. PICK w \in S : m = RankOf(w.derivation)
  BY DEF K
<1>6. \A u \in S : RankOf(u.derivation) <= RankOf(w.derivation)
  BY <1>4, <1>5 DEF K
<1> QED BY <1>5, <1>6 DEF NewestOf

\* A report is written by the comparison alone, or for every target at once.
LEMMA ReportedBy ==
    ASSUME DrillInv, [Next]_vars, NEW t \in Targets, report[t] = "none", report'[t] # "none"
    PROVE  \/ CompareRows /\ t = drill.at
           \/ CompareNothing
           \/ DryRun
<1>1. report' # report
  OBVIOUS
<1>2. ~LiveNext /\ ~ReplicaNext /\ ~Lose(NextOf(drill.todo))
  BY <1>1 DEF LiveNext, Process, Replay, Release, Invalidate, ReplicaNext, Replicate, Lose
<1>3. ~UNCHANGED vars /\ ~\E r \in Runs, p \in Payloads, acked \in BOOLEAN :
                             p \in Serves[r] /\ Capture(r, p, acked)
  BY <1>1 DEF vars, Capture
<1>4. CompareRows \/ CompareNothing \/ DryRun
  BY <1>1, <1>2, <1>3 DEF Next, DrillNext, Start, Snapshot, RebuildNewest, RebuildPending,
     RebuildHistory, RebuildOne, RebuiltTarget, RebuildStopped, CompareIds
<1>5. CompareRows => t = drill.at
  BY DEF CompareRows, DrillInv, DrillInv0
<1> QED BY <1>4, <1>5

\* A lost entry is not passed over (_compare_rows, _within): the versions that
\* the bound reaches are all compared, whatever the replica still has.
THEOREM LossStaysReported == Spec => LossIsReported
<1>1. ASSUME DrillInv, [Next]_vars, NEW t \in Targets,
             report[t] = "none", report'[t] = "ok", drill.pc = "rows",
             NEW c \in lost, NEW v \in OwnRows(live, t),
             v.payload = Doc(c), v.capture <= Bound(t)
      PROVE  \E u \in scratch.rows : u.payload = Doc(c)
  <2>1. CompareRows /\ t = drill.at
    <3>1. (CompareRows /\ t = drill.at) \/ CompareNothing \/ DryRun
      BY <1>1, ReportedBy
    <3> QED BY <1>1, <3>1 DEF CompareNothing, DryRun
  <2>2. Unmatched(t) = {}
    <3>1. Passes(t)
      BY <1>1, <2>1 DEF CompareRows, DrillInv, DrillInv0
    <3> QED BY <3>1 DEF Passes
  <2>3. v \in Compared(t)
    BY <1>1 DEF Compared
  <2>4. PICK w \in NewestOf(Compared(t)) : w.payload = v.payload
    BY <1>1, <2>3, SomeIsNewest DEF DrillInv
  <2>5. PICK u \in scratch.rows : Fingerprint(u) = Fingerprint(w)
    BY <2>2 DEF Unmatched
  <2>6. u.payload = w.payload
    BY <2>5 DEF Fingerprint
  <2> QED BY <1>1, <2>4, <2>6
<1>2. DrillInv /\ [Next]_vars =>
        [\A t \in Targets : report[t] = "none" /\ report'[t] = "ok" /\ drill.pc = "rows" =>
          \A c \in lost, v \in OwnRows(live, t) :
            (/\ <<Doc(c), v.derivation, c>> \in live.occurrences /\ v.payload = Doc(c)
             /\ v.capture <= Bound(t))
            => \E u \in scratch.rows : u.payload = Doc(c)]_vars
  BY <1>1
<1> QED BY <1>2, DrillInvariant, PTL DEF Spec, LossIsReported

\* The newest capture of what the drill listed.
LEMMA BoundIsThere ==
    ASSUME DrillInv, NEW t \in Targets, drill.snapshot[t] # {}
    PROVE  Bound(t) \in drill.snapshot[t] /\ Bound(t) \in Nat \ {0}
<1>1. Len(captures) \in Nat /\ DOMAIN captures = 1 .. Len(captures)
  BY DEF DrillInv, LogInv
<1>2. drill.snapshot[t] \in SUBSET (1 .. Len(captures))
  BY <1>1 DEF DrillInv, DrillInv0
<1>3. Newest(drill.snapshot[t]) \in drill.snapshot[t]
  BY <1>1, <1>2, NewestIsThere
<1> QED BY <1>1, <1>2, <1>3 DEF Bound

\* Without a cause, a valid live capture up to the bound was rebuilt.
LEMMA ListedIsShown ==
    ASSUME DrillInv, drill.pc \in Comparing, NEW t \in Targets, ~Cause(t), t \notin drill.failed,
           NEW c \in DOMAIN captures, Target[RunOf(c)] = t, c <= Bound(t), c \notin live.invalid
    PROVE  Shown(c)
<1>1. /\ lost = {} /\ t \notin drill.down /\ drill.snapshot[t] # {}
      /\ c \in drill.snapshot[t] \/ ~(c < Bound(t))
      /\ c \notin scratch.invalid
  BY DEF Cause
<1>2. ~Broken(t)
  BY <1>1 DEF Broken, Comparing
<1>3. c \in drill.snapshot[t]
  <2>1. Bound(t) \in drill.snapshot[t] /\ Bound(t) \in Nat
    BY <1>1, BoundIsThere
  <2>2. c \in Nat
    BY CaptureType DEF DrillInv
  <2> QED BY <1>1, <2>1, <2>2
<1>4. Finished(t)
  BY DEF Finished
<1> QED BY <1>1, <1>2, <1>3, <1>4 DEF DrillInv, ShownInv

\* A target fails for one of the named causes, lags in a run that is misdated,
\* or could not read a capture it had listed (process_one, _compare_target):
\* what live captures, processes, replays or invalidates while the drill runs
\* fails none.
THEOREM FailuresHaveCauses == Spec => FailureHasACause
<1>1. ASSUME DrillInv, [Next]_vars, NEW t \in Targets, report[t] = "none", report'[t] = "failed",
             ~Cause(t), ~Misdated(t), ~Unread(t)
      PROVE  FALSE
  <2>1. /\ lost = {} /\ t \notin drill.down /\ drill.snapshot[t] # {}
        /\ \A c \in replica.entries : Doc(c) \notin Unmappable
    BY <1>1 DEF Cause
  <2>2. t \notin drill.failed
    BY <1>1, <2>1 DEF DrillInv, FailedInv
  <2>3. CompareRows /\ t = drill.at
    <3>1. (CompareRows /\ t = drill.at) \/ CompareNothing \/ DryRun
      BY <1>1, ReportedBy
    <3> QED BY <1>1, <2>1, <2>2, <3>1 DEF CompareNothing, DryRun
  <2>4. drill.pc \in Comparing
    BY <2>3 DEF CompareRows, Comparing
  <2>5. Bound(t) \in drill.snapshot[t] /\ Bound(t) \in Nat \ {0}
    BY <1>1, <2>1, BoundIsThere
  <2>6. ASSUME NEW r \in ProcessedExpected(t) PROVE r \in RunsOf(t) \cap scratch.processed
    <3> DEFINE c == live.names[r]
    <3>1. /\ r \in Runs /\ Target[r] = t /\ r \in live.processed
          /\ c \notin live.invalid /\ Expected(t, r)
      BY DEF ProcessedExpected, RunsOf
    <3>2. c # 0 /\ c \in DOMAIN captures /\ RunOf(c) = r
      BY <1>1, <3>1 DEF DrillInv, StoreInv
    <3>3. c \in Nat
      BY <1>1, <3>2, CaptureType DEF DrillInv
    <3>4. c <= Bound(t)
      <4>1. CASE c \in drill.snapshot[t]
        <5>1. Len(captures) \in Nat /\ DOMAIN captures = 1 .. Len(captures)
          BY <1>1 DEF DrillInv, LogInv
        <5>2. drill.snapshot[t] \in SUBSET (1 .. Len(captures))
          BY <1>1, <5>1 DEF DrillInv, DrillInv0
        <5>3. c <= Newest(drill.snapshot[t])
          BY <2>1, <4>1, <5>1, <5>2, NewestIsThere
        <5> QED BY <2>1, <5>3 DEF Bound
      <4>2. CASE captures[c].acked /\ c < Bound(t)
        BY <2>5, <3>3, <4>2
      <4>3. CASE ~captures[c].acked /\ live.began[r] < Bound(t)
        <5>1. ~(c > Bound(t))
          BY <1>1, <3>1, <4>3 DEF Misdated, RunsOf
        <5> QED BY <2>5, <3>3, <5>1
      <4> QED BY <2>5, <3>1, <4>1, <4>2, <4>3 DEF Expected
    <3>5. Shown(c)
      BY <1>1, <2>2, <2>4, <3>1, <3>2, <3>4, ListedIsShown
    <3> QED BY <3>1, <3>2, <3>5 DEF Shown, RunsOf
  <2>7. Cardinality(RunsOf(t) \cap scratch.processed) >= Cardinality(ProcessedExpected(t))
    <3>1. IsFiniteSet(RunsOf(t) \cap scratch.processed)
      <4>1. RunsOf(t) \cap scratch.processed \subseteq Runs
        BY DEF RunsOf
      <4> QED BY <4>1, FS_Subset
    <3>2. ProcessedExpected(t) \subseteq RunsOf(t) \cap scratch.processed
      BY <2>6
    <3>3. /\ Cardinality(ProcessedExpected(t)) <= Cardinality(RunsOf(t) \cap scratch.processed)
          /\ IsFiniteSet(ProcessedExpected(t))
      BY <3>1, <3>2, FS_Subset
    <3> QED BY <3>1, <3>3, FS_CardinalityType
  <2>8. ASSUME NEW v \in NewestOf(Compared(t))
        PROVE  \E u \in scratch.rows : Fingerprint(u) = Fingerprint(v)
    <3>1. /\ v \in live.rows /\ Target[RunOf(v.capture)] = t /\ v.capture \notin live.invalid
          /\ v.capture <= Bound(t)
      BY <2>5 DEF NewestOf, Compared, OwnRows
    <3>2. v.capture \in DOMAIN captures /\ Doc(v.capture) = v.payload
      <4>1. <<v.payload, v.derivation, v.capture>> \in live.occurrences
        BY <1>1, <3>1 DEF DrillInv, StoreInv
      <4>2. \A o \in live.occurrences : o[3] \in DOMAIN captures /\ Doc(o[3]) = o[1]
        BY <1>1 DEF DrillInv, StoreInv
      <4> QED BY <4>1, <4>2
    <3>3. Shown(v.capture)
      BY <1>1, <2>2, <2>4, <3>1, <3>2, ListedIsShown
    <3>4. PICK u \in scratch.rows : u.payload = v.payload /\ u.derivation = drill.running
      BY <3>2, <3>3 DEF Shown, HasRow
    <3>5. Fingerprint(v) = <<v.payload, Value[drill.running][v.payload]>>
      BY <1>1, <3>1 DEF Cause
    <3>6. Fingerprint(u) = Fingerprint(v)
      BY <3>4, <3>5 DEF Fingerprint
    <3> QED BY <3>6
  <2>9. Passes(t)
    BY <2>1, <2>2, <2>7, <2>8 DEF Passes, Unmatched
  <2> QED BY <1>1, <2>3, <2>9 DEF CompareRows, DrillInv, DrillInv0
<1>2. DrillInv /\ [Next]_vars =>
        [\A t \in Targets : report[t] = "none" /\ report'[t] = "failed"
            => Cause(t) \/ Misdated(t) \/ Unread(t)]_vars
  BY <1>1
<1> QED BY <1>2, DrillInvariant, PTL DEF Spec, FailureHasACause

\* A store that has the occurrence of the latest valid capture of all shows its
\* document as current, and no other.
LEMMA LatestIsCurrent ==
    ASSUME LogInv, NEW s, StoreInv(s), s.invalid = decisions,
           NEW m \in DOMAIN captures, m \notin decisions,
           \A e \in DOMAIN captures : e \notin decisions => e <= m,
           \E o \in s.occurrences : o[3] = m
    PROVE  CurrentDoc(s) = {Doc(m)}
<1> DEFINE O == {o \in s.occurrences : o[3] \notin s.invalid}
           T == {o \in O : \A n \in O : n[3] <= o[3]}
<1>1. \A o \in O : o[3] \in DOMAIN captures /\ o[3] \in Nat /\ o[3] <= m /\ Doc(o[3]) = o[1]
  <2>1. \A o \in s.occurrences : o[3] \in DOMAIN captures /\ Doc(o[3]) = o[1]
    BY DEF StoreInv
  <2>2. \A c \in DOMAIN captures : c \in Nat
    BY CaptureType
  <2> QED BY <2>1, <2>2
<1>2. PICK x \in O : x[3] = m
  OBVIOUS
<1>3. m \in Nat
  BY CaptureType
<1> HIDE DEF O
<1>4. x \in T
  BY <1>1, <1>2
<1>5. \A o \in T : o[3] = m
  BY <1>1, <1>2, <1>3
<1>6. \A o \in T : o[1] = Doc(m)
  BY <1>1, <1>5
<1>7. {o[1] : o \in T} = {Doc(m)}
  <2> HIDE DEF T
  <2> QED BY <1>4, <1>6
<1> QED BY <1>7 DEF CurrentDoc, O

\* When nothing is valid, nothing is current.
LEMMA NothingIsCurrent ==
    ASSUME NEW s, StoreInv(s), s.invalid = decisions, DOMAIN captures \subseteq decisions
    PROVE  CurrentDoc(s) = {}
<1>1. \A o \in s.occurrences : o[3] \in s.invalid
  BY DEF StoreInv
<1> QED BY <1>1 DEF CurrentDoc

\* A drill that passed has restored the view (current_observations): the scratch
\* store shows as current the document that live shows.
THEOREM RestoredViewsAgree == Spec => []RestoredViewAgrees
<1>1. ASSUME DrillInv, drill.compared, drill.pc = "done", \A t \in Targets : report[t] = "ok",
             lost = {}, UNION {drill.snapshot[t] : t \in Targets} = DOMAIN captures,
             live.invalid = decisions, scratch.invalid = decisions,
             \A r \in Runs : LET V == EntriesOf(DOMAIN captures, r) IN
               V = {} \/ (V \ decisions # {} /\ live.names[r] = Newest(V \ decisions))
      PROVE  CurrentDoc(scratch) = CurrentDoc(live)
  <2> DEFINE W == DOMAIN captures \ decisions
  <2>1. LogInv /\ StoreInv(live) /\ StoreInv(scratch) /\ DrillInv0 /\ LatestInv /\ NamedInv
    BY <1>1 DEF DrillInv
  <2>2. CASE W = {}
    <3>1. DOMAIN captures \subseteq decisions
      BY <2>2
    <3> QED BY <1>1, <2>1, <3>1, NothingIsCurrent
  <2>3. CASE W # {}
    <3>1. Len(captures) \in Nat /\ DOMAIN captures = 1 .. Len(captures)
      BY <2>1 DEF LogInv
    <3>2. PICK m \in W : \A e \in W : e <= m
      <4>1. W \in SUBSET (0 .. Len(captures))
        BY <3>1
      <4> HIDE DEF W
      <4> QED BY <2>3, <3>1, <4>1, GreatestNumber
    <3> DEFINE r == RunOf(m)
               V == EntriesOf(DOMAIN captures, r)
    <3>3. /\ m \in DOMAIN captures /\ m \notin decisions /\ r \in Runs
          /\ \A e \in DOMAIN captures : e \notin decisions => e <= m
      BY <2>1, <3>2, CaptureType
    <3>4. \E o \in scratch.occurrences : o[3] = m
      <4>1. PICK t \in Targets : m \in drill.snapshot[t]
        BY <1>1, <3>3
      <4>2. ~Broken(t)
        BY <1>1, <2>1 DEF DrillInv0, Broken
      <4>3. IsLatest(m)
        BY <1>1, <3>1, <3>3 DEF IsLatest
      <4>4. Finished(t) /\ drill.pc # "process"
        BY <1>1 DEF Finished, Comparing
      <4> QED BY <1>1, <2>1, <3>3, <4>1, <4>2, <4>3, <4>4 DEF LatestInv
    <3>5. Doc(m) \notin Unmappable
      <4>1. \A o \in scratch.occurrences : Doc(o[3]) = o[1] /\ o[1] \notin Unmappable
        BY <2>1 DEF StoreInv
      <4> QED BY <3>4, <4>1
    <3>6. live.names[r] = m
      <4>1. m \in V \ decisions
        BY <3>3 DEF EntriesOf
      <4>2. live.names[r] = Newest(V \ decisions)
        BY <1>1, <3>3, <4>1
      <4>3. V \ decisions \in SUBSET (1 .. Len(captures))
        BY <3>1 DEF EntriesOf
      <4> HIDE DEF V, r
      <4>4. Newest(V \ decisions) \in V \ decisions /\ m <= Newest(V \ decisions)
        BY <3>1, <4>1, <4>3, NewestIsThere
      <4>5. Newest(V \ decisions) \in Nat /\ Newest(V \ decisions) <= m
        BY <3>1, <3>3, <4>3, <4>4
      <4> QED BY <3>1, <3>3, <4>2, <4>4, <4>5
    <3>7. \E o \in live.occurrences : o[3] = m
      <4>1. m # 0
        BY <3>1, <3>3
      <4>2. \A q \in Runs : live.names[q] # 0 /\ live.names[q] \notin live.invalid
                              /\ Doc(live.names[q]) \notin Unmappable
               => \E o \in live.occurrences : o[3] = live.names[q]
        BY <2>1 DEF NamedInv, Named
      <4>3. m \notin live.invalid
        BY <1>1, <3>3
      <4> HIDE DEF r
      <4> QED BY <3>3, <3>5, <3>6, <4>1, <4>2, <4>3
    <3>8. CurrentDoc(scratch) = {Doc(m)}
      BY <1>1, <2>1, <3>3, <3>4, LatestIsCurrent
    <3>9. CurrentDoc(live) = {Doc(m)}
      BY <1>1, <2>1, <3>3, <3>7, LatestIsCurrent
    <3> QED BY <3>8, <3>9
  <2> QED BY <2>2, <2>3
<1>2. DrillInv => RestoredViewAgrees
  BY <1>1 DEF RestoredViewAgrees
<1> QED BY <1>2, DrillInvariant, PTL
==============================================================================
