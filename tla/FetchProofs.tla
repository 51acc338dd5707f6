----------------------------- MODULE FetchProofs -----------------------------
(***************************************************************************)
(* What Fetch promises about a pod's egress, for every set of hosts, URLs  *)
(* and addresses, any number of redirects and attempts, and any gate that  *)
(* asks for more rounds in a row than there are connects that fail by      *)
(* accident.                                                               *)
(***************************************************************************)
EXTENDS Fetch, TLAPS

\* Steps of the fetcher that follow a checked URL, and a checked address.
AfterCheck == {"resolve", "acquire", "send", "peer", "done"}
AfterResolve == {"acquire", "send", "peer", "done"}

\* While the gate's loop runs the pod does nothing else, and the count is not
\* yet reached.
LoopInv ==
    /\ gate.pc # "over" => f.pc = "gate" /\ gate.blocked < BlockedInARow
    /\ f.pc = "gate" => gate.pc # "over"

\* The gate's counter never runs ahead of the accidents while the policy is not
\* in force: every round it counted cost a connect to an open destination.
GateInv ==
    /\ ~net.policy => gate.blocked <= net.glitches
    /\ f.pc \notin {"gate", "closed"} => net.policy

\* The URL and the addresses in hand are the ones that were checked, for this
\* hop; a new hop goes through both checks again.
EgressInv ==
    /\ f.pc \in AfterCheck => CheckUrl(f.url)
    /\ f.pc \in AfterResolve => f.resolved \cap Blocked = {}
    /\ f.pc = "done" => f.peer \in f.resolved
    /\ result.kind = "FetchResult" =>
          /\ f.pc = "done" /\ result.url = f.url /\ result.peer = f.peer
          /\ result.hops = f.hop

\* Before the first redirect the file is the run's own, or the page's.
DayInv ==
    /\ f.hop = 0 /\ ~f.discovering => f.url.file = Template.file
    /\ f.pc \in {"gate", "plan", "closed", "done"} => ~f.discovering

Inv == ControlTypeOK /\ LoopInv /\ EgressInv /\ DayInv

\* The smaller of two integers is one of them.
LEMMA MinOfTwo ==
  ASSUME NEW a \in Int, NEW b \in Int
  PROVE  Min({a, b}) \in {a, b} /\ Min({a, b}) <= a /\ Min({a, b}) <= b
  BY DEF Min

\* What the proofs need of the constants.
LEMMA ConstantFacts ==
  /\ Template \in Urls /\ DiscoveryUrl \in Urls
  /\ None \notin Addresses /\ Blocked \subseteq Addresses
  /\ Capacity \in Nat \ {0} /\ PerSeconds \in Nat \ {0}
  /\ Attempts \in Nat \ {0} /\ BlockedInARow \in Nat \ {0}
  /\ max_redirects \in Nat /\ BaseDelay \in Nat /\ CapDelay \in Nat
  /\ MaxRounds \in Nat /\ MaxGlitches \in Nat
  BY FetchAssumption

\* A pod starts in its init container.
LEMMA InitInv == Init => Inv
  <1> SUFFICES ASSUME Init PROVE Inv
    OBVIOUS
  <1>1. ControlTypeOK
    BY ConstantFacts DEF Init, ControlTypeOK, Locals, Ended, Statuses, None
  <1>2. LoopInv /\ EgressInv /\ DayInv
    BY ConstantFacts DEF Init, LoopInv, EgressInv, DayInv, AfterCheck, AfterResolve, None
  <1>3. QED
    BY <1>1, <1>2 DEF Inv

\* A step that leaves the fetcher and its result alone keeps what they have.
LEMMA FetcherIdle == EgressInv /\ DayInv /\ UNCHANGED <<f, result>> => EgressInv' /\ DayInv'
  BY DEF EgressInv, DayInv, CheckUrl, AfterCheck, AfterResolve

\* The policy arrives.
LEMMA PolicyAppliedInv == Inv /\ PolicyApplied => Inv'
  <1> SUFFICES ASSUME Inv, PolicyApplied PROVE Inv'
    OBVIOUS
  <1>1. ControlTypeOK'
    BY DEF Inv, ControlTypeOK, PolicyApplied
  <1>2. LoopInv'
    BY DEF Inv, LoopInv, PolicyApplied
  <1>3. QED
    BY <1>1, <1>2, FetcherIdle DEF Inv, PolicyApplied

\* How a connect counts.
LEMMA GlitchType ==
  ASSUME ControlTypeOK, NEW open \in BOOLEAN, NEW ok \in BOOLEAN, Connects(open, ok)
  PROVE  Glitch(open, ok) \in 0 .. MaxGlitches
  BY ConstantFacts DEF ControlTypeOK, Connects, Glitch

\* The first connect of a round.
LEMMA GateMetadataInv == ASSUME NEW ok \in BOOLEAN PROVE Inv /\ GateMetadata(ok) => Inv'
  <1> SUFFICES ASSUME Inv, GateMetadata(ok) PROVE Inv'
    OBVIOUS
  <1> DEFINE open == ~net.policy /\ ~net.node
  <1>1. Glitch(open, ok) \in 0 .. MaxGlitches
    BY GlitchType DEF Inv, GateMetadata
  <1>2. ControlTypeOK'
    BY <1>1 DEF Inv, ControlTypeOK, GateMetadata
  <1>3. LoopInv'
    BY DEF Inv, ControlTypeOK, LoopInv, GateMetadata
  <1>4. QED
    BY <1>2, <1>3, FetcherIdle DEF Inv, GateMetadata

\* The connect that must succeed.
LEMMA GateControlInv == ASSUME NEW ok \in BOOLEAN PROVE Inv /\ GateControl(ok) => Inv'
  <1> SUFFICES ASSUME Inv, GateControl(ok) PROVE Inv'
    OBVIOUS
  <1>1. Glitch(TRUE, ok) \in 0 .. MaxGlitches
    BY GlitchType DEF Inv, GateControl
  <1>2. (gate.denied /\ ok) \in BOOLEAN
    OBVIOUS
  <1>3. ControlTypeOK'
    BY <1>1, <1>2 DEF Inv, ControlTypeOK, GateControl
  <1>4. LoopInv'
    BY DEF Inv, ControlTypeOK, LoopInv, GateControl
  <1>5. QED
    BY <1>3, <1>4, FetcherIdle DEF Inv, GateControl

\* A pod that has not ended has no result yet.
LEMMA NoResultYet == ControlTypeOK /\ f.pc \notin Ended => result.kind = None
  BY DEF ControlTypeOK

\* The end of a round, and the closed gate.
LEMMA GateCanaryInv == ASSUME NEW ok \in BOOLEAN PROVE Inv /\ GateCanary(ok) => Inv'
  <1> SUFFICES ASSUME Inv, GateCanary(ok) PROVE Inv'
    OBVIOUS
  <1> DEFINE blocked == GateCount(gate.denied /\ ~ok)
             opens == blocked >= BlockedInARow
             closes == ~opens /\ GateTimesOut
  <1>1. Glitch(~net.policy, ok) \in 0 .. MaxGlitches
    BY GlitchType DEF Inv, GateCanary
  <1>2. f.pc = "gate" /\ gate.blocked \in Nat /\ gate.blocked < BlockedInARow
    BY DEF Inv, ControlTypeOK, LoopInv, GateCanary
  <1>3. blocked \in 0 .. BlockedInARow
    BY <1>2, ConstantFacts DEF GateCount
  <1>4. Min({gate.rounds + 1, MaxRounds}) \in 0 .. MaxRounds
    <2>1. gate.rounds + 1 \in Nat /\ MaxRounds \in Nat
      BY ConstantFacts DEF Inv, ControlTypeOK
    <2>2. Min({gate.rounds + 1, MaxRounds}) \in {gate.rounds + 1, MaxRounds}
          /\ Min({gate.rounds + 1, MaxRounds}) <= MaxRounds
      BY <2>1, MinOfTwo
    <2>3. QED
      BY <2>1, <2>2
  <1>5. /\ net' = [net EXCEPT !.glitches = Glitch(~net.policy, ok)]
        /\ gate' = [pc |-> IF opens \/ closes THEN "over" ELSE "metadata", denied |-> FALSE,
                    blocked |-> blocked, rounds |-> Min({gate.rounds + 1, MaxRounds})]
        /\ f' = [f EXCEPT !.pc = IF opens THEN "plan" ELSE IF closes THEN "closed" ELSE @]
        /\ result' = IF closes THEN [kind |-> "PolicyNotEnforced"] ELSE result
    BY DEF GateCanary
  <1> HIDE DEF blocked, closes
  <1>6. ControlTypeOK'
    <2>1. net' \in [policy: BOOLEAN, node: BOOLEAN, glitches: 0 .. MaxGlitches]
      BY <1>1, <1>5 DEF Inv, ControlTypeOK
    <2>2. gate' \in [pc: {"metadata", "control", "canary", "over"}, denied: BOOLEAN,
                     blocked: 0 .. BlockedInARow, rounds: 0 .. MaxRounds]
      BY <1>3, <1>4, <1>5
    <2>3. f \in Locals
      BY DEF Inv, ControlTypeOK
    <2>4. f' \in Locals /\ f'.pc = IF opens THEN "plan" ELSE IF closes THEN "closed" ELSE f.pc
      BY <1>5, <2>3 DEF Locals, Ended
    <2>5. result.kind = None
      BY <1>2, NoResultYet DEF Inv, Ended
    <2>6. opens => ~closes
      BY DEF closes
    <2>7. f'.pc \in Ended <=> result'.kind # None
      <3>1. CASE closes
        BY <1>5, <2>4, <2>6, <3>1 DEF Ended, None
      <3>2. CASE ~closes
        BY <1>2, <1>5, <2>4, <2>5, <3>2 DEF Ended
      <3>3. QED
        BY <3>1, <3>2
    <2>8. QED
      BY <1>5, <2>1, <2>2, <2>4, <2>7 DEF Inv, ControlTypeOK
  <1>7. LoopInv'
    BY <1>2, <1>3, <1>5, ConstantFacts DEF Inv, ControlTypeOK, Locals, LoopInv
  <1>8. EgressInv' /\ DayInv'
    BY <1>2, <1>5 DEF Inv, ControlTypeOK, Locals, EgressInv, DayInv, AfterCheck, AfterResolve, Ended, None
  <1>9. QED
    BY <1>6, <1>7, <1>8 DEF Inv

\* A step of the fetcher from one place to another keeps the types.
LEMMA StepType ==
  ASSUME ControlTypeOK, f.pc \notin Ended, f' \in Locals, f'.pc \notin Ended,
         UNCHANGED <<net, gate, result>>
  PROVE  ControlTypeOK'
  <1>1. result'.kind = None
    BY NoResultYet
  <1>2. QED
    BY <1>1 DEF ControlTypeOK

\* A step that is none of the gate's.
LEMMA StepLoop ==
  ASSUME LoopInv, f.pc # "gate", f'.pc # "gate", UNCHANGED gate
  PROVE  LoopInv'
  BY DEF LoopInv

\* The first request of a block.
LEMMA PlanInv == Inv /\ Plan => Inv'
  <1> SUFFICES ASSUME Inv, Plan PROVE Inv'
    OBVIOUS
  <1> USE DEF Ended
  <1>1. f \in Locals /\ f.pc = "plan" /\ ~f.discovering
    BY DEF Inv, ControlTypeOK, DayInv, Plan
  <1>2. PICK url \in Urls, method \in {"GET", "POST"}, conditional \in BOOLEAN :
           /\ f'.discovering => url = DiscoveryUrl
           /\ ~f'.discovering => url = Template
           /\ \/ f' = Request(url, method, conditional)
              \/ f' = [Request(url, method, conditional) EXCEPT !.discovering = TRUE]
    <2>1. CASE f.block = "soap_xml"
      <3>1. f' = Request(Template, "POST", FALSE)
        BY <2>1 DEF Plan
      <3>2. ~f'.discovering
        BY <1>1, <3>1 DEF Request, Locals
      <3>3. QED
        BY <3>1, <3>2, ConstantFacts
    <2>2. CASE f.block = "discovered_file"
      <3>1. f' = [Request(DiscoveryUrl, "GET", FALSE) EXCEPT !.discovering = TRUE]
        BY <2>2 DEF Plan
      <3>2. f'.discovering = TRUE
        BY <1>1, <3>1 DEF Request, Locals
      <3>3. QED
        BY <3>1, <3>2, ConstantFacts
    <2>3. CASE f.block \notin {"soap_xml", "discovered_file"}
      <3>1. f' = Request(Template, "GET", TRUE)
        BY <2>3 DEF Plan
      <3>2. ~f'.discovering
        BY <1>1, <3>1 DEF Request, Locals
      <3>3. QED
        BY <3>1, <3>2, ConstantFacts
    <2>4. QED
      BY <2>1, <2>2, <2>3
  <1>3. f' \in Locals /\ f'.pc = "check" /\ f'.url = url
    <2>1. 0 \in 0 .. max_redirects /\ 1 \in 1 .. Attempts
      BY ConstantFacts
    <2>2. CASE f' = Request(url, method, conditional)
      BY <1>1, <2>1, <2>2 DEF Request, Locals
    <2>3. CASE f' = [Request(url, method, conditional) EXCEPT !.discovering = TRUE]
      BY <1>1, <2>1, <2>3 DEF Request, Locals
    <2>4. QED
      BY <1>2, <2>2, <2>3
  <1>4. ControlTypeOK'
    BY <1>1, <1>3, StepType DEF Inv, ControlTypeOK, Plan
  <1>5. LoopInv'
    BY <1>1, <1>3, StepLoop DEF Inv, Plan
  <1>6. EgressInv'
    BY <1>1, <1>3, NoResultYet DEF Inv, EgressInv, AfterCheck, AfterResolve, Plan, None
  <1>7. DayInv'
    BY <1>2, <1>3 DEF DayInv
  <1>8. QED
    BY <1>4, <1>5, <1>6, <1>7 DEF Inv

\* A fetch that fails ends the pod's work.
LEMMA FailInv ==
  ASSUME Inv, NEW kind \in {"EgressError", "FetchFailed"}, Fail(kind),
         f.pc \notin {"gate"} \cup Ended, UNCHANGED <<net, gate>>
  PROVE  Inv'
  <1>1. ControlTypeOK'
    BY DEF Inv, ControlTypeOK, Locals, Fail, Ended, None
  <1>2. LoopInv'
    BY DEF Inv, ControlTypeOK, Locals, LoopInv, Fail
  <1>3. EgressInv' /\ DayInv'
    BY DEF Inv, ControlTypeOK, Locals, EgressInv, DayInv, AfterCheck, AfterResolve, Fail
  <1>4. QED
    BY <1>1, <1>2, <1>3 DEF Inv

\* check_url.
LEMMA CheckInv == Inv /\ Check => Inv'
  <1> SUFFICES ASSUME Inv, Check PROVE Inv'
    OBVIOUS
  <1> USE DEF Ended
  <1>1. f \in Locals /\ f.pc = "check"
    BY DEF Inv, ControlTypeOK, Check
  <1>2. CASE CheckUrl(f.url)
    <2>1. f' = [f EXCEPT !.pc = "resolve"] /\ UNCHANGED <<result, net, gate>>
      BY <1>2 DEF Check
    <2>2. /\ f' \in Locals /\ f'.pc = "resolve" /\ f'.url = f.url
          /\ f'.hop = f.hop /\ f'.discovering = f.discovering
      BY <1>1, <2>1 DEF Locals
    <2>3. ControlTypeOK' /\ LoopInv'
      BY <1>1, <2>1, <2>2, StepType, StepLoop DEF Inv, ControlTypeOK
    <2>4. CheckUrl(f.url)'
      BY <1>2, <2>2 DEF CheckUrl
    <2>5. EgressInv'
      BY <1>1, <2>1, <2>2, <2>4, NoResultYet DEF Inv, EgressInv, AfterCheck, AfterResolve, None
    <2>6. DayInv'
      BY <2>2 DEF Inv, DayInv
    <2>7. QED
      BY <2>3, <2>5, <2>6 DEF Inv
  <1>3. CASE ~CheckUrl(f.url)
    BY <1>1, <1>3, FailInv DEF Check, Inv, ControlTypeOK
  <1>4. QED
    BY <1>2, <1>3

\* check_addresses.
LEMMA ResolveInv == ASSUME NEW A \in SUBSET Addresses PROVE Inv /\ Resolve(A) => Inv'
  <1> SUFFICES ASSUME Inv, Resolve(A) PROVE Inv'
    OBVIOUS
  <1> USE DEF Ended
  <1>1. f \in Locals /\ f.pc = "resolve"
    BY DEF Inv, ControlTypeOK, Resolve
  <1>2. CASE A # {} /\ A \cap Blocked = {}
    <2>1. /\ f' = [f EXCEPT !.pc = "acquire", !.resolved = A]
          /\ UNCHANGED <<result, net, gate>>
      BY <1>2 DEF Resolve
    <2>2. /\ f' \in Locals /\ f'.pc = "acquire" /\ f'.url = f.url /\ f'.resolved = A
          /\ f'.hop = f.hop /\ f'.discovering = f.discovering
      BY <1>1, <2>1 DEF Locals
    <2>3. ControlTypeOK' /\ LoopInv'
      BY <1>1, <2>1, <2>2, StepType, StepLoop DEF Inv, ControlTypeOK
    <2>4. CheckUrl(f.url)'
      BY <1>1, <2>2 DEF Inv, EgressInv, AfterCheck, CheckUrl
    <2>5. EgressInv'
      BY <1>1, <1>2, <2>1, <2>2, <2>4, NoResultYet DEF Inv, EgressInv, AfterCheck, AfterResolve, None
    <2>6. DayInv'
      BY <2>2 DEF Inv, DayInv
    <2>7. QED
      BY <2>3, <2>5, <2>6 DEF Inv
  <1>3. CASE ~(A # {} /\ A \cap Blocked = {})
    BY <1>1, <1>3, FailInv DEF Resolve, Inv, ControlTypeOK
  <1>4. QED
    BY <1>2, <1>3

\* The rate limiter, which may be passed without one.
LEMMA AcquireInv == ASSUME NEW over \in 0 .. 1 PROVE Inv /\ Acquire(over) => Inv'
  <1> SUFFICES ASSUME Inv, Acquire(over) PROVE Inv'
    OBVIOUS
  <1> USE DEF Ended
  <1>1. f \in Locals /\ f.pc = "acquire"
    BY DEF Inv, ControlTypeOK, Acquire
  <1>2. f' = [f EXCEPT !.pc = "send"] /\ UNCHANGED <<result, net, gate>>
    BY DEF Acquire
  <1>3. /\ f' \in Locals /\ f'.pc = "send" /\ f'.url = f.url /\ f'.resolved = f.resolved
        /\ f'.hop = f.hop /\ f'.discovering = f.discovering
    BY <1>1, <1>2 DEF Locals
  <1>5. ControlTypeOK' /\ LoopInv'
    BY <1>1, <1>2, <1>3, StepType, StepLoop DEF Inv
  <1>6. CheckUrl(f.url)'
    BY <1>1, <1>3 DEF Inv, EgressInv, AfterCheck, CheckUrl
  <1>7. EgressInv'
    BY <1>1, <1>2, <1>3, <1>6, NoResultYet DEF Inv, EgressInv, AfterCheck, AfterResolve, None
  <1>8. DayInv'
    BY <1>3 DEF Inv, DayInv
  <1>9. QED
    BY <1>5, <1>7, <1>8 DEF Inv

\* A request that fails is sent again after its delay, or is the last one.
LEMMA SendFailsInv ==
  ASSUME NEW kind \in {"EgressError", "FetchFailed"} PROVE Inv /\ SendFails(kind) => Inv'
  <1> SUFFICES ASSUME Inv, SendFails(kind) PROVE Inv'
    OBVIOUS
  <1> USE DEF Ended
  <1>1. f \in Locals /\ f.pc = "send" /\ f.attempt \in 1 .. Attempts
    BY DEF Inv, ControlTypeOK, SendFails, Locals
  <1>2. UNCHANGED <<net, gate>>
    BY DEF SendFails
  <1>3. CASE MayRetry
    <2>1. f' = [f EXCEPT !.pc = "acquire", !.attempt = @ + 1] /\ UNCHANGED result
      BY <1>3 DEF SendFails
    <2>2. f.attempt + 1 \in 1 .. Attempts
      BY <1>1, <1>3, ConstantFacts DEF MayRetry
    <2>3. /\ f' \in Locals /\ f'.pc = "acquire" /\ f'.url = f.url /\ f'.resolved = f.resolved
          /\ f'.hop = f.hop /\ f'.discovering = f.discovering
      BY <1>1, <2>1, <2>2 DEF Locals
    <2>5. ControlTypeOK' /\ LoopInv'
      BY <1>1, <1>2, <2>1, <2>3, StepType, StepLoop DEF Inv
    <2>6. CheckUrl(f.url)'
      BY <1>1, <2>3 DEF Inv, EgressInv, AfterCheck, CheckUrl
    <2>7. EgressInv'
      BY <1>1, <2>1, <2>3, <2>6, NoResultYet DEF Inv, EgressInv, AfterCheck, AfterResolve, None
    <2>8. DayInv'
      BY <2>3 DEF Inv, DayInv
    <2>9. QED
      BY <2>5, <2>7, <2>8 DEF Inv
  <1>4. CASE ~MayRetry
    BY <1>1, <1>2, <1>4, FailInv DEF SendFails
  <1>5. QED
    BY <1>3, <1>4

\* A request that is answered, by whatever peer.
LEMMA SendAnsweredInv ==
  ASSUME NEW status \in Statuses, NEW peer \in Addresses \cup {None}
  PROVE  Inv /\ SendAnswered(status, peer) => Inv'
  <1> SUFFICES ASSUME Inv, SendAnswered(status, peer) PROVE Inv'
    OBVIOUS
  <1> USE DEF Ended
  <1>1. f \in Locals /\ f.pc = "send"
    BY DEF Inv, ControlTypeOK, SendAnswered
  <1>2. /\ f' = [f EXCEPT !.pc = "peer", !.status = status, !.peer = peer]
        /\ UNCHANGED <<net, gate, result>>
    BY DEF SendAnswered
  <1>3. /\ f' \in Locals /\ f'.pc = "peer" /\ f'.url = f.url /\ f'.resolved = f.resolved
        /\ f'.hop = f.hop /\ f'.discovering = f.discovering
    BY <1>1, <1>2 DEF Locals
  <1>4. ControlTypeOK' /\ LoopInv'
    BY <1>1, <1>2, <1>3, StepType, StepLoop DEF Inv, ControlTypeOK
  <1>5. CheckUrl(f.url)'
    BY <1>1, <1>3 DEF Inv, EgressInv, AfterCheck, CheckUrl
  <1>6. EgressInv'
    BY <1>1, <1>2, <1>3, <1>5, NoResultYet DEF Inv, EgressInv, AfterCheck, AfterResolve, None
  <1>7. DayInv'
    BY <1>3 DEF Inv, DayInv
  <1>8. QED
    BY <1>4, <1>6, <1>7 DEF Inv

\* An answer from another peer than the addresses that were checked.
LEMMA RefuseInv == Inv /\ Refuse => Inv'
  <1> SUFFICES ASSUME Inv, Refuse PROVE Inv'
    OBVIOUS
  <1>1. f.pc = "peer" /\ Fail("EgressError") /\ UNCHANGED <<net, gate>>
    BY DEF Refuse
  <1>2. QED
    BY <1>1, FailInv DEF Ended

\* A redirect: the next hop starts over, or there were too many.
LEMMA RedirectInv == ASSUME NEW url \in Urls PROVE Inv /\ Redirect(url) => Inv'
  <1> SUFFICES ASSUME Inv, Redirect(url) PROVE Inv'
    OBVIOUS
  <1> USE DEF Ended
  <1>1. f \in Locals /\ f.pc = "peer"
    BY DEF Inv, ControlTypeOK, Redirect
  <1>2. UNCHANGED <<net, gate>> /\ f.hop \in 0 .. max_redirects
    BY <1>1 DEF Redirect, Locals
  <1>3. CASE f.hop < max_redirects
    <2>1. f' = NextHop(url) /\ UNCHANGED result
      BY <1>3 DEF Redirect
    <2>2. f.hop + 1 \in 0 .. max_redirects /\ f.hop + 1 # 0 /\ 1 \in 1 .. Attempts
      BY <1>2, <1>3, ConstantFacts
    <2>3. f' \in Locals /\ f'.pc = "check" /\ f'.hop = f.hop + 1
      <3>1. PICK method \in {"GET", "POST"} :
               f' = [f EXCEPT !.pc = "check", !.url = url, !.hop = @ + 1, !.attempt = 1,
                              !.method = method]
        BY <1>1, <2>1 DEF NextHop, Locals
      <3>2. QED
        BY <1>1, <2>2, <3>1 DEF Locals
    <2>4. ControlTypeOK' /\ LoopInv'
      BY <1>1, <1>2, <2>1, <2>3, StepType, StepLoop DEF Inv, ControlTypeOK
    <2>5. EgressInv'
      BY <1>1, <2>1, <2>3, NoResultYet DEF Inv, EgressInv, AfterCheck, AfterResolve, None
    <2>6. DayInv'
      BY <2>2, <2>3 DEF DayInv
    <2>7. QED
      BY <2>4, <2>5, <2>6 DEF Inv
  <1>4. CASE ~(f.hop < max_redirects)
    BY <1>1, <1>2, <1>4, FailInv DEF Redirect
  <1>5. QED
    BY <1>3, <1>4

\* Whatever a discovery page lists, the file taken is the run's own.
LEMMA ChosenIsOwn ==
  ASSUME NEW found \in {{}} \cup {{u} : u \in Urls}
  PROVE  Chosen(found) \in Urls /\ Chosen(found).file = Template.file
  <1>1. CASE found = {}
    BY <1>1, ConstantFacts DEF Chosen
  <1>2. CASE found # {}
    <2>1. PICK u \in Urls : found = {u}
      BY <1>2
    <2>2. (CHOOSE v \in found : TRUE) = u
      BY <2>1
    <2>3. QED
      BY <2>1, <2>2, ConstantFacts DEF Chosen
  <1>3. QED
    BY <1>1, <1>2

\* An answer that counts, the page that names the file, or a failure.
LEMMA AnswerInv ==
  ASSUME NEW found \in {{}} \cup {{u} : u \in Urls}, NEW fits \in BOOLEAN
  PROVE  Inv /\ Answer(found, fits) => Inv'
  <1> SUFFICES ASSUME Inv, Answer(found, fits) PROVE Inv'
    OBVIOUS
  <1> USE DEF Ended
  <1>1. f \in Locals /\ f.pc = "peer" /\ f.peer \in f.resolved /\ UNCHANGED <<net, gate>>
    BY DEF Inv, ControlTypeOK, Answer, CheckPeer
  <1>2. CASE Fail("FetchFailed") \/ Fail("EgressError")
    BY <1>1, <1>2, FailInv
  <1>3. CASE /\ f' = [Request(Chosen(found), "GET", TRUE) EXCEPT !.discovering = FALSE]
             /\ UNCHANGED result
    <2>1. 0 \in 0 .. max_redirects /\ 1 \in 1 .. Attempts
      BY ConstantFacts
    <2>2. f' \in Locals /\ f'.pc = "check" /\ f'.url = Chosen(found)
      BY <1>1, <1>3, <2>1, ChosenIsOwn DEF Request, Locals
    <2>3. ControlTypeOK' /\ LoopInv'
      BY <1>1, <1>3, <2>2, StepType, StepLoop DEF Inv
    <2>4. EgressInv'
      BY <1>1, <1>3, <2>2, NoResultYet DEF Inv, EgressInv, AfterCheck, AfterResolve, None
    <2>5. DayInv'
      BY <2>2, ChosenIsOwn DEF DayInv
    <2>6. QED
      BY <2>3, <2>4, <2>5 DEF Inv
  <1>4. CASE ~f.discovering /\ f' = [f EXCEPT !.pc = "done"] /\ result' = Result
    <2>1. /\ f' \in Locals /\ f'.pc = "done" /\ f'.url = f.url /\ f'.resolved = f.resolved
          /\ f'.hop = f.hop /\ f'.discovering = f.discovering /\ f'.peer = f.peer
      BY <1>1, <1>4 DEF Locals
    <2>2. /\ result'.kind = "FetchResult" /\ result'.url = f.url /\ result'.peer = f.peer
          /\ result'.hops = f.hop
      BY <1>4 DEF Result
    <2>3. ControlTypeOK'
      BY <1>1, <2>1, <2>2 DEF Inv, ControlTypeOK, None
    <2>4. LoopInv'
      BY <1>1, <2>1, StepLoop DEF Inv
    <2>5. CheckUrl(f.url)'
      BY <1>1, <2>1 DEF Inv, EgressInv, AfterCheck, CheckUrl
    <2>6. EgressInv'
      BY <1>1, <2>1, <2>2, <2>5 DEF Inv, EgressInv, AfterCheck, AfterResolve
    <2>7. DayInv'
      BY <1>4, <2>1 DEF Inv, DayInv
    <2>8. QED
      BY <2>3, <2>4, <2>6, <2>7 DEF Inv
  <1>5. QED
    BY <1>2, <1>3, <1>4 DEF Answer

\* Every step keeps the invariant.
LEMMA NextInv == Inv /\ [Next]_vars => Inv'
  <1> SUFFICES ASSUME Inv, [Next]_vars PROVE Inv'
    OBVIOUS
  <1>1. ASSUME NEW ok \in BOOLEAN, GateMetadata(ok) \/ GateControl(ok) \/ GateCanary(ok)
        PROVE  Inv'
    BY <1>1, GateMetadataInv, GateControlInv, GateCanaryInv
  <1>2. ASSUME Plan \/ Check \/ Refuse PROVE Inv'
    BY <1>2, PlanInv, CheckInv, RefuseInv
  <1>3. ASSUME NEW A \in SUBSET Addresses, Resolve(A) PROVE Inv'
    BY <1>3, ResolveInv
  <1>4. ASSUME NEW over \in 0 .. 1, Acquire(over) PROVE Inv'
    BY <1>4, AcquireInv
  <1>5. ASSUME NEW kind \in {"EgressError", "FetchFailed"}, SendFails(kind) PROVE Inv'
    BY <1>5, SendFailsInv
  <1>6. ASSUME NEW status \in Statuses, NEW peer \in Addresses \cup {None},
               SendAnswered(status, peer)
        PROVE  Inv'
    BY <1>6, SendAnsweredInv
  <1>7. ASSUME NEW url \in Urls, Redirect(url) PROVE Inv'
    BY <1>7, RedirectInv
  <1>8. ASSUME NEW found \in {{}} \cup {{u} : u \in Urls}, NEW fits \in BOOLEAN,
               Answer(found, fits)
        PROVE  Inv'
    BY <1>8, AnswerInv
  <1>9. CASE PolicyApplied
    BY <1>9, PolicyAppliedInv
  <1>10. CASE UNCHANGED vars
    <2>1. UNCHANGED <<net, gate, f, result>>
      BY <1>10 DEF vars
    <2>2. QED
      BY <2>1, FetcherIdle DEF Inv, ControlTypeOK, LoopInv
  <1>11. QED
    BY <1>1, <1>2, <1>3, <1>4, <1>5, <1>6, <1>7, <1>8, <1>9, <1>10 DEF Next, Pod

\* The invariant holds of every state a pod reaches.
LEMMA Invariant == Spec => []Inv
  BY InitInv, NextInv, PTL DEF Spec

------------------------------------------------------------------------------
(* The gate, for as many accidents as it asks rounds for, less one.        *)

\* Once the gate is past, no step touches the policy or the loop.
LEMMA PastTheGate ==
  ASSUME GateInv, f.pc \notin {"gate", "closed"}, UNCHANGED <<net, gate>>
  PROVE  GateInv'
  BY DEF GateInv

\* A connect that ends a round: to have counted it without a policy, one of its
\* connects failed by accident.
LEMMA GateCanaryCounts ==
  ASSUME MaxGlitches < BlockedInARow, Inv, GateInv, NEW ok \in BOOLEAN, GateCanary(ok)
  PROVE  GateInv'
  <1> DEFINE blocked == GateCount(gate.denied /\ ~ok)
             opens == blocked >= BlockedInARow
             closes == ~opens /\ GateTimesOut
  <1>1. /\ net \in [policy: BOOLEAN, node: BOOLEAN, glitches: 0 .. MaxGlitches]
        /\ gate.blocked \in Nat /\ f \in Locals /\ f.pc = "gate"
    BY DEF Inv, ControlTypeOK, LoopInv, GateCanary
  <1>2. /\ net' = [net EXCEPT !.glitches = Glitch(~net.policy, ok)]
        /\ gate'.blocked = blocked
        /\ f' = [f EXCEPT !.pc = IF opens THEN "plan" ELSE IF closes THEN "closed" ELSE @]
    BY DEF GateCanary
  <1>3. Glitch(~net.policy, ok) \in 0 .. MaxGlitches
    BY GlitchType DEF Inv, GateCanary
  <1>4. ~net.policy => blocked <= Glitch(~net.policy, ok)
    BY <1>1, ConstantFacts DEF GateInv, GateCount, Glitch
  <1>5. net'.policy = net.policy /\ net'.glitches = Glitch(~net.policy, ok)
    BY <1>1, <1>2
  <1>6. blocked \in Nat
    BY <1>1 DEF GateCount
  <1>7. opens => net.policy
    BY <1>3, <1>4, <1>6, ConstantFacts
  <1> HIDE DEF blocked, closes
  <1>8. f'.pc \notin {"gate", "closed"} => opens
    BY <1>1, <1>2 DEF Locals
  <1>9. QED
    BY <1>2, <1>4, <1>5, <1>7, <1>8 DEF GateInv

\* Every step keeps the gate's count below the accidents.
LEMMA NextGate ==
  ASSUME MaxGlitches < BlockedInARow
  PROVE  Inv /\ GateInv /\ [Next]_vars => GateInv'
  <1> SUFFICES ASSUME Inv, GateInv, [Next]_vars PROVE GateInv'
    OBVIOUS
  <1>1. ASSUME NEW ok \in BOOLEAN, GateMetadata(ok) \/ GateControl(ok) PROVE GateInv'
    <2>1. PICK open \in BOOLEAN : net' = [net EXCEPT !.glitches = Glitch(open, ok)]
      BY <1>1 DEF GateMetadata, GateControl
    <2>2. net.glitches \in Nat /\ gate.blocked \in Nat
      BY DEF Inv, ControlTypeOK
    <2>3. net'.policy = net.policy /\ net'.glitches >= net.glitches /\ net'.glitches \in Nat
      BY <2>1, <2>2 DEF Inv, ControlTypeOK, Glitch
    <2>4. UNCHANGED f /\ gate'.blocked = gate.blocked
      BY <1>1 DEF GateMetadata, GateControl, Inv, ControlTypeOK
    <2>5. QED
      BY <2>2, <2>3, <2>4 DEF GateInv
  <1>2. ASSUME NEW ok \in BOOLEAN, GateCanary(ok) PROVE GateInv'
    BY <1>2, GateCanaryCounts
  <1>3. CASE PolicyApplied
    BY <1>3 DEF PolicyApplied, GateInv, Inv, ControlTypeOK
  <1>4. CASE UNCHANGED vars
    BY <1>4 DEF vars, GateInv
  <1>5. CASE Plan \/ Check \/ Refuse
    BY <1>5, PastTheGate DEF Plan, Check, Refuse
  <1>6. ASSUME NEW A \in SUBSET Addresses, Resolve(A) PROVE GateInv'
    BY <1>6, PastTheGate DEF Resolve
  <1>7. ASSUME NEW over \in 0 .. 1, Acquire(over) PROVE GateInv'
    BY <1>7, PastTheGate DEF Acquire
  <1>8. ASSUME NEW kind \in {"EgressError", "FetchFailed"}, SendFails(kind) PROVE GateInv'
    BY <1>8, PastTheGate DEF SendFails
  <1>9. ASSUME NEW status \in Statuses, NEW peer \in Addresses \cup {None},
               SendAnswered(status, peer)
        PROVE  GateInv'
    BY <1>9, PastTheGate DEF SendAnswered
  <1>10. ASSUME NEW url \in Urls, Redirect(url) PROVE GateInv'
    BY <1>10, PastTheGate DEF Redirect
  <1>11. ASSUME NEW found \in {{}} \cup {{u} : u \in Urls}, NEW fits \in BOOLEAN,
                Answer(found, fits)
         PROVE  GateInv'
    BY <1>11, PastTheGate DEF Answer
  <1>12. QED
    BY <1>1, <1>2, <1>3, <1>4, <1>5, <1>6, <1>7, <1>8, <1>9, <1>10, <1>11 DEF Next, Pod

------------------------------------------------------------------------------
(* The theorems.                                                           *)

\* wait_for_egress_policy: with fewer accidental connect failures than rounds in
\* a row, no pod starts its work before its network policy is in force.
THEOREM StartsUnderPolicy ==
  ASSUME MaxGlitches < BlockedInARow
  PROVE  Spec => []WorkUnderPolicy
  <1>1. Init => GateInv
    BY ConstantFacts DEF Init, GateInv
  <1>2. GateInv => WorkUnderPolicy
    BY DEF GateInv, WorkUnderPolicy
  <1>3. QED
    BY <1>1, <1>2, Invariant, NextGate, PTL DEF Spec

\* Fetcher.fetch and check_peer: a result was served by an address that passed
\* check_addresses for its own hop, at a URL that passed check_url.
THEOREM ServedByCheckedPeer == Spec => []PayloadFromCheckedPeer
  <1>1. Inv => PayloadFromCheckedPeer
    BY DEF Inv, EgressInv, AfterCheck, AfterResolve, CheckUrl, PayloadFromCheckedPeer
  <1>2. QED
    BY <1>1, Invariant, PTL

\* fetch_for_manifest: what is not redirected is the file of the run's own day.
THEOREM CapturesItsOwnDay == Spec => []OwnDay
  <1>1. Inv => OwnDay
    BY DEF Inv, EgressInv, DayInv, OwnDay
  <1>2. QED
    BY <1>1, Invariant, PTL

------------------------------------------------------------------------------
(* The places of the fetcher, and how much is left to do.                  *)

\* What most steps of the fetcher leave alone.
Keeps == f'.block = f.block /\ f'.discovering = f.discovering /\ f'.hop = f.hop

\* A step from one place to another that sends nothing and counts nothing.
Goes(from, to) ==
    f.pc = from /\ f'.pc = to /\ Keeps /\ f'.attempt = f.attempt /\ UNCHANGED sent

\* A step that ends one request.
Sends(to) == f.pc = "send" /\ f'.pc = to /\ Keeps /\ sent' = Append(sent, now)

\* The steps of a pod, as far as its counters and the requests it sent go.
GateMoves == f.pc = "gate" /\ UNCHANGED <<f, sent>> /\ LeftOfGate' \in 0 .. LeftOfGate - 1

FetchBegins ==
    /\ f.pc = "plan" /\ f'.pc = "check" /\ f'.block = f.block /\ UNCHANGED sent
    /\ f'.discovering => f.block = "discovered_file"
    /\ f'.hop = 0 /\ f'.attempt = 1

Advances ==
    \/ \E to \in {"plan", "closed"} : Goes("gate", to)
    \/ Goes("check", "resolve") \/ Goes("resolve", "acquire") \/ Goes("acquire", "send")
    \/ \E from \in {"check", "resolve", "peer"} : Goes(from, "refused")
    \/ ~f.discovering /\ Goes("peer", "done")

Retries == Sends("acquire") /\ f.attempt < Attempts /\ f'.attempt = f.attempt + 1

SendEnds == \E to \in {"peer", "refused"} : Sends(to) /\ f'.attempt = f.attempt

HopBegins ==
    /\ f.pc = "peer" /\ f'.pc = "check" /\ f'.block = f.block /\ UNCHANGED sent
    /\ f'.discovering = f.discovering
    /\ f.hop < max_redirects /\ f'.hop = f.hop + 1 /\ f'.attempt = 1

FileBegins ==
    /\ f.pc = "peer" /\ f'.pc = "check" /\ f'.block = f.block /\ UNCHANGED sent
    /\ f.discovering /\ ~f'.discovering
    /\ f'.hop = 0 /\ f'.attempt = 1

Moves == GateMoves \/ FetchBegins \/ Advances \/ Retries \/ SendEnds \/ HopBegins \/ FileBegins

\* A failure is a step to the end.
LEMMA FailMoves ==
  ASSUME f \in Locals, NEW kind, Fail(kind)
  PROVE  f'.pc = "refused" /\ Keeps /\ f'.attempt = f.attempt
  BY DEF Fail, Locals, Keeps

\* The gate's three connects.
LEMMA GateMovesOn ==
  ASSUME Inv, NEW ok \in BOOLEAN, GateMetadata(ok) \/ GateControl(ok) \/ GateCanary(ok)
  PROVE  Moves
  <1>1. /\ f \in Locals /\ f.pc = "gate" /\ MaxRounds \in Nat /\ gate.rounds \in 0 .. MaxRounds
        /\ gate \in [pc: {"metadata", "control", "canary", "over"}, denied: BOOLEAN,
                     blocked: 0 .. BlockedInARow, rounds: 0 .. MaxRounds]
    BY ConstantFacts DEF Inv, ControlTypeOK, LoopInv, GateMetadata, GateControl, GateCanary
  <1>2. CASE GateMetadata(ok)
    <2>1. gate.pc = "metadata" /\ gate'.pc = "control" /\ gate'.rounds = gate.rounds
          /\ UNCHANGED <<f, sent>>
      BY <1>1, <1>2 DEF GateMetadata
    <2>2. QED
      BY <1>1, <2>1 DEF LeftOfGate, GateMoves, Moves
  <1>3. CASE GateControl(ok)
    <2>1. gate.pc = "control" /\ gate'.pc = "canary" /\ gate'.rounds = gate.rounds
          /\ UNCHANGED <<f, sent>>
      BY <1>1, <1>3 DEF GateControl
    <2>2. QED
      BY <1>1, <2>1 DEF LeftOfGate, GateMoves, Moves
  <1>4. CASE GateCanary(ok)
    <2> DEFINE blocked == GateCount(gate.denied /\ ~ok)
               opens == blocked >= BlockedInARow
               closes == ~opens /\ GateTimesOut
    <2>1. /\ gate.pc = "canary" /\ UNCHANGED sent
          /\ gate' = [pc |-> IF opens \/ closes THEN "over" ELSE "metadata", denied |-> FALSE,
                      blocked |-> blocked, rounds |-> Min({gate.rounds + 1, MaxRounds})]
          /\ f' = [f EXCEPT !.pc = IF opens THEN "plan" ELSE IF closes THEN "closed" ELSE @]
      BY <1>4 DEF GateCanary
    <2> HIDE DEF blocked
    <2>2. CASE opens \/ closes
      <3>1. PICK to \in {"plan", "closed"} : f' = [f EXCEPT !.pc = to]
        BY <2>1, <2>2
      <3>2. Goes("gate", to)
        BY <1>1, <2>1, <3>1 DEF Goes, Keeps, Locals
      <3>3. QED
        BY <3>2 DEF Advances, Moves
    <2>3. CASE ~opens /\ ~closes
      <3>1. f' = f
        BY <1>1, <2>1, <2>3 DEF Locals
      <3>2. gate.rounds + 1 < MaxRounds
        BY <1>1, <2>3 DEF GateTimesOut
      <3>3. Min({gate.rounds + 1, MaxRounds}) \in {gate.rounds + 1, MaxRounds}
            /\ Min({gate.rounds + 1, MaxRounds}) <= gate.rounds + 1
        <4>1. gate.rounds + 1 \in Int /\ MaxRounds \in Int
          BY <1>1
        <4>2. QED
          BY <4>1, MinOfTwo
      <3>4. gate'.pc = "metadata" /\ gate'.rounds = gate.rounds + 1
        BY <1>1, <2>1, <2>3, <3>2, <3>3
      <3>5. QED
        BY <1>1, <2>1, <3>1, <3>2, <3>4 DEF LeftOfGate, GateMoves, Moves
    <2>4. QED
      BY <2>2, <2>3
  <1>5. QED
    BY <1>2, <1>3, <1>4

\* The first request of a block.
LEMMA PlanMoves == ASSUME Inv, Plan PROVE Moves
  <1>1. f \in Locals /\ f.pc = "plan" /\ ~f.discovering /\ UNCHANGED sent
    BY DEF Inv, ControlTypeOK, DayInv, Plan
  <1>2. CASE f.block = "discovered_file"
    <2>1. f' = [Request(DiscoveryUrl, "GET", FALSE) EXCEPT !.discovering = TRUE]
      BY <1>2 DEF Plan
    <2>2. QED
      BY <1>1, <1>2, <2>1 DEF Request, Locals, FetchBegins, Moves
  <1>3. CASE f.block # "discovered_file"
    <2>1. PICK method, conditional : f' = Request(Template, method, conditional)
      BY <1>3 DEF Plan
    <2>2. QED
      BY <1>1, <2>1 DEF Request, Locals, FetchBegins, Moves
  <1>4. QED
    BY <1>2, <1>3

\* Every step of a pod is one of these.
LEMMA PodMoves == Inv /\ Pod => Moves
  <1> SUFFICES ASSUME Inv, Pod PROVE Moves
    OBVIOUS
  <1> f \in Locals /\ f.attempt \in 1 .. Attempts /\ f.hop \in 0 .. max_redirects
      /\ Attempts \in Nat /\ max_redirects \in Nat
    BY ConstantFacts DEF Inv, ControlTypeOK, Locals
  <1>1. ASSUME NEW ok \in BOOLEAN, GateMetadata(ok) \/ GateControl(ok) \/ GateCanary(ok)
        PROVE  Moves
    BY <1>1, GateMovesOn
  <1>2. CASE Plan
    BY <1>2, PlanMoves
  <1>3. CASE Check
    <2>1. f.pc = "check" /\ UNCHANGED sent
          /\ (f' = [f EXCEPT !.pc = "resolve"] \/ Fail("EgressError"))
      BY <1>3 DEF Check
    <2>2. CASE f' = [f EXCEPT !.pc = "resolve"]
      BY <2>1, <2>2 DEF Goes, Keeps, Locals, Advances, Moves
    <2>3. CASE Fail("EgressError")
      BY <2>1, <2>3, FailMoves DEF Goes, Advances, Moves
    <2>4. QED
      BY <2>1, <2>2, <2>3
  <1>4. CASE Refuse
    BY <1>4, FailMoves DEF Refuse, Goes, Advances, Moves
  <1>5. ASSUME NEW A \in SUBSET Addresses, Resolve(A) PROVE Moves
    <2>1. f.pc = "resolve" /\ UNCHANGED sent
          /\ (f' = [f EXCEPT !.pc = "acquire", !.resolved = A] \/ Fail("EgressError"))
      BY <1>5 DEF Resolve
    <2>2. CASE f' = [f EXCEPT !.pc = "acquire", !.resolved = A]
      BY <2>1, <2>2 DEF Goes, Keeps, Locals, Advances, Moves
    <2>3. CASE Fail("EgressError")
      BY <2>1, <2>3, FailMoves DEF Goes, Advances, Moves
    <2>4. QED
      BY <2>1, <2>2, <2>3
  <1>6. ASSUME NEW over \in 0 .. 1, Acquire(over) PROVE Moves
    <2>1. f.pc = "acquire" /\ f' = [f EXCEPT !.pc = "send"] /\ UNCHANGED sent
      BY <1>6 DEF Acquire
    <2>2. QED
      BY <2>1 DEF Goes, Keeps, Locals, Advances, Moves
  <1>7. ASSUME NEW kind \in {"EgressError", "FetchFailed"}, SendFails(kind) PROVE Moves
    <2>1. f.pc = "send" /\ sent' = Append(sent, now)
      BY <1>7 DEF SendFails
    <2>2. CASE MayRetry
      <3>1. f' = [f EXCEPT !.pc = "acquire", !.attempt = @ + 1]
        BY <1>7, <2>2 DEF SendFails
      <3>2. QED
        BY <2>1, <2>2, <3>1 DEF MayRetry, Sends, Keeps, Locals, Retries, Moves
    <2>3. CASE ~MayRetry
      <3>1. Fail(kind)
        BY <1>7, <2>3 DEF SendFails
      <3>2. QED
        BY <2>1, <3>1, FailMoves DEF Sends, SendEnds, Moves
    <2>4. QED
      BY <2>2, <2>3
  <1>8. ASSUME NEW status \in Statuses, NEW peer \in Addresses \cup {None},
               SendAnswered(status, peer)
        PROVE  Moves
    BY <1>8 DEF SendAnswered, Sends, Keeps, Locals, SendEnds, Moves
  <1>9. ASSUME NEW url \in Urls, Redirect(url) PROVE Moves
    <2>1. f.pc = "peer" /\ UNCHANGED sent
      BY <1>9 DEF Redirect
    <2>2. CASE f.hop < max_redirects
      <3>1. f' = NextHop(url)
        BY <1>9, <2>2 DEF Redirect
      <3>2. PICK method : f' = [f EXCEPT !.pc = "check", !.url = url, !.hop = @ + 1,
                                         !.attempt = 1, !.method = method]
        BY <3>1 DEF NextHop, Locals
      <3>3. QED
        BY <2>1, <2>2, <3>2 DEF Locals, HopBegins, Moves
    <2>3. CASE ~(f.hop < max_redirects)
      <3>1. Fail("EgressError")
        BY <1>9, <2>3 DEF Redirect
      <3>2. QED
        BY <2>1, <3>1, FailMoves DEF Goes, Advances, Moves
    <2>4. QED
      BY <2>2, <2>3
  <1>10. ASSUME NEW found \in {{}} \cup {{u} : u \in Urls}, NEW fits \in BOOLEAN,
                Answer(found, fits)
         PROVE  Moves
    <2>1. f.pc = "peer" /\ UNCHANGED sent
      BY <1>10 DEF Answer
    <2>2. CASE Fail("FetchFailed") \/ Fail("EgressError")
      BY <2>1, <2>2, FailMoves DEF Goes, Advances, Moves
    <2>3. CASE /\ f.discovering
               /\ f' = [Request(Chosen(found), "GET", TRUE) EXCEPT !.discovering = FALSE]
      BY <2>1, <2>3 DEF Request, Locals, FileBegins, Moves
    <2>4. CASE ~f.discovering /\ f' = [f EXCEPT !.pc = "done"]
      BY <2>1, <2>4 DEF Goes, Keeps, Locals, Advances, Moves
    <2>5. QED
      BY <1>10, <2>2, <2>3, <2>4 DEF Answer
  <1>11. QED
    BY <1>1, <1>2, <1>3, <1>4, <1>5, <1>6, <1>7, <1>8, <1>9, <1>10 DEF Pod

\* The constants of the measure, and what a hop more is worth.
LEMMA MeasureFacts ==
  /\ max_redirects \in Nat /\ Attempts \in Nat /\ Attempts >= 1
  /\ PerHop \in Nat /\ PerFetch \in Nat
  /\ PerHop = 2 * Attempts + 3 /\ PerFetch = max_redirects * PerHop + PerHop
  /\ max_redirects * PerHop \in Nat
  <1>1. max_redirects \in Nat /\ Attempts \in Nat /\ Attempts >= 1
    BY ConstantFacts
  <1>2. PICK r, h : r = max_redirects /\ h = PerHop
    OBVIOUS
  <1>3. r \in Nat /\ h \in Nat
    BY <1>1, <1>2 DEF PerHop
  <1>4. (r + 1) * h = r * h + h /\ r * h \in Nat
    BY <1>3
  <1>5. PerFetch = (r + 1) * h
    BY <1>2 DEF PerFetch
  <1>6. QED
    BY <1>1, <1>2, <1>3, <1>4, <1>5 DEF PerHop

\* What is left of a fetch after h redirects, for one hop more and for none.
LEMMA HopsLeft ==
  ASSUME NEW h \in 0 .. max_redirects
  PROVE  /\ (max_redirects - h) * PerHop \in Nat
         /\ (max_redirects - (h + 1)) * PerHop = (max_redirects - h) * PerHop - PerHop
         /\ (max_redirects - 0) * PerHop = max_redirects * PerHop
  <1>1. PICK d, p : d = max_redirects - h /\ p = PerHop
    OBVIOUS
  <1>2. d \in Nat /\ p \in Nat
    BY <1>1, MeasureFacts
  <1>3. d * p \in Nat /\ (d - 1) * p = d * p - p
    BY <1>2
  <1>4. max_redirects - (h + 1) = d - 1 /\ max_redirects - 0 = max_redirects
    BY <1>1, MeasureFacts
  <1>5. QED
    BY <1>1, <1>3, <1>4

\* The gate's part of the measure.
LEMMA GateLeft == ControlTypeOK => LeftOfGate \in Nat
  <1> SUFFICES ASSUME ControlTypeOK PROVE LeftOfGate \in Nat
    OBVIOUS
  <1>1. MaxRounds \in Nat /\ gate.rounds \in 0 .. MaxRounds
    BY ConstantFacts DEF ControlTypeOK
  <1>2. QED
    BY <1>1 DEF LeftOfGate

\* A step within a hop leaves less to do if it does of the hop.
LEMMA Closer ==
  ASSUME NEW d \in Nat, NEW h \in Nat, NEW a \in Nat, NEW b \in 0 .. a - 1,
         NEW l, NEW m, l = 1 + d + h + a, m = 1 + d + h + b
  PROVE  m \in 0 .. l - 1
  OBVIOUS

\* Every move of a pod leaves less to do.
LEMMA MovesAreCloser ==
  ASSUME Inv, Inv', Moves
  PROVE  Left' \in 0 .. Left - 1
  <1> DEFINE H == (max_redirects - f.hop) * PerHop
  <1>1. /\ f \in Locals /\ f.hop \in 0 .. max_redirects /\ f.attempt \in 1 .. Attempts
        /\ f' \in Locals /\ f'.hop \in 0 .. max_redirects /\ f'.attempt \in 1 .. Attempts
        /\ LeftOfGate \in Nat /\ f.discovering \in BOOLEAN
    BY GateLeft DEF Inv, ControlTypeOK, Locals
  <1>2. H \in Nat
    BY <1>1, HopsLeft
  <1> USE DEF Left, LeftOfHop, Ended
  <1>3. CASE GateMoves
    <2>1. Left = 2 * PerFetch + 2 + LeftOfGate /\ Left' = 2 * PerFetch + 2 + LeftOfGate'
      BY <1>3 DEF GateMoves
    <2>2. LeftOfGate' \in 0 .. LeftOfGate - 1
      BY <1>3 DEF GateMoves
    <2>3. QED
      BY <1>1, <2>1, <2>2, MeasureFacts
  <1>4. CASE FetchBegins
    <2>1. Left = 2 * PerFetch + 1 /\ f'.pc = "check" /\ f'.hop = 0
      BY <1>4 DEF FetchBegins
    <2>2. Left' = 1 + (IF f'.discovering THEN PerFetch ELSE 0)
                    + (max_redirects - 0) * PerHop + (2 * Attempts + 2)
      BY <2>1
    <2>3. (max_redirects - 0) * PerHop = max_redirects * PerHop
      BY <1>1, HopsLeft
    <2>4. QED
      BY <2>1, <2>2, <2>3, MeasureFacts
  <1>5. CASE Advances
    <2>1. CASE \E to \in {"plan", "closed"} : Goes("gate", to)
      <3>1. Left = 2 * PerFetch + 2 + LeftOfGate /\ (Left' = 2 * PerFetch + 1 \/ Left' = 0)
        BY <2>1 DEF Goes
      <3>2. QED
        BY <1>1, <3>1, MeasureFacts
    <2>2. CASE Goes("check", "resolve") \/ Goes("resolve", "acquire") \/ Goes("acquire", "send")
      <3>1. PICK d : d = IF f.discovering THEN PerFetch ELSE 0
        OBVIOUS
      <3>2. d \in Nat
        BY <3>1, MeasureFacts
      <3>3. Left = 1 + d + H + LeftOfHop /\ Left' = 1 + d + H + LeftOfHop'
        BY <2>2, <3>1 DEF Goes, Keeps
      <3>4. LeftOfHop \in Nat /\ LeftOfHop' \in 0 .. LeftOfHop - 1
        BY <1>1, <2>2, MeasureFacts DEF Goes
      <3> HIDE DEF Left, LeftOfHop, H
      <3>5. QED
        BY <1>2, <3>2, <3>3, <3>4, Closer
    <2>3. CASE (\E from \in {"check", "resolve", "peer"} : Goes(from, "refused"))
               \/ Goes("peer", "done")
      <3>1. PICK d : d = IF f.discovering THEN PerFetch ELSE 0
        OBVIOUS
      <3>2. d \in Nat
        BY <3>1, MeasureFacts
      <3>3. Left = 1 + d + H + LeftOfHop /\ Left' = 0
        BY <2>3, <3>1 DEF Goes
      <3>4. LeftOfHop \in Nat
        BY <1>1, <2>3, MeasureFacts DEF Goes
      <3> HIDE DEF Left, LeftOfHop, H
      <3>5. QED
        BY <1>2, <3>2, <3>3, <3>4
    <2>4. QED
      BY <1>5, <2>1, <2>2, <2>3 DEF Advances
  <1>6. CASE Retries \/ SendEnds
    <2>1. PICK d : d = IF f.discovering THEN PerFetch ELSE 0
      OBVIOUS
    <2>2. d \in Nat
      BY <2>1, MeasureFacts
    <2>3. Left = 1 + d + H + LeftOfHop /\ (Left' = 1 + d + H + LeftOfHop' \/ Left' = 0)
      BY <1>6, <2>1 DEF Retries, SendEnds, Sends, Keeps
    <2>4. LeftOfHop \in Nat /\ LeftOfHop' \in 0 .. LeftOfHop - 1
      <3>1. f.pc = "send" /\ LeftOfHop = 2 * (Attempts - f.attempt) + 1
        BY <1>6 DEF Retries, SendEnds, Sends
      <3>2. CASE Retries
        <4>1. f.attempt < Attempts /\ LeftOfHop' = 2 * (Attempts - (f.attempt + 1)) + 2
          BY <3>2 DEF Retries, Sends
        <4>2. QED
          BY <1>1, <3>1, <4>1, MeasureFacts
      <3>3. CASE SendEnds
        <4>1. LeftOfHop' = 0
          BY <3>3 DEF SendEnds, Sends
        <4>2. QED
          BY <1>1, <3>1, <4>1, MeasureFacts
      <3>4. QED
        BY <1>6, <3>2, <3>3
    <2> HIDE DEF Left, LeftOfHop, H
    <2>5. CASE Left' = 1 + d + H + LeftOfHop'
      BY <1>2, <2>2, <2>3, <2>4, <2>5, Closer
    <2>6. CASE Left' = 0
      BY <1>2, <2>2, <2>3, <2>4, <2>6
    <2>7. QED
      BY <2>3, <2>5, <2>6
  <1>7. CASE HopBegins
    <2>1. PICK d : d = IF f.discovering THEN PerFetch ELSE 0
      OBVIOUS
    <2>2. d \in Nat
      BY <2>1, MeasureFacts
    <2>3. Left = 1 + d + H + 0
      BY <1>7, <2>1 DEF HopBegins
    <2>4. Left' = 1 + d + (max_redirects - (f.hop + 1)) * PerHop + (2 * Attempts + 2)
      BY <1>7, <2>1 DEF HopBegins
    <2>5. (max_redirects - (f.hop + 1)) * PerHop = H - PerHop
      BY <1>1, HopsLeft
    <2>6. H - PerHop >= 0
      <3>1. f.hop + 1 \in 0 .. max_redirects
        BY <1>1, <1>7, MeasureFacts DEF HopBegins
      <3>2. (max_redirects - (f.hop + 1)) * PerHop \in Nat
        BY <3>1, HopsLeft
      <3>3. QED
        BY <2>5, <3>2
    <2> HIDE DEF Left, LeftOfHop, H
    <2>7. QED
      BY <1>2, <2>2, <2>3, <2>4, <2>5, <2>6, MeasureFacts
  <1>8. CASE FileBegins
    <2>1. Left = 1 + PerFetch + H + 0
      BY <1>8 DEF FileBegins
    <2>2. Left' = 1 + 0 + (max_redirects - 0) * PerHop + (2 * Attempts + 2)
      BY <1>8 DEF FileBegins
    <2>3. (max_redirects - 0) * PerHop = max_redirects * PerHop
      BY <1>1, HopsLeft
    <2> HIDE DEF Left, LeftOfHop, H
    <2>4. QED
      BY <1>2, <2>1, <2>2, <2>3, MeasureFacts
  <1>9. QED
    BY <1>3, <1>4, <1>5, <1>6, <1>7, <1>8 DEF Moves

\* Fetcher.fetch, _send_with_retries and the gate: every step of a pod leaves
\* less to do, for any number of redirects, attempts and rounds.  With the
\* fairness of a pod that runs on, this is why it ends.
THEOREM EveryStepCounts == Spec => EveryStepIsCloser
  <1>1. Inv /\ Inv' /\ [Next]_vars => [PolicyApplied \/ Left' \in 0 .. Left - 1]_vars
    BY PodMoves, MovesAreCloser DEF Next
  <1>2. QED
    BY <1>1, Invariant, PTL DEF Spec, EveryStepIsCloser

------------------------------------------------------------------------------
(* The number of requests.                                                 *)

\* The clock, the bucket and the history.
ClockOK ==
    /\ bucket \in [tokens: Nat, last: Nat] /\ now \in Nat /\ sent \in Seq(Nat)
    /\ bucket.last <= now

\* A whole number of ticks covers the missing part of a token.
LEMMA WaitIsEnough ==
  ASSUME NEW P \in Nat, NEW C \in Nat \ {0}, NEW t \in Nat, t < P, NEW over \in Nat,
         NEW w, w = (P - t + C - 1) \div C + over
  PROVE  w \in Nat /\ t + w * C >= P
  <1>1. PICK q : q = (P - t + C - 1) \div C
    OBVIOUS
  <1>2. q \in Nat /\ q * C >= P - t
    BY <1>1
  <1>3. over * C >= 0 /\ (q + over) * C = q * C + over * C
    BY <1>2
  <1>4. QED
    BY <1>1, <1>2, <1>3

\* The clock never runs backwards, and its bucket holds no debt.
LEMMA AcquireClock == ASSUME Inv, ClockOK, NEW over \in 0 .. 1, Acquire(over) PROVE ClockOK'
  <1>1. CASE UNCHANGED <<bucket, now>>
    BY <1>1 DEF Acquire, ClockOK
  <1>2. CASE ~UNCHANGED <<bucket, now>>
    <2>1. PICK b, last, t, w :
             /\ b = bucket.tokens /\ last = bucket.last
             /\ t = Min({Capacity * PerSeconds, b + (now - last) * Capacity})
             /\ w = (PerSeconds - t + Capacity - 1) \div Capacity + over
      OBVIOUS
    <2>2. b \in Nat /\ last \in Nat /\ now \in Nat /\ last <= now /\ over \in Nat
      BY <2>1 DEF ClockOK
    <2>3. t \in Nat
      <3>1. PICK e, c, p : e = now - last /\ c = Capacity /\ p = PerSeconds
        OBVIOUS
      <3>2. e \in Nat /\ c \in Nat /\ p \in Nat
        BY <2>2, <3>1, ConstantFacts
      <3>3. e * c \in Nat /\ c * p \in Nat
        BY <3>2
      <3>4. PICK x, y : x = c * p /\ y = b + e * c
        OBVIOUS
      <3>5. x \in Nat /\ y \in Nat
        BY <2>2, <3>3, <3>4
      <3>6. Min({x, y}) \in {x, y}
        BY <3>5, MinOfTwo
      <3>7. QED
        BY <2>1, <3>1, <3>4, <3>5, <3>6
    <2>4. CASE t < PerSeconds
      <3>1. now' = now + w /\ bucket' = [tokens |-> 0, last |-> now + w] /\ UNCHANGED sent
        BY <1>2, <2>1, <2>4 DEF Acquire, Refilled
      <3>2. w \in Nat
        BY <2>1, <2>2, <2>3, <2>4, ConstantFacts, WaitIsEnough
      <3>3. QED
        BY <2>2, <3>1, <3>2 DEF ClockOK
    <2>5. CASE ~(t < PerSeconds)
      <3>1. now' = now /\ bucket' = [tokens |-> t - PerSeconds, last |-> now] /\ UNCHANGED sent
        BY <1>2, <2>1, <2>5 DEF Acquire
      <3>2. t - PerSeconds \in Nat
        BY <2>3, <2>5, ConstantFacts
      <3>3. QED
        BY <2>2, <3>1, <3>2 DEF ClockOK
    <2>6. QED
      BY <2>4, <2>5
  <1>3. QED
    BY <1>1, <1>2

\* Every step keeps the clock, the bucket and the history well formed.
LEMMA NextClock == Inv /\ ClockOK /\ [Next]_vars => ClockOK'
  <1> SUFFICES ASSUME Inv, ClockOK, [Next]_vars PROVE ClockOK'
    OBVIOUS
  <1>1. CASE UNCHANGED <<bucket, now, sent>>
    BY <1>1 DEF ClockOK
  <1>2. ASSUME NEW over \in 0 .. 1, Acquire(over) PROVE ClockOK'
    BY <1>2, AcquireClock
  <1>3. ASSUME NEW kind \in {"EgressError", "FetchFailed"}, SendFails(kind) PROVE ClockOK'
    <2>1. \A d \in Delays(f.attempt) : d \in Nat
      BY DEF Delays
    <2>2. now' = now \/ \E d \in Nat : now' = now + d
      BY <1>3, <2>1 DEF SendFails
    <2>3. now' \in Nat /\ now' >= now
      BY <2>2 DEF ClockOK
    <2>4. sent' = Append(sent, now) /\ UNCHANGED bucket
      BY <1>3 DEF SendFails
    <2>5. QED
      BY <2>3, <2>4 DEF ClockOK
  <1>4. ASSUME NEW status \in Statuses, NEW peer \in Addresses \cup {None},
               SendAnswered(status, peer)
        PROVE  ClockOK'
    BY <1>4 DEF SendAnswered, ClockOK
  <1>5. QED
    BY <1>1, <1>2, <1>3, <1>4
    DEF Next, Pod, vars, PolicyApplied, GateMetadata, GateControl, GateCanary, Plan, Check,
        Refuse, Resolve, Redirect, Answer

\* The requests of the fetches and hops that are over, and of this hop's attempts.
Used ==
    (IF f.block = "discovered_file" /\ ~f.discovering THEN (max_redirects + 1) * Attempts ELSE 0)
      + f.hop * Attempts
      + (IF f.pc \in {"peer"} \cup Ended THEN f.attempt ELSE f.attempt - 1)

\* Nothing is sent before the gate is past and the request planned; a hop starts
\* with its first attempt; and no request is sent that does not use one up.
CountInv ==
    /\ ClockOK
    /\ f.discovering => f.block = "discovered_file"
    /\ f.pc \in {"gate", "plan", "closed"} => sent = << >>
    /\ Len(sent) <= Used

\* The requests of one fetch, and of the hops before this one.
LEMMA HopsUsed ==
  ASSUME NEW h \in 0 .. max_redirects
  PROVE  /\ h * Attempts \in Nat /\ (h + 1) * Attempts = h * Attempts + Attempts
         /\ h * Attempts <= max_redirects * Attempts /\ 0 * Attempts = 0
         /\ (max_redirects + 1) * Attempts = max_redirects * Attempts + Attempts
         /\ (max_redirects + 1) * Attempts \in Nat /\ max_redirects * Attempts \in Nat
  <1>1. PICK r, a, e : r = max_redirects /\ a = Attempts /\ e = max_redirects - h
    OBVIOUS
  <1>2. r \in Nat /\ a \in Nat /\ e \in Nat /\ h \in Nat /\ r = h + e
    BY <1>1, MeasureFacts
  <1>3. h * a \in Nat /\ (h + 1) * a = h * a + a /\ 0 * a = 0
    BY <1>2
  <1>4. (r + 1) * a = r * a + a /\ (r + 1) * a \in Nat /\ r * a \in Nat
    BY <1>2
  <1>5. r * a = h * a + e * a /\ e * a \in Nat
    BY <1>2
  <1>6. h * a <= r * a
    BY <1>3, <1>4, <1>5
  <1>7. QED
    BY <1>1, <1>3, <1>4, <1>6

\* A step that leaves the counters alone.
LEMMA CountIdle ==
  ASSUME CountInv, ClockOK', UNCHANGED <<f, sent>>
  PROVE  CountInv'
  BY DEF CountInv, Used

\* Every move of a pod uses up what it sends.
LEMMA MovesCount == ASSUME Inv, Inv', CountInv, ClockOK', Moves PROVE CountInv'
  <1> DEFINE First(b, disc) == IF b = "discovered_file" /\ ~disc
                               THEN (max_redirects + 1) * Attempts ELSE 0
             d == First(f.block, f.discovering)
             h == f.hop * Attempts
  <1>1. /\ f \in Locals /\ f.hop \in 0 .. max_redirects /\ f.attempt \in 1 .. Attempts
        /\ f' \in Locals /\ f.discovering \in BOOLEAN /\ f'.discovering \in BOOLEAN
    BY DEF Inv, ControlTypeOK, Locals
  <1>2. d \in Nat /\ h \in Nat /\ Len(sent) \in Nat /\ sent \in Seq(Nat) /\ now \in Nat
    BY <1>1, HopsUsed DEF CountInv, ClockOK
  <1>3. Len(Append(sent, now)) = Len(sent) + 1
    BY <1>2
  <1>4. CASE GateMoves
    BY <1>4, CountIdle DEF GateMoves
  <1>5. CASE FetchBegins
    <2>1. sent' = << >> /\ f'.pc = "check" /\ f'.hop = 0 /\ f'.attempt = 1
          /\ (f'.discovering => f'.block = "discovered_file")
      BY <1>5 DEF FetchBegins, CountInv
    <2>2. Used' = First(f'.block, f'.discovering) + 0 * Attempts + (1 - 1)
      BY <2>1 DEF Used, Ended
    <2>3. First(f'.block, f'.discovering) \in Nat /\ 0 * Attempts = 0
      BY <1>1, HopsUsed
    <2>4. Len(sent') = 0
      BY <2>1
    <2> HIDE DEF First
    <2>5. Len(sent') <= Used'
      BY <2>2, <2>3, <2>4
    <2>6. QED
      BY <2>1, <2>5 DEF CountInv
  <1>6. CASE Advances
    <2>1. PICK from, to : Goes(from, to) /\ f.pc \notin Ended /\ (f.pc = "peer" => to \in Ended)
                          /\ (to \in {"gate", "plan", "closed"} => from = "gate")
      BY <1>6 DEF Advances, Goes, Ended
    <2>2. Used = d + h + (IF f.pc \in {"peer"} \cup Ended THEN f.attempt ELSE f.attempt - 1)
          /\ Used' = d + h + (IF to \in {"peer"} \cup Ended THEN f.attempt ELSE f.attempt - 1)
      BY <2>1 DEF Used, Goes, Keeps
    <2> HIDE DEF d, h
    <2>3. Used' >= Used /\ Used \in Int /\ Used' \in Int
      BY <1>1, <1>2, <2>1, <2>2 DEF Ended
    <2>4. Len(sent') <= Used'
      BY <1>2, <2>1, <2>3 DEF CountInv, Goes
    <2>5. QED
      BY <2>1, <2>4 DEF CountInv, Goes, Keeps
  <1>7. CASE Retries \/ SendEnds
    <2>1. /\ f.pc = "send" /\ Keeps /\ sent' = Append(sent, now)
          /\ f'.pc \in {"acquire", "peer", "refused"}
          /\ f'.attempt = IF f'.pc = "acquire" THEN f.attempt + 1 ELSE f.attempt
      <3>1. CASE Retries
        BY <3>1 DEF Retries, Sends
      <3>2. CASE SendEnds
        BY <3>2 DEF SendEnds, Sends
      <3>3. QED
        BY <1>7, <3>1, <3>2
    <2>2. Used = d + h + (f.attempt - 1)
      BY <2>1 DEF Used, Ended
    <2>3. Used' = d + h + f.attempt
      <3>1. CASE f'.pc = "acquire"
        <4>1. Used' = d + h + (f'.attempt - 1) /\ f'.attempt = f.attempt + 1
          BY <2>1, <3>1 DEF Used, Ended, Keeps
        <4>2. QED
          BY <1>1, <1>2, <4>1
      <3>2. CASE f'.pc # "acquire"
        BY <2>1, <3>2 DEF Used, Ended, Keeps
      <3>3. QED
        BY <3>1, <3>2
    <2> HIDE DEF d, h
    <2>4. Len(sent') <= Used'
      BY <1>1, <1>2, <1>3, <2>1, <2>2, <2>3 DEF CountInv
    <2>5. QED
      BY <2>1, <2>4 DEF CountInv, Keeps
  <1>8. CASE HopBegins
    <2>1. Used = d + h + f.attempt
      BY <1>8 DEF HopBegins, Used
    <2>2. Used' = d + (f.hop + 1) * Attempts + (1 - 1)
      BY <1>8 DEF HopBegins, Used, Ended
    <2>3. (f.hop + 1) * Attempts = h + Attempts
      BY <1>1, HopsUsed
    <2> HIDE DEF d, h
    <2>4. Len(sent') <= Used'
      <3>1. sent' = sent /\ Len(sent) <= Used
        BY <1>8 DEF CountInv, HopBegins
      <3>2. Used' = d + (h + Attempts) + (1 - 1)
        BY <2>2, <2>3
      <3>3. f.attempt <= Attempts /\ f.attempt \in Nat /\ Attempts \in Nat
        BY <1>1, MeasureFacts
      <3>4. Used <= Used' /\ Used \in Int /\ Used' \in Int
        BY <1>2, <2>1, <3>2, <3>3
      <3>5. QED
        BY <1>2, <3>1, <3>4
    <2>5. QED
      BY <1>8, <2>4 DEF CountInv, HopBegins
  <1>9. CASE FileBegins
    <2>1. Used = 0 + h + f.attempt
      BY <1>9 DEF FileBegins, Used
    <2>2. f.block = "discovered_file"
      BY <1>9 DEF CountInv, FileBegins
    <2>3. Used' = (max_redirects + 1) * Attempts + 0 * Attempts + (1 - 1)
      BY <1>9, <2>2 DEF FileBegins, Used, Ended
    <2>4. h + Attempts <= (max_redirects + 1) * Attempts /\ 0 * Attempts = 0
          /\ (max_redirects + 1) * Attempts \in Nat
      BY <1>1, HopsUsed, MeasureFacts
    <2> HIDE DEF d, h
    <2>5. PICK m : m = (max_redirects + 1) * Attempts
      OBVIOUS
    <2>6. Used' = m /\ m \in Nat /\ h + Attempts <= m
      BY <2>3, <2>4, <2>5
    <2>7. Len(sent') <= Used'
      BY <1>1, <1>2, <1>9, <2>1, <2>6, MeasureFacts DEF CountInv, FileBegins
    <2>8. QED
      BY <1>9, <2>7 DEF CountInv, FileBegins
  <1>10. QED
    BY <1>4, <1>5, <1>6, <1>7, <1>8, <1>9 DEF Moves

\* Fetcher.fetch and _send_with_retries: retries multiply with redirects and
\* with the page of a discovery, and with nothing else, for any limits.
THEOREM RequestsStayBounded == Spec => []RequestsAreBounded
  <1>1. Init => CountInv
    <2> SUFFICES ASSUME Init PROVE CountInv
      OBVIOUS
    <2>1. Capacity * PerSeconds \in Nat
      BY ConstantFacts
    <2>2. /\ bucket = [tokens |-> Capacity * PerSeconds, last |-> 0] /\ now = 0 /\ sent = << >>
          /\ f.pc = "gate" /\ ~f.discovering /\ f.hop = 0 /\ f.attempt = 1
      BY DEF Init
    <2>3. ClockOK
      BY <2>1, <2>2 DEF ClockOK
    <2>4. Len(sent) <= Used
      <3>1. 0 \in 0 .. max_redirects
        BY ConstantFacts
      <3>2. 0 * Attempts = 0 /\ (max_redirects + 1) * Attempts \in Nat
        BY <3>1, HopsUsed
      <3>3. Used = (IF f.block = "discovered_file" THEN (max_redirects + 1) * Attempts ELSE 0)
                     + 0 * Attempts + (1 - 1)
        BY <2>2 DEF Used, Ended
      <3>4. Used \in Nat
        BY <3>2, <3>3
      <3>5. QED
        BY <2>2, <3>4
    <2>5. QED
      BY <2>2, <2>3, <2>4 DEF CountInv
  <1>2. Inv /\ Inv' /\ CountInv /\ [Next]_vars => CountInv'
    <2> SUFFICES ASSUME Inv, Inv', CountInv, [Next]_vars PROVE CountInv'
      OBVIOUS
    <2>1. ClockOK'
      BY NextClock DEF CountInv
    <2>2. CASE Pod
      BY <2>1, <2>2, PodMoves, MovesCount
    <2>3. CASE PolicyApplied \/ UNCHANGED vars
      BY <2>1, <2>3, CountIdle DEF PolicyApplied, vars
    <2>4. QED
      BY <2>2, <2>3 DEF Next
  <1>3. Inv /\ CountInv => RequestsAreBounded
    <2> SUFFICES ASSUME Inv, CountInv PROVE RequestsAreBounded
      OBVIOUS
    <2>1. f.hop \in 0 .. max_redirects /\ f.attempt \in 1 .. Attempts /\ Len(sent) \in Nat
      BY DEF Inv, ControlTypeOK, Locals, CountInv, ClockOK
    <2>2. PICK m, h : m = (max_redirects + 1) * Attempts /\ h = f.hop * Attempts
      OBVIOUS
    <2>3. m \in Nat /\ h \in Nat /\ h + Attempts <= m
      BY <2>1, <2>2, HopsUsed, MeasureFacts
    <2>4. Len(sent) <= (IF f.block = "discovered_file" /\ ~f.discovering THEN m ELSE 0) + h
                         + (IF f.pc \in {"peer"} \cup Ended THEN f.attempt ELSE f.attempt - 1)
      BY <2>2 DEF CountInv, Used
    <2>5. Len(sent) <= (IF f.block = "discovered_file" THEN m ELSE 0) + m
      BY <2>1, <2>3, <2>4, MeasureFacts
    <2>6. 2 * (max_redirects + 1) * Attempts = m + m
          /\ 1 * (max_redirects + 1) * Attempts = m
      <3>1. PICK r, a : r = max_redirects + 1 /\ a = Attempts
        OBVIOUS
      <3>2. r \in Nat /\ a \in Nat
        BY <3>1, MeasureFacts
      <3>3. 2 * r * a = r * a + r * a /\ 1 * r * a = r * a
        BY <3>2
      <3>4. QED
        BY <2>2, <3>1, <3>3
    <2>7. CASE f.block = "discovered_file"
      BY <2>3, <2>5, <2>6, <2>7 DEF RequestsAreBounded
    <2>8. CASE f.block # "discovered_file"
      BY <2>3, <2>5, <2>6, <2>8 DEF RequestsAreBounded
    <2>9. QED
      BY <2>7, <2>8
  <1>4. QED
    BY <1>1, <1>2, <1>3, Invariant, PTL DEF Spec

\* The places and local variables of the pod, a result exactly at its end, and
\* the bucket, the clock and the history.
THEOREM FetchTypeCorrect == Spec => []TypeOK
  <1>1. Init => ClockOK
    BY ConstantFacts DEF Init, ClockOK
  <1>2. Inv /\ ClockOK => TypeOK
    BY DEF Inv, ClockOK, TypeOK
  <1>3. QED
    BY <1>1, <1>2, Invariant, NextClock, PTL DEF Spec
==============================================================================
