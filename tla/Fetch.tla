-------------------------------- MODULE Fetch --------------------------------
(***************************************************************************)
(* One pod that fetches: the egress policy gate of its init container      *)
(* (fetch/policy_gate.py), the requests of its manifest's fetch block      *)
(* (fetch/plan.py), the fetcher with redirects, retries and address checks *)
(* (fetch/client.py, fetch/policy.py) and the rate limiter it may be given; *)
(* the fetchers the program builds (cli.py) are given none.                *)
(*                                                                         *)
(* The source, the name service and the network answer anything.  Time is  *)
(* counted in ticks; the bucket in fractions of a token, PerSeconds to one.*)
(***************************************************************************)
EXTENDS Integers, Sequences, FiniteSetsExt

CONSTANTS
    Urls,           \* records of scheme, host, port, file
    allowed_hosts,  \* of the manifest
    allow_insecure, \* of the manifest
    Registry,       \* platform host registry: host -> [ports, insecure]
    IpLiterals,     \* hosts that are IP literals
    Addresses,      \* what names resolve to
    Blocked,        \* those in a private or metadata range
    Blocks,         \* the fetch blocks a manifest may have
    Template,       \* the rendered URL of the run's own day
    DiscoveryUrl,   \* the page that lists the newest file
    HasLimiter,     \* whether the fetcher was given a limiter: never by cli.py
    Capacity,       \* rate_limit.requests
    PerSeconds,     \* rate_limit.per
    max_redirects, Attempts, BaseDelay, CapDelay,
    BlockedInARow,  \* rounds that must find the policy in force
    MaxRounds,      \* bound: rounds before the gate's timeout
    MaxGlitches     \* bound: connects that fail for another reason than a policy

None == "none"

ASSUME FetchAssumption ==
    /\ Urls \subseteq [scheme: {"https", "http", "ftp"}, host: STRING, port: Nat, file: STRING]
    /\ {Template, DiscoveryUrl} \subseteq Urls /\ Blocked \subseteq Addresses /\ None \notin Addresses
    /\ Blocks \subseteq {"soap_xml", "dated_file", "discovered_file", "html_table", "rest"}
    /\ Registry \in [DOMAIN Registry -> [ports: SUBSET Nat, insecure: BOOLEAN]]
    /\ {Capacity, PerSeconds, Attempts, BlockedInARow} \subseteq Nat \ {0}
    /\ {max_redirects, BaseDelay, CapDelay, MaxRounds, MaxGlitches} \subseteq Nat

VARIABLES
    net,      \* policy: the pod's NetworkPolicy stands; node: the node blocks metadata
    gate,     \* the gate's loop
    f,        \* the fetcher's local variables
    bucket,   \* RateLimiter: tokens, last
    now,      \* the clock
    sent,     \* history: when each request left
    result    \* FetchResult or the error

vars == <<net, gate, f, bucket, now, sent, result>>

Ended == {"done", "refused", "closed"}

------------------------------------------------------------------------------
(* The policy gate: three connects a round, in this order.  The gate has a *)
(* policy canary, as the chart gives it one; without (policy_gate.py takes *)
(* None) a round is the connect to the metadata alone, and the gate cannot *)
(* tell the pod's policy from a rule of the node.                          *)

\* How a connect to a destination the policy denies may end.
Connects(open, ok) == IF open THEN ok \/ net.glitches < MaxGlitches ELSE ~ok

Glitch(open, ok) == IF open /\ ~ok THEN net.glitches + 1 ELSE net.glitches

\* The network policy is applied to a new pod asynchronously.
PolicyApplied ==
    /\ ~net.policy
    /\ net' = [net EXCEPT !.policy = TRUE]
    /\ UNCHANGED <<gate, f, bucket, now, sent, result>>

GateMetadata(ok) ==
    LET open == ~net.policy /\ ~net.node IN
    /\ f.pc = "gate" /\ gate.pc = "metadata" /\ Connects(open, ok)
    /\ gate' = [gate EXCEPT !.pc = "control", !.denied = ~ok]
    /\ net' = [net EXCEPT !.glitches = Glitch(open, ok)]
    /\ UNCHANGED <<f, bucket, now, sent, result>>

\* Port 53 is allowed with and without the policy.
GateControl(ok) ==
    /\ gate.pc = "control" /\ Connects(TRUE, ok)
    /\ gate' = [gate EXCEPT !.pc = "canary", !.denied = @ /\ ok]
    /\ net' = [net EXCEPT !.glitches = Glitch(TRUE, ok)]
    /\ UNCHANGED <<f, bucket, now, sent, result>>

\* Mutant: one round is enough.
GateCountOnce(denied) == IF denied THEN BlockedInARow ELSE 0

\* Consecutive rounds that found the metadata and the policy canary denied.
GateCount(denied) == IF denied THEN gate.blocked + 1 ELSE 0

\* Mutant: the time is not looked at.
NeverTimesOut == FALSE

GateTimesOut == gate.rounds + 1 >= MaxRounds

\* The end of a round: open, closed for good, or another round.
GateCanary(ok) ==
    LET open == ~net.policy
        blocked == GateCount(gate.denied /\ ~ok)
        opens == blocked >= BlockedInARow
        closes == ~opens /\ GateTimesOut
    IN
    /\ gate.pc = "canary" /\ Connects(open, ok)
    /\ net' = [net EXCEPT !.glitches = Glitch(open, ok)]
    /\ gate' = [pc |-> IF opens \/ closes THEN "over" ELSE "metadata",
                denied |-> FALSE, blocked |-> blocked, rounds |-> Min({gate.rounds + 1, MaxRounds})]
    /\ f' = [f EXCEPT !.pc = IF opens THEN "plan" ELSE IF closes THEN "closed" ELSE @]
    /\ result' = IF closes THEN [kind |-> "PolicyNotEnforced"] ELSE result
    /\ UNCHANGED <<bucket, now, sent>>

------------------------------------------------------------------------------
(* fetch_for_manifest: the first request of the block.                     *)

Request(url, method, conditional) ==
    [f EXCEPT !.pc = "check", !.url = url, !.method = method, !.conditional = conditional,
              !.hop = 0, !.attempt = 1]

Plan ==
    /\ f.pc = "plan"
    /\ f' = CASE f.block = "soap_xml" -> Request(Template, "POST", FALSE)
              [] f.block = "discovered_file" ->
                   [Request(DiscoveryUrl, "GET", FALSE) EXCEPT !.discovering = TRUE]
              [] OTHER -> Request(Template, "GET", TRUE)
    /\ UNCHANGED <<net, gate, bucket, now, sent, result>>

\* Mutant: the newest file of the page is taken, of whatever day.
ChosenNewest(found) == IF found # {} THEN CHOOSE u \in found : TRUE ELSE Template

\* _fetch_dated_file: of the link discover_link found, if any, the one that
\* names the file of the day is taken.
Chosen(found) ==
    IF \E u \in found : u.file = Template.file THEN CHOOSE u \in found : TRUE ELSE Template

------------------------------------------------------------------------------
(* Fetcher.fetch                                                           *)

Fail(kind) ==
    /\ f' = [f EXCEPT !.pc = "refused"]
    /\ result' = [kind |-> kind]

\* check_url
CheckUrl(u) ==
    /\ u.host \notin IpLiterals /\ u.scheme \in {"https", "http"}
    /\ u.host \in allowed_hosts /\ u.host \in DOMAIN Registry
    /\ u.scheme = "http" => allow_insecure /\ Registry[u.host].insecure
    /\ u.port \in Registry[u.host].ports

Check ==
    /\ f.pc = "check"
    /\ IF CheckUrl(f.url) THEN f' = [f EXCEPT !.pc = "resolve"] /\ UNCHANGED result
                          ELSE Fail("EgressError")
    /\ UNCHANGED <<net, gate, bucket, now, sent>>

\* check_addresses: of all addresses of the name, none may be blocked.
Resolve(addresses) ==
    /\ f.pc = "resolve"
    /\ IF addresses # {} /\ addresses \cap Blocked = {}
       THEN f' = [f EXCEPT !.pc = "acquire", !.resolved = addresses] /\ UNCHANGED result
       ELSE Fail("EgressError")
    /\ UNCHANGED <<net, gate, bucket, now, sent>>

\* The bucket after a sleep for the missing part of a token.
Refilled(asleep, woken) == [tokens |-> 0, last |-> woken]

\* RateLimiter.acquire; a sleep may be longer than asked for.
Acquire(over) ==
    LET tokens == Min({Capacity * PerSeconds, bucket.tokens + (now - bucket.last) * Capacity})
        wait == (PerSeconds - tokens + Capacity - 1) \div Capacity + over
    IN
    /\ f.pc = "acquire"
    /\ f' = [f EXCEPT !.pc = "send"]
    /\ IF ~(HasLimiter /\ f.block = "rest") THEN over = 0 /\ UNCHANGED <<bucket, now>>
       ELSE IF tokens < PerSeconds
       THEN now' = now + wait /\ bucket' = Refilled(now, now + wait)
       ELSE /\ over = 0 /\ bucket' = [tokens |-> tokens - PerSeconds, last |-> now]
            /\ UNCHANGED now
    /\ UNCHANGED <<net, gate, sent, result>>

\* RetryPolicy.delay: a quarter more or less than the capped exponential.
Delays(attempt) ==
    LET raw == Min({CapDelay, BaseDelay * 2 ^ (attempt - 1)}) IN
    {d \in 0 .. 2 * raw : 3 * raw <= 4 * d /\ 4 * d <= 5 * raw}

\* Mutant: one attempt too many.
MayRetryOnceMore == f.attempt <= Attempts

MayRetry == f.attempt < Attempts

\* One request that gets no answer below 500.
SendFails(kind) ==
    /\ f.pc = "send"
    /\ sent' = Append(sent, now)
    /\ IF MayRetry
       THEN /\ f' = [f EXCEPT !.pc = "acquire", !.attempt = @ + 1]
            /\ \E d \in Delays(f.attempt) : now' = now + d
            /\ UNCHANGED result
       ELSE Fail(kind) /\ UNCHANGED now
    /\ UNCHANGED <<net, gate, bucket>>

Statuses == {200, 302, 303, 304, 307, 404}

\* One request that is answered; the transport connects by its own resolution.
SendAnswered(status, peer) ==
    /\ f.pc = "send" /\ (status = 304 => f.conditional)
    /\ sent' = Append(sent, now)
    /\ f' = [f EXCEPT !.pc = "peer", !.status = status, !.peer = peer]
    /\ UNCHANGED <<net, gate, bucket, now, result>>

\* Mutant: the peer must be a public address, any.
CheckPeerPublic == f.peer \notin Blocked \cup {None}

\* check_peer
CheckPeer == f.peer \in f.resolved

Refuse ==
    /\ f.pc = "peer" /\ ~CheckPeer
    /\ Fail("EgressError")
    /\ UNCHANGED <<net, gate, bucket, now, sent>>

\* Mutant: redirects are followed without end.
NextHopUncounted(url) == [f EXCEPT !.pc = "check", !.url = url, !.attempt = 1]

\* A redirect is followed by hand: the next hop is checked as the first was.
NextHop(url) ==
    [f EXCEPT !.pc = "check", !.url = url, !.hop = @ + 1, !.attempt = 1,
              !.method = IF f.status = 303 \/ (f.status = 302 /\ @ = "POST") THEN "GET" ELSE @]

Redirect(url) ==
    /\ f.pc = "peer" /\ CheckPeer /\ f.status \in {302, 303, 307}
    /\ IF f.hop < max_redirects THEN f' = NextHop(url) /\ UNCHANGED result
                                ELSE Fail("EgressError")
    /\ UNCHANGED <<net, gate, bucket, now, sent>>

Result == [kind |-> "FetchResult", url |-> f.url, status |-> f.status, peer |-> f.peer,
           hops |-> f.hop]

\* _result: a payload within the cap, the link of a discovery page, a 304, or a
\* failure; a redirect without location is a failure.
Answer(found, fits) ==
    /\ f.pc = "peer" /\ CheckPeer
    /\ IF f.status \notin {200, 304} THEN Fail("FetchFailed")
       ELSE IF f.status = 200 /\ ~fits THEN Fail("EgressError")
       ELSE IF f.discovering
       THEN /\ f' = [Request(Chosen(found), "GET", TRUE) EXCEPT !.discovering = FALSE]
            /\ UNCHANGED result
       ELSE f' = [f EXCEPT !.pc = "done"] /\ result' = Result
    /\ UNCHANGED <<net, gate, bucket, now, sent>>

------------------------------------------------------------------------------
Init ==
    /\ \E node \in BOOLEAN : net = [policy |-> FALSE, node |-> node, glitches |-> 0]
    /\ gate = [pc |-> "metadata", denied |-> FALSE, blocked |-> 0, rounds |-> 0]
    /\ \E block \in Blocks :
          f = [pc |-> "gate", block |-> block, discovering |-> FALSE, url |-> Template,
               method |-> "GET", conditional |-> FALSE, hop |-> 0, attempt |-> 1,
               resolved |-> {}, peer |-> None, status |-> 0]
    /\ bucket = [tokens |-> Capacity * PerSeconds, last |-> 0]
    /\ now = 0 /\ sent = << >> /\ result = [kind |-> None]

Pod ==
    \/ \E ok \in BOOLEAN : GateMetadata(ok) \/ GateControl(ok) \/ GateCanary(ok)
    \/ Plan \/ Check \/ Refuse
    \/ \E A \in SUBSET Addresses : Resolve(A)
    \/ \E over \in 0 .. 1 : Acquire(over)
    \/ \E kind \in {"EgressError", "FetchFailed"} : SendFails(kind)
    \/ \E status \in Statuses, peer \in Addresses \cup {None} : SendAnswered(status, peer)
    \/ \E url \in Urls : Redirect(url)
    \/ \E found \in {{}} \cup {{u} : u \in Urls}, fits \in BOOLEAN : Answer(found, fits)

Next == Pod \/ PolicyApplied

\* A pod that runs goes on: every request has a timeout.
Spec == Init /\ [][Next]_vars /\ WF_vars(Pod)

------------------------------------------------------------------------------
(* Properties.                                                             *)

\* The local variables of fetch_for_manifest, fetch and _send_with_retries.
Locals ==
    [pc: {"gate", "plan", "check", "resolve", "acquire", "send", "peer"} \cup Ended,
     block: Blocks, discovering: BOOLEAN, url: Urls, method: {"GET", "POST"},
     conditional: BOOLEAN, hop: 0 .. max_redirects, attempt: 1 .. Attempts,
     resolved: SUBSET Addresses, peer: Addresses \cup {None}, status: Statuses \cup {0}]

\* The gate's loop, the fetcher's local variables and the result.
ControlTypeOK ==
    /\ net \in [policy: BOOLEAN, node: BOOLEAN, glitches: 0 .. MaxGlitches]
    /\ gate \in [pc: {"metadata", "control", "canary", "over"}, denied: BOOLEAN,
                 blocked: 0 .. BlockedInARow, rounds: 0 .. MaxRounds]
    /\ f \in Locals
    /\ f.pc \in Ended <=> result.kind # None

\* The same with the clock, the bucket and the history.
TypeOK ==
    ControlTypeOK /\ bucket \in [tokens: Nat, last: Nat] /\ now \in Nat /\ sent \in Seq(Nat)

\* The work of a pod starts under its policy (policy_gate.py), also when one
\* connect of the gate failed for another reason, because two rounds in a row
\* must agree.
WorkUnderPolicy == f.pc \notin {"gate", "closed"} => net.policy

\* "rate_limit honoured" (plan.py): whatever mix of redirects, retries, backoffs
\* and sleeps sent them, no stretch of requests of a limited block is denser than
\* the bucket's line.  Only so for a fetcher with a limiter.
RateIsKept ==
    f.block = "rest" =>
        \A i, j \in DOMAIN sent : i <= j =>
            (j - i + 1) * PerSeconds <= Capacity * PerSeconds + (sent[j] - sent[i]) * Capacity

\* A payload comes from an address that was resolved and checked for the very
\* host that served it, at a URL the policy allows, however many hops and
\* whatever the name service answered in between.
PayloadFromCheckedPeer ==
    result.kind = "FetchResult" =>
        /\ result.peer \in f.resolved \ Blocked
        /\ result.url.host \in allowed_hosts \ IpLiterals
        /\ result.url.port \in Registry[result.url.host].ports
        /\ result.url.scheme = "http" => Registry[result.url.host].insecure

\* "A run captures its own delivery day" (plan.py): a payload that was not
\* redirected is the file of the run's day, whatever the page listed.
OwnDay ==
    result.kind = "FetchResult" /\ result.hops = 0 => result.url.file = Template.file

\* One run asks a source a bounded number of times (Fetcher.fetch): the retries
\* of every hop, hop after hop, and once more for the page of a discovery.
RequestsAreBounded ==
    Len(sent) <= (IF f.block = "discovered_file" THEN 2 ELSE 1) * (max_redirects + 1) * Attempts

\* The steps a hop and a fetch take at most.
PerHop == 2 * Attempts + 3
PerFetch == (max_redirects + 1) * PerHop

\* The steps left of a hop, of a round of the gate, and of the pod.
LeftOfHop ==
    CASE f.pc = "check" -> 2 * Attempts + 2
      [] f.pc = "resolve" -> 2 * Attempts + 1
      [] f.pc = "acquire" -> 2 * (Attempts - f.attempt) + 2
      [] f.pc = "send" -> 2 * (Attempts - f.attempt) + 1
      [] OTHER -> 0

LeftOfGate ==
    3 * (MaxRounds - gate.rounds)
      + (CASE gate.pc = "metadata" -> 2 [] gate.pc = "control" -> 1 [] OTHER -> 0)

Left ==
    CASE f.pc \in Ended -> 0
      [] f.pc = "gate" -> 2 * PerFetch + 2 + LeftOfGate
      [] f.pc = "plan" -> 2 * PerFetch + 1
      [] OTHER -> 1 + (IF f.discovering THEN PerFetch ELSE 0)
                    + (max_redirects - f.hop) * PerHop + LeftOfHop

\* No source, name service or network keeps a pod going: whatever they answer,
\* every step of it leaves less to do (Fetcher.fetch, _send_with_retries and the
\* gate's timeout).
EveryStepIsCloser == [][PolicyApplied \/ Left' \in 0 .. Left - 1]_vars

\* Every pod comes to a result, an error or a closed gate.
FetchEnds == <>(f.pc \in Ended)
==============================================================================
