-------------------------------- MODULE Health --------------------------------
(***************************************************************************)
(* GET /healthz: one probe pings Postgres, Redis and the RPC node in turn     *)
(* under one deadline of 3 s, and judges by the first two.  Time is counted    *)
(* in ticks of the budget.                                                    *)
(***************************************************************************)
EXTENDS Integers, FiniteSets

CONSTANTS
  Budget,    \* the 3 s of the probe's context
  Latencies  \* how long a service may take to answer

ASSUME HealthInputs == Budget \in Nat \ {0} /\ Latencies \subseteq Nat

VARIABLES
  reached,  \* the services whose client the server has
  latency,  \* service -> how long it takes to answer this probe
  broken,   \* the services that answer with an error
  left,     \* what is left of the budget
  services, \* service -> what the probe says of it
  asked,    \* the services that the probe is done with
  status    \* the verdict

probeVars == <<reached, latency, broken, left, services, asked, status>>

Pinged == {"postgres", "redis", "evm"}

\* The services that are pinged before s.
Before(s) ==
  CASE s = "postgres" -> {} [] s = "redis" -> {"postgres"}
    [] OTHER -> {"postgres", "redis"}

ProbeInit ==
  /\ reached \in SUBSET Pinged /\ broken \in SUBSET Pinged
  /\ latency \in [Pinged -> Latencies]
  /\ left = Budget /\ asked = {} /\ status = "none"
  /\ services = [s \in Pinged |-> IF s = "evm" THEN "disabled" ELSE "ok"]

Say(s, word) ==
  /\ services' = [services EXCEPT ![s] = word]
  /\ asked' = asked \cup {s}
  /\ UNCHANGED <<reached, latency, broken, status>>

Turn(s) == status = "none" /\ s \notin asked /\ Before(s) \subseteq asked

Skip(s) == Turn(s) /\ s \notin reached /\ Say(s, "disabled") /\ UNCHANGED left

\* The answer comes before the deadline; a context that has expired already
\* fails the call at once.
Answered(s) ==
  /\ Turn(s) /\ s \in reached /\ latency[s] < left
  /\ Say(s, IF s \in broken THEN "error" ELSE "ok")
  /\ left' = left - latency[s]

\* Mutant of Expired: a timeout is not an error.
ExpiredUnnoticed(s) ==
  /\ Turn(s) /\ s \in reached /\ latency[s] >= left
  /\ Say(s, "ok") /\ left' = 0

\* Mutant of Expired: the call does not get the context with the deadline.
ExpiredNever(s) == ExpiredUnnoticed(s) /\ FALSE

\* The call fails when the budget is used up.  Redis' client need not watch
\* the deadline once it has sent, so that a late answer may still count.
Expired(s) ==
  /\ Turn(s) /\ s \in reached /\ latency[s] >= left
  /\ \/ Say(s, "error")
     \/ s = "redis" /\ left > 0 /\ s \notin broken /\ Say(s, "ok")
  /\ left' = 0

\* Mutant of Judge: the RPC node counts like the other two.
JudgeAll ==
  /\ status = "none" /\ asked = Pinged
  /\ status' = IF \E s \in Pinged : services[s] = "error" THEN "error" ELSE "ok"
  /\ UNCHANGED <<reached, latency, broken, left, services, asked>>

\* 503 if Postgres or Redis failed; a service that is disabled counts as well.
Judge ==
  /\ status = "none" /\ asked = Pinged
  /\ status' = IF "error" \in {services["postgres"], services["redis"]}
               THEN "error" ELSE "ok"
  /\ UNCHANGED <<reached, latency, broken, left, services, asked>>

ProbeNext == (\E s \in Pinged : Skip(s) \/ Answered(s) \/ Expired(s)) \/ Judge

ProbeSpec == ProbeInit /\ [][ProbeNext]_probeVars
FairProbe == ProbeSpec /\ WF_probeVars(ProbeNext)

-----------------------------------------------------------------------------
(* Properties *)

\* Every variable holds values of its kind; the budget never grows.
ProbeTypeOK ==
  /\ reached \subseteq Pinged /\ broken \subseteq Pinged /\ asked \subseteq Pinged
  /\ latency \in [Pinged -> Latencies] /\ left \in 0..Budget
  /\ services \in [Pinged -> {"ok", "error", "disabled"}]
  /\ status \in {"none", "ok", "error"}

Time(s) == IF s \in reached THEN latency[s] ELSE 0

\* The time that Postgres and Redis take by themselves.
Spent == Time("postgres") + Time("redis")

\* 200 is never wrong about Postgres or Redis: each one that the server has
\* was pinged in this probe and answered without an error.
OkMeansAnswered ==
  status = "ok" => reached \cap broken \cap {"postgres", "redis"} = {}

\* 503 is not always Redis' fault, but it is never the RPC node's: if neither
\* Postgres nor Redis is broken, the two together have used up the budget.
BlameIsEarned ==
  status = "error" =>
    reached \cap broken \cap {"postgres", "redis"} # {} \/ Spent >= Budget

\* Every probe ends with a verdict, also while a service does not answer.
ProbeEnds == <>(status # "none")

=============================================================================
