----------------------------- MODULE CheckOutcome -----------------------------
(***************************************************************************)
(* What a check says of a proxy and what the store makes of it: the pure   *)
(* part of checker.go, checkmeta.go and store.go.                          *)
(*                                                                         *)
(* A round asks, through the proxy, for the exit IP (the base) and for the *)
(* service and, where the target has one, the API of every target of the   *)
(* plan. The rounds of a target are combined into one result, and the      *)
(* store derives from the result the status of the target and the status   *)
(* of the probe, which belongs to the proxy. Latencies, rates, grades and  *)
(* texts are left out: no status depends on them.                          *)
(***************************************************************************)
EXTENDS FiniteSets, Integers, Sequences

CONSTANTS
  Generic,    \* the target "generic", which has no API
  Named,      \* the other targets: openai, grok, gemini, claude
  MaxRounds   \* bound: rounds of a check

ASSUME TargetAssumption == Generic \notin Named /\ IsFiniteSet(Named)
ASSUME RoundAssumption == MaxRounds \in Nat \ {0}

Targets == {Generic} \union Named

-----------------------------------------------------------------------------
(* Cloudflare *)

Unknown == "none"   \* "", no response
CfStatuses == {Unknown, "not_cf", "behind_cf", "challenge", "blocked"}

Priority == [s \in CfStatuses |->
  CASE s = "blocked" -> 4 [] s = "challenge" -> 3 [] s = "behind_cf" -> 2
    [] s = "not_cf" -> 1 [] s = Unknown -> 0]

Blocks(s) == s \in {"challenge", "blocked"}

\* A challenge page, a Cloudflare header, and a 403, 429 or 503.
DetectCloudflareStatus(challenge, header, refused) ==
  CASE challenge                        -> "challenge"
    [] ~challenge /\ header /\ refused  -> "blocked"
    [] ~challenge /\ header /\ ~refused -> "behind_cf"
    [] ~challenge /\ ~header            -> "not_cf"

MergeCloudflareStatus(S) ==
  CHOOSE s \in S \union {Unknown} :
    \A o \in S \union {Unknown} : Priority[o] <= Priority[s]

-----------------------------------------------------------------------------
(* One round *)

\* What comes back from an URL: no response, or one whose status, keyword and
\* evidence are as expected or not. It only counts when Cloudflare lets it pass.
NoAnswer == [ok |-> FALSE, cf |-> Unknown]
Answers == {NoAnswer} \union
  {[ok |-> expected /\ ~Blocks(cf), cf |-> cf] : expected \in BOOLEAN,
     cf \in {DetectCloudflareStatus(c, h, r) : c, h, r \in BOOLEAN}}

NoApi == "no api"
Reached(api) == IF api THEN "yes" ELSE "no"

\* probeTargetWithClient
Probe(service, api) ==
  [service |-> service.ok,
   api |-> Reached(api.ok),
   cf |-> MergeCloudflareStatus({service.cf, api.cf})]
ProbeService(service) == [service |-> service.ok, api |-> NoApi, cf |-> service.cf]

Probes(t) == IF t = Generic THEN {ProbeService(s) : s \in Answers}
             ELSE {Probe(s, a) : s, a \in Answers}

TargetReached(p) == p.service \/ p.api = "yes"

TargetAvailable(t, base, p) ==
  ~Blocks(p.cf) /\ (TargetReached(p) \/ (t = Generic /\ base))

\* When neither the base nor any target was reached the round is one of failed
\* results, which say nothing of Cloudflare and of the API.
RoundResult(t, base, p) ==
  [available |-> TargetAvailable(t, base, p),
   base |-> base, service |-> p.service, api |-> p.api, cf |-> p.cf]
FailedResult ==
  [available |-> FALSE, base |-> FALSE, service |-> FALSE, api |-> NoApi,
   cf |-> Unknown]

\* A round of a plan: a result for each of its targets.
Rounds(targets) ==
  LET Tested(base, probes) ==
        IF base \/ \E t \in targets : TargetReached(probes[t])
        THEN [t \in targets |-> RoundResult(t, base, probes[t])]
        ELSE [t \in targets |-> FailedResult]
      AllProbes == {f \in [targets -> UNION {Probes(t) : t \in targets}] :
                      \A t \in targets : f[t] \in Probes(t)}
  IN {Tested(base, probes) : base \in BOOLEAN, probes \in AllProbes}

-----------------------------------------------------------------------------
(* The rounds of a target *)

AvailableRounds(rs) == {i \in DOMAIN rs : rs[i].available}
BlockedRounds(rs) == {i \in DOMAIN rs : Blocks(rs[i].cf)}

Combine(rs) ==
  [available |-> 2 * Cardinality(AvailableRounds(rs)) >= Len(rs),
   base |-> \E i \in DOMAIN rs : rs[i].base,
   service |-> \E i \in DOMAIN rs : rs[i].service,
   api |-> IF \E i \in DOMAIN rs : rs[i].api = "yes" THEN "yes"
           ELSE IF \E i \in DOMAIN rs : rs[i].api = "no" THEN "no" ELSE NoApi,
   cf |-> MergeCloudflareStatus({rs[i].cf : i \in DOMAIN rs})]

-----------------------------------------------------------------------------
(* What the store makes of a result *)

Capability(r) ==
  CASE r.service /\ r.api = "yes"  -> "web_api"
    [] r.service /\ r.api # "yes"  -> "web"
    [] ~r.service /\ r.api = "yes" -> "api"
    [] ~r.service /\ r.api # "yes" /\ r.base  -> "base"
    [] ~r.service /\ r.api # "yes" /\ ~r.base -> "none"

\* saveCheckResultTx: an available generic target has the base at least.
StoredCapability(t, r) ==
  IF t = Generic /\ r.available /\ Capability(r) = "none" THEN "base"
  ELSE Capability(r)

\* The capabilities that the counts of available proxies ask for.
Usable(t, capability) ==
  capability \in {"web", "api", "web_api"} \/ (t = Generic /\ capability = "base")

NormalizeTargetStatus(t, available, capability) ==
  IF available /\ Usable(t, capability) THEN "available" ELSE "failed"

\* Mutant: the status of the result is taken as it is.
TargetStatusReported(t, r) ==
  NormalizeTargetStatus(t, r.available, StoredCapability(t, r))

\* Cloudflare has the last word.
TargetStatus(t, r) ==
  IF Blocks(r.cf) THEN "failed"
  ELSE NormalizeTargetStatus(t, r.available, StoredCapability(t, r))

ProbeStatus(r) ==
  IF r.base \/ r.service \/ r.api = "yes" \/ r.available THEN "available" ELSE "failed"

-----------------------------------------------------------------------------
(* What a result should say of the rounds *)

\* The results a round may have for target t, in whatever plan.
RoundsOf(t) == {RoundResult(t, base, p) : base \in BOOLEAN, p \in Probes(t)}
                 \union {FailedResult}

\* What is stored for target t agrees with its rounds rs.
Sound(t, rs) ==
  LET r == Combine(rs)
      good == 2 * Cardinality(AvailableRounds(rs)) >= Len(rs)
  IN /\ TargetStatus(t, r) = "available" <=> good /\ BlockedRounds(rs) = {}
     /\ TargetStatus(t, r) = "available" =>
          ProbeStatus(r) = "available" /\ Usable(t, StoredCapability(t, r))
     /\ r.available /\ TargetStatus(t, r) # "available" =>
          BlockedRounds(rs) # {} /\ 2 * Cardinality(BlockedRounds(rs)) <= Len(rs)

SoundTargets ==
  {t \in Targets : \A n \in 1 .. MaxRounds : \A rs \in [1 .. n -> RoundsOf(t)] : Sound(t, rs)}
=============================================================================
