------------------------------ MODULE Registry ------------------------------
(***************************************************************************)
(* The game-server registry: core/src/server.rs (registration, heartbeat,  *)
(* health, reconciliation) and core/src/placement.rs (reserve, release,    *)
(* retry).  The registry lives inside the single-threaded authority actor, *)
(* so each call below is one atomic step.                                  *)
(*                                                                         *)
(* Abstractions.  A registration is [total, used, inst, ...] with the      *)
(* endpoint, region and mode lists left out: which servers may host a match*)
(* is the constant Eligible.  The order in which feasible servers are      *)
(* preferred (best fit, failure count) is nondeterministic here, so the    *)
(* counter `failures` that only feeds that order is left out.  Time enters *)
(* only through update_health, whose outcome is nondeterministic but never *)
(* improves without a heartbeat or a registration.  A rejected call changes*)
(* nothing and is not a step, except the one that fails half way.          *)
(***************************************************************************)
EXTENDS Naturals, FiniteSets

CONSTANTS
  Server,        \* server identities
  Match,         \* match identities, allocated in increasing order
  Cost,          \* Cost[m]: capacity units a match reserves (mode_costs)
  Eligible,      \* Eligible[m]: servers of the match's region and mode
  Capacities,    \* the capacity_total values a registration may announce
  MaxInstances,  \* max_instances announced by every server
  MaxGeneration  \* bound on the process generations explored

ASSUME MatchAssumption == Match \subseteq Nat /\ IsFiniteSet(Match)
ASSUME CostAssumption == Cost \in [Match -> Nat \ {0}]
ASSUME EligibleAssumption == Eligible \in [Match -> SUBSET Server]
ASSUME CapacityAssumption == Capacities \subseteq Nat \ {0}
ASSUME BoundAssumption == MaxInstances \in Nat \ {0} /\ MaxGeneration \in Nat \ {0}

VARIABLES
  generation,    \* generation[s]; 0 while s has never registered
  health,        \* health[s]
  total,         \* capacity_total of s
  used,          \* capacity_used of s: the ledger
  inst,          \* inst[s][m]: state of m in s's instance map, "None" if absent
  recovered      \* history: servers that revived a lost instance and whose
                 \* ledger has not been exact and within capacity since

registryVars == <<generation, health, total, used, inst, recovered>>

InstanceState == {"Reserved", "Accepted", "Ready", "Running", "Finished", "ServerLost"}
Terminal == {"Finished", "ServerLost"}
Health == {"Healthy", "Unhealthy", "Lost"}
HealthRank == [h \in Health |-> CASE h = "Healthy" -> 0 [] h = "Unhealthy" -> 1 [] OTHER -> 2]

\* instance_state_rank; the two terminal states share a rank.
StateRank ==
  [st \in InstanceState |->
     CASE st = "Reserved" -> 0 [] st = "Accepted" -> 1 [] st = "Ready" -> 2
       [] st = "Running" -> 3 [] OTHER -> 4]

\* An instance map: match -> state, "None" where the map has no entry.
InstanceMap == [Match -> InstanceState \cup {"None"}]
NoInstances == [m \in Match |-> "None"]

RegistryTypeOK ==
  /\ generation \in [Server -> 0 .. MaxGeneration]
  /\ health \in [Server -> Health]
  /\ total \in [Server -> Capacities \cup {0}]
  /\ used \in [Server -> Nat]
  /\ inst \in [Server -> InstanceMap]
  /\ recovered \in SUBSET Server

-----------------------------------------------------------------------------
Held(im) == {m \in Match : im[m] # "None"}
Live(im) == {m \in Held(im) : im[m] \notin Terminal}
Slots(im) == {m \in Held(im) : im[m] # "Finished"}

\* The sum of the costs of the live instances, as the number of unit slots
\* they fill: match m fills the slots <<m, 1>> .. <<m, Cost[m]>>.
Units(S) == UNION {{m} \X (1 .. Cost[m]) : m \in S}
LiveCost(im) == Cardinality(Units(Live(im)))
\* Mutant: the recount is not clamped to the capacity.
AtMostUnclamped(n, bound) == n
AtMost(n, bound) == IF n <= bound THEN n ELSE bound

\* Mutant: the order of the lifecycle is not checked.
ValidReconciledStateUnordered(authoritative, reported) ==
  \/ authoritative = reported
  \/ reported \notin Terminal /\ authoritative # "Finished"

\* valid_reconciled_state: what a server may report over what ERPS holds.
ValidReconciledState(authoritative, reported) ==
  \/ authoritative = reported
  \/ /\ reported \notin Terminal
     /\ authoritative # "Finished"
     /\ IF authoritative = "ServerLost"
          THEN reported \in {"Ready", "Running"}
          ELSE StateRank[reported] >= StateRank[authoritative]

\* A report overwrites the entries it names.
Merge(im, report) == [m \in Match |-> IF report[m] = "None" THEN im[m] ELSE report[m]]

\* Entries of a report that fail the check; `bad` are those whose cost or
\* endpoint payload does not match (valid_instance_payload).
Invalid(im, report, bad) ==
  {m \in Held(report) : m \in bad \/ ~ValidReconciledState(im[m], report[m])}

Revives(im, next) == \E m \in Match : im[m] = "ServerLost" /\ next[m] \in {"Ready", "Running"}

\* History: after server s recounts its ledger the map is `next`.
Recount(s, next) ==
  recovered' = IF LiveCost(next) <= total'[s] THEN recovered \ {s} ELSE recovered \cup {s}

-----------------------------------------------------------------------------
RegistryInit ==
  /\ generation = [s \in Server |-> 0]
  /\ health = [s \in Server |-> "Lost"]
  /\ total = [s \in Server |-> 0]
  /\ used = [s \in Server |-> 0]
  /\ inst = [s \in Server |-> NoInstances]
  /\ recovered = {}

\* A server ERPS does not know registers, with the instances it already runs.
RegisterFirst(s, g, capacity, report) ==
  /\ generation[s] = 0
  /\ g \in 1 .. MaxGeneration
  /\ LiveCost(report) <= capacity
  /\ Cardinality(Held(report)) <= MaxInstances
  /\ generation' = [generation EXCEPT ![s] = g]
  /\ health' = [health EXCEPT ![s] = "Healthy"]
  /\ total' = [total EXCEPT ![s] = capacity]
  /\ used' = [used EXCEPT ![s] = LiveCost(report)]
  /\ inst' = [inst EXCEPT ![s] = report]
  /\ UNCHANGED recovered

\* The same generation registers again: only the endpoint and the clock move.
RegisterSame(s) ==
  /\ generation[s] # 0
  /\ health' = [health EXCEPT ![s] = "Healthy"]
  /\ UNCHANGED <<generation, total, used, inst, recovered>>

\* A newer process replaces the old one; its report is merged into the known
\* instances, atomically: one bad entry rejects the registration.
RegisterNewer(s, g, capacity, report) ==
  /\ generation[s] # 0
  /\ g \in generation[s] + 1 .. MaxGeneration
  /\ Held(report) \subseteq Held(inst[s])
  /\ Cardinality(Held(report)) <= MaxInstances
  /\ LiveCost(report) <= capacity
  /\ Invalid(inst[s], report, {}) = {}
  /\ LET merged == Merge(inst[s], report) IN
       /\ LiveCost(merged) <= capacity
       /\ Cardinality(Live(merged)) <= MaxInstances
       /\ inst' = [inst EXCEPT ![s] = merged]
       /\ used' = [used EXCEPT ![s] = LiveCost(merged)]
  /\ generation' = [generation EXCEPT ![s] = g]
  /\ health' = [health EXCEPT ![s] = "Healthy"]
  /\ total' = [total EXCEPT ![s] = capacity]
  /\ recovered' = recovered \ {s}

\* A heartbeat of the current generation recounts the ledger.
Heartbeat(s) ==
  /\ generation[s] # 0
  /\ health' = [health EXCEPT ![s] = "Healthy"]
  /\ used' = [used EXCEPT ![s] = AtMost(LiveCost(inst[s]), total[s])]
  /\ UNCHANGED <<generation, total, inst>>
  /\ Recount(s, inst[s])

\* update_health: every lost server loses its unfinished instances.
LoseAll(im) == [m \in Match |-> IF m \in Live(im) THEN "ServerLost" ELSE im[m]]

UpdateHealth(h) ==
  /\ \A s \in Server : HealthRank[h[s]] >= HealthRank[health[s]]
  /\ health' = h
  /\ inst' = [s \in Server |-> IF h[s] = "Lost" THEN LoseAll(inst[s]) ELSE inst[s]]
  /\ used' = [s \in Server |-> IF h[s] = "Lost" THEN 0 ELSE used[s]]
  /\ recovered' = {s \in recovered : h[s] # "Lost"}
  /\ UNCHANGED <<generation, total>>

\* reconcile: entries are applied in match order.  All valid: recount.
Reconcile(s, report) ==
  /\ generation[s] # 0
  /\ Held(report) \subseteq Held(inst[s])
  /\ Invalid(inst[s], report, {}) = {}
  /\ LET merged == Merge(inst[s], report) IN
       /\ inst' = [inst EXCEPT ![s] = merged]
       /\ used' = [used EXCEPT ![s] = AtMost(LiveCost(merged), total[s])]
       /\ UNCHANGED <<generation, health, total>>
       /\ Recount(s, merged)

\* One entry is bad: those before it stay applied and the ledger is not
\* recounted (the early returns inside the loop).
ReconcilePartial(s, report, bad) ==
  /\ generation[s] # 0
  /\ Held(report) \subseteq Held(inst[s])
  /\ \E first \in Invalid(inst[s], report, bad) :
       /\ \A m \in Invalid(inst[s], report, bad) : first <= m
       /\ LET merged == Merge(inst[s], [m \in Match |-> IF m < first THEN report[m] ELSE "None"])
          IN /\ inst' = [inst EXCEPT ![s] = merged]
             /\ recovered' = IF Revives(inst[s], merged) THEN recovered \cup {s} ELSE recovered
  /\ UNCHANGED <<generation, health, total, used>>

\* feasible / the filter of reserve: room for the cost and a free slot.
Feasible(s, m, ledger, slots) ==
  /\ health[s] = "Healthy"
  /\ s \in Eligible[m]
  /\ ledger + Cost[m] <= total[s]
  /\ Cardinality(slots) < MaxInstances

\* A new match reserves capacity (AuthorityState::launch, which counts every
\* entry of the instance map, finished ones too).
Reserve(s, m) ==
  /\ \A t \in Server : inst[t][m] = "None"
  /\ Feasible(s, m, used[s], Held(inst[s]))
  /\ used' = [used EXCEPT ![s] = @ + Cost[m]]
  /\ inst' = [inst EXCEPT ![s][m] = "Reserved"]
  /\ UNCHANGED <<generation, health, total, recovered>>

\* Mutants: a subtraction that does not saturate; no subtraction at all.
LedgerWithoutUnsaturated(s, m) ==
  IF m \notin Live(inst[s]) THEN used[s] ELSE used[s] - Cost[m]
LedgerKept(s, m) == used[s]

\* capacity_used.saturating_sub(cost), for a live instance only.
LedgerWithout(s, m) ==
  IF m \notin Live(inst[s]) THEN used[s]
  ELSE IF used[s] >= Cost[m] THEN used[s] - Cost[m] ELSE 0

Release(s, m) ==
  /\ generation[s] # 0
  /\ used' = [used EXCEPT ![s] = LedgerWithout(s, m)]
  /\ inst' = [inst EXCEPT ![s][m] = "None"]
  /\ UNCHANGED <<generation, health, total, recovered>>

\* retry_after_failure: release on the failed server, then reserve again; the
\* failed server itself may be chosen.
Retry(failed, s, m) ==
  LET freed == [used EXCEPT ![failed] = LedgerWithout(failed, m)]
      without == [inst EXCEPT ![failed][m] = "None"]
  IN /\ generation[failed] # 0
     /\ Feasible(s, m, freed[s], Slots(without[s]))
     /\ used' = [freed EXCEPT ![s] = @ + Cost[m]]
     /\ inst' = [without EXCEPT ![s][m] = "Reserved"]
     /\ UNCHANGED <<generation, health, total, recovered>>

\* The instance moves forward on a report of its server: one step of the
\* lifecycle for an Instance message (valid_reported_instance_transition).
ReportStep == {<<"Reserved", "Accepted">>, <<"Accepted", "Ready">>, <<"Ready", "Running">>}

Advance(s, m, next) ==
  /\ inst' = [inst EXCEPT ![s][m] = next]
  /\ UNCHANGED <<generation, health, total, used, recovered>>

Report(s, m) ==
  \E step \in ReportStep : inst[s][m] = step[1] /\ Advance(s, m, step[2])

\* launch_result "ready": the published match is Running at once.
Publish(s, m) ==
  /\ inst[s][m] \in {"Accepted", "Ready", "Running"}
  /\ Advance(s, m, "Running")

-----------------------------------------------------------------------------
\* What the callers guarantee: a match is only ever handled at the one server
\* that may hold it, and a server reports instances it alone runs.
OnlyAt(s, m) == \A t \in Server \ {s} : inst[t][m] = "None"

RegistryNext ==
  \/ \E s \in Server, g \in 1 .. MaxGeneration, c \in Capacities, r \in InstanceMap :
       \/ RegisterFirst(s, g, c, r) /\ \A m \in Held(r) : OnlyAt(s, m)
       \/ RegisterNewer(s, g, c, r)
  \/ \E s \in Server : RegisterSame(s) \/ Heartbeat(s)
  \/ \E h \in [Server -> Health] : UpdateHealth(h)
  \/ \E s \in Server, r \in InstanceMap :
       Reconcile(s, r) \/ \E bad \in SUBSET Match : ReconcilePartial(s, r, bad)
  \/ \E s \in Server, m \in Match : Reserve(s, m) \/ Release(s, m) \/ Report(s, m) \/ Publish(s, m)
  \/ \E s, t \in Server, m \in Match : OnlyAt(s, m) /\ Retry(s, t, m)

RegistrySpec == RegistryInit /\ [][RegistryNext]_registryVars

-----------------------------------------------------------------------------
\* Until a server brings a lost instance back, its ledger is exactly the cost
\* of its live instances and stays within its capacity, whatever the order of
\* reservations, retries, health changes, heartbeats and reports (server.rs
\* 160-271, placement.rs 30-126).
LedgerExact ==
  \A s \in Server \ recovered :
    used[s] = LiveCost(inst[s]) /\ LiveCost(inst[s]) <= total[s]

\* Even after recoveries, clamping and half-applied reports, the ledger never
\* charges for more than the live instances or the capacity: no phantom load
\* makes a server refuse matches for ever (the saturating_sub and min calls).
LedgerNeverAhead ==
  \A s \in Server : used[s] <= LiveCost(inst[s]) /\ used[s] <= total[s]

\* Of one instance: what may become of its state while it stays reserved.
LegalMove(a, b) ==
  \/ a = b \/ a = "None" \/ b = "None"
  \/ a = "ServerLost" /\ b \in {"Ready", "Running"}
  \/ /\ {a, b} \cap Terminal = {}
     /\ StateRank[a] < StateRank[b]

\* A lost server loses all it has, at once.
LosesAll(s) == health'[s] = "Lost" /\ used'[s] = 0 /\ Live(inst'[s]) = {}

\* No report, merge or half-applied report moves a live instance backwards or
\* manufactures or undoes a completion ("it must never manufacture a terminal
\* state or move a live instance backwards", server.rs 278-280): an
\* instance becomes ServerLost only with all of its server's, unless it is
\* finished, and only a retry on the same server starts one over.
LifecycleForward ==
  [][\A s \in Server, m \in Match :
       \/ LegalMove(inst[s][m], inst'[s][m])
       \/ inst[s][m] # "Finished" /\ inst'[s][m] = "ServerLost" /\ LosesAll(s)
       \/ Retry(s, s, m)]_registryVars

\* "Capacity-safe game server placement" (placement.rs 1): the live instances
\* of a server never need more than its capacity.  The code does not keep it:
\* see the run overcommit.
CapacitySafe == \A s \in Server : LiveCost(inst[s]) <= total[s]
=============================================================================
