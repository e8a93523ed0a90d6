--------------------------- MODULE RegistryProofs ---------------------------
(***************************************************************************)
(* For every set of servers, matches, costs and capacities: the registry   *)
(* is well typed, its ledger never runs ahead of the live instances or of  *)
(* the capacity, and it is exact except on the servers in `recovered`.     *)
(* The three invariants are inductive together; what makes the steps go    *)
(* through is how each operation changes LiveCost, stated by the lemmas of *)
(* the first part, after which LiveCost is never expanded again.           *)
(***************************************************************************)
EXTENDS Registry, FiniteSetTheorems, TLAPS

-----------------------------------------------------------------------------
\* Unit slots: finite, additive over matches, monotone.

LEMMA UnitsFinite ==
  ASSUME NEW S \in SUBSET Match
  PROVE  IsFiniteSet(Units(S))
<1> DEFINE slots == [m \in S |-> {m} \X (1 .. Cost[m])]
           image == {{m} \X (1 .. Cost[m]) : m \in S}
<1>1. IsFiniteSet(S)
  BY MatchAssumption, FS_Subset
<1>2. slots \in Surjection(S, image)
  BY DEF Surjection
<1>3. IsFiniteSet(image)
  BY <1>1, <1>2, FS_Surjection
<1>4. ASSUME NEW T \in image PROVE IsFiniteSet(T)
  <2>1. PICK m \in S : T = {m} \X (1 .. Cost[m])
    OBVIOUS
  <2>2. Cost[m] \in Int
    BY CostAssumption
  <2>3. IsFiniteSet(1 .. Cost[m])
    BY <2>2, FS_Interval
  <2>4. IsFiniteSet({m})
    BY FS_Singleton
  <2> QED BY <2>1, <2>3, <2>4, FS_Product
<1> QED BY <1>3, <1>4, FS_UNION DEF Units

LEMMA UnitsOfOne ==
  ASSUME NEW m \in Match
  PROVE  /\ IsFiniteSet({m} \X (1 .. Cost[m]))
         /\ Cardinality({m} \X (1 .. Cost[m])) = Cost[m]
<1>1. Cost[m] \in Int /\ Cost[m] > 0
  BY CostAssumption
<1>2. IsFiniteSet(1 .. Cost[m]) /\ Cardinality(1 .. Cost[m]) = Cost[m]
  <2>1. Cardinality(1 .. Cost[m]) = IF 1 > Cost[m] THEN 0 ELSE Cost[m] - 1 + 1
    BY <1>1, FS_Interval
  <2> QED BY <1>1, <2>1, FS_Interval
<1>3. IsFiniteSet({m}) /\ Cardinality({m}) = 1
  BY FS_Singleton
<1>4. /\ IsFiniteSet({m} \X (1 .. Cost[m]))
      /\ Cardinality({m} \X (1 .. Cost[m])) = Cardinality({m}) * Cardinality(1 .. Cost[m])
  BY <1>2, <1>3, FS_Product
<1> QED BY <1>1, <1>2, <1>3, <1>4

LEMMA UnitsAdd ==
  ASSUME NEW S \in SUBSET Match, NEW m \in Match \ S
  PROVE  Cardinality(Units(S \cup {m})) = Cardinality(Units(S)) + Cost[m]
<1> DEFINE one == {m} \X (1 .. Cost[m])
<1>1. Units(S \cup {m}) = Units(S) \cup one
  BY DEF Units
<1>2. Units(S) \cap one = {}
  BY DEF Units
<1>3. IsFiniteSet(Units(S)) /\ Cardinality(Units(S)) \in Nat
  BY UnitsFinite, FS_CardinalityType
<1>4. IsFiniteSet(one) /\ Cardinality(one) = Cost[m] /\ Cost[m] \in Nat
  BY UnitsOfOne, CostAssumption
<1> HIDE DEF one
<1>5. Cardinality(Units(S) \cup one)
        = Cardinality(Units(S)) + Cardinality(one) - Cardinality({})
  BY <1>2, <1>3, <1>4, FS_Union
<1>6. Cardinality({}) = 0
  BY FS_EmptySet
<1>7. Cardinality(Units(S \cup {m})) = Cardinality(Units(S)) + Cost[m] - 0
  BY <1>1, <1>4, <1>5, <1>6
<1> QED BY <1>3, <1>4, <1>7

LEMMA UnitsMonotone ==
  ASSUME NEW T \in SUBSET Match, NEW S \in SUBSET T
  PROVE  Cardinality(Units(S)) <= Cardinality(Units(T))
<1>1. Units(S) \subseteq Units(T)
  BY DEF Units
<1> QED BY <1>1, UnitsFinite, FS_Subset

-----------------------------------------------------------------------------
\* How one entry of an instance map bears on the cost of the live instances.

LEMMA LiveCostType ==
  ASSUME NEW im \in InstanceMap
  PROVE  LiveCost(im) \in Nat
<1>1. Live(im) \in SUBSET Match
  BY DEF Live, Held
<1> QED BY <1>1, UnitsFinite, FS_CardinalityType DEF LiveCost

LEMMA LiveCostReserve ==
  ASSUME NEW im \in InstanceMap, NEW m \in Match, im[m] = "None"
  PROVE  LiveCost([im EXCEPT ![m] = "Reserved"]) = LiveCost(im) + Cost[m]
<1>1. Live([im EXCEPT ![m] = "Reserved"]) = Live(im) \cup {m}
  BY DEF Live, Held, Terminal, InstanceMap
<1>2. Live(im) \in SUBSET Match /\ m \notin Live(im)
  BY DEF Live, Held
<1> QED BY <1>1, <1>2, UnitsAdd DEF LiveCost

LEMMA LiveCostDrop ==
  ASSUME NEW im \in InstanceMap, NEW m \in Match
  PROVE  LiveCost(im) = LiveCost([im EXCEPT ![m] = "None"])
                          + (IF m \in Live(im) THEN Cost[m] ELSE 0)
<1> DEFINE rest == Live(im) \ {m}
<1>1. Live([im EXCEPT ![m] = "None"]) = rest
  BY DEF Live, Held, InstanceMap
<1>2. rest \in SUBSET Match /\ m \notin rest /\ Cardinality(Units(rest)) \in Nat
  BY UnitsFinite, FS_CardinalityType DEF Live, Held
<1>3. CASE m \in Live(im)
  <2>1. Live(im) = rest \cup {m}
    BY <1>3
  <2> HIDE DEF rest
  <2> QED BY <1>1, <1>2, <1>3, <2>1, UnitsAdd DEF LiveCost
<1>4. CASE m \notin Live(im)
  <2>1. Live(im) = rest
    BY <1>4
  <2> HIDE DEF rest
  <2> QED BY <1>1, <1>2, <1>4, <2>1 DEF LiveCost
<1> QED BY <1>3, <1>4

LEMMA LiveCostAdvance ==
  ASSUME NEW im \in InstanceMap, NEW m \in Live(im),
         NEW next \in InstanceState \ Terminal
  PROVE  LiveCost([im EXCEPT ![m] = next]) = LiveCost(im)
<1>1. Live([im EXCEPT ![m] = next]) = Live(im)
  BY DEF Live, Held, InstanceMap, InstanceState, Terminal
<1> QED BY <1>1 DEF LiveCost

LEMMA LiveCostLost ==
  ASSUME NEW im \in InstanceMap
  PROVE  LoseAll(im) \in InstanceMap /\ LiveCost(LoseAll(im)) = 0
<1>1. Live(LoseAll(im)) = {}
  BY DEF LoseAll, Live, Held, Terminal, InstanceMap
<1>2. Units({}) = {}
  BY DEF Units
<1>3. LoseAll(im) \in InstanceMap
  BY DEF LoseAll, InstanceMap, InstanceState
<1> QED BY <1>1, <1>2, <1>3, FS_EmptySet DEF LiveCost

\* A report whose applied entries are all valid never ends a live instance, and
\* adds one only by reviving a lost one.
LEMMA LiveCostMerge ==
  ASSUME NEW im \in InstanceMap, NEW report \in InstanceMap,
         Held(report) \subseteq Held(im),
         \A m \in Held(report) : ValidReconciledState(im[m], report[m])
  PROVE  /\ Merge(im, report) \in InstanceMap
         /\ LiveCost(im) <= LiveCost(Merge(im, report))
         /\ ~Revives(im, Merge(im, report)) => LiveCost(Merge(im, report)) = LiveCost(im)
<1> DEFINE merged == Merge(im, report)
<1>1. merged \in InstanceMap
  BY DEF Merge, InstanceMap
<1>2. Live(im) \subseteq Live(merged)
  BY DEF Live, Held, Merge, ValidReconciledState, Terminal, InstanceMap
<1>3. ASSUME ~Revives(im, merged) PROVE Live(merged) \subseteq Live(im)
  BY <1>3 DEF Live, Held, Merge, ValidReconciledState, Terminal, InstanceMap, Revives
<1>4. Live(merged) \in SUBSET Match
  BY DEF Live, Held
<1> HIDE DEF merged
<1>5. LiveCost(im) <= LiveCost(merged)
  BY <1>2, <1>4, UnitsMonotone DEF LiveCost
<1>6. ~Revives(im, merged) => LiveCost(merged) = LiveCost(im)
  BY <1>2, <1>3 DEF LiveCost
<1> QED BY <1>1, <1>5, <1>6 DEF merged

-----------------------------------------------------------------------------
\* The inductive invariant, server by server.

LedgerOK(s) ==
  /\ used[s] <= LiveCost(inst[s])
  /\ used[s] <= total[s]
  /\ s \notin recovered => used[s] = LiveCost(inst[s])

RegistryInv == RegistryTypeOK /\ \A s \in Server : LedgerOK(s)

LEMMA ServerTypes ==
  ASSUME RegistryTypeOK, NEW s \in Server
  PROVE  /\ total[s] \in Nat /\ used[s] \in Nat
         /\ inst[s] \in InstanceMap /\ LiveCost(inst[s]) \in Nat
<1>1. inst[s] \in InstanceMap
  BY DEF RegistryTypeOK
<1>2. LiveCost(inst[s]) \in Nat
  BY <1>1, LiveCostType
<1>3. used[s] \in Nat
  BY DEF RegistryTypeOK
<1>4. Capacities \cup {0} \subseteq Nat
  BY CapacityAssumption
<1>5. total[s] \in Nat
  BY <1>4 DEF RegistryTypeOK
<1> QED BY <1>1, <1>2, <1>3, <1>5

\* A server whose four cells did not change keeps its ledger.
LEMMA LedgerFrame ==
  ASSUME NEW s \in Server, LedgerOK(s),
         used'[s] = used[s], inst'[s] = inst[s], total'[s] = total[s],
         s \in recovered => s \in recovered'
  PROVE  LedgerOK(s)'
BY DEF LedgerOK

LEMMA InitLedger == RegistryInit => RegistryInv
<1> SUFFICES ASSUME RegistryInit PROVE RegistryInv
  OBVIOUS
<1>1. NoInstances \in InstanceMap
  BY DEF NoInstances, InstanceMap
<1>2. RegistryTypeOK
  BY <1>1, BoundAssumption DEF RegistryInit, RegistryTypeOK, Health
<1>3. LiveCost(NoInstances) = 0
  <2>1. Live(NoInstances) = {}
    BY DEF Live, Held, NoInstances
  <2>2. Units({}) = {}
    BY DEF Units
  <2> QED BY <2>1, <2>2, FS_EmptySet DEF LiveCost
<1>4. \A s \in Server : LedgerOK(s)
  BY <1>3 DEF RegistryInit, LedgerOK
<1> QED BY <1>2, <1>4 DEF RegistryInv

LEMMA RegisterLedger ==
  ASSUME RegistryInv, NEW s \in Server, NEW g \in 1 .. MaxGeneration,
         NEW c \in Capacities, NEW r \in InstanceMap,
         RegisterFirst(s, g, c, r) \/ RegisterNewer(s, g, c, r)
  PROVE  RegistryInv'
<1> DEFINE next == IF generation[s] = 0 THEN r ELSE Merge(inst[s], r)
<1>1. next \in InstanceMap
  BY DEF Merge, InstanceMap, RegistryInv, RegistryTypeOK
<1>2. /\ inst' = [inst EXCEPT ![s] = next]
      /\ used' = [used EXCEPT ![s] = LiveCost(next)]
      /\ total' = [total EXCEPT ![s] = c]
      /\ generation' = [generation EXCEPT ![s] = g]
      /\ health' = [health EXCEPT ![s] = "Healthy"]
      /\ recovered' \subseteq recovered /\ recovered \ {s} \subseteq recovered'
      /\ LiveCost(next) <= c
  BY DEF RegisterFirst, RegisterNewer
<1>3. LiveCost(next) \in Nat /\ c \in Nat
  BY <1>1, LiveCostType, CapacityAssumption
<1> HIDE DEF next
<1>4. RegistryTypeOK'
  BY <1>1, <1>2, <1>3, BoundAssumption DEF RegistryInv, RegistryTypeOK, Health
<1>5. ASSUME NEW t \in Server PROVE LedgerOK(t)'
  <2>1. CASE t = s
    BY <1>2, <1>3, <2>1 DEF LedgerOK, RegistryInv, RegistryTypeOK
  <2>2. CASE t # s
    BY <1>2, <2>2, LedgerFrame DEF RegistryInv, RegistryTypeOK
  <2> QED BY <2>1, <2>2
<1> QED BY <1>4, <1>5 DEF RegistryInv

\* Heartbeat and a complete reconcile recount the ledger of the map `next`.
LEMMA RecountLedger ==
  ASSUME RegistryInv, NEW s \in Server, NEW next \in InstanceMap,
         inst' = [inst EXCEPT ![s] = next],
         used' = [used EXCEPT ![s] = AtMost(LiveCost(next), total[s])],
         health' \in [Server -> Health], UNCHANGED <<generation, total>>,
         Recount(s, next)
  PROVE  RegistryInv'
<1>1. LiveCost(next) \in Nat /\ total[s] \in Nat
  BY LiveCostType, ServerTypes DEF RegistryInv
<1>2. used' = [used EXCEPT ![s] = IF LiveCost(next) <= total[s] THEN LiveCost(next) ELSE total[s]]
  BY DEF AtMost
<1>3. RegistryTypeOK'
  BY <1>1, <1>2 DEF RegistryInv, RegistryTypeOK, Recount
<1>4. ASSUME NEW t \in Server PROVE LedgerOK(t)'
  <2>1. CASE t = s
    BY <1>1, <1>2, <2>1 DEF LedgerOK, RegistryInv, RegistryTypeOK, Recount
  <2>2. CASE t # s
    BY <2>2, LedgerFrame DEF RegistryInv, RegistryTypeOK, Recount
  <2> QED BY <2>1, <2>2
<1> QED BY <1>3, <1>4 DEF RegistryInv

LEMMA HealthLedger ==
  ASSUME RegistryInv, NEW h \in [Server -> Health], UpdateHealth(h)
  PROVE  RegistryInv'
<1>1. ASSUME NEW t \in Server
      PROVE  LoseAll(inst[t]) \in InstanceMap /\ LiveCost(LoseAll(inst[t])) = 0
  BY ServerTypes, LiveCostLost DEF RegistryInv
<1>2. RegistryTypeOK'
  BY <1>1 DEF RegistryInv, RegistryTypeOK, UpdateHealth
<1>3. ASSUME NEW t \in Server PROVE LedgerOK(t)'
  <2>1. CASE h[t] = "Lost"
    <3>1. inst'[t] = LoseAll(inst[t]) /\ used'[t] = 0 /\ total'[t] = total[t]
      BY <2>1 DEF UpdateHealth
    <3>2. total[t] \in Nat
      BY ServerTypes DEF RegistryInv
    <3> QED BY <1>1, <3>1, <3>2 DEF LedgerOK
  <2>2. CASE h[t] # "Lost"
    BY <2>2, LedgerFrame DEF UpdateHealth, RegistryInv, RegistryTypeOK
  <2> QED BY <2>1, <2>2
<1> QED BY <1>2, <1>3 DEF RegistryInv

LEMMA PartialLedger ==
  ASSUME RegistryInv, NEW s \in Server, NEW r \in InstanceMap, NEW bad \in SUBSET Match,
         ReconcilePartial(s, r, bad)
  PROVE  RegistryInv'
<1>1. PICK first \in Match :
        /\ \A m \in Invalid(inst[s], r, bad) : first <= m
        /\ LET merged == Merge(inst[s], [m \in Match |-> IF m < first THEN r[m] ELSE "None"])
           IN /\ inst' = [inst EXCEPT ![s] = merged]
              /\ recovered' = IF Revives(inst[s], merged) THEN recovered \cup {s} ELSE recovered
  BY DEF ReconcilePartial, Invalid, Held
<1> DEFINE applied == [m \in Match |-> IF m < first THEN r[m] ELSE "None"]
           merged == Merge(inst[s], applied)
<1>2. applied \in InstanceMap
  BY DEF InstanceMap
<1>3. Held(applied) \subseteq Held(inst[s])
  BY DEF ReconcilePartial, Held
<1>4. ASSUME NEW m \in Held(applied)
      PROVE  ValidReconciledState(inst[s][m], applied[m])
  <2>1. m \in Held(r) /\ m < first /\ applied[m] = r[m]
    BY DEF Held
  <2>2. m \notin Invalid(inst[s], r, bad)
    BY <1>1, <2>1, MatchAssumption DEF Held
  <2> QED BY <2>1, <2>2 DEF Invalid
<1> HIDE DEF applied
<1>5. inst[s] \in InstanceMap /\ LiveCost(inst[s]) \in Nat /\ used[s] \in Nat
  BY ServerTypes DEF RegistryInv
<1>6. /\ merged \in InstanceMap
      /\ LiveCost(inst[s]) <= LiveCost(merged)
      /\ ~Revives(inst[s], merged) => LiveCost(merged) = LiveCost(inst[s])
  BY <1>2, <1>3, <1>4, <1>5, LiveCostMerge
<1>7. LiveCost(merged) \in Nat
  BY <1>6, LiveCostType
<1>8. /\ inst' = [inst EXCEPT ![s] = merged]
      /\ recovered' = IF Revives(inst[s], merged) THEN recovered \cup {s} ELSE recovered
      /\ UNCHANGED <<generation, health, total, used>>
  BY <1>1 DEF ReconcilePartial, applied
<1> HIDE DEF merged
<1>9. RegistryTypeOK'
  BY <1>6, <1>8 DEF RegistryInv, RegistryTypeOK
<1>10. ASSUME NEW t \in Server PROVE LedgerOK(t)'
  <2>1. CASE t = s
    BY <1>5, <1>6, <1>7, <1>8, <2>1 DEF LedgerOK, RegistryInv, RegistryTypeOK
  <2>2. CASE t # s
    BY <1>8, <2>2, LedgerFrame DEF RegistryInv, RegistryTypeOK
  <2> QED BY <2>1, <2>2
<1> QED BY <1>9, <1>10 DEF RegistryInv

\* A live instance that moves on changes no cost.
LEMMA AdvanceLedger ==
  ASSUME RegistryInv, NEW s \in Server, NEW m \in Live(inst[s]),
         NEW next \in InstanceState \ Terminal, Advance(s, m, next)
  PROVE  RegistryInv'
<1> DEFINE after == [inst[s] EXCEPT ![m] = next]
<1>1. inst[s] \in InstanceMap /\ m \in Match
  BY ServerTypes DEF RegistryInv, Live, Held
<1>2. after \in InstanceMap /\ LiveCost(after) = LiveCost(inst[s])
  BY <1>1, LiveCostAdvance DEF InstanceMap
<1>3. inst' = [inst EXCEPT ![s] = after] /\ UNCHANGED <<generation, health, total, used, recovered>>
  BY DEF Advance, RegistryInv, RegistryTypeOK
<1> HIDE DEF after
<1>4. RegistryTypeOK'
  BY <1>2, <1>3 DEF RegistryInv, RegistryTypeOK
<1>5. ASSUME NEW t \in Server PROVE LedgerOK(t)'
  BY <1>2, <1>3 DEF LedgerOK, RegistryInv, RegistryTypeOK
<1> QED BY <1>4, <1>5 DEF RegistryInv

\* A server's ledger and map once m is released on it.
LEMMA FreedLedger ==
  ASSUME RegistryInv, NEW s \in Server, NEW m \in Match
  PROVE  LET u == LedgerWithout(s, m)
             im == [inst[s] EXCEPT ![m] = "None"]
         IN /\ u \in Nat /\ im \in InstanceMap /\ LiveCost(im) \in Nat
            /\ u <= LiveCost(im) /\ u <= total[s]
            /\ s \notin recovered => u = LiveCost(im)
<1> DEFINE im == [inst[s] EXCEPT ![m] = "None"]
<1>1. /\ inst[s] \in InstanceMap /\ LiveCost(inst[s]) \in Nat
      /\ used[s] \in Nat /\ total[s] \in Nat
  BY ServerTypes DEF RegistryInv
<1>2. im \in InstanceMap
  BY <1>1 DEF InstanceMap
<1>3. LiveCost(im) \in Nat
  BY <1>2, LiveCostType
<1>4. LiveCost(inst[s]) = LiveCost(im) + (IF m \in Live(inst[s]) THEN Cost[m] ELSE 0)
  BY <1>1, LiveCostDrop
<1>5. Cost[m] \in Nat
  BY CostAssumption
<1>6. LedgerOK(s)
  BY DEF RegistryInv
<1> HIDE DEF im
<1>7. /\ LedgerWithout(s, m) \in Nat
      /\ LedgerWithout(s, m) <= LiveCost(im)
      /\ LedgerWithout(s, m) <= total[s]
      /\ s \notin recovered => LedgerWithout(s, m) = LiveCost(im)
  BY <1>1, <1>3, <1>4, <1>5, <1>6 DEF LedgerOK, LedgerWithout
<1> QED BY <1>2, <1>3, <1>7 DEF im

LEMMA ReserveLedger ==
  ASSUME RegistryInv, NEW s \in Server, NEW m \in Match, Reserve(s, m)
  PROVE  RegistryInv'
<1> DEFINE im == [inst[s] EXCEPT ![m] = "Reserved"]
<1>1. /\ inst[s] \in InstanceMap /\ LiveCost(inst[s]) \in Nat
      /\ used[s] \in Nat /\ total[s] \in Nat /\ Cost[m] \in Nat
  BY ServerTypes, CostAssumption DEF RegistryInv
<1>2. inst[s][m] = "None" /\ used[s] + Cost[m] <= total[s]
  BY DEF Reserve, Feasible
<1>3. im \in InstanceMap /\ LiveCost(im) = LiveCost(inst[s]) + Cost[m]
  BY <1>1, <1>2, LiveCostReserve DEF InstanceMap, InstanceState
<1>4. /\ inst' = [inst EXCEPT ![s] = im]
      /\ used' = [used EXCEPT ![s] = used[s] + Cost[m]]
      /\ UNCHANGED <<generation, health, total, recovered>>
  BY DEF Reserve, RegistryInv, RegistryTypeOK
<1> HIDE DEF im
<1>5. RegistryTypeOK'
  BY <1>1, <1>3, <1>4 DEF RegistryInv, RegistryTypeOK
<1>6. ASSUME NEW t \in Server PROVE LedgerOK(t)'
  BY <1>1, <1>2, <1>3, <1>4 DEF LedgerOK, RegistryInv, RegistryTypeOK
<1> QED BY <1>5, <1>6 DEF RegistryInv

LEMMA ReleaseLedger ==
  ASSUME RegistryInv, NEW s \in Server, NEW m \in Match, Release(s, m)
  PROVE  RegistryInv'
<1> DEFINE im == [inst[s] EXCEPT ![m] = "None"]
           u == LedgerWithout(s, m)
<1>1. /\ u \in Nat /\ im \in InstanceMap
      /\ u <= LiveCost(im) /\ u <= total[s]
      /\ s \notin recovered => u = LiveCost(im)
  BY FreedLedger
<1>2. /\ inst' = [inst EXCEPT ![s] = im] /\ used' = [used EXCEPT ![s] = u]
      /\ UNCHANGED <<generation, health, total, recovered>>
  BY DEF Release, RegistryInv, RegistryTypeOK
<1> HIDE DEF im, u
<1>3. RegistryTypeOK'
  BY <1>1, <1>2 DEF RegistryInv, RegistryTypeOK
<1>4. ASSUME NEW t \in Server PROVE LedgerOK(t)'
  BY <1>1, <1>2 DEF LedgerOK, RegistryInv, RegistryTypeOK
<1> QED BY <1>3, <1>4 DEF RegistryInv

LEMMA RetryLedger ==
  ASSUME RegistryInv, NEW failed \in Server, NEW s \in Server, NEW m \in Match,
         OnlyAt(failed, m), Retry(failed, s, m)
  PROVE  RegistryInv'
<1> DEFINE im == [inst[failed] EXCEPT ![m] = "None"]
           u == LedgerWithout(failed, m)
           freed == [used EXCEPT ![failed] = u]
           without == [inst EXCEPT ![failed] = im]
           charged == [without[s] EXCEPT ![m] = "Reserved"]
<1>1. /\ u \in Nat /\ im \in InstanceMap /\ LiveCost(im) \in Nat
      /\ u <= LiveCost(im) /\ u <= total[failed]
      /\ failed \notin recovered => u = LiveCost(im)
  BY FreedLedger
<1>2. used \in [Server -> Nat] /\ inst \in [Server -> InstanceMap] /\ Cost[m] \in Nat
  BY CostAssumption DEF RegistryInv, RegistryTypeOK
<1>3. im[m] = "None"
  BY <1>2 DEF InstanceMap
<1>4. /\ freed[s] + Cost[m] <= total[s]
      /\ used' = [freed EXCEPT ![s] = freed[s] + Cost[m]]
      /\ inst' = [without EXCEPT ![s] = charged]
      /\ UNCHANGED <<generation, health, total, recovered>>
  BY <1>2 DEF Retry, Feasible
<1> HIDE DEF im, u
<1>5. freed \in [Server -> Nat] /\ without \in [Server -> InstanceMap] /\ without[s][m] = "None"
  BY <1>1, <1>2, <1>3 DEF OnlyAt
<1>6. ASSUME NEW t \in Server
      PROVE  /\ freed[t] <= LiveCost(without[t]) /\ freed[t] <= total[t]
             /\ t \notin recovered => freed[t] = LiveCost(without[t])
  BY <1>1, <1>2 DEF RegistryInv, LedgerOK
<1>7. charged \in InstanceMap /\ LiveCost(charged) = LiveCost(without[s]) + Cost[m]
  BY <1>5, LiveCostReserve DEF InstanceMap, InstanceState
<1>8. ASSUME NEW t \in Server PROVE LiveCost(without[t]) \in Nat /\ total[t] \in Nat
  BY <1>5, LiveCostType, ServerTypes DEF RegistryInv
<1> HIDE DEF freed, without, charged
<1>9. RegistryTypeOK'
  BY <1>2, <1>4, <1>5, <1>7 DEF RegistryInv, RegistryTypeOK
<1>10. ASSUME NEW t \in Server PROVE LedgerOK(t)'
  BY <1>2, <1>4, <1>5, <1>6, <1>7, <1>8 DEF LedgerOK
<1> QED BY <1>9, <1>10 DEF RegistryInv

-----------------------------------------------------------------------------
LEMMA NextLedger == RegistryInv /\ [RegistryNext]_registryVars => RegistryInv'
<1> SUFFICES ASSUME RegistryInv, [RegistryNext]_registryVars PROVE RegistryInv'
  OBVIOUS
<1>1. ASSUME NEW s \in Server, NEW g \in 1 .. MaxGeneration, NEW c \in Capacities,
             NEW r \in InstanceMap,
             RegisterFirst(s, g, c, r) \/ RegisterNewer(s, g, c, r)
      PROVE  RegistryInv'
  BY <1>1, RegisterLedger
<1>2. ASSUME NEW s \in Server, RegisterSame(s) PROVE RegistryInv'
  <2>1. RegistryTypeOK'
    BY <1>2 DEF RegisterSame, RegistryInv, RegistryTypeOK, Health
  <2>2. ASSUME NEW t \in Server PROVE LedgerOK(t)'
    BY <1>2, LedgerFrame DEF RegisterSame, RegistryInv
  <2> QED BY <2>1, <2>2 DEF RegistryInv
<1>3. ASSUME NEW s \in Server, Heartbeat(s) PROVE RegistryInv'
  <2>1. inst[s] \in InstanceMap /\ inst = [inst EXCEPT ![s] = inst[s]]
    BY DEF RegistryInv, RegistryTypeOK
  <2>2. health' \in [Server -> Health]
    BY <1>3 DEF Heartbeat, RegistryInv, RegistryTypeOK, Health
  <2> QED BY <1>3, <2>1, <2>2, RecountLedger DEF Heartbeat
<1>4. ASSUME NEW h \in [Server -> Health], UpdateHealth(h) PROVE RegistryInv'
  BY <1>4, HealthLedger
<1>5. ASSUME NEW s \in Server, NEW r \in InstanceMap, Reconcile(s, r) PROVE RegistryInv'
  <2>1. Merge(inst[s], r) \in InstanceMap
    BY DEF Merge, InstanceMap, RegistryInv, RegistryTypeOK
  <2>2. health' \in [Server -> Health]
    BY <1>5 DEF Reconcile, RegistryInv, RegistryTypeOK
  <2> QED BY <1>5, <2>1, <2>2, RecountLedger DEF Reconcile
<1>6. ASSUME NEW s \in Server, NEW r \in InstanceMap, NEW bad \in SUBSET Match,
             ReconcilePartial(s, r, bad)
      PROVE  RegistryInv'
  BY <1>6, PartialLedger
<1>7. ASSUME NEW s \in Server, NEW m \in Match, Reserve(s, m) PROVE RegistryInv'
  BY <1>7, ReserveLedger
<1>8. ASSUME NEW s \in Server, NEW m \in Match, Release(s, m) PROVE RegistryInv'
  BY <1>8, ReleaseLedger
<1>9. ASSUME NEW s \in Server, NEW m \in Match, Report(s, m) \/ Publish(s, m)
      PROVE  RegistryInv'
  <2>1. PICK next \in InstanceState \ Terminal :
          m \in Live(inst[s]) /\ Advance(s, m, next)
    BY <1>9 DEF Report, ReportStep, Publish, Live, Held, InstanceState, Terminal
  <2> QED BY <2>1, AdvanceLedger
<1>10. ASSUME NEW s \in Server, NEW t \in Server, NEW m \in Match,
              OnlyAt(s, m), Retry(s, t, m)
       PROVE  RegistryInv'
  BY <1>10, RetryLedger
<1>11. CASE UNCHANGED registryVars
  BY <1>11 DEF registryVars, RegistryInv, RegistryTypeOK, LedgerOK
<1> QED BY <1>1, <1>2, <1>3, <1>4, <1>5, <1>6, <1>7, <1>8, <1>9, <1>10, <1>11 DEF RegistryNext

\* The invariant holds of the whole registry, for all values of the constants.
THEOREM RegistryInvariant == RegistrySpec => []RegistryInv
BY InitLedger, NextLedger, PTL DEF RegistrySpec

\* Type correctness.
THEOREM RegistryTypes == RegistrySpec => []RegistryTypeOK
<1>1. RegistryInv => RegistryTypeOK
  BY DEF RegistryInv
<1> QED BY <1>1, RegistryInvariant, PTL

\* The ledger charges for no more than the live instances and the capacity.
THEOREM LedgerIsNeverAhead == RegistrySpec => []LedgerNeverAhead
<1>1. RegistryInv => LedgerNeverAhead
  BY DEF RegistryInv, LedgerOK, LedgerNeverAhead
<1> QED BY <1>1, RegistryInvariant, PTL

\* Where no lost instance came back, the ledger is the exact cost of the live
\* instances, and they fit into the capacity.
THEOREM LedgerIsExact == RegistrySpec => []LedgerExact
<1>1. RegistryInv => LedgerExact
  BY DEF RegistryInv, LedgerOK, LedgerExact
<1> QED BY <1>1, RegistryInvariant, PTL

-----------------------------------------------------------------------------
\* Lifecycles.  An instance only moves forward: what a report may do follows
\* from ValidReconciledState entry by entry.  A first registration overwrites
\* the whole instance map, so the step also needs that ERPS holds no instance
\* of a server it does not know, which in turn needs that such a server is
\* never healthy.

UnknownHoldsNothing ==
  \A s \in Server : generation[s] = 0 => inst[s] = NoInstances /\ health[s] = "Lost"

ForwardInv == RegistryTypeOK /\ UnknownHoldsNothing

\* What may become of every instance of every server in one step.
Forward ==
  \A s \in Server, m \in Match :
    \/ LegalMove(inst[s][m], inst'[s][m])
    \/ inst[s][m] # "Finished" /\ inst'[s][m] = "ServerLost" /\ LosesAll(s)
    \/ Retry(s, s, m)

-----------------------------------------------------------------------------
\* Moves of single instances.

LEMMA ReportIsLegal ==
  ASSUME NEW a \in InstanceState \cup {"None"}, NEW b \in InstanceState,
         ValidReconciledState(a, b)
  PROVE  LegalMove(a, b)
<1>1. CASE a = "None" \/ a = b \/ a = "ServerLost"
  BY <1>1 DEF LegalMove, ValidReconciledState
<1>2. CASE a \notin {"None", "ServerLost"} /\ a # b
  <2>1. a \notin Terminal /\ b \notin Terminal /\ StateRank[b] >= StateRank[a]
    BY <1>2 DEF ValidReconciledState, Terminal
  <2>2. /\ StateRank["Reserved"] = 0 /\ StateRank["Accepted"] = 1
        /\ StateRank["Ready"] = 2 /\ StateRank["Running"] = 3
    BY DEF StateRank, InstanceState
  <2>3. a \in {"Reserved", "Accepted", "Ready", "Running"}
    BY <1>2, <2>1 DEF InstanceState, Terminal
  <2>4. b \in {"Reserved", "Accepted", "Ready", "Running"}
    BY <2>1 DEF InstanceState, Terminal
  <2>5. StateRank[a] < StateRank[b]
    BY <1>2, <2>1, <2>2, <2>3, <2>4
  <2> QED BY <2>1, <2>5 DEF LegalMove
<1> QED BY <1>1, <1>2

LEMMA MergeIsLegal ==
  ASSUME NEW im \in InstanceMap, NEW report \in InstanceMap, NEW m \in Match,
         report[m] = "None" \/ ValidReconciledState(im[m], report[m])
  PROVE  LegalMove(im[m], Merge(im, report)[m])
<1>1. CASE report[m] = "None"
  BY <1>1 DEF Merge, LegalMove
<1>2. CASE report[m] # "None"
  <2>1. im[m] \in InstanceState \cup {"None"} /\ report[m] \in InstanceState
    BY <1>2 DEF InstanceMap
  <2>2. Merge(im, report)[m] = report[m]
    BY <1>2 DEF Merge
  <2> QED BY <1>2, <2>1, <2>2, ReportIsLegal
<1> QED BY <1>1, <1>2

\* A change of one server's map: the other servers' instances stay.
LEMMA OneServerForward ==
  ASSUME NEW s \in Server, NEW next \in InstanceMap, inst \in [Server -> InstanceMap],
         inst' = [inst EXCEPT ![s] = next],
         \A m \in Match : LegalMove(inst[s][m], next[m]) \/ Retry(s, s, m)
  PROVE  Forward
<1>1. ASSUME NEW t \in Server, NEW m \in Match, t # s
      PROVE  LegalMove(inst[t][m], inst'[t][m])
  BY <1>1 DEF LegalMove
<1> QED BY <1>1 DEF Forward

\* A change of one instance.
LEMMA OneInstanceForward ==
  ASSUME NEW s \in Server, NEW m \in Match, NEW next \in InstanceState \cup {"None"},
         inst \in [Server -> InstanceMap], inst' = [inst EXCEPT ![s][m] = next],
         LegalMove(inst[s][m], next)
  PROVE  Forward
<1> DEFINE map == [inst[s] EXCEPT ![m] = next]
<1>1. map \in InstanceMap /\ inst' = [inst EXCEPT ![s] = map]
  BY DEF InstanceMap
<1>2. \A n \in Match : LegalMove(inst[s][n], map[n])
  BY DEF LegalMove, InstanceMap
<1> QED BY <1>1, <1>2, OneServerForward

LEMMA RetryForward ==
  ASSUME NEW failed \in Server, NEW s \in Server, NEW m \in Match,
         inst \in [Server -> InstanceMap], OnlyAt(failed, m), Retry(failed, s, m)
  PROVE  Forward
<1> SUFFICES ASSUME NEW t \in Server, NEW n \in Match
             PROVE  LegalMove(inst[t][n], inst'[t][n]) \/ Retry(t, t, n)
  BY DEF Forward
<1>1. inst' = [[inst EXCEPT ![failed][m] = "None"] EXCEPT ![s][m] = "Reserved"]
  BY DEF Retry
<1>2. CASE n # m \/ t \notin {failed, s}
  <2>1. inst'[t][n] = inst[t][n]
    BY <1>1, <1>2 DEF InstanceMap
  <2> QED BY <2>1 DEF LegalMove
<1>3. CASE n = m /\ t = s /\ t # failed
  <2>1. inst[t][n] = "None"
    BY <1>3 DEF OnlyAt
  <2> QED BY <2>1 DEF LegalMove
<1>4. CASE n = m /\ t = failed /\ t # s
  <2>1. inst'[t][n] = "None"
    BY <1>1, <1>4 DEF InstanceMap
  <2> QED BY <2>1 DEF LegalMove
<1>5. CASE n = m /\ t = failed /\ t = s
  BY <1>5
<1> QED BY <1>2, <1>3, <1>4, <1>5

-----------------------------------------------------------------------------
\* Servers ERPS does not know.

LEMMA UnknownStep ==
  ASSUME ForwardInv, [RegistryNext]_registryVars
  PROVE  UnknownHoldsNothing'
<1> SUFFICES ASSUME NEW u \in Server, generation'[u] = 0
             PROVE  inst'[u] = NoInstances /\ health'[u] = "Lost"
  BY DEF UnknownHoldsNothing
<1> USE DEF ForwardInv, RegistryTypeOK
<1>1. ASSUME NEW s \in Server, NEW g \in 1 .. MaxGeneration, NEW c \in Capacities,
             NEW r \in InstanceMap,
             RegisterFirst(s, g, c, r) \/ RegisterNewer(s, g, c, r)
      PROVE  inst'[u] = NoInstances /\ health'[u] = "Lost"
  <2>1. g # 0 /\ generation' = [generation EXCEPT ![s] = g]
    BY <1>1 DEF RegisterFirst, RegisterNewer
  <2>2. u # s /\ generation[u] = 0
    BY <2>1
  <2> QED BY <1>1, <2>2 DEF UnknownHoldsNothing, RegisterFirst, RegisterNewer
<1>2. ASSUME NEW s \in Server, RegisterSame(s) \/ Heartbeat(s)
      PROVE  inst'[u] = NoInstances /\ health'[u] = "Lost"
  BY <1>2 DEF UnknownHoldsNothing, RegisterSame, Heartbeat
<1>3. ASSUME NEW h \in [Server -> Health], UpdateHealth(h)
      PROVE  inst'[u] = NoInstances /\ health'[u] = "Lost"
  <2>1. inst[u] = NoInstances /\ health[u] = "Lost"
    BY <1>3 DEF UpdateHealth, UnknownHoldsNothing
  <2>2. HealthRank["Healthy"] = 0 /\ HealthRank["Unhealthy"] = 1 /\ HealthRank["Lost"] = 2
    BY DEF HealthRank, Health
  <2>3. h[u] = "Lost"
    BY <1>3, <2>1, <2>2 DEF UpdateHealth, Health
  <2>4. LoseAll(NoInstances) = NoInstances
    BY DEF LoseAll, NoInstances, Live, Held
  <2> QED BY <1>3, <2>1, <2>3, <2>4 DEF UpdateHealth
<1>4. ASSUME NEW s \in Server, NEW r \in InstanceMap,
             Reconcile(s, r) \/ \E bad \in SUBSET Match : ReconcilePartial(s, r, bad)
      PROVE  inst'[u] = NoInstances /\ health'[u] = "Lost"
  <2>1. /\ generation[s] # 0 /\ UNCHANGED <<generation, health>>
        /\ \E next : inst' = [inst EXCEPT ![s] = next]
    BY <1>4 DEF Reconcile, ReconcilePartial
  <2> QED BY <2>1 DEF UnknownHoldsNothing
<1>5. ASSUME NEW s \in Server, NEW m \in Match, Reserve(s, m)
      PROVE  inst'[u] = NoInstances /\ health'[u] = "Lost"
  BY <1>5 DEF UnknownHoldsNothing, Reserve, Feasible
<1>6. ASSUME NEW s \in Server, NEW m \in Match, Release(s, m)
      PROVE  inst'[u] = NoInstances /\ health'[u] = "Lost"
  BY <1>6 DEF UnknownHoldsNothing, Release
<1>7. ASSUME NEW s \in Server, NEW m \in Match, Report(s, m) \/ Publish(s, m)
      PROVE  inst'[u] = NoInstances /\ health'[u] = "Lost"
  <2>1. inst[s] # NoInstances
    BY <1>7 DEF Report, ReportStep, Publish, NoInstances
  <2> QED BY <1>7, <2>1 DEF UnknownHoldsNothing, Report, Publish, Advance
<1>8. ASSUME NEW s \in Server, NEW t \in Server, NEW m \in Match, Retry(s, t, m)
      PROVE  inst'[u] = NoInstances /\ health'[u] = "Lost"
  BY <1>8 DEF UnknownHoldsNothing, Retry, Feasible
<1>9. CASE UNCHANGED registryVars
  BY <1>9 DEF registryVars, UnknownHoldsNothing
<1> QED BY <1>1, <1>2, <1>3, <1>4, <1>5, <1>6, <1>7, <1>8, <1>9 DEF RegistryNext

-----------------------------------------------------------------------------
LEMMA ForwardStep ==
  ASSUME ForwardInv, [RegistryNext]_registryVars
  PROVE  Forward \/ UNCHANGED registryVars
<1> USE DEF ForwardInv, RegistryTypeOK
<1>1. ASSUME NEW s \in Server, NEW g \in 1 .. MaxGeneration, NEW c \in Capacities,
             NEW r \in InstanceMap, RegisterFirst(s, g, c, r)
      PROVE  Forward
  <2>1. \A m \in Match : inst[s][m] = "None"
    BY <1>1 DEF RegisterFirst, UnknownHoldsNothing, NoInstances
  <2>2. \A m \in Match : LegalMove(inst[s][m], r[m])
    BY <2>1 DEF LegalMove
  <2> QED BY <1>1, <2>2, OneServerForward DEF RegisterFirst
<1>2. ASSUME NEW s \in Server, NEW r \in InstanceMap, NEW im \in InstanceMap,
             im = inst[s], inst' = [inst EXCEPT ![s] = Merge(im, r)],
             \A m \in Held(r) : ValidReconciledState(im[m], r[m])
      PROVE  Forward
  <2>1. Merge(im, r) \in InstanceMap
    BY DEF Merge, InstanceMap
  <2>2. ASSUME NEW m \in Match PROVE LegalMove(im[m], Merge(im, r)[m])
    BY <1>2, MergeIsLegal DEF Held
  <2> QED BY <1>2, <2>1, <2>2, OneServerForward
<1>3. ASSUME NEW s \in Server, NEW g \in 1 .. MaxGeneration, NEW c \in Capacities,
             NEW r \in InstanceMap, RegisterNewer(s, g, c, r)
      PROVE  Forward
  BY <1>2, <1>3 DEF RegisterNewer, Invalid
<1>4. ASSUME NEW s \in Server, NEW r \in InstanceMap, Reconcile(s, r) PROVE Forward
  BY <1>2, <1>4 DEF Reconcile, Invalid
<1>5. ASSUME NEW s \in Server, NEW r \in InstanceMap, NEW bad \in SUBSET Match,
             ReconcilePartial(s, r, bad)
      PROVE  Forward
  <2>1. PICK first \in Match :
          /\ \A m \in Invalid(inst[s], r, bad) : first <= m
          /\ inst' = [inst EXCEPT ![s] =
               Merge(inst[s], [m \in Match |-> IF m < first THEN r[m] ELSE "None"])]
    BY <1>5 DEF ReconcilePartial, Invalid, Held
  <2> DEFINE applied == [m \in Match |-> IF m < first THEN r[m] ELSE "None"]
  <2>2. applied \in InstanceMap
    BY DEF InstanceMap
  <2>3. ASSUME NEW m \in Held(applied) PROVE ValidReconciledState(inst[s][m], applied[m])
    <3>1. m \in Held(r) /\ m < first /\ applied[m] = r[m]
      BY DEF Held
    <3>2. m \notin Invalid(inst[s], r, bad)
      BY <2>1, <3>1, MatchAssumption DEF Held
    <3> QED BY <3>1, <3>2 DEF Invalid
  <2>4. inst' = [inst EXCEPT ![s] = Merge(inst[s], applied)]
    BY <2>1
  <2> HIDE DEF applied
  <2> QED BY <1>2, <2>2, <2>3, <2>4
<1>6. ASSUME NEW h \in [Server -> Health], UpdateHealth(h) PROVE Forward
  <2>1. ASSUME NEW s \in Server, h[s] # "Lost", NEW m \in Match
        PROVE  LegalMove(inst[s][m], inst'[s][m])
    BY <1>6, <2>1 DEF UpdateHealth, LegalMove
  <2>2. ASSUME NEW s \in Server, h[s] = "Lost"
        PROVE  LosesAll(s) /\ inst'[s] = LoseAll(inst[s])
    <3>1. inst'[s] = LoseAll(inst[s]) /\ health'[s] = "Lost" /\ used'[s] = 0
      BY <1>6, <2>2 DEF UpdateHealth
    <3>2. Live(LoseAll(inst[s])) = {}
      BY DEF LoseAll, Live, Held, Terminal
    <3> QED BY <3>1, <3>2 DEF LosesAll
  <2>3. ASSUME NEW s \in Server, h[s] = "Lost", NEW m \in Match
        PROVE  \/ LegalMove(inst[s][m], inst'[s][m])
               \/ inst[s][m] # "Finished" /\ inst'[s][m] = "ServerLost" /\ LosesAll(s)
    BY <2>2, <2>3 DEF LoseAll, LegalMove, Live, Terminal
  <2> QED BY <2>1, <2>3 DEF Forward
<1>7. ASSUME NEW s \in Server, NEW m \in Match, Reserve(s, m) \/ Release(s, m)
      PROVE  Forward
  <2>1. PICK next \in {"Reserved", "None"} :
          /\ inst' = [inst EXCEPT ![s][m] = next]
          /\ inst[s][m] = "None" \/ next = "None"
    BY <1>7 DEF Reserve, Release
  <2> QED BY <2>1, OneInstanceForward DEF LegalMove, InstanceState
<1>8. ASSUME NEW s \in Server, NEW m \in Match, Report(s, m) \/ Publish(s, m)
      PROVE  Forward
  <2>1. PICK next \in InstanceState :
          /\ inst' = [inst EXCEPT ![s][m] = next]
          /\ <<inst[s][m], next>> \in ReportStep \cup
               {<<"Accepted", "Running">>, <<"Ready", "Running">>, <<"Running", "Running">>}
    BY <1>8 DEF Report, Publish, Advance, ReportStep, InstanceState
  <2>2. /\ StateRank["Reserved"] = 0 /\ StateRank["Accepted"] = 1
        /\ StateRank["Ready"] = 2 /\ StateRank["Running"] = 3
    BY DEF StateRank, InstanceState
  <2>3. LegalMove(inst[s][m], next)
    BY <2>1, <2>2 DEF ReportStep, LegalMove, Terminal
  <2> QED BY <2>1, <2>3, OneInstanceForward
<1>9. ASSUME NEW s \in Server, NEW t \in Server, NEW m \in Match,
             OnlyAt(s, m), Retry(s, t, m)
      PROVE  Forward
  BY <1>9, RetryForward
<1>10. ASSUME NEW s \in Server, RegisterSame(s) \/ Heartbeat(s) PROVE Forward
  BY <1>10 DEF RegisterSame, Heartbeat, Forward, LegalMove
<1> QED BY <1>1, <1>3, <1>4, <1>5, <1>6, <1>7, <1>8, <1>9, <1>10 DEF RegistryNext

\* ERPS holds nothing of a server that never registered, and such a server is
\* never taken for healthy.
THEOREM UnknownServersHoldNothing == RegistrySpec => []UnknownHoldsNothing
<1>1. RegistryInit => UnknownHoldsNothing
  BY DEF RegistryInit, UnknownHoldsNothing
<1>2. RegistryTypeOK /\ UnknownHoldsNothing /\ [RegistryNext]_registryVars
        => UnknownHoldsNothing'
  BY UnknownStep DEF ForwardInv
<1> QED BY <1>1, <1>2, RegistryTypes, PTL DEF RegistrySpec

\* No report, merge or half-applied report moves a live instance backwards,
\* ends it, or undoes a completion, and none but a lost server's instances
\* become ServerLost, all of them at once (update_health;
\* valid_reconciled_state, server.rs 274-292).
THEOREM LifecyclesMoveForward == RegistrySpec => LifecycleForward
<1>1. RegistryTypeOK /\ UnknownHoldsNothing /\ [RegistryNext]_registryVars
        => [\A s \in Server, m \in Match :
              \/ LegalMove(inst[s][m], inst'[s][m])
              \/ inst[s][m] # "Finished" /\ inst'[s][m] = "ServerLost" /\ LosesAll(s)
              \/ Retry(s, s, m)]_registryVars
  BY ForwardStep DEF ForwardInv, Forward
<1> QED BY <1>1, RegistryTypes, UnknownServersHoldNothing, PTL DEF RegistrySpec, LifecycleForward
=============================================================================
