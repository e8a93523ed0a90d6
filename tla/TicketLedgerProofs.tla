-------------------------- MODULE TicketLedgerProofs --------------------------
(* The promise about tickets, for any number of them.                          *)
EXTENDS TicketLedger, TLAPS

(* A step takes tickets out of the queue and the matches, puts tickets of a    *)
(* match back, and issues the next identity: it never brings any other in.     *)
LEMMA OnePlaceStep ==
  ASSUME OnePlace, [Next]_ledgerVars
  PROVE  OnePlace'
<1>1. CASE Issue
  <2>1. next \in Nat \ {0} /\ next' = next + 1 /\ held' = held
    BY <1>1 DEF Issue, OnePlace
  <2>2. next \notin queued /\ \A S \in held : next \notin S
    BY <2>1 DEF OnePlace
  <2>3. queued' \subseteq queued \cup {next}
    BY <1>1 DEF Issue
  <2>4. QED BY <2>1, <2>2, <2>3 DEF OnePlace
<1>2. CASE Withdraw
  BY <1>2 DEF Withdraw, OnePlace
<1>3. CASE Claim
  <2>1. PICK S \in (SUBSET queued) \ {{}} : queued' = queued \ S /\ held' = held \cup {S}
    BY <1>3 DEF Claim
  <2>2. \A T \in held : S \cap T = {}
    BY <2>1 DEF OnePlace
  <2>3. next' = next /\ queued' \subseteq 1 .. (next - 1) /\ next \in Nat \ {0}
    BY <1>3, <2>1 DEF Claim, OnePlace
  <2>4. ASSUME NEW T \in held'
        PROVE  T \subseteq 1 .. (next - 1) /\ T \cap queued' = {}
    <3>1. CASE T = S BY <2>1, <3>1 DEF OnePlace
    <3>2. CASE T \in held BY <2>1, <3>2 DEF OnePlace
    <3>3. QED BY <2>1, <3>1, <3>2
  <2>5. \A T, U \in held' : T # U => T \cap U = {}
    BY <2>1, <2>2 DEF OnePlace
  <2>6. QED BY <2>3, <2>4, <2>5 DEF OnePlace
<1>4. CASE Settle
  <2>1. PICK S \in held :
          /\ held' = held \ {S}
          /\ \E back \in SUBSET S, out \in SUBSET queued : queued' = (queued \ out) \cup back
    BY <1>4 DEF Settle
  <2>2. queued' \subseteq queued \cup S
    BY <2>1
  <2>3. \A T \in held' : S \cap T = {}
    BY <2>1 DEF OnePlace
  <2>4. QED BY <1>4, <2>1, <2>2, <2>3 DEF Settle, OnePlace
<1>5. CASE UNCHANGED ledgerVars
  BY <1>5 DEF ledgerVars, OnePlace
<1>6. QED BY <1>1, <1>2, <1>3, <1>4, <1>5 DEF Next

(* Every ticket is in one place in every reachable state. *)
THEOREM TicketsHaveOnePlace == Spec => []OnePlace
<1>1. Init => OnePlace
  BY DEF Init, OnePlace
<1>2. QED BY <1>1, OnePlaceStep, PTL DEF Spec

(* A spent ticket stays spent. *)
THEOREM SpentStaysSpent == Spec => SpentForGood
<1> DEFINE Stays == \A t \in Spent : t \in Spent'
<1>1. OnePlace /\ [Next]_ledgerVars => [Stays]_ledgerVars
  <2> SUFFICES ASSUME OnePlace, Next, NEW t \in Spent PROVE t \in Spent'
    OBVIOUS
  <2>0. /\ t \in 1 .. (next - 1) /\ next \in Nat
        /\ t \notin queued /\ \A S \in held : t \notin S
    BY DEF Spent, OnePlace
  <2>1. CASE Issue
    BY <2>0, <2>1 DEF Issue, Spent
  <2>2. CASE Withdraw
    BY <2>0, <2>2 DEF Withdraw, Spent
  <2>3. CASE Claim
    BY <2>0, <2>3 DEF Claim, Spent
  <2>4. CASE Settle
    BY <2>0, <2>4 DEF Settle, Spent
  <2>5. QED BY <2>1, <2>2, <2>3, <2>4 DEF Next
<1>2. QED BY <1>1, TicketsHaveOnePlace, PTL DEF Spec, SpentForGood
================================================================================
