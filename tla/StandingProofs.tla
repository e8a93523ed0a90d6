---------------------------- MODULE StandingProofs ----------------------------
(* Proofs about module Standing: types, the deadline of everybody below the    *)
(* minimum, the agreement of provider and authority, and that a suspension     *)
(* does not end by connecting again, for every number of players and calls and *)
(* every credit policy.                                                        *)
EXTENDS Standing, SequenceTheorems, TLAPS

(* A suspension has a length of its own. *)
LEMMA PositiveProduct ==
  ASSUME NEW a \in Nat \ {0}, NEW b \in Nat \ {0}
  PROVE  a * b \in Nat \ {0}
OBVIOUS

LEMMA ScoreLemma ==
  ASSUME NEW score \in 0 .. Full
  PROVE  /\ \A cause \in Cause : AfterPenalty(score, cause) \in 0 .. score
         /\ \A completed \in Nat : AfterMatch(score, completed) \in score .. Full
<1>1. ASSUME NEW cause \in Cause PROVE AfterPenalty(score, cause) \in 0 .. score
  BY <1>1, StandingAssumption DEF AfterPenalty, Less, Cause
<1>2. ASSUME NEW completed \in Nat PROVE AfterMatch(score, completed) \in score .. Full
  BY <1>2, StandingAssumption DEF AfterMatch
<1>3. QED BY <1>1, <1>2

LEMMA ProfileFields ==
  ASSUME NEW old \in Profile
  PROVE  /\ old.credit \in 0 .. Full /\ old.credit \in Nat /\ old.credit <= old.credit
         /\ old.violations \in Nat /\ old.games \in Nat
BY StandingAssumption DEF Profile

LEMMA FreshTyped == Fresh \in Profile
BY StandingAssumption DEF Fresh, Profile

(* The updates nearly every command makes. *)
LEMMA BlamedProfile ==
  ASSUME NEW old \in Profile, NEW score \in 0 .. old.credit, NEW new,
         new = [old EXCEPT !.credit = score, !.violations = @ + 1]
  PROVE  new \in Profile /\ new.credit <= old.credit /\ new.violations \in Nat \ {0}
<1>1. score \in 0 .. Full /\ score <= old.credit
  BY ProfileFields, StandingAssumption
<1>2. new.credit = score /\ new.violations = old.violations + 1
  BY DEF Profile
<1>3. old.violations + 1 \in Nat \ {0}
  BY ProfileFields
<1>4. new \in Profile
  BY <1>1, <1>3 DEF Profile
<1>5. QED BY <1>1, <1>2, <1>3, <1>4

LEMMA PlayedProfile ==
  ASSUME NEW old \in Profile, NEW score \in old.credit .. Full, NEW new,
         new = [old EXCEPT !.credit = score, !.games = @ + 1]
  PROVE  new \in Profile /\ new.credit >= old.credit /\ new.games > old.games
<1>1. score \in 0 .. Full /\ score >= old.credit
  BY ProfileFields, StandingAssumption
<1>2. new.credit = score /\ new.games = old.games + 1
  BY DEF Profile
<1>3. old.games + 1 \in Nat /\ old.games + 1 > old.games
  BY ProfileFields
<1>4. new \in Profile
  BY <1>1, <1>3 DEF Profile
<1>5. QED BY <1>1, <1>2, <1>3, <1>4

LEMMA OutdateTyped ==
  ASSUME StandingTypeOK, NEW S, Outdate(S)
  PROVE  opening' \in [Call -> InFlight \cup {Idle}]
<1>1. ASSUME NEW c \in Call, opening[c].busy
      PROVE  [opening[c] EXCEPT !.exact = FALSE] \in InFlight
  <2>1. opening[c] \in InFlight
    BY <1>1 DEF StandingTypeOK, Idle
  <2>2. QED BY <2>1 DEF InFlight
<1>2. QED BY <1>1 DEF Outdate, StandingTypeOK

LEMMA SaveOfTyped ==
  ASSUME StandingTypeOK, NEW S, profile' \in [Player -> Profile], SaveOf(S)
  PROVE  pending' \in [Player -> Seq(Profile)]
<1>1. ASSUME NEW p \in Player PROVE Append(pending[p], profile'[p]) \in Seq(Profile)
  BY <1>1 DEF StandingTypeOK
<1>2. QED BY <1>1 DEF SaveOf, StandingTypeOK

-------------------------------------------------------------------------------
(* Types *)

LEMMA CancelTyped ==
  ASSUME StandingTypeOK, NEW affected \in SUBSET Player, NEW cause \in [affected -> Cause],
         Cancel(affected, cause)
  PROVE  /\ StandingTypeOK'
         /\ \A p \in Player : profile'[p].credit < Minimum =>
              until'[p] # 0 \/ (profile'[p] = profile[p] /\ until'[p] = until[p])
         /\ \A p \in Player : /\ profile'[p].credit <= profile[p].credit
                              /\ until'[p] = until[p] \/ until'[p] > now
<1> DEFINE blamed == {p \in affected : cause[p] # "None"}
<1>1. ASSUME NEW p \in Player
      PROVE  /\ profile'[p] \in Profile
             /\ profile'[p].credit <= profile[p].credit
             /\ p \in blamed => profile'[p].violations \in Nat \ {0}
             /\ p \notin blamed => profile'[p] = profile[p]
  <2>1. profile[p] \in Profile
    BY DEF StandingTypeOK
  <2>2. CASE p \in blamed
    <3>1. profile'[p] = [profile[p] EXCEPT !.credit = AfterPenalty(@, cause[p]), !.violations = @ + 1]
      BY <2>2 DEF Cancel
    <3>2. cause[p] \in Cause
      BY <2>2
    <3>3. AfterPenalty(profile[p].credit, cause[p]) \in 0 .. profile[p].credit
      BY <2>1, <3>2, ScoreLemma DEF Profile
    <3>4. QED BY <2>1, <2>2, <3>1, <3>3, BlamedProfile
  <2>3. CASE p \notin blamed
    <3>1. profile'[p] = profile[p]
      BY <2>3 DEF Cancel
    <3>2. QED BY <2>1, <2>3, <3>1, ProfileFields
  <2>4. QED BY <2>2, <2>3
<1>2. profile' \in [Player -> Profile]
  BY <1>1 DEF Cancel
<1>3. ASSUME NEW p \in Player
      PROVE  /\ until'[p] \in Nat
             /\ until'[p] = until[p] \/ until'[p] > now
             /\ p \in blamed /\ profile'[p].credit < Minimum => until'[p] # 0
             /\ p \notin blamed => until'[p] = until[p]
  <2>1. until'[p] = IF p \in blamed /\ profile'[p].credit < Minimum THEN Deadline(p) ELSE until[p]
    BY DEF Cancel
  <2>2. CASE p \in blamed /\ profile'[p].credit < Minimum
    <3>1. Suspension * profile'[p].violations \in Nat \ {0}
      BY <1>1, <2>2, PositiveProduct, StandingAssumption
    <3>2. Deadline(p) \in Nat /\ Deadline(p) > now
      BY <3>1 DEF Deadline, StandingTypeOK
    <3>3. QED BY <2>1, <2>2, <3>2 DEF StandingTypeOK
  <2>3. CASE ~(p \in blamed /\ profile'[p].credit < Minimum)
    BY <2>1, <2>3 DEF StandingTypeOK
  <2>4. QED BY <2>2, <2>3
<1>4. until' \in [Player -> Nat]
  BY <1>3 DEF Cancel
<1>5. opening' \in [Call -> InFlight \cup {Idle}]
  BY OutdateTyped DEF Cancel
<1>6. pending' \in [Player -> Seq(Profile)]
  BY <1>2, SaveOfTyped DEF Cancel
<1>7. since' \in [Player -> Nat] /\ changes' \in Nat
  <2>1. changes \in Nat /\ since \in [Player -> Nat]
    BY DEF StandingTypeOK
  <2>2. changes' = changes + 1
    BY DEF Cancel
  <2>3. since' = [p \in Player |-> IF p \in blamed THEN 0 ELSE since[p]]
    BY DEF Cancel
  <2>4. since' \in [Player -> Nat]
    BY <2>1, <2>3
  <2>5. QED BY <2>1, <2>2, <2>4
<1>8. StandingTypeOK'
  BY <1>2, <1>4, <1>5, <1>6, <1>7 DEF Cancel, Command, StandingTypeOK
<1>9. QED BY <1>1, <1>3, <1>8

LEMMA FinishTyped ==
  ASSUME StandingTypeOK, NEW roster \in SUBSET Player, Finish(roster)
  PROVE  /\ StandingTypeOK'
         /\ \A p \in Player :
              /\ profile'[p].credit >= profile[p].credit
              /\ profile'[p] = profile[p] \/ profile'[p].games > profile[p].games
<1>1. ASSUME NEW p \in Player
      PROVE  /\ profile'[p] \in Profile
             /\ profile'[p].credit >= profile[p].credit
             /\ profile'[p] = profile[p] \/ profile'[p].games > profile[p].games
  <2>1. profile[p] \in Profile /\ since[p] \in Nat
    BY DEF StandingTypeOK
  <2>2. AfterMatch(profile[p].credit, since[p]) \in profile[p].credit .. Full
    BY <2>1, ScoreLemma DEF Profile
  <2>3. CASE p \in roster
    <3>1. profile'[p] = [profile[p] EXCEPT !.credit = AfterMatch(@, since[p]), !.games = @ + 1]
      BY <2>3 DEF Finish
    <3>2. QED BY <2>1, <2>2, <3>1, PlayedProfile
  <2>4. CASE p \notin roster
    <3>1. profile'[p] = profile[p]
      BY <2>4 DEF Finish
    <3>2. QED BY <2>1, <3>1, ProfileFields
  <2>5. QED BY <2>3, <2>4
<1>2. profile' \in [Player -> Profile]
  BY <1>1 DEF Finish
<1>3. opening' \in [Call -> InFlight \cup {Idle}]
  BY OutdateTyped DEF Finish
<1>4. pending' \in [Player -> Seq(Profile)]
  BY <1>2, SaveOfTyped DEF Finish
<1>5. since' \in [Player -> Nat] /\ changes' \in Nat
  <2>1. changes \in Nat /\ \A p \in Player : since[p] \in Nat /\ since[p] + 1 \in Nat
    BY DEF StandingTypeOK
  <2>2. changes' = changes + 1
    BY DEF Finish
  <2>3. since' = [p \in Player |->
          IF p \notin roster THEN since[p]
          ELSE IF profile'[p].credit > profile[p].credit THEN 0 ELSE since[p] + 1]
    BY DEF Finish
  <2>4. since' \in [Player -> Nat]
    BY <2>1, <2>3
  <2>5. QED BY <2>1, <2>2, <2>4
<1>6. QED BY <1>1, <1>2, <1>3, <1>4, <1>5 DEF Finish, Command, StandingTypeOK

LEMMA LoadTyped ==
  ASSUME StandingTypeOK, NEW c \in Call, NEW p \in Player, Load(c, p)
  PROVE  StandingTypeOK'
<1>1. stored[p] \in Profile
  BY DEF StandingTypeOK
<1>2. opening'[c] \in InFlight
  BY <1>1 DEF Load, InFlight, StandingTypeOK
<1>3. opening' \in [Call -> InFlight \cup {Idle}]
  BY <1>2 DEF Load, StandingTypeOK
<1>4. QED BY <1>3 DEF Load, StandingTypeOK

LEMMA OpenTyped ==
  ASSUME StandingTypeOK, NEW c \in Call, Open(c)
  PROVE  /\ StandingTypeOK'
         /\ opening[c] \in InFlight
         /\ LET p == opening[c].player
            IN  /\ profile'[p] = opening[c].profile
                /\ profile'[p].credit < Minimum => until'[p] # 0
                /\ until[p] # 0 => until'[p] = until[p]
                /\ \A q \in Player \ {p} : profile'[q] = profile[q] /\ until'[q] = until[q]
<1> DEFINE p == opening[c].player
           loaded == opening[c].profile
<1>1. opening[c] \in InFlight
  BY DEF Open, StandingTypeOK, Idle
<1>2. p \in Player /\ loaded \in Profile
  BY <1>1 DEF InFlight
<1>3. profile' = [profile EXCEPT ![p] = loaded] /\ until' = [until EXCEPT ![p] = OpenedUntil(p, loaded)]
  BY DEF Open
<1>4. Suspension * (IF loaded.violations = 0 THEN 1 ELSE loaded.violations) \in Nat \ {0}
  <2>1. loaded.violations \in Nat
    BY <1>2 DEF Profile
  <2>2. CASE loaded.violations = 0
    BY <2>2, PositiveProduct, StandingAssumption
  <2>3. CASE loaded.violations # 0
    BY <2>1, <2>3, PositiveProduct, StandingAssumption
  <2>4. QED BY <2>2, <2>3
<1>5. /\ OpenedUntil(p, loaded) \in Nat
      /\ loaded.credit < Minimum => OpenedUntil(p, loaded) # 0
      /\ until[p] # 0 => OpenedUntil(p, loaded) = until[p]
  BY <1>2, <1>4 DEF OpenedUntil, StandingTypeOK
<1>6. profile' \in [Player -> Profile] /\ until' \in [Player -> Nat]
  BY <1>2, <1>3, <1>5 DEF StandingTypeOK
<1>7. opening' \in [Call -> InFlight \cup {Idle}]
  <2>1. ASSUME NEW d \in Call, opening[d].busy
        PROVE  [opening[d] EXCEPT !.exact = FALSE] \in InFlight
    <3>1. opening[d] \in InFlight
      BY <2>1 DEF StandingTypeOK, Idle
    <3>2. QED BY <3>1 DEF InFlight
  <2>2. ASSUME NEW d \in Call PROVE opening'[d] \in InFlight \cup {Idle}
    BY <2>1, <2>2 DEF Open, StandingTypeOK
  <2>3. QED BY <2>2 DEF Open
<1>8. connected' \subseteq Player /\ doubt' \subseteq Player
  BY <1>2 DEF Open, StandingTypeOK
<1>9. StandingTypeOK'
  BY <1>6, <1>7, <1>8 DEF Open, Command, StandingTypeOK
<1>10. QED BY <1>1, <1>2, <1>3, <1>5, <1>9 DEF StandingTypeOK

LEMMA SavedTyped ==
  ASSUME StandingTypeOK, NEW p \in Player, Saved(p)
  PROVE  /\ pending' \in [Player -> Seq(Profile)] /\ saving' \in BOOLEAN
         /\ pending[p] \in Seq(Profile) /\ pending[p] # << >> /\ Head(pending[p]) \in Profile
         /\ Tail(pending[p]) \in Seq(Profile)
<1>1. pending[p] \in Seq(Profile) /\ pending[p] # << >>
  BY DEF Saved, Unsaved, StandingTypeOK
<1>2. Head(pending[p]) \in Profile /\ Tail(pending[p]) \in Seq(Profile)
  BY <1>1
<1>3. QED BY <1>1, <1>2 DEF Saved, StandingTypeOK

LEMMA TypeStep == StandingTypeOK /\ [Next]_vars => StandingTypeOK'
<1> SUFFICES ASSUME StandingTypeOK, [Next]_vars PROVE StandingTypeOK'
  OBVIOUS
<1>1. ASSUME NEW affected \in SUBSET Player \ {{}}, NEW cause \in [affected -> Cause],
             Cancel(affected, cause)
      PROVE  StandingTypeOK'
  BY <1>1, CancelTyped
<1>2. ASSUME NEW roster \in SUBSET Player \ {{}}, Finish(roster) PROVE StandingTypeOK'
  BY <1>2, FinishTyped
<1>3. ASSUME NEW c \in Call, NEW p \in Player, Load(c, p) PROVE StandingTypeOK'
  BY <1>3, LoadTyped
<1>4. ASSUME NEW c \in Call, Open(c) PROVE StandingTypeOK'
  BY <1>4, OpenTyped
<1>5. ASSUME NEW c \in Call, GiveUp(c) PROVE StandingTypeOK'
  BY <1>5 DEF GiveUp, StandingTypeOK
<1>6. CASE EndBatch
  BY <1>6 DEF EndBatch, StandingTypeOK
<1>7. ASSUME NEW p \in Player, Save(p) PROVE StandingTypeOK'
  BY <1>7, SavedTyped DEF Save, Saved, StandingTypeOK
<1>8. ASSUME NEW p \in Player, SaveFails(p) PROVE StandingTypeOK'
  <2>1. Saved(p) /\ faults' = faults + 1 /\ doubt' = doubt \cup {p} /\ UNCHANGED stored
    BY <1>8 DEF SaveFails
  <2>2. faults' \in Nat /\ doubt' \subseteq Player
    BY <2>1 DEF StandingTypeOK
  <2>3. QED BY <2>1, <2>2, SavedTyped DEF Saved, StandingTypeOK
<1>9. CASE Restart
  <2>1. Fresh \in Profile
    BY FreshTyped
  <2>2. profile' \in [Player -> Profile] /\ since' \in [Player -> Nat] /\ until' \in [Player -> Nat]
    BY <1>9, <2>1 DEF Restart
  <2>3. pending' \in [Player -> Seq(Profile)]
    BY <1>9 DEF Restart
  <2>4. opening' \in [Call -> InFlight \cup {Idle}]
    BY <1>9 DEF Restart
  <2>5. faults' \in Nat
    BY <1>9 DEF Restart, StandingTypeOK
  <2>6. QED BY <1>9, <2>2, <2>3, <2>4, <2>5 DEF Restart, StandingTypeOK
<1>10. CASE Pass
  BY <1>10 DEF Pass, StandingTypeOK
<1>11. CASE UNCHANGED vars
  BY <1>11 DEF vars, StandingTypeOK
<1>12. QED BY <1>1, <1>2, <1>3, <1>4, <1>5, <1>6, <1>7, <1>8, <1>9, <1>10, <1>11 DEF Next

(* Full of credit, without saves or calls.  The initial states of every        *)
(* invariant below.                                                            *)
LEMMA InitTyped == Init => StandingTypeOK
<1> SUFFICES ASSUME Init PROVE StandingTypeOK
  OBVIOUS
<1>1. profile \in [Player -> Profile] /\ stored \in [Player -> Profile]
  BY FreshTyped DEF Init
<1>2. pending \in [Player -> Seq(Profile)] /\ opening \in [Call -> InFlight \cup {Idle}]
  BY DEF Init
<1>3. since \in [Player -> Nat] /\ until \in [Player -> Nat]
  BY DEF Init
<1>4. /\ connected \subseteq Player /\ doubt \subseteq Player /\ saving \in BOOLEAN
      /\ now \in Nat \ {0} /\ changes \in Nat /\ faults \in Nat
  <2>1. now = 1 /\ changes = 0 /\ faults = 0
    BY DEF Init
  <2>2. now \in Nat \ {0} /\ changes \in Nat /\ faults \in Nat
    BY <2>1
  <2>3. connected \subseteq Player /\ doubt \subseteq Player /\ saving \in BOOLEAN
    BY DEF Init
  <2>4. QED BY <2>2, <2>3
<1>5. QED BY <1>1, <1>2, <1>3, <1>4 DEF StandingTypeOK

(* Scores stay within 0 .. Full in the authority, in the provider and between  *)
(* them: the subtraction of credit.rs:43 saturates, the recovery of :45 is     *)
(* capped, whatever the policy and the order of penalties and recoveries.      *)
THEOREM StandingTypes == Spec => []StandingTypeOK
BY InitTyped, TypeStep, PTL DEF Spec

-------------------------------------------------------------------------------
(* Provider and authority.  StandingInv is inductive: the agreement of the two *)
(* rests on what the saves still to come will write and on what the calls in   *)
(* flight have read.                                                           *)
StandingInv ==
  /\ StandingTypeOK
  /\ UnknownHasNothing
  /\ LastSaveCurrent
  /\ LoadsExact
  /\ LowCreditHasDeadline
  /\ StoreAgrees

(* A command that changes the profiles of S, all of connected players, that    *)
(* has those of S and some others saved, and that outdates the calls of S.     *)
LEMMA ChangeKeepsStore ==
  ASSUME StandingInv, StandingTypeOK',
         NEW S \in SUBSET Player, NEW T \in SUBSET connected, S \subseteq T,
         SaveOf(T), Outdate(S),
         \A p \in Player \ S : profile'[p] = profile[p],
         UNCHANGED <<connected, stored, doubt>>
  PROVE  /\ UnknownHasNothing' /\ LastSaveCurrent' /\ LoadsExact' /\ StoreAgrees'
<1>1. ASSUME NEW p \in Player
      PROVE  /\ p \in T => pending'[p] = Append(pending[p], profile'[p])
             /\ p \notin T => pending'[p] = pending[p] /\ profile'[p] = profile[p]
  BY DEF SaveOf
<1>2. UnknownHasNothing'
  BY <1>1 DEF UnknownHasNothing, StandingInv
<1>3. ASSUME NEW p \in T
      PROVE  /\ p \in Player
             /\ pending'[p] # << >> /\ pending'[p][Len(pending'[p])] = profile'[p]
  <2>1. p \in Player /\ pending[p] \in Seq(Profile) /\ profile'[p] \in Profile
    BY DEF StandingInv, StandingTypeOK
  <2>2. pending'[p] = Append(pending[p], profile'[p])
    BY <1>1, <2>1
  <2>3. Append(pending[p], profile'[p]) # << >>
    BY <2>1
  <2>4. LET all == Append(pending[p], profile'[p]) IN all[Len(all)] = profile'[p]
    BY <2>1
  <2>5. QED BY <2>1, <2>2, <2>3, <2>4
<1>4. LastSaveCurrent'
  <2> SUFFICES ASSUME NEW p \in connected' \ doubt', Unsaved(p)'
               PROVE  pending'[p][Len(pending'[p])] = profile'[p]
    BY DEF LastSaveCurrent
  <2>1. p \in connected \ doubt /\ p \in Player
    BY DEF StandingInv, StandingTypeOK
  <2>2. CASE p \in T
    BY <2>2, <1>3
  <2>3. CASE p \notin T
    <3>1. pending'[p] = pending[p] /\ profile'[p] = profile[p]
      BY <2>1, <2>3, <1>1
    <3>2. QED BY <2>1, <3>1 DEF Unsaved, StandingInv, LastSaveCurrent
  <2>4. QED BY <2>2, <2>3
<1>5. LoadsExact'
  <2> SUFFICES ASSUME NEW c \in Call, opening'[c].busy, opening'[c].exact
               PROVE  opening'[c].profile = IF opening'[c].player \in connected'
                                            THEN profile'[opening'[c].player]
                                            ELSE stored'[opening'[c].player]
    BY DEF LoadsExact
  <2>1. opening[c].busy /\ opening[c] \in InFlight
    <3>1. CASE opening[c].busy
      BY <3>1 DEF StandingInv, StandingTypeOK, Idle
    <3>2. CASE ~opening[c].busy
      BY <3>2 DEF Outdate
    <3>3. QED BY <3>1, <3>2
  <2>2. opening[c].player \notin S
    BY <2>1 DEF Outdate, InFlight
  <2>3. opening'[c] = opening[c]
    BY <2>2 DEF Outdate
  <2>4. opening[c].player \in Player
    BY <2>1 DEF InFlight
  <2>5. QED BY <2>1, <2>2, <2>3, <2>4 DEF StandingInv, LoadsExact
<1>6. StoreAgrees'
  <2> SUFFICES ASSUME NEW p \in connected'
               PROVE  stored'[p] = profile'[p] \/ Unsaved(p)' \/ p \in doubt'
    BY DEF StoreAgrees
  <2>1. p \in connected /\ p \in Player
    BY DEF StandingInv, StandingTypeOK
  <2>2. CASE p \in T
    BY <2>2, <1>3 DEF Unsaved
  <2>3. CASE p \notin T
    BY <2>1, <2>3, <1>1 DEF Unsaved, StandingInv, StoreAgrees
  <2>4. QED BY <2>2, <2>3
<1>7. QED BY <1>2, <1>4, <1>5, <1>6


LEMMA CancelKeeps ==
  ASSUME StandingInv, NEW affected \in SUBSET Player, NEW cause \in [affected -> Cause],
         Cancel(affected, cause)
  PROVE  StandingInv'
<1> DEFINE blamed == {p \in affected : cause[p] # "None"}
<1>1. StandingTypeOK'
  BY CancelTyped DEF StandingInv
<1>2. \A p \in Player \ blamed : profile'[p] = profile[p]
  BY DEF Cancel
<1>3. /\ blamed \in SUBSET Player /\ affected \in SUBSET connected /\ blamed \subseteq affected
      /\ SaveOf(affected) /\ Outdate(blamed) /\ UNCHANGED <<connected, stored, doubt>>
  BY DEF Cancel, Command
<1>4. UnknownHasNothing' /\ LastSaveCurrent' /\ LoadsExact' /\ StoreAgrees'
  BY <1>1, <1>2, <1>3, ChangeKeepsStore
<1>5. LowCreditHasDeadline'
  <2> SUFFICES ASSUME NEW p \in connected', profile'[p].credit < Minimum PROVE until'[p] # 0
    BY DEF LowCreditHasDeadline
  <2>1. p \in connected /\ p \in Player
    BY <1>3 DEF StandingInv, StandingTypeOK
  <2>2. until'[p] # 0 \/ (profile'[p] = profile[p] /\ until'[p] = until[p])
    BY <2>1, CancelTyped DEF StandingInv
  <2>3. QED BY <2>1, <2>2 DEF StandingInv, LowCreditHasDeadline
<1>6. QED BY <1>1, <1>4, <1>5 DEF StandingInv

LEMMA FinishKeeps ==
  ASSUME StandingInv, NEW roster \in SUBSET Player, Finish(roster)
  PROVE  StandingInv'
<1>1. StandingTypeOK'
  BY FinishTyped DEF StandingInv
<1>2. \A p \in Player \ roster : profile'[p] = profile[p]
  BY DEF Finish
<1>3. /\ roster \in SUBSET connected /\ roster \subseteq roster
      /\ SaveOf(roster) /\ Outdate(roster) /\ UNCHANGED <<connected, stored, doubt, until>>
  BY DEF Finish, Command
<1>4. UnknownHasNothing' /\ LastSaveCurrent' /\ LoadsExact' /\ StoreAgrees'
  BY <1>1, <1>2, <1>3, ChangeKeepsStore
<1>5. LowCreditHasDeadline'
  <2> SUFFICES ASSUME NEW p \in connected', profile'[p].credit < Minimum PROVE until'[p] # 0
    BY DEF LowCreditHasDeadline
  <2>1. p \in connected /\ p \in Player /\ until'[p] = until[p]
    BY <1>3 DEF StandingInv, StandingTypeOK
  <2>2. profile'[p].credit >= profile[p].credit
    BY <2>1, FinishTyped DEF StandingInv
  <2>3. profile[p].credit \in Nat /\ profile'[p].credit \in Nat /\ Minimum \in Nat
    BY <1>1, <2>1, ProfileFields, StandingAssumption DEF StandingInv, StandingTypeOK
  <2>4. profile[p].credit < Minimum
    BY <2>2, <2>3
  <2>5. QED BY <2>1, <2>4 DEF StandingInv, LowCreditHasDeadline
<1>6. QED BY <1>1, <1>4, <1>5 DEF StandingInv

LEMMA LoadKeeps ==
  ASSUME StandingInv, NEW c \in Call, NEW p \in Player, Load(c, p)
  PROVE  StandingInv'
<1>1. StandingTypeOK'
  BY LoadTyped DEF StandingInv
<1>2. UNCHANGED <<profile, until, connected, stored, pending, doubt>>
  BY DEF Load
<1>3. LoadsExact'
  <2> SUFFICES ASSUME NEW d \in Call, opening'[d].busy, opening'[d].exact
               PROVE  opening'[d].profile = IF opening'[d].player \in connected'
                                            THEN profile'[opening'[d].player]
                                            ELSE stored'[opening'[d].player]
    BY DEF LoadsExact
  <2>1. CASE d = c
    <3>1. /\ opening'[d].player = p /\ opening'[d].profile = stored[p]
          /\ p \notin connected \/ (~Unsaved(p) /\ p \notin doubt)
      BY <2>1 DEF Load, StandingInv, StandingTypeOK
    <3>2. p \in connected => stored[p] = profile[p]
      BY <3>1 DEF StandingInv, StoreAgrees
    <3>3. QED BY <1>2, <3>1, <3>2
  <2>2. CASE d # c
    <3>1. opening'[d] = opening[d]
      BY <2>2 DEF Load, StandingInv, StandingTypeOK
    <3>2. QED BY <1>2, <3>1 DEF StandingInv, LoadsExact
  <2>3. QED BY <2>1, <2>2
<1>4. QED BY <1>1, <1>2, <1>3 DEF StandingInv, UnknownHasNothing, LastSaveCurrent, StoreAgrees,
                                  LowCreditHasDeadline, Unsaved


(* The command of open_session: what an exact call has loaded is what its      *)
(* player has already, in the authority or, without a session, in the          *)
(* provider.                                                                   *)
LEMMA OpenKeeps ==
  ASSUME StandingInv, NEW c \in Call, Open(c)
  PROVE  StandingInv'
<1> DEFINE p == opening[c].player
<1>1. /\ StandingTypeOK' /\ opening[c] \in InFlight
      /\ profile'[p] = opening[c].profile
      /\ profile'[p].credit < Minimum => until'[p] # 0
      /\ \A q \in Player \ {p} : profile'[q] = profile[q] /\ until'[q] = until[q]
  BY OpenTyped DEF StandingInv
<1>2. /\ p \in Player /\ connected \subseteq Player
      /\ connected' = connected \cup {p} /\ UNCHANGED <<stored, pending>>
      /\ doubt' = IF opening[c].exact THEN doubt ELSE doubt \cup {p}
  BY <1>1 DEF Open, Command, InFlight, StandingInv, StandingTypeOK
<1>3. opening[c].exact => opening[c].profile = IF p \in connected THEN profile[p] ELSE stored[p]
  BY DEF Open, StandingInv, LoadsExact
<1>4. UnknownHasNothing'
  BY <1>2 DEF StandingInv, UnknownHasNothing
<1>5. LastSaveCurrent'
  <2> SUFFICES ASSUME NEW q \in connected' \ doubt', Unsaved(q)'
               PROVE  pending'[q][Len(pending'[q])] = profile'[q]
    BY DEF LastSaveCurrent
  <2>1. pending'[q] = pending[q] /\ Unsaved(q) /\ q \notin doubt /\ q \in Player
    BY <1>2 DEF Unsaved
  <2>2. q \in connected
    BY <2>1 DEF Unsaved, StandingInv, UnknownHasNothing
  <2>3. profile'[q] = profile[q]
    BY <1>1, <1>2, <1>3, <2>1, <2>2
  <2>4. QED BY <2>1, <2>2, <2>3 DEF StandingInv, LastSaveCurrent
<1>6. LoadsExact'
  <2> SUFFICES ASSUME NEW d \in Call, opening'[d].busy, opening'[d].exact
               PROVE  opening'[d].profile = IF opening'[d].player \in connected'
                                            THEN profile'[opening'[d].player]
                                            ELSE stored'[opening'[d].player]
    BY DEF LoadsExact
  <2>1. d # c /\ opening[d].busy
    BY DEF Open, Idle
  <2>2. opening[d] \in InFlight /\ opening[d].player \in Player
    <3>1. opening[d] \in InFlight
      BY <2>1 DEF StandingInv, StandingTypeOK, Idle
    <3>2. QED BY <3>1 DEF InFlight
  <2>3. opening'[d] = opening[d] /\ (opening[d].player = p => opening[c].exact)
    BY <2>1, <2>2 DEF Open, InFlight
  <2>4. opening[d].profile = IF opening[d].player \in connected
                             THEN profile[opening[d].player] ELSE stored[opening[d].player]
    BY <2>1, <2>3 DEF StandingInv, LoadsExact
  <2>5. CASE opening[d].player = p
    BY <1>1, <1>2, <1>3, <2>3, <2>4, <2>5
  <2>6. CASE opening[d].player # p
    BY <1>1, <1>2, <2>2, <2>3, <2>4, <2>6
  <2>7. QED BY <2>5, <2>6
<1>7. LowCreditHasDeadline'
  BY <1>1, <1>2 DEF StandingInv, LowCreditHasDeadline
<1>8. StoreAgrees'
  <2> SUFFICES ASSUME NEW q \in connected'
               PROVE  stored'[q] = profile'[q] \/ Unsaved(q)' \/ q \in doubt'
    BY DEF StoreAgrees
  <2>1. CASE q = p
    BY <1>1, <1>2, <1>3, <2>1 DEF Unsaved, StandingInv, StoreAgrees
  <2>2. CASE q # p
    BY <1>1, <1>2, <2>2 DEF Unsaved, StandingInv, StoreAgrees
  <2>3. QED BY <2>1, <2>2
<1>9. QED BY <1>1, <1>4, <1>5, <1>6, <1>7, <1>8 DEF StandingInv

LEMMA LastOfTail ==
  ASSUME NEW s \in Seq(Profile), s # << >>, Tail(s) # << >>
  PROVE  Tail(s)[Len(Tail(s))] = s[Len(s)]
<1>1. /\ Tail(s) \in Seq(Profile) /\ Len(Tail(s)) = Len(s) - 1
      /\ \A i \in 1 .. Len(Tail(s)) : Tail(s)[i] = s[i + 1]
  BY HeadTailProperties
<1>2. Len(s) \in Nat /\ Len(Tail(s)) \in Nat /\ Len(Tail(s)) # 0
  BY <1>1, EmptySeq, LenProperties
<1>3. Len(Tail(s)) \in 1 .. Len(Tail(s))
  BY <1>2
<1>4. Tail(s)[Len(Tail(s))] = s[(Len(s) - 1) + 1]
  BY <1>1, <1>3
<1>5. (Len(s) - 1) + 1 = Len(s)
  BY <1>2
<1>6. QED BY <1>4, <1>5

LEMMA HeadOfOne ==
  ASSUME NEW s \in Seq(Profile), s # << >>, Tail(s) = << >>
  PROVE  Head(s) = s[Len(s)]
<1>1. Len(s) \in Nat /\ Len(s) - 1 = 0
  BY HeadTailProperties, EmptySeq, LenProperties
<1>2. Len(s) = 1
  BY <1>1
<1>3. Head(s) = s[1]
  OBVIOUS
<1>4. QED BY <1>2, <1>3

(* The oldest change of p leaves the queue, stored or lost. *)
LEMMA SavedKeeps ==
  ASSUME StandingInv, StandingTypeOK', NEW p \in Player, Saved(p),
         \/ stored' = [stored EXCEPT ![p] = Head(pending[p])] /\ UNCHANGED doubt
         \/ UNCHANGED stored /\ doubt' = doubt \cup {p}
  PROVE  StandingInv'
<1>1. /\ pending[p] \in Seq(Profile) /\ pending[p] # << >> /\ p \in connected
      /\ pending \in [Player -> Seq(Profile)] /\ stored \in [Player -> Profile]
  BY DEF Saved, Unsaved, StandingInv, StandingTypeOK, UnknownHasNothing
<1>2. /\ UNCHANGED <<profile, since, until, connected, opening>>
      /\ pending'[p] = Tail(pending[p])
      /\ \A q \in Player \ {p} : pending'[q] = pending[q] /\ stored'[q] = stored[q]
  BY <1>1 DEF Saved
<1>3. connected \subseteq Player
  BY DEF StandingInv, StandingTypeOK
<1>4. UnknownHasNothing'
  BY <1>1, <1>2 DEF StandingInv, UnknownHasNothing
<1>5. Tail(pending[p]) # << >> =>
        Tail(pending[p])[Len(Tail(pending[p]))] = pending[p][Len(pending[p])]
  BY <1>1, LastOfTail
<1>6. Tail(pending[p]) = << >> => Head(pending[p]) = pending[p][Len(pending[p])]
  BY <1>1, HeadOfOne
<1>7. p \notin doubt' => pending[p][Len(pending[p])] = profile[p]
  BY <1>1 DEF Unsaved, StandingInv, LastSaveCurrent
<1>8. LastSaveCurrent'
  <2> SUFFICES ASSUME NEW q \in connected' \ doubt', Unsaved(q)'
               PROVE  pending'[q][Len(pending'[q])] = profile'[q]
    BY DEF LastSaveCurrent
  <2>1. CASE q = p
    BY <1>2, <1>5, <1>7, <2>1 DEF Unsaved
  <2>2. CASE q # p
    BY <1>2, <1>3, <2>2 DEF Unsaved, StandingInv, LastSaveCurrent
  <2>3. QED BY <2>1, <2>2
<1>9. LoadsExact'
  <2> SUFFICES ASSUME NEW d \in Call, opening[d].busy, opening[d].exact
               PROVE  opening[d].profile = IF opening[d].player \in connected
                                           THEN profile[opening[d].player]
                                           ELSE stored'[opening[d].player]
    BY <1>2 DEF LoadsExact
  <2>1. opening[d].player \in Player
    <3>1. opening[d] \in InFlight
      BY DEF StandingInv, StandingTypeOK, Idle
    <3>2. QED BY <3>1 DEF InFlight
  <2>2. QED BY <1>1, <1>2, <2>1 DEF StandingInv, LoadsExact
<1>10. LowCreditHasDeadline'
  BY <1>2 DEF StandingInv, LowCreditHasDeadline
<1>11. StoreAgrees'
  <2> SUFFICES ASSUME NEW q \in connected
               PROVE  stored'[q] = profile[q] \/ Unsaved(q)' \/ q \in doubt'
    BY <1>2 DEF StoreAgrees
  <2>1. CASE q = p
    BY <1>1, <1>2, <1>6, <1>7, <2>1 DEF Unsaved
  <2>2. CASE q # p
    BY <1>2, <1>3, <2>2 DEF Unsaved, StandingInv, StoreAgrees
  <2>3. QED BY <2>1, <2>2
<1>12. QED BY <1>4, <1>8, <1>9, <1>10, <1>11 DEF StandingInv


LEMMA InvariantStep == StandingInv /\ [Next]_vars => StandingInv'
<1> SUFFICES ASSUME StandingInv, [Next]_vars PROVE StandingInv'
  OBVIOUS
<1> StandingTypeOK'
  BY TypeStep DEF StandingInv
<1>1. ASSUME NEW affected \in SUBSET Player \ {{}}, NEW cause \in [affected -> Cause],
             Cancel(affected, cause)
      PROVE  StandingInv'
  BY <1>1, CancelKeeps
<1>2. ASSUME NEW roster \in SUBSET Player \ {{}}, Finish(roster) PROVE StandingInv'
  BY <1>2, FinishKeeps
<1>3. ASSUME NEW c \in Call, NEW p \in Player, Load(c, p) PROVE StandingInv'
  BY <1>3, LoadKeeps
<1>4. ASSUME NEW c \in Call, Open(c) PROVE StandingInv'
  BY <1>4, OpenKeeps
<1>5. ASSUME NEW c \in Call, GiveUp(c) PROVE StandingInv'
  <2>1. LoadsExact'
    BY <1>5 DEF GiveUp, Idle, StandingInv, StandingTypeOK, LoadsExact
  <2>2. QED BY <1>5, <2>1 DEF GiveUp, StandingInv, UnknownHasNothing, LastSaveCurrent,
                              LowCreditHasDeadline, StoreAgrees, Unsaved
<1>6. CASE EndBatch
  BY <1>6 DEF EndBatch, StandingInv, UnknownHasNothing, LastSaveCurrent, LoadsExact,
              LowCreditHasDeadline, StoreAgrees, Unsaved
<1>7. ASSUME NEW p \in Player, Save(p) PROVE StandingInv'
  BY <1>7, SavedKeeps DEF Save
<1>8. ASSUME NEW p \in Player, SaveFails(p) PROVE StandingInv'
  BY <1>8, SavedKeeps DEF SaveFails
<1>9. CASE Restart
  BY <1>9 DEF Restart, Idle, StandingInv, UnknownHasNothing, LastSaveCurrent, LoadsExact,
              LowCreditHasDeadline, StoreAgrees
<1>10. CASE Pass
  BY <1>10 DEF Pass, StandingInv, UnknownHasNothing, LastSaveCurrent, LoadsExact,
               LowCreditHasDeadline, StoreAgrees, Unsaved
<1>11. CASE UNCHANGED vars
  BY <1>11 DEF vars, StandingInv, UnknownHasNothing, LastSaveCurrent, LoadsExact,
               LowCreditHasDeadline, StoreAgrees, Unsaved
<1>12. QED BY <1>1, <1>2, <1>3, <1>4, <1>5, <1>6, <1>7, <1>8, <1>9, <1>10, <1>11 DEF Next

LEMMA InvariantInit == Init => StandingInv
BY InitTyped DEF Init, Idle, StandingInv, UnknownHasNothing, LastSaveCurrent, LoadsExact,
             LowCreditHasDeadline, StoreAgrees

THEOREM StandingInvariant == Spec => []StandingInv
BY InvariantInit, InvariantStep, PTL DEF Spec

(* A connected player below the minimum has a deadline to wait for: the        *)
(* penalty (grpc/mod.rs:642) and the opening of a session (:1921) set one, and *)
(* what raises or replaces a score in between never leaves it without.         *)
THEOREM LowCreditWaits == Spec => []LowCreditHasDeadline
<1>1. StandingInv => LowCreditHasDeadline
  BY DEF StandingInv
<1>2. QED BY <1>1, StandingInvariant, PTL

(* The provider holds what the authority holds, but for a save that is still   *)
(* to come or has failed, and a session opened with an older profile.          *)
THEOREM ProviderAgrees == Spec => []StoreAgrees
<1>1. StandingInv => StoreAgrees
  BY DEF StandingInv
<1>2. QED BY <1>1, StandingInvariant, PTL

-------------------------------------------------------------------------------
(* Suspensions *)

SuspensionStep ==
  \A p \in connected : Suspended(p) /\ ~Suspended(p)' =>
    \/ now' > until[p] \/ profile'[p].games > profile[p].games
    \/ p \in doubt' \/ p \notin connected'

LEMMA SuspensionKept == StandingInv /\ [Next]_vars => SuspensionStep
<1> SUFFICES ASSUME StandingInv, [Next]_vars, NEW p \in connected, Suspended(p), ~Suspended(p)'
             PROVE  \/ now' > until[p] \/ profile'[p].games > profile[p].games
                    \/ p \in doubt' \/ p \notin connected'
  BY DEF SuspensionStep
<1> USE DEF Suspended
<1>0. /\ p \in Player /\ profile[p] \in Profile /\ until[p] \in Nat /\ now \in Nat
      /\ profile[p].credit \in Nat /\ Minimum \in Nat
  BY ProfileFields, StandingAssumption DEF StandingInv, StandingTypeOK
<1>1. ASSUME NEW affected \in SUBSET Player \ {{}}, NEW cause \in [affected -> Cause],
             Cancel(affected, cause)
      PROVE  FALSE
  <2>1. /\ profile'[p].credit <= profile[p].credit
        /\ until'[p] = until[p] \/ until'[p] > now
        /\ profile'[p] \in Profile /\ until'[p] \in Nat
    BY <1>0, <1>1, CancelTyped DEF StandingInv, StandingTypeOK
  <2>2. profile'[p].credit < Minimum
    BY <1>0, <2>1, ProfileFields
  <2>3. now' = now
    BY <1>1 DEF Cancel, Command
  <2>4. until'[p] # 0 /\ now' <= until'[p]
    BY <1>0, <2>1, <2>3
  <2>5. QED BY <2>2, <2>4
<1>2. ASSUME NEW roster \in SUBSET Player \ {{}}, Finish(roster)
      PROVE  profile'[p].games > profile[p].games
  <2>1. profile'[p] = profile[p] \/ profile'[p].games > profile[p].games
    BY <1>0, <1>2, FinishTyped DEF StandingInv
  <2>2. now' = now /\ until' = until
    BY <1>2 DEF Finish, Command
  <2>3. QED BY <2>1, <2>2
<1>3. ASSUME NEW c \in Call, Open(c) PROVE p \in doubt'
  <2>1. now' = now
    BY <1>3 DEF Open, Command
  <2>2. p = opening[c].player
    BY <1>0, <1>3, <2>1, OpenTyped DEF StandingInv
  <2>3. profile'[p] = opening[c].profile /\ until'[p] = until[p]
    BY <1>3, <2>2, OpenTyped DEF StandingInv
  <2>4. ~opening[c].exact
    BY <1>3, <2>1, <2>2, <2>3 DEF Open, StandingInv, LoadsExact
  <2>5. QED BY <1>3, <2>2, <2>4 DEF Open
<1>4. ASSUME NEW c \in Call, NEW q \in Player, Load(c, q) PROVE FALSE
  BY <1>4 DEF Load
<1>5. ASSUME NEW c \in Call, GiveUp(c) PROVE FALSE
  BY <1>5 DEF GiveUp
<1>6. CASE EndBatch
  BY <1>6 DEF EndBatch
<1>7. ASSUME NEW q \in Player, Save(q) \/ SaveFails(q) PROVE FALSE
  BY <1>7 DEF Save, SaveFails, Saved
<1>8. CASE Restart
  BY <1>8 DEF Restart
<1>9. CASE Pass
  <2>1. now' \in Nat /\ ~(now' <= until[p])
    BY <1>0, <1>9 DEF Pass
  <2>2. QED BY <1>0, <2>1
<1>10. CASE UNCHANGED vars
  BY <1>10 DEF vars
<1>11. QED BY <1>1, <1>2, <1>3, <1>4, <1>5, <1>6, <1>7, <1>8, <1>9, <1>10 DEF Next

(* Connecting again does not end a suspension: what open_session installs of a *)
(* connected player (grpc/mod.rs:1917) is what the authority had, unless the   *)
(* provider missed a save or the call was overtaken by one.                    *)
THEOREM SuspensionOutlivesSession == Spec => SuspensionHolds
<1>1. StandingInv /\ [Next]_vars => [SuspensionStep]_vars
  BY SuspensionKept
<1>2. QED BY <1>1, StandingInvariant, PTL DEF Spec, SuspensionHolds, SuspensionStep

===============================================================================
