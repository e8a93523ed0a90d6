------------------------------- MODULE Standing -------------------------------
(* A player's standing: the credit score and its suspensions (credit.rs), the  *)
(* number of matches completed, and how both travel between the authority      *)
(* (grpc/mod.rs) and the profile provider (profile.rs).  The provider is       *)
(* called outside the authority: open_session loads a profile and only then    *)
(* queues the command that installs it, and the actor stores what a batch of   *)
(* commands has changed after the batch, one player at a time.                 *)
(*                                                                             *)
(* Abstractions.  One mode.  The rating moves where the match count moves and  *)
(* is left out: its update is floating-point.  Any connected players may have  *)
(* been in a proposal that is cancelled or a match that ends (module Authority *)
(* says which).  The provider outlives a restart of the authority; it has      *)
(* stored every player before, so a profile it returns has a match count (the  *)
(* first one it returns of a new player has none and open_session then leaves  *)
(* the authority's alone).  A load that fails refuses the call.                *)
EXTENDS Integers, Sequences

CONSTANTS Player,
          Call,                            \* open_session calls in flight (bound)
          Full,                            \* 100, the highest score
          RejectPenalty, TimeoutPenalty,   \* reject_ and timeout_credit_penalty
          Minimum,                         \* minimum_credit
          RecoveryMatches,                 \* 3, always the default policy's
          Suspension,                      \* credit_suspension_base_seconds
          MaxChanges,                      \* bound on cancellations and results
          MaxTime,                         \* bound on the clock
          MaxFaults                        \* bound on failed saves and restarts

ASSUME StandingAssumption ==
  /\ Full \in Nat /\ RejectPenalty \in Nat /\ TimeoutPenalty \in Nat /\ Minimum \in Nat
  /\ RecoveryMatches \in Nat /\ Suspension \in Nat \ {0}
  /\ Minimum <= Full

VARIABLES profile,    \* credit, recent_credit_violations, completed_games
          since,      \* completed_since_credit_recovery
          until,      \* credit_suspended_until, 0 if there is none
          connected,  \* the players in sessions
          stored,     \* what the provider holds
          opening,    \* by call: the profile it has loaded, if it is in flight
          pending,    \* pending_profile_saves, by player: saves of different
                      \* players touch different profiles
          saving,     \* the actor is storing a batch's changes
          now, changes, faults,
          doubt       \* history: players one of whose saves failed, or whose session
                      \* was opened with a profile read before a change was stored

vars == <<profile, since, until, connected, stored, opening, pending, saving,
          now, changes, faults, doubt>>

Fresh == [credit |-> Full, violations |-> 0, games |-> 0]
Profile == [credit : 0 .. Full, violations : Nat, games : Nat]
Idle == [busy |-> FALSE]
InFlight == [busy : {TRUE}, player : Player, profile : Profile, exact : BOOLEAN]

Init ==
  /\ profile = [p \in Player |-> Fresh]
  /\ since = [p \in Player |-> 0] /\ until = [p \in Player |-> 0]
  /\ connected = {} /\ stored = [p \in Player |-> Fresh]
  /\ opening = [c \in Call |-> Idle]
  /\ pending = [p \in Player |-> << >>] /\ saving = FALSE
  /\ now = 1 /\ changes = 0 /\ faults = 0 /\ doubt = {}

-------------------------------------------------------------------------------
(* credit.rs *)

Cause == {"Rejected", "TimedOut", "None"}

LessUnsaturated(score, penalty) == score - penalty
Less(score, penalty) == IF score >= penalty THEN score - penalty ELSE 0
AfterPenalty(score, cause) ==
  CASE cause = "Rejected" -> Less(score, RejectPenalty)
    [] cause = "TimedOut" -> Less(score, TimeoutPenalty)
    [] cause = "None" -> score
AfterMatch(score, completed) ==
  IF completed + 1 >= RecoveryMatches /\ score < Full THEN score + 1 ELSE score

(* credit_suspension_active: enqueue refuses a party one of whose members is. *)
Suspended(p) == profile[p].credit < Minimum /\ until[p] # 0 /\ now <= until[p]

-------------------------------------------------------------------------------
(* The authority's commands.  None runs while the actor awaits the provider. *)

Unsaved(p) == pending[p] # << >>
Command == ~saving /\ UNCHANGED <<stored, saving, now>>

(* What a call has loaded of these players is no longer what they have. *)
Outdate(S) == opening' = [c \in Call |->
                IF opening[c].busy /\ opening[c].player \in S
                THEN [opening[c] EXCEPT !.exact = FALSE] ELSE opening[c]]

(* pending_profile_saves gets current_profile of these players. *)
SaveOfBefore(S) ==
  pending' = [p \in Player |-> IF p \in S THEN Append(pending[p], profile[p]) ELSE pending[p]]
SaveOf(S) ==
  pending' = [p \in Player |-> IF p \in S THEN Append(pending[p], profile'[p]) ELSE pending[p]]

Deadline(p) == now + Suspension * profile'[p].violations

(* cancel_proposal: everybody in it is affected and stored, some are to blame. *)
Cancel(affected, cause) ==
  LET blamed == {p \in affected : cause[p] # "None"}
  IN  /\ Command /\ changes < MaxChanges /\ changes' = changes + 1
      /\ affected \subseteq connected
      /\ profile' = [p \in Player |->
           IF p \in blamed
           THEN [profile[p] EXCEPT !.credit = AfterPenalty(@, cause[p]), !.violations = @ + 1]
           ELSE profile[p]]
      /\ since' = [p \in Player |-> IF p \in blamed THEN 0 ELSE since[p]]
      /\ until' = [p \in Player |->
           IF p \in blamed /\ profile'[p].credit < Minimum THEN Deadline(p) ELSE until[p]]
      /\ SaveOf(affected)
      /\ Outdate(blamed)
      /\ UNCHANGED <<connected, faults, doubt>>

(* finish_match.  The deadline of a suspension stays behind. *)
Finish(roster) ==
  /\ Command /\ changes < MaxChanges /\ changes' = changes + 1
  /\ roster \subseteq connected
  /\ profile' = [p \in Player |->
       IF p \in roster
       THEN [profile[p] EXCEPT !.credit = AfterMatch(@, since[p]), !.games = @ + 1]
       ELSE profile[p]]
  /\ since' = [p \in Player |->
       IF p \notin roster THEN since[p]
       ELSE IF profile'[p].credit > profile[p].credit THEN 0 ELSE since[p] + 1]
  /\ SaveOf(roster)
  /\ Outdate(roster)
  /\ UNCHANGED <<until, connected, faults, doubt>>

(* open_session, first half: the provider answers the call. *)
Load(c, p) ==
  /\ ~opening[c].busy
  /\ opening' = [opening EXCEPT ![c] =
       [busy |-> TRUE, player |-> p, profile |-> stored[p],
        exact |-> p \notin connected \/ (~Unsaved(p) /\ p \notin doubt)]]
  /\ UNCHANGED <<profile, since, until, connected, stored, pending, saving, now, changes,
                 faults, doubt>>

(* The deadline a session opened with this profile leaves the player. *)
OpenedUntilKept(p, loaded) == until[p]
OpenedUntil(p, loaded) ==
  IF loaded.credit < Minimum /\ until[p] = 0
  THEN now + Suspension * (IF loaded.violations = 0 THEN 1 ELSE loaded.violations)
  ELSE until[p]

(* open_session, second half: the command installs what was loaded. *)
Open(c) ==
  LET p == opening[c].player
      loaded == opening[c].profile
  IN  /\ Command /\ opening[c].busy
      /\ connected' = connected \cup {p}
      /\ profile' = [profile EXCEPT ![p] = loaded]
      /\ until' = [until EXCEPT ![p] = OpenedUntil(p, loaded)]
      /\ opening' = [d \in Call |->
           IF d = c THEN Idle
           ELSE IF opening[d].busy /\ opening[d].player = p /\ ~opening[c].exact
           THEN [opening[d] EXCEPT !.exact = FALSE] ELSE opening[d]]
      /\ doubt' = IF opening[c].exact THEN doubt ELSE doubt \cup {p}
      /\ UNCHANGED <<since, pending, changes, faults>>

(* The call is refused because the command queue is full, or its client left. *)
GiveUp(c) ==
  /\ opening[c].busy /\ opening' = [opening EXCEPT ![c] = Idle]
  /\ UNCHANGED <<profile, since, until, connected, stored, pending, saving, now, changes,
                 faults, doubt>>

-------------------------------------------------------------------------------
(* The actor between batches. *)

EndBatchLate ==
  /\ ~saving /\ (\E p \in Player : Len(pending[p]) > 1) /\ saving' = TRUE
  /\ UNCHANGED <<profile, since, until, connected, stored, opening, pending, now, changes,
                 faults, doubt>>
EndBatch ==
  /\ ~saving /\ (\E p \in Player : Unsaved(p)) /\ saving' = TRUE
  /\ UNCHANGED <<profile, since, until, connected, stored, opening, pending, now, changes,
                 faults, doubt>>

(* The oldest change of p leaves pending; the last one of all ends the saving. *)
Saved(p) ==
  /\ saving /\ Unsaved(p)
  /\ pending' = [pending EXCEPT ![p] = Tail(@)]
  /\ saving' = \E q \in Player : pending'[q] # << >>
  /\ UNCHANGED <<profile, since, until, connected, opening, now, changes>>

Save(p) == /\ Saved(p)
           /\ stored' = [stored EXCEPT ![p] = Head(pending[p])]
           /\ UNCHANGED <<faults, doubt>>

(* The error is counted as a metric; nobody tries again. *)
SaveFails(p) == /\ Saved(p)
                /\ faults < MaxFaults /\ faults' = faults + 1
                /\ doubt' = doubt \cup {p} /\ UNCHANGED stored

Restart ==
  /\ faults < MaxFaults /\ faults' = faults + 1
  /\ profile' = [p \in Player |-> Fresh]
  /\ since' = [p \in Player |-> 0] /\ until' = [p \in Player |-> 0]
  /\ connected' = {} /\ opening' = [c \in Call |-> Idle]
  /\ pending' = [p \in Player |-> << >>] /\ saving' = FALSE /\ doubt' = {}
  /\ UNCHANGED <<stored, now, changes>>

Pass ==
  /\ now < MaxTime /\ now' = now + 1
  /\ UNCHANGED <<profile, since, until, connected, stored, opening, pending, saving, changes,
                 faults, doubt>>

Next ==
  \/ \E affected \in SUBSET Player \ {{}} : \E cause \in [affected -> Cause] : Cancel(affected, cause)
  \/ \E roster \in SUBSET Player \ {{}} : Finish(roster)
  \/ \E c \in Call : (\E p \in Player : Load(c, p)) \/ Open(c) \/ GiveUp(c)
  \/ EndBatch \/ (\E p \in Player : Save(p) \/ SaveFails(p)) \/ Restart \/ Pass

Spec == Init /\ [][Next]_vars
FairSpec == Spec /\ WF_vars(EndBatch) /\ WF_vars(\E p \in Player : Save(p))

-------------------------------------------------------------------------------
(* What the three properties rest on: a player without a session has nothing   *)
(* in the authority to lose, the last save to come is of the current profile,  *)
(* and a call that missed nothing has loaded what it will replace.             *)
UnknownHasNothing == \A p \in Player \ connected : pending[p] = << >> /\ p \notin doubt
LastSaveCurrent ==
  \A p \in connected \ doubt : Unsaved(p) => pending[p][Len(pending[p])] = profile[p]
LoadsExact ==
  \A c \in Call : opening[c].busy /\ opening[c].exact =>
    LET p == opening[c].player
    IN  opening[c].profile = IF p \in connected THEN profile[p] ELSE stored[p]

(* Scores stay within their range, through saturating penalties and capped     *)
(* recovery, in the authority, in the provider and on the way between them.    *)
StandingTypeOK ==
  /\ profile \in [Player -> Profile] /\ stored \in [Player -> Profile]
  /\ since \in [Player -> Nat] /\ until \in [Player -> Nat]
  /\ connected \subseteq Player /\ doubt \subseteq Player
  /\ opening \in [Call -> InFlight \cup {Idle}]
  /\ pending \in [Player -> Seq(Profile)]
  /\ saving \in BOOLEAN /\ now \in Nat \ {0} /\ changes \in Nat /\ faults \in Nat

(* Nobody is below the minimum without a deadline: credit_suspension_active    *)
(* reads a missing one as "not suspended", so a connected player who fell      *)
(* below it, or came back below it after a restart, would play on unpunished.  *)
LowCreditHasDeadline ==
  \A p \in connected : profile[p].credit < Minimum => until[p] # 0

(* What is stored is what the authority holds, unless a save is still to come, *)
(* failed, or the player's session was opened with an older profile.           *)
StoreAgrees ==
  \A p \in connected : stored[p] = profile[p] \/ Unsaved(p) \/ p \in doubt

(* A suspension ends with its deadline or with a match played, and not because *)
(* the player connects again - but for the known ways to forget it: a restart, *)
(* and a session opened with a profile that misses the last penalty.           *)
SuspensionHolds ==
  [][\A p \in connected : Suspended(p) /\ ~Suspended(p)' =>
       \/ now' > until[p] \/ profile'[p].games > profile[p].games
       \/ p \in doubt' \/ p \notin connected']_vars

(* Whatever a batch changed reaches the provider: in the end every connected   *)
(* player's stored profile is the authority's, or it is one in doubt.          *)
StoreCatchesUp == <>[](\A p \in connected : stored[p] = profile[p] \/ p \in doubt)
===============================================================================
