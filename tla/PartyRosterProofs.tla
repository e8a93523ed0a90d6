--------------------------- MODULE PartyRosterProofs ---------------------------
(* Invariants of the party roster for any number of players, parties, invites  *)
(* and proposals: leaders, members, index and revisions; what the queue and the *)
(* proposals hold of the parties; and what they hold of the players.           *)
EXTENDS PartyRoster, TLAPS

RosterInv == PartyTypeOK /\ LeaderLeads /\ IndexIsMembership

-------------------------------------------------------------------------------
(* Types *)

LEMMA BumpType ==
  ASSUME revision \in [PartyId -> Nat], NEW S, Bump(S)
  PROVE  revision' \in [PartyId -> Nat]
BY DEF Bump

LEMMA BecomeType ==
  ASSUME state \in [PartyId -> PartyState], NEW S, NEW value \in PartyState, Become(S, value)
  PROVE  state' \in [PartyId -> PartyState]
BY DEF Become

LEMMA LinkType ==
  ASSUME playerParty \in [Player -> PartyId \cup {NoParty}],
         NEW pl \in Player, NEW q \in PartyId \cup {NoParty}, Link(pl, q)
  PROVE  playerParty' \in [Player -> PartyId \cup {NoParty}]
BY DEF Link

LEMMA LetGoType ==
  ASSUME PartyTypeOK, NEW p, LetGo(p)
  PROVE  playerProposal' \in [Player -> Proposal \cup {NoProposal}]
BY DEF PartyTypeOK, LetGo

LEMMA TypesInit == Init => PartyTypeOK
BY BoundAssumption DEF Init, PartyTypeOK, PartyState, Phase

(* Party editing: what the clients do. *)
LEMMA TypesEdits ==
  ASSUME PartyTypeOK, NEW pl \in Player,
         \/ CreateParty(pl)
         \/ \E i \in Invite : JoinParty(pl, i)
         \/ \E q \in PartyId : CreateInvite(pl, q) \/ LeaveParty(pl, q) \/ RenameParty(pl, q)
         \/ \E q \in PartyId, target \in Player : KickMember(pl, q, target)
  PROVE  PartyTypeOK'
<1>1. CASE CreateParty(pl)
  <2>1. nextParty \in PartyId BY <1>1 DEF CreateParty, NewParty
  <2>2. playerParty' \in [Player -> PartyId \cup {NoParty}]
    BY <1>1, <2>1, LinkType DEF CreateParty, NewParty, PartyTypeOK
  <2>3. /\ leader' \in [PartyId -> Player \cup {NoPlayer}]
        /\ members' \in [PartyId -> SUBSET Player]
    BY <1>1 DEF CreateParty, NewParty, PartyTypeOK
  <2>4. /\ parties' \in SUBSET PartyId /\ nextParty' \in Nat \ {0}
        /\ \A q \in parties' : q < nextParty'
    BY <1>1, <2>1, IdAssumption DEF CreateParty, NewParty, PartyTypeOK
  <2>5. QED BY <1>1, <2>2, <2>3, <2>4 
     DEF CreateParty, NewParty, PartyTypeOK, inviteVars, proposalVars, history
<1>2. ASSUME NEW i \in Invite, JoinParty(pl, i)
      PROVE  PartyTypeOK'
  <2> DEFINE q == inviteFor[i]
  <2>1. uses' \in [Invite -> 0 .. MaxUses]
    BY <1>2, BoundAssumption DEF JoinParty, UsesLeft, PartyTypeOK
  <2>2. /\ members' \in [PartyId -> SUBSET Player]
        /\ revision' \in [PartyId -> Nat]
        /\ playerParty' \in [Player -> PartyId \cup {NoParty}]
    <3>1. CASE q \in parties /\ JoinEffect(pl, q)
      <4>1. q \in PartyId BY <3>1 DEF PartyTypeOK
      <4>2. revision' \in [PartyId -> Nat] BY <3>1, BumpType DEF JoinEffect, PartyTypeOK
      <4>3. playerParty' \in [Player -> PartyId \cup {NoParty}]
        BY <3>1, <4>1, LinkType DEF JoinEffect, PartyTypeOK
      <4>4. members' \in [PartyId -> SUBSET Player]
        BY <3>1, <4>1 DEF JoinEffect, PartyTypeOK
      <4>5. QED BY <4>2, <4>3, <4>4
    <3>2. CASE UNCHANGED <<members, revision, playerParty>>
      BY <3>2 DEF PartyTypeOK
    <3>3. QED BY <1>2, <3>1, <3>2 DEF JoinParty
  <2>3. QED BY <1>2, <2>1, <2>2 DEF JoinParty, PartyTypeOK, proposalVars, history
<1>3. ASSUME NEW q \in PartyId, CreateInvite(pl, q)
      PROVE  PartyTypeOK'
  BY <1>3, IdAssumption, BoundAssumption
  DEF CreateInvite, NewInvite, PartyTypeOK, partyVars, proposalVars, history
<1>4. ASSUME NEW q \in PartyId, LeaveParty(pl, q)
      PROVE  PartyTypeOK'
  <2>1. revision' \in [PartyId -> Nat] BY <1>4, BumpType DEF LeaveParty, PartyTypeOK
  <2>2. playerParty' \in [Player -> PartyId \cup {NoParty}]
    BY <1>4, LinkType DEF LeaveParty, Unlink, PartyTypeOK
  <2>3. /\ members' \in [PartyId -> SUBSET Player]
        /\ parties' \in SUBSET PartyId /\ parties' \subseteq parties
    BY <1>4 DEF LeaveParty, PartyTypeOK
  <2>4. leader' \in [PartyId -> Player \cup {NoPlayer}]
    BY <1>4 DEF LeaveParty, LeaveSuccessor, PartyTypeOK
  <2>5. QED BY <1>4, <2>1, <2>2, <2>3, <2>4
            DEF LeaveParty, PartyTypeOK, inviteVars, proposalVars, history
<1>5. ASSUME NEW q \in PartyId, RenameParty(pl, q)
      PROVE  PartyTypeOK'
  <2>1. revision' \in [PartyId -> Nat] BY <1>5, BumpType DEF RenameParty, PartyTypeOK
  <2>2. QED BY <1>5, <2>1 DEF RenameParty, PartyTypeOK, inviteVars, proposalVars, history
<1>6. ASSUME NEW q \in PartyId, NEW target \in Player, KickMember(pl, q, target)
      PROVE  PartyTypeOK'
  <2>1. revision' \in [PartyId -> Nat] BY <1>6, BumpType DEF KickMember, KickEffect, PartyTypeOK
  <2>2. playerParty' \in [Player -> PartyId \cup {NoParty}]
    BY <1>6, LinkType DEF KickMember, KickEffect, KickUnlink, Unlink, PartyTypeOK
  <2>3. members' \in [PartyId -> SUBSET Player] BY <1>6 DEF KickMember, KickEffect, PartyTypeOK
  <2>4. QED BY <1>6, <2>1, <2>2, <2>3
     DEF KickMember, KickEffect, PartyTypeOK, inviteVars, proposalVars, history
<1>7. QED BY <1>1, <1>2, <1>3, <1>4, <1>5, <1>6

(* The queue, proposals and matches.  A grace period that ends is either a      *)
(* cancellation or empties the queue of the player's party.                    *)
Play == \/ \E pl \in Player : GraceExpires(pl)
        \/ \E pl \in Player, q \in PartyId : Enqueue(pl, q) \/ CancelQueue(pl, q)
        \/ \E S \in SUBSET PartyId : CommitCandidate(S)
        \/ \E p \in Proposal :
             Launch(p) \/ Abandon(p) \/ PublishMatch(p) \/ FinishMatch(p)
        \/ \E p \in Proposal, F \in SUBSET Player : ReadyCheckFails(p, F)

LeavesQueue(q) ==
  /\ q \in queue
  /\ queue' = queue \ {q}
  /\ Become({q} \cap parties, "Idle")
  /\ Bump({q} \cap parties)
  /\ UNCHANGED <<parties, leader, members, playerParty, nextParty, inviteVars,
                 proposalVars, history>>

Cancels(p, F) == CancelProposal(p, F) /\ launched' \in SUBSET Proposal

LEMMA PlayIs ==
  ASSUME PartyTypeOK, Play
  PROVE  \/ \E q \in PartyId : LeavesQueue(q)
         \/ \E pl \in Player, q \in PartyId : Enqueue(pl, q) \/ CancelQueue(pl, q)
         \/ \E S \in SUBSET PartyId : CommitCandidate(S)
         \/ \E p \in Proposal : Launch(p) \/ PublishMatch(p) \/ FinishMatch(p)
         \/ \E p \in Proposal, F \in SUBSET Player : Cancels(p, F)
<1>0. /\ queue \in SUBSET PartyId /\ launched \in SUBSET Proposal
  BY DEF PartyTypeOK
<1>1. ASSUME NEW pl \in Player, GraceExpires(pl)
      PROVE  \/ \E q \in PartyId : LeavesQueue(q)
             \/ \E p \in Proposal, F \in SUBSET Player : Cancels(p, F)
  <2> DEFINE q == playerParty[pl]
             p == playerProposal[pl]
  <2>1. CASE p \in Proposal /\ CancelProposal(p, {pl}) /\ UNCHANGED launched
    <3>1. Cancels(p, {pl}) BY <1>0, <2>1 DEF Cancels
    <3>2. QED BY <2>1, <3>1
  <2>2. CASE q \in queue /\ LeavesQueue(q)
    BY <1>0, <2>2
  <2>3. QED BY <1>1, <2>1, <2>2 DEF GraceExpires, LeavesQueue
<1>2. ASSUME NEW p \in Proposal, Abandon(p)
      PROVE  \E F \in SUBSET Player : Cancels(p, F)
  <2>1. Cancels(p, {}) BY <1>0, <1>2 DEF Abandon, Cancels
  <2>2. QED BY <2>1
<1>3. ASSUME NEW p \in Proposal, NEW F \in SUBSET Player, ReadyCheckFails(p, F)
      PROVE  Cancels(p, F)
  BY <1>0, <1>3 DEF ReadyCheckFails, Cancels
<1>4. QED BY <1>1, <1>2, <1>3 DEF Play

LEMMA TypesPlay ==
  ASSUME PartyTypeOK, Play
  PROVE  PartyTypeOK'
<1> USE DEF partyVars, inviteVars, proposalVars, history
<1>1. ASSUME NEW q \in PartyId, LeavesQueue(q)
      PROVE  PartyTypeOK'
  <2>1. revision' \in [PartyId -> Nat] BY <1>1, BumpType DEF LeavesQueue, PartyTypeOK
  <2>2. state' \in [PartyId -> PartyState]
    BY <1>1, BecomeType DEF LeavesQueue, PartyTypeOK, PartyState
  <2>3. QED BY <1>1, <2>1, <2>2 DEF LeavesQueue, PartyTypeOK
<1>2. ASSUME NEW pl \in Player, NEW q \in PartyId, Enqueue(pl, q)
      PROVE  PartyTypeOK'
  <2>1. revision' \in [PartyId -> Nat] BY <1>2, BumpType DEF Enqueue, PartyTypeOK
  <2>2. state' \in [PartyId -> PartyState]
    BY <1>2, BecomeType DEF Enqueue, PartyTypeOK, PartyState
  <2>3. QED BY <1>2, <2>1, <2>2 DEF Enqueue, PartyTypeOK
<1>3. ASSUME NEW pl \in Player, NEW q \in PartyId, CancelQueue(pl, q)
      PROVE  PartyTypeOK'
  <2>1. revision' \in [PartyId -> Nat] BY <1>3, BumpType DEF CancelQueue, PartyTypeOK
  <2>2. state' \in [PartyId -> PartyState]
    BY <1>3, BecomeType DEF CancelQueue, PartyTypeOK, PartyState
  <2>3. QED BY <1>3, <2>1, <2>2 DEF CancelQueue, PartyTypeOK
<1>4. ASSUME NEW S \in SUBSET PartyId, CommitCandidate(S)
      PROVE  PartyTypeOK'
  <2>1. revision' \in [PartyId -> Nat] BY <1>4, BumpType DEF CommitCandidate, PartyTypeOK
  <2>2. state' \in [PartyId -> PartyState]
    BY <1>4, BecomeType DEF CommitCandidate, PartyTypeOK, PartyState
  <2>3. nextProposal \in Proposal /\ nextProposal' \in Nat
    BY <1>4 DEF CommitCandidate, PartyTypeOK
  <2>4. PICK owner \in [UNION {members[q] : q \in S} -> S] :
          /\ owners' = [owners EXCEPT ![nextProposal] =
                          [pl \in Player |-> IF pl \in DOMAIN owner THEN owner[pl]
                                             ELSE NoParty]]
          /\ playerProposal' = [pl \in Player |-> IF pl \in DOMAIN owner THEN nextProposal
                                                  ELSE playerProposal[pl]]
          /\ stray' \subseteq stray
    BY <1>4 DEF CommitCandidate
  <2>5. [pl \in Player |-> IF pl \in DOMAIN owner THEN owner[pl] ELSE NoParty]
          \in [Player -> PartyId \cup {NoParty}]
    OBVIOUS
  <2>6. owners' \in [Proposal -> [Player -> PartyId \cup {NoParty}]]
    BY <2>4, <2>5 DEF PartyTypeOK
  <2>7. playerProposal' \in [Player -> Proposal \cup {NoProposal}]
    BY <2>3, <2>4 DEF PartyTypeOK
  <2>8. saved' \in [Proposal -> SUBSET PartyId] /\ phase' \in [Proposal -> Phase]
    BY <1>4 DEF CommitCandidate, PartyTypeOK, Phase
  <2>9. QED BY <1>4, <2>1, <2>2, <2>3, <2>4, <2>6, <2>7, <2>8 DEF CommitCandidate, PartyTypeOK
<1>5. ASSUME NEW p \in Proposal, PublishMatch(p)
      PROVE  PartyTypeOK'
  <2>1. state' \in [PartyId -> PartyState]
    BY <1>5, BecomeType DEF PublishMatch, PartyTypeOK, PartyState
  <2>2. playerProposal' \in [Player -> Proposal \cup {NoProposal}]
    BY <1>5, LetGoType DEF PublishMatch
  <2>3. playerMatch' \in [Player -> Proposal \cup {NoProposal}]
    BY <1>5 DEF PublishMatch, PartyTypeOK
  <2>4. stray' \in SUBSET Player BY <1>5 DEF PublishMatch, PartyTypeOK, Roster
  <2>5. QED BY <1>5, <2>1, <2>2, <2>3, <2>4 DEF PublishMatch, PartyTypeOK
<1>6. ASSUME NEW p \in Proposal, FinishMatch(p)
      PROVE  PartyTypeOK'
  <2>1. revision' \in [PartyId -> Nat] BY <1>6, BumpType DEF FinishMatch, PartyTypeOK
  <2>2. state' \in [PartyId -> PartyState]
    BY <1>6, BecomeType DEF FinishMatch, PartyTypeOK, PartyState
  <2>3. /\ playerMatch' \in [Player -> Proposal \cup {NoProposal}]
        /\ owners' \in [Proposal -> [Player -> PartyId \cup {NoParty}]]
        /\ saved' \in [Proposal -> SUBSET PartyId]
        /\ phase' \in [Proposal -> Phase] /\ launched' \in SUBSET Proposal
    BY <1>6 DEF FinishMatch, PartyTypeOK, Phase
  <2>4. loose' \in SUBSET PartyId /\ stray' \in SUBSET Player
    BY <1>6 DEF FinishMatch, PartyTypeOK, Roster
  <2>5. QED BY <1>6, <2>1, <2>2, <2>3, <2>4 DEF FinishMatch, PartyTypeOK
<1>7. ASSUME NEW p \in Proposal, NEW F \in SUBSET Player, Cancels(p, F)
      PROVE  PartyTypeOK'
  <2>1. revision' \in [PartyId -> Nat] BY <1>7, BumpType DEF Cancels, CancelProposal, PartyTypeOK
  <2>2. state' \in [PartyId -> PartyState]
    BY <1>7 DEF Cancels, CancelProposal, PartyTypeOK, PartyState
  <2>3. playerProposal' \in [Player -> Proposal \cup {NoProposal}]
    BY <1>7, LetGoType DEF Cancels, CancelProposal
  <2>4. saved' \in [Proposal -> SUBSET PartyId] /\ phase' \in [Proposal -> Phase]
    BY <1>7 DEF Cancels, CancelProposal, PartyTypeOK, Phase
  <2>5. queue' \in SUBSET PartyId /\ stray' \in SUBSET Player
    BY <1>7 DEF Cancels, CancelProposal, PartyTypeOK, Roster
  <2>6. QED BY <1>7, <2>1, <2>2, <2>3, <2>4, <2>5 DEF Cancels, CancelProposal, PartyTypeOK
<1>8. ASSUME NEW p \in Proposal, Launch(p)
      PROVE  PartyTypeOK'
  BY <1>8 DEF Launch, PartyTypeOK
<1>9. QED BY <1>1, <1>2, <1>3, <1>4, <1>5, <1>6, <1>7, <1>8, PlayIs

-------------------------------------------------------------------------------
(* Leaders, members and the index: only the edits touch them. *)

LEMMA EditsKeepRoster ==
  ASSUME RosterInv, NEW pl \in Player,
         \/ CreateParty(pl)
         \/ \E i \in Invite : JoinParty(pl, i)
         \/ \E q \in PartyId : CreateInvite(pl, q) \/ LeaveParty(pl, q) \/ RenameParty(pl, q)
         \/ \E q \in PartyId, target \in Player : KickMember(pl, q, target)
  PROVE  LeaderLeads' /\ IndexIsMembership'
<1>1. CASE CreateParty(pl)
  <2>1. nextParty \in PartyId /\ nextParty \notin parties
    BY <1>1, IdAssumption DEF CreateParty, NewParty, RosterInv, PartyTypeOK
  <2>2. LeaderLeads'
    BY <1>1, <2>1 DEF CreateParty, NewParty, RosterInv, PartyTypeOK, LeaderLeads
  <2>3. IndexIsMembership'
    BY <1>1, <2>1 DEF CreateParty, NewParty, Link, RosterInv, PartyTypeOK, IndexIsMembership
  <2>4. QED BY <2>2, <2>3
<1>2. ASSUME NEW i \in Invite, JoinParty(pl, i)
      PROVE  LeaderLeads' /\ IndexIsMembership'
  <2> DEFINE q == inviteFor[i]
  <2>1. CASE q \in parties /\ JoinEffect(pl, q)
    BY <1>2, <2>1
    DEF JoinParty, JoinEffect, Link, RosterInv, PartyTypeOK, LeaderLeads, IndexIsMembership
  <2>2. CASE UNCHANGED <<members, revision, playerParty>>
    BY <1>2, <2>2 DEF JoinParty, RosterInv, LeaderLeads, IndexIsMembership
  <2>3. QED BY <1>2, <2>1, <2>2 DEF JoinParty
<1>3. ASSUME NEW q \in PartyId, CreateInvite(pl, q)
      PROVE  LeaderLeads' /\ IndexIsMembership'
  BY <1>3 DEF CreateInvite, NewInvite, partyVars, RosterInv, LeaderLeads, IndexIsMembership
<1>4. ASSUME NEW q \in PartyId, LeaveParty(pl, q)
      PROVE  LeaderLeads' /\ IndexIsMembership'
  <2>1. LeaderLeads'
    BY <1>4 DEF LeaveParty, LeaveSuccessor, RosterInv, PartyTypeOK, LeaderLeads
  <2>2. IndexIsMembership'
    BY <1>4 DEF LeaveParty, Unlink, Link, NoParty, RosterInv, PartyTypeOK, IndexIsMembership
  <2>3. QED BY <2>1, <2>2
<1>5. ASSUME NEW q \in PartyId, RenameParty(pl, q)
      PROVE  LeaderLeads' /\ IndexIsMembership'
  BY <1>5 DEF RenameParty, RosterInv, LeaderLeads, IndexIsMembership
<1>6. ASSUME NEW q \in PartyId, NEW target \in Player, KickMember(pl, q, target)
      PROVE  LeaderLeads' /\ IndexIsMembership'
  <2>1. LeaderLeads'
    BY <1>6 DEF KickMember, KickEffect, RosterInv, PartyTypeOK, LeaderLeads
  <2>2. IndexIsMembership'
    BY <1>6
    DEF KickMember, KickEffect, KickUnlink, Unlink, Link, NoParty, RosterInv, PartyTypeOK,
        IndexIsMembership
  <2>3. QED BY <2>1, <2>2
<1>7. QED BY <1>1, <1>2, <1>3, <1>4, <1>5, <1>6

LEMMA PlayKeepsRoster ==
  ASSUME Play
  PROVE  UNCHANGED <<parties, leader, members, playerParty>>
BY DEF Play, GraceExpires, Enqueue, CancelQueue, CommitCandidate, ReadyCheckFails, Launch,
       Abandon, PublishMatch, FinishMatch, CancelProposal, partyVars

(* The roster's invariant: the types (with it, that a new party's identity is  *)
(* new), leaders and index hold in every reachable state.                      *)
THEOREM RosterInvariant == Spec => []RosterInv
<1>1. Init => RosterInv
  BY TypesInit DEF Init, RosterInv, LeaderLeads, IndexIsMembership
<1>2. RosterInv /\ [Next]_vars => RosterInv'
  <2> SUFFICES ASSUME RosterInv, [Next]_vars PROVE RosterInv'
    OBVIOUS
  <2>1. ASSUME NEW pl \in Player,
               \/ CreateParty(pl)
               \/ \E i \in Invite : JoinParty(pl, i)
               \/ \E q \in PartyId :
                    CreateInvite(pl, q) \/ LeaveParty(pl, q) \/ RenameParty(pl, q)
               \/ \E q \in PartyId, target \in Player : KickMember(pl, q, target)
        PROVE  RosterInv'
    BY <2>1, TypesEdits, EditsKeepRoster DEF RosterInv
  <2>2. CASE Play
    <3>1. PartyTypeOK' BY <2>2, TypesPlay DEF RosterInv
    <3>2. LeaderLeads' /\ IndexIsMembership'
      BY <2>2, PlayKeepsRoster DEF RosterInv, LeaderLeads, IndexIsMembership
    <3>3. QED BY <3>1, <3>2 DEF RosterInv
  <2>3. CASE UNCHANGED vars
    BY <2>3 DEF vars, partyVars, inviteVars, proposalVars, history, RosterInv, PartyTypeOK,
                LeaderLeads, IndexIsMembership
  <2>4. QED BY <2>1, <2>2, <2>3 DEF Next, Play
<1>3. QED BY <1>1, <1>2, PTL DEF Spec

(* Type correctness; with it, that no party's identity is used twice. *)
THEOREM RosterTypes == Spec => []PartyTypeOK
BY RosterInvariant, PTL DEF RosterInv

(* A party that is there is led by one of its members (LeaderLeads). *)
THEOREM EveryPartyIsLed == Spec => []LeaderLeads
BY RosterInvariant, PTL DEF RosterInv

(* The index points to parties that list the player (IndexIsMembership). *)
THEOREM IndexIsExact == Spec => []IndexIsMembership
BY RosterInvariant, PTL DEF RosterInv

-------------------------------------------------------------------------------
(* No change of members or leader without a new revision. *)
THEOREM RevisionsTell == Spec => RevisionTellsRoster
<1> DEFINE Tells == \A q \in parties \cap parties' :
                      <<leader[q], members[q]>> # <<leader'[q], members'[q]>>
                        => revision'[q] > revision[q]
<1>1. RosterInv /\ [Next]_vars => [Tells]_vars
  <2> SUFFICES ASSUME RosterInv, Next,
                      NEW q \in parties \cap parties',
                      <<leader[q], members[q]>> # <<leader'[q], members'[q]>>
               PROVE  revision'[q] > revision[q]
    OBVIOUS
  <2> USE DEF Bump
  <2>0. q \in PartyId /\ revision[q] \in Nat /\ revision[q] + 1 > revision[q]
    BY DEF RosterInv, PartyTypeOK
  <2>1. ASSUME NEW pl \in Player, CreateParty(pl)
        PROVE  FALSE
    <3>1. q # nextParty BY IdAssumption, <2>1 DEF RosterInv, PartyTypeOK, CreateParty, NewParty
    <3>2. QED BY <2>0, <2>1, <3>1 DEF CreateParty, NewParty, RosterInv, PartyTypeOK
  <2>2. ASSUME NEW pl \in Player, NEW i \in Invite, JoinParty(pl, i)
        PROVE  revision'[q] > revision[q]
    <3> DEFINE r == inviteFor[i]
    <3>1. JoinEffect(pl, r) /\ leader' = leader
      BY <2>2 DEF JoinParty
    <3>2. q = r /\ members'[q] = members[q] \cup {pl}
      BY <2>0, <3>1 DEF JoinEffect, RosterInv, PartyTypeOK
    <3>3. pl \notin members[q]
      <4>1. SUFFICES ASSUME pl \in members[q] PROVE FALSE OBVIOUS
      <4>2. members'[q] = members[q] BY <3>2, <4>1
      <4>3. QED BY <3>1, <4>2
    <3>4. revision' = [o \in PartyId |-> IF o \in {r} THEN revision[o] + 1 ELSE revision[o]]
      BY <3>1, <3>2, <3>3 DEF JoinEffect
    <3>5. QED BY <2>0, <3>2, <3>4
  <2>3. ASSUME NEW pl \in Player, NEW r \in PartyId, CreateInvite(pl, r) \/ RenameParty(pl, r)
        PROVE  FALSE
    BY <2>3 DEF CreateInvite, NewInvite, RenameParty, partyVars
  <2>4. ASSUME NEW pl \in Player, NEW r \in PartyId, LeaveParty(pl, r)
        PROVE  revision'[q] > revision[q]
    BY <2>0, <2>4 DEF LeaveParty, LeaveSuccessor, RosterInv, PartyTypeOK
  <2>5. ASSUME NEW pl \in Player, NEW r \in PartyId, NEW target \in Player,
               KickMember(pl, r, target)
        PROVE  revision'[q] > revision[q]
    BY <2>0, <2>5 DEF KickMember, KickEffect, RosterInv, PartyTypeOK
  <2>6. CASE Play
    BY <2>6, PlayKeepsRoster
  <2>7. QED BY <2>1, <2>2, <2>3, <2>4, <2>5, <2>6 DEF Next, Play
<1>2. QED BY <1>1, RosterInvariant, PTL DEF Spec, RevisionTellsRoster

-------------------------------------------------------------------------------
(* The queue.  What a proposal holds was queued and is frozen, party by party, *)
(* as long as nobody cuts the party loose, so it can go back without a new     *)
(* check: that is the strengthening.                                           *)

Fit(q) == q \in parties /\ Cardinality(members[q]) \in Sizes
Frozen == {"AwaitingAccept", "Matched"}

QueueInv ==
  /\ \A q \in queue \ loose : Fit(q) /\ state[q] = "Queued"
  /\ \A p \in Proposal : \A q \in saved[p] :
       phase[p] = "Open" /\ (q \notin loose => Fit(q) /\ state[q] \in Frozen)
  /\ \A p, o \in Proposal : p # o => saved[p] \cap saved[o] \subseteq loose
  /\ \A p \in Proposal, pl \in Player :
       phase[p] = "Open" => owners[p][pl] \in saved[p] \cup {NoParty}

(* The edits move neither the queue nor a proposal, and of the parties only     *)
(* idle ones.                                                                  *)
LEMMA EditsSpareFrozen ==
  ASSUME RosterInv, NEW pl \in Player,
         \/ CreateParty(pl)
         \/ \E i \in Invite : JoinParty(pl, i)
         \/ \E q \in PartyId : CreateInvite(pl, q) \/ LeaveParty(pl, q) \/ RenameParty(pl, q)
         \/ \E q \in PartyId, target \in Player : KickMember(pl, q, target)
  PROVE  /\ UNCHANGED <<state, queue, proposalVars, history>>
         /\ \A q \in parties : state[q] # "Idle" => q \in parties' /\ members'[q] = members[q]
<1> DEFINE Spared == /\ UNCHANGED <<state, queue, proposalVars, history>>
                     /\ \A q \in parties : state[q] # "Idle" =>
                          q \in parties' /\ members'[q] = members[q]
<1>0. parties \in SUBSET PartyId /\ members \in [PartyId -> SUBSET Player]
  BY DEF RosterInv, PartyTypeOK
<1>1. CASE CreateParty(pl)
  <2>1. nextParty \notin parties
    BY <1>1, IdAssumption DEF CreateParty, NewParty, RosterInv, PartyTypeOK
  <2>2. QED BY <1>0, <1>1, <2>1 DEF CreateParty, NewParty
<1>2. ASSUME NEW i \in Invite, JoinParty(pl, i)
      PROVE  Spared
  BY <1>0, <1>2 DEF JoinParty, JoinEffect
<1>3. ASSUME NEW q \in PartyId, CreateInvite(pl, q) \/ RenameParty(pl, q)
      PROVE  Spared
  BY <1>3 DEF CreateInvite, NewInvite, RenameParty, partyVars
<1>4. ASSUME NEW q \in PartyId, LeaveParty(pl, q)
      PROVE  Spared
  BY <1>0, <1>4 DEF LeaveParty, MayLeave
<1>5. ASSUME NEW q \in PartyId, NEW target \in Player, KickMember(pl, q, target)
      PROVE  Spared
  BY <1>0, <1>5 DEF KickMember, KickEffect, Editable
<1>6. QED BY <1>1, <1>2, <1>3, <1>4, <1>5

LEMMA EditsKeepQueue ==
  ASSUME RosterInv, QueueInv, NEW pl \in Player,
         \/ CreateParty(pl)
         \/ \E i \in Invite : JoinParty(pl, i)
         \/ \E q \in PartyId : CreateInvite(pl, q) \/ LeaveParty(pl, q) \/ RenameParty(pl, q)
         \/ \E q \in PartyId, target \in Player : KickMember(pl, q, target)
  PROVE  QueueInv'
<1>1. /\ UNCHANGED <<state, queue, proposalVars, history>>
      /\ \A q \in parties : state[q] # "Idle" => q \in parties' /\ members'[q] = members[q]
  BY EditsSpareFrozen
<1>2. \A q \in parties : state[q] # "Idle" /\ Fit(q) => Fit(q)'
  BY <1>1 DEF Fit
<1>3. \A q : Fit(q) => q \in parties BY DEF Fit
<1>4. QED BY <1>1, <1>2, <1>3 DEF QueueInv, Frozen, proposalVars, history

LEMMA PlayKeepsQueue ==
  ASSUME RosterInv, QueueInv, Play
  PROVE  QueueInv'
<1>0. /\ state \in [PartyId -> PartyState] /\ queue \in SUBSET PartyId
      /\ saved \in [Proposal -> SUBSET PartyId] /\ phase \in [Proposal -> Phase]
      /\ owners \in [Proposal -> [Player -> PartyId \cup {NoParty}]]
      /\ parties \in SUBSET PartyId /\ loose \in SUBSET PartyId
  BY DEF RosterInv, PartyTypeOK
<1>1. \A q : Fit(q) => Fit(q)'
  BY PlayKeepsRoster DEF Fit
<1>2. \A p \in Proposal : \A q \in saved[p] : q \in PartyId /\ (q \in loose \/ q \notin queue)
  BY <1>0 DEF QueueInv, Frozen
(* A step inside the queue touches no proposal. *)
<1>3. ASSUME UNCHANGED proposalVars,
             \A q \in queue' \ loose' : Fit(q) /\ state'[q] = "Queued",
             \A p \in Proposal : \A q \in saved[p] :
               q \notin loose' => q \notin loose /\ state'[q] = state[q]
      PROVE  QueueInv'
  <2>1. UNCHANGED <<owners, saved, phase>> BY <1>3 DEF proposalVars
  <2>2. \A q \in queue' \ loose' : Fit(q)' /\ state'[q] = "Queued"
    BY <1>1, <1>3
  <2>3. \A p \in Proposal : \A q \in saved[p] :
          phase[p] = "Open" /\ (q \notin loose' => Fit(q)' /\ state'[q] \in Frozen)
    BY <1>1, <1>3 DEF QueueInv
  <2>4. \A p, o \in Proposal : p # o => saved[p] \cap saved[o] \subseteq loose'
    BY <1>3 DEF QueueInv
  <2>5. QED BY <2>1, <2>2, <2>3, <2>4 DEF QueueInv, Frozen
<1>4. ASSUME NEW q \in PartyId, LeavesQueue(q)
      PROVE  QueueInv'
  <2>1. /\ q \in queue /\ queue' = queue \ {q} /\ loose' = loose
        /\ state' = [o \in PartyId |-> IF o \in {q} \cap parties THEN "Idle" ELSE state[o]]
        /\ UNCHANGED proposalVars
    BY <1>4 DEF LeavesQueue, Become, history
  <2>2. \A o \in queue' \ loose' : Fit(o) /\ state'[o] = "Queued"
    BY <1>0, <2>1 DEF QueueInv
  <2>3. \A p \in Proposal : \A o \in saved[p] : o \notin loose' => state'[o] = state[o]
    BY <1>2, <2>1
  <2>4. QED BY <1>3, <2>1, <2>2, <2>3
<1>5. ASSUME NEW pl \in Player, NEW q \in PartyId, Enqueue(pl, q)
      PROVE  QueueInv'
  <2>1. /\ Fit(q) /\ state[q] \in {"Idle", "NotReady"} /\ queue' = queue \cup {q}
        /\ loose' = loose \ ({q} \ SavedBut({})) /\ UNCHANGED proposalVars
    BY <1>5 DEF Enqueue, Current, ValidateEnqueue, Fit
  <2>2. state' = [o \in PartyId |-> IF o = q THEN "Queued" ELSE state[o]]
    BY <1>5 DEF Enqueue, Become
  <2>3. \A p \in Proposal : \A o \in saved[p] : o \in SavedBut({})
    BY DEF SavedBut
  <2>4. \A o \in queue' \ loose' : Fit(o) /\ state'[o] = "Queued"
    BY <1>0, <2>1, <2>2 DEF QueueInv
  <2>5. \A p \in Proposal : \A o \in saved[p] :
          o \notin loose' => o \notin loose /\ state'[o] = state[o]
    BY <1>2, <2>1, <2>2, <2>3 DEF QueueInv, Frozen
  <2>6. QED BY <1>3, <2>1, <2>4, <2>5
<1>6. ASSUME NEW pl \in Player, NEW q \in PartyId, CancelQueue(pl, q)
      PROVE  QueueInv'
  <2>1. /\ queue' = queue \ {q} /\ loose' = loose \cup ({q} \cap SavedBut({}))
        /\ UNCHANGED proposalVars
    BY <1>6 DEF CancelQueue
  <2>2. state' = [o \in PartyId |-> IF o = q THEN "Idle" ELSE state[o]]
    BY <1>6 DEF CancelQueue, Become
  <2>3. \A p \in Proposal : \A o \in saved[p] : o \in SavedBut({})
    BY DEF SavedBut
  <2>4. \A o \in queue' \ loose' : Fit(o) /\ state'[o] = "Queued"
    BY <1>0, <2>1, <2>2 DEF QueueInv
  <2>5. \A p \in Proposal : \A o \in saved[p] :
          o \notin loose' => o \notin loose /\ state'[o] = state[o]
    BY <1>2, <2>1, <2>2, <2>3
  <2>6. QED BY <1>3, <2>1, <2>4, <2>5
<1>7. ASSUME NEW S \in SUBSET PartyId, CommitCandidate(S)
      PROVE  QueueInv'
  <2> DEFINE n == nextProposal
  <2>1. /\ n \in Proposal /\ S \subseteq queue /\ queue' = queue \ S /\ loose' = loose
        /\ saved' = [saved EXCEPT ![n] = S] /\ phase' = [phase EXCEPT ![n] = "Open"]
    BY <1>7 DEF CommitCandidate, CommitValid
  <2>2. state' = [q \in PartyId |-> IF q \in S THEN "AwaitingAccept" ELSE state[q]]
    BY <1>7 DEF CommitCandidate, Become
  <2>3. \A p \in Proposal : saved[p] \cap S \subseteq loose
    BY <1>2, <2>1
  <2>4. \A q \in queue' \ loose' : Fit(q)' /\ state'[q] = "Queued"
    BY <1>0, <1>1, <2>1, <2>2 DEF QueueInv
  <2>5. ASSUME NEW p \in Proposal, NEW q \in saved'[p]
        PROVE  phase'[p] = "Open" /\ (q \notin loose' => Fit(q)' /\ state'[q] \in Frozen)
    <3>1. CASE p = n
      BY <1>0, <1>1, <2>1, <2>2, <3>1 DEF QueueInv, Frozen
    <3>2. CASE p # n
      BY <1>0, <1>1, <2>1, <2>2, <2>3, <3>2 DEF QueueInv, Frozen
    <3>3. QED BY <3>1, <3>2
  <2>6. \A p, o \in Proposal : p # o => saved'[p] \cap saved'[o] \subseteq loose'
    BY <1>0, <2>1, <2>3 DEF QueueInv
  <2>7. \A p \in Proposal, pl \in Player :
          phase'[p] = "Open" => owners'[p][pl] \in saved'[p] \cup {NoParty}
    <3>1. PICK owner \in [UNION {members[q] : q \in S} -> S] :
            owners' = [owners EXCEPT ![n] =
                         [pl \in Player |-> IF pl \in DOMAIN owner THEN owner[pl]
                                            ELSE NoParty]]
      BY <1>7 DEF CommitCandidate
    <3>2. QED BY <1>0, <2>1, <3>1 DEF QueueInv
  <2>8. QED BY <2>4, <2>5, <2>6, <2>7 DEF QueueInv, Frozen
<1>8. ASSUME NEW p \in Proposal, PublishMatch(p)
      PROVE  QueueInv'
  <2>1. UNCHANGED <<queue, owners, saved, phase, loose>>
    BY <1>8 DEF PublishMatch
  <2>2. state' = [q \in PartyId |-> IF q \in saved[p] \cap parties THEN "Matched" ELSE state[q]]
    BY <1>8 DEF PublishMatch, Become
  <2>3. \A q \in queue' \ loose' : Fit(q)' /\ state'[q] = "Queued"
    BY <1>0, <1>1, <1>2, <2>1, <2>2 DEF QueueInv
  <2>4. \A o \in Proposal : \A q \in saved[o] :
          q \notin loose => Fit(q)' /\ state'[q] \in Frozen
    BY <1>1, <1>2, <2>2 DEF QueueInv, Frozen
  <2>5. QED BY <2>1, <2>3, <2>4 DEF QueueInv, Frozen
(* A proposal that ends leaves the others alone; its parties move on. *)
<1>9. ASSUME NEW p \in Proposal, NEW value \in {"Cancelled", "Finished"},
             saved' = [saved EXCEPT ![p] = {}], phase' = [phase EXCEPT ![p] = value],
             \A o \in Proposal \ {p} : owners'[o] = owners[o],
             loose \subseteq loose',
             \A q \in queue' \ loose' : Fit(q) /\ state'[q] = "Queued",
             \A o \in Proposal \ {p} : \A q \in saved[o] \ loose' : state'[q] = state[q]
      PROVE  QueueInv'
  <2>1. /\ saved'[p] = {} /\ phase'[p] # "Open"
        /\ \A o \in Proposal \ {p} :
             saved'[o] = saved[o] /\ phase'[o] = phase[o] /\ owners'[o] = owners[o]
    BY <1>0, <1>9
  <2>2. \A q \in queue' \ loose' : Fit(q)' /\ state'[q] = "Queued"
    BY <1>1, <1>9
  <2>3. ASSUME NEW o \in Proposal, NEW q \in saved'[o]
        PROVE  phase'[o] = "Open" /\ (q \notin loose' => Fit(q)' /\ state'[q] \in Frozen)
    <3>1. o # p /\ q \in saved[o] BY <2>1
    <3>2. QED BY <1>1, <1>9, <2>1, <3>1 DEF QueueInv
  <2>4. \A o, r \in Proposal : o # r => saved'[o] \cap saved'[r] \subseteq loose'
    BY <1>9, <2>1 DEF QueueInv
  <2>5. \A o \in Proposal, pl \in Player :
          phase'[o] = "Open" => owners'[o][pl] \in saved'[o] \cup {NoParty}
    BY <2>1 DEF QueueInv
  <2>6. QED BY <2>2, <2>3, <2>4, <2>5 DEF QueueInv, Frozen
<1>10. ASSUME NEW p \in Proposal, FinishMatch(p)
       PROVE  QueueInv'
  <2> DEFINE recorded == {owners[p][pl] : pl \in Player} \cap parties
  <2>1. /\ saved' = [saved EXCEPT ![p] = {}] /\ phase' = [phase EXCEPT ![p] = "Finished"]
        /\ owners' = [owners EXCEPT ![p] = [pl \in Player |-> NoParty]] /\ queue' = queue
        /\ loose' = loose \cup (recorded \cap (queue \cup SavedBut({p})))
        /\ state' = [q \in PartyId |-> IF q \in recorded THEN "Idle" ELSE state[q]]
    BY <1>10 DEF FinishMatch, Become
  <2>2. \A o \in Proposal \ {p} : \A q \in saved[o] : q \in SavedBut({p})
    BY DEF SavedBut
  <2>3. \A q \in queue' \ loose' : Fit(q) /\ state'[q] = "Queued"
    BY <1>0, <2>1 DEF QueueInv
  <2>4. \A o \in Proposal \ {p} : \A q \in saved[o] \ loose' : state'[q] = state[q]
    BY <1>2, <2>1, <2>2
  <2>5. \A o \in Proposal \ {p} : owners'[o] = owners[o]
    BY <1>0, <2>1
  <2>6. QED BY <1>9, <2>1, <2>3, <2>4, <2>5
<1>11. ASSUME NEW p \in Proposal, NEW F \in SUBSET Player, Cancels(p, F)
       PROVE  QueueInv'
  <2> DEFINE back == saved[p] \cap parties
             failed == FailedOf(p, F)
  <2>1. /\ saved' = [saved EXCEPT ![p] = {}] /\ phase' = [phase EXCEPT ![p] = "Cancelled"]
        /\ UNCHANGED <<owners, loose>> /\ queue' = queue \cup (back \ failed)
        /\ state' = [q \in PartyId |-> IF q \in failed THEN "NotReady"
                                       ELSE IF q \in back THEN "Queued" ELSE state[q]]
    BY <1>11 DEF Cancels, CancelProposal
  <2>2. failed \subseteq back BY DEF FailedOf
  <2>3. \A q \in back \ loose : Fit(q) BY DEF QueueInv
  <2>4. \A q \in queue' \ loose' : Fit(q) /\ state'[q] = "Queued"
    BY <1>0, <1>2, <2>1, <2>2, <2>3 DEF QueueInv
  <2>5. \A o \in Proposal \ {p} : \A q \in saved[o] \ loose' : q \notin back
    BY <2>1 DEF QueueInv
  <2>6. \A o \in Proposal \ {p} : \A q \in saved[o] \ loose' : state'[q] = state[q]
    BY <1>2, <2>1, <2>2, <2>5
  <2>7. QED BY <1>9, <2>1, <2>4, <2>6
<1>12. ASSUME NEW p \in Proposal, Launch(p)
       PROVE  QueueInv'
  BY <1>1, <1>12 DEF Launch, QueueInv, Frozen, partyVars, history
<1>13. QED BY <1>4, <1>5, <1>6, <1>7, <1>8, <1>10, <1>11, <1>12, PlayIs DEF RosterInv

(* The strengthening holds in every reachable state. *)
THEOREM QueueInvariant == Spec => []QueueInv
<1>1. Init => QueueInv
  BY DEF Init, QueueInv
<1>2. RosterInv /\ QueueInv /\ [Next]_vars => QueueInv'
  <2> SUFFICES ASSUME RosterInv, QueueInv, [Next]_vars PROVE QueueInv'
    OBVIOUS
  <2>1. ASSUME NEW pl \in Player,
               \/ CreateParty(pl)
               \/ \E i \in Invite : JoinParty(pl, i)
               \/ \E q \in PartyId :
                    CreateInvite(pl, q) \/ LeaveParty(pl, q) \/ RenameParty(pl, q)
               \/ \E q \in PartyId, target \in Player : KickMember(pl, q, target)
        PROVE  QueueInv'
    BY <2>1, EditsKeepQueue
  <2>2. CASE Play
    BY <2>2, PlayKeepsQueue
  <2>3. CASE UNCHANGED vars
    BY <2>3 DEF vars, partyVars, inviteVars, proposalVars, history, QueueInv, Fit, Frozen
  <2>4. QED BY <2>1, <2>2, <2>3 DEF Next, Play
<1>3. QED BY <1>1, <1>2, RosterInvariant, PTL DEF Spec

(* What waits in the queue and was not cut loose is an existing party, Queued, *)
(* of a size the mode takes, whatever leaders, clocks and servers do           *)
(* (QueuedWellFormed).                                                         *)
THEOREM QueueIsWellFormed == Spec => []QueuedWellFormed
<1>1. QueueInv => QueuedWellFormed
  BY DEF QueueInv, Fit, QueuedWellFormed
<1>2. QED BY <1>1, QueueInvariant, PTL

-------------------------------------------------------------------------------
(* Rosters.  RosterFrozen needs QueueInv, as only parties that are not Idle     *)
(* cannot be edited.                                                           *)

LEMMA EditsKeepFreeze ==
  ASSUME RosterInv, QueueInv, RosterFrozen, NEW pl \in Player,
         \/ CreateParty(pl)
         \/ \E i \in Invite : JoinParty(pl, i)
         \/ \E q \in PartyId : CreateInvite(pl, q) \/ LeaveParty(pl, q) \/ RenameParty(pl, q)
         \/ \E q \in PartyId, target \in Player : KickMember(pl, q, target)
  PROVE  RosterFrozen'
<1>1. /\ UNCHANGED <<state, queue, proposalVars, history>>
      /\ \A q \in parties : state[q] # "Idle" => q \in parties' /\ members'[q] = members[q]
  BY EditsSpareFrozen
<1>2. \A p \in Proposal : \A q \in saved[p] \ loose : q \in parties' /\ members'[q] = members[q]
  BY <1>1 DEF QueueInv, Fit, Frozen
<1>3. QED BY <1>1, <1>2 DEF RosterFrozen, Roster, proposalVars, history

LEMMA PlayKeepsFreeze ==
  ASSUME RosterInv, QueueInv, RosterFrozen, Play
  PROVE  RosterFrozen'
<1>0. UNCHANGED <<parties, members>>
  BY PlayKeepsRoster
<1>1. /\ saved \in [Proposal -> SUBSET PartyId] /\ phase \in [Proposal -> Phase]
      /\ owners \in [Proposal -> [Player -> PartyId \cup {NoParty}]]
      /\ members \in [PartyId -> SUBSET Player]
  BY DEF RosterInv, PartyTypeOK
(* A proposal other than p stays as it is; p is not open, or nothing happens   *)
(* to its parties.                                                             *)
<1>2. ASSUME NEW p \in Proposal, phase'[p] # "Open",
             \A o \in Proposal \ {p} :
               saved'[o] = saved[o] /\ phase'[o] = phase[o] /\ owners'[o] = owners[o],
             loose \subseteq loose'
      PROVE  RosterFrozen'
  BY <1>0, <1>2 DEF RosterFrozen, Roster
<1>3. ASSUME UNCHANGED <<owners, saved, phase>>,
             \A p \in Proposal : saved[p] \ loose' \subseteq saved[p] \ loose
      PROVE  RosterFrozen'
  BY <1>0, <1>3 DEF RosterFrozen, Roster
<1>4. CASE \/ \E q \in PartyId : LeavesQueue(q)
           \/ \E pl \in Player, q \in PartyId : Enqueue(pl, q) \/ CancelQueue(pl, q)
           \/ \E p \in Proposal : Launch(p) \/ PublishMatch(p)
  <2>1. UNCHANGED <<owners, saved, phase>>
    BY <1>4 DEF LeavesQueue, Enqueue, CancelQueue, Launch, PublishMatch, proposalVars
  <2>2. \A p \in Proposal : \A q \in saved[p] : q \in SavedBut({})
    BY DEF SavedBut
  <2>3. \A p \in Proposal : saved[p] \ loose' \subseteq saved[p] \ loose
    BY <1>4, <2>2 DEF LeavesQueue, Enqueue, CancelQueue, Launch, PublishMatch, history
  <2>4. QED BY <1>3, <2>1, <2>3
<1>5. ASSUME NEW S \in SUBSET PartyId, CommitCandidate(S)
      PROVE  RosterFrozen'
  <2>1. PICK owner \in [UNION {members[q] : q \in S} -> S] :
          /\ \A pl \in DOMAIN owner : pl \in members[owner[pl]]
          /\ owners' = [owners EXCEPT ![nextProposal] =
                          [pl \in Player |-> IF pl \in DOMAIN owner THEN owner[pl]
                                             ELSE NoParty]]
    BY <1>5 DEF CommitCandidate
  <2>2. PICK n \in Proposal : n = nextProposal
    BY <1>5 DEF CommitCandidate
  <2>3. /\ saved' = [saved EXCEPT ![n] = S] /\ phase' = [phase EXCEPT ![n] = "Open"]
        /\ S \subseteq parties /\ loose' = loose
    BY <1>5, <2>2 DEF CommitCandidate, CommitValid
  <2> DEFINE U == UNION {members[q] : q \in S}
  <2>4. /\ DOMAIN owner = U /\ U \subseteq Player /\ NoParty \notin S
        /\ \A pl \in U : owner[pl] \in S
        /\ \A q \in S : members[q] \subseteq U
    BY <1>1, <2>1, IdAssumption DEF NoParty
  <2> HIDE DEF U
  <2>5. owners'[n] = [pl \in Player |-> IF pl \in U THEN owner[pl] ELSE NoParty]
    BY <1>1, <2>1, <2>2, <2>4
  <2>6. Roster(n)' = U
    BY <2>4, <2>5 DEF Roster
  <2>7. \A q \in S : /\ q \in parties /\ members[q] \subseteq Roster(n)'
                     /\ \A pl \in Player : owners'[n][pl] = q => pl \in members[q]
    BY <2>1, <2>3, <2>4, <2>5, <2>6
  <2>8. \A o \in Proposal \ {n} :
          saved'[o] = saved[o] /\ phase'[o] = phase[o] /\ owners'[o] = owners[o]
    BY <1>1, <2>1, <2>2, <2>3
  <2>9. saved'[n] = S BY <1>1, <2>3
  <2>10. ASSUME NEW p \in Proposal, phase'[p] = "Open", NEW q \in saved'[p] \ loose'
         PROVE  /\ q \in parties' /\ members'[q] \subseteq Roster(p)'
                /\ \A pl \in Player : owners'[p][pl] = q => pl \in members'[q]
    <3>1. CASE p = n
      BY <1>0, <2>7, <2>9, <2>10, <3>1
    <3>2. CASE p # n
      <4>1. phase[p] = "Open" /\ q \in saved[p] \ loose /\ owners'[p] = owners[p]
        BY <2>3, <2>8, <2>10, <3>2
      <4>2. Roster(p)' = Roster(p) BY <4>1 DEF Roster
      <4>3. QED BY <1>0, <4>1, <4>2 DEF RosterFrozen
    <3>3. QED BY <3>1, <3>2
  <2>11. QED BY <2>10 DEF RosterFrozen
<1>6. ASSUME NEW p \in Proposal, FinishMatch(p)
      PROVE  RosterFrozen'
  BY <1>1, <1>2, <1>6 DEF FinishMatch
<1>7. ASSUME NEW p \in Proposal, NEW F \in SUBSET Player, Cancels(p, F)
      PROVE  RosterFrozen'
  BY <1>1, <1>2, <1>7 DEF Cancels, CancelProposal
<1>8. QED BY <1>4, <1>5, <1>6, <1>7, PlayIs DEF RosterInv

(* What a ready check or a match has recorded of a party that nobody cut loose *)
(* is what the party still is (RosterFrozen).                                  *)
THEOREM RosterIsFrozen == Spec => []RosterFrozen
<1>1. Init => RosterFrozen
  BY DEF Init, RosterFrozen
<1>2. RosterInv /\ QueueInv /\ RosterFrozen /\ [Next]_vars => RosterFrozen'
  <2> SUFFICES ASSUME RosterInv, QueueInv, RosterFrozen, [Next]_vars PROVE RosterFrozen'
    OBVIOUS
  <2>1. ASSUME NEW pl \in Player,
               \/ CreateParty(pl)
               \/ \E i \in Invite : JoinParty(pl, i)
               \/ \E q \in PartyId :
                    CreateInvite(pl, q) \/ LeaveParty(pl, q) \/ RenameParty(pl, q)
               \/ \E q \in PartyId, target \in Player : KickMember(pl, q, target)
        PROVE  RosterFrozen'
    BY <2>1, EditsKeepFreeze
  <2>2. CASE Play
    BY <2>2, PlayKeepsFreeze
  <2>3. CASE UNCHANGED vars
    BY <2>3 DEF vars, partyVars, inviteVars, proposalVars, history, RosterFrozen, Roster
  <2>4. QED BY <2>1, <2>2, <2>3 DEF Next, Play
<1>3. QED BY <1>1, <1>2, RosterInvariant, QueueInvariant, PTL DEF Spec

-------------------------------------------------------------------------------
(* Players.  PlayersHeldOnce is inductive with one fact more: identities of     *)
(* proposals are not used again, so a new proposal holds nobody yet.           *)

HolderOf(pl) == {playerProposal[pl], playerMatch[pl]} \ {NoProposal}
RecordedIn(pl) == {p \in Proposal : phase[p] = "Open" /\ pl \in Roster(p)}

(* PlayersHeldOnce for one player. *)
HeldWell(pl) ==
  /\ HolderOf(pl) = RecordedIn(pl)
  /\ playerProposal[pl] = NoProposal \/ playerMatch[pl] = NoProposal

HoldInv ==
  /\ \A pl \in Player \ stray : HeldWell(pl)
  /\ \A p \in Proposal : phase[p] = "Open" => p < nextProposal

(* Who is held in the same way as before, and recorded by the same proposals,  *)
(* is held well.                                                               *)
LEMMA HeldAsBefore ==
  ASSUME NEW pl \in Player, HeldWell(pl),
         playerProposal'[pl] = playerProposal[pl], playerMatch'[pl] = playerMatch[pl],
         \A p \in Proposal : (phase'[p] = "Open" /\ pl \in Roster(p)')
                               <=> (phase[p] = "Open" /\ pl \in Roster(p))
  PROVE  HeldWell(pl)'
<1>1. RecordedIn(pl)' = RecordedIn(pl) BY DEF RecordedIn
<1>2. QED BY <1>1 DEF HeldWell, HolderOf

LEMMA PlayKeepsHold ==
  ASSUME RosterInv, HoldInv, Play
  PROVE  HoldInv'
<1>0. /\ saved \in [Proposal -> SUBSET PartyId] /\ phase \in [Proposal -> Phase]
      /\ owners \in [Proposal -> [Player -> PartyId \cup {NoParty}]]
      /\ playerProposal \in [Player -> Proposal \cup {NoProposal}]
      /\ playerMatch \in [Player -> Proposal \cup {NoProposal}]
      /\ members \in [PartyId -> SUBSET Player] /\ nextProposal \in Nat
      /\ NoProposal \notin Proposal /\ Proposal \subseteq Nat
  BY IdAssumption DEF RosterInv, PartyTypeOK, NoProposal
<1>1. CASE UNCHANGED <<proposalVars, stray>>
  <2>1. \A pl \in Player : HeldWell(pl) => HeldWell(pl)'
    BY <1>1, HeldAsBefore DEF proposalVars, Roster
  <2>2. QED BY <1>1, <2>1 DEF HoldInv, proposalVars
<1>2. ASSUME NEW p \in Proposal, Launch(p)
      PROVE  HoldInv'
  <2>1. UNCHANGED <<playerProposal, playerMatch, owners, phase, nextProposal, stray>>
    BY <1>2 DEF Launch, history
  <2>2. \A pl \in Player : HeldWell(pl) => HeldWell(pl)'
    BY <2>1, HeldAsBefore DEF Roster
  <2>3. QED BY <2>1, <2>2 DEF HoldInv
<1>3. ASSUME NEW S \in SUBSET PartyId, CommitCandidate(S)
      PROVE  HoldInv'
  <2>1. PICK owner \in [UNION {members[q] : q \in S} -> S] :
          /\ owners' = [owners EXCEPT ![nextProposal] =
                          [pl \in Player |-> IF pl \in DOMAIN owner THEN owner[pl]
                                             ELSE NoParty]]
          /\ playerProposal' = [pl \in Player |-> IF pl \in DOMAIN owner THEN nextProposal
                                                  ELSE playerProposal[pl]]
          /\ stray' = stray \ (DOMAIN owner \ Recorded)
    BY <1>3 DEF CommitCandidate
  <2>2. PICK n \in Proposal : n = nextProposal
    BY <1>3 DEF CommitCandidate
  <2>3. /\ phase' = [phase EXCEPT ![n] = "Open"] /\ nextProposal' = n + 1
        /\ S \subseteq parties /\ playerMatch' = playerMatch
        /\ \A q \in S : \A pl \in members[q] :
             playerProposal[pl] = NoProposal /\ playerMatch[pl] = NoProposal
    BY <1>3, <2>2 DEF CommitCandidate, CommitValid
  <2> DEFINE U == UNION {members[q] : q \in S}
  <2>4. /\ DOMAIN owner = U /\ NoParty \notin S
        /\ \A pl \in U : /\ owner[pl] \in S /\ pl \in Player
                         /\ playerProposal[pl] = NoProposal /\ playerMatch[pl] = NoProposal
    BY <1>0, <2>1, <2>3, IdAssumption DEF NoParty
  <2> HIDE DEF U
  <2>5. owners'[n] = [pl \in Player |-> IF pl \in U THEN owner[pl] ELSE NoParty]
    BY <1>0, <2>1, <2>2, <2>4
  <2>6. Roster(n)' = U /\ phase'[n] = "Open" /\ phase[n] # "Open"
    BY <1>0, <2>2, <2>3, <2>4, <2>5 DEF Roster, HoldInv
  <2>7. \A o \in Proposal \ {n} : phase'[o] = phase[o] /\ Roster(o)' = Roster(o)
    BY <1>0, <2>1, <2>2, <2>3 DEF Roster
  <2>8. \A p \in Proposal : phase'[p] = "Open" => p < nextProposal'
    BY <1>0, <2>2, <2>3, <2>7 DEF HoldInv
  <2>9. ASSUME NEW pl \in Player \ stray'
        PROVE  HeldWell(pl)'
    <3>1. CASE pl \in U
      <4>1. RecordedIn(pl) = {}
        <5>1. CASE pl \in stray
          BY <2>1, <2>4, <2>9, <3>1, <5>1 DEF Recorded, RecordedIn
        <5>2. CASE pl \notin stray
          BY <2>4, <3>1, <5>2 DEF HoldInv, HeldWell, HolderOf
        <5>3. QED BY <5>1, <5>2
      <4>2. RecordedIn(pl)' = {n}
        BY <2>6, <2>7, <3>1, <4>1 DEF RecordedIn
      <4>3. playerProposal'[pl] = n /\ playerMatch'[pl] = NoProposal
        BY <2>1, <2>2, <2>3, <2>4, <3>1
      <4>4. QED BY <1>0, <4>2, <4>3 DEF HeldWell, HolderOf
    <3>2. CASE pl \notin U
      <4>1. pl \notin stray BY <2>1, <2>4, <2>9, <3>2
      <4>2. playerProposal'[pl] = playerProposal[pl] /\ playerMatch'[pl] = playerMatch[pl]
        BY <2>1, <2>3, <2>4, <3>2
      <4>3. \A p \in Proposal : (phase'[p] = "Open" /\ pl \in Roster(p)')
                                  <=> (phase[p] = "Open" /\ pl \in Roster(p))
        BY <2>6, <2>7, <3>2
      <4>4. QED BY <4>1, <4>2, <4>3, HeldAsBefore DEF HoldInv
    <3>3. QED BY <3>1, <3>2
  <2>10. QED BY <2>8, <2>9 DEF HoldInv
<1>4. ASSUME NEW p \in Proposal, PublishMatch(p)
      PROVE  HoldInv'
  <2>1. /\ UNCHANGED <<owners, phase, nextProposal>>
        /\ playerMatch' = [pl \in Player |-> IF pl \in Roster(p) THEN p ELSE playerMatch[pl]]
        /\ playerProposal' = [pl \in Player |-> IF pl \in Roster(p) THEN NoProposal
                                                ELSE playerProposal[pl]]
        /\ stray' = IF phase[p] = "Open" THEN stray ELSE stray \cup Roster(p)
    BY <1>4 DEF PublishMatch, LetGo
  <2>2. \A o \in Proposal : phase'[o] = phase[o] /\ Roster(o)' = Roster(o)
    BY <2>1 DEF Roster
  <2>3. ASSUME NEW pl \in Player \ stray'
        PROVE  HeldWell(pl)'
    <3>1. pl \notin stray /\ HeldWell(pl) BY <2>1, <2>3 DEF HoldInv
    <3>2. CASE pl \in Roster(p)
      <4>1. p \in RecordedIn(pl) BY <2>1, <2>3, <3>2 DEF RecordedIn
      <4>2. RecordedIn(pl) = {p} BY <3>1, <4>1 DEF HeldWell, HolderOf
      <4>3. RecordedIn(pl)' = {p} BY <2>2, <4>2 DEF RecordedIn
      <4>4. QED BY <1>0, <2>1, <3>2, <4>3 DEF HeldWell, HolderOf
    <3>3. CASE pl \notin Roster(p)
      BY <2>1, <2>2, <3>1, <3>3, HeldAsBefore
    <3>4. QED BY <3>2, <3>3
  <2>4. QED BY <2>1, <2>3 DEF HoldInv
<1>5. ASSUME NEW p \in Proposal, FinishMatch(p)
      PROVE  HoldInv'
  <2>1. /\ UNCHANGED <<playerProposal, nextProposal>>
        /\ phase' = [phase EXCEPT ![p] = "Finished"]
        /\ owners' = [owners EXCEPT ![p] = [pl \in Player |-> NoParty]]
        /\ playerMatch' = [pl \in Player |-> IF pl \in Roster(p) THEN NoProposal
                                             ELSE playerMatch[pl]]
        /\ stray' = stray \cup {pl \in Roster(p) : playerMatch[pl] \notin {p, NoProposal}
                                                    \/ playerProposal[pl] = p}
    BY <1>5 DEF FinishMatch
  <2>2. /\ phase'[p] # "Open"
        /\ \A o \in Proposal \ {p} : phase'[o] = phase[o] /\ Roster(o)' = Roster(o)
    BY <1>0, <2>1 DEF Roster
  <2>3. ASSUME NEW pl \in Player \ stray'
        PROVE  HeldWell(pl)'
    <3>1. HeldWell(pl) BY <2>1, <2>3 DEF HoldInv
    <3>2. CASE pl \in Roster(p) /\ phase[p] = "Open"
      <4>1. p \in RecordedIn(pl) BY <3>2 DEF RecordedIn
      <4>2. RecordedIn(pl) = {p} /\ playerProposal[pl] \in {p, NoProposal}
        BY <3>1, <4>1 DEF HeldWell, HolderOf
      <4>3. playerProposal[pl] # p BY <2>1, <2>3, <3>2
      <4>4. RecordedIn(pl)' = {} BY <2>2, <4>2 DEF RecordedIn
      <4>5. playerProposal'[pl] = NoProposal /\ playerMatch'[pl] = NoProposal
        BY <2>1, <3>2, <4>2, <4>3
      <4>6. QED BY <4>4, <4>5 DEF HeldWell, HolderOf
    <3>3. CASE pl \notin Roster(p) \/ phase[p] # "Open"
      <4>1. \A o \in Proposal : (phase'[o] = "Open" /\ pl \in Roster(o)')
                                  <=> (phase[o] = "Open" /\ pl \in Roster(o))
        BY <2>2, <3>3
      <4>2. playerMatch'[pl] = playerMatch[pl]
        <5>1. CASE pl \in Roster(p)
          <6>1. p \notin RecordedIn(pl) BY <3>3, <5>1 DEF RecordedIn
          <6>2. playerMatch[pl] # p BY <1>0, <3>1, <6>1 DEF HeldWell, HolderOf
          <6>3. playerMatch[pl] = NoProposal BY <2>1, <2>3, <5>1, <6>2
          <6>4. QED BY <2>1, <5>1, <6>3
        <5>2. CASE pl \notin Roster(p)
          BY <2>1, <5>2
        <5>3. QED BY <5>1, <5>2
      <4>3. QED BY <2>1, <3>1, <4>1, <4>2, HeldAsBefore
    <3>4. QED BY <3>2, <3>3
  <2>4. \A o \in Proposal : phase'[o] = "Open" => o < nextProposal'
    BY <2>1, <2>2 DEF HoldInv
  <2>5. QED BY <2>3, <2>4 DEF HoldInv
<1>6. ASSUME NEW p \in Proposal, NEW F \in SUBSET Player, Cancels(p, F)
      PROVE  HoldInv'
  <2>1. /\ UNCHANGED <<playerMatch, owners, nextProposal>>
        /\ phase' = [phase EXCEPT ![p] = "Cancelled"]
        /\ playerProposal' = [pl \in Player |-> IF pl \in Roster(p) THEN NoProposal
                                                ELSE playerProposal[pl]]
        /\ stray' = stray \cup {pl \in Roster(p) : playerProposal[pl] \notin {p, NoProposal}
                                                    \/ playerMatch[pl] = p}
    BY <1>6 DEF Cancels, CancelProposal, LetGo
  <2>2. /\ phase'[p] # "Open"
        /\ \A o \in Proposal \ {p} : phase'[o] = phase[o] /\ Roster(o)' = Roster(o)
    BY <1>0, <2>1 DEF Roster
  <2>3. ASSUME NEW pl \in Player \ stray'
        PROVE  HeldWell(pl)'
    <3>1. HeldWell(pl) BY <2>1, <2>3 DEF HoldInv
    <3>2. CASE pl \in Roster(p) /\ phase[p] = "Open"
      <4>1. p \in RecordedIn(pl) BY <3>2 DEF RecordedIn
      <4>2. RecordedIn(pl) = {p} /\ playerMatch[pl] \in {p, NoProposal}
        BY <3>1, <4>1 DEF HeldWell, HolderOf
      <4>3. playerMatch[pl] # p BY <2>1, <2>3, <3>2
      <4>4. RecordedIn(pl)' = {} BY <2>2, <4>2 DEF RecordedIn
      <4>5. playerProposal'[pl] = NoProposal /\ playerMatch'[pl] = NoProposal
        BY <2>1, <3>2, <4>2, <4>3
      <4>6. QED BY <4>4, <4>5 DEF HeldWell, HolderOf
    <3>3. CASE pl \notin Roster(p) \/ phase[p] # "Open"
      <4>1. \A o \in Proposal : (phase'[o] = "Open" /\ pl \in Roster(o)')
                                  <=> (phase[o] = "Open" /\ pl \in Roster(o))
        BY <2>2, <3>3
      <4>2. playerProposal'[pl] = playerProposal[pl]
        <5>1. CASE pl \in Roster(p)
          <6>1. p \notin RecordedIn(pl) BY <3>3, <5>1 DEF RecordedIn
          <6>2. playerProposal[pl] # p BY <1>0, <3>1, <6>1 DEF HeldWell, HolderOf
          <6>3. playerProposal[pl] = NoProposal BY <2>1, <2>3, <5>1, <6>2
          <6>4. QED BY <2>1, <5>1, <6>3
        <5>2. CASE pl \notin Roster(p)
          BY <2>1, <5>2
        <5>3. QED BY <5>1, <5>2
      <4>3. QED BY <2>1, <3>1, <4>1, <4>2, HeldAsBefore
    <3>4. QED BY <3>2, <3>3
  <2>4. \A o \in Proposal : phase'[o] = "Open" => o < nextProposal'
    BY <2>1, <2>2 DEF HoldInv
  <2>5. QED BY <2>3, <2>4 DEF HoldInv
<1>7. CASE \/ \E q \in PartyId : LeavesQueue(q)
           \/ \E pl \in Player, q \in PartyId : Enqueue(pl, q) \/ CancelQueue(pl, q)
  BY <1>1, <1>7 DEF LeavesQueue, Enqueue, CancelQueue, history
<1>8. QED BY <1>2, <1>3, <1>4, <1>5, <1>6, <1>7, PlayIs DEF RosterInv

(* Players no stale launch has touched are in at most one proposal or match,   *)
(* the open one that records them, and whoever an open proposal records is in  *)
(* it (PlayersHeldOnce).                                                       *)
THEOREM PlayersAreHeldOnce == Spec => []PlayersHeldOnce
<1>1. Init => HoldInv
  BY DEF Init, HoldInv, HeldWell, HolderOf, RecordedIn
<1>2. RosterInv /\ HoldInv /\ [Next]_vars => HoldInv'
  <2> SUFFICES ASSUME RosterInv, HoldInv, [Next]_vars PROVE HoldInv'
    OBVIOUS
  <2>1. CASE UNCHANGED <<proposalVars, stray>>
    <3>1. \A pl \in Player : HeldWell(pl) => HeldWell(pl)'
      BY <2>1, HeldAsBefore DEF proposalVars, Roster
    <3>2. QED BY <2>1, <3>1 DEF HoldInv, proposalVars
  <2>2. ASSUME NEW pl \in Player,
               \/ CreateParty(pl)
               \/ \E i \in Invite : JoinParty(pl, i)
               \/ \E q \in PartyId :
                    CreateInvite(pl, q) \/ LeaveParty(pl, q) \/ RenameParty(pl, q)
               \/ \E q \in PartyId, target \in Player : KickMember(pl, q, target)
        PROVE  HoldInv'
    BY <2>1, <2>2, EditsSpareFrozen DEF history
  <2>3. CASE Play
    BY <2>3, PlayKeepsHold
  <2>4. CASE UNCHANGED vars
    BY <2>1, <2>4 DEF vars, history
  <2>5. QED BY <2>2, <2>3, <2>4 DEF Next, Play
<1>3. HoldInv => PlayersHeldOnce
  BY DEF HoldInv, HeldWell, HolderOf, RecordedIn, PlayersHeldOnce
<1>4. QED BY <1>1, <1>2, <1>3, RosterInvariant, PTL DEF Spec
================================================================================
