----------------------------- MODULE PartyRoster -----------------------------
(***************************************************************************)
(* Parties and invites: core/src/party.rs and the party handlers of        *)
(* core/src/grpc/mod.rs, with what the queue, a proposal and a match do to *)
(* a party and to the players recorded in it.  Module Authority follows    *)
(* proposals and launches with fixed parties; here the parties change, and *)
(* of a proposal only what reaches parties and players is kept: that it is *)
(* opened, launched, cancelled, published and finished, in any order the   *)
(* code's maps allow (a cancelled one may be published and finished).      *)
(*                                                                         *)
(* Abstractions.  One queue mode.  A request names any party and any       *)
(* player, as the SDK lets a caller do; one that carries an old revision,  *)
(* or that the code rejects before it changes anything, is not a step.     *)
(* An expired invite is one nobody uses any more.  Which parties a builder *)
(* puts together is any set with the right number of seats.  Answers,      *)
(* deadlines, servers and retries are left to Authority: a ready check may *)
(* fail and a launch may start, be given up or answered at any time.       *)
(***************************************************************************)
EXTENDS Naturals, FiniteSets

CONSTANTS
  Player,
  PartyId,       \* party identities 1 .. n (bound on create_party)
  Invite,        \* invite tokens 1 .. n (bound on create_invite)
  MaxUses,       \* bound on the uses of an invite (100)
  MaxRevision,   \* bound: no client command on party q beyond MaxRevision[q]
  Proposal,      \* proposal identities 1 .. n (bound on proposals)
  Sizes,         \* party sizes validate_enqueue takes in the mode
  Seats,         \* players in a match of the mode
  NoPlayer       \* not a player

ASSUME IdAssumption ==
  PartyId \subseteq Nat \ {0} /\ Invite \subseteq Nat \ {0} /\ Proposal \subseteq Nat \ {0}
ASSUME BoundAssumption == MaxUses \in Nat \ {0} /\ MaxRevision \in [PartyId -> Nat]
ASSUME ModeAssumption == Sizes \subseteq Nat \ {0} /\ Seats \in Nat
ASSUME NoPlayerAssumption == NoPlayer \notin Player

VARIABLES
  parties,      \* the domain of AuthorityState.parties
  leader,
  members,
  revision,
  state,        \* PartyState
  playerParty,  \* player_party, NoParty if the player is not in the map
  nextParty,
  uses,         \* remaining_uses of an invite
  inviteFor,    \* the party of an invite
  nextInvite,
  queue,        \* the parties with an entry in tickets
  playerProposal,  \* NoProposal if the player is not in the map
  playerMatch,     \* the proposal whose match it is, NoProposal likewise
  owners,       \* proposals[p].parties: the party each player was taken from
  saved,        \* proposal_tickets[p]: parties whose ticket p holds
  phase,        \* what became of proposal p
  launched,     \* the proposals with an entry in launches
  nextProposal,
  loose,        \* history: parties set Idle behind the back of what holds them
  stray         \* history: players whose maps a launch without its proposal,
                \* or a proposal without its match, has touched

partyVars == <<parties, leader, members, revision, state, playerParty, nextParty>>
inviteVars == <<uses, inviteFor, nextInvite>>
proposalVars == <<playerProposal, playerMatch, owners, saved, phase, launched, nextProposal>>
history == <<loose, stray>>
vars == <<partyVars, inviteVars, queue, proposalVars, history>>

NoParty == 0
NoProposal == 0

PartyState == {"Idle", "Queued", "AwaitingAccept", "Matched", "NotReady"}
\* Open: in `proposals` and never cancelled; Cancelled: still in `proposals`;
\* Finished: removed by finish_match.
Phase == {"Unborn", "Open", "Cancelled", "Finished"}
Roster(p) == {pl \in Player : owners[p][pl] # NoParty}

PartyTypeOK ==
  /\ parties \in SUBSET PartyId
  /\ leader \in [PartyId -> Player \cup {NoPlayer}]
  /\ members \in [PartyId -> SUBSET Player]
  /\ revision \in [PartyId -> Nat]
  /\ state \in [PartyId -> PartyState]
  /\ playerParty \in [Player -> PartyId \cup {NoParty}]
  /\ nextParty \in Nat \ {0}
  /\ \A q \in parties : q < nextParty
  /\ uses \in [Invite -> 0 .. MaxUses]
  /\ inviteFor \in [Invite -> PartyId \cup {NoParty}]
  /\ nextInvite \in Nat
  /\ queue \in SUBSET PartyId
  /\ playerProposal \in [Player -> Proposal \cup {NoProposal}]
  /\ playerMatch \in [Player -> Proposal \cup {NoProposal}]
  /\ owners \in [Proposal -> [Player -> PartyId \cup {NoParty}]]
  /\ saved \in [Proposal -> SUBSET PartyId]
  /\ phase \in [Proposal -> Phase]
  /\ launched \in SUBSET Proposal
  /\ nextProposal \in Nat
  /\ loose \in SUBSET PartyId
  /\ stray \in SUBSET Player

Init ==
  /\ parties = {}
  /\ leader = [q \in PartyId |-> NoPlayer]
  /\ members = [q \in PartyId |-> {}]
  /\ revision = [q \in PartyId |-> 0]
  /\ state = [q \in PartyId |-> "Idle"]
  /\ playerParty = [pl \in Player |-> NoParty]
  /\ nextParty = 1
  /\ uses = [i \in Invite |-> 0]
  /\ inviteFor = [i \in Invite |-> NoParty]
  /\ nextInvite = 1
  /\ queue = {}
  /\ playerProposal = [pl \in Player |-> NoProposal]
  /\ playerMatch = [pl \in Player |-> NoProposal]
  /\ owners = [p \in Proposal |-> [pl \in Player |-> NoParty]]
  /\ saved = [p \in Proposal |-> {}]
  /\ phase = [p \in Proposal |-> "Unborn"]
  /\ launched = {}
  /\ nextProposal = 1
  /\ loose = {}
  /\ stray = {}

-----------------------------------------------------------------------------
Bump(S) == revision' = [q \in PartyId |-> IF q \in S THEN revision[q] + 1 ELSE revision[q]]
Become(S, value) == state' = [q \in PartyId |-> IF q \in S THEN value ELSE state[q]]
Link(pl, q) == playerParty' = [playerParty EXCEPT ![pl] = q]
Unlink(pl) == Link(pl, NoParty)

\* A client command on q that was sent with the revision q has now.
Current(q) == q \in parties /\ revision[q] < MaxRevision[q]

\* Mutant: a party in the queue or in a match is editable too.
EditableFrozen(q, actor) == Current(q) /\ actor = leader[q]

\* Party::editable: the leader, at the current revision, of an idle party.
Editable(q, actor) == Current(q) /\ actor = leader[q] /\ state[q] = "Idle"

\* Party::new: idle, at revision 0, its creator alone in it.
NewParty(q, pl) ==
  /\ leader' = [leader EXCEPT ![q] = pl]
  /\ members' = [members EXCEPT ![q] = {pl}]

CreateParty(pl) ==
  /\ nextParty \in PartyId
  /\ playerParty[pl] = NoParty
  /\ parties' = parties \cup {nextParty}
  /\ NewParty(nextParty, pl)
  /\ Link(pl, nextParty)
  /\ nextParty' = nextParty + 1
  /\ UNCHANGED <<revision, state, inviteVars, queue, proposalVars, history>>

\* InviteStore::create: at least one use.
NewInvite(i, q) ==
  /\ \E n \in 1 .. MaxUses : uses' = [uses EXCEPT ![i] = n]
  /\ inviteFor' = [inviteFor EXCEPT ![i] = q]

CreateInvite(pl, q) ==
  /\ nextInvite \in Invite
  /\ Editable(q, pl)
  /\ NewInvite(nextInvite, q)
  /\ nextInvite' = nextInvite + 1
  /\ UNCHANGED <<partyVars, queue, proposalVars, history>>

\* Mutant: Party::join forgets the revision.
JoinEffectSilent(pl, q) ==
  /\ members' = [members EXCEPT ![q] = @ \cup {pl}]
  /\ Link(pl, q)
  /\ UNCHANGED revision

\* Party::join and the index; a player the party already lists (he was
\* unlinked from it) changes neither members nor revision.
JoinEffect(pl, q) ==
  /\ members' = [members EXCEPT ![q] = @ \cup {pl}]
  /\ Bump(IF pl \in members[q] THEN {} ELSE {q})
  /\ Link(pl, q)

\* Mutant: a spent invite is honoured.
UsesLeftUnchecked(i) == TRUE
UsesLeft(i) == uses[i] > 0

\* A use of the invite is spent first; a party that is gone or frozen then
\* refuses, and the use stays spent.  The size of the party is not looked at.
JoinParty(pl, i) ==
  LET q == inviteFor[i] IN
  /\ playerParty[pl] = NoParty
  /\ UsesLeft(i)
  /\ uses' = [uses EXCEPT ![i] = @ - 1]
  /\ \/ /\ q \in parties /\ state[q] = "Idle"
        /\ JoinEffect(pl, q)
     \/ /\ q \notin parties \/ state[q] # "Idle"
        /\ UNCHANGED <<members, revision, playerParty>>
  /\ UNCHANGED <<parties, leader, state, nextParty, inviteFor, nextInvite, queue,
                 proposalVars, history>>

\* Mutant: the party keeps a leader who left.
LeaveSuccessorNone(pl, q) == UNCHANGED leader

\* The first member left, in the order of their ids, leads the party.
LeaveSuccessor(pl, q) ==
  IF pl = leader[q] /\ members[q] # {pl}
    THEN \E next \in members[q] \ {pl} : leader' = [leader EXCEPT ![q] = next]
    ELSE UNCHANGED leader

\* Party::leave of an idle party.
MayLeave(q) == Current(q) /\ state[q] = "Idle"

\* leave_party of any idle party, the caller's or not: he leaves its list and
\* loses his own index entry; an empty party is removed.
LeaveParty(pl, q) ==
  /\ MayLeave(q)
  /\ members' = [members EXCEPT ![q] = @ \ {pl}]
  /\ Bump({q})
  /\ LeaveSuccessor(pl, q)
  /\ parties' = IF members[q] \subseteq {pl} THEN parties \ {q} ELSE parties
  /\ Unlink(pl)
  /\ UNCHANGED <<state, nextParty, inviteVars, queue, proposalVars, history>>

\* Mutant: the kicked player keeps his index entry.
KickUnlinkNot(target) == UNCHANGED playerParty
KickUnlink(target) == Unlink(target)

\* Party::kick: a new revision, also when the target is not in the party.
KickEffect(q, target) ==
  /\ target # leader[q]
  /\ members' = [members EXCEPT ![q] = @ \ {target}]
  /\ Bump({q})

\* kick_member: the target's index entry goes, whatever party it points to.
KickMember(pl, q, target) ==
  /\ Editable(q, pl)
  /\ KickEffect(q, target)
  /\ KickUnlink(target)
  /\ UNCHANGED <<parties, leader, state, nextParty, inviteVars, queue, proposalVars,
                 history>>

RenameParty(pl, q) ==
  /\ Editable(q, pl)
  /\ Bump({q})
  /\ UNCHANGED <<parties, leader, members, state, playerParty, nextParty, inviteVars,
                 queue, proposalVars, history>>

\* Mutant: validate_enqueue forgets the size.
ValidateEnqueueAnySize(q) == state[q] \in {"Idle", "NotReady"}

ValidateEnqueue(q) == state[q] \in {"Idle", "NotReady"} /\ Cardinality(members[q]) \in Sizes

\* The parties whose ticket a proposal other than those in O holds.
SavedBut(O) == UNION {saved[p] : p \in Proposal \ O}

\* That the party is in a proposal or a match is not asked.  A party nobody
\* holds is sound again once it has passed validate_enqueue.
Enqueue(pl, q) ==
  /\ Current(q) /\ pl = leader[q]
  /\ ValidateEnqueue(q)
  /\ Become({q}, "Queued")
  /\ Bump({q})
  /\ queue' = queue \cup {q}
  /\ loose' = loose \ ({q} \ SavedBut({}))
  /\ UNCHANGED <<parties, leader, members, playerParty, nextParty, inviteVars, proposalVars,
                 stray>>

\* cancel_queue looks at leader and revision only, not at the party's state.
CancelQueue(pl, q) ==
  /\ Current(q) /\ pl = leader[q]
  /\ Become({q}, "Idle")
  /\ Bump({q})
  /\ queue' = queue \ {q}
  /\ loose' = loose \cup ({q} \cap SavedBut({}))
  /\ UNCHANGED <<parties, leader, members, playerParty, nextParty, inviteVars, proposalVars,
                 stray>>

-----------------------------------------------------------------------------
\* What the authority does to parties and players.

\* Mutant: the revalidation forgets the players.
CommitValidAnyPlayer(S) ==
  S \subseteq queue \cap parties /\ \A q \in S : state[q] = "Queued"

\* The revalidation of a candidate in attempt_match_batch.
CommitValid(S) ==
  /\ S \subseteq queue \cap parties
  /\ \A q \in S :
       /\ state[q] = "Queued"
       /\ \A pl \in members[q] :
            playerProposal[pl] = NoProposal /\ playerMatch[pl] = NoProposal

\* The players an open proposal records.
Recorded == UNION {Roster(p) : p \in {o \in Proposal : phase[o] = "Open"}}

\* commit_candidate: a player listed by two of the parties is recorded for one.
CommitCandidate(S) ==
  /\ nextProposal \in Proposal
  /\ S # {} /\ CommitValid(S)
  /\ Cardinality(UNION {{q} \X members[q] : q \in S}) = Seats
  /\ \E owner \in [UNION {members[q] : q \in S} -> S] :
       /\ \A pl \in DOMAIN owner : pl \in members[owner[pl]]
       /\ owners' = [owners EXCEPT ![nextProposal] =
                       [pl \in Player |-> IF pl \in DOMAIN owner THEN owner[pl] ELSE NoParty]]
       /\ playerProposal' = [pl \in Player |-> IF pl \in DOMAIN owner THEN nextProposal
                                               ELSE playerProposal[pl]]
       /\ stray' = stray \ (DOMAIN owner \ Recorded)
  /\ saved' = [saved EXCEPT ![nextProposal] = S]
  /\ phase' = [phase EXCEPT ![nextProposal] = "Open"]
  /\ nextProposal' = nextProposal + 1
  /\ queue' = queue \ S
  /\ Become(S, "AwaitingAccept")
  /\ Bump(S)
  /\ UNCHANGED <<parties, leader, members, playerParty, nextParty, inviteVars, playerMatch,
                 launched, loose>>

\* Failed parties are found by the members they have now, not by `owners`.
FailedOf(p, F) == {q \in saved[p] \cap parties : members[q] \cap F # {}}

\* player_proposal.remove for everybody in the proposal, whatever it says.
LetGo(p) ==
  playerProposal' = [pl \in Player |-> IF pl \in Roster(p) THEN NoProposal
                                       ELSE playerProposal[pl]]

\* cancel_proposal for the failed players F (rejected, timed out), or for nobody
\* when the infrastructure failed.  The proposal stays in `proposals`, and it
\* may be one whose match is published, or one cancelled before.
CancelProposal(p, F) ==
  LET back == saved[p] \cap parties
      failed == FailedOf(p, F)
      hit == {pl \in Roster(p) : playerProposal[pl] \notin {p, NoProposal}
                                  \/ playerMatch[pl] = p}
  IN /\ state' = [q \in PartyId |-> IF q \in failed THEN "NotReady"
                                   ELSE IF q \in back THEN "Queued" ELSE state[q]]
     /\ Bump(back)
     /\ queue' = queue \cup (back \ failed)
     /\ LetGo(p)
     /\ saved' = [saved EXCEPT ![p] = {}]
     /\ phase' = [phase EXCEPT ![p] = "Cancelled"]
     /\ stray' = stray \cup hit
     /\ UNCHANGED <<parties, leader, members, playerParty, nextParty, inviteVars, playerMatch,
                    owners, nextProposal, loose>>

\* Somebody rejects, or the deadline passes without all answers.
ReadyCheckFails(p, F) ==
  /\ phase[p] = "Open" /\ p \notin launched
  /\ F \subseteq Roster(p) /\ F # {}
  /\ CancelProposal(p, F)
  /\ UNCHANGED launched

\* The grace period of a player who is in a party ends.  His proposal is
\* cancelled, also under a launch, which goes on; if he is in none, the party
\* leaves the queue.
GraceExpires(pl) ==
  LET q == playerParty[pl]
      p == playerProposal[pl]
  IN /\ q # NoParty
     /\ \/ /\ p \in Proposal /\ phase[p] \in {"Open", "Cancelled"}
           /\ CancelProposal(p, {pl})
           /\ UNCHANGED launched
        \/ /\ p = NoProposal /\ q \in queue
           /\ queue' = queue \ {q}
           /\ Become({q} \cap parties, "Idle")
           /\ Bump({q} \cap parties)
           /\ UNCHANGED <<parties, leader, members, playerParty, nextParty, inviteVars,
                          proposalVars, history>>

\* All have accepted and a server takes the launch, at once or from tick.
Launch(p) ==
  /\ phase[p] = "Open" /\ p \notin launched
  /\ launched' = launched \cup {p}
  /\ UNCHANGED <<partyVars, inviteVars, queue, playerProposal, playerMatch, owners, saved,
                 phase, nextProposal, history>>

\* tick gives up: no server in time, or a launch that cannot be retried.  That
\* may be the launch of a cancelled proposal or of a published match.
Abandon(p) ==
  /\ phase[p] = "Open" \/ p \in launched
  /\ CancelProposal(p, {})
  /\ launched' = launched \ {p}

\* The game server is ready; the proposal may have been cancelled meanwhile.
\* The revision does not move, and nothing happens if all are in the match.
PublishMatch(p) ==
  /\ p \in launched
  /\ \E pl \in Roster(p) : playerMatch[pl] # p
  /\ playerMatch' = [pl \in Player |-> IF pl \in Roster(p) THEN p ELSE playerMatch[pl]]
  /\ LetGo(p)
  /\ Become(saved[p] \cap parties, "Matched")
  /\ stray' = IF phase[p] = "Open" THEN stray ELSE stray \cup Roster(p)
  /\ UNCHANGED <<parties, leader, members, revision, playerParty, nextParty, inviteVars,
                 queue, owners, saved, phase, launched, nextProposal, loose>>

\* finish_match: the instance is Running, by a publication or by a report alone.
\* It sets the recorded parties Idle, whatever they do meanwhile, and takes the
\* recorded players out of player_match; player_proposal stays as it is.
FinishMatch(p) ==
  LET recorded == {owners[p][pl] : pl \in Player} \cap parties
      hit == {pl \in Roster(p) : playerMatch[pl] \notin {p, NoProposal}
                                  \/ playerProposal[pl] = p}
  IN /\ p \in launched
     /\ Become(recorded, "Idle")
     /\ Bump(recorded)
     /\ playerMatch' = [pl \in Player |-> IF pl \in Roster(p) THEN NoProposal
                                          ELSE playerMatch[pl]]
     /\ owners' = [owners EXCEPT ![p] = [pl \in Player |-> NoParty]]
     /\ saved' = [saved EXCEPT ![p] = {}]
     /\ phase' = [phase EXCEPT ![p] = "Finished"]
     /\ launched' = launched \ {p}
     /\ loose' = loose \cup (recorded \cap (queue \cup SavedBut({p})))
     /\ stray' = stray \cup hit
     /\ UNCHANGED <<parties, leader, members, playerParty, nextParty, inviteVars, queue,
                    playerProposal, nextProposal>>

Next ==
  \/ \E pl \in Player :
       \/ CreateParty(pl) \/ GraceExpires(pl)
       \/ \E i \in Invite : JoinParty(pl, i)
       \/ \E q \in PartyId :
            \/ CreateInvite(pl, q) \/ LeaveParty(pl, q) \/ RenameParty(pl, q)
            \/ Enqueue(pl, q) \/ CancelQueue(pl, q)
            \/ \E target \in Player : KickMember(pl, q, target)
  \/ \E S \in SUBSET PartyId : CommitCandidate(S)
  \/ \E p \in Proposal :
       \/ Launch(p) \/ Abandon(p) \/ PublishMatch(p) \/ FinishMatch(p)
       \/ \E F \in SUBSET Player : ReadyCheckFails(p, F)

Spec == Init /\ [][Next]_vars

-----------------------------------------------------------------------------
\* Whoever leaves, is kicked or unlinked, and in whatever order: a party that
\* is still there has members and one of them leads it, so that somebody can
\* invite, enqueue and cancel (party.rs 72-110, leave_party, kick_member).
LeaderLeads == \A q \in parties : leader[q] \in members[q]

\* The index never points to a party that is gone or does not list the player,
\* although leave_party and kick_member take any party and any target and
\* remove the index entry without looking where it points (2071, 2105).
IndexIsMembership ==
  \A pl \in Player : playerParty[pl] # NoParty =>
    playerParty[pl] \in parties /\ pl \in members[playerParty[pl]]

\* What waits in the queue is an existing party in state Queued of a size the
\* mode takes, also when its ticket came back from a cancelled proposal, or a
\* cancelled match, without a new check (enqueue 2140-2232, cancel_proposal
\* 700-720).  The only exceptions are the loose parties: set Idle by
\* cancel_queue or by the end of another match while a proposal or the queue
\* held them, and not enqueued afresh since.
QueuedWellFormed ==
  \A q \in queue \ loose :
    q \in parties /\ state[q] = "Queued" /\ Cardinality(members[q]) \in Sizes

\* A ready check or a match is about the parties as they are: a party it holds,
\* and nobody has cut loose, still lists every player recorded for it, and
\* has no member who is not recorded (join, leave and kick against
\* commit_candidate 1066-1135 and a match of any length).
RosterFrozen ==
  \A p \in Proposal : phase[p] = "Open" =>
    \A q \in saved[p] \ loose :
      /\ q \in parties /\ members[q] \subseteq Roster(p)
      /\ \A pl \in Player : owners[p][pl] = q => pl \in members[q]

\* player_proposal and player_match agree with the proposals: a player is in at
\* most one of them and only for the open proposal that records him, and whom
\* an open proposal records is in one of them, so that no pass takes him twice
\* (commit_candidate, cancel_proposal 615, launch_result 1397-1400,
\* finish_match 1693).  The exceptions are the strays: players of a launch that
\* outlived its proposal, of a published match that was cancelled, or of a
\* match that finished unpublished, until they are matched afresh.
PlayersHeldOnce ==
  \A pl \in Player \ stray :
    /\ playerProposal[pl] = NoProposal \/ playerMatch[pl] = NoProposal
    /\ {playerProposal[pl], playerMatch[pl]} \ {NoProposal}
         = {p \in Proposal : phase[p] = "Open" /\ pl \in Roster(p)}

\* A client that sends the revision it saw acts on the members and the leader
\* it saw: they never change without a new revision, and no revision returns
\* (enqueue, kick and cancel rely on it; join and leave come without a check).
RevisionTellsRoster ==
  [][\A q \in parties \cap parties' :
       <<leader[q], members[q]>> # <<leader'[q], members'[q]>> => revision'[q] > revision[q]]_vars
=============================================================================
