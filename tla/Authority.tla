------------------------------ MODULE Authority ------------------------------
(***************************************************************************)
(* The matchmaking authority: AuthorityState of core/src/grpc/mod.rs with  *)
(* the proposals of core/src/proposal.rs and the claims of                 *)
(* core/src/matching/claim.rs, composed with the game-server registry      *)
(* (module Registry).  One actor owns the whole state and applies one      *)
(* command at a time, so a command is one atomic action; a tick is a       *)
(* sequence of loops, and one iteration of a loop is one action.           *)
(*                                                                         *)
(* Abstractions.  Party membership is fixed (module PartyRoster models     *)
(* edits).  Which sets of parties may form a match is the constant         *)
(* Candidate (the builders of core/src/matching are pure and read only the *)
(* queue).  A deadline is a member of a set while it is armed; when it     *)
(* elapses is nondeterministic.  Requests the code rejects change nothing  *)
(* and are not steps.  try_send on a control stream may fail at any time   *)
(* (full after 32 messages, or its receiver gone).                         *)
(***************************************************************************)
EXTENDS Registry, Sequences

CONSTANTS
  Party,        \* parties
  Player,       \* players; all of them have opened a session
  MemberOf,     \* MemberOf[q]: the members of party q
  Candidate,    \* sets of parties the candidate builders can propose together
  FirstRegion,  \* servers of the first region all parties allow
  Ticket,       \* ticket identities 1 .. n (bound on enqueues)
  Proposal,     \* proposal identities 1 .. n (bound on proposals)
  CompletedCap, \* size of the cache of completed match results (4096)
  Dropping,     \* players whose connection may drop (bound)
  Cancelling,   \* parties whose leader may cancel the queue (bound)
  NoServer      \* not a server

ASSUME MemberAssumption ==
  /\ MemberOf \in [Party -> SUBSET Player]
  /\ \A q, r \in Party : q # r => MemberOf[q] \cap MemberOf[r] = {}
ASSUME CandidateAssumption == Candidate \subseteq SUBSET Party
ASSUME FirstRegionAssumption == FirstRegion \subseteq Server
ASSUME IdAssumption ==
  /\ Ticket \subseteq Nat \ {0}
  /\ Proposal \subseteq Nat \ {0}
  /\ 0 \notin Match
ASSUME CompletedCapAssumption == CompletedCap \in Nat \ {0}
ASSUME BehaviourAssumption == Dropping \subseteq Player /\ Cancelling \subseteq Party
ASSUME NoServerAssumption == NoServer \notin Server

VARIABLES
  partyState,      \* parties[q].state
  tickets,         \* tickets[q]: the id of q's queued ticket, NoTicket if none
  nextTicket,
  claims,          \* ticket ids claimed by a proposal
  proposalState,   \* proposals[p].state, "Absent" if p is not in the map
  responses,       \* proposals[p].responses, "None" outside the roster
  rosterTickets,   \* proposals[p].tickets
  proposalTickets, \* proposal_tickets[p]: the tickets to give back on cancel
  playerProposal,  \* player_proposal
  waiting,         \* placement_waiting
  nextProposal,
  launchServer,    \* launches[m].0, NoServer if m is not in the map
  launchProposal,  \* launches[m].1, NoProposal if m is not in the map
  launchDeadline,  \* matches with an entry in launch_deadlines
  playerMatch,     \* player_match
  nextMatch,
  completed,       \* completed_match_result_order, oldest first
  settled,         \* history: how often the result of m was committed
  offline,         \* offline
  grace,           \* players with an entry in disconnect_deadlines
  controls,        \* servers with a sender in controls
  agenda           \* matches the running handler still has to deal with

queueVars == <<partyState, tickets, nextTicket>>
proposalVars == <<claims, proposalState, responses, rosterTickets, proposalTickets,
                  playerProposal, waiting, nextProposal>>
launchVars == <<launchServer, launchProposal, launchDeadline, nextMatch>>
resultVars == <<completed, settled>>
sessionVars == <<offline, grace>>
vars == <<registryVars, queueVars, proposalVars, launchVars, playerMatch, resultVars,
          sessionVars, controls, agenda>>

NoTicket == 0
NoProposal == 0
NoMatch == 0
NoTickets == [q \in Party |-> NoTicket]

PartyState == {"Idle", "Queued", "AwaitingAccept", "Matched", "NotReady"}
Response == {"Pending", "Accepted", "Rejected", "TimedOut"}
Failure == {"Rejected", "TimedOut"}
ProposalState == {"AwaitingAccept", "AwaitingPlacement", "Cancelled"}

\* What a handler's loop over matches does with each of them: retry the launch
\* of a lost server's match, or publish a match a reconciling server reported.
AgendaItem == [todo : {"lost", "ready"}, server : Server, match : Match]

AuthorityTypeOK ==
  /\ RegistryTypeOK
  /\ partyState \in [Party -> PartyState]
  /\ tickets \in [Party -> Ticket \cup {NoTicket}]
  /\ claims \in SUBSET Ticket
  /\ proposalState \in [Proposal -> ProposalState \cup {"Absent"}]
  /\ responses \in [Proposal -> [Player -> Response \cup {"None"}]]
  /\ rosterTickets \in [Proposal -> SUBSET Ticket]
  /\ proposalTickets \in [Proposal -> [Party -> Ticket \cup {NoTicket}]]
  /\ playerProposal \in [Player -> Proposal \cup {NoProposal}]
  /\ waiting \in SUBSET Proposal
  /\ launchServer \in [Match -> Server \cup {NoServer}]
  /\ launchProposal \in [Match -> Proposal \cup {NoProposal}]
  /\ launchDeadline \in SUBSET Match
  /\ playerMatch \in [Player -> Match \cup {NoMatch}]
  /\ completed \in Seq(Match) /\ Len(completed) <= CompletedCap
  /\ settled \in [Match -> Nat]
  /\ offline \in SUBSET Player
  /\ grace \in SUBSET Player
  /\ controls \in SUBSET Server
  /\ agenda \in SUBSET AgendaItem
  /\ nextTicket \in Nat /\ nextProposal \in Nat /\ nextMatch \in Nat

-----------------------------------------------------------------------------
Roster(p) == {pl \in Player : responses[p][pl] # "None"}
Parties(p) == {q \in Party : MemberOf[q] \cap Roster(p) # {}}
Saved(p) == {q \in Party : proposalTickets[p][q] # NoTicket}
Published(p, m) == \A pl \in Roster(p) : playerMatch[pl] = m
InLaunches(m) == launchProposal[m] # NoProposal

Init ==
  /\ RegistryInit
  /\ partyState = [q \in Party |-> "Idle"]
  /\ tickets = NoTickets
  /\ nextTicket = 1
  /\ claims = {}
  /\ proposalState = [p \in Proposal |-> "Absent"]
  /\ responses = [p \in Proposal |-> [pl \in Player |-> "None"]]
  /\ rosterTickets = [p \in Proposal |-> {}]
  /\ proposalTickets = [p \in Proposal |-> NoTickets]
  /\ playerProposal = [pl \in Player |-> NoProposal]
  /\ waiting = {}
  /\ nextProposal = 1
  /\ launchServer = [m \in Match |-> NoServer]
  /\ launchProposal = [m \in Match |-> NoProposal]
  /\ launchDeadline = {}
  /\ playerMatch = [pl \in Player |-> NoMatch]
  /\ nextMatch = 1
  /\ completed = <<>>
  /\ settled = [m \in Match |-> 0]
  /\ offline = {}
  /\ grace = {}
  /\ controls = {}
  /\ agenda = {}

-----------------------------------------------------------------------------
\* Mutant: the players' match tickets stay in the queue.
LeaveQueueNot(S) == UNCHANGED tickets

\* The tickets of the parties S leave the queue.
LeaveQueue(S) == tickets' = [q \in Party |-> IF q \in S THEN NoTicket ELSE tickets[q]]

\* Mutant: the saved tickets are read and not removed.
TakeSavedNot(p) == UNCHANGED proposalTickets

TakeSaved(p) == proposalTickets' = [proposalTickets EXCEPT ![p] = NoTickets]

\* Mutant: the claims are never released.
ReleaseClaimsNot(p) == UNCHANGED claims

ReleaseClaims(p) == claims' = claims \ rosterTickets[p]

\* Mutant: any failed player of the proposal counts against every party.
FailedPartiesAll(p, r) == {q \in Saved(p) : \E pl \in Player : r[pl] \in Failure}

FailedParties(p, r) == {q \in Saved(p) : \E pl \in MemberOf[q] : r[pl] \in Failure}

\* Cancelling proposal p, whose responses are r at that point: give the saved
\* tickets back, except that a party with a failed member is NotReady unless
\* the failure is ours.  The proposal itself stays in the map.
CancelProposal(p, infrastructure, r) ==
  LET notReady == IF infrastructure THEN {} ELSE FailedParties(p, r)
      requeued == Saved(p) \ notReady
  IN /\ TakeSaved(p)
     /\ ReleaseClaims(p)
     /\ waiting' = waiting \ {p}
     /\ playerProposal' =
          [pl \in Player |-> IF r[pl] # "None" THEN NoProposal ELSE playerProposal[pl]]
     /\ partyState' =
          [q \in Party |-> IF q \in notReady THEN "NotReady"
                           ELSE IF q \in requeued THEN "Queued" ELSE partyState[q]]
     /\ tickets' =
          [q \in Party |-> IF q \in requeued THEN proposalTickets[p][q] ELSE tickets[q]]
     /\ UNCHANGED <<nextTicket, nextProposal, rosterTickets>>

\* The proposal fails with the responses r: reject, expiry, or a lost player.
Fail(p, r) ==
  /\ responses' = [responses EXCEPT ![p] = r]
  /\ proposalState' = [proposalState EXCEPT ![p] = "Cancelled"]
  /\ CancelProposal(p, FALSE, r)

\* Infrastructure failure: the responses and the proposal's state stay.  A
\* proposal that is no longer in the map is left alone.
CancelForInfrastructure(p) ==
  IF proposalState[p] = "Absent"
    THEN UNCHANGED <<queueVars, proposalVars>>
    ELSE /\ CancelProposal(p, TRUE, responses[p])
         /\ UNCHANGED <<responses, proposalState>>

\* launch succeeds: capacity reserved on a connected server, command sent.
LaunchOn(p, s) ==
  /\ nextMatch \in Match
  /\ s \in controls
  /\ Saved(p) # {}
  /\ Reserve(s, nextMatch)
  /\ launchServer' = [launchServer EXCEPT ![nextMatch] = s]
  /\ launchProposal' = [launchProposal EXCEPT ![nextMatch] = p]
  /\ launchDeadline' = launchDeadline \cup {nextMatch}
  /\ nextMatch' = nextMatch + 1

\* launch fails with "unavailable" when no connected server fits.
ServerFits ==
  \E s \in controls : Feasible(s, nextMatch, used[s], Held(inst[s]))

\* Mutants: the region of a proposal without tickets is made up; the launch
\* keeps naming the failed server; the capacity is released on the wrong one.
RetryOnWithoutTickets(m, s) ==
  /\ s \in FirstRegion \cap controls
  /\ Retry(launchServer[m], s, m)
  /\ launchServer' = [launchServer EXCEPT ![m] = s]
  /\ launchDeadline' = launchDeadline \cup {m}
  /\ UNCHANGED <<launchProposal, nextMatch>>
RetryOnKeepsOwner(m, s) ==
  /\ Saved(launchProposal[m]) # {}
  /\ s \in FirstRegion \cap controls
  /\ Retry(launchServer[m], s, m)
  /\ launchDeadline' = launchDeadline \cup {m}
  /\ UNCHANGED <<launchServer, launchProposal, nextMatch>>
RetryOnFreesTarget(m, s) ==
  /\ Saved(launchProposal[m]) # {}
  /\ s \in FirstRegion \cap controls
  /\ Retry(s, s, m)
  /\ launchServer' = [launchServer EXCEPT ![m] = s]
  /\ launchDeadline' = launchDeadline \cup {m}
  /\ UNCHANGED <<launchProposal, nextMatch>>

\* retry_launch of m moves it to server s; it needs the saved tickets for the
\* region and a control stream that takes the command.
RetryOn(m, s) ==
  /\ Saved(launchProposal[m]) # {}
  /\ s \in FirstRegion \cap controls
  /\ Retry(launchServer[m], s, m)
  /\ launchServer' = [launchServer EXCEPT ![m] = s]
  /\ launchDeadline' = launchDeadline \cup {m}
  /\ UNCHANGED <<launchProposal, nextMatch>>

\* retry_launch fails: a proposal without saved tickets fails before the
\* release, any other after it (no capacity, or the command was not taken).
RetryFails(m) ==
  IF Saved(launchProposal[m]) = {}
    THEN UNCHANGED registryVars
    ELSE Release(launchServer[m], m)

\* Mutant: the launch stays in the map.
ForgetLaunchNot(m) == UNCHANGED <<launchServer, launchProposal, nextMatch>>

ForgetLaunch(m) ==
  /\ launchServer' = [launchServer EXCEPT ![m] = NoServer]
  /\ launchProposal' = [launchProposal EXCEPT ![m] = NoProposal]
  /\ UNCHANGED nextMatch

-----------------------------------------------------------------------------
\* Commands of clients.

Enqueue(q) ==
  /\ agenda = {}
  /\ nextTicket \in Ticket
  /\ MemberOf[q] \cap offline = {}
  /\ partyState[q] \in {"Idle", "NotReady"}
  /\ partyState' = [partyState EXCEPT ![q] = "Queued"]
  /\ tickets' = [tickets EXCEPT ![q] = nextTicket]
  /\ nextTicket' = nextTicket + 1
  /\ UNCHANGED <<registryVars, proposalVars, launchVars, playerMatch, resultVars,
                 sessionVars, controls, agenda>>

\* The leader cancels the queue.  The handler does not look at the party's
\* state, so it also unfreezes a party that is in a proposal or in a match.
CancelQueue(q) ==
  /\ agenda = {}
  /\ q \in Cancelling
  /\ partyState' = [partyState EXCEPT ![q] = "Idle"]
  /\ LeaveQueue({q})
  /\ UNCHANGED <<registryVars, nextTicket, proposalVars, launchVars, playerMatch,
                 resultVars, sessionVars, controls, agenda>>

Respond(p, pl, value) == [responses[p] EXCEPT ![pl] = IF @ = "Pending" THEN value ELSE @]
CanRespond(p, pl) == playerProposal[pl] = p /\ proposalState[p] = "AwaitingAccept"

\* Mutant: nobody has refused.
AllAcceptedOrPending(r) == \A pl \in Player : r[pl] \in {"None", "Accepted", "Pending"}
AllAccepted(r) == \A pl \in Player : r[pl] \in {"None", "Accepted"}

Reject(pl) ==
  /\ agenda = {}
  /\ \E p \in Proposal :
       /\ CanRespond(p, pl)
       /\ responses[p][pl] = "Pending"
       /\ Fail(p, Respond(p, pl, "Rejected"))
  /\ UNCHANGED <<registryVars, launchVars, playerMatch, resultVars, sessionVars,
                 controls, agenda>>

\* An accept that leaves others pending.
Accept(pl) ==
  /\ agenda = {}
  /\ \E p \in Proposal :
       /\ CanRespond(p, pl)
       /\ ~AllAccepted(Respond(p, pl, "Accepted"))
       /\ responses' = [responses EXCEPT ![p] = Respond(p, pl, "Accepted")]
  /\ UNCHANGED <<registryVars, queueVars, claims, proposalState, rosterTickets,
                 proposalTickets, playerProposal, waiting, nextProposal, launchVars,
                 playerMatch, resultVars, sessionVars, controls, agenda>>

\* The last accept decides the proposal and launches it in the same command:
\* it is launched, or waits for capacity, or - when the control stream of the
\* chosen server does not take the command - is left with neither.
LastAccept(pl) ==
  /\ agenda = {}
  /\ \E p \in Proposal :
       /\ CanRespond(p, pl)
       /\ AllAccepted(Respond(p, pl, "Accepted"))
       /\ responses' = [responses EXCEPT ![p] = Respond(p, pl, "Accepted")]
       /\ proposalState' = [proposalState EXCEPT ![p] = "AwaitingPlacement"]
       /\ nextMatch \in Match
       /\ \/ /\ \E s \in Server : LaunchOn(p, s)
             /\ UNCHANGED waiting
          \/ /\ waiting' = IF ServerFits THEN waiting ELSE waiting \cup {p}
             /\ UNCHANGED <<registryVars, launchVars>>
  /\ UNCHANGED <<queueVars, claims, rosterTickets, proposalTickets, playerProposal,
                 nextProposal, playerMatch, resultVars, sessionVars, controls, agenda>>

\* The event stream of the player's current session is dropped.
Disconnect(pl) ==
  /\ agenda = {}
  /\ pl \in Dropping
  /\ offline' = offline \cup {pl}
  /\ grace' = grace \cup {pl}
  /\ UNCHANGED <<registryVars, queueVars, proposalVars, launchVars, playerMatch,
                 resultVars, controls, agenda>>

\* open_session: `offline.remove() || disconnect_deadlines.remove()` stops at
\* the first removal that succeeds, so the deadline outlives the reconnect.
Reconnect(pl) ==
  /\ agenda = {}
  /\ offline' = offline \ {pl}
  /\ grace' = IF pl \in offline THEN grace ELSE grace \ {pl}
  /\ UNCHANGED <<registryVars, queueVars, proposalVars, launchVars, playerMatch,
                 resultVars, controls, agenda>>

-----------------------------------------------------------------------------
\* The matching pass after a batch of commands and after a tick.

Matchable(q) ==
  /\ tickets[q] # NoTicket
  /\ tickets[q] \notin claims
  /\ partyState[q] = "Queued"
  /\ \A pl \in MemberOf[q] :
       pl \notin offline /\ playerProposal[pl] = NoProposal /\ playerMatch[pl] = NoMatch

CommitCandidate(S) ==
  LET p == nextProposal
      players == UNION {MemberOf[q] : q \in S}
      ids == {tickets[q] : q \in S}
  IN /\ agenda = {}
     /\ p \in Proposal
     /\ \E s \in Server, m \in Match : Feasible(s, m, used[s], Slots(inst[s]))
     /\ \A q \in S : Matchable(q)
     /\ claims' = claims \cup ids
     /\ proposalState' = [proposalState EXCEPT ![p] = "AwaitingAccept"]
     /\ responses' = [responses EXCEPT ![p] =
          [pl \in Player |-> IF pl \in players THEN "Pending" ELSE "None"]]
     /\ rosterTickets' = [rosterTickets EXCEPT ![p] = ids]
     /\ proposalTickets' = [proposalTickets EXCEPT ![p] =
          [q \in Party |-> IF q \in S THEN tickets[q] ELSE NoTicket]]
     /\ playerProposal' =
          [pl \in Player |-> IF pl \in players THEN p ELSE playerProposal[pl]]
     /\ nextProposal' = nextProposal + 1
     /\ partyState' = [q \in Party |-> IF q \in S THEN "AwaitingAccept" ELSE partyState[q]]
     /\ LeaveQueue(S)
     /\ UNCHANGED <<registryVars, nextTicket, waiting, launchVars, playerMatch,
                    resultVars, sessionVars, controls, agenda>>

-----------------------------------------------------------------------------
\* The loops of the tick.

\* The grace period of a disconnected player ends: its proposal fails, or its
\* party leaves the queue.  Nobody looks whether the player is back.
GraceExpires(pl) ==
  LET p == playerProposal[pl]
      queued == {q \in Party : pl \in MemberOf[q] /\ tickets[q] # NoTicket}
  IN /\ agenda = {}
     /\ pl \in grace
     /\ grace' = grace \ {pl}
     /\ \/ /\ p # NoProposal /\ proposalState[p] # "Absent"
           /\ Fail(p, [responses[p] EXCEPT ![pl] = "TimedOut"])
        \/ /\ p # NoProposal /\ proposalState[p] = "Absent"
           /\ UNCHANGED <<queueVars, proposalVars>>
        \/ /\ p = NoProposal
           /\ LeaveQueue(queued)
           /\ partyState' = [q \in Party |-> IF q \in queued THEN "Idle" ELSE partyState[q]]
           /\ UNCHANGED <<nextTicket, proposalVars>>
     /\ UNCHANGED <<registryVars, launchVars, playerMatch, resultVars, offline,
                    controls, agenda>>

\* The ready check of p times out.
ExpireProposal(p) ==
  /\ agenda = {}
  /\ proposalState[p] = "AwaitingAccept"
  /\ Fail(p, [pl \in Player |-> IF responses[p][pl] = "Pending" THEN "TimedOut"
                                ELSE responses[p][pl]])
  /\ UNCHANGED <<registryVars, launchVars, playerMatch, resultVars, sessionVars,
                 controls, agenda>>

\* Mutant: a proposal without a server waits for ever.
PlacementTickWaits(p) ==
  /\ agenda = {}
  /\ p \in waiting
  /\ \E s \in Server : LaunchOn(p, s)
  /\ waiting' = waiting \ {p}
  /\ UNCHANGED <<queueVars, claims, proposalState, responses, rosterTickets, proposalTickets,
                 playerProposal, nextProposal, playerMatch, resultVars, sessionVars,
                 controls, agenda>>

\* p waits for capacity: it is launched, or cancelled after its deadline.
PlacementTick(p) ==
  /\ agenda = {}
  /\ p \in waiting
  /\ \/ /\ \E s \in Server : LaunchOn(p, s)
        /\ waiting' = waiting \ {p}
        /\ UNCHANGED <<queueVars, claims, proposalState, responses, rosterTickets,
                       proposalTickets, playerProposal, nextProposal>>
     \/ /\ CancelForInfrastructure(p)
        /\ UNCHANGED <<registryVars, launchVars>>
  /\ UNCHANGED <<playerMatch, resultVars, sessionVars, controls, agenda>>

\* update_health; the launches of lost servers that were not running are
\* retried one by one before the tick goes on.
HealthTick(h) ==
  /\ agenda = {}
  /\ UpdateHealth(h)
  /\ agenda' = {i \in AgendaItem :
                  /\ i.todo = "lost" /\ h[i.server] = "Lost" /\ InLaunches(i.match)
                  /\ inst[i.server][i.match] \in {"Reserved", "Accepted", "Ready"}}
  /\ UNCHANGED <<queueVars, proposalVars, launchVars, playerMatch, resultVars,
                 sessionVars, controls>>

LostRetry(item) ==
  LET m == item.match IN
  /\ item.todo = "lost"
  /\ agenda' = agenda \ {item}
  /\ \/ /\ \E s \in Server : RetryOn(m, s)
        /\ UNCHANGED <<queueVars, proposalVars>>
     \/ /\ RetryFails(m)
        /\ CancelForInfrastructure(launchProposal[m])
        /\ ForgetLaunch(m)
        /\ launchDeadline' = launchDeadline \ {m}
  /\ UNCHANGED <<playerMatch, resultVars, sessionVars, controls>>

\* No answer to the launch in time.  A launch that cannot be retried leaves its
\* entry in launch_deadlines behind.
LaunchTimeout(m) ==
  /\ agenda = {}
  /\ m \in launchDeadline /\ InLaunches(m)
  /\ \/ /\ \E s \in Server : RetryOn(m, s)
        /\ UNCHANGED <<queueVars, proposalVars>>
     \/ /\ RetryFails(m)
        /\ CancelForInfrastructure(launchProposal[m])
        /\ ForgetLaunch(m)
        /\ UNCHANGED launchDeadline
  /\ UNCHANGED <<playerMatch, resultVars, sessionVars, controls, agenda>>

-----------------------------------------------------------------------------
\* Messages of game servers (apply_server_control).  Every message of the
\* current generation installs its stream as the sender, a refused one too.

HeardFrom(s) ==
  /\ agenda = {}
  /\ generation[s] # 0
  /\ controls' = controls \cup {s}
  /\ UNCHANGED <<sessionVars, agenda>>

\* A refused message, a repeated answer, or the result of a completed match.
NoEffect(s) ==
  /\ HeardFrom(s)
  /\ UNCHANGED <<registryVars, queueVars, proposalVars, launchVars, playerMatch, resultVars>>

HeartbeatMsg(s) ==
  /\ HeardFrom(s)
  /\ Heartbeat(s)
  /\ UNCHANGED <<queueVars, proposalVars, launchVars, playerMatch, resultVars>>

\* launch_result looks the launch up and lets only its server speak.
Owns(s, m) == launchServer[m] = s /\ proposalState[launchProposal[m]] # "Absent"

LaunchAccepted(s, m) ==
  /\ HeardFrom(s)
  /\ InLaunches(m) /\ Owns(s, m)
  /\ inst[s][m] = "Reserved"
  /\ Advance(s, m, "Accepted")
  /\ UNCHANGED <<queueVars, proposalVars, launchVars, playerMatch, resultVars>>

\* "ready": the instance is Running and, unless its players already have this
\* match, they get it and their parties are Matched.
PublishMatch(s, m) ==
  LET p == launchProposal[m]
      again == Published(p, m)
      players == IF again THEN {} ELSE Roster(p)
      parties == IF again THEN {} ELSE Saved(p)
  IN /\ InLaunches(m) /\ Owns(s, m)
     /\ Publish(s, m)
     /\ launchDeadline' = launchDeadline \ {m}
     /\ playerMatch' = [pl \in Player |-> IF pl \in players THEN m ELSE playerMatch[pl]]
     /\ playerProposal' =
          [pl \in Player |-> IF pl \in players THEN NoProposal ELSE playerProposal[pl]]
     /\ partyState' = [q \in Party |-> IF q \in parties THEN "Matched" ELSE partyState[q]]
     /\ UNCHANGED <<tickets, nextTicket, claims, proposalState, responses, rosterTickets,
                    proposalTickets, waiting, nextProposal, launchServer, launchProposal,
                    nextMatch, resultVars>>

LaunchReady(s, m) == HeardFrom(s) /\ PublishMatch(s, m)

\* A launch that fails before it is ready is retried; when that is refused,
\* the launch stays in the map until its deadline.
LaunchFailed(s, m) ==
  /\ HeardFrom(s)
  /\ InLaunches(m) /\ Owns(s, m)
  /\ inst[s][m] \in {"Reserved", "Accepted"}
  /\ \/ \E t \in Server : RetryOn(m, t)
     \/ RetryFails(m) /\ UNCHANGED launchVars
  /\ UNCHANGED <<queueVars, proposalVars, playerMatch, resultVars>>

\* An Instance message: whatever ERPS knows of the launch is not consulted.
ServerReport(s, m) ==
  /\ HeardFrom(s)
  /\ Report(s, m)
  /\ UNCHANGED <<queueVars, proposalVars, launchVars, playerMatch, resultVars>>

\* Mutant: the cache is never trimmed.
RememberAll(m) == completed' = Append(completed, m)

\* The completed cache forgets its oldest entry when it is full.
Remember(m) ==
  LET all == Append(completed, m)
  IN completed' = IF Len(all) > CompletedCap THEN Tail(all) ELSE all

\* Mutant: an error after the ratings and the players leaves the launch, and
\* the result is not remembered.
FinishMatchFailsLate(s, m) ==
  LET p == launchProposal[m] IN
  /\ HeardFrom(s)
  /\ InLaunches(m) /\ Owns(s, m)
  /\ inst[s][m] = "Running"
  /\ settled' = [settled EXCEPT ![m] = @ + 1]
  /\ playerMatch' = [pl \in Player |-> IF pl \in Roster(p) THEN NoMatch ELSE playerMatch[pl]]
  /\ UNCHANGED <<registryVars, queueVars, proposalVars, launchVars, completed>>

\* The result of m: ratings and credit are settled (counted, not computed), the
\* players leave the match, their parties are Idle and everything about the
\* proposal goes.  player_proposal and the claims are not touched.
FinishMatch(s, m) ==
  LET p == launchProposal[m] IN
  /\ HeardFrom(s)
  /\ \A i \in DOMAIN completed : completed[i] # m
  /\ InLaunches(m) /\ Owns(s, m)
  /\ inst[s][m] = "Running"
  /\ settled' = [settled EXCEPT ![m] = @ + 1]
  /\ Remember(m)
  /\ playerMatch' = [pl \in Player |-> IF pl \in Roster(p) THEN NoMatch ELSE playerMatch[pl]]
  /\ partyState' = [q \in Party |-> IF q \in Parties(p) THEN "Idle" ELSE partyState[q]]
  /\ Release(s, m)
  /\ ForgetLaunch(m)
  /\ launchDeadline' = launchDeadline \ {m}
  /\ proposalState' = [proposalState EXCEPT ![p] = "Absent"]
  /\ responses' = [responses EXCEPT ![p] = [pl \in Player |-> "None"]]
  /\ rosterTickets' = [rosterTickets EXCEPT ![p] = {}]
  /\ TakeSaved(p)
  /\ UNCHANGED <<tickets, nextTicket, claims, playerProposal, waiting, nextProposal>>

-----------------------------------------------------------------------------
\* The unary calls of game servers.

\* A registration drops the sender until the new stream speaks.
RegisterServer(s) ==
  /\ agenda = {}
  /\ \/ RegisterSame(s)
     \/ \E g \in 1 .. MaxGeneration, c \in Capacities :
          \/ RegisterFirst(s, g, c, NoInstances)
          \/ \E r \in InstanceMap : RegisterNewer(s, g, c, r)
  /\ controls' = controls \ {s}
  /\ UNCHANGED <<queueVars, proposalVars, launchVars, playerMatch, resultVars,
                 sessionVars, agenda>>

\* A reconcile that succeeds publishes the live matches it brought back; one
\* that fails half way publishes none.
ReconcileServer(s) ==
  /\ agenda = {}
  /\ \E r \in InstanceMap :
       \/ /\ Reconcile(s, r)
          /\ agenda' = {[todo |-> "ready", server |-> s, match |-> m] :
                           m \in {n \in Match : r[n] \in {"Ready", "Running"}}}
       \/ \E bad \in SUBSET Match : ReconcilePartial(s, r, bad) /\ UNCHANGED agenda
  /\ UNCHANGED <<queueVars, proposalVars, launchVars, playerMatch, resultVars,
                 sessionVars, controls>>

\* A recovered match some player is already in, or that is no launch, is
\* skipped; the first one that cannot be published ends the loop.
ReadyFromReconcile(item) ==
  LET s == item.server
      m == item.match
      skip == ~InLaunches(m) \/ \E pl \in Player : playerMatch[pl] = m
  IN /\ item.todo = "ready"
     /\ \/ /\ skip
           /\ agenda' = agenda \ {item}
           /\ UNCHANGED <<registryVars, queueVars, proposalVars, launchVars, playerMatch,
                          resultVars>>
        \/ /\ ~skip
           /\ PublishMatch(s, m)
           /\ agenda' = agenda \ {item}
        \/ /\ ~skip /\ ~Owns(s, m)
           /\ agenda' = {}
           /\ UNCHANGED <<registryVars, queueVars, proposalVars, launchVars, playerMatch,
                          resultVars>>
     /\ UNCHANGED <<sessionVars, controls>>

\* What the actor takes from its channel: the calls of players and servers and
\* the drops of their streams.
Command ==
  \/ \E q \in Party : Enqueue(q) \/ CancelQueue(q)
  \/ \E pl \in Player :
       Accept(pl) \/ LastAccept(pl) \/ Reject(pl) \/ Disconnect(pl) \/ Reconnect(pl)
  \/ \E s \in Server :
       \/ NoEffect(s) \/ HeartbeatMsg(s) \/ RegisterServer(s) \/ ReconcileServer(s)
       \/ \E m \in Match :
            \/ LaunchAccepted(s, m) \/ LaunchReady(s, m) \/ LaunchFailed(s, m)
            \/ ServerReport(s, m) \/ FinishMatch(s, m)

\* One iteration of one loop of a tick.
Tick ==
  \/ \E pl \in Player : GraceExpires(pl)
  \/ \E p \in Proposal : ExpireProposal(p) \/ PlacementTick(p)
  \/ \E h \in [Server -> Health] : HealthTick(h)
  \/ \E m \in Match : LaunchTimeout(m)

\* The matching pass that follows both, and what a handler has left to do.
Rest ==
  \/ \E S \in Candidate : CommitCandidate(S)
  \/ \E item \in agenda : LostRetry(item) \/ ReadyFromReconcile(item)

Next == Command \/ Tick \/ Rest

Spec == Init /\ [][Next]_vars

-----------------------------------------------------------------------------
\* A ticket has one owner: the queue or one proposal that will give it back,
\* so cancelling a proposal never queues a party twice or in another's place
\* (commit_candidate 1066-1135, cancel_proposal 602-735, finish_match).
TicketsConserved ==
  /\ \A q \in Party : tickets[q] # NoTicket =>
       /\ \A r \in Party \ {q} : tickets[r] # tickets[q]
       /\ \A p \in Proposal, r \in Party : proposalTickets[p][r] # tickets[q]
  /\ \A p, o \in Proposal, q, r \in Party :
       proposalTickets[p][q] # NoTicket /\ proposalTickets[p][q] = proposalTickets[o][r]
         => p = o /\ q = r

\* A ticket in the queue is claimed by no proposal, however its earlier
\* proposals ended (and a cancelled one may be cancelled again): otherwise
\* claims.commit would refuse its every candidate.  (The claims of a match that
\* was played are never released; their tickets do not come back.)
QueuedTicketIsFree == \A q \in Party : tickets[q] \notin claims

\* A proposal has at most one launch and waits for placement only without one,
\* so no roster is sent to two servers by retries, timeouts and lost servers;
\* and the proposal of a launch is still there (launch, retry_launch, tick).
NoDoubleLaunch ==
  /\ \A m, n \in Match : InLaunches(m) /\ launchProposal[m] = launchProposal[n] => m = n
  /\ \A m \in Match : InLaunches(m) => proposalState[launchProposal[m]] # "Absent"
  /\ \A p \in waiting : \A m \in Match : launchProposal[m] # p

\* A match holds capacity on one server only, the one its launch names: a
\* retry frees the failed server before the next one is charged
\* (placement.rs 114-126, retry_launch 1232-1297).
OneHome ==
  \A s \in Server, m \in Match : inst[s][m] # "None" =>
    /\ \A t \in Server \ {s} : inst[t][m] = "None"
    /\ InLaunches(m) => launchServer[m] = s

\* The result of a match moves ratings and credit once, also when the server
\* repeats it after the cache of completed results has forgotten the match
\* (apply_server_control 1500-1519, remember_completed_match_result 285-294).
SettledOnce == \A m \in Match : settled[m] <= 1

\* Capacity is reserved for a match, and the launch command sent, only for a
\* proposal that every player has accepted and that still owns its tickets:
\* never again for one cancelled while its launch was under way (respond,
\* launch, retry_launch).
LaunchedUnanimously ==
  [][\A s \in Server, m \in Match :
       inst'[s][m] = "Reserved" /\ inst[s][m] # "Reserved" =>
         \E p \in Proposal :
           /\ launchProposal'[m] = p
           /\ proposalState'[p] = "AwaitingPlacement"
           /\ \A pl \in Player : responses'[p][pl] \in {"None", "Accepted"}
           /\ Saved(p)' # {}]_vars

\* A proposal gives a ticket up because the match was played, or it puts that
\* very ticket (hence its place in the queue) back, or one of the party's own
\* members failed ("requeues innocent at original age", grpc/mod.rs 3548).
InnocentRequeued ==
  [][\A p \in Proposal : \A q \in Saved(p) :
       proposalTickets'[p][q] = NoTicket =>
         \/ proposalState'[p] = "Absent"
         \/ partyState'[q] = "Queued" /\ tickets'[q] = proposalTickets[p][q]
         \/ /\ partyState'[q] = "NotReady"
            /\ \E pl \in MemberOf[q] : responses'[p][pl] \in Failure]_vars

\* The authority uses the registry as module Registry specifies it: in every
\* interleaving a launch, retry, timeout or report is one registry operation
\* whose caller keeps the contract (OnlyAt, fresh identities).
ImplementsRegistry == RegistryInit /\ [][RegistryNext]_registryVars

\* The tickets, seen as module TicketLedger sees them.
QueuedTickets == {tickets[q] : q \in Party} \ {NoTicket}
TicketsOf(p) == {proposalTickets[p][q] : q \in Saved(p)}
HeldTickets == {TicketsOf(p) : p \in {o \in Proposal : Saved(o) # {}}}

Ledger == INSTANCE TicketLedger WITH
  next <- nextTicket, queued <- QueuedTickets, held <- HeldTickets

\* Whatever happens to proposals, launches and parties, the tickets move as
\* TicketLedger says: those of a proposal leave it together and only once,
\* though it may be cancelled twice, finish late or be given a new launch
\* (commit_candidate, cancel_proposal 602-735, finish_match).
ImplementsLedger == Ledger!Spec

-----------------------------------------------------------------------------
\* What a comment or a test promises and the code does not keep; each has a
\* run that ends in a counterexample.

\* "Keeping it in Ready would incorrectly make heartbeat loss eligible for
\* retry/migration" (grpc/mod.rs 1408): a published match is never launched
\* again.
PublishedNeverRetried ==
  [][\A m \in Match :
       InLaunches(m) /\ Published(launchProposal[m], m)
         => ~ \E s \in Server : Retry(launchServer[m], s, m)]_vars

\* "The authority keeps party/queue/proposal state during its disconnect grace
\* window" (client/src/lib.rs 228): the expiry of the window does not touch
\* the party of a player who is back.
ReconnectedKeepsState ==
  [][\A pl \in Player \ offline : GraceExpires(pl) => UNCHANGED <<partyState, tickets>>]_vars
=============================================================================
