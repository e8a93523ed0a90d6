---------------------------- MODULE AuthorityProofs ----------------------------
(***************************************************************************)
(* The authority for any number of players, parties, proposals, matches    *)
(* and servers: it uses the registry as module Registry specifies, a match *)
(* has one launch and one server, and a result is settled once.            *)
(*                                                                         *)
(* The types, the registry's invariant, the states of proposals and those  *)
(* of launches need one another: a retry is a step of the registry because *)
(* the launch names the only server that holds the match, and it stays the *)
(* only launch of its proposal because of the state the proposal is in.    *)
(***************************************************************************)
EXTENDS Authority, RegistryProofs

Undecided == {"AwaitingAccept", "AwaitingPlacement"}

\* Identities are used once; a proposal that is settled or gone owns no
\* tickets, one that is launched or waits for it has been accepted by all.
ProposalInv ==
  /\ nextProposal \in Nat \ {0}
  /\ \A p \in Proposal : proposalState[p] # "Absent" => p < nextProposal
  /\ \A p \in Proposal : proposalState[p] \notin Undecided => Saved(p) = {}
  /\ \A p \in Proposal : proposalState[p] = "AwaitingPlacement" => AllAccepted(responses[p])
  /\ \A p \in waiting : proposalState[p] = "AwaitingPlacement"

\* What the registry needs to know of a launch.
LaunchesNamed ==
  \A m \in Match : InLaunches(m) =>
    /\ launchServer[m] \in Server
    /\ m < nextMatch
    /\ proposalState[launchProposal[m]] \in {"AwaitingPlacement", "Cancelled"}

\* A match that is launched, or will be, has not been settled yet.
UnsettledLaunches == \A m \in Match : InLaunches(m) \/ m >= nextMatch => settled[m] = 0

\* The loop over the launches of lost servers meets every launch once, and
\* finds it in the map.
LostAgenda ==
  \A i \in agenda : i.todo = "lost" =>
    /\ InLaunches(i.match)
    /\ \A j \in agenda : j.todo = "lost" /\ j.match = i.match => j = i

LaunchInv ==
  /\ nextMatch \in Nat \ {0}
  /\ LaunchesNamed /\ UnsettledLaunches /\ LostAgenda
  /\ SettledOnce /\ NoDoubleLaunch /\ OneHome

AuthorityInv == RegistryInv /\ AuthorityTypeOK /\ ProposalInv /\ LaunchInv

-----------------------------------------------------------------------------
\* The registry.

LEMMA LaunchOnIsReserve ==
  ASSUME NEW p, NEW s \in Server, LaunchOn(p, s)
  PROVE  RegistryNext
BY DEF LaunchOn, RegistryNext

\* The server a launch names is the only one that may hold its match.
LEMMA RetryOnIsRetry ==
  ASSUME AuthorityTypeOK, OneHome, LaunchesNamed, NEW m \in Match, InLaunches(m),
         NEW s \in Server, RetryOn(m, s)
  PROVE  RegistryNext
<1>1. launchServer[m] \in Server
  BY DEF LaunchesNamed
<1>2. OnlyAt(launchServer[m], m)
  BY <1>1 DEF OneHome, OnlyAt
<1> QED BY <1>1, <1>2 DEF RetryOn, RegistryNext

LEMMA RetryFailsIsRelease ==
  ASSUME LaunchesNamed, NEW m \in Match, InLaunches(m), RetryFails(m)
  PROVE  [RegistryNext]_registryVars
BY DEF LaunchesNamed, RetryFails, RegistryNext

LEMMA PublishMatchIsPublish ==
  ASSUME NEW s \in Server, NEW m \in Match, PublishMatch(s, m)
  PROVE  RegistryNext
BY DEF PublishMatch, RegistryNext

LEMMA RegistrationIsRegistration ==
  ASSUME NEW s \in Server, RegisterServer(s)
  PROVE  RegistryNext
<1>1. CASE RegisterSame(s)
  BY <1>1 DEF RegistryNext
<1>2. ASSUME NEW g \in 1 .. MaxGeneration, NEW c \in Capacities,
             RegisterFirst(s, g, c, NoInstances)
      PROVE  RegistryNext
  <2>1. NoInstances \in InstanceMap /\ Held(NoInstances) = {}
    BY DEF NoInstances, InstanceMap, Held
  <2> QED BY <1>2, <2>1 DEF RegistryNext
<1>3. ASSUME NEW g \in 1 .. MaxGeneration, NEW c \in Capacities, NEW r \in InstanceMap,
             RegisterNewer(s, g, c, r)
      PROVE  RegistryNext
  BY <1>3 DEF RegistryNext
<1> QED BY <1>1, <1>2, <1>3 DEF RegisterServer

LEMMA AcceptedIsReport ==
  ASSUME NEW s \in Server, NEW m \in Match, LaunchAccepted(s, m)
  PROVE  RegistryNext
<1>1. <<"Reserved", "Accepted">> \in ReportStep
  BY DEF ReportStep
<1>2. inst[s][m] = <<"Reserved", "Accepted">>[1] /\ Advance(s, m, <<"Reserved", "Accepted">>[2])
  BY DEF LaunchAccepted
<1>3. Report(s, m)
  BY <1>1, <1>2, Zenon DEF Report
<1> QED BY <1>3 DEF RegistryNext

\* Every step of the authority is one call of the registry or none.
LEMMA RegistryStep ==
  ASSUME AuthorityTypeOK, OneHome, LaunchesNamed, LostAgenda, [Next]_vars
  PROVE  [RegistryNext]_registryVars
<1>1. CASE UNCHANGED vars
  BY <1>1 DEF vars
<1>2. ASSUME NEW q \in Party, Enqueue(q) \/ CancelQueue(q)
      PROVE  UNCHANGED registryVars
  BY <1>2 DEF Enqueue, CancelQueue
<1>3. ASSUME NEW pl \in Player,
             Accept(pl) \/ Reject(pl) \/ Disconnect(pl) \/ Reconnect(pl) \/ GraceExpires(pl)
      PROVE  UNCHANGED registryVars
  BY <1>3 DEF Accept, Reject, Disconnect, Reconnect, GraceExpires
<1>4. ASSUME NEW pl \in Player, LastAccept(pl)
      PROVE  [RegistryNext]_registryVars
  BY <1>4, LaunchOnIsReserve DEF LastAccept
<1>5. ASSUME NEW S \in Candidate, CommitCandidate(S)
      PROVE  UNCHANGED registryVars
  BY <1>5 DEF CommitCandidate
<1>6. ASSUME NEW p \in Proposal, ExpireProposal(p) \/ PlacementTick(p)
      PROVE  [RegistryNext]_registryVars
  BY <1>6, LaunchOnIsReserve DEF ExpireProposal, PlacementTick
<1>7. ASSUME NEW h \in [Server -> Health], HealthTick(h)
      PROVE  RegistryNext
  BY <1>7 DEF HealthTick, RegistryNext
<1>8. ASSUME NEW m \in Match, LaunchTimeout(m)
      PROVE  [RegistryNext]_registryVars
  BY <1>8, RetryOnIsRetry, RetryFailsIsRelease DEF LaunchTimeout
<1>9. ASSUME NEW item \in agenda, LostRetry(item)
      PROVE  [RegistryNext]_registryVars
  <2>1. item.match \in Match /\ InLaunches(item.match)
    BY <1>9 DEF LostRetry, LostAgenda, AuthorityTypeOK, AgendaItem
  <2> QED BY <1>9, <2>1, RetryOnIsRetry, RetryFailsIsRelease DEF LostRetry
<1>10. ASSUME NEW item \in agenda, ReadyFromReconcile(item)
       PROVE  [RegistryNext]_registryVars
  <2>1. item.match \in Match /\ item.server \in Server
    BY DEF AuthorityTypeOK, AgendaItem
  <2> QED BY <1>10, <2>1, PublishMatchIsPublish DEF ReadyFromReconcile
<1>11. ASSUME NEW s \in Server,
              NoEffect(s) \/ HeartbeatMsg(s) \/ RegisterServer(s) \/ ReconcileServer(s)
       PROVE  [RegistryNext]_registryVars
  BY <1>11, RegistrationIsRegistration DEF NoEffect, HeartbeatMsg, ReconcileServer, RegistryNext
<1>12. ASSUME NEW s \in Server, NEW m \in Match,
              LaunchAccepted(s, m) \/ LaunchReady(s, m) \/ LaunchFailed(s, m)
                \/ ServerReport(s, m) \/ FinishMatch(s, m)
       PROVE  [RegistryNext]_registryVars
  <2>1. CASE LaunchAccepted(s, m) BY <2>1, AcceptedIsReport
  <2>2. CASE LaunchReady(s, m) BY <2>2, PublishMatchIsPublish DEF LaunchReady
  <2>3. CASE LaunchFailed(s, m)
    BY <2>3, RetryOnIsRetry, RetryFailsIsRelease DEF LaunchFailed
  <2>4. CASE ServerReport(s, m) BY <2>4 DEF ServerReport, RegistryNext
  <2>5. CASE FinishMatch(s, m) BY <2>5 DEF FinishMatch, RegistryNext
  <2> QED BY <1>12, <2>1, <2>2, <2>3, <2>4, <2>5
<1> QED BY <1>1, <1>2, <1>3, <1>4, <1>5, <1>6, <1>7, <1>8, <1>9, <1>10, <1>11, <1>12 DEF Next, Command, Tick, Rest

-----------------------------------------------------------------------------
\* Types, in the groups of variables the helpers of the handlers change.

QueueTypes ==
  /\ partyState \in [Party -> PartyState]
  /\ tickets \in [Party -> Ticket \cup {NoTicket}]
  /\ nextTicket \in Nat

ProposalTypes ==
  /\ claims \in SUBSET Ticket
  /\ proposalState \in [Proposal -> ProposalState \cup {"Absent"}]
  /\ responses \in [Proposal -> [Player -> Response \cup {"None"}]]
  /\ rosterTickets \in [Proposal -> SUBSET Ticket]
  /\ proposalTickets \in [Proposal -> [Party -> Ticket \cup {NoTicket}]]
  /\ playerProposal \in [Player -> Proposal \cup {NoProposal}]
  /\ waiting \in SUBSET Proposal
  /\ nextProposal \in Nat

LaunchTypes ==
  /\ launchServer \in [Match -> Server \cup {NoServer}]
  /\ launchProposal \in [Match -> Proposal \cup {NoProposal}]
  /\ launchDeadline \in SUBSET Match
  /\ nextMatch \in Nat

ResultTypes ==
  /\ playerMatch \in [Player -> Match \cup {NoMatch}]
  /\ completed \in Seq(Match) /\ Len(completed) <= CompletedCap
  /\ settled \in [Match -> Nat]

SessionTypes ==
  /\ offline \in SUBSET Player
  /\ grace \in SUBSET Player
  /\ controls \in SUBSET Server
  /\ agenda \in SUBSET AgendaItem

LEMMA TypeGroups ==
  AuthorityTypeOK <=>
    RegistryTypeOK /\ QueueTypes /\ ProposalTypes /\ LaunchTypes /\ ResultTypes /\ SessionTypes
BY DEF AuthorityTypeOK, QueueTypes, ProposalTypes, LaunchTypes, ResultTypes, SessionTypes

LEMMA CancelTypes ==
  ASSUME QueueTypes, ProposalTypes, NEW p \in Proposal, NEW i \in BOOLEAN, NEW r,
         CancelProposal(p, i, r)
  PROVE  /\ QueueTypes'
         /\ claims' \in SUBSET Ticket
         /\ rosterTickets' \in [Proposal -> SUBSET Ticket]
         /\ proposalTickets' \in [Proposal -> [Party -> Ticket \cup {NoTicket}]]
         /\ playerProposal' \in [Player -> Proposal \cup {NoProposal}]
         /\ waiting' \in SUBSET Proposal
         /\ nextProposal' \in Nat
<1>1. QueueTypes'
  BY DEF CancelProposal, QueueTypes, ProposalTypes, PartyState
<1>2. NoTickets \in [Party -> Ticket \cup {NoTicket}]
  BY DEF NoTickets
<1>3. proposalTickets' \in [Proposal -> [Party -> Ticket \cup {NoTicket}]]
  BY <1>2 DEF CancelProposal, TakeSaved, ProposalTypes
<1> QED BY <1>1, <1>3 DEF CancelProposal, ReleaseClaims, ProposalTypes

LEMMA FailTypes ==
  ASSUME QueueTypes, ProposalTypes, NEW p \in Proposal,
         NEW r \in [Player -> Response \cup {"None"}], Fail(p, r)
  PROVE  QueueTypes' /\ ProposalTypes'
BY CancelTypes DEF Fail, ProposalTypes, ProposalState

LEMMA InfrastructureTypes ==
  ASSUME QueueTypes, ProposalTypes, NEW p \in Proposal, CancelForInfrastructure(p)
  PROVE  QueueTypes' /\ ProposalTypes'
<1>1. CASE UNCHANGED <<queueVars, proposalVars>>
  BY <1>1 DEF queueVars, proposalVars, QueueTypes, ProposalTypes
<1>2. CASE CancelProposal(p, TRUE, responses[p]) /\ UNCHANGED <<responses, proposalState>>
  BY <1>2, CancelTypes DEF ProposalTypes
<1> QED BY <1>1, <1>2 DEF CancelForInfrastructure

LEMMA RespondTypes ==
  ASSUME ProposalTypes, NEW p \in Proposal, NEW pl \in Player, NEW value \in Response
  PROVE  Respond(p, pl, value) \in [Player -> Response \cup {"None"}]
BY DEF ProposalTypes, Respond

LEMMA LaunchOnTypes ==
  ASSUME LaunchTypes, NEW p \in Proposal, NEW s \in Server, LaunchOn(p, s)
  PROVE  LaunchTypes'
BY DEF LaunchOn, LaunchTypes

LEMMA RetryOnTypes ==
  ASSUME LaunchTypes, NEW m \in Match, NEW s \in Server, RetryOn(m, s)
  PROVE  LaunchTypes'
BY DEF RetryOn, LaunchTypes

LEMMA ForgetLaunchTypes ==
  ASSUME LaunchTypes, NEW m \in Match, ForgetLaunch(m), launchDeadline' \subseteq launchDeadline
  PROVE  LaunchTypes'
BY DEF ForgetLaunch, LaunchTypes

LEMMA LaunchedProposal ==
  ASSUME LaunchTypes, NEW m \in Match, InLaunches(m)
  PROVE  launchProposal[m] \in Proposal
BY DEF InLaunches, LaunchTypes

LEMMA RememberTypes ==
  ASSUME ResultTypes, NEW m \in Match, Remember(m)
  PROVE  completed' \in Seq(Match) /\ Len(completed') <= CompletedCap
<1> DEFINE all == Append(completed, m)
<1>1. completed \in Seq(Match) /\ Len(completed) \in Nat /\ Len(completed) <= CompletedCap
  BY DEF ResultTypes
<1>2. all \in Seq(Match) /\ Len(all) = Len(completed) + 1
  BY <1>1
<1>3. all # <<>>
  BY <1>1, <1>2
<1>4. Tail(all) \in Seq(Match) /\ Len(Tail(all)) = Len(all) - 1
  BY <1>2, <1>3
<1>5. completed' = IF Len(all) > CompletedCap THEN Tail(all) ELSE all
  BY DEF Remember
<1> HIDE DEF all
<1>6. CompletedCap \in Nat
  BY CompletedCapAssumption
<1>7. CASE Len(all) > CompletedCap
  BY <1>1, <1>2, <1>4, <1>5, <1>6, <1>7
<1>8. CASE ~(Len(all) > CompletedCap)
  BY <1>1, <1>2, <1>5, <1>6, <1>8
<1> QED BY <1>7, <1>8

QueueAndProposalTypes == QueueTypes /\ ProposalTypes

LEMMA QueueAndProposalStep ==
  ASSUME AuthorityTypeOK, LostAgenda, [Next]_vars
  PROVE  QueueAndProposalTypes'
<1> USE DEF QueueAndProposalTypes
<1>0. QueueTypes /\ ProposalTypes /\ LaunchTypes
  BY TypeGroups
<1>1. CASE UNCHANGED <<queueVars, proposalVars>>
  BY <1>0, <1>1 DEF queueVars, proposalVars, QueueTypes, ProposalTypes
<1>2. ASSUME NEW q \in Party, Enqueue(q) PROVE QueueAndProposalTypes'
  BY <1>0, <1>2 DEF Enqueue, QueueTypes, ProposalTypes, proposalVars, PartyState
<1>3. ASSUME NEW q \in Party, CancelQueue(q) PROVE QueueAndProposalTypes'
  BY <1>0, <1>3 DEF CancelQueue, LeaveQueue, QueueTypes, ProposalTypes, proposalVars, PartyState
<1>4. ASSUME NEW pl \in Player, Reject(pl) PROVE QueueAndProposalTypes'
  BY <1>0, <1>4, FailTypes, RespondTypes DEF Reject, Response
<1>5. ASSUME NEW pl \in Player, Accept(pl) PROVE QueueAndProposalTypes'
  <2>1. PICK p \in Proposal : responses' = [responses EXCEPT ![p] = Respond(p, pl, "Accepted")]
    BY <1>5 DEF Accept
  <2>2. Respond(p, pl, "Accepted") \in [Player -> Response \cup {"None"}]
    BY <1>0, RespondTypes DEF Response
  <2> QED BY <1>0, <1>5, <2>1, <2>2 DEF Accept, QueueTypes, ProposalTypes, queueVars
<1>6. ASSUME NEW pl \in Player, LastAccept(pl) PROVE QueueAndProposalTypes'
  <2>1. PICK p \in Proposal :
          /\ responses' = [responses EXCEPT ![p] = Respond(p, pl, "Accepted")]
          /\ proposalState' = [proposalState EXCEPT ![p] = "AwaitingPlacement"]
          /\ waiting' \in {waiting, waiting \cup {p}}
    BY <1>6 DEF LastAccept
  <2>2. Respond(p, pl, "Accepted") \in [Player -> Response \cup {"None"}]
    BY <1>0, RespondTypes DEF Response
  <2> QED BY <1>0, <1>6, <2>1, <2>2
          DEF LastAccept, QueueTypes, ProposalTypes, queueVars, ProposalState
<1>7. ASSUME NEW S \in Candidate, CommitCandidate(S) PROVE QueueAndProposalTypes'
  <2> DEFINE p == nextProposal
             players == UNION {MemberOf[q] : q \in S}
             ids == {tickets[q] : q \in S}
  <2>1. S \subseteq Party /\ p \in Proposal
    BY <1>7, CandidateAssumption DEF CommitCandidate
  <2>2. ids \subseteq Ticket
    BY <1>0, <1>7, <2>1 DEF CommitCandidate, Matchable, QueueTypes
  <2>3. QueueTypes'
    BY <1>0, <1>7 DEF CommitCandidate, LeaveQueue, QueueTypes, PartyState
  <2>4. [pl \in Player |-> IF pl \in players THEN "Pending" ELSE "None"]
          \in [Player -> Response \cup {"None"}]
    BY DEF Response
  <2>5. [q \in Party |-> IF q \in S THEN tickets[q] ELSE NoTicket]
          \in [Party -> Ticket \cup {NoTicket}]
    BY <1>0, <2>1 DEF QueueTypes
  <2>6. /\ claims' = claims \cup ids
        /\ proposalState' = [proposalState EXCEPT ![p] = "AwaitingAccept"]
        /\ responses' = [responses EXCEPT ![p] =
             [pl \in Player |-> IF pl \in players THEN "Pending" ELSE "None"]]
        /\ rosterTickets' = [rosterTickets EXCEPT ![p] = ids]
        /\ proposalTickets' = [proposalTickets EXCEPT ![p] =
             [q \in Party |-> IF q \in S THEN tickets[q] ELSE NoTicket]]
        /\ playerProposal' = [pl \in Player |-> IF pl \in players THEN p ELSE playerProposal[pl]]
        /\ nextProposal' = nextProposal + 1
        /\ waiting' = waiting
    BY <1>7 DEF CommitCandidate
  <2> HIDE DEF p, players, ids
  <2>7. nextProposal' \in Nat
    BY <1>0, <2>6 DEF ProposalTypes
  <2>8. ProposalTypes'
    BY <1>0, <2>1, <2>2, <2>4, <2>5, <2>6, <2>7 DEF ProposalTypes, ProposalState
  <2> QED BY <2>3, <2>8
<1>8. ASSUME NEW pl \in Player, GraceExpires(pl) PROVE QueueAndProposalTypes'
  <2> DEFINE p == playerProposal[pl]
  <2>1. CASE p # NoProposal /\ Fail(p, [responses[p] EXCEPT ![pl] = "TimedOut"])
    <3>1. p \in Proposal
      BY <1>0, <2>1 DEF ProposalTypes
    <3>2. [responses[p] EXCEPT ![pl] = "TimedOut"] \in [Player -> Response \cup {"None"}]
      BY <1>0, <3>1 DEF ProposalTypes, Response
    <3> QED BY <1>0, <2>1, <3>1, <3>2, FailTypes
  <2>2. CASE p = NoProposal
    BY <1>0, <1>8, <2>2
       DEF GraceExpires, LeaveQueue, QueueTypes, ProposalTypes, proposalVars, PartyState
  <2> QED BY <1>1, <1>8, <2>1, <2>2 DEF GraceExpires
<1>9. ASSUME NEW p \in Proposal, ExpireProposal(p) PROVE QueueAndProposalTypes'
  <2>1. [pl \in Player |-> IF responses[p][pl] = "Pending" THEN "TimedOut" ELSE responses[p][pl]]
          \in [Player -> Response \cup {"None"}]
    BY <1>0 DEF ProposalTypes, Response
  <2> QED BY <1>0, <1>9, <2>1, FailTypes DEF ExpireProposal
<1>10. ASSUME NEW p \in Proposal, PlacementTick(p) PROVE QueueAndProposalTypes'
  <2>1. CASE CancelForInfrastructure(p)
    BY <1>0, <2>1, InfrastructureTypes
  <2>2. CASE waiting' = waiting \ {p}
             /\ UNCHANGED <<queueVars, claims, proposalState, responses, rosterTickets,
                            proposalTickets, playerProposal, nextProposal>>
    BY <1>0, <2>2 DEF QueueTypes, ProposalTypes, queueVars
  <2> QED BY <1>10, <2>1, <2>2 DEF PlacementTick
<1>11. ASSUME NEW m \in Match, InLaunches(m),
              UNCHANGED <<queueVars, proposalVars>> \/ CancelForInfrastructure(launchProposal[m])
       PROVE  QueueAndProposalTypes'
  BY <1>0, <1>1, <1>11, LaunchedProposal, InfrastructureTypes
<1>12. ASSUME NEW m \in Match, LaunchTimeout(m) PROVE QueueAndProposalTypes'
  BY <1>11, <1>12 DEF LaunchTimeout
<1>13. ASSUME NEW item \in agenda, LostRetry(item) PROVE QueueAndProposalTypes'
  <2>1. item.match \in Match /\ InLaunches(item.match)
    BY <1>13 DEF LostRetry, LostAgenda, AuthorityTypeOK, AgendaItem
  <2> QED BY <1>11, <1>13, <2>1 DEF LostRetry
<1>14. ASSUME NEW s \in Server, NEW m \in Match, PublishMatch(s, m)
       PROVE  QueueAndProposalTypes'
  BY <1>0, <1>14 DEF PublishMatch, QueueTypes, ProposalTypes, PartyState
<1>15. ASSUME NEW item \in agenda, ReadyFromReconcile(item) PROVE QueueAndProposalTypes'
  <2>1. item.match \in Match /\ item.server \in Server
    BY DEF AuthorityTypeOK, AgendaItem
  <2> QED BY <1>1, <1>14, <1>15, <2>1 DEF ReadyFromReconcile
<1>16. ASSUME NEW s \in Server, NEW m \in Match, FinishMatch(s, m) PROVE QueueAndProposalTypes'
  <2>1. launchProposal[m] \in Proposal
    BY <1>0, <1>16, LaunchedProposal DEF FinishMatch
  <2>2. QueueTypes'
    BY <1>0, <1>16 DEF FinishMatch, QueueTypes, PartyState
  <2>3. NoTickets \in [Party -> Ticket \cup {NoTicket}]
    BY DEF NoTickets
  <2>4. proposalTickets' \in [Proposal -> [Party -> Ticket \cup {NoTicket}]]
    BY <1>0, <1>16, <2>1, <2>3 DEF FinishMatch, TakeSaved, ProposalTypes
  <2>5. ProposalTypes'
    BY <1>0, <1>16, <2>1, <2>4 DEF FinishMatch, ProposalTypes
  <2> QED BY <2>2, <2>5
<1>17. ASSUME NEW pl \in Player, Disconnect(pl) \/ Reconnect(pl) PROVE QueueAndProposalTypes'
  BY <1>1, <1>17 DEF Disconnect, Reconnect
<1>18. ASSUME NEW h \in [Server -> Health], HealthTick(h) PROVE QueueAndProposalTypes'
  BY <1>1, <1>18 DEF HealthTick
<1>19. ASSUME NEW s \in Server,
              NoEffect(s) \/ HeartbeatMsg(s) \/ RegisterServer(s) \/ ReconcileServer(s)
       PROVE  QueueAndProposalTypes'
  BY <1>1, <1>19 DEF NoEffect, HeartbeatMsg, RegisterServer, ReconcileServer
<1>20. ASSUME NEW s \in Server, NEW m \in Match,
              LaunchAccepted(s, m) \/ LaunchReady(s, m) \/ LaunchFailed(s, m) \/ ServerReport(s, m)
       PROVE  QueueAndProposalTypes'
  BY <1>1, <1>14, <1>20 DEF LaunchAccepted, LaunchReady, LaunchFailed, ServerReport
<1>21. CASE UNCHANGED vars
  BY <1>1, <1>21 DEF vars
<1> QED BY <1>2, <1>3, <1>4, <1>5, <1>6, <1>7, <1>8, <1>9, <1>10, <1>12, <1>13, <1>15, <1>16,
           <1>17, <1>18, <1>19, <1>20, <1>21 DEF Next, Command, Tick, Rest

LEMMA LaunchTypesStep ==
  ASSUME AuthorityTypeOK, LostAgenda, [Next]_vars
  PROVE  LaunchTypes'
<1>0. LaunchTypes
  BY TypeGroups
<1>1. CASE UNCHANGED launchVars
  BY <1>0, <1>1 DEF launchVars, LaunchTypes
<1>2. ASSUME NEW q \in Party, Enqueue(q) \/ CancelQueue(q) PROVE LaunchTypes'
  BY <1>1, <1>2 DEF Enqueue, CancelQueue
<1>3. ASSUME NEW pl \in Player,
             Accept(pl) \/ Reject(pl) \/ Disconnect(pl) \/ Reconnect(pl) \/ GraceExpires(pl)
      PROVE  LaunchTypes'
  BY <1>1, <1>3 DEF Accept, Reject, Disconnect, Reconnect, GraceExpires
<1>4. ASSUME NEW pl \in Player, LastAccept(pl) PROVE LaunchTypes'
  BY <1>0, <1>1, <1>4, LaunchOnTypes DEF LastAccept
<1>5. ASSUME NEW S \in Candidate, CommitCandidate(S) PROVE LaunchTypes'
  BY <1>1, <1>5 DEF CommitCandidate
<1>6. ASSUME NEW p \in Proposal, ExpireProposal(p) \/ PlacementTick(p) PROVE LaunchTypes'
  BY <1>0, <1>1, <1>6, LaunchOnTypes DEF ExpireProposal, PlacementTick
<1>7. ASSUME NEW h \in [Server -> Health], HealthTick(h) PROVE LaunchTypes'
  BY <1>1, <1>7 DEF HealthTick
<1>8. ASSUME NEW m \in Match, LaunchTimeout(m) PROVE LaunchTypes'
  BY <1>0, <1>8, RetryOnTypes, ForgetLaunchTypes DEF LaunchTimeout
<1>9. ASSUME NEW item \in agenda, LostRetry(item) PROVE LaunchTypes'
  <2>1. item.match \in Match
    BY DEF AuthorityTypeOK, AgendaItem
  <2> QED BY <1>0, <1>9, <2>1, RetryOnTypes, ForgetLaunchTypes DEF LostRetry
<1>10. ASSUME NEW s \in Server, NEW m \in Match, PublishMatch(s, m) PROVE LaunchTypes'
  BY <1>0, <1>10 DEF PublishMatch, LaunchTypes
<1>11. ASSUME NEW item \in agenda, ReadyFromReconcile(item) PROVE LaunchTypes'
  <2>1. item.match \in Match /\ item.server \in Server
    BY DEF AuthorityTypeOK, AgendaItem
  <2> QED BY <1>1, <1>10, <1>11, <2>1 DEF ReadyFromReconcile
<1>12. ASSUME NEW s \in Server,
              NoEffect(s) \/ HeartbeatMsg(s) \/ RegisterServer(s) \/ ReconcileServer(s)
       PROVE  LaunchTypes'
  BY <1>1, <1>12 DEF NoEffect, HeartbeatMsg, RegisterServer, ReconcileServer
<1>13. ASSUME NEW s \in Server, NEW m \in Match,
              LaunchAccepted(s, m) \/ LaunchReady(s, m) \/ LaunchFailed(s, m)
                \/ ServerReport(s, m) \/ FinishMatch(s, m)
       PROVE  LaunchTypes'
  <2>1. CASE LaunchAccepted(s, m) \/ ServerReport(s, m)
    BY <1>1, <2>1 DEF LaunchAccepted, ServerReport
  <2>2. CASE LaunchReady(s, m)
    BY <1>10, <2>2 DEF LaunchReady
  <2>3. CASE LaunchFailed(s, m)
    BY <1>0, <1>1, <2>3, RetryOnTypes DEF LaunchFailed
  <2>4. CASE FinishMatch(s, m)
    BY <1>0, <2>4, ForgetLaunchTypes DEF FinishMatch
  <2> QED BY <1>13, <2>1, <2>2, <2>3, <2>4
<1>14. CASE UNCHANGED vars
  BY <1>1, <1>14 DEF vars
<1> QED BY <1>2, <1>3, <1>4, <1>5, <1>6, <1>7, <1>8, <1>9, <1>11, <1>12, <1>13, <1>14 DEF Next, Command, Tick, Rest

ResultAndSessionTypes == ResultTypes /\ SessionTypes

LEMMA ResultAndSessionStep ==
  ASSUME AuthorityTypeOK, [Next]_vars
  PROVE  ResultAndSessionTypes'
<1> USE DEF ResultAndSessionTypes
<1>0. ResultTypes /\ SessionTypes
  BY TypeGroups
<1>1. ASSUME UNCHANGED <<playerMatch, resultVars>> PROVE ResultTypes'
  BY <1>0, <1>1 DEF resultVars, ResultTypes
<1>2. ASSUME UNCHANGED sessionVars, controls' \subseteq Server, agenda' \subseteq AgendaItem
      PROVE  SessionTypes'
  BY <1>0, <1>2 DEF sessionVars, SessionTypes
<1>3. controls \subseteq Server /\ agenda \subseteq AgendaItem
  BY <1>0 DEF SessionTypes
<1>4. CASE UNCHANGED <<playerMatch, resultVars, sessionVars, controls, agenda>>
  BY <1>1, <1>2, <1>3, <1>4
<1>5. ASSUME NEW q \in Party, Enqueue(q) \/ CancelQueue(q) PROVE ResultAndSessionTypes'
  BY <1>4, <1>5 DEF Enqueue, CancelQueue
<1>6. ASSUME NEW pl \in Player, Accept(pl) \/ LastAccept(pl) \/ Reject(pl)
      PROVE  ResultAndSessionTypes'
  BY <1>4, <1>6 DEF Accept, LastAccept, Reject
<1>7. ASSUME NEW pl \in Player, Disconnect(pl) \/ Reconnect(pl) \/ GraceExpires(pl)
      PROVE  ResultAndSessionTypes'
  BY <1>0, <1>1, <1>7 DEF Disconnect, Reconnect, GraceExpires, SessionTypes
<1>8. ASSUME NEW S \in Candidate, CommitCandidate(S) PROVE ResultAndSessionTypes'
  BY <1>4, <1>8 DEF CommitCandidate
<1>9. ASSUME NEW p \in Proposal, ExpireProposal(p) \/ PlacementTick(p)
      PROVE  ResultAndSessionTypes'
  BY <1>4, <1>9 DEF ExpireProposal, PlacementTick
<1>10. ASSUME NEW h \in [Server -> Health], HealthTick(h) PROVE ResultAndSessionTypes'
  BY <1>1, <1>2, <1>3, <1>10 DEF HealthTick
<1>11. ASSUME NEW m \in Match, LaunchTimeout(m) PROVE ResultAndSessionTypes'
  BY <1>4, <1>11 DEF LaunchTimeout
<1>12. ASSUME NEW item \in agenda, LostRetry(item) PROVE ResultAndSessionTypes'
  BY <1>1, <1>2, <1>3, <1>12 DEF LostRetry
<1>13. ASSUME NEW s \in Server, NEW m \in Match, PublishMatch(s, m) PROVE ResultTypes'
  BY <1>0, <1>13 DEF PublishMatch, resultVars, ResultTypes
<1>14. ASSUME NEW item \in agenda, ReadyFromReconcile(item) PROVE ResultAndSessionTypes'
  <2>1. item.match \in Match /\ item.server \in Server
    BY DEF AuthorityTypeOK, AgendaItem
  <2>2. ResultTypes'
    BY <1>1, <1>13, <1>14, <2>1 DEF ReadyFromReconcile
  <2> QED BY <1>2, <1>3, <1>14, <2>2 DEF ReadyFromReconcile
<1>15. ASSUME NEW s \in Server, HeardFrom(s) PROVE SessionTypes'
  BY <1>2, <1>3, <1>15 DEF HeardFrom
<1>16. ASSUME NEW s \in Server, NoEffect(s) \/ HeartbeatMsg(s) PROVE ResultAndSessionTypes'
  BY <1>1, <1>15, <1>16 DEF NoEffect, HeartbeatMsg
<1>17. ASSUME NEW s \in Server, RegisterServer(s) PROVE ResultAndSessionTypes'
  BY <1>1, <1>2, <1>3, <1>17 DEF RegisterServer
<1>18. ASSUME NEW s \in Server, ReconcileServer(s) PROVE ResultAndSessionTypes'
  <2>1. \A m \in Match : [todo |-> "ready", server |-> s, match |-> m] \in AgendaItem
    BY DEF AgendaItem
  <2>2. agenda' \subseteq AgendaItem
    BY <1>3, <1>18, <2>1 DEF ReconcileServer
  <2> QED BY <1>1, <1>2, <1>3, <1>18, <2>2 DEF ReconcileServer
<1>19. ASSUME NEW s \in Server, NEW m \in Match,
              LaunchAccepted(s, m) \/ LaunchFailed(s, m) \/ ServerReport(s, m)
       PROVE  ResultAndSessionTypes'
  BY <1>1, <1>15, <1>19 DEF LaunchAccepted, LaunchFailed, ServerReport
<1>20. ASSUME NEW s \in Server, NEW m \in Match, LaunchReady(s, m)
       PROVE  ResultAndSessionTypes'
  BY <1>13, <1>15, <1>20 DEF LaunchReady
<1>21. ASSUME NEW s \in Server, NEW m \in Match, FinishMatch(s, m)
       PROVE  ResultAndSessionTypes'
  <2>1. completed' \in Seq(Match) /\ Len(completed') <= CompletedCap
    BY <1>0, <1>21, RememberTypes DEF FinishMatch
  <2>2. playerMatch' \in [Player -> Match \cup {NoMatch}] /\ settled' \in [Match -> Nat]
    BY <1>0, <1>21 DEF FinishMatch, ResultTypes
  <2> QED BY <1>15, <1>21, <2>1, <2>2 DEF FinishMatch, ResultTypes
<1>22. CASE UNCHANGED vars
  BY <1>4, <1>22 DEF vars
<1> QED BY <1>5, <1>6, <1>7, <1>8, <1>9, <1>10, <1>11, <1>12, <1>14, <1>16, <1>17, <1>18,
           <1>19, <1>20, <1>21, <1>22 DEF Next, Command, Tick, Rest

-----------------------------------------------------------------------------
\* Proposals.

LEMMA TakeSavedTakesOne ==
  ASSUME ProposalTypes, NEW p \in Proposal, TakeSaved(p)
  PROVE  /\ Saved(p)' = {}
         /\ \A o \in Proposal \ {p} : Saved(o)' = Saved(o)
BY DEF TakeSaved, Saved, NoTickets, ProposalTypes

\* A proposal that fails is in the map: it was answered, or it is a player's.
LEMMA FailKeepsProposals ==
  ASSUME ProposalTypes, ProposalInv, NEW p \in Proposal, NEW r, Fail(p, r),
         proposalState[p] # "Absent"
  PROVE  ProposalInv'
<1>1. /\ proposalState' = [proposalState EXCEPT ![p] = "Cancelled"]
      /\ responses' = [responses EXCEPT ![p] = r]
      /\ waiting' = waiting \ {p} /\ nextProposal' = nextProposal
      /\ TakeSaved(p)
  BY DEF Fail, CancelProposal
<1>2. Saved(p)' = {} /\ \A o \in Proposal \ {p} : Saved(o)' = Saved(o)
  BY <1>1, TakeSavedTakesOne
<1>3. /\ proposalState'[p] = "Cancelled"
      /\ \A o \in Proposal \ {p} :
           proposalState'[o] = proposalState[o] /\ responses'[o] = responses[o]
  BY <1>1 DEF ProposalTypes
<1> QED BY <1>1, <1>2, <1>3 DEF ProposalInv, ProposalTypes

LEMMA InfrastructureKeepsProposals ==
  ASSUME ProposalTypes, ProposalInv, NEW p \in Proposal, CancelForInfrastructure(p)
  PROVE  ProposalInv'
<1>1. CASE UNCHANGED <<queueVars, proposalVars>>
  BY <1>1 DEF proposalVars, ProposalInv, Saved
<1>2. CASE /\ UNCHANGED <<proposalState, responses, nextProposal>>
           /\ waiting' = waiting \ {p} /\ TakeSaved(p)
  <2>1. \A o \in Proposal : Saved(o)' \subseteq Saved(o)
    BY <1>2, TakeSavedTakesOne
  <2> QED BY <1>2, <2>1 DEF ProposalInv
<1> QED BY <1>1, <1>2 DEF CancelForInfrastructure, CancelProposal

LEMMA ProposalStep ==
  ASSUME AuthorityTypeOK, ProposalInv, LaunchInv, [Next]_vars
  PROVE  ProposalInv'
<1>0. QueueTypes /\ ProposalTypes /\ LaunchTypes
  BY TypeGroups
<1>1. CASE UNCHANGED proposalVars
  BY <1>1 DEF proposalVars, ProposalInv, Saved
<1>2. ASSUME UNCHANGED <<proposalState, responses, proposalTickets, nextProposal>>,
             waiting' \subseteq waiting
      PROVE  ProposalInv'
  BY <1>2 DEF ProposalInv, Saved
<1>3. ASSUME NEW pl \in Player, Reject(pl) PROVE ProposalInv'
  BY <1>0, <1>3, FailKeepsProposals DEF Reject, CanRespond
<1>4. ASSUME NEW pl \in Player, Accept(pl) PROVE ProposalInv'
  <2>1. PICK p \in Proposal :
          /\ proposalState[p] = "AwaitingAccept"
          /\ responses' = [responses EXCEPT ![p] = Respond(p, pl, "Accepted")]
    BY <1>4 DEF Accept, CanRespond
  <2>2. \A o \in Proposal \ {p} : responses'[o] = responses[o]
    BY <1>0, <2>1 DEF ProposalTypes
  <2>3. \A o \in Proposal : Saved(o)' = Saved(o)
    BY <1>4 DEF Accept, Saved
  <2> QED BY <1>4, <2>1, <2>2, <2>3 DEF Accept, ProposalInv
<1>5. ASSUME NEW pl \in Player, LastAccept(pl) PROVE ProposalInv'
  <2>1. PICK p \in Proposal :
          /\ proposalState[p] = "AwaitingAccept"
          /\ AllAccepted(Respond(p, pl, "Accepted"))
          /\ responses' = [responses EXCEPT ![p] = Respond(p, pl, "Accepted")]
          /\ proposalState' = [proposalState EXCEPT ![p] = "AwaitingPlacement"]
          /\ waiting' \subseteq waiting \cup {p}
    BY <1>5 DEF LastAccept, CanRespond
  <2>2. /\ responses'[p] = Respond(p, pl, "Accepted") /\ proposalState'[p] = "AwaitingPlacement"
        /\ \A o \in Proposal \ {p} :
             responses'[o] = responses[o] /\ proposalState'[o] = proposalState[o]
    BY <1>0, <2>1 DEF ProposalTypes
  <2>3. \A o \in Proposal : Saved(o)' = Saved(o)
    BY <1>5 DEF LastAccept, Saved
  <2>4. \A o \in waiting' : o \in Proposal
    BY <1>0, <2>1 DEF ProposalTypes
  <2> QED BY <1>5, <2>1, <2>2, <2>3, <2>4 DEF LastAccept, ProposalInv, Undecided
<1>6. ASSUME NEW S \in Candidate, CommitCandidate(S) PROVE ProposalInv'
  <2> DEFINE p == nextProposal
  <2>1. p \in Proposal /\ p \in Nat \ {0} /\ nextProposal' = p + 1 /\ waiting' = waiting
    BY <1>6 DEF CommitCandidate, ProposalInv
  <2>2. proposalState[p] = "Absent" /\ p \notin waiting
    BY <2>1 DEF ProposalInv
  <2>3. /\ proposalState'[p] = "AwaitingAccept"
        /\ \A o \in Proposal \ {p} :
             responses'[o] = responses[o] /\ proposalState'[o] = proposalState[o]
    BY <1>0, <1>6, <2>1 DEF CommitCandidate, ProposalTypes
  <2>4. \A o \in Proposal \ {p} : Saved(o)' = Saved(o)
    BY <1>0, <1>6, <2>1 DEF CommitCandidate, ProposalTypes, Saved
  <2>5. ASSUME NEW o \in Proposal, proposalState'[o] # "Absent" PROVE o < nextProposal'
    <3>1. o \in Nat /\ (o # p => o < p)
      BY <2>3, <2>5, IdAssumption DEF ProposalInv
    <3> HIDE DEF p
    <3> QED BY <2>1, <3>1
  <2>6. waiting \subseteq Proposal
    BY <1>0 DEF ProposalTypes
  <2> HIDE DEF p
  <2> QED BY <2>1, <2>2, <2>3, <2>4, <2>5, <2>6 DEF ProposalInv, Undecided
<1>7. ASSUME NEW pl \in Player, GraceExpires(pl) PROVE ProposalInv'
  <2>1. CASE \E p \in Proposal : \E r : proposalState[p] # "Absent" /\ Fail(p, r)
    BY <1>0, <2>1, FailKeepsProposals
  <2>2. playerProposal[pl] # NoProposal => playerProposal[pl] \in Proposal
    BY <1>0 DEF ProposalTypes
  <2> QED BY <1>1, <1>7, <2>1, <2>2 DEF GraceExpires
<1>8. ASSUME NEW p \in Proposal, ExpireProposal(p) PROVE ProposalInv'
  BY <1>0, <1>8, FailKeepsProposals DEF ExpireProposal
<1>9. ASSUME NEW p \in Proposal, PlacementTick(p) PROVE ProposalInv'
  BY <1>0, <1>2, <1>9, InfrastructureKeepsProposals DEF PlacementTick
<1>10. ASSUME NEW m \in Match, InLaunches(m),
              UNCHANGED <<queueVars, proposalVars>> \/ CancelForInfrastructure(launchProposal[m])
       PROVE  ProposalInv'
  BY <1>0, <1>1, <1>10, LaunchedProposal, InfrastructureKeepsProposals
<1>11. ASSUME NEW m \in Match, LaunchTimeout(m) PROVE ProposalInv'
  BY <1>10, <1>11 DEF LaunchTimeout
<1>12. ASSUME NEW item \in agenda, LostRetry(item) PROVE ProposalInv'
  <2>1. item.match \in Match /\ InLaunches(item.match)
    BY <1>12 DEF LostRetry, LaunchInv, LostAgenda, AuthorityTypeOK, AgendaItem
  <2> QED BY <1>10, <1>12, <2>1 DEF LostRetry
<1>13. ASSUME NEW s \in Server, NEW m \in Match, PublishMatch(s, m) PROVE ProposalInv'
  BY <1>2, <1>13 DEF PublishMatch
<1>14. ASSUME NEW item \in agenda, ReadyFromReconcile(item) PROVE ProposalInv'
  <2>1. item.match \in Match /\ item.server \in Server
    BY DEF AuthorityTypeOK, AgendaItem
  <2> QED BY <1>1, <1>13, <1>14, <2>1 DEF ReadyFromReconcile
<1>15. ASSUME NEW s \in Server, NEW m \in Match, FinishMatch(s, m) PROVE ProposalInv'
  <2>1. PICK p \in Proposal : p = launchProposal[m] /\ InLaunches(m)
    BY <1>0, <1>15, LaunchedProposal DEF FinishMatch
  <2>2. p \notin waiting
    BY <2>1 DEF LaunchInv, NoDoubleLaunch
  <2>3. Saved(p)' = {} /\ \A o \in Proposal \ {p} : Saved(o)' = Saved(o)
    BY <1>0, <1>15, <2>1, TakeSavedTakesOne DEF FinishMatch
  <2>4. /\ proposalState'[p] = "Absent" /\ UNCHANGED <<waiting, nextProposal>>
        /\ \A o \in Proposal \ {p} :
             responses'[o] = responses[o] /\ proposalState'[o] = proposalState[o]
    BY <1>0, <1>15, <2>1 DEF FinishMatch, ProposalTypes
  <2>5. waiting \subseteq Proposal
    BY <1>0 DEF ProposalTypes
  <2> QED BY <2>2, <2>3, <2>4, <2>5 DEF ProposalInv
<1>16. ASSUME NEW q \in Party, Enqueue(q) \/ CancelQueue(q) PROVE ProposalInv'
  BY <1>1, <1>16 DEF Enqueue, CancelQueue
<1>17. ASSUME NEW pl \in Player, Disconnect(pl) \/ Reconnect(pl) PROVE ProposalInv'
  BY <1>1, <1>17 DEF Disconnect, Reconnect
<1>18. ASSUME NEW h \in [Server -> Health], HealthTick(h) PROVE ProposalInv'
  BY <1>1, <1>18 DEF HealthTick
<1>19. ASSUME NEW s \in Server,
              NoEffect(s) \/ HeartbeatMsg(s) \/ RegisterServer(s) \/ ReconcileServer(s)
       PROVE  ProposalInv'
  BY <1>1, <1>19 DEF NoEffect, HeartbeatMsg, RegisterServer, ReconcileServer
<1>20. ASSUME NEW s \in Server, NEW m \in Match,
              LaunchAccepted(s, m) \/ LaunchReady(s, m) \/ LaunchFailed(s, m) \/ ServerReport(s, m)
       PROVE  ProposalInv'
  BY <1>1, <1>13, <1>20 DEF LaunchAccepted, LaunchReady, LaunchFailed, ServerReport
<1>21. CASE UNCHANGED vars
  BY <1>1, <1>21 DEF vars
<1> QED BY <1>3, <1>4, <1>5, <1>6, <1>7, <1>8, <1>9, <1>11, <1>12, <1>14, <1>15, <1>16, <1>17,
           <1>18, <1>19, <1>20, <1>21 DEF Next, Command, Tick, Rest

-----------------------------------------------------------------------------
\* Launches.

Launchable == {"AwaitingPlacement", "Cancelled"}

\* No server gets a match it does not hold, and a proposal that has been
\* decided stays so: the steps other than launches and retries.
NoNewHome == \A s \in Server, m \in Match : inst'[s][m] # "None" => inst[s][m] # "None"
DecidedStays ==
  \A p \in Proposal : proposalState[p] \in Launchable => proposalState'[p] \in Launchable

LEMMA MergeHomes ==
  ASSUME NEW im, NEW r, Held(r) \subseteq Held(im), NEW m \in Match, Merge(im, r)[m] # "None"
  PROVE  im[m] # "None"
BY DEF Merge, Held

LEMMA PartialHomes ==
  ASSUME RegistryTypeOK, NEW s \in Server, NEW r \in InstanceMap, NEW bad,
         ReconcilePartial(s, r, bad)
  PROVE  NoNewHome
<1>1. PICK first \in Match :
        inst' = [inst EXCEPT ![s] =
                   Merge(inst[s], [m \in Match |-> IF m < first THEN r[m] ELSE "None"])]
  BY DEF ReconcilePartial, Invalid, Held
<1> DEFINE applied == [m \in Match |-> IF m < first THEN r[m] ELSE "None"]
<1>2. Held(applied) \subseteq Held(inst[s])
  BY DEF ReconcilePartial, Held
<1>3. inst' = [inst EXCEPT ![s] = Merge(inst[s], applied)]
  BY <1>1
<1> HIDE DEF applied
<1> QED BY <1>2, <1>3, MergeHomes DEF NoNewHome, RegistryTypeOK

LEMMA ReleaseHomes ==
  ASSUME RegistryTypeOK, NEW s \in Server, NEW m \in Match, Release(s, m)
  PROVE  NoNewHome
BY DEF Release, RegistryTypeOK, InstanceMap, NoNewHome

LEMMA AdvanceHomes ==
  ASSUME RegistryTypeOK, NEW s \in Server, NEW m \in Match, NEW next, Advance(s, m, next),
         inst[s][m] # "None"
  PROVE  NoNewHome
BY DEF Advance, RegistryTypeOK, InstanceMap, NoNewHome

LEMMA HealthHomes ==
  ASSUME RegistryTypeOK, NEW h, UpdateHealth(h)
  PROVE  NoNewHome
BY DEF UpdateHealth, LoseAll, Live, Held, RegistryTypeOK, InstanceMap, NoNewHome

LEMMA ReconcileHomes ==
  ASSUME RegistryTypeOK, NEW s \in Server, ReconcileServer(s)
  PROVE  NoNewHome
<1>1. ASSUME NEW r \in InstanceMap, Reconcile(s, r) PROVE NoNewHome
  BY <1>1, MergeHomes DEF Reconcile, RegistryTypeOK, NoNewHome
<1> QED BY <1>1, PartialHomes DEF ReconcileServer

LEMMA RegistrationHomes ==
  ASSUME RegistryTypeOK, NEW s \in Server, RegisterServer(s)
  PROVE  NoNewHome
<1>1. CASE RegisterSame(s)
  BY <1>1 DEF RegisterSame, NoNewHome
<1>2. ASSUME NEW g, NEW c, RegisterFirst(s, g, c, NoInstances) PROVE NoNewHome
  BY <1>2 DEF RegisterFirst, NoInstances, RegistryTypeOK, NoNewHome
<1>3. ASSUME NEW g, NEW c, NEW r \in InstanceMap, RegisterNewer(s, g, c, r) PROVE NoNewHome
  BY <1>3, MergeHomes DEF RegisterNewer, RegistryTypeOK, NoNewHome
<1> QED BY <1>1, <1>2, <1>3 DEF RegisterServer

LEMMA ReportHomes ==
  ASSUME RegistryTypeOK, NEW s \in Server, NEW m \in Match, Report(s, m) \/ Publish(s, m)
  PROVE  NoNewHome
BY AdvanceHomes DEF Report, ReportStep, Publish

\* A step that launches nothing and ends no launch.
LEMMA LaunchesStay ==
  ASSUME LaunchTypes, LaunchInv, UNCHANGED <<launchServer, launchProposal, nextMatch, settled>>,
         NoNewHome, DecidedStays, LostAgenda',
         \A p \in waiting' : \A m \in Match : launchProposal[m] # p
  PROVE  LaunchInv'
<1>1. \A m \in Match : InLaunches(m)' <=> InLaunches(m)
  BY DEF InLaunches
<1>2. LaunchesNamed'
  <2> SUFFICES ASSUME NEW m \in Match, InLaunches(m)
               PROVE  /\ launchServer[m] \in Server /\ m < nextMatch
                      /\ proposalState'[launchProposal[m]] \in Launchable
    BY <1>1 DEF LaunchesNamed, Launchable
  <2> QED BY LaunchedProposal DEF LaunchInv, LaunchesNamed, Launchable, DecidedStays
<1>3. UnsettledLaunches'
  BY <1>1 DEF LaunchInv, UnsettledLaunches
<1>4. NoDoubleLaunch'
  BY <1>1, <1>2 DEF LaunchInv, NoDoubleLaunch, LaunchesNamed
<1>5. OneHome'
  BY <1>1 DEF LaunchInv, OneHome, NoNewHome
<1> QED BY <1>2, <1>3, <1>4, <1>5 DEF LaunchInv, SettledOnce

\* The agenda when the launches stay.
LEMMA AgendaStays ==
  ASSUME LostAgenda, UNCHANGED launchProposal, \A i \in agenda' : i.todo = "lost" => i \in agenda
  PROVE  LostAgenda'
BY DEF LostAgenda, InLaunches

\* A proposal without a launch gets one, on one server.
LEMMA LaunchOnKeepsLaunches ==
  ASSUME RegistryTypeOK, LaunchTypes, LaunchInv, NEW p \in Proposal, NEW s \in Server,
         LaunchOn(p, s), \A m \in Match : launchProposal[m] # p,
         waiting' \subseteq waiting \ {p}, proposalState'[p] = "AwaitingPlacement",
         DecidedStays, agenda' = {}, UNCHANGED settled
  PROVE  LaunchInv'
<1>1. PICK new \in Match :
      /\ new = nextMatch /\ new \in Nat \ {0} /\ nextMatch' = new + 1
      /\ launchServer' = [launchServer EXCEPT ![new] = s]
      /\ launchProposal' = [launchProposal EXCEPT ![new] = p]
      /\ inst' = [inst EXCEPT ![s][new] = "Reserved"]
      /\ \A t \in Server : inst[t][new] = "None"
  BY DEF LaunchOn, Reserve, LaunchInv
<1>2. p # NoProposal /\ \A m \in Match : m \in Nat
  BY IdAssumption, MatchAssumption DEF NoProposal
<1>3. /\ launchServer'[new] = s /\ launchProposal'[new] = p
      /\ \A m \in Match \ {new} :
           launchServer'[m] = launchServer[m] /\ launchProposal'[m] = launchProposal[m]
  BY <1>1 DEF LaunchTypes
<1>4. /\ inst'[s][new] = "Reserved"
      /\ \A t \in Server, m \in Match : t # s \/ m # new => inst'[t][m] = inst[t][m]
  BY <1>1 DEF RegistryTypeOK, InstanceMap
<1>5. InLaunches(new)' /\ \A m \in Match \ {new} : InLaunches(m)' <=> InLaunches(m)
  BY <1>2, <1>3 DEF InLaunches
<1>6. \A m \in Match : m < new => m < new + 1
  BY <1>1, <1>2
<1>7. LaunchesNamed'
  <2> SUFFICES ASSUME NEW m \in Match, InLaunches(m)'
               PROVE  /\ launchServer'[m] \in Server /\ m < nextMatch'
                      /\ proposalState'[launchProposal'[m]] \in Launchable
    BY DEF LaunchesNamed, Launchable
  <2>1. CASE m = new
    BY <1>1, <1>3, <2>1 DEF Launchable
  <2>2. CASE m # new
    <3>1. InLaunches(m) /\ launchProposal[m] \in Proposal
      BY <1>5, <2>2, LaunchedProposal
    <3> QED BY <1>1, <1>3, <1>6, <2>2, <3>1
            DEF LaunchInv, LaunchesNamed, Launchable, DecidedStays
  <2> QED BY <2>1, <2>2
<1>8. UnsettledLaunches'
  <2> SUFFICES ASSUME NEW m \in Match, InLaunches(m)' \/ m >= nextMatch' PROVE settled[m] = 0
    BY DEF UnsettledLaunches
  <2>1. InLaunches(m) \/ m >= nextMatch
    BY <1>1, <1>2, <1>5
  <2> QED BY <2>1 DEF LaunchInv, UnsettledLaunches
<1>9. NoDoubleLaunch'
  <2>1. \A m, n \in Match : InLaunches(m)' /\ launchProposal'[m] = launchProposal'[n] => m = n
    BY <1>3, <1>5 DEF LaunchInv, NoDoubleLaunch
  <2>2. \A m \in Match : InLaunches(m)' => proposalState'[launchProposal'[m]] # "Absent"
    BY <1>7 DEF LaunchesNamed
  <2>3. \A o \in waiting', m \in Match : launchProposal'[m] # o
    BY <1>3 DEF LaunchInv, NoDoubleLaunch
  <2> QED BY <2>1, <2>2, <2>3 DEF NoDoubleLaunch
<1>10. OneHome'
  BY <1>1, <1>3, <1>4, <1>5 DEF LaunchInv, OneHome
<1> QED BY <1>1, <1>7, <1>8, <1>9, <1>10 DEF LaunchInv, LostAgenda, SettledOnce

\* A launch moves to another server, or to the same one.
LEMMA RetryOnKeepsLaunches ==
  ASSUME RegistryTypeOK, LaunchTypes, LaunchInv, NEW m \in Match, NEW s \in Server,
         InLaunches(m), RetryOn(m, s), agenda' \subseteq agenda,
         UNCHANGED <<proposalState, waiting, settled>>
  PROVE  LaunchInv'
<1>1. /\ launchServer' = [launchServer EXCEPT ![m] = s] /\ launchServer[m] \in Server
      /\ inst' = [[inst EXCEPT ![launchServer[m]][m] = "None"] EXCEPT ![s][m] = "Reserved"]
      /\ UNCHANGED <<launchProposal, nextMatch>>
  BY DEF RetryOn, Retry, LaunchInv, LaunchesNamed
<1>2. \A n \in Match : InLaunches(n)' <=> InLaunches(n)
  BY <1>1 DEF InLaunches
<1>3. launchServer'[m] = s /\ \A n \in Match \ {m} : launchServer'[n] = launchServer[n]
  BY <1>1 DEF LaunchTypes
<1>4. /\ \A t \in Server \ {s} : inst'[t][m] = "None"
      /\ \A t \in Server, n \in Match \ {m} : inst'[t][n] = inst[t][n]
  <2>1. \A t \in Server \ {launchServer[m]} : inst[t][m] = "None"
    BY DEF LaunchInv, OneHome
  <2> QED BY <1>1, <2>1 DEF RegistryTypeOK, InstanceMap
<1>5. LaunchesNamed' /\ UnsettledLaunches' /\ NoDoubleLaunch'
  BY <1>1, <1>2, <1>3 DEF LaunchInv, LaunchesNamed, UnsettledLaunches, NoDoubleLaunch
<1>6. OneHome'
  BY <1>2, <1>3, <1>4 DEF LaunchInv, OneHome
<1>7. LostAgenda'
  BY <1>1, AgendaStays DEF LaunchInv
<1> QED BY <1>1, <1>5, <1>6, <1>7 DEF LaunchInv, SettledOnce

\* A launch ends: its result is settled, or it is given up.
LEMMA ForgetLaunchKeepsLaunches ==
  ASSUME LaunchTypes, LaunchInv, waiting \subseteq Proposal,
         NEW m \in Match, InLaunches(m), ForgetLaunch(m), NoNewHome,
         \A i \in agenda' : i.todo = "lost" => i \in agenda /\ i.match # m,
         waiting' \subseteq waiting,
         \A p \in Proposal \ {launchProposal[m]} :
           proposalState[p] \in Launchable => proposalState'[p] \in Launchable,
         settled' \in {settled, [settled EXCEPT ![m] = @ + 1]}, settled \in [Match -> Nat]
  PROVE  LaunchInv'
<1>1. /\ launchServer' = [launchServer EXCEPT ![m] = NoServer]
      /\ launchProposal' = [launchProposal EXCEPT ![m] = NoProposal]
      /\ nextMatch' = nextMatch
  BY DEF ForgetLaunch
<1>2. /\ ~InLaunches(m)' /\ launchProposal'[m] = NoProposal
      /\ \A n \in Match \ {m} : /\ launchServer'[n] = launchServer[n]
                                /\ launchProposal'[n] = launchProposal[n]
                                /\ InLaunches(n)' <=> InLaunches(n)
  BY <1>1 DEF InLaunches, LaunchTypes
<1>3. \A n \in Match \ {m} : InLaunches(n) =>
        launchProposal[n] \in Proposal \ {launchProposal[m]}
  BY LaunchedProposal DEF LaunchInv, NoDoubleLaunch
<1>4. LaunchesNamed'
  BY <1>1, <1>2, <1>3 DEF LaunchInv, LaunchesNamed, Launchable
<1>5. settled[m] = 0 /\ settled'[m] \in {0, 1} /\ \A n \in Match \ {m} : settled'[n] = settled[n]
  BY DEF LaunchInv, UnsettledLaunches
<1>6. UnsettledLaunches'
  <2>1. ~(m >= nextMatch)
    <3>1. m < nextMatch /\ m \in Nat /\ nextMatch \in Nat
      BY MatchAssumption DEF LaunchInv, LaunchesNamed, LaunchTypes
    <3> QED BY <3>1
  <2> QED BY <1>1, <1>2, <1>5, <2>1 DEF LaunchInv, UnsettledLaunches
<1>7. SettledOnce'
  BY <1>5 DEF LaunchInv, SettledOnce
<1>8. NoDoubleLaunch'
  <2>1. \A n, o \in Match : InLaunches(n)' /\ launchProposal'[n] = launchProposal'[o] => n = o
    BY <1>2 DEF LaunchInv, NoDoubleLaunch, InLaunches
  <2>2. \A n \in Match : InLaunches(n)' => proposalState'[launchProposal'[n]] # "Absent"
    BY <1>4 DEF LaunchesNamed
  <2>3. \A p \in waiting', n \in Match : launchProposal'[n] # p
    <3>1. \A p \in waiting : p # NoProposal
      BY IdAssumption DEF NoProposal
    <3> QED BY <1>2, <3>1 DEF LaunchInv, NoDoubleLaunch
  <2> QED BY <2>1, <2>2, <2>3 DEF NoDoubleLaunch
<1>9. OneHome'
  BY <1>2 DEF LaunchInv, OneHome, NoNewHome
<1>10. LostAgenda'
  BY <1>1, <1>2 DEF LaunchInv, LostAgenda, InLaunches
<1> QED BY <1>1, <1>4, <1>6, <1>7, <1>8, <1>9, <1>10 DEF LaunchInv

\* A proposal that is refused, abandoned or expires.
LEMMA FailKeepsLaunches ==
  ASSUME ProposalTypes, LaunchTypes, LaunchInv, NEW p \in Proposal, NEW r, Fail(p, r),
         UNCHANGED <<registryVars, launchVars, settled, agenda>>
  PROVE  LaunchInv'
<1>1. DecidedStays /\ waiting' \subseteq waiting
  BY DEF Fail, CancelProposal, DecidedStays, Launchable, ProposalTypes
<1>2. NoNewHome /\ LostAgenda'
  BY DEF registryVars, launchVars, NoNewHome, LaunchInv, LostAgenda, InLaunches
<1>3. \A o \in waiting' : \A m \in Match : launchProposal[m] # o
  BY <1>1 DEF LaunchInv, NoDoubleLaunch
<1> QED BY <1>1, <1>2, <1>3, LaunchesStay DEF launchVars

\* What cancelling for want of infrastructure leaves alone.
LEMMA InfrastructureFrame ==
  ASSUME NEW p, CancelForInfrastructure(p)
  PROVE  proposalState' = proposalState /\ waiting' \subseteq waiting
BY DEF CancelForInfrastructure, CancelProposal, proposalVars

\* A launch is given up after its retry failed.
LEMMA GiveUpKeepsLaunches ==
  ASSUME RegistryTypeOK, LaunchTypes, ResultTypes, LaunchInv, waiting \subseteq Proposal,
         NEW m \in Match, InLaunches(m), RetryFails(m),
         CancelForInfrastructure(launchProposal[m]), ForgetLaunch(m), UNCHANGED settled,
         \A i \in agenda' : i.todo = "lost" => i \in agenda /\ i.match # m
  PROVE  LaunchInv'
<1>1. CASE UNCHANGED registryVars
  <2>1. NoNewHome
    BY <1>1 DEF registryVars, NoNewHome
  <2> QED BY <2>1, InfrastructureFrame, ForgetLaunchKeepsLaunches DEF ResultTypes
<1>2. CASE Release(launchServer[m], m)
  <2>1. NoNewHome
    BY <1>2, ReleaseHomes DEF LaunchInv, LaunchesNamed
  <2> QED BY <2>1, InfrastructureFrame, ForgetLaunchKeepsLaunches DEF ResultTypes
<1> QED BY <1>1, <1>2 DEF RetryFails

LEMMA LaunchStep ==
  ASSUME AuthorityTypeOK, ProposalInv, LaunchInv, [Next]_vars
  PROVE  LaunchInv'
<1>0. /\ RegistryTypeOK /\ ProposalTypes /\ LaunchTypes /\ ResultTypes
      /\ waiting \subseteq Proposal
  BY TypeGroups DEF ProposalTypes
<1>1. ASSUME NoNewHome, UNCHANGED <<launchServer, launchProposal, nextMatch, settled>>,
             UNCHANGED <<proposalState, waiting>>,
             \A i \in agenda' : i.todo = "lost" => i \in agenda
      PROVE  LaunchInv'
  <2>1. DecidedStays
    BY <1>1 DEF DecidedStays
  <2>2. LostAgenda'
    BY <1>1, AgendaStays DEF LaunchInv
  <2>3. \A p \in waiting' : \A m \in Match : launchProposal[m] # p
    BY <1>1 DEF LaunchInv, NoDoubleLaunch
  <2> QED BY <1>0, <1>1, <2>1, <2>2, <2>3, LaunchesStay
<1>2. ASSUME UNCHANGED registryVars PROVE NoNewHome
  BY <1>2 DEF registryVars, NoNewHome
<1>3. CASE UNCHANGED <<registryVars, proposalVars, launchVars, resultVars, agenda>>
  BY <1>1, <1>2, <1>3 DEF proposalVars, launchVars, resultVars
<1>4. ASSUME NEW q \in Party, Enqueue(q) \/ CancelQueue(q) PROVE LaunchInv'
  BY <1>3, <1>4 DEF Enqueue, CancelQueue
<1>5. ASSUME NEW pl \in Player, Disconnect(pl) \/ Reconnect(pl) PROVE LaunchInv'
  BY <1>3, <1>5 DEF Disconnect, Reconnect
<1>6. ASSUME NEW pl \in Player, Accept(pl) PROVE LaunchInv'
  BY <1>1, <1>2, <1>6 DEF Accept, launchVars, resultVars
<1>7. ASSUME NEW pl \in Player, Reject(pl) PROVE LaunchInv'
  BY <1>0, <1>7, FailKeepsLaunches DEF Reject, resultVars
<1>8. ASSUME NEW pl \in Player, GraceExpires(pl) PROVE LaunchInv'
  <2>1. playerProposal[pl] # NoProposal => playerProposal[pl] \in Proposal
    BY <1>0 DEF ProposalTypes
  <2>2. UNCHANGED <<registryVars, launchVars, resultVars, agenda>>
    BY <1>8 DEF GraceExpires
  <2>3. ASSUME NEW p \in Proposal, NEW r, Fail(p, r) PROVE LaunchInv'
    BY <1>0, <2>2, <2>3, FailKeepsLaunches DEF resultVars
  <2> QED BY <1>3, <1>8, <2>1, <2>2, <2>3 DEF GraceExpires
<1>9. ASSUME NEW p \in Proposal, ExpireProposal(p) PROVE LaunchInv'
  BY <1>0, <1>9, FailKeepsLaunches DEF ExpireProposal, resultVars
<1>10. ASSUME NEW pl \in Player, LastAccept(pl) PROVE LaunchInv'
  <2>1. PICK p \in Proposal :
          /\ proposalState[p] = "AwaitingAccept"
          /\ proposalState' = [proposalState EXCEPT ![p] = "AwaitingPlacement"]
          /\ \/ (\E s \in Server : LaunchOn(p, s)) /\ UNCHANGED waiting
             \/ waiting' \subseteq waiting \cup {p} /\ UNCHANGED <<registryVars, launchVars>>
    BY <1>10 DEF LastAccept, CanRespond
  <2>2. agenda = {} /\ agenda' = {} /\ settled' = settled
    BY <1>10 DEF LastAccept, resultVars
  <2>3. DecidedStays /\ proposalState'[p] = "AwaitingPlacement"
    BY <1>0, <2>1 DEF DecidedStays, Launchable, ProposalTypes
  <2>4. p \notin waiting
    BY <2>1 DEF ProposalInv
  <2>5. \A m \in Match : launchProposal[m] # p
    <3>1. p # NoProposal
      BY IdAssumption DEF NoProposal
    <3> QED BY <2>1, <3>1 DEF LaunchInv, LaunchesNamed, InLaunches
  <2>6. CASE (\E s \in Server : LaunchOn(p, s)) /\ UNCHANGED waiting
    BY <1>0, <2>2, <2>3, <2>4, <2>5, <2>6, LaunchOnKeepsLaunches
  <2>7. CASE waiting' \subseteq waiting \cup {p} /\ UNCHANGED <<registryVars, launchVars>>
    <3>1. NoNewHome
      BY <1>2, <2>7
    <3>2. LostAgenda'
      BY <2>2 DEF LostAgenda
    <3>3. \A o \in waiting' : \A m \in Match : launchProposal[m] # o
      BY <2>5, <2>7 DEF LaunchInv, NoDoubleLaunch
    <3> QED BY <1>0, <2>2, <2>3, <2>7, <3>1, <3>2, <3>3, LaunchesStay DEF launchVars
  <2> QED BY <2>1, <2>6, <2>7
<1>11. ASSUME NEW S \in Candidate, CommitCandidate(S) PROVE LaunchInv'
  <2>1. UNCHANGED <<registryVars, launchVars, resultVars, waiting, agenda>>
    BY <1>11 DEF CommitCandidate
  <2>2. DecidedStays
    <3>1. /\ nextProposal \in Proposal
          /\ proposalState' = [proposalState EXCEPT ![nextProposal] = "AwaitingAccept"]
      BY <1>11 DEF CommitCandidate
    <3>2. proposalState[nextProposal] = "Absent"
      BY <3>1 DEF ProposalInv
    <3> QED BY <1>0, <3>1, <3>2 DEF DecidedStays, Launchable, ProposalTypes
  <2>3. NoNewHome /\ LostAgenda'
    BY <1>2, <2>1, AgendaStays DEF LaunchInv, launchVars
  <2>4. \A o \in waiting' : \A m \in Match : launchProposal[m] # o
    BY <2>1 DEF LaunchInv, NoDoubleLaunch
  <2> QED BY <1>0, <2>1, <2>2, <2>3, <2>4, LaunchesStay DEF launchVars, resultVars
<1>12. ASSUME NEW p \in Proposal, PlacementTick(p) PROVE LaunchInv'
  <2>1. p \in waiting /\ agenda = {} /\ agenda' = {} /\ settled' = settled
    BY <1>12 DEF PlacementTick, resultVars
  <2>2. /\ proposalState[p] = "AwaitingPlacement"
        /\ \A m \in Match : launchProposal[m] # p
    BY <2>1 DEF ProposalInv, LaunchInv, NoDoubleLaunch
  <2>3. CASE /\ \E s \in Server : LaunchOn(p, s)
             /\ waiting' = waiting \ {p} /\ UNCHANGED proposalState
    <3>1. DecidedStays
      BY <2>3 DEF DecidedStays
    <3> QED BY <1>0, <2>1, <2>2, <2>3, <3>1, LaunchOnKeepsLaunches
  <2>4. CASE CancelForInfrastructure(p) /\ UNCHANGED <<registryVars, launchVars>>
    <3>1. proposalState' = proposalState /\ waiting' \subseteq waiting
      BY <2>4, InfrastructureFrame
    <3>2. NoNewHome /\ DecidedStays /\ LostAgenda'
      BY <1>2, <2>1, <2>4, <3>1 DEF DecidedStays, LostAgenda
    <3>3. \A o \in waiting' : \A m \in Match : launchProposal[m] # o
      BY <3>1 DEF LaunchInv, NoDoubleLaunch
    <3> QED BY <1>0, <2>1, <2>4, <3>2, <3>3, LaunchesStay DEF launchVars
  <2> QED BY <1>12, <2>3, <2>4 DEF PlacementTick
<1>13. ASSUME NEW h \in [Server -> Health], HealthTick(h) PROVE LaunchInv'
  <2>1. NoNewHome
    BY <1>0, <1>13, HealthHomes DEF HealthTick
  <2>2. UNCHANGED <<proposalVars, launchVars, resultVars>>
    BY <1>13 DEF HealthTick
  <2>3. LostAgenda'
    <3> SUFFICES ASSUME NEW i \in agenda', i.todo = "lost"
                 PROVE  /\ InLaunches(i.match)'
                        /\ \A j \in agenda' : j.todo = "lost" /\ j.match = i.match => j = i
      BY DEF LostAgenda
    <3>1. \A k \in agenda' : /\ k \in AgendaItem /\ k.todo = "lost" /\ InLaunches(k.match)
                             /\ inst[k.server][k.match] # "None"
      BY <1>13 DEF HealthTick
    <3>2. InLaunches(i.match)'
      BY <2>2, <3>1 DEF launchVars, InLaunches
    <3>3. ASSUME NEW j \in agenda', j.match = i.match PROVE j = i
      <4>1. /\ i.server \in Server /\ j.server \in Server /\ i.match \in Match
            /\ i = [todo |-> i.todo, server |-> i.server, match |-> i.match]
            /\ j = [todo |-> j.todo, server |-> j.server, match |-> j.match]
        BY <3>1 DEF AgendaItem
      <4>2. i.server = j.server
        BY <3>1, <3>3, <4>1 DEF LaunchInv, OneHome
      <4> QED BY <3>1, <3>3, <4>1, <4>2
    <3> QED BY <3>2, <3>3
  <2>4. DecidedStays
    BY <2>2 DEF proposalVars, DecidedStays
  <2>5. \A o \in waiting' : \A m \in Match : launchProposal[m] # o
    BY <2>2 DEF proposalVars, LaunchInv, NoDoubleLaunch
  <2> QED BY <1>0, <2>1, <2>2, <2>3, <2>4, <2>5, LaunchesStay DEF launchVars, resultVars
<1>14. ASSUME NEW m \in Match, LaunchTimeout(m) PROVE LaunchInv'
  <2>1. InLaunches(m) /\ agenda = {} /\ agenda' = {} /\ settled' = settled
    BY <1>14 DEF LaunchTimeout, resultVars
  <2>2. CASE (\E s \in Server : RetryOn(m, s)) /\ UNCHANGED <<queueVars, proposalVars>>
    BY <1>0, <2>1, <2>2, RetryOnKeepsLaunches DEF proposalVars
  <2>3. CASE RetryFails(m) /\ CancelForInfrastructure(launchProposal[m]) /\ ForgetLaunch(m)
    BY <1>0, <2>1, <2>3, GiveUpKeepsLaunches
  <2> QED BY <1>14, <2>2, <2>3 DEF LaunchTimeout
<1>15. ASSUME NEW item \in agenda, LostRetry(item) PROVE LaunchInv'
  <2>1. PICK m \in Match : m = item.match /\ InLaunches(m)
    BY <1>15 DEF LostRetry, LaunchInv, LostAgenda, AuthorityTypeOK, AgendaItem
  <2>2. agenda' = agenda \ {item} /\ settled' = settled /\ item.todo = "lost"
    BY <1>15 DEF LostRetry, resultVars
  <2>3. \A i \in agenda' : i.todo = "lost" => i \in agenda /\ i.match # m
    BY <2>1, <2>2 DEF LaunchInv, LostAgenda
  <2>4. CASE (\E s \in Server : RetryOn(m, s)) /\ UNCHANGED <<queueVars, proposalVars>>
    BY <1>0, <2>1, <2>2, <2>4, RetryOnKeepsLaunches DEF proposalVars
  <2>5. CASE RetryFails(m) /\ CancelForInfrastructure(launchProposal[m]) /\ ForgetLaunch(m)
    BY <1>0, <2>1, <2>2, <2>3, <2>5, GiveUpKeepsLaunches
  <2> QED BY <1>15, <2>1, <2>4, <2>5 DEF LostRetry
<1>16. ASSUME NEW s \in Server, NEW m \in Match, PublishMatch(s, m), agenda' \subseteq agenda
       PROVE  LaunchInv'
  <2>1. NoNewHome
    BY <1>0, <1>16, ReportHomes DEF PublishMatch
  <2> QED BY <1>1, <1>16, <2>1 DEF PublishMatch, resultVars
<1>17. ASSUME NEW item \in agenda, ReadyFromReconcile(item) PROVE LaunchInv'
  <2>1. item.match \in Match /\ item.server \in Server
    BY DEF AuthorityTypeOK, AgendaItem
  <2>2. agenda' \subseteq agenda
    BY <1>17 DEF ReadyFromReconcile
  <2>3. CASE UNCHANGED <<registryVars, proposalVars, launchVars, resultVars>>
    BY <1>1, <1>2, <2>2, <2>3 DEF proposalVars, launchVars, resultVars
  <2> QED BY <1>16, <1>17, <2>1, <2>2, <2>3 DEF ReadyFromReconcile
<1>18. ASSUME NEW s \in Server, NoEffect(s) \/ HeartbeatMsg(s) PROVE LaunchInv'
  <2>1. inst' = inst /\ agenda' = agenda /\ UNCHANGED <<proposalVars, launchVars, resultVars>>
    BY <1>18 DEF NoEffect, HeartbeatMsg, HeardFrom, Heartbeat, registryVars
  <2>2. NoNewHome
    BY <2>1 DEF NoNewHome
  <2> QED BY <1>1, <2>1, <2>2 DEF proposalVars, launchVars, resultVars
<1>19. ASSUME NEW s \in Server, RegisterServer(s) PROVE LaunchInv'
  BY <1>0, <1>1, <1>19, RegistrationHomes
     DEF RegisterServer, proposalVars, launchVars, resultVars
<1>20. ASSUME NEW s \in Server, ReconcileServer(s) PROVE LaunchInv'
  <2>1. \A i \in agenda' : i.todo = "lost" => i \in agenda
    BY <1>20 DEF ReconcileServer
  <2>2. UNCHANGED <<proposalVars, launchVars, resultVars>>
    BY <1>20 DEF ReconcileServer
  <2> QED BY <1>0, <1>1, <1>20, <2>1, <2>2, ReconcileHomes DEF proposalVars, launchVars, resultVars
<1>21. ASSUME NEW s \in Server, NEW m \in Match, LaunchAccepted(s, m) \/ ServerReport(s, m)
       PROVE  LaunchInv'
  <2>1. NoNewHome
    <3>1. CASE LaunchAccepted(s, m)
      BY <1>0, <3>1, AdvanceHomes DEF LaunchAccepted
    <3>2. CASE ServerReport(s, m)
      BY <1>0, <3>2, ReportHomes DEF ServerReport
    <3> QED BY <1>21, <3>1, <3>2
  <2>2. agenda' = agenda /\ UNCHANGED <<proposalVars, launchVars, resultVars>>
    BY <1>21 DEF LaunchAccepted, ServerReport, HeardFrom
  <2> QED BY <1>1, <2>1, <2>2 DEF proposalVars, launchVars, resultVars
<1>22. ASSUME NEW s \in Server, NEW m \in Match, LaunchReady(s, m) PROVE LaunchInv'
  BY <1>16, <1>22 DEF LaunchReady, HeardFrom
<1>23. ASSUME NEW s \in Server, NEW m \in Match, LaunchFailed(s, m) PROVE LaunchInv'
  <2>1. InLaunches(m) /\ agenda' = agenda /\ UNCHANGED <<proposalVars, resultVars>>
    BY <1>23 DEF LaunchFailed, HeardFrom
  <2>2. ASSUME NEW t \in Server, RetryOn(m, t) PROVE LaunchInv'
    BY <1>0, <2>1, <2>2, RetryOnKeepsLaunches DEF proposalVars, resultVars
  <2>3. CASE RetryFails(m) /\ UNCHANGED launchVars
    <3>1. NoNewHome
      BY <1>0, <1>2, <2>1, <2>3, ReleaseHomes DEF RetryFails, LaunchInv, LaunchesNamed
    <3> QED BY <1>1, <2>1, <2>3, <3>1 DEF proposalVars, launchVars, resultVars
  <2> QED BY <1>23, <2>2, <2>3 DEF LaunchFailed
<1>24. ASSUME NEW s \in Server, NEW m \in Match, FinishMatch(s, m) PROVE LaunchInv'
  <2>1. /\ InLaunches(m) /\ ForgetLaunch(m) /\ agenda = {} /\ agenda' = {}
        /\ waiting' = waiting /\ settled' = [settled EXCEPT ![m] = @ + 1]
        /\ proposalState' = [proposalState EXCEPT ![launchProposal[m]] = "Absent"]
    BY <1>24 DEF FinishMatch, HeardFrom
  <2>2. NoNewHome
    BY <1>0, <1>24, ReleaseHomes DEF FinishMatch
  <2>3. \A p \in Proposal \ {launchProposal[m]} : proposalState'[p] = proposalState[p]
    BY <1>0, <2>1 DEF ProposalTypes
  <2> QED BY <1>0, <2>1, <2>2, <2>3, ForgetLaunchKeepsLaunches DEF ResultTypes
<1>25. CASE UNCHANGED vars
  BY <1>3, <1>25 DEF vars
<1> QED BY <1>4, <1>5, <1>6, <1>7, <1>8, <1>9, <1>10, <1>11, <1>12, <1>13, <1>14, <1>15, <1>17,
           <1>18, <1>19, <1>20, <1>21, <1>22, <1>23, <1>24, <1>25 DEF Next, Command, Tick, Rest

-----------------------------------------------------------------------------
LEMMA InitAuthority == Init => AuthorityInv
<1> SUFFICES ASSUME Init PROVE AuthorityInv
  OBVIOUS
<1>1. RegistryInv /\ RegistryTypeOK
  BY InitLedger DEF Init, RegistryInv
<1>2. QueueTypes /\ ProposalTypes
  BY DEF Init, QueueTypes, ProposalTypes, PartyState, NoTickets
<1>3. LaunchTypes /\ ResultTypes /\ SessionTypes
  BY CompletedCapAssumption DEF Init, LaunchTypes, ResultTypes, SessionTypes
<1>4. ProposalInv
  BY DEF Init, ProposalInv, Saved, NoTickets
<1>5. \A m \in Match : ~InLaunches(m)
  BY DEF Init, InLaunches
<1>6. LaunchInv
  BY <1>5 DEF Init, LaunchInv, LaunchesNamed, UnsettledLaunches, LostAgenda, SettledOnce,
              NoDoubleLaunch, OneHome, RegistryInit, NoInstances
<1> QED BY <1>1, <1>2, <1>3, <1>4, <1>6, TypeGroups DEF AuthorityInv

LEMMA AuthorityStep ==
  ASSUME AuthorityInv, [Next]_vars
  PROVE  AuthorityInv' /\ [RegistryNext]_registryVars
<1>1. /\ RegistryInv /\ AuthorityTypeOK /\ ProposalInv /\ LaunchInv
      /\ OneHome /\ LaunchesNamed /\ LostAgenda
  BY DEF AuthorityInv, LaunchInv
<1>2. [RegistryNext]_registryVars
  BY <1>1, RegistryStep
<1>3. RegistryInv' /\ RegistryTypeOK'
  BY <1>1, <1>2, NextLedger DEF RegistryInv
<1>4. QueueTypes' /\ ProposalTypes' /\ LaunchTypes' /\ ResultTypes' /\ SessionTypes'
  BY <1>1, QueueAndProposalStep, LaunchTypesStep, ResultAndSessionStep
     DEF QueueAndProposalTypes, ResultAndSessionTypes
<1>5. AuthorityTypeOK'
  BY <1>3, <1>4 DEF AuthorityTypeOK, QueueTypes, ProposalTypes, LaunchTypes, ResultTypes,
                    SessionTypes
<1>6. ProposalInv' /\ LaunchInv'
  BY <1>1, ProposalStep, LaunchStep
<1> QED BY <1>2, <1>3, <1>5, <1>6 DEF AuthorityInv

\* The invariant of the authority, for all values of the constants.
THEOREM AuthorityInvariant == Spec => []AuthorityInv
<1>1. AuthorityInv /\ [Next]_vars => AuthorityInv'
  BY AuthorityStep
<1> QED BY <1>1, InitAuthority, PTL DEF Spec

\* Type correctness.
THEOREM AuthorityTypes == Spec => []AuthorityTypeOK
<1>1. AuthorityInv => AuthorityTypeOK
  BY DEF AuthorityInv
<1> QED BY <1>1, AuthorityInvariant, PTL

\* A proposal never has two launches, and never waits for one it has.
THEOREM LaunchIsUnique == Spec => []NoDoubleLaunch
<1>1. AuthorityInv => NoDoubleLaunch
  BY DEF AuthorityInv, LaunchInv
<1> QED BY <1>1, AuthorityInvariant, PTL

\* A match is on one server, the one its launch names.
THEOREM MatchHasOneHome == Spec => []OneHome
<1>1. AuthorityInv => OneHome
  BY DEF AuthorityInv, LaunchInv
<1> QED BY <1>1, AuthorityInvariant, PTL

\* A result is settled once, however small the cache of completed results.
THEOREM ResultIsSettledOnce == Spec => []SettledOnce
<1>1. AuthorityInv => SettledOnce
  BY DEF AuthorityInv, LaunchInv
<1> QED BY <1>1, AuthorityInvariant, PTL

\* The authority implements the registry: each of its steps is one registry
\* operation within the registry's contract, or leaves the registry alone.
THEOREM AuthorityKeepsRegistryContract == Spec => ImplementsRegistry
<1>1. Init => RegistryInit
  BY DEF Init
<1>2. AuthorityInv /\ [Next]_vars => [RegistryNext]_registryVars
  BY AuthorityStep
<1> QED BY <1>1, <1>2, AuthorityInvariant, PTL DEF Spec, ImplementsRegistry

\* What is proved of the registry therefore holds of the authority.
THEOREM AuthorityLedger == Spec => [](LedgerExact /\ LedgerNeverAhead)
<1>1. AuthorityInv => LedgerExact /\ LedgerNeverAhead
  BY DEF AuthorityInv, RegistryInv, LedgerOK, LedgerExact, LedgerNeverAhead
<1> QED BY <1>1, AuthorityInvariant, PTL

-----------------------------------------------------------------------------
\* Reservations: no report of a server ever makes one, launches and retries do.

NoNewReservation ==
  \A s \in Server, m \in Match : inst'[s][m] = "Reserved" => inst[s][m] = "Reserved"

LEMMA ReportReservesNothing ==
  ASSUME NEW a \in InstanceState, ValidReconciledState(a, "Reserved")
  PROVE  a = "Reserved"
<1>1. a # "ServerLost" /\ a # "Finished"
  BY DEF ValidReconciledState
<1>2. a \in {"Reserved", "Accepted", "Ready", "Running"}
  BY <1>1 DEF InstanceState
<1>3. /\ StateRank["Reserved"] = 0 /\ StateRank["Accepted"] = 1
      /\ StateRank["Ready"] = 2 /\ StateRank["Running"] = 3
  BY DEF StateRank, InstanceState
<1>4. a = "Reserved" \/ StateRank["Reserved"] >= StateRank[a]
  BY <1>1 DEF ValidReconciledState
<1> QED BY <1>2, <1>3, <1>4

LEMMA MergeReservesNothing ==
  ASSUME NEW im \in InstanceMap, NEW r \in InstanceMap, Held(r) \subseteq Held(im),
         \A m \in Held(r) : ValidReconciledState(im[m], r[m]),
         NEW m \in Match, Merge(im, r)[m] = "Reserved"
  PROVE  im[m] = "Reserved"
<1>1. CASE r[m] = "None"
  BY <1>1 DEF Merge
<1>2. CASE r[m] # "None"
  <2>1. r[m] = "Reserved" /\ m \in Held(r) /\ m \in Held(im)
    BY <1>2 DEF Merge, Held
  <2>2. im[m] \in InstanceState
    BY <2>1 DEF Held, InstanceMap
  <2> QED BY <2>1, <2>2, ReportReservesNothing
<1> QED BY <1>1, <1>2

LEMMA PartialReservesNothing ==
  ASSUME RegistryTypeOK, NEW s \in Server, NEW r \in InstanceMap, NEW bad \in SUBSET Match,
         ReconcilePartial(s, r, bad)
  PROVE  NoNewReservation
<1>1. PICK first \in Match :
        /\ \A m \in Invalid(inst[s], r, bad) : first <= m
        /\ inst' = [inst EXCEPT ![s] =
                      Merge(inst[s], [m \in Match |-> IF m < first THEN r[m] ELSE "None"])]
  BY DEF ReconcilePartial, Invalid, Held
<1> DEFINE applied == [m \in Match |-> IF m < first THEN r[m] ELSE "None"]
<1>2. applied \in InstanceMap /\ Held(applied) \subseteq Held(inst[s])
  BY DEF InstanceMap, ReconcilePartial, Held
<1>3. ASSUME NEW m \in Held(applied)
      PROVE  ValidReconciledState(inst[s][m], applied[m])
  <2>1. m \in Held(r) /\ m < first /\ applied[m] = r[m]
    BY DEF Held
  <2>2. m \notin Invalid(inst[s], r, bad)
    BY <1>1, <2>1, MatchAssumption DEF Held
  <2> QED BY <2>1, <2>2 DEF Invalid
<1>4. inst' = [inst EXCEPT ![s] = Merge(inst[s], applied)]
  BY <1>1
<1> HIDE DEF applied
<1> QED BY <1>2, <1>3, <1>4, MergeReservesNothing DEF NoNewReservation, RegistryTypeOK

LEMMA CompleteReportReservesNothing ==
  ASSUME RegistryTypeOK, NEW s \in Server, NEW r \in InstanceMap,
         Held(r) \subseteq Held(inst[s]), Invalid(inst[s], r, {}) = {},
         inst' = [inst EXCEPT ![s] = Merge(inst[s], r)]
  PROVE  NoNewReservation
<1>1. \A m \in Held(r) : ValidReconciledState(inst[s][m], r[m])
  BY DEF Invalid
<1> QED BY <1>1, MergeReservesNothing DEF NoNewReservation, RegistryTypeOK

LEMMA RegistrationReservesNothing ==
  ASSUME RegistryTypeOK, NEW s \in Server, RegisterServer(s)
  PROVE  NoNewReservation
<1>1. CASE RegisterSame(s)
  BY <1>1 DEF RegisterSame, NoNewReservation
<1>2. ASSUME NEW g, NEW c, RegisterFirst(s, g, c, NoInstances) PROVE NoNewReservation
  BY <1>2 DEF RegisterFirst, NoInstances, RegistryTypeOK, NoNewReservation
<1>3. ASSUME NEW g, NEW c, NEW r \in InstanceMap, RegisterNewer(s, g, c, r)
      PROVE  NoNewReservation
  BY <1>3, CompleteReportReservesNothing DEF RegisterNewer
<1> QED BY <1>1, <1>2, <1>3 DEF RegisterServer

LEMMA ReconcileReservesNothing ==
  ASSUME RegistryTypeOK, NEW s \in Server, ReconcileServer(s)
  PROVE  NoNewReservation
<1>1. ASSUME NEW r \in InstanceMap, Reconcile(s, r) PROVE NoNewReservation
  BY <1>1, CompleteReportReservesNothing DEF Reconcile
<1> QED BY <1>1, PartialReservesNothing DEF ReconcileServer

LEMMA AdvanceReservesNothing ==
  ASSUME RegistryTypeOK, NEW s \in Server, NEW m \in Match, NEW next, next # "Reserved",
         Advance(s, m, next)
  PROVE  NoNewReservation
BY DEF Advance, RegistryTypeOK, InstanceMap, NoNewReservation

LEMMA ReleaseReservesNothing ==
  ASSUME RegistryTypeOK, NEW s \in Server, NEW m \in Match, Release(s, m)
  PROVE  NoNewReservation
BY DEF Release, RegistryTypeOK, InstanceMap, NoNewReservation

LEMMA HealthReservesNothing ==
  ASSUME RegistryTypeOK, NEW h, UpdateHealth(h)
  PROVE  NoNewReservation
BY DEF UpdateHealth, LoseAll, Live, Held, RegistryTypeOK, InstanceMap, NoNewReservation

LEMMA RetryFailsReservesNothing ==
  ASSUME RegistryTypeOK, LaunchesNamed, NEW m \in Match, InLaunches(m), RetryFails(m)
  PROVE  NoNewReservation
<1>1. CASE UNCHANGED registryVars
  BY <1>1 DEF registryVars, NoNewReservation
<1>2. CASE Release(launchServer[m], m)
  BY <1>2, ReleaseReservesNothing DEF LaunchesNamed
<1> QED BY <1>1, <1>2 DEF RetryFails

\* Of one step: every new reservation is for a proposal all have accepted.
Unanimous ==
  \A s \in Server, m \in Match :
    inst'[s][m] = "Reserved" /\ inst[s][m] # "Reserved" =>
      \E p \in Proposal :
        /\ launchProposal'[m] = p
        /\ proposalState'[p] = "AwaitingPlacement"
        /\ \A pl \in Player : responses'[p][pl] \in {"None", "Accepted"}
        /\ Saved(p)' # {}

LEMMA LaunchOnIsUnanimous ==
  ASSUME RegistryTypeOK, LaunchTypes, NEW p \in Proposal, NEW s \in Server, LaunchOn(p, s),
         proposalState'[p] = "AwaitingPlacement", AllAccepted(responses'[p]),
         UNCHANGED proposalTickets
  PROVE  Unanimous
<1>1. /\ nextMatch \in Match /\ launchProposal' = [launchProposal EXCEPT ![nextMatch] = p]
      /\ inst' = [inst EXCEPT ![s][nextMatch] = "Reserved"]
      /\ Saved(p)' # {}
  BY DEF LaunchOn, Reserve, Saved
<1>2. launchProposal'[nextMatch] = p
  BY <1>1 DEF LaunchTypes
<1>3. \A t \in Server, m \in Match : m # nextMatch => inst'[t][m] = inst[t][m]
  BY <1>1 DEF RegistryTypeOK, InstanceMap
<1>4. \A t \in Server \ {s}, m \in Match : inst'[t][m] = inst[t][m]
  BY <1>1 DEF RegistryTypeOK
<1> QED BY <1>1, <1>2, <1>3, <1>4 DEF Unanimous, AllAccepted

\* A launch whose proposal still owns its tickets has not been cancelled.
LEMMA RetryOnIsUnanimous ==
  ASSUME RegistryTypeOK, LaunchTypes, ProposalInv, LaunchInv, NEW m \in Match, NEW s \in Server,
         InLaunches(m), RetryOn(m, s), UNCHANGED proposalVars
  PROVE  Unanimous
<1>1. PICK p \in Proposal : p = launchProposal[m]
  BY LaunchedProposal
<1>2. Saved(p) # {} /\ launchProposal' = launchProposal
  BY <1>1 DEF RetryOn
<1>3. proposalState[p] = "AwaitingPlacement" /\ AllAccepted(responses[p])
  <2>1. proposalState[p] \in Undecided /\ proposalState[p] \in Launchable
    BY <1>1, <1>2 DEF ProposalInv, LaunchInv, LaunchesNamed, Launchable
  <2> QED BY <2>1 DEF ProposalInv, Undecided, Launchable
<1>4. \A t \in Server, n \in Match : n # m =>
        inst'[t][n] = inst[t][n]
  BY DEF RetryOn, Retry, LaunchInv, LaunchesNamed, RegistryTypeOK, InstanceMap
<1>5. UNCHANGED <<proposalState, responses, proposalTickets>>
  BY DEF proposalVars
<1>6. Saved(p)' # {}
  BY <1>2, <1>5 DEF Saved
<1> QED BY <1>1, <1>2, <1>3, <1>4, <1>5, <1>6 DEF Unanimous, AllAccepted

LEMMA UnanimousStep ==
  ASSUME AuthorityInv, [Next]_vars
  PROVE  Unanimous
<1>0. /\ RegistryTypeOK /\ ProposalTypes /\ LaunchTypes /\ ProposalInv /\ LaunchInv
      /\ LaunchesNamed /\ LostAgenda /\ AuthorityTypeOK
  BY TypeGroups DEF AuthorityInv, LaunchInv
<1>1. NoNewReservation => Unanimous
  BY DEF NoNewReservation, Unanimous
<1>2. CASE UNCHANGED registryVars
  BY <1>1, <1>2 DEF registryVars, NoNewReservation
<1>3. ASSUME NEW q \in Party, Enqueue(q) \/ CancelQueue(q) PROVE Unanimous
  BY <1>2, <1>3 DEF Enqueue, CancelQueue
<1>4. ASSUME NEW pl \in Player,
             Accept(pl) \/ Reject(pl) \/ Disconnect(pl) \/ Reconnect(pl) \/ GraceExpires(pl)
      PROVE  Unanimous
  BY <1>2, <1>4 DEF Accept, Reject, Disconnect, Reconnect, GraceExpires
<1>5. ASSUME NEW pl \in Player, LastAccept(pl) PROVE Unanimous
  <2>1. PICK p \in Proposal :
          /\ AllAccepted(Respond(p, pl, "Accepted"))
          /\ responses' = [responses EXCEPT ![p] = Respond(p, pl, "Accepted")]
          /\ proposalState' = [proposalState EXCEPT ![p] = "AwaitingPlacement"]
          /\ (\E s \in Server : LaunchOn(p, s)) \/ UNCHANGED registryVars
    BY <1>5 DEF LastAccept
  <2>2. proposalState'[p] = "AwaitingPlacement" /\ AllAccepted(responses'[p])
    BY <1>0, <2>1 DEF ProposalTypes
  <2>3. UNCHANGED proposalTickets
    BY <1>5 DEF LastAccept
  <2> QED BY <1>0, <1>2, <2>1, <2>2, <2>3, LaunchOnIsUnanimous
<1>6. ASSUME NEW S \in Candidate, CommitCandidate(S) PROVE Unanimous
  BY <1>2, <1>6 DEF CommitCandidate
<1>7. ASSUME NEW p \in Proposal, ExpireProposal(p) PROVE Unanimous
  BY <1>2, <1>7 DEF ExpireProposal
<1>8. ASSUME NEW p \in Proposal, PlacementTick(p) PROVE Unanimous
  <2>1. CASE /\ \E s \in Server : LaunchOn(p, s)
             /\ UNCHANGED <<proposalState, responses, proposalTickets>>
    <3>1. proposalState'[p] = "AwaitingPlacement" /\ AllAccepted(responses'[p])
      BY <1>0, <1>8, <2>1 DEF PlacementTick, ProposalInv
    <3> QED BY <1>0, <2>1, <3>1, LaunchOnIsUnanimous
  <2> QED BY <1>2, <1>8, <2>1 DEF PlacementTick
<1>9. ASSUME NEW h \in [Server -> Health], HealthTick(h) PROVE Unanimous
  BY <1>0, <1>1, <1>9, HealthReservesNothing DEF HealthTick
<1>10. ASSUME NEW m \in Match, LaunchTimeout(m) PROVE Unanimous
  BY <1>0, <1>1, <1>10, RetryOnIsUnanimous, RetryFailsReservesNothing DEF LaunchTimeout
<1>11. ASSUME NEW item \in agenda, LostRetry(item) PROVE Unanimous
  <2>1. item.match \in Match /\ InLaunches(item.match)
    BY <1>0, <1>11 DEF LostRetry, LostAgenda, AuthorityTypeOK, AgendaItem
  <2> QED BY <1>0, <1>1, <1>11, <2>1, RetryOnIsUnanimous, RetryFailsReservesNothing DEF LostRetry
<1>12. ASSUME NEW s \in Server, NEW m \in Match, PublishMatch(s, m) PROVE Unanimous
  BY <1>0, <1>1, <1>12, AdvanceReservesNothing DEF PublishMatch, Publish
<1>13. ASSUME NEW item \in agenda, ReadyFromReconcile(item) PROVE Unanimous
  <2>1. item.match \in Match /\ item.server \in Server
    BY <1>0 DEF AuthorityTypeOK, AgendaItem
  <2> QED BY <1>2, <1>12, <1>13, <2>1 DEF ReadyFromReconcile
<1>14. ASSUME NEW s \in Server, NoEffect(s) \/ HeartbeatMsg(s) PROVE Unanimous
  <2>1. inst' = inst
    BY <1>14 DEF NoEffect, HeartbeatMsg, Heartbeat, registryVars
  <2> QED BY <1>1, <2>1 DEF NoNewReservation
<1>15. ASSUME NEW s \in Server, RegisterServer(s) \/ ReconcileServer(s) PROVE Unanimous
  BY <1>0, <1>1, <1>15, RegistrationReservesNothing, ReconcileReservesNothing
<1>16. ASSUME NEW s \in Server, NEW m \in Match, LaunchAccepted(s, m) PROVE Unanimous
  BY <1>0, <1>1, <1>16, AdvanceReservesNothing DEF LaunchAccepted
<1>17. ASSUME NEW s \in Server, NEW m \in Match, ServerReport(s, m) PROVE Unanimous
  <2>1. PICK next : next # "Reserved" /\ Advance(s, m, next)
    BY <1>17 DEF ServerReport, Report, ReportStep
  <2> QED BY <1>0, <1>1, <2>1, AdvanceReservesNothing
<1>18. ASSUME NEW s \in Server, NEW m \in Match, LaunchReady(s, m) PROVE Unanimous
  BY <1>12, <1>18 DEF LaunchReady
<1>19. ASSUME NEW s \in Server, NEW m \in Match, LaunchFailed(s, m) PROVE Unanimous
  BY <1>0, <1>1, <1>19, RetryOnIsUnanimous, RetryFailsReservesNothing DEF LaunchFailed
<1>20. ASSUME NEW s \in Server, NEW m \in Match, FinishMatch(s, m) PROVE Unanimous
  BY <1>0, <1>1, <1>20, ReleaseReservesNothing DEF FinishMatch
<1>21. CASE UNCHANGED vars
  BY <1>2, <1>21 DEF vars
<1> QED BY <1>3, <1>4, <1>5, <1>6, <1>7, <1>8, <1>9, <1>10, <1>11, <1>13, <1>14, <1>15, <1>16,
           <1>17, <1>18, <1>19, <1>20, <1>21 DEF Next, Command, Tick, Rest

\* Capacity is reserved, and a launch sent, only for a proposal that every
\* player accepted and that still owns its tickets.
THEOREM LaunchNeedsUnanimity == Spec => LaunchedUnanimously
<1>1. AuthorityInv /\ [Next]_vars => [Unanimous]_vars
  BY UnanimousStep
<1> QED BY <1>1, AuthorityInvariant, PTL DEF Spec, LaunchedUnanimously, Unanimous
=============================================================================
