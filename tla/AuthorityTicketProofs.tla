------------------------- MODULE AuthorityTicketProofs -------------------------
(***************************************************************************)
(* The tickets of the authority, for any number of parties and proposals:  *)
(* each has one owner, one in the queue is claimed by nobody, an innocent  *)
(* party gets its own ticket back, and the tickets move as module          *)
(* TicketLedger says.                                                      *)
(*                                                                         *)
(* Whatever a handler does, it moves tickets in one of five ways (lemma    *)
(* TicketMoves); the invariant and the refinement are proved of those.     *)
(***************************************************************************)
EXTENDS AuthorityProofs

\* Tickets and claims are older than the next identity, and a proposal claims
\* the tickets it will give back, so releasing its claims frees them.
TicketAges ==
  /\ nextTicket \in Nat \ {0}
  /\ \A q \in Party : tickets[q] < nextTicket
  /\ \A p \in Proposal, q \in Party : proposalTickets[p][q] < nextTicket
  /\ \A t \in claims : t < nextTicket

SavedAreClaimed ==
  \A p \in Proposal : \A q \in Saved(p) : proposalTickets[p][q] \in rosterTickets[p]

TicketInv == TicketAges /\ SavedAreClaimed /\ TicketsConserved /\ QueuedTicketIsFree

TicketTypes ==
  /\ tickets \in [Party -> Ticket \cup {NoTicket}]
  /\ claims \in SUBSET Ticket
  /\ rosterTickets \in [Proposal -> SUBSET Ticket]
  /\ proposalTickets \in [Proposal -> [Party -> Ticket \cup {NoTicket}]]

ticketVars == <<tickets, nextTicket, claims, rosterTickets, proposalTickets>>

-----------------------------------------------------------------------------
\* The five ways tickets move.

\* A party draws the next ticket.
Draw(q) ==
  /\ nextTicket \in Ticket
  /\ tickets' = [tickets EXCEPT ![q] = nextTicket]
  /\ nextTicket' = nextTicket + 1
  /\ UNCHANGED <<claims, rosterTickets, proposalTickets>>

\* The parties S, of which at most one has a ticket, leave the queue.
Leave(S) ==
  /\ \A q, r \in S : tickets[q] # NoTicket /\ tickets[r] # NoTicket => q = r
  /\ LeaveQueue(S)
  /\ UNCHANGED <<nextTicket, claims, rosterTickets, proposalTickets>>

\* Proposal p ends; the tickets of the parties `back` return to the queue.
GiveBack(p, back) ==
  /\ back \subseteq Saved(p)
  /\ TakeSaved(p)
  /\ ReleaseClaims(p)
  /\ tickets' = [q \in Party |-> IF q \in back THEN proposalTickets[p][q] ELSE tickets[q]]
  /\ UNCHANGED <<nextTicket, rosterTickets>>

\* The tickets of the parties S move from the queue to proposal p.
Propose(p, S) ==
  /\ Saved(p) = {}
  /\ \A q \in S : tickets[q] # NoTicket
  /\ claims' = claims \cup {tickets[q] : q \in S}
  /\ rosterTickets' = [rosterTickets EXCEPT ![p] = {tickets[q] : q \in S}]
  /\ proposalTickets' = [proposalTickets EXCEPT ![p] =
       [q \in Party |-> IF q \in S THEN tickets[q] ELSE NoTicket]]
  /\ LeaveQueue(S)
  /\ UNCHANGED nextTicket

\* The match of proposal p was played.
Spend(p) ==
  /\ TakeSaved(p)
  /\ rosterTickets' = [rosterTickets EXCEPT ![p] = {}]
  /\ UNCHANGED <<tickets, nextTicket, claims>>

TicketMove ==
  \/ UNCHANGED ticketVars
  \/ \E q \in Party : Draw(q)
  \/ \E S \in SUBSET Party : Leave(S)
  \/ \E p \in Proposal : \E back \in SUBSET Saved(p) : GiveBack(p, back)
  \/ \E p \in Proposal, S \in SUBSET Party : Propose(p, S)
  \/ \E p \in Proposal : Spend(p)

LEMMA CancelGivesBack ==
  ASSUME NEW p \in Proposal, NEW i, NEW r, CancelProposal(p, i, r)
  PROVE  TicketMove
<1> DEFINE notReady == IF i THEN {} ELSE FailedParties(p, r)
           back == Saved(p) \ notReady
<1>1. back \in SUBSET Saved(p)
  OBVIOUS
<1>2. GiveBack(p, back)
  BY DEF CancelProposal, GiveBack
<1> HIDE DEF back
<1> QED BY <1>1, <1>2 DEF TicketMove

LEMMA InfrastructureGivesBack ==
  ASSUME NEW p \in Proposal, CancelForInfrastructure(p)
  PROVE  TicketMove
BY CancelGivesBack DEF CancelForInfrastructure, TicketMove, ticketVars, queueVars, proposalVars

LEMMA TicketMoves ==
  ASSUME AuthorityInv, [Next]_vars
  PROVE  TicketMove
<1>0. LaunchTypes /\ ProposalTypes /\ ProposalInv /\ LostAgenda /\ AuthorityTypeOK
  BY TypeGroups DEF AuthorityInv, LaunchInv
<1>1. CASE UNCHANGED ticketVars
  BY <1>1 DEF TicketMove
<1>2. CASE UNCHANGED <<queueVars, proposalVars>>
  BY <1>1, <1>2 DEF ticketVars, queueVars, proposalVars
<1>3. ASSUME NEW q \in Party, Enqueue(q) PROVE TicketMove
  BY <1>3 DEF Enqueue, Draw, TicketMove, proposalVars
<1>4. ASSUME NEW q \in Party, CancelQueue(q) PROVE TicketMove
  <2>1. Leave({q})
    BY <1>4 DEF CancelQueue, Leave, proposalVars
  <2> QED BY <2>1 DEF TicketMove
<1>5. ASSUME NEW pl \in Player, Reject(pl) PROVE TicketMove
  BY <1>5, CancelGivesBack DEF Reject, Fail
<1>6. ASSUME NEW pl \in Player, Accept(pl) \/ LastAccept(pl) PROVE TicketMove
  BY <1>1, <1>6 DEF Accept, LastAccept, ticketVars, queueVars
<1>7. ASSUME NEW pl \in Player, Disconnect(pl) \/ Reconnect(pl) PROVE TicketMove
  BY <1>2, <1>7 DEF Disconnect, Reconnect
<1>8. ASSUME NEW pl \in Player, GraceExpires(pl) PROVE TicketMove
  <2>1. playerProposal[pl] # NoProposal => playerProposal[pl] \in Proposal
    BY <1>0 DEF ProposalTypes
  <2>2. ASSUME NEW p \in Proposal, NEW r, Fail(p, r) PROVE TicketMove
    BY <2>2, CancelGivesBack DEF Fail
  <2> DEFINE queued == {q \in Party : pl \in MemberOf[q] /\ tickets[q] # NoTicket}
  <2>3. CASE LeaveQueue(queued) /\ UNCHANGED <<nextTicket, proposalVars>>
    <3>1. \A q, r \in queued : q = r
      BY MemberAssumption
    <3>2. Leave(queued)
      BY <2>3, <3>1 DEF Leave, proposalVars
    <3> QED BY <3>2 DEF TicketMove
  <2> QED BY <1>2, <1>8, <2>1, <2>2, <2>3 DEF GraceExpires
<1>9. ASSUME NEW S \in Candidate, CommitCandidate(S) PROVE TicketMove
  <2>1. /\ nextProposal \in Proposal /\ S \in SUBSET Party
        /\ \A q \in S : tickets[q] # NoTicket
    BY <1>9, CandidateAssumption DEF CommitCandidate, Matchable
  <2>2. Saved(nextProposal) = {}
    BY <2>1, <1>0 DEF ProposalInv, Undecided
  <2>3. Propose(nextProposal, S)
    BY <1>9, <2>1, <2>2 DEF CommitCandidate, Propose
  <2> QED BY <2>1, <2>3 DEF TicketMove
<1>10. ASSUME NEW p \in Proposal, ExpireProposal(p) PROVE TicketMove
  BY <1>10, CancelGivesBack DEF ExpireProposal, Fail
<1>11. ASSUME NEW p \in Proposal, PlacementTick(p) PROVE TicketMove
  BY <1>1, <1>11, InfrastructureGivesBack DEF PlacementTick, ticketVars, queueVars
<1>12. ASSUME NEW h \in [Server -> Health], HealthTick(h) PROVE TicketMove
  BY <1>2, <1>12 DEF HealthTick
<1>13. ASSUME NEW m \in Match, LaunchTimeout(m) PROVE TicketMove
  BY <1>0, <1>2, <1>13, LaunchedProposal, InfrastructureGivesBack DEF LaunchTimeout
<1>14. ASSUME NEW item \in agenda, LostRetry(item) PROVE TicketMove
  <2>1. item.match \in Match /\ InLaunches(item.match)
    BY <1>0, <1>14 DEF LostRetry, LostAgenda, AuthorityTypeOK, AgendaItem
  <2> QED BY <1>0, <1>2, <1>14, <2>1, LaunchedProposal, InfrastructureGivesBack DEF LostRetry
<1>15. ASSUME NEW s, NEW m, PublishMatch(s, m) PROVE TicketMove
  BY <1>1, <1>15 DEF PublishMatch, ticketVars
<1>16. ASSUME NEW item \in agenda, ReadyFromReconcile(item) PROVE TicketMove
  BY <1>2, <1>15, <1>16 DEF ReadyFromReconcile
<1>17. ASSUME NEW s \in Server,
              NoEffect(s) \/ HeartbeatMsg(s) \/ RegisterServer(s) \/ ReconcileServer(s)
       PROVE  TicketMove
  BY <1>2, <1>17 DEF NoEffect, HeartbeatMsg, RegisterServer, ReconcileServer
<1>18. ASSUME NEW s \in Server, NEW m \in Match,
              LaunchAccepted(s, m) \/ LaunchReady(s, m) \/ LaunchFailed(s, m) \/ ServerReport(s, m)
       PROVE  TicketMove
  BY <1>2, <1>15, <1>18 DEF LaunchAccepted, LaunchReady, LaunchFailed, ServerReport
<1>19. ASSUME NEW s \in Server, NEW m \in Match, FinishMatch(s, m) PROVE TicketMove
  <2>1. launchProposal[m] \in Proposal /\ Spend(launchProposal[m])
    BY <1>0, <1>19, LaunchedProposal DEF FinishMatch, Spend
  <2> QED BY <2>1 DEF TicketMove
<1>20. CASE UNCHANGED vars
  BY <1>2, <1>20 DEF vars
<1> QED BY <1>3, <1>4, <1>5, <1>6, <1>7, <1>8, <1>9, <1>10, <1>11, <1>12, <1>13, <1>14, <1>16,
           <1>17, <1>18, <1>19, <1>20 DEF Next, Command, Tick, Rest

-----------------------------------------------------------------------------
\* Every move keeps the invariant.

LEMMA TicketTypesHold == AuthorityTypeOK => TicketTypes
BY DEF AuthorityTypeOK, TicketTypes

LEMMA TakenTickets ==
  ASSUME TicketTypes, NEW p \in Proposal, TakeSaved(p)
  PROVE  /\ \A q \in Party : proposalTickets'[p][q] = NoTicket
         /\ \A o \in Proposal \ {p} : proposalTickets'[o] = proposalTickets[o]
BY DEF TicketTypes, TakeSaved, NoTickets

LEMMA IdsAreNaturals ==
  /\ \A t \in Ticket : t \in Nat /\ t # NoTicket
  /\ NoTicket \in Nat
BY IdAssumption DEF NoTicket

LEMMA DrawKeeps ==
  ASSUME TicketTypes, TicketInv, NEW q \in Party, Draw(q)
  PROVE  TicketInv'
<1>1. PICK new \in Ticket : new = nextTicket /\ nextTicket' = new + 1
  BY DEF Draw
<1>2. /\ tickets'[q] = new /\ \A r \in Party \ {q} : tickets'[r] = tickets[r]
      /\ UNCHANGED <<claims, rosterTickets, proposalTickets>>
  BY <1>1 DEF Draw, TicketTypes
<1>3. new \in Nat \ {0} /\ new # NoTicket
  BY <1>1, IdsAreNaturals DEF TicketInv, TicketAges
<1>4. /\ \A r \in Party : tickets[r] < new /\ tickets[r] \in Nat
      /\ \A p \in Proposal, r \in Party :
           proposalTickets[p][r] < new /\ proposalTickets[p][r] \in Nat
      /\ \A t \in claims : t < new /\ t \in Nat
  BY <1>1, IdsAreNaturals DEF TicketInv, TicketAges, TicketTypes
<1>5. TicketAges'
  <2>1. nextTicket' \in Nat \ {0} /\ new < nextTicket'
    BY <1>1, <1>3
  <2>2. \A t \in Nat : t < new => t < nextTicket'
    BY <1>1, <1>3
  <2> QED BY <1>2, <1>4, <2>1, <2>2 DEF TicketAges
<1>6. SavedAreClaimed'
  BY <1>2 DEF TicketInv, SavedAreClaimed, Saved
<1>7. /\ \A r \in Party : tickets[r] # new
      /\ \A p \in Proposal, r \in Party : proposalTickets[p][r] # new
      /\ new \notin claims
  BY <1>3, <1>4
<1>8. TicketsConserved'
  BY <1>2, <1>7 DEF TicketInv, TicketsConserved
<1>9. QueuedTicketIsFree'
  BY <1>2, <1>7 DEF TicketInv, QueuedTicketIsFree
<1> QED BY <1>5, <1>6, <1>8, <1>9 DEF TicketInv

LEMMA LeaveKeeps ==
  ASSUME TicketTypes, TicketInv, NEW S \in SUBSET Party, Leave(S)
  PROVE  TicketInv'
<1>1. /\ \A q \in Party : tickets'[q] \in {tickets[q], NoTicket}
      /\ UNCHANGED <<nextTicket, claims, rosterTickets, proposalTickets>>
  BY DEF Leave, LeaveQueue
<1>2. NoTicket \notin claims /\ NoTicket < nextTicket
  BY IdsAreNaturals DEF TicketTypes, TicketInv, TicketAges, NoTicket
<1>3. TicketAges' /\ SavedAreClaimed'
  BY <1>1, <1>2 DEF TicketInv, TicketAges, SavedAreClaimed, Saved
<1>4. TicketsConserved'
  BY <1>1 DEF TicketInv, TicketsConserved
<1>5. QueuedTicketIsFree'
  BY <1>1, <1>2 DEF TicketInv, QueuedTicketIsFree
<1> QED BY <1>3, <1>4, <1>5 DEF TicketInv

LEMMA GiveBackKeeps ==
  ASSUME TicketTypes, TicketInv, NEW p \in Proposal, NEW back \in SUBSET Saved(p),
         GiveBack(p, back)
  PROVE  TicketInv'
<1>1. /\ \A q \in Party : proposalTickets'[p][q] = NoTicket
      /\ \A o \in Proposal \ {p} : proposalTickets'[o] = proposalTickets[o]
  BY TakenTickets DEF GiveBack
<1>2. /\ \A q \in back : /\ q \in Party /\ tickets'[q] = proposalTickets[p][q]
                         /\ proposalTickets[p][q] # NoTicket
                         /\ proposalTickets[p][q] \in rosterTickets[p]
      /\ \A q \in Party \ back : tickets'[q] = tickets[q]
      /\ claims' = claims \ rosterTickets[p]
      /\ UNCHANGED <<nextTicket, rosterTickets>>
  BY DEF GiveBack, ReleaseClaims, Saved, TicketInv, SavedAreClaimed
<1>3. TicketAges'
  <2>1. NoTicket < nextTicket
    BY DEF TicketInv, TicketAges, NoTicket
  <2> QED BY <1>1, <1>2, <2>1 DEF TicketInv, TicketAges
<1>4. SavedAreClaimed'
  BY <1>1, <1>2 DEF TicketInv, SavedAreClaimed, Saved
<1>5. QueuedTicketIsFree'
  BY <1>2 DEF TicketInv, QueuedTicketIsFree
<1>6. TicketsConserved'
  <2>1. \A q, r \in Party : tickets'[q] # NoTicket /\ q # r => tickets'[r] # tickets'[q]
    BY <1>2 DEF TicketInv, TicketsConserved
  <2>2. \A q, r \in Party, o \in Proposal :
          tickets'[q] # NoTicket => proposalTickets'[o][r] # tickets'[q]
    BY <1>1, <1>2 DEF TicketInv, TicketsConserved
  <2>3. \A o, u \in Proposal, q, r \in Party :
          proposalTickets'[o][q] # NoTicket /\ proposalTickets'[o][q] = proposalTickets'[u][r]
            => o = u /\ q = r
    BY <1>1 DEF TicketInv, TicketsConserved
  <2> QED BY <2>1, <2>2, <2>3 DEF TicketsConserved
<1> QED BY <1>3, <1>4, <1>5, <1>6 DEF TicketInv

LEMMA ProposeKeeps ==
  ASSUME TicketTypes, TicketInv, NEW p \in Proposal, NEW S \in SUBSET Party, Propose(p, S)
  PROVE  TicketInv'
<1> DEFINE ids == {tickets[q] : q \in S}
<1>1. /\ claims' = claims \cup ids
      /\ rosterTickets'[p] = ids
      /\ \A o \in Proposal \ {p} : rosterTickets'[o] = rosterTickets[o]
      /\ nextTicket' = nextTicket
  BY DEF Propose, TicketTypes
<1>2. /\ \A q \in S : proposalTickets'[p][q] = tickets[q] /\ tickets[q] # NoTicket
      /\ \A q \in Party \ S : proposalTickets'[p][q] = NoTicket
      /\ \A o \in Proposal \ {p} : proposalTickets'[o] = proposalTickets[o]
  BY DEF Propose, TicketTypes
<1>3. /\ \A q \in S : tickets'[q] = NoTicket
      /\ \A q \in Party \ S : tickets'[q] = tickets[q]
  BY DEF Propose, LeaveQueue
<1>4. NoTicket < nextTicket /\ NoTicket \notin claims
  BY IdsAreNaturals DEF TicketInv, TicketAges, NoTicket, TicketTypes
<1>5. \A t \in ids : \E q \in S : t = tickets[q]
  OBVIOUS
<1>6. \A q \in S : tickets[q] \in ids
  OBVIOUS
<1> HIDE DEF ids
<1>7. TicketAges'
  BY <1>1, <1>2, <1>3, <1>4, <1>5 DEF TicketInv, TicketAges
<1>8. SavedAreClaimed'
  BY <1>1, <1>2, <1>6 DEF TicketInv, SavedAreClaimed, Saved
<1>9. QueuedTicketIsFree'
  <2> SUFFICES ASSUME NEW q \in Party PROVE tickets'[q] \notin claims'
    BY DEF QueuedTicketIsFree
  <2>1. CASE q \in S
    BY <1>1, <1>2, <1>3, <1>4, <1>5, <2>1
  <2>2. CASE q \notin S
    <3>1. tickets'[q] = tickets[q] /\ tickets[q] \notin claims
      BY <1>3, <2>2 DEF TicketInv, QueuedTicketIsFree
    <3>2. \A r \in S : tickets[r] # tickets[q]
      BY <1>2, <2>2 DEF TicketInv, TicketsConserved
    <3> QED BY <1>1, <1>5, <3>1, <3>2
  <2> QED BY <2>1, <2>2
<1>10. TicketsConserved'
  <2>1. \A q, r \in Party : tickets'[q] # NoTicket /\ q # r => tickets'[r] # tickets'[q]
    BY <1>3 DEF TicketInv, TicketsConserved
  <2>2. \A q, r \in Party, o \in Proposal :
          tickets'[q] # NoTicket => proposalTickets'[o][r] # tickets'[q]
    BY <1>2, <1>3 DEF TicketInv, TicketsConserved
  <2>3. \A o, u \in Proposal, q, r \in Party :
          proposalTickets'[o][q] # NoTicket /\ proposalTickets'[o][q] = proposalTickets'[u][r]
            => o = u /\ q = r
    BY <1>2 DEF TicketInv, TicketsConserved
  <2> QED BY <2>1, <2>2, <2>3 DEF TicketsConserved
<1> QED BY <1>7, <1>8, <1>9, <1>10 DEF TicketInv

LEMMA SpendKeeps ==
  ASSUME TicketTypes, TicketInv, NEW p \in Proposal, Spend(p)
  PROVE  TicketInv'
<1>1. /\ \A q \in Party : proposalTickets'[p][q] = NoTicket
      /\ \A o \in Proposal \ {p} : proposalTickets'[o] = proposalTickets[o]
      /\ \A o \in Proposal \ {p} : rosterTickets'[o] = rosterTickets[o]
      /\ UNCHANGED <<tickets, nextTicket, claims>>
  BY TakenTickets DEF Spend, TicketTypes
<1>2. NoTicket < nextTicket
  BY DEF TicketInv, TicketAges, NoTicket
<1>3. TicketAges'
  BY <1>1, <1>2 DEF TicketInv, TicketAges
<1>4. SavedAreClaimed'
  BY <1>1 DEF TicketInv, SavedAreClaimed, Saved
<1>5. TicketsConserved' /\ QueuedTicketIsFree'
  BY <1>1 DEF TicketInv, TicketsConserved, QueuedTicketIsFree
<1> QED BY <1>3, <1>4, <1>5 DEF TicketInv

LEMMA TicketStep ==
  ASSUME AuthorityInv, TicketInv, [Next]_vars
  PROVE  TicketInv'
<1>1. TicketTypes
  BY TicketTypesHold DEF AuthorityInv
<1>2. CASE UNCHANGED ticketVars
  BY <1>2 DEF ticketVars, TicketInv, TicketAges, SavedAreClaimed, Saved, TicketsConserved,
              QueuedTicketIsFree
<1> QED BY <1>1, <1>2, TicketMoves, DrawKeeps, LeaveKeeps, GiveBackKeeps, ProposeKeeps, SpendKeeps
        DEF TicketMove

LEMMA InitTickets == Init => TicketInv
BY IdsAreNaturals DEF Init, TicketInv, TicketAges, SavedAreClaimed, Saved, TicketsConserved,
   QueuedTicketIsFree, NoTickets, NoTicket

TicketsInv == AuthorityInv /\ TicketInv

\* Together with the authority's own invariant, the tickets' holds in every
\* reachable state: commit_candidate, cancel_proposal and the end of a match
\* keep tickets, claims and saved tickets in step.
THEOREM TicketInvariant == Spec => []TicketsInv
<1>1. Init => TicketsInv
  BY InitAuthority, InitTickets DEF TicketsInv
<1>2. TicketsInv /\ [Next]_vars => TicketsInv'
  BY AuthorityStep, TicketStep DEF TicketsInv
<1> QED BY <1>1, <1>2, PTL DEF Spec

\* A ticket has one owner: a place in the queue or one proposal.
THEOREM TicketHasOneOwner == Spec => []TicketsConserved
<1>1. TicketsInv => TicketsConserved
  BY DEF TicketsInv, TicketInv
<1> QED BY <1>1, TicketInvariant, PTL

\* No ticket in the queue is claimed, so none is skipped for ever.
THEOREM QueueIsUnclaimed == Spec => []QueuedTicketIsFree
<1>1. TicketsInv => QueuedTicketIsFree
  BY DEF TicketsInv, TicketInv
<1> QED BY <1>1, TicketInvariant, PTL

-----------------------------------------------------------------------------
\* What a party gets back.

\* Of one step: a ticket a proposal gives up was played, goes back to its
\* party, or belongs to a party of which a member failed.
Innocent ==
  \A p \in Proposal : \A q \in Saved(p) :
    proposalTickets'[p][q] = NoTicket =>
      \/ proposalState'[p] = "Absent"
      \/ partyState'[q] = "Queued" /\ tickets'[q] = proposalTickets[p][q]
      \/ /\ partyState'[q] = "NotReady"
         /\ \E pl \in MemberOf[q] : responses'[p][pl] \in Failure

LEMMA CancelIsInnocent ==
  ASSUME TicketTypes, NEW o \in Proposal, NEW i \in BOOLEAN, NEW r, CancelProposal(o, i, r),
         ~i => responses'[o] = r
  PROVE  Innocent
<1> SUFFICES ASSUME NEW p \in Proposal, NEW q \in Saved(p), proposalTickets'[p][q] = NoTicket
             PROVE  \/ partyState'[q] = "Queued" /\ tickets'[q] = proposalTickets[p][q]
                    \/ /\ partyState'[q] = "NotReady"
                       /\ \E pl \in MemberOf[q] : responses'[p][pl] \in Failure
  BY DEF Innocent
<1>1. p = o /\ q \in Party
  <2>1. q \in Party /\ proposalTickets[p][q] # NoTicket
    BY DEF Saved
  <2> QED BY <2>1, TakenTickets DEF CancelProposal
<1>2. CASE ~i /\ q \in FailedParties(o, r)
  BY <1>1, <1>2 DEF CancelProposal, FailedParties
<1>3. CASE i \/ q \notin FailedParties(o, r)
  BY <1>1, <1>3 DEF CancelProposal
<1> QED BY <1>2, <1>3

LEMMA FailIsInnocent ==
  ASSUME ProposalTypes, TicketTypes, NEW p \in Proposal, NEW r, Fail(p, r)
  PROVE  Innocent
<1>1. responses'[p] = r
  BY DEF Fail, ProposalTypes
<1> QED BY <1>1, CancelIsInnocent DEF Fail

LEMMA NothingGivenUp ==
  ASSUME \A p \in Proposal : \A q \in Saved(p) : proposalTickets'[p][q] # NoTicket
  PROVE  Innocent
BY DEF Innocent

LEMMA InfrastructureIsInnocent ==
  ASSUME TicketTypes, NEW p \in Proposal, CancelForInfrastructure(p)
  PROVE  Innocent
BY CancelIsInnocent, NothingGivenUp DEF CancelForInfrastructure, proposalVars, Saved

LEMMA InnocentStep ==
  ASSUME AuthorityInv, [Next]_vars
  PROVE  Innocent
<1>0. /\ LaunchTypes /\ ProposalTypes /\ ProposalInv /\ LostAgenda /\ AuthorityTypeOK
      /\ TicketTypes
  BY TypeGroups, TicketTypesHold DEF AuthorityInv, LaunchInv
<1>1. CASE UNCHANGED proposalTickets
  BY <1>1, NothingGivenUp DEF Saved
<1>2. CASE UNCHANGED proposalVars
  BY <1>1, <1>2 DEF proposalVars
<1>3. ASSUME NEW q \in Party, Enqueue(q) \/ CancelQueue(q) PROVE Innocent
  BY <1>2, <1>3 DEF Enqueue, CancelQueue
<1>4. ASSUME NEW pl \in Player, Reject(pl) PROVE Innocent
  BY <1>0, <1>4, FailIsInnocent DEF Reject
<1>5. ASSUME NEW pl \in Player,
             Accept(pl) \/ LastAccept(pl) \/ Disconnect(pl) \/ Reconnect(pl)
      PROVE  Innocent
  BY <1>1, <1>2, <1>5 DEF Accept, LastAccept, Disconnect, Reconnect
<1>6. ASSUME NEW pl \in Player, GraceExpires(pl) PROVE Innocent
  <2>1. playerProposal[pl] # NoProposal => playerProposal[pl] \in Proposal
    BY <1>0 DEF ProposalTypes
  <2>2. ASSUME NEW p \in Proposal, NEW r, Fail(p, r) PROVE Innocent
    BY <1>0, <2>2, FailIsInnocent
  <2> QED BY <1>2, <1>6, <2>1, <2>2 DEF GraceExpires
<1>7. ASSUME NEW S \in Candidate, CommitCandidate(S) PROVE Innocent
  <2>1. PICK p \in Proposal : p = nextProposal
    BY <1>7 DEF CommitCandidate
  <2>2. Saved(p) = {}
    BY <1>0, <2>1 DEF ProposalInv, Undecided
  <2>3. \A o \in Proposal \ {p} : proposalTickets'[o] = proposalTickets[o]
    BY <1>0, <1>7, <2>1 DEF CommitCandidate, TicketTypes
  <2> QED BY <2>2, <2>3, NothingGivenUp DEF Saved
<1>8. ASSUME NEW p \in Proposal, ExpireProposal(p) PROVE Innocent
  BY <1>0, <1>8, FailIsInnocent DEF ExpireProposal
<1>9. ASSUME NEW p \in Proposal, PlacementTick(p) PROVE Innocent
  BY <1>0, <1>1, <1>9, InfrastructureIsInnocent DEF PlacementTick
<1>10. ASSUME NEW h \in [Server -> Health], HealthTick(h) PROVE Innocent
  BY <1>2, <1>10 DEF HealthTick
<1>11. ASSUME NEW m \in Match, LaunchTimeout(m) PROVE Innocent
  BY <1>0, <1>2, <1>11, LaunchedProposal, InfrastructureIsInnocent DEF LaunchTimeout
<1>12. ASSUME NEW item \in agenda, LostRetry(item) PROVE Innocent
  <2>1. item.match \in Match /\ InLaunches(item.match)
    BY <1>0, <1>12 DEF LostRetry, LostAgenda, AuthorityTypeOK, AgendaItem
  <2> QED BY <1>0, <1>2, <1>12, <2>1, LaunchedProposal, InfrastructureIsInnocent DEF LostRetry
<1>13. ASSUME NEW s, NEW m, PublishMatch(s, m) PROVE Innocent
  BY <1>1, <1>13 DEF PublishMatch
<1>14. ASSUME NEW item \in agenda, ReadyFromReconcile(item) PROVE Innocent
  BY <1>2, <1>13, <1>14 DEF ReadyFromReconcile
<1>15. ASSUME NEW s \in Server,
              NoEffect(s) \/ HeartbeatMsg(s) \/ RegisterServer(s) \/ ReconcileServer(s)
       PROVE  Innocent
  BY <1>2, <1>15 DEF NoEffect, HeartbeatMsg, RegisterServer, ReconcileServer
<1>16. ASSUME NEW s \in Server, NEW m \in Match,
              LaunchAccepted(s, m) \/ LaunchReady(s, m) \/ LaunchFailed(s, m) \/ ServerReport(s, m)
       PROVE  Innocent
  BY <1>2, <1>13, <1>16 DEF LaunchAccepted, LaunchReady, LaunchFailed, ServerReport
<1>17. ASSUME NEW s \in Server, NEW m \in Match, FinishMatch(s, m) PROVE Innocent
  <2>1. PICK p \in Proposal : p = launchProposal[m]
    BY <1>0, <1>17, LaunchedProposal DEF FinishMatch
  <2>2. proposalState'[p] = "Absent"
    BY <1>0, <1>17, <2>1 DEF FinishMatch, ProposalTypes
  <2>3. \A o \in Proposal \ {p} : proposalTickets'[o] = proposalTickets[o]
    BY <1>0, <1>17, <2>1, TakenTickets DEF FinishMatch
  <2> QED BY <2>2, <2>3 DEF Innocent, Saved
<1>18. CASE UNCHANGED vars
  BY <1>2, <1>18 DEF vars
<1> QED BY <1>3, <1>4, <1>5, <1>6, <1>7, <1>8, <1>9, <1>10, <1>11, <1>12, <1>14, <1>15, <1>16,
           <1>17, <1>18 DEF Next, Command, Tick, Rest

\* A party whose proposal fails gets its own ticket back, hence its place in
\* the queue, unless one of its members failed or the match was played.
THEOREM InnocentPartiesRequeue == Spec => InnocentRequeued
<1>1. AuthorityInv /\ [Next]_vars => [Innocent]_vars
  BY InnocentStep
<1> QED BY <1>1, AuthorityInvariant, PTL DEF Spec, InnocentRequeued, Innocent

-----------------------------------------------------------------------------
\* The tickets move as module TicketLedger says.

\* The step of the ledger behind one step of the authority.
LedgerStep == Ledger!Next \/ UNCHANGED <<nextTicket, QueuedTickets, HeldTickets>>

\* The cardinality the instance of TicketLedger speaks of.
LEMMA SameCardinality == \A S : Ledger!Cardinality(S) = Cardinality(S)
BY DEF Ledger!Cardinality, Cardinality, Ledger!IsFiniteSet, IsFiniteSet

\* Finite sets of tickets: all are older than the next one.
LEMMA FiniteTickets ==
  ASSUME TicketTypes, TicketAges
  PROVE  /\ IsFiniteSet(QueuedTickets)
         /\ \A p \in Proposal : IsFiniteSet(TicketsOf(p))
<1> DEFINE n == nextTicket
<1>1. n \in Nat
  BY DEF TicketAges
<1>2. QueuedTickets \subseteq Nat /\ \A t \in QueuedTickets : t <= n
  BY <1>1, IdsAreNaturals DEF TicketTypes, TicketAges, QueuedTickets
<1>3. ASSUME NEW p \in Proposal
      PROVE  TicketsOf(p) \subseteq Nat /\ \A t \in TicketsOf(p) : t <= n
  BY <1>1, IdsAreNaturals DEF TicketTypes, TicketAges, TicketsOf, Saved
<1> HIDE DEF n
<1>4. IsFiniteSet(QueuedTickets)
  BY <1>1, <1>2, FS_BoundedSetOfNaturals
<1>5. \A p \in Proposal : IsFiniteSet(TicketsOf(p))
  BY <1>1, <1>3, FS_BoundedSetOfNaturals
<1> QED BY <1>4, <1>5

\* The tickets in the queue of parties that give theirs up are not others'.
LEMMA QueueWithout ==
  ASSUME TicketsConserved, NEW S \in SUBSET Party, LeaveQueue(S)
  PROVE  QueuedTickets' = QueuedTickets \ {tickets[q] : q \in S}
<1>1. /\ \A q \in S : tickets'[q] = NoTicket
      /\ \A q \in Party \ S : tickets'[q] = tickets[q]
  BY DEF LeaveQueue
<1>2. \A q \in Party \ S : tickets[q] # NoTicket => tickets[q] \notin {tickets[r] : r \in S}
  BY DEF TicketsConserved
<1>3. QueuedTickets' = {tickets'[q] : q \in Party} \ {NoTicket}
  BY DEF QueuedTickets
<1> QED BY <1>1, <1>2, <1>3 DEF QueuedTickets

\* A proposal that loses its tickets leaves the held sets, which are disjoint.
LEMMA HeldWithout ==
  ASSUME TicketTypes, TicketsConserved, NEW p \in Proposal, TakeSaved(p), Saved(p) # {}
  PROVE  TicketsOf(p) \in HeldTickets /\ HeldTickets' = HeldTickets \ {TicketsOf(p)}
<1>1. /\ \A q \in Party : proposalTickets'[p][q] = NoTicket
      /\ \A o \in Proposal \ {p} : proposalTickets'[o] = proposalTickets[o]
  BY TakenTickets
<1>2. /\ Saved(p)' = {}
      /\ \A o \in Proposal \ {p} : Saved(o)' = Saved(o) /\ TicketsOf(o)' = TicketsOf(o)
  BY <1>1 DEF Saved, TicketsOf
<1>3. \A o \in Proposal \ {p} : Saved(o) # {} => TicketsOf(o) # TicketsOf(p)
  <2> SUFFICES ASSUME NEW o \in Proposal \ {p}, NEW q \in Saved(o), TicketsOf(o) = TicketsOf(p)
               PROVE  FALSE
    OBVIOUS
  <2>1. proposalTickets[o][q] \in TicketsOf(p)
    BY DEF TicketsOf
  <2>2. PICK r \in Saved(p) : proposalTickets[o][q] = proposalTickets[p][r]
    BY <2>1 DEF TicketsOf
  <2> QED BY <2>2 DEF Saved, TicketsConserved
<1> HIDE DEF TicketsOf
<1>4. HeldTickets' = {TicketsOf(o)' : o \in {u \in Proposal : Saved(u)' # {}}}
  BY DEF HeldTickets
<1>5. TicketsOf(p) \in HeldTickets
  BY DEF HeldTickets
<1>6. ASSUME NEW S PROVE S \in HeldTickets' <=> S \in HeldTickets /\ S # TicketsOf(p)
  BY <1>2, <1>3, <1>4 DEF HeldTickets
<1> QED BY <1>5, <1>6

\* Nothing changes for the ledger when a proposal has no tickets to lose.
LEMMA NothingHeld ==
  ASSUME TicketTypes, NEW p \in Proposal, TakeSaved(p), Saved(p) = {}
  PROVE  HeldTickets' = HeldTickets
<1>1. \A o \in Proposal, q \in Party : proposalTickets'[o][q] = proposalTickets[o][q]
  <2>1. \A q \in Party : proposalTickets[p][q] = NoTicket
    BY DEF Saved
  <2>2. \A q \in Party : proposalTickets'[p][q] = proposalTickets[p][q]
    BY <2>1, TakenTickets
  <2>3. \A o \in Proposal \ {p} : proposalTickets'[o] = proposalTickets[o]
    BY TakenTickets
  <2> QED BY <2>2, <2>3
<1>2. \A o \in Proposal : Saved(o)' = Saved(o) /\ TicketsOf(o)' = TicketsOf(o)
  BY <1>1 DEF Saved, TicketsOf
<1> HIDE DEF TicketsOf
<1> QED BY <1>2 DEF HeldTickets

LEMMA DrawIsIssue ==
  ASSUME TicketTypes, TicketInv, NEW q \in Party, Draw(q)
  PROVE  Ledger!Issue
<1> DEFINE out == {tickets[q]} \ {NoTicket}
<1>1. nextTicket \in Ticket /\ nextTicket' = nextTicket + 1
  BY DEF Draw
<1>2. out \in SUBSET QueuedTickets
  BY DEF QueuedTickets
<1>3. Cardinality(out) <= 1
  <2>1. out = {} \/ out = {tickets[q]}
    OBVIOUS
  <2>2. Cardinality(out) = 0 \/ Cardinality(out) = 1
    BY <2>1, FS_EmptySet, FS_Singleton
  <2> QED BY <2>2
<1>4. QueuedTickets' = (QueuedTickets \ out) \cup {nextTicket}
  <2>1. tickets'[q] = nextTicket /\ \A r \in Party \ {q} : tickets'[r] = tickets[r]
    BY DEF Draw, TicketTypes
  <2>2. nextTicket # NoTicket
    BY <1>1, IdsAreNaturals
  <2>3. \A r \in Party \ {q} : tickets[r] # NoTicket => tickets[r] # tickets[q]
    BY DEF TicketInv, TicketsConserved
  <2>4. QueuedTickets' = {tickets'[r] : r \in Party} \ {NoTicket}
    BY DEF QueuedTickets
  <2> QED BY <2>1, <2>2, <2>3, <2>4 DEF QueuedTickets
<1>5. HeldTickets' = HeldTickets
  BY DEF Draw, HeldTickets, TicketsOf, Saved
<1> HIDE DEF out
<1> QED BY <1>1, <1>2, <1>3, <1>4, <1>5, SameCardinality DEF Ledger!Issue

LEMMA LeaveIsWithdraw ==
  ASSUME TicketInv, NEW S \in SUBSET Party, Leave(S)
  PROVE  LedgerStep
<1>1. QueuedTickets' = QueuedTickets \ {tickets[q] : q \in S}
  BY QueueWithout DEF Leave, TicketInv
<1>2. nextTicket' = nextTicket /\ HeldTickets' = HeldTickets
  BY DEF Leave, HeldTickets, TicketsOf, Saved
<1>3. CASE \E q \in S : tickets[q] # NoTicket
  <2>1. PICK q \in S : tickets[q] # NoTicket
    BY <1>3
  <2>2. tickets[q] \in QueuedTickets
    BY <2>1 DEF QueuedTickets
  <2>3. \A r \in S : tickets[r] \in {tickets[q], NoTicket}
    BY <2>1 DEF Leave
  <2>4. QueuedTickets' = QueuedTickets \ {tickets[q]}
    BY <1>1, <2>3 DEF QueuedTickets
  <2> QED BY <1>2, <2>2, <2>4 DEF LedgerStep, Ledger!Next, Ledger!Withdraw
<1>4. CASE \A q \in S : tickets[q] = NoTicket
  <2>1. QueuedTickets' = QueuedTickets
    BY <1>1, <1>4 DEF QueuedTickets
  <2> QED BY <1>2, <2>1 DEF LedgerStep
<1> QED BY <1>3, <1>4

\* The tickets that come back are at least as many as those they displace:
\* each displaced one belongs to a party of `back`.
LEMMA DisplacedAreFew ==
  ASSUME TicketTypes, TicketInv, NEW p \in Proposal, NEW back \in SUBSET Saved(p)
  PROVE  Cardinality({tickets[q] : q \in back} \ {NoTicket})
           <= Cardinality({proposalTickets[p][q] : q \in back})
<1> DEFINE out == {tickets[q] : q \in back} \ {NoTicket}
           home == {proposalTickets[p][q] : q \in back}
           owner(t) == CHOOSE q \in back : tickets[q] = t
           f == [t \in out |-> proposalTickets[p][owner(t)]]
<1>1. \A t \in out : owner(t) \in back /\ tickets[owner(t)] = t
  OBVIOUS
<1>2. back \subseteq Party /\ \A q \in back : proposalTickets[p][q] # NoTicket
  BY DEF Saved
<1> HIDE DEF owner
<1>3. f \in [out -> home]
  BY <1>1
<1>4. \A t, u \in out : f[t] = f[u] => t = u
  <2> SUFFICES ASSUME NEW t \in out, NEW u \in out, f[t] = f[u] PROVE t = u
    OBVIOUS
  <2>1. proposalTickets[p][owner(t)] = proposalTickets[p][owner(u)]
    OBVIOUS
  <2>2. owner(t) = owner(u)
    BY <1>1, <1>2, <2>1 DEF TicketInv, TicketsConserved
  <2> QED BY <1>1, <2>2
<1>5. IsFiniteSet(QueuedTickets) /\ IsFiniteSet(TicketsOf(p))
  BY FiniteTickets DEF TicketInv
<1>6. out \subseteq QueuedTickets /\ home \subseteq TicketsOf(p)
  BY <1>2 DEF QueuedTickets, TicketsOf
<1> HIDE DEF out, home, f
<1>7. IsFiniteSet(out) /\ IsFiniteSet(home)
  BY <1>5, <1>6, FS_Subset
<1>8. Cardinality(out) \in Nat /\ Cardinality(home) \in Nat
  BY <1>7, FS_CardinalityType
<1>9. ~(Cardinality(home) < Cardinality(out))
  BY <1>3, <1>4, <1>7, FS_PigeonHole
<1>10. Cardinality(out) <= Cardinality(home)
  BY <1>8, <1>9
<1> QED BY <1>10 DEF out, home

LEMMA GiveBackIsSettle ==
  ASSUME TicketTypes, TicketInv, NEW p \in Proposal, NEW back \in SUBSET Saved(p),
         GiveBack(p, back)
  PROVE  LedgerStep
<1> DEFINE out == {tickets[q] : q \in back} \ {NoTicket}
           home == {proposalTickets[p][q] : q \in back}
<1>1. nextTicket' = nextTicket /\ TakeSaved(p)
  BY DEF GiveBack
<1>2. QueuedTickets' = (QueuedTickets \ out) \cup home
  <2>1. /\ \A q \in back : q \in Party /\ tickets'[q] = proposalTickets[p][q]
                           /\ proposalTickets[p][q] # NoTicket
        /\ \A q \in Party \ back : tickets'[q] = tickets[q]
    BY DEF GiveBack, Saved
  <2>2. \A q \in Party \ back : tickets[q] # NoTicket => tickets[q] \notin out
    BY <2>1 DEF TicketInv, TicketsConserved
  <2>3. \A t \in home : \E q \in back : t = proposalTickets[p][q]
    OBVIOUS
  <2>4. \A q \in back : proposalTickets[p][q] \in home
    OBVIOUS
  <2>5. \A q \in back : tickets[q] # NoTicket => tickets[q] \in out
    OBVIOUS
  <2>6. QueuedTickets' = {tickets'[q] : q \in Party} \ {NoTicket}
    BY DEF QueuedTickets
  <2>7. QueuedTickets = {tickets[q] : q \in Party} \ {NoTicket}
    BY DEF QueuedTickets
  <2> HIDE DEF out, home
  <2>8. ASSUME NEW t \in QueuedTickets' PROVE t \in (QueuedTickets \ out) \cup home
    <3>1. PICK q \in Party : t = tickets'[q] /\ t # NoTicket
      BY <2>6
    <3> QED BY <2>1, <2>2, <2>4, <2>7, <3>1
  <2>9. ASSUME NEW t \in (QueuedTickets \ out) \cup home PROVE t \in QueuedTickets'
    <3>1. CASE t \in home
      BY <2>1, <2>3, <2>6, <3>1
    <3>2. CASE t \in QueuedTickets \ out
      BY <2>1, <2>5, <2>6, <2>7, <3>2
    <3> QED BY <3>1, <3>2
  <2> QED BY <2>8, <2>9
<1>3. CASE Saved(p) = {}
  <2>1. HeldTickets' = HeldTickets
    BY <1>1, <1>3, NothingHeld
  <2>2. out = {} /\ home = {}
    BY <1>3
  <2> QED BY <1>1, <1>2, <2>1, <2>2 DEF LedgerStep
<1>4. CASE Saved(p) # {}
  <2>1. TicketsOf(p) \in HeldTickets /\ HeldTickets' = HeldTickets \ {TicketsOf(p)}
    BY <1>1, <1>4, HeldWithout DEF TicketInv
  <2>2. out \in SUBSET QueuedTickets /\ home \in SUBSET TicketsOf(p)
    BY DEF QueuedTickets, TicketsOf, Saved
  <2>3. Cardinality(out) <= Cardinality(home)
    BY DisplacedAreFew
  <2> HIDE DEF out, home
  <2>4. Ledger!Settle
    BY <1>1, <1>2, <2>1, <2>2, <2>3, SameCardinality DEF Ledger!Settle
  <2> QED BY <2>4 DEF LedgerStep, Ledger!Next
<1> QED BY <1>3, <1>4

LEMMA ProposeIsClaim ==
  ASSUME TicketTypes, TicketInv, NEW p \in Proposal, NEW S \in SUBSET Party, Propose(p, S)
  PROVE  LedgerStep
<1> DEFINE ids == {tickets[q] : q \in S}
<1>1. nextTicket' = nextTicket /\ LeaveQueue(S)
  BY DEF Propose
<1>2. QueuedTickets' = QueuedTickets \ ids
  BY <1>1, QueueWithout DEF TicketInv
<1>3. ids \in SUBSET QueuedTickets
  BY DEF Propose, QueuedTickets
<1>4. /\ \A q \in S : proposalTickets'[p][q] = tickets[q] /\ tickets[q] # NoTicket
      /\ \A q \in Party \ S : proposalTickets'[p][q] = NoTicket
      /\ \A o \in Proposal \ {p} : proposalTickets'[o] = proposalTickets[o]
  BY DEF Propose, TicketTypes
<1>5. Saved(p)' = S /\ TicketsOf(p)' = ids
  <2>1. Saved(p)' = S
    BY <1>4 DEF Saved
  <2> QED BY <1>4, <2>1 DEF TicketsOf
<1>6. \A o \in Proposal \ {p} : Saved(o)' = Saved(o) /\ TicketsOf(o)' = TicketsOf(o)
  BY <1>4 DEF Saved, TicketsOf
<1>7. Saved(p) = {}
  BY DEF Propose
<1>8. HeldTickets' = {TicketsOf(o)' : o \in {u \in Proposal : Saved(u)' # {}}}
  BY DEF HeldTickets
<1> HIDE DEF ids
<1>9. CASE S = {}
  <2>1. \A o \in Proposal : Saved(o)' # {} <=> Saved(o) # {}
    BY <1>5, <1>6, <1>7, <1>9
  <2>2. ASSUME NEW T PROVE T \in HeldTickets' <=> T \in HeldTickets
    BY <1>5, <1>6, <1>7, <1>8, <1>9, <2>1 DEF HeldTickets
  <2>3. HeldTickets' = HeldTickets
    BY <1>8, <2>2 DEF HeldTickets
  <2>4. QueuedTickets' = QueuedTickets
    BY <1>2, <1>9 DEF ids
  <2> QED BY <1>1, <2>3, <2>4 DEF LedgerStep
<1>10. CASE S # {}
  <2>1. ids # {}
    BY <1>10 DEF ids
  <2>2. ASSUME NEW T PROVE T \in HeldTickets' <=> T \in HeldTickets \/ T = ids
    BY <1>5, <1>6, <1>7, <1>8, <1>10 DEF HeldTickets
  <2>3. HeldTickets' = HeldTickets \cup {ids}
    BY <1>8, <2>2 DEF HeldTickets
  <2>4. Ledger!Claim
    BY <1>1, <1>2, <1>3, <2>1, <2>3 DEF Ledger!Claim
  <2> QED BY <2>4 DEF LedgerStep, Ledger!Next
<1> QED BY <1>9, <1>10

LEMMA SpendIsSettle ==
  ASSUME TicketTypes, TicketInv, NEW p \in Proposal, Spend(p)
  PROVE  LedgerStep
<1>1. nextTicket' = nextTicket /\ TakeSaved(p) /\ QueuedTickets' = QueuedTickets
  BY DEF Spend, QueuedTickets
<1>2. CASE Saved(p) = {}
  BY <1>1, <1>2, NothingHeld DEF LedgerStep
<1>3. CASE Saved(p) # {}
  <2>1. TicketsOf(p) \in HeldTickets /\ HeldTickets' = HeldTickets \ {TicketsOf(p)}
    BY <1>1, <1>3, HeldWithout DEF TicketInv
  <2>2. /\ {} \in SUBSET TicketsOf(p) /\ {} \in SUBSET QueuedTickets
        /\ QueuedTickets' = (QueuedTickets \ {}) \cup {}
    BY <1>1
  <2>3. Cardinality({}) <= Cardinality({})
    BY FS_EmptySet
  <2>4. Ledger!Settle
    BY <1>1, <2>1, <2>2, <2>3, SameCardinality DEF Ledger!Settle
  <2> QED BY <2>4 DEF LedgerStep, Ledger!Next
<1> QED BY <1>2, <1>3

LEMMA LedgerMoves ==
  ASSUME TicketsInv, [Next]_vars
  PROVE  LedgerStep
<1>1. TicketTypes /\ TicketInv /\ TicketMove
  BY TicketTypesHold, TicketMoves DEF TicketsInv, AuthorityInv
<1>2. CASE UNCHANGED ticketVars
  BY <1>2 DEF ticketVars, LedgerStep, QueuedTickets, HeldTickets, TicketsOf, Saved
<1>3. ASSUME NEW q \in Party, Draw(q) PROVE LedgerStep
  BY <1>1, <1>3, DrawIsIssue DEF LedgerStep, Ledger!Next
<1> QED BY <1>1, <1>2, <1>3, LeaveIsWithdraw, GiveBackIsSettle, ProposeIsClaim, SpendIsSettle
        DEF TicketMove

\* The authority implements the ledger.
THEOREM AuthorityImplementsLedger == Spec => ImplementsLedger
<1>1. Init => Ledger!Init
  BY DEF Init, Ledger!Init, QueuedTickets, HeldTickets, Saved, NoTickets
<1>2. TicketsInv /\ [Next]_vars => [Ledger!Next]_<<nextTicket, QueuedTickets, HeldTickets>>
  BY LedgerMoves DEF LedgerStep
<1> QED BY <1>1, <1>2, TicketInvariant, PTL
        DEF Spec, ImplementsLedger, Ledger!Spec, Ledger!ledgerVars
=============================================================================
