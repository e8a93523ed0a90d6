# TLA+ verification of the Elo Ranking Pairing System

ERPS is a matchmaking authority: players form parties, parties queue, sets of
queued parties become match proposals, every player of a proposal answers a
ready check, an accepted proposal is launched on a game server that has
capacity, and the game server reports the result.  This directory models that
life cycle in TLA+, checks it with TLC on small instances and proves, with TLAPS,
what can be proved of it for instances of any size: every safety property of the
registry, the authority, the parties, the matching, the client and the players'
standing that the runs check, and the authority's refinement of two simpler
specifications.

Paths below are relative to the repository; `grpc/mod.rs` stands for
`core/src/grpc/mod.rs`.

## 1. Inventory

| Part | State it keeps | Operations | Correct when |
|---|---|---|---|
| Game-server registry (`core/src/server.rs`) | per server: generation, health, capacity total and used, instance map | `register`, `heartbeat`, `update_health`, `reconcile` | the ledger `capacity_used` is the cost of the live instances; an instance only moves forward |
| Placement (`core/src/placement.rs`) | none; works on the registry | `feasible`, `reserve`, `release`, `retry_after_failure` | capacity is charged where the match is, once |
| Proposal (`core/src/proposal.rs`) | roster, answers, tickets, deadline, state | `from_candidate`, `respond`, `expire`, `cancellation_decisions` | it launches only when all accept; only failing parties pay for a failure |
| Claims (`core/src/matching/claim.rs`) | set of claimed tickets | `commit`, `release` | no ticket in two proposals; no ticket that waits is still claimed |
| Authority (`AuthorityState`, `grpc/mod.rs`) | all of the above, parties, tickets, `player_proposal`, `player_match`, `launches`, `launch_deadlines`, `placement_waiting`, `proposal_tickets`, `controls`, completed results | client calls, server calls, stream messages, `tick` every 100 ms, a matching pass after each batch and tick | the maps agree with one another through every cancellation, retry and loss |
| Parties and invites (`core/src/party.rs`) | members, leader, state, revision; invite uses | create, join, kick, leave, rename, invite | frozen while queued, proposed or matched |
| Command actor and sessions (`grpc/mod.rs` 45-190, 1896-1952) | bounded queue, sequence numbers, session tokens, offline set, grace deadlines | `call`, `disconnected`, `open_session`, `watch_events` | commands in order, ticks not starved, a dropped session noticed once |
| Matching (`core/src/matching/`) | none (pure) | `build` for 1v1, 5v5, free for all; `dispatcher::generate` | teams valid, disjoint parties, independent of the worker count |
| Standing: credit (`core/src/credit.rs`), profile provider (`core/src/profile.rs`) | score, violations, suspension deadline per player; the stored profiles | penalties, recovery, suspension; load, save after a batch | a low score has a deadline; the provider ends up with the authority's profile |
| Client SDK (`client/src/lib.rs`) and C library (`client-ffi/src/lib.rs`) | session token, stream, a bounded channel; a bounded event queue | the event task: watch, forward, reconnect, snapshot; poll, get_state | state never goes back, losses are reported, the stream comes back |
| Rating, ECS resources, configuration, metrics, identifiers, load test, binaries | - | - | see section 8 |

How they interact.  One tokio task owns `AuthorityState`.  Every gRPC handler
sends it a closure over a bounded queue; the task runs the closures one at a
time, so a command is atomic, and after each batch it runs a matching pass.  A
100 ms timer runs `tick`: grace deadlines, expired proposals, waiting
placements, server health with retries, launch timeouts, matching.  Game
servers call `register` and `reconcile_instances` and speak over a control
stream; the authority keeps the sending half of the newest stream in
`controls`.  `try_send` on it fails when 32 messages wait or the receiver is gone.

Two calls leave the actor: `open_session` asks the profile provider for a profile
before it enters the queue, and after a batch the task stores the changed
profiles one by one and serves nobody meanwhile.  The client's event task, the
channel to the application and the C library's queue are a second small system
behind a network that may cut a stream or lose an answer.

What is hard here is not threads but overlap of protocols: a proposal may be
cancelled while its launch is under way, a server may be lost and come back
with instances whose capacity was given away, a session may be opened with a
profile that has changed since, answers come late or twice, and a cancel or a
retry leaves entries in some maps and not in others.  `PROJECT.json` lists each
hazard at its line.

## 2. Modules

    Registry       server.rs + placement.rs
       |  EXTENDS
    Authority      grpc/mod.rs + proposal.rs + claim.rs, composed with Registry
       |  implements (INSTANCE ... WITH)
    TicketLedger   what the authority promises about tickets, abstractly

    AuthorityLoop  EXTENDS Authority: the actor's biased loop around it

    PartyRoster    party.rs + the party handlers of grpc/mod.rs
    Buckets        bucket.rs, search widths       <- EXTENDS - Matching
    Matching       builders, dispatcher, pass     (one_v_one, five_v_five, ffa)
    Session        one player's session           <- EXTENDS - ClientSdk
    ClientSdk      event task and C library
    Standing       credit.rs + profile.rs + their use in grpc/mod.rs

    MC...          instances for TLC (Registry, Authority and its loop, PartyRoster,
                   Matching)
    ...Proofs      RegistryProofs <- EXTENDS - AuthorityProofs
                   AuthorityProofs <- EXTENDS - AuthorityTicketProofs
                   PartyRosterProofs, ClientProofs, StandingProofs,
                   TicketLedgerProofs, MatchingProofs

Several modules look at the same handler from different sides: Authority knows
fixed parties and every detail of a launch, PartyRoster knows changing parties
and only what a proposal and its match do to them, Standing knows only who is blamed or has
played.  Each says in its header what it leaves to the others.

### Registry

| Code | Model |
|---|---|
| `Registry.servers[s]` | `generation[s]` (0: unknown), `health[s]`, `total[s]`, `used[s]`, `inst[s]` |
| instance map | `inst[s][m]`, `"None"` where absent |
| cost of a mode | `Cost[m]`; region and mode lists: `Eligible[m]` |
| `valid_reconciled_state` | `ValidReconciledState` |
| `register`, three branches | `RegisterFirst`, `RegisterSame`, `RegisterNewer` |
| `reconcile` completes / returns inside its loop | `Reconcile` / `ReconcilePartial` |
| reservation in `AuthorityState::launch` | `Reserve` |
| `release`, `retry_after_failure` | `Release`, `Retry` |
| `Instance` message, ready launch | `Report`, `Publish` |

`recovered` is a history variable: the servers that revived a lost instance and
whose ledger has not been exact and within capacity since.  The sum of costs is
written as the cardinality of a set of unit slots (`Units`), which needs no
recursion and so can be proved about.  `RegistryNext` states the contract of
the callers (`OnlyAt`): a new match has a fresh identity, a retry names the one
server that may hold the match.

### Authority

| Code | Model |
|---|---|
| `tickets` (by party) | `tickets[q]`: ticket id or `NoTicket` |
| `proposals` | `proposalState[p]` (`"Absent"`: not in the map), `responses[p]`, `rosterTickets[p]` |
| `proposal_tickets` | `proposalTickets[p][q]` |
| `launches[m]` | `launchServer[m]`, `launchProposal[m]` |
| `launch_deadlines`, `disconnect_deadlines` | sets of the armed ones: `launchDeadline`, `grace` |
| `controls` | `controls`: servers with a sender |
| `completed_match_result_order` | `completed`, at most `CompletedCap` long |
| a loop over matches inside one handler | `agenda`: what the loop still has to do; no other action runs meanwhile |

| Handler | Action |
|---|---|
| `enqueue`, `cancel_queue` | `Enqueue`, `CancelQueue` |
| `accept_match` / `reject_match` (`proposal_response`) | `Accept`, `LastAccept` (with the launch), `Reject` |
| `open_session`, drop of the event stream | `Reconnect`, `Disconnect` |
| `attempt_match_batch` + `commit_candidate` | `CommitCandidate` |
| loops of `tick` | `GraceExpires`, `ExpireProposal`, `PlacementTick`, `HealthTick` + `LostRetry`, `LaunchTimeout` |
| `apply_server_control` | `HeartbeatMsg`, `LaunchAccepted`, `LaunchReady`, `LaunchFailed`, `ServerReport`, `FinishMatch`, `NoEffect` |
| `register`, `reconcile_instances` | `RegisterServer`, `ReconcileServer` + `ReadyFromReconcile` |

`cancel_proposal` is the operator `CancelProposal`; like the code it gives
tickets back, releases claims and clears `player_proposal` of the roster, and
leaves the proposal and its launch in their maps.

Abstractions.  Requests the code rejects change nothing and are not steps.
Deadlines elapse at any time while armed, so the relative order of the loops
of one tick is not kept: each iteration is an action and any may come first,
which allows every order the code has and more.  `try_send` may fail at any
time.  A party's regions enter through `Eligible` (first launch: any common
region) and `FirstRegion` (retry: only the first common region, as
`retry_launch` takes it).  In Authority a server ERPS does not know registers
without instances; module Registry also lets it bring some.  Ratings and credit
are counted (`settled`), not computed.

`Next` is divided into `Command` (what the actor's queue, the game servers' streams
and dropped streams bring), `Tick` (one iteration of a loop of `tick`) and `Rest`
(the matching pass and the loops under way).

### AuthorityLoop

| Code (`CoreHandle`, `grpc/mod.rs` 94-190) | Model |
|---|---|
| the channel of commands, empty or not | `backlog` |
| `call`, `disconnected`: `try_send` | `Send` |
| `rx.recv`, the batch | `Apply`: a command takes effect or is refused; more may wait |
| `interval.tick`, the second branch of the biased `select!` | `TickTurn(Tick)`: only while the channel is empty |

Authority allows a tick at any time, which is enough for safety; whether a tick
ever comes is this module's subject.

### TicketLedger

The abstract specification behind `ImplementsLedger`: `next` identity, `queued`
tickets, and `held`, one set of tickets for every match under way.  A ticket is
issued into the queue (`Issue`), withdrawn (`Withdraw`), taken with all others of
a match at once (`Claim`), and the tickets of a match are settled together
(`Settle`): put back or spent.  Authority maps `queued` to the tickets of
`tickets` and `held` to the tickets the proposals have saved.

### PartyRoster

| Code | Model |
|---|---|
| `Party` | `parties` (who is in the map), `leader`, `members`, `revision`, `state` |
| `player_party` | `playerParty`, `NoParty` where absent |
| `InviteStore` | `uses`, `inviteFor` |
| `tickets` | `queue` |
| `player_proposal`, `player_match` | `playerProposal`, `playerMatch` |
| a proposal's parties, `proposal_tickets`, what became of it | `owners`, `saved`, `phase` |
| `launches`, as far as a proposal has one | `launched` |

| Handler | Action |
|---|---|
| `create_party`, `create_invite` | `CreateParty` (`NewParty`), `CreateInvite` (`NewInvite`) |
| `join_party` | `JoinParty`: `UsesLeft`, then `JoinEffect`, or a spent use and nothing else |
| `leave_party`, `kick_member`, `rename_party` | `LeaveParty` (`LeaveSuccessor`), `KickMember` (`KickEffect`, `KickUnlink`), `RenameParty` |
| `enqueue`, `cancel_queue` | `Enqueue` (`ValidateEnqueue`), `CancelQueue` |
| grace loop of `tick` | `GraceExpires` |
| `commit_candidate` after the revalidation of `attempt_match_batch` | `CommitCandidate` (`CommitValid`) |
| a rejection or an expired ready check | `ReadyCheckFails` |
| the last accept, or `tick`, finds a server | `Launch` |
| no server in time, a launch that cannot be retried | `Abandon` |
| publication in `launch_result`, `finish_match` | `PublishMatch`, `FinishMatch` |

A request names any party, as a caller may, and the guards are the code's:
`leave_party` does not ask whether the caller is a member, `kick_member` does
not ask whether the target is, and both remove the index entry regardless.  Two
parties may therefore list one player, and `CommitCandidate` records him for one
of them while both count him as a seat.  `cancel_queue` looks at neither state
nor ticket.  `cancel_proposal` is the operator `CancelProposal`, used by three
actions: it may hit a proposal whose launch goes on, one whose match is published
(the server was lost and the retry failed), or one that was cancelled before, and
`launch_result` may publish, and `finish_match` finish, what has been cancelled.

Two history variables record where the code gives up on keeping its maps in step.
`loose`: parties set Idle by `cancel_queue`, or by the end of another match, while a
proposal or the queue held them, and not enqueued afresh since.  `stray`: players
whose `player_proposal` or `player_match` was written by a launch that outlived its
proposal, or was left behind by a match that lost it, and who have not been matched
afresh since.  The properties say that nothing else goes out of step.

### Buckets and Matching

| Code | Model |
|---|---|
| `bucket.rs`, the halo of a search, `search_delta` | `Bucket`, `Halo`, `SearchDelta` (Buckets) |
| effective rating, snapshot order, `rebuild_ecs` | `Rated`, `World`, `Cheaper` |
| `one_v_one::build`, `five_v_five::build`, `free_for_all::build` | `OneVOne` over `Neighbours`, `FiveVFive` and `FreeForAllOf` over `Groups` |
| `subsets` of `five_v_five`, `go` of `free_for_all` | `Groups`: every group that fills the seats, listed in the order of the code |
| a sorted list of candidates | the set of them, each with its sort key (`Owned`, `Key`); `First` is its head |
| the selection in a shard's round, `claims.commit` in a pass | `TakeDisjoint` |
| shard, rounds | `ShardPart`, `Rounds`, `Generate` |
| what the commit refuses: parties that fail its revalidation, players just proposed | `unfit`, `Admitted`, `Twins` |
| `attempt_match_batch` for one mode and region | `Committed`, action `Pass` |
| `enqueue`, the clock | `Arrive`, `Pause` |
| a member goes offline or is in another proposal or match; comes back | `BecomeUnfit`, `BecomeFit` |

The builders are operators that do what the code does, budgets included; what
a match must be (`Fair`, `Matchable`) is said separately, over sets of tickets.
A team is a set of tickets and a stable sort is a key that ends with the place
at which the builder came upon the candidate (`at`).  `Groups` folds over the
tickets instead of recursing over indices: for every number of seats left it
keeps the list of groups of the tickets seen so far, those with the new ticket
before those without it, which is the order in which `go` reaches them.  The
budget cuts this list (`width`), as `go` stops at it.  `TakeDisjoint` and
`Rounds` are recursive functions, so that they can be reasoned about.

`ecs_tickets` lists every queued party, and what is wrong with one is found out only
when its candidate is committed (1041-1057): a member is offline, in another proposal
or in a match, or the state is not Queued.  These tickets are `unfit`; the builders see
them, `Admitted` drops the candidates that hold one, and the pass goes on with the
next candidate, as the code does.  Two parties may list one player (`doubles`): a
candidate with one of them makes the other unfit within the same pass (`Twins`), as
`commit_candidate` enters the players into `player_proposal` at once.

The worker count does not appear because `generate` sorts what the shards
return: shards are a function of the snapshot.

### Session and ClientSdk

| Code | Model |
|---|---|
| command queue, an answer | `jobs` (a set: the sequence number is drawn before the send), `reply` |
| `current_session`, tokens, `offline` | `current`, `nextToken`, `offline` |
| broadcast channel, `DisconnectAwareEvents` | `streams`, each with its channel, buffer and `lagged` |
| `open_session`, `get_state`, `watch_events`, the disconnect command | `OpenSession`, `GetState`, `WatchEvents`, `Disconnect` |
| a send on the channel, `Drop` of a stream | `Push` in `Change`, `DropStream` |
| `Client::events`, `Client::reconnect` | `pc` and the task's actions `Watch` ... `Fetched` |
| loop and queue of the C library, `erps_client_poll`, `erps_client_get_state` | `Pump`, `local`, `Poll`, `AskState` |

The player's state is a version number: each change is one event.  A call may be
refused, cut off before it is queued, or lose its answer after it was applied
(`CallFails`); a stream may break (`StreamBreaks`); a disconnect command may be
lost in a full queue (`LoseDisconnect`); the player may open a session elsewhere.

### Standing

| Code | Model |
|---|---|
| `CreditPolicy::apply`, `credit_suspension_active` | `AfterPenalty`, `AfterMatch`, `Suspended` |
| credit part of `cancel_proposal`, `finish_match` | `Cancel`, `Finish` |
| `open_session`: provider first, command later | `Load`, `Open`, `GiveUp` |
| `pending_profile_saves`, storing after a batch | `pending`, `EndBatch`, `Save`, `SaveFails` |
| loss of all that is in memory | `Restart` |

`doubt` is a history variable: players one of whose saves has failed or whose
session was opened with a profile read before a change was stored.  These are
the known ways in which the authority and the provider part, and the properties
say that there are no others.

## 3. Runs

| Run | Instance | Shows |
|---|---|---|
| `ledger` | Registry; 2 servers, 2 matches of cost 2 and 1, capacity 2, 2 generations | `LedgerExact`, `LedgerNeverAhead`, `LifecycleForward` in every interleaving of registry calls |
| `core` | party of two and a solo, one server with room for one match, one player may drop, 2 proposals, 3 tickets, 2 matches, cache of 1 result | tickets, claims, launches and results survive every cancellation, retry, loss and repeated result |
| `servers` | the same parties, two servers, 2 tickets, nobody drops, under the biased loop | `OneHome`; the authority implements Registry (`ImplementsRegistry`); liveness: a frozen party is released or its match launched, with one exception, if the channel runs empty again and again |
| `rivals` | three solos, two candidates share one, whose leader may cancel at any time | two candidates after one party, the unfrozen party of a cancelled queue; the authority implements TicketLedger |
| `parties` | 3 players, 3 party identities, an invite of up to 2 uses, 2 proposals of 3 seats, parties of 1 or 2 | leaders, index, queue, rosters and the players' maps through every order of edits, cancels, launches and matches |
| `client` | one slot in each buffer, 3 changes, 1 fault, 1 session elsewhere | order, losses and recovery of the event stream |
| `matching` | teams of 2, free-for-all of 3, 4 or 5 tickets, ratings at the edges of buckets and widths, pauses of 60 s, a budget of 128; one duellist several parties may list, one party unfit at a time | matches are fair and share neither ticket nor player, nobody unfit is in one, the oldest is served |
| `standing` | 1 player, 2 calls to `open_session`, scores to 4, 3 changes, 2 faults | deadlines, suspensions and the stored profile |
| `published`, `reconnect`, `overcommit`, `starved` | one server (two in `published`); two disjoint duels in `overcommit`; 16 equal solos and the code's own budget and team size in `starved` | the findings of section 5 |

Deadlock is checked in every run of Registry and Authority.  It is not in
the runs of PartyRoster, ClientSdk, Matching and Standing: there the bounds on
identities, revisions, changes and faults let the system come to rest.

Bounds and why they suffice.

* Authority.  Two proposals let a cancelled one and its successor overlap, which
  is what every stale entry needs; three tickets (four in `rivals`) let each
  party queue and one of them queue again; two matches let a first one be
  forgotten by the cache of one result and repeated, and let a reservation take
  the place of a lost one.  One unit of capacity makes every second launch wait.
  Dropping players and cancelling leaders are restricted to one (`Dropping`,
  `Cancelling`), which bounds how many independent interruptions a run mixes and
  not how often one of them comes back.
* Registry.  Unequal costs let a clamp and a saturating subtraction happen.
* PartyRoster.  Three players are enough for a party of two with a successor and
  an outsider who names a party that is not his; three identities let a party die
  and another be created, and let two parties that list one player wait for
  different proposals.  `MaxRevision` stops the clients' commands on a party, never
  the authority's steps: up to revision 5 the first party can be queued, proposed,
  cut loose, edited and given back, or fail a ready check and queue again; up to
  revision 2 the others can be edited, queued and cut loose.  Players are
  symmetric: no client command depends on which player it is, and the order that
  chooses a successor is left open.
* Matching.  Four tickets, five in five against five, allow two overlapping
  candidates and a rest, and a refused candidate beside another after the same
  party; 60 s cross `FIVE_V_FIVE_MIRROR_SECONDS` and bring the widest search; 1099,
  1160 and 1549 lie on both sides of a bucket edge, of the initial and of the widest
  search.  No more than ten groups fill the seats, so a budget of 128 pairs makes
  `BudgetSuffices` true in every state and `OldestServed` is never excused by it.
  What the commit refuses does not depend on the mode, so one mode with a player
  listed twice is enough.
* ClientSdk.  One slot everywhere makes every buffer overflow at the second event;
  three changes allow one delivered, one lost and one after.
* Standing.  Penalties of 1 and 3 out of 4 and a minimum of 2 let a score
  saturate, fall below the minimum in one step or two, and recover.  Two calls let
  one overtake the other.

Fairness.  `servers` runs under `LoopSpec` of AuthorityLoop.  The `select!` of the actor
is biased: it takes a tick only when it finds the channel of commands empty, so the
tick as such has no fairness at all, and a steady stream of commands keeps every
deadline from being noticed.  Accordingly the property has the premise `[]<>Idle`:
the loop finds its channel empty again and again.  Given that, the timer's tick, which
stays due until it is taken, comes again and again and looks at every proposal:
strong fairness of `TickTurn(ExpireProposal(p))` and `TickTurn(PlacementTick(p))`
for each proposal, and weak fairness of the steps that work off a loop.  Fairness of
players, servers or the network is not assumed.  `client` assumes weak fairness of the task, of the C library's loop, of
the actor and of the transport's notice of a dropped stream; nothing is assumed
of the application or of the faults, whose number is bounded.  `standing` assumes
that a batch ends and that a save is answered, both consequences of the
actor's loop and of a provider that answers.

## 4. Properties

Registry and Authority:

* `LedgerExact`, `LedgerNeverAhead`: the capacity ledger against the instance
  map, through clamping, saturating subtraction, zeroing on loss and reports
  applied half way.
* `LifecycleForward`: no report moves a live instance back, ends it, or undoes a
  completion; an instance is lost only with its whole server, never by a report.
* `TicketsConserved`, `QueuedTicketIsFree`: a ticket is in the queue or in one
  proposal that will give it back; no ticket that waits is claimed.  (The claims
  of played matches are never released: their tickets do not come back.)
* `NoDoubleLaunch`, `OneHome`: one launch for a proposal, one server for a match.
* `LaunchedUnanimously`: capacity is reserved only for a proposal all have
  accepted that still owns its tickets, so a retry never revives a cancelled one.
* `InnocentRequeued`: a cancelled proposal gives every party its very ticket
  back, except a party with a failed member.
* `SettledOnce`: a result counts once, also when it is repeated after the cache
  of completed results has forgotten it.
* `ImplementsRegistry`, `ImplementsLedger`: every step of the authority is a step
  of Registry, and of TicketLedger, or a stutter.
* `FrozenOnlyByLaunch` (liveness): if the loop finds its channel empty again and
  again, a party frozen by a ready check is released or its proposal has a launch -
  or the control stream refused the launch of the last accept (2373), which leaves
  the party frozen with nothing to wait for.

PartyRoster:

* `LeaderLeads`, `IndexIsMembership`: a party is led by a member; the index never
  points to a party that is gone or does not list the player.
* `QueuedWellFormed`: what waits in the queue has a size the mode takes, also when
  its ticket came back without a new check, unless it was cut loose.
* `RosterFrozen`: what a proposal has recorded is what the parties still are, from
  the ready check to the end of the match, unless they were cut loose.
* `PlayersHeldOnce`: `player_proposal` and `player_match` hold a player for the one
  open proposal that records him and for no other, unless he is a stray.
* `RevisionTellsRoster`: members and leader change only with a new revision.

Matching:

* `FairMatches`: everyone within everyone's search, seats filled, nobody on both
  sides, mirrored teams or a long wait and compensation, whatever the shards
  propose.
* `DisjointMatches`: no ticket and no player in two matches of a pass, though shards
  overlap and go round several times and two parties may list one player; and
  nobody unfit in any.
* `OldestServed`: of the tickets that can be matched, and whose own shard sees no
  unfit party, the oldest is in a match, or an older one is.

`WithinReach`, on which both sides of these rest, says that no two players of a
match lie further apart than any third one searches.  Pairwise reach (each
within the reach of the two that are compared) would be the nearer reading of a
search width, but the code asks more: `max - min` of the whole match is held
against the narrowest search in it, so a ticket with a narrow width that lies
between two others keeps them apart.  With pairwise reach `OldestServed` is
false: tickets rated 0, 100 and 200 that search 200, 100 and 200 are pairwise in
reach, and the code leaves them waiting.

Session and ClientSdk:

* `OfflineHasCause`: a late disconnect takes nobody offline who has come back.
* `DeliveredInOrder`, `NothingElseLostSilently`: what the application sees never
  goes back, and what it misses it is told of - with one exception, below.
* `Recovers` (liveness): the task gets back to a live stream.

Standing:

* `LowCreditHasDeadline`: no connected player is below the minimum without one.
* `StoreAgrees`, `StoreCatchesUp` (liveness): the provider's profile is the
  authority's, at once or after the saves to come.
* `SuspensionHolds`: connecting again does not lift a suspension.

Each module has one type invariant.  Every property of a passing run has a
mutant in `PROJECT.json`: a small change of one operator, of the kind a slip in
that code would make, that TLC shows to break it.

### What the properties allow for

Some behaviour of the code is modelled and not called wrong by any property:

* A proposal cancelled while its launch is under way is published all the same when
  the server reports ready (1398): its players are in a match while their parties are
  free, or queued again.  A second cancellation of a proposal clears `player_proposal` of players who are
  in another one by now (615); a published match whose server is lost and cannot be
  retried is cancelled, and its players stay in `player_match` (577-583); a match
  that finishes without ever being published leaves `player_proposal` behind (1693).
  Such players are refused by every later pass until something else overwrites the
  entry.  `PlayersHeldOnce` calls them strays.
* A leader's `cancel_queue` inside a proposal or a match unfreezes the party (2257),
  and so does the end of a match that a party was recorded for and has left by a
  cancellation (1700).  Its members may then change under the proposal, and its ticket
  comes back at a size nobody has checked (716).  `QueuedWellFormed` and
  `RosterFrozen` call such a party loose, and hold again once it is enqueued afresh
  with no proposal holding it.
* When the control stream is full at the last accept (2373) the accept fails, and
  the proposal is neither waiting nor launched, for ever: `FrozenOnlyByLaunch` names
  this case (`LaunchRefused`).
* A queued party that the commit refuses keeps winning candidates by its age, and
  whoever is paired with it is not served (1041).  `OldestServed` promises nothing to
  a ticket whose shard sees such a party.
* Events sent between a reconnecting client's snapshot and its next `watch_events`
  reach nobody (`client/src/lib.rs` 442): `NothingElseLostSilently` names this gap.
* When the C library's queue is full its loop ends for good: `Recovers` excludes it.
* Two duellists are matched only if they are neighbours by rating
  (`one_v_one.rs` 9): `OldestServed` is stated for neighbours.
* A score may be overwritten by an older profile, or lost with a failed save:
  `doubt` in Standing.

## 5. Findings

Each is a run that ends in a counterexample, with the comment or test it
contradicts quoted in `PROJECT.json`.

1. `published`: a published match is migrated to a second server after a loss,
   a reconcile as Ready and another loss.
2. `reconnect`: the grace deadline outlives the reconnect.
3. `overcommit`: a lost instance comes back after its capacity was given away.
4. `starved`: with sixteen equal single players the budget of 1024 groups is spent
   on groups that all contain the first ticket, so no two are disjoint and no
   match is proposed, in this pass or a later one.

The properties above hold beside these: `LedgerExact`, for instance, is about
servers that have not revived an instance, and `overcommit` is about one that has;
`OldestServed` is checked with a budget no queue exhausts.

## 6. Proofs

All theorems hold for every value of the constants that satisfies the named
assumptions of their module.

**RegistryProofs.**  `RegistryInvariant` proves the inductive invariant, and
`RegistryTypes`, `LedgerIsNeverAhead`, `LedgerIsExact` follow.  `RegistryInv` is the
conjunction of the type invariant and the two ledger properties.  They need one
another: `used` stays a natural number because the subtraction saturates,
`LedgerExact` after a release needs that nothing was lost by saturation, which
holds as `used` equals the live cost, and `LedgerNeverAhead` after a release
needs that removing a live match lowers the live cost by exactly its cost.  The
lemmas `UnitsFinite`, `UnitsOfOne`, `UnitsAdd` and `UnitsMonotone` establish what
the set of unit slots does when a match enters or leaves; the lemmas
`LiveCost...` lift them to instance maps, and one lemma per registry operation
shows that it keeps the invariant.  A report that is applied half way is the
delicate one: the ledger is not recounted, so the live cost must not have
dropped, which `ValidReconciledState` guarantees as it lets no report end an
instance.

`LifecyclesMoveForward` is the action property `LifecycleForward`.  `ReportIsLegal`
shows that what `ValidReconciledState` admits for one instance is a forward move
(so it never makes one lost: only `UpdateHealth` does, to all of a server's, `LosesAll`),
`MergeIsLegal` lifts it to a report, and `ForwardStep` goes through the operations.
A first registration is the step that needs an invariant: it overwrites the whole
instance map, so it could move an instance back if ERPS already held one;
`UnknownServersHoldNothing` excludes that.

**AuthorityProofs.**  `AuthorityInvariant` proves `AuthorityInv`: the registry's
invariant, the types, `ProposalInv` and `LaunchInv`.  The parts cannot be separated.
A retry is a step of the registry only if no second server holds the match
(`OneHome` and `LaunchesNamed`); `OneHome` survives a report because no report
gives a server a match it did not have (the lemmas `...Homes`); a proposal gets no
second launch because a launch leaves it neither waiting nor awaiting an answer
(`ProposalInv`); a cancelled proposal whose launch goes on keeps that launch and
gets no other; and a result is settled at most once because settling removes the
launch, a match with a launch or still to come is unsettled
(`UnsettledLaunches`), and a repeated result finds no launch.  `LostAgenda` carries
this through the loop over a lost server's launches, which changes `launches` while
it runs.  There is one lemma for each group of variables (`RegistryStep`,
`QueueAndProposalStep`, `LaunchTypesStep`, `ResultAndSessionStep`, `ProposalStep`,
`LaunchStep`) with one case for each action, so that a case sees little of its handler.

Its consequences are `AuthorityTypes`, `LaunchIsUnique`, `MatchHasOneHome`,
`ResultIsSettledOnce`; the refinement `AuthorityKeepsRegistryContract`, by which all
of RegistryProofs holds of the authority (`AuthorityLedger`); and the action property
`LaunchNeedsUnanimity`: only two operations make a reservation, a launch, whose
guard is the last accept or a waiting proposal, and a retry, which asks for the
proposal's state and its saved tickets again.

**AuthorityTicketProofs.**  The handlers move tickets in one of five ways, `Draw`,
`Leave`, `GiveBack`, `Propose` and `Spend`, or not at all (`TicketMoves`, one case for
each action).  `TicketInvariant`, and the refinement
`AuthorityImplementsLedger`, are proved of those five and not of twenty
handlers.  `TicketsConserved` and `QueuedTicketIsFree` become inductive with two
facts: every ticket and claim is older than the next identity (so a new one is
free), and a proposal claims what it has saved (so giving a ticket back also frees
it).  `InnocentPartiesRequeue` is the action property that says where a saved
ticket goes.

**PartyRosterProofs.**  `RosterInvariant` proves `RosterInv`, the types with
`LeaderLeads` and `IndexIsMembership`; they are inductive together, because a new
party's identity must be new (types), and because leaving removes index entry and
membership in one step while a kick of a stranger removes only an index entry,
which `IndexIsMembership` survives in that direction only.  `RevisionsTell` is the
action property.  `QueueIsWellFormed` needs more: a ticket that comes back from a
cancelled proposal meets no new check, so `QueueInv` (`QueueInvariant`) strengthens
it by what an open proposal guarantees of every party it holds that is not loose: it
is still there, of a right size, frozen, and held by no other proposal; and who is
recorded is recorded for a party held.  `RosterIsFrozen` builds on it: the edits of
parties touch no frozen party (`EditsSpareFrozen`), so what an open proposal has
recorded stays true until it ends.  `PlayersAreHeldOnce` has an invariant of its own,
`HoldInv`: each player who is no stray is held for exactly the open proposal that
records him, and a proposal yet to come is not open, so a commit, which asks that
its players are in neither map, adds one proposal for players who had none.

**ClientProofs.**  `ClientInvariant` proves `ClientInv`, in which `StreamInv` follows
the one stream that is or may become the task's: no other is open, its buffer is
increasing and newer than what was delivered, and while it has not lagged,
everything from any buffered event on, and from the last delivery on if no error
was reported since, is in the buffer or in the gap.  `GapInv` says the same of the
time between streams.  `JobInv` and `ReplyInv` are needed because a call that was
given up is still applied: only an answer to the call waited for reaches the task, so
a snapshot is never older than what was delivered, and what came after it is in the
gap.  `OfflineIsCaused` needs of the jobs that a disconnect command in the queue
belongs to a stream that was dropped.  `ClientTypes`, and the action properties
`DeliveryInOrder` and `LossesAreTold`, follow by a look at the three steps that
hand something over (`OnlyTheseDeliver`).

**TicketLedgerProofs.**  `TicketsHaveOnePlace` and `SpentStaysSpent`, for the abstract
ledger: by `AuthorityImplementsLedger` they are what the authority promises about
tickets.

**MatchingProofs.**  `MatchesAreFair`, `MatchesAreDisjoint`, `OldestIsServed` and
`MatchingTypes`: the four invariants of run `matching`, for every queue, team size,
bonus table, budget and search width that `MatchingAssumption` and
`RangeAssumption` allow.  Only the type invariant is an induction over steps
(`MatchingStep`).  From a typed queue the rest is a statement about what one pass
computes, and is proved from the builders up:

1. Tools.  The library states induction over finite sets with an operator for the
   predicate, which cannot be cited; `SmallestSubset` replaces it: a family of
   subsets of a finite set has a smallest member, so the smallest
   counterexample is refuted.  `SubsetRecursion` gives a function that recurses
   on smaller subsets its equation, and `SumType`, `SeatsAdd` and others are
   proved with them.
2. Builders.  `GroupsListed`: the list of groups contains every set of tickets
   that fills the seats with parties small enough, and nothing else.  The shape
   lemmas (`OneVOneShape`, `FreeForAllShape`, `FiveVFiveShape`, with `PairsAreFair`)
   show that every candidate is fair, the serving lemmas (`OneVOneServes`,
   `FreeForAllServes`, `FiveVFiveServes`) that while the budget suffices every
   ticket that can be matched is in a candidate.
3. Dispatcher.  `PrecedesOrders`: the keys are ordered, so a set of candidates has
   a first one, which holds the oldest ticket (`FirstIsOldest`).  `TakenInOrder`:
   what is taken is pairwise disjoint, in tickets and in players, and starts with
   the first.  `RoundsShape`
   follows a shard through its rounds.  `HaloCovers`, over all integers by the
   properties of `\div`: a search of width d stays within `Halo(d)` buckets; hence
   a ticket's own shard sees every match it can be in (`OwnShardSees`).
4. Pass.  `GenerateShape` and `CommittedShape` put these together: what is committed
   is fair, holds nobody unfit, is disjoint, and is headed by a candidate as old as
   any ticket that can be matched and whose own shard sees nobody unfit.  Such a
   ticket has a candidate of its own shard that is as old, which is admitted because
   all its tickets are fit.  Why age wins across shards is the last step: the key of
   whatever another shard proposes starts with its oldest ticket, so nothing goes
   before that candidate but an older ticket's.

`SearchOnlyWidens`: a search width never shrinks while a ticket waits and stays
between the initial and the maximum.

**StandingProofs.**  `StandingTypes`, and `StandingInvariant` for `StandingInv`: the
types, `LowCreditHasDeadline` and `StoreAgrees`, strengthened by three facts.  A
player without a session has nothing unsaved (so a load of his profile is exact);
the last save in `pending` is of the current profile (so the provider agrees once
it is done); and a call that missed nothing has loaded what it will replace (so
opening changes nothing).  One lemma per action.  `LowCreditWaits`,
`ProviderAgrees` and the action property `SuspensionOutlivesSession` follow: an
exact load leaves the score as it was, and an inexact one puts its player in doubt.

The assumptions are those named in `Registry`, `Authority`, `PartyRoster`, `Session`,
`ClientSdk`, `Buckets`, `Matching` and `Standing`: identities are numbers and distinct from the
values that mean "none", capacities, costs and queue sizes are what the
configuration's validation accepts, bounds are natural numbers.  TLC evaluates them
in every run of these modules.

## 7. Only model-checked

The liveness properties `FrozenOnlyByLaunch`, `Recovers` and `StoreCatchesUp`:
liveness under fairness is beyond the proof system used here and stays with TLC.
The four findings are runs that end in a counterexample.  Every invariant and
every action property of a passing run is a theorem.

## 8. Not modelled

* Ratings (`rating.rs`): floating-point; a match count stands for the rating where
  it travels to the provider.
* The request cache, drain mode and the token validator of `grpc/mod.rs`.
* `session.rs` and `command.rs`, which the server does not reach;
  `ecs/world.rs` and the parts of `placement.rs` and `party.rs` only tests use.
* Identities after a restart: ERPS restarts from its seed while game servers
  survive.  `Restart` in Standing covers credit only.
* A queued party whose ratings change while it waits (`grpc/mod.rs` 978): a
  ticket of Matching keeps the ratings it came with.
* Parsing of the configuration (what it guarantees is in the assumptions),
  metrics, identifiers, transport, load test and binaries.

## 9. Plan

In order of weight:

1. The request cache (`grpc/mod.rs`), with retries of the same request around a
   lost answer, composed with Session.
2. A restart that Registry and Authority lose their state in together while the
   game servers keep theirs.
3. The players of PartyRoster composed with the queue of Matching, so that the strays
   of one are the unfit parties of the other.
