---------------------------- MODULE AuthorityLoop -----------------------------
(* The loop of the actor that owns the authority (CoreHandle, grpc/mod.rs     *)
(* 94-125), as far as it decides when a tick runs: its select is biased, so   *)
(* the loop looks at the channel of commands first and turns to the tick only *)
(* when it finds that channel empty.                                          *)
EXTENDS Authority

VARIABLE backlog         \* the channel holds a command

loopVars == <<vars, backlog>>

LoopInit == Init /\ backlog = FALSE

(* A call or a dropped stream puts a command in the channel.                  *)
Send == backlog' = TRUE /\ UNCHANGED vars

(* A command of the batch is applied, or refused without effect; more may     *)
(* wait behind it.                                                            *)
Apply == backlog /\ (Command \/ UNCHANGED vars) /\ backlog' \in BOOLEAN

(* An iteration of a loop of the tick.  A command that arrives within a tick  *)
(* is seen after it: it may as well arrive after it.                          *)
TickTurn(step) == step /\ ~backlog /\ UNCHANGED backlog

LoopNext == Send \/ Apply \/ TickTurn(Tick) \/ (Rest /\ UNCHANGED backlog)

(* The timer's tick stays due until it is taken (MissedTickBehavior::Skip),   *)
(* so a loop that finds the channel empty again and again ticks again and     *)
(* again, and every tick goes through all proposals.  A handler ends what it  *)
(* has begun.  Nothing is promised of players, servers and the network, nor   *)
(* that the channel is ever empty.                                            *)
LoopSpec ==
  /\ LoopInit /\ [][LoopNext]_loopVars
  /\ \A p \in Proposal : /\ SF_loopVars(TickTurn(ExpireProposal(p)))
                         /\ SF_loopVars(TickTurn(PlacementTick(p)))
  /\ WF_loopVars((\E item \in agenda : LostRetry(item) \/ ReadyFromReconcile(item))
                   /\ UNCHANGED backlog)

-------------------------------------------------------------------------------
(* The loop has ended a handler, looks at the channel and finds it empty.     *)
Idle == agenda = {} /\ ~backlog

UnderLaunch(p) == \E m \in Match : launchProposal[m] = p

(* What the last accept leaves behind when the control stream of the chosen   *)
(* server does not take the launch (respond, 2373-2383): the proposal is      *)
(* accepted by all, does not wait for capacity and has no launch.  No tick    *)
(* looks at it again.                                                         *)
LaunchRefused(p) ==
  proposalState[p] = "AwaitingPlacement" /\ p \notin waiting /\ ~UnderLaunch(p)

(* If the loop finds the channel empty again and again, a party frozen by a   *)
(* ready check does not stay so while players are silent or no server has     *)
(* room: it is released, or its proposal has a launch (how long a launch may  *)
(* take is another matter), or the launch of its last accept was refused by   *)
(* the control stream - and in that case the code may leave it frozen for     *)
(* ever (respond 2366-2384, tick 530-548).                                    *)
FrozenOnlyByLaunch ==
  []<>Idle =>
    \A q \in Party :
      partyState[q] = "AwaitingAccept" ~>
        \/ partyState[q] # "AwaitingAccept"
        \/ \E p \in Proposal : q \in Saved(p) /\ (UnderLaunch(p) \/ LaunchRefused(p))
===============================================================================
