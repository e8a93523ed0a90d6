----------------------------- MODULE TicketLedger -----------------------------
(* What the authority promises about queue tickets, whatever the ready checks, *)
(* launches, cancellations and results do around them: a ticket is issued once *)
(* into the queue, leaves it for good or as part of one match, and the tickets *)
(* of a match are settled together, each put back in its old place or spent.   *)
(* Module Authority implements it.                                             *)
EXTENDS Naturals, FiniteSets

CONSTANT Ticket        \* ticket identities, issued in increasing order

VARIABLES next,        \* the next identity
          queued,      \* the tickets in the queue
          held         \* for every match under way, the set of its tickets

ledgerVars == <<next, queued, held>>

Spent == (1 .. (next - 1)) \ (queued \cup UNION held)

Init == next = 1 /\ queued = {} /\ held = {}

\* A party whose proposal failed while it had drawn another ticket is NotReady
\* with a ticket in the queue; it displaces that one when it comes back.
Issue == /\ next \in Ticket
         /\ next' = next + 1
         /\ \E out \in SUBSET queued :
              Cardinality(out) <= 1 /\ queued' = (queued \ out) \cup {next}
         /\ UNCHANGED held

Withdraw == /\ \E t \in queued : queued' = queued \ {t}
            /\ UNCHANGED <<next, held>>

\* The tickets of all the parties of a match leave the queue at once.
Claim == /\ \E S \in (SUBSET queued) \ {{}} : queued' = queued \ S /\ held' = held \cup {S}
         /\ UNCHANGED next

\* The match is over, or will not take place.  A ticket that is put back may
\* displace the one its party has drawn meanwhile.
Settle ==
  /\ \E S \in held :
       /\ held' = held \ {S}
       /\ \E back \in SUBSET S, out \in SUBSET queued :
            Cardinality(out) <= Cardinality(back) /\ queued' = (queued \ out) \cup back
  /\ UNCHANGED next

Next == Issue \/ Withdraw \/ Claim \/ Settle

Spec == Init /\ [][Next]_ledgerVars

\* Every ticket is in one place: the queue, one match, or spent
\* (AuthorityState::tickets and proposal_tickets share none).
OnePlace ==
  /\ next \in Nat \ {0}
  /\ queued \subseteq 1 .. (next - 1)
  /\ \A S \in held : S \subseteq 1 .. (next - 1) /\ S \cap queued = {}
  /\ \A S, T \in held : S # T => S \cap T = {}

\* A ticket that has been spent is never seen again: no late cancellation
\* brings a party back into the queue with it (cancel_proposal's remove).
SpentForGood == [][\A t \in Spent : t \in Spent']_ledgerVars
===============================================================================
