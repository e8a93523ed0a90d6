------------------------------- MODULE Matching --------------------------------
(* How the queue of one mode in one region is turned into proposals: the three *)
(* candidate builders (matching/one_v_one.rs, five_v_five.rs, free_for_all.rs),*)
(* the sharded dispatcher that runs them over overlapping parts of a snapshot  *)
(* (matching/dispatcher.rs), and the pass of the authority that commits what   *)
(* they propose, oldest first (attempt_match_batch in grpc/mod.rs).            *)
(*                                                                             *)
(* The mode is fixed in Init: passes of different modes share no ticket.       *)
(* Rust's i32 clamps and saturations are left out: ratings here are small.     *)
EXTENDS Buckets, Sequences, FiniteSets, FiniteSetsExt, Functions

CONSTANTS TeamSize,        \* 5 in five_v_five.rs
          FfaSeats,        \* 8 in free_for_all.rs
          FfaParty,        \* 4, the largest party free_for_all.rs takes
          Budget,          \* 1024 groups and candidates per shard
          MirrorSeconds,   \* FIVE_V_FIVE_MIRROR_SECONDS
          PartyBonus,      \* five_v_five_party_bonus, a sequence by party size
          SizeAdjustment, SpreadAdjustment, MaxSpread,
          Shapes,          \* by mode, the sequences of ratings parties may have
          MaxTicket,       \* by mode, bound on the tickets ever enqueued
          Pauses,          \* the lengths of a pause between commands, in seconds
          MaxWait,         \* bound on the wait counted for a ticket
          Doubles,         \* by mode, the players whom more than one party may list
          MaxUnfit         \* by mode, bound on the tickets made unfit between passes

VARIABLES mode,            \* the mode of this queue
          queue,           \* the tickets waiting: [id, ratings, wait, doubles]
          nextTicket,      \* ids and enqueued_at grow together with each enqueue
          unfit            \* ids of waiting tickets whose party a commit refuses

vars == <<mode, queue, nextTicket, unfit>>

Mode == {"OneVsOne", "FiveVsFive", "FreeForAll"}

(* What the configuration's validation, the player type and validate_enqueue   *)
(* guarantee: a party has members, and in five against five no more of them    *)
(* than a team; the rest are the bounds of this model.                         *)
ValidMatching ==
  /\ TeamSize \in Nat \ {0} /\ FfaSeats \in Nat \ {0} /\ FfaParty \in Nat
  /\ Budget \in Nat \ {0} /\ MirrorSeconds \in Nat
  /\ SizeAdjustment \in Int /\ SpreadAdjustment \in Int /\ MaxSpread \in Int
  /\ \A n \in 1..TeamSize : PartyBonus[n] \in Int
  /\ Shapes \in [Mode -> SUBSET (Seq(Int) \ {<< >>})]
  /\ \A ratings \in Shapes["FiveVsFive"] : Len(ratings) <= TeamSize
  /\ MaxTicket \in [Mode -> Nat] /\ Pauses \subseteq Nat /\ MaxWait \in Nat
  /\ MaxUnfit \in [Mode -> Nat]

ASSUME MatchingAssumption == ValidMatching

Quotient(a, b) == IF a >= 0 THEN a \div b ELSE -((-a) \div b)   \* Rust's /

-------------------------------------------------------------------------------
(* The snapshot *)

Spread(ratings) == Max(Range(ratings)) - Min(Range(ratings))

Effective(m, ratings) ==
  LET n == Len(ratings)
      average == Quotient(SumFunction(ratings), n)
      uneven == Quotient(SpreadAdjustment * Spread(ratings), 100)
  IN  average + uneven + (IF m = "FiveVsFive" THEN PartyBonus[n]
                                              ELSE SizeAdjustment * (n - 1))

(* The PartyTicket made of a waiting ticket. *)
Rated(m, t) ==
  LET rating == Effective(m, t.ratings)
  IN  [id |-> t.id, wait |-> t.wait, size |-> Len(t.ratings), rating |-> rating,
       delta |-> SearchDelta(t.wait),
       raw |-> SumFunction(t.ratings),
       off |-> SumFunction([i \in DOMAIN t.ratings |-> Distance(t.ratings[i], rating)])]

(* What a rebuilt ECS world says of the waiting tickets: their parties and the *)
(* players' ratings as they are, nothing left of an earlier state.             *)
World(m, q) == {Rated(m, t) : t \in q}

(* CandidateSnapshot::new sorts by rating, then by age; ids stand for ages.    *)
Cheaper(a, b) == a.rating < b.rating \/ (a.rating = b.rating /\ a.id < b.id)
Cheapest(tickets) == CHOOSE t \in tickets : \A u \in tickets : ~Cheaper(u, t)

-------------------------------------------------------------------------------
(* Candidates: a sequence of teams, a team being a set of tickets; what the    *)
(* candidate is worth; and at, the order in which the builder came upon it.    *)

TicketsOf(c) == UNION Range(c.teams)
IdsOf(c) == {t.id : t \in TicketsOf(c)}

(* Everyone lies within the search width of everyone else. *)
Close(tickets) ==
  LET ratings == {t.rating : t \in tickets}
  IN  Max(ratings) - Min(ratings) <= Min({t.delta : t \in tickets})

Candidate(teams, quality, at) == [teams |-> teams, quality |-> quality, at |-> at]

(* The first n of a set of numbers. *)
FirstOf(numbers, n) ==
  IF Cardinality(numbers) <= n THEN numbers
  ELSE LET last == CHOOSE k \in numbers : Cardinality({j \in numbers : j <= k}) = n
       IN  {k \in numbers : k <= last}

(* Single players who are neighbours in the snapshot. *)
Neighbours(solos) ==
  {w \in solos \X solos : /\ Cheaper(w[1], w[2])
                         /\ ~\E u \in solos : Cheaper(w[1], u) /\ Cheaper(u, w[2])}
OneVOne(tickets) ==
  {Candidate(<< {w[1]}, {w[2]} >>, <<Distance(w[1].rating, w[2].rating), 0, 0>>, 0)
     : w \in {v \in Neighbours({t \in tickets : t.size = 1}) : Close({v[1], v[2]})}}

(* The groups that fill the seats, in the order both builders come upon them:  *)
(* with the cheapest ticket, if its party is not too large, and then without.  *)
(* They are kept for every number of seats left, as the recursion asks.        *)
With(t, groups) == [i \in DOMAIN groups |-> groups[i] \union {t}]
TakeOrLeave(t, rest, seats, largest) ==
  [left \in 0..seats |->
     (IF t.size <= left /\ t.size <= largest THEN With(t, rest[left - t.size]) ELSE << >>)
       \o rest[left]]
Groups(tickets, seats, largest) ==
  MapThenFoldSet(LAMBDA t, rest : TakeOrLeave(t, rest, seats, largest),
                 [left \in 0..seats |-> IF left = 0 THEN << {} >> ELSE << >>],
                 LAMBDA t : t, Cheapest, tickets)[seats]

Structure(team) == [n \in 1..TeamSize |-> Cardinality({t \in team : t.size = n})]
RawTotal(team) == SumFunction([t \in team |-> t.raw])
Advantage(team) == SumFunction([t \in team |-> PartyBonus[t.size] * t.size])
Mean(team, seats) == Quotient(SumFunction([t \in team |-> t.rating * t.size]), seats)

(* Teams of different party structure: only once somebody has waited, and only *)
(* if the side with less of a party bonus makes up for it in ratings.          *)
MirroredAlways(a, b) == TRUE
Mirrored(a, b) == Structure(a) = Structure(b)
MayCross(a, b) ==
  LET raw == RawTotal(a) - RawTotal(b)
      advantage == Advantage(a) - Advantage(b)
  IN  /\ \E t \in a \union b : t.wait >= MirrorSeconds
      /\ ~(advantage > 0 /\ -raw < advantage)
      /\ ~(advantage < 0 /\ raw < -advantage)

Pairs(a, b) == /\ a \cap b = {}
               /\ Mirrored(a, b) \/ MayCross(a, b)
               /\ Close(a \union b)

TeamQuality(a, b) ==
  << Distance(Mean(a, TeamSize), Mean(b, TeamSize)),
     SumFunction([t \in a \union b |-> t.off]),
     SumFunction([n \in 1..TeamSize |-> Distance(Structure(a)[n], Structure(b)[n])]) >>

(* Two nested loops over the first groups; number is the place of a pair.      *)
FiveVFive(tickets) ==
  LET groups == Groups(tickets, TeamSize, TeamSize)
      width == Min({Len(groups), Budget})
      pairs == {p \in (1..width) \X (1..width) : Pairs(groups[p[1]], groups[p[2]])}
      number(p) == width * p[1] + p[2]
      first == FirstOf({number(p) : p \in pairs}, Budget)
  IN  {Candidate(<<groups[p[1]], groups[p[2]]>>,
                 TeamQuality(groups[p[1]], groups[p[2]]), number(p))
         : p \in {q \in pairs : number(q) \in first}}

FreeForAllOf(tickets) ==
  LET groups == Groups(tickets, FfaSeats, FfaParty)
      ratings(g) == {t.rating : t \in g}
      quality(g) == << Max(ratings(g)) - Min(ratings(g)),
                       SumFunction([t \in g |-> Distance(t.rating, Mean(g, FfaSeats)) * t.size]),
                       0 >>
  IN  {Candidate(<<groups[i]>>, quality(groups[i]), i)
         : i \in FirstOf({i \in DOMAIN groups : Close(groups[i])}, Budget)}

Build(m, tickets) == CASE m = "OneVsOne" -> OneVOne(tickets)
                       [] m = "FiveVsFive" -> FiveVFive(tickets)
                       [] m = "FreeForAll" -> FreeForAllOf(tickets)

-------------------------------------------------------------------------------
(* The dispatcher *)

Precedes(a, b) ==
  \E i \in DOMAIN a : /\ i \in DOMAIN b /\ a[i] < b[i]
                      /\ \A j \in 1..(i - 1) : a[j] = b[j]

(* sort_candidates: by this key, the oldest ticket first; the sort is stable,  *)
(* so equal ones keep the order they were built in.                            *)
Ascending(ids) ==                                             \* stable_ticket_ids
  [i \in 1..Cardinality(ids) |-> CHOOSE x \in ids : Cardinality({y \in ids : y < x}) = i - 1]
Key(c, owner) ==
  <<Min(IdsOf(c))>> \o c.quality \o <<owner>> \o Ascending(IdsOf(c)) \o <<c.at>>

(* The candidates of a shard. *)
Owned(cs, owner) == {[teams |-> c.teams, key |-> Key(c, owner)] : c \in cs}
First(cs) == CHOOSE c \in cs : \A d \in cs : ~Precedes(d.key, c.key)

(* Candidates in order, each taken unless an earlier one holds one of its      *)
(* tickets or a twin of one.  A shard's round, which knows of no twins, and    *)
(* the authority's commits both choose this way.                               *)
ApartByTicket(c, cs, twins) == {d \in cs : IdsOf(d) \cap IdsOf(c) = {}}
Apart(c, cs, twins) ==
  {d \in cs : \A x \in IdsOf(c), y \in IdsOf(d) : x # y /\ <<x, y>> \notin twins}
TakeDisjoint(cs, twins) ==
  LET taken[rest \in SUBSET cs] ==
        IF rest = {} THEN << >>
        ELSE <<First(rest)>> \o taken[Apart(First(rest), rest \ {First(rest)}, twins)]
  IN  taken[cs]

(* A shard builds, chooses and builds again from what is left of its part,     *)
(* until nothing is chosen or the budget is full.                              *)
Chosen(m, tickets, owner) == TakeDisjoint(Owned(Build(m, tickets), owner), {})
Left(tickets, chosen) == {t \in tickets : \A c \in Range(chosen) : t.id \notin IdsOf(c)}
AtMost(s, n) == SubSeq(s, 1, Min({Len(s), n}))
Rounds(m, part, owner) ==
  LET local[remaining \in SUBSET part] ==
        LET chosen == Chosen(m, remaining, owner)
        IN  IF chosen = << >> THEN << >> ELSE chosen \o local[Left(remaining, chosen)]
  IN  AtMost(local[part], Budget)

(* The tickets a shard sees: the buckets within each ticket's own search. *)
ShardPart(tickets, bucket) ==
  {t \in tickets : Distance(Bucket(t.rating), bucket) <= Halo(t.delta)}

Generate(m, tickets) ==
  LET owners == {Bucket(t.rating) : t \in tickets}
      number(bucket) == Cardinality({b \in owners : b < bucket})
  IN  UNION {Range(Rounds(m, ShardPart(tickets, bucket), number(bucket))) : bucket \in owners}

(* attempt_match_batch refuses a candidate, and goes on to the next, when one  *)
(* of its tickets has been taken by an earlier one of this pass (claims), when *)
(* its party is unfit, or when a player of it is in a proposal of this pass.   *)
(* (The snapshot is of this very pass: no other revision can be in it.)        *)
Twins(q) ==
  LET shares(w) == w[1] # w[2] /\ w[1].doubles \cap w[2].doubles # {}
  IN  {<<w[1].id, w[2].id>> : w \in {v \in q \X q : shares(v)}}
AdmittedSoFar(cs, refused) ==
  {c \in cs : \A d \in cs : IdsOf(d) \cap refused = {} \/ Precedes(c.key, d.key)}
Admitted(cs, refused) == {c \in cs : IdsOf(c) \cap refused = {}}
Committed(m, q, refused) == TakeDisjoint(Admitted(Generate(m, World(m, q)), refused), Twins(q))

-------------------------------------------------------------------------------
Init == /\ mode \in Mode
        /\ queue = {} /\ nextTicket = 1 /\ unfit = {}

(* next_uuid and logical_clock: no two tickets alike. *)
FollowingSame(n) == n
Following(n) == n + 1

(* enqueue of a party whose ratings lie close enough together.  Several may    *)
(* enter before a pass: a batch of commands, or no server that could host the  *)
(* mode (attempt_match_batch then returns at once).  A player may be listed by *)
(* a second waiting party: accept_invite does not look at the first.           *)
Arrive(ratings, doubles) ==
  /\ nextTicket <= MaxTicket[mode]
  /\ Spread(ratings) <= MaxSpread
  /\ Cardinality(doubles) <= Len(ratings)
  /\ queue' = queue \union {[id |-> nextTicket, ratings |-> ratings, wait |-> 0,
                             doubles |-> doubles]}
  /\ nextTicket' = Following(nextTicket)
  /\ UNCHANGED <<mode, unfit>>

Pause(seconds) ==
  /\ \E t \in queue : t.wait < MaxWait
  /\ queue' = {[t EXCEPT !.wait = IF @ + seconds < MaxWait THEN @ + seconds ELSE MaxWait]
                 : t \in queue}
  /\ UNCHANGED <<mode, nextTicket, unfit>>

(* A waiting party stops being one a commit accepts, or is one again, between  *)
(* two passes: a member's stream drops and his session opens anew, a match he  *)
(* is in is published for another party and ends, the party is taken out of    *)
(* Queued with its ticket left in the queue.  PartyRoster and Session say when *)
(* it happens; here it may happen to any ticket, and the ticket stays.         *)
BecomeUnfit(t) ==
  /\ t.id \notin unfit /\ Cardinality(unfit) < MaxUnfit[mode]
  /\ unfit' = unfit \union {t.id}
  /\ UNCHANGED <<mode, queue, nextTicket>>

BecomeFit(t) ==
  /\ t.id \in unfit
  /\ unfit' = unfit \ {t.id}
  /\ UNCHANGED <<mode, queue, nextTicket>>

(* A pass.  The players of what it commits are in proposals from then on, so   *)
(* the waiting tickets that share one with them are unfit (commit_candidate).  *)
Pass ==
  LET claimed == UNION {IdsOf(c) : c \in Range(Committed(mode, queue, unfit))}
  IN  /\ queue # {}
      /\ queue' = {t \in queue : t.id \notin claimed}
      /\ unfit' = {t.id : t \in {u \in queue' : \/ u.id \in unfit
                                             \/ \E i \in claimed : <<i, u.id>> \in Twins(queue)}}
      /\ UNCHANGED <<mode, nextTicket>>

Next == \/ \E ratings \in Shapes[mode], doubles \in SUBSET Doubles[mode] : Arrive(ratings, doubles)
        \/ \E seconds \in Pauses : Pause(seconds)
        \/ \E t \in queue : BecomeUnfit(t)
        \/ \E t \in queue : BecomeFit(t)
        \/ Pass

Spec == Init /\ [][Next]_vars

-------------------------------------------------------------------------------
(* What a match must be, said of sets of tickets and not of the builders.      *)

Seats(team) == UNION {{t} \X (1..t.size) : t \in team}
SeatsOf(team) == Cardinality(Seats(team))
(* No two of them are further apart than any one of them searches.  (That      *)
(* everyone is in reach of those who search for him would not be enough: the   *)
(* code also asks it of the ticket that lies between the two.)                 *)
WithinReach(tickets) ==
  \A t, u, v \in tickets : Distance(t.rating, u.rating) <= v.delta
SameParties(a, b) ==
  \A n \in 1..TeamSize : Cardinality({t \in a : t.size = n}) = Cardinality({t \in b : t.size = n})

(* The team whose parties are larger must be the weaker one by at least the    *)
(* bonus the larger parties are worth.                                         *)
Compensated(a, b) ==
  Advantage(a) > Advantage(b) => RawTotal(b) - RawTotal(a) >= Advantage(a) - Advantage(b)

Fair(m, teams) ==
  LET all == UNION Range(teams)
  IN  /\ WithinReach(all)
      /\ m = "OneVsOne" => /\ Len(teams) = 2
                           /\ \A i \in 1..2 : Cardinality(teams[i]) = 1 /\ SeatsOf(teams[i]) = 1
      /\ m = "FreeForAll" => SeatsOf(all) = FfaSeats
      /\ m = "FiveVsFive" =>
           LET a == teams[1]  b == teams[2]
           IN  /\ SeatsOf(a) = TeamSize /\ SeatsOf(b) = TeamSize /\ a \cap b = {}
               /\ \/ SameParties(a, b)
                  \/ /\ \E t \in all : t.wait >= MirrorSeconds
                     /\ Compensated(a, b) /\ Compensated(b, a)

(* A ticket that some match of waiting tickets could take.  In one against one *)
(* the code only looks at neighbours in the order of ratings.                  *)
Matchable(m, t, tickets) ==
  CASE m = "OneVsOne" ->
         LET solos == {u \in tickets : u.size = 1}
             between(u, v) == \E w \in solos : Cheaper(u, w) /\ Cheaper(w, v)
         IN  t \in solos /\ \E u \in solos \ {t} :
               WithinReach({t, u}) /\ ~between(t, u) /\ ~between(u, t)
    [] m = "FiveVsFive" ->
         \E a \in SUBSET tickets : t \in a /\ SeatsOf(a) = TeamSize
            /\ \E b \in SUBSET (tickets \ a) : Fair(m, <<a, b>>)
    [] m = "FreeForAll" ->
         \E g \in SUBSET tickets : /\ t \in g /\ \A u \in g : u.size <= FfaParty
                                   /\ Fair(m, <<g>>)

-------------------------------------------------------------------------------
(* The queue holds distinct tickets among those issued.                        *)
MatchingTypeOK ==
  /\ mode \in Mode /\ nextTicket \in 1..(MaxTicket[mode] + 1)
  /\ queue \subseteq [id : 1..(nextTicket - 1), ratings : Shapes[mode], wait : 0..MaxWait,
                      doubles : SUBSET Doubles[mode]]
  /\ \A t, u \in queue : t.id = u.id => t = u
  /\ unfit \subseteq {t.id : t \in queue}

(* Whatever shards propose and however their candidates overlap, every match   *)
(* that a pass over the queue commits seats exactly the players its mode       *)
(* needs, spans no more than the narrowest search in it, and in five against   *)
(* five the two sides share no party and are mirrored, or the waiting and      *)
(* rating conditions of a cross-structure match hold.                          *)
FairMatches == \A c \in Range(Committed(mode, queue, unfit)) : Fair(mode, c.teams)

(* No ticket and no player is in two matches of a pass, although shards see    *)
(* overlapping parts of the queue, a shard goes round several times, and no    *)
(* builder knows that two parties list the same player; and a party that is    *)
(* unfit is in none.  (Both parties of such a player may still be in one and   *)
(* the same match: neither a builder nor the commit looks.)                    *)
DisjointMatches ==
  LET committed == Committed(mode, queue, unfit)
  IN  /\ \A i, j \in DOMAIN committed : i # j =>
           \A x \in IdsOf(committed[i]), y \in IdsOf(committed[j]) :
             x # y /\ <<x, y>> \notin Twins(queue)
      /\ \A i \in DOMAIN committed : IdsOf(committed[i]) \cap unfit = {}

(* The queue is so short that no shard runs out of budget: as many pairs of    *)
(* groups that fill the seats as the budget has room for.                      *)
Filled(m, tickets) ==
  {g \in SUBSET tickets : SeatsOf(g) = IF m = "FreeForAll" THEN FfaSeats ELSE TeamSize}
BudgetSuffices ==
  mode = "OneVsOne" \/ LET groups == Cardinality(Filled(mode, World(mode, queue)))
                       IN  groups * groups <= Budget

(* A pass serves age before quality: of the waiting tickets that could be in a *)
(* match, each is in one when the pass ends, or an older ticket is, whichever  *)
(* shards its possible opponents belong to - unless the shard of its own       *)
(* bucket sees a party that is unfit.  (There the code serves nobody it need   *)
(* serve: builders know nothing of the commit's conditions, so a party with an *)
(* offline member, while it waits, can keep an older one from the match it     *)
(* could have had without it.  See MirroredQueueServed for a queue that        *)
(* exhausts the budget.)                                                       *)
Seen(tickets, t) == ShardPart(tickets, Bucket(t.rating))
ServedBy(t, committed) == \E c \in Range(committed) : \E id \in IdsOf(c) : id <= t.id
AbleIn(tickets) == {t \in tickets : Matchable(mode, t, tickets)}
OldestServed ==
  BudgetSuffices =>
    LET tickets == World(mode, queue)
        committed == Committed(mode, queue, unfit)
    IN  \A t \in AbleIn(tickets) :
          (\A u \in Seen(tickets, t) : u.id \notin unfit) => ServedBy(t, committed)

(* Two teams' worth of equal single players are matched by the next pass.      *)
MirroredQueueServed ==
  /\ mode = "FiveVsFive" /\ Cardinality(queue) >= 2 * TeamSize
  /\ \A t, u \in queue : t.ratings = u.ratings /\ Len(t.ratings) = 1
  /\ unfit = {}
  => Committed(mode, queue, unfit) # << >>
=============================================================================
