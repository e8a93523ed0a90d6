------------------------------ MODULE MCMatching -------------------------------
(* Small queues for Matching: two seats a team, three seats in a free-for-all, *)
(* and ratings on both sides of the edges of a bucket and of a search width.   *)
EXTENDS Matching

MCPartyBonus == <<0, 5, 10, 20, 30>>

MCShapes == [OneVsOne   |-> {<<1000>>, <<1099>>, <<1160>>, <<1549>>},
             FiveVsFive |-> {<<1000>>, <<1110>>, <<1000, 1000>>},
             FreeForAll |-> {<<990>>, <<1099>>, <<1160>>, <<1000, 1040>>}]
MCMaxTicket == [OneVsOne |-> 4, FiveVsFive |-> 5, FreeForAll |-> 4]

(* One player may be listed by several parties of duellists, and one party at  *)
(* a time becomes unfit, in the modes of pairs and of groups alike.            *)
MCDoubles == [OneVsOne |-> {"twin"}, FiveVsFive |-> {}, FreeForAll |-> {}]
MCMaxUnfit == [m \in Mode |-> 1]

SoloShapes == [m \in Mode |-> IF m = "FiveVsFive" THEN {<<1000>>} ELSE {}]
SoloMaxTicket == [m \in Mode |-> 16]
SoloDoubles == [m \in Mode |-> {}]
SoloMaxUnfit == [m \in Mode |-> 0]
===============================================================================
