---------------------------- MODULE MatchingProofs -----------------------------
(* For every queue, mode and configuration: the matches a pass commits are     *)
(* fair and share no ticket, and age is served first while the budget lasts.   *)
(*                                                                             *)
(* Only the type of the queue is proved by induction over steps.  The rest is  *)
(* what one pass computes from a typed queue, proved from the builders up:     *)
(* the groups listed, the candidates built from them, the choice of a shard,   *)
(* its rounds, what all shards generate, and what the authority commits.       *)
EXTENDS Matching, FiniteSetTheorems, WellFoundedInduction, TLAPS

-------------------------------------------------------------------------------
(* Finite sets: induction and minima. The library states induction with an     *)
(* operator for the predicate, which cannot be cited here; the least subset    *)
(* that is bad replaces it.                                                    *)

(* A nonempty set of subsets of a finite set has a smallest member.            *)
LEMMA SmallestSubset ==
  ASSUME NEW S, IsFiniteSet(S), NEW Bad \in SUBSET (SUBSET S), Bad # {}
  PROVE  \E s \in Bad : \A u \in Bad : ~(u \subseteq s /\ u # s)
<1>1. Bad \subseteq FiniteSubsetsOf(S)
  BY FS_Subset DEF FiniteSubsetsOf
<1>2. \E s \in Bad : \A u \in Bad : ~(<<u, s>> \in StrictSubsetOrdering(S))
  BY <1>1, WFMin, FS_StrictSubsetOrderingWellFounded
<1>3. QED BY <1>2 DEF StrictSubsetOrdering

(* A nonempty finite set has a minimal element for any irreflexive and         *)
(* transitive relation.                                                        *)
LEMMA MinimalElement ==
  ASSUME NEW S, IsFiniteSet(S), S # {}, NEW R,
         \A x \in S : <<x, x>> \notin R,
         \A x, y, z \in S : <<x, y>> \in R /\ <<y, z>> \in R => <<x, z>> \in R
  PROVE  \E x \in S : \A y \in S : <<y, x>> \notin R
<1> DEFINE Below(x) == {y \in S : <<y, x>> \in R}
           Belows == {Below(x) : x \in S}
<1>1. Belows \in SUBSET (SUBSET S) /\ Belows # {}
  <2>1. \A x \in S : Below(x) \in SUBSET S
    OBVIOUS
  <2> HIDE DEF Below
  <2>2. \A s \in Belows : s \in SUBSET S
    BY <2>1
  <2>3. PICK x \in S : TRUE
    OBVIOUS
  <2>4. Below(x) \in Belows
    OBVIOUS
  <2>5. QED BY <2>2, <2>4
<1>2. PICK x \in S : \A y \in S : ~(Below(y) \subseteq Below(x) /\ Below(y) # Below(x))
  <2>1. \E s \in Belows : \A u \in Belows : ~(u \subseteq s /\ u # s)
    <3> HIDE DEF Belows
    <3> QED BY <1>1, SmallestSubset
  <2> HIDE DEF Below
  <2>2. QED BY <2>1
<1>3. ASSUME NEW y \in S, <<y, x>> \in R PROVE FALSE
  <2>1. Below(y) \subseteq Below(x) /\ y \in Below(x) /\ y \notin Below(y)
    BY <1>3
  <2>2. QED BY <2>1, <1>2
<1>4. QED BY <1>3

(* Max and Min of a nonempty finite set of integers are its bounds.            *)
LEMMA MaxMin ==
  ASSUME NEW S \in SUBSET Int, IsFiniteSet(S), S # {}
  PROVE  /\ Max(S) \in S /\ \A y \in S : y <= Max(S)
         /\ Min(S) \in S /\ \A y \in S : Min(S) <= y
<1>1. \E x \in S : \A y \in S : x >= y
  <2> DEFINE R == {p \in S \X S : p[1] > p[2]}
  <2>1. /\ \A x \in S : <<x, x>> \notin R
        /\ \A x, y, z \in S : <<x, y>> \in R /\ <<y, z>> \in R => <<x, z>> \in R
    OBVIOUS
  <2>2. \A x, y \in S : <<y, x>> \notin R => x >= y
    OBVIOUS
  <2> HIDE DEF R
  <2>3. \E x \in S : \A y \in S : <<y, x>> \notin R
    BY <2>1, MinimalElement
  <2>4. QED BY <2>2, <2>3
<1>2. \E x \in S : \A y \in S : x <= y
  <2> DEFINE R == {p \in S \X S : p[1] < p[2]}
  <2>1. /\ \A x \in S : <<x, x>> \notin R
        /\ \A x, y, z \in S : <<x, y>> \in R /\ <<y, z>> \in R => <<x, z>> \in R
    OBVIOUS
  <2>2. \A x, y \in S : <<y, x>> \notin R => x <= y
    OBVIOUS
  <2> HIDE DEF R
  <2>3. \E x \in S : \A y \in S : <<y, x>> \notin R
    BY <2>1, MinimalElement
  <2>4. QED BY <2>2, <2>3
<1>3. Max(S) \in S /\ \A y \in S : Max(S) >= y
  BY <1>1 DEF Max
<1>4. Min(S) \in S /\ \A y \in S : Min(S) <= y
  BY <1>2 DEF Min
<1>5. QED BY <1>3, <1>4

(* The range of a function on a finite set is finite and no larger.            *)
LEMMA ImageFinite ==
  ASSUME NEW S, IsFiniteSet(S), NEW T, NEW f \in [S -> T]
  PROVE  IsFiniteSet(Range(f)) /\ Cardinality(Range(f)) <= Cardinality(S)
<1>1. f \in Surjection(S, Range(f))
  <2>1. f \in [S -> Range(f)]
    BY DEF Range
  <2>2. QED BY <2>1 DEF Surjection, Range
<1>2. QED BY <1>1, FS_Surjection

-------------------------------------------------------------------------------
(* Functions that recur on the subsets of a finite set exist: the dispatcher's *)
(* rounds, its disjoint choice and the list of groups are all of this form.    *)

(* A recursion over the subsets of S with values in T: base on the subsets in  *)
(* stop, and elsewhere a step from the value at a strictly smaller subset.     *)
Recursion(S, T, stop, base, next, step) ==
  /\ IsFiniteSet(S) /\ stop \in SUBSET (SUBSET S)
  /\ base \in [SUBSET S -> T]
  /\ next \in [SUBSET S -> SUBSET S] /\ step \in [(SUBSET S) \X T -> T]
  /\ \A s \in SUBSET S : s \in stop \/ (next[s] \subseteq s /\ next[s] # s)
Solution(f, S, T, stop, base, next, step) ==
  /\ f \in [SUBSET S -> T]
  /\ \A s \in SUBSET S : f[s] = IF s \in stop THEN base[s] ELSE step[<<s, f[next[s]]>>]

(* Least fixed point of the closure conditions, then uniqueness by the         *)
(* smallest subset at which it fails.                                          *)
LEMMA SubsetRecursion ==
  ASSUME NEW S, NEW T, NEW stop, NEW base, NEW next, NEW step,
         Recursion(S, T, stop, base, next, step)
  PROVE  \E f : Solution(f, S, T, stop, base, next, step)
<1> USE DEF Recursion
<1> DEFINE Closed(Q) == \A s \in SUBSET S :
                          /\ s \in stop => <<s, base[s]>> \in Q
                          /\ s \notin stop => \A v \in T : <<next[s], v>> \in Q
                                                => <<s, step[<<s, v>>]>> \in Q
           R == {p \in (SUBSET S) \X T : \A Q \in SUBSET ((SUBSET S) \X T) : Closed(Q) => p \in Q}
           Single(s) == \E v \in T : \A w \in T : <<s, w>> \in R <=> w = v
<1>1. Closed(R)
  <2> SUFFICES ASSUME NEW s \in SUBSET S
               PROVE  /\ s \in stop => <<s, base[s]>> \in R
                      /\ s \notin stop => \A v \in T : <<next[s], v>> \in R
                                            => <<s, step[<<s, v>>]>> \in R
    OBVIOUS
  <2>1. ASSUME s \in stop PROVE <<s, base[s]>> \in R
    BY <2>1
  <2>2. ASSUME s \notin stop, NEW v \in T, <<next[s], v>> \in R PROVE <<s, step[<<s, v>>]>> \in R
    <3>1. <<s, v>> \in (SUBSET S) \X T /\ step[<<s, v>>] \in T
      OBVIOUS
    <3>2. ASSUME NEW Q \in SUBSET ((SUBSET S) \X T), Closed(Q) PROVE <<s, step[<<s, v>>]>> \in Q
      BY <2>2, <3>2
    <3>3. QED BY <3>1, <3>2
  <2>3. QED BY <2>1, <2>2
<1>2. ASSUME NEW s \in SUBSET S, NEW w \in T, <<s, w>> \in R PROVE ~Closed(R \ {<<s, w>>})
  <2> HIDE DEF Closed
  <2> DEFINE Q == R \ {<<s, w>>}
  <2>1. Q \in SUBSET ((SUBSET S) \X T) /\ <<s, w>> \notin Q
    OBVIOUS
  <2>2. Closed(Q) => <<s, w>> \in Q
    <3> HIDE DEF Q
    <3> QED BY <2>1, <1>2
  <2>3. QED BY <2>1, <2>2
<1>3. ASSUME NEW s \in SUBSET S, \A u \in SUBSET S : u \subseteq s /\ u # s => Single(u)
      PROVE  Single(s)
  <2>1. CASE s \in stop
    <3>1. <<s, base[s]>> \in R /\ base[s] \in T
      BY <1>1, <2>1
    <3>2. ASSUME NEW w \in T, <<s, w>> \in R, w # base[s] PROVE FALSE
      <4>1. Closed(R \ {<<s, w>>})
        BY <1>1, <2>1, <3>2
      <4>2. QED BY <4>1, <1>2, <3>2
    <3>3. QED BY <3>1, <3>2
  <2>2. CASE s \notin stop
    <3>1. PICK v \in T : \A w \in T : <<next[s], w>> \in R <=> w = v
      BY <1>3, <2>2
    <3> DEFINE x == step[<<s, v>>]
    <3>2. x \in T /\ <<s, x>> \in R
      BY <1>1, <2>2, <3>1
    <3>3. ASSUME NEW w \in T, <<s, w>> \in R, w # x PROVE FALSE
      <4>1. Closed(R \ {<<s, w>>})
        BY <1>1, <2>2, <3>1, <3>3
      <4>2. QED BY <4>1, <1>2, <3>3
    <3>4. QED BY <3>2, <3>3
  <2>3. QED BY <2>1, <2>2
<1>4. \A s \in SUBSET S : Single(s)
  <2> HIDE DEF Single
  <2> DEFINE Bad == {s \in SUBSET S : ~Single(s)}
  <2>1. SUFFICES ASSUME Bad # {} PROVE FALSE
    OBVIOUS
  <2>2. PICK s \in Bad : \A u \in Bad : ~(u \subseteq s /\ u # s)
    <3>1. Bad \in SUBSET (SUBSET S)
      OBVIOUS
    <3> HIDE DEF Bad
    <3> QED BY <2>1, <3>1, SmallestSubset
  <2>3. QED BY <2>2, <1>3
<1> DEFINE f == [s \in SUBSET S |-> CHOOSE v \in T : <<s, v>> \in R]
<1>5. ASSUME NEW s \in SUBSET S
      PROVE  f[s] \in T /\ \A w \in T : <<s, w>> \in R <=> w = f[s]
  <2> HIDE DEF R
  <2>1. PICK v \in T : \A w \in T : <<s, w>> \in R <=> w = v
    BY <1>4
  <2>2. (CHOOSE w \in T : <<s, w>> \in R) = v
    BY <2>1
  <2>3. QED BY <2>1, <2>2
<1>6. ASSUME NEW s \in SUBSET S
      PROVE  f[s] = IF s \in stop THEN base[s] ELSE step[<<s, f[next[s]]>>]
  <2> HIDE DEF f, R
  <2>1. next[s] \in SUBSET S /\ f[next[s]] \in T /\ <<next[s], f[next[s]]>> \in R
    BY <1>5
  <2>2. base[s] \in T /\ step[<<s, f[next[s]]>>] \in T
    BY <2>1
  <2>3. CASE s \in stop
    <3>1. <<s, base[s]>> \in R
      BY <1>1, <2>3
    <3>2. QED BY <1>5, <2>2, <2>3, <3>1
  <2>4. CASE s \notin stop
    <3>1. <<s, step[<<s, f[next[s]]>>]>> \in R
      BY <1>1, <2>1, <2>4
    <3>2. QED BY <1>5, <2>2, <2>4, <3>1
  <2>5. QED BY <2>3, <2>4
<1>7. f \in [SUBSET S -> T]
  BY <1>5
<1>8. QED BY <1>6, <1>7 DEF Solution

(* A sum over a finite domain is an integer, whatever order SumFunction picks. *)
LEMMA SumType ==
  ASSUME NEW f, IsFiniteSet(DOMAIN f), \A x \in DOMAIN f : f[x] \in Int
  PROVE SumFunction(f) \in Int
<1> DEFINE D == DOMAIN f
           Pick(s) == CHOOSE x \in s : TRUE
           Body(g) == [s \in SUBSET D |-> IF s = {} THEN 0 ELSE f[Pick(s)] + g[s \ {Pick(s)}]]
           sum == CHOOSE g : g = Body(g)
<1>0. \A s \in SUBSET D : s # {} => Pick(s) \in s
  OBVIOUS
<1>a. IsFiniteSet(D)
  OBVIOUS
<1>1. SumFunction(f) = sum[D]
  BY DEF SumFunction, SumFunctionOnSet, FoldFunctionOnSet, MapThenFoldSet
<1> HIDE DEF Pick
<1>2. \E g \in [SUBSET D -> Int] : g = Body(g)
  <2> DEFINE base == [s \in SUBSET D |-> 0]
             next == [s \in SUBSET D |-> s \ {Pick(s)}]
             step == [p \in (SUBSET D) \X Int |-> IF p[1] = {} THEN 0 ELSE f[Pick(p[1])] + p[2]]
             stop == {{}}
  <2>0. stop \in SUBSET (SUBSET D)
    OBVIOUS
  <2>1. base \in [SUBSET D -> Int] /\ next \in [SUBSET D -> SUBSET D]
    OBVIOUS
  <2>2. step \in [(SUBSET D) \X Int -> Int]
    BY <1>0
  <2>3. \A s \in SUBSET D : s \in stop \/ (next[s] \subseteq s /\ next[s] # s)
    BY <1>0
  <2>4. Recursion(D, Int, stop, base, next, step)
    BY <1>a, <2>0, <2>1, <2>2, <2>3 DEF Recursion
  <2> HIDE DEF base, next, step, stop, D
  <2>s. PICK g : Solution(g, D, Int, stop, base, next, step)
    BY <2>4, SubsetRecursion
  <2>5. \A s \in SUBSET D : g[s] = IF s = {} THEN 0 ELSE f[Pick(s)] + g[s \ {Pick(s)}]
    BY <2>s DEF Solution, base, next, step, stop
  <2>6. g = Body(g)
    BY <2>5, <2>s DEF Solution
  <2>7. QED BY <2>6, <2>s DEF Solution
<1>3. sum = Body(sum)
  <2> HIDE DEF Body
  <2> QED BY <1>2
<1>4. \A s \in SUBSET D : sum[s] = IF s = {} THEN 0 ELSE f[Pick(s)] + sum[s \ {Pick(s)}]
  <2> HIDE DEF sum
  <2> QED BY <1>3
<1> HIDE DEF sum, Body
<1>z. sum[{}] \in Int
  <2>1. sum[{}] = 0
    BY <1>4
  <2> QED BY <2>1
<1> DEFINE Bad == {s \in SUBSET D : sum[s] \notin Int}
<1>5. Bad = {}
  <2>1. SUFFICES ASSUME Bad # {} PROVE FALSE
    OBVIOUS
  <2>2. PICK s \in Bad : \A u \in Bad : ~(u \subseteq s /\ u # s)
    <3>1. Bad \in SUBSET (SUBSET D)
      OBVIOUS
    <3> HIDE DEF Bad, D
    <3> QED BY <1>a, <2>1, <3>1, SmallestSubset
  <2>s. s \in SUBSET D /\ sum[s] \notin Int
    BY <2>2
  <2>3. CASE s = {}
    BY <1>z, <2>3, <2>s
  <2>4. CASE s # {}
    <3>1. Pick(s) \in s /\ f[Pick(s)] \in Int
      BY <1>0, <2>4
    <3>2. sum[s \ {Pick(s)}] \in Int
      BY <2>2, <3>1
    <3>3. QED BY <1>4, <2>4, <3>1, <3>2
  <2>5. QED BY <2>3, <2>4
<1>6. QED BY <1>1, <1>5

-------------------------------------------------------------------------------
(* A reachable queue makes a well-formed snapshot.                             *)

(* A ticket of the snapshot, and a snapshot a reachable queue can have.        *)
Ticket == [id : Nat, wait : Nat, size : Nat \ {0}, rating : Int, delta : Int, raw : Int, off : Int]
Waiting(m, W) ==
  /\ W \subseteq Ticket /\ IsFiniteSet(W)
  /\ \A t, u \in W : t.id = u.id => t = u
  /\ m = "FiveVsFive" => \A t \in W : t.size <= TeamSize

(* The same, for a function declared on its domain.                            *)
LEMMA SumOver ==
  ASSUME NEW S, IsFiniteSet(S), NEW f \in [S -> Int]
  PROVE  SumFunction(f) \in Int
<1>1. DOMAIN f = S /\ \A x \in DOMAIN f : f[x] \in Int
  OBVIOUS
<1>2. QED BY <1>1, SumType

(* Rust's division of integers is an integer.                                  *)
LEMMA QuotientType ==
  ASSUME NEW a \in Int, NEW b \in Nat \ {0}
  PROVE  Quotient(a, b) \in Int
BY DEF Quotient

(* abs_diff is a natural number and symmetric.                                 *)
LEMMA DistanceType ==
  ASSUME NEW x \in Int, NEW y \in Int
  PROVE  Distance(x, y) \in Nat /\ Distance(x, y) = Distance(y, x)
BY DEF Distance

(* The width of a search is an integer.                                        *)
LEMMA SearchDeltaType ==
  ASSUME NEW waited \in Nat
  PROVE  SearchDelta(waited) \in Int
<1>1. waited \div StepSeconds \in Int
  BY RangeAssumption DEF ValidRange
<1>2. DeltaStep * (waited \div StepSeconds) \in Int
  BY <1>1, RangeAssumption DEF ValidRange
<1>3. QED BY <1>2, RangeAssumption DEF ValidRange, SearchDelta

(* The range of a sequence is finite.                                          *)
LEMMA SeqFinite ==
  ASSUME NEW T, NEW s \in Seq(T)
  PROVE  /\ DOMAIN s = 1..Len(s) /\ s \in [1..Len(s) -> T] /\ Len(s) \in Nat
         /\ IsFiniteSet(DOMAIN s)
         /\ IsFiniteSet(Range(s)) /\ Range(s) \in SUBSET T
         /\ Cardinality(Range(s)) <= Len(s)
<1>1. DOMAIN s = 1..Len(s) /\ s \in [1..Len(s) -> T] /\ Len(s) \in Nat
  OBVIOUS
<1>2. IsFiniteSet(1..Len(s)) /\ Cardinality(1..Len(s)) = Len(s)
  <2> DEFINE n == Len(s)
  <2>1. n \in Nat
    BY <1>1
  <2> HIDE DEF n
  <2>2. IsFiniteSet(1..n) /\ Cardinality(1..n) = n
    BY <2>1, FS_Interval
  <2>3. QED BY <2>2 DEF n
<1>3. IsFiniteSet(Range(s)) /\ Cardinality(Range(s)) <= Len(s)
  BY <1>1, <1>2, ImageFinite
<1>4. Range(s) \in SUBSET T
  BY <1>1 DEF Range
<1>5. QED BY <1>1, <1>2, <1>3, <1>4

(* The effective rating of a party is an integer.                              *)
LEMMA EffectiveType ==
  ASSUME NEW m \in Mode, NEW ratings \in Shapes[m]
  PROVE  Effective(m, ratings) \in Int
<1>1. ratings \in Seq(Int) /\ ratings # << >>
  BY MatchingAssumption DEF ValidMatching
<1>2. /\ Len(ratings) \in Nat \ {0} /\ ratings \in [1..Len(ratings) -> Int]
      /\ Range(ratings) # {} /\ Range(ratings) \in SUBSET Int /\ IsFiniteSet(Range(ratings))
  <2>1. Len(ratings) \in Nat \ {0}
    BY <1>1
  <2>2. ratings[1] \in Range(ratings)
    BY <1>1, <2>1 DEF Range
  <2>3. QED BY <1>1, <2>1, <2>2, SeqFinite
<1>3. SumFunction(ratings) \in Int
  BY <1>1, <1>2, SeqFinite, SumOver
<1>4. Quotient(SumFunction(ratings), Len(ratings)) \in Int
  BY <1>2, <1>3, QuotientType
<1>5. Spread(ratings) \in Int
  BY <1>2, MaxMin DEF Spread
<1>6. Quotient(SpreadAdjustment * Spread(ratings), 100) \in Int
  BY <1>5, QuotientType, MatchingAssumption DEF ValidMatching
<1>7. (IF m = "FiveVsFive" THEN PartyBonus[Len(ratings)] ELSE SizeAdjustment * (Len(ratings) - 1)) \in Int
  <2>1. CASE m = "FiveVsFive"
    BY <2>1, <1>2, MatchingAssumption DEF ValidMatching
  <2>2. CASE m # "FiveVsFive"
    BY <2>2, <1>2, MatchingAssumption DEF ValidMatching
  <2>3. QED BY <2>1, <2>2
<1>8. QED BY <1>4, <1>6, <1>7 DEF Effective

(* A waiting ticket is rated as a well-formed snapshot ticket with the same id *)
(* and wait.                                                                   *)
LEMMA RatedType ==
  ASSUME NEW m \in Mode, NEW t, t.id \in Nat, t.wait \in Nat, t.ratings \in Shapes[m]
  PROVE  /\ Rated(m, t) \in Ticket
         /\ Rated(m, t).id = t.id /\ Rated(m, t).wait = t.wait
         /\ m = "FiveVsFive" => Rated(m, t).size <= TeamSize
<1> DEFINE rating == Effective(m, t.ratings)
           off == [i \in DOMAIN t.ratings |-> Distance(t.ratings[i], rating)]
<1>1. t.ratings \in Seq(Int) /\ t.ratings # << >>
  BY MatchingAssumption DEF ValidMatching
<1>2. Len(t.ratings) \in Nat \ {0}
  BY <1>1
<1>3. rating \in Int
  BY EffectiveType
<1>4. SearchDelta(t.wait) \in Int
  BY SearchDeltaType
<1>5. SumFunction(t.ratings) \in Int
  BY <1>1, SeqFinite, SumOver
<1>6. SumFunction(off) \in Int
  <2>1. IsFiniteSet(DOMAIN t.ratings) /\ DOMAIN t.ratings = 1..Len(t.ratings)
    BY <1>1, SeqFinite
  <2>2. off \in [DOMAIN t.ratings -> Int]
    <3>1. ASSUME NEW i \in DOMAIN t.ratings PROVE Distance(t.ratings[i], rating) \in Int
      <4>1. t.ratings[i] \in Int
        BY <1>1
      <4> HIDE DEF rating
      <4>2. Distance(t.ratings[i], rating) \in Nat
        BY <4>1, <1>3, DistanceType
      <4>3. QED BY <4>2
    <3>2. QED BY <3>1
  <2>3. QED BY <2>1, <2>2, SumOver
<1>7. m = "FiveVsFive" => Len(t.ratings) <= TeamSize
  BY MatchingAssumption DEF ValidMatching
<1>8. QED
  <2> HIDE DEF rating
  <2>1. Rated(m, t) = [id |-> t.id, wait |-> t.wait, size |-> Len(t.ratings), rating |-> rating,
                       delta |-> SearchDelta(t.wait), raw |-> SumFunction(t.ratings),
                       off |-> SumFunction(off)]
    BY DEF Rated, rating
  <2> HIDE DEF off
  <2>2. QED BY <2>1, <1>2, <1>3, <1>4, <1>5, <1>6, <1>7 DEF Ticket

(* The queue is finite, since ids are distinct and bounded.                    *)
LEMMA QueueFinite ==
  ASSUME MatchingTypeOK
  PROVE  IsFiniteSet(queue)
<1> DEFINE f == [t \in queue |-> t.id]
<1>1. MaxTicket[mode] \in Nat
  BY MatchingAssumption DEF ValidMatching, MatchingTypeOK
<1>2. f \in Injection(queue, 1..(nextTicket - 1))
  BY DEF MatchingTypeOK, Injection, IsInjective
<1>3. IsFiniteSet(1..(nextTicket - 1))
  BY <1>1, FS_Interval DEF MatchingTypeOK
<1>4. QED BY <1>2, <1>3, FS_Injection

(* The snapshot of a typed queue is well formed: distinct ids, finite, parties *)
(* that fit a team.                                                            *)
LEMMA WorldType ==
  ASSUME MatchingTypeOK
  PROVE  mode \in Mode /\ Waiting(mode, World(mode, queue))
<1> DEFINE W == World(mode, queue)
           f == [t \in queue |-> Rated(mode, t)]
<1>0. mode \in Mode /\ MaxTicket[mode] \in Nat /\ MaxWait \in Nat
  BY MatchingAssumption DEF MatchingTypeOK, ValidMatching
<1>1. ASSUME NEW t \in queue
      PROVE  t.id \in Nat /\ t.wait \in Nat /\ t.ratings \in Shapes[mode]
  BY <1>0 DEF MatchingTypeOK
<1>2. ASSUME NEW t \in queue
      PROVE  /\ Rated(mode, t) \in Ticket /\ Rated(mode, t).id = t.id
             /\ mode = "FiveVsFive" => Rated(mode, t).size <= TeamSize
  BY <1>0, <1>1, RatedType
<1>3. W = Range(f)
  BY DEF World, Range
<1>4. IsFiniteSet(W)
  <2>1. f \in [queue -> Ticket]
    BY <1>2
  <2>2. QED BY <1>3, <2>1, QueueFinite, ImageFinite
<1>5. W \subseteq Ticket /\ (mode = "FiveVsFive" => \A t \in W : t.size <= TeamSize)
  BY <1>2 DEF World
<1>6. ASSUME NEW t \in W, NEW u \in W, t.id = u.id PROVE t = u
  <2>1. PICK a \in queue : t = Rated(mode, a)
    BY DEF World
  <2>2. PICK b \in queue : u = Rated(mode, b)
    BY DEF World
  <2>3. a.id = b.id
    BY <1>2, <1>6, <2>1, <2>2
  <2>4. QED BY <2>1, <2>2, <2>3 DEF MatchingTypeOK
<1>7. QED BY <1>0, <1>4, <1>5, <1>6 DEF Waiting

-------------------------------------------------------------------------------
(* Seats.                                                                      *)

(* A finite team takes finitely many seats.                                    *)
LEMMA SeatsType ==
  ASSUME NEW g, IsFiniteSet(g), \A t \in g : t.size \in Nat
  PROVE  IsFiniteSet(Seats(g)) /\ SeatsOf(g) \in Nat
<1> DEFINE seats == [t \in g |-> {t} \X (1..t.size)]
<1>1. \A t \in g : IsFiniteSet(seats[t])
  <2> SUFFICES ASSUME NEW t \in g PROVE IsFiniteSet(seats[t])
    OBVIOUS
  <2> DEFINE n == t.size
  <2>1. n \in Nat
    OBVIOUS
  <2> HIDE DEF n
  <2>2. IsFiniteSet({t})
    BY FS_Singleton
  <2>3. IsFiniteSet(1..n)
    BY <2>1, FS_Interval
  <2>4. IsFiniteSet({t} \X (1..n))
    BY <2>2, <2>3, FS_Product
  <2>5. QED BY <2>4 DEF n
<1>2. seats \in [g -> Range(seats)]
  BY DEF Range
<1> HIDE DEF seats
<1>3. IsFiniteSet(Range(seats))
  BY <1>2, ImageFinite
<1>4. \A s \in Range(seats) : IsFiniteSet(s)
  BY <1>1, <1>2 DEF Range
<1>5. IsFiniteSet(UNION Range(seats))
  BY <1>3, <1>4, FS_UNION
<1>6. Seats(g) = UNION Range(seats)
  BY DEF Seats, Range, seats
<1>7. QED BY <1>5, <1>6, FS_CardinalityType DEF SeatsOf

(* No tickets take no seats.                                                   *)
LEMMA SeatsNone == SeatsOf({}) = 0
<1>1. Seats({}) = {}
  BY DEF Seats
<1>2. QED BY <1>1, FS_EmptySet DEF SeatsOf

(* A further ticket takes the seats of its party.                              *)
LEMMA SeatsAdd ==
  ASSUME NEW g, IsFiniteSet(g), \A t \in g : t.size \in Nat,
         NEW t, t \notin g, t.size \in Nat
  PROVE  SeatsOf(g \union {t}) = SeatsOf(g) + t.size
<1> DEFINE n == t.size
           own == {t} \X (1..n)
<1>1. IsFiniteSet(own) /\ Cardinality(own) = n
  <2>1. n \in Nat
    OBVIOUS
  <2> HIDE DEF n
  <2>2. IsFiniteSet({t}) /\ Cardinality({t}) = 1
    BY FS_Singleton
  <2>3. IsFiniteSet(1..n) /\ Cardinality(1..n) = n
    BY <2>1, FS_Interval
  <2> DEFINE one == {t}
             many == 1..n
  <2>3a. IsFiniteSet(one) /\ Cardinality(one) = 1 /\ IsFiniteSet(many) /\ Cardinality(many) = n
    BY <2>2, <2>3
  <2> HIDE DEF one, many
  <2>3b. IsFiniteSet(one \X many) /\ Cardinality(one \X many) = Cardinality(one) * Cardinality(many)
    BY <2>3a, FS_Product
  <2>4. IsFiniteSet({t} \X (1..n)) /\ Cardinality({t} \X (1..n)) = 1 * n
    BY <2>3a, <2>3b DEF one, many
  <2>5. QED BY <2>1, <2>4
<1>2. IsFiniteSet(Seats(g)) /\ SeatsOf(g) \in Nat
  BY SeatsType
<1>3. Seats(g \union {t}) = Seats(g) \union own
  BY DEF Seats
<1>4. Seats(g) \cap own = {}
  BY DEF Seats
<1>5. Cardinality(Seats(g) \union own) = Cardinality(Seats(g)) + n - 0
  <2> HIDE DEF own
  <2>1. Cardinality(Seats(g) \cap own) = 0
    BY <1>4, FS_EmptySet
  <2>2. QED BY <1>1, <1>2, <2>1, FS_Union
<1>6. SeatsOf(g \union {t}) = SeatsOf(g) + n - 0 /\ n \in Nat
  <2> HIDE DEF own
  <2>1. n \in Nat
    OBVIOUS
  <2> HIDE DEF n
  <2>2. QED BY <1>3, <1>5, <2>1 DEF SeatsOf
<1>7. QED
  <2>1. n = t.size
    OBVIOUS
  <2> HIDE DEF n
  <2>2. QED BY <1>2, <1>6, <2>1

(* One ticket takes the seats of its party.                                    *)
LEMMA SeatsOne ==
  ASSUME NEW t, t.size \in Nat
  PROVE  SeatsOf({t}) = t.size
<1>1. IsFiniteSet({}) /\ {} \union {t} = {t}
  BY FS_EmptySet
<1>2. SeatsOf({} \union {t}) = SeatsOf({}) + t.size
  BY <1>1, SeatsAdd
<1>3. QED BY <1>1, <1>2, SeatsNone

(* Leaving a ticket out frees the seats of its party.                          *)
LEMMA SeatsRemove ==
  ASSUME NEW g, IsFiniteSet(g), \A t \in g : t.size \in Nat,
         NEW t \in g
  PROVE  /\ SeatsOf(g \ {t}) = SeatsOf(g) - t.size
         /\ SeatsOf(g) - t.size \in Nat /\ t.size <= SeatsOf(g)
<1> DEFINE rest == g \ {t}
<1>1. IsFiniteSet(rest) /\ t \notin rest /\ rest \union {t} = g /\ \A u \in rest : u.size \in Nat
  BY FS_RemoveElement
<1> HIDE DEF rest
<1>2. SeatsOf(rest \union {t}) = SeatsOf(rest) + t.size
  BY <1>1, SeatsAdd
<1>3. SeatsOf(rest) \in Nat /\ t.size \in Nat
  BY <1>1, SeatsType
<1> DEFINE n == t.size
<1>4. SeatsOf(g) = SeatsOf(rest) + n /\ n \in Nat
  BY <1>1, <1>2, <1>3
<1>5. SeatsOf(rest) = SeatsOf(g) - n /\ SeatsOf(g) - n \in Nat /\ n <= SeatsOf(g)
  <2> HIDE DEF n
  <2>1. QED BY <1>3, <1>4
<1>6. QED BY <1>5 DEF rest

(* Cheapest is one of the tickets.                                             *)
LEMMA CheapestIsOne ==
  ASSUME NEW T \in SUBSET Ticket, IsFiniteSet(T), T # {}
  PROVE  Cheapest(T) \in T
<1> DEFINE R == {p \in T \X T : Cheaper(p[1], p[2])}
<1>1. /\ \A x \in T : <<x, x>> \notin R
      /\ \A x, y, z \in T : <<x, y>> \in R /\ <<y, z>> \in R => <<x, z>> \in R
  BY DEF Cheaper, Ticket
<1>2. \E t \in T : \A u \in T : ~Cheaper(u, t)
  <2>1. \E t \in T : \A u \in T : <<u, t>> \notin R
    <3> HIDE DEF R
    <3> QED BY <1>1, MinimalElement
  <2>2. QED BY <2>1
<1>3. QED BY <1>2 DEF Cheapest

-------------------------------------------------------------------------------
(* Sequences.                                                                  *)

(* Range and injectivity of a concatenation.                                   *)
LEMMA Concatenation ==
  ASSUME NEW T, NEW a \in Seq(T), NEW b \in Seq(T)
  PROVE  /\ a \o b \in Seq(T)
         /\ Range(a \o b) = Range(a) \union Range(b)
         /\ IsInjective(a) /\ IsInjective(b) /\ Range(a) \cap Range(b) = {} => IsInjective(a \o b)
<1>1. /\ a \o b \in Seq(T) /\ Len(a \o b) = Len(a) + Len(b)
      /\ \A i \in 1..(Len(a) + Len(b)) : (a \o b)[i] = IF i <= Len(a) THEN a[i] ELSE b[i - Len(a)]
      /\ DOMAIN (a \o b) = 1..(Len(a) + Len(b))
      /\ DOMAIN a = 1..Len(a) /\ DOMAIN b = 1..Len(b) /\ Len(a) \in Nat /\ Len(b) \in Nat
  OBVIOUS
<1>2. Range(a \o b) \subseteq Range(a) \union Range(b)
  <2> SUFFICES ASSUME NEW i \in DOMAIN (a \o b) PROVE (a \o b)[i] \in Range(a) \union Range(b)
    BY DEF Range
  <2>1. CASE i <= Len(a)
    <3>1. i \in DOMAIN a /\ (a \o b)[i] = a[i]
      BY <1>1, <2>1
    <3>2. QED BY <3>1 DEF Range
  <2>2. CASE ~(i <= Len(a))
    <3>1. i - Len(a) \in DOMAIN b /\ (a \o b)[i] = b[i - Len(a)]
      BY <1>1, <2>2
    <3>2. QED BY <3>1 DEF Range
  <2>3. QED BY <2>1, <2>2
<1>3. Range(a) \subseteq Range(a \o b)
  <2> SUFFICES ASSUME NEW i \in DOMAIN a PROVE a[i] \in Range(a \o b)
    BY DEF Range
  <2>1. i \in DOMAIN (a \o b) /\ (a \o b)[i] = a[i]
    BY <1>1
  <2>2. QED BY <2>1 DEF Range
<1>4. Range(b) \subseteq Range(a \o b)
  <2> SUFFICES ASSUME NEW i \in DOMAIN b PROVE b[i] \in Range(a \o b)
    BY DEF Range
  <2>1. i + Len(a) \in DOMAIN (a \o b) /\ (a \o b)[i + Len(a)] = b[i]
    BY <1>1
  <2>2. QED BY <2>1 DEF Range
<1>5. ASSUME IsInjective(a), IsInjective(b), Range(a) \cap Range(b) = {}
      PROVE  IsInjective(a \o b)
  <2> SUFFICES ASSUME NEW i \in DOMAIN (a \o b), NEW j \in DOMAIN (a \o b), (a \o b)[i] = (a \o b)[j]
               PROVE  i = j
    BY DEF IsInjective
  <2> DEFINE n == Len(a)
  <2>0. i \in Int /\ j \in Int /\ n \in Int
    BY <1>1
  <2>a. ASSUME NEW k \in DOMAIN (a \o b)
        PROVE  /\ k <= n => k \in DOMAIN a /\ (a \o b)[k] = a[k] /\ a[k] \in Range(a)
               /\ ~(k <= n) => k - n \in DOMAIN b /\ (a \o b)[k] = b[k - n] /\ b[k - n] \in Range(b)
    BY <1>1 DEF Range
  <2> HIDE DEF n
  <2>1. CASE i <= n /\ j <= n
    BY <1>5, <2>1, <2>a DEF IsInjective
  <2>2. CASE ~(i <= n) /\ ~(j <= n)
    <3>1. i - n = j - n
      BY <1>5, <2>2, <2>a DEF IsInjective
    <3>2. QED BY <3>1, <2>0
  <2>3. CASE i <= n /\ ~(j <= n)
    BY <1>5, <2>3, <2>a
  <2>4. CASE ~(i <= n) /\ j <= n
    BY <1>5, <2>4, <2>a
  <2>5. QED BY <2>1, <2>2, <2>3, <2>4
<1>6. QED BY <1>1, <1>2, <1>3, <1>4, <1>5

(* Adding a fresh ticket to listed groups keeps them distinct.                 *)
LEMMA WithTicket ==
  ASSUME NEW T, NEW t, NEW gs \in Seq(SUBSET T)
  PROVE  /\ With(t, gs) \in Seq(SUBSET (T \union {t}))
         /\ Range(With(t, gs)) = {g \union {t} : g \in Range(gs)}
         /\ t \notin T /\ IsInjective(gs) => IsInjective(With(t, gs))
<1>1. DOMAIN gs = 1..Len(gs) /\ Len(gs) \in Nat /\ \A i \in DOMAIN gs : gs[i] \in SUBSET T
  OBVIOUS
<1>2. DOMAIN With(t, gs) = DOMAIN gs /\ \A i \in DOMAIN gs : With(t, gs)[i] = gs[i] \union {t}
  BY DEF With
<1>3. With(t, gs) \in Seq(SUBSET (T \union {t}))
  <2> DEFINE n == Len(gs)
  <2>1. With(t, gs) = [i \in 1..n |-> gs[i] \union {t}] /\ n \in Nat
    BY <1>1 DEF With
  <2>2. \A i \in 1..n : gs[i] \union {t} \in SUBSET (T \union {t})
    BY <1>1
  <2>3. QED BY <2>1, <2>2
<1>4. Range(With(t, gs)) = {g \union {t} : g \in Range(gs)}
  BY <1>2 DEF Range
<1>5. ASSUME t \notin T, IsInjective(gs) PROVE IsInjective(With(t, gs))
  <2> SUFFICES ASSUME NEW i \in DOMAIN gs, NEW j \in DOMAIN gs, gs[i] \union {t} = gs[j] \union {t}
               PROVE  i = j
    BY <1>2 DEF IsInjective
  <2>0. ASSUME NEW x \in SUBSET T, NEW y \in SUBSET T, x \union {t} = y \union {t} PROVE x = y
    <3>1. x = (x \union {t}) \ {t} /\ y = (y \union {t}) \ {t}
      BY <1>5
    <3>2. QED BY <2>0, <3>1
  <2>1. gs[i] = gs[j]
    <3> DEFINE x == gs[i]
               y == gs[j]
    <3>1. x \in SUBSET T /\ y \in SUBSET T /\ x \union {t} = y \union {t}
      BY <1>1
    <3> HIDE DEF x, y
    <3>2. x = y
      BY <2>0, <3>1
    <3>3. QED BY <3>2 DEF x, y
  <2>2. QED BY <2>1, <1>5 DEF IsInjective
<1>6. QED BY <1>3, <1>4, <1>5

-------------------------------------------------------------------------------
(* Groups lists every set of tickets that fills the seats, once.               *)

(* The sets of tickets that fill so many seats exactly.                        *)
Exactly(T, left, largest) ==
  {g \in SUBSET T : SeatsOf(g) = left /\ \A u \in g : u.size <= largest}

(* A table of groups by the seats they fill: none missing, none twice.         *)
Listed(table, T, seats, largest) ==
  \A left \in 0..seats : /\ table[left] \in Seq(SUBSET T)
                         /\ IsInjective(table[left])
                         /\ Range(table[left]) = Exactly(T, left, largest)

(* The table of groups of no ticket at all.                                    *)
LEMMA ListNone ==
  ASSUME NEW seats \in Nat, NEW largest \in Nat
  PROVE  Listed([left \in 0..seats |-> IF left = 0 THEN << {} >> ELSE << >>], {}, seats, largest)
<1> DEFINE table == [left \in 0..seats |-> IF left = 0 THEN << {} >> ELSE << >>]
<1> SUFFICES ASSUME NEW left \in 0..seats
             PROVE  /\ table[left] \in Seq(SUBSET {})
                    /\ IsInjective(table[left])
                    /\ Range(table[left]) = Exactly({}, left, largest)
  BY DEF Listed
<1>1. Exactly({}, left, largest) = IF left = 0 THEN { {} } ELSE {}
  BY SeatsNone DEF Exactly
<1>2. CASE left = 0
  <2>1. table[left] = << {} >>
    BY <1>2
  <2>2. << {} >> \in Seq(SUBSET {}) /\ IsInjective(<< {} >>) /\ Range(<< {} >>) = { {} }
    BY DEF IsInjective, Range
  <2>3. QED BY <1>1, <1>2, <2>1, <2>2
<1>3. CASE left # 0
  <2>1. table[left] = << >>
    BY <1>3
  <2>2. << >> \in Seq(SUBSET {}) /\ IsInjective(<< >>) /\ Range(<< >>) = {}
    BY DEF IsInjective, Range
  <2>3. QED BY <1>1, <1>3, <2>1, <2>2
<1>4. QED BY <1>2, <1>3

(* TakeOrLeave keeps the table exact: with the ticket, then without.           *)
LEMMA ListMore ==
  ASSUME NEW T, IsFiniteSet(T), \A u \in T : u.size \in Nat,
         NEW t, t \notin T, t.size \in Nat,
         NEW seats \in Nat, NEW largest \in Nat,
         NEW table, Listed(table, T, seats, largest)
  PROVE  Listed(TakeOrLeave(t, table, seats, largest), T \union {t}, seats, largest)
<1> SUFFICES ASSUME NEW left \in 0..seats
             PROVE  /\ TakeOrLeave(t, table, seats, largest)[left] \in Seq(SUBSET (T \union {t}))
                    /\ IsInjective(TakeOrLeave(t, table, seats, largest)[left])
                    /\ Range(TakeOrLeave(t, table, seats, largest)[left])
                         = Exactly(T \union {t}, left, largest)
  BY DEF Listed
<1> DEFINE fits == t.size <= left /\ t.size <= largest
           taken == IF fits THEN With(t, table[left - t.size]) ELSE << >>
           without == table[left]
           size == t.size
<1>0. size \in Nat /\ left \in Nat /\ (fits => left - size \in 0..seats)
  OBVIOUS
<1>1. TakeOrLeave(t, table, seats, largest)[left] = taken \o without
  BY DEF TakeOrLeave
<1>2. /\ without \in Seq(SUBSET T) /\ IsInjective(without)
      /\ Range(without) = Exactly(T, left, largest)
  BY DEF Listed
<1>3. without \in Seq(SUBSET (T \union {t}))
  <2>1. SUBSET T \subseteq SUBSET (T \union {t})
    OBVIOUS
  <2> HIDE DEF without
  <2>2. QED BY <1>2, <2>1
<1>4. ASSUME fits
      PROVE  /\ taken \in Seq(SUBSET (T \union {t})) /\ IsInjective(taken)
             /\ Range(taken) = {g \union {t} : g \in Exactly(T, left - size, largest)}
  <2> DEFINE gs == table[left - size]
  <2>1. gs \in Seq(SUBSET T) /\ IsInjective(gs) /\ Range(gs) = Exactly(T, left - size, largest)
    BY <1>0, <1>4 DEF Listed
  <2>2. taken = With(t, gs)
    BY <1>4
  <2> HIDE DEF gs, taken, fits
  <2>3. QED BY <2>1, <2>2, WithTicket
<1>5. ASSUME ~fits
      PROVE  /\ taken \in Seq(SUBSET (T \union {t})) /\ IsInjective(taken) /\ Range(taken) = {}
  BY <1>5 DEF IsInjective, Range
<1>6. ASSUME NEW g \in SUBSET T
      PROVE  /\ IsFiniteSet(g) /\ t \notin g /\ SeatsOf(g) \in Nat
             /\ SeatsOf(g \union {t}) = SeatsOf(g) + size
  BY FS_Subset, SeatsType, SeatsAdd
<1>7. ASSUME NEW g \in SUBSET (T \union {t}), t \in g
      PROVE  g \ {t} \in SUBSET T /\ g = (g \ {t}) \union {t}
  BY <1>7
<1>8. Exactly(T \union {t}, left, largest)
        = Exactly(T, left, largest)
            \union (IF fits THEN {g \union {t} : g \in Exactly(T, left - size, largest)} ELSE {})
  <2>1. ASSUME NEW g \in Exactly(T \union {t}, left, largest), t \in g
        PROVE  fits /\ g \ {t} \in Exactly(T, left - size, largest) /\ g = (g \ {t}) \union {t}
    <3> DEFINE r == g \ {t}
    <3>1. g \in SUBSET (T \union {t}) /\ SeatsOf(g) = left /\ \A u \in g : u.size <= largest
      BY DEF Exactly
    <3>2. r \in SUBSET T /\ g = r \union {t} /\ \A u \in r : u.size <= largest
      BY <1>7, <2>1, <3>1
    <3> HIDE DEF r
    <3>3. left = SeatsOf(r) + size /\ SeatsOf(r) \in Nat
      BY <1>6, <3>1, <3>2
    <3>s. size <= largest
      BY <2>1, <3>1
    <3> HIDE DEF size
    <3>4. size <= left /\ SeatsOf(r) = left - size
      BY <1>0, <3>3
    <3>5. r \in Exactly(T, left - size, largest)
      BY <3>2, <3>4 DEF Exactly
    <3>6. fits
      BY <3>4, <3>s DEF size
    <3>7. QED BY <3>2, <3>5, <3>6 DEF r
  <2>2. ASSUME NEW g \in Exactly(T \union {t}, left, largest), t \notin g
        PROVE  g \in Exactly(T, left, largest)
    BY <2>2 DEF Exactly
  <2>3. Exactly(T, left, largest) \subseteq Exactly(T \union {t}, left, largest)
    BY DEF Exactly
  <2>4. ASSUME fits, NEW g \in Exactly(T, left - size, largest)
        PROVE  g \union {t} \in Exactly(T \union {t}, left, largest)
    <3>1. g \in SUBSET T /\ SeatsOf(g) = left - size /\ \A u \in g : u.size <= largest
      BY DEF Exactly
    <3>2. SeatsOf(g \union {t}) = (left - size) + size
      BY <1>6, <3>1
    <3>3. (left - size) + size = left
      <4> HIDE DEF size
      <4> QED BY <1>0
    <3>4. QED BY <2>4, <3>1, <3>2, <3>3 DEF Exactly
  <2> HIDE DEF fits, size, taken, without
  <2> DEFINE more == IF fits THEN {g \union {t} : g \in Exactly(T, left - size, largest)} ELSE {}
  <2>5. ASSUME NEW g \in Exactly(T \union {t}, left, largest)
        PROVE  g \in Exactly(T, left, largest) \union more
    <3>1. CASE t \in g
      BY <2>1, <3>1
    <3>2. CASE t \notin g
      BY <2>2, <3>2
    <3>3. QED BY <3>1, <3>2
  <2>6. more \subseteq Exactly(T \union {t}, left, largest)
    BY <2>4
  <2> HIDE DEF more
  <2>7. Exactly(T \union {t}, left, largest) = Exactly(T, left, largest) \union more
    BY <2>3, <2>5, <2>6
  <2>8. QED BY <2>7 DEF more
<1>9. Range(taken) \cap Range(without) = {}
  <2>1. \A g \in Range(without) : t \notin g
    BY <1>2 DEF Exactly
  <2>2. \A g \in Range(taken) : t \in g
    <3> HIDE DEF taken, without, fits, size
    <3> QED BY <1>4, <1>5
  <2>3. QED BY <2>1, <2>2
<1>10. QED
  <2> HIDE DEF fits, taken, without, size
  <2>1. taken \in Seq(SUBSET (T \union {t})) /\ IsInjective(taken)
    BY <1>4, <1>5
  <2>2. taken \o without \in Seq(SUBSET (T \union {t})) /\ IsInjective(taken \o without)
    BY <2>1, <1>2, <1>3, <1>9, Concatenation
  <2>3. Range(taken \o without) = Range(taken) \union Range(without)
    BY <2>1, <1>3, Concatenation
  <2>4. Range(taken \o without) = Exactly(T \union {t}, left, largest)
    BY <1>2, <1>4, <1>5, <1>8, <2>3
  <2>5. QED BY <1>1, <2>2, <2>4

(* The recursion of five_v_five.rs and free_for_all.rs lists exactly the       *)
(* groups that fill the seats with parties no larger than allowed, each once.  *)
LEMMA GroupsListed ==
  ASSUME NEW W \in SUBSET Ticket, IsFiniteSet(W), NEW seats \in Nat, NEW largest \in Nat
  PROVE  /\ Groups(W, seats, largest) \in Seq(SUBSET W)
         /\ IsInjective(Groups(W, seats, largest))
         /\ Range(Groups(W, seats, largest)) = Exactly(W, seats, largest)
<1> DEFINE base == [left \in 0..seats |-> IF left = 0 THEN << {} >> ELSE << >>]
           Step(s, rest) == TakeOrLeave(Cheapest(s), rest, seats, largest)
           Body(f) == [s \in SUBSET W |-> IF s = {} THEN base ELSE Step(s, f[s \ {Cheapest(s)}])]
           fold == CHOOSE f : f = Body(f)
           T == [0..seats -> Seq(SUBSET W)]
<1>0. \A s \in SUBSET W : IsFiniteSet(s) /\ s \in SUBSET Ticket /\ (s # {} => Cheapest(s) \in s)
  BY FS_Subset, CheapestIsOne
<1>1. Groups(W, seats, largest) = fold[W][seats]
  BY DEF Groups, MapThenFoldSet
<1>2. base \in T
  <2>1. << {} >> \in Seq(SUBSET W) /\ << >> \in Seq(SUBSET W)
    OBVIOUS
  <2>2. QED BY <2>1
<1>3. ASSUME NEW s \in SUBSET W, s # {}, NEW rest \in T PROVE Step(s, rest) \in T
  <2> DEFINE t == Cheapest(s)
  <2>1. t \in W /\ t.size \in Nat
    BY <1>0, <1>3 DEF Ticket
  <2>w. W \union {t} = W
    BY <2>1
  <2> HIDE DEF t
  <2>2. ASSUME NEW left \in 0..seats
        PROVE  ((IF t.size <= left /\ t.size <= largest THEN With(t, rest[left - t.size]) ELSE << >>)
                 \o rest[left]) \in Seq(SUBSET W)
    <3>1. rest[left] \in Seq(SUBSET W)
      OBVIOUS
    <3>2. CASE t.size <= left /\ t.size <= largest
      <4> DEFINE gs == rest[left - t.size]
      <4>1. gs \in Seq(SUBSET W)
        <5> DEFINE size == t.size
        <5>1. size \in Nat /\ size <= left
          BY <2>1, <3>2
        <5> HIDE DEF size
        <5>2. left - size \in 0..seats
          BY <5>1
        <5>3. rest[left - size] \in Seq(SUBSET W)
          BY <5>2
        <5>4. QED BY <5>3 DEF size
      <4> HIDE DEF gs
      <4>2. With(t, gs) \in Seq(SUBSET W)
        BY <4>1, <2>w, WithTicket
      <4>3. With(t, gs) \o rest[left] \in Seq(SUBSET W)
        BY <3>1, <4>2
      <4>4. QED BY <3>2, <4>3 DEF gs
    <3>3. CASE ~(t.size <= left /\ t.size <= largest)
      <4>1. << >> \o rest[left] \in Seq(SUBSET W)
        BY <3>1
      <4>2. QED BY <3>3, <4>1
    <3>4. QED BY <3>2, <3>3
  <2>3. TakeOrLeave(t, rest, seats, largest) \in T
    BY <2>2 DEF TakeOrLeave
  <2>4. QED BY <2>3 DEF t
<1>4. \E f \in [SUBSET W -> T] : f = Body(f)
  <2> DEFINE bases == [s \in SUBSET W |-> base]
             next == [s \in SUBSET W |-> s \ {Cheapest(s)}]
             step == [p \in (SUBSET W) \X T |-> IF p[1] = {} THEN base ELSE Step(p[1], p[2])]
             stop == {{}}
  <2> HIDE DEF base, Step, T
  <2>1. stop \in SUBSET (SUBSET W) /\ bases \in [SUBSET W -> T] /\ next \in [SUBSET W -> SUBSET W]
    BY <1>2
  <2>2. step \in [(SUBSET W) \X T -> T]
    BY <1>2, <1>3
  <2>3. \A s \in SUBSET W : s \in stop \/ (next[s] \subseteq s /\ next[s] # s)
    BY <1>0
  <2>4. Recursion(W, T, stop, bases, next, step)
    BY <2>1, <2>2, <2>3 DEF Recursion
  <2> HIDE DEF bases, next, step, stop
  <2>5. PICK f : Solution(f, W, T, stop, bases, next, step)
    BY <2>4, SubsetRecursion
  <2>6. f \in [SUBSET W -> T]
    BY <2>5 DEF Solution
  <2>7. ASSUME NEW s \in SUBSET W
        PROVE  f[s] = IF s = {} THEN base ELSE Step(s, f[s \ {Cheapest(s)}])
    <3>1. f[s] = IF s \in stop THEN bases[s] ELSE step[<<s, f[next[s]]>>]
      BY <2>5 DEF Solution
    <3>2. next[s] = s \ {Cheapest(s)} /\ bases[s] = base /\ (s \in stop <=> s = {})
      BY DEF next, bases, stop
    <3>3. f[s \ {Cheapest(s)}] \in T
      BY <2>6
    <3>4. step[<<s, f[s \ {Cheapest(s)}]>>] = IF s = {} THEN base ELSE Step(s, f[s \ {Cheapest(s)}])
      BY <3>3 DEF step
    <3>5. QED BY <3>1, <3>2, <3>4
  <2>8. f = Body(f)
    BY <2>6, <2>7
  <2>9. QED BY <2>6, <2>8
<1> HIDE DEF base, Step, T
<1>5. fold = Body(fold)
  <2> HIDE DEF Body
  <2> QED BY <1>4
<1>6. \A s \in SUBSET W : fold[s] = IF s = {} THEN base ELSE Step(s, fold[s \ {Cheapest(s)}])
  <2> HIDE DEF fold
  <2> QED BY <1>5
<1> HIDE DEF fold, Body
<1> DEFINE Bad == {s \in SUBSET W : ~Listed(fold[s], s, seats, largest)}
<1>7. Bad = {}
  <2>1. SUFFICES ASSUME Bad # {} PROVE FALSE
    OBVIOUS
  <2>2. PICK s \in Bad : \A u \in Bad : ~(u \subseteq s /\ u # s)
    <3>1. Bad \in SUBSET (SUBSET W)
      OBVIOUS
    <3> HIDE DEF Bad
    <3> QED BY <2>1, <3>1, SmallestSubset
  <2>3. s \in SUBSET W /\ ~Listed(fold[s], s, seats, largest)
    BY <2>2
  <2>4. CASE s = {}
    <3>1. fold[s] = base
      BY <1>6, <2>3, <2>4
    <3>2. Listed(base, {}, seats, largest)
      BY ListNone DEF base
    <3>3. QED BY <2>3, <2>4, <3>1, <3>2
  <2>5. CASE s # {}
    <3> DEFINE t == Cheapest(s)
               r == s \ {t}
    <3>1. t \in s
      BY <1>0, <2>3, <2>5
    <3> HIDE DEF t
    <3>2. r \in SUBSET W /\ r \subseteq s /\ r # s /\ t \notin r /\ s = r \union {t}
      BY <2>3, <3>1
    <3>3. Listed(fold[r], r, seats, largest)
      BY <2>2, <3>2
    <3>4. fold[s] = TakeOrLeave(t, fold[r], seats, largest)
      BY <1>6, <2>3, <2>5 DEF Step, t
    <3>5. IsFiniteSet(r) /\ (\A u \in r : u.size \in Nat) /\ t.size \in Nat
      BY <1>0, <2>3, <3>1, <3>2 DEF Ticket
    <3> HIDE DEF r
    <3>6. Listed(TakeOrLeave(t, fold[r], seats, largest), r \union {t}, seats, largest)
      BY <3>2, <3>3, <3>5, ListMore
    <3>7. QED BY <2>3, <3>2, <3>4, <3>6
  <2>6. QED BY <2>4, <2>5
<1>8. Listed(fold[W], W, seats, largest)
  BY <1>7
<1>9. seats \in 0..seats
  OBVIOUS
<1>10. QED BY <1>1, <1>8, <1>9 DEF Listed

-------------------------------------------------------------------------------
(* Sorting and choosing.                                                       *)

(* Lexicographic order of keys: irreflexive and transitive.                    *)
LEMMA PrecedesOrders ==
  /\ \A a \in Seq(Int) : ~Precedes(a, a)
  /\ \A a, b, c \in Seq(Int) : Precedes(a, b) /\ Precedes(b, c) => Precedes(a, c)
<1>1. ASSUME NEW a \in Seq(Int) PROVE ~Precedes(a, a)
  <2>1. \A i \in DOMAIN a : a[i] \in Int
    OBVIOUS
  <2>2. QED BY <2>1 DEF Precedes
<1>2. ASSUME NEW a \in Seq(Int), NEW b \in Seq(Int), NEW c \in Seq(Int),
             Precedes(a, b), Precedes(b, c)
      PROVE  Precedes(a, c)
  <2>1. PICK i \in DOMAIN a : i \in DOMAIN b /\ a[i] < b[i] /\ \A j \in 1..(i - 1) : a[j] = b[j]
    BY <1>2 DEF Precedes
  <2>2. PICK k \in DOMAIN b : k \in DOMAIN c /\ b[k] < c[k] /\ \A j \in 1..(k - 1) : b[j] = c[j]
    BY <1>2 DEF Precedes
  <2>3. /\ DOMAIN a = 1..Len(a) /\ DOMAIN b = 1..Len(b) /\ DOMAIN c = 1..Len(c)
        /\ Len(a) \in Nat /\ Len(b) \in Nat /\ Len(c) \in Nat
        /\ \A j \in DOMAIN a : a[j] \in Int
        /\ \A j \in DOMAIN b : b[j] \in Int
        /\ \A j \in DOMAIN c : c[j] \in Int
    OBVIOUS
  <2>4. i \in Int /\ k \in Int
    BY <2>3
  <2>5. CASE i < k
    <3>a. i \in 1..(k - 1) /\ \A j \in 1..(i - 1) : j \in 1..(k - 1)
      BY <2>3, <2>4, <2>5
    <3>b. k \in 1..Len(c) /\ Len(c) \in Nat
      BY <2>2, <2>3
    <3>c. i \in 1..Len(c)
      BY <2>4, <3>a, <3>b
    <3>0. i \in 1..(k - 1) /\ i \in DOMAIN c /\ \A j \in 1..(i - 1) : j \in 1..(k - 1)
      BY <2>3, <3>a, <3>c
    <3>1. i \in DOMAIN c /\ b[i] = c[i] /\ \A j \in 1..(i - 1) : b[j] = c[j]
      BY <2>2, <3>0
    <3>2. a[i] < c[i] /\ \A j \in 1..(i - 1) : a[j] = c[j]
      BY <2>1, <3>1
    <3>3. QED BY <3>1, <3>2 DEF Precedes
  <2>6. CASE i = k
    <3>1. a[i] < c[i]
      <4>1. a[i] \in Int /\ b[i] \in Int /\ c[i] \in Int
        BY <2>1, <2>2, <2>3, <2>6
      <4>2. a[i] < b[i] /\ b[i] < c[i]
        BY <2>1, <2>2, <2>6
      <4>3. QED BY <4>1, <4>2
    <3>2. \A j \in 1..(i - 1) : a[j] = c[j]
      BY <2>1, <2>2, <2>6
    <3>3. QED BY <2>2, <2>6, <3>1, <3>2 DEF Precedes
  <2>7. CASE k < i
    <3>0. k \in 1..(i - 1) /\ k \in DOMAIN a /\ \A j \in 1..(k - 1) : j \in 1..(i - 1)
      BY <2>3, <2>4, <2>7
    <3>1. k \in DOMAIN a /\ a[k] = b[k] /\ \A j \in 1..(k - 1) : a[j] = b[j]
      BY <2>1, <3>0
    <3>2. a[k] < c[k] /\ \A j \in 1..(k - 1) : a[j] = c[j]
      BY <2>2, <3>1
    <3>3. QED BY <2>2, <3>1, <3>2 DEF Precedes
  <2>8. QED BY <2>4, <2>5, <2>6, <2>7
<1>3. QED BY <1>1, <1>2

(* Candidates as the dispatcher sorts them.                                    *)
Keyed(cs) == IsFiniteSet(cs) /\ \A c \in cs : c.key \in Seq(Int)

(* First is one of the candidates, and none comes before it.                   *)
LEMMA FirstComesFirst ==
  ASSUME NEW cs, Keyed(cs), cs # {}
  PROVE  First(cs) \in cs /\ \A d \in cs : ~Precedes(d.key, First(cs).key)
<1> DEFINE R == {p \in cs \X cs : Precedes(p[1].key, p[2].key)}
<1>1. /\ \A x \in cs : <<x, x>> \notin R
      /\ \A x, y, z \in cs : <<x, y>> \in R /\ <<y, z>> \in R => <<x, z>> \in R
  <2>1. \A c \in cs : c.key \in Seq(Int)
    BY DEF Keyed
  <2>2. ASSUME NEW x \in cs PROVE <<x, x>> \notin R
    BY <2>1, PrecedesOrders
  <2>3. ASSUME NEW x \in cs, NEW y \in cs, NEW z \in cs, <<x, y>> \in R, <<y, z>> \in R
        PROVE  <<x, z>> \in R
    <3>1. Precedes(x.key, y.key) /\ Precedes(y.key, z.key)
      BY <2>3
    <3>2. Precedes(x.key, z.key)
      BY <2>1, <3>1, PrecedesOrders
    <3>3. QED BY <3>2
  <2>4. QED BY <2>2, <2>3
<1>2. \E c \in cs : \A d \in cs : ~Precedes(d.key, c.key)
  <2>1. \E c \in cs : \A d \in cs : <<d, c>> \notin R
    <3> HIDE DEF R
    <3> QED BY <1>1, MinimalElement DEF Keyed
  <2>2. QED BY <2>1
<1>3. QED BY <1>2 DEF First

(* Two candidates share no ticket, and no ticket of the one is a twin of one   *)
(* of the other; no two of a sequence of candidates do.                        *)
Separate(c, d, twins) ==
  \A x \in IdsOf(c), y \in IdsOf(d) : x # y /\ <<x, y>> \notin twins
AllApart(s, twins) == \A i, j \in DOMAIN s : i # j => Separate(s[i], s[j], twins)
Symmetric(twins) == \A a, b : <<a, b>> \in twins => <<b, a>> \in twins

(* Which of two candidates comes first does not matter.                        *)
LEMMA SeparateBothWays ==
  ASSUME NEW c, NEW d, NEW twins, Symmetric(twins), Separate(c, d, twins)
  PROVE  Separate(d, c, twins)
BY DEF Separate, Symmetric

(* The greedy choice takes candidates with no ticket in common, the first one  *)
(* among them.                                                                 *)
LEMMA TakenInOrder ==
  ASSUME NEW cs, Keyed(cs), NEW twins, Symmetric(twins)
  PROVE  /\ TakeDisjoint(cs, twins) \in Seq(cs)
         /\ AllApart(TakeDisjoint(cs, twins), twins)
         /\ cs = {} => TakeDisjoint(cs, twins) = << >>
         /\ cs # {} => Len(TakeDisjoint(cs, twins)) >= 1 /\ TakeDisjoint(cs, twins)[1] = First(cs)
<1> DEFINE T == Seq(cs)
           Rest(s) == Apart(First(s), s \ {First(s)}, twins)
           Body(f) == [s \in SUBSET cs |-> IF s = {} THEN << >> ELSE <<First(s)>> \o f[Rest(s)]]
           taken == CHOOSE f : f = Body(f)
<1>1. TakeDisjoint(cs, twins) = taken[cs]
  BY DEF TakeDisjoint
<1>2. \A s \in SUBSET cs : s # {} => First(s) \in s
  <2> SUFFICES ASSUME NEW s \in SUBSET cs, s # {} PROVE First(s) \in s
    OBVIOUS
  <2>1. Keyed(s)
    BY FS_Subset DEF Keyed
  <2>2. QED BY <2>1, FirstComesFirst
<1>3. \A s \in SUBSET cs : Rest(s) \subseteq s \ {First(s)}
  BY DEF Apart
<1>3a. \A s \in SUBSET cs : \A d \in Rest(s) : Separate(First(s), d, twins)
  BY DEF Apart, Separate
<1> HIDE DEF Rest
<1>4. \E f \in [SUBSET cs -> T] : f = Body(f)
  <2> DEFINE base == [s \in SUBSET cs |-> << >>]
             next == [s \in SUBSET cs |-> Rest(s)]
             step == [p \in (SUBSET cs) \X T |-> IF p[1] = {} THEN << >> ELSE <<First(p[1])>> \o p[2]]
             stop == {{}}
  <2>1. stop \in SUBSET (SUBSET cs) /\ base \in [SUBSET cs -> T] /\ next \in [SUBSET cs -> SUBSET cs]
    BY <1>3
  <2>2. step \in [(SUBSET cs) \X T -> T]
    <3> SUFFICES ASSUME NEW s \in SUBSET cs, NEW v \in T
                 PROVE  (IF s = {} THEN << >> ELSE <<First(s)>> \o v) \in T
      OBVIOUS
    <3>1. CASE s = {}
      BY <3>1
    <3>2. CASE s # {}
      <4>1. First(s) \in cs
        BY <1>2, <3>2
      <4>2. <<First(s)>> \o v \in T
        BY <4>1
      <4>3. QED BY <3>2, <4>2
    <3>3. QED BY <3>1, <3>2
  <2>3. \A s \in SUBSET cs : s \in stop \/ (next[s] \subseteq s /\ next[s] # s)
    BY <1>2, <1>3
  <2>4. Recursion(cs, T, stop, base, next, step)
    BY <2>1, <2>2, <2>3 DEF Recursion, Keyed
  <2> HIDE DEF base, next, step, stop, T
  <2>5. PICK f : Solution(f, cs, T, stop, base, next, step)
    BY <2>4, SubsetRecursion
  <2>6. f \in [SUBSET cs -> T]
    BY <2>5 DEF Solution
  <2>7. ASSUME NEW s \in SUBSET cs
        PROVE  f[s] = IF s = {} THEN << >> ELSE <<First(s)>> \o f[Rest(s)]
    <3>1. f[s] = IF s \in stop THEN base[s] ELSE step[<<s, f[next[s]]>>]
      BY <2>5 DEF Solution
    <3>2. next[s] = Rest(s) /\ base[s] = << >> /\ (s \in stop <=> s = {})
      BY DEF next, base, stop
    <3>3. f[Rest(s)] \in T
      BY <2>6, <1>3
    <3>4. step[<<s, f[Rest(s)]>>] = IF s = {} THEN << >> ELSE <<First(s)>> \o f[Rest(s)]
      BY <3>3 DEF step
    <3>5. QED BY <3>1, <3>2, <3>4
  <2>8. f = Body(f)
    BY <2>6, <2>7
  <2>9. QED BY <2>6, <2>8
<1>5. taken = Body(taken)
  <2> HIDE DEF Body
  <2> QED BY <1>4
<1>6. \A s \in SUBSET cs : taken[s] = IF s = {} THEN << >> ELSE <<First(s)>> \o taken[Rest(s)]
  <2> HIDE DEF taken
  <2> QED BY <1>5
<1> HIDE DEF taken, Body, T
<1> DEFINE Good(s) == taken[s] \in Seq(s) /\ AllApart(taken[s], twins)
           Bad == {s \in SUBSET cs : ~Good(s)}
<1>7. Bad = {}
  <2>1. SUFFICES ASSUME Bad # {} PROVE FALSE
    OBVIOUS
  <2>2. PICK s \in Bad : \A u \in Bad : ~(u \subseteq s /\ u # s)
    <3>1. Bad \in SUBSET (SUBSET cs)
      OBVIOUS
    <3> HIDE DEF Bad
    <3> QED BY <2>1, <3>1, SmallestSubset DEF Keyed
  <2>3. s \in SUBSET cs /\ ~Good(s)
    BY <2>2
  <2>4. CASE s = {}
    <3>1. taken[s] = << >>
      BY <1>6, <2>3, <2>4
    <3>2. << >> \in Seq(s) /\ AllApart(<< >>, twins)
      BY DEF AllApart
    <3>3. QED BY <2>3, <3>1, <3>2
  <2>5. CASE s # {}
    <3> DEFINE f == First(s)
               r == Rest(s)
               rest == taken[r]
    <3>1. f \in s /\ r \in SUBSET cs /\ r \subseteq s /\ r # s
      BY <1>2, <1>3, <2>3, <2>5
    <3>2. Good(r)
      <4> HIDE DEF Good
      <4> QED BY <2>2, <3>1
    <3>2a. rest \in Seq(r) /\ AllApart(rest, twins)
      BY <3>2
    <3>3. taken[s] = <<f>> \o rest
      BY <1>6, <2>3, <2>5
    <3>4. \A d \in r : Separate(f, d, twins)
      BY <1>3a, <2>3
    <3> HIDE DEF f, r, rest
    <3>5. /\ <<f>> \o rest \in Seq(s)
          /\ DOMAIN (<<f>> \o rest) = 1..(Len(rest) + 1)
          /\ (<<f>> \o rest)[1] = f
          /\ \A i \in 2..(Len(rest) + 1) : (<<f>> \o rest)[i] = rest[i - 1] /\ rest[i - 1] \in r
          /\ DOMAIN rest = 1..Len(rest) /\ Len(rest) \in Nat
      <4>1. rest \in Seq(s)
        BY <3>1, <3>2a
      <4>2. QED BY <3>1, <3>2a, <4>1
    <3>6. AllApart(<<f>> \o rest, twins)
      <4> DEFINE w == <<f>> \o rest
      <4> HIDE DEF w
      <4>1. ASSUME NEW i \in DOMAIN w, NEW j \in DOMAIN w, i < j
            PROVE  Separate(w[i], w[j], twins)
        <5>1. i \in 1..(Len(rest) + 1) /\ j \in 2..(Len(rest) + 1)
          BY <3>5, <4>1 DEF w
        <5>2. w[j] = rest[j - 1] /\ rest[j - 1] \in r /\ j - 1 \in DOMAIN rest
          BY <3>5, <5>1 DEF w
        <5>3. CASE i = 1
          <6>1. w[i] = f
            BY <3>5, <5>3 DEF w
          <6>2. QED BY <3>4, <5>2, <6>1
        <5>4. CASE i # 1
          <6>1. i \in 2..(Len(rest) + 1)
            BY <5>1, <5>4
          <6>2. w[i] = rest[i - 1] /\ i - 1 \in DOMAIN rest /\ i - 1 # j - 1
            BY <3>5, <4>1, <5>1, <6>1 DEF w
          <6>3. QED BY <3>2a, <5>2, <6>2 DEF AllApart
        <5>5. QED BY <5>3, <5>4
      <4>2. ASSUME NEW i \in DOMAIN w, NEW j \in DOMAIN w, i # j
            PROVE  Separate(w[i], w[j], twins)
        <5>1. i \in Int /\ j \in Int
          BY <3>5 DEF w
        <5>2. i < j \/ j < i
          BY <4>2, <5>1
        <5>3. QED BY <4>1, <5>2, SeparateBothWays
      <4>3. AllApart(w, twins)
        BY <4>2 DEF AllApart
      <4>4. QED BY <4>3 DEF w
    <3>7. QED BY <2>3, <3>3, <3>5, <3>6
  <2>6. QED BY <2>4, <2>5
<1>8. Good(cs)
  <2> HIDE DEF Good
  <2> QED BY <1>7
<1>9. ASSUME cs = {} PROVE taken[cs] = << >>
  BY <1>6, <1>9
<1>10. ASSUME cs # {} PROVE Len(taken[cs]) >= 1 /\ taken[cs][1] = First(cs)
  <2>1. First(cs) \in cs /\ Rest(cs) \in SUBSET cs
    BY <1>2, <1>3, <1>10
  <2>2. Good(Rest(cs))
    <3> HIDE DEF Good
    <3> QED BY <1>7, <2>1
  <2>3. taken[Rest(cs)] \in Seq(cs)
    BY <2>1, <2>2
  <2>4. taken[cs] = <<First(cs)>> \o taken[Rest(cs)]
    BY <1>6, <1>10
  <2> DEFINE f == First(cs)
             rest == taken[Rest(cs)]
  <2> HIDE DEF f, rest
  <2>5. Len(<<f>> \o rest) >= 1 /\ (<<f>> \o rest)[1] = f
    BY <2>1, <2>3 DEF f, rest
  <2>6. QED BY <2>4, <2>5 DEF f, rest
<1>11. QED BY <1>1, <1>8, <1>9, <1>10

-------------------------------------------------------------------------------
(* What a builder is made of.                                                  *)

(* The shape of what a builder returns from the tickets W.                     *)
Shaped(c, W) ==
  /\ TicketsOf(c) \in SUBSET W /\ TicketsOf(c) # {}
  /\ c.quality \in Seq(Int) /\ c.at \in Int

(* The tickets of a candidate of two teams.                                    *)
LEMMA PairOfTeams ==
  ASSUME NEW a, NEW b, NEW q, NEW at
  PROVE  TicketsOf(Candidate(<<a, b>>, q, at)) = a \union b
<1>1. Range(<<a, b>>) = {a, b}
  <2>1. DOMAIN <<a, b>> = 1..2 /\ <<a, b>>[1] = a /\ <<a, b>>[2] = b
    OBVIOUS
  <2>2. 1..2 = {1, 2}
    OBVIOUS
  <2>3. QED BY <2>1, <2>2 DEF Range
<1>2. QED BY <1>1 DEF TicketsOf, Candidate

(* The tickets of a candidate of one team.                                     *)
LEMMA OneTeam ==
  ASSUME NEW g, NEW q, NEW at
  PROVE  TicketsOf(Candidate(<<g>>, q, at)) = g
<1>1. Range(<<g>>) = {g}
  <2>1. DOMAIN <<g>> = 1..1 /\ <<g>>[1] = g
    OBVIOUS
  <2>2. 1..1 = {1}
    OBVIOUS
  <2>3. QED BY <2>1, <2>2 DEF Range
<1>2. QED BY <1>1 DEF TicketsOf, Candidate

(* A quality is a sequence of three integers.                                  *)
LEMMA Triple ==
  ASSUME NEW x \in Int, NEW y \in Int, NEW z \in Int
  PROVE  <<x, y, z>> \in Seq(Int)
OBVIOUS

(* Sums over a team are integers.                                              *)
LEMMA TeamSums ==
  ASSUME NEW g \in SUBSET Ticket, IsFiniteSet(g)
  PROVE  /\ SumFunction([t \in g |-> t.off]) \in Int
         /\ RawTotal(g) \in Int
         /\ \A seats \in Nat \ {0} : Mean(g, seats) \in Int
         /\ (\A t \in g : t.size <= TeamSize) => Advantage(g) \in Int
<1>1. \A t \in g : t.off \in Int /\ t.raw \in Int /\ t.rating * t.size \in Int
  <2> SUFFICES ASSUME NEW t \in g PROVE t.off \in Int /\ t.raw \in Int /\ t.rating * t.size \in Int
    OBVIOUS
  <2>1. t.off \in Int /\ t.raw \in Int /\ t.rating \in Int /\ t.size \in Int
    BY DEF Ticket
  <2>2. QED BY <2>1
<1>2. [t \in g |-> t.off] \in [g -> Int] /\ [t \in g |-> t.raw] \in [g -> Int]
      /\ [t \in g |-> t.rating * t.size] \in [g -> Int]
  BY <1>1
<1>3. SumFunction([t \in g |-> t.off]) \in Int /\ SumFunction([t \in g |-> t.raw]) \in Int
      /\ SumFunction([t \in g |-> t.rating * t.size]) \in Int
  BY <1>2, SumOver
<1>4. \A seats \in Nat \ {0} : Mean(g, seats) \in Int
  BY <1>3, QuotientType DEF Mean
<1>5. ASSUME \A t \in g : t.size <= TeamSize PROVE Advantage(g) \in Int
  <2>1. ASSUME NEW t \in g PROVE PartyBonus[t.size] * t.size \in Int
    <3>1. t.size \in Nat \ {0} /\ t.size <= TeamSize /\ TeamSize \in Nat
      BY <1>5, MatchingAssumption DEF ValidMatching, Ticket
    <3>2. t.size \in 1..TeamSize
      <4> DEFINE n == t.size
      <4> HIDE DEF n
      <4>1. n \in Nat \ {0} /\ n <= TeamSize
        BY <3>1 DEF n
      <4>2. n \in 1..TeamSize
        BY <4>1, <3>1
      <4>3. QED BY <4>2 DEF n
    <3>3. PartyBonus[t.size] \in Int
      BY <3>2, MatchingAssumption DEF ValidMatching
    <3>4. QED BY <3>1, <3>3
  <2>2. [t \in g |-> PartyBonus[t.size] * t.size] \in [g -> Int]
    BY <2>1
  <2>3. QED BY <2>2, SumOver DEF Advantage
<1>6. QED BY <1>3, <1>4, <1>5 DEF RawTotal

(* The structure of a team counts parties.                                     *)
LEMMA StructureType ==
  ASSUME NEW g, IsFiniteSet(g)
  PROVE  Structure(g) \in [1..TeamSize -> Nat]
<1>1. ASSUME NEW n \in 1..TeamSize PROVE Cardinality({t \in g : t.size = n}) \in Nat
  <2>1. {t \in g : t.size = n} \in SUBSET g
    OBVIOUS
  <2>2. QED BY <2>1, FS_Subset, FS_CardinalityType
<1>2. QED BY <1>1 DEF Structure

(* The quality of two teams is a sequence of integers.                         *)
LEMMA TeamQualityType ==
  ASSUME NEW a \in SUBSET Ticket, IsFiniteSet(a), NEW b \in SUBSET Ticket, IsFiniteSet(b)
  PROVE  TeamQuality(a, b) \in Seq(Int)
<1> DEFINE apart == [n \in 1..TeamSize |-> Distance(Structure(a)[n], Structure(b)[n])]
<1>0. TeamSize \in Nat \ {0}
  BY MatchingAssumption DEF ValidMatching
<1>1. Distance(Mean(a, TeamSize), Mean(b, TeamSize)) \in Int
  <2>1. Mean(a, TeamSize) \in Int /\ Mean(b, TeamSize) \in Int
    BY <1>0, TeamSums
  <2>2. Distance(Mean(a, TeamSize), Mean(b, TeamSize)) \in Nat
    BY <2>1, DistanceType
  <2>3. QED BY <2>2
<1>2. SumFunction([t \in a \union b |-> t.off]) \in Int
  <2>1. a \union b \in SUBSET Ticket /\ IsFiniteSet(a \union b)
    BY FS_Union
  <2>2. QED BY <2>1, TeamSums
<1>3. SumFunction(apart) \in Int
  <2>1. ASSUME NEW n \in 1..TeamSize PROVE Distance(Structure(a)[n], Structure(b)[n]) \in Int
    <3>1. Structure(a)[n] \in Nat /\ Structure(b)[n] \in Nat
      BY StructureType
    <3>2. Structure(a)[n] \in Int /\ Structure(b)[n] \in Int
      BY <3>1
    <3>3. Distance(Structure(a)[n], Structure(b)[n]) \in Nat
      BY <3>2, DistanceType
    <3>4. QED BY <3>3
  <2>2. apart \in [1..TeamSize -> Int]
    BY <2>1
  <2>3. IsFiniteSet(1..TeamSize)
    BY <1>0, FS_Interval
  <2> HIDE DEF apart
  <2>4. QED BY <2>2, <2>3, SumOver
<1>4. QED BY <1>1, <1>2, <1>3, Triple DEF TeamQuality

(* Close, which the builders test on the extremes, says that everyone is       *)
(* within reach.                                                               *)
LEMMA Reach ==
  ASSUME NEW S \in SUBSET Ticket, IsFiniteSet(S), S # {}
  PROVE  /\ Close(S) <=> WithinReach(S)
         /\ Max({t.rating : t \in S}) - Min({t.rating : t \in S}) \in Int
<1> DEFINE ratings == {t.rating : t \in S}
           deltas == {t.delta : t \in S}
           fr == [t \in S |-> t.rating]
           fd == [t \in S |-> t.delta]
<1>0. \A t \in S : t.rating \in Int /\ t.delta \in Int
  BY DEF Ticket
<1>1. ratings \in SUBSET Int /\ ratings # {} /\ IsFiniteSet(ratings)
  <2>1. ratings = Range(fr) /\ fr \in [S -> Int]
    BY <1>0 DEF Range
  <2>2. IsFiniteSet(ratings)
    <3> HIDE DEF ratings, fr
    <3> QED BY <2>1, ImageFinite
  <2>3. QED BY <1>0, <2>2
<1>2. deltas \in SUBSET Int /\ deltas # {} /\ IsFiniteSet(deltas)
  <2>1. deltas = Range(fd) /\ fd \in [S -> Int]
    BY <1>0 DEF Range
  <2>2. IsFiniteSet(deltas)
    <3> HIDE DEF deltas, fd
    <3> QED BY <2>1, ImageFinite
  <2>3. QED BY <1>0, <2>2
<1>3. /\ \A t \in S : t.rating \in ratings /\ t.delta \in deltas
      /\ \A r \in ratings : \E t \in S : r = t.rating
      /\ \A d \in deltas : \E t \in S : d = t.delta
      /\ Close(S) <=> Max(ratings) - Min(ratings) <= Min(deltas)
  BY DEF Close
<1> HIDE DEF ratings, deltas
<1>4. /\ Max(ratings) \in ratings /\ \A y \in ratings : y <= Max(ratings)
      /\ Min(ratings) \in ratings /\ \A y \in ratings : Min(ratings) <= y
  BY <1>1, MaxMin
<1>5. Min(deltas) \in deltas /\ \A y \in deltas : Min(deltas) <= y
  BY <1>2, MaxMin
<1>6. Max(ratings) \in Int /\ Min(ratings) \in Int /\ Min(deltas) \in Int
  BY <1>1, <1>2, <1>4, <1>5
<1>7. ASSUME Close(S), NEW t \in S, NEW u \in S, NEW v \in S
      PROVE  Distance(t.rating, u.rating) <= v.delta
  <2> DEFINE x == t.rating
             y == u.rating
             d == v.delta
  <2>1. x \in Int /\ y \in Int /\ d \in Int /\ x \in ratings /\ y \in ratings /\ d \in deltas
    BY <1>0, <1>3
  <2> HIDE DEF x, y, d
  <2>2. x <= Max(ratings) /\ Min(ratings) <= x /\ y <= Max(ratings) /\ Min(ratings) <= y
        /\ Min(deltas) <= d /\ Max(ratings) - Min(ratings) <= Min(deltas)
    BY <1>3, <1>4, <1>5, <1>7, <2>1
  <2>3. Distance(x, y) <= d
    BY <1>6, <2>1, <2>2 DEF Distance
  <2>4. QED BY <2>3 DEF x, y, d
<1>8. ASSUME WithinReach(S) PROVE Close(S)
  <2>1. PICK t \in S : Max(ratings) = t.rating
    BY <1>3, <1>4
  <2>2. PICK u \in S : Min(ratings) = u.rating
    BY <1>3, <1>4
  <2>3. PICK v \in S : Min(deltas) = v.delta
    BY <1>3, <1>5
  <2>4. Distance(Max(ratings), Min(ratings)) <= Min(deltas)
    BY <1>8, <2>1, <2>2, <2>3 DEF WithinReach
  <2>5. Max(ratings) >= Min(ratings)
    BY <1>4
  <2>6. Max(ratings) - Min(ratings) <= Min(deltas)
    BY <1>6, <2>4, <2>5 DEF Distance
  <2>7. QED BY <1>3, <2>6
<1>9. QED BY <1>6, <1>7, <1>8 DEF WithinReach, ratings

-------------------------------------------------------------------------------
(* The three builders, soundness.                                              *)

Solos(W) == {t \in W : t.size = 1}

(* Candidates of one against one are fair.                                     *)
LEMMA OneVOneShape ==
  ASSUME NEW m, NEW W, Waiting(m, W)
  PROVE  /\ IsFiniteSet(OneVOne(W))
         /\ \A c \in OneVOne(W) : Shaped(c, W) /\ Fair("OneVsOne", c.teams)
<1> DEFINE N == {v \in Neighbours(Solos(W)) : Close({v[1], v[2]})}
           Of(w) == Candidate(<< {w[1]}, {w[2]} >>, <<Distance(w[1].rating, w[2].rating), 0, 0>>, 0)
           f == [w \in N |-> Of(w)]
<1>1. OneVOne(W) = {Of(w) : w \in N}
  BY DEF OneVOne, Solos
<1>2. N \in SUBSET (W \X W)
  BY DEF Neighbours, Solos
<1>3. IsFiniteSet(OneVOne(W))
  <2>1. IsFiniteSet(W \X W)
    BY FS_Product DEF Waiting
  <2>2. IsFiniteSet(N)
    <3> HIDE DEF N
    <3> QED BY <1>2, <2>1, FS_Subset
  <2>3. f \in [N -> Range(f)] /\ Range(f) = OneVOne(W)
    BY <1>1 DEF Range
  <2> HIDE DEF f, N
  <2>4. QED BY <2>2, <2>3, ImageFinite
<1>4. ASSUME NEW w \in N PROVE Shaped(Of(w), W) /\ Fair("OneVsOne", Of(w).teams)
  <2> DEFINE x == w[1]
             y == w[2]
  <2>1. x \in W /\ y \in W /\ x.size = 1 /\ y.size = 1 /\ Close({x, y})
    BY DEF Neighbours, Solos
  <2> HIDE DEF x, y, N
  <2>2. x \in Ticket /\ y \in Ticket
    BY <2>1 DEF Waiting
  <2>3. WithinReach({x, y})
    <3>1. {x, y} \in SUBSET Ticket /\ {x, y} # {}
      BY <2>2
    <3>2. IsFiniteSet({x, y})
      <4>1. IsFiniteSet({x} \union {y})
        BY FS_Singleton, FS_Union
      <4>2. {x} \union {y} = {x, y}
        OBVIOUS
      <4>3. QED BY <4>1, <4>2
    <3>3. QED BY <2>1, <3>1, <3>2, Reach
  <2>4. Distance(x.rating, y.rating) \in Int
    <3>1. x.rating \in Int /\ y.rating \in Int
      BY <2>2 DEF Ticket
    <3>2. Distance(x.rating, y.rating) \in Nat
      BY <3>1, DistanceType
    <3>3. QED BY <3>2
  <2> DEFINE q == <<Distance(x.rating, y.rating), 0, 0>>
             c == Candidate(<< {x}, {y} >>, q, 0)
  <2>5. q \in Seq(Int)
    BY <2>4, Triple
  <2> HIDE DEF q
  <2>6. TicketsOf(c) = {x} \union {y} /\ c.quality = q /\ c.at = 0 /\ c.teams = << {x}, {y} >>
    BY PairOfTeams DEF Candidate
  <2>7. UNION Range(<< {x}, {y} >>) = {x, y}
    BY <2>6 DEF TicketsOf
  <2> HIDE DEF c
  <2>8. Shaped(c, W)
    BY <2>1, <2>5, <2>6 DEF Shaped
  <2>9. /\ Len(<< {x}, {y} >>) = 2
        /\ \A i \in 1..2 : Cardinality(<< {x}, {y} >>[i]) = 1 /\ SeatsOf(<< {x}, {y} >>[i]) = 1
    <3>1. Cardinality({x}) = 1 /\ SeatsOf({x}) = 1
      <4>1. Cardinality({x}) = 1
        BY FS_Singleton
      <4>2. x.size \in Nat
        BY <2>1
      <4>3. SeatsOf({x}) = x.size
        BY <4>2, SeatsOne
      <4>4. QED BY <2>1, <4>1, <4>3
    <3>2. Cardinality({y}) = 1 /\ SeatsOf({y}) = 1
      <4>1. Cardinality({y}) = 1
        BY FS_Singleton
      <4>2. y.size \in Nat
        BY <2>1
      <4>3. SeatsOf({y}) = y.size
        BY <4>2, SeatsOne
      <4>4. QED BY <2>1, <4>1, <4>3
    <3>3. ASSUME NEW i \in 1..2 PROVE << {x}, {y} >>[i] = {x} \/ << {x}, {y} >>[i] = {y}
      OBVIOUS
    <3>4. QED BY <3>1, <3>2, <3>3
  <2>10. Fair("OneVsOne", << {x}, {y} >>)
    BY <2>3, <2>7, <2>9 DEF Fair
  <2>11. Of(w) = c
    BY DEF c, q, x, y
  <2>12. QED BY <2>6, <2>8, <2>10, <2>11
<1>5. QED
  <2> HIDE DEF Of, N
  <2> QED BY <1>1, <1>3, <1>4

(* What is common to the builders over groups.                                 *)
Grouped(groups, W, seats, largest) ==
  /\ groups \in Seq(SUBSET W)
  /\ Len(groups) \in Nat /\ DOMAIN groups = 1..Len(groups)
  /\ \A i \in DOMAIN groups :
       /\ groups[i] \in SUBSET W /\ groups[i] \in SUBSET Ticket
       /\ IsFiniteSet(groups[i]) /\ groups[i] # {}
       /\ SeatsOf(groups[i]) = seats /\ \A u \in groups[i] : u.size <= largest
  /\ Len(groups) = Cardinality(Exactly(W, seats, largest))
  /\ IsFiniteSet(Exactly(W, seats, largest))
  /\ \A g \in Exactly(W, seats, largest) : \E i \in DOMAIN groups : g = groups[i]

(* What the two builders over groups use of GroupsListed.                      *)
LEMMA GroupTypes ==
  ASSUME NEW m, NEW W, Waiting(m, W), NEW seats \in Nat \ {0}, NEW largest \in Nat,
         NEW groups, groups = Groups(W, seats, largest)
  PROVE  Grouped(groups, W, seats, largest)
<1> DEFINE all == Exactly(W, seats, largest)
<1>1. groups \in Seq(SUBSET W) /\ IsInjective(groups) /\ Range(groups) = all
  BY GroupsListed DEF Waiting
<1>2. Len(groups) \in Nat /\ DOMAIN groups = 1..Len(groups) /\ groups \in [1..Len(groups) -> SUBSET W]
  BY <1>1
<1>3. ASSUME NEW i \in DOMAIN groups
      PROVE  /\ groups[i] \in SUBSET W /\ groups[i] \in SUBSET Ticket
             /\ IsFiniteSet(groups[i]) /\ groups[i] # {}
             /\ SeatsOf(groups[i]) = seats /\ \A u \in groups[i] : u.size <= largest
  <2>1. groups[i] \in all
    BY <1>1 DEF Range
  <2>2. groups[i] \in SUBSET W /\ SeatsOf(groups[i]) = seats /\ \A u \in groups[i] : u.size <= largest
    BY <2>1 DEF Exactly
  <2>3. IsFiniteSet(groups[i]) /\ groups[i] \in SUBSET Ticket
    BY <2>2, FS_Subset DEF Waiting
  <2>4. groups[i] # {}
    BY <2>2, SeatsNone
  <2>5. QED BY <2>2, <2>3, <2>4
<1>4. Len(groups) = Cardinality(all) /\ IsFiniteSet(all)
  <2> DEFINE n == Len(groups)
  <2>1. n \in Nat /\ groups \in [1..n -> all]
    BY <1>1, <1>2 DEF Range
  <2>1a. groups \in Surjection(1..n, all) /\ groups \in Injection(1..n, all)
    BY <1>1, <1>2, <2>1 DEF Surjection, Injection, Range, IsInjective
  <2> HIDE DEF n, all
  <2>2. IsFiniteSet(1..n) /\ Cardinality(1..n) = n
    BY <2>1, FS_Interval
  <2>3. IsFiniteSet(all) /\ Cardinality(all) = n
    BY <2>1a, <2>2, FS_Surjection
  <2>4. QED BY <2>3 DEF n
<1>5. \A g \in all : \E i \in DOMAIN groups : g = groups[i]
  BY <1>1 DEF Range
<1>6. QED BY <1>1, <1>2, <1>3, <1>4, <1>5 DEF Grouped

(* The budget only ever cuts.                                                  *)
LEMMA SomeOfThem ==
  ASSUME NEW numbers, NEW n
  PROVE  /\ FirstOf(numbers, n) \subseteq numbers
         /\ Cardinality(numbers) <= n => FirstOf(numbers, n) = numbers
BY DEF FirstOf

(* Candidates of free for all are fair.                                        *)
LEMMA FreeForAllShape ==
  ASSUME NEW m, NEW W, Waiting(m, W)
  PROVE  /\ IsFiniteSet(FreeForAllOf(W))
         /\ \A c \in FreeForAllOf(W) : Shaped(c, W) /\ Fair("FreeForAll", c.teams)
<1> DEFINE groups == Groups(W, FfaSeats, FfaParty)
           ratings(g) == {t.rating : t \in g}
           quality(g) == << Max(ratings(g)) - Min(ratings(g)),
                            SumFunction([t \in g |-> Distance(t.rating, Mean(g, FfaSeats)) * t.size]),
                            0 >>
           numbers == {i \in DOMAIN groups : Close(groups[i])}
           N == FirstOf(numbers, Budget)
           Of(i) == Candidate(<<groups[i]>>, quality(groups[i]), i)
           f == [i \in N |-> Of(i)]
<1>0. FfaSeats \in Nat \ {0} /\ FfaParty \in Nat
  BY MatchingAssumption DEF ValidMatching
<1>1. FreeForAllOf(W) = {Of(i) : i \in N}
  BY DEF FreeForAllOf
<1>g. /\ Len(groups) \in Nat /\ DOMAIN groups = 1..Len(groups)
      /\ \A i \in DOMAIN groups :
              /\ groups[i] \in SUBSET W /\ groups[i] \in SUBSET Ticket
              /\ IsFiniteSet(groups[i]) /\ groups[i] # {}
              /\ SeatsOf(groups[i]) = FfaSeats
  <2>1. groups = Groups(W, FfaSeats, FfaParty)
    OBVIOUS
  <2> HIDE DEF groups
  <2>2. Grouped(groups, W, FfaSeats, FfaParty)
    BY <1>0, <2>1, GroupTypes
  <2>3. QED BY <2>2 DEF Grouped
<1> HIDE DEF groups
<1>2. N \subseteq numbers
  <2> HIDE DEF numbers
  <2> QED BY SomeOfThem
<1>3. IsFiniteSet(FreeForAllOf(W))
  <2>1. IsFiniteSet(1..Len(groups))
    BY <1>g, FS_Interval
  <2>1a. N \in SUBSET (1..Len(groups))
    BY <1>2, <1>g
  <2>2. IsFiniteSet(N)
    <3> HIDE DEF N
    <3> QED BY <2>1, <2>1a, FS_Subset
  <2>3. f \in [N -> Range(f)] /\ Range(f) = FreeForAllOf(W)
    <3> HIDE DEF N
    <3> QED BY <1>1 DEF Range
  <2> HIDE DEF f, N
  <2>4. QED BY <2>2, <2>3, ImageFinite
<1>4. ASSUME NEW i \in N PROVE Shaped(Of(i), W) /\ Fair("FreeForAll", Of(i).teams)
  <2> DEFINE g == groups[i]
  <2>1. i \in DOMAIN groups /\ Close(g)
    BY <1>2
  <2>2. /\ g \in SUBSET W /\ g \in SUBSET Ticket /\ IsFiniteSet(g) /\ g # {} /\ SeatsOf(g) = FfaSeats
        /\ i \in Int
    BY <1>g, <2>1
  <2> HIDE DEF g, N
  <2>3. WithinReach(g) /\ Max(ratings(g)) - Min(ratings(g)) \in Int
    BY <2>1, <2>2, Reach
  <2>4. SumFunction([t \in g |-> Distance(t.rating, Mean(g, FfaSeats)) * t.size]) \in Int
    <3>1. Mean(g, FfaSeats) \in Int
      BY <1>0, <2>2, TeamSums
    <3>2. ASSUME NEW t \in g PROVE Distance(t.rating, Mean(g, FfaSeats)) * t.size \in Int
      <4>1. t.rating \in Int /\ t.size \in Int
        BY <2>2 DEF Ticket
      <4>2. Distance(t.rating, Mean(g, FfaSeats)) \in Nat
        BY <3>1, <4>1, DistanceType
      <4> DEFINE d == Distance(t.rating, Mean(g, FfaSeats))
                 n == t.size
      <4> HIDE DEF d, n
      <4>3. d * n \in Int
        BY <4>1, <4>2 DEF d, n
      <4>4. QED BY <4>3 DEF d, n
    <3>3. [t \in g |-> Distance(t.rating, Mean(g, FfaSeats)) * t.size] \in [g -> Int]
      BY <3>2
    <3>4. QED BY <2>2, <3>3, SumOver
  <2>5. quality(g) \in Seq(Int)
    <3> HIDE DEF ratings
    <3> QED BY <2>3, <2>4, Triple
  <2> DEFINE q == quality(g)
             c == Candidate(<<g>>, q, i)
  <2> HIDE DEF q, quality, ratings
  <2>6. TicketsOf(c) = g /\ c.quality = q /\ c.at = i /\ c.teams = <<g>>
    BY OneTeam DEF Candidate
  <2>7. UNION Range(<<g>>) = g
    BY <2>6 DEF TicketsOf
  <2> HIDE DEF c
  <2>8. Shaped(c, W)
    BY <2>2, <2>5, <2>6 DEF Shaped, q
  <2>9. Fair("FreeForAll", <<g>>)
    BY <2>2, <2>3, <2>7 DEF Fair
  <2>10. Of(i) = c
    BY DEF c, q, g
  <2>11. QED BY <2>6, <2>8, <2>9, <2>10
<1>5. QED
  <2> HIDE DEF Of, N
  <2> QED BY <1>1, <1>3, <1>4

(* The structures the code compares are the party counts of the property.      *)
LEMMA StructuresAgree ==
  ASSUME NEW a, NEW b
  PROVE  Mirrored(a, b) <=> SameParties(a, b)
BY DEF Mirrored, SameParties, Structure

(* The two early returns of the cross-structure check say that the side with   *)
(* the larger party bonus is the weaker one by at least the difference.        *)
LEMMA CrossIsCompensated ==
  ASSUME NEW a, NEW b, RawTotal(a) \in Int, RawTotal(b) \in Int,
         Advantage(a) \in Int, Advantage(b) \in Int
  PROVE  MayCross(a, b) <=> /\ \E t \in a \union b : t.wait >= MirrorSeconds
                            /\ Compensated(a, b) /\ Compensated(b, a)
<1> DEFINE ra == RawTotal(a)
           rb == RawTotal(b)
           aa == Advantage(a)
           ab == Advantage(b)
<1>1. /\ MayCross(a, b) <=> /\ \E t \in a \union b : t.wait >= MirrorSeconds
                            /\ ~(aa - ab > 0 /\ -(ra - rb) < aa - ab)
                            /\ ~(aa - ab < 0 /\ ra - rb < -(aa - ab))
      /\ Compensated(a, b) <=> (aa > ab => rb - ra >= aa - ab)
      /\ Compensated(b, a) <=> (ab > aa => ra - rb >= ab - aa)
      /\ ra \in Int /\ rb \in Int /\ aa \in Int /\ ab \in Int
  BY DEF MayCross, Compensated
<1> HIDE DEF ra, rb, aa, ab
<1>2. /\ ~(aa - ab > 0 /\ -(ra - rb) < aa - ab) <=> (aa > ab => rb - ra >= aa - ab)
      /\ ~(aa - ab < 0 /\ ra - rb < -(aa - ab)) <=> (ab > aa => ra - rb >= ab - aa)
  BY <1>1
<1>3. QED BY <1>1, <1>2

(* Two groups that fill a team pass the code's test exactly if they are a fair *)
(* match.                                                                      *)
LEMMA PairsAreFair ==
  ASSUME NEW a \in SUBSET Ticket, IsFiniteSet(a), a # {}, SeatsOf(a) = TeamSize,
         NEW b \in SUBSET Ticket, IsFiniteSet(b), b # {}, SeatsOf(b) = TeamSize,
         \A t \in a \union b : t.size <= TeamSize
  PROVE  Pairs(a, b) <=> Fair("FiveVsFive", <<a, b>>)
<1> DEFINE all == a \union b
<1>1. UNION Range(<<a, b>>) = all
  BY PairOfTeams DEF TicketsOf, Candidate
<1>2. all \in SUBSET Ticket /\ IsFiniteSet(all) /\ all # {}
  BY FS_Union
<1> HIDE DEF all
<1>3. Close(all) <=> WithinReach(all)
  BY <1>2, Reach
<1>4. RawTotal(a) \in Int /\ RawTotal(b) \in Int /\ Advantage(a) \in Int /\ Advantage(b) \in Int
  <2>1. (\A t \in a : t.size <= TeamSize) /\ (\A t \in b : t.size <= TeamSize)
    OBVIOUS
  <2>2. QED BY <2>1, TeamSums
<1>5. /\ Mirrored(a, b) <=> SameParties(a, b)
      /\ MayCross(a, b) <=> /\ \E t \in all : t.wait >= MirrorSeconds
                            /\ Compensated(a, b) /\ Compensated(b, a)
  BY <1>4, StructuresAgree, CrossIsCompensated DEF all
<1>6. Pairs(a, b) <=> /\ a \cap b = {}
                      /\ Mirrored(a, b) \/ MayCross(a, b)
                      /\ Close(all)
  BY DEF Pairs, all
<1>7. Fair("FiveVsFive", <<a, b>>) <=>
        /\ WithinReach(all) /\ a \cap b = {}
        /\ \/ SameParties(a, b)
           \/ /\ \E t \in all : t.wait >= MirrorSeconds
              /\ Compensated(a, b) /\ Compensated(b, a)
  BY <1>1 DEF Fair
<1>8. QED BY <1>3, <1>5, <1>6, <1>7

(* How many of n the budget leaves.                                            *)
LEMMA WidthType ==
  ASSUME NEW n \in Nat
  PROVE  /\ Min({n, Budget}) \in 0..n /\ Min({n, Budget}) <= Budget
         /\ n <= Budget => Min({n, Budget}) = n
         /\ n >= 1 => Min({n, Budget}) >= 1
<1>1. Budget \in Nat \ {0}
  BY MatchingAssumption DEF ValidMatching
<1>2. {n, Budget} \in SUBSET Int /\ {n, Budget} # {}
  BY <1>1
<1>3. IsFiniteSet({n, Budget})
  <2>1. IsFiniteSet({n} \union {Budget})
    BY FS_Singleton, FS_Union
  <2>2. {n} \union {Budget} = {n, Budget}
    OBVIOUS
  <2>3. QED BY <2>1, <2>2
<1> DEFINE w == Min({n, Budget})
<1>4. w \in {n, Budget} /\ \A y \in {n, Budget} : w <= y
  BY <1>2, <1>3, MaxMin
<1> HIDE DEF w
<1>5. (w = n \/ w = Budget) /\ w <= n /\ w <= Budget
  BY <1>4
<1>6. w \in 0..n /\ w <= Budget /\ (n <= Budget => w = n) /\ (n >= 1 => w >= 1)
  BY <1>1, <1>5
<1>7. QED BY <1>6 DEF w

(* Candidates of five against five are fair.                                   *)
LEMMA FiveVFiveShape ==
  ASSUME NEW W, Waiting("FiveVsFive", W)
  PROVE  /\ IsFiniteSet(FiveVFive(W))
         /\ \A c \in FiveVFive(W) : Shaped(c, W) /\ Fair("FiveVsFive", c.teams)
<1> DEFINE groups == Groups(W, TeamSize, TeamSize)
           width == Min({Len(groups), Budget})
           pairs == {p \in (1..width) \X (1..width) : Pairs(groups[p[1]], groups[p[2]])}
           number(p) == width * p[1] + p[2]
           first == FirstOf({number(p) : p \in pairs}, Budget)
           N == {q \in pairs : number(q) \in first}
           Of(p) == Candidate(<<groups[p[1]], groups[p[2]]>>,
                              TeamQuality(groups[p[1]], groups[p[2]]), number(p))
           f == [p \in N |-> Of(p)]
<1>0. TeamSize \in Nat \ {0} /\ TeamSize \in Nat
  BY MatchingAssumption DEF ValidMatching
<1>1. FiveVFive(W) = {Of(p) : p \in N}
  BY DEF FiveVFive
<1>g. Grouped(groups, W, TeamSize, TeamSize)
  <2>1. groups = Groups(W, TeamSize, TeamSize)
    OBVIOUS
  <2> HIDE DEF groups
  <2>2. QED BY <1>0, <2>1, GroupTypes
<1> HIDE DEF groups
<1>w. width \in 0..Len(groups) /\ Len(groups) \in Nat
  BY <1>g, WidthType DEF Grouped
<1> HIDE DEF width
<1>2. N \in SUBSET pairs
  OBVIOUS
<1> HIDE DEF first
<1>3. IsFiniteSet(FiveVFive(W))
  <2>1. IsFiniteSet((1..width) \X (1..width))
    <3>1. IsFiniteSet(1..width)
      BY <1>w, FS_Interval
    <3>2. QED BY <3>1, FS_Product
  <2>1a. N \in SUBSET ((1..width) \X (1..width))
    OBVIOUS
  <2>2. IsFiniteSet(N)
    <3> HIDE DEF N
    <3> QED BY <2>1, <2>1a, FS_Subset
  <2>3. f \in [N -> Range(f)] /\ Range(f) = FiveVFive(W)
    <3> HIDE DEF N, Of
    <3> QED BY <1>1 DEF Range
  <2> HIDE DEF f, N
  <2>4. QED BY <2>2, <2>3, ImageFinite
<1>4. ASSUME NEW p \in N PROVE Shaped(Of(p), W) /\ Fair("FiveVsFive", Of(p).teams)
  <2> DEFINE a == groups[p[1]]
             b == groups[p[2]]
             q == TeamQuality(a, b)
             at == number(p)
             c == Candidate(<<a, b>>, q, at)
  <2>1. p[1] \in 1..width /\ p[2] \in 1..width /\ Pairs(a, b)
    OBVIOUS
  <2>2. p[1] \in DOMAIN groups /\ p[2] \in DOMAIN groups
    BY <1>g, <1>w, <2>1 DEF Grouped
  <2>3. /\ a \in SUBSET W /\ a \in SUBSET Ticket /\ IsFiniteSet(a) /\ a # {} /\ SeatsOf(a) = TeamSize
        /\ b \in SUBSET W /\ b \in SUBSET Ticket /\ IsFiniteSet(b) /\ b # {} /\ SeatsOf(b) = TeamSize
    BY <1>g, <2>2 DEF Grouped
  <2>4. \A t \in a \union b : t.size <= TeamSize
    <3>1. \A t \in a : t.size <= TeamSize
      BY <1>g, <2>2 DEF Grouped
    <3>2. \A t \in b : t.size <= TeamSize
      BY <1>g, <2>2 DEF Grouped
    <3>3. QED BY <3>1, <3>2
  <2>5. at \in Int
    <3> DEFINE i == p[1]
               j == p[2]
    <3>1. i \in Int /\ j \in Int /\ width \in Int
      BY <1>w, <2>1
    <3> HIDE DEF i, j
    <3>2. width * i + j \in Int
      BY <3>1
    <3>3. QED BY <3>2 DEF i, j
  <2>6. Of(p) = c
    OBVIOUS
  <2> HIDE DEF a, b, Of, N, at
  <2>7. Fair("FiveVsFive", <<a, b>>)
    BY <2>1, <2>3, <2>4, PairsAreFair
  <2>8. q \in Seq(Int)
    BY <2>3, TeamQualityType
  <2> HIDE DEF q
  <2>9. TicketsOf(c) = a \union b /\ c.quality = q /\ c.at = at /\ c.teams = <<a, b>>
    BY PairOfTeams DEF Candidate
  <2> HIDE DEF c
  <2>10. Shaped(c, W)
    BY <2>3, <2>5, <2>8, <2>9 DEF Shaped
  <2>11. QED BY <2>6, <2>7, <2>9, <2>10
<1>5. QED
  <2> HIDE DEF Of, N
  <2> QED BY <1>1, <1>3, <1>4

(* Any part of a well-formed snapshot is one.                                  *)
LEMMA PartWaits ==
  ASSUME NEW m, NEW W, Waiting(m, W), NEW part \in SUBSET W
  PROVE  Waiting(m, part)
<1>1. IsFiniteSet(part)
  BY FS_Subset DEF Waiting
<1>2. QED BY <1>1 DEF Waiting

(* Whatever part of the snapshot a builder sees, what it returns is fair.      *)
LEMMA BuildShape ==
  ASSUME NEW m \in Mode, NEW W, Waiting(m, W)
  PROVE  /\ IsFiniteSet(Build(m, W))
         /\ \A c \in Build(m, W) : Shaped(c, W) /\ Fair(m, c.teams)
<1>1. CASE m = "OneVsOne"
  <2>1. Build(m, W) = OneVOne(W)
    BY <1>1 DEF Build
  <2>2. QED BY <1>1, <2>1, OneVOneShape
<1>2. CASE m = "FiveVsFive"
  <2>1. Build(m, W) = FiveVFive(W)
    BY <1>2 DEF Build
  <2>2. QED BY <1>2, <2>1, FiveVFiveShape
<1>3. CASE m = "FreeForAll"
  <2>1. Build(m, W) = FreeForAllOf(W)
    BY <1>3 DEF Build
  <2>2. QED BY <1>3, <2>1, FreeForAllShape
<1>4. QED BY <1>1, <1>2, <1>3 DEF Mode

-------------------------------------------------------------------------------
(* Keys, and the candidates a shard owns.                                      *)

(* stable_ticket_ids is a sequence of ids: the rank of an id among the ids is  *)
(* a bijection.                                                                *)
LEMMA AscendingType ==
  ASSUME NEW ids \in SUBSET Nat, IsFiniteSet(ids)
  PROVE  Ascending(ids) \in Seq(Int)
<1> DEFINE n == Cardinality(ids)
           Below(x) == {y \in ids : y < x}
           rank == [x \in ids |-> Cardinality(Below(x))]
<1>0. \A x \in ids : x \in Nat /\ x \in Int
  OBVIOUS
<1>1. n \in Nat
  BY FS_CardinalityType
<1>2. \A x \in ids : IsFiniteSet(Below(x)) /\ Cardinality(Below(x)) \in 0..(n - 1)
  <2> SUFFICES ASSUME NEW x \in ids PROVE IsFiniteSet(Below(x)) /\ Cardinality(Below(x)) \in 0..(n - 1)
    OBVIOUS
  <2>1. Below(x) \in SUBSET ids /\ x \notin Below(x)
    OBVIOUS
  <2> HIDE DEF Below
  <2>2. IsFiniteSet(Below(x)) /\ Cardinality(Below(x)) <= n /\ Cardinality(Below(x)) # n
    BY <2>1, FS_Subset
  <2>3. Cardinality(Below(x)) \in Nat
    BY <2>2, FS_CardinalityType
  <2> HIDE DEF n
  <2>4. QED BY <1>1, <2>2, <2>3
<1>3. ASSUME NEW x \in ids, NEW z \in ids, x < z
      PROVE  Cardinality(Below(x)) # Cardinality(Below(z))
  <2>0. ASSUME NEW y \in ids, y < x PROVE y < z
    <3>1. y \in Nat /\ x \in Nat /\ z \in Nat
      OBVIOUS
    <3>2. QED BY <1>3, <2>0, <3>1
  <2>a. \A y \in Below(x) : y \in Below(z)
    BY <2>0
  <2>b. x \in Below(z) /\ x \notin Below(x)
    BY <1>0, <1>3
  <2>1. Below(x) \in SUBSET Below(z) /\ x \in Below(z) /\ x \notin Below(x)
    <3> HIDE DEF Below
    <3> QED BY <2>a, <2>b
  <2> HIDE DEF Below
  <2>2. QED BY <1>2, <2>1, FS_Subset
<1>4. rank \in Injection(ids, 0..(n - 1))
  <2>1. rank \in [ids -> 0..(n - 1)]
    BY <1>2
  <2>2. ASSUME NEW x \in ids, NEW z \in ids, rank[x] = rank[z] PROVE x = z
    <3>1. Cardinality(Below(x)) = Cardinality(Below(z))
      BY <2>2
    <3> HIDE DEF Below, rank
    <3>2. ~(x < z) /\ ~(z < x)
      BY <1>3, <3>1
    <3>3. x \in Nat /\ z \in Nat
      OBVIOUS
    <3>4. QED BY <3>2, <3>3
  <2> HIDE DEF rank
  <2>3. QED BY <2>1, <2>2 DEF Injection, IsInjective
<1>5. rank \in Surjection(ids, 0..(n - 1))
  <2> HIDE DEF rank
  <2>1. IsFiniteSet(0..(n - 1)) /\ Cardinality(0..(n - 1)) = n
    <3> HIDE DEF n
    <3>1. IsFiniteSet(0..(n - 1)) /\ Cardinality(0..(n - 1)) = IF 0 > n - 1 THEN 0 ELSE (n - 1) - 0 + 1
      BY <1>1, FS_Interval
    <3>2. QED BY <1>1, <3>1
  <2>2. QED BY <1>4, <2>1, FS_Injection
<1> DEFINE At(i) == CHOOSE x \in ids : Cardinality({y \in ids : y < x}) = i - 1
<1>6. ASSUME NEW i \in 1..n
      PROVE  At(i) \in ids
  <2>1. i - 1 \in 0..(n - 1)
    <3> HIDE DEF n
    <3> QED BY <1>1
  <2>2. \E x \in ids : rank[x] = i - 1
    <3> HIDE DEF rank
    <3> QED BY <1>5, <2>1 DEF Surjection
  <2>3. \E x \in ids : Cardinality({y \in ids : y < x}) = i - 1
    BY <2>2
  <2>4. QED BY <2>3
<1>7. Ascending(ids) = [i \in 1..n |-> At(i)]
  BY DEF Ascending
<1> HIDE DEF n, At
<1>8. \A i \in 1..n : At(i) \in Int
  <2> SUFFICES ASSUME NEW i \in 1..n PROVE At(i) \in Int
    OBVIOUS
  <2>1. At(i) \in ids
    BY <1>6
  <2>2. QED BY <1>0, <2>1
<1>9. QED BY <1>1, <1>7, <1>8

(* The ids of a candidate are naturals with a least one.                       *)
LEMMA IdsOfShaped ==
  ASSUME NEW m, NEW W, Waiting(m, W), NEW c, TicketsOf(c) \in SUBSET W, TicketsOf(c) # {}
  PROVE  /\ IdsOf(c) \in SUBSET Nat /\ IsFiniteSet(IdsOf(c)) /\ IdsOf(c) # {}
         /\ Min(IdsOf(c)) \in IdsOf(c) /\ \A y \in IdsOf(c) : Min(IdsOf(c)) <= y
<1> DEFINE T == TicketsOf(c)
           f == [t \in T |-> t.id]
<1>1. IsFiniteSet(T) /\ \A t \in T : t.id \in Nat
  <2>1. IsFiniteSet(T)
    BY FS_Subset DEF Waiting
  <2>2. QED BY <2>1 DEF Waiting, Ticket
<1>2. IdsOf(c) = Range(f) /\ f \in [T -> Nat]
  BY <1>1 DEF IdsOf, Range
<1>3. IsFiniteSet(IdsOf(c))
  <2> HIDE DEF T, f
  <2> QED BY <1>1, <1>2, ImageFinite
<1>4. IdsOf(c) \in SUBSET Nat /\ IdsOf(c) # {}
  BY <1>1 DEF IdsOf
<1>5. IdsOf(c) \in SUBSET Int
  BY <1>4
<1>6. QED BY <1>3, <1>4, <1>5, MaxMin

(* A key is a sequence of integers that starts with the oldest id.             *)
LEMMA KeyType ==
  ASSUME NEW m, NEW W, Waiting(m, W), NEW c, Shaped(c, W), NEW owner \in Int
  PROVE  Key(c, owner) \in Seq(Int) /\ Len(Key(c, owner)) >= 1 /\ Key(c, owner)[1] = Min(IdsOf(c))
<1> DEFINE a == <<Min(IdsOf(c))>>
           d == Ascending(IdsOf(c))
           s == a \o c.quality
<1>1. Min(IdsOf(c)) \in Int /\ d \in Seq(Int)
  BY IdsOfShaped, AscendingType DEF Shaped
<1>2. c.quality \in Seq(Int) /\ c.at \in Int
  BY DEF Shaped
<1>3. a \in Seq(Int) /\ Len(a) = 1 /\ a[1] = Min(IdsOf(c))
  BY <1>1
<1> HIDE DEF a, d
<1> DEFINE x == <<owner>>
           z == <<c.at>>
<1>4. x \in Seq(Int) /\ z \in Seq(Int)
  BY <1>2
<1>5. Key(c, owner) = (((a \o c.quality) \o x) \o d) \o z
  BY DEF Key, a, d
<1> DEFINE q == c.quality
<1> HIDE DEF x, z, q
<1>6. ASSUME NEW u \in Seq(Int), NEW v \in Seq(Int), Len(u) >= 1
      PROVE  u \o v \in Seq(Int) /\ Len(u \o v) >= 1 /\ (u \o v)[1] = u[1]
  BY <1>6
<1>7. (a \o q) \in Seq(Int) /\ Len(a \o q) >= 1 /\ (a \o q)[1] = a[1]
  BY <1>2, <1>3, <1>6 DEF q
<1> DEFINE b == a \o q
<1> HIDE DEF b
<1>8. (b \o x) \in Seq(Int) /\ Len(b \o x) >= 1 /\ (b \o x)[1] = b[1]
  BY <1>4, <1>6, <1>7 DEF b
<1> DEFINE e == b \o x
<1> HIDE DEF e
<1>9. (e \o d) \in Seq(Int) /\ Len(e \o d) >= 1 /\ (e \o d)[1] = e[1]
  BY <1>1, <1>6, <1>8 DEF e
<1> DEFINE g == e \o d
<1> HIDE DEF g
<1>10. (g \o z) \in Seq(Int) /\ Len(g \o z) >= 1 /\ (g \o z)[1] = g[1]
  BY <1>4, <1>6, <1>9 DEF g
<1>11. Key(c, owner) = g \o z
  BY <1>5 DEF g, e, b, q
<1>12. g[1] = Min(IdsOf(c))
  BY <1>3, <1>7, <1>8, <1>9 DEF g, e, b
<1>13. QED BY <1>10, <1>11, <1>12

(* What the dispatcher hands on: a builder's match, with its key.              *)
Proposed(c, m, W) ==
  /\ TicketsOf(c) \in SUBSET W /\ TicketsOf(c) # {} /\ Fair(m, c.teams)
  /\ c.key \in Seq(Int) /\ Len(c.key) >= 1 /\ c.key[1] = Min(IdsOf(c))

(* The candidates of a shard are keyed and fair.                               *)
LEMMA OwnedShape ==
  ASSUME NEW m \in Mode, NEW W, Waiting(m, W), NEW part \in SUBSET W, NEW owner \in Int
  PROVE  /\ Keyed(Owned(Build(m, part), owner))
         /\ \A c \in Owned(Build(m, part), owner) : Proposed(c, m, W)
<1> DEFINE B == Build(m, part)
           O(c) == [teams |-> c.teams, key |-> Key(c, owner)]
           f == [c \in B |-> O(c)]
<1>1. Waiting(m, part)
  BY PartWaits
<1>2. IsFiniteSet(B) /\ \A c \in B : Shaped(c, part) /\ Fair(m, c.teams)
  BY <1>1, BuildShape
<1> HIDE DEF B
<1>3. Owned(B, owner) = {O(c) : c \in B}
  BY DEF Owned
<1>4. IsFiniteSet(Owned(B, owner))
  <2>1. f \in [B -> Range(f)] /\ Range(f) = Owned(B, owner)
    BY <1>3 DEF Range
  <2> HIDE DEF f
  <2>2. QED BY <1>2, <2>1, ImageFinite
<1>5. ASSUME NEW c \in B PROVE Proposed(O(c), m, W)
  <2> DEFINE d == O(c)
  <2>1. d.teams = c.teams /\ d.key = Key(c, owner)
    OBVIOUS
  <2> HIDE DEF d
  <2>2. TicketsOf(d) = TicketsOf(c) /\ IdsOf(d) = IdsOf(c)
    BY <2>1 DEF TicketsOf, IdsOf
  <2>3. Shaped(c, part) /\ Fair(m, c.teams)
    BY <1>2
  <2>4. Key(c, owner) \in Seq(Int) /\ Len(Key(c, owner)) >= 1 /\ Key(c, owner)[1] = Min(IdsOf(c))
    BY <1>1, <2>3, KeyType
  <2>5. TicketsOf(d) \in SUBSET W /\ TicketsOf(d) # {}
    BY <2>2, <2>3 DEF Shaped
  <2>6. Proposed(d, m, W)
    BY <2>1, <2>2, <2>3, <2>4, <2>5 DEF Proposed
  <2>7. QED BY <2>6 DEF d
<1>6. \A c \in Owned(B, owner) : Proposed(c, m, W)
  BY <1>3, <1>5
<1>7. QED BY <1>4, <1>6 DEF Keyed, Proposed, B

-------------------------------------------------------------------------------
(* A shard's rounds.                                                           *)

(* No candidate holds an older ticket than the first.                          *)
LEMMA FirstIsOldest ==
  ASSUME NEW cs, Keyed(cs), NEW d \in cs, NEW m, NEW W, Waiting(m, W),
         \A c \in cs : Proposed(c, m, W)
  PROVE  First(cs) \in cs /\ Min(IdsOf(First(cs))) <= Min(IdsOf(d))
<1> DEFINE c == First(cs)
           x == Min(IdsOf(c))
           y == Min(IdsOf(d))
<1>1. c \in cs /\ ~Precedes(d.key, c.key)
  BY FirstComesFirst
<1> HIDE DEF c
<1>2. Proposed(c, m, W) /\ Proposed(d, m, W)
  BY <1>1
<1>3. x \in Int /\ y \in Int
  <2>1. x \in IdsOf(c) /\ IdsOf(c) \in SUBSET Nat
    BY <1>2, IdsOfShaped DEF Proposed
  <2>2. y \in IdsOf(d) /\ IdsOf(d) \in SUBSET Nat
    BY <1>2, IdsOfShaped DEF Proposed
  <2> HIDE DEF x, y
  <2>3. QED BY <2>1, <2>2
<1>4. /\ c.key \in Seq(Int) /\ 1 \in DOMAIN c.key /\ c.key[1] = x
      /\ d.key \in Seq(Int) /\ 1 \in DOMAIN d.key /\ d.key[1] = y
  BY <1>2 DEF Proposed
<1> HIDE DEF x, y
<1>5. ASSUME y < x PROVE Precedes(d.key, c.key)
  <2>1. d.key[1] < c.key[1] /\ \A j \in 1..(1 - 1) : d.key[j] = c.key[j]
    BY <1>4, <1>5
  <2>2. QED BY <1>4, <2>1 DEF Precedes
<1>6. x <= y
  BY <1>1, <1>3, <1>5
<1>7. QED BY <1>1, <1>6 DEF x, y, c

(* The budget of a shard cuts its rounds, never the first candidate.           *)
LEMMA AtMostBudget ==
  ASSUME NEW T, NEW s \in Seq(T)
  PROVE  /\ AtMost(s, Budget) \in Seq(T)
         /\ Range(AtMost(s, Budget)) \subseteq Range(s)
         /\ Len(s) >= 1 => s[1] \in Range(AtMost(s, Budget))
<1> DEFINE n == Len(s)
           k == Min({n, Budget})
<1>1. n \in Nat
  OBVIOUS
<1>2. k \in 0..n /\ (n >= 1 => k >= 1)
  <2> HIDE DEF n
  <2> QED BY <1>1, WidthType
<1>3. AtMost(s, Budget) = SubSeq(s, 1, k)
  BY DEF AtMost
<1> HIDE DEF k
<1>4. k \in Nat /\ k <= n
  BY <1>1, <1>2
<1>5. /\ SubSeq(s, 1, k) \in Seq(T) /\ DOMAIN SubSeq(s, 1, k) = 1..k
      /\ \A i \in 1..k : SubSeq(s, 1, k)[i] = s[i] /\ i \in DOMAIN s
  BY <1>1, <1>4
<1>6. Range(SubSeq(s, 1, k)) \subseteq Range(s)
  BY <1>5 DEF Range
<1>7. ASSUME n >= 1 PROVE s[1] \in Range(SubSeq(s, 1, k))
  <2>1. 1 \in 1..k
    BY <1>2, <1>4, <1>7
  <2>2. QED BY <1>5, <2>1 DEF Range
<1>8. QED BY <1>3, <1>5, <1>6, <1>7

(* Every round of a shard proposes fair candidates of the snapshot, and its    *)
(* first candidate is the first of its whole part.                             *)
LEMMA RoundsShape ==
  ASSUME NEW m \in Mode, NEW W, Waiting(m, W), NEW part \in SUBSET W, NEW owner \in Int
  PROVE  /\ IsFiniteSet(Range(Rounds(m, part, owner)))
         /\ \A c \in Range(Rounds(m, part, owner)) : Proposed(c, m, W)
         /\ Owned(Build(m, part), owner) # {}
              => First(Owned(Build(m, part), owner)) \in Range(Rounds(m, part, owner))
<1> DEFINE cs(r) == Owned(Build(m, r), owner)
           Any == UNION {cs(r) : r \in SUBSET part}
           T == Seq(Any)
           chosen(r) == Chosen(m, r, owner)
           rest(r) == Left(r, chosen(r))
           Body(f) == [r \in SUBSET part |-> IF chosen(r) = << >> THEN << >> ELSE chosen(r) \o f[rest(r)]]
           local == CHOOSE f : f = Body(f)
<1>0. ASSUME NEW r \in SUBSET part
      PROVE  /\ r \in SUBSET W /\ Waiting(m, r)
             /\ Keyed(cs(r)) /\ (\A c \in cs(r) : Proposed(c, m, W))
             /\ (\A c \in cs(r) : Proposed(c, m, r))
  <2>1. r \in SUBSET W /\ Waiting(m, r) /\ r \in SUBSET r
    BY PartWaits
  <2>2. QED BY <2>1, OwnedShape
<1>1. Rounds(m, part, owner) = AtMost(local[part], Budget)
  BY DEF Rounds
<1>2. ASSUME NEW r \in SUBSET part
      PROVE  /\ chosen(r) \in Seq(cs(r)) /\ chosen(r) \in T
             /\ cs(r) # {} => Len(chosen(r)) >= 1 /\ chosen(r)[1] = First(cs(r))
  <2>1. chosen(r) = TakeDisjoint(cs(r), {})
    BY DEF Chosen
  <2>2. cs(r) \subseteq Any
    OBVIOUS
  <2> HIDE DEF cs, Any
  <2>3. /\ TakeDisjoint(cs(r), {}) \in Seq(cs(r))
        /\ cs(r) # {} => Len(TakeDisjoint(cs(r), {})) >= 1 /\ TakeDisjoint(cs(r), {})[1] = First(cs(r))
    BY <1>0, TakenInOrder DEF Symmetric
  <2> DEFINE s == TakeDisjoint(cs(r), {})
  <2> HIDE DEF s
  <2>4. s \in Seq(Any)
    BY <2>2, <2>3 DEF s
  <2>5. QED BY <2>1, <2>3, <2>4 DEF s
<1>3. ASSUME NEW r \in SUBSET part, chosen(r) # << >>
      PROVE  rest(r) # r
  <2> DEFINE s == chosen(r)
             c == s[1]
  <2>1. s \in Seq(cs(r)) /\ s # << >>
    BY <1>2, <1>3
  <2>2. c \in cs(r) /\ c \in Range(s)
    <3> HIDE DEF s, cs
    <3>1. 1 \in DOMAIN s
      BY <2>1
    <3>2. QED BY <2>1, <3>1 DEF Range
  <2>3. Proposed(c, m, r)
    BY <1>0, <2>2
  <2> HIDE DEF s, c, cs
  <2>4. PICK t \in TicketsOf(c) : t \in r
    BY <2>3 DEF Proposed
  <2>5. t.id \in IdsOf(c)
    BY <2>4 DEF IdsOf
  <2>6. t \notin Left(r, s)
    BY <2>2, <2>5 DEF Left
  <2>7. QED BY <2>4, <2>6 DEF s
<1>4. \A r \in SUBSET part : rest(r) \in SUBSET r
  BY DEF Left
<1> HIDE DEF chosen, rest, cs, Any
<1>5. \E f \in [SUBSET part -> T] : f = Body(f)
  <2> DEFINE base == [r \in SUBSET part |-> << >>]
             next == [r \in SUBSET part |-> rest(r)]
             step == [p \in (SUBSET part) \X T |-> IF chosen(p[1]) = << >> THEN << >> ELSE chosen(p[1]) \o p[2]]
             stop == {r \in SUBSET part : chosen(r) = << >>}
  <2>1. stop \in SUBSET (SUBSET part) /\ base \in [SUBSET part -> T] /\ next \in [SUBSET part -> SUBSET part]
    BY <1>4
  <2>2. step \in [(SUBSET part) \X T -> T]
    <3> SUFFICES ASSUME NEW r \in SUBSET part, NEW v \in T
                 PROVE  (IF chosen(r) = << >> THEN << >> ELSE chosen(r) \o v) \in T
      OBVIOUS
    <3>1. chosen(r) \in T
      BY <1>2
    <3> DEFINE s == chosen(r)
    <3> HIDE DEF s
    <3>2. s \o v \in T /\ << >> \in T
      BY <3>1 DEF s
    <3>3. QED BY <3>2 DEF s
  <2>3. \A r \in SUBSET part : r \in stop \/ (next[r] \subseteq r /\ next[r] # r)
    BY <1>3, <1>4
  <2>p. IsFiniteSet(part)
    BY FS_Subset DEF Waiting
  <2>4. Recursion(part, T, stop, base, next, step)
    BY <2>1, <2>2, <2>3, <2>p DEF Recursion
  <2> HIDE DEF base, next, step, T
  <2>a. \A r \in SUBSET part : r \in stop <=> chosen(r) = << >>
    OBVIOUS
  <2> HIDE DEF stop
  <2>5. PICK f : Solution(f, part, T, stop, base, next, step)
    BY <2>4, SubsetRecursion
  <2>6. f \in [SUBSET part -> T]
    BY <2>5 DEF Solution
  <2>7. ASSUME NEW r \in SUBSET part
        PROVE  f[r] = IF chosen(r) = << >> THEN << >> ELSE chosen(r) \o f[rest(r)]
    <3>1. f[r] = IF r \in stop THEN base[r] ELSE step[<<r, f[next[r]]>>]
      BY <2>5 DEF Solution
    <3>2. next[r] = rest(r) /\ base[r] = << >> /\ (r \in stop <=> chosen(r) = << >>)
      BY <2>a DEF next, base
    <3>3. f[rest(r)] \in T
      BY <1>4, <2>6
    <3>4. step[<<r, f[rest(r)]>>] = IF chosen(r) = << >> THEN << >> ELSE chosen(r) \o f[rest(r)]
      BY <3>3 DEF step
    <3>5. QED BY <3>1, <3>2, <3>4
  <2>8. f = Body(f)
    BY <2>6, <2>7
  <2>9. QED BY <2>6, <2>8
<1>6. local = Body(local) /\ local \in [SUBSET part -> T]
  <2>1. local = Body(local)
    <3> HIDE DEF Body
    <3> QED BY <1>5
  <2>2. ASSUME NEW f \in [SUBSET part -> T], f = Body(f), NEW g, g = Body(g)
        PROVE  g = f
    <3> DEFINE Bad == {r \in SUBSET part : f[r] # g[r]}
    <3>1. Bad = {}
      <4>1. SUFFICES ASSUME Bad # {} PROVE FALSE
        OBVIOUS
      <4>p. IsFiniteSet(part) /\ Bad \in SUBSET (SUBSET part)
        BY FS_Subset DEF Waiting
      <4>2. PICK r \in Bad : \A u \in Bad : ~(u \subseteq r /\ u # r)
        <5> HIDE DEF Bad
        <5> QED BY <4>1, <4>p, SmallestSubset
      <4>3. /\ f[r] = IF chosen(r) = << >> THEN << >> ELSE chosen(r) \o f[rest(r)]
            /\ g[r] = IF chosen(r) = << >> THEN << >> ELSE chosen(r) \o g[rest(r)]
        <5>0. r \in SUBSET part
          OBVIOUS
        <5>1. Body(f)[r] = IF chosen(r) = << >> THEN << >> ELSE chosen(r) \o f[rest(r)]
          BY <5>0
        <5>2. Body(g)[r] = IF chosen(r) = << >> THEN << >> ELSE chosen(r) \o g[rest(r)]
          BY <5>0
        <5> HIDE DEF Body
        <5>3. QED BY <2>2, <5>1, <5>2
      <4>4. chosen(r) # << >> /\ f[rest(r)] # g[rest(r)]
        BY <4>3
      <4>5. rest(r) \in Bad /\ rest(r) \subseteq r /\ rest(r) # r
        BY <1>3, <1>4, <4>4
      <4>6. QED BY <4>2, <4>5
    <3>2. DOMAIN f = SUBSET part /\ DOMAIN g = SUBSET part /\ g = [r \in SUBSET part |-> g[r]]
      BY <2>2
    <3>3. QED BY <3>1, <3>2
  <2>3. QED
    <3> HIDE DEF Body, local, T
    <3> QED BY <1>5, <2>1, <2>2
<1>7. local[part] \in T
  <2> HIDE DEF local, T
  <2> QED BY <1>6
<1>8. local[part] = IF chosen(part) = << >> THEN << >> ELSE chosen(part) \o local[rest(part)]
  <2>1. Body(local)[part] = IF chosen(part) = << >> THEN << >> ELSE chosen(part) \o local[rest(part)]
    <3> HIDE DEF local
    <3> QED OBVIOUS
  <2> HIDE DEF local, Body
  <2>2. QED BY <1>6, <2>1
<1>8a. local[rest(part)] \in T
  <2> HIDE DEF local, T
  <2> QED BY <1>6, <1>4
<1> HIDE DEF local
<1> DEFINE all == local[part]
<1>9. ASSUME cs(part) # {} PROVE Len(all) >= 1 /\ all[1] = First(cs(part))
  <2> DEFINE s == chosen(part)
             v == local[rest(part)]
  <2>1. s \in T /\ v \in T /\ Len(s) >= 1 /\ s[1] = First(cs(part))
    BY <1>2, <1>8a, <1>9
  <2>2. s # << >>
    <3> HIDE DEF s
    <3> QED BY <2>1
  <2>3. all = s \o v
    BY <1>8, <2>2
  <2> HIDE DEF s, v, all
  <2>4. QED BY <2>1, <2>3
<1>10. \A c \in Any : Proposed(c, m, W)
  BY <1>0 DEF Any
<1> DEFINE out == Rounds(m, part, owner)
<1>11. /\ out \in Seq(Any) /\ Range(out) \subseteq Range(all)
       /\ Len(all) >= 1 => all[1] \in Range(out)
  <2> HIDE DEF all
  <2> QED BY <1>1, <1>7, AtMostBudget DEF all
<1>12. IsFiniteSet(Range(out)) /\ Range(out) \subseteq Any
  BY <1>11, SeqFinite
<1>13. QED BY <1>9, <1>10, <1>11, <1>12 DEF cs

-------------------------------------------------------------------------------
(* The three builders, completeness.                                           *)

(* Two ratings no further apart than d lie in buckets no further apart than    *)
(* the halo of d, so the filter of dispatcher::generate hides no acceptable    *)
(* opponent from the shard that owns either of them.                           *)
THEOREM HaloCovers ==
  ASSUME NEW x \in Int, NEW y \in Int, NEW d \in Int,
         Distance(x, y) <= d
  PROVE  Distance(Bucket(x), Bucket(y)) <= Halo(d)
<1>1. ASSUME NEW a \in Int, NEW b \in Int, a >= b, a - b <= d
      PROVE  /\ a \div 100 >= b \div 100
             /\ a \div 100 - b \div 100 <= (d + 99) \div 100
  <2>1. /\ 100 * (a \div 100) <= a /\ a < 100 * (a \div 100) + 100
        /\ 100 * (b \div 100) <= b /\ b < 100 * (b \div 100) + 100
        /\ d + 99 < 100 * ((d + 99) \div 100) + 100
    OBVIOUS
  <2>2. a \div 100 \in Int /\ b \div 100 \in Int /\ (d + 99) \div 100 \in Int
    OBVIOUS
  <2>3. QED BY <2>1, <2>2, <1>1
<1>2. d >= 0 BY DEF Distance
<1>3. Halo(d) = (d + 99) \div 100 BY <1>2 DEF Halo
<1>4. CASE x >= y
  BY <1>1, <1>3, <1>4 DEF Distance, Bucket
<1>5. CASE ~(x >= y)
  BY <1>1, <1>3, <1>5 DEF Distance, Bucket
<1>6. QED BY <1>4, <1>5

(* The shard that owns a ticket sees the whole of every match the ticket could *)
(* be in.                                                                      *)
LEMMA OwnShardSees ==
  ASSUME NEW m, NEW W, Waiting(m, W), NEW g \in SUBSET W, WithinReach(g), NEW t \in g
  PROVE  g \in SUBSET ShardPart(W, Bucket(t.rating))
<1> SUFFICES ASSUME NEW u \in g PROVE u \in ShardPart(W, Bucket(t.rating))
  OBVIOUS
<1>1. u.rating \in Int /\ t.rating \in Int /\ u.delta \in Int
  BY DEF Waiting, Ticket
<1>2. Distance(u.rating, t.rating) <= u.delta
  BY DEF WithinReach
<1>3. Distance(Bucket(u.rating), Bucket(t.rating)) <= Halo(u.delta)
  BY <1>1, <1>2, HaloCovers
<1>4. QED BY <1>3 DEF ShardPart

(* Squares grow.                                                               *)
LEMMA SquareBounds ==
  ASSUME NEW n \in Nat, NEW k \in Nat, n <= k
  PROVE  n * n <= k * k /\ n <= n * n /\ n * n \in Nat /\ k * k \in Nat
<1>1. n * n <= k * n
  BY Z3T(30)
<1>2. k * n <= k * k
  BY Z3T(30)
<1>3. n <= n * n
  BY Z3T(30)
<1>4. n * n \in Nat /\ k * k \in Nat /\ k * n \in Nat
  OBVIOUS
<1>5. QED BY <1>1, <1>2, <1>3, <1>4

(* A part has no more groups than the whole.                                   *)
LEMMA FilledBounds ==
  ASSUME NEW m, NEW W, Waiting(m, W), NEW part \in SUBSET W, NEW seats, NEW largest,
         seats = (IF m = "FreeForAll" THEN FfaSeats ELSE TeamSize)
  PROVE  /\ IsFiniteSet(Filled(m, W)) /\ Cardinality(Filled(m, W)) \in Nat
         /\ Cardinality(Exactly(part, seats, largest)) <= Cardinality(Filled(m, W))
<1>1. IsFiniteSet(SUBSET W)
  BY FS_SUBSET DEF Waiting
<1>2. Filled(m, W) \in SUBSET (SUBSET W)
  BY DEF Filled
<1>3. IsFiniteSet(Filled(m, W))
  BY <1>1, <1>2, FS_Subset
<1>4. Exactly(part, seats, largest) \in SUBSET Filled(m, W)
  BY DEF Exactly, Filled
<1>5. QED BY <1>3, <1>4, FS_Subset, FS_CardinalityType

(* The builders find a match for any ticket of their part that can be in one,  *)
(* as long as the budget lets them look at every pair of groups.               *)
Roomy(m, W) ==
  m = "OneVsOne" \/ Cardinality(Filled(m, W)) * Cardinality(Filled(m, W)) <= Budget

(* The builder of a mode finds a match for t in a part of the snapshot.        *)
Serves(m, part, t) == \E c \in Build(m, part) : t \in TicketsOf(c)

(* Neighbours in the snapshot are neighbours in the shard's part of it.        *)
LEMMA OneVOneServes ==
  ASSUME NEW W, Waiting("OneVsOne", W), NEW t \in W, Matchable("OneVsOne", t, W)
  PROVE  Serves("OneVsOne", ShardPart(W, Bucket(t.rating)), t)
<1> DEFINE part == ShardPart(W, Bucket(t.rating))
           between(u, v) == \E w \in Solos(W) : Cheaper(u, w) /\ Cheaper(w, v)
<1>0. \E u \in Solos(W) \ {t} : t \in Solos(W) /\ WithinReach({t, u}) /\ ~between(t, u) /\ ~between(u, t)
  BY DEF Matchable, Solos
<1>1. PICK u \in Solos(W) \ {t} : t \in Solos(W) /\ WithinReach({t, u}) /\ ~between(t, u) /\ ~between(u, t)
  BY <1>0
<1>2. {t, u} \in SUBSET part
  <2>1. {t, u} \in SUBSET W /\ t \in {t, u}
    BY DEF Solos
  <2>2. QED BY <1>1, <2>1, OwnShardSees
<1>3. t \in Solos(part) /\ u \in Solos(part) /\ Solos(part) \subseteq Solos(W)
  BY <1>1, <1>2 DEF Solos, ShardPart
<1>4. Cheaper(t, u) \/ Cheaper(u, t)
  <2>1. t \in W /\ u \in W /\ t # u
    BY DEF Solos
  <2>2. t.id # u.id /\ t.id \in Int /\ u.id \in Int /\ t.rating \in Int /\ u.rating \in Int
    BY <2>1 DEF Waiting, Ticket
  <2>3. QED BY <2>2 DEF Cheaper
<1> HIDE DEF part
<1>5. Close({t, u}) /\ {u, t} = {t, u}
  <2>1. {t, u} \in SUBSET Ticket /\ {t, u} # {}
    BY DEF Solos, Waiting
  <2>2. IsFiniteSet({t, u})
    <3>1. IsFiniteSet({t} \union {u})
      BY FS_Singleton, FS_Union
    <3>2. {t} \union {u} = {t, u}
      OBVIOUS
    <3>3. QED BY <3>1, <3>2
  <2>3. QED BY <1>1, <2>1, <2>2, Reach
<1>6. ASSUME NEW x \in Solos(part), NEW y \in Solos(part), Cheaper(x, y), ~between(x, y),
             Close({x, y}), t \in {x} \union {y}
      PROVE  Serves("OneVsOne", part, t)
  <2> DEFINE w == <<x, y>>
             Of(v) == Candidate(<< {v[1]}, {v[2]} >>, <<Distance(v[1].rating, v[2].rating), 0, 0>>, 0)
             c == Of(w)
  <2>1. w \in Neighbours(Solos(part)) /\ Close({w[1], w[2]})
    BY <1>3, <1>6 DEF Neighbours
  <2>2. OneVOne(part) = {Of(v) : v \in {v \in Neighbours(Solos(part)) : Close({v[1], v[2]})}}
    BY DEF OneVOne, Solos
  <2>3. c \in OneVOne(part)
    <3> HIDE DEF Of, w
    <3> QED BY <2>1, <2>2
  <2>4. TicketsOf(c) = {x} \union {y}
    BY PairOfTeams
  <2> HIDE DEF c
  <2>5. Build("OneVsOne", part) = OneVOne(part)
    BY DEF Build
  <2>6. QED BY <1>6, <2>3, <2>4, <2>5 DEF Serves
<1>7. ASSUME Cheaper(t, u) PROVE Serves("OneVsOne", part, t)
  <2>1. t \in {t} \union {u}
    OBVIOUS
  <2> HIDE DEF between
  <2>2. QED BY <1>1, <1>3, <1>5, <1>6, <1>7, <2>1
<1>8. ASSUME Cheaper(u, t) PROVE Serves("OneVsOne", part, t)
  <2>1. t \in {u} \union {t}
    OBVIOUS
  <2> HIDE DEF between
  <2>2. QED BY <1>1, <1>3, <1>5, <1>6, <1>8, <2>1
<1>9. QED BY <1>4, <1>7, <1>8 DEF part

(* Free for all: the group is listed, and the budget does not cut it.          *)
LEMMA FreeForAllServes ==
  ASSUME NEW W, Waiting("FreeForAll", W), NEW t \in W, Matchable("FreeForAll", t, W),
         Roomy("FreeForAll", W)
  PROVE  Serves("FreeForAll", ShardPart(W, Bucket(t.rating)), t)
<1> DEFINE part == ShardPart(W, Bucket(t.rating))
           groups == Groups(part, FfaSeats, FfaParty)
           ratings(g) == {u.rating : u \in g}
           quality(g) == << Max(ratings(g)) - Min(ratings(g)),
                            SumFunction([u \in g |-> Distance(u.rating, Mean(g, FfaSeats)) * u.size]),
                            0 >>
           numbers == {i \in DOMAIN groups : Close(groups[i])}
           N == FirstOf(numbers, Budget)
           Of(i) == Candidate(<<groups[i]>>, quality(groups[i]), i)
<1>0. FfaSeats \in Nat \ {0} /\ FfaParty \in Nat /\ Budget \in Nat \ {0}
  BY MatchingAssumption DEF ValidMatching
<1>1. PICK g \in SUBSET W : t \in g /\ (\A u \in g : u.size <= FfaParty) /\ Fair("FreeForAll", <<g>>)
  BY DEF Matchable
<1>2. WithinReach(g) /\ SeatsOf(g) = FfaSeats
  <2>1. UNION Range(<<g>>) = g
    BY OneTeam DEF TicketsOf, Candidate
  <2>2. QED BY <1>1, <2>1 DEF Fair
<1>3. g \in SUBSET part /\ part \in SUBSET W
  <2>1. part \in SUBSET W
    BY DEF ShardPart
  <2>2. QED BY <1>1, <1>2, <2>1, OwnShardSees
<1>4. Build("FreeForAll", part) = {Of(i) : i \in N}
  BY DEF Build, FreeForAllOf
<1> HIDE DEF part
<1>5. Grouped(groups, part, FfaSeats, FfaParty)
  <2>1. groups = Groups(part, FfaSeats, FfaParty) /\ Waiting("FreeForAll", part)
    BY <1>3, PartWaits
  <2> HIDE DEF groups
  <2>2. QED BY <1>0, <2>1, GroupTypes
<1> HIDE DEF groups
<1>6. Len(groups) \in Nat /\ DOMAIN groups = 1..Len(groups) /\ Len(groups) <= Budget
  <2> DEFINE n == Len(groups)
             k == Cardinality(Filled("FreeForAll", W))
  <2>1. n \in Nat /\ DOMAIN groups = 1..n /\ n = Cardinality(Exactly(part, FfaSeats, FfaParty))
    BY <1>5 DEF Grouped
  <2>2. k \in Nat /\ n <= k
    BY <1>3, <2>1, FilledBounds
  <2>3. k * k <= Budget
    BY DEF Roomy
  <2> HIDE DEF n, k
  <2>4. n <= k * k /\ k * k \in Nat
    <3>1. n * n <= k * k /\ n <= n * n /\ n * n \in Nat /\ k * k \in Nat
      BY <2>1, <2>2, SquareBounds
    <3>2. QED BY <2>1, <3>1
  <2>5. n <= Budget
    BY <1>0, <2>1, <2>3, <2>4
  <2>6. QED BY <2>1, <2>5 DEF n
<1>7. N = numbers
  <2>1. numbers \in SUBSET (1..Len(groups))
    BY <1>6
  <2> DEFINE n == Len(groups)
  <2>2. IsFiniteSet(1..n) /\ Cardinality(1..n) = n
    <3>1. n \in Nat
      BY <1>6
    <3> HIDE DEF n
    <3>2. QED BY <3>1, FS_Interval
  <2> HIDE DEF numbers
  <2>3. Cardinality(numbers) <= n /\ Cardinality(numbers) \in Nat
    <3>1. numbers \in SUBSET (1..n)
      BY <2>1
    <3> HIDE DEF n
    <3>2. QED BY <3>1, <2>2, FS_Subset, FS_CardinalityType
  <2>4. Cardinality(numbers) <= Budget
    BY <1>0, <1>6, <2>3
  <2>5. QED BY <2>4, SomeOfThem
<1>8. g \in Exactly(part, FfaSeats, FfaParty)
  BY <1>1, <1>2, <1>3 DEF Exactly
<1>9. PICK i \in DOMAIN groups : g = groups[i]
  BY <1>5, <1>8 DEF Grouped
<1>10. Close(g)
  <2>1. g \in SUBSET Ticket /\ IsFiniteSet(g) /\ g # {}
    BY <1>5, <1>9 DEF Grouped
  <2>2. QED BY <1>2, <2>1, Reach
<1>11. Of(i) \in Build("FreeForAll", part)
  <2>1. i \in numbers
    BY <1>9, <1>10
  <2> HIDE DEF N, numbers, Of
  <2>2. QED BY <1>4, <1>7, <2>1
<1>12. TicketsOf(Of(i)) = g
  <2> HIDE DEF quality
  <2> QED BY <1>9, OneTeam
<1>13. Serves("FreeForAll", part, t)
  <2> HIDE DEF Of
  <2> QED BY <1>1, <1>11, <1>12 DEF Serves
<1>14. QED BY <1>13 DEF part

(* Five against five: both groups are listed, and the budget does not cut      *)
(* their pair.                                                                 *)
LEMMA FiveVFiveServes ==
  ASSUME NEW W, Waiting("FiveVsFive", W), NEW t \in W, Matchable("FiveVsFive", t, W),
         Roomy("FiveVsFive", W)
  PROVE  Serves("FiveVsFive", ShardPart(W, Bucket(t.rating)), t)
<1> DEFINE part == ShardPart(W, Bucket(t.rating))
           groups == Groups(part, TeamSize, TeamSize)
           width == Min({Len(groups), Budget})
           pairs == {p \in (1..width) \X (1..width) : Pairs(groups[p[1]], groups[p[2]])}
           number(p) == width * p[1] + p[2]
           numbers == {number(p) : p \in pairs}
           first == FirstOf(numbers, Budget)
           N == {q \in pairs : number(q) \in first}
           Of(p) == Candidate(<<groups[p[1]], groups[p[2]]>>,
                              TeamQuality(groups[p[1]], groups[p[2]]), number(p))
<1>0. TeamSize \in Nat \ {0} /\ TeamSize \in Nat /\ Budget \in Nat \ {0}
  BY MatchingAssumption DEF ValidMatching
<1>1. PICK a \in SUBSET W : /\ t \in a /\ SeatsOf(a) = TeamSize
                            /\ \E b \in SUBSET (W \ a) : Fair("FiveVsFive", <<a, b>>)
  BY DEF Matchable
<1>1b. PICK b \in SUBSET (W \ a) : Fair("FiveVsFive", <<a, b>>)
  BY <1>1
<1>2. WithinReach(a \union b) /\ SeatsOf(b) = TeamSize
  <2>1. UNION Range(<<a, b>>) = a \union b
    BY PairOfTeams DEF TicketsOf, Candidate
  <2>2. QED BY <1>1b, <2>1 DEF Fair
<1>3. a \in SUBSET part /\ b \in SUBSET part /\ part \in SUBSET W
  <2>1. part \in SUBSET W
    BY DEF ShardPart
  <2>2. a \union b \in SUBSET W /\ t \in a \union b
    BY <1>1
  <2>3. a \union b \in SUBSET part
    BY <1>2, <2>2, OwnShardSees
  <2>4. QED BY <2>1, <2>3
<1>4. Build("FiveVsFive", part) = {Of(p) : p \in N}
  BY DEF Build, FiveVFive
<1> HIDE DEF part
<1>5. Grouped(groups, part, TeamSize, TeamSize)
  <2>1. groups = Groups(part, TeamSize, TeamSize) /\ Waiting("FiveVsFive", part)
    BY <1>3, PartWaits
  <2> HIDE DEF groups
  <2>2. QED BY <1>0, <2>1, GroupTypes
<1> HIDE DEF groups
<1>6. Len(groups) \in Nat /\ DOMAIN groups = 1..Len(groups)
      /\ width = Len(groups) /\ width * width \in Nat /\ width * width <= Budget
  <2> DEFINE n == Len(groups)
             k == Cardinality(Filled("FiveVsFive", W))
  <2>1. n \in Nat /\ DOMAIN groups = 1..n /\ n = Cardinality(Exactly(part, TeamSize, TeamSize))
    BY <1>5 DEF Grouped
  <2>2. k \in Nat /\ n <= k
    BY <1>3, <2>1, FilledBounds
  <2>3. k * k <= Budget
    BY DEF Roomy
  <2> HIDE DEF n, k
  <2>4. n * n <= k * k /\ n <= n * n /\ n * n \in Nat /\ k * k \in Nat
    BY <2>1, <2>2, SquareBounds
  <2>5. n <= Budget /\ n * n <= Budget
    BY <1>0, <2>1, <2>3, <2>4
  <2>6. width = n
    BY <2>1, <2>5, WidthType DEF n
  <2>7. QED BY <2>1, <2>4, <2>5, <2>6 DEF n
<1> HIDE DEF width
<1>7. N = pairs
  <2> DEFINE square == (1..width) \X (1..width)
             f == [p \in pairs |-> number(p)]
  <2>1. width \in Nat
    BY <1>6
  <2>2. IsFiniteSet(square) /\ Cardinality(square) = width * width
    <3>1. IsFiniteSet(1..width) /\ Cardinality(1..width) = width
      BY <2>1, FS_Interval
    <3>2. QED BY <3>1, FS_Product
  <2>3. pairs \in SUBSET square
    OBVIOUS
  <2>4. f \in [pairs -> Range(f)] /\ Range(f) = numbers
    <3> HIDE DEF pairs, number
    <3> QED BY DEF Range
  <2> HIDE DEF pairs, square, f, numbers
  <2>5. IsFiniteSet(pairs) /\ Cardinality(pairs) <= width * width /\ Cardinality(pairs) \in Nat
    BY <2>2, <2>3, FS_Subset, FS_CardinalityType
  <2>6. IsFiniteSet(numbers) /\ Cardinality(numbers) <= Cardinality(pairs) /\ Cardinality(numbers) \in Nat
    BY <2>4, <2>5, ImageFinite, FS_CardinalityType
  <2> DEFINE x == Cardinality(numbers)
             y == Cardinality(pairs)
             z == width * width
  <2>7. x \in Nat /\ y \in Nat /\ z \in Nat /\ x <= y /\ y <= z /\ z <= Budget
    BY <1>6, <2>5, <2>6
  <2> HIDE DEF x, y, z
  <2>8. x <= Budget
    BY <1>0, <2>7
  <2>9. first = numbers
    BY <2>8, SomeOfThem DEF x
  <2> HIDE DEF first, number
  <2>10. \A p \in pairs : number(p) \in numbers
    BY DEF numbers
  <2>11. QED BY <2>9, <2>10
<1>8. a \in Exactly(part, TeamSize, TeamSize) /\ b \in Exactly(part, TeamSize, TeamSize)
  <2>1. ASSUME NEW g \in SUBSET W, SeatsOf(g) = TeamSize PROVE \A u \in g : u.size <= TeamSize
    BY DEF Waiting
  <2>2. b \in SUBSET W
    OBVIOUS
  <2>3. QED BY <1>1, <1>2, <1>3, <2>1, <2>2 DEF Exactly
<1>9. PICK i \in DOMAIN groups : a = groups[i]
  BY <1>5, <1>8 DEF Grouped
<1>10. PICK j \in DOMAIN groups : b = groups[j]
  BY <1>5, <1>8 DEF Grouped
<1>11. Pairs(a, b)
  <2>1. /\ a \in SUBSET Ticket /\ IsFiniteSet(a) /\ a # {} /\ SeatsOf(a) = TeamSize
        /\ b \in SUBSET Ticket /\ IsFiniteSet(b) /\ b # {} /\ SeatsOf(b) = TeamSize
    BY <1>5, <1>9, <1>10 DEF Grouped
  <2>2. \A u \in a \union b : u.size <= TeamSize
    BY <1>8 DEF Exactly
  <2>3. QED BY <1>1b, <2>1, <2>2, PairsAreFair
<1> DEFINE p == <<i, j>>
<1>12. Of(p) \in Build("FiveVsFive", part)
  <2>1. i \in 1..width /\ j \in 1..width
    BY <1>6
  <2>2. p \in pairs
    BY <1>9, <1>10, <1>11, <2>1
  <2> HIDE DEF N, pairs, Of, p
  <2>3. QED BY <1>4, <1>7, <2>2
<1>13. TicketsOf(Of(p)) = a \union b
  <2> HIDE DEF number
  <2> QED BY <1>9, <1>10, PairOfTeams
<1>14. Serves("FiveVsFive", part, t)
  <2> HIDE DEF Of
  <2> QED BY <1>1, <1>12, <1>13 DEF Serves
<1>15. QED BY <1>14 DEF part

(* The builders find a match for any ticket that can be in one.                *)
LEMMA BuildServes ==
  ASSUME NEW m \in Mode, NEW W, Waiting(m, W), NEW t \in W, Matchable(m, t, W), Roomy(m, W)
  PROVE  Serves(m, ShardPart(W, Bucket(t.rating)), t)
<1>1. CASE m = "OneVsOne"
  BY <1>1, OneVOneServes
<1>2. CASE m = "FiveVsFive"
  BY <1>2, FiveVFiveServes
<1>3. CASE m = "FreeForAll"
  BY <1>3, FreeForAllServes
<1>4. QED BY <1>1, <1>2, <1>3 DEF Mode

(* What all shards together generate.                                          *)
LEMMA GenerateShape ==
  ASSUME NEW m \in Mode, NEW W, Waiting(m, W)
  PROVE  /\ Keyed(Generate(m, W)) /\ \A c \in Generate(m, W) : Proposed(c, m, W)
         /\ \A t \in W : Matchable(m, t, W) /\ Roomy(m, W) =>
              \E c \in Generate(m, W) : /\ Min(IdsOf(c)) <= t.id
                                       /\ TicketsOf(c) \in SUBSET Seen(W, t)
<1> DEFINE owners == {Bucket(t.rating) : t \in W}
           number(bucket) == Cardinality({b \in owners : b < bucket})
           out(bucket) == Range(Rounds(m, ShardPart(W, bucket), number(bucket)))
           f == [bucket \in owners |-> out(bucket)]
           fb == [t \in W |-> Bucket(t.rating)]
<1>1. Generate(m, W) = UNION {out(bucket) : bucket \in owners}
  BY DEF Generate
<1>2. IsFiniteSet(owners)
  <2>1. fb \in [W -> Range(fb)] /\ Range(fb) = owners
    BY DEF Range
  <2> HIDE DEF fb, owners
  <2>2. QED BY <2>1, ImageFinite DEF Waiting
<1>2a. \A t \in W : Bucket(t.rating) \in owners
  OBVIOUS
<1> HIDE DEF owners
<1>3. ASSUME NEW bucket \in owners
      PROVE  number(bucket) \in Int /\ ShardPart(W, bucket) \in SUBSET W
  <2>1. {b \in owners : b < bucket} \in SUBSET owners
    OBVIOUS
  <2>2. number(bucket) \in Nat
    BY <1>2, <2>1, FS_Subset, FS_CardinalityType
  <2> HIDE DEF number
  <2>3. QED BY <2>2 DEF ShardPart
<1> HIDE DEF number
<1>4. ASSUME NEW bucket \in owners
      PROVE  /\ IsFiniteSet(out(bucket)) /\ \A c \in out(bucket) : Proposed(c, m, W)
             /\ Owned(Build(m, ShardPart(W, bucket)), number(bucket)) # {}
                  => First(Owned(Build(m, ShardPart(W, bucket)), number(bucket))) \in out(bucket)
  BY <1>3, RoundsShape
<1>5. IsFiniteSet(Generate(m, W)) /\ \A c \in Generate(m, W) : Proposed(c, m, W)
  <2> HIDE DEF out
  <2>1. f \in [owners -> Range(f)] /\ Range(f) = {out(bucket) : bucket \in owners}
    BY DEF Range
  <2> HIDE DEF f
  <2>2. IsFiniteSet({out(bucket) : bucket \in owners})
    BY <1>2, <2>1, ImageFinite
  <2>3. \A s \in {out(bucket) : bucket \in owners} : IsFiniteSet(s)
    BY <1>4
  <2>4. IsFiniteSet(UNION {out(bucket) : bucket \in owners})
    BY <2>2, <2>3, FS_UNION
  <2>5. QED BY <1>1, <1>4, <2>4
<1>6. ASSUME NEW t \in W, Matchable(m, t, W), Roomy(m, W)
      PROVE  \E c \in Generate(m, W) : /\ Min(IdsOf(c)) <= t.id
                                       /\ TicketsOf(c) \in SUBSET Seen(W, t)
  <2> DEFINE bucket == Bucket(t.rating)
             part == ShardPart(W, bucket)
             owner == number(bucket)
             cs == Owned(Build(m, part), owner)
  <2>1. bucket \in owners
    BY <1>2a
  <2>2. part \in SUBSET W /\ owner \in Int
    BY <1>3, <2>1
  <2>3. PICK c \in Build(m, part) : t \in TicketsOf(c)
    BY <1>6, BuildServes DEF Serves
  <2> DEFINE d == [teams |-> c.teams, key |-> Key(c, owner)]
  <2>4. d \in cs
    BY DEF Owned
  <2>5. t.id \in IdsOf(d)
    <3>1. TicketsOf(d) = TicketsOf(c)
      BY DEF TicketsOf
    <3> HIDE DEF d
    <3>2. QED BY <2>3, <3>1 DEF IdsOf
  <2> HIDE DEF d
  <2>6. Keyed(cs) /\ \A x \in cs : Proposed(x, m, W)
    BY <2>2, OwnedShape
  <2>6a. \A x \in cs : Proposed(x, m, part)
    <3>1. Waiting(m, part) /\ part \in SUBSET part
      BY <2>2, PartWaits
    <3> HIDE DEF part, owner
    <3>2. QED BY <2>2, <3>1, OwnedShape
  <2>6b. part = Seen(W, t)
    BY DEF Seen
  <2>7. First(cs) \in out(bucket)
    BY <1>4, <2>1, <2>4
  <2> HIDE DEF cs, part, owner
  <2>8. First(cs) \in cs /\ Min(IdsOf(First(cs))) <= Min(IdsOf(d))
    BY <2>4, <2>6, FirstIsOldest
  <2>9. Min(IdsOf(First(cs))) \in Nat /\ Min(IdsOf(d)) \in Nat /\ Min(IdsOf(d)) <= t.id /\ t.id \in Nat
    <3>1. Proposed(First(cs), m, W) /\ Proposed(d, m, W)
      BY <2>4, <2>6, <2>8
    <3>2. /\ Min(IdsOf(First(cs))) \in IdsOf(First(cs)) /\ IdsOf(First(cs)) \in SUBSET Nat
          /\ Min(IdsOf(d)) \in IdsOf(d) /\ IdsOf(d) \in SUBSET Nat
          /\ \A y \in IdsOf(d) : Min(IdsOf(d)) <= y
      BY <3>1, IdsOfShaped DEF Proposed
    <3>3. QED BY <2>5, <3>2
  <2> DEFINE c1 == First(cs)
             x == Min(IdsOf(c1))
             y == Min(IdsOf(d))
             z == t.id
  <2>10. x <= z
    <3>1. x \in Nat /\ y \in Nat /\ z \in Nat /\ x <= y /\ y <= z
      BY <2>8, <2>9
    <3> HIDE DEF x, y, z
    <3>2. QED BY <3>1
  <2>11. c1 \in Generate(m, W)
    <3> HIDE DEF c1, out
    <3>1. QED BY <1>1, <2>1, <2>7 DEF c1
  <2>12. TicketsOf(c1) \in SUBSET Seen(W, t)
    BY <2>6a, <2>6b, <2>8 DEF Proposed
  <2>13. QED BY <2>10, <2>11, <2>12
<1>7. QED BY <1>5, <1>6 DEF Keyed, Proposed

(* The twins of a queue are twins both ways.                                   *)
LEMMA TwinsSymmetric == Symmetric(Twins(queue))
<1> DEFINE S == {v \in queue \X queue : v[1] # v[2] /\ v[1].doubles \cap v[2].doubles # {}}
<1>1. Twins(queue) = {<<w[1].id, w[2].id>> : w \in S}
  BY DEF Twins
<1>2. ASSUME NEW w \in S PROVE <<w[2], w[1]>> \in S
  OBVIOUS
<1> HIDE DEF S
<1>3. ASSUME NEW a, NEW b, <<a, b>> \in Twins(queue) PROVE <<b, a>> \in Twins(queue)
  <2>1. PICK w \in S : <<a, b>> = <<w[1].id, w[2].id>>
    BY <1>1, <1>3
  <2> DEFINE v == <<w[2], w[1]>>
  <2>2. v \in S /\ v[1] = w[2] /\ v[2] = w[1]
    BY <1>2
  <2>3. a = w[1].id /\ b = w[2].id
    BY <2>1
  <2> HIDE DEF v
  <2>4. <<b, a>> = <<v[1].id, v[2].id>>
    BY <2>2, <2>3
  <2>5. QED BY <1>1, <2>2, <2>4
<1>4. QED BY <1>3 DEF Symmetric

(* No party that this ticket's shard sees is unfit.                            *)
Undisturbed(t, W) == \A u \in Seen(W, t) : u.id \notin unfit

(* What the authority commits of it.                                           *)
LEMMA CommittedShape ==
  ASSUME MatchingTypeOK
  PROVE  LET W == World(mode, queue)
             committed == Committed(mode, queue, unfit)
         IN  /\ \A c \in Range(committed) : Proposed(c, mode, W) /\ IdsOf(c) \cap unfit = {}
             /\ AllApart(committed, Twins(queue))
             /\ \A t \in W : Matchable(mode, t, W) /\ Roomy(mode, W) /\ Undisturbed(t, W) =>
                  ServedBy(t, committed)
<1> DEFINE W == World(mode, queue)
           all == Generate(mode, W)
           cs == Admitted(all, unfit)
           committed == Committed(mode, queue, unfit)
<1>1. mode \in Mode /\ Waiting(mode, W)
  BY WorldType
<1>2. committed = TakeDisjoint(cs, Twins(queue))
  BY DEF Committed
<1> HIDE DEF W
<1>3. /\ Keyed(all) /\ \A c \in all : Proposed(c, mode, W)
      /\ \A t \in W : Matchable(mode, t, W) /\ Roomy(mode, W) =>
              \E c \in all : Min(IdsOf(c)) <= t.id /\ TicketsOf(c) \in SUBSET Seen(W, t)
  BY <1>1, GenerateShape
<1> HIDE DEF all
<1>3a. cs = {c \in all : IdsOf(c) \cap unfit = {}}
  BY DEF Admitted
<1>3b. Keyed(cs) /\ \A c \in cs : Proposed(c, mode, W) /\ IdsOf(c) \cap unfit = {}
  <2>1. cs \in SUBSET all
    BY <1>3a
  <2>2. IsFiniteSet(cs)
    BY <1>3, <2>1, FS_Subset DEF Keyed
  <2>3. QED BY <1>3, <1>3a, <2>1, <2>2 DEF Keyed
<1> HIDE DEF cs, committed
<1>4. /\ committed \in Seq(cs) /\ AllApart(committed, Twins(queue))
      /\ cs # {} => Len(committed) >= 1 /\ committed[1] = First(cs)
  BY <1>2, <1>3b, TakenInOrder, TwinsSymmetric
<1>5. Range(committed) \in SUBSET cs
  BY <1>4, SeqFinite
<1>6. ASSUME NEW t \in W, Matchable(mode, t, W), Roomy(mode, W), Undisturbed(t, W)
      PROVE  ServedBy(t, committed)
  <2>1. PICK d \in cs : Min(IdsOf(d)) <= t.id
    <3>1. PICK c \in all : Min(IdsOf(c)) <= t.id /\ TicketsOf(c) \in SUBSET Seen(W, t)
      BY <1>3, <1>6
    <3>2. IdsOf(c) \cap unfit = {}
      BY <1>6, <3>1 DEF IdsOf, Undisturbed
    <3>3. QED BY <1>3a, <3>1, <3>2
  <2>2. First(cs) \in cs /\ Min(IdsOf(First(cs))) <= Min(IdsOf(d))
    BY <1>1, <1>3b, FirstIsOldest
  <2>3. First(cs) \in Range(committed)
    <3>1. 1 \in DOMAIN committed /\ committed[1] = First(cs)
      BY <1>4, <2>1
    <3>2. QED BY <3>1 DEF Range
  <2>4. Proposed(First(cs), mode, W) /\ Proposed(d, mode, W)
    BY <1>3b, <2>1, <2>2
  <2>5. /\ Min(IdsOf(First(cs))) \in IdsOf(First(cs)) /\ IdsOf(First(cs)) \in SUBSET Nat
        /\ Min(IdsOf(d)) \in IdsOf(d) /\ IdsOf(d) \in SUBSET Nat
    BY <1>1, <2>4, IdsOfShaped DEF Proposed
  <2>6. t.id \in Nat
    BY <1>1 DEF Waiting, Ticket
  <2> DEFINE x == Min(IdsOf(First(cs)))
             y == Min(IdsOf(d))
             z == t.id
  <2>7. x \in Nat /\ y \in Nat /\ z \in Nat /\ x <= y /\ y <= z
    BY <2>1, <2>2, <2>5, <2>6
  <2>8. x <= z
    <3> HIDE DEF x, y, z
    <3> QED BY <2>7
  <2>9. QED BY <2>3, <2>5, <2>8 DEF ServedBy
<1>7. QED BY <1>3b, <1>4, <1>5, <1>6 DEF W, committed

-------------------------------------------------------------------------------
(* The theorems.                                                               *)

(* The type invariant is inductive.                                            *)
LEMMA MatchingStep ==
  ASSUME MatchingTypeOK, [Next]_vars
  PROVE  MatchingTypeOK'
<1>0. /\ mode \in Mode /\ MaxTicket[mode] \in Nat /\ MaxWait \in Nat /\ Pauses \subseteq Nat
      /\ nextTicket \in Nat \ {0} /\ nextTicket <= MaxTicket[mode] + 1
  BY MatchingAssumption DEF MatchingTypeOK, ValidMatching
<1>q. /\ \A t \in queue : /\ t = [id |-> t.id, ratings |-> t.ratings, wait |-> t.wait,
                                  doubles |-> t.doubles]
                          /\ t.doubles \in SUBSET Doubles[mode]
                          /\ t.id \in 1..(nextTicket - 1) /\ t.ratings \in Shapes[mode]
                          /\ t.wait \in 0..MaxWait
      /\ \A t, u \in queue : t.id = u.id => t = u
      /\ unfit \subseteq {t.id : t \in queue}
  BY DEF MatchingTypeOK
<1>1. ASSUME NEW ratings \in Shapes[mode], NEW doubles \in SUBSET Doubles[mode],
             Arrive(ratings, doubles)
      PROVE  MatchingTypeOK'
  <2> DEFINE new == [id |-> nextTicket, ratings |-> ratings, wait |-> 0, doubles |-> doubles]
  <2>1. /\ mode' = mode /\ queue' = queue \union {new} /\ nextTicket' = nextTicket + 1
        /\ nextTicket <= MaxTicket[mode]
    BY <1>1 DEF Arrive, Following
  <2>2. nextTicket' \in 1..(MaxTicket[mode] + 1) /\ nextTicket' - 1 = nextTicket
    BY <1>0, <2>1
  <2> DEFINE Entry == [id : 1..nextTicket, ratings : Shapes[mode], wait : 0..MaxWait,
                      doubles : SUBSET Doubles[mode]]
  <2>3. queue' \subseteq Entry
    <3>1. ASSUME NEW t \in queue
          PROVE  t \in Entry
      <4>1. t.id \in 1..nextTicket
        BY <1>0, <1>q
      <4>2. QED BY <1>q, <4>1
    <3>2. new \in Entry
      BY <1>0, <1>1
    <3>3. QED BY <2>1, <3>1, <3>2
  <2>4. \A t, u \in queue' : t.id = u.id => t = u
    <3>1. ASSUME NEW t \in queue PROVE t.id # new.id
      BY <1>0, <1>q
    <3> HIDE DEF new
    <3>2. QED BY <1>q, <2>1, <3>1
  <2>5. unfit' \subseteq {t.id : t \in queue'}
    <3>1. unfit' = unfit
      BY <1>1 DEF Arrive
    <3>2. QED BY <1>q, <2>1, <3>1
  <2>6. QED BY <1>0, <2>1, <2>2, <2>3, <2>4, <2>5 DEF MatchingTypeOK
<1>2. ASSUME NEW seconds \in Pauses, Pause(seconds) PROVE MatchingTypeOK'
  <2> DEFINE Entry == [id : 1..(nextTicket - 1), ratings : Shapes[mode], wait : 0..MaxWait,
                      doubles : SUBSET Doubles[mode]]
             Later(t) == [t EXCEPT !.wait = IF @ + seconds < MaxWait THEN @ + seconds ELSE MaxWait]
  <2>1. mode' = mode /\ nextTicket' = nextTicket /\ queue' = {Later(t) : t \in queue}
    BY <1>2 DEF Pause
  <2>2. ASSUME NEW t \in queue
        PROVE  /\ Later(t) \in Entry
               /\ Later(t).id = t.id
    <3>1. t \in Entry
      BY DEF MatchingTypeOK
    <3> DEFINE w == IF t.wait + seconds < MaxWait THEN t.wait + seconds ELSE MaxWait
    <3>2. w \in 0..MaxWait
      BY <1>0, <3>1
    <3>3. Later(t) = [t EXCEPT !.wait = w]
      OBVIOUS
    <3> HIDE DEF w, Later
    <3>4. QED BY <3>1, <3>2, <3>3
  <2> HIDE DEF Later
  <2>3. queue' \subseteq Entry
    BY <2>1, <2>2
  <2>4. \A t, u \in queue' : t.id = u.id => t = u
    <3> SUFFICES ASSUME NEW a \in queue, NEW b \in queue, Later(a).id = Later(b).id
                 PROVE  Later(a) = Later(b)
      BY <2>1
    <3>1. a = b
      BY <1>q, <2>2
    <3>2. QED BY <3>1
  <2>5. unfit' \subseteq {t.id : t \in queue'}
    <3>1. unfit' = unfit
      BY <1>2 DEF Pause
    <3>2. QED BY <1>q, <2>1, <2>2, <3>1
  <2>6. QED BY <1>0, <2>1, <2>3, <2>4, <2>5 DEF MatchingTypeOK
<1>2a. ASSUME NEW t \in queue, BecomeUnfit(t) \/ BecomeFit(t) PROVE MatchingTypeOK'
  <2>1. UNCHANGED <<mode, queue, nextTicket>> /\ unfit' \subseteq unfit \union {t.id}
    BY <1>2a DEF BecomeUnfit, BecomeFit
  <2>2. QED BY <1>q, <2>1 DEF MatchingTypeOK
<1>3. CASE Pass
  <2>1. /\ mode' = mode /\ nextTicket' = nextTicket /\ queue' \subseteq queue
        /\ unfit' \subseteq {t.id : t \in queue'}
    BY <1>3 DEF Pass
  <2>2. QED BY <2>1 DEF MatchingTypeOK
<1>4. CASE UNCHANGED vars
  BY <1>4 DEF vars, MatchingTypeOK
<1>5. QED BY <1>1, <1>2, <1>2a, <1>3, <1>4 DEF Next

(* For every mode, configuration and bound: the queue holds distinct tickets   *)
(* among those issued (enqueue, the clock and the passes of the authority keep *)
(* it so).                                                                     *)
THEOREM MatchingTypes == Spec => []MatchingTypeOK
<1>1. Init => MatchingTypeOK
  <2>1. ASSUME Init PROVE MatchingTypeOK
    <3>1. mode \in Mode /\ MaxTicket[mode] \in Nat
      BY <2>1, MatchingAssumption DEF Init, ValidMatching
    <3>2. QED BY <2>1, <3>1 DEF Init, MatchingTypeOK
  <2>2. QED BY <2>1
<1>2. MatchingTypeOK /\ [Next]_vars => MatchingTypeOK'
  BY MatchingStep
<1>3. QED BY <1>1, <1>2, PTL DEF Spec

(* Every match a pass commits is fair, for all queues, ratings, search widths, *)
(* team sizes, bonuses and budgets. Nothing is assumed of the shards but what  *)
(* dispatcher.rs computes.                                                     *)
THEOREM MatchesAreFair == Spec => []FairMatches
<1>1. MatchingTypeOK => FairMatches
  BY CommittedShape DEF FairMatches, Proposed
<1>2. QED BY <1>1, MatchingTypes, PTL

(* No ticket and no player is in two matches of one pass, and no unfit party   *)
(* in any, however the parts of the shards overlap and whichever parties list  *)
(* the same player.                                                            *)
THEOREM MatchesAreDisjoint == Spec => []DisjointMatches
<1>1. ASSUME MatchingTypeOK PROVE DisjointMatches
  <2> DEFINE committed == Committed(mode, queue, unfit)
  <2>1. /\ \A c \in Range(committed) : IdsOf(c) \cap unfit = {}
        /\ AllApart(committed, Twins(queue))
    BY <1>1, CommittedShape
  <2>2. \A i \in DOMAIN committed : committed[i] \in Range(committed)
    BY DEF Range
  <2> HIDE DEF committed
  <2>3. \A i, j \in DOMAIN committed : i # j =>
           \A x \in IdsOf(committed[i]), y \in IdsOf(committed[j]) :
             x # y /\ <<x, y>> \notin Twins(queue)
    BY <2>1 DEF AllApart, Separate
  <2>4. QED BY <2>1, <2>2, <2>3 DEF DisjointMatches, committed
<1>2. QED BY <1>1, MatchingTypes, PTL

(* As long as no shard runs out of budget, every ticket that could be in a     *)
(* match is in one when the pass ends, or an older one is, unless its own      *)
(* shard sees an unfit party: that shard sees the whole of the match, finds    *)
(* it in its first round, its first candidate is then not refused, and no key  *)
(* comes before that of an older ticket.                                       *)
THEOREM OldestIsServed == Spec => []OldestServed
<1>1. ASSUME MatchingTypeOK, BudgetSuffices PROVE OldestServed
  <2> DEFINE W == World(mode, queue)
             committed == Committed(mode, queue, unfit)
  <2>1. Roomy(mode, W)
    BY <1>1 DEF BudgetSuffices, Roomy
  <2>2. \A t \in W : Matchable(mode, t, W) /\ Roomy(mode, W) /\ Undisturbed(t, W) =>
                     ServedBy(t, committed)
    BY <1>1, CommittedShape
  <2> HIDE DEF W, committed
  <2>3. \A t \in AbleIn(W) : (\A u \in Seen(W, t) : u.id \notin unfit) => ServedBy(t, committed)
    BY <2>1, <2>2 DEF AbleIn, Undisturbed
  <2>4. QED BY <2>3 DEF OldestServed, W, committed
<1>2. MatchingTypeOK => OldestServed
  BY <1>1 DEF OldestServed
<1>3. QED BY <1>2, MatchingTypes, PTL

-------------------------------------------------------------------------------
(* How far a search reaches as a ticket waits.                                 *)

(* Multiplication by a natural is monotone.                                    *)
LEMMA TimesMonotone ==
  ASSUME NEW s \in Nat, NEW i \in Nat, NEW j \in Nat, i <= j
  PROVE  s * i \in Nat /\ s * j \in Nat /\ s * i <= s * j
<1> DEFINE k == j - i
<1>1. k \in Nat /\ j = i + k
  OBVIOUS
<1>2. s * j = s * i + s * k
  BY <1>1
<1>3. s * i \in Nat /\ s * k \in Nat
  BY <1>1
<1>4. QED BY <1>2, <1>3

(* Division by a positive natural is monotone.                                 *)
LEMMA QuotientMonotone ==
  ASSUME NEW a \in Nat, NEW b \in Nat, NEW k \in Nat \ {0}, a <= b
  PROVE  a \div k \in Nat /\ b \div k \in Nat /\ a \div k <= b \div k
BY Z3T(30)

(* A ticket's search only widens while it waits, from the initial width and    *)
(* never past the maximum: an opponent acceptable to it stays acceptable.      *)
THEOREM SearchOnlyWidens ==
  ASSUME NEW w \in Nat, NEW v \in Nat, w <= v
  PROVE  /\ SearchDelta(w) \in InitialDelta..MaximumDelta
         /\ SearchDelta(w) <= SearchDelta(v)
<1> DEFINE m == w \div StepSeconds
           n == v \div StepSeconds
<1>1. m \in Nat /\ n \in Nat /\ m <= n
  BY RangeAssumption, QuotientMonotone DEF ValidRange
<1>2. DeltaStep * m \in Nat /\ DeltaStep * n \in Nat /\ DeltaStep * m <= DeltaStep * n
  BY <1>1, RangeAssumption, TimesMonotone DEF ValidRange
<1>3. QED BY <1>2, RangeAssumption DEF SearchDelta, ValidRange
===============================================================================
