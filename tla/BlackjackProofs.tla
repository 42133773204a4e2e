-------------------------- MODULE BlackjackProofs --------------------------
(***************************************************************************)
(* What holds in every game of blackjack, for every shoe, any amount of    *)
(* money and any number of rounds.  The value of a hand is computed by two *)
(* loops; what they compute is shown by induction over their turns, taken  *)
(* as the absence of a least turn that goes wrong.                         *)
(***************************************************************************)
EXTENDS Blackjack, NaturalsInduction, WellFoundedInduction, TLAPS

----------------------------------------------------------------------------
(* A set of turns that holds turn 0, and with each turn the next, holds    *)
(* them all.                                                               *)
LEMMA EveryTurn ==
    ASSUME NEW n \in Nat, NEW S, 0 \in S,
           \A k \in 0 .. (n - 1) : k \in S => (k + 1) \in S
    PROVE  \A k \in 0 .. n : k \in S
<1> DEFINE T == {k \in 0 .. n : k \notin S}
<1> SUFFICES ASSUME T # {} PROVE FALSE
  OBVIOUS
<1>1. T \subseteq Nat
  OBVIOUS
<1>2. PICK x \in T : \A y \in T : ~ (<<y, x>> \in OpToRel(<, Nat))
  BY <1>1, NatLessThanWellFounded, WFMin
<1>3. \A y \in T : ~ (y < x)
  BY <1>1, <1>2, Zenon DEF OpToRel
<1>4. x - 1 \in 0 .. (n - 1) /\ x - 1 \in S /\ x = (x - 1) + 1
  BY <1>3
<1> QED BY <1>4

(* The least member of a set of natural numbers. *)
LEMMA LeastOfNats ==
    ASSUME NEW T, T \subseteq Nat, T # {}
    PROVE  Min(T) \in T /\ \A y \in T : Min(T) <= y
<1>1. PICK x \in T : \A y \in T : ~ (<<y, x>> \in OpToRel(<, Nat))
  BY NatLessThanWellFounded, WFMin
<1>2. \A y \in T : ~ (y < x)
  BY <1>1, Zenon DEF OpToRel
<1>3. \A y \in T : x =< y
  BY <1>2
<1> QED BY <1>3 DEF Min

(* The greatest member of a set of integers. *)
LEMMA GreatestIs ==
    ASSUME NEW T, T \subseteq Int, NEW x \in T, \A y \in T : y <= x
    PROVE  Max(T) = x
<1>1. \A y \in T : x >= y
  OBVIOUS
<1>2. Max(T) \in T /\ \A y \in T : Max(T) >= y
  BY <1>1 DEF Max
<1>3. PICK m : m = Max(T)
  OBVIOUS
<1>4. m \in Int /\ x \in Int /\ m >= x /\ m <= x
  BY <1>2, <1>3
<1> QED BY <1>3, <1>4

(* The running total of a loop of n turns. *)
Totals(t, f, n) ==
    t \in [0 .. n -> Int] /\ t[0] = 0 /\ \A k \in 1 .. n : t[k] = t[k - 1] + f[k - 1]

(* The loop has a running total, and SumOver is where it ends. *)
LEMMA SumIsTotal ==
    ASSUME NEW n \in Nat, NEW f, \A k \in 0 .. (n - 1) : f[k] \in Int
    PROVE  \E t : Totals(t, f, n) /\ SumOver(f, n) = t[n]
<1> DEFINE S == {m \in 0 .. n : \E t : Totals(t, f, m)}
           Turn(t) == [k \in 0 .. n |-> IF k = 0 THEN 0 ELSE t[k - 1] + f[k - 1]]
<1>1. 0 \in S
  <2>1. Totals([k \in 0 .. 0 |-> 0], f, 0)
    BY DEF Totals
  <2> QED BY <2>1
<1>2. ASSUME NEW m \in 0 .. (n - 1), m \in S  PROVE m + 1 \in S
  <2>1. PICK t : Totals(t, f, m)
    BY <1>2
  <2> DEFINE u == [k \in 0 .. (m + 1) |-> IF k <= m THEN t[k] ELSE t[m] + f[m]]
  <2>2. Totals(u, f, m + 1)
    BY <2>1 DEF Totals
  <2> QED BY <2>2
<1>3. n \in S
  <2> HIDE DEF S
  <2> QED BY <1>1, <1>2, EveryTurn
<1>4. PICK t : Totals(t, f, n)
  BY <1>3
<1>5. t = Turn(t)
  BY <1>4 DEF Totals
<1> DEFINE u == CHOOSE u : u = Turn(u)
<1>6. u = Turn(u)
  BY <1>5
<1>7. SumOver(f, n) = u[n]
  BY Zenon DEF SumOver
<1>8. Totals(u, f, n)
  <2> HIDE DEF u
  <2>1. \A k \in 0 .. n : u[k] = IF k = 0 THEN 0 ELSE u[k - 1] + f[k - 1]
    BY <1>6
  <2> DEFINE I == {k \in 0 .. n : u[k] \in Int}
  <2>2. 0 \in I
    BY <2>1
  <2>3. ASSUME NEW k \in 0 .. (n - 1), k \in I  PROVE k + 1 \in I
    BY <2>1, <2>3, k + 1 \in 1 .. n, (k + 1) - 1 = k
  <2>4. \A k \in 0 .. n : k \in I
    <3> HIDE DEF I
    <3> QED BY <2>2, <2>3, EveryTurn
  <2> QED BY <1>6, <2>1, <2>4 DEF Totals
<1> QED BY <1>7, <1>8

(* The values an ace less each time, while over 21. *)
Demotions(t, points, n) ==
    /\ t \in [0 .. n -> Int] /\ t[0] = points
    /\ \A k \in 1 .. n : t[k] = t[k - 1] - (IF t[k - 1] > 21 THEN 10 ELSE 0)

LEMMA DemotedIsLast ==
    ASSUME NEW n \in Nat, NEW points \in Int
    PROVE  \E t : Demotions(t, points, n) /\ Demoted(points, n) = t[n]
<1> DEFINE S == {m \in 0 .. n : \E t : Demotions(t, points, m)}
           Turn(t) == [k \in 0 .. n |->
                          IF k = 0 THEN points
                          ELSE t[k - 1] - (IF t[k - 1] > 21 THEN 10 ELSE 0)]
<1>1. 0 \in S
  <2>1. Demotions([k \in 0 .. 0 |-> points], points, 0)
    BY DEF Demotions
  <2> QED BY <2>1
<1>2. ASSUME NEW m \in 0 .. (n - 1), m \in S  PROVE m + 1 \in S
  <2>1. PICK t : Demotions(t, points, m)
    BY <1>2
  <2> DEFINE next == t[m] - (IF t[m] > 21 THEN 10 ELSE 0)
             u == [k \in 0 .. (m + 1) |-> IF k <= m THEN t[k] ELSE next]
  <2>2. Demotions(u, points, m + 1)
    BY <2>1 DEF Demotions
  <2> QED BY <2>2
<1>3. n \in S
  <2> HIDE DEF S
  <2> QED BY <1>1, <1>2, EveryTurn
<1>4. PICK t : Demotions(t, points, n)
  BY <1>3
<1>5. t = Turn(t)
  BY <1>4 DEF Demotions
<1> DEFINE u == CHOOSE u : u = Turn(u)
<1>6. u = Turn(u)
  BY <1>5
<1>7. Demoted(points, n) = u[n]
  BY Zenon DEF Demoted
<1>8. Demotions(u, points, n)
  <2> HIDE DEF u
  <2>1. \A k \in 0 .. n :
            u[k] = IF k = 0 THEN points ELSE u[k - 1] - (IF u[k - 1] > 21 THEN 10 ELSE 0)
    BY <1>6
  <2> DEFINE I == {k \in 0 .. n : u[k] \in Int}
  <2>2. 0 \in I
    BY <2>1
  <2>3. ASSUME NEW k \in 0 .. (n - 1), k \in I  PROVE k + 1 \in I
    BY <2>1, <2>3, k + 1 \in 1 .. n, (k + 1) - 1 = k
  <2>4. \A k \in 0 .. n : k \in I
    <3> HIDE DEF I
    <3> QED BY <2>2, <2>3, EveryTurn
  <2> QED BY <1>6, <2>1, <2>4 DEF Demotions
<1> QED BY <1>7, <1>8

(* The loop over the aces stops as soon as the value is not above 21: it   *)
(* takes j aces down to 1, no more than are needed, and all of them if the *)
(* value stays above 21.                                                   *)
LEMMA DemotedFacts ==
    ASSUME NEW aces \in Nat, NEW points \in Int
    PROVE  \E j \in 0 .. aces : /\ Demoted(points, aces) = points - 10 * j
                                /\ j > 0 => Demoted(points, aces) + 10 > 21
                                /\ Demoted(points, aces) > 21 => j = aces
<1>1. PICK t : Demotions(t, points, aces) /\ Demoted(points, aces) = t[aces]
  BY DemotedIsLast
<1> DEFINE Good(k, j) == /\ t[k] = points - 10 * j
                         /\ j > 0 => t[k] + 10 > 21
                         /\ t[k] > 21 => j = k
           S == {k \in 0 .. aces : \E j \in 0 .. k : Good(k, j)}
<1>2. 0 \in S
  <2>1. Good(0, 0)
    BY <1>1 DEF Demotions
  <2> QED BY <2>1
<1>3. ASSUME NEW k \in 0 .. (aces - 1), k \in S  PROVE k + 1 \in S
  <2>1. PICK j \in 0 .. k : Good(k, j)
    BY <1>3
  <2>2. t[k] \in Int /\ t[k + 1] = t[k] - (IF t[k] > 21 THEN 10 ELSE 0)
    BY <1>1, k + 1 \in 1 .. aces, (k + 1) - 1 = k DEF Demotions
  <2>3. CASE t[k] > 21
    <3>1. Good(k + 1, j + 1)
      BY <2>1, <2>2, <2>3
    <3> QED BY <3>1, j + 1 \in 0 .. (k + 1), k + 1 \in 0 .. aces
  <2>4. CASE ~ (t[k] > 21)
    <3>1. Good(k + 1, j)
      BY <2>1, <2>2, <2>4
    <3> QED BY <3>1, j \in 0 .. (k + 1), k + 1 \in 0 .. aces
  <2> QED BY <2>3, <2>4
<1>4. aces \in S
  <2> HIDE DEF S
  <2> QED BY <1>2, <1>3, EveryTurn
<1> QED BY <1>1, <1>4

(* What a card counts. *)
LEMMA CardValueFacts ==
    ASSUME NEW c \in Rank
    PROVE  c # Empty /\ CardValue(c) \in 1 .. 11 /\ (c = 1 => CardValue(c) = 11)
<1>1. c \in 1 .. 13
  BY BlackjackAssumption
<1>2. Min({c, 10}) \in {c, 10} /\ \A y \in {c, 10} : Min({c, 10}) <= y
  BY <1>1, LeastOfNats, {c, 10} \subseteq Nat, {c, 10} # {}
<1> QED BY <1>1, <1>2 DEF CardValue, Empty

(* A slot of a hand. *)
Card == Rank \cup {Empty}

(* The slots before the first empty one hold cards. *)
LEMMA HeldFacts ==
    ASSUME NEW cards \in [Slots -> Card]
    PROVE  /\ Held(cards) \in 0 .. HandSize
           /\ \A s \in 0 .. (Held(cards) - 1) : s \in Slots /\ cards[s] \in Rank
           /\ \A n \in 0 .. HandSize :
                 (\A s \in 0 .. (n - 1) : cards[s] # Empty) => n <= Held(cards)
<1> DEFINE T == {s \in Slots : cards[s] = Empty} \cup {HandSize}
<1>1. T \subseteq 0 .. HandSize /\ T \subseteq Nat /\ T # {}
  BY BlackjackAssumption DEF Slots
<1>2. Held(cards) \in T /\ \A y \in T : Held(cards) <= y
  BY <1>1, LeastOfNats DEF Held
<1> QED BY <1>1, <1>2, BlackjackAssumption DEF Slots, Card

(* Points and Aces are natural numbers, and with every ace as 1 the cards  *)
(* are worth at least 1 each.                                              *)
LEMMA PointsFacts ==
    ASSUME NEW cards \in [Slots -> Card]
    PROVE  /\ Points(cards) \in Nat /\ Aces(cards) \in Nat
           /\ Points(cards) - 10 * Aces(cards) >= Held(cards)
<1> DEFINE f == [s \in Slots |-> CardValue(cards[s])]
           g == [s \in Slots |-> IF cards[s] = 1 THEN 1 ELSE 0]
           n == Held(cards)
<1>1. n \in Nat
  BY HeldFacts
<1>2. ASSUME NEW k \in 0 .. (n - 1)
      PROVE  f[k] \in 1 .. 11 /\ g[k] \in 0 .. 1 /\ f[k] - 10 * g[k] >= 1
  <2>1. k \in Slots /\ cards[k] \in Rank
    BY HeldFacts
  <2>2. CardValue(cards[k]) \in 1 .. 11 /\ (cards[k] = 1 => CardValue(cards[k]) = 11)
    BY <2>1, CardValueFacts
  <2> QED BY <2>1, <2>2
<1> HIDE DEF f, g, n
<1>3. PICK t : Totals(t, f, n) /\ SumOver(f, n) = t[n]
  BY <1>1, <1>2, SumIsTotal
<1>4. PICK u : Totals(u, g, n) /\ SumOver(g, n) = u[n]
  BY <1>1, <1>2, SumIsTotal
<1> DEFINE S == {k \in 0 .. n : t[k] \in Nat /\ u[k] \in Nat /\ t[k] - 10 * u[k] >= k}
<1>5. 0 \in S
  BY <1>1, <1>3, <1>4 DEF Totals
<1>6. ASSUME NEW k \in 0 .. (n - 1), k \in S  PROVE k + 1 \in S
  <2>1. t[k + 1] = t[k] + f[k] /\ u[k + 1] = u[k] + g[k]
    BY <1>1, <1>3, <1>4, k + 1 \in 1 .. n, (k + 1) - 1 = k DEF Totals
  <2> QED BY <1>1, <1>2, <1>6, <2>1
<1>7. n \in S
  <2> HIDE DEF S
  <2> QED BY <1>1, <1>5, <1>6, EveryTurn
<1> QED BY <1>3, <1>4, <1>7 DEF Points, Aces, f, g, n

(* The value the loops compute is the best way to count the hand's aces,   *)
(* and no hand of n cards is worth less than n.                            *)
LEMMA HandValueBest ==
    ASSUME NEW cards \in [Slots -> Card]
    PROVE  /\ hand_value(cards) \in Int
           /\ hand_value(cards) = BestValue(cards)
           /\ hand_value(cards) >= Held(cards)
<1> DEFINE p == Points(cards)  a == Aces(cards)  v == hand_value(cards)
           least == p - 10 * a
           totals == {least + 10 * k : k \in 0 .. a}
           good == {x \in totals : x <= 21}
<1>1. p \in Nat /\ a \in Nat /\ p - 10 * a >= Held(cards) /\ Held(cards) \in Nat
  BY PointsFacts, HeldFacts
<1>2. PICK j \in 0 .. a : /\ v = p - 10 * j
                          /\ j > 0 => v + 10 > 21
                          /\ v > 21 => j = a
  <2>1. v = Demoted(p, a)
    BY DEF hand_value
  <2> HIDE DEF p, a, v
  <2>2. p \in Int
    BY <1>1
  <2> QED BY <1>1, <2>1, <2>2, DemotedFacts, Zenon
<1>3. v \in Int /\ v >= Held(cards)
  <2> HIDE DEF p, a, v
  <2> QED BY <1>1, <1>2
<1>4. BestValue(cards) = IF good = {} THEN least ELSE Max(good)
  BY DEF BestValue
<1>5. CASE v > 21
  <2>1. v = least
    BY <1>1, <1>2, <1>5
  <2>2. \A x \in totals : x >= least
    BY <1>1
  <2>3. good = {}
    BY <1>1, <1>5, <2>1, <2>2
  <2> QED BY <1>3, <1>4, <2>1, <2>3
<1>6. CASE v <= 21
  <2>1. a - j \in 0 .. a /\ v = least + 10 * (a - j)
    BY <1>1, <1>2
  <2>2. v \in good
    BY <2>1, <1>6
  <2>3. \A x \in good : x <= v
    BY <1>1, <1>2, <1>6
  <2>4. Max(good) = v
    <3>1. good \subseteq Int
      BY <1>1
    <3> HIDE DEF good, v
    <3> QED BY <2>2, <2>3, <3>1, GreatestIs
  <2> QED BY <1>3, <1>4, <2>2, <2>4
<1> QED BY <1>3, <1>5, <1>6

----------------------------------------------------------------------------
(* Types, and the turn's place among at most four hands. *)
BlackjackTypeOK ==
    /\ money \in Nat /\ bet_size \in Nat /\ has_split \in BOOLEAN
    /\ hand_index \in 0 .. 3 /\ turn \in 0 .. hand_index
    /\ hand \in [Hands -> [Slots -> Card]] /\ value \in [Hands -> Int]
    /\ result \in [Hands -> {"none", "stood", "bust"}] /\ next_slot \in [Hands -> Nat]
    /\ house_hand \in [Slots -> Card] /\ house_next_slot \in Nat
    /\ phase \in {"bet", "player", "house", "settle", "over"}

(* The next_slot of a hand is not past its cards. *)
HasCards(cards, n) == n <= HandSize /\ \A s \in 0 .. (n - 1) : cards[s] # Empty

SlotsFilled ==
    HasCards(house_hand, house_next_slot) /\ \A h \in Hands : HasCards(hand[h], next_slot[h])

(* The hands not played yet can take a card. *)
MayHit ==
    phase = "player" =>
        \A h \in Hands : h >= turn => next_slot[h] <= 2 \/ hand_value(hand[h]) <= 21

(* One hand until the player splits, and no cards before the deal. *)
OneHand ==
    /\ ~ has_split => hand_index = 0
    /\ phase = "bet" => ~ has_split /\ house_next_slot = 0 /\ \A h \in Hands : next_slot[h] = 0

(* The hands that have been played. *)
Over(h) == \/ phase = "player" /\ h < turn
           \/ phase \in {"house", "settle"} /\ h <= hand_index

PlayedHands ==
    \A h \in Hands : Over(h) => result[h] # "none" /\ value[h] = hand_value(hand[h])

BlackjackInv ==
    BlackjackTypeOK /\ SlotsFilled /\ MayHit /\ OneHand /\ PlayedHands /\ StakesPaid

(* The indices the proofs use. *)
LEMMA Indices ==
    /\ HandSize \in Nat /\ 0 .. 21 \subseteq Slots /\ Slots = 0 .. (HandSize - 1)
    /\ MaxHands \in Nat /\ 0 .. 3 \subseteq Hands /\ Hands = 0 .. (MaxHands - 1)
BY BlackjackAssumption DEF Slots, Hands

(* A card goes to the slot after the last. *)
LEMMA CardAdded ==
    ASSUME NEW cards \in [Slots -> Card], NEW n \in Slots, HasCards(cards, n), NEW c \in Rank
    PROVE  /\ [cards EXCEPT ![n] = c] \in [Slots -> Card]
           /\ HasCards([cards EXCEPT ![n] = c], n + 1)
<1>1. c \in Card /\ c # Empty
  BY CardValueFacts DEF Card
<1>2. n \in 0 .. (HandSize - 1) /\ HandSize \in Nat
  BY Indices
<1> QED BY <1>1, <1>2, Indices DEF HasCards

(* A hand that is not over 21 has at most 21 cards. *)
LEMMA RoomForCard ==
    ASSUME NEW cards \in [Slots -> Card], NEW n \in Nat, HasCards(cards, n),
           n <= 2 \/ hand_value(cards) <= 21
    PROVE  n \in Slots
<1>1. n \in 0 .. HandSize
  BY Indices DEF HasCards
<1>2. n <= Held(cards) /\ Held(cards) \in Int
  BY <1>1, HeldFacts DEF HasCards
<1>3. hand_value(cards) \in Int /\ hand_value(cards) >= Held(cards)
  BY HandValueBest
<1>4. n <= 21
  BY <1>2, <1>3
<1> QED BY <1>4, Indices

(* One stake for each hand. *)
LEMMA OneStake ==
    ASSUME NEW b \in Nat, NEW i, i = 0
    PROVE  b * (i + 1) = b
<1>1. b * 1 = b
  OBVIOUS
<1>2. i + 1 = 1
  OBVIOUS
<1> QED BY <1>1, <1>2

LEMMA OneStakeMore ==
    ASSUME NEW b \in Nat, NEW i \in Nat
    PROVE  b * ((i + 1) + 1) = b * (i + 1) + b
OBVIOUS

LEMMA InitBlackjack == Init => BlackjackInv
<1> SUFFICES ASSUME Init PROVE BlackjackInv
  OBVIOUS
<1>1. NoCards \in [Slots -> Card]
  BY DEF NoCards, Card
<1>2. BlackjackTypeOK
  <2>1. money \in Nat /\ bet_size \in Nat /\ hand_index \in 0 .. 3 /\ turn \in 0 .. hand_index
        /\ house_next_slot \in Nat
    BY BlackjackAssumption DEF Init
  <2>2. /\ hand \in [Hands -> [Slots -> Card]] /\ value \in [Hands -> Int]
        /\ next_slot \in [Hands -> Nat] /\ house_hand \in [Slots -> Card]
    BY <1>1 DEF Init
  <2>3. result \in [Hands -> {"none", "stood", "bust"}]
    BY DEF Init
  <2>4. phase \in {"bet", "player", "house", "settle", "over"} /\ has_split \in BOOLEAN
    BY DEF Init
  <2> QED BY <2>1, <2>2, <2>3, <2>4 DEF BlackjackTypeOK
<1>3. SlotsFilled
  BY Indices DEF Init, SlotsFilled, HasCards
<1> QED BY <1>2, <1>3, Indices
        DEF Init, BlackjackInv, MayHit, OneHand, PlayedHands, Over, StakesPaid

(* What taking a card does to the hand whose turn it is, and to no other. *)
LEMMA TakeCardFacts ==
    ASSUME BlackjackInv, phase = "player", NEW c \in Rank, TakeCard(c)
    PROVE  /\ hand' \in [Hands -> [Slots -> Card]] /\ next_slot' \in [Hands -> Nat]
           /\ value' \in [Hands -> Int]
           /\ \A h \in Hands : HasCards(hand'[h], next_slot'[h])
           /\ value'[turn] = hand_value(hand'[turn])
           /\ \A h \in Hands : h # turn =>
                 hand'[h] = hand[h] /\ next_slot'[h] = next_slot[h] /\ value'[h] = value[h]
<1> DEFINE n == next_slot[turn]
           cards == [hand[turn] EXCEPT ![n] = c]
<1>1. turn \in Hands /\ hand[turn] \in [Slots -> Card] /\ n \in Nat
  BY Indices DEF BlackjackInv, BlackjackTypeOK
<1>2. HasCards(hand[turn], n) /\ n \in Slots
  <2>1. HasCards(hand[turn], n)
    BY <1>1 DEF BlackjackInv, SlotsFilled
  <2>2. turn \in Int /\ turn >= turn
    BY DEF BlackjackInv, BlackjackTypeOK
  <2>3. n <= 2 \/ hand_value(hand[turn]) <= 21
    BY <1>1, <2>2 DEF BlackjackInv, MayHit
  <2> QED BY <1>1, <2>1, <2>3, RoomForCard
<1>3. cards \in [Slots -> Card] /\ HasCards(cards, n + 1)
  BY <1>1, <1>2, CardAdded
<1>4. hand' = [hand EXCEPT ![turn] = cards] /\ next_slot' = [next_slot EXCEPT ![turn] = n + 1]
      /\ value' = [value EXCEPT ![turn] = hand_value(hand'[turn])]
  BY DEF TakeCard
<1>5. hand \in [Hands -> [Slots -> Card]] /\ next_slot \in [Hands -> Nat]
      /\ value \in [Hands -> Int] /\ \A h \in Hands : HasCards(hand[h], next_slot[h])
  BY DEF BlackjackInv, BlackjackTypeOK, SlotsFilled
<1> HIDE DEF cards, n
<1>6. hand'[turn] = cards /\ hand_value(hand'[turn]) \in Int
  BY <1>1, <1>3, <1>4, <1>5, HandValueBest
<1>7. hand' \in [Hands -> [Slots -> Card]]
  BY <1>1, <1>3, <1>4, <1>5
<1>8. next_slot' \in [Hands -> Nat] /\ next_slot'[turn] = n + 1
  BY <1>1, <1>4, <1>5
<1>9. value' \in [Hands -> Int] /\ value'[turn] = hand_value(hand'[turn])
  BY <1>1, <1>4, <1>5, <1>6
<1>10. \A h \in Hands : h # turn =>
          hand'[h] = hand[h] /\ next_slot'[h] = next_slot[h] /\ value'[h] = value[h]
  BY <1>4, <1>5
<1>11. \A h \in Hands : HasCards(hand'[h], next_slot'[h])
  BY <1>3, <1>5, <1>6, <1>8, <1>10
<1> QED BY <1>7, <1>8, <1>9, <1>10, <1>11

(* A hand that is over has its result, and the turn passes to the next     *)
(* hand or, after the last, to the house or the settlement.                *)
LEMMA HandOverFacts ==
    ASSUME BlackjackInv, phase = "player", NEW outcome \in {"stood", "bust"},
           HandOver(outcome)
    PROVE  /\ result' \in [Hands -> {"none", "stood", "bust"}] /\ result'[turn] # "none"
           /\ \A h \in Hands : h # turn => result'[h] = result[h]
           /\ \/ phase' = "player" /\ turn' = turn + 1 /\ turn' \in 0 .. hand_index
              \/ phase' \in {"house", "settle"} /\ turn' = turn /\ turn = hand_index
<1>1. turn \in Hands /\ turn \in 0 .. hand_index /\ hand_index \in 0 .. 3
      /\ result \in [Hands -> {"none", "stood", "bust"}]
  BY Indices DEF BlackjackInv, BlackjackTypeOK
<1>2. result' = [result EXCEPT ![turn] = outcome]
  BY DEF HandOver
<1>3. \/ phase' \in {"house", "settle"} /\ turn' = turn /\ turn = hand_index
      \/ phase' = "player" /\ turn' = turn + 1 /\ turn # hand_index
  BY DEF HandOver
<1> QED BY <1>1, <1>2, <1>3

(* After a hand is over, the hands over are that one and those before it. *)
LEMMA OverNext ==
    ASSUME BlackjackInv, phase = "player", NEW outcome \in {"stood", "bust"},
           HandOver(outcome), UNCHANGED hand_index,
           NEW h \in Hands, Over(h)'
    PROVE  h = turn \/ Over(h)
<1>1. turn \in Int /\ hand_index \in Int /\ h \in Int
  BY Indices DEF BlackjackInv, BlackjackTypeOK
<1> QED BY <1>1, HandOverFacts DEF Over

(* Dealing two cards each. *)
LEMMA DealInv == BlackjackInv /\ Deal => BlackjackInv'
<1> SUFFICES ASSUME BlackjackInv, Deal PROVE BlackjackInv'
  OBVIOUS
<1>0. BlackjackTypeOK /\ SlotsFilled /\ OneHand
  BY DEF BlackjackInv
<1>1. hand_index = 0 /\ ~ has_split /\ house_next_slot = 0 /\ \A h \in Hands : next_slot[h] = 0
  BY <1>0 DEF OneHand, Deal
<1>2. PICK bet \in 1 .. money : bet_size' = bet /\ money' = money - bet
  BY DEF Deal
<1>3. PICK p1, h1, p2, h2 \in Rank :
        /\ hand' = [hand EXCEPT ![0][0] = p1, ![0][1] = p2]
        /\ house_hand' = [house_hand EXCEPT ![0] = h1, ![1] = h2]
  BY DEF Deal
<1>4. {p1, h1, p2, h2} \subseteq Card /\ Empty \notin {p1, h1, p2, h2}
  BY CardValueFacts DEF Card
<1>5. /\ next_slot' = [next_slot EXCEPT ![0] = 2] /\ house_next_slot' = 2
      /\ turn' = 0 /\ phase' = "player" /\ purse' = money
      /\ UNCHANGED <<has_split, hand_index, value, result>>
  BY DEF Deal
<1>6. 0 \in Hands /\ 0 \in Slots /\ 1 \in Slots
  BY Indices
<1>7. hand' \in [Hands -> [Slots -> Card]] /\ house_hand' \in [Slots -> Card]
      /\ hand'[0][0] = p1 /\ hand'[0][1] = p2 /\ house_hand'[0] = h1 /\ house_hand'[1] = h2
  <2> DEFINE first == [hand[0] EXCEPT ![0] = p1]
             cards == [first EXCEPT ![1] = p2]
             housefirst == [house_hand EXCEPT ![0] = h1]
  <2>1. hand \in [Hands -> [Slots -> Card]] /\ house_hand \in [Slots -> Card]
    BY <1>0 DEF BlackjackTypeOK
  <2>2. first \in [Slots -> Card] /\ first[0] = p1
    BY <2>1, <1>4, <1>6
  <2>3. cards \in [Slots -> Card] /\ cards[0] = p1 /\ cards[1] = p2
    <3> HIDE DEF first
    <3> QED BY <2>2, <1>4, <1>6
  <2>4. hand' = [hand EXCEPT ![0] = cards]
    BY <1>3, <1>6, <2>1
  <2>5. housefirst \in [Slots -> Card] /\ housefirst[0] = h1
    BY <2>1, <1>4, <1>6
  <2>6. house_hand' = [housefirst EXCEPT ![1] = h2]
    BY <1>3
  <2>7. house_hand' \in [Slots -> Card] /\ house_hand'[0] = h1 /\ house_hand'[1] = h2
    <3> HIDE DEF housefirst
    <3> QED BY <2>5, <2>6, <1>4, <1>6
  <2> HIDE DEF cards
  <2> QED BY <2>1, <2>3, <2>4, <2>7, <1>6
<1>8. next_slot' \in [Hands -> Nat] /\ next_slot'[0] = 2 /\ \A h \in Hands : h # 0 => next_slot'[h] = 0
  BY <1>0, <1>1, <1>5, <1>6 DEF BlackjackTypeOK
<1>9. money \in Nat /\ money' \in Nat /\ bet_size' \in Nat /\ money' + bet_size' = money
  BY <1>0, <1>2 DEF BlackjackTypeOK
<1>10. BlackjackTypeOK'
  <2>1. hand_index' \in 0 .. 3 /\ turn' \in 0 .. hand_index' /\ house_next_slot' \in Nat
    BY <1>1, <1>5
  <2>2. phase' \in {"bet", "player", "house", "settle", "over"}
    BY <1>5
  <2>3. has_split' \in BOOLEAN /\ value' \in [Hands -> Int]
        /\ result' \in [Hands -> {"none", "stood", "bust"}]
    BY <1>0, <1>5 DEF BlackjackTypeOK
  <2> QED BY <1>7, <1>8, <1>9, <2>1, <2>2, <2>3 DEF BlackjackTypeOK
<1>11. SlotsFilled'
  <2>1. HandSize \in Nat /\ HandSize >= 22
    BY BlackjackAssumption
  <2>2. 0 .. (2 - 1) = {0, 1}
    OBVIOUS
  <2>3. HasCards(house_hand', 2)
    BY <1>4, <1>7, <2>1, <2>2 DEF HasCards
  <2>4. HasCards(hand'[0], 2)
    BY <1>4, <1>7, <2>1, <2>2 DEF HasCards
  <2>5. ASSUME NEW h \in Hands, h # 0  PROVE HasCards(hand'[h], next_slot'[h])
    BY <1>8, <2>1, <2>5 DEF HasCards
  <2> QED BY <1>5, <1>8, <2>3, <2>4, <2>5 DEF SlotsFilled
<1>12. MayHit'
  BY <1>8 DEF MayHit
<1>13. OneHand'
  BY <1>1, <1>5 DEF OneHand
<1>14. PlayedHands'
  BY <1>5, Indices DEF PlayedHands, Over
<1>15. StakesPaid'
  <2>1. hand_index' = 0 /\ purse' = money
    BY <1>1, <1>5
  <2>2. bet_size' * (hand_index' + 1) = bet_size'
    BY <1>9, <2>1, OneStake
  <2> QED BY <1>9, <2>1, <2>2 DEF StakesPaid
<1> QED BY <1>10, <1>11, <1>12, <1>13, <1>14, <1>15 DEF BlackjackInv

(* A hit, after which the hand is over or may take another card. *)
LEMMA HitInv == BlackjackInv /\ Hit => BlackjackInv'
<1> SUFFICES ASSUME BlackjackInv, Hit PROVE BlackjackInv'
  OBVIOUS
<1>0. phase = "player"
  BY DEF Hit
<1>1. PICK c \in Rank : TakeCard(c)
  BY DEF Hit
<1>2. /\ hand' \in [Hands -> [Slots -> Card]] /\ next_slot' \in [Hands -> Nat]
      /\ value' \in [Hands -> Int]
      /\ \A h \in Hands : HasCards(hand'[h], next_slot'[h])
      /\ value'[turn] = hand_value(hand'[turn])
      /\ \A h \in Hands : h # turn =>
            hand'[h] = hand[h] /\ next_slot'[h] = next_slot[h] /\ value'[h] = value[h]
  BY <1>0, <1>1, TakeCardFacts
<1>3. UNCHANGED <<money, bet_size, has_split, hand_index, house_hand, house_next_slot, purse>>
  BY DEF Hit, houseVars
<1>4. turn \in Hands /\ value'[turn] \in Int
  BY <1>2, Indices DEF BlackjackInv, BlackjackTypeOK
<1>5. \/ \E outcome \in {"stood", "bust"} : HandOver(outcome)
      \/ value'[turn] <= 21 /\ UNCHANGED <<result, turn, phase>>
  <2>1. CASE value'[turn] > 21
    BY <1>4, <2>1 DEF Hit
  <2>2. CASE value'[turn] <= 21 /\ next_slot'[turn] = 2 /\ hand[turn][0] = 1
    BY <1>4, <2>2 DEF Hit
  <2>3. CASE value'[turn] <= 21 /\ ~ (next_slot'[turn] = 2 /\ hand[turn][0] = 1)
    BY <1>4, <2>3 DEF Hit
  <2> QED BY <1>4, <2>1, <2>2, <2>3
<1>6. SlotsFilled'
  BY <1>2, <1>3 DEF BlackjackInv, SlotsFilled
<1>7. OneHand'
  <2>1. phase' # "bet"
    BY <1>0, <1>5, HandOverFacts
  <2> QED BY <1>3, <2>1 DEF BlackjackInv, OneHand
<1>8. StakesPaid'
  BY <1>0, <1>3 DEF BlackjackInv, StakesPaid
<1>9. CASE \E outcome \in {"stood", "bust"} : HandOver(outcome)
  <2>1. PICK outcome \in {"stood", "bust"} : HandOver(outcome)
    BY <1>9
  <2>2. /\ result' \in [Hands -> {"none", "stood", "bust"}] /\ result'[turn] # "none"
        /\ \A h \in Hands : h # turn => result'[h] = result[h]
        /\ \/ phase' = "player" /\ turn' = turn + 1 /\ turn' \in 0 .. hand_index
           \/ phase' \in {"house", "settle"} /\ turn' = turn /\ turn = hand_index
    BY <1>0, <2>1, HandOverFacts
  <2>3. BlackjackTypeOK'
    BY <1>2, <1>3, <2>2 DEF BlackjackInv, BlackjackTypeOK
  <2>4. MayHit'
    BY <1>0, <1>2, <2>2, Indices DEF BlackjackInv, BlackjackTypeOK, MayHit
  <2>5. PlayedHands'
    <3> SUFFICES ASSUME NEW h \in Hands, Over(h)'
                 PROVE  result'[h] # "none" /\ value'[h] = hand_value(hand'[h])
      BY DEF PlayedHands
    <3>1. h = turn \/ Over(h)
      BY <1>0, <1>3, <2>1, OverNext
    <3> QED BY <1>2, <2>2, <3>1 DEF BlackjackInv, PlayedHands
  <2> QED BY <1>6, <1>7, <1>8, <2>3, <2>4, <2>5 DEF BlackjackInv
<1>10. CASE value'[turn] <= 21 /\ UNCHANGED <<result, turn, phase>>
  <2>3. BlackjackTypeOK'
    BY <1>2, <1>3, <1>10 DEF BlackjackInv, BlackjackTypeOK
  <2>4. MayHit'
    BY <1>0, <1>2, <1>10 DEF BlackjackInv, MayHit
  <2>5. PlayedHands'
    <3> SUFFICES ASSUME NEW h \in Hands, Over(h)'
                 PROVE  result'[h] # "none" /\ value'[h] = hand_value(hand'[h])
      BY DEF PlayedHands
    <3>1. h # turn /\ Over(h)
      BY <1>0, <1>3, <1>10, Indices DEF Over, BlackjackInv, BlackjackTypeOK
    <3> QED BY <1>2, <1>10, <3>1 DEF BlackjackInv, PlayedHands
  <2> QED BY <1>6, <1>7, <1>8, <2>3, <2>4, <2>5 DEF BlackjackInv
<1> QED BY <1>5, <1>9, <1>10

(* Doubling down: the stake doubles for one last card. *)
LEMMA DoubleDownInv == BlackjackInv /\ DoubleDown => BlackjackInv'
<1> SUFFICES ASSUME BlackjackInv, DoubleDown PROVE BlackjackInv'
  OBVIOUS
<1>0. phase = "player" /\ ~ has_split /\ bet_size <= money
  BY DEF DoubleDown, MayDouble
<1>1. PICK c \in Rank : TakeCard(c)
  BY DEF DoubleDown
<1>2. /\ hand' \in [Hands -> [Slots -> Card]] /\ next_slot' \in [Hands -> Nat]
      /\ value' \in [Hands -> Int]
      /\ \A h \in Hands : HasCards(hand'[h], next_slot'[h])
      /\ value'[turn] = hand_value(hand'[turn])
      /\ \A h \in Hands : h # turn =>
            hand'[h] = hand[h] /\ next_slot'[h] = next_slot[h] /\ value'[h] = value[h]
  BY <1>0, <1>1, TakeCardFacts
<1>3. UNCHANGED <<has_split, hand_index, house_hand, house_next_slot, turn, purse>>
  BY DEF DoubleDown, houseVars
<1>4. hand_index = 0 /\ turn = 0 /\ 0 \in Hands
  BY <1>0, Indices DEF BlackjackInv, OneHand, BlackjackTypeOK
<1>5. money' = money - bet_size /\ bet_size' = 2 * bet_size
      /\ phase' \in {"house", "settle"}
      /\ \E r \in {"stood", "bust"} : result' = [result EXCEPT ![turn] = r]
  BY DEF DoubleDown
<1>6. money \in Nat /\ bet_size \in Nat /\ money' \in Nat /\ bet_size' \in Nat
  BY <1>0, <1>5 DEF BlackjackInv, BlackjackTypeOK
<1>7. result' \in [Hands -> {"none", "stood", "bust"}] /\ result'[0] # "none"
  BY <1>4, <1>5 DEF BlackjackInv, BlackjackTypeOK
<1>8. BlackjackTypeOK'
  BY <1>2, <1>3, <1>5, <1>6, <1>7 DEF BlackjackInv, BlackjackTypeOK
<1>9. SlotsFilled'
  BY <1>2, <1>3 DEF BlackjackInv, SlotsFilled
<1>10. MayHit'
  BY <1>5 DEF MayHit
<1>11. OneHand'
  BY <1>3, <1>5 DEF BlackjackInv, OneHand
<1>12. PlayedHands'
  <2> SUFFICES ASSUME NEW h \in Hands, Over(h)'
               PROVE  result'[h] # "none" /\ value'[h] = hand_value(hand'[h])
    BY DEF PlayedHands
  <2>1. h = 0
    BY <1>3, <1>4, <1>5, Indices DEF Over
  <2> QED BY <1>2, <1>4, <1>7, <2>1
<1>13. StakesPaid'
  <2>1. bet_size * (hand_index + 1) = bet_size /\ bet_size' * (hand_index' + 1) = bet_size'
    BY <1>3, <1>4, <1>6, OneStake
  <2>2. money + bet_size * (hand_index + 1) = purse
    BY <1>0 DEF BlackjackInv, StakesPaid
  <2>3. money' + bet_size' = purse
    BY <1>5, <1>6, <2>1, <2>2
  <2> QED BY <1>3, <2>1, <2>3 DEF StakesPaid
<1> QED BY <1>8, <1>9, <1>10, <1>11, <1>12, <1>13 DEF BlackjackInv

(* Standing, on the value the cards have. *)
LEMMA StandInv == BlackjackInv /\ Stand => BlackjackInv'
<1> SUFFICES ASSUME BlackjackInv, Stand PROVE BlackjackInv'
  OBVIOUS
<1>0. phase = "player" /\ HandOver("stood")
      /\ value' = [value EXCEPT ![turn] = hand_value(hand[turn])]
      /\ UNCHANGED <<money, bet_size, has_split, hand_index, hand, next_slot,
                     house_hand, house_next_slot, purse>>
  BY DEF Stand, StoodValue, houseVars
<1>1. turn \in Hands /\ hand[turn] \in [Slots -> Card] /\ value \in [Hands -> Int]
  BY Indices DEF BlackjackInv, BlackjackTypeOK
<1>2. /\ value' \in [Hands -> Int] /\ value'[turn] = hand_value(hand[turn])
      /\ \A h \in Hands : h # turn => value'[h] = value[h]
  BY <1>0, <1>1, HandValueBest
<1>3. /\ result' \in [Hands -> {"none", "stood", "bust"}] /\ result'[turn] # "none"
      /\ \A h \in Hands : h # turn => result'[h] = result[h]
      /\ \/ phase' = "player" /\ turn' = turn + 1 /\ turn' \in 0 .. hand_index
         \/ phase' \in {"house", "settle"} /\ turn' = turn /\ turn = hand_index
  BY <1>0, HandOverFacts
<1>4. BlackjackTypeOK'
  BY <1>0, <1>2, <1>3 DEF BlackjackInv, BlackjackTypeOK
<1>5. SlotsFilled'
  BY <1>0 DEF BlackjackInv, SlotsFilled
<1>6. MayHit'
  BY <1>0, <1>3, Indices DEF BlackjackInv, BlackjackTypeOK, MayHit
<1>7. OneHand'
  BY <1>0, <1>3 DEF BlackjackInv, OneHand
<1>8. PlayedHands'
  <2> SUFFICES ASSUME NEW h \in Hands, Over(h)'
               PROVE  result'[h] # "none" /\ value'[h] = hand_value(hand'[h])
    BY DEF PlayedHands
  <2>1. h = turn \/ Over(h)
    BY <1>0, OverNext
  <2> QED BY <1>0, <1>2, <1>3, <2>1 DEF BlackjackInv, PlayedHands
<1>9. StakesPaid'
  BY <1>0 DEF BlackjackInv, StakesPaid
<1> QED BY <1>4, <1>5, <1>6, <1>7, <1>8, <1>9 DEF BlackjackInv

(* Splitting: the second card starts the next hand, which is among the     *)
(* four, and one more bet is paid.                                         *)
LEMMA SplitInv == BlackjackInv /\ Split => BlackjackInv'
<1> SUFFICES ASSUME BlackjackInv, Split PROVE BlackjackInv'
  OBVIOUS
<1> DEFINE second == hand[turn][1]
           given == [hand[turn + 1] EXCEPT ![0] = second]
           kept == [hand[turn] EXCEPT ![1] = Empty]
<1>0. /\ phase = "player" /\ next_slot[turn] = 2 /\ hand_index # 3 /\ bet_size <= money
      /\ money' = money - bet_size /\ hand_index' = hand_index + 1 /\ has_split' = TRUE
      /\ hand' = [hand EXCEPT ![turn + 1][0] = second, ![turn][1] = Empty]
      /\ next_slot' = [next_slot EXCEPT ![turn] = 1, ![turn + 1] = 1]
      /\ UNCHANGED <<bet_size, value, result, house_hand, house_next_slot, turn, phase, purse>>
  BY DEF Split, MaySplit, houseVars
<1>1. /\ turn \in 0 .. 2 /\ hand_index \in 0 .. 2 /\ turn <= hand_index
      /\ turn \in Hands /\ turn + 1 \in Hands /\ turn # turn + 1
  BY <1>0, Indices DEF BlackjackInv, BlackjackTypeOK
<1>2. /\ hand \in [Hands -> [Slots -> Card]] /\ next_slot \in [Hands -> Nat]
      /\ \A h \in Hands : HasCards(hand[h], next_slot[h])
  BY DEF BlackjackInv, BlackjackTypeOK, SlotsFilled
<1>3. 0 \in Slots /\ 1 \in Slots /\ HandSize \in Nat /\ HandSize >= 22
  BY Indices, BlackjackAssumption
<1>4. hand[turn][0] # Empty /\ second \in Card /\ second # Empty
  BY <1>0, <1>1, <1>2, <1>3, 0 \in 0 .. (2 - 1), 1 \in 0 .. (2 - 1) DEF HasCards
<1>5. given \in [Slots -> Card] /\ given[0] # Empty /\ kept \in [Slots -> Card] /\ kept[0] # Empty
  <2>1. Empty \in Card
    BY DEF Card
  <2> QED BY <1>1, <1>2, <1>3, <1>4, <2>1
<1>6. hand' = [[hand EXCEPT ![turn + 1] = given] EXCEPT ![turn] = kept]
  BY <1>0, <1>1, <1>2
<1>7. next_slot' \in [Hands -> Nat] /\ next_slot'[turn] = 1 /\ next_slot'[turn + 1] = 1
      /\ \A h \in Hands : h # turn /\ h # turn + 1 => next_slot'[h] = next_slot[h]
  BY <1>0, <1>1, <1>2
<1> HIDE DEF given, kept, second
<1>8. hand' \in [Hands -> [Slots -> Card]] /\ hand'[turn] = kept /\ hand'[turn + 1] = given
      /\ \A h \in Hands : h # turn /\ h # turn + 1 => hand'[h] = hand[h]
  BY <1>1, <1>2, <1>5, <1>6
<1>9. money \in Nat /\ bet_size \in Nat /\ money' \in Nat
  BY <1>0 DEF BlackjackInv, BlackjackTypeOK
<1>10. BlackjackTypeOK'
  <2>1. hand_index' \in 0 .. 3 /\ turn' \in 0 .. hand_index'
    BY <1>0, <1>1
  <2> QED BY <1>0, <1>7, <1>8, <1>9, <2>1 DEF BlackjackInv, BlackjackTypeOK
<1>11. SlotsFilled'
  <2>1. \A h \in Hands : HasCards(hand'[h], next_slot'[h])
    <3>1. HasCards(kept, 1) /\ HasCards(given, 1)
      BY <1>3, <1>5, 0 .. (1 - 1) = {0} DEF HasCards
    <3> QED BY <1>2, <1>7, <1>8, <3>1
  <2> QED BY <1>0, <2>1 DEF BlackjackInv, SlotsFilled
<1>12. MayHit'
  BY <1>0, <1>7, <1>8 DEF BlackjackInv, MayHit
<1>13. OneHand'
  BY <1>0 DEF OneHand
<1>14. PlayedHands'
  <2> SUFFICES ASSUME NEW h \in Hands, Over(h)'
               PROVE  result'[h] # "none" /\ value'[h] = hand_value(hand'[h])
    BY DEF PlayedHands
  <2>0. h < turn
    BY <1>0 DEF Over
  <2>1. Over(h)
    BY <1>0, <2>0 DEF Over
  <2>2. h \in Int /\ turn \in Int
    BY <1>1, Indices
  <2>3. h # turn /\ h # turn + 1
    BY <2>0, <2>2
  <2> QED BY <1>0, <1>8, <2>1, <2>3 DEF BlackjackInv, PlayedHands
<1>15. StakesPaid'
  <2>1. bet_size * ((hand_index + 1) + 1) = bet_size * (hand_index + 1) + bet_size
    BY <1>1, <1>9, OneStakeMore
  <2>2. money + bet_size * (hand_index + 1) = purse
    BY <1>0 DEF BlackjackInv, StakesPaid
  <2>3. bet_size * (hand_index + 1) \in Int
    BY <1>1, <1>9
  <2>4. (money - bet_size) + bet_size * ((hand_index + 1) + 1) = purse
    BY <1>9, <2>1, <2>2, <2>3
  <2> QED BY <1>0, <2>4 DEF StakesPaid
<1> QED BY <1>10, <1>11, <1>12, <1>13, <1>14, <1>15 DEF BlackjackInv

(* The house takes a card only below 17, so with fewer than 17 of its own. *)
LEMMA HouseTurnInv == BlackjackInv /\ HouseTurn => BlackjackInv'
<1> SUFFICES ASSUME BlackjackInv, HouseTurn PROVE BlackjackInv'
  OBVIOUS
<1>0. /\ phase = "house" /\ phase' \in {"house", "settle"}
      /\ UNCHANGED <<money, bet_size, has_split, hand_index, hand, value, result, next_slot,
                     turn, purse>>
  BY DEF HouseTurn, handVars
<1>1. /\ house_hand \in [Slots -> Card] /\ house_next_slot \in Nat
      /\ HasCards(house_hand, house_next_slot)
  BY DEF BlackjackInv, BlackjackTypeOK, SlotsFilled
<1>2. /\ house_hand' \in [Slots -> Card] /\ house_next_slot' \in Nat
      /\ HasCards(house_hand', house_next_slot')
  <2>1. hand_value(house_hand) \in Int
    BY <1>1, HandValueBest
  <2>2. CASE hand_value(house_hand) >= 17
    BY <1>1, <2>2 DEF HouseTurn
  <2>3. CASE ~ (hand_value(house_hand) >= 17)
    <3>1. PICK c \in Rank : house_hand' = [house_hand EXCEPT ![house_next_slot] = c]
      BY <2>3 DEF HouseTurn
    <3>2. house_next_slot' = house_next_slot + 1
      BY <2>3 DEF HouseTurn
    <3>3. house_next_slot \in Slots
      BY <1>1, <2>1, <2>3, RoomForCard
    <3>4. house_next_slot + 1 \in Nat
      BY <1>1
    <3> QED BY <1>1, <3>1, <3>2, <3>3, <3>4, CardAdded, Zenon
  <2> QED BY <2>2, <2>3
<1>3. BlackjackTypeOK'
  BY <1>0, <1>2 DEF BlackjackInv, BlackjackTypeOK
<1>4. SlotsFilled'
  BY <1>0, <1>2 DEF BlackjackInv, SlotsFilled
<1>5. MayHit' /\ OneHand' /\ StakesPaid'
  BY <1>0 DEF BlackjackInv, MayHit, OneHand, StakesPaid
<1>6. PlayedHands'
  BY <1>0 DEF BlackjackInv, PlayedHands, Over
<1> QED BY <1>3, <1>4, <1>5, <1>6 DEF BlackjackInv

(* No hand is paid a negative amount. *)
LEMMA PaymentNat ==
    ASSUME BlackjackInv
    PROVE  SumOver([h \in Hands |-> Payoff(h)], hand_index + 1) \in Nat
<1> DEFINE f == [h \in Hands |-> Payoff(h)]
           n == hand_index + 1
<1>1. n \in 1 .. 4 /\ \A k \in 0 .. (n - 1) : k \in Hands
  BY Indices DEF BlackjackInv, BlackjackTypeOK
<1>2. ASSUME NEW h \in Hands  PROVE Payoff(h) \in Nat
  <2>1. bet_size \in Nat /\ 2 * bet_size \in Nat /\ value[h] \in Int
    BY DEF BlackjackInv, BlackjackTypeOK
  <2>2. Payoff(h) \in {0, bet_size, 2 * bet_size}
    BY <2>1 DEF Payoff
  <2> QED BY <2>1, <2>2
<1>3. n \in Nat /\ \A k \in 0 .. (n - 1) : f[k] \in Nat /\ f[k] \in Int
  BY <1>1, <1>2
<1> HIDE DEF f, n
<1>4. PICK t : Totals(t, f, n) /\ SumOver(f, n) = t[n]
  BY <1>3, SumIsTotal
<1> DEFINE S == {k \in 0 .. n : t[k] \in Nat}
<1>5. 0 \in S
  BY <1>3, <1>4 DEF Totals
<1>6. ASSUME NEW k \in 0 .. (n - 1), k \in S  PROVE k + 1 \in S
  <2>1. t[k + 1] = t[k] + f[k]
    BY <1>3, <1>4, k + 1 \in 1 .. n, (k + 1) - 1 = k DEF Totals
  <2> QED BY <1>3, <1>6, <2>1
<1>7. n \in S
  <2> HIDE DEF S
  <2>1. n \in Nat /\ n \in 0 .. n
    BY <1>3
  <2>2. \A k \in 0 .. n : k \in S
    BY <1>5, <1>6, <2>1, EveryTurn
  <2> QED BY <2>1, <2>2
<1> QED BY <1>4, <1>7 DEF f, n

(* Paying the hands, and clearing them for the next round. *)
LEMMA SettleInv == BlackjackInv /\ Settle => BlackjackInv'
<1> SUFFICES ASSUME BlackjackInv, Settle PROVE BlackjackInv'
  OBVIOUS
<1>1. money' \in Nat /\ UNCHANGED bet_size
  BY PaymentNat DEF Settle, BlackjackInv, BlackjackTypeOK
<1>2. CASE money' > 0
  <2>1. /\ phase' = "bet" /\ has_split' = FALSE /\ hand_index' = 0 /\ turn' = 0
        /\ hand' = [h \in Hands |-> NoCards] /\ value' = [h \in Hands |-> 0]
        /\ result' = [h \in Hands |-> "none"] /\ next_slot' = [h \in Hands |-> 0]
        /\ house_hand' = [s \in Slots |-> IF s < MaxHands THEN Empty ELSE house_hand[s]]
        /\ house_next_slot' = 0
    BY <1>2 DEF Settle
  <2>2. NoCards \in [Slots -> Card] /\ Empty \in Card /\ house_hand \in [Slots -> Card]
    BY DEF NoCards, Card, BlackjackInv, BlackjackTypeOK
  <2>3. BlackjackTypeOK'
    <3>1. hand' \in [Hands -> [Slots -> Card]] /\ house_hand' \in [Slots -> Card]
      BY <2>1, <2>2
    <3>2. value' \in [Hands -> Int] /\ next_slot' \in [Hands -> Nat] /\ house_next_slot' \in Nat
          /\ hand_index' \in 0 .. 3 /\ turn' \in 0 .. hand_index'
      BY <2>1
    <3>3. result' \in [Hands -> {"none", "stood", "bust"}] /\ has_split' \in BOOLEAN
          /\ phase' \in {"bet", "player", "house", "settle", "over"} /\ bet_size' \in Nat
      BY <1>1, <2>1 DEF BlackjackInv, BlackjackTypeOK
    <3> QED BY <1>1, <3>1, <3>2, <3>3 DEF BlackjackTypeOK
  <2>4. SlotsFilled'
    BY <2>1, Indices DEF SlotsFilled, HasCards
  <2> QED BY <2>1, <2>3, <2>4
          DEF BlackjackInv, MayHit, OneHand, PlayedHands, Over, StakesPaid
<1>3. CASE ~ (money' > 0)
  <2>1. phase' = "over" /\ UNCHANGED <<has_split, hand_index, turn, hand, value, result, next_slot,
                                       house_hand, house_next_slot>>
    BY <1>3 DEF Settle, handVars, houseVars
  <2>2. BlackjackTypeOK'
    BY <1>1, <2>1 DEF BlackjackInv, BlackjackTypeOK
  <2>3. SlotsFilled'
    BY <2>1 DEF BlackjackInv, SlotsFilled
  <2> QED BY <2>1, <2>2, <2>3
          DEF BlackjackInv, MayHit, OneHand, PlayedHands, Over, StakesPaid
<1> QED BY <1>2, <1>3

LEMMA StutterBlackjack == BlackjackInv /\ UNCHANGED vars => BlackjackInv'
<1> SUFFICES ASSUME BlackjackInv, UNCHANGED vars PROVE BlackjackInv'
  OBVIOUS
<1>1. UNCHANGED <<money, bet_size, has_split, hand_index, hand, value, result, next_slot,
                  house_hand, house_next_slot, turn, phase, purse>>
  BY DEF vars, handVars, houseVars
<1> QED BY <1>1 DEF BlackjackInv, BlackjackTypeOK, SlotsFilled, MayHit, OneHand,
                    PlayedHands, Over, StakesPaid

LEMMA BlackjackAlways == Spec => []BlackjackInv
<1>1. BlackjackInv /\ [Next]_vars => BlackjackInv'
  BY DealInv, HitInv, DoubleDownInv, StandInv, SplitInv, HouseTurnInv, SettleInv,
     StutterBlackjack DEF Next
<1> QED BY <1>1, InitBlackjack, PTL DEF Spec

(* No card is ever written past a hand, the player never has more than     *)
(* four hands and never owes money: whatever the cards and the choices, a  *)
(* hand that is not bust leaves room for one more card.                    *)
THEOREM NoOverrun == Spec => []InBounds
<1>1. BlackjackInv => InBounds
  BY Indices DEF BlackjackInv, BlackjackTypeOK, SlotsFilled, HasCards, InBounds
<1> QED BY <1>1, BlackjackAlways, PTL

(* Every stake on the table has been paid from the purse, through any      *)
(* sequence of hits, doubles and splits: bet_size, which all hands share,  *)
(* is never doubled when there is more than one of them.                   *)
THEOREM StakesArePaid == Spec => []StakesPaid
<1>1. BlackjackInv => StakesPaid
  BY DEF BlackjackInv
<1> QED BY <1>1, BlackjackAlways, PTL

(* Hands are settled on the best value of the cards they hold: the two     *)
(* loops of hand_value compute it, and no split changes a hand after it    *)
(* has been valued.                                                        *)
THEOREM HandsSettledOnCards == Spec => []SettledOnCards
<1>1. BlackjackInv => SettledOnCards
  <2> SUFFICES ASSUME BlackjackInv, phase = "settle", NEW h \in 0 .. hand_index
               PROVE  result[h] # "none" /\ value[h] = BestValue(hand[h])
    BY DEF SettledOnCards
  <2>1. h \in Hands /\ h <= hand_index /\ hand[h] \in [Slots -> Card]
    BY Indices DEF BlackjackInv, BlackjackTypeOK
  <2>2. result[h] # "none" /\ value[h] = hand_value(hand[h])
    BY <2>1 DEF BlackjackInv, PlayedHands, Over
  <2> QED BY <2>1, <2>2, HandValueBest
<1> QED BY <1>1, BlackjackAlways, PTL
=============================================================================
