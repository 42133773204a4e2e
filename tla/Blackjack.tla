----------------------------- MODULE Blackjack -----------------------------
(***************************************************************************)
(* The blackjack game, userspace/blackjack.c (the build that reads the     *)
(* player's input; the vmwOS build leaves at the first bet).  The player   *)
(* may bet any amount and choose any action at any prompt; a refused       *)
(* action changes nothing.  The shoe is a bag: shuffle leaves every order  *)
(* possible.                                                               *)
(*                                                                         *)
(* Cards are ranks, 1 the ace and 11, 12, 13 the faces; 0 is an empty slot.*)
(* num_splits, a local of player_turn, always equals player.hand_index.    *)
(***************************************************************************)
EXTENDS Integers, FiniteSetsExt

CONSTANTS
    Rank,       \* ranks in the shoe, a subset of 1 .. 13
    Copies,     \* cards of each rank in a new shoe, 24
    HandSize,   \* HAND_SIZE, 22
    MaxHands,   \* MAX_HANDS, 4
    Money,      \* the money the player starts with, 1500
    MaxRounds   \* bound: rounds played before the model stops

ASSUME BlackjackAssumption ==
    /\ Rank \subseteq 1 .. 13 /\ Rank # {}
    /\ {Copies, Money, MaxRounds} \subseteq Nat \ {0}
    /\ HandSize \in Nat /\ HandSize >= 22     \* 21 aces make 21, and one card more is a bust
    /\ MaxHands \in Nat /\ MaxHands >= 4      \* three splits

VARIABLES
    shoe,                           \* cards left, by rank
    money, bet_size, has_split, hand_index,     \* struct player
    hand, value, result, next_slot,             \* of each of its hands
    house_hand, house_value, house_next_slot,   \* struct house
    turn,                           \* hand_index of player_turn
    phase,                          \* the part of main that comes next
    purse,                          \* money when the round began, ghost
    rounds                          \* rounds dealt, ghost

houseVars == <<house_hand, house_value, house_next_slot>>
handVars == <<hand, value, result, next_slot>>
vars == <<shoe, money, bet_size, has_split, hand_index, handVars, houseVars,
          turn, phase, purse, rounds>>

Hands == 0 .. (MaxHands - 1)
Slots == 0 .. (HandSize - 1)
Empty == 0
NoCards == [s \in Slots |-> Empty]

----------------------------------------------------------------------------
(* What a loop adds up in turns 0 .. n - 1. *)
SumOver(f, n) ==
    LET total[k \in 0 .. n] == IF k = 0 THEN 0 ELSE total[k - 1] + f[k - 1]
    IN  total[n]

CardValue(c) == IF c = 1 THEN 11 ELSE Min({c, 10})

(* The cards before the first empty slot. *)
Held(cards) == Min({s \in Slots : cards[s] = Empty} \cup {HandSize})

Points(cards) == SumOver([s \in Slots |-> CardValue(cards[s])], Held(cards))
Aces(cards) == SumOver([s \in Slots |-> IF cards[s] = 1 THEN 1 ELSE 0], Held(cards))

(* Aces are counted as 11, and then as 1, one by one, while over 21. *)
Demoted(points, aces) ==
    LET after[k \in 0 .. aces] ==
            IF k = 0 THEN points
            ELSE after[k - 1] - (IF after[k - 1] > 21 THEN 10 ELSE 0)
    IN  after[aces]

(* hand_value_player and hand_value_house *)
hand_value(cards) == Demoted(Points(cards), Aces(cards))

(* pop_shoe: a new shoe if this one is empty, less card c. *)
Stock(cards) == IF \A r \in Rank : cards[r] = 0 THEN [r \in Rank |-> Copies] ELSE cards
InShoe(c, cards) == Stock(cards)[c] > 0
Popped(c, cards) == [Stock(cards) EXCEPT ![c] = @ - 1]

----------------------------------------------------------------------------
(* The bet, then two cards for the player and two for the house. *)
Deal ==
    /\ phase = "bet" /\ money > 0 /\ rounds < MaxRounds
    /\ \E bet \in 1 .. money : bet_size' = bet /\ money' = money - bet
    /\ \E p1, h1, p2, h2 \in Rank :
        /\ LET s1 == Popped(p1, shoe)  s2 == Popped(h1, s1)  s3 == Popped(p2, s2)
           IN  /\ InShoe(p1, shoe) /\ InShoe(h1, s1) /\ InShoe(p2, s2) /\ InShoe(h2, s3)
               /\ shoe' = Popped(h2, s3)
        /\ hand' = [hand EXCEPT ![0][0] = p1, ![0][1] = p2]
        /\ house_hand' = [house_hand EXCEPT ![0] = h1, ![1] = h2]
    /\ next_slot' = [next_slot EXCEPT ![0] = 2] /\ house_next_slot' = 2
    /\ turn' = 0 /\ phase' = "player" /\ purse' = money /\ rounds' = rounds + 1
    /\ UNCHANGED <<has_split, hand_index, value, result, house_value>>

(* all_hands_bust is 0 *)
AnyStood(res) == \E h \in Hands : res[h] = "stood"

(* The hand is over with this result: on to the next hand, if there is one. *)
HandOver(outcome) ==
    /\ result' = [result EXCEPT ![turn] = outcome]
    /\ IF turn = hand_index
       THEN phase' = (IF AnyStood(result') THEN "house" ELSE "settle")
            /\ UNCHANGED turn
       ELSE turn' = turn + 1 /\ UNCHANGED phase

TakeCard(c) ==
    /\ InShoe(c, shoe) /\ shoe' = Popped(c, shoe)
    /\ hand' = [hand EXCEPT ![turn][next_slot[turn]] = c]
    /\ next_slot' = [next_slot EXCEPT ![turn] = @ + 1]
    /\ value' = [value EXCEPT ![turn] = hand_value(hand'[turn])]

(* "hit": a split ace gets one card only. *)
Hit ==
    /\ phase = "player"
    /\ \E c \in Rank : TakeCard(c)
    /\ CASE value'[turn] > 21 -> HandOver("bust")
         [] value'[turn] <= 21 /\ next_slot'[turn] = 2 /\ hand[turn][0] = 1 -> HandOver("stood")
         [] OTHER -> UNCHANGED <<result, turn, phase>>
    /\ UNCHANGED <<money, bet_size, has_split, hand_index, houseVars, purse, rounds>>

(* Mutation of MayDouble: the check of has_split is left out. *)
MayDoubleSplit ==
    hand_value(hand[turn]) # 21 /\ next_slot[turn] = 2 /\ bet_size <= money

MayDouble ==
    /\ ~ has_split
    /\ hand_value(hand[turn]) # 21 /\ next_slot[turn] = 2 /\ bet_size <= money

DoubleDown ==
    /\ phase = "player" /\ MayDouble
    /\ money' = money - bet_size /\ bet_size' = 2 * bet_size
    /\ \E c \in Rank : TakeCard(c)
    /\ result' = [result EXCEPT ![turn] = IF value'[turn] > 21 THEN "bust" ELSE "stood"]
    /\ phase' = IF value'[turn] > 21 THEN "settle" ELSE "house"
    /\ UNCHANGED <<has_split, hand_index, houseVars, turn, purse, rounds>>

(* Mutation of StoodValue: the value of the last hit is kept. *)
StoodValue0 == value

StoodValue == [value EXCEPT ![turn] = hand_value(hand[turn])]

Stand ==
    /\ phase = "player"
    /\ value' = StoodValue
    /\ HandOver("stood")
    /\ UNCHANGED <<shoe, money, bet_size, has_split, hand_index, hand, next_slot,
                   houseVars, purse, rounds>>

(* Mutation of MaySplit: the player's money is not looked at. *)
MaySplitOnCredit ==
    /\ next_slot[turn] = 2 /\ hand_index # 3
    /\ hand[turn][0] = hand[turn][1] \/ hand_value(hand[turn]) = 20

MaySplit ==
    /\ next_slot[turn] = 2
    /\ hand[turn][0] = hand[turn][1] \/ hand_value(hand[turn]) = 20
    /\ hand_index # 3 /\ bet_size <= money

(* The new hand is always the next one: the search for a free one compares *)
(* no characters.                                                          *)
Split ==
    /\ phase = "player" /\ MaySplit
    /\ money' = money - bet_size
    /\ hand' = [hand EXCEPT ![turn + 1][0] = hand[turn][1], ![turn][1] = Empty]
    /\ next_slot' = [next_slot EXCEPT ![turn] = 1, ![turn + 1] = 1]
    /\ hand_index' = hand_index + 1
    /\ has_split' = TRUE
    /\ UNCHANGED <<shoe, bet_size, value, result, houseVars, turn, phase, purse, rounds>>

(* One turn of house_turn's loop: stop at 17, or take a card. *)
HouseTurn ==
    /\ phase = "house"
    /\ house_value' = hand_value(house_hand)
    /\ IF house_value' >= 17
       THEN phase' = "settle" /\ UNCHANGED <<shoe, house_hand, house_next_slot>>
       ELSE /\ \E c \in Rank : /\ InShoe(c, shoe) /\ shoe' = Popped(c, shoe)
                               /\ house_hand' = [house_hand EXCEPT ![house_next_slot] = c]
            /\ house_next_slot' = house_next_slot + 1
            /\ UNCHANGED phase
    /\ UNCHANGED <<money, bet_size, has_split, hand_index, handVars, turn, purse, rounds>>

(* What a hand is paid; a hand of two cards beats a longer one at 21. *)
Payoff(h) ==
    LET natural == next_slot[h] = 2 /\ house_next_slot # 2
        dealer == next_slot[h] # 2 /\ house_next_slot = 2
    IN  CASE value[h] > 21 -> 0
          [] value[h] <= 21 /\ (house_value > 21 \/ value[h] > house_value) -> 2 * bet_size
          [] value[h] <= 21 /\ value[h] = house_value ->
                (CASE value[h] = 21 /\ natural -> 2 * bet_size
                   [] value[h] = 21 /\ dealer -> 0
                   [] OTHER -> bet_size)
          [] OTHER -> 0

(* The hands are paid and, if money is left, reset_hands starts the next   *)
(* round: it clears the player's cards and the first MaxHands slots of the *)
(* house.                                                                  *)
Settle ==
    /\ phase = "settle"
    /\ money' = money + SumOver([h \in Hands |-> Payoff(h)], hand_index + 1)
    /\ IF money' > 0
       THEN /\ phase' = "bet"
            /\ has_split' = FALSE /\ hand_index' = 0 /\ turn' = 0
            /\ hand' = [h \in Hands |-> NoCards] /\ value' = [h \in Hands |-> 0]
            /\ result' = [h \in Hands |-> "none"] /\ next_slot' = [h \in Hands |-> 0]
            /\ house_hand' = [s \in Slots |-> IF s < MaxHands THEN Empty ELSE house_hand[s]]
            /\ house_value' = 0 /\ house_next_slot' = 0
       ELSE phase' = "over" /\ UNCHANGED <<has_split, hand_index, turn, handVars, houseVars>>
    /\ purse' = 0
    /\ UNCHANGED <<shoe, bet_size, rounds>>

Init ==
    /\ shoe = [r \in Rank |-> Copies]
    /\ money = Money /\ bet_size = 0 /\ has_split = FALSE /\ hand_index = 0
    /\ hand = [h \in Hands |-> NoCards] /\ value = [h \in Hands |-> 0]
    /\ result = [h \in Hands |-> "none"] /\ next_slot = [h \in Hands |-> 0]
    /\ house_hand = NoCards /\ house_value = 0 /\ house_next_slot = 0
    /\ turn = 0 /\ phase = "bet" /\ purse = 0 /\ rounds = 0

Next == Deal \/ Hit \/ DoubleDown \/ Stand \/ Split \/ HouseTurn \/ Settle

Spec == Init /\ [][Next]_vars

----------------------------------------------------------------------------
(* No index leaves its array, and the player never owes money: every card  *)
(* of every hand, and of the house, goes to a slot that exists.            *)
InBounds ==
    /\ turn <= hand_index /\ hand_index < MaxHands
    /\ \A h \in Hands : next_slot[h] <= HandSize
    /\ house_next_slot <= HandSize
    /\ money \in Nat

(* The stakes on the table are what the player has paid: hitting, doubling *)
(* and splitting in any order, the money left and one bet for each hand    *)
(* make up the purse.                                                      *)
StakesPaid ==
    phase \in {"player", "house", "settle"} =>
        money + bet_size * (hand_index + 1) = purse

(* Of all the ways to count the aces as 1 or 11, the highest total not     *)
(* above 21, or else the lowest total.                                     *)
BestValue(cards) ==
    LET least == Points(cards) - 10 * Aces(cards)
        totals == {least + 10 * k : k \in 0 .. Aces(cards)}
        good == {t \in totals : t <= 21}
    IN  IF good = {} THEN least ELSE Max(good)

(* When the hands are settled, each one has been played and has the best   *)
(* value of the cards it holds, however it ended and whatever was split    *)
(* before.                                                                 *)
SettledOnCards ==
    phase = "settle" => \A h \in 0 .. hand_index :
        result[h] # "none" /\ value[h] = BestValue(hand[h])
=============================================================================
