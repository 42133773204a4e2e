CONSTANTS
    Rank = {1, 10}
    Copies = 1
    HandSize = 22
    MaxHands = 4
    Money = 3
    MaxRounds = 2
SPECIFICATION Spec
INVARIANTS InBounds StakesPaid SettledOnCards
CHECK_DEADLOCK FALSE
