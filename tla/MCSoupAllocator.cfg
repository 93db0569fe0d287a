SPECIFICATION Spec
CONSTANT SoupSize = 6
INVARIANTS NoByteTwice NoByteLost Coalesced FailureIsHonest
PROPERTIES RefinesSpace
