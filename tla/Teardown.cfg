SPECIFICATION FairSpec
CONSTANT MaxMessages = 2
INVARIANT FreedOnce
PROPERTY TearsDown
CHECK_DEADLOCK FALSE
