SPECIFICATION MCFairSpec
INVARIANTS  KeysFollowKeyboard
 
CHECK_DEADLOCK FALSE
