\* Three calls; messages are lost, delayed, rejected.
SPECIFICATION Spec
CONSTANTS
    Keys <- MCKeys
    Calls <- MCCalls
    UBX_CFG_VALSET_V1_MAX_KV = 2
    UBX_CFG_VALSET_MSG_MAX = 3
INVARIANTS SetConfigExact AllOrNothing
\* All calls have been made.
CHECK_DEADLOCK FALSE
