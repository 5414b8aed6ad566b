\* Four layers polled in turn over a link that loses and delays.
SPECIFICATION FairSpec
CONSTANTS
    Calls <- MCCalls
    Config <- MCConfig
    UBX_CFG_VALGET_V1_MAX_KV = 2
    Retries = 2
    MaxKv = 5
INVARIANTS CollectsPrefix ExactUnlessNoData
PROPERTIES GetConfigReturns
\* All layers have been polled.
CHECK_DEADLOCK FALSE
