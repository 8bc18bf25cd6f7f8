SPECIFICATION MCSpec
CONSTANT Versions = 2
INVARIANT SessionsSurvive
INVARIANT StopFindsAll
PROPERTY StoreKept
PROPERTY StartReturns
