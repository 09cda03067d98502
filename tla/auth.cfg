SPECIFICATION FairSpec
CONSTANTS
    Evses = {1, 2}
    Tokens = {t1, t2, mp}
    None = None
    t1 = t1
    t2 = t2
    mp = mp
    Cards <- MCCards
    ParentOf <- MCParentOf
    MasterPass = "master"
    Results <- MCResults
    SelectionAlgorithm = "PlugEvents"
    Prioritize = TRUE
    StopOnReswipe = TRUE
    PlugInTimeout = TRUE
    Provided = {{1, 2}}
    Withdrawals <- MCWithdrawals
    Visited = {1}
    MaxTokens = 2
    MaxMoves = 2
CHECK_DEADLOCK FALSE
INVARIANTS
    TransactionAgrees
    PendingPlugIns
    ConnectorAgrees
PROPERTIES
    TokenAnswered
    WithdrawalReturns
