CONSTANTS
    None = None
    Repositories <- MCRepositories
    AureonRepo <- MCAureonRepo
    Connected <- MCConnected
    Limit <- MCLimit
    Usual <- MCUsual
    Unusual <- MCUnusual
    RefreshTicks = 1
    SlowestRefresh = 1
    OldestAge = 2
    Workers = {w1, w2}
SPECIFICATION Spec

PROPERTY EveryRefreshPublishes
