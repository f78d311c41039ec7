CONSTANTS
    a = a
    moved = moved
    b = b
    A = A
    B = B
    Configs = {"base", "moved", "wider", "broken", "address"}
    First = "base"
    Loadable = {"base", "moved", "wider", "address"}
    Frozen <- FrozenParts
    PoolOf <- Pools
    Label <- Names
    Listeners = 2
    Certs = {old, new, expired}
    GoodCerts = {old, new}
    MaxEdits = 2
    MaxSignals = 2
    MaxChanges = 1
SPECIFICATION Spec
INVARIANT GaugeSurvivesReload
CHECK_DEADLOCK FALSE
