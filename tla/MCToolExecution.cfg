SPECIFICATION Spec
CONSTANTS
    a1 = a1
    a2 = a2
    t1 = t1
    t2 = t2
    g1 = g1
    g2 = g2
    f1 = f1
    f2 = f2
    None = None
    Original = Original
    Agents = {a1, a2}
    Tabs = {t1}
    TabOf <- OneTab
    Registries = {g1}
    RegistryOf <- OneRegistry
    Addresses = {f1, f2}
    Touches <- Apart
    Names = {Original, New}
    Workers = 1
    Timeouts = TRUE
    MaxCalls = 3
CHECK_DEADLOCK FALSE
INVARIANTS TypeOK CacheFresh UndoRestores StackIsExact
PROPERTY EveryCallEnds
