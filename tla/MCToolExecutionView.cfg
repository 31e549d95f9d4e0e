SPECIFICATION Spec
CONSTANTS
    a1 = a1
    a2 = a2
    t1 = t1
    t2 = t2
    g1 = g1
    g2 = g2
    f1 = f1
    f2 = f2
    None = None
    Original = Original
    Agents = {a1, a2}
    Tabs = {t1, t2}
    TabOf <- TwoTabs
    Registries = {g1, g2}
    RegistryOf <- OneView
    Addresses = {f1}
    Touches <- Together
    Names = {Original, New}
    Workers = 2
    Timeouts = FALSE
    MaxCalls = 3
CHECK_DEADLOCK FALSE
INVARIANT CacheFresh
