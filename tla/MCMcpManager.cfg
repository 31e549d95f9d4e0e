SPECIFICATION Spec
CONSTANTS
    Servers = {s1}
    MaxReloads = 2
INVARIANTS TypeOK ShutdownIsFinal ToolsServed
PROPERTY ShutdownStopsServers
