SPECIFICATION Spec
CONSTANTS Writers = {"agent", "subagent", "other"}
          Stores = {"store1", "store2"}
          StoreOf <- MCStoreOf
          Facts = {"f1", "f2"}
          MaxSaves = 3
          MaxEdits = 1
          MaxFaults = 2
INVARIANTS TypeOK StateDescribesFile EditsKept SaveRepairs
CHECK_DEADLOCK FALSE
