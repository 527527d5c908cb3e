SPECIFICATION TablesSpec
CONSTANTS
    StoredRow <- MCRows
    Key = {"0", "1", "2", "#"}
    MaxRows = 3
INVARIANTS
    LoadedAsStored
    KeysStayInMenu
    ZeroReachesAgent
