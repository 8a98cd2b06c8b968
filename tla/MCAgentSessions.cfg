SPECIFICATION Spec
CONSTANTS
    Retries = 2
    Pauses <- MCPauses
    AgentTimeout = 3
    UnitTimeout = 5
    Modes = {"edit", "write", "ask"}
    MaxUnits = 2
INVARIANT TypeOK BreakdownLosesOneUnit MessageFitsSession RejectedEditKeepsSession UnitTimeBounded
PROPERTY EveryUnitEnds
CHECK_DEADLOCK FALSE
