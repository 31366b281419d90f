SPECIFICATION TurnSpec
CONSTANTS
  Tools = {"search", "book"}
  MaxCalls = 2
  MaxText = 2
  MaxTurns = 2
INVARIANT Restores
