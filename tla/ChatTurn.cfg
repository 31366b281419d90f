SPECIFICATION ChatSpec
CONSTANTS
  Calls = {"first", "second"}
  MaxReply = 2
  Hints <- MCHints
  Rules <- MCRules
  Texts <- MCTexts
  Configs <- MCConfigs
INVARIANTS NothingRaw RestoredFaithfully ScreenedIsSent HistoryIsKept
CHECK_DEADLOCK FALSE
