SPECIFICATION HistorySpec
CONSTANTS
  MaxResults = 4
INVARIANTS ShownIsStored OnlySelectedAreLost
