SPECIFICATION FairSpec
CONSTANTS
  Uids = {1, 2, 3}
  Me = 3
  KeysOf <- MCKeysOf
  Limit = 1
  None = None
  Shown = {1}
  Rosters <- MCRosters
  Prompt = TRUE
  MaxAge = 2
  MaxLosses = 1
  MaxRestarts = 1
INVARIANTS RowsAreTrue NoGap LookupsAreAnswered
PROPERTIES CatchesUp
CHECK_DEADLOCK FALSE
