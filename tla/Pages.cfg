SPECIFICATION MCSpec
CONSTANTS
  Url = {"u1", "u2"}
  Tag = {"A"}
  MaxId = 2
  Op = {1, 2}
  MaxActs = 3
  MaxSent = 2
  Spot <- MCSpot
  Item <- MCItem
  Old = {1}
  Late = {3}
  ListTag = {"A"}
  Tagged <- MCTagged
  Has <- MCHas
  Update = {1, 2}
  MaxItemActs = 4
  Window = 1
  FeedItem = {1}
  Version = {1, 2}
  Mentions <- MCMentions
  Hosted = {}
  Authored = {1}
  CsvRow <- MCCsvRow
  MaxRuleActs = 3
  MaxToasts = 2
  Width = 2
INVARIANTS
  TypesOK
  ReadsAgree
  ListComplete
  NeverStuck
  EndMeansSeen
  GestureOnce
  SpinnerExact
  CacheFresh
  NoHalfImport
  FormsAccepted
  BlocksComplete
CHECK_DEADLOCK FALSE
