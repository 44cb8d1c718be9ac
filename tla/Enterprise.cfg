SPECIFICATION EnterpriseSpec
CONSTANTS
  s1 = s1  s2 = s2  k1 = k1  i1 = i1  i2 = i2
  h1 = h1  a1 = a1  a2 = a2  l1 = l1
  Stores = {s1, s2}
  Keys = {k1}
  StoreOf <- StoreOfOneKey
  Installations = {i1, i2}
  First = i1
  Runs = {h1}
  Actions = {a1, a2, l1}
  Pages = 2
  LegacyAction <- TwoPages
  LegacyKey <- TwoPageKeys
  MigratedStores = {s2}
  NoOne = NoOne
  Changes <- SomeChanges
  MaxChores = 3

  soup = soup  rice = rice  plain = plain  special = special  east = east
  CardRuns = {r1, r2}
  Workers = {w1, w2}
  Sheets <- MCSheets
  Standard = {plain}
  Nothing = Nothing
  MaxAttempts = 2
  MaxTroubles = 1
CONSTRAINT Few
SYMMETRY Interchangeable
INVARIANTS
  NotReplayed
  CardsServe
  CandidatesAccounted
PROPERTY ReachOnlyNarrows
CHECK_DEADLOCK FALSE
