SPECIFICATION StSpec
CONSTANTS
  alice = alice
  bob = bob
  own1 = own1
  own2 = own2
  shared = shared
  h1 = h1
  h2 = h2
  Handler = {h1, h2}
  Owners <- MCOwners
  Row <- MCRow
  Global = Global
  ScopeOf <- MCScopeOf
  KeyOf <- MCKeyOf
  RankOf <- MCRankOf
  PartOf <- MCPartOf
  Parts = 2
  Lapsing = {own2}
  NoRow = NoRow
  MaxVersion = 2
  May <- MCMay
  Asking = {alice}
  Faults = {"db"}
INVARIANTS PublishedUpToDate
PROPERTIES SuccessorOfBase
