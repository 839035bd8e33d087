SPECIFICATION Spec
CONSTANTS
  Activities = {1, 2}
  MaxRows = 2
  MaxEnrolled = 1
  MaxStock = 1
  MaxPolls = 1
  MaxCalls = 2
  Catalogue <- SevenRows
  Shuffles <- EitherWay
  NaN = NaN
  Regions = {"a", "b"}
  PageSize = 1
  RefineRows = 6
  Banners = 2
  MaxPage = 8
  Tours = {"list", "home"}
  MaxOwned = 2
  MaxBoardLoads = 2
  MaxMutations = 2
  Provinces <- ThreeProvinces
  Municipal = {"hongkong"}
  Cities <- TwoCities
  Suffixes = {"city", "province", "zhou"}
  CountryMap <- Country
  MapOf <- ThreeMaps
  Remote <- LeftOut
  FallbackHeat <- Heats
  Hash <- Hashes
  Places <- Locations
  MaxHeat = 1
  MaxOnMap = 3
INVARIANTS PagesTypeOK ShownAsAddressed QueuingIsPolled PaidWasPaid ReminderTold
INVARIANTS ListMatchesAddress NothingOutOfReach DrawnMapRegistered SavesItsOwn CountedIsListed
PROPERTIES PublishedStays
