SPECIFICATION Spec
CONSTANTS
  t1 = t1
  t2 = t2
  buyer = buyer
  seller = seller
  NoUser = NoUser
  Malformed = Malformed
  Tabs = {t1, t2}
  Visits <- VisitedPages
  Users = {buyer, seller}
  Merchants = {seller}
  MaxTokens = 2
  MaxExpired = 1
  MaxRequests = 2
INVARIANTS SessionTypeOK SessionsCoherent BlankOnlyWhileRestoring
PROPERTIES StorageAndTabsTogether SessionReturnsOnlyByLogin LoginLandsInside
