SPECIFICATION Spec
CONSTANTS
  t1 = t1
  t2 = t2
  Tabs = {t1, t2}
  Scenarios <- BothScenarios
  MaxId = 2
  PageSize = 2
  MaxLoads = 2
  MaxFailed = 1
  Emails = {"email"}
  Avatars = {"image"}
  Cities = {"city"}
  NoValue = ""
  Trips <- TripsOfTabs
  Activities = {1, 2}
  Scores <- LowAndHigh
  NoScore = NoScore
  Callers = {c1}
  c1 = c1
  NoCall = NoCall
  Asked <- TwoLists
  Preferred = {1}
  Common <- NotByScore
INVARIANTS CopiesTypeOK TwoFailuresToForget BadgeSettles LastSettingKept RankedAsScored
PROPERTIES ReadStaysRead
