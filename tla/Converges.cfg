SPECIFICATION FairSpec
CONSTANTS
  j1 = j1
  j2 = j2
  j3 = j3
  Jobs <- TwoJobs
  Slots = 2
  CfgLimit = 2
  SettingsLimit = 2
  ShutdownWorks = TRUE
  MaxRequests = 0
  MaxReleases = 1
  MaxFaults = 1
  MaxLocalJobs = 2
  u1 = u1
  u2 = u2
  Updaters <- OneUpdater
PROPERTIES LimitLeadsToReboot UpdateArrives
