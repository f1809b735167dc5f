SPECIFICATION Spec
CONSTANTS
  j1 = j1
  j2 = j2
  j3 = j3
  Jobs <- TwoJobs
  Slots = 2
  CfgLimit = 2
  SettingsLimit = 2
  ShutdownWorks = TRUE
  MaxRequests = 0
  MaxReleases = 0
  MaxFaults = 0
  MaxLocalJobs = 2
  u1 = u1
  u2 = u2
  Updaters <- OneUpdater
PROPERTY RebootSparesEncodes
