SPECIFICATION Spec
CONSTANTS
  j1 = j1
  j2 = j2
  j3 = j3
  Jobs <- TwoJobs
  Slots = 2
  CfgLimit = 1
  SettingsLimit = 1
  ShutdownWorks = TRUE
  MaxRequests = 1
  MaxReleases = 1
  MaxFaults = 1
  MaxLocalJobs = 2
  u1 = u1
  u2 = u2
  Updaters <- TwoUpdaters
INVARIANTS TasksBounded NoJobMidSwap
PROPERTIES RebootAcceptedIdle RebootHasCause
SYMMETRY JobSymmetry
