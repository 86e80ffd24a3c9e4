SPECIFICATION FairSpec
CONSTANTS
  telnet = telnet
  web = web
  handheld = handheld
  Terminals = {telnet, web}
  Phones = {}
  Origins = {"scanner"}
  NoOrigin = "unknown"
  Origin <- MCOrigin
  Exempt = {}
  Required = {web}
  BackupCodes = {backup}
  Wrong = wrong
  Nothing = nothing
  MaxFailures = 2
  LockFor = 2
  LockTimes <- MCLockTimes
  Window = 1
  PendingTTL = 1
  SessionTTL = 1
  MaxLocks = 2
PROPERTIES LockoutsEnd
