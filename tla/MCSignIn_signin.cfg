SPECIFICATION Spec
CONSTANTS
  telnet = telnet
  web = web
  handheld = handheld
  Terminals = {telnet, web}
  Phones = {handheld}
  Origins = {"scanner"}
  NoOrigin = "unknown"
  Origin <- MCOrigin
  Exempt = {}
  Required = {web}
  BackupCodes = {backup}
  Wrong = wrong
  Nothing = nothing
  MaxFailures = 2
  LockFor = 1
  LockTimes <- MCLockTimes
  Window = 1
  PendingTTL = 1
  SessionTTL = 1
  MaxLocks = 2
INVARIANTS TypeOK CodesAreSingleUse WrongCodesAllCount RecordedFailuresLock
PROPERTIES GraceIsEarned LockoutsAreNotExtended
