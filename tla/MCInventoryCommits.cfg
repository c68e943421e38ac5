\* One machine that reports and is synchronized, and another one that may be
\* synchronized; a change of the source, and an archiving, cleanup, crash or
\* failed request.
SPECIFICATION FairSpec
CONSTANTS
  m1 = m1
  m2 = m2
  a = a
  b = b
  Machines <- MCMachines
  Items <- MCItems
  Contents <- MCContents
  Reported <- MCReported
  Initially <- MCInitially
  Reporters = {r1}
  Syncer = sy
  None = None
  MaxChanges = 1
  MaxUpsets = 1
INVARIANTS
  CurrentRecorded
  VersionsDiffer
  VersionsPosted
PROPERTIES
  EventsDescribe
  RemovedUnlisted
  Converges
\* The source and the reporter may stop.
CHECK_DEADLOCK FALSE
