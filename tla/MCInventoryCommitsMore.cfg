\* One machine that reports and is synchronized, and another one that may be
\* synchronized; a change of the source, and an archiving, cleanup, crash or
\* failed request.
SPECIFICATION Spec
CONSTANTS
  m1 = m1
  m2 = m2
  a = a
  b = b
  Machines <- MCMachines
  Items <- MCItems
  Contents <- MCContents
  Reported <- MCReported
  Initially <- MCInitially
  Reporters = {r1}
  Syncer = sy
  None = None
  MaxChanges = 1
  MaxUpsets = 1
\* The administrators and the devices may stop.
CHECK_DEADLOCK FALSE
INVARIANTS TypeOK LastKept InventoryInv EndPosted VersionsPosted
