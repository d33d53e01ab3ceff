SPECIFICATION FairOrgSpec
CONSTANTS
  AtOnce = 2
  Names = {m, n}
  Quotas = {1, 2}
  Begun = {1}
  MaxRequests = 5
  MaxFaults = 1
INVARIANTS NothingLingers WithinQuota GrantsOfServer
PROPERTIES Provisioned
CHECK_DEADLOCK FALSE
