\* Three processes of one machine, one crash, one reboot, pids given again.
CONSTANTS
  p1 = p1
  p2 = p2
  p3 = p3
  here = here
  there = there
  Procs = {p1, p2, p3}
  Hosts = {here}
  HostOf <- OneHost
  Inodes = {i1, i2, i3}
  Nonces = {n1, n2, n3, n4, n5, n6, n7}
  NoEntry = NoEntry
  NoOwner = NoOwner
  BootKnown = TRUE
  PidReuse = TRUE
  MaxCrashes = 1
  MaxBoots = 1
SPECIFICATION Spec
SYMMETRY FullSymmetry
INVARIANTS TypeOK MutualExclusion LeaseIntact RecoveryCheckHolds
CHECK_DEADLOCK FALSE
