\* Two machines share the folder, one death, one reboot; three requests, two projects; one launch.
CONSTANTS
  p1 = p1
  p2 = p2
  p3 = p3
  here = here
  there = there
  Procs = {p1, p2, p3}
  Hosts = {here, there}
  HostOf <- TwoHosts
  Inodes = {i1, i2}
  Nonces = {n1, n2, n3, n4, n5, n6, n7}
  NoEntry = NoEntry
  NoOwner = NoOwner
  BootKnown = TRUE
  PidReuse = FALSE
  MaxCrashes = 1
  MaxBoots = 1
  MaxEpochs = 2
  MaxArrivals = 4
  MaxFailures = 1
SPECIFICATION Progress
INVARIANTS Types RunsOnOpenProject
PROPERTIES OnlyOwnerOrRecovererRemoves ImplementsLease StaleLockRecovered NothingHangs LaunchSafe
CHECK_DEADLOCK FALSE
