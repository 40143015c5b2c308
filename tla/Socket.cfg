SPECIFICATION SocketSpec
CONSTANTS
  t1 = t1
  t2 = t2
  f1 = f1
  f2 = f2
  Callers <- MCCallers
  Fds <- MCFds
  Families <- MCFamilies
  Builds <- MCBuilds
  Configs <- MCConfigs
  Args <- MCArgs
  Addrs <- MCAddrs
  Modulus = 32
  MaxTtl = 7
  DefaultTtl = 4
  MaxBuf = 6
  MinBuf = 5
SYMMETRY Symmetry
INVARIANTS SocketTypeOK OwnsDescriptor BuffersAsConfigured AddressesAgree SettingsKept PktinfoPaired
PROPERTY ClosesOnlyItsOwn
