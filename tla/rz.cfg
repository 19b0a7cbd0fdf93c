SPECIFICATION FairSpec
CONSTANTS
  MaxVcpu = 3
  BootVcpu = 1
  MaxReconnect = 0
  Client = {c1, c2}
  Cid = {c1, c2}
  Chan = {ch1, ch2, ch3, ch4, ch5, ch6}
  NoChan = NoChan
  NoDev = NoDev
  NoEntry = NoEntry
  Unit = 2
  DefaultVcpu = 1
  DefaultMem = 1
  MaxMem = 3
  Settings <- AnySettings
CHECK_DEADLOCK FALSE
INVARIANTS TypeOK TidsArePresent GuestAgrees OnlineHasThread CurrentIsActual VcpusSuffice
PROPERTIES ImplementsVmm ImplementsService HotplugEnds OperationEnds
