SPECIFICATION FairSpec
CONSTANTS
  MaxVcpu = 3
  BootVcpu = 1
  MaxReconnect = 1
  Client = {c1, c2}
  Cid = {c1, c2}
  Chan = {ch1, ch2, ch3, ch4, ch5, ch6}
  NoChan = NoChan
  NoDev = NoDev
  NoEntry = NoEntry
  Unit = 2
  DefaultVcpu = 1
  DefaultMem = 1
  MaxMem = 4
  Settings <- RaceSettings
CHECK_DEADLOCK FALSE
PROPERTY RequestAnswered
