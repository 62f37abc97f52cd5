SPECIFICATION MCSpec
CONSTANTS
  Proxies = {"stable", "devbin", "appbin"}
  Pinned = {"pkg@1"}
  SafeNames = {"n1"}
  Name = {"n1", "-s"}
  Url = {"https:u"}
  Xcg <- TheXcg
  Link = "stable"
  Target = "appbin"
  Binaries = {"appbin", "devbin"}
  Given <- TheGiven
  InitialFiles <- TheFiles
  OptionLike = {"-s", "--", "--wrap", "--url", "--name", "--from", "--scope", "-y", "-e"}
  MaxOps = 3
  MaxEdits = 1
  MaxFaults = 1
  Server = {"n1"}
  Home = "stable"
  Foreign <- TheForeign
  FirstServers <- TheServers
  MaxWrites = 3
  MaxUpdates = 2
  MaxIoFaults = 1
INVARIANTS UserServersKept BackupFromBefore RepairHeals
CHECK_DEADLOCK FALSE
