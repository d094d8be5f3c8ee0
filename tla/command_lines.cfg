SPECIFICATION Spec
CONSTANTS
  Main = "main"
  Watcher = "watcher"
  Blank = " "
  End = "nl"
  Colon = ":"
  Nul = "nul"
  Junk = "junk"
  Words = {"put", "get", "del", "k", "v", "host", "port", "host2", "port2"}
  Lines <- SomeLines
  Addresses <- TwoAddresses
INVARIANT RequestAsTyped
CHECK_DEADLOCK FALSE
