SPECIFICATION Spec
CONSTANTS
  Clients = {alice, bob}
  Pods = {pod}
  Pages <- AllPages
  WindowPages = 1
  MaxEntries = 3
  Concurrency = 1
  PostsTtl = 1
  EmptyTtl = 1
  ContextTtl = 1
  ClientTtl = 1
  TimeoutTtl = 1
  QueryTimeout = 1
  FetchTimeout = 0
  MaxClock = 8
INVARIANT CachesForget
