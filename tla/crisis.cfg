SPECIFICATION FairSpec
CONSTANTS
  NoPod = NoPod
  Pods = {p1, p2}
  Levels = {"none", "watch", "critical"}
  Policy = "warning"
  Cooldown = 2
  LockTtl = 1
  Faults = {"refuse", "answer", "read", "lock", "store", "crash", "slow"}
  MaxFaults = 1
  MaxShifts = 2
INVARIANTS OneInSection RecordIsTrue
PROPERTIES CooldownKept LevelSettles
