SPECIFICATION Spec
CONSTANTS
    loop = loop  admin = admin  client = client  start = start
    Shards = {1, 2}
    Seed <- MCTwo
    Procs = {loop, admin}
    Ops <- MCOps
    MaxPackages = 1
    ShardIds = 4
    LocalIds = 2
    MaxFaults = 0
    MaxStops = 0
PROPERTIES SealedForever
