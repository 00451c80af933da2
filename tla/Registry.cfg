SPECIFICATION FairSpec
CONSTANTS
    loop = loop  admin = admin  client = client  start = start
    Shards = {1, 2, 3}
    Seed <- MCThree
    Procs = {loop, admin, client, start}
    Ops <- MCOps
    MaxPackages = 1
    ShardIds = 4
    LocalIds = 2
    MaxFaults = 1
    MaxStops = 1
INVARIANTS OneActive SealedIsReadOnly AckedFound
PROPERTIES SealedDrains ActiveRestored FullSealed
