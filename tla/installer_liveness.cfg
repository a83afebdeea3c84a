SPECIFICATION FairSpec
CONSTANTS
    named = named
    sn1 = sn1
    a1 = a1
    b1 = b1
    b2 = b2
    Machines = {nameless}
    SNs = {sn1, sn2}
    MACs = {a1, b1, b2}
    Networks <- MCNetworks
    Dmi <- MCDmi
    Nics <- MCNics
    NoSN = NoSN
    NoTask = NoTask
    MaxTasks = 2
    MaxLosses = 2
    MaxResets = 1
INVARIANTS
    InstalledOncePerTask
PROPERTIES
    EveryBootSettles
CHECK_DEADLOCK FALSE
