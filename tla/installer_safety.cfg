SPECIFICATION Spec
CONSTANTS
    named = named
    sn1 = sn1
    a1 = a1
    b1 = b1
    b2 = b2
    Machines = {named, nameless}
    SNs = {sn1, sn2}
    MACs = {a1, b1, b2}
    Networks <- MCNetworks
    Dmi <- MCDmi
    Nics <- MCNics
    NoSN = NoSN
    NoTask = NoTask
    MaxTasks = 2
    MaxLosses = 1
    MaxResets = 0
INVARIANTS
    TypeOK
    InstalledOncePerTask
    CompletesItsInstallation
    HostnameFromItsTask
    
    StatusFollowsMachine
CHECK_DEADLOCK FALSE
