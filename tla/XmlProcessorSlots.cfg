CONSTANTS
    None = None
    proc = proc
    script = script
    ask = ask
    form = form
    dc1 = dc1
    dc2 = dc2
    dc3 = dc3
    folder = folder
    ipc = ipc
    sock = sock
    web = web
    Conn = {folder, ipc, sock, web}
    Request <- MixedRequests
    ConnOf <- MixedConnOf
    Interface <- MixedInterface
    Fid <- MixedFid
    Parent <- MixedParent
    Volatile = {web}
    Swallowing = {folder}
CHECK_DEADLOCK FALSE
CONSTRAINT Apart
SPECIFICATION FairSpec
INVARIANTS
    SlotsAreSound
PROPERTIES
    StartsInOrder
    EveryRequestAnswered
