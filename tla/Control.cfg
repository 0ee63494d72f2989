CONSTANTS
    home = home
    work = work
    photos = photos
    link = link
    Procs = {1, 2, 3, 4}
    Locals = {home, work}
    Paths = {photos}
    Urls = {link}
    MaxIds = 3
    Unmapped = Unmapped
    Targets <- MCTargets
    Scripts <- MCScripts
SPECIFICATION FairSpec
INVARIANTS TypeOK OneDaemon SocketIsTheDaemons FindsTheDaemon LoopIsReconciled ServesTheMapping EmblemsCatchUp
PROPERTIES ShutdownEnds
CHECK_DEADLOCK FALSE
