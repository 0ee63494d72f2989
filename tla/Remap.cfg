CONSTANTS
    home = home
    work = work
    photos = photos
    link = link
    Procs = {1, 2, 3, 4}
    Locals = {home, work}
    Paths = {photos}
    Urls = {link}
    MaxIds = 3
    Unmapped = Unmapped
    Targets <- MCTargets
    Scripts <- MCRemap
SPECIFICATION Spec
INVARIANTS FirstStartReconciles
CHECK_DEADLOCK FALSE
