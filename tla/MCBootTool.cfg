SPECIFICATION Spec
CONSTANTS
    MaxRun <- MCMaxRun
    normpath <- MCnormpath
    dirname <- MCdirname
    basename <- MCbasename
    split <- MCsplit
    octal <- MCoctal
    Beginnings <- MCBeginnings
    Edits <- MCEdits
CHECK_DEADLOCK FALSE
INVARIANTS
    PartsFound
    RepackReproduces
    RamdiskSurvives
    OnlyCheckedBlocks
PROPERTIES
    PicturesKept
    PacketsDelivered
    TreeUnpacked
