SPECIFICATION Spec
CONSTANTS
    Tasks = {t1}
    Claims = {c1, c2}
    MaxRequeues = 2
INVARIANTS
    HidesOnlyUnannounced
PROPERTIES
    QueuedIsSeen
