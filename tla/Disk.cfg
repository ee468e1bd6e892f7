SPECIFICATION Spec
CONSTANTS
    MEM_MIN_MB = 8
    MEM_DEFAULT_CAP_MB = 4096
    MEM_PARTS = 8
    SCALING_FLOOR_MB = 32
    DISK_MIN_MB = 3
    DISK_BLOCK_MB = 3
    DISK_MAX_TOTAL_WRITE_MB = 12
    Runs = {r1, r2}
    Pids = {p1, p2}
    RepeatCounts = {1, 2}
    Requested = 4
    JobLeast = 1
    Capacity = 8
    MaxJobWrites = 1
SYMMETRY Symmetry
CONSTRAINT RepeatsAlone
INVARIANTS
    HeadroomKept
    NothingIsLeftBehind
    OkWroteEverything
PROPERTIES
    FilesAreTheirOwners
