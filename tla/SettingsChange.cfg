SPECIFICATION AllSpec
CONSTANTS
    Runs = {r1, r2, r3}
    SchemaOf <- TwoVersions
    Seconds = 1
    MaxRuns = 4
    Exporters = {e1, e2}
    Pids = {p1, p2}
INVARIANT SettingsAreNoRegression
