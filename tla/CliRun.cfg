SPECIFICATION FairAll
CONSTANTS
    Subjects = {"main"}
    Machines <- Sound
    Counts = {3}
    Room = 3
    MaxKeys = 0
    Invocations <- SomeInvocations
    Menu <- SomeChoices
INVARIANTS
    ExitTellsTheWorst
    TypoCostsNothing
    ReportsLoadNothing
PROPERTIES
    MainReturns
