SPECIFICATION AllSpec
CONSTANTS
    Subjects = {"checkup", "screen"}
    Machines <- SomeMachines
    Counts = {3, 12}
    Room = 3
    MaxKeys = 3
    Invocations <- Unsaid
    Menu <- SomeChoices
INVARIANTS
    NoBadNewsIsLost
    OwnLoadIsNotBlamed
    VerdictIsTheWorst
    AnswersAreTheUsers
