\* Two rows in chunks of one, three jobs, two ticks of which one may die.
SPECIFICATION ImportSpec
CONSTANTS
    j1 = j1
    j2 = j2
    j3 = j3
    Job = {j1, j2, j3}
    Worker = {w1, w2}
    MaxAttempts <- Attempts
    Handled = {j1, j2, j3}
    MaxCrash = 1
    NoJob = NoJob
    Rows = 2
    Chunk = 1
    Parent <- Parents
    allocations = allocations
    projects = projects
    manyProjects = manyProjects
    File = {allocations, projects, manyProjects}
    Large = {manyProjects}
    Template <- Templates
    Mappings <- FileMappings
    Contended = {1}
    MaxVersion = 1
INVARIANTS RowsAppliedOnce CancellationHolds NoBatchForgotten
PROPERTIES NothingOverwritten BatchesSettle
CHECK_DEADLOCK FALSE
