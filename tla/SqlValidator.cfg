\* Statements of up to two SELECTs and two tables, alone or in pairs.
CONSTANTS
    Drafts <- SomeDrafts
    Metadatas <- SomeMetadata
    None = None
SPECIFICATION Spec
INVARIANTS TypeOK  HarmlessPasses PassedIsVerified TablesComplete
CHECK_DEADLOCK FALSE
