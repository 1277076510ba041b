SPECIFICATION Spec
CONSTANTS
    old = old
    new = new
    newer = newer
    Openers = {old, new, newer}
    Target <- TwoVersions
    Statements <- TwoEach
    MaxInterruptions = 2
INVARIANTS
    SchemaIsThere
    TornOnlyByInterruption
PROPERTIES
    VersionNeverFalls
    OpensUnlessTorn
