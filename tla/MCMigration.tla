---------------------------- MODULE MCMigration ----------------------------
EXTENDS SchemaMigration, TLC

CONSTANTS old, new, newer

\* A process of the first schema version beside two of the second.
TwoVersions == (old :> 1) @@ (new :> 2) @@ (newer :> 2)
TwoEach == <<2, 2>>
=============================================================================
