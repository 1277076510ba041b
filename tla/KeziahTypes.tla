---------------------------- MODULE KeziahTypes ----------------------------
(***************************************************************************)
(* The job and batch states of keziah/types.py, shared by every module.     *)
(*                                                                         *)
(* Two states stand for "no row": "absent" is a job id nobody has used yet, *)
(* "deleted" is one whose row an abort or the retention sweep removed (job  *)
(* ids are fresh UUIDs, so a deleted id never comes back).                  *)
(***************************************************************************)
EXTENDS Integers, FiniteSets

\* TERMINAL_STATES and INCOMPLETE_STATES of types.py.
TerminalStates   == {"succeeded", "failed", "dead_letter", "cancelled"}
IncompleteStates == {"staged", "queued", "leased", "running", "retry_wait"}
NoRowStates      == {"absent", "deleted"}
JobStates        == TerminalStates \cup IncompleteStates \cup NoRowStates

\* BATCH_STAGING, BATCH_ACTIVE, BATCH_ABORTED; "absent" is an unused batch id.
BatchStatuses == {"absent", "staging", "active", "aborted"}

HeldStates == {"leased", "running"}
=============================================================================
