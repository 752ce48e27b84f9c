----------------------- MODULE MCStructuredPublication -----------------------
(* StructuredPublication for TLC: two workers, two schemas and two jobs,   *)
(* so that a job is superseded, retried and taken over.                    *)
EXTENDS StructuredPublication
=============================================================================
