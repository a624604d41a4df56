-------------------------- MODULE MCSubmissionsList --------------------------
(***************************************************************************)
(* One client, two outcomes, and more submissions than a page holds.       *)
(***************************************************************************)
EXTENDS SubmissionsListProperties

=============================================================================
