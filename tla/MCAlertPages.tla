---------------------------- MODULE MCAlertPages ----------------------------
(***************************************************************************)
(* Two alerts and their inventory; an operator changes the rows of one.    *)
(***************************************************************************)
EXTENDS AlertPagesProperties

MCAlerts  == {1, 2}
MCTouched == {1}
MCRemovals == {{"validation"}, {"alert", "result"}}

=============================================================================
