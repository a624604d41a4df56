------------------------------ MODULE MCBridge ------------------------------
(***************************************************************************)
(* A good event, two of one identity with different content, and a message *)
(* without a usable envelope.                                              *)
(***************************************************************************)
EXTENDS BridgeProperties

MCMessages == {"good", "first", "second", "bad"}
MCUsable   == {"good", "first", "second"}

MCRecordOf ==
  [m \in MCUsable |->
     IF m = "good" THEN [event |-> "e1", body |-> "x"] ELSE [event |-> "e2", body |-> m]]

\* For liveness: without the message that cannot even be posted.
MCFewMessages == MCUsable

=============================================================================
