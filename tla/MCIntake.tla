------------------------------ MODULE MCIntake ------------------------------
(***************************************************************************)
(* Two concurrent deliveries over events chosen to collide in every way    *)
(* they can: one event twice, one identity with two contents, the same     *)
(* undecodable bytes in both families.                                     *)
(***************************************************************************)
EXTENDS IntakeProperties

Body(id, stage, event, rest) ==
  [auditID |-> id, stage |-> stage, eventID |-> event, rest |-> rest]
K8s(b) == [family |-> "kubernetes", body |-> b]
Trail(b) == [family |-> "aws_cloudtrail", body |-> b]

Audit      == K8s(Body("a1", "s1", "", "x"))
AuditOther == K8s(Body("a1", "s1", "", "y"))
Broken     == K8s(Body("", "", "", "z"))
TrailBroken == Trail(Body("", "", "", "z"))
Record     == Trail(Body("", "", "e1", "x"))

MCBatches ==
  {<<Audit, AuditOther>>, <<AuditOther, Broken>>, <<TrailBroken>>, <<Record>>}

MCSymmetry == Permutations(Requests)

=============================================================================
