---------------------------- MODULE SourceEvents ----------------------------
(***************************************************************************)
(* Raw source events of the two families, as far as validation,            *)
(* normalization and detection look into them.  A field that only has to   *)
(* be there is a BOOLEAN; one that is compared keeps its value.            *)
(***************************************************************************)
EXTENDS Integers, FiniteSets

Outcomes  == {"valid", "invalid", "incomplete", "unsupported"}
Scenarios == {"scenario-1", "scenario-2", "scenario-3",
              "scenario-4", "scenario-5", "scenario-6"}

\* A malformed field either has the wrong JSON type, and the rest is decoded,
\* or it decodes itself (a timestamp) and ends the decoding where it stands:
\* "early" when that is before the markers of the source form.
Malformations == {"none", "field", "early"}

\* The parts of a request object: a Pod's specification, or a binding's role.
NoObject ==
  [kind |-> "", spec |-> FALSE, fits |-> TRUE, risks |-> {},
   roleKind |-> "", roleName |-> "", named |-> FALSE]

\* What makes a Pod's specification risky, in a container or the Pod itself.
Risks == {"privileged", "privilegedInit", "hostNetwork", "hostPID", "hostIPC", "hostPath"}

RequestObjects ==
  [kind : STRING, spec : BOOLEAN, fits : BOOLEAN, risks : SUBSET Risks,
   roleKind : STRING, roleName : STRING, named : BOOLEAN]

AuditEvents ==
  [family : {"kubernetes"}, attributable : BOOLEAN, malformed : Malformations,
   identity : BOOLEAN, time : BOOLEAN, subject : BOOLEAN,
   verb : STRING, uri : BOOLEAN, query : SUBSET {"stdin", "tty"},
   resource : STRING, subresource : STRING, apiGroup : STRING, named : BOOLEAN,
   code : Int, object : RequestObjects]

\* A complete Kubernetes audit event that no scenario is about.
PlainAudit ==
  [family |-> "kubernetes", attributable |-> TRUE, malformed |-> "none",
   identity |-> TRUE, time |-> TRUE, subject |-> TRUE,
   verb |-> "get", uri |-> TRUE, query |-> {},
   resource |-> "pods", subresource |-> "", apiGroup |-> "", named |-> TRUE,
   code |-> 200, object |-> NoObject]

\* requestParameters or responseElements: empty (absent or null), an object
\* with some names in it, or JSON that is no object.
NoParams == [form |-> "empty", policy |-> ""]

JSONParams == [form : {"empty", "object", "other"}, policy : STRING]

TrailRecords ==
  [family : {"aws_cloudtrail"}, attributable : BOOLEAN, malformed : Malformations,
   identity : BOOLEAN, time : BOOLEAN, principal : STRING,
   eventName : STRING, eventSource : STRING,
   params : JSONParams, response : JSONParams, error : BOOLEAN]

\* A complete CloudTrail record that no scenario is about.
PlainRecord ==
  [family |-> "aws_cloudtrail", attributable |-> TRUE, malformed |-> "none",
   identity |-> TRUE, time |-> TRUE, principal |-> "arn",
   eventName |-> "GetUser", eventSource |-> "iam.amazonaws.com",
   params |-> [NoParams EXCEPT !.form = "object"],
   response |-> NoParams, error |-> FALSE]

=============================================================================
