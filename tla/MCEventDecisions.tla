-------------------------- MODULE MCEventDecisions --------------------------
(***************************************************************************)
(* The raw events: every way of filling in what the decisions look at,     *)
(* with at most two risks to a Pod, and defects of form and of the fields  *)
(* that only have to be there one at a time.                               *)
(***************************************************************************)
EXTENDS InvestigationViewProperties

Defects == {"none", "markers", "field", "early", "markersField", "identity", "time"}

WithDefect(ev, d) ==
  [ev EXCEPT
    !.attributable = d \notin {"markers", "markersField"},
    !.malformed = IF d = "markersField" THEN "field" ELSE IF d \in Malformations THEN d ELSE "none",
    !.identity = d # "identity", !.time = d # "time"]

Pods ==
  {[NoObject EXCEPT !.kind = "Pod", !.spec = spec, !.fits = fits, !.risks = risks] :
     spec \in BOOLEAN, fits \in BOOLEAN,
     risks \in {r \in SUBSET Risks : Cardinality(r) <= 2}}

Bindings ==
  {[NoObject EXCEPT !.kind = "ClusterRoleBinding", !.roleKind = kind, !.roleName = name,
                    !.named = named, !.fits = fits] :
     kind \in {"ClusterRole", "Role"}, name \in {"", "cluster-admin", "view"},
     named \in BOOLEAN, fits \in BOOLEAN}

\* A Pod without a specification has no risks and nothing that does not fit.
Objects ==
  {NoObject} \cup Bindings
  \cup {p \in Pods : p.spec \/ (p.fits /\ p.risks = {})}

Targets ==
  {<<"", "", "">>, <<"pods", "", "">>, <<"pods", "exec", "">>, <<"pods", "eviction", "">>,
   <<"clusterrolebindings", "", "rbac.authorization.k8s.io">>,
   <<"clusterrolebindings", "", "other">>, <<"iam.amazonaws.com", "", "">>}

\* Complete in form, but not in content.
Audits ==
  {[PlainAudit EXCEPT !.verb = verb, !.uri = query # {"none"}, !.query = query \ {"none"},
      !.resource = t[1], !.subresource = t[2], !.apiGroup = t[3], !.named = named,
      !.code = code, !.object = object] :
     verb \in {"", "create", "get"},
     query \in {{"none"}} \cup SUBSET {"stdin", "tty"},
     t \in Targets, named \in BOOLEAN, code \in {0, 199, 200, 299, 300}, object \in Objects}

Params ==
  {NoParams, [NoParams EXCEPT !.form = "other"]}
  \cup {[form |-> "object", policy |-> policy] :
           policy \in {"", "AdministratorAccess", "custom"}}

Records ==
  {[PlainRecord EXCEPT !.principal = principal, !.eventName = name, !.eventSource = source,
      !.params = params, !.response = response, !.error = error] :
     principal \in {"", "arn", "userName", "Root"},
     name \in {"", "GetUser", "create", "DeactivateMFADevice", "DeleteVirtualMFADevice",
                "CreateAccessKey", "AttachUserPolicy", "AttachRolePolicy"},
     source \in {"", "iam.amazonaws.com", "ec2.amazonaws.com", "pods"},
     params \in Params, response \in {NoParams, [NoParams EXCEPT !.form = "object"]},
     error \in BOOLEAN}

MCRaw ==
  Audits \cup Records
  \cup {WithDefect(ev, d) : d \in Defects,
        ev \in {PlainAudit, [PlainAudit EXCEPT !.subject = FALSE], PlainRecord}}

=============================================================================
