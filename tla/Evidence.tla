------------------------------ MODULE Evidence ------------------------------
(***************************************************************************)
(* The readers of an alert's evidence (GET /v1/alerts/{id}, GET /v1/alerts) *)
(* over the tables.  Compose and ComposeList read each artifact by a query *)
(* of its own, outside any transaction, while the worker raises alerts and *)
(* an operator changes rows behind the platform's back.                    *)
(***************************************************************************)
EXTENDS Integers, FiniteSets

CONSTANTS
  Alerts,     \* the alerts' ids, each of a submission of its own
  Touched,    \* those whose rows an operator may change (bound)
  Removals,   \* what one transaction of his deletes of an alert (bound)
  MaxWrites   \* his changes (bound)

ASSUME EvidenceAssumption ==
  Alerts \subseteq Nat \ {0} /\ Touched \subseteq Alerts /\ MaxWrites \in Nat

VARIABLES
  rows,    \* of each alert, the artifacts with a row in the tables
  raw,     \* its stored raw event: genuine, or changed in content or identity
  due,     \* the alerts whose transaction has not committed yet
  writes,  \* changes by the operator so far
  req      \* the request the handler works on

db == <<rows, raw, due, writes>>

Artifacts == {"submission", "validation", "normalized", "definition", "result", "alert"}

\* Who refers to whom: a row goes only when no row refers to it.
References ==
  {<<"validation", "submission">>, <<"normalized", "submission">>,
   <<"result", "normalized">>, <<"result", "definition">>, <<"alert", "result">>}

\* The page that lists all alerts, where the others show one.
Inventory == 0
Pages     == Alerts \cup {Inventory}

-----------------------------------------------------------------------------
(* The tables. *)

\* The worker commits the alert; what it is about is there already.
Raise(a) ==
  /\ a \in due
  /\ due'  = due \ {a}
  /\ rows' = [rows EXCEPT ![a] = @ \cup {"alert"}]
  /\ UNCHANGED <<raw, writes, req>>

Operate(a) ==
  /\ a \in Touched /\ writes < MaxWrites
  /\ writes' = writes + 1

\* The raw event is replaced, with or without the identity its key derives from.
Tamper(a, kind) ==
  /\ Operate(a)
  /\ "submission" \in rows[a] /\ raw[a] = "genuine"
  /\ raw' = [raw EXCEPT ![a] = kind]
  /\ UNCHANGED <<rows, due, req>>

\* The genuine one is put back; a request under way remembers (history).
Repair(a) ==
  /\ Operate(a)
  /\ "submission" \in rows[a] /\ raw[a] # "genuine"
  /\ raw' = [raw EXCEPT ![a] = "genuine"]
  /\ req' = IF req.page = a THEN [req EXCEPT !.repaired = TRUE] ELSE req
  /\ UNCHANGED <<rows, due>>

\* In one transaction; a definition, which other results share, stays.
Delete(a, gone) ==
  /\ Operate(a) /\ a \notin due
  /\ gone # {} /\ gone \subseteq rows[a] \ {"definition"}
  /\ \A ref \in References : ref[2] \in gone => ref[1] \notin rows[a] \ gone
  /\ rows' = [rows EXCEPT ![a] = @ \ gone]
  /\ UNCHANGED <<raw, due, req>>

-----------------------------------------------------------------------------
(* The handlers. *)

\* What the join from an alert to its submission needs.
Chain == {"alert", "result", "normalized", "submission"}

Verdicts == {"intact", "alert", "source_key", "raw_event_sha256"}

\* One query, and the first link that fails.
VerifyAlert(a) ==
  CASE ~(Chain \subseteq rows[a]) -> "alert"
    [] raw[a] = "identity"        -> "source_key"
    [] raw[a] = "content"         -> "raw_event_sha256"
    [] OTHER                      -> "intact"

\* No request; of one, what it has read and the verdict on each alert so far.
Idle == [page |-> -1, step |-> "idle", found |-> {}, raw |-> "genuine",
         chain |-> [a \in Alerts |-> "unlisted"], repaired |-> FALSE]

\* Compose begins with Locate, ComposeList with alerting.List.
RequestOf(page) ==
  [Idle EXCEPT !.page = page, !.step = IF page = Inventory THEN "list" ELSE "locate"]

Locate ==
  /\ req.step = "locate"
  /\ req' = [req EXCEPT !.step = IF Chain \subseteq rows[req.page] THEN "submission" ELSE "absent"]
  /\ UNCHANGED db

\* Mutation of Following: the chain is verified before the artifacts are read.
FollowingVerifyFirst ==
  [submission |-> "verify", verify |-> "validation", validation |-> "normalized",
   normalized |-> "result", result |-> "definition", definition |-> "alert",
   alert |-> "answer"]

\* Mutation of Following: the validation record is not asked for.
FollowingNoValidation ==
  [submission |-> "normalized", normalized |-> "result", result |-> "definition",
   definition |-> "alert", alert |-> "verify", verify |-> "answer"]

\* The queries of Compose, in order.
Following ==
  [submission |-> "validation", validation |-> "normalized", normalized |-> "result",
   result |-> "definition", definition |-> "alert", alert |-> "verify", verify |-> "answer"]

\* Reads one artifact; one without a row is unavailable, no error.  The
\* definition's id comes from the result, which is not read without it.
Read(artifact) ==
  /\ req.step = artifact
  /\ req' = [req EXCEPT
       !.found = IF artifact \in rows[req.page] THEN @ \cup {artifact} ELSE @,
       !.raw   = IF artifact = "submission" /\ artifact \in rows[req.page]
                 THEN raw[req.page] ELSE @,
       !.step  = IF artifact = "result" /\ artifact \notin rows[req.page]
                 THEN "alert" ELSE Following[artifact]]
  /\ UNCHANGED db

Verify ==
  /\ req.step = "verify" /\ req.page # Inventory
  /\ req' = [req EXCEPT !.chain[req.page] = VerifyAlert(req.page),
                        !.step = Following["verify"]]
  /\ UNCHANGED db

List ==
  /\ req.step = "list"
  /\ req' = [req EXCEPT !.step = "verify", !.chain =
       [a \in Alerts |-> IF "alert" \in rows[a] THEN "unverified" ELSE "unlisted"]]
  /\ UNCHANGED db

Unseen == {a \in Alerts : req.chain[a] = "unverified"}

\* In the order of their ids.
VerifyNext ==
  /\ req.step = "verify" /\ req.page = Inventory
  /\ \/ /\ Unseen = {}
        /\ req' = [req EXCEPT !.step = "answer"]
     \/ \E a \in Unseen :
          /\ \A b \in Unseen : a <= b
          /\ req' = [req EXCEPT !.chain[a] = VerifyAlert(a)]
  /\ UNCHANGED db

Handle ==
  \/ Locate \/ Verify \/ List \/ VerifyNext
  \/ \E artifact \in Artifacts : Read(artifact)

Change ==
  \E a \in Alerts :
    \/ Raise(a) \/ Repair(a)
    \/ \E kind \in {"content", "identity"} : Tamper(a, kind)
    \/ \E gone \in Removals : Delete(a, gone)

=============================================================================
