----------------------------- MODULE ApiClient -----------------------------
(***************************************************************************)
(* The browser's typed fetch layer: what becomes of a reply, step by step, *)
(* from the transport to the kind of error a page distinguishes.           *)
(***************************************************************************)
EXTENDS Naturals

\* A reply: whether one arrived, its status, whether its body is JSON and of
\* the shape the contract describes.
Reply(arrived, status, json, shape) ==
  [arrived |-> arrived, status |-> status, json |-> json, shape |-> shape]

\* The kind of a reply, ok for a body that is handed on.
apiGet(reply) ==
  CASE ~reply.arrived                  -> "network-error"
    [] reply.status \in {401, 403}     -> "unauthorized"
    [] reply.status = 404              -> "not-found"
    [] reply.status >= 500             -> "server-error"
    [] reply.status \notin 200..299    -> "client-error"
    [] ~reply.json                     -> "malformed-response"
    [] OTHER                           -> "ok"

\* A body of another shape is as malformed as one that is no JSON.
validated(reply) ==
  IF apiGet(reply) = "ok" /\ ~reply.shape THEN "malformed-response" ELSE apiGet(reply)

\* The page of one alert tells absence from failure, the lists do not.
toAlertFetchErrorKind(kind) ==
  IF kind \in {"unauthorized", "not-found"} THEN kind ELSE "unavailable"

toListFetchErrorKind(kind) ==
  IF kind = "unauthorized" THEN "unauthorized" ELSE "unavailable"

\* The fetch functions of the pages.
fetchAlertInvestigation(reply) == toAlertFetchErrorKind(validated(reply))

fetchAlertInventory(reply) == toListFetchErrorKind(validated(reply))

fetchSubmissions(reply) == toListFetchErrorKind(validated(reply))

Ok       == Reply(TRUE, 200, TRUE, TRUE)
NotFound == Reply(TRUE, 404, FALSE, FALSE)

\* What a page may get besides the answer: no connection, a denial, an internal
\* error, and the body of something that is not the platform.
Faults ==
  {Reply(FALSE, 0, FALSE, FALSE), Reply(TRUE, 401, FALSE, FALSE),
   Reply(TRUE, 403, FALSE, FALSE), Reply(TRUE, 500, FALSE, FALSE),
   Reply(TRUE, 200, FALSE, FALSE), Reply(TRUE, 200, TRUE, FALSE)}

=============================================================================
