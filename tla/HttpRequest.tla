----------------------------- MODULE HttpRequest -----------------------------
(***************************************************************************)
(* The part of nginx 1.25's request machinery that the http modules of     *)
(* this repository call: sending a header and a body, reading the client's *)
(* body, finalizing.  A handler runs to its end inside one event, so each  *)
(* call is an operator, from a request to the set of requests, or of       *)
(* results [rc, req], it may leave behind.                                 *)
(***************************************************************************)
EXTENDS Integers

CONSTANT NULL

NGX_OK == 0
NGX_ERROR == -1
NGX_AGAIN == -2
NGX_DECLINED == -5
NGX_HTTP_OK == 200
NGX_HTTP_SPECIAL_RESPONSE == 300

\* A request: the references held to it; the status and the Content-Length of the
\* header that was sent (0: none yet), and the length of the first body put out
\* (-1: none yet); out: output waits for the socket; error: c->error; its read
\* and write handlers; active: the write event is registered; life: "dying" is
\* terminated and not yet freed, "crashed" is a worker that died.
NewRequest(h) ==
  [head |-> h, count |-> 1, header |-> 0, declared |-> 0, length |-> -1,
   out |-> FALSE, error |-> FALSE, read |-> "block", write |-> "phases",
   active |-> FALSE, life |-> "live"]

Result(rc, r) == [rc |-> rc, req |-> r]

\* ngx_http_send_header: a second header is refused.  A header waits in nginx's
\* buffer for its body, so that only bodies block.
SendHeader(r, status, len) ==
  IF r.header # 0 THEN Result(NGX_ERROR, r)
  ELSE Result(NGX_OK, [r EXCEPT !.header = status, !.declared = len])

\* ngx_http_output_filter: the socket may have no room for a body, and has none
\* while earlier output waits; a failed send marks the connection.
Output(r, len) ==
  LET sent == [r EXCEPT !.length = IF @ = -1 THEN len ELSE @]
      Failed == {Result(NGX_ERROR, [r EXCEPT !.error = TRUE])}
      Blocked == {Result(NGX_AGAIN, [sent EXCEPT !.out = TRUE])}
  IN  CASE r.error -> Failed
        [] ~r.error /\ r.out -> Failed \cup Blocked
        [] OTHER -> Failed \cup Blocked \cup {Result(NGX_OK, sent)}

\* ngx_http_terminate_request; the request is freed when the event is over.
Terminate(r) == [r EXCEPT !.life = "dying"]
Settle(r) == IF r.life = "dying" THEN [r EXCEPT !.count = 0, !.life = "freed"] ELSE r

\* ngx_http_close_request: one reference is released, the last one frees.
Release(r) ==
  [r EXCEPT !.count = @ - 1, !.life = IF r.count = 1 THEN "freed" ELSE @]

\* ngx_http_finalize_request, for what a handler or the output filter returned.
\* Waiting output is left to ngx_http_writer, which finalizes again; otherwise
\* the request is done, and nobody listens to its client any longer.
Done(r, rc) ==
  IF rc = NGX_ERROR \/ r.error THEN Terminate(r)
  ELSE IF r.out THEN [r EXCEPT !.read = "test", !.write = "writer", !.active = TRUE]
  ELSE Release([r EXCEPT !.read = "block", !.write = "none"])

\* ngx_http_special_response_handler: the page for a status.
SpecialResponse(r, status) ==
  LET h == SendHeader(r, status, 0)
  IN  IF h.rc = NGX_ERROR \/ r.head THEN {h} ELSE Output(h.req, 0)

Finalize(r, rc) ==
  CASE r.life = "crashed" -> {r}
    [] r.life # "crashed" /\ rc >= NGX_HTTP_SPECIAL_RESPONSE /\ ~r.error ->
         {Done(p.req, p.rc) : p \in SpecialResponse(r, rc)}
    [] OTHER -> {Done(r, rc)}

\* ngx_http_read_client_request_body takes a reference for the callback.
Reading(r) == [r EXCEPT !.count = @ + 1]

\* body.is is "read" if all of it came with the header: then the callback runs
\* inside the call, and posted is what it leaves of Reading(r).  It may also still
\* be on its way ("late"), or be refused ("bad").
ReadBody(r, body, posted) ==
  CASE body.is = "read" -> {Result(NGX_OK, p) : p \in posted}
    [] body.is = "late" -> {Result(NGX_AGAIN, [Reading(r) EXCEPT !.read = "body"])}
    [] body.is = "bad"  -> {Result(400, r)}
=============================================================================
