---------------------------- MODULE HttpLocation ----------------------------
(***************************************************************************)
(* One http request through the locations of a server: in each the access  *)
(* phase with AuthRequest, then the content handler, which answers or      *)
(* redirects the request internally to the next location.  The socket, the *)
(* client's body and the authorization service are the environment.        *)
(*                                                                         *)
(* The phases of one event are separate steps; step tells which is next,   *)
(* and the environment acts only in between ("wait").                      *)
(***************************************************************************)
EXTENDS AuthRequest, ContentExamples

CONSTANTS
  Routes,   \* sequences of locations: [outer, inner, enable, content]
  Bodies,   \* what a client sends as a body: [is, bufs]
  Answers   \* answers of the service: the statuses its callback sees

Directives == [name : {"auth_request", "auth_request_set", "mask"}, arg : STRING]

\* The flag and the variables of a block; a block that redirects is not the last.
\* The length of a body is an off_t, whose text has at most 20 octets.
ASSUME HttpAssumption ==
  /\ NULL \notin Int /\ NULL \notin STRING /\ Empty \in STRING \ {"off"}
  /\ (\A vs \in SUBSET Variables : vs # NULL)
  /\ NULL \notin [done : BOOLEAN, status : Int, subrequest : Int]
  /\ Routes \subseteq Seq([outer : Seq(Directives), inner : Seq(Directives),
                          enable : Seq({NULL} \cup Int),
                          content : {"greetings", "echo", "dump", "redirect"}])
  /\ \A r \in Routes :
       /\ r # <<>> /\ r[Len(r)].content # "redirect"
       /\ \A i \in DOMAIN r : \A d \in Range(r[i].outer \o r[i].inner) :
            d.name = "mask" => d.arg \in {"on", "off"}
  /\ Bodies \subseteq [is : {"read", "late", "bad"},
                       bufs : Seq([size : Nat, in_file : BOOLEAN])]
  /\ \A b \in Bodies : Digits(Total(b.bufs)) \in 1..20
  /\ Answers \subseteq Seq(Int) \ {<<>>}

VARIABLES
  route, body,   \* the server and the client's body
  conf,          \* the configuration nginx merged, by location
  at,            \* the location the request is in
  step,          \* "access", "content" or "wait"
  req,           \* the request
  ctx,           \* the auth module's ctx of the request
  variables,     \* r->variables
  answer,        \* history: the final status of the service, by location
  served         \* history: the variables its content handler saw, by location

vars == <<route, body, conf, at, step, req, ctx, variables, answer, served>>

\* ngx_http_echo_merge_loc_conf: the default is NGX_HTTP_OK, which enables.
Enabled(l) == MergeValue(l.enable[2], l.enable[1], NGX_HTTP_OK) # 0

\* The configuration of a location: blocks are merged from the outermost inwards.
Conf(l) == MergeConf(MergeConf(CreateConf, Block(l.outer)), Block(l.inner))

\* A server nginx does not refuse to start with.
Loaded(r) == \A i \in DOMAIN r : Block(r[i].outer) # NULL /\ Block(r[i].inner) # NULL

Init ==
  /\ route \in {r \in Routes : Loaded(r)}
  /\ body \in Bodies
  /\ conf = [i \in DOMAIN route |-> Conf(route[i])]
  /\ \E head \in BOOLEAN : req = NewRequest(head)
  /\ at = 1
  /\ step = "access"
  /\ ctx = NULL
  /\ variables = NotFound
  /\ answer = [i \in DOMAIN route |-> NULL]
  /\ served = [i \in DOMAIN route |-> NULL]

\* The end of an event: what was terminated in it is freed.
EventEnds(r) == step' = "wait" /\ req' = Settle(r)

\* ngx_http_core_access_phase.
Access ==
  /\ step = "access"
  /\ \E h \in AccessHandler(req, conf[at], ctx, variables, at) :
       /\ ctx' = h.ctx /\ variables' = h.vars
       /\ \/ /\ h.req.life = "live" /\ h.rc \in {NGX_OK, NGX_DECLINED}
             /\ step' = "content" /\ req' = h.req
          \/ /\ h.req.life = "live" /\ h.rc = NGX_AGAIN
             /\ EventEnds(h.req)
          \/ /\ h.req.life = "live" /\ h.rc \notin {NGX_OK, NGX_DECLINED, NGX_AGAIN}
             /\ \E f \in Finalize(h.req, h.rc) : EventEnds(f)
          \/ /\ h.req.life # "live"
             /\ EventEnds(h.req)
  /\ UNCHANGED <<route, body, conf, at, answer, served>>

\* The content handler of a location that answers.
Handle(l) ==
  CASE l.content = "greetings" -> Greetings(req)
    [] l.content = "echo" -> Echo(req, Enabled(l), body)
    [] l.content = "dump" -> DumpBody(req, body)

\* ngx_http_core_content_phase.
Content ==
  /\ step = "content"
  /\ served' = [served EXCEPT ![at] = variables]
  /\ \/ /\ route[at].content # "redirect"
        /\ \E h \in Handle(route[at]) : \E f \in Finalize(h.req, h.rc) : EventEnds(f)
        /\ UNCHANGED <<at, ctx>>
     \/ /\ route[at].content = "redirect"   \* ngx_http_internal_redirect
        /\ at' = at + 1 /\ ctx' = NULL /\ step' = "access"
        /\ UNCHANGED req
  /\ UNCHANGED <<route, body, conf, variables, answer>>

InSubrequest == step = "wait" /\ req.life = "live" /\ ctx # NULL /\ ~ctx.done

\* The subrequest has ended: the parent's access phase runs again.  If the answer
\* came from upstream (one status), nginx has registered the write event.
ServiceAnswers ==
  /\ InSubrequest
  /\ \E a \in Answers :
       /\ ctx' = AuthCalls(ctx, a)
       /\ answer' = [answer EXCEPT ![at] = Last(a)]
       /\ req' = [req EXCEPT !.count = @ - 1, !.active = @ \/ Len(a) = 1]
  /\ step' = "access"
  /\ UNCHANGED <<route, body, conf, at, variables, served>>

\* The subrequest ends with an error, or its upstream sees the client close.
ServiceFails ==
  /\ InSubrequest
  /\ EventEnds(Terminate(req))
  /\ UNCHANGED <<route, body, conf, at, ctx, variables, answer, served>>

Writable == step = "wait" /\ req.life = "live" /\ req.out /\ req.active

\* The write event: ngx_http_writer finishes a response, a request that is still
\* in its access phase enters it again.
SocketDrains ==
  /\ Writable
  /\ LET r == [req EXCEPT !.out = FALSE]
     IN  \/ /\ req.write = "writer"
            /\ \E f \in Finalize(r, NGX_OK) : EventEnds(f)
         \/ /\ req.write = "phases"
            /\ req' = r /\ step' = "access"
  /\ UNCHANGED <<route, body, conf, at, ctx, variables, answer, served>>

\* send_timeout, or ngx_http_test_reading sees the client close.
ClientGone ==
  /\ Writable /\ req.write = "writer"
  /\ EventEnds(Terminate(req))
  /\ UNCHANGED <<route, body, conf, at, ctx, variables, answer, served>>

Next == Access \/ Content \/ ServiceAnswers \/ ServiceFails \/ SocketDrains \/ ClientGone

Spec == Init /\ [][Next]_vars

\* An event runs to its end; the service answers, or fails, in proxy_read_timeout,
\* a blocked response is drained or given up in send_timeout.
Fairness ==
  /\ WF_vars(Access \/ Content)
  /\ WF_vars(ServiceAnswers \/ ServiceFails)
  /\ WF_vars(SocketDrains \/ ClientGone)

FairSpec == Spec /\ Fairness
-----------------------------------------------------------------------------
(* Properties.                                                              *)

(* What a file says of a location, read off its directives: the innermost   *)
(* block that has a directive decides.                                      *)

Args(ds, name) == {d.arg : d \in {e \in Range(ds) : e.name = name}}
Innermost(l, name) ==
  IF Args(l.inner, name) # {} THEN Args(l.inner, name) ELSE Args(l.outer, name)

Protected(l) == Innermost(l, "auth_request") \notin {{}, {"off"}, {Empty}}
Masked(l) == Innermost(l, "mask") # {"off"}
Allows(status) == status \in 200..299

\* Types; references are counted for the request, its subrequest and the reading
\* of its body; the ctx is done when the service has answered in this location;
\* and between events no request is reading its body: its handler's own answer
\* has taken the read handler, so that no callback ever runs late.
TypeOK ==
  /\ at \in DOMAIN route
  /\ step \in {"access", "content", "wait"}
  /\ req.count <= 2
  /\ req.life = "live" => req.read \in {"block", "test"}
  /\ req.write \in {"phases", "writer", "none"}
  /\ req.life \in {"live", "freed", "crashed"}
  /\ ctx # NULL => ctx.subrequest = at /\ ctx.done = (answer[at] # NULL)
  /\ InSubrequest => req.count = 2
  /\ step # "wait" => req.count = 1

\* The module's README, "authenticate your requests before resolving them": a
\* location's content handler, which may be a redirect to the next location, runs
\* only for a request that the service has allowed in this location, if the file
\* asks for it.
ContentIsAuthorized ==
  \A i \in DOMAIN route :
    served[i] # NULL /\ Protected(route[i]) => Allows(answer[i])

\* Of all refusals one does not stop the request, the unmasked 401: its output
\* filter's NGX_OK is returned to the access phase.  No other status, no answer of
\* an earlier location or of a first call of the callback lets content through,
\* and a location without authorization asks nobody.
OnlyUnmaskedRefusalsPass ==
  \A i \in DOMAIN route :
    served[i] # NULL =>
      IF Protected(route[i])
      THEN Allows(answer[i]) \/ (answer[i] = 401 /\ ~Masked(route[i]))
      ELSE answer[i] = NULL

Refused(i) == answer[i] # NULL /\ ~Allows(answer[i])

\* The first refusal reaches the client with its status: 401 and 403 as they are,
\* anything unexpected as 500, whatever the error page of the service did before,
\* and whatever the content handler or a later location sends after it.
RefusalsKeepTheirStatus ==
  \A i \in DOMAIN route :
    req.header # 0 /\ Refused(i) /\ (\A j \in 1..i - 1 : ~Refused(j)) =>
      req.header = IF answer[i] \in {401, 403} THEN answer[i] ELSE 500

\* The value v has in location i, going by the file: that of the last location
\* on the way that is protected and sets v.
Expected(i, v) ==
  LET S == {j \in 1..i : Protected(route[j]) /\ v \in Innermost(route[j], "auth_request_set")}
  IN  IF S = {} THEN NULL ELSE [from |-> Max(S), status |-> answer[Max(S)]]

\* Variables are there when content is served, also after internal redirects,
\* and are replaced by the next authorization.
VariablesSurviveRedirects ==
  \A i \in DOMAIN route :
    served[i] # NULL => \A v \in Variables : served[i][v] = Expected(i, v)

\* No reference is released twice: a freed request is not answered, finalized or
\* released again by a handler that goes on after its callback.
ReleasedOnce == req.count >= 0 /\ (req.life = "freed" => req.count = 0)

\* What the dump module can dump: a body in one buffer, in memory.
Dumpable == Len(body.bufs) = 1 /\ ~body.bufs[1].in_file

\* The first body of a 200 is as long as its header says, of whichever of the two
\* answers of a handler it is.  The dump module gets this right for a body in one
\* buffer in memory only: for others it declares what it does not send.
LengthIsAsDeclared ==
  /\ req.header = NGX_HTTP_OK /\ req.length # -1 /\ ~req.head
  /\ route[at].content = "dump" => Dumpable
  => req.length = req.declared

Ended == req.life \in {"freed", "crashed"}

\* A request ends, unless its handler answers while the body is still on its way,
\* or a response was blocked while it held a second reference or was in its
\* access phase.
RequestsEnd ==
  /\ body.is # "late"
  /\ [](step = "wait" /\ req.out => req.write = "writer" /\ req.count <= 1)
  => <>Ended

\* The module's README, "authenticate your requests before resolving them": a
\* request the service has allowed goes on to its content.
AllowedRequestsAreServed ==
  step = "wait" /\ answer[at] # NULL /\ Allows(answer[at]) => served[at] # NULL
=============================================================================
