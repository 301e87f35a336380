----------------------------- MODULE AuthRequest -----------------------------
(***************************************************************************)
(* ngx_http_auth_body_module: its configuration and the access handler,    *)
(* which asks an authorization service in a subrequest and maps the status *)
(* of its answer to the fate of the request.  With auth_request_mask_body  *)
(* off, a 401 is sent with the body of the service.                        *)
(***************************************************************************)
EXTENDS HttpRequest, SequencesExt

CONSTANTS
  Variables,   \* names auth_request_set may be given: those with a $
  Empty        \* the empty string

\* One block's configuration before it is merged; NULL is an unset value.
CreateConf == [uri |-> NULL, vars |-> NULL, mask |-> NULL]

\* ngx_http_auth_request: "off" is an empty uri, but a value; a second directive
\* is an error (NULL).
AuthRequest(conf, arg) ==
  IF conf.uri # NULL THEN NULL ELSE [conf EXCEPT !.uri = IF arg = "off" THEN Empty ELSE arg]

\* ngx_http_auth_request_set adds to the variables of its block; a name without a
\* $ is an error.
AuthRequestSet(conf, arg) ==
  IF arg \notin Variables THEN NULL
  ELSE [conf EXCEPT !.vars = (IF @ = NULL THEN {} ELSE @) \cup {arg}]

\* ngx_conf_set_flag_slot for auth_request_mask_body.
MaskBody(conf, arg) ==
  IF conf.mask # NULL THEN NULL ELSE [conf EXCEPT !.mask = arg]

\* One directive; once one is refused, the block is.
Directive(conf, d) ==
  CASE conf = NULL -> NULL
    [] conf # NULL /\ d.name = "auth_request" -> AuthRequest(conf, d.arg)
    [] conf # NULL /\ d.name = "auth_request_set" -> AuthRequestSet(conf, d.arg)
    [] conf # NULL /\ d.name = "mask" -> MaskBody(conf, d.arg)

\* The configuration of a block with the directives ds, NULL if it is refused.
Block(ds) ==
  LET parsed[n \in 0..Len(ds)] ==
        IF n = 0 THEN CreateConf ELSE Directive(parsed[n - 1], ds[n])
  IN  parsed[Len(ds)]

\* ngx_conf_merge_value and its relatives.
MergeValue(conf, prev, default) ==
  IF conf # NULL THEN conf ELSE IF prev # NULL THEN prev ELSE default

\* ngx_http_auth_request_merge_conf.
MergeConf(prev, conf) ==
  [uri |-> MergeValue(conf.uri, prev.uri, Empty),
   vars |-> MergeValue(conf.vars, prev.vars, {}),
   mask |-> MergeValue(conf.mask, prev.mask, "on")]
-----------------------------------------------------------------------------
\* ngx_http_auth_request_variable: before it is set, a variable is not found.
NotFound == [v \in Variables |-> NULL]

\* The ctx of a request whose subrequest sr has been created; ngx_http_subrequest
\* takes a reference.
NewCtx(sr) == [done |-> FALSE, status |-> 0, subrequest |-> sr]
Subrequest(r) == [r EXCEPT !.count = @ + 1]

\* Mutant: the callback forgets to set done.
MutDoneUnset(ctx, status) == [ctx EXCEPT !.status = status]

\* Mutant: only the first call of the callback counts.
MutDone(ctx, status) ==
  IF ctx.done THEN ctx ELSE [ctx EXCEPT !.done = TRUE, !.status = status]

\* ngx_http_auth_request_done.  nginx calls it whenever the subrequest is
\* finalized, which an error page does twice: first with no status set.
AuthDone(ctx, status) == [ctx EXCEPT !.done = TRUE, !.status = status]

\* The ctx after the callback was called with the statuses in a.
AuthCalls(ctx, a) ==
  LET called[n \in 0..Len(a)] ==
        IF n = 0 THEN ctx ELSE AuthDone(called[n - 1], a[n])
  IN  called[Len(a)]

\* Mutant: nothing is set once a variable has a value.
MutSetVariables(conf, ctx, vars) ==
  [v \in Variables |->
     IF v \in conf.vars /\ vars[v] = NULL THEN [from |-> ctx.subrequest, status |-> ctx.status]
     ELSE vars[v]]

\* ngx_http_auth_request_set_variables: values are those of the subrequest.
SetVariables(conf, ctx, vars) ==
  [v \in Variables |->
     IF v \in conf.vars THEN [from |-> ctx.subrequest, status |-> ctx.status]
     ELSE vars[v]]

\* Mutant: the last case lets every other status pass.
MutFateOpen(r, conf, status) ==
  IF status \in {401, 403} THEN {Result(status, r)} ELSE {Result(NGX_OK, r)}

\* The status of the service's answer, mapped.  An unmasked 401 goes out at once,
\* of unknown length, and the output filter decides what is returned.  For all
\* but 401 and 403, sr is read without having been set: the worker may die there,
\* or find no WWW-Authenticate.
Fate(r, conf, status) ==
  CASE status = 403 -> {Result(403, r)}
    [] status = 401 /\ conf.mask = "off" -> Output(SendHeader(r, 401, -1).req, 1)
    [] status = 401 /\ conf.mask = "on" -> {Result(401, r)}
    [] OTHER ->
         {Result(NGX_OK, [r EXCEPT !.life = "crashed"])}
         \cup {Result(IF status >= NGX_HTTP_OK /\ status < NGX_HTTP_SPECIAL_RESPONSE
                      THEN NGX_OK ELSE 500, r)}

\* ngx_http_auth_request_handler, which an empty uri disables: the results it may
\* return, with the ctx and the variables it leaves; sr names the subrequest it
\* creates.
AccessHandler(r, conf, ctx, vars, sr) ==
  CASE conf.uri = Empty ->
         {[rc |-> NGX_DECLINED, req |-> r, ctx |-> ctx, vars |-> vars]}
    [] conf.uri # Empty /\ ctx = NULL ->
         {[rc |-> NGX_AGAIN, req |-> Subrequest(r), ctx |-> NewCtx(sr), vars |-> vars]}
    [] conf.uri # Empty /\ ctx # NULL /\ ~ctx.done ->
         {[rc |-> NGX_AGAIN, req |-> r, ctx |-> ctx, vars |-> vars]}
    [] OTHER ->
         {[rc |-> f.rc, req |-> f.req, ctx |-> ctx, vars |-> SetVariables(conf, ctx, vars)]
          : f \in Fate(r, conf, ctx.status)}
=============================================================================
