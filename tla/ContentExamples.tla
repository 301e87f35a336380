--------------------------- MODULE ContentExamples ---------------------------
(***************************************************************************)
(* The content handlers of examples 01 (greetings), 02 (echo) and 03       *)
(* (dump-request-body).  Each is an operator from a request, and the body  *)
(* its client sends, to the set of results it may return; nginx finalizes  *)
(* the request with the result.  A body is [is, bufs]; a buffer is         *)
(* [size, in_file], in_file if nginx has saved it to a temporary file.     *)
(***************************************************************************)
EXTENDS HttpRequest, SequencesExt, FiniteSetsExt

\* last - pos: a buffer in a file holds nothing in memory.
Held(buf) == IF buf.in_file THEN 0 ELSE buf.size

\* The sum of ngx_buf_size, which counts files, too.
Total(bufs) ==
  LET sum[n \in 0..Len(bufs)] == IF n = 0 THEN 0 ELSE sum[n - 1] + bufs[n].size
  IN  sum[Len(bufs)]

\* The text of a number has one octet per digit.
Digits(n) == CHOOSE d \in 1..20 : (d = 1 \/ n >= 10^(d - 1)) /\ n < 10^d

\* A header and a text of len octets; what the header filter returns is ignored.
Respond(r, len) == Output(SendHeader(r, NGX_HTTP_OK, len).req, len)

\* ngx_http_greetings_handler: "greetings!\n".
Greetings(r) == Respond(r, 11)

\* Mutant: the return after finalizing is forgotten.
MutAnswerGoesOn(r, declared, len) ==
  LET h == SendHeader(r, NGX_HTTP_OK, declared)
  IN  IF h.rc = NGX_ERROR \/ r.head
      THEN UNION {UNION {Finalize(o.req, o.rc) : o \in Output(f, len)}
                  : f \in Finalize(h.req, h.rc)}
      ELSE UNION {Finalize(o.req, o.rc) : o \in Output(h.req, len)}

\* Mutant: the callback does not finalize what the filter has taken.
MutAnswerUnfinalized(r, declared, len) ==
  {o.req : o \in Output(SendHeader(r, NGX_HTTP_OK, declared).req, len)}

\* The end of both body callbacks: the header, the body unless only the header
\* is wanted, and finalization, which accounts for the reference of the read.
Answer(r, declared, len) ==
  LET h == SendHeader(r, NGX_HTTP_OK, declared)
  IN  IF h.rc = NGX_ERROR \/ r.head THEN Finalize(h.req, h.rc)
      ELSE UNION {Finalize(o.req, o.rc) : o \in Output(h.req, len)}

\* ngx_http_foo_init of the echo module answers with the length of the body.
EchoLength(r, bufs) == Answer(r, Digits(Total(bufs)), Digits(Total(bufs)))

\* Mutant: the line feed is not counted.
MutDumpLast(r, bufs) ==
  IF bufs = <<>> THEN {[r EXCEPT !.life = "crashed"]}
  ELSE Answer(r, Total(bufs), Held(Last(bufs)) + 1)

\* ngx_http_foo_init of the dump module declares the whole body and a line feed
\* and sends what its last buffer holds and a line feed.  The reply buffer has no
\* room for the line feed: what the octet behind it was for may make the worker
\* die, there or later.  Without a buffer the text is not initialized: the worker
\* may die, the reply buffer may be too large to allocate, or some text goes out.
DumpLast(r, bufs) ==
  IF bufs = <<>>
  THEN {[r EXCEPT !.life = "crashed"]} \cup Finalize(r, 500)
       \cup UNION {Answer(r, 1, len) : len \in 1..2}
  ELSE {[r EXCEPT !.life = "crashed"]}
       \cup Answer(r, Total(bufs) + 1, Held(Last(bufs)) + 1)

\* The handlers read the body and then answer themselves, whether or not the
\* callback has run; only a refused body ends them.
AfterRead(results, len) ==
  UNION {IF b.rc >= NGX_HTTP_SPECIAL_RESPONSE \/ b.req.life = "crashed"
         THEN {b} ELSE Respond(b.req, len) : b \in results}

\* ngx_http_echo_handler: "header-dump written in logs!", or, disabled,
\* "echo_module not enabled!".
Echo(r, enable, body) ==
  IF enable
  THEN AfterRead(ReadBody(r, body, EchoLength(Reading(r), body.bufs)), 28)
  ELSE Respond(r, 24)

\* ngx_http_dump_body_handler: "echo_module not enabled!".
DumpBody(r, body) ==
  AfterRead(ReadBody(r, body, DumpLast(Reading(r), body.bufs)), 24)
=============================================================================
