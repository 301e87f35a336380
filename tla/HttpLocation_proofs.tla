------------------------- MODULE HttpLocation_proofs -------------------------
(***************************************************************************)
(* Proofs about requests that are authorized, for any directives in any    *)
(* number of locations, any variables, and any answers of the service.     *)
(***************************************************************************)
EXTENDS HttpLocation, NumberFacts

-----------------------------------------------------------------------------
(* What a block's configuration says of its directives.                     *)

AuthConfs == [uri : {NULL} \cup STRING, vars : {NULL} \cup SUBSET Variables,
              mask : {NULL, "on", "off"}]

\* The directives nginx lets through to the setters.
Valid(ds) ==
  /\ ds \in Seq(Directives)
  /\ \A k \in DOMAIN ds : ds[k].name = "mask" => ds[k].arg \in {"on", "off"}

\* The uri that auth_request stores.
UriOf(arg) == IF arg = "off" THEN Empty ELSE arg

\* The arguments a directive has among the first k.
ArgsUpTo(ds, k, name) == {ds[j].arg : j \in {i \in 1..k : ds[i].name = name}}

\* c has what those directives set.
Says(c, ds, k) ==
  /\ c \in AuthConfs
  /\ \/ c.uri = NULL /\ ArgsUpTo(ds, k, "auth_request") = {}
     \/ \E arg \in STRING : /\ ArgsUpTo(ds, k, "auth_request") = {arg}
                            /\ c.uri = UriOf(arg)
  /\ ArgsUpTo(ds, k, "auth_request_set") = IF c.vars = NULL THEN {} ELSE c.vars
  /\ c.vars # {}
  /\ ArgsUpTo(ds, k, "mask") = IF c.mask = NULL THEN {} ELSE {c.mask}

LEMMA UriIsText ==
  ASSUME NEW arg \in STRING
  PROVE  UriOf(arg) \in STRING /\ UriOf(arg) # NULL /\ (UriOf(arg) = Empty <=> arg \in {"off", Empty})
<1>1. Empty \in STRING \ {"off"} /\ NULL \notin STRING
  BY HttpAssumption
<1> QED
  BY <1>1 DEF UriOf

LEMMA NextArgs ==
  ASSUME NEW ds, NEW k \in Nat, NEW name
  PROVE  ArgsUpTo(ds, k + 1, name) =
           IF ds[k + 1].name = name THEN ArgsUpTo(ds, k, name) \cup {ds[k + 1].arg}
           ELSE ArgsUpTo(ds, k, name)
<1>1. 1..k + 1 = (1..k) \cup {k + 1}
  OBVIOUS
<1> QED
  BY <1>1 DEF ArgsUpTo

\* One directive more, or a refusal.
LEMMA NextDirective ==
  ASSUME NEW ds, Valid(ds), NEW k \in Nat, k + 1 \in DOMAIN ds, NEW c, Says(c, ds, k)
  PROVE  LET e == Directive(c, ds[k + 1]) IN e = NULL \/ Says(e, ds, k + 1)
<1> DEFINE d == ds[k + 1]
           e == Directive(c, d)
<1>1. /\ d \in Directives
      /\ d.name = "mask" => d.arg \in {"on", "off"}
  BY DEF Valid
<1>2. /\ d.name \in {"auth_request", "auth_request_set", "mask"} /\ d.arg \in STRING
      /\ d.arg # NULL
  BY <1>1, HttpAssumption DEF Directives
<1>3. \A name : ArgsUpTo(ds, k + 1, name) =
        IF d.name = name THEN ArgsUpTo(ds, k, name) \cup {d.arg} ELSE ArgsUpTo(ds, k, name)
  BY NextArgs
<1>4. c \in AuthConfs
  BY DEF Says
<1> SUFFICES ASSUME e # NULL
             PROVE  Says(e, ds, k + 1)
  OBVIOUS
<1>5. c # NULL
  BY DEF Directive
<1>6. CASE d.name = "auth_request"
  <2> DEFINE u == UriOf(d.arg)
  <2>1. c.uri = NULL /\ e = [c EXCEPT !.uri = u]
    BY <1>5, <1>6 DEF Directive, AuthRequest, UriOf
  <2>2. u \in STRING
    BY <1>2, UriIsText
  <2>3. e \in AuthConfs /\ e.uri = u /\ e.vars = c.vars /\ e.mask = c.mask
    <3> HIDE DEF u
    <3> QED
      BY <1>4, <2>1, <2>2 DEF AuthConfs
  <2>4. ArgsUpTo(ds, k, "auth_request") = {}
    BY <2>1, UriIsText DEF Says
  <2>5. ArgsUpTo(ds, k + 1, "auth_request") = {d.arg}
    BY <1>3, <1>6, <2>4
  <2> HIDE DEF d, e
  <2> QED
    BY <1>2, <1>3, <1>6, <2>3, <2>5 DEF Says
<1>7. CASE d.name = "auth_request_set"
  <2> DEFINE vs == (IF c.vars = NULL THEN {} ELSE c.vars) \cup {d.arg}
  <2>1. e = [c EXCEPT !.vars = vs] /\ d.arg \in Variables
    BY <1>5, <1>7 DEF Directive, AuthRequestSet
  <2>2. vs \in SUBSET Variables
    BY <1>4, <2>1 DEF AuthConfs
  <2>3. e \in AuthConfs /\ e.uri = c.uri /\ e.vars = vs /\ e.mask = c.mask
    BY <1>4, <2>1, <2>2 DEF AuthConfs
  <2>4. vs # {} /\ vs # NULL
    BY <2>2, HttpAssumption
  <2> HIDE DEF d, e
  <2> QED
    BY <1>2, <1>3, <1>7, <2>3, <2>4 DEF Says
<1>8. CASE d.name = "mask"
  <2>1. c.mask = NULL /\ e = [c EXCEPT !.mask = d.arg]
    BY <1>5, <1>8 DEF Directive, MaskBody
  <2>2. e \in AuthConfs /\ e.uri = c.uri /\ e.vars = c.vars /\ e.mask = d.arg
    BY <1>1, <1>4, <1>8, <2>1 DEF AuthConfs
  <2> HIDE DEF d, e
  <2> QED
    BY <1>2, <1>3, <1>8, <2>1, <2>2 DEF Says
<1> QED
  BY <1>2, <1>6, <1>7, <1>8

\* The setters keep a configuration's type.
LEMMA DirectiveType ==
  ASSUME NEW ds, Valid(ds), NEW k \in DOMAIN ds, NEW c \in AuthConfs \cup {NULL}
  PROVE  Directive(c, ds[k]) \in AuthConfs \cup {NULL}
<1> DEFINE d == ds[k]
<1>1. /\ d \in Directives
      /\ d.name = "mask" => d.arg \in {"on", "off"}
  BY DEF Valid
<1>2. d.name \in {"auth_request", "auth_request_set", "mask"} /\ d.arg \in STRING
  BY <1>1 DEF Directives
<1> HIDE DEF d
<1>3. CASE c = NULL
  BY <1>3 DEF Directive
<1>4. CASE c # NULL /\ d.name = "auth_request"
  <2> DEFINE u == IF d.arg = "off" THEN Empty ELSE d.arg
  <2>1. u \in STRING
    BY <1>2, UriIsText DEF UriOf
  <2>2. [c EXCEPT !.uri = u] \in AuthConfs
    <3> HIDE DEF u
    <3> QED
      BY <1>4, <2>1 DEF AuthConfs
  <2> QED
    BY <1>4, <2>2 DEF Directive, AuthRequest, d
<1>5. CASE c # NULL /\ d.name = "auth_request_set"
  <2>1. d.arg \in Variables => (IF c.vars = NULL THEN {} ELSE c.vars) \cup {d.arg} \in SUBSET Variables
    BY <1>5 DEF AuthConfs
  <2>2. AuthRequestSet(c, d.arg) \in AuthConfs \cup {NULL}
    BY <1>5, <2>1 DEF AuthConfs, AuthRequestSet
  <2> QED
    BY <1>5, <2>2 DEF Directive, d
<1>6. CASE c # NULL /\ d.name = "mask"
  <2>1. [c EXCEPT !.mask = d.arg] \in AuthConfs
    BY <1>1, <1>6 DEF AuthConfs
  <2> QED
    BY <1>6, <2>1 DEF Directive, MaskBody, d
<1> QED
  BY <1>2, <1>3, <1>4, <1>5, <1>6

\* A block that is accepted says what its directives say.
LEMMA BlockSays ==
  ASSUME NEW ds, Valid(ds), Block(ds) # NULL
  PROVE  Says(Block(ds), ds, Len(ds))
<1> DEFINE n == Len(ds)
           V == AuthConfs \cup {NULL}
           next == [k \in 1..n |-> [c \in V |-> Directive(c, ds[k])]]
           parsed[k \in 0..n] ==
             IF k = 0 THEN CreateConf ELSE Directive(parsed[k - 1], ds[k])
<1>1. Block(ds) = parsed[n]
  BY DEF Block
<1>2. n \in Nat /\ DOMAIN ds = 1..n
  BY DEF Valid
<1>3. CreateConf \in AuthConfs
  BY DEF CreateConf, AuthConfs
<1>4. next \in [1..n -> [V -> V]]
  BY <1>2, DirectiveType
<1>5. CreateConf \in V
  BY <1>3
<1>6. \A k \in 1..n, c \in V : next[k][c] = Directive(c, ds[k])
  OBVIOUS
<1> HIDE DEF n, V, next
<1>7. PICK g \in [0..n -> V] : g[0] = CreateConf /\ \A k \in 1..n : g[k] = next[k][g[k - 1]]
  <2>1. \E g : Solution(g, n, V, CreateConf, next)
    BY <1>2, <1>4, <1>5, Recursion
  <2> QED
    BY <2>1 DEF Solution
<1>8. \A k \in 0..n : g[k] = IF k = 0 THEN CreateConf ELSE Directive(g[k - 1], ds[k])
  BY <1>2, <1>6, <1>7
<1>9. g = [k \in 0..n |-> IF k = 0 THEN CreateConf ELSE Directive(g[k - 1], ds[k])]
  BY <1>7, <1>8
<1>10. parsed = [k \in 0..n |-> IF k = 0 THEN CreateConf ELSE Directive(parsed[k - 1], ds[k])]
  BY <1>9
<1> DEFINE S == {k \in Nat : k <= n => parsed[k] = NULL \/ Says(parsed[k], ds, k)}
<1> HIDE DEF parsed
<1>11. 0 \in S
  <2>1. parsed[0] = CreateConf
    BY <1>2, <1>10
  <2>2. \A name : ArgsUpTo(ds, 0, name) = {}
    BY DEF ArgsUpTo
  <2>3. CreateConf.uri = NULL /\ CreateConf.vars = NULL /\ CreateConf.mask = NULL /\ NULL # {}
    BY HttpAssumption DEF CreateConf
  <2>4. Says(CreateConf, ds, 0)
    BY <1>3, <2>2, <2>3 DEF Says
  <2> QED
    BY <2>1, <2>4
<1>12. ASSUME NEW k \in Nat, k \in S
       PROVE  k + 1 \in S
  <2> SUFFICES ASSUME k + 1 <= n
               PROVE  parsed[k + 1] = NULL \/ Says(parsed[k + 1], ds, k + 1)
    OBVIOUS
  <2>1. parsed[k + 1] = Directive(parsed[k], ds[k + 1]) /\ k + 1 \in DOMAIN ds
    BY <1>2, <1>10
  <2>2. CASE parsed[k] = NULL
    BY <2>1, <2>2 DEF Directive
  <2>3. CASE Says(parsed[k], ds, k)
    BY <2>1, <2>3, NextDirective
  <2> QED
    BY <1>2, <1>12, <2>2, <2>3
<1> HIDE DEF S
<1>13. Nat \subseteq S
  BY <1>11, <1>12, Induction
<1> QED
  BY <1>1, <1>2, <1>13 DEF S

\* The configuration of a location is what its file says.
LEMMA ConfSays ==
  ASSUME NEW l, Valid(l.outer), Valid(l.inner), Block(l.outer) # NULL, Block(l.inner) # NULL
  PROVE  /\ Conf(l).uri = Empty <=> ~Protected(l)
         /\ Conf(l).mask \in {"on", "off"} /\ (Conf(l).mask = "off" <=> ~Masked(l))
         /\ \A v \in Variables : v \in Conf(l).vars <=> v \in Innermost(l, "auth_request_set")
<1> DEFINE o == Block(l.outer)
           i == Block(l.inner)
<1>1. /\ \A name : Args(l.outer, name) = ArgsUpTo(l.outer, Len(l.outer), name)
      /\ \A name : Args(l.inner, name) = ArgsUpTo(l.inner, Len(l.inner), name)
  <2>1. ASSUME NEW ds, Valid(ds), NEW name
        PROVE  Args(ds, name) = ArgsUpTo(ds, Len(ds), name)
    <3>1. DOMAIN ds = 1..Len(ds)
      BY <2>1 DEF Valid
    <3> QED
      BY <3>1 DEF Args, ArgsUpTo, Range
  <2> QED
    BY <2>1
<1>2. /\ o \in AuthConfs /\ i \in AuthConfs
      /\ \/ o.uri = NULL /\ Args(l.outer, "auth_request") = {}
         \/ \E arg \in STRING : /\ Args(l.outer, "auth_request") = {arg}
                                /\ o.uri = UriOf(arg)
      /\ \/ i.uri = NULL /\ Args(l.inner, "auth_request") = {}
         \/ \E arg \in STRING : /\ Args(l.inner, "auth_request") = {arg}
                                /\ i.uri = UriOf(arg)
      /\ Args(l.outer, "auth_request_set") = IF o.vars = NULL THEN {} ELSE o.vars
      /\ Args(l.inner, "auth_request_set") = IF i.vars = NULL THEN {} ELSE i.vars
      /\ o.vars # {} /\ i.vars # {}
      /\ Args(l.outer, "mask") = IF o.mask = NULL THEN {} ELSE {o.mask}
      /\ Args(l.inner, "mask") = IF i.mask = NULL THEN {} ELSE {i.mask}
  BY <1>1, BlockSays DEF Says
<1>3. NULL \notin STRING /\ NULL # {}
  BY HttpAssumption
<1>4. /\ o.uri \in {NULL} \cup STRING /\ i.uri \in {NULL} \cup STRING
      /\ o.vars \in {NULL} \cup SUBSET Variables /\ i.vars \in {NULL} \cup SUBSET Variables
      /\ o.mask \in {NULL, "on", "off"} /\ i.mask \in {NULL, "on", "off"}
  BY <1>2 DEF AuthConfs
<1> HIDE DEF o, i
<1>5. Conf(l).uri = IF i.uri # NULL THEN i.uri ELSE IF o.uri # NULL THEN o.uri ELSE Empty
  BY <1>3 DEF Conf, MergeConf, MergeValue, CreateConf, o, i
<1>6. Conf(l).vars = IF i.vars # NULL THEN i.vars ELSE IF o.vars # NULL THEN o.vars ELSE {}
  BY <1>3 DEF Conf, MergeConf, MergeValue, CreateConf, o, i
<1>7. Conf(l).mask = IF i.mask # NULL THEN i.mask ELSE IF o.mask # NULL THEN o.mask ELSE "on"
  BY <1>3 DEF Conf, MergeConf, MergeValue, CreateConf, o, i
<1>8. Conf(l).uri = Empty <=> ~Protected(l)
  <2>1. \A arg \in STRING : UriOf(arg) # NULL /\ (UriOf(arg) = Empty <=> arg \in {"off", Empty})
    BY UriIsText
  <2>2. ASSUME NEW A, NEW u, \/ u = NULL /\ A = {}
                             \/ \E arg \in STRING : A = {arg} /\ u = UriOf(arg)
        PROVE  /\ A = {} <=> u = NULL
               /\ u # NULL => (u = Empty <=> A \in {{"off"}, {Empty}})
    BY <2>1, <2>2
  <2>3. /\ Args(l.outer, "auth_request") = {} <=> o.uri = NULL
        /\ o.uri # NULL => (o.uri = Empty <=> Args(l.outer, "auth_request") \in {{"off"}, {Empty}})
    BY <1>2, <2>2
  <2>4. /\ Args(l.inner, "auth_request") = {} <=> i.uri = NULL
        /\ i.uri # NULL => (i.uri = Empty <=> Args(l.inner, "auth_request") \in {{"off"}, {Empty}})
    BY <1>2, <2>2
  <2> QED
    BY <1>5, <2>3, <2>4 DEF Protected, Innermost
<1>9. Conf(l).mask \in {"on", "off"} /\ (Conf(l).mask = "off" <=> ~Masked(l))
  BY <1>2, <1>3, <1>4, <1>7 DEF Masked, Innermost
<1>10. \A v : v \in Conf(l).vars <=> v \in Innermost(l, "auth_request_set")
  BY <1>2, <1>3, <1>4, <1>6 DEF Innermost
<1> QED
  BY <1>8, <1>9, <1>10

-----------------------------------------------------------------------------
(* The other recursive definitions.                                         *)

Ctxs == [done : BOOLEAN, status : Int, subrequest : Int]

\* The callback sets done and the status.
LEMMA OneCall ==
  ASSUME NEW d \in Ctxs, NEW s \in Int
  PROVE  /\ AuthDone(d, s) \in Ctxs
         /\ AuthDone(d, s) = [done |-> TRUE, status |-> s, subrequest |-> d.subrequest]
<1>1. AuthDone(d, s) \in Ctxs
  BY DEF AuthDone, Ctxs
<1>2. /\ AuthDone(d, s).done = TRUE /\ AuthDone(d, s).status = s
      /\ AuthDone(d, s).subrequest = d.subrequest
  BY DEF AuthDone, Ctxs
<1>3. \A e \in Ctxs : e = [done |-> e.done, status |-> e.status, subrequest |-> e.subrequest]
  BY DEF Ctxs
<1> QED
  BY <1>1, <1>2, <1>3

\* The recursion over the calls has a solution.
LEMMA CallsDefined ==
  ASSUME NEW n \in Nat, NEW a \in [1..n -> Int], NEW c \in Ctxs
  PROVE  \E g : g = [k \in 0..n |-> IF k = 0 THEN c ELSE AuthDone(g[k - 1], a[k])]
<1> DEFINE V == Ctxs
           next == [k \in 1..n |-> [d \in V |-> AuthDone(d, a[k])]]
<1>1. \A k \in 1..n, d \in V : AuthDone(d, a[k]) \in V
  BY OneCall
<1>2. next \in [1..n -> [V -> V]] /\ c \in V
  BY <1>1
<1>3. \A k \in 1..n, d \in V : next[k][d] = AuthDone(d, a[k])
  OBVIOUS
<1> HIDE DEF V, next
<1>4. PICK g \in [0..n -> V] : g[0] = c /\ \A k \in 1..n : g[k] = next[k][g[k - 1]]
  <2>1. \E g : Solution(g, n, V, c, next)
    BY <1>2, Recursion
  <2> QED
    BY <2>1 DEF Solution
<1>5. \A k \in 0..n : g[k] = IF k = 0 THEN c ELSE AuthDone(g[k - 1], a[k])
  <2>1. \A k \in 1..n : k \in 0..n /\ k - 1 \in 0..n /\ g[k - 1] \in V
    BY <1>4
  <2> QED
    BY <1>3, <1>4, <2>1
<1> QED
  BY <1>4, <1>5

\* Each call finds a ctx of the same subrequest.
LEMMA CallsKeepTheCtx ==
  ASSUME NEW n \in Nat, NEW a, \A k \in 1..n : a[k] \in Int, NEW c \in Ctxs, NEW g,
         g[0] = c, \A k \in 1..n : g[k] = AuthDone(g[k - 1], a[k])
  PROVE  g[n] \in Ctxs /\ g[n].subrequest = c.subrequest
<1> DEFINE S == {k \in Nat : k <= n => g[k] \in Ctxs /\ g[k].subrequest = c.subrequest}
<1>1. 0 \in S
  OBVIOUS
<1>2. ASSUME NEW k \in Nat, k \in S
      PROVE  k + 1 \in S
  <2> SUFFICES ASSUME k + 1 <= n
               PROVE  g[k + 1] \in Ctxs /\ g[k + 1].subrequest = c.subrequest
    OBVIOUS
  <2>1. g[k + 1] = AuthDone(g[k], a[k + 1]) /\ a[k + 1] \in Int
    OBVIOUS
  <2>2. PICK d \in Ctxs : d = g[k] /\ d.subrequest = c.subrequest
    BY <1>2
  <2>3. PICK s \in Int : s = a[k + 1]
    BY <2>1
  <2>4. /\ AuthDone(d, s) \in Ctxs
        /\ AuthDone(d, s) = [done |-> TRUE, status |-> s, subrequest |-> d.subrequest]
    BY OneCall
  <2> QED
    BY <2>1, <2>2, <2>3, <2>4
<1> HIDE DEF S
<1>3. Nat \subseteq S
  BY <1>1, <1>2, Induction
<1> QED
  BY <1>3 DEF S

\* After any number of calls of the callback the last status counts.
LEMMA LastCallCounts ==
  ASSUME NEW c \in Ctxs, NEW a \in Seq(Int), a # <<>>
  PROVE  AuthCalls(c, a) = [done |-> TRUE, status |-> Last(a), subrequest |-> c.subrequest]
<1> DEFINE n == Len(a)
           called[k \in 0..n] == IF k = 0 THEN c ELSE AuthDone(called[k - 1], a[k])
<1>1. AuthCalls(c, a) = called[n]
  BY DEF AuthCalls
<1>2. n \in Nat /\ n # 0 /\ a \in [1..n -> Int] /\ a[n] \in Int
  OBVIOUS
<1>3. called = [k \in 0..n |-> IF k = 0 THEN c ELSE AuthDone(called[k - 1], a[k])]
  <2> HIDE DEF n
  <2> QED
    BY <1>2, CallsDefined
<1> HIDE DEF called, n
<1>4. called[n] = AuthDone(called[n - 1], a[n])
  BY <1>2, <1>3
<1>5. PICK d : d = called[n - 1] /\ d \in Ctxs /\ d.subrequest = c.subrequest
  <2>1. /\ n - 1 \in Nat /\ called[0] = c
        /\ \A k \in 1..n - 1 : a[k] \in Int /\ called[k] = AuthDone(called[k - 1], a[k])
    BY <1>2, <1>3
  <2> QED
    BY <2>1, CallsKeepTheCtx
<1>6. AuthDone(d, a[n]) = [done |-> TRUE, status |-> a[n], subrequest |-> d.subrequest]
  BY <1>2, <1>5, OneCall
<1> QED
  BY <1>1, <1>4, <1>5, <1>6 DEF Last, n

\* The recursion over the buffers has a solution.
LEMMA SumDefined ==
  ASSUME NEW n \in Nat, NEW a \in [1..n -> Nat]
  PROVE  \E g : g = [k \in 0..n |-> IF k = 0 THEN 0 ELSE g[k - 1] + a[k]]
<1> DEFINE V == Nat
           next == [k \in 1..n |-> [s \in V |-> s + a[k]]]
<1>1. next \in [1..n -> [V -> V]] /\ 0 \in V
  OBVIOUS
<1>2. \A k \in 1..n, s \in V : next[k][s] = s + a[k]
  OBVIOUS
<1> HIDE DEF V, next
<1>3. PICK g \in [0..n -> V] : g[0] = 0 /\ \A k \in 1..n : g[k] = next[k][g[k - 1]]
  <2>1. \E g : Solution(g, n, V, 0, next)
    BY <1>1, Recursion
  <2> QED
    BY <2>1 DEF Solution
<1>4. \A k \in 0..n : g[k] = IF k = 0 THEN 0 ELSE g[k - 1] + a[k]
  <2>1. \A k \in 1..n : k \in 0..n /\ k - 1 \in 0..n /\ g[k - 1] \in V
    BY <1>3
  <2>2. \A k \in 1..n : g[k] = g[k - 1] + a[k]
    BY <1>2, <1>3, <2>1
  <2> QED
    BY <1>3, <2>2
<1> QED
  BY <1>3, <1>4

Buffers == [size : Nat, in_file : BOOLEAN]

\* A body in one buffer is as long as its buffer.
LEMMA TotalOfOne ==
  ASSUME NEW bufs \in Seq(Buffers)
  PROVE  Total(bufs) \in Nat /\ (Len(bufs) = 1 => Total(bufs) = Last(bufs).size)
<1> DEFINE n == Len(bufs)
           sum[k \in 0..n] == IF k = 0 THEN 0 ELSE sum[k - 1] + bufs[k].size
<1>1. Total(bufs) = sum[n]
  BY DEF Total
<1>2. n \in Nat /\ \A k \in 1..n : bufs[k].size \in Nat
  <2>1. \A k \in 1..n : bufs[k] \in Buffers
    OBVIOUS
  <2> QED
    BY <2>1 DEF Buffers
<1>3. sum = [k \in 0..n |-> IF k = 0 THEN 0 ELSE sum[k - 1] + bufs[k].size]
  <2> DEFINE a == [k \in 1..n |-> bufs[k].size]
  <2>1. a \in [1..n -> Nat] /\ \A k \in 1..n : a[k] = bufs[k].size
    BY <1>2
  <2> HIDE DEF n, a
  <2>2. PICK g : g = [k \in 0..n |-> IF k = 0 THEN 0 ELSE g[k - 1] + a[k]]
    BY <1>2, <2>1, SumDefined
  <2>3. \A k \in 0..n : k # 0 => k \in 1..n
    BY <1>2
  <2>4. g = [k \in 0..n |-> IF k = 0 THEN 0 ELSE g[k - 1] + bufs[k].size]
    BY <2>1, <2>2, <2>3
  <2> QED
    BY <2>4
<1> DEFINE S == {k \in Nat : k <= n => sum[k] \in Nat}
<1> HIDE DEF sum, n
<1>4. 0 \in S
  BY <1>2, <1>3
<1>5. ASSUME NEW k \in Nat, k \in S
      PROVE  k + 1 \in S
  <2>1. k + 1 <= n => sum[k + 1] = sum[k] + bufs[k + 1].size /\ k + 1 \in 1..n
    BY <1>2, <1>3
  <2> QED
    BY <1>2, <1>5, <2>1
<1> HIDE DEF S
<1>6. Nat \subseteq S
  BY <1>4, <1>5, Induction
<1>7. sum[n] \in Nat
  BY <1>2, <1>6 DEF S
<1>8. n = 1 => sum[n] = bufs[1].size
  BY <1>2, <1>3
<1> QED
  BY <1>1, <1>7, <1>8 DEF Last, n

-----------------------------------------------------------------------------
(* Calls a handler makes of nginx.                                          *)

HttpRequests ==
  [head : BOOLEAN, count : Int, header : Int, declared : Int, length : Int,
   out : BOOLEAN, error : BOOLEAN, read : {"block", "test", "body"},
   write : {"phases", "writer", "none"}, active : BOOLEAN,
   life : {"live", "dying", "freed", "crashed"}]

\* No body without a header, and after a 200 the first body has the length
\* declared, or none went out because of an error; one says that the location
\* declares what it sends.
Sound(r, one) ==
  /\ r.header = 0 => r.length = -1
  /\ r.header = 200 /\ ~r.head /\ one =>
       IF r.length = -1 THEN r.error ELSE r.length = r.declared

\* Sending does not touch the references, the handlers and the life of a request.
SameHold(q, r) ==
  /\ q.head = r.head /\ q.count = r.count /\ q.read = r.read /\ q.write = r.write
  /\ q.active = r.active /\ q.life = r.life

LEMMA SendHeaderOf ==
  ASSUME NEW r \in HttpRequests, NEW status \in Int \ {0}, NEW len \in Int
  PROVE  LET h == SendHeader(r, status, len)
         IN  /\ h.req \in HttpRequests /\ SameHold(h.req, r)
             /\ h.req.out = r.out /\ h.req.error = r.error /\ h.req.length = r.length
             /\ h.req.header = IF r.header = 0 THEN status ELSE r.header
             /\ h.req.declared = IF r.header = 0 THEN len ELSE r.declared
             /\ h.rc = IF r.header = 0 THEN NGX_OK ELSE NGX_ERROR
<1>1. CASE r.header = 0
  BY <1>1 DEF SendHeader, Result, HttpRequests, SameHold
<1>2. CASE r.header # 0
  BY <1>2 DEF SendHeader, Result, HttpRequests, SameHold
<1> QED
  BY <1>1, <1>2

LEMMA OutputOf ==
  ASSUME NEW r \in HttpRequests, NEW len \in Int, NEW o \in Output(r, len)
  PROVE  /\ o.req \in HttpRequests /\ SameHold(o.req, r)
         /\ o.req.header = r.header /\ o.req.declared = r.declared
         /\ \/ o.rc = NGX_ERROR /\ o.req.error /\ o.req.length = r.length
            \/ /\ o.rc = NGX_AGAIN /\ o.req.out /\ ~o.req.error /\ ~r.error
               /\ o.req.length = IF r.length = -1 THEN len ELSE r.length
            \/ /\ o.rc = NGX_OK /\ o.req.out = r.out /\ ~r.out /\ ~o.req.error /\ ~r.error
               /\ o.req.length = IF r.length = -1 THEN len ELSE r.length
<1> DEFINE sent == [r EXCEPT !.length = IF @ = -1 THEN len ELSE @]
           failed == Result(NGX_ERROR, [r EXCEPT !.error = TRUE])
           blocked == Result(NGX_AGAIN, [sent EXCEPT !.out = TRUE])
           taken == Result(NGX_OK, sent)
<1>1. sent \in HttpRequests
  BY DEF HttpRequests
<1>2. /\ SameHold(sent, r) /\ sent.header = r.header /\ sent.declared = r.declared
      /\ sent.out = r.out /\ sent.error = r.error
      /\ sent.length = IF r.length = -1 THEN len ELSE r.length
  BY DEF HttpRequests, SameHold
<1>3. \/ o = failed
      \/ o = blocked /\ ~r.error
      \/ o = taken /\ ~r.error /\ ~r.out
  <2>1. r.error \in BOOLEAN /\ r.out \in BOOLEAN
    BY DEF HttpRequests
  <2> QED
    BY <2>1 DEF Output
<1>4. CASE o = failed
  BY <1>4 DEF HttpRequests, SameHold, Result
<1>5. CASE o = blocked /\ ~r.error
  <2> HIDE DEF sent
  <2> QED
    BY <1>1, <1>2, <1>5 DEF HttpRequests, SameHold, Result
<1>6. CASE o = taken /\ ~r.error /\ ~r.out
  <2> HIDE DEF sent
  <2> QED
    BY <1>1, <1>2, <1>6 DEF Result
<1> QED
  BY <1>3, <1>4, <1>5, <1>6

\* A header with its body.
LEMMA SendAndOutput ==
  ASSUME NEW r \in HttpRequests, NEW status \in Int \ {0}, NEW d \in Int, NEW len \in Int,
         NEW o \in Output(SendHeader(r, status, d).req, len)
  PROVE  /\ o.req \in HttpRequests /\ SameHold(o.req, r)
         /\ o.req.header = IF r.header = 0 THEN status ELSE r.header
         /\ \/ o.rc = NGX_ERROR /\ o.req.error
            \/ o.rc = NGX_AGAIN /\ o.req.out /\ ~o.req.error
            \/ o.rc = NGX_OK /\ ~o.req.out /\ ~o.req.error
         /\ \A one : /\ Sound(r, one)
                     /\ status = 200 /\ one => d = len /\ len # -1
                     => Sound(o.req, one)
<1> DEFINE q == SendHeader(r, status, d).req
<1>1. /\ q \in HttpRequests /\ SameHold(q, r)
      /\ q.out = r.out /\ q.error = r.error /\ q.length = r.length
      /\ q.header = IF r.header = 0 THEN status ELSE r.header
      /\ q.declared = IF r.header = 0 THEN d ELSE r.declared
  BY SendHeaderOf
<1> HIDE DEF q
<1>2. /\ o.req \in HttpRequests /\ SameHold(o.req, q)
      /\ o.req.header = q.header /\ o.req.declared = q.declared
      /\ \/ o.rc = NGX_ERROR /\ o.req.error /\ o.req.length = q.length
         \/ /\ o.rc = NGX_AGAIN /\ o.req.out /\ ~o.req.error /\ ~q.error
            /\ o.req.length = IF q.length = -1 THEN len ELSE q.length
         \/ /\ o.rc = NGX_OK /\ o.req.out = q.out /\ ~q.out /\ ~o.req.error /\ ~q.error
            /\ o.req.length = IF q.length = -1 THEN len ELSE q.length
  BY <1>1, OutputOf DEF q
<1>3. r.header \in Int /\ r.length \in Int /\ o.req.error \in BOOLEAN
  BY <1>2 DEF HttpRequests
<1> QED
  BY <1>1, <1>2, <1>3 DEF SameHold, Sound

LEMMA DoneOf ==
  ASSUME NEW r \in HttpRequests, r.life \in {"live", "dying"}, r.count \in 1..2, NEW rc
  PROVE  LET f == Done(r, rc)
         IN  /\ f \in HttpRequests /\ f.head = r.head /\ f.header = r.header
             /\ f.declared = r.declared /\ f.length = r.length /\ f.error = r.error
             /\ f.count \in 0..2 /\ (f.life = "freed" <=> f.count = 0)
             /\ f.life = "freed" => r.count = 1
             /\ f.life # "crashed"
             /\ f.life = "live" =>
                  /\ r.life = "live" /\ ~f.error
                  /\ f.read \in {"block", "test"} /\ f.write \in {"writer", "none"}
<1>1. r.count \in Int /\ r.error \in BOOLEAN /\ r.out \in BOOLEAN
  BY DEF HttpRequests
<1>2. CASE rc = NGX_ERROR \/ r.error
  BY <1>2 DEF Done, Terminate, HttpRequests
<1>3. CASE ~(rc = NGX_ERROR \/ r.error) /\ r.out
  <2> DEFINE q == [r EXCEPT !.read = "test", !.write = "writer", !.active = TRUE]
  <2>1. q \in HttpRequests
    BY DEF HttpRequests
  <2>2. /\ q.head = r.head /\ q.header = r.header
        /\ q.declared = r.declared /\ q.length = r.length /\ q.error = r.error
        /\ q.count = r.count /\ q.life = r.life /\ q.read = "test" /\ q.write = "writer"
    BY DEF HttpRequests
  <2>3. Done(r, rc) = q
    BY <1>3 DEF Done
  <2> HIDE DEF q
  <2> QED
    BY <1>1, <1>3, <2>1, <2>2, <2>3
<1>4. CASE ~(rc = NGX_ERROR \/ r.error) /\ ~r.out
  <2> DEFINE q == [r EXCEPT !.read = "block", !.write = "none"]
  <2>1. /\ q \in HttpRequests /\ q.head = r.head /\ q.header = r.header
        /\ q.declared = r.declared /\ q.length = r.length /\ q.error = r.error
        /\ q.count = r.count /\ q.life = r.life /\ q.read = "block" /\ q.write = "none"
    BY DEF HttpRequests
  <2>2. Done(r, rc) = Release(q)
    BY <1>4 DEF Done
  <2> HIDE DEF q
  <2>3. Release(q) \in HttpRequests
    <3>1. q.count - 1 \in Int
      BY <1>1, <2>1
    <3>2. (IF q.count = 1 THEN "freed" ELSE q.life) \in {"live", "dying", "freed", "crashed"}
      BY <2>1
    <3> QED
      BY <2>1, <3>1, <3>2 DEF Release, HttpRequests
  <2>4. /\ Release(q).count = r.count - 1
        /\ Release(q).life = (IF r.count = 1 THEN "freed" ELSE r.life)
    BY <2>1 DEF Release, HttpRequests
  <2>5. /\ Release(q).head = r.head /\ Release(q).header = r.header
        /\ Release(q).declared = r.declared /\ Release(q).length = r.length
        /\ Release(q).error = r.error /\ Release(q).read = "block"
        /\ Release(q).write = "none"
    BY <2>1 DEF Release, HttpRequests
  <2> QED
    BY <1>1, <1>4, <2>2, <2>3, <2>4, <2>5
<1> QED
  BY <1>2, <1>3, <1>4

\* A request in a handler: it holds its reference, perhaps another one.
InHandler(r) ==
  r \in HttpRequests /\ r.life \in {"live", "dying", "crashed"} /\ r.count \in 1..2

\* What a handler, a callback or finalization makes of r: a status, once sent,
\* stays; and the length stays sound.
Follows(f, r, one) ==
  /\ f \in HttpRequests /\ f.head = r.head
  /\ r.header # 0 => f.header = r.header
  /\ Sound(r, one) => Sound(f, one)

LEMMA FinalizeOf ==
  ASSUME NEW r, InHandler(r), NEW rc \in Int, NEW f \in Finalize(r, rc),
         NEW one
  PROVE  /\ Follows(f, r, one)
         /\ f.count \in 0..2 /\ (f.life = "freed" <=> f.count = 0)
         /\ f.life = "freed" => r.count = 1
         /\ f.life = "crashed" <=> r.life = "crashed"
         /\ f.life = "live" =>
              /\ r.life = "live" /\ ~f.error
              /\ f.read \in {"block", "test"} /\ f.write \in {"writer", "none"}
         /\ f.header = IF /\ r.life # "crashed" /\ ~r.error /\ r.header = 0
                          /\ rc >= NGX_HTTP_SPECIAL_RESPONSE
                       THEN rc ELSE r.header
<1>1. CASE r.life = "crashed"
  <2>1. f = r
    BY <1>1 DEF Finalize
  <2> QED
    BY <1>1, <2>1 DEF InHandler, Follows
<1>2. ASSUME r.life # "crashed", NEW q \in HttpRequests, SameHold(q, r), NEW c,
             f = Done(q, c), Sound(r, one) => Sound(q, one),
             q.header = IF /\ ~r.error /\ r.header = 0
                           /\ rc >= NGX_HTTP_SPECIAL_RESPONSE
                        THEN rc ELSE r.header
      PROVE  /\ Follows(f, r, one)
             /\ f.count \in 0..2 /\ (f.life = "freed" <=> f.count = 0)
             /\ f.life = "freed" => r.count = 1
             /\ f.life # "crashed"
             /\ f.life = "live" =>
                  /\ r.life = "live" /\ ~f.error
                  /\ f.read \in {"block", "test"} /\ f.write \in {"writer", "none"}
             /\ f.header = q.header
  <2>1. q.life \in {"live", "dying"} /\ q.count \in 1..2
    BY <1>2 DEF InHandler, SameHold
  <2>2. /\ f \in HttpRequests /\ f.head = q.head /\ f.header = q.header
        /\ f.declared = q.declared /\ f.length = q.length /\ f.error = q.error
        /\ f.count \in 0..2 /\ (f.life = "freed" <=> f.count = 0)
        /\ f.life = "freed" => q.count = 1
        /\ f.life # "crashed"
        /\ f.life = "live" =>
             /\ q.life = "live" /\ ~f.error
             /\ f.read \in {"block", "test"} /\ f.write \in {"writer", "none"}
    BY <1>2, <2>1, DoneOf
  <2>3. Sound(q, one) => Sound(f, one)
    BY <2>2 DEF Sound
  <2>4. Follows(f, r, one)
    BY <1>2, <2>2, <2>3 DEF Follows, SameHold
  <2> QED
    BY <1>2, <2>2, <2>4 DEF SameHold
<1>3. CASE r.life # "crashed" /\ rc >= NGX_HTTP_SPECIAL_RESPONSE /\ ~r.error
  <2>1. PICK p \in SpecialResponse(r, rc) : f = Done(p.req, p.rc)
    BY <1>3 DEF Finalize
  <2> DEFINE h == SendHeader(r, rc, 0)
  <2>2. r \in HttpRequests /\ rc \in Int \ {0} /\ 0 \in Int /\ rc # 200
    BY <1>3 DEF InHandler, NGX_HTTP_SPECIAL_RESPONSE
  <2>3. /\ h.req \in HttpRequests /\ SameHold(h.req, r)
        /\ h.req.out = r.out /\ h.req.error = r.error /\ h.req.length = r.length
        /\ h.req.header = IF r.header = 0 THEN rc ELSE r.header
        /\ h.req.declared = IF r.header = 0 THEN 0 ELSE r.declared
    BY <2>2, SendHeaderOf
  <2>4. p = h \/ p \in Output(h.req, 0)
    BY <2>1 DEF SpecialResponse
  <2>5. CASE p = h
    <3>1. Sound(r, one) => Sound(h.req, one)
      BY <2>2, <2>3 DEF Sound, SameHold
    <3> HIDE DEF h
    <3> QED
      BY <1>2, <1>3, <2>1, <2>3, <2>5, <3>1
  <2>6. CASE p \in Output(h.req, 0)
    <3>0. p \in Output(SendHeader(r, rc, 0).req, 0)
      BY <2>6
    <3>1. /\ p.req \in HttpRequests /\ SameHold(p.req, r)
          /\ p.req.header = IF r.header = 0 THEN rc ELSE r.header
          /\ \A b : /\ Sound(r, b)
                    /\ rc = 200 /\ b => 0 = 0 /\ 0 # -1
                    => Sound(p.req, b)
      BY <2>2, <3>0, SendAndOutput
    <3>2. Sound(r, one) => Sound(p.req, one)
      BY <2>2, <3>1
    <3> QED
      BY <1>2, <1>3, <2>1, <3>1, <3>2
  <2> QED
    BY <2>4, <2>5, <2>6
<1>4. CASE r.life # "crashed" /\ ~(rc >= NGX_HTTP_SPECIAL_RESPONSE /\ ~r.error)
  <2>1. f = Done(r, rc) /\ r \in HttpRequests /\ SameHold(r, r)
    BY <1>4 DEF Finalize, InHandler, SameHold
  <2> QED
    BY <1>2, <1>4, <2>1
<1> QED
  BY <1>1, <1>3, <1>4

-----------------------------------------------------------------------------
(* The content handlers.                                                    *)

LEMMA FollowsOn ==
  ASSUME NEW p, NEW q, NEW r, NEW one, Follows(q, r, one), Follows(p, q, one)
  PROVE  Follows(p, r, one)
BY DEF Follows

LEMMA RespondOf ==
  ASSUME NEW r, InHandler(r), NEW len \in Nat, NEW one, NEW o \in Respond(r, len)
  PROVE  Follows(o.req, r, one) /\ SameHold(o.req, r) /\ InHandler(o.req) /\ o.rc \in Int
<1>1. o \in Output(SendHeader(r, 200, len).req, len)
  BY DEF Respond, NGX_HTTP_OK
<1>2. r \in HttpRequests /\ 200 \in Int \ {0} /\ len \in Int /\ len # -1
  BY DEF InHandler
<1>3. /\ o.req \in HttpRequests /\ SameHold(o.req, r)
      /\ o.req.header = IF r.header = 0 THEN 200 ELSE r.header
      /\ \/ o.rc = NGX_ERROR /\ o.req.error
         \/ o.rc = NGX_AGAIN /\ o.req.out /\ ~o.req.error
         \/ o.rc = NGX_OK /\ ~o.req.out /\ ~o.req.error
      /\ \A b : /\ Sound(r, b)
                /\ 200 = 200 /\ b => len = len /\ len # -1
                => Sound(o.req, b)
  BY <1>1, <1>2, SendAndOutput
<1> QED
  BY <1>2, <1>3 DEF Follows, InHandler, SameHold, NGX_ERROR, NGX_AGAIN, NGX_OK

\* What a body callback leaves of a request that has a second reference.
LEMMA AnswerOf ==
  ASSUME NEW r, InHandler(r), r.life # "crashed", r.count = 2,
         NEW d \in Nat, NEW len \in Nat, NEW one, one => d = len, NEW q \in Answer(r, d, len)
  PROVE  Follows(q, r, one) /\ InHandler(q)
<1> DEFINE h == SendHeader(r, 200, d)
<1>1. r \in HttpRequests /\ 200 \in Int \ {0} /\ d \in Int /\ len \in Int /\ len # -1
  BY DEF InHandler
<1>2. /\ h.req \in HttpRequests /\ SameHold(h.req, r)
      /\ h.req.out = r.out /\ h.req.error = r.error /\ h.req.length = r.length
      /\ h.req.header = IF r.header = 0 THEN 200 ELSE r.header
      /\ h.req.declared = IF r.header = 0 THEN d ELSE r.declared
      /\ h.rc = IF r.header = 0 THEN NGX_OK ELSE NGX_ERROR
  BY <1>1, SendHeaderOf
<1>3. ASSUME NEW p, NEW c \in Int, Follows(p, r, one), SameHold(p, r), q \in Finalize(p, c)
      PROVE  Follows(q, r, one) /\ InHandler(q)
  <2>1. InHandler(p) /\ p.count = 2 /\ p.life # "crashed"
    BY <1>3 DEF InHandler, SameHold, Follows
  <2>2. /\ Follows(q, p, one) /\ q.count \in 0..2 /\ (q.life = "freed" <=> q.count = 0)
        /\ q.life = "freed" => p.count = 1
        /\ q.life = "crashed" <=> p.life = "crashed"
    BY <1>3, <2>1, FinalizeOf
  <2>3. InHandler(q)
    BY <2>1, <2>2 DEF Follows, InHandler, HttpRequests
  <2> QED
    BY <1>3, <2>2, <2>3, FollowsOn
<1>4. CASE h.rc = NGX_ERROR \/ r.head
  <2>1. q \in Finalize(h.req, h.rc)
    BY <1>4 DEF Answer, NGX_HTTP_OK
  <2> HIDE DEF h
  <2>2. Follows(h.req, r, one) /\ h.rc \in Int
    BY <1>1, <1>2, <1>4 DEF Follows, Sound, SameHold, NGX_OK, NGX_ERROR, HttpRequests
  <2> QED
    BY <1>2, <1>3, <2>1, <2>2
<1>5. CASE ~(h.rc = NGX_ERROR \/ r.head)
  <2>1. PICK o \in Output(SendHeader(r, 200, d).req, len) : q \in Finalize(o.req, o.rc)
    BY <1>5 DEF Answer, NGX_HTTP_OK
  <2>2. /\ o.req \in HttpRequests /\ SameHold(o.req, r)
        /\ o.req.header = IF r.header = 0 THEN 200 ELSE r.header
        /\ \/ o.rc = NGX_ERROR /\ o.req.error
           \/ o.rc = NGX_AGAIN /\ o.req.out /\ ~o.req.error
           \/ o.rc = NGX_OK /\ ~o.req.out /\ ~o.req.error
        /\ \A b : /\ Sound(r, b)
                  /\ 200 = 200 /\ b => d = len /\ len # -1
                  => Sound(o.req, b)
    BY <1>1, <2>1, SendAndOutput
  <2>3. Follows(o.req, r, one) /\ o.rc \in Int
    BY <1>1, <2>2 DEF Follows, SameHold, NGX_OK, NGX_ERROR, NGX_AGAIN
  <2> QED
    BY <1>3, <2>1, <2>2, <2>3
<1> QED
  BY <1>4, <1>5

\* A result with which a handler of r may go on or return.
GoesOn(h, r, one) == Follows(h.req, r, one) /\ InHandler(h.req) /\ h.rc \in Int

LEMMA AfterReadOf ==
  ASSUME NEW r, NEW one, NEW results, \A b \in results : GoesOn(b, r, one),
         NEW len \in Nat, NEW h \in AfterRead(results, len)
  PROVE  GoesOn(h, r, one)
<1>1. PICK b \in results : h = b \/ h \in Respond(b.req, len)
  BY DEF AfterRead
<1>2. GoesOn(b, r, one)
  OBVIOUS
<1>3. CASE h \in Respond(b.req, len)
  <2>1. InHandler(b.req)
    BY <1>2 DEF GoesOn
  <2>2. Follows(h.req, b.req, one) /\ InHandler(h.req) /\ h.rc \in Int
    BY <1>3, <2>1, RespondOf
  <2> QED
    BY <1>2, <2>2, FollowsOn DEF GoesOn
<1> QED
  BY <1>1, <1>2, <1>3

\* A request as it comes to a handler.
Arrives(r) == r \in HttpRequests /\ r.life = "live" /\ r.count = 1

LEMMA ReadBodyOf ==
  ASSUME NEW r, Arrives(r), NEW one, NEW b \in Bodies, NEW posted,
         \A q \in posted : Follows(q, Reading(r), one) /\ InHandler(q),
         NEW h \in ReadBody(r, b, posted)
  PROVE  GoesOn(h, r, one)
<1>1. b.is \in {"read", "late", "bad"}
  BY HttpAssumption
<1>2. /\ Reading(r) \in HttpRequests /\ Reading(r).count = 2
      /\ Reading(r).head = r.head /\ Reading(r).header = r.header
      /\ Reading(r).declared = r.declared /\ Reading(r).length = r.length
      /\ Reading(r).error = r.error /\ Reading(r).life = r.life
  BY DEF Reading, Arrives, HttpRequests
<1>3. Follows(Reading(r), r, one)
  BY <1>2 DEF Follows, Sound
<1>4. CASE b.is = "read"
  <2>1. PICK q \in posted : h = Result(NGX_OK, q)
    BY <1>4 DEF ReadBody
  <2> QED
    BY <1>3, <2>1, FollowsOn DEF GoesOn, Result, NGX_OK
<1>5. CASE b.is = "late"
  <2> DEFINE q == [Reading(r) EXCEPT !.read = "body"]
  <2>1. h = Result(NGX_AGAIN, q)
    BY <1>5 DEF ReadBody
  <2>2. /\ q \in HttpRequests /\ q.count = 2 /\ q.life = "live"
        /\ q.head = r.head /\ q.header = r.header /\ q.declared = r.declared
        /\ q.length = r.length /\ q.error = r.error
    BY <1>2 DEF Arrives, HttpRequests
  <2> HIDE DEF q
  <2> QED
    BY <2>1, <2>2 DEF GoesOn, Follows, InHandler, Sound, Result, NGX_AGAIN
<1>6. CASE b.is = "bad"
  BY <1>6 DEF ReadBody, Result, GoesOn, Follows, InHandler, Arrives
<1> QED
  BY <1>1, <1>4, <1>5, <1>6

\* What the body callbacks leave behind.
LEMMA EchoLengthOf ==
  ASSUME NEW r, InHandler(r), r.life # "crashed", r.count = 2, NEW b \in Bodies, NEW one,
         NEW q \in EchoLength(r, b.bufs)
  PROVE  Follows(q, r, one) /\ InHandler(q)
<1> DEFINE d == Digits(Total(b.bufs))
<1>1. d \in Nat
  <2>1. d \in 1..20
    BY HttpAssumption
  <2> HIDE DEF d
  <2> QED
    BY <2>1
<1>2. q \in Answer(r, d, d)
  BY DEF EchoLength
<1> HIDE DEF d
<1> QED
  BY <1>1, <1>2, AnswerOf

LEMMA DumpLastOf ==
  ASSUME NEW r, InHandler(r), r.life # "crashed", r.count = 2, NEW b \in Bodies,
         NEW q \in DumpLast(r, b.bufs)
  PROVE  Follows(q, r, Len(b.bufs) = 1 /\ ~b.bufs[1].in_file) /\ InHandler(q)
<1> DEFINE one == Len(b.bufs) = 1 /\ ~b.bufs[1].in_file
<1>1. b.bufs \in Seq(Buffers)
  BY HttpAssumption DEF Buffers
<1>2. CASE q = [r EXCEPT !.life = "crashed"]
  <2>1. /\ q \in HttpRequests /\ q.count = r.count /\ q.life = "crashed"
        /\ q.head = r.head /\ q.header = r.header /\ q.declared = r.declared
        /\ q.length = r.length /\ q.error = r.error
    BY <1>2 DEF InHandler, HttpRequests
  <2> QED
    BY <2>1 DEF InHandler, Follows, Sound
<1>3. CASE b.bufs = <<>> /\ q # [r EXCEPT !.life = "crashed"]
  <2>1. ~one
    BY <1>3
  <2>3. CASE q \in Finalize(r, 500)
    <3> HIDE DEF one
    <3>1. /\ Follows(q, r, one) /\ q.count \in 0..2 /\ (q.life = "freed" <=> q.count = 0)
          /\ q.life = "freed" => r.count = 1
          /\ q.life = "crashed" <=> r.life = "crashed"
      BY <2>3, FinalizeOf
    <3>2. InHandler(q)
      BY <3>1 DEF Follows, InHandler, HttpRequests
    <3> QED
      BY <3>1, <3>2 DEF one
  <2>4. ASSUME NEW len \in 1..2, q \in Answer(r, 1, len)
        PROVE  Follows(q, r, one) /\ InHandler(q)
    <3> HIDE DEF one
    <3> QED
      BY <2>1, <2>4, AnswerOf
  <2> QED
    BY <1>3, <2>3, <2>4 DEF DumpLast
<1>4. CASE b.bufs # <<>> /\ q # [r EXCEPT !.life = "crashed"]
  <2> DEFINE d == Total(b.bufs) + 1
             len == Held(Last(b.bufs)) + 1
  <2>1. q \in Answer(r, d, len)
    BY <1>4 DEF DumpLast
  <2>2. Last(b.bufs) \in Buffers /\ (one => ~Last(b.bufs).in_file)
    BY <1>1, <1>4 DEF Last
  <2>3. /\ Total(b.bufs) \in Nat /\ Held(Last(b.bufs)) \in Nat
        /\ one => Total(b.bufs) = Held(Last(b.bufs))
    BY <1>1, <2>2, TotalOfOne DEF Held, Buffers
  <2>4. d \in Nat /\ len \in Nat /\ (one => d = len)
    BY <2>2, <2>3
  <2> HIDE DEF d, len, one
  <2>5. Follows(q, r, one) /\ InHandler(q)
    BY <2>1, <2>4, AnswerOf
  <2> QED
    BY <2>5 DEF one
<1> QED
  BY <1>2, <1>3, <1>4

\* What a content handler returns.
LEMMA HandleOf ==
  ASSUME NEW l, l.content \in {"greetings", "echo", "dump"}, Arrives(req), body \in Bodies,
         NEW h \in Handle(l)
  PROVE  GoesOn(h, req, l.content = "dump" => Dumpable)
<1> DEFINE one == l.content = "dump" => Dumpable
<1>1. InHandler(req)
  BY DEF Arrives, InHandler
<1>2. /\ Reading(req) \in HttpRequests /\ Reading(req).count = 2
      /\ Reading(req).life = "live"
  BY DEF Reading, Arrives, HttpRequests
<1>3. InHandler(Reading(req)) /\ Reading(req).life # "crashed"
  BY <1>2 DEF InHandler
<1>4. ASSUME NEW len \in Nat, h \in Respond(req, len)
      PROVE  GoesOn(h, req, one)
  BY <1>1, <1>4, RespondOf DEF GoesOn
<1>5. CASE l.content = "greetings"
  BY <1>4, <1>5 DEF Handle, Greetings
<1>6. CASE l.content = "echo"
  <2>1. CASE Enabled(l)
    <3> DEFINE posted == EchoLength(Reading(req), body.bufs)
    <3>1. h \in AfterRead(ReadBody(req, body, posted), 28)
      BY <1>6, <2>1 DEF Handle, Echo
    <3>2. \A q \in posted : Follows(q, Reading(req), one) /\ InHandler(q)
      BY <1>2, <1>3, EchoLengthOf
    <3> HIDE DEF posted, one
    <3>3. \A p \in ReadBody(req, body, posted) : GoesOn(p, req, one)
      BY <3>2, ReadBodyOf
    <3>4. GoesOn(h, req, one)
      BY <3>1, <3>3, AfterReadOf
    <3> QED
      BY <3>4 DEF one
  <2>2. CASE ~Enabled(l)
    BY <1>4, <1>6, <2>2 DEF Handle, Echo
  <2> QED
    BY <2>1, <2>2
<1>7. CASE l.content = "dump"
  <2> DEFINE posted == DumpLast(Reading(req), body.bufs)
  <2>1. h \in AfterRead(ReadBody(req, body, posted), 24)
    BY <1>7 DEF Handle, DumpBody
  <2>2. \A q \in posted : Follows(q, Reading(req), one) /\ InHandler(q)
    <3>1. one = (Len(body.bufs) = 1 /\ ~body.bufs[1].in_file)
      BY <1>7 DEF Dumpable
    <3> HIDE DEF posted, one
    <3>2. ASSUME NEW q \in posted
          PROVE  /\ Follows(q, Reading(req), Len(body.bufs) = 1 /\ ~body.bufs[1].in_file)
                 /\ InHandler(q)
      BY <1>2, <1>3, DumpLastOf DEF posted
    <3> QED
      BY <3>1, <3>2
  <2> HIDE DEF posted, one
  <2>3. \A p \in ReadBody(req, body, posted) : GoesOn(p, req, one)
    BY <2>2, ReadBodyOf
  <2>4. GoesOn(h, req, one)
    BY <2>1, <2>3, AfterReadOf
  <2> QED
    BY <2>4 DEF one
<1> QED
  BY <1>5, <1>6, <1>7

-----------------------------------------------------------------------------
(* The inductive invariant.                                                 *)

Types ==
  /\ route \in Routes /\ Loaded(route) /\ body \in Bodies
  /\ conf = [i \in DOMAIN route |-> Conf(route[i])]
  /\ at \in DOMAIN route
  /\ step \in {"access", "content", "wait"}
  /\ req \in HttpRequests
  /\ ctx \in {NULL} \cup Ctxs
  /\ answer \in [DOMAIN route -> {NULL} \cup Int]
  /\ DOMAIN served = DOMAIN route

\* The request has still to pass the access phase of the location, or to enter its
\* content handler.
Busy == step # "wait" \/ (req.life = "live" /\ req.write = "phases")

\* Who holds the request: in a phase nobody else; while the access phase waits,
\* the subrequest or, for a 401 that was blocked, nobody; and no event ends with a
\* request that is to be freed, in error, or reading its body.
Holds ==
  /\ step # "wait" =>
       Arrives(req) /\ req.write = "phases" /\ ~req.out /\ (ctx = NULL \/ ctx.done)
  /\ req.life \in {"live", "freed", "crashed"}
  /\ req.count \in 0..2 /\ (req.life = "freed" => req.count = 0)
  /\ req.life = "live" =>
       req.count # 0 /\ ~req.error /\ req.read \in {"block", "test"}
  /\ step = "wait" /\ req.life = "live" =>
       IF req.write = "phases"
       THEN /\ ctx # NULL
            /\ IF ctx.done THEN req.count = 1 /\ req.out ELSE req.count = 2 /\ ~req.out
       ELSE ctx = NULL \/ ctx.done

\* The ctx is that of the location the request is in, and no location has content
\* or an answer before the request is there.
Asks ==
  /\ IF ctx = NULL THEN answer[at] = NULL
     ELSE /\ ctx.subrequest = at /\ ctx.done = (answer[at] # NULL)
          /\ ctx.done => ctx.status = answer[at]
  /\ ~Protected(route[at]) => ctx = NULL
  /\ \A i \in DOMAIN route : i > at => answer[i] = NULL /\ served[i] = NULL
  /\ Busy => served[at] = NULL

Authorized(i) ==
  IF Protected(route[i])
  THEN Allows(answer[i]) \/ (answer[i] = 401 /\ ~Masked(route[i]))
  ELSE answer[i] = NULL

Authorizes ==
  /\ OnlyUnmaskedRefusalsPass
  /\ step = "content" => Authorized(at)

\* The variables once the locations up to i have authorized.
SetTo(i) == [v \in Variables |-> Expected(i, v)]

\* The variables are those of the locations before this one until its own
\* authorization sets them.
SetsVariables ==
  /\ variables \in {SetTo(at - 1), SetTo(at)}
  /\ ctx = NULL \/ ~ctx.done => variables = SetTo(at - 1)
  /\ step = "content" => variables = SetTo(at)
  /\ \A i \in DOMAIN route : served[i] # NULL => served[i] = SetTo(i)

\* Until its content has been served a request has no header but that of an
\* unmasked 401, and has that one if a location behind it refused it.
Refuses ==
  /\ RefusalsKeepTheirStatus
  /\ Busy =>
       /\ req.header \in {0, 401}
       /\ req.header # 0 => \E j \in 1..at : Refused(j)
       /\ \A j \in 1..at - 1 : Refused(j) => req.header # 0
  /\ step = "content" /\ Refused(at) => req.header # 0

\* The location the request is in declares what it sends.
Exact == route[at].content = "dump" => Dumpable

Inv ==
  /\ Types /\ Holds /\ Asks /\ Authorizes /\ SetsVariables /\ Refuses
  /\ Sound(req, Exact)

LEMMA SameExact ==
  ASSUME UNCHANGED <<route, body, at>>
  PROVE  Exact' <=> Exact
BY DEF Exact, Dumpable

\* Blocks nginx started with.
LEMMA RouteIsValid ==
  ASSUME Types, NEW i \in DOMAIN route
  PROVE  /\ DOMAIN route = 1..Len(route) /\ Len(route) \in Nat
         /\ Valid(route[i].outer) /\ Valid(route[i].inner)
         /\ Block(route[i].outer) # NULL /\ Block(route[i].inner) # NULL
         /\ conf[i] = Conf(route[i])
         /\ route[i].content \in {"greetings", "echo", "dump", "redirect"}
         /\ route[i].content = "redirect" => i + 1 \in DOMAIN route
<1> DEFINE L == [outer : Seq(Directives), inner : Seq(Directives),
                 enable : Seq({NULL} \cup Int),
                 content : {"greetings", "echo", "dump", "redirect"}]
           l == route[i]
<1>1. route \in Seq(L) /\ route \in Routes
  BY HttpAssumption DEF Types
<1>2. l \in L /\ DOMAIN route = 1..Len(route) /\ Len(route) \in Nat
  <2> HIDE DEF L
  <2> QED
    BY <1>1
<1>3. l.outer \in Seq(Directives) /\ l.inner \in Seq(Directives)
  BY <1>2
<1>4. \A d \in Range(l.outer \o l.inner) :
        d.name = "mask" => d.arg \in {"on", "off"}
  BY <1>1, HttpAssumption
<1>5. ASSUME NEW u \in Seq(Directives), NEW w \in Seq(Directives)
      PROVE  /\ \A k \in DOMAIN u : u[k] \in Range(u \o w)
             /\ \A k \in DOMAIN w : w[k] \in Range(u \o w)
  <2>1. \A k \in DOMAIN u : k \in DOMAIN (u \o w) /\ (u \o w)[k] = u[k]
    OBVIOUS
  <2>2. \A k \in DOMAIN w : Len(u) + k \in DOMAIN (u \o w) /\ (u \o w)[Len(u) + k] = w[k]
    OBVIOUS
  <2> QED
    BY <2>1, <2>2 DEF Range
<1>6. Valid(l.outer) /\ Valid(l.inner)
  <2> HIDE DEF l
  <2>1. /\ \A k \in DOMAIN l.outer : l.outer[k] \in Range(l.outer \o l.inner)
        /\ \A k \in DOMAIN l.inner : l.inner[k] \in Range(l.outer \o l.inner)
    BY <1>3, <1>5
  <2> QED
    BY <1>3, <1>4, <2>1 DEF Valid
<1>7. l.content = "redirect" => i + 1 \in DOMAIN route
  <2>1. route[Len(route)].content # "redirect"
    BY <1>1, HttpAssumption
  <2> QED
    BY <1>2, <2>1
<1> QED
  BY <1>2, <1>6, <1>7 DEF Types, Loaded

\* The flags and variables of the location the request is in.
LEMMA ConfIsFile ==
  ASSUME Types
  PROVE  /\ conf[at].uri = Empty <=> ~Protected(route[at])
         /\ conf[at].mask \in {"on", "off"} /\ (conf[at].mask = "off" <=> ~Masked(route[at]))
         /\ \A v \in Variables :
              v \in conf[at].vars <=> v \in Innermost(route[at], "auth_request_set")
<1>1. at \in DOMAIN route
  BY DEF Types
<1> QED
  BY <1>1, RouteIsValid, ConfSays

LEMMA MaxOf ==
  ASSUME NEW n \in Nat, NEW S \in SUBSET (1..n), S # {}
  PROVE  Max(S) \in S /\ \A y \in S : Max(S) >= y
<1> DEFINE T == {n - x : x \in S}
<1>1. T \subseteq Nat /\ T # {}
  <2>1. \A x \in S : n - x \in Nat
    OBVIOUS
  <2>2. PICK x : x \in S
    OBVIOUS
  <2>3. n - x \in T
    BY <2>2
  <2> QED
    BY <2>1, <2>3
<1>2. PICK m \in T : \A y \in T : m <= y
  BY <1>1, LeastNumber
<1>3. PICK z \in S : m = n - z
  BY <1>2
<1>4. \A y \in S : z >= y
  <2>1. \A y \in S : n - y \in T
    OBVIOUS
  <2> HIDE DEF T
  <2> QED
    BY <1>2, <1>3, <2>1
<1> QED
  BY <1>3, <1>4 DEF Max

Sets(i, v) == Protected(route[i]) /\ v \in Innermost(route[i], "auth_request_set")

\* The last location that sets a variable decides.
LEMMA ExpectedOf ==
  ASSUME NEW i \in Nat \ {0}, NEW v
  PROVE  Expected(i, v) = IF Sets(i, v) THEN [from |-> i, status |-> answer[i]]
                          ELSE Expected(i - 1, v)
<1> DEFINE S == {j \in 1..i : Sets(j, v)}
           P == {j \in 1..i - 1 : Sets(j, v)}
<1>1. /\ Expected(i, v) = IF S = {} THEN NULL ELSE [from |-> Max(S), status |-> answer[Max(S)]]
      /\ Expected(i - 1, v) = IF P = {} THEN NULL
                             ELSE [from |-> Max(P), status |-> answer[Max(P)]]
  BY DEF Expected, Sets
<1>2. CASE Sets(i, v)
  <2>1. S \in SUBSET (1..i) /\ i \in S
    BY <1>2
  <2>2. Max(S) \in S /\ Max(S) >= i
    <3> HIDE DEF S
    <3> QED
      BY <2>1, MaxOf
  <2>3. Max(S) = i
    BY <2>1, <2>2
  <2> QED
    BY <1>1, <1>2, <2>1, <2>3
<1>3. CASE ~Sets(i, v)
  <2>1. S = P
    BY <1>3
  <2> QED
    BY <1>1, <1>3, <2>1
<1> QED
  BY <1>2, <1>3

\* What a location expects depends on the answers up to it.
LEMMA SetToDepends ==
  ASSUME NEW i \in Nat, route' = route, \A j \in 1..i : answer'[j] = answer[j]
  PROVE  SetTo(i)' = SetTo(i)
<1>1. ASSUME NEW v
      PROVE  Expected(i, v)' = Expected(i, v)
  <2> DEFINE S == {j \in 1..i : Sets(j, v)}
  <2>1. Expected(i, v) = IF S = {} THEN NULL ELSE [from |-> Max(S), status |-> answer[Max(S)]]
    BY DEF Expected, Sets
  <2>2. Expected(i, v)' = IF S = {} THEN NULL
                          ELSE [from |-> Max(S), status |-> answer'[Max(S)]]
    BY DEF Expected, Sets
  <2>3. S # {} => Max(S) \in 1..i
    <3>1. S \in SUBSET (1..i)
      OBVIOUS
    <3> HIDE DEF S
    <3> QED
      BY <3>1, MaxOf
  <2> HIDE DEF S
  <2> QED
    BY <2>1, <2>2, <2>3
<1> QED
  BY <1>1 DEF SetTo

\* Authorization sets the variables of its location, and may do so again.
LEMMA SetVariablesOf ==
  ASSUME Types, Asks, SetsVariables, Protected(route[at]), ctx # NULL, ctx.done
  PROVE  SetVariables(conf[at], ctx, variables) = SetTo(at)
<1>1. at \in Nat \ {0}
  BY RouteIsValid DEF Types
<1>2. ctx.subrequest = at /\ ctx.status = answer[at]
  BY DEF Asks
<1>3. \A v \in Variables : v \in conf[at].vars <=> Sets(at, v)
  BY ConfIsFile DEF Sets
<1>4. ASSUME NEW v \in Variables
      PROVE  SetVariables(conf[at], ctx, variables)[v] = Expected(at, v)
  <2>1. Expected(at, v) = IF Sets(at, v) THEN [from |-> at, status |-> answer[at]]
                          ELSE Expected(at - 1, v)
    BY <1>1, ExpectedOf
  <2>2. variables[v] \in {Expected(at - 1, v), Expected(at, v)}
    BY DEF SetsVariables, SetTo
  <2> QED
    BY <1>2, <1>3, <2>1, <2>2 DEF SetVariables
<1> QED
  BY <1>4 DEF SetVariables, SetTo

-----------------------------------------------------------------------------
(* The steps.                                                               *)

\* The status the client gets for a refusal.
Code(status) == IF status \in {401, 403} THEN status ELSE 500

\* A request as it is in the phases.
InPhases(r) == Arrives(r) /\ r.write = "phases" /\ r.header \in {0, 401}

\* The fate of the service's answer: the worker dies, the request goes on, it is
\* refused with a status, or the unmasked 401 is sent.
LEMMA FateOf ==
  ASSUME NEW r, InPhases(r), ~r.error, ~r.out, NEW c, c.mask \in {"on", "off"},
         NEW status \in Int, NEW f \in Fate(r, c, status), NEW one
  PROVE  \/ f = Result(NGX_OK, [r EXCEPT !.life = "crashed"])
         \/ f = Result(NGX_OK, r) /\ Allows(status)
         \/ /\ f = Result(Code(status), r) /\ ~Allows(status)
            /\ status = 401 => c.mask = "on"
         \/ /\ status = 401 /\ c.mask = "off"
            /\ InPhases(f.req) /\ f.req.header = 401 /\ Follows(f.req, r, one)
            /\ f.req.read = r.read
            /\ \/ f.rc = NGX_ERROR
               \/ f.rc = NGX_AGAIN /\ f.req.out /\ ~f.req.error
               \/ f.rc = NGX_OK /\ ~f.req.out /\ ~f.req.error
<1>1. CASE status = 403
  BY <1>1 DEF Fate, Code, Allows
<1>2. CASE status = 401 /\ c.mask = "off"
  <2>1. f \in Output(SendHeader(r, 401, -1).req, 1)
    BY <1>2 DEF Fate
  <2>2. r \in HttpRequests
    BY DEF InPhases, Arrives
  <2>3. ASSUME NEW s, s = 401, NEW d, d = -1, NEW n, n = 1,
               NEW o \in Output(SendHeader(r, s, d).req, n)
        PROVE  /\ o.req \in HttpRequests /\ SameHold(o.req, r)
               /\ o.req.header = IF r.header = 0 THEN 401 ELSE r.header
               /\ \/ o.rc = NGX_ERROR /\ o.req.error
                  \/ o.rc = NGX_AGAIN /\ o.req.out /\ ~o.req.error
                  \/ o.rc = NGX_OK /\ ~o.req.out /\ ~o.req.error
               /\ \A b : Sound(r, b) => Sound(o.req, b)
    <3>1. s \in Int \ {0} /\ d \in Int /\ n \in Int /\ s # 200
      BY <2>3
    <3> HIDE <2>3
    <3>2. /\ o.req \in HttpRequests /\ SameHold(o.req, r)
          /\ o.req.header = IF r.header = 0 THEN s ELSE r.header
          /\ \/ o.rc = NGX_ERROR /\ o.req.error
             \/ o.rc = NGX_AGAIN /\ o.req.out /\ ~o.req.error
             \/ o.rc = NGX_OK /\ ~o.req.out /\ ~o.req.error
          /\ \A b : Sound(r, b) => Sound(o.req, b)
      BY <2>2, <3>1, SendAndOutput
    <3> QED
      BY <2>3, <3>2
  <2> QED
    BY <1>2, <2>1, <2>2, <2>3 DEF InPhases, Arrives, SameHold, Follows
<1>3. CASE status = 401 /\ c.mask = "on"
  BY <1>3 DEF Fate, Code, Allows
<1>4. CASE status \notin {401, 403}
  BY <1>4 DEF Fate, Code, Allows, NGX_HTTP_OK, NGX_HTTP_SPECIAL_RESPONSE
<1> QED
  BY <1>1, <1>2, <1>3, <1>4

\* What the access handler does.
LEMMA AccessOf ==
  ASSUME Inv, step = "access",
         NEW h \in AccessHandler(req, conf[at], ctx, variables, at)
  PROVE  \/ /\ ~Protected(route[at])
            /\ h = [rc |-> NGX_DECLINED, req |-> req, ctx |-> ctx, vars |-> variables]
         \/ /\ Protected(route[at]) /\ ctx = NULL
            /\ h = [rc |-> NGX_AGAIN, req |-> Subrequest(req), ctx |-> NewCtx(at),
                    vars |-> variables]
         \/ /\ Protected(route[at]) /\ ctx # NULL /\ ctx.done
            /\ h.ctx = ctx /\ h.vars = SetTo(at)
            /\ \E f \in Fate(req, conf[at], answer[at]) : h.rc = f.rc /\ h.req = f.req
<1>1. Types /\ Asks /\ SetsVariables /\ (ctx = NULL \/ ctx.done)
  BY DEF Inv, Holds
<1>2. conf[at].uri = Empty <=> ~Protected(route[at])
  BY <1>1, ConfIsFile
<1>3. CASE conf[at].uri = Empty
  BY <1>2, <1>3 DEF AccessHandler
<1>4. CASE conf[at].uri # Empty /\ ctx = NULL
  BY <1>2, <1>4 DEF AccessHandler
<1>5. CASE conf[at].uri # Empty /\ ctx # NULL
  <2>1. h \in {[rc |-> f.rc, req |-> f.req, ctx |-> ctx,
                vars |-> SetVariables(conf[at], ctx, variables)]
               : f \in Fate(req, conf[at], ctx.status)}
    BY <1>1, <1>5 DEF AccessHandler
  <2>2. ctx.status = answer[at]
    BY <1>1, <1>5 DEF Asks
  <2>3. SetVariables(conf[at], ctx, variables) = SetTo(at)
    BY <1>1, <1>2, <1>5, SetVariablesOf
  <2> QED
    BY <1>1, <1>2, <1>5, <2>1, <2>2, <2>3
<1> QED
  BY <1>3, <1>4, <1>5

\* A request between two events that is no longer in the phases.
Over(s) ==
  /\ s \in HttpRequests /\ s.life \in {"live", "freed", "crashed"}
  /\ s.count \in 0..2 /\ (s.life = "freed" => s.count = 0)
  /\ s.life = "live" =>
       /\ s.count # 0 /\ ~s.error
       /\ s.read \in {"block", "test"} /\ s.write \in {"writer", "none"}

LEMMA FreedOf ==
  ASSUME NEW r \in HttpRequests
  PROVE  LET u == [r EXCEPT !.count = 0, !.life = "freed"]
         IN  /\ u \in HttpRequests /\ u.life = "freed" /\ u.count = 0
             /\ u.head = r.head /\ u.header = r.header /\ u.declared = r.declared
             /\ u.length = r.length /\ u.error = r.error
<1> DEFINE q == [r EXCEPT !.count = 0]
           u == [q EXCEPT !.life = "freed"]
<1>1. /\ q \in HttpRequests /\ q.count = 0
      /\ q.head = r.head /\ q.header = r.header /\ q.declared = r.declared
      /\ q.length = r.length /\ q.error = r.error
  BY DEF HttpRequests
<1>2. [r EXCEPT !.count = 0, !.life = "freed"] = u
  BY DEF HttpRequests
<1> HIDE DEF q
<1>3. /\ u \in HttpRequests /\ u.life = "freed" /\ u.count = q.count
      /\ u.head = q.head /\ u.header = q.header /\ u.declared = q.declared
      /\ u.length = q.length /\ u.error = q.error
  BY <1>1 DEF HttpRequests
<1> QED
  BY <1>1, <1>2, <1>3

\* An event that ends with finalization.
LEMMA FinalizedIsOver ==
  ASSUME NEW r, InHandler(r), NEW rc \in Int, NEW f \in Finalize(r, rc), NEW one
  PROVE  /\ Over(Settle(f)) /\ Follows(Settle(f), r, one)
         /\ Settle(f).header = IF /\ r.life # "crashed" /\ ~r.error /\ r.header = 0
                                  /\ rc >= NGX_HTTP_SPECIAL_RESPONSE
                               THEN rc ELSE r.header
<1>1. /\ Follows(f, r, one)
      /\ f.count \in 0..2 /\ (f.life = "freed" <=> f.count = 0)
      /\ f.life = "live" =>
           /\ r.life = "live" /\ ~f.error
           /\ f.read \in {"block", "test"} /\ f.write \in {"writer", "none"}
      /\ f.header = IF /\ r.life # "crashed" /\ ~r.error /\ r.header = 0
                       /\ rc >= NGX_HTTP_SPECIAL_RESPONSE
                    THEN rc ELSE r.header
  BY FinalizeOf
<1>2. f \in HttpRequests
  BY <1>1 DEF Follows
<1> DEFINE s == Settle(f)
<1>3. CASE f.life = "dying"
  <2> DEFINE u == [f EXCEPT !.count = 0, !.life = "freed"]
  <2>0. s = u
    BY <1>3 DEF Settle
  <2>1. /\ u \in HttpRequests /\ u.life = "freed" /\ u.count = 0
        /\ u.head = f.head /\ u.header = f.header /\ u.declared = f.declared
        /\ u.length = f.length /\ u.error = f.error
    BY <1>2, FreedOf
  <2> HIDE DEF s, u
  <2>2. Over(s) /\ Follows(s, r, one) /\ s.header = f.header
    BY <1>1, <2>0, <2>1 DEF Over, Follows, Sound
  <2> QED
    BY <1>1, <2>2 DEF s
<1>4. CASE f.life # "dying"
  <2>1. s = f
    BY <1>4 DEF Settle
  <2>2. f.life \in {"live", "freed", "crashed"}
    BY <1>2, <1>4 DEF HttpRequests
  <2> QED
    BY <1>1, <1>2, <2>1, <2>2 DEF Over
<1> QED
  BY <1>3, <1>4

LEMMA TerminatedIsOver ==
  ASSUME NEW r \in HttpRequests, NEW one
  PROVE  /\ Over(Settle(Terminate(r))) /\ Follows(Settle(Terminate(r)), r, one)
         /\ Settle(Terminate(r)).header = r.header
<1> DEFINE d == [r EXCEPT !.life = "dying"]
           s == [d EXCEPT !.count = 0, !.life = "freed"]
<1>0. /\ d \in HttpRequests /\ d.life = "dying"
      /\ d.head = r.head /\ d.header = r.header /\ d.declared = r.declared
      /\ d.length = r.length /\ d.error = r.error
  BY DEF HttpRequests
<1>1. Settle(Terminate(r)) = s
  BY <1>0 DEF Settle, Terminate
<1>2. /\ s \in HttpRequests /\ s.life = "freed" /\ s.count = 0
      /\ s.head = d.head /\ s.header = d.header /\ s.declared = d.declared
      /\ s.length = d.length /\ s.error = d.error
  BY <1>0, FreedOf
<1> HIDE DEF s, d
<1> QED
  BY <1>0, <1>1, <1>2 DEF Over, Follows, Sound

First(i) == Refused(i) /\ \A j \in 1..i - 1 : ~Refused(j)

\* A header that is sent keeps the first refusal's status.
LEMMA StatusIsKept ==
  ASSUME RefusalsKeepTheirStatus, route' = route, answer' = answer,
         req.header # 0 => req'.header = req.header,
         \A i \in DOMAIN route :
           First(i) /\ req.header = 0 /\ req'.header # 0 => req'.header = Code(answer[i])
  PROVE  RefusalsKeepTheirStatus'
<1>1. ASSUME NEW i \in DOMAIN route, req'.header # 0, First(i)
      PROVE  req'.header = Code(answer[i])
  BY <1>1 DEF RefusalsKeepTheirStatus, First, Code
<1> QED
  BY <1>1 DEF RefusalsKeepTheirStatus, Refused, First, Code

\* Nothing is authorized or expected otherwise while route and answer stay.
LEMMA SameExpectations ==
  ASSUME Types, route' = route, answer' = answer
  PROVE  /\ \A i : Authorized(i)' = Authorized(i)
         /\ \A i : Refused(i)' = Refused(i)
         /\ \A i \in Nat : SetTo(i)' = SetTo(i)
<1>1. \A i \in Nat : SetTo(i)' = SetTo(i)
  BY SetToDepends
<1> QED
  BY <1>1 DEF Authorized, Protected, Masked, Innermost, Refused

\* Every step that leaves the phases, or is made after them.
LEMMA LeavesPhases ==
  ASSUME Inv, UNCHANGED <<route, body, conf, at, answer, ctx>>, step' = "wait",
         Over(req'), Follows(req', req, Exact),
         req'.life = "live" => ctx = NULL \/ ctx.done,
         variables' = variables \/ (ctx # NULL /\ ctx.done /\ variables' = SetTo(at)),
         \/ served' = served
         \/ step = "content" /\ served' = [served EXCEPT ![at] = variables],
         \A i \in DOMAIN route :
           First(i) /\ req.header = 0 /\ req'.header # 0 => req'.header = Code(answer[i])
  PROVE  Inv'
<1>1. Types'
  BY DEF Inv, Types, Over, Loaded
<1>2. ~Busy'
  BY DEF Busy, Over
<1>3. Holds'
  BY DEF Over, Holds
<1>4. Types /\ at \in Nat /\ DOMAIN route = 1..Len(route) /\ Len(route) \in Nat
  BY RouteIsValid DEF Inv, Types
<1>5. /\ \A i : Authorized(i)' = Authorized(i)
      /\ \A i : Refused(i)' = Refused(i)
      /\ \A i \in Nat : SetTo(i)' = SetTo(i)
  BY <1>4, SameExpectations
<1>6. \A i \in DOMAIN route :
        served'[i] = served[i] \/ (i = at /\ step = "content" /\ served'[i] = variables)
  BY <1>4 DEF Types
<1>7. Asks'
  <2>1. /\ IF ctx' = NULL THEN answer'[at'] = NULL
           ELSE /\ ctx'.subrequest = at' /\ ctx'.done = (answer'[at'] # NULL)
                /\ ctx'.done => ctx'.status = answer'[at']
        /\ ~Protected(route[at])' => ctx' = NULL
    BY DEF Inv, Asks, Protected, Innermost
  <2>2. \A i \in DOMAIN route : i > at => answer[i] = NULL /\ served'[i] = NULL
    BY <1>4, <1>6 DEF Inv, Asks
  <2> QED
    BY <1>2, <2>1, <2>2 DEF Asks
<1>8. Authorizes'
  <2>1. \A i \in DOMAIN route : served[i] # NULL => Authorized(i)
    BY DEF Inv, Authorizes, OnlyUnmaskedRefusalsPass, Authorized
  <2>2. \A i \in DOMAIN route : served'[i] # NULL => Authorized(i)'
    BY <1>5, <1>6, <2>1 DEF Inv, Authorizes
  <2> QED
    BY <2>2 DEF Authorizes, OnlyUnmaskedRefusalsPass, Authorized
<1>9. SetsVariables'
  <2>1. variables' \in {SetTo(at - 1), SetTo(at)}
    BY DEF Inv, SetsVariables
  <2>2. ctx = NULL \/ ~ctx.done => variables' = SetTo(at - 1)
    BY DEF Inv, SetsVariables
  <2>3. \A i \in DOMAIN route : served'[i] # NULL => served'[i] = SetTo(i)
    BY <1>6 DEF Inv, SetsVariables
  <2>4. SetTo(at - 1)' = SetTo(at - 1) /\ SetTo(at)' = SetTo(at)
    <3>1. at - 1 \in Nat
      BY <1>4 DEF Types
    <3> QED
      BY <1>4, <1>5, <3>1
  <2>5. variables' \in {SetTo(at - 1)', SetTo(at)'}
    BY <2>1, <2>4
  <2>6. ctx' = NULL \/ ~ctx'.done => variables' = SetTo(at - 1)'
    BY <2>2, <2>4
  <2>7. \A i \in DOMAIN route : served'[i] # NULL => served'[i] = SetTo(i)'
    BY <1>4, <1>5, <2>3
  <2> QED
    BY <2>5, <2>6, <2>7 DEF SetsVariables
<1>10. Refuses'
  <2>1. RefusalsKeepTheirStatus'
    BY StatusIsKept DEF Inv, Refuses, Follows
  <2> QED
    BY <1>2, <2>1 DEF Refuses, Busy
<1>11. Sound(req, Exact)'
  BY SameExact DEF Inv, Follows, Sound
<1> QED
  BY <1>1, <1>3, <1>7, <1>8, <1>9, <1>10, <1>11 DEF Inv

\* Every step that leaves the request in the phases of its location.
LEMMA StaysInPhases ==
  ASSUME Inv, step = "access", UNCHANGED <<route, body, conf, at, answer, served>>,
         req' \in HttpRequests, req'.life = "live", req'.write = "phases", ~req'.error,
         req'.header \in {0, 401}, req'.read \in {"block", "test"},
         Follows(req', req, Exact),
         req'.header # req.header => Refused(at) /\ req'.header = Code(answer[at]),
         IF ctx = NULL
         THEN ctx' = NULL \/ (Protected(route[at]) /\ ctx' = NewCtx(at))
         ELSE ctx' = ctx,
         IF ctx = NULL THEN variables' = variables ELSE variables' = SetTo(at),
         \/ /\ step' = "content" /\ Authorized(at) /\ (Refused(at) => req'.header # 0)
            /\ ctx' = ctx /\ req'.count = 1 /\ ~req'.out
         \/ /\ step' = "wait" /\ ctx' # NULL
            /\ IF ctx'.done THEN req'.count = 1 /\ req'.out ELSE req'.count = 2 /\ ~req'.out
  PROVE  Inv'
<1>1. Types /\ at \in Nat \ {0} /\ DOMAIN route = 1..Len(route) /\ Len(route) \in Nat
  BY RouteIsValid DEF Inv, Types
<1>2. NewCtx(at) \in Ctxs /\ NewCtx(at).subrequest = at /\ NewCtx(at).done = FALSE
  BY <1>1 DEF NewCtx, Ctxs
<1>3. NULL \notin Ctxs
  BY HttpAssumption DEF Ctxs
<1>4. ctx' \in {NULL} \cup Ctxs
  BY <1>2 DEF Inv, Types
<1>5. Types'
  BY <1>4 DEF Inv, Types, Loaded
<1>6. Busy /\ Busy' /\ (ctx = NULL \/ ctx.done)
  BY DEF Busy, Inv, Holds
<1>7. Holds'
  BY <1>6 DEF Holds, Arrives
<1>8. /\ \A i : Authorized(i)' = Authorized(i)
      /\ \A i : Refused(i)' = Refused(i)
      /\ \A i \in Nat : SetTo(i)' = SetTo(i)
  BY <1>1, SameExpectations
<1>9. Protected(route[at])' = Protected(route[at])
  BY DEF Protected, Innermost
<1>10. Asks'
  <2>1. /\ IF ctx' = NULL THEN answer[at] = NULL
           ELSE /\ ctx'.subrequest = at /\ ctx'.done = (answer[at] # NULL)
                /\ ctx'.done => ctx'.status = answer[at]
        /\ ~Protected(route[at]) => ctx' = NULL
    <3>1. CASE ctx' = NULL
      BY <3>1 DEF Inv, Asks
    <3>2. CASE ctx = NULL /\ ctx' = NewCtx(at) /\ Protected(route[at])
      <4>1. answer[at] = NULL
        BY <3>2 DEF Inv, Asks
      <4> QED
        BY <1>2, <1>3, <3>2, <4>1
    <3>3. CASE ctx # NULL /\ ctx' = ctx
      BY <3>3 DEF Inv, Asks
    <3> QED
      BY <3>1, <3>2, <3>3
  <2>2. \A i \in DOMAIN route : i > at => answer[i] = NULL /\ served[i] = NULL
    BY DEF Inv, Asks
  <2>3. served[at] = NULL
    BY <1>6 DEF Inv, Asks
  <2> QED
    BY <1>9, <2>1, <2>2, <2>3 DEF Asks
<1>11. Authorizes'
  <2>1. \A i \in DOMAIN route : served[i] # NULL => Authorized(i)
    BY DEF Inv, Authorizes, OnlyUnmaskedRefusalsPass, Authorized
  <2>2. \A i \in DOMAIN route : served'[i] # NULL => Authorized(i)'
    BY <1>8, <2>1
  <2>3. step' = "content" => Authorized(at)'
    BY <1>8
  <2> QED
    BY <2>2, <2>3 DEF Authorizes, OnlyUnmaskedRefusalsPass, Authorized
<1>12. SetsVariables'
  <2>1. at - 1 \in Nat /\ SetTo(at - 1)' = SetTo(at - 1) /\ SetTo(at)' = SetTo(at)
    <3>1. at - 1 \in Nat
      BY <1>1
    <3> QED
      BY <1>1, <1>8, <3>1
  <2>2. ctx = NULL => variables = SetTo(at - 1)
    BY DEF Inv, SetsVariables
  <2>3. ~Protected(route[at]) => SetTo(at) = SetTo(at - 1)
    <3>1. ASSUME NEW v, ~Protected(route[at])
          PROVE  Expected(at, v) = Expected(at - 1, v)
      BY <1>1, <3>1, ExpectedOf DEF Sets
    <3> QED
      BY <3>1 DEF SetTo
  <2>4. variables' \in {SetTo(at - 1), SetTo(at)}
    BY <2>2
  <2>5. ctx' = NULL \/ ~ctx'.done => variables' = SetTo(at - 1)
    BY <1>2, <1>6, <2>2
  <2>6. step' = "content" => variables' = SetTo(at)
    <3>1. step' = "content" /\ ctx = NULL => ~Protected(route[at])
      <4>1. ctx = NULL => answer[at] = NULL
        BY DEF Inv, Asks
      <4>2. step' = "content" => Authorized(at)
        OBVIOUS
      <4> QED
        BY <4>1, <4>2, HttpAssumption DEF Authorized, Allows
    <3> QED
      BY <2>2, <2>3, <3>1
  <2>7. \A i \in DOMAIN route : served[i] # NULL => served[i] = SetTo(i)'
    BY <1>1, <1>8 DEF Inv, SetsVariables
  <2> QED
    BY <2>1, <2>4, <2>5, <2>6, <2>7 DEF SetsVariables
<1>13. Refuses'
  <2>1. /\ req.header \in {0, 401}
        /\ req.header # 0 => \E j \in 1..at : Refused(j)
        /\ \A j \in 1..at - 1 : Refused(j) => req.header # 0
    BY <1>6 DEF Inv, Refuses
  <2>2. req.header # 0 => req'.header = req.header
    BY DEF Follows
  <2>3. ASSUME NEW i \in DOMAIN route, First(i), req.header = 0, req'.header # 0
        PROVE  req'.header = Code(answer[i])
    <3>1. ~(i < at)
      BY <1>1, <2>1, <2>3 DEF First
    <3>2. ~(i > at)
      BY <2>3 DEF Inv, Asks, First, Refused
    <3>3. i = at
      BY <1>1, <3>1, <3>2
    <3> QED
      BY <2>3, <3>3
  <2>4. RefusalsKeepTheirStatus'
    BY <2>2, <2>3, StatusIsKept DEF Inv, Refuses
  <2>5. req'.header # 0 => \E j \in 1..at : Refused(j)'
    BY <1>1, <1>8, <2>1, <2>2
  <2>6. \A j \in 1..at - 1 : Refused(j)' => req'.header # 0
    BY <1>8, <2>1, <2>2
  <2>7. step' = "content" /\ Refused(at)' => req'.header # 0
    BY <1>8
  <2> QED
    BY <2>4, <2>5, <2>6, <2>7 DEF Refuses
<1>14. Sound(req, Exact)'
  BY DEF Inv, Follows, Sound
<1> QED
  BY <1>5, <1>7, <1>10, <1>11, <1>12, <1>13, <1>14 DEF Inv

LEMMA AccessInv ==
  ASSUME Inv, Access
  PROVE  Inv'
<1> DEFINE one == Exact
<1>1. PICK h \in AccessHandler(req, conf[at], ctx, variables, at) :
        /\ ctx' = h.ctx /\ variables' = h.vars
        /\ \/ /\ h.req.life = "live" /\ h.rc \in {NGX_OK, NGX_DECLINED}
              /\ step' = "content" /\ req' = h.req
           \/ /\ h.req.life = "live" /\ h.rc = NGX_AGAIN
              /\ EventEnds(h.req)
           \/ /\ h.req.life = "live" /\ h.rc \notin {NGX_OK, NGX_DECLINED, NGX_AGAIN}
              /\ \E f \in Finalize(h.req, h.rc) : EventEnds(f)
           \/ /\ h.req.life # "live"
              /\ EventEnds(h.req)
  BY DEF Access
<1>2. step = "access" /\ UNCHANGED <<route, body, conf, at, answer, served>>
  BY DEF Access
<1>3. /\ Types /\ InPhases(req) /\ ~req.error /\ ~req.out /\ req.read \in {"block", "test"}
      /\ InHandler(req) /\ (ctx = NULL \/ ctx.done)
  BY <1>2 DEF Inv, Holds, Refuses, Busy, InPhases, Arrives, InHandler
<1>4. Follows(req, req, one)
  BY <1>3 DEF Follows, InHandler
<1>5. CASE /\ ~Protected(route[at])
           /\ h = [rc |-> NGX_DECLINED, req |-> req, ctx |-> ctx, vars |-> variables]
  <2>1. step' = "content" /\ UNCHANGED <<ctx, variables, req>>
    BY <1>1, <1>3, <1>5 DEF InPhases, Arrives, NGX_DECLINED, NGX_AGAIN
  <2>2. ctx = NULL /\ answer[at] = NULL
    BY <1>5 DEF Inv, Asks
  <2>3. Authorized(at) /\ ~Refused(at)
    BY <1>5, <2>2 DEF Authorized, Refused
  <2> QED
    BY <1>2, <1>3, <1>4, <2>1, <2>2, <2>3, StaysInPhases DEF InPhases, Arrives
<1>6. CASE /\ Protected(route[at]) /\ ctx = NULL
           /\ h = [rc |-> NGX_AGAIN, req |-> Subrequest(req), ctx |-> NewCtx(at),
                   vars |-> variables]
  <2> DEFINE r == Subrequest(req)
  <2>1. /\ r \in HttpRequests /\ r.count = 2 /\ r.life = "live" /\ r.write = "phases"
        /\ ~r.error /\ ~r.out /\ r.read = req.read /\ r.head = req.head
        /\ r.header = req.header /\ r.declared = req.declared /\ r.length = req.length
        /\ r.error = req.error
    BY <1>3 DEF Subrequest, InPhases, Arrives, HttpRequests
  <2> HIDE DEF r
  <2>2. Follows(r, req, one)
    BY <2>1 DEF Follows, Sound
  <2>3. h.req = r /\ h.rc = NGX_AGAIN /\ h.ctx = NewCtx(at) /\ h.vars = variables
    BY <1>6 DEF r
  <2>4. step' = "wait" /\ req' = r /\ ctx' = NewCtx(at) /\ variables' = variables
    BY <1>1, <2>1, <2>3 DEF EventEnds, Settle, NGX_OK, NGX_DECLINED, NGX_AGAIN
  <2>5. NewCtx(at) # NULL /\ ~NewCtx(at).done
    <3>1. at \in Int
      BY <1>3, RouteIsValid DEF Types
    <3>2. NewCtx(at) \in Ctxs /\ ~NewCtx(at).done
      BY <3>1 DEF NewCtx, Ctxs
    <3> QED
      BY <3>2, HttpAssumption DEF Ctxs
  <2> QED
    BY <1>2, <1>3, <1>6, <2>1, <2>2, <2>4, <2>5, StaysInPhases DEF InPhases
<1>7. ASSUME Protected(route[at]), ctx # NULL, ctx.done, h.ctx = ctx, h.vars = SetTo(at),
             NEW f \in Fate(req, conf[at], answer[at]), h.rc = f.rc, h.req = f.req
      PROVE  Inv'
  <2>1. conf[at].mask \in {"on", "off"} /\ (conf[at].mask = "off" <=> ~Masked(route[at]))
    BY <1>3, ConfIsFile
  <2>2. answer[at] \in Int
    BY <1>3, <1>7 DEF Inv, Asks, Types
  <2>3. ctx' = ctx /\ variables' = SetTo(at)
    BY <1>1, <1>7
  <2>4. ASSUME req.header = 0, NEW i \in DOMAIN route, First(i)
        PROVE  i = at
    <3>1. ~(i < at)
      BY <1>2, <1>3, <2>4, RouteIsValid DEF Inv, Refuses, Busy, First, Types
    <3>2. ~(i > at)
      BY <2>4 DEF Inv, Asks, First, Refused
    <3> QED
      BY <1>3, <3>1, <3>2, RouteIsValid DEF Types
  <2>5. CASE f = Result(NGX_OK, [req EXCEPT !.life = "crashed"])
    <3> DEFINE r == [req EXCEPT !.life = "crashed"]
    <3>1. /\ r \in HttpRequests /\ r.life = "crashed" /\ r.count = req.count
          /\ r.head = req.head /\ r.header = req.header /\ r.declared = req.declared
          /\ r.length = req.length /\ r.error = req.error
      BY <1>3 DEF InPhases, Arrives, HttpRequests
    <3>2. f.req = r
      BY <2>5 DEF Result
    <3> HIDE DEF r
    <3>3. step' = "wait" /\ req' = r
      BY <1>1, <1>7, <3>1, <3>2 DEF EventEnds, Settle
    <3>4. Over(req') /\ Follows(req', req, one) /\ req'.life # "live"
      BY <1>3, <3>1, <3>3 DEF Over, Follows, Sound, InPhases, Arrives
    <3> QED
      BY <1>2, <1>7, <2>3, <3>1, <3>3, <3>4, LeavesPhases
  <2>6. CASE f = Result(NGX_OK, req) /\ Allows(answer[at])
    <3>1. step' = "content" /\ req' = req
      BY <1>1, <1>3, <1>7, <2>6 DEF Result, InPhases, Arrives, NGX_OK, NGX_AGAIN
    <3>2. Authorized(at) /\ ~Refused(at)
      BY <1>7, <2>6 DEF Authorized, Refused
    <3> QED
      BY <1>2, <1>3, <1>4, <1>7, <2>3, <3>1, <3>2, StaysInPhases DEF InPhases, Arrives
  <2>7. CASE /\ f = Result(Code(answer[at]), req) /\ ~Allows(answer[at])
    <3>1. Code(answer[at]) \in Int /\ Code(answer[at]) >= NGX_HTTP_SPECIAL_RESPONSE
      BY <2>2 DEF Code, NGX_HTTP_SPECIAL_RESPONSE
    <3>2. f.rc = Code(answer[at]) /\ f.req = req
      BY <2>7 DEF Result
    <3>3. PICK e \in Finalize(req, Code(answer[at])) : EventEnds(e)
      BY <1>1, <1>3, <1>7, <3>1, <3>2
         DEF InPhases, Arrives, NGX_OK, NGX_DECLINED, NGX_AGAIN, NGX_HTTP_SPECIAL_RESPONSE
    <3>4. step' = "wait" /\ req' = Settle(e)
      BY <3>3 DEF EventEnds
    <3>5. /\ Over(Settle(e)) /\ Follows(Settle(e), req, one)
          /\ req.header = 0 => Settle(e).header = Code(answer[at])
      BY <1>3, <3>1, FinalizedIsOver DEF InPhases, Arrives
    <3>6. \A i \in DOMAIN route :
            First(i) /\ req.header = 0 /\ req'.header # 0 => req'.header = Code(answer[i])
      BY <2>4, <3>4, <3>5
    <3> QED
      BY <1>2, <1>7, <2>3, <3>4, <3>5, <3>6, LeavesPhases
  <2>8. CASE /\ answer[at] = 401 /\ conf[at].mask = "off"
             /\ InPhases(f.req) /\ f.req.header = 401 /\ Follows(f.req, req, one)
             /\ f.req.read = req.read
             /\ \/ f.rc = NGX_ERROR
                \/ f.rc = NGX_AGAIN /\ f.req.out /\ ~f.req.error
                \/ f.rc = NGX_OK /\ ~f.req.out /\ ~f.req.error
    <3>1. Authorized(at) /\ Refused(at) /\ Code(answer[at]) = 401
      <4>1. answer[at] # NULL
        BY <2>2, HttpAssumption
      <4> QED
        BY <1>7, <2>1, <2>8, <4>1 DEF Authorized, Refused, Allows, Code
    <3>2. f.req.life = "live" /\ f.req.write = "phases" /\ f.req.count = 1 /\ InHandler(f.req)
      BY <2>8 DEF InPhases, Arrives, InHandler
    <3>3. CASE f.rc = NGX_ERROR
      <4>1. PICK e \in Finalize(f.req, NGX_ERROR) : EventEnds(e)
        BY <1>1, <1>7, <3>2, <3>3 DEF NGX_OK, NGX_DECLINED, NGX_AGAIN, NGX_ERROR
      <4>2. step' = "wait" /\ req' = Settle(e)
        BY <4>1 DEF EventEnds
      <4>3. /\ Over(Settle(e)) /\ Follows(Settle(e), f.req, one)
            /\ Settle(e).header = 401
        <5>1. NGX_ERROR \in Int /\ ~(NGX_ERROR >= NGX_HTTP_SPECIAL_RESPONSE)
          BY DEF NGX_ERROR, NGX_HTTP_SPECIAL_RESPONSE
        <5> QED
          BY <2>8, <3>2, <5>1, FinalizedIsOver
      <4>4. Follows(req', req, one)
        BY <2>8, <4>2, <4>3, FollowsOn
      <4>5. \A i \in DOMAIN route :
              First(i) /\ req.header = 0 /\ req'.header # 0 => req'.header = Code(answer[i])
        BY <2>4, <3>1, <4>2, <4>3
      <4> QED
        BY <1>2, <1>7, <2>3, <4>2, <4>3, <4>4, <4>5, LeavesPhases
    <3>4. CASE f.rc = NGX_AGAIN /\ f.req.out /\ ~f.req.error
      <4>1. step' = "wait" /\ req' = f.req
        BY <1>1, <1>7, <3>2, <3>4
           DEF EventEnds, Settle, NGX_OK, NGX_DECLINED, NGX_AGAIN
      <4>2. req' \in HttpRequests
        BY <2>8, <4>1 DEF Follows
      <4> QED
        BY <1>2, <1>3, <1>7, <2>3, <2>8, <3>1, <3>2, <3>4, <4>1, <4>2, StaysInPhases
    <3>5. CASE f.rc = NGX_OK /\ ~f.req.out /\ ~f.req.error
      <4>1. step' = "content" /\ req' = f.req
        BY <1>1, <1>7, <3>2, <3>5 DEF NGX_OK, NGX_DECLINED, NGX_AGAIN
      <4>2. req' \in HttpRequests
        BY <2>8, <4>1 DEF Follows
      <4> QED
        BY <1>2, <1>3, <1>7, <2>3, <2>8, <3>1, <3>2, <3>5, <4>1, <4>2, StaysInPhases
    <3> QED
      BY <2>8, <3>3, <3>4, <3>5
  <2> HIDE DEF one
  <2> QED
    BY <1>3, <2>1, <2>2, <2>5, <2>6, <2>7, <2>8, FateOf
<1> QED
  BY <1>2, <1>5, <1>6, <1>7, AccessOf

LEMMA ContentInv ==
  ASSUME Inv, Content
  PROVE  Inv'
<1> DEFINE one == Exact
<1>1. /\ step = "content" /\ served' = [served EXCEPT ![at] = variables]
      /\ UNCHANGED <<route, body, conf, variables, answer>>
  BY DEF Content
<1>2. Types /\ at \in DOMAIN route /\ Arrives(req) /\ InHandler(req)
  BY <1>1 DEF Inv, Types, Holds, Arrives, InHandler
<1>3. /\ at \in Nat \ {0} /\ DOMAIN route = 1..Len(route) /\ Len(route) \in Nat
      /\ route[at].content \in {"greetings", "echo", "dump", "redirect"}
      /\ route[at].content = "redirect" => at + 1 \in DOMAIN route
  BY <1>2, RouteIsValid
<1>4. ctx = NULL \/ ctx.done
  BY <1>1 DEF Inv, Holds
<1>5. CASE route[at].content # "redirect"
  <2>1. PICK h \in Handle(route[at]) : \E f \in Finalize(h.req, h.rc) : EventEnds(f)
    BY <1>5 DEF Content
  <2>2. PICK f \in Finalize(h.req, h.rc) : EventEnds(f)
    BY <2>1
  <2>3. UNCHANGED <<at, ctx>> /\ step' = "wait" /\ req' = Settle(f)
    BY <1>5, <2>2 DEF Content, EventEnds
  <2>4. body \in Bodies
    BY <1>2 DEF Types
  <2>5. GoesOn(h, req, one)
    <3>1. route[at].content \in {"greetings", "echo", "dump"}
      BY <1>3, <1>5
    <3> QED
      BY <1>2, <2>1, <2>4, <3>1, HandleOf DEF Exact
  <2>6. Over(req') /\ Follows(req', req, one)
    <3> HIDE DEF one
    <3>1. InHandler(h.req) /\ h.rc \in Int /\ Follows(h.req, req, one)
      BY <2>5 DEF GoesOn
    <3>2. Over(Settle(f)) /\ Follows(Settle(f), h.req, one)
      BY <3>1, FinalizedIsOver
    <3> QED
      BY <2>3, <3>1, <3>2, FollowsOn
  <2>7. \A i \in DOMAIN route : First(i) => req.header # 0
    BY <1>1, <1>3 DEF Inv, Refuses, Busy, Asks, First, Refused
  <2> QED
    BY <1>1, <1>4, <2>3, <2>6, <2>7, LeavesPhases
<1>6. CASE route[at].content = "redirect"
  <2>1. at' = at + 1 /\ ctx' = NULL /\ step' = "access" /\ req' = req /\ at + 1 \in DOMAIN route
    BY <1>3, <1>6 DEF Content
  <2>2. /\ \A i : Authorized(i)' = Authorized(i)
        /\ \A i : Refused(i)' = Refused(i)
        /\ \A i \in Nat : SetTo(i)' = SetTo(i)
    BY <1>1, <1>2, SameExpectations
  <2>3. \A i \in DOMAIN route : IF i = at THEN served'[i] = variables ELSE served'[i] = served[i]
    BY <1>1, <1>2 DEF Types
  <2>4. Types'
    BY <1>1, <1>2, <2>1 DEF Types, Loaded
  <2>5. Holds'
    BY <1>1, <2>1 DEF Inv, Holds, Arrives
  <2>6. Asks'
    <3>1. \A i \in DOMAIN route : i > at => answer[i] = NULL /\ served[i] = NULL
      BY DEF Inv, Asks
    <3>2. \A i \in DOMAIN route : i > at + 1 => answer[i] = NULL /\ served'[i] = NULL
      BY <1>3, <2>3, <3>1
    <3>3. answer[at + 1] = NULL /\ served'[at + 1] = NULL
      BY <1>3, <2>1, <2>3, <3>1
    <3> QED
      BY <1>1, <2>1, <3>2, <3>3 DEF Asks
  <2>7. Authorizes'
    <3>1. \A i \in DOMAIN route : served[i] # NULL => Authorized(i)
      BY DEF Inv, Authorizes, OnlyUnmaskedRefusalsPass, Authorized
    <3>2. \A i \in DOMAIN route : served'[i] # NULL => Authorized(i)'
      BY <1>1, <2>2, <2>3, <3>1 DEF Inv, Authorizes
    <3> QED
      BY <1>1, <2>1, <3>2 DEF Authorizes, OnlyUnmaskedRefusalsPass, Authorized
  <2>8. SetsVariables'
    <3>1. variables = SetTo(at)
      BY <1>1 DEF Inv, SetsVariables
    <3>2. SetTo(at - 1)' = SetTo(at)
      <4>1. at' - 1 = at
        BY <1>3, <2>1
      <4>2. ASSUME NEW v
            PROVE  Expected(at - 1, v)' = Expected(at, v)
        <5> DEFINE S == {j \in 1..at : Sets(j, v)}
                   T == {j \in 1..at' - 1 : Sets(j, v)'}
        <5>1. Expected(at, v) = IF S = {} THEN NULL
                                ELSE [from |-> Max(S), status |-> answer[Max(S)]]
          BY DEF Expected, Sets
        <5>2. Expected(at - 1, v)' = IF T = {} THEN NULL
                                     ELSE [from |-> Max(T), status |-> answer'[Max(T)]]
          BY DEF Expected, Sets
        <5>3. T = S
          BY <1>1, <4>1 DEF Sets, Protected, Innermost
        <5> HIDE DEF S, T
        <5> QED
          BY <1>1, <5>1, <5>2, <5>3
      <4> QED
        BY <4>2 DEF SetTo
    <3>3. \A i \in DOMAIN route : served'[i] # NULL => served'[i] = SetTo(i)'
      <4>1. \A i \in DOMAIN route : served'[i] # NULL => served'[i] = SetTo(i)
        BY <2>3, <3>1 DEF Inv, SetsVariables
      <4> QED
        BY <1>3, <2>2, <4>1
    <3> QED
      BY <1>1, <2>1, <3>1, <3>2, <3>3 DEF SetsVariables
  <2>9. Refuses'
    <3>1. /\ req.header \in {0, 401}
          /\ req.header # 0 => \E j \in 1..at : Refused(j)
          /\ \A j \in 1..at - 1 : Refused(j) => req.header # 0
          /\ Refused(at) => req.header # 0
      BY <1>1 DEF Inv, Refuses, Busy
    <3>2. RefusalsKeepTheirStatus'
      BY <1>1, <2>1, StatusIsKept DEF Inv, Refuses
    <3>3. req.header # 0 => \E j \in 1..at + 1 : Refused(j)'
      BY <1>3, <2>2, <3>1
    <3>4. \A j \in 1..(at + 1) - 1 : Refused(j)' => req.header # 0
      BY <1>3, <2>2, <3>1
    <3> QED
      BY <2>1, <3>1, <3>2, <3>3, <3>4 DEF Refuses
  <2>10. Sound(req, Exact)'
    <3>1. req.header \in {0, 401} /\ req' = req
      BY <1>1, <2>1 DEF Inv, Refuses, Busy
    <3> QED
      BY <3>1 DEF Inv, Sound
  <2> QED
    BY <2>4, <2>5, <2>6, <2>7, <2>8, <2>9, <2>10 DEF Inv
<1> QED
  BY <1>5, <1>6

LEMMA ServiceAnswersInv ==
  ASSUME Inv, ServiceAnswers
  PROVE  Inv'
<1> PICK a \in Answers :
      /\ ctx' = AuthCalls(ctx, a)
      /\ answer' = [answer EXCEPT ![at] = Last(a)]
      /\ req' = [req EXCEPT !.count = @ - 1, !.active = @ \/ Len(a) = 1]
  BY DEF ServiceAnswers
<1>1. /\ step = "wait" /\ req.life = "live" /\ ctx # NULL /\ ~ctx.done /\ step' = "access"
      /\ UNCHANGED <<route, body, conf, at, variables, served>>
  BY DEF ServiceAnswers, InSubrequest
<1>2. Types /\ at \in Nat \ {0} /\ DOMAIN route = 1..Len(route) /\ Len(route) \in Nat
  BY RouteIsValid DEF Inv, Types
<1>3. ctx \in Ctxs /\ ctx.subrequest = at /\ answer[at] = NULL
  BY <1>1 DEF Inv, Types, Asks, Ctxs
<1>4. a \in Seq(Int) /\ a # <<>> /\ Last(a) \in Int /\ Last(a) # NULL
  <2>1. a \in Seq(Int) /\ a # <<>>
    BY HttpAssumption
  <2>2. Last(a) \in Int
    BY <2>1 DEF Last
  <2> QED
    BY <2>1, <2>2, HttpAssumption
<1>5. ctx' = [done |-> TRUE, status |-> Last(a), subrequest |-> at]
  BY <1>3, <1>4, LastCallCounts
<1>6. ctx' \in Ctxs /\ ctx' # NULL /\ ctx'.done = TRUE /\ ctx'.status = Last(a) /\ ctx'.subrequest = at
  <2>1. ctx' \in Ctxs /\ ctx'.done = TRUE /\ ctx'.status = Last(a) /\ ctx'.subrequest = at
    BY <1>2, <1>4, <1>5 DEF Ctxs
  <2> QED
    BY <2>1, HttpAssumption DEF Ctxs
<1>7. /\ answer'[at] = Last(a) /\ answer' \in [DOMAIN route -> {NULL} \cup Int]
      /\ \A i : i # at => answer'[i] = answer[i]
  <2>1. answer \in [DOMAIN route -> {NULL} \cup Int] /\ at \in DOMAIN route
    BY <1>2 DEF Types
  <2> QED
    BY <1>4, <2>1
<1>8. req.write = "phases" /\ req.count = 2 /\ ~req.out /\ ~req.error /\ Busy
  BY <1>1, <1>3, HttpAssumption DEF Inv, Holds, Ctxs, Busy
<1>9. /\ req' \in HttpRequests /\ req'.count = 1 /\ req'.life = "live" /\ req'.write = "phases"
      /\ ~req'.out /\ ~req'.error /\ req'.read = req.read /\ req'.head = req.head
      /\ req'.header = req.header /\ req'.declared = req.declared /\ req'.length = req.length
      /\ req'.error = req.error
  <2> DEFINE act == req.active \/ Len(a) = 1
             q == [req EXCEPT !.count = @ - 1]
  <2>1. req \in HttpRequests /\ act \in BOOLEAN
    BY <1>2 DEF Types
  <2>2. /\ q \in HttpRequests /\ q.count = 1 /\ q.life = "live" /\ q.write = "phases"
        /\ ~q.out /\ ~q.error /\ q.read = req.read /\ q.head = req.head
        /\ q.header = req.header /\ q.declared = req.declared /\ q.length = req.length
        /\ q.error = req.error
    BY <1>1, <1>8, <2>1 DEF HttpRequests
  <2>3. req' = [q EXCEPT !.active = act]
    BY <2>1 DEF HttpRequests
  <2> HIDE DEF act, q
  <2> QED
    BY <2>1, <2>2, <2>3 DEF HttpRequests
<1>10. Types'
  BY <1>1, <1>2, <1>6, <1>7, <1>9 DEF Types, Loaded
<1>11. Holds'
  BY <1>1, <1>6, <1>8, <1>9 DEF Inv, Holds, Arrives
<1>12. Asks'
  <2>1. Protected(route[at])' = Protected(route[at]) /\ Protected(route[at])
    BY <1>1 DEF Protected, Innermost, Inv, Asks
  <2>2. \A i \in DOMAIN route : i > at => answer'[i] = NULL /\ served[i] = NULL
    BY <1>2, <1>7 DEF Inv, Asks
  <2>3. served[at] = NULL
    BY <1>8 DEF Inv, Asks
  <2> QED
    BY <1>1, <1>4, <1>6, <1>7, <2>1, <2>2, <2>3 DEF Asks
<1>13. Authorizes'
  <2>1. ASSUME NEW i \in DOMAIN route, served'[i] # NULL
        PROVE  Authorized(i)'
    <3>1. i # at /\ served[i] # NULL
      BY <1>1, <1>8, <2>1 DEF Inv, Asks
    <3>2. Authorized(i)
      BY <3>1 DEF Inv, Authorizes, OnlyUnmaskedRefusalsPass, Authorized
    <3> QED
      BY <1>1, <1>7, <3>1, <3>2 DEF Authorized, Protected, Masked, Innermost
  <2> QED
    BY <1>1, <2>1 DEF Authorizes, OnlyUnmaskedRefusalsPass, Authorized
<1>14. SetsVariables'
  <2>1. variables = SetTo(at - 1)
    BY <1>1 DEF Inv, SetsVariables
  <2>2. SetTo(at - 1)' = SetTo(at - 1)
    <3> PICK n : n = at - 1
      OBVIOUS
    <3>1. n \in Nat /\ route' = route /\ \A j \in 1..n : answer'[j] = answer[j]
      BY <1>1, <1>2, <1>7
    <3>2. SetTo(n)' = SetTo(n)
      BY <3>1, SetToDepends
    <3>3. at' - 1 = n
      BY <1>1
    <3> QED
      BY <1>1, <3>2, <3>3 DEF SetTo, Expected
  <2>3. ASSUME NEW i \in DOMAIN route, served'[i] # NULL
        PROVE  served'[i] = SetTo(i)'
    <3>1. i # at /\ served[i] # NULL /\ ~(i > at)
      BY <1>1, <1>8, <2>3 DEF Inv, Asks
    <3>2. i \in Nat /\ \A j \in 1..i : answer'[j] = answer[j]
      BY <1>2, <1>7, <3>1
    <3>3. SetTo(i)' = SetTo(i)
      BY <1>1, <3>2, SetToDepends
    <3> QED
      BY <1>1, <3>1, <3>3 DEF Inv, SetsVariables
  <2> QED
    BY <1>1, <1>6, <2>1, <2>2, <2>3 DEF SetsVariables
<1>15. Refuses'
  <2>1. /\ req.header \in {0, 401}
        /\ req.header # 0 => \E j \in 1..at : Refused(j)
        /\ \A j \in 1..at - 1 : Refused(j) => req.header # 0
    BY <1>8 DEF Inv, Refuses
  <2>2. ~Refused(at) /\ \A i : i # at => Refused(i)' = Refused(i)
    BY <1>3, <1>7 DEF Refused
  <2>3. req.header # 0 => \E j \in 1..at - 1 : Refused(j)
    BY <1>2, <2>1, <2>2
  <2>4. req.header # 0 => \E j \in 1..at - 1 : Refused(j)'
    BY <1>2, <2>2, <2>3
  <2>5. RefusalsKeepTheirStatus'
    <3>1. ASSUME NEW i \in DOMAIN route, req'.header # 0, Refused(i)',
                 \A j \in 1..i - 1 : ~Refused(j)'
          PROVE  req'.header = IF answer'[i] \in {401, 403} THEN answer'[i] ELSE 500
      <4>1. i # at
        BY <1>9, <2>4, <3>1
      <4>2. Refused(i) /\ \A j \in 1..i - 1 : ~Refused(j)
        BY <2>2, <3>1, <4>1
      <4> QED
        BY <1>7, <1>9, <3>1, <4>1, <4>2 DEF Inv, Refuses, RefusalsKeepTheirStatus
    <3> QED
      BY <1>1, <3>1 DEF RefusalsKeepTheirStatus
  <2>6. \A j \in 1..at - 1 : Refused(j)' => req.header # 0
    BY <1>2, <2>1, <2>2
  <2>7. req.header # 0 => \E j \in 1..at : Refused(j)'
    BY <1>2, <2>4
  <2> QED
    BY <1>1, <1>9, <2>1, <2>5, <2>6, <2>7 DEF Refuses
<1>16. Sound(req, Exact)'
  BY <1>1, <1>9, SameExact DEF Inv, Sound
<1> QED
  BY <1>10, <1>11, <1>12, <1>13, <1>14, <1>15, <1>16 DEF Inv

\* The request is given up between two events.
LEMMA TerminateInv ==
  ASSUME Inv, ServiceFails \/ ClientGone
  PROVE  Inv'
<1>1. /\ step' = "wait" /\ req' = Settle(Terminate(req)) /\ req.life = "live"
      /\ UNCHANGED <<route, body, conf, at, ctx, variables, answer, served>>
  BY DEF ServiceFails, ClientGone, EventEnds, InSubrequest, Writable
<1>2. req \in HttpRequests
  BY DEF Inv, Types
<1>3. /\ Over(req') /\ Follows(req', req, Exact)
      /\ req'.header = req.header
  BY <1>1, <1>2, TerminatedIsOver
<1>4. req'.life # "live"
  BY <1>1, <1>2 DEF Settle, Terminate, HttpRequests
<1> QED
  BY <1>1, <1>3, <1>4, LeavesPhases

LEMMA SocketDrainsInv ==
  ASSUME Inv, SocketDrains
  PROVE  Inv'
<1> DEFINE r == [req EXCEPT !.out = FALSE]
           one == Exact
<1>1. /\ step = "wait" /\ req.life = "live" /\ req.out
      /\ UNCHANGED <<route, body, conf, at, ctx, variables, answer, served>>
      /\ \/ req.write = "writer" /\ \E f \in Finalize(r, NGX_OK) : EventEnds(f)
         \/ req.write = "phases" /\ req' = r /\ step' = "access"
  BY DEF SocketDrains, Writable
<1>2. Types /\ req \in HttpRequests /\ req.count \in 1..2 /\ ~req.error
  BY <1>1 DEF Inv, Types, Holds
<1>3. /\ r \in HttpRequests /\ r.life = "live" /\ r.count = req.count /\ r.write = req.write
      /\ r.head = req.head /\ r.header = req.header /\ r.declared = req.declared
      /\ r.length = req.length /\ r.error = req.error /\ r.read = req.read /\ ~r.out
  BY <1>1, <1>2 DEF HttpRequests
<1> HIDE DEF r, one
<1>4. InHandler(r) /\ Follows(r, req, one)
  BY <1>2, <1>3 DEF InHandler, Follows, Sound
<1>5. ASSUME req.write = "writer", NEW f \in Finalize(r, NGX_OK), EventEnds(f)
      PROVE  Inv'
  <2>1. step' = "wait" /\ req' = Settle(f)
    BY <1>5 DEF EventEnds
  <2>2. /\ Over(Settle(f)) /\ Follows(Settle(f), r, one)
        /\ Settle(f).header = r.header
    <3>1. NGX_OK \in Int /\ ~(NGX_OK >= NGX_HTTP_SPECIAL_RESPONSE)
      BY DEF NGX_OK, NGX_HTTP_SPECIAL_RESPONSE
    <3> QED
      BY <1>4, <3>1, FinalizedIsOver
  <2>3. Follows(req', req, Exact) /\ req'.header = req.header
    BY <1>3, <1>4, <2>1, <2>2, FollowsOn DEF one
  <2>4. ctx = NULL \/ ctx.done
    BY <1>1, <1>5 DEF Inv, Holds
  <2> QED
    BY <1>1, <2>1, <2>2, <2>3, <2>4, LeavesPhases
<1>6. ASSUME req.write = "phases", req' = r, step' = "access"
      PROVE  Inv'
  <2>1. ctx # NULL /\ ctx.done /\ req.count = 1
    BY <1>1, <1>6 DEF Inv, Holds
  <2>2. Types'
    BY <1>1, <1>2, <1>3, <1>6 DEF Types, Loaded
  <2>3. Holds'
    BY <1>1, <1>2, <1>3, <1>6, <2>1 DEF Inv, Holds, Arrives
  <2>4. Busy /\ Busy'
    BY <1>1, <1>6 DEF Busy
  <2>5. /\ \A i : Authorized(i)' = Authorized(i)
        /\ \A i : Refused(i)' = Refused(i)
        /\ \A i \in Nat : SetTo(i)' = SetTo(i)
    BY <1>1, <1>2, SameExpectations
  <2>6. Asks'
    BY <1>1, <2>4 DEF Inv, Asks, Protected, Innermost
  <2>7. Authorizes'
    BY <1>1, <1>6, <2>5 DEF Inv, Authorizes, OnlyUnmaskedRefusalsPass, Authorized
  <2>8. SetsVariables'
    <3>1. SetTo(at - 1)' = SetTo(at - 1) /\ SetTo(at)' = SetTo(at)
      BY <1>1 DEF SetTo, Expected, Protected, Innermost
    <3>2. \A i \in DOMAIN route : served[i] # NULL => served[i] = SetTo(i)'
      BY <1>2, <2>5, RouteIsValid DEF Inv, SetsVariables
    <3> QED
      BY <1>1, <1>6, <3>1, <3>2 DEF Inv, SetsVariables
  <2>9. Refuses'
    <3>1. RefusalsKeepTheirStatus'
      BY <1>1, <1>3, <1>6, StatusIsKept DEF Inv, Refuses
    <3> QED
      BY <1>1, <1>3, <1>6, <2>4, <2>5, <3>1 DEF Inv, Refuses
  <2>10. Sound(req, Exact)'
    BY <1>1, <1>3, <1>6, SameExact DEF Inv, Sound
  <2> QED
    BY <2>2, <2>3, <2>6, <2>7, <2>8, <2>9, <2>10 DEF Inv
<1> QED
  BY <1>1, <1>5, <1>6

LEMMA InitInv ==
  ASSUME Init
  PROVE  Inv
<1>1. PICK head \in BOOLEAN : req = NewRequest(head)
  BY DEF Init
<1>2. /\ route \in Routes /\ Loaded(route) /\ body \in Bodies
      /\ conf = [i \in DOMAIN route |-> Conf(route[i])]
      /\ at = 1 /\ step = "access" /\ ctx = NULL /\ variables = NotFound
      /\ answer = [i \in DOMAIN route |-> NULL]
      /\ served = [i \in DOMAIN route |-> NULL]
  BY DEF Init
<1>3. DOMAIN route = 1..Len(route) /\ at \in DOMAIN route
  <2>1. /\ route \in Seq([outer : Seq(Directives), inner : Seq(Directives),
                           enable : Seq({NULL} \cup Int),
                           content : {"greetings", "echo", "dump", "redirect"}])
        /\ route # <<>>
    BY <1>2, HttpAssumption
  <2> QED
    BY <1>2, <2>1
<1>4. /\ req \in HttpRequests /\ req.life = "live" /\ req.count = 1 /\ req.write = "phases"
      /\ req.read = "block" /\ ~req.out /\ ~req.error /\ req.header = 0 /\ req.length = -1
  BY <1>1 DEF NewRequest, HttpRequests
<1>5. Types
  BY <1>2, <1>3, <1>4 DEF Types
<1>6. Holds
  BY <1>2, <1>4 DEF Holds, Arrives
<1>7. Asks
  BY <1>2, <1>3 DEF Asks
<1>8. Authorizes
  BY <1>2 DEF Authorizes, OnlyUnmaskedRefusalsPass
<1>9. SetsVariables
  <2>1. SetTo(0) = NotFound
    <3>1. \A v : Expected(0, v) = NULL
      BY DEF Expected
    <3> QED
      BY <3>1 DEF SetTo, NotFound
  <2>2. at - 1 = 0
    BY <1>2
  <2>3. SetTo(at - 1) = NotFound
    BY <2>1, <2>2
  <2>4. \A i \in DOMAIN route : served[i] = NULL
    BY <1>2
  <2> QED
    BY <1>2, <2>3, <2>4 DEF SetsVariables
<1>10. Refuses
  BY <1>2, <1>3, <1>4 DEF Refuses, RefusalsKeepTheirStatus, Refused
<1>11. Sound(req, Exact)
  BY <1>4 DEF Sound
<1> QED
  BY <1>5, <1>6, <1>7, <1>8, <1>9, <1>10, <1>11 DEF Inv

\* The invariant is one: it holds of a new request, and every phase, answer and
\* socket event keeps it, for all routes, bodies, answers and variables.
THEOREM RequestInvariance == Spec => []Inv
<1>1. Init => Inv
  BY InitInv
<1>2. Inv /\ [Next]_vars => Inv'
  <2> SUFFICES ASSUME Inv, [Next]_vars
               PROVE  Inv'
    OBVIOUS
  <2>1. CASE Access
    BY <2>1, AccessInv
  <2>2. CASE Content
    BY <2>2, ContentInv
  <2>3. CASE ServiceAnswers
    BY <2>3, ServiceAnswersInv
  <2>4. CASE ServiceFails \/ ClientGone
    BY <2>4, TerminateInv
  <2>5. CASE SocketDrains
    BY <2>5, SocketDrainsInv
  <2>6. CASE UNCHANGED vars
    <3>1. UNCHANGED <<route, body, conf, at, step, req, ctx, variables, answer, served>>
      BY <2>6 DEF vars
    <3>2. Types'
      BY <3>1 DEF Inv, Types, Loaded
    <3>3. Holds'
      BY <3>1 DEF Inv, Holds, Arrives
    <3>4. Asks'
      BY <3>1 DEF Inv, Asks, Busy, Protected, Innermost
    <3>5. /\ \A i : Authorized(i)' = Authorized(i)
          /\ \A i : Refused(i)' = Refused(i)
          /\ \A i \in Nat : SetTo(i)' = SetTo(i)
      BY <3>1, SameExpectations DEF Inv
    <3>6. Authorizes'
      BY <3>1, <3>5 DEF Inv, Authorizes, OnlyUnmaskedRefusalsPass, Authorized
    <3>7. SetsVariables'
      <4>1. SetTo(at - 1)' = SetTo(at - 1) /\ SetTo(at)' = SetTo(at)
        BY <3>1 DEF SetTo, Expected, Protected, Innermost
      <4>2. \A i \in DOMAIN route : served[i] # NULL => served[i] = SetTo(i)'
        BY <3>5, RouteIsValid DEF Inv, SetsVariables
      <4> QED
        BY <3>1, <4>1, <4>2 DEF Inv, SetsVariables
    <3>8. Refuses'
      <4>1. RefusalsKeepTheirStatus'
        BY <3>1, StatusIsKept DEF Inv, Refuses
      <4> QED
        BY <3>1, <3>5, <4>1 DEF Inv, Refuses, Busy
    <3>9. Sound(req, Exact)'
      BY <3>1, SameExact DEF Inv, Sound
    <3> QED
      BY <3>2, <3>3, <3>4, <3>6, <3>7, <3>8, <3>9 DEF Inv
  <2> QED
    BY <2>1, <2>2, <2>3, <2>4, <2>5, <2>6 DEF Next
<1> QED
  BY <1>1, <1>2, PTL DEF Spec

\* Types, the count of references, whose ctx a request has; and between events no
\* request is still reading its body.
THEOREM RequestTypes == Spec => []TypeOK
<1>1. Inv => TypeOK
  <2> SUFFICES ASSUME Inv
               PROVE  TypeOK
    OBVIOUS
  <2>1. req \in HttpRequests /\ req.count \in 0..2
    BY DEF Inv, Types, Holds
  <2>2. step # "wait" => req.count = 1
    BY DEF Inv, Holds, Arrives
  <2>3. InSubrequest => req.count = 2
    BY DEF Inv, Holds, InSubrequest
  <2>4. ctx # NULL => ctx.subrequest = at /\ ctx.done = (answer[at] # NULL)
    BY DEF Inv, Asks
  <2> QED
    BY <2>1, <2>2, <2>3, <2>4 DEF TypeOK, Inv, Types, Holds, HttpRequests
<1> QED
  BY <1>1, RequestInvariance, PTL

\* Whatever lets a request through to a protected location's content is an answer
\* of the service in this location, and is 2xx unless it is an unmasked 401.
THEOREM RefusalsThatPass == Spec => []OnlyUnmaskedRefusalsPass
<1>1. Inv => OnlyUnmaskedRefusalsPass
  BY DEF Inv, Authorizes
<1> QED
  BY <1>1, RequestInvariance, PTL

\* If no location unmasks the answers of the service, no content is served without
\* authorization.
THEOREM MaskedContentIsAuthorized ==
  ASSUME \A r \in Routes : \A i \in DOMAIN r : Masked(r[i])
  PROVE  Spec => []ContentIsAuthorized
<1>1. Inv => ContentIsAuthorized
  BY DEF Inv, Types, Authorizes, OnlyUnmaskedRefusalsPass, ContentIsAuthorized
<1> QED
  BY <1>1, RequestInvariance, PTL

\* The first refusal on a request's way is the status of the header it gets.
THEOREM RefusalsReachTheClient == Spec => []RefusalsKeepTheirStatus
<1>1. Inv => RefusalsKeepTheirStatus
  BY DEF Inv, Refuses
<1> QED
  BY <1>1, RequestInvariance, PTL

\* A content handler finds each variable as the last authorization on its way
\* that sets it has left it, over any number of internal redirects.
THEOREM HandlersFindVariables == Spec => []VariablesSurviveRedirects
<1>1. Inv => VariablesSurviveRedirects
  <2>1. SUFFICES ASSUME Inv, NEW i \in DOMAIN route, served[i] # NULL, NEW v \in Variables
                 PROVE  served[i][v] = Expected(i, v)
    BY DEF VariablesSurviveRedirects
  <2>2. served[i] = SetTo(i)
    BY <2>1 DEF Inv, SetsVariables
  <2> QED
    BY <2>1, <2>2 DEF SetTo
<1> QED
  BY <1>1, RequestInvariance, PTL

\* No handler that goes on after its callback has finalized the request releases
\* a reference that is gone.
THEOREM ReferencesAreReleasedOnce == Spec => []ReleasedOnce
<1>1. Inv => ReleasedOnce
  BY DEF Inv, Holds, ReleasedOnce
<1> QED
  BY <1>1, RequestInvariance, PTL

\* Every 200 with a body carries as many octets as its header declares, whatever
\* was sent before or after it, but where the dump module cannot dump the body.
THEOREM DeclaredLengthIsSent == Spec => []LengthIsAsDeclared
<1>1. Inv => LengthIsAsDeclared
  BY DEF Inv, Sound, Exact, LengthIsAsDeclared, NGX_HTTP_OK
<1> QED
  BY <1>1, RequestInvariance, PTL
=============================================================================
