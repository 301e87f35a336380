--------------------------- MODULE MCHttpLocation ---------------------------
(***************************************************************************)
(* Instances of HttpLocation: routes of one or two locations, in which     *)
(* each directive is absent, in the outer block, in the inner block or in  *)
(* both.                                                                   *)
(***************************************************************************)
EXTENDS HttpLocation

D(n, a) == [name |-> n, arg |-> a]
Auth == D("auth_request", "/auth")
Off == D("auth_request", "off")
SetX == D("auth_request_set", "$x")
SetY == D("auth_request_set", "$y")
Unmask == D("mask", "off")
NoUri == D("auth_request", Empty)
NoName == D("auth_request_set", "z")

Place(o, i, e, c) == [outer |-> o, inner |-> i, enable |-> e, content |-> c]

Handlers == {<<"greetings", <<NULL, NULL>> >>, <<"echo", <<NULL, NULL>> >>,
             <<"echo", <<NULL, 0>> >>, <<"echo", <<0, NULL>> >>, <<"dump", <<NULL, NULL>> >>}

Outers == {<<>>, <<Auth, SetX>>, <<Auth, Auth>>, <<Auth, Unmask>>}
Inners == {<<>>, <<Off>>, <<NoUri>>, <<NoName>>, <<Auth, SetY>>, <<SetX, SetY>>, <<Auth, D("mask", "on")>>}

MCRoutes ==
  {<<Place(o, i, h[2], h[1])>> : o \in Outers, i \in Inners, h \in Handlers}
  \cup {<<Place(<<Auth, SetX>>, i, <<NULL, NULL>>, "redirect"),
          Place(<<Auth, SetX>>, j, h[2], h[1])>>
        : i \in Inners, j \in Inners, h \in Handlers}
  \cup {<<Place(<<Auth, Unmask>>, i, <<NULL, NULL>>, "redirect"),
          Place(<<Auth, SetX>>, <<>>, h[2], h[1])>>
        : i \in {<<>>, <<SetX, SetY>>}, h \in Handlers}

\* nginx saves a body that is larger than its buffer as one file.
Buf(n, f) == [size |-> n, in_file |-> f]
MCBodies ==
  {[is |-> "read", bufs |-> b] :
     b \in {<<>>, <<Buf(9, FALSE)>>, <<Buf(9, TRUE)>>, <<Buf(9, FALSE), Buf(3, FALSE)>>}}
  \cup {[is |-> b, bufs |-> <<>>] : b \in {"late", "bad"}}

MCAnswers == {<<200>>, <<401>>, <<0, 401>>, <<0, 403>>, <<403>>, <<0, 502>>}
=============================================================================
