---------------------------- MODULE RequestReply ----------------------------
(***************************************************************************)
(* What a gateway promises the clients of a serial line, whatever buffers, *)
(* events and slaves it is made of.  A connection numbers its requests; a  *)
(* request is performed on the line at most once, only while it is the     *)
(* oldest that has no reply, and replies come in the order of requests.    *)
(* While a connection is open every request gets a reply.                  *)
(***************************************************************************)
EXTENDS Naturals

CONSTANTS Sessions, MaxReq

VARIABLES asked,      \* requests each client has sent
          performed,  \* how often each was performed on the line
          answered,   \* replies sent
          open        \* the connections that are not closed

vars == <<asked, performed, answered, open>>

Init ==
  /\ asked = [s \in Sessions |-> 0]
  /\ performed = [s \in Sessions |-> [k \in 0..MaxReq |-> 0]]
  /\ answered = [s \in Sessions |-> 0]
  /\ open = Sessions

Ask(s) ==
  /\ asked[s] < MaxReq
  /\ asked' = [asked EXCEPT ![s] = @ + 1]
  /\ UNCHANGED <<performed, answered, open>>

Perform(s) ==
  /\ s \in open /\ answered[s] < asked[s]
  /\ performed[s][answered[s] + 1] = 0
  /\ performed' = [performed EXCEPT ![s][answered[s] + 1] = 1]
  /\ UNCHANGED <<asked, answered, open>>

Answer(s) ==
  /\ s \in open /\ answered[s] < asked[s]
  /\ answered' = [answered EXCEPT ![s] = @ + 1]
  /\ UNCHANGED <<asked, performed, open>>

Close(s) ==
  /\ s \in open
  /\ open' = open \ {s}
  /\ UNCHANGED <<asked, performed, answered>>

Next == \E s \in Sessions : Ask(s) \/ Perform(s) \/ Answer(s) \/ Close(s)

Safety == Init /\ [][Next]_vars

\* A request that was asked is answered, unless its connection closes.
Served ==
  \A s \in Sessions, k \in 1..MaxReq :
    (s \in open /\ asked[s] >= k) ~> (answered[s] >= k \/ s \notin open)

Spec == Safety /\ Served
=============================================================================
