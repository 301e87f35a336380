------------------------------- MODULE Doorbell -------------------------------
(***************************************************************************)
(* What xbcast promises: when a worker sees an 'X' packet it rings every   *)
(* other worker, once and nobody else, and a worker that was rung wakes    *)
(* up.  Rings that come before a worker wakes are answered by one wake-up. *)
(* A worker that dies leaves the rest of its round undone.  The promise    *)
(* ends when the service is turned off.                                    *)
(***************************************************************************)
EXTENDS Naturals

CONSTANT Workers

VARIABLES owed,     \* pairs <<v, w>>: v has still to ring w
          pending,  \* workers that were rung and have not woken up since
          deaths,   \* workers that died
          on        \* the service has not been turned off

vars == <<owed, pending, deaths, on>>

Init == owed = {} /\ pending = {} /\ deaths = 0 /\ on = TRUE

Packet(v) ==
  /\ on /\ owed \cap ({v} \X Workers) = {}
  /\ owed' = owed \cup {v} \X (Workers \ {v})
  /\ UNCHANGED <<pending, deaths, on>>

Ring(v, w) ==
  /\ <<v, w>> \in owed
  /\ owed' = owed \ {<<v, w>>}
  /\ pending' = pending \cup {w}
  /\ UNCHANGED <<deaths, on>>

Wake(w) ==
  /\ w \in pending
  /\ pending' = pending \ {w}
  /\ UNCHANGED <<owed, deaths, on>>

Die(v) ==
  /\ on /\ deaths' = deaths + 1
  /\ owed' = owed \ ({v} \X Workers)
  /\ UNCHANGED <<pending, on>>

TurnOff == on /\ on' = FALSE /\ owed' = {} /\ pending' = {} /\ deaths' = 0

Next ==
  \/ \E v \in Workers : Packet(v) \/ Wake(v) \/ Die(v)
  \/ \E v, w \in Workers : Ring(v, w)
  \/ TurnOff

\* Every ring that is owed is made or called off, and who was rung wakes up.
RoundsEnd == \A v, w \in Workers : <<v, w>> \in owed ~> <<v, w>> \notin owed
RungWakes == \A w \in Workers : w \in pending ~> w \notin pending

Spec == Init /\ [][Next]_vars /\ RoundsEnd /\ RungWakes
=============================================================================
