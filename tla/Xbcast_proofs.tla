---------------------------- MODULE Xbcast_proofs ----------------------------
(***************************************************************************)
(* Proofs about xbcast, for any number of workers and configurations, any  *)
(* socket buffer, and any packets and crashes: no process leaves the array *)
(* of pairs, also when a reload raises or lowers worker_processes, and     *)
(* every step until the first reload is a step of Doorbell.                *)
(***************************************************************************)
EXTENDS Xbcast, TLAPS

-----------------------------------------------------------------------------
(* The inductive invariant.                                                 *)

Sizes == {Counts[c] : c \in Cycles}

Types ==
  /\ cycle \in Cycles /\ xbcast_channels \in 0..cycle /\ xbcast_nworkers \in Sizes
  /\ statics \in [Processes -> [channels : Nat, nworkers : Sizes]]
  /\ state \in [Processes -> {"none", "starting", "idle", "reading", "sending", "gone"}]
  /\ my_worker \in [Processes -> Int]
  /\ next \in [Processes -> Nat]
  /\ socket \in [Workers -> Seq(Processes)]
  /\ packets \in Nat /\ crashes \in Nat

\* A process has a number, its own, only if its array has a pair for it; one
\* that sends or reads has a number; one that is not forked yet has none.
ProcessInv(p) ==
  /\ my_worker[p] # -1 =>
       my_worker[p] = p[2] /\ p[2] < statics[p].nworkers /\ statics[p].channels # 0
  /\ state[p] \in {"reading", "sending"} => my_worker[p] # -1
  /\ state[p] = "sending" => next[p] <= statics[p].nworkers
  /\ p[1] > cycle => state[p] = "none"
  /\ state[p] = "none" => my_worker[p] = -1

\* Until a reload there is one generation, with one array.
FirstInv(p) ==
  cycle = 1 /\ p[1] = 1 =>
    /\ statics[p].nworkers = Counts[1]
    /\ statics[p].channels \in {0, 1}

Inv ==
  /\ Types
  /\ \A p \in Processes : ProcessInv(p) /\ FirstInv(p)
  /\ \A w \in Workers : Len(socket[w]) <= Cap
  /\ cycle = 1 => xbcast_nworkers = Counts[1] /\ xbcast_channels \in {0, 1}

LEMMA Domains ==
  /\ Cycles \subseteq Nat \ {0} /\ 1 \in Cycles
  /\ \A c \in Cycles : Counts[c] \in Nat \ {0}
  /\ Sizes \subseteq Nat \ {0}
  /\ \A n \in Sizes : 0..n - 1 \subseteq Workers
  /\ Workers \subseteq Nat
  /\ \A p \in Processes : p = <<p[1], p[2]>> /\ p[1] \in Cycles /\ p[2] \in Workers
                          /\ p[2] < Counts[p[1]]
<1>1. Counts \in Seq(Nat \ {0}) /\ Counts # <<>>
  BY XbcastAssumption
<1>2. Cycles = 1..Len(Counts) /\ Len(Counts) \in Nat /\ Len(Counts) # 0
  BY <1>1 DEF Cycles
<1>3. \A c \in Cycles : Counts[c] \in Nat \ {0}
  BY <1>1 DEF Cycles
<1>4. Sizes \subseteq Nat \ {0} /\ \A n \in Sizes : 0..n - 1 \subseteq Workers
  BY <1>3 DEF Sizes, Workers
<1>5. Workers \subseteq Nat
  BY <1>3 DEF Workers
<1>6. \A p \in Processes : p = <<p[1], p[2]>> /\ p[1] \in Cycles /\ p[2] \in Workers
                           /\ p[2] < Counts[p[1]]
  BY DEF Processes
<1> QED
  BY <1>2, <1>3, <1>4, <1>5, <1>6

LEMMA InitHolds ==
  ASSUME Init
  PROVE  Inv
<1>1. xbcast_nworkers \in Sizes /\ xbcast_channels \in {0, 1} /\ cycle = 1
  BY Domains DEF Init, Sizes
<1>2. Types
  BY <1>1, Domains DEF Init, Types
<1>3. ASSUME NEW p \in Processes
      PROVE  ProcessInv(p) /\ FirstInv(p)
  BY <1>1, <1>3, Domains DEF Init, ProcessInv, FirstInv, Forked
<1>4. \A w \in Workers : Len(socket[w]) <= Cap
  BY XbcastAssumption DEF Init
<1> QED
  BY <1>1, <1>2, <1>3, <1>4 DEF Init, Inv

LEMMA ReloadStep ==
  ASSUME Inv, Reload
  PROVE  Inv'
<1>1. /\ cycle \in Cycles /\ cycle' = cycle + 1 /\ cycle' \in Cycles
      /\ xbcast_channels \in 0..cycle /\ xbcast_nworkers \in Sizes
      /\ cycle \in Nat \ {0} /\ cycle' # 1
  BY Domains DEF Inv, Types, Reload
<1>2. xbcast_channels' \in 0..cycle' /\ xbcast_nworkers' \in Sizes
  BY <1>1 DEF Reload, InitModule, Sizes
<1>3. Types'
  BY <1>1, <1>2 DEF Inv, Types, Reload, Forked
<1>4. ASSUME NEW p \in Processes
      PROVE  (ProcessInv(p) /\ FirstInv(p))'
  <2>1. ProcessInv(p) /\ p[1] \in Nat
    BY Domains DEF Inv
  <2>2. CASE p[1] = cycle'
    BY <1>1, <2>1, <2>2 DEF Inv, Types, ProcessInv, FirstInv, Reload, Forked
  <2>3. CASE p[1] # cycle'
    BY <1>1, <2>1, <2>3 DEF Inv, Types, ProcessInv, FirstInv, Reload, Forked
  <2> QED
    BY <2>2, <2>3
<1> QED
  BY <1>1, <1>3, <1>4 DEF Inv, Reload

\* A step of one process.
Step(p) == Handler(p) \/ ReadHandler(p) \/ Packet(p) \/ Exit(p) \/ Crash(p)

\* A step touches its own process and leaves the master alone.
LEMMA OthersKept ==
  ASSUME Inv, NEW p \in Processes, Step(p)
  PROVE  /\ UNCHANGED masterVars
         /\ \A q \in Processes : q # p =>
              /\ state'[q] = state[q] /\ statics'[q] = statics[q]
              /\ my_worker'[q] = my_worker[q] /\ next'[q] = next[q]
  BY DEF Step, Handler, InitProcess, Signal, BroadcastEnds, ReadChannel, ReadHandler, Packet,
    Exit, Crash, Inv, Types

\* It preserves the invariant if it does for its own process.
LEMMA OwnProcess ==
  ASSUME Inv, NEW p \in Processes, Step(p), Types', ProcessInv(p)', FirstInv(p)',
         \A w \in Workers : Len(socket'[w]) <= Cap
  PROVE  Inv'
<1>1. ASSUME NEW q \in Processes, q # p
      PROVE  (ProcessInv(q) /\ FirstInv(q))'
  BY <1>1, OthersKept DEF Inv, ProcessInv, FirstInv, masterVars
<1> QED
  BY <1>1, OthersKept DEF Inv, masterVars

LEMMA InitProcessStep ==
  ASSUME Inv, NEW p \in Processes, InitProcess(p)
  PROVE  Inv'
<1>1. p[2] \in Nat
  BY Domains
<1>2. Types'
  <2>1. /\ state' \in {[state EXCEPT ![p] = "idle"], [state EXCEPT ![p] = "gone"]}
        /\ my_worker' \in {my_worker, [my_worker EXCEPT ![p] = p[2]]}
        /\ UNCHANGED <<masterVars, statics, next, socket, packets, crashes>>
    BY DEF InitProcess
  <2>2. state' \in [Processes -> {"none", "starting", "idle", "reading", "sending", "gone"}]
    BY <2>1 DEF Inv, Types
  <2>3. my_worker' \in [Processes -> Int]
    BY <1>1, <2>1 DEF Inv, Types
  <2> QED
    BY <2>1, <2>2, <2>3 DEF Inv, Types, masterVars
<1>3. ProcessInv(p)' /\ FirstInv(p)'
  BY <1>1 DEF Inv, Types, ProcessInv, FirstInv, InitProcess, Participates, masterVars
<1> QED
  BY <1>2, <1>3, OwnProcess DEF Inv, InitProcess, Step, Handler

LEMMA SignalStep ==
  ASSUME Inv, NEW p \in Processes, Signal(p)
  PROVE  Inv'
<1>1. /\ next[p] \in Nat /\ next[p] < statics[p].nworkers /\ statics[p].nworkers \in Sizes
      /\ next' = [next EXCEPT ![p] = next[p] + 1]
  BY DEF Inv, Types, Signal
<1>2. next[p] \in Workers /\ statics[p].nworkers \in Nat
  BY <1>1, Domains
<1>3. socket' \in [Workers -> Seq(Processes)] /\ \A w \in Workers : Len(socket'[w]) <= Cap
  <2>1. /\ socket \in [Workers -> Seq(Processes)] /\ Cap \in Nat
        /\ \A w \in Workers : Len(socket[w]) <= Cap
    BY XbcastAssumption DEF Inv, Types
  <2>2. CASE UNCHANGED socket
    BY <2>1, <2>2
  <2>3. CASE /\ Len(socket[next[p]]) < Cap
             /\ socket' = [socket EXCEPT ![next[p]] = Append(socket[next[p]], p)]
    <3>1. socket[next[p]] \in Seq(Processes)
      BY <1>2, <2>1
    <3>2. /\ Append(socket[next[p]], p) \in Seq(Processes)
          /\ Len(Append(socket[next[p]], p)) <= Cap
      BY <2>1, <2>3, <3>1
    <3> QED
      BY <1>2, <2>1, <2>3, <3>2
  <2> QED
    BY <2>2, <2>3 DEF Signal
<1>4. Types'
  BY <1>1, <1>3 DEF Inv, Types, Signal, masterVars
<1>5. ProcessInv(p)' /\ FirstInv(p)'
  BY <1>1, <1>2 DEF Inv, Types, ProcessInv, FirstInv, Signal, masterVars
<1> QED
  BY <1>3, <1>4, <1>5, OwnProcess DEF Step, Handler

LEMMA BroadcastEndsStep ==
  ASSUME Inv, NEW p \in Processes, BroadcastEnds(p)
  PROVE  Inv'
<1>1. Types'
  BY DEF Inv, Types, BroadcastEnds, masterVars
<1>2. ProcessInv(p)' /\ FirstInv(p)'
  BY DEF Inv, Types, ProcessInv, FirstInv, BroadcastEnds, masterVars
<1> QED
  BY <1>1, <1>2, OwnProcess DEF Inv, BroadcastEnds, Step, Handler

LEMMA ReadHandlerStep ==
  ASSUME Inv, NEW p \in Processes, ReadHandler(p)
  PROVE  Inv'
<1>1. Types'
  BY DEF Inv, Types, ReadHandler, masterVars
<1>2. ProcessInv(p)' /\ FirstInv(p)'
  <2>1. p[2] \in Nat
    BY Domains
  <2> QED
    BY <2>1 DEF Inv, Types, ProcessInv, FirstInv, ReadHandler, Listens, masterVars
<1> QED
  BY <1>1, <1>2, OwnProcess DEF Inv, ReadHandler, Step

LEMMA ReadChannelStep ==
  ASSUME Inv, NEW p \in Processes, ReadChannel(p)
  PROVE  Inv'
<1>1. p[2] \in Workers
  BY Domains
<1>2. socket' \in [Workers -> Seq(Processes)] /\ \A w \in Workers : Len(socket'[w]) <= Cap
  <2>1. /\ socket \in [Workers -> Seq(Processes)] /\ Cap \in Nat
        /\ \A w \in Workers : Len(socket[w]) <= Cap
    BY XbcastAssumption DEF Inv, Types
  <2>2. CASE UNCHANGED socket
    BY <2>1, <2>2
  <2>3. CASE /\ socket[p[2]] # <<>>
             /\ socket' = [socket EXCEPT ![p[2]] = Tail(socket[p[2]])]
    <3>1. socket[p[2]] \in Seq(Processes) /\ Len(socket[p[2]]) <= Cap
      BY <1>1, <2>1
    <3>2. /\ Tail(socket[p[2]]) \in Seq(Processes)
          /\ Len(Tail(socket[p[2]])) <= Cap
      BY <2>1, <2>3, <3>1
    <3> QED
      BY <1>1, <2>1, <2>3, <3>2
  <2> QED
    BY <2>2, <2>3 DEF ReadChannel
<1>3. Types'
  BY <1>2 DEF Inv, Types, ReadChannel, masterVars
<1>4. ProcessInv(p)' /\ FirstInv(p)'
  BY DEF Inv, Types, ProcessInv, FirstInv, ReadChannel, masterVars
<1> QED
  BY <1>2, <1>3, <1>4, OwnProcess DEF Step, Handler

LEMMA PacketStep ==
  ASSUME Inv, NEW p \in Processes, Packet(p)
  PROVE  Inv'
<1>1. Types'
  <2>1. /\ state' \in {state, [state EXCEPT ![p] = "sending"]}
        /\ next' \in {next, [next EXCEPT ![p] = 0]}
        /\ packets' = packets + 1
        /\ UNCHANGED <<masterVars, statics, my_worker, socket, crashes>>
    BY DEF Packet
  <2>2. state' \in [Processes -> {"none", "starting", "idle", "reading", "sending", "gone"}]
    BY <2>1 DEF Inv, Types
  <2>3. next' \in [Processes -> Nat]
    <3>1. next \in [Processes -> Nat] /\ 0 \in Nat
      BY DEF Inv, Types
    <3>2. [next EXCEPT ![p] = 0] \in [Processes -> Nat]
      BY <3>1
    <3> QED
      BY <2>1, <3>1, <3>2
  <2> QED
    BY <2>1, <2>2, <2>3 DEF Inv, Types, masterVars
<1>2. statics[p].nworkers \in Nat
  BY Domains DEF Inv, Types
<1>3. ProcessInv(p)' /\ FirstInv(p)'
  BY <1>2 DEF Inv, Types, ProcessInv, FirstInv, Packet, masterVars
<1> QED
  BY <1>1, <1>3, OwnProcess DEF Inv, Packet, Step

LEMMA ExitStep ==
  ASSUME Inv, NEW p \in Processes, Exit(p)
  PROVE  Inv'
<1>1. Types'
  BY DEF Inv, Types, Exit, masterVars
<1>2. ProcessInv(p)' /\ FirstInv(p)'
  <2>1. p[1] \in Nat /\ cycle \in Nat
    BY Domains DEF Inv, Types
  <2> QED
    BY <2>1 DEF Inv, Types, ProcessInv, FirstInv, Exit, masterVars
<1> QED
  BY <1>1, <1>2, OwnProcess DEF Inv, Exit, Step

LEMMA CrashStep ==
  ASSUME Inv, NEW p \in Processes, Crash(p)
  PROVE  Inv'
<1>1. [channels |-> xbcast_channels, nworkers |-> xbcast_nworkers]
        \in [channels : Nat, nworkers : Sizes]
  BY Domains DEF Inv, Types
<1>2. Types'
  BY <1>1 DEF Inv, Types, Crash, masterVars
<1>3. p[1] \in Nat /\ cycle \in Nat /\ p[1] <= cycle
  BY Domains DEF Inv, Types, Crash, ProcessInv
<1>4. ProcessInv(p)' /\ FirstInv(p)'
  <2>1. /\ my_worker'[p] = -1 /\ next'[p] = 0 /\ cycle' = cycle
        /\ state'[p] = (IF p[1] = cycle THEN "starting" ELSE "gone")
        /\ statics'[p] = IF p[1] = cycle
                         THEN [channels |-> xbcast_channels, nworkers |-> xbcast_nworkers]
                         ELSE statics[p]
    BY DEF Inv, Types, Crash, masterVars
  <2>2. ProcessInv(p)'
    BY <1>3, <2>1 DEF ProcessInv
  <2>3. FirstInv(p)'
    BY <2>1 DEF Inv, FirstInv
  <2> QED
    BY <2>2, <2>3
<1> QED
  BY <1>2, <1>4, OwnProcess DEF Inv, Crash, Step

LEMMA NextStep ==
  ASSUME Inv, [Next]_vars
  PROVE  Inv'
<1>1. CASE UNCHANGED vars
  BY <1>1 DEF vars, masterVars, Inv, Types, ProcessInv, FirstInv
<1> QED
  BY <1>1, ReloadStep, InitProcessStep, SignalStep, BroadcastEndsStep, ReadHandlerStep,
    ReadChannelStep, PacketStep, ExitStep, CrashStep DEF Next, Handler

\* Processes, their numbers, the arrays they use and the buffers agree.
THEOREM BroadcastInvariance == Spec => []Inv
<1>1. ASSUME Init PROVE Inv
  BY <1>1, InitHolds
<1>2. ASSUME Inv, [Next]_vars PROVE Inv'
  BY <1>2, NextStep
<1> QED
  BY <1>1, <1>2, PTL DEF Spec

\* No process indexes its array beyond its size, and no buffer overflows.
THEOREM IndexesAreInBounds == Spec => []TypeOK
<1>1. ASSUME Inv PROVE TypeOK
  <2>1. ASSUME NEW p \in Processes
        PROVE  /\ statics[p].nworkers \in Nat /\ next[p] \in Nat
               /\ ProcessInv(p)
    BY <1>1, Domains DEF Inv, Types
  <2>2. \A w \in Workers : \A i \in DOMAIN socket[w] : socket[w][i] \in Processes
    BY <1>1 DEF Inv, Types
  <2>3. xbcast_nworkers \in Nat
    BY <1>1, Domains DEF Inv, Types
  <2> QED
    BY <1>1, <2>1, <2>2, <2>3 DEF Inv, Types, ProcessInv, TypeOK
<1> QED
  BY <1>1, BroadcastInvariance, PTL
-----------------------------------------------------------------------------
(* Doorbell.                                                                *)

\* v has still to ring w.
Owes(v, w) == v # w /\ state[<<1, v>>] = "sending" /\ next[<<1, v>>] <= w

LEMMA FirstGeneration ==
  /\ First \subseteq Workers /\ First \subseteq Nat
  /\ \A v \in First : <<1, v>> \in Processes
  /\ \A p \in Processes : p[1] = 1 => p[2] \in First /\ p = <<1, p[2]>>
  /\ \A n : n \in First <=> n \in Nat /\ n < Counts[1]
<1>1. Counts[1] \in Sizes /\ Counts[1] \in Nat \ {0} /\ 1 \in Cycles
  BY Domains DEF Sizes
<1>2. First \subseteq Workers /\ First \subseteq Nat /\ \A n : n \in First <=> n \in Nat /\ n < Counts[1]
  BY <1>1, Domains DEF First
<1>3. \A v \in First : <<1, v>> \in Processes
  BY <1>1, <1>2 DEF Processes
<1>4. ASSUME NEW p \in Processes, p[1] = 1
      PROVE  p[2] \in First /\ p = <<1, p[2]>>
  <2>1. p = <<p[1], p[2]>> /\ p[2] \in Nat /\ p[2] < Counts[1]
    BY <1>4, Domains
  <2> QED
    BY <1>2, <1>4, <2>1
<1> QED
  BY <1>2, <1>3, <1>4

LEMMA OwedIs ==
  ASSUME cycle = 1
  PROVE  /\ Owed = {e \in First \X First : Owes(e[1], e[2])}
         /\ Pending = {w \in First : socket[w] # <<>>}
  BY DEF Owed, Pending, Owes

LEMMA OwedNextIs ==
  ASSUME cycle' = 1
  PROVE  /\ Owed' = {e \in First \X First : Owes(e[1], e[2])'}
         /\ Pending' = {w \in First : socket'[w] # <<>>}
  BY DEF Owed, Pending, Owes, First

\* Without a change of what is owed and of which buffers are empty, nothing
\* happens at the level of Doorbell.
LEMMA Stutter ==
  ASSUME cycle = 1, cycle' = 1, crashes' = crashes,
         \A v, w \in First : Owes(v, w)' <=> Owes(v, w),
         \A w \in First : socket'[w] = <<>> <=> socket[w] = <<>>
  PROVE  UNCHANGED DB!vars
<1>1. Owed' = Owed /\ Pending' = Pending
  BY OwedIs, OwedNextIs
<1> QED
  BY <1>1 DEF DB!vars

\* A process that starts to broadcast owes a ring to all others.
LEMMA PacketRefines ==
  ASSUME Inv, cycle = 1, NEW p \in Processes, Packet(p), my_worker[p] >= 0
  PROVE  DB!Next
<1>1. /\ p[1] = 1 /\ cycle' = 1 /\ crashes' = crashes /\ socket' = socket
      /\ state[p] = "idle" /\ state' = [state EXCEPT ![p] = "sending"]
      /\ next' = [next EXCEPT ![p] = 0]
  <2>1. ~(my_worker[p] < 0)
    BY DEF Inv, Types
  <2>2. state[p] = "idle" /\ UNCHANGED <<masterVars, socket, crashes>>
    BY DEF Packet
  <2>3. p[1] = 1
    BY <2>2, Domains DEF Inv, ProcessInv
  <2>4. state' = [state EXCEPT ![p] = "sending"] /\ next' = [next EXCEPT ![p] = 0]
    BY <2>1 DEF Packet
  <2> QED
    BY <2>2, <2>3, <2>4 DEF masterVars
<1> DEFINE v == p[2]
<1>2. v \in First /\ p = <<1, v>>
  BY <1>1, FirstGeneration
<1>3. \A w \in First : ~Owes(v, w)
  BY <1>1, <1>2 DEF Owes
<1>4. \A u, w \in First : Owes(u, w)' <=> Owes(u, w) \/ (u = v /\ w # v)
  <2>1. ASSUME NEW w \in First
        PROVE  Owes(v, w)' <=> w # v
    BY <1>1, <1>2, FirstGeneration DEF Owes, Inv, Types
  <2>2. ASSUME NEW u \in First, NEW w \in First, u # v
        PROVE  Owes(u, w)' <=> Owes(u, w)
    <3>1. <<1, u>> # p /\ <<1, u>> \in Processes
      BY <1>2, <2>2, FirstGeneration
    <3> QED
      BY <1>1, <3>1 DEF Owes, Inv, Types
  <2> QED
    BY <1>3, <2>1, <2>2
<1> HIDE DEF v
<1>5. Owed \cap ({v} \X First) = {}
  BY <1>3, OwedIs
<1>6. Owed' = Owed \cup {v} \X (First \ {v})
  BY <1>1, <1>2, <1>4, OwedIs, OwedNextIs
<1>7. Pending' = Pending
  BY <1>1, OwedIs, OwedNextIs
<1>8. DB!Packet(v)
  BY <1>1, <1>5, <1>6, <1>7 DEF DB!Packet
<1> QED
  BY <1>2, <1>8 DEF DB!Next

\* Processes of the first generation, until a reload.
LEMMA FirstProcess ==
  ASSUME Inv, cycle = 1, NEW p \in Processes, state[p] # "none"
  PROVE  /\ p[1] = 1 /\ p[2] \in First /\ p = <<1, p[2]>>
         /\ statics[p].nworkers = Counts[1]
         /\ my_worker[p] # -1 => my_worker[p] = p[2] /\ ~Dangling(p)
<1>1. p[1] = 1
  BY Domains DEF Inv, ProcessInv
<1> QED
  BY <1>1, FirstGeneration DEF Inv, ProcessInv, FirstInv, Dangling

\* What a step does not touch is owed as before.
LEMMA OthersOwe ==
  ASSUME Inv, NEW p \in Processes, Step(p), NEW v \in First, <<1, v>> # p, NEW w
  PROVE  Owes(v, w)' <=> Owes(v, w)
  BY OthersKept, FirstGeneration DEF Owes

\* A turn of the loop rings the worker it comes to, unless that is itself.
LEMMA SignalRefines ==
  ASSUME Inv, cycle = 1, NEW p \in Processes, Signal(p)
  PROVE  DB!Next \/ UNCHANGED DB!vars
<1> DEFINE v == p[2]
           w == next[p]
<1>1. /\ cycle' = 1 /\ crashes' = crashes /\ state' = state /\ state[p] = "sending"
      /\ next' = [next EXCEPT ![p] = w + 1]
  BY DEF Signal, masterVars
<1>2. /\ v \in First /\ p = <<1, v>> /\ statics[p].nworkers = Counts[1]
      /\ my_worker[p] = v /\ ~Dangling(p)
  BY <1>1, FirstProcess DEF Inv, ProcessInv
<1>3. w \in First /\ w \in Nat /\ w \in Workers
  BY <1>2, FirstGeneration DEF Signal, Inv, Types
<1>4. \A u, x \in First : u # v => (Owes(u, x)' <=> Owes(u, x))
  BY <1>2, OthersOwe DEF Step, Handler
<1>5. \A x \in First : Owes(v, x)' <=> Owes(v, x) /\ x # w
  <2>1. next'[p] = w + 1 /\ state'[p] = "sending"
    BY <1>1 DEF Inv, Types
  <2>2. \A x \in First : w + 1 <= x <=> w <= x /\ x # w
    BY <1>3, FirstGeneration
  <2> QED
    BY <1>1, <1>2, <2>1, <2>2 DEF Owes
<1>6. socket \in [Workers -> Seq(Processes)]
  BY DEF Inv, Types
<1>7. CASE v = w
  <2>1. socket' = socket
    BY <1>2, <1>7 DEF Signal, Skipped
  <2>2. \A u, x \in First : Owes(u, x)' <=> Owes(u, x)
    BY <1>4, <1>5, <1>7 DEF Owes
  <2> QED
    BY <1>1, <2>1, <2>2, Stutter
<1>8. CASE v # w
  <2>1. Owes(v, w)
    BY <1>1, <1>2, <1>3, <1>8 DEF Owes
  <2>2. \A x \in First : socket'[x] = <<>> <=> socket[x] = <<>> /\ x # w
    <3>1. ~Skipped(p)
      BY <1>2, <1>8 DEF Skipped
    <3>2. CASE socket' = [socket EXCEPT ![w] = Append(socket[w], p)]
      <4>1. Append(socket[w], p) # <<>>
        BY <1>3, <1>6
      <4> QED
        BY <1>3, <1>6, <3>2, <4>1, FirstGeneration
    <3>3. CASE Len(socket[w]) = Cap /\ socket' = socket
      <4>1. socket[w] # <<>>
        BY <1>3, <1>6, <3>3, XbcastAssumption
      <4> QED
        BY <3>3, <4>1
    <3> QED
      BY <1>2, <3>1, <3>2, <3>3 DEF Signal
  <2> HIDE DEF v, w
  <2>3. <<v, w>> \in Owed
    BY <1>2, <1>3, <2>1, OwedIs
  <2>4. Owed' = Owed \ {<<v, w>>}
    BY <1>1, <1>4, <1>5, OwedIs, OwedNextIs
  <2>5. Pending' = Pending \cup {w}
    BY <1>1, <1>3, <2>2, OwedIs, OwedNextIs
  <2>6. DB!Ring(v, w)
    BY <1>1, <2>3, <2>4, <2>5 DEF DB!Ring
  <2> QED
    BY <1>2, <1>3, <2>6 DEF DB!Next
<1> QED
  BY <1>7, <1>8

\* Reading the last message is a wake-up.
LEMMA ReadChannelRefines ==
  ASSUME Inv, cycle = 1, NEW p \in Processes, ReadChannel(p)
  PROVE  DB!Next \/ UNCHANGED DB!vars
<1> DEFINE v == p[2]
<1>1. /\ cycle' = 1 /\ crashes' = crashes /\ next' = next /\ state[p] = "reading"
      /\ state' \in {state, [state EXCEPT ![p] = "idle"]}
  BY DEF ReadChannel, masterVars
<1>2. v \in First /\ p = <<1, v>> /\ v \in Workers
  BY <1>1, FirstProcess, FirstGeneration
<1>3. \A u, x \in First : Owes(u, x)' <=> Owes(u, x)
  <2>1. \A x : ~Owes(v, x) /\ ~Owes(v, x)'
    BY <1>1, <1>2 DEF Owes, Inv, Types
  <2> QED
    BY <1>2, <2>1, OthersOwe DEF Step, Handler
<1>4. socket \in [Workers -> Seq(Processes)]
  BY DEF Inv, Types
<1>5. CASE socket' = socket
  BY <1>1, <1>3, <1>5, Stutter
<1>6. CASE socket[v] # <<>> /\ socket' = [socket EXCEPT ![v] = Tail(socket[v])]
  <2>1. \A x \in First : x # v => socket'[x] = socket[x]
    BY <1>2, <1>4, <1>6, FirstGeneration
  <2>2. CASE socket'[v] # <<>>
    BY <1>1, <1>3, <1>6, <2>1, <2>2, Stutter
  <2>3. CASE socket'[v] = <<>>
    <3> HIDE DEF v
    <3>1. Owed' = Owed
      BY <1>1, <1>3, OwedIs, OwedNextIs
    <3>2. Pending' = Pending \ {v} /\ v \in Pending
      BY <1>1, <1>2, <1>6, <2>1, <2>3, OwedIs, OwedNextIs
    <3>3. DB!Wake(v)
      BY <1>1, <3>1, <3>2 DEF DB!Wake
    <3> QED
      BY <1>2, <3>3 DEF DB!Next
  <2> QED
    BY <2>2, <2>3
<1> QED
  BY <1>5, <1>6 DEF ReadChannel

\* A worker that dies owes nothing any more; what it was rung stays.
LEMMA CrashRefines ==
  ASSUME Inv, cycle = 1, NEW p \in Processes, Crash(p)
  PROVE  DB!Next
<1> DEFINE v == p[2]
<1>1. /\ cycle' = 1 /\ crashes' = crashes + 1 /\ socket' = socket /\ state[p] # "none"
      /\ state' = [state EXCEPT ![p] = IF p[1] = cycle THEN "starting" ELSE "gone"]
  BY DEF Crash, masterVars
<1>2. v \in First /\ p = <<1, v>>
  BY <1>1, FirstProcess
<1>3. \A u, x \in First : Owes(u, x)' <=> Owes(u, x) /\ u # v
  <2>1. \A x : ~Owes(v, x)'
    BY <1>1, <1>2 DEF Owes, Inv, Types
  <2> QED
    BY <1>2, <2>1, OthersOwe DEF Step
<1> HIDE DEF v
<1>4. Owed' = Owed \ ({v} \X First)
  BY <1>1, <1>3, OwedIs, OwedNextIs
<1>5. Pending' = Pending
  BY <1>1, OwedIs, OwedNextIs
<1>6. DB!Die(v)
  BY <1>1, <1>4, <1>5 DEF DB!Die
<1> QED
  BY <1>2, <1>6 DEF DB!Next

\* Starting, ending a broadcast, calling the read handler.
LEMMA OtherStepsStutter ==
  ASSUME Inv, cycle = 1, NEW p \in Processes,
         \/ InitProcess(p) \/ BroadcastEnds(p) \/ ReadHandler(p) \/ Exit(p)
         \/ Packet(p) /\ my_worker[p] < 0
  PROVE  UNCHANGED DB!vars
<1>1. /\ cycle' = 1 /\ crashes' = crashes /\ socket' = socket /\ state[p] # "none"
  BY DEF InitProcess, BroadcastEnds, ReadHandler, Exit, Packet, masterVars
<1>2. p[2] \in First /\ p = <<1, p[2]>> /\ p[1] = 1 /\ statics[p].nworkers = Counts[1]
  BY <1>1, FirstProcess
<1>3. \A x \in First : ~Owes(p[2], x) /\ ~Owes(p[2], x)'
  <2>1. CASE state[p] # "sending" /\ state'[p] # "sending"
    BY <1>2, <2>1 DEF Owes
  <2>2. CASE BroadcastEnds(p)
    <3>1. next[p] >= Counts[1] /\ state'[p] # "sending" /\ next[p] \in Nat
      BY <1>2, <2>2 DEF BroadcastEnds, Inv, Types
    <3>2. \A x \in First : ~(next[p] <= x)
      BY <3>1, FirstGeneration, Domains
    <3> QED
      BY <1>2, <3>1, <3>2 DEF Owes
  <2>3. CASE ~BroadcastEnds(p)
    <3>1. state[p] # "sending" /\ state'[p] # "sending"
      BY <2>3 DEF InitProcess, ReadHandler, Exit, Packet, Inv, Types
    <3> QED
      BY <2>1, <3>1
  <2> QED
    BY <2>2, <2>3
<1>4. \A u, x \in First : Owes(u, x)' <=> Owes(u, x)
  BY <1>2, <1>3, OthersOwe DEF Step, Handler
<1> QED
  BY <1>1, <1>4, Stutter

\* A reload ends the promise, and nothing happens to it after that.
LEMMA ReloadRefines ==
  ASSUME Inv, cycle > 1 \/ Reload, [Next]_vars
  PROVE  [DB!Next]_DB!vars
<1>1. cycle \in Nat \ {0}
  BY Domains DEF Inv, Types
<1>2. cycle' > 1
  BY <1>1, OthersKept DEF Next, Step, Reload, vars, masterVars
<1>3. Owed' = {} /\ Pending' = {} /\ cycle' # 1
  BY <1>2, <1>1 DEF Owed, Pending
<1>4. CASE cycle > 1
  <2>1. Owed = {} /\ Pending = {} /\ cycle # 1
    BY <1>1, <1>4 DEF Owed, Pending
  <2> QED
    BY <1>3, <2>1 DEF DB!vars
<1>5. CASE cycle = 1
  <2>1. DB!TurnOff
    BY <1>3, <1>5 DEF DB!TurnOff
  <2> QED
    BY <2>1 DEF DB!Next
<1> QED
  BY <1>1, <1>4, <1>5

\* Until a reload every step is one of Doorbell's, or none: packets ring every
\* other worker once, a full buffer loses no ring, a worker that dies takes none
\* of the rings it was sent with it.
THEOREM RefinesDoorbell == Spec => DB!Init /\ [][DB!Next]_DB!vars
<1>1. ASSUME Init PROVE DB!Init
  <2>1. cycle = 1 /\ crashes = 0 /\ \A p \in Processes : state[p] # "sending"
    BY <1>1 DEF Init
  <2>2. Owed = {}
    BY <2>1, OwedIs, FirstGeneration DEF Owes
  <2>3. Pending = {}
    BY <1>1, <2>1, OwedIs, FirstGeneration DEF Init
  <2> QED
    BY <2>1, <2>2, <2>3 DEF DB!Init
<1>2. ASSUME Inv, [Next]_vars PROVE [DB!Next]_DB!vars
  <2>1. CASE cycle > 1 \/ Reload
    BY <1>2, <2>1, ReloadRefines
  <2>2. ASSUME cycle = 1, NEW p \in Processes, Step(p)
        PROVE  [DB!Next]_DB!vars
    <3>1. CASE Packet(p)
      <4>1. my_worker[p] \in Int
        BY <1>2 DEF Inv, Types
      <4> QED
        BY <1>2, <2>2, <3>1, <4>1, PacketRefines, OtherStepsStutter
    <3> QED
      BY <1>2, <2>2, <3>1, SignalRefines, ReadChannelRefines, CrashRefines, OtherStepsStutter
        DEF Step, Handler
  <2>3. CASE cycle = 1 /\ UNCHANGED vars
    BY <2>3 DEF vars, masterVars, DB!vars, Owed, Pending
  <2>4. cycle = 1 \/ cycle > 1
    BY <1>2, Domains DEF Inv, Types
  <2> QED
    BY <1>2, <2>1, <2>2, <2>3, <2>4 DEF Next, Step
<1> QED
  BY <1>1, <1>2, BroadcastInvariance, PTL DEF Spec
=============================================================================
