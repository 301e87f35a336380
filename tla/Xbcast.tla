-------------------------------- MODULE Xbcast --------------------------------
(***************************************************************************)
(* ngx_stream_xbcast_module: worker processes that wake each other through *)
(* socketpairs.  The master creates the pairs when it loads its first      *)
(* configuration with two workers or more, before it forks, and keeps them *)
(* over reloads; worker w reads pair w and every other worker writes to it.*)
(*                                                                         *)
(* A process is <<c, w>>: worker number w, forked under configuration c.   *)
(* Between two steps of a process the others, and the master, may run; a   *)
(* process handles one event at a time.  A message carries nothing but its *)
(* sender.  The read handler's error branch is left out: every process     *)
(* keeps both ends of every pair, so recvmsg finds no end of file.         *)
(***************************************************************************)
EXTENDS Integers, Sequences, FiniteSets

CONSTANTS Counts,      \* worker_processes of each configuration, in order
          Cap,         \* messages a socket buffer holds
          MaxPackets,  \* bound: connections whose first byte is 'X'
          MaxCrashes   \* bound: workers that die

ASSUME XbcastAssumption ==
  /\ Counts \in Seq(Nat \ {0}) /\ Counts # <<>>
  /\ Cap \in Nat \ {0} /\ MaxPackets \in Nat /\ MaxCrashes \in Nat

Cycles == DOMAIN Counts
Workers == UNION {0..Counts[c] - 1 : c \in Cycles}
Processes == {p \in Cycles \X Workers : p[2] < Counts[p[1]]}

VARIABLES
  cycle,            \* the configuration the master has loaded
  xbcast_channels,  \* the configuration whose pool holds the array, 0 for NULL
  xbcast_nworkers,
  statics,          \* the two, as each process found them when it was forked
  state,            \* "none", "starting", "idle", "reading", "sending", "gone"
  my_worker,        \* xbcast_my_worker of each process, -1 at first
  next,             \* i of ngx_stream_xbcast_broadcast
  socket,           \* messages in each pair, by their senders
  packets, crashes  \* how many there were

masterVars == <<cycle, xbcast_channels, xbcast_nworkers>>
vars == <<masterVars, statics, state, my_worker, next, socket, packets, crashes>>

\* ngx_stream_xbcast_init_module under configuration c.
Created(c) == xbcast_channels # 0 \/ Counts[c] < 2

InitModule(c) ==
  /\ xbcast_nworkers' = IF xbcast_channels # 0 THEN xbcast_nworkers ELSE Counts[c]
  /\ xbcast_channels' = IF Created(c) THEN xbcast_channels ELSE c

Forked(c) == {p \in Processes : p[1] = c}

Init ==
  /\ cycle = 1
  /\ xbcast_nworkers = Counts[1]
  /\ xbcast_channels = IF Counts[1] < 2 THEN 0 ELSE 1
  /\ statics = [p \in Processes |-> [channels |-> xbcast_channels,
                                     nworkers |-> xbcast_nworkers]]
  /\ state = [p \in Processes |-> IF p \in Forked(1) THEN "starting" ELSE "none"]
  /\ my_worker = [p \in Processes |-> -1]
  /\ next = [p \in Processes |-> 0]
  /\ socket = [w \in Workers |-> <<>>]
  /\ packets = 0 /\ crashes = 0

\* The array was allocated from the pool of the configuration it was created
\* under, and the master destroys that pool when it has loaded the next one.
\* Whether a process forked later still finds the descriptors in it is open.
Dangling(p) == statics[p].channels # p[1]
-----------------------------------------------------------------------------
\* The master loads the next configuration and forks its workers.  The old
\* ones go on until they have finished their connections.
Reload ==
  /\ cycle + 1 \in Cycles
  /\ cycle' = cycle + 1
  /\ InitModule(cycle')
  /\ statics' = [p \in Processes |->
       IF p \in Forked(cycle')
       THEN [channels |-> xbcast_channels', nworkers |-> xbcast_nworkers']
       ELSE statics[p]]
  /\ state' = [p \in Processes |-> IF p \in Forked(cycle') THEN "starting" ELSE state[p]]
  /\ UNCHANGED <<my_worker, next, socket, packets, crashes>>

\* An old worker exits.
Exit(p) ==
  /\ p[1] < cycle /\ state[p] = "idle"
  /\ state' = [state EXCEPT ![p] = "gone"]
  /\ UNCHANGED <<masterVars, statics, my_worker, next, socket, packets, crashes>>

\* A worker dies; the master forks it anew if it belongs to the current
\* configuration.
Crash(p) ==
  /\ crashes < MaxCrashes
  /\ state[p] \notin {"none", "gone"}
  /\ state' = [state EXCEPT ![p] = IF p[1] = cycle THEN "starting" ELSE "gone"]
  /\ my_worker' = [my_worker EXCEPT ![p] = -1]
  /\ next' = [next EXCEPT ![p] = 0]
  /\ statics' = [statics EXCEPT ![p] =
       IF p[1] = cycle THEN [channels |-> xbcast_channels, nworkers |-> xbcast_nworkers]
       ELSE @]
  /\ crashes' = crashes + 1
  /\ UNCHANGED <<masterVars, socket, packets>>

\* Mutant: the worker's number is not compared with the size of the array.
MutParticipatesAny(p) == statics[p].channels # 0

Participates(p) == statics[p].channels # 0 /\ p[2] < statics[p].nworkers

\* ngx_stream_xbcast_init_process.  If the descriptor found in a dangling array
\* cannot be listened on, it fails and the worker exits for good.
InitProcess(p) ==
  /\ state[p] = "starting"
  /\ \/ /\ ~Participates(p)
        /\ state' = [state EXCEPT ![p] = "idle"]
        /\ UNCHANGED my_worker
     \/ /\ Participates(p)
        /\ state' = [state EXCEPT ![p] = "idle"]
        /\ my_worker' = [my_worker EXCEPT ![p] = p[2]]
     \/ /\ Participates(p) /\ Dangling(p)
        /\ state' = [state EXCEPT ![p] = "gone"]
        /\ UNCHANGED my_worker
  /\ UNCHANGED <<masterVars, statics, next, socket, packets, crashes>>

\* ngx_stream_xbcast_handler lets a connection pass whose first byte is 'X'.
Packet(p) ==
  /\ state[p] = "idle" /\ packets < MaxPackets
  /\ packets' = packets + 1
  /\ IF my_worker[p] < 0
     THEN UNCHANGED <<state, next>>
     ELSE /\ state' = [state EXCEPT ![p] = "sending"]
          /\ next' = [next EXCEPT ![p] = 0]
  /\ UNCHANGED <<masterVars, statics, my_worker, socket, crashes>>

\* Mutant: it skips all workers up to its own number.
MutSkippedUpTo(p) == next[p] <= my_worker[p]

Skipped(p) == next[p] = my_worker[p]

\* One turn of the loop of ngx_stream_xbcast_broadcast.  A full socket buffer,
\* or a descriptor that is none, loses the message.
Signal(p) ==
  /\ state[p] = "sending" /\ next[p] < statics[p].nworkers
  /\ next' = [next EXCEPT ![p] = @ + 1]
  /\ \/ /\ ~Skipped(p) /\ Len(socket[next[p]]) < Cap
        /\ socket' = [socket EXCEPT ![next[p]] = Append(@, p)]
     \/ /\ Skipped(p) \/ Len(socket[next[p]]) = Cap \/ Dangling(p)
        /\ UNCHANGED socket
  /\ UNCHANGED <<masterVars, statics, state, my_worker, packets, crashes>>

BroadcastEnds(p) ==
  /\ state[p] = "sending" /\ next[p] >= statics[p].nworkers
  /\ state' = [state EXCEPT ![p] = "idle"]
  /\ next' = [next EXCEPT ![p] = 0]
  /\ UNCHANGED <<masterVars, statics, my_worker, socket, packets, crashes>>

Listens(p) == my_worker[p] = p[2]

\* epoll, level-triggered here, calls ngx_stream_xbcast_read_handler.
ReadHandler(p) ==
  /\ state[p] = "idle" /\ Listens(p) /\ socket[p[2]] # <<>>
  /\ state' = [state EXCEPT ![p] = "reading"]
  /\ UNCHANGED <<masterVars, statics, my_worker, next, socket, packets, crashes>>

\* One turn of its loop: a message, or NGX_AGAIN.
ReadChannel(p) ==
  /\ state[p] = "reading"
  /\ IF socket[p[2]] # <<>>
     THEN socket' = [socket EXCEPT ![p[2]] = Tail(@)] /\ UNCHANGED state
     ELSE state' = [state EXCEPT ![p] = "idle"] /\ UNCHANGED socket
  /\ UNCHANGED <<masterVars, statics, my_worker, next, packets, crashes>>
-----------------------------------------------------------------------------
Handler(p) == InitProcess(p) \/ Signal(p) \/ BroadcastEnds(p) \/ ReadChannel(p)

Next ==
  \/ Reload
  \/ \E p \in Processes :
       Handler(p) \/ ReadHandler(p) \/ Packet(p) \/ Exit(p) \/ Crash(p)

\* A process that can run does, and its event loop calls the read handler of
\* a descriptor that stays readable.  That it does so in between any number of
\* packets would take strong fairness; MaxPackets makes the weak one enough.
Fairness == \A p \in Processes : WF_vars(Handler(p) \/ ReadHandler(p))

Spec == Init /\ [][Next]_vars /\ Fairness
-----------------------------------------------------------------------------
\* Every index into the array is below the size it was created with: this is
\* what the comparison in init_process is for when a reload raises
\* worker_processes.
TypeOK ==
  /\ cycle \in Cycles /\ xbcast_channels \in 0..cycle /\ xbcast_nworkers \in Nat
  /\ \A p \in Processes :
       /\ state[p] \in {"none", "starting", "idle", "reading", "sending", "gone"}
       /\ my_worker[p] # -1 => my_worker[p] = p[2] /\ p[2] < statics[p].nworkers
       /\ state[p] = "sending" => next[p] \in 0..statics[p].nworkers
  /\ \A w \in Workers : Len(socket[w]) <= Cap /\ \A i \in DOMAIN socket[w] : socket[w][i] \in Processes

First == 0..Counts[1] - 1

Owed ==
  IF cycle > 1 THEN {}
  ELSE {e \in First \X First :
          e[1] # e[2] /\ state[<<1, e[1]>>] = "sending" /\ next[<<1, e[1]>>] <= e[2]}

Pending == IF cycle > 1 THEN {} ELSE {w \in First : socket[w] # <<>>}

DB == INSTANCE Doorbell
        WITH Workers <- First, owed <- Owed, pending <- Pending,
             deaths <- IF cycle = 1 THEN crashes ELSE 0, on <- cycle = 1

\* Until a reload the module implements Doorbell: every other worker is rung
\* and wakes up, also one that is starting, has died and been forked again, or
\* has a full socket buffer: a message is then lost, but not the wake-up.
ImplementsDoorbell == DB!Spec

\* "already created in a previous cycle; keep the existing fds": a worker that
\* a reload forks and that has a pair listens on it.
ReloadKeepsTheChannels ==
  \A p \in Processes :
    Participates(p) /\ state[p] \notin {"none", "starting"} /\ p[1] = cycle
      => my_worker[p] = p[2]
=============================================================================
