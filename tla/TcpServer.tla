----------------------------- MODULE TcpServer -----------------------------
(***************************************************************************)
(* TcpServer of base/tcp_server.cc over the listening Sockets of           *)
(* base/socket.cc: bind(), start(), the startAccept() fiber of every       *)
(* socket, and stop(), which leaves the closing to a fiber of the accept   *)
(* worker.                                                                 *)
(*                                                                         *)
(* The accept worker runs its fibers in the order of its queue on one or   *)
(* more threads; a fiber gives its thread up when it waits in accept(),    *)
(* which the hook makes it do, and when it returns.  The hooked accept()   *)
(* and close() are one step each: HookIO takes them apart.                 *)
(***************************************************************************)
EXTENDS Naturals, Sequences, FiniteSets

CONSTANTS
  Listeners,  \* listening sockets, each bound once
  Clients,
  MaxThreads  \* of the accept worker (bound)

VARIABLES
  isStop,     \* is_stop_
  sockets,    \* sockets_
  sock,       \* each Socket: "new", "listening" or "closed"
  fiber,      \* where the fibers of the accept worker are
  ready,      \* those that are scheduled
  threads,    \* the threads of the accept worker
  peer        \* each client: its socket while it is in the backlog of one

tcpVars == <<isStop, sockets, sock, fiber, ready, threads, peer>>

Stopper == "stop"                      \* the fiber of stop()
AcceptFibers  == Listeners \cup {Stopper}
Running == {f \in AcceptFibers : fiber[f] \in {"loop", "accept", "cancel", "close"}}
Elements(s) == {s[i] : i \in DOMAIN s}
Quiet   == \A f \in AcceptFibers : fiber[f] \in {"none", "returned"}

TcpInit ==
  /\ isStop = TRUE /\ sockets = <<>> /\ ready = <<>>
  /\ sock = [l \in Listeners |-> "new"]
  /\ fiber = [f \in AcceptFibers |-> "none"]
  /\ threads \in 1..MaxThreads
  /\ peer = [c \in Clients |-> "out"]

-----------------------------------------------------------------------------
(* The program.                                                             *)

\* One address that fails makes bind() drop every socket, those of earlier calls
\* too, which close as they go; not while fibers hold them, which would keep them
\* open and out of stop()'s reach.
Bind(new, fails) ==
  /\ fiber[Stopper] \in {"none", "returned"} /\ (fails # {} => Quiet)
  /\ new # <<>> /\ fails \subseteq Elements(new)
  /\ \A i, j \in DOMAIN new : sock[new[i]] = "new" /\ (new[i] = new[j] => i = j)
  /\ sockets' = IF fails = {} THEN sockets \o new ELSE <<>>
  /\ sock' = [l \in Listeners |->
       CASE fails = {} /\ l \in Elements(new)             -> "listening"
         [] fails # {} /\ l \in Elements(sockets \o new)  -> "closed"
         [] OTHER                                         -> sock[l]]
  /\ UNCHANGED <<isStop, fiber, ready, threads, peer>>

\* Nothing but the result when it runs.  Not before an earlier stop() has had its
\* effect: a startAccept() that has not yet seen is_stop_ would go on, and find its
\* socket closed, for ever.
Start ==
  /\ isStop /\ Quiet
  /\ isStop' = FALSE /\ ready' = sockets
  /\ fiber' = [f \in AcceptFibers |-> IF f \in Elements(sockets) THEN "queued" ELSE fiber[f]]
  /\ UNCHANGED <<sockets, sock, threads, peer>>

\* A second fiber would find no socket left.
Stop ==
  /\ fiber[Stopper] \in {"none", "returned"}
  /\ isStop' = TRUE
  /\ fiber' = [fiber EXCEPT ![Stopper] = "queued"]
  /\ ready' = Append(ready, Stopper)
  /\ UNCHANGED <<sockets, sock, threads, peer>>

Connect(c, l) ==
  /\ peer[c] = "out" /\ sock[l] = "listening"
  /\ peer' = [peer EXCEPT ![c] = l]
  /\ IF fiber[l] = "waiting"
     THEN fiber' = [fiber EXCEPT ![l] = "woken"] /\ ready' = Append(ready, l)
     ELSE UNCHANGED <<fiber, ready>>
  /\ UNCHANGED <<isStop, sockets, sock, threads>>

-----------------------------------------------------------------------------
(* The accept worker.                                                       *)

Dispatch ==
  /\ ready # <<>> /\ Cardinality(Running) < threads
  /\ LET f == Head(ready) IN
     fiber' = [fiber EXCEPT ![f] = CASE @ = "woken" -> "accept"
                                     [] f = Stopper   -> "cancel"
                                     [] OTHER         -> "loop"]
  /\ ready' = Tail(ready)
  /\ UNCHANGED <<isStop, sockets, sock, threads, peer>>

\* The condition of the loop of startAccept().
Loop(l) ==
  /\ fiber[l] = "loop"
  /\ fiber' = [fiber EXCEPT ![l] = IF isStop THEN "returned" ELSE "accept"]
  /\ UNCHANGED <<isStop, sockets, sock, ready, threads, peer>>

\* Socket::accept() gives a client, which is passed to the I/O worker, or fails:
\* the socket is closed, or the process has no descriptor left; or it waits.
Accept(l) ==
  /\ fiber[l] = "accept"
  /\ \/ \E c \in Clients :
          /\ peer[c] = l /\ sock[l] = "listening"
          /\ peer' = [peer EXCEPT ![c] = "scheduled"]
          /\ fiber' = [fiber EXCEPT ![l] = "loop"]
     \/ /\ sock[l] = "closed" \/ \E c \in Clients : peer[c] = l
        /\ fiber' = [fiber EXCEPT ![l] = "loop"]
        /\ UNCHANGED peer
     \/ /\ sock[l] = "listening" /\ \A c \in Clients : peer[c] # l
        /\ fiber' = [fiber EXCEPT ![l] = "waiting"]
        /\ UNCHANGED peer
  /\ UNCHANGED <<isStop, sockets, sock, ready, threads>>

\* cancelAll(), and what close() does first, wake the fiber that waits.
Woken(l) ==
  IF fiber[l] = "waiting"
  THEN [fiber EXCEPT ![l] = "woken"] ELSE fiber
WokenReady(l) == IF fiber[l] = "waiting" THEN Append(ready, l) ELSE ready

\* The socket that the loop of the fiber has come to.
AtStop(l) ==
  /\ l \in Elements(sockets) /\ sock[l] = "listening"
  /\ \A i, j \in DOMAIN sockets : sockets[i] = l /\ j < i => sock[sockets[j]] = "closed"
StopCancels(l) ==
  /\ fiber[Stopper] = "cancel" /\ AtStop(l)
  /\ fiber' = [Woken(l) EXCEPT ![Stopper] = "close"]
  /\ ready' = WokenReady(l)
  /\ UNCHANGED <<isStop, sockets, sock, threads, peer>>
\* Those in the backlog are turned away.
StopCloses(l) ==
  /\ fiber[Stopper] = "close" /\ AtStop(l)
  /\ sock' = [sock EXCEPT ![l] = "closed"]
  /\ peer' = [c \in Clients |-> IF peer[c] = l THEN "refused" ELSE peer[c]]
  /\ fiber' = [Woken(l) EXCEPT ![Stopper] = "cancel"]
  /\ ready' = WokenReady(l)
  /\ UNCHANGED <<isStop, sockets, threads>>
StopClears ==
  /\ fiber[Stopper] = "cancel" /\ \A l \in Elements(sockets) : sock[l] = "closed"
  /\ sockets' = <<>>
  /\ fiber' = [fiber EXCEPT ![Stopper] = "returned"]
  /\ UNCHANGED <<isStop, sock, ready, threads, peer>>

\* handleClient() on the I/O worker.
HandleClient(c) ==
  /\ peer[c] = "scheduled"
  /\ peer' = [peer EXCEPT ![c] = "handled"]
  /\ UNCHANGED <<isStop, sockets, sock, fiber, ready, threads>>

TcpNext ==
  \/ \E n \in 1..Cardinality(Listeners) : \E new \in [1..n -> Listeners] :
       \E fails \in SUBSET Listeners : Bind(new, fails)
  \/ Start \/ Stop
  \/ \E c \in Clients, l \in Listeners : Connect(c, l)
  \/ Dispatch \/ StopClears
  \/ \E l \in Listeners : Loop(l) \/ Accept(l) \/ StopCancels(l) \/ StopCloses(l)
  \/ \E c \in Clients : HandleClient(c)

TcpFairness ==
  /\ WF_tcpVars(Dispatch)
  /\ \A l \in Listeners : WF_tcpVars(Loop(l)) /\ WF_tcpVars(Accept(l))
  /\ WF_tcpVars(StopClears \/ \E l \in Listeners : StopCancels(l) \/ StopCloses(l))

TcpSpec == TcpInit /\ [][TcpNext]_tcpVars /\ TcpFairness

-----------------------------------------------------------------------------
(* Properties.                                                              *)


=============================================================================
