------------------------------ MODULE HttpServer ------------------------------
(***************************************************************************)
(* The HTTP server (src/net/http_server.cpp): one thread and poll() serve  *)
(* the listener and at most kMaxClients connections, one request each.     *)
(*                                                                         *)
(* A request comes in units; the unit "end" completes its header.  What is *)
(* asked for and what the answer says is left out.  All sockets are        *)
(* non-blocking.  As in Linux, an error or a hang-up of a TCP connection   *)
(* is reported together with POLLIN.  Ages of connections are counted in   *)
(* coarse ticks.  A round of poll() is split at each recv(), so that peers *)
(* send, end or reset between any two of them.                             *)
(***************************************************************************)
EXTENDS Naturals, Sequences, SequencesExt, Selection

\* An operator introduced by "Mutant:" is not part of the model: it is what a
\* plausible bug would make of the definition that follows it.

CONSTANTS
    Peers,        \* browsers, numbered in the order in which they connect
    kMaxClients,  \* connections served at a time
    kMaxRequest,  \* limit of the receive buffer, in units
    RecvMax,      \* units one recv() returns at most
    IdleTicks,    \* kIdleTimeoutMs in ticks
    MaxSent       \* bound: units the peers send in all

ASSUME HttpAssumption ==
    /\ {kMaxClients, kMaxRequest, RecvMax, IdleTicks} \subseteq Nat \ {0}
    /\ Peers \subseteq Nat /\ MaxSent \in Nat

VARIABLES
    spc,      \* where the server thread is; "off" before start() and after the end
    running,  \* m_running
    life,     \* "new", "running", "stopping" (stop() joins) or "stopped"
    clients,  \* m_clients: [peer, rxBuf, age]
    polled,   \* fds: the events poll() reported, one entry per client it asked for
    listener, \* its event for the listener
    at,       \* index of the client being served
    conn,     \* each peer: "none", "pending", "open", "fin", "reset" or "closed"
    backlog,  \* peers waiting in the listener
    toServer, \* units on their way from each peer, or in the kernel's buffer
    answered, \* history: peers that have been answered, at least in part
    sent,     \* history: how many units have been sent
    asked,    \* history: connected peers that have sent a whole request
    quiet,    \* history: ticks since a peer was accepted or last sent
    unpolled  \* history: peers accepted in this round

serverVars == <<spc, running, life, clients, polled, listener, at>>
peerVars   == <<conn, backlog, toServer>>
historyVars == <<answered, sent, asked, quiet, unpolled>>
vars == <<serverVars, peerVars, historyVars>>

Init ==
    /\ spc = "off" /\ running = FALSE /\ life = "new"
    /\ clients = <<>> /\ polled = <<>> /\ listener = FALSE /\ at = 1
    /\ conn = [p \in Peers |-> "none"] /\ backlog = <<>>
    /\ toServer = [p \in Peers |-> <<>>]
    /\ answered = {} /\ sent = 0 /\ asked = {}
    /\ quiet = [p \in Peers |-> 0] /\ unpolled = {}

\* The peers that have a slot.
Open == {clients[i].peer : i \in DOMAIN clients}

Client == clients[at]
Peer == Client.peer
-----------------------------------------------------------------------------
(* Start and stop.                                                         *)

Start ==
    /\ life = "new"
    /\ life' = "running" /\ running' = TRUE /\ spc' = "poll"
    /\ UNCHANGED <<clients, polled, listener, at, peerVars, historyVars>>

\* The flag and the wake-up pipe.
StopRequest ==
    /\ life = "running"
    /\ life' = "stopping" /\ running' = FALSE
    /\ UNCHANGED <<spc, clients, polled, listener, at, peerVars, historyVars>>

\* join, then the listener is closed, and with it what waits there.
StopJoin ==
    /\ life = "stopping" /\ spc = "off"
    /\ life' = "stopped"
    /\ conn' = [p \in Peers |-> IF conn[p] = "pending" THEN "closed" ELSE conn[p]]
    /\ backlog' = <<>>
    /\ UNCHANGED <<spc, running, clients, polled, listener, at, toServer, historyVars>>
-----------------------------------------------------------------------------
(* The server thread.                                                      *)

\* closeClient for the clients with the given indices.  What they sent and
\* nobody has received is lost.
CloseClients(indices) ==
    LET gone == {clients[i].peer : i \in indices}
    IN /\ clients' = Kept(clients, {c \in ToSet(clients) : c.peer \notin gone})
       /\ conn' = [p \in Peers |-> IF p \in gone THEN "closed" ELSE conn[p]]
       /\ toServer' = [p \in Peers |-> IF p \in gone THEN <<>> ELSE toServer[p]]
       /\ quiet' = [p \in Peers |-> IF p \in gone THEN 0 ELSE quiet[p]]
       /\ asked' = asked \ gone

Revents(c) ==
    (IF toServer[c.peer] # <<>> \/ conn[c.peer] \in {"fin", "reset"} THEN {"in"} ELSE {})
        \cup (IF conn[c.peer] = "reset" THEN {"err"} ELSE {})

Ready == backlog # <<>> \/ \E i \in DOMAIN clients : Revents(clients[i]) # {}

\* poll() reports events.  Only the entries it asked for are initialised.
Poll ==
    /\ spc = "poll" /\ running /\ Ready
    /\ polled' = [i \in DOMAIN clients |-> Revents(clients[i])]
    /\ listener' = (backlog # <<>>)
    /\ spc' = "accept"
    /\ UNCHANGED <<running, life, clients, at, peerVars, historyVars>>

Idle(c) == c.age >= IdleTicks

\* poll() times out: the only place where idle connections are looked for.
PollTimesOut ==
    /\ spc = "poll" /\ running /\ ~Ready
    /\ CloseClients({i \in DOMAIN clients : Idle(clients[i])})
    /\ UNCHANGED <<spc, running, life, polled, listener, at,
                   backlog, answered, sent, unpolled>>

\* Seen through the pipe or at the head of the loop.  Every client is closed.
Leave ==
    /\ spc = "poll" /\ ~running
    /\ spc' = "off"
    /\ CloseClients(DOMAIN clients)
    /\ UNCHANGED <<running, life, polled, listener, at, backlog, answered, sent, unpolled>>

NewClient(p) == [peer |-> p, rxBuf |-> <<>>, age |-> 0]

\* Mutant: one connection above the limit.
FreeSlotsAndOne == kMaxClients + 1 - Len(clients)
FreeSlots == kMaxClients - Len(clients)

\* As many waiting connections as there are free slots.
Accept ==
    /\ spc = "accept"
    /\ LET n == IF ~listener THEN 0
                ELSE IF Len(backlog) < FreeSlots THEN Len(backlog) ELSE FreeSlots
           new == SubSeq(backlog, 1, n)
       IN /\ clients' = clients \o [i \in DOMAIN new |-> NewClient(new[i])]
          /\ backlog' = SubSeq(backlog, n + 1, Len(backlog))
          /\ conn' = [p \in Peers |-> IF p \in ToSet(new) THEN "open" ELSE conn[p]]
          /\ unpolled' = ToSet(new)
    /\ spc' = "client" /\ listener' = FALSE
    /\ UNCHANGED <<running, life, polled, at, toServer, answered, sent, asked, quiet>>

\* What fds holds for an index: the events of the round, or, for the entry of a
\* client accepted in this round, whatever was in that memory.
Entry(i) == IF i \in DOMAIN polled THEN {polled[i]} ELSE SUBSET {"in", "err"}

\* The loop has reached the end of the clients.
EndRound ==
    /\ spc = "client" /\ at > Len(clients)
    /\ spc' = "poll" /\ polled' = <<>> /\ at' = 1 /\ unpolled' = {}
    /\ UNCHANGED <<running, life, clients, listener, peerVars, answered, sent, asked, quiet>>

\* Mutant: errors are looked for before data.
HasErrFirst(revents) == "err" \in revents
\* Errors count only when there is no data.
HasErr(revents) == "in" \notin revents /\ "err" \in revents

HasData(revents) == ~HasErr(revents) /\ "in" \in revents

\* Mutant: the header must end with what has been received.
CompleteAtEnd(rx) == rx # <<>> /\ rx[Len(rx)] = "end"
\* The header's end is somewhere in the buffer.
Complete(rx) == "end" \in ToSet(rx)

\* No event, or recv() finds nothing: the next client.  After an accepted or
\* closed connection an index may carry the events of another client.
SkipClient ==
    /\ at' = at + 1
    /\ UNCHANGED <<clients, conn, toServer, answered, asked, quiet>>

\* The entry says error, or recv() reports the end: the client is closed, and
\* its successor, which moves to its index, is served with its entry.
CloseClient ==
    /\ CloseClients({at})
    /\ UNCHANGED <<at, answered>>

\* recv() returns data.  A request is answered (in part, when the peer reads
\* too slowly) and the connection closed; the loop then passes over the
\* successor.  A request that is too long is answered too, but the successor
\* is served.
ReceiveData(n) ==
    LET rx == Client.rxBuf \o SubSeq(toServer[Peer], 1, n)
    IN \/ /\ Len(rx) > kMaxRequest
          /\ answered' = answered \cup {Peer}
          /\ CloseClients({at})
          /\ UNCHANGED at
       \/ /\ Len(rx) <= kMaxRequest /\ Complete(rx)
          /\ answered' = answered \cup {Peer}
          /\ CloseClients({at})
          /\ at' = at + 1
       \/ /\ Len(rx) <= kMaxRequest /\ ~Complete(rx)
          /\ toServer' = [toServer EXCEPT ![Peer] = SubSeq(@, n + 1, Len(@))]
          /\ clients' = [clients EXCEPT ![at].rxBuf = rx, ![at].age = 0]
          /\ at' = at + 1
          /\ UNCHANGED <<conn, answered, asked, quiet>>

Serve ==
    /\ spc = "client" /\ at <= Len(clients)
    /\ \E revents \in Entry(at) :
         \/ HasErr(revents) /\ CloseClient
         \/ /\ HasData(revents) /\ conn[Peer] # "reset" /\ toServer[Peer] # <<>>
            /\ \E n \in 1 .. RecvMax : n <= Len(toServer[Peer]) /\ ReceiveData(n)
         \/ /\ HasData(revents)
            /\ conn[Peer] = "reset" \/ (conn[Peer] = "fin" /\ toServer[Peer] = <<>>)
            /\ CloseClient
         \/ /\ HasData(revents) => conn[Peer] = "open" /\ toServer[Peer] = <<>>
            /\ ~HasErr(revents)
            /\ SkipClient
    /\ UNCHANGED <<spc, running, life, polled, listener, backlog, sent, unpolled>>

ServerStep == Poll \/ PollTimesOut \/ Leave \/ Accept \/ Serve \/ EndRound
-----------------------------------------------------------------------------
(* The peers and the clock.                                                *)

Connect(p) ==
    /\ life \in {"running", "stopping"} /\ conn[p] = "none"
    /\ \A q \in Peers : q < p => conn[q] # "none"
    /\ conn' = [conn EXCEPT ![p] = "pending"]
    /\ backlog' = Append(backlog, p)
    /\ UNCHANGED <<serverVars, toServer, historyVars>>

\* What follows the header of a request matters only by its length.
SendUnit(p) ==
    /\ conn[p] \in {"pending", "open"} /\ sent < MaxSent
    /\ \E u \in {"part"} \cup {"end" : q \in {p} \ asked} :
         /\ toServer' = [toServer EXCEPT ![p] = Append(@, u)]
         /\ asked' = asked \cup {q \in {p} : u = "end"}
    /\ sent' = sent + 1
    /\ quiet' = [quiet EXCEPT ![p] = 0]
    /\ UNCHANGED <<serverVars, conn, backlog, answered, unpolled>>

\* A peer that leaves while it waits is seen to leave once it is accepted.
Disconnect(p) ==
    /\ conn[p] = "open"
    /\ \E how \in {"fin", "reset"} : conn' = [conn EXCEPT ![p] = how]
    /\ UNCHANGED <<serverVars, backlog, toServer, historyVars>>

\* Time passes while poll() waits; ages are counted up to the limit.
Tick ==
    /\ spc = "poll"
    /\ \E i \in DOMAIN clients : ~Idle(clients[i])
    /\ clients' = [i \in DOMAIN clients |->
                     [clients[i] EXCEPT !.age = IF @ < IdleTicks THEN @ + 1 ELSE @]]
    /\ quiet' = [p \in Peers |->
                    IF p \in Open /\ quiet[p] < IdleTicks THEN quiet[p] + 1 ELSE quiet[p]]
    /\ UNCHANGED <<spc, running, life, polled, listener, at,
                   peerVars, answered, sent, asked, unpolled>>

PeerStep == Tick \/ \E p \in Peers : Connect(p) \/ SendUnit(p) \/ Disconnect(p)

Next == Start \/ StopRequest \/ StopJoin \/ ServerStep \/ PeerStep

\* poll() returns at the latest after a second and the other calls do not
\* block, so the server thread and stop() go on; nobody else has to act.
Fairness == WF_vars(ServerStep) /\ WF_vars(StopJoin)

Spec == Init /\ [][Next]_vars /\ Fairness
-----------------------------------------------------------------------------
\* Types, and the slots: the array of events has room for every client, a
\* connection has at most one slot, and one that has is neither closed nor
\* waiting in the listener.
TypeOK ==
    /\ spc \in {"off", "poll", "accept", "client"}
    /\ life \in {"new", "running", "stopping", "stopped"}
    /\ running = (life = "running")
    /\ Len(clients) <= kMaxClients /\ Len(polled) <= kMaxClients
    /\ at \in 1 .. kMaxClients + 1
    /\ \A i, j \in DOMAIN clients : clients[i].peer = clients[j].peer => i = j
    /\ \A i \in DOMAIN clients :
          Len(clients[i].rxBuf) <= kMaxRequest /\ ~Complete(clients[i].rxBuf)
    /\ \A p \in Peers : (p \in Open) = (conn[p] \in {"open", "fin", "reset"})
    /\ \A p \in Peers : (p \in ToSet(backlog)) = (conn[p] = "pending")

\* The events are indexed like the clients, but indices move when a client is
\* closed in the middle of the loop.  Whatever entry a client is served with,
\* the server only closes, without an answer, a connection whose peer is still
\* there when it has been silent for the whole idle time, or when stop() ends
\* the thread.  Connections accepted in the same round are the exception: the
\* server reads their entries uninitialised.
HealthyIsKept ==
    [][\A p \in Peers :
          (conn[p] = "open" /\ conn'[p] = "closed" /\ p \notin answered')
             => \/ quiet[p] >= IdleTicks
                \/ ~running
                \/ p \in unpolled]_vars

\* A whole request of a connection that has a slot is answered in the end, at
\* least in part, although the loop passes over clients and serves others with
\* wrong events.  A peer that resets, and stop(), excuse the server; so does the
\* round in which the connection is accepted, for the server closes it unanswered
\* when its uninitialised entry says error.  That round is over at its end: a
\* request that is still waiting then, like one that comes later, is answered,
\* be its connection half closed or as old as it may.
AcceptedIsAnswered ==
    \A p \in Peers :
        p \in Open \cap asked
            ~> p \in answered \/ conn[p] = "reset" \/ ~running \/ p \in unpolled

\* The header promises to drop a connection after 30 seconds of silence.  The
\* code keeps it when the slots are full and somebody waits: poll() then never
\* times out.  Not carried as a run; see the README.
SilentIsDropped ==
    \A p \in Peers : p \in Open /\ quiet[p] >= IdleTicks ~> p \notin Open \/ quiet[p] = 0
=============================================================================
