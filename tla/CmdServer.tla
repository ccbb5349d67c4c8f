------------------------------- MODULE CmdServer -------------------------------
(***************************************************************************)
(* The TCP command server (src/net/cmd_server.cpp): one thread and poll()  *)
(* serve the listener and every client.  A command is a line; the answer   *)
(* to it is a line too.  All sockets of clients are non-blocking.          *)
(*                                                                         *)
(* Bytes come in units.  A unit either ends a line or does not; a line     *)
(* that is nothing but its end is an empty command.  The size of an answer *)
(* is a choice.  Ages of connections are counted in coarse ticks.  One     *)
(* round of poll() is split at each system call on a client, so that peers *)
(* send, close or reset between any two of them.                           *)
(***************************************************************************)
EXTENDS Naturals, Sequences, SequencesExt, Selection

\* An operator introduced by "Mutant:" is not part of the model: it is what a
\* plausible bug would make of the definition that follows it.

CONSTANTS
    Peers,         \* programs that connect to the server, each once
    Active,       \* those that do more than connect and wait
    kMaxClients,   \* connections served at a time
    kMaxCmd,       \* kMaxCmdBytes: limit of the receive buffer
    kMaxOut,       \* kMaxOutBytes: limit of the transmit buffer
    RecvMax,       \* units one recv() returns at most
    Window,        \* units the kernel takes for a peer that does not read
    ReplySizes,    \* sizes of answers
    IdleTicks,     \* kIdleTimeoutMs in ticks
    MaxSent        \* bound: units each of them sends

ASSUME ServerAssumption ==
    /\ {kMaxClients, kMaxCmd, kMaxOut, RecvMax, Window, IdleTicks} \subseteq Nat \ {0}
    /\ ReplySizes \subseteq Nat \ {0} /\ Active \subseteq Peers /\ MaxSent \in Nat

VARIABLES
    spc,      \* where the server thread is; "off" before start() and after the end
    stop,     \* m_stop
    life,     \* "new", "running", "stopping" (stop() joins) or "stopped"
    clients,  \* m_clients: [peer, rxBuf, txBuf, closedByServer, age]
    polled,   \* the events poll() reported for the listener and the clients
    at,       \* index of the client being served
    conn,     \* each peer: "none", "pending", "open", "fin", "reset" or "closed"
    backlog,  \* peers waiting in the listener
    toServer, \* units on their way from each peer, or in the kernel's buffer
    toPeer,   \* units of answers in the kernel's buffer
    sent,     \* history: what each peer has sent
    handled,  \* history: the lines the server has taken from it
    owed,     \* history: the units of the answers to them
    got,      \* history: the units it has received
    cut,      \* history: peers whose receive buffer was thrown away
    dropped   \* history: peers whose answers were thrown away

serverVars == <<spc, stop, life, clients, polled, at>>
peerVars   == <<conn, backlog, toServer, toPeer>>
historyVars == <<sent, handled, owed, got, cut, dropped>>
vars == <<serverVars, peerVars, historyVars>>

NoEvents == [listener |-> FALSE, clients |-> <<>>]

Init ==
    /\ spc = "off" /\ stop = FALSE /\ life = "new"
    /\ clients = <<>> /\ at = 1
    /\ polled = NoEvents
    /\ conn = [p \in Peers |-> "none"] /\ backlog = <<>>
    /\ toServer = [p \in Peers |-> <<>>] /\ toPeer = [p \in Peers |-> <<>>]
    /\ sent = [p \in Peers |-> <<>>] /\ handled = [p \in Peers |-> <<>>]
    /\ owed = [p \in Peers |-> <<>>] /\ got = [p \in Peers |-> <<>>]
    /\ cut = {} /\ dropped = {}

Client == clients[at]
Peer == Client.peer
-----------------------------------------------------------------------------
(* Start and stop.                                                         *)

Start ==
    /\ life = "new"
    /\ life' = "running" /\ spc' = "poll"
    /\ UNCHANGED <<stop, clients, polled, at, peerVars, historyVars>>

\* The flag and the wake-up pipe.
StopRequest ==
    /\ life = "running"
    /\ life' = "stopping" /\ stop' = TRUE
    /\ UNCHANGED <<spc, clients, polled, at, peerVars, historyVars>>

StopJoin ==
    /\ life = "stopping" /\ spc = "off"
    /\ life' = "stopped"
    /\ UNCHANGED <<spc, stop, clients, polled, at, peerVars, historyVars>>
-----------------------------------------------------------------------------
(* The server thread.                                                      *)

\* closeClient for the clients with the given indices.  What is still in the
\* kernel's buffers is lost to the server; the peer sees the end.
CloseClients(indices) ==
    LET gone == {clients[i].peer : i \in indices}
    IN /\ clients' = Kept(clients, {c \in ToSet(clients) : c.peer \notin gone})
       /\ conn' = [p \in Peers |-> IF p \in gone THEN "closed" ELSE conn[p]]

\* The events are local to a round.
LeaveRound == spc' = "poll" /\ at' = 1 /\ polled' = NoEvents
GoOn == spc' = "client" /\ at' = at + 1 /\ UNCHANGED polled

\* A change of the set of clients ends the round.
\* Mutant: the round goes on with the client that moves to the free index.
CloseAndGoOn ==
    /\ CloseClients({at})
    /\ spc' = "client" /\ UNCHANGED <<polled, at>>
CloseAndLeave ==
    /\ CloseClients({at})
    /\ LeaveRound

\* Mutant: POLLOUT is only asked for a client that also has input.
WantsOutWithInput(c) == c.txBuf # <<>> /\ toServer[c.peer] # <<>>
WantsOut(c) == c.txBuf # <<>>

Revents(c) ==
    [peer |-> c.peer,
     hup  |-> conn[c.peer] = "reset",
     in   |-> toServer[c.peer] # <<>> \/ conn[c.peer] = "fin",
     out  |-> WantsOut(c) /\ Len(toPeer[c.peer]) < Window]

\* Mutant: the flag is only seen when nobody is connected.
SeesStopWhenAlone == stop /\ clients = <<>>
SeesStop == stop

\* poll() returns at the first event, or after at most one second with none.
Poll ==
    /\ spc = "poll"
    /\ ~SeesStop
    /\ polled' = [listener |-> backlog # <<>>,
                  clients |-> [i \in DOMAIN clients |-> Revents(clients[i])]]
    /\ spc' = "accept" /\ at' = 1
    /\ UNCHANGED <<stop, life, clients, peerVars, historyVars>>

\* The thread closes every descriptor.
Leave ==
    /\ spc = "poll"
    /\ SeesStop
    /\ spc' = "off"
    /\ clients' = <<>>
    /\ conn' = [p \in Peers |-> IF conn[p] = "none" THEN "none" ELSE "closed"]
    /\ backlog' = <<>>
    /\ UNCHANGED <<stop, life, polled, at, toServer, toPeer, historyVars>>

NewClient(p) ==
    [peer |-> p, rxBuf |-> <<>>, txBuf |-> <<>>, closedByServer |-> FALSE, age |-> 0]

\* Connections above the limit are accepted and closed at once.
AcceptClients ==
    LET n == Len(backlog)
        free == kMaxClients - Len(clients)
        taken == IF n < free THEN n ELSE free
        now == SubSeq(backlog, 1, taken)
        ready == polled.listener /\ n > 0
    IN /\ spc = "accept"
       /\ IF ready /\ taken > 0 THEN LeaveRound ELSE spc' = "client" /\ UNCHANGED <<polled, at>>
       /\ IF ready
          THEN /\ clients' = clients \o [i \in DOMAIN now |-> NewClient(now[i])]
               /\ conn' = [p \in Peers |->
                             IF p \in ToSet(now) THEN IF conn[p] = "pending" THEN "open" ELSE conn[p]
                             ELSE IF p \in ToSet(backlog) THEN "closed" ELSE conn[p]]
               /\ backlog' = <<>>
          ELSE UNCHANGED <<clients, conn, backlog>>
       /\ UNCHANGED <<stop, life, toServer, toPeer, historyVars>>

ServeClient ==
    /\ spc = "client" /\ at <= Len(clients)
    /\ \/ /\ polled.clients[at].hup
          /\ CloseAndLeave
       \/ /\ ~polled.clients[at].hup
          /\ spc' = IF polled.clients[at].in THEN "recv" ELSE "write"
          /\ UNCHANGED <<clients, conn, polled, at>>
    /\ UNCHANGED <<stop, life, backlog, toServer, toPeer, historyVars>>

SetClient(c) == clients' = [clients EXCEPT ![at] = c]

NoRoom(c, reply) == Len(c.txBuf) + Len(reply) > kMaxOut

\* enqueueReply: an answer the buffer has no room for empties the buffer and
\* marks the client for closing; c is the client without the line answered.
EnqueueReply(c, reply) ==
    /\ owed' = [owed EXCEPT ![c.peer] = @ \o reply]
    /\ IF NoRoom(c, reply)
       THEN /\ SetClient([c EXCEPT !.txBuf = <<>>, !.closedByServer = TRUE])
            /\ dropped' = dropped \cup {c.peer}
       ELSE /\ SetClient([c EXCEPT !.txBuf = @ \o reply])
            /\ UNCHANGED dropped

\* The answer to the n-th line, or to the limit, of the given size.
Reply(n, size) == [i \in 1 .. size |-> n]

\* recv() with data.  The limit is tested before the buffer is split.
ReceiveData ==
    LET n == IF Len(toServer[Peer]) < RecvMax THEN Len(toServer[Peer]) ELSE RecvMax
        rx == Client.rxBuf \o SubSeq(toServer[Peer], 1, n)
        c == [Client EXCEPT !.age = 0]
    IN /\ spc = "recv" /\ n > 0 /\ conn[Peer] # "reset"
       /\ toServer' = [toServer EXCEPT ![Peer] = SubSeq(@, n + 1, Len(@))]
       /\ IF Len(rx) > kMaxCmd
          THEN /\ EnqueueReply([c EXCEPT !.rxBuf = <<>>], Reply(0, 1))
               /\ cut' = cut \cup {Peer}
          ELSE /\ SetClient([c EXCEPT !.rxBuf = rx])
               /\ UNCHANGED <<owed, cut, dropped>>
       /\ spc' = "split"
       /\ UNCHANGED <<stop, life, polled, at, conn, backlog, toPeer, sent, handled, got>>

\* recv() reports the end or an error, whatever answers are still queued.
ReceiveEnd ==
    /\ spc = "recv"
    /\ conn[Peer] = "reset" \/ (conn[Peer] = "fin" /\ toServer[Peer] = <<>>)
    /\ CloseAndLeave
    /\ UNCHANGED <<stop, life, backlog, toServer, toPeer, historyVars>>

ReceivedAll ==
    /\ spc = "recv" /\ conn[Peer] = "open" /\ toServer[Peer] = <<>>
    /\ spc' = "write"
    /\ UNCHANGED <<stop, life, clients, polled, at, peerVars, historyVars>>

Ends == {i \in DOMAIN Client.rxBuf : Client.rxBuf[i].end}
FirstEnd == CHOOSE i \in Ends : \A j \in Ends : i <= j

\* Mutant: what follows the first line is forgotten.
RestForgotten == <<>>
Rest == SubSeq(Client.rxBuf, FirstEnd + 1, Len(Client.rxBuf))

\* handleLine: an empty line gets no answer.
HandleLine ==
    LET line == SubSeq(Client.rxBuf, 1, FirstEnd)
        c == [Client EXCEPT !.rxBuf = Rest]
    IN /\ spc = "split" /\ Ends # {}
       /\ handled' = [handled EXCEPT ![Peer] = Append(@, line)]
       /\ IF Len(line) = 1
          THEN SetClient(c) /\ UNCHANGED <<owed, dropped>>
          ELSE \E size \in ReplySizes : EnqueueReply(c, Reply(Len(handled'[Peer]), size))
       /\ UNCHANGED <<spc, stop, life, polled, at, peerVars, sent, got, cut>>

SplitAll ==
    /\ spc = "split" /\ Ends = {}
    /\ spc' = "recv"
    /\ UNCHANGED <<stop, life, clients, polled, at, peerVars, historyVars>>

\* Mutant: after a partial send the whole buffer is taken for sent.
UnsentForgotten(tx, n) == <<>>
Unsent(tx, n) == SubSeq(tx, n + 1, Len(tx))

\* flushClient, if poll() reported room, and the mark set by EnqueueReply.
Write ==
    LET room == Window - Len(toPeer[Peer])
        n == IF ~polled.clients[at].out THEN 0
             ELSE IF Len(Client.txBuf) < room THEN Len(Client.txBuf) ELSE room
        fails == conn[Peer] = "reset" /\ polled.clients[at].out /\ Client.txBuf # <<>>
    IN /\ spc = "write"
       /\ toPeer' = IF fails THEN toPeer
                    ELSE [toPeer EXCEPT ![Peer] = @ \o SubSeq(Client.txBuf, 1, n)]
       /\ IF fails \/ Client.closedByServer THEN CloseAndLeave
          ELSE /\ SetClient([Client EXCEPT !.txBuf = IF n = 0 THEN @ ELSE Unsent(@, n)])
               /\ GoOn
               /\ UNCHANGED conn
       /\ UNCHANGED <<stop, life, backlog, toServer, historyVars>>

\* Mutant: a client with answers to be sent is never idle.
IdleUnlessOwed(c) == c.age >= IdleTicks /\ c.txBuf = <<>>
Idle(c) == c.age >= IdleTicks

\* Reached only in a round in which no client was closed.
CloseIdle ==
    /\ spc = "client" /\ at > Len(clients)
    /\ CloseClients({i \in DOMAIN clients : Idle(clients[i])})
    /\ LeaveRound
    /\ UNCHANGED <<stop, life, backlog, toServer, toPeer, historyVars>>

ServerStep ==
    \/ Poll \/ Leave \/ AcceptClients \/ ServeClient
    \/ ReceiveData \/ ReceiveEnd \/ ReceivedAll \/ HandleLine \/ SplitAll
    \/ Write \/ CloseIdle
-----------------------------------------------------------------------------
(* The peers and time.                                                     *)

Connect(p) ==
    /\ life \in {"running", "stopping"} /\ spc # "off" /\ conn[p] = "none"
    /\ conn' = [conn EXCEPT ![p] = "pending"]
    /\ backlog' = Append(backlog, p)
    /\ UNCHANGED <<serverVars, toServer, toPeer, historyVars>>

SendUnit(p) ==
    /\ p \in Active /\ conn[p] \in {"pending", "open"} /\ Len(sent[p]) < MaxSent
    /\ \E end \in BOOLEAN :
         LET unit == [no |-> Len(sent[p]) + 1, end |-> end]
         IN /\ sent' = [sent EXCEPT ![p] = Append(@, unit)]
            /\ toServer' = [toServer EXCEPT ![p] = Append(@, unit)]
    /\ UNCHANGED <<serverVars, conn, backlog, toPeer, handled, owed, got, cut, dropped>>

\* The peer ends its side of an accepted connection, or breaks it.
Disconnect(p) ==
    /\ p \in Active /\ conn[p] \in {"open", "fin"}
    /\ \E how \in {"fin", "reset"} \ {conn[p]} : conn' = [conn EXCEPT ![p] = how]
    /\ UNCHANGED <<serverVars, backlog, toServer, toPeer, historyVars>>

ReadReply(p) ==
    /\ conn[p] \in {"open", "fin"} /\ toPeer[p] # <<>>
    /\ got' = [got EXCEPT ![p] = @ \o toPeer[p]]
    /\ toPeer' = [toPeer EXCEPT ![p] = <<>>]
    /\ UNCHANGED <<serverVars, conn, backlog, toServer, sent, handled, owed, cut, dropped>>

\* Ages beyond the limit are not told apart.
Tick ==
    /\ \E i \in DOMAIN clients : clients[i].age < IdleTicks
    /\ clients' = [i \in DOMAIN clients |->
                     [clients[i] EXCEPT !.age = IF @ < IdleTicks THEN @ + 1 ELSE @]]
    /\ UNCHANGED <<spc, stop, life, polled, at, peerVars, historyVars>>

Next ==
    \/ Start \/ StopRequest \/ StopJoin \/ ServerStep \/ Tick
    \/ \E p \in Peers : Connect(p) \/ SendUnit(p) \/ Disconnect(p) \/ ReadReply(p)

\* The thread runs, and stop() goes on when it has been joined.  Peers may do
\* nothing for ever.
Fairness == WF_vars(ServerStep) /\ WF_vars(StopJoin)

Spec == Init /\ [][Next]_vars /\ Fairness
-----------------------------------------------------------------------------
(* Properties.                                                             *)

Units == [no : 1 .. MaxSent, end : BOOLEAN]
Slot(p) == CHOOSE i \in DOMAIN clients : clients[i].peer = p
Served == {clients[i].peer : i \in DOMAIN clients}

\* Every variable has values of its kind; a buffer never exceeds its limit when
\* the thread waits, and no peer has two slots.
TypeOK ==
    /\ spc \in {"off", "poll", "accept", "client", "recv", "split", "write"}
    /\ stop \in BOOLEAN /\ life \in {"new", "running", "stopping", "stopped"}
    /\ clients \in Seq([peer : Peers, rxBuf : Seq(Units), txBuf : Seq(0 .. MaxSent),
                        closedByServer : BOOLEAN, age : 0 .. IdleTicks])
    /\ Len(clients) <= kMaxClients
    /\ \A i, j \in DOMAIN clients : clients[i].peer = clients[j].peer => i = j
    /\ \A i \in DOMAIN clients : Len(clients[i].rxBuf) <= kMaxCmd /\ Len(clients[i].txBuf) <= kMaxOut
    /\ conn \in [Peers -> {"none", "pending", "open", "fin", "reset", "closed"}]
    /\ Served = {p \in Peers : conn[p] \in {"open", "fin", "reset"}}
    /\ \A p \in Peers : Len(toPeer[p]) <= Window
    /\ cut \subseteq Peers /\ dropped \subseteq Peers

\* The events used for a client are those poll() reported for that client,
\* although clients come and go ("mutated" and "continue" in serverLoop).
DispatchAligned ==
    spc \in {"client", "recv", "split", "write"} /\ at <= Len(clients) =>
        /\ at <= Len(polled.clients)
        /\ polled.clients[at].peer = clients[at].peer

\* The slots are sound in both respects.
SlotsAligned == TypeOK /\ DispatchAligned

\* However lines are split over recv() calls or glued in one, every unit a peer
\* sent is in a line taken, in the buffer or still on its way, in order and
\* once, and a line taken is one line: unless the limit was hit.
CommandsFramed ==
    \A p \in Served \ cut :
        /\ FlattenSeq(handled[p]) \o clients[Slot(p)].rxBuf \o toServer[p] = sent[p]
        /\ \A n \in DOMAIN handled[p] : \A i \in DOMAIN handled[p][n] :
              handled[p][n][i].end <=> i = Len(handled[p][n])

\* A peer gets the answers to its lines in order, whole and once, however its
\* reading delays them: unless it was marked for closing.
RepliesConserved ==
    \A p \in Served \ dropped :
        got[p] \o toPeer[p] \o clients[Slot(p)].txBuf = owed[p]

\* stop() returns wherever the thread is and whoever is connected (poll() is
\* woken or times out; peers send no more than MaxSent units each).
StopReturns == life = "stopping" ~> life = "stopped"

\* Clients that stay silent, even those that do not read their answers, do not
\* keep their slots: whenever some have, a moment comes when none has.
Expired(p) == p \in Served /\ clients[Slot(p)].age >= IdleTicks
SilentIsDropped == (\E p \in Peers : Expired(p)) ~> (\A p \in Peers : ~Expired(p))

\* Answers do not stay in the buffer while the peer's window is empty.
Withheld(p) == p \in Served /\ clients[Slot(p)].txBuf # <<>> /\ toPeer[p] = <<>>
AnswersAreSent == \A p \in Active : Withheld(p) ~> ~Withheld(p)

\* What the comments say of the limit: it is the limit of one command.  A peer
\* all of whose lines are within it loses none.  The code throws such a line
\* away when recv() appends a part of the next one.  Not carried as a run; see
\* the README.
LongestWithin(s) ==
    \A i, j \in DOMAIN s : i <= j /\ j - i >= kMaxCmd => \E k \in i .. j - 1 : s[k].end
LegalCommandsKept == \A p \in cut : ~LongestWithin(sent[p])
=============================================================================
