---------------------------- MODULE CmdServer_proofs ----------------------------
(***************************************************************************)
(* Proofs about the command server.                                        *)
(*                                                                         *)
(* What the three invariants say of a connection only stays true because   *)
(* the slots, the listener's queue and the events of the round agree with  *)
(* each other; and an answer only carries a number of its kind because no  *)
(* more lines are taken than units have been sent.  The inductive          *)
(* invariant says all of this of the element of m_clients, by its index,   *)
(* and of the peers that have not been accepted yet.                       *)
(***************************************************************************)
EXTENDS CmdServer, SequenceLemmas

\* What units of answers are: the number of the line answered.
Marks == 0 .. MaxSent

ClientRecord == [peer : Peers, rxBuf : Seq(Units), txBuf : Seq(Marks),
                 closedByServer : BOOLEAN, age : 0 .. IdleTicks]
EventRecord == [peer : Peers, hup : BOOLEAN, in : BOOLEAN, out : BOOLEAN]

Kinds ==
    /\ spc \in {"off", "poll", "accept", "client", "recv", "split", "write"}
    /\ stop \in BOOLEAN /\ life \in {"new", "running", "stopping", "stopped"}
    /\ clients \in Seq(ClientRecord)
    /\ polled \in [listener : BOOLEAN, clients : Seq(EventRecord)]
    /\ at \in Nat /\ at >= 1
    /\ conn \in [Peers -> {"none", "pending", "open", "fin", "reset", "closed"}]
    /\ backlog \in Seq(Peers)
    /\ toServer \in [Peers -> Seq(Units)]
    /\ toPeer \in [Peers -> Seq(Marks)]
    /\ sent \in [Peers -> Seq(Units)]
    /\ handled \in [Peers -> Seq(Seq(Units))]
    /\ owed \in [Peers -> Seq(Marks)]
    /\ got \in [Peers -> Seq(Marks)]
    /\ cut \subseteq Peers /\ dropped \subseteq Peers

\* Who has a slot, and who waits for one.
Slots ==
    /\ Len(clients) <= kMaxClients
    /\ \A i, j \in 1 .. Len(clients) : clients[i].peer = clients[j].peer => i = j
    /\ \A p \in Peers : p \in Served <=> conn[p] \in {"open", "fin", "reset"}
    /\ \A i, j \in 1 .. Len(backlog) : backlog[i] = backlog[j] => i = j
    /\ \A p \in Peers : p \in ToSet(backlog) <=> conn[p] = "pending"

Limits ==
    /\ \A i \in 1 .. Len(clients) :
          Len(clients[i].rxBuf) <= kMaxCmd /\ Len(clients[i].txBuf) <= kMaxOut
    /\ \A p \in Peers : Len(toPeer[p]) <= Window

\* The events of the round are those of the clients, index by index.
Round ==
    /\ spc \in {"recv", "split", "write"} => at <= Len(clients)
    /\ spc \in {"accept", "client", "recv", "split", "write"} =>
          /\ Len(polled.clients) = Len(clients)
          /\ \A i \in 1 .. Len(clients) : polled.clients[i].peer = clients[i].peer

\* A peer that has not been accepted has only sent.
Fresh ==
    \A p \in Peers : conn[p] \in {"none", "pending"} =>
        /\ handled[p] = <<>> /\ owed[p] = <<>> /\ got[p] = <<>> /\ toPeer[p] = <<>>
        /\ toServer[p] = sent[p]

\* A line taken costs at least a unit.
Room(h, ts, s) == Len(h) + Len(ts) <= Len(s)
RoomHere(h, rx, ts, s) == Len(h) + Len(rx) + Len(ts) <= Len(s)
Counts ==
    /\ \A p \in Peers : Len(sent[p]) <= MaxSent /\ Room(handled[p], toServer[p], sent[p])
    /\ \A i \in 1 .. Len(clients) :
          RoomHere(handled[clients[i].peer], clients[i].rxBuf,
                   toServer[clients[i].peer], sent[clients[i].peer])

Answered(tx, g, k, o) == g \o k \o tx = o
Replies ==
    \A i \in 1 .. Len(clients) : clients[i].peer \notin dropped =>
        Answered(clients[i].txBuf, got[clients[i].peer],
                 toPeer[clients[i].peer], owed[clients[i].peer])

IsLine(line) == \A i \in 1 .. Len(line) : line[i].end <=> i = Len(line)
Taken(h, rx, ts, s) ==
    FlattenSeq(h) \o rx \o ts = s /\ \A n \in 1 .. Len(h) : IsLine(h[n])
Frames ==
    \A i \in 1 .. Len(clients) : clients[i].peer \notin cut =>
        Taken(handled[clients[i].peer], clients[i].rxBuf,
              toServer[clients[i].peer], sent[clients[i].peer])

ServerInv ==
    Kinds /\ Slots /\ Limits /\ Round /\ Fresh /\ Counts /\ Replies /\ Frames
-----------------------------------------------------------------------------
(* Steps that serve nobody.                                                 *)

\* The constants are numbers.
LEMMA Numbers ==
    /\ kMaxClients \in Nat \ {0} /\ kMaxCmd \in Nat \ {0} /\ kMaxOut \in Nat \ {0}
    /\ RecvMax \in Nat \ {0} /\ Window \in Nat \ {0} /\ IdleTicks \in Nat \ {0}
    /\ MaxSent \in Nat /\ ReplySizes \subseteq Nat \ {0}
BY ServerAssumption

\* The thread and stop() go on; no connection and no buffer is touched.
LEMMA ControlKeeps ==
    ASSUME ServerInv, UNCHANGED <<clients, peerVars, historyVars>>,
           spc' \in {"off", "poll", "accept", "client", "recv", "split", "write"},
           stop' \in BOOLEAN, life' \in {"new", "running", "stopping", "stopped"},
           polled' \in [listener : BOOLEAN, clients : Seq(EventRecord)],
           at' \in Nat, at' >= 1, Round'
    PROVE  ServerInv'
<1>1. Kinds'
  BY DEF ServerInv, Kinds, peerVars, historyVars
<1>2. Slots'
  BY DEF ServerInv, Slots, Served, peerVars, historyVars
<1>3. Limits' /\ Fresh'
  BY DEF ServerInv, Limits, Fresh, peerVars, historyVars
<1>4. Counts' /\ Replies' /\ Frames'
  BY DEF ServerInv, Counts, Replies, Frames, peerVars, historyVars
<1> QED
  BY <1>1, <1>2, <1>3, <1>4 DEF ServerInv

\* Everything starts empty.
LEMMA ServerInit == Init => ServerInv
<1> SUFFICES ASSUME Init PROVE ServerInv
  OBVIOUS
<1>0. Len(<<>>) = 0 /\ 1 .. 0 = {} /\ \A S : <<>> \in Seq(S)
  OBVIOUS
<1>1. Kinds
  <2>1. /\ <<>> \in Seq(ClientRecord) /\ <<>> \in Seq(Peers) /\ <<>> \in Seq(Units)
        /\ <<>> \in Seq(Marks) /\ <<>> \in Seq(Seq(Units))
        /\ NoEvents \in [listener : BOOLEAN, clients : Seq(EventRecord)]
    BY DEF NoEvents
  <2>2. /\ clients \in Seq(ClientRecord) /\ backlog \in Seq(Peers)
        /\ polled \in [listener : BOOLEAN, clients : Seq(EventRecord)]
    BY <2>1 DEF Init
  <2> HIDE DEF ClientRecord, EventRecord
  <2>3. /\ toServer \in [Peers -> Seq(Units)] /\ toPeer \in [Peers -> Seq(Marks)]
        /\ sent \in [Peers -> Seq(Units)] /\ handled \in [Peers -> Seq(Seq(Units))]
        /\ owed \in [Peers -> Seq(Marks)] /\ got \in [Peers -> Seq(Marks)]
    BY <2>1 DEF Init
  <2>4. conn \in [Peers -> {"none", "pending", "open", "fin", "reset", "closed"}]
        /\ cut \subseteq Peers /\ dropped \subseteq Peers
        /\ spc \in {"off", "poll", "accept", "client", "recv", "split", "write"}
        /\ stop \in BOOLEAN /\ life \in {"new", "running", "stopping", "stopped"}
        /\ at \in Nat /\ at >= 1
    <3>1. conn \in [Peers -> {"none", "pending", "open", "fin", "reset", "closed"}]
      BY DEF Init
    <3>2. /\ spc = "off" /\ stop = FALSE /\ life = "new" /\ at = 1 /\ cut = {} /\ dropped = {}
      BY DEF Init
    <3>3. stop \in BOOLEAN
      BY <3>2, Zenon
    <3>4. at \in Nat /\ at >= 1
      BY <3>2
    <3>5. cut \subseteq Peers /\ dropped \subseteq Peers
      BY <3>2, Zenon
    <3>6. /\ spc \in {"off", "poll", "accept", "client", "recv", "split", "write"}
          /\ life \in {"new", "running", "stopping", "stopped"}
      BY <3>2
    <3> QED
      BY <3>1, <3>3, <3>4, <3>5, <3>6
  <2> QED
    BY <2>2, <2>3, <2>4 DEF Kinds
<1>2. Slots
  <2>1. Served = {} /\ ToSet(backlog) = {}
    BY <1>0 DEF Init, Served, ToSet
  <2> QED
    BY <1>0, <2>1, Numbers DEF Init, Slots
<1>3. Limits /\ Round /\ Fresh
  BY <1>0, Numbers DEF Init, Limits, Round, Fresh
<1>4. Counts /\ Replies /\ Frames
  BY <1>0, Numbers DEF Init, Counts, Replies, Frames, Room
<1> QED
  BY <1>1, <1>2, <1>3, <1>4 DEF ServerInv

\* The thread is started and stopped.
LEMMA StartStopKeeps ==
    ASSUME ServerInv, Start \/ StopRequest \/ StopJoin
    PROVE  ServerInv'
<1>1. UNCHANGED <<clients, polled, at, peerVars, historyVars>>
  BY DEF Start, StopRequest, StopJoin
<1>2. /\ spc' \in {"off", "poll", "accept", "client", "recv", "split", "write"}
      /\ stop' \in BOOLEAN /\ life' \in {"new", "running", "stopping", "stopped"}
  BY DEF Start, StopRequest, StopJoin, ServerInv, Kinds
<1>3. spc' = spc \/ spc' = "poll"
  BY DEF Start, StopRequest, StopJoin
<1>4. Round'
  BY <1>1, <1>3 DEF ServerInv, Round
<1> QED
  BY <1>1, <1>2, <1>4, ControlKeeps DEF ServerInv, Kinds

\* poll() reports an event for each client.
LEMMA PollKeeps ==
    ASSUME ServerInv, Poll
    PROVE  ServerInv'
<1>0. clients \in Seq(ClientRecord) /\ Len(clients) \in Nat /\ DOMAIN clients = 1 .. Len(clients)
  BY DEF ServerInv, Kinds
<1> DEFINE r == [i \in DOMAIN clients |-> Revents(clients[i])]
<1>1. \A i \in 1 .. Len(clients) :
        Revents(clients[i]) \in EventRecord /\ Revents(clients[i]).peer = clients[i].peer
  <2>1. ASSUME NEW i \in 1 .. Len(clients)
        PROVE  Revents(clients[i]) \in EventRecord /\ Revents(clients[i]).peer = clients[i].peer
    <3>1. clients[i] \in ClientRecord
      BY <1>0
    <3>2. clients[i].peer \in Peers
      BY <3>1 DEF ClientRecord
    <3> QED
      BY <3>2 DEF Revents, EventRecord, WantsOut
  <2> QED
    BY <2>1
<1>2. r \in Seq(EventRecord) /\ Len(r) = Len(clients)
      /\ \A i \in 1 .. Len(clients) : r[i].peer = clients[i].peer
  BY <1>0, <1>1
<1> HIDE DEF r
<1>3. /\ polled' = [listener |-> backlog # <<>>, clients |-> r]
      /\ spc' = "accept" /\ at' = 1
      /\ UNCHANGED <<stop, life, clients, peerVars, historyVars>>
  BY DEF Poll, r
<1>4. polled' \in [listener : BOOLEAN, clients : Seq(EventRecord)] /\ polled'.clients = r
  BY <1>2, <1>3
<1>5. Round'
  BY <1>2, <1>3, <1>4 DEF Round
<1>6. stop \in BOOLEAN /\ life \in {"new", "running", "stopping", "stopped"}
  BY DEF ServerInv, Kinds
<1> HIDE DEF EventRecord
<1> QED
  BY <1>3, <1>4, <1>5, <1>6, ControlKeeps

\* The thread turns to what is to be done for a client.
LEMMA TurnKeeps ==
    ASSUME ServerInv, UNCHANGED <<stop, life, clients, polled, at, peerVars, historyVars>>,
           spc \in {"client", "recv", "split"}, spc' \in {"recv", "split", "write"},
           at <= Len(clients)
    PROVE  ServerInv'
<1>1. Round'
  BY DEF ServerInv, Round
<1> QED
  BY <1>1, ControlKeeps DEF ServerInv, Kinds

\* The thread ends and closes every connection.
LEMMA LeaveKeeps ==
    ASSUME ServerInv, Leave
    PROVE  ServerInv'
<1>0. Len(<<>>) = 0 /\ 1 .. 0 = {} /\ \A S : <<>> \in Seq(S)
  OBVIOUS
<1>1. /\ spc' = "off" /\ clients' = <<>> /\ backlog' = <<>>
      /\ conn' = [p \in Peers |-> IF conn[p] = "none" THEN "none" ELSE "closed"]
      /\ UNCHANGED <<stop, life, polled, at, toServer, toPeer, historyVars>>
  BY DEF Leave
<1>2. \A p \in Peers : conn'[p] \in {"none", "closed"} /\ (conn'[p] = "none" => conn[p] = "none")
  BY <1>1
<1>3. Kinds'
  BY <1>0, <1>1 DEF ServerInv, Kinds, historyVars
<1>4. Slots'
  <2>1. Served' = {} /\ ToSet(backlog)' = {}
    BY <1>0, <1>1 DEF Served, ToSet
  <2> QED
    BY <1>0, <1>1, <1>2, <2>1, Numbers DEF Slots
<1>5. Limits' /\ Round' /\ Fresh'
  BY <1>0, <1>1, <1>2 DEF ServerInv, Limits, Round, Fresh, historyVars
<1>6. Counts' /\ Replies' /\ Frames'
  BY <1>0, <1>1 DEF ServerInv, Counts, Replies, Frames, historyVars
<1> QED
  BY <1>3, <1>4, <1>5, <1>6 DEF ServerInv
-----------------------------------------------------------------------------
(* Connections are closed and accepted.                                     *)

\* The peers of some clients are closed, and the round ends.
LEMMA CloseKeeps ==
    ASSUME ServerInv, NEW gone, gone \subseteq Served,
           clients' = Kept(clients, {c \in ToSet(clients) : c.peer \notin gone}),
           conn' = [p \in Peers |-> IF p \in gone THEN "closed" ELSE conn[p]],
           LeaveRound, UNCHANGED <<stop, life, backlog, toServer, historyVars>>,
           toPeer' \in [Peers -> Seq(Marks)],
           \A p \in Peers : Len(toPeer'[p]) <= Window,
           \A p \in Peers : p \notin gone => toPeer'[p] = toPeer[p]
    PROVE  ServerInv'
<1>1. /\ clients \in Seq(ClientRecord) /\ Len(clients) \in Nat
      /\ \A i, j \in 1 .. Len(clients) : clients[i].peer = clients[j].peer => i = j
  BY DEF ServerInv, Kinds, Slots
<1>2. /\ clients' \in Seq(ClientRecord) /\ Len(clients') <= Len(clients)
      /\ \A i, j \in 1 .. Len(clients') : clients'[i].peer = clients'[j].peer => i = j
      /\ \A i \in 1 .. Len(clients') :
            clients'[i].peer \notin gone /\ \E k \in 1 .. Len(clients) : clients'[i] = clients[k]
      /\ \A k \in 1 .. Len(clients) :
            clients[k].peer \notin gone => \E i \in 1 .. Len(clients') : clients'[i] = clients[k]
  <2> DEFINE s == clients
             t == clients'
  <2>1. /\ s \in Seq(ClientRecord) /\ t = Kept(s, Others(s, gone))
        /\ \A i, j \in 1 .. Len(s) : s[i].peer = s[j].peer => i = j
    BY <1>1 DEF Others
  <2> HIDE DEF s, t
  <2>2. /\ t \in Seq(ClientRecord) /\ Len(t) <= Len(s)
        /\ \A i, j \in 1 .. Len(t) : t[i].peer = t[j].peer => i = j
        /\ \A i \in 1 .. Len(t) : t[i].peer \notin gone /\ \E k \in 1 .. Len(s) : t[i] = s[k]
        /\ \A k \in 1 .. Len(s) :
              s[k].peer \notin gone => \E i \in 1 .. Len(t) : t[i] = s[k]
    BY <2>1, ConnectionsLeft
  <2> QED
    BY <2>2 DEF s, t
<1>3. Len(clients') \in Nat
  BY <1>2
<1>4. \A i \in 1 .. Len(clients) : clients[i].peer \in Peers
  <2>1. \A c \in ClientRecord : c.peer \in Peers
    BY DEF ClientRecord
  <2> QED
    BY <1>1, <2>1
<1>5. Served' = Served \ gone
  <2>0. DOMAIN clients = 1 .. Len(clients) /\ DOMAIN clients' = 1 .. Len(clients')
    BY <1>1, <1>2
  <2>1. /\ \A p : p \in Served <=> \E i \in 1 .. Len(clients) : clients[i].peer = p
        /\ \A p : p \in Served' <=> \E i \in 1 .. Len(clients') : clients'[i].peer = p
    BY <2>0 DEF Served
  <2>2. ASSUME NEW p \in Served' PROVE p \in Served \ gone
    <3>1. PICK i \in 1 .. Len(clients') : clients'[i].peer = p
      BY <2>1, <2>2
    <3>2. PICK k \in 1 .. Len(clients) : clients'[i] = clients[k]
      BY <1>2
    <3>3. clients[k].peer = p /\ p \notin gone
      BY <1>2, <3>1, <3>2
    <3> QED
      BY <2>1, <3>3
  <2>3. ASSUME NEW p \in Served \ gone PROVE p \in Served'
    <3>1. PICK k \in 1 .. Len(clients) : p = clients[k].peer /\ clients[k].peer \notin gone
      BY <2>1
    <3>2. PICK i \in 1 .. Len(clients') : clients'[i] = clients[k]
      BY <1>2, <3>1
    <3> QED
      BY <2>1, <3>1, <3>2
  <2> QED
    BY <2>2, <2>3
<1>6. \A p \in gone : conn[p] \in {"open", "fin", "reset"}
  BY <1>1, <1>4 DEF ServerInv, Slots, Served
<1>7. Kinds'
  <2>1. conn' \in [Peers -> {"none", "pending", "open", "fin", "reset", "closed"}]
    BY DEF ServerInv, Kinds
  <2>2. polled' \in [listener : BOOLEAN, clients : Seq(EventRecord)]
    BY DEF LeaveRound, NoEvents
  <2>3. at' \in Nat /\ at' >= 1 /\ spc' = "poll"
    BY DEF LeaveRound
  <2> HIDE DEF ClientRecord, EventRecord
  <2> QED
    BY <1>2, <2>1, <2>2, <2>3 DEF ServerInv, Kinds, historyVars
<1>8. Slots'
  <2>1. \A p \in Peers : p \in Served' <=> conn'[p] \in {"open", "fin", "reset"}
    BY <1>5 DEF ServerInv, Slots
  <2>2. \A p \in Peers : conn'[p] = "pending" <=> conn[p] = "pending"
    BY <1>6
  <2>3. ToSet(backlog)' = ToSet(backlog)
    BY DEF ToSet
  <2>4. Len(clients') <= kMaxClients
    BY <1>1, <1>2, <1>3, Numbers DEF ServerInv, Slots
  <2>5. /\ \A i, j \in 1 .. Len(backlog') : backlog'[i] = backlog'[j] => i = j
        /\ \A p \in Peers : p \in ToSet(backlog)' <=> conn'[p] = "pending"
    BY <2>2, <2>3 DEF ServerInv, Slots
  <2> QED
    BY <1>2, <2>1, <2>4, <2>5 DEF Slots
<1>9. Limits'
  BY <1>2 DEF ServerInv, Limits
<1>10. Round'
  BY DEF LeaveRound, Round
<1>11. Fresh'
  BY <1>6 DEF ServerInv, Fresh, historyVars
<1>12. Counts'
  <2>1. \A p \in Peers : Len(sent'[p]) <= MaxSent /\ Room(handled'[p], toServer'[p], sent'[p])
    BY DEF ServerInv, Counts, historyVars
  <2>2. \A i \in 1 .. Len(clients') :
          RoomHere(handled'[clients'[i].peer], clients'[i].rxBuf,
                   toServer'[clients'[i].peer], sent'[clients'[i].peer])
    <3>1. ASSUME NEW i \in 1 .. Len(clients')
          PROVE  RoomHere(handled'[clients'[i].peer], clients'[i].rxBuf,
                          toServer'[clients'[i].peer], sent'[clients'[i].peer])
      <4>1. PICK k \in 1 .. Len(clients) : clients'[i] = clients[k]
        BY <1>2
      <4>2. UNCHANGED <<handled, toServer, sent>>
        BY DEF historyVars
      <4> QED
        BY <4>1, <4>2 DEF ServerInv, Counts
    <3> QED
      BY <3>1
  <2> QED
    BY <2>1, <2>2 DEF Counts
<1>13. Replies'
  <2>1. ASSUME NEW i \in 1 .. Len(clients'), clients'[i].peer \notin dropped'
        PROVE  Answered(clients'[i].txBuf, got'[clients'[i].peer],
                        toPeer'[clients'[i].peer], owed'[clients'[i].peer])
    <3>1. PICK k \in 1 .. Len(clients) : clients'[i] = clients[k]
      BY <1>2
    <3>2. clients[k].peer \notin gone /\ clients[k].peer \in Peers
      BY <1>2, <1>4, <3>1
    <3>3. toPeer'[clients[k].peer] = toPeer[clients[k].peer]
      BY <3>2
    <3> QED
      BY <2>1, <3>1, <3>3 DEF ServerInv, Replies, historyVars
  <2> QED
    BY <2>1 DEF Replies
<1>14. Frames'
  <2>1. ASSUME NEW i \in 1 .. Len(clients'), clients'[i].peer \notin cut'
        PROVE  Taken(handled'[clients'[i].peer], clients'[i].rxBuf,
                     toServer'[clients'[i].peer], sent'[clients'[i].peer])
    <3>1. PICK k \in 1 .. Len(clients) : clients'[i] = clients[k]
      BY <1>2
    <3>2. cut' = cut /\ UNCHANGED <<handled, toServer, sent>>
      BY DEF historyVars
    <3> QED
      BY <2>1, <3>1, <3>2 DEF ServerInv, Frames
  <2> QED
    BY <2>1 DEF Frames
<1> QED
  BY <1>7, <1>8, <1>9, <1>10, <1>11, <1>12, <1>13, <1>14 DEF ServerInv

\* The clients with the given indices are closed, nothing is sent.
LEMMA CloseIndicesKeeps ==
    ASSUME ServerInv, NEW indices, indices \subseteq 1 .. Len(clients),
           CloseClients(indices), LeaveRound,
           UNCHANGED <<stop, life, backlog, toServer, toPeer, historyVars>>
    PROVE  ServerInv'
<1> DEFINE gone == {clients[i].peer : i \in indices}
<1>1. gone \subseteq Served
  BY DEF ServerInv, Kinds, Served
<1>2. /\ clients' = Kept(clients, {c \in ToSet(clients) : c.peer \notin gone})
      /\ conn' = [p \in Peers |-> IF p \in gone THEN "closed" ELSE conn[p]]
  BY DEF CloseClients
<1>3. /\ toPeer' \in [Peers -> Seq(Marks)]
      /\ \A p \in Peers : Len(toPeer'[p]) <= Window
      /\ \A p \in Peers : p \notin gone => toPeer'[p] = toPeer[p]
  BY DEF ServerInv, Kinds, Limits
<1> HIDE DEF gone
<1> QED
  BY <1>1, <1>2, <1>3, CloseKeeps

\* A new client has the peer and nothing else.
LEMMA NewClientIs ==
    ASSUME NEW p \in Peers
    PROVE  /\ NewClient(p) \in ClientRecord /\ NewClient(p).peer = p
           /\ NewClient(p).rxBuf = <<>> /\ NewClient(p).txBuf = <<>>
BY Numbers DEF NewClient, ClientRecord

\* For a peer that has only sent, a new client has everything right.
LEMMA NewClientIsSound ==
    ASSUME NEW s \in Seq(Units)
    PROVE  /\ RoomHere(<<>>, <<>>, s, s) /\ Answered(<<>>, <<>>, <<>>, <<>>)
           /\ Taken(<<>>, <<>>, s, s)
<1>1. Len(<<>>) = 0 /\ 1 .. 0 = {} /\ <<>> \o <<>> = <<>> /\ <<>> \o s = s /\ Len(s) \in Nat
  OBVIOUS
<1>2. RoomHere(<<>>, <<>>, s, s) /\ Answered(<<>>, <<>>, <<>>, <<>>)
  BY <1>1 DEF RoomHere, Answered
<1>3. Taken(<<>>, <<>>, s, s)
  BY <1>1, FlattenEmpty DEF Taken
<1> QED
  BY <1>2, <1>3

\* Waiting peers get the free slots, those for which there is none are closed.
LEMMA AcceptKeeps ==
    ASSUME ServerInv, AcceptClients, polled.listener, Len(backlog) > 0
    PROVE  ServerInv'
<1> DEFINE n == Len(backlog)
           free == kMaxClients - Len(clients)
           taken == IF n < free THEN n ELSE free
           now == SubSeq(backlog, 1, taken)
           new == [i \in DOMAIN now |-> NewClient(now[i])]
           old == Len(clients)
<1>1. /\ clients \in Seq(ClientRecord) /\ backlog \in Seq(Peers)
      /\ old \in Nat /\ n \in Nat /\ old <= kMaxClients
  BY SMTT(30) DEF ServerInv, Kinds, Slots
<1>2. taken \in Nat /\ taken <= n /\ old + taken <= kMaxClients
  BY <1>1, Numbers
<1>3. /\ IF taken > 0 THEN LeaveRound ELSE spc' = "client" /\ UNCHANGED <<polled, at>>
      /\ clients' = clients \o new
      /\ conn' = [p \in Peers |->
                    IF p \in ToSet(now) THEN IF conn[p] = "pending" THEN "open" ELSE conn[p]
                    ELSE IF p \in ToSet(backlog) THEN "closed" ELSE conn[p]]
      /\ backlog' = <<>> /\ spc = "accept"
      /\ UNCHANGED <<stop, life, toServer, toPeer, historyVars>>
  BY DEF AcceptClients
<1> HIDE DEF n, free, taken
<1>4. now \in Seq(Peers) /\ Len(now) = taken /\ \A k \in 1 .. taken : now[k] = backlog[k] /\ k \in 1 .. n
  BY <1>1, <1>2 DEF n
<1>5. \A k \in 1 .. taken : backlog[k] \in Peers
  BY <1>4
<1>6. new \in Seq(ClientRecord) /\ Len(new) = taken
      /\ \A k \in 1 .. taken : new[k] = NewClient(backlog[k])
  <2>1. DOMAIN now = 1 .. taken
    BY <1>4
  <2>2. \A k \in 1 .. taken : NewClient(now[k]) \in ClientRecord
    BY <1>4, <1>5, NewClientIs
  <2> HIDE DEF now, ClientRecord
  <2>3. new \in [1 .. taken -> ClientRecord]
    BY <2>1, <2>2
  <2> QED
    BY <1>2, <1>4, <2>1, <2>3
<1>7. ToSet(now) \subseteq ToSet(backlog)
      /\ \A p : p \in ToSet(now) <=> \E k \in 1 .. taken : backlog[k] = p
  <2>1. DOMAIN now = 1 .. taken /\ DOMAIN backlog = 1 .. n
    BY <1>1, <1>4 DEF n
  <2> QED
    BY <1>4, <2>1 DEF ToSet
<1> HIDE DEF new, now
<1>8. clients' \in Seq(ClientRecord) /\ Len(clients') = old + taken /\ Len(clients') \in Nat
  <2> HIDE DEF ClientRecord
  <2>1. clients \o new \in Seq(ClientRecord) /\ Len(clients \o new) = old + Len(new)
    BY <1>1, <1>6
  <2>2. old + taken \in Nat
    BY <1>1, <1>2
  <2> QED
    BY <1>3, <1>6, <2>1, <2>2
<1>9. /\ \A i \in 1 .. old : clients'[i] = clients[i] /\ i \in 1 .. Len(clients')
      /\ \A k \in 1 .. taken : clients'[old + k] = NewClient(backlog[k]) /\ old + k \in 1 .. Len(clients')
  <2>1. \A i \in 1 .. old : (clients \o new)[i] = clients[i]
    BY <1>1, <1>6
  <2>2. \A k \in 1 .. taken : (clients \o new)[old + k] = new[k]
    BY <1>1, <1>2, <1>6
  <2>3. /\ \A i \in 1 .. old : i \in 1 .. Len(clients')
        /\ \A k \in 1 .. taken : old + k \in 1 .. Len(clients')
    BY <1>1, <1>2, <1>8
  <2> QED
    BY <1>3, <1>6, <2>1, <2>2, <2>3
<1>10. \A i \in 1 .. Len(clients') : i \in 1 .. old \/ \E k \in 1 .. taken : i = old + k
  <2>1. ASSUME NEW i \in 1 .. Len(clients'), i \notin 1 .. old PROVE i - old \in 1 .. taken /\ i = old + (i - old)
    BY <1>1, <1>2, <1>8, <2>1
  <2> QED
    BY <2>1
<1> HIDE DEF old
<1>11. \A i \in 1 .. old : clients[i].peer \in Peers
  <2>1. \A c \in ClientRecord : c.peer \in Peers
    BY DEF ClientRecord
  <2> QED
    BY <1>1, <2>1 DEF old
<1>12. \A k \in 1 .. taken : clients'[old + k].peer = backlog[k] /\ conn[backlog[k]] = "pending"
  <2>1. \A k \in 1 .. taken : backlog[k] \in ToSet(backlog)
    BY <1>7
  <2> QED
    BY <1>5, <1>9, <2>1, NewClientIs DEF ServerInv, Slots
<1>13. \A i \in 1 .. old : clients[i].peer \in Served /\ conn[clients[i].peer] \in {"open", "fin", "reset"}
  <2>1. \A i \in 1 .. old : clients[i].peer \in Served
    BY <1>1 DEF Served, old
  <2> QED
    BY <1>11, <2>1 DEF ServerInv, Slots
<1>14. \A p \in Peers :
         /\ p \in ToSet(now) => conn'[p] = "open" /\ conn[p] = "pending"
         /\ p \notin ToSet(now) =>
               conn'[p] = IF p \in ToSet(backlog) THEN "closed" ELSE conn[p]
  BY <1>3, <1>7 DEF ServerInv, Slots
<1>15. \A p \in Peers : conn'[p] # "pending"
  BY <1>14 DEF ServerInv, Slots
<1>16. Kinds'
  <2>1. conn' \in [Peers -> {"none", "pending", "open", "fin", "reset", "closed"}]
    <3>1. \A p \in Peers : conn[p] \in {"none", "pending", "open", "fin", "reset", "closed"}
      BY DEF ServerInv, Kinds
    <3> QED
      BY <1>3, <3>1
  <2>2. /\ polled' \in [listener : BOOLEAN, clients : Seq(EventRecord)]
        /\ at' \in Nat /\ at' >= 1 /\ spc' \in {"poll", "client"}
    <3>1. NoEvents \in [listener : BOOLEAN, clients : Seq(EventRecord)]
      BY DEF NoEvents
    <3> HIDE DEF EventRecord
    <3>2. CASE taken > 0
      BY <1>3, <3>1, <3>2 DEF LeaveRound
    <3>3. CASE ~(taken > 0)
      BY <1>3, <3>3 DEF ServerInv, Kinds
    <3> QED
      BY <3>2, <3>3
  <2>3. backlog' \in Seq(Peers)
    BY <1>3
  <2> HIDE DEF ClientRecord, EventRecord
  <2> QED
    BY <1>3, <1>8, <2>1, <2>2, <2>3 DEF ServerInv, Kinds, historyVars
<1>17. Slots'
  <2>1. Len(clients') <= kMaxClients
    BY <1>2, <1>8 DEF old
  <2>2. ASSUME NEW i \in 1 .. Len(clients'), NEW j \in 1 .. Len(clients'),
               clients'[i].peer = clients'[j].peer
        PROVE  i = j
    <3>1. CASE i \in 1 .. old /\ j \in 1 .. old
      BY <1>9, <2>2, <3>1 DEF ServerInv, Slots, old
    <3>2. CASE i \in 1 .. old /\ j \notin 1 .. old
      BY <1>9, <1>10, <1>12, <1>13, <2>2, <3>2
    <3>3. CASE i \notin 1 .. old /\ j \in 1 .. old
      BY <1>9, <1>10, <1>12, <1>13, <2>2, <3>3
    <3>4. CASE i \notin 1 .. old /\ j \notin 1 .. old
      <4>1. PICK k \in 1 .. taken : i = old + k
        BY <1>10, <3>4
      <4>2. PICK l \in 1 .. taken : j = old + l
        BY <1>10, <3>4
      <4>3. backlog[k] = backlog[l] /\ k \in 1 .. n /\ l \in 1 .. n
        BY <1>4, <1>12, <2>2, <4>1, <4>2
      <4> QED
        BY <4>1, <4>2, <4>3 DEF ServerInv, Slots, n
    <3> QED
      BY <3>1, <3>2, <3>3, <3>4
  <2>3. ASSUME NEW p \in Peers PROVE p \in Served' <=> conn'[p] \in {"open", "fin", "reset"}
    <3>0. DOMAIN clients = 1 .. old /\ DOMAIN clients' = 1 .. Len(clients')
      BY <1>1, <1>8 DEF old
    <3>1. p \in Served' <=> \E i \in 1 .. Len(clients') : clients'[i].peer = p
      BY <3>0 DEF Served
    <3>2. p \in Served <=> \E i \in 1 .. old : clients[i].peer = p
      BY <3>0 DEF Served
    <3>3. p \in Served' => p \in Served \/ p \in ToSet(now)
      BY <1>7, <1>9, <1>10, <1>12, <3>1, <3>2
    <3>4. p \in Served => p \in Served'
      BY <1>9, <3>1, <3>2
    <3>5. p \in ToSet(now) => p \in Served'
      <4>1. ASSUME p \in ToSet(now) PROVE p \in Served'
        <5>1. PICK k \in 1 .. taken : backlog[k] = p
          BY <1>7, <4>1
        <5>2. clients'[old + k].peer = p /\ old + k \in 1 .. Len(clients')
          BY <1>9, <1>12, <5>1
        <5> QED
          BY <3>1, <5>2
      <4> QED
        BY <4>1
    <3>6. /\ p \in Served <=> conn[p] \in {"open", "fin", "reset"}
          /\ p \in ToSet(backlog) <=> conn[p] = "pending"
      BY DEF ServerInv, Slots
    <3> QED
      BY <1>7, <1>14, <3>3, <3>4, <3>5, <3>6
  <2>4. /\ \A i, j \in 1 .. Len(backlog') : backlog'[i] = backlog'[j] => i = j
        /\ \A p \in Peers : p \in ToSet(backlog)' <=> conn'[p] = "pending"
    <3>1. Len(<<>>) = 0 /\ 1 .. 0 = {} /\ ToSet(<<>>) = {}
      BY DEF ToSet
    <3>2. Len(backlog') = 0 /\ ToSet(backlog)' = {}
      BY <1>3, <3>1 DEF ToSet
    <3> QED
      BY <1>15, <3>1, <3>2
  <2> QED
    BY <2>1, <2>2, <2>3, <2>4 DEF Slots
<1>18. Limits'
  <2>1. \A i \in 1 .. Len(clients') :
          Len(clients'[i].rxBuf) <= kMaxCmd /\ Len(clients'[i].txBuf) <= kMaxOut
    <3>1. \A i \in 1 .. old :
            Len(clients'[i].rxBuf) <= kMaxCmd /\ Len(clients'[i].txBuf) <= kMaxOut
      BY <1>9 DEF ServerInv, Limits, old
    <3>2. Len(<<>>) = 0
      OBVIOUS
    <3>3. \A k \in 1 .. taken :
            Len(clients'[old + k].rxBuf) <= kMaxCmd /\ Len(clients'[old + k].txBuf) <= kMaxOut
      BY <1>5, <1>9, <3>2, NewClientIs, Numbers
    <3> QED
      BY <1>10, <3>1, <3>3
  <2>2. \A p \in Peers : Len(toPeer'[p]) <= Window
    BY <1>3 DEF ServerInv, Limits
  <2> QED
    BY <2>1, <2>2 DEF Limits
<1>19. Round'
  <2>1. CASE taken > 0
    BY <1>3, <2>1 DEF LeaveRound, Round
  <2>2. CASE ~(taken > 0)
    <3>1. Len(clients') = Len(clients) /\ \A i \in 1 .. Len(clients) : clients'[i] = clients[i]
      BY <1>1, <1>2, <1>8, <1>9, <2>2 DEF old
    <3> QED
      BY <1>3, <2>2, <3>1 DEF ServerInv, Round
  <2> QED
    BY <2>1, <2>2
<1>20. Fresh'
  BY <1>3, <1>14, <1>15 DEF ServerInv, Fresh, historyVars
<1>21. ASSUME NEW k \in 1 .. taken
       PROVE  LET c == clients'[old + k] IN
              /\ RoomHere(handled'[c.peer], c.rxBuf, toServer'[c.peer], sent'[c.peer])
              /\ Answered(c.txBuf, got'[c.peer], toPeer'[c.peer], owed'[c.peer])
              /\ Taken(handled'[c.peer], c.rxBuf, toServer'[c.peer], sent'[c.peer])
  <2>1. /\ clients'[old + k].peer = backlog[k]
        /\ clients'[old + k].rxBuf = <<>> /\ clients'[old + k].txBuf = <<>>
    BY <1>5, <1>9, NewClientIs
  <2>2. /\ handled'[backlog[k]] = <<>> /\ owed'[backlog[k]] = <<>> /\ got'[backlog[k]] = <<>>
        /\ toPeer'[backlog[k]] = <<>> /\ toServer'[backlog[k]] = sent'[backlog[k]]
    BY <1>3, <1>5, <1>12 DEF ServerInv, Fresh, historyVars
  <2>3. sent'[backlog[k]] \in Seq(Units)
    BY <1>5, <1>16 DEF Kinds
  <2> QED
    BY <2>1, <2>2, <2>3, NewClientIsSound
<1>22. Counts'
  <2>1. \A p \in Peers : Len(sent'[p]) <= MaxSent /\ Room(handled'[p], toServer'[p], sent'[p])
    BY <1>3 DEF ServerInv, Counts, historyVars
  <2>2. \A i \in 1 .. old :
          RoomHere(handled'[clients'[i].peer], clients'[i].rxBuf,
                   toServer'[clients'[i].peer], sent'[clients'[i].peer])
    BY <1>3, <1>9 DEF ServerInv, Counts, historyVars, old
  <2> QED
    BY <1>10, <1>21, <2>1, <2>2 DEF Counts
<1>23. Replies'
  <2>1. \A i \in 1 .. old : clients'[i].peer \notin dropped' =>
          Answered(clients'[i].txBuf, got'[clients'[i].peer],
                   toPeer'[clients'[i].peer], owed'[clients'[i].peer])
    BY <1>3, <1>9 DEF ServerInv, Replies, historyVars, old
  <2> QED
    BY <1>10, <1>21, <2>1 DEF Replies
<1>24. Frames'
  <2>1. \A i \in 1 .. old : clients'[i].peer \notin cut' =>
          Taken(handled'[clients'[i].peer], clients'[i].rxBuf,
                toServer'[clients'[i].peer], sent'[clients'[i].peer])
    BY <1>3, <1>9 DEF ServerInv, Frames, historyVars, old
  <2> QED
    BY <1>10, <1>21, <2>1 DEF Frames
<1> QED
  BY <1>16, <1>17, <1>18, <1>19, <1>20, <1>22, <1>23, <1>24 DEF ServerInv
-----------------------------------------------------------------------------
(* A client is served.                                                      *)

\* A sequence and its two parts.
LEMMA TwoParts ==
    ASSUME NEW E, NEW s \in Seq(E), NEW n \in 0 .. Len(s)
    PROVE  /\ SubSeq(s, 1, n) \in Seq(E) /\ SubSeq(s, n + 1, Len(s)) \in Seq(E)
           /\ Len(SubSeq(s, 1, n)) = n /\ Len(SubSeq(s, n + 1, Len(s))) = Len(s) - n
           /\ \A i \in 1 .. n : SubSeq(s, 1, n)[i] = s[i]
           /\ SubSeq(s, 1, n) \o SubSeq(s, n + 1, Len(s)) = s
<1> DEFINE a == SubSeq(s, 1, n)
           b == SubSeq(s, n + 1, Len(s))
<1>1. Len(s) \in Nat /\ n \in Nat /\ n <= Len(s)
  OBVIOUS
<1>2. a \in Seq(E) /\ Len(a) = n /\ \A i \in 1 .. n : a[i] = s[i]
  BY <1>1
<1>3. b \in Seq(E) /\ Len(b) = Len(s) - n /\ \A i \in 1 .. Len(s) - n : b[i] = s[n + i]
  BY <1>1
<1> HIDE DEF a, b
<1>4. a \o b \in Seq(E) /\ Len(a \o b) = Len(s)
  BY <1>1, <1>2, <1>3
<1>5. ASSUME NEW i \in 1 .. Len(s) PROVE (a \o b)[i] = s[i]
  <2>1. (a \o b)[i] = IF i <= n THEN a[i] ELSE b[i - n]
    BY <1>1, <1>2, <1>3
  <2>2. CASE i <= n
    BY <1>1, <1>2, <2>1, <2>2
  <2>3. CASE ~(i <= n)
    <3>1. i - n \in 1 .. Len(s) - n /\ n + (i - n) = i
      BY <1>1, <2>3
    <3> QED
      BY <1>3, <2>1, <2>3, <3>1
  <2> QED
    BY <2>2, <2>3
<1>6. a \o b = s
  BY <1>4, <1>5, SeqEqual
<1> QED
  BY <1>2, <1>3, <1>6 DEF a, b

\* Units move from the kernel to the receive buffer.
LEMMA TakenMoves ==
    ASSUME NEW h \in Seq(Seq(Units)), NEW x \in Seq(Units), NEW a \in Seq(Units),
           NEW b \in Seq(Units), NEW s, Taken(h, x, a \o b, s)
    PROVE  Taken(h, x \o a, b, s)
<1>1. PICK f \in Seq(Units) : f = FlattenSeq(h)
  BY FlattenIs
<1>2. PICK y \in Seq(Units) : y = f \o x
  <2>1. f \o x \in Seq(Units)
    OBVIOUS
  <2> QED
    BY <2>1
<1>3. f \o (x \o a) = y \o a
  BY <1>2, ConcatAssociative, SMTT(30)
<1>4. (y \o a) \o b = y \o (a \o b)
  BY ConcatAssociative, SMTT(30)
<1> QED
  BY <1>1, <1>2, <1>3, <1>4 DEF Taken

\* A line is taken from the receive buffer.
LEMMA TakenLine ==
    ASSUME NEW h \in Seq(Seq(Units)), NEW line \in Seq(Units), NEW rest \in Seq(Units),
           NEW ts \in Seq(Units), NEW s, IsLine(line), Taken(h, line \o rest, ts, s)
    PROVE  Taken(Append(h, line), rest, ts, s)
<1>1. PICK f \in Seq(Units) : f = FlattenSeq(h)
  BY FlattenIs
<1>2. FlattenSeq(Append(h, line)) = f \o line
  BY <1>1, FlattenAppend
<1>3. (f \o line) \o rest = f \o (line \o rest)
  BY ConcatAssociative, SMTT(30)
<1>4. \A n \in 1 .. Len(Append(h, line)) : IsLine(Append(h, line)[n])
  <2>1. \A n \in 1 .. Len(Append(h, line)) :
          (n \in 1 .. Len(h) /\ Append(h, line)[n] = h[n]) \/ Append(h, line)[n] = line
    OBVIOUS
  <2> QED
    BY <2>1 DEF Taken
<1> QED
  BY <1>1, <1>2, <1>3, <1>4 DEF Taken

\* An answer is put at the end of the transmit buffer.
LEMMA AnsweredMore ==
    ASSUME NEW tx \in Seq(Marks), NEW r \in Seq(Marks), NEW g \in Seq(Marks),
           NEW k \in Seq(Marks), NEW o, Answered(tx, g, k, o)
    PROVE  Answered(tx \o r, g, k, o \o r)
<1>1. PICK y \in Seq(Marks) : y = g \o k
  <2>1. g \o k \in Seq(Marks)
    OBVIOUS
  <2> QED
    BY <2>1
<1>2. y \o (tx \o r) = (y \o tx) \o r
  BY SMTT(30)
<1> QED
  BY <1>1, <1>2 DEF Answered

\* Units of answers move from the transmit buffer to the kernel.
LEMMA AnsweredMoves ==
    ASSUME NEW a \in Seq(Marks), NEW b \in Seq(Marks), NEW g \in Seq(Marks),
           NEW k \in Seq(Marks), NEW o, Answered(a \o b, g, k, o)
    PROVE  Answered(b, g, k \o a, o)
<1>1. PICK y \in Seq(Marks) : y = g \o k
  <2>1. g \o k \in Seq(Marks)
    OBVIOUS
  <2> QED
    BY <2>1
<1>2. g \o (k \o a) = y \o a
  BY <1>1, SMTT(30)
<1>3. (y \o a) \o b = y \o (a \o b)
  BY SMTT(30)
<1> QED
  BY <1>1, <1>2, <1>3 DEF Answered

\* Room for a line in the buffer is room without it.
LEMMA RoomFrom ==
    ASSUME NEW h \in Seq(Seq(Units)), NEW rx \in Seq(Units), NEW ts \in Seq(Units),
           NEW s \in Seq(Units), RoomHere(h, rx, ts, s)
    PROVE  Room(h, ts, s)
<1>1. Len(h) \in Nat /\ Len(rx) \in Nat /\ Len(ts) \in Nat /\ Len(s) \in Nat
  OBVIOUS
<1>2. Len(h) + Len(rx) + Len(ts) <= Len(s)
  BY DEF RoomHere
<1>3. Len(h) + Len(ts) <= Len(s)
  BY <1>1, <1>2
<1> QED
  BY <1>3 DEF Room

\* What the client being served is.
LEMMA ClientIs ==
    ASSUME ServerInv, spc \in {"recv", "split", "write"}
    PROVE  /\ at \in 1 .. Len(clients) /\ Client \in ClientRecord
           /\ Peer \in Peers /\ Client.rxBuf \in Seq(Units) /\ Client.txBuf \in Seq(Marks)
           /\ Len(Client.rxBuf) <= kMaxCmd /\ Len(Client.txBuf) <= kMaxOut
           /\ Peer \in Served /\ conn[Peer] \in {"open", "fin", "reset"}
<1>1. at \in 1 .. Len(clients) /\ clients \in Seq(ClientRecord)
  BY DEF ServerInv, Kinds, Round
<1>2. \A c \in ClientRecord :
        c.peer \in Peers /\ c.rxBuf \in Seq(Units) /\ c.txBuf \in Seq(Marks)
  BY DEF ClientRecord
<1>3. Client \in ClientRecord
  BY <1>1 DEF Client
<1>4. Peer \in Served
  BY <1>1 DEF Served, Peer, Client
<1>5. Len(Client.rxBuf) <= kMaxCmd /\ Len(Client.txBuf) <= kMaxOut
  BY <1>1 DEF ServerInv, Limits, Client
<1> QED
  BY <1>1, <1>2, <1>3, <1>4, <1>5 DEF Peer, ServerInv, Slots

\* One client changes, and what belongs to its peer; everything else stays.
LEMMA ServedKeeps ==
    ASSUME ServerInv, spc \in {"recv", "split", "write"},
           NEW c \in ClientRecord, c.peer = Peer, SetClient(c),
           UNCHANGED <<stop, life, polled, conn, backlog, sent, got>>,
           spc' \in {"client", "recv", "split"}, at' \in Nat, at' >= 1,
           spc' # "client" => at' = at,
           toServer' \in [Peers -> Seq(Units)], toPeer' \in [Peers -> Seq(Marks)],
           handled' \in [Peers -> Seq(Seq(Units))], owed' \in [Peers -> Seq(Marks)],
           \A p \in Peers : p # Peer =>
              /\ toServer'[p] = toServer[p] /\ toPeer'[p] = toPeer[p]
              /\ handled'[p] = handled[p] /\ owed'[p] = owed[p],
           cut \subseteq cut', cut' \subseteq Peers, dropped \subseteq dropped', dropped' \subseteq Peers,
           Len(c.rxBuf) <= kMaxCmd, Len(c.txBuf) <= kMaxOut, Len(toPeer'[Peer]) <= Window,
           RoomHere(handled'[Peer], c.rxBuf, toServer'[Peer], sent[Peer]),
           Peer \notin dropped' => Answered(c.txBuf, got[Peer], toPeer'[Peer], owed'[Peer]),
           Peer \notin cut' => Taken(handled'[Peer], c.rxBuf, toServer'[Peer], sent[Peer])
    PROVE  ServerInv'
<1>1. clients \in Seq(ClientRecord) /\ at \in 1 .. Len(clients) /\ Peer \in Peers
      /\ Peer = clients[at].peer /\ conn[Peer] \in {"open", "fin", "reset"}
  BY ClientIs DEF ServerInv, Kinds, Peer, Client
<1>2. /\ clients' \in Seq(ClientRecord) /\ Len(clients') = Len(clients) /\ clients'[at] = c
      /\ \A i \in 1 .. Len(clients) : i # at => clients'[i] = clients[i]
  <2> HIDE DEF ClientRecord
  <2> QED
    BY <1>1, Replaced DEF SetClient
<1>3. \A i \in 1 .. Len(clients) :
        clients'[i].peer = clients[i].peer /\ (i # at => clients[i].peer # Peer)
  BY <1>1, <1>2 DEF ServerInv, Slots
<1>4. \A i \in 1 .. Len(clients) : clients[i].peer \in Peers
  <2>1. \A d \in ClientRecord : d.peer \in Peers
    BY DEF ClientRecord
  <2> QED
    BY <1>1, <2>1
<1>5. Kinds'
  <2> HIDE DEF ClientRecord, EventRecord
  <2> QED
    BY <1>2 DEF ServerInv, Kinds
<1>6. Slots'
  <2>0. DOMAIN clients = 1 .. Len(clients) /\ DOMAIN clients' = 1 .. Len(clients)
    BY <1>1, <1>2
  <2>1. \A p : p \in Served' <=> p \in Served
    BY <1>3, <2>0, ZenonT(30) DEF Served
  <2>2. ToSet(backlog)' = ToSet(backlog)
    BY DEF ToSet
  <2>3. /\ Len(clients') <= kMaxClients
        /\ \A i, j \in 1 .. Len(clients') : clients'[i].peer = clients'[j].peer => i = j
    <3>1. Len(clients') <= kMaxClients
      BY <1>2 DEF ServerInv, Slots
    <3>2. ASSUME NEW i \in 1 .. Len(clients'), NEW j \in 1 .. Len(clients'),
                 clients'[i].peer = clients'[j].peer
          PROVE  i = j
      BY <1>2, <1>3, <3>2 DEF ServerInv, Slots
    <3> QED
      BY <3>1, <3>2
  <2>4. \A p \in Peers : p \in Served' <=> conn'[p] \in {"open", "fin", "reset"}
    BY <2>1 DEF ServerInv, Slots
  <2> QED
    BY <2>2, <2>3, <2>4 DEF ServerInv, Slots
<1>7. Limits'
  BY <1>1, <1>2 DEF ServerInv, Limits
<1>8. Round'
  BY <1>1, <1>2, <1>3 DEF ServerInv, Round
<1>9. Fresh'
  <2>1. ASSUME NEW p \in Peers, conn'[p] \in {"none", "pending"}
        PROVE  /\ handled'[p] = <<>> /\ owed'[p] = <<>> /\ got'[p] = <<>> /\ toPeer'[p] = <<>>
               /\ toServer'[p] = sent'[p]
    <3>1. p # Peer /\ conn[p] \in {"none", "pending"}
      BY <1>1, <2>1
    <3> QED
      BY <3>1 DEF ServerInv, Fresh
  <2> QED
    BY <2>1 DEF Fresh
<1>10. Counts'
  <2>1. Room(handled'[Peer], toServer'[Peer], sent[Peer])
    <3>1. c.rxBuf \in Seq(Units)
      BY DEF ClientRecord
    <3>2. handled'[Peer] \in Seq(Seq(Units)) /\ toServer'[Peer] \in Seq(Units)
          /\ sent[Peer] \in Seq(Units)
      BY <1>1 DEF ServerInv, Kinds
    <3> QED
      BY <3>1, <3>2, RoomFrom
  <2>2. ASSUME NEW p \in Peers
        PROVE  Len(sent'[p]) <= MaxSent /\ Room(handled'[p], toServer'[p], sent'[p])
    <3>1. CASE p = Peer
      BY <2>1, <3>1 DEF ServerInv, Counts
    <3>2. CASE p # Peer
      BY <3>2 DEF ServerInv, Counts
    <3> QED
      BY <3>1, <3>2
  <2>3. ASSUME NEW i \in 1 .. Len(clients')
        PROVE  RoomHere(handled'[clients'[i].peer], clients'[i].rxBuf,
                        toServer'[clients'[i].peer], sent'[clients'[i].peer])
    <3>1. CASE i = at
      BY <1>2, <3>1
    <3>2. CASE i # at
      <4>1. i \in 1 .. Len(clients) /\ clients'[i] = clients[i]
            /\ clients[i].peer # Peer /\ clients[i].peer \in Peers
        BY <1>2, <1>3, <1>4, <3>2
      <4>2. RoomHere(handled[clients[i].peer], clients[i].rxBuf,
                     toServer[clients[i].peer], sent[clients[i].peer])
        BY <4>1 DEF ServerInv, Counts
      <4> QED
        BY <4>1, <4>2
    <3> QED
      BY <3>1, <3>2
  <2> QED
    BY <2>2, <2>3 DEF Counts
<1>11. Replies'
  <2>1. ASSUME NEW i \in 1 .. Len(clients'), clients'[i].peer \notin dropped'
        PROVE  Answered(clients'[i].txBuf, got'[clients'[i].peer],
                        toPeer'[clients'[i].peer], owed'[clients'[i].peer])
    <3>1. CASE i = at
      BY <1>2, <2>1, <3>1
    <3>2. CASE i # at
      BY <1>2, <1>3, <1>4, <2>1, <3>2, ZenonT(30) DEF ServerInv, Replies
    <3> QED
      BY <3>1, <3>2
  <2> QED
    BY <2>1 DEF Replies
<1>12. Frames'
  <2>1. ASSUME NEW i \in 1 .. Len(clients'), clients'[i].peer \notin cut'
        PROVE  Taken(handled'[clients'[i].peer], clients'[i].rxBuf,
                     toServer'[clients'[i].peer], sent'[clients'[i].peer])
    <3>1. CASE i = at
      BY <1>2, <2>1, <3>1
    <3>2. CASE i # at
      BY <1>2, <1>3, <1>4, <2>1, <3>2, ZenonT(30) DEF ServerInv, Frames
    <3> QED
      BY <3>1, <3>2
  <2> QED
    BY <2>1 DEF Frames
<1> QED
  BY <1>5, <1>6, <1>7, <1>8, <1>9, <1>10, <1>11, <1>12 DEF ServerInv

\* What EnqueueReply does for the client of p, with these buffers.
Enqueued(p, rx, tx, reply) ==
    /\ \E d \in ClientRecord :
          /\ SetClient(d) /\ d.peer = p /\ d.rxBuf = rx
          /\ Len(d.txBuf) <= kMaxOut
          /\ p \notin dropped' => d.txBuf = tx \o reply
    /\ owed' = [owed EXCEPT ![p] = @ \o reply]
    /\ dropped' = dropped \/ dropped' = dropped \cup {p}

\* An answer is appended, or the buffer is emptied and the client marked.
LEMMA EnqueueGives ==
    ASSUME NEW c \in ClientRecord, NEW reply \in Seq(Marks), EnqueueReply(c, reply),
           NEW p \in Peers, NEW rx, NEW tx, c.peer = p, c.rxBuf = rx, c.txBuf = tx,
           Len(tx) <= kMaxOut
    PROVE  Enqueued(p, rx, tx, reply)
<1>1. tx \in Seq(Marks)
  BY DEF ClientRecord
<1>2. CASE NoRoom(c, reply)
  <2> DEFINE d == [c EXCEPT !.txBuf = <<>>, !.closedByServer = TRUE]
  <2>1. d \in ClientRecord /\ d.peer = p /\ d.rxBuf = rx /\ d.txBuf = <<>>
    <3>1. <<>> \in Seq(Marks) /\ TRUE \in BOOLEAN
      OBVIOUS
    <3> QED
      BY <3>1 DEF ClientRecord
  <2>2. /\ SetClient(d) /\ dropped' = dropped \cup {p}
        /\ owed' = [owed EXCEPT ![p] = @ \o reply]
    BY <1>2 DEF EnqueueReply
  <2> HIDE DEF d
  <2>3. Len(d.txBuf) <= kMaxOut
    BY <2>1, Numbers
  <2> QED
    BY <2>1, <2>2, <2>3 DEF Enqueued
<1>3. CASE ~NoRoom(c, reply)
  <2> DEFINE d == [c EXCEPT !.txBuf = @ \o reply]
  <2>1. d \in ClientRecord /\ d.peer = p /\ d.rxBuf = rx /\ d.txBuf = tx \o reply
    <3>1. tx \o reply \in Seq(Marks)
      BY <1>1
    <3> QED
      BY <3>1 DEF ClientRecord
  <2>2. /\ SetClient(d) /\ dropped' = dropped
        /\ owed' = [owed EXCEPT ![p] = @ \o reply]
    BY <1>3 DEF EnqueueReply
  <2> HIDE DEF d
  <2>3. Len(d.txBuf) <= kMaxOut
    <3>1. Len(tx \o reply) = Len(tx) + Len(reply) /\ Len(tx) \in Nat /\ Len(reply) \in Nat
      BY <1>1
    <3> QED
      BY <1>3, <2>1, <3>1, Numbers DEF NoRoom
  <2> QED
    BY <2>1, <2>2, <2>3 DEF Enqueued
<1> QED
  BY <1>2, <1>3

\* The kinds of what the client being served has.
LEMMA BuffersAre ==
    ASSUME ServerInv, spc \in {"recv", "split", "write"}
    PROVE  /\ toServer[Peer] \in Seq(Units) /\ sent[Peer] \in Seq(Units)
           /\ handled[Peer] \in Seq(Seq(Units))
           /\ owed[Peer] \in Seq(Marks) /\ got[Peer] \in Seq(Marks)
           /\ toPeer[Peer] \in Seq(Marks) /\ Len(toPeer[Peer]) <= Window
           /\ Len(sent[Peer]) <= MaxSent
           /\ RoomHere(handled[Peer], Client.rxBuf, toServer[Peer], sent[Peer])
           /\ Peer \notin dropped => Answered(Client.txBuf, got[Peer], toPeer[Peer], owed[Peer])
           /\ Peer \notin cut => Taken(handled[Peer], Client.rxBuf, toServer[Peer], sent[Peer])
<1>1. at \in 1 .. Len(clients) /\ Peer \in Peers
  BY ClientIs
<1> QED
  BY <1>1 DEF ServerInv, Kinds, Limits, Counts, Replies, Frames, Peer, Client

\* What is in the kernel's buffer moves to the receive buffer.
LEMMA ReceiveKeeps ==
    ASSUME ServerInv, ReceiveData
    PROVE  ServerInv'
<1>1. spc = "recv" /\ spc' = "split"
      /\ UNCHANGED <<stop, life, polled, at, conn, backlog, toPeer, sent, handled, got>>
  BY DEF ReceiveData
<1>2. PICK n \in 0 .. Len(toServer[Peer]) :
        LET rx == Client.rxBuf \o SubSeq(toServer[Peer], 1, n)
        IN  /\ toServer' = [toServer EXCEPT ![Peer] = SubSeq(@, n + 1, Len(@))]
            /\ IF Len(rx) > kMaxCmd
               THEN /\ EnqueueReply([Client EXCEPT !.age = 0, !.rxBuf = <<>>], Reply(0, 1))
                    /\ cut' = cut \cup {Peer}
               ELSE /\ SetClient([Client EXCEPT !.age = 0, !.rxBuf = rx])
                    /\ UNCHANGED <<owed, cut, dropped>>
  <2>1. Len(toServer[Peer]) \in Nat
    BY <1>1, BuffersAre
  <2>2. (IF Len(toServer[Peer]) < RecvMax THEN Len(toServer[Peer]) ELSE RecvMax)
           \in 0 .. Len(toServer[Peer])
    BY <2>1, Numbers
  <2> QED
    BY <2>2 DEF ReceiveData
<1>3. PICK x \in Seq(Units), tx \in Seq(Marks), ts \in Seq(Units), h \in Seq(Seq(Units)),
           s \in Seq(Units) :
        /\ x = Client.rxBuf /\ tx = Client.txBuf /\ ts = toServer[Peer] /\ h = handled[Peer]
        /\ s = sent[Peer]
  BY <1>1, ClientIs, BuffersAre
<1>4. PICK a \in Seq(Units), b \in Seq(Units) :
        /\ a = SubSeq(ts, 1, n) /\ b = SubSeq(ts, n + 1, Len(ts))
        /\ Len(a) = n /\ Len(b) = Len(ts) - n /\ a \o b = ts
  <2>1. n \in 0 .. Len(ts)
    BY <1>3
  <2>2. /\ SubSeq(ts, 1, n) \in Seq(Units) /\ SubSeq(ts, n + 1, Len(ts)) \in Seq(Units)
        /\ Len(SubSeq(ts, 1, n)) = n /\ Len(SubSeq(ts, n + 1, Len(ts))) = Len(ts) - n
        /\ SubSeq(ts, 1, n) \o SubSeq(ts, n + 1, Len(ts)) = ts
    BY <2>1, TwoParts
  <2> QED
    BY <2>2
<1>5. /\ at \in 1 .. Len(clients) /\ Client \in ClientRecord /\ Peer \in Peers
      /\ Len(tx) <= kMaxOut /\ Client.peer = Peer
  BY <1>1, <1>3, ClientIs DEF Peer
<1>6. PICK g \in Seq(Marks), k \in Seq(Marks), o \in Seq(Marks) :
        g = got[Peer] /\ k = toPeer[Peer] /\ o = owed[Peer]
  BY <1>1, BuffersAre
<1>7. /\ RoomHere(h, x, ts, s) /\ Len(k) <= Window
      /\ Peer \notin dropped => Answered(tx, g, k, o)
      /\ Peer \notin cut => Taken(h, x, ts, s)
  BY <1>1, <1>3, <1>6, BuffersAre
<1>8. /\ toServer' \in [Peers -> Seq(Units)] /\ toServer'[Peer] = b
      /\ \A p \in Peers : p # Peer => toServer'[p] = toServer[p]
  <2>1. toServer \in [Peers -> Seq(Units)]
    BY DEF ServerInv, Kinds
  <2>2. toServer' = [toServer EXCEPT ![Peer] = b]
    BY <1>2, <1>3, <1>4
  <2> QED
    BY <1>5, <2>1, <2>2
<1>9. /\ toPeer' \in [Peers -> Seq(Marks)] /\ handled' \in [Peers -> Seq(Seq(Units))]
      /\ cut \subseteq Peers /\ dropped \subseteq Peers
      /\ toPeer' = toPeer /\ handled' = handled /\ at' = at /\ at \in Nat /\ at >= 1
      /\ owed \in [Peers -> Seq(Marks)]
  BY <1>1 DEF ServerInv, Kinds
<1>10. CASE Len(x \o a) > kMaxCmd
  <2>1. PICK e \in ClientRecord, r \in Seq(Marks) :
          /\ e.peer = Peer /\ e.rxBuf = <<>> /\ e.txBuf = tx
          /\ EnqueueReply(e, r)
    <3>1. <<>> \in Seq(Units) /\ 0 \in 0 .. IdleTicks
      BY Numbers
    <3>2. Reply(0, 1) \in Seq(Marks)
      BY Numbers DEF Reply, Marks
    <3>3. LET e == [Client EXCEPT !.age = 0, !.rxBuf = <<>>]
          IN  e \in ClientRecord /\ e.peer = Peer /\ e.rxBuf = <<>> /\ e.txBuf = tx
      BY <1>3, <1>5, <3>1 DEF ClientRecord
    <3>4. EnqueueReply([Client EXCEPT !.age = 0, !.rxBuf = <<>>], Reply(0, 1))
      BY <1>2, <1>3, <1>4, <1>10
    <3> QED
      BY <3>2, <3>3, <3>4
  <2>2. cut' = cut \cup {Peer}
    BY <1>2, <1>3, <1>4, <1>10
  <2>3. Enqueued(Peer, <<>>, tx, r)
    <3>1. PICK p \in Peers : p = Peer
      BY <1>5
    <3>2. e.peer = p /\ e.rxBuf = <<>> /\ e.txBuf = tx /\ EnqueueReply(e, r) /\ Len(tx) <= kMaxOut
      BY <1>5, <2>1, <3>1
    <3>3. Enqueued(p, <<>>, tx, r)
      BY <3>2, EnqueueGives
    <3> QED
      BY <3>1, <3>3
  <2>4. PICK d \in ClientRecord :
          /\ SetClient(d) /\ d.peer = Peer /\ d.rxBuf = <<>> /\ Len(d.txBuf) <= kMaxOut
          /\ Peer \notin dropped' => d.txBuf = tx \o r
    BY <2>3 DEF Enqueued
  <2>5. /\ owed' \in [Peers -> Seq(Marks)] /\ owed'[Peer] = o \o r
        /\ \A p \in Peers : p # Peer => owed'[p] = owed[p]
    <3>1. o \o r \in Seq(Marks)
      OBVIOUS
    <3> QED
      BY <1>5, <1>6, <1>9, <2>3, <3>1 DEF Enqueued
  <2>6. Len(d.rxBuf) <= kMaxCmd /\ RoomHere(h, d.rxBuf, b, s)
    <3>1. Len(d.rxBuf) = 0
      BY <2>4
    <3>2. Len(h) \in Nat /\ Len(x) \in Nat /\ Len(ts) \in Nat /\ Len(s) \in Nat
          /\ Len(b) = Len(ts) - n /\ n \in Nat
      BY <1>4
    <3>3. Len(h) + Len(x) + Len(ts) <= Len(s)
      BY <1>7 DEF RoomHere
    <3>4. Len(h) + 0 + Len(b) <= Len(s)
      BY <3>2, <3>3
    <3> QED
      BY <3>1, <3>4, Numbers DEF RoomHere
  <2>7. Peer \notin dropped' => Answered(d.txBuf, g, k, owed'[Peer])
    <3>1. ASSUME Peer \notin dropped' PROVE Answered(d.txBuf, g, k, owed'[Peer])
      <4>1. Answered(tx, g, k, o)
        BY <1>7, <2>3, <3>1 DEF Enqueued
      <4>2. Answered(tx \o r, g, k, o \o r)
        BY <4>1, AnsweredMore
      <4> QED
        BY <2>4, <2>5, <3>1, <4>2
    <3> QED
      BY <3>1
  <2>8. /\ cut \subseteq cut' /\ cut' \subseteq Peers /\ Peer \in cut'
        /\ dropped \subseteq dropped' /\ dropped' \subseteq Peers
    BY <1>5, <1>9, <2>2, <2>3 DEF Enqueued
  <2>9. /\ RoomHere(handled'[Peer], d.rxBuf, toServer'[Peer], sent[Peer])
        /\ Peer \notin dropped' => Answered(d.txBuf, got[Peer], toPeer'[Peer], owed'[Peer])
        /\ Peer \notin cut' => Taken(handled'[Peer], d.rxBuf, toServer'[Peer], sent[Peer])
        /\ Len(toPeer'[Peer]) <= Window
    BY <1>3, <1>6, <1>7, <1>8, <1>9, <2>6, <2>7, <2>8
  <2> QED
    BY <1>1, <1>8, <1>9, <2>4, <2>5, <2>6, <2>8, <2>9, ServedKeeps
<1>11. CASE ~(Len(x \o a) > kMaxCmd)
  <2>1. x \o a \in Seq(Units) /\ Len(x \o a) = Len(x) + Len(a)
    OBVIOUS
  <2>2. PICK d \in ClientRecord :
          d.peer = Peer /\ d.rxBuf = x \o a /\ d.txBuf = tx /\ SetClient(d)
    <3>1. 0 \in 0 .. IdleTicks
      BY Numbers
    <3>2. LET e == [Client EXCEPT !.age = 0, !.rxBuf = x \o a]
          IN  e \in ClientRecord /\ e.peer = Peer /\ e.rxBuf = x \o a /\ e.txBuf = tx
      BY <1>3, <1>5, <2>1, <3>1 DEF ClientRecord
    <3>3. SetClient([Client EXCEPT !.age = 0, !.rxBuf = x \o a])
      BY <1>2, <1>3, <1>4, <1>11
    <3> QED
      BY <3>2, <3>3
  <2>3. UNCHANGED <<owed, cut, dropped>>
    BY <1>2, <1>3, <1>4, <1>11
  <2>4. Len(d.rxBuf) <= kMaxCmd
    BY <1>11, <2>1, <2>2, Numbers
  <2>5. RoomHere(h, d.rxBuf, b, s)
    <3>1. Len(h) \in Nat /\ Len(x) \in Nat /\ Len(ts) \in Nat /\ Len(s) \in Nat
          /\ Len(b) = Len(ts) - n /\ n \in Nat /\ Len(d.rxBuf) = Len(x) + n
      <4>1. Len(h) \in Nat /\ Len(x) \in Nat /\ Len(ts) \in Nat /\ Len(s) \in Nat
        OBVIOUS
      <4>2. Len(b) = Len(ts) - n /\ n \in Nat
        BY <1>4
      <4>3. Len(d.rxBuf) = Len(x) + n
        BY <1>4, <2>1, <2>2
      <4> QED
        BY <4>1, <4>2, <4>3
    <3>2. Len(h) + Len(x) + Len(ts) <= Len(s)
      BY <1>7 DEF RoomHere
    <3>3. Len(h) + (Len(x) + n) + (Len(ts) - n) <= Len(s)
      BY <3>1, <3>2
    <3> QED
      BY <3>1, <3>3 DEF RoomHere
  <2>6. Peer \notin cut' => Taken(h, d.rxBuf, b, s)
    BY <1>4, <1>7, <2>2, <2>3, TakenMoves
  <2>7. /\ RoomHere(handled'[Peer], d.rxBuf, toServer'[Peer], sent[Peer])
        /\ Peer \notin dropped' => Answered(d.txBuf, got[Peer], toPeer'[Peer], owed'[Peer])
        /\ Peer \notin cut' => Taken(handled'[Peer], d.rxBuf, toServer'[Peer], sent[Peer])
        /\ Len(toPeer'[Peer]) <= Window /\ Len(d.txBuf) <= kMaxOut
    BY <1>3, <1>5, <1>6, <1>7, <1>8, <1>9, <2>2, <2>3, <2>5, <2>6
  <2>8. /\ cut \subseteq cut' /\ cut' \subseteq Peers
        /\ dropped \subseteq dropped' /\ dropped' \subseteq Peers
        /\ owed' \in [Peers -> Seq(Marks)] /\ \A p \in Peers : p # Peer => owed'[p] = owed[p]
    BY <1>9, <2>3
  <2> QED
    BY <1>1, <1>8, <1>9, <2>2, <2>4, <2>7, <2>8, ServedKeeps
<1> QED
  BY <1>10, <1>11

\* The first end in the receive buffer, and the line up to it.
LEMMA LineIs ==
    ASSUME NEW x \in Seq(Units), x = Client.rxBuf, Ends # {}
    PROVE  /\ FirstEnd \in 1 .. Len(x)
           /\ IsLine(SubSeq(x, 1, FirstEnd))
<1>1. \A i : i \in Ends <=> i \in 1 .. Len(x) /\ x[i].end
  BY DEF Ends
<1>2. Ends \in SUBSET Nat
  BY <1>1
<1>3. \E m \in Ends : \A k \in Ends : m <= k
  BY <1>2, LeastNat
<1>4. FirstEnd \in Ends /\ \A k \in Ends : FirstEnd <= k
  BY <1>3 DEF FirstEnd
<1>5. PICK m \in Nat : m = FirstEnd
  BY <1>2, <1>4
<1>6. m \in 1 .. Len(x) /\ x[m].end /\ \A i \in 1 .. Len(x) : x[i].end => m <= i
  BY <1>1, <1>4, <1>5
<1>7. PICK line \in Seq(Units) :
        line = SubSeq(x, 1, m) /\ Len(line) = m /\ \A i \in 1 .. m : line[i] = x[i]
  <2>1. m \in 0 .. Len(x)
    BY <1>6
  <2>2. SubSeq(x, 1, m) \in Seq(Units) /\ Len(SubSeq(x, 1, m)) = m
        /\ \A i \in 1 .. m : SubSeq(x, 1, m)[i] = x[i]
    BY <2>1, TwoParts
  <2> QED
    BY <2>2
<1>8. ASSUME NEW i \in 1 .. m PROVE line[i].end <=> i = Len(line)
  <2>1. i \in 1 .. Len(x) /\ line[i] = x[i] /\ Len(line) = m
    BY <1>6, <1>7
  <2>2. CASE i = m
    BY <1>6, <2>1, <2>2
  <2>3. CASE i # m
    <3>1. ~(m <= i)
      BY <1>6, <2>3
    <3> QED
      BY <1>6, <2>1, <2>3, <3>1
  <2> QED
    BY <2>2, <2>3
<1>9. IsLine(line)
  BY <1>7, <1>8 DEF IsLine
<1> QED
  BY <1>5, <1>6, <1>7, <1>9

\* A line is taken and answered.
LEMMA HandleKeeps ==
    ASSUME ServerInv, HandleLine
    PROVE  ServerInv'
<1>1. spc = "split" /\ Ends # {}
      /\ UNCHANGED <<spc, stop, life, polled, at, peerVars, sent, got, cut>>
  BY DEF HandleLine
<1>2. PICK x \in Seq(Units), tx \in Seq(Marks), ts \in Seq(Units), h \in Seq(Seq(Units)),
           s \in Seq(Units), p \in Peers :
        /\ x = Client.rxBuf /\ tx = Client.txBuf /\ ts = toServer[Peer] /\ h = handled[Peer]
        /\ s = sent[Peer] /\ p = Peer
  BY <1>1, ClientIs, BuffersAre
<1>3. PICK n \in 1 .. Len(x) : n = FirstEnd /\ IsLine(SubSeq(x, 1, n))
  BY <1>1, <1>2, LineIs
<1>4. PICK line \in Seq(Units), rest \in Seq(Units) :
        /\ line = SubSeq(x, 1, n) /\ rest = SubSeq(x, n + 1, Len(x))
        /\ Len(line) = n /\ Len(rest) = Len(x) - n /\ line \o rest = x
  <2>1. n \in 0 .. Len(x)
    OBVIOUS
  <2>2. /\ SubSeq(x, 1, n) \in Seq(Units) /\ SubSeq(x, n + 1, Len(x)) \in Seq(Units)
        /\ Len(SubSeq(x, 1, n)) = n /\ Len(SubSeq(x, n + 1, Len(x))) = Len(x) - n
        /\ SubSeq(x, 1, n) \o SubSeq(x, n + 1, Len(x)) = x
    BY <2>1, TwoParts
  <2> QED
    BY <2>2
<1>5. IsLine(line) /\ line = SubSeq(Client.rxBuf, 1, FirstEnd) /\ rest = Rest
  BY <1>2, <1>3, <1>4 DEF Rest
<1>6. /\ at \in 1 .. Len(clients) /\ Client \in ClientRecord /\ Peer \in Peers
      /\ Len(tx) <= kMaxOut /\ Client.peer = Peer /\ Len(x) <= kMaxCmd
  BY <1>1, <1>2, ClientIs DEF Peer
<1>7. PICK g \in Seq(Marks), k \in Seq(Marks), o \in Seq(Marks) :
        g = got[Peer] /\ k = toPeer[Peer] /\ o = owed[Peer]
  BY <1>1, BuffersAre
<1>8. /\ RoomHere(h, x, ts, s) /\ Len(k) <= Window /\ Len(s) <= MaxSent
      /\ Peer \notin dropped => Answered(tx, g, k, o)
      /\ Peer \notin cut => Taken(h, x, ts, s)
  BY <1>1, <1>2, <1>7, BuffersAre
<1>9. Append(h, line) \in Seq(Seq(Units)) /\ Len(Append(h, line)) = Len(h) + 1
  <2>1. \A y \in Seq(Units) : Append(h, y) \in Seq(Seq(Units)) /\ Len(Append(h, y)) = Len(h) + 1
    OBVIOUS
  <2> QED
    BY <2>1
<1>10. /\ handled' \in [Peers -> Seq(Seq(Units))] /\ handled'[Peer] = Append(h, line)
       /\ \A q \in Peers : q # Peer => handled'[q] = handled[q]
  <2>1. handled \in [Peers -> Seq(Seq(Units))]
    BY DEF ServerInv, Kinds
  <2>2. handled' = [handled EXCEPT ![Peer] = Append(@, line)]
    BY <1>5 DEF HandleLine
  <2> QED
    BY <1>2, <1>6, <1>9, <2>1, <2>2
<1>11. /\ toPeer' \in [Peers -> Seq(Marks)] /\ toServer' \in [Peers -> Seq(Units)]
       /\ cut \subseteq Peers /\ dropped \subseteq Peers
       /\ toPeer' = toPeer /\ toServer' = toServer /\ at' = at /\ at \in Nat /\ at >= 1
       /\ owed \in [Peers -> Seq(Marks)]
  BY <1>1 DEF ServerInv, Kinds, peerVars
<1>12. PICK c \in ClientRecord :
         /\ c = [Client EXCEPT !.rxBuf = rest]
         /\ c.peer = p /\ c.rxBuf = rest /\ c.txBuf = tx
  <2>1. LET c == [Client EXCEPT !.rxBuf = rest]
        IN  c \in ClientRecord /\ c.peer = p /\ c.rxBuf = rest /\ c.txBuf = tx
    BY <1>2, <1>6 DEF ClientRecord
  <2> QED
    BY <2>1
<1>13. /\ Len(h) \in Nat /\ Len(x) \in Nat /\ Len(ts) \in Nat /\ Len(s) \in Nat
       /\ Len(rest) = Len(x) - n /\ n \in Nat /\ n >= 1 /\ n <= Len(x)
       /\ Len(h) + Len(x) + Len(ts) <= Len(s)
  <2>1. Len(h) \in Nat /\ Len(x) \in Nat /\ Len(ts) \in Nat /\ Len(s) \in Nat
    OBVIOUS
  <2>2. Len(rest) = Len(x) - n /\ n \in Nat /\ n >= 1 /\ n <= Len(x)
    BY <1>4, <2>1
  <2>3. Len(h) + Len(x) + Len(ts) <= Len(s)
    BY <1>8 DEF RoomHere
  <2> QED
    BY <2>1, <2>2, <2>3
<1>14. RoomHere(Append(h, line), rest, ts, s) /\ Len(rest) <= kMaxCmd
  <2>1. (Len(h) + 1) + (Len(x) - n) + Len(ts) <= Len(s) /\ Len(x) - n <= kMaxCmd
    BY <1>6, <1>13, Numbers, SMTT(30)
  <2> QED
    BY <1>9, <1>13, <2>1 DEF RoomHere
<1>15. Peer \notin cut => Taken(Append(h, line), rest, ts, s)
  BY <1>4, <1>5, <1>8, TakenLine
<1>16. CASE Len(line) = 1
  <2>1. SetClient(c) /\ UNCHANGED <<owed, dropped>>
    BY <1>5, <1>12, <1>16 DEF HandleLine
  <2>2. /\ RoomHere(handled'[Peer], c.rxBuf, toServer'[Peer], sent[Peer])
        /\ Peer \notin dropped' => Answered(c.txBuf, got[Peer], toPeer'[Peer], owed'[Peer])
        /\ Peer \notin cut' => Taken(handled'[Peer], c.rxBuf, toServer'[Peer], sent[Peer])
        /\ Len(toPeer'[Peer]) <= Window /\ Len(c.txBuf) <= kMaxOut /\ Len(c.rxBuf) <= kMaxCmd
        /\ c.peer = Peer
    BY <1>1, <1>2, <1>6, <1>7, <1>8, <1>10, <1>11, <1>12, <1>14, <1>15, <2>1
  <2>3. /\ cut \subseteq cut' /\ cut' \subseteq Peers
        /\ dropped \subseteq dropped' /\ dropped' \subseteq Peers
        /\ owed' \in [Peers -> Seq(Marks)]
        /\ \A q \in Peers : q # Peer =>
              /\ toServer'[q] = toServer[q] /\ toPeer'[q] = toPeer[q]
              /\ handled'[q] = handled[q] /\ owed'[q] = owed[q]
    BY <1>1, <1>10, <1>11, <2>1
  <2>4. /\ UNCHANGED <<stop, life, polled, conn, backlog, sent, got>>
        /\ spc' \in {"client", "recv", "split"} /\ spc \in {"recv", "split", "write"}
    BY <1>1 DEF peerVars
  <2> QED
    BY <1>10, <1>11, <2>1, <2>2, <2>3, <2>4, ServedKeeps
<1>17. CASE Len(line) # 1
  <2>1. PICK r \in Seq(Marks) : EnqueueReply(c, r)
    <3>1. PICK size \in ReplySizes : EnqueueReply(c, Reply(Len(handled'[Peer]), size))
      BY <1>5, <1>12, <1>17 DEF HandleLine
    <3>2. Len(handled'[Peer]) \in Marks
      <4>1. Len(h) + 1 \in 0 .. MaxSent
        BY <1>8, <1>13, Numbers, SMTT(30)
      <4> QED
        BY <1>9, <1>10, <4>1 DEF Marks
    <3>3. size \in Nat
      BY Numbers
    <3>4. Reply(Len(handled'[Peer]), size) \in Seq(Marks)
      BY <3>2, <3>3 DEF Reply
    <3> QED
      BY <3>1, <3>4
  <2>2. Enqueued(Peer, rest, tx, r)
    <3>1. Enqueued(p, rest, tx, r)
      BY <1>6, <1>12, <2>1, EnqueueGives
    <3> QED
      BY <1>2, <3>1
  <2>3. PICK d \in ClientRecord :
          /\ SetClient(d) /\ d.peer = Peer /\ d.rxBuf = rest /\ Len(d.txBuf) <= kMaxOut
          /\ Peer \notin dropped' => d.txBuf = tx \o r
    BY <2>2 DEF Enqueued
  <2>4. /\ owed' \in [Peers -> Seq(Marks)] /\ owed'[Peer] = o \o r
        /\ \A q \in Peers : q # Peer => owed'[q] = owed[q]
    <3>1. o \o r \in Seq(Marks)
      OBVIOUS
    <3>2. owed' = [owed EXCEPT ![Peer] = @ \o r]
      BY <2>2 DEF Enqueued
    <3> QED
      BY <1>6, <1>7, <1>11, <3>1, <3>2
  <2>5. dropped \subseteq dropped' /\ dropped' \subseteq Peers
    BY <1>6, <1>11, <2>2 DEF Enqueued
  <2>6. Peer \notin dropped' => Answered(d.txBuf, g, k, owed'[Peer])
    <3>1. ASSUME Peer \notin dropped' PROVE Answered(d.txBuf, g, k, owed'[Peer])
      <4>1. Answered(tx, g, k, o)
        BY <1>8, <2>5, <3>1
      <4>2. Answered(tx \o r, g, k, o \o r)
        BY <4>1, AnsweredMore
      <4> QED
        BY <2>3, <2>4, <3>1, <4>2
    <3> QED
      BY <3>1
  <2>7. /\ RoomHere(handled'[Peer], d.rxBuf, toServer'[Peer], sent[Peer])
        /\ Peer \notin dropped' => Answered(d.txBuf, got[Peer], toPeer'[Peer], owed'[Peer])
        /\ Peer \notin cut' => Taken(handled'[Peer], d.rxBuf, toServer'[Peer], sent[Peer])
        /\ Len(toPeer'[Peer]) <= Window /\ Len(d.rxBuf) <= kMaxCmd
    BY <1>1, <1>2, <1>7, <1>8, <1>10, <1>11, <1>14, <1>15, <2>3, <2>6
  <2>8. /\ cut \subseteq cut' /\ cut' \subseteq Peers
        /\ \A q \in Peers : q # Peer =>
              /\ toServer'[q] = toServer[q] /\ toPeer'[q] = toPeer[q]
              /\ handled'[q] = handled[q] /\ owed'[q] = owed[q]
    BY <1>1, <1>10, <1>11, <2>4
  <2>9. /\ UNCHANGED <<stop, life, polled, conn, backlog, sent, got>>
        /\ spc' \in {"client", "recv", "split"} /\ spc \in {"recv", "split", "write"}
    BY <1>1 DEF peerVars
  <2> QED
    BY <1>10, <1>11, <2>3, <2>4, <2>5, <2>7, <2>8, <2>9, ServedKeeps
<1> QED
  BY <1>16, <1>17

\* Answers are sent as far as there is room; a marked client is closed.
LEMMA WriteKeeps ==
    ASSUME ServerInv, Write
    PROVE  ServerInv'
<1> DEFINE room == Window - Len(toPeer[Peer])
           m == IF ~polled.clients[at].out THEN 0
                ELSE IF Len(Client.txBuf) < room THEN Len(Client.txBuf) ELSE room
           fails == conn[Peer] = "reset" /\ polled.clients[at].out /\ Client.txBuf # <<>>
<1>1. /\ spc = "write"
      /\ toPeer' = IF fails THEN toPeer
                   ELSE [toPeer EXCEPT ![Peer] = @ \o SubSeq(Client.txBuf, 1, m)]
      /\ IF fails \/ Client.closedByServer THEN CloseAndLeave
         ELSE /\ SetClient([Client EXCEPT !.txBuf = IF m = 0 THEN @ ELSE Unsent(@, m)])
              /\ GoOn
              /\ UNCHANGED conn
      /\ UNCHANGED <<stop, life, backlog, toServer, historyVars>>
  BY DEF Write
<1>2. PICK x \in Seq(Units), tx \in Seq(Marks), ts \in Seq(Units), h \in Seq(Seq(Units)),
           s \in Seq(Units), p \in Peers :
        /\ x = Client.rxBuf /\ tx = Client.txBuf /\ ts = toServer[Peer] /\ h = handled[Peer]
        /\ s = sent[Peer] /\ p = Peer
  BY <1>1, ClientIs, BuffersAre
<1>3. /\ at \in 1 .. Len(clients) /\ Client \in ClientRecord /\ Peer \in Peers
      /\ Len(tx) <= kMaxOut /\ Client.peer = Peer /\ Len(x) <= kMaxCmd
  BY <1>1, <1>2, ClientIs DEF Peer
<1>4. PICK g \in Seq(Marks), k \in Seq(Marks), o \in Seq(Marks) :
        g = got[Peer] /\ k = toPeer[Peer] /\ o = owed[Peer]
  BY <1>1, BuffersAre
<1>5. /\ RoomHere(h, x, ts, s) /\ Len(k) <= Window
      /\ Peer \notin dropped => Answered(tx, g, k, o)
      /\ Peer \notin cut => Taken(h, x, ts, s)
  BY <1>1, <1>2, <1>4, BuffersAre
<1>6. PICK n \in 0 .. Len(tx) : n = m /\ Len(k) + n <= Window
  <2>1. Len(tx) \in Nat /\ Len(k) \in Nat /\ room = Window - Len(k) /\ room \in Nat
    BY <1>4, <1>5, Numbers
  <2>2. m = 0 \/ (m = Len(tx) /\ Len(tx) <= room) \/ (m = room /\ room <= Len(tx))
    BY <1>2, <2>1
  <2> HIDE DEF m, room
  <2>3. m \in 0 .. Len(tx) /\ Len(k) + m <= Window
    BY <1>5, <2>1, <2>2, Numbers
  <2> QED
    BY <2>3
<1>7. PICK a \in Seq(Marks), b \in Seq(Marks) :
        /\ a = SubSeq(tx, 1, n) /\ b = SubSeq(tx, n + 1, Len(tx))
        /\ Len(a) = n /\ Len(b) = Len(tx) - n /\ a \o b = tx
  <2>1. /\ SubSeq(tx, 1, n) \in Seq(Marks) /\ SubSeq(tx, n + 1, Len(tx)) \in Seq(Marks)
        /\ Len(SubSeq(tx, 1, n)) = n /\ Len(SubSeq(tx, n + 1, Len(tx))) = Len(tx) - n
        /\ SubSeq(tx, 1, n) \o SubSeq(tx, n + 1, Len(tx)) = tx
    BY TwoParts
  <2> QED
    BY <2>1
<1>8. k \o a \in Seq(Marks) /\ Len(k \o a) = Len(k) + n
  <2>1. k \o a \in Seq(Marks) /\ Len(k \o a) = Len(k) + Len(a)
    OBVIOUS
  <2>2. Len(a) = n
    BY <1>7
  <2> QED
    BY <2>1, <2>2
<1>9. toPeer \in [Peers -> Seq(Marks)] /\ \A q \in Peers : Len(toPeer[q]) <= Window
  BY DEF ServerInv, Kinds, Limits
<1>10. /\ toPeer' \in [Peers -> Seq(Marks)]
       /\ \A q \in Peers : q # Peer => toPeer'[q] = toPeer[q]
       /\ Len(toPeer'[Peer]) <= Window
       /\ ~fails => toPeer'[Peer] = k \o a
  <2>1. CASE fails
    BY <1>1, <1>3, <1>9, <2>1
  <2>2. CASE ~fails
    <3>1. toPeer' = [toPeer EXCEPT ![Peer] = k \o a]
      BY <1>1, <1>2, <1>3, <1>4, <1>6, <1>7, <1>9, <2>2
    <3> QED
      BY <1>3, <1>6, <1>8, <1>9, <3>1
  <2> QED
    BY <2>1, <2>2
<1> HIDE DEF fails
<1>11. CASE fails \/ Client.closedByServer
  <2>1. CloseClients({at}) /\ LeaveRound
    BY <1>1, <1>11 DEF CloseAndLeave
  <2> DEFINE gone == {clients[i].peer : i \in {at}}
  <2>2. gone = {Peer} /\ gone \subseteq Served
    BY <1>1, ClientIs DEF Peer, Client
  <2>3. /\ clients' = Kept(clients, {c \in ToSet(clients) : c.peer \notin gone})
        /\ conn' = [q \in Peers |-> IF q \in gone THEN "closed" ELSE conn[q]]
    BY <2>1 DEF CloseClients
  <2>4. \A q \in Peers : Len(toPeer'[q]) <= Window /\ (q \notin gone => toPeer'[q] = toPeer[q])
    BY <1>9, <1>10, <2>2
  <2>5. UNCHANGED <<stop, life, backlog, toServer, historyVars>>
    BY <1>1
  <2> HIDE DEF gone
  <2> QED
    BY <1>10, <2>1, <2>2, <2>3, <2>4, <2>5, CloseKeeps
<1>12. CASE ~(fails \/ Client.closedByServer)
  <2>1. PICK c \in ClientRecord :
          SetClient(c) /\ c.peer = Peer /\ c.rxBuf = x /\ c.txBuf = b
    <3>1. (IF n = 0 THEN tx ELSE SubSeq(tx, n + 1, Len(tx))) = b
      <4>1. CASE n = 0
        <5>1. Len(a) = 0
          BY <1>7, <4>1
        <5>2. a = <<>>
          BY <5>1
        <5>3. <<>> \o b = b
          OBVIOUS
        <5> QED
          BY <1>7, <4>1, <5>2, <5>3
      <4>2. CASE n # 0
        BY <1>7, <4>2
      <4> QED
        BY <4>1, <4>2
    <3>2. [Client EXCEPT !.txBuf = IF m = 0 THEN @ ELSE Unsent(@, m)] = [Client EXCEPT !.txBuf = b]
      BY <1>2, <1>6, <3>1 DEF Unsent
    <3>3. LET c == [Client EXCEPT !.txBuf = b]
          IN  c \in ClientRecord /\ c.peer = Peer /\ c.rxBuf = x /\ c.txBuf = b
      BY <1>2, <1>3 DEF ClientRecord
    <3>4. SetClient([Client EXCEPT !.txBuf = b])
      BY <1>1, <1>12, <3>2
    <3> QED
      BY <3>3, <3>4
  <2>2. /\ spc' = "client" /\ at' = at + 1 /\ UNCHANGED <<polled, conn>>
        /\ UNCHANGED <<stop, life, backlog, toServer, sent, handled, owed, got, cut, dropped>>
    BY <1>1, <1>12 DEF GoOn, historyVars
  <2>3. /\ cut \subseteq Peers /\ dropped \subseteq Peers /\ at' \in Nat /\ at' >= 1
        /\ toServer' \in [Peers -> Seq(Units)] /\ handled' \in [Peers -> Seq(Seq(Units))]
        /\ owed' \in [Peers -> Seq(Marks)]
    <3>1. at \in Nat /\ at >= 1
      BY DEF ServerInv, Kinds
    <3>2. at' \in Nat /\ at' >= 1
      BY <2>2, <3>1
    <3> QED
      BY <2>2, <3>2 DEF ServerInv, Kinds
  <2>4. Peer \notin dropped => Answered(b, g, k \o a, o)
    BY <1>5, <1>7, AnsweredMoves
  <2>5. /\ RoomHere(handled'[Peer], c.rxBuf, toServer'[Peer], sent[Peer])
        /\ Peer \notin dropped' => Answered(c.txBuf, got[Peer], toPeer'[Peer], owed'[Peer])
        /\ Peer \notin cut' => Taken(handled'[Peer], c.rxBuf, toServer'[Peer], sent[Peer])
    BY <1>2, <1>4, <1>5, <1>10, <1>12, <2>1, <2>2, <2>4
  <2>6. Len(c.txBuf) <= kMaxOut /\ Len(c.rxBuf) <= kMaxCmd
    <3>1. Len(b) <= Len(tx) /\ Len(b) \in Nat /\ Len(tx) \in Nat
      BY <1>7
    <3> QED
      BY <1>3, <2>1, <3>1, Numbers
  <2> QED
    BY <1>1, <1>10, <2>1, <2>2, <2>3, <2>5, <2>6, ServedKeeps
<1> QED
  BY <1>11, <1>12
-----------------------------------------------------------------------------
(* The peers and time.                                                      *)

\* A unit is sent.
LEMMA TakenSent ==
    ASSUME NEW h \in Seq(Seq(Units)), NEW x \in Seq(Units), NEW ts \in Seq(Units),
           NEW s \in Seq(Units), NEW u \in Units, Taken(h, x, ts, s)
    PROVE  Taken(h, x, Append(ts, u), Append(s, u))
<1>1. PICK f \in Seq(Units) : f = FlattenSeq(h)
  BY FlattenIs
<1>2. PICK y \in Seq(Units) : y = f \o x
  <2>1. f \o x \in Seq(Units)
    OBVIOUS
  <2> QED
    BY <2>1
<1>3. y \o ts = s
  BY <1>1, <1>2 DEF Taken
<1>4. PICK e \in Seq(Units) : e = <<u>>
  <2>1. <<u>> \in Seq(Units)
    OBVIOUS
  <2> QED
    BY <2>1
<1>5. Append(ts, u) = ts \o e /\ Append(s, u) = s \o e
  BY <1>4, AppendIsConcat
<1>6. (y \o ts) \o e = y \o (ts \o e)
  BY ConcatAssociative, SMTT(30)
<1> QED
  BY <1>1, <1>2, <1>3, <1>5, <1>6 DEF Taken

\* Peers act: what the thread keeps is untouched, and so are the other peers.
LEMMA PeerKeeps ==
    ASSUME ServerInv, NEW p \in Peers,
           UNCHANGED <<serverVars, handled, owed, cut, dropped>>,
           conn' \in [Peers -> {"none", "pending", "open", "fin", "reset", "closed"}],
           backlog' \in Seq(Peers),
           toServer' \in [Peers -> Seq(Units)], toPeer' \in [Peers -> Seq(Marks)],
           sent' \in [Peers -> Seq(Units)], got' \in [Peers -> Seq(Marks)],
           \A q \in Peers : q # p =>
              /\ toServer'[q] = toServer[q] /\ toPeer'[q] = toPeer[q]
              /\ sent'[q] = sent[q] /\ got'[q] = got[q] /\ conn'[q] = conn[q],
           \A i, j \in 1 .. Len(backlog') : backlog'[i] = backlog'[j] => i = j,
           \A q \in Peers : q \in ToSet(backlog)' <=> conn'[q] = "pending",
           conn'[p] \in {"open", "fin", "reset"} <=> conn[p] \in {"open", "fin", "reset"},
           conn'[p] \in {"none", "pending"} =>
              got'[p] = got[p] /\ toPeer'[p] = toPeer[p] /\ toServer'[p] = sent'[p]
              /\ conn[p] \in {"none", "pending"},
           Len(toPeer'[p]) <= Window, Len(sent'[p]) <= MaxSent,
           Room(handled[p], toServer'[p], sent'[p]),
           \A x \in Seq(Units) : RoomHere(handled[p], x, toServer[p], sent[p])
                                   => RoomHere(handled[p], x, toServer'[p], sent'[p]),
           \A x \in Seq(Units) : Taken(handled[p], x, toServer[p], sent[p])
                                   => Taken(handled[p], x, toServer'[p], sent'[p]),
           \A x \in Seq(Marks) : Answered(x, got[p], toPeer[p], owed[p])
                                   => Answered(x, got'[p], toPeer'[p], owed[p])
    PROVE  ServerInv'
<1>1. /\ clients' = clients /\ polled' = polled /\ at' = at /\ spc' = spc
      /\ stop' = stop /\ life' = life
      /\ handled' = handled /\ owed' = owed /\ cut' = cut /\ dropped' = dropped
  BY DEF serverVars
<1>2. \A i \in 1 .. Len(clients) :
        /\ clients[i].peer \in Peers /\ clients[i].rxBuf \in Seq(Units)
        /\ clients[i].txBuf \in Seq(Marks)
  <2>1. \A c \in ClientRecord :
          c.peer \in Peers /\ c.rxBuf \in Seq(Units) /\ c.txBuf \in Seq(Marks)
    BY DEF ClientRecord
  <2>2. \A i \in 1 .. Len(clients) : clients[i] \in ClientRecord
    BY DEF ServerInv, Kinds
  <2> QED
    BY <2>1, <2>2
<1>3. Kinds'
  BY <1>1 DEF ServerInv, Kinds
<1>4. Slots'
  <2>1. \A q : q \in Served' <=> q \in Served
    BY <1>1 DEF Served
  <2>2. \A q \in Peers : conn'[q] \in {"open", "fin", "reset"} <=> conn[q] \in {"open", "fin", "reset"}
    OBVIOUS
  <2> QED
    BY <1>1, <2>1, <2>2 DEF ServerInv, Slots
<1>5. Limits'
  <2>1. \A q \in Peers : Len(toPeer'[q]) <= Window
    BY DEF ServerInv, Limits
  <2> QED
    BY <1>1, <2>1 DEF ServerInv, Limits
<1>6. Round'
  BY <1>1 DEF ServerInv, Round
<1>7. Fresh'
  <2>1. ASSUME NEW q \in Peers, conn'[q] \in {"none", "pending"}
        PROVE  /\ handled'[q] = <<>> /\ owed'[q] = <<>> /\ got'[q] = <<>> /\ toPeer'[q] = <<>>
               /\ toServer'[q] = sent'[q]
    <3>1. CASE q = p
      BY <1>1, <2>1, <3>1 DEF ServerInv, Fresh
    <3>2. CASE q # p
      BY <1>1, <2>1, <3>2, ZenonT(30) DEF ServerInv, Fresh
    <3> QED
      BY <3>1, <3>2
  <2> QED
    BY <2>1 DEF Fresh
<1>8. Counts'
  <2>1. ASSUME NEW q \in Peers
        PROVE  Len(sent'[q]) <= MaxSent /\ Room(handled'[q], toServer'[q], sent'[q])
    <3>1. CASE q = p
      BY <1>1, <3>1
    <3>2. CASE q # p
      BY <1>1, <3>2 DEF ServerInv, Counts
    <3> QED
      BY <3>1, <3>2
  <2>2. ASSUME NEW i \in 1 .. Len(clients)
        PROVE  RoomHere(handled[clients[i].peer], clients[i].rxBuf,
                        toServer'[clients[i].peer], sent'[clients[i].peer])
    <3>1. RoomHere(handled[clients[i].peer], clients[i].rxBuf,
                   toServer[clients[i].peer], sent[clients[i].peer])
      BY DEF ServerInv, Counts
    <3>2. CASE clients[i].peer = p
      BY <1>2, <3>1, <3>2
    <3>3. CASE clients[i].peer # p
      BY <1>2, <3>1, <3>3
    <3> QED
      BY <3>2, <3>3
  <2> QED
    BY <1>1, <2>1, <2>2 DEF Counts
<1>9. Replies'
  <2>1. ASSUME NEW i \in 1 .. Len(clients), clients[i].peer \notin dropped
        PROVE  Answered(clients[i].txBuf, got'[clients[i].peer],
                        toPeer'[clients[i].peer], owed[clients[i].peer])
    <3>1. Answered(clients[i].txBuf, got[clients[i].peer],
                   toPeer[clients[i].peer], owed[clients[i].peer])
      BY <2>1 DEF ServerInv, Replies
    <3>2. CASE clients[i].peer = p
      BY <1>2, <3>1, <3>2
    <3>3. CASE clients[i].peer # p
      BY <1>2, <3>1, <3>3
    <3> QED
      BY <3>2, <3>3
  <2> QED
    BY <1>1, <2>1 DEF Replies
<1>10. Frames'
  <2>1. ASSUME NEW i \in 1 .. Len(clients), clients[i].peer \notin cut
        PROVE  Taken(handled[clients[i].peer], clients[i].rxBuf,
                     toServer'[clients[i].peer], sent'[clients[i].peer])
    <3>1. Taken(handled[clients[i].peer], clients[i].rxBuf,
                toServer[clients[i].peer], sent[clients[i].peer])
      BY <2>1 DEF ServerInv, Frames
    <3>2. CASE clients[i].peer = p
      BY <1>2, <3>1, <3>2
    <3>3. CASE clients[i].peer # p
      BY <1>2, <3>1, <3>3
    <3> QED
      BY <3>2, <3>3
  <2> QED
    BY <1>1, <2>1 DEF Frames
<1> QED
  BY <1>3, <1>4, <1>5, <1>6, <1>7, <1>8, <1>9, <1>10 DEF ServerInv

\* The kinds of what belongs to a peer.
LEMMA PeerHas ==
    ASSUME ServerInv, NEW p \in Peers
    PROVE  /\ toServer[p] \in Seq(Units) /\ sent[p] \in Seq(Units)
           /\ handled[p] \in Seq(Seq(Units)) /\ owed[p] \in Seq(Marks)
           /\ got[p] \in Seq(Marks) /\ toPeer[p] \in Seq(Marks)
           /\ Len(toPeer[p]) <= Window /\ Len(sent[p]) <= MaxSent
           /\ Room(handled[p], toServer[p], sent[p])
BY DEF ServerInv, Kinds, Limits, Counts

\* What the lemma on peers asks of variables that stay.
LEMMA SameBacklog ==
    ASSUME ServerInv, UNCHANGED backlog
    PROVE  /\ backlog' \in Seq(Peers)
           /\ \A i, j \in 1 .. Len(backlog') : backlog'[i] = backlog'[j] => i = j
           /\ \A q \in Peers : q \in ToSet(backlog)' <=> conn[q] = "pending"
<1>1. ToSet(backlog)' = ToSet(backlog)
  BY DEF ToSet
<1> QED
  BY <1>1 DEF ServerInv, Kinds, Slots

\* A peer connects.
LEMMA ConnectKeeps ==
    ASSUME ServerInv, NEW p \in Peers, Connect(p)
    PROVE  ServerInv'
<1>1. /\ conn[p] = "none" /\ conn' = [conn EXCEPT ![p] = "pending"]
      /\ backlog' = Append(backlog, p)
      /\ UNCHANGED <<serverVars, handled, owed, cut, dropped>>
      /\ UNCHANGED <<toServer, toPeer, sent, got>>
  BY DEF Connect, historyVars
<1>2. backlog \in Seq(Peers) /\ p \notin ToSet(backlog)
      /\ \A i, j \in 1 .. Len(backlog) : backlog[i] = backlog[j] => i = j
  BY <1>1 DEF ServerInv, Kinds, Slots
<1>3. /\ backlog' \in Seq(Peers) /\ Len(backlog') = Len(backlog) + 1 /\ Len(backlog) \in Nat
      /\ backlog'[Len(backlog) + 1] = p /\ \A i \in 1 .. Len(backlog) : backlog'[i] = backlog[i]
  BY <1>1, <1>2
<1>4. \A i \in 1 .. Len(backlog') : i \in 1 .. Len(backlog) \/ i = Len(backlog) + 1
  BY <1>3
<1>5. \A i \in 1 .. Len(backlog) : backlog[i] # p
  BY <1>2 DEF ToSet
<1>6. \A i, j \in 1 .. Len(backlog') : backlog'[i] = backlog'[j] => i = j
  BY <1>2, <1>3, <1>4, <1>5
<1>7. \A q : q \in ToSet(backlog)' <=> q \in ToSet(backlog) \/ q = p
  <2>0. DOMAIN backlog = 1 .. Len(backlog) /\ DOMAIN backlog' = 1 .. Len(backlog')
    BY <1>2, <1>3
  <2>1. /\ \A q : q \in ToSet(backlog)' <=> \E i \in 1 .. Len(backlog') : backlog'[i] = q
        /\ \A q : q \in ToSet(backlog) <=> \E i \in 1 .. Len(backlog) : backlog[i] = q
    BY <2>0 DEF ToSet
  <2>2. /\ Len(backlog) + 1 \in 1 .. Len(backlog')
        /\ \A i \in 1 .. Len(backlog) : i \in 1 .. Len(backlog')
    BY <1>3
  <2> QED
    BY <1>3, <1>4, <2>1, <2>2
<1>8. /\ conn' \in [Peers -> {"none", "pending", "open", "fin", "reset", "closed"}]
      /\ conn'[p] = "pending" /\ \A q \in Peers : q # p => conn'[q] = conn[q]
  BY <1>1 DEF ServerInv, Kinds
<1>9. \A q \in Peers : q \in ToSet(backlog)' <=> conn'[q] = "pending"
  BY <1>7, <1>8 DEF ServerInv, Slots
<1>10. toServer[p] = sent[p]
  BY <1>1 DEF ServerInv, Fresh
<1>11. /\ toServer' \in [Peers -> Seq(Units)] /\ toPeer' \in [Peers -> Seq(Marks)]
       /\ sent' \in [Peers -> Seq(Units)] /\ got' \in [Peers -> Seq(Marks)]
  BY <1>1 DEF ServerInv, Kinds
<1>12. /\ Len(toPeer'[p]) <= Window /\ Len(sent'[p]) <= MaxSent
       /\ Room(handled[p], toServer'[p], sent'[p])
  BY <1>1, PeerHas
<1>13. /\ toServer' = toServer /\ toPeer' = toPeer /\ sent' = sent /\ got' = got
  BY <1>1
<1> QED
  BY <1>1, <1>3, <1>6, <1>8, <1>9, <1>10, <1>11, <1>12, <1>13, PeerKeeps, ZenonT(30)

\* A peer sends a unit.
LEMMA SendKeeps ==
    ASSUME ServerInv, NEW p \in Peers, SendUnit(p)
    PROVE  ServerInv'
<1>1. PICK end \in BOOLEAN :
        /\ sent' = [sent EXCEPT ![p] = Append(@, [no |-> Len(sent[p]) + 1, end |-> end])]
        /\ toServer' = [toServer EXCEPT ![p] = Append(@, [no |-> Len(sent[p]) + 1, end |-> end])]
  BY DEF SendUnit
<1>2. /\ Len(sent[p]) < MaxSent
      /\ UNCHANGED <<serverVars, handled, owed, cut, dropped>>
      /\ conn' = conn /\ backlog' = backlog /\ toPeer' = toPeer /\ got' = got
  BY DEF SendUnit
<1>3. PICK s \in Seq(Units), ts \in Seq(Units), h \in Seq(Seq(Units)) :
        s = sent[p] /\ ts = toServer[p] /\ h = handled[p]
  BY PeerHas
<1>4. PICK u \in Units : u = [no |-> Len(sent[p]) + 1, end |-> end]
  <2>1. Len(s) + 1 \in 1 .. MaxSent
    BY <1>2, <1>3, Numbers
  <2>2. [no |-> Len(sent[p]) + 1, end |-> end] \in Units
    BY <1>3, <2>1 DEF Units
  <2> QED
    BY <2>2
<1>5. /\ Append(s, u) \in Seq(Units) /\ Append(ts, u) \in Seq(Units)
      /\ Len(Append(s, u)) = Len(s) + 1 /\ Len(Append(ts, u)) = Len(ts) + 1
  OBVIOUS
<1>6. /\ sent' \in [Peers -> Seq(Units)] /\ sent'[p] = Append(s, u)
      /\ toServer' \in [Peers -> Seq(Units)] /\ toServer'[p] = Append(ts, u)
      /\ \A q \in Peers : q # p => sent'[q] = sent[q] /\ toServer'[q] = toServer[q]
  <2>1. sent \in [Peers -> Seq(Units)] /\ toServer \in [Peers -> Seq(Units)]
    BY DEF ServerInv, Kinds
  <2> QED
    BY <1>1, <1>3, <1>4, <1>5, <2>1
<1>7. /\ conn' \in [Peers -> {"none", "pending", "open", "fin", "reset", "closed"}]
      /\ toPeer' \in [Peers -> Seq(Marks)] /\ got' \in [Peers -> Seq(Marks)]
  BY <1>2 DEF ServerInv, Kinds
<1>8. conn[p] \in {"none", "pending"} => toServer'[p] = sent'[p]
  BY <1>3, <1>6 DEF ServerInv, Fresh
<1>9. /\ Len(s) \in Nat /\ Len(ts) \in Nat /\ Len(h) \in Nat
      /\ Len(s) + 1 <= MaxSent /\ Len(h) + Len(ts) <= Len(s)
  <2>1. Len(s) \in Nat /\ Len(ts) \in Nat /\ Len(h) \in Nat
    OBVIOUS
  <2>2. Len(h) + Len(ts) <= Len(s)
    BY <1>3, PeerHas DEF Room
  <2>3. Len(s) < MaxSent
    BY <1>2, <1>3
  <2>4. MaxSent \in Nat
    BY Numbers
  <2>5. Len(s) + 1 <= MaxSent
    BY <2>1, <2>3, <2>4
  <2> QED
    BY <2>1, <2>2, <2>5
<1>10. /\ Len(toPeer'[p]) <= Window /\ Len(sent'[p]) <= MaxSent
       /\ Room(handled[p], toServer'[p], sent'[p])
  <2>1. Len(h) + (Len(ts) + 1) <= Len(s) + 1
    BY <1>9
  <2> QED
    BY <1>2, <1>3, <1>5, <1>6, <1>9, <2>1, PeerHas DEF Room
<1>11. \A x \in Seq(Units) : RoomHere(handled[p], x, toServer[p], sent[p])
                               => RoomHere(handled[p], x, toServer'[p], sent'[p])
  <2>1. ASSUME NEW x \in Seq(Units), RoomHere(h, x, ts, s)
        PROVE  RoomHere(h, x, Append(ts, u), Append(s, u))
    <3>1. Len(x) \in Nat
      OBVIOUS
    <3>2. Len(h) + Len(x) + Len(ts) <= Len(s)
      BY <2>1 DEF RoomHere
    <3>3. Len(h) + Len(x) + (Len(ts) + 1) <= Len(s) + 1
      BY <1>9, <3>1, <3>2
    <3> QED
      BY <1>5, <3>3 DEF RoomHere
  <2> QED
    BY <1>3, <1>6, <2>1
<1>12. \A x \in Seq(Units) : Taken(handled[p], x, toServer[p], sent[p])
                               => Taken(handled[p], x, toServer'[p], sent'[p])
  <2>1. ASSUME NEW x \in Seq(Units), Taken(h, x, ts, s)
        PROVE  Taken(h, x, Append(ts, u), Append(s, u))
    BY <2>1, TakenSent
  <2> QED
    BY <1>3, <1>6, <2>1
<1>13. /\ backlog' \in Seq(Peers)
       /\ \A i, j \in 1 .. Len(backlog') : backlog'[i] = backlog'[j] => i = j
       /\ \A q \in Peers : q \in ToSet(backlog)' <=> conn'[q] = "pending"
  BY <1>2, SameBacklog
<1> QED
  BY <1>2, <1>6, <1>7, <1>8, <1>10, <1>11, <1>12, <1>13, PeerKeeps

\* A peer ends its side, or breaks the connection.
LEMMA DisconnectKeeps ==
    ASSUME ServerInv, NEW p \in Peers, Disconnect(p)
    PROVE  ServerInv'
<1>1. PICK how \in {"fin", "reset"} : conn' = [conn EXCEPT ![p] = how]
  BY DEF Disconnect
<1>2. /\ conn[p] \in {"open", "fin"}
      /\ UNCHANGED <<serverVars, handled, owed, cut, dropped>>
      /\ backlog' = backlog /\ toPeer' = toPeer /\ got' = got /\ sent' = sent /\ toServer' = toServer
  BY DEF Disconnect, historyVars
<1>3. /\ conn' \in [Peers -> {"none", "pending", "open", "fin", "reset", "closed"}]
      /\ conn'[p] \in {"fin", "reset"} /\ \A q \in Peers : q # p => conn'[q] = conn[q]
  BY <1>1 DEF ServerInv, Kinds
<1>4. /\ toServer' \in [Peers -> Seq(Units)] /\ toPeer' \in [Peers -> Seq(Marks)]
      /\ sent' \in [Peers -> Seq(Units)] /\ got' \in [Peers -> Seq(Marks)]
  BY <1>2 DEF ServerInv, Kinds
<1>5. /\ backlog' \in Seq(Peers)
      /\ \A i, j \in 1 .. Len(backlog') : backlog'[i] = backlog'[j] => i = j
      /\ \A q \in Peers : q \in ToSet(backlog)' <=> conn[q] = "pending"
  BY <1>2, SameBacklog
<1>6. \A q \in Peers : q \in ToSet(backlog)' <=> conn'[q] = "pending"
  BY <1>2, <1>3, <1>5
<1>7. /\ Len(toPeer'[p]) <= Window /\ Len(sent'[p]) <= MaxSent
      /\ Room(handled[p], toServer'[p], sent'[p])
  BY <1>2, PeerHas
<1> QED
  BY <1>2, <1>3, <1>4, <1>5, <1>6, <1>7, PeerKeeps

\* A peer reads answers.
LEMMA ReadKeeps ==
    ASSUME ServerInv, NEW p \in Peers, ReadReply(p)
    PROVE  ServerInv'
<1>1. /\ conn[p] \in {"open", "fin"}
      /\ got' = [got EXCEPT ![p] = @ \o toPeer[p]]
      /\ toPeer' = [toPeer EXCEPT ![p] = <<>>]
      /\ UNCHANGED <<serverVars, handled, owed, cut, dropped>>
      /\ conn' = conn /\ backlog' = backlog /\ sent' = sent /\ toServer' = toServer
  BY DEF ReadReply
<1>2. PICK g \in Seq(Marks), k \in Seq(Marks), o \in Seq(Marks) :
        g = got[p] /\ k = toPeer[p] /\ o = owed[p]
  BY PeerHas
<1>3. g \o k \in Seq(Marks) /\ <<>> \in Seq(Marks) /\ Len(<<>>) = 0
  OBVIOUS
<1>4. /\ got' \in [Peers -> Seq(Marks)] /\ got'[p] = g \o k
      /\ toPeer' \in [Peers -> Seq(Marks)] /\ toPeer'[p] = <<>>
      /\ \A q \in Peers : q # p => got'[q] = got[q] /\ toPeer'[q] = toPeer[q]
  <2>1. got \in [Peers -> Seq(Marks)] /\ toPeer \in [Peers -> Seq(Marks)]
    BY DEF ServerInv, Kinds
  <2> QED
    BY <1>1, <1>2, <1>3, <2>1
<1>5. /\ conn' \in [Peers -> {"none", "pending", "open", "fin", "reset", "closed"}]
      /\ toServer' \in [Peers -> Seq(Units)] /\ sent' \in [Peers -> Seq(Units)]
  BY <1>1 DEF ServerInv, Kinds
<1>6. \A x \in Seq(Marks) : Answered(x, got[p], toPeer[p], owed[p])
                              => Answered(x, got'[p], toPeer'[p], owed[p])
  <2>1. ASSUME NEW x \in Seq(Marks), Answered(x, g, k, o) PROVE Answered(x, g \o k, <<>>, o)
    <3>1. PICK y \in Seq(Marks) : y = g \o k
      BY <1>3
    <3>2. y \o <<>> = y
      OBVIOUS
    <3> QED
      BY <2>1, <3>1, <3>2 DEF Answered
  <2> QED
    BY <1>2, <1>4, <2>1
<1>7. /\ backlog' \in Seq(Peers)
      /\ \A i, j \in 1 .. Len(backlog') : backlog'[i] = backlog'[j] => i = j
      /\ \A q \in Peers : q \in ToSet(backlog)' <=> conn'[q] = "pending"
  BY <1>1, SameBacklog
<1>8. /\ Len(toPeer'[p]) <= Window /\ Len(sent'[p]) <= MaxSent
      /\ Room(handled[p], toServer'[p], sent'[p])
  BY <1>1, <1>3, <1>4, Numbers, PeerHas
<1> QED
  BY <1>1, <1>4, <1>5, <1>6, <1>7, <1>8, PeerKeeps

\* Connections grow older.
LEMMA TickKeeps ==
    ASSUME ServerInv, Tick
    PROVE  ServerInv'
<1>1. /\ clients \in Seq(ClientRecord) /\ Len(clients) \in Nat
      /\ DOMAIN clients = 1 .. Len(clients)
  BY DEF ServerInv, Kinds
<1>2. UNCHANGED <<spc, stop, life, polled, at, peerVars, historyVars>>
  BY DEF Tick
<1> DEFINE Older(c) == [c EXCEPT !.age = IF @ < IdleTicks THEN @ + 1 ELSE @]
<1>3. \A c \in ClientRecord :
        /\ Older(c) \in ClientRecord
        /\ Older(c).peer = c.peer /\ Older(c).rxBuf = c.rxBuf /\ Older(c).txBuf = c.txBuf
  <2>1. ASSUME NEW c \in ClientRecord
        PROVE  /\ Older(c) \in ClientRecord
               /\ Older(c).peer = c.peer /\ Older(c).rxBuf = c.rxBuf /\ Older(c).txBuf = c.txBuf
    <3>1. c.age \in 0 .. IdleTicks
      BY DEF ClientRecord
    <3>2. (IF c.age < IdleTicks THEN c.age + 1 ELSE c.age) \in 0 .. IdleTicks
      BY <3>1, Numbers
    <3> QED
      BY <3>2 DEF ClientRecord
  <2> QED
    BY <2>1
<1>4. clients' = [i \in DOMAIN clients |-> Older(clients[i])]
  BY DEF Tick
<1> HIDE DEF Older
<1>5. clients' \in Seq(ClientRecord) /\ Len(clients') = Len(clients)
      /\ DOMAIN clients' = 1 .. Len(clients)
  <2>1. \A i \in 1 .. Len(clients) : Older(clients[i]) \in ClientRecord
    BY <1>1, <1>3
  <2> HIDE DEF ClientRecord
  <2> QED
    BY <1>1, <1>4, <2>1
<1>6. \A i \in 1 .. Len(clients) :
        /\ clients'[i].peer = clients[i].peer /\ clients'[i].rxBuf = clients[i].rxBuf
        /\ clients'[i].txBuf = clients[i].txBuf
  BY <1>1, <1>3, <1>4
<1> HIDE DEF ClientRecord
<1>7. Kinds'
  BY <1>2, <1>5 DEF ServerInv, Kinds, peerVars, historyVars
<1>8. Slots'
  <2>1. Served' = Served
    BY <1>1, <1>5, <1>6 DEF Served
  <2>2. ToSet(backlog)' = ToSet(backlog)
    BY <1>2 DEF ToSet, peerVars
  <2>3. Len(clients') <= kMaxClients
    BY <1>5 DEF ServerInv, Slots
  <2>4. \A i, j \in 1 .. Len(clients') : clients'[i].peer = clients'[j].peer => i = j
    BY <1>5, <1>6 DEF ServerInv, Slots
  <2> QED
    BY <1>2, <2>1, <2>2, <2>3, <2>4 DEF ServerInv, Slots, peerVars
<1>9. Limits'
  BY <1>2, <1>5, <1>6 DEF ServerInv, Limits, peerVars
<1>10. Round' /\ Fresh'
  BY <1>2, <1>5, <1>6 DEF ServerInv, Round, Fresh, peerVars, historyVars
<1>11. Counts'
  BY <1>2, <1>5, <1>6 DEF ServerInv, Counts, peerVars, historyVars
<1>12. Replies' /\ Frames'
  BY <1>2, <1>5, <1>6 DEF ServerInv, Replies, Frames, peerVars, historyVars
<1> QED
  BY <1>7, <1>8, <1>9, <1>10, <1>11, <1>12 DEF ServerInv
-----------------------------------------------------------------------------
(* The theorems.                                                            *)

\* Each step of the thread keeps the invariant.
LEMMA ThreadKeeps ==
    ASSUME ServerInv, ServerStep
    PROVE  ServerInv'
<1>0. clients \in Seq(ClientRecord) /\ DOMAIN clients = 1 .. Len(clients) /\ Len(clients) \in Nat
      /\ at \in Nat /\ at >= 1
  BY DEF ServerInv, Kinds
<1>1. CASE Poll
  BY <1>1, PollKeeps
<1>2. CASE Leave
  BY <1>2, LeaveKeeps
<1>3. CASE AcceptClients
  <2>1. CASE polled.listener /\ Len(backlog) > 0
    BY <1>3, <2>1, AcceptKeeps
  <2>2. CASE ~(polled.listener /\ Len(backlog) > 0)
    <3>1. /\ spc = "accept" /\ spc' = "client"
          /\ UNCHANGED <<stop, life, polled, at, clients, peerVars, historyVars>>
      BY <1>3, <2>2 DEF AcceptClients, peerVars
    <3>2. Round'
      BY <3>1 DEF ServerInv, Round
    <3> QED
      BY <3>1, <3>2, ControlKeeps DEF ServerInv, Kinds
  <2> QED
    BY <2>1, <2>2
<1>4. CASE ServeClient
  <2>1. /\ spc = "client" /\ at \in 1 .. Len(clients)
        /\ UNCHANGED <<stop, life, backlog, toServer, toPeer, historyVars>>
    BY <1>0, <1>4 DEF ServeClient
  <2>2. CASE CloseAndLeave
    BY <2>1, <2>2, CloseIndicesKeeps DEF CloseAndLeave
  <2>3. CASE spc' \in {"recv", "write"} /\ UNCHANGED <<clients, conn, polled, at>>
    BY <2>1, <2>3, TurnKeeps DEF peerVars
  <2> QED
    BY <1>4, <2>2, <2>3 DEF ServeClient
<1>5. CASE ReceiveData
  BY <1>5, ReceiveKeeps
<1>6. CASE ReceiveEnd
  <2>1. /\ at \in 1 .. Len(clients) /\ CloseAndLeave
        /\ UNCHANGED <<stop, life, backlog, toServer, toPeer, historyVars>>
    BY <1>6, ClientIs DEF ReceiveEnd
  <2> QED
    BY <2>1, CloseIndicesKeeps DEF CloseAndLeave
<1>7. CASE ReceivedAll \/ SplitAll
  <2>1. /\ spc \in {"recv", "split"} /\ spc' \in {"recv", "write"}
        /\ UNCHANGED <<stop, life, clients, polled, at, peerVars, historyVars>>
    BY <1>7 DEF ReceivedAll, SplitAll
  <2>2. at <= Len(clients)
    BY <2>1 DEF ServerInv, Round
  <2> QED
    BY <2>1, <2>2, TurnKeeps
<1>8. CASE HandleLine
  BY <1>8, HandleKeeps
<1>9. CASE Write
  BY <1>9, WriteKeeps
<1>10. CASE CloseIdle
  <2>1. {i \in DOMAIN clients : Idle(clients[i])} \subseteq 1 .. Len(clients)
    BY <1>0
  <2>2. /\ CloseClients({i \in DOMAIN clients : Idle(clients[i])}) /\ LeaveRound
        /\ UNCHANGED <<stop, life, backlog, toServer, toPeer, historyVars>>
    BY <1>10 DEF CloseIdle
  <2> QED
    BY <2>1, <2>2, CloseIndicesKeeps
<1> QED
  BY <1>1, <1>2, <1>3, <1>4, <1>5, <1>6, <1>7, <1>8, <1>9, <1>10 DEF ServerStep

\* The invariant is inductive.
LEMMA ServerStepKeeps == ServerInv /\ [Next]_vars => ServerInv'
<1> SUFFICES ASSUME ServerInv, [Next]_vars PROVE ServerInv'
  OBVIOUS
<1>1. CASE Start \/ StopRequest \/ StopJoin
  BY <1>1, StartStopKeeps
<1>2. CASE ServerStep
  BY <1>2, ThreadKeeps
<1>3. CASE Tick
  BY <1>3, TickKeeps
<1>4. ASSUME NEW p \in Peers, Connect(p) \/ SendUnit(p) \/ Disconnect(p) \/ ReadReply(p)
      PROVE  ServerInv'
  BY <1>4, ConnectKeeps, SendKeeps, DisconnectKeeps, ReadKeeps
<1>5. CASE UNCHANGED vars
  <2>1. UNCHANGED <<spc, stop, life, polled, at, clients, peerVars, historyVars>>
    BY <1>5 DEF vars, serverVars
  <2>2. Round'
    BY <2>1 DEF ServerInv, Round
  <2> QED
    BY <2>1, <2>2, ControlKeeps DEF ServerInv, Kinds
<1> QED
  BY <1>1, <1>2, <1>3, <1>4, <1>5 DEF Next

\* Its reachable states.
LEMMA ServerIsSound == Spec => []ServerInv
BY ServerInit, ServerStepKeeps, PTL DEF Spec

\* A peer that is served has one slot, and Slot names it.
LEMMA SlotIs ==
    ASSUME ServerInv, NEW p \in Served
    PROVE  Slot(p) \in 1 .. Len(clients) /\ clients[Slot(p)].peer = p
<1>1. DOMAIN clients = 1 .. Len(clients)
  BY DEF ServerInv, Kinds
<1> QED
  BY <1>1 DEF Served, Slot

\* The slots, the queue and the events of a round agree, and the buffers keep
\* their limits, whatever peers do between two system calls of the thread.
THEOREM SlotsStayAligned == Spec => []SlotsAligned
<1>1. ServerInv => SlotsAligned
  <2> SUFFICES ASSUME ServerInv PROVE SlotsAligned
    OBVIOUS
  <2>0. DOMAIN clients = 1 .. Len(clients) /\ Len(clients) \in Nat
    BY DEF ServerInv, Kinds
  <2>1. clients \in Seq([peer : Peers, rxBuf : Seq(Units), txBuf : Seq(0 .. MaxSent),
                         closedByServer : BOOLEAN, age : 0 .. IdleTicks])
    BY DEF ServerInv, Kinds, ClientRecord, Marks
  <2>2. Served = {p \in Peers : conn[p] \in {"open", "fin", "reset"}}
    <3>1. Served \subseteq Peers
      <4>1. \A c \in ClientRecord : c.peer \in Peers
        BY DEF ClientRecord
      <4>2. \A i \in 1 .. Len(clients) : clients[i] \in ClientRecord
        BY DEF ServerInv, Kinds
      <4> QED
        BY <2>0, <4>1, <4>2 DEF Served
    <3> QED
      BY <3>1 DEF ServerInv, Slots
  <2>3. TypeOK
    <3>1. /\ spc \in {"off", "poll", "accept", "client", "recv", "split", "write"}
          /\ stop \in BOOLEAN /\ life \in {"new", "running", "stopping", "stopped"}
          /\ conn \in [Peers -> {"none", "pending", "open", "fin", "reset", "closed"}]
          /\ cut \subseteq Peers /\ dropped \subseteq Peers
      BY DEF ServerInv, Kinds
    <3>2. /\ Len(clients) <= kMaxClients
          /\ \A i, j \in DOMAIN clients : clients[i].peer = clients[j].peer => i = j
          /\ \A i \in DOMAIN clients :
                Len(clients[i].rxBuf) <= kMaxCmd /\ Len(clients[i].txBuf) <= kMaxOut
          /\ \A p \in Peers : Len(toPeer[p]) <= Window
      BY <2>0 DEF ServerInv, Slots, Limits
    <3> QED
      BY <2>1, <2>2, <3>1, <3>2 DEF TypeOK
  <2>4. DispatchAligned
    <3>1. ASSUME spc \in {"client", "recv", "split", "write"}, at <= Len(clients)
          PROVE  at <= Len(polled.clients) /\ polled.clients[at].peer = clients[at].peer
      <4>1. at \in 1 .. Len(clients)
        BY <2>0, <3>1 DEF ServerInv, Kinds
      <4> QED
        BY <3>1, <4>1 DEF ServerInv, Round
    <3> QED
      BY <3>1 DEF DispatchAligned
  <2> QED
    BY <2>3, <2>4 DEF SlotsAligned
<1> QED
  BY ServerIsSound, <1>1, PTL

\* However a peer's lines are split or glued, no unit of them is lost, repeated
\* or put into another line, unless the limit was hit.
THEOREM CommandsAreFramed == Spec => []CommandsFramed
<1>1. ServerInv => CommandsFramed
  <2> SUFFICES ASSUME ServerInv, NEW p \in Served \ cut
               PROVE  /\ FlattenSeq(handled[p]) \o clients[Slot(p)].rxBuf \o toServer[p] = sent[p]
                      /\ \A n \in DOMAIN handled[p] : \A i \in DOMAIN handled[p][n] :
                            handled[p][n][i].end <=> i = Len(handled[p][n])
    BY DEF CommandsFramed
  <2>1. Slot(p) \in 1 .. Len(clients) /\ clients[Slot(p)].peer = p
    BY SlotIs
  <2>2. Taken(handled[p], clients[Slot(p)].rxBuf, toServer[p], sent[p])
    BY <2>1 DEF ServerInv, Frames
  <2>3. handled[p] \in Seq(Seq(Units))
    <3>1. p \in Peers
      <4>1. \A c \in ClientRecord : c.peer \in Peers
        BY DEF ClientRecord
      <4> QED
        BY <2>1, <4>1 DEF ServerInv, Kinds
    <3> QED
      BY <3>1 DEF ServerInv, Kinds
  <2>4. \A n \in DOMAIN handled[p] : n \in 1 .. Len(handled[p])
                                     /\ DOMAIN handled[p][n] = 1 .. Len(handled[p][n])
    BY <2>3
  <2> QED
    BY <2>2, <2>4 DEF Taken, IsLine
<1> QED
  BY ServerIsSound, <1>1, PTL

\* A peer receives what answers its lines, in order and once, however late it
\* reads, unless the server has given it up.
THEOREM RepliesAreConserved == Spec => []RepliesConserved
<1>1. ServerInv => RepliesConserved
  <2> SUFFICES ASSUME ServerInv, NEW p \in Served \ dropped
               PROVE  got[p] \o toPeer[p] \o clients[Slot(p)].txBuf = owed[p]
    BY DEF RepliesConserved
  <2>1. Slot(p) \in 1 .. Len(clients) /\ clients[Slot(p)].peer = p
    BY SlotIs
  <2> QED
    BY <2>1 DEF ServerInv, Replies, Answered
<1> QED
  BY ServerIsSound, <1>1, PTL
=============================================================================
