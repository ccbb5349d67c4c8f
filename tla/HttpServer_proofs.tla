---------------------------- MODULE HttpServer_proofs ----------------------------
(***************************************************************************)
(* Proofs about the HTTP server.                                           *)
(*                                                                         *)
(* A connection is served with the entry of the array at its index, which  *)
(* may be another's.  That this closes no healthy connection rests on what *)
(* every entry can be: one that poll() wrote says error only together with *)
(* data, and one that it did not write belongs to a client accepted in     *)
(* this round, because closing moves clients to the front only.  That a    *)
(* connection dropped as idle has been silent rests on poll() timing out   *)
(* only when nothing is left to be read, for a unit on its way makes the   *)
(* peer less quiet than its slot is young.                                 *)
(***************************************************************************)
EXTENDS HttpServer, SequenceLemmas

Units == {"part", "end"}
ClientRecord == [peer : Peers, rxBuf : Seq(Units), age : 0 .. IdleTicks]

Kinds ==
    /\ spc \in {"off", "poll", "accept", "client"}
    /\ life \in {"new", "running", "stopping", "stopped"} /\ running = (life = "running")
    /\ clients \in Seq(ClientRecord)
    /\ polled \in Seq(SUBSET {"in", "err"})
    /\ at \in 1 .. kMaxClients + 1
    /\ conn \in [Peers -> {"none", "pending", "open", "fin", "reset", "closed"}]
    /\ backlog \in Seq(Peers)
    /\ toServer \in [Peers -> Seq(Units)]
    /\ quiet \in [Peers -> 0 .. IdleTicks]

\* Who has a slot, and who waits for one.
Slots ==
    /\ Len(clients) <= kMaxClients /\ Len(polled) <= kMaxClients
    /\ \A i, j \in 1 .. Len(clients) : clients[i].peer = clients[j].peer => i = j
    /\ \A p \in Peers : p \in Open <=> conn[p] \in {"open", "fin", "reset"}
    /\ \A i, j \in 1 .. Len(backlog) : backlog[i] = backlog[j] => i = j
    /\ \A p \in Peers : p \in ToSet(backlog) <=> conn[p] = "pending"

\* What is in a buffer is the beginning of a request.
Unread(c) == Len(c.rxBuf) <= kMaxRequest /\ ~Complete(c.rxBuf)
Buffers == \A i \in 1 .. Len(clients) : Unread(clients[i])

\* What the entry of a client can be.
Round ==
    /\ spc = "accept" => Len(polled) = Len(clients)
    /\ spc = "client" =>
          \A i \in 1 .. Len(clients) : i > Len(polled) => clients[i].peer \in unpolled
    /\ \A i \in 1 .. Len(polled) : "err" \in polled[i] => "in" \in polled[i]

\* A slot is older than its peer is quiet only while a unit is on its way.
Ages ==
    \A i \in 1 .. Len(clients) :
        toServer[clients[i].peer] = <<>> => clients[i].age <= quiet[clients[i].peer]

HttpInv == Kinds /\ Slots /\ Buffers /\ Round /\ Ages
-----------------------------------------------------------------------------
(* Steps that serve nobody.                                                 *)

\* The constants are numbers.
LEMMA Numbers ==
    /\ kMaxClients \in Nat \ {0} /\ kMaxRequest \in Nat \ {0}
    /\ RecvMax \in Nat \ {0} /\ IdleTicks \in Nat \ {0}
BY HttpAssumption

\* What a client is made of.
LEMMA ClientsAre ==
    ASSUME HttpInv
    PROVE  /\ Len(clients) \in Nat /\ DOMAIN clients = 1 .. Len(clients)
           /\ \A i \in 1 .. Len(clients) :
                 /\ clients[i] \in ClientRecord /\ clients[i].peer \in Peers
                 /\ clients[i].rxBuf \in Seq(Units) /\ clients[i].age \in 0 .. IdleTicks
<1>1. clients \in Seq(ClientRecord)
  BY DEF HttpInv, Kinds
<1>2. \A c \in ClientRecord :
        c.peer \in Peers /\ c.rxBuf \in Seq(Units) /\ c.age \in 0 .. IdleTicks
  BY DEF ClientRecord
<1> HIDE DEF ClientRecord
<1> QED
  BY <1>1, <1>2

\* Everything starts empty.
LEMMA HttpInit == Init => HttpInv
<1> SUFFICES ASSUME Init PROVE HttpInv
  OBVIOUS
<1>0. Len(<<>>) = 0 /\ 1 .. 0 = {} /\ \A S : <<>> \in Seq(S)
  OBVIOUS
<1>1. Kinds
  <2>1. /\ clients \in Seq(ClientRecord) /\ polled \in Seq(SUBSET {"in", "err"})
        /\ backlog \in Seq(Peers) /\ toServer \in [Peers -> Seq(Units)]
    BY <1>0 DEF Init
  <2>2. spc \in {"off", "poll", "accept", "client"}
        /\ life \in {"new", "running", "stopping", "stopped"}
    BY DEF Init
  <2>3. running = (life = "running")
    BY DEF Init
  <2>4. at \in 1 .. kMaxClients + 1 /\ quiet \in [Peers -> 0 .. IdleTicks]
    BY Numbers DEF Init
  <2>5. conn \in [Peers -> {"none", "pending", "open", "fin", "reset", "closed"}]
    BY DEF Init
  <2> QED
    BY <2>1, <2>2, <2>3, <2>4, <2>5 DEF Kinds
<1>2. Slots
  <2>1. Open = {} /\ ToSet(backlog) = {}
    BY <1>0 DEF Init, Open, ToSet
  <2> QED
    BY <1>0, <2>1, Numbers DEF Init, Slots
<1>3. Buffers /\ Round /\ Ages
  BY <1>0 DEF Init, Buffers, Round, Ages
<1> QED
  BY <1>1, <1>2, <1>3 DEF HttpInv

\* The thread and stop() go on; no connection is touched.
LEMMA ControlKeeps ==
    ASSUME HttpInv, UNCHANGED <<clients, conn, backlog, toServer, quiet>>,
           spc' \in {"off", "poll", "accept", "client"},
           life' \in {"new", "running", "stopping", "stopped"}, running' = (life' = "running"),
           polled' \in Seq(SUBSET {"in", "err"}), Len(polled') <= kMaxClients,
           at' \in 1 .. kMaxClients + 1, Round'
    PROVE  HttpInv'
<1>1. Kinds'
  BY DEF HttpInv, Kinds
<1>2. Slots'
  BY DEF HttpInv, Slots, Open
<1>3. Buffers' /\ Ages'
  BY DEF HttpInv, Buffers, Ages
<1> QED
  BY <1>1, <1>2, <1>3 DEF HttpInv

\* The thread is started, and told to stop.
LEMMA StartStopKeeps ==
    ASSUME HttpInv, Start \/ StopRequest
    PROVE  HttpInv'
<1>1. UNCHANGED <<clients, polled, at, conn, backlog, toServer, quiet>>
  BY DEF Start, StopRequest, peerVars, historyVars
<1>2. /\ spc' \in {"off", "poll", "accept", "client"}
      /\ life' \in {"new", "running", "stopping", "stopped"}
  BY DEF Start, StopRequest, HttpInv, Kinds
<1>3. running' = (life' = "running")
  BY DEF Start, StopRequest
<1>4. Round'
  BY <1>1 DEF Start, StopRequest, historyVars, HttpInv, Round
<1>5. polled' \in Seq(SUBSET {"in", "err"}) /\ Len(polled') <= kMaxClients
      /\ at' \in 1 .. kMaxClients + 1
  BY <1>1 DEF HttpInv, Kinds, Slots
<1> QED
  BY <1>1, <1>2, <1>3, <1>4, <1>5, ControlKeeps

\* stop() closes what waits in the listener.
LEMMA JoinKeeps ==
    ASSUME HttpInv, StopJoin
    PROVE  HttpInv'
<1>0. Len(<<>>) = 0 /\ 1 .. 0 = {} /\ ToSet(<<>>) = {} /\ <<>> \in Seq(Peers)
  BY DEF ToSet
<1>1. /\ life = "stopping" /\ spc = "off" /\ life' = "stopped" /\ backlog' = <<>>
      /\ conn' = [p \in Peers |-> IF conn[p] = "pending" THEN "closed" ELSE conn[p]]
      /\ UNCHANGED <<spc, running, clients, polled, at, toServer, quiet, unpolled>>
  BY DEF StopJoin, historyVars
<1>2. \A p \in Peers :
        /\ conn'[p] \in {"none", "pending", "open", "fin", "reset", "closed"}
        /\ conn'[p] # "pending"
        /\ conn'[p] \in {"open", "fin", "reset"} <=> conn[p] \in {"open", "fin", "reset"}
  BY <1>1 DEF HttpInv, Kinds
<1>3. Kinds'
  <2>1. running' = (life' = "running")
    <3>1. ~running
      BY <1>1 DEF HttpInv, Kinds
    <3> QED
      BY <1>1, <3>1 DEF HttpInv, Kinds
  <2>2. conn' \in [Peers -> {"none", "pending", "open", "fin", "reset", "closed"}]
    BY <1>1, <1>2
  <2> QED
    BY <1>0, <1>1, <2>1, <2>2 DEF HttpInv, Kinds
<1>4. Slots'
  <2>1. Open' = Open /\ ToSet(backlog)' = {}
    BY <1>0, <1>1 DEF Open, ToSet
  <2>2. /\ \A i, j \in 1 .. Len(backlog') : backlog'[i] = backlog'[j] => i = j
        /\ \A p \in Peers : p \in ToSet(backlog)' <=> conn'[p] = "pending"
    BY <1>0, <1>1, <1>2, <2>1
  <2>3. \A p \in Peers : p \in Open' <=> conn'[p] \in {"open", "fin", "reset"}
    BY <1>2, <2>1 DEF HttpInv, Slots
  <2> QED
    BY <1>1, <2>2, <2>3 DEF HttpInv, Slots
<1>5. Buffers' /\ Round' /\ Ages'
  BY <1>1 DEF HttpInv, Buffers, Round, Ages
<1> QED
  BY <1>3, <1>4, <1>5 DEF HttpInv

\* poll() writes an entry for each client, and an error comes with data.
LEMMA PollKeeps ==
    ASSUME HttpInv, Poll
    PROVE  HttpInv'
<1> DEFINE r == [i \in DOMAIN clients |-> Revents(clients[i])]
<1>1. \A c : Revents(c) \in SUBSET {"in", "err"} /\ ("err" \in Revents(c) => "in" \in Revents(c))
  BY DEF Revents
<1>2. /\ r \in Seq(SUBSET {"in", "err"}) /\ Len(r) = Len(clients)
      /\ \A i \in 1 .. Len(r) : "err" \in r[i] => "in" \in r[i]
  BY <1>1, ClientsAre
<1> HIDE DEF r
<1>3. /\ polled' = r /\ spc' = "accept"
      /\ UNCHANGED <<running, life, clients, at, conn, backlog, toServer, quiet>>
  BY DEF Poll, r, peerVars, historyVars
<1>4. Round'
  BY <1>2, <1>3 DEF Round
<1>5. Len(polled') <= kMaxClients /\ polled' \in Seq(SUBSET {"in", "err"})
  BY <1>2, <1>3 DEF HttpInv, Slots
<1>6. /\ life' \in {"new", "running", "stopping", "stopped"} /\ at' \in 1 .. kMaxClients + 1
      /\ running' = (life' = "running")
  BY <1>3 DEF HttpInv, Kinds
<1> QED
  BY <1>3, <1>4, <1>5, <1>6, ControlKeeps

\* The round ends.
LEMMA EndKeeps ==
    ASSUME HttpInv, EndRound
    PROVE  HttpInv'
<1>1. /\ spc' = "poll" /\ polled' = <<>> /\ at' = 1
      /\ UNCHANGED <<running, life, clients, conn, backlog, toServer, quiet>>
  BY DEF EndRound, peerVars
<1>2. <<>> \in Seq(SUBSET {"in", "err"}) /\ Len(<<>>) = 0 /\ 1 .. 0 = {}
  OBVIOUS
<1>3. Round'
  BY <1>1, <1>2 DEF Round
<1>4. 0 <= kMaxClients /\ 1 \in 1 .. kMaxClients + 1
  BY Numbers
<1>5. /\ life' \in {"new", "running", "stopping", "stopped"} /\ running' = (life' = "running")
  BY <1>1 DEF HttpInv, Kinds
<1> QED
  BY <1>1, <1>2, <1>3, <1>4, <1>5, ControlKeeps
-----------------------------------------------------------------------------
(* Connections are closed, accepted and served.                             *)

\* Clients are closed, and those behind them move to the front.
LEMMA CloseKeeps ==
    ASSUME HttpInv, NEW indices, indices \subseteq 1 .. Len(clients), CloseClients(indices),
           UNCHANGED <<running, life, polled, backlog, unpolled>>,
           spc' \in {"off", "poll", "client"}, spc' = "client" => spc = "client",
           at' \in 1 .. kMaxClients + 1
    PROVE  HttpInv'
<1>0. PICK gone : gone = {clients[i].peer : i \in indices}
  OBVIOUS
<1>1. /\ clients' = Kept(clients, {c \in ToSet(clients) : c.peer \notin gone})
      /\ conn' = [p \in Peers |-> IF p \in gone THEN "closed" ELSE conn[p]]
      /\ toServer' = [p \in Peers |-> IF p \in gone THEN <<>> ELSE toServer[p]]
      /\ quiet' = [p \in Peers |-> IF p \in gone THEN 0 ELSE quiet[p]]
  BY <1>0 DEF CloseClients
<1>2. gone \subseteq Open
  BY <1>0, ClientsAre DEF Open
<1>3. /\ clients \in Seq(ClientRecord) /\ Len(clients) \in Nat
      /\ \A i, j \in 1 .. Len(clients) : clients[i].peer = clients[j].peer => i = j
  BY DEF HttpInv, Kinds, Slots
<1>4. /\ clients' \in Seq(ClientRecord) /\ Len(clients') <= Len(clients)
      /\ \A i, j \in 1 .. Len(clients') : clients'[i].peer = clients'[j].peer => i = j
      /\ \A i \in 1 .. Len(clients') :
            /\ clients'[i].peer \notin gone
            /\ \E k \in 1 .. Len(clients) : i <= k /\ clients'[i] = clients[k]
      /\ \A k \in 1 .. Len(clients) :
            clients[k].peer \notin gone => \E i \in 1 .. Len(clients') : clients'[i] = clients[k]
  <2>1. PICK s, t :
          /\ s = clients /\ t = clients'
          /\ s \in Seq(ClientRecord) /\ t = Kept(s, Others(s, gone))
          /\ \A i, j \in 1 .. Len(s) : s[i].peer = s[j].peer => i = j
    BY <1>1, <1>3 DEF Others
  <2> HIDE DEF ClientRecord
  <2>2. /\ t \in Seq(ClientRecord) /\ Len(t) <= Len(s)
        /\ \A i, j \in 1 .. Len(t) : t[i].peer = t[j].peer => i = j
        /\ \A i \in 1 .. Len(t) : t[i].peer \notin gone /\ \E k \in 1 .. Len(s) : t[i] = s[k]
        /\ \A k \in 1 .. Len(s) : s[k].peer \notin gone => \E i \in 1 .. Len(t) : t[i] = s[k]
    BY <2>1, ConnectionsLeft
  <2>3. \A i \in 1 .. Len(t) : \E k \in 1 .. Len(s) : i <= k /\ t[i] = s[k]
    BY <2>1, KeptMovesDown
  <2>4. \A i \in 1 .. Len(t) :
            t[i].peer \notin gone /\ \E k \in 1 .. Len(s) : i <= k /\ t[i] = s[k]
    BY <2>2, <2>3
  <2>5. /\ t \in Seq(ClientRecord) /\ Len(t) <= Len(s)
        /\ \A i, j \in 1 .. Len(t) : t[i].peer = t[j].peer => i = j
        /\ \A k \in 1 .. Len(s) : s[k].peer \notin gone => \E i \in 1 .. Len(t) : t[i] = s[k]
    BY <2>2
  <2> QED
    BY <2>1, <2>4, <2>5
<1>5. Len(clients') \in Nat
  BY <1>4
<1>6. Open' = Open \ gone
  <2>0. DOMAIN clients = 1 .. Len(clients) /\ DOMAIN clients' = 1 .. Len(clients')
    BY <1>3, <1>4
  <2>1. /\ \A p : p \in Open <=> \E i \in 1 .. Len(clients) : clients[i].peer = p
        /\ \A p : p \in Open' <=> \E i \in 1 .. Len(clients') : clients'[i].peer = p
    BY <2>0 DEF Open
  <2>2. ASSUME NEW p \in Open' PROVE p \in Open \ gone
    <3>1. PICK i \in 1 .. Len(clients') : clients'[i].peer = p
      BY <2>1, <2>2
    <3>2. PICK k \in 1 .. Len(clients) : clients'[i] = clients[k]
      BY <1>4
    <3>3. clients[k].peer = p /\ p \notin gone
      BY <1>4, <3>1, <3>2
    <3> QED
      BY <2>1, <3>3
  <2>3. ASSUME NEW p \in Open \ gone PROVE p \in Open'
    <3>1. PICK k \in 1 .. Len(clients) : p = clients[k].peer /\ clients[k].peer \notin gone
      BY <2>1
    <3>2. PICK i \in 1 .. Len(clients') : clients'[i] = clients[k]
      BY <1>4, <3>1
    <3> QED
      BY <2>1, <3>1, <3>2
  <2> QED
    BY <2>2, <2>3
<1>7. \A p \in gone : p \in Peers /\ conn[p] \in {"open", "fin", "reset"}
  <2>1. Open \subseteq Peers
    BY ClientsAre DEF Open
  <2> QED
    BY <1>2, <2>1 DEF HttpInv, Slots
<1>8. Kinds'
  <2>1. conn' \in [Peers -> {"none", "pending", "open", "fin", "reset", "closed"}]
    BY <1>1 DEF HttpInv, Kinds
  <2>2. toServer' \in [Peers -> Seq(Units)]
    <3>1. <<>> \in Seq(Units) /\ \A p \in Peers : toServer[p] \in Seq(Units)
      BY DEF HttpInv, Kinds
    <3> QED
      BY <1>1, <3>1
  <2>3. quiet' \in [Peers -> 0 .. IdleTicks]
    <3>1. 0 \in 0 .. IdleTicks /\ \A p \in Peers : quiet[p] \in 0 .. IdleTicks
      BY Numbers DEF HttpInv, Kinds
    <3> QED
      BY <1>1, <3>1
  <2>4. /\ spc' \in {"off", "poll", "accept", "client"} /\ running' = (life' = "running")
        /\ life' \in {"new", "running", "stopping", "stopped"}
        /\ polled' \in Seq(SUBSET {"in", "err"}) /\ backlog' \in Seq(Peers)
    BY DEF HttpInv, Kinds
  <2> HIDE DEF ClientRecord
  <2> QED
    BY <1>4, <2>1, <2>2, <2>3, <2>4 DEF Kinds
<1>9. Slots'
  <2>1. \A p \in Peers : p \in Open' <=> conn'[p] \in {"open", "fin", "reset"}
    BY <1>1, <1>6 DEF HttpInv, Slots
  <2>2. \A p \in Peers : conn'[p] = "pending" <=> conn[p] = "pending"
    BY <1>1, <1>7
  <2>3. ToSet(backlog)' = ToSet(backlog)
    BY DEF ToSet
  <2>4. Len(clients') <= kMaxClients
    BY <1>3, <1>4, <1>5, Numbers DEF HttpInv, Slots
  <2>5. /\ \A i, j \in 1 .. Len(backlog') : backlog'[i] = backlog'[j] => i = j
        /\ \A p \in Peers : p \in ToSet(backlog)' <=> conn'[p] = "pending"
        /\ Len(polled') <= kMaxClients
    BY <2>2, <2>3 DEF HttpInv, Slots
  <2> QED
    BY <1>4, <2>1, <2>4, <2>5 DEF Slots
<1>10. Buffers'
  <2>1. ASSUME NEW i \in 1 .. Len(clients') PROVE Unread(clients'[i])
    <3>1. PICK k \in 1 .. Len(clients) : clients'[i] = clients[k]
      BY <1>4
    <3> QED
      BY <3>1 DEF HttpInv, Buffers
  <2>2. \A i \in 1 .. Len(clients') : Unread(clients'[i])
    BY <2>1
  <2> QED
    BY <2>2 DEF Buffers, Unread, Complete
<1>11. Round'
  <2>1. ASSUME spc' = "client", NEW i \in 1 .. Len(clients'), i > Len(polled')
        PROVE  clients'[i].peer \in unpolled'
    <3>1. PICK k \in 1 .. Len(clients) : i <= k /\ clients'[i] = clients[k]
      BY <1>4
    <3>2. k > Len(polled)
      <4>1. Len(polled) \in Nat /\ i > Len(polled) /\ i \in Nat /\ k \in Nat
        BY <1>3, <1>5, <2>1 DEF HttpInv, Kinds
      <4> QED
        BY <3>1, <4>1
    <3> QED
      BY <2>1, <3>1, <3>2 DEF HttpInv, Round
  <2>2. \A i \in 1 .. Len(polled') : "err" \in polled'[i] => "in" \in polled'[i]
    BY DEF HttpInv, Round
  <2> QED
    BY <2>1, <2>2 DEF Round
<1>12. Ages'
  <2>1. ASSUME NEW i \in 1 .. Len(clients'), toServer'[clients'[i].peer] = <<>>
        PROVE  clients'[i].age <= quiet'[clients'[i].peer]
    <3>1. PICK k \in 1 .. Len(clients) : clients'[i] = clients[k]
      BY <1>4
    <3>2. PICK p \in Peers : p = clients[k].peer /\ p \notin gone
      BY <1>4, <3>1, ClientsAre
    <3>3. toServer'[p] = toServer[p] /\ quiet'[p] = quiet[p]
      BY <1>1, <3>2
    <3> QED
      BY <2>1, <3>1, <3>2, <3>3 DEF HttpInv, Ages
  <2> QED
    BY <2>1 DEF Ages
<1> QED
  BY <1>8, <1>9, <1>10, <1>11, <1>12 DEF HttpInv

\* A new client has the peer and nothing else.
LEMMA NewClientIs ==
    ASSUME NEW p \in Peers
    PROVE  /\ NewClient(p) \in ClientRecord /\ NewClient(p).peer = p
           /\ NewClient(p).age = 0 /\ Unread(NewClient(p))
<1>1. NewClient(p) \in ClientRecord
  BY Numbers DEF NewClient, ClientRecord
<1>2. Len(<<>>) = 0 /\ ToSet(<<>>) = {}
  BY DEF ToSet
<1> QED
  BY <1>1, <1>2, Numbers DEF NewClient, Unread, Complete

\* The peers at the head of the queue get the free slots.
LEMMA AcceptKeeps ==
    ASSUME HttpInv, Accept
    PROVE  HttpInv'
<1>0. PICK old \in Nat, m \in Nat : old = Len(clients) /\ m = Len(backlog)
  BY DEF HttpInv, Kinds
<1>1. PICK n, now, new :
        /\ n \in 0 .. m /\ old + n <= kMaxClients
        /\ now = SubSeq(backlog, 1, n)
        /\ new = [i \in DOMAIN now |-> NewClient(now[i])]
        /\ clients' = clients \o new
        /\ backlog' = SubSeq(backlog, n + 1, m)
        /\ conn' = [p \in Peers |-> IF p \in ToSet(now) THEN "open" ELSE conn[p]]
        /\ unpolled' = ToSet(now)
  <2> DEFINE n == IF ~listener THEN 0
                  ELSE IF Len(backlog) < FreeSlots THEN Len(backlog) ELSE FreeSlots
  <2>1. n \in 0 .. m /\ old + n <= kMaxClients
    <3>1. old <= kMaxClients
      BY <1>0 DEF HttpInv, Slots
    <3> QED
      BY <1>0, <3>1, Numbers DEF FreeSlots
  <2>2. LET now == SubSeq(backlog, 1, n)
        IN  /\ clients' = clients \o [i \in DOMAIN now |-> NewClient(now[i])]
            /\ backlog' = SubSeq(backlog, n + 1, m)
            /\ conn' = [p \in Peers |-> IF p \in ToSet(now) THEN "open" ELSE conn[p]]
            /\ unpolled' = ToSet(now)
    BY <1>0 DEF Accept
  <2> HIDE DEF n
  <2> QED
    BY <2>1, <2>2
<1>2. /\ spc = "accept" /\ spc' = "client"
      /\ UNCHANGED <<running, life, polled, at, toServer, quiet>>
  BY DEF Accept
<1>3. n \in Nat /\ n <= m
  BY <1>0, <1>1
<1>4. now \in Seq(Peers) /\ Len(now) = n /\ \A k \in 1 .. n : now[k] = backlog[k] /\ k \in 1 .. m
  <2>1. backlog \in Seq(Peers)
    BY DEF HttpInv, Kinds
  <2> QED
    BY <1>0, <1>1, <1>3, <2>1
<1>5. \A k \in 1 .. n : backlog[k] \in Peers
  BY <1>4
<1>6. new \in Seq(ClientRecord) /\ Len(new) = n /\ \A k \in 1 .. n : new[k] = NewClient(backlog[k])
  <2>1. DOMAIN now = 1 .. n
    BY <1>4
  <2>2. \A k \in 1 .. n : NewClient(now[k]) \in ClientRecord
    BY <1>4, <1>5, NewClientIs
  <2> HIDE DEF ClientRecord
  <2>3. new \in [1 .. n -> ClientRecord]
    BY <1>1, <2>1, <2>2
  <2> QED
    BY <1>1, <1>3, <1>4, <2>1, <2>3
<1>7. \A p : p \in ToSet(now) <=> \E k \in 1 .. n : backlog[k] = p
  <2>1. DOMAIN now = 1 .. n
    BY <1>4
  <2> QED
    BY <1>4, <2>1 DEF ToSet
<1>8. clients' \in Seq(ClientRecord) /\ Len(clients') = old + n /\ Len(clients') \in Nat
  <2> HIDE DEF ClientRecord
  <2>1. clients \in Seq(ClientRecord)
    BY DEF HttpInv, Kinds
  <2>2. clients \o new \in Seq(ClientRecord) /\ Len(clients \o new) = old + Len(new)
    BY <1>0, <1>6, <2>1
  <2> QED
    BY <1>0, <1>1, <1>3, <1>6, <2>2
<1>9. /\ \A i \in 1 .. old : clients'[i] = clients[i] /\ i \in 1 .. Len(clients')
      /\ \A k \in 1 .. n : clients'[old + k] = NewClient(backlog[k]) /\ old + k \in 1 .. Len(clients')
  <2>0. clients \in Seq(ClientRecord)
    BY DEF HttpInv, Kinds
  <2>1. \A i \in 1 .. old : (clients \o new)[i] = clients[i]
    BY <1>0, <1>6, <2>0
  <2>2. \A k \in 1 .. n : (clients \o new)[old + k] = new[k]
    BY <1>0, <1>3, <1>6, <2>0
  <2>3. /\ \A i \in 1 .. old : i \in 1 .. Len(clients')
        /\ \A k \in 1 .. n : old + k \in 1 .. Len(clients')
    BY <1>3, <1>8
  <2> QED
    BY <1>1, <1>6, <2>1, <2>2, <2>3
<1>10. \A i \in 1 .. Len(clients') : i \in 1 .. old \/ \E k \in 1 .. n : i = old + k
  <2>1. ASSUME NEW i \in 1 .. Len(clients'), i \notin 1 .. old PROVE i - old \in 1 .. n /\ i = old + (i - old)
    BY <1>3, <1>8, <2>1
  <2> QED
    BY <2>1
<1>11. \A i \in 1 .. old :
         /\ clients[i].peer \in Peers /\ clients[i].peer \in Open
         /\ conn[clients[i].peer] \in {"open", "fin", "reset"}
  <2>1. \A i \in 1 .. old : clients[i].peer \in Peers /\ clients[i].peer \in Open
    BY <1>0, ClientsAre DEF Open
  <2> QED
    BY <2>1 DEF HttpInv, Slots
<1>12. \A k \in 1 .. n : clients'[old + k].peer = backlog[k] /\ conn[backlog[k]] = "pending"
  <2>1. \A k \in 1 .. n : backlog[k] \in ToSet(backlog)
    <3>1. DOMAIN backlog = 1 .. m
      BY <1>0 DEF HttpInv, Kinds
    <3> QED
      BY <1>4, <3>1 DEF ToSet
  <2> QED
    BY <1>5, <1>9, <2>1, NewClientIs DEF HttpInv, Slots
<1>13. \A p \in Peers :
         /\ p \in ToSet(now) => conn'[p] = "open" /\ conn[p] = "pending"
         /\ p \notin ToSet(now) => conn'[p] = conn[p]
  <2>1. \A p \in Peers : conn'[p] = IF p \in ToSet(now) THEN "open" ELSE conn[p]
    BY <1>1
  <2>2. \A p \in Peers : p \in ToSet(now) => conn[p] = "pending"
    BY <1>7, <1>12
  <2> QED
    BY <2>1, <2>2
<1>14. /\ backlog' \in Seq(Peers) /\ Len(backlog') = m - n
       /\ \A i \in 1 .. m - n : backlog'[i] = backlog[n + i] /\ n + i \in 1 .. m /\ i \in Nat
  <2>1. backlog \in Seq(Peers)
    BY DEF HttpInv, Kinds
  <2> QED
    BY <1>0, <1>1, <1>3, <2>1
<1>15. Kinds'
  <2>1. conn' \in [Peers -> {"none", "pending", "open", "fin", "reset", "closed"}]
    <3>1. \A p \in Peers : conn[p] \in {"none", "pending", "open", "fin", "reset", "closed"}
      BY DEF HttpInv, Kinds
    <3> QED
      BY <1>1, <3>1
  <2> HIDE DEF ClientRecord
  <2> QED
    BY <1>2, <1>8, <1>14, <2>1 DEF HttpInv, Kinds
<1>16. Slots'
  <2>1. Len(clients') <= kMaxClients /\ Len(polled') <= kMaxClients
    BY <1>1, <1>2, <1>8 DEF HttpInv, Slots
  <2>2. ASSUME NEW i \in 1 .. Len(clients'), NEW j \in 1 .. Len(clients'),
               clients'[i].peer = clients'[j].peer
        PROVE  i = j
    <3>1. CASE i \in 1 .. old /\ j \in 1 .. old
      BY <1>0, <1>9, <2>2, <3>1 DEF HttpInv, Slots
    <3>2. CASE i \in 1 .. old /\ j \notin 1 .. old
      <4>1. PICK k \in 1 .. n : j = old + k
        BY <1>10, <3>2
      <4>2. clients[i].peer = backlog[k] /\ conn[backlog[k]] = "pending"
        BY <1>9, <1>12, <2>2, <3>2, <4>1
      <4> QED
        BY <1>11, <3>2, <4>2
    <3>3. CASE i \notin 1 .. old /\ j \in 1 .. old
      <4>1. PICK k \in 1 .. n : i = old + k
        BY <1>10, <3>3
      <4>2. clients[j].peer = backlog[k] /\ conn[backlog[k]] = "pending"
        BY <1>9, <1>12, <2>2, <3>3, <4>1
      <4> QED
        BY <1>11, <3>3, <4>2
    <3>4. CASE i \notin 1 .. old /\ j \notin 1 .. old
      <4>1. PICK k \in 1 .. n : i = old + k
        BY <1>10, <3>4
      <4>2. PICK l \in 1 .. n : j = old + l
        BY <1>10, <3>4
      <4>3. backlog[k] = backlog[l] /\ k \in 1 .. m /\ l \in 1 .. m
        BY <1>4, <1>12, <2>2, <4>1, <4>2
      <4> QED
        BY <1>0, <4>1, <4>2, <4>3 DEF HttpInv, Slots
    <3> QED
      BY <3>1, <3>2, <3>3, <3>4
  <2>3. ASSUME NEW p \in Peers PROVE p \in Open' <=> conn'[p] \in {"open", "fin", "reset"}
    <3>0. DOMAIN clients = 1 .. old /\ DOMAIN clients' = 1 .. Len(clients')
      BY <1>0, <1>8, ClientsAre
    <3>1. p \in Open' <=> \E i \in 1 .. Len(clients') : clients'[i].peer = p
      BY <3>0 DEF Open
    <3>2. p \in Open <=> \E i \in 1 .. old : clients[i].peer = p
      BY <3>0 DEF Open
    <3>3. ASSUME p \in Open' PROVE p \in Open \/ p \in ToSet(now)
      <4>1. PICK i \in 1 .. Len(clients') : clients'[i].peer = p
        BY <3>1, <3>3
      <4>2. CASE i \in 1 .. old
        BY <1>9, <3>2, <4>1, <4>2
      <4>3. CASE i \notin 1 .. old
        <5>1. PICK k \in 1 .. n : i = old + k
          BY <1>10, <4>3
        <5>2. backlog[k] = p
          BY <1>12, <4>1, <5>1
        <5> QED
          BY <1>7, <5>2
      <4> QED
        BY <4>2, <4>3
    <3>4. p \in Open => p \in Open'
      BY <1>9, <3>1, <3>2
    <3>5. ASSUME p \in ToSet(now) PROVE p \in Open'
      <4>1. PICK k \in 1 .. n : backlog[k] = p
        BY <1>7, <3>5
      <4>2. clients'[old + k].peer = p /\ old + k \in 1 .. Len(clients')
        BY <1>9, <1>12, <4>1
      <4> QED
        BY <3>1, <4>2
    <3>6. p \in Open <=> conn[p] \in {"open", "fin", "reset"}
      BY DEF HttpInv, Slots
    <3> QED
      BY <1>13, <3>3, <3>4, <3>5, <3>6
  <2>4. \A i, j \in 1 .. Len(backlog') : backlog'[i] = backlog'[j] => i = j
    <3>1. ASSUME NEW i \in 1 .. m - n, NEW j \in 1 .. m - n, backlog[n + i] = backlog[n + j]
          PROVE  i = j
      <4>1. n + i = n + j
        BY <1>0, <1>14, <3>1 DEF HttpInv, Slots
      <4> QED
        BY <1>3, <1>14, <4>1
    <3> QED
      BY <1>14, <3>1
  <2>5. ASSUME NEW p \in Peers PROVE p \in ToSet(backlog)' <=> conn'[p] = "pending"
    <3>0. DOMAIN backlog = 1 .. m /\ DOMAIN backlog' = 1 .. m - n
      <4>1. backlog \in Seq(Peers)
        BY DEF HttpInv, Kinds
      <4> QED
        BY <1>0, <1>14, <4>1
    <3>1. /\ p \in ToSet(backlog) <=> \E i \in 1 .. m : backlog[i] = p
          /\ p \in ToSet(backlog)' <=> \E i \in 1 .. m - n : backlog'[i] = p
      BY <3>0 DEF ToSet
    <3>2. p \in ToSet(backlog) <=> conn[p] = "pending"
      BY DEF HttpInv, Slots
    <3>3. ASSUME p \in ToSet(backlog)' PROVE p \in ToSet(backlog) /\ p \notin ToSet(now)
      <4>1. PICK i \in 1 .. m - n : backlog[n + i] = p
        BY <1>14, <3>1, <3>3
      <4>2. p \in ToSet(backlog)
        BY <1>14, <3>1, <4>1
      <4>3. ASSUME NEW k \in 1 .. n, backlog[k] = p PROVE FALSE
        <5>1. k = n + i
          BY <1>0, <1>4, <1>14, <4>1, <4>3 DEF HttpInv, Slots
        <5> QED
          BY <1>3, <1>14, <5>1
      <4> QED
        BY <1>7, <4>2, <4>3
    <3>4. ASSUME p \in ToSet(backlog), p \notin ToSet(now) PROVE p \in ToSet(backlog)'
      <4>1. PICK i \in 1 .. m : backlog[i] = p
        BY <3>1, <3>4
      <4>2. i \notin 1 .. n
        BY <1>7, <3>4, <4>1
      <4>3. i - n \in 1 .. m - n /\ n + (i - n) = i
        BY <1>3, <4>2
      <4> QED
        BY <1>14, <3>1, <4>1, <4>3
    <3> QED
      BY <1>13, <3>2, <3>3, <3>4
  <2> QED
    BY <2>1, <2>2, <2>3, <2>4, <2>5 DEF Slots
<1>17. Buffers'
  <2>1. ASSUME NEW i \in 1 .. Len(clients') PROVE Unread(clients'[i])
    <3>1. CASE i \in 1 .. old
      BY <1>0, <1>9, <3>1 DEF HttpInv, Buffers
    <3>2. CASE i \notin 1 .. old
      <4>1. PICK k \in 1 .. n : i = old + k
        BY <1>10, <3>2
      <4>2. PICK p \in Peers : p = backlog[k]
        BY <1>5
      <4>3. Unread(NewClient(p))
        BY NewClientIs
      <4> QED
        BY <1>9, <4>1, <4>2, <4>3
    <3> QED
      BY <3>1, <3>2
  <2> QED
    BY <2>1 DEF Buffers, Unread, Complete
<1>18. Round'
  <2>1. ASSUME NEW i \in 1 .. Len(clients'), i > Len(polled') PROVE clients'[i].peer \in unpolled'
    <3>1. i \notin 1 .. old
      BY <1>0, <1>2, <2>1 DEF HttpInv, Round
    <3>2. PICK k \in 1 .. n : i = old + k
      BY <1>10, <3>1
    <3> QED
      BY <1>1, <1>7, <1>12, <3>2
  <2> QED
    BY <1>2, <2>1 DEF HttpInv, Round
<1>19. Ages'
  <2>1. ASSUME NEW i \in 1 .. Len(clients'), toServer'[clients'[i].peer] = <<>>
        PROVE  clients'[i].age <= quiet'[clients'[i].peer]
    <3>1. CASE i \in 1 .. old
      BY <1>0, <1>2, <1>9, <2>1, <3>1 DEF HttpInv, Ages
    <3>2. CASE i \notin 1 .. old
      <4>1. PICK k \in 1 .. n : i = old + k
        BY <1>10, <3>2
      <4>2. clients'[i].peer = backlog[k] /\ clients'[i].age = 0
        BY <1>5, <1>9, <4>1, NewClientIs
      <4>3. quiet[backlog[k]] \in 0 .. IdleTicks
        BY <1>5 DEF HttpInv, Kinds
      <4> QED
        BY <1>2, <4>2, <4>3, Numbers
    <3> QED
      BY <3>1, <3>2
  <2> QED
    BY <2>1 DEF Ages
<1> QED
  BY <1>15, <1>16, <1>17, <1>18, <1>19 DEF HttpInv

\* What a client has received joins its buffer, and makes it young.
LEMMA ReceiveKeeps ==
    ASSUME HttpInv, spc = "client", at <= Len(clients), NEW n \in 1 .. Len(toServer[Peer]),
           NEW rx, rx = Client.rxBuf \o SubSeq(toServer[Peer], 1, n),
           Len(rx) <= kMaxRequest, ~Complete(rx),
           toServer' = [toServer EXCEPT ![Peer] = SubSeq(@, n + 1, Len(@))],
           clients' = [clients EXCEPT ![at].rxBuf = rx, ![at].age = 0],
           at' = at + 1,
           UNCHANGED <<spc, running, life, polled, conn, backlog, quiet, unpolled>>
    PROVE  HttpInv'
<1>1. /\ Len(clients) \in Nat /\ at \in 1 .. Len(clients) /\ clients \in Seq(ClientRecord)
      /\ Client \in ClientRecord /\ Client.rxBuf \in Seq(Units)
  <2>1. at \in 1 .. Len(clients)
    BY ClientsAre DEF HttpInv, Kinds
  <2> QED
    BY <2>1, ClientsAre DEF Client, HttpInv, Kinds
<1>2. PICK p \in Peers, ts \in Seq(Units) : p = Peer /\ ts = toServer[p] /\ p = clients[at].peer
  <2>1. Peer \in Peers /\ toServer[Peer] \in Seq(Units)
    BY <1>1, ClientsAre DEF Peer, Client, HttpInv, Kinds
  <2> QED
    BY <2>1 DEF Peer, Client
<1>3. PICK c \in ClientRecord : c = [Client EXCEPT !.rxBuf = rx, !.age = 0]
  <2>1. SubSeq(ts, 1, n) \in Seq(Units)
    BY <1>2, SMTT(30)
  <2>2. rx \in Seq(Units)
    BY <1>1, <1>2, <2>1
  <2>3. PICK k \in ClientRecord : k = [Client EXCEPT !.rxBuf = rx]
    <3>1. [Client EXCEPT !.rxBuf = rx] \in ClientRecord
      BY <1>1, <2>2 DEF ClientRecord
    <3> QED
      BY <3>1
  <2>4. [k EXCEPT !.age = 0] \in ClientRecord
    <3>1. 0 \in 0 .. IdleTicks
      BY Numbers
    <3> QED
      BY <3>1 DEF ClientRecord
  <2> QED
    BY <2>3, <2>4
<1>4. c.peer = p /\ c.rxBuf = rx /\ c.age = 0
  BY <1>1, <1>2, <1>3 DEF ClientRecord, Client
<1>5. clients' = [clients EXCEPT ![at] = c]
  BY <1>1, <1>3 DEF Client
<1>6. /\ clients' \in Seq(ClientRecord) /\ Len(clients') = Len(clients) /\ clients'[at] = c
      /\ \A i \in 1 .. Len(clients) : i # at => clients'[i] = clients[i]
      /\ DOMAIN clients' = 1 .. Len(clients)
  <2> HIDE DEF ClientRecord
  <2> DEFINE s == clients
             t == clients'
  <2>1. s \in Seq(ClientRecord) /\ at \in 1 .. Len(s) /\ t = [s EXCEPT ![at] = c]
    BY <1>1, <1>5
  <2> HIDE DEF s, t
  <2>2. /\ t \in Seq(ClientRecord) /\ Len(t) = Len(s) /\ t[at] = c
        /\ \A i \in 1 .. Len(s) : i # at => t[i] = s[i]
    BY <2>1, Replaced
  <2>3. DOMAIN t = 1 .. Len(s)
    BY <2>2
  <2> QED
    BY <2>2, <2>3 DEF s, t
<1>7. \A i \in 1 .. Len(clients) : clients'[i].peer = clients[i].peer
  BY <1>2, <1>4, <1>6
<1>8. /\ toServer' \in [Peers -> Seq(Units)]
      /\ \A q \in Peers : q # p => toServer'[q] = toServer[q]
  <2>1. SubSeq(ts, n + 1, Len(ts)) \in Seq(Units)
    BY <1>2, SMTT(30)
  <2> QED
    BY <1>2, <2>1 DEF HttpInv, Kinds
<1>9. Kinds'
  <2>1. at' \in 1 .. kMaxClients + 1
    <3>1. at' = at + 1 /\ at \in Nat \ {0} /\ at <= Len(clients)
      BY <1>1
    <3>2. Len(clients) <= kMaxClients
      BY DEF HttpInv, Slots
    <3> QED
      BY <1>1, <3>1, <3>2, Numbers, SMTT(30)
  <2> HIDE DEF ClientRecord
  <2> QED
    BY <1>6, <1>8, <2>1 DEF HttpInv, Kinds
<1>10. Slots'
  <2>1. Open' = Open
    BY <1>6, <1>7, ClientsAre DEF Open
  <2>2. ToSet(backlog)' = ToSet(backlog)
    BY DEF ToSet
  <2> QED
    BY <1>6, <1>7, <2>1, <2>2 DEF HttpInv, Slots
<1>11. Buffers'
  <2>1. ASSUME NEW i \in 1 .. Len(clients') PROVE Unread(clients'[i])
    <3>1. CASE i = at
      BY <1>4, <1>6, <3>1 DEF Unread
    <3>2. CASE i # at
      BY <1>6, <3>2 DEF HttpInv, Buffers
    <3> QED
      BY <3>1, <3>2
  <2> QED
    BY <2>1 DEF Buffers, Unread, Complete
<1>12. Round'
  BY <1>6, <1>7 DEF HttpInv, Round
<1>13. Ages'
  <2>1. ASSUME NEW i \in 1 .. Len(clients'), toServer'[clients'[i].peer] = <<>>
        PROVE  clients'[i].age <= quiet'[clients'[i].peer]
    <3>1. CASE i = at
      <4>1. quiet[p] \in 0 .. IdleTicks
        BY DEF HttpInv, Kinds
      <4>2. clients'[i].peer = p /\ clients'[i].age = 0 /\ quiet' = quiet
        BY <1>4, <1>6, <3>1
      <4>3. 0 <= quiet[p]
        BY <4>1, Numbers
      <4> QED
        BY <4>2, <4>3
    <3>2. CASE i # at
      <4>1. i \in 1 .. Len(clients) /\ clients'[i] = clients[i]
        BY <1>6, <3>2
      <4>2. clients[i].peer \in Peers /\ clients[i].peer # p
        BY <1>1, <1>2, <3>2, <4>1, ClientsAre DEF HttpInv, Slots
      <4> QED
        BY <1>8, <2>1, <4>1, <4>2 DEF HttpInv, Ages
    <3> QED
      BY <3>1, <3>2
  <2> QED
    BY <2>1 DEF Ages
<1> QED
  BY <1>9, <1>10, <1>11, <1>12, <1>13 DEF HttpInv

\* One client is served, with whatever its entry says.
LEMMA ServeKeeps ==
    ASSUME HttpInv, Serve
    PROVE  HttpInv'
<1>1. /\ spc = "client" /\ at \in 1 .. Len(clients) /\ at <= Len(clients)
      /\ UNCHANGED <<spc, running, life, polled, backlog, unpolled>>
  BY ClientsAre DEF Serve, HttpInv, Kinds
<1>2. at \in 1 .. kMaxClients + 1 /\ at + 1 \in 1 .. kMaxClients + 1
  BY <1>1, ClientsAre, Numbers DEF HttpInv, Slots
<1>3. CASE CloseClients({at}) /\ at' \in {at, at + 1}
  BY <1>1, <1>2, <1>3, CloseKeeps
<1>4. CASE SkipClient
  <2>1. /\ at' = at + 1 /\ UNCHANGED <<clients, conn, toServer, quiet>>
    BY <1>4 DEF SkipClient
  <2>2. Round'
    BY <1>1, <2>1 DEF HttpInv, Round
  <2> QED
    BY <1>1, <1>2, <2>1, <2>2, ControlKeeps DEF HttpInv, Kinds, Slots
<1>5. ASSUME NEW n \in 1 .. RecvMax, n <= Len(toServer[Peer]), ReceiveData(n)
      PROVE  HttpInv'
  <2> DEFINE rx == Client.rxBuf \o SubSeq(toServer[Peer], 1, n)
  <2>1. CASE CloseClients({at}) /\ at' \in {at, at + 1}
    BY <1>3, <2>1
  <2>2. CASE /\ Len(rx) <= kMaxRequest /\ ~Complete(rx)
             /\ toServer' = [toServer EXCEPT ![Peer] = SubSeq(@, n + 1, Len(@))]
             /\ clients' = [clients EXCEPT ![at].rxBuf = rx, ![at].age = 0]
             /\ at' = at + 1
             /\ UNCHANGED <<conn, quiet>>
    <3>1. n \in 1 .. Len(toServer[Peer])
      <4>1. Len(toServer[Peer]) \in Nat
        BY <1>1, ClientsAre DEF Peer, Client, HttpInv, Kinds
      <4> QED
        BY <1>5, <4>1
    <3> QED
      BY <1>1, <2>2, <3>1, ReceiveKeeps
  <2> QED
    BY <1>5, <2>1, <2>2 DEF ReceiveData
<1> QED
  BY <1>3, <1>4, <1>5 DEF Serve, CloseClient
-----------------------------------------------------------------------------
(* The peers and the clock.                                                 *)

\* A peer connects: it waits at the end of the queue.
LEMMA ConnectKeeps ==
    ASSUME HttpInv, NEW p \in Peers, Connect(p)
    PROVE  HttpInv'
<1>1. /\ conn[p] = "none" /\ conn' = [conn EXCEPT ![p] = "pending"]
      /\ backlog' = Append(backlog, p)
      /\ UNCHANGED <<spc, running, life, clients, polled, at, toServer, quiet, unpolled>>
  BY DEF Connect, serverVars, historyVars
<1>2. PICK m \in Nat : backlog \in Seq(Peers) /\ m = Len(backlog)
  BY DEF HttpInv, Kinds
<1>3. /\ conn' \in [Peers -> {"none", "pending", "open", "fin", "reset", "closed"}]
      /\ conn'[p] = "pending" /\ \A q \in Peers : q # p => conn'[q] = conn[q]
  BY <1>1 DEF HttpInv, Kinds
<1>4. /\ backlog' \in Seq(Peers) /\ Len(backlog') = m + 1 /\ backlog'[m + 1] = p
      /\ \A i \in 1 .. m : backlog'[i] = backlog[i] /\ i \in 1 .. m + 1
      /\ \A i \in 1 .. m + 1 : i \in 1 .. m \/ i = m + 1
  BY <1>1, <1>2
<1>5. DOMAIN backlog = 1 .. m /\ DOMAIN backlog' = 1 .. m + 1 /\ m + 1 \in 1 .. m + 1
  BY <1>2, <1>4
<1>6. /\ \A q : q \in ToSet(backlog) <=> \E i \in 1 .. m : backlog[i] = q
      /\ \A q : q \in ToSet(backlog)' <=> \E i \in 1 .. m + 1 : backlog'[i] = q
  BY <1>5 DEF ToSet
<1>7. p \notin ToSet(backlog)
  BY <1>1 DEF HttpInv, Slots
<1>8. Kinds'
  BY <1>1, <1>3, <1>4 DEF HttpInv, Kinds
<1>9. Slots'
  <2>1. Open' = Open
    BY <1>1 DEF Open
  <2>2. \A q \in Peers : q \in Open' <=> conn'[q] \in {"open", "fin", "reset"}
    BY <1>1, <1>3, <2>1 DEF HttpInv, Slots
  <2>3. \A i, j \in 1 .. Len(backlog') : backlog'[i] = backlog'[j] => i = j
    <3>1. \A i, j \in 1 .. m : backlog[i] = backlog[j] => i = j
      BY <1>2 DEF HttpInv, Slots
    <3>2. \A i \in 1 .. m : backlog'[i] # p
      BY <1>4, <1>6, <1>7
    <3> QED
      BY <1>4, <3>1, <3>2
  <2>4. \A q \in Peers : q \in ToSet(backlog)' <=> q \in ToSet(backlog) \/ q = p
    BY <1>4, <1>5, <1>6
  <2>5. \A q \in Peers : q \in ToSet(backlog)' <=> conn'[q] = "pending"
    BY <1>3, <2>4 DEF HttpInv, Slots
  <2> QED
    BY <1>1, <2>2, <2>3, <2>5 DEF HttpInv, Slots
<1>10. Buffers' /\ Round' /\ Ages'
  BY <1>1 DEF HttpInv, Buffers, Round, Ages
<1> QED
  BY <1>8, <1>9, <1>10 DEF HttpInv

\* A peer sends: it is no longer quiet, and its unit is on the way.
LEMMA SendKeeps ==
    ASSUME HttpInv, NEW p \in Peers, SendUnit(p)
    PROVE  HttpInv'
<1>1. PICK u \in Units : toServer' = [toServer EXCEPT ![p] = Append(@, u)]
  BY DEF SendUnit, Units
<1>2. /\ quiet' = [quiet EXCEPT ![p] = 0]
      /\ UNCHANGED <<spc, running, life, clients, polled, at, conn, backlog, unpolled>>
  BY DEF SendUnit, serverVars
<1>3. /\ toServer' \in [Peers -> Seq(Units)] /\ toServer'[p] # <<>>
      /\ \A q \in Peers : q # p => toServer'[q] = toServer[q]
  <2>1. PICK ts \in Seq(Units) : ts = toServer[p]
    BY DEF HttpInv, Kinds
  <2>2. Append(ts, u) \in Seq(Units) /\ Append(ts, u) # <<>>
    <3>1. Append(ts, u) \in Seq(Units) /\ Len(Append(ts, u)) = Len(ts) + 1 /\ Len(ts) \in Nat
      OBVIOUS
    <3>2. Len(<<>>) = 0 /\ Len(ts) + 1 # 0
      BY <3>1
    <3> QED
      BY <3>1, <3>2
  <2>3. toServer \in [Peers -> Seq(Units)]
    BY DEF HttpInv, Kinds
  <2> QED
    BY <1>1, <2>1, <2>2, <2>3
<1>4. quiet' \in [Peers -> 0 .. IdleTicks] /\ \A q \in Peers : q # p => quiet'[q] = quiet[q]
  <2>1. 0 \in 0 .. IdleTicks
    BY Numbers
  <2> QED
    BY <1>2, <2>1 DEF HttpInv, Kinds
<1>5. Kinds'
  BY <1>2, <1>3, <1>4 DEF HttpInv, Kinds
<1>6. Slots'
  BY <1>2 DEF HttpInv, Slots, Open, ToSet
<1>7. Buffers' /\ Round'
  BY <1>2 DEF HttpInv, Buffers, Round
<1>8. Ages'
  <2>1. ASSUME NEW i \in 1 .. Len(clients), toServer'[clients[i].peer] = <<>>
        PROVE  clients[i].age <= quiet'[clients[i].peer]
    <3>1. clients[i].peer \in Peers /\ clients[i].peer # p
      BY <1>3, <2>1, ClientsAre
    <3> QED
      BY <1>3, <1>4, <2>1, <3>1 DEF HttpInv, Ages
  <2> QED
    BY <1>2, <2>1 DEF Ages
<1> QED
  BY <1>5, <1>6, <1>7, <1>8 DEF HttpInv

\* A peer ends its side, or breaks the connection.
LEMMA DisconnectKeeps ==
    ASSUME HttpInv, NEW p \in Peers, Disconnect(p)
    PROVE  HttpInv'
<1>1. PICK how \in {"fin", "reset"} : conn' = [conn EXCEPT ![p] = how]
  BY DEF Disconnect
<1>2. /\ conn[p] = "open"
      /\ UNCHANGED <<spc, running, life, clients, polled, at, backlog, toServer, quiet, unpolled>>
  BY DEF Disconnect, serverVars, historyVars
<1>3. /\ conn' \in [Peers -> {"none", "pending", "open", "fin", "reset", "closed"}]
      /\ conn'[p] \in {"fin", "reset"} /\ \A q \in Peers : q # p => conn'[q] = conn[q]
  BY <1>1 DEF HttpInv, Kinds
<1>4. Kinds'
  BY <1>2, <1>3 DEF HttpInv, Kinds
<1>5. Slots'
  <2>1. Open' = Open /\ ToSet(backlog)' = ToSet(backlog)
    BY <1>2 DEF Open, ToSet
  <2>2. \A q \in Peers : q \in Open' <=> conn'[q] \in {"open", "fin", "reset"}
    BY <1>2, <1>3, <2>1 DEF HttpInv, Slots
  <2>3. \A q \in Peers : q \in ToSet(backlog)' <=> conn'[q] = "pending"
    BY <1>2, <1>3, <2>1 DEF HttpInv, Slots
  <2> QED
    BY <1>2, <2>2, <2>3 DEF HttpInv, Slots
<1>6. Buffers' /\ Round' /\ Ages'
  BY <1>2 DEF HttpInv, Buffers, Round, Ages
<1> QED
  BY <1>4, <1>5, <1>6 DEF HttpInv

\* Time passes for the slots and for their peers alike.
LEMMA TickKeeps ==
    ASSUME HttpInv, Tick
    PROVE  HttpInv'
<1> DEFINE Older(c) == [c EXCEPT !.age = IF @ < IdleTicks THEN @ + 1 ELSE @]
<1>1. \A c \in ClientRecord :
        /\ Older(c) \in ClientRecord
        /\ Older(c).peer = c.peer /\ Older(c).rxBuf = c.rxBuf
        /\ Older(c).age = (IF c.age < IdleTicks THEN c.age + 1 ELSE c.age)
  <2>1. ASSUME NEW c \in ClientRecord
        PROVE  /\ Older(c) \in ClientRecord
               /\ Older(c).peer = c.peer /\ Older(c).rxBuf = c.rxBuf
               /\ Older(c).age = (IF c.age < IdleTicks THEN c.age + 1 ELSE c.age)
    <3>1. c.age \in 0 .. IdleTicks
      BY DEF ClientRecord
    <3>2. (IF c.age < IdleTicks THEN c.age + 1 ELSE c.age) \in 0 .. IdleTicks
      BY <3>1, Numbers
    <3> QED
      BY <3>2 DEF ClientRecord
  <2> QED
    BY <2>1
<1>2. /\ clients' = [i \in DOMAIN clients |-> Older(clients[i])]
      /\ quiet' = [p \in Peers |->
                     IF p \in Open /\ quiet[p] < IdleTicks THEN quiet[p] + 1 ELSE quiet[p]]
      /\ UNCHANGED <<spc, running, life, polled, at, conn, backlog, toServer, unpolled>>
  BY DEF Tick, peerVars
<1> HIDE DEF Older
<1>3. /\ clients' \in Seq(ClientRecord) /\ Len(clients') = Len(clients)
      /\ DOMAIN clients' = 1 .. Len(clients)
      /\ \A i \in 1 .. Len(clients) : clients'[i] = Older(clients[i])
  <2>1. \A i \in 1 .. Len(clients) : Older(clients[i]) \in ClientRecord
    BY <1>1, ClientsAre
  <2> HIDE DEF ClientRecord
  <2> QED
    BY <1>2, <2>1, ClientsAre
<1>4. \A i \in 1 .. Len(clients) :
        /\ clients'[i].peer = clients[i].peer /\ clients'[i].rxBuf = clients[i].rxBuf
        /\ clients'[i].age =
              (IF clients[i].age < IdleTicks THEN clients[i].age + 1 ELSE clients[i].age)
  BY <1>1, <1>3, ClientsAre
<1>5. quiet' \in [Peers -> 0 .. IdleTicks]
  <2>1. \A p \in Peers : quiet[p] \in 0 .. IdleTicks
    BY DEF HttpInv, Kinds
  <2>2. \A p \in Peers : (IF p \in Open /\ quiet[p] < IdleTicks THEN quiet[p] + 1 ELSE quiet[p])
                            \in 0 .. IdleTicks
    BY <2>1, Numbers
  <2> QED
    BY <1>2, <2>2
<1> HIDE DEF ClientRecord
<1>6. Kinds'
  BY <1>2, <1>3, <1>5 DEF HttpInv, Kinds
<1>7. Slots'
  <2>1. Open' = Open
    BY <1>3, <1>4, ClientsAre DEF Open
  <2>2. ToSet(backlog)' = ToSet(backlog)
    BY <1>2 DEF ToSet
  <2>3. Len(clients') <= kMaxClients
        /\ \A i, j \in 1 .. Len(clients') : clients'[i].peer = clients'[j].peer => i = j
    BY <1>3, <1>4 DEF HttpInv, Slots
  <2> QED
    BY <1>2, <2>1, <2>2, <2>3 DEF HttpInv, Slots
<1>8. Buffers'
  <2>1. \A i \in 1 .. Len(clients') : Unread(clients'[i])
    BY <1>3, <1>4 DEF HttpInv, Buffers, Unread
  <2> QED
    BY <2>1 DEF Buffers, Unread, Complete
<1>9. Round'
  BY <1>2, <1>3, <1>4 DEF HttpInv, Round
<1>10. Ages'
  <2>1. ASSUME NEW i \in 1 .. Len(clients), toServer[clients[i].peer] = <<>>
        PROVE  clients'[i].age <= quiet'[clients[i].peer]
    <3>1. PICK p \in Peers : p = clients[i].peer /\ p \in Open
      BY ClientsAre DEF Open
    <3>2. clients[i].age <= quiet[p]
      BY <2>1, <3>1 DEF HttpInv, Ages
    <3>3. clients[i].age \in 0 .. IdleTicks /\ quiet[p] \in 0 .. IdleTicks
      BY ClientsAre DEF HttpInv, Kinds
    <3>4. quiet'[p] = IF quiet[p] < IdleTicks THEN quiet[p] + 1 ELSE quiet[p]
      BY <1>2, <3>1
    <3>5. clients'[i].age <= quiet'[p]
      BY <1>4, <3>2, <3>3, <3>4, Numbers
    <3> QED
      BY <3>1, <3>5
  <2> QED
    BY <1>2, <1>3, <1>4, <2>1 DEF Ages
<1> QED
  BY <1>6, <1>7, <1>8, <1>9, <1>10 DEF HttpInv
-----------------------------------------------------------------------------
(* The theorems.                                                            *)

\* Idle clients are closed, or all of them.
LEMMA CloseSomeKeeps ==
    ASSUME HttpInv, PollTimesOut \/ Leave
    PROVE  HttpInv'
<1>1. at' = at /\ at \in 1 .. kMaxClients + 1
  BY DEF PollTimesOut, Leave, HttpInv, Kinds
<1>2. CASE PollTimesOut
  <2>1. {i \in DOMAIN clients : Idle(clients[i])} \subseteq 1 .. Len(clients)
    BY ClientsAre
  <2>2. /\ CloseClients({i \in DOMAIN clients : Idle(clients[i])})
        /\ UNCHANGED <<spc, running, life, polled, backlog, unpolled>> /\ spc = "poll"
    BY <1>2 DEF PollTimesOut
  <2> QED
    BY <1>1, <2>1, <2>2, CloseKeeps
<1>3. CASE Leave
  <2>1. /\ CloseClients(DOMAIN clients) /\ DOMAIN clients \subseteq 1 .. Len(clients)
        /\ UNCHANGED <<running, life, polled, backlog, unpolled>> /\ spc' = "off"
    BY <1>3, ClientsAre DEF Leave
  <2> QED
    BY <1>1, <2>1, CloseKeeps
<1> QED
  BY <1>2, <1>3

\* The invariant is inductive.
LEMMA HttpStepKeeps == HttpInv /\ [Next]_vars => HttpInv'
<1> SUFFICES ASSUME HttpInv, [Next]_vars PROVE HttpInv'
  OBVIOUS
<1>1. CASE Start \/ StopRequest \/ StopJoin
  BY <1>1, StartStopKeeps, JoinKeeps
<1>2. CASE ServerStep
  BY <1>2, PollKeeps, CloseSomeKeeps, AcceptKeeps, ServeKeeps, EndKeeps DEF ServerStep
<1>3. CASE PeerStep
  BY <1>3, TickKeeps, ConnectKeeps, SendKeeps, DisconnectKeeps DEF PeerStep
<1>4. CASE UNCHANGED vars
  <2>1. UNCHANGED <<spc, running, life, clients, polled, at, conn, backlog, toServer, quiet, unpolled>>
    BY <1>4 DEF vars, serverVars, peerVars, historyVars
  <2>2. Round'
    BY <2>1 DEF HttpInv, Round
  <2> QED
    BY <2>1, <2>2, ControlKeeps DEF HttpInv, Kinds, Slots
<1> QED
  BY <1>1, <1>2, <1>3, <1>4 DEF Next

\* Its reachable states.
LEMMA HttpIsSound == Spec => []HttpInv
BY HttpInit, HttpStepKeeps, PTL DEF Spec

\* The array of events has room for every client, a peer has at most one slot,
\* and slots, queue and connections agree.
THEOREM HttpSlotsAreSound == Spec => []TypeOK
<1>1. HttpInv => TypeOK
  <2> SUFFICES ASSUME HttpInv PROVE TypeOK
    OBVIOUS
  <2>1. /\ spc \in {"off", "poll", "accept", "client"}
        /\ life \in {"new", "running", "stopping", "stopped"}
        /\ running = (life = "running") /\ at \in 1 .. kMaxClients + 1
    BY DEF HttpInv, Kinds
  <2>2. /\ Len(clients) <= kMaxClients /\ Len(polled) <= kMaxClients
        /\ \A i, j \in DOMAIN clients : clients[i].peer = clients[j].peer => i = j
        /\ \A i \in DOMAIN clients :
              Len(clients[i].rxBuf) <= kMaxRequest /\ ~Complete(clients[i].rxBuf)
    BY ClientsAre DEF HttpInv, Slots, Buffers, Unread
  <2>3. \A p \in Peers : (p \in Open) = (conn[p] \in {"open", "fin", "reset"})
    BY DEF HttpInv, Slots
  <2>4. \A p \in Peers : (p \in ToSet(backlog)) = (conn[p] = "pending")
    BY DEF HttpInv, Slots
  <2> QED
    BY <2>1, <2>2, <2>3, <2>4 DEF TypeOK
<1> QED
  BY HttpIsSound, <1>1, PTL

\* What CloseClients closes is the peers of the clients with the indices.
LEMMA ClosedIs ==
    ASSUME NEW indices, CloseClients(indices), NEW p \in Peers,
           conn[p] = "open", conn'[p] = "closed"
    PROVE  \E i \in indices : clients[i].peer = p
BY DEF CloseClients

\* The entry that poll() wrote for a client never says error alone.
LEMMA EntryIs ==
    ASSUME HttpInv, spc = "client", at \in 1 .. Len(clients), Peer \notin unpolled,
           NEW revents \in Entry(at)
    PROVE  ~HasErr(revents)
<1>1. at <= Len(polled)
  <2>1. Len(polled) \in Nat /\ at \in Nat
    BY DEF HttpInv, Kinds
  <2> QED
    BY <2>1 DEF HttpInv, Round, Peer, Client
<1>2. at \in DOMAIN polled /\ at \in 1 .. Len(polled)
  BY <1>1 DEF HttpInv, Kinds
<1> QED
  BY <1>2 DEF Entry, HasErr, HttpInv, Round

\* A connection whose peer is still there is closed without an answer only when
\* it has been silent for the idle time, when the thread ends, or in the round
\* in which it was accepted, although clients are served with the entries of
\* others.
THEOREM HealthyConnectionsAreKept == Spec => HealthyIsKept
<1> DEFINE Excused(p) == quiet[p] >= IdleTicks \/ ~running \/ p \in unpolled
<1>1. ASSUME HttpInv, Next, NEW p \in Peers,
             conn[p] = "open", conn'[p] = "closed", p \notin answered'
      PROVE  Excused(p)
  <2> HIDE DEF Excused
  <2>1. CASE Start \/ StopRequest \/ Poll \/ EndRound
    <3>1. conn' = conn
      BY <2>1 DEF Start, StopRequest, Poll, EndRound, peerVars
    <3> QED
      BY <1>1, <3>1
  <2>2. CASE StopJoin \/ Accept
    <3>1. conn'[p] \in {"open", conn[p]}
      BY <1>1, <2>2 DEF StopJoin, Accept
    <3> QED
      BY <1>1, <3>1
  <2>3. CASE PollTimesOut
    <3>1. PICK i \in DOMAIN clients : Idle(clients[i]) /\ clients[i].peer = p
      <4>1. CloseClients({j \in DOMAIN clients : Idle(clients[j])})
        BY <2>3 DEF PollTimesOut
      <4> QED
        BY <1>1, <4>1, ClosedIs
    <3>2. Revents(clients[i]) = {}
      BY <2>3 DEF PollTimesOut, Ready
    <3>3. toServer[p] = <<>>
      BY <3>1, <3>2 DEF Revents
    <3>4. clients[i].age <= quiet[p] /\ clients[i].age >= IdleTicks
      BY <1>1, <3>1, <3>3, ClientsAre DEF HttpInv, Ages, Idle
    <3>5. clients[i].age \in Nat /\ quiet[p] \in Nat
      <4>1. clients[i].age \in 0 .. IdleTicks /\ quiet[p] \in 0 .. IdleTicks
        BY <1>1, ClientsAre DEF HttpInv, Kinds
      <4> QED
        BY <4>1
    <3>6. quiet[p] >= IdleTicks
      BY <3>4, <3>5, Numbers
    <3> QED
      BY <3>6 DEF Excused
  <2>4. CASE Leave
    BY <2>4 DEF Leave, Excused
  <2>5. CASE Serve
    <3>1. spc = "client" /\ at \in 1 .. Len(clients)
      BY <1>1, <2>5, ClientsAre DEF Serve, HttpInv, Kinds
    <3>2. PICK revents \in Entry(at) :
            \/ HasErr(revents) /\ CloseClient
            \/ \E n \in 1 .. RecvMax : ReceiveData(n)
            \/ conn[Peer] \in {"reset", "fin"} /\ CloseClient
            \/ SkipClient
      BY <2>5 DEF Serve
    <3>3. CASE HasErr(revents) /\ CloseClient
      <4>1. Peer = p
        BY <1>1, <3>3, ClosedIs DEF CloseClient, Peer, Client
      <4>2. Peer \in unpolled
        BY <1>1, <3>1, <3>3, EntryIs
      <4> QED
        BY <4>1, <4>2 DEF Excused
    <3>4. ASSUME NEW n \in 1 .. RecvMax, ReceiveData(n) PROVE FALSE
      <4>1. conn' # conn
        BY <1>1
      <4>2. CloseClients({at}) /\ Peer \in answered'
        BY <3>4, <4>1 DEF ReceiveData
      <4>3. Peer = p
        BY <1>1, <4>2, ClosedIs DEF Peer, Client
      <4> QED
        BY <1>1, <4>2, <4>3
    <3>5. CASE conn[Peer] \in {"reset", "fin"} /\ CloseClient
      <4>1. Peer = p
        BY <1>1, <3>5, ClosedIs DEF CloseClient, Peer, Client
      <4> QED
        BY <1>1, <3>5, <4>1
    <3>6. CASE SkipClient
      BY <1>1, <3>6 DEF SkipClient
    <3> QED
      BY <3>2, <3>3, <3>4, <3>5, <3>6
  <2>6. CASE PeerStep
    <3>1. CASE Tick
      BY <1>1, <3>1 DEF Tick, peerVars
    <3>2. ASSUME NEW q \in Peers, Connect(q) \/ SendUnit(q) \/ Disconnect(q) PROVE FALSE
      <4>1. conn'[p] \in {conn[p], "pending", "fin", "reset"}
        <5>1. conn \in [Peers -> {"none", "pending", "open", "fin", "reset", "closed"}]
          BY <1>1 DEF HttpInv, Kinds
        <5>2. \/ conn' = conn
              \/ \E how \in {"pending", "fin", "reset"} : conn' = [conn EXCEPT ![q] = how]
          BY <3>2 DEF Connect, SendUnit, Disconnect
        <5> QED
          BY <5>1, <5>2
      <4> QED
        BY <1>1, <4>1
    <3> QED
      BY <2>6, <3>1, <3>2 DEF PeerStep
  <2> QED
    BY <1>1, <2>1, <2>2, <2>3, <2>4, <2>5, <2>6 DEF Next, ServerStep
<1>2. HttpInv /\ [Next]_vars =>
        [\A p \in Peers :
            (conn[p] = "open" /\ conn'[p] = "closed" /\ p \notin answered')
               => \/ quiet[p] >= IdleTicks
                  \/ ~running
                  \/ p \in unpolled]_vars
  BY <1>1
<1> QED
  BY HttpIsSound, <1>2, PTL DEF Spec, HealthyIsKept
=============================================================================
