------------------------------ MODULE Core_proofs ------------------------------
(***************************************************************************)
(* Theorems about what a program of the gateway is made of: the event bus, *)
(* whose publishes call the handlers they should, each once; the edge      *)
(* computing of a point, whose means and alarms are functions of what has  *)
(* been read; and, at the end, the gateway itself, its state machine, its  *)
(* threads and its commands.                                               *)
(*                                                                         *)
(* The bus rests on the copy taken in the critical section: a subscription *)
(* made later has an identifier that is not below the publish's, so        *)
(* whatever subscriptions below it there still are, the copy has them.     *)
(* The filter rests on where the ring keeps which reading.  What the user  *)
(* is told of a command rests on which thread holds what at which step.    *)
(***************************************************************************)
EXTENDS EventBus, Edge, Gateway, SequenceLemmas, FiniteSetTheorems
-----------------------------------------------------------------------------
(* The event bus.                                                          *)

\* A row of the table, and a publish in progress.
Subscription == [id : Nat, pattern : Patterns]
Frame == [topic : Topics, snapshot : Seq(Nat), running : Nat, called : Seq(Nat), before : Nat]

\* What values the variables of the bus keep.
Kinds ==
    /\ subs \in Seq(Subscription) /\ nextId \in Nat
    /\ stack \in [Publishers -> Seq(Frame)]

\* Identifiers are given out once.
Numbered ==
    /\ \A i \in 1 .. Len(subs) : subs[i].id < nextId
    /\ \A i, j \in 1 .. Len(subs) : subs[i].id = subs[j].id => i = j

\* The copy a publish works on: nobody twice, nobody who came later, and all who
\* were there before and still are in the list.
Copied(f, list, next) ==
    /\ f.before <= next
    /\ \A i \in 1 .. Len(f.snapshot) : f.snapshot[i] < f.before
    /\ \A i, j \in 1 .. Len(f.snapshot) : f.snapshot[i] = f.snapshot[j] => i = j
    /\ \A k \in 1 .. Len(list) :
          Matches(list[k].pattern, f.topic) /\ list[k].id < f.before =>
              \E i \in 1 .. Len(f.snapshot) : f.snapshot[i] = list[k].id

\* It has been called in order, up to some place.
Walked(f) ==
    Len(f.called) <= Len(f.snapshot) /\ \A i \in 1 .. Len(f.called) : f.called[i] = f.snapshot[i]

\* Why a publish calls whom it should.
BusInv ==
    /\ Kinds /\ Numbered
    /\ \A t \in Publishers : \A i \in 1 .. Len(stack[t]) :
          Copied(stack[t][i], subs, nextId) /\ Walked(stack[t][i])

\* There is no subscription and no publish at first.
LEMMA BusStarts == BusInit => BusInv
<1> SUFFICES ASSUME BusInit PROVE BusInv
  OBVIOUS
<1>1. Len(<<>>) = 0 /\ 1 .. 0 = {} /\ \A S : <<>> \in Seq(S)
  OBVIOUS
<1> QED
  BY <1>1 DEF BusInit, BusInv, Kinds, Numbered

\* A subscription more has an identifier that no publish in progress asks for.
LEMMA SubscribeKeeps ==
    ASSUME BusInv, NEW t \in Publishers, NEW p \in Patterns, Subscribe(t, p)
    PROVE  BusInv'
<1>1. PICK s \in Subscription : s = [id |-> nextId, pattern |-> p]
  BY DEF BusInv, Kinds, Subscription
<1>2. /\ subs' = Append(subs, s) /\ nextId' = nextId + 1 /\ stack' = stack
      /\ s.id = nextId /\ subs \in Seq(Subscription) /\ nextId \in Nat
  BY <1>1 DEF Subscribe, BusInv, Kinds
<1> HIDE DEF Subscription
<1>3. PICK m \in Nat : m = Len(subs)
  BY <1>2
<1>4. /\ subs' \in Seq(Subscription) /\ Len(subs') = m + 1 /\ subs'[m + 1] = s
      /\ \A i \in 1 .. m : subs'[i] = subs[i]
      /\ \A i \in 1 .. m + 1 : i \in 1 .. m \/ i = m + 1
  BY <1>2, <1>3
<1>5. \A i \in 1 .. m : subs[i].id \in Nat /\ subs[i].id < nextId
  <2>1. \A i \in 1 .. m : subs[i] \in Subscription /\ subs[i].id < nextId
    BY <1>2, <1>3 DEF BusInv, Numbered
  <2> QED
    BY <2>1 DEF Subscription
<1>6. Kinds'
  BY <1>2, <1>4 DEF BusInv, Kinds
<1>7. Numbered'
  <2>1. \A i \in 1 .. m + 1 : subs'[i].id < nextId'
    BY <1>2, <1>4, <1>5
  <2>2. \A i, j \in 1 .. m : subs[i].id = subs[j].id => i = j
    BY <1>3 DEF BusInv, Numbered
  <2>3. \A i, j \in 1 .. m + 1 : subs'[i].id = subs'[j].id => i = j
    <3>1. ASSUME NEW i \in 1 .. m + 1, NEW j \in 1 .. m + 1, subs'[i].id = subs'[j].id
          PROVE  i = j
      <4>1. CASE i \in 1 .. m /\ j \in 1 .. m
        BY <1>4, <2>2, <3>1, <4>1
      <4>2. CASE i \in 1 .. m /\ j = m + 1
        BY <1>2, <1>4, <1>5, <3>1, <4>2
      <4>3. CASE i = m + 1 /\ j \in 1 .. m
        BY <1>2, <1>4, <1>5, <3>1, <4>3
      <4>4. CASE i = m + 1 /\ j = m + 1
        BY <4>4
      <4> QED
        BY <1>4, <4>1, <4>2, <4>3, <4>4
    <3> QED
      BY <3>1
  <2> QED
    BY <1>4, <2>1, <2>3 DEF Numbered
<1>8. ASSUME NEW f \in Frame, Copied(f, subs, nextId) PROVE Copied(f, subs', nextId')
  <2>1. f.before \in Nat
    BY DEF Frame
  <2>2. f.before <= nextId /\ f.before <= nextId'
    BY <1>2, <1>8, <2>1 DEF Copied
  <2>3. ASSUME NEW k \in 1 .. m + 1, Matches(subs'[k].pattern, f.topic), subs'[k].id < f.before
        PROVE  \E i \in 1 .. Len(f.snapshot) : f.snapshot[i] = subs'[k].id
    <3>1. k # m + 1
      BY <1>2, <1>4, <2>1, <2>2, <2>3
    <3>2. k \in 1 .. m /\ subs'[k] = subs[k]
      BY <1>4, <3>1
    <3> QED
      BY <1>3, <1>8, <2>3, <3>2 DEF Copied
  <2> QED
    BY <1>4, <1>8, <2>2, <2>3 DEF Copied
<1>9. \A u \in Publishers : \A i \in 1 .. Len(stack[u]) : stack[u][i] \in Frame
  BY DEF BusInv, Kinds
<1>10. \A u \in Publishers : \A i \in 1 .. Len(stack'[u]) : Copied(stack'[u][i], subs', nextId') /\ Walked(stack'[u][i])
  BY <1>2, <1>8, <1>9 DEF BusInv
<1> QED
  BY <1>6, <1>7, <1>10 DEF BusInv

\* A selection of subscriptions: some of them, and all that are wanted.
IsSelection(t, list, R, S) ==
    /\ t \in Seq(R)
    /\ \A i, j \in 1 .. Len(t) : t[i].id = t[j].id => i = j
    /\ \A i \in 1 .. Len(t) : t[i] \in S /\ \E k \in 1 .. Len(list) : t[i] = list[k]
    /\ \A k \in 1 .. Len(list) : list[k] \in S => \E i \in 1 .. Len(t) : t[i] = list[k]

\* Identifiers that are different stay so in a selection.
LEMMA Selected ==
    ASSUME NEW R, NEW list \in Seq(R), NEW S,
           \A i, j \in 1 .. Len(list) : list[i].id = list[j].id => i = j,
           NEW t, t = Kept(list, S)
    PROVE  IsSelection(t, list, R, S)
<1>1. t \in Seq(R) /\ IsKept(t, list, S, Len(list))
  BY KeptOf
<1>2. PICK h \in [1 .. Len(t) -> 1 .. Len(list)] :
        /\ \A i \in 1 .. Len(t) : t[i] = list[h[i]] /\ t[i] \in S
        /\ \A i, j \in 1 .. Len(t) : i < j => h[i] < h[j]
  BY <1>1 DEF IsKept
<1>3. Len(t) \in Nat /\ Len(list) \in Nat
  BY <1>1
<1>4. ASSUME NEW i \in 1 .. Len(t), NEW j \in 1 .. Len(t), t[i].id = t[j].id PROVE i = j
  <2>1. h[i] \in 1 .. Len(list) /\ h[j] \in 1 .. Len(list) /\ h[i] = h[j]
    <3>1. h[i] \in 1 .. Len(list) /\ h[j] \in 1 .. Len(list)
      BY <1>2
    <3>2. t[i] = list[h[i]] /\ t[j] = list[h[j]]
      BY <1>2
    <3>3. list[h[i]].id = list[h[j]].id
      BY <1>4, <3>2
    <3> QED
      BY <3>1, <3>3
  <2>2. ~(i < j) /\ ~(j < i)
    BY <1>2, <1>3, <2>1
  <2> QED
    BY <1>3, <2>2
<1>5. \A k \in 1 .. Len(list) : list[k] \in S => \E i \in 1 .. Len(t) : t[i] = list[k]
  BY <1>1 DEF IsKept
<1>6. \A i \in 1 .. Len(t) : t[i] \in S /\ \E k \in 1 .. Len(list) : t[i] = list[k]
  BY <1>2
<1> QED
  BY <1>1, <1>4, <1>5, <1>6 DEF IsSelection

\* A subscription less asks nothing more of the publishes in progress.
LEMMA UnsubscribeKeeps ==
    ASSUME BusInv, NEW t \in Publishers, NEW id, Unsubscribe(t, id)
    PROVE  BusInv'
<1>1. PICK list, left : list = subs /\ left = subs' /\ list \in Seq(Subscription)
  BY DEF BusInv, Kinds
<1>2. PICK S : left = Kept(list, S) /\ UNCHANGED <<nextId, stack>>
  BY <1>1 DEF Unsubscribe
<1> HIDE DEF Subscription
<1>3. \A i, j \in 1 .. Len(list) : list[i].id = list[j].id => i = j
  BY <1>1 DEF BusInv, Numbered
<1>4. /\ left \in Seq(Subscription)
      /\ \A i, j \in 1 .. Len(left) : left[i].id = left[j].id => i = j
      /\ \A i \in 1 .. Len(left) : left[i] \in S /\ \E k \in 1 .. Len(list) : left[i] = list[k]
      /\ \A k \in 1 .. Len(list) : list[k] \in S => \E i \in 1 .. Len(left) : left[i] = list[k]
  <2>1. IsSelection(left, list, Subscription, S)
    BY <1>1, <1>2, <1>3, Selected
  <2> QED
    BY <2>1 DEF IsSelection
<1>5. Kinds' /\ Numbered'
  <2>1. Kinds'
    BY <1>1, <1>2, <1>4 DEF BusInv, Kinds
  <2>2. \A i \in 1 .. Len(left) : left[i].id < nextId
    BY <1>1, <1>4 DEF BusInv, Numbered
  <2> QED
    BY <1>1, <1>2, <1>4, <2>1, <2>2 DEF Numbered
<1>6. ASSUME NEW f, Copied(f, list, nextId) PROVE Copied(f, left, nextId)
  <2>1. ASSUME NEW i \in 1 .. Len(left), Matches(left[i].pattern, f.topic), left[i].id < f.before
        PROVE  \E n \in 1 .. Len(f.snapshot) : f.snapshot[n] = left[i].id
    <3>1. PICK k \in 1 .. Len(list) : left[i] = list[k]
      BY <1>4
    <3> QED
      BY <1>6, <2>1, <3>1 DEF Copied
  <2> QED
    BY <1>6, <2>1 DEF Copied
<1>7. \A u \in Publishers : \A i \in 1 .. Len(stack'[u]) :
        Copied(stack'[u][i], subs', nextId') /\ Walked(stack'[u][i])
  BY <1>1, <1>2, <1>6 DEF BusInv
<1> QED
  BY <1>5, <1>7 DEF BusInv

\* One thread's stack changes; its frames are sound if those that are not as
\* before are.
LEMMA StackKeeps ==
    ASSUME BusInv, NEW t \in Publishers, UNCHANGED <<subs, nextId>>, NEW s \in Seq(Frame),
           stack' = [stack EXCEPT ![t] = s],
           \A i \in 1 .. Len(s) :
              \/ i \in 1 .. Len(stack[t]) /\ s[i] = stack[t][i]
              \/ Copied(s[i], subs, nextId) /\ Walked(s[i])
    PROVE  BusInv'
<1>1. /\ stack' \in [Publishers -> Seq(Frame)] /\ stack'[t] = s
      /\ \A u \in Publishers : u # t => stack'[u] = stack[u]
  <2> HIDE DEF Frame
  <2> QED
    BY DEF BusInv, Kinds
<1>2. Kinds' /\ Numbered'
  BY <1>1 DEF BusInv, Kinds, Numbered
<1>3. \A i \in 1 .. Len(s) : Copied(s[i], subs, nextId) /\ Walked(s[i])
  BY DEF BusInv
<1>4. \A u \in Publishers : \A i \in 1 .. Len(stack'[u]) :
        Copied(stack'[u][i], subs, nextId) /\ Walked(stack'[u][i])
  BY <1>1, <1>3 DEF BusInv
<1> QED
  BY <1>2, <1>4 DEF BusInv

\* The copy is that of the list at this moment.
LEMMA PublishKeeps ==
    ASSUME BusInv, NEW t \in Publishers, NEW topic \in Topics, Publish(t, topic)
    PROVE  BusInv'
<1>1. PICK list \in Seq(Subscription) : list = subs
  BY DEF BusInv, Kinds
<1>2. PICK S, c :
        /\ S = {s \in Range(list) : Matches(s.pattern, topic)}
        /\ c = Kept(list, S) /\ Listeners(topic) = Ids(c)
  BY <1>1 DEF Listeners
<1>3. /\ \A s \in Subscription : s.id \in Nat
      /\ \A k \in 1 .. Len(list) : Matches(list[k].pattern, topic) => list[k] \in S
  <2>1. \A k \in 1 .. Len(list) : list[k] \in Range(list)
    BY DEF Range
  <2> QED
    BY <1>2, <2>1 DEF Subscription
<1> HIDE DEF Subscription
<1>4. /\ \A i, j \in 1 .. Len(list) : list[i].id = list[j].id => i = j
      /\ \A i \in 1 .. Len(list) : list[i].id < nextId /\ list[i] \in Subscription
  BY <1>1 DEF BusInv, Numbered
<1>5. /\ c \in Seq(Subscription)
      /\ \A i, j \in 1 .. Len(c) : c[i].id = c[j].id => i = j
      /\ \A i \in 1 .. Len(c) : c[i] \in S /\ \E k \in 1 .. Len(list) : c[i] = list[k]
      /\ \A k \in 1 .. Len(list) : list[k] \in S => \E i \in 1 .. Len(c) : c[i] = list[k]
  <2>1. c = Kept(list, S)
    BY <1>2
  <2>2. \A i, j \in 1 .. Len(list) : list[i].id = list[j].id => i = j
    BY <1>4
  <2>3. IsSelection(c, list, Subscription, S)
    BY <2>1, <2>2, Selected
  <2> QED
    BY <2>3 DEF IsSelection
<1>6. PICK x \in Seq(Nat) :
        /\ x = Ids(c) /\ Len(x) = Len(c) /\ \A i \in 1 .. Len(c) : x[i] = c[i].id
  <2>1. DOMAIN c = 1 .. Len(c) /\ Len(c) \in Nat /\ \A i \in 1 .. Len(c) : c[i].id \in Nat
    BY <1>3, <1>5
  <2>2. Ids(c) \in Seq(Nat) /\ Len(Ids(c)) = Len(c) /\ \A i \in 1 .. Len(c) : Ids(c)[i] = c[i].id
    BY <2>1 DEF Ids
  <2> QED
    BY <2>2
<1>7. nextId \in Nat
  BY DEF BusInv, Kinds
<1>8. PICK f \in Frame :
        f = [topic |-> topic, snapshot |-> x, running |-> 0, called |-> <<>>, before |-> nextId]
  <2>1. <<>> \in Seq(Nat) /\ 0 \in Nat
    OBVIOUS
  <2>2. [topic |-> topic, snapshot |-> x, running |-> 0, called |-> <<>>, before |-> nextId] \in Frame
    BY <1>7, <2>1 DEF Frame
  <2> QED
    BY <2>2
<1>9. f.topic = topic /\ f.snapshot = x /\ f.called = <<>> /\ f.before = nextId
  BY <1>8
<1>10. Copied(f, list, nextId)
  <2>1. \A i \in 1 .. Len(x) : x[i] < nextId
    <3>1. ASSUME NEW i \in 1 .. Len(x) PROVE x[i] < nextId
      <4>1. i \in 1 .. Len(c) /\ x[i] = c[i].id
        BY <1>6
      <4>2. PICK k \in 1 .. Len(list) : c[i] = list[k]
        BY <1>5, <4>1
      <4> QED
        BY <1>4, <4>1, <4>2
    <3> QED
      BY <3>1
  <2>2. \A i, j \in 1 .. Len(x) : x[i] = x[j] => i = j
    BY <1>5, <1>6
  <2>3. \A k \in 1 .. Len(list) :
          Matches(list[k].pattern, topic) => \E i \in 1 .. Len(x) : x[i] = list[k].id
    <3>1. ASSUME NEW k \in 1 .. Len(list), Matches(list[k].pattern, topic)
          PROVE  \E i \in 1 .. Len(x) : x[i] = list[k].id
      <4>1. PICK i \in 1 .. Len(c) : c[i] = list[k]
        BY <1>3, <1>4, <1>5, <3>1
      <4> QED
        BY <1>6, <4>1
    <3> QED
      BY <3>1
  <2>4. nextId <= nextId
    BY <1>7
  <2> QED
    BY <1>9, <2>1, <2>2, <2>3, <2>4 DEF Copied
<1>11. Walked(f)
  <2>1. Len(<<>>) = 0 /\ 1 .. 0 = {} /\ Len(x) \in Nat
    OBVIOUS
  <2> QED
    BY <1>9, <2>1 DEF Walked
<1>12. stack' = [stack EXCEPT ![t] = Append(@, f)] /\ UNCHANGED <<subs, nextId>>
  BY <1>2, <1>6, <1>8 DEF Publish
<1> HIDE DEF Frame
<1>13. PICK old \in Seq(Frame) : old = stack[t]
  BY DEF BusInv, Kinds
<1>14. PICK s \in Seq(Frame) :
         /\ s = Append(old, f)
         /\ \A i \in 1 .. Len(s) : (i \in 1 .. Len(old) /\ s[i] = old[i]) \/ s[i] = f
  <2>1. Append(old, f) \in Seq(Frame)
    OBVIOUS
  <2>2. \A i \in 1 .. Len(Append(old, f)) :
          (i \in 1 .. Len(old) /\ Append(old, f)[i] = old[i]) \/ Append(old, f)[i] = f
    OBVIOUS
  <2> QED
    BY <2>1, <2>2
<1>15. stack' = [stack EXCEPT ![t] = s]
  BY <1>12, <1>13, <1>14
<1> QED
  BY <1>1, <1>10, <1>11, <1>12, <1>13, <1>14, <1>15, StackKeeps, ZenonT(30)

\* The top frame of a thread is replaced by one that works on the same copy.
LEMMA TopKeeps ==
    ASSUME BusInv, NEW t \in Publishers, Publishing(t), NEW g \in Frame, SetTop(t, g),
           UNCHANGED <<subs, nextId>>,
           g.topic = Last(stack[t]).topic, g.snapshot = Last(stack[t]).snapshot,
           g.before = Last(stack[t]).before, Walked(g)
    PROVE  BusInv'
<1> HIDE DEF Frame
<1>1. PICK old \in Seq(Frame) : old = stack[t] /\ old # <<>>
  BY DEF BusInv, Kinds, Publishing
<1>2. PICK n \in Nat \ {0} : n = Len(old)
  BY <1>1
<1>3. PICK f : f = old[n] /\ f = Last(stack[t]) /\ Copied(f, subs, nextId)
  BY <1>1, <1>2 DEF BusInv, Last
<1>4. PICK s \in Seq(Frame) :
        /\ s = Append(Front(old), g) /\ Len(s) = n
        /\ \A i \in 1 .. n : (i \in 1 .. Len(old) /\ s[i] = old[i]) \/ s[i] = g
  <2>1. Front(old) = SubSeq(old, 1, n - 1)
    BY <1>2 DEF Front
  <2>2. /\ SubSeq(old, 1, n - 1) \in Seq(Frame) /\ Len(SubSeq(old, 1, n - 1)) = n - 1
        /\ \A i \in 1 .. n - 1 : SubSeq(old, 1, n - 1)[i] = old[i]
    BY <1>2
  <2>3. PICK r \in Seq(Frame) : r = Front(old) /\ Len(r) = n - 1 /\ \A i \in 1 .. n - 1 : r[i] = old[i]
    BY <2>1, <2>2
  <2>4. Append(r, g) \in Seq(Frame) /\ Len(Append(r, g)) = n /\ Append(r, g)[n] = g
    BY <2>3
  <2>5. \A i \in 1 .. n - 1 : Append(r, g)[i] = old[i]
    BY <2>3
  <2>6. \A i \in 1 .. n : (i \in 1 .. Len(old) /\ Append(r, g)[i] = old[i]) \/ Append(r, g)[i] = g
    BY <1>2, <2>4, <2>5
  <2> QED
    BY <2>3, <2>4, <2>6
<1>5. stack' = [stack EXCEPT ![t] = s]
  BY <1>1, <1>4 DEF SetTop
<1>6. Copied(g, subs, nextId)
  BY <1>3 DEF Copied
<1> QED
  BY <1>1, <1>4, <1>5, <1>6, StackKeeps

\* The next of the copy is called.
LEMMA CallKeeps ==
    ASSUME BusInv, NEW t \in Publishers, CallHandler(t)
    PROVE  BusInv'
<1>1. PICK f \in Frame : f = Last(stack[t]) /\ Walked(f)
  <2>1. PICK old \in Seq(Frame) : old = stack[t] /\ old # <<>>
    BY DEF BusInv, Kinds, CallHandler, Publishing
  <2>2. Len(old) \in 1 .. Len(old)
    BY <2>1
  <2> QED
    BY <2>1, <2>2 DEF BusInv, Last
<1>2. PICK snap \in Seq(Nat), called \in Seq(Nat) : snap = f.snapshot /\ called = f.called
  BY DEF Frame
<1>3. PICK n \in Nat : n = Len(called)
  BY <1>2
<1>4. n <= Len(snap) /\ \A i \in 1 .. n : called[i] = snap[i]
  BY <1>1, <1>2, <1>3 DEF Walked
<1>5. Uncalled(f) = SubSeq(snap, n + 1, Len(snap)) /\ Uncalled(f) # <<>>
  BY <1>1, <1>2, <1>3 DEF Uncalled, CallHandler
<1>6. n + 1 \in 1 .. Len(snap) /\ Head(Uncalled(f)) = snap[n + 1]
  BY <1>4, <1>5
<1>7. PICK id \in Nat : id = Head(Uncalled(f)) /\ id = snap[n + 1]
  BY <1>6
<1>8. PICK g : g = [f EXCEPT !.running = id, !.called = Append(@, id)]
  OBVIOUS
<1>9. PICK more \in Seq(Nat) :
        more = Append(called, id) /\ Len(more) = n + 1 /\ more[n + 1] = id
        /\ \A i \in 1 .. n : more[i] = called[i]
  <2>1. Append(called, id) \in Seq(Nat) /\ Len(Append(called, id)) = n + 1
    BY <1>3
  <2>2. Append(called, id)[n + 1] = id /\ \A i \in 1 .. n : Append(called, id)[i] = called[i]
    BY <1>3
  <2> QED
    BY <2>1, <2>2
<1>10. /\ g \in Frame /\ g.topic = f.topic /\ g.snapshot = snap /\ g.before = f.before
       /\ g.called = more
  BY <1>2, <1>8, <1>9 DEF Frame
<1>11. Walked(g)
  <2>1. \A i \in 1 .. n + 1 : more[i] = snap[i]
    BY <1>4, <1>7, <1>9
  <2> QED
    BY <1>6, <1>9, <1>10, <2>1 DEF Walked
<1>12. SetTop(t, g) /\ UNCHANGED <<subs, nextId>> /\ Publishing(t)
  BY <1>1, <1>7, <1>8 DEF CallHandler
<1> HIDE DEF Frame
<1> QED
  BY <1>1, <1>2, <1>10, <1>11, <1>12, TopKeeps

\* A handler that returns leaves its publish where it was.
LEMMA ReturnKeeps ==
    ASSUME BusInv, NEW t \in Publishers, HandlerReturns(t)
    PROVE  BusInv'
<1>1. PICK f \in Frame : f = Last(stack[t]) /\ Walked(f)
  <2>1. PICK old \in Seq(Frame) : old = stack[t] /\ old # <<>>
    BY DEF BusInv, Kinds, HandlerReturns, InHandler, Publishing
  <2>2. Len(old) \in 1 .. Len(old)
    BY <2>1
  <2> QED
    BY <2>1, <2>2 DEF BusInv, Last
<1>2. PICK g : g = [f EXCEPT !.running = 0]
  OBVIOUS
<1>3. /\ g \in Frame /\ g.topic = f.topic /\ g.snapshot = f.snapshot /\ g.before = f.before
      /\ g.called = f.called
  BY <1>2 DEF Frame
<1>4. Walked(g)
  BY <1>1, <1>3 DEF Walked
<1>5. SetTop(t, g) /\ UNCHANGED <<subs, nextId>> /\ Publishing(t)
  BY <1>1, <1>2 DEF HandlerReturns, InHandler
<1> HIDE DEF Frame
<1> QED
  BY <1>1, <1>3, <1>4, <1>5, TopKeeps

\* A publish that returns takes its frame with it.
LEMMA EndKeeps ==
    ASSUME BusInv, NEW t \in Publishers, PublishReturns(t)
    PROVE  BusInv'
<1> HIDE DEF Frame
<1>1. PICK old \in Seq(Frame) : old = stack[t] /\ old # <<>>
  BY DEF BusInv, Kinds, PublishReturns, Publishing
<1>2. PICK n \in Nat \ {0} : n = Len(old)
  BY <1>1
<1>3. PICK s \in Seq(Frame) : s = Front(old) /\ Len(s) = n - 1 /\ \A i \in 1 .. n - 1 : s[i] = old[i]
  <2>1. Front(old) = SubSeq(old, 1, n - 1)
    BY <1>2 DEF Front
  <2>2. /\ SubSeq(old, 1, n - 1) \in Seq(Frame) /\ Len(SubSeq(old, 1, n - 1)) = n - 1
        /\ \A i \in 1 .. n - 1 : SubSeq(old, 1, n - 1)[i] = old[i]
    BY <1>2
  <2> QED
    BY <2>1, <2>2
<1>4. stack' = [stack EXCEPT ![t] = s] /\ UNCHANGED <<subs, nextId>>
  BY <1>1, <1>3 DEF PublishReturns
<1>5. \A i \in 1 .. Len(s) : i \in 1 .. Len(old) /\ s[i] = old[i]
  BY <1>2, <1>3
<1> QED
  BY <1>1, <1>4, <1>5, StackKeeps

\* Every step of every thread keeps the invariant.
LEMMA BusStepKeeps ==
    ASSUME BusInv, [BusNext]_busVars
    PROVE  BusInv'
<1>1. ASSUME NEW t \in Publishers, NEW p \in Patterns, Subscribe(t, p) PROVE BusInv'
  BY <1>1, SubscribeKeeps
<1>2. ASSUME NEW t \in Publishers, NEW id \in 1 .. nextId - 1, Unsubscribe(t, id) PROVE BusInv'
  BY <1>2, UnsubscribeKeeps
<1>3. ASSUME NEW t \in Publishers, NEW topic \in Topics, Publish(t, topic) PROVE BusInv'
  BY <1>3, PublishKeeps
<1>4. ASSUME NEW t \in Publishers, PublishStep(t) PROVE BusInv'
  BY <1>4, CallKeeps, ReturnKeeps, EndKeeps DEF PublishStep
<1>5. CASE UNCHANGED busVars
  BY <1>5 DEF busVars, BusInv, Kinds, Numbered
<1> QED
  BY <1>1, <1>2, <1>3, <1>4, <1>5 DEF BusNext

\* Whoever has been called up to some place of a copy without repetitions has been
\* called once; at its end, everybody in the copy has.
LEMMA InvariantDelivers == BusInv => DeliveredOnce
<1> SUFFICES ASSUME BusInv, NEW t \in Publishers, NEW i \in DOMAIN stack[t],
                    NEW f, f = stack[t][i]
             PROVE  /\ IsInjective(f.called)
                    /\ \A id \in Range(f.called) : id < f.before
                    /\ Uncalled(f) = <<>> =>
                          \A s \in Range(subs) :
                              Matches(s.pattern, f.topic) /\ s.id < f.before
                                  => s.id \in Range(f.called)
  BY DEF DeliveredOnce
<1>1. f \in Frame /\ Copied(f, subs, nextId) /\ Walked(f)
  <2> HIDE DEF Frame
  <2>1. stack[t] \in Seq(Frame) /\ i \in 1 .. Len(stack[t])
    BY DEF BusInv, Kinds
  <2> QED
    BY <2>1 DEF BusInv
<1>2. PICK snap \in Seq(Nat), called \in Seq(Nat) : snap = f.snapshot /\ called = f.called
  BY <1>1 DEF Frame
<1>3. /\ Len(called) \in Nat /\ Len(snap) \in Nat /\ Len(called) <= Len(snap)
      /\ DOMAIN called = 1 .. Len(called)
      /\ \A k \in 1 .. Len(called) : k \in 1 .. Len(snap) /\ called[k] = snap[k]
  BY <1>1, <1>2 DEF Walked
<1>4. /\ \A k \in 1 .. Len(snap) : snap[k] < f.before
      /\ \A k, l \in 1 .. Len(snap) : snap[k] = snap[l] => k = l
  BY <1>1, <1>2 DEF Copied
<1>5. IsInjective(called)
  BY <1>3, <1>4 DEF IsInjective
<1>6. \A id \in Range(called) : id < f.before
  BY <1>3, <1>4 DEF Range
<1>7. ASSUME Uncalled(f) = <<>>, NEW s \in Range(subs),
             Matches(s.pattern, f.topic), s.id < f.before
      PROVE  s.id \in Range(called)
  <2>1. Len(called) = Len(snap)
    <3>1. SubSeq(snap, Len(called) + 1, Len(snap)) = <<>>
      BY <1>2, <1>7 DEF Uncalled
    <3>2. Len(called) < Len(snap) => Len(SubSeq(snap, Len(called) + 1, Len(snap))) # 0
      BY <1>3
    <3>3. Len(SubSeq(snap, Len(called) + 1, Len(snap))) = 0
      BY <3>1, Len(<<>>) = 0
    <3> QED
      BY <1>3, <3>2, <3>3
  <2>2. PICK k \in 1 .. Len(subs) : s = subs[k]
    <3>1. subs \in Seq(Subscription)
      BY DEF BusInv, Kinds
    <3>2. DOMAIN subs = 1 .. Len(subs)
      BY <3>1
    <3> QED
      BY <3>2 DEF Range
  <2>3. PICK n \in 1 .. Len(snap) : snap[n] = s.id
    BY <1>1, <1>2, <1>7, <2>2 DEF Copied
  <2>4. n \in DOMAIN called /\ called[n] = s.id
    BY <1>3, <2>1, <2>3
  <2> QED
    BY <2>4 DEF Range
<1> QED
  BY <1>2, <1>5, <1>6, <1>7

\* Whatever handlers and other threads subscribe and unsubscribe meanwhile, a
\* publish calls nobody twice, nobody who came after it began, and everybody who
\* was there before and still is: for any number of threads, subscriptions and
\* publishes inside each other.
THEOREM EveryHandlerIsCalledOnce == BusSpec => []DeliveredOnce
<1>1. BusSpec => []BusInv
  BY BusStarts, BusStepKeeps, PTL DEF BusSpec
<1> QED
  BY <1>1, InvariantDelivers, PTL
-----------------------------------------------------------------------------
(* The edge computing: sums.                                               *)

\* f holds the sums of the first elements of s; as Total writes it.
Sums(f, s) == f[0] = 0 /\ \A n \in 1 .. Len(s) : f[n] = f[n - 1] + s[n]
TotalFcn(f, s) == f = [n \in 0 .. Len(s) |-> IF n = 0 THEN 0 ELSE f[n - 1] + s[n]]

\* What Total computes: its recursion has a solution.
LEMMA TotalOf ==
    ASSUME NEW s \in Seq(Int)
    PROVE  \E f \in [0 .. Len(s) -> Int] : Sums(f, s) /\ Total(s) = f[Len(s)]
<1> DEFINE F == [n \in 1 .. Len(s) |-> [t \in Int |-> t + s[n]]]
           g == CHOOSE g : TotalFcn(g, s)
<1>1. Len(s) \in Nat /\ 0 \in Int /\ \A n \in 1 .. Len(s) : s[n] \in Int
  OBVIOUS
<1>2. F \in [1 .. Len(s) -> [Int -> Int]]
  BY <1>1
<1>3. \A n \in 1 .. Len(s) : \A t \in Int : F[n][t] = t + s[n]
  OBVIOUS
<1>4. Total(s) = g[Len(s)]
  BY DEF Total, TotalFcn
<1> HIDE DEF F, g
<1>5. PICK f \in [0 .. Len(s) -> Int] : Solves(f, 0, Len(s), F)
  <2> DEFINE V == Int
             N == Len(s)
  <2>1. 0 \in V /\ N \in Nat /\ F \in [1 .. N -> [V -> V]]
    BY <1>1, <1>2
  <2> HIDE DEF V, N
  <2>2. \E f \in [0 .. N -> V] : Solves(f, 0, N, F)
    BY <2>1, RecursionExists
  <2> QED
    BY <2>2 DEF V, N
<1>6. Sums(f, s)
  <2>1. \A n \in 1 .. Len(s) : n - 1 \in 0 .. Len(s)
    BY <1>1
  <2>2. \A n \in 1 .. Len(s) : f[n - 1] \in Int
    BY <2>1
  <2> QED
    BY <1>3, <1>5, <2>2 DEF Solves, Sums
<1>7. TotalFcn(f, s)
  <2>1. \A n \in 0 .. Len(s) : f[n] = IF n = 0 THEN 0 ELSE f[n - 1] + s[n]
    <3>1. \A n \in 0 .. Len(s) : n = 0 \/ n \in 1 .. Len(s)
      BY <1>1
    <3>2. \A n \in 1 .. Len(s) : n # 0
      OBVIOUS
    <3> QED
      BY <1>6, <3>1, <3>2 DEF Sums
  <2>2. f = [n \in 0 .. Len(s) |-> f[n]]
    OBVIOUS
  <2> QED
    BY <2>1, <2>2 DEF TotalFcn
<1>8. TotalFcn(g, s)
  BY <1>7 DEF g
<1>9. \A n \in 0 .. Len(s) : g[n] = f[n]
  <2> DEFINE T == {n \in 0 .. Len(s) : g[n] = f[n]}
  <2>1. \A n \in 0 .. Len(s) : g[n] = IF n = 0 THEN 0 ELSE g[n - 1] + s[n]
    BY <1>8 DEF TotalFcn
  <2>2. 0 \in 0 .. Len(s) /\ \A n \in 1 .. Len(s) : n \in 0 .. Len(s) /\ n # 0
    BY <1>1
  <2>3. 0 \in T
    BY <1>6, <2>1, <2>2 DEF Sums
  <2>4. ASSUME NEW n \in 1 .. Len(s), n - 1 \in T PROVE n \in T
    BY <1>6, <2>1, <2>2, <2>4 DEF Sums
  <2> HIDE DEF T
  <2>5. 0 .. Len(s) \subseteq T
    BY <1>1, <2>3, <2>4, UpTo
  <2> QED
    BY <2>5 DEF T
<1>10. Total(s) = f[Len(s)]
  <2>1. Len(s) \in 0 .. Len(s)
    BY <1>1
  <2> QED
    BY <1>4, <1>9, <2>1
<1> QED
  BY <1>6, <1>10

\* The sums of a sequence that is a part of another.
LEMMA SumsOfPart ==
    ASSUME NEW s \in Seq(Int), NEW t \in Seq(Int), NEW k \in Nat, NEW N \in Nat,
           N <= Len(t), N + k <= Len(s), \A n \in 1 .. N : t[n] = s[n + k],
           NEW f \in [0 .. Len(s) -> Int], Sums(f, s),
           NEW g \in [0 .. Len(t) -> Int], Sums(g, t)
    PROVE  \A n \in 0 .. N : g[n] = f[n + k] - f[k]
<1> DEFINE T == {n \in 0 .. N : g[n] = f[n + k] - f[k]}
<1>1. Len(s) \in Nat /\ Len(t) \in Nat
  OBVIOUS
<1>2. 0 \in T
  <2>1. 0 \in 0 .. N /\ k \in 0 .. Len(s) /\ 0 + k = k
    BY <1>1
  <2>2. f[k] \in Int
    BY <2>1
  <2> QED
    BY <2>1, <2>2 DEF Sums
<1>3. ASSUME NEW n \in 1 .. N, n - 1 \in T PROVE n \in T
  <2>1. /\ n \in 0 .. N /\ n \in 1 .. Len(t) /\ n + k \in 1 .. Len(s)
        /\ n - 1 + k = n + k - 1 /\ n + k - 1 \in 0 .. Len(s) /\ k \in 0 .. Len(s)
    BY <1>1
  <2>2. g[n] = g[n - 1] + t[n] /\ f[n + k] = f[n + k - 1] + s[n + k]
    BY <2>1 DEF Sums
  <2>3. g[n - 1] = f[n + k - 1] - f[k]
    BY <1>3, <2>1
  <2>4. f[n + k - 1] \in Int /\ f[k] \in Int /\ s[n + k] \in Int /\ t[n] = s[n + k]
    <3>1. \A m \in 0 .. Len(s) : f[m] \in Int
      OBVIOUS
    <3>2. \A m \in 1 .. Len(s) : s[m] \in Int
      OBVIOUS
    <3> QED
      BY <2>1, <3>1, <3>2
  <2>5. g[n] = f[n + k] - f[k]
    <3>1. \A a, b, c \in Int : (a - b) + c = (a + c) - b
      OBVIOUS
    <3>2. g[n] = (f[n + k - 1] - f[k]) + s[n + k]
      BY <2>2, <2>3, <2>4
    <3>3. g[n] = (f[n + k - 1] + s[n + k]) - f[k]
      BY <2>4, <3>1, <3>2
    <3> QED
      BY <2>2, <3>3
  <2> QED
    BY <2>1, <2>5
<1> HIDE DEF T
<1>4. 0 .. N \subseteq T
  BY <1>2, <1>3, UpTo
<1> QED
  BY <1>4 DEF T

\* A number is added at the end, ...
LEMMA TotalAppend ==
    ASSUME NEW s \in Seq(Int), NEW x \in Int
    PROVE  Total(s) \in Int /\ Total(Append(s, x)) = Total(s) + x
<1> DEFINE t == Append(s, x)
<1>1. /\ Len(s) \in Nat /\ t \in Seq(Int) /\ Len(t) = Len(s) + 1 /\ t[Len(s) + 1] = x
      /\ \A n \in 1 .. Len(s) : t[n] = s[n + 0]
  OBVIOUS
<1> HIDE DEF t
<1>2. PICK f \in [0 .. Len(s) -> Int] : Sums(f, s) /\ Total(s) = f[Len(s)]
  BY TotalOf
<1>3. PICK g \in [0 .. Len(t) -> Int] : Sums(g, t) /\ Total(t) = g[Len(t)]
  BY <1>1, TotalOf
<1>4. \A n \in 0 .. Len(s) : g[n] = f[n + 0] - f[0]
  <2>1. PICK N \in Nat : N = Len(s)
    BY <1>1
  <2>2. PICK k \in Nat : k = 0
    OBVIOUS
  <2>3. N <= Len(t) /\ N + k <= Len(s) /\ \A n \in 1 .. N : t[n] = s[n + k]
    BY <1>1, <2>1, <2>2
  <2>4. t \in Seq(Int) /\ Sums(f, s) /\ Sums(g, t)
    BY <1>1, <1>2, <1>3
  <2>5. \A n \in 0 .. N : g[n] = f[n + k] - f[k]
    BY <2>3, <2>4, SumsOfPart, ZenonT(40)
  <2> QED
    BY <2>1, <2>2, <2>5
<1>5. f[Len(s)] \in Int /\ g[Len(s)] = f[Len(s)]
  <2>1. Len(s) \in 0 .. Len(s) /\ Len(s) + 0 = Len(s)
    BY <1>1
  <2>2. f[Len(s)] \in Int /\ f[0] = 0
    BY <1>2, <2>1 DEF Sums
  <2> QED
    BY <1>4, <2>1, <2>2
<1>6. g[Len(s) + 1] = g[Len(s)] + x
  <2>1. PICK m : m = Len(s) + 1
    OBVIOUS
  <2>2. m \in 1 .. Len(t) /\ m - 1 = Len(s)
    BY <1>1, <2>1
  <2>3. g[m] = g[m - 1] + t[m]
    BY <1>3, <2>2 DEF Sums
  <2> QED
    BY <1>1, <2>1, <2>2, <2>3
<1> QED
  BY <1>1, <1>2, <1>3, <1>5, <1>6 DEF t

\* ... and the first is taken away.
LEMMA TotalTail ==
    ASSUME NEW s \in Seq(Int), s # <<>>
    PROVE  Total(Tail(s)) = Total(s) - s[1]
<1> DEFINE t == Tail(s)
<1>1. /\ Len(s) \in Nat /\ Len(s) >= 1 /\ t \in Seq(Int) /\ Len(t) = Len(s) - 1
      /\ \A n \in 1 .. Len(t) : t[n] = s[n + 1]
  OBVIOUS
<1> HIDE DEF t
<1>2. PICK f \in [0 .. Len(s) -> Int] : Sums(f, s) /\ Total(s) = f[Len(s)]
  BY TotalOf
<1>3. PICK g \in [0 .. Len(t) -> Int] : Sums(g, t) /\ Total(t) = g[Len(t)]
  BY <1>1, TotalOf
<1>4. \A n \in 0 .. Len(t) : g[n] = f[n + 1] - f[1]
  <2>1. PICK N \in Nat : N = Len(t)
    BY <1>1
  <2>2. PICK k \in Nat : k = 1
    OBVIOUS
  <2>3. N <= Len(t) /\ N + k <= Len(s) /\ \A n \in 1 .. N : t[n] = s[n + k]
    BY <1>1, <2>1, <2>2
  <2>4. t \in Seq(Int) /\ Sums(f, s) /\ Sums(g, t)
    BY <1>1, <1>2, <1>3
  <2>5. \A n \in 0 .. N : g[n] = f[n + k] - f[k]
    BY <2>3, <2>4, SumsOfPart, ZenonT(40)
  <2> QED
    BY <2>1, <2>2, <2>5
<1>5. f[1] = s[1]
  <2>1. 1 \in 1 .. Len(s) /\ 1 - 1 = 0 /\ s[1] \in Int
    BY <1>1
  <2>2. f[1] = f[0] + s[1] /\ f[0] = 0
    BY <1>2, <2>1 DEF Sums
  <2> QED
    BY <2>1, <2>2
<1>6. Len(t) \in 0 .. Len(t) /\ Len(t) + 1 = Len(s)
  BY <1>1
<1> QED
  BY <1>2, <1>3, <1>4, <1>5, <1>6 DEF t

\* Nothing at first.
LEMMA TotalEmpty == Total(<<>>) = 0
<1>1. <<>> \in Seq(Int) /\ Len(<<>>) = 0
  OBVIOUS
<1>2. PICK f \in [0 .. Len(<<>>) -> Int] : Sums(f, <<>>) /\ Total(<<>>) = f[Len(<<>>)]
  BY <1>1, TotalOf
<1> QED
  BY <1>1, <1>2 DEF Sums
\* The values of readings, those that are not finite as zero.
Nums(s) == [i \in DOMAIN s |-> s[i].num]

LEMMA NumsOf ==
    ASSUME NEW s \in Seq(Double)
    PROVE  /\ Nums(s) \in Seq(Int) /\ Len(Nums(s)) = Len(s)
           /\ Total(Nums(s)) \in Int
           /\ \A i \in 1 .. Len(s) : s[i].num \in Int /\ Nums(s)[i] = s[i].num
<1>1. Len(s) \in Nat /\ DOMAIN s = 1 .. Len(s) /\ \A i \in 1 .. Len(s) : s[i] \in Double
  OBVIOUS
<1>2. \A d \in Double : d.num \in Int
  BY DEF Double
<1>3. \A i \in 1 .. Len(s) : s[i].num \in Int
  BY <1>1, <1>2
<1>4. Nums(s) \in [1 .. Len(s) -> Int] /\ \A i \in 1 .. Len(s) : Nums(s)[i] = s[i].num
  BY <1>1, <1>3 DEF Nums
<1>5. Nums(s) \in Seq(Int)
  BY <1>1, <1>4, FunctionIsSeq, Zenon
<1>6. DOMAIN Nums(s) = 1 .. Len(s)
  BY <1>4
<1>7. Len(Nums(s)) = Len(s)
  BY <1>1, <1>5, <1>6
<1>8. Total(Nums(s)) \in Int
  BY <1>5, TotalAppend
<1> QED
  BY <1>3, <1>4, <1>5, <1>7, <1>8

\* The kinds of the terms of a sum, one by one.
LEMMA KindsAdd ==
    ASSUME NEW K, NEW k \in {"finite", "inf", "-inf", "nan"}
    PROVE  /\ KindOfSum(K) \in {"finite", "inf", "-inf", "nan"}
           /\ KindOfSum({KindOfSum(K), k}) = KindOfSum(K \cup {k})
           /\ KindOfSum(K \cup {"finite"}) = KindOfSum(K)
BY DEF KindOfSum

\* What the addition of doubles gives.
LEMMA PlusIs ==
    ASSUME NEW a \in Double, NEW b \in Double
    PROVE  /\ Plus(a, b) \in Double /\ Negative(a) \in Double
           /\ Plus(NaN, b) = NaN /\ NaN \in Double /\ Zero \in Double
           /\ b.kind = "finite" => Negative(b) = Number("finite", -b.num)
<1>1. a.num \in Int /\ b.num \in Int /\ a.num + b.num \in Int /\ -a.num \in Int
  BY DEF Double
<1>2. a.kind \in {"finite", "inf", "-inf", "nan"} /\ b.kind \in {"finite", "inf", "-inf", "nan"}
  BY DEF Double
<1>3. \A k \in {"finite", "inf", "-inf", "nan"} : \A n \in Int : Number(k, n) \in Double
  BY DEF Number, Double
<1>4. KindOfSum({a.kind, b.kind}) \in {"finite", "inf", "-inf", "nan"}
  BY <1>2, KindsAdd
<1>5. Plus(a, b) \in Double
  BY <1>1, <1>3, <1>4 DEF Plus
<1>6. Negative(a) \in Double
  <2>1. (IF a.kind = "inf" THEN "-inf" ELSE IF a.kind = "-inf" THEN "inf" ELSE a.kind)
           \in {"finite", "inf", "-inf", "nan"}
    BY <1>2
  <2> QED
    BY <1>1, <1>3, <2>1 DEF Negative
<1>7. Plus(NaN, b) = NaN
  <2>1. KindOfSum({"nan", b.kind}) = "nan"
    BY DEF KindOfSum
  <2> QED
    BY <2>1 DEF Plus, NaN, Number
<1>8. NaN \in Double /\ Zero \in Double
  BY <1>3 DEF NaN, Zero
<1>9. b.kind = "finite" => Negative(b) = Number("finite", -b.num)
  BY DEF Negative
<1> QED
  BY <1>5, <1>6, <1>7, <1>8, <1>9

\* The kinds of readings.
KindsIn(s) == {s[i].kind : i \in DOMAIN s}

\* The sum of the readings of a window is a double; nothing sums to zero, ...
LEMMA SumIs ==
    /\ SumOf(<<>>) = Zero
    /\ \A s \in Seq(Double) : SumOf(s) \in Double
<1>1. SumOf(<<>>) = Zero
  <2>1. KindOfSum({<<>>[i].kind : i \in DOMAIN <<>>}) = "finite"
    BY DEF KindOfSum
  <2>2. [i \in DOMAIN <<>> |-> <<>>[i].num] = <<>>
    OBVIOUS
  <2> QED
    BY <2>1, <2>2, TotalEmpty DEF SumOf, Zero
<1>2. ASSUME NEW s \in Seq(Double) PROVE SumOf(s) \in Double
  <2>1. KindOfSum(KindsIn(s)) \in {"finite", "inf", "-inf", "nan"}
    BY KindsAdd
  <2>2. Total(Nums(s)) \in Int
    BY NumsOf
  <2>3. SumOf(s) = Number(KindOfSum(KindsIn(s)), Total(Nums(s)))
    BY DEF SumOf, KindsIn, Nums
  <2>4. \A k \in {"finite", "inf", "-inf", "nan"} : \A n \in Int : Number(k, n) \in Double
    BY DEF Number, Double
  <2> QED
    BY <2>1, <2>2, <2>3, <2>4
<1> QED
  BY <1>1, <1>2

\* ... a reading is added at the end, ...
LEMMA SumAppend ==
    ASSUME NEW s \in Seq(Double), NEW x \in Double
    PROVE  SumOf(Append(s, x)) = Plus(SumOf(s), x)
<1> DEFINE t == Append(s, x)
<1>1. /\ Len(s) \in Nat /\ t \in Seq(Double) /\ Len(t) = Len(s) + 1 /\ t[Len(s) + 1] = x
      /\ \A n \in 1 .. Len(s) : t[n] = s[n]
      /\ DOMAIN s = 1 .. Len(s) /\ DOMAIN t = 1 .. Len(s) + 1
  OBVIOUS
<1> HIDE DEF t
<1>2. x.num \in Int /\ x.kind \in {"finite", "inf", "-inf", "nan"}
  BY DEF Double
<1>3. KindsIn(t) = KindsIn(s) \cup {x.kind}
  <2>1. \A n \in 1 .. Len(s) + 1 : n = Len(s) + 1 \/ n \in 1 .. Len(s)
    BY <1>1
  <2>2. Len(s) + 1 \in 1 .. Len(s) + 1 /\ \A n \in 1 .. Len(s) : n \in 1 .. Len(s) + 1
    BY <1>1
  <2> QED
    BY <1>1, <2>1, <2>2 DEF KindsIn
<1>4. Nums(t) = Append(Nums(s), x.num)
  <2> DEFINE A == Append(Nums(s), x.num)
  <2>1. /\ Nums(s) \in Seq(Int) /\ Len(Nums(s)) = Len(s)
        /\ \A i \in 1 .. Len(s) : Nums(s)[i] = s[i].num
    BY NumsOf
  <2>2. /\ Nums(t) \in Seq(Int) /\ Len(Nums(t)) = Len(t)
        /\ \A i \in 1 .. Len(t) : Nums(t)[i] = t[i].num
    BY <1>1, NumsOf
  <2>3. /\ A \in Seq(Int) /\ Len(A) = Len(s) + 1 /\ A[Len(s) + 1] = x.num
        /\ \A i \in 1 .. Len(s) : A[i] = s[i].num
    BY <1>1, <1>2, <2>1
  <2> HIDE DEF A
  <2>4. \A i \in 1 .. Len(s) + 1 : A[i] = Nums(t)[i]
    <3>1. \A i \in 1 .. Len(s) + 1 : i = Len(s) + 1 \/ i \in 1 .. Len(s)
      BY <1>1
    <3>2. Len(s) + 1 \in 1 .. Len(t) /\ \A i \in 1 .. Len(s) : i \in 1 .. Len(t)
      BY <1>1
    <3> QED
      BY <1>1, <2>2, <2>3, <3>1, <3>2
  <2>5. A = Nums(t)
    BY <1>1, <2>2, <2>3, <2>4
  <2> QED
    BY <2>5 DEF A
<1>5. Total(Nums(t)) = Total(Nums(s)) + x.num /\ Total(Nums(s)) \in Int
  BY <1>2, <1>4, NumsOf, TotalAppend
<1>6. /\ SumOf(s) = Number(KindOfSum(KindsIn(s)), Total(Nums(s)))
      /\ SumOf(t) = Number(KindOfSum(KindsIn(t)), Total(Nums(t)))
  BY DEF SumOf, KindsIn, Nums
<1>7. KindOfSum({KindOfSum(KindsIn(s)), x.kind}) = KindOfSum(KindsIn(t))
  <2>1. KindOfSum({KindOfSum(KindsIn(s)), x.kind}) = KindOfSum(KindsIn(s) \cup {x.kind})
    BY <1>2, KindsAdd
  <2> QED
    BY <1>3, <2>1
<1>8. KindOfSum(KindsIn(t)) = "finite" => KindOfSum(KindsIn(s)) = "finite"
  BY <1>3 DEF KindOfSum
<1>9. /\ SumOf(s).kind = KindOfSum(KindsIn(s))
      /\ KindOfSum(KindsIn(s)) = "finite" => SumOf(s).num = Total(Nums(s))
  BY <1>6 DEF Number
<1>10. Plus(SumOf(s), x) = Number(KindOfSum(KindsIn(t)), SumOf(s).num + x.num)
  BY <1>7, <1>9 DEF Plus
<1> QED
  BY <1>5, <1>6, <1>8, <1>9, <1>10 DEF Number, t

\* ... and the first taken away: it leaves the sum of the others if it is finite, and
\* NaN otherwise.
LEMMA SumTail ==
    ASSUME NEW s \in Seq(Double), s # <<>>
    PROVE  Plus(SumOf(s), Negative(s[1])) = IF s[1].kind = "finite" THEN SumOf(Tail(s)) ELSE NaN
<1> DEFINE t == Tail(s)
           x == s[1]
<1>1. /\ Len(s) \in Nat /\ Len(s) >= 1 /\ t \in Seq(Double) /\ Len(t) = Len(s) - 1
      /\ \A n \in 1 .. Len(t) : t[n] = s[n + 1]
      /\ DOMAIN s = 1 .. Len(s) /\ DOMAIN t = 1 .. Len(s) - 1 /\ x \in Double
  OBVIOUS
<1> HIDE DEF t
<1>2. x.num \in Int /\ x.kind \in {"finite", "inf", "-inf", "nan"}
  BY <1>1 DEF Double
<1>3. KindsIn(s) = KindsIn(t) \cup {x.kind}
  <2>1. \A n \in 1 .. Len(s) : n = 1 \/ (n - 1 \in 1 .. Len(t) /\ s[n] = t[n - 1])
    <3>1. \A n \in 1 .. Len(s) : n = 1 \/ (n - 1 \in 1 .. Len(t) /\ n - 1 + 1 = n)
      BY <1>1
    <3> QED
      BY <1>1, <3>1
  <2>2. 1 \in 1 .. Len(s) /\ \A n \in 1 .. Len(t) : n + 1 \in 1 .. Len(s)
    BY <1>1
  <2>3. KindsIn(s) \subseteq KindsIn(t) \cup {x.kind}
    <3> SUFFICES ASSUME NEW n \in 1 .. Len(s) PROVE s[n].kind \in KindsIn(t) \cup {x.kind}
      BY <1>1 DEF KindsIn
    <3>1. CASE n = 1
      BY <3>1
    <3>2. CASE n # 1
      <4>1. PICK m \in 1 .. Len(t) : s[n] = t[m]
        BY <2>1, <3>2
      <4>2. t[m].kind \in KindsIn(t)
        BY <1>1 DEF KindsIn
      <4> QED
        BY <4>1, <4>2
    <3> QED
      BY <3>1, <3>2
  <2>4. KindsIn(t) \cup {x.kind} \subseteq KindsIn(s)
    BY <1>1, <2>2 DEF KindsIn
  <2> QED
    BY <2>3, <2>4
<1>4. /\ SumOf(s) = Number(KindOfSum(KindsIn(s)), Total(Nums(s)))
      /\ SumOf(t) = Number(KindOfSum(KindsIn(t)), Total(Nums(t)))
  BY DEF SumOf, KindsIn, Nums
<1>5. /\ SumOf(s).kind = KindOfSum(KindsIn(s))
      /\ KindOfSum(KindsIn(s)) = "finite" => SumOf(s).num = Total(Nums(s))
  BY <1>4 DEF Number
<1>6. CASE x.kind = "finite"
  <2>1. KindOfSum(KindsIn(s)) = KindOfSum(KindsIn(t))
    <3>1. KindsIn(s) = KindsIn(t) \cup {"finite"}
      BY <1>3, <1>6
    <3>2. KindOfSum(KindsIn(t) \cup {"finite"}) = KindOfSum(KindsIn(t))
      BY KindsAdd
    <3> QED
      BY <3>1, <3>2
  <2>2. KindOfSum({KindOfSum(KindsIn(s)), "finite"}) = KindOfSum(KindsIn(s))
    <3>1. KindOfSum({KindOfSum(KindsIn(s)), "finite"}) = KindOfSum(KindsIn(s) \cup {"finite"})
      BY KindsAdd
    <3> QED
      BY <3>1, KindsAdd
  <2>3. Total(Nums(t)) = Total(Nums(s)) - x.num /\ Total(Nums(s)) \in Int
    <3>1. /\ Nums(s) \in Seq(Int) /\ Len(Nums(s)) = Len(s)
          /\ \A i \in 1 .. Len(s) : Nums(s)[i] = s[i].num
      BY NumsOf
    <3>2. /\ Nums(t) \in Seq(Int) /\ Len(Nums(t)) = Len(t)
          /\ \A i \in 1 .. Len(t) : Nums(t)[i] = t[i].num
      BY <1>1, NumsOf
    <3>3. Nums(s) # <<>> /\ Nums(s)[1] = x.num
      BY <1>1, <3>1
    <3>4. Tail(Nums(s)) = Nums(t)
      <4> DEFINE A == Nums(s)
                 B == Nums(t)
      <4> HIDE DEF A, B
      <4>1. /\ A \in Seq(Int) /\ Len(A) = Len(s) /\ B \in Seq(Int) /\ Len(B) = Len(s) - 1
            /\ A # <<>>
        BY <1>1, <3>1, <3>2, <3>3 DEF A, B
      <4>2. /\ Tail(A) \in Seq(Int) /\ Len(Tail(A)) = Len(s) - 1
            /\ \A i \in 1 .. Len(s) - 1 : Tail(A)[i] = A[i + 1]
        BY <4>1
      <4>3. \A i \in 1 .. Len(s) - 1 : A[i + 1] = B[i]
        <5>1. \A i \in 1 .. Len(s) - 1 : i \in 1 .. Len(t) /\ i + 1 \in 1 .. Len(s)
          BY <1>1
        <5> QED
          BY <1>1, <3>1, <3>2, <5>1 DEF A, B
      <4>4. Tail(A) = B
        <5>1. PICK C : C = Tail(A)
          OBVIOUS
        <5>2. C \in Seq(Int) /\ Len(C) = Len(B) /\ \A i \in 1 .. Len(C) : C[i] = B[i]
          BY <4>1, <4>2, <4>3, <5>1
        <5>3. C = B
          <6>1. C = [i \in 1 .. Len(C) |-> C[i]] /\ B = [i \in 1 .. Len(B) |-> B[i]]
            BY <4>1, <5>2
          <6>2. [i \in 1 .. Len(C) |-> C[i]] = [i \in 1 .. Len(B) |-> B[i]]
            BY <5>2, Zenon
          <6> QED
            BY <6>1, <6>2
        <5> QED
          BY <5>1, <5>3
      <4> QED
        BY <4>4 DEF A, B
    <3>5. Total(Tail(Nums(s))) = Total(Nums(s)) - Nums(s)[1]
      BY <3>1, <3>3, TotalTail
    <3> QED
      BY <3>3, <3>4, <3>5, NumsOf
  <2>4. Negative(x) = Number("finite", -x.num)
    BY <1>1, <1>6, PlusIs
  <2>5. Negative(x).kind = "finite" /\ Negative(x).num = -x.num
    BY <2>4 DEF Number
  <2>6. Plus(SumOf(s), Negative(x)) = Number(KindOfSum(KindsIn(t)), SumOf(s).num + (-x.num))
    BY <1>5, <2>1, <2>2, <2>5 DEF Plus
  <2>7. Plus(SumOf(s), Negative(x)) = SumOf(t)
    <3>1. CASE KindOfSum(KindsIn(t)) = "finite"
      <4>1. SumOf(s).num + (-x.num) = Total(Nums(t))
        BY <1>2, <1>5, <2>1, <2>3, <3>1
      <4> QED
        BY <1>4, <2>6, <4>1
    <3>2. CASE KindOfSum(KindsIn(t)) # "finite"
      BY <1>4, <2>6, <3>2 DEF Number
    <3> QED
      BY <3>1, <3>2
  <2> QED
    BY <1>6, <2>7 DEF t
<1>7. CASE x.kind # "finite"
  <2>1. x.kind \in KindsIn(s)
    BY <1>3
  <2>2. Negative(x).kind = IF x.kind = "inf" THEN "-inf" ELSE IF x.kind = "-inf" THEN "inf" ELSE "nan"
    BY <1>2, <1>7 DEF Negative, Number
  <2>3. KindOfSum({KindOfSum(KindsIn(s)), Negative(x).kind}) = "nan"
    BY <1>2, <1>7, <2>1, <2>2 DEF KindOfSum
  <2> QED
    BY <1>5, <1>7, <2>3 DEF Plus, NaN, Number
<1> QED
  BY <1>6, <1>7
-----------------------------------------------------------------------------
(* The window of the filter.                                               *)

\* A reading more: the window grows by it until it is full; then the first of the
\* window leaves.
LEMMA WindowMoves ==
    ASSUME NEW S, NEW s \in Seq(S), NEW x \in S, NEW w \in Nat, w >= 1
    PROVE  /\ LastOf(w, s) \in Seq(S)
           /\ Len(s) < w => /\ Len(LastOf(w, s)) = Len(s)
                            /\ LastOf(w, Append(s, x)) = Append(LastOf(w, s), x)
           /\ Len(s) >= w => /\ Len(LastOf(w, s)) = w
                             /\ LastOf(w, s)[1] = s[Len(s) - w + 1]
                             /\ LastOf(w, Append(s, x)) = Append(Tail(LastOf(w, s)), x)
<1> DEFINE t == Append(s, x)
<1>1. /\ Len(s) \in Nat /\ t \in Seq(S) /\ Len(t) = Len(s) + 1 /\ t[Len(s) + 1] = x
      /\ \A n \in 1 .. Len(s) : t[n] = s[n]
  OBVIOUS
<1> HIDE DEF t
<1>2. CASE Len(s) < w
  <2>1. LastOf(w, s) = s
    <3>1. ~(Len(s) > w)
      BY <1>1, <1>2
    <3>2. LastOf(w, s) = SubSeq(s, 1, Len(s))
      BY <3>1 DEF LastOf
    <3> QED
      BY <3>2
  <2>2. LastOf(w, t) = t
    <3>1. ~(Len(t) > w)
      BY <1>1, <1>2
    <3>2. LastOf(w, t) = SubSeq(t, 1, Len(t))
      BY <3>1 DEF LastOf
    <3> QED
      BY <1>1, <3>2
  <2> QED
    BY <1>1, <1>2, <2>1, <2>2 DEF t
<1>3. CASE Len(s) >= w
  <2> DEFINE k == Len(s) - w
             L == LastOf(w, s)
             M == LastOf(w, t)
  <2>1. k \in Nat /\ k + w = Len(s)
    BY <1>1, <1>3
  <2>2. L = SubSeq(s, k + 1, Len(s))
    <3>1. (IF Len(s) > w THEN Len(s) - w + 1 ELSE 1) = k + 1
      BY <1>1, <1>3
    <3> QED
      BY <3>1 DEF LastOf
  <2>3. M = SubSeq(t, k + 2, Len(t))
    <3>1. (IF Len(t) > w THEN Len(t) - w + 1 ELSE 1) = k + 2
      BY <1>1, <1>3
    <3> QED
      BY <3>1 DEF LastOf
  <2> HIDE DEF k, L, M
  <2>4. L \in Seq(S) /\ Len(L) = w /\ \A i \in 1 .. w : L[i] = s[k + i]
    BY <1>1, <2>1, <2>2, SMTT(30)
  <2>5. M \in Seq(S) /\ Len(M) = w /\ \A i \in 1 .. w : M[i] = t[k + 1 + i]
    BY <1>1, <2>1, <2>3, SMTT(30)
  <2>6. /\ Tail(L) \in Seq(S) /\ Len(Tail(L)) = w - 1
        /\ \A i \in 1 .. w - 1 : Tail(L)[i] = L[i + 1]
    BY <2>4
  <2> DEFINE R == Append(Tail(L), x)
  <2>7. /\ R \in Seq(S) /\ Len(R) = w /\ R[w] = x
        /\ \A i \in 1 .. w - 1 : R[i] = L[i + 1]
    BY <2>6
  <2> HIDE DEF R
  <2>8. \A i \in 1 .. w : M[i] = R[i]
    <3>1. ASSUME NEW i \in 1 .. w - 1 PROVE M[i] = R[i]
      <4>1. i \in 1 .. w /\ i + 1 \in 1 .. w /\ k + 1 + i = k + (i + 1) /\ k + 1 + i \in 1 .. Len(s)
        BY <2>1
      <4> QED
        BY <1>1, <2>4, <2>5, <2>7, <4>1
    <3>2. M[w] = R[w]
      <4>1. w \in 1 .. w /\ k + 1 + w = Len(s) + 1
        BY <2>1
      <4> QED
        BY <1>1, <2>5, <2>7, <4>1
    <3>3. \A i \in 1 .. w : i = w \/ i \in 1 .. w - 1
      OBVIOUS
    <3> QED
      BY <3>1, <3>2, <3>3
  <2>9. M = R
    BY <2>5, <2>7, <2>8
  <2>10. L[1] = s[Len(s) - w + 1]
    BY <2>4 DEF k
  <2> QED
    BY <1>1, <1>3, <2>4, <2>9, <2>10 DEF L, M, R, t
<1> QED
  BY <1>1, <1>2, <1>3

\* How many readings the window has.
LEMMA WindowLength ==
    ASSUME NEW S, NEW s \in Seq(S), NEW w \in Nat, w >= 1
    PROVE  /\ LastOf(w, s) \in Seq(S)
           /\ Len(LastOf(w, s)) = IF Len(s) < w THEN Len(s) ELSE w
<1>1. Len(s) \in Nat
  OBVIOUS
<1>2. CASE s = <<>>
  <2>1. Len(s) = 0 /\ ~(0 > w) /\ <<>> \in Seq(S)
    BY <1>2
  <2>2. LastOf(w, s) = SubSeq(s, 1, 0)
    BY <2>1 DEF LastOf
  <2> QED
    BY <1>2, <2>1, <2>2
<1>3. CASE s # <<>>
  <2>1. PICK x \in S : x = s[1]
    BY <1>3
  <2>2. /\ LastOf(w, s) \in Seq(S)
        /\ Len(s) < w => Len(LastOf(w, s)) = Len(s)
        /\ Len(s) >= w => Len(LastOf(w, s)) = w
    BY WindowMoves
  <2> QED
    BY <1>1, <2>2
<1> QED
  BY <1>2, <1>3

\* What values the variables of the point keep.
EdgeKinds ==
    /\ config \in Configs
    /\ filter \in [window : Nat \ {0}, buf : [0 .. filter.window - 1 -> Double],
                   head : 0 .. filter.window - 1, count : Nat, sum : Double]
    /\ filter.window = IF config.window = 0 THEN 1 ELSE config.window
    /\ rule \in [highActive : BOOLEAN, lowActive : BOOLEAN]
    /\ readings \in Seq(Double) /\ means \in Seq([sum : Double, den : Nat])
    /\ events \in Seq([level : {"high", "low"}, active : BOOLEAN,
                       value : [sum : Double, den : Nat]])

\* The sum of the window, lost once a reading that is not finite has left it.
SumAfter(w, s) ==
    IF \E i \in 1 .. Len(s) - Len(LastOf(w, s)) : s[i].kind # "finite"
    THEN NaN ELSE SumOf(LastOf(w, s))

\* Where which reading is: below the head the last ones, from it on, if the window
\* is full, those before them.
InRing(f, s) ==
    /\ f.count = IF Len(s) < f.window THEN Len(s) ELSE f.window
    /\ Len(s) < f.window => f.head = Len(s)
    /\ \A i \in 0 .. f.window - 1 : i < f.head => f.buf[i] = s[Len(s) - f.head + 1 + i]
    /\ Len(s) >= f.window =>
          \A i \in 0 .. f.window - 1 :
              i >= f.head => f.buf[i] = s[Len(s) - f.window - f.head + 1 + i]
    /\ f.sum = SumAfter(f.window, s)

\* The slot after another.
LEMMA NextSlot ==
    ASSUME NEW w \in Nat, w >= 1, NEW h \in Nat, h < w
    PROVE  (h + 1) % w = IF h + 1 = w THEN 0 ELSE h + 1
BY SMT

\* A reading is pushed into the ring.
LEMMA PushedInRing ==
    ASSUME NEW f, NEW s \in Seq(Double), NEW v \in Double,
           f \in [window : Nat \ {0}, buf : [0 .. f.window - 1 -> Double],
                  head : 0 .. f.window - 1, count : Nat, sum : Double],
           InRing(f, s),
           NEW g, g = Pushed(f, v)
    PROVE  /\ g.window = f.window
           /\ g \in [window : Nat \ {0}, buf : [0 .. f.window - 1 -> Double],
                     head : 0 .. f.window - 1, count : Nat, sum : Double]
           /\ InRing(g, Append(s, v))
<1> DEFINE w == f.window
           h == f.head
           t == Append(s, v)
           N == Len(s)
<1>1. /\ N \in Nat /\ t \in Seq(Double) /\ Len(t) = N + 1 /\ t[N + 1] = v
      /\ \A n \in 1 .. N : t[n] = s[n]
  OBVIOUS
<1>2. /\ w \in Nat /\ w >= 1 /\ h \in Nat /\ h < w /\ f.count \in Nat /\ f.sum \in Double
      /\ f.buf \in [0 .. w - 1 -> Double]
  OBVIOUS
<1>3. /\ f.count = IF N < w THEN N ELSE w
      /\ N < w => h = N
      /\ \A i \in 0 .. w - 1 : i < h => f.buf[i] = s[N - h + 1 + i]
      /\ N >= w => \A i \in 0 .. w - 1 : i >= h => f.buf[i] = s[N - w - h + 1 + i]
      /\ f.sum = SumAfter(w, s)
  BY DEF InRing
<1>4. /\ g.window = w /\ g.buf = [f.buf EXCEPT ![h] = v] /\ g.head = (h + 1) % w
      /\ g.count = IF f.count = w THEN w ELSE f.count + 1
      /\ g.sum = Plus(Remaining(f), v)
      /\ g = [window |-> g.window, buf |-> g.buf, head |-> g.head, count |-> g.count, sum |-> g.sum]
  BY DEF Pushed
<1> HIDE DEF w, h, t, N
<1>5. g.head = IF h + 1 = w THEN 0 ELSE h + 1
  BY <1>2, <1>4, NextSlot
<1>6. /\ g.buf \in [0 .. w - 1 -> Double] /\ g.buf[h] = v
      /\ \A i \in 0 .. w - 1 : i # h => g.buf[i] = f.buf[i]
  BY <1>2, <1>4
<1>7. Remaining(f) = IF N < w THEN f.sum ELSE Plus(f.sum, Negative(s[N - w + 1]))
  <2>1. CASE N < w
    BY <1>1, <1>2, <1>3, <2>1 DEF Remaining, w
  <2>2. CASE N >= w
    <3>1. h \in 0 .. w - 1 /\ N - w - h + 1 + h = N - w + 1 /\ f.count = w
      BY <1>1, <1>2, <1>3, <2>2
    <3>2. f.buf[h] = s[N - w + 1]
      BY <1>3, <2>2, <3>1
    <3> QED
      BY <1>1, <1>2, <2>2, <3>1, <3>2 DEF Remaining, w, h
  <2> QED
    BY <1>1, <1>2, <2>1, <2>2
<1>8. g.sum = SumAfter(w, t) /\ g.sum \in Double
  <2> DEFINE L == LastOf(w, s)
             R == LastOf(w, t)
  <2>1. L \in Seq(Double) /\ Len(L) = IF N < w THEN N ELSE w
    BY <1>2, WindowLength DEF N
  <2>2. R \in Seq(Double) /\ Len(R) = IF N + 1 < w THEN N + 1 ELSE w
    BY <1>1, <1>2, WindowLength
  <2>3. /\ N < w => R = Append(L, v)
        /\ N >= w => L[1] = s[N - w + 1] /\ R = Append(Tail(L), v)
    BY <1>2, WindowMoves DEF N, t
  <2> HIDE DEF L, R
  <2>4. SumOf(L) \in Double /\ SumOf(R) \in Double /\ NaN \in Double
    BY <2>1, <2>2, SumIs, PlusIs
  <2>5. CASE N < w
    <3>1. Len(s) - Len(L) = 0 /\ Len(t) - Len(R) = 0 /\ 1 .. 0 = {}
      BY <1>1, <1>2, <2>1, <2>2, <2>5 DEF N
    <3>2. SumAfter(w, s) = SumOf(L) /\ SumAfter(w, t) = SumOf(R)
      BY <3>1 DEF SumAfter, L, R
    <3>3. SumOf(R) = Plus(SumOf(L), v)
      BY <2>1, <2>3, <2>5, SumAppend
    <3> QED
      BY <1>3, <1>4, <1>7, <2>4, <2>5, <3>2, <3>3
  <2>6. CASE N >= w
    <3> DEFINE d == N - w + 1
    <3>1. /\ L # <<>> /\ L[1] = s[d] /\ R = Append(Tail(L), v) /\ Tail(L) \in Seq(Double)
          /\ L[1] \in Double
      <4>1. Len(L) = w
        BY <1>1, <1>2, <2>1, <2>6
      <4> QED
        BY <1>2, <2>1, <2>3, <2>6, <4>1
    <3>2. /\ Len(s) - Len(L) = d - 1 /\ Len(t) - Len(R) = d /\ d \in Nat
          /\ 1 .. d = 1 .. d - 1 \cup {d} /\ \A i \in 1 .. d : t[i] = s[i]
      <4>1. Len(s) - Len(L) = N - w /\ Len(t) - Len(R) = N - w + 1
        <5>1. Len(L) = w /\ Len(R) = w /\ Len(s) = N
          BY <1>1, <1>2, <2>1, <2>2, <2>6 DEF N
        <5> QED
          BY <1>1, <1>2, <5>1
      <4>2. d \in Nat /\ d >= 1 /\ d <= N /\ d - 1 = N - w
        BY <1>1, <1>2, <2>6
      <4>3. \A i \in 1 .. d : i \in 1 .. N
        BY <1>1, <4>2
      <4>4. N - w + 1 = d
        OBVIOUS
      <4> HIDE DEF d
      <4>5. 1 .. d = 1 .. d - 1 \cup {d}
        BY <4>2
      <4> QED
        BY <1>1, <4>1, <4>2, <4>3, <4>4, <4>5
    <3>3. Remaining(f) = Plus(SumAfter(w, s), Negative(s[d]))
      BY <1>1, <1>2, <1>3, <1>7, <2>6
    <3> HIDE DEF d
    <3>4. /\ SumAfter(w, s) = IF \E i \in 1 .. d - 1 : s[i].kind # "finite" THEN NaN ELSE SumOf(L)
          /\ SumAfter(w, t) = IF \E i \in 1 .. d : s[i].kind # "finite" THEN NaN ELSE SumOf(R)
      BY <3>2 DEF SumAfter, L, R
    <3>5. Negative(L[1]) \in Double
      BY <3>1, PlusIs
    <3>6. CASE \E i \in 1 .. d - 1 : s[i].kind # "finite"
      <4>1. SumAfter(w, s) = NaN /\ SumAfter(w, t) = NaN
        BY <3>2, <3>4, <3>6
      <4>2. Remaining(f) = NaN
        BY <3>1, <3>3, <3>5, <4>1, PlusIs
      <4> QED
        <5>1. Plus(NaN, v) = NaN
          BY <2>4, PlusIs
        <5> QED
          BY <1>4, <2>4, <4>1, <4>2, <5>1
    <3>7. CASE ~\E i \in 1 .. d - 1 : s[i].kind # "finite"
      <4>1. SumAfter(w, s) = SumOf(L)
        BY <3>4, <3>7
      <4>2. Remaining(f) = IF s[d].kind = "finite" THEN SumOf(Tail(L)) ELSE NaN
        BY <2>1, <3>1, <3>3, <4>1, SumTail
      <4>3. CASE s[d].kind = "finite"
        <5>1. SumAfter(w, t) = SumOf(R)
          BY <3>2, <3>4, <3>7, <4>3
        <5>2. SumOf(R) = Plus(SumOf(Tail(L)), v)
          BY <3>1, SumAppend
        <5> QED
          BY <1>4, <2>4, <4>2, <4>3, <5>1, <5>2
      <4>4. CASE s[d].kind # "finite"
        <5>1. SumAfter(w, t) = NaN
          BY <3>2, <3>4, <4>4
        <5>2. Plus(NaN, v) = NaN
          BY <2>4, PlusIs
        <5> QED
          BY <1>4, <2>4, <4>2, <4>4, <5>1, <5>2
      <4> QED
        BY <4>3, <4>4
    <3> QED
      BY <3>6, <3>7
  <2> QED
    BY <1>1, <1>2, <2>5, <2>6
<1>9. g.count = (IF N + 1 < w THEN N + 1 ELSE w) /\ (N + 1 < w => g.head = N + 1)
  <2>1. CASE N < w
    <3>1. f.count = N /\ h = N
      BY <1>3, <2>1
    <3>2. g.count = N + 1
      BY <1>1, <1>2, <1>4, <2>1, <3>1
    <3> QED
      BY <1>1, <1>2, <1>5, <2>1, <3>1, <3>2, SMTT(30)
  <2>2. CASE N >= w
    <3>1. f.count = w /\ ~(N + 1 < w)
      BY <1>1, <1>2, <1>3, <2>2
    <3> QED
      BY <1>4, <3>1
  <2> QED
    BY <1>1, <1>2, <2>1, <2>2
<1>10. ASSUME NEW i \in 0 .. g.window - 1, i < g.head
       PROVE  g.buf[i] = t[Len(t) - g.head + 1 + i]
  <2>1. i \in 0 .. w - 1
    BY <1>4
  <2>2. g.head = h + 1 /\ i <= h /\ h <= N
    <3>1. g.head # 0 /\ g.head = h + 1
      BY <1>2, <1>5, <1>10, <2>1
    <3>2. h <= N
      BY <1>1, <1>2, <1>3
    <3> QED
      BY <1>2, <1>10, <2>1, <3>1, <3>2
  <2>3. PICK n : n = Len(t) - g.head + 1 + i
    OBVIOUS
  <2>4. n = N - h + 1 + i
    BY <1>1, <1>2, <2>1, <2>2, <2>3
  <2>5. CASE i = h
    <3>1. n = N + 1
      BY <1>1, <1>2, <2>4, <2>5
    <3> QED
      BY <1>1, <1>6, <2>3, <2>5, <3>1
  <2>6. CASE i # h
    <3>1. i < h /\ n \in 1 .. N
      BY <1>1, <1>2, <2>1, <2>2, <2>4, <2>6
    <3>2. g.buf[i] = f.buf[i] /\ f.buf[i] = s[n] /\ t[n] = s[n]
      BY <1>1, <1>3, <1>6, <2>1, <2>4, <2>6, <3>1
    <3> QED
      BY <2>3, <3>2
  <2> QED
    BY <2>5, <2>6
<1>11. ASSUME Len(t) >= g.window, NEW i \in 0 .. g.window - 1, i >= g.head
       PROVE  g.buf[i] = t[Len(t) - g.window - g.head + 1 + i]
  <2>1. i \in 0 .. w - 1 /\ N + 1 >= w
    BY <1>1, <1>4, <1>11
  <2>2. PICK n : n = Len(t) - g.window - g.head + 1 + i
    OBVIOUS
  <2>3. n = N + 1 - w - g.head + 1 + i
    <3>1. Len(t) = N + 1 /\ g.window = w
      BY <1>1, <1>4
    <3>2. N \in Nat /\ w \in Nat /\ i \in Nat /\ g.head \in Nat
      BY <1>1, <1>2, <1>5, <2>1
    <3> QED
      BY <2>2, <3>1, <3>2
  <2>4. CASE h + 1 = w
    <3>1. g.head = 0 /\ n = N - h + 1 + i /\ i <= h /\ h <= N
      BY <1>1, <1>2, <1>5, <2>1, <2>3, <2>4, SMTT(30)
    <3>2. CASE i = h
      <4>1. n = N + 1
        BY <1>1, <1>2, <3>1, <3>2
      <4> QED
        BY <1>1, <1>6, <2>2, <3>2, <4>1
    <3>3. CASE i # h
      <4>1. i < h /\ n \in 1 .. N
        BY <1>1, <1>2, <2>1, <3>1, <3>3
      <4>2. g.buf[i] = f.buf[i] /\ f.buf[i] = s[n] /\ t[n] = s[n]
        BY <1>1, <1>3, <1>6, <2>1, <3>1, <3>3, <4>1
      <4> QED
        BY <2>2, <4>2
    <3> QED
      BY <3>2, <3>3
  <2>5. CASE h + 1 # w
    <3>1. g.head = h + 1 /\ N >= w /\ i # h /\ i >= h
      <4>1. g.head = h + 1
        BY <1>5, <2>5
      <4>2. i >= h + 1
        BY <1>11, <4>1
      <4>3. N >= w
        BY <1>1, <1>2, <1>3, <2>1, <2>5
      <4> QED
        BY <1>2, <2>1, <4>1, <4>2, <4>3
    <3>2. n = N - w - h + 1 + i /\ n \in 1 .. N
      BY <1>1, <1>2, <2>1, <2>3, <3>1
    <3>3. g.buf[i] = f.buf[i] /\ f.buf[i] = s[n] /\ t[n] = s[n]
      BY <1>1, <1>3, <1>6, <2>1, <3>1, <3>2
    <3> QED
      BY <2>2, <3>3
  <2> QED
    BY <2>4, <2>5
<1>12. InRing(g, t)
  <2>1. /\ g.count = IF Len(t) < g.window THEN Len(t) ELSE g.window
        /\ Len(t) < g.window => g.head = Len(t)
    BY <1>1, <1>4, <1>9
  <2>2. g.sum = SumAfter(g.window, t)
    BY <1>4, <1>8
  <2> QED
    BY <1>10, <1>11, <2>1, <2>2 DEF InRing
<1>13. g.head \in 0 .. w - 1 /\ g.count \in Nat /\ g.window \in Nat \ {0}
  <2>1. g.head \in 0 .. w - 1
    BY <1>2, <1>5
  <2>2. g.count \in Nat
    BY <1>1, <1>2, <1>9
  <2> QED
    BY <1>2, <1>4, <2>1, <2>2
<1> QED
  BY <1>4, <1>6, <1>8, <1>12, <1>13 DEF w, t

\* An empty filter holds no readings.
LEMMA EmptyInRing ==
    ASSUME NEW window \in Nat, NEW f, f = EmptyFilter(window)
    PROVE  /\ f.window = IF window = 0 THEN 1 ELSE window
           /\ f \in [window : Nat \ {0}, buf : [0 .. f.window - 1 -> Double],
                     head : 0 .. f.window - 1, count : Nat, sum : Double]
           /\ InRing(f, <<>>)
<1> DEFINE w == IF window = 0 THEN 1 ELSE window
<1>1. w \in Nat \ {0} /\ w >= 1 /\ 0 \in 0 .. w - 1
  OBVIOUS
<1>2. f = [window |-> w, buf |-> [i \in 0 .. w - 1 |-> Zero], head |-> 0, count |-> 0,
           sum |-> Zero]
  BY DEF EmptyFilter
<1> HIDE DEF w
<1>3. /\ f.window = w /\ f.head = 0 /\ f.count = 0 /\ f.sum = Zero
      /\ f.buf \in [0 .. w - 1 -> Double] /\ Zero \in Double
  <2>1. NaN \in Double /\ Zero \in Double
    BY DEF NaN, Zero, Number, Double
  <2> QED
    BY <1>2, <2>1
<1>4. LastOf(w, <<>>) = <<>>
  <2>1. Len(<<>>) = 0 /\ ~(0 > w)
    BY <1>1
  <2> QED
    BY <2>1 DEF LastOf
<1>5. InRing(f, <<>>)
  <2>1. Len(<<>>) = 0 /\ 0 < w /\ ~(0 >= w) /\ \A i \in 0 .. w - 1 : ~(i < 0)
    BY <1>1
  <2>2. SumAfter(w, <<>>) = Zero
    <3>1. 1 .. Len(<<>>) - Len(LastOf(w, <<>>)) = {}
      BY <1>4
    <3> QED
      BY <1>4, <3>1, SumIs DEF SumAfter
  <2> QED
    BY <1>3, <2>1, <2>2 DEF InRing
<1> QED
  BY <1>1, <1>2, <1>3, <1>5 DEF w
-----------------------------------------------------------------------------
(* The alarms.                                                             *)

\* A mean, an event, and an event of one level.
Fraction == [sum : Double, den : Nat]
Event == [level : {"high", "low"}, active : BOOLEAN, value : Fraction]
Of(level) == [level : {level}, active : BOOLEAN, value : Fraction]

\* How often an alarm has flipped since value k.
Flipped(raising, k, n) == {i \in k + 1 .. n : i \in raising}

\* There is a value that has set the alarm, or none has; ...
LEMMA SomeDecides ==
    ASSUME NEW raising, NEW clearing, NEW n \in Nat
    PROVE  \E k \in 0 .. n :
              /\ k = 0 \/ ~(k \in raising <=> k \in clearing)
              /\ \A i \in k + 1 .. n : i \in raising <=> i \in clearing
<1> DEFINE T == {m \in 0 .. n : \E k \in 0 .. m :
                    /\ k = 0 \/ ~(k \in raising <=> k \in clearing)
                    /\ \A i \in k + 1 .. m : i \in raising <=> i \in clearing}
<1>1. 0 \in T
  <2>1. 0 \in 0 .. n /\ 0 \in 0 .. 0 /\ 0 + 1 .. 0 = {}
    OBVIOUS
  <2> QED
    BY <2>1
<1>2. ASSUME NEW m \in 1 .. n, m - 1 \in T PROVE m \in T
  <2>1. PICK k \in 0 .. m - 1 :
              /\ k = 0 \/ ~(k \in raising <=> k \in clearing)
              /\ \A i \in k + 1 .. m - 1 : i \in raising <=> i \in clearing
    BY <1>2
  <2>2. m \in 0 .. n /\ k \in 0 .. m /\ m \in 0 .. m /\ m + 1 .. m = {}
    OBVIOUS
  <2>3. CASE m \in raising <=> m \in clearing
    <3>1. \A i \in k + 1 .. m : i = m \/ i \in k + 1 .. m - 1
      OBVIOUS
    <3>2. \A i \in k + 1 .. m : i \in raising <=> i \in clearing
      BY <2>1, <2>3, <3>1
    <3> QED
      BY <2>1, <2>2, <3>2
  <2>4. CASE ~(m \in raising <=> m \in clearing)
    BY <2>2, <2>4
  <2> QED
    BY <2>3, <2>4
<1> HIDE DEF T
<1>3. n \in 0 .. n /\ 0 .. n \subseteq T
  BY <1>1, <1>2, UpTo
<1> QED
  BY <1>3 DEF T

\* ... there is only one, and what it and the later ones say is the alarm.
LEMMA AlarmedIs ==
    ASSUME NEW raising, NEW clearing, NEW n \in Nat, NEW k \in 0 .. n,
           k = 0 \/ ~(k \in raising <=> k \in clearing),
           \A i \in k + 1 .. n : i \in raising <=> i \in clearing
    PROVE  Alarmed(raising, clearing, n) <=>
             ~(k \in raising <=> Cardinality(Flipped(raising, k, n)) % 2 = 1)
<1> DEFINE Odd(m) == Cardinality(Flipped(raising, m, n)) % 2 = 1
<1>1. Alarmed(raising, clearing, n) <=>
        \E m \in 0 .. n :
            /\ m = 0 \/ ~(m \in raising <=> m \in clearing)
            /\ \A i \in m + 1 .. n : i \in raising <=> i \in clearing
            /\ ~(m \in raising <=> Odd(m))
  <2>1. \A m : /\ ((m \in raising) # (m \in clearing)) <=> ~(m \in raising <=> m \in clearing)
               /\ ((m \in raising) = (m \in clearing)) <=> (m \in raising <=> m \in clearing)
               /\ ((m \in raising) # Odd(m)) <=> ~(m \in raising <=> Odd(m))
    OBVIOUS
  <2>2. Alarmed(raising, clearing, n) <=>
          \E m \in 0 .. n :
              /\ m = 0 \/ (m \in raising) # (m \in clearing)
              /\ \A i \in m + 1 .. n : (i \in raising) = (i \in clearing)
              /\ (m \in raising) # Odd(m)
    BY Zenon DEF Alarmed, Flipped
  <2> HIDE DEF Odd
  <2>3. \A m : (\A i \in m + 1 .. n : (i \in raising) = (i \in clearing))
                <=> (\A i \in m + 1 .. n : i \in raising <=> i \in clearing)
    BY <2>1
  <2> QED
    BY <2>1, <2>2, <2>3, Zenon
<1> HIDE DEF Odd
<1>2. ASSUME NEW m \in 0 .. n, m = 0 \/ ~(m \in raising <=> m \in clearing),
             \A i \in m + 1 .. n : i \in raising <=> i \in clearing
      PROVE  m = k
  <2>1. m < k => k \in m + 1 .. n /\ k # 0
    OBVIOUS
  <2>2. k < m => m \in k + 1 .. n /\ m # 0
    OBVIOUS
  <2>3. ~(m < k) /\ ~(k < m)
    BY <1>2, <2>1, <2>2
  <2> QED
    BY <2>3
<1>3. Alarmed(raising, clearing, n) <=> ~(k \in raising <=> Odd(k))
  BY <1>1, <1>2
<1> QED
  BY <1>3 DEF Odd

\* One value more decides alone, but for whether the alarm was on before.
LEMMA AlarmedStep ==
    ASSUME NEW n \in Nat, NEW raising, NEW clearing
    PROVE  Alarmed(raising, clearing, n + 1) <=>
             IF Alarmed(raising, clearing, n) THEN n + 1 \notin clearing ELSE n + 1 \in raising
<1> DEFINE Odd(k, m) == Cardinality(Flipped(raising, k, m)) % 2 = 1
<1>1. PICK k \in 0 .. n :
              /\ k = 0 \/ ~(k \in raising <=> k \in clearing)
              /\ \A i \in k + 1 .. n : i \in raising <=> i \in clearing
  BY SomeDecides
<1>2. Alarmed(raising, clearing, n) <=> ~(k \in raising <=> Odd(k, n))
  BY <1>1, AlarmedIs, Zenon
<1>3. CASE ~(n + 1 \in raising <=> n + 1 \in clearing)
  <2>1. n + 1 \in Nat /\ n + 1 \in 0 .. n + 1 /\ (n + 1) + 1 .. n + 1 = {}
    OBVIOUS
  <2>2. Flipped(raising, n + 1, n + 1) = {}
    BY <2>1 DEF Flipped
  <2>3. ~Odd(n + 1, n + 1)
    BY <2>2, FS_EmptySet
  <2>4. Alarmed(raising, clearing, n + 1) <=> ~(n + 1 \in raising <=> Odd(n + 1, n + 1))
    <3>1. \A i \in (n + 1) + 1 .. n + 1 : i \in raising <=> i \in clearing
      BY <2>1
    <3> QED
      BY <1>3, <2>1, <3>1, AlarmedIs, Zenon
  <2> HIDE DEF Odd
  <2> QED
    BY <1>3, <2>3, <2>4, Zenon
<1>4. CASE n + 1 \in raising <=> n + 1 \in clearing
  <2>1. k \in 0 .. n + 1 /\ n + 1 \in Nat
    OBVIOUS
  <2>2. \A i \in k + 1 .. n + 1 : i = n + 1 \/ i \in k + 1 .. n
    OBVIOUS
  <2>3. \A i \in k + 1 .. n + 1 : i \in raising <=> i \in clearing
    BY <1>1, <1>4, <2>2
  <2>4. Alarmed(raising, clearing, n + 1) <=> ~(k \in raising <=> Odd(k, n + 1))
    BY <1>1, <2>1, <2>3, AlarmedIs, Zenon
  <2>5. IsFiniteSet(Flipped(raising, k, n)) /\ n + 1 \notin Flipped(raising, k, n)
    <3>1. IsFiniteSet(k + 1 .. n)
      BY FS_Interval
    <3> QED
      BY <3>1, FS_Subset DEF Flipped
  <2>6. n + 1 \in k + 1 .. n + 1 /\ \A i \in k + 1 .. n : i \in k + 1 .. n + 1
    OBVIOUS
  <2>7. CASE n + 1 \in raising
    <3>1. Flipped(raising, k, n + 1) = Flipped(raising, k, n) \cup {n + 1}
      BY <2>2, <2>6, <2>7 DEF Flipped
    <3>2. /\ Cardinality(Flipped(raising, k, n)) \in Nat
          /\ Cardinality(Flipped(raising, k, n + 1)) = Cardinality(Flipped(raising, k, n)) + 1
      BY <2>5, <3>1, FS_AddElement, FS_CardinalityType
    <3>3. Odd(k, n + 1) <=> ~Odd(k, n)
      <4>1. \A c \in Nat : (c + 1) % 2 = 1 <=> ~(c % 2 = 1)
        BY SMT
      <4> QED
        BY <3>2, <4>1
    <3> HIDE DEF Odd
    <3> QED
      BY <1>2, <1>4, <2>4, <2>7, <3>3, Zenon
  <2>8. CASE n + 1 \notin raising
    <3>1. Flipped(raising, k, n + 1) = Flipped(raising, k, n)
      BY <2>2, <2>6, <2>8 DEF Flipped
    <3>2. Odd(k, n + 1) <=> Odd(k, n)
      BY <3>1
    <3> HIDE DEF Odd
    <3> QED
      BY <1>2, <1>4, <2>4, <2>8, <3>2, Zenon
  <2> QED
    BY <2>7, <2>8
<1> QED
  BY <1>3, <1>4

\* Later values do not change the past.
LEMMA AlarmedStays ==
    ASSUME NEW n \in Nat, NEW A, NEW B, NEW C, NEW D,
           \A i \in 0 .. n : (i \in A <=> i \in C) /\ (i \in B <=> i \in D)
    PROVE  Alarmed(A, B, n) <=> Alarmed(C, D, n)
<1>1. PICK k \in 0 .. n :
              /\ k = 0 \/ ~(k \in A <=> k \in B)
              /\ \A i \in k + 1 .. n : i \in A <=> i \in B
  BY SomeDecides
<1>2. \A i \in k + 1 .. n : i \in 0 .. n
  OBVIOUS
<1>3. Flipped(A, k, n) = Flipped(C, k, n)
  BY <1>2 DEF Flipped
<1>4. /\ k = 0 \/ ~(k \in C <=> k \in D)
      /\ \A i \in k + 1 .. n : i \in C <=> i \in D
      /\ k \in A <=> k \in C
  BY <1>1, <1>2
<1>5. Alarmed(A, B, n) <=> ~(k \in A <=> Cardinality(Flipped(A, k, n)) % 2 = 1)
  BY <1>1, AlarmedIs, Zenon
<1>6. Alarmed(C, D, n) <=> ~(k \in C <=> Cardinality(Flipped(C, k, n)) % 2 = 1)
  BY <1>4, AlarmedIs, Zenon
<1> QED
  BY <1>3, <1>4, <1>5, <1>6, Zenon

\* What a flip can be: no event, or one of its level.
AtMostOne(level) == {<<>>} \cup {<<e>> : e \in Of(level)}

\* A flip is one event of its level, or none.
LEMMA FlipIs ==
    ASSUME NEW level, NEW before, NEW after, after \in BOOLEAN, NEW x \in Fraction
    PROVE  Flip(level, before, after, x) \in AtMostOne(level)
<1>1. [level |-> level, active |-> after, value |-> x] \in Of(level)
  BY DEF Of
<1> QED
  BY <1>1 DEF Flip, AtMostOne

\* Events are kept by their level: those of this one, ...
LEMMA RaisedGrows ==
    ASSUME NEW s \in Seq(Event), NEW level \in {"high", "low"}, NEW f \in AtMostOne(level)
    PROVE  s \o f \in Seq(Event) /\ Kept(s \o f, Of(level)) = Kept(s, Of(level)) \o f
<1> DEFINE K == Kept(s, Of(level))
<1>1. K \in Seq(Event)
  BY KeptOf
<1>2. CASE f = <<>>
  <2> HIDE DEF K
  <2>1. s \o <<>> = s /\ K \o <<>> = K
    BY <1>1
  <2> QED
    BY <1>2, <2>1 DEF K
<1>3. CASE f # <<>>
  <2>1. PICK e \in Of(level) : f = <<e>>
    BY <1>3 DEF AtMostOne
  <2>2. e \in Event
    BY DEF Event, Of
  <2>3. Kept(Append(s, e), Of(level)) = Append(K, e)
    BY <2>2, KeptAppend
  <2> HIDE DEF K
  <2>4. s \o <<e>> = Append(s, e) /\ K \o <<e>> = Append(K, e) /\ Append(s, e) \in Seq(Event)
    BY <1>1, <2>2
  <2> QED
    BY <2>1, <2>3, <2>4 DEF K
<1> QED
  BY <1>2, <1>3

\* ... and not those of another.
LEMMA OthersStay ==
    ASSUME NEW s \in Seq(Event), NEW level, NEW other \in {"high", "low"}, level # other,
           NEW f \in AtMostOne(other)
    PROVE  Kept(s \o f, Of(level)) = Kept(s, Of(level))
<1>1. CASE f = <<>>
  <2>1. s \o <<>> = s
    OBVIOUS
  <2> QED
    BY <1>1, <2>1
<1>2. CASE f # <<>>
  <2>1. PICK e \in Of(other) : f = <<e>>
    BY <1>2 DEF AtMostOne
  <2>2. e \in Event /\ e \notin Of(level)
    BY DEF Event, Of
  <2>3. Kept(Append(s, e), Of(level)) = Kept(s, Of(level))
    BY <2>2, KeptAppend
  <2>4. s \o <<e>> = Append(s, e)
    BY <2>2
  <2> QED
    BY <2>1, <2>3, <2>4
<1> QED
  BY <1>1, <1>2

\* One value more calls for the event of its flip.
LEMMA EventsGrow ==
    ASSUME NEW level \in {"high", "low"}, NEW m \in Seq(Fraction), NEW x \in Fraction,
           NEW h \in [0 .. Len(m) -> BOOLEAN], NEW g \in [0 .. Len(m) + 1 -> BOOLEAN],
           \A n \in 0 .. Len(m) : g[n] = h[n]
    PROVE  FlattenSeq([n \in 1 .. Len(Append(m, x)) |->
                          Flip(level, g[n - 1], g[n], Append(m, x)[n])]) =
             FlattenSeq([n \in 1 .. Len(m) |-> Flip(level, h[n - 1], h[n], m[n])])
                \o Flip(level, h[Len(m)], g[Len(m) + 1], x)
<1> DEFINE t == Append(m, x)
           N == Len(m)
           A == [n \in 1 .. N |-> Flip(level, h[n - 1], h[n], m[n])]
           B == [n \in 1 .. Len(t) |-> Flip(level, g[n - 1], g[n], t[n])]
           last == Flip(level, h[N], g[N + 1], x)
<1>1. /\ N \in Nat /\ Len(t) = N + 1 /\ t[N + 1] = x /\ t \in Seq(Fraction)
      /\ \A n \in 1 .. N : t[n] = m[n] /\ m[n] \in Fraction
  OBVIOUS
<1>2. \A b, a \in BOOLEAN : \A y \in Fraction : Flip(level, b, a, y) \in Seq(Event)
  <2> SUFFICES ASSUME NEW b \in BOOLEAN, NEW a \in BOOLEAN, NEW y \in Fraction
               PROVE  Flip(level, b, a, y) \in Seq(Event)
    OBVIOUS
  <2>1. [level |-> level, active |-> a, value |-> y] \in Event
    BY DEF Event
  <2> QED
    BY <2>1 DEF Flip
<1> HIDE DEF t, N
<1>3. A \in Seq(Seq(Event)) /\ Len(A) = N
  <2>1. \A n \in 1 .. N : n - 1 \in 0 .. N /\ n \in 0 .. N
    BY <1>1
  <2>2. \A n \in 1 .. N : h[n - 1] \in BOOLEAN /\ h[n] \in BOOLEAN /\ m[n] \in Fraction
    BY <1>1, <2>1 DEF N
  <2>3. \A n \in 1 .. N : Flip(level, h[n - 1], h[n], m[n]) \in Seq(Event)
    BY <1>2, <2>2
  <2>4. A \in [1 .. N -> Seq(Event)]
    BY <2>3
  <2> HIDE DEF A
  <2> QED
    BY <1>1, <2>4, FunctionIsSeq, Zenon
<1>4. last \in Seq(Event)
  <2>1. N \in 0 .. N /\ N + 1 \in 0 .. N + 1
    BY <1>1
  <2>2. h[N] \in BOOLEAN /\ g[N + 1] \in BOOLEAN
    BY <2>1 DEF N
  <2> QED
    BY <1>2, <2>2
<1>5. B = Append(A, last)
  <2> DEFINE C == Append(A, last)
  <2>1. \A n \in 1 .. N : A[n] = Flip(level, h[n - 1], h[n], m[n])
    OBVIOUS
  <2>2. \A n \in 1 .. N + 1 : B[n] = Flip(level, g[n - 1], g[n], t[n])
    BY <1>1
  <2>3. B = [n \in 1 .. N + 1 |-> B[n]]
    BY <1>1
  <2> HIDE DEF A, B
  <2>4. /\ C \in Seq(Seq(Event)) /\ Len(C) = N + 1 /\ C[N + 1] = last
        /\ \A n \in 1 .. N : C[n] = A[n]
    BY <1>1, <1>3, <1>4
  <2> HIDE DEF C
  <2>5. ASSUME NEW n \in 1 .. N PROVE C[n] = B[n]
    <3>1. n \in 1 .. N + 1 /\ n - 1 \in 0 .. N /\ n \in 0 .. N
      BY <1>1
    <3>2. g[n - 1] = h[n - 1] /\ g[n] = h[n] /\ t[n] = m[n]
      BY <1>1, <3>1 DEF N
    <3> QED
      BY <2>1, <2>2, <2>4, <3>1, <3>2
  <2>6. C[N + 1] = B[N + 1]
    <3>1. N + 1 \in 1 .. N + 1 /\ N + 1 - 1 = N /\ N \in 0 .. N
      BY <1>1
    <3>2. g[N] = h[N]
      BY <3>1 DEF N
    <3>3. B[N + 1] = Flip(level, g[N], g[N + 1], x)
      <4>1. PICK n : n = N + 1
        OBVIOUS
      <4>2. n \in 1 .. N + 1 /\ n - 1 = N
        BY <3>1, <4>1
      <4>3. B[n] = Flip(level, g[n - 1], g[n], t[n])
        BY <2>2, <4>2
      <4> QED
        BY <1>1, <4>1, <4>2, <4>3
    <3> QED
      BY <2>4, <3>2, <3>3 DEF last
  <2>7. \A n \in 1 .. N + 1 : C[n] = B[n]
    <3>1. \A n \in 1 .. N + 1 : n = N + 1 \/ n \in 1 .. N
      BY <1>1
    <3> QED
      BY <2>5, <2>6, <3>1
  <2>8. C = [n \in 1 .. N + 1 |-> C[n]]
    BY <1>1, <2>4
  <2>9. C = B
    BY <2>3, <2>7, <2>8
  <2> QED
    BY <2>9 DEF C
<1> HIDE DEF A, last
<1>6. FlattenSeq(Append(A, last)) = FlattenSeq(A) \o last
  BY <1>3, <1>4, FlattenAppend
<1>7. FlattenSeq(B) = FlattenSeq(A) \o last
  BY <1>5, <1>6
<1> QED
  BY <1>7 DEF A, B, last, t, N
-----------------------------------------------------------------------------
(* The edge computing of a point.                                          *)

\* Why the point follows its history: the ring holds the readings of its window.
EdgeInv == EdgeKinds /\ InRing(filter, readings) /\ AlarmsFollowHistory

\* The alarms the history calls for, value by value.
High == [n \in 0 .. Len(means) |-> ReferenceHigh(n)]
Low == [n \in 0 .. Len(means) |-> ReferenceLow(n)]

\* What configure() and reset() of the rules leave, and what then holds of the alarms.
Unalarmed == rule = Quiet /\ means = <<>> /\ events = <<>>
AlarmsSound ==
    /\ rule \in [highActive : BOOLEAN, lowActive : BOOLEAN]
    /\ means \in Seq(Fraction) /\ events \in Seq(Event)
    /\ AlarmsFollowHistory

\* Without values there are no alarms and no events.
LEMMA QuietFollows == Unalarmed => AlarmsSound
<1> SUFFICES ASSUME rule = Quiet, means = <<>>, events = <<>> PROVE AlarmsSound
  BY DEF Unalarmed
<1>1. Len(means) = 0 /\ 0 \in 0 .. 0 /\ 1 .. 0 = {}
  OBVIOUS
<1>2. ~ReferenceHigh(0) /\ ~ReferenceLow(0)
  <2>1. ~Alarmed({}, {}, 0)
    <3>1. Flipped({}, 0, 0) = {} /\ ~(Cardinality({}) % 2 = 1)
      BY FS_EmptySet DEF Flipped
    <3>2. Alarmed({}, {}, 0) <=> ~(0 \in {} <=> Cardinality(Flipped({}, 0, 0)) % 2 = 1)
      <4>1. PICK none : none = {}
        OBVIOUS
      <4>2. PICK n \in Nat : n = 0
        OBVIOUS
      <4>3. n \in 0 .. n /\ \A i \in n + 1 .. n : i \in none <=> i \in none
        BY <4>2
      <4>4. Alarmed(none, none, n) <=>
              ~(n \in none <=> Cardinality(Flipped(none, n, n)) % 2 = 1)
        BY <4>2, <4>3, AlarmedIs, Zenon
      <4> QED
        BY <4>1, <4>2, <4>4
    <3> QED
      BY <3>1, <3>2
  <2>2. DOMAIN means = {}
    OBVIOUS
  <2>3. /\ {i \in DOMAIN means : EntersHigh(means[i])} = {}
        /\ {i \in DOMAIN means : LeavesHigh(means[i])} = {}
        /\ {i \in DOMAIN means : EntersLow(means[i])} = {}
        /\ {i \in DOMAIN means : LeavesLow(means[i])} = {}
    BY <2>2
  <2> QED
    BY <2>1, <2>3, Zenon DEF ReferenceHigh, ReferenceLow
<1>3. High[Len(means)] = FALSE /\ Low[Len(means)] = FALSE
  BY <1>1, <1>2 DEF High, Low
<1>4. \A level, flag : EventsOf(level, flag) = <<>>
  <2> TAKE level, flag
  <2>1. [n \in 1 .. Len(means) |-> Flip(level, flag[n - 1], flag[n], means[n])] = <<>>
    BY <1>1
  <2> QED
    BY <2>1, FlattenEmpty DEF EventsOf
<1>5. \A level : Raised(level) = <<>>
  BY KeptEmpty DEF Raised
<1>6. AlarmsFollowHistory
  BY <1>3, <1>4, <1>5 DEF AlarmsFollowHistory, High, Low, Quiet
<1> QED
  BY <1>6 DEF Quiet, AlarmsSound

\* A value is evaluated.
LEMMA EvaluateFollows ==
    ASSUME EdgeKinds, AlarmsFollowHistory, config' = config, NEW x \in Fraction, Evaluate(x)
    PROVE  /\ rule' \in [highActive : BOOLEAN, lowActive : BOOLEAN]
           /\ means' \in Seq(Fraction) /\ events' \in Seq(Event)
           /\ AlarmsFollowHistory'
<1> DEFINE N == Len(means)
           high == FlagAfter(config.highEnabled, rule.highActive, EntersHigh(x), LeavesHigh(x))
           low == FlagAfter(config.lowEnabled, rule.lowActive, EntersLow(x), LeavesLow(x))
           flipHigh == Flip("high", rule.highActive, high, x)
           flipLow == Flip("low", rule.lowActive, low, x)
<1>1. /\ config \in Configs /\ means \in Seq(Fraction) /\ events \in Seq(Event)
      /\ rule.highActive \in BOOLEAN /\ rule.lowActive \in BOOLEAN
      /\ config.highEnabled \in BOOLEAN /\ config.lowEnabled \in BOOLEAN
  BY DEF EdgeKinds, Configs, Fraction, Event
<1>2. /\ N \in Nat /\ means' = Append(means, x) /\ Len(means') = N + 1 /\ means'[N + 1] = x
      /\ means' \in Seq(Fraction) /\ \A n \in 1 .. N : means'[n] = means[n]
  BY <1>1 DEF Evaluate
<1>3. /\ rule' = [highActive |-> high, lowActive |-> low]
      /\ events' = events \o flipHigh \o flipLow
  BY DEF Evaluate
<1>4. high \in BOOLEAN /\ low \in BOOLEAN
  <2>1. /\ EntersHigh(x) \in BOOLEAN /\ LeavesHigh(x) \in BOOLEAN
        /\ EntersLow(x) \in BOOLEAN /\ LeavesLow(x) \in BOOLEAN
    BY DEF EntersHigh, LeavesHigh, EntersLow, LeavesLow, AtLeast, AtMost, Below, Above
  <2> QED
    BY <1>1, <2>1, Zenon DEF FlagAfter
<1> HIDE DEF N, high, low
<1>5. /\ rule.highActive = High[N] /\ Raised("high") = EventsOf("high", High)
      /\ rule.lowActive = Low[N] /\ Raised("low") = EventsOf("low", Low)
  BY DEF AlarmsFollowHistory, High, Low, N
<1>6. /\ High \in [0 .. N -> BOOLEAN] /\ Low \in [0 .. N -> BOOLEAN]
      /\ High' \in [0 .. N + 1 -> BOOLEAN] /\ Low' \in [0 .. N + 1 -> BOOLEAN]
  BY <1>2, Zenon DEF High, Low, N, ReferenceHigh, ReferenceLow
<1> DEFINE EH == {i \in 1 .. N + 1 : EntersHigh(means'[i])}
           LH == {i \in 1 .. N + 1 : LeavesHigh(means'[i])}
           EL == {i \in 1 .. N + 1 : EntersLow(means'[i])}
           LL == {i \in 1 .. N + 1 : LeavesLow(means'[i])}
<1>7. ASSUME NEW n \in 0 .. N
      PROVE  /\ High[n] <=> config.highEnabled /\ Alarmed(EH, LH, n)
             /\ Low[n] <=> config.lowEnabled /\ Alarmed(EL, LL, n)
  <2> DEFINE eh == {i \in DOMAIN means : EntersHigh(means[i])}
             lh == {i \in DOMAIN means : LeavesHigh(means[i])}
             el == {i \in DOMAIN means : EntersLow(means[i])}
             ll == {i \in DOMAIN means : LeavesLow(means[i])}
  <2>1. /\ DOMAIN means = 1 .. N /\ n \in Nat
        /\ \A i \in 0 .. n : i \in 1 .. N + 1 <=> i \in 1 .. N
        /\ \A i \in 1 .. N : means'[i] = means[i]
    BY <1>1, <1>2 DEF N
  <2>2. \A i \in 0 .. n : /\ (i \in eh <=> i \in EH) /\ (i \in lh <=> i \in LH)
                          /\ (i \in el <=> i \in EL) /\ (i \in ll <=> i \in LL)
    BY <2>1
  <2>3. /\ ReferenceHigh(n) <=> config.highEnabled /\ Alarmed(eh, lh, n)
        /\ ReferenceLow(n) <=> config.lowEnabled /\ Alarmed(el, ll, n)
    BY Zenon DEF ReferenceHigh, ReferenceLow
  <2>4. High[n] = ReferenceHigh(n) /\ Low[n] = ReferenceLow(n)
    BY Zenon DEF High, Low, N
  <2> HIDE DEF eh, lh, el, ll, EH, LH, EL, LL
  <2>5. Alarmed(eh, lh, n) <=> Alarmed(EH, LH, n)
    BY <2>1, <2>2, AlarmedStays
  <2>6. Alarmed(el, ll, n) <=> Alarmed(EL, LL, n)
    BY <2>1, <2>2, AlarmedStays
  <2> QED
    BY <2>3, <2>4, <2>5, <2>6, Zenon
<1>8. ASSUME NEW n \in 0 .. N + 1
      PROVE  /\ High'[n] <=> config.highEnabled /\ Alarmed(EH, LH, n)
             /\ Low'[n] <=> config.lowEnabled /\ Alarmed(EL, LL, n)
  <2>1. DOMAIN means' = 1 .. N + 1
    BY <1>2
  <2>2. \A y : /\ EntersHigh(y)' = EntersHigh(y) /\ LeavesHigh(y)' = LeavesHigh(y)
               /\ EntersLow(y)' = EntersLow(y) /\ LeavesLow(y)' = LeavesLow(y)
    BY DEF EntersHigh, LeavesHigh, EntersLow, LeavesLow, highAlarm, lowAlarm, AtLeast, AtMost,
           Below, Above
  <2> DEFINE eh == {i \in DOMAIN means : EntersHigh(means[i])}
             lh == {i \in DOMAIN means : LeavesHigh(means[i])}
             el == {i \in DOMAIN means : EntersLow(means[i])}
             ll == {i \in DOMAIN means : LeavesLow(means[i])}
  <2>3. eh' = EH /\ lh' = LH /\ el' = EL /\ ll' = LL
    BY <2>1, <2>2
  <2>4. /\ ReferenceHigh(n)' <=> config'.highEnabled /\ Alarmed(eh', lh', n)
        /\ ReferenceLow(n)' <=> config'.lowEnabled /\ Alarmed(el', ll', n)
    BY Zenon DEF ReferenceHigh, ReferenceLow, Alarmed
  <2>5. High'[n] = ReferenceHigh(n)' /\ Low'[n] = ReferenceLow(n)'
    BY <1>2, Zenon DEF High, Low
  <2> HIDE DEF eh, lh, el, ll, EH, LH, EL, LL
  <2> QED
    BY <2>3, <2>4, <2>5
<1>9. N \in 0 .. N /\ N + 1 \in 0 .. N + 1
  BY <1>2
<1>10. /\ N + 1 \in EH <=> EntersHigh(x)
       /\ N + 1 \in LH <=> LeavesHigh(x)
       /\ N + 1 \in EL <=> EntersLow(x)
       /\ N + 1 \in LL <=> LeavesLow(x)
  BY <1>2
<1> HIDE DEF EH, LH, EL, LL
<1>11. /\ Alarmed(EH, LH, N + 1) <=>
            IF Alarmed(EH, LH, N) THEN ~LeavesHigh(x) ELSE EntersHigh(x)
       /\ Alarmed(EL, LL, N + 1) <=>
            IF Alarmed(EL, LL, N) THEN ~LeavesLow(x) ELSE EntersLow(x)
  BY <1>2, <1>10, AlarmedStep, Zenon
<1>12. High'[N + 1] = high /\ Low'[N + 1] = low
  <2>1. /\ rule.highActive <=> config.highEnabled /\ Alarmed(EH, LH, N)
        /\ rule.lowActive <=> config.lowEnabled /\ Alarmed(EL, LL, N)
    BY <1>5, <1>7, <1>9, Zenon
  <2>2. /\ High'[N + 1] <=> config.highEnabled /\ Alarmed(EH, LH, N + 1)
        /\ Low'[N + 1] <=> config.lowEnabled /\ Alarmed(EL, LL, N + 1)
    BY <1>8, <1>9, Zenon
  <2>3. (High'[N + 1] <=> high) /\ (Low'[N + 1] <=> low)
    BY <1>11, <2>1, <2>2 DEF FlagAfter, high, low
  <2>4. High'[N + 1] \in BOOLEAN /\ Low'[N + 1] \in BOOLEAN
    BY <1>6, <1>9, Zenon
  <2> QED
    BY <1>4, <2>3, <2>4, Zenon
<1>13. ASSUME NEW n \in 0 .. N PROVE High'[n] = High[n] /\ Low'[n] = Low[n]
  <2>1. n \in 0 .. N + 1
    BY <1>2
  <2>2. (High'[n] <=> High[n]) /\ (Low'[n] <=> Low[n])
    BY <1>7, <1>8, <2>1
  <2>3. High'[n] \in BOOLEAN /\ High[n] \in BOOLEAN /\ Low'[n] \in BOOLEAN /\ Low[n] \in BOOLEAN
    BY <1>6, <2>1, Zenon
  <2> QED
    BY <2>2, <2>3, Zenon
<1> HIDE DEF flipHigh, flipLow
<1>14. /\ EventsOf("high", High)' = EventsOf("high", High) \o flipHigh
       /\ EventsOf("low", Low)' = EventsOf("low", Low) \o flipLow
  <2> DEFINE H == High
             L == Low
             G == High'
             M == Low'
  <2>1. /\ H \in [0 .. Len(means) -> BOOLEAN] /\ G \in [0 .. Len(means) + 1 -> BOOLEAN]
        /\ \A n \in 0 .. Len(means) : G[n] = H[n]
        /\ L \in [0 .. Len(means) -> BOOLEAN] /\ M \in [0 .. Len(means) + 1 -> BOOLEAN]
        /\ \A n \in 0 .. Len(means) : M[n] = L[n]
    BY <1>6, <1>13 DEF N
  <2>2. /\ EventsOf("high", High) =
             FlattenSeq([n \in 1 .. Len(means) |-> Flip("high", H[n - 1], H[n], means[n])])
        /\ EventsOf("low", Low) =
             FlattenSeq([n \in 1 .. Len(means) |-> Flip("low", L[n - 1], L[n], means[n])])
    BY DEF EventsOf
  <2>3. /\ EventsOf("high", High)' =
             FlattenSeq([n \in 1 .. Len(Append(means, x)) |->
                           Flip("high", G[n - 1], G[n], Append(means, x)[n])])
        /\ EventsOf("low", Low)' =
             FlattenSeq([n \in 1 .. Len(Append(means, x)) |->
                           Flip("low", M[n - 1], M[n], Append(means, x)[n])])
    BY <1>2 DEF EventsOf, Flip
  <2>4. /\ flipHigh = Flip("high", H[Len(means)], G[Len(means) + 1], x)
        /\ flipLow = Flip("low", L[Len(means)], M[Len(means) + 1], x)
    BY <1>5, <1>12 DEF N, flipHigh, flipLow
  <2> HIDE DEF H, L, G, M
  <2>5. "high" \in {"high", "low"} /\ "low" \in {"high", "low"}
    OBVIOUS
  <2>6. EventsOf("high", High)' = EventsOf("high", High) \o flipHigh
    <3>1. FlattenSeq([n \in 1 .. Len(Append(means, x)) |->
                        Flip("high", G[n - 1], G[n], Append(means, x)[n])]) =
            FlattenSeq([n \in 1 .. Len(means) |-> Flip("high", H[n - 1], H[n], means[n])])
               \o Flip("high", H[Len(means)], G[Len(means) + 1], x)
      BY <1>1, <2>1, <2>5, EventsGrow
    <3> QED
      BY <2>2, <2>3, <2>4, <3>1
  <2>7. EventsOf("low", Low)' = EventsOf("low", Low) \o flipLow
    <3>1. FlattenSeq([n \in 1 .. Len(Append(means, x)) |->
                        Flip("low", M[n - 1], M[n], Append(means, x)[n])]) =
            FlattenSeq([n \in 1 .. Len(means) |-> Flip("low", L[n - 1], L[n], means[n])])
               \o Flip("low", L[Len(means)], M[Len(means) + 1], x)
      BY <1>1, <2>1, <2>5, EventsGrow
    <3> QED
      BY <2>2, <2>3, <2>4, <3>1
  <2> QED
    BY <2>6, <2>7
<1>15. /\ events' \in Seq(Event)
       /\ Raised("high")' = Raised("high") \o flipHigh
       /\ Raised("low")' = Raised("low") \o flipLow
  <2>1. \A level \in {"high", "low"} :
          Raised(level) = Kept(events, Of(level)) /\ Raised(level)' = Kept(events', Of(level))
    BY DEF Raised, Of, Fraction
  <2>2. PICK s : s = events \o flipHigh
    OBVIOUS
  <2>3. flipHigh \in AtMostOne("high") /\ flipLow \in AtMostOne("low")
    BY <1>4, FlipIs DEF flipHigh, flipLow
  <2>4. s \in Seq(Event) /\ Kept(s, Of("high")) = Kept(events, Of("high")) \o flipHigh
    BY <1>1, <2>2, <2>3, RaisedGrows
  <2>5. Kept(s, Of("low")) = Kept(events, Of("low"))
    BY <1>1, <2>2, <2>3, OthersStay
  <2>6. /\ s \o flipLow \in Seq(Event)
        /\ Kept(s \o flipLow, Of("low")) = Kept(s, Of("low")) \o flipLow
    BY <2>3, <2>4, RaisedGrows
  <2>7. Kept(s \o flipLow, Of("high")) = Kept(s, Of("high"))
    BY <2>3, <2>4, OthersStay
  <2> QED
    BY <1>3, <2>1, <2>2, <2>4, <2>5, <2>6, <2>7
<1>16. AlarmsFollowHistory'
  <2>1. /\ rule'.highActive = High'[Len(means')] /\ Raised("high")' = EventsOf("high", High)'
        /\ rule'.lowActive = Low'[Len(means')] /\ Raised("low")' = EventsOf("low", Low)'
    BY <1>2, <1>3, <1>5, <1>12, <1>14, <1>15
  <2> QED
    BY <2>1 DEF AlarmsFollowHistory, High, Low
<1> QED
  BY <1>2, <1>3, <1>4, <1>15, <1>16

\* What reset() of the filter leaves.
FilterCleared == filter' = EmptyFilter(config.window) /\ readings' = <<>>

\* A legal configuration has a window that is a number.
LEMMA ConfigKinds ==
    ASSUME config \in Configs PROVE config.window \in Nat
BY EdgeAssumption DEF Configs

\* What is cleared is as it is at first.
LEMMA ClearedFollows ==
    ASSUME config \in Configs, config' = config
    PROVE  /\ FilterCleared =>
                /\ filter' \in [window : Nat \ {0}, buf : [0 .. filter'.window - 1 -> Double],
                                head : 0 .. filter'.window - 1, count : Nat, sum : Double]
                /\ filter'.window = IF config.window = 0 THEN 1 ELSE config.window
                /\ readings' \in Seq(Double) /\ InRing(filter', readings')
           /\ Unalarmed' => AlarmsSound'
<1>1. config.window \in Nat /\ <<>> \in Seq(Double)
  BY ConfigKinds
<1>2. ASSUME FilterCleared
      PROVE  /\ filter' \in [window : Nat \ {0}, buf : [0 .. filter'.window - 1 -> Double],
                             head : 0 .. filter'.window - 1, count : Nat, sum : Double]
             /\ filter'.window = IF config.window = 0 THEN 1 ELSE config.window
             /\ readings' \in Seq(Double) /\ InRing(filter', readings')
  BY <1>1, <1>2, EmptyInRing DEF FilterCleared
<1>3. Unalarmed' => AlarmsSound'
  BY QuietFollows, PTL
<1> QED
  BY <1>2, <1>3

\* The invariant holds at first ...
LEMMA EdgeStarts == EdgeInit => EdgeInv
<1> SUFFICES ASSUME EdgeInit PROVE EdgeInv
  OBVIOUS
<1>1. config \in Configs /\ config.window \in Nat /\ filter = EmptyFilter(config.window)
  BY ConfigKinds DEF EdgeInit
<1>2. readings = <<>> /\ rule = Quiet /\ means = <<>> /\ events = <<>>
  BY DEF EdgeInit
<1>3. /\ filter.window = IF config.window = 0 THEN 1 ELSE config.window
      /\ filter \in [window : Nat \ {0}, buf : [0 .. filter.window - 1 -> Double],
                     head : 0 .. filter.window - 1, count : Nat, sum : Double]
      /\ InRing(filter, <<>>)
  BY <1>1, EmptyInRing
<1>4. <<>> \in Seq(Double)
  OBVIOUS
<1>5. AlarmsSound
  BY <1>2, QuietFollows DEF Unalarmed
<1> QED
  BY <1>1, <1>2, <1>3, <1>4, <1>5 DEF EdgeInv, EdgeKinds, AlarmsSound, Fraction, Event

\* ... and every step keeps it.
LEMMA EdgeStepKeeps ==
    ASSUME EdgeInv, [EdgeNext]_edgeVars
    PROVE  EdgeInv'
<1> DEFINE FilterKept ==
             /\ filter' \in [window : Nat \ {0}, buf : [0 .. filter'.window - 1 -> Double],
                             head : 0 .. filter'.window - 1, count : Nat, sum : Double]
             /\ filter'.window = IF config.window = 0 THEN 1 ELSE config.window
             /\ readings' \in Seq(Double) /\ InRing(filter', readings')
<1>1. EdgeKinds /\ InRing(filter, readings) /\ AlarmsFollowHistory /\ config \in Configs
  BY DEF EdgeInv, EdgeKinds
<1>2. ASSUME config' = config, FilterKept, AlarmsSound' PROVE EdgeInv'
  BY <1>1, <1>2 DEF EdgeInv, EdgeKinds, AlarmsSound, Fraction, Event
<1>3. UNCHANGED <<filter, readings>> => FilterKept
  BY <1>1 DEF EdgeKinds
<1>4. UNCHANGED <<config, rule, means, events>> => AlarmsSound'
  <2>1. ASSUME UNCHANGED <<config, rule, means, events>> PROVE AlarmsFollowHistory'
    <3>1. \A n : /\ ReferenceHigh(n)' = ReferenceHigh(n)
                 /\ ReferenceLow(n)' = ReferenceLow(n)
      BY <2>1 DEF ReferenceHigh, ReferenceLow, EntersHigh, LeavesHigh, EntersLow, LeavesLow,
                  highAlarm, lowAlarm, AtLeast, AtMost, Below, Above
    <3>2. PICK m : m = means /\ m = means'
      BY <2>1
    <3>3. /\ [n \in 0 .. Len(means') |-> ReferenceHigh(n)']
               = [n \in 0 .. Len(means) |-> ReferenceHigh(n)]
          /\ [n \in 0 .. Len(means') |-> ReferenceLow(n)']
               = [n \in 0 .. Len(means) |-> ReferenceLow(n)]
      BY <3>1, <3>2
    <3>4. \A level : Raised(level)' = Raised(level)
      BY <2>1 DEF Raised
    <3>5. rule' = rule /\ means' = means
      BY <2>1
    <3>6. EventsOf("high", [n \in 0 .. Len(means) |-> ReferenceHigh(n)])'
            = EventsOf("high", [n \in 0 .. Len(means) |-> ReferenceHigh(n)])
      BY <2>1 DEF EventsOf, ReferenceHigh, EntersHigh, LeavesHigh, highAlarm, AtLeast, Below
    <3>7. EventsOf("low", [n \in 0 .. Len(means) |-> ReferenceLow(n)])'
            = EventsOf("low", [n \in 0 .. Len(means) |-> ReferenceLow(n)])
      BY <2>1 DEF EventsOf, ReferenceLow, EntersLow, LeavesLow, lowAlarm, AtMost, Above
    <3> QED
      BY <1>1, <3>3, <3>4, <3>5, <3>6, <3>7, Zenon DEF AlarmsFollowHistory
  <2> QED
    BY <1>1, <2>1 DEF EdgeKinds, AlarmsSound, Fraction, Event
<1>5. ASSUME NEW v \in Readings, ProcessPoint(v) PROVE EdgeInv'
  <2>1. v \in Double /\ readings \in Seq(Double) /\ config' = config
    BY <1>1, <1>5, EdgeAssumption DEF ProcessPoint, EdgeKinds
  <2>2. filter' = Pushed(filter, v) /\ readings' = Append(readings, v)
    BY <1>5 DEF ProcessPoint
  <2>3. filter \in [window : Nat \ {0}, buf : [0 .. filter.window - 1 -> Double],
                    head : 0 .. filter.window - 1, count : Nat, sum : Double]
    BY <1>1 DEF EdgeKinds
  <2>4. /\ filter'.window = filter.window
        /\ filter' \in [window : Nat \ {0}, buf : [0 .. filter.window - 1 -> Double],
                        head : 0 .. filter.window - 1, count : Nat, sum : Double]
        /\ InRing(filter', Append(readings, v))
    BY <1>1, <2>1, <2>2, <2>3, PushedInRing
  <2>5. FilterKept
    <3>1. Append(readings, v) \in Seq(Double)
      BY <2>1
    <3> QED
      BY <1>1, <2>2, <2>4, <3>1 DEF EdgeKinds
  <2>6. Evaluate(Mean(filter')) /\ Mean(filter') \in Fraction
    BY <1>5, <2>4 DEF ProcessPoint, Mean, Fraction
  <2>7. AlarmsSound'
    BY <1>1, <2>1, <2>6, EvaluateFollows DEF AlarmsSound
  <2> QED
    BY <1>2, <2>1, <2>5, <2>7
<1>6. CASE SetupSerialClears
  BY <1>1, <1>2, <1>6, ClearedFollows DEF SetupSerialClears, FilterCleared, Unalarmed
<1>7. CASE FilterReset
  <2>1. FilterCleared /\ UNCHANGED <<config, rule, means, events>>
    BY <1>7 DEF FilterReset, FilterCleared
  <2> QED
    BY <1>1, <1>2, <1>4, <2>1, ClearedFollows
<1>8. CASE RuleReset
  <2>1. Unalarmed' /\ UNCHANGED <<config, filter, readings>>
    BY <1>8 DEF RuleReset, Unalarmed
  <2> QED
    BY <1>1, <1>2, <1>3, <2>1, ClearedFollows
<1>9. CASE UNCHANGED edgeVars
  BY <1>2, <1>3, <1>4, <1>9 DEF edgeVars
<1> QED
  BY <1>5, <1>6, <1>7, <1>8, <1>9 DEF EdgeNext

\* The means and the alarms of a point are what its readings call for, whatever the
\* window, the limits (bands that meet or limits the wrong way round among them)
\* and the hysteresis, a negative one included, and whenever filter and rules are
\* cleared.  Readings may be infinite or NaN: what they do to the sum, for as long
\* as the filter is not cleared, is part of the statement.  Sums of finite readings
\* are those of whole numbers; what doubles lose in adding is not covered.
THEOREM PointsFollowHistory == EdgeSpec => []PointFollowsHistory
<1>1. EdgeInv => PointFollowsHistory
  <2> SUFFICES ASSUME EdgeInv PROVE PointFollowsHistory
    OBVIOUS
  <2>1. /\ filter.window \in Nat /\ filter.window >= 1 /\ readings \in Seq(Double)
        /\ InRing(filter, readings) /\ AlarmsFollowHistory
    BY DEF EdgeInv, EdgeKinds
  <2>2. Len(LastOf(filter.window, readings)) =
          IF Len(readings) < filter.window THEN Len(readings) ELSE filter.window
    BY <2>1, WindowLength
  <2>3. MeanOfWindow
    <3>1. filter.count = Len(LastOf(filter.window, readings))
      BY <2>1, <2>2 DEF InRing
    <3>2. filter.sum = SumAfter(filter.window, readings)
      BY <2>1 DEF InRing
    <3> QED
      BY <3>1, <3>2, Zenon DEF MeanOfWindow, SumAfter
  <2> QED
    BY <2>1, <2>3 DEF PointFollowsHistory
<1> QED
  BY <1>1, EdgeStarts, EdgeStepKeeps, PTL DEF EdgeSpec
-----------------------------------------------------------------------------
(* The gateway: its state machine, its threads and its commands.            *)

USE GatewayAssumption DEF GatewayAssumption, AllChannels, AllCommands, Points
-----------------------------------------------------------------------------
(* The state machine.                                                      *)

\* A transition leads to a state.
LEMMA AfterType == ASSUME NEW s \in States, NEW ev PROVE After(s, ev) \in States
BY DEF After

\* The only way into Fault is SerialError, from Running.
LEMMA WayIntoFault ==
    ASSUME NEW s \in States, NEW ev, After(s, ev) = "Fault"
    PROVE  s = "Fault" \/ (s = "Running" /\ ev = "SerialError")
<1>1. CASE \E to \in States : <<s, ev, to>> \in Rules
  <2>1. <<s, ev, "Fault">> \in Rules
    BY <1>1 DEF After
  <2> QED
    BY <2>1 DEF Rules
<1>2. CASE ~ \E to \in States : <<s, ev, to>> \in Rules
  BY <1>2 DEF After
<1> QED
  BY <1>1, <1>2

\* A count that is kept up to its limit stays one.
LEMMA SaturatedType ==
    ASSUME NEW n \in FailCounts
    PROVE  Saturated(n + 1) \in FailCounts /\ Saturated(n + 1) >= n
BY DEF FailCounts, Saturated
-----------------------------------------------------------------------------
(* Types.                                                                  *)

\* What a channel has been asked to write is kept per channel.
ArgsKept == arg \in [Channels -> [p : WritePoints \cup {"none"}, v : Values]]

Typed == TypeOK /\ ArgsKept

\* A gateway that has not been started has values of its kinds.
LEMMA InitTyped == Init => Typed
<1> SUFFICES ASSUME Init PROVE Typed
  OBVIOUS
<1> USE DEF Init
<1>1. quality \in [Points -> {"Good", "Bad"}]
  OBVIOUS
<1>2. shown \in [WritePoints -> Values] /\ reg \in [WritePoints -> Values]
  OBVIOUS
<1>3. channel \in [Channels -> {"on", "off"}] /\ cpc \in [Channels -> CommandStates]
  BY DEF CommandStates
<1>4. ArgsKept
  BY DEF ArgsKept, NoWrite
<1>5. \A c \in Channels : cpc[c] \notin {"lock", "line", "store"}
  OBVIOUS
<1>6. /\ sm \in States /\ lpc \in MainStates /\ apc \in AcqStates /\ fault \in FaultModes
      /\ loaded \in FailCounts /\ failRounds \in FailCounts /\ failRun \in FailCounts
  BY DEF States, MainStates, AcqStates, FaultModes, FailCounts
<1> QED
  BY <1>1, <1>2, <1>3, <1>4, <1>5, <1>6 DEF Typed, TypeOK

\* A step of the thread that starts and stops the gateway keeps the types, ...
LEMMA MainTyped == Typed /\ MainStep => Typed'
<1> SUFFICES ASSUME Typed, MainStep PROVE Typed'
  OBVIOUS
<1> USE DEF Typed, TypeOK, ArgsKept, vars, smVars, mainVars, portVars, flagVars, roundVars,
            cmdVars, tableVars, slaveVars, MainStates
<1>1. CASE StartCall
  BY <1>1, AfterType DEF StartCall, Dispatch
<1>2. CASE SetupSerial
  BY <1>2 DEF SetupSerial, FreshTable, FaultModes
<1>3. CASE SetupSerialFails
  <2>1. sm' \in States
    BY <1>3, AfterType DEF SetupSerialFails, Dispatch
  <2>2. /\ portOpen' \in BOOLEAN
        /\ lpc' = "idle"
        /\ UNCHANGED <<running, made, starts, flagVars, roundVars, failRounds, tpc,
                       cmdVars, status, slaveVars>>
    BY <1>3 DEF SetupSerialFails
  <2>3. FreshTable \/ UNCHANGED <<tableVars, allDue>>
    BY <1>3 DEF SetupSerialFails
  <2>4. /\ quality' \in [Points -> {"Good", "Bad"}]
        /\ shown' \in [WritePoints -> Values]
        /\ alarm' \subseteq ReadPoints /\ allDue' \in BOOLEAN
    <3>1. CASE FreshTable
      BY <3>1 DEF FreshTable
    <3>2. CASE UNCHANGED <<tableVars, allDue>>
      BY <3>2
    <3> QED
      BY <2>3, <3>1, <3>2
  <2> QED
    BY <2>1, <2>2, <2>4
<1>4. CASE SetupChannels
  <2>1. sm' \in States
    BY <1>4, AfterType DEF SetupChannels, SetupChannel, Dispatch
  <2>2. lpc' \in MainStates /\ made' \subseteq Channels /\ channel' \in [Channels -> {"on", "off"}]
    BY <1>4 DEF SetupChannels, SetupChannel
  <2> QED
    BY <1>4, <2>1, <2>2 DEF SetupChannels
<1>5. CASE StartThreads
  BY <1>5 DEF StartThreads, AcqStates
<1>6. CASE StartEvent
  BY <1>6, AfterType DEF StartEvent, Dispatch
<1>7. CASE StopCall
  BY <1>7, AfterType DEF StopCall, Dispatch
<1>8. CASE StopThreads
  <2>1. /\ lpc' \in MainStates /\ stopAcq' \in BOOLEAN /\ stopTelem' \in BOOLEAN
        /\ apc' \in {apc, "none"} /\ tpc' \in {tpc, "none"}
    BY <1>8 DEF StopThreads, JoinAcq, JoinTelem
  <2> QED
    BY <1>8, <2>1 DEF StopThreads, AcqStates
<1>9. CASE StopChannels
  BY <1>9 DEF StopChannels, StopChannel
<1>10. CASE ClosePorts
  BY <1>10, ZenonT(30) DEF ClosePorts
<1> QED
  BY <1>1, <1>2, <1>3, <1>4, <1>5, <1>6, <1>7, <1>8, <1>9, <1>10 DEF MainStep

\* ... and so do those of the acquisition thread, ...
LEMMA AcqTyped == Typed /\ AcqStep => Typed'
<1> SUFFICES ASSUME Typed, AcqStep PROVE Typed'
  OBVIOUS
<1> USE DEF Typed, TypeOK, ArgsKept, vars, smVars, mainVars, portVars, flagVars, roundVars,
            cmdVars, tableVars, slaveVars, AcqStates
<1>1. CASE AcqExit
  BY <1>1 DEF AcqExit
<1>2. ASSUME NEW D \in SUBSET Points, AcqRound(D) PROVE Typed'
  BY <1>2 DEF AcqRound
<1>3. CASE AcqPoint
  <2>1. PICK p \in due : cur' = p /\ due' = due \ {p} /\ ReadOrCount(p)
    BY <1>3 DEF AcqPoint
  <2>2. CASE p \in WritePoints /\ okAny' = TRUE /\ UNCHANGED apc
    BY <1>3, <2>1, <2>2 DEF AcqPoint
  <2>3. CASE p \in ReadPoints /\ apc' = "lock" /\ UNCHANGED okAny
    BY <1>3, <2>1, <2>3 DEF AcqPoint
  <2> QED
    BY <2>1, <2>2, <2>3 DEF ReadOrCount
<1>4. CASE AcqLock
  BY <1>4 DEF AcqLock
<1>5. CASE AcqRead
  BY <1>5 DEF AcqRead, LineGood
<1>6. CASE AcqStore
  BY <1>6 DEF AcqStore
<1>7. CASE AcqTally
  <2>1. CASE okAny
    BY <1>7, <2>1 DEF AcqTally, FailCounts
  <2>2. CASE ~okAny
    BY <1>7, <2>2, SaturatedType DEF AcqTally
  <2> QED
    BY <2>1, <2>2
<1>8. CASE AcqCount
  BY <1>8, SaturatedType DEF AcqCount
<1>9. CASE AcqJudge
  BY <1>9 DEF AcqJudge, FailCounts
<1>10. CASE AcqError
  BY <1>10, AfterType DEF AcqError, Dispatch
<1>11. CASE AcqRecovered
  BY <1>11, AfterType DEF AcqRecovered, Dispatch
<1>12. CASE AcqReset
  BY <1>12 DEF AcqReset, FailuresForgotten, FailCounts
<1> QED
  BY <1>1, <1>2, <1>3, <1>4, <1>5, <1>6, <1>7, <1>8, <1>9, <1>10, <1>11, <1>12
     DEF AcqStep

\* ... of a channel ...
LEMMA CommandTyped == ASSUME NEW c \in Channels PROVE Typed /\ CommandStep(c) => Typed'
<1> SUFFICES ASSUME Typed, CommandStep(c) PROVE Typed'
  OBVIOUS
<1> USE DEF Typed, TypeOK, ArgsKept, vars, smVars, mainVars, portVars, flagVars, roundVars,
            cmdVars, tableVars, slaveVars, CommandStates
<1>0. NoWrite \in [p : WritePoints \cup {"none"}, v : Values]
  BY DEF NoWrite
<1>1. ASSUME NEW p \in WritePoints, NEW v \in Values, WriteReg(c, p, v) PROVE Typed'
  BY <1>1 DEF WriteReg, BeginCommand
<1>2. CASE WriteLock(c)
  BY <1>2 DEF WriteLock
<1>3. CASE WriteTransaction(c)
  BY <1>0, <1>3 DEF WriteTransaction, WriteFailed
<1>4. CASE WriteStore(c)
  <2>1. arg[c] \in [p : WritePoints, v : Values]
    BY <1>4 DEF WriteStore
  <2>2. /\ shown' \in [WritePoints -> Values]
        /\ quality' \in [Points -> {"Good", "Bad"}]
    BY <1>4, <2>1 DEF WriteStore
  <2>3. cpc' \in [Channels -> CommandStates] /\ ArgsKept'
    BY <1>0, <1>4 DEF WriteStore
  <2>4. \A d \in Channels : cpc'[d] \in {"lock", "line", "store"} =>
            d # c /\ cpc'[d] = cpc[d] /\ arg'[d] = arg[d]
    BY <1>4 DEF WriteStore
  <2> QED
    BY <1>4, <2>2, <2>3, <2>4 DEF WriteStore
<1>5. CASE SetPeriod(c)
  BY <1>5 DEF SetPeriod, BeginCommand
<1>6. ASSUME NEW mode \in FaultModes, InjectFault(c, mode) PROVE Typed'
  BY <1>6 DEF InjectFault, BeginCommand
<1>7. CASE Recover(c)
  BY <1>7 DEF Recover, BeginCommand, FaultModes
<1>8. CASE RecoverStep(c)
  BY <1>8, AfterType DEF RecoverStep, Dispatch, FailCounts
<1> QED
  BY <1>1, <1>2, <1>3, <1>4, <1>5, <1>6, <1>7, <1>8 DEF CommandStep

\* ... and of the others.
LEMMA OthersTyped ==
    Typed /\ (TelemStep \/ MqttConnects \/ WiringFails \/ WiringMended) => Typed'
<1> USE DEF Typed, TypeOK, ArgsKept, vars, smVars, mainVars, portVars, flagVars, roundVars,
            cmdVars, tableVars, slaveVars
<1>1. Typed /\ TelemStep => Typed'
  BY DEF TelemStep
<1>2. Typed /\ MqttConnects => Typed'
  BY DEF MqttConnects
<1>3. Typed /\ WiringFails => Typed'
  <2> SUFFICES ASSUME Typed, WiringFails PROVE Typed'
    OBVIOUS
  <2>1. /\ wired' \in BOOLEAN
        /\ UNCHANGED <<smVars, mainVars, portVars, flagVars, roundVars, failRounds,
                       allDue, tpc, cmdVars, tableVars, status, fault, reg>>
    BY DEF WiringFails
  <2> QED
    BY <2>1
<1>4. Typed /\ WiringMended => Typed'
  BY DEF WiringMended
<1> QED
  BY <1>1, <1>2, <1>3, <1>4

\* Together: no step of the gateway spoils the types.
LEMMA StepTyped == Typed /\ [Next]_vars => Typed'
<1>1. Typed /\ UNCHANGED vars => Typed'
  BY DEF Typed, TypeOK, ArgsKept, vars, smVars, mainVars, portVars, flagVars, roundVars,
         cmdVars, tableVars, slaveVars
<1> QED
  BY <1>1, MainTyped, AcqTyped, CommandTyped, OthersTyped DEF Next

\* Every variable of the gateway has values of its kind, always.
THEOREM GatewayTypeCorrect == Spec => []TypeOK
<1>1. Spec => []Typed
  BY InitTyped, StepTyped, PTL DEF Spec
<1>2. Typed => TypeOK
  BY DEF Typed
<1> QED
  BY <1>1, <1>2, PTL
-----------------------------------------------------------------------------
(* The order in which things are set up and taken down.                    *)

ChannelsOff == \A c \in Channels : channel[c] = "off"
MqttUp == "mqtt" \in Channels => channel["mqtt"] = "on"
MqttDown == "mqtt" \in Channels => channel["mqtt"] = "off"

\* A command belongs to a channel that is up ...
CommandsHaveChannels == \A c \in Channels : cpc[c] # "idle" => channel[c] = "on"

\* ... and a channel or the acquisition thread to a port that is open.
UsersHavePort == apc # "none" \/ (\E c \in Channels : channel[c] = "on") => portOpen

\* The two threads of the gateway belong to an MQTT client that is up.
ThreadsHaveMqtt == apc # "none" \/ tpc # "none" => MqttUp

\* What start() and stop() have done so far, in each of their steps.
Phases ==
    /\ lpc \in {"setupSerial", "setupMqtt", "setupCmd", "threads", "rollback",
               "stopMqtt", "stopCmd", "close"} => apc = "none" /\ tpc = "none"
    /\ lpc \in {"stopTelem", "joinTelem"} => apc = "none"
    /\ lpc \in {"setupSerial", "setupMqtt", "close"} => ChannelsOff
    /\ lpc \in {"setupMqtt", "setupCmd", "threads"} => portOpen
    /\ lpc \in {"setupCmd", "threads"} => MqttUp
    /\ lpc = "stopCmd" => MqttDown
    /\ lpc = "idle" /\ ~running => apc = "none" /\ tpc = "none" /\ ChannelsOff

Lifecycle ==
    /\ CommandsHaveChannels /\ UsersHavePort /\ ThreadsHaveMqtt /\ Phases

\* The invariant is what the properties are read from.
LEMMA LifecycleSuffices == Typed /\ Lifecycle => LifecycleSafe
<1> SUFFICES ASSUME Typed, Lifecycle PROVE LifecycleSafe
  OBVIOUS
<1> USE DEF Lifecycle
<1>1. TypeOK
  BY DEF Typed
<1>2. LineNeedsPort
  BY DEF LineNeedsPort, CommandsHaveChannels, UsersHavePort
<1>3. PublishNeedsMqtt
  BY DEF PublishNeedsMqtt, ThreadsHaveMqtt, MqttUp
<1>4. StoppedIsQuiet
  BY DEF StoppedIsQuiet, Phases, ChannelsOff, CommandsHaveChannels
<1> QED
  BY <1>1, <1>2, <1>3, <1>4 DEF LifecycleSafe

\* Before the first start() nothing is up and nothing runs.
LEMMA InitLifecycle == Init => Lifecycle
BY DEF Init, Lifecycle, CommandsHaveChannels, UsersHavePort, ThreadsHaveMqtt, Phases, ChannelsOff

\* Steps that leave all of this alone.
Untouched == UNCHANGED <<lpc, running, portOpen, channel, cpc, apc, tpc>>

\* A step that leaves the channels, the port and the threads alone keeps the invariant.
LEMMA UntouchedLifecycle == Lifecycle /\ Untouched => Lifecycle'
BY DEF Untouched, Lifecycle, CommandsHaveChannels, UsersHavePort, ThreadsHaveMqtt, Phases,
       ChannelsOff, MqttUp, MqttDown

\* start() opens the port before the channels and the channels before the threads;
\* stop() joins the threads before the channels and those before it closes the port.
LEMMA MainLifecycle == Typed /\ Lifecycle /\ MainStep => Lifecycle'
<1> SUFFICES ASSUME Typed, Lifecycle, MainStep PROVE Lifecycle'
  OBVIOUS
<1> USE DEF Lifecycle, CommandsHaveChannels, UsersHavePort, ThreadsHaveMqtt, Phases, ChannelsOff,
            MqttUp, MqttDown, portVars, cmdVars
<1>0. /\ channel \in [Channels -> {"on", "off"}]
      /\ running \in BOOLEAN
  BY DEF Typed, TypeOK
<1>1. CASE StartCall
  BY <1>1 DEF StartCall, roundVars
<1>2. CASE SetupSerial
  BY <1>2 DEF SetupSerial, roundVars
<1>3. CASE SetupSerialFails
  BY <1>3 DEF SetupSerialFails, roundVars
<1>4. CASE SetupChannels
  <2>1. CASE lpc = "setupMqtt" /\ SetupChannel("mqtt", "setupCmd")
    BY <1>0, <1>4, <2>1 DEF SetupChannels, SetupChannel, roundVars
  <2>2. CASE lpc = "setupCmd" /\ SetupChannel("cmd", "threads")
    BY <1>0, <1>4, <2>2 DEF SetupChannels, SetupChannel, roundVars
  <2> QED
    BY <1>4, <2>1, <2>2 DEF SetupChannels
<1>5. CASE StartThreads
  BY <1>5 DEF StartThreads
<1>6. CASE StartEvent
  BY <1>6 DEF StartEvent, roundVars
<1>7. CASE StopCall
  BY <1>7 DEF StopCall, roundVars
<1>8. CASE StopThreads
  BY <1>8 DEF StopThreads, JoinAcq, JoinTelem
<1>9. CASE StopChannels
  <2>1. CASE lpc = "stopMqtt" /\ StopChannel("mqtt", "stopCmd")
    BY <1>0, <1>9, <2>1 DEF StopChannels, StopChannel, roundVars
  <2>2. CASE lpc = "stopCmd" /\ StopChannel("cmd", "close")
    BY <1>0, <1>9, <2>2 DEF StopChannels, StopChannel, roundVars
  <2> QED
    BY <1>9, <2>1, <2>2 DEF StopChannels
<1>10. CASE ClosePorts
  BY <1>10 DEF ClosePorts, roundVars
<1> QED
  BY <1>1, <1>2, <1>3, <1>4, <1>5, <1>6, <1>7, <1>8, <1>9, <1>10 DEF MainStep

\* The threads begin and end nothing but themselves.
LEMMA AcqLifecycle == Lifecycle /\ AcqStep => Lifecycle'
<1> SUFFICES ASSUME Lifecycle, AcqStep PROVE Lifecycle'
  OBVIOUS
<1>1. /\ apc # "none" /\ apc' # "none"
      /\ UNCHANGED <<lpc, running, portOpen, channel, cpc, tpc>>
  BY DEF AcqStep, AcqExit, AcqRound, AcqPoint, ReadOrCount, AcqLock, AcqRead, AcqStore,
         AcqTally, AcqCount, AcqJudge, AcqError, AcqRecovered, AcqReset, mainVars, portVars, cmdVars
<1> QED
  BY <1>1 DEF Lifecycle, CommandsHaveChannels, UsersHavePort, ThreadsHaveMqtt, Phases,
              ChannelsOff, MqttUp, MqttDown

\* The telemetry thread publishes through a client that is up.
LEMMA TelemLifecycle == Lifecycle /\ TelemStep => Lifecycle'
<1> SUFFICES ASSUME Lifecycle, TelemStep PROVE Lifecycle'
  OBVIOUS
<1>1. /\ tpc # "none" /\ tpc' # "none"
      /\ UNCHANGED <<lpc, running, portOpen, channel, cpc, apc>>
  BY DEF TelemStep, mainVars, portVars, cmdVars, roundVars
<1> QED
  BY <1>1 DEF Lifecycle, CommandsHaveChannels, UsersHavePort, ThreadsHaveMqtt, Phases,
              ChannelsOff, MqttUp, MqttDown

\* A command begins and goes on in a channel that is up.
LEMMA CommandLifecycle ==
    ASSUME NEW c \in Channels PROVE Typed /\ Lifecycle /\ CommandStep(c) => Lifecycle'
<1> SUFFICES ASSUME Typed, Lifecycle, CommandStep(c) PROVE Lifecycle'
  OBVIOUS
<1>0. cpc \in [Channels -> CommandStates]
  BY DEF Typed, TypeOK
<1>1. /\ channel[c] = "on"
      /\ \A d \in Channels : d # c => cpc'[d] = cpc[d]
      /\ UNCHANGED <<lpc, running, portOpen, channel, apc, tpc>>
  BY <1>0 DEF CommandStep, WriteReg, BeginCommand, WriteLock, WriteTransaction, WriteStore,
              SetPeriod, InjectFault, Recover, RecoverStep, mainVars, portVars, roundVars,
              Lifecycle, CommandsHaveChannels
<1> QED
  BY <1>1 DEF Lifecycle, CommandsHaveChannels, UsersHavePort, ThreadsHaveMqtt, Phases,
              ChannelsOff, MqttUp, MqttDown

\* Together: no step of the gateway breaks the order of start() and stop().
LEMMA StepLifecycle == Typed /\ Lifecycle /\ [Next]_vars => Lifecycle'
<1> SUFFICES ASSUME Typed, Lifecycle, [Next]_vars PROVE Lifecycle'
  OBVIOUS
<1>1. CASE MqttConnects \/ WiringFails \/ WiringMended \/ UNCHANGED vars
  <2>1. Untouched
    BY <1>1 DEF MqttConnects, WiringFails, WiringMended, vars, mainVars, portVars, roundVars,
                cmdVars, Untouched
  <2> QED
    BY <2>1, UntouchedLifecycle
<1> QED
  BY <1>1, MainLifecycle, AcqLifecycle, TelemLifecycle, CommandLifecycle DEF Next

\* In any order of starts, failed starts, stops and commands, the port outlives its
\* transactions, the MQTT client what is published, and nothing runs after stop().
THEOREM LifecycleIsSafe == Spec => []LifecycleSafe
<1>1. Typed /\ Lifecycle /\ [Next]_vars => Typed' /\ Lifecycle'
  BY StepTyped, StepLifecycle
<1>2. Spec => [](Typed /\ Lifecycle)
  BY InitTyped, InitLifecycle, <1>1, PTL DEF Spec
<1> QED
  BY <1>2, LifecycleSuffices, PTL
-----------------------------------------------------------------------------
(* The judgement of the line.                                              *)

\* The counter of failed rounds never runs ahead of the failures themselves, but
\* for the moment before a success sets it back; neither does what the
\* acquisition thread is about to store, and nothing else ends in "error".
Counting ==
    /\ apc \notin {"recovered", "reset"} => failRounds <= failRun
    /\ apc = "count" => Saturated(loaded + 1) <= failRun
    /\ apc = "judge" /\ loaded + 1 >= kSerialFailRounds => failRun = kSerialFailRounds
    /\ apc = "error" => failRun = kSerialFailRounds

\* No failed round has been counted before the first start().
LEMMA InitCounting == Init => Counting
BY DEF Init, Counting

\* The acquisition thread judges with the counter it has read and raised itself.
LEMMA AcqCounting == Typed /\ Counting /\ AcqStep => Counting'
<1> SUFFICES ASSUME Typed, Counting, AcqStep PROVE Counting'
  OBVIOUS
<1> USE DEF Counting, FailCounts
<1>0. /\ loaded \in FailCounts /\ failRounds \in FailCounts /\ failRun \in FailCounts
      /\ okAny \in BOOLEAN
  BY DEF Typed, TypeOK
<1>1. CASE AcqExit \/ (\E D \in SUBSET Points : AcqRound(D)) \/ AcqPoint \/ AcqLock \/ AcqRead
          \/ AcqStore
  BY <1>0, <1>1 DEF AcqExit, AcqRound, AcqPoint, ReadOrCount, AcqLock, AcqRead, AcqStore
<1>2. CASE AcqTally
  <2>1. CASE okAny
    BY <1>0, <1>2, <2>1 DEF AcqTally
  <2>2. CASE ~okAny
    BY <1>0, <1>2, <2>2 DEF AcqTally, Saturated
  <2> QED
    BY <2>1, <2>2
<1>3. CASE AcqCount
  BY <1>0, <1>3 DEF AcqCount, Saturated
<1>4. CASE AcqJudge
  BY <1>0, <1>4 DEF AcqJudge, Judge
<1>5. CASE AcqError \/ AcqRecovered
  BY <1>0, <1>5 DEF AcqError, AcqRecovered
<1>6. CASE AcqReset
  BY <1>0, <1>6 DEF AcqReset, FailuresForgotten
<1> QED
  BY <1>1, <1>2, <1>3, <1>4, <1>5, <1>6 DEF AcqStep

\* recover() may set the counter back at any moment, and nobody else touches it.  A
\* new acquisition thread finds it as the last one, which had ended, has left it.
LEMMA StepCounting == Typed /\ Lifecycle /\ Counting /\ [Next]_vars => Counting'
<1> SUFFICES ASSUME Typed, Lifecycle, Counting, [Next]_vars PROVE Counting'
  OBVIOUS
<1>0. failRun \in FailCounts
  BY DEF Typed, TypeOK
<1>1. CASE MainStep
  <2>1. /\ apc' # apc => apc \in {"none", "done"} /\ apc' \in {"none", "waiting"}
        /\ UNCHANGED <<failRounds, loaded, failRun>>
    BY <1>1 DEF MainStep, StartCall, SetupSerial, SetupSerialFails, SetupChannels, StartThreads,
                StartEvent, StopCall, StopThreads, JoinAcq, StopChannels, ClosePorts, roundVars,
                Lifecycle, Phases
  <2> QED
    BY <2>1 DEF Counting, Saturated
<1>2. ASSUME NEW c \in Channels, CommandStep(c) PROVE Counting'
  <2>1. /\ failRounds' \in {0, failRounds}
        /\ UNCHANGED roundVars
    BY <1>2 DEF CommandStep, WriteReg, WriteLock, WriteTransaction, WriteStore, SetPeriod,
                InjectFault, Recover, RecoverStep
  <2> QED
    BY <1>0, <2>1 DEF roundVars, Counting, FailCounts
<1>3. CASE TelemStep \/ MqttConnects \/ WiringFails \/ WiringMended \/ UNCHANGED vars
  <2>1. UNCHANGED <<roundVars, failRounds>>
    BY <1>3 DEF TelemStep, MqttConnects, WiringFails, WiringMended, vars
  <2> QED
    BY <2>1 DEF roundVars, Counting
<1> QED
  BY <1>1, <1>2, <1>3, AcqCounting DEF Next

\* Only the acquisition thread dispatches SerialError, and only after the rounds it
\* takes.
LEMMA FaultStep == Typed /\ Counting /\ [Next]_vars =>
    (sm = "Running" /\ sm' = "Fault" => failRun = kSerialFailRounds)
<1> SUFFICES ASSUME Typed, Counting, [Next]_vars, sm = "Running", sm' = "Fault"
             PROVE  failRun = kSerialFailRounds
  OBVIOUS
<1>0. sm \in States
  BY DEF Typed, TypeOK
<1>1. ASSUME NEW ev, Dispatch(ev) PROVE ev = "SerialError"
  BY <1>0, <1>1, WayIntoFault DEF Dispatch
<1>2. ~MainStep
  BY <1>1 DEF MainStep, StartCall, SetupSerial, SetupSerialFails, SetupChannels, SetupChannel,
              StartThreads, StartEvent, StopCall, StopThreads, StopChannels, ClosePorts, smVars
<1>3. ~ \E c \in Channels : CommandStep(c)
  BY <1>1 DEF CommandStep, WriteReg, WriteLock, WriteTransaction, WriteStore, SetPeriod,
              InjectFault, Recover, RecoverStep, smVars
<1>4. ~(TelemStep \/ MqttConnects \/ WiringFails \/ WiringMended \/ UNCHANGED vars)
  BY DEF TelemStep, MqttConnects, WiringFails, WiringMended, vars, smVars
<1>5. AcqStep => apc = "error"
  BY <1>1 DEF AcqStep, AcqExit, AcqRound, AcqPoint, AcqLock, AcqRead, AcqStore, AcqTally,
              AcqCount, AcqJudge, AcqError, AcqRecovered, AcqReset, smVars
<1> QED
  BY <1>2, <1>3, <1>4, <1>5 DEF Next, Counting

\* Running turns into Fault only after kSerialFailRounds failed rounds in a row,
\* although recover() writes the counter without a lock.
THEOREM FaultsAreEarned == Spec => FaultIsEarned
<1>1. Typed /\ Lifecycle /\ Counting /\ [Next]_vars => Typed' /\ Lifecycle' /\ Counting'
  BY StepTyped, StepLifecycle, StepCounting
<1>2. Typed /\ Counting /\ [Next]_vars =>
          [sm = "Running" /\ sm' = "Fault" => failRun = kSerialFailRounds]_vars
  BY FaultStep
<1> QED
  BY InitTyped, InitLifecycle, InitCounting, <1>1, <1>2, PTL DEF Spec, FaultIsEarned
-----------------------------------------------------------------------------
(* Leaving Fault.                                                          *)

\* recover() apart, nobody comes between the counter and those who rely on it: it
\* is full as long as the gateway is in Fault, so that a round with a success
\* does not pass over the recovery.
Undisturbed ==
    /\ \A c \in Channels : cpc[c] \notin {"forget", "look", "pull"}
    /\ apc = "count" => loaded = failRounds
    /\ apc = "judge" => failRounds = Saturated(loaded + 1)
    /\ apc = "error" \/ sm = "Fault" => failRounds = kSerialFailRounds
    /\ apc = "reset" => sm # "Fault"

\* SerialRecovered never leaves the gateway in Fault.
LEMMA RecoveredLeavesFault ==
    ASSUME NEW s \in States PROVE After(s, "SerialRecovered") # "Fault"
<1>1. CASE s = "Fault"
  <2>1. \A to \in States : <<s, "SerialRecovered", to>> \in Rules <=> to = "Running"
    BY <1>1 DEF Rules, States
  <2>2. "Running" \in States
    BY DEF States
  <2> QED
    BY <2>1, <2>2 DEF After
<1>2. CASE s # "Fault"
  BY <1>2, WayIntoFault
<1> QED
  BY <1>1, <1>2

\* No counter is full before the first start(), and no channel recovers.
LEMMA InitUndisturbed == Init => Undisturbed
BY DEF Init, Undisturbed

\* The acquisition thread counts what it has read, and asks for the recovery
\* with the counter that brought the fault about.
LEMMA AcqUndisturbed == Typed /\ Undisturbed /\ AcqStep => Undisturbed'
<1> SUFFICES ASSUME Typed, Undisturbed, AcqStep PROVE Undisturbed'
  OBVIOUS
<1>0. /\ loaded \in FailCounts /\ failRounds \in FailCounts /\ sm \in States
      /\ kSerialFailRounds \in Nat
  BY DEF Typed, TypeOK
<1> USE DEF Undisturbed, FailCounts, smVars, cmdVars
<1>1. CASE AcqExit \/ (\E D \in SUBSET Points : AcqRound(D)) \/ AcqPoint \/ AcqLock \/ AcqRead
          \/ AcqStore
  BY <1>1 DEF AcqExit, AcqRound, AcqPoint, ReadOrCount, AcqLock, AcqRead, AcqStore
<1>2. CASE AcqTally
  BY <1>0, <1>2 DEF AcqTally, RecoveryDue
<1>3. CASE AcqCount
  BY <1>0, <1>3 DEF AcqCount, Saturated
<1>4. CASE AcqJudge
  BY <1>0, <1>4 DEF AcqJudge, Judge, Saturated
<1>5. CASE AcqError
  BY <1>5 DEF AcqError
<1>6. CASE AcqRecovered
  <2>1. sm' # "Fault" /\ apc' = "reset" /\ UNCHANGED cpc
    BY <1>0, <1>6, RecoveredLeavesFault DEF AcqRecovered, Dispatch
  <2> QED
    BY <2>1
<1>7. CASE AcqReset
  BY <1>7 DEF AcqReset, FailuresForgotten
<1> QED
  BY <1>1, <1>2, <1>3, <1>4, <1>5, <1>6, <1>7 DEF AcqStep

\* start() and stop() do not lead into Fault and leave the counter alone; no other
\* command than recover touches either.
LEMMA StepUndisturbed ==
    ASSUME "recover" \notin Commands, Typed, Lifecycle, Undisturbed, [Next]_vars
    PROVE  Undisturbed'
<1>0. sm \in States
  BY DEF Typed, TypeOK
<1>1. CASE MainStep
  <2>1. /\ apc' # apc => apc \in {"none", "done"} /\ apc' \in {"none", "waiting"}
        /\ UNCHANGED <<failRounds, loaded, cpc>>
    BY <1>1 DEF MainStep, StartCall, SetupSerial, SetupSerialFails, SetupChannels, StartThreads,
                StartEvent, StopCall, StopThreads, JoinAcq, StopChannels, ClosePorts, roundVars,
                cmdVars, Lifecycle, Phases
  <2>2. UNCHANGED sm \/ \E ev \in {"ConfigLoaded", "Fatal", "Start", "Stop"} : Dispatch(ev)
    BY <1>1 DEF MainStep, StartCall, SetupSerial, SetupSerialFails, SetupChannels, SetupChannel,
                StartThreads, StartEvent, StopCall, StopThreads, StopChannels, ClosePorts, smVars
  <2>3. sm' = "Fault" => sm = "Fault"
    BY <1>0, <2>2, WayIntoFault DEF Dispatch
  <2> QED
    BY <2>1, <2>3 DEF Undisturbed
<1>2. ASSUME NEW c \in Channels, CommandStep(c) PROVE Undisturbed'
  <2>1. cpc[c] \notin {"forget", "look", "pull"} /\ cpc \in [Channels -> CommandStates]
    BY DEF Undisturbed, Typed, TypeOK
  <2>2. /\ UNCHANGED <<sm, failRounds, apc, loaded>>
        /\ \A d \in Channels : cpc'[d] = cpc[d] \/ cpc'[d] \in {"idle", "lock", "line", "store"}
    BY <1>2, <2>1 DEF CommandStep, WriteReg, WriteLock, WriteTransaction, WriteStore, SetPeriod,
                InjectFault, Recover, RecoverStep, BeginCommand, smVars, roundVars
  <2> QED
    BY <2>2 DEF Undisturbed
<1>3. CASE TelemStep \/ MqttConnects \/ WiringFails \/ WiringMended \/ UNCHANGED vars
  <2>1. UNCHANGED <<sm, failRounds, apc, loaded, cpc>>
    BY <1>3 DEF TelemStep, MqttConnects, WiringFails, WiringMended, vars, smVars, roundVars, cmdVars
  <2> QED
    BY <2>1 DEF Undisturbed
<1> QED
  BY <1>1, <1>2, <1>3, AcqUndisturbed DEF Next

\* A round with a success ends outside Fault (the comment above the judgement in
\* pollDuePoints), as long as no channel sends recover.  The hypothesis is
\* needed: with it the promise fails, as the run gateway_fault_stuck shows.
THEOREM SuccessesLeaveFault ==
    ASSUME "recover" \notin Commands PROVE Spec => SuccessLeavesFault
<1>1. Typed /\ Lifecycle /\ Undisturbed /\ [Next]_vars
          => Typed' /\ Lifecycle' /\ Undisturbed'
  BY StepTyped, StepLifecycle, StepUndisturbed
<1>2. Typed /\ Lifecycle /\ Undisturbed /\ [Next]_vars =>
          [apc = "reset" /\ apc' = "waiting" => sm' # "Fault"]_vars
  <2> SUFFICES ASSUME Typed, Lifecycle, Undisturbed, [Next]_vars,
                      apc = "reset", apc' = "waiting"
               PROVE  sm' # "Fault"
    OBVIOUS
  <2>1. CASE AcqStep
    BY <2>1 DEF AcqStep, AcqExit, AcqRound, AcqPoint, AcqLock, AcqRead, AcqStore, AcqTally,
                AcqCount, AcqJudge, AcqError, AcqRecovered, AcqReset, smVars, Undisturbed
  <2>2. ASSUME ~AcqStep PROVE UNCHANGED apc \/ apc # "reset"
    BY <2>2 DEF Next, MainStep, StartCall, SetupSerial, SetupSerialFails, SetupChannels,
                StartThreads, StartEvent, StopCall, StopThreads, JoinAcq, StopChannels,
                ClosePorts, TelemStep, CommandStep, WriteReg, WriteLock, WriteTransaction,
                WriteStore, SetPeriod, InjectFault, Recover, RecoverStep, MqttConnects,
                WiringFails, WiringMended, vars, roundVars, Lifecycle, Phases
  <2> QED
    BY <2>1, <2>2
<1> QED
  BY InitTyped, InitLifecycle, InitUndisturbed, <1>1, <1>2, PTL DEF Spec, SuccessLeavesFault
=============================================================================
