-------------------------- MODULE MqttPackets_proofs ---------------------------
(***************************************************************************)
(* What the MQTT codec does, for all bytes and all packets.                *)
(*                                                                         *)
(* The decoder is prefix-stable: bytes that come later change no verdict   *)
(* but "more" (VerdictKept).  A packet that it reads as what it is meant   *)
(* to be (Meant) is therefore found in front of any other bytes, and never *)
(* before its last byte has come, so that the receive loop keeps           *)
(* StreamInv: what has come and what is under way are the bytes of the     *)
(* packets not decoded yet, and the buffer overflows only over a packet    *)
(* whose last byte has not come.  That gives StreamDecoded for every       *)
(* stream of such packets, every way recv() cuts it and every limit.       *)
(*                                                                         *)
(* What a decoder accepts, the encoder writes again, byte for byte; with   *)
(* prefix stability that is DecoderSound, for all bytes.                   *)
(*                                                                         *)
(* Last, every packet that the client and the brokers of the tests encode  *)
(* is Meant: fixed parts by arithmetic on bytes; lists of strings because  *)
(* the table that Items is defined by is determined from its end           *)
(* (FromTheEnd, ItemsTable), so that it has to give the items which the    *)
(* bytes were made of (ItemsRead).                                         *)
(***************************************************************************)
EXTENDS MqttPackets, SequenceLemmas
-----------------------------------------------------------------------------
(* How far the decoder looks: the length, and bytes that begin alike.      *)

\* b begins with p.
Begins(b, p) == Len(p) <= Len(b) /\ \A i \in 1 .. Len(p) : p[i] = b[i]

\* The n-th byte of a length is its last, and the number its first n bytes stand for.
LengthEnds(b, n) ==
    n \in 1 .. 4 /\ n <= Len(b) /\ b[n] < 128 /\ \A i \in 1 .. 3 : i < n => b[i] >= 128
\* What a byte of a length of n bytes counts, and all of them.
LengthPart(b, n, i) == IF i <= n THEN (b[i] % 128) * Weight[i] ELSE 0
LengthValue(b, n) ==
    LengthPart(b, n, 1) + LengthPart(b, n, 2) + LengthPart(b, n, 3) + LengthPart(b, n, 4)
\* No byte so far is the last of the length.
LengthOpen(b) == \A i \in 1 .. 4 : i <= Len(b) => b[i] >= 128

\* The elements of a sequence of bytes.
LEMMA BytesOf ==
    ASSUME NEW b \in Seq(Byte)
    PROVE  \E N \in Nat : N = Len(b) /\ \A i \in 1 .. N : b[i] \in Byte /\ b[i] \in 0 .. 255
<1>1. Len(b) \in Nat /\ \A i \in 1 .. Len(b) : b[i] \in Byte
  OBVIOUS
<1> QED
  BY <1>1 DEF Byte

\* A length ends or is open, and what is decoded in each case.
LEMMA LengthEndsOrOpen ==
    ASSUME NEW b \in Seq(Byte)
    PROVE  LengthOpen(b) \/ \E n \in 1 .. 4 : LengthEnds(b, n)
<1>1. PICK N \in Nat : N = Len(b) /\ \A i \in 1 .. N : b[i] \in 0 .. 255
  BY BytesOf
<1> DEFINE Ends(i) == i <= N /\ b[i] < 128
<1>2. \A n \in 1 .. 4 : Ends(n) /\ (\A i \in 1 .. 3 : i < n => ~Ends(i)) => LengthEnds(b, n)
  <2> SUFFICES ASSUME NEW n \in 1 .. 4, Ends(n), \A i \in 1 .. 3 : i < n => ~Ends(i)
               PROVE  LengthEnds(b, n)
    OBVIOUS
  <2>1. ASSUME NEW i \in 1 .. 3, i < n PROVE b[i] >= 128
    <3>1. i \in 1 .. N /\ ~(b[i] < 128)
      BY <2>1
    <3>2. PICK x \in 0 .. 255 : x = b[i]
      BY <1>1, <3>1
    <3> QED
      BY <3>1, <3>2
  <2> QED
    BY <1>1, <2>1 DEF LengthEnds
<1>3. ASSUME \A i \in 1 .. 4 : ~Ends(i) PROVE LengthOpen(b)
  <2> SUFFICES ASSUME NEW i \in 1 .. 4, i <= N PROVE b[i] >= 128
    BY <1>1 DEF LengthOpen
  <2>1. i \in 1 .. N
    OBVIOUS
  <2>2. b[i] \in 0 .. 255
    BY <1>1, <2>1, Zenon
  <2>3. PICK x \in 0 .. 255 : x = b[i]
    BY <2>2
  <2>4. ~(b[i] < 128)
    BY <1>3
  <2>5. ~(x < 128)
    BY <2>3, <2>4, Zenon
  <2>6. x >= 128
    BY <2>5
  <2> QED
    BY <2>3, <2>6, Zenon
<1> HIDE DEF Ends
<1>4. CASE Ends(1)
  BY <1>2, <1>4
<1>5. CASE ~Ends(1) /\ Ends(2)
  BY <1>2, <1>5
<1>6. CASE ~Ends(1) /\ ~Ends(2) /\ Ends(3)
  BY <1>2, <1>6
<1>7. CASE ~Ends(1) /\ ~Ends(2) /\ ~Ends(3) /\ Ends(4)
  BY <1>2, <1>7
<1>8. CASE ~Ends(1) /\ ~Ends(2) /\ ~Ends(3) /\ ~Ends(4)
  BY <1>3, <1>8
<1> QED
  BY <1>4, <1>5, <1>6, <1>7, <1>8

\* A length that ends.
LEMMA LengthDecoded ==
    ASSUME NEW b \in Seq(Byte), NEW n, LengthEnds(b, n)
    PROVE  DecodeRemainingLength(b) = [ok |-> TRUE, used |-> n, value |-> LengthValue(b, n)]
<1>1. PICK N \in Nat : N = Len(b) /\ \A i \in 1 .. N : b[i] \in 0 .. 255
  BY BytesOf
<1>2. PICK most \in 0 .. 4 : most = (IF N < 4 THEN N ELSE 4) /\ most <= N
  BY <1>1
<1>3. n \in 1 .. 4 /\ n <= N /\ b[n] < 128 /\ \A i \in 1 .. 3 : i < n => b[i] >= 128
  BY <1>1 DEF LengthEnds
<1> DEFINE last == {i \in 1 .. most : b[i] < 128}
<1>4. n \in last
  BY <1>1, <1>2, <1>3
<1>5. \A i \in last : i \in Int /\ n <= i
  <2> SUFFICES ASSUME NEW i \in last, ~(n <= i) PROVE FALSE
    OBVIOUS
  <2>1. i \in 1 .. 3 /\ i < n /\ i \in 1 .. N /\ b[i] < 128
    BY <1>2, <1>3
  <2>2. PICK x \in 0 .. 255 : x = b[i]
    BY <1>1, <2>1
  <2> QED
    BY <1>3, <2>1, <2>2
<1>6. DecodeRemainingLength(b) =
        LET m == Min(last)
            Part(i) == IF i <= m THEN (b[i] % 128) * Weight[i] ELSE 0
        IN  IF last = {} THEN [ok |-> FALSE, used |-> most, value |-> 0]
            ELSE [ok |-> TRUE, used |-> m, value |-> Part(1) + Part(2) + Part(3) + Part(4)]
  BY <1>1, <1>2 DEF DecodeRemainingLength
<1> HIDE DEF last
<1>7. Min(last) = n
  <2>1. \A x \in last : (\A y \in last : x <= y) => x = n
    BY <1>3, <1>4, <1>5
  <2> QED
    BY <1>4, <1>5, <2>1 DEF Min
<1>8. last # {}
  BY <1>4
<1> QED
  BY <1>6, <1>7, <1>8 DEF LengthValue, LengthPart

\* A length that does not.
LEMMA LengthNotDecoded ==
    ASSUME NEW b \in Seq(Byte), LengthOpen(b)
    PROVE  DecodeRemainingLength(b) =
             [ok |-> FALSE, used |-> IF Len(b) < 4 THEN Len(b) ELSE 4, value |-> 0]
<1>1. PICK N \in Nat : N = Len(b) /\ \A i \in 1 .. N : b[i] \in 0 .. 255
  BY BytesOf
<1>2. PICK most \in 0 .. 4 : most = (IF N < 4 THEN N ELSE 4) /\ most <= N
  BY <1>1
<1>3. {i \in 1 .. most : b[i] < 128} = {}
  <2> SUFFICES ASSUME NEW i \in 1 .. most, b[i] < 128 PROVE FALSE
    OBVIOUS
  <2>1. i \in 1 .. 4 /\ i \in 1 .. N
    BY <1>2
  <2>2. PICK x \in 0 .. 255 : x = b[i]
    BY <1>1, <2>1
  <2>3. b[i] >= 128
    BY <1>1, <2>1 DEF LengthOpen
  <2> QED
    BY <2>2, <2>3
<1>4. DecodeRemainingLength(b) = [ok |-> FALSE, used |-> most, value |-> 0]
  BY <1>1, <1>2, <1>3 DEF DecodeRemainingLength
<1> QED
  BY <1>1, <1>2, <1>4

\* The weights are numbers.
LEMMA Weights ==
    /\ Weight[1] = 1 /\ Weight[2] = 128 /\ Weight[3] = 16384 /\ Weight[4] = 2097152
    /\ Weight[5] = 268435456
BY SMT DEF Weight

\* ... also as a fact about all of them.
LEMMA WeightIsNat == \A i \in 1 .. 5 : Weight[i] \in Nat
BY SMT, Weights

\* The bounds of a length.
LEMMA LengthBounds ==
    ASSUME NEW b \in Seq(Byte), NEW n, LengthEnds(b, n)
    PROVE  n \in 1 .. 4 /\ n <= Len(b) /\ LengthValue(b, n) \in Nat
<1>1. PICK N \in Nat : N = Len(b) /\ \A i \in 1 .. N : b[i] \in 0 .. 255
  BY BytesOf
<1>2. n \in 1 .. 4 /\ n <= N
  BY <1>1 DEF LengthEnds
<1>3. \A i \in 1 .. 4 : LengthPart(b, n, i) \in Nat
  <2> SUFFICES ASSUME NEW i \in 1 .. 4, i <= n PROVE LengthPart(b, n, i) \in Nat
    BY DEF LengthPart
  <2>1. i \in 1 .. N
    BY <1>2
  <2>2. PICK x \in 0 .. 255 : x = b[i]
    BY <1>1, <2>1
  <2>3. PICK w \in Nat : w = Weight[i]
    BY WeightIsNat
  <2>4. PICK y \in Nat : y = x % 128
    BY <2>2
  <2>5. y * w \in Nat
    BY <2>3, <2>4
  <2> QED
    BY <2>2, <2>3, <2>4, <2>5 DEF LengthPart
<1> QED
  BY <1>1, <1>2, <1>3 DEF LengthValue

\* More bytes do not change a length that has ended, or that cannot end any more.
LEMMA LengthKept ==
    ASSUME NEW p \in Seq(Byte), NEW b \in Seq(Byte), Begins(b, p)
    PROVE  /\ \A n : LengthEnds(p, n) => LengthEnds(b, n) /\ LengthValue(p, n) = LengthValue(b, n)
           /\ LengthOpen(p) /\ Len(p) >= 4 => LengthOpen(b) /\ Len(b) >= 4
<1>1. Len(b) \in Nat /\ Len(p) \in Nat /\ Len(p) <= Len(b) /\ \A i \in 1 .. Len(p) : p[i] = b[i]
  BY DEF Begins
<1>2. ASSUME NEW n, LengthEnds(p, n)
      PROVE  LengthEnds(b, n) /\ LengthValue(p, n) = LengthValue(b, n)
  <2>1. n \in 1 .. 4 /\ n <= Len(p) /\ p[n] < 128 /\ \A i \in 1 .. 3 : i < n => p[i] >= 128
    BY <1>2 DEF LengthEnds
  <2>2. \A i \in 1 .. 4 : i <= n => p[i] = b[i]
    BY <1>1, <2>1
  <2>3. \A i \in 1 .. 4 : LengthPart(p, n, i) = LengthPart(b, n, i)
    BY <2>2 DEF LengthPart
  <2>4. LengthEnds(b, n)
    BY <1>1, <2>1, <2>2 DEF LengthEnds
  <2> QED
    BY <2>3, <2>4 DEF LengthValue
<1>3. ASSUME LengthOpen(p), Len(p) >= 4 PROVE LengthOpen(b) /\ Len(b) >= 4
  BY <1>1, <1>3 DEF LengthOpen
<1> QED
  BY <1>2, <1>3

\* What is left without the first byte.
LEMMA TailOf ==
    ASSUME NEW S, NEW b \in Seq(S), Len(b) >= 1
    PROVE  /\ Tail(b) \in Seq(S) /\ Len(Tail(b)) = Len(b) - 1
           /\ \A i \in 1 .. Len(b) - 1 : Tail(b)[i] = b[i + 1]
<1>1. b # <<>> /\ Len(b) \in Nat
  OBVIOUS
<1> QED
  BY <1>1, HeadTailProperties

\* The head of a packet is one that the decoder knows.
LegalHead(b) == b[1] \div 16 \in 1 .. 14 /\ LegalFlags(b[1] \div 16, b[1] % 16)

\* The packet whose length has n bytes.
FrameEnd(b, n) == 1 + n + LengthValue(Tail(b), n)
\* What is in it.
Content(b, n) == DecodeBody(b[1] \div 16, b[1] % 16, SubSeq(b, 2 + n, FrameEnd(b, n)))

\* Its verdict.
LEMMA FrameVerdict ==
    ASSUME NEW b \in Seq(Byte), Len(b) >= 2, LegalHead(b), NEW n, LengthEnds(Tail(b), n)
    PROVE  DecodePacket(b) =
             IF Len(b) < FrameEnd(b, n) THEN More
             ELSE IF Content(b, n) = <<>> THEN Bad ELSE Accept(Content(b, n)[1], FrameEnd(b, n))
<1>1. Tail(b) \in Seq(Byte)
  BY TailOf
<1>2. DecodeRemainingLength(Tail(b)) =
        [ok |-> TRUE, used |-> n, value |-> LengthValue(Tail(b), n)]
  BY <1>1, LengthDecoded
<1> DEFINE rl == DecodeRemainingLength(Tail(b))
           end == 1 + rl.used + rl.value
           body == DecodeBody(b[1] \div 16, b[1] % 16, SubSeq(b, 2 + rl.used, end))
<1>3. ~(Len(b) < 2)
  OBVIOUS
<1>4. DecodePacket(b) = IF ~rl.ok THEN LengthMissing(Tail(b))
                        ELSE IF Len(b) < end THEN More
                        ELSE IF body = <<>> THEN Bad
                        ELSE Accept(body[1], end)
  BY <1>3 DEF DecodePacket, LegalHead
<1>5. rl.ok = TRUE /\ rl.used = n /\ rl.value = LengthValue(Tail(b), n)
  BY <1>2
<1>6. end = FrameEnd(b, n) /\ body = Content(b, n)
  BY <1>5 DEF FrameEnd, Content
<1> HIDE DEF rl, end, body
<1> QED
  BY <1>4, <1>5, <1>6

\* The other verdicts.
LEMMA OtherVerdicts ==
    ASSUME NEW b \in Seq(Byte)
    PROVE  /\ Len(b) < 2 => DecodePacket(b) = More
           /\ Len(b) >= 2 /\ ~LegalHead(b) => DecodePacket(b) = Bad
           /\ Len(b) >= 2 /\ LegalHead(b) /\ LengthOpen(Tail(b)) =>
                DecodePacket(b) = IF Len(b) >= 5 THEN Bad ELSE More
<1>1. Len(b) \in Nat
  OBVIOUS
<1>2. ASSUME Len(b) < 2 PROVE DecodePacket(b) = More
  BY <1>2 DEF DecodePacket
<1>3. ASSUME Len(b) >= 2, ~LegalHead(b) PROVE DecodePacket(b) = Bad
  <2>1. ~(Len(b) < 2)
    BY <1>1, <1>3
  <2> QED
    BY <1>3, <2>1 DEF DecodePacket, LegalHead
<1>4. ASSUME Len(b) >= 2, LegalHead(b), LengthOpen(Tail(b))
      PROVE  DecodePacket(b) = IF Len(b) >= 5 THEN Bad ELSE More
  <2>1. Tail(b) \in Seq(Byte) /\ Len(Tail(b)) = Len(b) - 1 /\ ~(Len(b) < 2)
    BY <1>1, <1>4, TailOf
  <2>2. DecodeRemainingLength(Tail(b)) =
          [ok |-> FALSE, used |-> IF Len(Tail(b)) < 4 THEN Len(Tail(b)) ELSE 4, value |-> 0]
    BY <1>4, <2>1, LengthNotDecoded
  <2>3. /\ DecodeRemainingLength(Tail(b)).ok = FALSE
        /\ DecodeRemainingLength(Tail(b)).used = 4 <=> Len(b) >= 5
    BY <1>1, <2>1, <2>2
  <2>4. DecodePacket(b) = LengthMissing(Tail(b))
    BY <1>4, <2>1, <2>3 DEF DecodePacket, LegalHead
  <2> QED
    BY <2>3, <2>4 DEF LengthMissing
<1> QED
  BY <1>2, <1>3, <1>4

\* An accepted packet is among the bytes.
LEMMA AcceptedIsWhole ==
    ASSUME NEW b \in Seq(Byte), DecodePacket(b).kind = "packet"
    PROVE  /\ Len(b) >= 2 /\ LegalHead(b)
           /\ \E n \in 1 .. 4 :
                /\ LengthEnds(Tail(b), n) /\ FrameEnd(b, n) \in 2 .. Len(b)
                /\ Content(b, n) # <<>>
                /\ DecodePacket(b) = Accept(Content(b, n)[1], FrameEnd(b, n))
<1>1. More.kind # "packet" /\ Bad.kind # "packet" /\ Len(b) \in Nat
  BY DEF More, Bad
<1>2. Len(b) >= 2 /\ LegalHead(b) /\ ~LengthOpen(Tail(b))
  BY <1>1, OtherVerdicts
<1>3. Tail(b) \in Seq(Byte) /\ Len(Tail(b)) = Len(b) - 1
  BY <1>2, TailOf
<1>4. PICK n \in 1 .. 4 : LengthEnds(Tail(b), n)
  BY <1>2, <1>3, LengthEndsOrOpen
<1>5. LengthValue(Tail(b), n) \in Nat
  BY <1>3, <1>4, LengthBounds
<1>6. FrameEnd(b, n) \in Nat /\ FrameEnd(b, n) >= 2
  BY <1>5 DEF FrameEnd
<1>7. DecodePacket(b) =
        IF Len(b) < FrameEnd(b, n) THEN More
        ELSE IF Content(b, n) = <<>> THEN Bad ELSE Accept(Content(b, n)[1], FrameEnd(b, n))
  BY <1>2, <1>4, FrameVerdict
<1>8. ~(Len(b) < FrameEnd(b, n)) /\ Content(b, n) # <<>>
  BY <1>1, <1>7
<1>9. DecodePacket(b) = Accept(Content(b, n)[1], FrameEnd(b, n))
  BY <1>7, <1>8
<1>10. FrameEnd(b, n) \in 2 .. Len(b)
  BY <1>1, <1>6, <1>8
<1> QED
  BY <1>2, <1>4, <1>8, <1>9, <1>10

\* The same part of two sequences that begin alike.
LEMMA SamePart ==
    ASSUME NEW S, NEW p \in Seq(S), NEW b \in Seq(S), Begins(b, p),
           NEW m \in Nat \ {0}, NEW k \in Int, k <= Len(p)
    PROVE  SubSeq(p, m, k) = SubSeq(b, m, k)
<1>1. Len(p) \in Nat /\ Len(b) \in Nat /\ Len(p) <= Len(b)
  BY DEF Begins
<1>2. \A i \in m .. k : p[i] \in S /\ b[i] \in S /\ p[i] = b[i]
  BY <1>1 DEF Begins
<1>3. /\ SubSeq(p, m, k) \in Seq(S)
      /\ Len(SubSeq(p, m, k)) = IF m <= k THEN k - m + 1 ELSE 0
      /\ \A i \in 1 .. k - m + 1 : SubSeq(p, m, k)[i] = p[m + i - 1]
  BY <1>2, SubSeqProperties
<1>4. /\ SubSeq(b, m, k) \in Seq(S)
      /\ Len(SubSeq(b, m, k)) = IF m <= k THEN k - m + 1 ELSE 0
      /\ \A i \in 1 .. k - m + 1 : SubSeq(b, m, k)[i] = b[m + i - 1]
  BY <1>2, SubSeqProperties
<1>5. \A i \in 1 .. Len(SubSeq(p, m, k)) :
        i \in 1 .. k - m + 1 /\ m + i - 1 \in m .. k
  BY <1>3
<1>6. \A i \in 1 .. Len(SubSeq(p, m, k)) : SubSeq(p, m, k)[i] = SubSeq(b, m, k)[i]
  BY <1>2, <1>3, <1>4, <1>5
<1> QED
  BY <1>3, <1>4, <1>6, SeqEqual

\* More bytes do not change a verdict other than "more".
LEMMA VerdictKept ==
    ASSUME NEW p \in Seq(Byte), NEW b \in Seq(Byte), Begins(b, p)
    PROVE  DecodePacket(p) \in {More, DecodePacket(b)}
<1>1. /\ Len(b) \in Nat /\ Len(p) \in Nat /\ Len(p) <= Len(b)
      /\ \A i \in 1 .. Len(p) : p[i] = b[i]
  BY DEF Begins
<1>2. CASE Len(p) < 2
  BY <1>2, OtherVerdicts
<1>3. CASE Len(p) >= 2
  <2>1. p[1] = b[1] /\ Len(b) >= 2
    BY <1>1, <1>3
  <2>2. LegalHead(p) <=> LegalHead(b)
    BY <2>1 DEF LegalHead
  <2>3. CASE ~LegalHead(p)
    BY <1>3, <2>1, <2>2, <2>3, OtherVerdicts
  <2>4. CASE LegalHead(p)
    <3>1. /\ Tail(p) \in Seq(Byte) /\ Len(Tail(p)) = Len(p) - 1
          /\ \A i \in 1 .. Len(p) - 1 : Tail(p)[i] = p[i + 1]
      BY <1>3, TailOf
    <3>2. /\ Tail(b) \in Seq(Byte) /\ Len(Tail(b)) = Len(b) - 1
          /\ \A i \in 1 .. Len(b) - 1 : Tail(b)[i] = b[i + 1]
      BY <2>1, TailOf
    <3>3. \A i \in 1 .. Len(p) - 1 : i + 1 \in 1 .. Len(p) /\ i \in 1 .. Len(b) - 1
      BY <1>1
    <3>4. Begins(Tail(b), Tail(p))
      BY <1>1, <3>1, <3>2, <3>3 DEF Begins
    <3>5. CASE LengthOpen(Tail(p))
      <4>1. CASE Len(p) >= 5
        <5>1. Len(Tail(p)) >= 4 /\ Len(b) >= 5
          BY <1>1, <3>1, <4>1
        <5>2. LengthOpen(Tail(b))
          BY <3>1, <3>2, <3>4, <3>5, <5>1, LengthKept
        <5> QED
          BY <1>3, <2>1, <2>2, <2>4, <3>5, <4>1, <5>1, <5>2, OtherVerdicts
      <4>2. CASE ~(Len(p) >= 5)
        BY <1>3, <2>4, <3>5, <4>2, OtherVerdicts
      <4> QED
        BY <4>1, <4>2
    <3>6. ASSUME NEW n \in 1 .. 4, LengthEnds(Tail(p), n)
          PROVE  DecodePacket(p) \in {More, DecodePacket(b)}
      <4>1. LengthEnds(Tail(b), n) /\ LengthValue(Tail(p), n) = LengthValue(Tail(b), n)
        BY <3>1, <3>2, <3>4, <3>6, LengthKept
      <4>2. FrameEnd(p, n) = FrameEnd(b, n)
        BY <4>1 DEF FrameEnd
      <4>3. LengthValue(Tail(p), n) \in Nat
        BY <3>1, <3>6, LengthBounds
      <4>4. FrameEnd(p, n) \in Nat
        BY <4>3 DEF FrameEnd
      <4>5. DecodePacket(p) =
              IF Len(p) < FrameEnd(p, n) THEN More
              ELSE IF Content(p, n) = <<>> THEN Bad
              ELSE Accept(Content(p, n)[1], FrameEnd(p, n))
        BY <1>3, <2>4, <3>6, FrameVerdict
      <4>6. DecodePacket(b) =
              IF Len(b) < FrameEnd(b, n) THEN More
              ELSE IF Content(b, n) = <<>> THEN Bad
              ELSE Accept(Content(b, n)[1], FrameEnd(b, n))
        BY <2>1, <2>2, <2>4, <4>1, FrameVerdict
      <4>7. CASE Len(p) < FrameEnd(p, n)
        BY <4>5, <4>7
      <4>8. CASE ~(Len(p) < FrameEnd(p, n))
        <5>1. ~(Len(b) < FrameEnd(b, n)) /\ FrameEnd(p, n) <= Len(p)
          BY <1>1, <4>2, <4>4, <4>8
        <5>2. 2 + n \in Nat \ {0} /\ FrameEnd(p, n) \in Int
          BY <4>4
        <5>3. SubSeq(p, 2 + n, FrameEnd(p, n)) = SubSeq(b, 2 + n, FrameEnd(p, n))
          BY <5>1, <5>2, SamePart
        <5>4. Content(p, n) = Content(b, n)
          BY <2>1, <4>2, <5>3 DEF Content
        <5> QED
          BY <4>2, <4>5, <4>6, <4>8, <5>1, <5>4
      <4> QED
        BY <4>7, <4>8
    <3> QED
      BY <3>1, <3>5, <3>6, LengthEndsOrOpen
  <2> QED
    BY <2>3, <2>4
<1> QED
  BY <1>1, <1>2, <1>3

-----------------------------------------------------------------------------
(* A packet as it is meant, in front of other bytes.                       *)

\* Beginnings.
LEMMA FirstBytes ==
    ASSUME NEW S, NEW b \in Seq(S), NEW n \in 0 .. Len(b)
    PROVE  SubSeq(b, 1, n) \in Seq(S) /\ Len(SubSeq(b, 1, n)) = n /\ Begins(b, SubSeq(b, 1, n))
<1>1. Len(b) \in Nat /\ n \in Int /\ n <= Len(b)
  OBVIOUS
<1>2. \A i \in 1 .. n : b[i] \in S
  BY <1>1
<1>3. /\ SubSeq(b, 1, n) \in Seq(S)
      /\ Len(SubSeq(b, 1, n)) = IF 1 <= n THEN n - 1 + 1 ELSE 0
      /\ \A i \in 1 .. n - 1 + 1 : SubSeq(b, 1, n)[i] = b[1 + i - 1]
  BY <1>1, <1>2, SubSeqProperties
<1> QED
  BY <1>1, <1>3 DEF Begins

\* What is appended leaves the beginning alone.
LEMMA JoinedBegins ==
    ASSUME NEW S, NEW a \in Seq(S), NEW b \in Seq(S)
    PROVE  a \o b \in Seq(S) /\ Begins(a \o b, a)
BY DEF Begins

\* The same without the first byte.
LEMMA TailBegins ==
    ASSUME NEW S, NEW p \in Seq(S), NEW b \in Seq(S), Begins(b, p), Len(p) >= 1
    PROVE  Begins(Tail(b), Tail(p))
<1>1. /\ Len(b) \in Nat /\ Len(p) \in Nat /\ Len(p) <= Len(b)
      /\ \A i \in 1 .. Len(p) : p[i] = b[i]
  BY DEF Begins
<1>2. /\ Len(Tail(p)) = Len(p) - 1
      /\ \A i \in 1 .. Len(p) - 1 : Tail(p)[i] = p[i + 1]
  BY TailOf
<1>3. /\ Len(Tail(b)) = Len(b) - 1
      /\ \A i \in 1 .. Len(b) - 1 : Tail(b)[i] = b[i + 1]
  BY <1>1, TailOf
<1>4. \A i \in 1 .. Len(p) - 1 : i + 1 \in 1 .. Len(p) /\ i \in 1 .. Len(b) - 1
  BY <1>1
<1> QED
  BY <1>1, <1>2, <1>3, <1>4 DEF Begins

\* A length that ends in what two sequences share.
LEMMA LengthShared ==
    ASSUME NEW p \in Seq(Byte), NEW b \in Seq(Byte), Begins(b, p),
           NEW n, LengthEnds(b, n), n <= Len(p)
    PROVE  LengthEnds(p, n) /\ LengthValue(p, n) = LengthValue(b, n)
<1>1. /\ Len(b) \in Nat /\ Len(p) \in Nat /\ Len(p) <= Len(b)
      /\ \A i \in 1 .. Len(p) : p[i] = b[i]
  BY DEF Begins
<1>2. n \in 1 .. 4 /\ b[n] < 128 /\ \A i \in 1 .. 3 : i < n => b[i] >= 128
  BY DEF LengthEnds
<1>3. \A i \in 1 .. 4 : i <= n => p[i] = b[i]
  BY <1>1, <1>2
<1>4. \A i \in 1 .. 4 : LengthPart(p, n, i) = LengthPart(b, n, i)
  BY <1>3 DEF LengthPart
<1>5. LengthEnds(p, n)
  BY <1>1, <1>2, <1>3 DEF LengthEnds
<1> QED
  BY <1>4, <1>5 DEF LengthValue

\* The bytes of an accepted packet, and no others, make the verdict.
LEMMA AcceptedAlone ==
    ASSUME NEW b \in Seq(Byte), DecodePacket(b).kind = "packet",
           NEW n, n = DecodePacket(b).consumed
    PROVE  /\ n \in 2 .. Len(b)
           /\ DecodePacket(SubSeq(b, 1, n)) = DecodePacket(b)
           /\ DecodePacket(b) = Accept(DecodePacket(b).packet, n)
<1>1. /\ Len(b) >= 2 /\ LegalHead(b)
      /\ \E k \in 1 .. 4 :
           /\ LengthEnds(Tail(b), k) /\ FrameEnd(b, k) \in 2 .. Len(b)
           /\ Content(b, k) # <<>>
           /\ DecodePacket(b) = Accept(Content(b, k)[1], FrameEnd(b, k))
  BY AcceptedIsWhole
<1>2. PICK k \in 1 .. 4 :
        /\ LengthEnds(Tail(b), k) /\ FrameEnd(b, k) \in 2 .. Len(b)
        /\ DecodePacket(b) = Accept(Content(b, k)[1], FrameEnd(b, k))
  BY <1>1
<1>3. n = FrameEnd(b, k) /\ DecodePacket(b) = Accept(DecodePacket(b).packet, n) /\ n \in 2 .. Len(b)
  BY <1>2 DEF Accept
<1>4. Len(b) \in Nat
  OBVIOUS
<1>5. PICK p \in Seq(Byte) : p = SubSeq(b, 1, n) /\ Len(p) = n /\ Begins(b, p)
  <2>1. n \in 0 .. Len(b)
    BY <1>3, <1>4
  <2> QED
    BY <2>1, FirstBytes
<1>6. DecodePacket(p) \in {More, DecodePacket(b)}
  BY <1>5, VerdictKept
<1>7. DecodePacket(p) # More
  <2>1. p[1] = b[1] /\ Len(p) >= 2 /\ Len(p) >= 1 /\ p \in Seq(Byte) /\ Begins(b, p)
    BY <1>3, <1>4, <1>5 DEF Begins
  <2>2. LegalHead(p)
    BY <1>1, <2>1 DEF LegalHead
  <2>3. Tail(b) \in Seq(Byte) /\ Tail(p) \in Seq(Byte) /\ Len(Tail(p)) = n - 1
    BY <1>1, <1>5, <2>1, TailOf
  <2>4. Begins(Tail(b), Tail(p))
    BY <2>1, TailBegins
  <2>5. LengthValue(Tail(b), k) \in Nat /\ n = 1 + k + LengthValue(Tail(b), k)
    BY <1>2, <1>3, <2>3, LengthBounds DEF FrameEnd
  <2>6. n \in Nat /\ k <= Len(Tail(p))
    BY <1>3, <1>4, <2>3, <2>5
  <2>7. LengthEnds(Tail(p), k) /\ LengthValue(Tail(p), k) = LengthValue(Tail(b), k)
    BY <1>2, <2>3, <2>4, <2>6, LengthShared, ZenonT(30)
  <2>8. FrameEnd(p, k) = n /\ ~(Len(p) < n)
    BY <1>5, <2>5, <2>6, <2>7 DEF FrameEnd
  <2>9. DecodePacket(p) =
          IF Len(p) < FrameEnd(p, k) THEN More
          ELSE IF Content(p, k) = <<>> THEN Bad ELSE Accept(Content(p, k)[1], FrameEnd(p, k))
    BY <2>1, <2>2, <2>7, FrameVerdict
  <2>10. \A x, y : Accept(x, y) # More /\ Bad # More
    BY DEF Accept, More, Bad
  <2> QED
    BY <2>8, <2>9, <2>10
<1> QED
  BY <1>3, <1>5, <1>6, <1>7

\* A packet that the decoder reads as what it is meant to be.
Meant(s) == s.bytes \in Seq(Byte) /\ DecodePacket(s.bytes) = Accept(s.packet, Len(s.bytes))

\* What is decoded of bytes that begin with it, or that it begins with.
LEMMA MeantAhead ==
    ASSUME NEW s, Meant(s), NEW b \in Seq(Byte), Begins(b, s.bytes)
    PROVE  DecodePacket(b) = Accept(s.packet, Len(s.bytes))
<1>1. DecodePacket(s.bytes) \in {More, DecodePacket(b)}
  BY VerdictKept DEF Meant
<1>2. DecodePacket(s.bytes) # More
  BY DEF Meant, Accept, More
<1> QED
  BY <1>1, <1>2 DEF Meant

\* As long as a byte of it is missing, more are asked for.
LEMMA MeantBehind ==
    ASSUME NEW s, Meant(s), NEW b \in Seq(Byte), Begins(s.bytes, b), Len(b) < Len(s.bytes)
    PROVE  DecodePacket(b) = More
<1>1. DecodePacket(b) \in {More, DecodePacket(s.bytes)}
  BY VerdictKept DEF Meant
<1>2. SUFFICES ASSUME DecodePacket(b) = Accept(s.packet, Len(s.bytes)) PROVE FALSE
  BY <1>1 DEF Meant
<1>3. DecodePacket(b).kind = "packet" /\ DecodePacket(b).consumed = Len(s.bytes)
  BY <1>2 DEF Accept
<1>4. Len(s.bytes) \in 2 .. Len(b)
  BY <1>3, AcceptedAlone
<1> QED
  BY <1>4 DEF Meant

-----------------------------------------------------------------------------
(* The stream.                                                             *)

\* Two ways to put sequences end to end.
LEMMA TwoSplits ==
    ASSUME NEW S, NEW a \in Seq(S), NEW b \in Seq(S), NEW x \in Seq(S), NEW y \in Seq(S),
           a \o b = x \o y
    PROVE  /\ Len(a) >= Len(x) => Begins(a, x) /\ SubSeq(a, Len(x) + 1, Len(a)) \o b = y
           /\ Len(a) < Len(x) => Begins(x, a)
<1> DEFINE c == a \o b
<1>1. /\ Len(c) = Len(a) + Len(b) /\ Len(c) = Len(x) + Len(y)
      /\ \A i \in 1 .. Len(c) : c[i] = IF i <= Len(a) THEN a[i] ELSE b[i - Len(a)]
      /\ \A i \in 1 .. Len(c) : c[i] = IF i <= Len(x) THEN x[i] ELSE y[i - Len(x)]
      /\ Len(a) \in Nat /\ Len(b) \in Nat /\ Len(x) \in Nat /\ Len(y) \in Nat
  <2>1. /\ Len(a) \in Nat /\ Len(b) \in Nat /\ Len(x) \in Nat /\ Len(y) \in Nat
    OBVIOUS
  <2>2. /\ Len(a \o b) = Len(a) + Len(b)
        /\ \A i \in 1 .. Len(a) + Len(b) : (a \o b)[i] = IF i <= Len(a) THEN a[i] ELSE b[i - Len(a)]
    BY ConcatProperties
  <2>3. /\ Len(x \o y) = Len(x) + Len(y)
        /\ \A i \in 1 .. Len(x) + Len(y) : (x \o y)[i] = IF i <= Len(x) THEN x[i] ELSE y[i - Len(x)]
    BY ConcatProperties
  <2> QED
    BY <2>1, <2>2, <2>3
<1> HIDE DEF c
<1>2. ASSUME Len(a) < Len(x) PROVE Begins(x, a)
  <2>1. \A i \in 1 .. Len(a) : i \in 1 .. Len(c) /\ i <= Len(x) /\ i <= Len(a)
    BY <1>1, <1>2
  <2> QED
    BY <1>1, <1>2, <2>1 DEF Begins
<1>3. ASSUME Len(a) >= Len(x)
      PROVE  Begins(a, x) /\ SubSeq(a, Len(x) + 1, Len(a)) \o b = y
  <2>1. \A i \in 1 .. Len(x) : i \in 1 .. Len(c) /\ i <= Len(x) /\ i <= Len(a)
    BY <1>1, <1>3
  <2>2. Begins(a, x)
    BY <1>1, <1>3, <2>1 DEF Begins
  <2>3. PICK k \in Nat : k = Len(x)
    BY <1>1
  <2>4. \A i \in k + 1 .. Len(a) : a[i] \in S
    BY <1>1, <2>3
  <2>5. PICK d : d = SubSeq(a, k + 1, Len(a))
    OBVIOUS
  <2>6. /\ d \in Seq(S) /\ Len(d) = Len(a) - k
        /\ \A i \in 1 .. Len(a) - k : d[i] = a[k + i]
    <3>1. k + 1 \in Int /\ Len(a) \in Int /\ Len(a) - (k + 1) + 1 = Len(a) - k
      BY <1>1
    <3>2. \A i \in 1 .. Len(a) - k : (k + 1) + i - 1 = k + i
      BY <1>1
    <3>3. (~(k + 1 <= Len(a)) => Len(a) - k = 0)
      BY <1>1, <1>3, <2>3
    <3>4. /\ d \in Seq(S)
          /\ Len(d) = IF k + 1 <= Len(a) THEN Len(a) - (k + 1) + 1 ELSE 0
          /\ \A i \in 1 .. Len(a) - (k + 1) + 1 : d[i] = a[(k + 1) + i - 1]
      BY <2>4, <2>5, <3>1, SubSeqProperties
    <3>5. Len(d) = Len(a) - k
      BY <3>1, <3>4, <3>3
    <3> QED
      BY <3>1, <3>4, <3>2, <3>5
  <2>7. /\ d \o b \in Seq(S)
        /\ Len(d \o b) = Len(d) + Len(b)
        /\ \A i \in 1 .. Len(d) + Len(b) : (d \o b)[i] = IF i <= Len(d) THEN d[i] ELSE b[i - Len(d)]
    BY <2>6, ConcatProperties
  <2>8. Len(d \o b) = Len(y)
    BY <1>1, <2>3, <2>6, <2>7
  <2>9. ASSUME NEW i \in 1 .. Len(y) PROVE (d \o b)[i] = y[i]
    <3>1. /\ k + i \in 1 .. Len(c) /\ ~(k + i <= Len(x)) /\ (k + i) - Len(x) = i
          /\ (i <= Len(d) <=> k + i <= Len(a)) /\ (k + i) - Len(a) = i - Len(d)
          /\ i \in 1 .. Len(d) + Len(b)
      BY <1>1, <2>3, <2>6
    <3>2. c[k + i] = y[i]
      BY <1>1, <3>1
    <3>3. c[k + i] = IF k + i <= Len(a) THEN a[k + i] ELSE b[(k + i) - Len(a)]
      BY <1>1, <3>1
    <3>4. CASE i <= Len(d)
      BY <1>1, <2>6, <2>7, <3>1, <3>2, <3>3, <3>4
    <3>5. CASE ~(i <= Len(d))
      BY <2>7, <3>1, <3>2, <3>3, <3>5
    <3> QED
      BY <3>4, <3>5
  <2>10. d \o b = y
    BY <2>7, <2>8, <2>9, SeqEqual
  <2> QED
    BY <2>2, <2>3, <2>5, <2>10
<1> QED
  BY <1>2, <1>3

\* The bytes of the packets of q that are not among the first g.
Pending(q, g) == FlattenSeq([i \in 1 .. Len(q) - g |-> q[g + i].bytes])

\* There are none, the first of them, and one more.
LEMMA PendingNone == ASSUME NEW q, Len(q) \in Nat PROVE Pending(q, Len(q)) = <<>>
<1>1. [i \in 1 .. Len(q) - Len(q) |-> q[Len(q) + i].bytes] = <<>>
  OBVIOUS
<1> QED
  BY <1>1, FlattenEmpty DEF Pending

\* The first of them is in front of the others.
LEMMA PendingFirst ==
    ASSUME \A s \in Samples : s.bytes \in Seq(Byte),
           NEW q \in Seq(Samples), NEW g \in Nat, g < Len(q)
    PROVE  /\ g + 1 \in 1 .. Len(q) /\ q[g + 1] \in Samples
           /\ Pending(q, g + 1) \in Seq(Byte)
           /\ Pending(q, g) = q[g + 1].bytes \o Pending(q, g + 1)
<1> DEFINE all(k) == [i \in 1 .. Len(q) - k |-> q[k + i].bytes]
<1>1. Len(q) \in Nat /\ g + 1 \in 1 .. Len(q) /\ q[g + 1] \in Samples
  OBVIOUS
<1>2. ASSUME NEW k \in 0 .. Len(q)
      PROVE  /\ all(k) \in Seq(Seq(Byte)) /\ Len(all(k)) = Len(q) - k
             /\ \A i \in 1 .. Len(q) - k : all(k)[i] = q[k + i].bytes
  <2>1. \A i \in 1 .. Len(q) - k : q[k + i] \in Samples
    BY <1>1
  <2>2. \A i \in 1 .. Len(q) - k : q[k + i].bytes \in Seq(Byte)
    BY <2>1
  <2>3. Len(q) - k \in Nat
    BY <1>1
  <2> QED
    BY <2>2, <2>3
<1>3. g \in 0 .. Len(q) /\ g + 1 \in 0 .. Len(q)
  BY <1>1
<1>4. PICK a \in Seq(Seq(Byte)) :
        /\ a = all(g) /\ Len(a) = Len(q) - g
        /\ \A i \in 1 .. Len(q) - g : a[i] = q[g + i].bytes
  BY <1>2, <1>3
<1>5. PICK b \in Seq(Seq(Byte)) :
        /\ b = all(g + 1) /\ Len(b) = Len(q) - (g + 1)
        /\ \A i \in 1 .. Len(q) - (g + 1) : b[i] = q[(g + 1) + i].bytes
  BY <1>2, <1>3
<1>6. Len(a) >= 1 /\ a[1] = q[g + 1].bytes
  BY <1>1, <1>4
<1>7. Tail(a) = b
  <2>1. /\ Tail(a) \in Seq(Seq(Byte)) /\ Len(Tail(a)) = Len(a) - 1
        /\ \A i \in 1 .. Len(a) - 1 : Tail(a)[i] = a[i + 1]
    BY <1>6, TailOf
  <2>2. Len(Tail(a)) = Len(b)
    BY <1>1, <1>4, <1>5, <2>1
  <2>3. \A i \in 1 .. Len(Tail(a)) : Tail(a)[i] = b[i]
    <3> SUFFICES ASSUME NEW i \in 1 .. Len(Tail(a)) PROVE Tail(a)[i] = b[i]
      OBVIOUS
    <3>1. /\ i \in 1 .. Len(a) - 1 /\ i + 1 \in 1 .. Len(q) - g /\ i \in 1 .. Len(q) - (g + 1)
          /\ g + (i + 1) = (g + 1) + i
      BY <1>1, <1>4, <2>1
    <3> QED
      BY <1>4, <1>5, <2>1, <3>1
  <2> QED
    BY <2>1, <2>2, <2>3, SeqEqual, SMTT(30)
<1>8. FlattenSeq(a) = a[1] \o FlattenSeq(Tail(a)) /\ FlattenSeq(b) \in Seq(Byte)
  BY <1>6, FlattenCons, FlattenIs
<1>9. Pending(q, g) = FlattenSeq(a) /\ Pending(q, g + 1) = FlattenSeq(b)
  BY <1>4, <1>5 DEF Pending
<1> QED
  BY <1>1, <1>6, <1>7, <1>8, <1>9

\* A packet that is sent is behind them.
LEMMA PendingMore ==
    ASSUME \A s \in Samples : s.bytes \in Seq(Byte),
           NEW q \in Seq(Samples), NEW g \in 0 .. Len(q), NEW s \in Samples
    PROVE  /\ Pending(q, g) \in Seq(Byte)
           /\ Pending(Append(q, s), g) = Pending(q, g) \o s.bytes
<1> DEFINE r == Append(q, s)
<1>1. /\ Len(q) \in Nat /\ r \in Seq(Samples) /\ Len(r) = Len(q) + 1
      /\ r[Len(q) + 1] = s /\ \A i \in 1 .. Len(q) : r[i] = q[i]
  OBVIOUS
<1> HIDE DEF r
<1>2. PICK a : a = [i \in 1 .. Len(q) - g |-> q[g + i].bytes]
  OBVIOUS
<1>3. \A i \in 1 .. Len(q) - g : q[g + i] \in Samples /\ q[g + i].bytes \in Seq(Byte)
  BY <1>1
<1>4. a \in Seq(Seq(Byte)) /\ Len(a) = Len(q) - g
  BY <1>1, <1>2, <1>3
<1>5. s.bytes \in Seq(Byte)
  OBVIOUS
<1>6. Append(a, s.bytes) = [i \in 1 .. Len(r) - g |-> r[g + i].bytes]
  <2> DEFINE b == [i \in 1 .. Len(r) - g |-> r[g + i].bytes]
  <2>1. \A i \in 1 .. Len(r) - g : r[g + i].bytes \in Seq(Byte)
    <3>1. \A i \in 1 .. Len(r) - g : r[g + i] \in Samples
      BY <1>1
    <3> QED
      BY <3>1
  <2>2. b \in Seq(Seq(Byte)) /\ Len(b) = Len(q) - g + 1
    BY <1>1, <2>1
  <2>3. /\ Append(a, s.bytes) \in Seq(Seq(Byte)) /\ Len(Append(a, s.bytes)) = Len(q) - g + 1
        /\ \A i \in 1 .. Len(q) - g : Append(a, s.bytes)[i] = a[i]
        /\ Append(a, s.bytes)[Len(q) - g + 1] = s.bytes
    BY <1>4, <1>5, AppendProperties
  <2>4. ASSUME NEW i \in 1 .. Len(q) - g + 1 PROVE Append(a, s.bytes)[i] = b[i]
    <3>1. b[i] = r[g + i].bytes
      BY <1>1
    <3>2. CASE i = Len(q) - g + 1
      <4>1. g + i = Len(q) + 1
        BY <1>1, <3>2
      <4> QED
        BY <1>1, <2>3, <3>1, <3>2, <4>1
    <3>3. CASE i # Len(q) - g + 1
      <4>1. i \in 1 .. Len(q) - g /\ g + i \in 1 .. Len(q)
        BY <1>1, <3>3
      <4>2. Append(a, s.bytes)[i] = q[g + i].bytes
        BY <1>2, <2>3, <4>1
      <4> QED
        BY <1>1, <3>1, <4>1, <4>2
    <3> QED
      BY <3>2, <3>3
  <2> HIDE DEF b
  <2>5. Append(a, s.bytes) = b
    BY <2>2, <2>3, <2>4, SeqEqual, SMTT(30)
  <2> QED
    BY <2>5 DEF b
<1>7. FlattenSeq(a) \in Seq(Byte) /\ FlattenSeq(Append(a, s.bytes)) = FlattenSeq(a) \o s.bytes
  BY <1>4, <1>5, FlattenAppend
<1> QED
  BY <1>2, <1>6, <1>7 DEF Pending, r

\* What DecodeOne reports: a packet that the decoder finds in its bytes alone.
Whole == {b \in Seq(Byte) : DecodePacket(b) = Accept(DecodePacket(b).packet, Len(b))}
\* ... with the packet.
Parsed == {[packet |-> DecodePacket(b).packet, bytes |-> b] : b \in Whole}

\* The type invariant.
CodecTypes ==
    /\ sent \in Seq({s.packet : s \in Samples})
    /\ stream \in Seq(Byte) /\ rxBuf \in Seq(Byte)
    /\ got \in Seq(Parsed)

\* The packet of q whose bytes come next, if there is one left, is too long to be
\* received whatever comes behind it.
MayOverflow(q) ==
    Len(got) < Len(q) /\ Len(q[Len(got) + 1].bytes) > kRxBufMax - RecvMax + 1

\* The bytes that have come and those under way are those of the packets of q
\* that have not been decoded; the first of these is a long one if the buffer
\* has overflowed.
Carries(q) ==
    /\ Len(q) = Len(sent) /\ \A i \in 1 .. Len(q) : sent[i] = q[i].packet
    /\ Len(got) <= Len(q) /\ \A i \in 1 .. Len(got) : got[i].packet = q[i].packet
    /\ rxBuf \o stream = Pending(q, Len(got))
    /\ state = "overflow" => MayOverflow(q)

\* The inductive invariant: nothing has come before the first packet is sent, and
\* from then on no byte is lost, changed or added.
StreamInv ==
    /\ CodecTypes
    /\ sent = <<>> /\ state = "open" => stream = <<>> /\ rxBuf = <<>> /\ got = <<>>
    /\ sent # <<>> => state \in {"open", "overflow"} /\ \E q \in Seq(Samples) : Carries(q)

\* The verdict on what has come: it is the first packet not yet decoded, or a part of it.
LEMMA CarriedVerdict ==
    ASSUME \A s \in Samples : Meant(s), NEW q \in Seq(Samples), CodecTypes, Carries(q)
    PROVE  \/ rxBuf = <<>> /\ stream = <<>> /\ Decoded = More /\ Len(got) = Len(q)
           \/ /\ Len(got) < Len(q) /\ stream # <<>> /\ Decoded = More
              /\ Len(rxBuf) < Len(q[Len(got) + 1].bytes)
           \/ /\ Len(got) < Len(q)
              /\ Decoded = Accept(q[Len(got) + 1].packet, Len(q[Len(got) + 1].bytes))
              /\ Len(q[Len(got) + 1].bytes) \in 0 .. Len(rxBuf)
              /\ SubSeq(rxBuf, Len(q[Len(got) + 1].bytes) + 1, Len(rxBuf)) \o stream
                    = Pending(q, Len(got) + 1)
<1>1. /\ Len(got) \in Nat /\ Len(q) \in Nat /\ Len(rxBuf) \in Nat
      /\ rxBuf \in Seq(Byte) /\ stream \in Seq(Byte)
  BY DEF CodecTypes
<1>2. \A s \in Samples : s.bytes \in Seq(Byte)
  BY DEF Meant
<1>3. CASE Len(got) = Len(q)
  <2>1. rxBuf \o stream = <<>>
    BY <1>1, <1>3, PendingNone DEF Carries
  <2>2. rxBuf = <<>> /\ stream = <<>>
    BY <1>1, <2>1, ConcatEqualIffEmpty
  <2>3. Len(rxBuf) < 2
    BY <2>2
  <2>4. Decoded = More
    BY <1>1, <2>3, OtherVerdicts DEF Decoded
  <2> QED
    BY <1>3, <2>2, <2>4
<1>4. CASE Len(got) < Len(q)
  <2>1. PICK g \in Nat : g = Len(got)
    BY <1>1
  <2>2. PICK s \in Samples : s = q[g + 1] /\ Pending(q, g + 1) \in Seq(Byte)
                              /\ Pending(q, g) = s.bytes \o Pending(q, g + 1)
    BY <1>2, <1>4, <2>1, PendingFirst
  <2>3. s.bytes \in Seq(Byte) /\ Len(s.bytes) \in Nat /\ Meant(s)
    BY <1>2
  <2>4. PICK y \in Seq(Byte) : y = Pending(q, g + 1)
    BY <2>2
  <2>5. rxBuf \o stream = s.bytes \o y
    BY <2>1, <2>2, <2>4 DEF Carries
  <2>6. /\ Len(rxBuf) >= Len(s.bytes) =>
              Begins(rxBuf, s.bytes) /\ SubSeq(rxBuf, Len(s.bytes) + 1, Len(rxBuf)) \o stream = y
        /\ Len(rxBuf) < Len(s.bytes) => Begins(s.bytes, rxBuf)
    BY <1>1, <2>3, <2>5, TwoSplits
  <2>7. CASE Len(rxBuf) < Len(s.bytes)
    <3>1. Decoded = More
      BY <1>1, <2>3, <2>6, <2>7, MeantBehind DEF Decoded
    <3>2. stream # <<>>
      <4> SUFFICES ASSUME stream = <<>> PROVE FALSE
        OBVIOUS
      <4>1. rxBuf = s.bytes \o y
        BY <1>1, <2>5
      <4>2. Len(rxBuf) = Len(s.bytes) + Len(y) /\ Len(y) \in Nat
        BY <2>3, <4>1
      <4> QED
        BY <1>1, <2>3, <2>7, <4>2
    <3> QED
      BY <1>4, <2>1, <2>2, <2>7, <3>1, <3>2
  <2>8. CASE ~(Len(rxBuf) < Len(s.bytes))
    <3>1. Len(rxBuf) >= Len(s.bytes) /\ Len(s.bytes) \in 0 .. Len(rxBuf)
      BY <1>1, <2>3, <2>8
    <3>2. Decoded = Accept(s.packet, Len(s.bytes))
      BY <1>1, <2>3, <2>6, <3>1, MeantAhead DEF Decoded
    <3> QED
      BY <1>4, <2>1, <2>2, <2>4, <2>6, <3>1, <3>2
  <2> QED
    BY <2>7, <2>8
<1>5. Len(got) <= Len(q)
  BY DEF Carries
<1>6. Len(got) = Len(q) \/ Len(got) < Len(q)
  BY <1>1, <1>5
<1> QED
  BY <1>3, <1>4, <1>6

\* The types, and the history of decoded packets, are kept by every step.
LEMMA CodecTypesInductive ==
    ASSUME \A s \in Samples : s.bytes \in Seq(Byte)
    PROVE  /\ CodecInit => CodecTypes
           /\ CodecTypes /\ [CodecNext]_codecVars => CodecTypes'
<1> DEFINE Packets == {s.packet : s \in Samples}
<1>1. CodecInit => CodecTypes
  <2>1. <<>> \in Seq(Packets) /\ <<>> \in Seq(Byte) /\ <<>> \in Seq(Parsed)
    OBVIOUS
  <2> QED
    BY <2>1 DEF CodecInit, CodecTypes
<1>2. ASSUME CodecTypes, [CodecNext]_codecVars PROVE CodecTypes'
  <2>1. /\ sent \in Seq(Packets) /\ stream \in Seq(Byte) /\ rxBuf \in Seq(Byte)
        /\ got \in Seq(Parsed) /\ Len(stream) \in Nat /\ Len(rxBuf) \in Nat
    BY <1>2 DEF CodecTypes
  <2>2. ASSUME NEW s \in Samples, Send(s) PROVE CodecTypes'
    <3>1. s.packet \in Packets /\ s.bytes \in Seq(Byte)
      BY <2>2
    <3>2. sent' \in Seq(Packets)
      BY <2>1, <2>2, <3>1 DEF Send
    <3>3. stream' \in Seq(Byte)
      BY <2>1, <2>2, <3>1 DEF Send
    <3> QED
      BY <2>1, <2>2, <3>2, <3>3 DEF Send, CodecTypes
  <2>3. ASSUME SendForeign PROVE CodecTypes'
    BY <2>1, <2>3, CodecAssumption DEF SendForeign, CodecTypes
  <2>4. ASSUME NEW n \in 1 .. Len(stream), Receive(n) PROVE CodecTypes'
    <3>1. SubSeq(stream, 1, n) \in Seq(Byte) /\ SubSeq(stream, n + 1, Len(stream)) \in Seq(Byte)
      BY <2>1
    <3>2. rxBuf' \in Seq(Byte) /\ stream' \in Seq(Byte)
      BY <2>1, <2>4, <3>1 DEF Receive
    <3> QED
      BY <2>1, <2>4, <3>2 DEF Receive, CodecTypes
  <2>5. ASSUME DecodeOne PROVE CodecTypes'
    <3>1. PICK b \in Seq(Byte) : b = rxBuf
      BY <2>1
    <3>2. PICK n : n = DecodePacket(b).consumed
      OBVIOUS
    <3>3. /\ n \in 2 .. Len(b) /\ DecodePacket(SubSeq(b, 1, n)) = DecodePacket(b)
          /\ DecodePacket(b) = Accept(DecodePacket(b).packet, n)
      BY <2>5, <3>1, <3>2, AcceptedAlone DEF DecodeOne, Decoded
    <3>4. Len(b) \in Nat
      OBVIOUS
    <3>5. n \in 0 .. Len(b)
      BY <3>3, <3>4
    <3>6. PICK p \in Seq(Byte) : p = SubSeq(b, 1, n) /\ Len(p) = n
      BY <3>5, FirstBytes
    <3>7. DecodePacket(p) = DecodePacket(b)
      BY <3>3, <3>6
    <3>8. p \in Whole /\ DecodePacket(p).packet = DecodePacket(b).packet
      BY <3>3, <3>6, <3>7 DEF Whole
    <3>9. [packet |-> DecodePacket(b).packet, bytes |-> p] \in Parsed
      BY <3>8 DEF Parsed
    <3>10. got' = Append(got, [packet |-> DecodePacket(b).packet, bytes |-> p])
      BY <2>5, <3>1, <3>2, <3>6 DEF DecodeOne, Decoded
    <3>11. got' \in Seq(Parsed)
      BY <2>1, <3>9, <3>10
    <3>12. rxBuf' \in Seq(Byte)
      <4>1. rxBuf' = SubSeq(b, n + 1, Len(b))
        BY <2>5, <3>1, <3>2 DEF DecodeOne, Decoded
      <4>2. n + 1 \in Int /\ Len(b) \in Int /\ \A i \in n + 1 .. Len(b) : b[i] \in Byte
        BY <3>4, <3>5
      <4> QED
        BY <4>1, <4>2, SubSeqProperties
    <3> QED
      BY <2>1, <2>5, <3>11, <3>12 DEF DecodeOne, CodecTypes
  <2>6. ASSUME ProtocolError PROVE CodecTypes'
    BY <2>1, <2>6 DEF ProtocolError, CodecTypes
  <2>7. ASSUME UNCHANGED codecVars PROVE CodecTypes'
    BY <2>1, <2>7 DEF codecVars, CodecTypes
  <2> QED
    BY <1>2, <2>2, <2>3, <2>4, <2>5, <2>6, <2>7 DEF CodecNext
<1> QED
  BY <1>1, <1>2

\* Every step of the sender and of the receive loop keeps it.
LEMMA StreamInductive ==
    ASSUME \A s \in Samples : Meant(s)
    PROVE  StreamInv /\ [CodecNext]_codecVars => StreamInv'
<1> SUFFICES ASSUME StreamInv, [CodecNext]_codecVars PROVE StreamInv'
  OBVIOUS
<1>1. \A s \in Samples : s.bytes \in Seq(Byte)
  BY DEF Meant
<1>2. CodecTypes /\ CodecTypes'
  BY <1>1, CodecTypesInductive DEF StreamInv
<1>3. /\ Len(got) \in Nat /\ Len(sent) \in Nat /\ rxBuf \in Seq(Byte) /\ stream \in Seq(Byte)
  BY <1>2 DEF CodecTypes
<1>4. \A a, b, c \in Seq(Byte) : (a \o b) \o c = a \o (b \o c)
  <2> TAKE a, b, c \in Seq(Byte)
  <2> QED
    OBVIOUS
<1>5. ASSUME NEW s \in Samples, Send(s) PROVE StreamInv'
  <2>1. /\ state = "open" /\ sent' = Append(sent, s.packet) /\ stream' = stream \o s.bytes
        /\ rxBuf' = rxBuf /\ got' = got /\ state' = state
    BY <1>5 DEF Send
  <2>2. PICK q \in Seq(Samples) : Carries(q)
    <3>1. CASE sent # <<>>
      BY <3>1 DEF StreamInv
    <3>2. CASE sent = <<>>
      <4>1. stream = <<>> /\ rxBuf = <<>> /\ got = <<>>
        BY <2>1, <3>2 DEF StreamInv
      <4>2. <<>> \in Seq(Samples) /\ Len(<<>>) = 0 /\ <<>> \o <<>> = <<>>
        OBVIOUS
      <4>3. Pending(<<>>, 0) = <<>>
        BY <4>2, PendingNone
      <4>4. Carries(<<>>)
        BY <2>1, <3>2, <4>1, <4>2, <4>3 DEF Carries
      <4> QED
        BY <4>2, <4>4
    <3> QED
      BY <3>1, <3>2
  <2>3. PICK r : r = Append(q, s)
    OBVIOUS
  <2>4. /\ r \in Seq(Samples) /\ r = Append(q, s) /\ Len(r) = Len(q) + 1 /\ r[Len(q) + 1] = s
        /\ \A i \in 1 .. Len(q) : r[i] = q[i]
    BY <2>3, AppendProperties
  <2>5. Len(q) \in Nat /\ Len(got) \in 0 .. Len(q) /\ Len(q) = Len(sent)
    BY <1>3, <2>2 DEF Carries
  <2>6. /\ Len(sent') = Len(sent) + 1 /\ sent'[Len(sent) + 1] = s.packet
        /\ \A i \in 1 .. Len(sent) : sent'[i] = sent[i]
    <3>1. sent \in Seq({x.packet : x \in Samples}) /\ s.packet \in {x.packet : x \in Samples}
      BY <1>2 DEF CodecTypes
    <3> QED
      BY <2>1, <3>1, AppendProperties
  <2>7. \A i \in 1 .. Len(r) : sent'[i] = r[i].packet
    <3> SUFFICES ASSUME NEW i \in 1 .. Len(r) PROVE sent'[i] = r[i].packet
      OBVIOUS
    <3>1. i = Len(q) + 1 \/ i \in 1 .. Len(q)
      BY <2>4, <2>5
    <3> QED
      BY <2>2, <2>4, <2>5, <2>6, <3>1 DEF Carries
  <2>8. \A i \in 1 .. Len(got) : got[i].packet = r[i].packet
    BY <2>2, <2>4, <2>5 DEF Carries
  <2>9. rxBuf \o (stream \o s.bytes) = Pending(r, Len(got))
    <3>1. /\ Pending(q, Len(got)) \in Seq(Byte)
          /\ Pending(r, Len(got)) = Pending(q, Len(got)) \o s.bytes
      BY <1>1, <2>4, <2>5, PendingMore
    <3>2. s.bytes \in Seq(Byte)
      BY <1>1
    <3>3. rxBuf \o (stream \o s.bytes) = (rxBuf \o stream) \o s.bytes
      BY <1>3, <1>4, <3>2
    <3> QED
      BY <2>2, <3>1, <3>3 DEF Carries
  <2>10. Carries(r)'
    BY <2>1, <2>4, <2>5, <2>6, <2>7, <2>8, <2>9 DEF Carries
  <2>11. sent' # <<>>
    BY <1>3, <2>6
  <2> QED
    BY <1>2, <2>1, <2>4, <2>10, <2>11 DEF StreamInv
<1>6. ASSUME SendForeign PROVE StreamInv'
  BY <1>2, <1>6 DEF SendForeign, StreamInv
<1>7. ASSUME NEW n \in 1 .. Len(stream), Receive(n) PROVE StreamInv'
  <2>1. /\ sent' = sent /\ got' = got /\ StreamOpen /\ Decoded.kind = "more" /\ n <= RecvMax
        /\ state' = IF Len(rxBuf) + n > kRxBufMax THEN "overflow" ELSE state
        /\ rxBuf' = rxBuf \o SubSeq(stream, 1, n) /\ stream' = SubSeq(stream, n + 1, Len(stream))
    BY <1>7 DEF Receive
  <2>2. stream # <<>> /\ Len(stream) \in Nat
    BY <1>3
  <2>3. SubSeq(stream, 1, n) \in Seq(Byte) /\ SubSeq(stream, n + 1, Len(stream)) \in Seq(Byte)
    BY <1>3
  <2>4. PICK a \in Seq(Byte) : a = SubSeq(stream, 1, n)
    BY <2>3
  <2>5. PICK b \in Seq(Byte) : b = SubSeq(stream, n + 1, Len(stream))
    BY <2>3
  <2>6. a \o b = stream
    <3>1. /\ 1 \in 1 .. Len(stream) + 1 /\ n \in 1 - 1 .. Len(stream)
          /\ Len(stream) \in n .. Len(stream)
      BY <2>2
    <3>2. SubSeq(stream, 1, n) \o SubSeq(stream, n + 1, Len(stream))
            = SubSeq(stream, 1, Len(stream))
      BY <1>3, <3>1, ConcatAdjacentSubSeq
    <3> QED
      BY <1>3, <2>4, <2>5, <3>2, SubSeqFull
  <2>7. (rxBuf \o a) \o b = rxBuf \o stream
    <3>1. (rxBuf \o a) \o b = rxBuf \o (a \o b)
      BY <1>3, <1>4, SMTT(30)
    <3> QED
      BY <2>6, <3>1
  <2>8. rxBuf' \o stream' = rxBuf \o stream
    BY <2>1, <2>4, <2>5, <2>7
  <2>9. ASSUME sent # <<>>
        PROVE  state' \in {"open", "overflow"} /\ \E q \in Seq(Samples) : Carries(q)'
    <3>1. PICK q \in Seq(Samples) : Carries(q)
      BY <2>9 DEF StreamInv
    <3>2. state = "open"
      BY <2>1, <2>9 DEF StreamInv, StreamOpen
    <3>3. ASSUME state' = "overflow" PROVE MayOverflow(q)
      <4>1. Len(rxBuf) + n > kRxBufMax
        BY <2>1, <3>2, <3>3
      <4>2. \A p, m : Decoded # Accept(p, m)
        BY <2>1 DEF Accept
      <4>3. Len(got) < Len(q) /\ Len(rxBuf) < Len(q[Len(got) + 1].bytes)
        BY <1>2, <2>2, <3>1, <4>2, CarriedVerdict
      <4>4. Len(q[Len(got) + 1].bytes) \in Nat
        <5>1. Len(got) + 1 \in 1 .. Len(q)
          BY <1>3, <4>3
        <5>2. q[Len(got) + 1] \in Samples
          BY <5>1, ElementOfSeq
        <5> QED
          BY <1>1, <5>2
      <4>5. Len(rxBuf) \in Nat /\ n \in Nat /\ n <= RecvMax
        BY <1>3, <2>1
      <4> QED
        BY <4>1, <4>3, <4>4, <4>5, CodecAssumption DEF CodecAssumption, MayOverflow
    <3>4. Carries(q)'
      BY <2>1, <2>8, <3>1, <3>3 DEF Carries, MayOverflow
    <3> QED
      BY <2>1, <3>2, <3>4
  <2>10. ~(sent = <<>> /\ state = "open")
    BY <2>2 DEF StreamInv
  <2> QED
    BY <1>2, <2>1, <2>9, <2>10 DEF StreamInv, StreamOpen
<1>8. ASSUME DecodeOne PROVE StreamInv'
  <2>1. /\ Decoded.kind = "packet" /\ sent' = sent /\ stream' = stream /\ state' = state
        /\ state # "overflow"
        /\ got' = Append(got, [packet |-> Decoded.packet,
                               bytes |-> SubSeq(rxBuf, 1, Decoded.consumed)])
        /\ rxBuf' = SubSeq(rxBuf, Decoded.consumed + 1, Len(rxBuf))
    BY <1>8 DEF DecodeOne, StreamOpen
  <2>2. Decoded # More
    BY <2>1 DEF More
  <2>3. ASSUME sent # <<>>
        PROVE  state \in {"open", "overflow"} /\ \E q \in Seq(Samples) : Carries(q)'
    <3>1. PICK q \in Seq(Samples) : Carries(q)
      BY <2>3 DEF StreamInv
    <3>2. PICK s : s = q[Len(got) + 1]
      OBVIOUS
    <3>3. /\ Len(got) < Len(q) /\ Decoded = Accept(s.packet, Len(s.bytes))
          /\ SubSeq(rxBuf, Len(s.bytes) + 1, Len(rxBuf)) \o stream = Pending(q, Len(got) + 1)
      BY <1>2, <2>2, <3>1, <3>2, CarriedVerdict
    <3>4. Decoded.packet = s.packet /\ Decoded.consumed = Len(s.bytes)
      BY <3>3 DEF Accept
    <3>5. /\ Len(got') = Len(got) + 1 /\ got'[Len(got) + 1].packet = s.packet
          /\ \A i \in 1 .. Len(got) : got'[i] = got[i]
      <4>1. got \in Seq(Parsed) /\ got' \in Seq(Parsed)
        BY <1>2 DEF CodecTypes
      <4>2. PICK x : x = [packet |-> Decoded.packet, bytes |-> SubSeq(rxBuf, 1, Decoded.consumed)]
        OBVIOUS
      <4>3. got' = Append(got, x) /\ x.packet = s.packet
        BY <2>1, <3>4, <4>2
      <4> QED
        BY <4>1, <4>3
    <3>6. Len(q) \in Nat /\ Len(got') <= Len(q)
      BY <1>3, <3>3, <3>5
    <3>7. \A i \in 1 .. Len(got') : got'[i].packet = q[i].packet
      <4> SUFFICES ASSUME NEW i \in 1 .. Len(got') PROVE got'[i].packet = q[i].packet
        OBVIOUS
      <4>1. i = Len(got) + 1 \/ i \in 1 .. Len(got)
        BY <1>3, <3>5
      <4> QED
        BY <3>1, <3>2, <3>5, <4>1 DEF Carries
    <3>8. rxBuf' \o stream' = Pending(q, Len(got'))
      BY <2>1, <3>3, <3>4, <3>5
    <3>9. Carries(q)'
      BY <2>1, <3>1, <3>6, <3>7, <3>8 DEF Carries
    <3> QED
      BY <2>3, <3>9 DEF StreamInv
  <2>4. ~(sent = <<>> /\ state = "open")
    <3> SUFFICES ASSUME sent = <<>>, state = "open" PROVE FALSE
      OBVIOUS
    <3>1. rxBuf = <<>>
      BY DEF StreamInv
    <3>2. Len(rxBuf) < 2
      BY <3>1
    <3> QED
      BY <1>3, <2>2, <3>2, OtherVerdicts DEF Decoded
  <2> QED
    BY <1>2, <2>1, <2>3, <2>4 DEF StreamInv
<1>9. ASSUME ProtocolError PROVE StreamInv'
  <2>1. /\ Decoded.kind = "bad" /\ state' = "bad" /\ UNCHANGED <<sent, stream, rxBuf, got>>
    BY <1>9 DEF ProtocolError
  <2>2. Decoded # More /\ \A p, n : Decoded # Accept(p, n)
    BY <2>1 DEF More, Accept
  <2>3. sent = <<>>
    <3> SUFFICES ASSUME sent # <<>> PROVE FALSE
      OBVIOUS
    <3>1. PICK q \in Seq(Samples) : Carries(q)
      BY DEF StreamInv
    <3> QED
      BY <1>2, <2>2, <3>1, CarriedVerdict
  <2> QED
    BY <1>2, <2>1, <2>3 DEF StreamInv
<1>10. ASSUME UNCHANGED codecVars PROVE StreamInv'
  <2>1. UNCHANGED <<sent, stream, rxBuf, got, state>>
    BY <1>10 DEF codecVars
  <2>2. ASSUME NEW q \in Seq(Samples), Carries(q) PROVE Carries(q)'
    BY <2>1, <2>2 DEF Carries, MayOverflow
  <2> QED
    BY <1>2, <2>1, <2>2 DEF StreamInv
<1> QED
  BY <1>5, <1>6, <1>7, <1>8, <1>9, <1>10 DEF CodecNext

\* If the decoder reads every packet that can be sent as what it is meant to be, the
\* receive loop gets what was sent however recv() cuts the stream, up to a packet
\* that is too long for its buffer.
THEOREM StreamsAreDecoded ==
    ASSUME \A s \in Samples : Meant(s)
    PROVE  CodecSpec => []StreamDecoded
<1>1. \A s \in Samples : s.bytes \in Seq(Byte)
  BY DEF Meant
<1>2. CodecInit => StreamInv
  BY <1>1, CodecTypesInductive DEF CodecInit, StreamInv
<1>3. StreamInv /\ [CodecNext]_codecVars => StreamInv'
  BY StreamInductive
<1>4. StreamInv => StreamDecoded
  <2> SUFFICES ASSUME StreamInv, sent # <<>>
               PROVE  /\ state \in {"open", "overflow"} /\ Decoded.kind # "bad"
                      /\ \A i \in DOMAIN got : got[i].packet = sent[i]
                      /\ stream = <<>> /\ Decoded.kind = "more" =>
                            rxBuf = <<>> /\ Len(got) = Len(sent)
                      /\ state = "overflow" =>
                            \E s \in Samples : /\ s.packet = sent[Len(got) + 1]
                                               /\ Len(s.bytes) > kRxBufMax - RecvMax + 1
    BY DEF StreamDecoded
  <2>1. PICK q \in Seq(Samples) : state \in {"open", "overflow"} /\ CodecTypes /\ Carries(q)
    BY DEF StreamInv
  <2>2. More.kind # "bad" /\ \A p, n : Accept(p, n).kind \notin {"bad", "more"}
    BY DEF More, Accept
  <2>3. Decoded.kind # "bad"
    BY <2>1, <2>2, CarriedVerdict
  <2>4. \A i \in DOMAIN got : got[i].packet = sent[i]
    <3>1. DOMAIN got = 1 .. Len(got) /\ Len(got) \in Nat /\ Len(q) \in Nat
      BY <2>1 DEF CodecTypes
    <3>2. \A i \in 1 .. Len(got) : i \in 1 .. Len(q)
      BY <2>1, <3>1 DEF Carries
    <3> QED
      BY <2>1, <3>1, <3>2 DEF Carries
  <2>5. ASSUME stream = <<>>, Decoded.kind = "more" PROVE rxBuf = <<>> /\ Len(got) = Len(q)
    BY <2>1, <2>2, <2>5, CarriedVerdict
  <2>6. ASSUME state = "overflow"
        PROVE  \E s \in Samples : /\ s.packet = sent[Len(got) + 1]
                                  /\ Len(s.bytes) > kRxBufMax - RecvMax + 1
    <3>1. Len(got) < Len(q) /\ Len(q[Len(got) + 1].bytes) > kRxBufMax - RecvMax + 1
      BY <2>1, <2>6 DEF Carries, MayOverflow
    <3>2. Len(got) + 1 \in 1 .. Len(q)
      BY <2>1, <3>1 DEF CodecTypes
    <3>3. q[Len(got) + 1] \in Samples
      BY <3>2, ElementOfSeq
    <3>4. q[Len(got) + 1].packet = sent[Len(got) + 1]
      BY <2>1, <3>2 DEF Carries
    <3> QED
      BY <3>1, <3>3, <3>4
  <2> QED
    BY <2>1, <2>3, <2>4, <2>5, <2>6 DEF Carries
<1> QED
  BY <1>2, <1>3, <1>4, PTL DEF CodecSpec

-----------------------------------------------------------------------------
(* What is encoded: lengths and frames.                                    *)

\* A number in base 128.
LEMMA Digits ==
    ASSUME NEW v \in Nat
    PROVE  /\ v < 128 => v = (v % 128) * 1
           /\ v < 16384 => v = (v % 128) * 1 + ((v \div 128) % 128) * 128
           /\ v < 2097152 => v = (v % 128) * 1 + ((v \div 128) % 128) * 128
                                  + ((v \div 16384) % 128) * 16384
           /\ v < 268435456 => v = (v % 128) * 1 + ((v \div 128) % 128) * 128
                                    + ((v \div 16384) % 128) * 16384
                                    + ((v \div 2097152) % 128) * 2097152
           /\ v < 128 => v \div 1 < 128
           /\ v < 16384 => v \div 128 < 128
           /\ v < 2097152 => v \div 16384 < 128
           /\ v < 268435456 => v \div 2097152 < 128
           /\ v \div 1 = v /\ v \div 128 \in Nat /\ v \div 16384 \in Nat /\ v \div 2097152 \in Nat
<1>1. PICK a \in Nat : a = v \div 128
  BY SMT
<1>2. PICK b \in Nat : b = v \div 16384
  BY SMT
<1>3. PICK c \in Nat : c = v \div 2097152
  BY SMT
<1>4. v = 128 * a + (v % 128)
  BY <1>1, SMT
<1>5. a \div 128 = b /\ b \div 128 = c
  BY <1>1, <1>2, <1>3, SMT
<1>6. a = 128 * b + (a % 128) /\ b = 128 * c + (b % 128)
  BY <1>5, SMT
<1>7. v < 268435456 => c % 128 = c
  BY <1>3, SMT
<1>8. v < 2097152 => c = 0
  BY <1>3, SMT
<1>9. v < 16384 => b = 0
  BY <1>2, SMT
<1>10. v < 128 => a = 0
  BY <1>1, SMT
<1>11. (v % 128) * 1 = v % 128 /\ v % 128 \in Nat /\ a % 128 \in Nat /\ b % 128 \in Nat
  BY SMT
<1>12. v < 268435456 => v = (v % 128) + (a % 128) * 128 + (b % 128) * 16384 + (c % 128) * 2097152
  BY <1>4, <1>6, <1>7, <1>11, SMT
<1>13. v < 2097152 => v = (v % 128) + (a % 128) * 128 + (b % 128) * 16384
  BY <1>4, <1>6, <1>8, <1>11, SMT
<1>14. v < 16384 => v = (v % 128) + (a % 128) * 128
  BY <1>4, <1>6, <1>9, <1>11, SMT
<1>15. v < 128 => v = v % 128
  BY SMT
<1>16. /\ v < 128 => v \div 1 < 128
       /\ v < 16384 => v \div 128 < 128
       /\ v < 2097152 => v \div 16384 < 128
       /\ v < 268435456 => v \div 2097152 < 128
       /\ v \div 1 = v
  BY SMT
<1> QED
  BY <1>1, <1>2, <1>3, <1>11, <1>12, <1>13, <1>14, <1>15, <1>16, SMT

\* How many bytes a length takes.
LengthSize(v) == CHOOSE k \in 1 .. 4 : v < Weight[k + 1] /\ (k > 1 => v >= Weight[k])

\* It is found, and enough.
LEMMA LengthSizeIs ==
    ASSUME NEW v \in Nat, v <= MaxRemaining
    PROVE  LengthSize(v) \in 1 .. 4 /\ v < Weight[LengthSize(v) + 1]
<1>1. \E k \in 1 .. 4 : v < Weight[k + 1] /\ (k > 1 => v >= Weight[k])
  <2>1. CASE v < 128
    BY <2>1, SMT DEF Weight
  <2>2. CASE 128 <= v /\ v < 16384
    BY <2>2, SMT DEF Weight
  <2>3. CASE 16384 <= v /\ v < 2097152
    BY <2>3, SMT DEF Weight
  <2>4. CASE 2097152 <= v /\ v < 268435456
    BY <2>4, SMT DEF Weight
  <2>5. v < 268435456
    BY SMT DEF MaxRemaining
  <2> QED
    BY <2>1, <2>2, <2>3, <2>4, <2>5, SMT
<1> QED
  BY <1>1, SMT DEF LengthSize

\* A length that was encoded is decoded to the same number, whatever follows it.
LEMMA EncodedLength ==
    ASSUME NEW v \in Nat, v <= MaxRemaining, NEW e, e = EncodeRemainingLength(v)
    PROVE  /\ e \in Seq(Byte) /\ Len(e) \in 1 .. 4
           /\ \A b \in Seq(Byte) :
                Begins(b, e) => LengthEnds(b, Len(e)) /\ LengthValue(b, Len(e)) = v
<1>1. PICK n \in 1 .. 4 : n = LengthSize(v) /\ v < Weight[n + 1]
  BY LengthSizeIs, SMT
<1>2. v \in Nat /\ ~(v > MaxRemaining)
  BY SMT DEF MaxRemaining
<1>3. e = [i \in 1 .. n |-> ((v \div Weight[i]) % 128) + Bit(i < n, 128)]
  BY <1>1, <1>2, SMT DEF EncodeRemainingLength, LengthSize
<1>4. \A i \in 1 .. 4 : v \div Weight[i] \in Nat
  BY <1>2, Digits, SMT DEF Weight
<1>5. \A i \in 1 .. n : e[i] \in Byte /\ e[i] % 128 = (v \div Weight[i]) % 128
                        /\ (e[i] < 128 <=> i = n)
  <2> SUFFICES ASSUME NEW i \in 1 .. n
               PROVE  /\ e[i] \in Byte /\ e[i] % 128 = (v \div Weight[i]) % 128
                      /\ e[i] < 128 <=> i = n
    BY SMT
  <2>1. PICK x \in Nat : x = v \div Weight[i]
    BY <1>4, SMT
  <2>2. e[i] = (x % 128) + Bit(i < n, 128)
    BY <1>3, <2>1, SMT
  <2>3. CASE i = n
    <3>1. e[i] = (x % 128) + 0
      BY <2>2, <2>3, SMT DEF Bit
    <3> QED
      BY <2>1, <2>3, <3>1, SMT DEF Byte
  <2>4. CASE i # n
    <3>1. e[i] = (x % 128) + 128
      BY <2>2, <2>4, SMT DEF Bit
    <3> QED
      BY <2>1, <2>4, <3>1, SMT DEF Byte
  <2> QED
    BY <2>3, <2>4, SMT
<1>6. e \in Seq(Byte) /\ Len(e) = n
  BY <1>3, <1>5, SMT
<1>7. ASSUME NEW b \in Seq(Byte), Begins(b, e)
      PROVE  LengthEnds(b, n) /\ LengthValue(b, n) = v
  <2>1. Len(b) \in Nat /\ n <= Len(b) /\ \A i \in 1 .. n : b[i] = e[i]
    BY <1>6, <1>7, SMT DEF Begins
  <2>2. LengthEnds(b, n)
    <3>1. b[n] < 128
      BY <1>5, <2>1, SMT
    <3>2. ASSUME NEW i \in 1 .. 3, i < n PROVE b[i] >= 128
      <4>1. i \in 1 .. n /\ i # n
        BY <3>2, SMT
      <4>2. PICK x : x = b[i] /\ x = e[i]
        BY <2>1, <4>1
      <4>3. e[i] \in Byte /\ ~(e[i] < 128)
        BY <1>5, <4>1
      <4>4. x \in 0 .. 255 /\ ~(x < 128)
        BY <4>2, <4>3, Zenon DEF Byte
      <4> QED
        BY <4>2, <4>4, SMT
    <3> QED
      BY <2>1, <3>1, <3>2, SMT DEF LengthEnds
  <2>3. \A i \in 1 .. n : LengthPart(b, n, i) = ((v \div Weight[i]) % 128) * Weight[i]
    BY <1>5, <2>1, SMT DEF LengthPart
  <2>4. \A i \in 1 .. 4 : i > n => LengthPart(b, n, i) = 0
    BY SMT DEF LengthPart
  <2>5. /\ LengthPart(b, n, 1) = (v % 128) * 1
        /\ n >= 2 => LengthPart(b, n, 2) = ((v \div 128) % 128) * 128
        /\ n >= 3 => LengthPart(b, n, 3) = ((v \div 16384) % 128) * 16384
        /\ n >= 4 => LengthPart(b, n, 4) = ((v \div 2097152) % 128) * 2097152
    <3>1. LengthPart(b, n, 1) = ((v \div 1) % 128) * 1
      BY <2>3, Weights, SMT
    <3>2. v \div 1 = v
      BY <1>2, SMT
    <3>3. LengthPart(b, n, 1) = (v % 128) * 1
      BY <3>1, <3>2
    <3>4. ASSUME n >= 2 PROVE LengthPart(b, n, 2) = ((v \div 128) % 128) * 128
      <4>1. 2 \in 1 .. n
        BY <3>4, SMT
      <4>2. LengthPart(b, n, 2) = ((v \div Weight[2]) % 128) * Weight[2]
        BY <2>3, <4>1, SMT
      <4> QED
        BY <4>2, SMT DEF Weight
    <3>5. ASSUME n >= 3 PROVE LengthPart(b, n, 3) = ((v \div 16384) % 128) * 16384
      <4>1. 3 \in 1 .. n
        BY <3>5, SMT
      <4>2. LengthPart(b, n, 3) = ((v \div Weight[3]) % 128) * Weight[3]
        BY <2>3, <4>1, SMT
      <4> QED
        BY <4>2, SMT DEF Weight
    <3>6. ASSUME n >= 4 PROVE LengthPart(b, n, 4) = ((v \div 2097152) % 128) * 2097152
      <4>1. 4 \in 1 .. n
        BY <3>6, SMT
      <4>2. LengthPart(b, n, 4) = ((v \div Weight[4]) % 128) * Weight[4]
        BY <2>3, <4>1, SMT
      <4> QED
        BY <4>2, SMT DEF Weight
    <3> QED
      BY <3>3, <3>4, <3>5, <3>6, SMT
  <2>6. /\ v % 128 \in Nat /\ (v \div 128) % 128 \in Nat
        /\ (v \div 16384) % 128 \in Nat /\ (v \div 2097152) % 128 \in Nat
    BY <1>2, SMT
  <2>7. CASE n = 1
    <3>1. v < 128
      BY <1>1, <2>7, SMT DEF Weight
    <3>2. LengthPart(b, n, 1) = (v % 128) * 1
      BY <2>5, <2>7, SMT
    <3>3. LengthPart(b, n, 2) = 0 /\ LengthPart(b, n, 3) = 0 /\ LengthPart(b, n, 4) = 0
      BY <2>4, <2>7, SMT
    <3> QED
      BY <1>2, <2>2, <2>6, <3>1, <3>2, <3>3, Digits, SMT DEF LengthValue
  <2>8. CASE n = 2
    <3>1. v < 16384
      BY <1>1, <2>8, SMT DEF Weight
    <3>2. LengthPart(b, n, 1) = (v % 128) * 1 /\ LengthPart(b, n, 2) = ((v \div 128) % 128) * 128
      BY <2>5, <2>8, SMT
    <3>3. LengthPart(b, n, 3) = 0 /\ LengthPart(b, n, 4) = 0
      BY <2>4, <2>8, SMT
    <3> QED
      BY <1>2, <2>2, <2>6, <3>1, <3>2, <3>3, Digits, SMT DEF LengthValue
  <2>9. CASE n = 3
    <3>1. v < 2097152
      BY <1>1, <2>9, SMT DEF Weight
    <3>2. /\ LengthPart(b, n, 1) = (v % 128) * 1 /\ LengthPart(b, n, 2) = ((v \div 128) % 128) * 128
          /\ LengthPart(b, n, 3) = ((v \div 16384) % 128) * 16384
      BY <2>5, <2>9, SMT
    <3>3. LengthPart(b, n, 4) = 0
      BY <2>4, <2>9, SMT
    <3> QED
      BY <1>2, <2>2, <2>6, <3>1, <3>2, <3>3, Digits, SMT DEF LengthValue
  <2>10. CASE n = 4
    <3>1. v < 268435456
      BY <1>1, <2>10, SMT DEF Weight
    <3>2. /\ LengthPart(b, n, 1) = (v % 128) * 1 /\ LengthPart(b, n, 2) = ((v \div 128) % 128) * 128
          /\ LengthPart(b, n, 3) = ((v \div 16384) % 128) * 16384
          /\ LengthPart(b, n, 4) = ((v \div 2097152) % 128) * 2097152
      BY <2>5, <2>10, SMT
    <3> QED
      BY <1>2, <2>2, <2>6, <3>1, <3>2, Digits, SMTT(30) DEF LengthValue
  <2> QED
    BY <2>7, <2>8, <2>9, <2>10, SMT
<1> QED
  BY <1>6, <1>7, SMT

\* A byte, a piece and a piece.
Pieces(x, h, e, c) ==
    /\ x \in Seq(Byte) /\ Len(x) = 1 + Len(e) + Len(c) /\ x[1] = h[1]
    /\ Begins(Tail(x), e) /\ SubSeq(x, 2 + Len(e), Len(x)) = c

\* The pieces can be found again.
LEMMA ThreePieces ==
    ASSUME NEW h \in Seq(Byte), Len(h) = 1, NEW e \in Seq(Byte), NEW c \in Seq(Byte),
           NEW x, x = (h \o e) \o c
    PROVE  Pieces(x, h, e, c)
<1>1. PICK S : S = Byte
  OBVIOUS
<1>2. h \in Seq(S) /\ e \in Seq(S) /\ c \in Seq(S)
  BY <1>1
<1>3. PICK n \in Nat : n = Len(e)
  BY <1>2
<1>4. PICK m \in Nat : m = Len(c)
  BY <1>2
<1>5. PICK a : a = h \o e
  OBVIOUS
<1>6. PICK t \in S : t = h[1]
  <2>1. 1 \in 1 .. Len(h)
    OBVIOUS
  <2> QED
    BY <1>2, <2>1, ElementOfSeq
<1>7. /\ a \in Seq(S) /\ Len(a) = 1 + n
      /\ \A i \in 1 .. 1 + n : a[i] = IF i <= 1 THEN t ELSE e[i - 1]
  <2>1. /\ h \o e \in Seq(S) /\ Len(h \o e) = Len(h) + Len(e)
        /\ \A i \in 1 .. Len(h) + Len(e) :
             (h \o e)[i] = IF i <= Len(h) THEN h[i] ELSE e[i - Len(h)]
    BY <1>2, ConcatProperties
  <2>2. \A i \in 1 .. 1 + n : i <= 1 => i = 1
    BY <1>3
  <2> QED
    BY <1>3, <1>5, <1>6, <2>1, <2>2
<1>8. /\ x \in Seq(S) /\ Len(x) = (1 + n) + m
      /\ \A i \in 1 .. (1 + n) + m : x[i] = IF i <= 1 + n THEN a[i] ELSE c[i - (1 + n)]
  <2>1. x = a \o c
    BY <1>5
  <2>2. /\ a \o c \in Seq(S) /\ Len(a \o c) = Len(a) + Len(c)
        /\ \A i \in 1 .. Len(a) + Len(c) :
             (a \o c)[i] = IF i <= Len(a) THEN a[i] ELSE c[i - Len(a)]
    BY <1>7, <1>2, ConcatProperties
  <2> QED
    BY <1>4, <1>7, <2>1, <2>2
<1>9. x[1] = h[1]
  <2>1. 1 \in 1 .. (1 + n) + m /\ 1 <= 1 + n /\ 1 \in 1 .. 1 + n
    BY <1>3, <1>4
  <2> QED
    BY <1>6, <1>7, <1>8, <2>1, SMTT(30)
<1>10. Begins(Tail(x), e)
  <2>1. Len(x) >= 1
    BY <1>8
  <2>2. /\ Len(Tail(x)) = Len(x) - 1
        /\ \A i \in 1 .. Len(x) - 1 : Tail(x)[i] = x[i + 1]
    BY <1>8, <2>1, TailOf
  <2>3. ASSUME NEW i \in 1 .. n PROVE e[i] = Tail(x)[i]
    <3>1. /\ i \in 1 .. Len(x) - 1 /\ i + 1 \in 1 .. (1 + n) + m /\ i + 1 <= 1 + n
          /\ i + 1 \in 1 .. 1 + n /\ ~(i + 1 <= 1) /\ (i + 1) - 1 = i
      BY <1>8
    <3>2. Tail(x)[i] = x[i + 1] /\ x[i + 1] = a[i + 1]
      BY <1>8, <2>2, <3>1
    <3>3. a[i + 1] = e[(i + 1) - 1]
      BY <1>7, <3>1
    <3> QED
      BY <3>1, <3>2, <3>3
  <2>4. n <= Len(Tail(x))
    BY <1>8, <2>2
  <2> QED
    BY <1>3, <2>3, <2>4 DEF Begins
<1>11. SubSeq(x, 2 + n, Len(x)) = c
  <2>1. \A i \in 2 + n .. Len(x) : x[i] \in S
    <3>1. \A i \in 2 + n .. Len(x) : i \in 1 .. Len(x)
      OBVIOUS
    <3> QED
      BY <1>8, <3>1, ElementOfSeq
  <2>2. PICK d : d = SubSeq(x, 2 + n, Len(x))
    OBVIOUS
  <2>3. 2 + n \in Int /\ Len(x) \in Int /\ Len(x) - (2 + n) + 1 = m
    BY <1>8
  <2>4. /\ d \in Seq(S) /\ Len(d) = IF 2 + n <= Len(x) THEN Len(x) - (2 + n) + 1 ELSE 0
        /\ \A i \in 1 .. Len(x) - (2 + n) + 1 : d[i] = x[(2 + n) + i - 1]
    BY <2>1, <2>2, <2>3, SubSeqProperties, SMTT(30)
  <2>5. Len(d) = m
    BY <1>8, <2>3, <2>4
  <2>6. ASSUME NEW i \in 1 .. m PROVE d[i] = c[i]
    <3>1. /\ i \in 1 .. Len(x) - (2 + n) + 1 /\ (2 + n) + i - 1 = (1 + n) + i
          /\ (1 + n) + i \in 1 .. (1 + n) + m /\ ~((1 + n) + i <= 1 + n)
          /\ ((1 + n) + i) - (1 + n) = i
      BY <2>3
    <3>2. d[i] = x[(1 + n) + i]
      BY <2>4, <3>1
    <3>3. x[(1 + n) + i] = c[((1 + n) + i) - (1 + n)]
      BY <1>8, <3>1
    <3> QED
      BY <3>1, <3>2, <3>3
  <2> QED
    BY <1>4, <1>2, <2>2, <2>4, <2>5, <2>6, SeqEqual
<1> QED
  BY <1>1, <1>3, <1>4, <1>8, <1>9, <1>10, <1>11 DEF Pieces

\* What is decoded of a packet is what its body says, and its body is the one
\* that was put in.
LEMMA Framed ==
    ASSUME NEW t \in Byte, NEW body \in Seq(Byte), Len(body) <= MaxRemaining,
           t \div 16 \in 1 .. 14, LegalFlags(t \div 16, t % 16), NEW x, x = BuildPacket(t, body),
           NEW c, c = DecodeBody(t \div 16, t % 16, body)
    PROVE  /\ x \in Seq(Byte) /\ x[1] = t /\ Len(x) >= 2 /\ Body(x) = body
           /\ DecodePacket(x) = IF c = <<>> THEN Bad ELSE Accept(c[1], Len(x))
<1>1. PICK m \in Nat : m = Len(body) /\ m <= MaxRemaining
  OBVIOUS
<1>2. PICK e : e = EncodeRemainingLength(m)
  OBVIOUS
<1>3. /\ e \in Seq(Byte) /\ Len(e) \in 1 .. 4
      /\ \A b \in Seq(Byte) :
           Begins(b, e) => LengthEnds(b, Len(e)) /\ LengthValue(b, Len(e)) = m
  BY <1>1, <1>2, EncodedLength
<1>4. PICK n \in 1 .. 4 : n = Len(e)
  BY <1>3
<1>5. x = <<t>> \o e \o body
  BY <1>1, <1>2 DEF BuildPacket, Field
<1>6. /\ x \in Seq(Byte) /\ Len(x) = 1 + n + m /\ x[1] = t
      /\ Begins(Tail(x), e) /\ SubSeq(x, 2 + n, Len(x)) = body
  <2>1. /\ x \in Seq(Byte) /\ Len(x) = 1 + Len(e) + Len(body) /\ x[1] = t
        /\ Begins(Tail(x), e) /\ SubSeq(x, 2 + Len(e), Len(x)) = body
    <3>1. PICK h : h = <<t>>
      OBVIOUS
    <3>2. h \in Seq(Byte) /\ Len(h) = 1 /\ h[1] = t
      BY <3>1
    <3>3. x = (h \o e) \o body
      BY <1>5, <3>1
    <3>4. e \in Seq(Byte)
      BY <1>3
    <3>5. /\ x \in Seq(Byte) /\ Len(x) = 1 + Len(e) + Len(body) /\ x[1] = h[1]
          /\ Begins(Tail(x), e) /\ SubSeq(x, 2 + Len(e), Len(x)) = body
      <4>1. Pieces(x, h, e, body)
        BY <3>2, <3>3, <3>4, ThreePieces
      <4> QED
        BY <4>1 DEF Pieces
    <3> QED
      BY <3>2, <3>5
  <2> QED
    BY <1>1, <1>4, <2>1
<1>7. Len(x) >= 2 /\ Len(x) >= 1
  BY <1>1, <1>6
<1>8. Tail(x) \in Seq(Byte)
  BY <1>6, <1>7, TailOf
<1>9. LengthEnds(Tail(x), n) /\ LengthValue(Tail(x), n) = m
  BY <1>3, <1>4, <1>6, <1>8
<1>10. FrameEnd(x, n) = Len(x) /\ LegalHead(x)
  BY <1>6, <1>9 DEF FrameEnd, LegalHead
<1>11. Content(x, n) = c
  BY <1>6, <1>10 DEF Content
<1>12. ~(Len(x) < Len(x))
  BY <1>1, <1>6
<1>13. DecodePacket(x) =
         IF Len(x) < FrameEnd(x, n) THEN More
         ELSE IF Content(x, n) = <<>> THEN Bad ELSE Accept(Content(x, n)[1], FrameEnd(x, n))
  BY <1>6, <1>7, <1>9, <1>10, FrameVerdict
<1>14. DecodePacket(x) = IF c = <<>> THEN Bad ELSE Accept(c[1], Len(x))
  BY <1>10, <1>11, <1>12, <1>13
<1>15. Body(x) = body
  <2>1. DecodeRemainingLength(Tail(x)).used = n
    <3>1. DecodeRemainingLength(Tail(x)) =
            [ok |-> TRUE, used |-> n, value |-> LengthValue(Tail(x), n)]
      BY <1>8, <1>9, LengthDecoded
    <3> QED
      BY <3>1
  <2> QED
    BY <1>6, <2>1 DEF Body
<1> QED
  BY <1>6, <1>7, <1>14, <1>15

-----------------------------------------------------------------------------
(* Acknowledgements, signals and the answer to a connection.               *)

\* The packet identifiers.
Ids == {id \in Nat : 0 < id /\ id <= 65535}

\* They are numbers of 16 bits other than 0.
LEMMA IdRange == ASSUME NEW id \in Ids PROVE id \in Nat /\ id <= 65535 /\ id # 0
BY DEF Ids

\* A number in two bytes.
LEMMA TwoBytes ==
    ASSUME NEW x \in Nat, x <= 65535
    PROVE  /\ U16(x) \in Seq(Byte) /\ Len(U16(x)) = 2 /\ ReadU16(U16(x)) = x
           /\ U16(x)[1] = x \div 256 /\ U16(x)[2] = x % 256
<1>1. (x \div 256) \in 0 .. 255 /\ (x % 256) \in 0 .. 255
  OBVIOUS
<1>2. 256 * (x \div 256) + (x % 256) = x
  OBVIOUS
<1>3. PICK h : h = x \div 256
  OBVIOUS
<1>4. PICK l : l = x % 256
  OBVIOUS
<1>5. h \in Byte /\ l \in Byte
  BY <1>1, <1>3, <1>4 DEF Byte
<1>6. <<h, l>> \in Seq(Byte) /\ Len(<<h, l>>) = 2 /\ <<h, l>>[1] = h /\ <<h, l>>[2] = l
  BY <1>5
<1>7. U16(x) = <<h, l>>
  BY <1>3, <1>4 DEF U16
<1>8. ReadU16(<<h, l>>) = 256 * h + l
  BY <1>6 DEF ReadU16
<1>9. 256 * h + l = x
  BY <1>2, <1>3, <1>4
<1> QED
  BY <1>3, <1>4, <1>6, <1>7, <1>8, <1>9

\* And two bytes as a number.
LEMMA TwoBytesBack ==
    ASSUME NEW b \in Seq(Byte), Len(b) >= 2
    PROVE  /\ ReadU16(b) \in Nat /\ ReadU16(b) <= 65535 /\ b[1] \in Byte /\ b[2] \in Byte
           /\ U16(ReadU16(b)) = <<b[1], b[2]>>
<1>1. PICK h \in 0 .. 255 : h = b[1] /\ h \in Byte
  <2>1. 1 \in 1 .. Len(b)
    OBVIOUS
  <2> QED
    BY <2>1, ElementOfSeq DEF Byte
<1>2. PICK l \in 0 .. 255 : l = b[2] /\ l \in Byte
  <2>1. 2 \in 1 .. Len(b)
    OBVIOUS
  <2> QED
    BY <2>1, ElementOfSeq DEF Byte
<1>3. ReadU16(b) = 256 * h + l
  BY <1>1, <1>2 DEF ReadU16
<1>4. (256 * h + l) \div 256 = h
  OBVIOUS
<1>5. (256 * h + l) % 256 = l
  OBVIOUS
<1>6. 256 * h + l \in Nat /\ 256 * h + l <= 65535
  BY h \in 0 .. 255, l \in 0 .. 255
<1>7. PICK x : x = 256 * h + l
  OBVIOUS
<1>8. U16(x) = <<h, l>>
  BY <1>4, <1>5, <1>7 DEF U16
<1>9. ReadU16(b) = x /\ x \in Nat /\ x <= 65535
  BY <1>3, <1>6, <1>7
<1>10. U16(ReadU16(b)) = <<b[1], b[2]>>
  BY <1>1, <1>2, <1>8, <1>9
<1> QED
  BY <1>1, <1>2, <1>9, <1>10

\* A packet whose body is decoded.
LEMMA MeantIfDecoded ==
    ASSUME NEW t \in Byte, NEW body \in Seq(Byte), Len(body) <= MaxRemaining,
           t \div 16 \in 1 .. 14, LegalFlags(t \div 16, t % 16), NEW p,
           DecodeBody(t \div 16, t % 16, body) = <<p>>
    PROVE  Meant([bytes |-> BuildPacket(t, body), packet |-> p])
<1>1. PICK x : x = BuildPacket(t, body)
  OBVIOUS
<1>2. PICK c : c = DecodeBody(t \div 16, t % 16, body)
  OBVIOUS
<1>3. c # <<>> /\ c[1] = p
  BY <1>2
<1>4. x \in Seq(Byte) /\ DecodePacket(x) = IF c = <<>> THEN Bad ELSE Accept(c[1], Len(x))
  BY <1>1, <1>2, Framed
<1> QED
  BY <1>1, <1>3, <1>4 DEF Meant

\* Acknowledgements.
Acks == {PUBACK, 5, PUBREL, 7, 11}
\* One of them, as it is written and as it is meant.
AckPacket(type, id) ==
    [bytes |-> BuildPacket(16 * type + Bit(type = PUBREL, 2), U16(id)),
     packet |-> [Blank(type) EXCEPT !.packetId = id]]

\* It is read as it is meant.
LEMMA AckMeant ==
    ASSUME NEW type \in Acks, NEW id \in Ids
    PROVE  Meant(AckPacket(type, id))
<1>1. PICK t \in 0 .. 255 : /\ t = 16 * type + Bit(type = PUBREL, 2)
                            /\ t \div 16 = type /\ t % 16 = IF type = 6 THEN 2 ELSE 0
  <2>1. type \in {4, 5, 6, 7, 11}
    BY DEF Acks, PUBACK, PUBREL
  <2> QED
    BY <2>1 DEF Bit, PUBREL
<1>2. t \in Byte /\ type \in {4, 5, 6, 7, 11}
  BY DEF Byte, Acks, PUBACK, PUBREL
<1>3. PICK body \in Seq(Byte) : body = U16(id) /\ Len(body) = 2 /\ ReadU16(body) = id
  <2>1. id \in Nat /\ id <= 65535
    BY IdRange
  <2> QED
    BY <2>1, TwoBytes
<1>4. id # 0
  BY IdRange
<1>5. PICK p : p = [Blank(type) EXCEPT !.packetId = id]
  OBVIOUS
<1>6. DecodeAck(body, type) = <<p>>
  BY <1>3, <1>4, <1>5 DEF DecodeAck, Check
<1>7. DecodeBody(type, t % 16, body) = DecodeAck(body, type)
  BY <1>2 DEF DecodeBody, CONNECT, CONNACK, PUBLISH, SUBSCRIBE, SUBACK, UNSUBSCRIBE,
              PINGREQ, PINGRESP, DISCONNECT
<1>8. LegalFlags(type, t % 16)
  BY <1>1, <1>2 DEF LegalFlags, PUBLISH, PUBREL, SUBSCRIBE, UNSUBSCRIBE
<1>9. Len(body) <= MaxRemaining
  BY <1>3, SMT DEF MaxRemaining
<1>10. type \in 1 .. 14
  BY <1>2
<1>11. Meant([bytes |-> BuildPacket(t, body), packet |-> p])
  BY <1>1, <1>2, <1>6, <1>7, <1>8, <1>9, <1>10, MeantIfDecoded
<1> QED
  BY <1>1, <1>3, <1>5, <1>11 DEF AckPacket

\* Packets without a body.
Signals == {PINGREQ, PINGRESP, DISCONNECT}
\* One of them.
SignalPacket(type) == [bytes |-> BuildPacket(16 * type, <<>>), packet |-> Blank(type)]

\* It is read as it is meant.
LEMMA SignalMeant ==
    ASSUME NEW type \in Signals
    PROVE  Meant(SignalPacket(type))
<1>1. type \in {12, 13, 14}
  BY DEF Signals, PINGREQ, PINGRESP, DISCONNECT
<1>2. PICK t \in 0 .. 255 : t = 16 * type /\ t \div 16 = type /\ t % 16 = 0
  BY <1>1
<1>3. t \in Byte
  BY DEF Byte
<1>4. <<>> \in Seq(Byte) /\ Len(<<>>) = 0
  OBVIOUS
<1>5. DecodeBody(type, t % 16, <<>>) = <<Blank(type)>>
  <2>1. DecodeBody(type, t % 16, <<>>) = DecodeNoPayload(<<>>, type)
    BY <1>1 DEF DecodeBody, CONNECT, CONNACK, PUBLISH, SUBSCRIBE, SUBACK, UNSUBSCRIBE,
                PINGREQ, PINGRESP, DISCONNECT
  <2> QED
    BY <2>1 DEF DecodeNoPayload, Check
<1>6. LegalFlags(type, t % 16)
  BY <1>1, <1>2 DEF LegalFlags, PUBLISH, PUBREL, SUBSCRIBE, UNSUBSCRIBE
<1>7. Len(<<>>) <= MaxRemaining
  BY <1>4, SMT DEF MaxRemaining
<1>8. type \in 1 .. 14
  BY <1>1
<1>9. Meant([bytes |-> BuildPacket(t, <<>>), packet |-> Blank(type)])
  BY <1>2, <1>3, <1>4, <1>5, <1>6, <1>7, <1>8, MeantIfDecoded
<1> QED
  BY <1>2, <1>9 DEF SignalPacket

\* The answer to a CONNECT.
ConnackPacket(session, code) ==
    [bytes |-> BuildPacket(16 * CONNACK, <<session, code>>),
     packet |-> [Blank(CONNACK) EXCEPT !.packetId = session, !.returnCode = code]]

\* It is read as it is meant.
LEMMA ConnackMeant ==
    ASSUME NEW session \in 0 .. 1, NEW code \in 0 .. 5
    PROVE  Meant(ConnackPacket(session, code))
<1>1. session \in Byte /\ code \in Byte /\ 32 \in Byte
  BY DEF Byte
<1>2. PICK body : body = <<session, code>>
  OBVIOUS
<1>3. body \in Seq(Byte) /\ Len(body) = 2 /\ body[1] = session /\ body[2] = code
  BY <1>1, <1>2
<1>4. PICK p : p = [Blank(CONNACK) EXCEPT !.packetId = session, !.returnCode = code]
  OBVIOUS
<1>5. DecodeBody(2, 0, body) = <<p>>
  <2>1. DecodeBody(2, 0, body) = DecodeConnack(body)
    BY DEF DecodeBody, CONNECT, CONNACK, PUBLISH, SUBSCRIBE, SUBACK, UNSUBSCRIBE,
           PINGREQ, PINGRESP, DISCONNECT
  <2>2. session <= 1 /\ code <= 5
    OBVIOUS
  <2> QED
    BY <1>3, <1>4, <2>1, <2>2 DEF DecodeConnack, Check
<1>6. LegalFlags(2, 0)
  BY DEF LegalFlags, PUBLISH, PUBREL, SUBSCRIBE, UNSUBSCRIBE
<1>7. Len(body) <= MaxRemaining
  BY <1>3, SMT DEF MaxRemaining
<1>8. 32 \div 16 = 2 /\ 32 % 16 = 0 /\ 2 \in 1 .. 14 /\ 16 * CONNACK = 32
  BY DEF CONNACK
<1>9. Meant([bytes |-> BuildPacket(32, body), packet |-> p])
  BY <1>1, <1>3, <1>5, <1>6, <1>7, <1>8, MeantIfDecoded
<1> QED
  BY <1>2, <1>4, <1>8, <1>9 DEF ConnackPacket

-----------------------------------------------------------------------------
(* Publishes.                                                              *)

\* Two pieces of a sequence of bytes.
Halves(x, a, b) ==
    /\ x \in Seq(Byte) /\ Len(x) = Len(a) + Len(b) /\ Begins(x, a)
    /\ SubSeq(x, Len(a) + 1, Len(x)) = b

\* A concatenation has two pieces.
LEMMA InHalves ==
    ASSUME NEW a \in Seq(Byte), NEW b \in Seq(Byte), NEW x, x = a \o b
    PROVE  Halves(x, a, b)
<1>1. PICK S : S = Byte
  OBVIOUS
<1>2. a \in Seq(S) /\ b \in Seq(S)
  BY <1>1
<1>3. PICK n \in Nat : n = Len(a)
  BY <1>2
<1>4. PICK m \in Nat : m = Len(b)
  BY <1>2
<1>5. /\ x \in Seq(S) /\ Len(x) = n + m
      /\ \A i \in 1 .. n + m : x[i] = IF i <= n THEN a[i] ELSE b[i - n]
  <2>1. /\ a \o b \in Seq(S) /\ Len(a \o b) = Len(a) + Len(b)
        /\ \A i \in 1 .. Len(a) + Len(b) : (a \o b)[i] = IF i <= Len(a) THEN a[i] ELSE b[i - Len(a)]
    BY <1>2, ConcatProperties
  <2> QED
    BY <1>3, <1>4, <2>1
<1>6. Begins(x, a)
  BY <1>3, <1>4, <1>5 DEF Begins
<1>7. SubSeq(x, n + 1, Len(x)) = b
  <2>1. \A i \in n + 1 .. Len(x) : x[i] \in S
    <3>1. \A i \in n + 1 .. Len(x) : i \in 1 .. Len(x)
      BY <1>5
    <3> QED
      BY <1>5, <3>1, ElementOfSeq
  <2>2. PICK d : d = SubSeq(x, n + 1, Len(x))
    OBVIOUS
  <2>3. n + 1 \in Int /\ Len(x) \in Int /\ Len(x) - (n + 1) + 1 = m
    BY <1>5
  <2>4. /\ d \in Seq(S) /\ Len(d) = IF n + 1 <= Len(x) THEN Len(x) - (n + 1) + 1 ELSE 0
        /\ \A i \in 1 .. Len(x) - (n + 1) + 1 : d[i] = x[(n + 1) + i - 1]
    BY <2>1, <2>2, <2>3, SubSeqProperties
  <2>5. Len(d) = m
    BY <1>5, <2>3, <2>4
  <2>6. ASSUME NEW i \in 1 .. m PROVE d[i] = b[i]
    <3>1. /\ i \in 1 .. Len(x) - (n + 1) + 1 /\ (n + 1) + i - 1 = n + i
          /\ n + i \in 1 .. n + m /\ ~(n + i <= n) /\ (n + i) - n = i
      BY <2>3
    <3>2. d[i] = x[n + i]
      BY <2>4, <3>1
    <3>3. x[n + i] = b[(n + i) - n]
      BY <1>5, <3>1
    <3> QED
      BY <3>1, <3>2, <3>3
  <2> QED
    BY <1>2, <1>4, <2>2, <2>4, <2>5, <2>6, SeqEqual
<1> QED
  BY <1>1, <1>3, <1>4, <1>5, <1>6, <1>7 DEF Halves

\* x has every piece of a at the same place.
SamePieces(x, a) ==
    \A m \in Nat \ {0}, k \in Int : k <= Len(a) => SubSeq(x, m, k) = SubSeq(a, m, k)

\* A sequence has the pieces of its first half.
LEMMA InFirstHalf ==
    ASSUME NEW a \in Seq(Byte), NEW x \in Seq(Byte), Begins(x, a)
    PROVE  SamePieces(x, a)
<1> SUFFICES ASSUME NEW m \in Nat \ {0}, NEW k \in Int, k <= Len(a)
             PROVE  SubSeq(x, m, k) = SubSeq(a, m, k)
  BY DEF SamePieces
<1> QED
  BY SamePart, SMTT(30)

\* A string and its length.
Texts == {s \in Seq(Byte) : Len(s) <= 65535}

\* The decoder finds the string behind its length.
LEMMA UtfIs ==
    ASSUME NEW s \in Texts
    PROVE  /\ Utf(s) \in Seq(Byte) /\ Len(Utf(s)) = 2 + Len(s) /\ Len(s) \in Nat
           /\ ReadU16(Utf(s)) = Len(s)
           /\ SubSeq(Utf(s), 3, 2 + Len(s)) = s
<1>1. PICK n \in Nat : n = Len(s) /\ n <= 65535 /\ s \in Seq(Byte)
  BY DEF Texts
<1>2. n % 65536 = n
  BY <1>1
<1>3. PICK h \in Seq(Byte) : h = U16(n) /\ Len(h) = 2 /\ ReadU16(h) = n
  BY <1>1, TwoBytes
<1>4. PICK z \in Seq(Byte) : z = s
  BY <1>1
<1>5. PICK x : x = h \o z
  OBVIOUS
<1>6. Utf(s) = x
  <2>1. U16(Len(s) % 65536) = h
    BY <1>1, <1>2, <1>3
  <2> QED
    BY <1>4, <1>5, <2>1 DEF Utf
<1>7. Halves(x, h, z)
  BY <1>5, InHalves
<1>8. x \in Seq(Byte) /\ Len(x) = 2 + n /\ Begins(x, h) /\ SubSeq(x, 3, 2 + n) = s
  <2>1. /\ x \in Seq(Byte) /\ Len(x) = Len(h) + Len(s) /\ Begins(x, h)
        /\ SubSeq(x, Len(h) + 1, Len(x)) = s
    BY <1>4, <1>7 DEF Halves
  <2>2. Len(x) = 2 + n /\ Len(h) + 1 = 3
    BY <1>1, <1>3, <2>1
  <2> QED
    BY <2>1, <2>2
<1>9. ReadU16(x) = n
  <2>1. x[1] = h[1] /\ x[2] = h[2]
    BY <1>3, <1>8 DEF Begins
  <2> QED
    BY <1>3, <2>1 DEF ReadU16
<1> QED
  BY <1>1, <1>6, <1>8, <1>9

\* Numbers that fit into two bytes.
Words == {k \in Nat : k <= 65535}

\* The range of a number that fits two bytes.
LEMMA WordRange == ASSUME NEW k \in Words PROVE k \in Nat /\ k <= 65535
BY DEF Words

\* A publish, of the client or of a broker that sends it again.
PublishBody(topic, payload, qos, packetId) == Utf(topic) \o Field(qos > 0, U16(packetId)) \o payload
\* Its first byte.
PublishHead(dup, qos, retain) == 16 * PUBLISH + Bit(dup, 8) + 2 * (qos % 4) + Bit(retain, 1)
\* The publish as it is written and as it is meant.
PublishPacket(dup, topic, payload, qos, retain, packetId) ==
    [bytes |-> BuildPacket(PublishHead(dup, qos, retain),
                           PublishBody(topic, payload, qos, packetId)),
     packet |-> [Blank(PUBLISH) EXCEPT
                    !.dup = dup, !.qos = qos, !.retain = retain, !.packetId = packetId,
                    !.topic = topic, !.payload = payload]]

\* The flags can be read from the first byte.
LEMMA PublishHeadIs ==
    ASSUME NEW dup, dup \in BOOLEAN, NEW qos \in 0 .. 2, NEW retain, retain \in BOOLEAN
    PROVE  \E t \in 0 .. 255, f \in 0 .. 15 :
             /\ t = PublishHead(dup, qos, retain) /\ t \div 16 = 3 /\ t % 16 = f
             /\ (f \div 2) % 4 = qos /\ (f \div 8 = 1) = dup /\ (f % 2 = 1) = retain
<1>1. PICK d \in {0, 8} : d = Bit(dup, 8) /\ (d = 8) = dup
  BY DEF Bit
<1>2. PICK r \in {0, 1} : r = Bit(retain, 1) /\ (r = 1) = retain
  BY DEF Bit
<1>3. PICK f : f = d + 2 * qos + r
  OBVIOUS
<1>4. qos % 4 = qos
  OBVIOUS
<1>5. PublishHead(dup, qos, retain) = 48 + f /\ f \in 0 .. 15
  BY <1>1, <1>2, <1>3, <1>4 DEF PublishHead, PUBLISH
<1>6. (48 + f) \div 16 = 3 /\ (48 + f) % 16 = f /\ 48 + f \in 0 .. 255
  BY <1>5
<1>7. (f \div 2) % 4 = qos /\ (f \div 8 = 1 <=> d = 8) /\ (f % 2 = 1 <=> r = 1)
  BY <1>3
<1> QED
  BY <1>1, <1>2, <1>5, <1>6, <1>7

\* A string of n bytes, something and the rest.
Headed(x, u, i, payload, n) ==
    /\ x \in Seq(Byte) /\ Len(x) = 2 + n + Len(i) + Len(payload)
    /\ ReadU16(x) = ReadU16(u)
    /\ SubSeq(x, 3, 2 + n) = SubSeq(u, 3, 2 + n)
    /\ SubSeq(x, 2 + n + 1, 2 + n + Len(i)) = i
    /\ SubSeq(x, 2 + n + Len(i) + 1, Len(x)) = payload

\* The parts of a body can be found again.
LEMMA PublishParts ==
    ASSUME NEW u \in Seq(Byte), NEW i \in Seq(Byte), NEW payload \in Seq(Byte),
           NEW n \in Nat, Len(u) = 2 + n, NEW x, x = (u \o i) \o payload
    PROVE  Headed(x, u, i, payload, n)
<1>1. PICK k \in Nat : k = Len(i)
  OBVIOUS
<1>2. PICK y : y = u \o i
  OBVIOUS
<1>3. Halves(y, u, i)
  BY <1>2, InHalves
<1>4. y \in Seq(Byte) /\ Len(y) = 2 + n + k
  BY <1>1, <1>3 DEF Halves
<1>5. Halves(x, y, payload)
  BY <1>2, <1>4, InHalves
<1>6. x \in Seq(Byte) /\ Len(x) = 2 + n + k + Len(payload)
  BY <1>4, <1>5 DEF Halves
<1>7. x \in Seq(Byte) /\ y \in Seq(Byte) /\ Begins(x, y) /\ Begins(y, u)
  BY <1>3, <1>4, <1>5 DEF Halves
<1>8. SubSeq(x, 3, 2 + n) = SubSeq(u, 3, 2 + n)
  <2>1. PICK e \in Int : e = 2 + n
    OBVIOUS
  <2>2. e <= Len(y) /\ e <= Len(u)
    BY <1>4, <2>1
  <2>3. 3 \in Nat \ {0}
    OBVIOUS
  <2>4. SubSeq(x, 3, e) = SubSeq(y, 3, e)
    <3>1. SamePieces(x, y)
      BY <1>7, InFirstHalf, Zenon
    <3> QED
      BY <2>2, <2>3, <3>1 DEF SamePieces
  <2>5. SubSeq(y, 3, e) = SubSeq(u, 3, e)
    <3>1. SamePieces(y, u)
      BY <1>7, InFirstHalf, Zenon
    <3> QED
      BY <2>2, <2>3, <3>1 DEF SamePieces
  <2> QED
    BY <2>1, <2>4, <2>5
<1>9. ReadU16(x) = ReadU16(u)
  <2>1. x[1] = y[1] /\ x[2] = y[2]
    BY <1>4, <1>5 DEF Halves, Begins
  <2>2. y[1] = u[1] /\ y[2] = u[2]
    BY <1>3 DEF Halves, Begins
  <2> QED
    BY <2>1, <2>2 DEF ReadU16
<1>10. SubSeq(x, 2 + n + 1, 2 + n + k) = i
  <2>1. PICK m \in Nat \ {0}, e \in Int :
          m = 2 + n + 1 /\ e = 2 + n + k /\ e = Len(y) /\ e <= Len(y)
    BY <1>4
  <2>2. SubSeq(x, m, e) = SubSeq(y, m, e)
    <3>1. SamePieces(x, y)
      BY <1>7, InFirstHalf, Zenon
    <3> QED
      BY <2>1, <3>1 DEF SamePieces
  <2>3. SubSeq(y, Len(u) + 1, Len(y)) = i
    BY <1>3 DEF Halves
  <2> QED
    BY <1>4, <2>1, <2>2, <2>3
<1>11. SubSeq(x, 2 + n + k + 1, Len(x)) = payload
  BY <1>4, <1>5 DEF Halves
<1> QED
  BY <1>1, <1>6, <1>8, <1>9, <1>10, <1>11 DEF Headed

\* A publish comes out as it was built.
LEMMA PublishMeant ==
    ASSUME NEW dup, dup \in BOOLEAN, NEW topic \in Texts, topic # <<>>, NEW payload \in Seq(Byte),
           NEW qos \in 0 .. 2, NEW retain, retain \in BOOLEAN,
           NEW packetId \in Words, qos = 0 => packetId = 0, qos # 0 => packetId # 0,
           Len(PublishBody(topic, payload, qos, packetId)) <= MaxRemaining
    PROVE  Meant(PublishPacket(dup, topic, payload, qos, retain, packetId))
<1>1. PICK t \in 0 .. 255, f \in 0 .. 15 :
        /\ t = PublishHead(dup, qos, retain) /\ t \div 16 = 3 /\ t % 16 = f
        /\ (f \div 2) % 4 = qos /\ (f \div 8 = 1) = dup /\ (f % 2 = 1) = retain
  BY PublishHeadIs
<1>2. PICK u \in Seq(Byte), n \in Nat :
        /\ u = Utf(topic) /\ n = Len(topic) /\ Len(u) = 2 + n /\ ReadU16(u) = n
        /\ SubSeq(u, 3, 2 + n) = topic /\ n > 0
  <2>1. Len(topic) > 0 /\ topic \in Seq(Byte)
    BY DEF Texts
  <2> QED
    BY <2>1, UtfIs
<1>3. PICK i : i = Field(qos > 0, U16(packetId))
  OBVIOUS
<1>4. PICK k : k = Bit(qos > 0, 2)
  OBVIOUS
<1>5. i \in Seq(Byte) /\ k \in Nat /\ k = Len(i) /\ (qos > 0 => ReadU16(i) = packetId)
  <2>1. CASE qos = 0
    <3>1. ~(qos > 0)
      BY <2>1
    <3>2. i = <<>> /\ k = 0
      BY <1>3, <1>4, <3>1 DEF Field, Bit
    <3>3. <<>> \in Seq(Byte) /\ Len(<<>>) = 0
      OBVIOUS
    <3> QED
      BY <3>1, <3>2, <3>3
  <2>2. CASE qos # 0
    <3>1. qos > 0
      BY <2>2
    <3>2. i = U16(packetId) /\ k = 2
      BY <1>3, <1>4, <3>1 DEF Field, Bit
    <3>3. packetId \in Nat /\ packetId <= 65535
      BY WordRange
    <3>4. U16(packetId) \in Seq(Byte) /\ Len(U16(packetId)) = 2 /\ ReadU16(U16(packetId)) = packetId
      BY <3>3, TwoBytes, SMT
    <3> QED
      BY <3>2, <3>4
  <2> QED
    BY <2>1, <2>2
<1>6. PICK x : x = (u \o i) \o payload
  OBVIOUS
<1>7. x = PublishBody(topic, payload, qos, packetId)
  BY <1>2, <1>3, <1>6 DEF PublishBody
<1>8. /\ x \in Seq(Byte) /\ Len(x) = 2 + n + k + Len(payload) /\ Len(payload) \in Nat
      /\ ReadU16(x) = n /\ SubSeq(x, 3, 2 + n) = topic
      /\ SubSeq(x, 2 + n + 1, 2 + n + k) = i
      /\ SubSeq(x, 2 + n + k + 1, Len(x)) = payload
  <2>1. i \in Seq(Byte) /\ Len(u) = 2 + n
    BY <1>2, <1>5
  <2>2. Headed(x, u, i, payload, n)
    BY <1>6, <2>1, PublishParts
  <2>3. k = Len(i) /\ ReadU16(u) = n /\ SubSeq(u, 3, 2 + n) = topic
    BY <1>2, <1>5
  <2>4. Len(payload) \in Nat
    OBVIOUS
  <2>5. /\ x \in Seq(Byte) /\ Len(x) = 2 + n + k + Len(payload)
        /\ ReadU16(x) = ReadU16(u)
        /\ SubSeq(x, 3, 2 + n) = SubSeq(u, 3, 2 + n)
        /\ SubSeq(x, 2 + n + 1, 2 + n + k) = i
        /\ SubSeq(x, 2 + n + k + 1, Len(x)) = payload
    BY <2>2, <2>3, Zenon DEF Headed
  <2> QED
    BY <2>3, <2>4, <2>5, Zenon
<1>9. PICK q : q = PublishPacket(dup, topic, payload, qos, retain, packetId).packet
  OBVIOUS
<1>10. DecodePublish(x, f) = <<q>>
  <2>1. /\ Len(x) >= 2 /\ 2 + n > 2 /\ Len(x) >= 2 + n + k
    BY <1>2, <1>8, <1>5
  <2>2. qos > 0 => packetId # 0
    OBVIOUS
  <2>3. PICK id : id = IF qos > 0 THEN ReadU16(SubSeq(x, 2 + n + 1, 2 + n + k)) ELSE 0
    OBVIOUS
  <2>4. id = packetId
    <3>1. CASE qos = 0
      BY <2>3, <3>1
    <3>2. CASE qos # 0
      <4>1. qos > 0
        BY <3>2
      <4>2. id = ReadU16(i)
        BY <1>8, <2>3, <4>1
      <4> QED
        BY <1>5, <4>1, <4>2
    <3> QED
      BY <3>1, <3>2
  <2>5. PICK top : top = SubSeq(x, 3, 2 + n)
    OBVIOUS
  <2>6. PICK pay : pay = SubSeq(x, 2 + n + k + 1, Len(x))
    OBVIOUS
  <2>7. PICK d : d = (f \div 8 = 1)
    OBVIOUS
  <2>8. PICK r : r = (f % 2 = 1)
    OBVIOUS
  <2>9. DecodePublish(x, f) =
          IF /\ Len(x) >= 2 /\ 2 + n > 2 /\ Len(x) >= 2 + n + k
             /\ qos > 0 => id # 0
          THEN <<[Blank(PUBLISH) EXCEPT
                     !.dup = d, !.qos = qos, !.retain = r,
                     !.packetId = id, !.topic = top, !.payload = pay]>>
          ELSE <<>>
    <3>1. (f \div 2) % 4 = qos
      BY <1>1, Zenon
    <3>2. ReadU16(x) = n
      BY <1>8
    <3> QED
      BY <1>4, <2>3, <2>5, <2>6, <2>7, <2>8, <3>1, <3>2 DEF DecodePublish, Check
  <2>10. d = dup /\ r = retain
    BY <1>1, <2>7, <2>8, Zenon
  <2>11. top = topic /\ pay = payload
    BY <1>8, <2>5, <2>6
  <2>12. q = [Blank(PUBLISH) EXCEPT
                     !.dup = dup, !.qos = qos, !.retain = retain,
                     !.packetId = packetId, !.topic = topic, !.payload = payload]
    BY <1>9 DEF PublishPacket
  <2>13. DecodePublish(x, f) =
          <<[Blank(PUBLISH) EXCEPT
                     !.dup = d, !.qos = qos, !.retain = r,
                     !.packetId = id, !.topic = top, !.payload = pay]>>
    BY <2>1, <2>2, <2>4, <2>9
  <2> QED
    BY <2>4, <2>10, <2>11, <2>12, <2>13
<1>11. DecodeBody(3, f, x) = <<q>>
  BY <1>10 DEF DecodeBody, CONNECT, CONNACK, PUBLISH, SUBSCRIBE, SUBACK, UNSUBSCRIBE,
               PINGREQ, PINGRESP, DISCONNECT
<1>12. LegalFlags(3, f)
  <2>1. (f \div 2) % 4 = qos
    BY <1>1, Zenon
  <2>2. (f \div 2) % 4 # 3
    BY <2>1
  <2> QED
    BY <2>2 DEF LegalFlags, PUBLISH, PUBREL, SUBSCRIBE, UNSUBSCRIBE
<1>13. t \in Byte /\ 3 \in 1 .. 14 /\ Len(x) <= MaxRemaining
  BY <1>7 DEF Byte
<1>14. Meant([bytes |-> BuildPacket(t, x), packet |-> q])
  <2>1. t \div 16 = 3 /\ t % 16 = f
    BY <1>1, Zenon
  <2> QED
    BY <1>8, <1>11, <1>12, <1>13, <2>1, MeantIfDecoded
<1>15. t = PublishHead(dup, qos, retain)
  BY <1>1, Zenon
<1> QED
  BY <1>7, <1>9, <1>14, <1>15 DEF PublishPacket

-----------------------------------------------------------------------------
(* Strings one after the other, read.                                      *)

\* What holds at the end and, when it holds at all later places, at a place,
\* holds everywhere.
LEMMA FromTheEnd ==
    ASSUME NEW N \in Nat, NEW T, N + 1 \in T,
           \A pos \in 1 .. N : (pos + 1 .. N + 1) \subseteq T => pos \in T
    PROVE  1 .. N + 1 \subseteq T
<1> DEFINE K == {n \in 0 .. N : (N + 1 - n .. N + 1) \subseteq T}
<1>1. 0 \in K
  BY N + 1 - 0 = N + 1
<1>2. ASSUME NEW n \in 1 .. N, n - 1 \in K PROVE n \in K
  <2>1. (N + 1 - (n - 1) .. N + 1) \subseteq T
    BY <1>2
  <2>2. N + 1 - n \in 1 .. N /\ (N + 1 - n) + 1 = N + 1 - (n - 1)
    OBVIOUS
  <2>3. N + 1 - n \in T
    BY <2>1, <2>2
  <2>4. \A i \in N + 1 - n .. N + 1 : i = N + 1 - n \/ i \in N + 1 - (n - 1) .. N + 1
    OBVIOUS
  <2> QED
    BY <2>1, <2>3, <2>4
<1> HIDE DEF K
<1>3. 0 .. N \subseteq K
  BY <1>1, <1>2, UpTo
<1>4. N \in K
  BY <1>3
<1> QED
  BY <1>4, N + 1 - N = 1 DEF K

\* One item of Items and those behind it.
Item == [ok : {FALSE}] \union [ok : {TRUE}, string : Seq(Byte), code : Byte]
\* What is left from a place on.
Rest(b, pos) == SubSeq(b, pos, Len(b))
\* How many bytes the item there takes, and whether it is cut off.
ItemSize(b, pos, extra) == 2 + ReadU16(Rest(b, pos)) + extra
ItemCut(b, pos, extra) == Len(Rest(b, pos)) < 2 \/ ItemSize(b, pos, extra) > Len(Rest(b, pos))
\* The item there.
ItemAt(b, pos, extra) ==
    [ok |-> TRUE, string |-> SubSeq(Rest(b, pos), 3, ItemSize(b, pos, extra) - extra),
     code |-> Rest(b, pos)[ItemSize(b, pos, extra)]]
\* The items from a place on, if f has those from every later place on.
ItemStep(b, extra, f, pos) ==
    IF Rest(b, pos) = <<>> THEN <<>>
    ELSE IF ItemCut(b, pos, extra) THEN <<[ok |-> FALSE]>>
    ELSE <<ItemAt(b, pos, extra)>> \o f[pos + ItemSize(b, pos, extra)]
\* The function of the places that Items is defined by.
ItemsFcn(b, extra, f) == f = [pos \in 1 .. Len(b) + 1 |-> ItemStep(b, extra, f, pos)]

\* The bytes from a place on.
LEMMA RestIs ==
    ASSUME NEW b \in Seq(Byte), NEW pos \in 1 .. Len(b) + 1
    PROVE  /\ Rest(b, pos) \in Seq(Byte) /\ Len(Rest(b, pos)) = Len(b) + 1 - pos
           /\ pos = Len(b) + 1 <=> Rest(b, pos) = <<>>
<1>1. PICK N \in Nat : N = Len(b) /\ \A i \in 1 .. N : b[i] \in Byte
  BY BytesOf
<1>2. \A i \in pos .. N : b[i] \in Byte
  BY <1>1
<1>3. PICK r : r = Rest(b, pos)
  OBVIOUS
<1>4. /\ r \in Seq(Byte) /\ Len(r) = IF pos <= N THEN N - pos + 1 ELSE 0
  BY <1>1, <1>2, <1>3, SubSeqProperties DEF Rest
<1>5. Len(r) = N + 1 - pos
  BY <1>1, <1>4
<1>6. r = <<>> <=> Len(r) = 0
  BY <1>4
<1>7. pos = N + 1 <=> Len(r) = 0
  BY <1>1, <1>5
<1> QED
  BY <1>1, <1>3, <1>4, <1>5, <1>6, <1>7

\* An item that fits, and the place behind it.
LEMMA ItemBounds ==
    ASSUME NEW b \in Seq(Byte), NEW pos \in 1 .. Len(b) + 1, NEW extra \in 0 .. 1,
           ~ItemCut(b, pos, extra)
    PROVE  /\ ItemSize(b, pos, extra) \in Nat /\ ItemSize(b, pos, extra) >= 2
           /\ pos + ItemSize(b, pos, extra) \in pos + 1 .. Len(b) + 1
           /\ pos \in 1 .. Len(b)
           /\ ItemAt(b, pos, extra) \in Item
<1>1. PICK N \in Nat : N = Len(b)
  OBVIOUS
<1>2. PICK r \in Seq(Byte) : r = Rest(b, pos) /\ Len(r) = N + 1 - pos
  BY <1>1, RestIs
<1>3. PICK v \in Nat : v = ReadU16(r)
  BY <1>2, TwoBytesBack DEF ItemCut
<1>4. PICK size \in Nat : size = ItemSize(b, pos, extra) /\ size = 2 + v + extra
  BY <1>2, <1>3 DEF ItemSize
<1>5. size >= 2 /\ size <= N + 1 - pos
  BY <1>2, <1>3, <1>4, SMTT(30) DEF ItemCut
<1>6. pos + size \in pos + 1 .. N + 1 /\ pos \in 1 .. N
  BY <1>1, <1>5
<1>7. SubSeq(r, 3, size - extra) \in Seq(Byte)
  <2>1. \A i \in 1 .. Len(r) : r[i] \in Byte
    BY ElementOfSeq
  <2>2. \A i \in 3 .. size - extra : i \in 1 .. Len(r)
    BY <1>1, <1>2, <1>4, <1>5
  <2>3. \A i \in 3 .. size - extra : r[i] \in Byte
    BY <2>1, <2>2
  <2>4. size - extra \in Int
    OBVIOUS
  <2> QED
    BY <2>3, <2>4, SubSeqProperties
<1>8. r[size] \in Byte
  <2>1. size \in 1 .. Len(r)
    BY <1>1, <1>2, <1>5
  <2> QED
    BY <2>1, ElementOfSeq
<1>9. ItemAt(b, pos, extra) \in Item
  BY <1>2, <1>4, <1>7, <1>8 DEF ItemAt, Item
<1> QED
  BY <1>1, <1>4, <1>5, <1>6, <1>9

\* A step looks at later places only.
LEMMA StepLooksAhead ==
    ASSUME NEW b \in Seq(Byte), NEW pos \in 1 .. Len(b) + 1, NEW extra \in 0 .. 1,
           NEW f, NEW g, \A i \in pos + 1 .. Len(b) + 1 : f[i] = g[i]
    PROVE  ItemStep(b, extra, f, pos) = ItemStep(b, extra, g, pos)
<1>1. CASE ~ItemCut(b, pos, extra)
  <2>1. pos + ItemSize(b, pos, extra) \in pos + 1 .. Len(b) + 1
    BY <1>1, ItemBounds
  <2>2. f[pos + ItemSize(b, pos, extra)] = g[pos + ItemSize(b, pos, extra)]
    BY <2>1, Zenon
  <2> QED
    BY <2>2, Zenon DEF ItemStep
<1>2. CASE ItemCut(b, pos, extra)
  BY <1>2, Zenon DEF ItemStep
<1> QED
  BY <1>1, <1>2

\* The recursion of Items has a solution.
LEMMA ItemsExist ==
    ASSUME NEW b \in Seq(Byte), NEW extra \in 0 .. 1
    PROVE  \E f : ItemsFcn(b, extra, f)
<1>1. PICK N \in Nat : N = Len(b)
  OBVIOUS
<1> DEFINE Solved(g, k) == \A pos \in k .. N + 1 : g[pos] = ItemStep(b, extra, g, pos)
           T == {k \in 1 .. N + 1 : \E g : Solved(g, k)}
<1>2. N + 1 \in T
  <2> DEFINE g == [i \in 1 .. N + 1 |-> <<>>]
  <2>1. g[N + 1] = <<>>
    OBVIOUS
  <2>2. ItemStep(b, extra, g, N + 1) = <<>>
    <3>1. N + 1 \in 1 .. Len(b) + 1 /\ N + 1 = Len(b) + 1
      BY <1>1
    <3>2. Rest(b, N + 1) = <<>>
      BY <3>1, RestIs
    <3> QED
      BY <3>2 DEF ItemStep
  <2>3. \A pos \in N + 1 .. N + 1 : pos = N + 1
    OBVIOUS
  <2> HIDE DEF g
  <2>4. Solved(g, N + 1)
    BY <2>1, <2>2, <2>3
  <2> QED
    BY <2>4
<1>3. ASSUME NEW k \in 1 .. N, (k + 1 .. N + 1) \subseteq T PROVE k \in T
  <2> HIDE DEF T
  <2>1. k + 1 \in k + 1 .. N + 1
    OBVIOUS
  <2>2. k + 1 \in T
    BY <1>3, <2>1
  <2>3. PICK g : Solved(g, k + 1)
    BY <2>2 DEF T
  <2> DEFINE h == [pos \in 1 .. N + 1 |-> IF pos = k THEN ItemStep(b, extra, g, k) ELSE g[pos]]
  <2>4. k \in 1 .. N + 1 /\ \A pos \in k + 1 .. N + 1 : pos \in 1 .. N + 1 /\ pos # k
    OBVIOUS
  <2>5. h[k] = ItemStep(b, extra, g, k) /\ \A pos \in k + 1 .. N + 1 : h[pos] = g[pos]
    BY <2>4
  <2> HIDE DEF h
  <2>6. ASSUME NEW pos \in k .. N + 1 PROVE ItemStep(b, extra, h, pos) = ItemStep(b, extra, g, pos)
    <3>1. pos \in 1 .. Len(b) + 1 /\ \A i \in pos + 1 .. Len(b) + 1 : i \in k + 1 .. N + 1
      BY <1>1
    <3>2. \A i \in pos + 1 .. Len(b) + 1 : h[i] = g[i]
      BY <2>5, <3>1
    <3> QED
      BY <3>1, <3>2, StepLooksAhead
  <2>7. ASSUME NEW pos \in k .. N + 1 PROVE h[pos] = ItemStep(b, extra, h, pos)
    <3>1. CASE pos = k
      BY <2>5, <2>6, <3>1
    <3>2. CASE pos # k
      <4>1. pos \in k + 1 .. N + 1
        BY <3>2
      <4> QED
        BY <2>3, <2>5, <2>6, <4>1
    <3> QED
      BY <3>1, <3>2
  <2> QED
    BY <2>4, <2>7 DEF T
<1> HIDE DEF T
<1>4. 1 .. N + 1 \subseteq T
  BY <1>2, <1>3, FromTheEnd
<1>5. 1 \in T
  BY <1>4
<1>6. PICK g : Solved(g, 1)
  BY <1>5 DEF T
<1> DEFINE f == [pos \in 1 .. N + 1 |-> g[pos]]
<1>7. \A pos \in 1 .. N + 1 : f[pos] = g[pos]
  OBVIOUS
<1>8. f = [pos \in 1 .. N + 1 |-> f[pos]]
  OBVIOUS
<1> HIDE DEF f
<1>9. ASSUME NEW pos \in 1 .. N + 1 PROVE f[pos] = ItemStep(b, extra, f, pos)
  <2>1. pos \in 1 .. Len(b) + 1 /\ \A i \in pos + 1 .. Len(b) + 1 : i \in 1 .. N + 1
    BY <1>1
  <2>2. \A i \in pos + 1 .. Len(b) + 1 : f[i] = g[i]
    BY <1>7, <2>1
  <2>3. ItemStep(b, extra, f, pos) = ItemStep(b, extra, g, pos)
    BY <2>1, <2>2, StepLooksAhead
  <2> QED
    BY <1>6, <1>7, <2>3
<1>10. ItemsFcn(b, extra, f)
  BY <1>1, <1>8, <1>9 DEF ItemsFcn
<1> QED
  BY <1>10

\* What Items are: the first entry of a table that solves its recursion.
LEMMA ItemsTable ==
    ASSUME NEW b \in Seq(Byte), NEW extra \in 0 .. 1
    PROVE  \E f : /\ Items(b, extra) = f[1]
                  /\ \A pos \in 1 .. Len(b) + 1 : f[pos] = ItemStep(b, extra, f, pos)
<1> DEFINE f == CHOOSE f : ItemsFcn(b, extra, f)
<1>1. Items(b, extra) = f[1]
  BY DEF Items, ItemsFcn, ItemStep, ItemCut, ItemSize, ItemAt, Rest
<1>2. ItemsFcn(b, extra, f)
  BY ItemsExist
<1> HIDE DEF f
<1>3. \A pos \in 1 .. Len(b) + 1 : f[pos] = ItemStep(b, extra, f, pos)
  BY <1>2 DEF ItemsFcn
<1> QED
  BY <1>1, <1>3

\* The first two bytes.
LEMMA FirstTwo ==
    ASSUME NEW r \in Seq(Byte), Len(r) >= 2
    PROVE  SubSeq(r, 1, 2) = <<r[1], r[2]>>
<1>1. PICK x \in Byte : x = r[1]
  <2>1. 1 \in 1 .. Len(r)
    OBVIOUS
  <2> QED
    BY <2>1, ElementOfSeq
<1>2. PICK y \in Byte : y = r[2]
  <2>1. 2 \in 1 .. Len(r)
    OBVIOUS
  <2> QED
    BY <2>1, ElementOfSeq
<1>3. PICK d : d = SubSeq(r, 1, 2)
  OBVIOUS
<1>4. d \in Seq(Byte) /\ Len(d) = 2 /\ d[1] = x /\ d[2] = y
  <2>1. \A i \in 1 .. 2 : r[i] \in Byte
    BY <1>1, <1>2
  <2>2. /\ d \in Seq(Byte) /\ Len(d) = IF 1 <= 2 THEN 2 - 1 + 1 ELSE 0
        /\ \A i \in 1 .. 2 - 1 + 1 : d[i] = r[1 + i - 1]
    BY <1>3, <2>1, SubSeqProperties
  <2>3. 1 \in 1 .. 2 - 1 + 1 /\ 2 \in 1 .. 2 - 1 + 1 /\ 1 + 1 - 1 = 1 /\ 1 + 2 - 1 = 2
    OBVIOUS
  <2>4. Len(d) = 2
    BY <2>2
  <2> QED
    BY <1>1, <1>2, <2>2, <2>3, <2>4
<1>5. PICK e : e = <<x, y>>
  OBVIOUS
<1>6. e \in Seq(Byte) /\ Len(e) = 2 /\ e[1] = x /\ e[2] = y
  BY <1>5
<1>7. \A i \in 1 .. Len(d) : d[i] = e[i]
  BY <1>4, <1>6
<1>8. d = e
  BY <1>4, <1>6, <1>7, SeqEqual
<1> QED
  BY <1>1, <1>2, <1>3, <1>5, <1>8

\* A part of a sequence of bytes.
LEMMA PartOf ==
    ASSUME NEW r \in Seq(Byte), NEW i \in 1 .. Len(r) + 1, NEW j \in i - 1 .. Len(r)
    PROVE  SubSeq(r, i, j) \in Seq(Byte) /\ Len(SubSeq(r, i, j)) = j + 1 - i
<1>1. PICK N \in Nat : N = Len(r) /\ \A k \in 1 .. N : r[k] \in Byte
  BY BytesOf
<1>2. \A k \in i .. j : k \in 1 .. N
  BY <1>1
<1>3. \A k \in i .. j : r[k] \in Byte
  BY <1>1, <1>2
<1>4. PICK d : d = SubSeq(r, i, j)
  OBVIOUS
<1>5. d \in Seq(Byte) /\ Len(d) = IF i <= j THEN j - i + 1 ELSE 0
  BY <1>3, <1>4, SubSeqProperties
<1>6. Len(d) = j + 1 - i
  BY <1>1, <1>5
<1> QED
  BY <1>4, <1>5, <1>6

\* The bytes of a string of the body are those that encoding it gives.
LEMMA StringBack ==
    ASSUME NEW r \in Seq(Byte), Len(r) >= 2, NEW v, v = ReadU16(r), 2 + v <= Len(r)
    PROVE  Utf(SubSeq(r, 3, 2 + v)) = SubSeq(r, 1, 2 + v)
<1>1. v \in Nat /\ v <= 65535 /\ U16(v) = <<r[1], r[2]>>
  BY TwoBytesBack
<1>2. v % 65536 = v
  BY <1>1
<1>3. Len(SubSeq(r, 3, 2 + v)) = v
  <2>1. 3 \in 1 .. Len(r) + 1 /\ 2 + v \in 3 - 1 .. Len(r) /\ (2 + v) + 1 - 3 = v
    BY <1>1
  <2> QED
    BY <2>1, PartOf
<1>4. Utf(SubSeq(r, 3, 2 + v)) = SubSeq(r, 1, 2) \o SubSeq(r, 3, 2 + v)
  <2>1. PICK p : p = SubSeq(r, 3, 2 + v)
    OBVIOUS
  <2>2. PICK n \in Nat : n = v /\ n % 65536 = n
    BY <1>1
  <2>3. Len(p) = n
    BY <1>3, <2>1, <2>2
  <2>4. Len(p) % 65536 = v
    BY <2>2, <2>3
  <2>5. U16(v) = SubSeq(r, 1, 2)
    BY <1>1, FirstTwo
  <2>6. U16(Len(p) % 65536) = SubSeq(r, 1, 2)
    BY <2>4, <2>5
  <2>7. PICK h : h = SubSeq(r, 1, 2)
    OBVIOUS
  <2>8. U16(Len(p) % 65536) = h
    BY <2>6, <2>7
  <2>9. Utf(p) = h \o p
    BY <2>8 DEF Utf
  <2>10. Utf(p) = SubSeq(r, 1, 2) \o p
    BY <2>7, <2>9
  <2> QED
    BY <2>1, <2>10
<1>5. 1 \in 1 .. Len(r) + 1 /\ 2 \in 1 - 1 .. Len(r) /\ 2 + v \in 2 .. Len(r) /\ 2 + 1 = 3
  BY <1>1
<1>6. SubSeq(r, 1, 2) \o SubSeq(r, 2 + 1, 2 + v) = SubSeq(r, 1, 2 + v)
  BY <1>5, ConcatAdjacentSubSeq
<1> QED
  BY <1>4, <1>5, <1>6

\* What encoding items gives.
ItemPiece(item, extra) == Utf(item.string) \o IF extra = 1 THEN <<item.code>> ELSE <<>>
ItemPieces(items, extra) == [i \in 1 .. Len(items) |-> ItemPiece(items[i], extra)]

\* An item that was read encodes to the bytes it was read from.
LEMMA PieceBack ==
    ASSUME NEW b \in Seq(Byte), NEW pos \in 1 .. Len(b) + 1, NEW extra \in 0 .. 1,
           ~ItemCut(b, pos, extra)
    PROVE  ItemPiece(ItemAt(b, pos, extra), extra)
             = SubSeq(Rest(b, pos), 1, ItemSize(b, pos, extra))
<1>1. PICK r \in Seq(Byte) : r = Rest(b, pos)
  BY RestIs
<1>2. PICK N \in Nat : N = Len(r)
  OBVIOUS
<1>3. N >= 2
  BY <1>1, <1>2 DEF ItemCut
<1>4. PICK v \in Nat : v = ReadU16(r)
  BY <1>2, <1>3, TwoBytesBack
<1>5. PICK size \in Nat : size = ItemSize(b, pos, extra) /\ size = 2 + v + extra /\ size <= N
  BY <1>1, <1>2, <1>4 DEF ItemSize, ItemCut
<1>6. size - extra = 2 + v /\ 2 + v <= N
  BY <1>5
<1>7. Utf(SubSeq(r, 3, 2 + v)) = SubSeq(r, 1, 2 + v)
  BY <1>2, <1>3, <1>4, <1>6, StringBack
<1>8. ItemPiece(ItemAt(b, pos, extra), extra)
        = SubSeq(r, 1, 2 + v) \o IF extra = 1 THEN <<r[size]>> ELSE <<>>
  BY <1>1, <1>5, <1>6, <1>7 DEF ItemPiece, ItemAt
<1>9. CASE extra = 1
  <2>1. 1 \in 1 .. Len(r) /\ size \in 1 .. Len(r) /\ size - 1 = 2 + v
    BY <1>2, <1>5, <1>9
  <2>2. SubSeq(r, 1, size) = SubSeq(r, 1, size - 1) \o <<r[size]>>
    BY <2>1, SubSeqRecursiveSecond
  <2> QED
    BY <1>1, <1>5, <1>8, <1>9, <2>1, <2>2
<1>10. CASE extra # 1
  <2>1. size = 2 + v
    BY <1>5, <1>10
  <2>2. SubSeq(r, 1, 2 + v) \in Seq(Byte)
    <3>1. 1 \in 1 .. Len(r) + 1 /\ 2 + v \in 1 - 1 .. Len(r)
      BY <1>2, <1>6
    <3> QED
      BY <3>1, PartOf
  <2>3. SubSeq(r, 1, 2 + v) \o <<>> = SubSeq(r, 1, 2 + v)
    BY <2>2, ConcatEmptySeq
  <2> QED
    BY <1>1, <1>5, <1>8, <1>10, <2>1, <2>3
<1> QED
  BY <1>9, <1>10

\* The bytes behind an item.
LEMMA RestOfRest ==
    ASSUME NEW b \in Seq(Byte), NEW pos \in 1 .. Len(b) + 1, NEW size \in Nat,
           size >= 1, size <= Len(Rest(b, pos))
    PROVE  /\ pos + size \in pos + 1 .. Len(b) + 1
           /\ SubSeq(Rest(b, pos), 1, size) \o Rest(b, pos + size) = Rest(b, pos)
<1>1. PICK N \in Nat : N = Len(b)
  OBVIOUS
<1>2. size <= N + 1 - pos
  BY <1>1, RestIs
<1>3. pos + size \in pos + 1 .. N + 1 /\ pos \in 1 .. N
  BY <1>1, <1>2
<1>4. SubSeq(Rest(b, pos), 1, size) = SubSeq(b, pos, pos + size - 1)
  <2>1. /\ pos \in 1 .. Len(b) /\ Len(b) \in 1 .. Len(b)
        /\ 1 \in 1 .. Len(b) - pos + 1 /\ size \in 1 .. Len(b) - pos + 1
        /\ pos + 1 - 1 = pos
    BY <1>1, <1>2, <1>3
  <2>2. SubSeq(SubSeq(b, pos, Len(b)), 1, size) = SubSeq(b, pos + 1 - 1, pos + size - 1)
    BY <2>1, SubSeqOfSubSeq
  <2> QED
    BY <2>1, <2>2 DEF Rest
<1>5. SubSeq(b, pos, pos + size - 1) \o SubSeq(b, (pos + size - 1) + 1, Len(b))
        = SubSeq(b, pos, Len(b))
  <2>1. /\ pos \in 1 .. Len(b) + 1 /\ pos + size - 1 \in pos - 1 .. Len(b)
        /\ Len(b) \in pos + size - 1 .. Len(b)
    BY <1>1, <1>3
  <2> QED
    BY <2>1, ConcatAdjacentSubSeq
<1>6. (pos + size - 1) + 1 = pos + size
  OBVIOUS
<1> QED
  BY <1>1, <1>3, <1>4, <1>5, <1>6 DEF Rest

-----------------------------------------------------------------------------
(* ... and written again.                                                  *)

\* An element in front of a sequence.
LEMMA Prepended ==
    ASSUME NEW S, NEW x \in S, NEW s \in Seq(S), NEW t, t = <<x>> \o s
    PROVE  /\ t \in Seq(S) /\ Len(t) = Len(s) + 1 /\ t[1] = x
           /\ \A i \in 1 .. Len(s) : t[i + 1] = s[i]
<1>1. PICK h : h = <<x>>
  OBVIOUS
<1>2. h \in Seq(S) /\ Len(h) = 1 /\ h[1] = x
  BY <1>1
<1>3. PICK n \in Nat : n = Len(s)
  OBVIOUS
<1>4. /\ h \o s \in Seq(S) /\ Len(h \o s) = Len(h) + Len(s)
      /\ \A i \in 1 .. Len(h) + Len(s) : (h \o s)[i] = IF i <= Len(h) THEN h[i] ELSE s[i - Len(h)]
  BY <1>2, ConcatProperties
<1>5. t = h \o s
  BY <1>1
<1>6. Len(t) = n + 1
  BY <1>2, <1>3, <1>4, <1>5
<1>7. \A i \in 1 .. n + 1 : t[i] = IF i <= 1 THEN h[i] ELSE s[i - 1]
  BY <1>2, <1>3, <1>4, <1>5
<1>8. t[1] = x
  BY <1>2, <1>7
<1>9. ASSUME NEW i \in 1 .. n PROVE t[i + 1] = s[i]
  <2>1. i + 1 \in 1 .. n + 1 /\ ~(i + 1 <= 1) /\ (i + 1) - 1 = i
    OBVIOUS
  <2> QED
    BY <1>7, <2>1
<1> QED
  BY <1>3, <1>4, <1>5, <1>6, <1>8, <1>9

\* A string encodes to bytes.
LEMMA UtfBytes ==
    ASSUME NEW s \in Seq(Byte)
    PROVE  Utf(s) \in Seq(Byte)
<1>1. PICK n \in Nat : n = Len(s) % 65536 /\ n <= 65535
  <2>1. Len(s) \in Nat
    OBVIOUS
  <2>2. PICK m \in Nat : m = Len(s)
    BY <2>1
  <2>3. (m % 65536) \in Nat /\ (m % 65536) <= 65535
    OBVIOUS
  <2> QED
    BY <2>2, <2>3
<1>2. PICK h : h = U16(n)
  OBVIOUS
<1>3. h \in Seq(Byte)
  BY <1>1, <1>2, TwoBytes
<1>4. h \o s \in Seq(Byte)
  BY <1>3, ConcatProperties
<1>5. U16(Len(s) % 65536) = h
  BY <1>1, <1>2
<1>6. Utf(s) = h \o s
  BY <1>5 DEF Utf
<1> QED
  BY <1>4, <1>6

\* Items none of which is cut off, and the bytes they encode to.
OkItem == [ok : {TRUE}, string : Seq(Byte), code : Byte]

\* They are bytes ...
LEMMA PieceBytes ==
    ASSUME NEW item \in OkItem, NEW extra \in 0 .. 1
    PROVE  ItemPiece(item, extra) \in Seq(Byte)
<1>1. item.string \in Seq(Byte) /\ item.code \in Byte
  BY DEF OkItem
<1>2. PICK c : c = IF extra = 1 THEN <<item.code>> ELSE <<>>
  OBVIOUS
<1>3. c \in Seq(Byte)
  BY <1>1, <1>2
<1>4. PICK u \in Seq(Byte) : u = Utf(item.string)
  BY <1>1, UtfBytes
<1>5. u \o c \in Seq(Byte)
  BY <1>3, ConcatProperties
<1> QED
  BY <1>2, <1>4, <1>5 DEF ItemPiece

\* ... for all items.
LEMMA PiecesBytes ==
    ASSUME NEW s \in Seq(OkItem), NEW extra \in 0 .. 1
    PROVE  /\ ItemPieces(s, extra) \in Seq(Seq(Byte)) /\ Len(ItemPieces(s, extra)) = Len(s)
           /\ \A i \in 1 .. Len(s) : ItemPieces(s, extra)[i] = ItemPiece(s[i], extra)
<1>1. PICK n \in Nat : n = Len(s)
  OBVIOUS
<1>2. \A i \in 1 .. n : s[i] \in OkItem
  BY <1>1, ElementOfSeq
<1>3. \A i \in 1 .. n : ItemPiece(s[i], extra) \in Seq(Byte)
  BY <1>2, PieceBytes
<1>4. PICK p : p = [i \in 1 .. n |-> ItemPiece(s[i], extra)]
  OBVIOUS
<1>5. ItemPieces(s, extra) = p
  BY <1>1, <1>4 DEF ItemPieces
<1>6. p \in [1 .. n -> Seq(Byte)] /\ \A i \in 1 .. n : p[i] = ItemPiece(s[i], extra)
  BY <1>3, <1>4
<1>7. p \in Seq(Seq(Byte)) /\ Len(p) = n
  BY <1>6
<1> QED
  BY <1>1, <1>5, <1>6, <1>7

\* One item more in front.
LEMMA PiecesCons ==
    ASSUME NEW x \in OkItem, NEW s \in Seq(OkItem), NEW extra \in 0 .. 1
    PROVE  FlattenSeq(ItemPieces(<<x>> \o s, extra))
             = ItemPiece(x, extra) \o FlattenSeq(ItemPieces(s, extra))
<1>1. PICK n \in Nat : n = Len(s)
  OBVIOUS
<1>2. PICK t : t = <<x>> \o s
  OBVIOUS
<1>3. /\ t \in Seq(OkItem) /\ Len(t) = n + 1 /\ t[1] = x
      /\ \A i \in 1 .. n : t[i + 1] = s[i]
  BY <1>1, <1>2, Prepended
<1>4. PICK p : p = ItemPieces(t, extra)
  OBVIOUS
<1>5. PICK q : q = ItemPieces(s, extra)
  OBVIOUS
<1>6. /\ p \in Seq(Seq(Byte)) /\ Len(p) = n + 1
      /\ \A i \in 1 .. n + 1 : p[i] = ItemPiece(t[i], extra)
  BY <1>3, <1>4, PiecesBytes
<1>7. q \in Seq(Seq(Byte)) /\ Len(q) = n /\ \A i \in 1 .. n : q[i] = ItemPiece(s[i], extra)
  BY <1>1, <1>5, PiecesBytes
<1>8. p[1] = ItemPiece(x, extra)
  BY <1>3, <1>6
<1>9. /\ Tail(p) \in Seq(Seq(Byte)) /\ Len(Tail(p)) = n
      /\ \A i \in 1 .. n : Tail(p)[i] = p[i + 1]
  <2>1. Len(p) >= 1 /\ Len(p) - 1 = n
    BY <1>6
  <2> QED
    BY <1>6, <2>1, TailOf
<1>10. ASSUME NEW i \in 1 .. n PROVE Tail(p)[i] = q[i]
  <2>1. i + 1 \in 1 .. n + 1
    OBVIOUS
  <2>2. Tail(p)[i] = p[i + 1] /\ p[i + 1] = ItemPiece(t[i + 1], extra) /\ t[i + 1] = s[i]
    BY <1>3, <1>6, <1>9, <2>1
  <2>3. q[i] = ItemPiece(s[i], extra)
    BY <1>7
  <2> QED
    BY <2>2, <2>3
<1>11. Tail(p) = q
  <2>1. \A i \in 1 .. Len(Tail(p)) : Tail(p)[i] = q[i]
    BY <1>9, <1>10
  <2> QED
    BY <1>7, <1>9, <2>1, SeqEqual
<1>12. FlattenSeq(p) = p[1] \o FlattenSeq(Tail(p))
  <2>1. Len(p) >= 1
    BY <1>6
  <2> QED
    BY <1>6, <2>1, FlattenCons
<1> QED
  BY <1>2, <1>4, <1>5, <1>8, <1>11, <1>12

\* No items take no bytes.
LEMMA NoPieces == ASSUME NEW extra PROVE FlattenSeq(ItemPieces(<<>>, extra)) = <<>>
<1>1. ItemPieces(<<>>, extra) = <<>>
  BY DEF ItemPieces
<1> QED
  BY <1>1 DEF FlattenSeq

\* Items that are all there encode to the bytes they were found in.
LEMMA ItemsBack ==
    ASSUME NEW b \in Seq(Byte), NEW extra \in 0 .. 1, NEW items, items = Items(b, extra),
           WellFormed(items)
    PROVE  items \in Seq(OkItem) /\ FlattenSeq(ItemPieces(items, extra)) = b
<1>1. PICK N \in Nat : N = Len(b)
  OBVIOUS
<1>2. PICK f : /\ items = f[1]
               /\ \A pos \in 1 .. Len(b) + 1 : f[pos] = ItemStep(b, extra, f, pos)
  BY ItemsTable
<1> DEFINE Good(pos) ==
             /\ f[pos] \in Seq(Item)
             /\ WellFormed(f[pos]) =>
                  f[pos] \in Seq(OkItem) /\ FlattenSeq(ItemPieces(f[pos], extra)) = Rest(b, pos)
           T == {pos \in 1 .. N + 1 : Good(pos)}
<1>3. N + 1 \in T
  <2>1. N + 1 \in 1 .. Len(b) + 1 /\ N + 1 = Len(b) + 1
    BY <1>1
  <2>2. Rest(b, N + 1) = <<>>
    BY <2>1, RestIs
  <2>3. f[N + 1] = <<>>
    BY <1>2, <2>1, <2>2 DEF ItemStep
  <2>4. <<>> \in Seq(OkItem) /\ <<>> \in Seq(Item)
    OBVIOUS
  <2>5. Good(N + 1)
    BY <2>2, <2>3, <2>4, NoPieces
  <2> QED
    BY <2>5
<1>4. ASSUME NEW pos \in 1 .. N, (pos + 1 .. N + 1) \subseteq T PROVE pos \in T
  <2>1. pos \in 1 .. Len(b) + 1 /\ pos # Len(b) + 1 /\ pos \in 1 .. N + 1
    BY <1>1
  <2>2. Rest(b, pos) # <<>> /\ f[pos] = ItemStep(b, extra, f, pos)
    BY <1>2, <2>1, RestIs
  <2>3. CASE ItemCut(b, pos, extra)
    <3>1. PICK it : it = [ok |-> FALSE]
      OBVIOUS
    <3>2. f[pos] = <<it>>
      BY <2>2, <2>3, <3>1 DEF ItemStep
    <3>3. 1 \in DOMAIN <<it>> /\ <<it>>[1] = it /\ it.ok = FALSE
      BY <3>1
    <3>4. ~WellFormed(f[pos])
      BY <3>2, <3>3 DEF WellFormed
    <3>5. it \in Item
      BY <3>1 DEF Item
    <3>6. <<it>> \in Seq(Item)
      BY <3>5
    <3> QED
      BY <2>1, <3>2, <3>4, <3>6
  <2>4. CASE ~ItemCut(b, pos, extra)
    <3>1. PICK it : it = ItemAt(b, pos, extra)
      OBVIOUS
    <3>2. PICK size \in Nat : /\ size = ItemSize(b, pos, extra) /\ size >= 2
                              /\ pos + size \in pos + 1 .. Len(b) + 1
      BY <2>1, <2>4, ItemBounds
    <3>3. it \in OkItem
      <4>1. it \in Item /\ it.ok = TRUE
        BY <2>1, <2>4, <3>1, ItemBounds DEF ItemAt
      <4> QED
        BY <4>1 DEF Item, OkItem
    <3>4. PICK s : s = f[pos + size]
      OBVIOUS
    <3>5. f[pos] = <<it>> \o s
      BY <2>2, <2>4, <3>1, <3>2, <3>4 DEF ItemStep
    <3>6. pos + size \in T
      BY <1>1, <1>4, <3>2
    <3>7. s \in Seq(Item)
      BY <3>4, <3>6
    <3>8. it \in Item
      BY <3>3 DEF Item, OkItem
    <3>9. f[pos] \in Seq(Item)
      BY <3>5, <3>7, <3>8, Prepended
    <3> SUFFICES ASSUME WellFormed(f[pos])
                 PROVE  f[pos] \in Seq(OkItem)
                        /\ FlattenSeq(ItemPieces(f[pos], extra)) = Rest(b, pos)
      BY <2>1, <3>9
    <3>10. WellFormed(s)
      <4>1. /\ f[pos] \in Seq(Item) /\ Len(f[pos]) = Len(s) + 1
            /\ \A i \in 1 .. Len(s) : f[pos][i + 1] = s[i]
        BY <3>5, <3>7, <3>8, Prepended
      <4>2. PICK n \in Nat : n = Len(s) /\ DOMAIN s = 1 .. n /\ DOMAIN f[pos] = 1 .. n + 1
        BY <3>7, <4>1
      <4>3. ASSUME NEW i \in 1 .. n PROVE s[i].ok
        <5>1. i + 1 \in DOMAIN f[pos] /\ f[pos][i + 1] = s[i]
          BY <4>1, <4>2
        <5> QED
          BY <5>1 DEF WellFormed
      <4> QED
        BY <4>2, <4>3 DEF WellFormed
    <3>11. s \in Seq(OkItem) /\ FlattenSeq(ItemPieces(s, extra)) = Rest(b, pos + size)
      BY <3>4, <3>6, <3>10
    <3>12. f[pos] \in Seq(OkItem)
      BY <3>3, <3>5, <3>11, Prepended
    <3>13. FlattenSeq(ItemPieces(f[pos], extra))
             = SubSeq(Rest(b, pos), 1, size) \o Rest(b, pos + size)
      BY <2>1, <2>4, <3>1, <3>2, <3>3, <3>5, <3>11, PiecesCons, PieceBack
    <3>14. size >= 1 /\ size <= Len(Rest(b, pos))
      <4>1. Len(Rest(b, pos)) = Len(b) + 1 - pos
        BY <2>1, RestIs
      <4> QED
        BY <1>1, <2>1, <3>2, <4>1
    <3> QED
      BY <2>1, <3>12, <3>13, <3>14, RestOfRest
  <2> QED
    BY <2>3, <2>4
<1> HIDE DEF T
<1>5. 1 .. N + 1 \subseteq T
  BY <1>3, <1>4, FromTheEnd
<1>6. 1 \in T /\ 1 \in 1 .. Len(b) + 1
  BY <1>1, <1>5
<1>7. Rest(b, 1) = b
  BY SubSeqFull DEF Rest
<1> QED
  BY <1>2, <1>6, <1>7 DEF T

-----------------------------------------------------------------------------
(* What was accepted encodes to the same bytes.                            *)

\* What a length can say at most.
LEMMA LengthFits ==
    ASSUME NEW b \in Seq(Byte), NEW n, LengthEnds(b, n)
    PROVE  LengthValue(b, n) <= MaxRemaining
<1>1. PICK N \in Nat : N = Len(b) /\ \A i \in 1 .. N : b[i] \in 0 .. 255
  BY BytesOf
<1>2. n \in 1 .. 4 /\ n <= N
  BY <1>1 DEF LengthEnds
<1>3. ASSUME NEW i \in 1 .. 4, NEW w \in Nat, w = Weight[i]
      PROVE  LengthPart(b, n, i) \in Nat /\ LengthPart(b, n, i) <= 127 * w
  <2>1. CASE i <= n
    <3>1. i \in 1 .. N
      BY <1>2, <2>1
    <3>2. PICK x \in 0 .. 255 : x = b[i]
      BY <1>1, <3>1
    <3>3. PICK y \in Nat : y = x % 128 /\ y <= 127
      BY <3>2
    <3>4. y * w \in Nat /\ y * w <= 127 * w
      BY <3>3
    <3> QED
      BY <1>3, <2>1, <3>2, <3>3, <3>4 DEF LengthPart
  <2>2. CASE ~(i <= n)
    BY <1>3, <2>2 DEF LengthPart
  <2> QED
    BY <2>1, <2>2
<1>4. LengthPart(b, n, 1) \in Nat /\ LengthPart(b, n, 1) <= 127 * 1
  BY <1>3, Weights, SMT
<1>5. LengthPart(b, n, 2) \in Nat /\ LengthPart(b, n, 2) <= 127 * 128
  BY <1>3, Weights, SMT
<1>6. LengthPart(b, n, 3) \in Nat /\ LengthPart(b, n, 3) <= 127 * 16384
  BY <1>3, Weights, SMT
<1>7. LengthPart(b, n, 4) \in Nat /\ LengthPart(b, n, 4) <= 127 * 2097152
  BY <1>3, Weights, SMT
<1> QED
  BY <1>4, <1>5, <1>6, <1>7, SMT DEF LengthValue, MaxRemaining

\* A packet that encodes to a body and a first byte, but for DUP.
Reencoded(p, first, body) ==
    \E t \in Byte : /\ t \div 16 \in 1 .. 14 /\ LegalFlags(t \div 16, t % 16)
                    /\ Encoded(p) = BuildPacket(t, body) /\ first = t + Bit(p.dup, 8)

\* An identifier and what follows it.
LEMMA IdBack ==
    ASSUME NEW c \in Seq(Byte), Len(c) >= 2
    PROVE  /\ U16(ReadU16(c)) \o AfterId(c) = c
           /\ AfterId(c) \in Seq(Byte) /\ Len(AfterId(c)) = Len(c) - 2
           /\ Len(c) = 2 => U16(ReadU16(c)) = c
<1>1. PICK N \in Nat : N = Len(c) /\ N >= 2
  OBVIOUS
<1>2. U16(ReadU16(c)) = SubSeq(c, 1, 2)
  BY FirstTwo, TwoBytesBack
<1>3. SubSeq(c, 1, Len(c)) = c
  BY SubSeqFull
<1>4. SubSeq(c, 1, 2) \o SubSeq(c, 2 + 1, Len(c)) = SubSeq(c, 1, Len(c))
  <2>1. 1 \in 1 .. Len(c) + 1 /\ 2 \in 1 - 1 .. Len(c) /\ Len(c) \in 2 .. Len(c)
    BY <1>1
  <2> QED
    BY <2>1, ConcatAdjacentSubSeq
<1>5. SubSeq(c, 3, Len(c)) \in Seq(Byte) /\ Len(SubSeq(c, 3, Len(c))) = Len(c) - 2
  <2>1. 3 \in 1 .. Len(c) + 1 /\ Len(c) \in 3 - 1 .. Len(c) /\ Len(c) + 1 - 3 = Len(c) - 2
    BY <1>1
  <2> QED
    BY <2>1, PartOf
<1>6. 2 + 1 = 3
  OBVIOUS
<1>7. Len(c) = 2 => U16(ReadU16(c)) = c
  BY <1>2, <1>3
<1>8. U16(ReadU16(c)) \o AfterId(c) = c
  BY <1>2, <1>3, <1>4, <1>6 DEF AfterId
<1> QED
  BY <1>5, <1>7, <1>8 DEF AfterId

\* The first byte of a packet with no flags but those of its type.
LEMMA PlainHead ==
    ASSUME NEW first \in Byte, NEW type, type \in {4, 8, 10, 12, 14}, first \div 16 = type,
           LegalFlags(type, first % 16)
    PROVE  first = 16 * type + IF type \in {8, 10} THEN 2 ELSE 0
<1>1. PICK x \in 0 .. 255 : x = first
  BY DEF Byte
<1>2. x % 16 = IF type \in {8, 10} THEN 2 ELSE 0
  BY <1>1 DEF LegalFlags, PUBLISH, PUBREL, SUBSCRIBE, UNSUBSCRIBE
<1>3. x = 16 * (x \div 16) + (x % 16)
  OBVIOUS
<1> QED
  BY <1>1, <1>2, <1>3

\* An acknowledgement that was accepted.
LEMMA AckBack ==
    ASSUME NEW first \in Byte, first \div 16 = PUBACK, LegalFlags(PUBACK, first % 16),
           NEW c \in Seq(Byte), NEW p, DecodeAck(c, PUBACK) # <<>>, p = DecodeAck(c, PUBACK)[1]
    PROVE  Reencoded(p, first, c)
<1>1. Len(c) = 2 /\ p = [Blank(PUBACK) EXCEPT !.packetId = ReadU16(c)]
  BY DEF DecodeAck, Check
<1>2. p.type = 4 /\ p.dup = FALSE /\ p.packetId = ReadU16(c)
  BY <1>1 DEF Blank, PUBACK
<1>3. U16(ReadU16(c)) = c
  <2>1. Len(c) >= 2
    BY <1>1
  <2> QED
    BY <1>1, <2>1, IdBack
<1>4. first = 64
  BY PlainHead DEF PUBACK
<1>5. Encoded(p) = BuildPacket(16 * PUBACK, c)
  BY <1>2, <1>3 DEF Encoded, EncodePuback, PUBLISH, PUBACK, SUBSCRIBE, UNSUBSCRIBE, PINGREQ,
                    DISCONNECT
<1>6. Bit(p.dup, 8) = 0 /\ 16 * PUBACK = 64
  BY <1>2 DEF Bit, PUBACK
<1> QED
  BY <1>4, <1>5, <1>6 DEF Reencoded, PUBACK

\* A signal that was accepted.
LEMMA SignalBack ==
    ASSUME NEW type \in {PINGREQ, DISCONNECT},
           NEW first \in Byte, first \div 16 = type, LegalFlags(type, first % 16),
           NEW c \in Seq(Byte), NEW p, DecodeNoPayload(c, type) # <<>>,
           p = DecodeNoPayload(c, type)[1]
    PROVE  Reencoded(p, first, c)
<1>1. c = <<>> /\ p = Blank(type)
  BY DEF DecodeNoPayload, Check
<1>2. p.type = type /\ p.dup = FALSE /\ type \in {12, 14}
  BY <1>1 DEF Blank, PINGREQ, DISCONNECT
<1>3. first = 16 * type
  BY <1>2, PlainHead
<1>4. Encoded(p) = BuildPacket(16 * type, c)
  BY <1>1, <1>2 DEF Encoded, EncodePingreq, EncodeDisconnect, PUBLISH, PUBACK, SUBSCRIBE,
                    UNSUBSCRIBE, PINGREQ, DISCONNECT
<1>5. Bit(p.dup, 8) = 0
  BY <1>2 DEF Bit
<1>6. PICK t \in 0 .. 255 : t = 16 * type /\ t = first /\ first = t + 0 /\ t \div 16 = type
  BY <1>2, <1>3
<1>7. t \in Byte /\ t \div 16 \in 1 .. 14 /\ LegalFlags(t \div 16, t % 16)
  BY <1>2, <1>6 DEF Byte
<1> QED
  BY <1>4, <1>5, <1>6, <1>7 DEF Reencoded

\* A SUBSCRIBE that was accepted: its items, each with a quality of service.
LEMMA SubscribeBack ==
    ASSUME NEW first \in Byte, first \div 16 = SUBSCRIBE, LegalFlags(SUBSCRIBE, first % 16),
           NEW c \in Seq(Byte), NEW p, DecodeSubscribe(c) # <<>>, p = DecodeSubscribe(c)[1]
    PROVE  Reencoded(p, first, c)
<1>1. PICK items : items = Items(AfterId(c), 1)
  OBVIOUS
<1>2. /\ Len(c) >= 6 /\ WellFormed(items) /\ \A i \in DOMAIN items : items[i].code <= 2
      /\ p = [Blank(SUBSCRIBE) EXCEPT
                !.packetId = ReadU16(c), !.topics = Strings(items),
                !.payload = [i \in DOMAIN items |-> items[i].code]]
  BY <1>1 DEF DecodeSubscribe, Check
<1>3. Len(c) >= 2
  BY <1>2
<1>4. AfterId(c) \in Seq(Byte) /\ U16(ReadU16(c)) \o AfterId(c) = c
  BY <1>3, IdBack
<1>5. items \in Seq(OkItem) /\ FlattenSeq(ItemPieces(items, 1)) = AfterId(c)
  BY <1>1, <1>2, <1>4, ItemsBack
<1>6. PICK n \in Nat : n = Len(items) /\ DOMAIN items = 1 .. n
  BY <1>5
<1>7. /\ p.type = 8 /\ p.dup = FALSE /\ p.packetId = ReadU16(c)
      /\ p.topics = [i \in 1 .. n |-> items[i].string]
      /\ p.payload = [i \in 1 .. n |-> items[i].code]
  BY <1>2, <1>6 DEF Blank, Strings, SUBSCRIBE
<1>8. PICK topics : topics = [i \in 1 .. n |-> [topic |-> items[i].string, qos |-> items[i].code]]
  OBVIOUS
<1>9. [i \in DOMAIN p.topics |-> [topic |-> p.topics[i], qos |-> p.payload[i]]] = topics
  BY <1>7, <1>8
<1>10. ASSUME NEW i \in 1 .. n
       PROVE  Utf(topics[i].topic) \o <<topics[i].qos % 4>> = ItemPiece(items[i], 1)
  <2>1. items[i] \in OkItem /\ items[i].code <= 2
    BY <1>2, <1>5, <1>6
  <2>2. items[i].code \in 0 .. 255
    BY <2>1 DEF OkItem, Byte
  <2>3. PICK z \in 0 .. 255 : z = items[i].code
    BY <2>2
  <2>4. z <= 2
    BY <2>1, <2>3, Zenon
  <2>5. z \in 0 .. 2
    BY <2>4
  <2>6. PICK x \in 0 .. 2 : x = items[i].code
    BY <2>3, <2>5
  <2>7. topics[i].topic = items[i].string /\ topics[i].qos = x
    BY <1>8, <2>6
  <2>8. x % 4 = x
    OBVIOUS
  <2> QED
    BY <2>6, <2>7, <2>8 DEF ItemPiece
<1>11. [i \in DOMAIN topics |-> Utf(topics[i].topic) \o <<topics[i].qos % 4>>] = ItemPieces(items, 1)
  <2>1. DOMAIN topics = 1 .. n
    BY <1>8
  <2> QED
    BY <1>6, <1>10, <2>1 DEF ItemPieces
<1>12. EncodeSubscribe(ReadU16(c), topics) = BuildPacket(16 * SUBSCRIBE + 2, c)
  BY <1>4, <1>5, <1>11 DEF EncodeSubscribe
<1>13. Encoded(p) = BuildPacket(16 * SUBSCRIBE + 2, c)
  <2>1. p.type = 8 /\ p.packetId = ReadU16(c)
    BY <1>7
  <2>2. Encoded(p) = EncodeSubscribe(p.packetId,
                         [i \in DOMAIN p.topics |-> [topic |-> p.topics[i], qos |-> p.payload[i]]])
    BY <2>1 DEF Encoded, PUBLISH, PUBACK, SUBSCRIBE, UNSUBSCRIBE, PINGREQ, DISCONNECT
  <2> QED
    BY <1>9, <1>12, <2>1, <2>2
<1>14. Bit(p.dup, 8) = 0 /\ 16 * SUBSCRIBE + 2 = 130
  BY <1>7 DEF Bit, SUBSCRIBE
<1>15. first = 130
  BY PlainHead DEF SUBSCRIBE
<1> QED
  BY <1>13, <1>14, <1>15 DEF Reencoded, SUBSCRIBE

\* An UNSUBSCRIBE that was accepted.
LEMMA UnsubscribeBack ==
    ASSUME NEW first \in Byte, first \div 16 = UNSUBSCRIBE, LegalFlags(UNSUBSCRIBE, first % 16),
           NEW c \in Seq(Byte), NEW p, DecodeUnsubscribe(c) # <<>>, p = DecodeUnsubscribe(c)[1]
    PROVE  Reencoded(p, first, c)
<1>1. PICK items : items = Items(AfterId(c), 0)
  OBVIOUS
<1>2. /\ Len(c) >= 5 /\ WellFormed(items)
      /\ p = [Blank(UNSUBSCRIBE) EXCEPT !.packetId = ReadU16(c), !.topics = Strings(items)]
  BY <1>1 DEF DecodeUnsubscribe, Check
<1>3. Len(c) >= 2
  BY <1>2
<1>4. AfterId(c) \in Seq(Byte) /\ U16(ReadU16(c)) \o AfterId(c) = c
  BY <1>3, IdBack
<1>5. items \in Seq(OkItem) /\ FlattenSeq(ItemPieces(items, 0)) = AfterId(c)
  BY <1>1, <1>2, <1>4, ItemsBack
<1>6. PICK n \in Nat : n = Len(items) /\ DOMAIN items = 1 .. n
  BY <1>5
<1>7. /\ p.type = 10 /\ p.dup = FALSE /\ p.packetId = ReadU16(c)
      /\ p.topics = [i \in 1 .. n |-> items[i].string]
  BY <1>2, <1>6 DEF Blank, Strings, UNSUBSCRIBE
<1>8. PICK topics : topics = [i \in 1 .. n |-> items[i].string]
  OBVIOUS
<1>9. ASSUME NEW i \in 1 .. n PROVE Utf(topics[i]) = ItemPiece(items[i], 0)
  <2>1. items[i] \in OkItem
    BY <1>5, <1>6
  <2>2. Utf(items[i].string) \in Seq(Byte)
    BY <2>1, UtfBytes DEF OkItem
  <2>3. Utf(items[i].string) \o <<>> = Utf(items[i].string)
    BY <2>2, ConcatEmptySeq
  <2>4. topics[i] = items[i].string
    BY <1>8
  <2> QED
    BY <2>3, <2>4 DEF ItemPiece
<1>10. [i \in DOMAIN topics |-> Utf(topics[i])] = ItemPieces(items, 0)
  <2>1. DOMAIN topics = 1 .. n
    BY <1>8
  <2> QED
    BY <1>6, <1>9, <2>1 DEF ItemPieces
<1>11. EncodeUnsubscribe(ReadU16(c), topics) = BuildPacket(16 * UNSUBSCRIBE + 2, c)
  BY <1>4, <1>5, <1>10 DEF EncodeUnsubscribe
<1>12. Encoded(p) = BuildPacket(16 * UNSUBSCRIBE + 2, c)
  BY <1>7, <1>8, <1>11 DEF Encoded, PUBLISH, PUBACK, SUBSCRIBE, UNSUBSCRIBE, PINGREQ, DISCONNECT
<1>13. Bit(p.dup, 8) = 0 /\ 16 * UNSUBSCRIBE + 2 = 162
  BY <1>7 DEF Bit, UNSUBSCRIBE
<1>14. first = 162
  BY PlainHead DEF UNSUBSCRIBE
<1> QED
  BY <1>12, <1>13, <1>14 DEF Reencoded, UNSUBSCRIBE

\* The first byte of a publish: its type, its quality of service q, its retain bit r
\* and its duplicate bit d, the last added to what the other three make.
PublishFirstIs(first, q, r, d) ==
    /\ q \in 0 .. 2 /\ r \in 0 .. 1 /\ d \in {0, 8}
    /\ first = (48 + 2 * (q % 4) + r) + d
    /\ (48 + 2 * (q % 4) + r) \div 16 = 3
    /\ (((48 + 2 * (q % 4) + r) % 16) \div 2) % 4 = q

\* A first byte is made of the fields that are read from it.
LEMMA PublishFirst ==
    ASSUME NEW first \in Byte, first \div 16 = PUBLISH, NEW f, f = first % 16,
           NEW q, q = (f \div 2) % 4, NEW r, r = Bit(f % 2 = 1, 1), NEW d, d = Bit(f \div 8 = 1, 8),
           q # 3
    PROVE  PublishFirstIs(first, q, r, d)
<1>1. PICK x \in 0 .. 255 : x = first
  BY DEF Byte
<1>2. x \div 16 = 3 /\ f = x % 16
  BY <1>1 DEF PUBLISH
<1>3. PICK y \in 0 .. 15 : y = f /\ x = 48 + y
  BY <1>2
<1>4. q \in 0 .. 2 /\ q = (y \div 2) % 4
  BY <1>3
<1>5. r \in 0 .. 1 /\ r = y % 2
  BY <1>3 DEF Bit
<1>6. d \in {0, 8} /\ (d = 8 <=> y \div 8 = 1)
  BY <1>3 DEF Bit
<1>7. y = 2 * q + r + d
  <2>1. PICK z \in 0 .. 7 : z = y \div 2 /\ y = 2 * z + (y % 2)
    OBVIOUS
  <2>2. y \div 8 = z \div 4
    BY <2>1
  <2>3. z = 4 * (z \div 4) + (z % 4) /\ z \div 4 \in 0 .. 1
    OBVIOUS
  <2>4. d = 8 * (z \div 4)
    BY <1>6, <2>2, <2>3
  <2>5. PICK w \in 0 .. 1, m \in 0 .. 3 : w = z \div 4 /\ m = z % 4 /\ z = 4 * w + m
    OBVIOUS
  <2>6. q = m
    BY <1>4, <2>1, <2>5
  <2>7. y = 2 * (4 * w + m) + r
    BY <1>5, <2>1, <2>5
  <2>8. d = 8 * w
    BY <2>4, <2>5
  <2>9. PICK g \in 0 .. 1 : g = r
    BY <1>5
  <2>10. y = 2 * m + g + 8 * w
    BY <2>7, <2>9
  <2> QED
    BY <2>6, <2>8, <2>9, <2>10
<1>8. q % 4 = q
  BY <1>4
<1>9. (48 + 2 * q + r) \div 16 = 3 /\ (((48 + 2 * q + r) % 16) \div 2) % 4 = q
  <2>1. PICK a \in 0 .. 2 : a = q
    BY <1>4
  <2>2. PICK g \in 0 .. 1 : g = r
    BY <1>5
  <2>3. (48 + 2 * a + g) \div 16 = 3 /\ (48 + 2 * a + g) % 16 = 2 * a + g
    OBVIOUS
  <2>4. (2 * a + g) \div 2 = a /\ a % 4 = a
    OBVIOUS
  <2> QED
    BY <2>1, <2>2, <2>3, <2>4
<1> QED
  <2>1. first = (48 + 2 * q + r) + d
    BY <1>1, <1>3, <1>4, <1>5, <1>6, <1>7
  <2> QED
    BY <1>4, <1>5, <1>6, <1>8, <1>9, <2>1 DEF PublishFirstIs

\* A publish and the body it was found in: the topic and its length end at `size`,
\* the identifier, if there is one, at `head`.
PublishIs(c, f, q, p, size, head) ==
    /\ Len(c) >= 2 /\ size = 2 + ReadU16(c) /\ size <= head /\ head <= Len(c)
    /\ p.type = 3 /\ p.qos = q /\ p.dup = (f \div 8 = 1) /\ p.retain = (f % 2 = 1)
    /\ p.topic = SubSeq(c, 3, size) /\ p.payload = SubSeq(c, head + 1, Len(c))
    /\ Field(q > 0, U16(p.packetId)) = SubSeq(c, size + 1, head)

\* A publish that was accepted was found so.
LEMMA PublishFound ==
    ASSUME NEW c \in Seq(Byte), NEW f, NEW q \in 0 .. 2, q = (f \div 2) % 4,
           NEW p, DecodePublish(c, f) # <<>>, p = DecodePublish(c, f)[1]
    PROVE  \E size \in Nat, head \in Nat : PublishIs(c, f, q, p, size, head)
<1>1. PICK k : k = Bit(q > 0, 2)
  OBVIOUS
<1>2. PICK v : v = ReadU16(c)
  OBVIOUS
<1>3. PICK id : id = IF q > 0 THEN ReadU16(SubSeq(c, (2 + v) + 1, (2 + v) + k)) ELSE 0
  OBVIOUS
<1>4. PICK d : d = (f \div 8 = 1)
  OBVIOUS
<1>5. PICK r : r = (f % 2 = 1)
  OBVIOUS
<1>6. /\ Len(c) >= 2 /\ Len(c) >= (2 + v) + k
      /\ p = [Blank(PUBLISH) EXCEPT
                  !.dup = d, !.qos = q, !.retain = r, !.packetId = id,
                  !.topic = SubSeq(c, 3, 2 + v), !.payload = SubSeq(c, ((2 + v) + k) + 1, Len(c))]
  BY <1>1, <1>2, <1>3, <1>4, <1>5 DEF DecodePublish, Check
<1>7. v \in Nat
  BY <1>2, <1>6, TwoBytesBack
<1>8. PICK size \in Nat : size = 2 + v
  BY <1>7
<1>9. k \in {0, 2} /\ (k = 2 <=> q > 0)
  BY <1>1 DEF Bit
<1>10. PICK head \in Nat : head = size + k
  BY <1>9
<1>11. Len(c) \in Nat /\ size >= 2 /\ size <= head /\ head <= Len(c)
  BY <1>6, <1>7, <1>8, <1>9, <1>10
<1>12. /\ p.type = 3 /\ p.qos = q /\ p.dup = d /\ p.retain = r /\ p.packetId = id
       /\ p.topic = SubSeq(c, 3, size) /\ p.payload = SubSeq(c, head + 1, Len(c))
  BY <1>6, <1>8, <1>10 DEF Blank, PUBLISH
<1>13. Field(q > 0, U16(id)) = SubSeq(c, size + 1, head)
  <2>1. CASE q > 0
    <3>1. PICK m : m = SubSeq(c, size + 1, head)
      OBVIOUS
    <3>2. head = size + 2
      BY <1>9, <1>10, <2>1
    <3>3. m \in Seq(Byte) /\ Len(m) = 2
      <4>1. /\ size + 1 \in 1 .. Len(c) + 1 /\ head \in (size + 1) - 1 .. Len(c)
            /\ head + 1 - (size + 1) = 2
        BY <1>11, <3>2
      <4> QED
        BY <3>1, <4>1, PartOf
    <3>4. id = ReadU16(m)
      BY <1>3, <1>8, <1>10, <2>1, <3>1
    <3>5. U16(ReadU16(m)) = m
      <4>1. Len(m) >= 2
        BY <3>3
      <4> QED
        BY <3>3, <4>1, IdBack
    <3>6. Field(q > 0, U16(id)) = U16(id)
      BY <2>1 DEF Field
    <3> QED
      BY <3>1, <3>4, <3>5, <3>6
  <2>2. CASE ~(q > 0)
    <3>1. head = size /\ head < size + 1 /\ size + 1 \in Int
      BY <1>9, <1>10, <2>2
    <3>2. SubSeq(c, size + 1, head) = <<>>
      BY <3>1, SubSeqEmpty
    <3>3. Field(q > 0, U16(id)) = <<>>
      BY <2>2 DEF Field
    <3> QED
      BY <3>2, <3>3
  <2> QED
    BY <2>1, <2>2
<1> WITNESS size \in Nat
<1> WITNESS head \in Nat
<1>14. Len(c) >= 2 /\ size = 2 + ReadU16(c) /\ size <= head /\ head <= Len(c)
  BY <1>2, <1>6, <1>8, <1>11
<1>15. Field(q > 0, U16(p.packetId)) = SubSeq(c, size + 1, head)
  BY <1>12, <1>13
<1> QED
  BY <1>4, <1>5, <1>12, <1>14, <1>15 DEF PublishIs

\* An accepted publish encodes to its bytes.
LEMMA PublishBack ==
    ASSUME NEW first \in Byte, first \div 16 = PUBLISH, LegalFlags(PUBLISH, first % 16),
           NEW c \in Seq(Byte), NEW p, DecodePublish(c, first % 16) # <<>>,
           p = DecodePublish(c, first % 16)[1]
    PROVE  Reencoded(p, first, c)
<1>1. PICK f : f = first % 16
  OBVIOUS
<1>2. PICK q : q = (f \div 2) % 4
  OBVIOUS
<1>3. q # 3
  BY <1>1, <1>2 DEF LegalFlags, PUBLISH, PUBREL, SUBSCRIBE, UNSUBSCRIBE
<1>4. PICK r : r = Bit(f % 2 = 1, 1)
  OBVIOUS
<1>5. PICK d : d = Bit(f \div 8 = 1, 8)
  OBVIOUS
<1>6. /\ q \in 0 .. 2 /\ r \in 0 .. 1 /\ d \in {0, 8}
      /\ first = (48 + 2 * (q % 4) + r) + d
      /\ (48 + 2 * (q % 4) + r) \div 16 = 3
      /\ (((48 + 2 * (q % 4) + r) % 16) \div 2) % 4 = q
  <2>1. PublishFirstIs(first, q, r, d)
    BY <1>1, <1>2, <1>3, <1>4, <1>5, PublishFirst, Zenon
  <2> QED
    BY <2>1 DEF PublishFirstIs
<1>7. PICK size \in Nat, head \in Nat : PublishIs(c, f, q, p, size, head)
  <2>1. DecodePublish(c, f) # <<>> /\ p = DecodePublish(c, f)[1]
    BY <1>1
  <2> QED
    BY <1>2, <1>6, <2>1, PublishFound
<1>8. /\ Len(c) >= 2 /\ size = 2 + ReadU16(c) /\ size <= head /\ head <= Len(c)
      /\ p.type = 3 /\ p.qos = q /\ p.dup = (f \div 8 = 1) /\ p.retain = (f % 2 = 1)
      /\ p.topic = SubSeq(c, 3, size) /\ p.payload = SubSeq(c, head + 1, Len(c))
      /\ Field(q > 0, U16(p.packetId)) = SubSeq(c, size + 1, head)
  BY <1>7 DEF PublishIs
<1>9. PICK N \in Nat : N = Len(c)
  OBVIOUS
<1>10. Utf(p.topic) = SubSeq(c, 1, size)
  <2>1. ReadU16(c) \in Nat
    BY <1>8, TwoBytesBack
  <2>2. 2 + ReadU16(c) <= Len(c)
    BY <1>8, <1>9, <2>1
  <2> QED
    BY <1>8, <2>2, StringBack
<1>11. (SubSeq(c, 1, size) \o SubSeq(c, size + 1, head)) \o SubSeq(c, head + 1, Len(c)) = c
  <2>1. SubSeq(c, 1, size) \o SubSeq(c, size + 1, head) = SubSeq(c, 1, head)
    <3>1. 1 \in 1 .. Len(c) + 1 /\ size \in 1 - 1 .. Len(c) /\ head \in size .. Len(c)
      BY <1>8, <1>9
    <3> QED
      BY <3>1, ConcatAdjacentSubSeq
  <2>2. SubSeq(c, 1, head) \o SubSeq(c, head + 1, Len(c)) = SubSeq(c, 1, Len(c))
    <3>1. 1 \in 1 .. Len(c) + 1 /\ head \in 1 - 1 .. Len(c) /\ Len(c) \in head .. Len(c)
      BY <1>8, <1>9
    <3> QED
      BY <3>1, ConcatAdjacentSubSeq
  <2> QED
    BY <2>1, <2>2, SubSeqFull
<1>12. Bit(p.retain, 1) = r /\ Bit(p.dup, 8) = d
  BY <1>4, <1>5, <1>8
<1>13. EncodePublish(p.topic, p.payload, p.qos, p.retain, p.packetId)
         = BuildPacket(16 * PUBLISH + 2 * (p.qos % 4) + Bit(p.retain, 1),
                       Utf(p.topic) \o Field(p.qos > 0, U16(p.packetId)) \o p.payload)
  BY DEF EncodePublish
<1>14. Utf(p.topic) \o Field(p.qos > 0, U16(p.packetId)) \o p.payload = c
  BY <1>8, <1>10, <1>11
<1>15. 16 * PUBLISH + 2 * (p.qos % 4) + Bit(p.retain, 1) = 48 + 2 * (q % 4) + r
  BY <1>8, <1>12 DEF PUBLISH
<1>16. Encoded(p) = EncodePublish(p.topic, p.payload, p.qos, p.retain, p.packetId)
  <2>1. p.type = 3
    BY <1>8
  <2> QED
    BY <2>1 DEF Encoded, PUBLISH, PUBACK, SUBSCRIBE, UNSUBSCRIBE, PINGREQ, DISCONNECT
<1>17. PICK t : t = 48 + 2 * (q % 4) + r
  OBVIOUS
<1>18. Encoded(p) = BuildPacket(t, c)
  BY <1>13, <1>14, <1>15, <1>16, <1>17
<1>19. t \in Byte /\ t \div 16 = 3 /\ ((t % 16) \div 2) % 4 = q /\ first = t + Bit(p.dup, 8)
  <2>1. PICK a \in 0 .. 2 : a = q % 4
    BY <1>6
  <2>2. PICK g \in 0 .. 1 : g = r
    BY <1>6
  <2>3. t = 48 + 2 * a + g
    BY <1>17, <2>1, <2>2
  <2>4. t \in 0 .. 255
    BY <2>3
  <2>5. Bit(p.dup, 8) = d
    BY <1>12
  <2>6. t \div 16 = 3 /\ ((t % 16) \div 2) % 4 = q /\ first = t + d
    BY <1>6, <1>17
  <2> QED
    BY <2>4, <2>5, <2>6 DEF Byte
<1>20. LegalFlags(t \div 16, t % 16)
  BY <1>3, <1>19 DEF LegalFlags, PUBLISH, PUBREL, SUBSCRIBE, UNSUBSCRIBE
<1>21. t \div 16 \in 1 .. 14
  BY <1>19
<1> QED
  BY <1>18, <1>19, <1>20, <1>21 DEF Reencoded

\* A body in which a packet that can be encoded was found encodes to itself.
LEMMA ContentBack ==
    ASSUME NEW first \in Byte, NEW type \in 1 .. 14, type = first \div 16,
           LegalFlags(type, first % 16),
           NEW c \in Seq(Byte), NEW x, x = DecodeBody(type, first % 16, c), x # <<>>,
           x[1].type \in Encodable
    PROVE  Reencoded(x[1], first, c)
<1>1. x[1].type \in {3, 4, 8, 10, 12, 14}
  BY DEF Encodable, PUBLISH, PUBACK, SUBSCRIBE, UNSUBSCRIBE, PINGREQ, DISCONNECT
<1>2. CASE type = 3
  <2>1. x = DecodePublish(c, first % 16)
    BY <1>2 DEF DecodeBody, CONNECT, CONNACK, PUBLISH, SUBSCRIBE, SUBACK, UNSUBSCRIBE,
                PINGREQ, PINGRESP, DISCONNECT
  <2> QED
    BY <1>2, <2>1, PublishBack DEF PUBLISH
<1>3. CASE type = 4
  <2>1. x = DecodeAck(c, 4)
    BY <1>3 DEF DecodeBody, CONNECT, CONNACK, PUBLISH, SUBSCRIBE, SUBACK, UNSUBSCRIBE,
                PINGREQ, PINGRESP, DISCONNECT
  <2> QED
    BY <1>3, <2>1, AckBack DEF PUBACK
<1>4. CASE type = 8
  <2>1. x = DecodeSubscribe(c)
    BY <1>4 DEF DecodeBody, CONNECT, CONNACK, PUBLISH, SUBSCRIBE, SUBACK, UNSUBSCRIBE,
                PINGREQ, PINGRESP, DISCONNECT
  <2> QED
    BY <1>4, <2>1, SubscribeBack DEF SUBSCRIBE
<1>5. CASE type = 10
  <2>1. x = DecodeUnsubscribe(c)
    BY <1>5 DEF DecodeBody, CONNECT, CONNACK, PUBLISH, SUBSCRIBE, SUBACK, UNSUBSCRIBE,
                PINGREQ, PINGRESP, DISCONNECT
  <2> QED
    BY <1>5, <2>1, UnsubscribeBack DEF UNSUBSCRIBE
<1>6. CASE type \in {12, 14}
  <2>1. x = DecodeNoPayload(c, type)
    BY <1>6 DEF DecodeBody, CONNECT, CONNACK, PUBLISH, SUBSCRIBE, SUBACK, UNSUBSCRIBE,
                PINGREQ, PINGRESP, DISCONNECT
  <2>2. type \in {PINGREQ, DISCONNECT}
    BY <1>6 DEF PINGREQ, DISCONNECT
  <2> QED
    BY <2>1, <2>2, SignalBack
<1>7. CASE type \in {1, 2, 5, 6, 7, 9, 11, 13}
  <2>1. \A t, legal : Check(legal, t) # <<>> => Check(legal, t)[1] = t
    BY DEF Check
  <2>2. CASE type = 1
    <3>1. x = DecodeConnect(c)
      BY <2>2 DEF DecodeBody, CONNECT, CONNACK, PUBLISH, SUBSCRIBE, SUBACK, UNSUBSCRIBE,
                  PINGREQ, PINGRESP, DISCONNECT
    <3> DEFINE strings == Strings(Items(SubSeq(c, 11, Len(c)), 0))
               will == (c[8] \div 4) % 2 = 1
    <3>2. PICK top, str, pay :
            top = <<strings[1]>> /\ str = Field(will, strings[2]) /\ pay = Field(will, strings[3])
      OBVIOUS
    <3>3. x[1] = [Blank(CONNECT) EXCEPT !.topics = top, !.topic = str, !.payload = pay]
      BY <3>1, <3>2 DEF DecodeConnect, Check
    <3>4. x[1].type = 1
      BY <3>3 DEF Blank, CONNECT
    <3> QED
      BY <1>1, <3>4
  <2>3. CASE type = 2
    <3>1. x = DecodeConnack(c)
      BY <2>3 DEF DecodeBody, CONNECT, CONNACK, PUBLISH, SUBSCRIBE, SUBACK, UNSUBSCRIBE,
                  PINGREQ, PINGRESP, DISCONNECT
    <3>2. x[1] = [Blank(CONNACK) EXCEPT !.packetId = c[1], !.returnCode = c[2]]
      BY <3>1 DEF DecodeConnack, Check
    <3>3. x[1].type = 2
      BY <3>2 DEF Blank, CONNACK
    <3> QED
      BY <1>1, <3>3
  <2>4. CASE type = 9
    <3>1. x = DecodeSuback(c)
      BY <2>4 DEF DecodeBody, CONNECT, CONNACK, PUBLISH, SUBSCRIBE, SUBACK, UNSUBSCRIBE,
                  PINGREQ, PINGRESP, DISCONNECT
    <3>2. \E id, top : x[1] = [Blank(SUBACK) EXCEPT !.packetId = id, !.topics = top]
      BY <2>1, <3>1, Zenon DEF DecodeSuback
    <3>3. x[1].type = 9
      BY <3>2 DEF Blank, SUBACK
    <3> QED
      BY <1>1, <3>3
  <2>5. CASE type = 13
    <3>1. x = DecodeNoPayload(c, type)
      BY <2>5 DEF DecodeBody, CONNECT, CONNACK, PUBLISH, SUBSCRIBE, SUBACK, UNSUBSCRIBE,
                  PINGREQ, PINGRESP, DISCONNECT
    <3>2. x[1] = Blank(type)
      BY <3>1 DEF DecodeNoPayload, Check
    <3>3. x[1].type = 13
      BY <2>5, <3>2 DEF Blank
    <3> QED
      BY <1>1, <3>3
  <2>6. CASE type \in {5, 6, 7, 11}
    <3>1. x = DecodeAck(c, type)
      BY <2>6 DEF DecodeBody, CONNECT, CONNACK, PUBLISH, SUBSCRIBE, SUBACK, UNSUBSCRIBE,
                  PINGREQ, PINGRESP, DISCONNECT
    <3>2. x[1] = [Blank(type) EXCEPT !.packetId = ReadU16(c)]
      BY <3>1 DEF DecodeAck, Check
    <3>3. x[1].type = type
      BY <3>2 DEF Blank
    <3> QED
      BY <1>1, <2>6, <3>3
  <2> QED
    BY <1>7, <2>2, <2>3, <2>4, <2>5, <2>6
<1> QED
  BY <1>2, <1>3, <1>4, <1>5, <1>6, <1>7

\* A whole packet that can be encoded has the bytes that encoding gives.
LEMMA WholeBack ==
    ASSUME NEW b \in Whole, NEW p, p = DecodePacket(b).packet, p.type \in Encodable
    PROVE  Body(b) = Body(Encoded(p)) /\ b[1] = Encoded(p)[1] + Bit(p.dup, 8)
<1>1. b \in Seq(Byte) /\ DecodePacket(b) = Accept(p, Len(b))
  BY DEF Whole
<1>2. DecodePacket(b).kind = "packet"
  BY <1>1 DEF Accept
<1>3. Len(b) >= 2 /\ LegalHead(b)
  BY <1>1, <1>2, AcceptedIsWhole
<1>4. PICK n \in 1 .. 4 :
        /\ LengthEnds(Tail(b), n) /\ FrameEnd(b, n) \in 2 .. Len(b) /\ Content(b, n) # <<>>
        /\ DecodePacket(b) = Accept(Content(b, n)[1], FrameEnd(b, n))
  BY <1>1, <1>2, AcceptedIsWhole
<1>5. Content(b, n)[1] = p /\ FrameEnd(b, n) = Len(b)
  <2>1. \A a, k : Accept(a, k).packet = a /\ Accept(a, k).consumed = k
    BY DEF Accept
  <2> QED
    BY <1>1, <1>4, <2>1
<1>6. PICK c : c = SubSeq(b, 2 + n, Len(b))
  OBVIOUS
<1>7. PICK N \in Nat : N = Len(b)
  BY <1>1
<1>8. Tail(b) \in Seq(Byte)
  <2>1. Len(b) >= 1
    BY <1>3, <1>7
  <2> QED
    BY <1>1, <2>1, TailOf
<1>9. PICK v \in Nat : v = LengthValue(Tail(b), n) /\ v <= MaxRemaining
  BY <1>4, <1>8, LengthBounds, LengthFits
<1>10. N = 1 + n + v
  BY <1>5, <1>7, <1>9 DEF FrameEnd
<1>11. c \in Seq(Byte) /\ Len(c) = v
  <2>1. 2 + n \in 1 .. Len(b) + 1 /\ Len(b) \in (2 + n) - 1 .. Len(b) /\ Len(b) + 1 - (2 + n) = v
    BY <1>7, <1>10
  <2> QED
    BY <1>1, <1>6, <2>1, PartOf
<1>12. Body(b) = c
  <2>1. PICK y \in Seq(Byte) : y = Tail(b) /\ LengthEnds(y, n)
    BY <1>4, <1>8
  <2>2. DecodeRemainingLength(y) = [ok |-> TRUE, used |-> n, value |-> LengthValue(y, n)]
    BY <2>1, LengthDecoded
  <2>3. DecodeRemainingLength(Tail(b)).used = n
    BY <2>1, <2>2
  <2> QED
    BY <1>6, <2>3 DEF Body
<1>13. PICK first \in Byte : first = b[1]
  <2>1. 1 \in 1 .. Len(b)
    BY <1>3, <1>7
  <2> QED
    BY <1>1, <2>1, ElementOfSeq
<1>14. PICK type \in 1 .. 14 : type = first \div 16 /\ LegalFlags(type, first % 16)
  BY <1>3, <1>13 DEF LegalHead
<1>15. Content(b, n) = DecodeBody(type, first % 16, c)
  BY <1>5, <1>6, <1>13, <1>14 DEF Content
<1>16. PICK x : x = DecodeBody(type, first % 16, c)
  OBVIOUS
<1>17. x # <<>> /\ x[1] = p
  BY <1>4, <1>5, <1>15, <1>16
<1>18. Reencoded(p, first, c)
  BY <1>11, <1>14, <1>16, <1>17, ContentBack
<1>19. PICK t \in Byte : /\ t \div 16 \in 1 .. 14 /\ LegalFlags(t \div 16, t % 16)
                         /\ Encoded(p) = BuildPacket(t, c) /\ first = t + Bit(p.dup, 8)
  BY <1>18 DEF Reencoded
<1>20. PICK e : e = BuildPacket(t, c)
  OBVIOUS
<1>21. Len(c) <= MaxRemaining
  BY <1>9, <1>11
<1>22. e[1] = t /\ Body(e) = c
  BY <1>11, <1>19, <1>20, <1>21, Framed
<1> QED
  BY <1>12, <1>13, <1>19, <1>20, <1>22

\* No byte of what comes is passed over, and no packet is refused or accepted on a
\* part of its bytes, whoever sends them and however recv() cuts them.
THEOREM DecoderIsSound == CodecSpec => []DecoderSound
<1>1. \A s \in Samples : s.bytes \in Seq(Byte)
  BY CodecAssumption DEF CodecAssumption
<1>2. CodecTypes => VerdictIsFinal
  <2> SUFFICES ASSUME CodecTypes, NEW n \in 0 .. Len(rxBuf)
               PROVE  DecodePacket(SubSeq(rxBuf, 1, n)) \in {More, Decoded}
    BY DEF VerdictIsFinal
  <2>1. rxBuf \in Seq(Byte)
    BY DEF CodecTypes
  <2>2. PICK p : p = SubSeq(rxBuf, 1, n)
    OBVIOUS
  <2>3. p \in Seq(Byte) /\ Begins(rxBuf, p)
    BY <2>1, <2>2, FirstBytes
  <2>4. DecodePacket(p) \in {More, DecodePacket(rxBuf)}
    BY <2>1, <2>3, VerdictKept
  <2> QED
    BY <2>2, <2>4 DEF Decoded
<1>3. CodecTypes => AcceptedReencodes
  <2> SUFFICES ASSUME CodecTypes, NEW i \in DOMAIN got, got[i].packet.type \in Encodable
               PROVE  /\ Body(got[i].bytes) = Body(Encoded(got[i].packet))
                      /\ got[i].bytes[1] = Encoded(got[i].packet)[1] + Bit(got[i].packet.dup, 8)
    BY DEF AcceptedReencodes
  <2>1. got[i] \in Parsed
    <3>1. got \in Seq(Parsed)
      BY DEF CodecTypes
    <3>2. i \in 1 .. Len(got)
      BY <3>1
    <3> QED
      BY <3>1, <3>2, ElementOfSeq
  <2>2. PICK b \in Whole : got[i] = [packet |-> DecodePacket(b).packet, bytes |-> b]
    BY <2>1 DEF Parsed
  <2>3. got[i].bytes = b /\ got[i].packet = DecodePacket(b).packet
    BY <2>2
  <2> QED
    BY <2>3, WholeBack
<1>4. CodecTypes => DecoderSound
  BY <1>2, <1>3 DEF DecoderSound
<1>5. CodecInit => CodecTypes
  BY <1>1, CodecTypesInductive
<1>6. CodecTypes /\ [CodecNext]_codecVars => CodecTypes'
  BY <1>1, CodecTypesInductive
<1> QED
  BY <1>4, <1>5, <1>6, PTL DEF CodecSpec

-----------------------------------------------------------------------------
(* What was written is read: lists of strings.                             *)

\* The bytes behind the first of two pieces.
Behind(b, pos, a, y) ==
    /\ pos + Len(a) \in pos + 1 .. Len(b) + 1 /\ Len(a) <= Len(Rest(b, pos))
    /\ Rest(b, pos + Len(a)) = y

\* The second piece is what is left behind the first.
LEMMA RestBehind ==
    ASSUME NEW b \in Seq(Byte), NEW pos \in 1 .. Len(b) + 1,
           NEW a \in Seq(Byte), NEW y \in Seq(Byte), Rest(b, pos) = a \o y, Len(a) >= 1
    PROVE  Behind(b, pos, a, y)
<1>1. PICK r \in Seq(Byte) : r = Rest(b, pos) /\ Len(r) = Len(b) + 1 - pos
  BY RestIs
<1>2. PICK n \in Nat : n = Len(a) /\ n >= 1
  OBVIOUS
<1>3. PICK m \in Nat : m = Len(y)
  OBVIOUS
<1>4. PICK N \in Nat : N = Len(b)
  OBVIOUS
<1>5. Halves(r, a, y)
  BY <1>1, InHalves
<1>6. Len(r) = n + m /\ SubSeq(r, n + 1, Len(r)) = y
  BY <1>2, <1>3, <1>5 DEF Halves
<1>7. pos + n \in pos + 1 .. N + 1 /\ n <= Len(r) /\ n + m = N + 1 - pos /\ pos \in 1 .. N
  BY <1>1, <1>2, <1>3, <1>4, <1>6
<1>8. CASE m = 0
  <2>1. pos + n = Len(b) + 1 /\ pos + n \in 1 .. Len(b) + 1
    BY <1>4, <1>7, <1>8
  <2>2. Rest(b, pos + n) = <<>>
    BY <2>1, RestIs
  <2>3. y = <<>>
    <3>1. Len(y) = 0
      BY <1>3, <1>8
    <3> QED
      BY <3>1, EmptySeq
  <2> QED
    BY <1>1, <1>2, <1>4, <1>7, <2>2, <2>3 DEF Behind
<1>9. CASE m # 0
  <2>1. /\ pos \in 1 .. Len(b) /\ Len(b) \in 1 .. Len(b)
        /\ n + 1 \in 1 .. Len(b) - pos + 1 /\ n + m \in 1 .. Len(b) - pos + 1
        /\ pos + (n + 1) - 1 = pos + n /\ pos + (n + m) - 1 = Len(b)
    BY <1>4, <1>7, <1>9
  <2>2. SubSeq(SubSeq(b, pos, Len(b)), n + 1, n + m) = SubSeq(b, pos + (n + 1) - 1, pos + (n + m) - 1)
    BY <2>1, SubSeqOfSubSeq
  <2>3. Rest(b, pos + n) = SubSeq(r, n + 1, n + m)
    BY <1>1, <2>1, <2>2 DEF Rest
  <2> QED
    BY <1>1, <1>2, <1>4, <1>6, <1>7, <2>3 DEF Behind
<1> QED
  BY <1>8, <1>9

\* Items with a string that fits its prefix.
TextItem == [ok : {TRUE}, string : Texts, code : Byte]

\* What an item encodes to, read back.
LEMMA PieceIs ==
    ASSUME NEW x \in TextItem, NEW extra \in 0 .. 1
    PROVE  \E u \in Seq(Byte), n \in Nat :
             /\ u = ItemPiece(x, extra) /\ n = Len(x.string) /\ Len(u) = 2 + n + extra
             /\ ReadU16(u) = n /\ SubSeq(u, 3, 2 + n) = x.string
             /\ extra = 1 => u[3 + n] = x.code
<1>1. x.string \in Texts /\ x.code \in Byte
  BY DEF TextItem
<1>2. PICK s \in Texts : s = x.string
  BY <1>1
<1>3. PICK n \in Nat : n = Len(s)
  BY UtfIs
<1>4. PICK t \in Seq(Byte) : /\ t = Utf(s) /\ Len(t) = 2 + n /\ ReadU16(t) = n
                             /\ SubSeq(t, 3, 2 + n) = s
  BY <1>3, UtfIs
<1>5. PICK c \in Seq(Byte) : /\ c = (IF extra = 1 THEN <<x.code>> ELSE <<>>) /\ Len(c) = extra
                             /\ extra = 1 => c[1] = x.code
  <2>1. CASE extra = 1
    <3>1. PICK k \in Byte : k = x.code
      BY <1>1
    <3>2. <<k>> \in Seq(Byte) /\ Len(<<k>>) = 1 /\ <<k>>[1] = k
      OBVIOUS
    <3> QED
      BY <2>1, <3>1, <3>2
  <2>2. CASE extra = 0
    <3>1. <<>> \in Seq(Byte) /\ Len(<<>>) = 0 /\ ~(extra = 1)
      BY <2>2
    <3> QED
      BY <2>2, <3>1
  <2> QED
    BY <2>1, <2>2
<1>6. PICK u : u = t \o c
  OBVIOUS
<1>7. u = ItemPiece(x, extra)
  BY <1>2, <1>4, <1>5, <1>6 DEF ItemPiece
<1>8. Halves(u, t, c)
  BY <1>6, InHalves
<1>9. u \in Seq(Byte) /\ Len(u) = 2 + n + extra /\ Begins(u, t) /\ SubSeq(u, Len(t) + 1, Len(u)) = c
  BY <1>4, <1>5, <1>8 DEF Halves
<1>10. ReadU16(u) = n
  <2>1. u[1] = t[1] /\ u[2] = t[2]
    BY <1>4, <1>9 DEF Begins
  <2> QED
    BY <1>4, <2>1 DEF ReadU16
<1>11. SubSeq(u, 3, 2 + n) = s
  <2>1. PICK e \in Int : e = 2 + n
    OBVIOUS
  <2>2. e <= Len(t) /\ 3 \in Nat \ {0}
    BY <1>4, <2>1
  <2>3. SubSeq(u, 3, e) = SubSeq(t, 3, e)
    <3>1. SamePieces(u, t)
      BY <1>9, InFirstHalf, Zenon
    <3> QED
      BY <2>2, <3>1 DEF SamePieces
  <2> QED
    BY <1>4, <2>1, <2>3
<1>12. ASSUME extra = 1 PROVE u[3 + n] = x.code
  <2>1. Len(u) = 3 + n /\ 3 + n \in 1 .. Len(u) /\ Len(t) + 1 = 3 + n
    BY <1>4, <1>9, <1>12
  <2>2. SubSeq(u, 3 + n, 3 + n) = c
    BY <1>9, <2>1
  <2>3. c[1] = u[3 + n]
    <3>1. PICK k \in Nat : k = 3 + n
      OBVIOUS
    <3>2. u[k] \in Byte
      BY <1>9, <2>1, <3>1, ElementOfSeq
    <3>3. /\ \A i \in k .. k : u[i] \in Byte
          /\ k \in Int /\ 1 \in 1 .. k - k + 1 /\ k + 1 - 1 = k
      BY <3>2
    <3>4. \A i \in 1 .. k - k + 1 : SubSeq(u, k, k)[i] = u[k + i - 1]
      BY <3>3, SubSeqProperties
    <3>5. SubSeq(u, k, k)[1] = u[k]
      BY <3>3, <3>4
    <3> QED
      BY <2>2, <3>1, <3>5
  <2> QED
    BY <1>5, <1>12, <2>3
<1> QED
  BY <1>2, <1>3, <1>7, <1>9, <1>10, <1>11, <1>12

\* Items with the strings, and the codes if there are any, of others.
Matches(r, s, extra) ==
    /\ r \in Seq(OkItem) /\ Len(r) = Len(s)
    /\ \A i \in 1 .. Len(s) : r[i].string = s[i].string /\ (extra = 1 => r[i].code = s[i].code)

\* Two lists that match still do with items in front that match.
LEMMA MatchesCons ==
    ASSUME NEW extra, NEW x \in TextItem, NEW y \in OkItem, y.string = x.string,
           extra = 1 => y.code = x.code,
           NEW t \in Seq(TextItem), NEW r, Matches(r, t, extra)
    PROVE  Matches(<<y>> \o r, <<x>> \o t, extra)
<1>1. PICK n \in Nat : n = Len(t)
  OBVIOUS
<1>2. /\ r \in Seq(OkItem) /\ Len(r) = n
      /\ \A i \in 1 .. n : r[i].string = t[i].string /\ (extra = 1 => r[i].code = t[i].code)
  BY <1>1 DEF Matches
<1>3. PICK s : s = <<x>> \o t
  OBVIOUS
<1>4. PICK q : q = <<y>> \o r
  OBVIOUS
<1>5. /\ s \in Seq(TextItem) /\ Len(s) = n + 1 /\ s[1] = x
      /\ \A i \in 1 .. n : s[i + 1] = t[i]
  BY <1>1, <1>3, Prepended
<1>6. /\ q \in Seq(OkItem) /\ Len(q) = n + 1 /\ q[1] = y
      /\ \A i \in 1 .. n : q[i + 1] = r[i]
  BY <1>2, <1>4, Prepended
<1>7. ASSUME NEW i \in 1 .. n + 1
      PROVE  q[i].string = s[i].string /\ (extra = 1 => q[i].code = s[i].code)
  <2>1. CASE i = 1
    BY <1>5, <1>6, <2>1
  <2>2. CASE i # 1
    <3>1. PICK j \in 1 .. n : i = j + 1
      <4>1. i - 1 \in 1 .. n /\ i = (i - 1) + 1
        BY <2>2
      <4> QED
        BY <4>1
    <3>2. q[i] = r[j] /\ s[i] = t[j]
      BY <1>5, <1>6, <3>1
    <3> QED
      BY <1>2, <3>2
  <2> QED
    BY <2>1, <2>2
<1>8. Matches(q, s, extra)
  BY <1>5, <1>6, <1>7 DEF Matches
<1> QED
  BY <1>3, <1>4, <1>8

\* A sequence is its first element and the rest.
LEMMA Split ==
    ASSUME NEW S, NEW s \in Seq(S), s # <<>>
    PROVE  \E x \in S, t \in Seq(S) : s = <<x>> \o t
<1>1. PICK n \in Nat : n = Len(s) /\ n >= 1
  <2>1. Len(s) \in Nat \ {0}
    BY EmptySeq
  <2> QED
    BY <2>1
<1>2. PICK x \in S : x = s[1]
  <2>1. 1 \in 1 .. Len(s)
    BY <1>1
  <2> QED
    BY <2>1, ElementOfSeq
<1>3. PICK t \in Seq(S) : t = Tail(s) /\ Len(t) = n - 1 /\ \A i \in 1 .. n - 1 : t[i] = s[i + 1]
  <2>1. PICK t \in Seq(S) :
          t = Tail(s) /\ Len(t) = Len(s) - 1 /\ \A i \in 1 .. Len(t) : t[i] = s[i + 1]
    BY HeadTailProperties
  <2>2. Len(t) = n - 1
    BY <1>1, <2>1
  <2> QED
    BY <2>1, <2>2
<1>4. PICK u : u = <<x>> \o t
  OBVIOUS
<1>5. u \in Seq(S) /\ Len(u) = n /\ u[1] = x /\ \A i \in 1 .. n - 1 : u[i + 1] = t[i]
  <2>1. /\ u \in Seq(S) /\ Len(u) = Len(t) + 1 /\ u[1] = x
        /\ \A i \in 1 .. Len(t) : u[i + 1] = t[i]
    BY <1>4, Prepended
  <2>2. Len(u) = n
    BY <1>1, <1>3, <2>1
  <2> QED
    BY <1>3, <2>1, <2>2
<1>6. ASSUME NEW i \in 1 .. n PROVE u[i] = s[i]
  <2>1. CASE i = 1
    BY <1>2, <1>5, <2>1
  <2>2. CASE i # 1
    <3>1. PICK j \in 1 .. n - 1 : i = j + 1
      <4>1. i - 1 \in 1 .. n - 1 /\ i = (i - 1) + 1
        BY <2>2
      <4> QED
        BY <4>1
    <3> QED
      BY <1>3, <1>5, <3>1
  <2> QED
    BY <2>1, <2>2
<1>7. u = s
  BY <1>1, <1>5, <1>6, SeqEqual
<1> QED
  BY <1>4, <1>7

\* Items with strings that fit their length are items.
LEMMA TextIsOk == TextItem \subseteq OkItem /\ Seq(TextItem) \subseteq Seq(OkItem)
<1>1. TextItem \subseteq OkItem
  <2>1. Texts \subseteq Seq(Byte)
    BY DEF Texts
  <2> QED
    BY <2>1 DEF TextItem, OkItem
<1> QED
  BY <1>1

\* The bytes of items are read as these items.
LEMMA ItemsRead ==
    ASSUME NEW extra \in 0 .. 1, NEW items \in Seq(TextItem),
           NEW b, b = FlattenSeq(ItemPieces(items, extra))
    PROVE  b \in Seq(Byte) /\ Matches(Items(b, extra), items, extra)
<1>1. b \in Seq(Byte)
  BY TextIsOk, PiecesBytes, FlattenIs
<1>2. PICK N \in Nat : N = Len(b)
  BY <1>1
<1>3. PICK f : /\ Items(b, extra) = f[1]
               /\ \A pos \in 1 .. Len(b) + 1 : f[pos] = ItemStep(b, extra, f, pos)
  BY <1>1, ItemsTable
<1> DEFINE Good(pos) == \A s \in Seq(TextItem) :
                          FlattenSeq(ItemPieces(s, extra)) = Rest(b, pos) => Matches(f[pos], s, extra)
           T == {pos \in 1 .. N + 1 : Good(pos)}
<1>4. ASSUME NEW s \in Seq(TextItem), s # <<>>
      PROVE  \E x \in TextItem, t \in Seq(TextItem), u \in Seq(Byte), y \in Seq(Byte), n \in Nat :
               /\ s = <<x>> \o t /\ y = FlattenSeq(ItemPieces(t, extra))
               /\ FlattenSeq(ItemPieces(s, extra)) = u \o y
               /\ n = Len(x.string) /\ Len(u) = 2 + n + extra
               /\ ReadU16(u) = n /\ SubSeq(u, 3, 2 + n) = x.string
               /\ extra = 1 => u[3 + n] = x.code
  <2>1. PICK x \in TextItem, t \in Seq(TextItem) : s = <<x>> \o t
    BY <1>4, Split
  <2>2. PICK u \in Seq(Byte), n \in Nat :
             /\ u = ItemPiece(x, extra) /\ n = Len(x.string) /\ Len(u) = 2 + n + extra
             /\ ReadU16(u) = n /\ SubSeq(u, 3, 2 + n) = x.string
             /\ extra = 1 => u[3 + n] = x.code
    BY PieceIs
  <2>3. PICK y \in Seq(Byte) : y = FlattenSeq(ItemPieces(t, extra))
    BY TextIsOk, PiecesBytes, FlattenIs
  <2>4. FlattenSeq(ItemPieces(s, extra)) = u \o y
    <3>1. x \in OkItem /\ t \in Seq(OkItem)
      BY TextIsOk
    <3> QED
      BY <2>1, <2>2, <2>3, <3>1, PiecesCons
  <2> QED
    BY <2>1, <2>2, <2>3, <2>4
<1>5. N + 1 \in T
  <2>1. N + 1 \in 1 .. Len(b) + 1 /\ N + 1 = Len(b) + 1
    BY <1>2
  <2>2. Rest(b, N + 1) = <<>>
    BY <1>1, <2>1, RestIs
  <2>3. f[N + 1] = <<>>
    BY <1>3, <2>1, <2>2 DEF ItemStep
  <2>4. ASSUME NEW s \in Seq(TextItem), FlattenSeq(ItemPieces(s, extra)) = <<>>
        PROVE  Matches(<<>>, s, extra)
    <3>1. CASE s = <<>>
      <4>1. <<>> \in Seq(OkItem) /\ Len(<<>>) = 0 /\ 1 .. 0 = {}
        OBVIOUS
      <4> QED
        BY <3>1, <4>1 DEF Matches
    <3>2. CASE s # <<>>
      <4>1. PICK x \in TextItem, t \in Seq(TextItem), u \in Seq(Byte), y \in Seq(Byte), n \in Nat :
               /\ s = <<x>> \o t /\ y = FlattenSeq(ItemPieces(t, extra))
               /\ FlattenSeq(ItemPieces(s, extra)) = u \o y
               /\ n = Len(x.string) /\ Len(u) = 2 + n + extra
               /\ ReadU16(u) = n /\ SubSeq(u, 3, 2 + n) = x.string
               /\ extra = 1 => u[3 + n] = x.code
        BY <1>4, <3>2
      <4>2. u \o y = <<>>
        BY <2>4, <4>1
      <4>3. u = <<>>
        BY <4>2, ConcatEqualIffEmpty
      <4> QED
        BY <4>1, <4>3
    <3> QED
      BY <3>1, <3>2
  <2>5. Good(N + 1)
    BY <2>2, <2>3, <2>4
  <2> QED
    BY <2>5
<1>6. ASSUME NEW pos \in 1 .. N, (pos + 1 .. N + 1) \subseteq T PROVE pos \in T
  <2>1. pos \in 1 .. Len(b) + 1 /\ pos # Len(b) + 1 /\ pos \in 1 .. N + 1
    BY <1>2
  <2>2. Rest(b, pos) # <<>> /\ f[pos] = ItemStep(b, extra, f, pos)
    BY <1>1, <1>3, <2>1, RestIs
  <2> SUFFICES ASSUME NEW s \in Seq(TextItem), FlattenSeq(ItemPieces(s, extra)) = Rest(b, pos)
               PROVE  Matches(f[pos], s, extra)
    BY <2>1
  <2>3. s # <<>>
    BY <2>2, NoPieces
  <2>4. PICK x \in TextItem, t \in Seq(TextItem), u \in Seq(Byte), y \in Seq(Byte), n \in Nat :
               /\ s = <<x>> \o t /\ y = FlattenSeq(ItemPieces(t, extra))
               /\ FlattenSeq(ItemPieces(s, extra)) = u \o y
               /\ n = Len(x.string) /\ Len(u) = 2 + n + extra
               /\ ReadU16(u) = n /\ SubSeq(u, 3, 2 + n) = x.string
               /\ extra = 1 => u[3 + n] = x.code
    BY <1>4, <2>3
  <2>5. PICK r \in Seq(Byte) : r = Rest(b, pos)
    BY <1>1, <2>1, RestIs
  <2>6. r = u \o y
    BY <2>4, <2>5
  <2>7. PICK size \in Nat : size = Len(u) /\ size = 2 + n + extra
    BY <2>4
  <2>8. /\ pos + size \in pos + 1 .. Len(b) + 1 /\ size <= Len(r)
        /\ Rest(b, pos + size) = y
    <3>1. Len(u) >= 1 /\ Rest(b, pos) = u \o y
      BY <2>5, <2>6, <2>7
    <3>2. /\ pos + Len(u) \in pos + 1 .. Len(b) + 1 /\ Len(u) <= Len(Rest(b, pos))
          /\ Rest(b, pos + Len(u)) = y
      <4>1. Behind(b, pos, u, y)
        BY <1>1, <2>1, <3>1, RestBehind
      <4> QED
        BY <4>1 DEF Behind
    <3> QED
      BY <2>5, <2>7, <3>2
  <2>9. Halves(r, u, y)
    BY <2>6, InHalves
  <2>10. Begins(r, u) /\ Len(r) \in Nat
    BY <2>9 DEF Halves
  <2>11. ReadU16(r) = n
    <3>1. r[1] = u[1] /\ r[2] = u[2]
      BY <2>7, <2>10 DEF Begins
    <3> QED
      BY <2>4, <3>1 DEF ReadU16
  <2>12. ItemSize(b, pos, extra) = size
    BY <2>5, <2>7, <2>11 DEF ItemSize
  <2>13. ~ItemCut(b, pos, extra)
    BY <2>5, <2>7, <2>8, <2>10, <2>12 DEF ItemCut
  <2>14. PICK it \in OkItem : it = ItemAt(b, pos, extra)
    <3>1. ItemAt(b, pos, extra) \in Item /\ ItemAt(b, pos, extra).ok = TRUE
      BY <1>1, <2>1, <2>13, ItemBounds DEF ItemAt
    <3> QED
      BY <3>1 DEF Item, OkItem
  <2>15. it.string = x.string
    <3>1. PICK e \in Int : e = 2 + n /\ e = size - extra
      BY <2>7
    <3>2. e <= Len(u) /\ 3 \in Nat \ {0}
      BY <2>7, <3>1
    <3>3. SubSeq(r, 3, e) = SubSeq(u, 3, e)
      <4>1. SamePieces(r, u)
        BY <2>10, InFirstHalf, Zenon
      <4> QED
        BY <3>2, <4>1 DEF SamePieces
    <3>4. it.string = SubSeq(r, 3, e)
      BY <2>5, <2>12, <2>14, <3>1 DEF ItemAt
    <3> QED
      BY <2>4, <3>1, <3>3, <3>4
  <2>16. extra = 1 => it.code = x.code
    <3> SUFFICES ASSUME extra = 1 PROVE it.code = x.code
      OBVIOUS
    <3>1. size = 3 + n /\ size \in 1 .. Len(u)
      BY <2>7
    <3>2. r[size] = u[size]
      BY <2>10, <3>1 DEF Begins
    <3>3. it.code = r[size]
      BY <2>5, <2>12, <2>14 DEF ItemAt
    <3> QED
      BY <2>4, <3>1, <3>2, <3>3
  <2>17. Matches(f[pos + size], t, extra)
    <3>1. pos + size \in T
      BY <1>2, <1>6, <2>8
    <3> QED
      BY <2>4, <2>8, <3>1
  <2>18. f[pos] = <<it>> \o f[pos + size]
    BY <2>2, <2>12, <2>13, <2>14 DEF ItemStep
  <2>19. Matches(<<it>> \o f[pos + size], <<x>> \o t, extra)
    BY <2>15, <2>16, <2>17, MatchesCons
  <2> QED
    BY <2>4, <2>18, <2>19
<1> HIDE DEF T
<1>7. 1 .. N + 1 \subseteq T
  BY <1>5, <1>6, FromTheEnd
<1>8. 1 \in T
  BY <1>7
<1>9. Rest(b, 1) = b
  BY <1>1, SubSeqFull DEF Rest
<1> QED
  BY <1>1, <1>3, <1>8, <1>9 DEF T

-----------------------------------------------------------------------------
(* Subscriptions and their answer.                                         *)

\* An identifier in front of the rest of a body.
Identified(x, id, y) ==
    x \in Seq(Byte) /\ Len(x) = 2 + Len(y) /\ ReadU16(x) = id /\ AfterId(x) = y

\* The decoder finds both.
LEMMA IdInFront ==
    ASSUME NEW id \in Ids, NEW y \in Seq(Byte), NEW x, x = U16(id) \o y
    PROVE  Identified(x, id, y)
<1>1. id \in Nat /\ id <= 65535
  BY IdRange
<1>2. PICK h \in Seq(Byte) : h = U16(id) /\ Len(h) = 2 /\ ReadU16(h) = id
  BY <1>1, TwoBytes, SMT
<1>3. Halves(x, h, y)
  BY <1>2, InHalves
<1>4. x \in Seq(Byte) /\ Len(x) = 2 + Len(y) /\ Begins(x, h) /\ SubSeq(x, 2 + 1, Len(x)) = y
  BY <1>2, <1>3 DEF Halves
<1>5. ReadU16(x) = id
  <2>1. x[1] = h[1] /\ x[2] = h[2]
    BY <1>2, <1>4 DEF Begins
  <2> QED
    BY <1>2, <2>1 DEF ReadU16
<1>6. AfterId(x) = y
  <2>1. 2 + 1 = 3
    OBVIOUS
  <2> QED
    BY <1>4, <2>1 DEF AfterId
<1> QED
  BY <1>4, <1>5, <1>6 DEF Identified

\* The answer to a SUBSCRIBE.
Grants == {0, 1, 2, 128}
\* The answer as it is written and as it is meant.
SubackPacket(id, codes) ==
    [bytes |-> BuildPacket(16 * SUBACK, U16(id) \o codes),
     packet |-> [Blank(SUBACK) EXCEPT
                    !.packetId = id, !.topics = [i \in DOMAIN codes |-> <<codes[i]>>]]]

\* It is read as it is meant.
LEMMA SubackMeant ==
    ASSUME NEW id \in Ids, NEW codes \in Seq(Grants), codes # <<>>,
           Len(codes) + 2 <= MaxRemaining
    PROVE  Meant(SubackPacket(id, codes))
<1>1. PICK n \in Nat : n = Len(codes) /\ n >= 1 /\ DOMAIN codes = 1 .. n
  <2>1. Len(codes) \in Nat \ {0}
    BY EmptySeq
  <2> QED
    BY <2>1
<1>2. codes \in Seq(Byte)
  <2>1. Grants \subseteq Byte
    BY DEF Grants, Byte
  <2> QED
    BY <2>1
<1>3. PICK x : x = U16(id) \o codes
  OBVIOUS
<1>4. Identified(x, id, codes)
  BY <1>2, <1>3, IdInFront
<1>5. x \in Seq(Byte) /\ Len(x) = n + 2 /\ ReadU16(x) = id /\ AfterId(x) = codes
  BY <1>1, <1>4 DEF Identified
<1>6. PICK p : p = [Blank(SUBACK) EXCEPT
                       !.packetId = id, !.topics = [i \in DOMAIN codes |-> <<codes[i]>>]]
  OBVIOUS
<1>7. \A i \in DOMAIN codes : codes[i] \in {0, 1, 2, 128}
  BY <1>1, ElementOfSeq DEF Grants
<1>8. id # 0
  BY IdRange
<1>9. Len(x) >= 3
  BY <1>1, <1>5
<1>10. DecodeSuback(x) = <<p>>
  BY <1>5, <1>6, <1>7, <1>8, <1>9 DEF DecodeSuback, Check
<1>11. DecodeBody(9, 0, x) = <<p>>
  BY <1>10 DEF DecodeBody, CONNECT, CONNACK, PUBLISH, SUBSCRIBE, SUBACK, UNSUBSCRIBE,
               PINGREQ, PINGRESP, DISCONNECT
<1>12. LegalFlags(9, 0)
  BY DEF LegalFlags, PUBLISH, PUBREL, SUBSCRIBE, UNSUBSCRIBE
<1>13. 144 \in Byte /\ 144 \div 16 = 9 /\ 144 % 16 = 0 /\ 9 \in 1 .. 14 /\ 16 * SUBACK = 144
  BY DEF Byte, SUBACK
<1>14. Len(x) <= MaxRemaining
  BY <1>1, <1>5
<1>15. Meant([bytes |-> BuildPacket(144, x), packet |-> p])
  <2>1. PICK t \in Byte : t = 144 /\ t \div 16 = 9 /\ t % 16 = 0 /\ t \div 16 \in 1 .. 14
    BY <1>13
  <2>2. LegalFlags(t \div 16, t % 16) /\ DecodeBody(t \div 16, t % 16, x) = <<p>>
    BY <1>11, <1>12, <2>1
  <2>3. Meant([bytes |-> BuildPacket(t, x), packet |-> p])
    BY <1>5, <1>14, <2>1, <2>2, MeantIfDecoded
  <2> QED
    BY <2>1, <2>3
<1> QED
  BY <1>3, <1>6, <1>13, <1>15 DEF SubackPacket

\* How long the bytes of items are at least.
LEMMA PiecesAreLong ==
    ASSUME NEW extra \in 0 .. 1, NEW items \in Seq(TextItem), items # <<>>,
           items[1].string # <<>>, NEW y, y = FlattenSeq(ItemPieces(items, extra))
    PROVE  y \in Seq(Byte) /\ Len(y) >= 3 + extra
<1>1. PICK x \in TextItem, t \in Seq(TextItem) : items = <<x>> \o t
  BY Split
<1>2. items[1] = x
  BY <1>1, Prepended
<1>3. PICK u \in Seq(Byte), n \in Nat :
             /\ u = ItemPiece(x, extra) /\ n = Len(x.string) /\ Len(u) = 2 + n + extra
             /\ ReadU16(u) = n /\ SubSeq(u, 3, 2 + n) = x.string
             /\ extra = 1 => u[3 + n] = x.code
  BY PieceIs
<1>4. n >= 1
  <2>1. x.string \in Seq(Byte) /\ x.string # <<>>
    BY <1>2 DEF TextItem, Texts
  <2>2. Len(x.string) \in Nat \ {0}
    BY <2>1, EmptySeq
  <2> QED
    BY <1>3, <2>2
<1>5. PICK z \in Seq(Byte) : z = FlattenSeq(ItemPieces(t, extra))
  BY TextIsOk, PiecesBytes, FlattenIs
<1>6. y = u \o z
  <2>1. x \in OkItem /\ t \in Seq(OkItem)
    BY TextIsOk
  <2> QED
    BY <1>1, <1>3, <1>5, <2>1, PiecesCons
<1>7. y \in Seq(Byte) /\ Len(y) = Len(u) + Len(z)
  BY <1>6, ConcatProperties
<1>8. Len(z) \in Nat
  OBVIOUS
<1> QED
  BY <1>3, <1>4, <1>7, <1>8

\* Topics with the quality of service that is asked for.
Wishes == [topic : Texts \ {<<>>}, qos : 0 .. 2]
\* The request as it is written and as it is meant.
SubscribePacket(id, topics) ==
    [bytes |-> EncodeSubscribe(id, topics),
     packet |-> [Blank(SUBSCRIBE) EXCEPT
                    !.packetId = id, !.topics = [i \in DOMAIN topics |-> topics[i].topic],
                    !.payload = [i \in DOMAIN topics |-> topics[i].qos]]]
\* What follows the identifier.
SubscribeRest(topics) ==
    FlattenSeq([i \in DOMAIN topics |-> Utf(topics[i].topic) \o <<topics[i].qos % 4>>])

\* It is read as it is meant.
LEMMA SubscribeMeant ==
    ASSUME NEW id \in Ids, NEW topics \in Seq(Wishes), topics # <<>>,
           Len(SubscribeRest(topics)) + 2 <= MaxRemaining
    PROVE  Meant(SubscribePacket(id, topics))
<1>1. PICK n \in Nat : n = Len(topics) /\ n >= 1 /\ DOMAIN topics = 1 .. n
  <2>1. Len(topics) \in Nat \ {0}
    BY EmptySeq
  <2> QED
    BY <2>1
<1>2. \A i \in 1 .. n :
        topics[i].topic \in Texts /\ topics[i].topic # <<>> /\ topics[i].qos \in 0 .. 2
  <2>1. \A i \in 1 .. n : topics[i] \in Wishes
    BY <1>1, ElementOfSeq
  <2> QED
    BY <2>1 DEF Wishes
<1>3. PICK items : items = [i \in 1 .. n |->
                              [ok |-> TRUE, string |-> topics[i].topic, code |-> topics[i].qos]]
  OBVIOUS
<1>4. /\ items \in Seq(TextItem) /\ Len(items) = n
      /\ \A i \in 1 .. n : items[i].string = topics[i].topic /\ items[i].code = topics[i].qos
  <2>1. \A i \in 1 .. n : topics[i].qos \in Byte
    BY <1>2 DEF Byte
  <2>2. \A i \in 1 .. n :
          [ok |-> TRUE, string |-> topics[i].topic, code |-> topics[i].qos] \in TextItem
    BY <1>2, <2>1 DEF TextItem
  <2>3. items \in [1 .. n -> TextItem]
    BY <1>3, <2>2
  <2>4. items \in Seq(TextItem) /\ Len(items) = n
    BY <2>3
  <2> QED
    BY <1>3, <2>4
<1>5. PICK y : y = SubscribeRest(topics)
  OBVIOUS
<1>6. y = FlattenSeq(ItemPieces(items, 1))
  <2>1. ASSUME NEW i \in 1 .. n
        PROVE  Utf(topics[i].topic) \o <<topics[i].qos % 4>> = ItemPiece(items[i], 1)
    <3>1. PICK q \in 0 .. 2 : q = topics[i].qos
      BY <1>2
    <3>2. q % 4 = q
      OBVIOUS
    <3>3. items[i].string = topics[i].topic /\ items[i].code = q
      BY <1>4, <3>1
    <3> QED
      BY <3>1, <3>2, <3>3 DEF ItemPiece
  <2>2. [i \in DOMAIN topics |-> Utf(topics[i].topic) \o <<topics[i].qos % 4>>] = ItemPieces(items, 1)
    BY <1>1, <1>4, <2>1 DEF ItemPieces
  <2> QED
    BY <1>5, <2>2 DEF SubscribeRest
<1>7. y \in Seq(Byte) /\ Len(y) >= 4
  <2>1. items # <<>>
    BY <1>1, <1>4
  <2>2. items[1].string # <<>>
    BY <1>1, <1>2, <1>4
  <2>3. y \in Seq(Byte) /\ Len(y) >= 3 + 1
    BY <1>4, <1>6, <2>1, <2>2, PiecesAreLong
  <2> QED
    BY <2>3
<1>8. PICK r : r = Items(y, 1)
  OBVIOUS
<1>9. Matches(r, items, 1)
  BY <1>4, <1>6, <1>8, ItemsRead
<1>10. /\ DOMAIN r = 1 .. n /\ WellFormed(r)
       /\ \A i \in 1 .. n : r[i].string = topics[i].topic /\ r[i].code = topics[i].qos
  <2>1. /\ r \in Seq(OkItem) /\ Len(r) = n
        /\ \A i \in 1 .. n : r[i].string = items[i].string /\ r[i].code = items[i].code
    BY <1>4, <1>9 DEF Matches
  <2>2. DOMAIN r = 1 .. n
    BY <2>1
  <2>3. \A i \in 1 .. n : r[i].ok
    <3> SUFFICES ASSUME NEW i \in 1 .. n PROVE r[i].ok
      OBVIOUS
    <3>1. r[i] \in OkItem
      BY <2>1, ElementOfSeq
    <3> QED
      BY <3>1 DEF OkItem
  <2> QED
    BY <1>4, <2>1, <2>2, <2>3 DEF WellFormed
<1>11. PICK x : x = U16(id) \o y
  OBVIOUS
<1>12. Identified(x, id, y)
  BY <1>7, <1>11, IdInFront
<1>13. x \in Seq(Byte) /\ Len(x) = 2 + Len(y) /\ ReadU16(x) = id /\ AfterId(x) = y
  BY <1>12 DEF Identified
<1>14. PICK p : p = [Blank(SUBSCRIBE) EXCEPT
                    !.packetId = id, !.topics = [i \in DOMAIN topics |-> topics[i].topic],
                    !.payload = [i \in DOMAIN topics |-> topics[i].qos]]
  OBVIOUS
<1>15. /\ Strings(r) = [i \in DOMAIN topics |-> topics[i].topic]
       /\ [i \in DOMAIN r |-> r[i].code] = [i \in DOMAIN topics |-> topics[i].qos]
  BY <1>1, <1>10 DEF Strings
<1>16. NoneEmpty(Strings(r))
  BY <1>1, <1>2, <1>15 DEF NoneEmpty
<1>17. \A i \in DOMAIN r : r[i].code <= 2
  BY <1>2, <1>10
<1>18. id # 0
  BY IdRange
<1>19. Len(x) >= 6
  BY <1>7, <1>13
<1>20. DecodeSubscribe(x) = <<p>>
  BY <1>8, <1>10, <1>13, <1>14, <1>15, <1>16, <1>17, <1>18, <1>19 DEF DecodeSubscribe, Check
<1>21. DecodeBody(8, 2, x) = <<p>>
  BY <1>20 DEF DecodeBody, CONNECT, CONNACK, PUBLISH, SUBSCRIBE, SUBACK, UNSUBSCRIBE,
               PINGREQ, PINGRESP, DISCONNECT
<1>22. LegalFlags(8, 2)
  BY DEF LegalFlags, PUBLISH, PUBREL, SUBSCRIBE, UNSUBSCRIBE
<1>23. 130 \in Byte /\ 130 \div 16 = 8 /\ 130 % 16 = 2 /\ 8 \in 1 .. 14 /\ 16 * SUBSCRIBE + 2 = 130
  BY DEF Byte, SUBSCRIBE
<1>24. Len(x) <= MaxRemaining
  BY <1>5, <1>7, <1>13
<1>25. Meant([bytes |-> BuildPacket(130, x), packet |-> p])
  <2>1. PICK t \in Byte : t = 130 /\ t \div 16 = 8 /\ t % 16 = 2 /\ t \div 16 \in 1 .. 14
    BY <1>23
  <2>2. LegalFlags(t \div 16, t % 16) /\ DecodeBody(t \div 16, t % 16, x) = <<p>>
    BY <1>21, <1>22, <2>1
  <2>3. Meant([bytes |-> BuildPacket(t, x), packet |-> p])
    BY <1>13, <1>24, <2>1, <2>2, MeantIfDecoded
  <2> QED
    BY <2>1, <2>3
<1>26. EncodeSubscribe(id, topics) = BuildPacket(130, x)
  BY <1>5, <1>11, <1>23 DEF EncodeSubscribe, SubscribeRest
<1> QED
  BY <1>14, <1>25, <1>26 DEF SubscribePacket

-----------------------------------------------------------------------------
(* Unsubscribing.                                                          *)

\* Topics that are no longer wanted.
UnsubscribePacket(id, topics) ==
    [bytes |-> EncodeUnsubscribe(id, topics),
     packet |-> [Blank(UNSUBSCRIBE) EXCEPT
                    !.packetId = id, !.topics = [i \in DOMAIN topics |-> topics[i]]]]
\* What follows the identifier.
UnsubscribeRest(topics) == FlattenSeq([i \in DOMAIN topics |-> Utf(topics[i])])

\* It is read as it is meant.
LEMMA UnsubscribeMeant ==
    ASSUME NEW id \in Ids, NEW topics \in Seq(Texts \ {<<>>}), topics # <<>>,
           Len(UnsubscribeRest(topics)) + 2 <= MaxRemaining
    PROVE  Meant(UnsubscribePacket(id, topics))
<1>1. PICK n \in Nat : n = Len(topics) /\ n >= 1 /\ DOMAIN topics = 1 .. n
  <2>1. Len(topics) \in Nat \ {0}
    BY EmptySeq
  <2> QED
    BY <2>1
<1>2. \A i \in 1 .. n : topics[i] \in Texts /\ topics[i] # <<>>
  BY <1>1, ElementOfSeq
<1>3. PICK items : items = [i \in 1 .. n |-> [ok |-> TRUE, string |-> topics[i], code |-> 0]]
  OBVIOUS
<1>4. /\ items \in Seq(TextItem) /\ Len(items) = n
      /\ \A i \in 1 .. n : items[i].string = topics[i]
  <2>1. 0 \in Byte
    BY DEF Byte
  <2>2. \A i \in 1 .. n : [ok |-> TRUE, string |-> topics[i], code |-> 0] \in TextItem
    BY <1>2, <2>1 DEF TextItem
  <2>3. items \in [1 .. n -> TextItem]
    BY <1>3, <2>2
  <2>4. items \in Seq(TextItem) /\ Len(items) = n
    BY <2>3
  <2> QED
    BY <1>3, <2>4
<1>5. PICK y : y = UnsubscribeRest(topics)
  OBVIOUS
<1>6. y = FlattenSeq(ItemPieces(items, 0))
  <2>1. ASSUME NEW i \in 1 .. n PROVE Utf(topics[i]) = ItemPiece(items[i], 0)
    <3>1. topics[i] \in Seq(Byte)
      BY <1>2 DEF Texts
    <3>2. PICK u \in Seq(Byte) : u = Utf(topics[i])
      BY <3>1, UtfBytes
    <3>3. u \o <<>> = u
      BY ConcatEmptySeq
    <3>4. items[i].string = topics[i]
      BY <1>4
    <3> QED
      BY <3>2, <3>3, <3>4 DEF ItemPiece
  <2>2. [i \in DOMAIN topics |-> Utf(topics[i])] = ItemPieces(items, 0)
    BY <1>1, <1>4, <2>1 DEF ItemPieces
  <2> QED
    BY <1>5, <2>2 DEF UnsubscribeRest
<1>7. y \in Seq(Byte) /\ Len(y) >= 3
  <2>1. items # <<>>
    BY <1>1, <1>4
  <2>2. items[1].string # <<>>
    BY <1>1, <1>2, <1>4
  <2>3. y \in Seq(Byte) /\ Len(y) >= 3 + 0
    BY <1>4, <1>6, <2>1, <2>2, PiecesAreLong
  <2> QED
    BY <2>3
<1>8. PICK r : r = Items(y, 0)
  OBVIOUS
<1>9. Matches(r, items, 0)
  BY <1>4, <1>6, <1>8, ItemsRead
<1>10. DOMAIN r = 1 .. n /\ WellFormed(r) /\ \A i \in 1 .. n : r[i].string = topics[i]
  <2>1. /\ r \in Seq(OkItem) /\ Len(r) = n
        /\ \A i \in 1 .. n : r[i].string = items[i].string
    BY <1>4, <1>9 DEF Matches
  <2>2. DOMAIN r = 1 .. n
    BY <2>1
  <2>3. \A i \in 1 .. n : r[i].ok
    <3> SUFFICES ASSUME NEW i \in 1 .. n PROVE r[i].ok
      OBVIOUS
    <3>1. r[i] \in OkItem
      BY <2>1, ElementOfSeq
    <3> QED
      BY <3>1 DEF OkItem
  <2> QED
    BY <1>4, <2>1, <2>2, <2>3 DEF WellFormed
<1>11. PICK x : x = U16(id) \o y
  OBVIOUS
<1>12. Identified(x, id, y)
  BY <1>7, <1>11, IdInFront
<1>13. x \in Seq(Byte) /\ Len(x) = 2 + Len(y) /\ ReadU16(x) = id /\ AfterId(x) = y
  BY <1>12 DEF Identified
<1>14. PICK p : p = [Blank(UNSUBSCRIBE) EXCEPT
                    !.packetId = id, !.topics = [i \in DOMAIN topics |-> topics[i]]]
  OBVIOUS
<1>15. Strings(r) = [i \in DOMAIN topics |-> topics[i]]
  BY <1>1, <1>10 DEF Strings
<1>16. NoneEmpty(Strings(r))
  BY <1>1, <1>2, <1>15 DEF NoneEmpty
<1>17. id # 0
  BY IdRange
<1>18. Len(x) >= 5
  BY <1>7, <1>13
<1>19. DecodeUnsubscribe(x) = <<p>>
  BY <1>8, <1>10, <1>13, <1>14, <1>15, <1>16, <1>17, <1>18 DEF DecodeUnsubscribe, Check
<1>20. DecodeBody(10, 2, x) = <<p>>
  BY <1>19 DEF DecodeBody, CONNECT, CONNACK, PUBLISH, SUBSCRIBE, SUBACK, UNSUBSCRIBE,
               PINGREQ, PINGRESP, DISCONNECT
<1>21. LegalFlags(10, 2)
  BY DEF LegalFlags, PUBLISH, PUBREL, SUBSCRIBE, UNSUBSCRIBE
<1>22. Len(x) <= MaxRemaining
  BY <1>5, <1>7, <1>13
<1>23. 162 \in Byte /\ 162 \div 16 = 10 /\ 162 % 16 = 2 /\ 10 \in 1 .. 14 /\ 16 * UNSUBSCRIBE + 2 = 162
  BY DEF Byte, UNSUBSCRIBE
<1>24. Meant([bytes |-> BuildPacket(162, x), packet |-> p])
  <2>1. PICK t \in Byte : t = 162 /\ t \div 16 = 10 /\ t % 16 = 2 /\ t \div 16 \in 1 .. 14
    BY <1>23
  <2>2. LegalFlags(t \div 16, t % 16) /\ DecodeBody(t \div 16, t % 16, x) = <<p>>
    BY <1>20, <1>21, <2>1
  <2>3. Meant([bytes |-> BuildPacket(t, x), packet |-> p])
    BY <1>13, <1>22, <2>1, <2>2, MeantIfDecoded
  <2> QED
    BY <2>1, <2>3
<1>25. EncodeUnsubscribe(id, topics) = BuildPacket(162, x)
  BY <1>5, <1>11, <1>23 DEF EncodeUnsubscribe, UnsubscribeRest
<1> QED
  BY <1>14, <1>24, <1>25 DEF UnsubscribePacket

\* The flags of a CONNECT, read back.
ConnectFlags(c, w, q, r, p, u) == 2 * c + 4 * w + 8 * q + 32 * r + 64 * p + 128 * u
\* What the decoder reads from f.
FlagsAre(f, c, w, q, r, p, u) ==
    /\ f \in 0 .. 255 /\ (f \div 1) % 2 = 0 /\ (f \div 2) % 2 = c /\ (f \div 4) % 2 = w
    /\ (f \div 8) % 4 = q /\ (f \div 32) % 2 = r /\ (f \div 64) % 2 = p
    /\ (f \div 128) % 2 = u

\* It reads what was written.
LEMMA ConnectFlagsRead ==
    ASSUME NEW c \in 0 .. 1, NEW w \in 0 .. 1, NEW q \in 0 .. 2, NEW r \in 0 .. 1,
           NEW p \in 0 .. 1, NEW u \in 0 .. 1, NEW f, f = ConnectFlags(c, w, q, r, p, u)
    PROVE  FlagsAre(f, c, w, q, r, p, u)
<1>1. f = 2 * c + 4 * w + 8 * q + 32 * r + 64 * p + 128 * u
  BY DEF ConnectFlags
<1>2. f \div 1 = f /\ f % 2 = 0
  BY <1>1
<1>3. f \div 2 = c + 2 * w + 4 * q + 16 * r + 32 * p + 64 * u
  BY <1>1
<1>4. (f \div 2) % 2 = c
  BY <1>3
<1>5. f \div 4 = w + 2 * q + 8 * r + 16 * p + 32 * u
  BY <1>1
<1>6. (f \div 4) % 2 = w
  BY <1>5
<1>7. f \div 8 = q + 4 * r + 8 * p + 16 * u
  BY <1>1
<1>8. (f \div 8) % 4 = q
  BY <1>7
<1>9. f \div 32 = r + 2 * p + 4 * u
  BY <1>1
<1>10. (f \div 32) % 2 = r
  BY <1>9
<1>11. f \div 64 = p + 2 * u
  BY <1>1
<1>12. (f \div 64) % 2 = p
  BY <1>11
<1>13. f \div 128 = u
  BY <1>1
<1>14. (f \div 128) % 2 = u
  BY <1>13
<1>15. f \in 0 .. 255
  BY <1>1
<1> QED
  BY <1>2, <1>4, <1>6, <1>8, <1>10, <1>12, <1>14, <1>15 DEF FlagsAre

\* One string in front of others, if it is there.
TextOf(s) == [ok |-> TRUE, string |-> s, code |-> 0]
\* The bytes of a list of strings.
Flat(items) == FlattenSeq(ItemPieces(items, 0))

\* The bytes of the first string are in front of those of the others.
LEMMA FlatCons ==
    ASSUME NEW s \in Texts, NEW t \in Seq(TextItem)
    PROVE  /\ TextOf(s) \in TextItem /\ <<TextOf(s)>> \o t \in Seq(TextItem)
           /\ Flat(t) \in Seq(Byte) /\ Utf(s) \in Seq(Byte)
           /\ Flat(<<TextOf(s)>> \o t) = Utf(s) \o Flat(t)
<1>1. PICK x \in TextItem : x = TextOf(s)
  <2>1. 0 \in Byte
    BY DEF Byte
  <2> QED
    BY <2>1 DEF TextOf, TextItem
<1>2. x \in OkItem /\ t \in Seq(OkItem)
  BY TextIsOk
<1>3. PICK u \in Seq(Byte) : u = Utf(s)
  BY UtfBytes DEF Texts
<1>4. u \o <<>> = u
  BY ConcatEmptySeq
<1>5. x.string = s
  BY <1>1 DEF TextOf
<1>6. ItemPiece(x, 0) = u
  BY <1>3, <1>4, <1>5 DEF ItemPiece
<1>7. Flat(<<x>> \o t) = u \o Flat(t)
  <2>1. FlattenSeq(ItemPieces(<<x>> \o t, 0)) = ItemPiece(x, 0) \o FlattenSeq(ItemPieces(t, 0))
    <3>1. 0 \in 0 .. 1
      OBVIOUS
    <3> QED
      BY <1>2, <3>1, PiecesCons
  <2> QED
    BY <1>6, <2>1 DEF Flat
<1>8. Flat(t) \in Seq(Byte)
  BY <1>2, PiecesBytes, FlattenIs DEF Flat
<1>9. <<x>> \o t \in Seq(TextItem)
  BY Prepended
<1> QED
  BY <1>1, <1>3, <1>7, <1>8, <1>9

-----------------------------------------------------------------------------
(* Connecting.                                                             *)

\* A string in front of others if k is 1.
With(k, s, t) == IF k = 1 THEN <<TextOf(s)>> \o t ELSE t
\* What a string with its length takes at most.
Longest == 65537

\* What such a list has, and how many bytes it takes.
LEMMA WithIs ==
    ASSUME NEW k \in 0 .. 1, NEW s \in Texts, NEW t \in Seq(TextItem)
    PROVE  /\ With(k, s, t) \in Seq(TextItem) /\ Len(With(k, s, t)) = k + Len(t)
           /\ Flat(t) \in Seq(Byte) /\ Flat(With(k, s, t)) \in Seq(Byte)
           /\ Utf(s) \in Seq(Byte)
           /\ Flat(With(k, s, t)) = (IF k = 1 THEN Utf(s) ELSE <<>>) \o Flat(t)
           /\ Len(Flat(With(k, s, t))) <= Longest + Len(Flat(t))
<1>1. PICK x \in TextItem : x = TextOf(s)
  BY FlatCons
<1>2. PICK v \in Seq(Byte) : v = Flat(t)
  BY FlatCons
<1>3. PICK u \in Seq(Byte) : u = Utf(s) /\ Len(u) <= Longest
  <2>1. Len(Utf(s)) = 2 + Len(s) /\ Len(s) \in Nat /\ Len(s) <= 65535 /\ Utf(s) \in Seq(Byte)
    BY UtfIs DEF Texts
  <2>2. 2 + Len(s) <= 65537
    BY <2>1
  <2> QED
    BY <2>1, <2>2 DEF Longest
<1>4. PICK w : w = With(k, s, t)
  OBVIOUS
<1>5. Longest \in Nat
  BY DEF Longest
<1>6. CASE k = 1
  <2>1. w = <<x>> \o t
    BY <1>1, <1>4, <1>6 DEF With
  <2>2. w \in Seq(TextItem) /\ Len(w) = Len(t) + 1
    BY <2>1, Prepended
  <2>3. Flat(w) = u \o v
    BY <1>1, <1>2, <1>3, <2>1, FlatCons
  <2>4. Flat(w) \in Seq(Byte) /\ Len(Flat(w)) = Len(u) + Len(v)
    BY <2>3, ConcatProperties
  <2>5. Len(u) \in Nat /\ Len(v) \in Nat
    OBVIOUS
  <2>6. Len(Flat(w)) <= Longest + Len(v)
    BY <1>3, <1>5, <2>4, <2>5
  <2>7. Len(w) = k + Len(t)
    <3>1. Len(t) \in Nat
      OBVIOUS
    <3> QED
      BY <1>6, <2>2, <3>1
  <2> QED
    BY <1>2, <1>3, <1>4, <1>6, <2>2, <2>3, <2>4, <2>6, <2>7
<1>7. CASE k = 0
  <2>1. w = t /\ ~(k = 1)
    BY <1>4, <1>7 DEF With
  <2>2. <<>> \o v = v
    BY ConcatEmptySeq
  <2>3. Len(v) \in Nat /\ Len(v) <= Longest + Len(v)
    BY <1>5
  <2>4. Len(w) = k + Len(t)
    <3>1. Len(t) \in Nat
      OBVIOUS
    <3> QED
      BY <1>7, <2>1, <3>1
  <2> QED
    BY <1>2, <1>3, <1>4, <2>1, <2>2, <2>3, <2>4
<1> QED
  BY <1>6, <1>7

\* The protocol name.
LEMMA NameIs == Utf(MqttName) \in Seq(Byte) /\ Len(Utf(MqttName)) = 6
<1>1. MqttName \in Seq(Byte) /\ Len(MqttName) = 4
  BY DEF MqttName, Byte
<1>2. PICK s \in Seq(Byte) : s = MqttName /\ Len(s) = 4
  BY <1>1
<1>3. PICK n \in Nat : n = Len(s) % 65536 /\ n = 4
  BY <1>2
<1>4. PICK h \in Seq(Byte) : h = U16(n) /\ Len(h) = 2
  <2>1. n \in Nat /\ n <= 65535
    BY <1>3
  <2> QED
    BY <2>1, TwoBytes
<1>5. PICK z : z = h \o s
  OBVIOUS
<1>6. Halves(z, h, s)
  BY <1>5, InHalves
<1>7. z \in Seq(Byte) /\ Len(z) = 6
  BY <1>2, <1>4, <1>6 DEF Halves
<1>8. z = Utf(MqttName)
  BY <1>2, <1>3, <1>4, <1>5 DEF Utf
<1> QED
  BY <1>7, <1>8

\* Two bytes one after the other.
LEMMA PairIs == ASSUME NEW c \in Byte, NEW f \in Byte PROVE <<c>> \o <<f>> = <<c, f>>
<1>1. PICK g \in Seq(Byte) : g = <<c>> /\ Len(g) = 1 /\ g[1] = c
  <2>1. <<c>> \in Seq(Byte) /\ Len(<<c>>) = 1 /\ <<c>>[1] = c
    OBVIOUS
  <2> QED
    BY <2>1
<1>2. PICK h \in Seq(Byte) : h = <<f>> /\ Len(h) = 1 /\ h[1] = f
  <2>1. <<f>> \in Seq(Byte) /\ Len(<<f>>) = 1 /\ <<f>>[1] = f
    OBVIOUS
  <2> QED
    BY <2>1
<1>3. PICK z : z = g \o h
  OBVIOUS
<1>4. /\ z \in Seq(Byte) /\ Len(z) = Len(g) + Len(h)
      /\ \A i \in 1 .. Len(g) + Len(h) : z[i] = IF i <= Len(g) THEN g[i] ELSE h[i - Len(g)]
  BY <1>3, ConcatProperties
<1>5. Len(z) = 2 /\ z[1] = c /\ z[2] = f
  BY <1>1, <1>2, <1>4
<1>6. z = <<c, f>>
  <2>1. PICK w \in Seq(Byte) : w = <<c, f>> /\ Len(w) = 2 /\ w[1] = c /\ w[2] = f
    <3>1. /\ <<c, f>> \in Seq(Byte) /\ Len(<<c, f>>) = 2
          /\ <<c, f>>[1] = c /\ <<c, f>>[2] = f
      OBVIOUS
    <3> QED
      BY <3>1
  <2>2. \A i \in 1 .. 2 : w[i] = z[i]
    BY <1>5, <2>1
  <2> QED
    BY <1>4, <1>5, <2>1, <2>2, SeqEqual
<1> QED
  BY <1>1, <1>2, <1>3, <1>6

\* The fixed part of a CONNECT and what follows it.
Fronted(body, f, y) ==
    /\ body \in Seq(Byte) /\ Len(body) = 10 + Len(y)
    /\ SubSeq(body, 1, 7) = Utf(MqttName) \o <<4>> /\ body[8] = f
    /\ SubSeq(body, 11, Len(body)) = y

\* The decoder finds what follows the fixed part.
LEMMA ConnectFront ==
    ASSUME NEW f \in Byte, NEW keep \in Words, NEW y \in Seq(Byte), NEW body,
           body = ((Utf(MqttName) \o <<4, f>>) \o U16(keep)) \o y
    PROVE  Fronted(body, f, y)
<1>1. PICK m \in Seq(Byte) : m = Utf(MqttName) /\ Len(m) = 6
  BY NameIs
<1>2. PICK k \in Seq(Byte) : k = U16(keep) /\ Len(k) = 2
  BY WordRange, TwoBytes
<1>3. PICK c \in Byte : c = 4
  BY DEF Byte
<1>4. <<c>> \in Seq(Byte) /\ Len(<<c>>) = 1 /\ <<f>> \in Seq(Byte) /\ Len(<<f>>) = 1 /\ <<f>>[1] = f
  OBVIOUS
<1>5. <<c>> \o <<f>> = <<c, f>>
  BY PairIs
<1>6. PICK b \in Seq(Byte) : b = m \o <<c>> /\ Len(b) = 7
  <2>1. PICK z : z = m \o <<c>>
    OBVIOUS
  <2>2. Halves(z, m, <<c>>)
    BY <1>4, <2>1, InHalves
  <2>3. z \in Seq(Byte) /\ Len(z) = 7
    BY <1>1, <1>4, <2>2 DEF Halves
  <2> QED
    BY <2>1, <2>3
<1>7. PICK a : a = m \o <<c, f>>
  OBVIOUS
<1>8. a = b \o <<f>>
  BY <1>4, <1>5, <1>6, <1>7, ConcatAssociative
<1>9. Halves(a, b, <<f>>)
  BY <1>4, <1>8, InHalves
<1>10. a \in Seq(Byte) /\ Len(a) = 8 /\ Begins(a, b)
  BY <1>4, <1>6, <1>9 DEF Halves
<1>11. a[8] = f
  <2>1. \A i \in 1 .. Len(b) + Len(<<f>>) :
          (b \o <<f>>)[i] = IF i <= Len(b) THEN b[i] ELSE <<f>>[i - Len(b)]
    BY <1>4, ConcatProperties
  <2>2. 8 \in 1 .. Len(b) + Len(<<f>>) /\ ~(8 <= Len(b)) /\ 8 - Len(b) = 1
    BY <1>4, <1>6
  <2>3. a[8] = <<f>>[8 - Len(b)]
    BY <1>8, <2>1, <2>2
  <2> QED
    BY <1>4, <2>2, <2>3
<1>12. PICK d : d = a \o k
  OBVIOUS
<1>13. Halves(d, a, k)
  BY <1>10, <1>12, InHalves
<1>14. d \in Seq(Byte) /\ Len(d) = 10 /\ Begins(d, a)
  BY <1>2, <1>10, <1>13 DEF Halves
<1>15. body = d \o y
  BY <1>1, <1>2, <1>3, <1>7, <1>12
<1>16. Halves(body, d, y)
  BY <1>14, <1>15, InHalves
<1>17. /\ body \in Seq(Byte) /\ Len(body) = 10 + Len(y) /\ Begins(body, d)
       /\ SubSeq(body, 10 + 1, Len(body)) = y
  BY <1>14, <1>16 DEF Halves
<1>18. body[8] = f
  <2>1. 8 \in 1 .. Len(a) /\ 8 \in 1 .. Len(d)
    BY <1>10, <1>14
  <2>2. body[8] = d[8]
    BY <1>17, <2>1 DEF Begins
  <2>3. d[8] = a[8]
    BY <1>14, <2>1 DEF Begins
  <2> QED
    BY <1>11, <2>2, <2>3
<1>19. SubSeq(body, 1, 7) = b
  <2>1. 1 \in Nat \ {0} /\ 7 \in Int /\ 7 <= Len(b) /\ 7 <= Len(a) /\ 7 <= Len(d)
    BY <1>6, <1>10, <1>14
  <2>2. SubSeq(body, 1, 7) = SubSeq(d, 1, 7)
    <3>1. body \in Seq(Byte) /\ d \in Seq(Byte) /\ Begins(body, d)
      BY <1>14, <1>17
    <3>2. SamePieces(body, d)
      BY <3>1, InFirstHalf, Zenon
    <3> QED
      BY <2>1, <3>2 DEF SamePieces
  <2>3. SubSeq(d, 1, 7) = SubSeq(a, 1, 7)
    <3>1. d \in Seq(Byte) /\ a \in Seq(Byte) /\ Begins(d, a)
      BY <1>10, <1>14
    <3>2. SamePieces(d, a)
      BY <3>1, InFirstHalf, Zenon
    <3> QED
      BY <2>1, <3>2 DEF SamePieces
  <2>4. SubSeq(a, 1, 7) = SubSeq(b, 1, 7)
    <3>1. a \in Seq(Byte) /\ b \in Seq(Byte) /\ Begins(a, b)
      BY <1>6, <1>10
    <3>2. SamePieces(a, b)
      BY <3>1, InFirstHalf, Zenon
    <3> QED
      BY <2>1, <3>2 DEF SamePieces
  <2>5. SubSeq(b, 1, 7) = b
    BY <1>6, SubSeqFull
  <2> QED
    BY <2>2, <2>3, <2>4, <2>5
<1>20. 10 + 1 = 11
  OBVIOUS
<1> QED
  BY <1>1, <1>3, <1>6, <1>17, <1>18, <1>19, <1>20 DEF Fronted

\* The strings of a CONNECT: w, u and p are 1 if there is a will, a user name,
\* a password.
ConnectTexts(cid, wt, wp, un, pw, w, u, p) ==
    With(1, cid, With(w, wt, With(w, wp, With(u, un, With(p, pw, <<>>)))))
\* A string if it is there.
Optional(k, s) == IF k = 1 THEN Utf(s) ELSE <<>>
\* A list that has a string in front of another list if k is 1.
Led(m, k, s, t) ==
    /\ Len(m) = k + Len(t) /\ Flat(m) \in Seq(Byte) /\ Flat(m) = Optional(k, s) \o Flat(t)
    /\ Len(Flat(m)) <= Longest + Len(Flat(t))

\* With makes such a list.
LEMMA WithLed ==
    ASSUME NEW k \in 0 .. 1, NEW s \in Texts, NEW t \in Seq(TextItem)
    PROVE  With(k, s, t) \in Seq(TextItem) /\ Led(With(k, s, t), k, s, t)
BY WithIs, Zenon DEF Led, Optional

\* The list of the strings, and the bytes it takes.
ListIs(l, cid, wt, wp, un, pw, w, u, p) ==
    /\ cid \in Texts /\ wt \in Texts /\ wp \in Texts /\ un \in Texts /\ pw \in Texts
    /\ l \in Seq(TextItem) /\ Len(l) = 1 + 2 * w + u + p /\ l[1].string = cid
    /\ w = 1 => l[2].string = wt /\ l[3].string = wp
    /\ Flat(l) \in Seq(Byte) /\ Len(Flat(l)) <= 5 * Longest /\ 2 <= Len(Flat(l))
    /\ Flat(l) = Utf(cid) \o (Optional(w, wt) \o (Optional(w, wp)
                     \o (Optional(u, un) \o Optional(p, pw))))

\* What ConnectTexts makes is that.
LEMMA ConnectTextsAre ==
    ASSUME NEW cid \in Texts, NEW wt \in Texts, NEW wp \in Texts, NEW un \in Texts,
           NEW pw \in Texts, NEW w \in 0 .. 1, NEW u \in 0 .. 1, NEW p \in 0 .. 1,
           NEW l, l = ConnectTexts(cid, wt, wp, un, pw, w, u, p)
    PROVE  ListIs(l, cid, wt, wp, un, pw, w, u, p)
<1>1. PICK l0 \in Seq(TextItem) : l0 = <<>> /\ Len(l0) = 0 /\ Flat(l0) = <<>>
  <2>1. <<>> \in Seq(TextItem) /\ Len(<<>>) = 0
    OBVIOUS
  <2>2. Flat(<<>>) = <<>>
    BY NoPieces DEF Flat
  <2> QED
    BY <2>1, <2>2
<1>2. PICK l1 \in Seq(TextItem) : l1 = With(p, pw, l0) /\ Led(l1, p, pw, l0)
  BY WithLed
<1>3. PICK l2 \in Seq(TextItem) : l2 = With(u, un, l1) /\ Led(l2, u, un, l1)
  BY WithLed
<1>4. PICK l3 \in Seq(TextItem) : l3 = With(w, wp, l2) /\ Led(l3, w, wp, l2)
  BY WithLed
<1>5. PICK l4 \in Seq(TextItem) : l4 = With(w, wt, l3) /\ Led(l4, w, wt, l3)
  BY WithLed
<1>6. PICK l5 \in Seq(TextItem) : l5 = With(1, cid, l4) /\ Led(l5, 1, cid, l4)
  BY WithLed
<1>7. l = l5
  BY <1>1, <1>2, <1>3, <1>4, <1>5, <1>6 DEF ConnectTexts
<1>8. /\ Len(l1) = p + Len(l0) /\ Len(l2) = u + Len(l1) /\ Len(l3) = w + Len(l2)
      /\ Len(l4) = w + Len(l3) /\ Len(l5) = 1 + Len(l4)
  BY <1>2, <1>3, <1>4, <1>5, <1>6 DEF Led
<1>9. Len(l5) = 1 + 2 * w + u + p
  BY <1>1, <1>8
<1>10. /\ Flat(l1) \in Seq(Byte) /\ Flat(l2) \in Seq(Byte) /\ Flat(l3) \in Seq(Byte)
       /\ Flat(l4) \in Seq(Byte) /\ Flat(l5) \in Seq(Byte)
  BY <1>2, <1>3, <1>4, <1>5, <1>6 DEF Led
<1>11. /\ Len(Flat(l1)) <= Longest + Len(Flat(l0)) /\ Len(Flat(l2)) <= Longest + Len(Flat(l1))
       /\ Len(Flat(l3)) <= Longest + Len(Flat(l2)) /\ Len(Flat(l4)) <= Longest + Len(Flat(l3))
       /\ Len(Flat(l5)) <= Longest + Len(Flat(l4))
  BY <1>2, <1>3, <1>4, <1>5, <1>6 DEF Led
<1>12. Len(Flat(l5)) <= 5 * Longest
  <2>1. Longest \in Nat
    BY DEF Longest
  <2>2. Len(Flat(l0)) = 0
    BY <1>1
  <2>3. /\ Len(Flat(l1)) \in Nat /\ Len(Flat(l2)) \in Nat /\ Len(Flat(l3)) \in Nat
        /\ Len(Flat(l4)) \in Nat /\ Len(Flat(l5)) \in Nat
    BY <1>10, LenProperties
  <2> QED
    BY <1>11, <2>1, <2>2, <2>3
<1>13. /\ Flat(l1) = Optional(p, pw) \o Flat(l0) /\ Flat(l2) = Optional(u, un) \o Flat(l1)
       /\ Flat(l3) = Optional(w, wp) \o Flat(l2) /\ Flat(l4) = Optional(w, wt) \o Flat(l3)
       /\ Flat(l5) = Optional(1, cid) \o Flat(l4)
  BY <1>2, <1>3, <1>4, <1>5, <1>6, Zenon DEF Led
<1>14. Flat(l1) = Optional(p, pw)
  <2>1. Optional(p, pw) \in Seq(Byte)
    BY UtfIs DEF Optional
  <2>2. Optional(p, pw) \o <<>> = Optional(p, pw)
    BY <2>1, ConcatEmptySeq
  <2> QED
    BY <1>1, <1>13, <2>2
<1>15. Optional(1, cid) = Utf(cid)
  BY DEF Optional
<1>16. Flat(l5) = Utf(cid) \o (Optional(w, wt) \o (Optional(w, wp)
                          \o (Optional(u, un) \o Optional(p, pw))))
  BY <1>13, <1>14, <1>15
<1>17. l5[1].string = cid
  <2>1. PICK x \in TextItem : x = TextOf(cid)
    BY FlatCons
  <2>2. l5 = <<x>> \o l4
    BY <1>6, <2>1 DEF With
  <2>3. l5[1] = x
    BY <2>2, Prepended
  <2> QED
    BY <2>1, <2>3 DEF TextOf
<1>18. ASSUME w = 1 PROVE l5[2].string = wt /\ l5[3].string = wp
  <2>1. PICK x \in TextItem : x = TextOf(cid)
    BY FlatCons
  <2>2. PICK y \in TextItem : y = TextOf(wt)
    BY FlatCons
  <2>3. PICK z \in TextItem : z = TextOf(wp)
    BY FlatCons
  <2>4. l5 = <<x>> \o l4 /\ l4 = <<y>> \o l3 /\ l3 = <<z>> \o l2
    BY <1>4, <1>5, <1>6, <1>18, <2>1, <2>2, <2>3 DEF With
  <2>5. l3[1] = z /\ Len(l3) = Len(l2) + 1
    BY <2>4, Prepended
  <2>6. l4[1] = y /\ Len(l4) = Len(l3) + 1 /\ \A i \in 1 .. Len(l3) : l4[i + 1] = l3[i]
    BY <2>4, Prepended
  <2>7. \A i \in 1 .. Len(l4) : l5[i + 1] = l4[i]
    BY <2>4, Prepended
  <2>8. 1 \in 1 .. Len(l3) /\ 1 \in 1 .. Len(l4) /\ 2 \in 1 .. Len(l4)
    <3>1. Len(l2) \in Nat
      OBVIOUS
    <3> QED
      BY <2>5, <2>6, <3>1
  <2>9. l4[1 + 1] = z /\ l5[1 + 1] = y /\ l5[2 + 1] = l4[2]
    BY <2>5, <2>6, <2>7, <2>8
  <2>10. l5[2] = y /\ l5[3] = z
    BY <2>9
  <2> QED
    BY <2>2, <2>3, <2>10 DEF TextOf
<1>19. 2 <= Len(Flat(l5))
  <2>1. PICK x \in Seq(Byte), k \in Nat : x = Utf(cid) /\ k = Len(cid) /\ Len(x) = 2 + k
    BY UtfIs
  <2>2. PICK z \in Seq(Byte), m \in Nat : z = Flat(l4) /\ m = Len(z)
    BY <1>10
  <2>3. Flat(l5) = x \o z
    BY <1>13, <1>15, <2>1, <2>2
  <2>4. Halves(Flat(l5), x, z)
    BY <2>3, InHalves
  <2>5. Len(Flat(l5)) = Len(x) + Len(z)
    BY <2>4 DEF Halves
  <2>6. Len(Flat(l5)) = 2 + k + m
    BY <2>1, <2>2, <2>5
  <2> QED
    BY <2>6
<1> QED
  BY <1>7, <1>9, <1>10, <1>12, <1>16, <1>17, <1>18, <1>19 DEF ListIs

\* Concatenation as an operator of its own: it is associative.
Cat(a, b) == a \o b

\* It is.
LEMMA CatIs ==
    /\ \A a, b \in Seq(Byte) : Cat(a, b) \in Seq(Byte)
    /\ \A a, b, c \in Seq(Byte) : Cat(Cat(a, b), c) = Cat(a, Cat(b, c))
<1>1. ASSUME NEW a \in Seq(Byte), NEW b \in Seq(Byte) PROVE Cat(a, b) \in Seq(Byte)
  BY ConcatProperties DEF Cat
<1>2. ASSUME NEW a \in Seq(Byte), NEW b \in Seq(Byte), NEW c \in Seq(Byte)
      PROVE  Cat(Cat(a, b), c) = Cat(a, Cat(b, c))
  BY ConcatAssociative DEF Cat
<1> QED
  BY <1>1, <1>2

\* The same strings as they are written out.
LEMMA WrittenOut ==
    ASSUME NEW q \in Seq(Byte), NEW a \in Seq(Byte), NEW b \in Seq(Byte), NEW c \in Seq(Byte),
           NEW d \in Seq(Byte), NEW e \in Seq(Byte)
    PROVE  Cat(Cat(Cat(Cat(q, a), Cat(b, c)), d), e) = Cat(q, Cat(a, Cat(b, Cat(c, Cat(d, e)))))
<1>1. Cat(Cat(Cat(Cat(q, a), Cat(b, c)), d), e) = Cat(Cat(Cat(q, a), Cat(b, c)), Cat(d, e))
  <2>1. Cat(Cat(q, a), Cat(b, c)) \in Seq(Byte)
    BY CatIs, SMT
  <2> QED
    BY <2>1, CatIs, SMT
<1>2. Cat(Cat(Cat(q, a), Cat(b, c)), Cat(d, e)) = Cat(Cat(q, a), Cat(Cat(b, c), Cat(d, e)))
  <2>1. Cat(q, a) \in Seq(Byte) /\ Cat(b, c) \in Seq(Byte) /\ Cat(d, e) \in Seq(Byte)
    BY CatIs, SMT
  <2> QED
    BY <2>1, CatIs, SMT
<1>3. Cat(Cat(b, c), Cat(d, e)) = Cat(b, Cat(c, Cat(d, e)))
  <2>1. Cat(d, e) \in Seq(Byte)
    BY CatIs, SMT
  <2> QED
    BY <2>1, CatIs, SMT
<1>4. Cat(Cat(q, a), Cat(b, Cat(c, Cat(d, e)))) = Cat(q, Cat(a, Cat(b, Cat(c, Cat(d, e)))))
  <2>1. Cat(d, e) \in Seq(Byte)
    BY CatIs, SMT
  <2>2. Cat(c, Cat(d, e)) \in Seq(Byte)
    BY <2>1, CatIs, SMT
  <2>3. Cat(b, Cat(c, Cat(d, e))) \in Seq(Byte)
    BY <2>2, CatIs, SMT
  <2> QED
    BY <2>3, CatIs, SMT
<1> QED
  BY <1>1, <1>2, <1>3, <1>4

\* What the body of a CONNECT must be to be accepted, and what it then says: with
\* a will ...
ConnectOf(body, f, it, s) ==
    /\ f = body[8] /\ it = Items(SubSeq(body, 11, Len(body)), 0) /\ s = Strings(it)
    /\ Len(body) >= 12 /\ SubSeq(body, 1, 7) = Utf(MqttName) \o <<4>>
    /\ ~((f \div 1) % 2 = 1) /\ ((f \div 64) % 2 = 1 => (f \div 128) % 2 = 1)
    /\ WellFormed(it) /\ (s[1] = <<>> => (f \div 2) % 2 = 1)
    /\ Len(it) = 1 + Bit((f \div 4) % 2 = 1, 2) + Bit((f \div 128) % 2 = 1, 1)
                    + Bit((f \div 64) % 2 = 1, 1)
\* Flags and strings with a legal will, and flags without one.
Willing(f, s) == (f \div 4) % 2 = 1 /\ (f \div 8) % 4 # 3 /\ s[2] # <<>>
Unwilling(f) == ~((f \div 4) % 2 = 1) /\ (f \div 8) % 4 = 0 /\ ~((f \div 32) % 2 = 1)

\* A body with a will.
LEMMA WithWill ==
    ASSUME NEW body, NEW f, NEW it, NEW s, ConnectOf(body, f, it, s),
           Willing(f, s)
    PROVE  DecodeConnect(body) =
             <<[Blank(CONNECT) EXCEPT !.topics = <<s[1]>>, !.topic = s[2], !.payload = s[3]]>>
BY Zenon DEF DecodeConnect, Check, Field, ConnectOf, Willing

\* ... and without.
LEMMA WithoutWill ==
    ASSUME NEW body, NEW f, NEW it, NEW s, ConnectOf(body, f, it, s),
           Unwilling(f)
    PROVE  DecodeConnect(body) =
             <<[Blank(CONNECT) EXCEPT !.topics = <<s[1]>>, !.topic = <<>>, !.payload = <<>>]>>
BY Zenon DEF DecodeConnect, Check, Field, ConnectOf, Unwilling

\* A body with these flags and these strings is read as what was written.
Connecting(c, w, q, r, p, u, f, cid, wt, wp, un, pw, l, y, body) ==
    /\ c \in 0 .. 1 /\ w \in 0 .. 1 /\ q \in 0 .. 2
    /\ r \in 0 .. 1 /\ p \in 0 .. 1 /\ u \in 0 .. 1
    /\ f \in Byte /\ f = ConnectFlags(c, w, q, r, p, u)
    /\ cid \in Texts /\ wt \in Texts /\ wp \in Texts /\ un \in Texts /\ pw \in Texts
    /\ l = ConnectTexts(cid, wt, wp, un, pw, w, u, p) /\ y \in Seq(Byte) /\ y = Flat(l)
    /\ Fronted(body, f, y)
    /\ p = 1 => u = 1
    /\ w = 0 => q = 0 /\ r = 0
    /\ w = 1 => wt # <<>>
    /\ cid = <<>> => c = 1
\* ... whatever there is besides the client identifier and the will.
Readable(body, w, cid, wt, wp) ==
    \E c, q, r, p, u, f, un, pw, l, y :
        Connecting(c, w, q, r, p, u, f, cid, wt, wp, un, pw, l, y, body)
\* What it says.
ConnectSays(w, cid, wt, wp) ==
    [Blank(CONNECT) EXCEPT !.topics = <<cid>>, !.topic = IF w = 1 THEN wt ELSE <<>>,
                           !.payload = IF w = 1 THEN wp ELSE <<>>]

\* What is read is what it says.
LEMMA ConnectRead ==
    ASSUME NEW w, NEW cid, NEW wt, NEW wp, NEW body, Readable(body, w, cid, wt, wp)
    PROVE  DecodeConnect(body) = <<ConnectSays(w, cid, wt, wp)>>
<1>1. PICK c, q, r, p, u, f, un, pw, l, y :
               Connecting(c, w, q, r, p, u, f, cid, wt, wp, un, pw, l, y, body)
  BY Zenon DEF Readable
<1>2. /\ c \in 0 .. 1 /\ w \in 0 .. 1 /\ q \in 0 .. 2
      /\ r \in 0 .. 1 /\ p \in 0 .. 1 /\ u \in 0 .. 1
      /\ f \in Byte /\ f = ConnectFlags(c, w, q, r, p, u)
      /\ cid \in Texts /\ wt \in Texts /\ wp \in Texts /\ un \in Texts /\ pw \in Texts
      /\ l = ConnectTexts(cid, wt, wp, un, pw, w, u, p) /\ y \in Seq(Byte) /\ y = Flat(l)
      /\ Fronted(body, f, y)
      /\ p = 1 => u = 1
      /\ w = 0 => q = 0 /\ r = 0
      /\ w = 1 => wt # <<>>
      /\ cid = <<>> => c = 1
  BY <1>1, Zenon DEF Connecting
<1>3. /\ l \in Seq(TextItem) /\ Len(l) = 1 + 2 * w + u + p /\ l[1].string = cid
      /\ w = 1 => l[2].string = wt /\ l[3].string = wp
      /\ 2 <= Len(Flat(l))
  <2>1. ListIs(l, cid, wt, wp, un, pw, w, u, p)
    BY <1>2, ConnectTextsAre
  <2> QED
    BY <2>1 DEF ListIs
<1>4. PICK it : it = Items(y, 0)
  OBVIOUS
<1>5. Matches(it, l, 0)
  <2>1. 0 \in 0 .. 1 /\ y = FlattenSeq(ItemPieces(l, 0))
    BY <1>2 DEF Flat
  <2> QED
    BY <1>3, <1>4, <2>1, ItemsRead
<1>6. /\ it \in Seq(OkItem) /\ Len(it) = Len(l)
      /\ \A i \in 1 .. Len(l) : it[i].string = l[i].string
  BY <1>5 DEF Matches
<1>7. PICK n \in Nat : n = Len(it) /\ n = 1 + 2 * w + u + p /\ n >= 1 /\ DOMAIN it = 1 .. n
  BY <1>2, <1>3, <1>6
<1>8. WellFormed(it)
  <2>1. \A i \in 1 .. n : it[i].ok
    <3> SUFFICES ASSUME NEW i \in 1 .. n PROVE it[i].ok
      OBVIOUS
    <3>1. it[i] \in OkItem
      BY <1>6, <1>7, ElementOfSeq
    <3> QED
      BY <3>1 DEF OkItem
  <2> QED
    BY <1>7, <2>1 DEF WellFormed
<1>9. PICK s : s = Strings(it)
  OBVIOUS
<1>10. \A i \in 1 .. n : s[i] = l[i].string
  BY <1>3, <1>6, <1>7, <1>9 DEF Strings
<1>11. s[1] = cid
  <2>1. 1 \in 1 .. n
    BY <1>7
  <2> QED
    BY <1>3, <1>10, <2>1
<1>12. w = 1 => s[2] = wt /\ s[3] = wp
  <2> SUFFICES ASSUME w = 1 PROVE s[2] = wt /\ s[3] = wp
    OBVIOUS
  <2>1. 2 \in 1 .. n /\ 3 \in 1 .. n
    BY <1>2, <1>7
  <2> QED
    BY <1>3, <1>10, <2>1
<1>13. /\ (f \div 1) % 2 = 0 /\ (f \div 2) % 2 = c /\ (f \div 4) % 2 = w
       /\ (f \div 8) % 4 = q /\ (f \div 32) % 2 = r /\ (f \div 64) % 2 = p
       /\ (f \div 128) % 2 = u
  <2>1. FlagsAre(f, c, w, q, r, p, u)
    BY <1>2, ConnectFlagsRead
  <2> QED
    BY <2>1 DEF FlagsAre
<1>14. /\ Len(body) >= 12 /\ SubSeq(body, 1, 7) = Utf(MqttName) \o <<4>> /\ body[8] = f
       /\ SubSeq(body, 11, Len(body)) = y
  <2>1. PICK m \in Nat : m = Len(y) /\ 2 <= m
    BY <1>2, <1>3
  <2>2. /\ Len(body) = 10 + Len(y) /\ SubSeq(body, 1, 7) = Utf(MqttName) \o <<4>>
        /\ body[8] = f /\ SubSeq(body, 11, Len(body)) = y
    BY <1>2, Zenon DEF Fronted
  <2>3. Len(body) >= 12
    BY <2>1, <2>2
  <2> QED
    BY <2>2, <2>3
<1>15. w = 1 \/ w = 0
  BY <1>2
<1>16. CASE w = 1
  <2>1. /\ ~((f \div 1) % 2 = 1) /\ (f \div 4) % 2 = 1 /\ (f \div 8) % 4 # 3
        /\ ((f \div 64) % 2 = 1 => (f \div 128) % 2 = 1)
        /\ (s[1] = <<>> => (f \div 2) % 2 = 1)
    BY <1>2, <1>11, <1>13, <1>16
  <2>2. Len(it) = 1 + Bit((f \div 4) % 2 = 1, 2) + Bit((f \div 128) % 2 = 1, 1)
                    + Bit((f \div 64) % 2 = 1, 1)
    <3>1. Bit((f \div 4) % 2 = 1, 2) = 2 * w
      BY <1>13, <1>16 DEF Bit
    <3>2. Bit((f \div 128) % 2 = 1, 1) = u
      BY <1>2, <1>13 DEF Bit
    <3>3. Bit((f \div 64) % 2 = 1, 1) = p
      BY <1>2, <1>13 DEF Bit
    <3> QED
      BY <1>7, <3>1, <3>2, <3>3
  <2>3. DecodeConnect(body) = <<[Blank(CONNECT) EXCEPT !.topics = <<s[1]>>, !.topic = s[2],
                                      !.payload = s[3]]>>
    <3>1. s[2] # <<>> /\ f = body[8] /\ it = Items(SubSeq(body, 11, Len(body)), 0)
      BY <1>2, <1>4, <1>12, <1>14, <1>16
    <3>2. ConnectOf(body, f, it, s)
      BY <1>8, <1>9, <1>14, <2>1, <2>2, <3>1, Zenon DEF ConnectOf
    <3>3. Willing(f, s)
      BY <2>1, <3>1, Zenon DEF Willing
    <3> QED
      BY <3>2, <3>3, WithWill, Zenon
  <2>4. s[1] = cid /\ s[2] = wt /\ s[3] = wp
    BY <1>11, <1>12, <1>16
  <2> QED
    BY <1>16, <2>3, <2>4, Zenon DEF ConnectSays
<1>17. CASE w = 0
  <2>1. /\ ~((f \div 1) % 2 = 1) /\ ~((f \div 4) % 2 = 1) /\ (f \div 8) % 4 = 0
        /\ ~((f \div 32) % 2 = 1) /\ ((f \div 64) % 2 = 1 => (f \div 128) % 2 = 1)
        /\ (s[1] = <<>> => (f \div 2) % 2 = 1)
    BY <1>2, <1>11, <1>13, <1>17
  <2>2. Len(it) = 1 + Bit((f \div 4) % 2 = 1, 2) + Bit((f \div 128) % 2 = 1, 1)
                    + Bit((f \div 64) % 2 = 1, 1)
    <3>1. Bit((f \div 4) % 2 = 1, 2) = 2 * w
      BY <1>13, <1>17 DEF Bit
    <3>2. Bit((f \div 128) % 2 = 1, 1) = u
      BY <1>2, <1>13 DEF Bit
    <3>3. Bit((f \div 64) % 2 = 1, 1) = p
      BY <1>2, <1>13 DEF Bit
    <3> QED
      BY <1>7, <3>1, <3>2, <3>3
  <2>3. DecodeConnect(body) = <<[Blank(CONNECT) EXCEPT !.topics = <<s[1]>>, !.topic = <<>>,
                                      !.payload = <<>>]>>
    <3>1. f = body[8] /\ it = Items(SubSeq(body, 11, Len(body)), 0)
      BY <1>4, <1>14
    <3>2. ConnectOf(body, f, it, s)
      BY <1>8, <1>9, <1>14, <2>1, <2>2, <3>1, Zenon DEF ConnectOf
    <3>3. Unwilling(f)
      BY <2>1, Zenon DEF Unwilling
    <3> QED
      BY <3>2, <3>3, WithoutWill, Zenon
  <2>4. ~(w = 1)
    BY <1>17
  <2> QED
    BY <1>11, <2>3, <2>4, Zenon DEF ConnectSays
<1> QED
  BY <1>15, <1>16, <1>17

\* The options of a connection.
Options ==
    [cleanSession : BOOLEAN, willTopic : Texts, willPayload : Texts, willQos : 0 .. 2,
     willRetain : BOOLEAN, username : Texts, password : Texts, keepaliveSec : Words,
     clientId : Texts]
\* The request as it is written and as it is meant.
ConnectPacket(opt) ==
    [bytes |-> EncodeConnect(opt),
     packet |-> [Blank(CONNECT) EXCEPT
                    !.topics = <<opt.clientId>>, !.topic = opt.willTopic,
                    !.payload = IF opt.willTopic # <<>> THEN opt.willPayload ELSE <<>>]]

\* The flags and the strings that options stand for.
OptionsAre(opt, c, w, q, r, p, u) ==
    /\ c \in 0 .. 1 /\ w \in 0 .. 1 /\ q \in 0 .. 2
    /\ r \in 0 .. 1 /\ p \in 0 .. 1 /\ u \in 0 .. 1
    /\ opt.willQos \in 0 .. 2
    /\ Bit(opt.cleanSession, 2) = 2 * c
    /\ Bit(opt.willTopic # <<>>, 4 + 8 * opt.willQos) = 4 * w + 8 * q
    /\ Bit(opt.willTopic # <<>> /\ opt.willRetain, 32) = 32 * r
    /\ Bit(opt.password # <<>>, 64) = 64 * p /\ Bit(opt.username # <<>>, 128) = 128 * u
    /\ (opt.cleanSession => c = 1) /\ (opt.willTopic # <<>> <=> w = 1)
    /\ (opt.password # <<>> <=> p = 1) /\ (opt.username # <<>> <=> u = 1)
    /\ (w = 0 => q = 0 /\ r = 0)

\* Every record of options stands for some.
LEMMA OptionsInBits ==
    ASSUME NEW opt \in Options
    PROVE  \E c, w, r, p, u \in 0 .. 1, q \in 0 .. 2 : OptionsAre(opt, c, w, q, r, p, u)
<1>1. /\ opt.cleanSession \in BOOLEAN /\ opt.willRetain \in BOOLEAN /\ opt.willQos \in 0 .. 2
  BY DEF Options
<1>2. PICK c \in 0 .. 1 : Bit(opt.cleanSession, 2) = 2 * c /\ (opt.cleanSession => c = 1)
  <2>1. CASE opt.cleanSession
    <3>1. Bit(opt.cleanSession, 2) = 2 * 1 /\ 1 \in 0 .. 1
      BY <2>1 DEF Bit
    <3> QED
      BY <3>1
  <2>2. CASE ~opt.cleanSession
    <3>1. Bit(opt.cleanSession, 2) = 2 * 0 /\ 0 \in 0 .. 1
      BY <2>2 DEF Bit
    <3> QED
      BY <2>2, <3>1
  <2> QED
    BY <2>1, <2>2
<1>3. PICK p \in 0 .. 1 : Bit(opt.password # <<>>, 64) = 64 * p /\ (opt.password # <<>> <=> p = 1)
  <2>1. CASE opt.password # <<>>
    <3>1. Bit(opt.password # <<>>, 64) = 64 * 1 /\ 1 \in 0 .. 1
      BY <2>1 DEF Bit
    <3> QED
      BY <2>1, <3>1
  <2>2. CASE opt.password = <<>>
    <3>1. Bit(opt.password # <<>>, 64) = 64 * 0 /\ 0 \in 0 .. 1 /\ ~(0 = 1)
      BY <2>2 DEF Bit
    <3> QED
      BY <2>2, <3>1
  <2> QED
    BY <2>1, <2>2
<1>4. PICK u \in 0 .. 1 : Bit(opt.username # <<>>, 128) = 128 * u /\ (opt.username # <<>> <=> u = 1)
  <2>1. CASE opt.username # <<>>
    <3>1. Bit(opt.username # <<>>, 128) = 128 * 1 /\ 1 \in 0 .. 1
      BY <2>1 DEF Bit
    <3> QED
      BY <2>1, <3>1
  <2>2. CASE opt.username = <<>>
    <3>1. Bit(opt.username # <<>>, 128) = 128 * 0 /\ 0 \in 0 .. 1 /\ ~(0 = 1)
      BY <2>2 DEF Bit
    <3> QED
      BY <2>2, <3>1
  <2> QED
    BY <2>1, <2>2
<1>5. PICK w \in 0 .. 1, q \in 0 .. 2, r \in 0 .. 1 :
         /\ Bit(opt.willTopic # <<>>, 4 + 8 * opt.willQos) = 4 * w + 8 * q
         /\ Bit(opt.willTopic # <<>> /\ opt.willRetain, 32) = 32 * r
         /\ (opt.willTopic # <<>> <=> w = 1) /\ (w = 0 => q = 0 /\ r = 0)
  <2>1. CASE opt.willTopic # <<>> /\ opt.willRetain
    <3>1. PICK q \in 0 .. 2 : q = opt.willQos
      BY <1>1
    <3>2. /\ Bit(opt.willTopic # <<>>, 4 + 8 * q) = 4 + 8 * q
          /\ Bit(opt.willTopic # <<>> /\ opt.willRetain, 32) = 32
      BY <2>1 DEF Bit
    <3>3. 4 + 8 * q = 4 * 1 + 8 * q /\ 32 = 32 * 1 /\ 1 \in 0 .. 1 /\ ~(1 = 0)
      OBVIOUS
    <3> QED
      BY <2>1, <3>1, <3>2, <3>3
  <2>2. CASE opt.willTopic # <<>> /\ ~opt.willRetain
    <3>1. PICK q \in 0 .. 2 : q = opt.willQos
      BY <1>1
    <3>2. /\ Bit(opt.willTopic # <<>>, 4 + 8 * q) = 4 + 8 * q
          /\ Bit(opt.willTopic # <<>> /\ opt.willRetain, 32) = 0
      BY <2>2 DEF Bit
    <3>3. 4 + 8 * q = 4 * 1 + 8 * q /\ 0 = 32 * 0 /\ 1 \in 0 .. 1 /\ 0 \in 0 .. 1 /\ ~(1 = 0)
      OBVIOUS
    <3> QED
      BY <2>2, <3>1, <3>2, <3>3
  <2>3. CASE opt.willTopic = <<>>
    <3>1. /\ Bit(opt.willTopic # <<>>, 4 + 8 * opt.willQos) = 0
          /\ Bit(opt.willTopic # <<>> /\ opt.willRetain, 32) = 0
      BY <2>3 DEF Bit
    <3>2. 0 = 4 * 0 + 8 * 0 /\ 0 = 32 * 0 /\ 0 \in 0 .. 1 /\ 0 \in 0 .. 2 /\ ~(0 = 1)
      OBVIOUS
    <3> QED
      BY <2>3, <3>1, <3>2
  <2> QED
    BY <2>1, <2>2, <2>3
<1>6. OptionsAre(opt, c, w, q, r, p, u)
  BY <1>1, <1>2, <1>3, <1>4, <1>5, Zenon DEF OptionsAre
<1> QED
  BY <1>6

\* What the encoder writes of options, by the flags and strings they stand for.
LEMMA ConnectWritten ==
    ASSUME NEW opt, NEW c, NEW w, NEW q, NEW r, NEW p, NEW u,
           OptionsAre(opt, c, w, q, r, p, u), p = 1 => u = 1
    PROVE  EncodeConnect(opt) =
             BuildPacket(16, (((((Utf(MqttName) \o <<4, ConnectFlags(c, w, q, r, p, u)>>)
                                    \o U16(opt.keepaliveSec)) \o Utf(opt.clientId))
                                \o (Optional(w, opt.willTopic) \o Optional(w, opt.willPayload)))
                                \o Optional(u, opt.username)) \o Optional(p, opt.password))
<1>1. Field(opt.willTopic # <<>>, Utf(opt.willTopic) \o Utf(opt.willPayload))
        = Optional(w, opt.willTopic) \o Optional(w, opt.willPayload)
  <2>1. opt.willTopic # <<>> <=> w = 1
    BY DEF OptionsAre
  <2>2. <<>> \o <<>> = <<>>
    OBVIOUS
  <2> QED
    BY <2>1, <2>2, Zenon DEF Field, Optional
<1>2. Field(opt.username # <<>>, Utf(opt.username)) = Optional(u, opt.username)
  <2>1. opt.username # <<>> <=> u = 1
    BY DEF OptionsAre
  <2> QED
    BY <2>1, Zenon DEF Field, Optional
<1>3. Field(opt.password # <<>>, Utf(opt.password)) = Optional(p, opt.password)
  <2>1. opt.password # <<>> <=> p = 1
    BY DEF OptionsAre
  <2> QED
    BY <2>1, Zenon DEF Field, Optional
<1>4. opt.password # <<>> => opt.username # <<>>
  BY Zenon DEF OptionsAre
<1>5. Bit(opt.cleanSession, 2) + Bit(opt.willTopic # <<>>, 4 + 8 * opt.willQos)
        + Bit(opt.willTopic # <<>> /\ opt.willRetain, 32) + Bit(opt.password # <<>>, 64)
        + Bit(opt.username # <<>>, 128) = ConnectFlags(c, w, q, r, p, u)
  <2>1. PICK b1 : b1 = Bit(opt.cleanSession, 2)
    OBVIOUS
  <2>2. PICK b2 : b2 = Bit(opt.willTopic # <<>>, 4 + 8 * opt.willQos)
    OBVIOUS
  <2>3. PICK b3 : b3 = Bit(opt.willTopic # <<>> /\ opt.willRetain, 32)
    OBVIOUS
  <2>4. PICK b4 : b4 = Bit(opt.password # <<>>, 64)
    OBVIOUS
  <2>5. PICK b5 : b5 = Bit(opt.username # <<>>, 128)
    OBVIOUS
  <2>6. b1 = 2 * c /\ b2 = 4 * w + 8 * q /\ b3 = 32 * r /\ b4 = 64 * p /\ b5 = 128 * u
    BY <2>1, <2>2, <2>3, <2>4, <2>5, Zenon DEF OptionsAre
  <2>7. b1 + b2 + b3 + b4 + b5 = 2 * c + 4 * w + 8 * q + 32 * r + 64 * p + 128 * u
    <3>1. /\ c \in 0 .. 1 /\ w \in 0 .. 1 /\ q \in 0 .. 2 /\ r \in 0 .. 1 /\ p \in 0 .. 1
          /\ u \in 0 .. 1
      BY Zenon DEF OptionsAre
    <3> QED
      BY <2>6, <3>1
  <2> QED
    BY <2>1, <2>2, <2>3, <2>4, <2>5, <2>7, Zenon DEF ConnectFlags
<1>6. 16 * CONNECT = 16
  BY DEF CONNECT
<1>7. EncodeConnect(opt) = Field(TRUE,
             BuildPacket(16, (((((Utf(MqttName) \o <<4, ConnectFlags(c, w, q, r, p, u)>>)
                                    \o U16(opt.keepaliveSec)) \o Utf(opt.clientId))
                                \o (Optional(w, opt.willTopic) \o Optional(w, opt.willPayload)))
                                \o Optional(u, opt.username)) \o Optional(p, opt.password)))
  <2>1. (opt.willQos <= 2 /\ (opt.password # <<>> => opt.username # <<>>)) = TRUE
    <3>1. opt.willQos \in 0 .. 2
      BY Zenon DEF OptionsAre
    <3>2. opt.willQos <= 2
      BY <3>1
    <3> QED
      BY <1>4, <3>2, Zenon
  <2> QED
    BY <1>1, <1>2, <1>3, <1>5, <1>6, <2>1, Zenon DEF EncodeConnect
<1> QED
  BY <1>7, Zenon DEF Field

\* Five strings and the fixed part are far from too long.
LEMMA RoomForTexts == ASSUME NEW n \in Nat, n <= 5 * Longest PROVE 10 + n <= MaxRemaining
BY SMT DEF Longest, MaxRemaining

\* What is in front of the strings of a CONNECT.
LEMMA ConnectHead ==
    ASSUME NEW f \in Byte, NEW keep \in Words
    PROVE  (Utf(MqttName) \o <<4, f>>) \o U16(keep) \in Seq(Byte)
<1>1. PICK m \in Seq(Byte) : m = Utf(MqttName)
  BY NameIs
<1>2. PICK k \in Seq(Byte) : k = U16(keep)
  BY WordRange, TwoBytes
<1>3. PICK g \in Seq(Byte) : g = <<4, f>>
  <2>1. PICK c \in Byte : c = 4
    BY DEF Byte
  <2>2. <<c, f>> \in Seq(Byte)
    OBVIOUS
  <2> QED
    BY <2>1, <2>2
<1>4. PICK x \in Seq(Byte) : x = m \o g
  BY ConcatProperties
<1>5. x \o k \in Seq(Byte)
  BY ConcatProperties
<1> QED
  BY <1>1, <1>2, <1>3, <1>4, <1>5

\* Options of a connection that the broker accepts.
LEMMA ConnectMeant ==
    ASSUME NEW opt \in Options, opt.password # <<>> => opt.username # <<>>,
           opt.clientId = <<>> => opt.cleanSession
    PROVE  Meant(ConnectPacket(opt))
<1>1. PICK c \in 0 .. 1, w \in 0 .. 1, r \in 0 .. 1, p \in 0 .. 1, u \in 0 .. 1, q \in 0 .. 2 :
         OptionsAre(opt, c, w, q, r, p, u)
  BY OptionsInBits, Zenon
<1>2. /\ opt.willQos \in 0 .. 2 /\ opt.keepaliveSec \in Words /\ opt.clientId \in Texts
      /\ opt.willTopic \in Texts /\ opt.willPayload \in Texts /\ opt.username \in Texts
      /\ opt.password \in Texts
  BY DEF Options
<1>3. /\ p = 1 => u = 1
      /\ w = 0 => q = 0 /\ r = 0
      /\ w = 1 <=> opt.willTopic # <<>>
      /\ opt.clientId = <<>> => c = 1
  BY <1>1, Zenon DEF OptionsAre
<1>4. PICK f \in Byte : f = ConnectFlags(c, w, q, r, p, u)
  <2>1. PICK g : g = ConnectFlags(c, w, q, r, p, u)
    OBVIOUS
  <2>2. FlagsAre(g, c, w, q, r, p, u)
    BY <2>1, ConnectFlagsRead
  <2>3. g \in Byte
    BY <2>2 DEF FlagsAre, Byte
  <2> QED
    BY <2>1, <2>3
<1>5. PICK cid \in Texts, wt \in Texts, wp \in Texts, un \in Texts, pw \in Texts :
         /\ cid = opt.clientId /\ wt = opt.willTopic /\ wp = opt.willPayload
         /\ un = opt.username /\ pw = opt.password
  BY <1>2
<1>6. PICK l : l = ConnectTexts(cid, wt, wp, un, pw, w, u, p)
  OBVIOUS
<1>7. ListIs(l, cid, wt, wp, un, pw, w, u, p)
  BY <1>6, ConnectTextsAre
<1>8. PICK y \in Seq(Byte), n \in Nat : y = Flat(l) /\ n = Len(y) /\ n <= 5 * Longest
  <2>1. Flat(l) \in Seq(Byte) /\ Len(Flat(l)) <= 5 * Longest
    BY <1>7, Zenon DEF ListIs
  <2>2. Len(Flat(l)) \in Nat
    BY <2>1, LenProperties
  <2> QED
    BY <2>1, <2>2
<1>9. PICK keep \in Words : keep = opt.keepaliveSec
  BY <1>2
<1>10. PICK h \in Seq(Byte) : h = (Utf(MqttName) \o <<4, f>>) \o U16(keep)
  BY ConnectHead
<1>11. PICK body : body = h \o y
  OBVIOUS
<1>12. Fronted(body, f, y)
  BY <1>10, <1>11, ConnectFront
<1>13. PICK k : k = ConnectSays(w, cid, wt, wp)
  OBVIOUS
<1>14. DecodeConnect(body) = <<k>>
  <2>1. Connecting(c, w, q, r, p, u, f, cid, wt, wp, un, pw, l, y, body)
    BY <1>3, <1>4, <1>5, <1>6, <1>8, <1>12, Zenon DEF Connecting
  <2>2. Readable(body, w, cid, wt, wp)
    BY <2>1, Zenon DEF Readable
  <2> QED
    BY <1>13, <2>2, ConnectRead, Zenon
<1>15. EncodeConnect(opt) = BuildPacket(16, body)
  <2>1. EncodeConnect(opt) =
             BuildPacket(16, (((((Utf(MqttName) \o <<4, ConnectFlags(c, w, q, r, p, u)>>)
                                    \o U16(opt.keepaliveSec)) \o Utf(opt.clientId))
                                \o (Optional(w, opt.willTopic) \o Optional(w, opt.willPayload)))
                                \o Optional(u, opt.username)) \o Optional(p, opt.password))
    <3>1. p = 1 => u = 1
      BY <1>3
    <3> QED
      BY <1>1, <3>1, ConnectWritten, Zenon
  <2>2. body = (((h \o Utf(cid)) \o (Optional(w, wt) \o Optional(w, wp)))
                               \o Optional(u, un)) \o Optional(p, pw)
    <3>1. ASSUME NEW i, NEW s \in Texts PROVE Optional(i, s) \in Seq(Byte)
      BY UtfIs DEF Optional
    <3>2. PICK a \in Seq(Byte) : a = Utf(cid)
      BY UtfIs
    <3>3. PICK b \in Seq(Byte) : b = Optional(w, wt)
      BY <3>1
    <3>4. PICK e \in Seq(Byte) : e = Optional(w, wp)
      BY <3>1
    <3>5. PICK d \in Seq(Byte) : d = Optional(u, un)
      BY <3>1
    <3>6. PICK g \in Seq(Byte) : g = Optional(p, pw)
      BY <3>1
    <3>7. y = a \o (b \o (e \o (d \o g)))
      BY <1>7, <1>8, <3>2, <3>3, <3>4, <3>5, <3>6, Zenon DEF ListIs
    <3>8. Cat(Cat(Cat(Cat(h, a), Cat(b, e)), d), g) = Cat(h, Cat(a, Cat(b, Cat(e, Cat(d, g)))))
      BY WrittenOut, SMTT(60)
    <3>9. body = Cat(h, Cat(a, Cat(b, Cat(e, Cat(d, g)))))
      BY <1>11, <3>7, Zenon DEF Cat
    <3>10. body = (((h \o a) \o (b \o e)) \o d) \o g
      BY <3>8, <3>9, Zenon DEF Cat
    <3> QED
      BY <3>2, <3>3, <3>4, <3>5, <3>6, <3>10, Zenon
  <2> QED
    BY <1>4, <1>5, <1>9, <1>10, <2>1, <2>2, Zenon
<1>16. body \in Seq(Byte) /\ Len(body) <= MaxRemaining
  <2>1. body \in Seq(Byte) /\ Len(body) = 10 + n
    BY <1>8, <1>12, Zenon DEF Fronted
  <2>2. 10 + n <= MaxRemaining
    BY <1>8, RoomForTexts
  <2> QED
    BY <2>1, <2>2, Zenon
<1>17. DecodeBody(1, 0, body) = <<k>>
  BY <1>14 DEF DecodeBody, CONNECT, CONNACK, PUBLISH, SUBSCRIBE, SUBACK, UNSUBSCRIBE,
               PINGREQ, PINGRESP, DISCONNECT
<1>18. LegalFlags(1, 0)
  BY DEF LegalFlags, PUBLISH, PUBREL, SUBSCRIBE, UNSUBSCRIBE
<1>19. 16 \in Byte /\ 16 \div 16 = 1 /\ 16 % 16 = 0 /\ 1 \in 1 .. 14
  BY DEF Byte
<1>20. Meant([bytes |-> BuildPacket(16, body), packet |-> k])
  <2>1. PICK t \in Byte : t = 16 /\ t \div 16 = 1 /\ t % 16 = 0 /\ t \div 16 \in 1 .. 14
    BY <1>19
  <2>2. LegalFlags(t \div 16, t % 16) /\ DecodeBody(t \div 16, t % 16, body) = <<k>>
    BY <1>17, <1>18, <2>1
  <2>3. Meant([bytes |-> BuildPacket(t, body), packet |-> k])
    BY <1>16, <2>1, <2>2, MeantIfDecoded
  <2> QED
    BY <2>1, <2>3
<1>21. k = [Blank(CONNECT) EXCEPT
                    !.topics = <<opt.clientId>>, !.topic = opt.willTopic,
                    !.payload = IF opt.willTopic # <<>> THEN opt.willPayload ELSE <<>>]
  <2>1. (IF w = 1 THEN wt ELSE <<>>) = opt.willTopic
    BY <1>3, <1>5, Zenon
  <2>2. (IF w = 1 THEN wp ELSE <<>>) = IF opt.willTopic # <<>> THEN opt.willPayload ELSE <<>>
    BY <1>3, <1>5, Zenon
  <2> QED
    BY <1>5, <1>13, <2>1, <2>2, Zenon DEF ConnectSays
<1> QED
  BY <1>15, <1>20, <1>21, Zenon DEF ConnectPacket

-----------------------------------------------------------------------------
(* All packets, and the streams of them.                                   *)

\* What the encoders of the client and of the brokers of the tests write: packets
\* with strings that fit their prefix, identifiers other than 0 and a body that is
\* not too long.
Publishes(s) ==
    \E dup, retain \in BOOLEAN, topic \in Texts, payload \in Seq(Byte), qos \in 0 .. 2,
       packetId \in Words :
        /\ topic # <<>>
        /\ qos = 0 <=> packetId = 0
        /\ Len(PublishBody(topic, payload, qos, packetId)) <= MaxRemaining
        /\ s = PublishPacket(dup, topic, payload, qos, retain, packetId)
\* A SUBSCRIBE ...
Subscribes(s) ==
    \E id \in Ids, topics \in Seq(Wishes) :
        /\ topics # <<>> /\ Len(SubscribeRest(topics)) + 2 <= MaxRemaining
        /\ s = SubscribePacket(id, topics)
\* ... an UNSUBSCRIBE ...
Unsubscribes(s) ==
    \E id \in Ids, topics \in Seq(Texts \ {<<>>}) :
        /\ topics # <<>> /\ Len(UnsubscribeRest(topics)) + 2 <= MaxRemaining
        /\ s = UnsubscribePacket(id, topics)
\* ... the answer of a broker ...
Subacks(s) ==
    \E id \in Ids, codes \in Seq(Grants) :
        codes # <<>> /\ Len(codes) + 2 <= MaxRemaining /\ s = SubackPacket(id, codes)
\* ... a CONNECT: no password without a user name, and no empty client identifier
\* in a session that is to be kept ...
Connects(s) ==
    \E opt \in Options :
        /\ opt.password # <<>> => opt.username # <<>>
        /\ opt.clientId = <<>> => opt.cleanSession
        /\ s = ConnectPacket(opt)
\* ... and any of them.
EncodedPacket(s) ==
    \/ Publishes(s) \/ Subscribes(s) \/ Unsubscribes(s) \/ Subacks(s) \/ Connects(s)
    \/ \E type \in Acks, id \in Ids : s = AckPacket(type, id)
    \/ \E type \in Signals : s = SignalPacket(type)
    \/ \E session \in 0 .. 1, code \in 0 .. 5 : s = ConnackPacket(session, code)

\* The encoders of the client whose packets are among these under another name.
LEMMA EncodersAre ==
    /\ \A id : EncodePuback(id) = AckPacket(PUBACK, id).bytes
    /\ EncodePingreq = SignalPacket(PINGREQ).bytes
    /\ EncodeDisconnect = SignalPacket(DISCONNECT).bytes
    /\ \A topic, payload, packetId : \A qos \in 0 .. 2, retain \in BOOLEAN :
         EncodePublish(topic, payload, qos, retain, packetId)
           = PublishPacket(FALSE, topic, payload, qos, retain, packetId).bytes
<1>1. ASSUME NEW id PROVE EncodePuback(id) = AckPacket(PUBACK, id).bytes
  <2>1. 16 * PUBACK + Bit(PUBACK = PUBREL, 2) = 16 * PUBACK
    BY DEF PUBACK, PUBREL, Bit
  <2> QED
    BY <2>1 DEF EncodePuback, AckPacket
<1>2. EncodePingreq = SignalPacket(PINGREQ).bytes
  BY DEF EncodePingreq, SignalPacket
<1>3. EncodeDisconnect = SignalPacket(DISCONNECT).bytes
  BY DEF EncodeDisconnect, SignalPacket
<1>4. ASSUME NEW topic, NEW payload, NEW packetId, NEW qos \in 0 .. 2, NEW retain \in BOOLEAN
      PROVE  EncodePublish(topic, payload, qos, retain, packetId)
               = PublishPacket(FALSE, topic, payload, qos, retain, packetId).bytes
  <2>1. Bit(FALSE, 8) = 0 /\ 16 * PUBLISH = 48
    BY DEF Bit, PUBLISH
  <2>2. PICK r \in Int : r = Bit(retain, 1)
    BY DEF Bit
  <2>3. 48 + 0 + 2 * (qos % 4) + r = 48 + 2 * (qos % 4) + r
    <3>1. PICK m \in Int : m = qos % 4
      OBVIOUS
    <3> QED
      BY <3>1
  <2>4. PublishHead(FALSE, qos, retain) = 16 * PUBLISH + 2 * (qos % 4) + Bit(retain, 1)
    BY <2>1, <2>2, <2>3, Zenon DEF PublishHead
  <2> QED
    BY <2>4, Zenon DEF EncodePublish, PublishPacket, PublishBody
<1> QED
  BY <1>1, <1>2, <1>3, <1>4

\* Every encoder is undone by the decoder: what encodeConnect(), encodePublish() and
\* the others write, decodePacket() reads as what was meant, to its last byte.
THEOREM EncodedPacketsAreMeant ==
    ASSUME NEW s, EncodedPacket(s)
    PROVE  Meant(s)
<1>1. ASSUME Publishes(s) PROVE Meant(s)
  <2>1. PICK dup \in BOOLEAN, retain \in BOOLEAN, topic \in Texts, payload \in Seq(Byte),
             qos \in 0 .. 2, packetId \in Words :
          /\ topic # <<>>
          /\ qos = 0 <=> packetId = 0
          /\ Len(PublishBody(topic, payload, qos, packetId)) <= MaxRemaining
          /\ s = PublishPacket(dup, topic, payload, qos, retain, packetId)
    BY <1>1, Zenon DEF Publishes
  <2>2. Meant(PublishPacket(dup, topic, payload, qos, retain, packetId))
    BY <2>1, PublishMeant
  <2> QED
    BY <2>1, <2>2, Zenon
<1>2. ASSUME Subscribes(s) PROVE Meant(s)
  <2>1. PICK id \in Ids, topics \in Seq(Wishes) :
          /\ topics # <<>> /\ Len(SubscribeRest(topics)) + 2 <= MaxRemaining
          /\ s = SubscribePacket(id, topics)
    BY <1>2, Zenon DEF Subscribes
  <2> QED
    BY <2>1, SubscribeMeant, Zenon
<1>3. ASSUME Unsubscribes(s) PROVE Meant(s)
  <2>1. PICK id \in Ids, topics \in Seq(Texts \ {<<>>}) :
          /\ topics # <<>> /\ Len(UnsubscribeRest(topics)) + 2 <= MaxRemaining
          /\ s = UnsubscribePacket(id, topics)
    BY <1>3, Zenon DEF Unsubscribes
  <2> QED
    BY <2>1, UnsubscribeMeant, Zenon
<1>4. ASSUME Subacks(s) PROVE Meant(s)
  <2>1. PICK id \in Ids, codes \in Seq(Grants) :
          codes # <<>> /\ Len(codes) + 2 <= MaxRemaining /\ s = SubackPacket(id, codes)
    BY <1>4, Zenon DEF Subacks
  <2> QED
    BY <2>1, SubackMeant, Zenon
<1>5. ASSUME Connects(s) PROVE Meant(s)
  <2>1. PICK opt \in Options :
          /\ opt.password # <<>> => opt.username # <<>>
          /\ opt.clientId = <<>> => opt.cleanSession
          /\ s = ConnectPacket(opt)
    BY <1>5, Zenon DEF Connects
  <2> QED
    BY <2>1, ConnectMeant, Zenon
<1>6. ASSUME NEW type \in Acks, NEW id \in Ids, s = AckPacket(type, id) PROVE Meant(s)
  BY <1>6, AckMeant, Zenon
<1>7. ASSUME NEW type \in Signals, s = SignalPacket(type) PROVE Meant(s)
  BY <1>7, SignalMeant, Zenon
<1>8. ASSUME NEW session \in 0 .. 1, NEW code \in 0 .. 5, s = ConnackPacket(session, code)
      PROVE  Meant(s)
  BY <1>8, ConnackMeant, Zenon
<1> QED
  BY <1>1, <1>2, <1>3, <1>4, <1>5, <1>6, <1>7, <1>8, Zenon DEF EncodedPacket

\* A stream of such packets is decoded as it was encoded, however it is cut, up to
\* a packet that is too long for the buffer.
COROLLARY EncodedStreamsAreDecoded ==
    ASSUME \A s \in Samples : EncodedPacket(s)
    PROVE  CodecSpec => []StreamDecoded
<1>1. \A s \in Samples : Meant(s)
  BY EncodedPacketsAreMeant, Zenon
<1> QED
  BY <1>1, StreamsAreDecoded
=============================================================================
