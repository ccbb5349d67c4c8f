------------------------------ MODULE MqttPackets ------------------------------
(***************************************************************************)
(* The MQTT codec (src/net/mqtt_packets.cpp) under the receive loop of the *)
(* client (processIncoming() in mqtt_client.cpp).  A stream carries the    *)
(* bytes of packets one after the other; recv() returns a piece of it, at  *)
(* most as large as the buffer on the stack, and the loop decodes what has *)
(* accumulated until it is told that bytes are missing or that the stream  *)
(* is bad.  More than kRxBufMax bytes at a time end the connection too.    *)
(* The brokers of the tests read the packets of the client with the same   *)
(* decoder.                                                                *)
(*                                                                         *)
(* A byte is a number below 256, a string a sequence of bytes.  Error      *)
(* texts are left out: which of two checks refuses a packet first does not *)
(* show.  A decoder sees the bytes of its own packet only: TLC stops at a  *)
(* read beyond them.                                                       *)
(***************************************************************************)
EXTENDS Integers, Sequences, SequencesExt

\* An operator introduced by "Mutant:" is not part of the model: it is what a
\* plausible bug would make of the definition that follows it.

CONSTANTS
    Samples,     \* what can be sent: [bytes, packet], the packet as it is meant
    Foreign,     \* byte sequences of somebody who may not keep to the protocol
    kRxBufMax,   \* the most that may accumulate (1 MiB)
    RecvMax,     \* sizeof(buf): the most that one recv() returns (4096)
    MaxPackets   \* bound: packets in a stream

Byte == 0 .. 255

ASSUME CodecAssumption ==
    /\ MaxPackets \in Nat
    /\ \A sample \in Samples : sample.bytes \in Seq(Byte)
    /\ Foreign \subseteq Seq(Byte)
    /\ RecvMax \in Nat \ {0} /\ kRxBufMax \in Nat /\ RecvMax <= kRxBufMax

VARIABLES
    sent,    \* history: the packets sent
    stream,  \* bytes under way
    rxBuf,   \* m_rxBuf
    got,     \* the packets decoded: [packet, bytes]
    state    \* "open", a foreign stream "foreign"; then "bad" after a protocol
             \* error, "overflow" when too much accumulated: the client disconnects

codecVars == <<sent, stream, rxBuf, got, state>>

CodecInit == sent = <<>> /\ stream = <<>> /\ rxBuf = <<>> /\ got = <<>> /\ state = "open"

CONNECT == 1
CONNACK == 2
PUBLISH == 3
PUBACK == 4
PUBREL == 6
SUBSCRIBE == 8
SUBACK == 9
UNSUBSCRIBE == 10
PINGREQ == 12
PINGRESP == 13
DISCONNECT == 14

\* Packet(): every field at its default.
Blank(type) ==
    [type |-> type, dup |-> FALSE, qos |-> 0, retain |-> FALSE, packetId |-> 0,
     topic |-> <<>>, payload |-> <<>>, returnCode |-> 0, topics |-> <<>>]
-----------------------------------------------------------------------------
(* Encoding.                                                               *)

Bit(flag, value) == IF flag THEN value ELSE 0
Field(present, bytes) == IF present THEN bytes ELSE <<>>

U16(x) == <<x \div 256, x % 256>>
ReadU16(bytes) == 256 * bytes[1] + bytes[2]

\* The prefix keeps 16 bits of the length, the bytes follow all the same.
Utf(string) == U16(Len(string) % 65536) \o string

\* What a unit of each byte of a length counts, and the first length that is too large.
Weight == <<1, 128, 16384, 2097152, 268435456>>
MaxRemaining == 268435455

\* Mutant: 128 still goes into one byte.
EncodeRemainingLengthOff(v) == IF v <= 128 THEN <<v>> ELSE <<(v % 128) + 128, v \div 128>>
\* Seven bits a byte, the lowest first, each but the last marked; nothing for a
\* value that is too large.
EncodeRemainingLength(v) ==
    IF v > MaxRemaining THEN <<>>
    ELSE LET n == CHOOSE k \in 1 .. 4 : v < Weight[k + 1] /\ (k > 1 => v >= Weight[k])
         IN  [i \in 1 .. n |-> ((v \div Weight[i]) % 128) + Bit(i < n, 128)]

BuildPacket(typeFlags, body) ==
    Field(Len(body) <= MaxRemaining, <<typeFlags>> \o EncodeRemainingLength(Len(body)) \o body)

MqttName == <<77, 81, 84, 84>>

\* Empty strings stand for options that are not set.
EncodeConnect(opt) ==
    LET will == opt.willTopic # <<>>
        user == opt.username # <<>>
        pass == opt.password # <<>>
        flags == Bit(opt.cleanSession, 2) + Bit(will, 4 + 8 * opt.willQos)
                 + Bit(will /\ opt.willRetain, 32) + Bit(pass, 64) + Bit(user, 128)
    IN  Field(opt.willQos <= 2 /\ (pass => user),
              BuildPacket(16 * CONNECT,
                  Utf(MqttName) \o <<4, flags>> \o U16(opt.keepaliveSec) \o Utf(opt.clientId)
                  \o Field(will, Utf(opt.willTopic) \o Utf(opt.willPayload))
                  \o Field(user, Utf(opt.username)) \o Field(pass, Utf(opt.password))))

EncodePublish(topic, payload, qos, retain, packetId) ==
    BuildPacket(16 * PUBLISH + 2 * (qos % 4) + Bit(retain, 1),
                Utf(topic) \o Field(qos > 0, U16(packetId)) \o payload)

EncodePuback(packetId) == BuildPacket(16 * PUBACK, U16(packetId))

\* topics: [topic, qos]
EncodeSubscribe(packetId, topics) ==
    BuildPacket(16 * SUBSCRIBE + 2,
                U16(packetId) \o FlattenSeq([i \in DOMAIN topics |->
                                    Utf(topics[i].topic) \o <<topics[i].qos % 4>>]))

EncodeUnsubscribe(packetId, topics) ==
    BuildPacket(16 * UNSUBSCRIBE + 2,
                U16(packetId) \o FlattenSeq([i \in DOMAIN topics |-> Utf(topics[i])]))

EncodePingreq == BuildPacket(16 * PINGREQ, <<>>)
EncodeDisconnect == BuildPacket(16 * DISCONNECT, <<>>)
-----------------------------------------------------------------------------
(* Decoding.  A verdict is More, Bad or a packet with its length.          *)

More == [kind |-> "more"]
Bad == [kind |-> "bad"]
Accept(packet, consumed) == [kind |-> "packet", packet |-> packet, consumed |-> consumed]

\* What is in the body of a packet: one packet, or none if it is malformed.
Check(legal, packet) == IF legal THEN <<packet>> ELSE <<>>

\* `used` is 4 when four bytes have been read and none of them was the last.
DecodeRemainingLength(bytes) ==
    LET most == IF Len(bytes) < 4 THEN Len(bytes) ELSE 4
        last == {i \in 1 .. most : bytes[i] < 128}
        n == Min(last)
        Part(i) == IF i <= n THEN (bytes[i] % 128) * Weight[i] ELSE 0
    IN  IF last = {} THEN [ok |-> FALSE, used |-> most, value |-> 0]
        ELSE [ok |-> TRUE, used |-> n, value |-> Part(1) + Part(2) + Part(3) + Part(4)]

\* readStr() over and over, each string with `extra` bytes behind it: the
\* items, the last of which is not `ok` if its length runs past the end.
Items(bytes, extra) ==
    LET from[pos \in 1 .. Len(bytes) + 1] ==
            LET rest == SubSeq(bytes, pos, Len(bytes))
                size == 2 + ReadU16(rest) + extra
            IN  IF rest = <<>> THEN <<>>
                ELSE IF Len(rest) < 2 \/ size > Len(rest) THEN <<[ok |-> FALSE]>>
                ELSE <<[ok |-> TRUE, string |-> SubSeq(rest, 3, size - extra),
                        code |-> rest[size]]>> \o from[pos + size]
    IN  from[1]
WellFormed(items) == \A i \in DOMAIN items : items[i].ok
Strings(items) == [i \in DOMAIN items |-> items[i].string]
NoneEmpty(strings) == \A i \in DOMAIN strings : strings[i] # <<>>

DecodeConnack(body) ==
    Check(Len(body) = 2 /\ body[1] <= 1 /\ body[2] <= 5,
          [Blank(CONNACK) EXCEPT !.packetId = body[1], !.returnCode = body[2]])

DecodePublish(body, flags) ==
    LET qos == (flags \div 2) % 4
        size == 2 + ReadU16(body)
        head == size + Bit(qos > 0, 2)
        packetId == IF qos > 0 THEN ReadU16(SubSeq(body, size + 1, head)) ELSE 0
    IN  Check(/\ Len(body) >= 2 /\ size > 2 /\ Len(body) >= head
              /\ qos > 0 => packetId # 0,
              [Blank(PUBLISH) EXCEPT
                  !.dup = flags \div 8 = 1, !.qos = qos, !.retain = flags % 2 = 1,
                  !.packetId = packetId, !.topic = SubSeq(body, 3, size),
                  !.payload = SubSeq(body, head + 1, Len(body))])

\* Mutant: what follows the identifier is not looked at.
DecodeAckLax(body, type) ==
    Check(Len(body) >= 2 /\ ReadU16(body) # 0,
          [Blank(type) EXCEPT !.packetId = ReadU16(body)])
\* PUBACK, PUBREC, PUBREL, PUBCOMP, UNSUBACK.
DecodeAck(body, type) ==
    Check(Len(body) = 2 /\ ReadU16(body) # 0,
          [Blank(type) EXCEPT !.packetId = ReadU16(body)])

AfterId(body) == SubSeq(body, 3, Len(body))

DecodeSubscribe(body) ==
    LET items == Items(AfterId(body), 1)
    IN  Check(/\ Len(body) >= 6 /\ ReadU16(body) # 0
              /\ WellFormed(items) /\ NoneEmpty(Strings(items))
              /\ \A i \in DOMAIN items : items[i].code <= 2,
              [Blank(SUBSCRIBE) EXCEPT
                  !.packetId = ReadU16(body), !.topics = Strings(items),
                  !.payload = [i \in DOMAIN items |-> items[i].code]])

\* A return code becomes a string, its decimal digits: here one of one symbol.
DecodeSuback(body) ==
    LET codes == AfterId(body)
    IN  Check(/\ Len(body) >= 3 /\ ReadU16(body) # 0
              /\ \A i \in DOMAIN codes : codes[i] \in {0, 1, 2, 128},
              [Blank(SUBACK) EXCEPT
                  !.packetId = ReadU16(body), !.topics = [i \in DOMAIN codes |-> <<codes[i]>>]])

DecodeUnsubscribe(body) ==
    LET items == Items(AfterId(body), 0)
    IN  Check(/\ Len(body) >= 5 /\ ReadU16(body) # 0
              /\ WellFormed(items) /\ NoneEmpty(Strings(items)),
              [Blank(UNSUBSCRIBE) EXCEPT
                  !.packetId = ReadU16(body), !.topics = Strings(items)])

\* The payload is client identifier, will topic and message, user name,
\* password, those that the flags announce and nothing else.
DecodeConnect(body) ==
    LET flags == body[8]
        Flag(bit) == (flags \div bit) % 2 = 1
        willQos == (flags \div 8) % 4
        items == Items(SubSeq(body, 11, Len(body)), 0)
        strings == Strings(items)
    IN  Check(/\ Len(body) >= 12
              /\ SubSeq(body, 1, 7) = Utf(MqttName) \o <<4>>
              /\ ~Flag(1)
              /\ ~Flag(4) => willQos = 0 /\ ~Flag(32)
              /\ Flag(4) => willQos # 3
              /\ Flag(64) => Flag(128)
              /\ WellFormed(items)
              /\ Len(items) = 1 + Bit(Flag(4), 2) + Bit(Flag(128), 1) + Bit(Flag(64), 1)
              /\ strings[1] = <<>> => Flag(2)
              /\ Flag(4) => strings[2] # <<>>,
              [Blank(CONNECT) EXCEPT
                  !.topics = <<strings[1]>>,
                  !.topic = Field(Flag(4), strings[2]),
                  !.payload = Field(Flag(4), strings[3])])

DecodeNoPayload(body, type) == Check(body = <<>>, Blank(type))

DecodeBody(type, flags, body) ==
    CASE type = CONNECT -> DecodeConnect(body)
      [] type = CONNACK -> DecodeConnack(body)
      [] type = PUBLISH -> DecodePublish(body, flags)
      [] type = SUBSCRIBE -> DecodeSubscribe(body)
      [] type = SUBACK -> DecodeSuback(body)
      [] type = UNSUBSCRIBE -> DecodeUnsubscribe(body)
      [] type \in {PINGREQ, PINGRESP, DISCONNECT} -> DecodeNoPayload(body, type)
      [] OTHER -> DecodeAck(body, type)

LegalFlags(type, flags) ==
    CASE type = PUBLISH -> (flags \div 2) % 4 # 3
      [] type \in {PUBREL, SUBSCRIBE, UNSUBSCRIBE} -> flags = 2
      [] OTHER -> flags = 0

\* Why the remaining length could not be read.
LengthMissing(bytes) == IF DecodeRemainingLength(bytes).used = 4 THEN Bad ELSE More

\* decodePacket(): the verdict, and `consumed`.
DecodePacket(bytes) ==
    LET type == bytes[1] \div 16
        flags == bytes[1] % 16
        rl == DecodeRemainingLength(Tail(bytes))
        end == 1 + rl.used + rl.value
        body == DecodeBody(type, flags, SubSeq(bytes, 2 + rl.used, end))
    IN  IF Len(bytes) < 2 THEN More
        ELSE IF type \notin 1 .. 14 \/ ~LegalFlags(type, flags) THEN Bad
        ELSE IF ~rl.ok THEN LengthMissing(Tail(bytes))
        ELSE IF Len(bytes) < end THEN More
        ELSE IF body = <<>> THEN Bad
        ELSE Accept(body[1], end)
-----------------------------------------------------------------------------
(* The stream.                                                             *)

\* The other side writes one whole packet after the other ...
Send(sample) ==
    /\ state = "open" /\ Len(sent) < MaxPackets
    /\ sent' = Append(sent, sample.packet)
    /\ stream' = stream \o sample.bytes
    /\ UNCHANGED <<rxBuf, got, state>>

\* ... or is no MQTT broker.
SendForeign ==
    /\ sent = <<>> /\ state = "open"
    /\ state' = "foreign"
    /\ stream' \in Foreign
    /\ UNCHANGED <<sent, rxBuf, got>>

Decoded == DecodePacket(rxBuf)

StreamOpen == state \in {"open", "foreign"}

\* recv() is called again when there is nothing left to decode.  The limit is
\* looked at before what has come is decoded.
Receive(n) ==
    /\ StreamOpen /\ Decoded.kind = "more" /\ n \in 1 .. Len(stream) /\ n <= RecvMax
    /\ rxBuf' = rxBuf \o SubSeq(stream, 1, n)
    /\ stream' = SubSeq(stream, n + 1, Len(stream))
    /\ state' = IF Len(rxBuf) + n > kRxBufMax THEN "overflow" ELSE state
    /\ UNCHANGED <<sent, got>>

DecodeOne ==
    /\ StreamOpen /\ Decoded.kind = "packet"
    /\ got' = Append(got, [packet |-> Decoded.packet, bytes |-> SubSeq(rxBuf, 1, Decoded.consumed)])
    /\ rxBuf' = SubSeq(rxBuf, Decoded.consumed + 1, Len(rxBuf))
    /\ UNCHANGED <<sent, stream, state>>

\* processIncoming() fails and the client disconnects.
ProtocolError ==
    /\ StreamOpen /\ Decoded.kind = "bad"
    /\ state' = "bad"
    /\ UNCHANGED <<sent, stream, rxBuf, got>>

CodecNext ==
    \/ \E sample \in Samples : Send(sample)
    \/ SendForeign
    \/ \E n \in 1 .. Len(stream) : Receive(n)
    \/ DecodeOne
    \/ ProtocolError

CodecSpec == CodecInit /\ [][CodecNext]_codecVars
-----------------------------------------------------------------------------
(* Properties.                                                             *)

\* However recv() cuts the stream, the packets come out as they went in: none is
\* malformed, none is reported before its last byte or out of order, and nothing
\* is left when all the bytes have come.  The one thing that ends the stream early
\* is the limit of the buffer, and a packet that is no longer than the limit less
\* what one more recv() can bring never meets it.
StreamDecoded ==
    sent # <<>> =>
        /\ state \in {"open", "overflow"} /\ Decoded.kind # "bad"
        /\ \A i \in DOMAIN got : got[i].packet = sent[i]
        /\ stream = <<>> /\ Decoded.kind = "more" /\ state = "open" =>
               rxBuf = <<>> /\ Len(got) = Len(sent)
        /\ state = "overflow" =>
               \E s \in Samples : /\ s.packet = sent[Len(got) + 1]
                                  /\ Len(s.bytes) > kRxBufMax - RecvMax + 1

\* Whatever the bytes, "more" is the only verdict that more bytes can change: an
\* error or a packet that is found after n bytes is found after all of them.
VerdictIsFinal ==
    \A n \in 0 .. Len(rxBuf) :
        LET early == DecodePacket(SubSeq(rxBuf, 1, n)) IN early \in {More, Decoded}

\* What encoding a packet that was accepted gives.
Encoded(p) ==
    CASE p.type = PUBLISH -> EncodePublish(p.topic, p.payload, p.qos, p.retain, p.packetId)
      [] p.type = PUBACK -> EncodePuback(p.packetId)
      [] p.type = SUBSCRIBE ->
            EncodeSubscribe(p.packetId, [i \in DOMAIN p.topics |->
                                            [topic |-> p.topics[i], qos |-> p.payload[i]]])
      [] p.type = UNSUBSCRIBE -> EncodeUnsubscribe(p.packetId, p.topics)
      [] p.type = PINGREQ -> EncodePingreq
      [] p.type = DISCONNECT -> EncodeDisconnect
Encodable == {PUBLISH, PUBACK, SUBSCRIBE, UNSUBSCRIBE, PINGREQ, DISCONNECT}

Body(bytes) == SubSeq(bytes, 2 + DecodeRemainingLength(Tail(bytes)).used, Len(bytes))

\* No byte of a packet is passed over, even of one made up by a stranger: what
\* was accepted encodes to the same bytes again (but for the DUP flag, which the
\* client does not send, and for a length in more bytes than it needs).
AcceptedReencodes ==
    \A i \in DOMAIN got :
        LET p == got[i].packet
            bytes == got[i].bytes
        IN  p.type \in Encodable =>
                /\ Body(bytes) = Body(Encoded(p))
                /\ bytes[1] = Encoded(p)[1] + Bit(p.dup, 8)

\* A packet is neither refused nor accepted on a part of its bytes.
DecoderSound == VerdictIsFinal /\ AcceptedReencodes
=============================================================================
