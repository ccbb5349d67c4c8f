----------------------------- MODULE MCProtocols -----------------------------
(***************************************************************************)
(* Instances for TLC of the transactions on the serial line and their      *)
(* frames, the edge computing of what they read, the MQTT codec, the clock *)
(* of the MQTT client, JSON, and the event bus.  A behaviour is one of one *)
(* part; the others stay where they begin.                                 *)
(***************************************************************************)
EXTENDS ModbusLink, Edge, MqttKeepalive, EventBus, MqttPackets, TLC

VARIABLES
    part,
    from, text, typed, doc,
    call, request, outward, slaveBuf, regs, rtuMode, inward, rtuBuf, rtuResult,
    meant, banks, hurt, rtuCalls, troubles
-----------------------------------------------------------------------------
\* Topics a and a/b; whatever is below a, and a alone.
SomeTopics == {<<"a">>, <<"a", "b">>}
SomePatterns ==
    {[levels |-> <<"a">>, below |-> TRUE], [levels |-> <<"a">>, below |-> FALSE]}
-----------------------------------------------------------------------------
\* Limits whose bands meet, and limits the wrong way round: the configuration is
\* not checked.
SomeLimits == {<<1, 3>>, <<3, 2>>}

\* Readings on both sides of the limits, and of every other kind.
SomeReadings == {Number("finite", 1), Number("finite", 4), Number("inf", 0), Number("-inf", 0), NaN}

\* Hysteresis bands, a negative one among them.
SomeBands == {-1, 1}
-----------------------------------------------------------------------------
\* The packets of a stream: those of the client and of a broker.  A payload is
\* such that the remaining length is 128, the first of two bytes.
SmallConnect ==
    [cleanSession |-> FALSE, willTopic |-> <<>>, willPayload |-> <<>>, willQos |-> 0,
     willRetain |-> FALSE, username |-> <<>>, password |-> <<>>, keepaliveSec |-> 300,
     clientId |-> <<99>>]
FullConnect ==
    [cleanSession |-> TRUE, willTopic |-> <<119>>, willPayload |-> <<>>, willQos |-> 1,
     willRetain |-> TRUE, username |-> <<117>>, password |-> <<112>>, keepaliveSec |-> 30,
     clientId |-> <<>>]
ConnectSample(opt) ==
    [bytes |-> EncodeConnect(opt),
     packet |-> [Blank(CONNECT) EXCEPT
                    !.topics = <<opt.clientId>>, !.topic = opt.willTopic,
                    !.payload = opt.willPayload]]
PublishSample(payload, qos, retain, packetId) ==
    [bytes |-> EncodePublish(<<97>>, payload, qos, retain, packetId),
     packet |-> [Blank(PUBLISH) EXCEPT
                    !.topic = <<97>>, !.payload = payload, !.qos = qos, !.retain = retain,
                    !.packetId = packetId]]
AckSample(type, bytes, packetId) ==
    [bytes |-> bytes, packet |-> [Blank(type) EXCEPT !.packetId = packetId]]

Small ==
    {ConnectSample(SmallConnect), ConnectSample(FullConnect),
     PublishSample(<<>>, 0, TRUE, 0), PublishSample(<<1, 2>>, 1, FALSE, 259),
     AckSample(PUBACK, EncodePuback(513), 513),
     [bytes |-> EncodeSubscribe(1, <<[topic |-> <<97>>, qos |-> 1],
                                     [topic |-> <<98, 99>>, qos |-> 2]>>),
      packet |-> [Blank(SUBSCRIBE) EXCEPT
                    !.packetId = 1, !.topics = <<<<97>>, <<98, 99>>>>, !.payload = <<1, 2>>]],
     [bytes |-> EncodeUnsubscribe(2, <<<<97>>>>),
      packet |-> [Blank(UNSUBSCRIBE) EXCEPT !.packetId = 2, !.topics = <<<<97>>>>]],
     AckSample(PINGREQ, EncodePingreq, 0),
     AckSample(DISCONNECT, EncodeDisconnect, 0),
     AckSample(PINGRESP, <<208, 0>>, 0),
     AckSample(CONNACK, <<32, 2, 1, 0>>, 1),
     [bytes |-> <<144, 4, 0, 1, 1, 128>>,
      packet |-> [Blank(SUBACK) EXCEPT !.packetId = 1, !.topics = <<<<1>>, <<128>>>>]],
     AckSample(11, <<176, 2, 0, 2>>, 2)}
SomePackets == Small \cup {PublishSample([i \in 1 .. 123 |-> 9], 1, FALSE, 7)}

\* The same with one byte changed, and lengths that are incomplete or too long.
Tampered ==
    UNION {{[s.bytes EXCEPT ![i] = b] :
                b \in {0, 1, 2, 3, 4, 5, 6, 50, 56, 58, 98, 128, 130, 255}, i \in DOMAIN s.bytes} :
           s \in Small}
    \cup {<<64, 3, 2, 1, 9>>, <<192, 128, 0>>, <<192, 128, 128, 128, 0>>,
          <<192, 128, 128, 128, 128, 0>>}
-----------------------------------------------------------------------------
\* Arrays, objects, strings, numbers.
Ones(S) == {<<c>> : c \in S}
SomePieces ==
    {Ones({"[", "]", ",", "1", "sp"}) \cup {<<"[", "[">>, <<"]", "]">>},
     Ones({"{", "}", ",", "["})
        \cup {<<"quote", "quote", ":">>, <<"quote", "quote", ":", "null">>},
     Ones({"quote", "bs", "lo", "bmp", "n", "nl"}) \cup {<<"bs", "u">>, <<"bs", "u", "hi">>},
     Ones({"-", "+", "0", "1", ".", "e"})}

\* Two digits overflow int64, two digits of an exponent double.
Json == INSTANCE Json WITH
    Fragments <- SomePieces,
    Atoms <- {<<"int", <<"1">>>>, <<"double", <<"1", ".", "1">>>>, <<"double", <<"-", "0">>>>,
              <<"double", <<"nan">>>>, <<"bool", TRUE>>,
              <<"string", <<"quote", "bs", "nl">>>>, <<"string", <<"ctl", "astral", "n">>>>},
    Keys <- {<<>>, <<"quote", "ctl">>},
    MaxDepth <- 2, IntDigits <- 2, MaxExponent <- 1, MaxPieces <- 5, MaxLeaves <- 4
-----------------------------------------------------------------------------
\* Reading and writing, beyond the registers too, another slave, and a function that
\* nobody knows.
Reading(slaveId, func, addr, count) ==
    [slaveId |-> slaveId, func |-> func, addr |-> addr, count |-> count, values |-> <<>>]
Writing(func, addr, values) ==
    [slaveId |-> 1, func |-> func, addr |-> addr, count |-> 0, values |-> values]

Rtu == INSTANCE RtuFrames WITH
    SlaveId <- 1, RegCount <- 3, Masks <- {128}, kMaxFrame <- 20,
    Calls <- {Reading(1, 4, 1, 2), Reading(1, 3, 2, 2), Reading(2, 3, 0, 1),
              Writing(6, 1, <<4660>>), Writing(16, 1, <<43981, 255>>),
              Writing(6, 3, <<1>>), Writing(5, 0, <<1>>)},
    MaxCalls <- 2, MaxTroubles <- 1,
    mode <- rtuMode, buf <- rtuBuf, result <- rtuResult, calls <- rtuCalls
-----------------------------------------------------------------------------
ASSUME InstancesAreLegal ==
    /\ TimeAssumption
    /\ Json!JsonAssumption
    /\ Rtu!RtuAssumption /\ Rtu!CrcVectors

jsonVars == <<from, text, typed, doc>>
rtuVars ==
    <<call, request, outward, slaveBuf, regs, rtuMode, inward, rtuBuf, rtuResult,
      meant, banks, hurt, rtuCalls, troubles>>
partVars == <<part, vars, edgeVars, clockVars, busVars, codecVars, jsonVars, rtuVars>>

\* A part that does not run has one initial state.
PartInit ==
    /\ part \in {"link", "edge", "keepalive", "bus", "codec", "json", "rtu"}
    /\ Init /\ EdgeInit /\ ClockInit /\ BusInit /\ CodecInit /\ Json!JsonInit
    /\ Rtu!RtuInit
    /\ part # "edge" => config = CHOOSE c \in Configs : TRUE
    /\ part # "json" => from = CHOOSE p \in SomePieces : TRUE
    /\ part # "rtu" => rtuMode = "none"

RunsLink ==
    /\ part = "link" /\ Next
    /\ UNCHANGED <<part, edgeVars, clockVars, busVars, codecVars, jsonVars, rtuVars>>
RunsEdge ==
    /\ part = "edge" /\ EdgeNext
    /\ UNCHANGED <<part, vars, clockVars, busVars, codecVars, jsonVars, rtuVars>>
RunsKeepalive ==
    /\ part = "keepalive" /\ ClockNext
    /\ UNCHANGED <<part, vars, edgeVars, busVars, codecVars, jsonVars, rtuVars>>
RunsBus ==
    /\ part = "bus" /\ BusNext
    /\ UNCHANGED <<part, vars, edgeVars, clockVars, codecVars, jsonVars, rtuVars>>
RunsCodec ==
    /\ part = "codec" /\ CodecNext
    /\ UNCHANGED <<part, vars, edgeVars, clockVars, busVars, jsonVars, rtuVars>>
RunsJson ==
    /\ part = "json" /\ Json!Next
    /\ UNCHANGED <<part, vars, edgeVars, clockVars, busVars, codecVars, rtuVars>>
RunsRtu ==
    /\ part = "rtu" /\ Rtu!Next
    /\ UNCHANGED <<part, vars, edgeVars, clockVars, busVars, codecVars, jsonVars>>

PartNext ==
    RunsLink \/ RunsEdge \/ RunsKeepalive \/ RunsBus \/ RunsCodec \/ RunsJson \/ RunsRtu

PartSpec == PartInit /\ [][PartNext]_partVars
-----------------------------------------------------------------------------
(* Properties of the instances.  LinkSafe and ServiceSpec are those of     *)
(* ModbusLink, PointFollowsHistory that of Edge, TimersKept and            *)
(* NoFalseAlarm those of MqttKeepalive, DeliveredOnce that of EventBus,    *)
(* StreamDecoded and DecoderSound those of MqttPackets.                    *)

\* Every call on a sound serial line does what it should, and none that was spoilt
\* passes for a good one.
WireFaithful == Rtu!WireFaithful

\* The JSON parser accepts the language, up to its limit of depth, and no more.
AcceptsTheGrammar == Json!AcceptsTheGrammar

\* A document that is written and read again is the same document.
RoundTrip == Json!RoundTrip
=============================================================================
