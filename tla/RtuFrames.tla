------------------------------- MODULE RtuFrames -------------------------------
(***************************************************************************)
(* Modbus RTU byte by byte: CRC-16 and the frame codec                     *)
(* (src/modbus/modbus_crc.cpp, modbus_rtu.cpp), the slave that cuts the    *)
(* stream of bytes into frames at silences and carries them out            *)
(* (modbus_slave.cpp), and one transaction after the other of the master   *)
(* (modbus_master.cpp).  ModbusLink has the concurrent callers and takes a *)
(* frame for a record; this module has what that abstraction rests on.     *)
(*                                                                         *)
(* A byte is a number below 256.  RTU frames have neither head nor tail:   *)
(* a silence of 3.5 characters ends one.  Silence is where nothing is      *)
(* under way, or a pause.  The line may pause, damage a byte or lose one,  *)
(* MaxTroubles times in all.  The injected fault stays the same in a       *)
(* behaviour.  Statistics and error texts are left out, and the limit of   *)
(* 260 bytes on what the master receives, which answers do not reach.      *)
(***************************************************************************)
EXTENDS Integers, Sequences, SequencesExt, Bitwise

\* An operator introduced by "Mutant:" is not part of the model: it is what a
\* plausible bug would make of the definition that follows it.

CONSTANTS
    SlaveId,      \* m_slaveId_
    RegCount,     \* m_regs_.size()
    Calls,        \* what is asked: [slaveId, func, addr, count, values]
    Masks,        \* what damage does to a byte: the bits it flips
    kMaxFrame,    \* the slave drops more bytes than this, 260 in the code
    MaxCalls,     \* bound: calls
    MaxTroubles   \* bound: pauses within a call, damaged and lost bytes

ReadHolding == 3
ReadInput == 4
WriteSingle == 6
WriteMultiple == 16
Reads == {ReadHolding, ReadInput}
FuncCodes == Reads \cup {WriteSingle, WriteMultiple}

RtuAssumption ==
    /\ SlaveId \in 1 .. 255 /\ RegCount \in 1 .. 65535
    /\ \A c \in Calls : c.slaveId \in 1 .. 247 /\ c.func \in 1 .. 127
                        /\ (c.func \in Reads => c.count \in 1 .. 125)
    /\ Masks \subseteq 1 .. 255

VARIABLES
    call,     \* the call that is running, or NoCall
    request,  \* its frame
    outward,  \* bytes on their way to the slave
    slaveBuf, \* buf of the slave
    regs,     \* m_regs_
    mode,     \* m_fault_
    inward,   \* bytes on their way to the master
    buf,      \* buf of the master
    result,   \* what the call has returned: [kind, values]
    meant,    \* history: what the last call is to do: [call, result, regs]
    banks,    \* history: contents the registers may have now
    hurt,     \* history: what has gone wrong in this call
    calls, troubles   \* history: budgets spent

masterVars == <<call, request, buf, result>>
slaveVars == <<slaveBuf, regs, mode>>
historyVars == <<meant, calls>>
rtuVars == <<masterVars, outward, slaveVars, inward, historyVars, banks, hurt, troubles>>
-----------------------------------------------------------------------------
(* Frames.                                                                 *)

\* One bit: the lowest leaves, and takes the reflected polynomial 0xA001 with it.
Flip(x, bit) == IF (x \div bit) % 2 = 0 THEN x + bit ELSE x - bit
Shift[crc \in 0 .. 65535] ==
    IF crc % 2 = 0 THEN crc \div 2 ELSE 32768 + Flip(Flip(crc \div 2, 8192), 1)
NextByte(crc, byte) == Shift[Shift[Shift[Shift[Shift[Shift[Shift[Shift[crc ^^ byte]]]]]]]]
Crc16(bytes) == FoldLeft(NextByte, 65535, bytes)

\* The vectors of modbus_crc.cpp, and an empty frame.
CrcVectors ==
    /\ Crc16(<<1, 3, 0, 0, 0, 10>>) = 52677     \* 0xCDC5
    /\ Crc16(<<1, 6, 0, 1, 0, 23>>) = 1176      \* 0x0498
    /\ Crc16(<<>>) = 65535

U16(x) == <<x \div 256, x % 256>>
ReadU16(bytes, at) == 256 * bytes[at] + bytes[at + 1]

\* The CRC goes out with its low byte first.
EncodeFrame(slaveId, func, data) ==
    LET body == <<slaveId, func>> \o data
        crc == Crc16(body)
    IN  body \o <<crc % 256, crc \div 256>>

CrcOk(frame) ==
    LET n == Len(frame)
    IN  n >= 5 /\ Crc16(SubSeq(frame, 1, n - 2)) = 256 * frame[n] + frame[n - 1]

\* How long a frame must be.  Whether it is a request or an answer shows in the
\* parity of the length; zero where neither is possible.
FrameLength(frame) ==
    LET func == frame[2]
        even == Len(frame) % 2 = 0
    IN  IF func >= 128 THEN 5
        ELSE IF func = WriteSingle \/ (func \in FuncCodes /\ even) THEN 8
        ELSE IF func \in Reads THEN IF frame[3] \in {2 * n : n \in 1 .. 125} THEN 5 + frame[3] ELSE 0
        ELSE IF func # WriteMultiple THEN 0
        ELSE IF Len(frame) < 6 THEN 6
        ELSE IF ReadU16(frame, 5) \in 1 .. 123 THEN 9 + 2 * ReadU16(frame, 5) ELSE 0

\* decodeFrame(): [verdict, slaveId, func, data].
DecodeFrame(frame) ==
    LET length == FrameLength(frame)
        fails(verdict) == [verdict |-> verdict, slaveId |-> 0, func |-> 0, data |-> <<>>]
    IN  IF Len(frame) < 5 THEN fails("NeedMore")
        ELSE IF frame[1] = 0 \/ length = 0 \/ Len(frame) > length THEN fails("Error")
        ELSE IF Len(frame) < length THEN fails("NeedMore")
        ELSE [verdict |-> "Ok", slaveId |-> frame[1], func |-> frame[2],
              data |-> SubSeq(frame, 3, length - 2)]
-----------------------------------------------------------------------------
(* The slave.                                                              *)

\* Wrong frames and those for others are dropped without a word.
Heard(frame) ==
    /\ DecodeFrame(frame).verdict = "Ok"
    /\ DecodeFrame(frame).slaveId = SlaveId
    /\ CrcOk(frame)

IllegalFunction == 1
IllegalDataAddress == 2
IllegalDataValue == 3

\* The exception a request earns, or zero.
Refusal(req) ==
    LET last(most) ==
            LET count == ReadU16(req.data, 3)
            IN  IF count \notin 1 .. most THEN IllegalDataValue
                ELSE IF ReadU16(req.data, 1) + count > RegCount THEN IllegalDataAddress ELSE 0
    IN  IF req.func \in Reads THEN last(125)
        ELSE IF req.func = WriteSingle THEN
             IF ReadU16(req.data, 1) >= RegCount THEN IllegalDataAddress ELSE 0
        ELSE IF req.func = WriteMultiple THEN
             IF Len(req.data) < 7 \/ req.data[5] # 2 * ReadU16(req.data, 3)
             THEN IllegalDataValue ELSE last(123)
        ELSE IllegalFunction

\* What a request writes, and the data of its answer.
RegsAfter(req) ==
    LET addr == ReadU16(req.data, 1)
    IN  IF req.func = WriteSingle THEN [regs EXCEPT ![addr] = ReadU16(req.data, 3)]
        ELSE IF req.func = WriteMultiple
        THEN [a \in DOMAIN regs |->
                IF a - addr \in 0 .. ReadU16(req.data, 3) - 1
                THEN ReadU16(req.data, 6 + 2 * (a - addr)) ELSE regs[a]]
        ELSE regs
AnswerData(req) ==
    IF req.func \in Reads
    THEN LET count == ReadU16(req.data, 3)
         IN  <<2 * count>> \o FlattenSeq([i \in 1 .. count |-> U16(regs[ReadU16(req.data, 1) + i - 1])])
    ELSE SubSeq(req.data, 1, 4)

\* The answer, which the injected fault may spoil.
Answer(req) ==
    LET refusal == Refusal(req)
        exception(code) == EncodeFrame(SlaveId, 128 + (req.func % 128), <<code>>)
        neighbour == IF SlaveId = 255 THEN 1 ELSE SlaveId + 1
        normal == EncodeFrame(IF mode = "wrong_slave" THEN neighbour ELSE SlaveId,
                              req.func, AnswerData(req))
    IN  IF refusal # 0 THEN exception(refusal)
        ELSE IF mode = "exception" THEN exception(IllegalDataAddress)
        ELSE IF mode = "crc" THEN [normal EXCEPT ![Len(normal)] = @ ^^ 255]
        ELSE normal

HandleFrame(frame) ==
    LET req == DecodeFrame(frame)
    IN  IF Heard(frame) /\ mode # "no_response"
        THEN /\ inward' = inward \o Answer(req)
             /\ regs' = IF Refusal(req) = 0 THEN RegsAfter(req) ELSE regs
        ELSE UNCHANGED <<inward, regs>>

Trouble(kind) == troubles < MaxTroubles /\ troubles' = troubles + 1 /\ hurt' = kind
Smoothly == UNCHANGED <<troubles, hurt>>

\* read() returns up to 64 bytes.
TakeAfter(bytes) ==
    \E k \in 1 .. Len(outward) :
        LET all == bytes \o SubSeq(outward, 1, k)
        IN  /\ k <= 64
            /\ outward' = SubSeq(outward, k + 1, Len(outward))
            /\ slaveBuf' = IF Len(all) > kMaxFrame THEN <<>> ELSE all

\* Bytes that come after a silence begin a frame.
SlaveReads ==
    /\ outward # <<>>
    /\ \/ /\ Smoothly
          /\ TakeAfter(slaveBuf)
          /\ UNCHANGED <<regs, inward>>
       \/ /\ slaveBuf # <<>>
          /\ Trouble("pause")
          /\ HandleFrame(slaveBuf)
          /\ TakeAfter(<<>>)
    /\ UNCHANGED <<masterVars, mode, historyVars, banks>>

\* read() returns nothing: the frame is complete.
SlaveIdles ==
    /\ slaveBuf # <<>>
    /\ IF outward = <<>> THEN Smoothly ELSE Trouble("pause")
    /\ HandleFrame(slaveBuf)
    /\ slaveBuf' = <<>>
    /\ UNCHANGED <<masterVars, outward, mode, historyVars, banks>>
-----------------------------------------------------------------------------
(* What a call is to do, without frames.                                   *)

Inside(c) == c.addr + (IF c.func \in Reads THEN c.count ELSE Len(c.values)) <= RegCount

Carried(c) == c.slaveId = SlaveId /\ c.func \in FuncCodes /\ mode # "no_response"

Effect(c, bank) ==
    IF Carried(c) /\ Inside(c) /\ c.func \notin Reads
    THEN [a \in DOMAIN bank |->
            IF a - c.addr \in 0 .. Len(c.values) - 1 THEN c.values[a - c.addr + 1] ELSE bank[a]]
    ELSE bank

Outcome(kind) == [kind |-> kind, values |-> <<>>]

Meant(c) ==
    IF ~Carried(c) THEN Outcome("timeout")
    ELSE IF ~Inside(c) THEN Outcome("exception")
    ELSE IF mode # "none" THEN Outcome(mode)
    ELSE [kind |-> "none",
          values |-> IF c.func \in Reads THEN [i \in 1 .. c.count |-> regs[c.addr + i - 1]] ELSE <<>>]
-----------------------------------------------------------------------------
(* The master.                                                             *)

NoCall == [func |-> 0]

RequestData(c) ==
    U16(c.addr) \o
    (IF c.func \in Reads THEN U16(c.count)
     ELSE IF c.func = WriteMultiple
     THEN U16(Len(c.values)) \o <<2 * Len(c.values)>> \o FlattenSeq([i \in DOMAIN c.values |-> U16(c.values[i])])
     ELSE U16(c.values[1]))

\* flush() discards what has arrived of earlier answers, the request goes out.
Call(c) ==
    /\ call = NoCall /\ calls < MaxCalls
    /\ call' = c
    /\ request' = EncodeFrame(c.slaveId, c.func, RequestData(c))
    /\ outward' = outward \o request'
    /\ \E k \in 0 .. Len(inward) : inward' = SubSeq(inward, k + 1, Len(inward))
    /\ meant' = [call |-> c, result |-> Meant(c), regs |-> Effect(c, regs)]
    /\ banks' = IF hurt = "pause" THEN banks \cup {Effect(c, b) : b \in banks}
                ELSE {regs, Effect(c, regs)}
    /\ hurt' = IF hurt = "pause" THEN hurt ELSE IF inward' # <<>> THEN "residue" ELSE "none"
    /\ calls' = calls + 1
    /\ result' = Outcome("none")
    /\ UNCHANGED <<slaveVars, buf, troubles>>

AnswerLength == IF call.func \in Reads THEN 5 + 2 * call.count ELSE 8

\* Mutant: an exception answer is waited for as if it were a normal one.
ReceivedInFull == Len(buf) >= AnswerLength
\* An exception answer is shorter.
Received == Len(buf) >= AnswerLength \/ (Len(buf) >= 5 /\ buf[2] >= 128)

MasterReads ==
    /\ call # NoCall /\ ~Received
    /\ \E k \in 1 .. Len(inward) :
         /\ k <= 64
         /\ buf' = buf \o SubSeq(inward, 1, k)
         /\ inward' = SubSeq(inward, k + 1, Len(inward))
    /\ UNCHANGED <<call, request, result, outward, slaveVars, historyVars, banks, hurt, troubles>>

Return(res) ==
    /\ result' = res
    /\ call' = NoCall /\ request' = <<>> /\ buf' = <<>>
    /\ UNCHANGED <<outward, slaveVars, inward, historyVars, banks>>

\* No first byte in a second, or 3.5 characters of silence after another.
MasterTimesOut ==
    /\ call # NoCall /\ ~Received
    /\ IF outward = <<>> /\ slaveBuf = <<>> /\ inward = <<>> THEN Smoothly ELSE Trouble("pause")
    /\ Return(Outcome("timeout"))

\* The checks in their order.  Of the echo of a write, address and value or
\* number of registers count.
Verdict ==
    IF ~CrcOk(buf) THEN "crc"
    ELSE IF buf[1] # call.slaveId THEN "wrong_slave"
    ELSE IF buf[2] >= 128 THEN IF buf[2] = 128 + call.func THEN "exception" ELSE "mismatch"
    ELSE IF buf[2] # call.func \/ Len(buf) # AnswerLength THEN "mismatch"
    ELSE IF call.func \in Reads THEN IF buf[3] = 2 * call.count THEN "none" ELSE "mismatch"
    ELSE IF SubSeq(buf, 3, 6) = SubSeq(request, 3, 6) THEN "none" ELSE "mismatch"

MasterJudges ==
    /\ call # NoCall /\ Received
    /\ LET verdict == Verdict
           taken == verdict = "none" /\ call.func \in Reads
       IN  Return([kind |-> verdict,
                   values |-> IF taken THEN [i \in 1 .. call.count |-> ReadU16(buf, 2 + 2 * i)]
                              ELSE <<>>])
    /\ Smoothly
-----------------------------------------------------------------------------
(* The line.                                                               *)

Spoilt(bytes) ==
    {[bytes EXCEPT ![i] = @ ^^ mask] : i \in DOMAIN bytes, mask \in Masks}
        \cup {RemoveAt(bytes, i) : i \in DOMAIN bytes}

\* A byte is damaged or lost.  What is spoilt of a request that nobody has begun to
\* read leaves the registers as they are.
LineFails ==
    /\ call # NoCall
    /\ Trouble("damage")
    /\ \/ slaveBuf = <<>> /\ outward' \in Spoilt(outward) /\ banks' = {regs} /\ UNCHANGED inward
       \/ buf = <<>> /\ inward' \in Spoilt(inward) /\ UNCHANGED <<outward, banks>>
    /\ UNCHANGED <<masterVars, slaveVars, historyVars>>

RtuInit ==
    /\ call = NoCall /\ request = <<>> /\ outward = <<>> /\ inward = <<>>
    /\ slaveBuf = <<>> /\ buf = <<>>
    /\ regs = [a \in 0 .. RegCount - 1 |-> 0]
    /\ mode \in {"none", "crc", "no_response", "exception", "wrong_slave"}
    /\ result = Outcome("none") /\ meant = [call |-> NoCall, result |-> result, regs |-> regs]
    /\ banks = {regs} /\ hurt = "none" /\ calls = 0 /\ troubles = 0

Next ==
    \/ \E c \in Calls : Call(c)
    \/ SlaveReads \/ SlaveIdles \/ MasterReads \/ MasterTimesOut \/ MasterJudges
    \/ LineFails

Spec == RtuInit /\ [][Next]_rtuVars
-----------------------------------------------------------------------------
(* Properties.                                                             *)

\* However the ports cut the bytes, a call on a sound line does to the registers what
\* it is to do and returns what it is to return.  A damaged or lost byte makes it
\* fail, and so does what is left of an answer that was given up; a damaged request is
\* not carried out.  Not even a pause makes the registers take a value nobody has
\* written (doTransaction, handleFrame).
WireFaithful ==
    /\ regs \in banks
    /\ call = NoCall =>
         /\ hurt = "none" => result = meant.result /\ regs = meant.regs
         /\ hurt \in {"damage", "residue"} => result.kind # "none"

\* docs/architecture.md:228: a function nobody knows is answered with exception 1.
\* The code drops such a request: decodeFrame refuses it before handleFrame can.
UnknownIsRefused ==
    call = NoCall /\ hurt = "none" /\ meant.call.func \notin FuncCodes \cup {0} =>
        result.kind = "exception"
=============================================================================
