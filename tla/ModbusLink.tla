------------------------------ MODULE ModbusLink ------------------------------
(***************************************************************************)
(* The Modbus RTU master (src/modbus/modbus_master.cpp), the serial line   *)
(* and the software slave (src/modbus/modbus_slave.cpp).  Threads call     *)
(* readPoint and writeRegister concurrently; a transaction holds m_txMutex *)
(* from the flush to the verdict on the answer.                            *)
(*                                                                         *)
(* A request is one unit.  An answer is two pieces, or one for an          *)
(* exception answer, which is shorter; the master may get them in separate *)
(* reads, and the line may lose or damage each.  A CRC is taken to detect  *)
(* everything that is not exactly one undamaged frame.  Every frame        *)
(* carries the number of its transaction, which the code's frames do not:  *)
(* no guard reads it.                                                      *)
(*                                                                         *)
(* Time is not modelled: a deadline passes when nothing more can come, or  *)
(* at any other moment at the price of one unit of the budget MaxLate.     *)
(***************************************************************************)
EXTENDS Naturals, Sequences

\* An operator introduced by "Mutant:" is not part of the model: it is what a
\* plausible bug would make of the definition that follows it.

CONSTANTS
    Readers,       \* the threads that call readPoint
    Writers,       \* the threads that call writeRegister
    Addrs,         \* register addresses that are read
    Writable,      \* and, among them, written
    Values,        \* register values
    InitialValue,  \* the value of every register at first
    MaxCalls,      \* bound: calls made by all threads together
    MaxFaults,     \* bound: failed writes to the port, lost or damaged units,
                   \* and changes of the injected fault mode
    MaxLate        \* bound: deadlines that pass while an answer is on its way

Threads == Readers \cup Writers
FaultTypes == {"none", "crc", "no_response", "exception", "wrong_slave"}

ASSUME LinkAssumption ==
    /\ InitialValue \in Values /\ Writable \subseteq Addrs
    /\ {"none", "error"} \cap Values = {} /\ "none" \notin Addrs
    /\ MaxCalls \in Nat /\ MaxFaults \in Nat /\ MaxLate \in Nat

VARIABLES
    tpc,       \* where each thread is: "idle", "lock", "send" or "receive"
    job,       \* the operation it has called
    result,    \* what its last call returned
    buf,       \* the answer collected so far by the running transaction
    rx,        \* pieces in the master's receive buffer
    wire,      \* pieces on their way to the master
    requests,  \* requests on their way to the slave, or in its buffer
    reg,       \* m_regs_
    mode,      \* m_fault_
    calls, faults, late,  \* history: budgets spent
    txn,       \* history: the number of each thread's transaction
    effect,    \* history: what the slave has done for it, or "none"
    stale      \* history: transactions with pieces in rx when the running one began

threadVars  == <<tpc, job, result, txn>>
lineVars    == <<rx, wire, requests>>
slaveVars   == <<reg, effect>>
budgetVars  == <<calls, faults, late>>
vars == <<threadVars, buf, lineVars, slaveVars, mode, budgetVars, stale>>

Ops == [kind : {"read", "write"}, addr : Addrs, val : Values]
NoOp == [kind |-> "none", addr |-> "none", val |-> InitialValue]

\* A frame in answer to request r.
Answer(r, slave, exc, val) ==
    [n |-> r.n, slave |-> slave, exc |-> exc, kind |-> r.op.kind,
     addr |-> r.op.addr, val |-> val]
Pieces(frame, bad) ==
    [i \in 1 .. (IF frame.exc THEN 1 ELSE 2) |-> [frame |-> frame, part |-> i, bad |-> bad]]

Init ==
    /\ tpc = [t \in Threads |-> "idle"]
    /\ job = [t \in Threads |-> NoOp]
    /\ result = [t \in Threads |-> "none"]
    /\ buf = <<>> /\ rx = <<>> /\ wire = <<>> /\ requests = <<>>
    /\ reg = [a \in Addrs |-> InitialValue] /\ mode = "none"
    /\ calls = 0 /\ faults = 0 /\ late = 0
    /\ txn = [t \in Threads |-> 0] /\ effect = [t \in Threads |-> "none"]
    /\ stale = {}

Fault == faults < MaxFaults /\ faults' = faults + 1
-----------------------------------------------------------------------------
(* The master.                                                             *)

Invoke(t, o) ==
    /\ tpc[t] = "idle" /\ calls < MaxCalls
    /\ \/ t \in Readers /\ o.kind = "read" /\ o.val = InitialValue
       \/ t \in Writers /\ o.kind = "write" /\ o.addr \in Writable
    /\ calls' = calls + 1
    /\ txn' = [txn EXCEPT ![t] = calls + 1]
    /\ job' = [job EXCEPT ![t] = o]
    /\ tpc' = [tpc EXCEPT ![t] = "lock"]
    /\ UNCHANGED <<result, buf, lineVars, slaveVars, mode, faults, late, stale>>

BusFree == \A t \in Threads : tpc[t] \notin {"send", "receive"}

\* Mutant: the residue of the previous transaction stays in the buffer.
FlushForgotten == UNCHANGED rx
Flush == rx' = <<>>

Begin(t) ==
    /\ tpc[t] = "lock" /\ BusFree
    /\ Flush
    /\ buf' = <<>>
    /\ stale' = {rx[i].frame.n : i \in DOMAIN rx}
    /\ tpc' = [tpc EXCEPT ![t] = "send"]
    /\ UNCHANGED <<job, result, txn, wire, requests, slaveVars, mode, budgetVars>>

\* The end of a call, successful or not.
Finish(t, res) ==
    /\ tpc' = [tpc EXCEPT ![t] = "idle"]
    /\ job' = [job EXCEPT ![t] = NoOp]
    /\ result' = [result EXCEPT ![t] = res]
    /\ effect' = [effect EXCEPT ![t] = "none"]
    /\ UNCHANGED <<txn, wire, requests, reg, mode, calls, stale>>

SendRequest(t) ==
    /\ tpc[t] = "send"
    /\ requests' = Append(requests, [n |-> txn[t], thread |-> t, op |-> job[t]])
    /\ tpc' = [tpc EXCEPT ![t] = "receive"]
    /\ UNCHANGED <<job, result, txn, buf, rx, wire, slaveVars, mode, budgetVars, stale>>

SendFails(t) ==
    /\ tpc[t] = "send"
    /\ Fault
    /\ Finish(t, "error")
    /\ UNCHANGED <<buf, rx, late>>

\* The loop goes on until the expected length, or a whole exception answer.
Complete == Len(buf) >= 2 \/ (Len(buf) = 1 /\ buf[1].frame.exc)

\* read() takes some of the bytes that have arrived.
ReceiveSome(t) ==
    /\ tpc[t] = "receive" /\ ~Complete
    /\ \E k \in 1 .. Len(rx) :
         /\ buf' = buf \o SubSeq(rx, 1, k)
         /\ rx' = SubSeq(rx, k + 1, Len(rx))
    /\ UNCHANGED <<threadVars, wire, requests, slaveVars, mode, budgetVars, stale>>

\* An answer may still come.
OnTheWay == requests # <<>> \/ wire # <<>>
\* Mutant: the first read() that returns nothing ends the wait.
GivesUpEarly(t) ==
    /\ tpc[t] = "receive" /\ ~Complete /\ rx = <<>>
    /\ Finish(t, "error")
    /\ UNCHANGED <<buf, rx, faults, late>>

\* No first byte in time, or more than 3.5 characters of silence in a frame.
TimesOut(t) ==
    /\ tpc[t] = "receive" /\ ~Complete /\ rx = <<>>
    /\ IF OnTheWay THEN late < MaxLate /\ late' = late + 1 ELSE UNCHANGED late
    /\ Finish(t, "error")
    /\ UNCHANGED <<buf, rx, faults>>

\* The checks: CRC, slave address, exception, function code, length, and the
\* echo of a write.  Nothing in an answer to a read tells its address.
WholeFrame ==
    /\ buf = Pieces(buf[1].frame, FALSE)
    /\ buf[1].frame.slave = "asked"
    /\ ~buf[1].frame.exc
Answers(t) ==
    /\ WholeFrame
    /\ buf[1].frame.kind = job[t].kind
    /\ job[t].kind = "write" =>
          buf[1].frame.addr = job[t].addr /\ buf[1].frame.val = job[t].val

Verdict(t) ==
    /\ tpc[t] = "receive" /\ Complete
    /\ Finish(t, IF Answers(t) THEN buf[1].frame.val ELSE "error")
    /\ UNCHANGED <<buf, rx, faults, late>>

MasterStep(t) ==
    Begin(t) \/ SendRequest(t) \/ SendFails(t) \/ ReceiveSome(t) \/ TimesOut(t) \/ Verdict(t)
-----------------------------------------------------------------------------
(* The slave.                                                              *)

\* What the request does to the registers.  Every fault but "no_response"
\* carries the request out and spoils the answer.
Execute(r) ==
    /\ reg' = IF r.op.kind = "write" THEN [reg EXCEPT ![r.op.addr] = r.op.val] ELSE reg
    /\ effect' = IF txn[r.thread] = r.n /\ job[r.thread] # NoOp
                 THEN [effect EXCEPT ![r.thread] = reg'[r.op.addr]] ELSE effect

HandleFrame(r) ==
    \/ /\ mode = "no_response"
       /\ UNCHANGED <<slaveVars, wire>>
    \/ /\ mode # "no_response"
       /\ Execute(r)
       /\ wire' = wire \o
            Pieces(Answer(r, IF mode = "wrong_slave" THEN "other" ELSE "asked",
                          mode = "exception", reg'[r.op.addr]),
                   mode = "crc")

\* 3.5 characters of silence end a request.  Two requests that have run
\* together are one undecodable frame, unless the first was read in time.
SlaveStep ==
    /\ requests # <<>>
    /\ \/ /\ HandleFrame(Head(requests))
          /\ requests' = Tail(requests)
       \/ /\ Len(requests) > 1
          /\ requests' = <<>>
          /\ UNCHANGED <<slaveVars, wire>>
    /\ UNCHANGED <<threadVars, buf, rx, mode, budgetVars, stale>>

InjectFault(m) ==
    /\ m \in FaultTypes \ {mode}
    /\ Fault
    /\ mode' = m
    /\ UNCHANGED <<threadVars, buf, lineVars, slaveVars, calls, late, stale>>
-----------------------------------------------------------------------------
(* The line.                                                               *)

Arrives ==
    /\ wire # <<>>
    /\ rx' = Append(rx, Head(wire))
    /\ wire' = Tail(wire)
    /\ UNCHANGED <<threadVars, buf, requests, slaveVars, mode, budgetVars, stale>>

IsLost ==
    /\ Fault
    /\ \/ wire # <<>> /\ wire' = Tail(wire) /\ UNCHANGED requests
       \/ requests # <<>> /\ requests' = Tail(requests) /\ UNCHANGED wire
    /\ UNCHANGED <<threadVars, buf, rx, slaveVars, mode, calls, late, stale>>

IsDamaged ==
    /\ wire # <<>>
    /\ Fault
    /\ wire' = [wire EXCEPT ![1].bad = TRUE]
    /\ UNCHANGED <<threadVars, buf, rx, requests, slaveVars, mode, calls, late, stale>>

Next ==
    \/ \E t \in Threads : MasterStep(t) \/ \E o \in Ops : Invoke(t, o)
    \/ SlaveStep \/ \E m \in FaultTypes : InjectFault(m)
    \/ Arrives \/ IsLost \/ IsDamaged

Spec == Init /\ [][Next]_vars
-----------------------------------------------------------------------------
(* Properties.                                                             *)

Frames == [n : 1 .. MaxCalls, slave : {"asked", "other"}, exc : BOOLEAN,
           kind : {"read", "write"}, addr : Addrs, val : Values]
Units == [frame : Frames, part : {1, 2}, bad : BOOLEAN]

\* Every variable has values of its kind, and one transaction runs at a time.
TypeOK ==
    /\ tpc \in [Threads -> {"idle", "lock", "send", "receive"}]
    /\ \A t, u \in Threads :
          tpc[t] \in {"send", "receive"} /\ tpc[u] \in {"send", "receive"} => t = u
    /\ job \in [Threads -> Ops \cup {NoOp}]
    /\ result \in [Threads -> Values \cup {"none", "error"}]
    /\ buf \in Seq(Units) /\ rx \in Seq(Units) /\ wire \in Seq(Units)
    /\ requests \in Seq([n : 1 .. MaxCalls, thread : Threads, op : Ops])
    /\ reg \in [Addrs -> Values] /\ mode \in FaultTypes
    /\ txn \in [Threads -> 0 .. MaxCalls]
    /\ effect \in [Threads -> Values \cup {"none"}]
    /\ stale \subseteq 1 .. MaxCalls

\* An answer that lay in the receive buffer before the transaction began is
\* never taken for its own (the flush of doTransaction), however late answers
\* are.
ResidueIsNotAccepted ==
    \A t \in Threads :
        tpc[t] = "receive" /\ Complete /\ Answers(t) => buf[1].frame.n \notin stale

\* The bus belongs to one transaction, and so does what it accepts.
LinkSafe == TypeOK /\ ResidueIsNotAccepted

\* The calls behave as operations on atomic registers (RegisterService), until
\* an answer comes too late.
Service == INSTANCE RegisterService WITH op <- job, trusted <- (late = 0)
ServiceSpec == Service!Spec
=============================================================================
