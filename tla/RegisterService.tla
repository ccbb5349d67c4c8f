---------------------------- MODULE RegisterService ----------------------------
(***************************************************************************)
(* What the Modbus master promises to the threads that call it: readPoint  *)
(* and writeRegister behave as operations on registers that take effect at *)
(* one instant between call and return.  A call may fail, and a write that *)
(* failed may have taken effect or not.                                    *)
(*                                                                         *)
(* The promise holds as long as no answer has missed its deadline.  RTU    *)
(* frames carry no transaction number, so once an answer has come too late *)
(* it may be taken for another one.                                        *)
(***************************************************************************)
CONSTANTS Threads, Addrs, Values, InitialValue

VARIABLES
    reg,      \* the value of each register
    op,       \* the operation each thread has called, or NoOp
    effect,   \* what it has done: the value read or written, or "none"
    result,   \* what each thread's last operation returned
    trusted   \* no answer has missed its deadline so far

serviceVars == <<reg, op, effect, result, trusted>>

Ops == [kind : {"read", "write"}, addr : Addrs, val : Values]
NoOp == [kind |-> "none", addr |-> "none", val |-> InitialValue]

Init ==
    /\ reg = [a \in Addrs |-> InitialValue]
    /\ op = [t \in Threads |-> NoOp]
    /\ effect = [t \in Threads |-> "none"]
    /\ result = [t \in Threads |-> "none"]
    /\ trusted = TRUE

Invoke(t) ==
    /\ op[t] = NoOp
    /\ \E o \in Ops : op' = [op EXCEPT ![t] = o]
    /\ UNCHANGED <<reg, effect, result, trusted>>

TakeEffect(t) ==
    /\ op[t] # NoOp /\ effect[t] = "none"
    /\ reg' = IF op[t].kind = "write" THEN [reg EXCEPT ![op[t].addr] = op[t].val] ELSE reg
    /\ effect' = [effect EXCEPT ![t] = reg'[op[t].addr]]
    /\ UNCHANGED <<op, result, trusted>>

Return(t, res) ==
    /\ op[t] # NoOp
    /\ op' = [op EXCEPT ![t] = NoOp]
    /\ effect' = [effect EXCEPT ![t] = "none"]
    /\ result' = [result EXCEPT ![t] = res]
    /\ UNCHANGED <<reg, trusted>>

Succeed(t) == effect[t] # "none" /\ Return(t, effect[t])
Fail(t) == Return(t, "error")

\* A deadline is missed by a call that fails.  From then on a write may take
\* effect after it has failed, and a call may return the answer to an earlier one.
MissDeadline(t) ==
    /\ op[t] # NoOp
    /\ trusted' = FALSE
    /\ op' = [op EXCEPT ![t] = NoOp]
    /\ effect' = [effect EXCEPT ![t] = "none"]
    /\ result' = [result EXCEPT ![t] = "error"]
    /\ UNCHANGED reg
LateWrite ==
    /\ ~trusted
    /\ \E a \in Addrs, v \in Values : reg' = [reg EXCEPT ![a] = v]
    /\ UNCHANGED <<op, effect, result, trusted>>
SucceedWrongly(t) == ~trusted /\ \E v \in Values : Return(t, v)

Next ==
    \/ \E t \in Threads :
         \/ Invoke(t) \/ TakeEffect(t) \/ Succeed(t) \/ Fail(t)
         \/ MissDeadline(t) \/ SucceedWrongly(t)
    \/ LateWrite

Spec == Init /\ [][Next]_serviceVars
=============================================================================
