------------------------------ MODULE WriteOnce ------------------------------
(***************************************************************************)
(* What the proposal store promises to whoever submits a proposal and to   *)
(* whoever lists the proposals there are: a file of write-once registers.  *)
(* A register is claimed with a value, and may be given up again as long   *)
(* as it is a draft; once it is final, which readers can see, it neither   *)
(* changes nor goes away, acknowledged or not.  Only a final value is ever *)
(* acknowledged.                                                           *)
(***************************************************************************)
CONSTANTS Uids, Values

VARIABLES
    registers,      \* uid -> free, draft of a value, or final with a value
    acknowledged    \* <<uid, value>> of every append that was confirmed

Free == [kind |-> "free"]
Draft(x) == [kind |-> "draft", value |-> x]
Final(x) == [kind |-> "final", value |-> x]

Init ==
    /\ registers = [u \in Uids |-> Free]
    /\ acknowledged = {}

Claim(u, x) ==
    /\ registers[u] = Free
    /\ registers' = [registers EXCEPT ![u] = Draft(x)]
    /\ UNCHANGED acknowledged

Withdraw(u, x) ==
    /\ registers[u] = Draft(x)
    /\ registers' = [registers EXCEPT ![u] = Free]
    /\ UNCHANGED acknowledged

Complete(u, x) ==
    /\ registers[u] = Draft(x)
    /\ registers' = [registers EXCEPT ![u] = Final(x)]
    /\ UNCHANGED acknowledged

Acknowledge(u, x) ==
    /\ registers[u] = Final(x)
    /\ acknowledged' = acknowledged \cup {<<u, x>>}
    /\ UNCHANGED registers

Next ==
    \E u \in Uids, x \in Values :
        Claim(u, x) \/ Withdraw(u, x) \/ Complete(u, x) \/ Acknowledge(u, x)

Spec == Init /\ [][Next]_<<registers, acknowledged>>
=============================================================================
