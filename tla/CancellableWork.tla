--------------------------- MODULE CancellableWork ---------------------------
(* What a scheduler session promises about the operations submitted to it:   *)
(* they are executed one at a time and in the order of submission, at most   *)
(* once each; one that was withdrawn before it began is never executed; a    *)
(* closed session accepts nothing but finishes what it has accepted; and     *)
(* only an operation that brings the session down can cost others theirs.    *)
EXTENDS Sequences

CONSTANT Requests

VARIABLES
    phase,    \* the fate of each request
    backlog,  \* the accepted requests whose turn has not come, in order
    open,     \* whether requests are accepted
    broken    \* whether an operation has brought the session down

vars == <<phase, backlog, open, broken>>

Phases == {"new", "refused", "queued", "withdrawn", "running", "executed", "done", "lost"}
Busy == \E r \in Requests : phase[r] \in {"running", "executed"}
Becomes(r, p) == phase' = [phase EXCEPT ![r] = p]

Init ==
    /\ phase = [r \in Requests |-> "new"] /\ backlog = <<>>
    /\ open = TRUE /\ broken = FALSE

Accept(r) ==
    /\ open /\ phase[r] = "new" /\ Becomes(r, "queued")
    /\ backlog' = Append(backlog, r) /\ UNCHANGED <<open, broken>>

Refuse(r) ==
    /\ ~open /\ phase[r] = "new" /\ Becomes(r, "refused")
    /\ UNCHANGED <<backlog, open, broken>>

(* A withdrawn request keeps its turn and does nothing with it.              *)
Withdraw(r) == phase[r] = "queued" /\ Becomes(r, "withdrawn") /\ UNCHANGED <<backlog, open, broken>>

Turn == backlog # <<>> /\ ~Busy /\ ~broken /\ backlog' = Tail(backlog) /\ UNCHANGED <<open, broken>>
Begin == Turn /\ phase[Head(backlog)] = "queued" /\ Becomes(Head(backlog), "running")
Skip == Turn /\ phase[Head(backlog)] = "withdrawn" /\ UNCHANGED phase

Execute(r) == phase[r] = "running" /\ Becomes(r, "executed") /\ UNCHANGED <<backlog, open, broken>>
Finish(r) == phase[r] = "executed" /\ Becomes(r, "done") /\ UNCHANGED <<backlog, open, broken>>

(* The operation fails in a way that ends the session.                       *)
Break(r) ==
    /\ phase[r] \in {"running", "executed"} /\ Becomes(r, "lost")
    /\ broken' = TRUE /\ UNCHANGED <<backlog, open>>

Discard ==
    /\ broken /\ open' = FALSE /\ backlog' = <<>>
    /\ phase' = [r \in Requests |-> IF phase[r] = "queued" THEN "lost" ELSE phase[r]]
    /\ UNCHANGED broken

Close == open' = FALSE /\ UNCHANGED <<phase, backlog, broken>>

Proceed == Begin \/ Skip \/ Discard \/ \E r \in Requests : Execute(r) \/ Finish(r) \/ Break(r)
Next == Proceed \/ Close \/ \E r \in Requests : Accept(r) \/ Refuse(r) \/ Withdraw(r)

Spec == Init /\ [][Next]_vars
=============================================================================
