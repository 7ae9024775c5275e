--------------------------- MODULE RequestService ---------------------------
(***************************************************************************)
(* What redis::client promises to a caller of send(): the call returns     *)
(* once, either with the server's answers to its own first commands, in    *)
(* their order, or with a local error; the server runs each command at     *)
(* most once, and only between the call and its return.                    *)
(***************************************************************************)
EXTENDS Naturals, Sequences

CONSTANTS Requests, Size

VARIABLES
    status,    \* "new", "pending" or "done"
    executed,  \* how many commands of the call the server ran
    answered,  \* how many of them the call returned the answer of
    failed     \* the call returned a local error

vars == <<status, executed, answered, failed>>

Init ==
    /\ status = [r \in Requests |-> "new"]
    /\ executed = [r \in Requests |-> 0]
    /\ answered = [r \in Requests |-> 0]
    /\ failed = [r \in Requests |-> FALSE]

Submit(r) ==
    /\ status[r] = "new"
    /\ status' = [status EXCEPT ![r] = "pending"]
    /\ UNCHANGED <<executed, answered, failed>>

Execute(r) ==
    /\ status[r] = "pending"
    /\ executed[r] < Size[r]
    /\ executed' = [executed EXCEPT ![r] = @ + 1]
    /\ UNCHANGED <<status, answered, failed>>

\* Answers are only returned for commands that ran
Answer(r) ==
    /\ status[r] = "pending"
    /\ status' = [status EXCEPT ![r] = "done"]
    /\ \E n \in 1..executed[r] : answered' = [answered EXCEPT ![r] = n]
    /\ UNCHANGED <<executed, failed>>

\* The caller of a failed call does not learn how many commands ran
Fail(r) ==
    /\ status[r] = "pending"
    /\ status' = [status EXCEPT ![r] = "done"]
    /\ failed' = [failed EXCEPT ![r] = TRUE]
    /\ \E n \in executed[r]..Size[r] : executed' = [executed EXCEPT ![r] = n]
    /\ UNCHANGED answered

Next == \E r \in Requests : Submit(r) \/ Execute(r) \/ Answer(r) \/ Fail(r)

Spec == Init /\ [][Next]_vars
=============================================================================
