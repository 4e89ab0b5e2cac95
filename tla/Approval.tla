------------------------------ MODULE Approval ------------------------------
(***************************************************************************)
(* What asking a human promises: a request waits until it is settled, once *)
(* and for good; it is approved only if the user said yes to that very     *)
(* request; it may be rejected at any time, by the user or by a timer.     *)
(***************************************************************************)
EXTENDS Naturals

CONSTANT Requests

VARIABLES
    status,  \* of each request: idle until it is made, waiting until it is settled
    consent  \* the requests the user said yes to

approvalVars == <<status, consent>>

ApprovalInit == status = [r \in Requests |-> "idle"] /\ consent = {}

Move(r, from, to) == status[r] = from /\ status' = [status EXCEPT ![r] = to]

AskUser(r) == Move(r, "idle", "waiting") /\ UNCHANGED consent

\* The user sees only what was asked, but may still answer what is settled
SayYes(r) == status[r] # "idle" /\ consent' = consent \cup {r} /\ UNCHANGED status

Approve(r) == r \in consent /\ Move(r, "waiting", "approved") /\ UNCHANGED consent

Reject(r) == Move(r, "waiting", "rejected") /\ UNCHANGED consent

ApprovalNext == \E r \in Requests : AskUser(r) \/ SayYes(r) \/ Approve(r) \/ Reject(r)

ApprovalSpec == ApprovalInit /\ [][ApprovalNext]_approvalVars
=============================================================================
