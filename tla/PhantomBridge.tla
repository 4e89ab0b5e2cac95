---------------------------- MODULE PhantomBridge ----------------------------
(***************************************************************************)
(* The approvals of the extension bridge (electron/ws-bridge.js): a single *)
(* slot for the request that waits, a modal (App.jsx), and answers that do *)
(* not say which request they are for.  DappApprovals has the same parts   *)
(* with a slot and an id for each request.                                 *)
(***************************************************************************)
EXTENDS Naturals, Sequences

CONSTANTS Origins,      \* chrome-extension:// origins
          MaxRequests,  \* bound on the requests that need an approval
          MaxClicks     \* bound on the answers

VARIABLES
    \* main process
    asked,           \* what was asked, in order
    outcome,         \* of each: waiting, until its promise resolves
    pendingApproval, \* the request whose promise is in the slot
    fired,           \* timers fire in the order they were set: how many did
    approvedOrigins,
    \* renderer and channels
    modal,           \* what bridgeReq holds
    toUI,            \* bridge:approval-request messages
    toMain,          \* bridge:respond messages: an answer each
    clicks,
    \* history, read by the property only
    consent          \* the requests the user said yes to

vars == <<asked, outcome, pendingApproval, fired, approvedOrigins,
          modal, toUI, toMain, clicks, consent>>

None == 0

\* eth_requestAccounts, or any other of APPROVAL_REQUIRED
Request == [origin : Origins, accounts : BOOLEAN]

\* handleRPC and _requestApproval: the slot is overwritten, whoever was in it.
Ask(req) ==
    /\ Len(asked) < MaxRequests
    /\ ~(req.accounts /\ req.origin \in approvedOrigins)
    /\ asked' = Append(asked, req)
    /\ outcome' = Append(outcome, "waiting")
    /\ pendingApproval' = Len(asked) + 1
    /\ toUI' = Append(toUI, Len(asked) + 1)
    /\ UNCHANGED <<fired, approvedOrigins, modal, toMain, clicks, consent>>

\* The promise in the slot resolves and its handler goes on.
Resolve(yes) ==
    IF pendingApproval = None
    THEN UNCHANGED <<outcome, pendingApproval, approvedOrigins>>
    ELSE LET req == asked[pendingApproval] IN
         /\ outcome' = [outcome EXCEPT ![pendingApproval] = IF yes THEN "approved" ELSE "rejected"]
         /\ pendingApproval' = None
         /\ approvedOrigins' =
              IF yes /\ req.accounts THEN approvedOrigins \cup {req.origin} ELSE approvedOrigins

Respond ==
    /\ toMain # <<>>
    /\ toMain' = Tail(toMain)
    /\ Resolve(Head(toMain))
    /\ UNCHANGED <<asked, fired, modal, toUI, clicks, consent>>

\* The timer of a request rejects whatever is in the slot.
Expire ==
    /\ fired < Len(asked)
    /\ fired' = fired + 1
    /\ Resolve(FALSE)
    /\ UNCHANGED <<asked, modal, toUI, toMain, clicks, consent>>

\* onBridgeRequest: the newest request replaces the modal's.
Show ==
    /\ toUI # <<>>
    /\ toUI' = Tail(toUI)
    /\ modal' = Head(toUI)
    /\ UNCHANGED <<asked, outcome, pendingApproval, fired, approvedOrigins, toMain, clicks, consent>>

\* respondBridge
Click(yes) ==
    /\ modal # None
    /\ clicks < MaxClicks
    /\ clicks' = clicks + 1
    /\ toMain' = Append(toMain, yes)
    /\ modal' = None
    /\ consent' = IF yes THEN consent \cup {modal} ELSE consent
    /\ UNCHANGED <<asked, outcome, pendingApproval, fired, approvedOrigins, toUI>>

Init ==
    /\ asked = <<>> /\ outcome = <<>>
    /\ pendingApproval = None /\ fired = 0 /\ approvedOrigins = {}
    /\ modal = None /\ toUI = <<>> /\ toMain = <<>>
    /\ clicks = 0 /\ consent = {}

Next ==
    \/ \E req \in Request : Ask(req)
    \/ Respond
    \/ Expire
    \/ Show
    \/ \E yes \in BOOLEAN : Click(yes)

Spec == Init /\ [][Next]_vars

\* "eth_sendTransaction requires human approval via UI modal" (ws-bridge.js): a
\* request is approved only if the user said yes to the modal that showed it.
\* (Violated: a request that comes while another waits takes its answer.)
ApprovedByUser ==
    \A r \in DOMAIN asked : outcome[r] = "approved" => r \in consent
=============================================================================
