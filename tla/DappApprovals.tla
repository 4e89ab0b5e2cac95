---------------------------- MODULE DappApprovals ----------------------------
(***************************************************************************)
(* The human approvals of the built-in dApp browser: the pending approvals *)
(* of the main process (electron/dapp-browser.js), each with an id and a   *)
(* timer of its own; the modal of the renderer (DAppBrowser.jsx), which    *)
(* holds one request at a time; the two message channels between them; the *)
(* permissions that an approved connection grants its origin; and the      *)
(* BrowserView, a native overlay that hides the modal where it is attached.*)
(*                                                                         *)
(* wc-bridge.js keeps its requests the same way, without permissions and   *)
(* without a view.  The ledger is open throughout: Signing has approvals   *)
(* that meet a locked one, and what an approved request does next.         *)
(***************************************************************************)
EXTENDS Naturals, Sequences, SequencesExt

CONSTANTS Origins,      \* origins of dApps
          MaxRequests,  \* bound on the requests that need an approval
          MaxClicks,    \* bound on the answers
          MaxMounts,    \* bound on how often the DAppBrowser component is replaced
          MaxRevokes    \* bound on the revocations

ASSUME ApprovalsAssumption ==
    /\ Origins # {}
    /\ MaxRequests \in Nat /\ MaxClicks \in Nat
    /\ MaxMounts \in Nat /\ MaxRevokes \in Nat

VARIABLES
    \* main process
    asked,       \* what was asked, in order: its place is its approvalId
    decision,    \* waiting while it is in _pendingApprovals, then its outcome
    fired,       \* timers fire in the order they were set: how many did
    permissions, \* dappPermissions of the ledger: origins
    view,        \* the BrowserView: closed (none), attached, detached
    \* renderer
    mount,       \* which instance of the DAppBrowser component, 0 if there is none
    mounts,      \* how many there were
    modal,       \* the request its modal shows
    \* between them
    toUI,        \* dapp:approval-request messages
    toMain,      \* what the renderer invoked
    replies,     \* answers whose invoke has returned: the instances that wait for it
    clicks,
    revokes,
    \* history, read by the properties only
    consent,     \* the requests the user said yes to
    voided       \* those whose origin the user revoked since

mainVars == <<asked, decision, fired, permissions, view>>
uiVars   == <<mount, mounts, modal, clicks, revokes, consent, voided>>
vars     == <<mainVars, uiVars, toUI, toMain, replies>>

None == 0
Ids == DOMAIN asked

\* What a page asks for: to be connected, or anything else that needs an approval
Request == [origin : Origins, connect : BOOLEAN]

Answer(id, yes) == [kind |-> "answer", id |-> id, yes |-> yes, mount |-> mount]
RevokeOf(o) == [kind |-> "revoke", origin |-> o]
View(what) == [kind |-> what]
Invoke(msg) == toMain' = Append(toMain, msg)

-----------------------------------------------------------------------------
(* The main process                                                        *)

\* addBrowserView and removeBrowserView, where there is a view
Attached == IF view = "closed" THEN view ELSE "attached"
Detached == IF view = "closed" THEN view ELSE "detached"

\* _handleRPC and _requestApproval.  A connection of an origin that holds the
\* permission is answered without asking.
Ask(req) ==
    /\ view # "closed"
    /\ Len(asked) < MaxRequests
    /\ ~(req.connect /\ req.origin \in permissions)
    /\ asked' = Append(asked, req)
    /\ decision' = Append(decision, "waiting")
    /\ view' = Detached
    /\ toUI' = Append(toUI, Len(asked) + 1)
    /\ UNCHANGED <<fired, permissions, uiVars, toMain, replies>>

\* The handler of a connection goes on as soon as its approval resolves.
Granted(id) == IF asked[id].connect THEN permissions \cup {asked[id].origin} ELSE permissions

Resolve(id, yes) ==
    /\ decision' = [decision EXCEPT ![id] = IF yes THEN "approved" ELSE "rejected"]
    /\ permissions' = IF yes THEN Granted(id) ELSE permissions

\* Mutant: the answer goes to the newest request.
AnsweredNewest(m) ==
    /\ IF decision[Len(asked)] = "waiting"
       THEN Resolve(Len(asked), m.yes)
       ELSE UNCHANGED <<decision, permissions>>
    /\ view' = Attached
    /\ replies' = Append(replies, m.mount)

\* dapp:approvalRespond: an id that is no longer pending is ignored, but the
\* view is shown and the invoke returns whatever the id was.
Answered(m) ==
    /\ IF decision[m.id] = "waiting"
       THEN Resolve(m.id, m.yes)
       ELSE UNCHANGED <<decision, permissions>>
    /\ view' = Attached
    /\ replies' = Append(replies, m.mount)

RespondApproval(m) ==
    /\ m.kind = "answer"
    /\ Answered(m)

Revoke(m) ==
    /\ m.kind = "revoke"
    /\ permissions' = permissions \ {m.origin}
    /\ UNCHANGED <<decision, view, replies>>

\* The view is made on the first navigation, and is there until it is closed.
ChangeView(m) ==
    /\ \/ m.kind = "navigate" /\ view' = (IF view = "closed" THEN "attached" ELSE view)
       \/ m.kind = "show"     /\ view' = Attached
       \/ m.kind = "hide"     /\ view' = Detached
       \/ m.kind = "close"    /\ view' = "closed"
    /\ UNCHANGED <<decision, permissions, replies>>

Handle ==
    /\ toMain # <<>>
    /\ toMain' = Tail(toMain)
    /\ LET m == Head(toMain) IN RespondApproval(m) \/ Revoke(m) \/ ChangeView(m)
    /\ UNCHANGED <<asked, fired, uiVars, toUI>>

\* Mutant: the timer of a request rejects it only while it is the newest.
ExpiredNewest(id) ==
    IF decision[id] = "waiting" /\ id = Len(asked)
    THEN Resolve(id, FALSE) /\ view' = Attached
    ELSE UNCHANGED <<decision, permissions, view>>

\* 120 s after it was asked: a request that still waits is rejected, and the
\* view is shown.
Expired(id) ==
    IF decision[id] = "waiting"
    THEN Resolve(id, FALSE) /\ view' = Attached
    ELSE UNCHANGED <<decision, permissions, view>>

Expire ==
    /\ fired < Len(asked)
    /\ fired' = fired + 1
    /\ Expired(fired + 1)
    /\ UNCHANGED <<asked, uiVars, toUI, toMain, replies>>

-----------------------------------------------------------------------------
(* The renderer                                                            *)

\* onApprovalRequest: the newest request replaces what the modal shows.  A
\* component that is gone shows nothing.
Show ==
    /\ toUI # <<>>
    /\ toUI' = Tail(toUI)
    /\ modal' = IF mount = 0 THEN modal ELSE Head(toUI)
    /\ UNCHANGED <<mainVars, mount, mounts, clicks, revokes, consent, voided, toMain, replies>>

\* respondApproval: the modal stays until the invoke returns, so the user can
\* click again.
Click(yes) ==
    /\ modal # None
    /\ clicks < MaxClicks
    /\ clicks' = clicks + 1
    /\ Invoke(Answer(modal, yes))
    /\ consent' = IF yes THEN consent \cup {modal} ELSE consent
    /\ UNCHANGED <<mainVars, mount, mounts, modal, revokes, voided, toUI, replies>>

\* setApproval(null), in the instance that waited: whatever its modal shows by
\* then is gone.
Returned ==
    /\ replies # <<>>
    /\ replies' = Tail(replies)
    /\ modal' = IF Head(replies) = mount THEN None ELSE modal
    /\ UNCHANGED <<mainVars, mount, mounts, clicks, revokes, consent, voided, toUI, toMain>>

\* App defines ViewComponent while it renders: each time it renders again, what
\* is below is a new instance, with an empty modal.
NewInstance ==
    /\ mounts < MaxMounts
    /\ mounts' = mounts + 1
    /\ mount' = mounts'
    /\ modal' = None
    /\ UNCHANGED <<mainVars, clicks, revokes, consent, voided, toUI, replies>>

Rerender == mount # 0 /\ NewInstance /\ UNCHANGED toMain

EnterTab == mount = 0 /\ NewInstance /\ Invoke(View("show"))

\* The modal covers the window: the user leaves the tab, navigates, closes or
\* revokes only when there is none.
Free == mount # 0 /\ modal = None

LeaveTab ==
    /\ Free
    /\ mount' = 0
    /\ Invoke(View("hide"))
    /\ UNCHANGED <<mainVars, mounts, modal, clicks, revokes, consent, voided, toUI, replies>>

\* bounded: not while an earlier message is on its way
OpenOrClose ==
    /\ Free
    /\ toMain = <<>>
    /\ Invoke(View(IF view = "closed" THEN "navigate" ELSE "close"))
    /\ UNCHANGED <<mainVars, uiVars, toUI, replies>>

AskRevoke(o) ==
    /\ Free
    /\ revokes < MaxRevokes
    /\ revokes' = revokes + 1
    /\ Invoke(RevokeOf(o))
    /\ voided' = voided \cup {id \in consent : asked[id].origin = o}
    /\ UNCHANGED <<mainVars, mount, mounts, modal, clicks, consent, toUI, replies>>

-----------------------------------------------------------------------------
Init ==
    /\ asked = <<>> /\ decision = <<>> /\ fired = 0
    /\ permissions = {} /\ view = "closed"
    /\ mount = 0 /\ mounts = 0 /\ modal = None
    /\ toUI = <<>> /\ toMain = <<>> /\ replies = <<>>
    /\ clicks = 0 /\ revokes = 0
    /\ consent = {} /\ voided = {}

User ==
    \/ \E yes \in BOOLEAN : Click(yes)
    \/ Rerender
    \/ EnterTab
    \/ LeaveTab
    \/ OpenOrClose
    \/ \E o \in Origins : AskRevoke(o)

Program ==
    \/ Handle
    \/ Expire
    \/ Show
    \/ Returned

Next ==
    \/ \E req \in Request : Ask(req)
    \/ User
    \/ Program

\* A timer that is due fires: the event loop of the main process goes on.  The
\* dApp and the user owe nothing.
Spec == Init /\ [][Next]_vars /\ WF_vars(Expire)

-----------------------------------------------------------------------------
(* Properties                                                              *)

\* The main process only forgets what it settled, the modal shows what was
\* asked, and messages are about requests that were made.
TypeOK ==
    /\ asked \in Seq(Request) /\ Len(asked) <= MaxRequests
    /\ decision \in [Ids -> {"waiting", "approved", "rejected"}]
    /\ fired \in 0 .. Len(asked)
    /\ \A id \in 1 .. fired : decision[id] # "waiting"
    /\ permissions \subseteq Origins
    /\ view \in {"closed", "attached", "detached"}
    /\ mount \in {0, mounts} /\ mounts \in 0 .. MaxMounts
    /\ modal \in Ids \cup {None} /\ (mount = 0 => modal = None)
    /\ ToSet(toUI) \subseteq Ids
    /\ voided \subseteq consent /\ consent \subseteq Ids

\* Whatever the channels, the clicks and the timers do to each other, a request
\* is approved only by the user's yes to this request, and an outcome is final.
Promise == INSTANCE Approval WITH
    Requests <- 1 .. MaxRequests,
    status   <- [r \in 1 .. MaxRequests |-> IF r \in Ids THEN decision[r] ELSE "idle"]

ImplementsApproval == Promise!ApprovalSpec

\* An origin holds a permission only on the strength of a connection the user
\* agreed to and has not revoked since, but for a revocation on its way: no
\* approval that was asked or answered before a revocation outlives it.
PermissionHasConsent ==
    \A o \in permissions :
        \/ \E id \in consent \ voided : asked[id] = [origin |-> o, connect |-> TRUE]
        \/ RevokeOf(o) \in ToSet(toMain)

\* Every request is settled in the end, even if the user never sees it: "120s
\* timeout" of _requestApproval, one for each request.
EveryRequestSettles ==
    \A id \in 1 .. MaxRequests : (id \in Ids) ~> (id \in Ids /\ decision[id] # "waiting")
=============================================================================
