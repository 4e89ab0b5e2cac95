------------------------ MODULE DappApprovals_proofs -------------------------
(***************************************************************************)
(* The approvals of DappApprovals.tla for every set of origins and every   *)
(* bound: types, the refinement of Approval, and the consent behind each   *)
(* permission.  The argument is one of order.  A request is shown once, so *)
(* that nobody says yes to it after it was revoked; and the channel to the *)
(* main process keeps its order, so that the revocation comes after every  *)
(* yes it revokes.                                                         *)
(***************************************************************************)
EXTENDS DappApprovals, TLAPS

-----------------------------------------------------------------------------
(* The inductive invariant                                                  *)

Outcomes == {"waiting", "approved", "rejected"}
ViewKinds == {"navigate", "show", "hide", "close"}
Message == [kind : {"answer"}, id : Nat, yes : BOOLEAN, mount : Nat]
             \cup [kind : {"revoke"}, origin : Origins]
             \cup [kind : ViewKinds]

RequestType ==
    /\ asked \in Seq(Request) /\ Len(asked) <= MaxRequests
    /\ decision \in Seq(Outcomes) /\ Len(decision) = Len(asked)
    /\ fired \in 0 .. Len(asked)
    /\ \A id \in 1 .. fired : decision[id] # "waiting"

WindowType ==
    /\ permissions \subseteq Origins
    /\ view \in {"closed", "attached", "detached"}
    /\ mount \in {0, mounts} /\ mounts \in 0 .. MaxMounts
    /\ modal \in 0 .. Len(asked) /\ (mount = 0 => modal = 0)
    /\ consent \subseteq 1 .. Len(asked) /\ voided \subseteq consent

\* What is on its way to the window was asked, is not shown yet and nothing
\* was said to it; what is shown was not revoked.
ShownOnce ==
    /\ toUI \in Seq(Nat)
    /\ \A i \in 1..Len(toUI) : toUI[i] \in 1..Len(asked) /\ toUI[i] \notin consent
                                 /\ toUI[i] # modal
    /\ \A i, j \in 1..Len(toUI) : i < j => toUI[i] # toUI[j]
    /\ modal \notin voided

\* A yes on its way is the user's, and if it was revoked since, the revocation
\* is behind it.
YesMessage(i) ==
    toMain[i].yes =>
        /\ toMain[i].id \in consent
        /\ toMain[i].id \in voided =>
             \E j \in 1..Len(toMain) : i < j /\ toMain[j] = RevokeOf(asked[toMain[i].id].origin)

MessageInv ==
    /\ toMain \in Seq(Message)
    /\ \A i \in 1..Len(toMain) : toMain[i].kind = "answer" =>
         toMain[i].id \in 1..Len(asked) /\ YesMessage(i)

PermissionInv ==
    \A o \in permissions :
        \/ \E id \in consent \ voided : asked[id] = [origin |-> o, connect |-> TRUE]
        \/ \E i \in 1..Len(toMain) : toMain[i] = RevokeOf(o)

ApprovalInv == RequestType /\ WindowType /\ ShownOnce /\ MessageInv /\ PermissionInv

-----------------------------------------------------------------------------
(* Sequences                                                                *)

\* What is appended comes last, and the rest stays in its place.
LEMMA Appended ==
    ASSUME NEW S, NEW s \in Seq(S), NEW x \in S
    PROVE  /\ Append(s, x) \in Seq(S) /\ Len(Append(s, x)) = Len(s) + 1 /\ Len(s) \in Nat
           /\ \A i \in 1..Len(s) : Append(s, x)[i] = s[i]
           /\ Append(s, x)[Len(s) + 1] = x
OBVIOUS

\* What is taken from the front leaves the rest in its order.
LEMMA Taken ==
    ASSUME NEW S, NEW s \in Seq(S), s # <<>>
    PROVE  /\ Tail(s) \in Seq(S) /\ Len(s) \in Nat \ {0} /\ Len(Tail(s)) = Len(s) - 1
           /\ \A i \in 1..Len(Tail(s)) : Tail(s)[i] = s[i + 1] /\ i + 1 \in 1..Len(s)
           /\ \A i \in 1..Len(s) : i # 1 => i - 1 \in 1..Len(Tail(s)) /\ Tail(s)[i - 1] = s[i]
           /\ Head(s) = s[1] /\ 1 \in 1..Len(s)
OBVIOUS

-----------------------------------------------------------------------------
(* The main process                                                         *)

\* One more request: what was asked before keeps its place.
LEMMA AskStep ==
    ASSUME ApprovalInv, NEW req \in Request, Ask(req)
    PROVE  ApprovalInv'
<1>. DEFINE n == Len(asked) + 1
<1>1. /\ asked \in Seq(Request) /\ decision \in Seq(Outcomes) /\ Len(decision) = Len(asked)
      /\ toUI \in Seq(Nat) /\ Len(asked) \in Nat
  BY DEF ApprovalInv, RequestType, ShownOnce
<1>2. /\ asked' = Append(asked, req) /\ decision' = Append(decision, "waiting")
      /\ toUI' = Append(toUI, n) /\ n <= MaxRequests
  BY <1>1, ApprovalsAssumption DEF Ask
<1>3. /\ asked' \in Seq(Request) /\ Len(asked') = n
      /\ \A i \in 1..Len(asked) : asked'[i] = asked[i]
  BY <1>1, <1>2, Appended
<1>4. "waiting" \in Outcomes
  BY DEF Outcomes
<1>5. /\ decision' \in Seq(Outcomes) /\ Len(decision') = n
      /\ \A i \in 1..Len(asked) : decision'[i] = decision[i]
  BY <1>1, <1>2, <1>4, Appended
<1>6. n \in Nat
  BY <1>1
<1>7. /\ toUI' \in Seq(Nat) /\ Len(toUI') = Len(toUI) + 1 /\ Len(toUI) \in Nat
      /\ \A i \in 1..Len(toUI) : toUI'[i] = toUI[i]
      /\ toUI'[Len(toUI) + 1] = n
  BY <1>1, <1>2, <1>6, Appended
<1>. HIDE DEF n
<1>8. /\ 1..Len(asked) \subseteq 1..n /\ n \notin 1..Len(asked) /\ n \in 1..n
      /\ 0..Len(asked) \subseteq 0..n /\ n # 0
  BY <1>1 DEF n
<1>9. RequestType'
  BY <1>1, <1>2, <1>3, <1>5, <1>8 DEF ApprovalInv, RequestType, Ask
<1>10. WindowType'
  BY <1>3, <1>8 DEF ApprovalInv, WindowType, Ask, uiVars, Detached
<1>11. ShownOnce'
  <2>1. \A i \in 1..Len(toUI') : i \in 1..Len(toUI) \/ i = Len(toUI) + 1
    BY <1>7
  <2>2. consent \subseteq 1..Len(asked) /\ modal \in 0..Len(asked)
    BY DEF ApprovalInv, WindowType
  <2>3. n \notin consent /\ n # modal
    BY <1>1, <1>8, <2>2 DEF n
  <2>4. UNCHANGED <<modal, consent, voided>>
    BY DEF Ask, uiVars
  <2>5. \A i \in 1..Len(toUI') : toUI'[i] \in 1..Len(asked') /\ toUI'[i] \notin consent'
                                   /\ toUI'[i] # modal'
    BY <1>3, <1>7, <1>8, <2>1, <2>3, <2>4 DEF ApprovalInv, ShownOnce
  <2>6. \A i, j \in 1..Len(toUI') : i < j => toUI'[i] # toUI'[j]
    <3>. SUFFICES ASSUME NEW i \in 1..Len(toUI'), NEW j \in 1..Len(toUI'), i < j
                  PROVE  toUI'[i] # toUI'[j]
      OBVIOUS
    <3>1. i \in 1..Len(toUI)
      BY <1>7
    <3>2. toUI'[i] = toUI[i] /\ toUI[i] \in 1..Len(asked)
      BY <1>7, <3>1 DEF ApprovalInv, ShownOnce
    <3>3. CASE j \in 1..Len(toUI)
      BY <1>7, <3>1, <3>2, <3>3 DEF ApprovalInv, ShownOnce
    <3>4. CASE j = Len(toUI) + 1
      BY <1>7, <1>8, <3>2, <3>4
    <3>. QED
      BY <2>1, <3>3, <3>4
  <2>. QED
    BY <1>7, <2>4, <2>5, <2>6 DEF ApprovalInv, ShownOnce
<1>12. MessageInv'
  <2>1. UNCHANGED <<toMain, consent, voided>>
    BY DEF Ask, uiVars
  <2>2. toMain \in Seq(Message)
    BY DEF ApprovalInv, MessageInv
  <2>3. ASSUME NEW i \in 1..Len(toMain), toMain[i].kind = "answer"
        PROVE  toMain[i].id \in 1..Len(asked') /\ YesMessage(i)'
    <3>1. toMain[i].id \in 1..Len(asked) /\ YesMessage(i)
      BY <2>3 DEF ApprovalInv, MessageInv
    <3>2. asked'[toMain[i].id] = asked[toMain[i].id]
      BY <1>3, <3>1
    <3>. QED
      BY <1>3, <1>8, <2>1, <3>1, <3>2 DEF YesMessage
  <2>. QED
    BY <2>1, <2>2, <2>3 DEF MessageInv
<1>13. PermissionInv'
  BY <1>3 DEF ApprovalInv, PermissionInv, WindowType, Ask, uiVars, RevokeOf
<1>. QED
  BY <1>9, <1>10, <1>11, <1>12, <1>13 DEF ApprovalInv

\* What settling a request changes: its decision, and if it was a connection
\* that was approved, the permission of its origin.
LEMMA ResolveEffect ==
    ASSUME ApprovalInv, NEW id \in 1..Len(asked), NEW yes \in BOOLEAN, Resolve(id, yes)
    PROVE  /\ decision' \in Seq(Outcomes) /\ Len(decision') = Len(decision)
           /\ \A i \in 1..Len(asked) : i # id => decision'[i] = decision[i]
           /\ decision'[id] # "waiting"
           /\ permissions' \subseteq Origins
           /\ \A o \in permissions' : o \notin permissions =>
                yes /\ asked[id] = [origin |-> o, connect |-> TRUE]
<1>1. /\ decision \in Seq(Outcomes) /\ Len(decision) = Len(asked)
      /\ asked \in Seq(Request) /\ permissions \subseteq Origins
  BY DEF ApprovalInv, RequestType, WindowType
<1>2. asked[id] \in Request
  BY <1>1
<1>3. asked[id] = [origin |-> asked[id].origin, connect |-> asked[id].connect]
      /\ asked[id].origin \in Origins /\ asked[id].connect \in BOOLEAN
  BY <1>2 DEF Request
<1>4. /\ decision' \in Seq(Outcomes) /\ Len(decision') = Len(decision)
      /\ \A i \in 1..Len(asked) : i # id => decision'[i] = decision[i]
      /\ decision'[id] # "waiting"
  BY <1>1 DEF Resolve, Outcomes
<1>5. /\ permissions' \subseteq Origins
      /\ \A o \in permissions' : o \notin permissions =>
           yes /\ asked[id].connect = TRUE /\ o = asked[id].origin
  BY <1>1, <1>3 DEF Resolve, Granted
<1>. QED
  BY <1>3, <1>4, <1>5

\* The head of the channel is a message, and if it is a yes to a request that
\* was revoked since, the revocation is still on its way.
LEMMA HeadMessage ==
    ASSUME ApprovalInv, toMain # <<>>
    PROVE  /\ Head(toMain) \in Message
           /\ Head(toMain).kind = "answer" =>
                /\ Head(toMain).id \in 1..Len(asked) /\ Head(toMain).yes \in BOOLEAN
                /\ Head(toMain).yes =>
                     /\ Head(toMain).id \in consent
                     /\ Head(toMain).id \in voided =>
                          \E j \in 1..Len(Tail(toMain)) :
                             Tail(toMain)[j] = RevokeOf(asked[Head(toMain).id].origin)
<1>1. toMain \in Seq(Message) /\ 1 \in 1..Len(toMain) /\ Head(toMain) = toMain[1]
  BY Taken DEF ApprovalInv, MessageInv
<1>2. Head(toMain) \in Message
  BY <1>1
<1>3. ASSUME Head(toMain).kind = "answer"
      PROVE  /\ Head(toMain).id \in 1..Len(asked) /\ YesMessage(1)
             /\ Head(toMain).yes \in BOOLEAN
  BY <1>1, <1>2, <1>3 DEF ApprovalInv, MessageInv, Message, ViewKinds
<1>4. ASSUME NEW j \in 1..Len(toMain), 1 < j
      PROVE  j - 1 \in 1..Len(Tail(toMain)) /\ Tail(toMain)[j - 1] = toMain[j]
  BY <1>1, <1>4, Taken
<1>. QED
  BY <1>1, <1>2, <1>3, <1>4 DEF YesMessage

\* When the head is taken, what is said of the other messages remains true.
LEMMA TakeMessage ==
    ASSUME ApprovalInv, toMain # <<>>, toMain' = Tail(toMain),
           UNCHANGED <<asked, consent, voided>>
    PROVE  MessageInv'
<1>1. toMain \in Seq(Message)
  BY DEF ApprovalInv, MessageInv
<1>2. /\ toMain' \in Seq(Message) /\ Len(toMain) \in Nat /\ Len(toMain') = Len(toMain) - 1
      /\ \A i \in 1..Len(toMain') : toMain'[i] = toMain[i + 1] /\ i + 1 \in 1..Len(toMain)
      /\ \A i \in 1..Len(toMain) : i # 1 => i - 1 \in 1..Len(toMain') /\ toMain'[i - 1] = toMain[i]
  BY <1>1, Taken
<1>3. ASSUME NEW i \in 1..Len(toMain'), toMain'[i].kind = "answer"
      PROVE  toMain'[i].id \in 1..Len(asked') /\ YesMessage(i)'
  <2>1. toMain[i + 1].id \in 1..Len(asked) /\ YesMessage(i + 1)
    BY <1>2, <1>3 DEF ApprovalInv, MessageInv
  <2>2. ASSUME NEW j \in 1..Len(toMain), i + 1 < j
        PROVE  i < j - 1 /\ j - 1 \in 1..Len(toMain') /\ toMain'[j - 1] = toMain[j]
    BY <1>2, <2>2
  <2>. QED
    BY <1>2, <2>1, <2>2 DEF YesMessage
<1>. QED
  BY <1>2, <1>3 DEF MessageInv

\* A permission that stays keeps what stands behind it, unless its revocation
\* is the message that is handled.
LEMMA PermissionKept ==
    ASSUME ApprovalInv, toMain # <<>>, toMain' = Tail(toMain),
           UNCHANGED <<asked, consent, voided>>,
           NEW o \in permissions, Head(toMain) # RevokeOf(o)
    PROVE  \/ \E id \in consent' \ voided' : asked'[id] = [origin |-> o, connect |-> TRUE]
           \/ \E i \in 1..Len(toMain') : toMain'[i] = RevokeOf(o)
<1>1. toMain \in Seq(Message)
  BY DEF ApprovalInv, MessageInv
<1>2. CASE \E id \in consent \ voided : asked[id] = [origin |-> o, connect |-> TRUE]
  BY <1>2
<1>3. CASE \E i \in 1..Len(toMain) : toMain[i] = RevokeOf(o)
  <2>1. PICK i \in 1..Len(toMain) : toMain[i] = RevokeOf(o)
    BY <1>3
  <2>2. i # 1
    BY <1>1, <2>1, Taken
  <2>. QED
    BY <1>1, <2>1, <2>2, Taken
<1>. QED
  BY <1>2, <1>3 DEF ApprovalInv, PermissionInv

\* The main process handles a message: an answer may settle the request it
\* names, a revocation takes the permission, the rest is about the view.
LEMMA HandleStep ==
    ASSUME ApprovalInv, Handle
    PROVE  ApprovalInv'
<1>. DEFINE m == Head(toMain)
<1>1. /\ toMain # <<>> /\ toMain' = Tail(toMain)
      /\ UNCHANGED <<asked, fired, toUI, mount, mounts, modal, clicks, revokes, consent, voided>>
      /\ RespondApproval(m) \/ Revoke(m) \/ ChangeView(m)
  BY DEF Handle, uiVars
<1>2. MessageInv'
  BY <1>1, TakeMessage
<1>3. ShownOnce'
  BY <1>1 DEF ApprovalInv, ShownOnce
<1>4. m \in Message
  BY <1>1, HeadMessage
<1>5. ASSUME NEW o \in permissions, m # RevokeOf(o)
      PROVE  \/ \E id \in consent' \ voided' : asked'[id] = [origin |-> o, connect |-> TRUE]
             \/ \E i \in 1..Len(toMain') : toMain'[i] = RevokeOf(o)
  BY <1>1, <1>5, PermissionKept
<1>6. ASSUME RespondApproval(m)
      PROVE  RequestType' /\ WindowType' /\ PermissionInv'
  <2>1. m.kind = "answer" /\ view' = Attached
    BY <1>6 DEF RespondApproval, Answered
  <2>2. /\ m.id \in 1..Len(asked) /\ m.yes \in BOOLEAN
        /\ m.yes => /\ m.id \in consent
                    /\ m.id \in voided =>
                         \E j \in 1..Len(toMain') : toMain'[j] = RevokeOf(asked[m.id].origin)
    BY <1>1, <2>1, HeadMessage
  <2>3. Resolve(m.id, m.yes) \/ UNCHANGED <<decision, permissions>>
    BY <1>6 DEF RespondApproval, Answered
  <2>4. \A o \in permissions : m # RevokeOf(o)
    BY <2>1 DEF RevokeOf
  <2>. HIDE DEF m
  <2>5. CASE UNCHANGED <<decision, permissions>>
    <3>1. RequestType'
      BY <1>1, <2>5 DEF ApprovalInv, RequestType
    <3>2. WindowType'
      BY <1>1, <2>1, <2>5 DEF ApprovalInv, WindowType, Attached
    <3>3. PermissionInv'
      BY <1>5, <2>4, <2>5 DEF PermissionInv
    <3>. QED
      BY <3>1, <3>2, <3>3
  <2>6. CASE Resolve(m.id, m.yes)
    <3>1. /\ decision' \in Seq(Outcomes) /\ Len(decision') = Len(decision)
          /\ \A i \in 1..Len(asked) : i # m.id => decision'[i] = decision[i]
          /\ decision'[m.id] # "waiting"
          /\ permissions' \subseteq Origins
          /\ \A o \in permissions' : o \notin permissions =>
                m.yes /\ asked[m.id] = [origin |-> o, connect |-> TRUE]
      BY <2>2, <2>6, ResolveEffect
    <3>2. RequestType'
      <4>1. \A id \in 1..fired : id \in 1..Len(asked)
        BY DEF ApprovalInv, RequestType
      <4>. QED
        BY <1>1, <3>1, <4>1 DEF ApprovalInv, RequestType
    <3>3. WindowType'
      BY <1>1, <2>1, <3>1 DEF ApprovalInv, WindowType, Attached
    <3>4. ASSUME NEW o \in permissions', o \notin permissions
          PROVE  \/ \E id \in consent' \ voided' : asked'[id] = [origin |-> o, connect |-> TRUE]
                 \/ \E i \in 1..Len(toMain') : toMain'[i] = RevokeOf(o)
      <4>1. m.yes /\ asked[m.id] = [origin |-> o, connect |-> TRUE] /\ asked[m.id].origin = o
        BY <3>1, <3>4
      <4>. QED
        BY <1>1, <2>2, <4>1
    <3>5. PermissionInv'
      BY <1>5, <2>4, <3>4 DEF PermissionInv
    <3>. QED
      BY <3>2, <3>3, <3>5
  <2>. QED
    BY <2>3, <2>5, <2>6
<1>7. ASSUME Revoke(m)
      PROVE  RequestType' /\ WindowType' /\ PermissionInv'
  <2>1. /\ m.kind = "revoke" /\ permissions' = permissions \ {m.origin}
        /\ UNCHANGED <<decision, view>>
    BY <1>7 DEF Revoke
  <2>2. \A o \in permissions' : o \in permissions /\ m # RevokeOf(o)
    BY <2>1 DEF RevokeOf
  <2>. HIDE DEF m
  <2>3. RequestType' /\ WindowType'
    BY <1>1, <2>1 DEF ApprovalInv, RequestType, WindowType
  <2>4. PermissionInv'
    BY <1>5, <2>2 DEF PermissionInv
  <2>. QED
    BY <2>3, <2>4
<1>8. ASSUME ChangeView(m)
      PROVE  RequestType' /\ WindowType' /\ PermissionInv'
  <2>1. /\ view' \in {"closed", "attached", "detached"} /\ UNCHANGED <<decision, permissions>>
        /\ m.kind # "revoke"
    BY <1>8 DEF ChangeView, Attached, Detached, ApprovalInv, WindowType
  <2>2. \A o \in permissions : m # RevokeOf(o)
    BY <2>1 DEF RevokeOf
  <2>. HIDE DEF m
  <2>3. RequestType' /\ WindowType'
    BY <1>1, <2>1 DEF ApprovalInv, RequestType, WindowType
  <2>4. PermissionInv'
    BY <1>5, <2>1, <2>2 DEF PermissionInv
  <2>. QED
    BY <2>3, <2>4
<1>. QED
  BY <1>1, <1>2, <1>3, <1>6, <1>7, <1>8 DEF ApprovalInv

\* The next timer: its request has an outcome by then, or is rejected now.
LEMMA ExpireStep ==
    ASSUME ApprovalInv, Expire
    PROVE  ApprovalInv'
<1>. DEFINE n == fired + 1
<1>1. /\ fired \in Nat /\ Len(asked) \in Nat /\ n \in 1..Len(asked) /\ fired' = n
      /\ UNCHANGED <<asked, toUI, toMain, mount, mounts, modal, clicks, revokes, consent, voided>>
  BY DEF ApprovalInv, RequestType, Expire, uiVars
<1>2. ShownOnce' /\ MessageInv'
  BY <1>1 DEF ApprovalInv, ShownOnce, MessageInv, YesMessage, RevokeOf
<1>3. \A id \in 1..n : id = n \/ id \in 1..fired
  BY <1>1
<1>. HIDE DEF n
<1>4. ASSUME decision[n] = "waiting"
      PROVE  RequestType' /\ WindowType' /\ permissions' \subseteq permissions
  <2>1. Resolve(n, FALSE) /\ view' = Attached
    BY <1>4 DEF Expire, Expired, n
  <2>2. /\ decision' \in Seq(Outcomes) /\ Len(decision') = Len(decision)
        /\ \A i \in 1..Len(asked) : i # n => decision'[i] = decision[i]
        /\ decision'[n] # "waiting" /\ permissions' \subseteq permissions
    BY <1>1, <2>1, ResolveEffect
  <2>3. \A id \in 1..fired : id \in 1..Len(asked)
    BY DEF ApprovalInv, RequestType
  <2>4. RequestType'
    BY <1>1, <1>3, <2>2, <2>3 DEF ApprovalInv, RequestType
  <2>5. WindowType'
    BY <1>1, <2>1, <2>2 DEF ApprovalInv, WindowType, Attached
  <2>. QED
    BY <2>2, <2>4, <2>5
<1>5. ASSUME decision[n] # "waiting"
      PROVE  RequestType' /\ WindowType' /\ permissions' \subseteq permissions
  <2>1. UNCHANGED <<decision, permissions, view>>
    BY <1>5 DEF Expire, Expired, n
  <2>. QED
    BY <1>1, <1>3, <1>5, <2>1 DEF ApprovalInv, RequestType, WindowType
<1>6. permissions' \subseteq permissions
  BY <1>4, <1>5
<1>7. PermissionInv'
  BY <1>1, <1>6 DEF ApprovalInv, PermissionInv, RevokeOf
<1>. QED
  BY <1>2, <1>4, <1>5, <1>7 DEF ApprovalInv

-----------------------------------------------------------------------------
(* The window                                                               *)

\* A request that arrives replaces what is shown: nothing was said to it yet.
LEMMA ShowStep ==
    ASSUME ApprovalInv, Show
    PROVE  ApprovalInv'
<1>1. /\ toUI # <<>> /\ toUI' = Tail(toUI) /\ toUI \in Seq(Nat)
      /\ modal' = IF mount = 0 THEN modal ELSE Head(toUI)
      /\ UNCHANGED <<asked, decision, fired, permissions, view, mount, mounts, consent, voided,
                     toMain>>
  BY DEF ApprovalInv, ShownOnce, Show, mainVars
<1>2. /\ toUI' \in Seq(Nat) /\ Len(toUI) \in Nat /\ Len(toUI') = Len(toUI) - 1
      /\ \A i \in 1..Len(toUI') : toUI'[i] = toUI[i + 1] /\ i + 1 \in 1..Len(toUI)
      /\ Head(toUI) = toUI[1] /\ 1 \in 1..Len(toUI)
  BY <1>1, Taken
<1>3. /\ Head(toUI) \in 1..Len(asked) /\ Head(toUI) \notin consent
      /\ \A i \in 1..Len(toUI') : toUI'[i] # Head(toUI) /\ toUI'[i] # modal
  BY <1>2 DEF ApprovalInv, ShownOnce
<1>4. RequestType'
  BY <1>1 DEF ApprovalInv, RequestType
<1>5. WindowType'
  BY <1>1, <1>3 DEF ApprovalInv, WindowType
<1>6. ShownOnce'
  <2>1. voided \subseteq consent
    BY DEF ApprovalInv, WindowType
  <2>2. modal' \notin voided'
    BY <1>1, <1>3, <2>1 DEF ApprovalInv, ShownOnce
  <2>3. \A i \in 1..Len(toUI') : toUI'[i] \in 1..Len(asked') /\ toUI'[i] \notin consent'
                                   /\ toUI'[i] # modal'
    BY <1>1, <1>2, <1>3 DEF ApprovalInv, ShownOnce
  <2>4. \A i, j \in 1..Len(toUI') : i < j => toUI'[i] # toUI'[j]
    <3>. SUFFICES ASSUME NEW i \in 1..Len(toUI'), NEW j \in 1..Len(toUI'), i < j
                  PROVE  toUI'[i] # toUI'[j]
      OBVIOUS
    <3>1. i + 1 \in 1..Len(toUI) /\ j + 1 \in 1..Len(toUI) /\ i + 1 < j + 1
      BY <1>2
    <3>2. toUI[i + 1] # toUI[j + 1]
      BY <3>1 DEF ApprovalInv, ShownOnce
    <3>. QED
      BY <1>2, <3>2
  <2>. QED
    BY <1>2, <2>2, <2>3, <2>4 DEF ShownOnce
<1>7. MessageInv' /\ PermissionInv'
  BY <1>1 DEF ApprovalInv, MessageInv, YesMessage, PermissionInv, RevokeOf
<1>. QED
  BY <1>4, <1>5, <1>6, <1>7 DEF ApprovalInv

\* A message goes out: those before it keep their place.
LEMMA InvokeStep ==
    ASSUME ApprovalInv, NEW m \in Message, Invoke(m)
    PROVE  /\ toMain' \in Seq(Message) /\ Len(toMain') = Len(toMain) + 1 /\ Len(toMain) \in Nat
           /\ \A i \in 1..Len(toMain) : toMain'[i] = toMain[i] /\ i \in 1..Len(toMain')
           /\ toMain'[Len(toMain) + 1] = m /\ Len(toMain) + 1 \in 1..Len(toMain')
           /\ \A i \in 1..Len(toMain') : i \in 1..Len(toMain) \/ i = Len(toMain) + 1
<1>1. toMain \in Seq(Message) /\ toMain' = Append(toMain, m)
  BY DEF ApprovalInv, MessageInv, Invoke
<1>2. /\ toMain' \in Seq(Message) /\ Len(toMain') = Len(toMain) + 1 /\ Len(toMain) \in Nat
      /\ \A i \in 1..Len(toMain) : toMain'[i] = toMain[i]
      /\ toMain'[Len(toMain) + 1] = m
  BY <1>1, Appended
<1>. QED
  BY <1>2

\* The user answers what is shown, which was not revoked.
LEMMA ClickStep ==
    ASSUME ApprovalInv, NEW yes \in BOOLEAN, Click(yes)
    PROVE  ApprovalInv'
<1>. DEFINE m == Answer(modal, yes)
            last == Len(toMain) + 1
<1>1. /\ modal \in 1..Len(asked) /\ modal \notin voided /\ mount \in Nat
      /\ voided \subseteq consent
  BY DEF ApprovalInv, WindowType, ShownOnce, Click, None
<1>2. /\ Invoke(m) /\ consent' = (IF yes THEN consent \cup {modal} ELSE consent)
      /\ UNCHANGED <<asked, decision, fired, permissions, view, mount, mounts, modal, voided, toUI>>
  BY DEF Click, mainVars
<1>3. m \in Message /\ m.kind = "answer" /\ m.id = modal /\ m.yes = yes
  BY <1>1 DEF Answer, Message
<1>. HIDE DEF m
<1>4. /\ toMain' \in Seq(Message) /\ Len(toMain') = Len(toMain) + 1 /\ Len(toMain) \in Nat
      /\ \A i \in 1..Len(toMain) : toMain'[i] = toMain[i] /\ i \in 1..Len(toMain')
      /\ toMain'[last] = m
      /\ \A i \in 1..Len(toMain') : i \in 1..Len(toMain) \/ i = last
  BY <1>2, <1>3, InvokeStep
<1>. HIDE DEF last
<1>5. RequestType'
  BY <1>2 DEF ApprovalInv, RequestType
<1>6. WindowType'
  BY <1>1, <1>2 DEF ApprovalInv, WindowType
<1>7. ShownOnce'
  BY <1>1, <1>2 DEF ApprovalInv, ShownOnce
<1>8. MessageInv'
  <2>. SUFFICES ASSUME NEW i \in 1..Len(toMain'), toMain'[i].kind = "answer"
                PROVE  toMain'[i].id \in 1..Len(asked') /\ YesMessage(i)'
    BY <1>4 DEF MessageInv
  <2>1. CASE i \in 1..Len(toMain)
    <3>1. toMain[i].id \in 1..Len(asked) /\ YesMessage(i)
      BY <1>4, <2>1 DEF ApprovalInv, MessageInv
    <3>. QED
      BY <1>2, <1>4, <2>1, <3>1 DEF YesMessage
  <2>2. CASE i = last
    <3>1. toMain'[i] = m
      BY <1>4, <2>2
    <3>2. m.yes => m.id \in consent' /\ m.id \notin voided'
      BY <1>1, <1>2, <1>3
    <3>. QED
      BY <1>1, <1>2, <1>3, <3>1, <3>2 DEF YesMessage
  <2>. QED
    BY <1>4, <2>1, <2>2
<1>9. PermissionInv'
  BY <1>1, <1>2, <1>4 DEF ApprovalInv, PermissionInv
<1>. QED
  BY <1>5, <1>6, <1>7, <1>8, <1>9 DEF ApprovalInv

\* A message about the view changes nothing that is said of the others.
LEMMA ViewMessage ==
    ASSUME ApprovalInv, NEW what \in ViewKinds, Invoke(View(what)),
           UNCHANGED <<asked, permissions, consent, voided>>
    PROVE  MessageInv' /\ PermissionInv'
<1>. DEFINE m == View(what)
            last == Len(toMain) + 1
<1>1. m \in Message /\ m.kind # "answer"
  BY DEF View, Message, ViewKinds
<1>. HIDE DEF m
<1>2. /\ toMain' \in Seq(Message) /\ Len(toMain') = Len(toMain) + 1 /\ Len(toMain) \in Nat
      /\ \A i \in 1..Len(toMain) : toMain'[i] = toMain[i] /\ i \in 1..Len(toMain')
      /\ toMain'[last] = m
      /\ \A i \in 1..Len(toMain') : i \in 1..Len(toMain) \/ i = last
  BY <1>1, InvokeStep DEF m
<1>. HIDE DEF last
<1>3. MessageInv'
  <2>. SUFFICES ASSUME NEW i \in 1..Len(toMain'), toMain'[i].kind = "answer"
                PROVE  toMain'[i].id \in 1..Len(asked') /\ YesMessage(i)'
    BY <1>2 DEF MessageInv
  <2>1. i \in 1..Len(toMain)
    BY <1>1, <1>2
  <2>2. toMain[i].id \in 1..Len(asked) /\ YesMessage(i)
    BY <1>2, <2>1 DEF ApprovalInv, MessageInv
  <2>. QED
    BY <1>2, <2>1, <2>2 DEF YesMessage
<1>4. PermissionInv'
  BY <1>2 DEF ApprovalInv, PermissionInv
<1>. QED
  BY <1>3, <1>4

\* What the window does without answering or revoking: it shows nothing that it
\* did not show, and sends at most a message about the view.
LEMMA WindowStep ==
    ASSUME ApprovalInv, Returned \/ Rerender \/ EnterTab \/ LeaveTab \/ OpenOrClose
    PROVE  ApprovalInv'
<1>1. /\ UNCHANGED <<mainVars, consent, voided, toUI>>
      /\ modal' \in {modal, 0}
  BY DEF Returned, Rerender, EnterTab, LeaveTab, OpenOrClose, NewInstance, uiVars, None
<1>2. /\ mount' \in {0, mounts'} /\ mounts' \in 0 .. MaxMounts
      /\ mount' = 0 => modal' = 0
  BY ApprovalsAssumption
     DEF ApprovalInv, WindowType, Returned, Rerender, EnterTab, LeaveTab, OpenOrClose,
         NewInstance, uiVars, Free, None
<1>3. RequestType'
  BY <1>1 DEF ApprovalInv, RequestType, mainVars
<1>4. WindowType'
  BY <1>1, <1>2 DEF ApprovalInv, WindowType, mainVars, RequestType
<1>5. ShownOnce'
  <2>1. /\ Len(asked) \in Nat /\ voided \subseteq 1..Len(asked)
        /\ \A i \in 1..Len(toUI) : toUI[i] # 0
    BY DEF ApprovalInv, RequestType, WindowType, ShownOnce
  <2>2. 0 \notin voided
    BY <2>1
  <2>. QED
    BY <1>1, <2>1, <2>2 DEF ApprovalInv, ShownOnce, mainVars
<1>6. MessageInv' /\ PermissionInv'
  <2>1. CASE UNCHANGED toMain
    BY <1>1, <2>1 DEF ApprovalInv, MessageInv, YesMessage, PermissionInv, RevokeOf, mainVars
  <2>2. CASE \E what \in ViewKinds : Invoke(View(what))
    BY <1>1, <2>2, ViewMessage DEF mainVars
  <2>3. ASSUME OpenOrClose PROVE \E what \in ViewKinds : Invoke(View(what))
    BY <2>3 DEF OpenOrClose, ViewKinds
  <2>4. ASSUME EnterTab \/ LeaveTab PROVE \E what \in ViewKinds : Invoke(View(what))
    BY <2>4 DEF EnterTab, LeaveTab, ViewKinds
  <2>5. ASSUME Returned \/ Rerender PROVE UNCHANGED toMain
    BY <2>5 DEF Returned, Rerender
  <2>. QED
    BY <2>1, <2>2, <2>3, <2>4, <2>5
<1>. QED
  BY <1>3, <1>4, <1>5, <1>6 DEF ApprovalInv

\* A revocation: every yes to a connection of its origin is before it.
LEMMA RevokeStep ==
    ASSUME ApprovalInv, NEW o \in Origins, AskRevoke(o)
    PROVE  ApprovalInv'
<1>. DEFINE m == RevokeOf(o)
            last == Len(toMain) + 1
<1>1. /\ Invoke(m) /\ modal = 0
      /\ voided' = voided \cup {id \in consent : asked[id].origin = o}
      /\ UNCHANGED <<asked, decision, fired, permissions, view, mount, mounts, modal, consent, toUI>>
  BY DEF AskRevoke, Free, None, mainVars
<1>2. m \in Message /\ m.kind # "answer" /\ m = RevokeOf(o)
  BY DEF RevokeOf, Message
<1>. HIDE DEF m
<1>3. /\ toMain' \in Seq(Message) /\ Len(toMain') = Len(toMain) + 1 /\ Len(toMain) \in Nat
      /\ \A i \in 1..Len(toMain) : toMain'[i] = toMain[i] /\ i \in 1..Len(toMain')
      /\ toMain'[last] = m /\ last \in 1..Len(toMain')
      /\ \A i \in 1..Len(toMain') : i \in 1..Len(toMain) \/ i = last
      /\ \A i \in 1..Len(toMain) : i < last
  <2>1. Len(toMain) \in Nat
    BY <1>1, <1>2, InvokeStep
  <2>. QED
    BY <1>1, <1>2, <2>1, InvokeStep
<1>. HIDE DEF last
<1>4. RequestType'
  BY <1>1 DEF ApprovalInv, RequestType
<1>5. WindowType'
  BY <1>1 DEF ApprovalInv, WindowType
<1>6. ShownOnce'
  <2>1. Len(asked) \in Nat /\ consent \subseteq 1..Len(asked)
    BY DEF ApprovalInv, RequestType, WindowType
  <2>2. modal \notin voided'
    BY <1>1, <2>1 DEF ApprovalInv, ShownOnce
  <2>. QED
    BY <1>1, <2>2 DEF ApprovalInv, ShownOnce
<1>7. MessageInv'
  <2>. SUFFICES ASSUME NEW i \in 1..Len(toMain'), toMain'[i].kind = "answer"
                PROVE  toMain'[i].id \in 1..Len(asked') /\ YesMessage(i)'
    BY <1>3 DEF MessageInv
  <2>1. i \in 1..Len(toMain) /\ i < last /\ toMain'[i] = toMain[i]
    BY <1>2, <1>3
  <2>2. toMain[i].id \in 1..Len(asked) /\ YesMessage(i)
    BY <2>1 DEF ApprovalInv, MessageInv
  <2>3. CASE toMain[i].id \in voided
    BY <1>1, <1>3, <2>1, <2>2, <2>3 DEF YesMessage
  <2>4. CASE toMain[i].id \notin voided
    <3>1. toMain[i].id \in voided' => asked[toMain[i].id].origin = o
      BY <1>1, <2>4
    <3>. QED
      BY <1>1, <1>2, <1>3, <2>1, <2>2, <3>1 DEF YesMessage
  <2>. QED
    BY <2>3, <2>4
<1>8. PermissionInv'
  <2>. SUFFICES ASSUME NEW q \in permissions'
                PROVE  \/ \E id \in consent' \ voided' : asked'[id] = [origin |-> q, connect |-> TRUE]
                       \/ \E i \in 1..Len(toMain') : toMain'[i] = RevokeOf(q)
    BY DEF PermissionInv
  <2>1. q \in permissions
    BY <1>1
  <2>2. CASE q = o
    BY <1>2, <1>3, <2>2
  <2>3. CASE q # o
    <3>1. CASE \E i \in 1..Len(toMain) : toMain[i] = RevokeOf(q)
      BY <1>3, <3>1
    <3>2. CASE \E id \in consent \ voided : asked[id] = [origin |-> q, connect |-> TRUE]
      BY <1>1, <2>3, <3>2
    <3>. QED
      BY <2>1, <3>1, <3>2 DEF ApprovalInv, PermissionInv
  <2>. QED
    BY <2>2, <2>3
<1>. QED
  BY <1>4, <1>5, <1>6, <1>7, <1>8 DEF ApprovalInv

-----------------------------------------------------------------------------
(* The invariant                                                            *)

\* Nothing was asked at the start.
LEMMA ApprovalsInit == Init => ApprovalInv
<1>. SUFFICES ASSUME Init PROVE ApprovalInv
  OBVIOUS
<1>1. RequestType
  BY ApprovalsAssumption DEF Init, RequestType
<1>2. WindowType
  BY ApprovalsAssumption DEF Init, WindowType, None
<1>3. ShownOnce /\ MessageInv /\ PermissionInv
  BY DEF Init, ShownOnce, MessageInv, PermissionInv, None
<1>. QED
  BY <1>1, <1>2, <1>3 DEF ApprovalInv

\* Every step keeps the invariant.
LEMMA ApprovalsStep == ApprovalInv /\ [Next]_vars => ApprovalInv'
<1>. SUFFICES ASSUME ApprovalInv, [Next]_vars
              PROVE  ApprovalInv'
  OBVIOUS
<1>1. ASSUME NEW req \in Request, Ask(req)
      PROVE  ApprovalInv'
  BY <1>1, AskStep
<1>2. ASSUME NEW yes \in BOOLEAN, Click(yes)
      PROVE  ApprovalInv'
  BY <1>2, ClickStep
<1>3. ASSUME NEW o \in Origins, AskRevoke(o)
      PROVE  ApprovalInv'
  BY <1>3, RevokeStep
<1>4. CASE Returned \/ Rerender \/ EnterTab \/ LeaveTab \/ OpenOrClose
  BY <1>4, WindowStep
<1>5. CASE Handle \/ Expire \/ Show
  BY <1>5, HandleStep, ExpireStep, ShowStep
<1>6. CASE UNCHANGED vars
  BY <1>6 DEF vars, mainVars, uiVars, ApprovalInv, RequestType, WindowType, ShownOnce,
              MessageInv, YesMessage, PermissionInv
<1>. QED
  BY <1>1, <1>2, <1>3, <1>4, <1>5, <1>6 DEF Next, User, Program

\* The invariant holds throughout.
LEMMA ApprovalsInvariant == Spec => []ApprovalInv
BY ApprovalsInit, ApprovalsStep, PTL DEF Spec

-----------------------------------------------------------------------------
(* Theorems                                                                 *)

\* Requests, decisions, permissions and messages are well typed, and a timer
\* that fired left its request with an outcome.
THEOREM TypeCorrect == Spec => []TypeOK
<1>1. ASSUME ApprovalInv PROVE TypeOK
  <2>1. /\ asked \in Seq(Request) /\ Ids = 1..Len(asked)
        /\ decision \in Seq(Outcomes) /\ DOMAIN decision = 1..Len(decision)
        /\ Len(decision) = Len(asked)
    BY <1>1 DEF ApprovalInv, RequestType, Ids
  <2>2. decision \in [Ids -> {"waiting", "approved", "rejected"}]
    BY <2>1 DEF Outcomes
  <2>3. ToSet(toUI) \subseteq Ids
    <3>1. DOMAIN toUI = 1..Len(toUI)
      BY <1>1 DEF ApprovalInv, ShownOnce
    <3>. QED
      BY <1>1, <2>1, <3>1 DEF ApprovalInv, ShownOnce, ToSet
  <2>4. modal \in Ids \cup {None} /\ Len(asked) \in Nat
    BY <1>1, <2>1 DEF ApprovalInv, WindowType, None
  <2>. QED
    BY <1>1, <2>1, <2>2, <2>3, <2>4
       DEF ApprovalInv, RequestType, WindowType, TypeOK, None
<1>. QED
  BY <1>1, ApprovalsInvariant, PTL

\* No permission outlives its revocation, nor exists without a yes.
THEOREM PermissionsHaveConsent == Spec => []PermissionHasConsent
<1>1. ASSUME ApprovalInv PROVE PermissionHasConsent
  <2>1. DOMAIN toMain = 1..Len(toMain)
    BY <1>1 DEF ApprovalInv, MessageInv
  <2>2. \A i \in 1..Len(toMain) : toMain[i] \in ToSet(toMain)
    BY <2>1 DEF ToSet
  <2>. QED
    BY <1>1, <2>2 DEF ApprovalInv, PermissionInv, PermissionHasConsent
<1>. QED
  BY <1>1, ApprovalsInvariant, PTL

\* Before anything is asked every request is idle.
LEMMA PromiseInit == Init => Promise!ApprovalInit
BY DEF Init, Promise!ApprovalInit, Ids

\* Settling a waiting request is a step of the promise: a rejection, or an
\* approval with consent.
LEMMA ResolvePromised ==
    ASSUME ApprovalInv, NEW id \in 1..Len(asked), NEW yes \in BOOLEAN, Resolve(id, yes),
           decision[id] = "waiting", yes => id \in consent,
           UNCHANGED <<asked, consent>>
    PROVE  Promise!ApprovalNext
<1>1. /\ asked \in Seq(Request) /\ Len(asked) <= MaxRequests /\ MaxRequests \in Nat
      /\ decision \in Seq(Outcomes) /\ Len(decision) = Len(asked)
      /\ Ids = 1..Len(asked) /\ Ids' = Ids
  BY ApprovalsAssumption DEF ApprovalInv, RequestType, Ids
<1>2. id \in 1..MaxRequests /\ id \in Ids
  BY <1>1
<1>3. DOMAIN decision = Ids
  BY <1>1
<1>4. decision' = [decision EXCEPT ![id] = IF yes THEN "approved" ELSE "rejected"]
  BY DEF Resolve
<1>5. CASE yes
  <2>1. Promise!Approve(id)
    BY <1>1, <1>2, <1>3, <1>4, <1>5 DEF Promise!Approve, Promise!Move
  <2>. QED
    BY <1>2, <2>1 DEF Promise!ApprovalNext
<1>6. CASE ~yes
  <2>1. Promise!Reject(id)
    BY <1>1, <1>2, <1>3, <1>4, <1>6 DEF Promise!Reject, Promise!Move
  <2>. QED
    BY <1>2, <2>1 DEF Promise!ApprovalNext
<1>. QED
  BY <1>5, <1>6

\* Every step is one of the promise, or none.
LEMMA PromiseStep ==
    ASSUME ApprovalInv, [Next]_vars
    PROVE  [Promise!ApprovalNext]_(Promise!approvalVars)
<1>. DEFINE Stutter == UNCHANGED <<asked, decision, consent>>
<1>0. ASSUME Stutter
      PROVE  UNCHANGED Promise!approvalVars
  BY <1>0 DEF Promise!approvalVars, Ids
<1>. HIDE DEF Stutter
<1>1. ASSUME NEW req \in Request, Ask(req)
      PROVE  Promise!ApprovalNext
  <2>. DEFINE n == Len(asked) + 1
  <2>1. /\ asked \in Seq(Request) /\ decision \in Seq(Outcomes) /\ Len(decision) = Len(asked)
        /\ Len(asked) \in Nat /\ n \in 1..MaxRequests /\ UNCHANGED consent
    BY <1>1, ApprovalsAssumption DEF ApprovalInv, RequestType, Ask, uiVars
  <2>2. asked' = Append(asked, req) /\ decision' = Append(decision, "waiting")
    BY <1>1 DEF Ask
  <2>3. /\ Ids = 1..Len(asked) /\ Ids' = Ids \cup {n} /\ n \notin Ids
    BY <2>1, <2>2 DEF Ids
  <2>4. /\ decision'[n] = "waiting"
        /\ \A i \in Ids : decision'[i] = decision[i]
    BY <2>1, <2>2, <2>3, Appended DEF Outcomes
  <2>5. PICK r \in 1..MaxRequests : r = n
    BY <2>1
  <2>. HIDE DEF n
  <2>6. Promise!AskUser(r)
    BY <2>1, <2>3, <2>4, <2>5 DEF Promise!AskUser, Promise!Move
  <2>. QED
    BY <2>6 DEF Promise!ApprovalNext
<1>2. ASSUME NEW yes \in BOOLEAN, Click(yes)
      PROVE  Promise!ApprovalNext \/ Stutter
  <2>1. CASE ~yes
    BY <1>2, <2>1 DEF Click, mainVars, Stutter
  <2>2. CASE yes
    <3>1. /\ modal \in 1..Len(asked) /\ Len(asked) <= MaxRequests /\ Len(asked) \in Nat
          /\ modal \in 1..MaxRequests /\ Ids = 1..Len(asked)
          /\ decision \in Seq(Outcomes) /\ Len(decision) = Len(asked)
      BY <1>2, ApprovalsAssumption DEF ApprovalInv, RequestType, WindowType, Click, None, Ids
    <3>2. decision[modal] # "idle"
      BY <3>1 DEF Outcomes
    <3>3. consent' = consent \cup {modal} /\ UNCHANGED <<asked, decision>> /\ Ids' = Ids
      BY <1>2, <2>2 DEF Click, mainVars, Ids
    <3>4. Promise!SayYes(modal)
      BY <3>1, <3>2, <3>3 DEF Promise!SayYes
    <3>. QED
      BY <3>1, <3>4 DEF Promise!ApprovalNext
  <2>. QED
    BY <2>1, <2>2
<1>3. ASSUME Handle
      PROVE  Promise!ApprovalNext \/ Stutter
  <2>. DEFINE m == Head(toMain)
  <2>1. /\ toMain # <<>> /\ UNCHANGED <<asked, consent>>
        /\ RespondApproval(m) \/ Revoke(m) \/ ChangeView(m)
    BY <1>3 DEF Handle, uiVars
  <2>2. CASE UNCHANGED decision
    BY <2>1, <2>2 DEF Stutter
  <2>3. ASSUME RespondApproval(m), decision' # decision
        PROVE  Promise!ApprovalNext
    <3>1. m.kind = "answer" /\ decision[m.id] = "waiting" /\ Resolve(m.id, m.yes)
      BY <2>3 DEF RespondApproval, Answered
    <3>2. m.id \in 1..Len(asked) /\ m.yes \in BOOLEAN /\ (m.yes => m.id \in consent)
      BY <2>1, <3>1, HeadMessage
    <3>. QED
      BY <2>1, <3>1, <3>2, ResolvePromised
  <2>4. ASSUME Revoke(m) \/ ChangeView(m) PROVE UNCHANGED decision
    BY <2>4 DEF Revoke, ChangeView
  <2>. QED
    BY <2>1, <2>2, <2>3, <2>4
<1>4. ASSUME Expire
      PROVE  Promise!ApprovalNext \/ Stutter
  <2>1. /\ fired + 1 \in 1..Len(asked) /\ UNCHANGED <<asked, consent>> /\ Expired(fired + 1)
    BY <1>4 DEF ApprovalInv, RequestType, Expire, uiVars
  <2>2. CASE decision[fired + 1] = "waiting"
    BY <2>1, <2>2, ResolvePromised DEF Expired
  <2>3. CASE decision[fired + 1] # "waiting"
    BY <2>1, <2>3 DEF Expired, Stutter
  <2>. QED
    BY <2>2, <2>3
<1>5. CASE Show \/ Returned \/ Rerender \/ EnterTab \/ LeaveTab \/ OpenOrClose
           \/ (\E o \in Origins : AskRevoke(o)) \/ UNCHANGED vars
  <2>1. Stutter
    BY <1>5 DEF Show, Returned, Rerender, EnterTab, LeaveTab, OpenOrClose, AskRevoke,
                NewInstance, mainVars, uiVars, vars, Stutter
  <2>. QED
    BY <1>0, <2>1
<1>. QED
  BY <1>0, <1>1, <1>2, <1>3, <1>4, <1>5 DEF Next, User, Program

\* The approvals implement the promise: a request is approved only by the
\* user's yes to this request, and an outcome is final.
THEOREM ApprovalImplemented == Spec => ImplementsApproval
BY PromiseInit, PromiseStep, ApprovalsInvariant, PTL
   DEF Spec, ImplementsApproval, Promise!ApprovalSpec
=============================================================================
