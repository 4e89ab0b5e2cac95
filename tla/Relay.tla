-------------------------------- MODULE Relay --------------------------------
(***************************************************************************)
(* A request of a web page on its way to the wallet and back: provider.js  *)
(* in the page, inject.js and background.js of the extension               *)
(* (src/extension), the socket, and the bridge of the wallet with its      *)
(* approvals (PhantomBridge).  Pages number their requests, each from 1,   *)
(* and the extension keeps what it waits for under that number.  The page  *)
(* gives up after 60 s, the extension and the modal after 120 s.  What the *)
(* page asks while the link is down fails at once and is left out.         *)
(***************************************************************************)
EXTENDS Naturals, Sequences, FiniteSets

CONSTANTS Tabs, Origins, MaxRequests, MaxClicks,
          MaxBreaks  \* bound on the breaks of the link

ASSUME RelayAssumption == MaxRequests \in Nat

VARIABLES
    \* the bridge
    asked, outcome, pendingApproval, fired, approvedOrigins, modal, toUI, toMain, clicks, consent,
    tickets,  \* request and connection of each of asked
    exempt,   \* tickets that needed no approval, not yet answered
    replied,  \* those of asked that were answered
    \* pages
    made,     \* all requests: tab, id and kind
    count,    \* _reqId of the page a tab shows
    waiting,  \* requests in its _pending
    \* the extension
    pending,  \* request by id
    timers,   \* requests whose timer has not fired
    link,     \* down, challenged by the wallet, or up
    conn,     \* number of the connection
    toWallet, toExtension,  \* requests, and the requests that answers are for
    \* chosen at the start, never changed
    lone,     \* there is one page, which is never reloaded
    \* history, read by the properties only
    got,      \* the request whose answer each request got
    acted     \* the requests that got past the approval

bridgeVars == <<asked, outcome, pendingApproval, fired, approvedOrigins,
                modal, toUI, toMain, clicks, consent>>
ticketVars == <<tickets, exempt, replied, acted>>
pageVars   == <<made, count, waiting, got>>
linkVars   == <<link, conn>>
relayVars == <<bridgeVars, ticketVars, pageVars, linkVars, pending, timers, toWallet,
               toExtension, lone>>

None     == 0
Requests == 1..MaxRequests

Bridge == INSTANCE PhantomBridge

-----------------------------------------------------------------------------
(* Pages                                                                    *)

\* Mutant: the extension has one entry for all requests of a page.
IdOfOne(tab) == 1

IdOf(tab) == count[tab] + 1

\* request of provider.js, and sendToWallet of background.js: an entry of the
\* same number is replaced
Call(tab, kind) ==
    /\ link = "up"
    /\ Len(made) < MaxRequests
    /\ lone => \A r \in DOMAIN made : made[r].tab = tab
    /\ LET r == Len(made) + 1
           id == IdOf(tab)
       IN  /\ made' = Append(made, [tab |-> tab, id |-> id, kind |-> kind])
           /\ waiting' = [waiting EXCEPT ![tab] = @ \cup {r}]
           /\ pending' = [pending EXCEPT ![id] = r]
           /\ timers' = timers \cup {r}
           /\ toWallet' = Append(toWallet, r)
    /\ count' = [count EXCEPT ![tab] = @ + 1]
    /\ UNCHANGED <<bridgeVars, ticketVars, linkVars, toExtension, lone, got>>

PageTimeout(tab, r) ==
    /\ r \in waiting[tab]
    /\ waiting' = [waiting EXCEPT ![tab] = @ \ {r}]
    /\ UNCHANGED <<bridgeVars, ticketVars, linkVars, made, count, got, pending, timers,
                   toWallet, toExtension, lone>>

Reload(tab) ==
    /\ ~lone
    /\ count[tab] > 0
    /\ count' = [count EXCEPT ![tab] = 0]
    /\ waiting' = [waiting EXCEPT ![tab] = {}]
    /\ UNCHANGED <<bridgeVars, ticketVars, linkVars, made, got, pending, timers,
                   toWallet, toExtension, lone>>

-----------------------------------------------------------------------------
(* The extension                                                            *)

\* An answer goes to the request that has its number by now; its page may have
\* given up.
AnswerArrives ==
    /\ toExtension # <<>>
    /\ toExtension' = Tail(toExtension)
    /\ LET of == Head(toExtension)
           r  == pending[made[of].id]
       IN  /\ pending' = [pending EXCEPT ![made[of].id] = None]
           /\ IF r # None /\ r \in waiting[made[r].tab]
              THEN /\ got' = [got EXCEPT ![r] = of]
                   /\ waiting' = [waiting EXCEPT ![made[r].tab] = @ \ {r}]
              ELSE UNCHANGED <<got, waiting>>
    /\ UNCHANGED <<bridgeVars, ticketVars, linkVars, made, count, timers, toWallet, lone>>

\* The timer removes the entry of its number, whose ever it is; the page of its
\* request has given up.
Timeout(r) ==
    /\ r \in timers
    /\ r \notin waiting[made[r].tab]
    /\ timers' = timers \ {r}
    /\ pending' = [pending EXCEPT ![made[r].id] = None]
    /\ UNCHANGED <<bridgeVars, ticketVars, pageVars, linkVars, toWallet, toExtension, lone>>

Disconnected == link' = "down" /\ conn' = conn + 1 /\ toWallet' = <<>> /\ toExtension' = <<>>

\* either end closes the socket, or the handshake takes too long
Close ==
    /\ link # "down"
    /\ conn < MaxBreaks
    /\ Disconnected
    /\ UNCHANGED <<bridgeVars, ticketVars, pageVars, pending, timers, lone>>

\* The browser stops the extension and starts it again: all it waits for fails.
RestartExtension ==
    /\ conn < MaxBreaks
    /\ Disconnected
    /\ pending' = [id \in Requests |-> None] /\ timers' = {}
    /\ waiting' = [tab \in Tabs |-> {}]
    /\ UNCHANGED <<bridgeVars, ticketVars, made, count, got, lone>>

\* the nonce of the wallet, and its echo
Handshake(from, to) ==
    /\ link = from
    /\ link' = to
    /\ UNCHANGED <<bridgeVars, ticketVars, pageVars, conn, pending, timers,
                   toWallet, toExtension, lone>>

-----------------------------------------------------------------------------
(* The bridge                                                               *)

\* Mutant: the approval of an origin covers whatever it asks.
NeedsApprovalOnce(kind, origin) == kind # "read" /\ origin \notin approvedOrigins

NeedsApproval(kind, origin) ==
    \/ kind = "send"
    \/ kind = "accounts" /\ origin \notin approvedOrigins

\* all pages have the origin of the extension
Receive(origin) ==
    /\ toWallet # <<>>
    /\ toWallet' = Tail(toWallet)
    /\ LET r == Head(toWallet)
           ticket == [request |-> r, conn |-> conn]
       IN  \/ /\ NeedsApproval(made[r].kind, origin)
              /\ Bridge!Ask([origin |-> origin, accounts |-> made[r].kind = "accounts"])
              /\ tickets' = Append(tickets, ticket)
              /\ UNCHANGED <<exempt, acted>>
           \/ /\ ~NeedsApproval(made[r].kind, origin)
              /\ exempt' = exempt \cup {ticket}
              /\ acted' = acted \cup {r}
              /\ UNCHANGED <<bridgeVars, tickets>>
    /\ UNCHANGED <<pageVars, linkVars, pending, timers, replied, toExtension, lone>>

\* an answer to a connection that is gone is lost
Reply(ticket) ==
    toExtension' = IF ticket.conn = conn THEN Append(toExtension, ticket.request) ELSE toExtension

ReplyPassed(ticket) ==
    /\ exempt' = exempt \ {ticket}
    /\ Reply(ticket)
    /\ UNCHANGED <<bridgeVars, pageVars, linkVars, tickets, replied, acted, pending, timers,
                   toWallet, lone>>

ReplyAsked(i) ==
    /\ outcome[i] # "waiting" /\ i \notin replied
    /\ replied' = replied \cup {i}
    /\ acted' = IF outcome[i] = "approved" THEN acted \cup {tickets[i].request} ELSE acted
    /\ Reply(tickets[i])
    /\ UNCHANGED <<bridgeVars, pageVars, linkVars, tickets, exempt, pending, timers, toWallet, lone>>

\* the user, the modal and its timer
Approvals ==
    /\ \/ Bridge!Respond \/ Bridge!Expire \/ Bridge!Show
       \/ \E yes \in BOOLEAN : Bridge!Click(yes)
    /\ UNCHANGED <<ticketVars, pageVars, linkVars, pending, timers, toWallet, toExtension, lone>>

RelayInit ==
    /\ Bridge!Init
    /\ tickets = <<>> /\ exempt = {} /\ replied = {} /\ acted = {}
    /\ made = <<>>
    /\ count = [tab \in Tabs |-> 0] /\ waiting = [tab \in Tabs |-> {}]
    /\ got = [r \in Requests |-> None]
    /\ pending = [id \in Requests |-> None] /\ timers = {}
    /\ link = "down" /\ conn = 0
    /\ toWallet = <<>> /\ toExtension = <<>>
    /\ lone \in BOOLEAN

RelayNext ==
    \/ \E tab \in Tabs, kind \in {"read", "accounts", "send"} : Call(tab, kind)
    \/ \E tab \in Tabs : Reload(tab) \/ \E r \in Requests : PageTimeout(tab, r)
    \/ AnswerArrives
    \/ \E r \in Requests : Timeout(r)
    \/ Close \/ RestartExtension
    \/ Handshake("down", "challenged") \/ Handshake("challenged", "up")
    \/ \E origin \in Origins : Receive(origin)
    \/ \E ticket \in exempt : ReplyPassed(ticket)
    \/ \E i \in DOMAIN asked : ReplyAsked(i)
    \/ Approvals

RelaySpec == RelayInit /\ [][RelayNext]_relayVars

-----------------------------------------------------------------------------
(* Properties                                                               *)

\* A page that has the extension to itself and is never reloaded gets for each
\* request the answer to that request, in whatever order the wallet answers and
\* whatever was given up, lost or restarted before.
AnswersMatch == lone => \A r \in Requests : got[r] \in {None, r}

\* However many pages there are, each gets the answers to its own requests.  It
\* does not hold: each page numbers its requests from 1, and the extension keeps
\* one entry for each number.
AnswersAreOwn == \A r \in Requests : got[r] \in {None, r}

\* Whatever requests of whatever pages meet in the one slot of the bridge, no
\* yes of the user lets two of them through: a transaction takes one, and so
\* does an approval of accounts.
EachGrantTakesAYes ==
    LET granted == {tickets[i].request : i \in {j \in DOMAIN asked : outcome[j] = "approved"}}
    IN  Cardinality(granted \cup {r \in acted : made[r].kind = "send"}) <= Cardinality(consent)
=============================================================================
