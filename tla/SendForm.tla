------------------------------ MODULE SendForm ------------------------------
(***************************************************************************)
(* The Send form (frontend/src/components/Send.jsx) with bundler:prepare,  *)
(* bundler:confirm, bundler:submit and the transfers behind it.  A click   *)
(* prepares a native transaction and opens the modal when the answer is    *)
(* there; tokens, Bitcoin and Solana open it at once.  The inputs stay     *)
(* editable during the await, and each rendering of AppShell replaces the  *)
(* form, whose calls go on without it.  The ledger may be locked or        *)
(* unlocked at any moment (Screens says when).  What else the handlers do  *)
(* with it is in Signing: here an answer is a yes or a no, and a           *)
(* transaction may be broadcast whatever the answer says.                  *)
(***************************************************************************)
EXTENDS Integers, FiniteSets

CONSTANTS Wallets,    \* senders
          Targets,    \* a recipient and an amount
          Blank,      \* nothing typed
          MaxClicks,  \* bound on Send
          MaxConfirms,\* bound on Confirm & Sign
          MaxMounts   \* bound on the instances of the form

ASSUME SendFormAssumption ==
    /\ Blank \notin [from : Wallets, to : Targets]
    /\ MaxClicks \in Nat /\ MaxConfirms \in Nat /\ MaxMounts \in Nat \ {0}

VARIABLES
    initialized,  \* ledger._initialized
    active,       \* the active wallet
    form,         \* the instance on the screen
    inst,         \* its number
    pending,      \* the calls that were not answered
    prepareStore, \* what is prepared, by the click that asked for it
    clicks, confirms,
    \* history, read by the properties only
    sent          \* what was broadcast, with what the modal showed

formVars == <<initialized, active, form, inst, pending, prepareStore, clicks, confirms, sent>>

NoId == 0
Kinds == {"native", "token", "coin"}  \* an EVM coin; a token; Bitcoin or Solana
Inputs == [from : Wallets, to : Targets]
NewForm == [kind |-> "native", input |-> Blank, prepareId |-> NoId,
            modal |-> FALSE, sending |-> FALSE]

-----------------------------------------------------------------------------
(* The user                                                                 *)

\* the modal covers the inputs
Edit(kind, input) ==
    /\ ~form.modal
    /\ <<kind, input>> # <<form.kind, form.input>>
    /\ form' = [form EXCEPT !.kind = kind, !.input = input]
    /\ UNCHANGED <<initialized, active, inst, pending, prepareStore, clicks, confirms, sent>>

Call(what, id) ==
    [call |-> what, id |-> id, kind |-> form.kind, input |-> form.input,
     no |-> confirms, inst |-> inst, answer |-> "none"]

\* the button is disabled while a transaction is signed, not while it is prepared
RequestSend ==
    /\ ~form.modal /\ ~form.sending
    /\ form.input # Blank
    /\ clicks < MaxClicks
    /\ clicks' = clicks + 1
    /\ IF form.kind = "native"
       THEN pending' = pending \cup {Call("prepare", clicks')} /\ UNCHANGED form
       ELSE form' = [form EXCEPT !.modal = TRUE] /\ UNCHANGED pending
    /\ UNCHANGED <<initialized, active, inst, prepareStore, confirms, sent>>

\* the button, or Enter in the password field, which asks nothing of `sending'
ConfirmSend ==
    /\ form.modal
    /\ confirms < MaxConfirms
    /\ confirms' = confirms + 1
    /\ form' = [form EXCEPT !.sending = TRUE]
    /\ LET what == IF form.kind # "native" THEN form.kind
                   ELSE IF form.prepareId # NoId THEN "confirm" ELSE "submit"
       IN  pending' = pending \cup {Call(what, form.prepareId)}
    /\ UNCHANGED <<initialized, active, inst, prepareStore, clicks, sent>>

Cancel ==
    /\ form.modal
    /\ form' = [form EXCEPT !.modal = FALSE, !.prepareId = NoId]
    /\ UNCHANGED <<initialized, active, inst, pending, prepareStore, clicks, confirms, sent>>

-----------------------------------------------------------------------------
(* The main process                                                         *)

AnswerCall(c, a) == pending' = (pending \ {c}) \cup {[c EXCEPT !.answer = a]}

HandlePrepare(c) ==
    /\ c.call = "prepare"
    /\ \/ /\ initialized
          /\ prepareStore' = prepareStore \cup {[id |-> c.id, input |-> c.input]}
          /\ AnswerCall(c, "ok")
       \/ AnswerCall(c, "error") /\ UNCHANGED prepareStore
    /\ UNCHANGED sent

\* sendTransaction: broadcast or not, and only what was broadcast is answered
\* with yes
Broadcast(c, input) ==
    \/ /\ sent' = sent \cup {[no |-> c.no, by |-> c.call, id |-> c.id, kind |-> c.kind,
                              input |-> input, shown |-> c.input]}
       /\ \E a \in {"ok", "error"} : AnswerCall(c, a)
    \/ AnswerCall(c, "error") /\ UNCHANGED sent

\* once the password is accepted, the prepareId is used up
HandleConfirm(c) ==
    /\ c.call = "confirm"
    /\ \/ \E p \in prepareStore :
             /\ p.id = c.id
             /\ prepareStore' = prepareStore \ {p}
             /\ IF initialized THEN Broadcast(c, p.input)
                ELSE AnswerCall(c, "error") /\ UNCHANGED sent
       \/ AnswerCall(c, "error") /\ UNCHANGED <<prepareStore, sent>>

\* no fresh auth here, nor in any of the following
HandleSubmit(c) ==
    /\ c.call = "submit"
    /\ IF initialized THEN Broadcast(c, c.input) ELSE AnswerCall(c, "error") /\ UNCHANGED sent
    /\ UNCHANGED prepareStore

\* token:transfer: the active wallet sends, whichever the form shows
HandleTransfer(c) ==
    /\ c.call = "token"
    /\ IF initialized THEN Broadcast(c, [c.input EXCEPT !.from = active])
       ELSE AnswerCall(c, "error") /\ UNCHANGED sent
    /\ UNCHANGED prepareStore

\* btc:send and sol:send
HandleCoin(c) ==
    /\ c.call = "coin"
    /\ IF initialized THEN Broadcast(c, c.input) ELSE AnswerCall(c, "error") /\ UNCHANGED sent
    /\ UNCHANGED prepareStore

HandleCall ==
    /\ \E c \in pending :
          /\ c.answer = "none"
          /\ HandlePrepare(c) \/ HandleConfirm(c) \/ HandleSubmit(c)
               \/ HandleTransfer(c) \/ HandleCoin(c)
    /\ UNCHANGED <<initialized, active, form, inst, clicks, confirms>>

-----------------------------------------------------------------------------
(* The renderer, when an answer arrives                                     *)

\* Mutant: an answer that is no leaves the modal open, its prepareId taken.
SettledOpen(c) ==
    IF c.call = "prepare"
    THEN IF c.answer = "ok" THEN [form EXCEPT !.prepareId = c.id, !.modal = TRUE] ELSE form
    ELSE [form EXCEPT !.sending = FALSE, !.prepareId = NoId]

Settled(c) ==
    CASE c.call = "prepare" /\ c.answer = "ok" ->
             [form EXCEPT !.prepareId = c.id, !.modal = TRUE]
      [] c.call = "prepare" /\ c.answer = "error" -> form
      [] OTHER ->
             [form EXCEPT !.sending = FALSE, !.modal = FALSE,
                          !.prepareId = IF c.answer = "ok" THEN NoId ELSE @]

\* Mutant: the answer to a form that was replaced is taken by the new one.
ReturnAnywhere ==
    /\ \E c \in pending :
          /\ c.answer # "none"
          /\ pending' = pending \ {c}
          /\ form' = Settled(c)
    /\ UNCHANGED <<initialized, active, inst, prepareStore, clicks, confirms, sent>>

\* what an instance awaits that is not on the screen any more has no effect
Return ==
    /\ \E c \in pending :
          /\ c.answer # "none"
          /\ pending' = pending \ {c}
          /\ form' = IF c.inst = inst THEN Settled(c) ELSE form
    /\ UNCHANGED <<initialized, active, inst, prepareStore, clicks, confirms, sent>>

\* AppShell renders anew: a request of a bridge, another network, view or
\* screen; in Settings the user may make another wallet the active one
Rerender ==
    /\ inst < MaxMounts
    /\ form' = NewForm /\ inst' = inst + 1
    /\ active' \in Wallets
    /\ UNCHANGED <<initialized, pending, prepareStore, clicks, confirms, sent>>

LockOrUnlock ==
    /\ initialized' = ~initialized
    /\ UNCHANGED <<active, form, inst, pending, prepareStore, clicks, confirms, sent>>

-----------------------------------------------------------------------------
FormInit ==
    /\ initialized \in BOOLEAN /\ active \in Wallets
    /\ form = NewForm /\ inst = 1
    /\ pending = {} /\ prepareStore = {}
    /\ clicks = 0 /\ confirms = 0 /\ sent = {}

FormNext ==
    \/ \E kind \in Kinds, input \in Inputs : Edit(kind, input)
    \/ RequestSend \/ ConfirmSend \/ Cancel
    \/ HandleCall \/ Return
    \/ Rerender \/ LockOrUnlock

FormSpec == FormInit /\ [][FormNext]_formVars

-----------------------------------------------------------------------------
(* Properties                                                               *)

FormTypeOK ==
    /\ initialized \in BOOLEAN /\ active \in Wallets
    /\ form \in [kind : Kinds, input : Inputs \cup {Blank}, prepareId : 0..MaxClicks,
                 modal : BOOLEAN, sending : BOOLEAN]
    /\ form.modal => form.input # Blank
    /\ inst \in Nat
    /\ prepareStore \in SUBSET [id : 1..MaxClicks, input : Inputs]
    /\ clicks \in 0..MaxClicks /\ confirms \in 0..MaxConfirms
    /\ \A t \in sent : t.by \in {"confirm", "submit", "token", "coin"} /\ t.input \in Inputs

\* However often Enter is pressed, whatever is cancelled, edited or replaced
\* during an await: a native transaction of this form is one that a click
\* prepared and a password confirmed, once per click.
OneSendPerClick ==
    \A t \in sent : t.kind = "native" =>
        /\ t.by = "confirm"
        /\ \A u \in sent : u.kind = "native" /\ u.id = t.id => u = t

\* "main process builds the summary. Renderer shows it." (ipc-handlers.js): what
\* is signed is what the modal showed when it was confirmed.
ShownIsSigned == \A t \in sent : t.by = "confirm" => t.input = t.shown
=============================================================================
