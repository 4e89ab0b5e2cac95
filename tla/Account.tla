------------------------------- MODULE Account -------------------------------
(***************************************************************************)
(* The smart account (src/OmegaAccount.sol) with its modules: spend limit  *)
(* hooks, session keys and the duress vault.  The entry point validates    *)
(* every operation of a bundle before it executes any; an operation is a   *)
(* batch of calls of the account, each between the hooks, and a call that  *)
(* fails undoes the whole operation.  The owner also calls the account     *)
(* directly, past the hooks.  acc is what one reverts to: the storage of   *)
(* the account and of its modules.  A batch within a batch is the sequence *)
(* of its calls.                                                           *)
(***************************************************************************)
EXTENDS Integers, Sequences, FiniteSets, SequencesExt, FiniteSetsExt

CONSTANTS Owners, Hooks, Keys, Vaults,
          SessionKeys, Duress, \* the other two modules
          NoVault,             \* address(0)
          Nobody,              \* no operation is being executed
          Limits,              \* [limit, period] of configure
          Windows,             \* [after, until] of createSession
          Amounts,             \* values that leave
          MaxNow,              \* bound on block.timestamp
          MaxBundle,           \* bound on the operations of a bundle
          MaxCalls             \* bound on all the calls

ASSUME AccountAssumption ==
    /\ Nobody \notin Owners \cup Keys
    /\ SessionKeys \notin Hooks /\ Duress \notin Hooks /\ SessionKeys # Duress
    /\ Limits \subseteq [limit : Nat, period : Nat]
    /\ Windows \subseteq [after : Nat, until : Nat]
    /\ Amounts \subseteq Nat \ {0}
    /\ MaxNow \in Nat /\ MaxBundle \in Nat /\ MaxCalls \in Nat

VARIABLES
    now,     \* block.timestamp
    acc,
    saved,   \* acc when the operation began
    op,      \* signer of the operation being executed
    bundle,  \* signers of the operations that come next
    calls    \* number of calls so far

vars == <<now, acc, saved, op, bundle, calls>>

Modules == Hooks \cup {SessionKeys, Duress}
Times   == 0..MaxNow
NoLimit   == [active |-> FALSE, limit |-> 0, period |-> 0, start |-> 0, spent |-> 0]
NoSession == [active |-> FALSE, after |-> 0, until |-> 0]
NoDuress  == [active |-> FALSE, vault |-> NoVault, locked |-> FALSE]
Nothing   == [t \in Times |-> 0]

-----------------------------------------------------------------------------
(* SpendLimitHook                                                           *)

\* Mutant: the new period starts where the old one did.
InPeriodKept(c) ==
    IF c.active /\ now >= c.start + c.period THEN [c EXCEPT !.spent = 0] ELSE c

\* an expired period begins again now
InPeriod(c) ==
    IF c.active /\ now >= c.start + c.period THEN [c EXCEPT !.start = now, !.spent = 0] ELSE c

Allows(h, value) ==
    LET c == InPeriod(acc.limits[h]) IN c.active => value <= c.limit - c.spent

PreHook(h, value) ==
    LET c == InPeriod(acc.limits[h])
    IN  IF c.active THEN [c EXCEPT !.spent = @ + value] ELSE c

\* the account after the hooks before a call
PreHooked(value) ==
    [acc EXCEPT !.limits = [h \in Hooks |->
        IF h \in ToSet(acc.hooks) THEN PreHook(h, value) ELSE acc.limits[h]]]

Configured(l) ==
    [active |-> TRUE, limit |-> l.limit, period |-> l.period, start |-> now, spent |-> 0]

\* configure and setTemporaryLimit; anyone has a configuration, installed or not
ConfigureHook(a, h, l) ==
    /\ l.period > 0
    /\ acc' = [a EXCEPT !.limits[h] = Configured(l), !.paid[h] = Nothing]

-----------------------------------------------------------------------------
(* SessionKeyModule                                                         *)

\* Mutant: a key is listed when the module is installed.
CreateSessionUnlisted(a, k, w) ==
    /\ w.after < w.until
    /\ ~a.sessions[k].active
    /\ acc' = [a EXCEPT !.sessions[k] = [active |-> TRUE, after |-> w.after, until |-> w.until],
                        !.sessionList = IF SessionKeys \in a.installed THEN @ \cup {k} ELSE @]

CreateSession(a, k, w) ==
    /\ w.after < w.until
    /\ ~a.sessions[k].active
    /\ acc' = [a EXCEPT !.sessions[k] = [active |-> TRUE, after |-> w.after, until |-> w.until],
                        !.sessionList = @ \cup {k}]

RevokeSession(a, k) == acc' = [a EXCEPT !.sessions[k].active = FALSE]

-----------------------------------------------------------------------------
(* DuressModule                                                             *)

ConfigureDuress(a, v) ==
    /\ ~a.duress.locked
    /\ acc' = [a EXCEPT !.duress = [active |-> TRUE, vault |-> v, locked |-> FALSE]]

LockVault(a) ==
    /\ a.duress.active /\ ~a.duress.locked
    /\ acc' = [a EXCEPT !.duress.locked = TRUE]

-----------------------------------------------------------------------------
(* Modules come and go                                                      *)

Listed(a, m) ==
    [a EXCEPT !.installed  = @ \cup {m},
              !.hooks      = IF m \in Hooks THEN Append(@, m) ELSE @,
              !.validators = IF m = SessionKeys THEN Append(@, m) ELSE @]

\* onInstall with no data, or with what the module is configured by
InstallModule(a, m) ==
    /\ m \notin a.installed
    /\ \/ acc' = Listed(a, m)
       \/ m \in Hooks /\ \E l \in Limits : ConfigureHook(Listed(a, m), m, l)
       \/ m = SessionKeys /\ \E k \in Keys, w \in Windows : CreateSession(Listed(a, m), k, w)
       \/ m = Duress /\ \E v \in Vaults : ConfigureDuress(Listed(a, m), v)

\* Mutant: the last of the list is dropped, whatever the target.
RemoveFromArrayLast(arr, m) ==
    LET i == SelectInSeq(arr, LAMBDA x : x = m)
    IN  IF i = 0 THEN arr ELSE Front(arr)

\* the last takes the place of the one that leaves
RemoveFromArray(arr, m) ==
    LET i == SelectInSeq(arr, LAMBDA x : x = m)
    IN  IF i = 0 THEN arr ELSE Front([arr EXCEPT ![i] = Last(arr)])

Unlisted(a, m) ==
    [a EXCEPT !.installed  = @ \ {m},
              !.hooks      = IF m \in Hooks THEN RemoveFromArray(@, m) ELSE @,
              !.validators = IF m = SessionKeys THEN RemoveFromArray(@, m) ELSE @]

OnUninstall(a, m) ==
    CASE m \in Hooks      -> [a EXCEPT !.limits[m] = NoLimit]
      [] m = SessionKeys  -> [a EXCEPT !.sessions = [k \in Keys |->
                                  IF k \in a.sessionList THEN NoSession ELSE a.sessions[k]],
                                       !.sessionList = {}]
      [] m = Duress       -> [a EXCEPT !.duress = NoDuress]

UninstallModule(a, m) ==
    /\ m \in a.installed
    /\ acc' = OnUninstall(Unlisted(a, m), m)

TransferOwnership(a, o) == acc' = [a EXCEPT !.owner = o]

-----------------------------------------------------------------------------
(* The entry point                                                          *)

\* the owner, or a key whose session the validator knows and the window admits
Authorised(who) ==
    \/ who = acc.owner
    \/ /\ who \in Keys /\ SessionKeys \in ToSet(acc.validators)
       /\ LET s == acc.sessions[who] IN s.active /\ s.after <= now /\ now <= s.until

Validate(who) ==
    /\ op = Nobody
    /\ Len(bundle) < MaxBundle
    /\ Authorised(who)
    /\ bundle' = Append(bundle, who)
    /\ UNCHANGED <<now, acc, saved, op, calls>>

\* the next operation of the bundle, if there is one, begins
NextOp ==
    /\ op' = IF bundle = <<>> THEN Nobody ELSE Head(bundle)
    /\ bundle' = IF bundle = <<>> THEN <<>> ELSE Tail(bundle)
    /\ saved' = acc'

Begin  == op = Nobody /\ bundle # <<>> /\ acc' = acc /\ NextOp /\ UNCHANGED <<now, calls>>
Finish == op # Nobody /\ acc' = acc /\ NextOp /\ UNCHANGED <<now, calls>>
Revert == op # Nobody /\ acc' = saved /\ NextOp /\ UNCHANGED <<now, calls>>

\* Mutant: the hooks after the call are those installed by then.
HooksRemainAny == TRUE

\* the loop over the hooks after the call runs as far as the one before it
HooksRemain == Len(acc'.hooks) >= Len(acc.hooks)

\* around a call of the operation
ExecuteWithHooks(value) ==
    /\ op # Nobody
    /\ calls < MaxCalls
    /\ \A h \in ToSet(acc.hooks) : Allows(h, value)
    /\ HooksRemain
    /\ calls' = calls + 1
    /\ UNCHANGED <<now, saved, op, bundle>>

Transfer(a, value) ==
    LET more(h) == [a.paid[h] EXCEPT ![now] = @ + value]
    IN  acc' = [a EXCEPT !.paid =
                    [h \in Hooks |-> IF h \in a.installed THEN more(h) ELSE a.paid[h]]]

\* what the owner calls outside of operations
OwnerCalls ==
    /\ op = Nobody /\ bundle = <<>>
    /\ calls < MaxCalls
    /\ calls' = calls + 1
    /\ saved' = acc'
    /\ UNCHANGED <<now, op, bundle>>

Tick ==
    /\ op = Nobody /\ bundle = <<>>
    /\ now < MaxNow
    /\ now' = now + 1
    /\ UNCHANGED <<acc, saved, op, bundle, calls>>

\* initialize, called by the factory that creates the account
Init ==
    /\ now = 0
    /\ \E o \in Owners :
         acc = [owner |-> o, installed |-> {}, hooks |-> <<>>, validators |-> <<>>,
                limits |-> [h \in Hooks |-> NoLimit],
                sessions |-> [k \in Keys |-> NoSession], sessionList |-> {},
                duress |-> NoDuress,
                \* history: what left under each hook since it was configured
                paid |-> [h \in Hooks |-> Nothing]]
    /\ saved = acc
    /\ op = Nobody /\ bundle = <<>> /\ calls = 0

Next ==
    \/ \E m \in Modules : InstallModule(acc, m) /\ OwnerCalls
    \/ \E m \in Modules : UninstallModule(acc, m) /\ OwnerCalls
    \/ \E o \in Owners : TransferOwnership(acc, o) /\ OwnerCalls
    \/ \E who \in Owners \cup Keys : Validate(who)
    \/ Begin
    \/ \E v \in Amounts : Transfer(PreHooked(v), v) /\ ExecuteWithHooks(v)
    \/ \E m \in Modules : InstallModule(PreHooked(0), m) /\ ExecuteWithHooks(0)
    \/ \E m \in Modules : UninstallModule(PreHooked(0), m) /\ ExecuteWithHooks(0)
    \/ \E o \in Owners : TransferOwnership(PreHooked(0), o) /\ ExecuteWithHooks(0)
    \/ \E h \in Hooks, l \in Limits : ConfigureHook(PreHooked(0), h, l) /\ ExecuteWithHooks(0)
    \/ \E k \in Keys, w \in Windows : CreateSession(PreHooked(0), k, w) /\ ExecuteWithHooks(0)
    \/ \E k \in Keys : RevokeSession(PreHooked(0), k) /\ ExecuteWithHooks(0)
    \/ \E v \in Vaults : ConfigureDuress(PreHooked(0), v) /\ ExecuteWithHooks(0)
    \/ LockVault(PreHooked(0)) /\ ExecuteWithHooks(0)
    \/ Finish
    \/ Revert
    \/ Tick

Spec == Init /\ [][Next]_vars

-----------------------------------------------------------------------------
(* Properties                                                               *)

\* what stands if the operation being executed reverts
Committed == IF op = Nobody THEN acc ELSE saved

\* The lists the account iterates over hold each installed module of their type
\* once, the counter of a hook never passes its limit, and every session is on
\* the list that uninstalling goes through.
TypeOK ==
    /\ now \in Times
    /\ acc.owner \in Owners
    /\ acc.installed \subseteq Modules
    /\ ToSet(acc.hooks) = acc.installed \cap Hooks /\ IsInjective(acc.hooks)
    /\ ToSet(acc.validators) = acc.installed \cap {SessionKeys} /\ IsInjective(acc.validators)
    /\ acc.limits \in [Hooks -> [active : BOOLEAN, limit : Nat, period : Nat, start : Times,
                                 spent : Nat]]
    /\ \A h \in Hooks : acc.limits[h].spent <= acc.limits[h].limit
    /\ acc.sessions \in [Keys -> [active : BOOLEAN, after : Nat, until : Nat]]
    /\ {k \in Keys : acc.sessions[k].active} \subseteq acc.sessionList
    /\ acc.duress \in [active : BOOLEAN, vault : Vaults \cup {NoVault}, locked : BOOLEAN]
    /\ op \in Owners \cup Keys \cup {Nobody}
    /\ bundle \in Seq(Owners \cup Keys)
    /\ calls \in 0..MaxCalls

\* Under one configuration of an installed hook no period, whenever it is taken
\* to begin, sees more than twice the limit leave the account, and the period
\* of the hook no more than the limit: over operations, batches, operations
\* that revert, and whoever signed them.
SpentWithinPeriod ==
    \A h \in acc.installed \cap Hooks :
        LET c == acc.limits[h]
            Paid(from, to) == MapThenSumSet(LAMBDA t : acc.paid[h][t], from..to)
        IN  c.active => /\ Paid(c.start, MaxNow) <= c.limit
                        /\ \A t \in Times : Paid(t, Min({t + c.period - 1, MaxNow})) <= 2 * c.limit

\* A hook leaves the account by a direct call of its owner only: no operation,
\* whoever signed it, gets past a hook by uninstalling it.
HooksLeaveByOwner ==
    [][ToSet(Committed.hooks) \subseteq ToSet(Committed'.hooks) \/ op = Nobody]_vars

\* When the session module has been uninstalled no session is left that would
\* come back with the module.
SessionsEndWithModule ==
    [][(SessionKeys \in acc.installed \ acc'.installed /\ acc' # saved)
         => (\A k \in Keys : ~acc'.sessions[k].active)]_vars

\* INV-15: a vault that was locked is the vault for good.  It does not hold:
\* uninstalling the duress module deletes it, lock included, and another one can
\* be configured.
VaultIsPermanent ==
    [][Committed.duress.locked => Committed'.duress.vault = Committed.duress.vault]_vars
=============================================================================
