--------------------------- MODULE Contracts_proofs --------------------------
(***************************************************************************)
(* The contracts, for every value of their constants.                      *)
(*                                                                         *)
(* The account: the lists, hooks and sessions of Account.tla for every set *)
(* of hooks, keys and vaults, every limit and window, and bundles and      *)
(* batches of any length; and how much leaves it in any span as long as    *)
(* the period of a hook.                                                   *)
(*                                                                         *)
(* The intents: the escrow of Intents.tla for every finite set of intents, *)
(* every initiator, solver, amount, deadline and bound, every split of the *)
(* output over recipients, and whatever those call while they are paid;    *)
(* what each party of an intent gets, and what the module holds.           *)
(*                                                                         *)
(* The sums are those of Sums.tla.                                         *)
(***************************************************************************)
EXTENDS Account, Intents, Sums, TLAPS

-----------------------------------------------------------------------------
(* The inductive invariant                                                  *)

Config  == [active : BOOLEAN, limit : Nat, period : Nat, start : Times, spent : Nat]
Session == [active : BOOLEAN, after : Nat, until : Nat]
Vault   == [active : BOOLEAN, vault : Vaults \cup {NoVault}, locked : BOOLEAN]

Storage == [owner : Owners, installed : SUBSET Modules,
            hooks : Seq(Hooks), validators : Seq({SessionKeys}),
            limits : [Hooks -> Config], sessions : [Keys -> Session],
            sessionList : SUBSET Keys, duress : Vault,
            paid : [Hooks -> [Times -> Nat]]]

\* The lists hold the installed modules of their type, each once.
Lists(a) ==
    /\ ToSet(a.hooks) = a.installed \cap Hooks /\ IsInjective(a.hooks)
    /\ ToSet(a.validators) = a.installed \cap {SessionKeys} /\ IsInjective(a.validators)

\* No counter is past its limit, and every session can be found.
Sound(a) ==
    /\ \A h \in Hooks : a.limits[h].spent <= a.limits[h].limit
    /\ {k \in Keys : a.sessions[k].active} \subseteq a.sessionList

Good(a) == a \in Storage /\ Lists(a) /\ Sound(a)

\* The operation under way has lost no hook.
AccountInv ==
    /\ Good(acc) /\ Good(saved)
    /\ now \in Times /\ calls \in 0..MaxCalls
    /\ op \in Owners \cup Keys \cup {Nobody}
    /\ bundle \in Seq(Owners \cup Keys)
    /\ op = Nobody => saved = acc
    /\ ToSet(saved.hooks) \subseteq ToSet(acc.hooks)

-----------------------------------------------------------------------------
(* Lists of modules                                                         *)

\* A module that is not listed yet is listed once after it is appended.
LEMMA Appended ==
    ASSUME NEW S, NEW s \in Seq(S), NEW m \in S, IsInjective(s), m \notin ToSet(s)
    PROVE  /\ Append(s, m) \in Seq(S)
           /\ ToSet(Append(s, m)) = ToSet(s) \cup {m}
           /\ IsInjective(Append(s, m))
<1>1. /\ Append(s, m) \in Seq(S) /\ Len(s) \in Nat
      /\ DOMAIN s = 1..Len(s) /\ DOMAIN Append(s, m) = 1..(Len(s) + 1)
      /\ Append(s, m)[Len(s) + 1] = m
      /\ \A i \in 1..Len(s) : Append(s, m)[i] = s[i]
  OBVIOUS
<1>2. \A i \in 1..Len(s) : s[i] \in ToSet(s) /\ s[i] # m
  BY <1>1 DEF ToSet
<1>3. ToSet(Append(s, m)) = ToSet(s) \cup {m}
  <2>1. \A x : x \in ToSet(Append(s, m)) <=> \E i \in 1..(Len(s) + 1) : x = Append(s, m)[i]
    BY <1>1 DEF ToSet
  <2>2. \A x : x \in ToSet(s) <=> \E i \in 1..Len(s) : x = s[i]
    BY <1>1 DEF ToSet
  <2>3. \A i \in 1..(Len(s) + 1) : i = Len(s) + 1 \/ i \in 1..Len(s)
    BY <1>1
  <2>4. Len(s) + 1 \in 1..(Len(s) + 1) /\ \A i \in 1..Len(s) : i \in 1..(Len(s) + 1)
    BY <1>1
  <2>. QED
    BY <1>1, <2>1, <2>2, <2>3, <2>4
<1>4. IsInjective(Append(s, m))
  <2>1. \A i \in 1..(Len(s) + 1) : i = Len(s) + 1 \/ i \in 1..Len(s)
    BY <1>1
  <2>2. \A i, j \in 1..Len(s) : s[i] = s[j] => i = j
    BY <1>1 DEF IsInjective
  <2>3. \A i, j \in 1..(Len(s) + 1) : Append(s, m)[i] = Append(s, m)[j] => i = j
    BY <1>1, <1>2, <2>1, <2>2
  <2>. QED
    BY <1>1, <2>3 DEF IsInjective
<1>. QED
  BY <1>1, <1>3, <1>4

\* Of a list without duplicates the element that leaves is dropped, and nothing
\* else.
LEMMA Removed ==
    ASSUME NEW S, NEW s \in Seq(S), NEW m \in ToSet(s), IsInjective(s)
    PROVE  /\ RemoveFromArray(s, m) \in Seq(S)
           /\ ToSet(RemoveFromArray(s, m)) = ToSet(s) \ {m}
           /\ IsInjective(RemoveFromArray(s, m))
           /\ Len(RemoveFromArray(s, m)) < Len(s)
<1>. DEFINE n == Len(s)
            I == {j \in 1..Len(s) : s[j] = m}
<1>1. n \in Nat /\ DOMAIN s = 1..n
  OBVIOUS
<1>2. PICK i \in 1..n : s[i] = m
  BY <1>1 DEF ToSet
<1>3. \A j \in 1..n : \A k \in 1..n : s[j] = s[k] => j = k
  BY <1>1 DEF IsInjective
<1>4. I = {i}
  BY <1>2, <1>3
<1>5. Min(I) = i
  BY <1>2, <1>4 DEF Min
<1>. DEFINE t == [s EXCEPT ![i] = s[n]]
<1>6. /\ t \in Seq(S) /\ Len(t) = n
      /\ \A j \in 1..n : t[j] = IF j = i THEN s[n] ELSE s[j]
  BY <1>1, <1>2
<1>. DEFINE r == SubSeq(t, 1, n - 1)
<1>8. RemoveFromArray(s, m) = r
  <2>1. RemoveFromArray(s, m) = LET at == IF I # {} THEN Min(I) ELSE 0
                                IN  IF at = 0 THEN s ELSE Front([s EXCEPT ![at] = Last(s)])
    BY DEF RemoveFromArray, SelectInSeq
  <2>2. i # 0 /\ I # {}
    BY <1>2, <1>4
  <2>3. RemoveFromArray(s, m) = Front([s EXCEPT ![i] = Last(s)])
    BY <1>5, <2>1, <2>2
  <2>. QED
    BY <1>6, <2>3 DEF Front, Last
<1>9. /\ r \in Seq(S) /\ Len(r) = n - 1 /\ DOMAIN r = 1..(n - 1)
      /\ \A j \in 1..(n - 1) : j \in 1..n /\ r[j] = IF j = i THEN s[n] ELSE s[j]
  BY <1>1, <1>2, <1>6
<1>. HIDE DEF r, t, I, n
<1>10. ToSet(r) = ToSet(s) \ {m}
  <2>1. \A x : x \in ToSet(r) <=> \E j \in 1..(n - 1) : x = r[j]
    BY <1>9 DEF ToSet
  <2>2. \A x : x \in ToSet(s) <=> \E j \in 1..n : x = s[j]
    BY <1>1 DEF ToSet
  <2>3. ASSUME NEW j \in 1..(n - 1)
        PROVE  r[j] \in ToSet(s) /\ r[j] # m
    <3>1. n \in 1..n /\ n # j
      BY <1>1, <2>3
    <3>. QED
      BY <1>2, <1>3, <1>9, <2>2, <3>1
  <2>4. ASSUME NEW x \in ToSet(s), x # m
        PROVE  x \in ToSet(r)
    <3>1. PICK j \in 1..n : x = s[j]
      BY <2>2
    <3>2. j # i
      BY <1>2, <2>4, <3>1
    <3>3. CASE j = n
      <4>1. i \in 1..(n - 1)
        BY <1>1, <1>2, <3>2, <3>3
      <4>. QED
        BY <1>9, <2>1, <3>1, <3>3, <4>1
    <3>4. CASE j # n
      <4>1. j \in 1..(n - 1)
        BY <1>1, <3>1, <3>4
      <4>. QED
        BY <1>9, <2>1, <3>1, <3>2, <4>1
    <3>. QED
      BY <3>3, <3>4
  <2>. QED
    BY <2>1, <2>3, <2>4
<1>11. IsInjective(r)
  <2>1. ASSUME NEW j \in 1..(n - 1), NEW k \in 1..(n - 1), r[j] = r[k]
        PROVE  j = k
    <3>1. n \in 1..n /\ n # j /\ n # k /\ j \in 1..n /\ k \in 1..n
      BY <1>1, <1>9
    <3>. QED
      BY <1>3, <1>9, <2>1, <3>1
  <2>. QED
    BY <1>9, <2>1 DEF IsInjective
<1>12. n - 1 < n
  BY <1>1
<1>. QED
  BY <1>8, <1>9, <1>10, <1>11, <1>12 DEF n

-----------------------------------------------------------------------------
(* Calls                                                                    *)

\* What every call does: the storage stays good, a hook that leaves makes the
\* list shorter, and sessions end with their module.
CallEffect(a, b) ==
    /\ Good(b)
    /\ ToSet(a.hooks) \subseteq ToSet(b.hooks) \/ Len(b.hooks) < Len(a.hooks)
    /\ SessionKeys \in a.installed \ b.installed => \A k \in Keys : ~b.sessions[k].active

\* The counters have their types and the new period starts within its limit.
LEMMA PreHookGood ==
    ASSUME Good(acc), now \in Times, NEW value \in Nat,
           \A h \in ToSet(acc.hooks) : Allows(h, value)
    PROVE  /\ Good(PreHooked(value))
           /\ PreHooked(value).hooks = acc.hooks
           /\ PreHooked(value).installed = acc.installed
           /\ PreHooked(value).owner = acc.owner
<1>1. acc \in Storage /\ Lists(acc) /\ Sound(acc)
  BY DEF Good
<1>. DEFINE new == [h \in Hooks |->
                      IF h \in ToSet(acc.hooks) THEN PreHook(h, value) ELSE acc.limits[h]]
<1>2. ASSUME NEW h \in Hooks, h \in ToSet(acc.hooks)
      PROVE  PreHook(h, value) \in Config /\ PreHook(h, value).spent <= PreHook(h, value).limit
  <2>1. acc.limits[h] \in Config /\ acc.limits[h].spent <= acc.limits[h].limit
    BY <1>1 DEF Storage, Sound
  <2>2. Allows(h, value)
    BY <1>2
  <2>. DEFINE c == InPeriod(acc.limits[h])
  <2>3. c \in Config /\ c.spent <= c.limit
    <3>1. c = acc.limits[h] \/ c = [acc.limits[h] EXCEPT !.start = now, !.spent = 0]
      BY DEF InPeriod
    <3>. HIDE DEF c
    <3>2. CASE c = acc.limits[h]
      BY <2>1, <3>2
    <3>3. CASE c = [acc.limits[h] EXCEPT !.start = now, !.spent = 0]
      <4>. DEFINE d == acc.limits[h]
      <4>1. d \in Config
        BY <2>1
      <4>. HIDE DEF d
      <4>. DEFINE e == [d EXCEPT !.start = now]
      <4>2. e \in Config /\ e.limit \in Nat
        BY <4>1 DEF Config
      <4>3. c = [e EXCEPT !.spent = 0]
        BY <3>3 DEF d
      <4>. HIDE DEF e
      <4>. QED
        BY <4>2, <4>3 DEF Config
    <3>. QED
      BY <3>1, <3>2, <3>3
  <2>4. c.active => value <= c.limit - c.spent
    BY <2>2 DEF Allows
  <2>5. PreHook(h, value) = IF c.active THEN [c EXCEPT !.spent = @ + value] ELSE c
    BY DEF PreHook
  <2>. HIDE DEF c
  <2>. QED
    BY <2>3, <2>4, <2>5 DEF Config
<1>3. new \in [Hooks -> Config] /\ \A h \in Hooks : new[h].spent <= new[h].limit
  BY <1>1, <1>2 DEF Storage, Sound
<1>4. PreHooked(value) = [acc EXCEPT !.limits = new]
  BY DEF PreHooked
<1>. HIDE DEF new
<1>5. /\ PreHooked(value) \in Storage
      /\ PreHooked(value).limits = new
      /\ PreHooked(value).hooks = acc.hooks
      /\ PreHooked(value).installed = acc.installed
      /\ PreHooked(value).validators = acc.validators
      /\ PreHooked(value).sessions = acc.sessions
      /\ PreHooked(value).sessionList = acc.sessionList
      /\ PreHooked(value).duress = acc.duress
      /\ PreHooked(value).owner = acc.owner
  BY <1>1, <1>3, <1>4 DEF Storage
<1>. QED
  BY <1>1, <1>3, <1>5 DEF Good, Lists, Sound

\* The counters and payments of a hook are set.
LEMMA ConfigureHookEffect ==
    ASSUME NEW a, Good(a), now \in Times, NEW h \in Hooks, NEW l \in Limits,
           ConfigureHook(a, h, l)
    PROVE  CallEffect(a, acc')
<1>1. a \in Storage /\ Lists(a) /\ Sound(a)
  BY DEF Good
<1>2. Configured(l) \in Config /\ Configured(l).spent <= Configured(l).limit
  <2>1. l \in [limit : Nat, period : Nat]
    BY AccountAssumption
  <2>. QED
    BY <2>1 DEF Configured, Config
<1>3. Nothing \in [Times -> Nat]
  BY DEF Nothing
<1>4. acc' = [a EXCEPT !.limits = [a.limits EXCEPT ![h] = Configured(l)],
                       !.paid = [a.paid EXCEPT ![h] = Nothing]]
  BY DEF ConfigureHook
<1>. DEFINE limits == [a.limits EXCEPT ![h] = Configured(l)]
            paid == [a.paid EXCEPT ![h] = Nothing]
<1>5. /\ limits \in [Hooks -> Config] /\ paid \in [Hooks -> [Times -> Nat]]
      /\ \A g \in Hooks : limits[g].spent <= limits[g].limit
  BY <1>1, <1>2, <1>3 DEF Storage, Sound
<1>6. acc' = [a EXCEPT !.limits = limits, !.paid = paid]
  BY <1>4
<1>. HIDE DEF limits, paid
<1>7. /\ acc' \in Storage /\ acc'.limits = limits
      /\ acc'.hooks = a.hooks /\ acc'.installed = a.installed /\ acc'.validators = a.validators
      /\ acc'.sessions = a.sessions /\ acc'.sessionList = a.sessionList
  BY <1>1, <1>5, <1>6 DEF Storage
<1>. QED
  BY <1>1, <1>5, <1>7 DEF CallEffect, Good, Lists, Sound

\* A session is created: it is listed with the others.
LEMMA CreateSessionEffect ==
    ASSUME NEW a, Good(a), NEW k \in Keys, NEW w \in Windows, CreateSession(a, k, w)
    PROVE  CallEffect(a, acc')
<1>1. a \in Storage /\ Lists(a) /\ Sound(a)
  BY DEF Good
<1>. DEFINE s == [active |-> TRUE, after |-> w.after, until |-> w.until]
            sessions == [a.sessions EXCEPT ![k] = s]
            list == a.sessionList \cup {k}
<1>2. s \in Session
  <2>1. w \in [after : Nat, until : Nat]
    BY AccountAssumption
  <2>. QED
    BY <2>1 DEF Session
<1>3. acc' = [a EXCEPT !.sessions = sessions, !.sessionList = list]
  BY DEF CreateSession
<1>. HIDE DEF s
<1>4. /\ sessions \in [Keys -> Session] /\ list \in SUBSET Keys
      /\ {i \in Keys : sessions[i].active} \subseteq list
  BY <1>1, <1>2 DEF Storage, Sound
<1>. HIDE DEF sessions, list
<1>5. /\ acc' \in Storage /\ acc'.sessions = sessions /\ acc'.sessionList = list
      /\ acc'.hooks = a.hooks /\ acc'.installed = a.installed /\ acc'.validators = a.validators
      /\ acc'.limits = a.limits
  BY <1>1, <1>3, <1>4 DEF Storage
<1>. QED
  BY <1>1, <1>4, <1>5 DEF CallEffect, Good, Lists, Sound

\* A session is revoked: it stays on the list.
LEMMA RevokeSessionEffect ==
    ASSUME NEW a, Good(a), NEW k \in Keys, RevokeSession(a, k)
    PROVE  CallEffect(a, acc')
<1>1. a \in Storage /\ Lists(a) /\ Sound(a)
  BY DEF Good
<1>. DEFINE sessions == [a.sessions EXCEPT ![k].active = FALSE]
<1>2. acc' = [a EXCEPT !.sessions = sessions]
  BY DEF RevokeSession
<1>3. a.sessions \in [Keys -> Session]
  BY <1>1 DEF Storage
<1>4. /\ sessions \in [Keys -> Session]
      /\ \A i \in Keys : sessions[i].active => a.sessions[i].active
  BY <1>3 DEF Session
<1>. HIDE DEF sessions
<1>5. /\ acc' \in Storage /\ acc'.sessions = sessions /\ acc'.sessionList = a.sessionList
      /\ acc'.hooks = a.hooks /\ acc'.installed = a.installed /\ acc'.validators = a.validators
      /\ acc'.limits = a.limits
  BY <1>1, <1>2, <1>4 DEF Storage
<1>. QED
  BY <1>1, <1>4, <1>5 DEF CallEffect, Good, Lists, Sound

\* The vault is configured or locked: nothing else is.
LEMMA VaultEffect ==
    ASSUME NEW a, Good(a), (\E v \in Vaults : ConfigureDuress(a, v)) \/ LockVault(a)
    PROVE  CallEffect(a, acc')
<1>1. a \in Storage /\ Lists(a) /\ Sound(a)
  BY DEF Good
<1>2. PICK d \in Vault : acc' = [a EXCEPT !.duress = d]
  <2>1. ASSUME NEW v \in Vaults, ConfigureDuress(a, v)
        PROVE  \E d \in Vault : acc' = [a EXCEPT !.duress = d]
    <3>1. [active |-> TRUE, vault |-> v, locked |-> FALSE] \in Vault
      BY DEF Vault
    <3>. QED
      BY <2>1, <3>1 DEF ConfigureDuress
  <2>2. ASSUME LockVault(a)
        PROVE  \E d \in Vault : acc' = [a EXCEPT !.duress = d]
    <3>1. a.duress \in Vault
      BY <1>1 DEF Storage
    <3>2. [a.duress EXCEPT !.locked = TRUE] \in Vault
      BY <3>1 DEF Vault
    <3>. QED
      BY <2>2, <3>2 DEF LockVault
  <2>. QED
    BY <2>1, <2>2
<1>3. /\ acc' \in Storage
      /\ acc'.hooks = a.hooks /\ acc'.installed = a.installed /\ acc'.validators = a.validators
      /\ acc'.limits = a.limits /\ acc'.sessions = a.sessions /\ acc'.sessionList = a.sessionList
  BY <1>1, <1>2 DEF Storage
<1>. QED
  BY <1>1, <1>3 DEF CallEffect, Good, Lists, Sound

\* Value leaves, or the owner changes: neither touches what the rest reads.
LEMMA PlainEffect ==
    ASSUME NEW a, Good(a), now \in Times,
           (\E v \in Amounts : Transfer(a, v)) \/ (\E o \in Owners : TransferOwnership(a, o))
    PROVE  CallEffect(a, acc')
<1>1. a \in Storage /\ Lists(a) /\ Sound(a)
  BY DEF Good
<1>. DEFINE Same(b) ==
         /\ b \in Storage
         /\ b.hooks = a.hooks /\ b.installed = a.installed /\ b.validators = a.validators
         /\ b.limits = a.limits /\ b.sessions = a.sessions /\ b.sessionList = a.sessionList
<1>2. ASSUME NEW v \in Amounts, Transfer(a, v)
      PROVE  Same(acc')
  <2>1. a.paid \in [Hooks -> [Times -> Nat]] /\ v \in Nat
    BY <1>1, AccountAssumption DEF Storage
  <2>. DEFINE pay(h) == [a.paid[h] EXCEPT ![now] = @ + v]
              paid == [h \in Hooks |-> IF h \in a.installed THEN pay(h) ELSE a.paid[h]]
  <2>2. ASSUME NEW h \in Hooks
        PROVE  a.paid[h] \in [Times -> Nat] /\ pay(h) \in [Times -> Nat]
    <3>1. a.paid[h] \in [Times -> Nat]
      BY <2>1
    <3>2. a.paid[h][now] + v \in Nat
      BY <2>1, <3>1
    <3>. QED
      BY <3>1, <3>2
  <2>3. acc' = [a EXCEPT !.paid = paid]
    BY <1>2 DEF Transfer
  <2>. HIDE DEF pay
  <2>4. paid \in [Hooks -> [Times -> Nat]]
    BY <2>2
  <2>. HIDE DEF paid
  <2>. QED
    BY <1>1, <2>3, <2>4 DEF Storage
<1>3. ASSUME NEW o \in Owners, TransferOwnership(a, o)
      PROVE  Same(acc')
  BY <1>1, <1>3 DEF TransferOwnership, Storage
<1>4. Same(acc')
  BY <1>2, <1>3
<1>. QED
  BY <1>1, <1>4 DEF CallEffect, Good, Lists, Sound

\* A module that is not installed is listed where its type belongs.
LEMMA ListedGood ==
    ASSUME NEW a, Good(a), NEW m \in Modules, m \notin a.installed
    PROVE  /\ Good(Listed(a, m))
           /\ Listed(a, m).installed = a.installed \cup {m}
           /\ ToSet(a.hooks) \subseteq ToSet(Listed(a, m).hooks)
<1>1. a \in Storage /\ Lists(a) /\ Sound(a)
  BY DEF Good
<1>. DEFINE hooks == IF m \in Hooks THEN Append(a.hooks, m) ELSE a.hooks
            validators == IF m = SessionKeys THEN Append(a.validators, m) ELSE a.validators
            installed == a.installed \cup {m}
<1>2. /\ a.hooks \in Seq(Hooks) /\ a.validators \in Seq({SessionKeys})
      /\ m \notin ToSet(a.hooks) /\ m \notin ToSet(a.validators)
      /\ IsInjective(a.hooks) /\ IsInjective(a.validators)
      /\ ToSet(a.hooks) = a.installed \cap Hooks
      /\ ToSet(a.validators) = a.installed \cap {SessionKeys}
  BY <1>1 DEF Storage, Lists
<1>3. /\ hooks \in Seq(Hooks) /\ IsInjective(hooks) /\ ToSet(hooks) = installed \cap Hooks
      /\ ToSet(a.hooks) \subseteq ToSet(hooks)
  <2>1. CASE m \in Hooks
    <3>1. /\ Append(a.hooks, m) \in Seq(Hooks) /\ IsInjective(Append(a.hooks, m))
          /\ ToSet(Append(a.hooks, m)) = ToSet(a.hooks) \cup {m}
      BY <1>2, <2>1, Appended
    <3>. QED
      BY <1>2, <2>1, <3>1
  <2>2. CASE m \notin Hooks
    BY <1>2, <2>2
  <2>. QED
    BY <2>1, <2>2
<1>4. /\ validators \in Seq({SessionKeys}) /\ IsInjective(validators)
      /\ ToSet(validators) = installed \cap {SessionKeys}
  <2>1. CASE m = SessionKeys
    <3>1. /\ Append(a.validators, m) \in Seq({SessionKeys}) /\ IsInjective(Append(a.validators, m))
          /\ ToSet(Append(a.validators, m)) = ToSet(a.validators) \cup {m}
      BY <1>2, <2>1, Appended
    <3>. QED
      BY <1>2, <2>1, <3>1
  <2>2. CASE m # SessionKeys
    BY <1>2, <2>2
  <2>. QED
    BY <2>1, <2>2
<1>5. Listed(a, m) = [a EXCEPT !.installed = installed, !.hooks = hooks,
                               !.validators = validators]
  BY DEF Listed
<1>6. installed \in SUBSET Modules
  BY <1>1 DEF Storage
<1>. HIDE DEF hooks, validators
<1>7. /\ Listed(a, m) \in Storage
      /\ Listed(a, m).installed = installed /\ Listed(a, m).hooks = hooks
      /\ Listed(a, m).validators = validators
      /\ Listed(a, m).limits = a.limits /\ Listed(a, m).sessions = a.sessions
      /\ Listed(a, m).sessionList = a.sessionList
  BY <1>1, <1>3, <1>4, <1>5, <1>6 DEF Storage
<1>. QED
  BY <1>1, <1>3, <1>4, <1>7 DEF Good, Lists, Sound

\* A module comes, with or without data to configure it.
LEMMA InstallEffect ==
    ASSUME NEW a, Good(a), now \in Times, NEW m \in Modules, InstallModule(a, m)
    PROVE  CallEffect(a, acc')
<1>. DEFINE b == Listed(a, m)
<1>1. /\ Good(b) /\ b.installed = a.installed \cup {m}
      /\ ToSet(a.hooks) \subseteq ToSet(b.hooks)
  BY ListedGood DEF InstallModule
<1>2. \/ acc' = b
      \/ m \in Hooks /\ \E l \in Limits : ConfigureHook(b, m, l)
      \/ \E k \in Keys, w \in Windows : CreateSession(b, k, w)
      \/ \E v \in Vaults : ConfigureDuress(b, v)
  BY DEF InstallModule
<1>. HIDE DEF b
<1>3. /\ acc' = b \/ CallEffect(b, acc')
      /\ acc'.hooks = b.hooks /\ acc'.installed = b.installed
  <2>1. b \in Storage
    BY <1>1 DEF Good
  <2>2. CASE acc' = b
    BY <2>2
  <2>3. ASSUME NEW l \in Limits, ConfigureHook(b, m, l), m \in Hooks
        PROVE  CallEffect(b, acc') /\ acc'.hooks = b.hooks /\ acc'.installed = b.installed
    BY <1>1, <2>1, <2>3, ConfigureHookEffect DEF ConfigureHook, Storage
  <2>4. ASSUME NEW k \in Keys, NEW w \in Windows, CreateSession(b, k, w)
        PROVE  CallEffect(b, acc') /\ acc'.hooks = b.hooks /\ acc'.installed = b.installed
    BY <1>1, <2>1, <2>4, CreateSessionEffect DEF CreateSession, Storage
  <2>5. ASSUME NEW v \in Vaults, ConfigureDuress(b, v)
        PROVE  CallEffect(b, acc') /\ acc'.hooks = b.hooks /\ acc'.installed = b.installed
    <3>1. acc'.hooks = b.hooks /\ acc'.installed = b.installed
      BY <2>1, <2>5 DEF ConfigureDuress, Storage
    <3>2. CallEffect(b, acc')
      BY <1>1, <2>5, VaultEffect
    <3>. QED
      BY <3>1, <3>2
  <2>. QED
    BY <1>2, <2>2, <2>3, <2>4, <2>5
<1>4. Good(acc')
  BY <1>1, <1>3 DEF CallEffect
<1>. QED
  BY <1>1, <1>3, <1>4 DEF CallEffect

\* A module goes: a hook is taken off the list, a session module takes its
\* sessions along.
LEMMA UninstallEffect ==
    ASSUME NEW a, Good(a), NEW m \in Modules, UninstallModule(a, m)
    PROVE  CallEffect(a, acc')
<1>1. a \in Storage /\ Lists(a) /\ Sound(a) /\ m \in a.installed
  BY DEF Good, UninstallModule
<1>. DEFINE hooks == IF m \in Hooks THEN RemoveFromArray(a.hooks, m) ELSE a.hooks
            validators == IF m = SessionKeys THEN RemoveFromArray(a.validators, m)
                                             ELSE a.validators
            installed == a.installed \ {m}
            b == Unlisted(a, m)
<1>2. /\ a.hooks \in Seq(Hooks) /\ a.validators \in Seq({SessionKeys})
      /\ IsInjective(a.hooks) /\ IsInjective(a.validators)
      /\ ToSet(a.hooks) = a.installed \cap Hooks
      /\ ToSet(a.validators) = a.installed \cap {SessionKeys}
  BY <1>1 DEF Storage, Lists
<1>3. /\ hooks \in Seq(Hooks) /\ IsInjective(hooks) /\ ToSet(hooks) = installed \cap Hooks
      /\ ToSet(a.hooks) \subseteq ToSet(hooks) \/ Len(hooks) < Len(a.hooks)
  <2>1. CASE m \in Hooks
    <3>1. /\ hooks \in Seq(Hooks) /\ IsInjective(hooks) /\ Len(hooks) < Len(a.hooks)
          /\ ToSet(hooks) = ToSet(a.hooks) \ {m}
      BY <1>1, <1>2, <2>1, Removed
    <3>. QED
      BY <1>2, <2>1, <3>1
  <2>2. CASE m \notin Hooks
    BY <1>2, <2>2
  <2>. QED
    BY <2>1, <2>2
<1>4. /\ validators \in Seq({SessionKeys}) /\ IsInjective(validators)
      /\ ToSet(validators) = installed \cap {SessionKeys}
  <2>1. CASE m = SessionKeys
    <3>1. /\ validators \in Seq({SessionKeys}) /\ IsInjective(validators)
          /\ ToSet(validators) = ToSet(a.validators) \ {m}
      BY <1>1, <1>2, <2>1, Removed
    <3>. QED
      BY <1>2, <2>1, <3>1
  <2>2. CASE m # SessionKeys
    BY <1>2, <2>2
  <2>. QED
    BY <2>1, <2>2
<1>5. b = [a EXCEPT !.installed = installed, !.hooks = hooks, !.validators = validators]
  BY DEF Unlisted
<1>6. installed \in SUBSET Modules
  BY <1>1 DEF Storage
<1>. HIDE DEF hooks, validators, b
<1>7. /\ b \in Storage /\ b.installed = installed /\ b.hooks = hooks
      /\ b.validators = validators
      /\ b.limits = a.limits /\ b.sessions = a.sessions /\ b.sessionList = a.sessionList
  BY <1>1, <1>3, <1>4, <1>5, <1>6 DEF Storage
<1>8. Lists(b)
  BY <1>3, <1>4, <1>7 DEF Lists
<1>9. acc' = OnUninstall(b, m)
  BY DEF UninstallModule, b
<1>10. CASE m \in Hooks
  <2>. DEFINE limits == [b.limits EXCEPT ![m] = NoLimit]
  <2>1. NoLimit \in Config /\ NoLimit.spent <= NoLimit.limit
    <3>1. 0 \in Times
      BY AccountAssumption DEF Times
    <3>. QED
      BY <3>1 DEF NoLimit, Config
  <2>2. limits \in [Hooks -> Config] /\ \A h \in Hooks : limits[h].spent <= limits[h].limit
    <3>1. /\ b.limits \in [Hooks -> Config]
          /\ \A h \in Hooks : b.limits[h].spent <= b.limits[h].limit
      BY <1>1, <1>7 DEF Storage, Sound
    <3>. QED
      BY <1>10, <2>1, <3>1
  <2>3. acc' = [b EXCEPT !.limits = limits]
    BY <1>9, <1>10, AccountAssumption DEF OnUninstall
  <2>. HIDE DEF limits
  <2>4. /\ acc' \in Storage /\ acc'.limits = limits
        /\ acc'.installed = b.installed /\ acc'.hooks = b.hooks
        /\ acc'.validators = b.validators /\ acc'.sessions = b.sessions
        /\ acc'.sessionList = b.sessionList
    BY <1>7, <2>2, <2>3 DEF Storage
  <2>5. m # SessionKeys
    BY <1>10, AccountAssumption
  <2>. QED
    BY <1>1, <1>3, <1>7, <1>8, <2>2, <2>4, <2>5 DEF CallEffect, Good, Lists, Sound
<1>11. CASE m = SessionKeys
  <2>. DEFINE sessions == [k \in Keys |-> IF k \in b.sessionList THEN NoSession ELSE b.sessions[k]]
  <2>1. NoSession \in Session /\ ~NoSession.active
    BY DEF NoSession, Session
  <2>2. sessions \in [Keys -> Session] /\ \A k \in Keys : ~sessions[k].active
    BY <1>1, <1>7, <2>1 DEF Storage, Sound
  <2>3. acc' = [b EXCEPT !.sessions = sessions, !.sessionList = {}]
    BY <1>9, <1>11, AccountAssumption DEF OnUninstall
  <2>. HIDE DEF sessions
  <2>4. /\ acc' \in Storage /\ acc'.sessions = sessions /\ acc'.sessionList = {}
        /\ acc'.installed = b.installed /\ acc'.hooks = b.hooks
        /\ acc'.validators = b.validators /\ acc'.limits = b.limits
    BY <1>7, <2>2, <2>3 DEF Storage
  <2>. QED
    BY <1>1, <1>3, <1>7, <1>8, <2>2, <2>4 DEF CallEffect, Good, Lists, Sound
<1>12. CASE m = Duress
  <2>1. NoDuress \in Vault
    BY DEF NoDuress, Vault
  <2>2. acc' = [b EXCEPT !.duress = NoDuress]
    BY <1>9, <1>12, AccountAssumption DEF OnUninstall
  <2>3. /\ acc' \in Storage
        /\ acc'.installed = b.installed /\ acc'.hooks = b.hooks
        /\ acc'.validators = b.validators /\ acc'.limits = b.limits
        /\ acc'.sessions = b.sessions /\ acc'.sessionList = b.sessionList
    BY <1>7, <2>1, <2>2 DEF Storage
  <2>4. m # SessionKeys
    BY <1>12, AccountAssumption
  <2>. QED
    BY <1>1, <1>3, <1>7, <1>8, <2>3, <2>4 DEF CallEffect, Good, Lists, Sound
<1>. QED
  BY <1>10, <1>11, <1>12 DEF Modules

-----------------------------------------------------------------------------
(* Steps                                                                    *)

OwnerStep  == OwnerCalls /\ CallEffect(acc, acc')
HookedStep == \E v \in Nat : ExecuteWithHooks(v) /\ CallEffect(PreHooked(v), acc')

\* Every step is a call of the owner, a call between the hooks, or one of the
\* entry point and the clock.
LEMMA StepKinds ==
    ASSUME AccountInv, Next
    PROVE  \/ OwnerStep \/ HookedStep
           \/ \E who \in Owners \cup Keys : Validate(who)
           \/ Begin \/ Finish \/ Revert \/ Tick
<1>1. Good(acc) /\ now \in Times
  BY DEF AccountInv
<1>2. ASSUME NEW m \in Modules, InstallModule(acc, m), OwnerCalls
      PROVE  OwnerStep
  BY <1>1, <1>2, InstallEffect DEF OwnerStep
<1>3. ASSUME NEW m \in Modules, UninstallModule(acc, m), OwnerCalls
      PROVE  OwnerStep
  BY <1>1, <1>3, UninstallEffect DEF OwnerStep
<1>4. ASSUME NEW o \in Owners, TransferOwnership(acc, o), OwnerCalls
      PROVE  OwnerStep
  BY <1>1, <1>4, PlainEffect DEF OwnerStep
<1>5. ASSUME NEW v \in Nat, ExecuteWithHooks(v)
      PROVE  Good(PreHooked(v))
  BY <1>1, <1>5, PreHookGood DEF ExecuteWithHooks
<1>6. ASSUME NEW v \in Amounts, Transfer(PreHooked(v), v), ExecuteWithHooks(v)
      PROVE  HookedStep
  <2>1. v \in Nat
    BY AccountAssumption
  <2>2. CallEffect(PreHooked(v), acc')
    BY <1>1, <1>5, <1>6, <2>1, PlainEffect
  <2>. QED
    BY <1>6, <2>1, <2>2 DEF HookedStep
<1>7. ASSUME ExecuteWithHooks(0), CallEffect(PreHooked(0), acc')
      PROVE  HookedStep
  BY <1>7 DEF HookedStep
<1>8. ASSUME ExecuteWithHooks(0),
             \/ \E m \in Modules : InstallModule(PreHooked(0), m) \/ UninstallModule(PreHooked(0), m)
             \/ \E o \in Owners : TransferOwnership(PreHooked(0), o)
             \/ \E h \in Hooks, l \in Limits : ConfigureHook(PreHooked(0), h, l)
             \/ \E k \in Keys, w \in Windows : CreateSession(PreHooked(0), k, w)
             \/ \E k \in Keys : RevokeSession(PreHooked(0), k)
             \/ (\E v \in Vaults : ConfigureDuress(PreHooked(0), v)) \/ LockVault(PreHooked(0))
      PROVE  HookedStep
  <2>. DEFINE a == PreHooked(0)
  <2>1. Good(a)
    BY <1>5, <1>8
  <2>. HIDE DEF a
  <2>2. \/ \E m \in Modules : InstallModule(a, m) \/ UninstallModule(a, m)
        \/ \E o \in Owners : TransferOwnership(a, o)
        \/ \E h \in Hooks, l \in Limits : ConfigureHook(a, h, l)
        \/ \E k \in Keys, w \in Windows : CreateSession(a, k, w)
        \/ \E k \in Keys : RevokeSession(a, k)
        \/ (\E v \in Vaults : ConfigureDuress(a, v)) \/ LockVault(a)
    BY <1>8 DEF a
  <2>3. CASE \E m \in Modules : InstallModule(a, m) \/ UninstallModule(a, m)
    BY <1>1, <2>1, <2>3, InstallEffect, UninstallEffect, <1>7, <1>8 DEF a
  <2>4. CASE \E o \in Owners : TransferOwnership(a, o)
    <3>1. CallEffect(a, acc')
      BY <1>1, <2>1, <2>4, PlainEffect
    <3>. QED
      BY <1>7, <1>8, <3>1 DEF a
  <2>5. CASE \E h \in Hooks, l \in Limits : ConfigureHook(a, h, l)
    BY <1>1, <2>1, <2>5, ConfigureHookEffect, <1>7, <1>8 DEF a
  <2>6. CASE \E k \in Keys, w \in Windows : CreateSession(a, k, w)
    BY <2>1, <2>6, CreateSessionEffect, <1>7, <1>8 DEF a
  <2>7. CASE \E k \in Keys : RevokeSession(a, k)
    BY <2>1, <2>7, RevokeSessionEffect, <1>7, <1>8 DEF a
  <2>8. CASE (\E v \in Vaults : ConfigureDuress(a, v)) \/ LockVault(a)
    BY <2>1, <2>8, VaultEffect, <1>7, <1>8 DEF a
  <2>. QED
    BY <2>2, <2>3, <2>4, <2>5, <2>6, <2>7, <2>8
<1>. QED
  BY <1>2, <1>3, <1>4, <1>6, <1>8 DEF Next

\* A call between the hooks keeps the hooks, since the list must not get shorter.
LEMMA HookedKeeps ==
    ASSUME AccountInv, HookedStep
    PROVE  /\ Good(acc')
           /\ ToSet(acc.hooks) \subseteq ToSet(acc'.hooks)
           /\ SessionKeys \in acc.installed \ acc'.installed => \A k \in Keys : ~acc'.sessions[k].active
           /\ op # Nobody /\ calls' \in 0..MaxCalls
           /\ UNCHANGED <<now, saved, op, bundle>>
<1>1. PICK v \in Nat : ExecuteWithHooks(v) /\ CallEffect(PreHooked(v), acc')
  BY DEF HookedStep
<1>2. /\ PreHooked(v).hooks = acc.hooks /\ PreHooked(v).installed = acc.installed
  BY <1>1, PreHookGood DEF AccountInv, ExecuteWithHooks
<1>3. Len(acc'.hooks) >= Len(acc.hooks)
  BY <1>1 DEF ExecuteWithHooks, HooksRemain
<1>4. Len(acc'.hooks) \in Nat /\ Len(acc.hooks) \in Nat
  <2>1. acc'.hooks \in Seq(Hooks) /\ acc.hooks \in Seq(Hooks)
    BY <1>1 DEF AccountInv, CallEffect, Good, Storage
  <2>. QED
    BY <2>1
<1>5. /\ op # Nobody /\ UNCHANGED <<now, saved, op, bundle>>
      /\ calls' \in 0..MaxCalls
  BY <1>1, AccountAssumption DEF AccountInv, ExecuteWithHooks
<1>. QED
  BY <1>1, <1>2, <1>3, <1>4, <1>5 DEF CallEffect

\* The next operation begins where the account stands.
LEMMA NextOpKeeps ==
    ASSUME AccountInv, NextOp, acc' = acc \/ acc' = saved, UNCHANGED <<now, calls>>
    PROVE  AccountInv'
<1>1. Good(acc') /\ saved' = acc'
  BY DEF AccountInv, NextOp
<1>2. /\ bundle' \in Seq(Owners \cup Keys)
      /\ op' \in Owners \cup Keys \cup {Nobody}
  <2>1. CASE bundle = <<>>
    BY <2>1 DEF NextOp
  <2>2. CASE bundle # <<>>
    <3>1. Head(bundle) \in Owners \cup Keys /\ Tail(bundle) \in Seq(Owners \cup Keys)
      BY <2>2 DEF AccountInv
    <3>. QED
      BY <2>2, <3>1 DEF NextOp
  <2>. QED
    BY <2>1, <2>2
<1>. QED
  BY <1>1, <1>2 DEF AccountInv

\* An account starts without modules.
LEMMA AccountInit == Init => AccountInv
<1>. SUFFICES ASSUME Init PROVE AccountInv
  OBVIOUS
<1>1. 0 \in Times /\ 0 \in 0..MaxCalls
  BY AccountAssumption DEF Times
<1>2. NoLimit \in Config /\ NoSession \in Session /\ NoDuress \in Vault /\ Nothing \in [Times -> Nat]
  BY <1>1 DEF NoLimit, NoSession, NoDuress, Nothing, Config, Session, Vault
<1>3. acc \in Storage
  BY <1>2 DEF Init, Storage
<1>4. Lists(acc)
  <2>1. acc.hooks = <<>> /\ acc.validators = <<>> /\ acc.installed = {}
    BY DEF Init
  <2>. QED
    BY <2>1 DEF Lists, ToSet, IsInjective
<1>5. Sound(acc)
  <2>1. /\ acc.limits = [h \in Hooks |-> NoLimit] /\ acc.sessions = [k \in Keys |-> NoSession]
        /\ acc.sessionList = {}
    BY DEF Init
  <2>. QED
    BY <2>1 DEF Sound, NoLimit, NoSession
<1>6. /\ now = 0 /\ calls = 0 /\ op = Nobody /\ bundle = <<>> /\ saved = acc
  BY DEF Init
<1>7. bundle \in Seq(Owners \cup Keys)
  BY <1>6
<1>. QED
  BY <1>1, <1>3, <1>4, <1>5, <1>6, <1>7 DEF AccountInv, Good

\* Every step keeps the invariant.
LEMMA AccountStep == AccountInv /\ [Next]_vars => AccountInv'
<1>. SUFFICES ASSUME AccountInv, [Next]_vars
              PROVE  AccountInv'
  OBVIOUS
<1>1. CASE OwnerStep
  <2>1. /\ Good(acc') /\ saved' = acc' /\ op = Nobody
        /\ calls' \in 0..MaxCalls /\ UNCHANGED <<now, op, bundle>>
    BY <1>1, AccountAssumption DEF AccountInv, OwnerStep, OwnerCalls, CallEffect
  <2>. QED
    BY <2>1 DEF AccountInv
<1>2. CASE HookedStep
  <2>1. /\ Good(acc')
        /\ ToSet(acc.hooks) \subseteq ToSet(acc'.hooks)
        /\ op # Nobody /\ calls' \in 0..MaxCalls
        /\ UNCHANGED <<now, saved, op, bundle>>
    BY <1>2, HookedKeeps
  <2>. QED
    BY <2>1 DEF AccountInv
<1>3. ASSUME NEW who \in Owners \cup Keys, Validate(who)
      PROVE  AccountInv'
  BY <1>3 DEF Validate, AccountInv
<1>4. CASE Begin \/ Finish \/ Revert
  BY <1>4, NextOpKeeps DEF Begin, Finish, Revert
<1>5. CASE Tick
  <2>1. now' \in Times
    BY <1>5, AccountAssumption DEF Tick, AccountInv, Times
  <2>. QED
    BY <1>5, <2>1 DEF Tick, AccountInv
<1>6. CASE UNCHANGED vars
  BY <1>6 DEF vars, AccountInv
<1>. QED
  BY <1>1, <1>2, <1>3, <1>4, <1>5, <1>6, StepKinds

\* The invariant holds throughout.
LEMMA AccountInvariant == Spec => []AccountInv
BY AccountInit, AccountStep, PTL DEF Spec

-----------------------------------------------------------------------------
(* What leaves within a period                                              *)

\* The counter of a hook is what has left since its period began.  Nothing has
\* left in what would be the next period, so that one begins with nothing.  What
\* left just before the period is within a limit of its own, and so is twice
\* that for every span that was over by then.
Within(c, p) ==
    c.active =>
        /\ c.period > 0 /\ c.start <= now
        /\ SumOver(p, c.start..MaxNow) = c.spent
        /\ \A t \in Times : t >= c.start + c.period => p[t] = 0
        /\ \A t \in Times : (t < c.start /\ c.start < t + c.period)
                              => SumOver(p, t..(c.start - 1)) <= c.limit
        /\ \A t \in Times : t + c.period <= c.start
                              => SumOver(p, t..(t + c.period - 1)) <= 2 * c.limit

\* Hooks that are not installed are measured as well: they may be configured.
Metered(a) == \A h \in Hooks : Within(a.limits[h], a.paid[h])

\* Spans of time are finite.
LEMMA SpanFinite ==
    ASSUME NEW from \in Nat, NEW to \in Int, to <= MaxNow
    PROVE  /\ IsFiniteSet(from..to) /\ from..to \in SUBSET Times
           /\ \A p \in [Times -> Nat] : SumOver(p, from..to) \in Nat
<1>1. MaxNow \in Nat
  BY AccountAssumption
<1>2. from..to \in SUBSET Times
  BY <1>1 DEF Times
<1>3. IsFiniteSet(from..to)
  <2>1. from \in Int
    OBVIOUS
  <2>. QED
    BY ONLY <2>1, to \in Int, FS_Interval
<1>4. ASSUME NEW p \in [Times -> Nat] PROVE SumOver(p, from..to) \in Nat
  <2>1. \A t \in from..to : p[t] \in Nat
    BY <1>2
  <2>. QED
    BY <1>3, <2>1, SumNat
<1>. QED
  BY <1>2, <1>3, <1>4

\* A shorter span sees no more.
LEMMA SpanPart ==
    ASSUME NEW p \in [Times -> Nat], NEW from \in Nat, NEW to \in Int, to <= MaxNow,
           NEW first \in Nat, NEW last \in Int, from <= first, last <= to
    PROVE  SumOver(p, first..last) <= SumOver(p, from..to)
<1>1. first..last \in SUBSET (from..to)
  OBVIOUS
<1>2. IsFiniteSet(from..to) /\ from..to \in SUBSET Times
  BY SpanFinite
<1>3. \A t \in from..to : p[t] \in Nat
  BY <1>2
<1>. QED
  BY <1>1, <1>2, <1>3, SumPart

\* A span is that up to a moment and that from then on.
LEMMA SpanSplit ==
    ASSUME NEW p \in [Times -> Nat], NEW from \in Nat, NEW to \in Int, to <= MaxNow,
           NEW at \in Nat, from <= at, at <= to
    PROVE  SumOver(p, from..to) = SumOver(p, from..(at - 1)) + SumOver(p, at..to)
<1>1. /\ from..to = (from..(at - 1)) \cup (at..to)
      /\ (from..(at - 1)) \cap (at..to) = {}
  OBVIOUS
<1>2. MaxNow \in Nat /\ at - 1 \in Int /\ at - 1 <= MaxNow
  BY AccountAssumption
<1>3. /\ IsFiniteSet(from..(at - 1)) /\ IsFiniteSet(at..to)
      /\ from..to \in SUBSET Times
  BY <1>2, SpanFinite
<1>4. \A t \in (from..(at - 1)) \cup (at..to) : p[t] \in Nat
  BY <1>1, <1>3
<1>. QED
  BY <1>1, <1>3, <1>4, SumSplit

\* No span as long as the period sees more than twice the limit, wherever it
\* lies.
LEMMA SpanBound ==
    ASSUME NEW c \in Config, c.spent <= c.limit, NEW p \in [Times -> Nat], c.active,
           Within(c, p), NEW t \in Times, NEW w \in Int, w <= MaxNow, w <= t + c.period - 1,
           w = MaxNow \/ w = t + c.period - 1
    PROVE  SumOver(p, t..w) <= 2 * c.limit
<1>. DEFINE s == c.start
            n == c.period
            l == c.limit
<1>1. /\ s \in Nat /\ s <= MaxNow /\ n \in Nat /\ l \in Nat /\ t \in Nat /\ MaxNow \in Nat
      /\ t <= MaxNow
  BY AccountAssumption DEF Config, Times
<1>2. /\ SumOver(p, s..MaxNow) <= l
      /\ t < s /\ s < t + n => SumOver(p, t..(s - 1)) <= l
      /\ t + n <= s => SumOver(p, t..(t + n - 1)) <= 2 * l
  <2>1. SumOver(p, s..MaxNow) = c.spent
    BY Zenon DEF Within
  <2>2. t < s /\ s < t + n => SumOver(p, t..(s - 1)) <= l
    BY Zenon DEF Within
  <2>3. t + n <= s => SumOver(p, t..(t + n - 1)) <= 2 * l
    BY Zenon DEF Within
  <2>4. SumOver(p, s..MaxNow) <= l
    BY <2>1
  <2>. HIDE DEF s, n, l
  <2>. QED
    BY <2>2, <2>3, <2>4
<1>3. w <= t + n - 1 /\ (w = MaxNow \/ w = t + n - 1)
  OBVIOUS
<1>. HIDE DEF s, n, l
<1>4. SumOver(p, s..MaxNow) \in Nat /\ SumOver(p, t..w) \in Nat
  <2>1. SumOver(p, s..MaxNow) \in Nat
    <3>1. MaxNow \in Int /\ MaxNow <= MaxNow
      BY <1>1
    <3>. QED
      BY <1>1, <3>1, SpanFinite
  <2>2. SumOver(p, t..w) \in Nat
    BY <1>1, SpanFinite
  <2>. QED
    BY <2>1, <2>2
<1>5. CASE s <= t
  <2>1. SumOver(p, t..w) <= SumOver(p, s..MaxNow)
    BY <1>1, <1>5, SpanPart
  <2>. QED
    BY <1>1, <1>2, <1>4, <2>1 DEF l
<1>6. CASE w < s
  <2>1. w = t + n - 1 /\ t + n <= s
    BY <1>1, <1>3, <1>6
  <2>. QED
    BY <1>2, <2>1 DEF l
<1>7. CASE t < s /\ s <= w
  <2>1. SumOver(p, t..w) = SumOver(p, t..(s - 1)) + SumOver(p, s..w)
    BY <1>1, <1>7, SpanSplit
  <2>2. SumOver(p, s..w) <= SumOver(p, s..MaxNow)
    BY <1>1, SpanPart
  <2>3. SumOver(p, t..(s - 1)) <= l
    BY <1>1, <1>2, <1>3, <1>7
  <2>4. SumOver(p, t..(s - 1)) \in Nat /\ SumOver(p, s..w) \in Nat
    <3>1. s - 1 \in Int /\ s - 1 <= MaxNow
      BY <1>1
    <3>. QED
      BY <1>1, <3>1, SpanFinite
  <2>. QED
    BY <1>1, <1>2, <1>4, <2>1, <2>2, <2>3, <2>4 DEF l
<1>. QED
  BY <1>1, <1>5, <1>6, <1>7

\* A period that is over begins again: what leaves from now on is counted from
\* nothing, and what left in the old period is within its limit.
LEMMA Renewed ==
    ASSUME NEW c \in Config, c.spent <= c.limit, NEW p \in [Times -> Nat], Within(c, p),
           now \in Times
    PROVE  /\ Within(InPeriod(c), p) /\ InPeriod(c) \in Config
           /\ InPeriod(c).spent <= InPeriod(c).limit
           /\ InPeriod(c).active => now < InPeriod(c).start + InPeriod(c).period
<1>. DEFINE d == [c EXCEPT !.start = now, !.spent = 0]
            s == c.start
            n == c.period
            l == c.limit
<1>1. /\ s \in Nat /\ s <= MaxNow /\ n \in Nat /\ l \in Nat /\ MaxNow \in Nat
      /\ now \in Nat /\ now <= MaxNow
  BY AccountAssumption DEF Config, Times
<1>2. CASE c.active /\ now >= s + n
  <2>1. InPeriod(c) = d
    BY <1>2 DEF InPeriod
  <2>2. /\ d.active = c.active /\ d.limit = l /\ d.period = n /\ d.start = now /\ d.spent = 0
        /\ d \in Config
    BY <1>1 DEF Config
  <2>3. n > 0 /\ \A t \in Times : t >= s + n => p[t] = 0
    BY <1>2 DEF Within
  <2>4. SumOver(p, now..MaxNow) = 0
    <3>1. \A t \in now..MaxNow : t \in Times /\ t >= s + n
      BY <1>1, <1>2 DEF Times
    <3>2. \A t \in now..MaxNow : p[t] = 0
      BY <2>3, <3>1
    <3>3. IsFiniteSet(now..MaxNow)
      BY <1>1, SpanFinite
    <3>. QED
      BY <3>2, <3>3, SumZero
  <2>5. \A t \in Times : t >= now + n => p[t] = 0
    BY <1>1, <1>2, <2>3 DEF Times
  <2>6. ASSUME NEW t \in Times, t < now, now < t + n
        PROVE  SumOver(p, t..(now - 1)) <= l
    <3>1. t \in Nat /\ now - 1 \in Int /\ now - 1 <= MaxNow /\ s <= t
      BY <1>1, <1>2, <2>6 DEF Times
    <3>2. SumOver(p, t..(now - 1)) <= SumOver(p, s..MaxNow)
      BY <1>1, <3>1, SpanPart
    <3>3. SumOver(p, s..MaxNow) = c.spent
      BY <1>2, Zenon DEF Within
    <3>4. SumOver(p, t..(now - 1)) \in Nat
      BY <3>1, SpanFinite
    <3>5. c.spent \in Nat
      BY DEF Config
    <3>. QED
      BY <1>1, <3>2, <3>3, <3>4, <3>5
  <2>7. ASSUME NEW t \in Times, t + n <= now
        PROVE  SumOver(p, t..(t + n - 1)) <= 2 * l
    <3>. DEFINE w == t + n - 1
    <3>1. w \in Int /\ w <= MaxNow /\ w <= t + c.period - 1 /\ w = t + c.period - 1
      <4>1. t \in Nat
        BY DEF Times
      <4>. QED
        BY <1>1, <2>7, <4>1
    <3>. HIDE DEF w
    <3>2. SumOver(p, t..w) <= 2 * c.limit
      BY <1>2, <3>1, SpanBound
    <3>. QED
      BY <3>2 DEF w
  <2>8. Within(d, p)
    <3>. HIDE DEF d
    <3>1. now <= now
      BY <1>1
    <3>. QED
      BY <2>2, <2>3, <2>4, <2>5, <2>6, <2>7, <3>1 DEF Within
  <2>9. now < now + n /\ 0 <= l
    BY <1>1, <2>3
  <2>. QED
    BY <2>1, <2>2, <2>8, <2>9
<1>3. CASE ~(c.active /\ now >= s + n)
  <2>1. InPeriod(c) = c
    BY <1>3 DEF InPeriod
  <2>2. c.active => now < s + n
    BY <1>1, <1>3
  <2>. QED
    BY <2>1, <2>2
<1>. QED
  BY <1>2, <1>3

\* The hook before a call counts what is about to leave.
LEMMA Counted ==
    ASSUME NEW c \in Config, NEW p \in [Times -> Nat], Within(c, p), now \in Times,
           c.active => now < c.start + c.period, NEW v \in Nat,
           NEW d, d = IF c.active THEN [c EXCEPT !.spent = @ + v] ELSE c,
           NEW q, q = [p EXCEPT ![now] = @ + v]
    PROVE  Within(d, q)
<1>. SUFFICES ASSUME c.active PROVE Within(d, q)
  BY DEF Within
<1>. DEFINE s == c.start
            n == c.period
            l == c.limit
<1>1. /\ s \in Nat /\ s <= MaxNow /\ n \in Nat /\ l \in Nat /\ MaxNow \in Nat
      /\ now \in Nat /\ now <= MaxNow /\ s <= now /\ now < s + n /\ c.spent \in Nat /\ n > 0
  BY AccountAssumption DEF Config, Times, Within
<1>2. /\ d.active /\ d.limit = l /\ d.period = n /\ d.start = s /\ d.spent = c.spent + v
  BY DEF Config
<1>3. /\ q \in [Times -> Nat] /\ q[now] = p[now] + v /\ p[now] \in Nat
      /\ \A t \in Times : t # now => q[t] = p[t]
  OBVIOUS
<1>4. SumOver(q, s..MaxNow) = c.spent + v
  <2>1. IsFiniteSet(s..MaxNow) /\ s..MaxNow \in SUBSET Times /\ now \in s..MaxNow
    BY <1>1, SpanFinite
  <2>2. \A t \in s..MaxNow : p[t] \in Nat /\ q[t] \in Nat
    BY <1>3, <2>1
  <2>3. \A t \in (s..MaxNow) \ {now} : p[t] = q[t]
    BY <1>3, <2>1
  <2>4. SumOver(q, s..MaxNow) = SumOver(p, s..MaxNow) - p[now] + q[now]
    <3>. DEFINE span == s..MaxNow
    <3>. HIDE DEF span
    <3>1. /\ IsFiniteSet(span) /\ now \in span
          /\ \A t \in span : p[t] \in Nat /\ q[t] \in Nat
          /\ \A t \in span \ {now} : p[t] = q[t]
      BY <2>1, <2>2, <2>3 DEF span
    <3>2. SumOver(q, span) = SumOver(p, span) - p[now] + q[now]
      BY ONLY <3>1, SumChange
    <3>. QED
      BY <3>2 DEF span
  <2>5. SumOver(p, s..MaxNow) = c.spent
    BY DEF Within
  <2>. QED
    BY <1>1, <1>3, <2>4, <2>5
<1>5. ASSUME NEW t \in Times, t >= s + n PROVE q[t] = 0
  <2>1. t # now
    BY <1>1, <1>5 DEF Times
  <2>2. p[t] = 0
    BY <1>5 DEF Within
  <2>. QED
    BY <1>3, <2>1, <2>2
<1>6. ASSUME NEW t \in Times, NEW w \in Int, w < s
      PROVE  SumOver(q, t..w) = SumOver(p, t..w)
  <2>1. t \in Nat /\ w <= MaxNow /\ \A x \in t..w : x # now
    BY <1>1, <1>6 DEF Times
  <2>2. IsFiniteSet(t..w) /\ t..w \in SUBSET Times
    BY <2>1, SpanFinite
  <2>3. \A x \in t..w : q[x] = p[x]
    BY <1>3, <2>1, <2>2
  <2>. QED
    BY <2>2, <2>3, SumSame
<1>7. ASSUME NEW t \in Times, t < s, s < t + n
      PROVE  SumOver(q, t..(s - 1)) <= l
  <2>1. s - 1 \in Int /\ s - 1 < s
    BY <1>1
  <2>2. SumOver(p, t..(s - 1)) <= l
    BY <1>7 DEF Within
  <2>. QED
    BY <1>6, <2>1, <2>2
<1>8. ASSUME NEW t \in Times, t + n <= s
      PROVE  SumOver(q, t..(t + n - 1)) <= 2 * l
  <2>1. t + n - 1 \in Int /\ t + n - 1 < s
    BY <1>1, <1>8 DEF Times
  <2>2. SumOver(p, t..(t + n - 1)) <= 2 * l
    BY <1>8 DEF Within
  <2>. QED
    BY <1>6, <2>1, <2>2
<1>. HIDE DEF s, n, l
<1>. QED
  BY <1>1, <1>2, <1>4, <1>5, <1>7, <1>8 DEF Within

\* A new configuration begins with nothing.
LEMMA ConfiguredWithin ==
    ASSUME now \in Times, NEW l \in Limits, l.period > 0
    PROVE  Within(Configured(l), Nothing)
<1>. DEFINE c == Configured(l)
<1>1. /\ c.period = l.period /\ c.start = now /\ c.spent = 0 /\ c.limit = l.limit
      /\ l.limit \in Nat /\ l.period \in Nat /\ now \in Nat /\ now <= MaxNow /\ MaxNow \in Nat
  <2>1. l \in [limit : Nat, period : Nat]
    BY AccountAssumption
  <2>. QED
    BY <2>1, AccountAssumption DEF Configured, Times
<1>2. \A t \in Times : Nothing[t] = 0
  BY DEF Nothing
<1>3. ASSUME NEW t \in Times, NEW w \in Int, w <= MaxNow
      PROVE  SumOver(Nothing, t..w) = 0
  <2>1. t \in Nat
    BY DEF Times
  <2>2. IsFiniteSet(t..w) /\ t..w \in SUBSET Times
    BY <2>1, <1>3, SpanFinite
  <2>3. \A x \in t..w : Nothing[x] = 0
    BY <1>2, <2>2
  <2>. QED
    BY <2>2, <2>3, SumZero
<1>4. SumOver(Nothing, now..MaxNow) = 0
  <2>1. MaxNow \in Int /\ MaxNow <= MaxNow
    BY <1>1
  <2>. QED
    BY <1>3, <2>1
<1>5. ASSUME NEW t \in Times, t < now
      PROVE  SumOver(Nothing, t..(now - 1)) <= l.limit
  <2>1. now - 1 \in Int /\ now - 1 <= MaxNow
    BY <1>1
  <2>2. SumOver(Nothing, t..(now - 1)) = 0
    BY <1>3, <2>1
  <2>. QED
    BY <1>1, <2>2
<1>6. ASSUME NEW t \in Times, t + l.period <= now
      PROVE  SumOver(Nothing, t..(t + l.period - 1)) <= 2 * l.limit
  <2>1. t + l.period - 1 \in Int /\ t + l.period - 1 <= MaxNow
    BY <1>1, <1>6 DEF Times
  <2>2. SumOver(Nothing, t..(t + l.period - 1)) = 0
    BY <1>3, <2>1
  <2>. QED
    BY <1>1, <2>2
<1>7. now <= now
  BY <1>1
<1>. HIDE DEF c
<1>. QED
  BY <1>1, <1>2, <1>4, <1>5, <1>6, <1>7 DEF Within, c

-----------------------------------------------------------------------------
(* The calls, and what leaves                                               *)

\* After the hooks before a call, and after a transfer that they count.
LEMMA PreHookedMeters ==
    ASSUME Good(acc), Metered(acc), now \in Times, NEW v \in Nat
    PROVE  /\ Metered(PreHooked(0))
           /\ Transfer(PreHooked(v), v) => Metered(acc')
<1>1. /\ acc \in Storage /\ ToSet(acc.hooks) = acc.installed \cap Hooks
      /\ \A h \in Hooks : acc.limits[h].spent <= acc.limits[h].limit
  BY DEF Good, Lists, Sound
<1>2. /\ acc.limits \in [Hooks -> Config] /\ acc.paid \in [Hooks -> [Times -> Nat]]
  BY <1>1 DEF Storage
<1>. DEFINE more(h, x) == [acc.paid[h] EXCEPT ![now] = @ + x]
<1>3. ASSUME NEW h \in Hooks, NEW x \in Nat
      PROVE  Within(PreHook(h, x), more(h, x))
  <2>. DEFINE c == InPeriod(acc.limits[h])
              p == acc.paid[h]
              d == IF c.active THEN [c EXCEPT !.spent = @ + x] ELSE c
              q == [p EXCEPT ![now] = @ + x]
  <2>1. /\ acc.limits[h] \in Config /\ p \in [Times -> Nat] /\ Within(acc.limits[h], p)
        /\ acc.limits[h].spent <= acc.limits[h].limit
    BY <1>1, <1>2 DEF Metered
  <2>2. /\ Within(c, p) /\ c \in Config
        /\ c.active => now < c.start + c.period
    BY <2>1, Renewed
  <2>3. PreHook(h, x) = d
    BY DEF PreHook
  <2>. HIDE DEF c, p
  <2>4. Within(d, q)
    BY <2>1, <2>2, Counted
  <2>. QED
    BY <2>3, <2>4 DEF p
<1>4. ASSUME NEW h \in Hooks PROVE more(h, 0) = acc.paid[h]
  <2>1. acc.paid[h] \in [Times -> Nat]
    BY <1>2
  <2>2. acc.paid[h][now] + 0 = acc.paid[h][now]
    BY <2>1
  <2>. QED
    BY <2>1, <2>2
<1>. DEFINE limits(x) == [h \in Hooks |-> IF h \in ToSet(acc.hooks) THEN PreHook(h, x)
                                                                   ELSE acc.limits[h]]
<1>5. ASSUME NEW x
      PROVE  /\ PreHooked(x).limits = limits(x) /\ PreHooked(x).paid = acc.paid
             /\ PreHooked(x).installed = acc.installed
             /\ DOMAIN PreHooked(x) = DOMAIN acc
  <2>1. PreHooked(x) = [acc EXCEPT !.limits = limits(x)]
    BY DEF PreHooked
  <2>. HIDE DEF limits
  <2>. QED
    BY <1>1, <2>1 DEF Storage
<1>6. Metered(PreHooked(0))
  <2>. SUFFICES ASSUME NEW h \in Hooks
                PROVE  Within(limits(0)[h], acc.paid[h])
    BY <1>5 DEF Metered
  <2>1. Within(PreHook(h, 0), acc.paid[h])
    BY <1>3, <1>4
  <2>2. Within(acc.limits[h], acc.paid[h])
    BY DEF Metered
  <2>. QED
    BY <2>1, <2>2
<1>7. ASSUME Transfer(PreHooked(v), v) PROVE Metered(acc')
  <2>. DEFINE a == PreHooked(v)
              paid == [h \in Hooks |-> IF h \in acc.installed THEN more(h, v) ELSE acc.paid[h]]
  <2>1. acc' = [a EXCEPT !.paid = paid]
    BY <1>5, <1>7 DEF Transfer
  <2>2. "paid" \in DOMAIN a /\ "limits" \in DOMAIN a
    BY <1>1, <1>5 DEF Storage
  <2>3. a.limits = limits(v)
    BY <1>5
  <2>. HIDE DEF a, paid, limits
  <2>4. acc'.paid = paid /\ acc'.limits = limits(v)
    BY <2>1, <2>2, <2>3
  <2>. SUFFICES ASSUME NEW h \in Hooks
                PROVE  Within(limits(v)[h], paid[h])
    BY <2>4 DEF Metered
  <2>. USE DEF paid, limits
  <2>5. CASE h \in acc.installed
    BY <1>1, <1>3, <2>5
  <2>6. CASE h \notin acc.installed
    BY <1>1, <2>6 DEF Metered
  <2>. QED
    BY <2>5, <2>6
<1>. QED
  BY <1>6, <1>7

\* A configuration replaces counter and payments.
LEMMA ConfigureMeters ==
    ASSUME NEW a, a \in Storage, Metered(a), now \in Times, NEW h \in Hooks, NEW l \in Limits,
           ConfigureHook(a, h, l)
    PROVE  Metered(acc')
<1>. DEFINE limits == [a.limits EXCEPT ![h] = Configured(l)]
            paid == [a.paid EXCEPT ![h] = Nothing]
<1>1. acc' = [a EXCEPT !.limits = limits, !.paid = paid] /\ l.period > 0
  BY DEF ConfigureHook
<1>2. /\ \A i \in Hooks : i # h => limits[i] = a.limits[i] /\ paid[i] = a.paid[i]
      /\ limits[h] = Configured(l) /\ paid[h] = Nothing
  BY DEF Storage
<1>. HIDE DEF limits, paid
<1>3. acc'.limits = limits /\ acc'.paid = paid
  BY <1>1 DEF Storage
<1>4. Within(Configured(l), Nothing)
  BY <1>1, ConfiguredWithin
<1>. SUFFICES ASSUME NEW i \in Hooks PROVE Within(limits[i], paid[i])
  BY <1>3 DEF Metered
<1>. QED
  BY <1>2, <1>4 DEF Metered

\* Calls that are not about limits leave counters and payments as they are.
LEMMA OtherMeters ==
    ASSUME NEW a, a \in Storage, Metered(a),
           \/ \E o \in Owners : TransferOwnership(a, o)
           \/ \E k \in Keys, w \in Windows : CreateSession(a, k, w)
           \/ \E k \in Keys : RevokeSession(a, k)
           \/ \E v \in Vaults : ConfigureDuress(a, v)
           \/ LockVault(a)
    PROVE  Metered(acc')
<1>1. acc'.limits = a.limits /\ acc'.paid = a.paid
  <2>1. CASE \E o \in Owners : TransferOwnership(a, o)
    BY <2>1 DEF TransferOwnership, Storage
  <2>2. CASE \E k \in Keys, w \in Windows : CreateSession(a, k, w)
    BY <2>2 DEF CreateSession, Storage
  <2>3. CASE \E k \in Keys : RevokeSession(a, k)
    BY <2>3 DEF RevokeSession, Storage
  <2>4. CASE (\E v \in Vaults : ConfigureDuress(a, v)) \/ LockVault(a)
    BY <2>4 DEF ConfigureDuress, LockVault, Storage
  <2>. QED
    BY <2>1, <2>2, <2>3, <2>4
<1>. QED
  BY <1>1 DEF Metered

\* A module that comes is configured or keeps the configuration it has.
LEMMA InstallMeters ==
    ASSUME NEW a, Good(a), Metered(a), now \in Times, NEW m \in Modules, InstallModule(a, m)
    PROVE  Metered(acc')
<1>. DEFINE b == Listed(a, m)
<1>1. b \in Storage
  BY ListedGood DEF InstallModule, Good
<1>2. b.limits = a.limits /\ b.paid = a.paid
  BY DEF Listed, Good, Storage
<1>3. Metered(b)
  BY <1>2 DEF Metered
<1>4. \/ acc' = b
      \/ m \in Hooks /\ \E l \in Limits : ConfigureHook(b, m, l)
      \/ \E k \in Keys, w \in Windows : CreateSession(b, k, w)
      \/ \E v \in Vaults : ConfigureDuress(b, v)
  BY DEF InstallModule
<1>. HIDE DEF b
<1>5. CASE acc' = b
  BY <1>3, <1>5
<1>6. CASE m \in Hooks /\ \E l \in Limits : ConfigureHook(b, m, l)
  BY <1>1, <1>3, <1>6, ConfigureMeters
<1>7. CASE (\E k \in Keys, w \in Windows : CreateSession(b, k, w))
             \/ \E v \in Vaults : ConfigureDuress(b, v)
  BY <1>1, <1>3, <1>7, OtherMeters
<1>. QED
  BY <1>4, <1>5, <1>6, <1>7

\* A hook that goes is not active any more.
LEMMA UninstallMeters ==
    ASSUME NEW a, Good(a), Metered(a), NEW m \in Modules, UninstallModule(a, m)
    PROVE  Metered(acc')
<1>. DEFINE b == Unlisted(a, m)
<1>1. /\ b.limits = a.limits /\ b.paid = a.paid /\ DOMAIN b = DOMAIN a
      /\ a.limits \in [Hooks -> Config]
      /\ {"limits", "paid"} \subseteq DOMAIN a
  BY DEF Unlisted, Good, Storage
<1>2. acc' = OnUninstall(b, m)
  BY DEF UninstallModule
<1>. HIDE DEF b
<1>3. CASE m \in Hooks
  <2>. DEFINE limits == [b.limits EXCEPT ![m] = NoLimit]
  <2>1. acc' = [b EXCEPT !.limits = limits]
    BY <1>2, <1>3, AccountAssumption DEF OnUninstall
  <2>2. \A h \in Hooks : limits[h] = IF h = m THEN NoLimit ELSE a.limits[h]
    BY <1>1
  <2>. HIDE DEF limits
  <2>3. acc'.limits = limits /\ acc'.paid = a.paid
    BY <1>1, <2>1
  <2>4. ~NoLimit.active
    BY DEF NoLimit
  <2>. QED
    BY <2>2, <2>3, <2>4 DEF Metered, Within
<1>4. CASE m \notin Hooks
  <2>1. acc'.limits = a.limits /\ acc'.paid = a.paid
    <3>1. m = SessionKeys \/ m = Duress
      BY <1>4 DEF Modules
    <3>2. CASE m = SessionKeys
      BY <1>1, <1>2, <3>2, AccountAssumption DEF OnUninstall
    <3>3. CASE m = Duress
      BY <1>1, <1>2, <3>3, AccountAssumption DEF OnUninstall
    <3>. QED
      BY <3>1, <3>2, <3>3
  <2>. QED
    BY <2>1 DEF Metered
<1>. QED
  BY <1>3, <1>4

\* The account and what an operation that fails goes back to.
MeterInv == Metered(acc) /\ Metered(saved)

\* Every step keeps it.
LEMMA MeterStep == AccountInv /\ MeterInv /\ [Next]_vars => MeterInv'
<1>. SUFFICES ASSUME AccountInv, MeterInv, [Next]_vars
              PROVE  MeterInv'
  OBVIOUS
<1>. DEFINE Done == Metered(acc') /\ (saved' = saved \/ saved' = acc') /\ now' = now
<1>1. Good(acc) /\ now \in Times /\ acc \in Storage /\ Metered(acc) /\ Metered(saved)
  BY DEF AccountInv, Good, MeterInv
<1>2. ASSUME Done PROVE MeterInv'
  BY <1>1, <1>2 DEF MeterInv, Metered, Within
<1>3. ASSUME OwnerCalls,
             \/ \E m \in Modules : InstallModule(acc, m) \/ UninstallModule(acc, m)
             \/ \E o \in Owners : TransferOwnership(acc, o)
      PROVE  MeterInv'
  <2>1. Metered(acc')
    BY <1>1, <1>3, InstallMeters, UninstallMeters, OtherMeters
  <2>. QED
    BY <1>2, <1>3, <2>1 DEF OwnerCalls
<1>4. ASSUME NEW v \in Amounts, Transfer(PreHooked(v), v), ExecuteWithHooks(v)
      PROVE  MeterInv'
  <2>1. v \in Nat
    BY AccountAssumption
  <2>2. Metered(acc')
    BY <1>1, <1>4, <2>1, PreHookedMeters
  <2>. QED
    BY <1>2, <1>4, <2>2 DEF ExecuteWithHooks
<1>5. ASSUME ExecuteWithHooks(0),
             \/ \E m \in Modules : InstallModule(PreHooked(0), m) \/ UninstallModule(PreHooked(0), m)
             \/ \E o \in Owners : TransferOwnership(PreHooked(0), o)
             \/ \E h \in Hooks, l \in Limits : ConfigureHook(PreHooked(0), h, l)
             \/ \E k \in Keys, w \in Windows : CreateSession(PreHooked(0), k, w)
             \/ \E k \in Keys : RevokeSession(PreHooked(0), k)
             \/ (\E v \in Vaults : ConfigureDuress(PreHooked(0), v)) \/ LockVault(PreHooked(0))
      PROVE  MeterInv'
  <2>. DEFINE a == PreHooked(0)
  <2>1. Good(a) /\ Metered(a)
    BY <1>1, <1>5, PreHookGood, PreHookedMeters DEF ExecuteWithHooks
  <2>. HIDE DEF a
  <2>2. \/ \E m \in Modules : InstallModule(a, m) \/ UninstallModule(a, m)
        \/ \E o \in Owners : TransferOwnership(a, o)
        \/ \E h \in Hooks, l \in Limits : ConfigureHook(a, h, l)
        \/ \E k \in Keys, w \in Windows : CreateSession(a, k, w)
        \/ \E k \in Keys : RevokeSession(a, k)
        \/ (\E v \in Vaults : ConfigureDuress(a, v)) \/ LockVault(a)
    BY <1>5 DEF a
  <2>3. a \in Storage
    BY <2>1 DEF Good
  <2>4. CASE \E m \in Modules : InstallModule(a, m) \/ UninstallModule(a, m)
    <3>1. Metered(acc')
      BY <1>1, <2>1, <2>4, InstallMeters, UninstallMeters
    <3>. QED
      BY <1>2, <1>5, <3>1 DEF ExecuteWithHooks
  <2>5. CASE \E h \in Hooks, l \in Limits : ConfigureHook(a, h, l)
    <3>1. Metered(acc')
      BY <1>1, <2>1, <2>3, <2>5, ConfigureMeters
    <3>. QED
      BY <1>2, <1>5, <3>1 DEF ExecuteWithHooks
  <2>6. CASE \/ \E o \in Owners : TransferOwnership(a, o)
             \/ \E k \in Keys, w \in Windows : CreateSession(a, k, w)
             \/ \E k \in Keys : RevokeSession(a, k)
             \/ (\E v \in Vaults : ConfigureDuress(a, v)) \/ LockVault(a)
    <3>1. Metered(acc')
      BY <2>1, <2>3, <2>6, OtherMeters
    <3>. QED
      BY <1>2, <1>5, <3>1 DEF ExecuteWithHooks
  <2>. QED
    BY <2>2, <2>4, <2>5, <2>6
<1>6. CASE Begin \/ Finish \/ Revert
  <2>1. Metered(acc')
    BY <1>1, <1>6 DEF Begin, Finish, Revert
  <2>. QED
    BY <1>2, <1>6, <2>1 DEF Begin, Finish, Revert, NextOp
<1>7. CASE Tick
  <2>1. acc' = acc /\ saved' = saved /\ now' = now + 1 /\ now \in Nat
    BY <1>1, <1>7, AccountAssumption DEF Tick, Times
  <2>2. ASSUME NEW a \in {acc, saved} PROVE \A h \in Hooks : a.limits[h].start \in Nat
    <3>1. a \in Storage
      BY DEF AccountInv, Good
    <3>. QED
      BY <3>1 DEF Storage, Config, Times
  <2>3. \A h \in Hooks : /\ acc.limits[h].start <= now => acc.limits[h].start <= now + 1
                         /\ saved.limits[h].start <= now => saved.limits[h].start <= now + 1
    BY <2>1, <2>2
  <2>. QED
    BY <1>1, <2>1, <2>3 DEF MeterInv, Metered, Within
<1>8. CASE (\E who \in Owners \cup Keys : Validate(who)) \/ UNCHANGED vars
  <2>1. acc' = acc /\ saved' = saved /\ now' = now
    BY <1>8 DEF Validate, vars
  <2>. QED
    BY <1>1, <1>2, <2>1
<1>. QED
  BY <1>3, <1>4, <1>5, <1>6, <1>7, <1>8 DEF Next

\* Both hold throughout: at the start no hook has a limit.
LEMMA MeterInvariant == Spec => [](AccountInv /\ MeterInv)
<1>1. Init => MeterInv
  <2>1. Init => acc.limits = [h \in Hooks |-> NoLimit] /\ saved = acc
    BY DEF Init
  <2>2. ~NoLimit.active
    BY DEF NoLimit
  <2>. QED
    BY <2>1, <2>2 DEF MeterInv, Metered, Within
<1>. QED
  BY <1>1, AccountInit, AccountStep, MeterStep, PTL DEF Spec

-----------------------------------------------------------------------------
(* Theorems                                                                 *)

\* The lists of the account hold the installed modules of their type once, no
\* counter is past its limit, and every session is on the list.
THEOREM TypeCorrect == Spec => []TypeOK
<1>1. ASSUME AccountInv PROVE TypeOK
  <2>1. /\ acc \in Storage /\ Lists(acc) /\ Sound(acc) /\ now \in Times /\ calls \in 0..MaxCalls
        /\ op \in Owners \cup Keys \cup {Nobody} /\ bundle \in Seq(Owners \cup Keys)
    BY <1>1 DEF AccountInv, Good
  <2>2. /\ acc.owner \in Owners /\ acc.installed \subseteq Modules
        /\ acc.limits \in [Hooks -> Config] /\ acc.sessions \in [Keys -> Session]
        /\ acc.duress \in Vault
    BY <2>1 DEF Storage
  <2>. QED
    BY <2>1, <2>2 DEF TypeOK, Lists, Sound, Config, Session, Vault
<1>. QED
  BY <1>1, AccountInvariant, PTL

\* No operation, whoever signed it, gets past a hook by uninstalling it
\* (OmegaAccount._executeWithHooks).
THEOREM HooksStay == Spec => HooksLeaveByOwner
<1>1. ASSUME AccountInv, [Next]_vars
      PROVE  [ToSet(Committed.hooks) \subseteq ToSet(Committed'.hooks) \/ op = Nobody]_vars
  <2>. SUFFICES ASSUME Next, op # Nobody
                PROVE  ToSet(Committed.hooks) \subseteq ToSet(Committed'.hooks)
    BY <1>1
  <2>1. Committed = saved /\ ToSet(saved.hooks) \subseteq ToSet(acc.hooks)
    BY <1>1 DEF Committed, AccountInv
  <2>2. CASE HookedStep
    BY <1>1, <2>1, <2>2, HookedKeeps DEF Committed
  <2>3. CASE Finish
    BY <2>1, <2>3 DEF Finish, NextOp, Committed
  <2>4. CASE Revert
    BY <2>1, <2>4 DEF Revert, NextOp, Committed
  <2>. QED
    BY <1>1, <2>2, <2>3, <2>4, StepKinds DEF OwnerStep, OwnerCalls, Validate, Begin, Tick
<1>. QED
  BY <1>1, AccountInvariant, PTL DEF Spec, HooksLeaveByOwner

\* No session outlives the session module (SessionKeyModule.onUninstall).
THEOREM SessionsEnd == Spec => SessionsEndWithModule
<1>1. ASSUME AccountInv, [Next]_vars
      PROVE  [(SessionKeys \in acc.installed \ acc'.installed /\ acc' # saved)
                 => (\A k \in Keys : ~acc'.sessions[k].active)]_vars
  <2>. SUFFICES ASSUME Next, SessionKeys \in acc.installed \ acc'.installed, acc' # saved
                PROVE  \A k \in Keys : ~acc'.sessions[k].active
    BY <1>1
  <2>1. OwnerStep \/ HookedStep
    BY <1>1, StepKinds DEF Validate, Begin, Finish, Revert, Tick
  <2>. QED
    BY <1>1, <2>1, HookedKeeps DEF OwnerStep, CallEffect
<1>. QED
  BY <1>1, AccountInvariant, PTL DEF Spec, SessionsEndWithModule

\* No period, whenever it begins, sees more than twice the limit of an installed
\* hook leave, and the period of the hook no more than the limit
\* (SpendLimitHook.preExecute).
THEOREM PeriodsAreLimited == Spec => []SpentWithinPeriod
<1>1. ASSUME AccountInv, MeterInv PROVE SpentWithinPeriod
  <2>. SUFFICES ASSUME NEW h \in Hooks, acc.limits[h].active
                PROVE  /\ SumOver(acc.paid[h], acc.limits[h].start..MaxNow) <= acc.limits[h].limit
                       /\ \A t \in Times :
                            SumOver(acc.paid[h], t..Min({t + acc.limits[h].period - 1, MaxNow}))
                              <= 2 * acc.limits[h].limit
    BY DEF SpentWithinPeriod, SumOver
  <2>. DEFINE c == acc.limits[h]
              p == acc.paid[h]
  <2>1. c \in Config /\ c.spent <= c.limit /\ p \in [Times -> Nat] /\ Within(c, p)
    BY <1>1 DEF AccountInv, Good, Sound, Storage, MeterInv, Metered
  <2>2. SumOver(p, c.start..MaxNow) <= c.limit
    BY <2>1 DEF Within
  <2>. HIDE DEF c, p
  <2>3. ASSUME NEW t \in Times, c.active
        PROVE  SumOver(p, t..Min({t + c.period - 1, MaxNow})) <= 2 * c.limit
    <3>. DEFINE e == t + c.period - 1
    <3>1. e \in Int /\ MaxNow \in Int
      BY <2>1, AccountAssumption DEF Config, Times
    <3>. HIDE DEF e
    <3>2. PICK w \in {e, MaxNow} : w <= e /\ w <= MaxNow
      BY <3>1
    <3>3. Min({e, MaxNow}) = w
      BY <3>1, <3>2 DEF Min
    <3>4. w \in Int /\ w <= MaxNow /\ w <= t + c.period - 1 /\ (w = MaxNow \/ w = t + c.period - 1)
      BY <3>1, <3>2 DEF e
    <3>5. SumOver(p, t..w) <= 2 * c.limit
      BY <2>1, <2>3, <3>4, SpanBound
    <3>. QED
      BY <3>3, <3>5 DEF e
  <2>. QED
    BY <2>2, <2>3 DEF c, p
<1>. QED
  BY <1>1, MeterInvariant, PTL

-----------------------------------------------------------------------------
(* The intents                                                              *)

-----------------------------------------------------------------------------
(* The inductive invariant                                                  *)

Intent == [initiator : Initiators \cup {NoOne}, ethIn : BOOLEAN, inputAmount : Nat,
           ethOut : BOOLEAN, minOutputAmount : Nat, deadline : Nat]
Claim == [solver : Solvers \cup {NoOne}, bondAmount : Nat, claimedAt : Nat]

\* The types of what decides about the escrow.
EscrowType ==
    /\ timestamp \in Nat
    /\ intents \in [Ids -> Intent]
    /\ intentStatus \in [Ids -> Statuses]
    /\ solverClaims \in [Ids -> Claim]
    /\ escrowedETH \in [Ids -> Nat]
    /\ settling \in Seq(Ids)
    /\ DOMAIN outcome = Ids /\ outcome = [id \in Ids |-> outcome[id]]
    /\ \A id \in Ids :
         /\ outcome[id] = [to |-> outcome[id].to, paid |-> outcome[id].paid,
                           delivered |-> outcome[id].delivered]
         /\ outcome[id].paid \in Nat

\* The intents whose settlement is under way.
Underway == ToSet(settling)

\* An intent holds what was offered for it, or has paid it out, or neither if it
\* was not created or offers a token; and it has paid nothing while it is live.
EscrowOf(id) ==
    /\ intents[id].ethIn => escrowedETH[id] + outcome[id].paid = intents[id].inputAmount
    /\ escrowedETH[id] > 0 \/ Live(id) => outcome[id].paid = 0
    /\ intentStatus[id] = "NONE" => escrowedETH[id] = 0 /\ outcome[id].paid = 0

\* An intent that may be claimed, or was cancelled, has no claim; one that is
\* over has paid whom its status says.
OverOf(id) ==
    /\ intentStatus[id] \in {"NONE", "OPEN", "CANCELLED"} => solverClaims[id] = NoClaim
    /\ intentStatus[id] = "SETTLED" /\ outcome[id].paid > 0 =>
         \/ outcome[id].to = solverClaims[id].solver
         \/ solverClaims[id] = NoClaim /\ outcome[id].to = intents[id].initiator
    /\ intentStatus[id] \in {"CANCELLED", "EXPIRED"} /\ outcome[id].paid > 0 =>
         outcome[id].to = intents[id].initiator
    /\ intentStatus[id] # "SETTLED" /\ id \notin Underway => outcome[id].delivered = 0

\* Time stands still during a settlement: none of an intent that expires.
SettlingInv ==
    \A id \in Underway : /\ intentStatus[id] \notin {"NONE", "EXPIRED"}
                         /\ timestamp < intents[id].deadline

EscrowInv ==
    /\ EscrowType /\ SettlingInv
    /\ \A id \in Ids : EscrowOf(id) /\ OverOf(id)

-----------------------------------------------------------------------------
(* Steps                                                                    *)

\* One more settlement is under way.
LEMMA Pushed ==
    ASSUME NEW s \in Seq(Ids), NEW id \in Ids
    PROVE  <<id>> \o s \in Seq(Ids) /\ ToSet(<<id>> \o s) = ToSet(s) \cup {id}
<1>. DEFINE r == <<id>> \o s
<1>1. /\ r \in Seq(Ids) /\ Len(s) \in Nat /\ DOMAIN s = 1..Len(s) /\ DOMAIN r = 1..(Len(s) + 1)
      /\ r[1] = id
      /\ \A i \in 1..Len(s) : r[i + 1] = s[i]
  OBVIOUS
<1>. HIDE DEF r
<1>2. \A i \in 1..(Len(s) + 1) : i = 1 \/ (i - 1 \in 1..Len(s) /\ r[i] = s[i - 1])
  <2>. SUFFICES ASSUME NEW i \in 1..(Len(s) + 1), i # 1
                PROVE  i - 1 \in 1..Len(s) /\ r[i] = s[i - 1]
    OBVIOUS
  <2>1. i - 1 \in 1..Len(s) /\ (i - 1) + 1 = i
    BY <1>1
  <2>. QED
    BY <1>1, <2>1
<1>3. 1 \in 1..(Len(s) + 1) /\ \A i \in 1..Len(s) : i + 1 \in 1..(Len(s) + 1)
  BY <1>1
<1>. QED
  BY <1>1, <1>2, <1>3 DEF ToSet, r

\* The innermost settlement ends: it may be under way further out.
LEMMA Popped ==
    ASSUME NEW s \in Seq(Ids), s # <<>>
    PROVE  /\ Tail(s) \in Seq(Ids) /\ Head(s) \in ToSet(s) /\ ToSet(s) \subseteq Ids
           /\ ToSet(Tail(s)) \subseteq ToSet(s) /\ ToSet(s) \subseteq ToSet(Tail(s)) \cup {Head(s)}
<1>. DEFINE r == Tail(s)
<1>1. /\ r \in Seq(Ids) /\ Len(s) \in Nat \ {0} /\ DOMAIN s = 1..Len(s)
      /\ DOMAIN r = 1..(Len(s) - 1) /\ Head(s) = s[1]
      /\ \A i \in 1..(Len(s) - 1) : r[i] = s[i + 1]
      /\ \A i \in 1..Len(s) : s[i] \in Ids
  OBVIOUS
<1>. HIDE DEF r
<1>2. 1 \in 1..Len(s) /\ \A i \in 1..(Len(s) - 1) : i + 1 \in 1..Len(s)
  BY <1>1
<1>3. \A i \in 1..Len(s) : i = 1 \/ (i - 1 \in 1..(Len(s) - 1) /\ s[i] = r[i - 1])
  <2>. SUFFICES ASSUME NEW i \in 1..Len(s), i # 1
                PROVE  i - 1 \in 1..(Len(s) - 1) /\ s[i] = r[i - 1]
    OBVIOUS
  <2>1. i - 1 \in 1..(Len(s) - 1) /\ (i - 1) + 1 = i
    BY <1>1
  <2>. QED
    BY <1>1, <2>1
<1>. DEFINE h == Head(s)
<1>4. /\ \A i \in 1..Len(s) : s[i] \in ToSet(s)
      /\ \A i \in 1..(Len(s) - 1) : r[i] \in ToSet(r)
      /\ \A x \in ToSet(s) : \E i \in 1..Len(s) : x = s[i]
      /\ \A x \in ToSet(r) : \E i \in 1..(Len(s) - 1) : x = r[i]
      /\ h = s[1]
  BY <1>1 DEF ToSet
<1>. HIDE DEF h
<1>5. h \in ToSet(s)
  BY <1>2, <1>4, Zenon
<1>6. ToSet(s) \subseteq Ids
  BY <1>1, <1>4, Zenon
<1>7. ASSUME NEW x \in ToSet(r) PROVE x \in ToSet(s)
  <2>1. PICK i \in 1..(Len(s) - 1) : x = r[i]
    BY <1>4, Zenon
  <2>2. x = s[i + 1] /\ i + 1 \in 1..Len(s)
    BY <1>1, <1>2, <2>1, Zenon
  <2>. QED
    BY <1>4, <2>2, Zenon
<1>8. ASSUME NEW x \in ToSet(s), x # h PROVE x \in ToSet(r)
  <2>1. PICK i \in 1..Len(s) : x = s[i]
    BY <1>4, Zenon
  <2>2. i # 1
    BY <1>4, <1>8, <2>1, Zenon
  <2>3. i - 1 \in 1..(Len(s) - 1) /\ x = r[i - 1]
    BY <1>3, <2>1, <2>2, Zenon
  <2>. QED
    BY <1>4, <2>3, Zenon
<1>9. ToSet(r) \subseteq ToSet(s) /\ ToSet(s) \subseteq ToSet(r) \cup {h}
  BY <1>7, <1>8, Zenon
<1>10. r \in Seq(Ids)
  BY <1>1, Zenon
<1>. QED
  BY <1>5, <1>6, <1>9, <1>10, Zenon DEF r, h

\* The escrow of an intent that holds it goes to one address, whole; an intent
\* that has paid pays nothing more.
LEMMA PayEffect ==
    ASSUME EscrowInv, NEW id \in Ids, NEW to, PayEscrow(id, to), UNCHANGED intents
    PROVE  /\ escrowedETH' \in [Ids -> Nat]
           /\ DOMAIN outcome' = Ids /\ outcome' = [i \in Ids |-> outcome'[i]]
           /\ \A i \in Ids \ {id} : outcome'[i] = outcome[i] /\ escrowedETH'[i] = escrowedETH[i]
           /\ outcome'[id] = [to |-> outcome'[id].to, paid |-> outcome'[id].paid,
                              delivered |-> outcome'[id].delivered]
           /\ outcome'[id].delivered = outcome[id].delivered
           /\ outcome'[id].paid \in Nat /\ outcome'[id].to \in {to, outcome[id].to}
           /\ intents[id].ethIn => escrowedETH'[id] + outcome'[id].paid = intents[id].inputAmount
           /\ escrowedETH'[id] = 0
           /\ outcome'[id].paid > 0 =>
                \/ outcome[id].paid = 0 /\ outcome'[id].to = to
                \/ outcome[id].paid > 0 /\ outcome'[id].to = outcome[id].to
<1>1. /\ escrowedETH \in [Ids -> Nat] /\ DOMAIN outcome = Ids
      /\ outcome[id] = [to |-> outcome[id].to, paid |-> outcome[id].paid,
                        delivered |-> outcome[id].delivered]
      /\ outcome[id].paid \in Nat /\ escrowedETH[id] \in Nat
      /\ EscrowOf(id)
  BY DEF EscrowInv, EscrowType
<1>. DEFINE t == IF escrowedETH[id] > 0 THEN to ELSE outcome[id].to
            p == outcome[id].paid + escrowedETH[id]
<1>2. p \in Nat
  BY <1>1
<1>3. outcome' = [outcome EXCEPT ![id].to = t, ![id].paid = @ + escrowedETH[id]]
  BY DEF PayEscrow
<1>. HIDE DEF t
<1>4. /\ DOMAIN outcome' = Ids /\ outcome' = [i \in Ids |-> outcome'[i]]
      /\ \A i \in Ids \ {id} : outcome'[i] = outcome[i]
      /\ outcome'[id] = [to |-> t, paid |-> p, delivered |-> outcome[id].delivered]
  <2>1. /\ DOMAIN outcome' = Ids /\ outcome' = [i \in Ids |-> outcome'[i]]
        /\ \A i \in Ids \ {id} : outcome'[i] = outcome[i]
    BY <1>1, <1>3
  <2>2. DOMAIN outcome[id] = {"to", "paid", "delivered"}
    BY <1>1
  <2>3. outcome'[id] = [outcome[id] EXCEPT !.to = t, !.paid = p]
    BY <1>1, <1>3, <2>2
  <2>. QED
    BY <2>1, <2>2, <2>3
<1>5. /\ escrowedETH' \in [Ids -> Nat] /\ escrowedETH'[id] = 0
      /\ \A i \in Ids \ {id} : escrowedETH'[i] = escrowedETH[i]
  BY <1>1 DEF PayEscrow
<1>6. /\ outcome'[id].to = t /\ outcome'[id].paid = p
      /\ outcome'[id].delivered = outcome[id].delivered
  BY <1>4 DEF t
<1>7. intents[id].ethIn => escrowedETH'[id] + outcome'[id].paid = intents[id].inputAmount
  BY <1>1, <1>5, <1>6 DEF EscrowOf
<1>8. /\ outcome'[id].paid > 0 =>
           \/ outcome[id].paid = 0 /\ outcome'[id].to = to
           \/ outcome[id].paid > 0 /\ outcome'[id].to = outcome[id].to
      /\ outcome'[id].to \in {to, outcome[id].to}
  BY <1>1, <1>6 DEF t, EscrowOf
<1>. QED
  BY <1>2, <1>4, <1>5, <1>6, <1>7, <1>8

\* Only one intent is created, from nothing.
LEMMA CreateStep ==
    ASSUME EscrowInv, NEW id \in Ids, NEW who \in Initiators, NEW ethIn \in BOOLEAN,
           NEW ethOut \in BOOLEAN, NEW amount \in Offered, NEW min \in Wanted,
           NEW deadline \in Deadlines, NEW value \in Values,
           CreateIntent(id, who, ethIn, amount, ethOut, min, deadline, value)
    PROVE  EscrowInv'
<1>. DEFINE int == [initiator |-> who, ethIn |-> ethIn, inputAmount |-> amount,
                    ethOut |-> ethOut, minOutputAmount |-> min, deadline |-> deadline]
<1>1. amount \in Nat /\ min \in Nat /\ deadline \in Nat
  BY IntentsAssumption
<1>2. int \in Intent /\ int.ethIn = ethIn /\ int.inputAmount = amount
  BY <1>1 DEF Intent
<1>. HIDE DEF int
<1>3. /\ intents' = [intents EXCEPT ![id] = int]
      /\ intentStatus' = [intentStatus EXCEPT ![id] = "OPEN"]
      /\ escrowedETH' = [escrowedETH EXCEPT ![id] = IF ethIn THEN amount ELSE 0]
      /\ intentStatus[id] = "NONE"
      /\ UNCHANGED <<timestamp, solverClaims, settling, outcome>>
  BY DEF CreateIntent, int
<1>4. /\ intents \in [Ids -> Intent] /\ intentStatus \in [Ids -> Statuses]
      /\ escrowedETH \in [Ids -> Nat] /\ settling \in Seq(Ids) /\ Underway' = Underway
  BY <1>3 DEF EscrowInv, EscrowType, Underway
<1>5. /\ intents'[id] = int /\ intentStatus'[id] = "OPEN"
      /\ escrowedETH'[id] = IF ethIn THEN amount ELSE 0
      /\ \A i \in Ids : i # id => /\ intents'[i] = intents[i] /\ escrowedETH'[i] = escrowedETH[i]
                                  /\ intentStatus'[i] = intentStatus[i]
  BY <1>3, <1>4
<1>6. EscrowType'
  <2>1. intents' \in [Ids -> Intent]
    BY <1>2, <1>3, <1>4
  <2>2. intentStatus' \in [Ids -> Statuses]
    BY <1>3, <1>4 DEF Statuses
  <2>3. escrowedETH' \in [Ids -> Nat]
    BY <1>1, <1>3, <1>4
  <2>. QED
    BY <1>3, <2>1, <2>2, <2>3 DEF EscrowInv, EscrowType
<1>7. SettlingInv'
  <2>1. Underway \subseteq Ids \ {id}
    BY <1>3, <1>4 DEF EscrowInv, SettlingInv, Underway, ToSet
  <2>. QED
    BY <1>3, <1>4, <1>5, <2>1 DEF EscrowInv, SettlingInv
<1>8. EscrowOf(id)' /\ OverOf(id)'
  <2>1. outcome[id].paid = 0 /\ EscrowOf(id) /\ OverOf(id)
    BY <1>3 DEF EscrowInv, EscrowOf
  <2>2. EscrowOf(id)'
    BY <1>1, <1>2, <1>3, <1>5, <2>1 DEF EscrowOf
  <2>3. OverOf(id)'
    BY <1>3, <1>4, <1>5, <2>1 DEF OverOf
  <2>. QED
    BY <2>2, <2>3
<1>9. ASSUME NEW i \in Ids, i # id
      PROVE  EscrowOf(i)' /\ OverOf(i)'
  BY <1>3, <1>4, <1>5, <1>9 DEF EscrowInv, EscrowOf, OverOf, Live
<1>10. \A i \in Ids : EscrowOf(i)' /\ OverOf(i)'
  BY <1>8, <1>9
<1>. QED
  BY <1>6, <1>7, <1>10 DEF EscrowInv

\* The escrow goes back: the intent was live, so that nothing was paid before,
\* and one that expires is not being settled.
LEMMA ReturnStep ==
    ASSUME EscrowInv, NEW id \in Ids, NEW over \in {"CANCELLED", "EXPIRED"},
           over = "CANCELLED" => intentStatus[id] = "OPEN",
           over = "EXPIRED" => Live(id) /\ timestamp >= intents[id].deadline,
           intentStatus' = [intentStatus EXCEPT ![id] = over],
           PayEscrow(id, intents[id].initiator),
           UNCHANGED <<timestamp, intents, solverClaims, settling>>
    PROVE  EscrowInv'
<1>1. /\ intentStatus \in [Ids -> Statuses] /\ settling \in Seq(Ids)
      /\ EscrowOf(id) /\ OverOf(id) /\ Live(id)
  BY DEF EscrowInv, EscrowType, Live
<1>2. /\ intentStatus' \in [Ids -> Statuses] /\ intentStatus'[id] = over
      /\ \A i \in Ids : i # id => intentStatus'[i] = intentStatus[i]
      /\ Underway' = Underway
  BY <1>1 DEF Statuses, Underway
<1>3. /\ escrowedETH' \in [Ids -> Nat]
      /\ DOMAIN outcome' = Ids /\ outcome' = [i \in Ids |-> outcome'[i]]
      /\ \A i \in Ids \ {id} : outcome'[i] = outcome[i] /\ escrowedETH'[i] = escrowedETH[i]
      /\ outcome'[id] = [to |-> outcome'[id].to, paid |-> outcome'[id].paid,
                         delivered |-> outcome'[id].delivered]
      /\ outcome'[id].delivered = outcome[id].delivered
      /\ outcome'[id].paid \in Nat
      /\ intents[id].ethIn => escrowedETH'[id] + outcome'[id].paid = intents[id].inputAmount
      /\ escrowedETH'[id] = 0
      /\ outcome'[id].paid > 0 =>
           \/ outcome[id].paid = 0 /\ outcome'[id].to = intents[id].initiator
           \/ outcome[id].paid > 0 /\ outcome'[id].to = outcome[id].to
  BY PayEffect
<1>4. EscrowType'
  BY <1>2, <1>3 DEF EscrowInv, EscrowType
<1>5. SettlingInv'
  <2>1. over = "EXPIRED" => id \notin Underway
    <3>1. timestamp \in Nat /\ intents[id].deadline \in Nat
      BY DEF EscrowInv, EscrowType, Intent
    <3>. QED
      BY <3>1 DEF EscrowInv, SettlingInv
  <2>2. Underway \subseteq Ids
    BY <1>1 DEF Underway, ToSet
  <2>. QED
    BY <1>2, <2>1, <2>2 DEF EscrowInv, SettlingInv
<1>6. EscrowOf(id)'
  BY <1>2, <1>3 DEF EscrowOf, Live
<1>7. OverOf(id)'
  <2>1. outcome[id].paid = 0
    BY <1>1 DEF EscrowOf
  <2>. QED
    BY <1>1, <1>2, <1>3, <2>1 DEF OverOf, Live
<1>8. ASSUME NEW i \in Ids, i # id
      PROVE  EscrowOf(i)' /\ OverOf(i)'
  BY <1>2, <1>3, <1>8 DEF EscrowInv, EscrowOf, OverOf, Live
<1>9. \A i \in Ids : EscrowOf(i)' /\ OverOf(i)'
  BY <1>6, <1>7, <1>8
<1>. QED
  BY <1>4, <1>5, <1>9 DEF EscrowInv

\* A claim is made or slashed: the escrow stays.
LEMMA ClaimStep ==
    ASSUME EscrowInv, NEW id \in Ids,
           \/ \E who \in Solvers, value \in Values : ClaimIntent(id, who, value)
           \/ SlashSolver(id)
    PROVE  EscrowInv'
<1>1. /\ Live(id)
      /\ UNCHANGED <<timestamp, intents, escrowedETH, settling, outcome>>
  BY DEF ClaimIntent, SlashSolver, Live
<1>2. /\ intentStatus \in [Ids -> Statuses] /\ solverClaims \in [Ids -> Claim]
      /\ timestamp \in Nat /\ settling \in Seq(Ids) /\ Underway' = Underway
  BY <1>1 DEF EscrowInv, EscrowType, Underway
<1>3. PICK c \in Claim, st \in {"OPEN", "FILLED"} :
           /\ solverClaims' = [solverClaims EXCEPT ![id] = c]
           /\ intentStatus' = [intentStatus EXCEPT ![id] = st]
           /\ st = "OPEN" => c = NoClaim
  <2>1. CASE \E who \in Solvers, value \in Values : ClaimIntent(id, who, value)
    <3>1. PICK who \in Solvers, value \in Values : ClaimIntent(id, who, value)
      BY <2>1
    <3>2. [solver |-> who, bondAmount |-> value, claimedAt |-> timestamp] \in Claim
      BY <1>2, IntentsAssumption DEF Claim
    <3>. QED
      BY <3>1, <3>2 DEF ClaimIntent
  <2>2. CASE SlashSolver(id)
    <3>1. NoClaim \in Claim
      BY DEF NoClaim, Claim
    <3>. QED
      BY <2>2, <3>1 DEF SlashSolver
  <2>. QED
    BY <2>1, <2>2
<1>4. /\ solverClaims' \in [Ids -> Claim] /\ intentStatus' \in [Ids -> Statuses]
      /\ solverClaims'[id] = c /\ intentStatus'[id] = st
      /\ \A i \in Ids : i # id => /\ solverClaims'[i] = solverClaims[i]
                                  /\ intentStatus'[i] = intentStatus[i]
  BY <1>2, <1>3 DEF Statuses
<1>5. EscrowType'
  BY <1>1, <1>4 DEF EscrowInv, EscrowType
<1>6. SettlingInv'
  <2>1. Underway \subseteq Ids
    BY <1>2 DEF Underway, ToSet
  <2>. QED
    BY <1>1, <1>2, <1>4, <2>1 DEF EscrowInv, SettlingInv
<1>7. EscrowOf(id)' /\ OverOf(id)'
  <2>1. EscrowOf(id) /\ OverOf(id)
    BY DEF EscrowInv
  <2>. QED
    BY <1>1, <1>2, <1>3, <1>4, <2>1 DEF EscrowOf, OverOf, Live
<1>8. ASSUME NEW i \in Ids, i # id
      PROVE  EscrowOf(i)' /\ OverOf(i)'
  BY <1>1, <1>2, <1>4, <1>8 DEF EscrowInv, EscrowOf, OverOf, Live
<1>9. \A i \in Ids : EscrowOf(i)' /\ OverOf(i)'
  BY <1>7, <1>8
<1>. QED
  BY <1>5, <1>6, <1>9 DEF EscrowInv

\* Of the outcomes, only what was delivered changes.
LEMMA DeliverEffect ==
    ASSUME EscrowInv, NEW id \in Ids, NEW sent,
           outcome' = [outcome EXCEPT ![id].delivered = @ + sent]
    PROVE  /\ DOMAIN outcome' = Ids /\ outcome' = [i \in Ids |-> outcome'[i]]
           /\ \A i \in Ids \ {id} : outcome'[i] = outcome[i]
           /\ outcome'[id] = [to |-> outcome'[id].to, paid |-> outcome'[id].paid,
                              delivered |-> outcome'[id].delivered]
           /\ outcome'[id].to = outcome[id].to /\ outcome'[id].paid = outcome[id].paid
           /\ outcome'[id].delivered = outcome[id].delivered + sent
<1>1. /\ DOMAIN outcome = Ids
      /\ outcome[id] = [to |-> outcome[id].to, paid |-> outcome[id].paid,
                        delivered |-> outcome[id].delivered]
  BY DEF EscrowInv, EscrowType
<1>2. /\ DOMAIN outcome' = Ids /\ outcome' = [i \in Ids |-> outcome'[i]]
      /\ \A i \in Ids \ {id} : outcome'[i] = outcome[i]
  BY <1>1
<1>3. DOMAIN outcome[id] = {"to", "paid", "delivered"}
  BY <1>1
<1>4. outcome'[id] = [outcome[id] EXCEPT !.delivered = @ + sent]
  BY <1>1, <1>3
<1>. QED
  BY <1>2, <1>3, <1>4

\* The recipients are paid: one more settlement is under way.
LEMMA DeliverStep ==
    ASSUME EscrowInv, NEW id \in Ids, NEW value \in Values, NEW transferred \in {0} \cup Wanted,
           SettleDeliver(id, value, transferred)
    PROVE  EscrowInv'
<1>1. /\ intentStatus[id] = "FILLED" /\ timestamp < intents[id].deadline
      /\ settling' = <<id>> \o settling
      /\ UNCHANGED <<timestamp, intents, intentStatus, solverClaims, escrowedETH>>
  BY DEF SettleDeliver
<1>2. settling' \in Seq(Ids) /\ Underway' = Underway \cup {id}
  BY <1>1, Pushed DEF EscrowInv, EscrowType, Underway
<1>3. PICK sent : outcome' = [outcome EXCEPT ![id].delivered = @ + sent]
  BY DEF SettleDeliver
<1>4. /\ DOMAIN outcome' = Ids /\ outcome' = [i \in Ids |-> outcome'[i]]
      /\ \A i \in Ids \ {id} : outcome'[i] = outcome[i]
      /\ outcome'[id] = [to |-> outcome'[id].to, paid |-> outcome'[id].paid,
                         delivered |-> outcome'[id].delivered]
      /\ outcome'[id].to = outcome[id].to /\ outcome'[id].paid = outcome[id].paid
  BY <1>3, DeliverEffect
<1>5. EscrowType'
  BY <1>1, <1>2, <1>4 DEF EscrowInv, EscrowType
<1>6. SettlingInv'
  BY <1>1, <1>2 DEF EscrowInv, SettlingInv
<1>7. EscrowOf(id)' /\ OverOf(id)'
  BY <1>1, <1>2, <1>4 DEF EscrowInv, EscrowOf, OverOf, Live
<1>8. ASSUME NEW i \in Ids, i # id
      PROVE  EscrowOf(i)' /\ OverOf(i)'
  BY <1>1, <1>2, <1>4, <1>8 DEF EscrowInv, EscrowOf, OverOf, Live
<1>9. \A i \in Ids : EscrowOf(i)' /\ OverOf(i)'
  BY <1>7, <1>8
<1>. QED
  BY <1>5, <1>6, <1>9 DEF EscrowInv

\* A settlement ends: the escrow, if it is still there, goes to the solver whose
\* claim stands by now, or to nobody.
LEMMA FinishStep ==
    ASSUME EscrowInv, SettleFinish
    PROVE  EscrowInv'
<1>1. settling \in Seq(Ids) /\ settling # <<>> /\ settling' = Tail(settling)
  BY DEF EscrowInv, EscrowType, SettleFinish
<1>2. /\ settling' \in Seq(Ids) /\ Head(settling) \in Underway /\ Underway \subseteq Ids
      /\ Underway' \subseteq Underway /\ Underway \subseteq Underway' \cup {Head(settling)}
  BY <1>1, Popped DEF Underway
<1>3. PICK id \in Ids : id = Head(settling)
  BY <1>2
<1>4. /\ intentStatus' = [intentStatus EXCEPT ![id] = "SETTLED"]
      /\ PayEscrow(id, solverClaims[id].solver)
      /\ UNCHANGED <<timestamp, intents, solverClaims>>
  BY <1>3 DEF SettleFinish
<1>5. /\ intentStatus \in [Ids -> Statuses] /\ EscrowOf(id) /\ OverOf(id)
      /\ intentStatus[id] \notin {"NONE", "EXPIRED"}
  BY <1>2, <1>3 DEF EscrowInv, EscrowType, SettlingInv
<1>6. /\ intentStatus' \in [Ids -> Statuses] /\ intentStatus'[id] = "SETTLED"
      /\ \A i \in Ids : i # id => intentStatus'[i] = intentStatus[i]
  BY <1>4, <1>5 DEF Statuses
<1>7. /\ escrowedETH' \in [Ids -> Nat]
      /\ DOMAIN outcome' = Ids /\ outcome' = [i \in Ids |-> outcome'[i]]
      /\ \A i \in Ids \ {id} : outcome'[i] = outcome[i] /\ escrowedETH'[i] = escrowedETH[i]
      /\ outcome'[id] = [to |-> outcome'[id].to, paid |-> outcome'[id].paid,
                         delivered |-> outcome'[id].delivered]
      /\ outcome'[id].delivered = outcome[id].delivered
      /\ outcome'[id].paid \in Nat
      /\ intents[id].ethIn => escrowedETH'[id] + outcome'[id].paid = intents[id].inputAmount
      /\ escrowedETH'[id] = 0
      /\ outcome'[id].paid > 0 =>
           \/ outcome[id].paid = 0 /\ outcome'[id].to = solverClaims[id].solver
           \/ outcome[id].paid > 0 /\ outcome'[id].to = outcome[id].to
  BY <1>4, PayEffect
<1>8. EscrowType'
  BY <1>2, <1>4, <1>6, <1>7 DEF EscrowInv, EscrowType
<1>9. SettlingInv'
  BY <1>2, <1>4, <1>6 DEF EscrowInv, SettlingInv
<1>10. EscrowOf(id)'
  BY <1>4, <1>6, <1>7 DEF EscrowOf, Live
<1>11. OverOf(id)'
  <2>1. outcome[id].paid > 0 =>
          \/ outcome[id].to = solverClaims[id].solver
          \/ solverClaims[id] = NoClaim /\ outcome[id].to = intents[id].initiator
    <3>1. outcome[id].paid > 0 => intentStatus[id] \in {"SETTLED", "CANCELLED"}
      BY <1>5 DEF EscrowOf, Live, Statuses
    <3>. QED
      BY <1>5, <3>1 DEF OverOf
  <2>. QED
    BY <1>4, <1>6, <1>7, <2>1 DEF OverOf
<1>12. ASSUME NEW i \in Ids, i # id
       PROVE  EscrowOf(i)' /\ OverOf(i)'
  <2>1. i \in Underway' <=> i \in Underway
    BY <1>2, <1>3, <1>12
  <2>. QED
    BY <1>4, <1>6, <1>7, <1>12, <2>1 DEF EscrowInv, EscrowOf, OverOf, Live
<1>13. \A i \in Ids : EscrowOf(i)' /\ OverOf(i)'
  BY <1>10, <1>11, <1>12
<1>. QED
  BY <1>8, <1>9, <1>13 DEF EscrowInv

-----------------------------------------------------------------------------
(* The invariant and the theorems                                           *)

\* There are no intents at the start.
LEMMA EscrowInit == IntentsInit => EscrowInv
<1>. SUFFICES ASSUME IntentsInit PROVE EscrowInv
  OBVIOUS
<1>1. EscrowType
  BY DEF IntentsInit, EscrowType, NoIntent, NoClaim, NoOutcome, Intent, Claim, Statuses
<1>2. SettlingInv
  BY DEF IntentsInit, SettlingInv, Underway, ToSet
<1>3. \A id \in Ids : EscrowOf(id) /\ OverOf(id)
  BY DEF IntentsInit, EscrowOf, OverOf, Live, NoIntent, NoOutcome
<1>. QED
  BY <1>1, <1>2, <1>3 DEF EscrowInv

\* Every step keeps the invariant.
LEMMA EscrowStep == EscrowInv /\ [IntentsNext]_intentsVars => EscrowInv'
<1>. SUFFICES ASSUME EscrowInv, [IntentsNext]_intentsVars
              PROVE  EscrowInv'
  OBVIOUS
<1>1. ASSUME NEW id \in Ids, NEW who \in Initiators, NEW ethIn \in BOOLEAN,
             NEW ethOut \in BOOLEAN, NEW amount \in Offered, NEW min \in Wanted,
             NEW deadline \in Deadlines, NEW value \in Values,
             CreateIntent(id, who, ethIn, amount, ethOut, min, deadline, value)
      PROVE  EscrowInv'
  BY <1>1, CreateStep
<1>2. ASSUME NEW id \in Ids, CancelIntent(id) \/ ReclaimExpired(id)
      PROVE  EscrowInv'
  BY <1>2, ReturnStep DEF CancelIntent, ReclaimExpired
<1>3. ASSUME NEW id \in Ids, SlashSolver(id) \/ \E who \in Solvers, value \in Values :
                 ClaimIntent(id, who, value)
      PROVE  EscrowInv'
  BY <1>3, ClaimStep
<1>4. ASSUME NEW id \in Ids, NEW value \in Values, NEW transferred \in {0} \cup Wanted,
             SettleDeliver(id, value, transferred)
      PROVE  EscrowInv'
  BY <1>4, DeliverStep
<1>5. CASE SettleFinish
  BY <1>5, FinishStep
<1>6. CASE NextBlock
  <2>1. /\ UNCHANGED <<intents, intentStatus, solverClaims, escrowedETH, settling, outcome>>
        /\ timestamp' \in Nat /\ settling = <<>>
    BY <1>6 DEF NextBlock, EscrowInv, EscrowType
  <2>2. Underway = {} /\ Underway' = {}
    BY <2>1 DEF Underway, ToSet
  <2>. QED
    BY <2>1, <2>2 DEF EscrowInv, EscrowType, SettlingInv, EscrowOf, OverOf, Live
<1>7. CASE UNCHANGED intentsVars
  BY <1>7 DEF intentsVars, EscrowInv, EscrowType, SettlingInv, EscrowOf, OverOf, Live, Underway
<1>. QED
  BY <1>1, <1>2, <1>3, <1>4, <1>5, <1>6, <1>7 DEF IntentsNext

\* The invariant holds throughout.
LEMMA EscrowInvariant == IntentsSpec => []EscrowInv
BY EscrowInit, EscrowStep, PTL DEF IntentsSpec

\* Whatever recipients call while they are paid, the escrow of an intent leaves
\* the module once, whole, and not before the intent is over (IntentModule.sol).
THEOREM EscrowLeavesOnce == IntentsSpec => []EscrowPaidOnce
<1>1. EscrowInv => EscrowPaidOnce
  BY DEF EscrowInv, EscrowOf, EscrowPaidOnce
<1>. QED
  BY <1>1, EscrowInvariant, PTL

-----------------------------------------------------------------------------
(* What the recipients get                                                  *)

\* Division rounds down, by less than one.
LEMMA RoundedDown ==
    ASSUME NEW n \in Nat, NEW d \in Nat \ {0}
    PROVE  n \div d \in Nat /\ d * (n \div d) <= n /\ n + 1 <= d * ((n \div d) + 1)
<1>1. n \div d \in Int /\ n = d * (n \div d) + (n % d) /\ n % d \in 0..(d - 1)
  OBVIOUS
<1>. DEFINE q == n \div d
<1>2. q >= 0
  <2>. SUFFICES ASSUME q <= -1 PROVE FALSE
    BY <1>1
  <2>. HIDE DEF q
  <2>1. q \in Int /\ n = d * q + (n % d) /\ n % d \in 0..(d - 1)
    BY <1>1 DEF q
  <2>2. d * q <= d * (-1)
    BY <2>1
  <2>. QED
    BY <2>1, <2>2
<1>3. d * (q + 1) = d * q + d
  BY <1>1
<1>. QED
  BY <1>1, <1>2, <1>3

\* The part of a value that falls to each recipient.
Part(value) == [i \in 1..Len(Shares) |-> (value * Shares[i]) \div BpsDenominator]

\* Division rounds down: a recipient gets its part of the value, less than one
\* wei short of it.
LEMMA PartOf ==
    ASSUME NEW value \in Nat, NEW i \in 1..Len(Shares)
    PROVE  /\ Part(value)[i] \in Nat /\ Shares[i] \in Nat
           /\ BpsDenominator * Part(value)[i] <= value * Shares[i]
           /\ value * Shares[i] + 1 <= BpsDenominator * (Part(value)[i] + 1)
<1>1. Shares[i] \in Nat /\ BpsDenominator \in Nat \ {0}
  BY IntentsAssumption
<1>2. value * Shares[i] \in Nat
  BY <1>1
<1>3. Part(value)[i] = (value * Shares[i]) \div BpsDenominator
  BY DEF Part
<1>. QED
  BY <1>1, <1>2, <1>3, RoundedDown

\* There are so many recipients.
LEMMA SharesFinite ==
    IsFiniteSet(1..Len(Shares)) /\ Cardinality(1..Len(Shares)) = Len(Shares)
<1>. DEFINE n == Len(Shares)
<1>1. n \in Nat
  BY IntentsAssumption
<1>. HIDE DEF n
<1>2. 1 \in Int /\ n \in Int
  BY <1>1
<1>3. IsFiniteSet(1..n) /\ Cardinality(1..n) = IF 1 > n THEN 0 ELSE n - 1 + 1
  BY ONLY <1>2, FS_Interval
<1>4. (IF 1 > n THEN 0 ELSE n - 1 + 1) = n
  BY <1>1
<1>. QED
  BY <1>3, <1>4 DEF n

\* Some of the recipients together lose less than one each.
LEMMA PartsOf ==
    ASSUME NEW value \in Nat, NEW S \in SUBSET (1..Len(Shares))
    PROVE  LET parts == SumOver(Part(value), S)
               whole == SumOver(Shares, S)
           IN  /\ parts \in Nat /\ whole \in Nat /\ Cardinality(S) \in Nat
               /\ BpsDenominator * parts <= value * whole
               /\ value * whole + Cardinality(S) <= BpsDenominator * (parts + Cardinality(S))
<1>. DEFINE D == BpsDenominator
            Bad(A) == ~ (/\ D * SumOver(Part(value), A) <= value * SumOver(Shares, A)
                         /\ value * SumOver(Shares, A) + Cardinality(A)
                              <= D * (SumOver(Part(value), A) + Cardinality(A)))
            T == {A \in SUBSET S : Bad(A)}
<1>1. IsFiniteSet(1..Len(Shares)) /\ IsFiniteSet(S)
  <2>. QED
    BY SharesFinite, FS_Subset
<1>2. \A A \in SUBSET S : /\ IsFiniteSet(A) /\ Cardinality(A) \in Nat
                          /\ SumOver(Part(value), A) \in Nat /\ SumOver(Shares, A) \in Nat
  <2>. SUFFICES ASSUME NEW A \in SUBSET S
                PROVE  /\ IsFiniteSet(A) /\ Cardinality(A) \in Nat
                       /\ SumOver(Part(value), A) \in Nat /\ SumOver(Shares, A) \in Nat
    OBVIOUS
  <2>1. IsFiniteSet(A)
    BY <1>1, FS_Subset
  <2>2. \A i \in A : Part(value)[i] \in Nat /\ Shares[i] \in Nat
    BY PartOf
  <2>. QED
    BY <2>1, <2>2, SumNat, FS_CardinalityType
<1>3. T = {}
  <2>. SUFFICES ASSUME T # {} PROVE FALSE
    OBVIOUS
  <2>0. T \subseteq SUBSET S
    OBVIOUS
  <2>. HIDE DEF T
  <2>1. PICK A \in T : \A B \in SUBSET A : B # A => B \notin T
    BY <1>1, <2>0, SmallestSubset
  <2>. USE DEF T
  <2>2. A # {}
    <3>1. /\ SumOver(Part(value), {}) = 0 /\ SumOver(Shares, {}) = 0
          /\ Cardinality({}) = 0
      BY SumEmpty, FS_EmptySet
    <3>2. D * 0 = 0 /\ value * 0 = 0 /\ D * (0 + 0) = 0
      BY IntentsAssumption
    <3>3. ~ Bad({})
      BY <3>1, <3>2
    <3>. QED
      BY <2>1, <3>3
  <2>. DEFINE p == Pick(A)
              R == A \ {p}
              q == Part(value)[p]
              s == Shares[p]
              parts == SumOver(Part(value), R)
              whole == SumOver(Shares, R)
              n == Cardinality(R)
  <2>3. p \in A /\ R \in SUBSET S /\ R \notin T /\ A \in SUBSET S
    BY <2>1, <2>2, PickIn
  <2>4. /\ SumOver(Part(value), A) = q + parts /\ SumOver(Shares, A) = s + whole
        /\ Cardinality(A) = n + 1
    <3>1. IsFiniteSet(A) /\ n \in Nat /\ Cardinality(A) \in Nat
      BY <1>2, <2>3
    <3>2. n = Cardinality(A) - 1
      BY <2>3, <3>1, FS_RemoveElement
    <3>. QED
      BY <2>2, <3>1, <3>2, SumPick
  <2>5. /\ q \in Nat /\ s \in Nat /\ D * q <= value * s /\ value * s + 1 <= D * (q + 1)
    BY <2>3, PartOf
  <2>6. /\ parts \in Nat /\ whole \in Nat /\ n \in Nat
        /\ D * parts <= value * whole /\ value * whole + n <= D * (parts + n)
    BY <1>2, <2>3
  <2>7. D \in Nat
    BY IntentsAssumption
  <2>8. Bad(A)
    BY <2>1
  <2>9. ~ (/\ D * (q + parts) <= value * (s + whole)
           /\ value * (s + whole) + (n + 1) <= D * ((q + parts) + (n + 1)))
    BY <2>4, <2>8
  <2>. HIDE DEF p, R, q, s, parts, whole, n, D
  <2>10. /\ D * (q + parts) = D * q + D * parts /\ value * (s + whole) = value * s + value * whole
         /\ D * ((q + parts) + (n + 1)) = D * (q + 1) + D * (parts + n)
    BY <2>5, <2>6, <2>7
  <2>. QED
    BY <2>5, <2>6, <2>7, <2>9, <2>10
<1>. QED
  BY <1>2, <1>3

\* The recipients get no more than the value, and lose less than one each of it.
LEMMA DeliveredBounds ==
    ASSUME NEW value \in Nat
    PROVE  /\ Delivered(value) \in Nat /\ Delivered(value) <= value
           /\ Delivered(value) + Len(Shares) > value
<1>. DEFINE S == 1..Len(Shares)
            share(i) == (value * Shares[i]) \div BpsDenominator
            F(e) == e = [A \in SUBSET S |->
                           IF A = {} THEN 0
                           ELSE share(CHOOSE i \in A : TRUE) + e[A \ {CHOOSE i \in A : TRUE}]]
            D == BpsDenominator
            d == SumOver(Part(value), S)
            n == Len(Shares)
<1>1. Delivered(value) = (CHOOSE e : F(e))[S]
  BY DEF Delivered, MapThenSumSet, MapThenFoldSet
<1>2. \A A \in SUBSET S : A # {} => share(Pick(A)) = Part(value)[Pick(A)]
  BY PickIn DEF Part
<1>3. \A e : F(e) <=> Sums(e, Part(value), S)
  BY <1>2 DEF Sums, Pick
<1>4. (CHOOSE e : F(e)) = (CHOOSE e : Sums(e, Part(value), S))
  BY <1>3
<1>5. Delivered(value) = d
  BY <1>1, <1>4, SumUnfolds
<1>6. SumOver(Shares, S) = D /\ D \in Nat \ {0} /\ n \in Nat
  BY IntentsAssumption DEF SumOver
<1>7. IsFiniteSet(S) /\ Cardinality(S) = n
  BY SharesFinite
<1>8. d \in Nat /\ D * d <= value * D /\ value * D + n <= D * (d + n)
  BY <1>6, <1>7, PartsOf
<1>9. n > 0
  <2>1. S = {} => SumOver(Shares, S) = 0
    BY SumEmpty
  <2>. QED
    BY <1>6, <2>1
<1>. HIDE DEF D, d, n
<1>10. d <= value
  <2>. SUFFICES ASSUME d >= value + 1 PROVE FALSE
    BY <1>8
  <2>1. D * d >= D * (value + 1)
    BY <1>6, <1>8
  <2>2. D * (value + 1) = value * D + D
    BY <1>6
  <2>. QED
    BY <1>6, <1>8, <2>1, <2>2
<1>11. d + n > value
  <2>. SUFFICES ASSUME d + n <= value PROVE FALSE
    BY <1>6, <1>8
  <2>1. D * (d + n) <= D * value
    BY <1>6, <1>8
  <2>. QED
    BY <1>6, <1>8, <1>9, <2>1
<1>. QED
  BY <1>5, <1>8, <1>10, <1>11 DEF n

-----------------------------------------------------------------------------
(* What the module holds                                                    *)

\* What is to be paid out for an intent: its escrow and the bond of a claim that
\* stands.
Due == [id \in Ids |-> escrowedETH[id] +
                       IF intentStatus[id] = "FILLED" THEN solverClaims[id].bondAmount ELSE 0]

\* The types of the rest.
MoneyType ==
    /\ slashedBonds \in Nat /\ balance \in Nat /\ paidAgain \in Nat
    /\ claims \in [Ids -> Nat]
    /\ \A id \in Ids : /\ outcome[id].to \in Initiators \cup Solvers \cup {NoOne}
                       /\ outcome[id].delivered \in Nat

\* Where the output is ETH, an intent that is settled, or whose recipients have
\* been paid, has had it.
AgreedOf(id) ==
    intents[id].ethOut /\ (id \in Underway \/ intentStatus[id] = "SETTLED")
        => outcome[id].delivered + Len(Shares) > intents[id].minOutputAmount

\* The module can pay all of it, but for bonds it paid a second time.
Covered == balance + paidAgain >= SumOver(Due, Ids) + slashedBonds

MoneyInv == MoneyType /\ (\A id \in Ids : AgreedOf(id)) /\ Covered

\* What is due is a number of wei.
LEMMA DueIsNat ==
    ASSUME EscrowInv
    PROVE  (\A id \in Ids : Due[id] \in Nat) /\ SumOver(Due, Ids) \in Nat
<1>1. \A id \in Ids : Due[id] \in Nat
  BY DEF EscrowInv, EscrowType, Due, Claim
<1>. QED
  BY <1>1, SumNat, IntentsAssumption

\* Where only one intent changes, the sum changes by what is due for it.
LEMMA DueChange ==
    ASSUME EscrowInv, EscrowInv', NEW id \in Ids,
           \A i \in Ids \ {id} : /\ escrowedETH'[i] = escrowedETH[i]
                                 /\ intentStatus'[i] = intentStatus[i]
                                 /\ solverClaims'[i] = solverClaims[i]
    PROVE  /\ SumOver(Due, Ids)' = SumOver(Due, Ids) - Due[id] + Due'[id]
           /\ SumOver(Due, Ids) \in Nat /\ SumOver(Due, Ids)' \in Nat
           /\ Due[id] \in Nat /\ Due'[id] \in Nat
<1>1. /\ \A i \in Ids : Due[i] \in Nat
      /\ SumOver(Due, Ids) \in Nat
  BY DueIsNat
<1>2. \A i \in Ids : Due'[i] \in Nat
  <2>1. escrowedETH' \in [Ids -> Nat] /\ solverClaims' \in [Ids -> Claim]
    BY DEF EscrowInv, EscrowType
  <2>2. \A i \in Ids : escrowedETH'[i] \in Nat /\ solverClaims'[i].bondAmount \in Nat
    BY <2>1 DEF Claim
  <2>. QED
    BY <2>2 DEF Due
<1>3. SumOver(Due', Ids) \in Nat
  BY <1>2, SumNat, IntentsAssumption
<1>4. \A i \in Ids \ {id} : Due[i] = Due'[i]
  BY DEF Due
<1>5. SumOver(Due', Ids) = SumOver(Due, Ids) - Due[id] + Due'[id]
  <2>1. IsFiniteSet(Ids)
    BY IntentsAssumption
  <2>2. \A i \in Ids : Due[i] \in Nat /\ Due'[i] \in Nat
    BY <1>1, <1>2
  <2>. QED
    BY <1>4, <2>1, <2>2, SumChange
<1>. QED
  BY <1>1, <1>2, <1>3, <1>5

\* A new intent brings what it escrows.
LEMMA CreateMoney ==
    ASSUME EscrowInv, EscrowInv', MoneyInv,
           NEW id \in Ids, NEW who \in Initiators, NEW ethIn \in BOOLEAN,
           NEW ethOut \in BOOLEAN, NEW amount \in Offered, NEW min \in Wanted,
           NEW deadline \in Deadlines, NEW value \in Values,
           CreateIntent(id, who, ethIn, amount, ethOut, min, deadline, value)
    PROVE  MoneyInv'
<1>1. /\ intentStatus[id] = "NONE" /\ (ethIn => value >= amount)
      /\ intentStatus' = [intentStatus EXCEPT ![id] = "OPEN"]
      /\ escrowedETH' = [escrowedETH EXCEPT ![id] = IF ethIn THEN amount ELSE 0]
      /\ balance' = balance + value
      /\ \A i \in Ids \ {id} : intents'[i] = intents[i]
      /\ UNCHANGED <<solverClaims, slashedBonds, settling, claims, outcome, paidAgain>>
  BY DEF CreateIntent, EscrowInv, EscrowType
<1>2. /\ escrowedETH \in [Ids -> Nat] /\ intentStatus \in [Ids -> Statuses]
      /\ amount \in Nat /\ value \in Nat
  BY IntentsAssumption DEF EscrowInv, EscrowType
<1>3. /\ escrowedETH'[id] = (IF ethIn THEN amount ELSE 0) /\ intentStatus'[id] = "OPEN"
      /\ \A i \in Ids \ {id} : /\ escrowedETH'[i] = escrowedETH[i]
                               /\ intentStatus'[i] = intentStatus[i]
  BY <1>1, <1>2
<1>4. MoneyType'
  BY <1>1, <1>2 DEF MoneyInv, MoneyType
<1>5. ASSUME NEW i \in Ids PROVE AgreedOf(i)'
  <2>1. Underway' = Underway /\ id \notin Underway
    BY <1>1 DEF EscrowInv, SettlingInv, Underway
  <2>. QED
    BY <1>1, <1>3, <2>1 DEF MoneyInv, AgreedOf
<1>6. Covered'
  <2>1. Due[id] = escrowedETH[id] /\ Due'[id] = escrowedETH'[id]
    BY <1>1, <1>2, <1>3 DEF Due
  <2>2. escrowedETH[id] = 0
    BY <1>1 DEF EscrowInv, EscrowOf
  <2>3. /\ SumOver(Due, Ids)' = SumOver(Due, Ids) - Due[id] + Due'[id]
        /\ SumOver(Due, Ids) \in Nat /\ SumOver(Due, Ids)' \in Nat
    BY <1>1, <1>3, DueChange
  <2>4. Due'[id] <= value /\ Due'[id] \in Nat
    BY <1>1, <1>2, <1>3, <2>1
  <2>. QED
    BY <1>1, <1>2, <2>1, <2>2, <2>3, <2>4 DEF MoneyInv, MoneyType, Covered
<1>. QED
  BY <1>4, <1>5, <1>6 DEF MoneyInv

\* The escrow that goes back was due, and a bond that is slashed now was, too.
LEMMA ReturnMoney ==
    ASSUME EscrowInv, EscrowInv', MoneyInv, NEW id \in Ids,
           CancelIntent(id) \/ ReclaimExpired(id)
    PROVE  MoneyInv'
<1>1. PICK over \in {"CANCELLED", "EXPIRED"}, bond \in {0, solverClaims[id].bondAmount} :
        /\ Live(id)
        /\ intentStatus' = [intentStatus EXCEPT ![id] = over]
        /\ PayEscrow(id, intents[id].initiator)
        /\ balance' = balance - escrowedETH[id]
        /\ slashedBonds' = slashedBonds + bond
        /\ over = "CANCELLED" => intentStatus[id] = "OPEN"
        /\ UNCHANGED <<timestamp, intents, solverClaims, settling, claims, paidAgain>>
        /\ intentStatus[id] = "FILLED" => bond = solverClaims[id].bondAmount
  <2>1. CASE CancelIntent(id)
    <3>1. slashedBonds' = slashedBonds + 0
      BY <2>1 DEF CancelIntent, MoneyInv, MoneyType
    <3>. QED
      BY <2>1, <3>1 DEF CancelIntent, Live
  <2>2. CASE ReclaimExpired(id)
    BY <2>2 DEF ReclaimExpired
  <2>. QED
    BY <2>1, <2>2
<1>2. /\ escrowedETH \in [Ids -> Nat] /\ intentStatus \in [Ids -> Statuses]
      /\ solverClaims[id].bondAmount \in Nat /\ bond \in Nat
      /\ intents[id].initiator \in Initiators \cup {NoOne}
  <2>1. /\ escrowedETH \in [Ids -> Nat] /\ intentStatus \in [Ids -> Statuses]
        /\ solverClaims[id] \in Claim /\ intents[id] \in Intent
    BY DEF EscrowInv, EscrowType
  <2>. QED
    BY <2>1 DEF Claim, Intent
<1>3. /\ intentStatus'[id] = over
      /\ \A i \in Ids \ {id} : intentStatus'[i] = intentStatus[i]
  BY <1>1, <1>2
<1>4. /\ escrowedETH'[id] = 0 /\ outcome'[id].delivered = outcome[id].delivered
      /\ \A i \in Ids \ {id} : outcome'[i] = outcome[i] /\ escrowedETH'[i] = escrowedETH[i]
      /\ outcome'[id].to \in {intents[id].initiator, outcome[id].to}
  BY <1>1, PayEffect
<1>5. balance >= escrowedETH[id]
  BY <1>1 DEF PayEscrow
<1>6. MoneyType'
  BY <1>1, <1>2, <1>4, <1>5 DEF MoneyInv, MoneyType
<1>7. ASSUME NEW i \in Ids PROVE AgreedOf(i)'
  BY <1>1, <1>3, <1>4 DEF MoneyInv, AgreedOf, Underway
<1>8. Covered'
  <2>1. /\ Due[id] = escrowedETH[id] + IF intentStatus[id] = "FILLED"
                                       THEN solverClaims[id].bondAmount ELSE 0
        /\ Due'[id] = 0
    BY <1>3, <1>4 DEF Due
  <2>2. Due[id] >= escrowedETH[id] + bond
    <3>1. intentStatus[id] = "OPEN" => solverClaims[id].bondAmount = 0
      BY DEF EscrowInv, OverOf, NoClaim
    <3>. QED
      BY <1>1, <1>2, <2>1, <3>1 DEF Live
  <2>3. /\ SumOver(Due, Ids)' = SumOver(Due, Ids) - Due[id] + Due'[id]
        /\ SumOver(Due, Ids) \in Nat /\ SumOver(Due, Ids)' \in Nat /\ Due[id] \in Nat
    BY <1>1, <1>3, <1>4, DueChange
  <2>. QED
    BY <1>1, <1>2, <2>1, <2>2, <2>3 DEF MoneyInv, MoneyType, Covered
<1>. QED
  BY <1>6, <1>7, <1>8 DEF MoneyInv

\* A claim brings its bond.
LEMMA ClaimMoney ==
    ASSUME EscrowInv, EscrowInv', MoneyInv, NEW id \in Ids, NEW who \in Solvers,
           NEW value \in Values, ClaimIntent(id, who, value)
    PROVE  MoneyInv'
<1>1. /\ intentStatus[id] = "OPEN"
      /\ solverClaims' = [solverClaims EXCEPT ![id] =
             [solver |-> who, bondAmount |-> value, claimedAt |-> timestamp]]
      /\ intentStatus' = [intentStatus EXCEPT ![id] = "FILLED"]
      /\ balance' = balance + value
      /\ claims' = [claims EXCEPT ![id] = @ + 1]
      /\ UNCHANGED <<timestamp, intents, escrowedETH, slashedBonds, settling, outcome,
                     paidAgain>>
  BY DEF ClaimIntent
<1>2. /\ solverClaims \in [Ids -> Claim] /\ intentStatus \in [Ids -> Statuses]
      /\ escrowedETH[id] \in Nat /\ value \in Nat
  BY IntentsAssumption DEF EscrowInv, EscrowType
<1>3. /\ solverClaims'[id].bondAmount = value /\ intentStatus'[id] = "FILLED"
      /\ \A i \in Ids \ {id} : /\ solverClaims'[i] = solverClaims[i]
                               /\ intentStatus'[i] = intentStatus[i]
  BY <1>1, <1>2
<1>4. MoneyType'
  BY <1>1, <1>2 DEF MoneyInv, MoneyType
<1>5. ASSUME NEW i \in Ids PROVE AgreedOf(i)'
  BY <1>1, <1>3 DEF MoneyInv, AgreedOf, Underway
<1>6. Covered'
  <2>1. Due[id] = escrowedETH[id] /\ Due'[id] = escrowedETH[id] + value
    BY <1>1, <1>2, <1>3 DEF Due
  <2>2. /\ SumOver(Due, Ids)' = SumOver(Due, Ids) - Due[id] + Due'[id]
        /\ SumOver(Due, Ids) \in Nat /\ SumOver(Due, Ids)' \in Nat
    BY <1>1, <1>3, DueChange
  <2>. QED
    BY <1>1, <1>2, <2>1, <2>2 DEF MoneyInv, MoneyType, Covered
<1>. QED
  BY <1>4, <1>5, <1>6 DEF MoneyInv

\* A bond that is slashed is held for good instead.
LEMMA SlashMoney ==
    ASSUME EscrowInv, EscrowInv', MoneyInv, NEW id \in Ids, SlashSolver(id)
    PROVE  MoneyInv'
<1>1. /\ intentStatus[id] = "FILLED"
      /\ slashedBonds' = slashedBonds + solverClaims[id].bondAmount
      /\ intentStatus' = [intentStatus EXCEPT ![id] = "OPEN"]
      /\ solverClaims' = [solverClaims EXCEPT ![id] = NoClaim]
      /\ UNCHANGED <<timestamp, intents, escrowedETH, balance, settling, claims, outcome,
                     paidAgain>>
  BY DEF SlashSolver
<1>2. /\ solverClaims \in [Ids -> Claim] /\ intentStatus \in [Ids -> Statuses]
      /\ escrowedETH[id] \in Nat /\ solverClaims[id].bondAmount \in Nat
  BY DEF EscrowInv, EscrowType, Claim
<1>3. /\ solverClaims'[id].bondAmount = 0 /\ intentStatus'[id] = "OPEN"
      /\ \A i \in Ids \ {id} : /\ solverClaims'[i] = solverClaims[i]
                               /\ intentStatus'[i] = intentStatus[i]
  BY <1>1, <1>2 DEF NoClaim
<1>4. MoneyType'
  BY <1>1, <1>2 DEF MoneyInv, MoneyType
<1>5. ASSUME NEW i \in Ids PROVE AgreedOf(i)'
  BY <1>1, <1>3 DEF MoneyInv, AgreedOf, Underway
<1>6. Covered'
  <2>1. /\ Due[id] = escrowedETH[id] + solverClaims[id].bondAmount
        /\ Due'[id] = escrowedETH[id]
    BY <1>1, <1>2, <1>3 DEF Due
  <2>2. /\ SumOver(Due, Ids)' = SumOver(Due, Ids) - Due[id] + Due'[id]
        /\ SumOver(Due, Ids) \in Nat /\ SumOver(Due, Ids)' \in Nat
    BY <1>1, <1>3, DueChange
  <2>. QED
    BY <1>1, <1>2, <2>1, <2>2 DEF MoneyInv, MoneyType, Covered
<1>. QED
  BY <1>4, <1>5, <1>6 DEF MoneyInv

\* What the recipients get comes with the call, and is no more than came.
LEMMA DeliverMoney ==
    ASSUME EscrowInv, EscrowInv', MoneyInv, NEW id \in Ids, NEW value \in Values,
           NEW transferred \in {0} \cup Wanted, SettleDeliver(id, value, transferred)
    PROVE  MoneyInv'
<1>1. /\ intents[id].ethOut => value >= intents[id].minOutputAmount
      /\ settling' = <<id>> \o settling
      /\ UNCHANGED <<timestamp, intents, intentStatus, solverClaims, escrowedETH, slashedBonds,
                     claims, paidAgain>>
  BY DEF SettleDeliver, Sufficient
<1>2. /\ value \in Nat /\ intents[id].minOutputAmount \in Nat /\ settling \in Seq(Ids)
      /\ Len(Shares) \in Nat
  <2>1. intents[id] \in Intent /\ settling \in Seq(Ids)
    BY DEF EscrowInv, EscrowType
  <2>2. value \in Nat /\ Len(Shares) \in Nat
    BY IntentsAssumption
  <2>. QED
    BY <2>1, <2>2 DEF Intent
<1>3. PICK sent \in Nat, taken \in Nat :
        /\ outcome' = [outcome EXCEPT ![id].delivered = @ + sent]
        /\ balance' = balance + value - taken
        /\ taken <= value
        /\ intents[id].ethOut => sent + Len(Shares) > value
  <2>1. /\ Delivered(value) \in Nat /\ Delivered(value) <= value
        /\ Delivered(value) + Len(Shares) > value
    BY <1>2, DeliveredBounds
  <2>2. CASE intents[id].ethOut
    BY <2>1, <2>2 DEF SettleDeliver
  <2>3. CASE ~intents[id].ethOut
    <3>1. transferred \in Nat /\ 0 \in Nat /\ 0 <= value
      BY <1>2, IntentsAssumption
    <3>2. balance + value = balance + value - 0
      BY <1>2 DEF MoneyInv, MoneyType
    <3>. QED
      BY <2>3, <3>1, <3>2 DEF SettleDeliver
  <2>. QED
    BY <2>2, <2>3
<1>4. /\ \A i \in Ids \ {id} : outcome'[i] = outcome[i]
      /\ outcome'[id].to = outcome[id].to
      /\ outcome'[id].delivered = outcome[id].delivered + sent
  BY <1>3, DeliverEffect
<1>5. MoneyType'
  <2>1. balance + value - taken \in Nat
    BY <1>2, <1>3 DEF MoneyInv, MoneyType
  <2>2. outcome[id].delivered + sent \in Nat
    BY <1>3 DEF MoneyInv, MoneyType
  <2>. QED
    BY <1>1, <1>3, <1>4, <2>1, <2>2 DEF MoneyInv, MoneyType
<1>6. Underway' = Underway \cup {id}
  BY <1>1, <1>2, Pushed DEF Underway
<1>7. AgreedOf(id)'
  <2>1. outcome[id].delivered \in Nat
    BY DEF MoneyInv, MoneyType
  <2>2. intents[id].ethOut =>
            outcome'[id].delivered + Len(Shares) > intents[id].minOutputAmount
    <3>. DEFINE n == Len(Shares)
                before == outcome[id].delivered
                least == intents[id].minOutputAmount
    <3>1. n \in Nat /\ before \in Nat /\ least \in Nat
      BY <1>2, <2>1
    <3>2. intents[id].ethOut => value >= least /\ sent + n > value
      BY <1>1, <1>3
    <3>3. outcome'[id].delivered = before + sent
      BY <1>4
    <3>. HIDE DEF n, before, least
    <3>4. intents[id].ethOut => before + sent + n > least
      BY <1>2, <1>3, <3>1, <3>2
    <3>. QED
      BY <3>3, <3>4 DEF n, least
  <2>. QED
    BY <1>1, <2>2 DEF MoneyInv, AgreedOf
<1>8. ASSUME NEW i \in Ids, i # id PROVE AgreedOf(i)'
  BY <1>1, <1>4, <1>6, <1>8 DEF MoneyInv, AgreedOf
<1>9. Covered'
  <2>1. Due' = Due
    BY <1>1 DEF Due
  <2>2. SumOver(Due, Ids)' = SumOver(Due, Ids) /\ SumOver(Due, Ids) \in Nat
    BY <2>1, DueIsNat
  <2>. QED
    BY <1>1, <1>2, <1>3, <2>2 DEF MoneyInv, MoneyType, Covered
<1>. QED
  BY <1>5, <1>7, <1>8, <1>9 DEF MoneyInv

\* A settlement pays what was due for the intent, and the bond a second time if
\* it was settled before.
LEMMA FinishMoney ==
    ASSUME EscrowInv, EscrowInv', MoneyInv, SettleFinish
    PROVE  MoneyInv'
<1>1. settling \in Seq(Ids) /\ settling # <<>> /\ settling' = Tail(settling)
  BY DEF EscrowInv, EscrowType, SettleFinish
<1>2. /\ Head(settling) \in Underway /\ Underway \subseteq Ids /\ Underway' \subseteq Underway
  BY <1>1, Popped DEF Underway
<1>. DEFINE id == Head(settling)
<1>. DEFINE bond == solverClaims[id].bondAmount
<1>3. /\ balance >= bond + escrowedETH[id]
      /\ balance' = balance - (bond + escrowedETH[id])
      /\ intentStatus' = [intentStatus EXCEPT ![id] = "SETTLED"]
      /\ PayEscrow(id, solverClaims[id].solver)
      /\ paidAgain' = IF intentStatus[id] = "SETTLED" THEN paidAgain + bond ELSE paidAgain
      /\ UNCHANGED <<timestamp, intents, solverClaims, slashedBonds, claims>>
  BY DEF SettleFinish
<1>4. /\ id \in Ids /\ intentStatus[id] \notin {"NONE", "EXPIRED"}
      /\ intentStatus \in [Ids -> Statuses] /\ escrowedETH[id] \in Nat /\ bond \in Nat
      /\ solverClaims[id].solver \in Solvers \cup {NoOne}
  BY <1>2 DEF EscrowInv, EscrowType, Claim, SettlingInv
<1>. HIDE DEF id
<1>5. /\ intentStatus'[id] = "SETTLED"
      /\ \A i \in Ids \ {id} : intentStatus'[i] = intentStatus[i]
  BY <1>3, <1>4
<1>6. /\ escrowedETH'[id] = 0 /\ outcome'[id].delivered = outcome[id].delivered
      /\ \A i \in Ids \ {id} : outcome'[i] = outcome[i] /\ escrowedETH'[i] = escrowedETH[i]
      /\ outcome'[id].to \in {solverClaims[id].solver, outcome[id].to}
  BY <1>3, <1>4, PayEffect
<1>7. MoneyType'
  BY <1>3, <1>4, <1>6 DEF MoneyInv, MoneyType
<1>8. ASSUME NEW i \in Ids PROVE AgreedOf(i)'
  BY <1>2, <1>3, <1>5, <1>6, <1>8 DEF MoneyInv, AgreedOf, id
<1>9. Covered'
  <2>1. /\ Due[id] = escrowedETH[id] + IF intentStatus[id] = "FILLED" THEN bond ELSE 0
        /\ Due'[id] = 0
    BY <1>4, <1>5, <1>6 DEF Due
  <2>2. /\ SumOver(Due, Ids)' = SumOver(Due, Ids) - Due[id] + Due'[id]
        /\ SumOver(Due, Ids) \in Nat /\ SumOver(Due, Ids)' \in Nat
    BY <1>3, <1>4, <1>5, <1>6, DueChange
  <2>3. intentStatus[id] \notin {"FILLED", "SETTLED"} => bond = 0
    BY <1>4 DEF EscrowInv, OverOf, NoClaim, Statuses
  <2>. QED
    BY <1>3, <1>4, <2>1, <2>2, <2>3 DEF MoneyInv, MoneyType, Covered
<1>. QED
  BY <1>7, <1>8, <1>9 DEF MoneyInv

\* Nothing is paid or due at the start.
LEMMA MoneyInit == IntentsInit => MoneyInv
<1>. SUFFICES ASSUME IntentsInit PROVE MoneyInv
  OBVIOUS
<1>1. MoneyType
  BY DEF IntentsInit, MoneyType, NoOutcome
<1>2. \A id \in Ids : AgreedOf(id)
  BY DEF IntentsInit, AgreedOf, Underway, ToSet
<1>3. SumOver(Due, Ids) = 0
  <2>1. \A id \in Ids : Due[id] = 0
    BY DEF IntentsInit, Due
  <2>2. SumOver(Due, Ids) = 0
    BY <2>1, SumZero, IntentsAssumption
  <2>. QED
    BY <2>2
<1>. QED
  BY <1>1, <1>2, <1>3 DEF MoneyInv, Covered, IntentsInit

\* Every step keeps it.
LEMMA MoneyStep == EscrowInv /\ EscrowInv' /\ MoneyInv /\ [IntentsNext]_intentsVars => MoneyInv'
<1>. SUFFICES ASSUME EscrowInv, EscrowInv', MoneyInv, [IntentsNext]_intentsVars
              PROVE  MoneyInv'
  OBVIOUS
<1>1. ASSUME NEW id \in Ids, NEW who \in Initiators, NEW ethIn \in BOOLEAN,
             NEW ethOut \in BOOLEAN, NEW amount \in Offered, NEW min \in Wanted,
             NEW deadline \in Deadlines, NEW value \in Values,
             CreateIntent(id, who, ethIn, amount, ethOut, min, deadline, value)
      PROVE  MoneyInv'
  BY <1>1, CreateMoney
<1>2. ASSUME NEW id \in Ids, CancelIntent(id) \/ ReclaimExpired(id)
      PROVE  MoneyInv'
  BY <1>2, ReturnMoney
<1>3. ASSUME NEW id \in Ids, NEW who \in Solvers, NEW value \in Values,
             ClaimIntent(id, who, value)
      PROVE  MoneyInv'
  BY <1>3, ClaimMoney
<1>4. ASSUME NEW id \in Ids, SlashSolver(id)
      PROVE  MoneyInv'
  BY <1>4, SlashMoney
<1>5. ASSUME NEW id \in Ids, NEW value \in Values, NEW transferred \in {0} \cup Wanted,
             SettleDeliver(id, value, transferred)
      PROVE  MoneyInv'
  BY <1>5, DeliverMoney
<1>6. CASE SettleFinish
  BY <1>6, FinishMoney
<1>7. CASE NextBlock \/ UNCHANGED intentsVars
  <2>1. UNCHANGED <<intents, intentStatus, solverClaims, escrowedETH, slashedBonds, balance,
                    settling, claims, outcome, paidAgain>>
    BY <1>7 DEF NextBlock, intentsVars
  <2>2. Due' = Due
    BY <2>1 DEF Due
  <2>3. SumOver(Due, Ids)' = SumOver(Due, Ids)
    BY <2>2
  <2>4. Covered' /\ MoneyType'
    BY <2>1, <2>3 DEF MoneyInv, MoneyType, Covered
  <2>5. \A id \in Ids : AgreedOf(id)'
    BY <2>1 DEF MoneyInv, AgreedOf, Underway
  <2>. QED
    BY <2>4, <2>5 DEF MoneyInv
<1>. QED
  BY <1>1, <1>2, <1>3, <1>4, <1>5, <1>6, <1>7 DEF IntentsNext

\* Both invariants hold throughout.
LEMMA MoneyInvariant == IntentsSpec => [](EscrowInv /\ MoneyInv)
BY EscrowInit, EscrowStep, MoneyInit, MoneyStep, PTL DEF IntentsSpec

\* The state has the declared types: no payment takes more than there is.
THEOREM IntentsTypeCorrect == IntentsSpec => []IntentsTypeOK
<1>1. EscrowInv /\ MoneyInv => IntentsTypeOK
  <2>. SUFFICES ASSUME EscrowInv, MoneyInv PROVE IntentsTypeOK
    OBVIOUS
  <2>1. outcome \in [Ids -> [to : Initiators \cup Solvers \cup {NoOne}, paid : Nat,
                             delivered : Nat]]
    BY DEF EscrowInv, EscrowType, MoneyInv, MoneyType
  <2>. QED
    BY <2>1 DEF EscrowInv, EscrowType, MoneyInv, MoneyType, IntentsTypeOK, Intent, Claim
<1>. QED
  BY <1>1, MoneyInvariant, PTL

\* Whatever recipients call while they are paid, the escrow of an intent that is
\* over went to the solver whose claim stands, to its initiator, or to nobody if
\* the claim was slashed meanwhile, and recipients of an ETH output have it
\* (IntentModule.settleIntent).
THEOREM SettlesAsAgreed == IntentsSpec => []SettledAsAgreed
<1>1. EscrowInv /\ MoneyInv => SettledAsAgreed
  BY DEF EscrowInv, OverOf, MoneyInv, AgreedOf, SettledAsAgreed, Underway
<1>. QED
  BY <1>1, MoneyInvariant, PTL

\* Whatever recipients call while they are paid, the module can pay every escrow
\* and every bond and keep what it slashed, but for bonds it paid a second time.
THEOREM AlwaysBacked == IntentsSpec => []Backed
<1>1. ASSUME EscrowInv, MoneyInv PROVE Backed
  <2>. DEFINE Owed(id) == escrowedETH[id] + Bond(id)
              F(e) == e = [A \in SUBSET Ids |->
                             IF A = {} THEN 0
                             ELSE Owed(CHOOSE id \in A : TRUE) + e[A \ {CHOOSE id \in A : TRUE}]]
  <2>1. MapThenSumSet(Owed, Ids) = (CHOOSE e : F(e))[Ids]
    BY DEF MapThenSumSet, MapThenFoldSet
  <2>2. \A A \in SUBSET Ids : A # {} => Owed(Pick(A)) = Due[Pick(A)]
    BY PickIn DEF Due, Bond
  <2>3. \A e : F(e) <=> Sums(e, Due, Ids)
    BY <2>2 DEF Sums, Pick
  <2>4. (CHOOSE e : F(e)) = (CHOOSE e : Sums(e, Due, Ids))
    BY <2>3
  <2>5. MapThenSumSet(Owed, Ids) = SumOver(Due, Ids)
    BY <2>1, <2>4, SumUnfolds
  <2>. QED
    BY <1>1, <2>5 DEF MoneyInv, Covered, Backed
<1>. QED
  BY <1>1, MoneyInvariant, PTL

=============================================================================
