--------------------------- MODULE EncryptedLedger ---------------------------
(***************************************************************************)
(* The encrypted ledger (electron/encrypted-ledger.js) behind the vault:*, *)
(* ledger:* and settings:* handlers of electron/ipc-handlers.js: one file  *)
(* on disk, one decrypted copy in memory while the ledger is open.  Every  *)
(* operation changes the copy first and then rewrites the whole file in    *)
(* place, so the write may be refused (the file stays), cut short (the     *)
(* file no longer decrypts) or cut short with the process.                 *)
(*                                                                         *)
(* A file is the password whose key sealed it and the data inside.  A      *)
(* wallet is its address, `active' counts from 0 as in the code.  Amounts  *)
(* are numbers of parts, Unit of them being the 0.000001 that is kept.     *)
(***************************************************************************)
EXTENDS Decimals, Sequences, SequencesExt, FiniteSets

CONSTANTS NoFile,
          Torn,         \* a file that no password decrypts
          Unsure,
          NoData,       \* this._key and this._data after lock()
          Passwords,
          Wallets,      \* addresses
          MaxWallets,   \* capacity of the vault, 32 in vault:addWallet
          Amounts,      \* amounts recorded, in parts
          Limits,       \* spend limits set, in parts or NaN
          DefaultLimit, \* '10'
          Items,        \* what a collection keeps
          Capacity,     \* 100 NFTs, 50 bookmarks, 200 permissions, 200 contacts
          MaxKept,      \* bound on what is kept in all collections
          MaxDay,       \* bound on the days
          MaxTxs,       \* bound on the records of any two days
          MaxFailures   \* bound on the writes that fail in a row

NaN == -1   \* parseFloat of a limit that is no number: it compares with nothing
Hows == {"written", "refused", "cut short", "killed"}
Collections == {"nfts", "bookmarks", "permissions", "contacts"}

ASSUME LedgerAssumption ==
    /\ NoFile # Torn
    /\ MaxWallets \in Nat \ {0}
    /\ Amounts \subseteq Nat
    /\ Limits \subseteq Nat \cup {NaN} /\ DefaultLimit \in Nat
    /\ Capacity \in [Collections -> Nat] /\ MaxKept \in Nat
    /\ MaxDay \in Nat \ {0} /\ MaxTxs \in Nat /\ MaxFailures \in Nat

VARIABLES
    disk,    \* NoFile, Torn or [pw, data]
    open,    \* this._initialized
    key,     \* the password this._key was derived from
    mem,     \* this._data
    day,     \* the date of _today()
    \* history, read by the properties only
    acked,   \* the file as of the last operation answered with success, Unsure
             \* as soon as a write has failed since
    failures \* how many writes have failed since

vars == <<disk, open, key, mem, day, acked, failures>>

Days == 1..MaxDay

\* spend[d]: the total the code keeps, what its transactions really add up to,
\* how many they are and, as history, the limit in force at the last of them;
\* a day without an entry counts as the empty entry
NoSpend == [total |-> 0, sum |-> 0, count |-> 0, cap |-> NaN]

Data == [wallets : BoundedSeq(Wallets, MaxWallets), active : Nat,
         spend : [Days -> [total : Nat, sum : Nat, count : Nat,
                           cap : Limits \cup {DefaultLimit, NaN}]],
         limit : Limits \cup {DefaultLimit},
         kept : SUBSET (Collections \X Items)]

Files == [pw : Passwords, data : Data]

-----------------------------------------------------------------------------
(* _flush: what a write to the file may come to                            *)

Close ==
    /\ open' = FALSE
    /\ key' = NoData
    /\ mem' = NoData

\* The change is in memory whatever becomes of the write; the caller is told of
\* success only when the write was done.
Save(pw, d, how) ==
    /\ disk' = CASE how = "written" -> [pw |-> pw, data |-> d]
                 [] how = "refused" -> disk
                 [] OTHER           -> Torn
    /\ IF how = "killed" THEN Close ELSE open' = TRUE /\ key' = pw /\ mem' = d
    /\ acked' = IF how = "written" THEN [pw |-> pw, data |-> d] ELSE Unsure
    /\ failures' = IF how = "written" THEN 0 ELSE failures + 1
    /\ failures' <= MaxFailures
    /\ UNCHANGED day

\* Mutant: the file is left alone.
UpdateUnsaved(d, how) ==
    /\ open
    /\ mem' = d
    /\ acked' = [pw |-> key, data |-> d]
    /\ UNCHANGED <<disk, open, key, day, failures>>

\* every operation on an open ledger: change this._data, then _flush
Update(d, how) == open /\ Save(key, d, how)

-----------------------------------------------------------------------------
(* The file as a whole                                                     *)

\* vault:create asks neither whether a file exists nor whether it is open
Create(pw, w, how) ==
    /\ Save(pw, [wallets |-> <<w>>, active |-> 0,
                 spend |-> [d \in Days |-> NoSpend], limit |-> DefaultLimit,
                 kept |-> {}], how)

\* Without a file, with a torn one or with another password nothing changes:
\* an open ledger stays open as it is.
Unlock(pw) ==
    /\ disk \notin {NoFile, Torn}
    /\ disk.pw = pw
    /\ open' = TRUE /\ key' = pw /\ mem' = disk.data
    /\ acked' = disk /\ failures' = 0
    /\ UNCHANGED <<disk, day>>

\* vault:lock, the auto-lock, and the end of the process
Lock ==
    /\ open
    /\ Close
    /\ UNCHANGED <<disk, day, acked, failures>>

\* lock() comes first: when the file cannot be removed the ledger is closed
\* all the same
Destroy(removed) ==
    /\ IF open THEN Close ELSE UNCHANGED <<open, mem, key>>
    /\ IF removed THEN disk' = NoFile /\ acked' = NoFile /\ failures' = 0
                  ELSE UNCHANGED <<disk, acked, failures>>
    /\ UNCHANGED <<day>>

-----------------------------------------------------------------------------
(* Wallets                                                                 *)

\* Mutant: the new wallet is put in front.
AddWalletFirst(w, how) ==
    /\ open
    /\ Len(mem.wallets) < MaxWallets
    /\ w \notin ToSet(mem.wallets)
    /\ Update([mem EXCEPT !.wallets = <<w>> \o @], how)

\* Mutant: the capacity is exceeded by one.
AddWalletOver(w, how) ==
    /\ open
    /\ Len(mem.wallets) <= MaxWallets
    /\ w \notin ToSet(mem.wallets)
    /\ Update([mem EXCEPT !.wallets = Append(@, w)], how)

AddWallet(w, how) ==
    /\ open
    /\ Len(mem.wallets) < MaxWallets
    /\ w \notin ToSet(mem.wallets)
    /\ Update([mem EXCEPT !.wallets = Append(@, w)], how)

\* Mutant: the active index is compared with the length before the removal.
ActiveAfterRemovalOff(ws) == IF mem.active > Len(ws) THEN 0 ELSE mem.active

ActiveAfterRemoval(ws) == IF mem.active >= Len(ws) THEN 0 ELSE mem.active

\* i counts from 0 and was checked by validateIndex
RemoveWallet(i, how) ==
    /\ open
    /\ i < Len(mem.wallets)
    /\ Len(mem.wallets) > 1
    /\ LET ws == RemoveAt(mem.wallets, i + 1)
       IN  Update([mem EXCEPT !.wallets = ws, !.active = ActiveAfterRemoval(ws)], how)

SetActiveWallet(i, how) ==
    /\ open
    /\ i < Len(mem.wallets)
    /\ Update([mem EXCEPT !.active = i], how)

-----------------------------------------------------------------------------
(* Spending                                                                *)

Exceeds(x, limit) == limit # NaN /\ x > limit

\* room under MaxTxs
MoreTxs == \A t \in Days \ {day} : mem.spend[day].count + mem.spend[t].count < MaxTxs

\* Mutant: what is compared is the total so far.
RecordSpendLate(a, how) ==
    /\ open
    /\ LET e == mem.spend[day]
       IN  /\ MoreTxs
           /\ ~Exceeds(e.total, mem.limit)
           /\ \E r \in Rounded(e.total + a) :
                Update([mem EXCEPT !.spend[day] = [total |-> r, sum |-> e.sum + a,
                            count |-> e.count + 1, cap |-> mem.limit]], how)

\* Beyond the limit it throws and leaves at most an empty entry for the day.
RecordSpend(a, how) ==
    /\ open
    /\ LET e == mem.spend[day]
       IN  /\ MoreTxs
           /\ ~Exceeds(e.total + a, mem.limit)
           /\ \E r \in Rounded(e.total + a) :
                Update([mem EXCEPT !.spend[day] = [total |-> r, sum |-> e.sum + a,
                            count |-> e.count + 1, cap |-> mem.limit]], how)

\* updateSettings({ spendLimit })
UpdateSettings(l, how) ==
    /\ open
    /\ Update([mem EXCEPT !.limit = l], how)

-----------------------------------------------------------------------------
(* What else the ledger keeps                                              *)

\* What is kept already is not kept again, and nothing is written for it.
Keep(c, i, how) ==
    /\ open
    /\ <<c, i>> \notin mem.kept
    /\ Cardinality({k \in mem.kept : k[1] = c}) < Capacity[c]
    /\ Cardinality(mem.kept) < MaxKept
    /\ Update([mem EXCEPT !.kept = @ \cup {<<c, i>>}], how)

\* Nothing is written where nothing is dropped.
Drop(c, i, how) ==
    /\ open
    /\ <<c, i>> \in mem.kept
    /\ Update([mem EXCEPT !.kept = @ \ {<<c, i>>}], how)

PinNft(i, how)             == Keep("nfts", i, how)
UnpinNft(i, how)           == Drop("nfts", i, how)
AddDappBookmark(i, how)    == Keep("bookmarks", i, how)
RemoveDappBookmark(i, how) == Drop("bookmarks", i, how)
GrantPermission(i, how)    == Keep("permissions", i, how)
RevokePermission(i, how)   == Drop("permissions", i, how)
AddContact(i, how)         == Keep("contacts", i, how)

\* written whether there were permissions or not
RevokeAllPermissions(how) ==
    /\ open
    /\ Update([mem EXCEPT !.kept = {k \in @ : k[1] # "permissions"}], how)

\* written whether there was such a contact or not
RemoveContact(i, how) ==
    /\ open
    /\ Update([mem EXCEPT !.kept = @ \ {<<"contacts", i>>}], how)

\* The rolling logs, the dates of last use and the other settings: what is not
\* modelled changes, and the whole file is written, with what an earlier write
\* that failed left in memory.
Rewrite(how) == Update(mem, how)

RecordAuditEntry(how)   == Rewrite(how)
RecordDappActivity(how) == Rewrite(how)
TouchPermission(i, how) == open /\ <<"permissions", i>> \in mem.kept /\ Rewrite(how)
UpdateContact(i, how)   == open /\ <<"contacts", i>> \in mem.kept /\ Rewrite(how)

NextDay ==
    /\ day < MaxDay
    /\ day' = day + 1
    /\ UNCHANGED <<disk, open, key, mem, acked, failures>>

Init ==
    /\ disk = NoFile /\ open = FALSE /\ key = NoData /\ mem = NoData
    /\ day = 1 /\ acked = NoFile /\ failures = 0

KeepOrDrop(i, how) ==
    \/ PinNft(i, how) \/ UnpinNft(i, how)
    \/ AddDappBookmark(i, how) \/ RemoveDappBookmark(i, how)
    \/ GrantPermission(i, how) \/ RevokePermission(i, how) \/ TouchPermission(i, how)
    \/ AddContact(i, how) \/ RemoveContact(i, how) \/ UpdateContact(i, how)

Next ==
    \/ \E how \in Hows :
        \/ \E pw \in Passwords, w \in Wallets : Create(pw, w, how)
        \/ \E w \in Wallets : AddWallet(w, how)
        \/ \E i \in 0..(MaxWallets - 1) : RemoveWallet(i, how) \/ SetActiveWallet(i, how)
        \/ \E a \in Amounts : RecordSpend(a, how)
        \/ \E l \in Limits : UpdateSettings(l, how)
        \/ \E i \in Items : KeepOrDrop(i, how)
        \/ RevokeAllPermissions(how)
        \/ RecordAuditEntry(how) \/ RecordDappActivity(how)
    \/ \E pw \in Passwords : Unlock(pw)
    \/ Lock
    \/ \E removed \in BOOLEAN : Destroy(removed)
    \/ NextDay

Spec == Init /\ [][Next]_vars

-----------------------------------------------------------------------------
(* Properties                                                              *)

\* The data that may count: what is in memory and what can be unlocked.
Copies == (IF open THEN {mem} ELSE {})
            \cup (IF disk \in {NoFile, Torn} THEN {} ELSE {disk.data})

TypeOK ==
    /\ disk \in {NoFile, Torn} \/ disk \in Files
    /\ open \in BOOLEAN
    /\ IF open THEN key \in Passwords /\ mem \in Data ELSE key = NoData /\ mem = NoData
    /\ day \in Days
    /\ acked \in {NoFile, Unsure} \/ acked \in Files
    /\ failures \in 0..MaxFailures

\* Unless a write has failed since, the file holds exactly what the last
\* successful operation was answered for: no lock, no crash, no failed attempt
\* and no other operation makes an answer untrue.
AckedIsOnDisk == acked # Unsure => disk = acked

\* Whatever was added and removed, and whatever writes failed in between, the
\* active index denotes a wallet and no wallet is listed twice.
ActiveDenotesWallet ==
    \A d \in Copies :
        /\ d.active < Len(d.wallets)
        /\ \A i, j \in 1..Len(d.wallets) : d.wallets[i] = d.wallets[j] => i = j

\* What was really spent on a day goes beyond the limit in force at the last
\* record by no more than what rounding has hidden, half a unit a record.
SpentWithinCap ==
    \A d \in Copies : \A t \in Days :
        LET e == d.spend[t]
        IN  e.count > 0 /\ e.cap # NaN => 2 * e.sum <= 2 * e.cap + Unit * (e.count - 1)

\* The rounded total drifts from the true sum by at most half a unit a record.
TotalTracksSum ==
    \A d \in Copies : \A t \in Days :
        LET e == d.spend[t]
        IN  2 * e.total <= 2 * e.sum + Unit * e.count /\ 2 * e.sum <= 2 * e.total + Unit * e.count

\* Which wallet sends changes only when another index is made active, or when
\* that wallet or one listed before it is removed: adding, removing behind it,
\* spending and settings leave it alone.
SenderIsKept ==
    [][ (/\ open /\ open' /\ acked # Unsure
         /\ mem'.active = mem.active
         /\ \A i \in 1..(mem.active + 1) : mem.wallets[i] \in ToSet(mem'.wallets))
        => mem'.wallets[mem'.active + 1] = mem.wallets[mem.active + 1] ]_vars

=============================================================================
