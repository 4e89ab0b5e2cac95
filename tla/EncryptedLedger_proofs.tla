----------------------- MODULE EncryptedLedger_proofs ------------------------
(***************************************************************************)
(* The ledger of EncryptedLedger.tla for every set of passwords, wallets,  *)
(* amounts and limits, every unit of rounding and every bound.  What the   *)
(* properties say of all copies of the data is kept by each operation on   *)
(* the copy in memory; a write leaves the old file, the new one or none,   *)
(* so that no copy is ever anything else.                                  *)
(***************************************************************************)
EXTENDS EncryptedLedger, SequenceTheorems, TLAPS

-----------------------------------------------------------------------------
(* The inductive invariant                                                  *)

Caps == Limits \cup {DefaultLimit, NaN}
Entry == [total : Nat, sum : Nat, count : Nat, cap : Caps]
Content == [wallets : Seq(Wallets), active : Nat, spend : [Days -> Entry],
            limit : Limits \cup {DefaultLimit},
            kept : SUBSET (Collections \X Items)]

\* The total drifts by half a unit a record, and the last record was within its
\* limit.
SoundEntry(e) ==
    /\ e \in Entry
    /\ 2 * e.total <= 2 * e.sum + Unit * e.count
    /\ 2 * e.sum <= 2 * e.total + Unit * e.count
    /\ e.count > 0 /\ e.cap # NaN => 2 * e.sum <= 2 * e.cap + Unit * (e.count - 1)

SoundWallets(ws) ==
    /\ ws \in Seq(Wallets) /\ Len(ws) <= MaxWallets
    /\ \A i, j \in 1..Len(ws) : ws[i] = ws[j] => i = j

\* What any copy of the data is.
Sound(d) ==
    /\ d \in Content
    /\ SoundWallets(d.wallets) /\ d.active < Len(d.wallets)
    /\ \A t \in Days : SoundEntry(d.spend[t])

DiskInv ==
    /\ disk \in {NoFile, Torn} \/ (disk \in Files /\ Sound(disk.data))
    /\ acked \in {NoFile, Unsure} \/ acked \in Files

MemoryInv ==
    /\ open \in BOOLEAN /\ day \in Days /\ failures \in 0..MaxFailures
    /\ open => key \in Passwords /\ Sound(mem)
    /\ ~open => key = NoData /\ mem = NoData

\* Unless a write has failed, an open ledger is what the file holds.
InStep == open /\ acked # Unsure => disk = [pw |-> key, data |-> mem]

LedgerInv == DiskInv /\ MemoryInv /\ AckedIsOnDisk /\ InStep

-----------------------------------------------------------------------------
(* Arithmetic and sequences                                                 *)

\* One more record is one more unit.
LEMMA OneMoreUnit ==
    ASSUME NEW n \in Nat
    PROVE  Unit \in Nat \ {0} /\ Unit * n \in Nat /\ Unit * (n + 1) = Unit * n + Unit
BY DecimalsAssumption

\* The rounded total is a number of parts, half a unit away at most.
LEMMA RoundedNear ==
    ASSUME NEW x \in Nat, NEW r \in Rounded(x)
    PROVE  r \in Nat /\ 2 * (x - r) <= Unit /\ 2 * (r - x) <= Unit
<1>1. Unit \in Nat \ {0}
  BY DecimalsAssumption
<1>2. x \div Unit \in Nat
  BY <1>1
<1>3. \A q \in Nat : Unit * q \in Nat
  BY <1>1
<1>4. r = Unit * (x \div Unit) \/ r = Unit * ((x \div Unit) + 1)
  BY DEF Rounded
<1>5. r \in Nat
  BY <1>2, <1>3, <1>4
<1>. QED
  BY <1>5 DEF Rounded

\* A removal closes the gap.
LEMMA Removed ==
    ASSUME NEW ws \in Seq(Wallets), NEW k \in 1..Len(ws)
    PROVE  /\ RemoveAt(ws, k) \in Seq(Wallets) /\ Len(RemoveAt(ws, k)) = Len(ws) - 1
           /\ \A j \in 1..Len(RemoveAt(ws, k)) :
                RemoveAt(ws, k)[j] = IF j < k THEN ws[j] ELSE ws[j + 1]
<1>. DEFINE front == SubSeq(ws, 1, k - 1)
            back  == SubSeq(ws, k + 1, Len(ws))
<1>1. k \in Nat /\ Len(ws) \in Nat /\ 1 <= k /\ k <= Len(ws)
  OBVIOUS
<1>2. /\ front \in Seq(Wallets) /\ Len(front) = k - 1
      /\ \A j \in 1..(k - 1) : front[j] = ws[j]
  BY <1>1
<1>3. /\ back \in Seq(Wallets) /\ Len(back) = Len(ws) - k
      /\ \A j \in 1..(Len(ws) - k) : back[j] = ws[k + j]
  BY <1>1
<1>. HIDE DEF front, back
<1>4. /\ front \o back \in Seq(Wallets) /\ Len(front \o back) = Len(ws) - 1
      /\ \A j \in 1..(Len(ws) - 1) :
           (front \o back)[j] = IF j <= k - 1 THEN front[j] ELSE back[j - (k - 1)]
  <2>1. /\ front \o back \in Seq(Wallets) /\ Len(front \o back) = Len(front) + Len(back)
        /\ \A j \in 1..(Len(front) + Len(back)) :
             (front \o back)[j] = IF j <= Len(front) THEN front[j] ELSE back[j - Len(front)]
    BY <1>2, <1>3, ConcatProperties
  <2>2. Len(front) + Len(back) = Len(ws) - 1
    BY <1>1, <1>2, <1>3
  <2>. QED
    BY <1>2, <2>1, <2>2
<1>5. \A j \in 1..(Len(ws) - 1) : (front \o back)[j] = IF j < k THEN ws[j] ELSE ws[j + 1]
  <2>. SUFFICES ASSUME NEW j \in 1..(Len(ws) - 1)
                PROVE  (front \o back)[j] = IF j < k THEN ws[j] ELSE ws[j + 1]
    OBVIOUS
  <2>1. CASE j < k
    BY <1>1, <1>2, <1>4, <2>1
  <2>2. CASE ~(j < k)
    <3>1. j - (k - 1) \in 1..(Len(ws) - k) /\ k + (j - (k - 1)) = j + 1
      BY <1>1, <2>2
    <3>. QED
      BY <1>1, <1>3, <1>4, <2>2, <3>1
  <2>. QED
    BY <2>1, <2>2
<1>. QED
  BY <1>4, <1>5 DEF RemoveAt, front, back

\* Adding a wallet that is not there keeps the vault sound.
LEMMA AddedSound ==
    ASSUME NEW ws, SoundWallets(ws), NEW w \in Wallets, w \notin ToSet(ws), Len(ws) < MaxWallets
    PROVE  SoundWallets(Append(ws, w))
<1>1. ws \in Seq(Wallets) /\ Len(ws) \in Nat
  BY DEF SoundWallets
<1>2. \A i \in 1..Len(ws) : ws[i] # w
  BY <1>1 DEF ToSet
<1>3. MaxWallets \in Nat
  BY LedgerAssumption
<1>4. /\ Append(ws, w) \in Seq(Wallets) /\ Len(Append(ws, w)) = Len(ws) + 1
      /\ \A i \in 1..Len(ws) : Append(ws, w)[i] = ws[i]
      /\ Append(ws, w)[Len(ws) + 1] = w
      /\ \A i \in 1..(Len(ws) + 1) : i \in 1..Len(ws) \/ i = Len(ws) + 1
  BY <1>1
<1>. QED
  BY <1>1, <1>2, <1>3, <1>4 DEF SoundWallets

\* So does a removal.
LEMMA RemovedSound ==
    ASSUME NEW ws, SoundWallets(ws), NEW k \in 1..Len(ws)
    PROVE  SoundWallets(RemoveAt(ws, k))
<1>. DEFINE rs == RemoveAt(ws, k)
            old(j) == IF j < k THEN j ELSE j + 1
<1>1. ws \in Seq(Wallets) /\ Len(ws) \in Nat /\ MaxWallets \in Nat /\ Len(ws) <= MaxWallets
  BY LedgerAssumption DEF SoundWallets
<1>2. /\ rs \in Seq(Wallets) /\ Len(rs) = Len(ws) - 1
      /\ \A j \in 1..Len(rs) : rs[j] = ws[old(j)]
  BY <1>1, Removed
<1>. HIDE DEF rs
<1>3. \A j \in 1..Len(rs) : old(j) \in 1..Len(ws)
  BY <1>1, <1>2
<1>4. \A i, j \in 1..Len(rs) : old(i) = old(j) => i = j
  BY <1>1, <1>2
<1>5. \A i, j \in 1..Len(rs) : rs[i] = rs[j] => i = j
  <2>. HIDE DEF old
  <2>. QED
    BY <1>2, <1>3, <1>4 DEF SoundWallets
<1>6. SoundWallets(rs)
  BY <1>1, <1>2, <1>5 DEF SoundWallets
<1>. QED
  BY <1>6 DEF rs

\* What is sound is well typed.
LEMMA SoundIsData ==
    ASSUME NEW d, Sound(d)
    PROVE  d \in Data
<1>1. d.wallets \in BoundedSeq(Wallets, MaxWallets)
  <2>1. /\ d.wallets \in [1..Len(d.wallets) -> Wallets] /\ Len(d.wallets) \in 0..MaxWallets
    BY LedgerAssumption DEF Sound, SoundWallets
  <2>. QED
    BY <2>1 DEF BoundedSeq, SeqOf
<1>. QED
  BY <1>1 DEF Sound, Content, Data, Entry, Caps

-----------------------------------------------------------------------------
(* What is written                                                          *)

\* A write of sound data leaves only sound data, and what it answers is true.
LEMMA SaveStep ==
    ASSUME LedgerInv, NEW pw \in Passwords, NEW d, Sound(d), NEW how \in Hows, Save(pw, d, how)
    PROVE  LedgerInv'
<1>. DEFINE file == [pw |-> pw, data |-> d]
<1>1. file \in Files /\ file.data = d
  BY SoundIsData DEF Files
<1>2. day' = day /\ failures' \in 0..MaxFailures
  BY LedgerAssumption DEF LedgerInv, MemoryInv, Save
<1>. HIDE DEF file
<1>3. disk' \in {file, disk, Torn} /\ acked' \in {file, Unsure}
      /\ (disk' = acked' \/ acked' = Unsure)
  BY DEF Save, Hows, file
<1>4. DiskInv'
  BY <1>1, <1>3 DEF LedgerInv, DiskInv
<1>5. MemoryInv'
  BY <1>2 DEF LedgerInv, MemoryInv, Save, Close
<1>6. AckedIsOnDisk'
  BY <1>3 DEF AckedIsOnDisk
<1>7. InStep'
  BY <1>3 DEF InStep, Save, Close, file
<1>. QED
  BY <1>4, <1>5, <1>6, <1>7 DEF LedgerInv

\* A new vault is sound.
LEMMA CreateStep ==
    ASSUME LedgerInv, NEW pw \in Passwords, NEW w \in Wallets, NEW how \in Hows,
           Create(pw, w, how)
    PROVE  LedgerInv'
<1>. DEFINE d == [wallets |-> <<w>>, active |-> 0,
                  spend |-> [t \in Days |-> NoSpend], limit |-> DefaultLimit, kept |-> {}]
<1>1. NoSpend \in Entry /\ SoundEntry(NoSpend)
  <2>1. NoSpend \in Entry
    BY DEF NoSpend, Entry, Caps
  <2>. QED
    BY <2>1, LedgerAssumption, DecimalsAssumption DEF NoSpend, SoundEntry
<1>2. SoundWallets(<<w>>) /\ Len(<<w>>) = 1
  BY LedgerAssumption DEF SoundWallets
<1>3. d \in Content
  BY <1>1, <1>2 DEF Content, SoundWallets
<1>4. Sound(d)
  BY <1>1, <1>2, <1>3 DEF Sound
<1>. QED
  BY <1>4, SaveStep DEF Create

\* One more record: the total is rounded anew, the limit was looked at before.
LEMMA RecordedSound ==
    ASSUME NEW d, Sound(d), NEW t \in Days, NEW a \in Amounts,
           ~Exceeds(d.spend[t].total + a, d.limit), NEW r \in Rounded(d.spend[t].total + a)
    PROVE  Sound([d EXCEPT !.spend[t] = [total |-> r, sum |-> d.spend[t].sum + a,
                       count |-> d.spend[t].count + 1, cap |-> d.limit]])
<1>. DEFINE e == d.spend[t]
            f == [total |-> r, sum |-> e.sum + a, count |-> e.count + 1, cap |-> d.limit]
<1>1. e \in Entry /\ SoundEntry(e) /\ d \in Content /\ a \in Nat
  BY LedgerAssumption DEF Sound, SoundEntry
<1>2. e.total \in Nat /\ e.sum \in Nat /\ e.count \in Nat
  BY <1>1 DEF Entry
<1>3. d.limit \in Limits \cup {DefaultLimit}
  BY <1>1 DEF Content
<1>4. d.limit \in Nat \/ d.limit = NaN
  BY <1>3, LedgerAssumption
<1>5. r \in Nat /\ 2 * ((e.total + a) - r) <= Unit /\ 2 * (r - (e.total + a)) <= Unit
  BY <1>1, <1>2, RoundedNear
<1>. DEFINE u == Unit * e.count
<1>6. Unit \in Nat /\ u \in Nat /\ Unit * (e.count + 1) = u + Unit
  BY <1>2, OneMoreUnit
<1>7. 2 * e.total <= 2 * e.sum + u /\ 2 * e.sum <= 2 * e.total + u
  BY <1>1 DEF SoundEntry
<1>8. d.limit # NaN => e.total + a <= d.limit
  BY <1>1, <1>2, <1>4 DEF Exceeds
<1>9. f \in Entry
  BY <1>1, <1>2, <1>3, <1>5 DEF Entry, Caps
<1>10. /\ f.total = r /\ f.sum = e.sum + a /\ f.cap = d.limit
       /\ f.count = e.count + 1 /\ f.count - 1 = e.count
  BY <1>2
<1>. HIDE DEF e, f, u
<1>11. 2 * r <= 2 * (e.sum + a) + (u + Unit) /\ 2 * (e.sum + a) <= 2 * r + (u + Unit)
  BY <1>1, <1>2, <1>5, <1>6, <1>7
<1>12. d.limit # NaN => 2 * (e.sum + a) <= 2 * d.limit + u
  BY <1>1, <1>2, <1>4, <1>6, <1>7, <1>8
<1>13. SoundEntry(f)
  BY <1>6, <1>9, <1>10, <1>11, <1>12 DEF SoundEntry, u
<1>. DEFINE g == [d EXCEPT !.spend[t] = f]
<1>14. /\ g \in Content /\ g.wallets = d.wallets /\ g.active = d.active
       /\ \A s \in Days : g.spend[s] = IF s = t THEN f ELSE d.spend[s]
  BY <1>1, <1>9 DEF Content
<1>15. Sound(g)
  BY <1>13, <1>14 DEF Sound
<1>. QED
  BY <1>15 DEF f, e

\* The operations on what else the ledger keeps.
Keeping(how) ==
    \/ \E i \in Items : KeepOrDrop(i, how)
    \/ RevokeAllPermissions(how)
    \/ RecordAuditEntry(how) \/ RecordDappActivity(how)

\* They change the collections at most.
LEMMA KeepingUpdates ==
    ASSUME mem \in Content, NEW how, Keeping(how)
    PROVE  /\ open
           /\ \E K \in SUBSET (Collections \X Items) : Update([mem EXCEPT !.kept = K], how)
<1>. DEFINE All == Collections \X Items
            Goal == open /\ \E K \in SUBSET All : Update([mem EXCEPT !.kept = K], how)
<1>1. mem.kept \in SUBSET All /\ mem = [mem EXCEPT !.kept = mem.kept]
  BY DEF Content
<1>2. ASSUME NEW c \in Collections, NEW i \in Items, Keep(c, i, how) \/ Drop(c, i, how)
      PROVE  Goal
  <2>1. mem.kept \cup {<<c, i>>} \in SUBSET All /\ mem.kept \ {<<c, i>>} \in SUBSET All
    BY <1>1
  <2>2. CASE Keep(c, i, how)
    BY <2>1, <2>2 DEF Keep
  <2>3. CASE Drop(c, i, how)
    BY <2>1, <2>3 DEF Drop
  <2>. QED
    BY <1>2, <2>2, <2>3
<1>3. CASE Rewrite(how)
  BY <1>1, <1>3 DEF Rewrite, Update
<1>4. CASE RevokeAllPermissions(how)
  <2>1. {k \in mem.kept : k[1] # "permissions"} \in SUBSET All
    BY <1>1
  <2>. QED
    BY <1>4, <2>1 DEF RevokeAllPermissions
<1>5. ASSUME NEW i \in Items, KeepOrDrop(i, how)
      PROVE  Goal
  <2>1. ASSUME RemoveContact(i, how)
        PROVE  Goal
    <3>1. mem.kept \ {<<"contacts", i>>} \in SUBSET All
      BY <1>1
    <3>. QED
      BY <2>1, <3>1 DEF RemoveContact
  <2>2. \A c \in {"nfts", "bookmarks", "permissions", "contacts"} : c \in Collections
    BY DEF Collections
  <2>. QED
    BY <1>2, <1>3, <1>5, <2>1, <2>2
       DEF KeepOrDrop, PinNft, UnpinNft, AddDappBookmark, RemoveDappBookmark, GrantPermission,
           RevokePermission, TouchPermission, AddContact, UpdateContact
<1>. QED
  BY <1>3, <1>4, <1>5 DEF Keeping, RecordAuditEntry, RecordDappActivity

\* Every operation of an open ledger writes sound data.
LEMMA OperationStep ==
    ASSUME LedgerInv, NEW how \in Hows,
           \/ \E w \in Wallets : AddWallet(w, how)
           \/ \E i \in 0..(MaxWallets - 1) : RemoveWallet(i, how) \/ SetActiveWallet(i, how)
           \/ \E a \in Amounts : RecordSpend(a, how)
           \/ \E l \in Limits : UpdateSettings(l, how)
           \/ Keeping(how)
    PROVE  LedgerInv'
<1>1. open /\ key \in Passwords /\ Sound(mem) /\ day \in Days
  BY DEF LedgerInv, MemoryInv, AddWallet, RemoveWallet, SetActiveWallet, RecordSpend,
         UpdateSettings, Keeping, KeepOrDrop, PinNft, UnpinNft, AddDappBookmark,
         RemoveDappBookmark, GrantPermission, RevokePermission, TouchPermission, AddContact,
         RemoveContact, UpdateContact, RevokeAllPermissions, RecordAuditEntry,
         RecordDappActivity, Rewrite, Update, Keep, Drop
<1>2. mem \in Content /\ SoundWallets(mem.wallets) /\ mem.active < Len(mem.wallets)
      /\ mem.active \in Nat /\ Len(mem.wallets) \in Nat
  BY <1>1 DEF Sound, SoundWallets, Content
<1>3. ASSUME NEW d, Sound(d), Update(d, how)
      PROVE  LedgerInv'
  BY <1>1, <1>3, SaveStep DEF Update
<1>4. ASSUME NEW w \in Wallets, AddWallet(w, how)
      PROVE  LedgerInv'
  <2>. DEFINE ws == Append(mem.wallets, w)
              d  == [mem EXCEPT !.wallets = ws]
  <2>1. SoundWallets(ws)
    BY <1>2, <1>4, AddedSound DEF AddWallet
  <2>2. Len(ws) = Len(mem.wallets) + 1
    BY <1>2 DEF SoundWallets
  <2>3. ws \in Seq(Wallets)
    BY <2>1 DEF SoundWallets
  <2>. HIDE DEF ws
  <2>4. d \in Content /\ d.wallets = ws /\ d.active = mem.active /\ d.spend = mem.spend
    BY <1>2, <2>3 DEF Content
  <2>5. Sound(d)
    BY <1>1, <1>2, <2>1, <2>2, <2>4 DEF Sound
  <2>. QED
    BY <1>3, <1>4, <2>5 DEF AddWallet, ws
<1>5. ASSUME NEW i \in 0..(MaxWallets - 1), RemoveWallet(i, how)
      PROVE  LedgerInv'
  <2>. DEFINE ws == RemoveAt(mem.wallets, i + 1)
              n  == ActiveAfterRemoval(ws)
              d  == [mem EXCEPT !.wallets = ws, !.active = n]
  <2>1. i < Len(mem.wallets) /\ Len(mem.wallets) > 1 /\ i + 1 \in 1..Len(mem.wallets)
    <3>1. i \in Nat
      BY LedgerAssumption
    <3>2. i < Len(mem.wallets) /\ Len(mem.wallets) > 1
      BY <1>5 DEF RemoveWallet
    <3>. QED
      BY <1>2, <3>1, <3>2
  <2>2. SoundWallets(ws)
    BY <1>2, <2>1, RemovedSound
  <2>3. ws \in Seq(Wallets) /\ Len(ws) = Len(mem.wallets) - 1
    BY <1>2, <2>1, Removed DEF SoundWallets
  <2>. HIDE DEF ws
  <2>4. n \in Nat /\ n < Len(ws)
    BY <1>2, <2>1, <2>3 DEF ActiveAfterRemoval
  <2>. HIDE DEF n
  <2>5. d \in Content /\ d.wallets = ws /\ d.active = n /\ d.spend = mem.spend
    BY <1>2, <2>3, <2>4 DEF Content
  <2>6. Sound(d)
    BY <1>1, <2>2, <2>4, <2>5 DEF Sound
  <2>. QED
    BY <1>3, <1>5, <2>6 DEF RemoveWallet, ws, n
<1>6. ASSUME NEW i \in 0..(MaxWallets - 1), SetActiveWallet(i, how)
      PROVE  LedgerInv'
  <2>. DEFINE d == [mem EXCEPT !.active = i]
  <2>1. i \in Nat /\ i < Len(mem.wallets)
    BY <1>6, LedgerAssumption DEF SetActiveWallet
  <2>2. d \in Content /\ d.wallets = mem.wallets /\ d.active = i /\ d.spend = mem.spend
    BY <1>2, <2>1 DEF Content
  <2>3. Sound(d)
    BY <1>1, <1>2, <2>1, <2>2 DEF Sound
  <2>. QED
    BY <1>3, <1>6, <2>3 DEF SetActiveWallet
<1>7. ASSUME NEW a \in Amounts, RecordSpend(a, how)
      PROVE  LedgerInv'
  <2>1. PICK r \in Rounded(mem.spend[day].total + a) :
           Update([mem EXCEPT !.spend[day] = [total |-> r, sum |-> mem.spend[day].sum + a,
                      count |-> mem.spend[day].count + 1, cap |-> mem.limit]], how)
    BY <1>7 DEF RecordSpend
  <2>2. ~Exceeds(mem.spend[day].total + a, mem.limit)
    BY <1>7 DEF RecordSpend
  <2>3. Sound([mem EXCEPT !.spend[day] = [total |-> r, sum |-> mem.spend[day].sum + a,
                      count |-> mem.spend[day].count + 1, cap |-> mem.limit]])
    BY <1>1, <2>2, RecordedSound
  <2>. QED
    BY <1>3, <2>1, <2>3
<1>8. ASSUME NEW l \in Limits, UpdateSettings(l, how)
      PROVE  LedgerInv'
  <2>. DEFINE d == [mem EXCEPT !.limit = l]
  <2>1. d \in Content /\ d.wallets = mem.wallets /\ d.active = mem.active /\ d.spend = mem.spend
    BY <1>2 DEF Content
  <2>2. Sound(d)
    BY <1>1, <1>2, <2>1 DEF Sound
  <2>. QED
    BY <1>3, <1>8, <2>2 DEF UpdateSettings
<1>9. ASSUME Keeping(how)
      PROVE  LedgerInv'
  <2>1. PICK K \in SUBSET (Collections \X Items) : Update([mem EXCEPT !.kept = K], how)
    BY <1>2, <1>9, KeepingUpdates
  <2>. DEFINE d == [mem EXCEPT !.kept = K]
  <2>2. d \in Content /\ d.wallets = mem.wallets /\ d.active = mem.active /\ d.spend = mem.spend
    BY <1>2 DEF Content
  <2>3. Sound(d)
    BY <1>1, <1>2, <2>2 DEF Sound
  <2>. QED
    BY <1>3, <2>1, <2>3
<1>. QED
  BY <1>4, <1>5, <1>6, <1>7, <1>8, <1>9

\* Unlocking takes what the file holds; locking and destroying leave no copy in
\* memory.
LEMMA FileStep ==
    ASSUME LedgerInv,
           \/ \E pw \in Passwords : Unlock(pw)
           \/ Lock
           \/ \E removed \in BOOLEAN : Destroy(removed)
           \/ NextDay
    PROVE  LedgerInv'
<1>. USE DEF LedgerInv
<1>1. ASSUME NEW pw \in Passwords, Unlock(pw)
      PROVE  LedgerInv'
  <2>1. disk \in Files /\ Sound(disk.data) /\ disk = [pw |-> pw, data |-> disk.data]
    BY <1>1 DEF Unlock, DiskInv, Files
  <2>. QED
    BY <1>1, <2>1, LedgerAssumption DEF Unlock, DiskInv, MemoryInv, AckedIsOnDisk, InStep
<1>2. CASE Lock
  BY <1>2 DEF Lock, Close, DiskInv, MemoryInv, AckedIsOnDisk, InStep
<1>3. ASSUME NEW removed \in BOOLEAN, Destroy(removed)
      PROVE  LedgerInv'
  <2>1. open' = FALSE /\ key' = NoData /\ mem' = NoData /\ day' = day
    BY <1>3 DEF Destroy, Close, MemoryInv
  <2>2. \/ disk' = NoFile /\ acked' = NoFile /\ failures' = 0
        \/ UNCHANGED <<disk, acked, failures>>
    BY <1>3 DEF Destroy
  <2>. QED
    <3>1. DiskInv' /\ AckedIsOnDisk' /\ failures' \in 0..MaxFailures
      BY <2>2, LedgerAssumption DEF DiskInv, MemoryInv, AckedIsOnDisk
    <3>2. MemoryInv' /\ InStep'
      BY <2>1, <3>1 DEF MemoryInv, InStep
    <3>. QED
      BY <3>1, <3>2
<1>4. CASE NextDay
  BY <1>4, LedgerAssumption DEF NextDay, DiskInv, MemoryInv, AckedIsOnDisk, InStep, Days
<1>. QED
  BY <1>1, <1>2, <1>3, <1>4

\* There is no file at the start.
LEMMA LedgerInit == Init => LedgerInv
<1>. SUFFICES ASSUME Init PROVE LedgerInv
  OBVIOUS
<1>1. DiskInv /\ AckedIsOnDisk /\ InStep
  BY DEF Init, DiskInv, AckedIsOnDisk, InStep
<1>2. MemoryInv
  <2>1. failures \in 0..MaxFailures /\ day \in Days
    BY LedgerAssumption DEF Init, Days
  <2>2. open \in BOOLEAN /\ ~open /\ key = NoData /\ mem = NoData
    BY DEF Init
  <2>. QED
    BY <2>1, <2>2 DEF MemoryInv
<1>. QED
  BY <1>1, <1>2 DEF LedgerInv

\* Every step keeps the invariant.
LEMMA LedgerStep == LedgerInv /\ [Next]_vars => LedgerInv'
<1>. SUFFICES ASSUME LedgerInv, [Next]_vars
              PROVE  LedgerInv'
  OBVIOUS
<1>1. ASSUME NEW how \in Hows, NEW pw \in Passwords, NEW w \in Wallets, Create(pw, w, how)
      PROVE  LedgerInv'
  BY <1>1, CreateStep
<1>2. ASSUME NEW how \in Hows,
             \/ \E w \in Wallets : AddWallet(w, how)
             \/ \E i \in 0..(MaxWallets - 1) : RemoveWallet(i, how) \/ SetActiveWallet(i, how)
             \/ \E a \in Amounts : RecordSpend(a, how)
             \/ \E l \in Limits : UpdateSettings(l, how)
             \/ Keeping(how)
      PROVE  LedgerInv'
  BY <1>2, OperationStep
<1>3. CASE \/ \E pw \in Passwords : Unlock(pw)
           \/ Lock
           \/ \E removed \in BOOLEAN : Destroy(removed)
           \/ NextDay
  BY <1>3, FileStep
<1>4. CASE UNCHANGED vars
  BY <1>4 DEF vars, LedgerInv, DiskInv, MemoryInv, AckedIsOnDisk, InStep
<1>. QED
  BY <1>1, <1>2, <1>3, <1>4 DEF Next, Keeping

\* The invariant holds throughout.
LEMMA LedgerInvariant == Spec => []LedgerInv
BY LedgerInit, LedgerStep, PTL DEF Spec

-----------------------------------------------------------------------------
(* Theorems                                                                 *)

\* File, memory and what was answered are well typed; the vault stays within
\* its capacity.
THEOREM TypeCorrect == Spec => []TypeOK
<1>1. ASSUME LedgerInv PROVE TypeOK
  BY <1>1, SoundIsData DEF LedgerInv, DiskInv, MemoryInv, TypeOK
<1>. QED
  BY <1>1, LedgerInvariant, PTL

\* Unless a write has failed since, the file is what was answered for.
THEOREM AnswersAreTrue == Spec => []AckedIsOnDisk
<1>1. LedgerInv => AckedIsOnDisk
  BY DEF LedgerInv
<1>. QED
  BY <1>1, LedgerInvariant, PTL

\* All copies of the data are sound.
LEMMA CopiesAreSound ==
    ASSUME LedgerInv, NEW d \in Copies
    PROVE  Sound(d)
BY DEF LedgerInv, DiskInv, MemoryInv, Copies

\* The active index denotes a wallet, and no wallet is listed twice.
THEOREM ActiveIsListed == Spec => []ActiveDenotesWallet
<1>1. ASSUME LedgerInv PROVE ActiveDenotesWallet
  BY <1>1, CopiesAreSound DEF ActiveDenotesWallet, Sound, SoundWallets
<1>. QED
  BY <1>1, LedgerInvariant, PTL

\* What was spent on a day stays within the limit, but for what rounding hides.
THEOREM SpendingIsCapped == Spec => []SpentWithinCap
<1>1. ASSUME LedgerInv PROVE SpentWithinCap
  BY <1>1, CopiesAreSound DEF SpentWithinCap, Sound, SoundEntry
<1>. QED
  BY <1>1, LedgerInvariant, PTL

\* The rounded total drifts from the sum by half a unit a record at most.
THEOREM RoundingIsBounded == Spec => []TotalTracksSum
<1>1. ASSUME LedgerInv PROVE TotalTracksSum
  BY <1>1, CopiesAreSound DEF TotalTracksSum, Sound, SoundEntry
<1>. QED
  BY <1>1, LedgerInvariant, PTL

\* What is kept of the vault when the sender is asked for again.
SenderKept ==
    (/\ open /\ open' /\ acked # Unsure
     /\ mem'.active = mem.active
     /\ \A i \in 1..(mem.active + 1) : mem.wallets[i] \in ToSet(mem'.wallets))
    => mem'.wallets[mem'.active + 1] = mem.wallets[mem.active + 1]

\* A removal at or before the active index takes a wallet that was listed there,
\* and which is listed nowhere else.
LEMMA RemovalIsSeen ==
    ASSUME NEW ws, SoundWallets(ws), NEW n \in Nat, n < Len(ws), NEW k \in 1..Len(ws),
           NEW rs, rs = RemoveAt(ws, k),
           \A i \in 1..(n + 1) : ws[i] \in ToSet(rs)
    PROVE  rs[n + 1] = ws[n + 1]
<1>1. ws \in Seq(Wallets) /\ Len(ws) \in Nat
  BY DEF SoundWallets
<1>2. /\ rs \in Seq(Wallets) /\ Len(rs) = Len(ws) - 1
      /\ \A j \in 1..Len(rs) : rs[j] = IF j < k THEN ws[j] ELSE ws[j + 1]
  BY <1>1, Removed
<1>3. CASE k <= n + 1
  <2>1. k \in 1..(n + 1)
    BY <1>3
  <2>2. PICK j \in 1..Len(rs) : rs[j] = ws[k]
    BY <1>2, <2>1 DEF ToSet
  <2>3. PICK m \in 1..Len(ws) : rs[j] = ws[m] /\ m # k
    <3>1. CASE j < k
      BY <1>1, <1>2, <3>1
    <3>2. CASE ~(j < k)
      BY <1>1, <1>2, <3>2
    <3>. QED
      BY <3>1, <3>2
  <2>. QED
    BY <2>2, <2>3 DEF SoundWallets
<1>4. CASE ~(k <= n + 1)
  <2>1. n + 1 \in 1..Len(rs) /\ n + 1 < k
    BY <1>1, <1>2, <1>4
  <2>. QED
    BY <1>2, <2>1
<1>. QED
  BY <1>3, <1>4

\* What an operation writes keeps the sender, unless the process was killed.
LEMMA SenderStep == LedgerInv /\ [Next]_vars => SenderKept
<1>. SUFFICES ASSUME LedgerInv, [Next]_vars, open, open', acked # Unsure,
                     mem'.active = mem.active,
                     \A i \in 1..(mem.active + 1) : mem.wallets[i] \in ToSet(mem'.wallets)
              PROVE  mem'.wallets[mem'.active + 1] = mem.wallets[mem.active + 1]
  BY DEF SenderKept
<1>1. /\ mem \in Content /\ SoundWallets(mem.wallets) /\ mem.active < Len(mem.wallets)
      /\ mem.active \in Nat /\ mem.wallets \in Seq(Wallets) /\ Len(mem.wallets) \in Nat
  BY DEF LedgerInv, MemoryInv, Sound, SoundWallets, Content
<1>2. ASSUME NEW pw, NEW d, NEW how \in Hows, Save(pw, d, how)
      PROVE  mem' = d
  BY <1>2 DEF Save, Close
<1>3. ASSUME NEW how \in Hows, NEW pw \in Passwords, NEW w \in Wallets, Create(pw, w, how)
      PROVE  mem'.wallets[mem'.active + 1] = mem.wallets[mem.active + 1]
  <2>1. mem'.wallets = <<w>> /\ mem'.active = 0
    BY <1>2, <1>3 DEF Create
  <2>2. mem.wallets[1] \in ToSet(<<w>>) /\ mem.active = 0
    BY <2>1
  <2>. QED
    BY <2>1, <2>2 DEF ToSet
<1>4. ASSUME NEW how \in Hows, NEW w \in Wallets, AddWallet(w, how)
      PROVE  mem'.wallets[mem'.active + 1] = mem.wallets[mem.active + 1]
  <2>1. mem' = [mem EXCEPT !.wallets = Append(@, w)]
    BY <1>2, <1>4 DEF AddWallet, Update
  <2>2. mem'.wallets = Append(mem.wallets, w)
    BY <1>1, <2>1 DEF Content
  <2>3. Append(mem.wallets, w)[mem.active + 1] = mem.wallets[mem.active + 1]
    BY <1>1
  <2>. QED
    BY <2>2, <2>3
<1>5. ASSUME NEW how \in Hows, NEW i \in 0..(MaxWallets - 1), RemoveWallet(i, how)
      PROVE  mem'.wallets[mem'.active + 1] = mem.wallets[mem.active + 1]
  <2>. DEFINE ws == RemoveAt(mem.wallets, i + 1)
  <2>1. i \in Nat /\ i + 1 \in 1..Len(mem.wallets)
    <3>1. i \in Nat
      BY LedgerAssumption
    <3>2. i < Len(mem.wallets)
      BY <1>5 DEF RemoveWallet
    <3>. QED
      BY <1>1, <3>1, <3>2
  <2>2. mem' = [mem EXCEPT !.wallets = ws, !.active = ActiveAfterRemoval(ws)]
    BY <1>2, <1>5 DEF RemoveWallet, Update
  <2>. HIDE DEF ws
  <2>3. mem'.wallets = ws
    BY <1>1, <2>2 DEF Content
  <2>4. \A j \in 1..(mem.active + 1) : mem.wallets[j] \in ToSet(ws)
    BY <2>3
  <2>5. ws = RemoveAt(mem.wallets, i + 1)
    BY DEF ws
  <2>6. ws[mem.active + 1] = mem.wallets[mem.active + 1]
    BY <1>1, <2>1, <2>4, <2>5, RemovalIsSeen
  <2>. QED
    BY <2>3, <2>6
<1>6. ASSUME NEW how \in Hows,
             \/ \E i \in 0..(MaxWallets - 1) : SetActiveWallet(i, how)
             \/ \E a \in Amounts : RecordSpend(a, how)
             \/ \E l \in Limits : UpdateSettings(l, how)
             \/ Keeping(how)
      PROVE  mem'.wallets = mem.wallets
  <2>1. ASSUME NEW i \in 0..(MaxWallets - 1), SetActiveWallet(i, how)
        PROVE  mem'.wallets = mem.wallets
    <3>1. mem' = [mem EXCEPT !.active = i]
      BY <1>2, <2>1 DEF SetActiveWallet, Update
    <3>. QED
      BY <1>1, <3>1 DEF Content
  <2>2. ASSUME NEW a \in Amounts, RecordSpend(a, how)
        PROVE  mem'.wallets = mem.wallets
    <3>1. PICK r \in Rounded(mem.spend[day].total + a) :
             Update([mem EXCEPT !.spend[day] = [total |-> r, sum |-> mem.spend[day].sum + a,
                        count |-> mem.spend[day].count + 1, cap |-> mem.limit]], how)
      BY <2>2 DEF RecordSpend
    <3>2. mem' = [mem EXCEPT !.spend[day] = [total |-> r, sum |-> mem.spend[day].sum + a,
                        count |-> mem.spend[day].count + 1, cap |-> mem.limit]]
      BY <1>2, <3>1 DEF Update
    <3>. QED
      BY <1>1, <3>2 DEF Content
  <2>3. ASSUME NEW l \in Limits, UpdateSettings(l, how)
        PROVE  mem'.wallets = mem.wallets
    <3>1. mem' = [mem EXCEPT !.limit = l]
      BY <1>2, <2>3 DEF UpdateSettings, Update
    <3>. QED
      BY <1>1, <3>1 DEF Content
  <2>4. ASSUME Keeping(how)
        PROVE  mem'.wallets = mem.wallets
    <3>1. PICK K \in SUBSET (Collections \X Items) : Update([mem EXCEPT !.kept = K], how)
      BY <1>1, <2>4, KeepingUpdates
    <3>2. mem' = [mem EXCEPT !.kept = K]
      BY <1>2, <3>1 DEF Update
    <3>. QED
      BY <1>1, <3>2 DEF Content
  <2>. QED
    BY <1>6, <2>1, <2>2, <2>3, <2>4
<1>7. ASSUME NEW pw \in Passwords, Unlock(pw)
      PROVE  mem' = mem
  <2>1. disk = [pw |-> key, data |-> mem]
    BY DEF LedgerInv, InStep
  <2>. QED
    BY <1>7, <2>1 DEF Unlock
<1>8. CASE NextDay \/ UNCHANGED vars
  BY <1>8 DEF NextDay, vars
<1>9. ~Lock
  BY DEF Lock, Close
<1>10. ASSUME NEW removed \in BOOLEAN, Destroy(removed)
       PROVE  FALSE
  BY <1>10 DEF Destroy, Close
<1>. QED
  BY <1>3, <1>4, <1>5, <1>6, <1>7, <1>8, <1>9, <1>10 DEF Next, Keeping

\* The wallet that sends changes only when another index is made active, or when
\* that wallet or one listed before it is removed.
THEOREM SenderStays == Spec => SenderIsKept
BY LedgerInvariant, SenderStep, PTL DEF Spec, SenderIsKept, SenderKept
=============================================================================
