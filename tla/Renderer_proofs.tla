--------------------------- MODULE Renderer_proofs --------------------------
(***************************************************************************)
(* The safety properties of the renderer.                                  *)
(*                                                                         *)
(* The screens of Screens.tla, however many calls, answers and events are  *)
(* on their way.  AutoLocks rests on fairness and is TLC's.                *)
(*                                                                         *)
(* The Send form of SendForm.tla, for any wallets, recipients and number   *)
(* of clicks, confirmations and instances of the form.                     *)
(***************************************************************************)
EXTENDS Screens, SendForm, TLAPS

-----------------------------------------------------------------------------
(* The inductive invariant                                                  *)

Calls == {"exists", "unlock", "resetFirst", "reset", "create", "import", "getWallets",
          "lock", "autoLockOn", "autoLockOff", "signal"}
Answers == {"no", "exists", "absent", "unlocked", "seed", "imported", "locked",
            "wallets", "refused", "reset", "auto-locked"}
Locks == {"auto-locked", "locked"}

\* What is due to be locked is open and has auto-lock on.
TimedInv ==
    /\ due => open /\ autoLock
    /\ due => timer \/ Contains(toUI, "unlocked") \/ Contains(toMain, "signal")

\* The news of a lock is behind every answer that will show the wallet.
ShownInv ==
    ~open /\ ~silent =>
        /\ screen = "ready" => \E j \in 1..Len(toUI) : toUI[j] \in Locks
        /\ \A i \in 1..Len(toUI) : toUI[i] \in {"unlocked", "wallets"} =>
               \E j \in (i + 1)..Len(toUI) : toUI[j] \in Locks

ScreensInv == TypeOK /\ TimedInv /\ ShownInv

-----------------------------------------------------------------------------
(* Queues                                                                   *)

\* What is appended is there, and so is all that was there before.
LEMMA Sent ==
    ASSUME NEW S, NEW q \in Seq(S), NEW e \in S
    PROVE  /\ Append(q, e) \in Seq(S)
           /\ Len(q) \in Nat /\ Len(Append(q, e)) = Len(q) + 1
           /\ Append(q, e)[Len(q) + 1] = e
           /\ \A i \in 1..Len(q) : Append(q, e)[i] = q[i]
           /\ Contains(Append(q, e), e)
           /\ \A x : Contains(q, x) => Contains(Append(q, e), x)
BY DEF Contains

\* What was behind the head is one place nearer to it.
LEMMA Received ==
    ASSUME NEW S, NEW q \in Seq(S), q # <<>>
    PROVE  /\ Tail(q) \in Seq(S) /\ Head(q) \in S /\ Head(q) = q[1]
           /\ Len(q) \in Nat \ {0} /\ Len(Tail(q)) = Len(q) - 1
           /\ \A i \in 1..Len(Tail(q)) : i + 1 \in 1..Len(q) /\ Tail(q)[i] = q[i + 1]
           /\ \A x : Contains(q, x) => x = Head(q) \/ Contains(Tail(q), x)
<1>1. /\ Tail(q) \in Seq(S) /\ Head(q) \in S /\ Head(q) = q[1]
      /\ Len(q) \in Nat \ {0} /\ Len(Tail(q)) = Len(q) - 1
      /\ \A i \in 1..Len(Tail(q)) : i + 1 \in 1..Len(q) /\ Tail(q)[i] = q[i + 1]
  OBVIOUS
<1>2. ASSUME NEW x, Contains(q, x), x # Head(q)
      PROVE  Contains(Tail(q), x)
  <2>1. PICK i \in 1..Len(q) : q[i] = x
    BY <1>2 DEF Contains
  <2>2. i # 1 /\ i - 1 \in 1..Len(Tail(q))
    BY <1>1, <1>2, <2>1
  <2>3. Tail(q)[i - 1] = x
    BY <1>1, <2>1, <2>2
  <2>. QED
    BY <2>2, <2>3 DEF Contains
<1>. QED
  BY <1>1, <1>2

\* After an answer that is no lock the news of a lock is where it was, and the
\* new answer shows nothing.
LEMMA AnswerKept ==
    ASSUME ScreensInv, NEW a \in Answers, a \notin {"unlocked", "wallets"},
           Answer(a), UNCHANGED <<screen, open, silent>>
    PROVE  ShownInv'
<1>1. toUI \in Seq(Answers)
  BY DEF ScreensInv, TypeOK, Answers
<1>2. /\ Len(toUI) \in Nat /\ Len(toUI') = Len(toUI) + 1 /\ toUI'[Len(toUI) + 1] = a
      /\ \A i \in 1..Len(toUI) : toUI'[i] = toUI[i]
  BY <1>1, Sent DEF Answer
<1>. QED
  BY <1>2 DEF ScreensInv, ShownInv

\* A lock that is told is behind all that went before.
LEMMA LockKept ==
    ASSUME ScreensInv, NEW a \in Locks, Answer(a)
    PROVE  ShownInv'
<1>1. toUI \in Seq(Answers) /\ a \in Answers
  BY DEF ScreensInv, TypeOK, Answers, Locks
<1>2. /\ Len(toUI) \in Nat /\ Len(toUI') = Len(toUI) + 1 /\ toUI'[Len(toUI) + 1] = a
  BY <1>1, Sent DEF Answer
<1>3. Len(toUI) + 1 \in 1..Len(toUI')
  BY <1>2
<1>4. \A i \in 1..Len(toUI') : i = Len(toUI) + 1 \/ Len(toUI) + 1 \in (i + 1)..Len(toUI')
  BY <1>2
<1>5. toUI'[Len(toUI) + 1] \notin {"unlocked", "wallets"}
  BY <1>2 DEF Locks
<1>. QED
  BY <1>2, <1>3, <1>4, <1>5 DEF ShownInv

-----------------------------------------------------------------------------
(* Steps                                                                    *)

\* A call is made: the queue to the main process grows.
LEMMA InvokeStep ==
    ASSUME ScreensInv, NEW call \in Calls, Invoke(call)
    PROVE  ScreensInv'
<1>1. toMain \in Seq(Calls)
  BY DEF ScreensInv, TypeOK, Calls
<1>2. /\ toMain' \in Seq(Calls)
      /\ \A x : Contains(toMain, x) => Contains(toMain', x)
  BY <1>1, Sent DEF Invoke
<1>3. /\ UNCHANGED <<mainVars, uiVars, toUI, due, silent>>
      /\ calls' \in 0..MaxCalls
  BY ScreensAssumption DEF Invoke, ScreensInv, TypeOK
<1>4. TypeOK'
  BY <1>2, <1>3 DEF ScreensInv, TypeOK, mainVars, uiVars, Calls
<1>5. TimedInv'
  BY <1>2, <1>3 DEF ScreensInv, TimedInv, mainVars
<1>6. ShownInv'
  BY <1>3 DEF ScreensInv, ShownInv, mainVars, uiVars
<1>. QED
  BY <1>4, <1>5, <1>6 DEF ScreensInv

\* What an answer is told by the main process does to the queue of answers.
LEMMA AnswerTypes ==
    ASSUME ScreensInv, NEW a \in Answers, Answer(a)
    PROVE  /\ toUI' \in Seq(Answers)
           /\ Contains(toUI', a)
           /\ \A x : Contains(toUI, x) => Contains(toUI', x)
<1>1. toUI \in Seq(Answers)
  BY DEF ScreensInv, TypeOK, Answers
<1>. QED
  BY <1>1, Sent DEF Answer

\* A call is handled: the news is told, the timer set, or neither.
LEMMA HandleStep ==
    ASSUME ScreensInv, Handle
    PROVE  ScreensInv'
<1>1. toMain \in Seq(Calls) /\ toMain # <<>> /\ toMain' = Tail(toMain)
  BY DEF ScreensInv, TypeOK, Calls, Handle
<1>2. /\ toMain' \in Seq(Calls)
      /\ \A x : Contains(toMain, x) => x = Head(toMain) \/ Contains(toMain', x)
  BY <1>1, Received
<1>3. UNCHANGED <<screen, seed, listening, calls>>
  BY DEF Handle, uiVars
<1>4. SUFFICES ASSUME NEW call, call = Head(toMain)
               PROVE  ScreensInv'
  BY <1>1
<1>5. CASE call = "signal" /\ ResetAutoLock /\ UNCHANGED <<exists, open, autoLock, toUI, due, silent>>
  <2>1. TypeOK'
    BY <1>2, <1>3, <1>5 DEF ScreensInv, TypeOK, ResetAutoLock, Calls
  <2>2. TimedInv'
    BY <1>5 DEF ScreensInv, TimedInv, ResetAutoLock
  <2>3. ShownInv'
    BY <1>3, <1>5 DEF ScreensInv, ShownInv
  <2>. QED
    BY <2>1, <2>2, <2>3 DEF ScreensInv
<1>6. ASSUME NEW a \in Answers, Answer(a), call # "signal",
             exists' \in BOOLEAN, autoLock' \in BOOLEAN, open' \in BOOLEAN, due' \in BOOLEAN,
             silent' \in BOOLEAN, timer' = timer,
             open' => exists',
             due' => /\ open' /\ autoLock'
                     /\ due \/ a = "unlocked",
             \/ open' /\ silent' = silent
             \/ a \in Locks
             \/ a \notin {"unlocked", "wallets"} /\ UNCHANGED <<open, silent>>
      PROVE  ScreensInv'
  <2>1. /\ toUI' \in Seq(Answers)
        /\ Contains(toUI', a)
        /\ \A x : Contains(toUI, x) => Contains(toUI', x)
    BY <1>6, AnswerTypes
  <2>2. TypeOK'
    BY <1>2, <1>3, <1>6, <2>1 DEF ScreensInv, TypeOK, Calls, Answers
  <2>3. TimedInv'
    BY <1>2, <1>4, <1>6, <2>1 DEF ScreensInv, TimedInv
  <2>4. ShownInv'
    <3>1. CASE open'
      BY <3>1 DEF ShownInv
    <3>2. CASE a \in Locks
      BY <1>6, <3>2, LockKept
    <3>3. CASE a \notin {"unlocked", "wallets"} /\ UNCHANGED <<open, silent>>
      BY <1>3, <1>6, <3>3, AnswerKept
    <3>. QED
      BY <1>6, <3>1, <3>2, <3>3
  <2>. QED
    BY <2>2, <2>3, <2>4 DEF ScreensInv
<1>7. /\ exists \in BOOLEAN /\ autoLock \in BOOLEAN /\ open \in BOOLEAN /\ due \in BOOLEAN
      /\ silent \in BOOLEAN /\ (open => exists) /\ (due => open /\ autoLock)
  BY DEF ScreensInv, TypeOK, TimedInv
<1>8. CASE \E a \in Answers :
              /\ Answer(a) /\ call # "signal" /\ UNCHANGED <<mainVars, due, silent>>
              /\ a \notin {"unlocked", "wallets"} \/ open
  BY <1>6, <1>7, <1>8 DEF mainVars
<1>9. CASE call = "unlock" /\ HandleUnlock
  <2>1. CASE Answer("no") /\ UNCHANGED <<mainVars, due, silent>>
    BY <1>8, <1>9, <2>1 DEF Answers
  <2>2. CASE /\ exists /\ open' = TRUE /\ due' = autoLock /\ Answer("unlocked")
             /\ UNCHANGED <<exists, autoLock, timer, silent>>
    BY <1>6, <1>7, <1>9, <2>2 DEF Answers
  <2>. QED
    BY <1>9, <2>1, <2>2 DEF HandleUnlock
<1>10. CASE call \in {"create", "import"} /\ HandleCreate(call)
  BY <1>6, <1>7, <1>10 DEF HandleCreate, Answers
<1>11. CASE call = "lock" /\ HandleLock
  BY <1>6, <1>7, <1>11 DEF HandleLock, Answers, Locks
<1>12. CASE call \in {"autoLockOn", "autoLockOff"} /\ HandleSetting(call = "autoLockOn")
  BY <1>6, <1>7, <1>12 DEF HandleSetting, Answers
<1>. QED
  BY <1>4, <1>5, <1>8, <1>9, <1>10, <1>11, <1>12 DEF Handle, Answers

\* The timer fires, the screen is locked or the machine suspended: what is
\* locked is told, but for the suspension.
LEMMA LockStep ==
    ASSUME ScreensInv, Fire \/ ScreenLock \/ Suspend
    PROVE  ScreensInv'
<1>1. /\ UNCHANGED <<exists, autoLock, screen, seed, listening, toMain, calls>>
      /\ timer' \in BOOLEAN
      /\ timer' = timer \/ ~open \/ ~open'
  BY DEF Fire, ScreenLock, Suspend, LockTold, uiVars, ScreensInv, TypeOK
<1>2. \/ LockTold
      \/ UNCHANGED <<open, toUI, due, silent>>
      \/ open' = FALSE /\ due' = FALSE /\ silent' = TRUE /\ toUI' = toUI
  BY DEF Fire, ScreenLock, Suspend
<1>3. TypeOK'
  <2>1. CASE LockTold
    <3>1. "auto-locked" \in Answers /\ Answer("auto-locked")
      BY <2>1 DEF LockTold, Answers
    <3>2. toUI' \in Seq(Answers)
      BY <3>1, AnswerTypes
    <3>. QED
      BY <1>1, <2>1, <3>2 DEF LockTold, ScreensInv, TypeOK, Answers
  <2>2. CASE UNCHANGED <<open, toUI, due, silent>>
    BY <1>1, <2>2 DEF ScreensInv, TypeOK
  <2>3. CASE open' = FALSE /\ due' = FALSE /\ silent' = TRUE /\ toUI' = toUI
    BY <1>1, <2>3 DEF ScreensInv, TypeOK
  <2>. QED
    BY <1>2, <2>1, <2>2, <2>3
<1>4. TimedInv'
  BY <1>1, <1>2 DEF LockTold, ScreensInv, TimedInv, TypeOK
<1>5. ShownInv'
  <2>1. CASE LockTold
    <3>1. "auto-locked" \in Locks /\ Answer("auto-locked")
      BY <2>1 DEF LockTold, Locks
    <3>. QED
      BY <3>1, LockKept
  <2>2. CASE UNCHANGED <<open, toUI, due, silent>>
    BY <1>1, <2>2 DEF ScreensInv, ShownInv
  <2>3. CASE silent' = TRUE
    BY <2>3 DEF ShownInv
  <2>. QED
    BY <1>2, <2>1, <2>2, <2>3
<1>. QED
  BY <1>3, <1>4, <1>5 DEF ScreensInv

\* What the renderer keeps.
LEMMA ScreenTypes ==
    ScreensInv => /\ screen \in {"loading", "onboard", "unlock", "ready"} /\ seed \in BOOLEAN
                  /\ seed => screen = "onboard"
                  /\ listening \in BOOLEAN /\ silent \in BOOLEAN /\ open \in BOOLEAN
BY DEF ScreensInv, TypeOK

\* An answer or an event arrives: one that shows the wallet has the news behind
\* it, and the news takes the wallet off the screen or finds nobody listening.
LEMMA DeliverStep ==
    ASSUME ScreensInv, Deliver
    PROVE  ScreensInv'
<1>1. toUI \in Seq(Answers) /\ toUI # <<>> /\ toUI' = Tail(toUI) /\ toMain \in Seq(Calls)
  BY DEF ScreensInv, TypeOK, Answers, Calls, Deliver
<1>2. /\ toUI' \in Seq(Answers) /\ Head(toUI) \in Answers /\ Head(toUI) = toUI[1]
      /\ Len(toUI) \in Nat \ {0} /\ Len(toUI') = Len(toUI) - 1
      /\ \A i \in 1..Len(toUI') : i + 1 \in 1..Len(toUI) /\ toUI'[i] = toUI[i + 1]
      /\ \A x : Contains(toUI, x) => x = Head(toUI) \/ Contains(toUI', x)
  BY <1>1, Received
<1>3. UNCHANGED <<exists, open, autoLock, timer, calls, due>>
  BY DEF Deliver, mainVars
<1>4. PICK a \in Answers : a = Head(toUI)
  BY <1>2
<1>5. /\ toMain' \in Seq(Calls)
      /\ \A x : Contains(toMain, x) => Contains(toMain', x)
      /\ a = "unlocked" => Contains(toMain', "signal")
  <2>1. \A c \in {"signal", "getWallets", "reset"} :
           toMain' = Append(toMain, c) =>
              /\ toMain' \in Seq(Calls)
              /\ \A x : Contains(toMain, x) => Contains(toMain', x)
              /\ Contains(toMain', c)
    <3>1. {"signal", "getWallets", "reset"} \subseteq Calls
      BY DEF Calls
    <3>. QED
      BY <1>1, <3>1, Sent
  <2>2. \/ toMain' = toMain /\ a # "unlocked"
        \/ \E c \in {"getWallets", "reset"} : toMain' = Append(toMain, c) /\ a # "unlocked"
        \/ toMain' = Append(toMain, "signal")
    BY <1>4 DEF Deliver, OnUnlocked, OnAnswerCreate, OnAutoLocked, uiVars
  <2>. QED
    BY <1>1, <2>1, <2>2
<1>6. /\ screen' \in {"loading", "onboard", "unlock", "ready"} /\ seed' \in BOOLEAN
      /\ seed' => screen' = "onboard"
      /\ listening' = listening /\ silent' \in BOOLEAN
      /\ silent => silent'
      /\ screen' = "ready" => \/ a \in {"unlocked", "wallets"}
                              \/ screen = "ready" /\ a \notin Locks
                              \/ a = "auto-locked" /\ (open \/ silent')
  <2>1. /\ screen \in {"loading", "onboard", "unlock", "ready"} /\ seed \in BOOLEAN
        /\ seed => screen = "onboard"
        /\ listening \in BOOLEAN /\ silent \in BOOLEAN /\ open \in BOOLEAN
    BY ScreenTypes
  <2>2. CASE /\ UNCHANGED <<screen, seed, listening, silent>>
             /\ a \notin Locks
    <3>1. /\ screen' = screen /\ seed' = seed /\ listening' = listening /\ silent' = silent
      BY <2>2
    <3>2. screen' = "ready" => screen = "ready" /\ a \notin Locks
      BY <2>2, <3>1
    <3>. QED
      BY <2>1, <3>1, <3>2
  <2>3. CASE /\ \/ a = "unlocked" /\ Show("ready")
                \/ a \in {"exists", "locked"} /\ Show("unlock")
                \/ a = "wallets" /\ Show("ready")
                \/ a \in {"absent", "reset"} /\ Show("onboard")
             /\ UNCHANGED <<listening, silent>>
    BY <2>1, <2>3 DEF Show, Locks
  <2>4. CASE /\ a = "seed"
             /\ seed' = (seed \/ screen = "onboard")
             /\ UNCHANGED <<screen, listening, silent>>
    BY <2>1, <2>4 DEF Locks
  <2>5. CASE a = "auto-locked" /\ OnAutoLocked
    <3>1. /\ silent' \in BOOLEAN /\ (silent => silent')
          /\ ~listening => open \/ silent'
      BY <2>1, <2>5 DEF OnAutoLocked
    <3>2. CASE listening
      BY <2>1, <2>5, <3>1, <3>2 DEF OnAutoLocked, Show
    <3>3. CASE ~listening
      BY <2>1, <2>5, <3>1, <3>3 DEF OnAutoLocked
    <3>. QED
      BY <3>2, <3>3
  <2>. QED
    BY <1>4, <2>2, <2>3, <2>4, <2>5 DEF Deliver, OnUnlocked, OnAnswerCreate, uiVars, Locks
<1>7. TypeOK'
  BY <1>2, <1>3, <1>5, <1>6 DEF ScreensInv, TypeOK, Calls, Answers
<1>8. TimedInv'
  BY <1>2, <1>3, <1>4, <1>5 DEF ScreensInv, TimedInv
<1>9. ShownInv'
  <2>. SUFFICES ASSUME ~open, ~silent'
                PROVE  /\ screen' = "ready" => \E j \in 1..Len(toUI') : toUI'[j] \in Locks
                       /\ \A i \in 1..Len(toUI') : toUI'[i] \in {"unlocked", "wallets"} =>
                              \E j \in (i + 1)..Len(toUI') : toUI'[j] \in Locks
    BY <1>3 DEF ShownInv
  <2>1. /\ screen = "ready" => \E j \in 1..Len(toUI) : toUI[j] \in Locks
        /\ \A i \in 1..Len(toUI) : toUI[i] \in {"unlocked", "wallets"} =>
               \E j \in (i + 1)..Len(toUI) : toUI[j] \in Locks
    BY <1>6 DEF ScreensInv, ShownInv
  <2>2. ASSUME NEW i \in Nat, NEW j \in (i + 2)..Len(toUI), toUI[j] \in Locks
        PROVE  \E k \in (i + 1)..Len(toUI') : toUI'[k] \in Locks
    <3>1. j - 1 \in (i + 1)..Len(toUI') /\ j - 1 \in 1..Len(toUI') /\ (j - 1) + 1 = j
      BY <1>2, <2>2
    <3>2. toUI'[j - 1] = toUI[j]
      BY <1>2, <3>1
    <3>. QED
      BY <2>2, <3>1, <3>2
  <2>3. ASSUME screen' = "ready"
        PROVE  \E k \in 1..Len(toUI') : toUI'[k] \in Locks
    <3>1. a \in {"unlocked", "wallets"} \/ (screen = "ready" /\ a \notin Locks)
      BY <1>6, <2>3
    <3>2. PICK j \in 1..Len(toUI) : toUI[j] \in Locks
      BY <1>2, <1>4, <2>1, <3>1
    <3>3. a \notin Locks
      BY <3>1 DEF Locks
    <3>4. j \in (0 + 2)..Len(toUI)
      BY <1>2, <1>4, <3>2, <3>3
    <3>5. \E k \in (0 + 1)..Len(toUI') : toUI'[k] \in Locks
      BY <2>2, <3>2, <3>4
    <3>. QED
      BY <3>5
  <2>4. ASSUME NEW i \in 1..Len(toUI'), toUI'[i] \in {"unlocked", "wallets"}
        PROVE  \E j \in (i + 1)..Len(toUI') : toUI'[j] \in Locks
    <3>1. i + 1 \in 1..Len(toUI) /\ toUI[i + 1] \in {"unlocked", "wallets"} /\ i \in Nat
      BY <1>2, <2>4
    <3>2. PICK j \in ((i + 1) + 1)..Len(toUI) : toUI[j] \in Locks
      BY <2>1, <3>1
    <3>3. j \in (i + 2)..Len(toUI)
      BY <3>1, <3>2, <1>2
    <3>. QED
      BY <2>2, <3>1, <3>2, <3>3
  <2>. QED
    BY <2>3, <2>4
<1>. QED
  BY <1>7, <1>8, <1>9 DEF ScreensInv

-----------------------------------------------------------------------------
(* Theorems                                                                 *)

\* At the start the ledger is closed and nothing is shown.
LEMMA ScreensInit == Init => ScreensInv
<1>. SUFFICES ASSUME Init PROVE ScreensInv
  OBVIOUS
<1>1. TypeOK
  <2>1. toMain \in Seq(Calls) /\ toUI \in Seq(Answers)
    <3>1. "exists" \in Calls
      BY DEF Calls
    <3>. QED
      BY <3>1 DEF Init
  <2>2. 0 \in 0..MaxCalls
    BY ScreensAssumption
  <2>3. /\ exists \in BOOLEAN /\ open \in BOOLEAN /\ autoLock \in BOOLEAN /\ timer \in BOOLEAN
        /\ open = FALSE /\ seed = FALSE /\ listening \in BOOLEAN
        /\ screen = "loading" /\ calls = 0 /\ due \in BOOLEAN /\ silent \in BOOLEAN
    BY DEF Init
  <2>. QED
    BY <2>1, <2>2, <2>3 DEF TypeOK, Calls, Answers
<1>2. TimedInv /\ ShownInv
  BY DEF Init, TimedInv, ShownInv
<1>. QED
  BY <1>1, <1>2 DEF ScreensInv

\* Every step keeps the invariant.
LEMMA ScreensStep == ScreensInv /\ [Next]_vars => ScreensInv'
<1>. SUFFICES ASSUME ScreensInv, [Next]_vars
              PROVE  ScreensInv'
  OBVIOUS
<1>1. ASSUME NEW call \in Calls, Invoke(call)
      PROVE  ScreensInv'
  BY <1>1, InvokeStep
<1>2. CASE \/ ClickUnlock \/ ClickReset \/ ConfirmSeed
           \/ \E how \in {"create", "import"} : ClickCreate(how)
           \/ \E call \in {"lock", "reset", "autoLockOn", "autoLockOff"} : ClickSettings(call)
  BY <1>1, <1>2 DEF ClickUnlock, ClickReset, ConfirmSeed, ClickCreate, ClickSettings, Calls
<1>3. CASE Handle
  BY <1>3, HandleStep
<1>4. CASE Fire \/ ScreenLock \/ Suspend
  BY <1>4, LockStep
<1>5. CASE Deliver
  BY <1>5, DeliverStep
<1>6. CASE Listen
  <2>1. TypeOK'
    BY <1>6 DEF Listen, mainVars, ScreensInv, TypeOK
  <2>2. TimedInv' /\ ShownInv'
    BY <1>6 DEF Listen, mainVars, ScreensInv, TimedInv, ShownInv
  <2>. QED
    BY <2>1, <2>2 DEF ScreensInv
<1>7. CASE UNCHANGED vars
  <2>1. TypeOK'
    BY <1>7 DEF vars, mainVars, uiVars, ScreensInv, TypeOK
  <2>2. TimedInv' /\ ShownInv'
    BY <1>7 DEF vars, mainVars, uiVars, ScreensInv, TimedInv, ShownInv
  <2>. QED
    BY <2>1, <2>2 DEF ScreensInv
<1>. QED
  BY <1>2, <1>3, <1>4, <1>5, <1>6, <1>7 DEF Next

\* The invariant holds throughout, fairness or not.
LEMMA ScreensInvariant == Spec => []ScreensInv
BY ScreensInit, ScreensStep, PTL DEF Spec

\* The main process is open on an existing ledger only, the seed phrase is
\* shown by the onboarding only, and the channels carry what is theirs.
THEOREM TypeCorrect == Spec => []TypeOK
<1>1. ScreensInv => TypeOK
  BY DEF ScreensInv
<1>. QED
  BY <1>1, ScreensInvariant, PTL

\* A ledger opened by a password, with auto-lock on since, has its timer or the
\* signal that sets it is under way (main.js resetAutoLock).
THEOREM OpenIsTimed == Spec => []UnlockedIsTimed
<1>1. ScreensInv => UnlockedIsTimed
  BY DEF ScreensInv, TimedInv, UnlockedIsTimed
<1>. QED
  BY <1>1, ScreensInvariant, PTL

\* The wallet is shown over a locked ledger only until the news arrives, unless
\* the machine was suspended or nobody listened (WalletContext.jsx).
THEOREM LockReachesScreen == Spec => []LockIsShown
<1>1. ScreensInv => LockIsShown
  BY DEF ScreensInv, ShownInv, LockIsShown, Contains, Locks
<1>. QED
  BY <1>1, ScreensInvariant, PTL

-----------------------------------------------------------------------------
(* The Send form: the inductive invariant                                   *)

\* A call that no answer came to yet, or whose answer is on its way.  Nothing
\* calls submit.
FormCalls == [call : {"prepare", "confirm", "token", "coin"}, id : 0..MaxClicks, kind : Kinds,
              input : Inputs, no : 0..MaxConfirms, inst : Nat, answer : {"none", "ok", "error"}]

\* Whoever opens the modal for an EVM coin has prepared; what a call says of its
\* kind; and an instance that waits for an answer has something typed.
CallsInv ==
    /\ pending \in SUBSET FormCalls
    /\ form.modal /\ form.kind = "native" => form.prepareId # NoId
    /\ \A c \in pending :
         /\ c.call = "prepare" => c.id \in 1..clicks
         /\ c.call # "prepare" => (c.kind = "native" <=> c.call = "confirm")
         /\ c.inst <= inst
         /\ c.inst = inst => form.input # Blank

\* The id of a click is with the call that prepares it, or with what is prepared,
\* or with what was broadcast, and with one of those only.
Preparing(c) == c.call = "prepare" /\ c.answer = "none"
Confirmed(t) == t.by = "confirm"
ClicksInv ==
    /\ \A c \in pending : Preparing(c) =>
         /\ \A d \in pending : Preparing(d) /\ d.id = c.id => d = c
         /\ \A p \in prepareStore : p.id # c.id
         /\ \A t \in sent : Confirmed(t) => t.id # c.id
    /\ \A p \in prepareStore :
         /\ p.id \in 1..clicks
         /\ \A q \in prepareStore : q.id = p.id => q = p
         /\ \A t \in sent : Confirmed(t) => t.id # p.id
    /\ \A t \in sent :
         /\ t.kind = "native" <=> Confirmed(t)
         /\ Confirmed(t) => t.id \in 1..clicks
         /\ Confirmed(t) => \A u \in sent : Confirmed(u) /\ u.id = t.id => u = t

FormInv == FormTypeOK /\ CallsInv /\ ClicksInv

\* the form of FormTypeOK
\* the form of FormTypeOK
\* the form of FormTypeOK
\* the form of FormTypeOK
FormRecord == [kind : Kinds, input : Inputs \cup {Blank}, prepareId : 0..MaxClicks,
               modal : BOOLEAN, sending : BOOLEAN]

\* At the start nothing is typed and nothing called.
\* At the start nothing is typed and nothing called.
\* At the start nothing is typed and nothing called.
\* At the start nothing is typed and nothing called.
LEMMA FormInvInit == FormInit => FormInv
<1>. SUFFICES ASSUME FormInit PROVE FormInv
  OBVIOUS
<1>1. FormTypeOK
  BY SendFormAssumption DEF FormInit, FormTypeOK, NewForm, NoId, Kinds
<1>2. CallsInv /\ ClicksInv
  BY DEF FormInit, CallsInv, ClicksInv, NewForm
<1>. QED
  BY <1>1, <1>2 DEF FormInv

-----------------------------------------------------------------------------
(* The Send form: the steps                                                 *)

\* An answer changes nothing but the answer.
LEMMA Answered ==
    ASSUME CallsInv, NEW c \in pending, NEW a \in {"ok", "error"}, AnswerCall(c, a)
    PROVE  /\ pending' \in SUBSET FormCalls
           /\ \A d \in pending' : \/ d \in pending
                                  \/ /\ d.call = c.call /\ d.id = c.id /\ d.kind = c.kind
                                     /\ d.inst = c.inst /\ d.answer = a
           /\ \A d \in pending' : Preparing(d) => d \in pending /\ d # c
<1>. DEFINE e == [c EXCEPT !.answer = a]
<1>1. c \in FormCalls
  BY DEF CallsInv
<1>2. /\ e \in FormCalls /\ e.call = c.call /\ e.id = c.id /\ e.kind = c.kind
      /\ e.inst = c.inst /\ e.answer = a
  BY <1>1 DEF FormCalls
<1>3. pending' = (pending \ {c}) \cup {e}
  BY DEF AnswerCall
<1>. HIDE DEF e
<1>. QED
  BY <1>2, <1>3 DEF CallsInv, Preparing

\* What an answer to a call of an instance makes of the form.
LEMMA SettledForm ==
    ASSUME FormTypeOK, CallsInv, NEW c \in pending, c.answer # "none", c.inst = inst
    PROVE  /\ Settled(c) \in [kind : Kinds, input : Inputs \cup {Blank},
                              prepareId : 0..MaxClicks, modal : BOOLEAN, sending : BOOLEAN]
           /\ Settled(c).input = form.input
           /\ Settled(c).modal /\ Settled(c).kind = "native" => Settled(c).prepareId # NoId
<1>1. c \in FormCalls
  BY DEF CallsInv
<1>2. /\ c.id \in 0..MaxClicks /\ c.answer \in {"ok", "error"}
      /\ c.call = "prepare" => c.id # 0
  BY <1>1 DEF FormCalls, CallsInv
<1>3. CASE c.call = "prepare" /\ c.answer = "ok"
  <2>1. Settled(c) = [form EXCEPT !.prepareId = c.id, !.modal = TRUE]
    BY <1>3 DEF Settled
  <2>. QED
    BY <1>2, <1>3, <2>1 DEF FormTypeOK, NoId
<1>4. CASE c.call = "prepare" /\ c.answer = "error"
  <2>1. Settled(c) = form
    BY <1>4 DEF Settled
  <2>. QED
    BY <2>1 DEF FormTypeOK, CallsInv
<1>5. CASE c.call # "prepare"
  <2>. DEFINE id == IF c.answer = "ok" THEN NoId ELSE form.prepareId
  <2>1. Settled(c) = [form EXCEPT !.sending = FALSE, !.modal = FALSE, !.prepareId = id]
    BY <1>5 DEF Settled
  <2>2. id \in 0..MaxClicks
    BY SendFormAssumption DEF FormTypeOK, NoId
  <2>. HIDE DEF id
  <2>. QED
    BY <2>1, <2>2 DEF FormTypeOK
<1>. QED
  BY <1>2, <1>3, <1>4, <1>5

\* What the user does.
LEMMA UserKeeps ==
    ASSUME FormInv,
           \/ \E kind \in Kinds, input \in Inputs : Edit(kind, input)
           \/ RequestSend \/ ConfirmSend \/ Cancel
    PROVE  FormInv'
<1>1. FormTypeOK /\ CallsInv /\ ClicksInv
  BY DEF FormInv
<1>2. ASSUME NEW kind \in Kinds, NEW input \in Inputs, Edit(kind, input)
      PROVE  FormInv'
  <2>1. input # Blank
    BY SendFormAssumption DEF Inputs
  <2>2. FormTypeOK'
    BY <1>1, <1>2, <2>1 DEF FormTypeOK, Edit
  <2>3. CallsInv'
    BY <1>1, <1>2, <2>1 DEF FormTypeOK, CallsInv, Edit
  <2>4. ClicksInv'
    BY <1>1, <1>2 DEF ClicksInv, Edit
  <2>. QED
    BY <2>2, <2>3, <2>4 DEF FormInv
<1>3. CASE RequestSend
  <2>1. /\ clicks' = clicks + 1 /\ clicks' \in 1..MaxClicks /\ form.input \in Inputs
        /\ UNCHANGED <<initialized, active, inst, prepareStore, confirms, sent>>
        /\ clicks \in 0..MaxClicks
    BY <1>1, <1>3, SendFormAssumption DEF RequestSend, FormTypeOK
  <2>2. CASE form.kind = "native"
    <3>. DEFINE c == Call("prepare", clicks')
    <3>1. /\ c \in FormCalls /\ c.call = "prepare" /\ c.id = clicks + 1 /\ c.inst = inst
      BY <1>1, <2>1 DEF FormTypeOK, FormCalls, Call
    <3>2. pending' = pending \cup {c} /\ form' = form
      BY <1>3, <2>2 DEF RequestSend
    <3>. HIDE DEF c
    <3>3. FormTypeOK'
      BY <1>1, <2>1, <3>2 DEF FormTypeOK
    <3>4. CallsInv'
      BY <1>1, <1>3, <2>1, <3>1, <3>2 DEF CallsInv, FormTypeOK, RequestSend
    <3>5. ClicksInv'
      <4>1. /\ \A d \in pending : Preparing(d) => d.id # c.id
            /\ \A p \in prepareStore : p.id # c.id
            /\ \A t \in sent : Confirmed(t) => t.id # c.id
        BY <1>1, <2>1, <3>1 DEF CallsInv, ClicksInv, Preparing
      <4>2. 1..clicks \subseteq 1..clicks'
        BY <2>1
      <4>. QED
        BY <1>1, <2>1, <3>2, <4>1, <4>2 DEF ClicksInv, Preparing, Confirmed
    <3>. QED
      BY <3>3, <3>4, <3>5 DEF FormInv
  <2>3. CASE form.kind # "native"
    <3>1. pending' = pending /\ form' = [form EXCEPT !.modal = TRUE]
      BY <1>3, <2>3 DEF RequestSend
    <3>2. FormTypeOK'
      <4>1. form' \in FormRecord /\ form'.input = form.input /\ form.input # Blank
        BY <1>1, <1>3, <3>1 DEF FormTypeOK, FormRecord, RequestSend
      <4>. QED
        BY <1>1, <2>1, <4>1 DEF FormTypeOK, FormRecord
    <3>3. 1..clicks \subseteq 1..clicks'
      BY <2>1
    <3>4. CallsInv'
      BY <1>1, <2>1, <2>3, <3>1, <3>3 DEF CallsInv, FormTypeOK
    <3>5. ClicksInv'
      BY <1>1, <2>1, <3>1, <3>3 DEF ClicksInv, Confirmed
    <3>. QED
      BY <3>2, <3>4, <3>5 DEF FormInv
  <2>. QED
    BY <2>2, <2>3
<1>4. CASE ConfirmSend
  <2>. DEFINE what == IF form.kind # "native" THEN form.kind
                      ELSE IF form.prepareId # NoId THEN "confirm" ELSE "submit"
              c == Call(what, form.prepareId)
  <2>1. /\ what \in {"confirm", "token", "coin"}
        /\ form.kind = "native" <=> what = "confirm"
    BY <1>1, <1>4 DEF ConfirmSend, CallsInv, FormTypeOK, Kinds
  <2>. HIDE DEF what
  <2>2. /\ c \in FormCalls /\ c.call = what /\ c.kind = form.kind /\ c.inst = inst
    BY <1>1, <1>4, <2>1 DEF ConfirmSend, FormTypeOK, FormCalls, Call
  <2>3. /\ pending' = pending \cup {c} /\ form' = [form EXCEPT !.sending = TRUE]
        /\ confirms' = confirms + 1 /\ confirms < MaxConfirms
        /\ form.modal
        /\ UNCHANGED <<initialized, active, inst, prepareStore, clicks, sent>>
    BY <1>4 DEF ConfirmSend, what
  <2>. HIDE DEF c
  <2>4. FormTypeOK'
    <3>1. form' \in FormRecord /\ form'.input = form.input /\ form.input # Blank
      BY <1>1, <2>3 DEF FormTypeOK, FormRecord
    <3>2. confirms' \in 0..MaxConfirms
      BY <1>1, <2>3, SendFormAssumption DEF FormTypeOK
    <3>. QED
      BY <1>1, <2>3, <3>1, <3>2 DEF FormTypeOK, FormRecord
  <2>5. CallsInv'
    BY <1>1, <2>1, <2>2, <2>3 DEF CallsInv, FormTypeOK
  <2>6. ClicksInv'
    BY <1>1, <2>1, <2>2, <2>3 DEF ClicksInv, Preparing, Confirmed
  <2>. QED
    BY <2>4, <2>5, <2>6 DEF FormInv
<1>5. CASE Cancel
  <2>1. FormTypeOK'
    <3>1. form' = [form EXCEPT !.modal = FALSE, !.prepareId = 0]
      BY <1>5 DEF Cancel, NoId
    <3>2. form \in FormRecord /\ 0 \in 0..MaxClicks
      BY <1>1, SendFormAssumption DEF FormTypeOK, FormRecord
    <3>3. form' \in FormRecord
      BY <3>1, <3>2 DEF FormRecord
    <3>4. form'.modal = FALSE
      BY <3>1, <3>2 DEF FormRecord
    <3>. QED
      BY <1>1, <1>5, <3>3, <3>4 DEF Cancel, FormTypeOK, FormRecord
  <2>2. CallsInv'
    BY <1>1, <1>5 DEF Cancel, FormTypeOK, CallsInv
  <2>3. ClicksInv'
    BY <1>1, <1>5 DEF Cancel, ClicksInv
  <2>. QED
    BY <2>1, <2>2, <2>3 DEF FormInv
<1>. QED
  BY <1>2, <1>3, <1>4, <1>5

\* What the main process does with a call.
LEMMA HandledKeeps ==
    ASSUME FormInv, HandleCall
    PROVE  FormInv'
<1>1. FormTypeOK /\ CallsInv /\ ClicksInv
  BY DEF FormInv
<1>2. UNCHANGED <<initialized, active, form, inst, clicks, confirms>>
  BY DEF HandleCall
<1>3. PICK c \in pending :
        /\ c.answer = "none"
        /\ HandlePrepare(c) \/ HandleConfirm(c) \/ HandleSubmit(c)
             \/ HandleTransfer(c) \/ HandleCoin(c)
  BY DEF HandleCall
<1>4. c \in FormCalls /\ c.id \in 0..MaxClicks /\ c.input \in Inputs /\ c.answer = "none"
  BY <1>1, <1>3 DEF CallsInv, FormCalls
<1>5. ASSUME NEW a \in {"ok", "error"}, AnswerCall(c, a)
      PROVE  CallsInv'
  <2>1. /\ pending' \in SUBSET FormCalls
        /\ \A d \in pending' : \/ d \in pending
                               \/ /\ d.call = c.call /\ d.id = c.id /\ d.kind = c.kind
                                  /\ d.inst = c.inst /\ d.answer = a
    BY <1>1, <1>5, Answered
  <2>. QED
    BY <1>1, <1>2, <2>1 DEF CallsInv
<1>6. ASSUME NEW a \in {"ok", "error"}, AnswerCall(c, a),
             prepareStore' \in SUBSET prepareStore, UNCHANGED sent
      PROVE  FormInv'
  <2>1. \A d \in pending' : Preparing(d) => d \in pending
    BY <1>1, <1>6, Answered
  <2>2. FormTypeOK'
    BY <1>1, <1>2, <1>6 DEF FormTypeOK
  <2>3. ClicksInv'
    BY <1>1, <1>2, <1>6, <2>1 DEF ClicksInv
  <2>. QED
    BY <1>5, <1>6, <2>2, <2>3 DEF FormInv
<1>7. ASSUME c.call = "prepare", AnswerCall(c, "ok"), UNCHANGED sent,
             prepareStore' = prepareStore \cup {[id |-> c.id, input |-> c.input]}
      PROVE  FormInv'
  <2>. DEFINE p == [id |-> c.id, input |-> c.input]
  <2>1. c.id \in 1..clicks /\ c.id \in 1..MaxClicks /\ Preparing(c)
    BY <1>1, <1>3, <1>4, <1>7 DEF CallsInv, FormTypeOK, Preparing
  <2>2. p.id = c.id /\ p \in [id : 1..MaxClicks, input : Inputs]
    BY <1>4, <2>1
  <2>3. \A d \in pending' : Preparing(d) => d \in pending /\ d # c
    BY <1>1, <1>7, Answered
  <2>4. prepareStore' = prepareStore \cup {p}
    BY <1>7
  <2>. HIDE DEF p
  <2>5. FormTypeOK'
    BY <1>1, <1>2, <1>7, <2>2, <2>4 DEF FormTypeOK
  <2>6. /\ \A d \in pending' : Preparing(d) => d.id # c.id
        /\ \A q \in prepareStore : q.id # c.id
        /\ \A t \in sent : Confirmed(t) => t.id # c.id
    BY <1>1, <2>1, <2>3 DEF ClicksInv
  <2>7. /\ \A d \in pending' : Preparing(d) =>
              /\ \A e \in pending' : Preparing(e) /\ e.id = d.id => e = d
              /\ \A q \in prepareStore' : q.id # d.id
              /\ \A t \in sent' : Confirmed(t) => t.id # d.id
        /\ \A q \in prepareStore' :
              /\ q.id \in 1..clicks'
              /\ \A r \in prepareStore' : r.id = q.id => r = q
              /\ \A t \in sent' : Confirmed(t) => t.id # q.id
    <3>1. clicks' = clicks /\ sent' = sent
      BY <1>2, <1>7
    <3>2. ASSUME NEW d \in pending', Preparing(d)
          PROVE  /\ \A e \in pending' : Preparing(e) /\ e.id = d.id => e = d
                 /\ \A q \in prepareStore' : q.id # d.id
                 /\ \A t \in sent : Confirmed(t) => t.id # d.id
      BY <1>1, <2>2, <2>3, <2>4, <2>6, <3>2 DEF ClicksInv
    <3>3. ASSUME NEW q \in prepareStore'
          PROVE  /\ q.id \in 1..clicks
                 /\ \A r \in prepareStore' : r.id = q.id => r = q
                 /\ \A t \in sent : Confirmed(t) => t.id # q.id
      BY <1>1, <2>1, <2>2, <2>4, <2>6 DEF ClicksInv
    <3>. QED
      BY <3>1, <3>2, <3>3
  <2>8. ClicksInv'
    BY <1>1, <1>2, <1>7, <2>7 DEF ClicksInv
  <2>. QED
    BY <1>5, <1>7, <2>5, <2>8 DEF FormInv
<1>8. ASSUME c.call \in {"confirm", "token", "coin"}, NEW input \in Inputs,
             Broadcast(c, input), prepareStore' \in SUBSET prepareStore,
             c.call = "confirm" => /\ c.id \in 1..clicks
                                   /\ \A p \in prepareStore' : p.id # c.id
                                   /\ \A d \in pending : Preparing(d) => d.id # c.id
                                   /\ \A t \in sent : Confirmed(t) => t.id # c.id
      PROVE  FormInv'
  <2>1. CASE AnswerCall(c, "error") /\ UNCHANGED sent
    BY <1>6, <1>8, <2>1
  <2>2. CASE \E a \in {"ok", "error"} :
               /\ sent' = sent \cup {[no |-> c.no, by |-> c.call, id |-> c.id, kind |-> c.kind,
                                      input |-> input, shown |-> c.input]}
               /\ AnswerCall(c, a)
    <3>. DEFINE u == [no |-> c.no, by |-> c.call, id |-> c.id, kind |-> c.kind,
                      input |-> input, shown |-> c.input]
    <3>1. PICK a \in {"ok", "error"} : AnswerCall(c, a)
      BY <2>2
    <3>2. sent' = sent \cup {u}
      BY <2>2
    <3>3. u.by = c.call /\ u.id = c.id /\ u.kind = c.kind /\ u.input \in Inputs
      OBVIOUS
    <3>4. u.kind = "native" <=> Confirmed(u)
      BY <1>1, <1>8, <3>3 DEF CallsInv, Confirmed
    <3>. HIDE DEF u
    <3>5. \A d \in pending' : Preparing(d) => d \in pending
      BY <1>1, <3>1, Answered
    <3>6. FormTypeOK'
      BY <1>1, <1>2, <1>8, <3>2, <3>3 DEF FormTypeOK
    <3>7. ASSUME Confirmed(u)
          PROVE  /\ u.id \in 1..clicks
                 /\ \A p \in prepareStore' : p.id # u.id
                 /\ \A d \in pending : Preparing(d) => d.id # u.id
                 /\ \A t \in sent : Confirmed(t) => t.id # u.id
      BY <1>8, <3>3, <3>7 DEF Confirmed
    <3>8. ClicksInv'
      <4>1. \A d \in pending' : Preparing(d) =>
              /\ \A e \in pending' : Preparing(e) /\ e.id = d.id => e = d
              /\ \A q \in prepareStore' : q.id # d.id
              /\ \A t \in sent' : Confirmed(t) => t.id # d.id
        BY <1>1, <1>8, <3>2, <3>5, <3>7 DEF ClicksInv
      <4>2. \A q \in prepareStore' :
              /\ q.id \in 1..clicks'
              /\ \A r \in prepareStore' : r.id = q.id => r = q
              /\ \A t \in sent' : Confirmed(t) => t.id # q.id
        BY <1>1, <1>2, <1>8, <3>2, <3>7 DEF ClicksInv
      <4>3. \A t \in sent' :
              /\ t.kind = "native" <=> Confirmed(t)
              /\ Confirmed(t) => t.id \in 1..clicks'
              /\ Confirmed(t) => \A v \in sent' : Confirmed(v) /\ v.id = t.id => v = t
        BY <1>1, <1>2, <3>2, <3>4, <3>7 DEF ClicksInv
      <4>. QED
        BY <4>1, <4>2, <4>3 DEF ClicksInv, Preparing, Confirmed
    <3>. QED
      BY <1>5, <3>1, <3>6, <3>8 DEF FormInv
  <2>. QED
    BY <1>8, <2>1, <2>2 DEF Broadcast
<1>9. CASE HandlePrepare(c)
  <2>1. CASE AnswerCall(c, "error") /\ UNCHANGED prepareStore
    BY <1>6, <1>9, <2>1 DEF HandlePrepare
  <2>. QED
    BY <1>7, <1>9, <2>1 DEF HandlePrepare
<1>10. CASE HandleConfirm(c)
  <2>1. CASE AnswerCall(c, "error") /\ UNCHANGED <<prepareStore, sent>>
    BY <1>6, <2>1
  <2>2. ASSUME NEW p \in prepareStore, p.id = c.id, prepareStore' = prepareStore \ {p},
               IF initialized THEN Broadcast(c, p.input)
               ELSE AnswerCall(c, "error") /\ UNCHANGED sent
        PROVE  FormInv'
    <3>1. /\ p.input \in Inputs /\ c.id \in 1..clicks
          /\ \A q \in prepareStore' : q.id # c.id
          /\ \A d \in pending : Preparing(d) => d.id # c.id
          /\ \A t \in sent : Confirmed(t) => t.id # c.id
      BY <1>1, <2>2 DEF ClicksInv, FormTypeOK
    <3>2. CASE AnswerCall(c, "error") /\ UNCHANGED sent
      BY <1>6, <2>2, <3>2
    <3>3. CASE Broadcast(c, p.input)
      BY <1>8, <1>10, <2>2, <3>1, <3>3 DEF HandleConfirm
    <3>. QED
      BY <2>2, <3>2, <3>3
  <2>. QED
    BY <1>10, <2>1, <2>2 DEF HandleConfirm
<1>11. CASE HandleSubmit(c)
  BY <1>4, <1>11 DEF HandleSubmit, FormCalls
<1>12. CASE HandleTransfer(c)
  <2>1. [c.input EXCEPT !.from = active] \in Inputs
    BY <1>1, <1>4 DEF Inputs, FormTypeOK
  <2>2. CASE Broadcast(c, [c.input EXCEPT !.from = active])
    BY <1>8, <1>12, <2>1, <2>2 DEF HandleTransfer
  <2>3. CASE AnswerCall(c, "error") /\ UNCHANGED sent
    BY <1>6, <1>12, <2>3 DEF HandleTransfer
  <2>. QED
    BY <1>12, <2>2, <2>3 DEF HandleTransfer
<1>13. CASE HandleCoin(c)
  <2>1. CASE Broadcast(c, c.input)
    BY <1>4, <1>8, <1>13, <2>1 DEF HandleCoin
  <2>2. CASE AnswerCall(c, "error") /\ UNCHANGED sent
    BY <1>6, <1>13, <2>2 DEF HandleCoin
  <2>. QED
    BY <1>13, <2>1, <2>2 DEF HandleCoin
<1>. QED
  BY <1>3, <1>9, <1>10, <1>11, <1>12, <1>13

\* What the renderer does when an answer arrives, and the form renders anew.
LEMMA RendererKeeps ==
    ASSUME FormInv, Return \/ Rerender \/ LockOrUnlock \/ UNCHANGED formVars
    PROVE  FormInv'
<1>1. FormTypeOK /\ CallsInv /\ ClicksInv
  BY DEF FormInv
<1>2. CASE Return
  <2>1. UNCHANGED <<initialized, active, inst, prepareStore, clicks, confirms, sent>>
    BY <1>2 DEF Return
  <2>2. PICK c \in pending : /\ c.answer # "none" /\ pending' = pending \ {c}
                             /\ form' = IF c.inst = inst THEN Settled(c) ELSE form
    BY <1>2 DEF Return
  <2>3. ClicksInv'
    BY <1>1, <2>1, <2>2 DEF ClicksInv
  <2>4. /\ form' \in FormRecord /\ form'.input = form.input
        /\ form'.modal => form.input # Blank
        /\ form'.modal /\ form'.kind = "native" => form'.prepareId # NoId
    <3>1. CASE c.inst = inst
      <4>1. form.input # Blank
        BY <1>1, <3>1 DEF CallsInv
      <4>2. form' = Settled(c)
        BY <2>2, <3>1
      <4>. QED
        BY <1>1, <2>2, <3>1, <4>1, <4>2, SettledForm DEF FormRecord
    <3>2. CASE c.inst # inst
      BY <1>1, <2>2, <3>2 DEF FormTypeOK, CallsInv, FormRecord
    <3>. QED
      BY <3>1, <3>2
  <2>5. FormTypeOK'
    BY <1>1, <2>1, <2>4 DEF FormTypeOK, FormRecord
  <2>6. CallsInv'
    BY <1>1, <2>1, <2>2, <2>4 DEF CallsInv
  <2>. QED
    BY <2>3, <2>5, <2>6 DEF FormInv
<1>3. CASE Rerender
  <2>1. /\ form' = NewForm /\ inst' = inst + 1 /\ active' \in Wallets /\ inst \in Nat
        /\ UNCHANGED <<initialized, pending, prepareStore, clicks, confirms, sent>>
    BY <1>1, <1>3 DEF Rerender, FormTypeOK
  <2>2. /\ form' \in FormRecord /\ ~form'.modal
    BY <2>1, SendFormAssumption DEF NewForm, FormRecord, Kinds, NoId
  <2>3. FormTypeOK'
    BY <1>1, <2>1, <2>2 DEF FormTypeOK, FormRecord
  <2>4. \A c \in pending : c.inst <= inst' /\ c.inst # inst'
    BY <1>1, <2>1 DEF CallsInv, FormCalls
  <2>5. CallsInv'
    BY <1>1, <2>1, <2>2, <2>4 DEF CallsInv
  <2>6. ClicksInv'
    BY <1>1, <2>1 DEF ClicksInv
  <2>. QED
    BY <2>3, <2>5, <2>6 DEF FormInv
<1>4. CASE LockOrUnlock
  BY <1>1, <1>4 DEF LockOrUnlock, FormInv, FormTypeOK, CallsInv, ClicksInv
<1>5. CASE UNCHANGED formVars
  BY <1>1, <1>5 DEF formVars, FormInv, FormTypeOK, CallsInv, ClicksInv
<1>. QED
  BY <1>2, <1>3, <1>4, <1>5

\* The invariant of the Send form holds throughout.
LEMMA FormInvariant == FormSpec => []FormInv
<1>1. FormInv /\ [FormNext]_formVars => FormInv'
  BY UserKeeps, HandledKeeps, RendererKeeps DEF FormNext
<1>. QED
  BY <1>1, FormInvInit, PTL DEF FormSpec

\* The form, what is prepared and what was broadcast keep their types, and the
\* modal opens over something typed (Send.jsx).
THEOREM FormTypeCorrect == FormSpec => []FormTypeOK
<1>1. FormInv => FormTypeOK
  BY DEF FormInv
<1>. QED
  BY <1>1, FormInvariant, PTL

\* A native transaction is one that a click prepared and a password confirmed,
\* once per click (Send.jsx, bundler:prepare and bundler:confirm).
THEOREM SendsOncePerClick == FormSpec => []OneSendPerClick
<1>1. FormInv => OneSendPerClick
  BY DEF FormInv, ClicksInv, Confirmed, OneSendPerClick
<1>. QED
  BY <1>1, FormInvariant, PTL

=============================================================================
