------------------------------ MODULE Screens ------------------------------
(***************************************************************************)
(* The screens of the renderer (frontend/src/context/WalletContext.jsx     *)
(* with UnlockScreen.jsx and Onboarding.jsx) and the locks of the main     *)
(* process (electron/main.js): the auto-lock timer, the lock of the screen *)
(* and the suspension of the machine.  Renderer and main process exchange  *)
(* calls, answers and events in order.  A wrong password and a call that a *)
(* rate limit refuses change nothing here and are an answer that is no.    *)
(* Calls of ipcMain.handle do not pass through ipcMain.emit, so that its   *)
(* wrapper in main.js restarts no timer: the renderer's signal alone does. *)
(***************************************************************************)
EXTENDS Integers, Sequences, SequencesExt

CONSTANT MaxCalls   \* bound on the calls the user makes

ASSUME ScreensAssumption == MaxCalls \in Nat

VARIABLES
    exists,     \* ledger.exists()
    open,       \* ledger._initialized
    autoLock,   \* settings.autoLockMinutes is not 0
    timer,      \* autoLockTimer is set
    screen,     \* state of WalletProvider
    seed,       \* Onboarding shows the seed phrase
    listening,  \* onAutoLocked is registered
    toMain, toUI,
    calls,      \* how many calls the user has made
    \* history, read by the properties only
    due,        \* opened by vault:unlock, auto-lock on ever since
    silent      \* the last lock was not told, or nobody listened

mainVars == <<exists, open, autoLock, timer>>
uiVars   == <<screen, seed, listening>>
vars     == <<mainVars, uiVars, toMain, toUI, calls, due, silent>>

-----------------------------------------------------------------------------
(* The user                                                                 *)

Invoke(call) ==
    /\ calls < MaxCalls
    /\ calls' = calls + 1
    /\ toMain' = Append(toMain, call)
    /\ UNCHANGED <<mainVars, uiVars, toUI, due, silent>>

\* Unlock and Reset of UnlockScreen; "vault:destroy" carries no password
ClickUnlock == screen = "unlock" /\ Invoke("unlock")
ClickReset  == screen = "unlock" /\ Invoke("resetFirst")

\* Create and Import of Onboarding, and its "I saved it"
ClickCreate(how) == screen = "onboard" /\ ~seed /\ Invoke(how)
ConfirmSeed == screen = "onboard" /\ seed /\ Invoke("getWallets")

\* Lock, Delete All and the auto-lock time of Settings
ClickSettings(call) == screen = "ready" /\ Invoke(call)

-----------------------------------------------------------------------------
(* The main process                                                         *)

\* Mutant: a timer that runs is stopped for good.
ResetAutoLockOnce == timer' = (~timer /\ open /\ autoLock)

\* the timer that runs is stopped, and another set if there is what to lock
ResetAutoLock == timer' = (open /\ autoLock)

Answer(a) == toUI' = Append(toUI, a)

HandleUnlock ==
    \/ Answer("no") /\ UNCHANGED <<mainVars, due, silent>>
    \/ /\ exists
       /\ open' = TRUE
       /\ due' = autoLock
       /\ Answer("unlocked")
       /\ UNCHANGED <<exists, autoLock, timer, silent>>

\* whatever there was; the settings start anew
HandleCreate(how) ==
    /\ exists' = TRUE /\ open' = TRUE /\ autoLock' = TRUE
    /\ due' = FALSE
    /\ Answer(IF how = "create" THEN "seed" ELSE "imported")
    /\ UNCHANGED <<timer, silent>>

HandleLock ==
    /\ open' = FALSE /\ due' = FALSE /\ silent' = FALSE
    /\ Answer("locked")
    /\ UNCHANGED <<exists, autoLock, timer>>

\* the timer is left as it is
HandleSetting(on) ==
    /\ autoLock' = IF open THEN on ELSE autoLock
    /\ due' = (due /\ on)
    /\ Answer("no")
    /\ UNCHANGED <<exists, open, timer, silent>>

Handle ==
    /\ toMain # <<>>
    /\ toMain' = Tail(toMain)
    /\ LET call == Head(toMain) IN
       \/ call = "exists" /\ Answer(IF exists THEN "exists" ELSE "absent")
             /\ UNCHANGED <<mainVars, due, silent>>
       \/ call = "unlock" /\ HandleUnlock
       \/ call \in {"create", "import"} /\ HandleCreate(call)
       \/ call = "lock" /\ HandleLock
       \/ call = "getWallets" /\ Answer(IF open THEN "wallets" ELSE "no")
             /\ UNCHANGED <<mainVars, due, silent>>
       \/ \* no password, no destruction
          call = "resetFirst" /\ Answer("refused") /\ UNCHANGED <<mainVars, due, silent>>
       \/ call = "reset" /\ Answer("reset") /\ UNCHANGED <<mainVars, due, silent>>
       \/ call \in {"autoLockOn", "autoLockOff"} /\ HandleSetting(call = "autoLockOn")
       \/ call = "signal" /\ ResetAutoLock
             /\ UNCHANGED <<exists, open, autoLock, toUI, due, silent>>
    /\ UNCHANGED <<uiVars, calls>>

\* Mutant: the renderer is not told.
LockUntold ==
    /\ open' = FALSE /\ due' = FALSE /\ silent' = FALSE
    /\ UNCHANGED toUI

LockTold ==
    /\ open' = FALSE /\ due' = FALSE /\ silent' = FALSE
    /\ Answer("auto-locked")

Fire ==
    /\ timer
    /\ timer' = FALSE
    /\ IF open THEN LockTold ELSE UNCHANGED <<open, toUI, due, silent>>
    /\ UNCHANGED <<exists, autoLock, uiVars, toMain, calls>>

ScreenLock ==
    /\ open
    /\ LockTold
    /\ UNCHANGED <<exists, autoLock, timer, uiVars, toMain, calls>>

Suspend ==
    /\ open
    /\ open' = FALSE /\ due' = FALSE /\ silent' = TRUE
    /\ UNCHANGED <<exists, autoLock, timer, uiVars, toMain, toUI, calls>>

-----------------------------------------------------------------------------
(* The renderer                                                             *)

Show(s) == screen' = s /\ seed' = (seed /\ s = "onboard" /\ screen = "onboard")

\* Mutant: the screen is shown and the main process not told.
OnUnlockedQuiet == Show("ready") /\ UNCHANGED <<listening, toMain, silent>>

OnUnlocked ==
    /\ Show("ready")
    /\ toMain' = Append(toMain, "signal")
    /\ UNCHANGED <<listening, silent>>

\* Mutant: the seed phrase is shown over any screen.
OnAnswerCreateAnywhere(a) ==
    IF a = "imported"
    THEN toMain' = Append(toMain, "getWallets") /\ UNCHANGED <<uiVars, silent>>
    ELSE /\ seed' = TRUE
         /\ UNCHANGED <<screen, listening, toMain, silent>>

\* the answer to create or import; that of create is lost on another screen
OnAnswerCreate(a) ==
    IF a = "imported"
    THEN toMain' = Append(toMain, "getWallets") /\ UNCHANGED <<uiVars, silent>>
    ELSE /\ seed' = (seed \/ screen = "onboard")
         /\ UNCHANGED <<screen, listening, toMain, silent>>

\* once registered, the listener stays, whichever screen is shown
OnAutoLocked ==
    /\ IF listening THEN Show("unlock") ELSE UNCHANGED <<screen, seed>>
    /\ silent' = (silent \/ (~listening /\ ~open))
    /\ UNCHANGED <<listening, toMain>>

Deliver ==
    /\ toUI # <<>>
    /\ toUI' = Tail(toUI)
    /\ LET a == Head(toUI) IN
       \/ a = "no" /\ UNCHANGED <<uiVars, toMain, silent>>
       \/ a = "unlocked" /\ OnUnlocked
       \/ a \in {"seed", "imported"} /\ OnAnswerCreate(a)
       \/ a \in {"exists", "locked"} /\ Show("unlock") /\ UNCHANGED <<listening, toMain, silent>>
       \/ a = "wallets" /\ Show("ready") /\ UNCHANGED <<listening, toMain, silent>>
       \/ a \in {"absent", "reset"} /\ Show("onboard") /\ UNCHANGED <<listening, toMain, silent>>
       \/ a = "refused" /\ toMain' = Append(toMain, "reset") /\ UNCHANGED <<uiVars, silent>>
       \/ a = "auto-locked" /\ OnAutoLocked
    /\ UNCHANGED <<mainVars, calls, due>>

\* the effect of a screen that has become ready, once it is painted
Listen ==
    /\ screen = "ready" /\ ~listening
    /\ listening' = TRUE
    /\ UNCHANGED <<mainVars, screen, seed, toMain, toUI, calls, due, silent>>

Init ==
    /\ exists \in BOOLEAN /\ open = FALSE /\ autoLock \in BOOLEAN /\ timer = FALSE
    /\ screen = "loading" /\ seed = FALSE /\ listening = FALSE
    /\ toMain = <<"exists">> /\ toUI = <<>> /\ calls = 0
    /\ due = FALSE /\ silent = FALSE

Next ==
    \/ ClickUnlock \/ ClickReset \/ ConfirmSeed
    \/ \E how \in {"create", "import"} : ClickCreate(how)
    \/ \E call \in {"lock", "reset", "autoLockOn", "autoLockOff"} : ClickSettings(call)
    \/ Handle \/ Fire \/ ScreenLock \/ Suspend
    \/ Deliver \/ Listen

\* Messages arrive, and a timer that is set fires.
Fairness == WF_vars(Handle) /\ WF_vars(Deliver) /\ WF_vars(Fire)

Spec == Init /\ [][Next]_vars /\ Fairness

-----------------------------------------------------------------------------
(* Properties                                                               *)

TypeOK ==
    /\ exists \in BOOLEAN /\ open \in BOOLEAN /\ autoLock \in BOOLEAN /\ timer \in BOOLEAN
    /\ open => exists
    /\ screen \in {"loading", "onboard", "unlock", "ready"}
    /\ seed \in BOOLEAN /\ (seed => screen = "onboard")
    /\ listening \in BOOLEAN
    /\ toMain \in Seq({"exists", "unlock", "resetFirst", "reset", "create", "import", "getWallets",
                       "lock", "autoLockOn", "autoLockOff", "signal"})
    /\ toUI \in Seq({"no", "exists", "absent", "unlocked", "seed", "imported", "locked",
                     "wallets", "refused", "reset", "auto-locked"})
    /\ calls \in 0..MaxCalls
    /\ due \in BOOLEAN /\ silent \in BOOLEAN

\* A ledger opened by a password, with auto-lock on since, has its timer, or
\* the signal that sets it is on its way: no lock, stale timer or second unlock
\* in between leaves it open for good.
UnlockedIsTimed ==
    due => timer \/ Contains(toUI, "unlocked") \/ Contains(toMain, "signal")

\* The wallet is shown over a locked ledger only until the news arrives, unless
\* the machine was suspended or the screen was not yet listening.
LockIsShown ==
    screen = "ready" /\ ~open /\ ~silent =>
        Contains(toUI, "auto-locked") \/ Contains(toUI, "locked")

\* Such a ledger is locked in the end.
AutoLocks == due ~> ~due
=============================================================================
