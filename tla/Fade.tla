--------------------------------- MODULE Fade ---------------------------------
(***************************************************************************)
(* GSFade: the gamma of the display taken down in steps while a notice of  *)
(* idleness is in effect, and given back at once.  What is saved of the    *)
(* gamma is saved when a fade starts and dropped when it is reset, so that *)
(* a fade must never start from what another one left.  Three ways to the  *)
(* gamma: RANDR, one ramp for each CRTC; the XFree86 video mode extension, *)
(* one ramp or one number; none.  Session has of all this three values.    *)
(***************************************************************************)
EXTENDS Integers

CONSTANTS
    NumCrtcs,   \* the CRTCs RANDR knows, 1 .. NumCrtcs
    NumSteps,   \* the steps of a fade; also the full brightness
    MaxTrouble  \* bound on the requests that the server refuses

ASSUME CrtcAssumption == NumCrtcs \in Nat \ {0}
ASSUME StepAssumption == NumSteps \in Nat \ {0}
ASSUME TroubleAssumption == MaxTrouble \in Nat

Crtcs == 1 .. NumCrtcs
Primary == 1                    \* the CRTC the video mode extension speaks of
Levels == 0 .. NumSteps
NoRamp == -1                    \* gamma_info->size = 0
Types == {"xrandr", "ramp", "number", "none"}

VARIABLES
    gamma,        \* the server's: the brightness of each CRTC
    lit,          \* the server's: the CRTCs that have a mode
    fadeType,     \* screen_priv->fade_type
    haveInfo,     \* screen_priv->info # NULL
    saved,        \* screen_priv->info: the ramps, or NoRamp
    vmg,          \* screen_priv->vmg: the number
    active,       \* fade->priv->active
    timer,        \* fade->priv->timer_id # 0
    alpha,        \* fade->priv->current_alpha, in steps
    phase,        \* who wants what: "desktop", "notice" or "screen"; "exited"
    unfadeTimer,  \* manager->priv->unfade_idle_id # 0
    trouble,      \* the server's refusals so far
    spoiled       \* one of them can have cost the gamma (history)

server == <<gamma, lit>>
screenPriv == <<fadeType, haveInfo, saved, vmg>>
fading == <<active, timer, alpha>>
vars == <<server, screenPriv, fading, phase, unfadeTimer, trouble, spoiled>>

TypeOK ==
    /\ gamma \in [Crtcs -> Levels] /\ lit \subseteq Crtcs
    /\ fadeType \in Types /\ haveInfo \in BOOLEAN
    /\ saved \in [Crtcs -> Levels \union {NoRamp}] /\ vmg \in Levels
    /\ active \in BOOLEAN /\ timer \in BOOLEAN /\ alpha \in Levels
    /\ phase \in {"desktop", "notice", "screen", "exited"}
    /\ unfadeTimer \in BOOLEAN
    /\ trouble \in 0 .. MaxTrouble /\ spoiled \in BOOLEAN
    /\ timer => active

-------------------------------------------------------------------------------
\* The gamma.

Bright == \A c \in Crtcs : gamma[c] = NumSteps
Scaled(level, a) == (level * a) \div NumSteps

\* XF86_MIN_GAMMA: a number never goes down to black.
ScaledNumber(level, a) == IF Scaled(level, a) = 0 THEN 1 ELSE Scaled(level, a)

\* What the CRTCs are to show at a: by the kind of ramp saved, not by the type.
Whacked(a) ==
    IF fadeType = "xrandr"
    THEN [c \in Crtcs |-> IF saved[c] = NoRamp THEN gamma[c]
                                               ELSE Scaled(saved[c], a)]
    ELSE [gamma EXCEPT ![Primary] = IF saved[Primary] = NoRamp
                                    THEN ScaledNumber(vmg, a)
                                    ELSE Scaled(saved[Primary], a)]

\* gs_fade_set_alpha: nothing without information.  The server may refuse what
\* the video mode extension asks, and nobody looks at its answer.
SetAlpha(a) ==
    IF fadeType = "none" \/ ~haveInfo
    THEN UNCHANGED <<gamma, trouble, spoiled>>
    ELSE \/ gamma' = Whacked(a) /\ UNCHANGED <<trouble, spoiled>>
         \/ /\ fadeType # "xrandr" /\ trouble < MaxTrouble
            /\ trouble' = trouble + 1
            /\ spoiled' = (spoiled \/ a = NumSteps)
            /\ UNCHANGED gamma

\* What fade_set_alpha_gamma returns: for RANDR whether there was information.
AlphaIsSet == fadeType \in {"ramp", "number"} \/ (fadeType = "xrandr" /\ haveInfo)

NoRamps == [c \in Crtcs |-> NoRamp]
RampsBelow(n) == [c \in Crtcs |-> IF c \in lit /\ c < n THEN gamma[c] ELSE NoRamp]

\* xrandr_fade_setup: the ramps of the CRTCs that are lit, up to one that fails;
\* what was read by then stays.  Information that is there is not read again.
XrandrSetup(ok) ==
    \/ haveInfo /\ ok /\ UNCHANGED <<screenPriv, trouble, spoiled>>
    \/ /\ ~haveInfo /\ ok
       /\ haveInfo' = TRUE /\ saved' = RampsBelow(NumCrtcs + 1)
       /\ UNCHANGED <<fadeType, vmg, trouble, spoiled>>
    \/ /\ ~haveInfo /\ ~ok /\ trouble < MaxTrouble
       /\ trouble' = trouble + 1
       /\ haveInfo' = TRUE /\ \E n \in lit : saved' = RampsBelow(n)
       /\ UNCHANGED <<fadeType, vmg, spoiled>>

\* gamma_fade_setup, test_number: the number, or no fading from now on.
NumberSetup(ok) ==
    \/ /\ ok /\ fadeType' = "number" /\ vmg' = gamma[Primary]
    \/ /\ ~ok /\ trouble < MaxTrouble /\ fadeType' = "none" /\ UNCHANGED vmg

\* gamma_fade_setup: a ramp; or, once a ramp cannot be read, a number -- with
\* the ramp's size left as it was, and its ramp black, if the size could be read.
GammaSetup(ok) ==
    \/ haveInfo /\ ok /\ UNCHANGED <<screenPriv, trouble, spoiled>>
    \/ /\ ~haveInfo /\ fadeType = "ramp" /\ ok
       /\ haveInfo' = TRUE
       /\ saved' = [NoRamps EXCEPT ![Primary] = gamma[Primary]]
       /\ UNCHANGED <<fadeType, vmg, trouble, spoiled>>
    \/ /\ ~haveInfo /\ fadeType = "ramp" /\ trouble < MaxTrouble
       /\ haveInfo' = TRUE /\ NumberSetup(ok) /\ trouble' = trouble + 1
       /\ \/ saved' = NoRamps /\ UNCHANGED spoiled
          \/ saved' = [NoRamps EXCEPT ![Primary] = 0] /\ spoiled' = TRUE
    \/ /\ ~haveInfo /\ fadeType = "number"
       /\ haveInfo' = TRUE /\ NumberSetup(ok) /\ saved' = NoRamps
       /\ trouble' = IF ok THEN trouble ELSE trouble + 1
       /\ UNCHANGED spoiled

\* fade_setup, where there is one.
Setup(ok) ==
    \/ fadeType = "none" /\ ok /\ UNCHANGED <<screenPriv, trouble, spoiled>>
    \/ fadeType = "xrandr" /\ XrandrSetup(ok)
    \/ fadeType \in {"ramp", "number"} /\ GammaSetup(ok)

\* screen_fade_finish, called unless the type is none.
DropInfo ==
    IF fadeType = "none" THEN UNCHANGED <<haveInfo, saved>>
    ELSE haveInfo' = FALSE /\ saved' = NoRamps

-------------------------------------------------------------------------------
\* The object.

\* gs_fade_stop
Stop == active' = FALSE /\ timer' = FALSE

\* gs_fade_async, gs_fade_start: stop the fade there is; if the setup fails,
\* that is all; fade with a timer, or be done at once without a way to fade.
\* What alpha was it stays.
Async ==
    \/ Setup(FALSE) /\ Stop /\ UNCHANGED <<alpha, gamma>>
    \/ /\ Setup(TRUE)
       /\ active' = (fadeType' # "none") /\ timer' = (fadeType' # "none")
       /\ UNCHANGED <<alpha, gamma>>

\* gs_fade_reset: full alpha, set for as long as there is information.
ResetKeepsAlpha ==
    /\ Stop /\ UNCHANGED alpha
    /\ SetAlpha(NumSteps) /\ DropInfo
    /\ UNCHANGED <<lit, fadeType, vmg>>
ResetDropsFirst ==
    /\ Stop /\ alpha' = NumSteps
    /\ DropInfo /\ UNCHANGED <<server, fadeType, vmg, trouble, spoiled>>
ResetWithoutStop ==
    /\ UNCHANGED <<active, timer>> /\ alpha' = NumSteps
    /\ SetAlpha(NumSteps) /\ DropInfo
    /\ UNCHANGED <<lit, fadeType, vmg>>
Reset ==
    /\ Stop /\ alpha' = NumSteps
    /\ SetAlpha(NumSteps) /\ DropInfo
    /\ UNCHANGED <<lit, fadeType, vmg>>

\* gs_fade_out_iter: the fade is complete below one in a hundred.
Complete == alpha * 100 < NumSteps

\* fade_out_timer
FadeOutTimer ==
    /\ timer
    /\ \/ /\ Complete
          /\ Stop /\ UNCHANGED <<alpha, gamma, trouble, spoiled>>
       \/ /\ ~Complete
          /\ alpha' = alpha - 1 /\ SetAlpha(alpha - 1)
          /\ active' = AlphaIsSet /\ timer' = AlphaIsSet
    /\ UNCHANGED <<lit, screenPriv, phase, unfadeTimer>>

-------------------------------------------------------------------------------
\* Its callers: the monitor on notices of the watcher, the manager when the
\* screen goes up and down.

\* watcher_idle_notice_cb, in effect: the fade starts if the seat was grabbed.
NoticeBegins ==
    /\ phase = "desktop" /\ phase' = "notice"
    /\ \/ Async /\ UNCHANGED lit
       \/ UNCHANGED <<server, screenPriv, fading, trouble, spoiled>>
    /\ UNCHANGED unfadeTimer

\* watcher_idle_notice_cb, no longer in effect, the screen not up.
NoticeEnds ==
    /\ phase = "notice" /\ phase' = "desktop"
    /\ Reset /\ UNCHANGED unfadeTimer

\* gs_manager_activate, manager_show_window: the fade is taken back when the
\* windows can be expected to be there.
UnfadeForgotten == phase' = "screen" /\ UNCHANGED unfadeTimer
ArmUnfade == phase' = "screen" /\ unfadeTimer' = TRUE
ScreenUp ==
    /\ phase \in {"desktop", "notice"}
    /\ ArmUnfade
    /\ UNCHANGED <<server, screenPriv, fading, trouble, spoiled>>

\* manager_show_window, for a window of a monitor that is new.
ShowWindow ==
    /\ phase = "screen" /\ ~unfadeTimer /\ unfadeTimer' = TRUE
    /\ UNCHANGED <<server, screenPriv, fading, phase, trouble, spoiled>>

\* unfade_idle
UnfadeIdle ==
    /\ unfadeTimer /\ unfadeTimer' = FALSE
    /\ Reset /\ UNCHANGED phase

\* gs_manager_deactivate
ScreenDown ==
    /\ phase = "screen" /\ phase' = "desktop"
    /\ unfadeTimer' = FALSE /\ Reset

\* gs_manager_finalize, gs_fade_finalize: the timers go, what was saved goes,
\* and the gamma stays as it is.  (The call of fade_finish is one of NULL where
\* there was no way to fade from the start: the daemon dies on its way out.)
Exit ==
    /\ phase # "exited" /\ phase' = "exited"
    /\ unfadeTimer' = FALSE /\ timer' = FALSE /\ active' = FALSE
    /\ haveInfo' = FALSE /\ saved' = NoRamps
    /\ UNCHANGED <<server, fadeType, vmg, alpha, trouble, spoiled>>

\* A CRTC is switched on or off; its gamma is kept.
SetMode(c) ==
    /\ lit' = IF c \in lit THEN lit \ {c} ELSE lit \union {c}
    /\ UNCHANGED <<gamma, screenPriv, fading, phase, unfadeTimer, trouble, spoiled>>

\* check_randr_extension: every CRTC must have a gamma of some size.
RandrType(gammaSize) ==
    IF \A c \in Crtcs : gammaSize[c] # 0 THEN "xrandr" ELSE "none"

\* check_gamma_extension, by the version of the extension (0: none, or LTSP):
\* 2.0 added gamma values, 2.1 gamma ramps.
GammaType(version) ==
    CASE version < 20 -> "none"
      [] version = 20 -> "number"
      [] version > 20 -> "ramp"

\* gs_fade_init: RANDR, or else the video mode extension.
Init ==
    /\ gamma = [c \in Crtcs |-> NumSteps] /\ lit \in SUBSET Crtcs
    /\ \E gammaSize \in [Crtcs -> {0, 256}], version \in {0, 11, 20, 21} :
         fadeType = IF RandrType(gammaSize) = "none" THEN GammaType(version)
                                                     ELSE RandrType(gammaSize)
    /\ haveInfo = FALSE /\ saved = NoRamps /\ vmg = 0
    /\ active = FALSE /\ timer = FALSE /\ alpha = NumSteps
    /\ phase = "desktop" /\ unfadeTimer = FALSE
    /\ trouble = 0 /\ spoiled = FALSE

Next ==
    \/ FadeOutTimer \/ NoticeBegins \/ NoticeEnds
    \/ ScreenUp \/ ShowWindow \/ UnfadeIdle \/ ScreenDown \/ Exit
    \/ \E c \in Crtcs : SetMode(c)

\* The two timers run.  A notice ends: by the user, or in ten seconds by the
\* screen (which Session shows); a daemon that has exited does nothing.
Spec ==
    /\ Init /\ [][Next]_vars
    /\ WF_vars(FadeOutTimer) /\ WF_vars(UnfadeIdle)
    /\ WF_vars(NoticeEnds \/ (phase = "notice" /\ ScreenUp))

-------------------------------------------------------------------------------
\* Properties.

\* gs_fade_setup saves and gs_fade_reset gives back: whatever CRTC is darker
\* than it was has its full gamma saved, whatever is switched on or off, fails
\* or starts again meanwhile -- a second setup must not save a dimmed gamma.
\* Excepted is what the server has refused to read or to take back (spoiled).
Recoverable ==
    phase # "exited" /\ ~spoiled =>
        \A c \in Crtcs : gamma[c] < NumSteps =>
            /\ haveInfo
            /\ IF fadeType = "number" THEN vmg = NumSteps
                                      ELSE saved[c] = NumSteps

\* A desktop in use is bright, and half a second after the windows of a screen
\* came up so are they: no fade of gs_fade_async is left, running or run.
NoFadeLeft ==
    phase \in {"desktop", "screen"} /\ ~unfadeTimer =>
        /\ ~active /\ alpha = NumSteps
        /\ fadeType # "none" => ~haveInfo
        /\ ~spoiled => Bright

\* A darkened display is bright again unless the daemon exits, which leaves it
\* as it is, or the server refused what would have made it so.
BrightAgain == ~Bright ~> Bright \/ phase = "exited" \/ spoiled
===============================================================================
