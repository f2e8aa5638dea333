------------------------------- MODULE FadeProofs -------------------------------
(***************************************************************************)
(* A fade can be undone, and is, for any number of CRTCs, of steps and of  *)
(* refusals by the server.  Behind it stands that what is saved is full    *)
(* brightness: a setup reads the gamma only when nothing is saved, and     *)
(* then, by what is to be proved, nothing is dark.                         *)
(***************************************************************************)
EXTENDS Fade, TLAPS

\* Where a ramp is saved it is the full one, and where the number counts there
\* are no ramps.
SavedIsFull ==
    haveInfo /\ ~spoiled =>
      /\ \A c \in Crtcs : saved[c] \in {NoRamp, NumSteps}
      /\ fadeType = "number" => vmg = NumSteps /\ saved[Primary] = NoRamp
      /\ fadeType = "ramp" => saved[Primary] # NoRamp

\* Only RANDR darkens another CRTC than the primary one, and without a way to
\* fade none is dark.
OthersAreBright ==
    ~spoiled =>
      /\ fadeType # "xrandr" => \A c \in Crtcs \ {Primary} : gamma[c] = NumSteps
      /\ fadeType = "none" => Bright

\* A daemon that has exited has no timers.
ExitedIsStill == phase = "exited" => ~timer /\ ~active /\ ~unfadeTimer

IInv ==
    /\ TypeOK /\ Recoverable /\ NoFadeLeft
    /\ SavedIsFull /\ OthersAreBright /\ ExitedIsStill

USE CrtcAssumption, StepAssumption, TroubleAssumption

LEMMA FullScaled == Scaled(NumSteps, NumSteps) = NumSteps
  BY DEF Scaled

LEMMA ScaledType ==
    ASSUME NEW level \in Levels, NEW a \in Levels
    PROVE  Scaled(level, a) \in Levels
<1> DEFINE q == Scaled(level, a)
<1>1. level * a \in Nat /\ level * a <= NumSteps * NumSteps
  <2>1. level * a <= level * NumSteps
    BY DEF Levels
  <2>2. level * NumSteps <= NumSteps * NumSteps
    BY DEF Levels
  <2> QED
    BY <2>1, <2>2 DEF Levels
<1>2. q \in Nat /\ q * NumSteps <= level * a
  BY <1>1 DEF Scaled
<1> HIDE DEF q
<1>3. q <= NumSteps
  <2> SUFFICES ASSUME q >= NumSteps + 1 PROVE FALSE
    BY <1>2
  <2>1. q * NumSteps >= (NumSteps + 1) * NumSteps
    BY <1>2
  <2> QED
    BY <1>1, <1>2, <2>1
<1> QED
  BY <1>2, <1>3 DEF q, Levels

LEMMA ScaledNumberType ==
    ASSUME NEW level \in Levels, NEW a \in Levels
    PROVE  ScaledNumber(level, a) \in Levels
<1>1. 1 \in Levels
  BY DEF Levels
<1> QED
  BY <1>1, ScaledType DEF ScaledNumber

LEMMA InitIInv == Init => IInv
<1> SUFFICES ASSUME Init PROVE IInv
  OBVIOUS
<1>1. fadeType \in Types
  BY DEF Init, RandrType, GammaType, Types
<1>2. TypeOK
  <2>1. 0 \in Levels /\ NumSteps \in Levels /\ 0 \in 0 .. MaxTrouble
    BY DEF Levels
  <2>2. NoRamps \in [Crtcs -> Levels \union {NoRamp}]
    BY DEF NoRamps
  <2>3. gamma \in [Crtcs -> Levels] /\ lit \subseteq Crtcs
    BY <2>1 DEF Init
  <2> QED
    BY <1>1, <2>1, <2>2, <2>3 DEF Init, TypeOK
<1>3. Bright /\ ~haveInfo
  BY DEF Init, Bright
<1>4. Recoverable /\ SavedIsFull /\ OthersAreBright
  BY <1>2, <1>3 DEF Recoverable, SavedIsFull, OthersAreBright, Bright, TypeOK, Levels
<1>5. NoFadeLeft
  BY <1>3 DEF Init, NoFadeLeft
<1>6. ExitedIsStill
  BY DEF Init, ExitedIsStill
<1> QED
  BY <1>2, <1>4, <1>5, <1>6 DEF IInv

-------------------------------------------------------------------------------
(* What the gamma is after a step, and after a reset. *)

LEMMA WhackedType ==
    ASSUME TypeOK, NEW a \in Levels
    PROVE  Whacked(a) \in [Crtcs -> Levels]
<1>1. \A c \in Crtcs : saved[c] # NoRamp => Scaled(saved[c], a) \in Levels
  BY ScaledType DEF TypeOK
<1>2. ScaledNumber(vmg, a) \in Levels
  BY ScaledNumberType DEF TypeOK
<1>3. Primary \in Crtcs
  BY DEF Primary, Crtcs
<1> HIDE DEF Crtcs, Levels, NoRamp, Primary
<1>4. CASE fadeType = "xrandr"
  BY <1>1, <1>4 DEF Whacked, TypeOK
<1>5. CASE fadeType # "xrandr"
  <2> DEFINE v == IF saved[Primary] = NoRamp THEN ScaledNumber(vmg, a)
                                             ELSE Scaled(saved[Primary], a)
  <2>1. v \in Levels
    BY <1>1, <1>2, <1>3
  <2>2. Whacked(a) = [gamma EXCEPT ![Primary] = v]
    BY <1>5 DEF Whacked
  <2> HIDE DEF v
  <2> QED
    BY <2>1, <2>2 DEF TypeOK
<1> QED
  BY <1>4, <1>5

\* A step darkens only what is saved, and gs_fade_reset makes all of it bright.
LEMMA WhackedUndone ==
    ASSUME IInv, phase # "exited", ~spoiled, haveInfo, fadeType # "none",
           NEW a \in Levels, NEW c \in Crtcs
    PROVE  /\ Whacked(a)[c] # NumSteps =>
                IF fadeType = "number" THEN vmg = NumSteps ELSE saved[c] = NumSteps
           /\ fadeType # "xrandr" /\ c # Primary => Whacked(a)[c] = NumSteps
           /\ a = NumSteps => Whacked(a)[c] = NumSteps
<1>1. Primary \in Crtcs /\ gamma \in [Crtcs -> Levels]
  BY DEF Primary, Crtcs, IInv, TypeOK
<1>2. saved[c] \in {NoRamp, NumSteps} /\ saved[Primary] \in {NoRamp, NumSteps}
  BY <1>1 DEF IInv, SavedIsFull
<1>3. gamma[c] # NumSteps =>
        IF fadeType = "number" THEN vmg = NumSteps ELSE saved[c] = NumSteps
  BY <1>1 DEF IInv, Recoverable, Levels
<1>4. ScaledNumber(NumSteps, NumSteps) = NumSteps
  BY FullScaled DEF ScaledNumber
<1>5. NumSteps # NoRamp
  BY DEF NoRamp
<1> HIDE DEF Crtcs, Levels, NoRamp, Primary
<1>6. CASE fadeType = "xrandr"
  <2>1. Whacked(a)[c] = IF saved[c] = NoRamp THEN gamma[c] ELSE Scaled(saved[c], a)
    BY <1>6 DEF Whacked
  <2> QED
    BY <1>2, <1>3, <1>5, <1>6, <2>1, FullScaled
<1>7. CASE fadeType # "xrandr"
  <2>1. Whacked(a)[c] =
          IF c = Primary THEN IF saved[Primary] = NoRamp THEN ScaledNumber(vmg, a)
                                                         ELSE Scaled(saved[Primary], a)
                         ELSE gamma[c]
    BY <1>1, <1>7 DEF Whacked
  <2>2. c # Primary => gamma[c] = NumSteps
    BY <1>7 DEF IInv, OthersAreBright
  <2>3. CASE fadeType = "number"
    BY <1>4, <2>1, <2>2, <2>3 DEF IInv, SavedIsFull
  <2>4. CASE fadeType = "ramp"
    BY <1>2, <2>1, <2>2, <2>4, FullScaled DEF IInv, SavedIsFull
  <2>5. fadeType \in {"number", "ramp"}
    BY <1>7 DEF IInv, TypeOK, Types
  <2> QED
    BY <2>3, <2>4, <2>5
<1> QED
  BY <1>6, <1>7

\* gs_fade_set_alpha keeps the types of what it touches, and only a refusal can
\* spoil the gamma.
LEMMA SetAlphaType ==
    ASSUME TypeOK, NEW a \in Levels, SetAlpha(a)
    PROVE  /\ gamma' \in [Crtcs -> Levels]
           /\ trouble' \in 0 .. MaxTrouble /\ spoiled' \in BOOLEAN
           /\ spoiled => spoiled'
<1>1. gamma' \in [Crtcs -> Levels]
  BY WhackedType DEF SetAlpha, TypeOK
<1>2. trouble' \in 0 .. MaxTrouble /\ spoiled' \in BOOLEAN /\ (spoiled => spoiled')
  BY DEF SetAlpha, TypeOK
<1> QED
  BY <1>1, <1>2

\* gs_fade_reset: whatever was dark is bright.
LEMMA ResetUndoes ==
    ASSUME IInv, phase # "exited", Reset
    PROVE  /\ TypeOK' <=> /\ phase' \in {"desktop", "notice", "screen", "exited"}
                          /\ unfadeTimer' \in BOOLEAN
           /\ ~active' /\ alpha' = NumSteps
           /\ fadeType' # "none" => ~haveInfo'
           /\ ~spoiled' => Bright' /\ ~spoiled
           /\ fadeType' = fadeType
           /\ SavedIsFull' /\ OthersAreBright'
<1>1. NumSteps \in Levels
  BY DEF Levels
<1>2. /\ gamma' \in [Crtcs -> Levels]
      /\ trouble' \in 0 .. MaxTrouble /\ spoiled' \in BOOLEAN
      /\ spoiled => spoiled'
  BY <1>1, SetAlphaType DEF Reset, IInv
<1>3. haveInfo' \in BOOLEAN /\ saved' \in [Crtcs -> Levels \union {NoRamp}]
  BY DEF Reset, DropInfo, NoRamps, IInv, TypeOK
<1>4. /\ TypeOK' <=> /\ phase' \in {"desktop", "notice", "screen", "exited"}
                     /\ unfadeTimer' \in BOOLEAN
      /\ ~active' /\ alpha' = NumSteps /\ fadeType' = fadeType
  <2>1. /\ lit' = lit /\ fadeType' = fadeType /\ vmg' = vmg
        /\ active' = FALSE /\ timer' = FALSE /\ alpha' = NumSteps
    BY DEF Reset, Stop
  <2> QED
    BY <1>1, <1>2, <1>3, <2>1 DEF IInv, TypeOK
<1>5. fadeType' # "none" => ~haveInfo'
  BY <1>4 DEF Reset, DropInfo
<1>6. ASSUME ~spoiled' PROVE Bright'
  <2>1. ~spoiled
    BY <1>2, <1>6
  <2>2. CASE fadeType = "none" \/ ~haveInfo
    <3>1. gamma' = gamma
      BY <2>2 DEF Reset, SetAlpha
    <3>2. Bright
      BY <2>1, <2>2 DEF IInv, TypeOK, OthersAreBright, Recoverable, Bright, Levels
    <3> QED
      BY <3>1, <3>2 DEF Bright
  <2>3. CASE fadeType # "none" /\ haveInfo
    <3>1. gamma' = Whacked(NumSteps)
      BY <1>6, <2>3 DEF Reset, SetAlpha
    <3> QED
      BY <1>1, <2>1, <2>3, <3>1, WhackedUndone DEF Bright
  <2> QED
    BY <2>2, <2>3
<1>7. SavedIsFull'
  <2>1. CASE fadeType = "none"
    <3>1. UNCHANGED <<haveInfo, saved>> /\ fadeType' = "none" /\ spoiled' = spoiled
      BY <1>4, <2>1 DEF Reset, DropInfo, SetAlpha
    <3> QED
      BY <2>1, <3>1 DEF IInv, SavedIsFull
  <2>2. CASE fadeType # "none"
    BY <1>4, <1>5, <2>2 DEF SavedIsFull
  <2> QED
    BY <2>1, <2>2
<1>8. OthersAreBright'
  BY <1>6 DEF OthersAreBright, Bright
<1> QED
  BY <1>2, <1>4, <1>5, <1>6, <1>7, <1>8

LEMMA ResetIInv ==
    ASSUME IInv, phase # "exited", Reset,
           phase' \in {"desktop", "notice", "screen"},
           unfadeTimer' \in BOOLEAN
    PROVE  IInv'
<1>1. TypeOK' /\ SavedIsFull' /\ OthersAreBright'
  BY ResetUndoes
<1>2. Recoverable'
  BY <1>1, ResetUndoes DEF Recoverable, Bright
<1>3. NoFadeLeft'
  BY ResetUndoes DEF NoFadeLeft
<1>4. ExitedIsStill'
  BY DEF ExitedIsStill
<1> QED
  BY <1>1, <1>2, <1>3, <1>4 DEF IInv

-------------------------------------------------------------------------------
(* A setup: nothing is saved that is not full. *)

LEMMA SetupIInv ==
    ASSUME IInv, phase = "desktop", NEW ok \in BOOLEAN, Setup(ok), UNCHANGED gamma
    PROVE  /\ fadeType' \in Types /\ haveInfo' \in BOOLEAN
           /\ saved' \in [Crtcs -> Levels \union {NoRamp}] /\ vmg' \in Levels
           /\ trouble' \in 0 .. MaxTrouble /\ spoiled' \in BOOLEAN
           /\ SavedIsFull' /\ OthersAreBright'
           /\ ~spoiled' => \A c \in Crtcs : gamma[c] < NumSteps =>
                /\ haveInfo'
                /\ IF fadeType' = "number" THEN vmg' = NumSteps
                                           ELSE saved'[c] = NumSteps
<1>0. /\ gamma \in [Crtcs -> Levels] /\ gamma' = gamma /\ Primary \in Crtcs
      /\ gamma[Primary] \in Levels
  BY DEF IInv, TypeOK, Primary, Crtcs
<1>1. ~haveInfo /\ ~spoiled => Bright
  BY <1>0 DEF IInv, Recoverable, Bright, Levels
<1>2. CASE UNCHANGED <<screenPriv, trouble, spoiled>>
  BY <1>0, <1>2 DEF screenPriv, IInv, TypeOK, SavedIsFull, OthersAreBright, Recoverable,
                    Bright
<1>3. CASE fadeType = "xrandr" /\ ~haveInfo /\ XrandrSetup(ok)
  <2>1. /\ haveInfo' = TRUE /\ fadeType' = fadeType /\ vmg' = vmg /\ spoiled' = spoiled
        /\ trouble' \in 0 .. MaxTrouble
        /\ \E n : saved' = RampsBelow(n)
    BY <1>3 DEF XrandrSetup, IInv, TypeOK
  <2>2. \A c \in Crtcs : saved'[c] \in {NoRamp, gamma[c]}
    BY <2>1 DEF RampsBelow
  <2>3. saved' \in [Crtcs -> Levels \union {NoRamp}]
    BY <1>0, <2>1 DEF RampsBelow
  <2> QED
    BY <1>0, <1>1, <1>3, <2>1, <2>2, <2>3
    DEF IInv, TypeOK, SavedIsFull, OthersAreBright, Bright, Levels
<1>4. CASE fadeType \in {"ramp", "number"} /\ ~haveInfo /\ GammaSetup(ok)
  <2>1. /\ haveInfo' = TRUE /\ trouble' \in 0 .. MaxTrouble /\ spoiled' \in BOOLEAN
        /\ spoiled => spoiled'
        /\ fadeType' \in {"ramp", "number", "none"}
        /\ vmg' \in {vmg, gamma[Primary]}
        /\ fadeType' = "number" => vmg' = gamma[Primary]
    <3>1. trouble' = trouble \/ (trouble < MaxTrouble /\ trouble' = trouble + 1)
      BY <1>4 DEF GammaSetup, NumberSetup
    <3>2. trouble' \in 0 .. MaxTrouble
      BY <3>1 DEF IInv, TypeOK
    <3>3. haveInfo' = TRUE /\ spoiled' \in {spoiled, TRUE}
      BY <1>4 DEF GammaSetup
    <3>4. /\ fadeType' \in {"ramp", "number", "none"}
          /\ vmg' \in {vmg, gamma[Primary]}
          /\ fadeType' = "number" => vmg' = gamma[Primary]
      BY <1>4 DEF GammaSetup, NumberSetup
    <3> QED
      BY <3>2, <3>3, <3>4 DEF IInv, TypeOK
  <2>2. \/ saved' = NoRamps /\ fadeType' # "ramp"
        \/ saved' = [NoRamps EXCEPT ![Primary] = gamma[Primary]] /\ fadeType' = "ramp"
        \/ saved' = [NoRamps EXCEPT ![Primary] = 0] /\ spoiled'
    BY <1>4 DEF GammaSetup, NumberSetup
  <2>3. saved' \in [Crtcs -> Levels \union {NoRamp}]
    <3>1. 0 \in Levels
      BY DEF Levels
    <3> QED
      BY <1>0, <2>2, <3>1 DEF NoRamps
  <2>4. CASE spoiled'
    BY <1>0, <2>1, <2>3, <2>4 DEF IInv, TypeOK, Types, SavedIsFull, OthersAreBright
  <2>5. CASE ~spoiled'
    <3>1. Bright
      BY <1>1, <1>4, <2>1, <2>5
    <3>2. gamma[Primary] = NumSteps /\ NumSteps # NoRamp
      BY <1>0, <3>1 DEF Bright, NoRamp
    <3>3. \A c \in Crtcs : saved'[c] \in {NoRamp, NumSteps}
      BY <1>0, <2>2, <2>5, <3>2 DEF NoRamps
    <3>4. /\ fadeType' = "number" => vmg' = NumSteps /\ saved'[Primary] = NoRamp
          /\ fadeType' = "ramp" => saved'[Primary] # NoRamp
      BY <1>0, <2>1, <2>2, <2>5, <3>2 DEF NoRamps
    <3>5. SavedIsFull'
      BY <3>3, <3>4 DEF SavedIsFull
    <3>6. OthersAreBright'
      BY <1>0, <3>1 DEF OthersAreBright, Bright
    <3> QED
      BY <1>0, <2>1, <2>3, <3>1, <3>5, <3>6 DEF IInv, TypeOK, Types, Bright
  <2> QED
    BY <2>4, <2>5
<1> QED
  BY <1>2, <1>3, <1>4 DEF Setup, XrandrSetup, GammaSetup

-------------------------------------------------------------------------------
LEMMA NoticeBeginsIInv == IInv /\ NoticeBegins => IInv'
<1> SUFFICES ASSUME IInv, NoticeBegins PROVE IInv'
  OBVIOUS
<1>1. /\ phase = "desktop" /\ phase' = "notice" /\ UNCHANGED unfadeTimer
      /\ UNCHANGED <<gamma, lit>>
  BY DEF NoticeBegins, Async, server
<1>2. NoFadeLeft' /\ ExitedIsStill'
  BY <1>1 DEF NoFadeLeft, ExitedIsStill
<1>3. CASE UNCHANGED <<server, screenPriv, fading, trouble, spoiled>>
  <2>1. TypeOK'
    BY <1>1, <1>3 DEF IInv, TypeOK, server, screenPriv, fading
  <2>2. Recoverable' /\ SavedIsFull' /\ OthersAreBright'
    BY <1>1, <1>3 DEF IInv, Recoverable, SavedIsFull, OthersAreBright, Bright, server,
                      screenPriv
  <2> QED
    BY <1>2, <2>1, <2>2 DEF IInv
<1>4. CASE Async
  <2>1. PICK ok \in BOOLEAN : Setup(ok)
    BY <1>4 DEF Async
  <2>2. /\ active' \in BOOLEAN /\ timer' \in BOOLEAN /\ (timer' => active')
        /\ alpha' = alpha
    BY <1>4 DEF Async, Stop
  <2>3. /\ fadeType' \in Types /\ haveInfo' \in BOOLEAN
        /\ saved' \in [Crtcs -> Levels \union {NoRamp}] /\ vmg' \in Levels
        /\ trouble' \in 0 .. MaxTrouble /\ spoiled' \in BOOLEAN
        /\ SavedIsFull' /\ OthersAreBright'
        /\ ~spoiled' => \A c \in Crtcs : gamma[c] < NumSteps =>
             /\ haveInfo'
             /\ IF fadeType' = "number" THEN vmg' = NumSteps
                                        ELSE saved'[c] = NumSteps
    BY <1>1, <2>1, SetupIInv
  <2>4. TypeOK'
    BY <1>1, <2>2, <2>3 DEF IInv, TypeOK
  <2>5. Recoverable'
    BY <1>1, <2>3 DEF Recoverable
  <2> QED
    BY <1>2, <2>3, <2>4, <2>5 DEF IInv
<1> QED
  BY <1>3, <1>4 DEF NoticeBegins

LEMMA FadeOutTimerIInv == IInv /\ FadeOutTimer => IInv'
<1> SUFFICES ASSUME IInv, FadeOutTimer PROVE IInv'
  OBVIOUS
<1>1. timer /\ active /\ UNCHANGED <<lit, screenPriv, phase, unfadeTimer>>
  BY DEF FadeOutTimer, IInv, TypeOK
<1>2. ~(phase \in {"desktop", "screen"} /\ ~unfadeTimer)
  BY <1>1 DEF IInv, NoFadeLeft
<1>3. NoFadeLeft' /\ ExitedIsStill' /\ phase # "exited"
  BY <1>1, <1>2 DEF IInv, NoFadeLeft, ExitedIsStill
<1>4. CASE Complete /\ Stop /\ UNCHANGED <<alpha, gamma, trouble, spoiled>>
  <2>1. TypeOK'
    BY <1>1, <1>4 DEF IInv, TypeOK, Stop, screenPriv
  <2>2. Recoverable' /\ SavedIsFull' /\ OthersAreBright'
    BY <1>1, <1>4 DEF IInv, Recoverable, SavedIsFull, OthersAreBright, Bright,
                      screenPriv
  <2> QED
    BY <1>3, <2>1, <2>2 DEF IInv
<1>5. CASE /\ ~Complete
           /\ alpha' = alpha - 1 /\ SetAlpha(alpha - 1)
           /\ active' = AlphaIsSet /\ timer' = AlphaIsSet
  <2>1. alpha - 1 \in Levels
    BY <1>5 DEF Complete, Levels, IInv, TypeOK
  <2>2. /\ gamma' \in [Crtcs -> Levels]
        /\ trouble' \in 0 .. MaxTrouble /\ spoiled' \in BOOLEAN
        /\ spoiled => spoiled'
    BY <1>5, <2>1, SetAlphaType DEF IInv
  <2>3. TypeOK'
    BY <1>1, <1>5, <2>1, <2>2 DEF IInv, TypeOK, AlphaIsSet, screenPriv
  <2>4. SavedIsFull'
    BY <1>1, <2>2 DEF IInv, SavedIsFull, screenPriv
  <2>5. CASE gamma' = gamma
    <3>1. Recoverable'
      BY <1>1, <2>2, <2>5 DEF IInv, Recoverable, screenPriv
    <3>2. OthersAreBright'
      BY <1>1, <2>2, <2>5 DEF IInv, OthersAreBright, Bright, screenPriv
    <3> QED
      BY <1>3, <2>3, <2>4, <3>1, <3>2 DEF IInv
  <2>6. CASE gamma' = Whacked(alpha - 1) /\ haveInfo /\ fadeType # "none"
    <3>1. CASE spoiled'
      BY <1>3, <2>3, <2>4, <3>1 DEF IInv, Recoverable, OthersAreBright
    <3>2. CASE ~spoiled'
      <4>1. \A c \in Crtcs :
              /\ gamma'[c] # NumSteps =>
                   IF fadeType = "number" THEN vmg = NumSteps ELSE saved[c] = NumSteps
              /\ fadeType # "xrandr" /\ c # Primary => gamma'[c] = NumSteps
        BY <1>3, <2>1, <2>2, <2>6, <3>2, WhackedUndone
      <4>2. Recoverable'
        BY <1>1, <2>6, <4>1 DEF Recoverable, screenPriv
      <4>3. OthersAreBright'
        BY <1>1, <2>6, <4>1 DEF OthersAreBright, screenPriv
      <4> QED
        BY <1>3, <2>3, <2>4, <4>2, <4>3 DEF IInv
    <3> QED
      BY <3>1, <3>2
  <2> QED
    BY <1>5, <2>5, <2>6 DEF SetAlpha
<1> QED
  BY <1>4, <1>5 DEF FadeOutTimer

LEMMA NextIInv == IInv /\ [Next]_vars => IInv'
<1> SUFFICES ASSUME IInv, [Next]_vars PROVE IInv'
  OBVIOUS
<1>1. CASE FadeOutTimer
  BY <1>1, FadeOutTimerIInv
<1>2. CASE NoticeBegins
  BY <1>2, NoticeBeginsIInv
<1>3. CASE NoticeEnds
  BY <1>3, ResetIInv DEF NoticeEnds, IInv, TypeOK
<1>4. CASE ScreenUp \/ ShowWindow
  <2>1. /\ phase' = "screen" /\ unfadeTimer' = TRUE /\ phase # "exited"
        /\ UNCHANGED <<server, screenPriv, fading, trouble, spoiled>>
    BY <1>4 DEF ScreenUp, ArmUnfade, ShowWindow
  <2>2. TypeOK'
    BY <2>1 DEF IInv, TypeOK, server, screenPriv, fading
  <2>3. Recoverable' /\ SavedIsFull' /\ OthersAreBright' /\ NoFadeLeft' /\ ExitedIsStill'
    BY <2>1 DEF IInv, Recoverable, SavedIsFull, OthersAreBright, Bright, NoFadeLeft,
                ExitedIsStill, server, screenPriv
  <2> QED
    BY <2>2, <2>3 DEF IInv
<1>5. CASE UnfadeIdle
  BY <1>5, ResetIInv DEF UnfadeIdle, IInv, TypeOK, ExitedIsStill
<1>6. CASE ScreenDown
  BY <1>6, ResetIInv DEF ScreenDown
<1>7. CASE Exit
  <2>1. NoRamps \in [Crtcs -> Levels \union {NoRamp}]
    BY DEF NoRamps
  <2>2. TypeOK'
    BY <1>7, <2>1 DEF Exit, IInv, TypeOK, server
  <2>3. Recoverable' /\ SavedIsFull' /\ OthersAreBright' /\ NoFadeLeft' /\ ExitedIsStill'
    BY <1>7 DEF Exit, IInv, Recoverable, SavedIsFull, OthersAreBright, Bright,
                NoFadeLeft, ExitedIsStill, server
  <2> QED
    BY <2>2, <2>3 DEF IInv
<1>8. ASSUME NEW c \in Crtcs, SetMode(c) PROVE IInv'
  <2>1. lit' \subseteq Crtcs
    BY <1>8 DEF SetMode, IInv, TypeOK
  <2>2. TypeOK'
    BY <1>8, <2>1 DEF SetMode, IInv, TypeOK, screenPriv, fading
  <2>3. Recoverable' /\ SavedIsFull' /\ OthersAreBright' /\ NoFadeLeft' /\ ExitedIsStill'
    BY <1>8 DEF SetMode, IInv, Recoverable, SavedIsFull, OthersAreBright, Bright,
                NoFadeLeft, ExitedIsStill, screenPriv, fading
  <2> QED
    BY <2>2, <2>3 DEF IInv
<1>9. CASE UNCHANGED vars
  BY <1>9 DEF vars, server, screenPriv, fading, IInv, TypeOK, Recoverable, SavedIsFull,
              OthersAreBright, Bright, NoFadeLeft, ExitedIsStill
<1> QED
  BY <1>1, <1>2, <1>3, <1>4, <1>5, <1>6, <1>7, <1>8, <1>9 DEF Next

LEMMA AlwaysIInv == Spec => []IInv
  BY InitIInv, NextIInv, PTL DEF Spec

\* Every variable keeps its type; no step of a fade leaves the levels there are.
THEOREM TypeCorrect == Spec => []TypeOK
<1>1. IInv => TypeOK
  BY DEF IInv
<1> QED
  BY <1>1, AlwaysIInv, PTL

\* A fade can be undone at any time: what is dark has its full gamma saved
\* (xrandr_fade_setup, gamma_fade_setup).
THEOREM AlwaysRecoverable == Spec => []Recoverable
<1>1. IInv => Recoverable
  BY DEF IInv
<1> QED
  BY <1>1, AlwaysIInv, PTL

\* On a desktop in use, and half a second after the screen came up, nothing is
\* left of a fade (gs_fade_reset and its callers).
THEOREM NeverFadeLeft == Spec => []NoFadeLeft
<1>1. IInv => NoFadeLeft
  BY DEF IInv
<1> QED
  BY <1>1, AlwaysIInv, PTL
=================================================================================
