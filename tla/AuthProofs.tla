------------------------------ MODULE AuthProofs ------------------------------
(***************************************************************************)
(* What AuthConversation promises for any number of failures allowed and   *)
(* of spurious wakeups, and that it implements Dialog.  IInv is inductive: *)
(* that the dialog stops after its last failure needs a check to keep its  *)
(* idle, that an OK has PAM's consent needs the thread not to outlive its  *)
(* check.                                                                  *)
(***************************************************************************)
EXTENDS AuthConversation, TLAPS

InCheck == main \in {"loop2", "prompt", "events"}

\* A check's loop is told to quit by the thread, or by an answer.
QuitHasCause == InCheck /\ quit2 /\ ~threadDone => "cancel" \in said

\* Checks are made while failures are left, by an idle that stays installed.
CheckCounts ==
    /\ InCheck => checkIdle
    /\ checkIdle => failures < MaxFailures /\ ~okIdle
    /\ main \in {"start", "popup"} => failures = 0 /\ ~checkIdle /\ ~okIdle

\* The thread lives as long as the check, and decides once; a success is the
\* last check's.
ThreadHasCheck ==
    alive = "alive" =>
        /\ thread # "none" => InCheck
        /\ thread \in {"running", "waiting", "woken"} => pam = "none"
        /\ pam = "success" => thread = "done" \/ (main = "loop1" /\ ~checkIdle)
        /\ okIdle => pam = "success"

\* Without a spurious wakeup the handlers and the waiting thread keep step.
InStep ==
    spurious = 0 /\ alive = "alive" =>
        /\ ~staleIdle
        /\ queued # "none" => thread = "waiting" /\ main = "loop2"
        /\ main \in {"prompt", "events"} => thread = "waiting"

IInv ==
    /\ TypeOK
    /\ KilledOnlyAfterCancel /\ QuitHasCause
    /\ ThreadIsHeard
    /\ PromptHasTimer
    /\ QuitsAfterFailures /\ CheckCounts
    /\ ThreadHasCheck
    /\ InStep

USE FailureAssumption, SpuriousAssumption

\* The start of the dialog satisfies the invariant.
LEMMA InitIInv == Init => IInv
<1> SUFFICES ASSUME Init PROVE IInv
  OBVIOUS
<1>1. TypeOK
  <2>1. OutTypes /\ LoopTypes /\ PlugTypes
    BY DEF Init, OutTypes, LoopTypes, PlugTypes
  <2>2. CheckTypes
    <3>1. failures \in 0..MaxFailures
      BY DEF Init
    <3> QED BY <3>1 DEF Init, CheckTypes
  <2>3. ThreadTypes
    <3>1. spurious \in 0..MaxSpurious
      BY DEF Init
    <3> QED BY <3>1 DEF Init, ThreadTypes
  <2> QED BY <2>1, <2>2, <2>3 DEF TypeOK
<1>2. KilledOnlyAfterCancel /\ QuitHasCause /\ ThreadIsHeard /\ PromptHasTimer
  BY DEF Init, KilledOnlyAfterCancel, QuitHasCause, InCheck, ThreadIsHeard,
     PromptHasTimer
<1>3. QuitsAfterFailures /\ CheckCounts
  BY DEF Init, QuitsAfterFailures, CheckCounts, InCheck
<1>4. ThreadHasCheck /\ InStep
  BY DEF Init, ThreadHasCheck, InStep
<1> QED BY <1>1, <1>2, <1>3, <1>4 DEF IInv

\* A failed check is counted, and the last one allowed is the last one made.
LEMMA FailureCounted ==
    ASSUME CheckTypes, checkIdle, failures < MaxFailures, CheckFailed,
           threadDone' \in BOOLEAN
    PROVE  /\ CheckTypes'
           /\ checkIdle' => failures' < MaxFailures
           /\ failures' = MaxFailures => ~checkIdle' /\ quitTimer'
           /\ UNCHANGED okIdle
<1>1. failures' = failures + 1 /\ NextAfter(failures') /\ UNCHANGED okIdle
  BY DEF CheckFailed
<1>2. failures' \in 0..MaxFailures
  BY <1>1 DEF CheckTypes
<1>3. CASE failures' < MaxFailures
  <2>1. UNCHANGED <<checkIdle, quitIdle, quitTimer>>
    BY <1>1, <1>3 DEF NextAfter
  <2> QED BY <1>1, <1>2, <1>3, <2>1 DEF CheckTypes
<1>4. CASE ~(failures' < MaxFailures)
  <2>1. checkIdle' = FALSE /\ quitIdle' = TRUE /\ quitTimer' = TRUE
    BY <1>1, <1>4 DEF NextAfter, FailedForGood
  <2> QED BY <1>1, <1>2, <1>4, <2>1 DEF CheckTypes
<1> QED BY <1>3, <1>4

\* Every step keeps the invariant: one step of the proof for each action.
LEMMA NextIInv == IInv /\ [Next]_vars => IInv'
<1> USE DEF IInv, Runs, outVars, loopVars, checkVars, plugVars, threadVars
<1>1. ASSUME IInv, Starts PROVE IInv'
  <2>1. TypeOK'
    <3>1. (OutTypes /\ LoopTypes /\ PlugTypes)'
      BY <1>1 DEF Starts, Says, TypeOK, OutTypes, LoopTypes, PlugTypes,
         Answers
    <3>2. CheckTypes'
      BY <1>1 DEF Starts, Says, TypeOK, CheckTypes, CheckCounts
    <3>3. ThreadTypes'
      BY <1>1 DEF Starts, Says, TypeOK, ThreadTypes, Styles
    <3> QED BY <3>1, <3>2, <3>3 DEF TypeOK
  <2>2. (KilledOnlyAfterCancel /\ QuitHasCause)'
    BY <1>1 DEF Starts, Says, KilledOnlyAfterCancel, QuitHasCause, InCheck
  <2>3. (ThreadIsHeard /\ InStep)'
    BY <1>1 DEF Starts, Says, ThreadIsHeard, InStep, MutexFree
  <2>4. PromptHasTimer'
    BY <1>1 DEF Starts, Says, PromptHasTimer
  <2>5. (QuitsAfterFailures /\ CheckCounts)'
    BY <1>1 DEF Starts, Says, QuitsAfterFailures, CheckCounts, InCheck,
       TypeOK, CheckTypes
  <2>6. ThreadHasCheck'
    BY <1>1 DEF Starts, Says, ThreadHasCheck, CheckCounts, InCheck
  <2> QED BY <2>1, <2>2, <2>3, <2>4, <2>5, <2>6
<1>2. ASSUME IInv, PopupDialogIdle PROVE IInv'
  BY <1>2 DEF PopupDialogIdle, TypeOK, OutTypes, LoopTypes, CheckTypes,
     PlugTypes, ThreadTypes, KilledOnlyAfterCancel, QuitHasCause,
     ThreadIsHeard, PromptHasTimer, QuitsAfterFailures, CheckCounts,
     ThreadHasCheck, InStep, InCheck, MutexFree, Answers, Styles
<1>3. ASSUME IInv, CheckBegins PROVE IInv'
  <2>0. /\ CheckTypes' /\ (checkIdle' => failures' < MaxFailures /\ ~okIdle')
        /\ failures' = MaxFailures => ~checkIdle' /\ quitTimer'
    <3>1. CheckTypes /\ checkIdle /\ failures < MaxFailures /\ ~okIdle
      BY <1>3 DEF CheckBegins, TypeOK, CheckCounts
    <3>2. CASE CheckFailed /\ UNCHANGED threadDone
      BY <3>1, <3>2, FailureCounted DEF CheckTypes
    <3>3. CASE /\ UNCHANGED <<checkIdle, okIdle, quitIdle, failures, quitTimer>>
               /\ threadDone' = FALSE
      <4>1. CheckTypes'
        BY <3>1, <3>3 DEF CheckTypes
      <4>2. failures' < MaxFailures /\ failures' # MaxFailures
        BY <3>1, <3>3 DEF CheckTypes
      <4>3. ~okIdle'
        BY <3>1, <3>3
      <4> QED BY <4>1, <4>2, <4>3
    <3> QED BY <1>3, <3>2, <3>3 DEF CheckBegins
  <2>1. TypeOK'
    <3>1. (OutTypes /\ LoopTypes /\ PlugTypes)'
      BY <1>3 DEF CheckBegins, CheckFailed, NextAfter, FailedForGood, Says,
         RunsIdle, TypeOK, OutTypes, LoopTypes, PlugTypes, Answers
    <3>2. CheckTypes'
      BY <2>0
    <3>3. ThreadTypes'
      BY <1>3 DEF CheckBegins, CheckFailed, NextAfter, FailedForGood, Says,
         RunsIdle, TypeOK, ThreadTypes, Styles
    <3> QED BY <3>1, <3>2, <3>3 DEF TypeOK
  <2>2. (KilledOnlyAfterCancel /\ QuitHasCause)'
    BY <1>3 DEF CheckBegins, CheckFailed, NextAfter, FailedForGood, Says,
       RunsIdle, KilledOnlyAfterCancel, QuitHasCause, InCheck
  <2>3. (ThreadIsHeard /\ InStep)'
    BY <1>3 DEF CheckBegins, CheckFailed, NextAfter, FailedForGood, Says,
       RunsIdle, ThreadIsHeard, InStep, MutexFree
  <2>4. PromptHasTimer'
    BY <1>3 DEF CheckBegins, CheckFailed, NextAfter, FailedForGood, Says,
       RunsIdle, PromptHasTimer
  <2>5. (QuitsAfterFailures /\ CheckCounts)'
    BY <1>3, <2>0 DEF CheckBegins, RunsIdle, QuitsAfterFailures, CheckCounts,
       InCheck
  <2>6. ThreadHasCheck'
    BY <1>3 DEF CheckBegins, CheckFailed, NextAfter, FailedForGood, Says,
       RunsIdle, ThreadHasCheck, CheckCounts, InCheck
  <2> QED BY <2>1, <2>2, <2>3, <2>4, <2>5, <2>6
<1>4. ASSUME IInv, ThreadHangsUp PROVE IInv'
  BY <1>4 DEF ThreadHangsUp, QuitsLoop, TypeOK, OutTypes, LoopTypes,
     CheckTypes, PlugTypes, ThreadTypes, KilledOnlyAfterCancel, QuitHasCause,
     ThreadIsHeard, PromptHasTimer, QuitsAfterFailures, CheckCounts,
     ThreadHasCheck, InStep, InCheck, MutexFree, Answers, Styles
<1>5. ASSUME IInv, CheckEnds PROVE IInv'
  <2>0. /\ CheckTypes' /\ (checkIdle' => failures' < MaxFailures /\ ~okIdle')
        /\ failures' = MaxFailures => ~checkIdle' /\ quitTimer'
    <3>1. CheckTypes /\ checkIdle /\ failures < MaxFailures /\ ~okIdle
      BY <1>5 DEF CheckEnds, TypeOK, CheckCounts, InCheck
    <3>2. CASE CheckFailed /\ UNCHANGED threadDone
      BY <3>1, <3>2, FailureCounted DEF CheckTypes
    <3>3. CASE UNCHANGED checkVars
      BY <3>1, <3>3 DEF CheckTypes
    <3>4. CASE /\ okIdle' = TRUE /\ checkIdle' = FALSE
               /\ UNCHANGED <<quitIdle, failures, threadDone, quitTimer>>
      <4>1. CheckTypes'
        BY <3>1, <3>4 DEF CheckTypes
      <4>2. failures' # MaxFailures
        BY <3>1, <3>4 DEF CheckTypes
      <4> QED BY <3>4, <4>1, <4>2
    <3> QED BY <1>5, <3>2, <3>3, <3>4 DEF CheckEnds
  <2>1. TypeOK'
    <3>1. (OutTypes /\ LoopTypes /\ PlugTypes)'
      BY <1>5 DEF CheckEnds, CheckFailed, NextAfter, FailedForGood, Says,
         CanJoin, Accepted, TypeOK, OutTypes, LoopTypes, PlugTypes, Answers
    <3>2. CheckTypes'
      BY <2>0
    <3>3. ThreadTypes'
      BY <1>5 DEF CheckEnds, CheckFailed, NextAfter, FailedForGood, Says,
         CanJoin, Accepted, TypeOK, ThreadTypes, Styles
    <3> QED BY <3>1, <3>2, <3>3 DEF TypeOK
  <2>2. (KilledOnlyAfterCancel /\ QuitHasCause)'
    BY <1>5 DEF CheckEnds, CheckFailed, NextAfter, FailedForGood, Says,
       CanJoin, Accepted, KilledOnlyAfterCancel, QuitHasCause, InCheck
  <2>3. (ThreadIsHeard /\ InStep)'
    BY <1>5 DEF CheckEnds, CheckFailed, NextAfter, FailedForGood, Says,
       CanJoin, Accepted, ThreadIsHeard, InStep, MutexFree
  <2>4. PromptHasTimer'
    BY <1>5 DEF CheckEnds, CheckFailed, NextAfter, FailedForGood, Says,
       CanJoin, Accepted, PromptHasTimer
  <2>5. (QuitsAfterFailures /\ CheckCounts)'
    BY <1>5, <2>0 DEF CheckEnds, RunsIdle, QuitsAfterFailures, CheckCounts,
       InCheck
  <2>6. ThreadHasCheck'
    BY <1>5 DEF CheckEnds, CheckFailed, NextAfter, FailedForGood, Says,
       CanJoin, Accepted, ThreadHasCheck, CheckCounts, InCheck
  <2> QED BY <2>1, <2>2, <2>3, <2>4, <2>5, <2>6
<1>6. ASSUME IInv, QuitResponseOk PROVE IInv'
  <2>1. TypeOK'
    <3>1. (OutTypes /\ LoopTypes /\ PlugTypes)'
      BY <1>6 DEF QuitResponseOk, Says, RunsIdle, TypeOK, OutTypes, LoopTypes,
         PlugTypes, Answers
    <3>2. CheckTypes'
      BY <1>6 DEF QuitResponseOk, Says, RunsIdle, TypeOK, CheckTypes,
         CheckCounts
    <3>3. ThreadTypes'
      BY <1>6 DEF QuitResponseOk, Says, RunsIdle, TypeOK, ThreadTypes, Styles
    <3> QED BY <3>1, <3>2, <3>3 DEF TypeOK
  <2>2. (KilledOnlyAfterCancel /\ QuitHasCause)'
    BY <1>6 DEF QuitResponseOk, Says, RunsIdle, KilledOnlyAfterCancel,
       QuitHasCause, InCheck
  <2>3. (ThreadIsHeard /\ InStep)'
    BY <1>6 DEF QuitResponseOk, Says, RunsIdle, ThreadIsHeard, InStep,
       MutexFree
  <2>4. PromptHasTimer'
    BY <1>6 DEF QuitResponseOk, Says, RunsIdle, PromptHasTimer
  <2>5. (QuitsAfterFailures /\ CheckCounts)'
    BY <1>6 DEF QuitResponseOk, Says, RunsIdle, QuitsAfterFailures,
       CheckCounts, InCheck, TypeOK, CheckTypes
  <2>6. ThreadHasCheck'
    BY <1>6 DEF QuitResponseOk, Says, RunsIdle, ThreadHasCheck, CheckCounts,
       InCheck
  <2> QED BY <2>1, <2>2, <2>3, <2>4, <2>5, <2>6
<1>7. ASSUME IInv, RequestQuit PROVE IInv'
  <2>1. TypeOK'
    <3>1. (OutTypes /\ LoopTypes /\ PlugTypes)'
      BY <1>7 DEF RequestQuit, Says, RunsIdle, TypeOK, OutTypes, LoopTypes,
         PlugTypes, Answers
    <3>2. CheckTypes'
      BY <1>7 DEF RequestQuit, Says, RunsIdle, TypeOK, CheckTypes, CheckCounts
    <3>3. ThreadTypes'
      BY <1>7 DEF RequestQuit, Says, RunsIdle, TypeOK, ThreadTypes, Styles
    <3> QED BY <3>1, <3>2, <3>3 DEF TypeOK
  <2>2. (KilledOnlyAfterCancel /\ QuitHasCause)'
    BY <1>7 DEF RequestQuit, Says, RunsIdle, KilledOnlyAfterCancel,
       QuitHasCause, InCheck
  <2>3. (ThreadIsHeard /\ InStep)'
    BY <1>7 DEF RequestQuit, Says, RunsIdle, ThreadIsHeard, InStep, MutexFree
  <2>4. PromptHasTimer'
    BY <1>7 DEF RequestQuit, Says, RunsIdle, PromptHasTimer
  <2>5. (QuitsAfterFailures /\ CheckCounts)'
    BY <1>7 DEF RequestQuit, Says, RunsIdle, QuitsAfterFailures, CheckCounts,
       InCheck, TypeOK, CheckTypes
  <2>6. ThreadHasCheck'
    BY <1>7 DEF RequestQuit, Says, RunsIdle, ThreadHasCheck, CheckCounts,
       InCheck
  <2> QED BY <2>1, <2>2, <2>3, <2>4, <2>5, <2>6
<1>8. ASSUME IInv, QuitTimeout PROVE IInv'
  <2>1. TypeOK'
    <3>1. (OutTypes /\ LoopTypes /\ PlugTypes)'
      BY <1>8 DEF QuitTimeout, TypeOK, OutTypes, LoopTypes, PlugTypes, Answers
    <3>2. CheckTypes'
      BY <1>8 DEF QuitTimeout, TypeOK, CheckTypes, CheckCounts
    <3>3. ThreadTypes'
      BY <1>8 DEF QuitTimeout, TypeOK, ThreadTypes, Styles
    <3> QED BY <3>1, <3>2, <3>3 DEF TypeOK
  <2>2. (KilledOnlyAfterCancel /\ QuitHasCause)'
    BY <1>8 DEF QuitTimeout, KilledOnlyAfterCancel, QuitHasCause, InCheck
  <2>3. (ThreadIsHeard /\ InStep)'
    BY <1>8 DEF QuitTimeout, ThreadIsHeard, InStep, MutexFree
  <2>4. PromptHasTimer'
    BY <1>8 DEF QuitTimeout, PromptHasTimer
  <2>5. (QuitsAfterFailures /\ CheckCounts)'
    BY <1>8 DEF QuitTimeout, QuitsAfterFailures, CheckCounts, InCheck, TypeOK,
       CheckTypes
  <2>6. ThreadHasCheck'
    BY <1>8 DEF QuitTimeout, ThreadHasCheck, CheckCounts, InCheck
  <2> QED BY <2>1, <2>2, <2>3, <2>4, <2>5, <2>6
<1>9. ASSUME IInv, Exit PROVE IInv'
  BY <1>9 DEF Exit, TypeOK, OutTypes, LoopTypes, CheckTypes, PlugTypes,
     ThreadTypes, KilledOnlyAfterCancel, QuitHasCause, ThreadIsHeard,
     PromptHasTimer, QuitsAfterFailures, CheckCounts, ThreadHasCheck, InStep,
     InCheck, MutexFree, Answers, Styles
<1>10. ASSUME IInv, HandleMessage PROVE IInv'
  <2>1. TypeOK'
    <3>1. (OutTypes /\ LoopTypes /\ PlugTypes)'
      BY <1>10 DEF HandleMessage, Handles, RestartCancelTimeout, Says,
         RunsIdle, TypeOK, OutTypes, LoopTypes, PlugTypes, Answers
    <3>2. CheckTypes'
      BY <1>10 DEF HandleMessage, Handles, RestartCancelTimeout, Says,
         RunsIdle, TypeOK, CheckTypes, CheckCounts
    <3>3. ThreadTypes'
      BY <1>10 DEF HandleMessage, Handles, RestartCancelTimeout, Says,
         RunsIdle, TypeOK, ThreadTypes, Styles
    <3> QED BY <3>1, <3>2, <3>3 DEF TypeOK
  <2>2. (KilledOnlyAfterCancel /\ QuitHasCause)'
    BY <1>10 DEF HandleMessage, Handles, RestartCancelTimeout, Says, RunsIdle,
       KilledOnlyAfterCancel, QuitHasCause, InCheck
  <2>3. (ThreadIsHeard /\ InStep)'
    BY <1>10 DEF HandleMessage, Handles, RestartCancelTimeout, Says, RunsIdle,
       ThreadIsHeard, InStep, MutexFree
  <2>4. PromptHasTimer'
    BY <1>10 DEF HandleMessage, Handles, RestartCancelTimeout, Says, RunsIdle,
       PromptHasTimer
  <2>5. (QuitsAfterFailures /\ CheckCounts)'
    BY <1>10 DEF HandleMessage, Handles, RestartCancelTimeout, Says, RunsIdle,
       QuitsAfterFailures, CheckCounts, InCheck, TypeOK, CheckTypes
  <2>6. ThreadHasCheck'
    BY <1>10 DEF HandleMessage, Handles, RestartCancelTimeout, Says, RunsIdle,
       ThreadHasCheck, CheckCounts, InCheck
  <2> QED BY <2>1, <2>2, <2>3, <2>4, <2>5, <2>6
<1>11. ASSUME IInv, HandleStaleMessage PROVE IInv'
  <2>1. TypeOK'
    <3>1. (OutTypes /\ LoopTypes /\ PlugTypes)'
      BY <1>11 DEF HandleStaleMessage, Handles, RestartCancelTimeout, Says,
         RunsIdle, TypeOK, OutTypes, LoopTypes, PlugTypes, Answers
    <3>2. CheckTypes'
      BY <1>11 DEF HandleStaleMessage, Handles, RestartCancelTimeout, Says,
         RunsIdle, TypeOK, CheckTypes, CheckCounts
    <3>3. ThreadTypes'
      BY <1>11 DEF HandleStaleMessage, Handles, RestartCancelTimeout, Says,
         RunsIdle, TypeOK, ThreadTypes, Styles
    <3> QED BY <3>1, <3>2, <3>3 DEF TypeOK
  <2>2. (KilledOnlyAfterCancel /\ QuitHasCause)'
    BY <1>11 DEF HandleStaleMessage, Handles, RestartCancelTimeout, Says,
       RunsIdle, KilledOnlyAfterCancel, QuitHasCause, InCheck
  <2>3. (ThreadIsHeard /\ InStep)'
    BY <1>11 DEF HandleStaleMessage, Handles, RestartCancelTimeout, Says,
       RunsIdle, ThreadIsHeard, InStep, MutexFree
  <2>4. PromptHasTimer'
    BY <1>11 DEF HandleStaleMessage, Handles, RestartCancelTimeout, Says,
       RunsIdle, PromptHasTimer
  <2>5. (QuitsAfterFailures /\ CheckCounts)'
    BY <1>11 DEF HandleStaleMessage, Handles, RestartCancelTimeout, Says,
       RunsIdle, QuitsAfterFailures, CheckCounts, InCheck, TypeOK, CheckTypes
  <2>6. ThreadHasCheck'
    BY <1>11 DEF HandleStaleMessage, Handles, RestartCancelTimeout, Says,
       RunsIdle, ThreadHasCheck, CheckCounts, InCheck
  <2> QED BY <2>1, <2>2, <2>3, <2>4, <2>5, <2>6
<1>12. ASSUME IInv, HandlerWithinHandler PROVE IInv'
  BY <1>12 DEF HandlerWithinHandler, TypeOK, OutTypes, LoopTypes, CheckTypes,
     PlugTypes, ThreadTypes, KilledOnlyAfterCancel, QuitHasCause,
     ThreadIsHeard, PromptHasTimer, QuitsAfterFailures, CheckCounts,
     ThreadHasCheck, InStep, InCheck, MutexFree, Answers, Styles
<1>13. ASSUME IInv, HandlerEnds PROVE IInv'
  BY <1>13 DEF HandlerEnds, SignalThread, TypeOK, OutTypes, LoopTypes,
     CheckTypes, PlugTypes, ThreadTypes, KilledOnlyAfterCancel, QuitHasCause,
     ThreadIsHeard, PromptHasTimer, QuitsAfterFailures, CheckCounts,
     ThreadHasCheck, InStep, InCheck, MutexFree, Answers, Styles
<1>14. ASSUME IInv, Reply PROVE IInv'
  <2>1. TypeOK'
    <3>1. (OutTypes /\ LoopTypes /\ PlugTypes)'
      BY <1>14 DEF Reply, TypeOK, OutTypes, LoopTypes, PlugTypes, Answers
    <3>2. CheckTypes'
      BY <1>14 DEF Reply, TypeOK, CheckTypes, CheckCounts
    <3>3. ThreadTypes'
      BY <1>14 DEF Reply, TypeOK, ThreadTypes, Styles
    <3> QED BY <3>1, <3>2, <3>3 DEF TypeOK
  <2>2. (KilledOnlyAfterCancel /\ QuitHasCause)'
    BY <1>14 DEF Reply, KilledOnlyAfterCancel, QuitHasCause, InCheck
  <2>3. (ThreadIsHeard /\ InStep)'
    BY <1>14 DEF Reply, ThreadIsHeard, InStep, MutexFree
  <2>4. PromptHasTimer'
    BY <1>14 DEF Reply, PromptHasTimer
  <2>5. (QuitsAfterFailures /\ CheckCounts)'
    BY <1>14 DEF Reply, QuitsAfterFailures, CheckCounts, InCheck, TypeOK,
       CheckTypes
  <2>6. ThreadHasCheck'
    BY <1>14 DEF Reply, ThreadHasCheck, CheckCounts, InCheck
  <2> QED BY <2>1, <2>2, <2>3, <2>4, <2>5, <2>6
<1>15. ASSUME IInv, Unmapped PROVE IInv'
  <2>1. TypeOK'
    <3>1. (OutTypes /\ LoopTypes /\ PlugTypes)'
      BY <1>15 DEF Unmapped, TypeOK, OutTypes, LoopTypes, PlugTypes, Answers
    <3>2. CheckTypes'
      BY <1>15 DEF Unmapped, TypeOK, CheckTypes, CheckCounts
    <3>3. ThreadTypes'
      BY <1>15 DEF Unmapped, TypeOK, ThreadTypes, Styles
    <3> QED BY <3>1, <3>2, <3>3 DEF TypeOK
  <2>2. (KilledOnlyAfterCancel /\ QuitHasCause)'
    BY <1>15 DEF Unmapped, KilledOnlyAfterCancel, QuitHasCause, InCheck
  <2>3. (ThreadIsHeard /\ InStep)'
    BY <1>15 DEF Unmapped, ThreadIsHeard, InStep, MutexFree
  <2>4. PromptHasTimer'
    BY <1>15 DEF Unmapped, PromptHasTimer
  <2>5. (QuitsAfterFailures /\ CheckCounts)'
    BY <1>15 DEF Unmapped, QuitsAfterFailures, CheckCounts, InCheck, TypeOK,
       CheckTypes
  <2>6. ThreadHasCheck'
    BY <1>15 DEF Unmapped, ThreadHasCheck, CheckCounts, InCheck
  <2> QED BY <2>1, <2>2, <2>3, <2>4, <2>5, <2>6
<1>16. ASSUME IInv, Cancels, Runs PROVE IInv'
  <2>1. TypeOK'
    <3>1. (OutTypes /\ LoopTypes /\ PlugTypes)'
      BY <1>16 DEF Cancels, HangsUpTogether, Says, TypeOK, OutTypes,
         LoopTypes, PlugTypes, Answers
    <3>2. CheckTypes'
      BY <1>16 DEF Cancels, HangsUpTogether, Says, TypeOK, CheckTypes,
         CheckCounts
    <3>3. ThreadTypes'
      BY <1>16 DEF Cancels, HangsUpTogether, Says, TypeOK, ThreadTypes, Styles
    <3> QED BY <3>1, <3>2, <3>3 DEF TypeOK
  <2>2. (KilledOnlyAfterCancel /\ QuitHasCause)'
    BY <1>16 DEF Cancels, HangsUpTogether, Says, KilledOnlyAfterCancel,
       QuitHasCause, InCheck
  <2>3. (ThreadIsHeard /\ InStep)'
    BY <1>16 DEF Cancels, HangsUpTogether, Says, ThreadIsHeard, InStep,
       MutexFree
  <2>4. PromptHasTimer'
    BY <1>16 DEF Cancels, HangsUpTogether, Says, PromptHasTimer
  <2>5. (QuitsAfterFailures /\ CheckCounts)'
    BY <1>16 DEF Cancels, HangsUpTogether, Says, QuitsAfterFailures,
       CheckCounts, InCheck, TypeOK, CheckTypes
  <2>6. ThreadHasCheck'
    BY <1>16 DEF Cancels, HangsUpTogether, Says, ThreadHasCheck, CheckCounts,
       InCheck
  <2> QED BY <2>1, <2>2, <2>3, <2>4, <2>5, <2>6
<1>17. ASSUME IInv, DialogTimedOut PROVE IInv'
  <2>1. TypeOK'
    <3>1. (OutTypes /\ LoopTypes /\ PlugTypes)'
      BY <1>17 DEF DialogTimedOut, TypeOK, OutTypes, LoopTypes, PlugTypes,
         Answers
    <3>2. CheckTypes'
      BY <1>17 DEF DialogTimedOut, TypeOK, CheckTypes, CheckCounts
    <3>3. ThreadTypes'
      BY <1>17 DEF DialogTimedOut, TypeOK, ThreadTypes, Styles
    <3> QED BY <3>1, <3>2, <3>3 DEF TypeOK
  <2>2. (KilledOnlyAfterCancel /\ QuitHasCause)'
    BY <1>17 DEF DialogTimedOut, KilledOnlyAfterCancel, QuitHasCause, InCheck
  <2>3. (ThreadIsHeard /\ InStep)'
    BY <1>17 DEF DialogTimedOut, ThreadIsHeard, InStep, MutexFree
  <2>4. PromptHasTimer'
    BY <1>17 DEF DialogTimedOut, PromptHasTimer
  <2>5. (QuitsAfterFailures /\ CheckCounts)'
    BY <1>17 DEF DialogTimedOut, QuitsAfterFailures, CheckCounts, InCheck,
       TypeOK, CheckTypes
  <2>6. ThreadHasCheck'
    BY <1>17 DEF DialogTimedOut, ThreadHasCheck, CheckCounts, InCheck
  <2> QED BY <2>1, <2>2, <2>3, <2>4, <2>5, <2>6
<1>18. ASSUME IInv, SwitchUser PROVE IInv'
  <2>1. TypeOK'
    <3>1. (OutTypes /\ LoopTypes /\ PlugTypes)'
      BY <1>18 DEF SwitchUser, TypeOK, OutTypes, LoopTypes, PlugTypes, Answers
    <3>2. CheckTypes'
      BY <1>18 DEF SwitchUser, TypeOK, CheckTypes, CheckCounts
    <3>3. ThreadTypes'
      BY <1>18 DEF SwitchUser, TypeOK, ThreadTypes, Styles
    <3> QED BY <3>1, <3>2, <3>3 DEF TypeOK
  <2>2. (KilledOnlyAfterCancel /\ QuitHasCause)'
    BY <1>18 DEF SwitchUser, KilledOnlyAfterCancel, QuitHasCause, InCheck
  <2>3. (ThreadIsHeard /\ InStep)'
    BY <1>18 DEF SwitchUser, ThreadIsHeard, InStep, MutexFree
  <2>4. PromptHasTimer'
    BY <1>18 DEF SwitchUser, PromptHasTimer
  <2>5. (QuitsAfterFailures /\ CheckCounts)'
    BY <1>18 DEF SwitchUser, QuitsAfterFailures, CheckCounts, InCheck, TypeOK,
       CheckTypes
  <2>6. ThreadHasCheck'
    BY <1>18 DEF SwitchUser, ThreadHasCheck, CheckCounts, InCheck
  <2> QED BY <2>1, <2>2, <2>3, <2>4, <2>5, <2>6
<1>19. ASSUME IInv, KeyPress PROVE IInv'
  BY <1>19 DEF KeyPress, RestartCancelTimeout, TypeOK, OutTypes, LoopTypes,
     CheckTypes, PlugTypes, ThreadTypes, KilledOnlyAfterCancel, QuitHasCause,
     ThreadIsHeard, PromptHasTimer, QuitsAfterFailures, CheckCounts,
     ThreadHasCheck, InStep, InCheck, MutexFree, Answers, Styles
<1>20. ASSUME IInv, ResetIdle PROVE IInv'
  <2>1. TypeOK'
    <3>1. (OutTypes /\ LoopTypes /\ PlugTypes)'
      BY <1>20 DEF ResetIdle, TypeOK, OutTypes, LoopTypes, PlugTypes, Answers
    <3>2. CheckTypes'
      BY <1>20 DEF ResetIdle, TypeOK, CheckTypes, CheckCounts
    <3>3. ThreadTypes'
      BY <1>20 DEF ResetIdle, TypeOK, ThreadTypes, Styles
    <3> QED BY <3>1, <3>2, <3>3 DEF TypeOK
  <2>2. (KilledOnlyAfterCancel /\ QuitHasCause)'
    BY <1>20 DEF ResetIdle, KilledOnlyAfterCancel, QuitHasCause, InCheck
  <2>3. (ThreadIsHeard /\ InStep)'
    BY <1>20 DEF ResetIdle, ThreadIsHeard, InStep, MutexFree
  <2>4. PromptHasTimer'
    BY <1>20 DEF ResetIdle, PromptHasTimer
  <2>5. (QuitsAfterFailures /\ CheckCounts)'
    BY <1>20 DEF ResetIdle, QuitsAfterFailures, CheckCounts, InCheck, TypeOK,
       CheckTypes
  <2>6. ThreadHasCheck'
    BY <1>20 DEF ResetIdle, ThreadHasCheck, CheckCounts, InCheck
  <2> QED BY <2>1, <2>2, <2>3, <2>4, <2>5, <2>6
<1>21. ASSUME IInv, Terminated PROVE IInv'
  BY <1>21 DEF Terminated, TypeOK, OutTypes, LoopTypes, CheckTypes, PlugTypes,
     ThreadTypes, KilledOnlyAfterCancel, QuitHasCause, ThreadIsHeard,
     PromptHasTimer, QuitsAfterFailures, CheckCounts, ThreadHasCheck, InStep,
     InCheck, MutexFree, Answers, Styles
<1>22. ASSUME IInv, NEW style \in Styles, PamAsks(style) PROVE IInv'
  BY <1>22 DEF PamAsks, Waits, Thread, TypeOK, OutTypes, LoopTypes,
     CheckTypes, PlugTypes, ThreadTypes, KilledOnlyAfterCancel, QuitHasCause,
     ThreadIsHeard, PromptHasTimer, QuitsAfterFailures, CheckCounts,
     ThreadHasCheck, InStep, InCheck, MutexFree, Answers, Styles
<1>23. ASSUME IInv, PamIsAnswered PROVE IInv'
  BY <1>23 DEF PamIsAnswered, PamGoesOn, Thread, TypeOK, OutTypes, LoopTypes,
     CheckTypes, PlugTypes, ThreadTypes, KilledOnlyAfterCancel, QuitHasCause,
     ThreadIsHeard, PromptHasTimer, QuitsAfterFailures, CheckCounts,
     ThreadHasCheck, InStep, InCheck, MutexFree, Answers, Styles
<1>24. ASSUME IInv, PamWakesUp PROVE IInv'
  BY <1>24 DEF PamWakesUp, PamGoesOn, Thread, TypeOK, OutTypes, LoopTypes,
     CheckTypes, PlugTypes, ThreadTypes, KilledOnlyAfterCancel, QuitHasCause,
     ThreadIsHeard, PromptHasTimer, QuitsAfterFailures, CheckCounts,
     ThreadHasCheck, InStep, InCheck, MutexFree, Answers, Styles
<1>25. ASSUME IInv, NEW result \in {"success", "failure"}, PamEnds(result)
       PROVE  IInv'
  BY <1>25 DEF PamEnds, Thread, TypeOK, OutTypes, LoopTypes, CheckTypes,
     PlugTypes, ThreadTypes, KilledOnlyAfterCancel, QuitHasCause,
     ThreadIsHeard, PromptHasTimer, QuitsAfterFailures, CheckCounts,
     ThreadHasCheck, InStep, InCheck, MutexFree, Answers, Styles
<1>26. ASSUME IInv, UNCHANGED vars PROVE IInv'
  BY <1>26 DEF vars, TypeOK, OutTypes, LoopTypes, CheckTypes, PlugTypes,
     ThreadTypes, KilledOnlyAfterCancel, QuitHasCause, ThreadIsHeard,
     PromptHasTimer, QuitsAfterFailures, CheckCounts, ThreadHasCheck, InStep,
     InCheck, MutexFree, Answers, Styles
<1> QED BY <1>1, <1>2, <1>3, <1>4, <1>5, <1>6, <1>7, <1>8, <1>9, <1>10, <1>11,
           <1>12, <1>13, <1>14, <1>15, <1>16, <1>17, <1>18, <1>19, <1>20,
           <1>21, <1>22, <1>23, <1>24, <1>25, <1>26
        DEF Next, MainThread, Escape, DeleteEvent, ResponseTimeout

\* The invariant holds in every state of the dialog.
THEOREM Invariance == Spec => []IInv
  BY InitIInv, NextIInv, PTL DEF Spec

\* Every variable always has its type; in particular no more than MaxFailures
\* failures are counted.
THEOREM TypeCorrect == Spec => []TypeOK
<1>1. IInv => TypeOK
  BY DEF IInv
<1> QED BY <1>1, Invariance, PTL

\* The process kills itself only after an answer CANCEL is out
\* (gs_auth_pam_verify_user).
THEOREM KilledLate == Spec => []KilledOnlyAfterCancel
<1>1. IInv => KilledOnlyAfterCancel
  BY DEF IInv
<1> QED BY <1>1, Invariance, PTL

\* PAM's thread never waits for a signal that has been given already
\* (gs_auth_run_message_handler).
THEOREM NoSignalMissed == Spec => []ThreadIsHeard
<1>1. IInv => ThreadIsHeard
  BY DEF IInv
<1> QED BY <1>1, Invariance, PTL

\* While the dialog prompts, a timer that ends the prompt runs
\* (dialog_timed_out, response_cancel_idle_cb).
THEOREM PromptTimed == Spec => []PromptHasTimer
<1>1. IInv => PromptHasTimer
  BY DEF IInv
<1> QED BY <1>1, Invariance, PTL

\* After the last failure no check is made, and the process is about to end
\* (auth_check_idle).
THEOREM QuitsInTheEnd == Spec => []QuitsAfterFailures
<1>1. IInv => QuitsAfterFailures
  BY DEF IInv
<1> QED BY <1>1, Invariance, PTL

\* As long as g_cond_wait returns for signals only, whoever is prompted is
\* waited for (pam_conversation).
THEOREM PromptAwaited == Spec => []PromptIsAwaited
<1>1. IInv => PromptIsAwaited
  <2>1. IInv => spurious = 0 \/ spurious > 0
    BY DEF IInv, TypeOK, ThreadTypes
  <2> QED BY <2>1 DEF IInv, InStep, PromptIsAwaited
<1> QED BY <1>1, Invariance, PTL
------------------------------------------------------------------------------
(* The dialog as the daemon reads it. *)

\* A step that neither answers nor ends the process nor changes PAM's verdict
\* is not seen.
LEMMA Unseen ==
    ASSUME UNCHANGED <<canLock, first, pam>>,
           alive' \in {"exited", "killed"} <=> alive \in {"exited", "killed"}
    PROVE  UNCHANGED Abstract!vars
  BY DEF Abstract!vars

\* The end of the process answers for it, if it has not answered itself.
LEMMA EndSeen ==
    ASSUME IInv, alive \in {"alive", "hung"}, alive' \in {"exited", "killed"},
           UNCHANGED <<canLock, first, pam>>
    PROVE  [Abstract!Next]_Abstract!vars
<1>1. CASE first = "none"
  BY <1>1 DEF Abstract!Next, Abstract!Answer
<1>2. CASE first # "none"
  BY <1>2 DEF Abstract!vars
<1> QED BY <1>1, <1>2

\* A line is seen if it is the first answer.
LEMMA LineSeen ==
    ASSUME IInv, NEW line \in Answers \union {"id", "failed", "quit"},
           Says(line),
           line = "ok" => pam = "success" \/ ~canLock,
           alive = "alive", alive' = "alive", UNCHANGED <<canLock, pam>>
    PROVE  [Abstract!Next]_Abstract!vars
<1>1. CASE first = "none" /\ line \in Answers
  BY <1>1 DEF Says, Answers, Abstract!Next, Abstract!Answer
<1>2. CASE ~(first = "none" /\ line \in Answers)
  BY <1>2 DEF Says, Abstract!vars
<1> QED BY <1>1, <1>2

\* Every step of the dialog is one of the abstract dialog, or none.
LEMMA NextImplements ==
    ASSUME IInv, [Next]_vars PROVE [Abstract!Next]_Abstract!vars
<1> USE DEF Runs, outVars, loopVars, checkVars, plugVars, threadVars
<1>1. ASSUME Starts PROVE [Abstract!Next]_Abstract!vars
  <2>1. CASE UNCHANGED outVars
    BY <1>1, <2>1, Unseen DEF Starts
  <2>2. CASE ~canLock /\ Says("ok") /\ alive' = "exited" /\ UNCHANGED canLock
    <3>1. CASE first = "none"
      BY <1>1, <2>2, <3>1 DEF Starts, Says, Answers,
         Abstract!Next, Abstract!Answer
    <3>2. CASE first # "none"
      BY <1>1, <2>2, <3>2 DEF Starts, Says, Abstract!vars
    <3> QED BY <3>1, <3>2
  <2>3. CASE alive' = "exited" /\ UNCHANGED <<canLock, first>>
    BY <1>1, <2>3, EndSeen DEF Starts
  <2> QED BY <1>1, <2>1, <2>2, <2>3 DEF Starts
<1>2. ASSUME CheckBegins PROVE [Abstract!Next]_Abstract!vars
  <2>1. CASE UNCHANGED outVars /\ thread' = "running" /\ pam' = "none"
    <3>1. pam # "success"
      BY <1>2 DEF CheckBegins, RunsIdle, IInv, CheckCounts, ThreadHasCheck,
         InCheck
    <3> QED BY <2>1, <3>1 DEF Abstract!vars
  <2>2. CASE CheckFailed /\ UNCHANGED <<canLock, alive, pam>>
    BY <1>2, <2>2, LineSeen DEF CheckBegins, CheckFailed, RunsIdle
  <2> QED BY <1>2, <2>1, <2>2 DEF CheckBegins
<1>3. ASSUME CheckEnds PROVE [Abstract!Next]_Abstract!vars
  <2>1. CASE alive' = "killed" /\ UNCHANGED <<canLock, first>>
    BY <1>3, <2>1, EndSeen DEF CheckEnds
  <2>2. CASE UNCHANGED <<canLock, first, alive>>
    BY <1>3, <2>2, Unseen DEF CheckEnds
  <2>3. CASE CheckFailed /\ UNCHANGED <<canLock, alive>>
    BY <1>3, <2>3, LineSeen DEF CheckEnds, CheckFailed
  <2> QED BY <1>3, <2>1, <2>2, <2>3 DEF CheckEnds
<1>4. ASSUME QuitResponseOk PROVE [Abstract!Next]_Abstract!vars
  <2>1. pam = "success"
    BY <1>4 DEF QuitResponseOk, RunsIdle, IInv, ThreadHasCheck
  <2> QED BY <1>4, <2>1, LineSeen DEF QuitResponseOk, RunsIdle, Answers
<1>5. ASSUME RequestQuit PROVE [Abstract!Next]_Abstract!vars
  BY <1>5, LineSeen DEF RequestQuit, RunsIdle
<1>6. ASSUME HandleMessage PROVE [Abstract!Next]_Abstract!vars
  BY <1>6, LineSeen DEF HandleMessage, Handles, RunsIdle
<1>7. ASSUME HandleStaleMessage PROVE [Abstract!Next]_Abstract!vars
  <2>1. CASE alive' = "exited" /\ UNCHANGED <<canLock, first>>
    BY <1>7, <2>1, EndSeen DEF HandleStaleMessage, RunsIdle
  <2>2. CASE Says("id") /\ UNCHANGED <<canLock, alive>>
    BY <1>7, <2>2, LineSeen DEF HandleStaleMessage, RunsIdle
  <2> QED BY <1>7, <2>1, <2>2 DEF HandleStaleMessage, Handles
<1>8. ASSUME Cancels, Runs PROVE [Abstract!Next]_Abstract!vars
  BY <1>8, LineSeen DEF Cancels, Answers
<1>9. ASSUME Exit \/ Terminated PROVE [Abstract!Next]_Abstract!vars
  BY <1>9, EndSeen DEF Exit, Terminated
<1>10. ASSUME HandlerWithinHandler PROVE [Abstract!Next]_Abstract!vars
  BY <1>10, Unseen DEF HandlerWithinHandler
<1>11. ASSUME NEW result \in {"success", "failure"}, PamEnds(result)
       PROVE  [Abstract!Next]_Abstract!vars
  <2>1. pam = "none"
    BY <1>11 DEF PamEnds, Thread, IInv, ThreadHasCheck
  <2>2. CASE result = "success"
    BY <1>11, <2>1, <2>2 DEF PamEnds, Thread, Abstract!Next,
       Abstract!Authenticate
  <2>3. CASE result = "failure"
    BY <1>11, <2>1, <2>3 DEF PamEnds, Thread, Abstract!vars
  <2> QED BY <2>2, <2>3
<1>12. ASSUME \/ PopupDialogIdle \/ ThreadHangsUp \/ QuitTimeout \/ HandlerEnds
              \/ Reply \/ Unmapped \/ DialogTimedOut \/ SwitchUser \/ KeyPress
              \/ ResetIdle \/ (\E style \in Styles : PamAsks(style))
              \/ PamIsAnswered \/ PamWakesUp \/ UNCHANGED vars
       PROVE  [Abstract!Next]_Abstract!vars
  <2>1. UNCHANGED <<canLock, first, alive, pam>>
    BY <1>12 DEF PopupDialogIdle, ThreadHangsUp, QuitTimeout, HandlerEnds,
       Reply, Unmapped, DialogTimedOut, SwitchUser, KeyPress, ResetIdle, PamAsks,
       PamIsAnswered, PamWakesUp, PamGoesOn, Thread, vars
  <2> QED BY <2>1, Unseen
<1> QED BY <1>1, <1>2, <1>3, <1>4, <1>5, <1>6, <1>7, <1>8, <1>9, <1>10, <1>11,
           <1>12
        DEF Next, MainThread, Escape, DeleteEvent, ResponseTimeout

\* Whatever the order of messages, timers and the thread, the first answer the
\* daemon reads is OK only if PAM has accepted the user in the last check, or
\* there is no lock to open.
THEOREM Implementation == Spec => ImplementsDialog
<1>1. Init => Abstract!Init
  BY DEF Init, Abstract!Init
<1>2. IInv /\ [Next]_vars => [Abstract!Next]_Abstract!vars
  BY NextImplements
<1> QED BY <1>1, <1>2, Invariance, PTL DEF Spec, ImplementsDialog, Abstract!Spec
==============================================================================
