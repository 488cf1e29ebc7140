---------------------------- MODULE CameraProofs ----------------------------
(***************************************************************************)
(* Proofs about Camera, for any number of clicks on Play, any picture      *)
(* sizes and any choice of the calls that may fail.                        *)
(*                                                                         *)
(* What a thread finds in the globals was put there by a click, perhaps    *)
(* long before: the invariant follows the settings of a click through the  *)
(* steps of CreateRec (ClickOK, SettingsOK) to the thread it starts        *)
(* (ThreadsOK, NotNullOK), and says what waiting before a click adds       *)
(* (PatientOK).                                                            *)
(***************************************************************************)
EXTENDS Camera, TLAPS

USE BoundsAssumption, SizesAssumption

(* A click has a camera of its own once CreateRec made it; StartRec runs   *)
(* without one only after AndroidBitmap_getInfo() failed.                  *)
ClickOK ==
  /\ MyIPCAM <= plays
  /\ ui \in ClickSteps => plays # 0
  /\ ui \in {"getInfo", "lockPixels", "newCamera"} => MyIPCAM < plays
  /\ ui \in {"setparam", "playConnect"} => MyIPCAM = plays
  /\ ui = "startRec" => MyIPCAM = plays \/ <<"getInfo", plays>> \in failed
  /\ errorCam = 1 => MyIPCAM # 0
  /\ \A k \in Cams : k <= plays => size[k] \in Sizes

(* A thread runs on a camera that was made, and only the running threads   *)
(* are anywhere but in the event loop.                                     *)
ThreadsOK ==
  \A k \in Cams :
    /\ thread[k] # "none" => k <= MyIPCAM
    /\ thread[k] # "none" /\ ui \in ClickSteps => k < plays
    /\ at[k] # "loop" => thread[k] = "running"
    /\ at[k] = "init" => phase[k] = "describe"
    /\ at[k] \in {"decode", "display"} => phase[k] = "stream"
    /\ phase[k] = "stream" => thread[k] = "running"

(* The globals hold the settings of the current camera, but for the steps  *)
(* of CreateRec that replace them.                                         *)
SettingsOK ==
  /\ MyIPCAM # 0 /\ ui # "setparam" => mpgParm = size[MyIPCAM]
  /\ MyIPCAM # 0 /\ ui \notin {"lockPixels", "newCamera"} => info = size[MyIPCAM]
  /\ MyIPCAM # 0 /\ ui # "newCamera" =>
       pixel = MyIPCAM \/ <<"lockPixels", MyIPCAM>> \in failed
  /\ ui \in {"lockPixels", "newCamera"} => info = size[plays]
  /\ ui = "newCamera" => pixel = plays \/ <<"lockPixels", plays>> \in failed

(* What a thread was started with is never NULL again.                     *)
NotNullOK ==
  \A k \in Cams :
    /\ thread[k] # "none" =>
         mpgParm # 0 /\ (pixel # 0 \/ <<"lockPixels", k>> \in failed)
    /\ phase[k] = "stream" \/ at[k] = "init" => pContext.size # 0

(* With a user who waits, only the thread of the current camera runs, and  *)
(* the decoder is set up for it.                                           *)
PatientOK ==
  patient =>
    \A k \in Cams :
      /\ thread[k] = "running" => k = MyIPCAM /\ ui \notin ClickSteps
      /\ phase[k] = "stream" => pContext.size = size[k] /\ pContext.opened
      /\ at[k] = "init" => pContext.size = size[k]

IInv ==
  /\ TypeOK
  /\ ClickOK /\ ThreadsOK /\ SettingsOK /\ NotNullOK /\ PatientOK
  /\ OneThreadPerLoop

-----------------------------------------------------------------------------
(* A thread that goes somewhere is somewhere.                              *)
LEMMA GotoType ==
  ASSUME TypeOK, NEW k, NEW from, NEW to \in {"loop", "step", "init", "decode", "display"},
         Goto(k, from, to)
  PROVE  at' \in [Cams -> {"loop", "step", "init", "decode", "display"}]
BY DEF Goto, TypeOK

LEMMA TypeStep == TypeOK /\ ClickOK /\ [Next]_vars => TypeOK'
<1> SUFFICES ASSUME TypeOK, ClickOK, [Next]_vars PROVE TypeOK'
  OBVIOUS
<1> USE DEF TypeOK, Cams, ClickSteps
<1>1. CASE PlayClick
  BY <1>1 DEF PlayClick, jniVars, decoderVars, threadVars
<1>2. CASE GetInfo
  BY <1>2 DEF GetInfo, ClickOK, decoderVars, threadVars
<1>3. CASE LockPixels
  BY <1>3 DEF LockPixels, ClickOK, decoderVars, threadVars
<1>4. CASE NewCamera
  BY <1>4 DEF NewCamera, decoderVars, threadVars
<1>5. CASE SetParam
  BY <1>5 DEF SetParam, ClickOK, jniVars, threadVars
<1>6. CASE PlayConnect
  BY <1>6 DEF PlayConnect, decoderVars
<1>7. CASE StartRec
  <2>1. errorCam = 1 => MyIPCAM \in Cams
    BY DEF ClickOK
  <2> QED
    BY <1>7, <2>1 DEF StartRec, StartMedia, jniVars, decoderVars
<1>8. CASE StopClick \/ QuitClick
  BY <1>8 DEF StopClick, QuitClick, StopRec, CloseMedia, jniVars, decoderVars
<1>9. CASE ShowBitmap
  BY <1>9 DEF ShowBitmap, jniVars, decoderVars, threadVars
<1>10. ASSUME NEW k \in Cams, Loop(k) PROVE TypeOK'
  <2>1. CASE LeaveLoop(k)
    BY <2>1 DEF LeaveLoop, jniVars, decoderVars
  <2>2. CASE EnterStep(k) \/ IdleStep(k)
    <3>1. at' \in [Cams -> {"loop", "step", "init", "decode", "display"}]
      BY <2>2, GotoType DEF EnterStep, IdleStep
    <3>2. UNCHANGED <<ui, plays, size, info, pixel, MyIPCAM, errorCam, mpgParm,
                      pContext, watch, thread, phase, twice, msgs, patient, failed>>
      BY <2>2 DEF EnterStep, IdleStep, jniVars, decoderVars
    <3> QED
      BY <3>1, <3>2
  <2> QED
    BY <1>10, <2>1, <2>2 DEF Loop
<1>11. ASSUME NEW k \in Cams, Stream(k) PROVE TypeOK'
  <2>1. CASE InitMPEG4Dec(k)
    BY <2>1 DEF InitMPEG4Dec, Goto, jniVars
  <2>2. CASE AvcodecOpen(k)
    BY <2>2 DEF AvcodecOpen, Goto, jniVars
  <2>3. CASE StreamEnds(k)
    BY <2>3 DEF StreamEnds, Goto, jniVars, decoderVars
  <2> QED
    BY <1>11, <2>1, <2>2, <2>3 DEF Stream
<1>12. ASSUME NEW k \in Cams, Decode(k) PROVE TypeOK'
  <2>1. CASE DecVideo(k)
    BY <2>1 DEF DecVideo, Goto, jniVars, decoderVars
  <2>2. CASE GotPicture(k)
    <3>1. at' \in [Cams -> {"loop", "step", "init", "decode", "display"}]
      BY <2>2, GotoType DEF GotPicture
    <3> QED
      BY <2>2, <3>1 DEF GotPicture, jniVars, decoderVars
  <2>3. CASE DisplayCb(k)
    BY <2>3 DEF DisplayCb, Goto, jniVars, decoderVars
  <2> QED
    BY <1>12, <2>1, <2>2, <2>3 DEF Decode
<1>13. CASE UNCHANGED vars
  BY <1>13 DEF vars, jniVars, decoderVars, threadVars
<1> QED
  BY <1>1, <1>2, <1>3, <1>4, <1>5, <1>6, <1>7, <1>8, <1>9, <1>10, <1>11, <1>12, <1>13
     DEF Next, Click, Thread

LEMMA InvStep == IInv /\ TypeOK' /\ [Next]_vars => IInv'
<1> SUFFICES ASSUME IInv, TypeOK', [Next]_vars PROVE IInv'
  OBVIOUS
<1> USE DEF IInv, TypeOK, Cams, ClickSteps
<1>1. CASE PlayClick
  <2>1. ClickOK'
    BY <1>1 DEF PlayClick, jniVars, decoderVars, threadVars, ClickOK
  <2>2. ThreadsOK'
    BY <1>1 DEF PlayClick, jniVars, decoderVars, threadVars, ThreadsOK, ClickOK
  <2>3. SettingsOK'
    BY <1>1 DEF PlayClick, jniVars, decoderVars, threadVars, SettingsOK, ClickOK
  <2>4. NotNullOK'
    BY <1>1 DEF PlayClick, jniVars, decoderVars, threadVars, NotNullOK
  <2>5. PatientOK'
    BY <1>1 DEF PlayClick, jniVars, decoderVars, threadVars, PatientOK, ThreadsOK
  <2>6. OneThreadPerLoop'
    BY <1>1 DEF PlayClick, jniVars, decoderVars, threadVars, OneThreadPerLoop
  <2> QED
    BY <2>1, <2>2, <2>3, <2>4, <2>5, <2>6
<1>2. CASE GetInfo
  <2>1. ClickOK'
    BY <1>2 DEF GetInfo, decoderVars, threadVars, ClickOK
  <2>2. ThreadsOK'
    BY <1>2 DEF GetInfo, decoderVars, threadVars, ThreadsOK
  <2>3. SettingsOK'
    BY <1>2 DEF GetInfo, decoderVars, threadVars, SettingsOK
  <2>4. NotNullOK'
    BY <1>2 DEF GetInfo, decoderVars, threadVars, NotNullOK
  <2>5. PatientOK'
    BY <1>2 DEF GetInfo, decoderVars, threadVars, PatientOK
  <2>6. OneThreadPerLoop'
    BY <1>2 DEF GetInfo, decoderVars, threadVars, OneThreadPerLoop
  <2> QED
    BY <2>1, <2>2, <2>3, <2>4, <2>5, <2>6
<1>3. CASE LockPixels
  <2>1. ClickOK'
    BY <1>3 DEF LockPixels, decoderVars, threadVars, ClickOK
  <2>2. ThreadsOK'
    BY <1>3 DEF LockPixels, decoderVars, threadVars, ThreadsOK
  <2>3. SettingsOK'
    BY <1>3 DEF LockPixels, decoderVars, threadVars, SettingsOK
  <2>4. NotNullOK'
    <3>1. UNCHANGED <<thread, phase, at, mpgParm, pContext>>
      BY <1>3 DEF LockPixels, decoderVars, threadVars
    <3>2. failed \subseteq failed' /\ (pixel' # 0 \/ pixel' = pixel)
      BY <1>3 DEF LockPixels, ClickOK
    <3> QED
      BY <3>1, <3>2 DEF NotNullOK
  <2>5. PatientOK'
    BY <1>3 DEF LockPixels, decoderVars, threadVars, PatientOK
  <2>6. OneThreadPerLoop'
    BY <1>3 DEF LockPixels, decoderVars, threadVars, OneThreadPerLoop
  <2> QED
    BY <2>1, <2>2, <2>3, <2>4, <2>5, <2>6
<1>4. CASE NewCamera
  <2>1. ClickOK'
    BY <1>4 DEF NewCamera, decoderVars, threadVars, ClickOK
  <2>2. ThreadsOK'
    BY <1>4 DEF NewCamera, decoderVars, threadVars, ThreadsOK
  <2>3. SettingsOK'
    BY <1>4 DEF NewCamera, decoderVars, threadVars, SettingsOK
  <2>4. NotNullOK'
    BY <1>4 DEF NewCamera, decoderVars, threadVars, NotNullOK
  <2>5. PatientOK'
    BY <1>4 DEF NewCamera, decoderVars, threadVars, PatientOK
  <2>6. OneThreadPerLoop'
    BY <1>4 DEF NewCamera, decoderVars, threadVars, OneThreadPerLoop
  <2> QED
    BY <2>1, <2>2, <2>3, <2>4, <2>5, <2>6
<1>5. CASE SetParam
  <2>1. ClickOK'
    BY <1>5 DEF SetParam, jniVars, threadVars, ClickOK
  <2>2. ThreadsOK'
    BY <1>5 DEF SetParam, jniVars, threadVars, ThreadsOK
  <2>3. SettingsOK'
    BY <1>5 DEF SetParam, jniVars, threadVars, SettingsOK, ClickOK
  <2>4. NotNullOK'
    <3>1. plays \in Cams /\ size[plays] \in Sizes
      BY <1>5 DEF SetParam, ClickOK
    <3> QED
      BY <1>5, <3>1 DEF SetParam, jniVars, threadVars, NotNullOK
  <2>5. PatientOK'
    BY <1>5 DEF SetParam, jniVars, threadVars, PatientOK
  <2>6. OneThreadPerLoop'
    BY <1>5 DEF SetParam, jniVars, threadVars, OneThreadPerLoop
  <2> QED
    BY <2>1, <2>2, <2>3, <2>4, <2>5, <2>6
<1>6. CASE PlayConnect
  <2>1. ClickOK'
    BY <1>6 DEF PlayConnect, decoderVars, ClickOK
  <2>2. ThreadsOK'
    BY <1>6 DEF PlayConnect, decoderVars, ThreadsOK
  <2>3. SettingsOK'
    BY <1>6 DEF PlayConnect, decoderVars, SettingsOK
  <2>4. NotNullOK'
    BY <1>6 DEF PlayConnect, decoderVars, NotNullOK
  <2>5. PatientOK'
    BY <1>6 DEF PlayConnect, decoderVars, PatientOK
  <2>6. OneThreadPerLoop'
    BY <1>6 DEF PlayConnect, decoderVars, OneThreadPerLoop
  <2> QED
    BY <2>1, <2>2, <2>3, <2>4, <2>5, <2>6
<1>7. CASE StartRec
  <2>1. ClickOK'
    BY <1>7 DEF StartRec, StartMedia, jniVars, decoderVars, ClickOK
  <2>2. ThreadsOK'
    BY <1>7 DEF StartRec, StartMedia, jniVars, decoderVars, ThreadsOK
  <2>3. SettingsOK'
    BY <1>7 DEF StartRec, StartMedia, jniVars, decoderVars, SettingsOK
  <2>4. NotNullOK'
    <3>1. errorCam = 1 => MyIPCAM \in Cams /\ size[MyIPCAM] \in Sizes
      BY DEF ClickOK
    <3>2. errorCam = 1 =>
            mpgParm # 0 /\ (pixel # 0 \/ <<"lockPixels", MyIPCAM>> \in failed)
      BY <1>7, <3>1 DEF StartRec, StartMedia, SettingsOK
    <3> QED
      <4>1. \A k \in Cams : /\ phase'[k] = "stream" => phase[k] = "stream"
                            /\ thread'[k] # "none" =>
                                 thread[k] # "none" \/ (errorCam = 1 /\ k = MyIPCAM)
        BY <1>7, <3>1 DEF StartRec, StartMedia
      <4>2. UNCHANGED <<mpgParm, pContext, pixel, failed, at>>
        BY <1>7 DEF StartRec, StartMedia, jniVars, decoderVars
      <4> QED
        BY <3>2, <4>1, <4>2 DEF NotNullOK
  <2>5. PatientOK'
    BY <1>7 DEF StartRec, StartMedia, jniVars, decoderVars, PatientOK
  <2>6. OneThreadPerLoop'
    <3>1. CASE twice' = twice
      BY <1>7, <3>1 DEF StartRec, StartMedia, OneThreadPerLoop
    <3>2. CASE errorCam = 1 /\ thread[MyIPCAM] = "running"
      <4>1. MyIPCAM \in Cams /\ plays \in Cams /\ MyIPCAM < plays
        BY <1>7, <3>2 DEF StartRec, StartMedia, ClickOK, ThreadsOK
      <4>2. <<"getInfo", plays>> \in failed
        BY <1>7, <4>1 DEF StartRec, StartMedia, ClickOK
      <4> QED
        <5>1. failed' = failed /\ twice' \subseteq twice \cup {MyIPCAM}
          BY <1>7, <3>2 DEF StartRec, StartMedia
        <5>2. \A k \in twice : \E j \in Cams : j > k /\ <<"getInfo", j>> \in failed'
          BY <5>1 DEF OneThreadPerLoop
        <5>3. plays > MyIPCAM /\ <<"getInfo", plays>> \in failed'
          BY <4>1, <4>2, <5>1
        <5>4. ASSUME NEW k \in twice'
              PROVE  \E j \in Cams : j > k /\ <<"getInfo", j>> \in failed'
          <6>1. CASE k \in twice
            BY <5>2, <6>1
          <6>2. CASE k = MyIPCAM
            BY <4>1, <5>3, <6>2
          <6> QED
            BY <5>1, <6>1, <6>2
        <5> QED
          BY <5>4 DEF OneThreadPerLoop
    <3> QED
      BY <1>7, <3>1, <3>2 DEF StartRec, StartMedia
  <2> QED
    BY <2>1, <2>2, <2>3, <2>4, <2>5, <2>6
<1>8. CASE StopClick \/ QuitClick
  <2>1. ClickOK'
    BY <1>8 DEF StopClick, QuitClick, StopRec, CloseMedia, jniVars, decoderVars, ClickOK
  <2>2. ThreadsOK'
    BY <1>8 DEF StopClick, QuitClick, StopRec, CloseMedia, jniVars, decoderVars, ThreadsOK
  <2>3. SettingsOK'
    BY <1>8 DEF StopClick, QuitClick, StopRec, CloseMedia, jniVars, decoderVars, SettingsOK
  <2>4. NotNullOK'
    BY <1>8 DEF StopClick, QuitClick, StopRec, CloseMedia, jniVars, decoderVars, NotNullOK
  <2>5. PatientOK'
    BY <1>8 DEF StopClick, QuitClick, StopRec, CloseMedia, jniVars, decoderVars, PatientOK
  <2>6. OneThreadPerLoop'
    BY <1>8 DEF StopClick, QuitClick, StopRec, CloseMedia, jniVars, decoderVars, OneThreadPerLoop
  <2> QED
    BY <2>1, <2>2, <2>3, <2>4, <2>5, <2>6
<1>9. CASE ShowBitmap
  <2>1. ClickOK'
    BY <1>9 DEF ShowBitmap, jniVars, decoderVars, threadVars, ClickOK
  <2>2. ThreadsOK'
    BY <1>9 DEF ShowBitmap, jniVars, decoderVars, threadVars, ThreadsOK
  <2>3. SettingsOK'
    BY <1>9 DEF ShowBitmap, jniVars, decoderVars, threadVars, SettingsOK
  <2>4. NotNullOK'
    BY <1>9 DEF ShowBitmap, jniVars, decoderVars, threadVars, NotNullOK
  <2>5. PatientOK'
    BY <1>9 DEF ShowBitmap, jniVars, decoderVars, threadVars, PatientOK
  <2>6. OneThreadPerLoop'
    BY <1>9 DEF ShowBitmap, jniVars, decoderVars, threadVars, OneThreadPerLoop
  <2> QED
    BY <2>1, <2>2, <2>3, <2>4, <2>5, <2>6
<1>10. ASSUME NEW k \in Cams, Loop(k) PROVE IInv'
  <2>1. CASE LeaveLoop(k)
    <3>1. ClickOK'
      BY <2>1 DEF LeaveLoop, Running, jniVars, decoderVars, ClickOK
    <3>2. ThreadsOK'
      BY <2>1 DEF LeaveLoop, Running, jniVars, decoderVars, ThreadsOK
    <3>3. SettingsOK'
      BY <2>1 DEF LeaveLoop, Running, jniVars, decoderVars, SettingsOK
    <3>4. NotNullOK'
      <4>1. \A j \in Cams : /\ thread'[j] # "none" => thread[j] # "none"
                            /\ phase'[j] = "stream" => phase[j] = "stream"
        BY <2>1 DEF LeaveLoop, Running, TypeOK
      <4>2. UNCHANGED <<at, mpgParm, pixel, failed, pContext>>
        BY <2>1 DEF LeaveLoop, jniVars, decoderVars
      <4> QED
        BY <4>1, <4>2 DEF NotNullOK
    <3>5. PatientOK'
      BY <2>1 DEF LeaveLoop, Running, jniVars, decoderVars, PatientOK
    <3>6. OneThreadPerLoop'
      BY <2>1 DEF LeaveLoop, Running, jniVars, decoderVars, OneThreadPerLoop
    <3> QED
      BY <3>1, <3>2, <3>3, <3>4, <3>5, <3>6
  <2>2. CASE EnterStep(k)
    <3>1. ClickOK'
      BY <2>2 DEF EnterStep, Goto, Running, jniVars, decoderVars, ClickOK
    <3>2. ThreadsOK'
      BY <2>2 DEF EnterStep, Goto, Running, jniVars, decoderVars, ThreadsOK
    <3>3. SettingsOK'
      BY <2>2 DEF EnterStep, Goto, Running, jniVars, decoderVars, SettingsOK
    <3>4. NotNullOK'
      <4>1. \A j \in Cams : at'[j] = "init" => at[j] = "init"
        BY <2>2 DEF EnterStep, Goto, TypeOK
      <4>2. UNCHANGED <<thread, phase, mpgParm, pixel, failed, pContext>>
        BY <2>2 DEF EnterStep, jniVars, decoderVars
      <4> QED
        BY <4>1, <4>2 DEF NotNullOK
    <3>5. PatientOK'
      BY <2>2 DEF EnterStep, Goto, Running, jniVars, decoderVars, PatientOK
    <3>6. OneThreadPerLoop'
      BY <2>2 DEF EnterStep, Goto, Running, jniVars, decoderVars, OneThreadPerLoop
    <3> QED
      BY <3>1, <3>2, <3>3, <3>4, <3>5, <3>6
  <2>3. CASE IdleStep(k)
    <3>1. ClickOK'
      BY <2>3 DEF IdleStep, Goto, Running, jniVars, decoderVars, ClickOK
    <3>2. ThreadsOK'
      BY <2>3 DEF IdleStep, Goto, Running, jniVars, decoderVars, ThreadsOK
    <3>3. SettingsOK'
      BY <2>3 DEF IdleStep, Goto, Running, jniVars, decoderVars, SettingsOK
    <3>4. NotNullOK'
      <4>1. \A j \in Cams : at'[j] = "init" => at[j] = "init"
        BY <2>3 DEF IdleStep, Goto, TypeOK
      <4>2. UNCHANGED <<thread, phase, mpgParm, pixel, failed, pContext>>
        BY <2>3 DEF IdleStep, jniVars, decoderVars
      <4> QED
        BY <4>1, <4>2 DEF NotNullOK
    <3>5. PatientOK'
      BY <2>3 DEF IdleStep, Goto, Running, jniVars, decoderVars, PatientOK
    <3>6. OneThreadPerLoop'
      BY <2>3 DEF IdleStep, Goto, Running, jniVars, decoderVars, OneThreadPerLoop
    <3> QED
      BY <3>1, <3>2, <3>3, <3>4, <3>5, <3>6
  <2> QED
    BY <1>10, <2>1, <2>2, <2>3 DEF Loop
<1>11. ASSUME NEW k \in Cams, Stream(k) PROVE IInv'
  <2>1. CASE InitMPEG4Dec(k)
    <3>1. ClickOK'
      BY <2>1 DEF InitMPEG4Dec, Goto, Running, jniVars, ClickOK
    <3>2. ThreadsOK'
      BY <2>1 DEF InitMPEG4Dec, Goto, Running, jniVars, ThreadsOK
    <3>3. SettingsOK'
      BY <2>1 DEF InitMPEG4Dec, Goto, Running, jniVars, SettingsOK
    <3>4. NotNullOK'
      BY <2>1 DEF InitMPEG4Dec, Goto, Running, jniVars, NotNullOK
    <3>5. PatientOK'
      BY <2>1 DEF InitMPEG4Dec, Goto, Running, jniVars, PatientOK, ThreadsOK, SettingsOK
    <3>6. OneThreadPerLoop'
      BY <2>1 DEF InitMPEG4Dec, Goto, Running, jniVars, OneThreadPerLoop
    <3> QED
      BY <3>1, <3>2, <3>3, <3>4, <3>5, <3>6
  <2>2. CASE AvcodecOpen(k)
    <3>1. ClickOK'
      BY <2>2 DEF AvcodecOpen, Goto, Running, jniVars, ClickOK
    <3>2. ThreadsOK'
      BY <2>2 DEF AvcodecOpen, Goto, Running, jniVars, ThreadsOK
    <3>3. SettingsOK'
      BY <2>2 DEF AvcodecOpen, Goto, Running, jniVars, SettingsOK
    <3>4. NotNullOK'
      BY <2>2 DEF AvcodecOpen, Goto, Running, jniVars, NotNullOK
    <3>5. PatientOK'
      BY <2>2 DEF AvcodecOpen, Goto, Running, jniVars, PatientOK
    <3>6. OneThreadPerLoop'
      BY <2>2 DEF AvcodecOpen, Goto, Running, jniVars, OneThreadPerLoop
    <3> QED
      BY <3>1, <3>2, <3>3, <3>4, <3>5, <3>6
  <2>3. CASE StreamEnds(k)
    <3>1. ClickOK'
      BY <2>3 DEF StreamEnds, Goto, Running, jniVars, decoderVars, ClickOK
    <3>2. ThreadsOK'
      BY <2>3 DEF StreamEnds, Goto, Running, jniVars, decoderVars, ThreadsOK
    <3>3. SettingsOK'
      BY <2>3 DEF StreamEnds, Goto, Running, jniVars, decoderVars, SettingsOK
    <3>4. NotNullOK'
      <4>1. \A j \in Cams : /\ phase'[j] = "stream" => phase[j] = "stream"
                            /\ at'[j] = "init" => at[j] = "init"
        BY <2>3 DEF StreamEnds, Goto
      <4> QED
        BY <2>3, <4>1 DEF StreamEnds, jniVars, decoderVars, NotNullOK
    <3>5. PatientOK'
      BY <2>3 DEF StreamEnds, Goto, Running, jniVars, decoderVars, PatientOK
    <3>6. OneThreadPerLoop'
      BY <2>3 DEF StreamEnds, Goto, Running, jniVars, decoderVars, OneThreadPerLoop
    <3> QED
      BY <3>1, <3>2, <3>3, <3>4, <3>5, <3>6
  <2> QED
    BY <1>11, <2>1, <2>2, <2>3 DEF Stream
<1>12. ASSUME NEW k \in Cams, Decode(k) PROVE IInv'
  <2>1. CASE DecVideo(k)
    <3>1. ClickOK'
      BY <2>1 DEF DecVideo, Goto, Running, jniVars, decoderVars, ClickOK
    <3>2. ThreadsOK'
      BY <2>1 DEF DecVideo, Goto, Running, jniVars, decoderVars, ThreadsOK
    <3>3. SettingsOK'
      BY <2>1 DEF DecVideo, Goto, Running, jniVars, decoderVars, SettingsOK
    <3>4. NotNullOK'
      <4>1. \A j \in Cams : at'[j] = "init" => at[j] = "init"
        BY <2>1 DEF DecVideo, Goto, TypeOK
      <4>2. UNCHANGED <<thread, phase, mpgParm, pixel, failed, pContext>>
        BY <2>1 DEF DecVideo, jniVars, decoderVars
      <4> QED
        BY <4>1, <4>2 DEF NotNullOK
    <3>5. PatientOK'
      BY <2>1 DEF DecVideo, Goto, Running, jniVars, decoderVars, PatientOK
    <3>6. OneThreadPerLoop'
      BY <2>1 DEF DecVideo, Goto, Running, jniVars, decoderVars, OneThreadPerLoop
    <3> QED
      BY <3>1, <3>2, <3>3, <3>4, <3>5, <3>6
  <2>2. CASE GotPicture(k)
    <3>1. ClickOK'
      BY <2>2 DEF GotPicture, Goto, Running, jniVars, decoderVars, ClickOK
    <3>2. ThreadsOK'
      BY <2>2 DEF GotPicture, Goto, Running, jniVars, decoderVars, ThreadsOK
    <3>3. SettingsOK'
      BY <2>2 DEF GotPicture, Goto, Running, jniVars, decoderVars, SettingsOK
    <3>4. NotNullOK'
      <4>1. \A j \in Cams : at'[j] = "init" => at[j] = "init"
        BY <2>2 DEF GotPicture, Goto, TypeOK
      <4>2. UNCHANGED <<thread, phase, mpgParm, pixel, failed, pContext>>
        BY <2>2 DEF GotPicture, jniVars, decoderVars
      <4> QED
        BY <4>1, <4>2 DEF NotNullOK
    <3>5. PatientOK'
      BY <2>2 DEF GotPicture, Goto, Running, jniVars, decoderVars, PatientOK
    <3>6. OneThreadPerLoop'
      BY <2>2 DEF GotPicture, Goto, Running, jniVars, decoderVars, OneThreadPerLoop
    <3> QED
      BY <3>1, <3>2, <3>3, <3>4, <3>5, <3>6
  <2>3. CASE DisplayCb(k)
    <3>1. ClickOK'
      BY <2>3 DEF DisplayCb, Goto, Running, jniVars, decoderVars, ClickOK
    <3>2. ThreadsOK'
      BY <2>3 DEF DisplayCb, Goto, Running, jniVars, decoderVars, ThreadsOK
    <3>3. SettingsOK'
      BY <2>3 DEF DisplayCb, Goto, Running, jniVars, decoderVars, SettingsOK
    <3>4. NotNullOK'
      <4>1. \A j \in Cams : at'[j] = "init" => at[j] = "init"
        BY <2>3 DEF DisplayCb, Goto, TypeOK
      <4>2. UNCHANGED <<thread, phase, mpgParm, pixel, failed, pContext>>
        BY <2>3 DEF DisplayCb, jniVars, decoderVars
      <4> QED
        BY <4>1, <4>2 DEF NotNullOK
    <3>5. PatientOK'
      BY <2>3 DEF DisplayCb, Goto, Running, jniVars, decoderVars, PatientOK
    <3>6. OneThreadPerLoop'
      BY <2>3 DEF DisplayCb, Goto, Running, jniVars, decoderVars, OneThreadPerLoop
    <3> QED
      BY <3>1, <3>2, <3>3, <3>4, <3>5, <3>6
  <2> QED
    BY <1>12, <2>1, <2>2, <2>3 DEF Decode
<1>13. CASE UNCHANGED vars
  BY <1>13 DEF vars, jniVars, decoderVars, threadVars, ClickOK, ThreadsOK,
     SettingsOK, NotNullOK, PatientOK, OneThreadPerLoop
<1> QED
  BY <1>1, <1>2, <1>3, <1>4, <1>5, <1>6, <1>7, <1>8, <1>9, <1>10, <1>11, <1>12, <1>13
     DEF Next, Click, Thread

LEMMA InitInv == Init => IInv
  BY DEF Init, IInv, TypeOK, Cams, ClickSteps, ClickOK, ThreadsOK, SettingsOK,
     NotNullOK, PatientOK, OneThreadPerLoop

LEMMA Invariant == Spec => []IInv
<1>1. IInv /\ [Next]_vars => IInv'
  BY TypeStep, InvStep DEF IInv
<1> QED
  BY InitInv, <1>1, PTL DEF Spec

-----------------------------------------------------------------------------
(* Every variable of the player keeps its type: no click or thread indexes *)
(* a camera that was not made.                                             *)
THEOREM TypeCorrect == Spec => []TypeOK
<1>1. IInv => TypeOK
  BY DEF IInv
<1> QED
  BY Invariant, <1>1, PTL

(* Playbacks of a user who waits never meet in the decoder.                *)
THEOREM Exclusive == Spec => []DecoderExclusive
<1>1. IInv => DecoderExclusive
  BY DEF IInv, DecoderExclusive, InDecoder, ThreadsOK, PatientOK, TypeOK
<1> QED
  BY Invariant, <1>1, PTL

(* What DisplayCb_1 draws with is what its own click left, as long as the  *)
(* user waits.                                                             *)
THEOREM Consistent == Spec => []DisplayConsistent
<1>1. IInv => DisplayConsistent
  <2> SUFFICES ASSUME IInv, patient, NEW k \in Cams, at[k] = "display"
               PROVE  info = size[k] /\ (pixel = k \/ <<"lockPixels", k>> \in failed)
    BY DEF DisplayConsistent
  <2>1. k = MyIPCAM /\ MyIPCAM # 0 /\ ui \notin ClickSteps
    BY DEF IInv, ThreadsOK, PatientOK, Cams
  <2> QED
    BY <2>1 DEF IInv, SettingsOK, ClickSteps
<1> QED
  BY Invariant, <1>1, PTL

(* The decoder is set up for the playback that uses it, as long as the     *)
(* user waits.                                                             *)
THEOREM Ready == Spec => []DecoderReady
<1>1. IInv => DecoderReady
  BY DEF IInv, DecoderReady, InDecoder, ThreadsOK, PatientOK, TypeOK
<1> QED
  BY Invariant, <1>1, PTL

(* However impatient the user, no thread decodes or draws through NULL.    *)
THEOREM NeverNull == Spec => []NothingIsNull
<1>1. IInv => NothingIsNull
  BY DEF IInv, NothingIsNull, ThreadsOK, NotNullOK
<1> QED
  BY Invariant, <1>1, PTL

(* However impatient the user, an event loop has one thread unless a click *)
(* fell back on its camera.                                                *)
THEOREM OneThread == Spec => []OneThreadPerLoop
<1>1. IInv => OneThreadPerLoop
  BY DEF IInv
<1> QED
  BY Invariant, <1>1, PTL
=============================================================================
