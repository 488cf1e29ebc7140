------------------------------- MODULE Camera -------------------------------
(***************************************************************************)
(* The player around its playbacks: the Play, Stop and Quit buttons        *)
(* (PlaystreamActivity.java), the JNI layer with its global variables      *)
(* (my_streamplayer_Rtsplayer.cpp), the camera objects, and the one        *)
(* decoder all playbacks of camera 1 share (ipcam_vdec.cpp).               *)
(*                                                                         *)
(* The k-th click on Play creates bitmap k and camera k.  Nothing is ever  *)
(* freed: a click replaces MyIPCAM1, and the playback thread of the camera *)
(* before it goes on until its own watch variable is set.  The user        *)
(* interface thread and the playback threads share every JNI global and    *)
(* the decoder without a lock, so CreateRec and the decoder calls are      *)
(* modelled one shared access at a time.                                   *)
(*                                                                         *)
(* A playback is what StreamLifecycle says of it: it runs until asked to   *)
(* stop, and leaves only between two handlers; PlaySession has its inside. *)
(***************************************************************************)
EXTENDS Integers, FiniteSets

CONSTANTS
  MaxPlays,   \* bound: how often Play is clicked
  MaxHasty,   \* the same bound once a click did not wait for a playback's end
  Sizes,      \* picture sizes the user may type
  MaxMsgs,    \* bound: so many "disp1" messages in the Handler's queue, or more
  Faults      \* platform calls that may fail

ASSUME BoundsAssumption ==
  MaxPlays \in Nat \ {0} /\ MaxHasty \in 0..MaxPlays /\ MaxMsgs \in Nat \ {0}
ASSUME SizesAssumption == Sizes \subseteq Nat \ {0} /\ Sizes # {}
ASSUME FaultsAssumption == Faults \subseteq {"getInfo", "lockPixels", "pthread"}

Cams == 1..MaxPlays

VARIABLES
  ui,         \* where the user interface thread is
  plays,      \* number of Play clicks; mBitmap1 is bitmap number plays
  size,       \* size[k]: width and height typed for click k, 0 before
  info,       \* AndroidBitmapInfo info, as the size it describes
  pixel,      \* pixel1: whose bitmap's pixels it points at, 0 for NULL
  MyIPCAM,    \* MyIPCAM1: the number of the camera, 0 for NULL
  errorCam,   \* errorCam1
  mpgParm,    \* the size setparam() stored in the decoder
  pContext,   \* the decoder's context: its size (0: none), and opened
  watch,      \* watch[k]: watchVariable of camera k's rtsp_play
  thread,     \* thread[k]: the playback thread of camera k
  phase,      \* phase[k]: which part of the stream thread k is in
  at,         \* at[k]: where thread k is: the event loop or the decoder
  twice,      \* cameras on which a second thread was started
  msgs,       \* "disp1" messages in the Handler's queue
  patient,    \* history: Play was clicked only when no playback ran
  failed      \* history: <<call, k>>: this call of CreateRec failed in click k

jniVars == <<info, pixel, MyIPCAM, errorCam>>
decoderVars == <<mpgParm, pContext>>
threadVars == <<watch, thread, phase, at, twice>>
vars == <<ui, plays, size, jniVars, decoderVars, threadVars, msgs, patient, failed>>

ClickSteps == {"getInfo", "lockPixels", "newCamera", "setparam",
               "playConnect", "startRec"}

TypeOK ==
  /\ ui \in ClickSteps \cup {"idle", "finished", "dead"}
  /\ plays \in 0..MaxPlays
  /\ size \in [Cams -> Sizes \cup {0}]
  /\ info \in Sizes \cup {0}
  /\ pixel \in 0..MaxPlays
  /\ MyIPCAM \in 0..MaxPlays
  /\ errorCam \in {0, 1}
  /\ mpgParm \in Sizes \cup {0}
  /\ pContext \in [size : Sizes \cup {0}, opened : BOOLEAN]
  /\ watch \in [Cams -> BOOLEAN]
  /\ thread \in [Cams -> {"none", "running", "ended"}]
  /\ phase \in [Cams -> {"describe", "stream", "over"}]
  /\ at \in [Cams -> {"loop", "step", "init", "decode", "display"}]
  /\ twice \in SUBSET Cams
  /\ msgs \in 0..MaxMsgs
  /\ patient \in BOOLEAN
  /\ failed \subseteq {"getInfo", "lockPixels"} \X Cams

Init ==
  /\ ui = "idle"
  /\ plays = 0
  /\ size = [k \in Cams |-> 0]
  /\ info = 0
  /\ pixel = 0
  /\ MyIPCAM = 0
  /\ errorCam = 0
  /\ mpgParm = 0
  /\ pContext = [size |-> 0, opened |-> FALSE]
  /\ watch = [k \in Cams |-> FALSE]
  /\ thread = [k \in Cams |-> "none"]
  /\ phase = [k \in Cams |-> "describe"]
  /\ at = [k \in Cams |-> "loop"]
  /\ twice = {}
  /\ msgs = 0
  /\ patient = TRUE
  /\ failed = {}

-----------------------------------------------------------------------------
(* The Play button *)

(* onClick: read the size, create the bitmap, call CreateRec(1).           *)
PlayClick ==
  /\ ui = "idle"
  /\ patient' = (patient /\ \A k \in Cams : thread[k] # "running")
  /\ plays < IF patient' THEN MaxPlays ELSE MaxHasty
  /\ plays' = plays + 1
  /\ \E s \in Sizes : size' = [size EXCEPT ![plays + 1] = s]
  /\ ui' = "getInfo"
  /\ UNCHANGED <<jniVars, decoderVars, threadVars, msgs, failed>>

(* On failure CreateRec returns at once, and onClick calls StartRec all    *)
(* the same.                                                               *)
GetInfo ==
  /\ ui = "getInfo"
  /\ \/ ui' = "lockPixels" /\ info' = size[plays] /\ UNCHANGED failed
     \/ /\ "getInfo" \in Faults
        /\ ui' = "startRec"
        /\ failed' = failed \cup {<<"getInfo", plays>>}
        /\ UNCHANGED info
  /\ UNCHANGED <<plays, size, pixel, MyIPCAM, errorCam, decoderVars, threadVars, msgs, patient>>

(* Mutant: pixel1 is locked only once.                                     *)
LockPixelsOnce ==
  /\ ui = "lockPixels"
  /\ ui' = "newCamera"
  /\ pixel' = IF pixel = 0 THEN plays ELSE pixel
  /\ UNCHANGED <<plays, size, info, MyIPCAM, errorCam, decoderVars, threadVars, msgs, patient, failed>>

(* A failure is only logged.                                               *)
LockPixels ==
  /\ ui = "lockPixels"
  /\ ui' = "newCamera"
  /\ \/ pixel' = plays /\ UNCHANGED failed
     \/ /\ "lockPixels" \in Faults
        /\ failed' = failed \cup {<<"lockPixels", plays>>}
        /\ UNCHANGED pixel
  /\ UNCHANGED <<plays, size, info, MyIPCAM, errorCam, decoderVars, threadVars, msgs, patient>>

(* Mutant: the camera is made only once.                                   *)
NewCameraOnce ==
  /\ ui = "newCamera"
  /\ ui' = "setparam"
  /\ MyIPCAM' = IF MyIPCAM = 0 THEN plays ELSE MyIPCAM
  /\ UNCHANGED <<plays, size, info, pixel, errorCam, decoderVars, threadVars, msgs, patient, failed>>

(* new ipcam_camera, init(), set_recFile(): a controller with its own      *)
(* rtsp_play and event loop.                                               *)
NewCamera ==
  /\ ui = "newCamera"
  /\ ui' = "setparam"
  /\ MyIPCAM' = plays
  /\ UNCHANGED <<plays, size, info, pixel, errorCam, decoderVars, threadVars, msgs, patient, failed>>

(* Mutant: the parameters are set only when the decoder is made.           *)
SetParamOnce ==
  /\ ui = "setparam"
  /\ ui' = "playConnect"
  /\ mpgParm' = IF mpgParm = 0 THEN size[plays] ELSE mpgParm
  /\ UNCHANGED <<plays, size, jniVars, pContext, threadVars, msgs, patient, failed>>

(* getInstance(1) returns the decoder of every earlier click.              *)
SetParam ==
  /\ ui = "setparam"
  /\ ui' = "playConnect"
  /\ mpgParm' = size[plays]
  /\ UNCHANGED <<plays, size, jniVars, pContext, threadVars, msgs, patient, failed>>

(* play_connect() clears the watch variable and makes the RTSP client;     *)
(* operator new does not return NULL, so it reports success.               *)
PlayConnect ==
  /\ ui = "playConnect"
  /\ ui' = "startRec"
  /\ errorCam' = 1
  /\ watch' = [watch EXCEPT ![MyIPCAM] = FALSE]
  /\ UNCHANGED <<plays, size, info, pixel, MyIPCAM, decoderVars, thread, phase, at, twice, msgs, patient, failed>>

(* StartMedia() starts camera k's playback thread; that pthread_create     *)
(* failed is ignored.                                                      *)
StartMedia(k) ==
  \/ /\ thread[k] # "running"
     /\ thread' = [thread EXCEPT ![k] = "running"]
     /\ phase' = [phase EXCEPT ![k] = "describe"]
     /\ UNCHANGED twice
  \/ /\ thread[k] = "running"          \* a second thread on one event loop
     /\ twice' = twice \cup {k}
     /\ UNCHANGED <<thread, phase>>
  \/ "pthread" \in Faults /\ UNCHANGED <<thread, phase, twice>>

(* StartRec(1): start_playback() on MyIPCAM1 if the last play_connect()    *)
(* succeeded.                                                              *)
StartRec ==
  /\ ui = "startRec"
  /\ ui' = "idle"
  /\ \/ errorCam = 1 /\ StartMedia(MyIPCAM)
     \/ errorCam # 1 /\ UNCHANGED <<thread, phase, twice>>
  /\ UNCHANGED <<plays, size, jniVars, decoderVars, watch, at, msgs, patient, failed>>

-----------------------------------------------------------------------------
(* The Stop and Quit buttons, and the Handler *)

(* CloseMedia() sets the watch variable of camera k's playback.            *)
CloseMedia(k) == watch' = [watch EXCEPT ![k] = TRUE]

(* StopRec(1) dereferences MyIPCAM1, which is NULL before the first Play.  *)
StopRec(next) ==
  /\ ui = "idle"
  /\ IF MyIPCAM = 0
       THEN ui' = "dead" /\ UNCHANGED watch
       ELSE ui' = next /\ CloseMedia(MyIPCAM)
  /\ UNCHANGED <<plays, size, jniVars, decoderVars, thread, phase, at, twice, msgs, patient, failed>>

StopClick == StopRec("idle")

QuitClick == StopRec("finished")

(* Mutant: two messages are taken for one picture.                         *)
ShowBitmapTwice ==
  /\ ui \in {"idle", "finished"}
  /\ msgs > 0
  /\ msgs' = msgs - 2
  /\ UNCHANGED <<ui, plays, size, jniVars, decoderVars, threadVars, patient, failed>>

(* handleMessage: showbitmap1() hands mBitmap1 to the view.                *)
ShowBitmap ==
  /\ ui \in {"idle", "finished"}
  /\ msgs > 0
  /\ msgs' = msgs - 1 \/ (msgs = MaxMsgs /\ msgs' = msgs)
  /\ UNCHANGED <<ui, plays, size, jniVars, decoderVars, threadVars, patient, failed>>

-----------------------------------------------------------------------------
(* The playback thread of camera k *)

Running(k) == ui # "dead" /\ thread[k] = "running"

Goto(k, from, to) ==
  /\ Running(k)
  /\ at[k] = from
  /\ at' = [at EXCEPT ![k] = to]

(* Mutant: the playback counts as ended while the decoder still works.     *)
LeaveLoopAnywhere(k) ==
  /\ Running(k)
  /\ watch[k]
  /\ thread' = [thread EXCEPT ![k] = "ended"]
  /\ phase' = [phase EXCEPT ![k] = "over"]
  /\ UNCHANGED <<ui, plays, size, jniVars, decoderVars, watch, at, twice, msgs, patient, failed>>

(* Mutant: the event loop runs without the watch variable.                 *)
EnterStepUnwatched(k) ==
  /\ Goto(k, "loop", "step")
  /\ UNCHANGED <<ui, plays, size, jniVars, decoderVars, watch, thread, phase, twice, msgs, patient, failed>>

(* Mutant: a frame is decoded before DESCRIBE is answered.                 *)
DecVideoEarly(k) ==
  /\ Goto(k, "step", "decode")
  /\ UNCHANGED <<ui, plays, size, jniVars, decoderVars, watch, thread, phase, twice, msgs, patient, failed>>

(* doEventLoop looks at the watch variable between two steps: StartPlay    *)
(* ends ...                                                                *)
LeaveLoop(k) ==
  /\ Running(k)
  /\ at[k] = "loop"
  /\ watch[k]
  /\ thread' = [thread EXCEPT ![k] = "ended"]
  /\ phase' = [phase EXCEPT ![k] = "over"]
  /\ UNCHANGED <<ui, plays, size, jniVars, decoderVars, watch, at, twice, msgs, patient, failed>>

(* ... or goes through one more SingleStep.                                *)
EnterStep(k) ==
  /\ Goto(k, "loop", "step")
  /\ ~watch[k]
  /\ UNCHANGED <<ui, plays, size, jniVars, decoderVars, watch, thread, phase, twice, msgs, patient, failed>>

(* Nothing for the decoder in this step.                                   *)
IdleStep(k) ==
  /\ Goto(k, "step", "loop")
  /\ UNCHANGED <<ui, plays, size, jniVars, decoderVars, watch, thread, phase, twice, msgs, patient, failed>>

(* DESCRIBE answered: InitMPEG4Dec() replaces the context of the shared    *)
(* decoder; the frame, the picture buffer and the old context are lost ... *)
InitMPEG4Dec(k) ==
  /\ Goto(k, "step", "init")
  /\ phase[k] = "describe"
  /\ pContext' = [size |-> mpgParm, opened |-> FALSE]
  /\ UNCHANGED <<ui, plays, size, jniVars, mpgParm, watch, thread, phase, twice, msgs, patient, failed>>

(* ... and avcodec_open() makes the context usable.                        *)
AvcodecOpen(k) ==
  /\ Goto(k, "init", "loop")
  /\ phase' = [phase EXCEPT ![k] = "stream"]
  /\ pContext' = [pContext EXCEPT !.opened = TRUE]
  /\ UNCHANGED <<ui, plays, size, jniVars, mpgParm, watch, thread, twice, msgs, patient, failed>>

(* DESCRIBE fails, or the server ends the stream: playshutdownStream(),    *)
(* and the loop goes on.                                                   *)
StreamEnds(k) ==
  /\ Goto(k, "step", "loop")
  /\ phase[k] \in {"describe", "stream"}
  /\ phase' = [phase EXCEPT ![k] = "over"]
  /\ UNCHANGED <<ui, plays, size, jniVars, decoderVars, watch, thread, twice, msgs, patient, failed>>

(* A frame arrives: DecVideo() decodes it with the shared context ...      *)
DecVideo(k) ==
  /\ Goto(k, "step", "decode")
  /\ phase[k] = "stream"
  /\ UNCHANGED <<ui, plays, size, jniVars, decoderVars, watch, thread, phase, twice, msgs, patient, failed>>

(* ... which yields a picture or not ...                                   *)
GotPicture(k) ==
  /\ Goto(k, "decode", "display") \/ Goto(k, "decode", "loop")
  /\ UNCHANGED <<ui, plays, size, jniVars, decoderVars, watch, thread, phase, twice, msgs, patient, failed>>

(* ... and DisplayCb_1() draws the picture into pixel1 with the geometry   *)
(* of info, and posts "disp1" to the user interface.                       *)
DisplayCb(k) ==
  /\ Goto(k, "display", "loop")
  /\ msgs' = IF msgs < MaxMsgs THEN msgs + 1 ELSE msgs
  /\ UNCHANGED <<ui, plays, size, jniVars, decoderVars, watch, thread, phase, twice, patient, failed>>

Click ==
  \/ GetInfo \/ LockPixels \/ NewCamera \/ SetParam \/ PlayConnect \/ StartRec

Loop(k) == LeaveLoop(k) \/ EnterStep(k) \/ IdleStep(k)

Stream(k) == InitMPEG4Dec(k) \/ AvcodecOpen(k) \/ StreamEnds(k)

Decode(k) == DecVideo(k) \/ GotPicture(k) \/ DisplayCb(k)

Thread(k) == Loop(k) \/ Stream(k) \/ Decode(k)

Next ==
  \/ PlayClick \/ Click \/ StopClick \/ QuitClick \/ ShowBitmap
  \/ \E k \in Cams : Thread(k)

Spec == Init /\ [][Next]_vars

(* Android schedules every thread; a click handler that has begun runs to  *)
(* its end and the Handler empties its queue.  No click is assumed.        *)
FairSpec ==
  /\ Spec
  /\ WF_vars(Click)
  /\ WF_vars(ShowBitmap)
  /\ \A k \in Cams : WF_vars(Thread(k))

-----------------------------------------------------------------------------
(* Correctness *)

InDecoder(k) == at[k] \in {"init", "decode", "display"}

(* No two threads are inside the decoder at once.  Nothing in the code     *)
(* locks it: this is what a user who let every playback end before the     *)
(* next click on Play gets from the watch variable and CreateRec's order.  *)
DecoderExclusive ==
  patient => \A j, k \in Cams : InDecoder(j) /\ InDecoder(k) => j = k

(* The user interface does not change what a picture is drawn with while   *)
(* it is drawn: DisplayCb_1 finds the geometry of its own camera's bitmap, *)
(* whatever call failed, and its pixels unless locking just these failed.  *)
DisplayConsistent ==
  patient =>
    \A k \in Cams :
      at[k] = "display" => /\ info = size[k]
                           /\ pixel = k \/ <<"lockPixels", k>> \in failed

(* A frame is decoded with an opened context of the size its own camera    *)
(* asked for, not one another click left behind.                           *)
DecoderReady ==
  patient =>
    \A k \in Cams :
      InDecoder(k) => /\ pContext.size = size[k]
                      /\ at[k] # "init" => pContext.opened

(* However impatient the user, a frame is never decoded without a context  *)
(* and never drawn through a NULL pixel1, unless its own lockPixels failed *)
(* and no other ever worked.                                               *)
NothingIsNull ==
  \A k \in Cams :
    at[k] \in {"decode", "display"} =>
      /\ pContext.size # 0
      /\ pixel # 0 \/ <<"lockPixels", k>> \in failed

(* However impatient the user, StartRec finds the camera its own CreateRec *)
(* made, so that no event loop is run by two threads - except for that     *)
(* camera on which a later click falls back because getInfo failed.        *)
OneThreadPerLoop ==
  \A k \in twice : \E j \in Cams : j > k /\ <<"getInfo", j>> \in failed

(* Stop reaches the camera of the latest click: its playback ends, and so  *)
(* does every playback that was ever stopped.                              *)
StopEndsPlayback ==
  \A k \in Cams : watch[k] ~> (thread[k] # "running" \/ ui = "dead")
=============================================================================
