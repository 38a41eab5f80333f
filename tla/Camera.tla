------------------------------- MODULE Camera -------------------------------
(***************************************************************************)
(* What runs beside the RTSP server: main (src/main.c), which brings up    *)
(* the video pipeline (start_sdk of src/hidemo.c) and then serves whether  *)
(* it came up or not; the capture thread VENC_GetVencStreamProc, which     *)
(* moves encoded frames into the ring; and the night thread of             *)
(* src/night.c, which reads the pin of the light sensor, pulses the two    *)
(* pins of the infrared filter and sets the encoder's grey mode.  Its      *)
(* calls of src/gpio.c are those of Gpio, access by access: none of them   *)
(* reaches a register, so neither the light nor the filter is in the model. *)
(*                                                                         *)
(* start_sdk takes channel 0 alone, so VencS is the state of that channel. *)
(* Its critical sections are single steps.  The encoder is the outside     *)
(* world.  The program ends at a null pointer.                             *)
(***************************************************************************)
EXTENDS Gpio

CONSTANTS Mp4Enable,        \* app_config.mp4_enable
          NightModeEnable,  \* app_config.night_mode_enable
          Wirings           \* the pins that app_config may name

ASSUME CameraAssumption ==
    /\ Mp4Enable \in BOOLEAN
    /\ NightModeEnable \in BOOLEAN
    /\ Wirings \subseteq [ir_sensor_pin : Numbers, ir_cut_pin1 : Numbers, ir_cut_pin2 : Numbers]

VARIABLES
    mpc,                    \* main: the part of start_sdk it is at, or "serve"
    VencS,                  \* channel 0: "free", "taken" (enable), "created"
    bColor2Grey,            \* the grey mode of the encoder channel
    cpc,                    \* capture thread
    packs,                  \* arrays of packs allocated and not freed
    stream,                 \* "none", "held" from the encoder, "kept" for ever
    npc,                    \* night thread: next step of set_night_mode, or "sense"
    night_mode,
    app_config,             \* its three pins
    refused,                \* ghost: the encoder refused the latest SetColor2Grey
    changes                 \* ghost: how often night_mode has changed

channel == <<VencS, bColor2Grey, refused>>
capture == <<cpc, packs, stream>>
mode == <<night_mode, changes>>
night == <<npc, mode, gpioVars>>
vars == <<mpc, channel, capture, night, app_config>>

Init == /\ mpc = "config"
        /\ VencS = "free" /\ bColor2Grey = FALSE /\ refused = FALSE
        /\ cpc = "none" /\ packs = 0 /\ stream = "none"
        /\ npc = "none" /\ night_mode = FALSE /\ changes = 0
        /\ GpioInit
        /\ app_config \in Wirings

-----------------------------------------------------------------------------
(* main and start_sdk *)

\* A part of start_sdk ends well, or one of its calls fails and start_sdk
\* returns at once, with nothing undone; main goes on to serve.
Part(this, next) == mpc = this /\ mpc' \in {next, "listen"}

\* parse_app_config: main ends when it fails.
LoadConfig == /\ mpc = "config"
              /\ mpc' \in {"system", "exit"}
              /\ UNCHANGED <<channel, capture, night>>

\* the sensor's library, the video buffers and the MPP system
StartSystem == Part("system", "isp") /\ UNCHANGED <<channel, capture, night>>

\* The image signal processor, and the thread that runs it.  Nobody looks at
\* whether the sensor's library was loaded, and the program ends at the call
\* of its null function when it was not.
StartIsp == /\ Part("isp", "vi") \/ (mpc = "isp" /\ mpc' = "exit")
            /\ UNCHANGED <<channel, capture, night>>

\* the video input device and its channel
StartVi == Part("vi", "vpss") /\ UNCHANGED <<channel, capture, night>>

\* the video processing group, bound to the input
StartVpss == /\ Part("vpss", IF Mp4Enable THEN "take" ELSE "thread")
             /\ UNCHANGED <<channel, capture, night>>

\* take_next_free_channel; nothing gives the channel back when a call after
\* it fails
TakeChannel == /\ mpc = "take"
               /\ VencS' = "taken"
               /\ mpc' = "create"
               /\ UNCHANGED <<bColor2Grey, refused, capture, night>>

\* create_venc_chn and HI_MPI_VENC_CreateChn
CreateChannel == /\ Part("create", "receive")
                 /\ VencS' = IF mpc' = "receive" THEN "created" ELSE VencS
                 /\ UNCHANGED <<bColor2Grey, refused, capture, night>>

\* HI_MPI_VENC_StartRecvPic
StartRecvPic == Part("receive", "thread") /\ UNCHANGED <<channel, capture, night>>

\* pthread_create of the capture thread
StartCapture == /\ mpc = "thread"
                /\ mpc' = "listen"
                /\ cpc' \in {"setup", "none"}
                /\ UNCHANGED <<channel, packs, stream, night>>

\* tcp_listen, ScheduleInit, RTP_port_pool_init and start_monitor_light_sensor,
\* whose results nobody looks at; then EventLoop for ever
Serve == /\ mpc = "listen"
         /\ mpc' = "serve"
         /\ npc' \in IF NightModeEnable THEN {"begin", "none"} ELSE {"none"}
         /\ UNCHANGED <<channel, capture, mode, gpioVars>>

Main == \/ LoadConfig \/ StartSystem \/ StartIsp \/ StartVi \/ StartVpss
        \/ TakeChannel \/ CreateChannel \/ StartRecvPic \/ StartCapture \/ Serve

-----------------------------------------------------------------------------
(* VENC_GetVencStreamProc *)

\* HI_MPI_VENC_GetChnAttr and HI_MPI_VENC_GetFd; the thread ends when one fails
CaptureSetup == /\ cpc = "setup"
                /\ cpc' \in IF VencS = "free" THEN {"select"} ELSE {"select", "ended"}
                /\ UNCHANGED <<mpc, channel, packs, stream, night>>

\* select: an error ends the thread, a timeout does not; a channel is ready
\* once it makes frames
Select == /\ cpc = "select"
          /\ cpc' \in {"select", "ended"} \cup (IF VencS = "created" THEN {"query"} ELSE {})
          /\ UNCHANGED <<mpc, channel, packs, stream, night>>

\* HI_MPI_VENC_Query and malloc: no frame, or a failure, goes back to select
Query == /\ cpc = "query"
         /\ \/ cpc' = "get" /\ packs' = packs + 1
            \/ cpc' = "select" /\ UNCHANGED packs
         /\ UNCHANGED <<mpc, channel, stream, night>>

\* Faulty variant of GetStream: its failure does not free the packs.
GetStream_NoFree ==
    /\ cpc = "get"
    /\ \/ cpc' = "save" /\ stream' = "held"
       \/ cpc' = "select" /\ UNCHANGED stream
    /\ UNCHANGED <<mpc, channel, packs, night>>

\* HI_MPI_VENC_GetStream
GetStream == /\ cpc = "get"
             /\ \/ cpc' = "save" /\ stream' = "held" /\ UNCHANGED packs
                \/ cpc' = "select" /\ packs' = packs - 1 /\ UNCHANGED stream
             /\ UNCHANGED <<mpc, channel, night>>

\* VENC_SaveStream: HisiPutH264DataToBuffer, which cannot fail for H.264
SaveStream == /\ cpc = "save"
              /\ cpc' = "release"
              /\ UNCHANGED <<mpc, channel, packs, stream, night>>

\* HI_MPI_VENC_ReleaseStream; when it fails the stream is not tried again
ReleaseStream == /\ cpc = "release"
                 /\ stream' \in {"none", "kept"}
                 /\ packs' = packs - 1
                 /\ cpc' = "select"
                 /\ UNCHANGED <<mpc, channel, night>>

Capture == CaptureSetup \/ Select \/ Query \/ GetStream \/ SaveStream \/ ReleaseStream

-----------------------------------------------------------------------------
(* The night thread: set_night_mode is a sequence of steps named in npc *)

\* set_color2gray: HI_MPI_VENC_SetColor2Grey on every enabled channel, under
\* the mutex.  It may fail, as it does for a channel that was not created, and
\* nobody looks.
set_color2gray(grey) ==
    \/ VencS = "free" /\ UNCHANGED <<bColor2Grey, refused>>
    \/ VencS = "created" /\ bColor2Grey' = grey /\ refused' = FALSE
    \/ VencS # "free" /\ refused' = TRUE /\ UNCHANGED bColor2Grey

NightStep(this, next) == npc = this /\ npc' = next

\* the thread starts with set_night_mode(night_mode)
NightBegin == /\ NightStep("begin", "pin1")
              /\ UNCHANGED <<mpc, channel, capture, mode, gpioVars>>

Set(pin, on) == [op |-> "set", n |-> pin, bit |-> on]
Get(pin) == [op |-> "get", n |-> pin, bit |-> FALSE]

\* ircut_off (night) and ircut_on (day) set one pin and clear the other, wait,
\* and clear both; night_thread_func reads the sensor.
CallAt(step) ==
    CASE step = "pin1" -> Set(app_config.ir_cut_pin1, night_mode)
      [] step = "pin2" -> Set(app_config.ir_cut_pin2, ~night_mode)
      [] step = "rest1" -> Set(app_config.ir_cut_pin1, FALSE)
      [] step = "rest2" -> Set(app_config.ir_cut_pin2, FALSE)
      [] step = "sense" -> Get(app_config.ir_sensor_pin)

AfterCall == [pin1 |-> "pin2", pin2 |-> "delay", rest1 |-> "rest2", rest2 |-> "grey1"]

\* The sensor was read and shows another mode than the current one.
SetMode == /\ night_mode' = (result' = "high")
           /\ night_mode' # night_mode
           /\ changes' = changes + 1
           /\ npc' = "pin1"

KeepMode == (result' = "high") = night_mode /\ UNCHANGED <<npc, mode>>

\* Faulty variant of Sensed: a failed reading counts as a low pin.
Sensed_Unasked == SetMode \/ KeepMode
\* The reading of the sensor has returned; when it failed the mode stays.
Sensed == \/ result' # "failed" /\ (SetMode \/ KeepMode)
          \/ result' = "failed" /\ UNCHANGED <<npc, mode>>

\* Faulty variant of PinSet: a pin that could not be set is tried again.
PinSet_Retries == npc' = (IF result' = "done" THEN AfterCall[npc] ELSE npc) /\ UNCHANGED mode
\* set_pin_linux has returned; nobody looks at its result.
PinSet == npc' = AfterCall[npc] /\ UNCHANGED mode

\* A step of the call; it is the last when gpio.c is idle after it.
WithinCall == /\ \/ pc' # "idle" /\ UNCHANGED <<npc, mode>>
                 \/ pc' = "idle" /\ npc = "sense" /\ Sensed
                 \/ pc' = "idle" /\ npc # "sense" /\ PinSet
              /\ UNCHANGED <<mpc, channel, capture>>

NightCall == /\ npc \in {"pin1", "pin2", "rest1", "rest2", "sense"}
             /\ Begin(CallAt(npc))
             /\ WithinCall

NightAccess == (Access \/ AccessFails) /\ WithinCall

\* usleep
Delay == /\ NightStep("delay", "rest1")
         /\ UNCHANGED <<mpc, channel, capture, mode, gpioVars>>

\* ircut_off ends with the grey mode off and ircut_on with it on ...
IrcutGrey == /\ NightStep("grey1", "grey2")
             /\ set_color2gray(~night_mode)
             /\ UNCHANGED <<mpc, VencS, capture, mode, gpioVars>>

\* Faulty variant of ModeGrey: the grey mode is left to ircut_on and ircut_off.
ModeGrey_LeftToIrcut == /\ NightStep("grey2", "sense")
                        /\ UNCHANGED <<mpc, channel, capture, mode, gpioVars>>
\* ... which set_night_mode then corrects.
ModeGrey == /\ NightStep("grey2", "sense")
            /\ set_color2gray(night_mode)
            /\ UNCHANGED <<mpc, VencS, capture, mode, gpioVars>>

NightThread == NightBegin \/ NightCall \/ NightAccess \/ Delay \/ IrcutGrey \/ ModeGrey

-----------------------------------------------------------------------------
Alive == pc # "crashed"

Next == /\ Alive
        /\ Main \/ Capture \/ NightThread
        /\ UNCHANGED app_config

\* The night thread is scheduled; any of its accesses may fail.
Spec == Init /\ [][Next]_vars /\ WF_vars(Alive /\ NightThread /\ UNCHANGED app_config)

-----------------------------------------------------------------------------
TypeOK == /\ mpc \in {"config", "system", "isp", "vi", "vpss", "take", "create",
                      "receive", "thread", "listen", "serve", "exit"}
          /\ VencS \in {"free", "taken", "created"}
          /\ bColor2Grey \in BOOLEAN
          /\ cpc \in {"none", "setup", "select", "query", "get", "save", "release", "ended"}
          /\ packs \in 0 .. 1
          /\ stream \in {"none", "held", "kept"}
          /\ npc \in {"none", "begin", "pin1", "pin2", "delay", "rest1", "rest2",
                      "grey1", "grey2", "sense"}
          /\ pc \notin {"idle", "crashed"} => npc \in {"pin1", "pin2", "rest1", "rest2", "sense"}
                                             /\ call = CallAt(npc)
          /\ GpioTypeOK
          /\ bColor2Grey \in BOOLEAN /\ refused \in BOOLEAN
          /\ night_mode \in BOOLEAN /\ changes \in Nat
          /\ app_config \in Wirings

\* Between two mode changes the picture is grey exactly at night, unless the
\* encoder refused the last call of set_color2gray: whatever pins failed, and
\* although ircut_off and ircut_on each end with the wrong grey mode and the
\* encoder may have refused that call too (night.c:24-52, hidemo.c:115-130).
GreyUnlessRefused ==
    npc = "sense" /\ VencS # "free" /\ ~refused => bColor2Grey = night_mode

\* The mode is not the light's: over memory that keeps what is written it is
\* never night, since each reading of the sensor reads back the zero that
\* get_pin has written just before; over memory that does not, it is night only
\* when the sensor's bit of the fixed byte is 1 (gpio.c:57-102, 146-174).
NightShowsTheByte ==
    night_mode => \/ memory = "changing"
                  \/ memory = "fixed" /\ Pin(app_config.ir_sensor_pin)[2] \in byte

\* A change of the mode takes a reading whose four accesses all came through,
\* and their mappings are never undone: so the mode changes a bounded number
\* of times in the life of the program, whatever is read and whatever pins
\* fail in between (gpio.c:38-55, night.c:60-73).
ChangesCostMappings == 4 * changes <= mapped

\* Whatever call fails, the capture thread goes back to select with nothing:
\* the packs are freed, and a stream it got from the encoder was given back,
\* unless giving it back is what failed.
CaptureCleansUp == cpc \in {"select", "ended"} => packs = 0 /\ stream # "held"

\* A change of the mode that has begun comes to its end, the grey mode, also
\* when accesses fail or none can be mapped any more (night.c:24-52), but for
\* a filter pin that the table does not have.
ChangeCompletes == npc \notin {"none", "sense"} ~> npc = "sense" \/ ~Alive
=============================================================================
