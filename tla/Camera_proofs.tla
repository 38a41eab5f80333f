---------------------------- MODULE Camera_proofs ----------------------------
(***************************************************************************)
(* Proofs about Camera, for any wiring, any table of pins and any number   *)
(* of mappings: the capture thread cleans up, the grey mode agrees with    *)
(* the mode, what the mode shows, and how often it can change.             *)
(***************************************************************************)
EXTENDS Camera, TLAPS

-----------------------------------------------------------------------------
(* The accesses of gpio.c *)

InCall == pc \in {"mux", "get_dir", "set_dir", "data"}

\* A call names what is done, on which pin, and to which bit.
LEMMA CallsKnown ==
    ASSUME NEW c \in Calls
    PROVE  c.op \in {"get", "set"} /\ c.n \in Numbers /\ c.bit \in BOOLEAN
  BY DEF Calls

\* A call that goes on to the accesses names a pin of the table.
LEMMA KnownPin ==
    ASSUME NEW c \in Calls, ~(SetRefused(c) \/ GetUnknown(c) \/ SetNull(c))
    PROVE  Pin(c.n) \in Table
  BY CallsKnown DEF SetRefused, GetUnknown, SetNull

\* The number of a pin of the table is that of a bit, and its function a byte.
LEMMA PinBit ==
    ASSUME NEW n, Pin(n) \in Table
    PROVE  Pin(n)[2] \in 0 .. BITS - 1 /\ e[Pin(n)] \in Bytes
<1>1. Pin(n) \in Nat \X (0 .. BITS - 1)
  BY GpioAssumption
<1>2. QED
  BY <1>1, GpioAssumption

LEMMA SetBitType ==
    ASSUME NEW b \in Bytes, NEW pin \in 0 .. BITS - 1, NEW bit
    PROVE  set_bit(b, pin, bit) \in Bytes
  BY DEF set_bit, Bytes

\* What Write leaves in memory.
LEMMA WriteType ==
    ASSUME NEW v \in Bytes, byte \in Bytes, Write(v)
    PROVE  /\ byte' \in Bytes /\ memory' = memory
           /\ memory = "kept" => byte' = v
           /\ memory # "kept" => byte' = byte
  BY DEF Write

\* One more mapping, and no more than a process may have.
LEMMA MapType ==
    ASSUME mapped \in 0 .. MaxMappings, Map
    PROVE  mapped' \in 0 .. MaxMappings /\ mapped' = mapped + 1
  BY GpioAssumption DEF Map

\* A step of gpio.c.
GpioStep == (\E c \in Calls : Begin(c)) \/ Access \/ AccessFails

LEMMA InitGpioTypeOK == GpioInit => GpioTypeOK
  BY GpioAssumption DEF GpioInit, GpioTypeOK, Bytes

LEMMA NextGpioTypeOK ==
    ASSUME GpioTypeOK, GpioStep \/ UNCHANGED gpioVars
    PROVE  GpioTypeOK'
<1> USE DEF GpioTypeOK
<1>0. {} \in Bytes
  BY DEF Bytes
<1>1. ASSUME NEW c \in Calls, Begin(c)
      PROVE  GpioTypeOK'
  <2>1. CASE BeginRefused(c)
    BY <1>0, <2>1 DEF BeginRefused, Return
  <2>2. CASE BeginNull(c)
    BY <1>1, <2>2 DEF BeginNull
  <2>3. CASE BeginKnown(c)
    BY <1>1, <2>3, KnownPin DEF BeginKnown
  <2>4. QED
    BY <1>1, <2>1, <2>2, <2>3 DEF Begin
<1>2. CASE AccessFails
  BY <1>0, <1>2 DEF AccessFails, Return
<1>3. CASE WriteMux
  <2>1. byte' \in Bytes /\ memory' = memory
    BY <1>3, PinBit, WriteType DEF WriteMux
  <2>2. QED
    BY <1>3, <2>1, MapType DEF WriteMux
<1>4. CASE ReadDir
  <2>1. port_direction' \in Bytes
    BY <1>4 DEF ReadDir, Readable
  <2>2. QED
    BY <1>4, <2>1, MapType DEF ReadDir
<1>5. CASE WriteDir
  <2>1. set_bit(port_direction, Pin(call.n)[2], call.op = "set") \in Bytes
    BY <1>5, PinBit, SetBitType DEF WriteDir
  <2>2. byte' \in Bytes /\ memory' = memory
    BY <1>5, <2>1, WriteType DEF WriteDir
  <2>3. QED
    BY <1>0, <1>5, <2>2, MapType DEF WriteDir
<1>6. CASE WriteData
  <2>1. AllOnes \in Bytes
    BY DEF AllOnes, Bytes
  <2>2. byte' \in Bytes /\ memory' = memory
    BY <1>0, <1>6, <2>1, WriteType DEF WriteData
  <2>3. QED
    BY <1>0, <1>6, <2>2, MapType DEF WriteData, Return
<1>7. CASE ReadData
  <2>1. pc' = "idle" /\ result' \in {"low", "high"} /\ port_direction' = {}
    BY <1>7 DEF ReadData, Return
  <2>2. QED
    BY <1>0, <1>7, <2>1, MapType DEF ReadData
<1>8. CASE UNCHANGED gpioVars
  BY <1>8 DEF gpioVars
<1>9. QED
  BY <1>1, <1>2, <1>3, <1>4, <1>5, <1>6, <1>7, <1>8 DEF GpioStep, Access

\* How the place in the call, the mappings and the result move together.
LEMMA AccessMoves ==
    ASSUME GpioTypeOK, Access
    PROVE  /\ mapped' = mapped + 1 /\ memory' = memory /\ call' = call
           /\ memory # "kept" => byte' = byte
           /\ pc = "mux" => pc' = "get_dir"
           /\ pc = "get_dir" => pc' = "set_dir"
           /\ pc = "set_dir" => pc' = "data"
           /\ pc = "data" => pc' = "idle"
           /\ InCall
<1>1. mapped' = mapped + 1
  BY DEF Access, WriteMux, ReadDir, WriteDir, WriteData, ReadData, Map
<1>2. QED
  BY <1>1 DEF Access, WriteMux, ReadDir, WriteDir, WriteData, ReadData, Write, Return, InCall

\* A call that begins or fails leaves memory and mappings alone, and when it
\* has come to its end it reports a failure.
LEMMA BeginOrFail ==
    ASSUME (\E c \in Calls : Begin(c)) \/ AccessFails
    PROVE  /\ UNCHANGED <<memory, byte, mapped>>
           /\ pc' = "idle" => result' = "failed"
           /\ pc' \in {"idle", "mux", "crashed"}
  BY DEF Begin, BeginRefused, BeginNull, BeginKnown, AccessFails, Return

-----------------------------------------------------------------------------
(* Camera *)

\* The parts of TypeOK.
MainType == /\ mpc \in {"config", "system", "isp", "vi", "vpss", "take", "create",
                        "receive", "thread", "listen", "serve", "exit"}
            /\ VencS \in {"free", "taken", "created"}

CaptureType ==
    /\ cpc \in {"none", "setup", "select", "query", "get", "save", "release", "ended"}
    /\ packs \in 0 .. 1
    /\ stream \in {"none", "held", "kept"}

CallSteps == {"pin1", "pin2", "rest1", "rest2", "sense"}

NightType ==
    /\ npc \in {"none", "begin", "pin1", "pin2", "delay", "rest1", "rest2",
                "grey1", "grey2", "sense"}
    /\ pc \notin {"idle", "crashed"} => npc \in CallSteps /\ call = CallAt(npc)
    /\ app_config \in Wirings

Flags == /\ bColor2Grey \in BOOLEAN /\ refused \in BOOLEAN
         /\ night_mode \in BOOLEAN /\ changes \in Nat

LEMMA TypeParts ==
    TypeOK <=> MainType /\ CaptureType /\ NightType /\ GpioTypeOK /\ Flags
  BY DEF TypeOK, MainType, CaptureType, NightType, CallSteps, Flags

LEMMA InitParts == Init => MainType /\ CaptureType /\ NightType /\ Flags /\ GpioTypeOK
<1> SUFFICES ASSUME Init
             PROVE  MainType /\ CaptureType /\ NightType /\ Flags /\ GpioTypeOK
  OBVIOUS
<1>1. MainType /\ CaptureType
  BY DEF Init, MainType, CaptureType
<1>2. NightType
  BY DEF Init, NightType, GpioInit
<1>3. Flags
  BY DEF Init, Flags
<1>4. GpioTypeOK
  BY InitGpioTypeOK DEF Init
<1>5. QED
  BY <1>1, <1>2, <1>3, <1>4

\* The calls of the night thread are calls that Gpio knows; only that of the
\* sensor reads a pin.
LEMMA CallAtType ==
    ASSUME NightType, Flags, npc \in CallSteps
    PROVE  /\ CallAt(npc) \in Calls
           /\ npc = "sense" => CallAt(npc) = Get(app_config.ir_sensor_pin)
           /\ npc # "sense" => CallAt(npc).op = "set"
<1>1. /\ app_config.ir_sensor_pin \in Numbers
      /\ app_config.ir_cut_pin1 \in Numbers /\ app_config.ir_cut_pin2 \in Numbers
  BY CameraAssumption DEF NightType
<1>2. night_mode \in BOOLEAN /\ (~night_mode) \in BOOLEAN
  BY DEF Flags
<1>3. \A m \in Numbers, b \in BOOLEAN :
         Set(m, b) \in Calls /\ Get(m) \in Calls /\ Set(m, b).op = "set"
  BY DEF Set, Get, Calls
<1>4. /\ CallAt("pin1") = Set(app_config.ir_cut_pin1, night_mode)
      /\ CallAt("pin2") = Set(app_config.ir_cut_pin2, ~night_mode)
      /\ CallAt("rest1") = Set(app_config.ir_cut_pin1, FALSE)
      /\ CallAt("rest2") = Set(app_config.ir_cut_pin2, FALSE)
      /\ CallAt("sense") = Get(app_config.ir_sensor_pin)
  BY DEF CallAt
<1>5. QED
  BY <1>1, <1>2, <1>3, <1>4 DEF CallSteps

\* The capture thread is started once, and its place tells what it holds.
CaptureInv ==
    /\ cpc # "none" => mpc \in {"listen", "serve"}
    /\ cpc \in {"none", "setup", "select", "query", "ended"} => packs = 0 /\ stream # "held"
    /\ cpc = "get" => packs = 1 /\ stream # "held"
    /\ cpc \in {"save", "release"} => packs = 1 /\ stream = "held"

LEMMA NextCapture ==
    ASSUME MainType, CaptureType, CaptureInv, [Next]_vars
    PROVE  MainType' /\ CaptureType' /\ CaptureInv'
<1> USE DEF MainType, CaptureType, CaptureInv, channel, capture
<1>1. CASE LoadConfig \/ StartSystem \/ StartIsp \/ StartVi \/ StartVpss
  BY <1>1 DEF LoadConfig, StartSystem, StartIsp, StartVi, StartVpss, Part
<1>2. CASE TakeChannel \/ CreateChannel \/ StartRecvPic
  BY <1>2 DEF TakeChannel, CreateChannel, StartRecvPic, Part
<1>3. CASE StartCapture \/ Serve
  BY <1>3 DEF StartCapture, Serve
<1>4. CASE CaptureSetup \/ Select \/ SaveStream
  BY <1>4 DEF CaptureSetup, Select, SaveStream
<1>5. CASE Query \/ GetStream \/ ReleaseStream
  BY <1>5 DEF Query, GetStream, ReleaseStream
<1>6. CASE UNCHANGED <<mpc, VencS, capture>>
  BY <1>6
<1>7. QED
  BY <1>1, <1>2, <1>3, <1>4, <1>5, <1>6
     DEF Next, Main, Capture, NightThread, NightBegin, NightCall, NightAccess, WithinCall,
         Delay, IrcutGrey, ModeGrey, vars

-----------------------------------------------------------------------------
(* The night thread *)

\* A step inside a call of gpio.c, which may be its last.
InGpio == NightCall \/ NightAccess

\* What the call is stays the same while the thread's place and mode do.
LEMMA CallAtStays ==
    UNCHANGED <<npc, night_mode, app_config>> => CallAt(npc)' = CallAt(npc)
  BY DEF CallAt, Set, Get

\* Where the thread goes when its call returns.
LEMMA PinSetStep ==
    ASSUME npc \in CallSteps, npc # "sense", PinSet
    PROVE  npc' \in {"pin2", "delay", "rest2", "grey1"} /\ UNCHANGED mode
  BY DEF PinSet, AfterCall, CallSteps

LEMMA SensedStep ==
    ASSUME Sensed, night_mode \in BOOLEAN
    PROVE  \/ UNCHANGED <<npc, mode>>
           \/ /\ npc' = "pin1" /\ changes' = changes + 1
              /\ result' # "failed" /\ night_mode' \in BOOLEAN
              /\ night_mode' => result' = "high"
<1>1. CASE SetMode
  <2>1. night_mode' \in BOOLEAN
    BY <1>1 DEF SetMode
  <2>2. night_mode' => result' = "high"
    BY <1>1, Zenon DEF SetMode
  <2>3. CASE result' = "failed"
    BY <2>3 DEF Sensed
  <2>4. QED
    BY <1>1, <2>1, <2>2, <2>3 DEF SetMode
<1>2. CASE UNCHANGED <<npc, mode>>
  BY <1>2
<1>3. QED
  BY <1>1, <1>2, Zenon DEF Sensed, KeepMode

LEMMA InGpioStep ==
    ASSUME NightType, GpioTypeOK, Flags, InGpio
    PROVE  /\ npc \in CallSteps /\ GpioStep
           /\ UNCHANGED <<mpc, channel, capture>>
           /\ pc' # "idle" => UNCHANGED <<npc, mode>>
           /\ pc' = "idle" /\ npc = "sense" => Sensed
           /\ pc' = "idle" /\ npc # "sense" => PinSet
           /\ call' = CallAt(npc)
<1>1. CASE NightCall
  <2>1. npc \in CallSteps /\ Begin(CallAt(npc)) /\ WithinCall
    BY <1>1 DEF NightCall, CallSteps
  <2>2. CallAt(npc) \in Calls
    BY <2>1, CallAtType
  <2>3. GpioStep
    BY <2>1, <2>2 DEF GpioStep
  <2>4. call' = CallAt(npc)
    BY <2>1 DEF Begin, BeginRefused, BeginNull, BeginKnown
  <2>5. QED
    BY <2>1, <2>3, <2>4 DEF WithinCall
<1>2. CASE NightAccess
  <2>1. InCall /\ call' = call
    BY <1>2, AccessMoves DEF NightAccess, AccessFails, InCall
  <2>2. npc \in CallSteps /\ call = CallAt(npc)
    BY <2>1 DEF InCall, NightType
  <2>3. GpioStep
    BY <1>2 DEF NightAccess, GpioStep
  <2>4. QED
    BY <1>2, <2>1, <2>2, <2>3 DEF NightAccess, WithinCall
<1>3. QED
  BY <1>1, <1>2 DEF InGpio

\* The steps of the other threads, and those of the night thread outside of
\* gpio.c, leave the accesses and the mode alone.
LEMMA OutsideGpio ==
    ASSUME [Next]_vars, ~InGpio
    PROVE  UNCHANGED <<mode, gpioVars>>
<1>1. CASE NightBegin \/ Delay \/ IrcutGrey \/ ModeGrey
  BY <1>1 DEF NightBegin, Delay, IrcutGrey, ModeGrey
<1>2. CASE Main \/ Capture
  BY <1>2 DEF Main, Capture, LoadConfig, StartSystem, StartIsp, StartVi, StartVpss,
     TakeChannel, CreateChannel, StartRecvPic, StartCapture, Serve,
     CaptureSetup, Select, Query, GetStream, SaveStream, ReleaseStream, night
<1>3. CASE UNCHANGED vars
  BY <1>3 DEF vars, night
<1>4. QED
  BY <1>1, <1>2, <1>3 DEF Next, NightThread, InGpio

\* The night thread is started last.
StartedInv == npc # "none" => mpc = "serve"

\* Where each step outside of gpio.c takes the night thread.
LEMMA PlaceOutsideGpio ==
    ASSUME StartedInv, [Next]_vars, ~InGpio
    PROVE  /\ StartedInv'
           /\ \/ npc' = npc
              \/ npc = "none" /\ npc' = "begin"
              \/ npc = "begin" /\ npc' = "pin1"
              \/ npc = "delay" /\ npc' = "rest1"
              \/ npc = "grey1" /\ npc' = "grey2"
              \/ npc = "grey2" /\ npc' = "sense"
<1> USE DEF StartedInv
<1>1. CASE NightBegin \/ Delay \/ IrcutGrey \/ ModeGrey
  BY <1>1 DEF NightBegin, Delay, IrcutGrey, ModeGrey, NightStep
<1>2. CASE Serve
  BY <1>2 DEF Serve
<1>3. CASE UNCHANGED night
  <2>1. npc' = npc
    BY <1>3 DEF night
  <2>2. mpc # "serve" \/ mpc' = mpc
    BY <1>3 DEF Next, Main, Capture, NightThread, LoadConfig, StartSystem, StartIsp, StartVi,
       StartVpss, Part, TakeChannel, CreateChannel, StartRecvPic, StartCapture, Serve,
       CaptureSetup, Select, Query, GetStream, SaveStream, ReleaseStream, NightBegin,
       NightCall, NightAccess, WithinCall, Delay, IrcutGrey, ModeGrey, vars
  <2>3. QED
    BY <2>1, <2>2
<1>4. QED
  BY <1>1, <1>2, <1>3 DEF Next, NightThread, InGpio, Main, Capture, LoadConfig, StartSystem,
     StartIsp, StartVi, StartVpss, TakeChannel, CreateChannel, StartRecvPic, StartCapture,
     CaptureSetup, Select, Query, GetStream, SaveStream, ReleaseStream, vars

LEMMA NextNightType ==
    ASSUME NightType, StartedInv, GpioTypeOK, Flags, [Next]_vars
    PROVE  NightType' /\ StartedInv' /\ UNCHANGED app_config
<1>1. UNCHANGED app_config
  BY DEF Next, vars
<1>2. CASE InGpio
  <2>1. npc \in CallSteps /\ mpc' = mpc /\ call' = CallAt(npc)
    BY <1>2, InGpioStep
  <2>2. npc' \in {"pin1", "pin2", "delay", "rest1", "rest2", "grey1", "sense"}
    BY <1>2, InGpioStep, PinSetStep, SensedStep DEF CallSteps, Flags
  <2>3. pc' # "idle" => npc' = npc /\ night_mode' = night_mode
    BY <1>2, InGpioStep DEF mode
  <2>4. pc' # "idle" => npc' \in CallSteps /\ call' = CallAt(npc)'
    BY <1>1, <2>1, <2>3, CallAtStays
  <2>5. npc # "none" /\ npc' # "none"
    BY <2>1, <2>2 DEF CallSteps
  <2>6. QED
    BY <1>1, <2>1, <2>2, <2>4, <2>5 DEF NightType, StartedInv
<1>3. CASE ~InGpio
  <2>1. UNCHANGED <<pc, call, night_mode>>
    BY <1>3, OutsideGpio DEF mode, gpioVars
  <2>2. CASE pc \in {"idle", "crashed"}
    BY <1>1, <1>3, <2>1, <2>2, PlaceOutsideGpio DEF NightType
  <2>3. CASE pc \notin {"idle", "crashed"}
    <3>1. npc' = npc /\ StartedInv'
      BY <1>3, <2>3, PlaceOutsideGpio DEF NightType, CallSteps
    <3>2. QED
      BY <1>1, <2>1, <3>1, CallAtStays DEF NightType
  <2>4. QED
    BY <2>2, <2>3
<1>4. QED
  BY <1>2, <1>3

LEMMA NextFlags ==
    ASSUME NightType, GpioTypeOK, Flags, [Next]_vars
    PROVE  Flags'
<1> USE DEF Flags
<1>1. CASE InGpio
  <2>1. UNCHANGED <<bColor2Grey, refused>>
    BY <1>1, InGpioStep DEF channel
  <2>2. UNCHANGED mode \/ (changes' = changes + 1 /\ night_mode' \in BOOLEAN)
    BY <1>1, InGpioStep, PinSetStep, SensedStep
  <2>3. QED
    BY <2>1, <2>2 DEF mode
<1>2. CASE ~InGpio
  <2>1. UNCHANGED <<night_mode, changes>>
    BY <1>2, OutsideGpio DEF mode
  <2>2. bColor2Grey' \in BOOLEAN /\ refused' \in BOOLEAN
    BY <1>2 DEF Next, NightThread, InGpio, Main, Capture, LoadConfig, StartSystem, StartIsp,
       StartVi, StartVpss, TakeChannel, CreateChannel, StartRecvPic, StartCapture, Serve,
       CaptureSetup, Select, Query, GetStream, SaveStream, ReleaseStream, NightBegin, Delay,
       IrcutGrey, ModeGrey, set_color2gray, channel, vars
  <2>3. QED
    BY <2>1, <2>2
<1>3. QED
  BY <1>1, <1>2

-----------------------------------------------------------------------------
\* All of the above.
BaseInv == /\ MainType /\ CaptureType /\ CaptureInv /\ NightType /\ StartedInv /\ Flags
           /\ GpioTypeOK

LEMMA InitBaseInv == Init => BaseInv
<1>1. Init => CaptureInv /\ StartedInv
  BY DEF Init, CaptureInv, StartedInv
<1>2. QED
  BY <1>1, InitParts DEF BaseInv

LEMMA NextBaseInv == BaseInv /\ [Next]_vars => BaseInv'
<1> SUFFICES ASSUME BaseInv, [Next]_vars
             PROVE  BaseInv'
  OBVIOUS
<1>1. GpioStep \/ UNCHANGED gpioVars
  BY InGpioStep, OutsideGpio DEF BaseInv
<1>2. QED
  BY <1>1, NextCapture, NextNightType, NextFlags, NextGpioTypeOK DEF BaseInv

\* Every variable keeps its type, and a call that runs is the one that the
\* night thread is at.
THEOREM TypeCorrect == Spec => []TypeOK
<1>1. BaseInv => TypeOK
  BY TypeParts DEF BaseInv
<1>2. QED
  BY <1>1, InitBaseInv, NextBaseInv, PTL DEF Spec

\* However its calls fail, the capture thread goes back to select with
\* nothing in hand.
THEOREM CaptureCleans == Spec => []CaptureCleansUp
<1>1. BaseInv => CaptureCleansUp
  BY DEF BaseInv, CaptureInv, CaptureCleansUp
<1>2. QED
  BY <1>1, InitBaseInv, NextBaseInv, PTL DEF Spec

-----------------------------------------------------------------------------
(* The grey mode *)

LEMMA NextGrey == BaseInv /\ GreyUnlessRefused /\ [Next]_vars => GreyUnlessRefused'
<1> SUFFICES ASSUME BaseInv, GreyUnlessRefused, [Next]_vars
             PROVE  GreyUnlessRefused'
  OBVIOUS
<1> USE DEF GreyUnlessRefused
<1>1. CASE InGpio
  <2>1. npc \in CallSteps /\ UNCHANGED <<VencS, bColor2Grey, refused>>
    BY <1>1, InGpioStep DEF BaseInv, channel
  <2>2. npc' = "sense" => npc = "sense" /\ night_mode' = night_mode
    BY <1>1, <2>1, InGpioStep, PinSetStep, SensedStep DEF BaseInv, Flags, mode
  <2>3. QED
    BY <2>1, <2>2
\* The last step of a change calls set_color2gray with the mode.
<1>2. CASE ModeGrey
  BY <1>2 DEF ModeGrey, set_color2gray, mode
<1>3. CASE NightBegin \/ Delay \/ IrcutGrey \/ Serve
  <2>1. npc' # "sense"
    BY <1>3 DEF NightBegin, Delay, IrcutGrey, Serve, NightStep
  <2>2. QED
    BY <2>1
\* The channel is created before the night thread is.
<1>4. CASE CreateChannel \/ TakeChannel
  <2>1. mpc # "serve" /\ npc' = npc
    BY <1>4 DEF CreateChannel, TakeChannel, Part, night
  <2>2. QED
    BY <2>1 DEF BaseInv, StartedInv
<1>5. CASE UNCHANGED <<npc, night_mode, VencS, bColor2Grey, refused>>
  BY <1>5
<1>6. QED
  BY <1>1, <1>2, <1>3, <1>4, <1>5
     DEF Next, NightThread, InGpio, Main, Capture, LoadConfig, StartSystem, StartIsp, StartVi,
         StartVpss, StartRecvPic, StartCapture, CaptureSetup, Select, Query, GetStream,
         SaveStream, ReleaseStream, channel, mode, night, vars

\* Between two mode changes the picture is grey exactly at night, unless the
\* encoder refused the last call, whatever pins failed.
THEOREM GreyIsMode == Spec => []GreyUnlessRefused
<1>1. Init => GreyUnlessRefused
  BY DEF Init, GreyUnlessRefused
<1>2. QED
  BY <1>1, InitBaseInv, NextBaseInv, NextGrey, PTL DEF Spec

-----------------------------------------------------------------------------
(* What the mode shows *)

\* A reading that has come to its last access has written the zero that it
\* reads back.
ByteInv == /\ memory = "kept" /\ pc = "data" /\ call.op = "get" => byte = {}
           /\ NightShowsTheByte

\* A call that read the pin as high was the sensor's, and found the bit in
\* the byte.
LEMMA HighIsTheBit ==
    ASSUME BaseInv, InGpio, ByteInv, pc' = "idle", result' = "high", npc = "sense"
    PROVE  \/ memory = "changing"
           \/ memory = "fixed" /\ Pin(app_config.ir_sensor_pin)[2] \in byte
<1>1. GpioStep /\ call' = Get(app_config.ir_sensor_pin)
  BY InGpioStep, CallAtType DEF BaseInv
<1>2. Access
  BY <1>1, BeginOrFail DEF GpioStep
<1>3. call = Get(app_config.ir_sensor_pin)
  BY <1>1, <1>2, AccessMoves DEF BaseInv
<1>4. call.op = "get" /\ call.n = app_config.ir_sensor_pin
  BY <1>3 DEF Get
<1>5. ReadData
  BY <1>2, <1>4 DEF Access, WriteMux, ReadDir, WriteDir, WriteData
<1>6. PICK v \in Readable : Pin(call.n)[2] \in v
  BY <1>5 DEF ReadData, Return
<1>7. memory # "changing" => v = byte
  BY <1>6 DEF Readable
<1>8. memory = "kept" => byte = {}
  BY <1>4, <1>5 DEF ReadData, ByteInv
<1>9. QED
  BY <1>4, <1>6, <1>7, <1>8 DEF BaseInv, GpioTypeOK

LEMMA NextByteInv == BaseInv /\ ByteInv /\ [Next]_vars => ByteInv'
<1> SUFFICES ASSUME BaseInv, ByteInv, [Next]_vars
             PROVE  ByteInv'
  OBVIOUS
<1>0. app_config' = app_config
  BY DEF Next, vars
<1>1. CASE InGpio
  <2>1. GpioStep /\ npc \in CallSteps
    BY <1>1, InGpioStep DEF BaseInv
  <2>2. memory' = memory /\ (memory # "kept" => byte' = byte)
    BY <2>1, AccessMoves, BeginOrFail DEF GpioStep, BaseInv
  <2>3. memory' = "kept" /\ pc' = "data" /\ call'.op = "get" => byte' = {}
    <3>1. SUFFICES ASSUME memory' = "kept", pc' = "data", call'.op = "get"
                   PROVE  byte' = {}
      OBVIOUS
    <3>2. Access
      BY <2>1, <3>1, BeginOrFail DEF GpioStep
    <3>3. WriteDir /\ call.op = "get"
      BY <3>1, <3>2 DEF Access, WriteMux, ReadDir, WriteData, ReadData, Return, WriteDir
    <3>4. QED
      BY <2>2, <3>1, <3>3 DEF WriteDir, Write, set_bit
  <2>4. NightShowsTheByte'
    <3>1. CASE night_mode' = night_mode
      BY <1>0, <2>2, <3>1 DEF ByteInv, NightShowsTheByte
    <3>2. CASE night_mode' # night_mode
      <4>1. pc' = "idle" /\ npc = "sense" /\ Sensed
        BY <1>1, <2>1, <3>2, InGpioStep, PinSetStep DEF BaseInv, mode
      <4>2. night_mode' => result' = "high"
        BY <3>2, <4>1, SensedStep DEF BaseInv, Flags, mode
      <4>3. night_mode' => \/ memory = "changing"
                           \/ memory = "fixed" /\ Pin(app_config.ir_sensor_pin)[2] \in byte
        BY <1>1, <4>1, <4>2, HighIsTheBit
      <4>4. QED
        BY <1>0, <2>2, <4>3 DEF NightShowsTheByte
    <3>3. QED
      BY <3>1, <3>2
  <2>5. QED
    BY <2>3, <2>4 DEF ByteInv
<1>2. CASE ~InGpio
  <2>1. UNCHANGED <<memory, byte, pc, call, night_mode>>
    BY <1>2, OutsideGpio DEF gpioVars, mode
  <2>2. QED
    BY <1>0, <2>1 DEF ByteInv, NightShowsTheByte
<1>3. QED
  BY <1>1, <1>2

\* The mode shows the byte at address 0 and not the pin (gpio.c:60-67): over
\* memory that keeps what is written it is never night, since get_pin clears the
\* bit before it reads it; over memory that does not, it is the bit found there.
THEOREM ModeIsTheByte == Spec => []NightShowsTheByte
<1>1. Init => ByteInv
  BY DEF Init, GpioInit, ByteInv, NightShowsTheByte
<1>2. ByteInv => NightShowsTheByte
  BY DEF ByteInv
<1>3. QED
  BY <1>1, <1>2, InitBaseInv, NextBaseInv, NextByteInv, PTL DEF Spec

-----------------------------------------------------------------------------
(* How often the mode changes *)

\* A reading in progress has made its mappings, before the change that it may
\* lead to.
CostInv == /\ ChangesCostMappings
           /\ call.op = "get" =>
                 /\ pc = "get_dir" => 4 * changes + 1 <= mapped
                 /\ pc = "set_dir" => 4 * changes + 2 <= mapped
                 /\ pc = "data" => 4 * changes + 3 <= mapped

LEMMA NextCostInv == BaseInv /\ CostInv /\ [Next]_vars => CostInv'
<1> SUFFICES ASSUME BaseInv, CostInv, [Next]_vars
             PROVE  CostInv'
  OBVIOUS
<1> USE DEF CostInv, ChangesCostMappings
<1>0. changes \in Nat /\ mapped \in Nat
  BY GpioAssumption DEF BaseInv, Flags, GpioTypeOK
<1>1. CASE InGpio /\ Access
  <2>1. /\ mapped' = mapped + 1 /\ call' = call
        /\ pc = "mux" => pc' = "get_dir"
        /\ pc = "get_dir" => pc' = "set_dir"
        /\ pc = "set_dir" => pc' = "data"
        /\ pc = "data" => pc' = "idle"
        /\ InCall
    BY <1>1, AccessMoves DEF BaseInv
  <2>2. CASE UNCHANGED changes
    BY <1>0, <2>1, <2>2 DEF InCall
  <2>3. CASE changes' # changes
    <3>1. pc' = "idle" /\ npc = "sense" /\ Sensed
      BY <1>1, <2>3, InGpioStep, PinSetStep DEF BaseInv, mode
    <3>2. changes' = changes + 1
      BY <2>3, <3>1, SensedStep DEF BaseInv, Flags, mode
    <3>3. call.op = "get"
      BY <1>1, <2>1, <3>1, InGpioStep, CallAtType DEF BaseInv, Get
    <3>4. pc = "data"
      BY <2>1, <3>1 DEF InCall
    <3>5. QED
      BY <1>0, <2>1, <3>1, <3>2, <3>3, <3>4
  <2>4. QED
    BY <2>2, <2>3
<1>2. CASE InGpio /\ ~Access
  <2>1. UNCHANGED mapped /\ pc' \in {"idle", "mux", "crashed"}
        /\ (pc' = "idle" => result' = "failed")
    BY <1>2, InGpioStep, BeginOrFail DEF BaseInv, GpioStep
  <2>2. UNCHANGED changes
    BY <1>2, <2>1, InGpioStep, PinSetStep, SensedStep DEF BaseInv, Flags, mode
  <2>3. QED
    BY <2>1, <2>2
<1>3. CASE ~InGpio
  <2>1. UNCHANGED <<mapped, pc, call, changes>>
    BY <1>3, OutsideGpio DEF gpioVars, mode
  <2>2. QED
    BY <2>1
<1>4. QED
  BY <1>1, <1>2, <1>3

\* Each change of the mode has cost four mappings, whatever failed.
THEOREM ChangesAreBounded == Spec => []ChangesCostMappings
<1>1. Init => CostInv
  BY DEF Init, GpioInit, CostInv, ChangesCostMappings
<1>2. CostInv => ChangesCostMappings
  BY DEF CostInv
<1>3. QED
  BY <1>1, <1>2, InitBaseInv, NextBaseInv, NextCostInv, PTL DEF Spec
=============================================================================
