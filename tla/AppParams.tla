----------------------------- MODULE AppParams -----------------------------
(***************************************************************************)
(* The parameters that parse_app_config (src/config/app_config.c) reads    *)
(* from minihttp.ini, in its order, and their defaults.  A field of        *)
(* app_config is named by its section and key.                             *)
(***************************************************************************)
EXTENDS ParamTable

PIN_MAX == 95

\* the parameters of a section, read only when its "enable" is true
Gated(section, params) == [q \in DOMAIN params |-> [params[q] EXCEPT !.gate = <<section, "enable">>]]

SystemParams ==
    <<TextParam("system", "sensor_config"),
      IntParam("system", "web_port", 1, INT_MAX),
      BoolParam("system", "web_enable_static"),
      IntParam("system", "isp_thread_stack_size", 16 * 1024, INT_MAX),
      IntParam("system", "venc_stream_thread_stack_size", 16 * 1024, INT_MAX),
      IntParam("system", "web_server_thread_stack_size", 16 * 1024, INT_MAX)>>

NightParams ==
    <<BoolParam("night_mode", "enable")>> \o
    Gated("night_mode",
          <<IntParam("night_mode", "ir_sensor_pin", 0, PIN_MAX),
            IntParam("night_mode", "check_interval_s", 0, 600),
            IntParam("night_mode", "ir_cut_pin1", 0, PIN_MAX),
            IntParam("night_mode", "ir_cut_pin2", 0, PIN_MAX),
            IntParam("night_mode", "pin_switch_delay_us", 0, 1000)>>)

\* align_width and blk_cnt are read as names, and again as numbers.
IspParams ==
    <<EnumParam("isp", "align_width", Values(<<"1", "4", "16", "64", "128">>, 0)),
      IntParam("isp", "align_width", 0, INT_MAX),
      IntParam("isp", "max_pool_cnt", 1, INT_MAX),
      EnumParam("isp", "blk_cnt", Values(<<"4", "10">>, 0)),
      IntParam("isp", "blk_cnt", 4, INT_MAX)>>

SizeParams(section) == <<IntParam(section, "width", 160, INT_MAX), IntParam(section, "height", 120, INT_MAX)>>
RateParams(section) == <<IntParam(section, "fps", 1, INT_MAX), IntParam(section, "bitrate", 32, INT_MAX)>>

VideoParams ==
    <<BoolParam("rtsp", "enable"), BoolParam("mp4", "enable")>>
    \o Gated("mp4", SizeParams("mp4") \o RateParams("mp4"))

JpegParams ==
    <<BoolParam("jpeg", "enable")>>
    \o Gated("jpeg", SizeParams("jpeg") \o <<IntParam("jpeg", "qfactor", 1, 99)>>)
    \o <<BoolParam("mjpeg", "enable")>>
    \o Gated("mjpeg", SizeParams("mjpeg") \o RateParams("mjpeg"))

\* The switch is the one parameter whose error is not looked at.
HttpPostParams ==
    <<[BoolParam("http_post", "enable") EXCEPT !.checked = FALSE]>> \o
    Gated("http_post",
          [q \in 1 .. 4 |-> TextParam("http_post", <<"host", "url", "login", "password">>[q])]
          \o SizeParams("http_post")
          \o <<IntParam("http_post", "interval", 1, INT_MAX), IntParam("http_post", "qfactor", 1, 99)>>)

AppConfigParams == SystemParams \o NightParams \o IspParams \o VideoParams \o JpegParams \o HttpPostParams

\* memset, and what is set after it
AppConfigSet ==
    [mjpeg |-> [fps |-> 15, width |-> 640, height |-> 480, bitrate |-> 1024],
     system |-> [web_port |-> 8080, isp_thread_stack_size |-> 16 * 1024,
                 venc_stream_thread_stack_size |-> 16 * 1024,
                 web_server_thread_stack_size |-> 16 * 1024],
     isp |-> [align_width |-> 64, blk_cnt |-> 4, max_pool_cnt |-> 16],
     night_mode |-> [ir_sensor_pin |-> 999, ir_cut_pin1 |-> 999, ir_cut_pin2 |-> 999,
                     pin_switch_delay_us |-> 250, check_interval_s |-> 10]]

AppConfigDefaults ==
    [f \in DOMAIN Cleared(AppConfigParams) |->
        IF f[1] \in DOMAIN AppConfigSet /\ f[2] \in DOMAIN AppConfigSet[f[1]]
        THEN AppConfigSet[f[1]][f[2]]
        ELSE Cleared(AppConfigParams)[f]]
=============================================================================
