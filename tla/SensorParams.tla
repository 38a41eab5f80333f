---------------------------- MODULE SensorParams ----------------------------
(***************************************************************************)
(* The parameters that parse_sensor_config (src/config/sensor_config.c)    *)
(* reads from the sensor's file, in its order.                             *)
(***************************************************************************)
EXTENDS ParamTable

Ints(section, keys, min, max) == [q \in DOMAIN keys |-> IntParam(section, keys[q], min, max)]
Arrays(section, keys) == [q \in DOMAIN keys |-> ArrayParam(section, keys[q])]

RawDataNames == <<"RAW_DATA_8BIT", "RAW_DATA_10BIT", "RAW_DATA_12BIT", "RAW_DATA_14BIT">>
EndianNames == <<"LVDS_ENDIAN_LITTLE", "LVDS_ENDIAN_BIG">>

SensorHead ==
    <<TextParam("sensor", "sensor_type"),
      EnumParam("sensor", "mode", Values(
          <<"WDR_MODE_NONE", "WDR_MODE_BUILT_IN",
            "WDR_MODE_2To1_LINE", "WDR_MODE_2To1_FRAME", "WDR_MODE_2To1_FRAME_FULL_RATE",
            "WDR_MODE_3To1_LINE", "WDR_MODE_3To1_FRAME", "WDR_MODE_3To1_FRAME_FULL_RATE",
            "WDR_MODE_4To1_LINE", "WDR_MODE_4To1_FRAME", "WDR_MODE_4To1_FRAME_FULL_RATE">>, 0)),
      TextParam("sensor", "DllFile"),
      EnumParam("mode", "input_mode", Values(
          <<"INPUT_MODE_MIPI", "INPUT_MODE_SUBLVDS", "INPUT_MODE_LVDS", "INPUT_MODE_HISPI",
            "INPUT_MODE_CMOS_18V", "INPUT_MODE_CMOS_33V", "INPUT_MODE_BT1120", "INPUT_MODE_BYPASS">>, 0)),
      IntParam("mode", "dev_attr", 0, 2),
      EnumParam("mipi", "data_type", Values(RawDataNames, 1)),
      ArrayParam("mipi", "lane_id")>>

LvdsModes ==
    <<EnumParam("lvds", "wdr_mode", Values(
          <<"HI_WDR_MODE_NONE", "HI_WDR_MODE_2F", "HI_WDR_MODE_3F", "HI_WDR_MODE_4F",
            "HI_WDR_MODE_DOL_2F", "HI_WDR_MODE_DOL_3F", "HI_WDR_MODE_DOL_4F">>, 0)),
      EnumParam("lvds", "sync_mode", Values(<<"LVDS_SYNC_MODE_SOL", "LVDS_SYNC_MODE_SAV">>, 0)),
      EnumParam("lvds", "raw_data_type", Values(RawDataNames, 1)),
      EnumParam("lvds", "data_endian", Values(EndianNames, 1)),
      EnumParam("lvds", "sync_code_endian", Values(EndianNames, 1)),
      ArrayParam("lvds", "lane_id")>>

LvdsParams ==
    Ints("lvds", <<"img_size_w", "img_size_h">>, INT_MIN, INT_MAX)
    \o LvdsModes
    \o Ints("lvds", <<"lvds_lane_num", "wdr_vc_num", "sync_code_num">>, INT_MIN, INT_MAX)
    \o Arrays("lvds", <<"sync_code_0", "sync_code_1", "sync_code_2", "sync_code_3",
                        "sync_code_4", "sync_code_5", "sync_code_6", "sync_code_7">>)

\* The section is [isp_image] whatever name the caller passes.
IspImageParams ==
    Ints("isp_image", <<"Isp_x", "Isp_y", "Isp_W", "Isp_H", "Isp_FrameRate">>, 0, INT_MAX)
    \o <<EnumParam("isp_image", "isp_bayer",
                   Values(<<"BAYER_RGGB", "BAYER_GRBG", "BAYER_GBRG", "BAYER_BGGR">>, 0))>>

\* Of Data_seq a name is looked for in the first list, and then in the second.
DataSeq ==
    LET first == Values(<<"VI_INPUT_DATA_VUVU", "VI_INPUT_DATA_UVUV">>, 0)
        second == Values(<<"VI_INPUT_DATA_UYVY", "VI_INPUT_DATA_VYUY",
                           "VI_INPUT_DATA_YUYV", "VI_INPUT_DATA_YVYU">>, 0)
    IN  [n \in DOMAIN first \cup DOMAIN second |-> IF n \in DOMAIN first THEN first[n] ELSE second[n]]
ViDev(key, names) == EnumParam("vi_dev", key, Values(names, 0))

ViDevModes ==
    <<ViDev("Input_mod",
            <<"VI_INPUT_MODE_BT656", "VI_INPUT_MODE_BT601", "VI_INPUT_MODE_DIGITAL_CAMERA",
              "VI_INPUT_MODE_INTERLEAVED", "VI_INPUT_MODE_MIPI", "VI_INPUT_MODE_LVDS",
              "VI_INPUT_MODE_HISPI">>),
      ViDev("Work_mod", <<"VI_WORK_MODE_1Multiplex", "VI_WORK_MODE_2Multiplex", "VI_WORK_MODE_4Multiplex">>),
      ViDev("Combine_mode", <<"VI_COMBINE_COMPOSITE", "VI_COMBINE_SEPARATE">>),
      ViDev("Comp_mode", <<"VI_COMP_MODE_SINGLE", "VI_COMP_MODE_DOUBLE">>),
      ViDev("Clock_edge", <<"VI_CLK_EDGE_SINGLE_UP", "VI_CLK_EDGE_SINGLE_DOWN", "VI_CLK_EDGE_DOUBLE">>),
      IntParam("vi_dev", "Mask_num", 0, 2)>>

ViDevSync ==
    <<ViDev("Scan_mode", <<"VI_SCAN_INTERLACED", "VI_SCAN_PROGRESSIVE">>),
      EnumParam("vi_dev", "Data_seq", DataSeq),
      ViDev("Vsync", <<"VI_VSYNC_FIELD", "VI_VSYNC_PULSE">>),
      ViDev("VsyncNeg", <<"VI_VSYNC_NEG_HIGH", "VI_VSYNC_NEG_LOW">>),
      ViDev("Hsync", <<"VI_HSYNC_VALID_SINGNAL", "VI_HSYNC_PULSE">>),
      ViDev("HsyncNeg", <<"VI_HSYNC_NEG_HIGH", "VI_HSYNC_NEG_LOW">>),
      ViDev("VsyncValid", <<"VI_VSYNC_NORM_PULSE", "VI_VSYNC_VALID_SINGAL">>),
      ViDev("VsyncValidNeg", <<"VI_VSYNC_VALID_NEG_HIGH", "VI_VSYNC_VALID_NEG_LOW">>)>>

ViDevData ==
    <<ViDev("FixCode", <<"BT656_FIXCODE_1", "BT656_FIXCODE_0">>),
      ViDev("FieldPolar", <<"BT656_FIELD_POLAR_STD", "BT656_FIELD_POLAR_NSTD">>),
      ViDev("DataPath", <<"VI_PATH_BYPASS", "VI_PATH_ISP", "VI_PATH_RAW">>),
      ViDev("InputDataType", <<"VI_DATA_TYPE_YUV", "VI_DATA_TYPE_RGB">>)>>

ViDevParams ==
    ViDevModes
    \o Ints("vi_dev", <<"Mask_0", "Mask_1">>, 0, INT_MAX)
    \o ViDevSync
    \o Ints("vi_dev",
            <<"Timingblank_HsyncHfb", "Timingblank_HsyncAct", "Timingblank_HsyncHbb",
              "Timingblank_VsyncVfb", "Timingblank_VsyncVact", "Timingblank_VsyncVbb",
              "Timingblank_VsyncVbfb", "Timingblank_VsyncVbact", "Timingblank_VsyncVbbb">>, 0, INT_MAX)
    \o ViDevData
    \o Ints("vi_dev", <<"DataRev", "DevRect_x", "DevRect_y", "DevRect_w", "DevRect_h">>, 0, INT_MAX)

PixelFormats ==
    <<"PIXEL_FORMAT_RGB_1BPP", "PIXEL_FORMAT_RGB_2BPP", "PIXEL_FORMAT_RGB_4BPP", "PIXEL_FORMAT_RGB_8BPP",
      "PIXEL_FORMAT_RGB_444", "PIXEL_FORMAT_RGB_4444", "PIXEL_FORMAT_RGB_555", "PIXEL_FORMAT_RGB_565",
      "PIXEL_FORMAT_RGB_1555", "PIXEL_FORMAT_RGB_888", "PIXEL_FORMAT_RGB_8888",
      "PIXEL_FORMAT_RGB_PLANAR_888", "PIXEL_FORMAT_RGB_BAYER_8BPP", "PIXEL_FORMAT_RGB_BAYER_10BPP",
      "PIXEL_FORMAT_RGB_BAYER_12BPP", "PIXEL_FORMAT_RGB_BAYER_14BPP", "PIXEL_FORMAT_RGB_BAYER",
      "PIXEL_FORMAT_YUV_A422", "PIXEL_FORMAT_YUV_A444", "PIXEL_FORMAT_YUV_PLANAR_422",
      "PIXEL_FORMAT_YUV_PLANAR_420", "PIXEL_FORMAT_YUV_PLANAR_444", "PIXEL_FORMAT_YUV_SEMIPLANAR_422",
      "PIXEL_FORMAT_YUV_SEMIPLANAR_420", "PIXEL_FORMAT_YUV_SEMIPLANAR_444",
      "PIXEL_FORMAT_UYVY_PACKAGE_422", "PIXEL_FORMAT_YUYV_PACKAGE_422", "PIXEL_FORMAT_VYUY_PACKAGE_422",
      "PIXEL_FORMAT_YCbCr_PLANAR", "PIXEL_FORMAT_YUV_400">>

ViChnModes ==
    <<EnumParam("vi_chn", "CapSel", Values(<<"VI_CAPSEL_TOP", "VI_CAPSEL_BOTTOM", "VI_CAPSEL_BOTH">>, 0)),
      EnumParam("vi_chn", "PixFormat", Values(PixelFormats, 0)),
      EnumParam("vi_chn", "CompressMode", Values(
          <<"COMPRESS_MODE_NONE", "COMPRESS_MODE_SEG", "COMPRESS_MODE_SEG128",
            "COMPRESS_MODE_LINE", "COMPRESS_MODE_FRAME">>, 0))>>

ViChnParams ==
    Ints("vi_chn", <<"CapRect_X", "CapRect_Y", "CapRect_Width", "CapRect_Height",
                     "DestSize_Width", "DestSize_Height">>, 0, INT_MAX)
    \o ViChnModes
    \o Ints("vi_chn", <<"SrcFrameRate", "FrameRate">>, INT_MIN, INT_MAX)

SensorConfigParams == SensorHead \o LvdsParams \o IspImageParams \o ViDevParams \o ViChnParams
SensorConfigDefaults == Cleared(SensorConfigParams)
=============================================================================
