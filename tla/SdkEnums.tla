------------------------------ MODULE SdkEnums ------------------------------
(***************************************************************************)
(* The enumerations of the SDK (src/include) that the fields of struct     *)
(* SensorConfig (src/config/sensor_config.h) are declared with, as         *)
(* functions from the names to their values.                               *)
(***************************************************************************)
EXTENDS Integers, Sequences, TLC

Enum(first, names) ==
    [n \in {names[q] : q \in DOMAIN names} |-> first + (CHOOSE q \in DOMAIN names : names[q] = n) - 1]

WDR_MODE_E == Enum(0,
    <<"WDR_MODE_NONE", "WDR_MODE_BUILT_IN", "WDR_MODE_2To1_LINE", "WDR_MODE_2To1_FRAME",
      "WDR_MODE_2To1_FRAME_FULL_RATE", "WDR_MODE_3To1_LINE", "WDR_MODE_3To1_FRAME",
      "WDR_MODE_3To1_FRAME_FULL_RATE", "WDR_MODE_4To1_LINE", "WDR_MODE_4To1_FRAME",
      "WDR_MODE_4To1_FRAME_FULL_RATE", "WDR_MODE_BUTT">>)
input_mode_t == Enum(0,
    <<"INPUT_MODE_MIPI", "INPUT_MODE_SUBLVDS", "INPUT_MODE_LVDS", "INPUT_MODE_HISPI",
      "INPUT_MODE_CMOS_18V", "INPUT_MODE_CMOS_33V", "INPUT_MODE_BT1120", "INPUT_MODE_BYPASS",
      "INPUT_MODE_BUTT">>)
raw_data_type_e == Enum(1,
    <<"RAW_DATA_8BIT", "RAW_DATA_10BIT", "RAW_DATA_12BIT", "RAW_DATA_14BIT", "RAW_DATA_BUTT">>)
wdr_mode_e == Enum(0,
    <<"HI_WDR_MODE_NONE", "HI_WDR_MODE_2F", "HI_WDR_MODE_3F", "HI_WDR_MODE_4F",
      "HI_WDR_MODE_DOL_2F", "HI_WDR_MODE_DOL_3F", "HI_WDR_MODE_DOL_4F", "HI_WDR_MODE_BUTT">>)
lvds_sync_mode_e == Enum(0,
    <<"LVDS_SYNC_MODE_SOL", "LVDS_SYNC_MODE_SAV", "LVDS_SYNC_MODE_BUTT">>)
lvds_bit_endian == Enum(0,
    <<"LVDS_ENDIAN_LITTLE", "LVDS_ENDIAN_BIG", "LVDS_ENDIAN_BUTT">>)
ISP_BAYER_FORMAT_E == Enum(0,
    <<"BAYER_RGGB", "BAYER_GRBG", "BAYER_GBRG", "BAYER_BGGR", "BAYER_BUTT">>)
VI_INPUT_MODE_E == Enum(0,
    <<"VI_INPUT_MODE_BT656", "VI_INPUT_MODE_BT601", "VI_INPUT_MODE_DIGITAL_CAMERA",
      "VI_INPUT_MODE_INTERLEAVED", "VI_INPUT_MODE_MIPI", "VI_INPUT_MODE_LVDS",
      "VI_INPUT_MODE_HISPI", "VI_INPUT_MODE_BUTT">>)
VI_WORK_MODE_E == Enum(0,
    <<"VI_WORK_MODE_1Multiplex", "VI_WORK_MODE_2Multiplex", "VI_WORK_MODE_4Multiplex",
      "VI_WORK_MODE_BUTT">>)
VI_COMBINE_MODE_E == Enum(0,
    <<"VI_COMBINE_COMPOSITE", "VI_COMBINE_SEPARATE", "VI_COMBINE_BUTT">>)
VI_COMP_MODE_E == Enum(0,
    <<"VI_COMP_MODE_SINGLE", "VI_COMP_MODE_DOUBLE", "VI_COMP_MODE_BUTT">>)
VI_CLK_EDGE_E == Enum(0,
    <<"VI_CLK_EDGE_SINGLE_UP", "VI_CLK_EDGE_SINGLE_DOWN", "VI_CLK_EDGE_BUTT">>)
VI_SCAN_MODE_E == Enum(0,
    <<"VI_SCAN_INTERLACED", "VI_SCAN_PROGRESSIVE", "VI_SCAN_BUTT">>)
VI_DATA_YUV_SEQ_E ==
    LET uv == Enum(0, <<"VI_INPUT_DATA_VUVU", "VI_INPUT_DATA_UVUV">>)
        yuv == Enum(0, <<"VI_INPUT_DATA_UYVY", "VI_INPUT_DATA_VYUY",
                         "VI_INPUT_DATA_YUYV", "VI_INPUT_DATA_YVYU", "VI_DATA_YUV_BUTT">>)
    IN  [n \in DOMAIN uv \cup DOMAIN yuv |-> IF n \in DOMAIN uv THEN uv[n] ELSE yuv[n]]
VI_VSYNC_E == Enum(0, <<"VI_VSYNC_FIELD", "VI_VSYNC_PULSE">>)
VI_VSYNC_NEG_E == Enum(0, <<"VI_VSYNC_NEG_HIGH", "VI_VSYNC_NEG_LOW">>)
VI_HSYNC_E == Enum(0, <<"VI_HSYNC_VALID_SINGNAL", "VI_HSYNC_PULSE">>)
VI_HSYNC_NEG_E == Enum(0, <<"VI_HSYNC_NEG_HIGH", "VI_HSYNC_NEG_LOW">>)
VI_VSYNC_VALID_E == Enum(0, <<"VI_VSYNC_NORM_PULSE", "VI_VSYNC_VALID_SINGAL">>)
VI_VSYNC_VALID_NEG_E == Enum(0, <<"VI_VSYNC_VALID_NEG_HIGH", "VI_VSYNC_VALID_NEG_LOW">>)
BT656_FIXCODE_E == Enum(0, <<"BT656_FIXCODE_1", "BT656_FIXCODE_0">>)
BT656_FIELD_POLAR_E == Enum(0, <<"BT656_FIELD_POLAR_STD", "BT656_FIELD_POLAR_NSTD">>)
VI_DATA_PATH_E == Enum(0,
    <<"VI_PATH_BYPASS", "VI_PATH_ISP", "VI_PATH_RAW", "VI_PATH_BUTT">>)
VI_DATA_TYPE_E == Enum(0,
    <<"VI_DATA_TYPE_YUV", "VI_DATA_TYPE_RGB", "VI_DATA_TYPE_BUTT">>)
VI_CAPSEL_E == Enum(0,
    <<"VI_CAPSEL_TOP", "VI_CAPSEL_BOTTOM", "VI_CAPSEL_BOTH", "VI_CAPSEL_BUTT">>)
PIXEL_FORMAT_E == Enum(0,
    <<"PIXEL_FORMAT_RGB_1BPP", "PIXEL_FORMAT_RGB_2BPP", "PIXEL_FORMAT_RGB_4BPP",
      "PIXEL_FORMAT_RGB_8BPP", "PIXEL_FORMAT_RGB_444", "PIXEL_FORMAT_RGB_4444",
      "PIXEL_FORMAT_RGB_555", "PIXEL_FORMAT_RGB_565", "PIXEL_FORMAT_RGB_1555",
      "PIXEL_FORMAT_RGB_888", "PIXEL_FORMAT_RGB_8888", "PIXEL_FORMAT_RGB_PLANAR_888",
      "PIXEL_FORMAT_RGB_BAYER_8BPP", "PIXEL_FORMAT_RGB_BAYER_10BPP",
      "PIXEL_FORMAT_RGB_BAYER_12BPP", "PIXEL_FORMAT_RGB_BAYER_14BPP", "PIXEL_FORMAT_RGB_BAYER",
      "PIXEL_FORMAT_YUV_A422", "PIXEL_FORMAT_YUV_A444", "PIXEL_FORMAT_YUV_PLANAR_422",
      "PIXEL_FORMAT_YUV_PLANAR_420", "PIXEL_FORMAT_YUV_PLANAR_444",
      "PIXEL_FORMAT_YUV_SEMIPLANAR_422", "PIXEL_FORMAT_YUV_SEMIPLANAR_420",
      "PIXEL_FORMAT_YUV_SEMIPLANAR_444", "PIXEL_FORMAT_UYVY_PACKAGE_422",
      "PIXEL_FORMAT_YUYV_PACKAGE_422", "PIXEL_FORMAT_VYUY_PACKAGE_422",
      "PIXEL_FORMAT_YCbCr_PLANAR", "PIXEL_FORMAT_YUV_400", "PIXEL_FORMAT_BUTT">>)
COMPRESS_MODE_E == Enum(0,
    <<"COMPRESS_MODE_NONE", "COMPRESS_MODE_SEG", "COMPRESS_MODE_SEG128", "COMPRESS_MODE_LINE",
      "COMPRESS_MODE_FRAME", "COMPRESS_MODE_BUTT">>)
=============================================================================
