---------------------------- MODULE SensorConfig ----------------------------
(***************************************************************************)
(* parse_sensor_config: the reader of ConfigFile on the sensor's table,    *)
(* and what its names mean to the SDK, which takes the numbers.            *)
(***************************************************************************)
EXTENDS ConfigFile, SensorParams, SdkEnums

\* The fields that take a name, with the types they are declared with.
Typed(section, key, type) == [field |-> <<section, key>>, type |-> type]
FieldTypes ==
    {Typed("sensor", "mode", WDR_MODE_E), Typed("mode", "input_mode", input_mode_t),
     Typed("mipi", "data_type", raw_data_type_e), Typed("lvds", "wdr_mode", wdr_mode_e),
     Typed("lvds", "sync_mode", lvds_sync_mode_e), Typed("lvds", "raw_data_type", raw_data_type_e),
     Typed("lvds", "data_endian", lvds_bit_endian), Typed("lvds", "sync_code_endian", lvds_bit_endian),
     Typed("isp_image", "isp_bayer", ISP_BAYER_FORMAT_E),
     Typed("vi_dev", "Input_mod", VI_INPUT_MODE_E), Typed("vi_dev", "Work_mod", VI_WORK_MODE_E),
     Typed("vi_dev", "Combine_mode", VI_COMBINE_MODE_E), Typed("vi_dev", "Comp_mode", VI_COMP_MODE_E),
     Typed("vi_dev", "Clock_edge", VI_CLK_EDGE_E), Typed("vi_dev", "Scan_mode", VI_SCAN_MODE_E),
     Typed("vi_dev", "Data_seq", VI_DATA_YUV_SEQ_E),
     Typed("vi_dev", "Vsync", VI_VSYNC_E), Typed("vi_dev", "VsyncNeg", VI_VSYNC_NEG_E),
     Typed("vi_dev", "Hsync", VI_HSYNC_E), Typed("vi_dev", "HsyncNeg", VI_HSYNC_NEG_E),
     Typed("vi_dev", "VsyncValid", VI_VSYNC_VALID_E),
     Typed("vi_dev", "VsyncValidNeg", VI_VSYNC_VALID_NEG_E),
     Typed("vi_dev", "FixCode", BT656_FIXCODE_E), Typed("vi_dev", "FieldPolar", BT656_FIELD_POLAR_E),
     Typed("vi_dev", "DataPath", VI_DATA_PATH_E), Typed("vi_dev", "InputDataType", VI_DATA_TYPE_E),
     Typed("vi_chn", "CapSel", VI_CAPSEL_E), Typed("vi_chn", "PixFormat", PIXEL_FORMAT_E),
     Typed("vi_chn", "CompressMode", COMPRESS_MODE_E)}

\* The sensor's table is the one of SensorParams.
ASSUME SensorAssumption == "sensor" \in DOMAIN Tables => Tables["sensor"] = SensorConfigParams

\* The byte orders are counted from 1 (sensor_config.c:51-52), where the SDK
\* counts from 0 (hi_mipi.h:189-190): what is stored for a name is one above
\* what the SDK means by it.
ByteOrders == {<<"lvds", "data_endian">>, <<"lvds", "sync_code_endian">>}

\* A name that is accepted (sensor_config.c:92) and that the SDK has no more:
\* the header has it commented out, and the bound of the type has its place
\* (hi_comm_vi.h:168-170).
SdkName(n) == IF n = "VI_CLK_EDGE_DOUBLE" THEN "VI_CLK_EDGE_BUTT" ELSE n

\* The value that field t holds for the name n.
ValueFor(t, n) == IF t.field \in ByteOrders THEN t.type[SdkName(n)] + 1 ELSE t.type[SdkName(n)]

\* The word in the file that gave t's field its value is a name of t's type, and
\* the field holds the value for it.
MeansTheName(t) ==
    LET word == file[keyLine[t.field]].value
    IN  keyLine[t.field] > 0 /\ word \notin DOMAIN Numeral \cup {""} =>
            SdkName(word) \in DOMAIN t.type /\ config[t.field] = ValueFor(t, word)

\* A field that was not read as a number holds what the SDK means by the name in
\* the file, and no name is accepted that the SDK does not have: the lists of
\* sensor_config.c repeat those of the headers by hand, in their order and with
\* their first values (sensor_config.c:29-308).  They differ in two places, and
\* there by this much and no more: the byte orders are one too high, and
\* VI_CLK_EDGE_DOUBLE is taken for the bound of its type.
NamesMeanSdkValues == table = "sensor" => \A t \in FieldTypes : MeansTheName(t)
=============================================================================
