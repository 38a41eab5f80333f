------------------------------ MODULE MCCamera ------------------------------
(* A camera with its encoder and its night mode on.  The sensor is the first *)
(* pin of its port, or another, or is not in the table; a filter pin is the  *)
(* first of its port, or is not in the table.  Pins 2 and 3 are their own    *)
(* bit in e, as GPIO8_0 is.                                                  *)
EXTENDS Camera
MCTable == {<<0, 1>>, <<1, 0>>, <<1, 1>>}
MCe == [p \in MCTable |-> IF p[1] = 1 THEN {p[2]} ELSE {}]
MCNumbers == {1, 2, 3, 5}
Wiring(sensor, cut1, cut2) == [ir_sensor_pin |-> sensor, ir_cut_pin1 |-> cut1, ir_cut_pin2 |-> cut2]
MCWirings == {Wiring(2, 1, 3), Wiring(3, 1, 2), Wiring(5, 1, 3), Wiring(1, 3, 5)}
=============================================================================
