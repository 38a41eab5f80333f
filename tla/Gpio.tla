-------------------------------- MODULE Gpio --------------------------------
(***************************************************************************)
(* set_pin_linux and get_pin_linux of src/gpio.c, access by access.  Each  *)
(* access (set_u8, get_u8, set_u32) opens and maps /dev/mem for itself and *)
(* never undoes the mapping.  mmap gets the address of the register as a   *)
(* hint of where to map, and 0 as the offset into the file: whatever       *)
(* register is meant, what is read and written is the start of physical    *)
(* memory.  So no register is in this module, and a pin's muxctl and port  *)
(* choose nothing here; what it has is the byte at address 0, the only one *)
(* that is ever read.  One call runs at a time: the night thread is the    *)
(* only caller (Camera).                                                   *)
(***************************************************************************)
EXTENDS Integers

CONSTANTS BITS,         \* pins of a port (8)
          Table,        \* hi3518EV200_pins: <<port, pin>>
          e,            \* the function of each pin of the table: a byte
          Numbers,      \* the pin numbers asked for (0 .. 95 in app_config.c)
          MaxMappings   \* mappings that a process may have

\* A byte is the set of its bits that are 1.
Bytes == SUBSET (0 .. BITS - 1)
AllOnes == 0 .. BITS - 1

ASSUME GpioAssumption == /\ BITS \in Nat \ {0}
                         /\ Numbers \subseteq Nat
                         /\ Table \subseteq Nat \X (0 .. BITS - 1)
                         /\ e \in [Table -> Bytes]
                         /\ MaxMappings \in Nat

VARIABLES
    memory,             \* what is at address 0: "kept", memory that keeps what is
                        \* written; "fixed", memory that does not; "changing", a
                        \* byte that something else writes
    byte,               \* the byte at address 0, unless it is changing
    mapped,             \* mappings made
    pc,                 \* the access that comes next, or "idle", "crashed"
    call,               \* the call: what, which pin, which bit
    port_direction,     \* what was read for the direction register, until it is
                        \* written back
    result              \* of the latest call: "failed", "done" for one that set a
                        \* pin, "low" or "high" for one that read one

gpioVars == <<memory, byte, mapped, pc, call, port_direction, result>>

\* pin_linux_to_port_pin
Pin(n) == <<n \div BITS, n % BITS>>

Calls == [op : {"get"}, n : Numbers, bit : {FALSE}] \cup [op : {"set"}, n : Numbers, bit : BOOLEAN]
NoCall == [op |-> "none", n |-> 0, bit |-> FALSE]

GpioInit == /\ memory \in {"kept", "fixed", "changing"}
            /\ byte \in IF memory = "changing" THEN {{}} ELSE Bytes
            /\ mapped = 0
            /\ pc = "idle" /\ call = NoCall
            /\ port_direction = {}
            /\ result = "none"

Return(r) == /\ pc' = "idle"
             /\ result' = r
             /\ port_direction' = {}

\* Faulty variant of GetUnknown: the result of find_pin is not looked at.
GetUnknown_Unasked(c) == FALSE
\* get_pin refuses a pin that find_pin does not know.
GetUnknown(c) == c.op = "get" /\ Pin(c.n) \notin Table
\* set_port_pin asks whether the number of the pin is 0 where it means the
\* pointer: the first pin of a port is refused, and an unknown pin goes on to
\* set_pin_dir as a null pointer.
SetRefused(c) == c.op = "set" /\ Pin(c.n)[2] = 0
SetNull(c) == c.op = "set" /\ Pin(c.n)[2] # 0 /\ Pin(c.n) \notin Table

\* The call c is made; one that is refused returns at once.
BeginRefused(c) == /\ pc = "idle"
                   /\ SetRefused(c) \/ GetUnknown(c)
                   /\ call' = c
                   /\ UNCHANGED <<memory, byte, mapped>>
                   /\ Return("failed")

BeginNull(c) == /\ pc = "idle"
                /\ SetNull(c)
                /\ call' = c
                /\ pc' = "crashed"
                /\ UNCHANGED <<memory, byte, mapped, port_direction, result>>

BeginKnown(c) == /\ pc = "idle"
                 /\ ~(SetRefused(c) \/ GetUnknown(c) \/ SetNull(c))
                 /\ call' = c
                 /\ pc' = "mux"
                 /\ UNCHANGED <<memory, byte, mapped, port_direction, result>>

Begin(c) == BeginRefused(c) \/ BeginNull(c) \/ BeginKnown(c)

-----------------------------------------------------------------------------
(* The accesses.  The file is closed and the mapping stays.                 *)

Map == mapped < MaxMappings /\ mapped' = mapped + 1

\* What get_u8 may read.
Readable == IF memory = "changing" THEN Bytes ELSE {byte}

\* set_u8, and set_u32 as far as its first byte.
Write(v) == byte' = (IF memory = "kept" THEN v ELSE byte) /\ UNCHANGED memory

\* /dev/mem cannot be opened, or not be mapped any more, and the call ends.
AccessFails == /\ pc \in {"mux", "get_dir", "set_dir", "data"}
               /\ UNCHANGED <<memory, byte, mapped, call>>
               /\ Return("failed")

\* set_pin_dir: the function of the pin, meant for its multiplexer ...
WriteMux == /\ pc = "mux"
            /\ Map
            /\ Write(e[Pin(call.n)])
            /\ pc' = "get_dir"
            /\ UNCHANGED <<call, port_direction, result>>

\* ... the directions of its port ...
ReadDir == /\ pc = "get_dir"
           /\ Map
           /\ port_direction' \in Readable
           /\ pc' = "set_dir"
           /\ UNCHANGED <<memory, byte, call, result>>

\* A bit is set with |; it is cleared with & and !, which clears them all.
set_bit(b, pin, bit) == IF bit THEN b \cup {pin} ELSE {}

\* Faulty variant of WriteDir: 1 and 0 are swapped.
WriteDir_Swapped ==
    /\ pc = "set_dir"
    /\ Map
    /\ Write(set_bit(port_direction, Pin(call.n)[2], call.op = "get"))
    /\ pc' = "data"
    /\ port_direction' = {}
    /\ UNCHANGED <<call, result>>
\* ... and those with the bit of the pin: 1 for output, 0 for input.
WriteDir == /\ pc = "set_dir"
            /\ Map
            /\ Write(set_bit(port_direction, Pin(call.n)[2], call.op = "set"))
            /\ pc' = "data"
            /\ port_direction' = {}
            /\ UNCHANGED <<call, result>>

\* set_pin: all ones or all zeros, meant for a register that takes one bit.
WriteData == /\ pc = "data" /\ call.op = "set"
             /\ Map
             /\ Write(IF call.bit THEN AllOnes ELSE {})
             /\ UNCHANGED call
             /\ Return("done")

\* get_pin: the bit of the pin in what is meant for the data register.
ReadData == /\ pc = "data" /\ call.op = "get"
            /\ Map
            /\ UNCHANGED <<memory, byte, call>>
            /\ \E v \in Readable : Return(IF Pin(call.n)[2] \in v THEN "high" ELSE "low")

\* The next access of the call that runs, when it can open and map /dev/mem.
Access == WriteMux \/ ReadDir \/ WriteDir \/ WriteData \/ ReadData

-----------------------------------------------------------------------------
\* A call that is past set_port_pin and get_pin is for a pin of the table
\* (gpio.c:161-201), and no more is mapped than a process may map.
GpioTypeOK ==
    /\ memory \in {"kept", "fixed", "changing"}
    /\ byte \in Bytes
    /\ mapped \in 0 .. MaxMappings
    /\ pc \in {"idle", "mux", "get_dir", "set_dir", "data", "crashed"}
    /\ call \in Calls \cup {NoCall}
    /\ pc \in {"mux", "get_dir", "set_dir", "data"} => call \in Calls /\ Pin(call.n) \in Table
    /\ port_direction \in Bytes
    /\ result \in {"none", "failed", "done", "low", "high"}
=============================================================================
