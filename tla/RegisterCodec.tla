---------------------------- MODULE RegisterCodec -----------------------------
(***************************************************************************)
(* What the numbers of a device become on their way: words of a response   *)
(* (readRegisters), values (regToValue), published payloads                *)
(* (getRepresentation), and a command's payload the other way (getValue,   *)
(* writeHoldingRegister).  Tries and failures are in ModbusSlave and       *)
(* RegisterWrite; here every transaction succeeds.                         *)
(*                                                                         *)
(* A value is the integer the code scales: it stands for n / den.  The     *)
(* double holds every such value to the five digits that are published,    *)
(* and n * 100 / 100 for a setting.  A payload is the integer of units of  *)
(* 1 / Parts that its digits spell.  A Float stands for the number with    *)
(* its bit pattern.  WordMod is 2^16 in the code.                          *)
(***************************************************************************)
EXTENDS Integers

CONSTANTS Slaves,          \* the sets of devices that may be at the bus address
          WordMod,         \* words are 0..WordMod-1; even, at least 256
          BufferWords,     \* the response buffer of ModbusMaster, 64 words
          Patterns,        \* what the device may hold:
          Content(_, _),   \*   Content(p, a), the word at address a
          Payloads,        \* numbers a command may carry, of
          Parts,           \*   1 / Parts: "55.50" is 5550 with Parts = 100
          LongMax          \* the largest long, 2^31 - 1

VARIABLES
  slave,     \* the devices of the firmware's build
  memory,    \* what is at the bus address: type of register -> protocol address -> word or bit
  last,      \* the set that was read last, and the device: <<>> if none
  values,    \* registerValues of that set
  command    \* history: the last setting of a holding register, <<>> if none

vars == <<slave, memory, last, values, command>>

Sets(d)      == {d.sets[i] : i \in DOMAIN d.sets}
Registers(d) == UNION {s.registers : s \in Sets(d)}
Types        == {"InputRegisters", "HoldingRegisters", "DiscreteInputs"}

(* The protocol addresses that are polled.                                 *)
Window(d, s) == {s.startAddress - d.offset + i : i \in 0..(s.registerCount - 1)}
Polled(type) ==
  UNION {UNION {Window(d, s) : s \in Sets(d)} : d \in {x \in slave : x.type = type}}

Init ==
  /\ slave \in Slaves
  /\ \E p \in Patterns :
       memory = [t \in Types |-> [a \in Polled(t) |->
                   IF t = "DiscreteInputs" THEN Content(p, a) % 2 ELSE Content(p, a)]]
  /\ last = <<>> /\ values = <<>> /\ command = <<>>

-------------------------------------------------------------------------------
signed(n, mod) == IF n >= mod \div 2 THEN n - mod ELSE n

(* Defects that the run must notice; no action uses them.                  *)
bcdAsBinary(val) == val

bcdToDec(val) == (val \div 16) * 10 + (val % 16)
decToBcd(val) == ((val \div 10) * 16 + (val % 10)) % 256

(* A response of words replaces the front of the buffer, of bits its first *)
(* word; what is behind it is left of an answer before.                    *)
Stale == -1

Bits(type, a, n) ==
  LET sum[i \in 0..n] == IF i = 0 THEN 0 ELSE sum[i - 1] + memory[type][a + i - 1] * 2^(i - 1)
  IN  sum[n] % 2^16

readRegisters(d, s) ==
  LET a == s.startAddress - d.offset IN
  IF d.type = "DiscreteInputs"
  THEN [i \in 0..(BufferWords - 1) |->
          IF i = 0 THEN Bits(d.type, a, s.registerCount) ELSE Stale]
  ELSE [i \in 0..(BufferWords - 1) |->
          IF i < s.registerCount THEN memory[d.type][a + i] ELSE Stale]

(* The word that getResponseBuffer(i) returns.                             *)
getResponseBuffer(buf, i) == IF i < BufferWords THEN buf[i] ELSE WordMod - 1

regToValue(buf, offset, type) ==
  LET w(i) == getResponseBuffer(buf, i)
      long == w(offset) * WordMod + w(offset + 1)
  IN CASE type = "U16"              -> w(offset)
       [] type = "S16"              -> signed(w(offset), WordMod)
       [] type \in {"U32", "Float"} -> long
       [] type = "S32"              -> signed(long, WordMod * WordMod)
       [] type = "DI"               -> (w(0) \div 2^offset) % 2
       [] type = "BCD"              -> bcdToDec(w(offset) % 256)

(* What is published, as a number of 1 / den.                              *)
getRepresentation(n, r) ==
  CASE r.type = "U16" /\ r.den = 1 -> n % WordMod
    [] r.type = "S16" /\ r.den = 1 -> signed(n % WordMod, WordMod)
    [] r.type = "BCD"              -> n % 256
    [] r.type = "DI"               -> IF n = 0 THEN 0 ELSE 1
    [] OTHER                       -> n

(* strtol stops at the decimal point, so that a fraction is lost, and      *)
(* keeps to the range of a long.                                           *)
strtol(payload) ==
  LET digits == IF payload >= 0 THEN payload \div Parts ELSE -((-payload) \div Parts)
  IN  IF digits > LongMax THEN LongMax ELSE IF digits < -LongMax THEN -LongMax - 1 ELSE digits

(* Defect: the setting is not scaled.                                      *)
getValueUnscaled(r, payload) ==
  {IF r.type = "BCD" THEN decToBcd(strtol(payload) % 256) ELSE strtol(payload) % WordMod}

(* What may be written for a payload.  A scaled number that is no uint16_t *)
(* becomes any.                                                            *)
getValue(r, payload) ==
  LET value  == strtol(payload)
      scaled == value * r.den
  IN CASE r.type = "BCD"              -> {decToBcd(value % 256)}
       [] r.type # "BCD" /\ r.den = 1 -> {value % WordMod}
       [] r.type # "BCD" /\ r.den # 1 ->
            IF scaled \in 0..(WordMod - 1) THEN {scaled}
            ELSE {0, scaled % WordMod, WordMod - 1}

-------------------------------------------------------------------------------
(* One turn of readRegisterSet for a set that is answered.                 *)
ReadSet(d, s) ==
  /\ last' = <<d, s>>
  /\ LET buf == readRegisters(d, s) IN
     values' = [r \in s.registers |-> regToValue(buf, r.address - s.startAddress, r.type)]
  /\ UNCHANGED <<slave, memory, command>>

(* writePayload for one register.  It is subscribed to, and writes a       *)
(* holding register, whatever the type of the device's registers is; an    *)
(* address that is no holding register is refused by the device.           *)
WriteRegister(d, r, payload) ==
  /\ \E n \in getValue(r, payload) :
       memory' = [memory EXCEPT !["HoldingRegisters"] =
                    [a \in DOMAIN @ |-> IF a = r.address - d.offset THEN n ELSE @[a]]]
  /\ command' = IF d.type = "HoldingRegisters" THEN <<d, r, payload>> ELSE command
  /\ last' = <<>> /\ values' = <<>>
  /\ UNCHANGED slave

Next ==
  \E d \in slave :
    \/ \E s \in Sets(d) : ReadSet(d, s)
    \/ \E r \in Registers(d), payload \in Payloads : WriteRegister(d, r, payload)

Spec == Init /\ [][Next]_vars

-------------------------------------------------------------------------------
(* What the device holds in a register, by the manufacturer's convention:  *)
(* register r is at protocol address r - offset, the high word first.      *)
Held(d, r) ==
  LET a == r.address - d.offset
      m == memory[d.type]
  IN CASE r.type \in {"U16", "DI"}    -> m[a]
       [] r.type = "S16"              -> IF 2 * m[a] < WordMod THEN m[a] ELSE m[a] - WordMod
       [] r.type \in {"U32", "Float"} -> WordMod * m[a] + m[a + 1]
       [] r.type = "S32"              -> (IF 2 * m[a] < WordMod THEN m[a] ELSE m[a] - WordMod) * WordMod
                                         + m[a + 1]
       [] r.type = "BCD"              -> 10 * ((m[a] % 256) \div 16) + (m[a] % 16)

(* Every register of every set is published as what the device holds in    *)
(* it: the windows of the tables contain their registers whole, the        *)
(* discrete inputs of a set fit the first word of the answer, and nothing  *)
(* is left of the answer before.                                           *)
PublishedIsHeld ==
  last # <<>> =>
    \A r \in last[2].registers : getRepresentation(values[r], r) = Held(last[1], r)

(* The poll after a command shows the number that was commanded, without  *)
(* the fraction it may have had, if the register can hold it: getValue and *)
(* writeHoldingRegister undo what readRegisters and regToValue do, and     *)
(* commands for registers of other types in between do not hit it.  The    *)
(* "55.50000" that is published of a register with two decimals is 55      *)
(* again when it comes back as a command, never 55.5.                      *)
Whole(payload) == payload \div Parts

Settable(r, payload) ==
  /\ payload >= 0
  /\ Whole(payload) * r.den <= IF r.type = "BCD" THEN 99 ELSE WordMod - 1

CommandIsShown ==
  last # <<>> /\ command # <<>> /\ last[1] = command[1] /\ command[2] \in last[2].registers =>
    LET r == command[2]  payload == command[3] IN
    last[1].type = "HoldingRegisters" /\ Settable(r, payload)
      => getRepresentation(values[r], r) = Whole(payload) * r.den
===============================================================================
