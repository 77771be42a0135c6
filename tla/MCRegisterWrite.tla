--------------------------- MODULE MCRegisterWrite ----------------------------
(***************************************************************************)
(* Instances for TLC of the two halves of a command to a register: its     *)
(* tries on the bus (RegisterWrite), and the numbers it and the published  *)
(* values go through (RegisterCodec, with the tables of the firmware).     *)
(* RegisterWrite's values stand for whatever numbers were computed, so a   *)
(* behaviour is of one half, part, and the other stays as it begins.       *)
(***************************************************************************)
EXTENDS RegisterWrite, RegisterTables

CONSTANTS Slaves, WordMod, BufferWords, Patterns, Content(_, _), Payloads, Parts, LongMax

VARIABLES part, slave, memory, last, values, command

Codec == INSTANCE RegisterCodec

(* Words have an even number of values, and room for a byte; a long has    *)
(* room for a word.                                                        *)
ASSUME WordAssumption ==
  /\ WordMod \in Nat /\ WordMod >= 256 /\ WordMod % 2 = 0
  /\ BufferWords \in Nat \ {0} /\ Payloads \subseteq Int
  /\ Parts \in Nat \ {0} /\ LongMax \in Nat /\ LongMax >= WordMod - 1

(* The tables: the window of a set contains its registers whole and fits   *)
(* the buffer, for discrete inputs its first word.  Holding registers are  *)
(* single words without a sign.                                            *)
Width(type) == IF type \in {"U32", "S32", "Float"} THEN 2 ELSE 1

ASSUME TablesAssumption ==
  \A devices \in Slaves : \A d \in devices :
    /\ d.type \in Codec!Types /\ d.offset \in Int
    /\ \A s \in Codec!Sets(d) :
         /\ s.startAddress \in Int
         /\ s.registerCount \in 1..(IF d.type = "DiscreteInputs" THEN 16 ELSE BufferWords)
         /\ \A r \in s.registers :
              /\ r.address - s.startAddress \in 0..(s.registerCount - Width(r.type))
              /\ r.address \in Int /\ r.den \in Nat \ {0}
              /\ r.type = "BCD" => r.den = 1
              /\ r.type \in CASE d.type = "DiscreteInputs"   -> {"DI"}
                               [] d.type = "HoldingRegisters" -> {"U16", "BCD"}
                               [] d.type = "InputRegisters"   ->
                                    {"U16", "S16", "U32", "S32", "Float", "BCD"}

(* The address of no other register of a device is a holding register's.   *)
ASSUME AddressesAssumption ==
  \A devices \in Slaves : \A d \in devices, e \in devices :
    d.type = "HoldingRegisters" /\ e.type # "HoldingRegisters" =>
      \A r \in Codec!Registers(d), x \in Codec!Registers(e) :
        r.address - d.offset # x.address - e.offset

(* What a device holds in its registers are words.                         *)
ASSUME ContentAssumption ==
  \A devices \in Slaves : \A d \in devices : \A s \in Codec!Sets(d), p \in Patterns :
    \A a \in Codec!Window(d, s) : Content(p, a) \in 0..(WordMod - 1)

-------------------------------------------------------------------------------
(* The values of the constants in the run: the devices of each build, and  *)
(* memories in which neighbouring words and bits differ.  TLC's integers   *)
(* have 32 bits, so a word has 15.                                         *)
MCRefusals == {"IllegalDataValue"}
MCGarbled  == {"InvalidCRC"}
MCSlaves   == {InverterDevices, EnergyMonitorDevices}
MCContent(p, a) == ((a % 3000) * 10007 + p * 7919) % 2^15
(* Hundredths: whole numbers up to both sides of the limits of the         *)
(* registers, fractions, and numbers beyond both ends of a long.           *)
MCPayloads ==
  {n * 100 : n \in {-2000000, -1, 0, 1, 9, 10, 30, 55, 99, 100, 255, 327, 328, 2000000}}
    \cup {-150, -50, 50, 5550, 9999, 32799}

codecVars == <<slave, memory, last, values, command>>
MCvars    == <<vars, codecVars, part>>

(* The bound MaxCommands ends the run, the firmware goes on: a stutter     *)
(* there, so that TLC still reports every other state without a successor. *)
BoundReached == phase = "idle" /\ commands = MaxCommands /\ UNCHANGED vars

MCInit ==
  /\ part \in {"write", "codec"}
  /\ Init /\ Codec!Init
  /\ part # "write" => \A v \in Value : value <= v /\ holding <= v

MCNext ==
  \/ part = "write" /\ (Next \/ BoundReached) /\ UNCHANGED <<codecVars, part>>
  \/ part = "codec" /\ Codec!Next /\ UNCHANGED <<vars, part>>

MCSpec == MCInit /\ [][MCNext]_MCvars

-------------------------------------------------------------------------------
(* Every register is published as what the device holds (RegisterCodec).   *)
PublishedIsHeld == Codec!PublishedIsHeld

(* The poll after a command shows what was commanded (RegisterCodec).      *)
CommandIsShown == Codec!CommandIsShown
===============================================================================
