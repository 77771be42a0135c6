------------------------------ MODULE MCMainLoop ------------------------------
(***************************************************************************)
(* Instances of MainLoop for TLC.                                          *)
(***************************************************************************)
EXTENDS MainLoop, TLC

CONSTANTS pw,           \* a device of modbusSlavesPower
          in, hr        \* devices of modbusSlavesOther

OnePower == <<pw>>
OneOther == <<in>>
TwoOther == <<in, hr>>

OneRegister == [d \in {pw, in} |-> 1]
SomeRegisters == pw :> 1 @@ in :> 2 @@ hr :> 0
===============================================================================
