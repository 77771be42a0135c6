---------------------------- MODULE RegisterTables ----------------------------
(***************************************************************************)
(* The register tables of inverter.cpp and energymonitor.cpp (the SDM120;  *)
(* the Countis tables are not compiled) and the devices made of them.      *)
(* Topics are the addresses, and what the dashboard shows is left out.     *)
(***************************************************************************)
EXTENDS Naturals

(* A register; its scale is 1 / den.  A register set.                      *)
Reg(a, type, den)   == [address |-> a, type |-> type, den |-> den]
Regs(as, type, den) == {Reg(a, type, den) : a \in as}
Set(start, count, registers) ==
  [startAddress |-> start, registerCount |-> count, registers |-> registers]

-------------------------------------------------------------------------------
regF1 == Regs({3005, 3007}, "U32", 1)
regF2 == Regs({3056, 3058}, "S32", 1)
inverterRegistersPower == <<Set(3005, 4, regF1), Set(3056, 4, regF2)>>

regS1 == Regs({3009, 3011, 3013}, "U32", 1) \cup Regs({3015, 3016}, "U16", 10)
regS2 == Regs({3022, 3023}, "U16", 10)
regS3 == Regs({3036, 3039, 3042}, "U16", 10) \cup Regs({3041}, "U16", 1)
         \cup Regs({3043, 3050}, "U16", 100) \cup Regs({3045, 3047}, "S32", 1)
regS5 == Regs(3067..3072, "U16", 1)
inverterRegistersInput ==
  <<Set(3009, 8, regS1), Set(3022, 2, regS2), Set(3036, 15, regS3), Set(3067, 6, regS5)>>

regW1 == Regs({3052}, "U16", 100)
inverterHoldingRegisters == <<Set(3052, 1, regW1)>>

regD1 == Regs(2501..2510, "DI", 1)
regD2 == Regs(2566..2573, "DI", 1)
inverterDiscreteInputRegisters == <<Set(2501, 10, regD1), Set(2566, 8, regD2)>>

-------------------------------------------------------------------------------
regP1 == Regs({13, 19, 25}, "Float", 1)
energyMonitorRegistersPower == <<Set(13, 14, regP1)>>

regE1 == Regs({1, 7}, "Float", 1)
regE2 == Regs({31}, "Float", 1)
regE3 == Regs({71, 73, 75, 77, 79}, "Float", 1)
regE4 == Regs({343, 345}, "Float", 1)
energyMonitorRegistersInput ==
  <<Set(1, 8, regE1), Set(31, 2, regE2), Set(71, 10, regE3), Set(343, 4, regE4)>>

regWE1 == Regs({63745}, "BCD", 1)
energyMonitorHoldingRegisters == <<Set(63745, 1, regWE1)>>

-------------------------------------------------------------------------------
(* A ModbusSlaveDevice: its sets, its getRegisterType() and                *)
(* getAddressOffset().                                                     *)
Device(sets, type, offset) == [sets |-> sets, type |-> type, offset |-> offset]

InverterDevices ==
  {Device(inverterRegistersPower, "InputRegisters", 1),
   Device(inverterRegistersInput, "InputRegisters", 1),
   Device(inverterHoldingRegisters, "HoldingRegisters", 1),
   Device(inverterDiscreteInputRegisters, "DiscreteInputs", 0)}

(* With enmonHR, which main.cpp makes but leaves out of its lists.         *)
EnergyMonitorDevices ==
  {Device(energyMonitorRegistersPower, "InputRegisters", 1),
   Device(energyMonitorRegistersInput, "InputRegisters", 1),
   Device(energyMonitorHoldingRegisters, "HoldingRegisters", 1)}
===============================================================================
