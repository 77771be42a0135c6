------------------------------ MODULE AtomicPoll ------------------------------
(***************************************************************************)
(* What ModbusSlaveDevice::request() (src/src/modbus.cpp) promises to the  *)
(* rest of the firmware: a poll is one indivisible step.  Either every     *)
(* register of the device shows what that poll read and the device is      *)
(* reachable, or no register shows anything and the device is not.         *)
(***************************************************************************)
EXTENDS Integers

CONSTANTS Register,     \* the addresses in the device's register table
          Unknown       \* what a register shows when it is not valid

VARIABLES done,         \* polls finished
          online,       \* isReachable()
          view,         \* view[a]: the poll whose value a shows, or Unknown
          failures      \* getErrorCount()

vars == <<done, online, view, failures>>

Init == /\ done = 0
        /\ online = FALSE
        /\ view = [a \in Register |-> Unknown]
        /\ failures = 0

(* The device answered every one of its register sets. *)
Answered == /\ done' = done + 1
            /\ online' = TRUE
            /\ view' = [a \in Register |-> done + 1]
            /\ UNCHANGED failures

(* One of the register sets could not be read. *)
NotAnswered == /\ done' = done + 1
               /\ online' = FALSE
               /\ view' = [a \in Register |-> Unknown]
               /\ failures' = failures + 1

Next == Answered \/ NotAnswered

Spec == Init /\ [][Next]_vars
===============================================================================
