---------------------------- MODULE MCModbusSlave -----------------------------
(***************************************************************************)
(* Instances of ModbusSlave for TLC.                                       *)
(***************************************************************************)
EXTENDS ModbusSlave

(* Three sets, as InverterInputValues has several; a set of two registers  *)
(* and sets of one.                                                        *)
ThreeSets == <<{3005, 3007}, {3036}, {3058}>>

MCErrors == {"InvalidSlaveID", "InvalidCRC"}

(* The bound MaxPolls ends the run, the firmware goes on: a stutter there, *)
(* so that TLC still reports every other state without a successor.        *)
BoundReached == phase = "idle" /\ polls = MaxPolls /\ UNCHANGED vars

MCSpec == Init /\ [][Next \/ BoundReached]_vars
===============================================================================
