----------------------------- MODULE ModbusSlave ------------------------------
(***************************************************************************)
(* One ModbusSlaveDevice (src/src/modbus.cpp) being polled by request().   *)
(* A step is one transaction on the RS485 bus and what the code does with  *)
(* its outcome up to the next one.  The delays between transactions let    *)
(* callbacks run, but none of them touches a device, so they are no steps. *)
(*                                                                         *)
(* A register's content is abstracted to the number of the poll that read  *)
(* it; 0 is the 0.0 that initRegisters stores.                             *)
(***************************************************************************)
EXTENDS Integers

CONSTANTS NumSets,                \* register sets in the device's table
          RegisterSets,           \* RegisterSets[i]: addresses in the i-th set
          maxModbusReadRetries,   \* tries for one set, the first one included
          Errors,                 \* ModbusMaster results but Success, TimedOut
          Unknown,                \* what a register that is not valid shows
          MaxPolls                \* bound: calls of request()

ASSUME TableAssumption ==
  /\ NumSets \in Nat \ {0}
  /\ DOMAIN RegisterSets = 1..NumSets
ASSUME RetriesAssumption == maxModbusReadRetries \in Nat \ {0}
ASSUME ErrorsAssumption ==
  "InvalidSlaveID" \in Errors /\ {"Success", "TimedOut"} \cap Errors = {}
ASSUME PollsAssumption == MaxPolls \in Nat
ASSUME UnknownAssumption == Unknown \notin Nat

VARIABLES
  phase,          \* "idle", or "reading" inside request()
  irsPos,         \* the register set being read
  retries,        \* tries left for it
  value, valid,   \* registerValues
  reachable, result, lastResult, retriesNeeded, errorCount,   \* members
  polls,          \* history: calls of request() so far
  transactions    \* history: bus transactions in this call of request()

device == <<value, valid, reachable, result, lastResult, retriesNeeded, errorCount>>
vars   == <<phase, irsPos, retries, device, polls, transactions>>

Register  == UNION {RegisterSets[i] : i \in 1..NumSets}
Results   == {"Success", "TimedOut"} \cup Errors
BusBudget == NumSets * maxModbusReadRetries

-------------------------------------------------------------------------------
(* Defects that the runs must notice; no action uses them.                 *)
LastSetSkipped       == NumSets - 1
NothingInvalidated   == valid

(* while (retries > 0 && timeout), asked after the decrement.              *)
TryLeft == retries > 1

TriesNeeded == maxModbusReadRetries - (retries - 1)

(* The set before the table's terminator.                                  *)
LastSet == NumSets

(* irsPos++ *)
NextSet == irsPos + 1

invalidateRegisters == [a \in Register |-> FALSE]

-------------------------------------------------------------------------------
Init == /\ phase = "idle"
        /\ irsPos = 1
        /\ retries = maxModbusReadRetries
        /\ value = [a \in Register |-> 0]
        /\ valid = [a \in Register |-> FALSE]
        /\ reachable = FALSE
        /\ result = "Success"
        /\ lastResult = "InvalidSlaveID"
        /\ retriesNeeded = 0
        /\ errorCount = 0
        /\ polls = 0
        /\ transactions = 0

(* The history of the bus, kept finite one above the budget it must obey. *)
Transact == transactions' = IF transactions > BusBudget THEN transactions
                                                        ELSE transactions + 1

(* request() starts: the result of the previous poll is put aside. *)
Request ==
  /\ phase = "idle"
  /\ polls < MaxPolls
  /\ phase' = "reading"
  /\ lastResult' = result
  /\ polls' = polls + 1
  /\ transactions' = 0
  /\ UNCHANGED <<irsPos, retries, value, valid, reachable, result,
                 retriesNeeded, errorCount>>

(* No answer in time, and a try is left for the same set. *)
TimeoutAndRetry ==
  /\ phase = "reading"
  /\ TryLeft
  /\ result' = "TimedOut"
  /\ retries' = retries - 1
  /\ Transact
  /\ UNCHANGED <<phase, irsPos, value, valid, reachable, lastResult,
                 retriesNeeded, errorCount, polls>>

(* The answer to the current set is stored, register by register. *)
StoreSet ==
  /\ phase = "reading"
  /\ result' = "Success"
  /\ retriesNeeded' = TriesNeeded
  /\ value' = [a \in Register |-> IF a \in RegisterSets[irsPos] THEN polls
                                                                ELSE value[a]]
  /\ valid' = [a \in Register |-> a \in RegisterSets[irsPos] \/ valid[a]]
  /\ retries' = maxModbusReadRetries
  /\ Transact
  /\ UNCHANGED <<lastResult, errorCount, polls>>

ReadSet ==
  /\ StoreSet
  /\ irsPos < LastSet
  /\ irsPos' = NextSet
  /\ UNCHANGED <<phase, reachable>>

ReadLastSet ==
  /\ StoreSet
  /\ irsPos = LastSet
  /\ irsPos' = 1
  /\ phase' = "idle"
  /\ reachable' = TRUE

(* A result that is not retried: any error, or the time-out of the last    *)
(* try.  The other sets are not asked and request() invalidates the device.*)
GiveUp(r) ==
  /\ phase = "reading"
  /\ r = "TimedOut" => ~TryLeft
  /\ result' = r
  /\ retriesNeeded' = TriesNeeded
  /\ errorCount' = errorCount + 1
  /\ valid' = invalidateRegisters
  /\ reachable' = FALSE
  /\ phase' = "idle"
  /\ irsPos' = 1
  /\ retries' = maxModbusReadRetries
  /\ Transact
  /\ UNCHANGED <<value, lastResult, polls>>

Step == \/ TimeoutAndRetry
        \/ ReadSet
        \/ ReadLastSet
        \/ \E r \in Results \ {"Success"} : GiveUp(r)

Next == Request \/ Step

Spec == Init /\ [][Next]_vars

-------------------------------------------------------------------------------
(* The values every variable stays in. *)
TypeOK ==
  /\ phase \in {"idle", "reading"}
  /\ irsPos \in 1..NumSets
  /\ retries \in 1..maxModbusReadRetries
  /\ value \in [Register -> Nat]
  /\ valid \in [Register -> BOOLEAN]
  /\ reachable \in BOOLEAN
  /\ result \in Results
  /\ lastResult \in Results
  /\ retriesNeeded \in 0..maxModbusReadRetries
  /\ errorCount \in Nat
  /\ polls \in 0..MaxPolls
  /\ transactions \in Nat

(* Between polls a reachable device shows nothing but what its latest poll *)
(* read: no register of an earlier poll survives in it, however many tries *)
(* and earlier failures there were (registerValues after request()).       *)
NoStaleRegister ==
  phase = "idle" /\ reachable =>
    \A a \in Register : valid[a] /\ value[a] = polls

(* Between polls an unreachable device has no valid register: the sets     *)
(* that were read before the failing one are invalidated with the rest.    *)
NoTornRegister ==
  phase = "idle" /\ ~reachable => \A a \in Register : ~valid[a]

(* What is published next to the values agrees: online with the last       *)
(* result, and a device is reported as timed out only after all its tries. *)
StatusAgrees ==
  phase = "idle" /\ polls > 0 =>
    /\ reachable <=> result = "Success"
    /\ result = "TimedOut" => retriesNeeded = maxModbusReadRetries
    /\ retriesNeeded > 0

(* What a reader finds between polls is the outcome of one poll and says   *)
(* which: values of the latest one, or none, and the status that goes with *)
(* them, whatever tries and failures request() went through.               *)
ShowsOnePoll == NoStaleRegister /\ NoTornRegister /\ StatusAgrees

(* A poll of an absent or half-dead device holds the processor for at most *)
(* maxModbusReadRetries transactions of each set.                          *)
BusBounded == transactions <= BusBudget

-------------------------------------------------------------------------------
(* Readers of a device run between polls.  While one is running they have  *)
(* last seen the outcome of the poll before.                               *)
Seen ==
  IF phase = "idle" THEN [a \in Register |-> IF valid[a] THEN value[a] ELSE Unknown]
                    ELSE [a \in Register |-> IF reachable THEN polls - 1 ELSE Unknown]

Abstract == INSTANCE AtomicPoll WITH
  done <- IF phase = "idle" THEN polls ELSE polls - 1,
  online <- reachable,
  view <- Seen,
  failures <- errorCount

(* Every poll is indivisible for its readers (AtomicPoll).                 *)
PollIsAtomic == Abstract!Spec
===============================================================================
