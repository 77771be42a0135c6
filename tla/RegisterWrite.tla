---------------------------- MODULE RegisterWrite -----------------------------
(***************************************************************************)
(* A command for a holding register: writePayload() (src/src/mqtt.cpp)     *)
(* with the retries of ModbusSlaveDevice::writeHoldingRegister             *)
(* (src/src/modbus.cpp), and the register in the device.                   *)
(*                                                                         *)
(* A step is one transaction on the bus and what the code does with its    *)
(* outcome up to the next one.  Commands run inside MQTTClient.loop(), one *)
(* after the other and never during a poll.  The value that getValue()     *)
(* makes of the payload is the command here.                               *)
(***************************************************************************)
EXTENDS Integers

CONSTANTS Value,                  \* what a holding register can hold
          maxModbusReadRetries,   \* tries, the first one included
          Refusals,               \* exceptions a device answers instead
          Garbled,                \* errors in an answer, whatever it said
          MaxCommands             \* bound: commands received

ASSUME ValueAssumption == Value # {}
ASSUME RetriesAssumption == maxModbusReadRetries \in Nat \ {0}
ASSUME ErrorsAssumption ==
  /\ {"Success", "TimedOut"} \cap (Refusals \cup Garbled) = {}
  /\ Refusals \cap Garbled = {}
ASSUME CommandsAssumption == MaxCommands \in Nat

VARIABLES
  phase,          \* "idle", or "writing" inside writeHoldingRegister
  value,          \* value to write
  retries,        \* tries left
  holding,        \* the register in the device
  answer,         \* result in the latest message on the result topic
  applied,        \* history: the device has taken this command's value
  before,         \* history: the register when this command came
  timedOut,       \* history: a try of this command timed out
  commands,       \* history: commands received so far
  answers,        \* history: results published so far
  transactions    \* history: bus transactions of this command

vars == <<phase, value, retries, holding, answer, applied, before, timedOut,
          commands, answers, transactions>>

Results == {"Success", "TimedOut"} \cup Refusals \cup Garbled

-------------------------------------------------------------------------------
(* Defects that the runs must notice; no action uses them.                 *)
RetriedOnAnyError(r) == r # "Success"
ShadowedResult(r)    == "Success"

(* while (retries > 0 && timeout), asked after the decrement.              *)
TryLeft == retries > 1

OneTryLess == retries - 1

(* timeout = result == ku8MBResponseTimedOut                               *)
Retried(r) == r = "TimedOut"

(* What writeHoldingRegister returns: the result of the last try.          *)
Returned(r) == r

-------------------------------------------------------------------------------
Init == /\ phase = "idle"
        /\ value \in Value
        /\ retries = maxModbusReadRetries
        /\ holding \in Value
        /\ answer = "none"
        /\ applied = FALSE
        /\ before = holding
        /\ timedOut = FALSE
        /\ commands = 0 /\ answers = 0 /\ transactions = 0

(* A message on the set topic of a register that the device has.           *)
writePayload(v) ==
  /\ phase = "idle"
  /\ commands < MaxCommands
  /\ phase' = "writing"
  /\ value' = v
  /\ retries' = maxModbusReadRetries
  /\ commands' = commands + 1
  /\ before' = holding
  /\ applied' = FALSE
  /\ timedOut' = FALSE
  /\ transactions' = 0
  /\ UNCHANGED <<holding, answer, answers>>

(* What the device and the wire make of a request: it is carried out or    *)
(* not, and the result the client gets for it.                             *)
CarriedOut == holding' = value /\ applied' = TRUE
Ignored    == UNCHANGED <<holding, applied>>

Outcome(r) == \/ r = "Success" /\ CarriedOut
              \/ r \in Refusals /\ Ignored
              \/ r \in Garbled \cup {"TimedOut"} /\ (CarriedOut \/ Ignored)

(* The histories of the bus; the number starts again one above the most it *)
(* may reach.                                                              *)
Transact(r) ==
  /\ Outcome(r)
  /\ timedOut' = (timedOut \/ r = "TimedOut")
  /\ transactions' = IF transactions > maxModbusReadRetries THEN 0 ELSE transactions + 1

(* No answer in time, and a try is left: the same request again.           *)
Retry(r) ==
  /\ phase = "writing"
  /\ Retried(r) /\ TryLeft
  /\ Transact(r)
  /\ retries' = OneTryLess
  /\ UNCHANGED <<phase, value, answer, before, commands, answers>>

(* The result is published, whatever it is.                                *)
Publish(r) ==
  /\ phase = "writing"
  /\ ~(Retried(r) /\ TryLeft)
  /\ Transact(r)
  /\ phase' = "idle"
  /\ retries' = OneTryLess
  /\ answer' = Returned(r)
  /\ answers' = answers + 1
  /\ UNCHANGED <<value, before, commands>>

Step == \E r \in Results : Retry(r) \/ Publish(r)

Next == (\E v \in Value : writePayload(v)) \/ Step

Spec == Init /\ [][Next]_vars

-------------------------------------------------------------------------------
(* The values every variable stays in.                                     *)
TypeOK ==
  /\ phase \in {"idle", "writing"}
  /\ value \in Value
  /\ retries \in 0..maxModbusReadRetries
  /\ holding \in Value
  /\ answer \in Results \cup {"none"}
  /\ applied \in BOOLEAN
  /\ before \in Value
  /\ timedOut \in BOOLEAN
  /\ commands \in 0..MaxCommands
  /\ answers \in Nat
  /\ transactions \in 0..(maxModbusReadRetries + 1)

(* A command that was answered with success is in the device, whichever of *)
(* its tries was the one that got through (writeHoldingRegister's result). *)
SuccessIsTrue ==
  phase = "idle" /\ answer = "Success" => holding = value

(* A command that was refused has changed nothing, unless one of its tries *)
(* timed out before: only then is a request repeated that may have taken   *)
(* effect already (the loop's condition on the result).                    *)
RefusalIsTrue ==
  phase = "idle" /\ answer \in Refusals /\ ~timedOut => holding = before

(* What the sender of a command is told of it is true (writePayload sends  *)
(* the result that writeHoldingRegister returns).                          *)
AnswerIsTrue == SuccessIsTrue /\ RefusalIsTrue

(* A command holds the processor, and keeps the polls off the bus, for at  *)
(* most maxModbusReadRetries transactions.                                 *)
WriteIsBounded == transactions <= maxModbusReadRetries

-------------------------------------------------------------------------------
Abstract == INSTANCE AtomicWrite WITH
  state <- IF phase = "idle" THEN "idle" ELSE IF applied THEN "effective" ELSE "asked",
  wanted <- value,
  register <- holding

(* Retries do not show: a command takes effect at most once, before its    *)
(* only answer, and success is answered after the effect (AtomicWrite).    *)
WriteIsAtomic == Abstract!Spec
===============================================================================
