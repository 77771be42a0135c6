------------------------------ MODULE MCEspMqtt ------------------------------
(***************************************************************************)
(* Instances of the modules of the ESPMQTT build for TLC: how it comes     *)
(* back after a loss (EspReconnect) and what it does with commands         *)
(* (EspCommands).  loop() does one and then the other, and neither reads   *)
(* what the other writes, so a behaviour is of one of them, part, and the  *)
(* other stays as it begins.                                               *)
(***************************************************************************)
EXTENDS EspReconnect

CONSTANTS Targets, Relay, Unknown, Value, None, MaxCommands    \* of EspCommands

ASSUME CommandsAssumption ==
  MaxCommands \in Nat /\ Relay \in Targets /\ Unknown \notin Targets

VARIABLES part,
          messages, dataReady, pc, state, published, received, executed, newest,
          failed, together

Commands == INSTANCE EspCommands

commandVars ==
  <<messages, dataReady, pc, state, published, received, executed, newest, failed, together>>
MCvars == <<vars, commandVars, part>>

OfReconnect(A) == part = "reconnect" /\ A /\ UNCHANGED <<commandVars, part>>
OfCommands(A)  == part = "commands" /\ A /\ UNCHANGED <<vars, part>>

MCInit == /\ part \in {"reconnect", "commands"}
          /\ Init /\ Commands!Init
          /\ part # "reconnect" => client = "connecting"
          /\ part # "commands"  => state = [t \in Targets |-> CHOOSE v \in Value : TRUE]

MCNext == OfReconnect(Next) \/ OfCommands(Commands!Next)

(* The fairness of the parts: EspReconnect!FairSpec, EspCommands!Spec.     *)
MCSpec == /\ MCInit /\ [][MCNext]_MCvars
          /\ WF_MCvars(OfReconnect(loop)) /\ WF_MCvars(OfReconnect(Tick))
          /\ WF_MCvars(OfReconnect(WifiBack))
          /\ WF_MCvars(OfReconnect(onMqttConnect)) /\ WF_MCvars(OfReconnect(onMqttDisconnect))
          /\ WF_MCvars(OfCommands(Commands!loop))

-------------------------------------------------------------------------------
(* What the last answer for a target says is still so (EspCommands).       *)
AnswersHold == Commands!AnswersHold

(* The vector of messages is used soundly (EspCommands).                   *)
QueueSound == Commands!QueueSound

(* Every accepted command is handled (EspCommands).                        *)
AllHandled == Commands!AllHandled
===============================================================================
