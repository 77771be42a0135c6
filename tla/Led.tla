--------------------------------- MODULE Led ----------------------------------
(***************************************************************************)
(* The two status LEDs (src/src/led.cpp) as functions on their state, a    *)
(* record l of                                                             *)
(*   yellow, blue       the pins; the code's green LED is the blue pin     *)
(*   nightBlinkEnabled  the flag of that name                              *)
(*   armed              whether the SDK timer Timer1 is running            *)
(*   cnt                _cnt, ticks of Timer1 since the last flash         *)
(***************************************************************************)
EXTENDS Naturals

CONSTANT BlinkPause     \* ticks of Timer1 the blue LED stays dark, 40

ASSUME BlinkPauseAssumption == BlinkPause \in Nat

LOW  == 0
HIGH == 1

LedState == [yellow : {LOW, HIGH}, blue : {LOW, HIGH},
             nightBlinkEnabled : BOOLEAN, armed : BOOLEAN, cnt : 0..BlinkPause]

(* LED::begin, on the zero-initialised globals.                            *)
ledBegin == [yellow |-> LOW, blue |-> LOW, nightBlinkEnabled |-> FALSE,
             armed |-> FALSE, cnt |-> 0]

yellowOn(l)  == [l EXCEPT !.yellow = HIGH]
yellowOff(l) == [l EXCEPT !.yellow = LOW]
greenOn(l)   == [l EXCEPT !.blue = HIGH]
greenOff(l)  == [l EXCEPT !.blue = LOW]

blinkTimerCallback(l) ==
  IF l.cnt < BlinkPause THEN [l EXCEPT !.cnt = @ + 1, !.blue = LOW]
                        ELSE [l EXCEPT !.cnt = 0,     !.blue = HIGH]

(* _cnt is not reset: the first dark phase may be a short one.             *)
enableNightBlink(l) == [l EXCEPT !.nightBlinkEnabled = TRUE,
                                 !.armed = @ \/ ~l.nightBlinkEnabled]

disableNightblink(l) ==
  IF l.nightBlinkEnabled
    THEN [l EXCEPT !.nightBlinkEnabled = FALSE, !.armed = FALSE, !.blue = LOW]
    ELSE l
===============================================================================
