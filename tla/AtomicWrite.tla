----------------------------- MODULE AtomicWrite ------------------------------
(***************************************************************************)
(* What a command to set a holding register promises to the one who sent   *)
(* it: it takes effect once or not at all, is answered once, and an answer *)
(* of success comes after the effect.                                      *)
(***************************************************************************)
EXTENDS Integers

CONSTANTS Value,        \* what a holding register can hold
          Results       \* what is answered

VARIABLES state,        \* "idle", "asked" or "effective"
          wanted,       \* the value of the latest command
          register,     \* the content of the holding register
          answers,      \* commands answered
          answer        \* the latest answer

vars == <<state, wanted, register, answers, answer>>

Init == /\ state = "idle"
        /\ wanted \in Value
        /\ register \in Value
        /\ answers = 0
        /\ answer = "none"

Ask(v) == /\ state = "idle"
          /\ state' = "asked"
          /\ wanted' = v
          /\ UNCHANGED <<register, answers, answer>>

TakeEffect == /\ state = "asked"
              /\ state' = "effective"
              /\ register' = wanted
              /\ UNCHANGED <<wanted, answers, answer>>

(* The effect may come with the answer.                                     *)
Answer(r) == /\ state \in {"asked", "effective"}
             /\ register' \in IF state = "asked" THEN {register, wanted} ELSE {register}
             /\ r = "Success" => register' = wanted
             /\ state' = "idle"
             /\ answers' = answers + 1
             /\ answer' = r
             /\ UNCHANGED wanted

Next == \/ \E v \in Value : Ask(v)
        \/ TakeEffect
        \/ \E r \in Results : Answer(r)

Spec == Init /\ [][Next]_vars
===============================================================================
