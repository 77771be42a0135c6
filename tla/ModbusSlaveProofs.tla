-------------------------- MODULE ModbusSlaveProofs ---------------------------
(***************************************************************************)
(* Theorems about ModbusSlave, for every register table, number of tries   *)
(* and number of polls.                                                    *)
(***************************************************************************)
EXTENDS ModbusSlave, TLAPS

(* What a poll has achieved while it is under way: every set before irsPos *)
(* has been read by this very poll.                                        *)
Progress ==
  phase = "reading" =>
    /\ polls > 0
    /\ \A i \in 1..(irsPos - 1) : \A a \in RegisterSets[i] :
         valid[a] /\ value[a] = polls

(* Tries used so far: all of them at most for each set already read, and   *)
(* those that are missing from retries for the current one.                *)
BudgetLeft ==
  phase = "reading" =>
    transactions <= (irsPos - 1) * maxModbusReadRetries
                    + (maxModbusReadRetries - retries)

(* The next poll starts with the first set and with all tries.             *)
LocalsAtRest ==
  phase = "idle" => irsPos = 1 /\ retries = maxModbusReadRetries

IInv == /\ TypeOK
        /\ Progress
        /\ NoStaleRegister
        /\ NoTornRegister
        /\ StatusAgrees
        /\ LocalsAtRest
        /\ BudgetLeft
        /\ BusBounded

-------------------------------------------------------------------------------
USE DEF TryLeft, NextSet, TriesNeeded, LastSet, invalidateRegisters

(* A register belongs to one of the sets of the table.                     *)
LEMMA RegisterInSet ==
  ASSUME NEW a \in Register
  PROVE  \E i \in 1..NumSets : a \in RegisterSets[i]
BY DEF Register

(* The budget of one more set is part of the budget of the table.          *)
LEMMA BudgetOfPrefix ==
  ASSUME NEW n \in Nat, NEW i \in 1..n, NEW m \in Nat
  PROVE  /\ (i - 1) * m \in Nat
         /\ i * m \in Nat
         /\ i * m = (i - 1) * m + m
         /\ i * m <= n * m
OBVIOUS

(* The initial state satisfies the invariant.                              *)
LEMMA InitInv == Init => IInv
<1> SUFFICES ASSUME Init PROVE IInv
  OBVIOUS
<1> USE TableAssumption, RetriesAssumption, ErrorsAssumption, PollsAssumption
<1>1. TypeOK
  <2>1. irsPos \in 1..NumSets /\ retries \in 1..maxModbusReadRetries
    BY DEF Init
  <2>2. value \in [Register -> Nat] /\ valid \in [Register -> BOOLEAN]
    BY DEF Init
  <2>3. result \in Results /\ lastResult \in Results
    BY DEF Init, Results
  <2>4. retriesNeeded \in 0..maxModbusReadRetries /\ polls \in 0..MaxPolls
    BY DEF Init
  <2> QED
    BY <2>1, <2>2, <2>3, <2>4 DEF Init, TypeOK
<1>2. Progress /\ NoStaleRegister /\ NoTornRegister /\ StatusAgrees /\ LocalsAtRest
  BY DEF Init, Progress, NoStaleRegister, NoTornRegister, StatusAgrees, LocalsAtRest
<1>3. BudgetLeft /\ BusBounded
  BY DEF Init, BudgetLeft, BusBounded, BusBudget
<1> QED
  BY <1>1, <1>2, <1>3 DEF IInv

(* Every step keeps the types.                                             *)
LEMMA TypeStep == TypeOK /\ [Next]_vars => TypeOK'
<1> SUFFICES ASSUME TypeOK, [Next]_vars PROVE TypeOK'
  OBVIOUS
<1> USE TableAssumption, RetriesAssumption, ErrorsAssumption, PollsAssumption
<1>0. transactions' \in Nat \/ ~Transact
  BY DEF TypeOK, Transact
<1>1. CASE Request
  BY <1>1 DEF TypeOK, Request
<1>2. CASE TimeoutAndRetry
  BY <1>0, <1>2 DEF TypeOK, TimeoutAndRetry, Results
<1>3. ASSUME StoreSet
      PROVE  /\ retriesNeeded' \in 0..maxModbusReadRetries
             /\ value' \in [Register -> Nat]
             /\ valid' \in [Register -> BOOLEAN]
             /\ result' \in Results
             /\ transactions' \in Nat
  <2>1. retriesNeeded' \in 0..maxModbusReadRetries
    BY <1>3 DEF StoreSet, TypeOK
  <2>2. value' \in [Register -> Nat]
    BY <1>3 DEF StoreSet, TypeOK
  <2>3. valid' \in [Register -> BOOLEAN]
    BY <1>3 DEF StoreSet, TypeOK
  <2>4. result' \in Results
    BY <1>3 DEF StoreSet, Results
  <2> QED
    BY <1>0, <1>3, <2>1, <2>2, <2>3, <2>4 DEF StoreSet
<1>4. CASE ReadSet
  BY <1>3, <1>4 DEF TypeOK, ReadSet, StoreSet
<1>5. CASE ReadLastSet
  BY <1>3, <1>5 DEF TypeOK, ReadLastSet, StoreSet
<1>6. ASSUME NEW r \in Results \ {"Success"}, GiveUp(r) PROVE TypeOK'
  <2>1. retriesNeeded' \in 0..maxModbusReadRetries /\ irsPos' \in 1..NumSets
    BY <1>6 DEF TypeOK, GiveUp
  <2>2. valid' \in [Register -> BOOLEAN] /\ reachable' \in BOOLEAN
    BY <1>6 DEF GiveUp
  <2>3. errorCount' \in Nat /\ result' \in Results /\ retries' \in 1..maxModbusReadRetries
    BY <1>6 DEF TypeOK, GiveUp
  <2>4. /\ phase' \in {"idle", "reading"} /\ value' \in [Register -> Nat]
        /\ lastResult' \in Results /\ polls' \in 0..MaxPolls
    BY <1>6 DEF TypeOK, GiveUp
  <2>5. transactions' \in Nat
    BY <1>0, <1>6 DEF GiveUp
  <2> QED
    BY <2>1, <2>2, <2>3, <2>4, <2>5 DEF TypeOK
<1>7. CASE UNCHANGED vars
  BY <1>7 DEF TypeOK, vars, device
<1> QED
  BY <1>1, <1>2, <1>4, <1>5, <1>6, <1>7 DEF Next, Step

(* Every step stays within the budget of the bus.                          *)
LEMMA BudgetStep ==
  TypeOK /\ LocalsAtRest /\ BudgetLeft /\ BusBounded /\ [Next]_vars
    => BudgetLeft' /\ BusBounded'
<1> SUFFICES ASSUME TypeOK, LocalsAtRest, BudgetLeft, BusBounded, [Next]_vars
             PROVE  BudgetLeft' /\ BusBounded'
  OBVIOUS
<1> DEFINE Used(i) == (i - 1) * maxModbusReadRetries
<1> USE TableAssumption, RetriesAssumption
<1>1. /\ Used(irsPos) \in Nat
      /\ Used(irsPos + 1) = Used(irsPos) + maxModbusReadRetries
      /\ Used(irsPos + 1) <= BusBudget
      /\ BusBudget \in Nat
  BY BudgetOfPrefix DEF TypeOK, BusBudget
<1>2. phase = "reading" =>
        transactions <= Used(irsPos) + (maxModbusReadRetries - retries)
  BY DEF BudgetLeft
<1>3. Transact /\ phase = "reading" =>
        /\ transactions' <= Used(irsPos) + (maxModbusReadRetries - retries) + 1
        /\ transactions' <= BusBudget
  <2> HIDE DEF Used
  <2> QED
    BY <1>1, <1>2 DEF Transact, TypeOK
<1>4. CASE Request
  BY <1>1, <1>4 DEF Request, BudgetLeft, BusBounded, BusBudget, TypeOK, LocalsAtRest
<1>5. CASE TimeoutAndRetry
  BY <1>1, <1>3, <1>5 DEF TimeoutAndRetry, BudgetLeft, BusBounded, BusBudget, TypeOK
<1>6. CASE ReadSet
  <2>1. transactions' <= Used(irsPos + 1)
    <3>1. transactions' <= Used(irsPos) + (maxModbusReadRetries - retries) + 1
      BY <1>3, <1>6 DEF ReadSet, StoreSet
    <3>2. retries \in 1..maxModbusReadRetries /\ transactions' \in Nat
      BY TypeStep DEF TypeOK
    <3> HIDE DEF Used
    <3> QED
      BY <1>1, <3>1, <3>2
  <2> QED
    BY <1>3, <1>6, <2>1 DEF ReadSet, StoreSet, BudgetLeft, BusBounded, BusBudget, TypeOK
<1>7. CASE ReadLastSet
  BY <1>3, <1>7 DEF ReadLastSet, StoreSet, BudgetLeft, BusBounded, BusBudget
<1>8. ASSUME NEW r \in Results \ {"Success"}, GiveUp(r)
      PROVE  BudgetLeft' /\ BusBounded'
  BY <1>3, <1>8 DEF GiveUp, BudgetLeft, BusBounded, BusBudget
<1>9. CASE UNCHANGED vars
  BY <1>9 DEF vars, device, BudgetLeft, BusBounded, BusBudget
<1> QED
  BY <1>4, <1>5, <1>6, <1>7, <1>8, <1>9 DEF Next, Step

(* Every step keeps the invariant.                                         *)
LEMMA StepInv == IInv /\ [Next]_vars => IInv'
<1> SUFFICES ASSUME IInv, [Next]_vars PROVE IInv'
  OBVIOUS
<1> USE TableAssumption, RetriesAssumption, ErrorsAssumption, PollsAssumption DEF IInv
<1>0. TypeOK' /\ BudgetLeft' /\ BusBounded'
  BY TypeStep, BudgetStep
<1>1. CASE Request
  <2>1. Progress'
    BY <1>1 DEF Request, Progress, LocalsAtRest, TypeOK
  <2> QED
  BY <1>0, <1>1, <2>1 DEF Request, NoStaleRegister, NoTornRegister,
     StatusAgrees, LocalsAtRest
<1>2. CASE TimeoutAndRetry
  <2>1. Progress'
    BY <1>2 DEF TimeoutAndRetry, Progress
  <2> QED
    BY <1>0, <1>2, <2>1
       DEF TimeoutAndRetry, NoStaleRegister, NoTornRegister, StatusAgrees, LocalsAtRest
(* The sets up to and with irsPos have been read once StoreSet is done.    *)
<1>3. ASSUME StoreSet, NEW i \in 1..irsPos, NEW a \in RegisterSets[i]
      PROVE  valid'[a] /\ value'[a] = polls
  <2>1. a \in Register
    BY DEF Register, TypeOK
  <2>2. CASE a \in RegisterSets[irsPos]
    BY <1>3, <2>1, <2>2 DEF StoreSet
  <2>3. CASE a \notin RegisterSets[irsPos]
    <3>1. i \in 1..(irsPos - 1)
      BY <2>3 DEF TypeOK
    <3>2. valid[a] /\ value[a] = polls
      BY <1>3, <3>1 DEF Progress, StoreSet
    <3> QED
      BY <1>3, <2>1, <2>3, <3>2 DEF StoreSet
  <2> QED
    BY <2>2, <2>3
<1>4. CASE ReadSet
  <2>1. Progress'
    <3>1. irsPos' - 1 = irsPos /\ polls' = polls /\ polls > 0
      BY <1>4 DEF ReadSet, StoreSet, Progress, TypeOK
    <3> QED
      BY <1>3, <1>4, <3>1 DEF ReadSet, Progress
  <2> QED
    BY <1>0, <1>4, <2>1
       DEF ReadSet, StoreSet, NoStaleRegister, NoTornRegister, StatusAgrees, LocalsAtRest
<1>5. CASE ReadLastSet
  <2>1. NoStaleRegister'
    <3>1. polls' = polls /\ irsPos = NumSets
      BY <1>5 DEF ReadLastSet, StoreSet
    <3>2. ASSUME NEW a \in Register PROVE valid'[a] /\ value'[a] = polls
      BY <1>3, <1>5, <3>1, RegisterInSet DEF ReadLastSet
    <3> QED
      BY <3>1, <3>2 DEF NoStaleRegister
  <2>2. StatusAgrees'
    BY <1>5 DEF ReadLastSet, StoreSet, StatusAgrees, TypeOK
  <2> QED
  BY <1>0, <1>5, <2>1, <2>2 DEF ReadLastSet, StoreSet, Progress,
     NoTornRegister, LocalsAtRest
<1>6. ASSUME NEW r \in Results \ {"Success"}, GiveUp(r) PROVE IInv'
  <2>1. NoTornRegister'
    BY <1>6 DEF GiveUp, NoTornRegister
  <2>2. StatusAgrees'
    BY <1>6 DEF GiveUp, StatusAgrees, TypeOK
  <2> QED
    BY <1>0, <1>6, <2>1, <2>2 DEF GiveUp, Progress, NoStaleRegister, LocalsAtRest
<1>7. CASE UNCHANGED vars
  BY <1>0, <1>7
     DEF vars, device, Progress, NoStaleRegister, NoTornRegister, StatusAgrees, LocalsAtRest
<1> QED
  BY <1>1, <1>2, <1>4, <1>5, <1>6, <1>7 DEF Next, Step

(* The invariant holds in every state of every behaviour.                  *)
THEOREM Invariant == Spec => []IInv
BY InitInv, StepInv, PTL DEF Spec

(* Type correctness of a polled device.                                    *)
THEOREM TypeCorrect == Spec => []TypeOK
BY Invariant, PTL DEF IInv

(* A reachable device shows only what its latest poll read.                *)
THEOREM ReachableIsFresh == Spec => []NoStaleRegister
BY Invariant, PTL DEF IInv

(* An unreachable device shows nothing.                                    *)
THEOREM UnreachableShowsNothing == Spec => []NoTornRegister
BY Invariant, PTL DEF IInv

(* Reachability, the last result and the tries agree between polls.        *)
THEOREM PublishedStatusAgrees == Spec => []StatusAgrees
BY Invariant, PTL DEF IInv

(* Between polls a reader sees the outcome of one poll.                    *)
THEOREM OnePollIsShown == Spec => []ShowsOnePoll
BY ReachableIsFresh, UnreachableShowsNothing, PublishedStatusAgrees, PTL DEF ShowsOnePoll

(* A poll never takes more transactions than its register sets may have.   *)
THEOREM PollIsBounded == Spec => []BusBounded
BY Invariant, PTL DEF IInv

-------------------------------------------------------------------------------
(* A step of a poll is, for the readers of the device, a whole poll or     *)
(* nothing at all.                                                         *)
LEMMA StepIsAtomic == IInv /\ [Next]_vars => [Abstract!Next]_(Abstract!vars)
<1> SUFFICES ASSUME IInv, [Next]_vars PROVE [Abstract!Next]_(Abstract!vars)
  OBVIOUS
<1> USE TableAssumption, RetriesAssumption, PollsAssumption
        DEF IInv, Abstract!vars, Seen
<1>0. polls \in Int
  BY DEF TypeOK
<1>1. CASE Request
  <2>1. Seen = [a \in Register |-> IF reachable THEN polls ELSE Unknown]
    BY <1>1 DEF Request, NoStaleRegister, NoTornRegister
  <2>2. Seen' = [a \in Register |-> IF reachable THEN polls ELSE Unknown]
    BY <1>0, <1>1 DEF Request
  <2> QED
    BY <1>0, <1>1, <2>1, <2>2 DEF Request
<1>2. CASE TimeoutAndRetry
  BY <1>2 DEF TimeoutAndRetry
<1>3. CASE ReadSet
  BY <1>3 DEF ReadSet, StoreSet
<1>4. CASE ReadLastSet
  <2>1. NoStaleRegister'
    BY StepInv
  <2>2. Seen' = [a \in Register |-> polls]
    BY <1>4, <2>1 DEF ReadLastSet, StoreSet, NoStaleRegister
  <2>3. /\ phase = "reading" /\ phase' = "idle"
        /\ polls' = polls /\ reachable' = TRUE /\ errorCount' = errorCount
    BY <1>4 DEF ReadLastSet, StoreSet
  <2>4. polls = (polls - 1) + 1
    BY <1>0
  <2>5. Abstract!Answered
    BY <2>2, <2>3, <2>4 DEF Abstract!Answered
  <2> QED
    BY <2>5 DEF Abstract!Next
<1>5. ASSUME NEW r \in Results \ {"Success"}, GiveUp(r)
      PROVE  [Abstract!Next]_(Abstract!vars)
  <2>1. Seen' = [a \in Register |-> Unknown]
    BY <1>5 DEF GiveUp
  <2> QED
    BY <1>0, <1>5, <2>1 DEF GiveUp, Abstract!Next, Abstract!NotAnswered
<1>6. CASE UNCHANGED vars
  BY <1>6 DEF vars, device
<1> QED
  BY <1>1, <1>2, <1>3, <1>4, <1>5, <1>6 DEF Next, Step

(* request() implements the indivisible poll of AtomicPoll.                *)
THEOREM PollRefinesAtomicPoll == Spec => PollIsAtomic
<1>1. Init => Abstract!Init
  BY DEF Init, Abstract!Init, Seen
<1> QED
  BY <1>1, StepIsAtomic, Invariant, PTL DEF Spec, PollIsAtomic, Abstract!Spec
===============================================================================
