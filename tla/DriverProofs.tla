---------------------------- MODULE DriverProofs ----------------------------
(***************************************************************************)
(* The driver's log covers its history for every kernel, every store and   *)
(* any number of failed appends.                                           *)
(***************************************************************************)
EXTENDS Driver, TLAPS

Event == [sequence : Nat, action : Action]

(* The types of the driver's state.                                        *)
TypeOK ==
    /\ state \in State
    /\ sequence \in Nat
    /\ log \in Seq(Event)
    /\ returned \in Seq(Event)

IInv == TypeOK /\ LogCoversHistory

(* Appending an event leaves the last event under every other number       *)
(* alone, and makes itself the last under its own.                         *)
LEMMA LastAfterAppend ==
    ASSUME NEW l \in Seq(Event), NEW e \in Event, NEW n \in Nat
    PROVE  LastUnder(Append(l, e), n) =
               IF n = e.sequence THEN {e} ELSE LastUnder(l, n)
<1> DEFINE m == Append(l, e)
<1>1. /\ Len(m) = Len(l) + 1
      /\ Len(l) \in Nat
      /\ \A i \in 1 .. Len(l) : m[i] = l[i]
      /\ m[Len(l) + 1] = e
  OBVIOUS
<1> HIDE DEF m
<1>2. CASE n = e.sequence
  <2>1. Len(l) + 1 \in Places(m, n)
    BY <1>1, <1>2 DEF Places
  <2>2. {j \in Places(m, n) : \A k \in Places(m, n) : k <= j} = {Len(l) + 1}
    BY <1>1, <2>1 DEF Places
  <2> QED
    BY <1>1, <1>2, <2>2 DEF LastUnder, m
<1>3. CASE n # e.sequence
  <2>1. Places(m, n) = Places(l, n)
    BY <1>1, <1>3 DEF Places
  <2>2. \A i \in Places(l, n) : m[i] = l[i]
    BY <1>1 DEF Places
  <2> QED
    BY <1>3, <2>1, <2>2 DEF LastUnder, m
<1> QED
  BY <1>2, <1>3

(* The event of an accepted command has the next number.                   *)
LEMMA EventType ==
    ASSUME TypeOK, NEW command \in Command, accepted(command)
    PROVE  /\ event(command) \in Event
           /\ event(command).sequence = sequence + 1
           /\ Apply(state, command).state \in State
  BY DriverAssumption DEF TypeOK, accepted, event, Event

(* Every step of the driver keeps the log in line with the history.        *)
LEMMA StepCovers ==
    ASSUME IInv, [Next]_vars
    PROVE  IInv'
<1> USE DEF IInv
<1>1. ASSUME NEW command \in Command, apply(command)
      PROVE  IInv'
  <2> DEFINE e == event(command)
  <2>1. /\ e \in Event
        /\ e.sequence = sequence + 1
        /\ Apply(state, command).state \in State
    BY <1>1, EventType DEF apply
  <2>2. /\ log' = Append(log, e)
        /\ returned' = Append(returned, e)
        /\ sequence' = sequence + 1
        /\ state' = Apply(state, command).state
    BY <1>1 DEF apply, adopt
  <2> HIDE DEF e
  <2>3. TypeOK'
    BY <2>1, <2>2 DEF TypeOK
  <2>4. Len(returned') = sequence'
    BY <2>1, <2>2 DEF TypeOK, LogCoversHistory
  <2>5. ASSUME NEW n \in 1 .. sequence'
        PROVE  LastUnder(log', n) = {returned'[n]}
    <3>1. LastUnder(log', n) = IF n = sequence + 1 THEN {e} ELSE LastUnder(log, n)
      BY <2>1, <2>2, <2>5, LastAfterAppend DEF TypeOK
    <3>2. returned'[n] = IF n = sequence + 1 THEN e ELSE returned[n]
      BY <2>1, <2>2, <2>5 DEF TypeOK, LogCoversHistory
    <3> QED
      BY <2>2, <2>5, <3>1, <3>2 DEF TypeOK, LogCoversHistory
  <2>6. ASSUME NEW i \in 1 .. Len(log')
        PROVE  log'[i].sequence <= sequence' + 1
    <3>1. log'[i] = IF i = Len(log) + 1 THEN e ELSE log[i]
      BY <2>1, <2>2, <2>6 DEF TypeOK
    <3>2. i # Len(log) + 1 => i \in 1 .. Len(log)
      BY <2>1, <2>2, <2>6 DEF TypeOK
    <3>3. i # Len(log) + 1 => log[i] \in Event
      BY <3>2 DEF TypeOK
    <3>4. i # Len(log) + 1 => log[i].sequence \in Nat /\ log[i].sequence <= sequence + 1
      BY <3>2, <3>3 DEF Event, LogCoversHistory
    <3> QED
      BY <2>1, <2>2, <3>1, <3>4 DEF TypeOK
  <2> QED
    BY <2>3, <2>4, <2>5, <2>6 DEF LogCoversHistory
<1>2. ASSUME NEW command \in Command, apply_store_fails(command)
      PROVE  IInv'
  BY <1>2 DEF apply_store_fails, append_failed, TypeOK, LogCoversHistory
<1>3. ASSUME NEW command \in Command, apply_ack_lost(command)
      PROVE  IInv'
  <2> DEFINE e == event(command)
  <2>1. e \in Event /\ e.sequence = sequence + 1
    BY <1>3, EventType DEF apply_ack_lost
  <2>2. /\ log' = Append(log, e)
        /\ UNCHANGED <<state, sequence, returned>>
    BY <1>3 DEF apply_ack_lost, append_failed
  <2> HIDE DEF e
  <2>3. TypeOK'
    BY <2>1, <2>2 DEF TypeOK
  <2>4. ASSUME NEW n \in 1 .. sequence'
        PROVE  LastUnder(log', n) = {returned'[n]}
    <3>1. LastUnder(log', n) = LastUnder(log, n)
      BY <2>1, <2>2, <2>4, LastAfterAppend DEF TypeOK
    <3> QED
      BY <2>2, <2>4, <3>1 DEF LogCoversHistory
  <2>5. ASSUME NEW i \in 1 .. Len(log')
        PROVE  log'[i].sequence <= sequence' + 1
    <3>1. log'[i] = IF i = Len(log) + 1 THEN e ELSE log[i]
      BY <2>1, <2>2, <2>5 DEF TypeOK
    <3>2. i # Len(log) + 1 => i \in 1 .. Len(log)
      BY <2>1, <2>2, <2>5 DEF TypeOK
    <3> QED
      BY <2>1, <2>2, <3>1, <3>2 DEF TypeOK, LogCoversHistory
  <2> QED
    BY <2>2, <2>3, <2>4, <2>5 DEF LogCoversHistory
<1>4. ASSUME UNCHANGED vars
      PROVE  IInv'
  BY <1>4 DEF vars, TypeOK, LogCoversHistory
<1> QED
  BY <1>1, <1>2, <1>3, <1>4 DEF Next

(* The event log covers the driver's history: each adopted transition is   *)
(* the last event stored under its number, whatever the event store did    *)
(* with the appends it reported as failed.                                 *)
THEOREM LogCovers == Spec => []LogCoversHistory
<1>1. Init => IInv
  BY DriverAssumption DEF Init, IInv, TypeOK, LogCoversHistory
<1>2. IInv /\ [Next]_vars => IInv'
  BY StepCovers
<1>3. IInv => LogCoversHistory
  BY DEF IInv
<1> QED
  BY <1>1, <1>2, <1>3, PTL DEF Spec
===========================================================================
