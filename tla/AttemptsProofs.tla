--------------------------- MODULE AttemptsProofs ---------------------------
(***************************************************************************)
(* What callers are told accounts for every command the instance accepted, *)
(* for any number of processes on one handle, killed or made to fail       *)
(* anywhere, and a poisoned handle never moves again.                      *)
(***************************************************************************)
EXTENDS Attempts, ChainProofs, FiniteSetTheorems

AttemptsTyped ==
    /\ current \in InstanceState
    /\ lock \in {"free", "held", "poisoned"}
    /\ attempt \in [Caller -> AttemptN \union {None}]
    /\ events \in Seq([outcome : Outcomes \union {None}, sequence : Nat \union {None}])

(* Whoever is inside the native call holds the lock, alone, and computed   *)
(* the successor of the present state.                                     *)
LockHeld ==
    /\ \A c \in Caller : At(c, "applying") =>
          /\ lock = "held"
          /\ attempt[c].applied \in [next : InstanceState, envelope : EnvelopeN]
          /\ attempt[c].applied.next.sequence = current.sequence + 1
    /\ \A c, d \in Caller : At(c, "applying") /\ At(d, "applying") => c = d

(* What reaches the native call has passed the validation.                 *)
Validated ==
    \A c \in Caller : At(c, "valid") => attempt[c].command \in CommandN

(* A sequence number is held by an attempt that was accepted, and by no    *)
(* other.                                                                  *)
OnlyAcceptedCarry ==
    \A c \in Caller : attempt[c] # None /\ c \notin Underway => attempt[c].sequence = None

(* No two accounts of one sequence number.                                 *)
NotTwice ==
    /\ \A i, j \in Reported : events[i].sequence = events[j].sequence => i = j
    /\ \A c, d \in Underway : attempt[c].sequence = attempt[d].sequence => c = d
    /\ \A i \in Reported, c \in Underway : events[i].sequence # attempt[c].sequence
    /\ \A i \in Reported : events[i].sequence \notin DOMAIN unreported
    /\ \A c \in Underway : attempt[c].sequence \notin DOMAIN unreported

(* No account of a sequence number that was not reached.                   *)
NotTooMuch ==
    /\ \A i \in Reported : events[i].sequence \in 1 .. current.sequence
    /\ \A c \in Underway : attempt[c].sequence \in 1 .. current.sequence
    /\ DOMAIN unreported \subseteq 1 .. current.sequence

(* An account of each that was.                                            *)
NotTooLittle ==
    \A s \in 1 .. current.sequence :
        \/ \E i \in Reported : events[i].sequence = s
        \/ \E c \in Underway : attempt[c].sequence = s
        \/ s \in DOMAIN unreported

(* What goes unreported was cut short by a kill or a panic.                *)
Ambiguous == \A s \in DOMAIN unreported : unreported[s] \in {"killed", "internal_error"}

(* The inductive invariant.                                                *)
AttemptsInv ==
    /\ AttemptsTyped
    /\ LockHeld
    /\ Validated
    /\ OnlyAcceptedCarry
    /\ NotTwice
    /\ NotTooMuch
    /\ NotTooLittle
    /\ Ambiguous

---------------------------------------------------------------------------
(* The result of an attempt being fixed, field by field.                   *)
LEMMA FixSets ==
    ASSUME AttemptsTyped, NEW c \in Caller, attempt[c] # None,
           NEW o \in Outcomes, NEW s \in Nat \union {None}, Fix(c, o, s)
    PROVE  /\ attempt'[c] \in AttemptN
           /\ attempt'[c].at = "fixed" /\ attempt'[c].outcome = o /\ attempt'[c].sequence = s
           /\ attempt' = [attempt EXCEPT ![c] = attempt'[c]]
  <1> DEFINE x == [attempt[c] EXCEPT !.at = "fixed", !.outcome = o, !.sequence = s]
  <1>1. attempt[c] \in AttemptN
    BY DEF AttemptsTyped
  <1>2. attempt' = [attempt EXCEPT ![c] = x]
    BY DEF Fix
  <1>3. x \in AttemptN /\ x.at = "fixed" /\ x.outcome = o /\ x.sequence = s
    BY <1>1 DEF AttemptN
  <1> HIDE DEF x
  <1>4. attempt'[c] = x
    BY <1>2 DEF AttemptsTyped
  <1>5. QED
    BY <1>2, <1>3, <1>4

(* One caller's attempt changes, the others' do not.                       *)
LEMMA OneMoves ==
    ASSUME AttemptsTyped, NEW c \in Caller, NEW x \in AttemptN \union {None},
           attempt' = [attempt EXCEPT ![c] = x]
    PROVE  /\ attempt' \in [Caller -> AttemptN \union {None}]
           /\ attempt'[c] = x
           /\ \A d \in Caller \ {c} :
                 /\ attempt'[d] = attempt[d]
                 /\ d \in Underway' <=> d \in Underway
                 /\ \A p : At(d, p)' <=> At(d, p)
  <1>1. attempt \in [Caller -> AttemptN \union {None}]
    BY DEF AttemptsTyped
  <1>2. /\ attempt' \in [Caller -> AttemptN \union {None}]
        /\ attempt'[c] = x
        /\ \A d \in Caller \ {c} : attempt'[d] = attempt[d]
    BY <1>1
  <1>3. QED
    BY <1>2 DEF Underway, At

(* A step that neither accepts a command nor tells anyone of one.          *)
LEMMA Quiet ==
    ASSUME AttemptsInv, NEW c \in Caller, NEW x \in AttemptN \union {None},
           attempt' = [attempt EXCEPT ![c] = x],
           UNCHANGED <<current, events, unreported>>,
           lock' \in {"free", "held", "poisoned"},
           c \notin Underway, c \notin Underway',
           x # None => x.sequence = None,
           x # None /\ x.at = "valid" => x.command \in CommandN,
           LockHeld'
    PROVE  AttemptsInv'
  <1>1. AttemptsTyped
    BY DEF AttemptsInv
  <1>2. /\ attempt' \in [Caller -> AttemptN \union {None}]
        /\ attempt'[c] = x
        /\ \A d \in Caller \ {c} :
              /\ attempt'[d] = attempt[d]
              /\ d \in Underway' <=> d \in Underway
              /\ \A p : At(d, p)' <=> At(d, p)
    BY <1>1, OneMoves
  <1>3. AttemptsTyped'
    BY <1>1, <1>2 DEF AttemptsTyped
  <1>4. /\ Underway' = Underway
        /\ \A d \in Underway : attempt'[d] = attempt[d]
    <2>1. Underway \subseteq Caller /\ Underway' \subseteq Caller
      BY DEF Underway
    <2>2. QED
      BY <1>2, <2>1
  <1>5. Reported' = Reported
    BY DEF Reported
  <1>6. OnlyAcceptedCarry'
    BY <1>2, <1>4 DEF AttemptsInv, OnlyAcceptedCarry
  <1>7. NotTwice' /\ NotTooMuch' /\ NotTooLittle' /\ Ambiguous'
    BY <1>4, <1>5 DEF AttemptsInv, NotTwice, NotTooMuch, NotTooLittle, Ambiguous
  <1>8. Validated'
    <2>1. At(c, "valid")' => x # None /\ x.at = "valid"
      BY <1>2 DEF At
    <2>2. QED
      BY <1>2, <2>1 DEF AttemptsInv, Validated
  <1>9. QED
    BY <1>3, <1>6, <1>7, <1>8 DEF AttemptsInv

(* An accepted command whose caller will not be told so.                   *)
LEMMA Silenced ==
    ASSUME AttemptsInv, NEW c \in Caller, NEW x \in AttemptN \union {None},
           attempt' = [attempt EXCEPT ![c] = x],
           UNCHANGED <<current, events, lock>>,
           c \in Underway, c \notin Underway',
           x # None => x.sequence = None /\ x.at = "fixed",
           NEW ending \in {"killed", "internal_error"},
           Unheard(attempt[c].sequence, ending)
    PROVE  AttemptsInv'
  <1> DEFINE s == attempt[c].sequence
  <1>1. AttemptsTyped
    BY DEF AttemptsInv
  <1>2. /\ attempt' \in [Caller -> AttemptN \union {None}]
        /\ attempt'[c] = x
        /\ \A d \in Caller \ {c} :
              /\ attempt'[d] = attempt[d]
              /\ d \in Underway' <=> d \in Underway
              /\ \A p : At(d, p)' <=> At(d, p)
    BY <1>1, OneMoves
  <1>3. AttemptsTyped'
    BY <1>1, <1>2 DEF AttemptsTyped
  <1>4. /\ Underway \subseteq Caller
        /\ Underway' = Underway \ {c}
        /\ \A d \in Underway' : attempt'[d] = attempt[d]
    <2>1. Underway \subseteq Caller /\ Underway' \subseteq Caller
      BY DEF Underway
    <2>2. QED
      BY <1>2, <2>1
  <1>5. Reported' = Reported
    BY DEF Reported
  <1>6. s \in 1 .. current.sequence /\ current.sequence \in Nat
    BY <1>1 DEF AttemptsInv, NotTooMuch, AttemptsTyped, InstanceState
  <1>7. s # None
    BY <1>6, AttemptsAssumption
  <1> HIDE DEF s
  <1>8. /\ DOMAIN unreported' = DOMAIN unreported \union {s}
        /\ unreported'[s] = ending
        /\ \A t \in DOMAIN unreported : t # s => unreported'[t] = unreported[t]
    BY <1>7 DEF Unheard, s
  <1>9. OnlyAcceptedCarry'
    BY <1>2, <1>4 DEF AttemptsInv, OnlyAcceptedCarry
  <1>10. LockHeld'
    <2>1. ~ At(c, "applying")'
      BY <1>2 DEF At
    <2>2. QED
      BY <1>2, <2>1 DEF AttemptsInv, LockHeld
  <1>11. Ambiguous'
    BY <1>8 DEF AttemptsInv, Ambiguous
  <1>12. NotTooMuch'
    BY <1>4, <1>5, <1>6, <1>8 DEF AttemptsInv, NotTooMuch
  <1>13. NotTooLittle'
    BY <1>4, <1>5, <1>8 DEF AttemptsInv, NotTooLittle, s
  <1>14. NotTwice'
    BY <1>4, <1>5, <1>8 DEF AttemptsInv, NotTwice, s
  <1>15. Validated'
    <2>1. ~ At(c, "valid")'
      BY <1>2 DEF At
    <2>2. QED
      BY <1>2, <2>1 DEF AttemptsInv, Validated
  <1>16. QED
    BY <1>3, <1>9, <1>10, <1>11, <1>12, <1>13, <1>14, <1>15 DEF AttemptsInv

(* A caller that is not, or no longer, inside the native call.             *)
LEMMA Outside ==
    ASSUME AttemptsInv, NEW c \in Caller, NEW x \in AttemptN \union {None},
           attempt' = [attempt EXCEPT ![c] = x],
           x # None => x.at # "applying",
           UNCHANGED <<current, lock>> \/ At(c, "applying")
    PROVE  LockHeld'
  <1>1. /\ attempt'[c] = x
        /\ \A d \in Caller \ {c} :
              attempt'[d] = attempt[d] /\ \A p : At(d, p)' <=> At(d, p)
    BY OneMoves DEF AttemptsInv
  <1>2. ~ At(c, "applying")'
    BY <1>1 DEF At
  <1>3. QED
    BY <1>1, <1>2 DEF AttemptsInv, LockHeld

---------------------------------------------------------------------------
(* A fresh instance nobody has called.                                     *)
LEMMA AttemptsInit ==
    Init => AttemptsInv
  <1> SUFFICES ASSUME Init PROVE AttemptsInv
    OBVIOUS
  <1>1. current \in InstanceState /\ current.sequence = 0
    BY AttemptsAssumption, InitialReached DEF Init, initial_instance
  <1>2. AttemptsTyped
    BY <1>1 DEF Init, AttemptsTyped
  <1>3. \A c \in Caller : attempt[c] = None
    BY DEF Init
  <1>4. Underway = {} /\ Reported = {} /\ DOMAIN unreported = {}
    BY <1>3 DEF Init, Underway, Reported, At
  <1>5. LockHeld /\ Validated
    BY <1>3 DEF LockHeld, Validated, At
  <1>6. QED
    BY <1>1, <1>2, <1>3, <1>4, <1>5
       DEF AttemptsInv, OnlyAcceptedCarry, NotTwice, NotTooMuch, NotTooLittle, Ambiguous

(* A new attempt.                                                          *)
LEMMA AttemptsStart ==
    ASSUME AttemptsInv, NEW c \in Caller, NEW command \in CommandN \union InvalidN,
           start(c, command)
    PROVE  AttemptsInv'
  <1> DEFINE x == [command |-> command, outcome |-> None, sequence |-> None,
                   applied |-> None, killed |-> FALSE,
                   at |-> IF command \in InvalidN THEN "invalid" ELSE "valid"]
  <1>1. /\ attempt[c] = None /\ attempt' = [attempt EXCEPT ![c] = x]
        /\ UNCHANGED <<current, lock, events, unreported>>
    BY DEF start
  <1>2. /\ x \in AttemptN /\ x.at \notin {"applying", "fixed"} /\ x.sequence = None
        /\ x.at = "valid" => x.command \in CommandN
    BY DEF AttemptN
  <1> HIDE DEF x
  <1>3. LockHeld'
    BY <1>1, <1>2, Outside
  <1>4. attempt'[c] = x
    BY <1>1, <1>2, OneMoves DEF AttemptsInv
  <1>5. c \notin Underway /\ c \notin Underway'
    BY <1>1, <1>2, <1>4 DEF Underway, At
  <1>6. lock \in {"free", "held", "poisoned"}
    BY DEF AttemptsInv, AttemptsTyped
  <1>7. QED
    BY <1>1, <1>2, <1>3, <1>5, <1>6, Quiet

(* An attempt that ends in an error before the instance has moved: refused *)
(* by the validation, by the adapter or by the kernel, or raised.          *)
LEMMA AttemptsRefused ==
    ASSUME AttemptsInv, NEW c \in Caller, attempt[c] # None, attempt[c].at # "fixed",
           NEW o \in Outcomes, o # "accepted", Fix(c, o, None),
           UNCHANGED <<current, events, unreported>>,
           \/ UNCHANGED lock
           \/ At(c, "applying") /\ lock' = "poisoned"
    PROVE  AttemptsInv'
  <1> DEFINE x == attempt'[c]
  <1>1. AttemptsTyped
    BY DEF AttemptsInv
  <1>2. /\ x \in AttemptN /\ x.at = "fixed" /\ x.outcome = o /\ x.sequence = None
        /\ attempt' = [attempt EXCEPT ![c] = x]
    BY <1>1, FixSets
  <1>3. c \notin Underway /\ c \notin Underway'
    BY <1>2 DEF Underway, At
  <1>4. lock' \in {"free", "held", "poisoned"}
    BY <1>1 DEF AttemptsTyped
  <1> HIDE DEF x
  <1>5. LockHeld'
    BY <1>2, Outside
  <1>6. QED
    BY <1>2, <1>3, <1>4, <1>5, Quiet

(* The outcomes of errors.                                                 *)
LEMMA ErrorOutcomes ==
    /\ \A reason : from_native(reason) \in Outcomes \ {"accepted"}
    /\ from_native("native_contract_violation") = "internal_error"
  BY DEF from_native, Outcomes

(* What an adapter that finds no error has found.                          *)
LEMMA NoNativeError ==
    ASSUME NEW command
    PROVE  /\ native_error(command) \in Reasons \union {None}
           /\ native_error(command) = None =>
                 /\ lock = "free"
                 /\ preflight(current, command)
                 /\ Apply(current.kernel, Background, command) # Refused
  <1>1. map_try_lock \in Reasons
    BY DEF map_try_lock, Reasons
  <1>2. QED
    BY <1>1, AttemptsAssumption DEF native_error, Reasons

(* instance_apply answers an error, or enters the lock with the next state *)
(* in hand.                                                                *)
LEMMA AttemptsApply ==
    ASSUME AttemptsInv, NEW c \in Caller, instance_apply(c)
    PROVE  AttemptsInv'
  <1> DEFINE command == attempt[c].command
             error == native_error(command)
  <1>1. AttemptsTyped /\ LockHeld
    BY DEF AttemptsInv
  <1>2. /\ attempt[c] # None /\ attempt[c].at = "valid"
        /\ UNCHANGED <<current, events, unreported>>
    BY DEF instance_apply, try_lock, At
  <1>3. CASE error # None
    <2>1. Fix(c, from_native(error), None) /\ UNCHANGED lock
      BY <1>3 DEF instance_apply
    <2>2. from_native(error) \in Outcomes /\ from_native(error) # "accepted"
      BY ErrorOutcomes
    <2>3. QED
      BY <1>2, <2>1, <2>2, AttemptsRefused
  <1>4. CASE error = None
    <2> DEFINE applied == apply_without_commit(current, Background, command)
               x == [attempt[c] EXCEPT !.at = "applying", !.applied = applied]
    <2>1. lock' = "held" /\ attempt' = [attempt EXCEPT ![c] = x]
      BY <1>4 DEF instance_apply
    <2>2. /\ lock = "free" /\ preflight(current, command)
          /\ Apply(current.kernel, Background, command) # Refused
      BY <1>4, NoNativeError
    <2>3. attempt[c] \in AttemptN /\ current \in InstanceState
      BY <1>1, <1>2 DEF AttemptsTyped
    <2>4. command \in CommandN
      BY <1>2 DEF AttemptsInv, Validated, At
    <2>5. /\ applied \in [next : InstanceState, envelope : EnvelopeN]
          /\ applied.next.sequence = current.sequence + 1
      BY <2>2, <2>3, <2>4, AttemptsAssumption, AcceptedFollows
    <2> HIDE DEF applied, error, command
    <2>6. /\ x \in AttemptN /\ x.at = "applying" /\ x.applied = applied
          /\ x.sequence = attempt[c].sequence
      BY <2>3, <2>5 DEF AttemptN
    <2>7. c \notin Underway
      BY <1>2 DEF Underway, At
    <2>8. x.sequence = None
      BY <1>2, <2>6, <2>7 DEF AttemptsInv, OnlyAcceptedCarry
    <2> HIDE DEF x
    <2>9. /\ attempt'[c] = x
          /\ \A d \in Caller \ {c} :
                attempt'[d] = attempt[d] /\ \A p : At(d, p)' <=> At(d, p)
      BY <1>1, <2>1, <2>6, OneMoves
    <2>10. c \notin Underway'
      BY <2>6, <2>9 DEF Underway, At
    <2>11. LockHeld'
      <3>1. \A d \in Caller \ {c} : ~ At(d, "applying")'
        BY <1>1, <2>2, <2>9 DEF LockHeld
      <3>2. QED
        BY <1>2, <2>1, <2>5, <2>6, <2>9, <3>1 DEF LockHeld
    <2>12. QED
      BY <1>2, <2>1, <2>6, <2>7, <2>8, <2>10, <2>11, Quiet
  <1>5. QED
    BY <1>3, <1>4

(* The state is replaced: its sequence number is new, and is given to the  *)
(* attempt, or to nobody when the caller is gone.                          *)
LEMMA AttemptsCommit ==
    ASSUME AttemptsInv, NEW c \in Caller, commit(c)
    PROVE  AttemptsInv'
  <1> DEFINE next == attempt[c].applied.next
             s == next.sequence
             x == attempt'[c]
  <1>1. AttemptsTyped /\ LockHeld
    BY DEF AttemptsInv
  <1>2. /\ attempt[c] # None /\ attempt[c].at = "applying" /\ At(c, "applying")
        /\ current' = next /\ lock' = "free" /\ UNCHANGED events
    BY DEF commit, At
  <1>3. next \in InstanceState /\ s = current.sequence + 1 /\ current.sequence \in Nat
    BY <1>1, <1>2 DEF LockHeld, AttemptsTyped, InstanceState
  <1>4. s \in Nat /\ s # None /\ s \notin 1 .. current.sequence
        /\ 1 .. s = (1 .. current.sequence) \union {s}
    BY <1>3, AttemptsAssumption
  <1>5. \/ /\ attempt' = [attempt EXCEPT ![c] = None]
           /\ Unheard(s, "killed")
        \/ /\ Fix(c, "accepted", s)
           /\ UNCHANGED unreported
    BY DEF commit
  <1> HIDE DEF next, s
  <1>6. /\ x \in AttemptN \union {None}
        /\ attempt' = [attempt EXCEPT ![c] = x]
        /\ \/ x = None /\ Unheard(s, "killed")
           \/ /\ x # None /\ x.at = "fixed" /\ x.outcome = "accepted" /\ x.sequence = s
              /\ UNCHANGED unreported
    <2>1. CASE attempt' = [attempt EXCEPT ![c] = None] /\ Unheard(s, "killed")
      BY <1>1, <2>1, OneMoves
    <2>2. CASE Fix(c, "accepted", s) /\ UNCHANGED unreported
      <3>1. "accepted" \in Outcomes
        BY DEF Outcomes
      <3>2. /\ x \in AttemptN /\ x.at = "fixed" /\ x.outcome = "accepted" /\ x.sequence = s
            /\ attempt' = [attempt EXCEPT ![c] = x]
        BY <1>1, <1>2, <1>4, <2>2, <3>1, FixSets
      <3>3. QED
        BY <2>2, <3>2, AttemptsAssumption
    <2>3. QED
      BY <1>5, <2>1, <2>2
  <1> HIDE DEF x
  <1>7. /\ attempt' \in [Caller -> AttemptN \union {None}]
        /\ attempt'[c] = x
        /\ \A d \in Caller \ {c} :
              /\ attempt'[d] = attempt[d]
              /\ d \in Underway' <=> d \in Underway
              /\ \A p : At(d, p)' <=> At(d, p)
    BY <1>1, <1>6, OneMoves
  <1>8. AttemptsTyped'
    BY <1>1, <1>2, <1>3, <1>7 DEF AttemptsTyped
  <1>9. LockHeld'
    BY <1>2, <1>6, Outside
  <1>10. Validated'
    <2>1. ~ At(c, "valid")'
      BY <1>6, <1>7 DEF At
    <2>2. QED
      BY <1>7, <2>1 DEF AttemptsInv, Validated
  <1>11. Underway \subseteq Caller /\ Underway' \subseteq Caller /\ c \notin Underway
    BY <1>2 DEF Underway, At
  <1>12. Reported' = Reported
    BY <1>2 DEF Reported
  <1>13. /\ \A i \in Reported : events[i].sequence \in 1 .. current.sequence
         /\ \A d \in Underway : attempt[d].sequence \in 1 .. current.sequence
         /\ DOMAIN unreported \subseteq 1 .. current.sequence
    BY DEF AttemptsInv, NotTooMuch
  <1>14. /\ \A d \in Underway : d # c /\ attempt'[d] = attempt[d] /\ d \in Underway'
         /\ events' = events
         /\ current'.sequence = s
    BY <1>2, <1>7, <1>11 DEF s
  <1>15. CASE x = None /\ Unheard(s, "killed")
    <2>1. Underway' = Underway
      <3>1. c \notin Underway'
        BY <1>7, <1>15 DEF Underway, At
      <3>2. QED
        BY <1>7, <1>11, <3>1
    <2>2. /\ DOMAIN unreported' = DOMAIN unreported \union {s}
          /\ unreported'[s] = "killed"
          /\ \A t \in DOMAIN unreported : t # s => unreported'[t] = unreported[t]
      BY <1>4, <1>15 DEF Unheard
    <2>3. OnlyAcceptedCarry'
      BY <1>7, <1>15, <2>1 DEF AttemptsInv, OnlyAcceptedCarry
    <2>4. Ambiguous'
      BY <2>2 DEF AttemptsInv, Ambiguous
    <2>5. NotTooMuch'
      BY <1>4, <1>12, <1>13, <1>14, <2>1, <2>2 DEF NotTooMuch
    <2>6. NotTooLittle'
      BY <1>4, <1>12, <1>14, <2>1, <2>2 DEF AttemptsInv, NotTooLittle
    <2>7. NotTwice'
      BY <1>4, <1>12, <1>13, <1>14, <2>1, <2>2 DEF AttemptsInv, NotTwice
    <2>8. QED
      BY <1>8, <1>9, <1>10, <2>3, <2>4, <2>5, <2>6, <2>7 DEF AttemptsInv
  <1>16. CASE /\ x # None /\ x.at = "fixed" /\ x.outcome = "accepted" /\ x.sequence = s
              /\ UNCHANGED unreported
    <2>1. Underway' = Underway \union {c} /\ attempt'[c].sequence = s
      <3>1. c \in Underway'
        BY <1>7, <1>16 DEF Underway, At
      <3>2. QED
        BY <1>7, <1>11, <1>16, <3>1
    <2>2. OnlyAcceptedCarry'
      BY <1>7, <2>1 DEF AttemptsInv, OnlyAcceptedCarry
    <2>3. Ambiguous'
      BY <1>16 DEF AttemptsInv, Ambiguous
    <2>4. NotTooMuch'
      BY <1>4, <1>12, <1>13, <1>14, <1>16, <2>1 DEF NotTooMuch
    <2>5. NotTooLittle'
      BY <1>4, <1>12, <1>14, <1>16, <2>1 DEF AttemptsInv, NotTooLittle
    <2>6. NotTwice'
      BY <1>4, <1>12, <1>13, <1>14, <1>16, <2>1 DEF AttemptsInv, NotTwice
    <2>7. QED
      BY <1>8, <1>9, <1>10, <2>2, <2>3, <2>4, <2>5, <2>6 DEF AttemptsInv
  <1>17. QED
    BY <1>6, <1>15, <1>16

(* A panic under the lock leaves the instance as it was.                   *)
LEMMA AttemptsPanic ==
    ASSUME AttemptsInv, NEW c \in Caller, panic(c)
    PROVE  AttemptsInv'
  <1>1. /\ attempt[c] # None /\ attempt[c].at = "applying" /\ At(c, "applying")
        /\ lock' = "poisoned" /\ UNCHANGED <<current, events, unreported>>
        /\ attempt' = [attempt EXCEPT ![c] = None] \/ Fix(c, "internal_error", None)
    BY DEF panic, At
  <1>2. CASE Fix(c, "internal_error", None)
    <2>1. "internal_error" \in Outcomes
      BY DEF Outcomes
    <2>2. QED
      BY <1>1, <1>2, <2>1, AttemptsRefused
  <1>3. CASE attempt' = [attempt EXCEPT ![c] = None]
    <2>1. LockHeld'
      BY <1>1, <1>3, Outside
    <2>2. attempt'[c] = None
      BY <1>3, OneMoves DEF AttemptsInv
    <2>3. c \notin Underway /\ c \notin Underway'
      BY <1>1, <2>2 DEF Underway, At
    <2>4. QED
      BY <1>1, <1>3, <2>1, <2>3, Quiet
  <1>4. QED
    BY <1>1, <1>2, <1>3

(* What is unreported of an attempt that was not accepted: nothing.        *)
LEMMA NothingUnheard ==
    ASSUME NEW ending, Unheard(None, ending)
    PROVE  UNCHANGED unreported
  BY DEF Unheard

(* The binding raises outside the lock.                                    *)
LEMMA AttemptsUnexpected ==
    ASSUME AttemptsInv, NEW c \in Caller, unexpected(c)
    PROVE  AttemptsInv'
  <1> DEFINE x == attempt'[c]
             o == from_native("native_contract_violation")
  <1>1. /\ o = "internal_error" /\ o \in Outcomes
        /\ attempt[c] # None
        /\ attempt[c].at = "valid" \/ c \in Underway
        /\ Fix(c, o, None) /\ Unheard(attempt[c].sequence, o)
        /\ UNCHANGED <<current, lock, events>>
    BY ErrorOutcomes DEF unexpected, At, Underway
  <1> HIDE DEF o
  <1>2. CASE c \in Underway
    <2>1. /\ x \in AttemptN /\ x.at = "fixed" /\ x.outcome = o /\ x.sequence = None
          /\ attempt' = [attempt EXCEPT ![c] = x]
      BY <1>1, FixSets DEF AttemptsInv
    <2>2. c \notin Underway'
      BY <1>1, <2>1 DEF Underway
    <2> HIDE DEF x
    <2>3. QED
      BY <1>1, <1>2, <2>1, <2>2, Silenced
  <1>3. CASE attempt[c].at = "valid"
    <2>1. c \notin Underway
      BY <1>3 DEF Underway, At
    <2>2. attempt[c].sequence = None
      BY <1>1, <2>1 DEF AttemptsInv, OnlyAcceptedCarry
    <2>3. UNCHANGED unreported
      BY <1>1, <2>2, NothingUnheard
    <2>4. QED
      BY <1>1, <1>3, <2>3, AttemptsRefused
  <1>4. QED
    BY <1>1, <1>2, <1>3

(* The process is killed.                                                  *)
LEMMA AttemptsKill ==
    ASSUME AttemptsInv, NEW c \in Caller, kill(c)
    PROVE  AttemptsInv'
  <1>1. AttemptsTyped /\ LockHeld
    BY DEF AttemptsInv
  <1>2. /\ attempt[c] # None /\ attempt[c] \in AttemptN
        /\ UNCHANGED <<current, lock, events>>
        /\ \/ /\ At(c, "applying")
              /\ attempt' = [attempt EXCEPT ![c].killed = TRUE] /\ UNCHANGED unreported
           \/ /\ ~ At(c, "applying")
              /\ attempt' = [attempt EXCEPT ![c] = None]
              /\ Unheard(attempt[c].sequence, "killed")
    BY <1>1 DEF kill, AttemptsTyped
  <1>3. lock' \in {"free", "held", "poisoned"}
    BY <1>1, <1>2 DEF AttemptsTyped
  <1>4. CASE At(c, "applying") /\ attempt' = [attempt EXCEPT ![c].killed = TRUE]
                              /\ UNCHANGED unreported
    <2> DEFINE x == [attempt[c] EXCEPT !.killed = TRUE]
    <2>1. /\ x \in AttemptN /\ x.at = attempt[c].at /\ x.applied = attempt[c].applied
          /\ x.sequence = attempt[c].sequence
      BY <1>2 DEF AttemptN
    <2>2. attempt' = [attempt EXCEPT ![c] = x]
      BY <1>4
    <2> HIDE DEF x
    <2>3. /\ attempt'[c] = x
          /\ \A d \in Caller \ {c} :
                attempt'[d] = attempt[d] /\ \A p : At(d, p)' <=> At(d, p)
      BY <1>1, <2>1, <2>2, OneMoves
    <2>4. attempt[c].at = "applying"
      BY <1>4 DEF At
    <2>5. c \notin Underway /\ c \notin Underway'
      BY <2>1, <2>3, <2>4 DEF Underway, At
    <2>6. attempt[c].sequence = None
      BY <1>2, <2>5 DEF AttemptsInv, OnlyAcceptedCarry
    <2>7. LockHeld'
      <3>1. x.applied \in [next : InstanceState, envelope : EnvelopeN]
            /\ x.applied.next.sequence = current.sequence + 1 /\ lock = "held"
        BY <1>1, <1>4, <2>1 DEF LockHeld
      <3>2. \A d \in Caller \ {c} : ~ At(d, "applying")'
        BY <1>1, <1>4, <2>3 DEF LockHeld
      <3>3. QED
        BY <1>2, <2>3, <3>1, <3>2 DEF LockHeld
    <2>8. QED
      BY <1>2, <1>3, <1>4, <2>1, <2>2, <2>4, <2>5, <2>6, <2>7, Quiet
  <1>5. CASE /\ ~ At(c, "applying")
             /\ attempt' = [attempt EXCEPT ![c] = None]
             /\ Unheard(attempt[c].sequence, "killed")
    <2>1. attempt'[c] = None
      BY <1>1, <1>5, OneMoves
    <2>2. c \notin Underway'
      BY <2>1 DEF Underway, At
    <2>3. CASE c \in Underway
      BY <1>2, <1>5, <2>2, <2>3, Silenced
    <2>4. CASE c \notin Underway
      <3>1. attempt[c].sequence = None
        BY <1>2, <2>4 DEF AttemptsInv, OnlyAcceptedCarry
      <3>2. UNCHANGED unreported
        BY <1>5, <3>1, NothingUnheard
      <3>3. LockHeld'
        BY <1>2, <1>5, Outside
      <3>4. QED
        BY <1>2, <1>3, <1>5, <2>2, <2>4, <3>2, <3>3, Quiet
    <2>5. QED
      BY <2>3, <2>4
  <1>6. QED
    BY <1>2, <1>4, <1>5

(* The event is emitted: an accepted attempt passes its sequence number on *)
(* to it.                                                                  *)
LEMMA AttemptsEmit ==
    ASSUME AttemptsInv, NEW c \in Caller, emit_transition(c)
    PROVE  AttemptsInv'
  <1> DEFINE e == [outcome |-> attempt[c].outcome, sequence |-> attempt[c].sequence]
             n == Len(events)
             EventN == [outcome : Outcomes \union {None}, sequence : Nat \union {None}]
  <1>1. AttemptsTyped
    BY DEF AttemptsInv
  <1>2. /\ attempt[c] # None /\ attempt[c].at = "fixed"
        /\ events' = Append(events, e) /\ attempt' = [attempt EXCEPT ![c] = None]
        /\ UNCHANGED <<current, lock, unreported>>
    BY DEF emit_transition, At
  <1>3. attempt[c] \in AttemptN /\ events \in Seq(EventN)
    BY <1>1, <1>2 DEF AttemptsTyped
  <1>4. e \in EventN /\ e.outcome = attempt[c].outcome /\ e.sequence = attempt[c].sequence
    BY <1>3 DEF AttemptN
  <1> HIDE DEF e, EventN
  <1>5. /\ events' \in Seq(EventN) /\ n \in Nat
        /\ DOMAIN events = 1 .. n /\ DOMAIN events' = 1 .. n + 1
        /\ events'[n + 1] = e /\ \A i \in 1 .. n : events'[i] = events[i]
    BY <1>2, <1>3, <1>4
  <1> HIDE DEF n
  <1>6. /\ attempt' \in [Caller -> AttemptN \union {None}]
        /\ attempt'[c] = None
        /\ \A d \in Caller \ {c} :
              /\ attempt'[d] = attempt[d]
              /\ d \in Underway' <=> d \in Underway
              /\ \A p : At(d, p)' <=> At(d, p)
    BY <1>1, <1>2, OneMoves
  <1>7. AttemptsTyped'
    BY <1>1, <1>2, <1>5, <1>6 DEF AttemptsTyped, EventN
  <1>8. LockHeld'
    BY <1>2, Outside
  <1>9. Underway' = Underway \ {c} /\ \A d \in Underway' : attempt'[d] = attempt[d]
    <2>1. Underway \subseteq Caller /\ Underway' \subseteq Caller /\ c \notin Underway'
      BY <1>6 DEF Underway, At
    <2>2. QED
      BY <1>6, <2>1
  <1>10. c \in Underway <=> e.outcome = "accepted"
    BY <1>2, <1>4 DEF Underway, At
  <1>11. /\ Reported \subseteq 1 .. n /\ n + 1 \notin Reported
         /\ \A i \in Reported : events'[i] = events[i]
         /\ Reported' = IF c \in Underway THEN Reported \union {n + 1} ELSE Reported
    <2>1. /\ Reported \subseteq 1 .. n
          /\ \A i \in 1 .. n + 1 : i = n + 1 \/ i \in 1 .. n
          /\ n + 1 \in 1 .. n + 1 /\ n + 1 \notin 1 .. n /\ 1 .. n \subseteq 1 .. n + 1
      BY <1>5 DEF Reported
    <2>2. \A i \in 1 .. n : i \in Reported' <=> i \in Reported
      BY <1>5, <2>1 DEF Reported
    <2>3. n + 1 \in Reported' <=> c \in Underway
      BY <1>5, <1>10, <2>1 DEF Reported
    <2>4. Reported' \subseteq 1 .. n + 1
      BY <1>5 DEF Reported
    <2>5. CASE c \in Underway
      <3>1. Reported' = Reported \union {n + 1}
        BY <2>1, <2>2, <2>3, <2>4, <2>5
      <3>2. QED
        BY <1>5, <2>1, <2>5, <3>1
    <2>6. CASE c \notin Underway
      <3>1. Reported' = Reported
        BY <2>1, <2>2, <2>3, <2>4, <2>6
      <3>2. QED
        BY <1>5, <2>1, <2>6, <3>1
    <2>7. QED
      BY <2>5, <2>6
  <1>12. OnlyAcceptedCarry' /\ Validated'
    <2>1. \A d \in Caller : At(d, "valid")' => d # c /\ At(d, "valid") /\ attempt'[d] = attempt[d]
      BY <1>6 DEF At
    <2>2. QED
      BY <1>6, <1>9, <2>1 DEF AttemptsInv, OnlyAcceptedCarry, Validated
  <1>13. Ambiguous'
    BY <1>2 DEF AttemptsInv, Ambiguous
  <1>14. CASE c \in Underway
    <2>0. current' = current /\ unreported' = unreported
      BY <1>2
    <2>1. /\ Reported' = Reported \union {n + 1} /\ events'[n + 1].sequence = attempt[c].sequence
      BY <1>4, <1>5, <1>11, <1>14
    <2>2. NotTooMuch'
      BY <1>9, <1>11, <1>14, <2>0, <2>1 DEF AttemptsInv, NotTooMuch
    <2>3. NotTooLittle'
      <3>1. ASSUME NEW t \in 1 .. current.sequence
            PROVE  \/ \E i \in Reported' : events'[i].sequence = t
                   \/ \E d \in Underway' : attempt'[d].sequence = t
                   \/ t \in DOMAIN unreported
        <4>1. CASE \E i \in Reported : events[i].sequence = t
          BY <1>11, <2>1, <4>1
        <4>2. CASE \E d \in Underway : attempt[d].sequence = t
          BY <1>9, <2>1, <4>2
        <4>3. QED
          BY <4>1, <4>2 DEF AttemptsInv, NotTooLittle
      <3>2. QED
        BY <2>0, <3>1 DEF NotTooLittle
    <2>4. NotTwice'
      <3>1. \A i \in Reported, d \in Underway : events[i].sequence # attempt[d].sequence
        BY DEF AttemptsInv, NotTwice
      <3>2. \A i \in Reported : events'[i].sequence = events[i].sequence
        BY <1>11
      <3>3. \A d \in Underway' : attempt'[d].sequence = attempt[d].sequence
        BY <1>9
      <3>4. \A i, j \in Reported' : events'[i].sequence = events'[j].sequence => i = j
        BY <1>11, <1>14, <2>1, <3>1, <3>2 DEF AttemptsInv, NotTwice
      <3>5. \A d, f \in Underway' : attempt'[d].sequence = attempt'[f].sequence => d = f
        BY <1>9, <3>3 DEF AttemptsInv, NotTwice
      <3>6. \A i \in Reported', d \in Underway' : events'[i].sequence # attempt'[d].sequence
        <4>1. \A d \in Underway' : attempt[c].sequence # attempt[d].sequence
          BY <1>9, <1>14 DEF AttemptsInv, NotTwice
        <4>2. QED
          BY <1>9, <2>1, <3>1, <3>2, <3>3, <4>1
      <3>7. /\ \A i \in Reported' : events'[i].sequence \notin DOMAIN unreported
            /\ \A d \in Underway' : attempt'[d].sequence \notin DOMAIN unreported
        BY <1>9, <1>14, <2>1, <3>2, <3>3 DEF AttemptsInv, NotTwice
      <3>8. QED
        BY <2>0, <3>4, <3>5, <3>6, <3>7 DEF NotTwice
    <2>5. QED
      BY <1>7, <1>8, <1>12, <1>13, <2>2, <2>3, <2>4 DEF AttemptsInv
  <1>15. CASE c \notin Underway
    <2>1. Reported' = Reported /\ Underway' = Underway
      BY <1>9, <1>11, <1>15
    <2>2. NotTooMuch' /\ NotTooLittle' /\ NotTwice'
      <3>1. current' = current /\ unreported' = unreported
        BY <1>2
      <3>2. QED
        BY <1>9, <1>11, <2>1, <3>1 DEF AttemptsInv, NotTooMuch, NotTooLittle, NotTwice
    <2>3. QED
      BY <1>7, <1>8, <1>12, <1>13, <2>2 DEF AttemptsInv
  <1>16. QED
    BY <1>14, <1>15

---------------------------------------------------------------------------
(* The invariant of the attempts, over all interleavings of callers.       *)
THEOREM AttemptsInvariant ==
    Spec => []AttemptsInv
  <1>1. Init => AttemptsInv
    BY AttemptsInit
  <1>2. AttemptsInv /\ [Next]_vars => AttemptsInv'
    <2> SUFFICES ASSUME AttemptsInv, [Next]_vars PROVE AttemptsInv'
      OBVIOUS
    <2>1. ASSUME NEW c \in Caller, \E command \in CommandN \union InvalidN : start(c, command)
          PROVE  AttemptsInv'
      BY <2>1, AttemptsStart
    <2>2. ASSUME NEW c \in Caller, refuse_invalid(c)
          PROVE  AttemptsInv'
      <3>1. /\ attempt[c] # None /\ attempt[c].at # "fixed"
            /\ Fix(c, "boundary_refused", None)
            /\ UNCHANGED <<current, lock, events, unreported>>
        BY <2>2 DEF refuse_invalid, At
      <3>2. "boundary_refused" \in Outcomes
        BY DEF Outcomes
      <3>3. QED
        BY <3>1, <3>2, AttemptsRefused
    <2>3. ASSUME NEW c \in Caller, instance_apply(c)
          PROVE  AttemptsInv'
      BY <2>3, AttemptsApply
    <2>4. ASSUME NEW c \in Caller, commit(c)
          PROVE  AttemptsInv'
      BY <2>4, AttemptsCommit
    <2>5. ASSUME NEW c \in Caller, panic(c)
          PROVE  AttemptsInv'
      BY <2>5, AttemptsPanic
    <2>6. ASSUME NEW c \in Caller, emit_transition(c)
          PROVE  AttemptsInv'
      BY <2>6, AttemptsEmit
    <2>7. ASSUME NEW c \in Caller, unexpected(c)
          PROVE  AttemptsInv'
      BY <2>7, AttemptsUnexpected
    <2>8. ASSUME NEW c \in Caller, kill(c)
          PROVE  AttemptsInv'
      BY <2>8, AttemptsKill
    <2>9. CASE UNCHANGED vars
      BY <2>9 DEF vars, AttemptsInv, AttemptsTyped, LockHeld, Validated, OnlyAcceptedCarry,
                  NotTwice, NotTooMuch, NotTooLittle, Ambiguous, At, Underway, Reported
    <2>10. QED
      BY <2>1, <2>2, <2>3, <2>4, <2>5, <2>6, <2>7, <2>8, <2>9 DEF Next, Continue
  <1>3. QED
    BY <1>1, <1>2, PTL DEF Spec

(* Every accepted command is accounted for exactly once, whatever happens  *)
(* to whoever issued it.                                                   *)
THEOREM EventsAccountForTheChainHolds ==
    Spec => []EventsAccountForTheChain
  <1>1. AttemptsInv => EventsAccountForTheChain
    <2> SUFFICES ASSUME AttemptsInv PROVE EventsAccountForTheChain
      OBVIOUS
    <2> DEFINE told(s) == {i \in Reported : events[i].sequence = s}
               telling(s) == {c \in Underway : attempt[c].sequence = s}
               silent(s) == {t \in DOMAIN unreported : t = s}
    <2>1. NotTwice /\ NotTooMuch /\ NotTooLittle /\ Ambiguous
      BY DEF AttemptsInv
    <2>2. ASSUME NEW s \in 1 .. current.sequence
          PROVE  Cardinality(told(s)) + Cardinality(telling(s)) + Cardinality(silent(s)) = 1
      <3>1. /\ Cardinality({}) = 0
            /\ \A y : Cardinality({y}) = 1
        BY FS_EmptySet, FS_Singleton
      <3>2. CASE \E i \in Reported : events[i].sequence = s
        <4>1. PICK i \in Reported : events[i].sequence = s
          BY <3>2
        <4>2. told(s) = {i} /\ telling(s) = {} /\ silent(s) = {}
          BY <2>1, <4>1 DEF NotTwice
        <4> HIDE DEF told, telling, silent
        <4>3. /\ Cardinality(told(s)) = 1 /\ Cardinality(telling(s)) = 0
              /\ Cardinality(silent(s)) = 0
          BY <3>1, <4>2
        <4>4. QED
          BY <4>3
      <3>3. CASE \E c \in Underway : attempt[c].sequence = s
        <4>1. PICK c \in Underway : attempt[c].sequence = s
          BY <3>3
        <4>2. told(s) = {} /\ telling(s) = {c} /\ silent(s) = {}
          BY <2>1, <4>1 DEF NotTwice
        <4> HIDE DEF told, telling, silent
        <4>3. /\ Cardinality(told(s)) = 0 /\ Cardinality(telling(s)) = 1
              /\ Cardinality(silent(s)) = 0
          BY <3>1, <4>2
        <4>4. QED
          BY <4>3
      <3>4. CASE s \in DOMAIN unreported
        <4>1. told(s) = {} /\ telling(s) = {} /\ silent(s) = {s}
          BY <2>1, <3>4 DEF NotTwice
        <4> HIDE DEF told, telling, silent
        <4>2. /\ Cardinality(told(s)) = 0 /\ Cardinality(telling(s)) = 0
              /\ Cardinality(silent(s)) = 1
          BY <3>1, <4>1
        <4>3. QED
          BY <4>2
      <3>5. QED
        BY <2>1, <3>2, <3>3, <3>4 DEF NotTooLittle
    <2>3. /\ \A i \in Reported : events[i].sequence \in 1 .. current.sequence
          /\ \A s \in DOMAIN unreported : unreported[s] \in {"killed", "internal_error"}
      BY <2>1 DEF NotTooMuch, Ambiguous
    <2>4. QED
      BY <2>2, <2>3 DEF EventsAccountForTheChain
  <1>2. QED
    BY <1>1, AttemptsInvariant, PTL

(* A handle that a panic poisoned stays as it is: whoever calls later is   *)
(* refused, and nobody is left inside the lock to move it.                 *)
THEOREM PoisonIsTerminalHolds ==
    Spec => PoisonIsTerminal
  <1>1. ASSUME AttemptsInv, [Next]_vars, lock = "poisoned"
        PROVE  UNCHANGED <<current, lock>>
    <2>1. \A c \in Caller : ~ At(c, "applying")
      BY <1>1 DEF AttemptsInv, LockHeld
    <2>2. \A c \in Caller : ~ commit(c) /\ ~ panic(c)
      BY <2>1 DEF commit, panic
    <2>3. ASSUME NEW c \in Caller, instance_apply(c)
          PROVE  UNCHANGED <<current, lock>>
      <3>1. native_error(attempt[c].command) # None
        BY <1>1, NoNativeError
      <3>2. QED
        BY <2>3, <3>1 DEF instance_apply
    <2>4. QED
      BY <1>1, <2>2, <2>3 DEF Next, Continue, start, refuse_invalid, emit_transition, unexpected,
                              kill, vars
  <1>2. QED
    BY <1>1, AttemptsInvariant, PTL DEF Spec, PoisonIsTerminal
===========================================================================
