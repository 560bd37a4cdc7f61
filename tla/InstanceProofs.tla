--------------------------- MODULE InstanceProofs ---------------------------
(***************************************************************************)
(* Proofs over the native resources: the envelopes a handle returns are    *)
(* its chain, the head of the chain identifies the kernel state, and a     *)
(* recovery has one heir, whatever callers share the handles.              *)
(***************************************************************************)
EXTENDS Instance, ChainProofs

TypeOK ==
    /\ resource \in [Handle -> Resource \cup {None}]
    /\ call \in [Caller -> Call \cup {None}]
    /\ history \in [Handle -> Seq(EnvelopeN)]
    /\ heir \in [Handle -> Handle \cup {None}]

(* A caller inside holds the lock of its resource, alone, and what it      *)
(* found there is still there.                                             *)
Exclusive ==
    \A c \in Caller : call[c] # None =>
        /\ call[c].on \in Held
        /\ resource[call[c].on].lock = "held"
        /\ \A d \in Caller : call[d] # None /\ call[d].on = call[c].on => d = c

(* What a caller is about to commit follows what the resource holds; what  *)
(* it is about to finalize is a recovery.                                  *)
CallsFit ==
    \A c \in Caller : call[c] # None =>
        IF call[c].op = "finalize"
        THEN resource[call[c].on].kind = "recovery"
        ELSE Follows(resource[call[c].on].background, resource[call[c].on].slot,
                     call[c].next, call[c].envelope)

(* Only recoveries are consumed, and a handle that was not created yet     *)
(* has no past.                                                            *)
SlotsFilled ==
    /\ Live \subseteq Held
    /\ \A h \in Handle : resource[h] = None => history[h] = << >> /\ heir[h] = None

(* An heir is live, its recovery is consumed, and it is the only one.      *)
HeirsSound ==
    \A g \in Handle : heir[g] # None =>
        /\ g \in Live
        /\ heir[g] \in Recoveries \ Held
        /\ \A k \in Handle : heir[k] = heir[g] => k = g

ChainsSound ==
    \A h \in Held :
        /\ Reached(resource[h].background, resource[h].slot)
        /\ IsChain(history[h], resource[h].slot)

(* The inductive invariant.                                                *)
InstanceInv ==
    /\ TypeOK
    /\ Exclusive
    /\ CallsFit
    /\ SlotsFilled
    /\ HeirsSound
    /\ ChainsSound

---------------------------------------------------------------------------
(* The resources.                                                          *)

(* What the types say of a handle.                                         *)
LEMMA HandleTypes ==
    TypeOK => \A h \in Handle :
        /\ h \in Live <=> resource[h] # None /\ resource[h].kind = "live"
        /\ h \in Recoveries <=> resource[h] # None /\ resource[h].kind = "recovery"
        /\ h \in Held <=> resource[h] # None /\ resource[h].slot # None
        /\ resource[h] # None =>
              /\ resource[h] \in Resource
              /\ resource[h].kind \in {"live", "recovery"}
              /\ resource[h].background \in BackgroundN
              /\ resource[h].slot # None => resource[h].slot \in InstanceState
  <1> SUFFICES ASSUME TypeOK, NEW h \in Handle
               PROVE  /\ h \in Live <=> resource[h] # None /\ resource[h].kind = "live"
                      /\ h \in Recoveries <=> resource[h] # None /\ resource[h].kind = "recovery"
                      /\ h \in Held <=> resource[h] # None /\ resource[h].slot # None
                      /\ resource[h] # None =>
                            /\ resource[h] \in Resource
                            /\ resource[h].kind \in {"live", "recovery"}
                            /\ resource[h].background \in BackgroundN
                            /\ resource[h].slot # None => resource[h].slot \in InstanceState
    OBVIOUS
  <1>1. resource[h] # None => resource[h] \in Resource
    BY DEF TypeOK
  <1>2. resource[h] # None =>
            /\ resource[h].kind \in {"live", "recovery"}
            /\ resource[h].background \in BackgroundN
            /\ resource[h].slot \in InstanceState \cup {None}
    BY <1>1 DEF Resource
  <1>3. QED
    BY <1>1, <1>2 DEF Live, Recoveries, Held

(* The same reading of the handles after a step.                           *)
LEMMA HandleTypesNext ==
    TypeOK' => \A h \in Handle :
        /\ h \in Live' <=> resource'[h] # None /\ resource'[h].kind = "live"
        /\ h \in Recoveries' <=> resource'[h] # None /\ resource'[h].kind = "recovery"
        /\ h \in Held' <=> resource'[h] # None /\ resource'[h].slot # None
  <1>1. TypeOK' => \A h \in Handle : resource'[h] # None =>
                        resource'[h].kind \in {"live", "recovery"}
    BY DEF TypeOK, Resource
  <1>2. QED
    BY <1>1 DEF Live, Recoveries, Held

(* Locking and unlocking touch nothing else of a resource, and change no   *)
(* past: what holds of slots, chains and heirs goes on holding.            *)
LEMMA LockOnly ==
    ASSUME InstanceInv, TypeOK', UNCHANGED <<history, heir>>,
           \A k \in Handle :
              /\ resource'[k] = None <=> resource[k] = None
              /\ resource'[k].kind = resource[k].kind
              /\ resource'[k].background = resource[k].background
              /\ resource'[k].slot = resource[k].slot
    PROVE  /\ Live' = Live /\ Recoveries' = Recoveries /\ Held' = Held
           /\ SlotsFilled' /\ HeirsSound' /\ ChainsSound'
  <1>1. TypeOK
    BY DEF InstanceInv
  <1>2. Live' \subseteq Handle /\ Recoveries' \subseteq Handle /\ Held' \subseteq Handle
    BY DEF Live, Recoveries, Held
  <1>3. Live \subseteq Handle /\ Recoveries \subseteq Handle /\ Held \subseteq Handle
    BY DEF Live, Recoveries, Held
  <1>4. Live' = Live /\ Recoveries' = Recoveries /\ Held' = Held
    BY <1>1, <1>2, <1>3, HandleTypes, HandleTypesNext
  <1>5. SlotsFilled'
    BY <1>4 DEF InstanceInv, SlotsFilled
  <1>6. HeirsSound'
    BY <1>4 DEF InstanceInv, HeirsSound
  <1>7. ChainsSound'
    BY <1>3, <1>4 DEF InstanceInv, ChainsSound
  <1>8. QED
    BY <1>4, <1>5, <1>6, <1>7

(* Taking or poisoning a lock changes no other field of a resource.        *)
LEMMA Relocked ==
    ASSUME NEW r \in Resource, NEW l \in {"free", "held", "poisoned"}
    PROVE  /\ [r EXCEPT !.lock = l] \in Resource
           /\ [r EXCEPT !.lock = l].kind = r.kind
           /\ [r EXCEPT !.lock = l].background = r.background
           /\ [r EXCEPT !.lock = l].slot = r.slot
           /\ [r EXCEPT !.lock = l].lock = l
  BY DEF Resource

(* A caller is let in.                                                     *)
LEMMA EnterInv ==
    ASSUME InstanceInv, NEW c \in Caller, NEW h \in Held, NEW body \in Call, body.on = h,
           IF body.op = "finalize" THEN resource[h].kind = "recovery"
           ELSE Follows(resource[h].background, resource[h].slot, body.next, body.envelope),
           enter(c, h, body)
    PROVE  InstanceInv'
  <1>1. TypeOK /\ Exclusive /\ CallsFit
    BY DEF InstanceInv
  <1>2. h \in Handle
    BY DEF Held, Live, Recoveries
  <1>3. resource[h] \in Resource /\ resource[h] # None
    BY <1>1, <1>2, HandleTypes
  <1>4. /\ resource[h].lock = "free" /\ call[c] = None
        /\ resource' = [resource EXCEPT ![h] = [resource[h] EXCEPT !.lock = "held"]]
        /\ call' = [call EXCEPT ![c] = body]
        /\ UNCHANGED <<history, heir>>
    BY DEF enter, try_lock
  <1>5. /\ resource'[h] \in Resource /\ resource'[h].kind = resource[h].kind
        /\ resource'[h].background = resource[h].background
        /\ resource'[h].slot = resource[h].slot /\ resource'[h].lock = "held"
        /\ \A k \in Handle \ {h} : resource'[k] = resource[k]
    BY <1>1, <1>2, <1>3, <1>4, Relocked DEF TypeOK
  <1>6. /\ call'[c] = body /\ \A d \in Caller \ {c} : call'[d] = call[d]
    BY <1>1, <1>4 DEF TypeOK
  <1>7. TypeOK'
    BY <1>1, <1>2, <1>3, <1>4, <1>5 DEF TypeOK
  <1>8. resource'[h] # None /\ body # None
    BY <1>5, NoneAssumption
  <1>9. /\ Live' = Live /\ Recoveries' = Recoveries /\ Held' = Held
        /\ SlotsFilled' /\ HeirsSound' /\ ChainsSound'
    BY <1>3, <1>4, <1>5, <1>7, <1>8, LockOnly
  <1>10. \A d \in Caller \ {c} : call[d] # None => call[d].on # h /\ call[d].on \in Handle
    BY <1>1, <1>4 DEF Exclusive, Held, Live, Recoveries
  <1>11. Exclusive'
    BY <1>1, <1>5, <1>6, <1>8, <1>9, <1>10 DEF Exclusive
  <1>12. CallsFit'
    BY <1>1, <1>5, <1>6, <1>8, <1>10 DEF CallsFit
  <1>13. QED
    BY <1>7, <1>9, <1>11, <1>12 DEF InstanceInv

(* A caller panics: it is gone, and its resource is lost to everyone.      *)
LEMMA PanicInv ==
    ASSUME InstanceInv, NEW c \in Caller, panic(c)
    PROVE  InstanceInv'
  <1> DEFINE h == call[c].on
  <1>1. TypeOK /\ Exclusive /\ CallsFit /\ call[c] # None
    BY DEF InstanceInv, panic
  <1>2. h \in Held /\ h \in Handle
    BY <1>1 DEF Exclusive, Held, Live, Recoveries
  <1>3. resource[h] \in Resource /\ resource[h] # None
    BY <1>1, <1>2, HandleTypes
  <1>4. /\ resource' = [resource EXCEPT ![h] = [resource[h] EXCEPT !.lock = "poisoned"]]
        /\ call' = [call EXCEPT ![c] = None]
        /\ UNCHANGED <<history, heir>>
    BY DEF panic
  <1>5. \A d \in Caller \ {c} : call[d] # None => call[d].on # h /\ call[d].on \in Handle
    BY <1>1 DEF Exclusive, Held, Live, Recoveries
  <1> HIDE DEF h
  <1>6. /\ resource'[h] \in Resource /\ resource'[h].kind = resource[h].kind
        /\ resource'[h].background = resource[h].background
        /\ resource'[h].slot = resource[h].slot
        /\ \A k \in Handle \ {h} : resource'[k] = resource[k]
    BY <1>1, <1>2, <1>3, <1>4, Relocked DEF TypeOK
  <1>7. /\ call'[c] = None /\ \A d \in Caller \ {c} : call'[d] = call[d]
    BY <1>1, <1>4 DEF TypeOK
  <1>8. TypeOK'
    BY <1>1, <1>2, <1>3, <1>4, <1>6 DEF TypeOK
  <1>9. resource'[h] # None
    BY <1>6, NoneAssumption
  <1>10. /\ Live' = Live /\ Recoveries' = Recoveries /\ Held' = Held
         /\ SlotsFilled' /\ HeirsSound' /\ ChainsSound'
    BY <1>3, <1>4, <1>6, <1>8, <1>9, LockOnly
  <1>11. Exclusive'
    BY <1>1, <1>5, <1>6, <1>7, <1>10 DEF Exclusive
  <1>12. CallsFit'
    BY <1>1, <1>5, <1>6, <1>7 DEF CallsFit
  <1>13. QED
    BY <1>8, <1>10, <1>11, <1>12 DEF InstanceInv

(* A handle is created, with an empty past.                                *)
LEMMA CreateInv ==
    ASSUME InstanceInv, NEW h \in Handle, NEW b \in BackgroundN,
           NEW kind \in {"live", "recovery"}, resource[h] = None,
           resource' = [resource EXCEPT ![h] = Fresh(kind, b, initial_instance(b))],
           UNCHANGED <<call, history, heir>>
    PROVE  InstanceInv'
  <1>1. TypeOK /\ Exclusive /\ CallsFit /\ SlotsFilled /\ HeirsSound /\ ChainsSound
    BY DEF InstanceInv
  <1> DEFINE current == initial_instance(b)
  <1>2. current \in InstanceState /\ Reached(b, current) /\ IsChain(<< >>, current)
    BY InitialReached
  <1> HIDE DEF current
  <1>3. /\ Fresh(kind, b, current) \in Resource
        /\ Fresh(kind, b, current).kind = kind
        /\ Fresh(kind, b, current).background = b
        /\ Fresh(kind, b, current).slot = current
    BY <1>2 DEF Fresh, Resource
  <1>4. /\ resource'[h] = Fresh(kind, b, current)
        /\ \A k \in Handle \ {h} : resource'[k] = resource[k]
    BY <1>1 DEF TypeOK, current
  <1>5. TypeOK'
    BY <1>1, <1>3 DEF TypeOK, current
  <1>6. resource'[h] # None /\ current # None
    BY <1>2, <1>3, <1>4, NoneAssumption
  <1>7. /\ Held \subseteq Handle /\ Live \subseteq Handle /\ Recoveries \subseteq Handle
        /\ Held' \subseteq Handle /\ Live' \subseteq Handle
        /\ h \notin Held /\ h \notin Live /\ h \notin Recoveries
    BY <1>1, HandleTypes DEF Held, Live, Recoveries
  <1>8. /\ Held' = Held \cup {h}
        /\ \A k \in Handle \ {h} : (k \in Live' <=> k \in Live)
                                    /\ (k \in Recoveries' <=> k \in Recoveries)
    BY <1>1, <1>3, <1>4, <1>5, <1>6, <1>7, HandleTypes, HandleTypesNext
  <1>9. Exclusive'
    BY <1>1, <1>4, <1>7, <1>8 DEF Exclusive
  <1>10. CallsFit'
    <2>1. \A c \in Caller : call[c] # None => call[c].on \in Handle \ {h}
      BY <1>1, <1>7 DEF Exclusive
    <2>2. QED
      BY <1>1, <1>4, <2>1 DEF CallsFit
  <1>11. SlotsFilled'
    BY <1>1, <1>4, <1>6, <1>7, <1>8 DEF SlotsFilled
  <1>12. HeirsSound'
    <2>1. \A g \in Handle : heir[g] # None => g # h /\ heir[g] # h /\ heir[g] \in Handle
      BY <1>1, <1>7 DEF HeirsSound
    <2>2. QED
      BY <1>1, <1>8, <2>1 DEF HeirsSound
  <1>13. ChainsSound'
    <2>1. history[h] = << >>
      BY <1>1 DEF SlotsFilled
    <2>2. QED
      BY <1>1, <1>2, <1>3, <1>4, <1>7, <1>8, <2>1 DEF ChainsSound
  <1>14. QED
    BY <1>5, <1>9, <1>10, <1>11, <1>12, <1>13 DEF InstanceInv

(* A commit replaces the slot, frees the lock, and changes no other field  *)
(* of a resource.                                                          *)
LEMMA Refilled ==
    ASSUME NEW r \in Resource, NEW s \in InstanceState \cup {None}
    PROVE  LET q == [[r EXCEPT !.slot = s] EXCEPT !.lock = "free"]
           IN  /\ q \in Resource
               /\ q.kind = r.kind /\ q.background = r.background
               /\ q.slot = s /\ q.lock = "free"
  BY DEF Resource

(* A caller commits what it computed.                                      *)
LEMMA CommitInv ==
    ASSUME InstanceInv, NEW c \in Caller, commit(c)
    PROVE  InstanceInv'
  <1> DEFINE h == call[c].on
             next == call[c].next
             e == call[c].envelope
  <1>1. TypeOK /\ Exclusive /\ CallsFit /\ SlotsFilled /\ HeirsSound /\ ChainsSound
    BY DEF InstanceInv
  <1>2. call[c] # None /\ call[c].op # "finalize" /\ call[c].op \in {"apply", "replay"}
    BY DEF commit
  <1>3. next \in InstanceState /\ e \in EnvelopeN
    <2>1. call[c] \in Call
      BY <1>1, <1>2 DEF TypeOK
    <2>2. call[c] \in [op : {"apply", "replay"}, on : Handle, next : InstanceState,
                       envelope : EnvelopeN]
      BY <1>2, <2>1 DEF Call
    <2>3. QED
      BY <2>2
  <1>4. h \in Held /\ h \in Handle
    BY <1>1, <1>2 DEF Exclusive, Held, Live, Recoveries
  <1>5. /\ resource[h] \in Resource /\ resource[h] # None
        /\ resource[h].slot \in InstanceState /\ resource[h].background \in BackgroundN
    BY <1>1, <1>4, HandleTypes
  <1>6. Follows(resource[h].background, resource[h].slot, next, e)
    BY <1>1, <1>2 DEF CallsFit
  <1>7. /\ resource' = [resource EXCEPT
                          ![h] = [[resource[h] EXCEPT !.slot = next] EXCEPT !.lock = "free"]]
        /\ history' = [history EXCEPT ![h] = Append(history[h], e)]
        /\ call' = [call EXCEPT ![c] = None]
        /\ UNCHANGED heir
    BY <1>1, <1>4 DEF commit, TypeOK
  <1>8. \A d \in Caller \ {c} : call[d] # None => call[d].on # h /\ call[d].on \in Handle
    BY <1>1, <1>2 DEF Exclusive, Held, Live, Recoveries
  <1> HIDE DEF h, next, e
  <1>9. /\ resource'[h] \in Resource /\ resource'[h].kind = resource[h].kind
        /\ resource'[h].background = resource[h].background
        /\ resource'[h].slot = next
        /\ \A k \in Handle \ {h} : resource'[k] = resource[k]
    BY <1>1, <1>3, <1>4, <1>5, <1>7, Refilled DEF TypeOK
  <1>10. /\ call'[c] = None /\ \A d \in Caller \ {c} : call'[d] = call[d]
    BY <1>1, <1>7 DEF TypeOK
  <1>11. /\ history[h] \in Seq(EnvelopeN) /\ Append(history[h], e) \in Seq(EnvelopeN)
         /\ history'[h] = Append(history[h], e)
         /\ \A k \in Handle \ {h} : history'[k] = history[k]
    BY <1>1, <1>3, <1>4, <1>7 DEF TypeOK
  <1>12. TypeOK'
    BY <1>1, <1>4, <1>7, <1>9, <1>11 DEF TypeOK
  <1>13. resource'[h] # None /\ next # None
    BY <1>3, <1>9, NoneAssumption
  <1>14. /\ Live \subseteq Handle /\ Recoveries \subseteq Handle /\ Held \subseteq Handle
         /\ Live' \subseteq Handle /\ Recoveries' \subseteq Handle /\ Held' \subseteq Handle
    BY DEF Live, Recoveries, Held
  <1>15. Live' = Live /\ Recoveries' = Recoveries /\ Held' = Held
    BY <1>1, <1>4, <1>5, <1>9, <1>12, <1>13, <1>14, HandleTypes, HandleTypesNext
  <1>16. Exclusive'
    BY <1>1, <1>8, <1>9, <1>10, <1>15 DEF Exclusive
  <1>17. CallsFit'
    BY <1>1, <1>8, <1>9, <1>10 DEF CallsFit
  <1>18. SlotsFilled'
    BY <1>1, <1>5, <1>7, <1>9, <1>11, <1>13, <1>15 DEF SlotsFilled
  <1>19. HeirsSound'
    BY <1>1, <1>7, <1>15 DEF HeirsSound
  <1>20. ChainsSound'
    <2>1. Reached(resource[h].background, resource[h].slot) /\ IsChain(history[h], resource[h].slot)
      BY <1>1, <1>4 DEF ChainsSound
    <2>2. Reached(resource[h].background, next)
      BY <1>3, <1>5, <1>6, <2>1, FollowsReached
    <2>3. Len(resource[h].slot.head) = resource[h].slot.sequence + 1
      BY <2>1 DEF Reached
    <2>4. IsChain(Append(history[h], e), next)
      BY <1>3, <1>5, <1>6, <1>11, <2>1, <2>3, FollowsChain
    <2>5. QED
      BY <1>1, <1>9, <1>11, <1>14, <1>15, <2>2, <2>4 DEF ChainsSound
  <1>21. QED
    BY <1>12, <1>16, <1>17, <1>18, <1>19, <1>20 DEF InstanceInv

(* A recovery is consumed and its state moves to a new live instance.      *)
LEMMA TakeInv ==
    ASSUME InstanceInv, NEW c \in Caller, NEW g \in Handle, finalize_take(c, g)
    PROVE  InstanceInv'
  <1> DEFINE h == call[c].on
             left == [[resource[h] EXCEPT !.slot = None] EXCEPT !.lock = "free"]
             new == Fresh("live", resource[h].background, resource[h].slot)
  <1>1. TypeOK /\ Exclusive /\ CallsFit /\ SlotsFilled /\ HeirsSound /\ ChainsSound
    BY DEF InstanceInv
  <1>2. call[c] # None /\ call[c].op = "finalize" /\ resource[g] = None
    BY DEF finalize_take
  <1>3. h \in Held /\ h \in Handle
    BY <1>1, <1>2 DEF Exclusive, Held, Live, Recoveries
  <1>4. /\ resource[h] \in Resource /\ resource[h] # None /\ resource[h].slot # None
        /\ resource[h].slot \in InstanceState /\ resource[h].background \in BackgroundN
    BY <1>1, <1>3, HandleTypes
  <1>5. resource[h].kind = "recovery" /\ g # h
    BY <1>1, <1>2, <1>4 DEF CallsFit
  <1>6. \A d \in Caller \ {c} : call[d] # None =>
            call[d].on \in Held /\ call[d].on # h /\ call[d].on # g /\ call[d].on \in Handle
    BY <1>1, <1>2, HandleTypes DEF Exclusive, Held, Live, Recoveries
  <1>7. /\ resource' = [[resource EXCEPT ![h] = left] EXCEPT ![g] = new]
        /\ history' = [history EXCEPT ![g] = history[h]]
        /\ heir' = [heir EXCEPT ![g] = h]
        /\ call' = [call EXCEPT ![c] = None]
    BY <1>1, <1>3, <1>5 DEF finalize_take, TypeOK, take
  <1>8. left \in Resource /\ left.kind = "recovery" /\ left.slot = None
    BY <1>4, <1>5, Refilled
  <1>9. /\ new \in Resource /\ new.kind = "live" /\ new.slot = resource[h].slot
        /\ new.background = resource[h].background
    BY <1>4 DEF Fresh, Resource
  <1> HIDE DEF h, left, new
  <1>10. /\ resource'[h] = left /\ resource'[g] = new
         /\ \A k \in Handle \ {g, h} : resource'[k] = resource[k]
    BY <1>1, <1>3, <1>5, <1>7 DEF TypeOK
  <1>11. /\ call'[c] = None /\ \A d \in Caller \ {c} : call'[d] = call[d]
    BY <1>1, <1>7 DEF TypeOK
  <1>12. /\ history'[g] = history[h] /\ \A k \in Handle \ {g} : history'[k] = history[k]
         /\ heir'[g] = h /\ \A k \in Handle \ {g} : heir'[k] = heir[k]
    BY <1>1, <1>3, <1>7 DEF TypeOK
  <1>13. TypeOK'
    BY <1>1, <1>3, <1>7, <1>8, <1>9 DEF TypeOK
  <1>14. left # None /\ new # None /\ h # None
    BY <1>3, <1>8, <1>9, NoneAssumption
  <1>15. /\ Live \subseteq Handle /\ Recoveries \subseteq Handle /\ Held \subseteq Handle
         /\ Live' \subseteq Handle /\ Recoveries' \subseteq Handle /\ Held' \subseteq Handle
    BY DEF Live, Recoveries, Held
  <1>16. /\ h \in Recoveries' /\ h \notin Held' /\ h \notin Live'
         /\ g \in Live' /\ g \in Held'
    BY <1>3, <1>4, <1>8, <1>9, <1>10, <1>13, <1>14, HandleTypesNext
  <1>17. \A k \in Handle \ {g, h} :
            /\ k \in Live' <=> k \in Live
            /\ k \in Recoveries' <=> k \in Recoveries
            /\ k \in Held' <=> k \in Held
    BY <1>1, <1>10, <1>13, HandleTypes, HandleTypesNext
  <1>18. Exclusive'
    BY <1>1, <1>6, <1>10, <1>11, <1>17 DEF Exclusive
  <1>19. CallsFit'
    BY <1>1, <1>6, <1>10, <1>11 DEF CallsFit
  <1>20. SlotsFilled'
    BY <1>1, <1>10, <1>12, <1>14, <1>15, <1>16, <1>17 DEF SlotsFilled
  <1>21. HeirsSound'
    <2>1. \A k \in Handle : heir[k] # None =>
            /\ k # g /\ k # h /\ heir[k] # h /\ heir[k] # g
            /\ heir[k] \in Handle
      BY <1>1, <1>2, <1>3, <1>4, <1>5, <1>15, HandleTypes DEF HeirsSound
    <2>2. QED
      BY <1>1, <1>12, <1>14, <1>15, <1>16, <1>17, <2>1 DEF HeirsSound
  <1>22. ChainsSound'
    <2>1. Reached(new.background, new.slot) /\ IsChain(history'[g], new.slot)
      BY <1>1, <1>3, <1>9, <1>12 DEF ChainsSound
    <2>2. QED
      BY <1>1, <1>10, <1>12, <1>15, <1>16, <1>17, <2>1 DEF ChainsSound
  <1>23. QED
    BY <1>13, <1>18, <1>19, <1>20, <1>21, <1>22 DEF InstanceInv

(* What callers present as recorded is an envelope.                        *)
LEMMA RecordedTyped ==
    ASSUME TypeOK
    PROVE  Recorded \subseteq EnvelopeN
  <1>1. ASSUME NEW h \in Handle
        PROVE  Range(history[h]) \subseteq EnvelopeN
    <2>1. history[h] \in Seq(EnvelopeN)
      BY DEF TypeOK
    <2>2. QED
      BY <2>1 DEF Range
  <1>2. Accepted \subseteq EnvelopeN
    BY <1>1 DEF Accepted
  <1>3. \A f \in Accepted : f.previous_digest \in Digest /\ f.digest \in Digest
    BY <1>2 DEF EnvelopeN
  <1>4. ASSUME NEW e \in EnvelopeN
        PROVE  /\ \A v \in Versions : [e EXCEPT !.version = v] \in EnvelopeN
               /\ \A s \in Nat : [e EXCEPT !.sequence = s] \in EnvelopeN
               /\ \A d \in CommandN : [e EXCEPT !.command = d] \in EnvelopeN
               /\ \A a \in ActionN : [e EXCEPT !.action = a] \in EnvelopeN
               /\ \A x \in Digest : [e EXCEPT !.previous_digest = x] \in EnvelopeN
               /\ \A x \in Digest : [e EXCEPT !.digest = x] \in EnvelopeN
    BY DEF EnvelopeN
  <1>5. \A s \in 1 .. MaxAcceptedSequence : s \in Nat
    BY ChainAssumption
  <1>6. ASSUME NEW e \in EnvelopeN
        PROVE  Altered(e) \subseteq EnvelopeN
    BY <1>3, <1>4, <1>5 DEF Altered
  <1>7. QED
    BY <1>2, <1>6 DEF Recorded

(* Every step keeps the invariant: one case per native function, for its   *)
(* entry and its commit.                                                   *)
LEMMA NextInstanceInv == InstanceInv /\ [Next]_vars => InstanceInv'
  <1> SUFFICES ASSUME InstanceInv, [Next]_vars PROVE InstanceInv'
    OBVIOUS
  <1>0. TypeOK /\ SlotsFilled
    BY DEF InstanceInv
  <1>1. ASSUME NEW h \in Handle, NEW b \in BackgroundN, instance_new(h, b) \/ recovery_new(h, b)
        PROVE  InstanceInv'
    BY <1>1, CreateInv DEF instance_new, recovery_new
  <1>2. ASSUME NEW c \in Caller, NEW h \in Handle, NEW command \in CommandN,
               apply(c, h, command)
        PROVE  InstanceInv'
    <2> DEFINE applied == apply_without_commit(resource[h].slot, resource[h].background, command)
               body == [op |-> "apply", on |-> h, next |-> applied.next,
                        envelope |-> applied.envelope]
    <2>1. h \in Live /\ applied # Error /\ enter(c, h, body)
      BY <1>2 DEF apply
    <2>2. h \in Held /\ resource[h].slot \in InstanceState /\ resource[h].background \in BackgroundN
      BY <1>0, <2>1, HandleTypes DEF SlotsFilled
    <2>3. /\ applied.next \in InstanceState /\ applied.envelope \in EnvelopeN
          /\ Follows(resource[h].background, resource[h].slot, applied.next, applied.envelope)
      BY <2>1, <2>2, ApplyFollows
    <2> HIDE DEF applied
    <2>4. /\ body \in Call /\ body.on = h /\ body.op # "finalize"
          /\ body.next = applied.next /\ body.envelope = applied.envelope
      BY <2>3 DEF Call
    <2> HIDE DEF body
    <2>5. QED
      BY <2>1, <2>2, <2>3, <2>4, EnterInv
  <1>3. ASSUME NEW c \in Caller, NEW h \in Handle, NEW recorded \in Recorded,
               replay_recorded(c, h, recorded)
        PROVE  InstanceInv'
    <2> DEFINE next == replay(resource[h].slot, resource[h].background, recorded)
               body == [op |-> "replay", on |-> h, next |-> next, envelope |-> recorded]
    <2>1. /\ h \in Recoveries /\ resource[h].slot # None
          /\ next # Error /\ enter(c, h, body)
      BY <1>3 DEF replay_recorded
    <2>2. h \in Held /\ resource[h].slot \in InstanceState /\ resource[h].background \in BackgroundN
      BY <1>0, <2>1, HandleTypes
    <2>3. recorded \in EnvelopeN
      BY <1>0, RecordedTyped
    <2>4. /\ next \in InstanceState
          /\ Follows(resource[h].background, resource[h].slot, next, recorded)
      BY <2>1, <2>2, <2>3, ReplayFollows
    <2> HIDE DEF next
    <2>5. /\ body \in Call /\ body.on = h /\ body.op # "finalize"
          /\ body.next = next /\ body.envelope = recorded
      BY <2>3, <2>4 DEF Call
    <2> HIDE DEF body
    <2>6. QED
      BY <2>1, <2>2, <2>4, <2>5, EnterInv
  <1>4. ASSUME NEW c \in Caller, NEW h \in Handle, NEW expected, finalize(c, h, expected)
        PROVE  InstanceInv'
    <2> DEFINE body == [op |-> "finalize", on |-> h]
    <2>1. h \in Recoveries /\ resource[h].slot # None /\ enter(c, h, body)
      BY <1>4 DEF finalize
    <2>2. h \in Held /\ resource[h].kind = "recovery"
      BY <1>0, <2>1, HandleTypes
    <2>3. body \in Call /\ body.on = h /\ body.op = "finalize"
      BY DEF Call
    <2> HIDE DEF body
    <2>4. QED
      BY <2>1, <2>2, <2>3, EnterInv
  <1>5. CASE UNCHANGED vars
    BY <1>5 DEF vars, InstanceInv, TypeOK, Exclusive, CallsFit, SlotsFilled, HeirsSound,
                ChainsSound, Held, Live, Recoveries
  <1>6. QED
    BY <1>1, <1>2, <1>3, <1>4, <1>5, CommitInv, PanicInv, TakeInv DEF Next

(* The inductive invariant of the native resources, for any callers and    *)
(* handles.                                                                *)
LEMMA InstanceHolds == Spec => []InstanceInv
  <1>1. Init => InstanceInv
    <2> SUFFICES ASSUME Init PROVE InstanceInv
      OBVIOUS
    <2>1. TypeOK
      BY DEF Init, TypeOK
    <2>2. Live = {} /\ Recoveries = {} /\ Held = {}
      BY DEF Init, Live, Recoveries, Held
    <2>3. QED
      BY <2>1, <2>2 DEF Init, InstanceInv, Exclusive, CallsFit, SlotsFilled, HeirsSound,
                        ChainsSound
  <1>2. QED
    BY <1>1, NextInstanceInv, PTL DEF Spec

---------------------------------------------------------------------------
(* Whatever callers interleave, panic or replay altered envelopes, and     *)
(* however long the histories are: the envelopes instance_apply returned,  *)
(* or recovery_replay accepted, are the links of the chain the resource    *)
(* holds.                                                                  *)
THEOREM EnvelopesChained == Spec => []EnvelopesAreTheChain
  <1>1. InstanceInv => EnvelopesAreTheChain
    BY DEF InstanceInv, ChainsSound, IsChain, EnvelopesAreTheChain
  <1>2. QED
    BY <1>1, InstanceHolds, PTL

(* Two resources with the same head, on whatever path they came to it, are *)
(* in the same kernel state under the same background: what recovery       *)
(* compares with the anchor is enough.  (That a digest stands for what it  *)
(* covers is assumed by DigestChain.)                                      *)
THEOREM HeadIdentifies == Spec => []HeadDeterminesState
  <1>1. InstanceInv => HeadDeterminesState
    <2> SUFFICES ASSUME InstanceInv, NEW g \in Held, NEW h \in Held,
                        resource[g].slot.head = resource[h].slot.head
                 PROVE  /\ resource[g].slot.kernel = resource[h].slot.kernel
                        /\ resource[g].background = resource[h].background
      BY DEF HeadDeterminesState
    <2>1. g \in Handle /\ h \in Handle
      BY DEF Held, Live, Recoveries
    <2>2. resource[g].slot \in InstanceState /\ resource[h].slot \in InstanceState
      BY <2>1, HandleTypes DEF InstanceInv
    <2>3. /\ Reached(resource[g].background, resource[g].slot)
          /\ Reached(resource[h].background, resource[h].slot)
      BY DEF InstanceInv, ChainsSound
    <2>4. QED
      BY <2>2, <2>3, HeadDetermines
  <1>2. QED
    BY <1>1, InstanceHolds, PTL

(* slot.take under the lock: callers that race to finalize one recovery    *)
(* get one live instance between them.                                     *)
THEOREM HeirUnique == Spec => []OneHeir
  <1>1. InstanceInv => OneHeir
    BY DEF InstanceInv, HeirsSound, OneHeir, Live
  <1>2. QED
    BY <1>1, InstanceHolds, PTL
===========================================================================
