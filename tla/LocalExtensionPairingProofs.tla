---------------------- MODULE LocalExtensionPairingProofs ----------------------
(***************************************************************************)
(* Proofs about the two halves of services/local_extension_pairing.py: the *)
(* codes and pairings (PairingStore), for any number of overlapping calls  *)
(* and any limits, and the token buckets in front of them (TokenBucket),   *)
(* for any capacities, rates and windows.                                  *)
(***************************************************************************)
EXTENDS PairingStore, TokenBucket, FiniteSetTheorems, TLAPS

-----------------------------------------------------------------------------
(* Codes and pairings: the inductive invariant *)

(* A call in flight has read a time that has come. *)
CallsInPast == \A q \in Calls : calls[q] # None => calls[q] <= now

(* A code that made a pairing is consumed: OneTimeCode is not inductive    *)
(* without this, since it says nothing of the code.                        *)
MadeByConsumed ==
  \A p \in Pairings :
    LET c == pairings[p].code IN
    c # None => /\ codes[c].consumed # None
                /\ codes[c].expires # None
                /\ pairings[p].created # None

(* A code that is still valid has a guess to spare; a code is not both     *)
(* consumed and invalidated; nothing is known of a code never issued.      *)
CodesInv ==
  \A c \in Codes :
    /\ codes[c].invalidated = None => codes[c].failed < MaxFailed
    /\ codes[c].consumed = None \/ codes[c].invalidated = None
    /\ codes[c].expires = None => codes[c] = NoCode

PairingInv ==
  /\ TypeOK
  /\ CallsInPast
  /\ MadeByConsumed
  /\ CodesInv
  /\ OneTimeCode
  /\ PairedProperly

-----------------------------------------------------------------------------
(* What each action does to codes and pairings *)

CodesStep(c) ==
  \/ codes'[c] = codes[c]
  \/ /\ codes[c].expires = None
     /\ \E t \in Nat : codes'[c] = [codes[c] EXCEPT !.expires = t + CodeTtl]
  \/ /\ codes[c].expires # None
     /\ codes[c].invalidated = None
     /\ codes[c].consumed = None
     /\ \E t \in Nat : \/ codes'[c] = [codes[c] EXCEPT !.consumed = t]
                       \/ codes'[c] = Guess(codes[c], t)

(* What every step does to one code. *)
LEMMA OneCode ==
  ASSUME TypeOK, [Next]_vars, NEW c \in Codes
  PROVE  CodesStep(c)
<1>0. \A q \in Calls : Finish(q) => calls[q] \in Nat
  BY DEF Finish, TypeOK, Time
<1>1. ASSUME NEW q \in Calls, NEW d \in Codes, CreateCode(q, d)
      PROVE  CodesStep(c)
  BY <1>0, <1>1 DEF CreateCode, CodesStep, TypeOK
<1>2. ASSUME NEW q \in Calls, NEW d \in Codes, PairWrong(q, d)
      PROVE  CodesStep(c)
  BY <1>0, <1>2 DEF PairWrong, CodesStep, TypeOK, Usable
<1>3. ASSUME NEW q \in Calls, NEW d \in Codes, NEW p \in Pairings, Pair(q, d, p)
      PROVE  CodesStep(c)
  BY <1>0, <1>3 DEF Pair, CodesStep, TypeOK, Usable
<1>4. CASE codes' = codes
  BY <1>4 DEF CodesStep
<1> QED
  BY <1>1, <1>2, <1>3, <1>4 DEF Next, vars, Tick, Start, Refused, Authenticate, Revoke

(* A wrong guess leaves a code record. *)
LEMMA GuessType ==
  ASSUME NEW rec \in Code, rec.invalidated = None, rec.failed < MaxFailed, NEW t \in Nat
  PROVE  /\ Guess(rec, t) \in Code
         /\ Guess(rec, t).expires = rec.expires
         /\ Guess(rec, t).consumed = rec.consumed
         /\ Guess(rec, t).invalidated = None => Guess(rec, t).failed < MaxFailed
<1>1. rec.failed \in 0..MaxFailed /\ MaxFailed \in Nat
  BY PairingStoreAssumption DEF Code
<1>2. rec.failed + 1 \in 0..MaxFailed
  BY <1>1
<1>3. /\ Guess(rec, t).failed = rec.failed + 1
      /\ Guess(rec, t).invalidated = IF rec.failed + 1 >= MaxFailed THEN t ELSE None
      /\ Guess(rec, t).expires = rec.expires
      /\ Guess(rec, t).consumed = rec.consumed
  BY DEF Guess, Code
<1>4. Guess(rec, t) \in Code
  BY <1>2 DEF Guess, Code, Time
<1> QED
  BY <1>1, <1>3, <1>4, PairingStoreAssumption
(* Issued codes keep their expiry, spent codes keep everything, and no     *)
(* code runs out of guesses without being invalidated.                     *)
LEMMA CodeFacts ==
  ASSUME TypeOK, CodesInv, [Next]_vars, NEW c \in Codes
  PROVE  /\ codes'[c] \in Code
         /\ codes'[c].expires = None => codes'[c] = NoCode
         /\ codes[c].expires # None => codes'[c].expires = codes[c].expires
         /\ codes[c].consumed # None \/ codes[c].invalidated # None => codes'[c] = codes[c]
         /\ codes'[c].invalidated = None => codes'[c].failed < MaxFailed
         /\ codes'[c].consumed = None \/ codes'[c].invalidated = None
<1>1. /\ codes[c] \in Code
      /\ codes[c].invalidated = None => codes[c].failed < MaxFailed
      /\ codes[c].consumed = None \/ codes[c].invalidated = None
      /\ codes[c].expires = None => codes[c] = NoCode
  BY DEF TypeOK, CodesInv
<1>2. CASE codes'[c] = codes[c]
  BY <1>1, <1>2
<1>3. ASSUME codes[c].expires = None, NEW t \in Nat,
             codes'[c] = [codes[c] EXCEPT !.expires = t + CodeTtl]
      PROVE  /\ codes'[c] \in Code
             /\ codes'[c].expires # None
             /\ codes[c].consumed = None /\ codes[c].invalidated = None
             /\ codes'[c].invalidated = None /\ codes'[c].failed < MaxFailed
  <2>1. t + CodeTtl \in Nat
    BY PairingStoreAssumption
  <2>2. codes[c] = NoCode
    BY <1>1, <1>3
  <2> QED
    BY <1>3, <2>1, <2>2, PairingStoreAssumption DEF NoCode, Code, Time
<1>4. ASSUME codes[c].invalidated = None, NEW t \in Nat,
             codes'[c] = [codes[c] EXCEPT !.consumed = t]
      PROVE  /\ codes'[c] \in Code
             /\ codes'[c].expires = codes[c].expires
             /\ codes'[c].invalidated = None /\ codes'[c].failed < MaxFailed
  BY <1>1, <1>4 DEF Code, Time
<1>5. ASSUME codes[c].invalidated = None, codes[c].consumed = None, NEW t \in Nat,
             codes'[c] = Guess(codes[c], t)
      PROVE  /\ codes'[c] \in Code
             /\ codes'[c].expires = codes[c].expires
             /\ codes'[c].consumed = None
             /\ codes'[c].invalidated = None => codes'[c].failed < MaxFailed
  BY <1>1, <1>5, GuessType
<1> QED
  BY <1>2, <1>3, <1>4, <1>5, <1>1, OneCode DEF CodesStep
(* What every step does to one pairing: nothing, a new pairing from a code *)
(* that was not consumed, a new last_seen_at, or a revocation.             *)
PairingsStep(p) ==
  \/ pairings'[p] = pairings[p]
  \/ \E c \in Codes, t \in Nat :
       /\ pairings[p].created = None
       /\ PairingRoom
       /\ Usable(c, t)
       /\ pairings'[p] = [created |-> t, seen |-> t, revoked |-> None, code |-> c]
       /\ codes'[c] = [codes[c] EXCEPT !.consumed = t]
       /\ \A o \in Pairings \ {p} : pairings'[o] = pairings[o]
  \/ /\ pairings[p].created # None
     /\ pairings[p].revoked = None
     /\ \E t \in Nat : \/ pairings'[p] = [pairings[p] EXCEPT !.seen = t]
                       \/ pairings'[p] = [pairings[p] EXCEPT !.revoked = t]
     /\ codes' = codes

LEMMA OnePairing ==
  ASSUME TypeOK, [Next]_vars, NEW p \in Pairings
  PROVE  PairingsStep(p)
<1>0. \A q \in Calls : Finish(q) => calls[q] \in Nat
  BY DEF Finish, TypeOK, Time
<1>1. ASSUME NEW q \in Calls, NEW c \in Codes, NEW o \in Pairings, Pair(q, c, o)
      PROVE  PairingsStep(p)
  <2>1. calls[q] \in Nat
    BY <1>0, <1>1 DEF Pair
  <2>2. CASE p = o
    BY <1>1, <2>1, <2>2 DEF Pair, PairingsStep, TypeOK
  <2>3. CASE p # o
    BY <1>1, <2>3 DEF Pair, PairingsStep, TypeOK
  <2> QED
    BY <2>2, <2>3
<1>2. ASSUME NEW q \in Calls, NEW o \in Pairings, Authenticate(q, o)
      PROVE  PairingsStep(p)
  BY <1>0, <1>2 DEF Authenticate, Valid, PairingsStep, TypeOK
<1>3. ASSUME NEW q \in Calls, NEW o \in Pairings, Revoke(q, o)
      PROVE  PairingsStep(p)
  <2>1. CASE p # o
    BY <1>3, <2>1 DEF Revoke, PairingsStep, TypeOK
  <2>2. CASE p = o /\ pairings[p].revoked # None
    <3>1. pairings'[p] = [pairings[p] EXCEPT !.revoked = pairings[p].revoked]
      BY <1>3, <2>2 DEF Revoke, RevokedAt, TypeOK
    <3>2. pairings'[p] = pairings[p]
      BY <3>1 DEF TypeOK, Pairing
    <3> QED
      BY <3>2 DEF PairingsStep
  <2>3. CASE p = o /\ pairings[p].revoked = None
    BY <1>0, <1>3, <2>3 DEF Revoke, RevokedAt, PairingsStep, TypeOK
  <2> QED
    BY <2>1, <2>2, <2>3
<1>4. CASE pairings' = pairings
  BY <1>4 DEF PairingsStep
<1> QED
  BY <1>1, <1>2, <1>3, <1>4 DEF Next, vars, Tick, Start, Refused, CreateCode, PairWrong

(* A pairing keeps its code and its creation; a new one has a fresh code.  *)
LEMMA PairingFacts ==
  ASSUME TypeOK, [Next]_vars, NEW p \in Pairings
  PROVE  /\ pairings'[p] \in Pairing
         /\ pairings[p].revoked # None => pairings'[p] = pairings[p] \/ pairings[p].created = None
         /\ \/ /\ pairings'[p].code = pairings[p].code
               /\ pairings'[p].created = pairings[p].created
            \/ \E c \in Codes, t \in Nat :
                 /\ pairings'[p].code = c
                 /\ pairings'[p].created = t
                 /\ Usable(c, t)
                 /\ codes'[c] = [codes[c] EXCEPT !.consumed = t]
                 /\ \A o \in Pairings \ {p} : pairings'[o] = pairings[o]
<1>1. pairings[p] \in Pairing
  BY DEF TypeOK
<1>2. CASE pairings'[p] = pairings[p]
  BY <1>1, <1>2
<1>3. CASE \E c \in Codes, t \in Nat :
             /\ pairings[p].created = None
             /\ Usable(c, t)
             /\ pairings'[p] = [created |-> t, seen |-> t, revoked |-> None, code |-> c]
             /\ codes'[c] = [codes[c] EXCEPT !.consumed = t]
             /\ \A o \in Pairings \ {p} : pairings'[o] = pairings[o]
  BY <1>3 DEF Pairing, Time
<1>4. ASSUME NEW t \in Nat,
             pairings[p].created # None,
             pairings[p].revoked = None,
             pairings'[p] = [pairings[p] EXCEPT !.seen = t] \/
             pairings'[p] = [pairings[p] EXCEPT !.revoked = t]
      PROVE  /\ pairings'[p] \in Pairing
             /\ pairings'[p].code = pairings[p].code
             /\ pairings'[p].created = pairings[p].created
  BY <1>1, <1>4 DEF Pairing, Time
<1> QED
  <2>1. CASE \E t \in Nat :
               /\ pairings[p].created # None
               /\ pairings[p].revoked = None
               /\ \/ pairings'[p] = [pairings[p] EXCEPT !.seen = t]
                  \/ pairings'[p] = [pairings[p] EXCEPT !.revoked = t]
    BY <1>4, <2>1
  <2> QED
    BY <1>2, <1>3, <2>1, OnePairing DEF PairingsStep

-----------------------------------------------------------------------------
(* The invariant is inductive *)

LEMMA PairingInit == Init => PairingInv
<1> SUFFICES ASSUME Init PROVE PairingInv
  OBVIOUS
<1>1. NoCode \in Code /\ NoPairing \in Pairing /\ MaxFailed > 0
  BY PairingStoreAssumption DEF NoCode, Code, NoPairing, Pairing, Time
<1>2. TypeOK
  BY <1>1 DEF Init, TypeOK, Time
<1>3. CodesInv
  BY <1>1 DEF Init, CodesInv, NoCode
<1> QED
  BY <1>2, <1>3 DEF Init, PairingInv, CallsInPast, MadeByConsumed, NoPairing,
     OneTimeCode, PairedProperly

(* Calls only read the clock, which only moves forward. *)
LEMMA CallsStep ==
  ASSUME TypeOK, CallsInPast, [Next]_vars
  PROVE  /\ now' \in Nat /\ calls' \in [Calls -> Time] /\ CallsInPast'
<1>1. \/ now' = now /\ calls' = calls
      \/ now' = now + 1 /\ calls' = calls
      \/ now' = now /\ \E q \in Calls : calls' = [calls EXCEPT ![q] = now]
      \/ now' = now /\ \E q \in Calls : calls' = [calls EXCEPT ![q] = None]
  BY DEF Next, vars, Tick, Start, Finish, Refused, CreateCode, Pair, PairWrong,
     Authenticate, Revoke
<1>2. now \in Nat /\ calls \in [Calls -> Time]
  BY DEF TypeOK
<1>3. CASE now' = now /\ calls' = calls
  BY <1>2, <1>3 DEF CallsInPast
<1>4. CASE now' = now + 1 /\ calls' = calls
  BY <1>2, <1>4 DEF CallsInPast, Time
<1>5. ASSUME now' = now, NEW q \in Calls, calls' = [calls EXCEPT ![q] = now]
      PROVE  calls' \in [Calls -> Time] /\ CallsInPast'
  BY <1>2, <1>5 DEF CallsInPast, Time
<1>6. ASSUME now' = now, NEW q \in Calls, calls' = [calls EXCEPT ![q] = None]
      PROVE  calls' \in [Calls -> Time] /\ CallsInPast'
  BY <1>2, <1>6 DEF CallsInPast, Time
<1> QED
  BY <1>1, <1>2, <1>3, <1>4, <1>5, <1>6

LEMMA PairingStep == PairingInv /\ [Next]_vars => PairingInv'
<1> SUFFICES ASSUME PairingInv, [Next]_vars PROVE PairingInv'
  OBVIOUS
<1> USE DEF PairingInv
<1>1. codes' \in [Codes -> Code] /\ pairings' \in [Pairings -> Pairing]
  <2>1. /\ codes' = [c \in Codes |-> codes'[c]]
        /\ pairings' = [p \in Pairings |-> pairings'[p]]
    BY DEF TypeOK, Next, vars, Tick, Start, Refused, CreateCode, Pair, PairWrong,
       Authenticate, Revoke
  <2> QED
    BY <2>1, CodeFacts, PairingFacts
<1>2. TypeOK' /\ CallsInPast'
  BY <1>1, CallsStep DEF TypeOK
<1>3. CodesInv'
  BY CodeFacts DEF CodesInv
<1>4. MadeByConsumed'
  <2> SUFFICES ASSUME NEW p \in Pairings, pairings'[p].code # None
               PROVE  LET c == pairings'[p].code IN
                      /\ codes'[c].consumed # None
                      /\ codes'[c].expires # None
                      /\ pairings'[p].created # None
    BY DEF MadeByConsumed
  <2>1. CASE pairings'[p].code = pairings[p].code
             /\ pairings'[p].created = pairings[p].created
    <3> DEFINE c == pairings[p].code
    <3>1. c \in Codes /\ codes[c].consumed # None /\ codes[c].expires # None
          /\ pairings[p].created # None
      BY <2>1 DEF MadeByConsumed, TypeOK, Pairing
    <3>2. codes'[c] = codes[c]
      BY <3>1, CodeFacts
    <3> QED
      BY <2>1, <3>1, <3>2
  <2>2. ASSUME NEW c \in Codes, NEW t \in Nat,
               pairings'[p].code = c, pairings'[p].created = t, Usable(c, t),
               codes'[c] = [codes[c] EXCEPT !.consumed = t]
        PROVE  /\ codes'[c].consumed # None
               /\ codes'[c].expires # None
               /\ pairings'[p].created # None
    <3>1. codes[c] \in Code /\ t # None
      BY PairingStoreAssumption DEF TypeOK
    <3> QED
      BY <2>2, <3>1 DEF Usable, Code
  <2>3. CASE \E c \in Codes, t \in Nat :
               /\ pairings'[p].code = c /\ pairings'[p].created = t
               /\ Usable(c, t)
               /\ codes'[c] = [codes[c] EXCEPT !.consumed = t]
    BY <2>2, <2>3
  <2>4. TypeOK
    OBVIOUS
  <2> QED
    BY <2>1, <2>3, <2>4, PairingFacts
<1>5. OneTimeCode'
  <2> SUFFICES ASSUME NEW p1 \in Pairings, NEW p2 \in Pairings, p1 # p2,
                      pairings'[p1].code # None,
                      pairings'[p1].code = pairings'[p2].code
               PROVE  FALSE
    BY DEF OneTimeCode
  <2>1. ASSUME NEW p \in Pairings, NEW o \in Pairings, p # o,
               pairings'[p].code = pairings'[o].code,
               NEW c \in Codes, NEW t \in Nat,
               pairings'[p].code = c,
               Usable(c, t),
               pairings'[o] = pairings[o]
        PROVE  FALSE
    <3>1. codes[c].consumed = None
      BY <2>1 DEF Usable
    <3>2. pairings[o].code = c /\ c # None
      BY <2>1, PairingStoreAssumption
    <3> QED
      BY <3>1, <3>2 DEF MadeByConsumed
  <2>2. CASE pairings'[p1].code = pairings[p1].code
             /\ pairings'[p2].code = pairings[p2].code
    BY <2>2 DEF OneTimeCode
  <2>3. CASE pairings'[p1].code # pairings[p1].code
    <3>1. PICK c \in Codes, t \in Nat :
            /\ pairings'[p1].code = c
            /\ Usable(c, t)
            /\ \A o \in Pairings \ {p1} : pairings'[o] = pairings[o]
      BY <2>3, PairingFacts
    <3> QED
      BY <2>1, <3>1
  <2>4. CASE pairings'[p2].code # pairings[p2].code
    <3>1. PICK c \in Codes, t \in Nat :
            /\ pairings'[p2].code = c
            /\ Usable(c, t)
            /\ \A o \in Pairings \ {p2} : pairings'[o] = pairings[o]
      BY <2>4, PairingFacts
    <3> QED
      BY <2>1, <3>1
  <2> QED
    BY <2>2, <2>3, <2>4
<1>6. PairedProperly'
  <2> SUFFICES ASSUME NEW p \in Pairings, pairings'[p].code # None
               PROVE  LET code == codes'[pairings'[p].code] IN
                      /\ pairings'[p].created < code.expires
                      /\ code.failed < MaxFailed
    BY DEF PairedProperly
  <2>1. CASE pairings'[p].code = pairings[p].code
             /\ pairings'[p].created = pairings[p].created
    <3> DEFINE c == pairings[p].code
    <3>1. c \in Codes /\ codes[c].consumed # None
      BY <2>1 DEF MadeByConsumed, TypeOK, Pairing
    <3>2. codes'[c] = codes[c]
      BY <3>1, CodeFacts
    <3> QED
      BY <2>1, <3>1, <3>2 DEF PairedProperly
  <2>2. ASSUME NEW c \in Codes, NEW t \in Nat,
               pairings'[p].code = c, pairings'[p].created = t, Usable(c, t),
               codes'[c] = [codes[c] EXCEPT !.consumed = t]
        PROVE  /\ pairings'[p].created < codes'[c].expires
               /\ codes'[c].failed < MaxFailed
    <3>1. codes[c] \in Code
      BY DEF TypeOK
    <3>2. codes'[c].expires = codes[c].expires /\ codes'[c].failed = codes[c].failed
      BY <2>2, <3>1 DEF Code
    <3> QED
      BY <2>2, <3>2 DEF Usable, CodesInv
  <2> QED
    BY <2>1, <2>2, PairingFacts
<1> QED
  BY <1>2, <1>3, <1>4, <1>5, <1>6

LEMMA PairingInvariant == Spec => []PairingInv
  BY PairingInit, PairingStep, PTL DEF Spec

-----------------------------------------------------------------------------
(* Theorems about codes and pairings *)

(* Type correctness of codes, pairings and calls in flight. *)
THEOREM PairingTypes == Spec => []TypeOK
<1>1. PairingInv => TypeOK
  BY DEF PairingInv
<1> QED
  BY <1>1, PairingInvariant, PTL

(* However many calls submit the same code at once, it makes at most one   *)
(* pairing.                                                                *)
THEOREM OneTimeCorrect == Spec => []OneTimeCode
<1>1. PairingInv => OneTimeCode
  BY DEF PairingInv
<1> QED
  BY <1>1, PairingInvariant, PTL

(* Every pairing was made before its code expired and with a guess left.   *)
THEOREM PairedProperlyCorrect == Spec => []PairedProperly
<1>1. PairingInv => PairedProperly
  BY DEF PairingInv
<1> QED
  BY <1>1, PairingInvariant, PTL

(* A consumed or invalidated code is never used or changed again. *)
THEOREM SpentCorrect == Spec => SpentIsSpent
<1>1. PairingInv /\ [Next]_vars =>
        [\A c \in Codes :
           codes[c].consumed # None \/ codes[c].invalidated # None =>
             codes'[c] = codes[c]]_vars
  BY CodeFacts DEF PairingInv
<1> QED
  BY <1>1, PairingInvariant, PTL DEF Spec, SpentIsSpent

(* There are never more pairings in force than the limit. *)
THEOREM PairingsBoundedCorrect == Spec => []PairingsBounded
<1>0. ASSUME NEW S \in SUBSET Pairings
      PROVE  IsFiniteSet(S) /\ Cardinality(S) \in Nat
  BY FS_Subset, FS_CardinalityType, PairingStoreAssumption
<1>1. Init => PairingsBounded
  <2> SUFFICES ASSUME Init PROVE PairingsBounded
    OBVIOUS
  <2>1. ActivePairings = {}
    BY DEF Init, ActivePairings, NoPairing
  <2> QED
    BY <2>1, FS_EmptySet, PairingStoreAssumption DEF PairingsBounded
<1>2. PairingInv /\ PairingsBounded /\ [Next]_vars => PairingsBounded'
  <2> SUFFICES ASSUME PairingInv, PairingsBounded, [Next]_vars
               PROVE  PairingsBounded'
    OBVIOUS
  <2> USE DEF PairingInv
  <2>1. ActivePairings' \in SUBSET Pairings /\ ActivePairings \in SUBSET Pairings
    BY DEF ActivePairings
  <2>2. CASE ActivePairings' \subseteq ActivePairings
    <3>1. Cardinality(ActivePairings') <= Cardinality(ActivePairings)
      BY <1>0, <2>1, <2>2, FS_Subset
    <3> QED
      BY <1>0, <2>1, <3>1, PairingStoreAssumption DEF PairingsBounded
  <2>3. ASSUME NEW p \in Pairings, p \in ActivePairings', p \notin ActivePairings
        PROVE  PairingsBounded'
    <3>1. pairings'[p] # pairings[p]
      BY <2>3 DEF ActivePairings
    <3>2. PairingRoom /\ \A o \in Pairings \ {p} : pairings'[o] = pairings[o]
      BY <2>3, <3>1, OnePairing DEF PairingsStep, ActivePairings
    <3>3. ActivePairings' \subseteq ActivePairings \cup {p}
      BY <3>2 DEF ActivePairings
    <3>4. IsFiniteSet(ActivePairings) /\ Cardinality(ActivePairings) \in Nat
      BY <1>0, <2>1
    <3>5. /\ IsFiniteSet(ActivePairings \cup {p})
          /\ Cardinality(ActivePairings \cup {p}) = Cardinality(ActivePairings) + 1
      BY <2>3, <3>4, FS_AddElement
    <3>6. Cardinality(ActivePairings') <= Cardinality(ActivePairings \cup {p})
      BY <3>3, <3>5, FS_Subset
    <3> QED
      BY <1>0, <2>1, <3>2, <3>4, <3>5, <3>6, PairingStoreAssumption
         DEF PairingRoom, PairingsBounded
  <2> QED
    BY <2>1, <2>2, <2>3
<1> QED
  BY <1>1, <1>2, PairingInvariant, PTL DEF Spec

(* Only a pairing that was given out is revoked, so none starts revoked. *)
RevokedExist ==
  \A p \in Pairings : pairings[p].revoked # None => pairings[p].created # None

(* Revocation sticks: a revoked pairing never changes again. *)
THEOREM RevocationCorrect == Spec => RevocationSticks
<1>1. Init => RevokedExist
  BY DEF Init, NoPairing, RevokedExist
<1>2. PairingInv /\ RevokedExist /\ [Next]_vars => RevokedExist'
  <2> SUFFICES ASSUME PairingInv, RevokedExist, [Next]_vars,
                      NEW p \in Pairings, pairings'[p].revoked # None
               PROVE  pairings'[p].created # None
    BY DEF RevokedExist
  <2>1. TypeOK /\ pairings[p] \in Pairing
    BY DEF PairingInv, TypeOK
  <2>2. CASE pairings[p].created = None
    <3>1. pairings[p].revoked = None
      BY <2>2 DEF RevokedExist
    <3>2. PairingsStep(p)
      BY <2>1, OnePairing
    <3>3. pairings'[p] # pairings[p]
      BY <3>1
    <3>4. PICK t \in Nat, c \in Codes :
            pairings'[p] = [created |-> t, seen |-> t, revoked |-> None, code |-> c]
      BY <2>2, <3>2, <3>3 DEF PairingsStep
    <3> QED
      BY <3>4
  <2>3. CASE pairings[p].created # None
    BY <2>1, <2>3, PairingFacts, PairingStoreAssumption
  <2> QED
    BY <2>2, <2>3
<1>3. PairingInv /\ RevokedExist /\ [Next]_vars =>
        [\A p \in Pairings : pairings[p].revoked # None => pairings'[p] = pairings[p]]_vars
  <2> SUFFICES ASSUME PairingInv, RevokedExist, [Next]_vars,
                      NEW p \in Pairings, pairings[p].revoked # None
               PROVE  pairings'[p] = pairings[p]
    OBVIOUS
  <2> QED
    BY PairingFacts DEF PairingInv, RevokedExist
<1> QED
  BY <1>1, <1>2, <1>3, PairingInvariant, PTL DEF Spec, RevocationSticks

(* There are never more active codes than the limit on the clock itself:   *)
(* a call counts at the time it has read, when no fewer were active.       *)
THEOREM CodesBoundedCorrect == Spec => []CodesBounded
<1>0. ASSUME NEW S \in SUBSET Codes
      PROVE  IsFiniteSet(S) /\ Cardinality(S) \in Nat
  BY FS_Subset, FS_CardinalityType, PairingStoreAssumption
<1>1. Init => CodesBounded
  <2> SUFFICES ASSUME Init PROVE CodesBounded
    OBVIOUS
  <2>1. ActiveCodes(now) = {}
    BY DEF Init, ActiveCodes, NoCode
  <2> QED
    BY <2>1, FS_EmptySet, PairingStoreAssumption DEF CodesBounded
<1>2. PairingInv /\ CodesBounded /\ [Next]_vars => CodesBounded'
  <2> SUFFICES ASSUME PairingInv, CodesBounded, [Next]_vars
               PROVE  CodesBounded'
    OBVIOUS
  <2> USE DEF PairingInv
  <2>1. ActiveCodes(now)' \in SUBSET Codes /\ \A t : ActiveCodes(t) \in SUBSET Codes
    BY DEF ActiveCodes
  <2>2. CASE ActiveCodes(now)' \subseteq ActiveCodes(now)
    <3>1. Cardinality(ActiveCodes(now)') <= Cardinality(ActiveCodes(now))
      BY <1>0, <2>1, <2>2, FS_Subset
    <3> QED
      BY <1>0, <2>1, <3>1, PairingStoreAssumption DEF CodesBounded
  <2>3. ASSUME NEW q \in Calls, NEW c \in Codes, CreateCode(q, c)
        PROVE  CodesBounded'
    <3> DEFINE t == calls[q]
    <3>1. t \in Nat /\ now \in Nat /\ t <= now
      BY <2>3 DEF CreateCode, Finish, TypeOK, Time, CallsInPast
    <3>2. ActiveCodes(now)' \subseteq ActiveCodes(t) \cup {c}
      <4> SUFFICES ASSUME NEW d \in Codes, d # c, d \in ActiveCodes(now)'
                   PROVE  d \in ActiveCodes(t)
        BY DEF ActiveCodes
      <4>1. codes'[d] = codes[d] /\ now' = now
        BY <2>3 DEF CreateCode, TypeOK
      <4>2. codes[d].expires \in Time
        BY DEF TypeOK, Code
      <4> QED
        BY <3>1, <4>1, <4>2 DEF ActiveCodes, Time
    <3>3. c \notin ActiveCodes(t)
      BY <2>3 DEF CreateCode, ActiveCodes
    <3>4. IsFiniteSet(ActiveCodes(t)) /\ Cardinality(ActiveCodes(t)) \in Nat
      BY <1>0, <2>1
    <3>5. /\ IsFiniteSet(ActiveCodes(t) \cup {c})
          /\ Cardinality(ActiveCodes(t) \cup {c}) = Cardinality(ActiveCodes(t)) + 1
      BY <3>3, <3>4, FS_AddElement
    <3>6. Cardinality(ActiveCodes(now)') <= Cardinality(ActiveCodes(t) \cup {c})
      BY <3>2, <3>5, FS_Subset
    <3>7. CodeRoom(t)
      BY <2>3 DEF CreateCode
    <3> QED
      BY <1>0, <2>1, <3>4, <3>5, <3>6, <3>7, PairingStoreAssumption
         DEF CodeRoom, CodesBounded
  <2>4. CASE Tick
    <3>1. now' = now + 1 /\ codes' = codes /\ now \in Nat
      BY <2>4 DEF Tick, TypeOK
    <3>2. \A c \in Codes : codes[c].expires \in Time
      BY DEF TypeOK, Code
    <3> QED
      BY <2>2, <3>1, <3>2 DEF ActiveCodes, Time
  <2>5. ASSUME now' = now,
               \A c \in Codes : codes[c].expires # None \/ codes'[c] = codes[c]
        PROVE  CodesBounded'
    <3>1. \A c \in Codes :
            \/ codes'[c] = codes[c]
            \/ codes'[c].consumed # None \/ codes'[c].invalidated # None
            \/ /\ codes[c].consumed = None /\ codes[c].invalidated = None
               /\ codes'[c].expires = codes[c].expires
      BY <2>5, CodeFacts
    <3> QED
      BY <2>2, <2>5, <3>1 DEF ActiveCodes
  <2>6. CASE UNCHANGED vars
    BY <2>5, <2>6 DEF vars
  <2>7. ASSUME NEW q \in Calls, NEW c \in Codes,
               PairWrong(q, c) \/ \E p \in Pairings : Pair(q, c, p)
        PROVE  CodesBounded'
    <3>1. now' = now
      BY <2>7 DEF PairWrong, Pair
    <3>2. \A d \in Codes : codes[d].expires # None \/ codes'[d] = codes[d]
      BY <2>7 DEF PairWrong, Pair, Usable, TypeOK
    <3> QED
      BY <2>5, <3>1, <3>2
  <2>8. ASSUME NEW q \in Calls,
               \/ Start(q) \/ Refused(q)
               \/ \E p \in Pairings : Authenticate(q, p) \/ Revoke(q, p)
        PROVE  CodesBounded'
    BY <2>5, <2>8 DEF Start, Refused, Authenticate, Revoke
  <2> QED
    BY <2>3, <2>4, <2>6, <2>7, <2>8 DEF Next
<1> QED
  BY <1>1, <1>2, PairingInvariant, PTL DEF Spec

-----------------------------------------------------------------------------
(* Token buckets: arithmetic *)

(* A bucket fills at a natural rate up to a natural capacity. *)
LEMMA RateIsPositive ==
  ASSUME NEW k \in Keys
  PROVE  /\ Rate(k) \in Nat /\ Capacity(k) \in Nat
         /\ Capacity(k) * Minute \in Nat
<1>1. Rate(k) \in Nat /\ Capacity(k) \in Nat /\ Minute \in Nat
  BY TokenBucketAssumption DEF Rate, Capacity
<1>2. \A m, n \in Nat : m * n \in Nat
  OBVIOUS
<1> QED
  BY <1>1, <1>2

(* The gains of two spans of time add up ... *)
LEMMA Distributes ==
  ASSUME NEW a \in Int, NEW b \in Int, NEW c \in Int, NEW r \in Int
  PROVE  (b - a) * r + (c - b) * r = (c - a) * r
  OBVIOUS

(* ... and a longer span gains no less. *)
LEMMA GainIsMonotone ==
  ASSUME NEW a \in Int, NEW b \in Int, NEW r \in Nat, a <= b
  PROVE  a * r <= b * r
  OBVIOUS

-----------------------------------------------------------------------------
(* Token buckets: the inductive invariant *)

(* Nothing carries a time that has not come, and an upload in flight,      *)
(* alone on the loop, has read the clock after its bucket was updated.     *)
TimesInv ==
  /\ \A k \in Keys : updated[k] # Never => updated[k] <= clock
  /\ \A k \in Keys : since[k] # Never => since[k] <= clock
  /\ \A f \in Flights : read[f] # Never =>
       /\ read[f] <= clock
       /\ updated[f[1]] # Never => updated[f[1]] <= read[f]
  /\ \A f, g \in Flights : read[f] # Never /\ read[g] # Never => f = g

LevelInv == \A k \in Keys : level[k] <= Capacity(k) * Minute

(* What a bucket has admitted in the window, together with what it holds,  *)
(* came from its capacity and its gain up to the last update.              *)
WindowInv ==
  \A k \in Keys :
    /\ since[k] = Never => count[k] = 0
    /\ since[k] # Never =>
         IF updated[k] # Never /\ updated[k] >= since[k]
         THEN count[k] * Minute + level[k]
                <= Capacity(k) * Minute + (updated[k] - since[k]) * Rate(k)
         ELSE count[k] = 0

BucketInv == BucketsTypeOK /\ TimesInv /\ LevelInv /\ WindowInv

LEMMA BucketInit == BucketsInit => BucketInv
<1> SUFFICES ASSUME BucketsInit PROVE BucketInv
  OBVIOUS
<1>1. BucketsTypeOK /\ LevelInv
  BY RateIsPositive DEF BucketsInit, BucketsTypeOK, LevelInv
<1>2. TimesInv /\ WindowInv
  BY DEF BucketsInit, TimesInv, WindowInv
<1> QED
  BY <1>1, <1>2 DEF BucketInv

(* consume on one bucket, at a time not before its last update. *)
LEMMA ConsumeKeeps ==
  ASSUME BucketInv, NEW k \in Keys, NEW t \in Nat,
         updated[k] # Never => updated[k] <= t
  PROVE  /\ Left(k, t) \in Nat
         /\ Left(k, t) <= Capacity(k) * Minute
         /\ since[k] # Never =>
              LET new == IF Admits(k, t) /\ InWindow(k, t)
                         THEN count[k] + 1 ELSE count[k]
              IN IF t >= since[k]
                 THEN new * Minute + Left(k, t)
                        <= Capacity(k) * Minute + (t - since[k]) * Rate(k)
                 ELSE new = 0
<1> DEFINE full == Capacity(k) * Minute
           gain == Elapsed(k, t) * Rate(k)
           new == IF Admits(k, t) /\ InWindow(k, t) THEN count[k] + 1 ELSE count[k]
<1>1. /\ level[k] \in Nat /\ count[k] \in Nat /\ Minute \in Nat
      /\ full \in Nat /\ Rate(k) \in Nat
      /\ updated[k] \in Nat \cup {Never}
      /\ since[k] \in Nat \cup {Never}
      /\ level[k] <= full
  BY RateIsPositive, TokenBucketAssumption DEF BucketInv, BucketsTypeOK, LevelInv
<1>2. Elapsed(k, t) \in Nat /\ gain \in Nat
  <2>1. Elapsed(k, t) \in Nat
    BY <1>1 DEF Elapsed, Greatest
  <2>2. \A m, n \in Nat : m * n \in Nat
    OBVIOUS
  <2> QED
    BY <1>1, <2>1, <2>2
<1>3. /\ Refilled(k, t) \in Nat
      /\ Refilled(k, t) <= full
      /\ Refilled(k, t) <= level[k] + gain
  <2> HIDE DEF full, gain
  <2>1. Refilled(k, t) = Least(full, level[k] + gain)
    BY DEF Refilled, full, gain
  <2> QED
    BY <1>1, <1>2, <2>1 DEF Least
<1>4. /\ Left(k, t) \in Nat /\ Left(k, t) <= full
      /\ Left(k, t) = IF Admits(k, t) THEN Refilled(k, t) - Minute ELSE Refilled(k, t)
  <2> HIDE DEF full
  <2> QED
    BY <1>1, <1>3 DEF Left, Admits
<1>5. ASSUME since[k] # Never, t >= since[k]
      PROVE  new * Minute + Left(k, t) <= full + (t - since[k]) * Rate(k)
  <2>1. InWindow(k, t)
    BY <1>5 DEF InWindow
  <2>2. new * Minute + Left(k, t) = count[k] * Minute + Refilled(k, t)
    BY <1>1, <1>3, <1>4, <2>1
  <2>3. CASE updated[k] # Never /\ updated[k] >= since[k]
    <3>1. count[k] * Minute + level[k] <= full + (updated[k] - since[k]) * Rate(k)
      BY <1>5, <2>3 DEF BucketInv, WindowInv
    <3>2. gain = (t - updated[k]) * Rate(k)
      BY <1>1, <2>3 DEF Elapsed, Greatest
    <3>3. (updated[k] - since[k]) * Rate(k) + gain = (t - since[k]) * Rate(k)
      BY <1>1, <1>5, <2>3, <3>2, Distributes
    <3>4. /\ (updated[k] - since[k]) * Rate(k) \in Int
          /\ (t - since[k]) * Rate(k) \in Int
          /\ count[k] * Minute \in Int
      BY <1>1, <1>5, <2>3
    <3> HIDE DEF full, gain, new
    <3> QED
      BY <1>1, <1>2, <1>3, <2>2, <3>1, <3>3, <3>4
  <2>4. CASE ~(updated[k] # Never /\ updated[k] >= since[k])
    <3>1. count[k] = 0
      BY <1>5, <2>4 DEF BucketInv, WindowInv
    <3>2. (t - since[k]) * Rate(k) \in Nat
      <4>1. \A m, n \in Nat : m * n \in Nat
        OBVIOUS
      <4> QED
        BY <1>1, <1>5, <4>1
    <3>3. count[k] * Minute = 0
      BY <1>1, <3>1
    <3> HIDE DEF full, new
    <3> QED
      BY <1>1, <1>3, <2>2, <3>2, <3>3
  <2> QED
    BY <2>3, <2>4
<1>6. ASSUME since[k] # Never, ~(t >= since[k])
      PROVE  new = 0
  BY <1>1, <1>6 DEF BucketInv, WindowInv, InWindow
<1> QED
  BY <1>4, <1>5, <1>6

(* Consuming buckets, none of them at a time before its last update. *)
LEMMA ConsumeStep ==
  ASSUME BucketInv, NEW ks \in SUBSET Keys, NEW t \in Nat,
         \A k \in ks : updated[k] # Never => updated[k] <= t,
         Consume(ks, t), UNCHANGED <<clock, since>>,
         t <= clock, read' \in [Flights -> Nat \cup {Never}]
  PROVE  BucketsTypeOK' /\ LevelInv' /\ WindowInv'
         /\ \A k \in Keys : updated'[k] # Never => updated'[k] <= clock'
<1>1. ASSUME NEW k \in ks
      PROVE  /\ level'[k] = Left(k, t) /\ updated'[k] = t
             /\ count'[k] = IF Admits(k, t) /\ InWindow(k, t)
                            THEN count[k] + 1 ELSE count[k]
  BY <1>1 DEF Consume
<1>2. ASSUME NEW k \in Keys \ ks
      PROVE  level'[k] = level[k] /\ updated'[k] = updated[k] /\ count'[k] = count[k]
  BY <1>2 DEF Consume
<1>3. ASSUME NEW k \in ks
      PROVE  /\ Left(k, t) \in Nat
             /\ Left(k, t) <= Capacity(k) * Minute
             /\ since[k] # Never =>
                  IF t >= since[k]
                  THEN count'[k] * Minute + Left(k, t)
                         <= Capacity(k) * Minute + (t - since[k]) * Rate(k)
                  ELSE count'[k] = 0
  BY <1>1, <1>3, ConsumeKeeps
<1>4. BucketsTypeOK'
  <2>1. /\ level' = [k \in Keys |-> level'[k]]
        /\ updated' = [k \in Keys |-> updated'[k]]
        /\ count' = [k \in Keys |-> count'[k]]
    BY DEF Consume
  <2>2. ASSUME NEW k \in Keys
        PROVE  level'[k] \in Nat /\ updated'[k] \in Nat \cup {Never} /\ count'[k] \in Nat
    BY <1>1, <1>2, <1>3 DEF BucketInv, BucketsTypeOK
  <2> QED
    BY <2>1, <2>2 DEF BucketInv, BucketsTypeOK
<1>5. LevelInv'
  BY <1>1, <1>2, <1>3 DEF BucketInv, LevelInv, Capacity
<1>6. WindowInv'
  <2>1. ASSUME NEW k \in ks, since[k] = Never
        PROVE  count'[k] = 0
    BY <1>1, <2>1 DEF BucketInv, WindowInv, InWindow
  <2>2. \A k \in ks : t # Never
    BY TokenBucketAssumption
  <2> QED
    BY <1>1, <1>2, <1>3, <2>1, <2>2 DEF BucketInv, WindowInv, Capacity, Rate
<1>7. \A k \in Keys : updated'[k] # Never => updated'[k] <= clock'
  BY <1>1, <1>2 DEF BucketInv, TimesInv
<1> QED
  BY <1>4, <1>5, <1>6, <1>7

LEMMA BucketStep == OneLoop /\ BucketInv /\ [BucketsNext]_bucketVars => BucketInv'
<1> SUFFICES ASSUME OneLoop, BucketInv, [BucketsNext]_bucketVars PROVE BucketInv'
  OBVIOUS
<1> USE DEF BucketInv
<1>1. CASE ClockTick
  <2>1. PICK d \in Steps : clock' = clock + d
    BY <1>1 DEF ClockTick
  <2>2. d \in Nat /\ UNCHANGED <<level, updated, read, since, count>>
    BY <1>1, TokenBucketAssumption DEF ClockTick
  <2> QED
    BY <2>1, <2>2 DEF BucketsTypeOK, TimesInv, LevelInv, WindowInv
<1>2. ASSUME NEW k \in Keys, OpenWindow(k)
      PROVE  BucketInv'
  <2>1. /\ UNCHANGED <<clock, level, updated, read, count>>
        /\ since[k] = Never
        /\ since' = [since EXCEPT ![k] = clock]
    BY <1>2 DEF OpenWindow
  <2>2. BucketsTypeOK' /\ TimesInv' /\ LevelInv'
    BY <2>1 DEF BucketsTypeOK, TimesInv, LevelInv
  <2>3. ASSUME updated[k] # Never, updated[k] >= clock
        PROVE  count[k] * Minute + level[k]
                 <= Capacity(k) * Minute + (updated[k] - clock) * Rate(k)
    <3>1. updated[k] - clock = 0
      BY <2>3 DEF TimesInv, BucketsTypeOK
    <3>2. count[k] = 0 /\ level[k] \in Nat /\ level[k] <= Capacity(k) * Minute
      BY <2>1 DEF WindowInv, LevelInv, BucketsTypeOK
    <3>3. count[k] * Minute = 0 /\ (updated[k] - clock) * Rate(k) = 0
      BY <3>1, <3>2, RateIsPositive, TokenBucketAssumption
    <3> QED
      BY <3>2, <3>3, RateIsPositive
  <2>4. WindowInv'
    BY <2>1, <2>3 DEF WindowInv, BucketsTypeOK
  <2> QED
    BY <2>2, <2>4
<1>3. ASSUME NEW c \in Clients, PairAttempt(c)
      PROVE  BucketInv'
  <2> DEFINE ks == IF Admits(c, clock) THEN {c, Global} ELSE {c}
  <2>1. /\ Consume(ks, clock) /\ UNCHANGED <<clock, read, since>>
        /\ ks \in SUBSET Keys /\ clock \in Nat
    BY <1>3 DEF PairAttempt, Keys, BucketsTypeOK
  <2>2. \A k \in ks : updated[k] # Never => updated[k] <= clock
    BY <2>1 DEF TimesInv
  <2>3. /\ BucketsTypeOK' /\ LevelInv' /\ WindowInv'
        /\ \A k \in Keys : updated'[k] # Never => updated'[k] <= clock'
    <3>1. read' \in [Flights -> Nat \cup {Never}]
      BY <2>1 DEF BucketsTypeOK
    <3> HIDE DEF ks
    <3> QED
      BY <2>1, <2>2, <3>1, ConsumeStep
  <2>4. \A p \in Uploaders : p \in Keys /\ p \notin ks
    BY TokenBucketAssumption DEF Keys
  <2>5. \A p \in Uploaders : updated'[p] = updated[p]
    <3> HIDE DEF ks
    <3> QED
      BY <2>1, <2>4 DEF Consume
  <2>6. TimesInv'
    BY <2>1, <2>3, <2>5 DEF TimesInv, Flights
  <2> QED
    BY <2>3, <2>6
<1>4. ASSUME NEW f \in Flights, UploadReads(f)
      PROVE  BucketInv'
  <2>1. /\ UNCHANGED <<clock, level, updated, since, count>>
        /\ read' = [read EXCEPT ![f] = clock]
        /\ \A g \in Flights : read[g] = Never
        /\ f[1] \in Keys
    BY <1>4 DEF UploadReads, Flights, Keys
  <2>2. BucketsTypeOK' /\ LevelInv' /\ WindowInv'
    BY <2>1 DEF BucketsTypeOK, LevelInv, WindowInv
  <2>3. TimesInv'
    BY <2>1 DEF BucketsTypeOK, TimesInv
  <2> QED
    BY <2>2, <2>3
<1>5. ASSUME NEW f \in Flights, UploadAttempt(f)
      PROVE  BucketInv'
  <2>1. /\ read[f] # Never
        /\ Consume({f[1]}, read[f]) /\ UNCHANGED <<clock, since>>
        /\ read' = [read EXCEPT ![f] = Never]
        /\ {f[1]} \in SUBSET Keys
    BY <1>5 DEF UploadAttempt, Flights, Keys
  <2>2. /\ read[f] \in Nat /\ read[f] <= clock
        /\ \A k \in {f[1]} : updated[k] # Never => updated[k] <= read[f]
        /\ read' \in [Flights -> Nat \cup {Never}]
    BY <2>1 DEF BucketsTypeOK, TimesInv
  <2>3. /\ BucketsTypeOK' /\ LevelInv' /\ WindowInv'
        /\ \A k \in Keys : updated'[k] # Never => updated'[k] <= clock'
    BY <2>1, <2>2, ConsumeStep
  <2>4. \A g \in Flights : read'[g] = Never
    BY <2>1 DEF BucketsTypeOK, TimesInv
  <2>5. TimesInv'
    BY <2>1, <2>3, <2>4 DEF TimesInv
  <2> QED
    BY <2>3, <2>5
<1>6. CASE UNCHANGED bucketVars
  BY <1>6 DEF bucketVars, BucketsTypeOK, TimesInv, LevelInv, WindowInv
<1> QED
  BY <1>1, <1>2, <1>3, <1>4, <1>5, <1>6 DEF BucketsNext

-----------------------------------------------------------------------------
(* Theorems about the token buckets *)

(* The levels stay natural numbers and the times past ones or Never: a     *)
(* bucket never owes anything.                                             *)
THEOREM BucketTypes ==
  ASSUME OneLoop
  PROVE  BucketsSpec => []BucketsTypeOK
<1>1. BucketInv => BucketsTypeOK
  BY DEF BucketInv
<1> QED
  BY <1>1, BucketInit, BucketStep, PTL DEF BucketsSpec

(* Whatever the capacity and the rate, in any window of any length a       *)
(* bucket admits no more than its capacity and what it gains meanwhile,    *)
(* when uploads share one event loop.                                      *)
THEOREM WindowBoundedCorrect ==
  ASSUME OneLoop
  PROVE  BucketsSpec => []WindowBounded
<1>1. BucketInv => WindowBounded
  <2> SUFFICES ASSUME BucketInv, NEW k \in Keys, since[k] # Never
               PROVE  count[k] * Minute
                        <= Capacity(k) * Minute + (clock - since[k]) * Rate(k)
    BY DEF WindowBounded
  <2>1. /\ count[k] \in Nat /\ level[k] \in Nat /\ clock \in Nat
        /\ since[k] \in Nat /\ since[k] <= clock
        /\ Rate(k) \in Nat /\ Capacity(k) * Minute \in Nat
        /\ Minute \in Nat
    BY RateIsPositive, TokenBucketAssumption DEF BucketInv, BucketsTypeOK, TimesInv
  <2>2. CASE updated[k] # Never /\ updated[k] >= since[k]
    <3>1. updated[k] \in Nat /\ updated[k] <= clock
      BY <2>2 DEF BucketInv, BucketsTypeOK, TimesInv
    <3>2. count[k] * Minute + level[k]
            <= Capacity(k) * Minute + (updated[k] - since[k]) * Rate(k)
      BY <2>2 DEF BucketInv, WindowInv
    <3>3. (updated[k] - since[k]) * Rate(k) <= (clock - since[k]) * Rate(k)
      BY <2>1, <3>1, GainIsMonotone
    <3>4. /\ count[k] * Minute \in Int
          /\ (updated[k] - since[k]) * Rate(k) \in Int
          /\ (clock - since[k]) * Rate(k) \in Int
      BY <2>1, <3>1
    <3> QED
      BY <2>1, <3>2, <3>3, <3>4
  <2>3. CASE ~(updated[k] # Never /\ updated[k] >= since[k])
    <3>1. count[k] = 0
      BY <2>3 DEF BucketInv, WindowInv
    <3>2. count[k] * Minute = 0
      BY <2>1, <3>1
    <3>3. (clock - since[k]) * Rate(k) \in Nat
      <4>1. \A m, n \in Nat : m * n \in Nat
        OBVIOUS
      <4> QED
        BY <2>1, <4>1
    <3> QED
      BY <2>1, <3>2, <3>3
  <2> QED
    BY <2>2, <2>3
<1>2. BucketInv /\ [BucketsNext]_bucketVars => BucketInv'
  BY BucketStep
<1> QED
  BY <1>1, <1>2, BucketInit, PTL DEF BucketsSpec

-----------------------------------------------------------------------------
(* The wait a refusal asks for *)

(* A bucket that holds so much lacks less than it gains in a thousandth of *)
(* a second.                                                               *)
NearlyAToken(k, held) == 1000 * held + Rate(k) * Second > 1000 * Minute

(* So it is with a bucket that has refused, by the time it promised. *)
RetryInv ==
  /\ clock \in Nat
  /\ level \in [Keys -> Int]
  /\ updated \in [Keys -> Nat \cup {Never}]
  /\ read \in [Flights -> Nat \cup {Never}]
  /\ promised \in [Keys -> Nat \cup {Never}]
  /\ \A k \in Keys :
       promised[k] # Never =>
         /\ updated[k] # Never
         /\ promised[k] >= updated[k]
         /\ NearlyAToken(k, level[k] + (promised[k] - updated[k]) * Rate(k))

LEMMA Division ==
  ASSUME NEW n \in Nat, NEW d \in Nat \ {0}
  PROVE  n \div d \in Int /\ n < d * (n \div d) + d
<1>1. n \div d \in Int
  OBVIOUS
<1>2. n < d * (n \div d) + d
  OBVIOUS
<1> QED
  BY <1>1, <1>2

(* Rounding up by 0.999 ... *)
RoundedUp(m, r) == (1000 * m + 999 * r) \div (1000 * r)

(* ... loses less than 0.001. *)
LEMMA RoundingUp ==
  ASSUME NEW m \in Nat, NEW r \in Nat \ {0}
  PROVE  RoundedUp(m, r) \in Int /\ 1000 * (RoundedUp(m, r) * r) + r > 1000 * m
<1> DEFINE d == 1000 * r
           n == 1000 * m + 999 * r
           q == RoundedUp(m, r)
<1>1. d \in Nat \ {0} /\ n \in Nat
  OBVIOUS
<1>2. q \in Int /\ n < d * q + d
  <2>1. q = n \div d
    BY DEF RoundedUp
  <2> HIDE DEF d, n, q
  <2> QED
    BY <1>1, <2>1, Division
<1> HIDE DEF q
<1>3. d * q = 1000 * (q * r)
  BY <1>2
<1>4. q * r \in Int
  BY <1>2
<1>5. 1000 * m + 999 * r < 1000 * (q * r) + 1000 * r
  BY <1>2, <1>3
<1> DEFINE g == q * r
<1>6. g \in Int /\ 1000 * m + 999 * r < 1000 * g + 1000 * r
  BY <1>4, <1>5
<1> HIDE DEF g
<1>7. 1000 * g + r > 1000 * m
  BY <1>6
<1> QED
  BY <1>2, <1>7 DEF g, q

(* After a refusal the bucket, left to itself, has nearly a token when     *)
(* promised.                                                               *)
LEMMA PromiseIsKept ==
  ASSUME NEW k \in Keys, NEW t \in Nat, Rate(k) # 0,
         Refilled(k, t) \in Int, ~Admits(k, t)
  PROVE  /\ RetryAfter(k, t) * Second \in Nat
         /\ NearlyAToken(k, Left(k, t) + (t + RetryAfter(k, t) * Second - t) * Rate(k))
<1> DEFINE m == Minute - Refilled(k, t)
           r == Rate(k) * Second
           q == RoundedUp(m, r)
           w == RetryAfter(k, t)
<1>1. /\ m \in Nat /\ Rate(k) \in Nat \ {0} /\ Second \in Nat \ {0}
      /\ Minute \in Nat
  BY RateIsPositive, TokenBucketAssumption DEF Admits
<1>2. r \in Nat \ {0}
  <2>1. \A a, b \in Nat \ {0} : a * b \in Nat \ {0}
    OBVIOUS
  <2> QED
    BY <1>1, <2>1
<1>3. q \in Int /\ 1000 * (q * r) + r > 1000 * m
  <2> HIDE DEF m, r
  <2>1. m \in Nat
    BY <1>1
  <2> QED
    BY <1>2, <2>1, RoundingUp
<1>4. w = Greatest(1, q)
  BY DEF RetryAfter, RoundedUp
<1> HIDE DEF q, w
<1>5. w \in Nat /\ q <= w
  BY <1>3, <1>4 DEF Greatest
<1>6. q * r <= w * r
  BY <1>2, <1>3, <1>5, GainIsMonotone
<1>7. w * Second \in Nat /\ t + w * Second - t = w * Second
  <2>1. \A a, b \in Nat : a * b \in Nat /\ t + a * b - t = a * b
    OBVIOUS
  <2> QED
    BY <1>1, <1>5, <2>1
<1>8. w * r = (w * Second) * Rate(k)
  <2>1. \A a, b, c \in Nat : a * (b * c) = (a * c) * b
    OBVIOUS
  <2> QED
    BY <1>1, <1>5, <2>1
<1>9. Left(k, t) = Minute - m
  BY <1>1 DEF Left
<1>10. q * r \in Int /\ w * r \in Int
  BY <1>2, <1>3, <1>5
<1>11. 1000 * (Left(k, t) + w * r) + r > 1000 * Minute
  <2> HIDE DEF m, r
  <2> QED
    BY <1>1, <1>2, <1>3, <1>6, <1>9, <1>10
<1> QED
  BY <1>7, <1>8, <1>11 DEF NearlyAToken, w

LEMMA RetryConsume ==
  ASSUME RetryInv, NEW ks \in SUBSET Keys, NEW t \in Nat, Consume(ks, t),
         clock' = clock, read' \in [Flights -> Nat \cup {Never}]
  PROVE  RetryInv'
<1>1. ASSUME NEW k \in Keys
      PROVE  /\ Refilled(k, t) \in Int /\ Left(k, t) \in Int
             /\ Rate(k) # 0
  <2>1. /\ level[k] \in Int /\ updated[k] \in Nat \cup {Never}
        /\ Rate(k) \in Nat /\ Capacity(k) * Minute \in Nat /\ Minute \in Nat
    BY RateIsPositive, TokenBucketAssumption DEF RetryInv
  <2>2. Elapsed(k, t) \in Nat
    BY <2>1 DEF Elapsed, Greatest
  <2>3. Elapsed(k, t) * Rate(k) \in Int
    BY <2>1, <2>2
  <2>4. Refilled(k, t) \in Int
    BY <2>1, <2>3 DEF Refilled, Least
  <2>5. Rate(k) # 0
    BY TokenBucketAssumption DEF Rate
  <2> QED
    BY <2>1, <2>4, <2>5 DEF Left
<1>2. ASSUME NEW k \in ks
      PROVE  /\ level'[k] = Left(k, t) /\ updated'[k] = t
             /\ promised'[k] = IF Admits(k, t) THEN Never
                               ELSE t + RetryAfter(k, t) * Second
  BY <1>2 DEF Consume
<1>3. ASSUME NEW k \in Keys \ ks
      PROVE  /\ level'[k] = level[k] /\ updated'[k] = updated[k]
             /\ promised'[k] = promised[k]
  BY <1>3 DEF Consume
<1>4. ASSUME NEW k \in ks
      PROVE  /\ level'[k] \in Int /\ updated'[k] \in Nat
             /\ promised'[k] \in Nat \cup {Never}
             /\ promised'[k] # Never =>
                  /\ promised'[k] >= updated'[k]
                  /\ NearlyAToken(k, level'[k] + (promised'[k] - updated'[k]) * Rate(k))
  <2>1. CASE Admits(k, t)
    BY <1>1, <1>2, <2>1
  <2>2. CASE ~Admits(k, t)
    BY <1>1, <1>2, <2>2, PromiseIsKept
  <2> QED
    BY <2>1, <2>2
<1>5. ASSUME NEW k \in Keys
      PROVE  /\ level'[k] \in Int /\ updated'[k] \in Nat \cup {Never}
             /\ promised'[k] \in Nat \cup {Never}
             /\ promised'[k] # Never =>
                  /\ updated'[k] # Never
                  /\ promised'[k] >= updated'[k]
                  /\ NearlyAToken(k, level'[k] + (promised'[k] - updated'[k]) * Rate(k))
  <2>1. CASE k \in ks
    BY <1>4, <2>1, TokenBucketAssumption
  <2>2. CASE k \notin ks
    BY <1>3, <2>2 DEF RetryInv
  <2> QED
    BY <2>1, <2>2
<1>6. /\ level' = [k \in Keys |-> level'[k]]
      /\ updated' = [k \in Keys |-> updated'[k]]
      /\ promised' = [k \in Keys |-> promised'[k]]
  BY DEF Consume
<1> QED
  BY <1>5, <1>6 DEF RetryInv, NearlyAToken, Rate

(* Whatever the capacities and the rates and however fine the clock,       *)
(* whoever waits as long as a refusal asks and a thousandth of a second    *)
(* more is admitted, unless the bucket has admitted another                *)
(* (TokenBucket.consume rounds by adding 0.999).                           *)
THEOREM RetryCorrect == BucketsSpec => []RetrySuffices
<1>1. BucketsInit => RetryInv
  <2> SUFFICES ASSUME BucketsInit PROVE RetryInv
    OBVIOUS
  <2>1. \A k \in Keys : Capacity(k) * Minute \in Int
    BY RateIsPositive
  <2> QED
    BY <2>1 DEF BucketsInit, RetryInv
<1>2. RetryInv /\ [BucketsNext]_bucketVars => RetryInv'
  <2> SUFFICES ASSUME RetryInv, [BucketsNext]_bucketVars PROVE RetryInv'
    OBVIOUS
  <2>1. CASE ClockTick
    <3>1. PICK d \in Steps : clock' = clock + d
      BY <2>1 DEF ClockTick
    <3>2. clock' \in Nat /\ UNCHANGED <<level, updated, read, promised>>
      BY <2>1, <3>1, TokenBucketAssumption DEF ClockTick, RetryInv
    <3> QED
      BY <3>2 DEF RetryInv, NearlyAToken, Rate
  <2>5. CASE UNCHANGED bucketVars \/ \E k \in Keys : OpenWindow(k)
    BY <2>5 DEF OpenWindow, bucketVars, RetryInv, NearlyAToken, Rate
  <2>2. ASSUME NEW c \in Clients, PairAttempt(c)
        PROVE  RetryInv'
    <3>1. \E ks \in SUBSET Keys : Consume(ks, clock)
      BY <2>2 DEF PairAttempt, Keys
    <3>2. clock' = clock /\ read' \in [Flights -> Nat \cup {Never}] /\ clock \in Nat
      BY <2>2 DEF PairAttempt, RetryInv
    <3> QED
      BY <3>1, <3>2, RetryConsume
  <2>3. ASSUME NEW f \in Flights, UploadReads(f)
        PROVE  RetryInv'
    BY <2>3 DEF UploadReads, RetryInv, NearlyAToken, Rate
  <2>4. ASSUME NEW f \in Flights, UploadAttempt(f)
        PROVE  RetryInv'
    <3>1. /\ Consume({f[1]}, read[f]) /\ {f[1]} \in SUBSET Keys
          /\ read[f] \in Nat /\ clock' = clock
          /\ read' \in [Flights -> Nat \cup {Never}]
      BY <2>4 DEF UploadAttempt, RetryInv, Flights, Keys
    <3> QED
      BY <3>1, RetryConsume
  <2> QED
    BY <2>1, <2>2, <2>3, <2>4, <2>5 DEF BucketsNext
<1>3. RetryInv => RetrySuffices
  <2> SUFFICES ASSUME RetryInv, NEW k \in Keys, promised[k] # Never,
                      1000 * (clock - promised[k]) >= Second
               PROVE  Admits(k, clock)
    BY DEF RetrySuffices
  <2> DEFINE gained == (promised[k] - updated[k]) * Rate(k)
             more == (clock - promised[k]) * Rate(k)
             short == Rate(k) * Second
  <2>1. /\ clock \in Nat /\ level[k] \in Int /\ promised[k] \in Nat
        /\ updated[k] \in Nat /\ updated[k] # Never
        /\ promised[k] >= updated[k] /\ clock > promised[k]
        /\ Rate(k) \in Nat /\ Minute \in Nat /\ Second \in Nat
    <3>1. Second \in Nat \ {0} /\ clock \in Nat /\ promised[k] \in Nat
      BY TokenBucketAssumption DEF RetryInv
    <3>2. clock > promised[k]
      BY <3>1
    <3> QED
      BY <3>1, <3>2, RateIsPositive, TokenBucketAssumption DEF RetryInv
  <2>2. Elapsed(k, clock) = clock - updated[k]
    <3>1. clock - updated[k] >= 0 /\ clock - updated[k] \in Int
      BY <2>1
    <3> QED
      BY <2>1, <3>1 DEF Elapsed, Greatest
  <2>3. gained \in Int /\ more \in Int /\ short \in Int
    BY <2>1
  <2>4. Elapsed(k, clock) * Rate(k) = gained + more
    BY <2>1, <2>2, Distributes
  <2>5. 1000 * more >= short
    <3>1. Second * Rate(k) <= (1000 * (clock - promised[k])) * Rate(k)
      BY <2>1, GainIsMonotone
    <3>2. /\ Second * Rate(k) = short
          /\ (1000 * (clock - promised[k])) * Rate(k) = 1000 * more
      BY <2>1
    <3> QED
      BY <3>1, <3>2
  <2>6. 1000 * (level[k] + gained) + short > 1000 * Minute
    BY DEF RetryInv, NearlyAToken
  <2>7. level[k] + Elapsed(k, clock) * Rate(k) >= Minute
    <3> HIDE DEF gained, more, short
    <3> QED
      BY <2>1, <2>3, <2>4, <2>5, <2>6
  <2>8. Capacity(k) * Minute >= Minute /\ Capacity(k) * Minute \in Int
    <3>1. Capacity(k) \in Nat \ {0}
      BY TokenBucketAssumption DEF Capacity
    <3>2. \A c, m \in Nat : c >= 1 => c * m \in Int /\ c * m >= m
      <4>1. \A c, m \in Nat : c >= 1 => 1 * m <= c * m
        BY GainIsMonotone
      <4> QED
        BY <4>1
    <3>3. Capacity(k) >= 1 /\ Capacity(k) \in Nat
      BY <3>1
    <3> QED
      BY <2>1, <3>2, <3>3
  <2> QED
    <3>1. Elapsed(k, clock) * Rate(k) \in Int
      BY <2>3, <2>4
    <3> HIDE DEF gained, more, short
    <3> QED
      BY <2>1, <2>7, <2>8, <3>1 DEF Admits, Refilled, Least
<1> QED
  BY <1>1, <1>2, <1>3, PTL DEF BucketsSpec
=============================================================================
