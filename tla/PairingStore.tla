----------------------------- MODULE PairingStore -----------------------------
(***************************************************************************)
(* Pairing codes and pairings of the local extension bridge                *)
(* (services/local_extension_pairing.py): one-time codes with a time to    *)
(* live and a limit of wrong guesses, and pairings whose tokens            *)
(* authenticate uploads until they are revoked.                            *)
(*                                                                         *)
(* Every operation reads the clock first and takes the lock afterwards, so *)
(* it works with a time that may be old when it runs: a call is in flight  *)
(* from the one step to the other, and calls overlap in any way.           *)
(*                                                                         *)
(* Codes and tokens are abstracted to whether the submitted one matches:   *)
(* the right code of an id, the token of a pairing.  A refusal by the rate *)
(* limits may come at any time (how they count is in TokenBucket).         *)
(***************************************************************************)
EXTENDS Naturals, FiniteSets

CONSTANTS
  Codes,         \* pairing code ids, each issued at most once
  Pairings,      \* pairing ids, each given out at most once
  Calls,         \* calls that may be in flight at once
  None,
  MaxCodes,      \* max_pairing_codes
  MaxPairings,   \* max_pairings
  MaxFailed,     \* PAIRING_CODE_MAX_FAILED_ATTEMPTS
  CodeTtl,       \* pairing_code_ttl_seconds
  MaxTime        \* bound: the clock stops here

ASSUME PairingStoreAssumption ==
  /\ MaxCodes \in Nat
  /\ MaxPairings \in Nat
  /\ MaxFailed \in Nat \ {0}
  /\ CodeTtl \in Nat
  /\ MaxTime \in Nat
  /\ IsFiniteSet(Codes)
  /\ IsFiniteSet(Pairings)
  /\ None \notin Nat \cup Codes

VARIABLES
  now,       \* the clock
  codes,     \* _pairing_codes
  pairings,  \* _pairings
  calls      \* the time each call in flight has read

vars == <<now, codes, pairings, calls>>

Time == Nat \cup {None}

(* A code, with expires None while its id was never issued. *)
Code == [expires : Time, consumed : Time, failed : 0..MaxFailed,
         invalidated : Time]
NoCode == [expires |-> None, consumed |-> None, failed |-> 0,
           invalidated |-> None]

(* A pairing, with created None while it does not exist.  "code" is        *)
(* history: the code that made it.                                         *)
Pairing == [created : Time, seen : Time, revoked : Time,
            code : Codes \cup {None}]
NoPairing == [created |-> None, seen |-> None, revoked |-> None, code |-> None]

Init ==
  /\ now = 0
  /\ codes = [c \in Codes |-> NoCode]
  /\ pairings = [p \in Pairings |-> NoPairing]
  /\ calls = [q \in Calls |-> None]

-----------------------------------------------------------------------------
(* What the operations test *)

(* The codes a create_pairing_code call counts, at the time it has read. *)
ActiveCodes(t) ==
  {c \in Codes : /\ codes[c].expires # None
                 /\ codes[c].consumed = None
                 /\ codes[c].invalidated = None
                 /\ t < codes[c].expires}

ActivePairings ==
  {p \in Pairings : pairings[p].created # None /\ pairings[p].revoked = None}

(* Wrong: one code more than the limit. *)
CodeRoomOffByOne(t) == Cardinality(ActiveCodes(t)) <= MaxCodes

CodeRoom(t) == Cardinality(ActiveCodes(t)) < MaxCodes
PairingRoom == Cardinality(ActivePairings) < MaxPairings

(* Wrong: pair forgets that a code was consumed. *)
UsableIfConsumed(c, t) ==
  /\ codes[c].expires # None
  /\ codes[c].invalidated = None
  /\ t < codes[c].expires

(* The tests of pair before it compares the submitted code. *)
Usable(c, t) ==
  /\ codes[c].expires # None
  /\ codes[c].invalidated = None
  /\ codes[c].consumed = None
  /\ t < codes[c].expires

-----------------------------------------------------------------------------
(* Actions *)

Tick ==
  /\ now < MaxTime
  /\ now' = now + 1
  /\ UNCHANGED <<codes, pairings, calls>>

(* A call reads the clock ... *)
Start(q) ==
  /\ calls[q] = None
  /\ calls' = [calls EXCEPT ![q] = now]
  /\ UNCHANGED <<now, codes, pairings>>

(* ... and does its work under the lock later. *)
Finish(q) == calls[q] # None /\ calls' = [calls EXCEPT ![q] = None]

(* A call that is refused: a full store, a limit, an unknown id or token,  *)
(* a code that cannot be used, a revoked token.                            *)
Refused(q) ==
  /\ Finish(q)
  /\ UNCHANGED <<now, codes, pairings>>

CreateCode(q, c) ==
  /\ Finish(q)
  /\ codes[c].expires = None
  /\ CodeRoom(calls[q])
  /\ codes' = [codes EXCEPT ![c].expires = calls[q] + CodeTtl]
  /\ UNCHANGED <<now, pairings>>

(* pair with the right code *)
Pair(q, c, p) ==
  /\ Finish(q)
  /\ Usable(c, calls[q])
  /\ pairings[p].created = None
  /\ PairingRoom
  /\ pairings' = [pairings EXCEPT ![p] =
                    [created |-> calls[q], seen |-> calls[q],
                     revoked |-> None, code |-> c]]
  /\ codes' = [codes EXCEPT ![c].consumed = calls[q]]
  /\ UNCHANGED now

(* A wrong guess, the last one of which invalidates the code. *)
Guess(rec, t) ==
  [rec EXCEPT !.failed = @ + 1,
              !.invalidated = IF rec.failed + 1 >= MaxFailed THEN t ELSE None]

(* pair with a wrong code *)
PairWrong(q, c) ==
  /\ Finish(q)
  /\ Usable(c, calls[q])
  /\ codes' = [codes EXCEPT ![c] = Guess(codes[c], calls[q])]
  /\ UNCHANGED <<now, pairings>>

(* Wrong: a revoked token still authenticates. *)
ValidIfRevoked(p) == pairings[p].created # None

(* authenticate_token finds a pairing with this token, not revoked. *)
Valid(p) == pairings[p].created # None /\ pairings[p].revoked = None

Authenticate(q, p) ==
  /\ Finish(q)
  /\ Valid(p)
  /\ pairings' = [pairings EXCEPT ![p].seen = calls[q]]
  /\ UNCHANGED <<now, codes>>

(* record.revoked_at or now *)
RevokedAt(old, t) == IF old # None THEN old ELSE t

Revoke(q, p) ==
  /\ Finish(q)
  /\ pairings[p].created # None
  /\ pairings' = [pairings EXCEPT ![p].revoked = RevokedAt(@, calls[q])]
  /\ UNCHANGED <<now, codes>>

Next ==
  \/ Tick
  \/ \E q \in Calls :
       \/ Start(q)
       \/ Refused(q)
       \/ \E c \in Codes : CreateCode(q, c) \/ PairWrong(q, c)
       \/ \E c \in Codes, p \in Pairings : Pair(q, c, p)
       \/ \E p \in Pairings : Authenticate(q, p) \/ Revoke(q, p)

Spec == Init /\ [][Next]_vars

-----------------------------------------------------------------------------
(* Properties *)

TypeOK ==
  /\ now \in Nat
  /\ codes \in [Codes -> Code]
  /\ pairings \in [Pairings -> Pairing]
  /\ calls \in [Calls -> Time]

(* A code is one-time: however many calls submit it at once, it makes at   *)
(* most one pairing.                                                       *)
OneTimeCode ==
  \A p1, p2 \in Pairings :
    pairings[p1].code # None /\ pairings[p1].code = pairings[p2].code => p1 = p2

(* A pairing was made from a code that had not expired at the time the     *)
(* call read, and with a guess to spare.                                   *)
PairedProperly ==
  \A p \in Pairings :
    pairings[p].code # None =>
      LET code == codes[pairings[p].code] IN
      /\ pairings[p].created < code.expires
      /\ code.failed < MaxFailed

(* A code that was consumed or invalidated is never used or changed again. *)
SpentIsSpent ==
  [][\A c \in Codes :
       codes[c].consumed # None \/ codes[c].invalidated # None =>
         codes'[c] = codes[c]]_vars

(* There are never more active codes than the limit, on the clock itself,  *)
(* although every call counts them with the time it read earlier.          *)
CodesBounded == Cardinality(ActiveCodes(now)) <= MaxCodes

(* There are never more pairings in force than the limit. *)
PairingsBounded == Cardinality(ActivePairings) <= MaxPairings

(* Revocation sticks: from then on the pairing does not change, so its     *)
(* token authenticates nothing, and the time of revocation stays.          *)
RevocationSticks ==
  [][\A p \in Pairings :
       pairings[p].revoked # None => pairings'[p] = pairings[p]]_vars
=============================================================================
