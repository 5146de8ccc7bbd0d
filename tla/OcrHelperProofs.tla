---------------------------- MODULE OcrHelperProofs ----------------------------
(***************************************************************************)
(* Proofs about OcrHelper, for any screenshots, any texts of prices and    *)
(* titles, any images that look alike, any way the helper ends and any     *)
(* order, loss or repetition of its answers that the model lets it write.  *)
(*                                                                         *)
(* Those about the answers have two halves.  HelperInv, which is           *)
(* inductive, says of the requests and the answers that each answer        *)
(* belongs to an image of its own field.  The lemmas about                 *)
(* select_price_candidate and validate_screen_contract say what becomes of *)
(* such texts.  The theorems put both together, at the one step that reads *)
(* the answers.                                                            *)
(*                                                                         *)
(* Those about the cells follow the detectors: the bands of what is active *)
(* lie apart and miss nothing, in order they are rows and groups of text,  *)
(* a cell is padded by less than the room before its neighbours.           *)
(***************************************************************************)
EXTENDS OcrHelper, FiniteSetTheorems, TLAPS

-----------------------------------------------------------------------------
(* Indices, and the first of the best *)

(* Of a set of indices Min is the least. *)
LEMMA LeastIndex ==
  ASSUME NEW S, S \subseteq Nat, S # {}
  PROVE  Min(S) \in S /\ \A n \in S : Min(S) <= n
<1>1. PICK m \in S : \A n \in S : <<n, m>> \notin OpToRel(<, Nat)
  BY WFMin, NatLessThanWellFounded, Zenon
<1>2. m \in S /\ \A n \in S : ~ (n < m)
  <2>1. ASSUME NEW n \in S, n < m
        PROVE  FALSE
    <3>1. <<n, m>> \in OpToRel(<, Nat)
      BY <2>1, Zenon DEF OpToRel
    <3> QED
      BY <1>1, <3>1, Zenon
  <2> QED
    BY <1>1, <2>1, Zenon
<1>3. \A n \in S : m <= n
  BY <1>2
<1> QED
  BY <1>2, <1>3 DEF Min

(* InOrder lists what is in the set. *)
LEMMA InOrderIn ==
  ASSUME NEW S, S \subseteq Nat, IsFiniteSet(S), NEW k \in DOMAIN InOrder(S)
  PROVE  InOrder(S)[k] \in S
<1> DEFINE below(i) == {j \in S : j < i}
           n == Cardinality(S)
           T == 0 .. n - 1
           rank == [i \in S |-> Cardinality(below(i))]
<1>1. n \in Nat /\ IsFiniteSet(T) /\ Cardinality(T) = n
  <2>1. n \in Nat
    BY FS_CardinalityType
  <2> HIDE DEF n
  <2>2. 0 \in Int /\ n - 1 \in Int
    BY <2>1
  <2> QED
    BY <2>1, <2>2, FS_Interval
<1>2. ASSUME NEW i \in S
      PROVE  /\ IsFiniteSet(below(i)) /\ Cardinality(below(i)) \in T
  <2>1. below(i) \in SUBSET S /\ i \in S /\ i \notin below(i)
    OBVIOUS
  <2> HIDE DEF below
  <2>2. IsFiniteSet(below(i)) /\ Cardinality(below(i)) <= n /\ Cardinality(below(i)) # n
    BY <2>1, FS_Subset
  <2> QED
    BY <1>1, <2>2, FS_CardinalityType
<1>3. ASSUME NEW i \in S, NEW j \in S, i < j
      PROVE  Cardinality(below(i)) # Cardinality(below(j))
  <2>1. i \in below(j) /\ i \notin below(i) /\ \A z \in below(i) : z \in below(j)
    <3>1. \A z \in S : z \in Nat
      OBVIOUS
    <3> QED
      BY <1>3, <3>1
  <2>2. below(i) \in SUBSET below(j) /\ i \in below(j) /\ i \notin below(i)
    <3> HIDE DEF below
    <3> QED
      BY <2>1
  <2>3. IsFiniteSet(below(j))
    BY <1>2
  <2> HIDE DEF below
  <2> QED
    BY <2>2, <2>3, FS_Subset
<1>4. rank \in Injection(S, T)
  <2>1. rank \in [S -> T]
    BY <1>2
  <2>2. ASSUME NEW i \in S, NEW j \in S, rank[i] = rank[j]
        PROVE  i = j
    <3>1. Cardinality(below(i)) = Cardinality(below(j))
      BY <2>2
    <3> HIDE DEF below
    <3>2. ~ (i < j) /\ ~ (j < i)
      BY <1>3, <3>1
    <3>3. i \in Nat /\ j \in Nat
      OBVIOUS
    <3> QED
      BY <3>2, <3>3
  <2> HIDE DEF rank
  <2> QED
    BY <2>1, <2>2 DEF Injection, IsInjective
<1>5. rank \in Surjection(S, T)
  <2> HIDE DEF rank, T, n
  <2>1. IsFiniteSet(S) /\ IsFiniteSet(T) /\ Cardinality(S) = Cardinality(T)
    BY <1>1 DEF n
  <2> QED
    BY <1>4, <2>1, FS_Injection, Zenon
<1>6. k \in 1 .. n
  BY DEF InOrder
<1>7. \E i \in S : Cardinality(below(i)) = k - 1
  <2>1. k - 1 \in T
    BY <1>1, <1>6
  <2>2. \E i \in S : rank[i] = k - 1
    <3> HIDE DEF rank, T
    <3> QED
      BY <1>5, <2>1 DEF Surjection
  <2> QED
    BY <2>2
<1> QED
  BY <1>6, <1>7 DEF InOrder

(* Among finitely many integers there is a greatest. *)
LEMMA GreatestExists ==
  ASSUME NEW S \in SUBSET Int, S # {}, IsFiniteSet(S)
  PROVE  \E x \in S : \A y \in S : y <= x
<1> DEFINE above(x) == {y \in S : y > x}
           N == {Cardinality(above(x)) : x \in S}
<1>1. \A x \in S : IsFiniteSet(above(x)) /\ Cardinality(above(x)) \in Nat
  <2> TAKE x \in S
  <2>1. above(x) \in SUBSET S
    OBVIOUS
  <2> HIDE DEF above
  <2> QED
    BY <2>1, FS_Subset, FS_CardinalityType
<1>2. N \subseteq Nat /\ N # {}
  BY <1>1
<1>3. Min(N) \in N /\ \A m \in N : Min(N) <= m
  <2> HIDE DEF N
  <2> QED
    BY <1>2, LeastIndex
<1>4. PICK x \in S : Min(N) = Cardinality(above(x))
  <2> DEFINE m == Min(N)
  <2>1. m \in N
    BY <1>3
  <2> HIDE DEF m
  <2> QED
    BY <2>1 DEF m
<1>5. ASSUME NEW y \in S, ~ (y <= x)
      PROVE  FALSE
  <2>1. y \in above(x) /\ y \notin above(y) /\ \A z \in above(y) : z \in above(x)
    BY <1>5
  <2>2. Cardinality(above(x)) <= Cardinality(above(y))
    <3>1. Cardinality(above(y)) \in N
      OBVIOUS
    <3> HIDE DEF N, above
    <3> QED
      BY <1>3, <1>4, <3>1
  <2> HIDE DEF above
  <2>3. above(y) \in SUBSET above(x) /\ above(y) # above(x)
    BY <2>1
  <2> QED
    BY <1>1, <2>2, <2>3, FS_Subset
<1> QED
  BY <1>5

(* FirstBest is one of the texts, and none scores higher. *)
LEMMA BestIs ==
  ASSUME NEW texts, NEW scores, DOMAIN texts \subseteq Nat, IsFiniteSet(DOMAIN texts),
         DOMAIN texts # {}, scores \in [DOMAIN texts -> Int]
  PROVE  \E i \in DOMAIN texts : /\ FirstBest(texts, scores) = texts[i]
                                 /\ \A j \in DOMAIN texts : scores[j] <= scores[i]
<1> DEFINE D == DOMAIN texts
           values == {scores[j] : j \in D}
<1>1. values \in SUBSET Int /\ values # {} /\ IsFiniteSet(values)
  <2>1. scores \in Surjection(D, values)
    BY DEF Surjection
  <2>2. values \in SUBSET Int /\ values # {}
    OBVIOUS
  <2> HIDE DEF values
  <2> QED
    BY <2>1, <2>2, FS_Surjection
<1>2. PICK top \in values : \A y \in values : y <= top
  <2> HIDE DEF values
  <2> QED
    BY <1>1, GreatestExists
<1> DEFINE tops == {j \in D : scores[j] = top}
<1>3. tops \subseteq Nat /\ tops # {}
  OBVIOUS
<1> DEFINE least == Min(tops)
<1>4. least \in tops /\ \A j \in tops : least <= j
  <2> HIDE DEF tops
  <2> QED
    BY <1>3, LeastIndex
<1> DEFINE best(i) == \A j \in D : scores[j] < scores[i] \/ (scores[j] = scores[i] /\ i <= j)
<1>5. least \in D /\ best(least)
  <2> HIDE DEF least
  <2>1. least \in D /\ scores[least] = top
    BY <1>4
  <2>2. ASSUME NEW j \in D
        PROVE  scores[j] < scores[least] \/ (scores[j] = scores[least] /\ least <= j)
    <3>1. scores[j] <= top /\ scores[j] \in Int /\ top \in Int
      BY <1>1, <1>2
    <3>2. CASE scores[j] = top
      BY <1>4, <2>1, <3>2
    <3>3. CASE scores[j] # top
      BY <2>1, <3>1, <3>3
    <3> QED
      BY <3>2, <3>3
  <2> QED
    BY <2>1, <2>2
<1> DEFINE i == CHOOSE x \in D : best(x)
<1>6. i \in D /\ best(i)
  <2> HIDE DEF best, least
  <2> QED
    BY <1>5
<1>7. FirstBest(texts, scores) = texts[i]
  BY DEF FirstBest
<1>8. \A j \in D : scores[j] <= scores[i]
  <2> HIDE DEF i
  <2>1. \A j \in D : scores[j] \in Int
    OBVIOUS
  <2> QED
    BY <1>6, <2>1
<1> HIDE DEF i
<1> QED
  BY <1>6, <1>7, <1>8

-----------------------------------------------------------------------------
(* What select_price_candidate offers and selects *)

(* A sequence of candidates, whose values are hundredths. *)
Typed(candidates) ==
  /\ DOMAIN candidates \subseteq Nat
  /\ \A i \in DOMAIN candidates : candidates[i].value \in Nat \cup {None}

(* No price is None (OcrHelperAssumption). *)
LEMMA NoneIsNoNumber == None \notin Nat /\ Cap \in Nat
<1>1. None \notin Int /\ Cap \in Nat
  BY OcrHelperAssumption, Zenon DEF OcrHelperAssumption
<1> QED
  BY <1>1

(* _candidates_from_text offers hundredths. *)
LEMMA CandidateTypes ==
  ASSUME NEW text \in Texts, NEW first
  PROVE  Typed(CandidatesFromText(text, first))
<1> DEFINE found == [i \in DOMAIN text.tokens |-> TokenCandidate(text.tokens[i], text)]
           none(reason, e) == <<Rejected(reason, e)>>
<1>1. /\ text.tokens \in Seq(Tokens)
      /\ DOMAIN text.tokens \subseteq Nat /\ (text.tokens # <<>> => 1 \in DOMAIN text.tokens)
  BY DEF Texts
<1>2. ASSUME NEW i \in DOMAIN text.tokens
      PROVE  found[i].value \in Nat \cup {None}
  <2> DEFINE v == text.tokens[i].cents
             e == Dotted(text)
             long  == ~ HasDecimals(text.tokens[i]) /\ v >= 100000
             fits  == v \div 100 \in 1 .. Cap
             alone == Len(text.tokens) = 1 /\ ~ text.letters
             right == v \in 1 .. Cap \/ (v = 0 /\ alone)
  <2>1. text.tokens[i] \in Tokens
    BY <1>1
  <2>2. v \in Nat
    BY <2>1 DEF Tokens
  <2>3. found[i] =
          CASE long /\ fits -> Rejected("price_decimal_unconfirmed", e)
            [] long /\ ~ fits -> Accepted(v, e)
            [] ~ long /\ right -> Accepted(v, e)
            [] OTHER -> Rejected("price_ocr_invalid", e)
    BY SMTT(30) DEF TokenCandidate
  <2> HIDE DEF found, long, fits, right, v, e
  <2>4. found[i] \in {Accepted(v, e), Rejected("price_decimal_unconfirmed", e), Rejected("price_ocr_invalid", e)}
    BY <2>3
  <2> QED
    BY <2>2, <2>4 DEF Accepted, Rejected
<1>3. DOMAIN found = DOMAIN text.tokens
  OBVIOUS
<1> DEFINE refuses == /\ text.tokens # <<>>
                      /\ Cardinality({found[i].value : i \in Valid(found)}) > 1
                      /\ \A i \in Valid(found) : ~ found[i].explicit
<1>4. CandidatesFromText(text, first) =
        CASE text.malformed -> none("price_ocr_invalid", TRUE)
          [] ~ text.malformed /\ text.tokens = <<>> -> none("price_ocr_invalid", FALSE)
          [] ~ text.malformed /\ refuses -> none("price_candidate_ambiguous_within_source", FALSE)
          [] OTHER -> IF first /\ Dotted(text) THEN <<found[1]>> ELSE found
  BY DEF CandidatesFromText
<1>5. refuses => text.tokens # <<>>
  OBVIOUS
<1> HIDE DEF refuses, found, none
<1>6. \/ \E reason, e : CandidatesFromText(text, first) = none(reason, e)
      \/ text.tokens # <<>> /\ CandidatesFromText(text, first) = <<found[1]>>
      \/ CandidatesFromText(text, first) = found
  BY <1>4, <1>5
<1>7. \A reason, e : Typed(none(reason, e))
  BY DEF Typed, none, Rejected
<1>8. text.tokens # <<>> => Typed(<<found[1]>>)
  BY <1>1, <1>2 DEF Typed
<1>9. Typed(found)
  BY <1>1, <1>2, <1>3 DEF Typed
<1> QED
  BY <1>6, <1>7, <1>8, <1>9

(* The values that are offered. *)
Values(candidates) == {candidates[i].value : i \in Valid(candidates)}

(* Which they are, and where: their own indices, never None. *)
LEMMA ValidIndices ==
  ASSUME NEW candidates, Typed(candidates)
  PROVE  /\ Valid(candidates) \subseteq Nat
         /\ Values(candidates) \subseteq Nat /\ None \notin Values(candidates)
         /\ Valid(candidates) = {} <=> Values(candidates) = {}
BY NoneIsNoNumber DEF Valid, Values, Typed

(* Only is what stands in a set of one. *)
LEMMA OneElement ==
  ASSUME NEW S, Cardinality(S) = 1
  PROVE  Only(S) \in S
<1>1. S # {}
  BY FS_EmptySet
<1> QED
  BY <1>1 DEF Only

(* From one source a value of that source is selected, or none. *)
LEMMA WithinChooses ==
  ASSUME NEW candidates, Typed(candidates)
  PROVE  SelectWithin(candidates).value \in Values(candidates) \cup {None}
<1> DEFINE valid    == Valid(candidates)
           value(i) == candidates[i].value
           repeated == {value(i) : i \in {j \in valid :
                          Cardinality({k \in valid : value(k) = value(j)}) >= 2}}
           explicit == {i \in valid : candidates[i].explicit}
<1>1. repeated \subseteq Values(candidates) /\ explicit \subseteq valid
  BY DEF Values
<1>2. \A i \in valid : value(i) \in Values(candidates)
  BY DEF Values
<1>3. Cardinality(repeated) = 1 => Only(repeated) \in Values(candidates)
  <2> HIDE DEF repeated
  <2> QED
    BY <1>1, OneElement
<1>4. Cardinality(explicit) = 1 => Only(explicit) \in valid
  <2> HIDE DEF explicit
  <2> QED
    BY <1>1, OneElement
<1>5. Cardinality(valid) = 1 => Only(valid) \in valid
  <2> HIDE DEF valid
  <2> QED
    BY OneElement
<1>6. \/ Cardinality(repeated) = 1 /\ SelectWithin(candidates) = Chosen(Only(repeated), {})
      \/ Cardinality(explicit) = 1 /\ SelectWithin(candidates) = Chosen(value(Only(explicit)), {})
      \/ Cardinality(valid) = 1 /\ SelectWithin(candidates) = Chosen(value(Only(valid)), {})
      \/ \E errors : SelectWithin(candidates) = Refused(errors)
  <2>1. SelectWithin(candidates) =
          CASE Cardinality(repeated) = 1 -> Chosen(Only(repeated), {})
            [] Cardinality(repeated) > 1 -> Refused({"ocr_candidate_ambiguous"})
            [] repeated = {} /\ Cardinality(explicit) = 1 -> Chosen(value(Only(explicit)), {})
            [] repeated = {} /\ Cardinality(explicit) > 1 -> Refused({"ocr_candidate_ambiguous"})
            [] repeated = {} /\ explicit = {} /\ Cardinality(valid) = 1 -> Chosen(value(Only(valid)), {})
            [] OTHER -> Refused({"price_decimal_unconfirmed"})
    BY DEF SelectWithin
  <2> HIDE DEF repeated, explicit, valid, value
  <2> QED
    BY <2>1
<1> HIDE DEF repeated, explicit, valid, value
<1> QED
  BY <1>2, <1>3, <1>4, <1>5, <1>6 DEF Chosen, Refused

(* The warning of select_price_candidate when its sources disagree. *)
Disagreement == "price_source_disagreement_review"

(* From two sources a value of both is selected, or one with a warning,    *)
(* or none.                                                                *)
LEMMA AcrossChooses ==
  ASSUME NEW scalar, Typed(scalar), NEW level, Typed(level), NEW policy,
         Valid(scalar) # {}, Valid(level) # {}
  PROVE  LET selected == SelectAcross(scalar, level, policy)
         IN  /\ selected.value \in Values(scalar) \cup Values(level) \cup {None}
             /\ \/ selected.value = None
                \/ selected.value \in Values(scalar) \cap Values(level)
                \/ Disagreement \in selected.warnings
<1> DEFINE scalars == Values(scalar)
           firsts  == Values(level)
           agreed  == Agreed(scalars, firsts)
           s == scalar[Min(Valid(scalar))]
           l == level[Min(Valid(level))]
           settled == IF /\ policy = "price-cells-v3"
                         /\ Cardinality(scalars) = 1 /\ Cardinality(firsts) = 1
                      THEN Resolved(s, l) ELSE None
<1>1. Min(Valid(scalar)) \in Valid(scalar) /\ Min(Valid(level)) \in Valid(level)
  BY ValidIndices, LeastIndex
<1>2. s.value \in scalars /\ l.value \in firsts
  BY <1>1 DEF Values
<1>3. agreed = None \/ agreed \in scalars \cap firsts
  <2> HIDE DEF scalars, firsts
  <2> QED
    BY OneElement DEF Agreed
<1>4. Resolved(s, l) \in {s.value, l.value, None}
  <2> HIDE DEF s, l
  <2> QED
    BY DEF Resolved
<1>5. settled = None \/ settled \in scalars \cup firsts
  BY <1>2, <1>4
<1>6. SelectAcross(scalar, level, policy) =
        IF agreed # None THEN Chosen(agreed, {})
        ELSE IF settled # None THEN Chosen(settled, {Disagreement})
        ELSE Refused({"ocr_candidate_ambiguous"})
  BY DEF SelectAcross, Values, Disagreement
<1> HIDE DEF agreed, settled, scalars, firsts
<1> QED
  BY <1>3, <1>5, <1>6 DEF Chosen, Refused, scalars, firsts

(* What is selected stands in every source that has candidates, unless the *)
(* reviewer is warned.                                                     *)
LEMMA AmongChooses ==
  ASSUME NEW scalar, Typed(scalar), NEW level, Typed(level), NEW policy
  PROVE  LET selected == SelectAmong(scalar, level, policy)
         IN  /\ selected.value \in Nat \cup {None}
             /\ \/ selected.value = None
                \/ Disagreement \in selected.warnings
                \/ /\ Valid(scalar) # {} => selected.value \in Values(scalar)
                   /\ Valid(level) # {} => selected.value \in Values(level)
<1> DEFINE selected == SelectAmong(scalar, level, policy)
<1>1. /\ Values(scalar) \subseteq Nat /\ Values(level) \subseteq Nat
  BY ValidIndices
<1>2. CASE Valid(scalar) = {} /\ Valid(level) = {}
  <2>1. \E errors : selected = Refused(errors)
    BY <1>2 DEF SelectAmong
  <2> QED
    BY <2>1 DEF Refused
<1>3. CASE Valid(scalar) # {} /\ Valid(level) # {}
  <2>1. selected = SelectAcross(scalar, level, policy)
    BY <1>3 DEF SelectAmong
  <2> QED
    BY <1>1, <1>3, <2>1, AcrossChooses
<1>4. CASE Valid(scalar) # {} /\ Valid(level) = {}
  <2>1. selected = SelectWithin(scalar)
    BY <1>4 DEF SelectAmong
  <2> QED
    BY <1>1, <1>4, <2>1, WithinChooses
<1>5. CASE Valid(scalar) = {} /\ Valid(level) # {}
  <2>1. selected = SelectWithin(level)
    BY <1>5 DEF SelectAmong
  <2> QED
    BY <1>1, <1>5, <2>1, WithinChooses
<1> QED
  BY <1>2, <1>3, <1>4, <1>5

(* The text of a price as it stands on the screenshot. *)
Plain(cents) == Text(<<[cents |-> cents, sep |-> "point", starts |-> TRUE]>>)

(* It has one candidate, its price. *)
LEMMA PlainCandidates ==
  ASSUME NEW cents \in 1 .. Cap, NEW first
  PROVE  /\ Plain(cents) \in Texts /\ ~ IsBlank(Plain(cents))
         /\ Valid(CandidatesFromText(Plain(cents), first)) = {1}
         /\ Values(CandidatesFromText(Plain(cents), first)) = {cents}
<1> DEFINE text  == Plain(cents)
           token == [cents |-> cents, sep |-> "point", starts |-> TRUE]
           found == [i \in DOMAIN text.tokens |-> TokenCandidate(text.tokens[i], text)]
<1>1. /\ text.tokens = <<token>> /\ ~ text.malformed /\ ~ text.letters
      /\ DOMAIN text.tokens = {1} /\ text.tokens[1] = token /\ text.tokens # <<>>
  <2>1. /\ text.tokens = <<token>> /\ ~ text.malformed /\ ~ text.letters
    BY DEF Plain, Text
  <2> HIDE DEF text, token
  <2> QED
    BY <2>1
<1>2. cents \in Nat /\ token \in Tokens
  BY NoneIsNoNumber DEF Tokens, Separators
<1>3. text \in Texts
  BY <1>2 DEF Plain, Text, Texts
<1>4. HasDecimals(token)
  BY DEF HasDecimals
<1>5. Dotted(text)
  BY <1>1, <1>4 DEF Dotted
<1>6. TokenCandidate(token, text) = Accepted(cents, TRUE)
  <2>1. token.cents = cents /\ cents \in 1 .. Cap
    OBVIOUS
  <2> HIDE DEF text, token
  <2> QED
    BY <1>4, <1>5, <2>1 DEF TokenCandidate
<1>7. DOMAIN found = {1} /\ found[1] = Accepted(cents, TRUE)
  BY <1>1, <1>6
<1>8. Valid(found) = {1} /\ found[1].explicit
  <2> HIDE DEF found
  <2> QED
    BY <1>2, <1>7, NoneIsNoNumber DEF Valid, Accepted
<1>9. CandidatesFromText(text, first) = IF first /\ Dotted(text) THEN <<found[1]>> ELSE found
  <2> DEFINE refuses == /\ text.tokens # <<>>
                        /\ Cardinality({found[i].value : i \in Valid(found)}) > 1
                        /\ \A i \in Valid(found) : ~ found[i].explicit
  <2>1. ~ refuses
    BY <1>8
  <2>2. CandidatesFromText(text, first) =
          CASE text.malformed -> <<Rejected("price_ocr_invalid", TRUE)>>
            [] ~ text.malformed /\ text.tokens = <<>> -> <<Rejected("price_ocr_invalid", FALSE)>>
            [] ~ text.malformed /\ refuses
                 -> <<Rejected("price_candidate_ambiguous_within_source", FALSE)>>
            [] OTHER -> IF first /\ Dotted(text) THEN <<found[1]>> ELSE found
    BY DEF CandidatesFromText
  <2> HIDE DEF refuses, found, text
  <2> QED
    BY <1>1, <2>1, <2>2
<1>10. ~ IsBlank(text)
  BY <1>1 DEF IsBlank
<1> HIDE DEF found, text
<1>11. PICK c \in {<<found[1]>>, found} : CandidatesFromText(text, first) = c
  BY <1>9
<1>12. DOMAIN c = {1} /\ c[1] = Accepted(cents, TRUE)
  <2>1. c = found => DOMAIN c = {1} /\ c[1] = Accepted(cents, TRUE)
    BY <1>7
  <2>2. c = <<found[1]>> => DOMAIN c = {1} /\ c[1] = found[1]
    <3> DEFINE first1 == found[1]
    <3> HIDE DEF first1
    <3>1. DOMAIN <<first1>> = {1} /\ <<first1>>[1] = first1
      OBVIOUS
    <3> QED
      BY <3>1 DEF first1
  <2> QED
    BY <1>7, <1>11, <2>1, <2>2
<1>13. Valid(c) = {1} /\ Values(c) = {cents}
  <2>1. c[1].value = cents /\ cents # None
    BY <1>2, <1>12, NoneIsNoNumber DEF Accepted
  <2>2. Valid(c) = {1}
    BY <1>12, <2>1 DEF Valid
  <2> QED
    BY <2>1, <2>2 DEF Values
<1> QED
  BY <1>3, <1>10, <1>11, <1>13 DEF text

(* The two sources of select_price_candidate. *)
LEMMA PriceTypes ==
  ASSUME NEW scalarText \in Texts, NEW levelText \in Texts, NEW policy
  PROVE  SelectPrice(scalarText, levelText, policy).value \in Nat \cup {None}
<1> DEFINE level == IF IsBlank(levelText) THEN <<>> ELSE CandidatesFromText(levelText, TRUE)
<1>1. Typed(CandidatesFromText(scalarText, FALSE)) /\ Typed(CandidatesFromText(levelText, TRUE))
  BY CandidateTypes
<1>2. Typed(level)
  <2>1. Typed(<<>>)
    BY DEF Typed
  <2> QED
    BY <1>1, <2>1
<1>3. SelectPrice(scalarText, levelText, policy) =
        SelectAmong(CandidatesFromText(scalarText, FALSE), level, policy)
  BY DEF SelectPrice
<1> HIDE DEF level
<1> QED
  BY <1>1, <1>2, <1>3, AmongChooses

(* With one of the two texts of a price as it stands on the screenshot, it *)
(* is not selected otherwise without a warning.                            *)
LEMMA OnePlainText ==
  ASSUME NEW cents \in 1 .. Cap, NEW scalarText \in Texts, NEW levelText \in Texts, NEW policy,
         scalarText = Plain(cents) \/ levelText = Plain(cents)
  PROVE  LET selected == SelectPrice(scalarText, levelText, policy)
         IN  selected.value \in {None, cents} \/ Disagreement \in selected.warnings
<1> DEFINE scalar == CandidatesFromText(scalarText, FALSE)
           level  == IF IsBlank(levelText) THEN <<>> ELSE CandidatesFromText(levelText, TRUE)
<1>1. Typed(scalar) /\ Typed(CandidatesFromText(levelText, TRUE))
  BY CandidateTypes
<1>2. Typed(level)
  <2>1. Typed(<<>>)
    BY DEF Typed
  <2> QED
    BY <1>1, <2>1
<1>3. SelectPrice(scalarText, levelText, policy) = SelectAmong(scalar, level, policy)
  BY DEF SelectPrice
<1>4. \/ Valid(scalar) = {1} /\ Values(scalar) = {cents}
      \/ Valid(level) = {1} /\ Values(level) = {cents}
  BY PlainCandidates
<1> HIDE DEF scalar, level
<1> QED
  BY <1>1, <1>2, <1>3, <1>4, AmongChooses

(* A contract without errors. *)
LEMMA ContractHolds ==
  ASSUME NEW bid \in Nat \cup {None}, NEW ask \in Nat \cup {None}, NEW bids, NEW asks,
         ContractErrors(bid, ask, bids, asks) = {}
  PROVE  bid # None /\ ask # None /\ 1 <= bid /\ bid <= ask /\ ask <= Cap
<1> DEFINE When(error, holds) == IF holds THEN {error} ELSE {}
           prices == {bid, ask} \cup ToSet(bids) \cup ToSet(asks)
<1>1. /\ When("best_bid_missing", bid = None) = {}
      /\ When("best_ask_missing", ask = None) = {}
      /\ When("bid_ask_swapped", bid # None /\ ask # None /\ bid > ask) = {}
      /\ PriceErrors(prices) = {}
  <2>1. ContractErrors(bid, ask, bids, asks) = UNION {
          When("best_bid_missing", bid = None),
          When("best_ask_missing", ask = None),
          When("bid_ask_swapped", bid # None /\ ask # None /\ bid > ask),
          PriceErrors(prices),
          When("bid_levels_not_descending", ~ Descending(bids)),
          When("ask_levels_not_ascending", ~ Ascending(asks))}
    BY DEF ContractErrors
  <2> HIDE DEF When, prices
  <2> QED
    BY <2>1, Zenon
<1>2. bid # None /\ ask # None /\ ~ (bid > ask)
  BY <1>1
<1>3. bid \in prices \ {None} /\ ask \in prices \ {None}
  BY <1>2
<1>4. \A p \in prices \ {None} : ~ (p < 1) /\ ~ (p > Cap)
  <2> HIDE DEF prices
  <2> QED
    BY <1>1 DEF PriceErrors
<1> HIDE DEF prices
<1>5. bid \in Nat /\ ask \in Nat /\ Cap \in Nat
  BY <1>2, NoneIsNoNumber
<1> QED
  BY <1>2, <1>3, <1>4, <1>5

-----------------------------------------------------------------------------
(* The inductive invariant *)

(* What can be seen where a title is. *)
SeenTitles == Titles \cup {Truth["item_name"]}

(* Phases and process go together; there is a result when the call is done.*)
ProcessInv ==
  /\ phase \in {"new", "detected", "waiting", "collected", "ending", "reaping", "done"}
  /\ child \in {"none", "running", "exited", "failed", "killed"}
  /\ phase \in {"new", "detected"} => child = "none" /\ requests = <<>> /\ output = None
  /\ phase # "done" => result = None
  /\ phase = "collected" => child \in {"exited", "failed"}
  /\ phase = "done" => child # "running"

(* A request stands for one of the same image, and a title is read in the  *)
(* title bar where one is asked for.                                       *)
RequestInv(i) ==
  LET r == requests[i]
  IN  /\ r.field \in Fields /\ r.image[1] \in Fields
      /\ r.field = "item_name" <=> r.image[1] = "item_name"
      /\ r.physical \in DOMAIN requests /\ requests[r.physical].image = r.image
      /\ r.field = "item_name" /\ call.recognizer.title # None => r.found
RequestsInv ==
  /\ call.recognizer \in Recognizers
  /\ DOMAIN requests \subseteq Nat \ {0} /\ IsFiniteSet(DOMAIN requests)
  /\ \A i \in DOMAIN requests : RequestInv(i)

(* An answer to a request is what was seen on its image. *)
OutputInv ==
  output \notin {None, Broken} =>
    /\ DOMAIN output \subseteq Nat
    /\ \A k \in DOMAIN output :
         output[k].id \in DOMAIN requests => output[k].text = read[requests[output[k].id].image]
    /\ \A i \in DOMAIN requests :
         read[requests[i].image] \in IF requests[i].field = "item_name" THEN SeenTitles ELSE Texts

ResultInv ==
  result # None /\ result.outcome = "read" =>
    /\ child = "exited" /\ output \notin {None, Broken}
    /\ result = Reading(Evidence(output))

HelperInv == ProcessInv /\ RequestsInv /\ OutputInv /\ ResultInv

(* What a sequence of requests must be before the images are compared. *)
LogicalInv(logical) ==
  /\ DOMAIN logical = 1 .. Len(logical) /\ Len(logical) \in Nat
  /\ \A i \in DOMAIN logical :
       LET r == logical[i]
       IN  /\ r.field \in Fields /\ r.image[1] \in Fields
           /\ r.field = "item_name" <=> r.image[1] = "item_name"
           /\ r.field = "item_name" /\ call.recognizer.title # None => r.found

(* The indices and elements of a sequence. *)
LEMMA SequenceDomain ==
  ASSUME NEW R, NEW s \in Seq(R)
  PROVE  /\ DOMAIN s = 1 .. Len(s) /\ Len(s) \in Nat
         /\ \A i \in DOMAIN s : s[i] \in R
OBVIOUS

(* A function on the first numbers is a sequence. *)
LEMMA MappedSequence ==
  ASSUME NEW R, NEW n \in Nat, NEW s \in [1 .. n -> R]
  PROVE  s \in Seq(R)
OBVIOUS

(* The requests of all fields are requests of the fields. *)
LEMMA ByFieldIn ==
  ASSUME NEW R, NEW of, \A f \in Fields : of[f] \in Seq(R)
  PROVE  ByField(of) \in Seq(R)
<1>1. /\ of["ask_levels"] \in Seq(R) /\ of["best_ask"] \in Seq(R) /\ of["best_bid"] \in Seq(R)
      /\ of["bid_levels"] \in Seq(R) /\ of["item_name"] \in Seq(R)
  BY DEF Fields, PriceFields
<1>2. \A s, t \in Seq(R) : s \o t \in Seq(R)
  OBVIOUS
<1> QED
  BY <1>1, <1>2 DEF ByField

(* Title bars are looked for only where the helper cuts the images. *)
LEMMA TitleRecognizers ==
  ASSUME NEW r \in Recognizers, r.title # None
  PROVE  r.mode = "drawing" /\ r.plan = "cascade"
BY DEF Recognizers, Recognizer

(* Images that look alike show both a price or both the title. *)
LEMMA Looked ==
  ASSUME NEW look \in Looks
  PROVE  /\ look.twin["item_name"] = "item_name"
         /\ \A f \in PriceFields : look.twin[f] \in PriceFields
BY OcrHelperAssumption, Zenon DEF OcrHelperAssumption

(* prepare_windows_ocr_batch asks for images of the field itself. *)
LEMMA BatchLogical ==
  ASSUME NEW inked, NEW look \in Looks, call.recognizer \in Recognizers,
         call.recognizer.mode = "batch"
  PROVE  LogicalInv(BatchRequests(inked, look))
<1> DEFINE request(f, i) == [field |-> f, variant |-> Variants[i].name, found |-> FALSE,
                             image |-> ImageOf(look, f, i)]
           R == {request(f, i) : f \in Fields, i \in 1 .. 4}
           of == [f \in Fields |->
                    IF f \notin inked THEN <<>>
                    ELSE [i \in DOMAIN Variants |->
                            [field |-> f, variant |-> Variants[i].name, found |-> FALSE,
                             image |-> ImageOf(look, f, i)]]]
<1>1. DOMAIN Variants = 1 .. 4
  BY DEF Variants
<1>2. ASSUME NEW f \in Fields
      PROVE  of[f] \in Seq(R)
  <2> DEFINE some == [i \in 1 .. 4 |-> request(f, i)]
  <2>2. some \in [1 .. 4 -> R]
    <3> HIDE DEF request
    <3> QED
      OBVIOUS
  <2>3. of[f] = IF f \notin inked THEN <<>> ELSE some
    BY <1>1
  <2> HIDE DEF of, some, R
  <2>4. some \in Seq(R)
    <3>1. 4 \in Nat
      OBVIOUS
    <3> QED
      BY <2>2, <3>1, MappedSequence
  <2> QED
    BY <2>3, <2>4
<1>3. ByField(of) \in Seq(R) /\ BatchRequests(inked, look) = ByField(of)
  <2>1. BatchRequests(inked, look) = ByField(of)
    BY DEF BatchRequests
  <2> HIDE DEF of, R
  <2> QED
    BY <1>2, <2>1, ByFieldIn
<1>4. call.recognizer.title = None
  BY TitleRecognizers
<1>5. ASSUME NEW r \in R
      PROVE  /\ r.field \in Fields /\ r.image[1] \in Fields
             /\ r.field = "item_name" <=> r.image[1] = "item_name"
  <2>1. PICK f \in Fields, i \in 1 .. 4 : r = request(f, i)
    <3> HIDE DEF request
    <3> QED
      OBVIOUS
  <2>2. ImageOf(look, f, i)[1] = look.twin[f]
    <3>1. PICK image : ImageOf(look, f, i) = <<look.twin[f], image>>
      BY DEF ImageOf
    <3> QED
      BY <3>1
  <2>3. r.field = f /\ r.image[1] = look.twin[f]
    BY <2>1, <2>2
  <2> QED
    BY <2>3, Looked DEF Fields, PriceFields
<1> HIDE DEF R, of
<1> QED
  BY <1>3, <1>4, <1>5, SequenceDomain DEF LogicalInv

(* prepare_system_drawing_ocr_batch_manifest does, and for the title bar   *)
(* alone where one is looked for.                                          *)
LEMMA DrawingLogical ==
  ASSUME NEW found, call.recognizer \in Recognizers
  PROVE  LogicalInv(DrawingRequests(call.recognizer, found))
<1> DEFINE recognizer == call.recognizer
           F == PriceFields \cup
                  (IF recognizer.title = None \/ "item_name" \in found THEN {"item_name"} ELSE {})
           request(f, v) == [field |-> f, variant |-> v, found |-> f \in found, image |-> <<f, v>>]
           plan(f) == PlanOf(recognizer, "item_name" \in found, f)
           R == {request(f, plan(f)[i]) : f \in F, i \in Nat}
           of == [f \in Fields |->
                    [i \in DOMAIN plan(f) |->
                       [field |-> f, variant |-> plan(f)[i], found |-> f \in found,
                        image |-> <<f, plan(f)[i]>>]]]
<1>1. ASSUME NEW f \in Fields
      PROVE  \E n \in Nat : DOMAIN plan(f) = 1 .. n /\ (n # 0 => f \in F)
  <2> DEFINE names == [i \in DOMAIN Variants |-> Variants[i].name]
  <2>1. DOMAIN names = 1 .. 4
    BY DEF Variants
  <2>2. plan(f) = CASE recognizer.plan = "all" -> names
                    [] recognizer.plan # "all" /\ f \in PriceFields -> <<"gray_3x", "binary_4x">>
                    [] recognizer.plan # "all" /\ f \notin PriceFields /\ "item_name" \in found ->
                         <<"gray_3x", "gray_autocontrast_4x">>
                    [] OTHER -> <<>>
    BY DEF PlanOf
  <2>3. recognizer.plan = "all" => recognizer.title = None
    BY TitleRecognizers
  <2>4. f \in PriceFields \/ f = "item_name"
    BY DEF Fields
  <2> HIDE DEF names, plan
  <2>5. \/ plan(f) = names /\ recognizer.plan = "all"
        \/ plan(f) = <<"gray_3x", "binary_4x">> /\ f \in PriceFields
        \/ plan(f) = <<"gray_3x", "gray_autocontrast_4x">> /\ "item_name" \in found
        \/ plan(f) = <<>>
    BY <2>2
  <2>6. \A a, b : DOMAIN <<a, b>> = 1 .. 2
    OBVIOUS
  <2>7. f \in F \/ (f \notin PriceFields /\ recognizer.title # None /\ "item_name" \notin found)
    BY <2>4
  <2> HIDE DEF F
  <2>8. CASE plan(f) = <<>>
    BY <2>8
  <2>9. CASE plan(f) # <<>>
    BY <2>1, <2>3, <2>5, <2>6, <2>7, <2>9
  <2> QED
    BY <2>8, <2>9
<1>2. ASSUME NEW f \in Fields
      PROVE  of[f] \in Seq(R)
  <2> DEFINE some == [i \in DOMAIN plan(f) |-> request(f, plan(f)[i])]
  <2>1. PICK n \in Nat : DOMAIN plan(f) = 1 .. n /\ (n # 0 => f \in F)
    <3> HIDE DEF plan, F
    <3> QED
      BY <1>1
  <2>2. ASSUME NEW i \in 1 .. n
        PROVE  some[i] \in R
    <3>1. i \in Nat /\ f \in F
      <4> HIDE DEF F
      <4> QED
        BY <2>1
    <3>2. some[i] = request(f, plan(f)[i])
      <4> HIDE DEF plan, request
      <4> QED
        BY <2>1
    <3> HIDE DEF plan, F, some, request
    <3> QED
      BY <3>1, <3>2
  <2>3. some \in [1 .. n -> R]
    <3> HIDE DEF R, plan, request
    <3> QED
      BY <2>1, <2>2
  <2>4. of[f] = some
    OBVIOUS
  <2> HIDE DEF of, some, R, plan
  <2> QED
    BY <2>1, <2>3, <2>4, MappedSequence
<1>3. ByField(of) \in Seq(R) /\ DrawingRequests(call.recognizer, found) = ByField(of)
  <2>1. DrawingRequests(call.recognizer, found) = ByField(of)
    BY DEF DrawingRequests
  <2> HIDE DEF of, R
  <2> QED
    BY <1>2, <2>1, ByFieldIn
<1>4. ASSUME NEW r \in R
      PROVE  /\ r.field \in Fields /\ r.image[1] \in Fields
             /\ r.field = "item_name" <=> r.image[1] = "item_name"
             /\ r.field = "item_name" /\ call.recognizer.title # None => r.found
  <2>1. PICK f \in F, i \in Nat : r = request(f, plan(f)[i])
    <3> HIDE DEF F, request, plan
    <3> QED
      OBVIOUS
  <2>2. r.field = f /\ r.image[1] = f /\ (f \in found => r.found)
    <3> DEFINE v == plan(f)[i]
    <3> HIDE DEF F, plan, v
    <3>1. r.field = f /\ r.image = <<f, v>> /\ r.found = (f \in found)
      BY <2>1 DEF v
    <3>2. r.image[1] = f
      BY <3>1
    <3>3. ASSUME f \in found
          PROVE  r.found
      <4>1. r = [field |-> f, variant |-> v, found |-> f \in found, image |-> <<f, v>>]
        BY <2>1 DEF v
      <4> HIDE DEF request
      <4> DEFINE b == f \in found
      <4>2. b = TRUE
        BY <3>3
      <4>3. r.found = b
        BY <4>1
      <4> HIDE DEF b
      <4> QED
        BY <4>2, <4>3
    <3> QED
      BY <3>1, <3>2, <3>3
  <2>3. /\ f \in PriceFields \cup {"item_name"} /\ "item_name" \notin PriceFields
        /\ f = "item_name" => recognizer.title = None \/ "item_name" \in found
    BY DEF PriceFields
  <2>4. r.field = "item_name" /\ call.recognizer.title # None => r.found
    <3> HIDE DEF F, plan
    <3>1. r.field = "item_name" /\ call.recognizer.title # None => f \in found
      BY <2>2, <2>3
    <3> QED
      BY <2>2, <3>1
  <2> HIDE DEF F, plan
  <2> QED
    BY <2>2, <2>3, <2>4 DEF Fields
<1> HIDE DEF R, of
<1> QED
  BY <1>3, <1>4, SequenceDomain DEF LogicalInv

-----------------------------------------------------------------------------
(* What OCR sees and the helper writes *)

(* What can be seen where a field is. *)
Seen(f) == IF f = "item_name" THEN SeenTitles ELSE Texts

(* The truth and what stands for it are such texts. *)
LEMMA TruthIsSeen ==
  /\ \A f \in Fields : Truth[f] \in Seen(f)
  /\ Titles \subseteq SeenTitles
  /\ \A f \in PriceFields : PriceTexts \subseteq Seen(f)
<1>1. /\ PriceTexts \subseteq Texts
      /\ \A f \in PriceFields :
           LET cents == Truth[f].tokens[1].cents
           IN  /\ cents \in 1 .. Cap
               /\ Truth[f] = Text(<<[cents |-> cents, sep |-> "point", starts |-> TRUE]>>)
  BY OcrHelperAssumption, Zenon DEF OcrHelperAssumption
<1>2. \A f \in PriceFields : Truth[f] \in Texts
  <2> TAKE f \in PriceFields
  <2> DEFINE cents == Truth[f].tokens[1].cents
  <2>1. cents \in 1 .. Cap /\ Truth[f] = Plain(cents)
    BY <1>1 DEF Plain
  <2> HIDE DEF cents
  <2> QED
    BY <2>1, PlainCandidates
<1> QED
  BY <1>1, <1>2 DEF Seen, SeenTitles, Fields, PriceFields

(* OCR sees titles where titles are and texts of prices elsewhere. *)
LEMMA SightIsSeen ==
  ASSUME NEW images, \A i \in images : i[1] \in Fields, NEW sight \in Sights(images),
         NEW image \in images
  PROVE  sight[image] \in Seen(image[1])
<1> DEFINE truth == [i \in images |-> Truth[i[1]]]
           Other(i) == IF i[1] = "item_name" THEN Titles ELSE PriceTexts
           same == {{i} : i \in images} \cup {{i \in images : i[1] = j[1]} : j \in images}
           altered(some, text) == [i \in images |-> IF i \in some THEN text ELSE truth[i]]
<1>1. truth[image] \in Seen(image[1])
  BY TruthIsSeen
<1>2. Sights(images) =
        {truth} \cup UNION {{altered(some, text) : text \in Other(CHOOSE i \in some : TRUE)} : some \in same}
  BY DEF Sights
<1>3. CASE sight = truth
  BY <1>1, <1>3
<1>4. CASE sight # truth
  <2>1. PICK some \in same : sight \in {altered(some, text) : text \in Other(CHOOSE i \in some : TRUE)}
    <3> HIDE DEF truth, Other, same, altered
    <3> QED
      BY <1>2, <1>4
  <2>2. PICK text \in Other(CHOOSE i \in some : TRUE) : sight = altered(some, text)
    <3> HIDE DEF truth, Other, same, altered
    <3> QED
      BY <2>1
  <2>3. /\ some # {} /\ some \subseteq images
        /\ \A i, j \in some : i[1] = j[1]
    <3>1. CASE some \in {{i} : i \in images}
      BY <3>1
    <3>2. CASE some \in {{i \in images : i[1] = j[1]} : j \in images}
      BY <3>2
    <3> QED
      BY <3>1, <3>2
  <2> DEFINE c == CHOOSE i \in some : TRUE
  <2>4. c \in some
    BY <2>3
  <2>5. text \in Seen(c[1])
    <3>1. c[1] \in Fields /\ text \in Other(c)
      BY <2>2, <2>3, <2>4
    <3> HIDE DEF c
    <3> QED
      BY <3>1, TruthIsSeen DEF Seen, Fields, PriceFields
  <2>6. sight[image] = IF image \in some THEN text ELSE truth[image]
    <3> HIDE DEF truth
    <3> QED
      BY <2>2
  <2> HIDE DEF c, truth
  <2> QED
    BY <1>1, <2>3, <2>4, <2>5, <2>6
<1> QED
  BY <1>3, <1>4

(* Whatever the helper writes, its answers are answers to a request, but   *)
(* for the one that nobody asked for.                                      *)
LEMMA OutputsIn ==
  ASSUME NEW A, NEW answers \in Seq(A), NEW out \in Outputs(answers)
  PROVE  out \in Seq(A \cup {[id |-> 0, text |-> NoText]})
<1> DEFINE extra == [id |-> 0, text |-> NoText]
           B == A \cup {extra}
<1>1. answers \in Seq(B) /\ Len(answers) \in Nat /\ DOMAIN answers = 1 .. Len(answers)
  OBVIOUS
<1>2. CASE out = Reverse(answers)
  <2>1. \A i \in 1 .. Len(answers) : answers[Len(answers) - i + 1] \in B
    <3> HIDE DEF B
    <3> QED
      BY <1>1
  <2>2. out \in [1 .. Len(answers) -> B]
    BY <1>2, <2>1 DEF Reverse
  <2> HIDE DEF B
  <2> QED
    BY <1>1, <2>2, MappedSequence DEF B
<1>3. CASE out = Append(answers, extra)
  BY <1>1, <1>3
<1>4. CASE out \in {RemoveAt(answers, i) : i \in DOMAIN answers}
  <2>1. PICK i \in DOMAIN answers : out = RemoveAt(answers, i)
    BY <1>4
  <2>2. SubSeq(answers, 1, i - 1) \in Seq(B) /\ SubSeq(answers, i + 1, Len(answers)) \in Seq(B)
    <3> HIDE DEF B
    <3> QED
      BY <1>1, <2>1
  <2> HIDE DEF B
  <2> QED
    BY <2>1, <2>2 DEF RemoveAt, B
<1>5. CASE out \in {<<answers[i]>> \o answers : i \in DOMAIN answers}
  <2>1. PICK i \in DOMAIN answers : out = <<answers[i]>> \o answers
    BY <1>5
  <2>2. <<answers[i]>> \in Seq(B)
    BY <1>1, <2>1
  <2> HIDE DEF B
  <2> QED
    BY <1>1, <2>1, <2>2 DEF B
<1> QED
  BY <1>1, <1>2, <1>3, <1>4, <1>5 DEF Outputs

(* The helper answers each request with what it sees on its image. *)
LEMMA AnswersIn ==
  ASSUME RequestsInv, NEW sight
  PROVE  Answers(sight) \in Seq({[id |-> i, text |-> sight[requests[i].image]] : i \in DOMAIN requests})
<1> DEFINE P == {i \in DOMAIN requests : requests[i].physical = i}
           answer(i) == [id |-> i, text |-> sight[requests[i].image]]
           A == {answer(i) : i \in DOMAIN requests}
           n == Cardinality(P)
<1>1. P \subseteq Nat /\ IsFiniteSet(P) /\ P \subseteq DOMAIN requests
  <2>1. P \in SUBSET DOMAIN requests /\ IsFiniteSet(DOMAIN requests) /\ DOMAIN requests \subseteq Nat
    BY DEF RequestsInv
  <2> HIDE DEF P
  <2> QED
    BY <2>1, FS_Subset
<1> HIDE DEF P
<1>2. n \in Nat /\ DOMAIN InOrder(P) = 1 .. n
  BY <1>1, FS_CardinalityType DEF InOrder
<1>3. \A k \in 1 .. n : InOrder(P)[k] \in DOMAIN requests
  BY <1>1, <1>2, InOrderIn
<1>4. Answers(sight) = [k \in 1 .. n |-> answer(InOrder(P)[k])]
  BY <1>2 DEF Answers, P
<1> HIDE DEF n, answer
<1>5. Answers(sight) \in [1 .. n -> A]
  BY <1>3, <1>4
<1> HIDE DEF A
<1> QED
  BY <1>2, <1>5, MappedSequence DEF A, answer

-----------------------------------------------------------------------------
(* The invariant is inductive *)

(* The invariant holds before the call has begun ... *)
LEMMA HelperInit == Init => HelperInv
<1> SUFFICES ASSUME Init PROVE HelperInv
  OBVIOUS
<1>1. call.recognizer \in Recognizers
  <2>1. PICK r \in Recognizers : call \in [recognizer : {r}, policy : Policies(r)]
    BY DEF Init
  <2> QED
    BY <2>1
<1>2. DOMAIN requests = {} /\ IsFiniteSet({})
  BY FS_EmptySet DEF Init
<1> QED
  BY <1>1, <1>2 DEF Init, HelperInv, ProcessInv, RequestsInv, OutputInv, ResultInv

(* ... and every step keeps it: the detectors, *)
LEMMA DetectKeeps == HelperInv /\ Detect => HelperInv'
<1> SUFFICES ASSUME HelperInv, Detect PROVE HelperInv'
  OBVIOUS
<1>1. /\ phase = "new" /\ phase' = "detected"
      /\ UNCHANGED <<call, requests, child, read, output, result>>
  BY DEF Detect
<1>2. RequestsInv'
  BY <1>1 DEF HelperInv, RequestsInv, RequestInv
<1>3. ProcessInv' /\ OutputInv' /\ ResultInv'
  BY <1>1 DEF HelperInv, ProcessInv, OutputInv, ResultInv
<1> QED
  BY <1>2, <1>3 DEF HelperInv

(* The requests that are written stand for the first of the same image.    *)
LEMMA StartKeeps ==
  ASSUME HelperInv, NEW logical, LogicalInv(logical), Start(logical), phase \in {"new", "detected"}
  PROVE  HelperInv'
<1>1. /\ phase' = "waiting" /\ child' = "running" /\ call' = call
      /\ output' = None /\ result' = None
  BY DEF Start, HelperInv, ProcessInv
<1>2. ProcessInv' /\ OutputInv' /\ ResultInv'
  BY <1>1 DEF ProcessInv, OutputInv, ResultInv
<1> DEFINE n == Len(logical)
           physical(i) == PhysicalOf(logical, i)
           request(i) == [field |-> logical[i].field, image |-> logical[i].image,
                          found |-> logical[i].found, physical |-> physical(i)]
<1>3. n \in Nat /\ DOMAIN logical = 1 .. n /\ requests' = [i \in 1 .. n |-> request(i)]
  BY DEF LogicalInv, Start
<1>4. ASSUME NEW i \in 1 .. n
      PROVE  physical(i) \in 1 .. n /\ logical[physical(i)].image = logical[i].image
  <2> DEFINE same == {j \in 1 .. i : logical[j].image = logical[i].image}
  <2>1. i \in same /\ same \subseteq Nat
    BY <1>3
  <2>2. Min(same) \in same
    <3> HIDE DEF same
    <3> QED
      BY <2>1, LeastIndex
  <2>3. physical(i) = Min(same)
    BY DEF PhysicalOf
  <2> HIDE DEF physical
  <2>4. physical(i) \in same
    BY <2>2, <2>3
  <2> HIDE DEF n
  <2> QED
    BY <1>3, <2>4
<1> HIDE DEF n, physical
<1>5. ASSUME NEW i \in DOMAIN requests'
      PROVE  RequestInv(i)'
  <2> DEFINE p == physical(i)
  <2>1. i \in 1 .. n /\ p \in 1 .. n /\ logical[p].image = logical[i].image
    BY <1>3, <1>4
  <2>2. requests'[i] = request(i) /\ requests'[p] = request(p) /\ DOMAIN requests' = 1 .. n
    BY <1>3, <2>1
  <2>3. /\ requests'[i].field = logical[i].field /\ requests'[i].image = logical[i].image
        /\ requests'[i].found = logical[i].found /\ requests'[i].physical = p
        /\ requests'[p].image = logical[p].image
    BY <2>2
  <2>4. LET r == logical[i]
        IN  /\ r.field \in Fields /\ r.image[1] \in Fields
            /\ r.field = "item_name" <=> r.image[1] = "item_name"
            /\ r.field = "item_name" /\ call.recognizer.title # None => r.found
    BY <1>3, <2>1 DEF LogicalInv
  <2> HIDE DEF p
  <2> QED
    BY <1>1, <2>1, <2>2, <2>3, <2>4 DEF RequestInv
<1>6. DOMAIN requests' \subseteq Nat \ {0} /\ IsFiniteSet(DOMAIN requests')
  <2>1. DOMAIN requests' = 1 .. n
    BY <1>3
  <2> QED
    BY <1>3, <2>1, FS_Interval
<1>7. RequestsInv'
  BY <1>1, <1>5, <1>6 DEF HelperInv, RequestsInv
<1> QED
  BY <1>2, <1>7 DEF HelperInv

(* the start of the helper in either mode, *)
LEMMA StartsKeep == HelperInv /\ (StartBatch \/ StartDrawing) => HelperInv'
<1>1. ASSUME HelperInv, StartBatch PROVE HelperInv'
  <2>1. PICK inked \in {Fields, PriceFields}, look \in Looks : Start(BatchRequests(inked, look))
    BY <1>1 DEF StartBatch
  <2>2. phase = "new" /\ call.recognizer.mode = "batch" /\ call.recognizer \in Recognizers
    BY <1>1 DEF StartBatch, HelperInv, RequestsInv
  <2> QED
    BY <1>1, <2>1, <2>2, BatchLogical, StartKeeps
<1>2. ASSUME HelperInv, StartDrawing PROVE HelperInv'
  <2>1. PICK found : Start(DrawingRequests(call.recognizer, found))
    BY <1>2 DEF StartDrawing
  <2>2. phase = "detected" /\ call.recognizer \in Recognizers
    BY <1>2 DEF StartDrawing, HelperInv, RequestsInv
  <2> QED
    BY <1>2, <2>1, <2>2, DrawingLogical, StartKeeps
<1> QED
  BY <1>1, <1>2

(* the helper that writes its answers, in order or not, *)
LEMMA WritesKeep == HelperInv /\ HelperWrites => HelperInv'
<1> SUFFICES ASSUME HelperInv, HelperWrites PROVE HelperInv'
  OBVIOUS
<1> DEFINE images == {r.image : r \in ToSet(requests)}
<1>1. PICK sight \in Sights(images) :
        /\ read' = sight
        /\ output' \in Outputs(Answers(sight)) \cup {Answers(sight)}
  <2>1. PICK sight \in Sights(images) :
          /\ read' = sight
          /\ output' \in IF \A i \in DOMAIN sight : sight[i] = Truth[i[1]]
                         THEN Outputs(Answers(sight)) ELSE {Answers(sight)}
    BY DEF HelperWrites
  <2> HIDE DEF images
  <2> QED
    BY <2>1
<1>2. child = "running" /\ UNCHANGED <<call, phase, screen, requests, child, result>>
  BY DEF HelperWrites
<1>3. ProcessInv'
  BY <1>2 DEF HelperInv, ProcessInv
<1>4. RequestsInv'
  BY <1>2 DEF HelperInv, RequestsInv, RequestInv
<1>5. result' = None
  BY <1>2 DEF HelperInv, ProcessInv
<1>6. ResultInv'
  BY <1>5 DEF ResultInv
<1> DEFINE A == {[id |-> i, text |-> sight[requests[i].image]] : i \in DOMAIN requests}
           extra == [id |-> 0, text |-> NoText]
<1>7. output' \in Seq(A \cup {extra})
  <2>1. Answers(sight) \in Seq(A)
    BY AnswersIn DEF HelperInv
  <2> HIDE DEF A
  <2>2. Answers(sight) \in Seq(A \cup {extra})
    BY <2>1
  <2> HIDE DEF images
  <2>3. output' \in Outputs(Answers(sight)) => output' \in Seq(A \cup {extra})
    BY <2>1, OutputsIn
  <2> QED
    BY <1>1, <2>2, <2>3
<1>8. DOMAIN output' \subseteq Nat
  <2> HIDE DEF A, extra
  <2>1. DOMAIN output' = 1 .. Len(output') /\ Len(output') \in Nat
    BY <1>7, SequenceDomain
  <2> QED
    BY <2>1
<1>9. ASSUME NEW k \in DOMAIN output', output'[k].id \in DOMAIN requests
      PROVE  output'[k].text = sight[requests[output'[k].id].image]
  <2> DEFINE a == output'[k]
  <2>1. a \in A \cup {extra}
    <3> HIDE DEF A, extra
    <3> QED
      BY <1>7, SequenceDomain
  <2>2. 0 \notin DOMAIN requests
    BY DEF HelperInv, RequestsInv
  <2>3. a # extra
    BY <1>9, <2>2
  <2> HIDE DEF extra
  <2>4. PICK i \in DOMAIN requests : a = [id |-> i, text |-> sight[requests[i].image]]
    BY <2>1, <2>3
  <2> QED
    BY <2>4
<1>10. ASSUME NEW i \in DOMAIN requests
       PROVE  sight[requests[i].image] \in IF requests[i].field = "item_name" THEN SeenTitles ELSE Texts
  <2>1. requests[i].image \in images
    BY DEF ToSet
  <2>2. \A image \in images : image[1] \in Fields
    BY DEF HelperInv, RequestsInv, RequestInv, ToSet
  <2>3. sight[requests[i].image] \in Seen(requests[i].image[1])
    <3> HIDE DEF images
    <3> QED
      BY <1>1, <2>1, <2>2, SightIsSeen
  <2>4. requests[i].field = "item_name" <=> requests[i].image[1] = "item_name"
    BY DEF HelperInv, RequestsInv, RequestInv
  <2> QED
    BY <2>3, <2>4 DEF Seen
<1> HIDE DEF A, extra, images
<1>11. OutputInv'
  BY <1>1, <1>2, <1>8, <1>9, <1>10 DEF OutputInv
<1> QED
  BY <1>3, <1>4, <1>6, <1>11 DEF HelperInv

(* The steps of the process and of the wait leave requests and sight alone.*)
LEMMA ProcessKeeps ==
  ASSUME HelperInv, UNCHANGED <<call, requests, read>>, output' \in {output, Broken}, phase # "done"
  PROVE  RequestsInv' /\ OutputInv'
<1>1. RequestsInv'
  BY DEF HelperInv, RequestsInv, RequestInv
<1>2. OutputInv'
  BY DEF HelperInv, OutputInv
<1> QED
  BY <1>1, <1>2

(* the answers that are read, *)
LEMMA ReadKeeps == HelperInv /\ Read => HelperInv'
<1> SUFFICES ASSUME HelperInv, Read PROVE HelperInv'
  OBVIOUS
<1>1. /\ phase = "collected" /\ phase' = "done"
      /\ UNCHANGED <<call, requests, warnings, child, read, output>>
      /\ result' = IF child = "failed" \/ output \in {None, Broken} THEN Ended("failed")
                   ELSE Reading(Evidence(output))
  BY DEF Read
<1>2. child \in {"exited", "failed"}
  BY <1>1 DEF HelperInv, ProcessInv
<1>3. ProcessInv'
  BY <1>1, <1>2 DEF HelperInv, ProcessInv
<1>4. RequestsInv' /\ OutputInv'
  BY <1>1, ProcessKeeps
<1>5. Reading(Evidence(output))' = Reading(Evidence(output))
  BY <1>1 DEF Reading, Evidence, TextsOf
<1>6. ResultInv'
  <2>1. CASE child = "failed" \/ output \in {None, Broken}
    BY <1>1, <2>1 DEF Ended, ResultInv
  <2>2. CASE ~ (child = "failed" \/ output \in {None, Broken})
    BY <1>1, <1>2, <1>5, <2>2 DEF ResultInv
  <2> QED
    BY <2>1, <2>2
<1> QED
  BY <1>3, <1>4, <1>6 DEF HelperInv

(* and whatever else ends the process or the wait. *)
LEMMA WaitKeeps ==
  HelperInv /\ (HelperExits \/ HelperFails \/ Collect \/ TimedOut \/ Terminate \/ Reap \/ Interrupt)
    => HelperInv'
<1> SUFFICES ASSUME HelperInv,
                    HelperExits \/ HelperFails \/ Collect \/ TimedOut \/ Terminate \/ Reap \/ Interrupt
             PROVE  HelperInv'
  OBVIOUS
<1>1. ProcessInv'
  BY DEF HelperInv, ProcessInv, HelperExits, HelperFails, Collect, TimedOut, Terminate, Reap,
         Interrupt, Terminated, Ended
<1>2. phase # "done"
  BY DEF HelperInv, ProcessInv, HelperExits, HelperFails, Collect, TimedOut, Terminate, Reap, Interrupt
<1>3. UNCHANGED <<call, requests, read>> /\ output' \in {output, Broken}
  BY DEF HelperExits, HelperFails, Collect, TimedOut, Terminate, Reap, Interrupt
<1>4. RequestsInv' /\ OutputInv'
  BY <1>2, <1>3, ProcessKeeps
<1>5. result' = None \/ result'.outcome # "read"
  BY <1>2 DEF HelperInv, ProcessInv, HelperExits, HelperFails, Collect, TimedOut, Terminate, Reap,
         Interrupt, Ended
<1>6. ResultInv'
  BY <1>5 DEF ResultInv
<1> QED
  BY <1>1, <1>4, <1>6 DEF HelperInv

(* HelperInv is inductive. *)
LEMMA HelperStep == HelperInv /\ [Next]_vars => HelperInv'
<1>1. HelperInv /\ UNCHANGED vars => HelperInv'
  <2> SUFFICES ASSUME HelperInv, UNCHANGED vars PROVE HelperInv'
    OBVIOUS
  <2>1. UNCHANGED <<call, phase, requests, warnings, child, read, output, result>>
    BY DEF vars
  <2>2. ProcessInv' /\ RequestsInv' /\ OutputInv'
    BY <2>1 DEF HelperInv, ProcessInv, RequestsInv, RequestInv, OutputInv
  <2>3. Reading(Evidence(output))' = Reading(Evidence(output))
    BY <2>1 DEF Reading, Evidence, TextsOf
  <2>4. ResultInv'
    BY <2>1, <2>3 DEF HelperInv, ResultInv
  <2> QED
    BY <2>2, <2>4 DEF HelperInv
<1> QED
  BY <1>1, DetectKeeps, StartsKeep, WritesKeep, ReadKeeps, WaitKeeps DEF Next, Finished

(* It holds throughout. *)
LEMMA HelperInvariant == Spec => []HelperInv
  BY HelperInit, HelperStep, PTL DEF Spec

(* When the call is over its process is as well, and only a helper that    *)
(* succeeded is believed (_run_windows_helper, _terminate_process_tree).   *)
THEOREM HelperEndedCorrect == Spec => []HelperEnded
<1>1. HelperInv => HelperEnded
  BY DEF HelperInv, ProcessInv, ResultInv, HelperEnded
<1> QED
  BY <1>1, HelperInvariant, PTL

-----------------------------------------------------------------------------
(* The texts of the fields, and what becomes of them *)

(* What recognize comes to, in terms of the texts of the fields. *)
LEMMA ReadingIs ==
  ASSUME NEW answers
  PROVE  LET e    == Evidence(answers)
             bid  == SelectPrice(e.fields["best_bid"], e.fields["bid_levels"], call.policy)
             ask  == SelectPrice(e.fields["best_ask"], e.fields["ask_levels"], call.policy)
             name == TitleOf(e.fields["item_name"].title)
             c    == Reading(e).contract
         IN  /\ Reading(e).fields = e.fields
             /\ c.bid = bid.value /\ c.ask = ask.value
             /\ c.name = IF name = "" THEN None ELSE name
             /\ c.warnings = bid.warnings \cup ask.warnings \cup e.warnings
             /\ c.errors = (IF name = "" THEN {"item_name_missing"} ELSE {}) \cup bid.errors \cup ask.errors
                  \cup ContractErrors(bid.value, ask.value, Levels(e.fields["bid_levels"]),
                                      Levels(e.fields["ask_levels"]))
<1> DEFINE e     == Evidence(answers)
           texts == [e.fields EXCEPT !.item_name = e.fields.item_name.title]
           bid   == SelectPrice(e.fields["best_bid"], e.fields["bid_levels"], call.policy)
           ask   == SelectPrice(e.fields["best_ask"], e.fields["ask_levels"], call.policy)
           name  == TitleOf(e.fields["item_name"].title)
<1>1. e.fields = [f \in Fields |-> e.fields[f]]
  BY DEF Evidence
<1> HIDE DEF e
<1>2. /\ texts["item_name"] = e.fields["item_name"].title
      /\ \A f \in PriceFields : texts[f] = e.fields[f]
  BY <1>1 DEF Fields, PriceFields
<1> HIDE DEF texts
<1>3. ParseContract(texts, call.policy) =
        Contract(name, bid, ask, Levels(e.fields["bid_levels"]), Levels(e.fields["ask_levels"]))
  BY <1>2 DEF ParseContract, PriceFields
<1>4. Reading(e) = [outcome |-> "read", fields |-> e.fields,
                    contract |-> [ParseContract(texts, call.policy) EXCEPT !.warnings = @ \cup e.warnings]]
  BY DEF Reading, texts
<1> HIDE DEF bid, ask, name
<1>5. /\ Reading(e).fields = e.fields
      /\ Reading(e).contract =
           [Contract(name, bid, ask, Levels(e.fields["bid_levels"]), Levels(e.fields["ask_levels"]))
              EXCEPT !.warnings = @ \cup e.warnings]
  BY <1>3, <1>4
<1> QED
  BY <1>5 DEF Contract, e, bid, ask, name

(* What _batch_payload_to_ocr_result comes to, field by field. *)
LEMMA EvidenceIs ==
  ASSUME NEW answers
  PROVE  LET e == Evidence(answers)
             name == SelectTitle(TextsOf(answers, "item_name"))
         IN  /\ e.fields["item_name"] = name.text
             /\ \A f \in PriceFields : e.fields[f] = BestPriceText(TextsOf(answers, f))
             /\ e.warnings = warnings \cup name.warnings
                               \cup MappingWarnings(answers, {r.physical : r \in ToSet(requests)})
BY DEF Evidence, Fields, PriceFields

(* An answer that counts for a request is what was seen on its image, if   *)
(* there is one.                                                           *)
LEMMA TextOfRequest ==
  ASSUME HelperInv, output \notin {None, Broken}, NEW i \in DOMAIN requests
  PROVE  LET text == TextOf(output, requests[i])
             seen == read[requests[i].image]
         IN  /\ text = Blank(requests[i].field) \/ text = seen
             /\ requests[i].physical \in {output[k].id : k \in DOMAIN output} => text = seen
<1> DEFINE own == {k \in DOMAIN output : output[k].id = requests[i].physical}
<1>1. TextOf(output, requests[i]) =
        IF own = {} THEN Blank(requests[i].field) ELSE output[Min(own)].text
  BY DEF TextOf
<1>2. own \subseteq Nat
  BY DEF HelperInv, OutputInv
<1>3. ASSUME own # {}
      PROVE  output[Min(own)].text = read[requests[i].image]
  <2> DEFINE k == Min(own)
  <2>1. k \in own
    <3> HIDE DEF own
    <3> QED
      BY <1>2, <1>3, LeastIndex
  <2>2. /\ requests[i].physical \in DOMAIN requests
        /\ requests[requests[i].physical].image = requests[i].image
    BY DEF HelperInv, RequestsInv, RequestInv
  <2> HIDE DEF k
  <2>3. output[k].text = read[requests[output[k].id].image]
    BY <2>1, <2>2 DEF HelperInv, OutputInv
  <2>4. output[k].text = read[requests[i].image]
    BY <2>1, <2>2, <2>3
  <2> QED
    BY <2>4 DEF k
<1>4. requests[i].physical \in {output[k].id : k \in DOMAIN output} => own # {}
  OBVIOUS
<1> HIDE DEF own
<1> QED
  BY <1>1, <1>3, <1>4

(* _score_recognized_text is a number, whatever the text. *)
LEMMA ScoreType == \A text : Score(text) \in Int
<1> TAKE text
<1> DEFINE a == IF Dotted(text) THEN 40 ELSE IF text.tokens # <<>> THEN 20 ELSE 0
           b == IF Len(text.tokens) > 1 /\ ~ Dotted(text) THEN 10 ELSE 0
           c == IF text.letters THEN 5 ELSE 0
<1>1. a \in Int /\ b \in Int /\ c \in Int
  OBVIOUS
<1>2. Score(text) = IF IsBlank(text) THEN 0 ELSE 10 + a - b - c
  BY DEF Score
<1> HIDE DEF a, b, c
<1> QED
  BY <1>1, <1>2

(* A field nothing was read for still has a text. *)
LEMMA BlankIsText == NoText \in Texts
<1>1. <<>> \in Seq(Tokens)
  OBVIOUS
<1> QED
  BY <1>1 DEF NoText, Text, Texts

(* The requests of one field are finitely many. *)
LEMMA OwnRequests ==
  ASSUME HelperInv, NEW f
  PROVE  LET own == {i \in DOMAIN requests : requests[i].field = f}
         IN  own \subseteq Nat /\ IsFiniteSet(own)
<1> DEFINE own == {i \in DOMAIN requests : requests[i].field = f}
<1>1. own \in SUBSET DOMAIN requests
  OBVIOUS
<1>2. DOMAIN requests \subseteq Nat /\ IsFiniteSet(DOMAIN requests)
  BY DEF HelperInv, RequestsInv
<1> HIDE DEF own
<1>3. own \subseteq Nat /\ IsFiniteSet(own)
  BY <1>1, <1>2, FS_Subset
<1> QED
  BY <1>3 DEF own

(* The text of a field with prices. *)
LEMMA PriceFieldText ==
  ASSUME HelperInv, output \notin {None, Broken}, NEW f \in PriceFields
  PROVE  LET text == BestPriceText(TextsOf(output, f))
             own  == {i \in DOMAIN requests : requests[i].field = f}
         IN  /\ text \in Texts
             /\ text = NoText \/ \E i \in own : text = read[requests[i].image]
             /\ (\A i \in own : requests[i].physical \in {output[k].id : k \in DOMAIN output})
                  => \A i \in own : Score(read[requests[i].image]) <= Score(text)
<1> DEFINE own    == {i \in DOMAIN requests : requests[i].field = f}
           texts  == TextsOf(output, f)
           scores == [i \in DOMAIN texts |-> Score(texts[i])]
           text   == BestPriceText(texts)
           ids    == {output[k].id : k \in DOMAIN output}
<1>1. DOMAIN texts = own /\ \A i \in own : texts[i] = TextOf(output, requests[i])
  BY DEF TextsOf
<1>2. text = IF own = {} THEN NoText ELSE FirstBest(texts, scores)
  BY <1>1 DEF BestPriceText
<1>3. CASE own = {}
  <2> HIDE DEF own, texts, text
  <2>1. text = NoText
    BY <1>2, <1>3
  <2> QED
    BY <1>3, <2>1, BlankIsText DEF own, texts, text
<1>4. CASE own # {}
  <2>1. own \subseteq Nat /\ IsFiniteSet(own)
    BY OwnRequests
  <2>2. scores \in [own -> Int]
    <3> HIDE DEF own, texts
    <3> QED
      BY <1>1, ScoreType
  <2>3. PICK i \in own : text = texts[i] /\ \A j \in own : scores[j] <= scores[i]
    <3> HIDE DEF own, texts, scores, text
    <3> QED
      BY <1>1, <1>2, <1>4, <2>1, <2>2, BestIs
  <2>4. \A j \in own : scores[j] = Score(texts[j])
    BY <1>1
  <2> HIDE DEF texts, scores, text
  <2>5. ASSUME NEW j \in own
        PROVE  /\ texts[j] = NoText \/ texts[j] = read[requests[j].image]
               /\ requests[j].physical \in ids => texts[j] = read[requests[j].image]
               /\ texts[j] \in Texts
    <3>1. j \in DOMAIN requests /\ requests[j].field = f /\ f # "item_name"
      BY DEF PriceFields
    <3>2. Blank(f) = NoText
      BY <3>1 DEF Blank
    <3>3. read[requests[j].image] \in Texts
      BY <3>1 DEF HelperInv, OutputInv
    <3>4. /\ texts[j] = NoText \/ texts[j] = read[requests[j].image]
          /\ requests[j].physical \in ids => texts[j] = read[requests[j].image]
      BY <1>1, <3>1, <3>2, TextOfRequest
    <3> QED
      BY <3>3, <3>4, BlankIsText
  <2>6. text = NoText \/ \E j \in own : text = read[requests[j].image]
    BY <2>3, <2>5
  <2>7. text \in Texts
    BY <2>3, <2>5
  <2>8. ASSUME \A j \in own : requests[j].physical \in ids
        PROVE  \A j \in own : Score(read[requests[j].image]) <= Score(text)
    <3> HIDE DEF own, ids
    <3> QED
      BY <2>3, <2>4, <2>5, <2>8
  <2> HIDE DEF own, ids
  <2>9. /\ text \in Texts
        /\ text = NoText \/ \E j \in own : text = read[requests[j].image]
        /\ (\A j \in own : requests[j].physical \in ids)
             => \A j \in own : Score(read[requests[j].image]) <= Score(text)
    BY <2>6, <2>7, <2>8
  <2> QED
    BY <2>9 DEF own, ids, text, texts
<1> QED
  BY <1>3, <1>4

(* A title that is seen is one, and has a score when it is legible. *)
LEMMA SeenTitle ==
  ASSUME NEW t \in SeenTitles
  PROVE  /\ t = [title |-> t.title] /\ t.title # None
         /\ TitleOf(t.title) # "" => TitleScore[t.title] \in Int
<1>1. t \in [title : STRING] /\ t.title # None
      /\ (TitleOf(t.title) # "" => TitleScore[t.title] \in Int)
  BY OcrHelperAssumption, Zenon DEF OcrHelperAssumption, SeenTitles
<1> QED
  BY <1>1

(* The title is read where it is asked for, and never without a warning.   *)
LEMMA TitleFieldText ==
  ASSUME HelperInv, output \notin {None, Broken}
  PROVE  LET selected == SelectTitle(TextsOf(output, "item_name"))
             text == selected.text
         IN  \/ text = Blank("item_name")
             \/ /\ "item_title_candidate_review" \in selected.warnings
                /\ \E i \in DOMAIN requests :
                     requests[i].field = "item_name" /\ text = read[requests[i].image]
                /\ text \in SeenTitles
<1> DEFINE own   == {i \in DOMAIN requests : requests[i].field = "item_name"}
           texts == TextsOf(output, "item_name")
           titles  == [i \in DOMAIN texts |-> TitleOf(texts[i].title)]
           legible == {i \in DOMAIN texts : titles[i] # ""}
           among   == [i \in legible |-> [title |-> titles[i]]]
           scores  == [i \in legible |-> TitleScore[titles[i]]]
           selected == SelectTitle(texts)
<1>1. DOMAIN texts = own /\ \A i \in own : texts[i] = TextOf(output, requests[i])
  BY DEF TextsOf
<1>2. \/ legible = {} /\ selected.text = Blank("item_name")
      \/ /\ legible # {}
         /\ selected.text = FirstBest(among, scores)
         /\ "item_title_candidate_review" \in selected.warnings
  BY DEF SelectTitle
<1> HIDE DEF texts
<1>3. ASSUME NEW i \in legible
      PROVE  /\ i \in own /\ among[i] = read[requests[i].image] /\ among[i] \in SeenTitles
             /\ scores[i] \in Int
  <2>1. i \in own /\ titles[i] = TitleOf(texts[i].title) /\ titles[i] # ""
    BY <1>1
  <2>2. texts[i] = Blank("item_name") \/ texts[i] = read[requests[i].image]
    BY <1>1, <2>1, TextOfRequest
  <2>3. texts[i] # Blank("item_name")
    <3>1. Blank("item_name").title = "" /\ TitleOf("") = ""
      BY DEF Blank, TitleOf
    <3> HIDE DEF titles
    <3> QED
      BY <2>1, <3>1
  <2>4. read[requests[i].image] \in SeenTitles
    BY <2>1 DEF HelperInv, OutputInv
  <2>5. titles[i] = texts[i].title
    BY <2>1 DEF TitleOf
  <2>6. texts[i] \in SeenTitles /\ TitleScore[titles[i]] \in Int /\ texts[i] = [title |-> titles[i]]
    BY <2>1, <2>2, <2>3, <2>4, <2>5, SeenTitle
  <2>7. among[i] = [title |-> titles[i]] /\ scores[i] = TitleScore[titles[i]]
    <3> HIDE DEF titles
    <3> QED
      OBVIOUS
  <2> HIDE DEF titles, among, scores, own
  <2> QED
    BY <2>1, <2>2, <2>3, <2>6, <2>7
<1>4. CASE legible = {} /\ selected.text = Blank("item_name")
  BY <1>4 DEF texts
<1>5. CASE /\ legible # {}
           /\ selected.text = FirstBest(among, scores)
           /\ "item_title_candidate_review" \in selected.warnings
  <2>1. own \subseteq Nat /\ IsFiniteSet(own)
    BY OwnRequests
  <2>2. legible \in SUBSET own
    BY <1>1
  <2>3. DOMAIN among = legible /\ scores \in [legible -> Int]
    <3>1. scores = [i \in legible |-> scores[i]]
      OBVIOUS
    <3> HIDE DEF legible, titles, scores
    <3> QED
      BY <1>3, <3>1
  <2> HIDE DEF legible, own, among, scores, titles, selected
  <2>4. legible \subseteq Nat /\ IsFiniteSet(legible)
    BY <2>1, <2>2, FS_Subset
  <2>5. PICK i \in legible : FirstBest(among, scores) = among[i]
    BY <1>5, <2>3, <2>4, BestIs
  <2>6. i \in own /\ selected.text = read[requests[i].image] /\ selected.text \in SeenTitles
    BY <1>3, <1>5, <2>5
  <2>7. i \in DOMAIN requests /\ requests[i].field = "item_name"
    BY <2>6 DEF own
  <2> QED
    BY <1>5, <2>6, <2>7 DEF selected, texts
<1> QED
  BY <1>2, <1>4, <1>5

-----------------------------------------------------------------------------
(* The properties *)

(* What a call that read the screenshot comes to.                          *)
LEMMA ResultIs ==
  ASSUME HelperInv, IsRead
  PROVE  LET name == SelectTitle(TextsOf(output, "item_name"))
             Chose(f, g) == SelectPrice(result.fields[f], result.fields[g], call.policy)
             bid == Chose("best_bid", "bid_levels")
             ask == Chose("best_ask", "ask_levels")
             named == TitleOf(result.fields["item_name"].title)
             contract == result.contract
         IN  /\ output \notin {None, Broken}
             /\ result.fields["item_name"] = name.text
             /\ \A f \in PriceFields : result.fields[f] = BestPriceText(TextsOf(output, f))
             /\ contract.bid = bid.value /\ contract.ask = ask.value
             /\ contract.name = IF named = "" THEN None ELSE named
             /\ bid.warnings \cup ask.warnings \cup name.warnings
                  \cup MappingWarnings(output, {r.physical : r \in ToSet(requests)})
                  \subseteq contract.warnings
             /\ (IF named = "" THEN {"item_name_missing"} ELSE {})
                  \cup ContractErrors(bid.value, ask.value, Levels(result.fields["bid_levels"]),
                                      Levels(result.fields["ask_levels"]))
                  \subseteq contract.errors
<1> DEFINE e    == Evidence(output)
           name == SelectTitle(TextsOf(output, "item_name"))
           mapping == MappingWarnings(output, {r.physical : r \in ToSet(requests)})
           bid  == SelectPrice(e.fields["best_bid"], e.fields["bid_levels"], call.policy)
           ask  == SelectPrice(e.fields["best_ask"], e.fields["ask_levels"], call.policy)
           named == TitleOf(e.fields["item_name"].title)
           c    == Reading(e).contract
           wrong == ContractErrors(bid.value, ask.value, Levels(e.fields["bid_levels"]),
                                   Levels(e.fields["ask_levels"]))
<1>1. output \notin {None, Broken} /\ result = Reading(e)
  BY DEF HelperInv, ResultInv, IsRead
<1>2. /\ Reading(e).fields = e.fields
      /\ c.bid = bid.value /\ c.ask = ask.value
      /\ c.name = IF named = "" THEN None ELSE named
      /\ c.warnings = bid.warnings \cup ask.warnings \cup e.warnings
      /\ c.errors = (IF named = "" THEN {"item_name_missing"} ELSE {}) \cup bid.errors \cup ask.errors
                      \cup wrong
  BY ReadingIs
<1>3. /\ e.fields["item_name"] = name.text
      /\ \A f \in PriceFields : e.fields[f] = BestPriceText(TextsOf(output, f))
      /\ e.warnings = warnings \cup name.warnings \cup mapping
  BY EvidenceIs
<1>4. result.fields = e.fields /\ result.contract = c
  BY <1>1, <1>2
<1> HIDE DEF e, name, mapping, c
<1>5. bid.warnings \cup ask.warnings \cup name.warnings \cup mapping \subseteq c.warnings
  <2> HIDE DEF bid, ask
  <2> QED
    BY <1>2, <1>3
<1>6. (IF named = "" THEN {"item_name_missing"} ELSE {}) \cup wrong \subseteq c.errors
  <2> HIDE DEF bid, ask, named, wrong
  <2> QED
    BY <1>2
<1>7. /\ bid = SelectPrice(result.fields["best_bid"], result.fields["bid_levels"], call.policy)
      /\ ask = SelectPrice(result.fields["best_ask"], result.fields["ask_levels"], call.policy)
      /\ named = TitleOf(result.fields["item_name"].title)
      /\ wrong = ContractErrors(bid.value, ask.value, Levels(result.fields["bid_levels"]),
                                Levels(result.fields["ask_levels"]))
  BY <1>4
<1> HIDE DEF bid, ask, named, wrong
<1>8. output \notin {None, Broken}
  BY <1>1
<1>9. /\ result.fields["item_name"] = name.text
      /\ \A f \in PriceFields : result.fields[f] = BestPriceText(TextsOf(output, f))
  BY <1>3, <1>4
<1>10. /\ result.contract.bid = bid.value /\ result.contract.ask = ask.value
       /\ result.contract.name = IF named = "" THEN None ELSE named
  BY <1>2, <1>4
<1>11. /\ bid.warnings \cup ask.warnings \cup name.warnings \cup mapping
             \subseteq result.contract.warnings
       /\ (IF named = "" THEN {"item_name_missing"} ELSE {}) \cup wrong
             \subseteq result.contract.errors
  BY <1>4, <1>5, <1>6
<1> QED
  BY <1>7, <1>8, <1>9, <1>10, <1>11 DEF name, mapping

(* The two texts of a price, of which it is selected. *)
LEMMA TextsAreRead ==
  ASSUME HelperInv, IsRead, NEW f \in PriceFields
  PROVE  result.fields[f] \in Texts
BY ResultIs, PriceFieldText

(* The text of a field was seen on one of its own images, however the      *)
(* helper orders, repeats or loses its answers; with none lost it is the   *)
(* best of them; a title is read in the title bar                          *)
(* (prepare_windows_ocr_batch, _batch_payload_to_ocr_result).              *)
THEOREM AnswersMatchAlways == Spec => []AnswersMatch
<1>1. HelperInv => AnswersMatch
  <2> SUFFICES ASSUME HelperInv, IsRead, NEW f \in Fields
               PROVE  LET own  == {r \in ToSet(requests) : r.field = f}
                          text == result.fields[f]
                      IN  /\ text = Blank(f) \/ \E r \in own : text = read[r.image]
                          /\ f \in PriceFields
                               /\ {"missing_response", "unknown_response"} \cap result.contract.warnings = {}
                               => \A r \in own : Score(read[r.image]) <= Score(text)
                          /\ f = "item_name" /\ call.recognizer.title # None /\ text # Blank(f)
                               => \A r \in own : r.found
    BY DEF AnswersMatch
  <2> DEFINE own  == {r \in ToSet(requests) : r.field = f}
             at   == {i \in DOMAIN requests : requests[i].field = f}
             text == result.fields[f]
             ids  == {output[k].id : k \in DOMAIN output}
             physicals == {r.physical : r \in ToSet(requests)}
  <2>1. own = {requests[i] : i \in at}
    BY DEF ToSet
  <2>2. output \notin {None, Broken}
    BY ResultIs
  <2>3. CASE f \in PriceFields
    <3>1. Blank(f) = NoText /\ f # "item_name"
      BY <2>3 DEF Blank, PriceFields
    <3>2. /\ text = NoText \/ \E i \in at : text = read[requests[i].image]
          /\ (\A i \in at : requests[i].physical \in ids)
               => \A i \in at : Score(read[requests[i].image]) <= Score(text)
      <4>1. text = BestPriceText(TextsOf(output, f))
        BY <2>3, ResultIs
      <4> HIDE DEF text
      <4> QED
        BY <2>2, <2>3, <4>1, PriceFieldText
    <3>3. ASSUME {"missing_response", "unknown_response"} \cap result.contract.warnings = {}
          PROVE  \A i \in at : requests[i].physical \in ids
      <4>1. MappingWarnings(output, physicals) \subseteq result.contract.warnings
        BY ResultIs
      <4>2. ~ physicals \subseteq ids => "missing_response" \in MappingWarnings(output, physicals)
        BY DEF MappingWarnings
      <4>3. physicals \subseteq ids
        <5> HIDE DEF physicals, ids
        <5> QED
          BY <3>3, <4>1, <4>2
      <4>4. \A i \in DOMAIN requests : requests[i].physical \in physicals
        BY DEF ToSet
      <4> HIDE DEF physicals, ids
      <4> QED
        BY <4>3, <4>4
    <3> HIDE DEF own, at, text, ids
    <3> QED
      BY <2>1, <3>1, <3>2, <3>3 DEF own, text
  <2>4. CASE f = "item_name"
    <3>1. f \notin PriceFields
      BY <2>4 DEF PriceFields
    <3>2. text = Blank(f) \/ \E i \in at : text = read[requests[i].image]
      BY <2>2, <2>4, ResultIs, TitleFieldText
    <3>3. call.recognizer.title # None => \A i \in at : requests[i].found
      BY <2>4 DEF HelperInv, RequestsInv, RequestInv
    <3> HIDE DEF own, at, text
    <3> QED
      BY <2>1, <3>1, <3>2, <3>3 DEF own, text
  <2> QED
    BY <2>3, <2>4 DEF Fields
<1> QED
  BY <1>1, HelperInvariant, PTL

(* A contract without errors has both prices and a name, the prices in     *)
(* order and in the range of the market (_candidates_from_text,            *)
(* validate_screen_contract).                                              *)
THEOREM PriceCheckedAlways == Spec => []PriceChecked
<1>1. HelperInv => PriceChecked
  <2> SUFFICES ASSUME HelperInv, IsRead, result.contract.errors = {}
               PROVE  LET contract == result.contract
                      IN  /\ None \notin {contract.bid, contract.ask, contract.name}
                          /\ 1 <= contract.bid /\ contract.bid <= contract.ask /\ contract.ask <= Cap
    BY DEF PriceChecked
  <2> DEFINE bid == SelectPrice(result.fields["best_bid"], result.fields["bid_levels"], call.policy)
             ask == SelectPrice(result.fields["best_ask"], result.fields["ask_levels"], call.policy)
             named == TitleOf(result.fields["item_name"].title)
             wrong == ContractErrors(bid.value, ask.value, Levels(result.fields["bid_levels"]),
                                     Levels(result.fields["ask_levels"]))
             contract == result.contract
  <2>1. bid.value \in Nat \cup {None} /\ ask.value \in Nat \cup {None}
    BY TextsAreRead, PriceTypes DEF PriceFields
  <2>2. /\ contract.bid = bid.value /\ contract.ask = ask.value
        /\ contract.name = IF named = "" THEN None ELSE named
        /\ named # "" /\ wrong = {}
    <3>1. /\ contract.bid = bid.value /\ contract.ask = ask.value
          /\ contract.name = IF named = "" THEN None ELSE named
          /\ (IF named = "" THEN {"item_name_missing"} ELSE {}) \cup wrong \subseteq contract.errors
      BY ResultIs
    <3> HIDE DEF bid, ask, named, wrong
    <3> QED
      BY <3>1
  <2>3. bid.value # None /\ ask.value # None /\ 1 <= bid.value /\ bid.value <= ask.value
        /\ ask.value <= Cap
    <3> HIDE DEF bid, ask
    <3> QED
      BY <2>1, <2>2, ContractHolds
  <2>4. named # None
    <3>1. \/ result.fields["item_name"] = Blank("item_name")
          \/ result.fields["item_name"] \in SeenTitles
      BY ResultIs, TitleFieldText
    <3>2. result.fields["item_name"] # Blank("item_name")
      <4>1. TitleOf(Blank("item_name").title) = ""
        BY DEF Blank, TitleOf
      <4> QED
        BY <2>2, <4>1
    <3>3. result.fields["item_name"].title # None
      BY <3>1, <3>2, SeenTitle
    <3>4. named = result.fields["item_name"].title
      BY <2>2 DEF TitleOf
    <3> QED
      BY <3>3, <3>4
  <2> HIDE DEF bid, ask, named, wrong
  <2> QED
    BY <2>2, <2>3, <2>4
<1> QED
  BY <1>1, HelperInvariant, PTL

(* One misread text of a price changes it only with a warning, whatever it *)
(* is misread as, and a title never comes out without one                  *)
(* (select_price_candidate, _select_item_title_result).                    *)
THEOREM MisreadNoticed == Spec => []MisreadIsNoticed
<1>1. /\ \A f \in PriceFields :
           LET cents == Truth[f].tokens[1].cents
           IN  cents \in 1 .. Cap /\ Truth[f] = Plain(cents)
      /\ Truth["best_bid"] = Truth["bid_levels"] /\ Truth["best_ask"] = Truth["ask_levels"]
  BY OcrHelperAssumption, Zenon DEF OcrHelperAssumption, Plain
<1>2. ASSUME HelperInv, IsRead, NEW scalar \in PriceFields, NEW level \in PriceFields,
             Truth[scalar] = Truth[level], NEW selected,
             selected = SelectPrice(result.fields[scalar], result.fields[level], call.policy)
      PROVE  \/ selected.value \in {None, Truth[scalar].tokens[1].cents}
             \/ Disagreement \in selected.warnings
             \/ result.fields[scalar] # Truth[scalar] /\ result.fields[level] # Truth[level]
  <2> DEFINE cents == Truth[scalar].tokens[1].cents
  <2>1. cents \in 1 .. Cap /\ Truth[scalar] = Plain(cents) /\ Truth[level] = Plain(cents)
    BY <1>1, <1>2
  <2>2. result.fields[scalar] \in Texts /\ result.fields[level] \in Texts
    BY <1>2, TextsAreRead
  <2> HIDE DEF cents
  <2>3. result.fields[scalar] = Plain(cents) \/ result.fields[level] = Plain(cents)
        => selected.value \in {None, cents} \/ Disagreement \in selected.warnings
    BY <1>2, <2>1, <2>2, OnePlainText
  <2> QED
    BY <2>1, <2>3 DEF cents
<1>3. HelperInv => MisreadIsNoticed
  <2> SUFFICES ASSUME HelperInv, IsRead
               PROVE  MisreadIsNoticed
    BY DEF MisreadIsNoticed
  <2> DEFINE contract == result.contract
             bid == SelectPrice(result.fields["best_bid"], result.fields["bid_levels"], call.policy)
             ask == SelectPrice(result.fields["best_ask"], result.fields["ask_levels"], call.policy)
             name == SelectTitle(TextsOf(output, "item_name"))
             named == TitleOf(result.fields["item_name"].title)
             Right(price, scalar, level) ==
               \/ price \in {None, Truth[scalar].tokens[1].cents}
               \/ Disagreement \in contract.warnings
               \/ result.fields[scalar] # Truth[scalar] /\ result.fields[level] # Truth[level]
  <2>1. /\ contract.bid = bid.value /\ contract.ask = ask.value
        /\ contract.name = IF named = "" THEN None ELSE named
        /\ bid.warnings \subseteq contract.warnings /\ ask.warnings \subseteq contract.warnings
        /\ name.warnings \subseteq contract.warnings
        /\ output \notin {None, Broken} /\ result.fields["item_name"] = name.text
    <3>1. /\ contract.bid = bid.value /\ contract.ask = ask.value
          /\ contract.name = IF named = "" THEN None ELSE named
          /\ bid.warnings \cup ask.warnings \cup name.warnings
                  \cup MappingWarnings(output, {r.physical : r \in ToSet(requests)})
               \subseteq contract.warnings
          /\ output \notin {None, Broken} /\ result.fields["item_name"] = name.text
      BY ResultIs
    <3> HIDE DEF bid, ask, name, named, contract
    <3> QED
      BY <3>1
  <2>2. Right(contract.bid, "best_bid", "bid_levels")
    <3>1. \/ bid.value \in {None, Truth["best_bid"].tokens[1].cents}
          \/ Disagreement \in bid.warnings
          \/ result.fields["best_bid"] # Truth["best_bid"] /\ result.fields["bid_levels"] # Truth["bid_levels"]
      BY <1>1, <1>2 DEF PriceFields
    <3> HIDE DEF bid, name, contract
    <3> QED
      BY <2>1, <3>1
  <2>3. Right(contract.ask, "best_ask", "ask_levels")
    <3>1. \/ ask.value \in {None, Truth["best_ask"].tokens[1].cents}
          \/ Disagreement \in ask.warnings
          \/ result.fields["best_ask"] # Truth["best_ask"] /\ result.fields["ask_levels"] # Truth["ask_levels"]
      BY <1>1, <1>2 DEF PriceFields
    <3> HIDE DEF ask, name, contract
    <3> QED
      BY <2>1, <3>1
  <2>4. contract.name # None => "item_title_candidate_review" \in contract.warnings
    <3>1. name.text = Blank("item_name") \/ "item_title_candidate_review" \in name.warnings
      BY <2>1, TitleFieldText
    <3>2. name.text = Blank("item_name") => named = ""
      <4>1. TitleOf(Blank("item_name").title) = ""
        BY DEF Blank, TitleOf
      <4> HIDE DEF name
      <4> QED
        BY <2>1, <4>1
    <3> HIDE DEF bid, ask, name, named, contract
    <3> QED
      BY <2>1, <3>1, <3>2
  <2> QED
    BY <2>2, <2>3, <2>4 DEF MisreadIsNoticed, Disagreement
<1> QED
  BY <1>3, HelperInvariant, PTL

-----------------------------------------------------------------------------
(* Bands and groups of text *)

(* The least of a set of indices. *)
LEMMA CellsLeast ==
  ASSUME NEW S, S \subseteq Nat, S # {}
  PROVE  Cells!Min(S) \in S /\ \A n \in S : Cells!Min(S) <= n
BY LeastIndex DEF Min, Cells!Min

(* The greater and the lesser of two. *)
LEMMA OfTwo ==
  ASSUME NEW a \in Int, NEW b \in Int
  PROVE  /\ Cells!Max({a, b}) = IF a >= b THEN a ELSE b
         /\ Cells!Min({a, b}) = IF a <= b THEN a ELSE b
<1>1. Cells!Max({a, b}) \in {a, b} /\ \A y \in {a, b} : Cells!Max({a, b}) >= y
  <2> DEFINE top(x) == x \in {a, b} /\ \A y \in {a, b} : x >= y
  <2>1. \E x \in {a, b} : top(x)
    <3>1. CASE a >= b
      <4>1. top(a)
        BY <3>1
      <4> QED
        BY <4>1
    <3>2. CASE ~ (a >= b)
      <4>1. top(b)
        BY <3>2
      <4> QED
        BY <4>1
    <3> QED
      BY <3>1, <3>2
  <2> QED
    BY <2>1 DEF Cells!Max
<1>2. Cells!Min({a, b}) \in {a, b} /\ \A y \in {a, b} : Cells!Min({a, b}) <= y
  <2> DEFINE top(x) == x \in {a, b} /\ \A y \in {a, b} : x <= y
  <2>1. \E x \in {a, b} : top(x)
    <3>1. CASE a <= b
      <4>1. top(a)
        BY <3>1
      <4> QED
        BY <4>1
    <3>2. CASE ~ (a <= b)
      <4>1. top(b)
        BY <3>2
      <4> QED
        BY <4>1
    <3> QED
      BY <3>1, <3>2
  <2> QED
    BY <2>1 DEF Cells!Min
<1> QED
  BY <1>1, <1>2

(* A percentage of a number is a whole number. *)
LEMMA PercentType ==
  ASSUME NEW percent \in Int, NEW n \in Int
  PROVE  Cells!Percent(percent, n) \in Int
<1> DEFINE m == percent * n
<1>1. m \in Int
  OBVIOUS
<1> HIDE DEF m
<1>2. Cells!Rounded(m, 100) \in Int
  <2> DEFINE q == m \div 100
  <2>1. q \in Int
    BY <1>1
  <2> HIDE DEF q
  <2>2. q + 1 \in Int
    BY <2>1
  <2> QED
    BY <2>1, <2>2 DEF Cells!Rounded, q
<1> QED
  BY <1>2 DEF Cells!Percent, m

(* So is what is rounded. *)
LEMMA RoundedType ==
  ASSUME NEW n \in Int
  PROVE  Cells!Rounded(n, 100) \in Int
<1> DEFINE q == n \div 100
<1>1. q \in Int
  OBVIOUS
<1> HIDE DEF q
<1>2. q + 1 \in Int
  BY <1>1
<1> QED
  BY <1>1, <1>2 DEF Cells!Rounded, q

(* Where a band may start, and where it may end. *)
Starts(active, gap) == {i \in active : \A j \in (i - 1 - gap) .. (i - 1) : j \notin active}
Ends(active, gap) == {i \in active : \A j \in (i + 1) .. (i + 1 + gap) : j \notin active}

(* A band goes from a start to the first end after it. *)
LEMMA BandIs ==
  ASSUME NEW active, active \subseteq Nat, IsFiniteSet(active), NEW gap \in Nat,
         NEW s \in Cells!Bands(active, gap)
  PROVE  /\ s = <<s[1], s[2]>> /\ s[1] \in Starts(active, gap) /\ s[2] - 1 \in Ends(active, gap)
         /\ s[1] \in Nat /\ s[2] \in Nat /\ s[1] < s[2]
         /\ \A e \in Ends(active, gap) : e >= s[1] => s[2] <= e + 1
<1> DEFINE later(i) == {e \in Ends(active, gap) : e >= i}
<1>1. PICK i \in Starts(active, gap) : s = <<i, Cells!Min(later(i)) + 1>>
  BY DEF Cells!Bands, Starts, Ends
<1>2. i \in active /\ i \in Nat
  BY DEF Starts
<1>3. PICK top \in active : \A y \in active : y <= top
  <2>1. active \in SUBSET Int /\ active # {}
    BY <1>2
  <2> QED
    BY <2>1, GreatestExists
<1>4. top \in later(i)
  <2>1. top \in Nat /\ top >= i
    BY <1>2, <1>3
  <2>2. ASSUME NEW j \in (top + 1) .. (top + 1 + gap), j \in active
        PROVE  FALSE
    <3>1. j \in Int /\ j >= top + 1 /\ j <= top
      BY <1>3, <2>1, <2>2
    <3> QED
      BY <2>1, <3>1
  <2> QED
    BY <2>1, <2>2 DEF Ends
<1>5. later(i) \subseteq Nat
  BY DEF Ends
<1> DEFINE e == Cells!Min(later(i))
<1>6. e \in later(i) /\ \A n \in later(i) : e <= n
  <2> HIDE DEF later
  <2> QED
    BY <1>4, <1>5, CellsLeast
<1>7. e \in Nat /\ e >= i /\ e \in Ends(active, gap)
  <2> HIDE DEF e
  <2> QED
    BY <1>5, <1>6
<1>8. s[1] = i /\ s[2] = e + 1
  <2> HIDE DEF later
  <2> QED
    BY <1>1
<1>9. \A n \in Ends(active, gap) : n >= i => e <= n
  <2> HIDE DEF e
  <2> QED
    BY <1>6
<1> HIDE DEF e
<1> QED
  <2>1. s[2] - 1 = e /\ s[2] \in Nat /\ i < s[2]
    BY <1>2, <1>7, <1>8
  <2>2. \A n \in Ends(active, gap) : n >= s[1] => s[2] <= n + 1
    <3> TAKE n \in Ends(active, gap)
    <3>1. n \in Nat
      BY DEF Ends
    <3> QED
      BY <1>7, <1>8, <1>9, <3>1
  <2>3. s = <<s[1], s[2]>>
    BY <1>1, <1>8
  <2> QED
    BY <1>1, <1>2, <1>7, <1>8, <2>1, <2>2, <2>3

(* Between two bands there is more than a gap. *)
LEMMA BandsApart ==
  ASSUME NEW active, active \subseteq Nat, IsFiniteSet(active), NEW gap \in Nat,
         NEW s \in Cells!Bands(active, gap), NEW t \in Cells!Bands(active, gap), s[1] < t[1]
  PROVE  s[2] + gap < t[1]
<1>1. /\ s[1] \in active /\ s[1] \in Nat /\ s[2] \in Nat
      /\ \A e \in Ends(active, gap) : e >= s[1] => s[2] <= e + 1
  BY BandIs DEF Starts
<1>2. /\ t[1] \in Nat /\ t[1] \in active
      /\ \A j \in (t[1] - 1 - gap) .. (t[1] - 1) : j \notin active
  BY BandIs DEF Starts
<1> DEFINE before == {j \in active : j < t[1]}
<1>3. before \in SUBSET Int /\ before # {} /\ IsFiniteSet(before)
  <2>1. before \in SUBSET active
    OBVIOUS
  <2>3. s[1] \in before
    BY <1>1, <1>2
  <2>2. before \in SUBSET Int
    <3> HIDE DEF before
    <3> QED
      BY <2>1
  <2> HIDE DEF before
  <2> QED
    BY <2>1, <2>2, <2>3, FS_Subset
<1>4. PICK m \in before : \A y \in before : y <= m
  <2> HIDE DEF before
  <2> QED
    BY <1>3, GreatestExists
<1>5. m \in active /\ m \in Nat /\ m < t[1] /\ m >= s[1]
  BY <1>1, <1>4
<1>6. m + gap + 1 < t[1]
  <2>1. m \notin (t[1] - 1 - gap) .. (t[1] - 1)
    BY <1>2, <1>5
  <2> QED
    BY <1>2, <1>5, <2>1
<1>7. m \in Ends(active, gap)
  <2>1. ASSUME NEW j \in (m + 1) .. (m + 1 + gap), j \in active
        PROVE  FALSE
    <3>1. j \in Nat /\ j >= m + 1 /\ j < t[1]
      BY <1>2, <1>5, <1>6, <2>1
    <3> QED
      BY <1>4, <1>5, <2>1, <3>1
  <2> QED
    BY <1>5, <2>1 DEF Ends
<1> QED
  BY <1>1, <1>2, <1>5, <1>6, <1>7

(* Bands that start together are the same. *)
LEMMA BandOfStart ==
  ASSUME NEW active, NEW gap, NEW s \in Cells!Bands(active, gap), NEW t \in Cells!Bands(active, gap),
         s[1] = t[1]
  PROVE  s = t
<1> DEFINE end(i) == Cells!Min({e \in Ends(active, gap) : e >= i}) + 1
<1>1. \A u \in Cells!Bands(active, gap) : \E i : u = <<i, end(i)>>
  BY DEF Cells!Bands, Ends
<1> HIDE DEF end
<1> QED
  BY <1>1

(* There are finitely many bands. *)
LEMMA FiniteBands ==
  ASSUME NEW active, IsFiniteSet(active), NEW gap
  PROVE  IsFiniteSet(Cells!Bands(active, gap))
<1> DEFINE starts == {i \in active : \A j \in (i - 1 - gap) .. (i - 1) : j \notin active}
           band == [i \in starts |-> <<i, Cells!Min({e \in Ends(active, gap) : e >= i}) + 1>>]
<1>1. IsFiniteSet(starts)
  <2>1. starts \in SUBSET active
    OBVIOUS
  <2> HIDE DEF starts
  <2> QED
    BY <2>1, FS_Subset
<1>2. Cells!Bands(active, gap) = {band[i] : i \in starts}
  BY DEF Cells!Bands, Ends
<1>3. band \in Surjection(starts, {band[i] : i \in starts})
  <2> HIDE DEF starts
  <2>1. band \in [starts -> {band[i] : i \in starts}]
    OBVIOUS
  <2> HIDE DEF band
  <2> QED
    BY <2>1 DEF Surjection
<1> HIDE DEF starts, band
<1> QED
  BY <1>1, <1>2, <1>3, FS_Surjection

(* What is active without a break is in one band. *)
LEMMA BandOf ==
  ASSUME NEW active, active \subseteq Nat, IsFiniteSet(active), NEW gap \in Nat,
         NEW i \in Nat, NEW j \in Nat, i <= j, i .. j \subseteq active
  PROVE  \E s \in Cells!Bands(active, gap) : s[1] <= i /\ j < s[2]
<1> DEFINE before == {k \in Starts(active, gap) : k <= i}
<1>1. i \in active /\ \A k \in i .. j : k \in active
  OBVIOUS
<1>2. before # {}
  <2> DEFINE least == Cells!Min(active)
  <2>1. least \in active /\ \A n \in active : least <= n
    BY <1>1, CellsLeast
  <2> HIDE DEF least
  <2>2. ASSUME NEW k \in (least - 1 - gap) .. (least - 1), k \in active
        PROVE  FALSE
    <3>1. k \in Nat /\ least \in Nat /\ least <= k
      BY <2>1, <2>2
    <3> QED
      BY <2>2, <3>1
  <2>3. least \in Starts(active, gap)
    BY <2>1, <2>2 DEF Starts
  <2>4. least <= i
    BY <1>1, <2>1
  <2> QED
    BY <2>3, <2>4
<1>3. before \in SUBSET Int /\ IsFiniteSet(before)
  <2>1. before \in SUBSET active
    BY DEF Starts
  <2> HIDE DEF before
  <2>2. before \in SUBSET Int
    BY <2>1
  <2> QED
    BY <2>1, <2>2, FS_Subset
<1>4. PICK a \in before : \A y \in before : y <= a
  <2> HIDE DEF before
  <2> QED
    BY <1>2, <1>3, GreatestExists
<1>5. a \in Starts(active, gap) /\ a <= i /\ a \in Nat
  BY <1>4 DEF Starts
<1>6. PICK s \in Cells!Bands(active, gap) : s[1] = a
  <2> DEFINE s == <<a, Cells!Min({e \in Ends(active, gap) : e >= a}) + 1>>
  <2>1. s \in Cells!Bands(active, gap)
    BY <1>5 DEF Cells!Bands, Starts, Ends
  <2> QED
    BY <2>1
<1> DEFINE e == s[2] - 1
<1>7. e \in Ends(active, gap) /\ e \in Nat /\ e >= a
  BY <1>5, <1>6, BandIs
<1>8. ASSUME e < j
      PROVE  FALSE
  <2> HIDE DEF e
  <2>0. \A k \in (e + 1) .. (e + 1 + gap) : k \notin active
    BY <1>7 DEF Ends
  <2>1. CASE e >= i
    <3>1. e + 1 \in i .. j /\ e + 1 \in (e + 1) .. (e + 1 + gap)
      BY <1>7, <1>8, <2>1
    <3> QED
      BY <1>1, <2>0, <3>1
  <2>2. CASE e < i
    <3> DEFINE after == {k \in active : k > e}
    <3>1. after \subseteq Nat /\ after # {}
      BY <1>1, <2>2
    <3> DEFINE k == Cells!Min(after)
    <3>2. k \in after /\ \A n \in after : k <= n
      <4> HIDE DEF after
      <4> QED
        BY <3>1, CellsLeast
    <3> HIDE DEF k
    <3>3. k \in active /\ k \in Nat /\ k > e
      BY <3>2
    <3>4. k <= i
      BY <1>1, <2>2, <3>2
    <3>5. k > e + 1 + gap
      <4>1. k \notin (e + 1) .. (e + 1 + gap)
        BY <2>0, <3>3
      <4> QED
        BY <1>7, <3>3, <4>1
    <3>6. ASSUME NEW m \in (k - 1 - gap) .. (k - 1), m \in active
          PROVE  FALSE
      <4>1. m \in Nat /\ m > e /\ m < k
        BY <1>7, <3>3, <3>5, <3>6
      <4>2. m \in after
        BY <3>6, <4>1
      <4> HIDE DEF after
      <4> QED
        BY <3>2, <3>3, <4>1, <4>2
    <3>7. k \in before
      BY <3>3, <3>4, <3>6 DEF Starts
    <3>8. k <= a
      <4> HIDE DEF before
      <4> QED
        BY <1>4, <3>7
    <3> QED
      BY <1>5, <1>7, <3>3, <3>8
  <2> QED
    BY <1>7, <2>1, <2>2
<1>9. s[2] \in Nat
  BY BandIs
<1>10. s[1] <= i /\ j < s[2]
  BY <1>5, <1>6, <1>8, <1>9
<1> QED
  BY <1>10

(* The instance of PriceCells counts as this module does. *)
LEMMA SameCardinality == \A S : Cells!Cardinality(S) = Cardinality(S)
BY DEF Cells!Cardinality, Cardinality, Cells!IsFiniteSet, IsFiniteSet

(* InOrder lists spans that start apart, each once and from left to right. *)
LEMMA SpansInOrder ==
  ASSUME NEW S, IsFiniteSet(S), \A s \in S : s[1] \in Nat,
         \A s, t \in S : s[1] = t[1] => s = t
  PROVE  LET n == Cardinality(S)
             q == Cells!InOrder(S)
         IN  /\ n \in Nat /\ q \in [1 .. n -> S]
             /\ \A j, k \in 1 .. n : j < k => q[j][1] < q[k][1]
             /\ \A s \in S : \E k \in 1 .. n : q[k] = s
<1> DEFINE below(s) == {t \in S : t[1] < s[1]}
           n == Cardinality(S)
           T == 0 .. n - 1
           rank == [s \in S |-> Cardinality(below(s))]
           q == Cells!InOrder(S)
<1>1. n \in Nat /\ IsFiniteSet(T) /\ Cardinality(T) = n
  <2>1. n \in Nat
    BY FS_CardinalityType
  <2> HIDE DEF n
  <2>2. 0 \in Int /\ n - 1 \in Int
    BY <2>1
  <2> QED
    BY <2>1, <2>2, FS_Interval
<1>2. ASSUME NEW s \in S
      PROVE  /\ IsFiniteSet(below(s)) /\ Cardinality(below(s)) \in T
  <2>1. below(s) \in SUBSET S /\ s \in S /\ s \notin below(s)
    OBVIOUS
  <2> HIDE DEF below
  <2>2. IsFiniteSet(below(s)) /\ Cardinality(below(s)) <= n /\ Cardinality(below(s)) # n
    BY <2>1, FS_Subset
  <2> QED
    BY <1>1, <2>2, FS_CardinalityType
<1>0. ASSUME NEW s \in S
      PROVE  Cardinality(below(s)) \in Int
  <2> HIDE DEF below
  <2> QED
    BY <1>2, FS_CardinalityType
<1>3. ASSUME NEW s \in S, NEW t \in S, s[1] < t[1]
      PROVE  Cardinality(below(s)) < Cardinality(below(t))
  <2>1. s \in below(t) /\ s \notin below(s) /\ \A z \in below(s) : z \in below(t)
    <3>1. \A z \in S : z[1] \in Nat
      OBVIOUS
    <3> QED
      BY <1>3, <3>1
  <2>2. below(s) \in SUBSET below(t) /\ s \in below(t) /\ s \notin below(s)
    <3> HIDE DEF below
    <3> QED
      BY <2>1
  <2>3. IsFiniteSet(below(t)) /\ Cardinality(below(s)) \in Int /\ Cardinality(below(t)) \in Int
    BY <1>0, <1>2
  <2> HIDE DEF below
  <2>4. Cardinality(below(s)) <= Cardinality(below(t)) /\ Cardinality(below(s)) # Cardinality(below(t))
    BY <2>2, <2>3, FS_Subset
  <2> QED
    BY <2>3, <2>4
<1>4. ASSUME NEW s \in S, NEW t \in S, Cardinality(below(s)) = Cardinality(below(t))
      PROVE  s = t
  <2>1. s[1] \in Nat /\ t[1] \in Nat /\ Cardinality(below(s)) \in Int
    BY <1>0
  <2> HIDE DEF below
  <2>2. ~ (s[1] < t[1]) /\ ~ (t[1] < s[1])
    BY <1>3, <1>4, <2>1
  <2> QED
    BY <2>1, <2>2
<1>5. rank \in Injection(S, T)
  <2>1. rank \in [S -> T]
    BY <1>2
  <2>2. \A s, t \in S : rank[s] = rank[t] => s = t
    BY <1>4
  <2> HIDE DEF rank
  <2> QED
    BY <2>1, <2>2 DEF Injection, IsInjective
<1>6. rank \in Surjection(S, T)
  <2> HIDE DEF rank, T, n
  <2>1. IsFiniteSet(S) /\ IsFiniteSet(T) /\ Cardinality(S) = Cardinality(T)
    BY <1>1 DEF n
  <2> QED
    BY <1>5, <2>1, FS_Injection, Zenon
<1>7. ASSUME NEW k \in 1 .. n
      PROVE  q[k] \in S /\ Cardinality(below(q[k])) = k - 1
  <2>1. k - 1 \in T
    BY <1>1
  <2>2. \E s \in S : rank[s] = k - 1
    <3> HIDE DEF rank, T
    <3> QED
      BY <1>6, <2>1 DEF Surjection
  <2>3. \E s \in S : Cardinality(below(s)) = k - 1
    BY <2>2
  <2>4. q[k] = CHOOSE s \in S : Cardinality(below(s)) = k - 1
    BY SameCardinality DEF Cells!InOrder
  <2> HIDE DEF below, q
  <2> QED
    BY <2>3, <2>4
<1>8. q \in [1 .. n -> S]
  <2> DEFINE e(k) == CHOOSE s \in S : Cells!Cardinality({t \in S : t[1] < s[1]}) = k - 1
  <2>1. q = [k \in 1 .. Cells!Cardinality(S) |-> e(k)]
    BY DEF Cells!InOrder
  <2>2. Cells!Cardinality(S) = n
    BY SameCardinality
  <2>3. \A k \in 1 .. n : q[k] \in S
    BY <1>7
  <2> HIDE DEF q, n, below, e
  <2> QED
    BY <2>1, <2>2, <2>3
<1>9. ASSUME NEW j \in 1 .. n, NEW k \in 1 .. n, j < k
      PROVE  q[j][1] < q[k][1]
  <2>1. q[j] \in S /\ q[k] \in S
    BY <1>7
  <2>2. Cardinality(below(q[j])) = j - 1 /\ Cardinality(below(q[k])) = k - 1
    BY <1>7
  <2>3. j \in Int /\ k \in Int
    BY <1>1
  <2>4. q[j][1] \in Nat /\ q[k][1] \in Nat
    BY <2>1
  <2> DEFINE s == q[j]
             t == q[k]
  <2>5. s # t
    <3> HIDE DEF q, below
    <3> QED
      BY <1>9, <2>2, <2>3
  <2>6. s[1] # t[1]
    BY <2>1, <2>5
  <2>7. ~ (t[1] < s[1])
    <3>1. ASSUME t[1] < s[1]
          PROVE  Cardinality(below(t)) < Cardinality(below(s))
      <4> HIDE DEF s, t, below
      <4>1. s \in S /\ t \in S
        BY <2>1 DEF s, t
      <4> QED
        BY <1>3, <3>1, <4>1
    <3> HIDE DEF q, below
    <3> QED
      BY <1>9, <2>2, <2>3, <3>1
  <2> HIDE DEF q
  <2> QED
    BY <2>4, <2>6, <2>7
<1>10. ASSUME NEW s \in S
       PROVE  \E k \in 1 .. n : q[k] = s
  <2> DEFINE k == Cardinality(below(s)) + 1
  <2>1. k \in 1 .. n /\ Cardinality(below(s)) = k - 1
    <3>1. Cardinality(below(s)) \in T
      BY <1>2
    <3> HIDE DEF below
    <3> QED
      BY <1>1, <3>1
  <2> HIDE DEF k
  <2>2. q[k] \in S /\ Cardinality(below(q[k])) = k - 1
    BY <1>7, <2>1
  <2>3. q[k] = s
    <3> HIDE DEF q, below
    <3> QED
      BY <1>4, <2>1, <2>2
  <2> QED
    BY <2>1, <2>3
<1> QED
  BY <1>1, <1>8, <1>9, <1>10

Boxes == [x : Nat, y : Nat, w : Nat, h : Nat]

(* Spans in order, from left to right, with more than a gap between them.  *)
Ordered(spans, gap) ==
  /\ Len(spans) \in Nat /\ DOMAIN spans = 1 .. Len(spans)
  /\ \A k \in DOMAIN spans :
       /\ spans[k] = <<spans[k][1], spans[k][2]>>
       /\ spans[k][1] \in Nat /\ spans[k][2] \in Nat /\ spans[k][1] < spans[k][2]
  /\ \A j, k \in DOMAIN spans : j < k => spans[j][2] + gap < spans[k][1]

(* What lies apart by a gap lies apart by a smaller one. *)
LEMMA OrderedCloser ==
  ASSUME NEW spans, NEW gap \in Nat, NEW less \in Nat, gap >= less, Ordered(spans, gap)
  PROVE  Ordered(spans, less)
<1>1. ASSUME NEW j \in DOMAIN spans, NEW k \in DOMAIN spans, j < k
      PROVE  spans[j][2] + less < spans[k][1]
  <2>1. spans[j][2] \in Nat /\ spans[k][1] \in Nat
    BY DEF Ordered
  <2>2. spans[j][2] + gap < spans[k][1]
    BY <1>1 DEF Ordered
  <2> QED
    BY <2>1, <2>2
<1> QED
  BY <1>1 DEF Ordered

(* The spans in a sequence are those of a set. *)
Lists(spans, S) ==
  /\ \A k \in DOMAIN spans : spans[k] \in S
  /\ \A s \in S : \E k \in DOMAIN spans : spans[k] = s

(* Whatever is left of the bands, InOrder puts it in order. *)
LEMMA BandsInOrder ==
  ASSUME NEW active, active \subseteq Nat, IsFiniteSet(active), NEW gap \in Nat,
         NEW S, S \subseteq Cells!Bands(active, gap)
  PROVE  Ordered(Cells!InOrder(S), gap) /\ Lists(Cells!InOrder(S), S)
<1> DEFINE n == Cardinality(S)
           q == Cells!InOrder(S)
<1>1. IsFiniteSet(S)
  BY FiniteBands, FS_Subset
<1>2. \A s \in S : /\ s = <<s[1], s[2]>>
                   /\ s[1] \in Nat /\ s[2] \in Nat /\ s[1] < s[2]
  BY BandIs
<1>3. \A s, t \in S : s[1] = t[1] => s = t
  BY BandOfStart
<1>4. /\ n \in Nat /\ q \in [1 .. n -> S]
      /\ \A j, k \in 1 .. n : j < k => q[j][1] < q[k][1]
      /\ \A s \in S : \E k \in 1 .. n : q[k] = s
  <2>1. \A s \in S : s[1] \in Nat
    BY <1>2
  <2> QED
    BY <1>1, <1>3, <2>1, SpansInOrder
<1> HIDE DEF n, q
<1>5. DOMAIN q = 1 .. n /\ Len(q) = n
  <2>1. q \in Seq(S)
    BY <1>4
  <2> QED
    BY <1>4, <2>1
<1>6. \A k \in DOMAIN q : q[k] \in S
  BY <1>4, <1>5
<1>7. ASSUME NEW j \in DOMAIN q, NEW k \in DOMAIN q, j < k
      PROVE  q[j][2] + gap < q[k][1]
  <2>1. q[j] \in Cells!Bands(active, gap) /\ q[k] \in Cells!Bands(active, gap)
    BY <1>6
  <2>2. q[j][1] < q[k][1]
    BY <1>4, <1>5, <1>7
  <2> QED
    BY <2>1, <2>2, BandsApart
<1>8. Ordered(q, gap)
  BY <1>2, <1>4, <1>5, <1>6, <1>7 DEF Ordered
<1> QED
  BY <1>4, <1>5, <1>6, <1>8 DEF q, Lists

(* A part of the pixels from one to another. *)
LEMMA PartOfInterval ==
  ASSUME NEW from \in Nat, NEW to \in Int, NEW S, S \subseteq from .. to - 1
  PROVE  /\ S \subseteq Nat /\ IsFiniteSet(S)
         /\ \A x \in S : from <= x /\ x < to
<1>1. from \in Int /\ to - 1 \in Int
  OBVIOUS
<1>2. IsFiniteSet(from .. to - 1)
  BY <1>1, FS_Interval
<1>3. \A x \in from .. to - 1 : x \in Nat /\ from <= x /\ x < to
  OBVIOUS
<1>4. S \in SUBSET (from .. to - 1)
  OBVIOUS
<1> QED
  BY <1>2, <1>3, <1>4, FS_Subset

(* The rows of text that are found lie where they are looked for. *)
LEMMA RowsFound ==
  ASSUME NEW text, NEW columns, NEW rows, rows[1] \in Nat, rows[2] \in Int,
         NEW least, NEW gap \in Nat, NEW lengths
  PROVE  LET bands == Cells!RowBands(text, columns, rows, least, gap, lengths)
         IN  /\ Ordered(bands, gap)
             /\ \A k \in DOMAIN bands : /\ rows[1] <= bands[k][1] /\ bands[k][2] <= rows[2]
                                        /\ Cells!Length(bands[k]) \in lengths
<1> DEFINE inked == {y \in rows[1] .. rows[2] - 1 :
                       Cells!Ink(text, y, columns[1], columns[2]) >= least}
           S == {b \in Cells!Bands(inked, gap) : Cells!Length(b) \in lengths}
           bands == Cells!InOrder(S)
<1>1. inked \subseteq Nat /\ IsFiniteSet(inked) /\ \A y \in inked : rows[1] <= y /\ y < rows[2]
  <2>1. inked \subseteq rows[1] .. rows[2] - 1
    OBVIOUS
  <2> HIDE DEF inked
  <2> QED
    BY <2>1, PartOfInterval
<1>2. Cells!RowBands(text, columns, rows, least, gap, lengths) = bands
  BY DEF Cells!RowBands
<1> HIDE DEF inked
<1>3. S \subseteq Cells!Bands(inked, gap)
  OBVIOUS
<1>4. Ordered(bands, gap) /\ Lists(bands, S)
  <2> HIDE DEF S
  <2> QED
    BY <1>1, <1>3, BandsInOrder
<1> HIDE DEF bands
<1>5. ASSUME NEW k \in DOMAIN bands
      PROVE  /\ rows[1] <= bands[k][1] /\ bands[k][2] <= rows[2]
             /\ Cells!Length(bands[k]) \in lengths
  <2> DEFINE b == bands[k]
  <2>1. b \in Cells!Bands(inked, gap) /\ Cells!Length(b) \in lengths
    BY <1>4 DEF Lists
  <2> HIDE DEF b
  <2>2. b[1] \in inked /\ b[2] - 1 \in inked /\ b[1] \in Nat /\ b[2] \in Nat
    BY <1>1, <2>1, BandIs DEF Starts, Ends
  <2>3. rows[1] <= b[1] /\ b[2] - 1 < rows[2]
    BY <1>1, <2>2
  <2> QED
    BY <2>1, <2>2, <2>3 DEF b
<1> HIDE DEF S
<1> QED
  BY <1>2, <1>4, <1>5 DEF bands

(* So do the groups of a row, and all text that is seen is in one of them. *)
LEMMA GroupsFound ==
  ASSUME NEW text, text \subseteq Boxes, NEW columns, columns[1] \in Nat, columns[2] \in Int,
         NEW band, band[1] \in Nat, band[2] \in Nat, NEW gap \in Nat
  PROVE  LET groups == Cells!ColumnGroups(text, columns, band, gap)
         IN  /\ Ordered(groups, gap)
             /\ \A k \in DOMAIN groups :
                  /\ columns[1] <= groups[k][1] /\ groups[k][2] <= columns[2]
                  /\ groups[k][1] + 2 <= groups[k][2]
             /\ \A b \in text : InRow(b, band, columns) =>
                  \E k \in DOMAIN groups :
                    /\ groups[k][1] <= b.x \/ groups[k][1] = columns[1]
                    /\ Cells!Right(b) <= groups[k][2] \/ groups[k][2] = columns[2]
                    /\ groups[k][1] < Cells!Right(b) /\ b.x < groups[k][2]
<1> DEFINE near  == {b \in text : b.y < band[2] /\ Cells!Bottom(b) > band[1]}
           inked == {x \in columns[1] .. columns[2] - 1 :
                       \E b \in near : b.x <= x /\ x < Cells!Right(b)}
           S == {g \in Cells!Bands(inked, gap) : Cells!Length(g) >= 2}
           groups == Cells!InOrder(S)
<1>1. /\ inked \subseteq Nat /\ IsFiniteSet(inked)
      /\ \A x \in inked : columns[1] <= x /\ x < columns[2]
  <2>1. inked \subseteq columns[1] .. columns[2] - 1
    OBVIOUS
  <2> HIDE DEF inked, near
  <2> QED
    BY <2>1, PartOfInterval
<1>2. Cells!ColumnGroups(text, columns, band, gap) = groups
  BY DEF Cells!ColumnGroups
<1>3. ASSUME NEW b \in text, InRow(b, band, columns), NEW x \in Nat,
             columns[1] <= x, x < columns[2], b.x <= x, x < Cells!Right(b)
      PROVE  x \in inked
  <2>1. b \in near
    BY <1>3 DEF InRow, Boxes, Cells!Bottom
  <2>2. x \in columns[1] .. columns[2] - 1
    BY <1>3
  <2> HIDE DEF near
  <2> QED
    BY <1>3, <2>1, <2>2
<1> HIDE DEF inked, near
<1>4. S \subseteq Cells!Bands(inked, gap)
  OBVIOUS
<1>5. Ordered(groups, gap) /\ Lists(groups, S)
  <2> HIDE DEF S
  <2> QED
    BY <1>1, <1>4, BandsInOrder
<1> HIDE DEF groups
<1>6. ASSUME NEW k \in DOMAIN groups
      PROVE  /\ columns[1] <= groups[k][1] /\ groups[k][2] <= columns[2]
             /\ groups[k][1] + 2 <= groups[k][2]
  <2> DEFINE g == groups[k]
  <2>1. g \in Cells!Bands(inked, gap) /\ Cells!Length(g) >= 2
    BY <1>5 DEF Lists
  <2> HIDE DEF g
  <2>2. g[1] \in inked /\ g[2] - 1 \in inked /\ g[1] \in Nat /\ g[2] \in Nat
    BY <1>1, <2>1, BandIs DEF Starts, Ends
  <2>3. columns[1] <= g[1] /\ g[2] - 1 < columns[2]
    BY <1>1, <2>2
  <2>4. g[1] + 2 <= g[2]
    BY <2>1, <2>2 DEF Cells!Length
  <2> QED
    BY <2>2, <2>3, <2>4 DEF g
<1>7. ASSUME NEW b \in text, InRow(b, band, columns)
      PROVE  \E k \in DOMAIN groups :
               /\ groups[k][1] <= b.x \/ groups[k][1] = columns[1]
               /\ Cells!Right(b) <= groups[k][2] \/ groups[k][2] = columns[2]
               /\ groups[k][1] < Cells!Right(b) /\ b.x < groups[k][2]
  <2> DEFINE first == IF b.x >= columns[1] THEN b.x ELSE columns[1]
             end   == IF Cells!Right(b) <= columns[2] THEN Cells!Right(b) ELSE columns[2]
  <2>1. b.x \in Nat /\ Cells!Right(b) \in Nat
    BY DEF Boxes, Cells!Right
  <2>2. end - first >= 2
    <3>1. /\ Max({b.x, columns[1]}) = first
          /\ Min({Cells!Right(b), columns[2]}) = end
      BY <2>1, OfTwo DEF Max, Min, Cells!Max, Cells!Min
    <3> QED
      BY <1>7, <3>1 DEF InRow
  <2>3. first \in Nat /\ end - 1 \in Nat /\ first <= end - 1
    BY <2>1, <2>2
  <2>4. first .. end - 1 \subseteq inked
    <3>1. ASSUME NEW x \in first .. end - 1
          PROVE  x \in inked
      <4>1. x \in Nat /\ columns[1] <= x /\ x < columns[2] /\ b.x <= x /\ x < Cells!Right(b)
        BY <2>1, <2>3
      <4> QED
        BY <1>3, <1>7, <4>1
    <3> QED
      BY <3>1
  <2>5. PICK g \in Cells!Bands(inked, gap) : g[1] <= first /\ end - 1 < g[2]
    <3> HIDE DEF first, end
    <3> QED
      BY <1>1, <2>3, <2>4, BandOf
  <2>6. g[1] \in Nat /\ g[2] \in Nat /\ g[1] \in inked /\ g[2] - 1 \in inked
    BY <1>1, BandIs DEF Starts, Ends
  <2>7. columns[1] <= g[1] /\ g[2] <= columns[2]
    <3>1. columns[1] <= g[1] /\ g[2] - 1 < columns[2]
      BY <1>1, <2>6
    <3> QED
      BY <2>6, <3>1
  <2>8. Cells!Length(g) >= 2
    BY <2>2, <2>1, <2>5, <2>6 DEF Cells!Length
  <2>9. PICK k \in DOMAIN groups : groups[k] = g
    BY <1>5, <2>8 DEF Lists
  <2>10. /\ g[1] <= b.x \/ g[1] = columns[1]
         /\ Cells!Right(b) <= g[2] \/ g[2] = columns[2]
         /\ g[1] < Cells!Right(b) /\ b.x < g[2]
    BY <2>1, <2>2, <2>5, <2>6, <2>7
  <2> QED
    BY <2>9, <2>10
<1> QED
  BY <1>2, <1>5, <1>6, <1>7 DEF groups

-----------------------------------------------------------------------------
(* The buttons *)

(* A block that counts as a button: as large as _largest_button_band asks. *)
Button(b) == b \in Boxes /\ b.w >= 80 /\ b.h >= 20

(* What the proofs need of the lesser of two. *)
LEMMA LesserOf ==
  ASSUME NEW a \in Int, NEW b \in Int
  PROVE  /\ Cells!Min({a, b}) \in Int /\ Cells!Min({a, b}) <= a /\ Cells!Min({a, b}) <= b
         /\ a \in Nat /\ b \in Nat => Cells!Min({a, b}) \in Nat
<1>1. Cells!Min({a, b}) = IF a <= b THEN a ELSE b
  BY OfTwo
<1> QED
  BY <1>1

(* And of the greater. *)
LEMMA GreaterOf ==
  ASSUME NEW a \in Int, NEW b \in Int
  PROVE  /\ Cells!Max({a, b}) \in Int /\ Cells!Max({a, b}) >= a /\ Cells!Max({a, b}) >= b
         /\ a \in Nat \/ b \in Nat => Cells!Max({a, b}) \in Nat
BY OfTwo

(* What is taken of the members of a finite set is finite. *)
LEMMA FiniteImage ==
  ASSUME NEW S, IsFiniteSet(S), NEW f
  PROVE  IsFiniteSet({f[x] : x \in S})
<1> DEFINE g == [x \in S |-> f[x]]
           T == {f[x] : x \in S}
<1>1. g \in Surjection(S, T)
  <2>1. g \in [S -> T] /\ \A y \in T : \E x \in S : g[x] = y
    OBVIOUS
  <2> HIDE DEF g, T
  <2> QED
    BY <2>1 DEF Surjection
<1> HIDE DEF g, T
<1>2. IsFiniteSet(T)
  BY <1>1, FS_Surjection
<1> QED
  BY <1>2 DEF T

(* The largest of blocks that are cut to columns and rows. *)
LEMMA LargestIs ==
  ASSUME NEW width \in Nat, NEW s, s.width = width,
         NEW blocks, IsFiniteSet(blocks), blocks \subseteq Boxes,
         NEW columns, columns[1] \in Nat, columns[2] \in Int,
         NEW rows, rows[1] \in Nat, rows[2] \in Int,
         Cells!LargestButton(s, blocks, columns, rows) # None
  PROVE  LET c == Cells!LargestButton(s, blocks, columns, rows)
         IN  Button(c) /\ Cells!Right(c) <= columns[2] /\ Cells!Bottom(c) <= rows[2]
<1> DEFINE x(b) == Cells!Max({b.x, columns[1]})
           y(b) == Cells!Max({b.y, rows[1]})
           cut(b) == Cells!Box(x(b), y(b), Cells!Min({Cells!Right(b), columns[2]}) - x(b),
                               Cells!Min({Cells!Bottom(b), rows[2]}) - y(b))
           cuts == {cut(b) : b \in blocks}
           wide == {c \in cuts : c.w >= Cells!Max({80, width \div 10}) /\ c.h >= 20}
           c == CHOOSE c \in wide : \A d \in wide : d.w * d.h <= c.w * c.h
<1>1. wide # {} /\ Cells!LargestButton(s, blocks, columns, rows) = c
  BY DEF Cells!LargestButton
<1>2. ASSUME NEW b \in blocks
      PROVE  /\ x(b) \in Nat /\ y(b) \in Nat
             /\ Cells!Min({Cells!Right(b), columns[2]}) \in Int
             /\ Cells!Min({Cells!Bottom(b), rows[2]}) \in Int
             /\ Cells!Min({Cells!Right(b), columns[2]}) <= columns[2]
             /\ Cells!Min({Cells!Bottom(b), rows[2]}) <= rows[2]
  <2>1. b.x \in Nat /\ b.y \in Nat /\ Cells!Right(b) \in Nat /\ Cells!Bottom(b) \in Nat
    <3>1. b \in Boxes
      OBVIOUS
    <3> QED
      BY <3>1 DEF Boxes, Cells!Right, Cells!Bottom
  <2>2. x(b) \in Nat
    BY <2>1, OfTwo
  <2>3. y(b) \in Nat
    BY <2>1, OfTwo
  <2>0. Cells!Right(b) \in Int /\ Cells!Bottom(b) \in Int
    BY <2>1
  <2>4. /\ Cells!Min({Cells!Right(b), columns[2]}) \in Int
        /\ Cells!Min({Cells!Right(b), columns[2]}) <= columns[2]
    BY <2>0, LesserOf
  <2>5. /\ Cells!Min({Cells!Bottom(b), rows[2]}) \in Int
        /\ Cells!Min({Cells!Bottom(b), rows[2]}) <= rows[2]
    BY <2>0, LesserOf
  <2> QED
    BY <2>2, <2>3, <2>4, <2>5
<1>3. ASSUME NEW d \in cuts
      PROVE  /\ d = [x |-> d.x, y |-> d.y, w |-> d.w, h |-> d.h]
             /\ d.x \in Nat /\ d.y \in Nat /\ d.w \in Int /\ d.h \in Int
             /\ d.x + d.w <= columns[2] /\ d.y + d.h <= rows[2]
  <2>1. PICK b \in blocks : d = cut(b)
    OBVIOUS
  <2> DEFINE r == Cells!Min({Cells!Right(b), columns[2]})
             q == Cells!Min({Cells!Bottom(b), rows[2]})
  <2>2. d = [x |-> x(b), y |-> y(b), w |-> r - x(b), h |-> q - y(b)]
    BY <2>1 DEF Cells!Box
  <2>3. x(b) \in Nat /\ y(b) \in Nat /\ r \in Int /\ q \in Int /\ r <= columns[2] /\ q <= rows[2]
    BY <1>2
  <2> HIDE DEF x, y, r, q
  <2> QED
    BY <2>2, <2>3
<1>4. IsFiniteSet(wide) /\ \A d \in wide : d.w * d.h \in Int
  <2> DEFINE f == [b \in blocks |-> cut(b)]
  <2>1. IsFiniteSet({f[b] : b \in blocks})
    <3> HIDE DEF f
    <3> QED
      BY FiniteImage
  <2>2. cuts = {f[b] : b \in blocks}
    OBVIOUS
  <2>3. wide \in SUBSET cuts
    OBVIOUS
  <2> HIDE DEF wide, cuts, f
  <2>4. \A d \in wide : d.w \in Int /\ d.h \in Int
    BY <1>3, <2>3
  <2>5. IsFiniteSet(wide)
    BY <2>1, <2>2, <2>3, FS_Subset
  <2> QED
    BY <2>4, <2>5
<1>5. \E d \in wide : \A e \in wide : e.w * e.h <= d.w * d.h
  <2> DEFINE area == [d \in wide |-> d.w * d.h]
             areas == {area[d] : d \in wide}
  <2> HIDE DEF wide
  <2>1. areas \in SUBSET Int /\ areas # {}
    BY <1>1, <1>4
  <2>2. IsFiniteSet(areas)
    <3> HIDE DEF area
    <3> QED
      BY <1>4, FiniteImage
  <2>3. PICK a \in areas : \A z \in areas : z <= a
    <3> HIDE DEF areas
    <3> QED
      BY <2>1, <2>2, GreatestExists
  <2>4. PICK d \in wide : a = area[d]
    BY <2>3
  <2>5. \A e \in wide : area[e] <= area[d]
    BY <2>3, <2>4
  <2> QED
    BY <2>5
<1>6. c \in wide
  <2> HIDE DEF wide
  <2> QED
    BY <1>5
<1>7. /\ c \in cuts /\ c.w >= Cells!Max({80, width \div 10}) /\ c.h >= 20
  <2> HIDE DEF c, cuts
  <2> QED
    BY <1>6
<1> HIDE DEF c, wide, cuts
<1>8. Cells!Max({80, width \div 10}) \in Int /\ Cells!Max({80, width \div 10}) >= 80
  BY OfTwo
<1>9. Button(c)
  <2>1. c.w >= 80 /\ c.w \in Nat /\ c.h \in Nat
    BY <1>3, <1>7, <1>8
  <2> QED
    BY <1>3, <1>7, <2>1 DEF Button, Boxes
<1> QED
  BY <1>1, <1>3, <1>7, <1>9 DEF Cells!Right, Cells!Bottom

(* The two buttons are on the screenshot, the bid's left of the ask's.     *)
LEMMA ButtonsAre ==
  ASSUME NEW s \in Screens, NEW profile, Cells!ActionButtons(s, profile) # None
  PROVE  LET buttons == Cells!ActionButtons(s, profile)
         IN  /\ Button(buttons.bid) /\ Button(buttons.ask)
             /\ Cells!Right(buttons.bid) < buttons.ask.x
<1> DEFINE buy == Cells!LargestButton(s, s.red, <<0, s.width>>, <<0, s.height>>)
           sell == Cells!SellButton(s, buy, profile)
<1>1. /\ s.width \in Nat /\ s.height \in Nat
      /\ \A boxes \in {s.red, s.gray, s.green} : IsFiniteSet(boxes) /\ boxes \subseteq Boxes
  BY OcrHelperAssumption DEF Boxes
<1>2. /\ buy # None /\ sell # None /\ Cells!PairOfButtons(sell, buy)
      /\ Cells!ActionButtons(s, profile) = [bid |-> sell, ask |-> buy]
  <2> HIDE DEF buy
  <2>1. Cells!ActionButtons(s, profile) =
          IF buy = None THEN None ELSE Cells!ButtonsBeside(s, buy, profile)
    BY DEF Cells!ActionButtons, buy
  <2> QED
    BY <2>1 DEF Cells!ButtonsBeside
<1>3. Button(buy)
  <2> DEFINE columns == <<0, s.width>>
             rows == <<0, s.height>>
  <2>1. columns[1] \in Nat /\ columns[2] \in Int /\ rows[1] \in Nat /\ rows[2] \in Int
    BY <1>1
  <2>2. buy = Cells!LargestButton(s, s.red, columns, rows)
    OBVIOUS
  <2> HIDE DEF columns, rows, buy
  <2> QED
    BY <1>1, <1>2, <2>1, <2>2, LargestIs
<1> HIDE DEF buy
<1>4. Button(sell)
  <2> DEFINE margin == Cells!Max({4, buy.h \div 4})
             columns == <<0, Cells!Max({1, buy.x})>>
             rows == <<Cells!Max({0, buy.y - margin}),
                       Cells!Min({s.height, Cells!Bottom(buy) + margin})>>
             blocks == s.gray \cup (IF profile = "v4" THEN s.green ELSE {})
  <2>1. sell = Cells!LargestButton(s, blocks, columns, rows)
    BY DEF Cells!SellButton
  <2>2. buy.x \in Nat /\ buy.y \in Nat /\ buy.h \in Nat /\ Cells!Bottom(buy) \in Nat
    BY <1>3 DEF Button, Boxes, Cells!Bottom
  <2>3. margin \in Int
    BY <2>2, OfTwo
  <2>4. columns[1] \in Nat /\ columns[2] \in Int
    BY <2>2, OfTwo
  <2>5. rows[1] \in Nat /\ rows[2] \in Int
    <3> HIDE DEF margin
    <3>1. Cells!Max({0, buy.y - margin}) \in Nat
      BY <2>2, <2>3, OfTwo
    <3>2. s.height \in Int /\ Cells!Bottom(buy) + margin \in Int
      BY <1>1, <2>2, <2>3
    <3>3. Cells!Min({s.height, Cells!Bottom(buy) + margin}) \in Int
      BY <3>2, LesserOf
    <3> QED
      BY <3>1, <3>3
  <2>6. IsFiniteSet(blocks) /\ blocks \subseteq Boxes
    <3>1. IsFiniteSet({}) /\ IsFiniteSet(s.gray) /\ IsFiniteSet(s.green)
      BY <1>1, FS_EmptySet
    <3>2. IsFiniteSet(blocks)
      BY <3>1, FS_Union
    <3> QED
      BY <1>1, <3>2
  <2> HIDE DEF blocks, columns, rows, sell
  <2> QED
    BY <1>1, <1>2, <2>1, <2>4, <2>5, <2>6, LargestIs
<1>5. Cells!Right(sell) < buy.x
  BY <1>2 DEF Cells!PairOfButtons
<1> HIDE DEF sell
<1> QED
  BY <1>2, <1>3, <1>4, <1>5

-----------------------------------------------------------------------------
(* Where a price is cut out *)

(* The greatest of a finite set. *)
LEMMA CellsGreatest ==
  ASSUME NEW S, S \subseteq Int, IsFiniteSet(S), S # {}
  PROVE  Cells!Max(S) \in S /\ \A n \in S : n <= Cells!Max(S)
<1>1. S \in SUBSET Int
  OBVIOUS
<1>2. PICK x \in S : \A n \in S : n <= x
  BY <1>1, GreatestExists
<1>3. \E m \in S : \A n \in S : m >= n
  BY <1>2
<1>4. Cells!Max(S) \in S /\ \A n \in S : Cells!Max(S) >= n
  BY <1>3 DEF Cells!Max
<1> QED
  BY <1>4

(* The leading padding is the least one, or short of what stands before.   *)
LEMMA LeadingIs ==
  ASSUME NEW groups, NEW gap, Ordered(groups, gap), NEW group, group[1] \in Nat,
         NEW desired \in Nat, NEW minimum \in Nat
  PROVE  LET left == Cells!LeadingPadding(groups, group, desired, minimum)
         IN  /\ left \in Nat
             /\ \A k \in DOMAIN groups :
                  groups[k][2] <= group[1] =>
                    left <= minimum \/ left + 2 <= group[1] - groups[k][2]
<1> DEFINE before == {g \in Cells!ToSet(groups) : g[2] <= group[1]}
           ends == {g[2] : g \in before}
           left == Cells!LeadingPadding(groups, group, desired, minimum)
<1>1. \A k \in DOMAIN groups : groups[k] \in Cells!ToSet(groups)
  BY DEF Cells!ToSet
<1>2. \A g \in Cells!ToSet(groups) : \E k \in DOMAIN groups : g = groups[k]
  BY DEF Cells!ToSet
<1>3. IsFiniteSet(ends) /\ ends \subseteq Int
  <2>1. IsFiniteSet(Cells!ToSet(groups))
    <3>1. Len(groups) \in Int /\ DOMAIN groups = 1 .. Len(groups)
      BY DEF Ordered
    <3>2. IsFiniteSet(DOMAIN groups)
      BY <3>1, FS_Interval
    <3>3. IsFiniteSet({groups[k] : k \in DOMAIN groups})
      BY <3>2, FiniteImage
    <3> QED
      BY <3>3 DEF Cells!ToSet
  <2>2. before \in SUBSET Cells!ToSet(groups)
    OBVIOUS
  <2>3. IsFiniteSet(before)
    <3> HIDE DEF before
    <3> QED
      BY <2>1, <2>2, FS_Subset
  <2>4. IsFiniteSet(ends)
    <3> DEFINE end == [g \in before |-> g[2]]
    <3>1. ends = {end[g] : g \in before}
      OBVIOUS
    <3> HIDE DEF before, end
    <3>2. IsFiniteSet({end[g] : g \in before})
      BY <2>3, FiniteImage
    <3> QED
      BY <3>1, <3>2
  <2>5. \A g \in before : g[2] \in Int
    BY <1>2 DEF Ordered
  <2> HIDE DEF before
  <2> QED
    BY <2>4, <2>5
<1>4. left = IF before = {} THEN desired
             ELSE Cells!Min({desired, Cells!Max({minimum, group[1] - Cells!Max(ends) - 2})})
  BY DEF Cells!LeadingPadding
<1>5. CASE before = {}
  <2>1. left = desired
    BY <1>4, <1>5
  <2>2. \A k \in DOMAIN groups : ~ (groups[k][2] <= group[1])
    BY <1>1, <1>5
  <2> QED
    BY <2>1, <2>2
<1>6. CASE before # {}
  <2> DEFINE last == Cells!Max(ends)
             room == group[1] - last - 2
             inner == Cells!Max({minimum, room})
  <2>1. last \in Int /\ \A n \in ends : n <= last
    <3>1. ends # {}
      BY <1>6
    <3> HIDE DEF ends
    <3> QED
      BY <1>3, <3>1, CellsGreatest
  <2>2. \A k \in DOMAIN groups : groups[k][2] <= group[1] => groups[k][2] <= last
    <3> TAKE k \in DOMAIN groups
    <3> HAVE groups[k][2] <= group[1]
    <3>1. groups[k] \in before
      BY <1>1
    <3>2. groups[k][2] \in ends
      BY <3>1
    <3> HIDE DEF ends, last
    <3> QED
      BY <2>1, <3>2
  <2>3. left = Cells!Min({desired, inner})
    BY <1>4, <1>6
  <2> HIDE DEF last, left, before, ends
  <2>4. room \in Int
    BY <2>1
  <2> HIDE DEF room
  <2>5. inner = IF minimum >= room THEN minimum ELSE room
    BY <2>4, OfTwo
  <2> HIDE DEF inner
  <2>6. inner \in Int
    BY <2>4, <2>5
  <2>7. left = IF desired <= inner THEN desired ELSE inner
    <3>1. desired \in Int
      OBVIOUS
    <3> QED
      BY <2>3, <2>6, <3>1, OfTwo
  <2>8. left \in Nat /\ (left <= minimum \/ left <= room)
    BY <2>4, <2>5, <2>7
  <2>9. ASSUME NEW k \in DOMAIN groups, groups[k][2] <= group[1]
        PROVE  left <= minimum \/ left + 2 <= group[1] - groups[k][2]
    <3>1. groups[k][2] \in Nat /\ groups[k][2] <= last
      BY <2>2, <2>9 DEF Ordered
    <3>2. room <= group[1] - groups[k][2] - 2
      BY <2>1, <3>1 DEF room
    <3> QED
      BY <2>4, <2>8, <3>1, <3>2
  <2> QED
    BY <2>8, <2>9 DEF left
<1> QED
  BY <1>5, <1>6

(* A span of a band on a screenshot. *)
Stands(span, band, s) ==
  /\ span[1] \in Nat /\ span[2] \in Nat /\ span[1] < span[2] /\ span[2] <= s.width
  /\ band[1] \in Nat /\ band[2] \in Nat /\ band[1] < band[2] /\ band[2] <= s.height

Padded(cell, s, span, band, left, right, up) ==
  /\ cell.x = Cells!Max({0, span[1] - left}) /\ cell.y = Cells!Max({0, band[1] - up})
  /\ cell.w = Cells!Min({s.width, span[2] + right}) - cell.x
  /\ cell.h = Cells!Min({s.height, band[2] + up}) - cell.y

(* What is padded is cut out of the screenshot. *)
LEMMA PaddedIs ==
  ASSUME NEW s \in Screens, NEW group, NEW band, Stands(group, band, s),
         NEW left \in Nat, NEW right \in Nat, NEW up \in Nat,
         NEW cell, Padded(cell, s, group, band, left, right, up)
  PROVE  /\ cell.x \in Nat /\ cell.y \in Nat /\ cell.w \in Int /\ cell.h \in Int
         /\ cell.x <= group[1] /\ group[1] - left <= cell.x
         /\ group[2] <= Cells!Right(cell) /\ Cells!Right(cell) <= group[2] + right
         /\ Cells!Right(cell) <= s.width
         /\ cell.y <= band[1] /\ band[2] <= Cells!Bottom(cell)
         /\ Cells!Bottom(cell) <= band[2] + up /\ Cells!Bottom(cell) <= s.height
<1> USE DEF Stands, Padded
<1>1. s.width \in Int /\ s.height \in Int
  <2>1. s.width \in Nat /\ s.height \in Nat
    BY OcrHelperAssumption
  <2> QED
    BY <2>1
<1>2. cell.x = IF 0 >= group[1] - left THEN 0 ELSE group[1] - left
  <2>1. group[1] - left \in Int /\ 0 \in Int
    OBVIOUS
  <2> QED
    BY <2>1, OfTwo
<1>3. cell.y = IF 0 >= band[1] - up THEN 0 ELSE band[1] - up
  <2>1. band[1] - up \in Int /\ 0 \in Int
    OBVIOUS
  <2> QED
    BY <2>1, OfTwo
<1>4. cell.w = (IF s.width <= group[2] + right THEN s.width ELSE group[2] + right) - cell.x
  <2>1. group[2] + right \in Int
    OBVIOUS
  <2> QED
    BY <1>1, <2>1, OfTwo
<1>5. cell.h = (IF s.height <= band[2] + up THEN s.height ELSE band[2] + up) - cell.y
  <2>1. band[2] + up \in Int
    OBVIOUS
  <2> QED
    BY <1>1, <2>1, OfTwo
<1>6. cell.x \in Nat /\ cell.x <= group[1] /\ group[1] - left <= cell.x
  BY <1>2
<1>7. cell.y \in Nat /\ cell.y <= band[1]
  BY <1>3
<1>8. /\ cell.w \in Int
      /\ Cells!Right(cell) = IF s.width <= group[2] + right THEN s.width ELSE group[2] + right
  BY <1>1, <1>4, <1>6 DEF Cells!Right
<1>9. /\ cell.h \in Int
      /\ Cells!Bottom(cell) = IF s.height <= band[2] + up THEN s.height ELSE band[2] + up
  BY <1>1, <1>5, <1>7 DEF Cells!Bottom
<1>10. /\ group[2] <= Cells!Right(cell) /\ Cells!Right(cell) <= group[2] + right
       /\ Cells!Right(cell) <= s.width
  BY <1>1, <1>8
<1>11. /\ band[2] <= Cells!Bottom(cell) /\ Cells!Bottom(cell) <= band[2] + up
       /\ Cells!Bottom(cell) <= s.height
  BY <1>1, <1>9
<1> QED
  BY <1>6, <1>7, <1>8, <1>9, <1>10, <1>11

(* A screenshot and its text. *)
LEMMA ScreenTypes ==
  ASSUME NEW s \in Screens
  PROVE  /\ s.width \in Nat /\ s.height \in Nat
         /\ IsFiniteSet(s.text) /\ s.text \subseteq Boxes
BY OcrHelperAssumption DEF Boxes

(* A button. *)
LEMMA ButtonTypes ==
  ASSUME NEW b, Button(b)
  PROVE  /\ b.x \in Nat /\ b.y \in Nat /\ b.w \in Nat /\ b.h \in Nat
         /\ Cells!Right(b) \in Nat /\ Cells!Bottom(b) \in Nat
         /\ Cells!Right(b) = b.x + b.w /\ b.w >= 80
BY DEF Button, Boxes, Cells!Right, Cells!Bottom

(* The least of a padding, or so many percent of a button's height. *)
LEMMA AtLeast ==
  ASSUME NEW least \in Nat, NEW percent \in Int, NEW n \in Int
  PROVE  /\ Cells!Max({least, Cells!Percent(percent, n)}) \in Nat
         /\ Cells!Max({least, Cells!Percent(percent, n)}) >= least
<1>1. Cells!Percent(percent, n) \in Int /\ least \in Int
  BY PercentType
<1> QED
  BY <1>1, GreaterOf

(* The columns and the groups of a row below a button. *)
LEMMA SideGroupsFound ==
  ASSUME NEW s \in Screens, NEW button, Button(button),
         NEW band, band[1] \in Nat, band[2] \in Nat
  PROVE  LET columns == Cells!SideColumns(s, button)
             groups  == Cells!SideGroups(s, button, columns, band)
         IN  /\ columns[1] \in Nat /\ columns[2] \in Int /\ columns[2] <= s.width
             /\ Ordered(groups, 3)
             /\ \A k \in DOMAIN groups :
                  columns[1] <= groups[k][1] /\ groups[k][2] <= columns[2]
             /\ \A b \in s.text : InRow(b, band, columns) =>
                  \E k \in DOMAIN groups :
                    /\ groups[k][1] <= b.x \/ groups[k][1] = columns[1]
                    /\ Cells!Right(b) <= groups[k][2] \/ groups[k][2] = columns[2]
<1> DEFINE columns == Cells!SideColumns(s, button)
           gap == Cells!Max({3, Cells!Percent(5, button.h)})
           groups == Cells!ColumnGroups(s.text, columns, band, gap)
<1>1. /\ s.width \in Nat /\ s.text \subseteq Boxes
      /\ button.x \in Int /\ button.w \in Int /\ button.h \in Int /\ Cells!Right(button) \in Int
  BY ScreenTypes, ButtonTypes
<1>2. columns[1] \in Nat /\ columns[2] \in Int /\ columns[2] <= s.width
  <2> DEFINE margin == Cells!Percent(15, button.w)
             from == button.x - margin
             to == Cells!Right(button) + margin
  <2>1. columns = <<Cells!Max({0, from}), Cells!Min({s.width, to})>>
    BY DEF Cells!SideColumns, Cells!Right
  <2>2. margin \in Int
    <3>1. 15 \in Int
      OBVIOUS
    <3> QED
      BY <1>1, <3>1, PercentType, Zenon
  <2> HIDE DEF margin, columns
  <2>3. from \in Int /\ to \in Int /\ 0 \in Int /\ s.width \in Int
    BY <1>1, <2>2
  <2> HIDE DEF from, to
  <2>4. Cells!Max({0, from}) \in Nat
    BY <2>3, GreaterOf
  <2>5. Cells!Min({s.width, to}) \in Int /\ Cells!Min({s.width, to}) <= s.width
    BY <2>3, LesserOf
  <2> QED
    BY <2>1, <2>4, <2>5
<1>3. gap \in Nat /\ gap >= 3
  BY <1>1, AtLeast
<1>4. Cells!SideGroups(s, button, columns, band) = groups
  BY DEF Cells!SideGroups
<1> HIDE DEF gap, columns
<1>5. /\ Ordered(groups, gap)
      /\ \A k \in DOMAIN groups :
           /\ columns[1] <= groups[k][1] /\ groups[k][2] <= columns[2]
      /\ \A b \in s.text : InRow(b, band, columns) =>
           \E k \in DOMAIN groups :
             /\ groups[k][1] <= b.x \/ groups[k][1] = columns[1]
             /\ Cells!Right(b) <= groups[k][2] \/ groups[k][2] = columns[2]
  <2>1. /\ Ordered(groups, gap)
        /\ \A k \in DOMAIN groups :
             /\ columns[1] <= groups[k][1] /\ groups[k][2] <= columns[2]
    BY <1>1, <1>2, <1>3, GroupsFound
  <2>2. ASSUME NEW b \in s.text, InRow(b, band, columns)
        PROVE  \E k \in DOMAIN groups :
                 /\ groups[k][1] <= b.x \/ groups[k][1] = columns[1]
                 /\ Cells!Right(b) <= groups[k][2] \/ groups[k][2] = columns[2]
    <3>1. PICK k \in DOMAIN groups :
            /\ groups[k][1] <= b.x \/ groups[k][1] = columns[1]
            /\ Cells!Right(b) <= groups[k][2] \/ groups[k][2] = columns[2]
            /\ groups[k][1] < Cells!Right(b) /\ b.x < groups[k][2]
      BY <1>1, <1>2, <1>3, <2>2, GroupsFound
    <3> QED
      BY <3>1
  <2> QED
    BY <2>1, <2>2
<1> HIDE DEF groups
<1>6. Ordered(groups, 3)
  BY <1>3, <1>5, OrderedCloser
<1> QED
  BY <1>2, <1>4, <1>5, <1>6 DEF columns

(* Where a button's price stands within its columns. *)
LEMMA GroupCentre ==
  ASSUME NEW button, Button(button), NEW group, group[1] \in Nat, group[2] \in Nat,
         Cells!IsPriceGroup(group, button)
  PROVE  /\ 2 * button.x < group[1] + group[2]
         /\ group[1] + group[2] < 2 * Cells!Right(button)
<1> DEFINE off == group[1] + group[2] - 2 * button.x
           w == button.w
<1>1. off \in Int /\ button.x \in Nat /\ w \in Nat /\ w >= 80 /\ Cells!Right(button) = button.x + w
  BY ButtonTypes
<1>2. 30 * 2 * w <= 100 * off /\ 100 * off <= 90 * 2 * w
  BY DEF Cells!IsPriceGroup
<1>3. 60 * w <= 100 * off /\ 100 * off <= 180 * w
  <2> HIDE DEF off, w
  <2> QED
    BY <1>1, <1>2
<1>4. 0 < off /\ off < 2 * w
  <2> HIDE DEF off, w
  <2> QED
    BY <1>1, <1>3
<1> QED
  BY <1>1, <1>4

(* Where _detect_side finds a price among the groups i to j of a row. *)
LEMMA PriceFound ==
  ASSUME screen \in Screens, NEW button, Button(button), NEW profile,
         NEW band, band[1] \in Nat, band[2] \in Nat, band[1] < band[2], band[2] <= screen.height,
         NEW columns, columns = Cells!SideColumns(screen, button),
         NEW groups, groups = Cells!SideGroups(screen, button, columns, band),
         NEW i \in DOMAIN groups, NEW j \in DOMAIN groups, i <= j,
         NEW span, span = <<groups[i][1], groups[j][2]>>,
         NEW cell, cell = Cells!PriceCell(screen, button, profile, span, groups, band),
         cell # None
  PROVE  /\ PriceIn(cell, button, columns, band, span)
         /\ Cells!Bottom(cell) \in Int
         /\ Cells!Bottom(cell) <= band[2] + Cells!Max({3, Cells!Percent(8, button.h)})
<1> DEFINE padding == Cells!Padding(button)
           desired == Cells!Max({8, Cells!Percent(16, button.h)})
           up == Cells!Max({3, Cells!Percent(8, button.h)})
           left == IF profile = "v2" THEN padding
                   ELSE Cells!LeadingPadding(groups, span, desired, padding)
<1>1. /\ screen.width \in Nat /\ screen.height \in Nat /\ screen.text \subseteq Boxes
      /\ button.h \in Int
  BY ScreenTypes, ButtonTypes
<1>2. padding \in Nat /\ desired \in Nat /\ up \in Nat
  BY <1>1, AtLeast DEF Cells!Padding
<1>3. /\ Cells!IsPriceGroup(span, button)
      /\ cell = Cells!PaddedCell(screen, span, band, left, padding, up)
  BY DEF Cells!PriceCell
<1> HIDE DEF padding, desired, up
<1>4. /\ columns[1] \in Nat /\ columns[2] \in Int /\ columns[2] <= screen.width
      /\ Ordered(groups, 3)
      /\ \A k \in DOMAIN groups :
           columns[1] <= groups[k][1] /\ groups[k][2] <= columns[2]
      /\ \A b \in screen.text : InRow(b, band, columns) =>
           \E k \in DOMAIN groups :
             /\ groups[k][1] <= b.x \/ groups[k][1] = columns[1]
             /\ Cells!Right(b) <= groups[k][2] \/ groups[k][2] = columns[2]
  BY SideGroupsFound
<1>5. /\ \A k \in DOMAIN groups : /\ k \in Nat /\ groups[k][1] \in Nat /\ groups[k][2] \in Nat
                                  /\ groups[k][1] < groups[k][2]
      /\ \A k, l \in DOMAIN groups : k < l => groups[k][2] + 3 < groups[l][1]
  <2>1. Ordered(groups, 3)
    BY <1>4
  <2> QED
    BY <2>1 DEF Ordered
<1>6. /\ span[1] = groups[i][1] /\ span[2] = groups[j][2]
      /\ span[1] \in Nat /\ span[2] \in Nat /\ span[1] < span[2] /\ span[2] <= screen.width
  <2>1. span[1] = groups[i][1] /\ span[2] = groups[j][2] /\ span[1] \in Nat /\ span[2] \in Nat
    BY <1>5
  <2>2. span[1] < span[2]
    <3>1. CASE i = j
      BY <1>5, <2>1, <3>1
    <3>2. CASE i < j
      BY <1>5, <2>1, <3>2
    <3> QED
      BY <1>5, <3>1, <3>2
  <2> QED
    BY <1>1, <1>4, <2>1, <2>2
<1>7. /\ left \in Nat
      /\ \A k \in DOMAIN groups :
           groups[k][2] <= span[1] => left <= padding \/ left + 2 <= span[1] - groups[k][2]
  <2>1. CASE profile = "v2"
    BY <1>2, <2>1
  <2>2. CASE profile # "v2"
    <3>1. left = Cells!LeadingPadding(groups, span, desired, padding)
      BY <2>2
    <3>2. /\ Ordered(groups, 3) /\ span[1] \in Nat
          /\ desired \in Nat /\ padding \in Nat
      BY <1>2, <1>4, <1>6
    <3> HIDE DEF left
    <3> QED
      BY <3>1, <3>2, LeadingIs
  <2> QED
    BY <2>1, <2>2
<1> HIDE DEF left
<1>8. Padded(cell, screen, span, band, left, padding, up)
  BY <1>3 DEF Padded, Cells!PaddedCell, Cells!Box
<1>9. /\ cell.x \in Nat /\ cell.y \in Nat /\ cell.w \in Int /\ cell.h \in Int
      /\ cell.x <= span[1] /\ span[1] - left <= cell.x
      /\ span[2] <= Cells!Right(cell) /\ Cells!Right(cell) <= span[2] + padding
      /\ Cells!Right(cell) <= screen.width
      /\ cell.y <= band[1] /\ band[2] <= Cells!Bottom(cell)
      /\ Cells!Bottom(cell) <= band[2] + up /\ Cells!Bottom(cell) <= screen.height
  <2>1. Stands(span, band, screen)
    BY <1>6 DEF Stands
  <2>2. left \in Nat /\ padding \in Nat /\ up \in Nat
    BY <1>2, <1>7
  <2> QED
    BY SMTT(30), <1>8, <2>1, <2>2, PaddedIs
<1>10. CutOut(cell, span, band)
  <2>1. /\ Cells!Right(Cells!Box(0, 0, screen.width, screen.height)) = screen.width
        /\ Cells!Bottom(Cells!Box(0, 0, screen.width, screen.height)) = screen.height
        /\ Cells!Box(0, 0, screen.width, screen.height).x = 0
        /\ Cells!Box(0, 0, screen.width, screen.height).y = 0
    BY <1>1 DEF Cells!Right, Cells!Bottom, Cells!Box
  <2> QED
    BY <1>6, <1>9, <2>1 DEF CutOut, OnScreen, Holds
<1>11. ASSUME NEW b \in screen.text, InRow(b, band, columns),
              columns[1] <= b.x, Cells!Right(b) <= columns[2]
       PROVE  \/ Within(b, span) \/ Beside(b, cell)
              \/ span[1] - Cells!Right(b) \in 0 .. padding
              \/ b.x - span[2] \in 0 .. padding
  <2>1. b.x \in Nat /\ Cells!Right(b) \in Nat
    BY <1>1 DEF Boxes, Cells!Right
  <2>2. PICK k \in DOMAIN groups : /\ groups[k][1] <= b.x \/ groups[k][1] = columns[1]
                                   /\ Cells!Right(b) <= groups[k][2] \/ groups[k][2] = columns[2]
    BY <1>4, <1>11
  <2>3. groups[k][1] <= b.x /\ Cells!Right(b) <= groups[k][2]
    BY <1>11, <2>2
  <2>4. CASE k < i
    <3>1. groups[k][2] + 3 < span[1] /\ groups[k][2] \in Nat
      BY <1>5, <1>6, <2>4
    <3>2. left <= padding \/ left + 2 <= span[1] - groups[k][2]
      BY <1>6, <1>7, <3>1
    <3>3. Cells!Right(b) <= cell.x \/ span[1] - Cells!Right(b) \in 0 .. padding
      BY <1>2, <1>6, <1>7, <1>9, <2>1, <2>3, <3>1, <3>2
    <3> QED
      BY <3>3 DEF Beside
  <2>5. CASE k > j
    <3>1. span[2] + 3 < groups[k][1] /\ groups[k][1] \in Nat
      BY <1>5, <1>6, <2>5
    <3>2. Cells!Right(cell) \in Int
      BY <1>9 DEF Cells!Right
    <3>3. Cells!Right(cell) <= b.x \/ b.x - span[2] \in 0 .. padding
      BY <1>2, <1>6, <1>9, <2>1, <2>3, <3>1, <3>2
    <3> QED
      BY <3>3 DEF Beside
  <2>6. CASE i <= k /\ k <= j
    <3>1. span[1] <= groups[k][1]
      <4>1. CASE i = k
        BY <1>5, <1>6, <4>1
      <4>2. CASE i < k
        BY <1>5, <1>6, <4>2
      <4> QED
        BY <1>5, <2>6, <4>1, <4>2
    <3>2. groups[k][2] <= span[2]
      <4>1. CASE j = k
        BY <1>5, <1>6, <4>1
      <4>2. CASE k < j
        BY <1>5, <1>6, <4>2
      <4> QED
        BY <1>5, <2>6, <4>1, <4>2
    <3> QED
      BY <1>5, <1>6, <2>1, <2>3, <3>1, <3>2 DEF Within
  <2> QED
    BY <1>5, <2>4, <2>5, <2>6
<1>12. /\ 2 * button.x < span[1] + span[2]
       /\ span[1] + span[2] < 2 * Cells!Right(button)
  BY <1>3, <1>6, GroupCentre
<1>13. \A b \in screen.text :
         InRow(b, band, columns) =>
           \/ Within(b, span) \/ Beside(b, cell)
           \/ b.x < columns[1] \/ columns[2] < Cells!Right(b)
           \/ span[1] - Cells!Right(b) \in 0 .. padding
           \/ b.x - span[2] \in 0 .. padding
  <2> TAKE b \in screen.text
  <2>1. b.x \in Nat /\ Cells!Right(b) \in Nat
    BY <1>1 DEF Boxes, Cells!Right
  <2> QED
    BY <1>4, <1>11, <2>1
<1>14. Cells!Bottom(cell) \in Int
  BY <1>9 DEF Cells!Bottom
<1> QED
  BY <1>9, <1>10, <1>12, <1>13, <1>14 DEF PriceIn, padding, up

(* The rows of text below a button. *)
LEMMA SideBandsFound ==
  ASSUME NEW s \in Screens, NEW button, Button(button), NEW columns
  PROVE  LET bands == Cells!SideBands(s, button, columns)
             low   == Cells!Max({3, Cells!Percent(8, button.h)})
         IN  /\ Ordered(bands, 1) /\ low \in Nat
             /\ \A k \in DOMAIN bands :
                  bands[k][2] <= s.height /\ bands[k][1] + low <= bands[k][2]
<1> DEFINE low == Cells!Max({3, Cells!Percent(8, button.h)})
           high == Cells!Max({low, Cells!Percent(45, button.h)})
           gap == Cells!Max({1, Cells!Percent(2, button.h)})
           least == Cells!Max({4, Cells!Rounded(6 * button.w, 1000)})
           from == Cells!Bottom(button) + Cells!Max({2, Cells!Percent(5, button.h)})
           to == Cells!Bottom(button) + 4 * button.h
           rows == <<Cells!Min({s.height, from}), Cells!Min({s.height, to})>>
           bands == Cells!RowBands(s.text, columns, rows, least, gap, low .. high)
<1>1. s.height \in Nat /\ button.h \in Nat /\ Cells!Bottom(button) \in Nat
  BY ScreenTypes, ButtonTypes
<1>2. low \in Nat
  BY <1>1, AtLeast
<1>3. gap \in Nat /\ gap >= 1
  BY <1>1, AtLeast
<1>4. from \in Nat /\ to \in Nat
  <2>1. Cells!Max({2, Cells!Percent(5, button.h)}) \in Nat
    BY <1>1, AtLeast
  <2> QED
    BY <1>1, <2>1
<1>5. Cells!SideBands(s, button, columns) = bands
  BY DEF Cells!SideBands
<1>6. high \in Int
  <2>1. low \in Int /\ button.h \in Int /\ 45 \in Int
    BY <1>1, <1>2
  <2> HIDE DEF low
  <2>2. Cells!Percent(45, button.h) \in Int
    BY <2>1, PercentType, Zenon
  <2> QED
    BY <2>1, <2>2, GreaterOf
<1> HIDE DEF low, high, gap, from, to
<1>7. rows[1] \in Nat /\ rows[2] \in Int /\ rows[2] <= s.height
  <2>1. from \in Int /\ to \in Int /\ s.height \in Int
    BY <1>1, <1>4
  <2>2. Cells!Min({s.height, from}) \in Nat
    BY <1>1, <1>4, <2>1, LesserOf
  <2>3. Cells!Min({s.height, to}) \in Int /\ Cells!Min({s.height, to}) <= s.height
    BY <2>1, LesserOf
  <2> QED
    BY <2>2, <2>3
<1> HIDE DEF rows, least
<1>8. /\ Ordered(bands, gap)
      /\ \A k \in DOMAIN bands : /\ rows[1] <= bands[k][1] /\ bands[k][2] <= rows[2]
                                 /\ Cells!Length(bands[k]) \in low .. high
  BY <1>3, <1>7, RowsFound
<1> HIDE DEF bands
<1>9. Ordered(bands, 1)
  BY <1>3, <1>8, OrderedCloser
<1>10. ASSUME NEW k \in DOMAIN bands
       PROVE  bands[k][2] <= s.height /\ bands[k][1] + low <= bands[k][2]
  <2>1. bands[k][1] \in Nat /\ bands[k][2] \in Nat
    BY <1>8 DEF Ordered
  <2>2. bands[k][2] <= rows[2] /\ Cells!Length(bands[k]) \in low .. high
    BY <1>8
  <2> QED
    BY <1>1, <1>2, <1>6, <1>7, <2>1, <2>2 DEF Cells!Length
<1> QED
  BY <1>2, <1>5, <1>9, <1>10 DEF low

(* What is joined to the price of the summary are groups before its own.   *)
LEMMA SummaryIs ==
  ASSUME NEW groups, NEW n \in Nat, Len(groups) = n, n >= 3, NEW button, NEW profile
  PROVE  \E i \in 1 .. n - 2 :
           Cells!SummaryPrice(groups, button, profile) = <<groups[i][1], groups[n - 2][2]>>
<1> DEFINE base == n - 2
           Unbroken(k) == \A i \in k .. base - 1 : Cells!Joins(groups[i], groups[i + 1], button)
           runs == {k \in 1 .. base : Unbroken(k)}
           detached == base > 1 /\ Cells!LeadingFragment(groups[base - 1], groups[base], button)
           narrow == Cells!Length(groups[base])
                       < Cells!Max({8, Cells!Percent(8, button.w)})
           first == IF profile = "v2"
                    THEN IF detached THEN base - 1 ELSE base
                    ELSE IF narrow \/ detached THEN Cells!Min(runs) ELSE base
<1>1. base \in Nat /\ base >= 1
  OBVIOUS
<1>2. Cells!SummaryPrice(groups, button, profile) = <<groups[first][1], groups[base][2]>>
  BY DEF Cells!SummaryPrice
<1>3. runs \subseteq Nat /\ base \in runs /\ runs \subseteq 1 .. base
  <2>1. base .. base - 1 = {}
    BY <1>1
  <2>2. Unbroken(base)
    BY <2>1
  <2> HIDE DEF Unbroken
  <2>3. base \in 1 .. base
    BY <1>1
  <2> HIDE DEF base
  <2> QED
    BY <1>1, <2>2, <2>3
<1>4. Cells!Min(runs) \in 1 .. base
  <2> HIDE DEF runs, base
  <2> QED
    BY <1>3, CellsLeast
<1>5. detached => base > 1
  OBVIOUS
<1> HIDE DEF runs, narrow, detached
<1>6. first \in 1 .. base
  <2> HIDE DEF base
  <2> QED
    BY <1>1, <1>4, <1>5
<1> HIDE DEF first
<1> QED
  BY <1>2, <1>6

(* The two cells that are found below a button. *)
LEMMA SidePrices ==
  ASSUME screen \in Screens, NEW button, Button(button), NEW profile,
         NEW found, found = Cells!SideCells(screen, button, profile),
         found.summary # None, found.first # None
  PROVE  LET columns == Cells!SideColumns(screen, button)
             bands   == Cells!SideBands(screen, button, columns)
             Groups(k) == Cells!SideGroups(screen, button, columns, bands[k])
         IN  /\ PriceIn(found.summary, button, columns, bands[1],
                        Cells!SummaryPrice(Groups(1), button, profile))
             /\ PriceIn(found.first, button, columns, bands[3], Last(Groups(3)))
             /\ Cells!Bottom(found.summary) < bands[3][1]
<1> DEFINE columns == Cells!SideColumns(screen, button)
           bands   == Cells!SideBands(screen, button, columns)
           summary == Cells!SideGroups(screen, button, columns, bands[1])
           level   == Cells!SideGroups(screen, button, columns, bands[3])
           price   == Cells!SummaryPrice(summary, button, profile)
           low     == Cells!Max({3, Cells!Percent(8, button.h)})
<1>1. /\ Cells!NoCells.summary = None
      /\ found = Cells!CellsOfBands(screen, button, profile, columns, bands)
  BY DEF Cells!NoCells, Cells!SideCells
<1>2. /\ ~ (Len(bands) < 3)
      /\ found = Cells!CellsOfGroups(screen, button, profile, bands, summary, level)
  <2> HIDE DEF columns, bands
  <2> QED
    BY <1>1 DEF Cells!CellsOfBands, summary, level
<1>3. /\ ~ (Len(summary) < 3) /\ ~ (Len(level) < 2)
      /\ found.summary = Cells!PriceCell(screen, button, profile, price, summary, bands[1])
      /\ found.first = Cells!PriceCell(screen, button, profile, Cells!Last(level), level, bands[3])
  <2> HIDE DEF columns, bands, summary, level
  <2> QED
    BY <1>1, <1>2 DEF Cells!CellsOfGroups, price
<1>4. /\ Ordered(bands, 1) /\ low \in Nat
      /\ \A k \in DOMAIN bands :
           bands[k][2] <= screen.height /\ bands[k][1] + low <= bands[k][2]
  <2> HIDE DEF columns
  <2> QED
    BY SideBandsFound
<1> HIDE DEF bands, low
<1>5. 1 \in DOMAIN bands /\ 2 \in DOMAIN bands /\ 3 \in DOMAIN bands
  BY <1>2, <1>4 DEF Ordered
<1>6. /\ bands[1][1] \in Nat /\ bands[1][2] \in Nat /\ bands[1][1] < bands[1][2]
      /\ bands[3][1] \in Nat /\ bands[3][2] \in Nat /\ bands[3][1] < bands[3][2]
      /\ bands[1][2] <= screen.height /\ bands[3][2] <= screen.height
  BY <1>4, <1>5 DEF Ordered
<1>7. bands[1][2] + low < bands[3][1]
  <2>1. /\ bands[2][1] \in Nat /\ bands[2][2] \in Nat
        /\ bands[1][2] + 1 < bands[2][1] /\ bands[2][2] + 1 < bands[3][1]
    BY <1>4, <1>5 DEF Ordered
  <2>2. bands[2][1] + low <= bands[2][2]
    BY <1>4, <1>5
  <2> QED
    BY <1>4, <1>6, <2>1, <2>2
<1>8. Ordered(summary, 3) /\ Ordered(level, 3)
  BY <1>6, SideGroupsFound
<1> HIDE DEF columns
<1>9. /\ PriceIn(found.summary, button, columns, bands[1], price)
      /\ Cells!Bottom(found.summary) \in Int
      /\ Cells!Bottom(found.summary) <= bands[1][2] + low
  <2> DEFINE n == Len(summary)
  <2>1. n \in Nat /\ n >= 3 /\ DOMAIN summary = 1 .. n
    BY <1>3, <1>8 DEF Ordered
  <2> HIDE DEF n
  <2>2. PICK i \in 1 .. n - 2 : price = <<summary[i][1], summary[n - 2][2]>>
    <3> HIDE DEF summary
    <3> QED
      BY <2>1, SummaryIs DEF n
  <2>3. i \in DOMAIN summary /\ n - 2 \in DOMAIN summary /\ i <= n - 2
    BY <2>1
  <2>4. summary = Cells!SideGroups(screen, button, columns, bands[1])
    OBVIOUS
  <2> HIDE DEF summary, price
  <2> QED
    BY <1>3, <1>6, <2>2, <2>3, <2>4, PriceFound DEF columns, low
<1>10. PriceIn(found.first, button, columns, bands[3], Cells!Last(level))
  <2> DEFINE n == Len(level)
             span == Cells!Last(level)
  <2>1. n \in DOMAIN level
    BY <1>3, <1>8 DEF Ordered
  <2>2. span = <<level[n][1], level[n][2]>>
    BY <1>8, <2>1 DEF Ordered, Cells!Last
  <2>3. level = Cells!SideGroups(screen, button, columns, bands[3]) /\ n <= n
    BY <1>8 DEF Ordered
  <2> HIDE DEF level, n, span
  <2> QED
    BY <1>3, <1>6, <2>1, <2>2, <2>3, PriceFound DEF columns, span
<1>11. Cells!Bottom(found.summary) < bands[3][1]
  BY <1>4, <1>6, <1>7, <1>9
<1>12. Last(level) = Cells!Last(level)
  BY DEF Last, Cells!Last
<1> QED
  BY <1>9, <1>10, <1>11, <1>12 DEF columns, bands

-----------------------------------------------------------------------------
(* Where the title is cut out *)

(* Text above the sell button: where it is looked for, and its rows. *)
LEMMA TitleBandsFound ==
  ASSUME NEW s \in Screens, NEW b, Button(b)
  PROVE  LET columns == Cells!TitleColumns(s, b)
             bands   == Cells!TitleBands(s, b, columns, Cells!TitleRows(s, b))
         IN  /\ columns[1] \in Nat /\ columns[2] \in Int /\ columns[2] <= s.width
             /\ Ordered(bands, 1)
             /\ \A k \in DOMAIN bands : bands[k][2] <= s.height
<1> DEFINE columns == Cells!TitleColumns(s, b)
           rows == Cells!TitleRows(s, b)
           gap == Cells!Max({1, Cells!Percent(3, b.h)})
           low == Cells!Max({3, Cells!Percent(18, b.h)})
           lengths == low .. Cells!Max({low, Cells!Percent(65, b.h)})
           least == Cells!Max({4, Cells!Rounded(8 * b.w, 1000)})
           bands == Cells!RowBands(s.text, columns, rows, least, gap, lengths)
<1>1. /\ s.width \in Int /\ s.height \in Int /\ b.x \in Int /\ b.y \in Int
      /\ b.w \in Int /\ b.h \in Int /\ 0 \in Int
  <2>1. s.width \in Nat /\ s.height \in Nat /\ b.x \in Nat /\ b.y \in Nat /\ b.w \in Nat /\ b.h \in Nat
    BY ScreenTypes, ButtonTypes
  <2> QED
    BY <2>1
<1>2. columns[1] \in Nat /\ columns[2] \in Int /\ columns[2] <= s.width
  <2> DEFINE from == Cells!Rounded(100 * b.x - 45 * b.w, 100)
             to   == Cells!Rounded(100 * b.x + 230 * b.w, 100)
  <2>1. columns[1] = Cells!Max({0, from}) /\ columns[2] = Cells!Min({s.width, to})
    BY DEF Cells!TitleColumns
  <2>2. 100 * b.x - 45 * b.w \in Int /\ 100 * b.x + 230 * b.w \in Int
    BY <1>1
  <2>3. from \in Int /\ to \in Int
    BY <2>2, RoundedType
  <2> HIDE DEF from, to, columns
  <2>4. Cells!Max({0, from}) \in Nat
    BY <1>1, <2>3, GreaterOf
  <2>5. Cells!Min({s.width, to}) \in Int /\ Cells!Min({s.width, to}) <= s.width
    BY <1>1, <2>3, LesserOf
  <2> QED
    BY <2>1, <2>4, <2>5
<1>3. rows[1] \in Nat /\ rows[2] \in Int /\ rows[2] <= s.height
  <2> DEFINE from == Cells!Rounded(100 * b.y - 550 * b.h, 100)
             to   == Cells!Rounded(100 * b.y - 410 * b.h, 100)
  <2>1. rows[1] = Cells!Max({0, from}) /\ rows[2] = Cells!Min({s.height, to})
    BY DEF Cells!TitleRows
  <2>2. 100 * b.y - 550 * b.h \in Int /\ 100 * b.y - 410 * b.h \in Int
    BY <1>1
  <2>3. from \in Int /\ to \in Int
    BY <2>2, RoundedType
  <2> HIDE DEF from, to, rows
  <2>4. Cells!Max({0, from}) \in Nat
    BY <1>1, <2>3, GreaterOf
  <2>5. Cells!Min({s.height, to}) \in Int /\ Cells!Min({s.height, to}) <= s.height
    BY <1>1, <2>3, LesserOf
  <2> QED
    BY <2>1, <2>4, <2>5
<1>4. gap \in Nat /\ gap >= 1
  BY <1>1, AtLeast
<1>5. Cells!TitleBands(s, b, columns, rows) = bands
  BY DEF Cells!TitleBands
<1> HIDE DEF columns, rows, gap, lengths, least
<1>6. /\ Ordered(bands, gap)
      /\ \A k \in DOMAIN bands : /\ rows[1] <= bands[k][1] /\ bands[k][2] <= rows[2]
                                 /\ Cells!Length(bands[k]) \in lengths
  BY <1>3, <1>4, RowsFound
<1> HIDE DEF bands
<1>7. Ordered(bands, 1)
  BY <1>4, <1>6, OrderedCloser
<1>8. \A k \in DOMAIN bands : bands[k][2] <= s.height
  <2> TAKE k \in DOMAIN bands
  <2>1. bands[k][2] \in Nat /\ bands[k][2] <= rows[2]
    BY <1>6 DEF Ordered
  <2> QED
    BY <1>1, <1>3, <2>1
<1> QED
  BY <1>2, <1>5, <1>7, <1>8 DEF columns, rows

(* The groups of text in such a row. *)
LEMMA TitleGroupsFound ==
  ASSUME NEW s \in Screens, NEW b, Button(b),
         NEW columns, columns[1] \in Nat, columns[2] \in Int,
         NEW band, band[1] \in Nat, band[2] \in Nat
  PROVE  LET groups == Cells!TitleGroups(s, b, columns, band)
         IN  /\ Ordered(groups, 2)
             /\ \A k \in DOMAIN groups :
                  columns[1] <= groups[k][1] /\ groups[k][2] <= columns[2]
             /\ \A t \in s.text : InRow(t, band, columns) =>
                  \E k \in DOMAIN groups :
                    /\ groups[k][1] <= t.x \/ groups[k][1] = columns[1]
                    /\ Cells!Right(t) <= groups[k][2] \/ groups[k][2] = columns[2]
<1> DEFINE gap == Cells!Max({2, Cells!Percent(8, b.h)})
           groups == Cells!ColumnGroups(s.text, columns, band, gap)
<1>1. s.text \subseteq Boxes /\ b.h \in Int
  BY ScreenTypes, ButtonTypes
<1>2. gap \in Nat /\ gap >= 2
  BY <1>1, AtLeast
<1>3. Cells!TitleGroups(s, b, columns, band) = groups
  BY DEF Cells!TitleGroups
<1> HIDE DEF gap
<1>4. /\ Ordered(groups, gap)
      /\ \A k \in DOMAIN groups :
           /\ columns[1] <= groups[k][1] /\ groups[k][2] <= columns[2]
  BY <1>1, <1>2, GroupsFound
<1>5. ASSUME NEW t \in s.text, InRow(t, band, columns)
      PROVE  \E k \in DOMAIN groups :
               /\ groups[k][1] <= t.x \/ groups[k][1] = columns[1]
               /\ Cells!Right(t) <= groups[k][2] \/ groups[k][2] = columns[2]
  <2>1. PICK k \in DOMAIN groups :
          /\ groups[k][1] <= t.x \/ groups[k][1] = columns[1]
          /\ Cells!Right(t) <= groups[k][2] \/ groups[k][2] = columns[2]
          /\ groups[k][1] < Cells!Right(t) /\ t.x < groups[k][2]
    BY <1>1, <1>2, <1>5, GroupsFound
  <2> QED
    BY <2>1
<1> HIDE DEF groups
<1>6. Ordered(groups, 2)
  BY <1>2, <1>4, OrderedCloser
<1> QED
  BY <1>3, <1>4, <1>5, <1>6

(* The padding of a title ends before its neighbour. *)
LEMMA TitlePaddingIs ==
  ASSUME NEW b, Button(b), NEW gap \in Int, gap >= 3, NEW percent \in Int, NEW wider
  PROVE  LET padding == Cells!TitlePadding(b, gap, percent, wider)
         IN  padding \in Nat /\ padding < gap
<1> DEFINE desired == Cells!Max({3, Cells!Percent(6, b.h)})
           most == IF wider THEN Cells!Max({desired, Cells!Percent(percent, b.h)}) ELSE desired
           room == IF wider THEN Cells!Max({0, gap}) - 2 ELSE Cells!Max({0, gap}) \div 2
           bound == Cells!Max({2, room})
<1>1. Cells!TitlePadding(b, gap, percent, wider) = Cells!Min({most, bound})
  BY DEF Cells!TitlePadding
<1>2. b.h \in Int
  BY ButtonTypes
<1>3. desired \in Nat /\ desired >= 3
  BY <1>2, AtLeast
<1>4. most \in Nat
  <2> HIDE DEF desired
  <2>1. Cells!Max({desired, Cells!Percent(percent, b.h)}) \in Nat
    BY <1>2, <1>3, AtLeast
  <2> QED
    BY <1>3, <2>1
<1>5. Cells!Max({0, gap}) = gap
  <2>1. 0 \in Int
    OBVIOUS
  <2>2. Cells!Max({0, gap}) = IF 0 >= gap THEN 0 ELSE gap
    BY <2>1, OfTwo
  <2> QED
    BY <2>2
<1>6. room \in Int /\ room < gap
  <2>1. gap - 2 \in Int /\ gap - 2 < gap /\ gap \div 2 \in Int /\ gap \div 2 < gap
    OBVIOUS
  <2> QED
    BY <1>5, <2>1
<1> HIDE DEF most, room
<1>7. bound \in Nat /\ bound < gap
  <2>1. 2 \in Int
    OBVIOUS
  <2>2. bound = IF 2 >= room THEN 2 ELSE room
    BY <1>6, <2>1, OfTwo
  <2> HIDE DEF bound
  <2> QED
    BY <1>6, <2>2
<1> HIDE DEF bound
<1>8. most \in Int /\ bound \in Int
  BY <1>4, <1>7
<1>9. Cells!Min({most, bound}) \in Nat /\ Cells!Min({most, bound}) <= bound
  BY <1>4, <1>7, <1>8, LesserOf
<1> QED
  BY <1>1, <1>7, <1>8, <1>9

(* Of rows that are in order one is nearest to where the title should be. *)
LEMMA NearestIsBand ==
  ASSUME NEW bands, Ordered(bands, 1), Len(bands) # 0, NEW b, Button(b)
  PROVE  Cells!Nearest(bands, b) \in Cells!ToSet(bands)
<1> DEFINE S == Cells!ToSet(bands)
           offs == {Cells!Off(s, b) : s \in S}
           near == {k \in DOMAIN bands :
                      \A j \in DOMAIN bands : Cells!Off(bands[k], b) <= Cells!Off(bands[j], b)}
<1>1. ASSUME NEW s \in S
      PROVE  Cells!Off(s, b) \in Nat
  <2>1. s[1] \in Nat /\ s[2] \in Nat /\ b.y \in Nat /\ b.h \in Nat
    BY ButtonTypes DEF Ordered, Cells!ToSet
  <2> DEFINE below == 100 * (s[1] + s[2]) - 200 * b.y + 950 * b.h
             above == 200 * b.y - 950 * b.h - 100 * (s[1] + s[2])
             p == s[1] + s[2]
             y == b.y
             h == b.h
  <2>2. below \in Int /\ above \in Int /\ (below >= 0 \/ above >= 0)
    <3>1. p \in Int /\ y \in Int /\ h \in Int
      BY <2>1
    <3>2. below = 100 * p - 200 * y + 950 * h /\ above = 200 * y - 950 * h - 100 * p
      OBVIOUS
    <3> HIDE DEF p, y, h, below, above
    <3> QED
      BY <3>1, <3>2
  <2>3. Cells!Off(s, b) = Cells!Max({below, above})
    BY DEF Cells!Off
  <2> HIDE DEF below, above
  <2>4. Cells!Max({below, above}) = IF below >= above THEN below ELSE above
    BY <2>2, OfTwo
  <2> QED
    BY <2>2, <2>3, <2>4
<1>2. S # {}
  <2>1. 1 \in DOMAIN bands
    BY DEF Ordered
  <2> QED
    BY <2>1 DEF Cells!ToSet
<1> HIDE DEF S
<1>3. offs \subseteq Nat /\ offs # {}
  BY <1>1, <1>2
<1>4. PICK o \in offs : \A z \in offs : o <= z
  <2> HIDE DEF offs
  <2> QED
    BY <1>3, CellsLeast
<1>5. PICK s \in S : o = Cells!Off(s, b)
  BY <1>4
<1>6. \A t \in S : Cells!Off(s, b) <= Cells!Off(t, b)
  BY <1>4, <1>5
<1>7. near \subseteq Nat /\ near # {}
  <2>1. PICK k \in DOMAIN bands : s = bands[k]
    BY DEF S, Cells!ToSet
  <2>2. \A j \in DOMAIN bands : bands[j] \in S
    BY DEF S, Cells!ToSet
  <2>3. k \in near
    BY <1>6, <2>1, <2>2
  <2> QED
    BY <2>3 DEF Ordered
<1>8. Cells!Min(near) \in near
  <2> HIDE DEF near
  <2> QED
    BY <1>7, CellsLeast
<1> QED
  BY <1>8 DEF Cells!Nearest, Cells!ToSet

(* What _detect_item_title_roi finds in a row above the sell button. *)
LEMMA TitleFound ==
  ASSUME screen \in Screens, NEW b, Button(b), NEW wider,
         NEW columns, columns[1] \in Nat, columns[2] \in Int, columns[2] <= screen.width,
         NEW band, band[1] \in Nat, band[2] \in Nat, band[1] < band[2], band[2] <= screen.height,
         NEW cell, cell = Cells!TitleInBand(screen, wider, b, columns, band), cell # None
  PROVE  LET groups == Cells!TitleGroups(screen, b, columns, band)
             span   == <<groups[3][1], groups[Len(groups) - 1][2]>>
         IN  /\ CutOut(cell, span, band)
             /\ \A t \in screen.text :
                  InRow(t, band, columns) => Within(t, span) \/ Beside(t, cell)
<1> DEFINE groups == Cells!TitleGroups(screen, b, columns, band)
           n      == Len(groups)
           span   == <<groups[3][1], groups[n - 1][2]>>
           left   == Cells!TitlePadding(b, span[1] - groups[2][2], 14, wider)
           right  == Cells!TitlePadding(b, groups[n][1] - span[2], 10, wider)
           up     == Cells!Max({3, Cells!Percent(8, b.h)})
<1>1. cell = Cells!TitleAmong(screen, wider, b, band, groups)
  BY DEF Cells!TitleInBand
<1>2. /\ Ordered(groups, 2)
      /\ \A k \in DOMAIN groups :
           columns[1] <= groups[k][1] /\ groups[k][2] <= columns[2]
      /\ \A t \in screen.text : InRow(t, band, columns) =>
           \E k \in DOMAIN groups :
             /\ groups[k][1] <= t.x \/ groups[k][1] = columns[1]
             /\ Cells!Right(t) <= groups[k][2] \/ groups[k][2] = columns[2]
  BY TitleGroupsFound
<1> HIDE DEF groups
<1>3. ~ (n < 4) /\ cell = Cells!PaddedTitle(screen, band, span, left, right, up)
  BY <1>1 DEF Cells!TitleAmong
<1>4. n \in Nat /\ n >= 4 /\ DOMAIN groups = 1 .. n
  BY <1>2, <1>3 DEF Ordered
<1>5. Padded(cell, screen, span, band, left, right, up)
  <2> HIDE DEF span, left, right, up
  <2> QED
    BY <1>3 DEF Padded, Cells!PaddedTitle, Cells!Box
<1>6. /\ \A k \in DOMAIN groups : /\ k \in Nat /\ groups[k][1] \in Nat /\ groups[k][2] \in Nat
                                  /\ groups[k][1] < groups[k][2]
      /\ \A k, l \in DOMAIN groups : k < l => groups[k][2] + 2 < groups[l][1]
  BY <1>2 DEF Ordered
<1> HIDE DEF n
<1>7. {1, 2, 3, n - 1, n} \subseteq DOMAIN groups
  BY <1>4
<1>8. /\ span[1] = groups[3][1] /\ span[2] = groups[n - 1][2]
      /\ span[1] \in Nat /\ span[2] \in Nat /\ span[1] < span[2] /\ span[2] <= screen.width
  <2>1. span[1] = groups[3][1] /\ span[2] = groups[n - 1][2] /\ span[1] \in Nat /\ span[2] \in Nat
    BY <1>6, <1>7
  <2>2. span[1] < span[2]
    <3>1. CASE n = 4
      BY <1>6, <1>7, <2>1, <3>1
    <3>2. CASE n > 4
      <4>1. 3 < n - 1
        BY <1>4, <3>2
      <4>2. groups[3][1] < groups[3][2] /\ groups[3][2] + 2 < groups[n - 1][1]
        BY <1>6, <1>7, <4>1
      <4> QED
        BY <1>6, <1>7, <2>1, <4>2
    <3> QED
      BY <1>4, <3>1, <3>2
  <2>3. span[2] <= columns[2] /\ screen.width \in Nat
    BY <1>2, <1>7, <2>1, ScreenTypes
  <2> QED
    BY <2>1, <2>2, <2>3
<1> HIDE DEF span
<1>9. left \in Nat /\ left < span[1] - groups[2][2] /\ groups[2][2] \in Nat
  <2> DEFINE gap == span[1] - groups[2][2]
  <2>1. groups[2][2] \in Nat /\ groups[2][2] + 2 < span[1]
    BY <1>6, <1>7, <1>8
  <2>2. gap \in Int /\ gap >= 3 /\ 14 \in Int
    BY <1>8, <2>1
  <2> HIDE DEF gap
  <2>3. left \in Nat /\ left < gap
    BY <2>2, TitlePaddingIs DEF gap
  <2> QED
    BY <2>1, <2>3 DEF gap
<1>10. right \in Nat /\ right < groups[n][1] - span[2] /\ groups[n][1] \in Nat
  <2> DEFINE gap == groups[n][1] - span[2]
  <2>1. groups[n][1] \in Nat /\ span[2] + 2 < groups[n][1]
    <3>1. n - 1 < n
      BY <1>4
    <3> QED
      BY <1>6, <1>7, <1>8, <3>1
  <2>2. gap \in Int /\ gap >= 3 /\ 10 \in Int
    BY <1>8, <2>1
  <2> HIDE DEF gap
  <2>3. right \in Nat /\ right < gap
    BY <2>2, TitlePaddingIs DEF gap
  <2> QED
    BY <2>1, <2>3 DEF gap
<1>11. up \in Nat
  <2>1. b.h \in Int
    BY ButtonTypes
  <2> QED
    BY <2>1, AtLeast
<1> HIDE DEF left, right, up
<1>12. /\ cell.x \in Nat /\ cell.y \in Nat /\ cell.w \in Int /\ cell.h \in Int
       /\ cell.x <= span[1] /\ span[1] - left <= cell.x
       /\ span[2] <= Cells!Right(cell) /\ Cells!Right(cell) <= span[2] + right
       /\ Cells!Right(cell) <= screen.width
       /\ cell.y <= band[1] /\ band[2] <= Cells!Bottom(cell)
       /\ Cells!Bottom(cell) <= band[2] + up /\ Cells!Bottom(cell) <= screen.height
  <2>1. Stands(span, band, screen)
    BY <1>8 DEF Stands
  <2> QED
    BY <1>5, <1>9, <1>10, <1>11, <2>1, PaddedIs
<1>13. CutOut(cell, span, band)
  <2>1. /\ Cells!Right(Cells!Box(0, 0, screen.width, screen.height)) = screen.width
        /\ Cells!Bottom(Cells!Box(0, 0, screen.width, screen.height)) = screen.height
        /\ Cells!Box(0, 0, screen.width, screen.height).x = 0
        /\ Cells!Box(0, 0, screen.width, screen.height).y = 0
    BY ScreenTypes DEF Cells!Right, Cells!Bottom, Cells!Box
  <2> QED
    BY <1>8, <1>12, <2>1 DEF CutOut, OnScreen, Holds
<1>14. ASSUME NEW t \in screen.text, InRow(t, band, columns)
       PROVE  Within(t, span) \/ Beside(t, cell)
  <2>1. t.x \in Nat /\ Cells!Right(t) \in Nat /\ Cells!Right(cell) \in Int
    <3>1. t \in Boxes
      BY ScreenTypes
    <3> QED
      BY <1>12, <3>1 DEF Boxes, Cells!Right
  <2>2. PICK k \in DOMAIN groups : /\ groups[k][1] <= t.x \/ groups[k][1] = columns[1]
                                   /\ Cells!Right(t) <= groups[k][2] \/ groups[k][2] = columns[2]
    BY <1>2, <1>14
  <2>3. /\ k \in 1 .. n /\ groups[k][1] \in Nat /\ groups[k][2] \in Nat
    BY <1>4, <1>6
  <2>4. k > 1 => groups[k][1] <= t.x
    <3>1. k > 1 => groups[1][2] + 2 < groups[k][1]
      BY <1>6, <1>7
    <3>2. columns[1] <= groups[1][1] /\ groups[1][1] < groups[1][2]
          /\ groups[1][1] \in Nat /\ groups[1][2] \in Nat
      BY <1>2, <1>6, <1>7
    <3> QED
      BY <2>2, <2>3, <3>1, <3>2
  <2>5. k < n => Cells!Right(t) <= groups[k][2]
    <3>1. k < n => groups[k][2] + 2 < groups[n][1]
      BY <1>6, <1>7
    <3>2. groups[n][2] <= columns[2] /\ groups[n][1] < groups[n][2]
          /\ groups[n][1] \in Nat /\ groups[n][2] \in Nat
      BY <1>2, <1>6, <1>7
    <3> QED
      BY <2>2, <2>3, <3>1, <3>2
  <2>6. CASE k <= 2
    <3>1. groups[k][2] <= groups[2][2]
      <4>1. CASE k = 2
        BY <1>9, <4>1
      <4>2. CASE k < 2
        <5>1. groups[k][2] + 2 < groups[2][1] /\ groups[2][1] < groups[2][2]
              /\ groups[2][1] \in Nat
          BY <1>6, <1>7, <4>2
        <5> QED
          BY <1>9, <2>3, <5>1
      <4> QED
        BY <2>3, <2>6, <4>1, <4>2
    <3>2. Cells!Right(t) <= groups[k][2]
      BY <1>4, <2>3, <2>5, <2>6
    <3>3. Cells!Right(t) <= cell.x
      BY <1>8, <1>9, <1>12, <2>1, <2>3, <3>1, <3>2
    <3> QED
      BY <3>3 DEF Beside
  <2>7. CASE k = n
    <3>1. groups[n][1] <= t.x
      BY <1>4, <2>4, <2>7
    <3>2. Cells!Right(cell) <= t.x
      BY <1>8, <1>10, <1>12, <2>1, <3>1
    <3> QED
      BY <3>2 DEF Beside
  <2>8. CASE 3 <= k /\ k <= n - 1
    <3>1. span[1] <= groups[k][1]
      <4>1. CASE k = 3
        BY <1>8, <2>3, <4>1
      <4>2. CASE k > 3
        <5>1. groups[3][2] + 2 < groups[k][1] /\ groups[3][1] < groups[3][2]
              /\ groups[3][2] \in Nat
          BY <1>6, <1>7, <4>2
        <5> QED
          BY <1>8, <2>3, <5>1
      <4> QED
        BY <2>3, <2>8, <4>1, <4>2
    <3>2. groups[k][2] <= span[2]
      <4>1. CASE k = n - 1
        BY <1>8, <2>3, <4>1
      <4>2. CASE k < n - 1
        <5>1. groups[k][2] + 2 < groups[n - 1][1] /\ groups[n - 1][1] < groups[n - 1][2]
              /\ groups[n - 1][1] \in Nat
          BY <1>6, <1>7, <4>2
        <5> QED
          BY <1>8, <2>3, <5>1
      <4> QED
        BY <1>4, <2>3, <2>8, <4>1, <4>2
    <3>3. groups[k][1] <= t.x /\ Cells!Right(t) <= groups[k][2]
      BY <1>4, <2>3, <2>4, <2>5, <2>8
    <3> QED
      BY <1>8, <2>1, <2>3, <3>1, <3>2, <3>3 DEF Within
  <2> QED
    BY <1>4, <2>3, <2>6, <2>7, <2>8
<1> QED
  BY <1>13, <1>14 DEF groups, n, span

-----------------------------------------------------------------------------
(* What is found on any screenshot *)

(* Until it is prepared, a call has a screenshot, and what Detect found    *)
(* is what the detectors find on it.                                       *)
DetectedInv ==
  /\ phase \in {"new", "detected"} => screen \in Screens
  /\ phase = "detected" =>
       /\ cells # None => cells = Cells!PriceCellsOf(screen, call.recognizer.cells)
       /\ title # None => title = Cells!TitleCell(screen, call.recognizer.title # "v2")

(* It holds when a call begins. *)
LEMMA DetectedInit == Init => DetectedInv
<1> SUFFICES ASSUME Init
             PROVE  DetectedInv
  OBVIOUS
<1>1. (CHOOSE s \in Screens : TRUE) \in Screens
  BY OcrHelperAssumption
<1>2. phase = "new" /\ screen \in Screens
  BY <1>1 DEF Init
<1> QED
  BY <1>2 DEF DetectedInv

(* Every step keeps it. *)
LEMMA DetectedStep == DetectedInv /\ [Next]_vars => DetectedInv'
<1> SUFFICES ASSUME DetectedInv, [Next]_vars
             PROVE  DetectedInv'
  OBVIOUS
<1>1. CASE Detect
  <2>1. screen' \in Screens /\ phase' = "detected" /\ call' = call /\ screen' = screen
    BY <1>1 DEF Detect, DetectedInv
  <2>2. cells' # None => cells' = Cells!PriceCellsOf(screen, call.recognizer.cells)
    BY <1>1 DEF Detect
  <2>3. title' # None => title' = Cells!TitleCell(screen, call.recognizer.title # "v2")
    BY <1>1 DEF Detect
  <2> QED
    BY <2>1, <2>2, <2>3 DEF DetectedInv
<1>2. CASE StartBatch \/ StartDrawing
  <2>1. phase' = "waiting"
    BY <1>2 DEF StartBatch, StartDrawing, Start
  <2> QED
    BY <2>1 DEF DetectedInv
<1>3. CASE Collect \/ Read \/ TimedOut \/ Terminate \/ Reap \/ Interrupt
  <2>1. phase' \in {"collected", "done", "ending", "reaping"}
    BY <1>3 DEF Collect, Read, TimedOut, Terminate, Reap, Interrupt
  <2> QED
    BY <2>1 DEF DetectedInv
<1>4. CASE HelperWrites \/ HelperExits \/ HelperFails \/ Finished \/ UNCHANGED vars
  <2>1. UNCHANGED <<call, phase, screen, cells, title>>
    BY <1>4 DEF HelperWrites, HelperExits, HelperFails, Finished, vars
  <2> QED
    BY <2>1 DEF DetectedInv
<1> QED
  BY <1>1, <1>2, <1>3, <1>4 DEF Next

(* It holds throughout. *)
LEMMA DetectedInvariant == Spec => []DetectedInv
  BY DetectedInit, DetectedStep, PTL DEF Spec

(* Of any screenshot, the four cells are those of four different texts,    *)
(* and each holds all of its price but what the edge of the columns cuts   *)
(* off, and nothing that stands further off than the padding               *)
(* (_detect_price_cell_rois, _detect_side, _bounded_leading_padding).      *)
THEOREM FourPricesAlways == Spec => []FourPrices
<1>1. ASSUME DetectedInv
      PROVE  FourPrices
  <2> SUFFICES ASSUME phase = "detected", cells # None
               PROVE  FourPrices
    BY DEF FourPrices
  <2> DEFINE profile == call.recognizer.cells
             buttons == Cells!ActionButtons(screen, profile)
             bid     == Cells!SideCells(screen, buttons.bid, profile)
             ask     == Cells!SideCells(screen, buttons.ask, profile)
  <2>1. screen \in Screens /\ cells = Cells!PriceCellsOf(screen, profile)
    BY <1>1 DEF DetectedInv
  <2> HIDE DEF profile
  <2>2. buttons # None /\ cells = Cells!AllCells(bid, ask)
    BY <2>1 DEF Cells!PriceCellsOf
  <2>3. /\ Button(buttons.bid) /\ Button(buttons.ask)
        /\ Cells!Right(buttons.bid) < buttons.ask.x
    BY <2>1, <2>2, ButtonsAre
  <2> HIDE DEF buttons, bid, ask
  <2>4. /\ bid.summary # None /\ bid.first # None /\ ask.summary # None /\ ask.first # None
        /\ cells = [best_bid |-> bid.summary, bid_levels |-> bid.first,
                    best_ask |-> ask.summary, ask_levels |-> ask.first]
    BY <2>2 DEF Cells!AllCells
  <2>5. /\ cells.best_bid = bid.summary /\ cells.bid_levels = bid.first
        /\ cells.best_ask = ask.summary /\ cells.ask_levels = ask.first
    BY <2>4
  <2> DEFINE Columns(button) == Cells!SideColumns(screen, button)
             Rows(button) == Cells!SideBands(screen, button, Columns(button))
             Groups(button, k) ==
               Cells!SideGroups(screen, button, Columns(button), Rows(button)[k])
  <2>6. /\ PriceIn(bid.summary, buttons.bid, Columns(buttons.bid), Rows(buttons.bid)[1],
                   Cells!SummaryPrice(Groups(buttons.bid, 1), buttons.bid, profile))
        /\ PriceIn(bid.first, buttons.bid, Columns(buttons.bid), Rows(buttons.bid)[3],
                   Last(Groups(buttons.bid, 3)))
        /\ Cells!Bottom(bid.summary) < Rows(buttons.bid)[3][1]
    BY <2>1, <2>3, <2>4, SidePrices DEF bid
  <2>7. /\ PriceIn(ask.summary, buttons.ask, Columns(buttons.ask), Rows(buttons.ask)[1],
                   Cells!SummaryPrice(Groups(buttons.ask, 1), buttons.ask, profile))
        /\ PriceIn(ask.first, buttons.ask, Columns(buttons.ask), Rows(buttons.ask)[3],
                   Last(Groups(buttons.ask, 3)))
        /\ Cells!Bottom(ask.summary) < Rows(buttons.ask)[3][1]
    BY <2>1, <2>3, <2>4, SidePrices DEF ask
  <2> QED
    BY <2>3, <2>5, <2>6, <2>7 DEF FourPrices, buttons, profile
<1> QED
  BY DetectedInvariant, <1>1, PTL

(* Of any screenshot, the cell of the title holds nothing else of its row, *)
(* and nothing of it in part (_detect_item_title_roi).                     *)
THEOREM TitleAloneAlways == Spec => []TitleAlone
<1>1. ASSUME DetectedInv
      PROVE  TitleAlone
  <2> SUFFICES ASSUME phase = "detected", title # None
               PROVE  TitleAlone
    BY DEF TitleAlone
  <2> DEFINE wider   == call.recognizer.title # "v2"
             buttons == Cells!ActionButtons(screen, "v4")
             b       == buttons.bid
             columns == Cells!TitleColumns(screen, b)
             rows    == Cells!TitleRows(screen, b)
             bands   == Cells!TitleBands(screen, b, columns, rows)
             band    == Cells!Nearest(bands, b)
  <2>1. screen \in Screens /\ title = Cells!TitleCell(screen, wider)
    BY <1>1 DEF DetectedInv
  <2> HIDE DEF wider
  <2>2. buttons # None /\ title = Cells!TitleAbove(screen, wider, b)
    BY <2>1 DEF Cells!TitleCell
  <2>3. Button(b)
    BY <2>1, <2>2, ButtonsAre
  <2> HIDE DEF b
  <2>4. title = Cells!TitleNearest(screen, wider, b, columns, bands)
    BY <2>2 DEF Cells!TitleAbove
  <2>5. /\ columns[1] \in Nat /\ columns[2] \in Int /\ columns[2] <= screen.width
        /\ Ordered(bands, 1)
        /\ \A k \in DOMAIN bands : bands[k][2] <= screen.height
    BY <2>1, <2>3, TitleBandsFound
  <2> HIDE DEF columns, rows, bands
  <2>6. Len(bands) # 0 /\ title = Cells!TitleInBand(screen, wider, b, columns, band)
    BY <2>4 DEF Cells!TitleNearest
  <2>7. band \in Cells!ToSet(bands)
    BY <2>3, <2>5, <2>6, NearestIsBand
  <2> HIDE DEF band
  <2>8. /\ band[1] \in Nat /\ band[2] \in Nat /\ band[1] < band[2]
        /\ band[2] <= screen.height
    BY <2>5, <2>7 DEF Ordered, Cells!ToSet
  <2>9. LET groups == Cells!TitleGroups(screen, b, columns, band)
            span   == <<groups[3][1], groups[Len(groups) - 1][2]>>
        IN  /\ CutOut(title, span, band)
            /\ \A t \in screen.text :
                 InRow(t, band, columns) => Within(t, span) \/ Beside(t, title)
    BY <2>1, <2>3, <2>5, <2>6, <2>8, TitleFound
  <2>10. band \in ToSet(bands)
    BY <2>7 DEF ToSet, Cells!ToSet
  <2> QED
    BY <2>9, <2>10 DEF TitleAlone, b, columns, rows, bands
<1> QED
  BY DetectedInvariant, <1>1, PTL
=============================================================================
