--------------------------- MODULE RecipientsProofs ---------------------------
(***************************************************************************)
(* Proofs about Recipients, for every set of addresses and every list, of  *)
(* any length: what the loop computes, and that the loop of the server     *)
(* takes over what the loop of the browser has announced.                  *)
(***************************************************************************)
EXTENDS Recipients, SequenceTheorems, FiniteSetTheorems, TLAPS

\* Browser and server normalize alike, and the result is a value.
LEMMA NormalizeType ==
  ASSUME NEW v \in Value
  PROVE  /\ Normalize(v) = NormalizeEmailAddress(v)
         /\ Normalize(v) \in Value
         /\ Normalize(v).address = v.address
         /\ ~Normalize(v).upper /\ ~Normalize(v).angle
         /\ ~v.upper /\ ~v.angle /\ ~v.mailto => Normalize(v) = v
<1>1. Normalize(v) = NormalizeEmailAddress(v)
  BY DEF Normalize, BrowserNormalize
<1>2. v \in [address : Addresses \cup {Junk}, upper : BOOLEAN, angle : BOOLEAN, mailto : BOOLEAN]
  BY DEF Value
<1> QED
  BY <1>1, <1>2 DEF NormalizeEmailAddress, Value

LEMMA CurrentType == ASSUME TypeOK, i < Len(values) PROVE Current \in Value /\ i + 1 \in 1..Len(values)
BY DEF TypeOK, Current

-----------------------------------------------------------------------------
(* Types and statistics *)

LEMMA InitType == Init => TypeOK
<1> SUFFICES ASSUME Init PROVE TypeOK
  OBVIOUS
<1>1. PICK n \in 0..MaxValues : values \in [1..n -> Value]
  BY DEF Init
<1>2. n \in Nat
  BY <1>1, RecipientsAssumption
<1>3. values \in Seq(Value) /\ Len(values) \in Nat
  BY <1>1, <1>2
<1>4. recipients = <<>> /\ i = 0 /\ invalid = 0 /\ duplicateCount = 0 /\ announced = 0
      /\ seen = {} /\ stage = "browser"
  BY DEF Init
<1> QED
  BY <1>3, <1>4 DEF TypeOK

LEMMA TypeStep == TypeOK /\ [Next]_vars => TypeOK'
<1> SUFFICES ASSUME TypeOK, [Next]_vars PROVE TypeOK'
  OBVIOUS
<1>1. CASE Turn
  <2>1. Current \in Value /\ i \in 0..Len(values) /\ i < Len(values) /\ Len(values) \in Nat
    BY <1>1, CurrentType DEF Turn, TypeOK
  <2>2. Normalize(Current) \in Value /\ Remembered(Current) \in Value
    BY <2>1, NormalizeType DEF Remembered
  <2>3. i' = i + 1 /\ UNCHANGED <<stage, values, announced>>
    BY <1>1 DEF Turn
  <2>4. CASE invalid' = invalid + 1 /\ UNCHANGED <<seen, recipients, duplicateCount>>
    BY <2>1, <2>3, <2>4 DEF TypeOK
  <2>5. CASE duplicateCount' = duplicateCount + 1 /\ UNCHANGED <<seen, recipients, invalid>>
    BY <2>1, <2>3, <2>5 DEF TypeOK
  <2>6. CASE /\ seen' = seen \cup {Remembered(Current)}
             /\ recipients' = Append(recipients, Normalize(Current))
             /\ UNCHANGED <<invalid, duplicateCount>>
    <3>1. recipients' \in Seq(Value) /\ Len(recipients') = Len(recipients) + 1
      BY <2>2, <2>6 DEF TypeOK
    <3> QED
      BY <2>1, <2>2, <2>3, <2>6, <3>1 DEF TypeOK
  <2> QED
    BY <1>1, <2>4, <2>5, <2>6 DEF Turn
<1>2. CASE Submit
  <2>1. /\ recipients' = <<>> /\ values' = recipients /\ i' = 0 /\ seen' = {}
        /\ invalid' = 0 /\ duplicateCount' = 0
        /\ announced' = Len(recipients) /\ stage' = "server"
    BY <1>2 DEF Submit, FreshCount
  <2>2. Len(recipients) \in Nat
    BY DEF TypeOK
  <2> QED
    BY <2>1, <2>2 DEF TypeOK
<1>3. CASE Create
  BY <1>3 DEF Create, TypeOK
<1>4. CASE UNCHANGED vars
  BY <1>4 DEF vars, TypeOK
<1> QED
  BY <1>1, <1>2, <1>3, <1>4 DEF Next

\* Every value of either list is counted once.
THEOREM TypeCorrect == Spec => []TypeOK
BY InitType, TypeStep, PTL DEF Spec

-----------------------------------------------------------------------------
(***************************************************************************)
(* The order.  The loop remembers every address it has seen, so what it    *)
(* appends is the first place of an address, and the place of an address   *)
(* in the result is its rank among the first places.                       *)
(***************************************************************************)
Firsts == {n \in 1..i : FirstAt(n)}

Rank(n) == Cardinality({m \in Firsts : m <= n})

SeenIsPast ==
  \A x : x \in seen <=> \E m \in 1..i : IsAddress(values[m]) /\ Normalize(values[m]) = x

Ranked ==
  /\ Len(recipients) = Cardinality(Firsts)
  /\ \A n \in Firsts : /\ Rank(n) \in 1..Len(recipients)
                       /\ recipients[Rank(n)] = Normalize(values[n])

OrderInv == stage # "created" => SeenIsPast /\ Ranked

LEMMA FirstsFinite == ASSUME TypeOK PROVE IsFiniteSet(Firsts) /\ Cardinality(Firsts) \in Nat
<1>1. IsFiniteSet(1..i)
  BY FS_Interval DEF TypeOK
<1>2. Firsts \in SUBSET (1..i)
  BY DEF Firsts
<1> QED
  BY <1>1, <1>2, FS_Subset, FS_CardinalityType

LEMMA OrderStep == TypeOK /\ OrderInv /\ [Next]_vars => OrderInv'
<1> SUFFICES ASSUME TypeOK, OrderInv, [Next]_vars PROVE OrderInv'
  OBVIOUS
<1>1. CASE Turn
  <2>0. PICK j, v : j = i + 1 /\ v = Current
    OBVIOUS
  <2>1. /\ stage' = stage /\ values' = values /\ i' = j
        /\ v \in Value /\ j \in 1..Len(values) /\ j \in Nat /\ i \in Nat /\ v = values[j]
        /\ stage # "created" /\ SeenIsPast /\ Ranked
    BY <1>1, <2>0, CurrentType DEF Turn, TypeOK, OrderInv, Current
  <2>2. \A w : Normalize(w)' = Normalize(w)
    BY <2>1 DEF Normalize, BrowserNormalize
  <2>3. \A n \in Nat : FirstAt(n)' <=> FirstAt(n)
    BY <2>1, <2>2 DEF FirstAt
  <2>4. FirstAt(j) <=> IsAddress(v) /\ Normalize(v) \notin seen
    <3>1. j - 1 = i
      BY <2>0, <2>1
    <3> QED
      BY <2>1, <3>1 DEF FirstAt, SeenIsPast
  <2>5. Firsts' = IF FirstAt(j) THEN Firsts \cup {j} ELSE Firsts
    BY <2>0, <2>1, <2>3 DEF Firsts
  <2>6. SeenIsPast'
    <3>1. seen' = IF IsAddress(v) THEN seen \cup {Normalize(v)} ELSE seen
      BY <1>1, <2>0 DEF Turn, CountInvalid, Remembered
    <3>2. \A m : m \in 1..j <=> m \in 1..i \/ m = j
      BY <2>0, <2>1
    <3> QED
      BY <2>1, <2>2, <3>1, <3>2 DEF SeenIsPast
  <2>7. CASE ~FirstAt(j)
    <3>1. recipients' = recipients /\ Firsts' = Firsts
      BY <1>1, <2>0, <2>4, <2>5, <2>7 DEF Turn, CountInvalid
    <3>2. \A n : Rank(n)' = Rank(n)
      BY <3>1 DEF Rank
    <3> QED
      BY <2>1, <2>2, <2>6, <3>1, <3>2 DEF OrderInv, Ranked
  <2>8. CASE FirstAt(j)
    <3>1. recipients' = Append(recipients, Normalize(v)) /\ Firsts' = Firsts \cup {j}
      BY <1>1, <2>0, <2>4, <2>5, <2>8 DEF Turn, CountInvalid
    <3>2. j \notin Firsts /\ \A n \in Firsts : n \in Nat /\ n < j
      BY <2>0, <2>1 DEF Firsts
    <3>3. \A n \in Firsts : Rank(n)' = Rank(n)
      <4> SUFFICES ASSUME NEW n \in Firsts PROVE Rank(n)' = Rank(n)
        OBVIOUS
      <4>1. {m \in Firsts \cup {j} : m <= n} = {m \in Firsts : m <= n}
        BY <2>1, <3>2
      <4> QED
        BY <3>1, <4>1 DEF Rank
    <3>4. IsFiniteSet(Firsts) /\ Cardinality(Firsts) \in Nat
      BY FirstsFinite
    <3>5. Cardinality(Firsts \cup {j}) = Cardinality(Firsts) + 1
      BY <3>2, <3>4, FS_AddElement
    <3>6. Rank(j)' = Cardinality(Firsts) + 1
      <4>1. {m \in Firsts \cup {j} : m <= j} = Firsts \cup {j}
        BY <2>1, <3>2
      <4> QED
        BY <3>1, <3>5, <4>1 DEF Rank
    <3>7. Len(recipients') = Cardinality(Firsts')
      BY <2>1, <3>1, <3>4, <3>5 DEF Ranked, TypeOK
    <3>8. ASSUME NEW n \in Firsts'
          PROVE Rank(n)' \in 1..Len(recipients') /\ recipients'[Rank(n)'] = Normalize(values[n])'
      <4>1. recipients \in Seq(Value) /\ Normalize(v) \in Value
        BY <2>1, NormalizeType DEF TypeOK
      <4>2. Normalize(values[n])' = Normalize(values[n])
        BY <2>1, <2>2
      <4>3. CASE n = j
        BY <2>1, <3>1, <3>4, <3>6, <4>1, <4>2, <4>3 DEF Ranked
      <4>4. CASE n \in Firsts
        <5>1. Rank(n) \in 1..Len(recipients) /\ recipients[Rank(n)] = Normalize(values[n])
          BY <2>1, <4>4 DEF Ranked
        <5>2. Rank(n)' = Rank(n)
          BY <3>3, <4>4
        <5> QED
          BY <3>1, <4>1, <4>2, <5>1, <5>2
      <4> QED
        BY <3>1, <4>3, <4>4
    <3> QED
      BY <2>6, <3>7, <3>8 DEF OrderInv, Ranked
  <2> QED
    BY <2>7, <2>8
<1>2. CASE Submit
  <2>1. recipients' = <<>> /\ i' = 0 /\ seen' = {}
    BY <1>2 DEF Submit
  <2>2. Firsts' = {}
    BY <2>1 DEF Firsts
  <2>3. Cardinality(Firsts') = 0
    BY <2>2, FS_EmptySet
  <2> QED
    BY <2>1, <2>2, <2>3 DEF OrderInv, SeenIsPast, Ranked
<1>3. CASE Create
  BY <1>3 DEF Create, OrderInv
<1>4. CASE UNCHANGED vars
  <2>1. /\ stage' = stage /\ values' = values /\ i' = i /\ seen' = seen
        /\ recipients' = recipients
    BY <1>4 DEF vars
  <2>2. \A w : Normalize(w)' = Normalize(w)
    BY <2>1 DEF Normalize, BrowserNormalize
  <2>3. Firsts' = Firsts
    BY <2>1, <2>2 DEF Firsts, FirstAt
  <2>4. \A n : Rank(n)' = Rank(n)
    BY <2>3 DEF Rank
  <2>5. SeenIsPast => SeenIsPast'
    BY <2>1, <2>2 DEF SeenIsPast
  <2>6. Ranked => Ranked'
    BY <2>1, <2>2, <2>3, <2>4 DEF Ranked
  <2> QED
    BY <2>1, <2>5, <2>6 DEF OrderInv
<1> QED
  BY <1>1, <1>2, <1>3, <1>4 DEF Next

LEMMA OrderInit == Init => OrderInv
<1> SUFFICES ASSUME Init PROVE OrderInv
  OBVIOUS
<1>1. i = 0 /\ seen = {} /\ recipients = <<>>
  BY DEF Init
<1>2. Firsts = {}
  BY <1>1 DEF Firsts
<1>3. Cardinality(Firsts) = 0
  BY <1>2, FS_EmptySet
<1> QED
  BY <1>1, <1>2, <1>3 DEF OrderInv, SeenIsPast, Ranked

LEMMA OrderAlways == Spec => []OrderInv
BY TypeCorrect, OrderInit, OrderStep, PTL DEF Spec

\* What either loop returns: the addresses of its input, normalized, each once,
\* in the order in which they first occur.
THEOREM OrderIsTheFiles == Spec => []InFileOrder
<1>1. OrderInv => InFileOrder
  BY DEF OrderInv, Ranked, Rank, Firsts, InFileOrder
<1> QED
  BY <1>1, OrderAlways, PTL

-----------------------------------------------------------------------------
(***************************************************************************)
(* Browser and server.  What the first loop returns is distinct and as     *)
(* normalizing leaves it; the second loop, given that, finds nothing to    *)
(* drop - unless a value still carries the "mailto:" of its brackets.      *)
(***************************************************************************)
Clean(s) == \A n \in 1..Len(s) : IsAddress(s[n]) /\ ~s[n].upper /\ ~s[n].angle

Distinct(s) == \A m, n \in 1..Len(s) : s[m] = s[n] => m = n

NoMailto(s) == \A n \in 1..Len(s) : ~s[n].mailto

ResultInv ==
  /\ Clean(recipients) /\ Distinct(recipients)
  /\ \A n \in 1..Len(recipients) : recipients[n] \in seen

ServerInv ==
  /\ stage # "browser" =>
       /\ announced = Len(values) /\ Clean(values) /\ Distinct(values)
       /\ NoMailto(values) => invalid = 0 /\ duplicateCount = 0
  /\ stage = "created" => i = Len(values)

\* The values a second loop is given are not seen twice.
LEMMA NothingToDrop ==
  ASSUME TypeOK, OrderInv, ServerInv, stage = "server", i < Len(values), NoMailto(values)
  PROVE  IsAddress(Current) /\ Normalize(Current) \notin seen
<1>1. Current \in Value /\ i + 1 \in 1..Len(values) /\ Current = values[i + 1]
  BY CurrentType DEF Current
<1>2. \A n \in 1..Len(values) :
        values[n] \in Value /\ IsAddress(values[n]) /\ Normalize(values[n]) = values[n]
  <2> SUFFICES ASSUME NEW n \in 1..Len(values)
               PROVE  values[n] \in Value /\ IsAddress(values[n]) /\ Normalize(values[n]) = values[n]
    OBVIOUS
  <2>1. values[n] \in Value
    BY DEF TypeOK
  <2>2. IsAddress(values[n]) /\ ~values[n].upper /\ ~values[n].angle /\ ~values[n].mailto
    BY DEF ServerInv, Clean, NoMailto
  <2> QED
    BY <2>1, <2>2, NormalizeType
<1>3. ASSUME Normalize(Current) \in seen PROVE FALSE
  <2>1. PICK m \in 1..i : Normalize(values[m]) = Normalize(Current)
    BY <1>3 DEF OrderInv, SeenIsPast
  <2>2. m \in 1..Len(values) /\ m # i + 1
    BY <2>1 DEF TypeOK
  <2>3. values[m] = values[i + 1]
    BY <1>1, <1>2, <2>1, <2>2
  <2> QED
    BY <1>1, <2>2, <2>3 DEF ServerInv, Distinct
<1> QED
  BY <1>1, <1>2, <1>3

LEMMA ResultStep == TypeOK /\ ResultInv /\ [Next]_vars => ResultInv'
<1> SUFFICES ASSUME TypeOK, ResultInv, [Next]_vars PROVE ResultInv'
  OBVIOUS
<1>1. ASSUME Turn, recipients' # recipients PROVE ResultInv'
  <2>1. PICK x : x = Normalize(Current)
    OBVIOUS
  <2>2. /\ IsAddress(Current) /\ x \notin seen
        /\ recipients' = Append(recipients, x) /\ seen' = seen \cup {x}
    BY <1>1, <2>1 DEF Turn, CountInvalid, Remembered
  <2>3. x \in Value /\ IsAddress(x) /\ ~x.upper /\ ~x.angle
    BY <1>1, <2>1, <2>2, CurrentType, NormalizeType DEF Turn, IsAddress
  <2>4. /\ recipients \in Seq(Value) /\ Len(recipients) \in Nat
        /\ Len(recipients') = Len(recipients) + 1
        /\ recipients'[Len(recipients) + 1] = x
        /\ \A n \in 1..Len(recipients) : recipients'[n] = recipients[n]
    BY <2>2, <2>3 DEF TypeOK
  <2>5. \A n \in 1..Len(recipients') : n \in 1..Len(recipients) \/ n = Len(recipients) + 1
    BY <2>4
  <2>6. Clean(recipients')
    BY <2>3, <2>4, <2>5 DEF ResultInv, Clean
  <2>7. Distinct(recipients')
    BY <2>2, <2>4, <2>5 DEF ResultInv, Distinct
  <2>8. \A n \in 1..Len(recipients') : recipients'[n] \in seen'
    BY <2>2, <2>4, <2>5 DEF ResultInv
  <2> QED
    BY <2>6, <2>7, <2>8 DEF ResultInv, Clean, Distinct, IsAddress
<1>2. ASSUME Turn, recipients' = recipients PROVE ResultInv'
  <2>1. seen \subseteq seen'
    BY <1>2 DEF Turn
  <2> QED
    BY <1>2, <2>1 DEF ResultInv, Clean, Distinct, IsAddress
<1>3. CASE Submit
  <2>1. recipients' = <<>>
    BY <1>3 DEF Submit
  <2> QED
    BY <2>1 DEF ResultInv, Clean, Distinct
<1>4. CASE Create
  BY <1>4 DEF Create, ResultInv, Clean, Distinct, IsAddress
<1>5. CASE UNCHANGED vars
  BY <1>5 DEF vars, ResultInv, Clean, Distinct, IsAddress
<1> QED
  BY <1>1, <1>2, <1>3, <1>4, <1>5 DEF Next

LEMMA ServerStep == TypeOK /\ OrderInv /\ ResultInv /\ ServerInv /\ [Next]_vars => ServerInv'
<1> SUFFICES ASSUME TypeOK, OrderInv, ResultInv, ServerInv, [Next]_vars PROVE ServerInv'
  OBVIOUS
<1>1. CASE Turn
  <2>1. /\ values' = values /\ announced' = announced /\ stage' = stage
        /\ stage \in {"browser", "server"} /\ i < Len(values)
    BY <1>1 DEF Turn
  <2>2. Clean(values)' = Clean(values) /\ Distinct(values)' = Distinct(values)
        /\ NoMailto(values)' = NoMailto(values)
    BY <2>1 DEF Clean, Distinct, NoMailto, IsAddress
  <2>3. ASSUME stage = "server", NoMailto(values)
        PROVE  invalid' = invalid /\ duplicateCount' = duplicateCount
    BY <1>1, <2>1, <2>3, NothingToDrop DEF Turn, CountInvalid
  <2> QED
    BY <2>1, <2>2, <2>3 DEF ServerInv
<1>2. CASE Submit
  <2>1. /\ values' = recipients /\ stage' = "server" /\ announced' = Len(recipients)
        /\ invalid' = 0 /\ duplicateCount' = 0
    BY <1>2 DEF Submit, FreshCount
  <2>2. Clean(values') /\ Distinct(values')
    BY <2>1 DEF ResultInv
  <2> QED
    BY <2>1, <2>2 DEF ServerInv, Clean, Distinct, IsAddress
<1>3. CASE Create
  BY <1>3 DEF Create, ServerInv, Clean, Distinct, NoMailto, IsAddress
<1>4. CASE UNCHANGED vars
  BY <1>4 DEF vars, ServerInv, Clean, Distinct, NoMailto, IsAddress
<1> QED
  BY <1>1, <1>2, <1>3, <1>4 DEF Next

\* As many emails are scheduled as the browser announced, whatever the file.
THEOREM AnnouncedAreScheduled == Spec => []AnnouncedIsScheduled
<1>1. Init => ResultInv /\ ServerInv
  BY DEF Init, ResultInv, ServerInv, Clean, Distinct
<1>2. TypeOK /\ ServerInv => AnnouncedIsScheduled
  BY DEF TypeOK, ServerInv, NoMailto, AnnouncedIsScheduled
<1> QED
  BY <1>1, <1>2, TypeCorrect, OrderAlways, ResultStep, ServerStep, PTL DEF Spec
=============================================================================
