---------------------------- MODULE CommonLemmas ----------------------------
(***************************************************************************)
(* Facts that several proofs need: least elements, which take the place of *)
(* induction, bags of requests and loops.                                  *)
(***************************************************************************)
EXTENDS RequestBags, FiniteSets, FiniteSetsExt, FiniteSetTheorems, TLAPS

-----------------------------------------------------------------------------
(* Sets of numbers and bags.                                               *)

\* A nonempty set of numbers has a least element.
LEMMA LessWellFounded == IsWellFoundedOn({p \in Nat \X Nat : p[1] < p[2]}, Nat)
  BY NatLessThanWellFounded, Zenon DEF OpToRel

LEMMA NatLeast ==
  ASSUME NEW T, T \subseteq Nat, T # {}
  PROVE  \E m \in T : \A y \in T : m <= y
<1> DEFINE R == {p \in Nat \X Nat : p[1] < p[2]}
<1>1. PICK m \in T : \A y \in T : ~(<<y, m>> \in R)
  <2>1. IsWellFoundedOn(R, Nat)
    BY LessWellFounded
  <2> HIDE DEF R
  <2> QED
    BY <2>1, WFMin, Zenon
<1>2. \A y \in T : ~(y < m)
  <2> TAKE y \in T
  <2>1. ~(<<y, m>> \in R)
    BY <1>1
  <2> QED
    BY <2>1
<1> QED
  BY <1>2

\* Min of a nonempty set of numbers from -1 on is its least element.
LEMMA MinLeast ==
  ASSUME NEW S \in SUBSET Int, S # {}, \A x \in S : x >= -1
  PROVE  Min(S) \in S /\ \A y \in S : Min(S) <= y
<1>1. {x + 1 : x \in S} \subseteq Nat
  OBVIOUS
<1>2. {x + 1 : x \in S} # {}
  OBVIOUS
<1>3. PICK m \in {x + 1 : x \in S} : \A y \in {x + 1 : x \in S} : m <= y
  BY <1>1, <1>2, NatLeast
<1>4. PICK x \in S : m = x + 1
  BY <1>3
<1>5. \A y \in S : x <= y
  <2> TAKE y \in S
  <2>1. y + 1 \in {z + 1 : z \in S}
    OBVIOUS
  <2>2. m <= y + 1
    BY <1>3, <2>1
  <2> QED
    BY <1>4, <2>2
<1> QED
  BY <1>5 DEF Min

\* Adding a request to the ones in flight, and taking one away.
LEMMA BagAddProps ==
  ASSUME NEW B, IsABag(B), NEW r, NEW C, C = B (+) SetToBag({r})
  PROVE  /\ IsABag(C) /\ BagToSet(C) = BagToSet(B) \cup {r}
         /\ \A e \in BagToSet(B) : e # r => C[e] = B[e]
         /\ C[r] = IF r \in BagToSet(B) THEN B[r] + 1 ELSE 1
  BY DEF IsABag, BagToSet, SetToBag, (+)

LEMMA BagTaken ==
  ASSUME NEW B, IsABag(B), NEW r, NEW C, C = B (-) SetToBag({r})
  PROVE  IsABag(C) /\ BagToSet(C) \subseteq BagToSet(B)
  BY DEF IsABag, BagToSet, SetToBag, (-)

LEMMA BagRemoveProps ==
  ASSUME NEW B, IsABag(B), NEW r \in BagToSet(B), NEW C, C = B (-) SetToBag({r})
  PROVE  /\ \A e \in BagToSet(B) : e # r => e \in BagToSet(C) /\ C[e] = B[e]
         /\ IF B[r] = 1 THEN r \notin BagToSet(C) ELSE r \in BagToSet(C) /\ C[r] = B[r] - 1
  BY DEF IsABag, BagToSet, SetToBag, (-)

-----------------------------------------------------------------------------
(* Copies of requests.                                                     *)

LEMMA CopiesOf ==
  ASSUME NEW B, IsABag(B), NEW w
  PROVE  w \in Copies(B) <=> \E r \in BagToSet(B) : \E m \in 1 .. B[r] : w = <<r, m>>
  BY DEF Copies

LEMMA CopiesAdd ==
  ASSUME NEW B, IsABag(B), NEW r, NEW C, C = B (+) SetToBag({r})
  PROVE  /\ Copies(C) = Copies(B) \cup {<<r, C[r]>>}
         /\ <<r, C[r]>> \notin Copies(B)
<1>1. /\ IsABag(C) /\ BagToSet(C) = BagToSet(B) \cup {r}
      /\ \A e \in BagToSet(B) : e # r => C[e] = B[e]
      /\ C[r] = IF r \in BagToSet(B) THEN B[r] + 1 ELSE 1
  BY BagAddProps
<1>2. \A e \in BagToSet(B) : B[e] \in Nat /\ B[e] > 0
  BY DEF IsABag, BagToSet
<1>3. ASSUME NEW w \in Copies(C)
      PROVE  w \in Copies(B) \cup {<<r, C[r]>>}
  <2>1. PICK e \in BagToSet(C) : \E m \in 1 .. C[e] : w = <<e, m>>
    BY <1>1, <1>3, CopiesOf
  <2>m. PICK m \in 1 .. C[e] : w = <<e, m>>
    BY <2>1
  <2>2. CASE e = r /\ m = C[r]
    BY <2>m, <2>2
  <2>3. CASE e # r
    <3>1. e \in BagToSet(B) /\ C[e] = B[e]
      BY <1>1, <2>3
    <3> QED
      BY <2>m, <3>1, CopiesOf
  <2>4. CASE e = r /\ m # C[r]
    <3>1. r \in BagToSet(B) /\ m \in 1 .. B[r]
      BY <1>1, <1>2, <2>4
    <3> QED
      BY <2>m, <2>4, <3>1, CopiesOf
  <2> QED
    BY <2>2, <2>3, <2>4
<1>4. ASSUME NEW w \in Copies(B)
      PROVE  w \in Copies(C) /\ w # <<r, C[r]>>
  <2>1. PICK e \in BagToSet(B) : \E m \in 1 .. B[e] : w = <<e, m>>
    BY <1>4, CopiesOf
  <2>m. PICK m \in 1 .. B[e] : w = <<e, m>>
    BY <2>1
  <2>2. e \in BagToSet(C) /\ m \in 1 .. C[e] /\ (e = r => m # C[r])
    <3>1. CASE e = r
      <4>1. C[e] = B[e] + 1 /\ B[e] \in Nat
        BY <1>1, <1>2, <3>1
      <4> QED
        BY <1>1, <3>1, <4>1
    <3>2. CASE e # r
      BY <1>1, <3>2
    <3> QED
      BY <3>1, <3>2
  <2> QED
    BY <1>1, <2>m, <2>2, CopiesOf
<1>5. <<r, C[r]>> \in Copies(C)
  <2>1. r \in BagToSet(C) /\ C[r] \in 1 .. C[r]
    BY <1>1, <1>2
  <2> QED
    BY <1>1, <2>1, CopiesOf
<1> QED
  BY <1>3, <1>4, <1>5

LEMMA CopiesTaken ==
  ASSUME NEW B, IsABag(B), NEW r \in BagToSet(B), NEW C, C = B (-) SetToBag({r})
  PROVE  Copies(C) = Copies(B) \ {<<r, B[r]>>} /\ <<r, B[r]>> \in Copies(B)
<1>1. IsABag(C) /\ BagToSet(C) \subseteq BagToSet(B)
  BY BagTaken
<1>2. /\ \A e \in BagToSet(B) : e # r => e \in BagToSet(C) /\ C[e] = B[e]
      /\ IF B[r] = 1 THEN r \notin BagToSet(C) ELSE r \in BagToSet(C) /\ C[r] = B[r] - 1
  BY BagRemoveProps
<1>3. \A e \in BagToSet(B) : B[e] \in Nat /\ B[e] > 0
  BY DEF IsABag, BagToSet
<1>4. ASSUME NEW w \in Copies(C)
      PROVE  w \in Copies(B) /\ w # <<r, B[r]>>
  <2>1. PICK e \in BagToSet(C) : \E m \in 1 .. C[e] : w = <<e, m>>
    BY <1>4 DEF Copies
  <2>m. PICK m \in 1 .. C[e] : w = <<e, m>>
    BY <2>1
  <2>2. e \in BagToSet(B) /\ m \in 1 .. B[e] /\ (e = r => m # B[r])
    <3>1. CASE e = r
      <4>1. C[e] = B[e] - 1 /\ B[e] \in Nat
        BY <1>2, <1>3, <3>1
      <4> QED
        BY <1>1, <3>1, <4>1
    <3>2. CASE e # r
      BY <1>1, <1>2, <3>2
    <3> QED
      BY <3>1, <3>2
  <2> QED
    BY <2>m, <2>2, CopiesOf
<1>5. ASSUME NEW w \in Copies(B), w # <<r, B[r]>>
      PROVE  w \in Copies(C)
  <2>1. PICK e \in BagToSet(B) : \E m \in 1 .. B[e] : w = <<e, m>>
    BY <1>5, CopiesOf
  <2>m. PICK m \in 1 .. B[e] : w = <<e, m>>
    BY <2>1
  <2>2. e = r => m # B[r]
    BY <1>5, <2>m
  <2>3. e \in BagToSet(C) /\ m \in 1 .. C[e]
    BY <1>2, <1>3, <2>2
  <2> QED
    BY <1>1, <2>m, <2>3, CopiesOf
<1>6. <<r, B[r]>> \in Copies(B)
  <2>1. B[r] \in 1 .. B[r]
    BY <1>3
  <2> QED
    BY <2>1, CopiesOf
<1> QED
  BY <1>4, <1>5, <1>6

-----------------------------------------------------------------------------
(* Loops.                                                                  *)

\* What holds of the first of some numbered things, and of each one after one of which it
\* holds, holds of all.
LEMMA AlwaysIn ==
  ASSUME NEW S, NEW N \in Nat, NEW h, h[0] \in S,
         \A m \in 0 .. N - 1 : h[m] \in S => h[m + 1] \in S
  PROVE  \A m \in 0 .. N : h[m] \in S
<1> DEFINE T == {m \in 0 .. N : h[m] \notin S}
<1> SUFFICES ASSUME T # {} PROVE FALSE
  OBVIOUS
<1>1. T \subseteq Nat
  OBVIOUS
<1>2. PICK m \in T : \A y \in T : m <= y
  <2> HIDE DEF T
  <2> QED
    BY <1>1, NatLeast
<1>3. m \in 0 .. N /\ h[m] \notin S /\ m # 0
  BY <1>2
<1>4. m - 1 \notin T
  <2> HIDE DEF T
  <2> QED
    BY <1>2, <1>3
<1>5. h[m - 1] \in S
  BY <1>3, <1>4
<1>6. h[(m - 1) + 1] \in S
  BY <1>3, <1>5
<1> QED
  BY <1>3, <1>6

=============================================================================
