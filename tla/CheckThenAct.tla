---------------------------- MODULE CheckThenAct ----------------------------
(***************************************************************************)
(* What a check guarantees when the action it guards comes later.          *)
(*                                                                         *)
(* submit and join_team count rows in one statement and insert one in a    *)
(* later statement, so the count may be out of date.  The rows written     *)
(* plus the slots let through and not yet done still stay within the limit *)
(* plus the number of slots: letting one through happens below the limit,  *)
(* where at most all slots are through, and writing a row moves a slot     *)
(* from one side of the sum to the other.                                  *)
(***************************************************************************)
EXTENDS Integers, FiniteSets, TLAPS, FiniteSetTheorems

\* A part of a finite set is finite and no larger.
LEMMA SubsetCardinality ==
    ASSUME NEW T, IsFiniteSet(T), NEW S \in SUBSET T
    PROVE  /\ IsFiniteSet(S)
           /\ Cardinality(S) \in Nat /\ Cardinality(T) \in Nat
           /\ Cardinality(S) <= Cardinality(T)
BY FS_Subset, FS_CardinalityType

\* The move at the heart of the bound: a slot leaves S, a row joins T.
LEMMA MoveBetween ==
    ASSUME NEW S, IsFiniteSet(S), NEW T, IsFiniteSet(T), NEW s \in S, NEW r,
           NEW S2 \in SUBSET (S \ {s}), NEW T2 \in SUBSET (T \cup {r})
    PROVE  Cardinality(T2) + Cardinality(S2) <= Cardinality(T) + Cardinality(S)
<1>1. /\ IsFiniteSet(S \ {s})
      /\ Cardinality(S \ {s}) = Cardinality(S) - 1
    BY FS_RemoveElement
<1>2. /\ IsFiniteSet(T \cup {r})
      /\ Cardinality(T \cup {r}) <= Cardinality(T) + 1
  <2>1. Cardinality(T) \in Nat
      BY FS_CardinalityType
  <2>2. /\ IsFiniteSet(T \cup {r})
        /\ Cardinality(T \cup {r}) = IF r \in T THEN Cardinality(T) ELSE Cardinality(T) + 1
      BY FS_AddElement, Zenon
  <2> QED
      BY <2>1, <2>2
<1>3. Cardinality(S2) <= Cardinality(S) - 1 /\ Cardinality(S2) \in Nat
    BY <1>1, SubsetCardinality
<1>4. Cardinality(T2) <= Cardinality(T) + 1 /\ Cardinality(T2) \in Nat
    BY <1>2, SubsetCardinality, FS_CardinalityType
<1> QED
    BY <1>3, <1>4, FS_CardinalityType

\* One step keeps the sum within B + the number of slots.  T are the rows counted,
\* S the slots let through and not yet done; B is the largest T at which the check
\* lets a slot through.
LEMMA BoundKept ==
    ASSUME NEW Slots, IsFiniteSet(Slots), NEW B \in Nat,
           NEW T, IsFiniteSet(T), NEW T2, T \subseteq T2,
           NEW S \in SUBSET Slots, NEW S2 \in SUBSET Slots,
           Cardinality(T) + Cardinality(S) <= B + Cardinality(Slots),
           \A s \in S2 \ S : T2 = T /\ Cardinality(T) <= B,
           \A r \in T2 \ T : \E s \in S \ S2 : T2 \subseteq T \cup {r}
    PROVE  Cardinality(T2) + Cardinality(S2) <= B + Cardinality(Slots)
<1>1. /\ Cardinality(T) \in Nat /\ Cardinality(Slots) \in Nat
      /\ Cardinality(S) \in Nat /\ Cardinality(S2) \in Nat
      /\ IsFiniteSet(S) /\ Cardinality(S2) <= Cardinality(Slots)
    BY SubsetCardinality
<1>2. CASE T2 = T /\ S2 \subseteq S
  <2>1. Cardinality(S2) <= Cardinality(S)
      BY <1>1, <1>2, SubsetCardinality
  <2> QED
      BY <1>1, <1>2, <2>1
<1>3. CASE ~(S2 \subseteq S)
  <2>1. T2 = T /\ Cardinality(T) <= B
      BY <1>3
  <2> QED
      BY <1>1, <2>1
<1>4. CASE T2 # T /\ S2 \subseteq S
  <2>1. PICK r \in T2 : r \notin T
      BY <1>4
  <2>2. PICK s \in S : S2 \subseteq S \ {s} /\ T2 \subseteq T \cup {r}
      BY <1>4, <2>1
  <2>3. Cardinality(T2) + Cardinality(S2) <= Cardinality(T) + Cardinality(S)
      BY <1>1, <2>2, MoveBetween
  <2>4. Cardinality(T2) \in Nat
      BY <2>2, FS_AddElement, FS_Subset, FS_CardinalityType
  <2> QED
      BY <1>1, <2>3, <2>4
<1> QED
    BY <1>2, <1>3, <1>4
=============================================================================
