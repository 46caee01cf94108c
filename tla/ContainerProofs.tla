--------------------------- MODULE ContainerProofs ---------------------------
(***************************************************************************)
(* What erase-remove leaves of a vector, for every vector.  The library's  *)
(* induction theorems take the predicate as a parameter; here induction is *)
(* over a set of numbers, from the well-foundedness of < on Nat.           *)
(***************************************************************************)
EXTENDS Containers, TLAPS, WellFoundedInduction, SequenceTheorems

\* Induction over Nat for a set: no least number is missing from it.
LEMMA NatSetInduction ==
  ASSUME NEW T, 0 \in T, \A n \in Nat : n \in T => n + 1 \in T
  PROVE  Nat \subseteq T
<1>1. SUFFICES ASSUME NEW x \in Nat, x \notin T PROVE FALSE
  OBVIOUS
<1> DEFINE U == {n \in Nat : n \notin T}
<1>2. PICK m \in U : \A y \in U : ~ (<<y, m>> \in OpToRel(<, Nat))
  <2>1. U \subseteq Nat /\ U # {}
    BY <1>1
  <2> QED BY <2>1, WFMin, NatLessThanWellFounded
<1>3. \A y \in U : ~ (y < m)
  BY <1>2 DEF OpToRel
<1>4. m # 0 
  OBVIOUS
<1>5. m - 1 \in Nat /\ m - 1 < m /\ (m - 1) + 1 = m
  BY <1>4
<1>6. m - 1 \in T
  BY <1>3, <1>5
<1> QED BY <1>5, <1>6


\* f[n] is what is kept of the first n elements of s.
IsKept(f, s, x, m) ==
    f = [n \in 0 .. m |-> IF n = 0 THEN << >>
                          ELSE IF s[n] = x THEN f[n - 1]
                          ELSE Append(f[n - 1], s[n])]

\* The recursive definition in EraseRemove has a solution.
LEMMA KeptExists ==
  ASSUME NEW s, NEW x, NEW m \in Nat
  PROVE  \E f : IsKept(f, s, x, m)
<1> DEFINE Step(f, n) == IF n = 0 THEN << >>
                         ELSE IF s[n] = x THEN f[n - 1]
                         ELSE Append(f[n - 1], s[n])
           T == {i \in Nat : \E f : f = [n \in 0 .. i |-> Step(f, n)]}
<1>1. 0 \in T
  <2> DEFINE f == [n \in 0 .. 0 |-> << >>]
  <2>1. f = [n \in 0 .. 0 |-> Step(f, n)]
    OBVIOUS
  <2> HIDE DEF f, Step
  <2> QED BY <2>1
<1>2. ASSUME NEW i \in Nat, i \in T PROVE i + 1 \in T
  <2>1. PICK f : f = [n \in 0 .. i |-> Step(f, n)]
    BY <1>2
  <2> DEFINE g == [n \in 0 .. i + 1 |-> IF n <= i THEN f[n] ELSE Step(f, n)]
  <2>2. ASSUME NEW n \in 0 .. i + 1 PROVE g[n] = Step(g, n)
    <3>1. CASE n <= i
      <4>1. g[n] = Step(f, n)
        <5>1. g[n] = f[n] /\ n \in 0 .. i
          BY <3>1
        <5> HIDE DEF g, Step
        <5> QED BY <5>1, <2>1
      <4>2. n # 0 => n - 1 \in 0 .. i + 1 /\ n - 1 <= i /\ g[n - 1] = f[n - 1]
        BY <3>1
      <4> HIDE DEF g
      <4> QED BY <4>1, <4>2
    <3>2. CASE n = i + 1
      <4>1. g[n] = Step(f, n) /\ n # 0
        BY <3>2
      <4>2. n - 1 \in 0 .. i + 1 /\ n - 1 <= i /\ g[n - 1] = f[n - 1]
        BY <3>2
      <4> HIDE DEF g
      <4> QED BY <4>1, <4>2
    <3> QED BY <3>1, <3>2
  <2>3. g = [n \in 0 .. i + 1 |-> Step(g, n)]
    <3>1. g = [n \in 0 .. i + 1 |-> g[n]]
      OBVIOUS
    <3> HIDE DEF g, Step
    <3> QED BY <3>1, <2>2
  <2> HIDE DEF g, Step
  <2> QED BY <2>3
<1>3. m \in T
  <2> HIDE DEF T
  <2> QED BY <1>1, <1>2, NatSetInduction
<1> QED BY <1>3 DEF IsKept

\* EraseRemove is the last of the prefixes' results.
LEMMA EraseRemoveUnfold ==
  ASSUME NEW S, NEW s \in Seq(S), NEW x
  PROVE  \E kept :
           /\ EraseRemove(s, x) = kept[Len(s)]
           /\ kept[0] = << >>
           /\ \A n \in 1 .. Len(s) :
                 kept[n] = IF s[n] = x THEN kept[n - 1]
                                       ELSE Append(kept[n - 1], s[n])
<1> DEFINE kept == CHOOSE f : IsKept(f, s, x, Len(s))
<1>1. Len(s) \in Nat
  OBVIOUS
<1>2. IsKept(kept, s, x, Len(s))
  BY <1>1, KeptExists
<1>3. kept = [n \in 0 .. Len(s) |-> IF n = 0 THEN << >>
                          ELSE IF s[n] = x THEN kept[n - 1]
                          ELSE Append(kept[n - 1], s[n])]
  BY <1>2 DEF IsKept
<1>4. EraseRemove(s, x) = kept[Len(s)]
  BY DEF EraseRemove, IsKept
<1> HIDE DEF kept
<1>5. kept[0] = << >>
  BY <1>1, <1>3
<1>6. ASSUME NEW n \in 1 .. Len(s)
      PROVE  kept[n] = IF s[n] = x THEN kept[n - 1]
                                   ELSE Append(kept[n - 1], s[n])
  <2>1. n \in 0 .. Len(s) /\ n # 0
    BY <1>1
  <2> QED BY <2>1, <1>3
<1> QED BY <1>4, <1>5, <1>6

\* Erase-remove drops exactly the occurrences of x: what is left is a vector
\* of the other elements, no longer than before and without new duplicates.
LEMMA EraseRemoveProperties ==
  ASSUME NEW S, NEW s \in Seq(S), NEW x
  PROVE  /\ EraseRemove(s, x) \in Seq(S)
         /\ Len(EraseRemove(s, x)) <= Len(s)
         /\ Range(EraseRemove(s, x)) = Range(s) \ {x}
         /\ IsInjective(s) => IsInjective(EraseRemove(s, x))
<1>1. Len(s) \in Nat /\ DOMAIN s = 1 .. Len(s)
  OBVIOUS
<1>2. PICK kept :
         /\ EraseRemove(s, x) = kept[Len(s)]
         /\ kept[0] = << >>
         /\ \A n \in 1 .. Len(s) :
               kept[n] = IF s[n] = x THEN kept[n - 1]
                                     ELSE Append(kept[n - 1], s[n])
  BY EraseRemoveUnfold
<1> DEFINE Seen(n) == {s[i] : i \in 1 .. n}
           Good(n) == /\ kept[n] \in Seq(S)
                      /\ Len(kept[n]) <= n
                      /\ \A i \in 1 .. Len(kept[n]) : kept[n][i] \in Seen(n) \ {x}
                      /\ \A i \in 1 .. n : s[i] # x =>
                            \E j \in 1 .. Len(kept[n]) : kept[n][j] = s[i]
                      /\ IsInjective(s) =>
                            \A i, j \in 1 .. Len(kept[n]) :
                               kept[n][i] = kept[n][j] => i = j
           T == {n \in Nat : n <= Len(s) => Good(n)}
<1>3. 0 \in T
  <2>1. /\ kept[0] = << >> /\ << >> \in Seq(S) /\ Len(<< >>) = 0
        /\ 1 .. 0 = {}
    BY <1>2
  <2>2. Good(0)
    BY <2>1
  <2> HIDE DEF Good
  <2> QED BY <2>2
<1>4. ASSUME NEW m \in Nat, m \in T PROVE m + 1 \in T
  <2>1. SUFFICES ASSUME m + 1 <= Len(s) PROVE Good(m + 1)
    <3> HIDE DEF Good
    <3> QED OBVIOUS
  <2> DEFINE n == m + 1
  <2>2. n \in 1 .. Len(s) /\ n - 1 = m /\ s[n] \in S
    BY <1>1, <2>1
  <2>3. Good(m)
    <3> HIDE DEF Good
    <3> QED BY <1>1, <1>4, <2>1
  <2>4. kept[n] = IF s[n] = x THEN kept[m] ELSE Append(kept[m], s[n])
    BY <1>2, <2>2
  <2>5. Seen(m) \subseteq Seen(n) /\ s[n] \in Seen(n)
    BY <2>2
  <2>6. IsInjective(s) => s[n] \notin Seen(m)
    BY <1>1, <2>2 DEF IsInjective
  <2>7. CASE s[n] = x
    BY <2>2, <2>3, <2>4, <2>5, <2>7
  <2>8. CASE s[n] # x
    <3> DEFINE old == kept[m]
               new == kept[n]
    <3>1. /\ old \in Seq(S) /\ new = Append(old, s[n])
          /\ Len(old) \in Nat /\ Len(new) = Len(old) + 1 /\ new \in Seq(S)
          /\ new[Len(old) + 1] = s[n]
          /\ \A i \in 1 .. Len(old) : new[i] = old[i]
      BY <2>2, <2>3, <2>4, <2>8
    <3>2. \A i \in 1 .. Len(new) : i \in 1 .. Len(old) \/ i = Len(old) + 1
      BY <3>1
    <3>3. Len(new) <= n
      BY <2>3, <3>1
    <3>4. \A i \in 1 .. Len(new) : new[i] \in Seen(n) \ {x}
      BY <2>3, <2>5, <2>8, <3>1, <3>2
    <3>5. \A i \in 1 .. n : s[i] # x => \E j \in 1 .. Len(new) : new[j] = s[i]
      BY <2>2, <2>3, <3>1
    <3>6. ASSUME IsInjective(s), NEW i \in 1 .. Len(new), NEW j \in 1 .. Len(new),
                 new[i] = new[j]
          PROVE  i = j
      BY <2>3, <2>6, <3>1, <3>2, <3>6
    <3> QED BY <3>1, <3>3, <3>4, <3>5, <3>6
  <2> QED BY <2>7, <2>8
<1>5. Good(Len(s))
  <2>1. Len(s) \in T
    <3> HIDE DEF T
    <3> QED BY <1>1, <1>3, <1>4, NatSetInduction
  <2> HIDE DEF Good
  <2> QED BY <1>1, <2>1
<1> DEFINE t == kept[Len(s)]
<1>6. t \in Seq(S) /\ DOMAIN t = 1 .. Len(t) /\ Len(t) <= Len(s)
  BY <1>5
<1>7. Range(t) = Range(s) \ {x}
  <2>1. ASSUME NEW i \in DOMAIN t PROVE t[i] \in Range(s) \ {x}
    BY <1>1, <1>5, <1>6, <2>1 DEF Range
  <2>2. ASSUME NEW i \in DOMAIN s, s[i] # x PROVE s[i] \in Range(t)
    BY <1>1, <1>5, <1>6, <2>2 DEF Range
  <2> HIDE DEF t, Good
  <2> QED BY <2>1, <2>2 DEF Range
<1>8. IsInjective(s) => IsInjective(t)
  BY <1>5, <1>6 DEF IsInjective
<1> HIDE DEF t, Good
<1>9. EraseRemove(s, x) = t
  BY <1>2 DEF t
<1> QED BY <1>6, <1>7, <1>8, <1>9

=============================================================================
