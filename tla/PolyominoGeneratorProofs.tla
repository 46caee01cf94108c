----------------------- MODULE PolyominoGeneratorProofs -----------------------
(***************************************************************************)
(* Proofs about the library of pieces, for pieces of any size: what        *)
(* searchTransformation finds are the eight symmetries of a piece, the     *)
(* tables that are filled with them agree as long as they have room, and   *)
(* the search that extends one piece of each shape reaches every piece.    *)
(* First the geometry of pieces, then the orders of the code's sets, the   *)
(* tables, the levels of the search, and the invariant of the constructor. *)
(***************************************************************************)
EXTENDS PolyominoGenerator, ContainerProofs, FiniteSetTheorems

-----------------------------------------------------------------------------
(* Pieces and where they lie.                                              *)

\* A piece has cells, finitely many.
Shapes == {A \in SUBSET Plane : A # {} /\ IsFiniteSet(A)}

\* A piece that lies at the origin.
Pieces == {A \in Shapes : normalize(A) = A}

\* A piece as it is turned, not moved back to the origin.
RotatedPoint(b) == <<-b[2], b[1]>>
ReflectedPoint(b) == <<-b[1], b[2]>>

Rotated(A) == {RotatedPoint(b) : b \in A}
Reflected(A) == {ReflectedPoint(b) : b \in A}

StraightPoint(b, x, y) == <<x * b[1], y * b[2]>>
CrossedPoint(b, x, y) == <<x * b[2], y * b[1]>>

Straight(A, x, y) == {StraightPoint(b, x, y) : b \in A}
Crossed(A, x, y) == {CrossedPoint(b, x, y) : b \in A}

Signs == {-1, 1}

Images(A) == {Straight(A, x, y) : x, y \in Signs} \cup {Crossed(A, x, y) : x, y \in Signs}

\* Points are pairs of integers.
LEMMA PlanePoints ==
  /\ \A b \in Plane : b[1] \in Int /\ b[2] \in Int /\ b = <<b[1], b[2]>>
  /\ \A i, j \in Int : <<i, j>> \in Plane /\ <<i, j>>[1] = i /\ <<i, j>>[2] = j
  BY DEF Plane

\* The image of a piece under any map of the plane is a piece.
LEMMA ImageIsShape ==
  ASSUME NEW A \in Shapes, NEW f \in [A -> Plane]
  PROVE  {f[b] : b \in A} \in Shapes
<1> DEFINE B == {f[b] : b \in A}
<1>1. IsFiniteSet(A) /\ A # {}
  BY DEF Shapes
<1>2. f \in Surjection(A, B)
  BY DEF Surjection
<1>3. IsFiniteSet(B)
  BY <1>1, <1>2, FS_Surjection
<1>4. B \in SUBSET Plane /\ B # {}
  BY <1>1
<1> QED BY <1>3, <1>4 DEF Shapes

\* The least of finitely many numbers is one of them.
LEMMA MinIsLeast ==
  ASSUME NEW S \in SUBSET Int, S # {}, IsFiniteSet(S)
  PROVE  Min(S) \in S /\ \A y \in S : Min(S) <= y
<1>1. PICK x \in S : \A y \in S : x <= y
  <2> DEFINE T == {n \in Nat : \A U \in SUBSET S :
                      IsFiniteSet(U) /\ U # {} /\ Cardinality(U) = n =>
                         \E x \in U : \A y \in U : x <= y}
  <2>1. 0 \in T
    BY FS_EmptySet
  <2>2. ASSUME NEW n \in Nat, n \in T PROVE n + 1 \in T
    <3> SUFFICES ASSUME NEW U \in SUBSET S, IsFiniteSet(U), U # {},
                        Cardinality(U) = n + 1
        PROVE  \E x \in U : \A y \in U : x <= y
      OBVIOUS
    <3>1. PICK z \in U : TRUE
      OBVIOUS
    <3>2. IsFiniteSet(U \ {z}) /\ Cardinality(U \ {z}) = n
      <4>1. /\ IsFiniteSet(U \ {z})
            /\ Cardinality(U \ {z}) = Cardinality(U) - 1
        BY <3>1, FS_RemoveElement
      <4>2. (n + 1) - 1 = n
        OBVIOUS
      <4> QED BY <4>1, <4>2
    <3>3. CASE U \ {z} = {}
      BY <3>1, <3>3
    <3>4. CASE U \ {z} # {}
      <4>1. PICK x \in U \ {z} : \A y \in U \ {z} : x <= y
        BY <2>2, <3>2, <3>4
      <4>2. CASE x <= z
        BY <4>1, <4>2
      <4>3. CASE ~(x <= z)
        <5>1. \A y \in U : z <= y
          BY <3>1, <4>1, <4>3
        <5> QED BY <3>1, <5>1
      <4> QED BY <4>2, <4>3
    <3> QED BY <3>3, <3>4
  <2> HIDE DEF T
  <2>3. Nat \subseteq T
    BY <2>1, <2>2, NatSetInduction
  <2>4. Cardinality(S) \in T
    BY <2>3, FS_CardinalityType
  <2> QED BY <2>4 DEF T
<1> QED BY <1>1 DEF Min

\* The corner of a piece.
LEMMA OriginProperties ==
  ASSUME NEW A \in Shapes
  PROVE  /\ getOrigin(A) \in Plane
         /\ \A b \in A : getOrigin(A)[1] <= b[1] /\ getOrigin(A)[2] <= b[2]
         /\ \E b \in A : b[1] = getOrigin(A)[1]
         /\ \E b \in A : b[2] = getOrigin(A)[2]
<1> DEFINE Xs == {b[1] : b \in A}
           Ys == {b[2] : b \in A}
<1>1. IsFiniteSet(A) /\ A # {} /\ A \in SUBSET Plane
  BY DEF Shapes
<1>2. Xs \in SUBSET Int /\ Xs # {} /\ Ys \in SUBSET Int /\ Ys # {}
  BY <1>1, PlanePoints
<1>3. IsFiniteSet(Xs) /\ IsFiniteSet(Ys)
  <2>1. [b \in A |-> b[1]] \in Surjection(A, Xs)
    BY DEF Surjection
  <2>2. [b \in A |-> b[2]] \in Surjection(A, Ys)
    BY DEF Surjection
  <2> QED BY <1>1, <2>1, <2>2, FS_Surjection
<1>4. getOrigin(A) = <<Min(Xs), Min(Ys)>>
  BY DEF getOrigin
<1>5. Min(Xs) \in Xs /\ (\A x \in Xs : Min(Xs) <= x)
  BY <1>2, <1>3, MinIsLeast
<1>6. Min(Ys) \in Ys /\ (\A y \in Ys : Min(Ys) <= y)
  BY <1>2, <1>3, MinIsLeast
<1>7. PICK i \in Int : i = Min(Xs)
  BY <1>2, <1>5
<1>8. PICK j \in Int : j = Min(Ys)
  BY <1>2, <1>6
<1>9. getOrigin(A) \in Plane /\ getOrigin(A)[1] = i /\ getOrigin(A)[2] = j
  BY <1>4, <1>7, <1>8, PlanePoints
<1>10. \A b \in A : i <= b[1] /\ j <= b[2]
  BY <1>5, <1>6, <1>7, <1>8
<1>11. (\E b \in A : b[1] = i) /\ (\E b \in A : b[2] = j)
  BY <1>5, <1>6, <1>7, <1>8
<1> QED BY <1>9, <1>10, <1>11

\* A corner is known by what it bounds.
LEMMA OriginUnique ==
  ASSUME NEW A \in Shapes, NEW o \in Plane,
         \A b \in A : o[1] <= b[1] /\ o[2] <= b[2],
         \E b \in A : b[1] = o[1], \E b \in A : b[2] = o[2]
  PROVE  getOrigin(A) = o
<1>1. PICK p \in Plane : p = getOrigin(A)
  BY OriginProperties
<1>2. /\ \A b \in A : p[1] <= b[1] /\ p[2] <= b[2]
      /\ \E b \in A : b[1] = p[1]
      /\ \E b \in A : b[2] = p[2]
  BY <1>1, OriginProperties
<1>3. \A b \in A : b[1] \in Int /\ b[2] \in Int
  BY PlanePoints DEF Shapes
<1>4. /\ p[1] \in Int /\ p[2] \in Int /\ o[1] \in Int /\ o[2] \in Int
      /\ p = <<p[1], p[2]>> /\ o = <<o[1], o[2]>>
  BY PlanePoints
<1>5. p[1] = o[1]
  BY <1>2, <1>3, <1>4
<1>6. p[2] = o[2]
  BY <1>2, <1>3, <1>4
<1> QED BY <1>1, <1>4, <1>5, <1>6

\* A piece that is moved.
LEMMA MovedProperties ==
  ASSUME NEW A \in Shapes, NEW o \in Plane
  PROVE  /\ Moved(A, o) \in Shapes
         /\ getOrigin(Moved(A, o)) = Plus(o, getOrigin(A))
<1>1. \A b \in A : b[1] \in Int /\ b[2] \in Int
  BY PlanePoints DEF Shapes
<1>2. o[1] \in Int /\ o[2] \in Int
  BY PlanePoints
<1> DEFINE f == [b \in A |-> Plus(o, b)]
<1>3. f \in [A -> Plane]
  <2> SUFFICES ASSUME NEW b \in A PROVE Plus(o, b) \in Plane
    OBVIOUS
  <2>1. o[1] + b[1] \in Int /\ o[2] + b[2] \in Int
    BY <1>1, <1>2
  <2> QED BY <2>1 DEF Plus, Plane
<1>4. Moved(A, o) = {f[b] : b \in A}
  BY DEF Moved
<1>5. Moved(A, o) \in Shapes
  BY <1>3, <1>4, ImageIsShape
<1>6. PICK p \in Plane : p = getOrigin(A)
  BY OriginProperties
<1>7. /\ \A b \in A : p[1] <= b[1] /\ p[2] <= b[2]
      /\ \E b \in A : b[1] = p[1]
      /\ \E b \in A : b[2] = p[2]
  BY <1>6, OriginProperties
<1>8. PICK q \in Plane : q = Plus(o, p) /\ q[1] = o[1] + p[1] /\ q[2] = o[2] + p[2]
  <2>1. p[1] \in Int /\ p[2] \in Int
    BY PlanePoints
  <2>2. <<o[1] + p[1], o[2] + p[2]>> \in Plane
    BY <1>2, <2>1, PlanePoints
  <2> QED BY <2>2, PlanePoints DEF Plus
<1>9. \A c \in Moved(A, o) : \E b \in A : c[1] = o[1] + b[1] /\ c[2] = o[2] + b[2]
  BY DEF Moved, Plus
<1>10. \A b \in A : \E c \in Moved(A, o) : c[1] = o[1] + b[1] /\ c[2] = o[2] + b[2]
  <2>1. \A b \in A : Plus(o, b) \in Moved(A, o)
    BY DEF Moved
  <2>2. \A b : Plus(o, b)[1] = o[1] + b[1] /\ Plus(o, b)[2] = o[2] + b[2]
    BY DEF Plus
  <2> QED BY <2>1, <2>2
<1>11. p[1] \in Int /\ p[2] \in Int
  BY PlanePoints
<1>12. \A c \in Moved(A, o) : q[1] <= c[1] /\ q[2] <= c[2]
  <2> SUFFICES ASSUME NEW c \in Moved(A, o) PROVE q[1] <= c[1] /\ q[2] <= c[2]
    OBVIOUS
  <2>1. PICK b \in A : c[1] = o[1] + b[1] /\ c[2] = o[2] + b[2]
    BY <1>9
  <2>2. /\ b[1] \in Int /\ b[2] \in Int /\ p[1] <= b[1] /\ p[2] <= b[2]
    BY <1>1, <1>7
  <2> QED BY <1>2, <1>8, <1>11, <2>1, <2>2
<1>13. \E c \in Moved(A, o) : c[1] = q[1]
  BY <1>7, <1>8, <1>10
<1>14. \E c \in Moved(A, o) : c[2] = q[2]
  BY <1>7, <1>8, <1>10
<1>15. getOrigin(Moved(A, o)) = q
  BY <1>5, <1>12, <1>13, <1>14, OriginUnique
<1> QED BY <1>5, <1>6, <1>8, <1>15

\* Moves add up.
LEMMA MovedTwice ==
  ASSUME NEW A \in SUBSET Plane, NEW o \in Plane, NEW p \in Plane
  PROVE  Moved(Moved(A, o), p) = Moved(A, Plus(p, o))
<1>1. \A b \in A : Plus(p, Plus(o, b)) = Plus(Plus(p, o), b)
  <2> SUFFICES ASSUME NEW b \in A PROVE Plus(p, Plus(o, b)) = Plus(Plus(p, o), b)
    OBVIOUS
  <2>1. /\ b[1] \in Int /\ b[2] \in Int /\ o[1] \in Int /\ o[2] \in Int
        /\ p[1] \in Int /\ p[2] \in Int
    BY PlanePoints
  <2>2. /\ p[1] + (o[1] + b[1]) = (p[1] + o[1]) + b[1]
        /\ p[2] + (o[2] + b[2]) = (p[2] + o[2]) + b[2]
    BY <2>1
  <2> QED BY <2>2 DEF Plus
<1>2. \A B, v : Moved(B, v) = {Plus(v, b) : b \in B}
  BY DEF Moved
<1>3. \A x : x \in Moved(Moved(A, o), p) <=> \E b \in A : x = Plus(p, Plus(o, b))
  BY <1>2
<1>4. \A x : x \in Moved(A, Plus(p, o)) <=> \E b \in A : x = Plus(Plus(p, o), b)
  BY <1>2
<1> QED BY <1>1, <1>3, <1>4

\* To normalize a piece is to move it to where its corner is the origin; where
\* it was makes no difference.
LEMMA NormalizeProperties ==
  ASSUME NEW A \in Shapes
  PROVE  /\ normalize(A) \in Shapes
         /\ \E v \in Plane : normalize(A) = Moved(A, v)
         /\ \A o \in Plane : normalize(Moved(A, o)) = normalize(A)
         /\ normalize(normalize(A)) = normalize(A)
<1>1. PICK c \in Plane : c = getOrigin(A)
  BY OriginProperties
<1>2. c[1] \in Int /\ c[2] \in Int
  BY PlanePoints
<1>3. PICK v \in Plane : v = <<-c[1], -c[2]>>
  <2>1. -c[1] \in Int /\ -c[2] \in Int
    BY <1>2
  <2> QED BY <2>1, PlanePoints
<1>4. normalize(A) = Moved(A, v)
  BY <1>1, <1>3 DEF normalize
<1>5. ASSUME NEW o \in Plane PROVE normalize(Moved(A, o)) = normalize(A)
  <2>1. o[1] \in Int /\ o[2] \in Int
    BY PlanePoints
  <2>2. getOrigin(Moved(A, o)) = <<o[1] + c[1], o[2] + c[2]>>
    BY <1>1, MovedProperties DEF Plus
  <2>3. PICK w \in Plane : w = <<-(o[1] + c[1]), -(o[2] + c[2])>>
    <3>1. -(o[1] + c[1]) \in Int /\ -(o[2] + c[2]) \in Int
      BY <1>2, <2>1
    <3> QED BY <3>1, PlanePoints
  <2>4. normalize(Moved(A, o)) = Moved(Moved(A, o), w)
    BY <2>2, <2>3 DEF normalize
  <2>5. Plus(w, o) = v
    <3>1. /\ -(o[1] + c[1]) + o[1] = -c[1]
          /\ -(o[2] + c[2]) + o[2] = -c[2]
      BY <1>2, <2>1
    <3> QED BY <1>3, <2>3, <3>1 DEF Plus
  <2>6. Moved(Moved(A, o), w) = Moved(A, v)
    BY <2>5, MovedTwice DEF Shapes
  <2> QED BY <1>4, <2>4, <2>6
<1>6. normalize(A) \in Shapes
  BY <1>4, MovedProperties
<1> QED BY <1>4, <1>5, <1>6

-----------------------------------------------------------------------------
(* Turning a piece.                                                        *)

\* What turning does to a point that is moved.
LEMMA TurnedPoint ==
  ASSUME NEW b \in Plane, NEW o \in Plane
  PROVE  /\ RotatedPoint(b) \in Plane /\ ReflectedPoint(b) \in Plane
         /\ RotatedPoint(Plus(o, b)) = Plus(RotatedPoint(o), RotatedPoint(b))
         /\ ReflectedPoint(Plus(o, b)) = Plus(ReflectedPoint(o), ReflectedPoint(b))
<1>1. b[1] \in Int /\ b[2] \in Int /\ o[1] \in Int /\ o[2] \in Int
  BY PlanePoints
<1>2. /\ -b[1] \in Int /\ -b[2] \in Int
      /\ -(o[1] + b[1]) = -o[1] + -b[1] /\ -(o[2] + b[2]) = -o[2] + -b[2]
  BY <1>1
<1>3. Plus(o, b)[1] = o[1] + b[1] /\ Plus(o, b)[2] = o[2] + b[2]
  BY DEF Plus
<1>4. /\ Plus(<<-o[2], o[1]>>, <<-b[2], b[1]>>) = <<-o[2] + -b[2], o[1] + b[1]>>
      /\ Plus(<<-o[1], o[2]>>, <<-b[1], b[2]>>) = <<-o[1] + -b[1], o[2] + b[2]>>
  BY DEF Plus
<1>5. <<-b[2], b[1]>> \in Plane /\ <<-b[1], b[2]>> \in Plane
  BY <1>1, <1>2, PlanePoints
<1>6. <<-(o[2] + b[2]), o[1] + b[1]>> = <<-o[2] + -b[2], o[1] + b[1]>>
  BY <1>2
<1>7. <<-(o[1] + b[1]), o[2] + b[2]>> = <<-o[1] + -b[1], o[2] + b[2]>>
  BY <1>2
<1> QED BY <1>3, <1>4, <1>5, <1>6, <1>7 DEF RotatedPoint, ReflectedPoint

\* A turned piece is a piece; where it was before only moves it.
LEMMA TurnProperties ==
  ASSUME NEW A \in Shapes
  PROVE  /\ Rotated(A) \in Shapes
         /\ Reflected(A) \in Shapes
         /\ \A o \in Plane : \E v \in Plane : Rotated(Moved(A, o)) = Moved(Rotated(A), v)
         /\ \A o \in Plane : \E v \in Plane : Reflected(Moved(A, o)) = Moved(Reflected(A), v)
<1>1. A \in SUBSET Plane
  BY DEF Shapes
<1>2. Rotated(A) \in Shapes
  <2> DEFINE f == [b \in A |-> RotatedPoint(b)]
  <2>1. f \in [A -> Plane]
    BY <1>1, TurnedPoint
  <2>2. Rotated(A) = {f[b] : b \in A}
    BY DEF Rotated
  <2> QED BY <2>1, <2>2, ImageIsShape
<1>3. Reflected(A) \in Shapes
  <2> DEFINE f == [b \in A |-> ReflectedPoint(b)]
  <2>1. f \in [A -> Plane]
    BY <1>1, TurnedPoint
  <2>2. Reflected(A) = {f[b] : b \in A}
    BY DEF Reflected
  <2> QED BY <2>1, <2>2, ImageIsShape
<1>4. ASSUME NEW o \in Plane
      PROVE  /\ \E v \in Plane : Rotated(Moved(A, o)) = Moved(Rotated(A), v)
             /\ \E v \in Plane : Reflected(Moved(A, o)) = Moved(Reflected(A), v)
  <2>1. PICK v \in Plane : v = RotatedPoint(o)
    BY TurnedPoint
  <2>2. PICK w \in Plane : w = ReflectedPoint(o)
    BY TurnedPoint
  <2>3. \A b \in A : /\ RotatedPoint(Plus(o, b)) = Plus(v, RotatedPoint(b))
                     /\ ReflectedPoint(Plus(o, b)) = Plus(w, ReflectedPoint(b))
    BY <1>1, <2>1, <2>2, TurnedPoint
  <2>4. /\ \A x : x \in Rotated(Moved(A, o)) <=> \E b \in A : x = RotatedPoint(Plus(o, b))
        /\ \A x : x \in Reflected(Moved(A, o))
                     <=> \E b \in A : x = ReflectedPoint(Plus(o, b))
    BY DEF Rotated, Reflected, Moved
  <2>5. /\ \A x : x \in Moved(Rotated(A), v) <=> \E b \in A : x = Plus(v, RotatedPoint(b))
        /\ \A x : x \in Moved(Reflected(A), w)
                     <=> \E b \in A : x = Plus(w, ReflectedPoint(b))
    BY DEF Rotated, Reflected, Moved
  <2>6. Rotated(Moved(A, o)) = Moved(Rotated(A), v)
    BY <2>3, <2>4, <2>5
  <2>7. Reflected(Moved(A, o)) = Moved(Reflected(A), w)
    BY <2>3, <2>4, <2>5
  <2> QED BY <2>6, <2>7
<1> QED BY <1>2, <1>3, <1>4

\* rotateClockwise and reflectHorizontally turn a piece the same way wherever
\* it lies.
LEMMA TurnNormalized ==
  ASSUME NEW A \in Shapes
  PROVE  /\ rotateClockwise(A) = normalize(Rotated(A))
         /\ reflectHorizontally(A) = normalize(Reflected(A))
         /\ rotateClockwise(normalize(A)) = normalize(Rotated(A))
         /\ reflectHorizontally(normalize(A)) = normalize(Reflected(A))
<1>1. \A B : /\ rotateClockwise(B) = normalize(Rotated(B))
             /\ reflectHorizontally(B) = normalize(Reflected(B))
  BY DEF rotateClockwise, reflectHorizontally, Rotated, Reflected,
         RotatedPoint, ReflectedPoint
<1>2. PICK o \in Plane : normalize(A) = Moved(A, o)
  BY NormalizeProperties
<1>3. PICK v \in Plane : Rotated(Moved(A, o)) = Moved(Rotated(A), v)
  BY TurnProperties
<1>4. PICK w \in Plane : Reflected(Moved(A, o)) = Moved(Reflected(A), w)
  BY TurnProperties
<1>5. /\ normalize(Moved(Rotated(A), v)) = normalize(Rotated(A))
      /\ normalize(Moved(Reflected(A), w)) = normalize(Reflected(A))
  BY TurnProperties, NormalizeProperties
<1> QED BY <1>1, <1>2, <1>3, <1>4, <1>5

\* How turning permutes the eight images of a point.
LEMMA ImagePoints ==
  ASSUME NEW b \in Plane, NEW x \in Signs, NEW y \in Signs
  PROVE  /\ StraightPoint(b, x, y) \in Plane /\ CrossedPoint(b, x, y) \in Plane
         /\ RotatedPoint(StraightPoint(b, x, y)) = CrossedPoint(b, -y, x)
         /\ RotatedPoint(CrossedPoint(b, x, y)) = StraightPoint(b, -y, x)
         /\ ReflectedPoint(StraightPoint(b, x, y)) = StraightPoint(b, -x, y)
         /\ ReflectedPoint(CrossedPoint(b, x, y)) = CrossedPoint(b, -x, y)
         /\ StraightPoint(b, 1, 1) = b
<1>1. x \in Int /\ y \in Int /\ (x = 1 \/ x = -1) /\ (y = 1 \/ y = -1)
  BY DEF Signs
<1>2. PICK i \in Int, j \in Int : b = <<i, j>>
  BY DEF Plane
<1>3. /\ x * i \in Int /\ y * j \in Int /\ x * j \in Int /\ y * i \in Int
      /\ -(x * i) = (-x) * i /\ -(x * j) = (-x) * j
      /\ -(y * i) = (-y) * i /\ -(y * j) = (-y) * j
  BY <1>1
<1>4. \A m, n : /\ StraightPoint(b, m, n) = <<m * i, n * j>>
                /\ CrossedPoint(b, m, n) = <<m * j, n * i>>
  BY <1>2 DEF StraightPoint, CrossedPoint
<1>5. \A m, n : /\ RotatedPoint(<<m, n>>) = <<-n, m>>
                /\ ReflectedPoint(<<m, n>>) = <<-m, n>>
  BY DEF RotatedPoint, ReflectedPoint
<1>6. StraightPoint(b, 1, 1) = b
  <2>1. 1 * i = i /\ 1 * j = j
    OBVIOUS
  <2> QED BY <1>2, <1>4, <2>1
<1>7. StraightPoint(b, x, y) \in Plane /\ CrossedPoint(b, x, y) \in Plane
  <2>1. <<x * i, y * j>> \in Plane /\ <<x * j, y * i>> \in Plane
    BY <1>3 DEF Plane
  <2> QED BY <1>4, <2>1
<1>8. RotatedPoint(StraightPoint(b, x, y)) = CrossedPoint(b, -y, x)
  <2>1. RotatedPoint(<<x * i, y * j>>) = <<-(y * j), x * i>>
    BY <1>5
  <2>2. CrossedPoint(b, -y, x) = <<(-y) * j, x * i>>
    BY <1>4
  <2>3. StraightPoint(b, x, y) = <<x * i, y * j>>
    BY <1>4
  <2> QED BY <1>3, <2>1, <2>2, <2>3
<1>9. RotatedPoint(CrossedPoint(b, x, y)) = StraightPoint(b, -y, x)
  <2>1. RotatedPoint(<<x * j, y * i>>) = <<-(y * i), x * j>>
    BY <1>5
  <2>2. StraightPoint(b, -y, x) = <<(-y) * i, x * j>>
    BY <1>4
  <2>3. CrossedPoint(b, x, y) = <<x * j, y * i>>
    BY <1>4
  <2> QED BY <1>3, <2>1, <2>2, <2>3
<1>10. ReflectedPoint(StraightPoint(b, x, y)) = StraightPoint(b, -x, y)
  <2>1. ReflectedPoint(<<x * i, y * j>>) = <<-(x * i), y * j>>
    BY <1>5
  <2>2. StraightPoint(b, -x, y) = <<(-x) * i, y * j>>
    BY <1>4
  <2>3. StraightPoint(b, x, y) = <<x * i, y * j>>
    BY <1>4
  <2> QED BY <1>3, <2>1, <2>2, <2>3
<1>11. ReflectedPoint(CrossedPoint(b, x, y)) = CrossedPoint(b, -x, y)
  <2>1. ReflectedPoint(<<x * j, y * i>>) = <<-(x * j), y * i>>
    BY <1>5
  <2>2. CrossedPoint(b, -x, y) = <<(-x) * j, y * i>>
    BY <1>4
  <2>3. CrossedPoint(b, x, y) = <<x * j, y * i>>
    BY <1>4
  <2> QED BY <1>3, <2>1, <2>2, <2>3
<1> QED BY <1>6, <1>7, <1>8, <1>9, <1>10, <1>11

\* How turning permutes the eight images of a piece.
LEMMA ImageProperties ==
  ASSUME NEW A \in Shapes, NEW x \in Signs, NEW y \in Signs
  PROVE  /\ Straight(A, x, y) \in Shapes /\ Crossed(A, x, y) \in Shapes
         /\ Rotated(Straight(A, x, y)) = Crossed(A, -y, x)
         /\ Rotated(Crossed(A, x, y)) = Straight(A, -y, x)
         /\ Reflected(Straight(A, x, y)) = Straight(A, -x, y)
         /\ Reflected(Crossed(A, x, y)) = Crossed(A, -x, y)
         /\ Straight(A, 1, 1) = A
         /\ -x \in Signs /\ -y \in Signs
<1>1. A \in SUBSET Plane /\ A # {}
  BY DEF Shapes
<1>2. -x \in Signs /\ -y \in Signs
  BY DEF Signs
<1>3. ASSUME NEW b \in A
      PROVE  /\ StraightPoint(b, x, y) \in Plane /\ CrossedPoint(b, x, y) \in Plane
             /\ RotatedPoint(StraightPoint(b, x, y)) = CrossedPoint(b, -y, x)
             /\ RotatedPoint(CrossedPoint(b, x, y)) = StraightPoint(b, -y, x)
             /\ ReflectedPoint(StraightPoint(b, x, y)) = StraightPoint(b, -x, y)
             /\ ReflectedPoint(CrossedPoint(b, x, y)) = CrossedPoint(b, -x, y)
             /\ StraightPoint(b, 1, 1) = b
  <2>1. b \in Plane
    BY <1>1
  <2> QED BY <2>1, ImagePoints
<1>4. Straight(A, x, y) \in Shapes
  <2> DEFINE f == [b \in A |-> StraightPoint(b, x, y)]
  <2>1. f \in [A -> Plane]
    BY <1>3
  <2>2. Straight(A, x, y) = {f[b] : b \in A}
    BY DEF Straight
  <2> QED BY <2>1, <2>2, ImageIsShape
<1>5. Crossed(A, x, y) \in Shapes
  <2> DEFINE f == [b \in A |-> CrossedPoint(b, x, y)]
  <2>1. f \in [A -> Plane]
    BY <1>3
  <2>2. Crossed(A, x, y) = {f[b] : b \in A}
    BY DEF Crossed
  <2> QED BY <2>1, <2>2, ImageIsShape
<1>6. Rotated(Straight(A, x, y)) = Crossed(A, -y, x)
  <2>1. Rotated(Straight(A, x, y)) = {RotatedPoint(StraightPoint(b, x, y)) : b \in A}
    BY DEF Rotated, Straight
  <2> QED BY <2>1, <1>3, Zenon DEF Crossed
<1>7. Rotated(Crossed(A, x, y)) = Straight(A, -y, x)
  <2>1. Rotated(Crossed(A, x, y)) = {RotatedPoint(CrossedPoint(b, x, y)) : b \in A}
    BY DEF Rotated, Crossed
  <2>2. \A b \in A : RotatedPoint(CrossedPoint(b, x, y)) = StraightPoint(b, -y, x)
    BY <1>3
  <2>3. Straight(A, -y, x) = {StraightPoint(b, -y, x) : b \in A}
    BY DEF Straight
  <2> QED BY <2>1, <2>2, <2>3, Zenon
<1>8. Reflected(Straight(A, x, y)) = Straight(A, -x, y)
  <2>1. Reflected(Straight(A, x, y)) = {ReflectedPoint(StraightPoint(b, x, y)) : b \in A}
    BY DEF Reflected, Straight
  <2>2. \A b \in A : ReflectedPoint(StraightPoint(b, x, y)) = StraightPoint(b, -x, y)
    BY <1>3
  <2>3. Straight(A, -x, y) = {StraightPoint(b, -x, y) : b \in A}
    BY DEF Straight
  <2> QED BY <2>1, <2>2, <2>3, Zenon
<1>9. Reflected(Crossed(A, x, y)) = Crossed(A, -x, y)
  <2>1. Reflected(Crossed(A, x, y)) = {ReflectedPoint(CrossedPoint(b, x, y)) : b \in A}
    BY DEF Reflected, Crossed
  <2> QED BY <2>1, <1>3, Zenon DEF Crossed
<1>10. Straight(A, 1, 1) = A
  BY <1>3, Zenon DEF Straight
<1> QED BY <1>2, <1>4, <1>5, <1>6, <1>7, <1>8, <1>9, <1>10

\* The images, moved to the origin, are what Symmetric spells out; turning one
\* of them gives another.
LEMMA SymmetricClosed ==
  ASSUME NEW A \in Shapes
  PROVE  /\ Symmetric(A) = {normalize(B) : B \in Images(A)}
         /\ \A q \in Symmetric(A) : /\ q \in Pieces
                                    /\ rotateClockwise(q) \in Symmetric(A)
                                    /\ reflectHorizontally(q) \in Symmetric(A)
<1>1. Symmetric(A) = {normalize(B) : B \in Images(A)}
  BY DEF Symmetric, Images, Straight, Crossed, StraightPoint, CrossedPoint, Signs
<1>2. ASSUME NEW B \in Images(A)
      PROVE  B \in Shapes /\ Rotated(B) \in Images(A) /\ Reflected(B) \in Images(A)
  <2>1. PICK x \in Signs, y \in Signs : B = Straight(A, x, y) \/ B = Crossed(A, x, y)
    BY DEF Images
  <2>2. -x \in Signs /\ -y \in Signs
    BY ImageProperties
  <2>3. \A m, n \in Signs : Straight(A, m, n) \in Images(A) /\ Crossed(A, m, n) \in Images(A)
    BY DEF Images
  <2>4. /\ Straight(A, -y, x) \in Images(A) /\ Crossed(A, -y, x) \in Images(A)
        /\ Straight(A, -x, y) \in Images(A) /\ Crossed(A, -x, y) \in Images(A)
    BY <2>2, <2>3
  <2>5. CASE B = Straight(A, x, y)
    BY <2>4, <2>5, ImageProperties
  <2>6. CASE B = Crossed(A, x, y)
    BY <2>4, <2>6, ImageProperties
  <2> QED BY <2>1, <2>5, <2>6
<1>3. ASSUME NEW q \in Symmetric(A)
      PROVE  /\ q \in Pieces
             /\ rotateClockwise(q) \in Symmetric(A)
             /\ reflectHorizontally(q) \in Symmetric(A)
  <2>1. PICK B \in Images(A) : q = normalize(B)
    BY <1>1
  <2>2. B \in Shapes /\ Rotated(B) \in Images(A) /\ Reflected(B) \in Images(A)
    BY <1>2
  <2>3. q \in Pieces
    BY <2>1, <2>2, NormalizeProperties DEF Pieces
  <2>4. /\ rotateClockwise(q) = normalize(Rotated(B))
        /\ reflectHorizontally(q) = normalize(Reflected(B))
    BY <2>1, <2>2, TurnNormalized
  <2> QED BY <1>1, <2>2, <2>3, <2>4
<1> QED BY <1>1, <1>3

\* A piece at the origin, its quarter turns and their reflections are all
\* there is; four turns lead back, and so do two reflections.
LEMMA SymmetricTurns ==
  ASSUME NEW p \in Pieces
  PROVE  LET p1 == rotateClockwise(p)
             p2 == rotateClockwise(p1)
             p3 == rotateClockwise(p2)
         IN  /\ Symmetric(p) = {p, p1, p2, p3} \cup {reflectHorizontally(q) : q \in {p, p1, p2, p3}}
             /\ rotateClockwise(p3) = p
             /\ reflectHorizontally(reflectHorizontally(p)) = p
<1> DEFINE S(x, y) == normalize(Straight(p, x, y))
           C(x, y) == normalize(Crossed(p, x, y))
<1>1. p \in Shapes /\ normalize(p) = p
  BY DEF Pieces
<1>2. ASSUME NEW x \in Signs, NEW y \in Signs
      PROVE  /\ rotateClockwise(S(x, y)) = C(-y, x)
             /\ rotateClockwise(C(x, y)) = S(-y, x)
             /\ reflectHorizontally(S(x, y)) = S(-x, y)
             /\ reflectHorizontally(C(x, y)) = C(-x, y)
  <2>1. /\ Straight(p, x, y) \in Shapes /\ Crossed(p, x, y) \in Shapes
        /\ Rotated(Straight(p, x, y)) = Crossed(p, -y, x)
        /\ Rotated(Crossed(p, x, y)) = Straight(p, -y, x)
        /\ Reflected(Straight(p, x, y)) = Straight(p, -x, y)
        /\ Reflected(Crossed(p, x, y)) = Crossed(p, -x, y)
    BY <1>1, ImageProperties
  <2> QED BY <2>1, TurnNormalized
<1>3. S(1, 1) = p
  <2>1. 1 \in Signs
    BY DEF Signs
  <2>2. Straight(p, 1, 1) = p
    BY <1>1, <2>1, ImageProperties
  <2> QED BY <1>1, <2>2
<1>4. Symmetric(p) = {S(x, y) : x, y \in Signs} \cup {C(x, y) : x, y \in Signs}
  <2>1. Symmetric(p) = {normalize(B) : B \in Images(p)}
    BY <1>1, SymmetricClosed
  <2> QED BY <2>1 DEF Images
<1> HIDE DEF S, C
<1>5. Symmetric(p) = {S(1, 1), S(1, -1), S(-1, 1), S(-1, -1),
                      C(1, 1), C(1, -1), C(-1, 1), C(-1, -1)}
  BY <1>4 DEF Signs
<1>6. 1 \in Signs /\ -1 \in Signs /\ -(-1) = 1
  <2>1. \A i \in Int : -(-i) = i
    OBVIOUS
  <2>2. 1 \in Int
    OBVIOUS
  <2>3. -(-1) = 1
    BY <2>1, <2>2, Zenon
  <2> QED BY <2>3 DEF Signs
<1>7. /\ rotateClockwise(S(1, 1)) = C(-1, 1)
      /\ rotateClockwise(C(-1, 1)) = S(-1, -1)
      /\ rotateClockwise(S(-1, -1)) = C(1, -1)
      /\ rotateClockwise(C(1, -1)) = S(1, 1)
  BY <1>2, <1>6
<1>8. /\ reflectHorizontally(S(1, 1)) = S(-1, 1)
      /\ reflectHorizontally(S(-1, 1)) = S(1, 1)
      /\ reflectHorizontally(C(-1, 1)) = C(1, 1)
      /\ reflectHorizontally(S(-1, -1)) = S(1, -1)
      /\ reflectHorizontally(C(1, -1)) = C(-1, -1)
  BY <1>2, <1>6
<1> DEFINE p1 == rotateClockwise(p)
           p2 == rotateClockwise(p1)
           p3 == rotateClockwise(p2)
<1>9. p1 = C(-1, 1) /\ p2 = S(-1, -1) /\ p3 = C(1, -1)
  BY <1>3, <1>7
<1>10. Symmetric(p) = {p, p1, p2, p3} \cup {reflectHorizontally(q) : q \in {p, p1, p2, p3}}
  BY <1>3, <1>5, <1>8, <1>9
<1>11. rotateClockwise(p3) = p /\ reflectHorizontally(reflectHorizontally(p)) = p
  BY <1>3, <1>7, <1>8, <1>9
<1> QED BY <1>10, <1>11

\* What can be turned into each other has the same symmetric pieces.
LEMMA SymmetricLeast ==
  ASSUME NEW p \in Pieces, NEW S, p \in S,
         \A q \in S : rotateClockwise(q) \in S /\ reflectHorizontally(q) \in S
  PROVE  Symmetric(p) \subseteq S
  BY SymmetricTurns

LEMMA SymmetricEqual ==
  ASSUME NEW p \in Pieces, NEW q \in Symmetric(p)
  PROVE  /\ p \in Symmetric(p)
         /\ Symmetric(q) = Symmetric(p)
<1>1. \A r \in Pieces : r \in Symmetric(r)
  BY SymmetricTurns
<1>2. \A r \in Pieces : \A s \in Symmetric(r) :
         /\ s \in Pieces
         /\ rotateClockwise(s) \in Symmetric(r) /\ reflectHorizontally(s) \in Symmetric(r)
  BY SymmetricClosed DEF Pieces
<1>3. ASSUME NEW r \in Pieces, NEW s \in Symmetric(r) PROVE Symmetric(s) \subseteq Symmetric(r)
  BY <1>2, SymmetricLeast
<1>4. ASSUME NEW r \in Pieces
      PROVE  r \in Symmetric(rotateClockwise(r)) /\ r \in Symmetric(reflectHorizontally(r))
  <2>1. rotateClockwise(r) \in Pieces /\ reflectHorizontally(r) \in Pieces
    BY <1>1, <1>2
  <2>2. /\ rotateClockwise(rotateClockwise(rotateClockwise(rotateClockwise(r)))) = r
        /\ reflectHorizontally(reflectHorizontally(r)) = r
    BY SymmetricTurns
  <2>3. rotateClockwise(rotateClockwise(rotateClockwise(r))) \in Symmetric(rotateClockwise(r))
    BY <1>1, <1>2, <2>1
  <2>4. r \in Symmetric(rotateClockwise(r))
    BY <1>2, <2>1, <2>2, <2>3
  <2> QED BY <1>1, <1>2, <2>1, <2>2, <2>4
<1> DEFINE T == {r \in Pieces : p \in Symmetric(r)}
<1>5. \A r \in T : rotateClockwise(r) \in T /\ reflectHorizontally(r) \in T
  <2> SUFFICES ASSUME NEW r \in Pieces, p \in Symmetric(r)
      PROVE  rotateClockwise(r) \in T /\ reflectHorizontally(r) \in T
    OBVIOUS
  <2>1. rotateClockwise(r) \in Pieces /\ reflectHorizontally(r) \in Pieces
    BY <1>1, <1>2
  <2>2. /\ Symmetric(r) \subseteq Symmetric(rotateClockwise(r))
        /\ Symmetric(r) \subseteq Symmetric(reflectHorizontally(r))
    BY <1>3, <1>4, <2>1
  <2> QED BY <2>1, <2>2
<1>6. p \in T
  BY <1>1
<1> HIDE DEF T
<1>7. q \in T
  BY <1>5, <1>6, SymmetricLeast
<1>8. q \in Pieces /\ p \in Symmetric(q)
  BY <1>7 DEF T
<1> QED BY <1>1, <1>3, <1>8

-----------------------------------------------------------------------------
(* searchTransformation                                                    *)

\* What one more round of turning adds.
Turned(S) == S \cup {rotateClockwise(p) : p \in S} \cup {reflectHorizontally(p) : p \in S}

\* The recursive definition in Orbit has a solution.
LEMMA FoundExists ==
  ASSUME NEW piece, NEW m \in Nat
  PROVE  \E f : f = [n \in 0 .. m |-> IF n = 0 THEN {piece} ELSE Turned(f[n - 1])]
<1> DEFINE Step(f, n) == IF n = 0 THEN {piece} ELSE Turned(f[n - 1])
           T == {i \in Nat : \E f : f = [n \in 0 .. i |-> Step(f, n)]}
<1>1. 0 \in T
  <2> DEFINE f == [n \in 0 .. 0 |-> {piece}]
  <2>1. f = [n \in 0 .. 0 |-> Step(f, n)]
    OBVIOUS
  <2> HIDE DEF f, Step
  <2> QED BY <2>1
<1>2. ASSUME NEW i \in Nat, i \in T PROVE i + 1 \in T
  <2>1. PICK f : f = [n \in 0 .. i |-> Step(f, n)]
    BY <1>2
  <2> DEFINE g == [n \in 0 .. i + 1 |-> IF n <= i THEN f[n] ELSE Step(f, n)]
  <2>2. ASSUME NEW n \in 0 .. i + 1 PROVE g[n] = Step(g, n)
    <3>1. CASE n <= i
      <4>1. g[n] = Step(f, n)
        <5>1. g[n] = f[n] /\ n \in 0 .. i
          BY <3>1
        <5> HIDE DEF g, Step
        <5> QED BY <5>1, <2>1
      <4>2. n # 0 => n - 1 \in 0 .. i + 1 /\ n - 1 <= i /\ g[n - 1] = f[n - 1]
        BY <3>1
      <4> HIDE DEF g
      <4> QED BY <4>1, <4>2
    <3>2. CASE n = i + 1
      <4>1. g[n] = Step(f, n) /\ n # 0
        BY <3>2
      <4>2. n - 1 \in 0 .. i + 1 /\ n - 1 <= i /\ g[n - 1] = f[n - 1]
        BY <3>2
      <4> HIDE DEF g
      <4> QED BY <4>1, <4>2
    <3> QED BY <3>1, <3>2
  <2>3. g = [n \in 0 .. i + 1 |-> Step(g, n)]
    <3>1. g = [n \in 0 .. i + 1 |-> g[n]]
      OBVIOUS
    <3> HIDE DEF g, Step
    <3> QED BY <3>1, <2>2
  <2> HIDE DEF g, Step
  <2> QED BY <2>3
<1>3. m \in T
  <2> HIDE DEF T
  <2> QED BY <1>1, <1>2, NatSetInduction
<1> QED BY <1>3

\* Orbit is the last of seven rounds of turning.
LEMMA OrbitUnfold ==
  ASSUME NEW piece
  PROVE  \E found : /\ Orbit(piece) = found[7]
                    /\ found[0] = {piece}
                    /\ \A n \in 1 .. 7 : found[n] = Turned(found[n - 1])
<1> DEFINE Found(f) == f = [n \in 0 .. 7 |-> IF n = 0 THEN {piece} ELSE Turned(f[n - 1])]
           found == CHOOSE f : Found(f)
<1>1. Found(found)
  <2>1. 7 \in Nat
    OBVIOUS
  <2>2. \E f : Found(f)
    BY <2>1, FoundExists
  <2> HIDE DEF Found
  <2> QED BY <2>2
<1>2. Orbit(piece) = found[7]
  BY DEF Orbit, Turned
<1> HIDE DEF found
<1>3. found[0] = {piece}
  BY <1>1
<1>4. ASSUME NEW n \in 1 .. 7 PROVE found[n] = Turned(found[n - 1])
  <2>1. n \in 0 .. 7 /\ n # 0
    OBVIOUS
  <2> QED BY <1>1, <2>1
<1> QED BY <1>2, <1>3, <1>4

\* searchTransformation (PolyominoUtil.cpp) finds the eight symmetries of a
\* piece, whatever the piece: it misses none, and finds nothing else.
THEOREM OrbitIsSymmetric ==
  ASSUME NEW p \in Pieces
  PROVE  Orbit(p) = Symmetric(p)
<1>1. PICK found : /\ Orbit(p) = found[7]
                   /\ found[0] = {p}
                   /\ \A n \in 1 .. 7 : found[n] = Turned(found[n - 1])
  BY OrbitUnfold
<1>2. \A S : /\ S \subseteq Turned(S)
             /\ \A q \in S : rotateClockwise(q) \in Turned(S)
                             /\ reflectHorizontally(q) \in Turned(S)
  BY DEF Turned
<1>3. /\ found[1] = Turned(found[0]) /\ found[2] = Turned(found[1])
      /\ found[3] = Turned(found[2]) /\ found[4] = Turned(found[3])
      /\ found[5] = Turned(found[4]) /\ found[6] = Turned(found[5])
      /\ found[7] = Turned(found[6])
  <2>1. /\ 1 - 1 = 0 /\ 2 - 1 = 1 /\ 3 - 1 = 2 /\ 4 - 1 = 3 /\ 5 - 1 = 4
        /\ 6 - 1 = 5 /\ 7 - 1 = 6
        /\ 1 \in 1 .. 7 /\ 2 \in 1 .. 7 /\ 3 \in 1 .. 7 /\ 4 \in 1 .. 7
        /\ 5 \in 1 .. 7 /\ 6 \in 1 .. 7 /\ 7 \in 1 .. 7
    OBVIOUS
  <2> QED BY <1>1, <2>1
<1>4. Symmetric(p) \subseteq found[7]
  <2> DEFINE p1 == rotateClockwise(p)
             p2 == rotateClockwise(p1)
             p3 == rotateClockwise(p2)
  <2>1. /\ p \in found[0] /\ p1 \in found[1] /\ p2 \in found[2] /\ p3 \in found[3]
    BY <1>1, <1>2, <1>3
  <2>2. {p, p1, p2, p3} \subseteq found[3]
    BY <1>2, <1>3, <2>1
  <2>3. \A q \in {p, p1, p2, p3} : q \in found[4] /\ reflectHorizontally(q) \in found[4]
    BY <1>2, <1>3, <2>2
  <2>4. found[4] \subseteq found[7]
    BY <1>2, <1>3
  <2>5. Symmetric(p) = {p, p1, p2, p3} \cup {reflectHorizontally(q) : q \in {p, p1, p2, p3}}
    BY SymmetricTurns
  <2> HIDE DEF p1, p2, p3
  <2> QED BY <2>3, <2>4, <2>5
<1>5. found[7] \subseteq Symmetric(p)
  <2>1. ASSUME NEW S, S \subseteq Symmetric(p) PROVE Turned(S) \subseteq Symmetric(p)
    BY <2>1, SymmetricClosed DEF Turned, Pieces
  <2>2. found[0] \subseteq Symmetric(p)
    BY <1>1, SymmetricTurns
  <2> QED BY <1>3, <2>1, <2>2
<1> QED BY <1>1, <1>4, <1>5

-----------------------------------------------------------------------------
(* The orders of cells and of pieces, and what it means to sort by them.   *)

LEMMA BeforeOrder ==
  /\ \A a \in Plane : ~Before(a, a)
  /\ \A a, b \in Plane : a # b => Before(a, b) \/ Before(b, a)
  /\ \A a, b, c \in Plane : Before(a, b) /\ Before(b, c) => Before(a, c)
  BY DEF Before, Plane

\* Of finitely many cells one is the first.
LEMMA FirstCell ==
  ASSUME NEW D \in Shapes
  PROVE  \E m \in D : \A d \in D : d = m \/ Before(m, d)
<1>1. D \in SUBSET Plane /\ D # {} /\ IsFiniteSet(D)
  BY DEF Shapes
<1> DEFINE i == getOrigin(D)[1]
           E == {b \in D : b[1] = i}
<1>2. /\ \A b \in D : i <= b[1]
      /\ E # {}
  BY OriginProperties
<1>3. E \in Shapes
  <2>1. IsFiniteSet(E)
    BY <1>1, FS_Subset
  <2> QED BY <1>1, <1>2, <2>1 DEF Shapes
<1>4. PICK m \in E : m[2] = getOrigin(E)[2]
  BY <1>3, OriginProperties
<1>5. \A b \in E : m[2] <= b[2]
  BY <1>3, <1>4, OriginProperties
<1>6. m \in D /\ m[1] = i
  OBVIOUS
<1>7. ASSUME NEW d \in D PROVE d = m \/ Before(m, d)
  <2>1. /\ d[1] \in Int /\ d[2] \in Int /\ d = <<d[1], d[2]>>
        /\ m[1] \in Int /\ m[2] \in Int /\ m = <<m[1], m[2]>>
    BY <1>1, <1>6, PlanePoints
  <2>2. m[1] <= d[1]
    BY <1>2, <1>6
  <2>3. d[1] = m[1] => m[2] <= d[2]
    BY <1>5, <1>6
  <2> QED BY <2>1, <2>2, <2>3 DEF Before
<1> QED BY <1>6, <1>7

\* The first cell that only one of two pieces has.
FirstDifference(p, q, m) ==
    /\ m \in p \ q
    /\ \A d \in (p \ q) \cup (q \ p) : d = m \/ Before(m, d)

LEMMA LessByFirstDifference ==
  ASSUME NEW p \in Shapes, NEW q \in Shapes
  PROVE  /\ Less(p, q) <=> \E m \in Plane : FirstDifference(p, q, m)
         /\ p # q => \E m \in Plane : FirstDifference(p, q, m) \/ FirstDifference(q, p, m)
<1>1. p \in SUBSET Plane /\ q \in SUBSET Plane /\ IsFiniteSet(p) /\ IsFiniteSet(q)
  BY DEF Shapes
<1> DEFINE D == (p \ q) \cup (q \ p)
<1>2. ASSUME p # q
      PROVE  \E m \in D : \A d \in D : d = m \/ Before(m, d)
  <2>1. D \in SUBSET Plane /\ D # {}
    BY <1>1, <1>2
  <2>2. IsFiniteSet(p \cup q)
    BY <1>1, FS_Union
  <2>3. IsFiniteSet(D)
    BY <2>2, FS_Subset
  <2>4. D \in Shapes
    BY <2>1, <2>3 DEF Shapes
  <2> QED BY <2>4, FirstCell
<1>3. ASSUME p # q
      PROVE  \E m \in Plane : FirstDifference(p, q, m) \/ FirstDifference(q, p, m)
  BY <1>1, <1>2, <1>3 DEF FirstDifference
<1>4. ASSUME Less(p, q) PROVE \E m \in Plane : FirstDifference(p, q, m)
  <2>1. PICK b \in p \ q : \A c \in q \ p : Before(b, c)
    BY <1>4 DEF Less
  <2>2. p # q
    BY <2>1
  <2>3. PICK m \in D : \A d \in D : d = m \/ Before(m, d)
    BY <1>2, <2>2
  <2>4. m \notin q \ p
    <3>1. SUFFICES ASSUME m \in q \ p PROVE FALSE
      OBVIOUS
    <3>2. Before(b, m) /\ Before(m, b)
      BY <2>1, <2>3, <3>1
    <3> QED BY <1>1, <2>1, <3>1, <3>2, BeforeOrder
  <2> QED BY <1>1, <2>3, <2>4 DEF FirstDifference
<1>5. ASSUME NEW m \in Plane, FirstDifference(p, q, m) PROVE Less(p, q)
  BY <1>5 DEF FirstDifference, Less
<1> QED BY <1>3, <1>4, <1>5

\* PolyominoComparator orders all pieces.
LEMMA LessOrder ==
  /\ \A p \in Shapes : ~Less(p, p)
  /\ \A p, q \in Shapes : p # q => Less(p, q) \/ Less(q, p)
  /\ \A p, q, r \in Shapes : Less(p, q) /\ Less(q, r) => Less(p, r)
<1>1. \A p \in Shapes : ~Less(p, p)
  BY DEF Less
<1>2. \A p, q \in Shapes : p # q => Less(p, q) \/ Less(q, p)
  BY LessByFirstDifference
<1>3. ASSUME NEW p \in Shapes, NEW q \in Shapes, NEW r \in Shapes, Less(p, q), Less(q, r)
      PROVE  Less(p, r)
  <2>1. PICK m \in Plane : FirstDifference(p, q, m)
    BY <1>3, LessByFirstDifference
  <2>2. PICK n \in Plane : FirstDifference(q, r, n)
    BY <1>3, LessByFirstDifference
  <2>3. /\ m \in p /\ m \notin q /\ n \in q /\ n \notin r
        /\ \A d \in Plane : (d \in p /\ d \notin q) \/ (d \in q /\ d \notin p)
                               => d = m \/ Before(m, d)
        /\ \A d \in Plane : (d \in q /\ d \notin r) \/ (d \in r /\ d \notin q)
                               => d = n \/ Before(n, d)
    BY <2>1, <2>2 DEF FirstDifference
  <2>4. p \in SUBSET Plane /\ r \in SUBSET Plane /\ m # n
    BY <2>3 DEF Shapes
  <2>5. CASE Before(m, n)
    <3>1. m \in p \ r
      BY <2>3, <2>4, <2>5, BeforeOrder
    <3>2. ASSUME NEW d \in (p \ r) \cup (r \ p) PROVE d = m \/ Before(m, d)
      <4>1. d \in Plane
        BY <2>4
      <4>2. CASE (d \in p /\ d \notin q) \/ (d \in q /\ d \notin p)
        BY <2>3, <4>1, <4>2
      <4>3. CASE (d \in q /\ d \notin r) \/ (d \in r /\ d \notin q)
        <5>1. d = n \/ Before(n, d)
          BY <2>3, <4>1, <4>3
        <5> QED BY <2>5, <4>1, <5>1, BeforeOrder
      <4> QED BY <4>2, <4>3
    <3>3. FirstDifference(p, r, m)
      BY <3>1, <3>2 DEF FirstDifference
    <3> QED BY <3>3, LessByFirstDifference
  <2>6. CASE Before(n, m)
    <3>1. n \in p \ r
      BY <2>3, <2>4, <2>6, BeforeOrder
    <3>2. ASSUME NEW d \in (p \ r) \cup (r \ p) PROVE d = n \/ Before(n, d)
      <4>1. d \in Plane
        BY <2>4
      <4>2. CASE (d \in q /\ d \notin r) \/ (d \in r /\ d \notin q)
        BY <2>3, <4>1, <4>2
      <4>3. CASE (d \in p /\ d \notin q) \/ (d \in q /\ d \notin p)
        <5>1. d = m \/ Before(m, d)
          BY <2>3, <4>1, <4>3
        <5> QED BY <2>6, <4>1, <5>1, BeforeOrder
      <4> QED BY <4>2, <4>3
    <3>3. FirstDifference(p, r, n)
      BY <3>1, <3>2 DEF FirstDifference
    <3> QED BY <3>3, LessByFirstDifference
  <2> QED BY <2>4, <2>5, <2>6, BeforeOrder
<1> QED BY <1>1, <1>2, <1>3

\* In a finite set with a strict total order, how many elements are below it
\* numbers the elements from 0 on.  (The order is the set R of its pairs.)
LEMMA RankNumbers ==
  ASSUME NEW S, IsFiniteSet(S), NEW R,
         \A x \in S : <<x, x>> \notin R,
         \A x, y \in S : x # y => <<x, y>> \in R \/ <<y, x>> \in R,
         \A x, y, z \in S : <<x, y>> \in R /\ <<y, z>> \in R => <<x, z>> \in R
  PROVE  [x \in S |-> Cardinality({y \in S : <<y, x>> \in R})]
            \in Bijection(S, 0 .. Cardinality(S) - 1)
<1> DEFINE Below(x) == {y \in S : <<y, x>> \in R}
           rank == [x \in S |-> Cardinality(Below(x))]
           N == Cardinality(S)
<1>1. N \in Nat
  BY FS_CardinalityType
<1>2. ASSUME NEW x \in S PROVE IsFiniteSet(Below(x)) /\ rank[x] \in 0 .. N - 1
  <2>1. IsFiniteSet(S \ {x}) /\ Cardinality(S \ {x}) = N - 1
    BY FS_RemoveElement
  <2>2. Below(x) \in SUBSET (S \ {x})
    OBVIOUS
  <2> DEFINE B == Below(x)
             E == S \ {x}
  <2> HIDE DEF B, E, N
  <2>3. IsFiniteSet(B) /\ Cardinality(B) <= Cardinality(E)
    <3>1. IsFiniteSet(E) /\ B \in SUBSET E
      BY <2>1, <2>2 DEF B, E
    <3> QED BY <3>1, FS_Subset
  <2>4. Cardinality(B) \in Nat
    BY <2>3, FS_CardinalityType
  <2>5. Cardinality(B) \in 0 .. N - 1
    BY <1>1, <2>1, <2>3, <2>4 DEF E
  <2> QED BY <2>3, <2>5 DEF B
<1>3. ASSUME NEW x \in S, NEW y \in S, <<x, y>> \in R PROVE rank[x] < rank[y]
  <2>1. Below(x) \in SUBSET (Below(y) \ {x}) /\ x \in Below(y)
    BY <1>3
  <2> HIDE DEF Below
  <2>2. /\ IsFiniteSet(Below(y) \ {x})
        /\ Cardinality(Below(y) \ {x}) = Cardinality(Below(y)) - 1
    BY <1>2, <2>1, FS_RemoveElement
  <2>3. Cardinality(Below(x)) <= Cardinality(Below(y)) - 1
    BY <2>1, <2>2, FS_Subset
  <2>4. rank[x] = Cardinality(Below(x)) /\ rank[y] = Cardinality(Below(y))
    OBVIOUS
  <2> HIDE DEF rank, N
  <2>5. rank[x] \in Int /\ rank[y] \in Int
    BY <1>1, <1>2
  <2> QED BY <2>3, <2>4, <2>5
<1>4. rank \in [S -> 0 .. N - 1]
  BY <1>2
<1>5. \A x, y \in S : rank[x] = rank[y] => x = y
  <2> SUFFICES ASSUME NEW x \in S, NEW y \in S, rank[x] = rank[y], x # y
      PROVE  FALSE
    OBVIOUS
  <2>1. rank[x] < rank[y] \/ rank[y] < rank[x]
    BY <1>3
  <2> HIDE DEF rank, N
  <2>2. rank[x] \in Int /\ rank[y] \in Int
    BY <1>1, <1>4
  <2> QED BY <2>1, <2>2
<1> HIDE DEF rank, N
<1>6. rank \in Injection(S, 0 .. N - 1)
  BY <1>4, <1>5 DEF Injection, IsInjective
<1>7. IsFiniteSet(0 .. N - 1) /\ Cardinality(0 .. N - 1) = N
  <2>1. 0 \in Int /\ N - 1 \in Int
    BY <1>1
  <2>2. /\ IsFiniteSet(0 .. N - 1)
        /\ Cardinality(0 .. N - 1) = IF 0 > N - 1 THEN 0 ELSE (N - 1) - 0 + 1
    BY <2>1, FS_Interval
  <2> QED BY <1>1, <2>2
<1>8. rank \in Surjection(S, 0 .. N - 1)
  <2>1. Cardinality(S) = Cardinality(0 .. N - 1)
    BY <1>7 DEF N
  <2> QED BY <1>6, <1>7, <2>1, FS_Injection
<1> QED BY <1>6, <1>8 DEF Bijection, rank, N

\* To list the elements by their ranks is to list each of them once.
LEMMA ListedByRank ==
  ASSUME NEW S, NEW N \in Nat, NEW rank \in Bijection(S, 0 .. N - 1), NEW order,
         order = [n \in 1 .. N |-> CHOOSE x \in S : rank[x] = n - 1]
  PROVE  order \in Bijection(1 .. N, S)
<1>1. /\ rank \in [S -> 0 .. N - 1]
      /\ \A x, y \in S : rank[x] = rank[y] => x = y
      /\ \A k \in 0 .. N - 1 : \E x \in S : rank[x] = k
  BY DEF Bijection, Injection, Surjection, IsInjective
<1>2. ASSUME NEW n \in 1 .. N PROVE order[n] \in S /\ rank[order[n]] = n - 1
  <2>1. n - 1 \in 0 .. N - 1
    OBVIOUS
  <2>2. \E x \in S : rank[x] = n - 1
    BY <1>1, <2>1
  <2>3. order[n] = CHOOSE x \in S : rank[x] = n - 1
    OBVIOUS
  <2> QED BY <2>2, <2>3
<1>3. order \in [1 .. N -> S]
  BY <1>2
<1>4. \A m, n \in 1 .. N : order[m] = order[n] => m = n
  <2> SUFFICES ASSUME NEW m \in 1 .. N, NEW n \in 1 .. N, order[m] = order[n]
      PROVE  m = n
    OBVIOUS
  <2>1. m - 1 = n - 1
    BY <1>2
  <2> QED BY <2>1
<1>5. \A x \in S : \E n \in 1 .. N : order[n] = x
  <2> SUFFICES ASSUME NEW x \in S PROVE \E n \in 1 .. N : order[n] = x
    OBVIOUS
  <2>1. PICK k \in 0 .. N - 1 : k = rank[x]
    BY <1>1
  <2>2. k + 1 \in 1 .. N /\ (k + 1) - 1 = k
    OBVIOUS
  <2>3. order[k + 1] \in S /\ rank[order[k + 1]] = rank[x]
    BY <1>2, <2>1, <2>2
  <2>4. order[k + 1] = x
    BY <1>1, <2>3
  <2> QED BY <2>2, <2>4
<1> QED BY <1>3, <1>4, <1>5 DEF Bijection, Injection, Surjection, IsInjective

\* The pieces sorted, and the cells of a piece sorted: each of them once.
LEMMA SortedPieces ==
  ASSUME NEW S \in SUBSET Shapes, IsFiniteSet(S)
  PROVE  Sorted(S, Less) \in Bijection(1 .. Cardinality(S), S)
<1> DEFINE R == {u \in S \X S : Less(u[1], u[2])}
           rank == [x \in S |-> Cardinality({y \in S : <<y, x>> \in R})]
<1>1. \A x, y \in S : <<x, y>> \in R <=> Less(x, y)
  OBVIOUS
<1> HIDE DEF R
<1>2. \A x \in S : x \in Shapes
  OBVIOUS
<1>3. /\ \A x \in S : <<x, x>> \notin R
      /\ \A x, y \in S : x # y => <<x, y>> \in R \/ <<y, x>> \in R
      /\ \A x, y, z \in S : <<x, y>> \in R /\ <<y, z>> \in R => <<x, z>> \in R
  BY <1>1, <1>2, LessOrder
<1>4. rank \in Bijection(S, 0 .. Cardinality(S) - 1)
  BY <1>3, RankNumbers
<1>5. \A x \in S : rank[x] = Cardinality({y \in S : Less(y, x)})
  <2> SUFFICES ASSUME NEW x \in S PROVE rank[x] = Cardinality({y \in S : Less(y, x)})
    OBVIOUS
  <2>1. {y \in S : <<y, x>> \in R} = {y \in S : Less(y, x)}
    BY <1>1
  <2> QED BY <2>1
<1> HIDE DEF rank
<1>6. \A n : (CHOOSE x \in S : rank[x] = n - 1)
                = CHOOSE x \in S : Cardinality({y \in S : Less(y, x)}) = n - 1
  BY <1>5
<1>7. Sorted(S, Less) = [n \in 1 .. Cardinality(S) |-> CHOOSE x \in S : rank[x] = n - 1]
  <2>1. Sorted(S, Less) =
          [n \in 1 .. Cardinality(S) |->
              CHOOSE x \in S : Cardinality({y \in S : Less(y, x)}) = n - 1]
    BY DEF Sorted
  <2> QED BY <1>6, <2>1
<1>8. Cardinality(S) \in Nat
  BY FS_CardinalityType
<1> QED BY <1>4, <1>7, <1>8, ListedByRank

LEMMA SortedCells ==
  ASSUME NEW A \in Shapes
  PROVE  Sorted(A, Before) \in Bijection(1 .. Cardinality(A), A)
<1> DEFINE R == {u \in A \X A : Before(u[1], u[2])}
           rank == [x \in A |-> Cardinality({y \in A : <<y, x>> \in R})]
<1>1. \A x, y \in A : <<x, y>> \in R <=> Before(x, y)
  OBVIOUS
<1> HIDE DEF R
<1>2. A \in SUBSET Plane /\ IsFiniteSet(A)
  BY DEF Shapes
<1>3. /\ \A x \in A : <<x, x>> \notin R
      /\ \A x, y \in A : x # y => <<x, y>> \in R \/ <<y, x>> \in R
      /\ \A x, y, z \in A : <<x, y>> \in R /\ <<y, z>> \in R => <<x, z>> \in R
  BY <1>1, <1>2, BeforeOrder
<1>4. rank \in Bijection(A, 0 .. Cardinality(A) - 1)
  <2>1. IsFiniteSet(A)
    BY <1>2
  <2> QED BY <1>3, <2>1, RankNumbers
<1>5. \A x \in A : rank[x] = Cardinality({y \in A : Before(y, x)})
  <2> SUFFICES ASSUME NEW x \in A PROVE rank[x] = Cardinality({y \in A : Before(y, x)})
    OBVIOUS
  <2>1. {y \in A : <<y, x>> \in R} = {y \in A : Before(y, x)}
    BY <1>1
  <2> QED BY <2>1
<1> HIDE DEF rank
<1>6. \A n : (CHOOSE x \in A : rank[x] = n - 1)
                = CHOOSE x \in A : Cardinality({y \in A : Before(y, x)}) = n - 1
  BY <1>5
<1>7. Sorted(A, Before) = [n \in 1 .. Cardinality(A) |-> CHOOSE x \in A : rank[x] = n - 1]
  <2>1. Sorted(A, Before) =
          [n \in 1 .. Cardinality(A) |->
              CHOOSE x \in A : Cardinality({y \in A : Before(y, x)}) = n - 1]
    BY DEF Sorted
  <2> QED BY <1>6, <2>1
<1>8. Cardinality(A) \in Nat
  BY <1>2, FS_CardinalityType
<1> QED BY <1>4, <1>7, <1>8, ListedByRank

-----------------------------------------------------------------------------
(* record: numbering what was found.                                       *)

LEMMA SymmetricFinite ==
  ASSUME NEW p \in Pieces
  PROVE  /\ Symmetric(p) \in SUBSET Pieces
         /\ IsFiniteSet(Symmetric(p))
         /\ Symmetric(p) # {}
<1>1. Symmetric(p) \in SUBSET Pieces
  BY SymmetricClosed DEF Pieces
<1> DEFINE p1 == rotateClockwise(p)
           p2 == rotateClockwise(p1)
           p3 == rotateClockwise(p2)
           Q == {p} \cup {p1} \cup {p2} \cup {p3}
           F == {reflectHorizontally(q) : q \in Q}
<1>2. Symmetric(p) = Q \cup F
  <2>1. Q = {p, p1, p2, p3}
    OBVIOUS
  <2>2. Symmetric(p) = {p, p1, p2, p3} \cup {reflectHorizontally(q) : q \in {p, p1, p2, p3}}
    BY SymmetricTurns
  <2> HIDE DEF p1, p2, p3
  <2> QED BY <2>1, <2>2
<1> HIDE DEF p1, p2, p3
<1>3. IsFiniteSet(Q)
  <2>1. \A x : IsFiniteSet({x})
    BY FS_Singleton
  <2> QED BY <2>1, FS_Union
<1>4. IsFiniteSet(F)
  <2>1. [q \in Q |-> reflectHorizontally(q)] \in Surjection(Q, F)
    BY DEF Surjection
  <2> QED BY <1>3, <2>1, FS_Surjection
<1>5. IsFiniteSet(Q \cup F)
  BY <1>3, <1>4, FS_Union
<1>6. p \in Q
  OBVIOUS
<1> QED BY <1>1, <1>2, <1>5, <1>6

\* Each element of a list has one place in it.
LEMMA PlaceInList ==
  ASSUME NEW S, NEW N \in Nat, NEW order \in Bijection(1 .. N, S), NEW x \in S,
         NEW n, n = CHOOSE i \in DOMAIN order : order[i] = x
  PROVE  n \in 1 .. N /\ order[n] = x /\ \A i \in 1 .. N : order[i] = x => i = n
  BY DEF Bijection, Injection, Surjection, IsInjective

\* record gives the least piece the next canonical id and the others the next
\* ids of transformations, each id to one piece.
LEMMA NewIdsNumber ==
  ASSUME NEW S \in SUBSET Shapes, IsFiniteSet(S), S # {},
         mCanonicalPointer \in Nat, mTransformationPointer \in Nat,
         mCanonicalPointer < mTransformationPointer
  PROVE  /\ Cardinality(S) \in Nat \ {0}
         /\ NewIds(S) \in Bijection(S, {mCanonicalPointer} \cup
               (mTransformationPointer ..
                   mTransformationPointer + Cardinality(S) - 2))
<1> DEFINE N == Cardinality(S)
           order == Sorted(S, Less)
           place(x) == CHOOSE i \in DOMAIN order : order[i] = x
           c == mCanonicalPointer
           t == mTransformationPointer
           id(n) == IF n = 1 THEN c ELSE t + n - 2
           ids == [x \in S |-> id(place(x))]
           Ids == {c} \cup (t .. t + N - 2)
<1>1. N \in Nat \ {0}
  BY FS_CardinalityType, FS_EmptySet
<1>2. NewIds(S) = ids
  BY DEF NewIds
<1>3. order \in Bijection(1 .. N, S)
  BY SortedPieces
<1> HIDE DEF order, N
<1>4. \A x \in S : /\ place(x) \in 1 .. N /\ order[place(x)] = x
                   /\ \A i \in 1 .. N : order[i] = x => i = place(x)
  <2> SUFFICES ASSUME NEW x \in S
      PROVE  /\ place(x) \in 1 .. N /\ order[place(x)] = x
             /\ \A i \in 1 .. N : order[i] = x => i = place(x)
    OBVIOUS
  <2>1. N \in Nat
    BY <1>1
  <2>2. PICK n : n = place(x)
    OBVIOUS
  <2>3. n = CHOOSE i \in DOMAIN order : order[i] = x
    BY <2>2
  <2> HIDE DEF place
  <2>4. n \in 1 .. N /\ order[n] = x /\ \A i \in 1 .. N : order[i] = x => i = n
    BY <1>3, <2>1, <2>3, PlaceInList
  <2> QED BY <2>2, <2>4
<1> HIDE DEF place
<1>5. \A n \in 1 .. N : id(n) \in Ids
  BY <1>1
<1>6. \A m, n \in 1 .. N : id(m) = id(n) => m = n
  BY <1>1
<1>7. ASSUME NEW i \in Ids PROVE \E n \in 1 .. N : id(n) = i
  <2>1. CASE i = c
    <3>1. 1 \in 1 .. N /\ id(1) = c
      BY <1>1
    <3> QED BY <2>1, <3>1
  <2>2. CASE i \in t .. t + N - 2
    <3>1. i - t + 2 \in 1 .. N /\ i - t + 2 # 1 /\ t + (i - t + 2) - 2 = i
      BY <1>1, <2>2
    <3> QED BY <3>1
  <2> QED BY <2>1, <2>2
<1> HIDE DEF id, Ids
<1>8. ids \in [S -> Ids]
  BY <1>4, <1>5
<1>9. \A x, y \in S : ids[x] = ids[y] => x = y
  BY <1>4, <1>6
<1>10. \A i \in Ids : \E x \in S : ids[x] = i
  <2> SUFFICES ASSUME NEW i \in Ids PROVE \E x \in S : ids[x] = i
    OBVIOUS
  <2>1. PICK n \in 1 .. N : id(n) = i
    BY <1>7
  <2>2. order[n] \in S
    BY <1>3 DEF Bijection, Injection
  <2>3. place(order[n]) = n
    BY <1>4, <2>2
  <2> QED BY <2>1, <2>2, <2>3
<1> HIDE DEF ids
<1>11. ids \in Bijection(S, Ids)
  BY <1>8, <1>9, <1>10 DEF Bijection, Injection, Surjection, IsInjective
<1> QED BY <1>1, <1>2, <1>11 DEF Ids, N

\* A table read backwards.
LEMMA AntiFunctionProperties ==
  ASSUME NEW S, NEW T, NEW f \in Bijection(S, T)
  PROVE  /\ DOMAIN f = S
         /\ \A s \in S : f[s] \in T
         /\ DOMAIN AntiFunction(f) = T
         /\ \A t \in T : AntiFunction(f)[t] \in S /\ f[AntiFunction(f)[t]] = t
         /\ \A s \in S : AntiFunction(f)[f[s]] = s
<1>1. /\ DOMAIN f = S /\ f \in [S -> T]
      /\ \A x, y \in S : f[x] = f[y] => x = y
      /\ \A t \in T : \E s \in S : f[s] = t
  BY DEF Bijection, Injection, Surjection, IsInjective
<1>2. Range(f) = T
  BY <1>1 DEF Range
<1>3. AntiFunction(f) = [t \in T |-> CHOOSE s \in S : t \in T => f[s] = t]
  BY <1>1, <1>2 DEF AntiFunction, Inverse
<1>4. ASSUME NEW t \in T
      PROVE  AntiFunction(f)[t] \in S /\ f[AntiFunction(f)[t]] = t
  <2>1. AntiFunction(f)[t] = CHOOSE s \in S : t \in T => f[s] = t
    BY <1>3
  <2> QED BY <1>1, <2>1
<1> QED BY <1>1, <1>3, <1>4

-----------------------------------------------------------------------------
(* The cells to try next to a piece.                                       *)

\* The recursive definition in FlattenSeq has a solution.
LEMMA FlattenExists ==
  ASSUME NEW seqs, NEW m \in Nat
  PROVE  \E f : f = [n \in 1 .. m |-> IF n = 1 THEN seqs[n] ELSE f[n - 1] \o seqs[n]]
<1> DEFINE Step(f, n) == IF n = 1 THEN seqs[n] ELSE f[n - 1] \o seqs[n]
           T == {i \in Nat : \E f : f = [n \in 1 .. i |-> Step(f, n)]}
<1>1. 0 \in T
  <2> DEFINE f == [n \in 1 .. 0 |-> 0]
  <2>1. f = [n \in 1 .. 0 |-> Step(f, n)]
    OBVIOUS
  <2> HIDE DEF f, Step
  <2> QED BY <2>1
<1>2. ASSUME NEW i \in Nat, i \in T PROVE i + 1 \in T
  <2>1. PICK f : f = [n \in 1 .. i |-> Step(f, n)]
    BY <1>2
  <2> DEFINE g == [n \in 1 .. i + 1 |-> IF n <= i THEN f[n] ELSE Step(f, n)]
  <2>2. ASSUME NEW n \in 1 .. i + 1 PROVE g[n] = Step(g, n)
    <3>1. CASE n <= i
      <4>1. g[n] = Step(f, n)
        <5>1. g[n] = f[n] /\ n \in 1 .. i
          BY <3>1
        <5> HIDE DEF g, Step
        <5> QED BY <5>1, <2>1
      <4>2. n # 1 => n - 1 \in 1 .. i + 1 /\ n - 1 <= i /\ g[n - 1] = f[n - 1]
        BY <3>1
      <4> HIDE DEF g
      <4> QED BY <4>1, <4>2
    <3>2. CASE n = i + 1
      <4>1. g[n] = Step(f, n)
        BY <3>2
      <4>2. n # 1 => n - 1 \in 1 .. i + 1 /\ n - 1 <= i /\ g[n - 1] = f[n - 1]
        BY <3>2
      <4> HIDE DEF g
      <4> QED BY <4>1, <4>2
    <3> QED BY <3>1, <3>2
  <2>3. g = [n \in 1 .. i + 1 |-> Step(g, n)]
    <3>1. g = [n \in 1 .. i + 1 |-> g[n]]
      OBVIOUS
    <3> HIDE DEF g, Step
    <3> QED BY <3>1, <2>2
  <2> HIDE DEF g, Step
  <2> QED BY <2>3
<1>3. m \in T
  <2> HIDE DEF T
  <2> QED BY <1>1, <1>2, NatSetInduction
<1> QED BY <1>3

LEMMA ConcatRange ==
  ASSUME NEW S, NEW s \in Seq(S), NEW t \in Seq(S)
  PROVE  /\ s \o t \in Seq(S)
         /\ Range(s) \subseteq Range(s \o t) /\ Range(t) \subseteq Range(s \o t)
<1>1. /\ s \o t \in Seq(S)
      /\ Len(s) \in Nat /\ Len(t) \in Nat
      /\ DOMAIN s = 1 .. Len(s) /\ DOMAIN t = 1 .. Len(t)
      /\ DOMAIN (s \o t) = 1 .. Len(s) + Len(t)
      /\ \A i \in 1 .. Len(s) + Len(t) :
            (s \o t)[i] = IF i <= Len(s) THEN s[i] ELSE t[i - Len(s)]
  BY ConcatProperties, LenProperties
<1>2. \A i \in 1 .. Len(s) : i \in DOMAIN (s \o t) /\ (s \o t)[i] = s[i]
  BY <1>1
<1>3. ASSUME NEW i \in 1 .. Len(t)
      PROVE  i + Len(s) \in DOMAIN (s \o t) /\ (s \o t)[i + Len(s)] = t[i]
  <2>1. i + Len(s) \in 1 .. Len(s) + Len(t) /\ ~(i + Len(s) <= Len(s))
        /\ (i + Len(s)) - Len(s) = i
    BY <1>1
  <2> QED BY <1>1, <2>1
<1>4. Range(s) \subseteq Range(s \o t)
  BY <1>1, <1>2 DEF Range
<1>5. Range(t) \subseteq Range(s \o t)
  BY <1>1, <1>3 DEF Range
<1> QED BY <1>1, <1>4, <1>5

\* Sequences of elements make a sequence of all their elements.
LEMMA FlattenProperties ==
  ASSUME NEW S, NEW seqs \in Seq(Seq(S))
  PROVE  /\ FlattenSeq(seqs) \in Seq(S)
         /\ \A n \in 1 .. Len(seqs) : Range(seqs[n]) \subseteq Range(FlattenSeq(seqs))
<1>1. Len(seqs) \in Nat /\ \A n \in 1 .. Len(seqs) : seqs[n] \in Seq(S)
  BY ElementOfSeq
<1>2. CASE Len(seqs) = 0
  <2>1. seqs = << >> /\ 1 .. 0 = {}
    BY <1>2
  <2> QED BY <1>2, <2>1 DEF FlattenSeq
<1>3. CASE Len(seqs) # 0
  <2> DEFINE m == Len(seqs)
             Flat(f) == f = [n \in 1 .. m |-> IF n = 1 THEN seqs[n] ELSE f[n - 1] \o seqs[n]]
             flatten == CHOOSE f : Flat(f)
  <2>1. \E f : Flat(f)
    BY <1>1, FlattenExists
  <2>2. FlattenSeq(seqs) = flatten[m]
    BY <1>3 DEF FlattenSeq
  <2>3. Flat(flatten)
    <3> HIDE DEF Flat
    <3> QED BY <2>1
  <2> HIDE DEF flatten
  <2> DEFINE Good(n) == /\ flatten[n] \in Seq(S)
                        /\ \A i \in 1 .. n : Range(seqs[i]) \subseteq Range(flatten[n])
             T == {n \in Nat : n + 1 <= m => Good(n + 1)}
  <2>4. 0 \in T
    <3>1. 1 \in 1 .. m
      BY <1>1, <1>3
    <3>2. flatten[1] = seqs[1]
      BY <2>3, <3>1
    <3>3. 0 + 1 = 1 /\ \A i \in 1 .. 1 : i = 1
      OBVIOUS
    <3>4. Good(1)
      BY <1>1, <3>1, <3>2, <3>3
    <3> HIDE DEF Good
    <3> QED BY <3>3, <3>4
  <2>5. ASSUME NEW n \in Nat, n \in T PROVE n + 1 \in T
    <3> SUFFICES ASSUME (n + 1) + 1 <= m PROVE Good((n + 1) + 1)
      OBVIOUS
    <3>1. /\ (n + 1) + 1 \in 1 .. m /\ (n + 1) + 1 # 1 /\ ((n + 1) + 1) - 1 = n + 1
          /\ n + 1 <= m /\ n + 1 \in 1 .. m
      BY <1>1
    <3> DEFINE s == flatten[n + 1]
               t == seqs[(n + 1) + 1]
    <3>2. flatten[(n + 1) + 1] = s \o t
      BY <2>3, <3>1
    <3>3. Good(n + 1)
      BY <2>5, <3>1
    <3>4. s \in Seq(S) /\ t \in Seq(S)
      BY <1>1, <3>1, <3>3
    <3>5. \A i \in 1 .. n + 1 : Range(seqs[i]) \subseteq Range(s)
      BY <3>3
    <3> HIDE DEF s
    <3>6. /\ s \o t \in Seq(S)
          /\ Range(s) \subseteq Range(s \o t) /\ Range(t) \subseteq Range(s \o t)
      BY <3>4, ConcatRange
    <3>7. \A i \in 1 .. (n + 1) + 1 : i \in 1 .. n + 1 \/ i = (n + 1) + 1
      OBVIOUS
    <3>8. \A i \in 1 .. (n + 1) + 1 : Range(seqs[i]) \subseteq Range(s \o t)
      BY <3>5, <3>6, <3>7
    <3> QED BY <3>2, <3>6, <3>8
  <2> HIDE DEF T
  <2>6. m - 1 \in T
    <3>1. m - 1 \in Nat
      BY <1>1, <1>3
    <3> QED BY <2>4, <2>5, <3>1, NatSetInduction
  <2>7. (m - 1) + 1 = m /\ m <= m
    BY <1>1
  <2>8. Good(m)
    BY <2>6, <2>7 DEF T
  <2> QED BY <2>2, <2>8
<1> QED BY <1>2, <1>3

\* Neighbours lists the edges of a piece, and cells of the piece itself.
LEMMA NeighboursProperties ==
  ASSUME NEW A \in Shapes
  PROVE  /\ Neighbours(A) \in Seq(A \cup Edges(A))
         /\ Edges(A) \subseteq Range(Neighbours(A))
<1> DEFINE beside(block) == [d \in DOMAIN Directions |-> Plus(block, Directions[d])]
           blocks == Sorted(A, Before)
           N == Cardinality(A)
<1>1. N \in Nat
  BY FS_CardinalityType DEF Shapes
<1>2. blocks \in [1 .. N -> A] /\ \A b \in A : \E n \in 1 .. N : blocks[n] = b
  BY SortedCells DEF Bijection, Injection, Surjection
<1>3. /\ Directions \in [1 .. 4 -> CardinalOffsets] /\ DOMAIN Directions = 1 .. 4
      /\ \A d \in CardinalOffsets : \E n \in 1 .. 4 : Directions[n] = d
  <2>1. /\ Directions \in [1 .. 4 -> CardinalOffsets] /\ DOMAIN Directions = 1 .. 4
        /\ Directions[1] = <<1, 0>> /\ Directions[2] = <<0, 1>>
        /\ Directions[3] = <<-1, 0>> /\ Directions[4] = <<0, -1>>
    BY DEF Directions, CardinalOffsets
  <2>2. 1 \in 1 .. 4 /\ 2 \in 1 .. 4 /\ 3 \in 1 .. 4 /\ 4 \in 1 .. 4
    OBVIOUS
  <2> QED BY <2>1, <2>2 DEF CardinalOffsets
<1> DEFINE Near == A \cup Edges(A)
<1>4. ASSUME NEW block \in A
      PROVE  /\ beside(block) \in Seq(Near)
             /\ \A d \in CardinalOffsets : Plus(block, d) \in Range(beside(block))
  <2>1. \A d \in CardinalOffsets : Plus(block, d) \in Near
    BY DEF Edges
  <2>2. beside(block) \in [1 .. 4 -> Near]
    BY <1>3, <2>1
  <2>3. \A d \in CardinalOffsets : Plus(block, d) \in Range(beside(block))
    BY <1>3 DEF Range
  <2>4. beside(block) \in Seq(Near)
    <3>1. PICK m \in Nat : m = 4
      OBVIOUS
    <3>2. beside(block) \in [1 .. m -> Near]
      BY <2>2, <3>1
    <3> HIDE DEF Near, beside
    <3> QED BY <3>2
  <2> QED BY <2>3, <2>4
<1> HIDE DEF beside, blocks, N, Near
<1> DEFINE lists == [n \in DOMAIN blocks |-> beside(blocks[n])]
<1>5. lists \in [1 .. N -> Seq(Near)]
  BY <1>1, <1>2, <1>4
<1>6. lists \in Seq(Seq(Near)) /\ Len(lists) = N
  BY <1>1, <1>5
<1>7. Neighbours(A) = FlattenSeq(lists)
  BY DEF Neighbours, beside, blocks
<1>8. \A n \in 1 .. N : lists[n] = beside(blocks[n])
  BY <1>2
<1> HIDE DEF lists
<1>9. /\ FlattenSeq(lists) \in Seq(Near)
      /\ \A n \in 1 .. N : Range(lists[n]) \subseteq Range(FlattenSeq(lists))
  BY <1>6, FlattenProperties
<1>10. ASSUME NEW c \in Edges(A) PROVE c \in Range(FlattenSeq(lists))
  <2>1. PICK b \in A, d \in CardinalOffsets : c = Plus(b, d)
    BY DEF Edges
  <2>2. PICK n \in 1 .. N : blocks[n] = b
    BY <1>2
  <2>3. c \in Range(lists[n])
    BY <1>1, <1>4, <1>8, <2>1, <2>2
  <2> QED BY <1>9, <2>3
<1> QED BY <1>7, <1>9, <1>10 DEF Near

-----------------------------------------------------------------------------
(* The tables, and what it takes to write a new shape to them.             *)

\* The tables agree with each other for the ids I: ids and pieces determine
\* each other, all positions of a shape are there, and the turns are looked up.
Agree(byId, ids, clockwise, horizontally, I) ==
    /\ byId \in Bijection(I, DOMAIN ids)
    /\ DOMAIN ids \subseteq Pieces
    /\ \A id \in I : ids[byId[id]] = id
    /\ \A p \in DOMAIN ids : Symmetric(p) \subseteq DOMAIN ids
    /\ DOMAIN clockwise = I /\ DOMAIN horizontally = I
    /\ \A id \in I : /\ clockwise[id] = ids[rotateClockwise(byId[id])]
                     /\ horizontally[id] = ids[reflectHorizontally(byId[id])]

\* Each id of I goes to the id of C for its shape, and no shape has two of C.
OnePerShape(canonical, byId, C, I) ==
    /\ \A id \in I : canonical[id] \in C /\ byId[canonical[id]] \in Symmetric(byId[id])
    /\ \A c, d \in C : byId[c] \in Symmetric(byId[d]) => c = d

LEMMA OverwrittenProperties ==
  ASSUME NEW f, NEW g
  PROVE  /\ DOMAIN Overwritten(f, g) = DOMAIN f \cup DOMAIN g
         /\ \A x \in DOMAIN g : Overwritten(f, g)[x] = g[x]
         /\ \A x \in DOMAIN f \ DOMAIN g : Overwritten(f, g)[x] = f[x]
  BY DEF Overwritten

\* Turning a piece of a closed set stays in it.
LEMMA TurnsStay ==
  ASSUME NEW D \in SUBSET Pieces, \A p \in D : Symmetric(p) \subseteq D, NEW p \in D
  PROVE  rotateClockwise(p) \in D /\ reflectHorizontally(p) \in D
<1>1. p \in Symmetric(p)
  BY SymmetricTurns
<1>2. rotateClockwise(p) \in Symmetric(p) /\ reflectHorizontally(p) \in Symmetric(p)
  BY <1>1, SymmetricClosed DEF Pieces
<1> QED BY <1>2

\* Tables that agree on their own agree when one is written over the other.
LEMMA AgreeTogether ==
  ASSUME NEW byId1, NEW ids1, NEW cw1, NEW hr1, NEW I,
         NEW byId2, NEW ids2, NEW cw2, NEW hr2, NEW J,
         Agree(byId1, ids1, cw1, hr1, I), Agree(byId2, ids2, cw2, hr2, J),
         I \cap J = {}, DOMAIN ids1 \cap DOMAIN ids2 = {}
  PROVE  Agree(Overwritten(byId1, byId2), Overwritten(ids1, ids2),
               Overwritten(cw1, cw2), Overwritten(hr1, hr2), I \cup J)
<1> DEFINE byId == Overwritten(byId1, byId2)
           ids == Overwritten(ids1, ids2)
           cw == Overwritten(cw1, cw2)
           hr == Overwritten(hr1, hr2)
           D == DOMAIN ids1
           E == DOMAIN ids2
<1>1. /\ DOMAIN byId1 = I /\ \A i \in I : byId1[i] \in D /\ ids1[byId1[i]] = i
      /\ \A p \in D : \E i \in I : byId1[i] = p
      /\ D \in SUBSET Pieces /\ \A p \in D : Symmetric(p) \subseteq D
      /\ DOMAIN cw1 = I /\ DOMAIN hr1 = I
      /\ \A i \in I : /\ cw1[i] = ids1[rotateClockwise(byId1[i])]
                      /\ hr1[i] = ids1[reflectHorizontally(byId1[i])]
  BY DEF Agree, Bijection, Injection, Surjection
<1>2. /\ DOMAIN byId2 = J /\ \A i \in J : byId2[i] \in E /\ ids2[byId2[i]] = i
      /\ \A p \in E : \E i \in J : byId2[i] = p
      /\ E \in SUBSET Pieces /\ \A p \in E : Symmetric(p) \subseteq E
      /\ DOMAIN cw2 = J /\ DOMAIN hr2 = J
      /\ \A i \in J : /\ cw2[i] = ids2[rotateClockwise(byId2[i])]
                      /\ hr2[i] = ids2[reflectHorizontally(byId2[i])]
  BY DEF Agree, Bijection, Injection, Surjection
<1>3. /\ \A i \in I : rotateClockwise(byId1[i]) \in D /\ reflectHorizontally(byId1[i]) \in D
      /\ \A i \in J : rotateClockwise(byId2[i]) \in E /\ reflectHorizontally(byId2[i]) \in E
  BY <1>1, <1>2, TurnsStay
<1>4. byId = [i \in DOMAIN byId |-> byId[i]]
  BY DEF Overwritten
<1>5. /\ DOMAIN byId = DOMAIN byId1 \cup DOMAIN byId2
      /\ \A x \in DOMAIN byId2 : byId[x] = byId2[x]
      /\ \A x \in DOMAIN byId1 \ DOMAIN byId2 : byId[x] = byId1[x]
  BY OverwrittenProperties
<1>6. /\ DOMAIN ids = D \cup E
      /\ \A x \in E : ids[x] = ids2[x]
      /\ \A x \in D \ E : ids[x] = ids1[x]
  BY OverwrittenProperties
<1>7. /\ DOMAIN cw = DOMAIN cw1 \cup DOMAIN cw2
      /\ \A x \in DOMAIN cw2 : cw[x] = cw2[x]
      /\ \A x \in DOMAIN cw1 \ DOMAIN cw2 : cw[x] = cw1[x]
  BY OverwrittenProperties
<1>8. /\ DOMAIN hr = DOMAIN hr1 \cup DOMAIN hr2
      /\ \A x \in DOMAIN hr2 : hr[x] = hr2[x]
      /\ \A x \in DOMAIN hr1 \ DOMAIN hr2 : hr[x] = hr1[x]
  BY OverwrittenProperties
<1>9. D \cap E = {}
  OBVIOUS
<1> HIDE DEF byId, ids, cw, hr, D, E
<1>10. /\ DOMAIN byId = I \cup J /\ DOMAIN cw = I \cup J /\ DOMAIN hr = I \cup J
       /\ DOMAIN ids = D \cup E
  BY <1>1, <1>2, <1>5, <1>6, <1>7, <1>8
<1>11. /\ \A i \in I : byId[i] = byId1[i] /\ cw[i] = cw1[i] /\ hr[i] = hr1[i]
       /\ \A i \in J : byId[i] = byId2[i] /\ cw[i] = cw2[i] /\ hr[i] = hr2[i]
       /\ \A p \in D : ids[p] = ids1[p]
       /\ \A p \in E : ids[p] = ids2[p]
  BY <1>1, <1>2, <1>5, <1>6, <1>7, <1>8, <1>9
<1>12. \A i \in I \cup J : byId[i] \in DOMAIN ids /\ ids[byId[i]] = i
  BY <1>1, <1>2, <1>10, <1>11
<1>13. byId \in Bijection(I \cup J, DOMAIN ids)
  <2>1. byId \in [I \cup J -> DOMAIN ids]
    BY <1>10, <1>4, <1>12
  <2>2. \A i, j \in I \cup J : byId[i] = byId[j] => i = j
    BY <1>12
  <2>3. \A p \in DOMAIN ids : \E i \in I \cup J : byId[i] = p
    BY <1>1, <1>2, <1>10, <1>11
  <2> QED BY <2>1, <2>2, <2>3 DEF Bijection, Injection, Surjection, IsInjective
<1>14. \A p \in DOMAIN ids : Symmetric(p) \subseteq DOMAIN ids
  BY <1>1, <1>2, <1>10
<1>15. \A i \in I \cup J : /\ cw[i] = ids[rotateClockwise(byId[i])]
                           /\ hr[i] = ids[reflectHorizontally(byId[i])]
  BY <1>1, <1>2, <1>3, <1>11
<1>16. DOMAIN ids \subseteq Pieces
  BY <1>1, <1>2, <1>10
<1>17. Agree(byId, ids, cw, hr, I \cup J)
  BY <1>10, <1>12, <1>13, <1>14, <1>15, <1>16 DEF Agree
<1> QED BY <1>17 DEF byId, ids, cw, hr

\* What record writes for one shape agrees.
LEMMA NewShapeAgrees ==
  ASSUME NEW p \in Pieces, NEW J, NEW ids \in Bijection(Symmetric(p), J),
         NEW byId, byId = AntiFunction(ids)
  PROVE  Agree(byId, ids, [id \in DOMAIN byId |-> ids[rotateClockwise(byId[id])]],
               [id \in DOMAIN byId |-> ids[reflectHorizontally(byId[id])]], J)
<1>1. /\ DOMAIN ids = Symmetric(p) /\ DOMAIN byId = J
      /\ \A q \in Symmetric(p) : ids[q] \in J
      /\ \A i \in J : byId[i] \in Symmetric(p) /\ ids[byId[i]] = i
      /\ \A q \in Symmetric(p) : byId[ids[q]] = q
  BY AntiFunctionProperties
<1>2. byId = [i \in J |-> byId[i]]
  BY <1>1 DEF AntiFunction, Inverse
<1>3. byId \in Bijection(J, DOMAIN ids)
  <2>1. byId \in [J -> DOMAIN ids]
    BY <1>1, <1>2
  <2>2. \A i, j \in J : byId[i] = byId[j] => i = j
    BY <1>1
  <2>3. \A q \in DOMAIN ids : \E i \in J : byId[i] = q
    BY <1>1
  <2> QED BY <2>1, <2>2, <2>3 DEF Bijection, Injection, Surjection, IsInjective
<1>4. Symmetric(p) \in SUBSET Pieces /\ \A q \in Symmetric(p) : Symmetric(q) = Symmetric(p)
  BY SymmetricFinite, SymmetricEqual
<1> QED BY <1>1, <1>3, <1>4 DEF Agree

-----------------------------------------------------------------------------
(* Extending a piece by a cell next to it.                                 *)

Extensions(A) == {normalize(A \cup {cell}) : cell \in Edges(A)}

LEMMA PlusInPlane ==
  ASSUME NEW a \in Plane, NEW b \in Plane
  PROVE  Plus(a, b) \in Plane
<1>1. a[1] \in Int /\ a[2] \in Int /\ b[1] \in Int /\ b[2] \in Int
  BY PlanePoints
<1>2. a[1] + b[1] \in Int /\ a[2] + b[2] \in Int
  BY <1>1
<1> QED BY <1>2, PlanePoints DEF Plus

LEMMA EdgesInPlane ==
  ASSUME NEW A \in Shapes, NEW c \in Edges(A)
  PROVE  c \in Plane /\ c \notin A
<1>1. PICK b \in A, d \in CardinalOffsets : c = Plus(b, d) /\ c \notin A
  BY DEF Edges
<1>2. b \in Plane /\ d \in Plane
  BY DEF Shapes, CardinalOffsets, Plane
<1> QED BY <1>1, <1>2, PlusInPlane

\* A map of the plane that keeps neighbours keeps the edges of a piece.
LEMMA ImageEdges ==
  ASSUME NEW A \in Shapes, NEW f \in [Plane -> Plane],
         \A a, b \in Plane : f[a] = f[b] => a = b,
         NEW turn \in [CardinalOffsets -> CardinalOffsets],
         \A b \in Plane, d \in CardinalOffsets : f[Plus(b, d)] = Plus(f[b], turn[d]),
         NEW c \in Edges(A), NEW F, F = {f[b] : b \in A}
  PROVE  f[c] \in Edges(F)
<1>1. A \in SUBSET Plane
  BY DEF Shapes
<1>2. PICK b \in A, d \in CardinalOffsets : c = Plus(b, d) /\ c \notin A
  BY DEF Edges
<1>3. c \in Plane
  BY EdgesInPlane
<1>4. f[c] \notin F
  BY <1>1, <1>2, <1>3
<1>5. f[c] = Plus(f[b], turn[d]) /\ turn[d] \in CardinalOffsets
  BY <1>1, <1>2
<1>6. f[c] \in Edges(F)
  BY <1>4, <1>5 DEF Edges
<1> QED BY <1>6

\* The three maps that this is used for.
LEMMA PointMaps ==
  ASSUME NEW o \in Plane
  PROVE  /\ \A a, b \in Plane : Plus(o, a) = Plus(o, b) => a = b
         /\ \A a, b \in Plane : RotatedPoint(a) = RotatedPoint(b) => a = b
         /\ \A a, b \in Plane : ReflectedPoint(a) = ReflectedPoint(b) => a = b
         /\ \A b, d \in Plane : Plus(o, Plus(b, d)) = Plus(Plus(o, b), d)
         /\ CardinalOffsets \in SUBSET Plane
         /\ \A d \in CardinalOffsets : /\ RotatedPoint(d) \in CardinalOffsets
                                       /\ ReflectedPoint(d) \in CardinalOffsets
<1>1. o[1] \in Int /\ o[2] \in Int
  BY PlanePoints
<1>2. ASSUME NEW a \in Plane, NEW b \in Plane
      PROVE  /\ Plus(o, a) = Plus(o, b) => a = b
             /\ RotatedPoint(a) = RotatedPoint(b) => a = b
             /\ ReflectedPoint(a) = ReflectedPoint(b) => a = b
             /\ Plus(o, Plus(a, b)) = Plus(Plus(o, a), b)
  <2>1. PICK i \in Int, j \in Int, m \in Int, n \in Int : a = <<i, j>> /\ b = <<m, n>>
    BY DEF Plane
  <2>2. o[1] + i = o[1] + m /\ o[2] + j = o[2] + n => i = m /\ j = n
    BY <1>1
  <2>3. /\ -j = -n /\ i = m => i = m /\ j = n
        /\ -i = -m /\ j = n => i = m /\ j = n
    OBVIOUS
  <2>4. o[1] + (i + m) = (o[1] + i) + m /\ o[2] + (j + n) = (o[2] + j) + n
    BY <1>1
  <2>5. /\ Plus(o, a) = <<o[1] + i, o[2] + j>> /\ Plus(o, b) = <<o[1] + m, o[2] + n>>
        /\ RotatedPoint(a) = <<-j, i>> /\ RotatedPoint(b) = <<-n, m>>
        /\ ReflectedPoint(a) = <<-i, j>> /\ ReflectedPoint(b) = <<-m, n>>
        /\ Plus(o, Plus(a, b)) = <<o[1] + (i + m), o[2] + (j + n)>>
        /\ Plus(Plus(o, a), b) = <<(o[1] + i) + m, (o[2] + j) + n>>
    BY <2>1 DEF Plus, RotatedPoint, ReflectedPoint
  <2> QED BY <2>1, <2>2, <2>3, <2>4, <2>5
<1>3. CardinalOffsets \in SUBSET Plane
  BY DEF CardinalOffsets, Plane
<1>4. ASSUME NEW d \in CardinalOffsets
      PROVE  RotatedPoint(d) \in CardinalOffsets /\ ReflectedPoint(d) \in CardinalOffsets
  <2>1. -0 = 0 /\ -(-1) = 1
    <3>1. \A i \in Int : -(-i) = i
      OBVIOUS
    <3>2. 1 \in Int
      OBVIOUS
    <3>3. -(-1) = 1
      BY <3>1, <3>2, Zenon
    <3> QED BY <3>3
  <2>2. \A i, j : RotatedPoint(<<i, j>>) = <<-j, i>> /\ ReflectedPoint(<<i, j>>) = <<-i, j>>
    BY DEF RotatedPoint, ReflectedPoint
  <2>3. d = <<1, 0>> \/ d = <<0, 1>> \/ d = <<-1, 0>> \/ d = <<0, -1>>
    BY DEF CardinalOffsets
  <2> QED BY <2>1, <2>2, <2>3 DEF CardinalOffsets
<1> QED BY <1>2, <1>3, <1>4

\* Where a piece lies makes no difference to its extensions.
LEMMA ExtensionsMoved ==
  ASSUME NEW A \in Shapes, NEW c \in Edges(A), NEW o \in Plane
  PROVE  /\ c \in Plane /\ c \notin A /\ A \cup {c} \in Shapes
         /\ normalize(A \cup {c}) \in Extensions(Moved(A, o))
<1> DEFINE f == [b \in Plane |-> Plus(o, b)]
           turn == [d \in CardinalOffsets |-> d]
           F == Moved(A, o)
<1>1. f \in [Plane -> Plane] /\ turn \in [CardinalOffsets -> CardinalOffsets]
  BY PlusInPlane
<1>2. \A a, b \in Plane : f[a] = f[b] => a = b
  BY PointMaps
<1>3. \A b \in Plane, d \in CardinalOffsets : f[Plus(b, d)] = Plus(f[b], turn[d])
  <2> SUFFICES ASSUME NEW b \in Plane, NEW d \in CardinalOffsets
      PROVE  f[Plus(b, d)] = Plus(f[b], turn[d])
    OBVIOUS
  <2>1. d \in Plane /\ Plus(b, d) \in Plane
    BY PointMaps, PlusInPlane
  <2> QED BY <2>1, PointMaps
<1>4. F = {f[b] : b \in A}
  BY DEF Moved, Shapes
<1>5. f[c] = Plus(o, c) \/ c \notin Plane
  OBVIOUS
<1> HIDE DEF f, turn, F
<1>6. c \in Plane /\ c \notin A /\ f[c] \in Edges(F)
  <2>1. f[c] \in Edges(F)
    BY <1>1, <1>2, <1>3, <1>4, ImageEdges
  <2> QED BY <2>1, EdgesInPlane
<1>7. A \cup {c} \in Shapes
  BY <1>6, FS_AddElement DEF Shapes
<1>8. Moved(A \cup {c}, o) = F \cup {f[c]}
  BY <1>5, <1>6 DEF Moved, F
<1>9. normalize(A \cup {c}) = normalize(F \cup {f[c]})
  BY <1>7, <1>8, NormalizeProperties
<1> QED BY <1>6, <1>7, <1>9 DEF Extensions, F

\* The turned extensions of a piece are extensions of the turned piece.
LEMMA ExtensionsTurned ==
  ASSUME NEW A \in Shapes, NEW c \in Edges(A)
  PROVE  /\ rotateClockwise(normalize(A \cup {c})) \in Extensions(rotateClockwise(A))
         /\ reflectHorizontally(normalize(A \cup {c})) \in Extensions(reflectHorizontally(A))
<1>1. \A b \in Plane : RotatedPoint(b) \in Plane /\ ReflectedPoint(b) \in Plane
  BY TurnedPoint
<1>2. PICK o \in Plane : o = <<0, 0>>
  <2>1. 0 \in Int
    OBVIOUS
  <2> QED BY <2>1, PlanePoints
<1>3. /\ CardinalOffsets \in SUBSET Plane
      /\ \A d \in CardinalOffsets : /\ RotatedPoint(d) \in CardinalOffsets
                                    /\ ReflectedPoint(d) \in CardinalOffsets
      /\ \A a, b \in Plane : RotatedPoint(a) = RotatedPoint(b) => a = b
      /\ \A a, b \in Plane : ReflectedPoint(a) = ReflectedPoint(b) => a = b
  BY <1>2, PointMaps
<1>4. c \in Plane /\ A \cup {c} \in Shapes
  BY <1>2, ExtensionsMoved
<1>5. RotatedPoint(c) \in Edges(Rotated(A))
  <2> DEFINE f == [b \in Plane |-> RotatedPoint(b)]
             turn == [d \in CardinalOffsets |-> RotatedPoint(d)]
             F == Rotated(A)
  <2>1. f \in [Plane -> Plane] /\ turn \in [CardinalOffsets -> CardinalOffsets]
    BY <1>1, <1>3
  <2>2. \A a, b \in Plane : f[a] = f[b] => a = b
    BY <1>3
  <2>3. \A b \in Plane, d \in CardinalOffsets : f[Plus(b, d)] = Plus(f[b], turn[d])
    BY <1>3, PlusInPlane, TurnedPoint
  <2>4. F = {f[b] : b \in A}
    BY DEF Rotated, Shapes
  <2>5. f[c] = RotatedPoint(c)
    BY <1>4
  <2> HIDE DEF f, turn, F
  <2>6. f[c] \in Edges(F)
    BY <2>1, <2>2, <2>3, <2>4, ImageEdges
  <2> QED BY <2>5, <2>6 DEF F
<1>6. ReflectedPoint(c) \in Edges(Reflected(A))
  <2> DEFINE f == [b \in Plane |-> ReflectedPoint(b)]
             turn == [d \in CardinalOffsets |-> ReflectedPoint(d)]
             F == Reflected(A)
  <2>1. f \in [Plane -> Plane] /\ turn \in [CardinalOffsets -> CardinalOffsets]
    BY <1>1, <1>3
  <2>2. \A a, b \in Plane : f[a] = f[b] => a = b
    BY <1>3
  <2>3. \A b \in Plane, d \in CardinalOffsets : f[Plus(b, d)] = Plus(f[b], turn[d])
    BY <1>3, PlusInPlane, TurnedPoint
  <2>4. F = {f[b] : b \in A}
    BY DEF Reflected, Shapes
  <2>5. f[c] = ReflectedPoint(c)
    BY <1>4
  <2> HIDE DEF f, turn, F
  <2>6. f[c] \in Edges(F)
    BY <2>1, <2>2, <2>3, <2>4, ImageEdges
  <2> QED BY <2>5, <2>6 DEF F
<1>7. /\ Rotated(A \cup {c}) = Rotated(A) \cup {RotatedPoint(c)}
      /\ Reflected(A \cup {c}) = Reflected(A) \cup {ReflectedPoint(c)}
  BY DEF Rotated, Reflected
<1>8. ASSUME NEW B \in Shapes, NEW d \in Edges(B)
      PROVE  normalize(B \cup {d}) \in Extensions(normalize(B))
  <2>1. PICK v \in Plane : normalize(B) = Moved(B, v)
    BY NormalizeProperties
  <2> QED BY <2>1, ExtensionsMoved
<1>9. Rotated(A) \in Shapes /\ Reflected(A) \in Shapes
  BY TurnProperties
<1>10. /\ rotateClockwise(normalize(A \cup {c})) = normalize(Rotated(A) \cup {RotatedPoint(c)})
       /\ reflectHorizontally(normalize(A \cup {c}))
             = normalize(Reflected(A) \cup {ReflectedPoint(c)})
       /\ rotateClockwise(A) = normalize(Rotated(A))
       /\ reflectHorizontally(A) = normalize(Reflected(A))
  BY <1>4, <1>7, TurnNormalized
<1> QED BY <1>5, <1>6, <1>8, <1>9, <1>10

LEMMA ExtensionsProperties ==
  ASSUME NEW A \in Shapes, NEW e \in Extensions(A)
  PROVE  /\ e \in Pieces
         /\ rotateClockwise(e) \in Extensions(rotateClockwise(A))
         /\ reflectHorizontally(e) \in Extensions(reflectHorizontally(A))
<1>1. PICK c \in Edges(A) : e = normalize(A \cup {c})
  BY DEF Extensions
<1>2. A \cup {c} \in Shapes
  BY EdgesInPlane, FS_AddElement DEF Shapes
<1>3. e \in Pieces
  BY <1>1, <1>2, NormalizeProperties DEF Pieces
<1> QED BY <1>1, <1>3, ExtensionsTurned

\* Of pieces that are turned into each other, if the extensions of one are in
\* a set with all positions of its pieces, so are those of the other.
LEMMA ExtensionsClosed ==
  ASSUME NEW D \in SUBSET Pieces, \A e \in D : Symmetric(e) \subseteq D,
         NEW p \in Pieces, Extensions(p) \subseteq D, NEW q \in Symmetric(p)
  PROVE  Extensions(q) \subseteq D
<1> DEFINE S == {r \in Pieces : Extensions(r) \subseteq D}
<1>1. \A r \in Pieces : r \in Symmetric(r)
  BY SymmetricTurns
<1>2. \A r \in Pieces : \A s \in Symmetric(r) :
         /\ s \in Pieces
         /\ rotateClockwise(s) \in Symmetric(r) /\ reflectHorizontally(s) \in Symmetric(r)
  BY SymmetricClosed DEF Pieces
<1>3. \A r \in Pieces : \A e \in Extensions(r) :
         /\ e \in Pieces
         /\ rotateClockwise(e) \in Extensions(rotateClockwise(r))
         /\ reflectHorizontally(e) \in Extensions(reflectHorizontally(r))
  BY ExtensionsProperties DEF Pieces
<1>4. ASSUME NEW r \in Pieces, NEW s \in Symmetric(r), s \in D PROVE r \in D
  BY <1>1, <1>4, SymmetricEqual
<1>5. ASSUME NEW r \in S PROVE rotateClockwise(r) \in S
  <2> DEFINE r1 == rotateClockwise(r)
             r2 == rotateClockwise(r1)
             r3 == rotateClockwise(r2)
  <2>1. r1 \in Pieces /\ r2 \in Pieces /\ r3 \in Pieces
    BY <1>1, <1>2
  <2>2. rotateClockwise(r3) = r
    BY SymmetricTurns
  <2>3. ASSUME NEW f \in Extensions(r1) PROVE f \in D
    <3> DEFINE f1 == rotateClockwise(f)
               f2 == rotateClockwise(f1)
               f3 == rotateClockwise(f2)
    <3>1. f \in Pieces
      BY <1>3, <2>1
    <3>2. f1 \in Extensions(r2)
      BY <1>3, <2>1
    <3>3. f2 \in Extensions(r3)
      BY <1>3, <2>1, <3>2
    <3>4. f3 \in Extensions(r)
      BY <1>3, <2>1, <2>2, <3>3
    <3>5. f3 \in D
      BY <3>4
    <3>6. f3 \in Symmetric(f)
      BY <1>1, <1>2, <3>1
    <3> QED BY <1>4, <3>1, <3>5, <3>6
  <2> QED BY <2>1, <2>3
<1>6. ASSUME NEW r \in S PROVE reflectHorizontally(r) \in S
  <2> DEFINE r1 == reflectHorizontally(r)
  <2>1. r1 \in Pieces
    BY <1>1, <1>2
  <2>2. reflectHorizontally(r1) = r
    BY SymmetricTurns
  <2>3. ASSUME NEW f \in Extensions(r1) PROVE f \in D
    <3>1. f \in Pieces
      BY <1>3, <2>1
    <3>2. reflectHorizontally(f) \in Extensions(r)
      BY <1>3, <2>1, <2>2
    <3>3. reflectHorizontally(f) \in D
      BY <3>2
    <3>4. reflectHorizontally(f) \in Symmetric(f)
      BY <1>1, <1>2, <3>1
    <3> QED BY <1>4, <3>1, <3>3, <3>4
  <2> QED BY <2>1, <2>3
<1>7. p \in S
  OBVIOUS
<1> HIDE DEF S
<1>8. q \in S
  BY <1>5, <1>6, <1>7, SymmetricLeast
<1> QED BY <1>8 DEF S

-----------------------------------------------------------------------------
(* All pieces of a size.                                                   *)

\* Moving a piece to the origin keeps its cells.
LEMMA NormalizeCardinality ==
  ASSUME NEW A \in Shapes
  PROVE  Cardinality(normalize(A)) = Cardinality(A)
<1>1. PICK v \in Plane : normalize(A) = Moved(A, v)
  BY NormalizeProperties
<1> DEFINE f == [b \in A |-> Plus(v, b)]
           B == Moved(A, v)
<1>2. B = {f[b] : b \in A}
  BY DEF Moved
<1>3. \A a, b \in A : f[a] = f[b] => a = b
  BY PointMaps DEF Shapes
<1>4. f \in [A -> B] /\ \A c \in B : \E b \in A : f[b] = c
  BY <1>2
<1> HIDE DEF f, B
<1>5. f \in Bijection(A, B)
  BY <1>3, <1>4 DEF Bijection, Injection, Surjection, IsInjective
<1>6. ExistsBijection(A, B) /\ IsFiniteSet(A)
  BY <1>5 DEF ExistsBijection, Shapes
<1>7. Cardinality(B) = Cardinality(A)
  BY <1>6, FS_Bijection
<1> QED BY <1>1, <1>7 DEF B

LEMMA MonominoProperties ==
  /\ Monomino \in Pieces
  /\ Cardinality(Monomino) = 1
  /\ rotateClockwise(Monomino) = Monomino
  /\ reflectHorizontally(Monomino) = Monomino
<1>1. PICK o \in Plane : o = <<0, 0>> /\ o[1] = 0 /\ o[2] = 0
  <2>1. 0 \in Int
    OBVIOUS
  <2> QED BY <2>1, PlanePoints
<1>2. Monomino = {o} /\ IsFiniteSet(Monomino) /\ Cardinality(Monomino) = 1
  BY <1>1, FS_Singleton DEF Monomino
<1>3. Monomino \in Shapes
  BY <1>2 DEF Shapes
<1>4. getOrigin(Monomino) = o
  BY <1>1, <1>2, <1>3, OriginUnique
<1>5. -0 = 0 /\ 0 + 0 = 0
  <2>1. -0 = 0
    <3>1. \A i \in Int : -i + i = 0
      OBVIOUS
    <3>2. \A i \in Int : i + 0 = i
      OBVIOUS
    <3>3. 0 \in Int /\ -0 \in Int
      OBVIOUS
    <3>4. -0 + 0 = 0 /\ -0 + 0 = -0
      BY <3>1, <3>2, <3>3, Zenon
    <3> QED BY <3>4
  <2>2. 0 + 0 = 0
    OBVIOUS
  <2> QED BY <2>1, <2>2
<1>6. Plus(o, o) = o /\ RotatedPoint(o) = o /\ ReflectedPoint(o) = o
  BY <1>1, <1>5 DEF Plus, RotatedPoint, ReflectedPoint
<1>7. normalize(Monomino) = Monomino
  <2>1. normalize(Monomino) = Moved(Monomino, o)
    BY <1>1, <1>4, <1>5 DEF normalize
  <2> QED BY <1>2, <1>6, <2>1 DEF Moved
<1>8. Rotated(Monomino) = Monomino /\ Reflected(Monomino) = Monomino
  BY <1>2, <1>6 DEF Rotated, Reflected
<1> QED BY <1>2, <1>3, <1>7, <1>8, TurnNormalized DEF Pieces

\* The recursive definition of AllPieces has a solution.
LEMMA AllPiecesExists ==
  ASSUME NEW m \in Nat
  PROVE  \E f : f = [n \in 1 .. m |-> IF n = 1 THEN {Monomino}
                                      ELSE UNION {Extensions(p) : p \in f[n - 1]}]
<1> DEFINE Step(f, n) == IF n = 1 THEN {Monomino}
                         ELSE UNION {Extensions(p) : p \in f[n - 1]}
           T == {i \in Nat : \E f : f = [n \in 1 .. i |-> Step(f, n)]}
<1>1. 0 \in T
  <2> DEFINE f == [n \in 1 .. 0 |-> 0]
  <2>1. f = [n \in 1 .. 0 |-> Step(f, n)]
    OBVIOUS
  <2> HIDE DEF f, Step
  <2> QED BY <2>1
<1>2. ASSUME NEW i \in Nat, i \in T PROVE i + 1 \in T
  <2>1. PICK f : f = [n \in 1 .. i |-> Step(f, n)]
    BY <1>2
  <2> DEFINE g == [n \in 1 .. i + 1 |-> IF n <= i THEN f[n] ELSE Step(f, n)]
  <2>2. ASSUME NEW n \in 1 .. i + 1 PROVE g[n] = Step(g, n)
    <3>1. CASE n <= i
      <4>1. g[n] = Step(f, n)
        <5>1. g[n] = f[n] /\ n \in 1 .. i
          BY <3>1
        <5> HIDE DEF g, Step
        <5> QED BY <5>1, <2>1
      <4>2. n # 1 => n - 1 \in 1 .. i + 1 /\ n - 1 <= i /\ g[n - 1] = f[n - 1]
        BY <3>1
      <4> HIDE DEF g
      <4> QED BY <4>1, <4>2
    <3>2. CASE n = i + 1
      <4>1. g[n] = Step(f, n)
        BY <3>2
      <4>2. n # 1 => n - 1 \in 1 .. i + 1 /\ n - 1 <= i /\ g[n - 1] = f[n - 1]
        BY <3>2
      <4> HIDE DEF g
      <4> QED BY <4>1, <4>2
    <3> QED BY <3>1, <3>2
  <2>3. g = [n \in 1 .. i + 1 |-> Step(g, n)]
    <3>1. g = [n \in 1 .. i + 1 |-> g[n]]
      OBVIOUS
    <3> HIDE DEF g, Step
    <3> QED BY <3>1, <2>2
  <2> HIDE DEF g, Step
  <2> QED BY <2>3
<1>3. m \in T
  <2> HIDE DEF T
  <2> QED BY <1>1, <1>2, NatSetInduction
<1> QED BY <1>3

LEMMA AllPiecesUnfold ==
  /\ AllPieces[1] = {Monomino}
  /\ \A n \in 2 .. MaxBlocks : AllPieces[n] = UNION {Extensions(p) : p \in AllPieces[n - 1]}
<1> DEFINE All(f) == f = [n \in 1 .. MaxBlocks |->
                             IF n = 1 THEN {Monomino}
                             ELSE UNION {Extensions(p) : p \in f[n - 1]}]
<1>1. MaxBlocks \in Nat \ {0}
  BY GeneratorAssumption
<1>2. AllPieces = CHOOSE f : All(f)
  BY DEF AllPieces, Extensions
<1>3. \E f : All(f)
  BY <1>1, AllPiecesExists
<1>4. All(AllPieces)
  <2> HIDE DEF All
  <2> QED BY <1>2, <1>3
<1>5. AllPieces = [n \in 1 .. MaxBlocks |->
                      IF n = 1 THEN {Monomino}
                      ELSE UNION {Extensions(p) : p \in AllPieces[n - 1]}]
  BY <1>4
<1>6. AllPieces[1] = {Monomino}
  BY <1>1, <1>5
<1>7. ASSUME NEW n \in 2 .. MaxBlocks
      PROVE  AllPieces[n] = UNION {Extensions(p) : p \in AllPieces[n - 1]}
  <2>1. n \in 1 .. MaxBlocks /\ n # 1
    BY <1>1
  <2> QED BY <1>5, <2>1
<1> QED BY <1>6, <1>7

\* A piece of AllPieces[n] lies at the origin, has n cells, and all positions
\* of it are there.
LEMMA LevelProperties ==
  ASSUME NEW n \in 1 .. MaxBlocks, NEW q \in AllPieces[n]
  PROVE  /\ q \in Pieces
         /\ Cardinality(q) = n
         /\ Symmetric(q) \subseteq AllPieces[n]
<1> DEFINE Good(i) == \A r \in AllPieces[i] :
                         /\ r \in Pieces /\ Cardinality(r) = i
                         /\ rotateClockwise(r) \in AllPieces[i]
                         /\ reflectHorizontally(r) \in AllPieces[i]
           T == {i \in Nat : i + 1 <= MaxBlocks => Good(i + 1)}
<1>1. MaxBlocks \in Nat \ {0}
  BY GeneratorAssumption
<1>2. 0 \in T
  <2>1. Good(1)
    BY AllPiecesUnfold, MonominoProperties
  <2>2. 0 + 1 = 1
    OBVIOUS
  <2> HIDE DEF Good
  <2> QED BY <2>1, <2>2
<1>3. ASSUME NEW i \in Nat, i \in T PROVE i + 1 \in T
  <2> SUFFICES ASSUME (i + 1) + 1 <= MaxBlocks PROVE Good((i + 1) + 1)
    OBVIOUS
  <2>1. i + 1 <= MaxBlocks
    BY <1>1
  <2>2. Good(i + 1)
    BY <1>3, <2>1
  <2>3. (i + 1) + 1 \in 2 .. MaxBlocks /\ ((i + 1) + 1) - 1 = i + 1
    BY <1>1
  <2>4. AllPieces[(i + 1) + 1] = UNION {Extensions(p) : p \in AllPieces[i + 1]}
    BY <2>3, AllPiecesUnfold
  <2>5. ASSUME NEW r \in AllPieces[(i + 1) + 1]
        PROVE  /\ r \in Pieces /\ Cardinality(r) = (i + 1) + 1
               /\ rotateClockwise(r) \in AllPieces[(i + 1) + 1]
               /\ reflectHorizontally(r) \in AllPieces[(i + 1) + 1]
    <3>1. PICK p \in AllPieces[i + 1] : r \in Extensions(p)
      BY <2>4
    <3>2. /\ p \in Pieces /\ p \in Shapes /\ Cardinality(p) = i + 1
          /\ rotateClockwise(p) \in AllPieces[i + 1]
          /\ reflectHorizontally(p) \in AllPieces[i + 1]
      BY <2>2 DEF Pieces
    <3>3. /\ r \in Pieces
          /\ rotateClockwise(r) \in Extensions(rotateClockwise(p))
          /\ reflectHorizontally(r) \in Extensions(reflectHorizontally(p))
      BY <3>1, <3>2, ExtensionsProperties
    <3>4. PICK c \in Edges(p) : r = normalize(p \cup {c})
      BY <3>1 DEF Extensions
    <3>5. c \in Plane /\ c \notin p
      BY <3>2, EdgesInPlane
    <3>6. IsFiniteSet(p)
      BY <3>2 DEF Shapes
    <3>7. IsFiniteSet(p \cup {c}) /\ Cardinality(p \cup {c}) = Cardinality(p) + 1
      BY <3>5, <3>6, FS_AddElement
    <3>8. p \cup {c} \in Shapes
      BY <3>2, <3>5, <3>7 DEF Shapes
    <3>9. Cardinality(r) = (i + 1) + 1
      BY <3>2, <3>4, <3>7, <3>8, NormalizeCardinality
    <3> QED BY <2>4, <3>2, <3>3, <3>9
  <2> QED BY <2>5
<1>4. n - 1 \in Nat /\ (n - 1) + 1 = n /\ n <= MaxBlocks
  BY <1>1
<1> HIDE DEF T
<1>5. n - 1 \in T
  BY <1>2, <1>3, <1>4, NatSetInduction
<1>6. Good(n)
  BY <1>4, <1>5 DEF T
<1> QED BY <1>6, SymmetricLeast

-----------------------------------------------------------------------------
(* The invariant, while the table has room for the canonical pieces.       *)

Known == DOMAIN idByPolyomino

InUse == (0 .. mCanonicalPointer - 1) \cup (CanonicalCount .. mTransformationPointer - 1)

NumbersInv ==
    /\ mTransformationPointer \in Nat
    /\ CanonicalCount <= mTransformationPointer

TablesInv == Agree(polyominoById, idByPolyomino, clockwiseRotatedIds,
                   horizontallyReflectedIds, InUse)

CanonicalInv ==
    /\ OnePerShape(transformedToCanonical, polyominoById, 0 .. mCanonicalPointer - 1, InUse)
    /\ DOMAIN transformedToCanonical
          = (0 .. CanonicalCount - 1) \cup (CanonicalCount .. mTransformationPointer - 1)
    /\ \A c \in 0 .. CanonicalCount - 1 : transformedToCanonical[c] = c

LibraryInv == NumbersInv /\ TablesInv /\ CanonicalInv

\* The queue holds known pieces; what is tried is next to the current piece.
QueueInv ==
    /\ pieceSize \in 1 .. MaxBlocks
    /\ growing \in BOOLEAN
    /\ sourceCanonicalPieces \in Seq(Known)
    /\ pieceSizeCount \in 0 .. Len(sourceCanonicalPieces)
    /\ candidates \in Seq(currentPiece \cup Edges(currentPiece))
    /\ candidates # << >> => growing /\ currentPiece \in AllPieces[pieceSize]

UpTo(size) == UNION {AllPieces[n] : n \in 1 .. size}

\* Between levels every piece of the last level is in the queue, in one of its
\* positions.
BetweenInv ==
    ~growing =>
      /\ Known = UpTo(pieceSize)
      /\ \A i \in 1 .. Len(sourceCanonicalPieces) :
            sourceCanonicalPieces[i] \in AllPieces[pieceSize]
      /\ \A q \in AllPieces[pieceSize] : \E i \in 1 .. Len(sourceCanonicalPieces) :
            q \in Symmetric(sourceCanonicalPieces[i])

\* A piece of the level: its shape is still in the queue, or being extended,
\* or all its extensions are known.
Waiting(q) == \E i \in 1 .. pieceSizeCount : q \in Symmetric(sourceCanonicalPieces[i])

BeingExtended(q) ==
    /\ currentPiece \in AllPieces[pieceSize]
    /\ q \in Symmetric(currentPiece)
    /\ \A cell \in Edges(currentPiece) :
          cell \in Range(candidates) \/ normalize(currentPiece \cup {cell}) \in Known

\* In the queue the rest of the level comes first, then the new pieces, each
\* shape of them once or more.
GrowingInv ==
    growing =>
      /\ pieceSize < MaxBlocks
      /\ UpTo(pieceSize) \subseteq Known /\ Known \subseteq UpTo(pieceSize + 1)
      /\ \A i \in 1 .. pieceSizeCount : sourceCanonicalPieces[i] \in AllPieces[pieceSize]
      /\ \A i \in pieceSizeCount + 1 .. Len(sourceCanonicalPieces) :
            sourceCanonicalPieces[i] \in AllPieces[pieceSize + 1]
      /\ \A q \in Known \cap AllPieces[pieceSize + 1] :
            \E i \in pieceSizeCount + 1 .. Len(sourceCanonicalPieces) :
               q \in Symmetric(sourceCanonicalPieces[i])
      /\ \A q \in AllPieces[pieceSize] :
            Waiting(q) \/ BeingExtended(q) \/ Extensions(q) \subseteq Known

SearchInv == QueueInv /\ BetweenInv /\ GrowingInv

Room == mCanonicalPointer <= CanonicalCount

IInv == /\ mCanonicalPointer \in Nat \ {0}
        /\ Room => LibraryInv /\ SearchInv

\* The ids that a new shape takes come after those in use.
LEMMA NewIdsUnused ==
  ASSUME NEW c \in Nat \ {0}, NEW C \in Nat, NEW t \in Nat, NEW N \in Nat \ {0},
         c < C, C <= t
  PROVE  LET I == (0 .. c - 1) \cup (C .. t - 1)
             J == {c} \cup (t .. t + N - 2)
         IN  /\ I \cap J = {}
             /\ I \cup J = (0 .. (c + 1) - 1) \cup (C .. (t + N - 1) - 1)
             /\ c \in J /\ c \in 0 .. C - 1
             /\ \A j \in J \ {c} : j \in t .. (t + N - 1) - 1 /\ ~(j \in 0 .. C - 1)
             /\ \A j \in t .. (t + N - 1) - 1 : j \in J \ {c}
             /\ 0 .. (c + 1) - 1 = (0 .. c - 1) \cup {c}
             /\ t + N - 1 \in Nat /\ C <= t + N - 1
             /\ C .. t - 1 \subseteq C .. (t + N - 1) - 1
             /\ t .. (t + N - 1) - 1 \subseteq C .. (t + N - 1) - 1
<1>1. /\ c \in Int /\ C \in Int /\ t \in Int /\ N \in Int
      /\ 1 <= c /\ c < C /\ C <= t /\ 1 <= N
  OBVIOUS
<1> QED BY <1>1

\* record writes a shape that is not known: all its positions are known then,
\* one of them waits in the queue, and the tables go on agreeing.
LEMMA RecordStep ==
  ASSUME NEW p \in Pieces, p \notin Known, mCanonicalPointer \in Nat \ {0},
         mCanonicalPointer + 1 <= CanonicalCount, LibraryInv, Record(Symmetric(p))
  PROVE  /\ mCanonicalPointer' = mCanonicalPointer + 1
         /\ LibraryInv'
         /\ Known' = Known \cup Symmetric(p)
         /\ \E r \in Symmetric(p) : sourceCanonicalPieces' = Append(sourceCanonicalPieces, r)
<1> DEFINE S == Symmetric(p)
           N == Cardinality(S)
           c == mCanonicalPointer
           t == mTransformationPointer
           ids == NewIds(S)
           byId == AntiFunction(ids)
           J == {c} \cup (t .. t + N - 2)
<1>1. /\ c \in Nat \ {0} /\ t \in Nat /\ c < CanonicalCount /\ CanonicalCount <= t
      /\ CanonicalCount \in Nat /\ c < t
  BY GeneratorAssumption DEF LibraryInv, NumbersInv
<1>2. S \in SUBSET Pieces /\ S \in SUBSET Shapes /\ IsFiniteSet(S) /\ S # {}
  BY SymmetricFinite DEF Pieces
<1>3. N \in Nat \ {0} /\ ids \in Bijection(S, J)
  BY <1>1, <1>2, NewIdsNumber
<1>4. /\ sourceCanonicalPieces' = Append(sourceCanonicalPieces, byId[c])
      /\ polyominoById' = Overwritten(polyominoById, byId)
      /\ idByPolyomino' = Overwritten(idByPolyomino, ids)
      /\ transformedToCanonical' =
            Overwritten(transformedToCanonical, [id \in DOMAIN byId \ {c} |-> c])
      /\ clockwiseRotatedIds' =
            Overwritten(clockwiseRotatedIds,
                        [id \in DOMAIN byId |-> ids[rotateClockwise(byId[id])]])
      /\ horizontallyReflectedIds' =
            Overwritten(horizontallyReflectedIds,
                        [id \in DOMAIN byId |-> ids[reflectHorizontally(byId[id])]])
      /\ mCanonicalPointer' = c + 1
      /\ mTransformationPointer' = t + N - 1
  BY DEF Record, RecordTransformations
<1>5. /\ DOMAIN ids = S /\ DOMAIN byId = J
      /\ \A j \in J : byId[j] \in S
  BY <1>3, AntiFunctionProperties
<1>6. Agree(byId, ids, [id \in DOMAIN byId |-> ids[rotateClockwise(byId[id])]],
            [id \in DOMAIN byId |-> ids[reflectHorizontally(byId[id])]], J)
  BY <1>3, NewShapeAgrees
<1>7. \A q \in S : Symmetric(q) = S
  BY SymmetricEqual
<1>8. Known \cap S = {}
  <2>1. p \in S
    BY SymmetricTurns
  <2>2. \A q \in Known : Symmetric(q) \subseteq Known
    BY DEF LibraryInv, TablesInv, Agree, Known
  <2> QED BY <1>7, <2>1, <2>2
<1> HIDE DEF S, N, ids, byId
<1>9. /\ InUse \cap J = {}
      /\ InUse' = InUse \cup J
      /\ c \in J /\ c \in 0 .. CanonicalCount - 1
      /\ \A j \in J \ {c} : j \in t .. (t + N - 1) - 1 /\ ~(j \in 0 .. CanonicalCount - 1)
      /\ \A j \in t .. (t + N - 1) - 1 : j \in J \ {c}
      /\ 0 .. (c + 1) - 1 = (0 .. c - 1) \cup {c}
      /\ t + N - 1 \in Nat /\ CanonicalCount <= t + N - 1
      /\ CanonicalCount .. t - 1 \subseteq CanonicalCount .. (t + N - 1) - 1
      /\ t .. (t + N - 1) - 1 \subseteq CanonicalCount .. (t + N - 1) - 1
  BY <1>1, <1>3, <1>4, NewIdsUnused DEF InUse
<1>10. TablesInv'
  <2>1. Agree(polyominoById, idByPolyomino, clockwiseRotatedIds,
              horizontallyReflectedIds, InUse)
    BY DEF LibraryInv, TablesInv
  <2>2. DOMAIN idByPolyomino \cap DOMAIN ids = {}
    BY <1>5, <1>8 DEF Known
  <2>3. Agree(polyominoById', idByPolyomino', clockwiseRotatedIds',
              horizontallyReflectedIds', InUse \cup J)
    BY <1>4, <1>6, <1>9, <2>1, <2>2, AgreeTogether
  <2> QED BY <1>9, <2>3 DEF TablesInv
<1>11. Known' = Known \cup S
  BY <1>4, <1>5, OverwrittenProperties DEF Known
<1>12. NumbersInv'
  BY <1>4, <1>9 DEF NumbersInv
<1>13. CanonicalInv'
  <2> DEFINE old == transformedToCanonical
             new == [id \in J \ {c} |-> c]
             table == Overwritten(old, new)
             pieces == Overwritten(polyominoById, byId)
             Before0 == 0 .. c - 1
  <2>1. /\ \A id \in InUse : old[id] \in Before0 /\ polyominoById[old[id]] \in Symmetric(polyominoById[id])
        /\ \A a, b \in Before0 : polyominoById[a] \in Symmetric(polyominoById[b]) => a = b
        /\ DOMAIN old = (0 .. CanonicalCount - 1) \cup (CanonicalCount .. t - 1)
        /\ \A a \in 0 .. CanonicalCount - 1 : old[a] = a
    BY DEF LibraryInv, CanonicalInv, OnePerShape
  <2>2. /\ DOMAIN polyominoById = InUse
        /\ \A id \in InUse : polyominoById[id] \in Known
        /\ \A q \in Known : Symmetric(q) \subseteq Known
    BY DEF LibraryInv, TablesInv, Agree, Bijection, Injection, Known
  <2>3. DOMAIN new = J \ {c} /\ \A j \in J \ {c} : new[j] = c
    OBVIOUS
  <2>4. transformedToCanonical' = table /\ polyominoById' = pieces
    BY <1>4, <1>5
  <2>5. /\ DOMAIN table = DOMAIN old \cup (J \ {c})
        /\ \A j \in J \ {c} : table[j] = c
        /\ \A i \in DOMAIN old \ (J \ {c}) : table[i] = old[i]
    <3>1. /\ DOMAIN table = DOMAIN old \cup DOMAIN new
          /\ \A j \in DOMAIN new : table[j] = new[j]
          /\ \A i \in DOMAIN old \ DOMAIN new : table[i] = old[i]
      BY OverwrittenProperties
    <3> HIDE DEF old, new, table
    <3> QED BY <2>3, <3>1
  <2>6. /\ \A j \in J : pieces[j] = byId[j]
        /\ \A i \in InUse : pieces[i] = polyominoById[i]
    <3>1. /\ \A j \in DOMAIN byId : pieces[j] = byId[j]
          /\ \A i \in DOMAIN polyominoById \ DOMAIN byId : pieces[i] = polyominoById[i]
      BY OverwrittenProperties
    <3> HIDE DEF pieces
    <3> QED BY <1>5, <1>9, <2>2, <3>1
  <2>7. InUse \subseteq DOMAIN old /\ Before0 \subseteq InUse
    BY <1>1, <2>1 DEF InUse
  <2> HIDE DEF old, new, table, pieces, Before0, J
  <2>8. \A i \in InUse : table[i] = old[i]
    BY <1>9, <2>5, <2>7
  <2>9. table[c] = c /\ \A j \in J : table[j] = c
    BY <1>9, <2>1, <2>5
  <2>10. \A i \in InUse : /\ table[i] \in Before0 \cup {c}
                          /\ pieces[table[i]] \in Symmetric(pieces[i])
    BY <2>1, <2>6, <2>7, <2>8
  <2>11. \A j \in J : /\ table[j] \in Before0 \cup {c}
                      /\ pieces[table[j]] \in Symmetric(pieces[j])
    BY <1>5, <1>7, <1>9, <2>6, <2>9
  <2>12. ASSUME NEW a \in Before0 \cup {c}, NEW b \in Before0 \cup {c},
                pieces[a] \in Symmetric(pieces[b])
         PROVE  a = b
    <3>1. pieces[c] \in S /\ Symmetric(pieces[c]) = S
      BY <1>5, <1>7, <1>9, <2>6
    <3>2. \A i \in Before0 : /\ pieces[i] = polyominoById[i] /\ pieces[i] \in Known
                             /\ Symmetric(pieces[i]) \subseteq Known
      BY <2>2, <2>6, <2>7
    <3>3. CASE a \in Before0 /\ b \in Before0
      BY <2>1, <2>12, <3>2, <3>3
    <3>4. CASE a = c /\ b \in Before0
      BY <1>8, <2>12, <3>1, <3>2, <3>4
    <3>5. CASE a \in Before0 /\ b = c
      BY <1>8, <2>12, <3>1, <3>2, <3>5
    <3> QED BY <3>3, <3>4, <3>5
  <2>13. OnePerShape(table, pieces, Before0 \cup {c}, InUse \cup J)
    BY <2>10, <2>11, <2>12 DEF OnePerShape
  <2>14. DOMAIN table = (0 .. CanonicalCount - 1) \cup (CanonicalCount .. (t + N - 1) - 1)
    <3>1. ASSUME NEW i \in DOMAIN table
          PROVE  i \in (0 .. CanonicalCount - 1) \cup (CanonicalCount .. (t + N - 1) - 1)
      BY <1>1, <1>3, <1>9, <2>1, <2>5
    <3>2. ASSUME NEW i \in CanonicalCount .. (t + N - 1) - 1 PROVE i \in DOMAIN table
      <4>1. i \in CanonicalCount .. t - 1 \/ i \in t .. (t + N - 1) - 1
        BY <1>1, <1>3
      <4> QED BY <1>9, <2>1, <2>5, <4>1
    <3> QED BY <2>1, <2>5, <3>1, <3>2
  <2>15. \A a \in 0 .. CanonicalCount - 1 : table[a] = a
    BY <1>9, <2>1, <2>5
  <2>16. 0 .. mCanonicalPointer' - 1 = Before0 \cup {c}
    BY <1>4, <1>9 DEF Before0
  <2>17. /\ OnePerShape(transformedToCanonical', polyominoById',
                        0 .. mCanonicalPointer' - 1, InUse')
         /\ DOMAIN transformedToCanonical'
               = (0 .. CanonicalCount - 1) \cup (CanonicalCount .. mTransformationPointer' - 1)
         /\ \A a \in 0 .. CanonicalCount - 1 : transformedToCanonical'[a] = a
    BY <1>4, <1>9, <2>4, <2>13, <2>14, <2>15, <2>16
  <2> QED BY <2>17 DEF CanonicalInv
<1>14. byId[c] \in S
  BY <1>5, <1>9
<1> QED BY <1>4, <1>10, <1>11, <1>12, <1>13, <1>14 DEF LibraryInv, S

\* Steps that write nothing.
LEMMA LibraryStays ==
  ASSUME LibraryInv, UNCHANGED library
  PROVE  LibraryInv' /\ Known' = Known /\ mCanonicalPointer' = mCanonicalPointer
<1>1. /\ polyominoById' = polyominoById /\ idByPolyomino' = idByPolyomino
      /\ clockwiseRotatedIds' = clockwiseRotatedIds
      /\ horizontallyReflectedIds' = horizontallyReflectedIds
      /\ transformedToCanonical' = transformedToCanonical
      /\ mCanonicalPointer' = mCanonicalPointer
      /\ mTransformationPointer' = mTransformationPointer
  BY DEF library
<1>2. InUse' = InUse
  BY <1>1 DEF InUse
<1> QED BY <1>1, <1>2 DEF LibraryInv, NumbersInv, TablesInv, CanonicalInv, Known

LEMMA KnownPieces ==
  ASSUME LibraryInv
  PROVE  Known \in SUBSET Pieces /\ \A q \in Known : Symmetric(q) \subseteq Known
  BY DEF LibraryInv, TablesInv, Agree, Known

LEMMA UpToProperties ==
  ASSUME NEW n \in 1 .. MaxBlocks - 1
  PROVE  /\ n \in 1 .. MaxBlocks /\ n + 1 \in 1 .. MaxBlocks
         /\ UpTo(n + 1) = UpTo(n) \cup AllPieces[n + 1]
         /\ UpTo(n) \cap AllPieces[n + 1] = {}
         /\ AllPieces[n + 1] = UNION {Extensions(p) : p \in AllPieces[n]}
<1>1. MaxBlocks \in Nat \ {0}
  BY GeneratorAssumption
<1>2. /\ n \in 1 .. MaxBlocks /\ n + 1 \in 1 .. MaxBlocks /\ n + 1 \in 2 .. MaxBlocks
      /\ (n + 1) - 1 = n
      /\ \A i : i \in 1 .. n + 1 <=> i \in 1 .. n \/ i = n + 1
      /\ \A i \in 1 .. n : i \in 1 .. MaxBlocks /\ i # n + 1
  BY <1>1
<1>3. UpTo(n + 1) = UpTo(n) \cup AllPieces[n + 1]
  BY <1>2 DEF UpTo
<1>4. UpTo(n) \cap AllPieces[n + 1] = {}
  <2> SUFFICES ASSUME NEW q \in AllPieces[n + 1], q \in UpTo(n) PROVE FALSE
    OBVIOUS
  <2>1. PICK i \in 1 .. n : q \in AllPieces[i]
    BY DEF UpTo
  <2>2. Cardinality(q) = i
    BY <1>2, <2>1, LevelProperties
  <2>3. Cardinality(q) = n + 1
    BY <1>2, LevelProperties
  <2> QED BY <1>2, <2>2, <2>3
<1>5. AllPieces[n + 1] = UNION {Extensions(p) : p \in AllPieces[n]}
  BY <1>2, AllPiecesUnfold
<1> QED BY <1>2, <1>3, <1>4, <1>5

\* When no cell is left to try, the extensions of the shape are known.
LEMMA DoneExtending ==
  ASSUME LibraryInv, QueueInv, candidates = << >>, NEW q, BeingExtended(q)
  PROVE  Extensions(q) \subseteq Known
<1>1. currentPiece \in AllPieces[pieceSize] /\ pieceSize \in 1 .. MaxBlocks
  BY DEF QueueInv, BeingExtended
<1>2. currentPiece \in Pieces
  BY <1>1, LevelProperties
<1>3. Range(candidates) = {}
  BY DEF Range
<1>4. Extensions(currentPiece) \subseteq Known
  BY <1>3 DEF BeingExtended, Extensions
<1>5. q \in Symmetric(currentPiece)
  BY DEF BeingExtended
<1> QED BY <1>2, <1>4, <1>5, KnownPieces, ExtensionsClosed

LEMMA HeadAndTail ==
  ASSUME NEW S, NEW s \in Seq(S), s # << >>
  PROVE  /\ Len(s) \in Nat \ {0} /\ Head(s) = s[1] /\ Head(s) \in S
         /\ Tail(s) \in Seq(S) /\ Len(Tail(s)) = Len(s) - 1
         /\ \A i \in 1 .. Len(s) - 1 : Tail(s)[i] = s[i + 1]
         /\ \A x \in Range(s) : x = Head(s) \/ x \in Range(Tail(s))
<1>1. /\ Len(s) \in Nat \ {0} /\ Head(s) = s[1] /\ Head(s) \in S
      /\ Tail(s) \in Seq(S) /\ Len(Tail(s)) = Len(s) - 1
      /\ \A i \in 1 .. Len(s) - 1 : Tail(s)[i] = s[i + 1]
      /\ DOMAIN s = 1 .. Len(s) /\ DOMAIN Tail(s) = 1 .. Len(s) - 1
  BY EmptySeq, HeadTailProperties, LenProperties
<1>2. ASSUME NEW x \in Range(s) PROVE x = Head(s) \/ x \in Range(Tail(s))
  <2>1. PICK i \in 1 .. Len(s) : x = s[i]
    BY <1>1 DEF Range
  <2>2. CASE i = 1
    BY <1>1, <2>1, <2>2
  <2>3. CASE i # 1
    <3>1. i - 1 \in 1 .. Len(s) - 1 /\ (i - 1) + 1 = i
      BY <1>1, <2>3
    <3>2. Tail(s)[i - 1] = x
      BY <1>1, <2>1, <3>1
    <3> QED BY <1>1, <3>1, <3>2 DEF Range
  <2> QED BY <2>2, <2>3
<1> QED BY <1>1, <1>2

LEMMA StartLevelStep ==
  ASSUME LibraryInv, SearchInv, StartLevel
  PROVE  LibraryInv' /\ SearchInv'
<1> DEFINE n == pieceSize
           src == sourceCanonicalPieces
<1>1. /\ ~growing /\ n < MaxBlocks /\ growing' = TRUE /\ pieceSizeCount' = Len(src)
      /\ sourceCanonicalPieces' = src /\ pieceSize' = n
      /\ currentPiece' = currentPiece /\ candidates' = candidates
      /\ UNCHANGED library
  BY DEF StartLevel
<1>2. LibraryInv' /\ Known' = Known
  BY <1>1, LibraryStays
<1>3. QueueInv
  BY DEF SearchInv
<1>4. n \in 1 .. MaxBlocks - 1
  BY <1>1, <1>3, GeneratorAssumption DEF QueueInv
<1>5. /\ n \in 1 .. MaxBlocks /\ UpTo(n + 1) = UpTo(n) \cup AllPieces[n + 1]
      /\ UpTo(n) \cap AllPieces[n + 1] = {}
  BY <1>4, UpToProperties
<1>6. /\ Known = UpTo(n)
      /\ \A i \in 1 .. Len(src) : src[i] \in AllPieces[n]
      /\ \A q \in AllPieces[n] : \E i \in 1 .. Len(src) : q \in Symmetric(src[i])
  BY <1>1 DEF SearchInv, BetweenInv
<1>7. candidates = << >> /\ src \in Seq(Known) /\ Len(src) \in Nat
  BY <1>1, <1>3 DEF QueueInv
<1>8. QueueInv'
  <2>1. << >> \in Seq(currentPiece \cup Edges(currentPiece))
    OBVIOUS
  <2>2. Len(src) \in 0 .. Len(src)
    BY <1>7
  <2>3. pieceSizeCount' \in 0 .. Len(sourceCanonicalPieces')
    BY <1>1, <2>2
  <2> QED BY <1>1, <1>2, <1>3, <1>5, <1>7, <2>1, <2>3 DEF QueueInv
<1>9. BetweenInv'
  BY <1>1 DEF BetweenInv
<1>10. GrowingInv'
  <2>1. \A q \in AllPieces[n] : Waiting(q)'
    BY <1>1, <1>6 DEF Waiting
  <2>2. Len(src) + 1 .. Len(src) = {}
    BY <1>7
  <2> QED BY <1>1, <1>2, <1>5, <1>6, <2>1, <2>2 DEF GrowingInv
<1> QED BY <1>2, <1>8, <1>9, <1>10 DEF SearchInv


\* Where things are in a queue after its first element was taken.
LEMMA TailIndices ==
  ASSUME NEW L \in Nat, NEW k \in 1 .. L
  PROVE  /\ L # 0 /\ 1 \in 1 .. k /\ 1 \in 1 .. L
         /\ k - 1 \in 0 .. L - 1 /\ (k - 1) + 1 = k
         /\ \A i \in 1 .. k - 1 : i + 1 \in 1 .. k /\ i \in 1 .. L - 1
         /\ \A i \in k .. L - 1 : i + 1 \in k + 1 .. L /\ i \in 1 .. L - 1
         /\ \A i \in 1 .. k : i # 1 => i - 1 \in 1 .. k - 1 /\ (i - 1) + 1 = i
         /\ \A i \in k + 1 .. L : i - 1 \in k .. L - 1 /\ (i - 1) + 1 = i
  OBVIOUS

LEMMA TakePieceStep ==
  ASSUME LibraryInv, SearchInv, TakePiece
  PROVE  LibraryInv' /\ SearchInv'
<1> DEFINE n == pieceSize
           src == sourceCanonicalPieces
           k == pieceSizeCount
           L == Len(src)
           cur == Head(src)
<1>1. /\ growing /\ candidates = << >> /\ k > 0
      /\ pieceSizeCount' = k - 1 /\ currentPiece' = cur
      /\ sourceCanonicalPieces' = Tail(src)
      /\ candidates' = Neighbours(currentPiece')
      /\ pieceSize' = n /\ growing' = growing
      /\ UNCHANGED library
  BY DEF TakePiece
<1>2. LibraryInv' /\ Known' = Known
  BY <1>1, LibraryStays
<1>3. QueueInv
  BY DEF SearchInv
<1>4. /\ n < MaxBlocks
      /\ UpTo(n) \subseteq Known /\ Known \subseteq UpTo(n + 1)
      /\ \A i \in 1 .. k : src[i] \in AllPieces[n]
      /\ \A i \in k + 1 .. L : src[i] \in AllPieces[n + 1]
      /\ \A q \in Known \cap AllPieces[n + 1] :
            \E i \in k + 1 .. L : q \in Symmetric(src[i])
      /\ \A q \in AllPieces[n] :
            Waiting(q) \/ BeingExtended(q) \/ Extensions(q) \subseteq Known
  BY <1>1 DEF SearchInv, GrowingInv
<1>5. n \in 1 .. MaxBlocks /\ src \in Seq(Known) /\ L \in Nat /\ k \in 0 .. L
  BY <1>3 DEF QueueInv
<1>6. k \in 1 .. L
  BY <1>1, <1>5
<1>7. /\ L # 0 /\ 1 \in 1 .. k /\ 1 \in 1 .. L
      /\ k - 1 \in 0 .. L - 1 /\ (k - 1) + 1 = k
      /\ \A i \in 1 .. k - 1 : i + 1 \in 1 .. k /\ i \in 1 .. L - 1
      /\ \A i \in k .. L - 1 : i + 1 \in k + 1 .. L /\ i \in 1 .. L - 1
      /\ \A i \in 1 .. k : i # 1 => i - 1 \in 1 .. k - 1 /\ (i - 1) + 1 = i
      /\ \A i \in k + 1 .. L : i - 1 \in k .. L - 1 /\ (i - 1) + 1 = i
  BY <1>5, <1>6, TailIndices
<1>8. src # << >>
  BY <1>7
<1>9. /\ cur = src[1] /\ Tail(src) \in Seq(Known) /\ Len(Tail(src)) = L - 1
      /\ \A i \in 1 .. L - 1 : Tail(src)[i] = src[i + 1]
  BY <1>5, <1>8, HeadAndTail
<1>10. cur \in AllPieces[n]
  BY <1>4, <1>7, <1>9
<1>11. cur \in Pieces /\ cur \in Shapes
  BY <1>5, <1>10, LevelProperties DEF Pieces
<1>12. Neighbours(cur) \in Seq(cur \cup Edges(cur)) /\ Edges(cur) \subseteq Range(Neighbours(cur))
  BY <1>11, NeighboursProperties
<1> HIDE DEF n, src, k, L, cur
<1>13. QueueInv'
  <2>1. pieceSizeCount' \in 0 .. Len(sourceCanonicalPieces')
    BY <1>1, <1>7, <1>9
  <2>2. candidates' \in Seq(currentPiece' \cup Edges(currentPiece'))
    BY <1>1, <1>12
  <2>3. currentPiece' \in AllPieces[pieceSize'] /\ growing' /\ growing' \in BOOLEAN
    BY <1>1, <1>3, <1>10 DEF QueueInv
  <2>4. sourceCanonicalPieces' \in Seq(Known')
    BY <1>1, <1>2, <1>9
  <2> QED BY <1>1, <1>5, <2>1, <2>2, <2>3, <2>4 DEF QueueInv
<1>14. BetweenInv'
  BY <1>1 DEF BetweenInv
<1>15. GrowingInv'
  <2>1. \A i \in 1 .. k - 1 : Tail(src)[i] \in AllPieces[n]
    BY <1>4, <1>7, <1>9
  <2>2. \A i \in k .. L - 1 : Tail(src)[i] \in AllPieces[n + 1]
    BY <1>4, <1>7, <1>9
  <2>3. ASSUME NEW q \in Known \cap AllPieces[n + 1]
        PROVE  \E i \in k .. L - 1 : q \in Symmetric(Tail(src)[i])
    <3>1. PICK i \in k + 1 .. L : q \in Symmetric(src[i])
      BY <1>4
    <3>2. i - 1 \in k .. L - 1 /\ Tail(src)[i - 1] = src[i]
      BY <1>7, <1>9
    <3> QED BY <3>1, <3>2
  <2>4. ASSUME NEW q \in AllPieces[n]
        PROVE  (Waiting(q) \/ BeingExtended(q) \/ Extensions(q) \subseteq Known)'
    <3>1. CASE Waiting(q)
      <4>1. PICK i \in 1 .. k : q \in Symmetric(src[i])
        BY <3>1 DEF Waiting, k, src
      <4>2. CASE i = 1
        <5>1. q \in Symmetric(cur)
          BY <1>9, <4>1, <4>2
        <5> QED BY <1>1, <1>10, <1>12, <5>1 DEF BeingExtended
      <4>3. CASE i # 1
        <5>1. i - 1 \in 1 .. k - 1 /\ Tail(src)[i - 1] = src[i]
          BY <1>7, <1>9, <4>3
        <5> QED BY <1>1, <4>1, <5>1 DEF Waiting
      <4> QED BY <4>2, <4>3
    <3>2. CASE BeingExtended(q)
      BY <1>1, <1>2, <1>3, <3>2, DoneExtending
    <3>3. CASE Extensions(q) \subseteq Known
      BY <1>2, <3>3
    <3> QED BY <1>4, <3>1, <3>2, <3>3
  <2>5. /\ sourceCanonicalPieces' = Tail(src) /\ Len(sourceCanonicalPieces') = L - 1
        /\ pieceSizeCount' + 1 = k
    BY <1>1, <1>7, <1>9
  <2> QED BY <1>1, <1>2, <1>4, <2>1, <2>2, <2>3, <2>4, <2>5 DEF GrowingInv
<1> QED BY <1>2, <1>13, <1>14, <1>15 DEF SearchInv

\* A cell was tried: it is part of the piece, or the piece with it is known.
LEMMA TriedCell ==
  ASSUME QueueInv, Try, UNCHANGED <<pieceSize, pieceSizeCount, growing, currentPiece>>,
         Known \subseteq Known',
         Head(candidates) \in currentPiece
            \/ normalize(currentPiece \cup {Head(candidates)}) \in Known',
         \A i \in 1 .. pieceSizeCount :
            sourceCanonicalPieces'[i] = sourceCanonicalPieces[i],
         \A q \in AllPieces[pieceSize] :
            Waiting(q) \/ BeingExtended(q) \/ Extensions(q) \subseteq Known
  PROVE  /\ candidates' \in Seq(currentPiece' \cup Edges(currentPiece'))
         /\ growing' /\ currentPiece' \in AllPieces[pieceSize']
         /\ \A q \in AllPieces[pieceSize] :
               (Waiting(q) \/ BeingExtended(q) \/ Extensions(q) \subseteq Known)'
<1>1. /\ growing /\ candidates # << >> /\ candidates' = Tail(candidates)
      /\ pieceSize' = pieceSize /\ pieceSizeCount' = pieceSizeCount
      /\ growing' = growing /\ currentPiece' = currentPiece
  BY DEF Try
<1>2. /\ candidates \in Seq(currentPiece \cup Edges(currentPiece))
      /\ currentPiece \in AllPieces[pieceSize] /\ pieceSize \in 1 .. MaxBlocks
  BY <1>1 DEF QueueInv
<1>3. /\ Tail(candidates) \in Seq(currentPiece \cup Edges(currentPiece))
      /\ \A x \in Range(candidates) : x = Head(candidates) \/ x \in Range(Tail(candidates))
  BY <1>1, <1>2, HeadAndTail
<1>4. currentPiece \in Shapes
  BY <1>2, LevelProperties DEF Pieces
<1>5. ASSUME NEW q, BeingExtended(q) PROVE BeingExtended(q)'
  <2>1. q \in Symmetric(currentPiece)
    BY <1>5 DEF BeingExtended
  <2>2. ASSUME NEW cell \in Edges(currentPiece)
        PROVE  cell \in Range(Tail(candidates))
                  \/ normalize(currentPiece \cup {cell}) \in Known'
    <3>1. cell \notin currentPiece
      BY <1>4, EdgesInPlane
    <3>2. cell \in Range(candidates) \/ normalize(currentPiece \cup {cell}) \in Known
      BY <1>5 DEF BeingExtended
    <3> QED BY <1>3, <3>1, <3>2
  <2> QED BY <1>1, <1>2, <2>1, <2>2 DEF BeingExtended
<1>6. ASSUME NEW q, Waiting(q) PROVE Waiting(q)'
  BY <1>1, <1>6 DEF Waiting
<1>7. ASSUME NEW q \in AllPieces[pieceSize]
      PROVE  (Waiting(q) \/ BeingExtended(q) \/ Extensions(q) \subseteq Known)'
  <2>1. CASE Extensions(q) \subseteq Known
    BY <2>1
  <2> QED BY <1>5, <1>6, <2>1
<1> QED BY <1>1, <1>2, <1>3, <1>7

\* A step that tries a cell and writes nothing.
LEMMA NothingNew ==
  ASSUME LibraryInv, SearchInv, Try,
         UNCHANGED <<library, sourceCanonicalPieces, pieceSize, pieceSizeCount, growing,
                     currentPiece>>,
         Head(candidates) \in currentPiece
            \/ normalize(currentPiece \cup {Head(candidates)}) \in Known
  PROVE  LibraryInv' /\ SearchInv'
<1>1. /\ growing
      /\ pieceSize' = pieceSize /\ pieceSizeCount' = pieceSizeCount
      /\ growing' = growing /\ currentPiece' = currentPiece
      /\ sourceCanonicalPieces' = sourceCanonicalPieces
      /\ UNCHANGED library
  BY DEF Try
<1>2. LibraryInv' /\ Known' = Known
  BY <1>1, LibraryStays
<1>3. QueueInv /\ GrowingInv
  BY DEF SearchInv
<1>4. \A q \in AllPieces[pieceSize] :
         Waiting(q) \/ BeingExtended(q) \/ Extensions(q) \subseteq Known
  BY <1>1, <1>3 DEF GrowingInv
<1>5. /\ candidates' \in Seq(currentPiece' \cup Edges(currentPiece'))
      /\ growing' /\ currentPiece' \in AllPieces[pieceSize']
      /\ \A q \in AllPieces[pieceSize] :
            (Waiting(q) \/ BeingExtended(q) \/ Extensions(q) \subseteq Known)'
  BY <1>1, <1>2, <1>3, <1>4, TriedCell
<1>6. QueueInv'
  BY <1>1, <1>2, <1>3, <1>5 DEF QueueInv
<1>7. BetweenInv'
  BY <1>1 DEF BetweenInv
<1>8. GrowingInv'
  BY <1>1, <1>2, <1>3, <1>5 DEF GrowingInv
<1> QED BY <1>2, <1>6, <1>7, <1>8 DEF SearchInv

LEMMA PartOfTheParentStep ==
  ASSUME LibraryInv, SearchInv, PartOfTheParent
  PROVE  LibraryInv' /\ SearchInv'
  BY NothingNew DEF PartOfTheParent

\* A queue with one more at its end.
LEMMA AppendIndices ==
  ASSUME NEW S, NEW s \in Seq(S), NEW T, S \subseteq T, NEW r \in T, NEW k \in 0 .. Len(s)
  PROVE  LET a == Append(s, r) IN
         /\ a \in Seq(T) /\ Len(a) = Len(s) + 1 /\ a[Len(s) + 1] = r
         /\ \A i \in 1 .. Len(s) : a[i] = s[i]
         /\ k \in 0 .. Len(s) + 1
         /\ \A i \in 1 .. k : i \in 1 .. Len(s)
         /\ \A i \in k + 1 .. Len(s) + 1 : i \in k + 1 .. Len(s) \/ i = Len(s) + 1
         /\ \A i \in k + 1 .. Len(s) : i \in 1 .. Len(s) /\ i \in k + 1 .. Len(s) + 1
         /\ Len(s) + 1 \in k + 1 .. Len(s) + 1
<1>1. s \in Seq(T)
  BY SeqMonotonic
<1>2. /\ Append(s, r) \in Seq(T) /\ Len(Append(s, r)) = Len(s) + 1
      /\ Append(s, r)[Len(s) + 1] = r
      /\ \A i \in 1 .. Len(s) : Append(s, r)[i] = s[i]
  BY <1>1, AppendProperties
<1>3. Len(s) \in Nat
  OBVIOUS
<1> QED BY <1>2, <1>3

LEMMA ExtendStep ==
  ASSUME LibraryInv, SearchInv, Extend, mCanonicalPointer \in Nat \ {0}, Room'
  PROVE  LibraryInv' /\ SearchInv'
<1> DEFINE n == pieceSize
           src == sourceCanonicalPieces
           k == pieceSizeCount
           L == Len(src)
           cell == Head(candidates)
           p == normalize(currentPiece \cup {cell})
<1>1. /\ Try /\ growing /\ cell \notin currentPiece
      /\ Register(currentPiece \cup {cell})
      /\ pieceSize' = n /\ pieceSizeCount' = k
      /\ growing' = growing /\ currentPiece' = currentPiece
  BY DEF Extend, Try
<1>2. CASE p \in Known
  <2>1. UNCHANGED <<library, sourceCanonicalPieces>>
    BY <1>1, <1>2 DEF Register, Known
  <2> QED BY <1>1, <1>2, <2>1, NothingNew
<1>3. CASE p \notin Known
  <2>1. Record(Orbit(p))
    BY <1>1, <1>3 DEF Register, Known
  <2>2. QueueInv /\ GrowingInv
    BY DEF SearchInv
  <2>3. /\ n < MaxBlocks
        /\ UpTo(n) \subseteq Known /\ Known \subseteq UpTo(n + 1)
        /\ \A i \in 1 .. k : src[i] \in AllPieces[n]
        /\ \A i \in k + 1 .. L : src[i] \in AllPieces[n + 1]
        /\ \A q \in Known \cap AllPieces[n + 1] :
              \E i \in k + 1 .. L : q \in Symmetric(src[i])
        /\ \A q \in AllPieces[n] :
              Waiting(q) \/ BeingExtended(q) \/ Extensions(q) \subseteq Known
    BY <1>1, <2>2 DEF GrowingInv
  <2>4. /\ n \in 1 .. MaxBlocks /\ src \in Seq(Known) /\ k \in 0 .. L
        /\ candidates \in Seq(currentPiece \cup Edges(currentPiece)) /\ candidates # << >>
        /\ currentPiece \in AllPieces[n]
    BY <1>1, <2>2 DEF QueueInv, Try
  <2>5. n \in 1 .. MaxBlocks - 1
    BY <2>3, <2>4, GeneratorAssumption
  <2>6. /\ n + 1 \in 1 .. MaxBlocks
        /\ UpTo(n + 1) = UpTo(n) \cup AllPieces[n + 1]
        /\ UpTo(n) \cap AllPieces[n + 1] = {}
        /\ AllPieces[n + 1] = UNION {Extensions(q) : q \in AllPieces[n]}
    BY <2>5, UpToProperties
  <2>7. cell \in Edges(currentPiece)
    BY <1>1, <2>4, HeadAndTail
  <2>8. p \in AllPieces[n + 1]
    <3>1. p \in Extensions(currentPiece)
      BY <2>7 DEF Extensions
    <3> HIDE DEF p
    <3> QED BY <2>4, <2>6, <3>1
  <2>9. p \in Pieces /\ Symmetric(p) \subseteq AllPieces[n + 1]
    BY <2>6, <2>8, LevelProperties
  <2> HIDE DEF p
  <2>10. Record(Symmetric(p))
    BY <2>1, <2>9, OrbitIsSymmetric
  <2>11. mCanonicalPointer + 1 <= CanonicalCount
    BY <2>10, GeneratorAssumption DEF Record, Room
  <2>12. /\ LibraryInv' /\ Known' = Known \cup Symmetric(p)
         /\ \E r \in Symmetric(p) : sourceCanonicalPieces' = Append(src, r)
    BY <1>3, <2>9, <2>10, <2>11, RecordStep
  <2>13. PICK r \in Symmetric(p) : sourceCanonicalPieces' = Append(src, r)
    BY <2>12
  <2>14. p \in Symmetric(p) /\ Symmetric(r) = Symmetric(p)
    BY <2>9, SymmetricEqual
  <2> DEFINE a == Append(src, r)
  <2>15. /\ a \in Seq(Known') /\ Len(a) = L + 1 /\ a[L + 1] = r
         /\ \A i \in 1 .. L : a[i] = src[i]
         /\ k \in 0 .. L + 1
         /\ \A i \in 1 .. k : i \in 1 .. L
         /\ \A i \in k + 1 .. L + 1 : i \in k + 1 .. L \/ i = L + 1
         /\ \A i \in k + 1 .. L : i \in 1 .. L /\ i \in k + 1 .. L + 1
         /\ L + 1 \in k + 1 .. L + 1
    <3>1. Known \subseteq Known' /\ r \in Known'
      BY <2>12
    <3> QED BY <2>4, <3>1, AppendIndices
  <2> HIDE DEF n, src, k, L, a, cell
  <2>16. sourceCanonicalPieces' = a
    BY <2>13 DEF a
  <2>17. /\ candidates' \in Seq(currentPiece' \cup Edges(currentPiece'))
         /\ growing' /\ currentPiece' \in AllPieces[pieceSize']
         /\ \A q \in AllPieces[n] :
               (Waiting(q) \/ BeingExtended(q) \/ Extensions(q) \subseteq Known)'
    <3>1. UNCHANGED <<pieceSize, pieceSizeCount, growing, currentPiece>>
      BY <1>1 DEF n, k
    <3>2. Known \subseteq Known' /\ p \in Known'
      BY <2>12, <2>14
    <3>3. normalize(currentPiece \cup {Head(candidates)}) \in Known'
      BY <3>2 DEF p, cell
    <3>4. \A i \in 1 .. pieceSizeCount :
             sourceCanonicalPieces'[i] = sourceCanonicalPieces[i]
      BY <2>15, <2>16 DEF k, src
    <3>5. \A q \in AllPieces[pieceSize] :
             Waiting(q) \/ BeingExtended(q) \/ Extensions(q) \subseteq Known
      BY <2>3 DEF n
    <3> QED BY <1>1, <2>2, <3>1, <3>2, <3>3, <3>4, <3>5, TriedCell DEF n
  <2>18. QueueInv'
    <3>1. /\ pieceSizeCount' \in 0 .. Len(sourceCanonicalPieces')
          /\ sourceCanonicalPieces' \in Seq(Known')
      BY <1>1, <2>15, <2>16
    <3> QED BY <1>1, <2>2, <2>4, <2>17, <3>1 DEF QueueInv
  <2>19. BetweenInv'
    BY <2>17 DEF BetweenInv
  <2>20. GrowingInv'
    <3>1. UpTo(n) \subseteq Known' /\ Known' \subseteq UpTo(n + 1)
      BY <2>3, <2>6, <2>9, <2>12
    <3>2. \A i \in 1 .. k : a[i] \in AllPieces[n]
      BY <2>3, <2>15
    <3>3. \A i \in k + 1 .. L + 1 : a[i] \in AllPieces[n + 1]
      BY <2>3, <2>9, <2>15
    <3>4. ASSUME NEW q \in Known' \cap AllPieces[n + 1]
          PROVE  \E i \in k + 1 .. L + 1 : q \in Symmetric(a[i])
      <4>1. CASE q \in Known
        <5>1. PICK i \in k + 1 .. L : q \in Symmetric(src[i])
          BY <2>3, <4>1
        <5> QED BY <2>15, <5>1
      <4>2. CASE q \in Symmetric(p)
        BY <2>14, <2>15, <4>2
      <4> QED BY <2>12, <4>1, <4>2
    <3>5. pieceSize' = n /\ pieceSizeCount' = k /\ Len(sourceCanonicalPieces') = L + 1
      BY <1>1, <2>15, <2>16
    <3> QED BY <2>3, <2>16, <2>17, <3>1, <3>2, <3>3, <3>4, <3>5 DEF GrowingInv
  <2> QED BY <2>12, <2>18, <2>19, <2>20 DEF SearchInv
<1> QED BY <1>2, <1>3

LEMMA EndLevelStep ==
  ASSUME LibraryInv, SearchInv, EndLevel
  PROVE  LibraryInv' /\ SearchInv'
<1> DEFINE n == pieceSize
           src == sourceCanonicalPieces
<1>1. /\ growing /\ candidates = << >> /\ pieceSizeCount = 0
      /\ growing' = FALSE /\ pieceSize' = n + 1
      /\ sourceCanonicalPieces' = src /\ pieceSizeCount' = 0
      /\ currentPiece' = currentPiece /\ candidates' = << >>
      /\ UNCHANGED library
  BY DEF EndLevel
<1>2. LibraryInv' /\ Known' = Known
  BY <1>1, LibraryStays
<1>3. QueueInv /\ GrowingInv
  BY DEF SearchInv
<1>4. /\ n < MaxBlocks
      /\ UpTo(n) \subseteq Known /\ Known \subseteq UpTo(n + 1)
      /\ \A i \in 0 + 1 .. Len(src) : src[i] \in AllPieces[n + 1]
      /\ \A q \in Known \cap AllPieces[n + 1] :
            \E i \in 0 + 1 .. Len(src) : q \in Symmetric(src[i])
      /\ \A q \in AllPieces[n] :
            Waiting(q) \/ BeingExtended(q) \/ Extensions(q) \subseteq Known
  BY <1>1, <1>3 DEF GrowingInv
<1>5. n \in 1 .. MaxBlocks - 1
  BY <1>3, <1>4, GeneratorAssumption DEF QueueInv
<1>6. /\ n + 1 \in 1 .. MaxBlocks
      /\ UpTo(n + 1) = UpTo(n) \cup AllPieces[n + 1]
      /\ AllPieces[n + 1] = UNION {Extensions(q) : q \in AllPieces[n]}
  BY <1>5, UpToProperties
<1>7. \A q \in AllPieces[n] : Extensions(q) \subseteq Known
  <2>1. \A q : ~Waiting(q)
    BY <1>1 DEF Waiting
  <2>2. \A q : BeingExtended(q) => Extensions(q) \subseteq Known
    BY <1>1, <1>3, DoneExtending
  <2> QED BY <1>4, <2>1, <2>2
<1>8. AllPieces[n + 1] \subseteq Known
  BY <1>6, <1>7
<1>9. Known = UpTo(n + 1)
  BY <1>4, <1>6, <1>8
<1>10. QueueInv'
  <2>1. << >> \in Seq(currentPiece \cup Edges(currentPiece))
    OBVIOUS
  <2>2. src \in Seq(Known) /\ 0 \in 0 .. Len(src)
    BY <1>1, <1>3 DEF QueueInv
  <2> QED BY <1>1, <1>2, <1>6, <2>1, <2>2 DEF QueueInv
<1>11. BetweenInv'
  <2>1. 0 + 1 = 1
    OBVIOUS
  <2>2. /\ \A i \in 1 .. Len(src) : src[i] \in AllPieces[n + 1]
        /\ \A q \in AllPieces[n + 1] : \E i \in 1 .. Len(src) : q \in Symmetric(src[i])
    BY <1>4, <1>8, <2>1
  <2> QED BY <1>1, <1>2, <1>9, <2>2 DEF BetweenInv
<1>12. GrowingInv'
  BY <1>1 DEF GrowingInv
<1> QED BY <1>2, <1>10, <1>11, <1>12 DEF SearchInv

LEMMA InitialInv ==
  ASSUME Init
  PROVE  IInv
<1>1. /\ CanonicalCount \in Nat \ {0} /\ MaxBlocks \in Nat \ {0}
  BY GeneratorAssumption
<1>2. /\ polyominoById = Put(EmptyMap, 0, Monomino)
      /\ idByPolyomino = Put(EmptyMap, Monomino, 0)
      /\ clockwiseRotatedIds = Put(EmptyMap, 0, 0)
      /\ horizontallyReflectedIds = Put(EmptyMap, 0, 0)
      /\ transformedToCanonical = [id \in 0 .. CanonicalCount - 1 |-> id]
      /\ mCanonicalPointer = 1 /\ mTransformationPointer = CanonicalCount
      /\ sourceCanonicalPieces = <<Monomino>>
      /\ pieceSize = 1 /\ pieceSizeCount = 0 /\ growing = FALSE
      /\ candidates = << >>
  BY DEF Init
<1>3. \A key, value : /\ DOMAIN Put(EmptyMap, key, value) = {key}
                      /\ Put(EmptyMap, key, value)[key] = value
  BY DEF Put, EmptyMap
<1>4. /\ DOMAIN polyominoById = {0} /\ polyominoById[0] = Monomino
      /\ DOMAIN idByPolyomino = {Monomino} /\ idByPolyomino[Monomino] = 0
      /\ DOMAIN clockwiseRotatedIds = {0} /\ clockwiseRotatedIds[0] = 0
      /\ DOMAIN horizontallyReflectedIds = {0} /\ horizontallyReflectedIds[0] = 0
  BY <1>2, <1>3
<1>5. InUse = {0} /\ 0 .. mCanonicalPointer - 1 = {0}
  BY <1>1, <1>2 DEF InUse
<1>6. /\ Monomino \in Pieces
      /\ rotateClockwise(Monomino) = Monomino /\ reflectHorizontally(Monomino) = Monomino
  BY MonominoProperties
<1>7. Symmetric(Monomino) = {Monomino}
  BY <1>6, SymmetricTurns
<1>8. TablesInv
  <2>1. polyominoById \in Bijection({0}, {Monomino})
    <3>1. polyominoById = [i \in {0} |-> polyominoById[i]]
      BY <1>2, <1>4 DEF Put, EmptyMap
    <3>2. polyominoById \in [{0} -> {Monomino}]
      BY <1>4, <3>1
    <3> QED BY <1>4, <3>2 DEF Bijection, Injection, Surjection, IsInjective
  <2>2. Agree(polyominoById, idByPolyomino, clockwiseRotatedIds,
              horizontallyReflectedIds, {0})
    BY <1>4, <1>6, <1>7, <2>1 DEF Agree
  <2> QED BY <1>5, <2>2 DEF TablesInv
<1>9. CanonicalInv
  <2>1. /\ \A c \in 0 .. CanonicalCount - 1 : transformedToCanonical[c] = c
        /\ DOMAIN transformedToCanonical = 0 .. CanonicalCount - 1
    BY <1>2
  <2>2. CanonicalCount .. mTransformationPointer - 1 = {} /\ 0 \in 0 .. CanonicalCount - 1
    BY <1>1, <1>2
  <2>3. OnePerShape(transformedToCanonical, polyominoById, {0}, {0})
    BY <1>4, <1>7, <2>1, <2>2 DEF OnePerShape
  <2> QED BY <1>5, <2>1, <2>2, <2>3 DEF CanonicalInv
<1>10. NumbersInv
  BY <1>1, <1>2 DEF NumbersInv
<1>11. Known = {Monomino}
  BY <1>4 DEF Known
<1>12. sourceCanonicalPieces \in Seq(Known) /\ Len(sourceCanonicalPieces) = 1
       /\ sourceCanonicalPieces[1] = Monomino
  BY <1>2, <1>11
<1>13. QueueInv
  <2>1. pieceSizeCount \in 0 .. Len(sourceCanonicalPieces) /\ pieceSize \in 1 .. MaxBlocks
    BY <1>1, <1>2, <1>12
  <2>2. candidates \in Seq(currentPiece \cup Edges(currentPiece))
    BY <1>2
  <2> QED BY <1>2, <1>12, <2>1, <2>2 DEF QueueInv
<1>14. BetweenInv
  <2>1. AllPieces[1] = {Monomino}
    BY AllPiecesUnfold
  <2>2. 1 .. 1 = {1}
    OBVIOUS
  <2>3. UpTo(1) = {Monomino}
    BY <2>1, <2>2 DEF UpTo
  <2> QED BY <1>2, <1>7, <1>11, <1>12, <2>1, <2>2, <2>3 DEF BetweenInv
<1>15. GrowingInv
  BY <1>2 DEF GrowingInv
<1> QED BY <1>2, <1>8, <1>9, <1>10, <1>13, <1>14, <1>15 DEF IInv, LibraryInv, SearchInv

\* mCanonicalPointer only grows.
LEMMA PointerGrows ==
  ASSUME mCanonicalPointer \in Nat \ {0}, [Next]_vars
  PROVE  mCanonicalPointer' \in Nat \ {0} /\ mCanonicalPointer <= mCanonicalPointer'
<1>1. mCanonicalPointer' = mCanonicalPointer \/ mCanonicalPointer' = mCanonicalPointer + 1
  BY DEF Next, vars, library, StartLevel, TakePiece, PartOfTheParent, Extend, EndLevel,
         Register, Record
<1> QED BY <1>1

LEMMA NextInv ==
  ASSUME IInv, [Next]_vars
  PROVE  IInv'
<1>1. /\ mCanonicalPointer \in Nat \ {0}
      /\ mCanonicalPointer' \in Nat \ {0} /\ mCanonicalPointer <= mCanonicalPointer'
  BY PointerGrows DEF IInv
<1>2. ASSUME Room'
      PROVE  LibraryInv' /\ SearchInv'
  <2>1. Room
    BY <1>1, <1>2, GeneratorAssumption DEF Room
  <2>2. LibraryInv /\ SearchInv
    BY <2>1 DEF IInv
  <2>3. CASE StartLevel
    BY <2>2, <2>3, StartLevelStep
  <2>4. CASE TakePiece
    BY <2>2, <2>4, TakePieceStep
  <2>5. CASE PartOfTheParent
    BY <2>2, <2>5, PartOfTheParentStep
  <2>6. CASE Extend
    BY <1>1, <1>2, <2>2, <2>6, ExtendStep
  <2>7. CASE EndLevel
    BY <2>2, <2>7, EndLevelStep
  <2>8. CASE UNCHANGED vars
    <3>1. /\ UNCHANGED library /\ sourceCanonicalPieces' = sourceCanonicalPieces
          /\ pieceSize' = pieceSize /\ pieceSizeCount' = pieceSizeCount
          /\ growing' = growing /\ currentPiece' = currentPiece
          /\ candidates' = candidates
      BY <2>8 DEF vars, search
    <3>2. LibraryInv' /\ Known' = Known
      BY <2>2, <3>1, LibraryStays
    <3>3. \A q : (Waiting(q)' <=> Waiting(q)) /\ (BeingExtended(q)' <=> BeingExtended(q))
      BY <3>1, <3>2 DEF Waiting, BeingExtended
    <3>4. QueueInv' /\ BetweenInv' /\ GrowingInv'
      BY <2>2, <3>1, <3>2, <3>3 DEF SearchInv, QueueInv, BetweenInv, GrowingInv
    <3> QED BY <3>2, <3>4 DEF SearchInv
  <2> QED BY <2>3, <2>4, <2>5, <2>6, <2>7, <2>8 DEF Next
<1> QED BY <1>1, <1>2 DEF IInv

LEMMA SpecInv == Spec => []IInv
  BY InitialInv, NextInv, PTL DEF Spec

-----------------------------------------------------------------------------
(* What the constructor of PolyominoGenerator promises.                    *)

\* Ids and pieces determine each other, and turning stays among them.
LEMMA IdsAndPieces ==
  ASSUME LibraryInv
  PROVE  /\ DOMAIN polyominoById = InUse /\ Range(polyominoById) = Known
         /\ \A id \in InUse :
               /\ polyominoById[id] \in Known /\ polyominoById[id] \in Pieces
               /\ idByPolyomino[polyominoById[id]] = id
               /\ rotateClockwise(polyominoById[id]) \in Known
               /\ reflectHorizontally(polyominoById[id]) \in Known
               /\ clockwiseRotatedIds[id]
                     = idByPolyomino[rotateClockwise(polyominoById[id])]
               /\ horizontallyReflectedIds[id]
                     = idByPolyomino[reflectHorizontally(polyominoById[id])]
         /\ \A p \in Known : idByPolyomino[p] \in InUse /\ polyominoById[idByPolyomino[p]] = p
         /\ DOMAIN clockwiseRotatedIds = InUse /\ DOMAIN horizontallyReflectedIds = InUse
<1>1. /\ polyominoById \in Bijection(InUse, Known) /\ Known \subseteq Pieces
      /\ \A id \in InUse : idByPolyomino[polyominoById[id]] = id
      /\ DOMAIN clockwiseRotatedIds = InUse /\ DOMAIN horizontallyReflectedIds = InUse
      /\ \A id \in InUse :
            /\ clockwiseRotatedIds[id] = idByPolyomino[rotateClockwise(polyominoById[id])]
            /\ horizontallyReflectedIds[id]
                  = idByPolyomino[reflectHorizontally(polyominoById[id])]
  BY DEF LibraryInv, TablesInv, Agree, Known
<1>2. /\ DOMAIN polyominoById = InUse
      /\ \A id \in InUse : polyominoById[id] \in Known
      /\ \A p \in Known : \E id \in InUse : polyominoById[id] = p
  BY <1>1 DEF Bijection, Injection, Surjection
<1>3. Range(polyominoById) = Known
  BY <1>2 DEF Range
<1>4. \A p \in Known : rotateClockwise(p) \in Known /\ reflectHorizontally(p) \in Known
  <2>1. Known \in SUBSET Pieces /\ \A q \in Known : Symmetric(q) \subseteq Known
    BY KnownPieces
  <2> QED BY <2>1, TurnsStay
<1> QED BY <1>1, <1>2, <1>3, <1>4

\* The tables say of every piece in the library what the geometry says: its
\* id, and the ids of the pieces that a quarter turn and a mirror make of it
\* (recordTransformations).  This holds after every registration, for pieces
\* of any size, as long as the canonical ids have not run out.
THEOREM TablesAgreeWithGeometry ==
  Spec => [](mCanonicalPointer <= CanonicalCount => TablesAgree)
<1>1. IInv => (mCanonicalPointer <= CanonicalCount => TablesAgree)
  <2> SUFFICES ASSUME IInv, mCanonicalPointer <= CanonicalCount PROVE TablesAgree
    OBVIOUS
  <2>1. LibraryInv
    BY DEF IInv, Room
  <2> QED BY <2>1, IdsAndPieces DEF TablesAgree, Known
<1> QED BY <1>1, SpecInv, PTL

\* What the canonical ids say of shapes follows from the tables alone.
LEMMA CanonicalOfShape ==
  ASSUME LibraryInv
  PROVE  CanonicalTellsShape
<1> SUFFICES ASSUME NEW id \in DOMAIN polyominoById, NEW c \in 0 .. mCanonicalPointer - 1
             PROVE  transformedToCanonical[id] = c
                       <=> polyominoById[c] \in Symmetric(polyominoById[id])
  BY DEF CanonicalTellsShape
<1> DEFINE d == transformedToCanonical[id]
           x == polyominoById[id]
<1>1. id \in InUse /\ x \in Pieces
  BY IdsAndPieces
<1>2. /\ d \in 0 .. mCanonicalPointer - 1 /\ polyominoById[d] \in Symmetric(x)
      /\ \A a, b \in 0 .. mCanonicalPointer - 1 :
            polyominoById[a] \in Symmetric(polyominoById[b]) => a = b
  BY <1>1 DEF LibraryInv, CanonicalInv, OnePerShape
<1>3. Symmetric(polyominoById[d]) = Symmetric(x)
  BY <1>1, <1>2, SymmetricEqual
<1> QED BY <1>2, <1>3

\* Two ids share their canonical id exactly if their pieces are turned into
\* each other by a symmetry of the square: searchTransformation and record
\* neither split a shape nor merge two, for pieces of any size.
THEOREM CanonicalIdsTellShapes ==
  Spec => [](mCanonicalPointer <= CanonicalCount => CanonicalTellsShape)
<1>1. IInv => (mCanonicalPointer <= CanonicalCount => CanonicalTellsShape)
  BY CanonicalOfShape DEF IInv, Room
<1> QED BY <1>1, SpecInv, PTL

\* What a player's slots rely on: turning a piece in the library gives a piece
\* in the library with the same canonical id.
TurnsKeepCanonical ==
    \A id \in DOMAIN polyominoById :
       /\ {clockwiseRotatedIds[id], horizontallyReflectedIds[id]} \subseteq DOMAIN polyominoById
       /\ transformedToCanonical[clockwiseRotatedIds[id]] = transformedToCanonical[id]
       /\ transformedToCanonical[horizontallyReflectedIds[id]] = transformedToCanonical[id]

THEOREM TurningStaysInTheSlot ==
  Spec => [](mCanonicalPointer <= CanonicalCount => TurnsKeepCanonical)
<1>1. ASSUME IInv, mCanonicalPointer <= CanonicalCount PROVE TurnsKeepCanonical
  <2>1. LibraryInv /\ CanonicalTellsShape
    BY <1>1, CanonicalOfShape DEF IInv, Room
  <2>2. ASSUME NEW id \in InUse, NEW j \in InUse,
               polyominoById[j] \in Symmetric(polyominoById[id])
        PROVE  transformedToCanonical[j] = transformedToCanonical[id]
    <3>1. polyominoById[id] \in Pieces
      BY <2>1, IdsAndPieces
    <3>2. Symmetric(polyominoById[j]) = Symmetric(polyominoById[id])
      BY <2>2, <3>1, SymmetricEqual
    <3>3. /\ transformedToCanonical[j] \in 0 .. mCanonicalPointer - 1
          /\ polyominoById[transformedToCanonical[j]] \in Symmetric(polyominoById[j])
      BY <2>1 DEF LibraryInv, CanonicalInv, OnePerShape
    <3> QED BY <2>1, <3>2, <3>3, IdsAndPieces DEF CanonicalTellsShape
  <2>3. ASSUME NEW id \in InUse
        PROVE  /\ clockwiseRotatedIds[id] \in InUse /\ horizontallyReflectedIds[id] \in InUse
               /\ polyominoById[clockwiseRotatedIds[id]] \in Symmetric(polyominoById[id])
               /\ polyominoById[horizontallyReflectedIds[id]] \in Symmetric(polyominoById[id])
    <3> DEFINE x == polyominoById[id]
    <3>1. /\ x \in Pieces /\ rotateClockwise(x) \in Known /\ reflectHorizontally(x) \in Known
          /\ clockwiseRotatedIds[id] = idByPolyomino[rotateClockwise(x)]
          /\ horizontallyReflectedIds[id] = idByPolyomino[reflectHorizontally(x)]
      BY <2>1, IdsAndPieces
    <3>2. x \in Symmetric(x)
      BY <3>1, SymmetricTurns
    <3>3. rotateClockwise(x) \in Symmetric(x) /\ reflectHorizontally(x) \in Symmetric(x)
      BY <3>1, <3>2, SymmetricClosed DEF Pieces
    <3>4. \A p \in Known : idByPolyomino[p] \in InUse /\ polyominoById[idByPolyomino[p]] = p
      BY <2>1, IdsAndPieces
    <3> HIDE DEF x
    <3>5. /\ clockwiseRotatedIds[id] \in InUse /\ horizontallyReflectedIds[id] \in InUse
          /\ polyominoById[clockwiseRotatedIds[id]] \in Symmetric(x)
          /\ polyominoById[horizontallyReflectedIds[id]] \in Symmetric(x)
      BY <3>1, <3>3, <3>4
    <3> QED BY <3>5 DEF x
  <2> QED BY <2>1, <2>2, <2>3, IdsAndPieces DEF TurnsKeepCanonical
<1> QED BY <1>1, SpecInv, PTL

\* The constructor extends one piece of each shape only and still finds every
\* piece: when a level ends, the library holds exactly the pieces up to its
\* size, for any MaxBlocks that the canonical ids suffice for.
THEOREM LibraryIsComplete ==
  Spec => [](mCanonicalPointer <= CanonicalCount => LevelsComplete)
<1>1. ASSUME IInv, mCanonicalPointer <= CanonicalCount PROVE LevelsComplete
  <2>1. LibraryInv /\ SearchInv
    BY <1>1 DEF IInv, Room
  <2> QED BY <2>1, IdsAndPieces DEF SearchInv, BetweenInv, UpTo, LevelsComplete
<1> QED BY <1>1, SpecInv, PTL

\* No table is written beyond its end while both pointers are within theirs,
\* and what is in the tables has the type of the C++ arrays.
THEOREM TablesKeepTheirTypes ==
  Spec => [](mCanonicalPointer <= CanonicalCount
                /\ mTransformationPointer <= PolyominoCount => TypeOK)
<1>1. ASSUME IInv, mCanonicalPointer <= CanonicalCount,
             mTransformationPointer <= PolyominoCount
      PROVE  TypeOK
  <2> DEFINE mC == mCanonicalPointer
             mT == mTransformationPointer
  <2>1. LibraryInv /\ SearchInv /\ mC \in Nat \ {0}
    BY <1>1 DEF IInv, Room
  <2>2. /\ mT \in Nat /\ CanonicalCount <= mT
        /\ CanonicalCount \in Nat \ {0} /\ PolyominoCount \in Nat \ {0}
        /\ CanonicalCount <= PolyominoCount
    BY <2>1, GeneratorAssumption DEF LibraryInv, NumbersInv
  <2>3. /\ mC \in 0 .. CanonicalCount /\ mT \in CanonicalCount .. PolyominoCount
        /\ 0 .. mC - 1 \subseteq CanonicalId /\ CanonicalId \subseteq Id
        /\ CanonicalCount .. mT - 1 \subseteq Id /\ CanonicalCount .. mT - 1 \subseteq InUse
    BY <1>1, <2>1, <2>2 DEF Id, CanonicalId, InUse
  <2>4. InUse \subseteq Id
    BY <2>3 DEF InUse
  <2>5. /\ DOMAIN polyominoById = InUse
        /\ \A id \in InUse :
               /\ polyominoById[id] \in Known
               /\ clockwiseRotatedIds[id] \in InUse /\ horizontallyReflectedIds[id] \in InUse
        /\ \A p \in Known : idByPolyomino[p] \in InUse
        /\ DOMAIN clockwiseRotatedIds = InUse /\ DOMAIN horizontallyReflectedIds = InUse
    BY <2>1, IdsAndPieces
  <2>6. /\ pieceSize \in 1 .. MaxBlocks /\ growing \in BOOLEAN
        /\ sourceCanonicalPieces \in Seq(Known)
        /\ pieceSizeCount \in 0 .. Len(sourceCanonicalPieces)
    BY <2>1 DEF SearchInv, QueueInv
  <2>7. ASSUME NEW p \in Known PROVE Cardinality(p) \in 1 .. MaxBlocks
    <3>1. PICK size \in 1 .. MaxBlocks : Known \subseteq UpTo(size)
      <4>1. CASE growing
        <5>1. pieceSize + 1 \in 1 .. MaxBlocks /\ Known \subseteq UpTo(pieceSize + 1)
          BY <2>1, <2>6, <4>1, GeneratorAssumption DEF SearchInv, GrowingInv
        <5> QED BY <5>1
      <4>2. CASE ~growing
        BY <2>1, <2>6, <4>2 DEF SearchInv, BetweenInv
      <4> QED BY <4>1, <4>2
    <3>2. PICK n \in 1 .. size : p \in AllPieces[n]
      BY <3>1 DEF UpTo
    <3>3. n \in 1 .. MaxBlocks
      BY <3>1, GeneratorAssumption
    <3> QED BY <3>2, <3>3, LevelProperties
  <2>8. DOMAIN transformedToCanonical \subseteq Id
        /\ Range(transformedToCanonical) \subseteq CanonicalId
    <3>1. /\ DOMAIN transformedToCanonical
                = (0 .. CanonicalCount - 1) \cup (CanonicalCount .. mT - 1)
          /\ \A c \in 0 .. CanonicalCount - 1 : transformedToCanonical[c] = c
          /\ \A id \in InUse : transformedToCanonical[id] \in 0 .. mC - 1
      BY <2>1 DEF LibraryInv, CanonicalInv, OnePerShape
    <3>2. ASSUME NEW i \in DOMAIN transformedToCanonical
          PROVE  i \in Id /\ transformedToCanonical[i] \in CanonicalId
      <4>1. CASE i \in 0 .. CanonicalCount - 1
        BY <2>3, <3>1, <4>1 DEF CanonicalId
      <4>2. CASE i \in CanonicalCount .. mT - 1
        BY <2>3, <3>1, <4>2
      <4> QED BY <3>1, <4>1, <4>2
    <3> QED BY <3>2 DEF Range
  <2>9. Range(sourceCanonicalPieces) \subseteq Known
    <3>1. \A i \in DOMAIN sourceCanonicalPieces : sourceCanonicalPieces[i] \in Known
      BY <2>6
    <3> QED BY <3>1 DEF Range
  <2>10. /\ Range(idByPolyomino) \subseteq Id
         /\ Range(clockwiseRotatedIds) \cup Range(horizontallyReflectedIds) \subseteq Id
    BY <2>4, <2>5 DEF Range, Known
  <2>11. /\ DOMAIN polyominoById \subseteq Id
         /\ \A id \in DOMAIN polyominoById : Cardinality(polyominoById[id]) \in 1 .. MaxBlocks
    BY <2>4, <2>5, <2>7
  <2> QED BY <2>3, <2>6, <2>8, <2>9, <2>10, <2>11 DEF TypeOK, Known
<1> QED BY <1>1, SpecInv, PTL

=============================================================================
