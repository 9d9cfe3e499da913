---------------------------- MODULE RouteProofs ----------------------------
(***************************************************************************)
(* What the operators of the route compute, for every route: how far the   *)
(* legs lead, which point lies at which arc length, and which of the       *)
(* candidates the tracker chooses.  The tracker and the walk along the     *)
(* route are shown to agree on the legs.                                   *)
(***************************************************************************)
EXTENDS RouteManager, TLAPS, WellFoundedInduction

-----------------------------------------------------------------------------
(* Induction, with a set in place of a predicate: both facts follow from the *)
(* order of the natural numbers being well founded.                          *)
LEMMA LeastElement ==
  ASSUME NEW T, T \subseteq Nat, T # {}
  PROVE  \E x \in T : \A y \in T : x <= y
<1>1. PICK x \in T : \A y \in T : ~ (<<y, x>> \in OpToRel(<, Nat))
  BY NatLessThanWellFounded, WFMin
<1>2. \A y \in T : ~(y < x)
  BY <1>1 DEF OpToRel
<1> QED
  BY <1>2

LEMMA SetInduction ==
  ASSUME NEW T, 0 \in T, \A n \in Nat : n \in T => n + 1 \in T
  PROVE  Nat \subseteq T
<1> SUFFICES ASSUME Nat \ T # {} PROVE FALSE
  OBVIOUS
<1>1. PICK x \in Nat \ T : \A y \in Nat \ T : x <= y
  BY LeastElement
<1>2. x # 0 /\ x - 1 \in Nat /\ x - 1 \in T
  BY <1>1
<1> QED
  BY <1>2

-----------------------------------------------------------------------------
(* Legs.                                                                     *)
LEMMA LengthIsNat ==
  ASSUME NEW p \in Int \X Int, NEW q \in Int \X Int
  PROVE  Length(p, q) \in Nat
<1>1. \A n \in Int : Size(n) \in Nat
  BY DEF Size
<1>2. /\ p[1] \in Int /\ p[2] \in Int /\ q[1] \in Int /\ q[2] \in Int
  OBVIOUS
<1>3. q[1] - p[1] \in Int /\ q[2] - p[2] \in Int
  BY <1>2
<1>4. Size(q[1] - p[1]) \in Nat /\ Size(q[2] - p[2]) \in Nat
  BY <1>1, <1>3, Zenon
<1> QED
  BY <1>4 DEF Length

-----------------------------------------------------------------------------
(* The running total.                                                        *)
LEMMA TotalsExist ==
  ASSUME NEW w \in [Nat -> Nat], NEW k \in Nat
  PROVE  \E f \in [0 .. k -> Nat] :
           f[0] = 0 /\ \A n \in 1 .. k : f[n] = f[n - 1] + w[n]
<1> DEFINE Totals(m) == {f \in [0 .. m -> Nat] :
                           f[0] = 0 /\ \A n \in 1 .. m : f[n] = f[n - 1] + w[n]}
           T == {m \in Nat : Totals(m) # {}}
<1>1. Totals(0) # {}
  <2> DEFINE g == [n \in 0 .. 0 |-> 0]
  <2>1. g \in [0 .. 0 -> Nat] /\ g[0] = 0 /\ 1 .. 0 = {}
    OBVIOUS
  <2>2. g \in Totals(0)
    BY <2>1
  <2> QED
    BY <2>2
<1>2. ASSUME NEW m \in Nat, Totals(m) # {} PROVE Totals(m + 1) # {}
  <2>1. PICK f \in [0 .. m -> Nat] :
          f[0] = 0 /\ \A n \in 1 .. m : f[n] = f[n - 1] + w[n]
    BY <1>2
  <2>2. f[m] + w[m + 1] \in Nat
    <3>1. f[m] \in Nat /\ w[m + 1] \in Nat
      BY <2>1
    <3>2. \A a, b \in Nat : a + b \in Nat
      OBVIOUS
    <3> QED
      BY <3>1, <3>2, Zenon
  <2> DEFINE g == [n \in 0 .. m + 1 |-> IF n = m + 1 THEN f[m] + w[m + 1]
                                                     ELSE f[n]]
  <2>3. \A n \in 0 .. m + 1 : g[n] \in Nat
    <3>1. \A n \in 0 .. m + 1 : n # m + 1 => n \in 0 .. m
      OBVIOUS
    <3> QED
      BY <2>1, <2>2, <3>1, Zenon
  <2>4. g \in [0 .. m + 1 -> Nat]
    BY <2>3
  <2>5. /\ g[m + 1] = f[m] + w[m + 1]
        /\ \A n \in 0 .. m : g[n] = f[n]
    OBVIOUS
  <2> HIDE DEF g
  <2>6. \A n \in 1 .. m + 1 : g[n] = g[n - 1] + w[n]
    <3> SUFFICES ASSUME NEW n \in 1 .. m + 1 PROVE g[n] = g[n - 1] + w[n]
      OBVIOUS
    <3>1. CASE n = m + 1
      <4>1. n - 1 = m /\ m \in 0 .. m
        BY <3>1
      <4> QED
        BY <2>5, <3>1, <4>1
    <3>2. CASE n # m + 1
      <4>1. n \in 1 .. m /\ n \in 0 .. m /\ n - 1 \in 0 .. m
        BY <3>2
      <4> QED
        BY <2>1, <2>5, <4>1
    <3> QED
      BY <3>1, <3>2
  <2>7. g[0] = 0
    BY <2>1, <2>5
  <2>8. g \in Totals(m + 1)
    BY <2>4, <2>6, <2>7
  <2> QED
    BY <2>8
<1> HIDE DEF Totals
<1>3. Nat \subseteq T
  <2>1. 0 \in T /\ \A m \in Nat : m \in T => m + 1 \in T
    BY <1>1, <1>2
  <2> HIDE DEF T
  <2> QED
    BY <2>1, SetInduction
<1>4. PICK f : f \in Totals(k)
  BY <1>3
<1> QED
  BY <1>4 DEF Totals

LEMMA TravelledRecurs ==
  ASSUME NEW points \in Seq(Int \X Int), NEW legs,
         \A n \in legs : n \in AllLegs(points)
  PROVE  /\ Travelled(points, legs) \in [0 .. Len(points) -> Nat]
         /\ Travelled(points, legs)[0] = 0
         /\ \A n \in 1 .. Len(points) :
              Travelled(points, legs)[n] =
                Travelled(points, legs)[n - 1]
                + (IF n \in legs THEN LegLength(points, n) ELSE 0)
<1> DEFINE K == Len(points)
           w == [n \in Nat |-> IF n \in legs THEN LegLength(points, n) ELSE 0]
<1>1. Travelled(points, legs) =
        CHOOSE f : f = [n \in 0 .. K |->
                          IF n = 0 THEN 0
                          ELSE f[n - 1] + (IF n \in legs
                                             THEN LegLength(points, n) ELSE 0)]
  BY DEF Travelled
<1>2. K \in Nat
  OBVIOUS
<1>3. w \in [Nat -> Nat]
  <2>1. \A n \in legs : LegLength(points, n) \in Nat
    <3> SUFFICES ASSUME NEW n \in legs PROVE LegLength(points, n) \in Nat
      OBVIOUS
    <3>1. points[n] \in Int \X Int /\ points[n + 1] \in Int \X Int
      BY DEF AllLegs
    <3> QED
      BY <3>1, LengthIsNat DEF LegLength
  <2> QED
    BY <2>1
<1> HIDE DEF K
<1>4. PICK f \in [0 .. K -> Nat] :
        f[0] = 0 /\ \A n \in 1 .. K : f[n] = f[n - 1] + w[n]
  <2> HIDE DEF w
  <2> QED
    BY <1>2, <1>3, TotalsExist
<1>5. f = [n \in 0 .. K |->
             IF n = 0 THEN 0
             ELSE f[n - 1] + (IF n \in legs THEN LegLength(points, n) ELSE 0)]
  <2>1. \A n \in 0 .. K :
          f[n] = IF n = 0 THEN 0
                 ELSE f[n - 1] + (IF n \in legs THEN LegLength(points, n) ELSE 0)
    <3>1. \A n \in 0 .. K : n # 0 => n \in 1 .. K /\ n \in Nat
      BY <1>2
    <3>2. \A n \in Nat : w[n] = IF n \in legs THEN LegLength(points, n) ELSE 0
      OBVIOUS
    <3> HIDE DEF w
    <3> QED
      BY <1>4, <3>1, <3>2, Zenon
  <2> QED
    BY <1>4, <2>1
<1> DEFINE u == Travelled(points, legs)
<1>6. u = [n \in 0 .. K |->
             IF n = 0 THEN 0
             ELSE u[n - 1] + (IF n \in legs THEN LegLength(points, n) ELSE 0)]
  BY <1>1, <1>5
<1> HIDE DEF u
<1>7. /\ DOMAIN u = 0 .. K /\ u[0] = 0
      /\ \A n \in 1 .. K :
           u[n] = u[n - 1] + (IF n \in legs THEN LegLength(points, n) ELSE 0)
  BY <1>2, <1>6
<1>8. u = [n \in 0 .. K |-> u[n]]
  BY <1>6
<1>9. \A n \in 0 .. K : u[n] \in Nat
  <2> DEFINE T == {n \in Nat : n <= K => u[n] \in Nat}
  <2>1. \A n \in Nat : w[n] \in Nat /\ w[n] = IF n \in legs THEN LegLength(points, n) ELSE 0
    BY <1>3
  <2> HIDE DEF w
  <2>2. 0 \in T
    BY <1>7
  <2>3. ASSUME NEW n \in Nat, n \in T PROVE n + 1 \in T
    <3> SUFFICES ASSUME n + 1 <= K PROVE u[n + 1] \in Nat
      OBVIOUS
    <3>1. u[n] \in Nat /\ n + 1 \in 1 .. K /\ (n + 1) - 1 = n
      BY <1>2, <2>3
    <3>2. u[n + 1] = u[n] + w[n + 1]
      BY <1>7, <2>1, <3>1
    <3>3. w[n + 1] \in Nat
      BY <2>1
    <3> QED
      BY <3>1, <3>2, <3>3
  <2> HIDE DEF T
  <2>4. Nat \subseteq T
    BY <2>2, <2>3, SetInduction
  <2> QED
    BY <1>2, <2>4 DEF T
<1> QED
  BY <1>7, <1>8, <1>9 DEF u, K

(* How far some of the legs lead, leg by leg.                                *)
LEMMA TravelledByLegs ==
  ASSUME NEW points \in Seq(Int \X Int), NEW legs,
         \A i \in legs : i \in AllLegs(points),
         NEW n \in 1 .. Len(points)
  PROVE  LET upto == Travelled(points, legs) IN
         /\ upto[n] \in Nat /\ upto[n - 1] \in Nat
         /\ n \in legs => upto[n] = upto[n - 1] + LegLength(points, n)
         /\ n \notin legs => upto[n] = upto[n - 1]
         /\ upto[n - 1] <= upto[n]
<1> DEFINE u == Travelled(points, legs)
<1>1. /\ u \in [0 .. Len(points) -> Nat]
      /\ u[n] = u[n - 1] + (IF n \in legs THEN LegLength(points, n) ELSE 0)
  BY TravelledRecurs
<1> HIDE DEF u
<1>2. n \in 0 .. Len(points) /\ n - 1 \in 0 .. Len(points)
  OBVIOUS
<1>3. u[n] \in Nat /\ u[n - 1] \in Nat
  BY <1>1, <1>2
<1>4. n \in legs => u[n] = u[n - 1] + LegLength(points, n)
  BY <1>1
<1>5. n \notin legs => u[n] = u[n - 1]
  BY <1>1, <1>3
<1>6. n \in legs => LegLength(points, n) \in Nat
  <2>1. n \in legs => points[n] \in Int \X Int /\ points[n + 1] \in Int \X Int
    BY DEF AllLegs
  <2> QED
    BY <2>1, LengthIsNat DEF LegLength
<1>7. u[n - 1] <= u[n]
  BY <1>3, <1>4, <1>5, <1>6
<1> QED
  BY <1>3, <1>4, <1>5, <1>7 DEF u

(* It never leads back.                                                      *)
LEMMA TravelledGrows ==
  ASSUME NEW points \in Seq(Int \X Int), NEW legs,
         \A i \in legs : i \in AllLegs(points)
  PROVE  \A m, n \in 0 .. Len(points) :
           m <= n => Travelled(points, legs)[m] <= Travelled(points, legs)[n]
<1> DEFINE u == Travelled(points, legs)
           T == {n \in Nat : n <= Len(points) =>
                               \A m \in 0 .. n : u[m] <= u[n]}
<1>1. u \in [0 .. Len(points) -> Nat] /\ Len(points) \in Nat
  BY TravelledRecurs
<1>2. \A n \in 1 .. Len(points) : u[n - 1] <= u[n]
  BY TravelledByLegs
<1> HIDE DEF u
<1>3. 0 \in T
  BY <1>1
<1>4. ASSUME NEW n \in Nat, n \in T PROVE n + 1 \in T
  <2> SUFFICES ASSUME n + 1 <= Len(points), NEW m \in 0 .. n + 1
               PROVE  u[m] <= u[n + 1]
    OBVIOUS
  <2>1. /\ n + 1 \in 1 .. Len(points) /\ (n + 1) - 1 = n
        /\ n \in 0 .. Len(points) /\ m \in 0 .. Len(points)
        /\ m \in 0 .. n \/ m = n + 1
    BY <1>1
  <2>2. u[n] <= u[n + 1]
    BY <1>2, <2>1
  <2>3. u[m] \in Nat /\ u[n] \in Nat /\ u[n + 1] \in Nat
    <3>1. \A k \in 0 .. Len(points) : u[k] \in Nat
      BY <1>1
    <3>2. n + 1 \in 0 .. Len(points)
      BY <2>1
    <3> QED
      BY <2>1, <3>1, <3>2, Zenon
  <2>4. m \in 0 .. n => u[m] <= u[n]
    BY <1>4, <2>1
  <2> QED
    BY <2>1, <2>2, <2>3, <2>4
<1> HIDE DEF T
<1>5. Nat \subseteq T
  BY <1>3, <1>4, SetInduction
<1> QED
  BY <1>5 DEF T, u

(* Every length on the way is reached on one of the legs.                    *)
LEMMA LengthIsOnLeg ==
  ASSUME NEW points \in Seq(Int \X Int), NEW legs,
         \A i \in legs : i \in AllLegs(points),
         NEW m \in 0 .. Len(points), NEW n \in 0 .. Len(points), NEW arc \in Nat,
         Travelled(points, legs)[m] < arc, arc <= Travelled(points, legs)[n]
  PROVE  \E i \in legs :
           /\ m < i /\ i <= n
           /\ Travelled(points, legs)[i - 1] < arc
           /\ arc <= Travelled(points, legs)[i]
<1> DEFINE u == Travelled(points, legs)
           T == {i \in 0 .. Len(points) : arc <= u[i]}
<1>1. u \in [0 .. Len(points) -> Nat] /\ Len(points) \in Nat
  BY TravelledRecurs
<1>2. \A i, j \in 0 .. Len(points) : i <= j => u[i] <= u[j]
  BY TravelledGrows
<1>3. \A i \in 1 .. Len(points) : i \notin legs => u[i] = u[i - 1]
  BY TravelledByLegs
<1>4. u[m] < arc /\ arc <= u[n]
  OBVIOUS
<1> HIDE DEF u
<1>5. PICK i \in T : \A j \in T : i <= j
  <2>1. T \subseteq Nat /\ T # {}
    BY <1>4
  <2> HIDE DEF T
  <2> QED
    BY <2>1, LeastElement
<1>6. i \in 0 .. Len(points) /\ arc <= u[i] /\ i <= n
  BY <1>4, <1>5
<1>7. m < i
  <2>1. i <= m => u[i] <= u[m]
    BY <1>2, <1>6
  <2>2. u[i] \in Nat /\ u[m] \in Nat
    BY <1>1, <1>6
  <2> QED
    BY <1>4, <1>6, <2>1, <2>2
<1>8. i \in 1 .. Len(points) /\ i - 1 \in 0 .. Len(points) /\ ~(i <= i - 1)
  BY <1>1, <1>6, <1>7
<1>9. u[i - 1] < arc
  <2>1. u[i - 1] \in Nat
    BY <1>1, <1>8
  <2>2. i - 1 \notin T
    BY <1>5, <1>8
  <2> QED
    BY <1>8, <2>1, <2>2
<1>10. i \in legs
  <2>1. u[i] \in Nat /\ u[i - 1] \in Nat
    BY <1>1, <1>6, <1>8
  <2> QED
    BY <1>3, <1>6, <1>8, <1>9, <2>1
<1> QED
  BY <1>6, <1>7, <1>9, <1>10 DEF u

-----------------------------------------------------------------------------
(* The walk.                                                                 *)
LEMMA RouteFacts ==
  ASSUME NEW points \in Routes
  PROVE  /\ points \in Seq(Int \X Int) /\ Len(points) \in Nat
         /\ \A i \in AllLegs(points) :
              /\ i \in 1 .. Len(points) /\ i + 1 \in 1 .. Len(points)
              /\ points[i] \in Int \X Int /\ points[i + 1] \in Int \X Int
              /\ \/ points[i][1] = points[i + 1][1]
                 \/ points[i][2] = points[i + 1][2]
              /\ LegLength(points, i) \in Nat
         /\ \A i \in Legs(points) : i \in AllLegs(points)
                                    /\ LegLength(points, i) > 0
<1>1. points \in Seq(Int \X Int) /\ Len(points) \in Nat
  BY RoutesAssumption DEF RoutesAssumption
<1>2. ASSUME NEW i \in AllLegs(points)
      PROVE  /\ i \in 1 .. Len(points) /\ i + 1 \in 1 .. Len(points)
             /\ points[i] \in Int \X Int /\ points[i + 1] \in Int \X Int
             /\ \/ points[i][1] = points[i + 1][1]
                \/ points[i][2] = points[i + 1][2]
             /\ LegLength(points, i) \in Nat
  <2>1. i \in 1 .. Len(points) /\ i + 1 \in 1 .. Len(points)
    BY <1>1 DEF AllLegs
  <2>2. points[i] \in Int \X Int /\ points[i + 1] \in Int \X Int
    BY <1>1, <2>1
  <2>3. LegLength(points, i) \in Nat
    BY <2>2, LengthIsNat DEF LegLength
  <2> QED
    BY <2>1, <2>2, <2>3, RoutesAssumption DEF RoutesAssumption
<1>3. \A i \in Legs(points) : i \in AllLegs(points) /\ LegLength(points, i) > 0
  <2>1. MinSegment \in Nat \ {0}
    BY TrackerConfigAssumption DEF TrackerConfigAssumption
  <2> QED
    BY <1>2, <2>1 DEF Legs
<1> QED
  BY <1>1, <1>2, <1>3

(* Steps along a leg: from its first point to its last.                      *)
LEMMA TimesSignum ==
  ASSUME NEW n \in Int, NEW m \in Int
  PROVE  n * Signum(m) = IF m < 0 THEN -n ELSE IF m = 0 THEN 0 ELSE n
<1>1. CASE m < 0
  <2>1. Signum(m) = -1 /\ n * (-1) = -n
    BY <1>1 DEF Signum
  <2> QED
    BY <1>1, <2>1
<1>2. CASE m = 0
  <2>1. Signum(m) = 0 /\ n * 0 = 0
    BY <1>2 DEF Signum
  <2> QED
    BY <1>2, <2>1
<1>3. CASE m > 0
  <2>1. Signum(m) = 1 /\ n * 1 = n
    BY <1>3 DEF Signum
  <2> QED
    BY <1>3, <2>1
<1> QED
  BY <1>1, <1>2, <1>3

LEMMA StepsOfLeg ==
  ASSUME NEW p \in Int \X Int, NEW q \in Int \X Int,
         p[1] = q[1] \/ p[2] = q[2]
  PROVE  /\ Towards(p, q, 0) = p
         /\ Towards(p, q, Length(p, q)) = q
         /\ \A n \in Int : Towards(p, q, n) \in Int \X Int
         /\ \A n \in 0 .. Length(p, q) : Length(p, Towards(p, q, n)) = n
<1> DEFINE step(m, n) == IF m < 0 THEN -n ELSE IF m = 0 THEN 0 ELSE n
<1>1. PICK a, b, c, d \in Int : p = <<a, b>> /\ q = <<c, d>>
  OBVIOUS
<1>2. \A n \in Int : Towards(p, q, n) = <<a + step(c - a, n), b + step(d - b, n)>>
  BY <1>1, TimesSignum DEF Towards
<1>3. Length(p, q) = Size(c - a) + Size(d - b)
  BY <1>1 DEF Length
<1>4. a = c \/ b = d
  BY <1>1
<1>5. Length(p, q) \in Nat
  BY LengthIsNat
<1>6. Towards(p, q, 0) = p
  <2>1. Towards(p, q, 0) = <<a + step(c - a, 0), b + step(d - b, 0)>>
    BY <1>2
  <2> QED
    BY <1>1, <2>1
<1>7. Towards(p, q, Length(p, q)) = q
  <2> DEFINE n == Length(p, q)
  <2>1. Towards(p, q, n) = <<a + step(c - a, n), b + step(d - b, n)>>
    BY <1>2, <1>5
  <2>2. a + step(c - a, n) = c /\ b + step(d - b, n) = d
    BY <1>3, <1>4, <1>5 DEF Size
  <2> QED
    BY <1>1, <2>1, <2>2
<1>8. \A n \in Int : Towards(p, q, n) \in Int \X Int
  BY <1>2
<1>9. ASSUME NEW n \in 0 .. Length(p, q)
      PROVE  Length(p, Towards(p, q, n)) = n
  <2>1. Towards(p, q, n) = <<a + step(c - a, n), b + step(d - b, n)>>
    BY <1>2
  <2>2. Length(p, Towards(p, q, n)) =
          Size((a + step(c - a, n)) - a) + Size((b + step(d - b, n)) - b)
    BY <1>1, <2>1 DEF Length
  <2>3. n \in 0 .. Size(c - a) + Size(d - b)
    BY <1>3
  <2> QED
    BY <1>4, <2>2, <2>3 DEF Size
<1> QED
  BY <1>6, <1>7, <1>8, <1>9

LEMMA ZeroLeg ==
  ASSUME NEW points \in Routes, NEW i \in AllLegs(points),
         LegLength(points, i) = 0
  PROVE  points[i] = points[i + 1]
<1>1. /\ points[i] \in Int \X Int /\ points[i + 1] \in Int \X Int
      /\ points[i][1] = points[i + 1][1] \/ points[i][2] = points[i + 1][2]
  BY RouteFacts
<1>2. /\ Towards(points[i], points[i + 1], 0) = points[i]
      /\ Towards(points[i], points[i + 1], LegLength(points, i)) = points[i + 1]
  BY <1>1, StepsOfLeg DEF LegLength
<1> QED
  BY <1>2

(* Points between which there is no way are the same.                        *)
LEMMA PointsMeet ==
  ASSUME NEW points \in Routes, NEW m \in Nat, NEW n \in Nat,
         m <= n, n < Len(points),
         Travelled(points, AllLegs(points))[m]
           = Travelled(points, AllLegs(points))[n]
  PROVE  points[m + 1] = points[n + 1]
<1> DEFINE u == Travelled(points, AllLegs(points))
           Meets(k) == m <= k /\ k < Len(points) /\ u[m] = u[k]
                         => points[m + 1] = points[k + 1]
           T == {k \in Nat : Meets(k)}
<1>1. /\ points \in Seq(Int \X Int) /\ Len(points) \in Nat
      /\ \A i \in AllLegs(points) : LegLength(points, i) \in Nat
  BY RouteFacts
<1>2. \A k, l \in 0 .. Len(points) : k <= l => u[k] <= u[l]
  BY <1>1, TravelledGrows
<1>3. \A k \in AllLegs(points) :
        u[k] \in Nat /\ u[k - 1] \in Nat /\ u[k] = u[k - 1] + LegLength(points, k)
  <2> SUFFICES ASSUME NEW k \in AllLegs(points)
               PROVE  /\ u[k] \in Nat /\ u[k - 1] \in Nat
                      /\ u[k] = u[k - 1] + LegLength(points, k)
    OBVIOUS
  <2>1. k \in 1 .. Len(points)
    BY RouteFacts
  <2> QED
    BY <1>1, <2>1, TravelledByLegs
<1>4. \A k \in 0 .. Len(points) : u[k] \in Nat
  <2>1. u \in [0 .. Len(points) -> Nat]
    BY <1>1, TravelledRecurs
  <2> HIDE DEF u
  <2> QED
    BY <2>1
<1> HIDE DEF u
<1>5. Meets(0)
  OBVIOUS
<1>6. ASSUME NEW k \in Nat, Meets(k) PROVE Meets(k + 1)
  <2> SUFFICES ASSUME m <= k + 1, k + 1 < Len(points), u[m] = u[k + 1]
               PROVE  points[m + 1] = points[(k + 1) + 1]
    OBVIOUS
  <2>1. CASE m = k + 1
    BY <2>1
  <2>2. CASE m <= k
    <3>1. k + 1 \in AllLegs(points) /\ (k + 1) - 1 = k
      BY <1>1 DEF AllLegs
    <3>2. /\ m \in 0 .. Len(points) /\ k \in 0 .. Len(points)
          /\ k + 1 \in 0 .. Len(points)
      BY <1>1, <2>2
    <3>3. u[m] <= u[k] /\ u[k] <= u[k + 1]
      BY <1>2, <2>2, <3>2
    <3>4. u[m] \in Nat /\ u[k] \in Nat /\ u[k + 1] \in Nat
      BY <1>4, <3>2
    <3>5. u[k + 1] = u[k] + LegLength(points, k + 1)
      BY <1>3, <3>1
    <3>6. LegLength(points, k + 1) \in Nat
      BY <1>1, <3>1
    <3>7. u[m] = u[k] /\ LegLength(points, k + 1) = 0
      BY <3>3, <3>4, <3>5, <3>6
    <3>8. points[k + 1] = points[(k + 1) + 1]
      BY <3>1, <3>7, ZeroLeg
    <3>9. points[m + 1] = points[k + 1]
      BY <1>6, <2>2, <3>7
    <3> QED
      BY <3>8, <3>9
  <2> QED
    BY <2>1, <2>2
<1> HIDE DEF Meets
<1>7. Nat \subseteq T
  <2>1. 0 \in T /\ \A k \in Nat : k \in T => k + 1 \in T
    BY <1>5, <1>6
  <2> HIDE DEF T
  <2> QED
    BY <2>1, SetInduction
<1>8. Meets(n)
  BY <1>7
<1> QED
  BY <1>8 DEF Meets, u

(* The point at an arc length is the one on whichever leg it falls, also at  *)
(* the joint of two legs.                                                    *)
LEMMA WalkOnLeg ==
  ASSUME NEW points \in Routes, NEW i \in AllLegs(points),
         LegLength(points, i) > 0, NEW arc \in Nat,
         Travelled(points, AllLegs(points))[i - 1] <= arc,
         arc <= Travelled(points, AllLegs(points))[i]
  PROVE  PointAtArcLength(points, arc)
           = Towards(points[i], points[i + 1],
                     arc - Travelled(points, AllLegs(points))[i - 1])
<1> DEFINE u == Travelled(points, AllLegs(points))
           onto == {j \in AllLegs(points) :
                      /\ LegLength(points, j) > 0
                      /\ arc <= WalkStart(points, j) + LegLength(points, j)}
<1>1. /\ points \in Seq(Int \X Int) /\ Len(points) \in Nat
      /\ \A j \in AllLegs(points) :
           j \in 1 .. Len(points) /\ LegLength(points, j) \in Nat
  BY RouteFacts
<1>2. \A k, l \in 0 .. Len(points) : k <= l => u[k] <= u[l]
  BY <1>1, TravelledGrows
<1>3. \A k \in AllLegs(points) : /\ u[k] \in Nat /\ u[k - 1] \in Nat
                                 /\ u[k] = u[k - 1] + LegLength(points, k)
  BY <1>1, TravelledByLegs
<1>4. \A k \in AllLegs(points) : WalkStart(points, k) = u[k - 1]
  BY DEF WalkStart
<1>5. u[i - 1] <= arc /\ arc <= u[i]
  OBVIOUS
<1>6. PointAtArcLength(points, arc) =
        IF onto = {} THEN points[Len(points)]
        ELSE Towards(points[Min(onto)], points[Min(onto) + 1],
                     Larger(0, arc) - WalkStart(points, Min(onto)))
  BY DEF PointAtArcLength
<1> HIDE DEF u
<1>7. onto = {j \in AllLegs(points) : LegLength(points, j) > 0 /\ arc <= u[j]}
  BY <1>3, <1>4
<1> HIDE DEF onto
<1>8. i \in onto /\ onto \subseteq Nat
  BY <1>1, <1>5, <1>7
<1> DEFINE m == Min(onto)
<1>9. m \in onto /\ \A j \in onto : m <= j
  BY <1>8, LeastElement DEF Min
<1>10. Larger(0, arc) = arc
  BY DEF Larger
<1>11. PointAtArcLength(points, arc)
         = Towards(points[m], points[m + 1], arc - u[m - 1])
  BY <1>4, <1>6, <1>7, <1>8, <1>9, <1>10
<1> HIDE DEF m
<1>12. m \in AllLegs(points) /\ arc <= u[m] /\ m <= i
  BY <1>7, <1>8, <1>9
<1>13. CASE m = i
  BY <1>11, <1>13 DEF u
<1>14. CASE m < i
  <2>1. /\ m \in 1 .. Len(points) /\ i \in 1 .. Len(points)
        /\ m \in 0 .. Len(points) /\ i - 1 \in 0 .. Len(points) /\ m <= i - 1
        /\ m \in Nat /\ i - 1 \in Nat /\ i - 1 < Len(points)
        /\ (i - 1) + 1 = i
    <3>1. m \in 1 .. Len(points) /\ i \in 1 .. Len(points)
      BY <1>1, <1>12
    <3> QED
      BY <1>1, <1>14, <3>1
  <2>2. u[m] <= u[i - 1]
    BY <1>2, <2>1
  <2>3. u[m] = arc /\ u[i - 1] = arc
    BY <1>3, <1>5, <1>12, <2>2
  <2>4. points[m + 1] = points[i]
    <3>1. points[m + 1] = points[(i - 1) + 1]
      BY <2>1, <2>3, PointsMeet DEF u
    <3> QED
      BY <2>1, <3>1
  <2>5. arc - u[m - 1] = LegLength(points, m) /\ arc - u[i - 1] = 0
    <3>1. /\ u[m] \in Nat /\ u[m - 1] \in Nat /\ LegLength(points, m) \in Nat
          /\ u[m] = u[m - 1] + LegLength(points, m)
      BY <1>1, <1>3, <1>12
    <3> QED
      BY <2>3, <3>1
  <2>6. Towards(points[m], points[m + 1], LegLength(points, m)) = points[m + 1]
    <3>1. /\ points[m] \in Int \X Int /\ points[m + 1] \in Int \X Int
          /\ points[m][1] = points[m + 1][1] \/ points[m][2] = points[m + 1][2]
      BY <1>12, RouteFacts
    <3> QED
      BY <3>1, StepsOfLeg DEF LegLength
  <2>7. Towards(points[i], points[i + 1], 0) = points[i]
    BY RouteFacts, StepsOfLeg
  <2> QED
    BY <1>11, <2>4, <2>5, <2>6, <2>7 DEF u
<1> QED
  <2>1. m \in Int /\ i \in Int
    BY <1>1, <1>12
  <2> QED
    BY <1>12, <1>13, <1>14, <2>1

(* The tracker and the walk measure the same lengths, as long as the tracker *)
(* leaves out no leg but the ones without any length.                        *)
LEMMA SameLengths ==
  ASSUME NEW points \in Routes,
         \A i \in AllLegs(points) : i \in Legs(points) \/ LegLength(points, i) = 0
  PROVE  Travelled(points, Legs(points)) = Travelled(points, AllLegs(points))
<1> DEFINE u == Travelled(points, AllLegs(points))
           v == Travelled(points, Legs(points))
           T == {n \in Nat : n <= Len(points) => v[n] = u[n]}
<1>1. /\ points \in Seq(Int \X Int) /\ Len(points) \in Nat
      /\ \A i \in Legs(points) : i \in AllLegs(points)
  BY RouteFacts
<1>2. /\ u \in [0 .. Len(points) -> Nat] /\ u[0] = 0
      /\ v \in [0 .. Len(points) -> Nat] /\ v[0] = 0
  BY <1>1, TravelledRecurs
<1>3. \A n \in 1 .. Len(points) :
        /\ u[n] \in Nat /\ u[n - 1] \in Nat /\ v[n] \in Nat /\ v[n - 1] \in Nat
        /\ n \in AllLegs(points) => u[n] = u[n - 1] + LegLength(points, n)
        /\ n \notin AllLegs(points) => u[n] = u[n - 1]
        /\ n \in Legs(points) => v[n] = v[n - 1] + LegLength(points, n)
        /\ n \notin Legs(points) => v[n] = v[n - 1]
  BY <1>1, TravelledByLegs
<1> HIDE DEF u, v
<1>4. 0 \in T
  BY <1>2
<1>5. ASSUME NEW n \in Nat, n \in T PROVE n + 1 \in T
  <2> SUFFICES ASSUME n + 1 <= Len(points) PROVE v[n + 1] = u[n + 1]
    OBVIOUS
  <2>1. n + 1 \in 1 .. Len(points) /\ (n + 1) - 1 = n /\ v[n] = u[n]
    BY <1>1, <1>5
  <2>2. /\ u[n + 1] \in Nat /\ u[n] \in Nat
        /\ n + 1 \in AllLegs(points) => u[n + 1] = u[n] + LegLength(points, n + 1)
        /\ n + 1 \notin AllLegs(points) => u[n + 1] = u[n]
        /\ n + 1 \in Legs(points) => v[n + 1] = v[n] + LegLength(points, n + 1)
        /\ n + 1 \notin Legs(points) => v[n + 1] = v[n]
    BY <1>3, <2>1
  <2>3. n + 1 \in AllLegs(points) /\ n + 1 \notin Legs(points)
          => LegLength(points, n + 1) = 0
    OBVIOUS
  <2> QED
    BY <1>1, <2>1, <2>2, <2>3
<1> HIDE DEF T
<1>6. Nat \subseteq T
  BY <1>4, <1>5, SetInduction
<1>7. \A n \in 0 .. Len(points) : v[n] = u[n]
  BY <1>1, <1>6 DEF T
<1> QED
  BY <1>2, <1>7 DEF u, v

-----------------------------------------------------------------------------
(* Projections.                                                              *)

(* The square of a distance grows with the distance.                         *)
LEMMA NearestInRange ==
  ASSUME NEW lower \in Int, NEW upper \in Int, NEW free \in Int, NEW n \in Int,
         lower <= n, n <= upper,
         \/ n = free
         \/ free < lower /\ n = lower
         \/ free > upper /\ n = upper,
         NEW k \in Int, lower <= k, k <= upper, k # n, NEW w \in Int
  PROVE  (n - free) * (n - free) + w * w < (k - free) * (k - free) + w * w
<1>1. \A a, b \in Int : a > 0 /\ b > 0 => a * b > 0
  OBVIOUS
<1>2. (k - free) * (k - free) =
        (n - free) * (n - free) + (k - n) * ((k - n) + 2 * (n - free))
  OBVIOUS
<1>3. (k - n) * ((k - n) + 2 * (n - free)) > 0
  <2>1. CASE k > n
    BY <1>1, <2>1
  <2>2. CASE k < n
    <3>1. (n - k) * ((n - k) + 2 * (free - n)) > 0
      BY <1>1, <2>2
    <3> QED
      BY <3>1
  <2> QED
    BY <2>1, <2>2
<1> QED
  BY <1>2, <1>3

(* How far the point n steps along a leg is from the robot: what is along    *)
(* the leg, and what is beside it.                                           *)
AlongLeg(p, q, robot) ==
  (robot[1] - p[1]) * Signum(q[1] - p[1])
  + (robot[2] - p[2]) * Signum(q[2] - p[2])

LEMMA LegDistance ==
  ASSUME NEW p \in Int \X Int, NEW q \in Int \X Int, NEW robot \in Int \X Int,
         p[1] = q[1] \/ p[2] = q[2], Length(p, q) > 0
  PROVE  /\ AlongLeg(p, q, robot) \in Int
         /\ \E w \in Int : \A n \in Int :
              DistanceSq(Towards(p, q, n), robot) =
                (n - AlongLeg(p, q, robot)) * (n - AlongLeg(p, q, robot)) + w * w
<1> DEFINE step(m, n) == IF m < 0 THEN -n ELSE IF m = 0 THEN 0 ELSE n
           free == AlongLeg(p, q, robot)
<1>1. PICK a, b, c, d, x, y \in Int :
        p = <<a, b>> /\ q = <<c, d>> /\ robot = <<x, y>>
  OBVIOUS
<1>2. free = step(c - a, x - a) + step(d - b, y - b)
  BY <1>1, TimesSignum DEF AlongLeg
<1>3. \A n \in Int : Towards(p, q, n) = <<a + step(c - a, n), b + step(d - b, n)>>
  BY <1>1, TimesSignum DEF Towards
<1>4. (a = c /\ b # d) \/ (a # c /\ b = d)
  BY <1>1 DEF Length, Size
<1>5. free \in Int
  BY <1>2
<1> HIDE DEF free
<1>6. \A px, py \in Int : DistanceSq(<<px, py>>, robot) =
                            (x - px) * (x - px) + (y - py) * (y - py)
  BY <1>1 DEF DistanceSq
<1>7. \A m, k \in Int : m = k \/ m = -k => m * m = k * k
  OBVIOUS
<1>8. PICK w \in Int : \/ w = x - a /\ a = c /\ b # d
                       \/ w = y - b /\ a # c /\ b = d
  BY <1>4
<1>9. ASSUME NEW n \in Int
      PROVE  DistanceSq(Towards(p, q, n), robot) =
               (n - free) * (n - free) + w * w
  <2> DEFINE px == a + step(c - a, n)
             py == b + step(d - b, n)
  <2>1. px \in Int /\ py \in Int /\ Towards(p, q, n) = <<px, py>>
    BY <1>3
  <2>2. \/ x - px = w /\ (y - py = n - free \/ y - py = -(n - free))
        \/ y - py = w /\ (x - px = n - free \/ x - px = -(n - free))
    BY <1>2, <1>8
  <2> HIDE DEF px, py
  <2>3. DistanceSq(Towards(p, q, n), robot) =
          (x - px) * (x - px) + (y - py) * (y - py)
    BY <1>6, <2>1
  <2>4. x - px \in Int /\ y - py \in Int /\ n - free \in Int
    BY <1>5, <2>1
  <2>5. CASE x - px = w /\ (y - py = n - free \/ y - py = -(n - free))
    <3>1. (y - py) * (y - py) = (n - free) * (n - free)
      BY <1>7, <2>4, <2>5
    <3>2. (n - free) * (n - free) \in Int /\ w * w \in Int
      BY <2>4
    <3> QED
      BY <2>3, <2>5, <3>1, <3>2
  <2>6. CASE y - py = w /\ (x - px = n - free \/ x - px = -(n - free))
    <3>1. (x - px) * (x - px) = (n - free) * (n - free)
      BY <1>7, <2>4, <2>6
    <3> QED
      BY <2>3, <2>6, <3>1
  <2> QED
    BY <2>2, <2>5, <2>6
<1> QED
  BY <1>5, <1>9 DEF free

(* Where the legs of the tracker start and end.                              *)
Start(points, i) == Travelled(points, Legs(points))[i - 1]
End(points, i)   == Travelled(points, Legs(points))[i]

(* The point of leg i at an arc length.                                      *)
OnLeg(points, i, arc) ==
  Towards(points[i], points[i + 1], arc - Start(points, i))

LEMMA SegmentFacts ==
  ASSUME NEW points \in Routes, NEW i \in Legs(points)
  PROVE  /\ DOMAIN Segments(points) = Legs(points)
         /\ Segments(points)[i].from = points[i]
         /\ Segments(points)[i].to = points[i + 1]
         /\ Segments(points)[i].length = LegLength(points, i)
         /\ Segments(points)[i].start = Start(points, i)
         /\ i \in Nat /\ Start(points, i) \in Nat /\ End(points, i) \in Nat
         /\ LegLength(points, i) \in Nat /\ LegLength(points, i) > 0
         /\ End(points, i) = Start(points, i) + LegLength(points, i)
         /\ End(points, i) <= LengthOf(points, Legs(points))
         /\ LengthOf(points, Legs(points)) \in Nat
<1>1. /\ points \in Seq(Int \X Int) /\ Len(points) \in Nat
      /\ i \in AllLegs(points) /\ i \in 1 .. Len(points)
      /\ \A j \in Legs(points) : j \in AllLegs(points)
      /\ LegLength(points, i) \in Nat /\ LegLength(points, i) > 0
  BY RouteFacts
<1>2. /\ Start(points, i) \in Nat /\ End(points, i) \in Nat
      /\ End(points, i) = Start(points, i) + LegLength(points, i)
  BY <1>1, TravelledByLegs DEF Start, End
<1>3. End(points, i) <= LengthOf(points, Legs(points))
  <2>1. i \in 0 .. Len(points) /\ Len(points) \in 0 .. Len(points) /\ i <= Len(points)
    BY <1>1
  <2> QED
    BY <1>1, <2>1, TravelledGrows DEF End, LengthOf
<1>4. LengthOf(points, Legs(points)) \in Nat
  <2>1. Travelled(points, Legs(points)) \in [0 .. Len(points) -> Nat]
    BY <1>1, TravelledRecurs
  <2>2. Len(points) \in 0 .. Len(points)
    BY <1>1
  <2> QED
    BY <2>1, <2>2 DEF LengthOf
<1>5. Segments(points)[i] =
        [from |-> points[i], to |-> points[i + 1],
         length |-> LegLength(points, i), start |-> Start(points, i)]
      /\ DOMAIN Segments(points) = Legs(points)
  BY DEF Segments, Start
<1> QED
  BY <1>1, <1>2, <1>3, <1>4, <1>5

LEMMA EndsGrow ==
  ASSUME NEW points \in Routes, NEW i \in Legs(points), NEW j \in Legs(points),
         i <= j
  PROVE  Start(points, i) <= Start(points, j) /\ End(points, i) <= End(points, j)
<1>1. /\ points \in Seq(Int \X Int)
      /\ \A k \in Legs(points) : k \in AllLegs(points)
      /\ i \in 1 .. Len(points) /\ j \in 1 .. Len(points)
  BY RouteFacts
<1>2. /\ i \in 0 .. Len(points) /\ j \in 0 .. Len(points)
      /\ i - 1 \in 0 .. Len(points) /\ j - 1 \in 0 .. Len(points)
      /\ i - 1 <= j - 1
  BY <1>1
<1> QED
  BY <1>1, <1>2, TravelledGrows DEF Start, End

Total(points) == LengthOf(points, Legs(points))

LEMMA TotalIsNat ==
  ASSUME NEW points \in Routes
  PROVE  Total(points) \in Nat
<1>1. /\ points \in Seq(Int \X Int)
      /\ \A k \in Legs(points) : k \in AllLegs(points)
  BY RouteFacts
<1>2. Travelled(points, Legs(points)) \in [0 .. Len(points) -> Nat]
  BY <1>1, TravelledRecurs
<1>3. Len(points) \in 0 .. Len(points)
  BY <1>1
<1> QED
  BY <1>2, <1>3 DEF Total, LengthOf

(* The projection onto a leg that reaches the minimum is the nearest of its  *)
(* points from there on, and the only one so near.                           *)
LEMMA Projection ==
  ASSUME NEW points \in Routes, NEW i \in Legs(points),
         NEW t, t.segments = Segments(points),
         NEW robot \in Int \X Int, NEW minimum \in Nat,
         minimum <= End(points, i)
  PROVE  LET c == ProjectToLeg(t, i, robot, minimum) IN
         /\ c.leg = i
         /\ c.arc \in Nat /\ Start(points, i) <= c.arc /\ c.arc <= End(points, i)
         /\ minimum <= c.arc
         /\ c.at = OnLeg(points, i, c.arc)
         /\ c.distance_sq = DistanceSq(c.at, robot)
         /\ c.distance_sq \in Nat
         /\ \A arc \in Nat :
              /\ Start(points, i) <= arc /\ arc <= End(points, i)
              /\ minimum <= arc
              => \/ arc = c.arc
                 \/ c.distance_sq < DistanceSq(OnLeg(points, i, arc), robot)
<1> DEFINE p == points[i]
           q == points[i + 1]
           start == Start(points, i)
           length == LegLength(points, i)
           end == start + length
           along == AlongLeg(p, q, robot)
           free == start + Clamp(along, 0, length)
           arc0 == IF free >= minimum THEN free
                   ELSE IF minimum > end THEN end ELSE minimum
           at == Towards(p, q, arc0 - start)
           c == [leg |-> i, arc |-> arc0, at |-> at,
                 distance_sq |-> DistanceSq(at, robot)]
<1>1. /\ t.segments[i].from = p /\ t.segments[i].to = q
      /\ t.segments[i].length = length /\ t.segments[i].start = start
      /\ start \in Nat /\ length \in Nat /\ length > 0
      /\ End(points, i) = end
  BY SegmentFacts
<1>2. ProjectToLeg(t, i, robot, minimum) = c
  BY <1>1 DEF ProjectToLeg, Along, AlongLeg
<1>3. /\ p \in Int \X Int /\ q \in Int \X Int
      /\ p[1] = q[1] \/ p[2] = q[2]
      /\ Length(p, q) > 0
  BY <1>1, RouteFacts DEF LegLength
<1>4. along \in Int
  BY <1>3, LegDistance
<1>5. PICK w \in Int : \A n \in Int :
        DistanceSq(Towards(p, q, n), robot) =
          (n - along) * (n - along) + w * w
  BY <1>3, LegDistance
<1> HIDE DEF along, start, length, p, q
<1>6. /\ arc0 \in Nat /\ start <= arc0 /\ arc0 <= end /\ minimum <= arc0
      /\ free \in Nat
  BY <1>1, <1>4 DEF Clamp
<1>7. OnLeg(points, i, arc0) = at
  BY DEF OnLeg, start, p, q
<1>8. DistanceSq(at, robot) \in Nat
  <2>1. \A m \in Int : m * m \in Nat
    OBVIOUS
  <2>2. arc0 - start \in Int /\ (arc0 - start) - along \in Int
    BY <1>1, <1>4, <1>6
  <2>3. DistanceSq(at, robot) = ((arc0 - start) - along) * ((arc0 - start) - along) + w * w
    BY <1>5, <2>2
  <2> HIDE DEF at, arc0
  <2>4. ((arc0 - start) - along) * ((arc0 - start) - along) \in Nat /\ w * w \in Nat
    BY <2>1, <2>2
  <2> QED
    BY <2>3, <2>4
<1>9. ASSUME NEW arc \in Nat, start <= arc, arc <= end, minimum <= arc,
             arc # arc0
      PROVE  DistanceSq(at, robot) < DistanceSq(OnLeg(points, i, arc), robot)
  <2> DEFINE lower == IF minimum > start THEN minimum - start ELSE 0
             n == arc0 - start
             k == arc - start
  <2>1. /\ lower \in Int /\ n \in Int /\ k \in Int
        /\ lower <= n /\ n <= length /\ lower <= k /\ k <= length /\ k # n
    BY <1>1, <1>6, <1>9
  <2>2. \/ n = along
        \/ along < lower /\ n = lower
        \/ along > length /\ n = length
    BY <1>1, <1>4, <1>6, <1>9 DEF Clamp
  <2>3. OnLeg(points, i, arc) = Towards(p, q, k) /\ at = Towards(p, q, n)
    BY DEF OnLeg, start, p, q
  <2> HIDE DEF lower, n, k, at, arc0
  <2>4. (n - along) * (n - along) + w * w < (k - along) * (k - along) + w * w
    BY <1>1, <1>4, <2>1, <2>2, NearestInRange
  <2> QED
    BY <1>5, <2>1, <2>3, <2>4
<1> HIDE DEF arc0, at
<1>10. c.leg = i /\ c.arc = arc0 /\ c.at = at
       /\ c.distance_sq = DistanceSq(at, robot)
  OBVIOUS
<1> HIDE DEF c
<1> QED
  BY <1>1, <1>2, <1>6, <1>7, <1>8, <1>9, <1>10 DEF start

LEMMA DistanceIsInt ==
  ASSUME NEW p \in Int \X Int, NEW q \in Int \X Int
  PROVE  DistanceSq(p, q) \in Int
<1>1. PICK a, b, c, d \in Int : p = <<a, b>> /\ q = <<c, d>>
  OBVIOUS
<1>2. DistanceSq(p, q) = (c - a) * (c - a) + (d - b) * (d - b)
  BY <1>1 DEF DistanceSq
<1> QED
  BY <1>2

LEMMA OnLegIsCell ==
  ASSUME NEW points \in Routes, NEW i \in Legs(points), NEW arc \in Nat
  PROVE  OnLeg(points, i, arc) \in Int \X Int
<1>1. arc - Start(points, i) \in Int
  BY SegmentFacts
<1>2. /\ points[i] \in Int \X Int /\ points[i + 1] \in Int \X Int
      /\ points[i][1] = points[i + 1][1] \/ points[i][2] = points[i + 1][2]
  BY RouteFacts
<1> QED
  BY <1>1, <1>2, StepsOfLeg DEF OnLeg

(* There is a best candidate: no other is nearer, or as near and earlier.    *)
LEMMA BestIsNearest ==
  ASSUME NEW C, C # {},
         \A c \in C : c.distance_sq \in Nat /\ c.arc \in Nat /\ c.leg \in Nat,
         \A c, d \in C : c.leg = d.leg => c = d
  PROVE  /\ BestCandidate(C) \in C
         /\ \A c \in C :
              \/ BestCandidate(C).distance_sq < c.distance_sq
              \/ /\ BestCandidate(C).distance_sq = c.distance_sq
                 /\ BestCandidate(C).arc <= c.arc
<1> DEFINE Best(c) == \A other \in C \ {c} :
                        \/ BetterCandidate(c, other)
                        \/ ~BetterCandidate(other, c) /\ c.leg < other.leg
<1>1. PICK a \in C : \A c \in C : a.distance_sq <= c.distance_sq
  <2> DEFINE T == {c.distance_sq : c \in C}
  <2>1. T \subseteq Nat /\ T # {}
    OBVIOUS
  <2>2. PICK x \in T : \A y \in T : x <= y
    <3> HIDE DEF T
    <3> QED
      BY <2>1, LeastElement
  <2> QED
    BY <2>2
<1> DEFINE A == {c \in C : c.distance_sq = a.distance_sq}
<1>2. PICK b \in A : \A c \in A : b.arc <= c.arc
  <2> DEFINE T == {c.arc : c \in A}
  <2>1. T \subseteq Nat /\ T # {}
    OBVIOUS
  <2>2. PICK x \in T : \A y \in T : x <= y
    <3> HIDE DEF T
    <3> QED
      BY <2>1, LeastElement
  <2> QED
    BY <2>2
<1> DEFINE B == {c \in A : c.arc = b.arc}
<1>3. PICK d \in B : \A c \in B : d.leg <= c.leg
  <2> DEFINE T == {c.leg : c \in B}
  <2>1. T \subseteq Nat /\ T # {}
    OBVIOUS
  <2>2. PICK x \in T : \A y \in T : x <= y
    <3> HIDE DEF T
    <3> QED
      BY <2>1, LeastElement
  <2> QED
    BY <2>2
<1>4. d \in C /\ Best(d)
  <2>1. d \in C /\ d.distance_sq = a.distance_sq /\ d.arc = b.arc
    BY <1>3
  <2>2. ASSUME NEW c \in C \ {d}
        PROVE  \/ BetterCandidate(d, c)
               \/ ~BetterCandidate(c, d) /\ d.leg < c.leg
    <3>1. d.distance_sq <= c.distance_sq
      BY <1>1, <2>1
    <3>2. c.distance_sq = d.distance_sq => d.arc <= c.arc
      BY <1>2, <2>1
    <3>3. c.distance_sq = d.distance_sq /\ c.arc = d.arc => d.leg < c.leg
      <4>1. c.leg # d.leg
        BY <2>1
      <4> QED
        BY <1>3, <2>1, <4>1
    <3>4. /\ c.distance_sq \in Nat /\ d.distance_sq \in Nat
          /\ c.arc \in Nat /\ d.arc \in Nat
      BY <2>1
    <3> QED
      BY <3>1, <3>2, <3>3, <3>4 DEF BetterCandidate
  <2> QED
    BY <2>1, <2>2
<1> DEFINE best == BestCandidate(C)
<1>5. best \in C /\ Best(best)
  BY <1>4 DEF BestCandidate
<1> HIDE DEF best
<1>6. ASSUME NEW c \in C
      PROVE  \/ best.distance_sq < c.distance_sq
             \/ best.distance_sq = c.distance_sq /\ best.arc <= c.arc
  <2>1. /\ c.distance_sq \in Nat /\ best.distance_sq \in Nat
        /\ c.arc \in Nat /\ best.arc \in Nat
    BY <1>5
  <2>2. c # best => BetterCandidate(best, c) \/ ~BetterCandidate(c, best)
    BY <1>5
  <2> QED
    BY <2>1, <2>2 DEF BetterCandidate
<1> QED
  BY <1>5, <1>6 DEF best

(* A point of one of the legs that is the nearest of their points from the   *)
(* minimum on, and of several the earliest.                                  *)
NearestOn(legs, points, minimum, position, found) ==
  /\ found.leg \in legs
  /\ found.arc \in Nat /\ minimum <= found.arc
  /\ Start(points, found.leg) <= found.arc
  /\ found.arc <= End(points, found.leg)
  /\ found.at = OnLeg(points, found.leg, found.arc)
  /\ \A i \in legs, arc \in Nat :
       /\ Start(points, i) <= arc /\ arc <= End(points, i)
       /\ minimum <= arc
       => \/ DistanceSq(found.at, position)
               < DistanceSq(OnLeg(points, i, arc), position)
          \/ /\ DistanceSq(found.at, position)
                  = DistanceSq(OnLeg(points, i, arc), position)
             /\ found.arc <= arc

(* A search over legs that all reach the minimum finds it.                   *)
LEMMA SearchFinds ==
  ASSUME NEW points \in Routes, NEW t, t.segments = Segments(points),
         NEW robot \in Int \X Int, NEW minimum \in Nat,
         NEW searched \in SUBSET Legs(points), searched # {},
         \A i \in searched : minimum <= End(points, i)
  PROVE  NearestOn(searched, points, minimum, robot,
                   BestCandidate({ProjectToLeg(t, i, robot, minimum) :
                                    i \in searched}))
<1> DEFINE cand(i) == ProjectToLeg(t, i, robot, minimum)
           C == {cand(i) : i \in searched}
           best == BestCandidate(C)
<1>1. \A i \in searched :
        /\ cand(i).leg = i /\ i \in Nat
        /\ cand(i).arc \in Nat /\ Start(points, i) <= cand(i).arc
        /\ cand(i).arc <= End(points, i) /\ minimum <= cand(i).arc
        /\ cand(i).at = OnLeg(points, i, cand(i).arc)
        /\ cand(i).distance_sq = DistanceSq(cand(i).at, robot)
        /\ cand(i).distance_sq \in Nat
        /\ \A arc \in Nat :
             /\ Start(points, i) <= arc /\ arc <= End(points, i)
             /\ minimum <= arc
             => \/ arc = cand(i).arc
                \/ cand(i).distance_sq < DistanceSq(OnLeg(points, i, arc), robot)
  BY Projection, SegmentFacts
<1> HIDE DEF cand
<1>2. /\ best \in C
      /\ \A c \in C : \/ best.distance_sq < c.distance_sq
                      \/ best.distance_sq = c.distance_sq /\ best.arc <= c.arc
  <2>1. C # {}
    OBVIOUS
  <2>2. \A c \in C : c.distance_sq \in Nat /\ c.arc \in Nat /\ c.leg \in Nat
    BY <1>1
  <2>3. \A c, d \in C : c.leg = d.leg => c = d
    BY <1>1
  <2> HIDE DEF C
  <2> QED
    BY <2>1, <2>2, <2>3, BestIsNearest
<1>3. PICK j \in searched : best = cand(j)
  BY <1>2
<1> HIDE DEF best
<1>4. ASSUME NEW i \in searched, NEW arc \in Nat,
             Start(points, i) <= arc, arc <= End(points, i), minimum <= arc
      PROVE  \/ best.distance_sq < DistanceSq(OnLeg(points, i, arc), robot)
             \/ /\ best.distance_sq = DistanceSq(OnLeg(points, i, arc), robot)
                /\ best.arc <= arc
  <2>1. \/ best.distance_sq < cand(i).distance_sq
        \/ best.distance_sq = cand(i).distance_sq /\ best.arc <= cand(i).arc
    BY <1>2
  <2>2. best.distance_sq \in Nat /\ cand(i).distance_sq \in Nat
    BY <1>1, <1>3
  <2>3. CASE arc = cand(i).arc
    <3>1. DistanceSq(OnLeg(points, i, arc), robot) = cand(i).distance_sq
      BY <1>1, <2>3
    <3> QED
      BY <2>1, <2>3, <3>1
  <2>4. CASE arc # cand(i).arc
    <3> DEFINE d == DistanceSq(OnLeg(points, i, arc), robot)
    <3>1. cand(i).distance_sq < d
      BY <1>1, <1>4, <2>4
    <3>2. d \in Int
      BY OnLegIsCell, DistanceIsInt
    <3> QED
      BY <2>1, <2>2, <3>1, <3>2
  <2> QED
    BY <2>3, <2>4
<1>5. /\ best.leg = j /\ best.arc \in Nat /\ Start(points, j) <= best.arc
      /\ best.arc <= End(points, j) /\ minimum <= best.arc
      /\ best.at = OnLeg(points, j, best.arc)
      /\ best.distance_sq = DistanceSq(best.at, robot)
  BY <1>1, <1>3
<1>6. NearestOn(searched, points, minimum, robot, best)
  BY <1>3, <1>4, <1>5 DEF NearestOn
<1> QED
  BY <1>6 DEF best, cand

-----------------------------------------------------------------------------
(* The arc lengths of a route, and the legs they fall on.                    *)
LEMMA ArcOnLeg ==
  ASSUME NEW points \in Routes, Legs(points) # {},
         NEW arc \in 0 .. LengthOf(points, Legs(points))
  PROVE  \E i \in Legs(points) : Start(points, i) <= arc /\ arc <= End(points, i)
<1> DEFINE u == Travelled(points, Legs(points))
<1>1. /\ points \in Seq(Int \X Int) /\ Len(points) \in Nat
      /\ \A i \in Legs(points) : i \in AllLegs(points)
  BY RouteFacts
<1>2. u[0] = 0 /\ u \in [0 .. Len(points) -> Nat]
  BY <1>1, TravelledRecurs
<1>3. 0 \in 0 .. Len(points) /\ Len(points) \in 0 .. Len(points)
  BY <1>1
<1>4. LengthOf(points, Legs(points)) = u[Len(points)]
  BY DEF LengthOf
<1>5. u[Len(points)] >= 1
  <2>1. PICK i \in Legs(points) : TRUE
    OBVIOUS
  <2>2. /\ Start(points, i) \in Nat /\ LegLength(points, i) \in Nat
        /\ LegLength(points, i) > 0
        /\ End(points, i) = Start(points, i) + LegLength(points, i)
        /\ End(points, i) <= LengthOf(points, Legs(points))
        /\ LengthOf(points, Legs(points)) \in Nat
    BY SegmentFacts
  <2> QED
    BY <1>4, <2>2
<1> HIDE DEF u
<1>6. PICK reach \in Nat : /\ reach = IF arc = 0 THEN 1 ELSE arc
                           /\ u[0] < reach /\ reach <= u[Len(points)]
  BY <1>2, <1>4, <1>5
<1>7. PICK i \in Legs(points) : u[i - 1] < reach /\ reach <= u[i]
  BY <1>1, <1>3, <1>6, LengthIsOnLeg DEF u
<1>8. u[i - 1] \in Nat /\ u[i] \in Nat
  BY SegmentFacts DEF Start, End, u
<1>9. u[i - 1] <= arc /\ arc <= u[i]
  BY <1>6, <1>7, <1>8
<1> QED
  BY <1>9 DEF Start, End, u

(* Ahead of a place on one leg, up to the end of another.                    *)
LEMMA ArcAheadOnLeg ==
  ASSUME NEW points \in Routes, NEW leg \in Legs(points), NEW now \in Nat,
         Start(points, leg) <= now, now <= End(points, leg),
         NEW far \in Legs(points), NEW arc \in Nat,
         now <= arc, arc <= End(points, far)
  PROVE  \E i \in Legs(points) :
           /\ leg <= i
           /\ Start(points, i) <= arc /\ arc <= End(points, i)
           /\ Start(points, i) <= now \/ Start(points, i) <= Start(points, far)
<1> DEFINE u == Travelled(points, Legs(points))
<1>1. /\ points \in Seq(Int \X Int) /\ Len(points) \in Nat
      /\ \A i \in Legs(points) : i \in AllLegs(points) /\ i \in 1 .. Len(points)
  BY RouteFacts
<1>2. \A i \in Legs(points) : Start(points, i) \in Nat /\ End(points, i) \in Nat
                              /\ i \in Nat
  BY SegmentFacts
<1>3. CASE arc <= End(points, leg)
  BY <1>2, <1>3
<1>4. CASE End(points, leg) < arc
  <2>1. leg \in 0 .. Len(points) /\ far \in 0 .. Len(points)
    BY <1>1
  <2>2. PICK i \in Legs(points) : /\ leg < i /\ i <= far
                                  /\ u[i - 1] < arc /\ arc <= u[i]
    BY <1>1, <1>4, <2>1, LengthIsOnLeg DEF End
  <2>3. u[i - 1] <= u[far - 1]
    <3>1. /\ i - 1 \in 0 .. Len(points) /\ far - 1 \in 0 .. Len(points)
          /\ i - 1 <= far - 1
      <4>1. i \in 1 .. Len(points) /\ far \in 1 .. Len(points) /\ i <= far
        BY <1>1, <2>2
      <4> QED
        BY <1>1, <4>1
    <3> QED
      BY <1>1, <3>1, TravelledGrows
  <2>4. /\ leg <= i /\ Start(points, i) <= arc /\ arc <= End(points, i)
        /\ Start(points, i) <= Start(points, far)
    BY <1>2, <2>2, <2>3 DEF Start, End
  <2> QED
    BY <2>4
<1> QED
  BY <1>2, <1>3, <1>4

=============================================================================
