--------------------------- MODULE CubeViewsProofs ---------------------------
(***************************************************************************)
(* Theorems about CubeViews, for every line, every sequence of turns at    *)
(* either end and every position of the queue: the cubes are a group under *)
(* composition, the 27719th power is the inverse, and the six views of the *)
(* search stay the views of one cube.                                      *)
(***************************************************************************)
EXTENDS CubeViews, FiniteSetTheorems, SequenceTheorems, WellFoundedInduction, TLAPS

-----------------------------------------------------------------------------
(***************************************************************************)
(* Lanes.  The twelve edges, flipped in two ways, and the eight corners,   *)
(* twisted in three, are alike: a lane of N places holds each of N cubies  *)
(* once, in one of T orientations.                                         *)
(***************************************************************************)
Kind(N, T) == (N = 12 /\ T = 2) \/ (N = 8 /\ T = 3)

Apart(N, l) == \A i, j \in 0..(N - 1) : Cubie(At(l, i)) = Cubie(At(l, j)) => i = j

Lanes(N, T) ==
  {l \in [1..N -> Nat] :
     /\ \A i \in 0..(N - 1) : Cubie(At(l, i)) \in 0..(N - 1) /\ Twist(At(l, i)) \in 0..(T - 1)
     /\ Apart(N, l)}

LEMMA Small ==
  ASSUME NEW N, NEW T, Kind(N, T)
  PROVE  /\ N \in Nat /\ T \in Nat /\ 0..(N - 1) \subseteq 0..15 /\ 0..(T - 1) \subseteq Nat
         /\ \A k \in 1..N : k - 1 \in 0..(N - 1) /\ (k - 1) + 1 = k
         /\ \A i \in 0..(N - 1) : i + 1 \in 1..N /\ (i + 1) - 1 = i
BY DEF Kind

LEMMA Bytes ==
  ASSUME NEW x \in 0..15, NEW t \in Nat
  PROVE  Cubie(Byte(x, t)) = x /\ Twist(Byte(x, t)) = t /\ Byte(x, t) \in Nat
BY DEF Cubie, Twist, Byte

(* A byte in a lane.                                                       *)
LEMMA InLane ==
  ASSUME NEW N, NEW T, Kind(N, T), NEW l \in Lanes(N, T), NEW i \in 0..(N - 1)
  PROVE  /\ Cubie(At(l, i)) \in 0..(N - 1) /\ Twist(At(l, i)) \in 0..(T - 1)
         /\ At(l, i) = Byte(Cubie(At(l, i)), Twist(At(l, i)))
         /\ \A j \in 0..(N - 1) : Cubie(At(l, i)) = Cubie(At(l, j)) => i = j
<1>1. /\ Cubie(At(l, i)) \in 0..(N - 1) /\ Twist(At(l, i)) \in 0..(T - 1)
      /\ \A j \in 0..(N - 1) : Cubie(At(l, i)) = Cubie(At(l, j)) => i = j
  BY DEF Lanes, Apart
<1>2. At(l, i) \in Nat
  <2>1. l \in [1..N -> Nat] /\ i + 1 \in 1..N
    BY DEF Lanes, Kind
  <2> QED
    BY <2>1 DEF At
<1>3. At(l, i) = Byte(Cubie(At(l, i)), Twist(At(l, i)))
  BY <1>2 DEF Byte, Cubie, Twist
<1> QED
  BY <1>1, <1>3

(* Lanes with the same cubies and orientations are equal.                  *)
LEMMA LanesAlike ==
  ASSUME NEW N, NEW T, Kind(N, T), NEW a \in Lanes(N, T), NEW b \in Lanes(N, T),
         \A i \in 0..(N - 1) : Cubie(At(a, i)) = Cubie(At(b, i)) /\ Twist(At(a, i)) = Twist(At(b, i))
  PROVE  a = b
<1>1. ASSUME NEW k \in 1..N PROVE a[k] = b[k]
  <2>1. k - 1 \in 0..(N - 1) /\ (k - 1) + 1 = k
    BY DEF Kind
  <2>2. At(a, k - 1) = At(b, k - 1)
    BY <2>1, InLane
  <2> QED
    BY <2>1, <2>2 DEF At
<1>2. a = [k \in 1..N |-> a[k]] /\ b = [k \in 1..N |-> b[k]]
  <2>1. a \in [1..N -> Nat] /\ b \in [1..N -> Nat]
    BY DEF Lanes
  <2> QED
    BY <2>1
<1>3. [k \in 1..N |-> a[k]] = [k \in 1..N |-> b[k]]
  BY <1>1
<1> QED
  BY <1>2, <1>3, Zenon

(* Cubies that are all there, each in one of its orientations, make a lane.*)
Making(N, T, x, t, l) ==
  /\ x \in [0..(N - 1) -> 0..(N - 1)] /\ t \in [0..(N - 1) -> 0..(T - 1)]
  /\ \A i, j \in 0..(N - 1) : x[i] = x[j] => i = j
  /\ l = [k \in 1..N |-> Byte(x[k - 1], t[k - 1])]

LEMMA LaneMade ==
  ASSUME NEW N, NEW T, Kind(N, T), NEW x, NEW t, NEW l, Making(N, T, x, t, l)
  PROVE  /\ l \in Lanes(N, T)
         /\ \A i \in 0..(N - 1) : Cubie(At(l, i)) = x[i] /\ Twist(At(l, i)) = t[i]
<1> USE DEF Making
<1>1. ASSUME NEW i \in 0..(N - 1)
      PROVE  Cubie(At(l, i)) = x[i] /\ Twist(At(l, i)) = t[i]
  <2>1. x[i] \in 0..15 /\ t[i] \in Nat
    BY Small
  <2>2. i + 1 \in 1..N /\ (i + 1) - 1 = i
    BY DEF Kind
  <2>3. At(l, i) = Byte(x[i], t[i])
    BY <2>2 DEF At
  <2> QED
    BY <2>1, <2>3, Bytes
<1>2. l \in [1..N -> Nat]
  <2>1. ASSUME NEW k \in 1..N PROVE Byte(x[k - 1], t[k - 1]) \in Nat
    <3>1. k - 1 \in 0..(N - 1)
      BY DEF Kind
    <3>2. x[k - 1] \in 0..15 /\ t[k - 1] \in Nat
      BY <3>1, Small
    <3> QED
      BY <3>2, Bytes
  <2> QED
    BY <2>1
<1>3. \A i \in 0..(N - 1) : Cubie(At(l, i)) \in 0..(N - 1) /\ Twist(At(l, i)) \in 0..(T - 1)
  BY <1>1
<1>4. Apart(N, l)
  BY <1>1 DEF Apart
<1> QED
  BY <1>1, <1>2, <1>3, <1>4 DEF Lanes

-----------------------------------------------------------------------------
(***************************************************************************)
(* Composition of lanes is associative and has a unit.                     *)
(***************************************************************************)
There(b, i) == Cubie(At(b, i))
JoinedX(a, b, i) == Cubie(At(a, There(b, i)))
JoinedT(T, a, b, i) == (Twist(At(a, There(b, i))) + Twist(At(b, i))) % T
Joined(N, T, a, b) == [k \in 1..N |-> Byte(JoinedX(a, b, k - 1), JoinedT(T, a, b, k - 1))]

LEMMA JoinedParts ==
  ASSUME NEW N, NEW T, Kind(N, T), NEW a \in Lanes(N, T), NEW b \in Lanes(N, T)
  PROVE  /\ Joined(N, T, a, b) \in Lanes(N, T)
         /\ \A i \in 0..(N - 1) : /\ Cubie(At(Joined(N, T, a, b), i)) = JoinedX(a, b, i)
                                  /\ Twist(At(Joined(N, T, a, b), i)) = JoinedT(T, a, b, i)
<1> DEFINE x == [i \in 0..(N - 1) |-> JoinedX(a, b, i)]
           t == [i \in 0..(N - 1) |-> JoinedT(T, a, b, i)]
<1>1. ASSUME NEW i \in 0..(N - 1)
      PROVE  /\ There(b, i) \in 0..(N - 1)
             /\ JoinedX(a, b, i) \in 0..(N - 1) /\ JoinedT(T, a, b, i) \in 0..(T - 1)
  <2>1. There(b, i) \in 0..(N - 1) /\ Twist(At(b, i)) \in 0..(T - 1)
    BY InLane DEF There
  <2>2. JoinedX(a, b, i) \in 0..(N - 1) /\ Twist(At(a, There(b, i))) \in 0..(T - 1)
    BY <2>1, InLane DEF JoinedX
  <2> QED
    BY <2>1, <2>2 DEF JoinedT, Kind
<1>2. x \in [0..(N - 1) -> 0..(N - 1)] /\ t \in [0..(N - 1) -> 0..(T - 1)]
  BY <1>1
<1>3. ASSUME NEW i \in 0..(N - 1), NEW j \in 0..(N - 1), x[i] = x[j] PROVE i = j
  <2>1. JoinedX(a, b, i) = JoinedX(a, b, j)
    BY <1>3
  <2>2. There(b, i) = There(b, j)
    BY <1>1, <2>1, InLane DEF JoinedX
  <2> QED
    BY <2>2, InLane DEF There
<1>4. Joined(N, T, a, b) = [k \in 1..N |-> Byte(x[k - 1], t[k - 1])]
  <2>1. ASSUME NEW k \in 1..N
        PROVE  x[k - 1] = JoinedX(a, b, k - 1) /\ t[k - 1] = JoinedT(T, a, b, k - 1)
    <3>1. k - 1 \in 0..(N - 1)
      BY DEF Kind
    <3> QED
      BY <3>1
  <2> QED
    BY <2>1 DEF Joined
<1>5. \A i \in 0..(N - 1) : x[i] = JoinedX(a, b, i) /\ t[i] = JoinedT(T, a, b, i)
  OBVIOUS
<1> DEFINE l == Joined(N, T, a, b)
<1>6. l = [k \in 1..N |-> Byte(x[k - 1], t[k - 1])]
  BY <1>4
<1>7. \A i, j \in 0..(N - 1) : x[i] = x[j] => i = j
  BY <1>3
<1> HIDE DEF x, t, l
<1>8. /\ l \in Lanes(N, T)
      /\ \A i \in 0..(N - 1) : Cubie(At(l, i)) = x[i] /\ Twist(At(l, i)) = t[i]
  <2>1. Making(N, T, x, t, l)
    BY <1>2, <1>6, <1>7 DEF Making
  <2> QED
    BY <2>1, LaneMade
<1>9. \A i \in 0..(N - 1) : Cubie(At(l, i)) = JoinedX(a, b, i) /\ Twist(At(l, i)) = JoinedT(T, a, b, i)
  BY <1>5, <1>8
<1> QED
  BY <1>8, <1>9 DEF l

(* Sums of orientations, in either order of the reductions.                *)
LEMMA Sums ==
  ASSUME NEW N, NEW T, Kind(N, T), NEW x \in 0..(T - 1), NEW y \in 0..(T - 1), NEW z \in 0..(T - 1)
  PROVE  (((x + y) % T) + z) % T = (x + ((y + z) % T)) % T
<1>1. CASE T = 2
  BY <1>1
<1>2. CASE T = 3
  BY <1>2
<1> QED
  BY <1>1, <1>2 DEF Kind

LEMMA JoinedAssociates ==
  ASSUME NEW N, NEW T, Kind(N, T),
         NEW a \in Lanes(N, T), NEW b \in Lanes(N, T), NEW c \in Lanes(N, T)
  PROVE  Joined(N, T, Joined(N, T, a, b), c) = Joined(N, T, a, Joined(N, T, b, c))
<1> DEFINE ab == Joined(N, T, a, b)
           bc == Joined(N, T, b, c)
           l  == Joined(N, T, ab, c)
           r  == Joined(N, T, a, bc)
<1>1. ab \in Lanes(N, T) /\ bc \in Lanes(N, T)
  BY JoinedParts
<1>2. \A i \in 0..(N - 1) :
        /\ Cubie(At(ab, i)) = JoinedX(a, b, i) /\ Twist(At(ab, i)) = JoinedT(T, a, b, i)
        /\ Cubie(At(bc, i)) = JoinedX(b, c, i) /\ Twist(At(bc, i)) = JoinedT(T, b, c, i)
  BY JoinedParts
<1> HIDE DEF ab, bc
<1>3. l \in Lanes(N, T) /\ r \in Lanes(N, T)
  BY <1>1, JoinedParts
<1>4. \A i \in 0..(N - 1) :
        /\ Cubie(At(l, i)) = JoinedX(ab, c, i) /\ Twist(At(l, i)) = JoinedT(T, ab, c, i)
        /\ Cubie(At(r, i)) = JoinedX(a, bc, i) /\ Twist(At(r, i)) = JoinedT(T, a, bc, i)
  BY <1>1, JoinedParts
<1> HIDE DEF l, r
<1>5. ASSUME NEW i \in 0..(N - 1)
      PROVE  Cubie(At(l, i)) = Cubie(At(r, i)) /\ Twist(At(l, i)) = Twist(At(r, i))
  <2> DEFINE j == There(c, i)
             k == There(b, j)
  <2>1. j \in 0..(N - 1) /\ Twist(At(c, i)) \in 0..(T - 1)
    BY InLane DEF There
  <2> HIDE DEF j
  <2>2. k \in 0..(N - 1) /\ Twist(At(b, j)) \in 0..(T - 1)
    BY <2>1, InLane DEF There
  <2> HIDE DEF k
  <2>3. Twist(At(a, k)) \in 0..(T - 1)
    BY <2>2, InLane
  <2>4. There(bc, i) = k
    BY <1>2 DEF There, JoinedX, j, k
  <2>5. Cubie(At(l, i)) = Cubie(At(a, k))
    BY <1>2, <1>4, <2>1 DEF JoinedX, j, k
  <2>6. Cubie(At(r, i)) = Cubie(At(a, k))
    BY <1>4, <2>4 DEF JoinedX
  <2>7. Twist(At(l, i)) = (((Twist(At(a, k)) + Twist(At(b, j))) % T) + Twist(At(c, i))) % T
    BY <1>2, <1>4, <2>1 DEF JoinedT, j, k
  <2>8. Twist(At(r, i)) = (Twist(At(a, k)) + ((Twist(At(b, j)) + Twist(At(c, i))) % T)) % T
    BY <1>2, <1>4, <2>4 DEF JoinedT, j
  <2> QED
    BY <2>1, <2>2, <2>3, <2>5, <2>6, <2>7, <2>8, Sums
<1> QED
  BY <1>3, <1>5, LanesAlike DEF l, r, ab, bc

One(N) == [k \in 1..N |-> k - 1]

LEMMA OneParts ==
  ASSUME NEW N, NEW T, Kind(N, T)
  PROVE  /\ One(N) \in Lanes(N, T)
         /\ \A i \in 0..(N - 1) : /\ At(One(N), i) = i
                                  /\ Cubie(At(One(N), i)) = i /\ Twist(At(One(N), i)) = 0
<1>1. ASSUME NEW i \in 0..(N - 1) PROVE At(One(N), i) = i /\ Cubie(i) = i /\ Twist(i) = 0
  <2>1. i + 1 \in 1..N /\ (i + 1) - 1 = i
    BY DEF Kind
  <2>2. i \in 0..15
    BY DEF Kind
  <2> QED
    BY <2>1, <2>2 DEF One, At, Cubie, Twist
<1>2. One(N) \in [1..N -> Nat]
  BY DEF One, Kind
<1>3. \A i \in 0..(N - 1) : Cubie(At(One(N), i)) \in 0..(N - 1) /\ Twist(At(One(N), i)) \in 0..(T - 1)
  BY <1>1 DEF Kind
<1>4. Apart(N, One(N))
  BY <1>1 DEF Apart
<1> QED
  BY <1>1, <1>2, <1>3, <1>4 DEF Lanes

LEMMA OneJoined ==
  ASSUME NEW N, NEW T, Kind(N, T), NEW a \in Lanes(N, T)
  PROVE  Joined(N, T, One(N), a) = a /\ Joined(N, T, a, One(N)) = a
<1> DEFINE l == Joined(N, T, One(N), a)
           r == Joined(N, T, a, One(N))
<1>1. /\ l \in Lanes(N, T) /\ r \in Lanes(N, T)
      /\ \A i \in 0..(N - 1) :
           /\ Cubie(At(l, i)) = JoinedX(One(N), a, i) /\ Twist(At(l, i)) = JoinedT(T, One(N), a, i)
           /\ Cubie(At(r, i)) = JoinedX(a, One(N), i) /\ Twist(At(r, i)) = JoinedT(T, a, One(N), i)
  BY OneParts, JoinedParts
<1> HIDE DEF l, r
<1>2. ASSUME NEW i \in 0..(N - 1)
      PROVE  /\ Cubie(At(l, i)) = Cubie(At(a, i)) /\ Twist(At(l, i)) = Twist(At(a, i))
             /\ Cubie(At(r, i)) = Cubie(At(a, i)) /\ Twist(At(r, i)) = Twist(At(a, i))
  <2>1. There(a, i) \in 0..(N - 1) /\ Twist(At(a, i)) \in 0..(T - 1)
    BY InLane DEF There
  <2>2. There(One(N), i) = i /\ Twist(At(One(N), i)) = 0
    BY OneParts DEF There
  <2>3. Cubie(At(One(N), There(a, i))) = There(a, i) /\ Twist(At(One(N), There(a, i))) = 0
    BY <2>1, OneParts
  <2>4. JoinedX(One(N), a, i) = Cubie(At(a, i)) /\ JoinedX(a, One(N), i) = Cubie(At(a, i))
    BY <2>2, <2>3 DEF JoinedX, There
  <2>5. JoinedT(T, One(N), a, i) = Twist(At(a, i)) /\ JoinedT(T, a, One(N), i) = Twist(At(a, i))
    BY <2>1, <2>2, <2>3 DEF JoinedT, Kind
  <2> QED
    BY <1>1, <2>4, <2>5
<1> QED
  BY <1>1, <1>2, LanesAlike DEF l, r

-----------------------------------------------------------------------------
(***************************************************************************)
(* Cubes, and their composition.                                           *)
(***************************************************************************)
Cubes == [ev : Lanes(12, 2), cv : Lanes(8, 3)]

LEMMA CubeFields ==
  ASSUME NEW c \in Cubes
  PROVE  c.ev \in Lanes(12, 2) /\ c.cv \in Lanes(8, 3) /\ c = [ev |-> c.ev, cv |-> c.cv]
BY DEF Cubes

LEMMA Kinds == Kind(12, 2) /\ Kind(8, 3)
BY DEF Kind

LEMMA ComposeIs ==
  ASSUME NEW a \in Cubes, NEW b \in Cubes
  PROVE  a ** b = [ev |-> Joined(12, 2, a.ev, b.ev), cv |-> Joined(8, 3, a.cv, b.cv)]
<1>1. EdgeCompose(a.ev, b.ev) = Joined(12, 2, a.ev, b.ev)
  BY DEF EdgeCompose, EdgeLane, Joined, JoinedX, JoinedT, There
<1>2. CornerCompose(a.cv, b.cv, FALSE) = Joined(8, 3, a.cv, b.cv)
  <2>1. ASSUME NEW i \in 0..7 PROVE 1 * Twist(At(b.cv, i)) = Twist(At(b.cv, i))
    <3>1. i \in 0..(8 - 1)
      OBVIOUS
    <3>2. Twist(At(b.cv, i)) \in 0..(3 - 1)
      BY <3>1, CubeFields, Kinds, InLane
    <3> QED
      BY <3>2
  <2>2. \A i \in 0..7 :
          Byte(Cubie(At(a.cv, Cubie(At(b.cv, i)))),
               (Twist(At(a.cv, Cubie(At(b.cv, i)))) + (IF FALSE THEN 2 ELSE 1) * Twist(At(b.cv, i))) % 3)
            = Byte(JoinedX(a.cv, b.cv, i), JoinedT(3, a.cv, b.cv, i))
    BY <2>1 DEF JoinedX, JoinedT, There
  <2>3. /\ 0 \in 0..7 /\ 1 \in 0..7 /\ 2 \in 0..7 /\ 3 \in 0..7
        /\ 4 \in 0..7 /\ 5 \in 0..7 /\ 6 \in 0..7 /\ 7 \in 0..7
    OBVIOUS
  <2> DEFINE f == [i \in 0..7 |-> Byte(JoinedX(a.cv, b.cv, i), JoinedT(3, a.cv, b.cv, i))]
  <2>4. CornerCompose(a.cv, b.cv, FALSE) = <<f[0], f[1], f[2], f[3], f[4], f[5], f[6], f[7]>>
    BY <2>2, <2>3 DEF CornerCompose, CornerLane
  <2>5. \A k \in 1..8 : f[k - 1] = Byte(JoinedX(a.cv, b.cv, k - 1), JoinedT(3, a.cv, b.cv, k - 1))
    OBVIOUS
  <2>6. Joined(8, 3, a.cv, b.cv) = [k \in 1..8 |-> f[k - 1]]
    BY <2>5 DEF Joined
  <2> HIDE DEF f
  <2>7. <<f[0], f[1], f[2], f[3], f[4], f[5], f[6], f[7]>> = [k \in 1..8 |-> f[k - 1]]
    OBVIOUS
  <2> QED
    BY <2>4, <2>6, <2>7, Zenon
<1> QED
  BY <1>1, <1>2 DEF **, Compose

LEMMA Composed ==
  ASSUME NEW a \in Cubes, NEW b \in Cubes
  PROVE  a ** b \in Cubes
<1>1. /\ a.ev \in Lanes(12, 2) /\ a.cv \in Lanes(8, 3)
      /\ b.ev \in Lanes(12, 2) /\ b.cv \in Lanes(8, 3)
  BY CubeFields
<1>2. Joined(12, 2, a.ev, b.ev) \in Lanes(12, 2) /\ Joined(8, 3, a.cv, b.cv) \in Lanes(8, 3)
  BY <1>1, Kinds, JoinedParts
<1> QED
  BY <1>2, ComposeIs DEF Cubes

LEMMA Associates ==
  ASSUME NEW a \in Cubes, NEW b \in Cubes, NEW c \in Cubes
  PROVE  (a ** b) ** c = a ** (b ** c)
<1>1. /\ a.ev \in Lanes(12, 2) /\ b.ev \in Lanes(12, 2) /\ c.ev \in Lanes(12, 2)
      /\ a.cv \in Lanes(8, 3) /\ b.cv \in Lanes(8, 3) /\ c.cv \in Lanes(8, 3)
  BY CubeFields
<1>2. a ** b \in Cubes /\ b ** c \in Cubes
  BY Composed
<1>3. /\ (a ** b).ev = Joined(12, 2, a.ev, b.ev) /\ (a ** b).cv = Joined(8, 3, a.cv, b.cv)
      /\ (b ** c).ev = Joined(12, 2, b.ev, c.ev) /\ (b ** c).cv = Joined(8, 3, b.cv, c.cv)
  BY ComposeIs
<1>4. /\ (a ** b) ** c = [ev |-> Joined(12, 2, Joined(12, 2, a.ev, b.ev), c.ev),
                          cv |-> Joined(8, 3, Joined(8, 3, a.cv, b.cv), c.cv)]
      /\ a ** (b ** c) = [ev |-> Joined(12, 2, a.ev, Joined(12, 2, b.ev, c.ev)),
                          cv |-> Joined(8, 3, a.cv, Joined(8, 3, b.cv, c.cv))]
  BY <1>2, <1>3, ComposeIs
<1>5. /\ Joined(12, 2, Joined(12, 2, a.ev, b.ev), c.ev) = Joined(12, 2, a.ev, Joined(12, 2, b.ev, c.ev))
      /\ Joined(8, 3, Joined(8, 3, a.cv, b.cv), c.cv) = Joined(8, 3, a.cv, Joined(8, 3, b.cv, c.cv))
  BY <1>1, Kinds, JoinedAssociates
<1> QED
  BY <1>4, <1>5

LEMMA IdentityIs == Identity = [ev |-> One(12), cv |-> One(8)] /\ Identity \in Cubes
<1>1. EdgeLane(LAMBDA i : i) = One(12) /\ CornerLane(LAMBDA i : i) = One(8)
  BY DEF EdgeLane, CornerLane, One
<1>2. One(12) \in Lanes(12, 2) /\ One(8) \in Lanes(8, 3)
  BY Kinds, OneParts
<1> QED
  BY <1>1, <1>2 DEF Identity, Cubes

LEMMA Unit ==
  ASSUME NEW c \in Cubes
  PROVE  Identity ** c = c /\ c ** Identity = c
<1>1. /\ Identity ** c = [ev |-> Joined(12, 2, One(12), c.ev), cv |-> Joined(8, 3, One(8), c.cv)]
      /\ c ** Identity = [ev |-> Joined(12, 2, c.ev, One(12)), cv |-> Joined(8, 3, c.cv, One(8))]
  BY IdentityIs, ComposeIs
<1>2. /\ Joined(12, 2, One(12), c.ev) = c.ev /\ Joined(12, 2, c.ev, One(12)) = c.ev
      /\ Joined(8, 3, One(8), c.cv) = c.cv /\ Joined(8, 3, c.cv, One(8)) = c.cv
  BY CubeFields, Kinds, OneJoined
<1> QED
  BY <1>1, <1>2, CubeFields

-----------------------------------------------------------------------------
(***************************************************************************)
(* Induction and recursion, up to a bound.                                 *)
(***************************************************************************)
(* A set of natural numbers that is not empty has a least element.         *)
LEMMA LeastNatural ==
  ASSUME NEW S \in SUBSET Nat, S # {}
  PROVE  \E n \in S : \A m \in S : n <= m
<1>1. PICK n \in S : \A m \in S : ~(<<m, n>> \in OpToRel(<, Nat))
  BY NatLessThanWellFounded, WFMin
<1>2. \A m \in S : ~(m < n)
  BY <1>1, Zenon DEF OpToRel
<1>3. QED
  BY <1>2

(* Induction up to a bound, over a set instead of a predicate.             *)
LEMMA InductionUpTo ==
  ASSUME NEW N \in Nat, NEW T, 0 \in T,
         \A n \in 0..N : n # N /\ n \in T => n + 1 \in T
  PROVE  \A n \in 0..N : n \in T
<1> DEFINE missing == {n \in 0..N : n \notin T}
<1> SUFFICES ASSUME missing # {} PROVE FALSE
  OBVIOUS
<1>1. PICK k \in missing : \A m \in missing : k <= m
  <2>1. missing \in SUBSET Nat
    OBVIOUS
  <2> HIDE DEF missing
  <2> QED
    BY <2>1, LeastNatural
<1>2. k \in 0..N /\ k \notin T /\ k # 0
  OBVIOUS
<1>3. k - 1 \in 0..N /\ k - 1 # N /\ (k - 1) + 1 = k
  BY <1>2
<1>4. k - 1 \in T
  BY <1>1, <1>3
<1> QED
  BY <1>2, <1>3, <1>4

(* Every step of an iteration has a value: a function defined by recursion *)
(* over an interval exists.                                                *)
Steps(S, N, step) == step \in [1..N -> [S -> S]]
Iteration(f, S, base, N, step) ==
  f \in [0..N -> S] /\ f[0] = base /\ \A i \in 1..N : f[i] = step[i][f[i - 1]]

LEMMA IterationExists ==
  ASSUME NEW S, NEW base \in S, NEW N \in Nat, NEW step, Steps(S, N, step)
  PROVE  \E f : Iteration(f, S, base, N, step)
<1>0. step \in [1..N -> [S -> S]]
  BY DEF Steps
<1> DEFINE Iterates(f, n) == f[0] = base /\ \A i \in 1..n : f[i] = step[i][f[i - 1]]
           T == {n \in 0..N : \E f \in [0..n -> S] : Iterates(f, n)}
<1>1. 0 \in T
  <2> DEFINE f == [i \in 0..0 |-> base]
  <2>1. f \in [0..0 -> S] /\ Iterates(f, 0) /\ 0 \in 0..N
    OBVIOUS
  <2> HIDE DEF f, Iterates
  <2> QED
    BY <2>1
<1>2. ASSUME NEW n \in 0..N, n # N, n \in T PROVE n + 1 \in T
  <2>1. PICK f \in [0..n -> S] : Iterates(f, n)
    BY <1>2
  <2> DEFINE g == [i \in 0..(n + 1) |-> IF i = n + 1 THEN step[n + 1][f[n]] ELSE f[i]]
  <2>2. step[n + 1] \in [S -> S] /\ f[n] \in S
    BY <1>0, <1>2
  <2>3. g \in [0..(n + 1) -> S]
    BY <2>2
  <2>4. Iterates(g, n + 1)
    <3>1. g[0] = base
      BY <2>1
    <3>2. ASSUME NEW i \in 1..(n + 1) PROVE g[i] = step[i][g[i - 1]]
      <4>1. CASE i = n + 1
        BY <4>1
      <4>2. CASE i # n + 1
        BY <4>2, <2>1
      <4> QED
        BY <4>1, <4>2
    <3> QED
      BY <3>1, <3>2
  <2>5. n + 1 \in 0..N
    BY <1>2
  <2> HIDE DEF g, Iterates
  <2> QED
    BY <2>3, <2>4, <2>5
<1>3. \A n \in 0..N : n \in T
  <2> HIDE DEF T
  <2> QED
    BY <1>1, <1>2, InductionUpTo
<1>4. N \in T
  BY <1>3
<1> QED
  BY <1>4 DEF Iteration

-----------------------------------------------------------------------------
(***************************************************************************)
(* Permutations and their powers.                                          *)
(***************************************************************************)
Perms(N) ==
  {p \in [1..N -> 0..(N - 1)] : \A i, j \in 0..(N - 1) : At(p, i) = At(p, j) => i = j}

Chain(N, p, q) == [k \in 1..N |-> At(p, At(q, k - 1))]

LEMMA InPerm ==
  ASSUME NEW N \in Nat, NEW p \in Perms(N), NEW i \in 0..(N - 1)
  PROVE  At(p, i) \in 0..(N - 1) /\ \A j \in 0..(N - 1) : At(p, i) = At(p, j) => i = j
<1>1. p \in [1..N -> 0..(N - 1)] /\ i + 1 \in 1..N
  BY DEF Perms
<1>2. At(p, i) \in 0..(N - 1)
  BY <1>1 DEF At
<1>3. \A j \in 0..(N - 1) : At(p, i) = At(p, j) => i = j
  BY DEF Perms
<1> QED
  BY <1>2, <1>3

LEMMA PermsAlike ==
  ASSUME NEW N \in Nat, NEW p \in Perms(N), NEW q \in Perms(N),
         \A i \in 0..(N - 1) : At(p, i) = At(q, i)
  PROVE  p = q
<1>1. ASSUME NEW k \in 1..N PROVE p[k] = q[k]
  <2>1. k - 1 \in 0..(N - 1) /\ (k - 1) + 1 = k
    OBVIOUS
  <2> QED
    BY <2>1 DEF At
<1>2. p = [k \in 1..N |-> p[k]] /\ q = [k \in 1..N |-> q[k]]
  <2>1. p \in [1..N -> 0..(N - 1)] /\ q \in [1..N -> 0..(N - 1)]
    BY DEF Perms
  <2> QED
    BY <2>1
<1>3. [k \in 1..N |-> p[k]] = [k \in 1..N |-> q[k]]
  BY <1>1
<1> QED
  BY <1>2, <1>3, Zenon

LEMMA ChainParts ==
  ASSUME NEW N \in Nat, NEW p \in Perms(N), NEW q \in Perms(N)
  PROVE  /\ Chain(N, p, q) \in Perms(N)
         /\ \A i \in 0..(N - 1) : At(Chain(N, p, q), i) = At(p, At(q, i))
<1>1. ASSUME NEW i \in 0..(N - 1)
      PROVE  At(Chain(N, p, q), i) = At(p, At(q, i)) /\ At(p, At(q, i)) \in 0..(N - 1)
  <2>1. i + 1 \in 1..N /\ (i + 1) - 1 = i
    OBVIOUS
  <2>2. At(p, At(q, i)) \in 0..(N - 1)
    BY InPerm
  <2>3. At(Chain(N, p, q), i) = Chain(N, p, q)[i + 1]
    BY DEF At
  <2> QED
    BY <2>1, <2>2, <2>3 DEF Chain
<1>2. Chain(N, p, q) \in [1..N -> 0..(N - 1)]
  <2>1. ASSUME NEW k \in 1..N PROVE At(p, At(q, k - 1)) \in 0..(N - 1)
    <3>1. k - 1 \in 0..(N - 1)
      OBVIOUS
    <3> QED
      BY <3>1, <1>1
  <2> QED
    BY <2>1 DEF Chain
<1>3. ASSUME NEW i \in 0..(N - 1), NEW j \in 0..(N - 1), At(Chain(N, p, q), i) = At(Chain(N, p, q), j)
      PROVE  i = j
  <2>1. At(p, At(q, i)) = At(p, At(q, j))
    BY <1>1, <1>3
  <2>2. At(q, i) \in 0..(N - 1) /\ At(q, j) \in 0..(N - 1)
    BY InPerm
  <2>3. At(q, i) = At(q, j)
    BY <2>1, <2>2, InPerm
  <2> QED
    BY <2>3, InPerm
<1> QED
  BY <1>1, <1>2, <1>3 DEF Perms

LEMMA ChainAssociates ==
  ASSUME NEW N \in Nat, NEW p \in Perms(N), NEW q \in Perms(N), NEW r \in Perms(N)
  PROVE  Chain(N, Chain(N, p, q), r) = Chain(N, p, Chain(N, q, r))
<1> DEFINE pq == Chain(N, p, q)
           qr == Chain(N, q, r)
           a  == Chain(N, pq, r)
           b  == Chain(N, p, qr)
<1>1. /\ pq \in Perms(N) /\ qr \in Perms(N)
      /\ \A i \in 0..(N - 1) : At(pq, i) = At(p, At(q, i)) /\ At(qr, i) = At(q, At(r, i))
  BY ChainParts
<1> HIDE DEF pq, qr
<1>2. /\ a \in Perms(N) /\ b \in Perms(N)
      /\ \A i \in 0..(N - 1) : At(a, i) = At(pq, At(r, i)) /\ At(b, i) = At(p, At(qr, i))
  BY <1>1, ChainParts
<1> HIDE DEF a, b
<1>3. ASSUME NEW i \in 0..(N - 1) PROVE At(a, i) = At(b, i)
  <2>1. At(r, i) \in 0..(N - 1)
    BY InPerm
  <2> QED
    BY <1>1, <1>2, <2>1
<1> QED
  BY <1>2, <1>3, PermsAlike DEF a, b, pq, qr

LEMMA OnePerm ==
  ASSUME NEW N \in Nat
  PROVE  One(N) \in Perms(N) /\ \A i \in 0..(N - 1) : At(One(N), i) = i
<1>1. ASSUME NEW i \in 0..(N - 1) PROVE At(One(N), i) = i
  <2>1. i + 1 \in 1..N /\ (i + 1) - 1 = i
    OBVIOUS
  <2> QED
    BY <2>1 DEF One, At
<1>2. One(N) \in [1..N -> 0..(N - 1)]
  BY DEF One
<1> QED
  BY <1>1, <1>2 DEF Perms

LEMMA OneChain ==
  ASSUME NEW N \in Nat, NEW p \in Perms(N)
  PROVE  Chain(N, One(N), p) = p /\ Chain(N, p, One(N)) = p
<1> DEFINE l == Chain(N, One(N), p)
           r == Chain(N, p, One(N))
<1>1. /\ l \in Perms(N) /\ r \in Perms(N)
      /\ \A i \in 0..(N - 1) : At(l, i) = At(One(N), At(p, i)) /\ At(r, i) = At(p, At(One(N), i))
  BY OnePerm, ChainParts
<1> HIDE DEF l, r
<1>2. \A i \in 0..(N - 1) : At(l, i) = At(p, i) /\ At(r, i) = At(p, i)
  BY <1>1, OnePerm, InPerm
<1>3. l = p /\ r = p
  BY <1>1, <1>2, PermsAlike
<1> QED
  BY <1>3 DEF l, r

(* f holds the powers of p, up to a common multiple of 1, ..., 12.         *)
Order == 27720

PowersOf(N, p, f) ==
  f \in [0..Order -> Perms(N)] /\ f[0] = One(N) /\ \A i \in 1..Order : f[i] = Chain(N, p, f[i - 1])

LEMMA PowersExist ==
  ASSUME NEW N \in Nat, NEW p \in Perms(N)
  PROVE  \E f : PowersOf(N, p, f)
<1> DEFINE S == Perms(N)
           step == [i \in 1..Order |-> [g \in S |-> Chain(N, p, g)]]
<1>1. Order \in Nat
  BY DEF Order
<1>2. One(N) \in S /\ \A g \in S : Chain(N, p, g) \in S
  BY OnePerm, ChainParts
<1>3. \A i \in 1..Order, g \in S : step[i][g] = Chain(N, p, g)
  OBVIOUS
<1>4. Steps(S, Order, step)
  BY <1>2 DEF Steps
<1> HIDE DEF S, step
<1>5. PICK f : Iteration(f, S, One(N), Order, step)
  BY <1>1, <1>2, <1>4, IterationExists
<1>6. f \in [0..Order -> S] /\ f[0] = One(N) /\ \A i \in 1..Order : f[i] = step[i][f[i - 1]]
  BY <1>5 DEF Iteration
<1>7. ASSUME NEW i \in 1..Order PROVE f[i] = Chain(N, p, f[i - 1])
  <2>1. i - 1 \in 0..Order
    BY <1>1
  <2>2. f[i - 1] \in S
    BY <1>6, <2>1
  <2> QED
    BY <1>3, <1>6, <2>2
<1> QED
  BY <1>6, <1>7 DEF PowersOf, S

LEMMA PowerType ==
  ASSUME NEW N \in Nat, NEW p, NEW f, PowersOf(N, p, f), NEW n \in 0..Order
  PROVE  f[n] \in Perms(N)
BY DEF PowersOf

LEMMA PowersAdd ==
  ASSUME NEW N \in Nat, NEW p \in Perms(N), NEW f, PowersOf(N, p, f),
         NEW a \in Nat, NEW b \in Nat, a + b <= Order
  PROVE  f[a + b] = Chain(N, f[a], f[b])
<1>0. Order \in Nat
  BY DEF Order
<1> DEFINE T == {n \in 0..a : f[n + b] = Chain(N, f[n], f[b])}
<1>1. f[b] \in Perms(N)
  BY <1>0, PowerType
<1>2. 0 \in T
  <2>1. f[0] = One(N)
    BY DEF PowersOf
  <2>2. Chain(N, f[0], f[b]) = f[b]
    BY <1>1, <2>1, OneChain
  <2>3. 0 \in 0..a /\ 0 + b = b
    OBVIOUS
  <2> QED
    BY <2>2, <2>3
<1>3. ASSUME NEW n \in 0..a, n # a, n \in T PROVE n + 1 \in T
  <2>1. /\ n + 1 \in 1..Order /\ (n + 1) - 1 = n /\ n \in 0..Order /\ n + 1 \in 0..a
        /\ (n + 1) + b \in 1..Order /\ ((n + 1) + b) - 1 = n + b /\ n + b \in 0..Order
    BY <1>0, <1>3
  <2>2. f[n + b] = Chain(N, f[n], f[b])
    BY <1>3
  <2>3. f[n + 1] = Chain(N, p, f[n]) /\ f[(n + 1) + b] = Chain(N, p, f[n + b])
    <3>1. \A i \in 1..Order : f[i] = Chain(N, p, f[i - 1])
      BY DEF PowersOf
    <3> QED
      BY <2>1, <3>1
  <2>4. f[n] \in Perms(N)
    BY <2>1, PowerType
  <2>5. Chain(N, Chain(N, p, f[n]), f[b]) = Chain(N, p, Chain(N, f[n], f[b]))
    BY <1>1, <2>4, ChainAssociates
  <2>6. f[(n + 1) + b] = Chain(N, f[n + 1], f[b])
    BY <2>2, <2>3, <2>5
  <2> QED
    BY <2>1, <2>6
<1>4. \A n \in 0..a : n \in T
  <2> HIDE DEF T
  <2> QED
    BY <1>2, <1>3, InductionUpTo
<1>5. a \in T
  BY <1>4
<1> QED
  BY <1>5

(* The walk from a place through p comes back to it within N steps.        *)
LEMMA PowerPeriod ==
  ASSUME NEW N \in 1..12, NEW p \in Perms(N), NEW f, PowersOf(N, p, f), NEW x \in 0..(N - 1)
  PROVE  \E k \in 1..N : At(f[k], x) = x
<1>0. N \in Nat /\ Order \in Nat /\ N <= Order
  BY DEF Order
<1> DEFINE walk == [n \in 0..N |-> At(f[n], x)]
<1>1. walk \in [0..N -> 0..(N - 1)]
  <2>1. ASSUME NEW n \in 0..N PROVE At(f[n], x) \in 0..(N - 1)
    <3>1. f[n] \in Perms(N)
      BY <1>0, PowerType
    <3> QED
      BY <1>0, <3>1, InPerm
  <2> QED
    BY <2>1
<1>2. \A n \in 0..N : walk[n] = At(f[n], x)
  OBVIOUS
<1> HIDE DEF walk
<1>3. /\ IsFiniteSet(0..N) /\ IsFiniteSet(0..(N - 1))
      /\ Cardinality(0..N) = N + 1 /\ Cardinality(0..(N - 1)) = N
  <2>1. 0 \in Int /\ N \in Int /\ N - 1 \in Int
    OBVIOUS
  <2>2. /\ IsFiniteSet(0..N) /\ Cardinality(0..N) = IF 0 > N THEN 0 ELSE N - 0 + 1
        /\ IsFiniteSet(0..(N - 1))
        /\ Cardinality(0..(N - 1)) = IF 0 > N - 1 THEN 0 ELSE (N - 1) - 0 + 1
    BY <2>1, FS_Interval
  <2> QED
    BY <2>2
<1>4. PICK u, v \in 0..N : u # v /\ walk[u] = walk[v]
  <2>1. Cardinality(0..(N - 1)) < Cardinality(0..N)
    BY <1>3
  <2> QED
    BY <1>1, <1>3, <2>1, FS_PigeonHole
<1>5. ASSUME NEW a \in 0..N, NEW b \in 0..N, a < b, walk[a] = walk[b]
      PROVE  \E k \in 1..N : At(f[k], x) = x
  <2> DEFINE k == b - a
  <2>1. k \in 1..N /\ k \in Nat /\ k \in 0..Order /\ a \in Nat /\ a \in 0..Order /\ a + k = b /\ a + k <= Order
    BY <1>0, <1>5
  <2> HIDE DEF k
  <2>2. f[b] = Chain(N, f[a], f[k])
    BY <1>0, <2>1, PowersAdd
  <2>3. f[a] \in Perms(N) /\ f[k] \in Perms(N)
    BY <1>0, <2>1, PowerType
  <2>4. At(f[b], x) = At(f[a], At(f[k], x))
    BY <1>0, <2>2, <2>3, ChainParts
  <2>5. At(f[k], x) \in 0..(N - 1)
    BY <1>0, <2>3, InPerm
  <2>6. At(f[a], At(f[k], x)) = At(f[a], x)
    BY <1>2, <1>5, <2>4
  <2>7. At(f[k], x) = x
    BY <1>0, <2>3, <2>5, <2>6, InPerm
  <2> QED
    BY <2>1, <2>7
<1>6. CASE u < v
  BY <1>4, <1>5, <1>6
<1>7. CASE v < u
  BY <1>4, <1>5, <1>7
<1> QED
  BY <1>4, <1>6, <1>7

(* And so it is where it was after 27720 steps.                            *)
LEMMA PowerWhole ==
  ASSUME NEW N \in 1..12, NEW p \in Perms(N), NEW f, PowersOf(N, p, f), NEW x \in 0..(N - 1)
  PROVE  At(f[Order], x) = x
<1>0. N \in Nat /\ Order \in Nat
  BY DEF Order
<1>1. PICK k \in 1..N : At(f[k], x) = x
  BY PowerPeriod
<1>2. PICK m \in Nat : k * m = Order
  <2>1. /\ 1 * 27720 = 27720 /\ 2 * 13860 = 27720 /\ 3 * 9240 = 27720 /\ 4 * 6930 = 27720
        /\ 5 * 5544 = 27720 /\ 6 * 4620 = 27720 /\ 7 * 3960 = 27720 /\ 8 * 3465 = 27720
        /\ 9 * 3080 = 27720 /\ 10 * 2772 = 27720 /\ 11 * 2520 = 27720 /\ 12 * 2310 = 27720
    OBVIOUS
  <2>2. k \in {1, 2, 3, 4, 5, 6, 7, 8, 9, 10, 11, 12}
    OBVIOUS
  <2> QED
    BY <2>1, <2>2 DEF Order
<1> DEFINE T == {j \in 0..m : At(f[k * j], x) = x}
<1>3. 0 \in T
  <2>1. f[0] = One(N) /\ k * 0 = 0
    BY DEF PowersOf
  <2>2. At(f[0], x) = x
    BY <1>0, <2>1, OnePerm
  <2>3. 0 \in 0..m
    OBVIOUS
  <2> QED
    BY <2>1, <2>2, <2>3
<1>4. ASSUME NEW j \in 0..m, j # m, j \in T PROVE j + 1 \in T
  <2>1. j + 1 \in 0..m /\ j \in Nat /\ k \in Nat /\ k * j \in Nat /\ k * (j + 1) \in Nat
    BY <1>4
  <2>2. k * (j + 1) = k * j + k
    BY <2>1
  <2>3. k * (j + 1) <= k * m
    <3>1. k * m = k * (j + 1) + k * (m - (j + 1)) /\ m - (j + 1) \in Nat
      BY <2>1
    <3>2. k * (m - (j + 1)) \in Nat
      BY <2>1, <3>1
    <3>3. k * m \in Nat
      BY <2>1
    <3> QED
      BY <2>1, <3>1, <3>2, <3>3
  <2>4. k * j + k <= Order /\ k * j <= Order /\ k <= Order
    BY <1>0, <1>2, <2>1, <2>2, <2>3
  <2>5. At(f[k * j], x) = x
    BY <1>4
  <2> HIDE DEF T
  <2> DEFINE n == k * j
  <2>6. n \in Nat /\ n + k <= Order /\ n \in 0..Order /\ k \in 0..Order /\ At(f[n], x) = x
    BY <1>0, <2>1, <2>4, <2>5
  <2>7. k * (j + 1) = n + k
    BY <2>2
  <2> HIDE DEF n
  <2>8. f[n + k] = Chain(N, f[n], f[k])
    BY <1>0, <2>1, <2>6, PowersAdd
  <2>9. f[n] \in Perms(N) /\ f[k] \in Perms(N)
    BY <1>0, <2>6, PowerType
  <2>10. At(f[n + k], x) = At(f[n], At(f[k], x))
    BY <1>0, <2>8, <2>9, ChainParts
  <2>11. At(f[k * (j + 1)], x) = x
    BY <1>1, <2>6, <2>7, <2>10
  <2> QED
    BY <2>1, <2>11 DEF T
<1>5. \A j \in 0..m : j \in T
  <2> HIDE DEF T
  <2> QED
    BY <1>3, <1>4, InductionUpTo
<1>6. m \in T
  BY <1>5
<1> QED
  BY <1>2, <1>6

(* The power before the last is the inverse.                               *)
Inverts(N, q, p) ==
  q \in Perms(N) /\ \A i \in 0..(N - 1) : At(q, At(p, i)) = i /\ At(p, At(q, i)) = i

LEMMA PowerInverts ==
  ASSUME NEW N \in 1..12, NEW p \in Perms(N), NEW f, PowersOf(N, p, f)
  PROVE  Inverts(N, f[27719], p)
<1>0. N \in Nat /\ Order = 27720 /\ 27719 \in 0..Order /\ 1 \in 0..Order
  BY DEF Order
<1>1. f[1] = p
  <2>1. 1 \in 1..Order /\ 1 - 1 = 0
    BY <1>0
  <2>2. f[1] = Chain(N, p, f[1 - 1]) /\ f[0] = One(N)
    BY <2>1 DEF PowersOf
  <2> QED
    BY <1>0, <2>1, <2>2, OneChain
<1>2. f[27719] \in Perms(N)
  <2>1. 27719 \in 0..Order /\ N \in Nat
    BY DEF Order
  <2> QED
    BY <2>1, PowerType
<1>3. f[Order] = Chain(N, f[27719], p) /\ f[Order] = Chain(N, p, f[27719])
  <2>1. f[27719 + 1] = Chain(N, f[27719], f[1]) /\ f[1 + 27719] = Chain(N, f[1], f[27719])
    <3>1. 1 \in Nat /\ 27719 \in Nat /\ 27719 + 1 <= Order /\ 1 + 27719 <= Order
      BY <1>0
    <3> QED
      BY <1>0, <3>1, PowersAdd
  <2>2. 27719 + 1 = Order /\ 1 + 27719 = Order
    BY <1>0
  <2> QED
    BY <1>1, <2>1, <2>2
<1>4. ASSUME NEW i \in 0..(N - 1)
      PROVE  At(f[27719], At(p, i)) = i /\ At(p, At(f[27719], i)) = i
  <2>1. At(f[Order], i) = i
    BY PowerWhole
  <2>2. /\ At(Chain(N, f[27719], p), i) = At(f[27719], At(p, i))
        /\ At(Chain(N, p, f[27719]), i) = At(p, At(f[27719], i))
    BY <1>0, <1>2, ChainParts
  <2> QED
    BY <1>3, <2>1, <2>2
<1> QED
  BY <1>2, <1>4 DEF Inverts

(* The chain of squares and products of the code comes to that power.      *)
ChainOf(N, Then(_, _), Squared(_)) ==
  \A p, q \in Perms(N) : Then(p, q) = Chain(N, p, q) /\ Squared(p) = Chain(N, p, p)

LEMMA EdgeChain == ChainOf(12, EdgeThen, EdgeSquared)
BY DEF ChainOf, EdgeSquared, EdgeThen, EdgeLane, Chain

LEMMA CornerChain == ChainOf(8, CornerThen, CornerSquared)
BY DEF ChainOf, CornerSquared, CornerThen, CornerLane, Chain

LEMMA EdgePower ==
  ASSUME NEW p \in Perms(12)
  PROVE  Inverts(12, InverseBy(EdgeThen, EdgeSquared, p), p)
<1>1. PICK f : PowersOf(12, p, f)
  BY PowersExist
<1>2. ASSUME NEW a \in Nat, NEW b \in Nat, a + b <= 27720 PROVE EdgeThen(f[a], f[b]) = f[a + b]
  <2>1. a + b <= Order /\ a \in 0..Order /\ b \in 0..Order
    <3>1. Order \in Int /\ a + b <= Order
      BY <1>2 DEF Order
    <3> QED
      BY <3>1
  <2>2. f[a] \in Perms(12) /\ f[b] \in Perms(12) /\ f[a + b] = Chain(12, f[a], f[b])
    BY <1>1, <2>1, PowerType, PowersAdd
  <2> QED
    BY <2>2, EdgeChain DEF ChainOf
<1>3. ASSUME NEW a \in Nat, a <= 13860 PROVE EdgeSquared(f[a]) = f[2 * a]
  <2>1. a + a = 2 * a /\ a + a <= Order /\ a \in 0..Order
    <3>1. Order \in Int /\ a + a <= Order
      BY <1>3 DEF Order
    <3> QED
      BY <3>1
  <2>2. f[a] \in Perms(12) /\ f[2 * a] = Chain(12, f[a], f[a])
    BY <1>1, <2>1, PowerType, PowersAdd
  <2> QED
    BY <2>2, EdgeChain DEF ChainOf
<1>4. f[1] = p
  <2>1. 1 \in 1..Order /\ 1 - 1 = 0
    BY DEF Order
  <2>2. f[1] = Chain(12, p, f[1 - 1]) /\ f[0] = One(12)
    BY <1>1, <2>1 DEF PowersOf
  <2> QED
    BY <2>1, <2>2, OneChain
<1> DEFINE p3     == EdgeThen(EdgeSquared(p), p)
           p27    == EdgeThen(EdgeSquared(EdgeSquared(EdgeSquared(p3))), p3)
           p433   == EdgeThen(EdgeSquared(EdgeSquared(EdgeSquared(EdgeSquared(p27)))), p)
           p13859 == EdgeThen(EdgeSquared(EdgeSquared(EdgeSquared(EdgeSquared(EdgeSquared(p433))))), p3)
<1>5. p3 = f[3]
  <2>1. EdgeSquared(f[1]) = f[2]
    BY <1>3
  <2>2. EdgeThen(f[2], f[1]) = f[3]
    BY <1>2
  <2> QED
    BY <1>4, <2>1, <2>2
<1> HIDE DEF p3
<1>6. p27 = f[27]
  <2>1. EdgeSquared(f[3]) = f[6] /\ EdgeSquared(f[6]) = f[12] /\ EdgeSquared(f[12]) = f[24]
    BY <1>3
  <2>2. EdgeThen(f[24], f[3]) = f[27]
    BY <1>2
  <2> QED
    BY <1>5, <2>1, <2>2
<1> HIDE DEF p27
<1>7. p433 = f[433]
  <2>1. /\ EdgeSquared(f[27]) = f[54] /\ EdgeSquared(f[54]) = f[108]
        /\ EdgeSquared(f[108]) = f[216] /\ EdgeSquared(f[216]) = f[432]
    BY <1>3
  <2>2. EdgeThen(f[432], f[1]) = f[433]
    BY <1>2
  <2> QED
    BY <1>4, <1>6, <2>1, <2>2
<1> HIDE DEF p433
<1>8. p13859 = f[13859]
  <2>1. /\ EdgeSquared(f[433]) = f[866] /\ EdgeSquared(f[866]) = f[1732]
        /\ EdgeSquared(f[1732]) = f[3464] /\ EdgeSquared(f[3464]) = f[6928]
        /\ EdgeSquared(f[6928]) = f[13856]
    BY <1>3
  <2>2. EdgeThen(f[13856], f[3]) = f[13859]
    BY <1>2
  <2> QED
    BY <1>5, <1>7, <2>1, <2>2
<1>9. InverseBy(EdgeThen, EdgeSquared, p) = EdgeThen(EdgeSquared(p13859), p)
  BY DEF InverseBy, p13859, p433, p27, p3
<1> HIDE DEF p13859
<1>10. InverseBy(EdgeThen, EdgeSquared, p) = f[27719]
  <2>1. EdgeSquared(f[13859]) = f[27718]
    BY <1>3
  <2>2. EdgeThen(f[27718], f[1]) = f[27719]
    BY <1>2
  <2> QED
    BY <1>4, <1>8, <1>9, <2>1, <2>2
<1>11. Inverts(12, f[27719], p)
  BY <1>1, PowerInverts
<1> QED
  BY <1>10, <1>11

LEMMA CornerPower ==
  ASSUME NEW p \in Perms(8)
  PROVE  Inverts(8, InverseBy(CornerThen, CornerSquared, p), p)
<1>1. PICK f : PowersOf(8, p, f)
  BY PowersExist
<1>2. ASSUME NEW a \in Nat, NEW b \in Nat, a + b <= 27720 PROVE CornerThen(f[a], f[b]) = f[a + b]
  <2>1. a + b <= Order /\ a \in 0..Order /\ b \in 0..Order
    <3>1. Order \in Int /\ a + b <= Order
      BY <1>2 DEF Order
    <3> QED
      BY <3>1
  <2>2. f[a] \in Perms(8) /\ f[b] \in Perms(8) /\ f[a + b] = Chain(8, f[a], f[b])
    BY <1>1, <2>1, PowerType, PowersAdd
  <2> QED
    BY <2>2, CornerChain DEF ChainOf
<1>3. ASSUME NEW a \in Nat, a <= 13860 PROVE CornerSquared(f[a]) = f[2 * a]
  <2>1. a + a = 2 * a /\ a + a <= Order /\ a \in 0..Order
    <3>1. Order \in Int /\ a + a <= Order
      BY <1>3 DEF Order
    <3> QED
      BY <3>1
  <2>2. f[a] \in Perms(8) /\ f[2 * a] = Chain(8, f[a], f[a])
    BY <1>1, <2>1, PowerType, PowersAdd
  <2> QED
    BY <2>2, CornerChain DEF ChainOf
<1>4. f[1] = p
  <2>1. 1 \in 1..Order /\ 1 - 1 = 0
    BY DEF Order
  <2>2. f[1] = Chain(8, p, f[1 - 1]) /\ f[0] = One(8)
    BY <1>1, <2>1 DEF PowersOf
  <2> QED
    BY <2>1, <2>2, OneChain
<1> DEFINE p3     == CornerThen(CornerSquared(p), p)
           p27    == CornerThen(CornerSquared(CornerSquared(CornerSquared(p3))), p3)
           p433   == CornerThen(CornerSquared(CornerSquared(CornerSquared(CornerSquared(p27)))), p)
           p13859 == CornerThen(CornerSquared(CornerSquared(CornerSquared(CornerSquared(CornerSquared(p433))))), p3)
<1>5. p3 = f[3]
  <2>1. CornerSquared(f[1]) = f[2]
    BY <1>3
  <2>2. CornerThen(f[2], f[1]) = f[3]
    BY <1>2
  <2> QED
    BY <1>4, <2>1, <2>2
<1> HIDE DEF p3
<1>6. p27 = f[27]
  <2>1. CornerSquared(f[3]) = f[6] /\ CornerSquared(f[6]) = f[12] /\ CornerSquared(f[12]) = f[24]
    BY <1>3
  <2>2. CornerThen(f[24], f[3]) = f[27]
    BY <1>2
  <2> QED
    BY <1>5, <2>1, <2>2
<1> HIDE DEF p27
<1>7. p433 = f[433]
  <2>1. /\ CornerSquared(f[27]) = f[54] /\ CornerSquared(f[54]) = f[108]
        /\ CornerSquared(f[108]) = f[216] /\ CornerSquared(f[216]) = f[432]
    BY <1>3
  <2>2. CornerThen(f[432], f[1]) = f[433]
    BY <1>2
  <2> QED
    BY <1>4, <1>6, <2>1, <2>2
<1> HIDE DEF p433
<1>8. p13859 = f[13859]
  <2>1. /\ CornerSquared(f[433]) = f[866] /\ CornerSquared(f[866]) = f[1732]
        /\ CornerSquared(f[1732]) = f[3464] /\ CornerSquared(f[3464]) = f[6928]
        /\ CornerSquared(f[6928]) = f[13856]
    BY <1>3
  <2>2. CornerThen(f[13856], f[3]) = f[13859]
    BY <1>2
  <2> QED
    BY <1>5, <1>7, <2>1, <2>2
<1>9. InverseBy(CornerThen, CornerSquared, p) = CornerThen(CornerSquared(p13859), p)
  BY DEF InverseBy, p13859, p433, p27, p3
<1> HIDE DEF p13859
<1>10. InverseBy(CornerThen, CornerSquared, p) = f[27719]
  <2>1. CornerSquared(f[13859]) = f[27718]
    BY <1>3
  <2>2. CornerThen(f[27718], f[1]) = f[27719]
    BY <1>2
  <2> QED
    BY <1>4, <1>8, <1>9, <2>1, <2>2
<1>11. Inverts(8, f[27719], p)
  BY <1>1, PowerInverts
<1> QED
  BY <1>10, <1>11

-----------------------------------------------------------------------------
(***************************************************************************)
(* The inverse of a lane, and of a cube.                                   *)
(***************************************************************************)
Cubies(N, l) == [k \in 1..N |-> Cubie(At(l, k - 1))]

LEMMA CubiesPermute ==
  ASSUME NEW N, NEW T, Kind(N, T), NEW l \in Lanes(N, T)
  PROVE  /\ Cubies(N, l) \in Perms(N)
         /\ \A i \in 0..(N - 1) : At(Cubies(N, l), i) = Cubie(At(l, i))
<1>1. ASSUME NEW i \in 0..(N - 1) PROVE At(Cubies(N, l), i) = Cubie(At(l, i))
  <2>1. i + 1 \in 1..N /\ (i + 1) - 1 = i
    BY Small
  <2> QED
    BY <2>1 DEF Cubies, At
<1>2. Cubies(N, l) \in [1..N -> 0..(N - 1)]
  <2>1. \A k \in 1..N : Cubie(At(l, k - 1)) \in 0..(N - 1)
    BY Small, InLane
  <2> QED
    BY <2>1 DEF Cubies
<1>3. \A i, j \in 0..(N - 1) : At(Cubies(N, l), i) = At(Cubies(N, l), j) => i = j
  BY <1>1, InLane
<1> QED
  BY <1>1, <1>2, <1>3 DEF Perms

UndoneT(T, l, x) == ((T - 1) * Twist(At(l, x))) % T
Undone(N, T, l, q) == [k \in 1..N |-> Byte(At(q, k - 1), UndoneT(T, l, At(q, k - 1)))]

LEMMA TwistUndone ==
  ASSUME NEW N, NEW T, Kind(N, T), NEW t \in 0..(T - 1)
  PROVE  /\ ((T - 1) * t) % T \in 0..(T - 1)
         /\ (t + (((T - 1) * t) % T)) % T = 0
         /\ ((((T - 1) * t) % T) + t) % T = 0
<1>1. CASE T = 2
  BY <1>1
<1>2. CASE T = 3
  BY <1>2
<1> QED
  BY <1>1, <1>2 DEF Kind

LEMMA UndoneParts ==
  ASSUME NEW N, NEW T, Kind(N, T), NEW l \in Lanes(N, T), NEW q, Inverts(N, q, Cubies(N, l))
  PROVE  /\ Undone(N, T, l, q) \in Lanes(N, T)
         /\ \A i \in 0..(N - 1) :
              /\ At(q, i) \in 0..(N - 1)
              /\ Cubie(At(Undone(N, T, l, q), i)) = At(q, i)
              /\ Twist(At(Undone(N, T, l, q), i)) = UndoneT(T, l, At(q, i))
<1> DEFINE x == [i \in 0..(N - 1) |-> At(q, i)]
           t == [i \in 0..(N - 1) |-> UndoneT(T, l, At(q, i))]
           u == Undone(N, T, l, q)
<1>1. ASSUME NEW i \in 0..(N - 1)
      PROVE  /\ At(q, i) \in 0..(N - 1) /\ UndoneT(T, l, At(q, i)) \in 0..(T - 1)
             /\ \A j \in 0..(N - 1) : At(q, i) = At(q, j) => i = j
  <2>1. q \in Perms(N) /\ N \in Nat
    BY Small DEF Inverts
  <2>2. At(q, i) \in 0..(N - 1) /\ \A j \in 0..(N - 1) : At(q, i) = At(q, j) => i = j
    BY <2>1, InPerm
  <2>3. Twist(At(l, At(q, i))) \in 0..(T - 1)
    BY <2>2, InLane
  <2>4. UndoneT(T, l, At(q, i)) \in 0..(T - 1)
    BY <2>3, TwistUndone DEF UndoneT
  <2> QED
    BY <2>2, <2>4
<1>2. /\ x \in [0..(N - 1) -> 0..(N - 1)] /\ t \in [0..(N - 1) -> 0..(T - 1)]
      /\ \A i, j \in 0..(N - 1) : x[i] = x[j] => i = j
  BY <1>1
<1>3. u = [k \in 1..N |-> Byte(x[k - 1], t[k - 1])]
  <2>1. \A k \in 1..N : x[k - 1] = At(q, k - 1) /\ t[k - 1] = UndoneT(T, l, At(q, k - 1))
    BY Small
  <2> QED
    BY <2>1 DEF Undone
<1>4. \A i \in 0..(N - 1) : x[i] = At(q, i) /\ t[i] = UndoneT(T, l, At(q, i))
  OBVIOUS
<1> HIDE DEF x, t, u
<1>5. /\ u \in Lanes(N, T)
      /\ \A i \in 0..(N - 1) : Cubie(At(u, i)) = x[i] /\ Twist(At(u, i)) = t[i]
  <2>1. Making(N, T, x, t, u)
    BY <1>2, <1>3 DEF Making
  <2> QED
    BY <2>1, LaneMade
<1>6. \A i \in 0..(N - 1) : Cubie(At(u, i)) = At(q, i) /\ Twist(At(u, i)) = UndoneT(T, l, At(q, i))
  BY <1>4, <1>5
<1> QED
  BY <1>1, <1>5, <1>6 DEF u

LEMMA UndoneJoined ==
  ASSUME NEW N, NEW T, Kind(N, T), NEW l \in Lanes(N, T), NEW q, Inverts(N, q, Cubies(N, l))
  PROVE  /\ Joined(N, T, l, Undone(N, T, l, q)) = One(N)
         /\ Joined(N, T, Undone(N, T, l, q), l) = One(N)
<1> DEFINE u == Undone(N, T, l, q)
           a == Joined(N, T, l, u)
           b == Joined(N, T, u, l)
<1>1. /\ u \in Lanes(N, T)
      /\ \A i \in 0..(N - 1) : /\ At(q, i) \in 0..(N - 1)
                               /\ Cubie(At(u, i)) = At(q, i)
                               /\ Twist(At(u, i)) = UndoneT(T, l, At(q, i))
  BY UndoneParts
<1> HIDE DEF u
<1>2. /\ a \in Lanes(N, T) /\ b \in Lanes(N, T)
      /\ \A i \in 0..(N - 1) :
           /\ Cubie(At(a, i)) = JoinedX(l, u, i) /\ Twist(At(a, i)) = JoinedT(T, l, u, i)
           /\ Cubie(At(b, i)) = JoinedX(u, l, i) /\ Twist(At(b, i)) = JoinedT(T, u, l, i)
  BY <1>1, JoinedParts
<1> HIDE DEF a, b
<1>3. ASSUME NEW i \in 0..(N - 1)
      PROVE  /\ Cubie(At(a, i)) = i /\ Twist(At(a, i)) = 0
             /\ Cubie(At(b, i)) = i /\ Twist(At(b, i)) = 0
  <2>1. /\ Cubie(At(l, i)) \in 0..(N - 1) /\ Twist(At(l, i)) \in 0..(T - 1)
        /\ At(q, Cubie(At(l, i))) = i
    BY InLane, CubiesPermute DEF Inverts
  <2>2. /\ At(q, i) \in 0..(N - 1) /\ Twist(At(l, At(q, i))) \in 0..(T - 1)
        /\ Cubie(At(l, At(q, i))) = i
    BY <1>1, InLane, CubiesPermute DEF Inverts
  <2>3. There(u, i) = At(q, i) /\ There(l, i) = Cubie(At(l, i))
    BY <1>1 DEF There
  <2>4. JoinedX(l, u, i) = i /\ JoinedX(u, l, i) = i
    BY <1>1, <2>1, <2>2, <2>3 DEF JoinedX
  <2>5. JoinedT(T, l, u, i) = 0
    <3> DEFINE t == Twist(At(l, At(q, i)))
    <3>1. JoinedT(T, l, u, i) = (t + (((T - 1) * t) % T)) % T
      BY <1>1, <2>3 DEF JoinedT, UndoneT
    <3>2. t \in 0..(T - 1)
      BY <2>2
    <3> HIDE DEF t
    <3> QED
      BY <3>1, <3>2, TwistUndone
  <2>6. JoinedT(T, u, l, i) = 0
    <3> DEFINE t == Twist(At(l, i))
    <3>1. Twist(At(u, Cubie(At(l, i)))) = UndoneT(T, l, i)
      BY <1>1, <2>1
    <3>2. JoinedT(T, u, l, i) = ((((T - 1) * t) % T) + t) % T
      BY <2>3, <3>1 DEF JoinedT, UndoneT
    <3>3. t \in 0..(T - 1)
      BY <2>1
    <3> HIDE DEF t
    <3> QED
      BY <3>2, <3>3, TwistUndone
  <2> QED
    BY <1>2, <2>4, <2>5, <2>6
<1>4. One(N) \in Lanes(N, T)
  BY OneParts
<1>5. a = One(N) /\ b = One(N)
  BY <1>2, <1>3, <1>4, OneParts, LanesAlike
<1> QED
  BY <1>5 DEF a, b, u

EdgeInverse(ev)   == InverseBy(EdgeThen, EdgeSquared, Cubies(12, ev))
CornerInverse(cv) == InverseBy(CornerThen, CornerSquared, Cubies(8, cv))

EdgesPlaced(ev, q)   == EdgeLane(LAMBDA i : Byte(At(q, i), Twist(At(ev, At(q, i)))))
CornersPlaced(cv, q) == CornerLane(LAMBDA i : Byte(At(q, i), (2 * Twist(At(cv, At(q, i)))) % 3))

LEMMA InversePlaced ==
  ASSUME NEW ev, NEW cv
  PROVE  /\ InverseEdges(ev) = EdgesPlaced(ev, EdgeInverse(ev))
         /\ InverseCorners(cv) = CornersPlaced(cv, CornerInverse(cv))
<1>1. InverseEdges(ev) =
        EdgesPlaced(ev, InverseBy(EdgeThen, EdgeSquared, EdgeLane(LAMBDA i : Cubie(At(ev, i)))))
  BY DEF InverseEdges, EdgesPlaced
<1>2. InverseCorners(cv) =
        CornersPlaced(cv, InverseBy(CornerThen, CornerSquared, CornerLane(LAMBDA i : Cubie(At(cv, i)))))
  BY DEF InverseCorners, CornersPlaced
<1>3. EdgeLane(LAMBDA i : Cubie(At(ev, i))) = Cubies(12, ev)
  BY DEF EdgeLane, Cubies
<1>4. CornerLane(LAMBDA i : Cubie(At(cv, i))) = Cubies(8, cv)
  BY DEF CornerLane, Cubies
<1>5. InverseBy(EdgeThen, EdgeSquared, EdgeLane(LAMBDA i : Cubie(At(ev, i)))) = EdgeInverse(ev)
  BY <1>3 DEF EdgeInverse
<1>6. InverseBy(CornerThen, CornerSquared, CornerLane(LAMBDA i : Cubie(At(cv, i)))) = CornerInverse(cv)
  BY <1>4 DEF CornerInverse
<1> QED
  BY <1>1, <1>2, <1>5, <1>6

LEMMA InverseEdgesIs ==
  ASSUME NEW ev \in Lanes(12, 2)
  PROVE  /\ InverseEdges(ev) = Undone(12, 2, ev, EdgeInverse(ev))
         /\ Inverts(12, EdgeInverse(ev), Cubies(12, ev))
<1>1. Inverts(12, EdgeInverse(ev), Cubies(12, ev))
  BY Kinds, CubiesPermute, EdgePower DEF EdgeInverse
<1>2. InverseEdges(ev) = EdgesPlaced(ev, EdgeInverse(ev))
  BY InversePlaced
<1> DEFINE q == EdgeInverse(ev)
           f == [i \in 0..11 |-> Byte(At(q, i), UndoneT(2, ev, At(q, i)))]
<1>3. ASSUME NEW i \in 0..11
      PROVE  UndoneT(2, ev, At(q, i)) = Twist(At(ev, At(q, i)))
  <2>1. i \in 0..(12 - 1) /\ 2 - 1 = 1
    OBVIOUS
  <2>2. At(q, i) \in 0..(12 - 1)
    BY <1>1, <2>1, Kinds, UndoneParts
  <2>3. Twist(At(ev, At(q, i))) \in 0..(2 - 1)
    BY <2>2, Kinds, InLane
  <2> QED
    BY <2>3 DEF UndoneT
<1>4. InverseEdges(ev) = <<f[0], f[1], f[2], f[3], f[4], f[5], f[6], f[7], f[8], f[9], f[10], f[11]>>
  <2>1. \A i \in 0..11 : f[i] = Byte(At(q, i), Twist(At(ev, At(q, i))))
    BY <1>3
  <2> HIDE DEF f, q
  <2> QED
    BY <1>2, <2>1 DEF EdgesPlaced, EdgeLane, q
<1>5. Undone(12, 2, ev, q) = [k \in 1..12 |-> f[k - 1]]
  <2>1. \A k \in 1..12 : f[k - 1] = Byte(At(q, k - 1), UndoneT(2, ev, At(q, k - 1)))
    OBVIOUS
  <2> HIDE DEF f, q
  <2> QED
    BY <2>1 DEF Undone
<1> HIDE DEF f
<1>6. <<f[0], f[1], f[2], f[3], f[4], f[5], f[6], f[7], f[8], f[9], f[10], f[11]>>
        = [k \in 1..12 |-> f[k - 1]]
  OBVIOUS
<1> QED
  BY <1>1, <1>4, <1>5, <1>6, Zenon

LEMMA InverseCornersIs ==
  ASSUME NEW cv \in Lanes(8, 3)
  PROVE  /\ InverseCorners(cv) = Undone(8, 3, cv, CornerInverse(cv))
         /\ Inverts(8, CornerInverse(cv), Cubies(8, cv))
<1>1. Inverts(8, CornerInverse(cv), Cubies(8, cv))
  BY Kinds, CubiesPermute, CornerPower DEF CornerInverse
<1>2. InverseCorners(cv) = CornersPlaced(cv, CornerInverse(cv))
  BY InversePlaced
<1> DEFINE q == CornerInverse(cv)
           f == [i \in 0..7 |-> Byte(At(q, i), UndoneT(3, cv, At(q, i)))]
<1>3. \A i \in 0..7 : f[i] = Byte(At(q, i), (2 * Twist(At(cv, At(q, i)))) % 3)
  <2>1. 3 - 1 = 2
    OBVIOUS
  <2>2. \A i \in 0..7 : UndoneT(3, cv, At(q, i)) = (2 * Twist(At(cv, At(q, i)))) % 3
    BY <2>1 DEF UndoneT
  <2> QED
    BY <2>2
<1>4. InverseCorners(cv) = <<f[0], f[1], f[2], f[3], f[4], f[5], f[6], f[7]>>
  <2> HIDE DEF f, q
  <2> QED
    BY <1>2, <1>3 DEF CornersPlaced, CornerLane, q
<1>5. Undone(8, 3, cv, q) = [k \in 1..8 |-> f[k - 1]]
  <2>1. \A k \in 1..8 : f[k - 1] = Byte(At(q, k - 1), UndoneT(3, cv, At(q, k - 1)))
    OBVIOUS
  <2> HIDE DEF f, q
  <2> QED
    BY <2>1 DEF Undone
<1> HIDE DEF f
<1>6. <<f[0], f[1], f[2], f[3], f[4], f[5], f[6], f[7]>> = [k \in 1..8 |-> f[k - 1]]
  OBVIOUS
<1> QED
  BY <1>1, <1>4, <1>5, <1>6, Zenon

(* invert inverts every cube: the chain of squares and products that takes *)
(* the 27719th power of its permutations, and what becomes of flips and    *)
(* twists, give the cube that it makes the identity with, at either end.   *)
THEOREM InvertInverts ==
  ASSUME NEW c \in Cubes
  PROVE  Invert(c) \in Cubes /\ c ** Invert(c) = Identity /\ Invert(c) ** c = Identity
<1> DEFINE e == Undone(12, 2, c.ev, EdgeInverse(c.ev))
           x == Undone(8, 3, c.cv, CornerInverse(c.cv))
<1>1. c.ev \in Lanes(12, 2) /\ c.cv \in Lanes(8, 3)
  BY CubeFields
<1>2. Invert(c) = [ev |-> e, cv |-> x]
  BY <1>1, InverseEdgesIs, InverseCornersIs DEF Invert
<1>3. /\ e \in Lanes(12, 2)
      /\ Joined(12, 2, c.ev, e) = One(12) /\ Joined(12, 2, e, c.ev) = One(12)
  BY <1>1, Kinds, InverseEdgesIs, UndoneParts, UndoneJoined
<1>4. /\ x \in Lanes(8, 3)
      /\ Joined(8, 3, c.cv, x) = One(8) /\ Joined(8, 3, x, c.cv) = One(8)
  BY <1>1, Kinds, InverseCornersIs, UndoneParts, UndoneJoined
<1> HIDE DEF e, x
<1>5. Invert(c) \in Cubes /\ Invert(c).ev = e /\ Invert(c).cv = x
  BY <1>2, <1>3, <1>4 DEF Cubes
<1>6. /\ c ** Invert(c) = [ev |-> Joined(12, 2, c.ev, e), cv |-> Joined(8, 3, c.cv, x)]
      /\ Invert(c) ** c = [ev |-> Joined(12, 2, e, c.ev), cv |-> Joined(8, 3, x, c.cv)]
  BY <1>5, ComposeIs
<1> QED
  BY <1>3, <1>4, <1>5, <1>6, IdentityIs

-----------------------------------------------------------------------------
(***************************************************************************)
(* Cubes are a group; a cube is seen from elsewhere by conjugation.        *)
(***************************************************************************)
LEMMA Inverted ==
  ASSUME NEW c \in Cubes
  PROVE  Invert(c) \in Cubes /\ c ** Invert(c) = Identity /\ Invert(c) ** c = Identity
BY InvertInverts

LEMMA InverseUnique ==
  ASSUME NEW a \in Cubes, NEW b \in Cubes, a ** b = Identity
  PROVE  b = Invert(a)
<1>1. Invert(a) \in Cubes /\ Invert(a) ** a = Identity
  BY Inverted
<1>2. (Invert(a) ** a) ** b = Invert(a) ** (a ** b)
  BY <1>1, Associates
<1>3. Identity ** b = b /\ Invert(a) ** Identity = Invert(a)
  BY <1>1, Unit
<1> QED
  BY <1>1, <1>2, <1>3

LEMMA InvertTwice ==
  ASSUME NEW a \in Cubes
  PROVE  Invert(Invert(a)) = a
<1>1. Invert(a) \in Cubes /\ Invert(a) ** a = Identity
  BY Inverted
<1> QED
  BY <1>1, InverseUnique

LEMMA InvertProduct ==
  ASSUME NEW a \in Cubes, NEW b \in Cubes
  PROVE  Invert(a ** b) = Invert(b) ** Invert(a)
<1> DEFINE ai == Invert(a)
           bi == Invert(b)
<1>1. ai \in Cubes /\ bi \in Cubes /\ a ** ai = Identity /\ b ** bi = Identity
  BY Inverted
<1> HIDE DEF ai, bi
<1>2. a ** b \in Cubes /\ bi ** ai \in Cubes /\ b ** (bi ** ai) \in Cubes
  BY <1>1, Composed
<1>3. (a ** b) ** (bi ** ai) = a ** (b ** (bi ** ai))
  BY <1>2, Associates
<1>4. b ** (bi ** ai) = (b ** bi) ** ai
  BY <1>1, Associates
<1>5. (b ** bi) ** ai = ai
  BY <1>1, Unit
<1>6. (a ** b) ** (bi ** ai) = Identity
  BY <1>1, <1>3, <1>4, <1>5
<1> QED
  BY <1>2, <1>6, InverseUnique DEF ai, bi

Conj(x, c) == (x ** c) ** Invert(x)

LEMMA ConjType ==
  ASSUME NEW x \in Cubes, NEW c \in Cubes
  PROVE  Conj(x, c) \in Cubes
BY Inverted, Composed DEF Conj

LEMMA ConjProduct ==
  ASSUME NEW x \in Cubes, NEW a \in Cubes, NEW b \in Cubes
  PROVE  Conj(x, a ** b) = Conj(x, a) ** Conj(x, b)
<1> DEFINE xi == Invert(x)
<1>1. xi \in Cubes /\ xi ** x = Identity
  BY Inverted
<1> HIDE DEF xi
<1>2. /\ x ** a \in Cubes /\ x ** b \in Cubes /\ (x ** b) ** xi \in Cubes
      /\ b ** xi \in Cubes /\ xi ** (x ** b) \in Cubes
  BY <1>1, Composed
<1>3. ((x ** a) ** xi) ** ((x ** b) ** xi) = (x ** a) ** (xi ** ((x ** b) ** xi))
  BY <1>1, <1>2, Associates
<1>4. xi ** ((x ** b) ** xi) = (xi ** (x ** b)) ** xi
  BY <1>1, <1>2, Associates
<1>5. xi ** (x ** b) = (xi ** x) ** b
  BY <1>1, Associates
<1>6. (xi ** x) ** b = b
  BY <1>1, Unit
<1>7. (x ** a) ** (b ** xi) = ((x ** a) ** b) ** xi
  BY <1>1, <1>2, Associates
<1>8. (x ** a) ** b = x ** (a ** b)
  BY Associates
<1> QED
  BY <1>3, <1>4, <1>5, <1>6, <1>7, <1>8 DEF Conj, xi

LEMMA ConjIdentity ==
  ASSUME NEW x \in Cubes
  PROVE  Conj(x, Identity) = Identity
BY Inverted, Unit DEF Conj

LEMMA ConjInvert ==
  ASSUME NEW x \in Cubes, NEW c \in Cubes
  PROVE  Conj(x, Invert(c)) = Invert(Conj(x, c))
<1>1. Invert(c) \in Cubes /\ c ** Invert(c) = Identity
  BY Inverted
<1>2. Conj(x, c) ** Conj(x, Invert(c)) = Conj(x, Identity)
  BY <1>1, ConjProduct
<1>3. Conj(x, c) \in Cubes /\ Conj(x, Invert(c)) \in Cubes
  BY <1>1, ConjType
<1> QED
  BY <1>2, <1>3, ConjIdentity, InverseUnique

LEMMA ConjTwice ==
  ASSUME NEW x \in Cubes, NEW y \in Cubes, NEW c \in Cubes
  PROVE  Conj(x, Conj(y, c)) = Conj(x ** y, c)
<1> DEFINE xi == Invert(x)
           yi == Invert(y)
<1>1. xi \in Cubes /\ yi \in Cubes /\ Invert(x ** y) = yi ** xi
  BY Inverted, InvertProduct
<1> HIDE DEF xi, yi
<1>2. y ** c \in Cubes /\ x ** (y ** c) \in Cubes /\ x ** y \in Cubes
  BY Composed
<1>3. x ** ((y ** c) ** yi) = (x ** (y ** c)) ** yi
  BY <1>1, <1>2, Associates
<1>4. ((x ** (y ** c)) ** yi) ** xi = (x ** (y ** c)) ** (yi ** xi)
  BY <1>1, <1>2, Associates
<1>5. x ** (y ** c) = (x ** y) ** c
  BY Associates
<1> QED
  BY <1>1, <1>3, <1>4, <1>5 DEF Conj, xi, yi

-----------------------------------------------------------------------------
(***************************************************************************)
(* The literals that the symmetries and the turns are made of, and their   *)
(* orders: a third of a turn about a corner, a quarter turn of the upper   *)
(* face.                                                                   *)
(***************************************************************************)
Reads(N, l, x, t) ==
  \A i \in 0..(N - 1) : Cubie(At(l, i)) = x[i + 1] /\ Twist(At(l, i)) = t[i + 1]

(* A lane that is written out, and q the places of its cubies.             *)
Giving(N, T, l, x, t, q) ==
  /\ l \in [1..N -> Nat] /\ Reads(N, l, x, t)
  /\ \A i \in 0..(N - 1) : x[i + 1] \in 0..(N - 1) /\ t[i + 1] \in 0..(T - 1) /\ q[x[i + 1] + 1] = i

LEMMA LaneGiven ==
  ASSUME NEW N, NEW T, Kind(N, T), NEW l, NEW x, NEW t, NEW q, Giving(N, T, l, x, t, q)
  PROVE  l \in Lanes(N, T)
<1>1. \A i \in 0..(N - 1) : /\ Cubie(At(l, i)) \in 0..(N - 1) /\ Twist(At(l, i)) \in 0..(T - 1)
                           /\ q[Cubie(At(l, i)) + 1] = i
  BY DEF Giving, Reads
<1>2. Apart(N, l)
  BY <1>1 DEF Apart
<1> QED
  BY <1>1, <1>2 DEF Giving, Lanes

LEMMA URF3Edges ==
  /\ S_URF3.ev \in Lanes(12, 2)
  /\ Reads(12, S_URF3.ev, <<1, 8, 5, 9, 3, 11, 7, 10, 0, 4, 6, 2>>, <<1, 0, 1, 0, 1, 0, 1, 0, 1, 1, 1, 1>>)
<1> DEFINE l == S_URF3.ev
           x == <<1, 8, 5, 9, 3, 11, 7, 10, 0, 4, 6, 2>>
           t == <<1, 0, 1, 0, 1, 0, 1, 0, 1, 1, 1, 1>>
           q == <<8, 0, 11, 4, 9, 2, 10, 6, 1, 3, 7, 5>>
<1>1. Reads(12, l, x, t)
  BY DEF Reads, S_URF3, Literal, At, Cubie, Twist
<1>2. l \in [1..12 -> Nat]
  BY DEF S_URF3, Literal
<1>3. \A i \in 0..(12 - 1) : x[i + 1] \in 0..(12 - 1) /\ t[i + 1] \in 0..(2 - 1) /\ q[x[i + 1] + 1] = i
  OBVIOUS
<1> HIDE DEF l, x, t, q
<1>4. Giving(12, 2, l, x, t, q)
  BY <1>1, <1>2, <1>3 DEF Giving
<1>5. l \in Lanes(12, 2)
  BY <1>4, Kinds, LaneGiven
<1> QED
  BY <1>1, <1>5 DEF l, x, t

LEMMA URF3Corners ==
  /\ S_URF3.cv \in Lanes(8, 3)
  /\ Reads(8, S_URF3.cv, <<0, 4, 5, 1, 3, 7, 6, 2>>, <<1, 2, 1, 2, 2, 1, 2, 1>>)
<1> DEFINE l == S_URF3.cv
           x == <<0, 4, 5, 1, 3, 7, 6, 2>>
           t == <<1, 2, 1, 2, 2, 1, 2, 1>>
           q == <<0, 3, 7, 4, 1, 2, 6, 5>>
<1>1. Reads(8, l, x, t)
  BY DEF Reads, S_URF3, Literal, At, Cubie, Twist
<1>2. l \in [1..8 -> Nat]
  BY DEF S_URF3, Literal
<1>3. \A i \in 0..(8 - 1) : x[i + 1] \in 0..(8 - 1) /\ t[i + 1] \in 0..(3 - 1) /\ q[x[i + 1] + 1] = i
  OBVIOUS
<1> HIDE DEF l, x, t, q
<1>4. Giving(8, 3, l, x, t, q)
  BY <1>1, <1>2, <1>3 DEF Giving
<1>5. l \in Lanes(8, 3)
  BY <1>4, Kinds, LaneGiven
<1> QED
  BY <1>1, <1>5 DEF l, x, t

LEMMA U4Edges ==
  /\ S_U4.ev \in Lanes(12, 2)
  /\ Reads(12, S_U4.ev, <<3, 0, 1, 2, 7, 4, 5, 6, 11, 8, 9, 10>>, <<0, 0, 0, 0, 0, 0, 0, 0, 1, 1, 1, 1>>)
<1> DEFINE l == S_U4.ev
           x == <<3, 0, 1, 2, 7, 4, 5, 6, 11, 8, 9, 10>>
           t == <<0, 0, 0, 0, 0, 0, 0, 0, 1, 1, 1, 1>>
           q == <<1, 2, 3, 0, 5, 6, 7, 4, 9, 10, 11, 8>>
<1>1. Reads(12, l, x, t)
  BY DEF Reads, S_U4, Literal, At, Cubie, Twist
<1>2. l \in [1..12 -> Nat]
  BY DEF S_U4, Literal
<1>3. \A i \in 0..(12 - 1) : x[i + 1] \in 0..(12 - 1) /\ t[i + 1] \in 0..(2 - 1) /\ q[x[i + 1] + 1] = i
  OBVIOUS
<1> HIDE DEF l, x, t, q
<1>4. Giving(12, 2, l, x, t, q)
  BY <1>1, <1>2, <1>3 DEF Giving
<1>5. l \in Lanes(12, 2)
  BY <1>4, Kinds, LaneGiven
<1> QED
  BY <1>1, <1>5 DEF l, x, t

LEMMA U4Corners ==
  /\ S_U4.cv \in Lanes(8, 3)
  /\ Reads(8, S_U4.cv, <<3, 0, 1, 2, 7, 4, 5, 6>>, <<0, 0, 0, 0, 0, 0, 0, 0>>)
<1> DEFINE l == S_U4.cv
           x == <<3, 0, 1, 2, 7, 4, 5, 6>>
           t == <<0, 0, 0, 0, 0, 0, 0, 0>>
           q == <<1, 2, 3, 0, 5, 6, 7, 4>>
<1>1. Reads(8, l, x, t)
  BY DEF Reads, S_U4, Literal, At, Cubie, Twist
<1>2. l \in [1..8 -> Nat]
  BY DEF S_U4, Literal
<1>3. \A i \in 0..(8 - 1) : x[i + 1] \in 0..(8 - 1) /\ t[i + 1] \in 0..(3 - 1) /\ q[x[i + 1] + 1] = i
  OBVIOUS
<1> HIDE DEF l, x, t, q
<1>4. Giving(8, 3, l, x, t, q)
  BY <1>1, <1>2, <1>3 DEF Giving
<1>5. l \in Lanes(8, 3)
  BY <1>4, Kinds, LaneGiven
<1> QED
  BY <1>1, <1>5 DEF l, x, t

LEMMA TurnEdges ==
  /\ M_U.ev \in Lanes(12, 2)
  /\ Reads(12, M_U.ev, <<3, 0, 1, 2, 4, 5, 6, 7, 8, 9, 10, 11>>, <<0, 0, 0, 0, 0, 0, 0, 0, 0, 0, 0, 0>>)
<1> DEFINE l == M_U.ev
           x == <<3, 0, 1, 2, 4, 5, 6, 7, 8, 9, 10, 11>>
           t == <<0, 0, 0, 0, 0, 0, 0, 0, 0, 0, 0, 0>>
           q == <<1, 2, 3, 0, 4, 5, 6, 7, 8, 9, 10, 11>>
<1>1. Reads(12, l, x, t)
  BY DEF Reads, M_U, Literal, At, Cubie, Twist
<1>2. l \in [1..12 -> Nat]
  BY DEF M_U, Literal
<1>3. \A i \in 0..(12 - 1) : x[i + 1] \in 0..(12 - 1) /\ t[i + 1] \in 0..(2 - 1) /\ q[x[i + 1] + 1] = i
  OBVIOUS
<1> HIDE DEF l, x, t, q
<1>4. Giving(12, 2, l, x, t, q)
  BY <1>1, <1>2, <1>3 DEF Giving
<1>5. l \in Lanes(12, 2)
  BY <1>4, Kinds, LaneGiven
<1> QED
  BY <1>1, <1>5 DEF l, x, t

LEMMA TurnCorners ==
  /\ M_U.cv \in Lanes(8, 3)
  /\ Reads(8, M_U.cv, <<3, 0, 1, 2, 4, 5, 6, 7>>, <<0, 0, 0, 0, 0, 0, 0, 0>>)
<1> DEFINE l == M_U.cv
           x == <<3, 0, 1, 2, 4, 5, 6, 7>>
           t == <<0, 0, 0, 0, 0, 0, 0, 0>>
           q == <<1, 2, 3, 0, 4, 5, 6, 7>>
<1>1. Reads(8, l, x, t)
  BY DEF Reads, M_U, Literal, At, Cubie, Twist
<1>2. l \in [1..8 -> Nat]
  BY DEF M_U, Literal
<1>3. \A i \in 0..(8 - 1) : x[i + 1] \in 0..(8 - 1) /\ t[i + 1] \in 0..(3 - 1) /\ q[x[i + 1] + 1] = i
  OBVIOUS
<1> HIDE DEF l, x, t, q
<1>4. Giving(8, 3, l, x, t, q)
  BY <1>1, <1>2, <1>3 DEF Giving
<1>5. l \in Lanes(8, 3)
  BY <1>4, Kinds, LaneGiven
<1> QED
  BY <1>1, <1>5 DEF l, x, t

LEMMA URF3EdgesOrder ==
  Joined(12, 2, Joined(12, 2, S_URF3.ev, S_URF3.ev), S_URF3.ev) = One(12)
<1> DEFINE l == S_URF3.ev
           d == Joined(12, 2, l, l)
           f == Joined(12, 2, d, l)
<1>1. l \in Lanes(12, 2) /\ Reads(12, l, <<1, 8, 5, 9, 3, 11, 7, 10, 0, 4, 6, 2>>, <<1, 0, 1, 0, 1, 0, 1, 0, 1, 1, 1, 1>>)
  BY URF3Edges
<1> HIDE DEF l
<1>2. /\ d \in Lanes(12, 2)
      /\ \A i \in 0..(12 - 1) : /\ Cubie(At(d, i)) = JoinedX(l, l, i)
                               /\ Twist(At(d, i)) = JoinedT(2, l, l, i)
  BY <1>1, Kinds, JoinedParts
<1> HIDE DEF d
<1>3. Reads(12, d, <<8, 0, 11, 4, 9, 2, 10, 6, 1, 3, 7, 5>>, <<1, 1, 1, 1, 1, 1, 1, 1, 0, 0, 0, 0>>)
  BY <1>1, <1>2 DEF Reads, JoinedX, JoinedT, There
<1>4. /\ f \in Lanes(12, 2)
      /\ \A i \in 0..(12 - 1) : /\ Cubie(At(f, i)) = JoinedX(d, l, i)
                               /\ Twist(At(f, i)) = JoinedT(2, d, l, i)
  BY <1>1, <1>2, Kinds, JoinedParts
<1> HIDE DEF f
<1>5. \A i \in 0..(12 - 1) : Cubie(At(f, i)) = i /\ Twist(At(f, i)) = 0
  BY <1>1, <1>3, <1>4 DEF Reads, JoinedX, JoinedT, There
<1>6. f = One(12)
  BY <1>4, <1>5, Kinds, OneParts, LanesAlike
<1> QED
  BY <1>6 DEF f, d, l

LEMMA URF3CornersOrder ==
  Joined(8, 3, Joined(8, 3, S_URF3.cv, S_URF3.cv), S_URF3.cv) = One(8)
<1> DEFINE l == S_URF3.cv
           d == Joined(8, 3, l, l)
           f == Joined(8, 3, d, l)
<1>1. l \in Lanes(8, 3) /\ Reads(8, l, <<0, 4, 5, 1, 3, 7, 6, 2>>, <<1, 2, 1, 2, 2, 1, 2, 1>>)
  BY URF3Corners
<1> HIDE DEF l
<1>2. /\ d \in Lanes(8, 3)
      /\ \A i \in 0..(8 - 1) : /\ Cubie(At(d, i)) = JoinedX(l, l, i)
                               /\ Twist(At(d, i)) = JoinedT(3, l, l, i)
  BY <1>1, Kinds, JoinedParts
<1> HIDE DEF d
<1>3. Reads(8, d, <<0, 3, 7, 4, 1, 2, 6, 5>>, <<2, 1, 2, 1, 1, 2, 1, 2>>)
  BY <1>1, <1>2 DEF Reads, JoinedX, JoinedT, There
<1>4. /\ f \in Lanes(8, 3)
      /\ \A i \in 0..(8 - 1) : /\ Cubie(At(f, i)) = JoinedX(d, l, i)
                               /\ Twist(At(f, i)) = JoinedT(3, d, l, i)
  BY <1>1, <1>2, Kinds, JoinedParts
<1> HIDE DEF f
<1>5. \A i \in 0..(8 - 1) : Cubie(At(f, i)) = i /\ Twist(At(f, i)) = 0
  BY <1>1, <1>3, <1>4 DEF Reads, JoinedX, JoinedT, There
<1>6. f = One(8)
  BY <1>4, <1>5, Kinds, OneParts, LanesAlike
<1> QED
  BY <1>6 DEF f, d, l

LEMMA TurnEdgesOrder ==
  Joined(12, 2, Joined(12, 2, M_U.ev, M_U.ev), Joined(12, 2, M_U.ev, M_U.ev)) = One(12)
<1> DEFINE l == M_U.ev
           d == Joined(12, 2, l, l)
           f == Joined(12, 2, d, d)
<1>1. l \in Lanes(12, 2) /\ Reads(12, l, <<3, 0, 1, 2, 4, 5, 6, 7, 8, 9, 10, 11>>, <<0, 0, 0, 0, 0, 0, 0, 0, 0, 0, 0, 0>>)
  BY TurnEdges
<1> HIDE DEF l
<1>2. /\ d \in Lanes(12, 2)
      /\ \A i \in 0..(12 - 1) : /\ Cubie(At(d, i)) = JoinedX(l, l, i)
                               /\ Twist(At(d, i)) = JoinedT(2, l, l, i)
  BY <1>1, Kinds, JoinedParts
<1> HIDE DEF d
<1>3. Reads(12, d, <<2, 3, 0, 1, 4, 5, 6, 7, 8, 9, 10, 11>>, <<0, 0, 0, 0, 0, 0, 0, 0, 0, 0, 0, 0>>)
  BY <1>1, <1>2 DEF Reads, JoinedX, JoinedT, There
<1>4. /\ f \in Lanes(12, 2)
      /\ \A i \in 0..(12 - 1) : /\ Cubie(At(f, i)) = JoinedX(d, d, i)
                               /\ Twist(At(f, i)) = JoinedT(2, d, d, i)
  BY <1>1, <1>2, Kinds, JoinedParts
<1> HIDE DEF f
<1>5. \A i \in 0..(12 - 1) : Cubie(At(f, i)) = i /\ Twist(At(f, i)) = 0
  BY <1>1, <1>3, <1>4 DEF Reads, JoinedX, JoinedT, There
<1>6. f = One(12)
  BY <1>4, <1>5, Kinds, OneParts, LanesAlike
<1> QED
  BY <1>6 DEF f, d, l

LEMMA TurnCornersOrder ==
  Joined(8, 3, Joined(8, 3, M_U.cv, M_U.cv), Joined(8, 3, M_U.cv, M_U.cv)) = One(8)
<1> DEFINE l == M_U.cv
           d == Joined(8, 3, l, l)
           f == Joined(8, 3, d, d)
<1>1. l \in Lanes(8, 3) /\ Reads(8, l, <<3, 0, 1, 2, 4, 5, 6, 7>>, <<0, 0, 0, 0, 0, 0, 0, 0>>)
  BY TurnCorners
<1> HIDE DEF l
<1>2. /\ d \in Lanes(8, 3)
      /\ \A i \in 0..(8 - 1) : /\ Cubie(At(d, i)) = JoinedX(l, l, i)
                               /\ Twist(At(d, i)) = JoinedT(3, l, l, i)
  BY <1>1, Kinds, JoinedParts
<1> HIDE DEF d
<1>3. Reads(8, d, <<2, 3, 0, 1, 4, 5, 6, 7>>, <<0, 0, 0, 0, 0, 0, 0, 0>>)
  BY <1>1, <1>2 DEF Reads, JoinedX, JoinedT, There
<1>4. /\ f \in Lanes(8, 3)
      /\ \A i \in 0..(8 - 1) : /\ Cubie(At(f, i)) = JoinedX(d, d, i)
                               /\ Twist(At(f, i)) = JoinedT(3, d, d, i)
  BY <1>1, <1>2, Kinds, JoinedParts
<1> HIDE DEF f
<1>5. \A i \in 0..(8 - 1) : Cubie(At(f, i)) = i /\ Twist(At(f, i)) = 0
  BY <1>1, <1>3, <1>4 DEF Reads, JoinedX, JoinedT, There
<1>6. f = One(8)
  BY <1>4, <1>5, Kinds, OneParts, LanesAlike
<1> QED
  BY <1>6 DEF f, d, l

-----------------------------------------------------------------------------
(***************************************************************************)
(* The symmetries that tilt a cube, the faces, and the turns.              *)
(***************************************************************************)
LEMMA Literals == S_URF3 \in Cubes /\ S_U4 \in Cubes /\ M_U \in Cubes
<1>1. /\ S_URF3 = [ev |-> S_URF3.ev, cv |-> S_URF3.cv]
      /\ S_U4 = [ev |-> S_U4.ev, cv |-> S_U4.cv] /\ M_U = [ev |-> M_U.ev, cv |-> M_U.cv]
  BY DEF S_URF3, S_U4, M_U, Literal
<1>2. /\ S_URF3.ev \in Lanes(12, 2) /\ S_U4.ev \in Lanes(12, 2) /\ M_U.ev \in Lanes(12, 2)
      /\ S_URF3.cv \in Lanes(8, 3) /\ S_U4.cv \in Lanes(8, 3) /\ M_U.cv \in Lanes(8, 3)
  BY URF3Edges, URF3Corners, U4Edges, U4Corners, TurnEdges, TurnCorners
<1> QED
  BY <1>1, <1>2 DEF Cubes

(* Three thirds of a turn about a corner are none, so that one the other   *)
(* way is two.                                                             *)
LEMMA URF3Order ==
  /\ (S_URF3 ** S_URF3) ** S_URF3 = Identity
  /\ S_URF3i \in Cubes /\ S_URF3i = S_URF3 ** S_URF3
  /\ S_URF3 ** S_URF3i = Identity /\ S_URF3i ** S_URF3 = Identity
  /\ Invert(S_URF3i) = S_URF3 /\ S_URF3i ** S_URF3i = S_URF3
<1> DEFINE s == S_URF3
           d == s ** s
<1>1. s \in Cubes
  BY Literals
<1>2. d = [ev |-> Joined(12, 2, s.ev, s.ev), cv |-> Joined(8, 3, s.cv, s.cv)] /\ d \in Cubes
  BY <1>1, ComposeIs, Composed
<1>3. d ** s = [ev |-> Joined(12, 2, d.ev, s.ev), cv |-> Joined(8, 3, d.cv, s.cv)]
  BY <1>1, <1>2, ComposeIs
<1>4. d ** s = Identity
  BY <1>2, <1>3, URF3EdgesOrder, URF3CornersOrder, IdentityIs
<1>5. S_URF3i \in Cubes /\ s ** S_URF3i = Identity /\ S_URF3i ** s = Identity
  BY <1>1, Inverted DEF S_URF3i
<1>6. s ** d = Identity
  BY <1>1, <1>4, Associates
<1>7. S_URF3i = d
  BY <1>1, <1>2, <1>6, InverseUnique DEF S_URF3i
<1>8. Invert(S_URF3i) = s
  BY <1>1, InvertTwice DEF S_URF3i
<1>9. S_URF3i ** S_URF3i = s
  <2>1. d ** d = (d ** s) ** s
    BY <1>1, <1>2, Associates
  <2>2. Identity ** s = s
    BY <1>1, Unit
  <2> QED
    BY <1>4, <1>7, <2>1, <2>2
<1> QED
  BY <1>4, <1>5, <1>7, <1>8, <1>9

(* Four quarter turns are none.                                            *)
LEMMA TurnOrder == (M_U ** M_U) ** (M_U ** M_U) = Identity
<1> DEFINE d == M_U ** M_U
<1>1. M_U \in Cubes
  BY Literals
<1>2. d = [ev |-> Joined(12, 2, M_U.ev, M_U.ev), cv |-> Joined(8, 3, M_U.cv, M_U.cv)] /\ d \in Cubes
  BY <1>1, ComposeIs, Composed
<1>3. d ** d = [ev |-> Joined(12, 2, d.ev, d.ev), cv |-> Joined(8, 3, d.cv, d.cv)]
  BY <1>2, ComposeIs
<1> QED
  BY <1>2, <1>3, TurnEdgesOrder, TurnCornersOrder, IdentityIs

LEMMA PowersAre ==
  ASSUME NEW c
  PROVE  /\ At(Powers(c), 0) = Identity /\ At(Powers(c), 1) = c
         /\ At(Powers(c), 2) = c ** c /\ At(Powers(c), 3) = (c ** c) ** c
<1> DEFINE c2 == c ** c
           c3 == c2 ** c
<1>1. Powers(c) = <<Identity, c, c2, c3>>
  BY DEF Powers
<1> HIDE DEF c2, c3
<1>2. At(Powers(c), 0) = Identity /\ At(Powers(c), 1) = c /\ At(Powers(c), 2) = c2 /\ At(Powers(c), 3) = c3
  BY <1>1 DEF At
<1> QED
  BY <1>2 DEF c2, c3

LEMMA PowersType ==
  ASSUME NEW c \in Cubes, NEW k \in 0..3
  PROVE  At(Powers(c), k) \in Cubes
<1>1. k = 0 \/ k = 1 \/ k = 2 \/ k = 3
  OBVIOUS
<1>2. c ** c \in Cubes
  BY Composed
<1>3. (c ** c) ** c \in Cubes
  BY <1>2, Composed
<1> QED
  BY <1>1, <1>2, <1>3, PowersAre, IdentityIs

(* The powers are conjugated like what they are powers of.                 *)
LEMMA ConjPowers ==
  ASSUME NEW x \in Cubes, NEW c \in Cubes, NEW k \in 0..3
  PROVE  Conj(x, At(Powers(c), k)) = At(Powers(Conj(x, c)), k)
<1>1. k = 0 \/ k = 1 \/ k = 2 \/ k = 3
  OBVIOUS
<1>2. c ** c \in Cubes
  BY Composed
<1>3. Conj(x, c ** c) = Conj(x, c) ** Conj(x, c)
  BY ConjProduct
<1>4. Conj(x, (c ** c) ** c) = (Conj(x, c) ** Conj(x, c)) ** Conj(x, c)
  BY <1>2, <1>3, ConjProduct
<1>5. Conj(x, Identity) = Identity
  BY ConjIdentity
<1>6. CASE k = 0
  BY <1>5, <1>6, PowersAre
<1>7. CASE k = 1
  BY <1>7, PowersAre
<1>8. CASE k = 2
  BY <1>3, <1>8, PowersAre
<1>9. CASE k = 3
  BY <1>4, <1>9, PowersAre
<1> QED
  BY <1>1, <1>6, <1>7, <1>8, <1>9

(* So many quarter turns are undone by as many as are left to four.        *)
LEMMA InvertPowers ==
  ASSUME NEW c \in Cubes, (c ** c) ** (c ** c) = Identity, NEW k \in 1..3
  PROVE  Invert(At(Powers(c), k)) = At(Powers(c), 4 - k)
<1> DEFINE d == c ** c
           e == d ** c
<1>1. d \in Cubes /\ e \in Cubes
  BY Composed
<1>2. e ** c = Identity /\ d ** d = Identity
  BY <1>1, Associates
<1>3. c ** e = Identity
  <2>1. c ** (d ** c) = (c ** d) ** c
    BY <1>1, Associates
  <2>2. c ** d = d ** c
    BY Associates
  <2> QED
    BY <1>2, <2>1, <2>2
<1>4. Invert(c) = e /\ Invert(d) = d /\ Invert(e) = c
  BY <1>1, <1>2, <1>3, InverseUnique
<1>5. At(Powers(c), 1) = c /\ At(Powers(c), 2) = d /\ At(Powers(c), 3) = e
  BY PowersAre
<1> HIDE DEF d, e
<1>6. k = 1 \/ k = 2 \/ k = 3
  OBVIOUS
<1> QED
  BY <1>4, <1>5, <1>6

(* The faces before and after a face, about the corner that it touches.    *)
Before(face) == 3 * (face \div 3) + (((face % 3) + 2) % 3)
After(face)  == 3 * (face \div 3) + (((face % 3) + 1) % 3)

LEMMA Neighbours ==
  ASSUME NEW f \in 0..5
  PROVE  /\ f \div 3 \in 0..1 /\ f % 3 \in 0..2 /\ Before(f) \in 0..5 /\ After(f) \in 0..5
         /\ Before(f) \div 3 = f \div 3 /\ Before(f) % 3 = ((f % 3) + 2) % 3
         /\ After(f) \div 3 = f \div 3 /\ After(f) % 3 = ((f % 3) + 1) % 3
<1>1. f = 0 \/ f = 1 \/ f = 2 \/ f = 3 \/ f = 4 \/ f = 5
  OBVIOUS
<1> QED
  BY <1>1 DEF Before, After

LEMMA FaceSymType ==
  ASSUME NEW f \in 0..5
  PROVE  FaceSym(f) \in Cubes
<1>1. S_F2 \in Cubes
  <2>1. S_URF3 ** S_U4 \in Cubes
    BY Literals, Composed
  <2>2. (S_URF3 ** S_U4) ** S_U4 \in Cubes
    BY <2>1, Literals, Composed
  <2> QED
    BY <2>2, URF3Order, Composed DEF S_F2
<1>2. f \div 3 \in 0..3 /\ f % 3 \in 0..3
  OBVIOUS
<1>3. At(Powers(S_F2), f \div 3) \in Cubes /\ At(Powers(S_URF3), f % 3) \in Cubes
  BY <1>1, <1>2, Literals, PowersType
<1> QED
  BY <1>3, Composed DEF FaceSym

(* The face that a tilted cube turns is that before, or after.             *)
LEMMA TiltedFace ==
  ASSUME NEW f \in 0..5
  PROVE  FaceSym(f) ** S_URF3 = FaceSym(After(f)) /\ FaceSym(f) ** S_URF3i = FaceSym(Before(f))
<1> DEFINE p == At(Powers(S_F2), f \div 3)
           q(k) == At(Powers(S_URF3), k)
<1>1. p \in Cubes
  <2>1. S_F2 \in Cubes
    BY Literals, URF3Order, Composed DEF S_F2
  <2>2. f \div 3 \in 0..3
    OBVIOUS
  <2> QED
    BY <2>1, <2>2, PowersType
<1>2. q(0) = Identity /\ q(1) = S_URF3 /\ q(2) = S_URF3 ** S_URF3
  BY PowersAre
<1>3. q(0) \in Cubes /\ q(1) \in Cubes /\ q(2) \in Cubes
  BY <1>2, Literals, IdentityIs, Composed
<1>4. /\ q(0) ** S_URF3 = q(1) /\ q(1) ** S_URF3 = q(2) /\ q(2) ** S_URF3 = q(0)
      /\ q(0) ** S_URF3i = q(2) /\ q(1) ** S_URF3i = q(0) /\ q(2) ** S_URF3i = q(1)
  BY <1>2, Literals, URF3Order, Unit
<1>5. \A k \in 0..2 : q(k) \in Cubes /\ q(k) ** S_URF3 = q((k + 1) % 3) /\ q(k) ** S_URF3i = q((k + 2) % 3)
  <2>1. \A k \in 0..2 : k = 0 \/ k = 1 \/ k = 2
    OBVIOUS
  <2>2. (0 + 1) % 3 = 1 /\ (1 + 1) % 3 = 2 /\ (2 + 1) % 3 = 0 /\ (0 + 2) % 3 = 2 /\ (1 + 2) % 3 = 0 /\ (2 + 2) % 3 = 1
    OBVIOUS
  <2> HIDE DEF q
  <2> QED
    BY <1>3, <1>4, <2>1, <2>2
<1>6. FaceSym(f) = p ** q(f % 3)
  BY DEF FaceSym
<1>7. /\ FaceSym(After(f)) = p ** q(((f % 3) + 1) % 3)
      /\ FaceSym(Before(f)) = p ** q(((f % 3) + 2) % 3)
  BY Neighbours DEF FaceSym
<1> HIDE DEF p, q
<1>8. /\ (p ** q(f % 3)) ** S_URF3 = p ** (q(f % 3) ** S_URF3)
      /\ (p ** q(f % 3)) ** S_URF3i = p ** (q(f % 3) ** S_URF3i)
  BY <1>1, <1>5, Neighbours, Literals, URF3Order, Associates
<1> QED
  BY <1>5, <1>6, <1>7, <1>8, Neighbours

LEMMA QuarterIs ==
  ASSUME NEW f \in 0..5
  PROVE  /\ Quarter(f) = Conj(Invert(FaceSym(f)), M_U) /\ Quarter(f) \in Cubes
         /\ (Quarter(f) ** Quarter(f)) ** (Quarter(f) ** Quarter(f)) = Identity
<1> DEFINE x == Invert(FaceSym(f))
           q == Conj(x, M_U)
<1>1. FaceSym(f) \in Cubes /\ x \in Cubes /\ Invert(x) = FaceSym(f) /\ M_U \in Cubes
  BY FaceSymType, Inverted, InvertTwice, Literals
<1>2. Quarter(f) = q
  BY <1>1 DEF Quarter, Conj
<1>3. M_U ** M_U \in Cubes
  BY <1>1, Composed
<1> HIDE DEF x
<1>4. q \in Cubes /\ Conj(x, M_U ** M_U) = q ** q
  BY <1>1, ConjType, ConjProduct
<1>5. Conj(x, (M_U ** M_U) ** (M_U ** M_U)) = (q ** q) ** (q ** q)
  BY <1>1, <1>3, <1>4, ConjProduct
<1>6. (q ** q) ** (q ** q) = Identity
  BY <1>1, <1>5, TurnOrder, ConjIdentity
<1> QED
  BY <1>2, <1>4, <1>6 DEF x

LEMMA TiltedQuarter ==
  ASSUME NEW f \in 0..5
  PROVE  Conj(S_URF3, Quarter(f)) = Quarter(Before(f)) /\ Conj(S_URF3i, Quarter(f)) = Quarter(After(f))
<1> DEFINE x == FaceSym(f)
<1>1. x \in Cubes /\ Invert(x) \in Cubes /\ M_U \in Cubes /\ S_URF3 \in Cubes /\ S_URF3i \in Cubes
  BY FaceSymType, Inverted, Literals, URF3Order
<1>2. /\ Invert(x ** S_URF3i) = Invert(S_URF3i) ** Invert(x)
      /\ Invert(x ** S_URF3) = Invert(S_URF3) ** Invert(x)
  BY <1>1, InvertProduct
<1>3. Invert(S_URF3i) = S_URF3 /\ Invert(S_URF3) = S_URF3i
  BY URF3Order DEF S_URF3i
<1>4. /\ Invert(FaceSym(Before(f))) = S_URF3 ** Invert(x)
      /\ Invert(FaceSym(After(f))) = S_URF3i ** Invert(x)
  BY <1>2, <1>3, TiltedFace
<1>5. /\ Quarter(f) = Conj(Invert(x), M_U)
      /\ Quarter(Before(f)) = Conj(Invert(FaceSym(Before(f))), M_U)
      /\ Quarter(After(f)) = Conj(Invert(FaceSym(After(f))), M_U)
  BY QuarterIs, Neighbours
<1> HIDE DEF x
<1>6. /\ Conj(S_URF3, Conj(Invert(x), M_U)) = Conj(S_URF3 ** Invert(x), M_U)
      /\ Conj(S_URF3i, Conj(Invert(x), M_U)) = Conj(S_URF3i ** Invert(x), M_U)
  BY <1>1, ConjTwice
<1> QED
  BY <1>4, <1>5, <1>6

-----------------------------------------------------------------------------
(***************************************************************************)
(* The printed table of what a turn is in each view.                       *)
(***************************************************************************)
LEMMA TurnsType ==
  ASSUME NEW m \in Moves
  PROVE  /\ Face(m) \in 0..5 /\ (m % 3) + 1 \in 1..3
         /\ moves[m] = At(Powers(Quarter(Face(m))), (m % 3) + 1) /\ moves[m] \in Cubes
<1>1. Face(m) \in 0..5 /\ (m % 3) + 1 \in 1..3 /\ (m % 3) + 1 \in 0..3
  BY DEF Face, Moves
<1>2. moves[m] = At(Powers(Quarter(Face(m))), (m % 3) + 1)
  BY DEF moves
<1> QED
  BY <1>1, <1>2, QuarterIs, PowersType

(* What the table says: the face before, that after, and the rest of four  *)
(* quarters.                                                               *)
Listed(m, v) == At(move_sym6, m)[v]

LEMMA TableSays ==
  ASSUME NEW m \in Moves
  PROVE  /\ Listed(m, 2) \in Moves /\ Face(Listed(m, 2)) = Before(Face(m)) /\ Listed(m, 2) % 3 = m % 3
         /\ Listed(m, 3) \in Moves /\ Face(Listed(m, 3)) = After(Face(m)) /\ Listed(m, 3) % 3 = m % 3
         /\ Listed(m, 4) \in Moves /\ Face(Listed(m, 4)) = Face(m) /\ Listed(m, 4) % 3 = 2 - (m % 3)
         /\ Listed(m, 5) = Listed(Listed(m, 2), 4) /\ Listed(m, 6) = Listed(Listed(m, 3), 4)
<1>1. \/ m = 0 \/ m = 1 \/ m = 2 \/ m = 3 \/ m = 4 \/ m = 5 \/ m = 6 \/ m = 7 \/ m = 8
      \/ m = 9 \/ m = 10 \/ m = 11 \/ m = 12 \/ m = 13 \/ m = 14 \/ m = 15 \/ m = 16 \/ m = 17
  BY DEF Moves
<1>2. Moves = 0..17
  BY DEF Moves
<1> QED
  BY <1>1, <1>2 DEF Listed, move_sym6, At, Face, Before, After

LEMMA TiltedTurns ==
  ASSUME NEW m \in Moves
  PROVE  /\ Conj(S_URF3, moves[m]) = moves[Listed(m, 2)]
         /\ Conj(S_URF3i, moves[m]) = moves[Listed(m, 3)]
         /\ Invert(moves[m]) = moves[Listed(m, 4)]
<1> DEFINE f == Face(m)
           k == (m % 3) + 1
<1>1. f \in 0..5 /\ k \in 1..3 /\ k \in 0..3 /\ moves[m] = At(Powers(Quarter(f)), k)
  BY TurnsType
<1>2. /\ moves[Listed(m, 2)] = At(Powers(Quarter(Before(f))), k)
      /\ moves[Listed(m, 3)] = At(Powers(Quarter(After(f))), k)
  BY TableSays, TurnsType
<1>3. moves[Listed(m, 4)] = At(Powers(Quarter(f)), 4 - k)
  <2>1. moves[Listed(m, 4)] = At(Powers(Quarter(f)), (2 - (m % 3)) + 1)
    BY TableSays, TurnsType
  <2>2. (2 - (m % 3)) + 1 = 4 - k
    BY <1>1 DEF Moves
  <2> QED
    BY <2>1, <2>2
<1> HIDE DEF f, k
<1>4. S_URF3 \in Cubes /\ S_URF3i \in Cubes /\ Quarter(f) \in Cubes
  BY <1>1, Literals, URF3Order, QuarterIs
<1>5. /\ Conj(S_URF3, At(Powers(Quarter(f)), k)) = At(Powers(Conj(S_URF3, Quarter(f))), k)
      /\ Conj(S_URF3i, At(Powers(Quarter(f)), k)) = At(Powers(Conj(S_URF3i, Quarter(f))), k)
  BY <1>1, <1>4, ConjPowers
<1>6. Invert(At(Powers(Quarter(f)), k)) = At(Powers(Quarter(f)), 4 - k)
  BY <1>1, <1>4, QuarterIs, InvertPowers
<1> QED
  BY <1>1, <1>2, <1>3, <1>5, <1>6, TiltedQuarter

-----------------------------------------------------------------------------
(***************************************************************************)
(* The six views of a cube, and what becomes of them.                      *)
(***************************************************************************)
(* Three views and three more are six.                                     *)
LEMMA Abreast ==
  ASSUME NEW a, NEW b, NEW c, NEW d, NEW e, NEW f
  PROVE  <<a, b, c>> \o <<d, e, f>> = <<a, b, c, d, e, f>>
<1> DEFINE S == {a, b, c, d, e, f}
           s == <<a, b, c>>
           t == <<d, e, f>>
           u == <<a, b, c, d, e, f>>
<1>1. s \in Seq(S) /\ t \in Seq(S) /\ u \in Seq(S) /\ Len(s) = 3 /\ Len(t) = 3 /\ Len(u) = 6
  OBVIOUS
<1>2. /\ s[1] = a /\ s[2] = b /\ s[3] = c /\ t[1] = d /\ t[2] = e /\ t[3] = f
      /\ u[1] = a /\ u[2] = b /\ u[3] = c /\ u[4] = d /\ u[5] = e /\ u[6] = f
  OBVIOUS
<1> HIDE DEF S, s, t, u
<1>3. /\ s \o t \in Seq(S) /\ Len(s \o t) = 6
      /\ \A i \in 1..6 : (s \o t)[i] = IF i <= 3 THEN s[i] ELSE t[i - 3]
  <2>1. /\ s \o t \in Seq(S) /\ Len(s \o t) = Len(s) + Len(t)
        /\ \A i \in 1..(Len(s) + Len(t)) : (s \o t)[i] = IF i <= Len(s) THEN s[i] ELSE t[i - Len(s)]
    <3>1. s \in Seq(S) /\ t \in Seq(S)
      BY <1>1
    <3> QED
      BY <3>1, ConcatProperties, Zenon
  <2>2. Len(s) = 3 /\ Len(t) = 3 /\ Len(s) + Len(t) = 6
    BY <1>1
  <2> QED
    BY <2>1, <2>2
<1>4. \A i \in 1..6 : IF i <= 3 THEN s[i] = u[i] ELSE t[i - 3] = u[i]
  BY <1>2
<1>5. \A i \in 1..6 : (s \o t)[i] = u[i]
  BY <1>3, <1>4
<1>6. s \o t = u
  BY <1>1, <1>3, <1>5, SeqEqual
<1> QED
  BY <1>6 DEF s, t, u

LEMMA ViewsAre ==
  ASSUME NEW c \in Cubes
  PROVE  Cube6(c) = << c, Conj(S_URF3, c), Conj(S_URF3i, c),
                       Invert(c), Conj(S_URF3, Invert(c)), Conj(S_URF3i, Invert(c)) >>
<1> DEFINE c2 == Conj(S_URF3, c)
           c3 == Conj(S_URF3i, c)
           d  == Invert(c)
           d2 == Conj(S_URF3, d)
           d3 == Conj(S_URF3i, d)
<1>1. Invert(S_URF3) = S_URF3i /\ Invert(S_URF3i) = S_URF3
  BY URF3Order DEF S_URF3i
<1>2. Cube6(c) = <<c, c2, c3>> \o <<d, d2, d3>>
  BY <1>1 DEF Cube6, Conj
<1> HIDE DEF c2, c3, d, d2, d3
<1>3. <<c, c2, c3>> \o <<d, d2, d3>> = <<c, c2, c3, d, d2, d3>>
  BY Abreast
<1> QED
  BY <1>2, <1>3 DEF c2, c3, d, d2, d3

(* A turn after the others.                                                *)
LEMMA ViewsTurned ==
  ASSUME NEW c \in Cubes, NEW m \in Moves
  PROVE  Move6(Cube6(c), m) = Cube6(c ** moves[m]) /\ c ** moves[m] \in Cubes
<1> DEFINE t  == moves[m]
           e  == c ** t
           s  == S_URF3
           si == S_URF3i
<1>1. t \in Cubes /\ s \in Cubes /\ si \in Cubes /\ Invert(c) \in Cubes /\ Invert(t) \in Cubes /\ e \in Cubes
  BY TurnsType, Literals, URF3Order, Inverted, Composed
<1>2. Conj(s, e) = Conj(s, c) ** Conj(s, t) /\ Conj(si, e) = Conj(si, c) ** Conj(si, t)
  BY <1>1, ConjProduct
<1>3. Invert(e) = Invert(t) ** Invert(c)
  BY <1>1, InvertProduct
<1>4. /\ Conj(s, Invert(e)) = Conj(s, Invert(t)) ** Conj(s, Invert(c))
      /\ Conj(si, Invert(e)) = Conj(si, Invert(t)) ** Conj(si, Invert(c))
  BY <1>1, <1>3, ConjProduct
<1>5. /\ Conj(s, t) = moves[Listed(m, 2)] /\ Conj(si, t) = moves[Listed(m, 3)]
      /\ Invert(t) = moves[Listed(m, 4)]
  BY TiltedTurns
<1>6. Conj(s, Invert(t)) = moves[Listed(m, 5)] /\ Conj(si, Invert(t)) = moves[Listed(m, 6)]
  <2>1. Conj(s, Invert(t)) = Invert(Conj(s, t)) /\ Conj(si, Invert(t)) = Invert(Conj(si, t))
    BY <1>1, ConjInvert
  <2>2. /\ Invert(moves[Listed(m, 2)]) = moves[Listed(Listed(m, 2), 4)]
        /\ Invert(moves[Listed(m, 3)]) = moves[Listed(Listed(m, 3), 4)]
    BY TableSays, TiltedTurns
  <2> QED
    BY <1>5, <2>1, <2>2, TableSays
<1> DEFINE c2 == Conj(s, c)
           c3 == Conj(si, c)
           d  == Invert(c)
           d2 == Conj(s, d)
           d3 == Conj(si, d)
<1>7. Cube6(c) = <<c, c2, c3, d, d2, d3>>
  BY ViewsAre
<1>8. Cube6(e) = <<e, Conj(s, e), Conj(si, e), Invert(e), Conj(s, Invert(e)), Conj(si, Invert(e))>>
  BY <1>1, ViewsAre
<1>9. Cube6(e) = <<c ** t, c2 ** moves[Listed(m, 2)], c3 ** moves[Listed(m, 3)],
                   moves[Listed(m, 4)] ** d, moves[Listed(m, 5)] ** d2, moves[Listed(m, 6)] ** d3>>
  BY <1>2, <1>3, <1>4, <1>5, <1>6, <1>8
<1> HIDE DEF c2, c3, d, d2, d3, e
<1>10. Move6(<<c, c2, c3, d, d2, d3>>, m)
         = <<c ** t, c2 ** moves[Listed(m, 2)], c3 ** moves[Listed(m, 3)],
             moves[Listed(m, 4)] ** d, moves[Listed(m, 5)] ** d2, moves[Listed(m, 6)] ** d3>>
  BY DEF Move6, Move, Premove, Listed
<1> QED
  BY <1>1, <1>7, <1>9, <1>10 DEF e

(* A turn before the others.                                               *)
LEMMA ViewsPremoved ==
  ASSUME NEW c \in Cubes, NEW m \in Moves
  PROVE  Premove6(Cube6(c), m) = Cube6(moves[m] ** c) /\ moves[m] ** c \in Cubes
<1> DEFINE t  == moves[m]
           e  == t ** c
           s  == S_URF3
           si == S_URF3i
<1>1. t \in Cubes /\ s \in Cubes /\ si \in Cubes /\ Invert(c) \in Cubes /\ Invert(t) \in Cubes /\ e \in Cubes
  BY TurnsType, Literals, URF3Order, Inverted, Composed
<1>2. Conj(s, e) = Conj(s, t) ** Conj(s, c) /\ Conj(si, e) = Conj(si, t) ** Conj(si, c)
  BY <1>1, ConjProduct
<1>3. Invert(e) = Invert(c) ** Invert(t)
  BY <1>1, InvertProduct
<1>4. /\ Conj(s, Invert(e)) = Conj(s, Invert(c)) ** Conj(s, Invert(t))
      /\ Conj(si, Invert(e)) = Conj(si, Invert(c)) ** Conj(si, Invert(t))
  BY <1>1, <1>3, ConjProduct
<1>5. /\ Conj(s, t) = moves[Listed(m, 2)] /\ Conj(si, t) = moves[Listed(m, 3)]
      /\ Invert(t) = moves[Listed(m, 4)]
  BY TiltedTurns
<1>6. Conj(s, Invert(t)) = moves[Listed(m, 5)] /\ Conj(si, Invert(t)) = moves[Listed(m, 6)]
  <2>1. Conj(s, Invert(t)) = Invert(Conj(s, t)) /\ Conj(si, Invert(t)) = Invert(Conj(si, t))
    BY <1>1, ConjInvert
  <2>2. /\ Invert(moves[Listed(m, 2)]) = moves[Listed(Listed(m, 2), 4)]
        /\ Invert(moves[Listed(m, 3)]) = moves[Listed(Listed(m, 3), 4)]
    BY TableSays, TiltedTurns
  <2> QED
    BY <1>5, <2>1, <2>2, TableSays
<1> DEFINE c2 == Conj(s, c)
           c3 == Conj(si, c)
           d  == Invert(c)
           d2 == Conj(s, d)
           d3 == Conj(si, d)
<1>7. Cube6(c) = <<c, c2, c3, d, d2, d3>>
  BY ViewsAre
<1>8. Cube6(e) = <<e, Conj(s, e), Conj(si, e), Invert(e), Conj(s, Invert(e)), Conj(si, Invert(e))>>
  BY <1>1, ViewsAre
<1>9. Cube6(e) = <<t ** c, moves[Listed(m, 2)] ** c2, moves[Listed(m, 3)] ** c3,
                   d ** moves[Listed(m, 4)], d2 ** moves[Listed(m, 5)], d3 ** moves[Listed(m, 6)]>>
  BY <1>2, <1>3, <1>4, <1>5, <1>6, <1>8
<1> HIDE DEF c2, c3, d, d2, d3, e
<1>10. Premove6(<<c, c2, c3, d, d2, d3>>, m)
         = <<t ** c, moves[Listed(m, 2)] ** c2, moves[Listed(m, 3)] ** c3,
             d ** moves[Listed(m, 4)], d2 ** moves[Listed(m, 5)], d3 ** moves[Listed(m, 6)]>>
  BY DEF Premove6, Move, Premove, Listed
<1> QED
  BY <1>1, <1>7, <1>9, <1>10 DEF e

(* A position of the queue after the others.                               *)
LEMMA ViewsComposed ==
  ASSUME NEW c \in Cubes, NEW q \in Cubes
  PROVE  Product6(Cube6(c), Cube6(q)) = Cube6(c ** q) /\ c ** q \in Cubes
<1> DEFINE e  == c ** q
           s  == S_URF3
           si == S_URF3i
           c2 == Conj(s, c)
           c3 == Conj(si, c)
           d  == Invert(c)
           d2 == Conj(s, d)
           d3 == Conj(si, d)
           q2 == Conj(s, q)
           q3 == Conj(si, q)
           r  == Invert(q)
           r2 == Conj(s, r)
           r3 == Conj(si, r)
<1>1. s \in Cubes /\ si \in Cubes /\ d \in Cubes /\ r \in Cubes /\ e \in Cubes
  BY Literals, URF3Order, Inverted, Composed
<1>2. Conj(s, e) = c2 ** q2 /\ Conj(si, e) = c3 ** q3
  BY <1>1, ConjProduct
<1>3. Invert(e) = r ** d
  BY InvertProduct
<1>4. Conj(s, Invert(e)) = r2 ** d2 /\ Conj(si, Invert(e)) = r3 ** d3
  BY <1>1, <1>3, ConjProduct
<1>5. /\ Cube6(c) = <<c, c2, c3, d, d2, d3>> /\ Cube6(q) = <<q, q2, q3, r, r2, r3>>
      /\ Cube6(e) = <<e, Conj(s, e), Conj(si, e), Invert(e), Conj(s, Invert(e)), Conj(si, Invert(e))>>
  BY <1>1, ViewsAre
<1>6. Cube6(e) = <<c ** q, c2 ** q2, c3 ** q3, r ** d, r2 ** d2, r3 ** d3>>
  BY <1>2, <1>3, <1>4, <1>5
<1> HIDE DEF c2, c3, d, d2, d3, q2, q3, r, r2, r3, e
<1>7. Product6(<<c, c2, c3, d, d2, d3>>, <<q, q2, q3, r, r2, r3>>)
        = <<c ** q, c2 ** q2, c3 ** q3, r ** d, r2 ** d2, r3 ** d3>>
  BY DEF Product6
<1> QED
  BY <1>1, <1>5, <1>6, <1>7 DEF e

-----------------------------------------------------------------------------
(***************************************************************************)
(* Letters of Speffz: what is read is a cube, legal or not, after each of  *)
(* them.                                                                   *)
(***************************************************************************)
(* A lane that may name a cubie twice or not at all.                       *)
Filled(N, T) ==
  {l \in [1..N -> Nat] :
     \A i \in 0..(N - 1) : Cubie(At(l, i)) \in 0..(N - 1) /\ Twist(At(l, i)) \in 0..(T - 1)}

LEMMA LaneFilled ==
  ASSUME NEW N, NEW T, NEW l
  PROVE  l \in Lanes(N, T) <=> l \in Filled(N, T) /\ Apart(N, l)
BY DEF Lanes, Filled

(* A byte is put in a place, if there is such a place.                     *)
LEMMA PutAt ==
  ASSUME NEW N, NEW T, Kind(N, T), NEW l \in Filled(N, T), NEW p \in Nat,
         NEW x \in 0..(N - 1), NEW t \in 0..(T - 1)
  PROVE  /\ Put(l, p, Byte(x, t)) \in Filled(N, T)
         /\ \A i \in 0..(N - 1) : At(Put(l, p, Byte(x, t)), i) = IF i = p THEN Byte(x, t) ELSE At(l, i)
         /\ Cubie(Byte(x, t)) = x /\ Twist(Byte(x, t)) = t
<1> DEFINE b == Byte(x, t)
           r == Put(l, p, b)
<1>1. Cubie(b) = x /\ Twist(b) = t /\ b \in Nat
  BY Small, Bytes
<1> HIDE DEF b
<1>2. l \in [1..N -> Nat] /\ Len(l) = N
  BY DEF Filled, Kind
<1>3. r = [i \in 1..N |-> IF i = p + 1 THEN b ELSE l[i]]
  BY <1>2 DEF Put
<1> HIDE DEF r
<1>4. r \in [1..N -> Nat]
  BY <1>1, <1>2, <1>3
<1>5. ASSUME NEW i \in 0..(N - 1) PROVE At(r, i) = IF i = p THEN b ELSE At(l, i)
  <2>1. i + 1 \in 1..N /\ (i + 1 = p + 1 <=> i = p)
    BY DEF Kind
  <2>2. r[i + 1] = IF i + 1 = p + 1 THEN b ELSE l[i + 1]
    BY <1>3, <2>1
  <2> QED
    BY <2>1, <2>2 DEF At
<1>6. ASSUME NEW i \in 0..(N - 1)
      PROVE  Cubie(At(r, i)) \in 0..(N - 1) /\ Twist(At(r, i)) \in 0..(T - 1)
  BY <1>1, <1>5 DEF Filled
<1> QED
  BY <1>1, <1>4, <1>5, <1>6 DEF Filled, b, r

(* A cubie is turned in its place.                                         *)
LEMMA TurningLane ==
  ASSUME NEW N, NEW T, Kind(N, T), NEW l \in Lanes(N, T), NEW p \in 0..(N - 1), NEW n \in Nat
  PROVE  Turning(l, p, n, T) \in Lanes(N, T)
<1> DEFINE x == Cubie(At(l, p))
           t == (Twist(At(l, p)) + n) % T
           r == Put(l, p, Byte(x, t))
<1>1. l \in Filled(N, T) /\ Apart(N, l)
  BY LaneFilled
<1>2. p \in Nat /\ x \in 0..(N - 1) /\ t \in 0..(T - 1)
  <2>1. Twist(At(l, p)) \in 0..(T - 1) /\ x \in 0..(N - 1)
    BY InLane
  <2> QED
    BY <2>1 DEF Kind
<1>3. Turning(l, p, n, T) = r
  BY DEF Turning
<1> HIDE DEF t
<1>4. /\ r \in Filled(N, T) /\ Cubie(Byte(x, t)) = x
      /\ \A i \in 0..(N - 1) : At(r, i) = IF i = p THEN Byte(x, t) ELSE At(l, i)
  BY <1>1, <1>2, PutAt
<1>5. \A i \in 0..(N - 1) : Cubie(At(r, i)) = Cubie(At(l, i))
  BY <1>4
<1>6. Apart(N, r)
  BY <1>1, <1>5 DEF Apart
<1> QED
  BY <1>3, <1>4, <1>6, LaneFilled

(* Two cubies change places.                                               *)
LEMMA SwappingLane ==
  ASSUME NEW N, NEW T, Kind(N, T), NEW l \in Lanes(N, T), NEW p \in 0..(N - 1), NEW q \in 0..(N - 1)
  PROVE  Swapping(l, p, q) \in Lanes(N, T)
<1> DEFINE xp == Cubie(At(l, p))
           tp == Twist(At(l, p))
           xq == Cubie(At(l, q))
           tq == Twist(At(l, q))
           a == Byte(xp, tp)
           b == Byte(xq, tq)
           h == Put(l, p, b)
           r == Put(h, q, a)
<1>1. l \in Filled(N, T) /\ Apart(N, l)
  BY LaneFilled
<1>2. /\ xp \in 0..(N - 1) /\ tp \in 0..(T - 1) /\ At(l, p) = a
      /\ xq \in 0..(N - 1) /\ tq \in 0..(T - 1) /\ At(l, q) = b
  BY InLane
<1> HIDE DEF xp, tp, xq, tq
<1>3. p \in Nat /\ q \in Nat
  BY DEF Kind
<1>4. h \in Filled(N, T) /\ \A i \in 0..(N - 1) : At(h, i) = IF i = p THEN b ELSE At(l, i)
  <2>1. l \in Filled(N, T) /\ p \in Nat /\ xq \in 0..(N - 1) /\ tq \in 0..(T - 1)
    BY <1>1, <1>2, <1>3
  <2> QED
    BY <2>1, PutAt
<1> HIDE DEF h
<1>5. r \in Filled(N, T) /\ \A i \in 0..(N - 1) : At(r, i) = IF i = q THEN a ELSE At(h, i)
  <2>1. h \in Filled(N, T) /\ q \in Nat /\ xp \in 0..(N - 1) /\ tp \in 0..(T - 1)
    BY <1>2, <1>3, <1>4
  <2> QED
    BY <2>1, PutAt
<1>6. Swapping(l, p, q) = r
  BY <1>2 DEF Swapping, h
<1> HIDE DEF r, a, b
<1>7. Apart(N, r)
  <2>1. \A i \in 0..(N - 1) :
          At(r, i) = IF i = q THEN At(l, p) ELSE IF i = p THEN At(l, q) ELSE At(l, i)
    BY <1>2, <1>4, <1>5
  <2> QED
    BY <1>1, <2>1 DEF Apart
<1> QED
  BY <1>5, <1>6, <1>7, LaneFilled

(* The tables of places and orientations.                                  *)
LEMMA StickerTables ==
  ASSUME NEW k \in 0..23
  PROVE  /\ At(c_map, k) \in 0..7 /\ At(e_map, k) \in 0..11
         /\ At(c_ori, k) \in 0..2 /\ At(e_ori, k) \in 0..1
<1>1. At(c_map, k) \in 0..7
  BY DEF c_map, At
<1>2. At(e_map, k) \in 0..11
  BY DEF e_map, At
<1>3. At(c_ori, k) \in 0..2
  BY DEF c_ori, At
<1>4. At(e_ori, k) \in 0..1
  BY DEF e_ori, At
<1> QED
  BY <1>1, <1>2, <1>3, <1>4

LEMMA EdgesKept ==
  ASSUME NEW ev \in Lanes(12, 2), NEW k \in 0..23, NEW b \in 0..23
  PROVE  EdgeInPlace(ev, k, b) \in Lanes(12, 2) /\ EdgeCycle(ev, k, b) \in Lanes(12, 2)
<1> DEFINE p == At(e_map, b)
           q == At(e_map, k)
           n == At(e_ori, k) + At(e_ori, b)
<1>1. p \in 0..(12 - 1) /\ q \in 0..(12 - 1) /\ n \in Nat /\ 1 \in Nat
  BY StickerTables
<1> HIDE DEF p, q, n
<1>2. Turning(ev, p, 1, 2) \in Lanes(12, 2)
  BY <1>1, Kinds, TurningLane
<1>3. Turning(Turning(ev, p, 1, 2), q, 1, 2) \in Lanes(12, 2)
  BY <1>1, <1>2, Kinds, TurningLane
<1>4. Swapping(ev, p, q) \in Lanes(12, 2)
  BY <1>1, Kinds, SwappingLane
<1>5. Turning(Swapping(ev, p, q), p, n, 2) \in Lanes(12, 2)
  BY <1>1, <1>4, Kinds, TurningLane
<1>6. Turning(Turning(Swapping(ev, p, q), p, n, 2), q, n, 2) \in Lanes(12, 2)
  BY <1>1, <1>5, Kinds, TurningLane
<1> QED
  BY <1>3, <1>6 DEF EdgeInPlace, EdgeCycle, p, q, n

LEMMA CornersKept ==
  ASSUME NEW cv \in Lanes(8, 3), NEW k \in 0..23, NEW b \in 0..23
  PROVE  CornerInPlace(cv, k, b) \in Lanes(8, 3) /\ CornerCycle(cv, k, b) \in Lanes(8, 3)
<1> DEFINE p == At(c_map, b)
           q == At(c_map, k)
           o == At(c_ori, k)
           i == 3 - At(c_ori, k)
           n == At(c_ori, k) + 3 - At(c_ori, b)
           m == 6 - n
<1>1. p \in 0..(8 - 1) /\ q \in 0..(8 - 1) /\ o \in Nat /\ i \in Nat /\ n \in Nat /\ m \in Nat
  <2>1. /\ p \in 0..7 /\ q \in 0..7
        /\ At(c_ori, k) \in 0..2 /\ At(c_ori, b) \in 0..2
    BY StickerTables
  <2> HIDE DEF p, q
  <2> QED
    BY <2>1
<1> HIDE DEF p, q, o, i, n, m
<1>2. Turning(cv, p, o, 3) \in Lanes(8, 3)
  BY <1>1, Kinds, TurningLane
<1>3. Turning(Turning(cv, p, o, 3), q, i, 3) \in Lanes(8, 3)
  BY <1>1, <1>2, Kinds, TurningLane
<1>4. Swapping(cv, p, q) \in Lanes(8, 3)
  BY <1>1, Kinds, SwappingLane
<1>5. Turning(Swapping(cv, p, q), q, n, 3) \in Lanes(8, 3)
  BY <1>1, <1>4, Kinds, TurningLane
<1>6. Turning(Turning(Swapping(cv, p, q), q, n, 3), p, m, 3) \in Lanes(8, 3)
  BY <1>1, <1>5, Kinds, TurningLane
<1> QED
  BY <1>3, <1>6 DEF CornerInPlace, CornerCycle, p, q, o, i, n, m

SpeffzReaders == [c : Cubes, parity_ok : BOOLEAN, parse_edges : BOOLEAN]

LEMMA SpeffzStep ==
  ASSUME NEW r \in SpeffzReaders, NEW ch \in Signs, NEW buffers
  PROVE  SpeffzLetter(r, ch, buffers) \in SpeffzReaders
<1> DEFINE k  == ch.k
           eb == Buffer(buffers[2])
           cb == Buffer(buffers[1])
           ev == r.c.ev
           cv == r.c.cv
<1>1. k \in 0..23 /\ eb \in 0..23 /\ cb \in 0..23 /\ ch.case \in {"upper", "lower", "dot", "none"}
  BY DEF Signs, Buffer
<1>2. r.c \in Cubes /\ ev \in Lanes(12, 2) /\ cv \in Lanes(8, 3)
  BY DEF SpeffzReaders, Cubes
<1>3. /\ EdgeInPlace(ev, k, eb) \in Lanes(12, 2) /\ EdgeCycle(ev, k, eb) \in Lanes(12, 2)
      /\ CornerInPlace(cv, k, cb) \in Lanes(8, 3) /\ CornerCycle(cv, k, cb) \in Lanes(8, 3)
  BY <1>1, <1>2, EdgesKept, CornersKept
<1>4. \A l \in Lanes(12, 2) : [r EXCEPT !.c.ev = l] \in SpeffzReaders
  BY DEF SpeffzReaders, Cubes
<1>5. \A l \in Lanes(8, 3) : [r EXCEPT !.c.cv = l] \in SpeffzReaders
  BY DEF SpeffzReaders, Cubes
<1>6. \A l \in Lanes(12, 2) : \A b \in BOOLEAN : [r EXCEPT !.c.ev = l, !.parity_ok = b] \in SpeffzReaders
  BY DEF SpeffzReaders, Cubes
<1>7. \A l \in Lanes(8, 3) : \A b \in BOOLEAN : [r EXCEPT !.c.cv = l, !.parity_ok = b] \in SpeffzReaders
  BY DEF SpeffzReaders, Cubes
<1>8. [r EXCEPT !.parse_edges = TRUE] \in SpeffzReaders
  BY DEF SpeffzReaders
<1>9. SpeffzLetter(r, ch, buffers) \in
        { r, [r EXCEPT !.parse_edges = TRUE],
          [r EXCEPT !.c.ev = EdgeInPlace(ev, k, eb)], [r EXCEPT !.c.cv = CornerInPlace(cv, k, cb)],
          [r EXCEPT !.c.ev = EdgeCycle(ev, k, eb),
                    !.parity_ok = (r.parity_ok # (At(e_map, k) # At(e_map, eb)))],
          [r EXCEPT !.c.cv = CornerCycle(cv, k, cb),
                    !.parity_ok = (r.parity_ok # (At(c_map, k) # At(c_map, cb)))] }
  BY <1>1 DEF SpeffzLetter
<1>10. /\ [r EXCEPT !.c.ev = EdgeInPlace(ev, k, eb)] \in SpeffzReaders
       /\ [r EXCEPT !.c.cv = CornerInPlace(cv, k, cb)] \in SpeffzReaders
       /\ [r EXCEPT !.c.ev = EdgeCycle(ev, k, eb),
                    !.parity_ok = (r.parity_ok # (At(e_map, k) # At(e_map, eb)))] \in SpeffzReaders
       /\ [r EXCEPT !.c.cv = CornerCycle(cv, k, cb),
                    !.parity_ok = (r.parity_ok # (At(c_map, k) # At(c_map, cb)))] \in SpeffzReaders
  BY <1>3, <1>4, <1>5, <1>6, <1>7
<1> QED
  BY <1>8, <1>9, <1>10

-----------------------------------------------------------------------------
(***************************************************************************)
(* Words of Reid's notation: a line that is accepted has named each cubie, *)
(* and then each of them once.                                             *)
(***************************************************************************)
(* An order in which the places are listed.                                *)
Listing(N, order) ==
  /\ order \in Seq(Nat) /\ Len(order) = N + 1
  /\ \A i \in 1..N : order[i] \in 0..(N - 1)
  /\ \A i, j \in 1..N : order[i] = order[j] => i = j

LEMMA Listings == Listing(12, E_MAP) /\ Listing(8, C_MAP)
<1>1. Listing(12, E_MAP)
  <2>1. E_MAP \in Seq(Nat) /\ Len(E_MAP) = 13
    BY DEF E_MAP
  <2>2. \A i \in 1..12 : E_MAP[i] \in 0..11
    BY DEF E_MAP
  <2>3. \A i, j \in 1..12 : E_MAP[i] = E_MAP[j] => i = j
    BY DEF E_MAP
  <2> QED
    BY <2>1, <2>2, <2>3 DEF Listing
<1>2. Listing(8, C_MAP)
  <2>1. C_MAP \in Seq(Nat) /\ Len(C_MAP) = 9
    BY DEF C_MAP
  <2>2. \A i \in 1..8 : C_MAP[i] \in 0..7
    BY DEF C_MAP
  <2>3. \A i, j \in 1..8 : C_MAP[i] = C_MAP[j] => i = j
    BY DEF C_MAP
  <2> QED
    BY <2>1, <2>2, <2>3 DEF Listing
<1> QED
  BY <1>1, <1>2

(* After n words, map is the rest of the order, and every cubie that is    *)
(* not to do any more is in one of the first n places.                     *)
Through(N, l, order, map, todo, n) ==
  /\ map \in Seq(Nat) /\ Len(map) = (N + 1) - n
  /\ \A i \in 1..((N + 1) - n) : map[i] = order[n + i]
  /\ n <= N => \A x \in 0..(N - 1) : x \in todo \/ \E i \in 1..n : Cubie(At(l, order[i])) = x

Entered(N, l, order, map, todo) == \E n \in 0..(N + 1) : Through(N, l, order, map, todo, n)

LEMMA EnteredFirst ==
  ASSUME NEW N, NEW T, Kind(N, T), NEW order, Listing(N, order)
  PROVE  Entered(N, One(N), order, order, 0..(N - 1))
<1>1. Through(N, One(N), order, order, 0..(N - 1), 0)
  BY DEF Through, Listing, Kind
<1>2. 0 \in 0..(N + 1)
  BY DEF Kind
<1> QED
  BY <1>1, <1>2 DEF Entered

LEMMA EnteredNext ==
  ASSUME NEW N, NEW T, Kind(N, T), NEW order, Listing(N, order), NEW l \in Filled(N, T),
         NEW map, NEW todo, Entered(N, l, order, map, todo),
         NEW x \in 0..(N - 1), NEW t \in 0..(T - 1)
  PROVE  /\ Put(l, Slot(map), Byte(x, t)) \in Filled(N, T)
         /\ Entered(N, Put(l, Slot(map), Byte(x, t)), order, Rest(map), SymDiff(todo, {x}))
<1> DEFINE p == Slot(map)
           r == Put(l, p, Byte(x, t))
           rest == Rest(map)
<1>1. PICK n \in 0..(N + 1) : Through(N, l, order, map, todo, n)
  BY DEF Entered
<1>2. map \in Seq(Nat) /\ Len(map) = (N + 1) - n /\ n \in Nat /\ N \in Nat
  BY <1>1, Small DEF Through
<1>3. p \in Nat
  <2>1. CASE map = <<>>
    BY <2>1 DEF Slot
  <2>2. CASE map # <<>>
    BY <1>2, <2>2, HeadTailProperties DEF Slot
  <2> QED
    BY <2>1, <2>2
<1>4. /\ r \in Filled(N, T) /\ Cubie(Byte(x, t)) = x
      /\ \A i \in 0..(N - 1) : At(r, i) = IF i = p THEN Byte(x, t) ELSE At(l, i)
  BY <1>3, PutAt
<1>5. CASE n = N + 1
  <2>1. map = <<>>
    BY <1>2, <1>5, EmptySeq
  <2>2. rest = <<>>
    BY <2>1 DEF Rest
  <2> HIDE DEF rest
  <2>3. Through(N, r, order, rest, SymDiff(todo, {x}), N + 1)
    BY <1>2, <2>2, EmptySeq DEF Through
  <2>4. N + 1 \in 0..(N + 1)
    BY <1>2
  <2> QED
    BY <1>4, <2>3, <2>4 DEF Entered, rest
<1>6. CASE n # N + 1
  <2>1. map # <<>>
    BY <1>2, <1>6, EmptySeq
  <2>2. p = Head(map) /\ rest = Tail(map)
    BY <2>1 DEF Slot, Rest
  <2>3. /\ rest \in Seq(Nat) /\ Len(rest) = Len(map) - 1
        /\ \A i \in 1..Len(rest) : rest[i] = map[i + 1]
    BY <1>2, <2>1, <2>2, HeadTailProperties
  <2>4. p = order[n + 1]
    <3>1. p = map[1]
      BY <1>2, <2>1, <2>2
    <3>2. 1 \in 1..((N + 1) - n)
      BY <1>2, <1>6
    <3> QED
      BY <1>1, <3>1, <3>2 DEF Through
  <2> HIDE DEF rest, p
  <2>5. Len(rest) = (N + 1) - (n + 1)
    BY <1>2, <2>3
  <2>6. ASSUME NEW i \in 1..((N + 1) - (n + 1)) PROVE rest[i] = order[(n + 1) + i]
    <3>1. i \in 1..Len(rest) /\ i + 1 \in 1..((N + 1) - n) /\ n + (i + 1) = (n + 1) + i
      BY <1>2, <2>5
    <3>2. map[i + 1] = order[n + (i + 1)]
      BY <1>1, <3>1 DEF Through
    <3> QED
      BY <2>3, <3>1, <3>2
  <2>7. ASSUME n + 1 <= N, NEW y \in 0..(N - 1)
        PROVE  y \in SymDiff(todo, {x}) \/ \E i \in 1..(n + 1) : Cubie(At(r, order[i])) = y
    <3>1. n + 1 \in 1..N /\ n + 1 \in 1..(n + 1) /\ n <= N
      BY <1>2, <2>7
    <3>2. p \in 0..(N - 1)
      BY <2>4, <3>1 DEF Listing
    <3>3. CASE y = x
      <4>1. Cubie(At(r, order[n + 1])) = y
        BY <1>4, <2>4, <3>2, <3>3
      <4> QED
        BY <3>1, <4>1
    <3>4. CASE y # x /\ y \in todo
      BY <3>4 DEF SymDiff
    <3>5. CASE y # x /\ y \notin todo
      <4>1. PICK i \in 1..n : Cubie(At(l, order[i])) = y
        BY <1>1, <3>1, <3>5 DEF Through
      <4>2. i \in 1..N /\ i # n + 1 /\ i \in 1..(n + 1)
        BY <1>2, <3>1
      <4>3. order[i] # p /\ order[i] \in 0..(N - 1)
        BY <2>4, <3>1, <4>2 DEF Listing
      <4>4. Cubie(At(r, order[i])) = y
        BY <1>4, <4>1, <4>3
      <4> QED
        BY <4>2, <4>4
    <3> QED
      BY <3>3, <3>4, <3>5
  <2>8. Through(N, r, order, rest, SymDiff(todo, {x}), n + 1)
    BY <2>3, <2>5, <2>6, <2>7 DEF Through
  <2>9. n + 1 \in 0..(N + 1)
    BY <1>2, <1>6
  <2> QED
    BY <1>4, <2>8, <2>9 DEF Entered, rest, p
<1> QED
  BY <1>5, <1>6

LEMMA EnteredLast ==
  ASSUME NEW N, NEW T, Kind(N, T), NEW order, Listing(N, order), NEW l \in Filled(N, T),
         Entered(N, l, order, << 15 >>, {})
  PROVE  l \in Lanes(N, T)
<1> DEFINE S == 0..(N - 1)
           f == [i \in S |-> Cubie(At(l, i))]
<1>1. PICK n \in 0..(N + 1) : Through(N, l, order, <<15>>, {}, n)
  BY DEF Entered
<1>2. n = N
  <2>1. Len(<<15>>) = 1
    OBVIOUS
  <2> QED
    BY <1>1, <2>1, Small DEF Through
<1>3. \A x \in S : \E i \in 1..N : Cubie(At(l, order[i])) = x
  BY <1>1, <1>2, Small DEF Through
<1>4. f \in Surjection(S, S)
  <2>1. f \in [S -> S]
    BY DEF Filled
  <2>2. ASSUME NEW x \in S PROVE \E i \in S : f[i] = x
    <3>1. PICK j \in 1..N : Cubie(At(l, order[j])) = x
      BY <1>3
    <3>2. order[j] \in S
      BY DEF Listing
    <3>3. f[order[j]] = x
      BY <3>1, <3>2
    <3> QED
      BY <3>2, <3>3
  <2> QED
    BY <2>1, <2>2 DEF Surjection
<1>5. IsFiniteSet(S)
  <2>1. 0 \in Int /\ N - 1 \in Int
    BY Small
  <2> QED
    BY <2>1, FS_Interval
<1> HIDE DEF f
<1>6. f \in Injection(S, S)
  BY <1>4, <1>5, FS_SurjSameCardinalityImpliesInj
<1>7. \A i, j \in S : f[i] = f[j] => i = j
  BY <1>6 DEF Injection, IsInjective, f
<1>8. \A i \in S : f[i] = Cubie(At(l, i))
  BY DEF f
<1>9. Apart(N, l)
  BY <1>7, <1>8 DEF Apart
<1> QED
  BY <1>9, LaneFilled

ReidReaders ==
  {r \in [c : [ev : Filled(12, 2), cv : Filled(8, 3)], e_map : Seq(Nat), c_map : Seq(Nat),
          edges_todo : SUBSET EdgePlaces, corners_todo : SUBSET CornerPlaces,
          eorient_sum : Nat, corient_sum : Nat] :
     /\ Entered(12, r.c.ev, E_MAP, r.e_map, r.edges_todo)
     /\ Entered(8, r.c.cv, C_MAP, r.c_map, r.corners_todo)}

LEMMA ReidFirst == ReidStart \in ReidReaders
<1>1. Identity = [ev |-> One(12), cv |-> One(8)] /\ One(12) \in Filled(12, 2) /\ One(8) \in Filled(8, 3)
  BY IdentityIs, Kinds, OneParts, LaneFilled
<1>2. /\ Entered(12, One(12), E_MAP, E_MAP, 0..(12 - 1))
      /\ Entered(8, One(8), C_MAP, C_MAP, 0..(8 - 1))
  BY Kinds, Listings, EnteredFirst
<1>3. 0..(12 - 1) = EdgePlaces /\ 0..(8 - 1) = CornerPlaces
  BY DEF EdgePlaces, CornerPlaces
<1>4. E_MAP \in Seq(Nat) /\ C_MAP \in Seq(Nat)
  BY Listings DEF Listing
<1> QED
  BY <1>1, <1>2, <1>3, <1>4 DEF ReidReaders, ReidStart

(* A word names a cubie and an orientation, if it has a reading.           *)
LEMMA EdgeReadings ==
  ASSUME NEW word, Len(word) = 2, NEW p \in Readings(EdgeNames, word)
  PROVE  p[1] \in 0..(12 - 1) /\ p[2] \in 0..(2 - 1)
<1>1. Len(EdgeNames) = 12
  BY DEF EdgeNames
<1> QED
  BY <1>1 DEF Readings

LEMMA CornerReadings ==
  ASSUME NEW word, Len(word) = 3, NEW p \in Readings(CornerNames, word)
  PROVE  p[1] \in 0..(8 - 1) /\ p[2] \in 0..(3 - 1)
<1>1. Len(CornerNames) = 8
  BY DEF CornerNames
<1> QED
  BY <1>1 DEF Readings

LEMMA EdgeEntered ==
  ASSUME NEW r \in ReidReaders, NEW x \in 0..(12 - 1), NEW o \in 0..(2 - 1)
  PROVE  [r EXCEPT !.c.ev = Put(@, Slot(r.e_map), Byte(x, o)),
                   !.e_map = Rest(@),
                   !.edges_todo = SymDiff(@, {x}),
                   !.eorient_sum = @ + o] \in ReidReaders
<1> DEFINE l == Put(r.c.ev, Slot(r.e_map), Byte(x, o))
           map == Rest(r.e_map)
           todo == SymDiff(r.edges_todo, {x})
           sum == r.eorient_sum + o
           n == [r EXCEPT !.c.ev = l, !.e_map = map, !.edges_todo = todo, !.eorient_sum = sum]
<1>1. /\ r.c.ev \in Filled(12, 2) /\ r.c.cv \in Filled(8, 3) /\ r.eorient_sum \in Nat
      /\ r.edges_todo \in SUBSET EdgePlaces
      /\ Entered(12, r.c.ev, E_MAP, r.e_map, r.edges_todo)
      /\ Entered(8, r.c.cv, C_MAP, r.c_map, r.corners_todo)
  BY DEF ReidReaders
<1>2. l \in Filled(12, 2) /\ Entered(12, l, E_MAP, map, todo)
  BY <1>1, Kinds, Listings, EnteredNext
<1>3. map \in Seq(Nat)
  BY <1>2 DEF Entered, Through
<1>4. todo \in SUBSET EdgePlaces /\ sum \in Nat
  BY <1>1 DEF SymDiff, EdgePlaces
<1> HIDE DEF l, map, todo, sum
<1>5. /\ n.c = [ev |-> l, cv |-> r.c.cv] /\ n.e_map = map /\ n.edges_todo = todo
      /\ n.c_map = r.c_map /\ n.corners_todo = r.corners_todo
      /\ n \in [c : [ev : Filled(12, 2), cv : Filled(8, 3)], e_map : Seq(Nat), c_map : Seq(Nat),
                edges_todo : SUBSET EdgePlaces, corners_todo : SUBSET CornerPlaces,
                eorient_sum : Nat, corient_sum : Nat]
  BY <1>2, <1>3, <1>4 DEF ReidReaders
<1>6. n \in ReidReaders
  BY <1>1, <1>2, <1>5 DEF ReidReaders
<1> QED
  BY <1>6 DEF l, map, todo, sum

LEMMA CornerEntered ==
  ASSUME NEW r \in ReidReaders, NEW x \in 0..(8 - 1), NEW o \in 0..(3 - 1)
  PROVE  [r EXCEPT !.c.cv = Put(@, Slot(r.c_map), Byte(x, o)),
                   !.c_map = Rest(@),
                   !.corners_todo = SymDiff(@, {x}),
                   !.corient_sum = @ + o] \in ReidReaders
<1> DEFINE l == Put(r.c.cv, Slot(r.c_map), Byte(x, o))
           map == Rest(r.c_map)
           todo == SymDiff(r.corners_todo, {x})
           sum == r.corient_sum + o
           n == [r EXCEPT !.c.cv = l, !.c_map = map, !.corners_todo = todo, !.corient_sum = sum]
<1>1. /\ r.c.ev \in Filled(12, 2) /\ r.c.cv \in Filled(8, 3) /\ r.corient_sum \in Nat
      /\ r.corners_todo \in SUBSET CornerPlaces
      /\ Entered(12, r.c.ev, E_MAP, r.e_map, r.edges_todo)
      /\ Entered(8, r.c.cv, C_MAP, r.c_map, r.corners_todo)
  BY DEF ReidReaders
<1>2. l \in Filled(8, 3) /\ Entered(8, l, C_MAP, map, todo)
  BY <1>1, Kinds, Listings, EnteredNext
<1>3. map \in Seq(Nat)
  BY <1>2 DEF Entered, Through
<1>4. todo \in SUBSET CornerPlaces /\ sum \in Nat
  BY <1>1 DEF SymDiff, CornerPlaces
<1> HIDE DEF l, map, todo, sum
<1>5. /\ n.c = [ev |-> r.c.ev, cv |-> l] /\ n.c_map = map /\ n.corners_todo = todo
      /\ n.e_map = r.e_map /\ n.edges_todo = r.edges_todo
      /\ n \in [c : [ev : Filled(12, 2), cv : Filled(8, 3)], e_map : Seq(Nat), c_map : Seq(Nat),
                edges_todo : SUBSET EdgePlaces, corners_todo : SUBSET CornerPlaces,
                eorient_sum : Nat, corient_sum : Nat]
  BY <1>2, <1>3, <1>4 DEF ReidReaders
<1>6. n \in ReidReaders
  BY <1>1, <1>2, <1>5 DEF ReidReaders
<1> QED
  BY <1>6 DEF l, map, todo, sum

LEMMA ReidStep ==
  ASSUME NEW r \in ReidReaders, NEW word
  PROVE  ReidWord(r, word) \in ReidReaders
<1> DEFINE readings == IF Len(word) = 2 THEN Readings(EdgeNames, word)
                       ELSE IF Len(word) = 3 THEN Readings(CornerNames, word) ELSE {}
           p == CHOOSE q \in readings : TRUE
           x == p[1]
           o == p[2]
<1>1. CASE readings = {}
  BY <1>1 DEF ReidWord
<1>2. CASE readings # {} /\ Len(word) = 2
  <2>1. x \in 0..(12 - 1) /\ o \in 0..(2 - 1)
    BY <1>2, EdgeReadings
  <2>2. ReidWord(r, word) = [r EXCEPT !.c.ev = Put(@, Slot(r.e_map), Byte(x, o)),
                                      !.e_map = Rest(@),
                                      !.edges_todo = SymDiff(@, {x}),
                                      !.eorient_sum = @ + o]
    BY <1>2 DEF ReidWord
  <2> HIDE DEF x, o
  <2> QED
    BY <2>1, <2>2, EdgeEntered
<1>3. CASE readings # {} /\ Len(word) = 3
  <2>1. x \in 0..(8 - 1) /\ o \in 0..(3 - 1)
    BY <1>3, CornerReadings
  <2>2. ReidWord(r, word) = [r EXCEPT !.c.cv = Put(@, Slot(r.c_map), Byte(x, o)),
                                      !.c_map = Rest(@),
                                      !.corners_todo = SymDiff(@, {x}),
                                      !.corient_sum = @ + o]
    BY <1>3 DEF ReidWord
  <2> HIDE DEF x, o
  <2> QED
    BY <2>1, <2>2, CornerEntered
<1> QED
  BY <1>1, <1>2, <1>3

LEMMA ReidLast ==
  ASSUME NEW r \in ReidReaders
  PROVE  ReidResult(r) \in Cubes
<1>1. CASE ReidAccepts(r)
  <2>1. /\ r.c.ev \in Filled(12, 2) /\ r.c.cv \in Filled(8, 3) /\ r.c = [ev |-> r.c.ev, cv |-> r.c.cv]
        /\ Entered(12, r.c.ev, E_MAP, <<15>>, {}) /\ Entered(8, r.c.cv, C_MAP, <<15>>, {})
    BY <1>1 DEF ReidReaders, ReidAccepts
  <2>2. r.c.ev \in Lanes(12, 2) /\ r.c.cv \in Lanes(8, 3)
    BY <2>1, Kinds, Listings, EnteredLast
  <2> QED
    BY <1>1, <2>1, <2>2 DEF ReidResult, Cubes
<1>2. CASE ~ReidAccepts(r)
  BY <1>2, IdentityIs DEF ReidResult
<1> QED
  BY <1>1, <1>2

-----------------------------------------------------------------------------
(***************************************************************************)
(* Turns that are read from characters, and positions of the queue.        *)
(***************************************************************************)
Characters == [moves : Seq(Moves), face : {None, 0, 3, 6, 9, 12, 15}]

LEMMA CharacterRead ==
  ASSUME NEW acc \in Characters, NEW ch
  PROVE  ReadChar(acc, ch) \in Characters
<1> DEFINE named == {k \in 1..6 : ch \in {Upper[k], Lower[k]}}
<1>1. FaceIn(ch) \in {None, 0, 3, 6, 9, 12, 15}
  <2>1. CASE named = {}
    BY <2>1 DEF FaceIn
  <2>2. CASE named # {}
    <3>1. (CHOOSE k \in named : TRUE) \in named
      BY <2>2
    <3>2. PICK k \in 1..6 : FaceIn(ch) = 3 * (k - 1)
      BY <2>2, <3>1 DEF FaceIn
    <3> QED
      BY <3>2
  <2> QED
    BY <2>1, <2>2
<1>2. AmountIn(ch) \in {0, 1, 2}
  BY DEF AmountIn
<1>3. acc.moves \in Seq(Moves) /\ acc.face \in {None, 0, 3, 6, 9, 12, 15}
  BY DEF Characters
<1>4. CASE acc.face = None
  BY <1>1, <1>3, <1>4 DEF ReadChar, Characters
<1>5. CASE acc.face # None
  <2> DEFINE m == acc.face + IF FaceIn(ch) # None THEN 0 ELSE AmountIn(ch)
  <2>1. m \in Moves
    BY <1>2, <1>3, <1>5 DEF Moves
  <2>2. ReadChar(acc, ch) = [moves |-> Append(acc.moves, m), face |-> FaceIn(ch)]
    BY <1>5 DEF ReadChar
  <2> HIDE DEF m
  <2>3. Append(acc.moves, m) \in Seq(Moves)
    BY <1>3, <2>1
  <2> QED
    BY <1>1, <2>2, <2>3 DEF Characters
<1> QED
  BY <1>4, <1>5

(* What is said to be a turn is one.                                       *)
LEMMA ParseType ==
  ASSUME NEW text \in Seq(STRING)
  PROVE  Parse(text) \in Seq(Moves)
<1> DEFINE N == Len(text)
           base == [moves |-> <<>>, face |-> None]
           next(f, k) == IF k = 0 THEN base ELSE ReadChar(f[k - 1], text[k])
           read == CHOOSE f : f = [k \in 0..N |-> next(f, k)]
           step == [k \in 1..N |-> [acc \in Characters |-> ReadChar(acc, text[k])]]
           end == read[N]
<1>1. N \in Nat /\ base \in Characters
  BY EmptySeq DEF Characters
<1>2. \E f : f = [k \in 0..N |-> next(f, k)]
  <2>1. Steps(Characters, N, step)
    BY CharacterRead DEF Steps
  <2> HIDE DEF step, base
  <2>2. PICK f : Iteration(f, Characters, base, N, step)
    BY <1>1, <2>1, IterationExists
  <2>3. /\ f \in [0..N -> Characters] /\ f[0] = base
        /\ \A k \in 1..N : f[k] = step[k][f[k - 1]]
    BY <2>2 DEF Iteration
  <2>4. ASSUME NEW k \in 0..N PROVE f[k] = next(f, k)
    <3>1. CASE k = 0
      BY <2>3, <3>1
    <3>2. CASE k # 0
      <4>1. k \in 1..N /\ k - 1 \in 0..N
        BY <1>1, <3>2
      <4>2. f[k - 1] \in Characters
        BY <2>3, <4>1
      <4>3. f[k] = ReadChar(f[k - 1], text[k])
        BY <2>3, <4>1, <4>2 DEF step
      <4> QED
        BY <3>2, <4>3
    <3> QED
      BY <3>1, <3>2
  <2>5. f = [k \in 0..N |-> f[k]]
    BY <2>3
  <2> QED
    BY <2>4, <2>5
<1>3. read = [k \in 0..N |-> next(read, k)]
  <2> HIDE DEF next
  <2> QED
    BY <1>2
<1> HIDE DEF read
<1>4. read[0] = base /\ \A k \in 1..N : read[k] = ReadChar(read[k - 1], text[k])
  <2> HIDE DEF base
  <2>1. ASSUME NEW k \in 0..N PROVE read[k] = next(read, k)
    BY <1>3
  <2> QED
    BY <1>1, <2>1
<1>5. \A k \in 0..N : read[k] \in Characters
  <2> DEFINE T == {k \in 0..N : read[k] \in Characters}
  <2>1. 0 \in T
    BY <1>1, <1>4
  <2>2. ASSUME NEW k \in 0..N, k # N, k \in T PROVE k + 1 \in T
    <3>1. k + 1 \in 1..N /\ k + 1 \in 0..N /\ (k + 1) - 1 = k
      BY <1>1, <2>2
    <3>2. read[k + 1] = ReadChar(read[k], text[k + 1])
      BY <1>4, <3>1
    <3> QED
      BY <2>2, <3>1, <3>2, CharacterRead
  <2>3. \A k \in 0..N : k \in T
    <3> HIDE DEF T
    <3> QED
      BY <1>1, <2>1, <2>2, InductionUpTo
  <2> QED
    BY <2>3
<1>6. end.moves \in Seq(Moves) /\ end.face \in {None, 0, 3, 6, 9, 12, 15}
  BY <1>1, <1>5 DEF Characters
<1>7. Parse(text) = IF end.face # None THEN Append(end.moves, end.face) ELSE end.moves
  BY DEF Parse, read
<1> HIDE DEF end
<1>8. end.face # None => end.face \in Moves
  BY <1>6 DEF Moves
<1> QED
  BY <1>6, <1>7, <1>8

(* The views of cubes, of which those of a position of the queue are some. *)
Sixes == {Cube6(c) : c \in Cubes}

LEMMA SixesTurned ==
  ASSUME NEW v \in Sixes, NEW m \in Moves
  PROVE  Move6(v, m) \in Sixes /\ Premove6(v, m) \in Sixes
BY ViewsTurned, ViewsPremoved DEF Sixes

LEMMA SixesComposed ==
  ASSUME NEW v \in Sixes, NEW w \in Sixes
  PROVE  Product6(v, w) \in Sixes
BY ViewsComposed DEF Sixes

LEMMA QueueType ==
  ASSUME NEW seq \in Seq(Moves)
  PROVE  QueueCube(seq) \in Sixes
<1> DEFINE N == Len(seq)
           base == Cube6(Identity)
           next(f, k) == IF k = 0 THEN base ELSE Move6(f[k - 1], seq[k])
           after == CHOOSE f : f = [k \in 0..N |-> next(f, k)]
           step == [k \in 1..N |-> [v \in Sixes |-> Move6(v, seq[k])]]
<1>1. N \in Nat /\ base \in Sixes /\ \A k \in 1..N : seq[k] \in Moves
  BY IdentityIs DEF Sixes
<1>2. QueueCube(seq) = after[N]
  BY DEF QueueCube
<1> HIDE DEF base
<1>3. \E f : f = [k \in 0..N |-> next(f, k)]
  <2>1. Steps(Sixes, N, step)
    BY <1>1, SixesTurned DEF Steps
  <2> HIDE DEF step
  <2>2. PICK f : Iteration(f, Sixes, base, N, step)
    BY <1>1, <2>1, IterationExists
  <2>3. /\ f \in [0..N -> Sixes] /\ f[0] = base
        /\ \A k \in 1..N : f[k] = step[k][f[k - 1]]
    BY <2>2 DEF Iteration
  <2>4. ASSUME NEW k \in 0..N PROVE f[k] = next(f, k)
    <3>1. CASE k = 0
      BY <2>3, <3>1
    <3>2. CASE k # 0
      <4>1. k \in 1..N /\ k - 1 \in 0..N
        BY <1>1, <3>2
      <4>2. f[k - 1] \in Sixes
        BY <2>3, <4>1
      <4>3. f[k] = Move6(f[k - 1], seq[k])
        BY <2>3, <4>1, <4>2 DEF step
      <4> QED
        BY <3>2, <4>3
    <3> QED
      BY <3>1, <3>2
  <2>5. f = [k \in 0..N |-> f[k]]
    BY <2>3
  <2> QED
    BY <2>4, <2>5
<1>4. after = [k \in 0..N |-> next(after, k)]
  <2> HIDE DEF next
  <2> QED
    BY <1>3
<1> HIDE DEF after
<1>5. after[0] = base /\ \A k \in 1..N : after[k] = Move6(after[k - 1], seq[k])
  <2>1. ASSUME NEW k \in 0..N PROVE after[k] = next(after, k)
    BY <1>4
  <2> QED
    BY <1>1, <2>1
<1> DEFINE T == {k \in 0..N : after[k] \in Sixes}
<1>6. 0 \in T
  BY <1>1, <1>5
<1>7. ASSUME NEW k \in 0..N, k # N, k \in T PROVE k + 1 \in T
  <2>1. k + 1 \in 1..N /\ k + 1 \in 0..N /\ (k + 1) - 1 = k
    BY <1>1, <1>7
  <2>2. after[k + 1] = Move6(after[k], seq[k + 1])
    BY <1>5, <2>1
  <2> QED
    BY <1>1, <1>7, <2>1, <2>2, SixesTurned
<1>8. \A k \in 0..N : k \in T
  <2> HIDE DEF T
  <2> QED
    BY <1>1, <1>6, <1>7, InductionUpTo
<1> QED
  BY <1>1, <1>2, <1>8

-----------------------------------------------------------------------------
(***************************************************************************)
(* The views of the search.  They are those of one cube because all that   *)
(* is read, whatever its format, is a cube: only then has it an inverse    *)
(* for the last three views to be views of.                                *)
(***************************************************************************)
MoveReaders == [c : Cubes, moves : Seq(Moves)]

ReadersKept ==
  /\ line \in Lines
  /\ line.format = "moves"  => reader \in MoveReaders
  /\ line.format = "reid"   => reader \in ReidReaders
  /\ line.format = "speffz" => reader \in SpeffzReaders

IInv ==
  /\ taken \in Nat
  /\ cube \in Cubes
  /\ phase = "reading" => ReadersKept
  /\ phase = "search" => views \in Sixes

LEMMA InitIInv == Init => IInv
BY IdentityIs DEF Init, InputInit, IInv

(* Reading a line, in each of the three formats.                           *)
LEMMA ReadLineIInv == IInv /\ ReadLine => IInv'
<1> SUFFICES ASSUME IInv, ReadLine PROVE IInv'
  OBVIOUS
<1>1. /\ line' \in Lines /\ phase' = "reading" /\ taken' = taken /\ cube' = cube
      /\ line'.format \in {"moves", "reid", "speffz"}
      /\ line'.format = "moves" => line'.text \in Seq(STRING)
  BY LineAssumption DEF ReadLine
<1>2. ReadersKept'
  <2>1. CASE line'.format = "moves"
    <3>1. reader' = [c |-> Identity, moves |-> Parse(line'.text)]
      BY <2>1 DEF ReadLine
    <3>2. Parse(line'.text) \in Seq(Moves)
      BY <1>1, <2>1, ParseType
    <3>3. reader' \in MoveReaders
      BY <3>1, <3>2, IdentityIs DEF MoveReaders
    <3> QED
      BY <1>1, <2>1, <3>3 DEF ReadersKept
  <2>2. CASE line'.format = "reid"
    <3>1. reader' = ReidStart
      BY <2>2 DEF ReadLine
    <3> QED
      BY <1>1, <2>2, <3>1, ReidFirst DEF ReadersKept
  <2>3. CASE line'.format = "speffz"
    <3>1. reader' = SpeffzStart
      BY <2>3 DEF ReadLine
    <3>2. reader' \in SpeffzReaders
      BY <3>1, IdentityIs DEF SpeffzStart, SpeffzReaders
    <3> QED
      BY <1>1, <2>3, <3>2 DEF ReadersKept
  <2> QED
    BY <1>1, <2>1, <2>2, <2>3
<1> QED
  BY <1>1, <1>2 DEF IInv

LEMMA ReadMoveIInv == IInv /\ ReadMove => IInv'
<1> SUFFICES ASSUME IInv, ReadMove PROVE IInv'
  OBVIOUS
<1> DEFINE m == reader.moves[taken + 1]
<1>1. /\ phase = "reading" /\ line.format = "moves" /\ taken < Len(reader.moves)
      /\ reader' = [reader EXCEPT !.c = Move(@, m)]
      /\ taken' = taken + 1 /\ phase' = phase /\ line' = line /\ cube' = cube
  BY DEF ReadMove, Reading
<1>2. line \in Lines /\ reader \in MoveReaders /\ taken \in Nat
  BY <1>1 DEF IInv, ReadersKept
<1>3. reader.c \in Cubes /\ reader.moves \in Seq(Moves)
  BY <1>2 DEF MoveReaders
<1>4. m \in Moves
  BY <1>1, <1>2, <1>3
<1> HIDE DEF m
<1>5. Move(reader.c, m) \in Cubes
  BY <1>3, <1>4, TurnsType, Composed DEF Move
<1>6. reader' \in MoveReaders
  BY <1>1, <1>2, <1>5 DEF MoveReaders
<1> QED
  BY <1>1, <1>2, <1>6 DEF IInv, ReadersKept

LEMMA ReadWordIInv == IInv /\ ReadWord => IInv'
<1> SUFFICES ASSUME IInv, ReadWord PROVE IInv'
  OBVIOUS
<1>1. /\ phase = "reading" /\ line.format = "reid"
      /\ reader' = ReidWord(reader, line.text[taken + 1])
      /\ taken' = taken + 1 /\ phase' = phase /\ line' = line /\ cube' = cube
  BY DEF ReadWord, Reading
<1>2. line \in Lines /\ reader \in ReidReaders
  BY <1>1 DEF IInv, ReadersKept
<1>3. reader' \in ReidReaders
  BY <1>1, <1>2, ReidStep
<1> QED
  BY <1>1, <1>2, <1>3 DEF IInv, ReadersKept

LEMMA ReadLetterIInv == IInv /\ ReadLetter => IInv'
<1> SUFFICES ASSUME IInv, ReadLetter PROVE IInv'
  OBVIOUS
<1> DEFINE ch == line.text[taken + 1]
<1>1. /\ phase = "reading" /\ line.format = "speffz" /\ taken < Len(line.text)
      /\ reader' = SpeffzLetter(reader, ch, line.buffers)
      /\ taken' = taken + 1 /\ phase' = phase /\ line' = line /\ cube' = cube
  BY DEF ReadLetter, Reading
<1>2. line \in Lines /\ reader \in SpeffzReaders /\ taken \in Nat
  BY <1>1 DEF IInv, ReadersKept
<1>3. line.text \in Seq(Signs)
  BY <1>1, <1>2, LineAssumption
<1>4. ch \in Signs
  BY <1>1, <1>2, <1>3
<1> HIDE DEF ch
<1>5. reader' \in SpeffzReaders
  BY <1>1, <1>2, <1>4, SpeffzStep
<1> QED
  BY <1>1, <1>2, <1>5 DEF IInv, ReadersKept

LEMMA ReadEndIInv == IInv /\ ReadEnd => IInv'
<1> SUFFICES ASSUME IInv, ReadEnd PROVE IInv'
  OBVIOUS
<1>1. phase = "reading" /\ phase' = "parsed" /\ taken' = taken
  BY DEF ReadEnd
<1>2. ReadersKept /\ line.format \in {"moves", "reid", "speffz"}
  BY <1>1, LineAssumption DEF IInv, ReadersKept
<1>3. cube' \in Cubes
  <2>1. CASE line.format = "moves"
    BY <1>2, <2>1 DEF ReadEnd, ReadersKept, MoveReaders
  <2>2. CASE line.format = "reid"
    BY <1>2, <2>2, ReidLast DEF ReadEnd, ReadersKept
  <2>3. CASE line.format = "speffz"
    <3>1. cube' = SpeffzResult(reader) /\ reader.c \in Cubes
      BY <1>2, <2>3 DEF ReadEnd, ReadersKept, SpeffzReaders
    <3> QED
      BY <3>1, Inverted, IdentityIs DEF SpeffzResult
  <2> QED
    BY <1>2, <2>1, <2>2, <2>3
<1> QED
  BY <1>1, <1>3 DEF IInv

(* The search: what it starts from, and its turns.                         *)
LEMMA SolveIInv == IInv /\ Solve => IInv'
<1> SUFFICES ASSUME IInv, Solve PROVE IInv'
  OBVIOUS
<1>1. phase' = "search" /\ taken' = taken /\ cube' = cube
  BY DEF Solve
<1>2. views' \in Sixes
  BY Inverted DEF Solve, IInv, Sixes
<1> QED
  BY <1>1, <1>2 DEF IInv

LEMMA StepIInv ==
  ASSUME NEW end, NEW seq, IInv, Step(end, seq), views \in Sixes => views' \in Sixes
  PROVE  IInv'
BY DEF Step, inputVars, IInv

LEMMA NextIInv == IInv /\ [Next]_vars => IInv'
<1> SUFFICES ASSUME IInv, [Next]_vars PROVE IInv'
  OBVIOUS
<1>1. CASE Input
  BY <1>1, ReadLineIInv, ReadMoveIInv, ReadWordIInv, ReadLetterIInv, ReadEndIInv DEF Input
<1>2. CASE Solve
  BY <1>2, SolveIInv
<1>3. ASSUME NEW m \in Turns, TurnForward(m) \/ TurnReverse(m) PROVE IInv'
  <2>1. m \in Moves
    BY ViewsAssumption
  <2>2. views \in Sixes => Move6(views, m) \in Sixes /\ Premove6(views, m) \in Sixes
    BY <2>1, SixesTurned
  <2>3. CASE TurnForward(m)
    BY <2>2, <2>3, StepIInv DEF TurnForward
  <2>4. CASE TurnReverse(m)
    BY <2>2, <2>4, StepIInv DEF TurnReverse
  <2> QED
    BY <1>3, <2>3, <2>4
<1>4. ASSUME NEW seq \in Queued, FromQueue(seq) PROVE IInv'
  <2>1. QueueCube(seq) \in Sixes
    BY ViewsAssumption, QueueType
  <2>2. views \in Sixes => Product6(views, QueueCube(seq)) \in Sixes
    BY <2>1, SixesComposed
  <2> QED
    BY <1>4, <2>2, StepIInv DEF FromQueue
<1>5. CASE Done \/ UNCHANGED vars
  BY <1>5 DEF Done, vars, inputVars, IInv, ReadersKept
<1> QED
  BY <1>1, <1>2, <1>3, <1>4, <1>5 DEF Next

LEMMA IInvAgree == IInv => ViewsAgree
<1> SUFFICES ASSUME views \in Sixes PROVE views = Cube6(views[1])
  BY DEF IInv, ViewsAgree
<1>1. PICK c \in Cubes : views = Cube6(c)
  BY DEF Sixes
<1>2. Cube6(c)[1] = c
  BY ViewsAre
<1> QED
  BY <1>1, <1>2

(* What from_moves, from_reid and from_speffz return is a cube, soluble or *)
(* not: each cubie is there once, in one of its orientations.              *)
THEOREM LinesAreCubes == Spec => [](cube \in Cubes)
<1>1. Init => IInv
  BY InitIInv
<1>2. IInv /\ [Next]_vars => IInv'
  BY NextIInv
<1>3. IInv => cube \in Cubes
  BY DEF IInv
<1> QED
  BY <1>1, <1>2, <1>3, PTL DEF Spec

(* Whatever line was read, and whatever turns were made at either end, the *)
(* six views are those of one cube, and the last three those of its        *)
(* inverse: move6, premove6 and the product of a position of the queue     *)
(* never let them come apart.                                              *)
THEOREM ViewsAgreeAlways == Spec => []ViewsAgree
<1>1. Init => IInv
  BY InitIInv
<1>2. IInv /\ [Next]_vars => IInv'
  BY NextIInv
<1>3. IInv => ViewsAgree
  BY IInvAgree
<1> QED
  BY <1>1, <1>2, <1>3, PTL DEF Spec

=============================================================================
