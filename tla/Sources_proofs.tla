--------------------------- MODULE Sources_proofs ---------------------------
(***************************************************************************)
(* Proofs about the three sources of vessel states: the one that follows   *)
(* a track, the one that drifts around a seed and the one that replays a   *)
(* log.  For the last: every log whose offsets never decrease, every step  *)
(* length and every seek position.                                         *)
(***************************************************************************)
EXTENDS TrackSource, DeltaSource, ReplaySource, WellFoundedInduction, TLAPS

-----------------------------------------------------------------------------
(* Every non-empty set of naturals has a least element, and a bounded one  *)
(* a greatest; quotients and remainders.                                   *)
LEMMA LeastNat ==
    ASSUME NEW T \in SUBSET Nat, T # {}
    PROVE  \E m \in T : \A x \in T : m <= x
<1>1. PICK m \in T : \A x \in T : ~ (<<x, m>> \in OpToRel(<, Nat))
  BY WFMin, NatLessThanWellFounded
<1>2. \A x \in T : ~ (x < m)
  BY <1>1 DEF OpToRel
<1> QED BY <1>2

LEMMA GreatestIn ==
    ASSUME NEW n \in Nat, NEW T \in SUBSET (0 .. n), T # {}
    PROVE  \E m \in T : \A x \in T : x <= m
<1> DEFINE U == {n - x : x \in T}
<1>1. U \in SUBSET Nat /\ U # {}
  <2>1. PICK x \in T : TRUE OBVIOUS
  <2>2. n - x \in U BY <2>1
  <2>3. \A y \in T : n - y \in Nat OBVIOUS
  <2> QED BY <2>2, <2>3
<1>2. PICK u \in U : \A v \in U : u <= v
  <2> HIDE DEF U
  <2> QED BY <1>1, LeastNat
<1>3. PICK m \in T : u = n - m BY <1>2
<1>4. ASSUME NEW x \in T PROVE x <= m
  <2>1. n - x \in U OBVIOUS
  <2>2. n - m <= n - x BY <1>2, <1>3, <2>1
  <2> QED BY <2>2
<1> QED BY <1>4

LEMMA DivMod ==
    ASSUME NEW a \in Nat, NEW d \in Nat \ {0}
    PROVE  /\ a = d * (a \div d) + (a % d)
           /\ a % d \in 0 .. d - 1
           /\ a \div d \in Nat
  OBVIOUS

LEMMA ModUnique ==
    ASSUME NEW a \in Nat, NEW d \in Nat \ {0}, NEW q \in Nat,
           NEW r \in 0 .. d - 1, a = d * q + r
    PROVE  a % d = r /\ a \div d = q
  OBVIOUS

LEMMA ModSmall ==
    ASSUME NEW d \in Nat \ {0}, NEW r \in 0 .. d - 1
    PROVE  r % d = r
<1>1. r = d * 0 + r /\ r \in Nat OBVIOUS
<1> QED BY <1>1, ModUnique

LEMMA ModAdd ==
    ASSUME NEW a \in Nat, NEW d \in Nat \ {0}, NEW b \in Nat
    PROVE  ((a % d) + b) % d = (a + b) % d
<1> DEFINE r == a % d
           p == a \div d
           s == (r + b) % d
           q == (r + b) \div d
<1>1. a = d * p + r /\ r \in 0 .. d - 1 /\ p \in Nat BY DivMod
<1> HIDE DEF r, p
<1>2. r + b \in Nat BY <1>1
<1>3. r + b = d * q + s /\ s \in 0 .. d - 1 /\ q \in Nat BY <1>2, DivMod
<1> HIDE DEF s, q
<1>4. a + b = d * (p + q) + s BY <1>1, <1>3
<1>5. a + b \in Nat /\ p + q \in Nat BY <1>1, <1>3
<1>6. (a + b) % d = s BY <1>3, <1>4, <1>5, ModUnique
<1> QED BY <1>6 DEF r, s

-----------------------------------------------------------------------------
(* The two quantities that build_legs carries from leg to leg are well     *)
(* defined, however many legs there are.                                   *)
LEMMA SumsExist ==
    ASSUME NEW n \in Nat, NEW D
    PROVE  \E f : f = [i \in 1 .. n |-> IF i = 1 THEN 0 ELSE f[i - 1] + D[i - 1]]
<1> DEFINE P(m) == \E f : f = [i \in 1 .. m |->
                                 IF i = 1 THEN 0 ELSE f[i - 1] + D[i - 1]]
           Bad == {m \in Nat : ~ P(m)}
<1>1. SUFFICES Bad = {}
  <2>1. P(n)
    <3> HIDE DEF P
    <3> QED BY <1>1
  <2> QED BY <2>1
<1>2. SUFFICES ASSUME Bad # {} PROVE FALSE OBVIOUS
<1>3. PICK m \in Bad : \A x \in Bad : m <= x
  <2>1. Bad \in SUBSET Nat OBVIOUS
  <2> HIDE DEF Bad
  <2> QED BY <1>2, <2>1, LeastNat
<1>4. m # 0
  <2>1. P(0)
    <3> DEFINE f == [i \in 1 .. 0 |-> 0]
    <3>1. f = [i \in 1 .. 0 |-> IF i = 1 THEN 0 ELSE f[i - 1] + D[i - 1]] OBVIOUS
    <3> HIDE DEF f
    <3> QED BY <3>1
  <2> HIDE DEF P
  <2> QED BY <2>1
<1>5. m \in Nat /\ m - 1 \in Nat /\ P(m - 1)
  <2>1. m \in Nat /\ m - 1 \in Nat BY <1>4
  <2>2. m - 1 \notin Bad
    <3> HIDE DEF Bad
    <3> QED BY <1>3, <2>1
  <2> HIDE DEF P
  <2> QED BY <2>1, <2>2
<1>6. PICK f : f = [i \in 1 .. m - 1 |-> IF i = 1 THEN 0 ELSE f[i - 1] + D[i - 1]]
  BY <1>5
<1> DEFINE g == [i \in 1 .. m |-> IF i < m THEN f[i]
                                  ELSE IF m = 1 THEN 0 ELSE f[m - 1] + D[m - 1]]
<1>7. \A i \in 1 .. m : g[i] = IF i = 1 THEN 0 ELSE g[i - 1] + D[i - 1]
  <2> TAKE i \in 1 .. m
  <2>1. CASE i < m
    <3>1. i \in 1 .. m - 1 /\ g[i] = f[i] BY <1>5, <2>1
    <3>2. f[i] = IF i = 1 THEN 0 ELSE f[i - 1] + D[i - 1] BY <1>6, <3>1
    <3>3. i # 1 => i - 1 \in 1 .. m /\ i - 1 < m /\ g[i - 1] = f[i - 1]
      BY <1>5, <2>1
    <3> HIDE DEF g
    <3> QED BY <3>1, <3>2, <3>3
  <2>2. CASE i = m
    <3>1. i # 1 => i - 1 \in 1 .. m /\ i - 1 < m /\ g[i - 1] = f[i - 1]
      BY <1>5, <2>2
    <3>2. g[i] = IF m = 1 THEN 0 ELSE f[m - 1] + D[m - 1] BY <1>5, <2>2
    <3> HIDE DEF g
    <3> QED BY <2>2, <3>1, <3>2
  <2> QED BY <1>5, <2>1, <2>2
<1>8. g = [i \in 1 .. m |-> IF i = 1 THEN 0 ELSE g[i - 1] + D[i - 1]]
  <2>1. g = [i \in 1 .. m |-> g[i]] OBVIOUS
  <2> HIDE DEF g
  <2> QED BY <1>7, <2>1
<1>9. P(m)
  <2> HIDE DEF g
  <2> QED BY <1>8
<1> HIDE DEF P
<1> QED BY <1>9

Carried(f, n, z, K, B) ==
    f = [i \in 0 .. n |-> IF i = 0 THEN z ELSE IF i \in K THEN f[i - 1] ELSE B[i]]

LEMMA LastsExist ==
    ASSUME NEW n \in Int, NEW z, NEW K, NEW B
    PROVE  \E f : Carried(f, n, z, K, B)
<1> USE DEF Carried
<1> DEFINE P(m) == \E f : f = [i \in 0 .. m - 1 |-> IF i = 0 THEN z
                                      ELSE IF i \in K THEN f[i - 1] ELSE B[i]]
           Bad == {m \in Nat : ~ P(m)}
<1>0. P(0)
  <2> DEFINE f == [i \in 0 .. -1 |-> 0]
  <2>1. f = [i \in 0 .. -1 |-> IF i = 0 THEN z
                               ELSE IF i \in K THEN f[i - 1] ELSE B[i]] OBVIOUS
  <2>2. 0 - 1 = -1 OBVIOUS
  <2> HIDE DEF f
  <2> QED BY <2>1, <2>2
<1>1. SUFFICES Bad = {}
  <2>1. CASE n + 1 \in Nat
    <3>1. P(n + 1) BY <1>1, <2>1
    <3>2. (n + 1) - 1 = n OBVIOUS
    <3> QED BY <3>1, <3>2
  <2>2. CASE n + 1 \notin Nat
    <3>1. 0 .. n = 0 .. 0 - 1 BY <2>2
    <3> QED BY <1>0, <3>1
  <2> QED BY <2>1, <2>2
<1>2. SUFFICES ASSUME Bad # {} PROVE FALSE OBVIOUS
<1>3. PICK m \in Bad : \A x \in Bad : m <= x
  <2>1. Bad \in SUBSET Nat OBVIOUS
  <2> HIDE DEF Bad
  <2> QED BY <1>2, <2>1, LeastNat
<1>4. m # 0
  <2> HIDE DEF P
  <2> QED BY <1>0
<1>5. m \in Nat /\ m - 1 \in Nat /\ P(m - 1)
  <2>1. m \in Nat /\ m - 1 \in Nat BY <1>4
  <2>2. m - 1 \notin Bad
    <3> HIDE DEF Bad
    <3> QED BY <1>3, <2>1
  <2> HIDE DEF P
  <2> QED BY <2>1, <2>2
<1> DEFINE l == m - 1
<1>6. PICK f : f = [i \in 0 .. l - 1 |-> IF i = 0 THEN z
                                   ELSE IF i \in K THEN f[i - 1] ELSE B[i]]
  BY <1>5
<1> DEFINE g == [i \in 0 .. l |-> IF i < l THEN f[i]
                                  ELSE IF l = 0 THEN z
                                  ELSE IF l \in K THEN f[l - 1] ELSE B[l]]
<1>l. l \in Nat BY <1>5
<1> HIDE DEF l
<1>7. \A i \in 0 .. l : g[i] = IF i = 0 THEN z
                               ELSE IF i \in K THEN g[i - 1] ELSE B[i]
  <2> TAKE i \in 0 .. l
  <2>1. CASE i < l
    <3>1. i \in 0 .. l - 1 /\ g[i] = f[i] BY <1>l, <2>1
    <3>2. f[i] = IF i = 0 THEN z ELSE IF i \in K THEN f[i - 1] ELSE B[i]
      BY <1>6, <3>1
    <3>3. i # 0 => i - 1 \in 0 .. l /\ i - 1 < l /\ g[i - 1] = f[i - 1]
      BY <1>l, <2>1
    <3> HIDE DEF g
    <3> QED BY <3>1, <3>2, <3>3
  <2>2. CASE i = l
    <3>1. i # 0 => i - 1 \in 0 .. l /\ i - 1 < l /\ g[i - 1] = f[i - 1]
      BY <1>l, <2>2
    <3>2. g[i] = IF l = 0 THEN z ELSE IF l \in K THEN f[l - 1] ELSE B[l]
      BY <1>l, <2>2
    <3> HIDE DEF g
    <3> QED BY <2>2, <3>1, <3>2
  <2> QED BY <1>l, <2>1, <2>2
<1>8. g = [i \in 0 .. l |-> IF i = 0 THEN z ELSE IF i \in K THEN g[i - 1] ELSE B[i]]
  <2>1. g = [i \in 0 .. l |-> g[i]] OBVIOUS
  <2> HIDE DEF g
  <2> QED BY <1>7, <2>1
<1>9. P(m)
  <2> HIDE DEF g
  <2> QED BY <1>8 DEF l
<1> HIDE DEF P
<1> QED BY <1>9

-----------------------------------------------------------------------------
(* The leg table, for any track that may be given.                         *)
Config(c) ==
    /\ c.points \in Seq(TrackPoint)
    /\ c.use_timestamps \in BOOLEAN
    /\ c.speed \in Nat
    /\ c.end \in {"Stop", "Loop"}

LegOf(c, leg, i) ==
    /\ leg.from = c.points[i].place /\ leg.to = c.points[i + 1].place
    /\ leg.from \in Int /\ leg.to \in Int
    /\ leg.length = Distance(leg.from, leg.to)
    /\ leg.duration \in Nat /\ leg.start \in Nat
    /\ leg.length # 0 => leg.bearing = Bearing(leg.from, leg.to)
    /\ Timed(c) => /\ c.points[i].time \in Nat /\ c.points[i + 1].time \in Nat
                   /\ leg.duration = c.points[i + 1].time - c.points[i].time
                   /\ leg.start = c.points[i].time - c.points[1].time

LegTable(c, ls) ==
    /\ Len(ls) = IF c.points = <<>> THEN 0 ELSE Len(c.points) - 1
    /\ Len(ls) \in Nat
    /\ DOMAIN ls = 1 .. Len(ls)
    /\ ls = <<>> <=> Len(ls) = 0
    /\ Len(ls) > 0 => ls[1].start = 0
    /\ \A i \in 1 .. Len(ls) - 1 : ls[i + 1].start = ls[i].start + ls[i].duration
    /\ \A i \in 1 .. Len(ls) : LegOf(c, ls[i], i)

LEMMA PointFacts ==
    ASSUME NEW c, Config(c)
    PROVE  /\ Len(c.points) \in Nat
           /\ DOMAIN c.points = 1 .. Len(c.points)
           /\ \A i \in 1 .. Len(c.points) :
                /\ c.points[i].place \in Int
                /\ c.points[i].speed \in Nat \cup {None}
                /\ c.points[i].time \in Nat \cup {None}
           /\ c.points = <<>> <=> Len(c.points) = 0
           /\ Timed(c) => /\ Len(c.points) >= 2
                          /\ \A i \in 1 .. Len(c.points) : c.points[i].time \in Nat
                          /\ \A i \in 1 .. Len(c.points) - 1 :
                                c.points[i].time <= c.points[i + 1].time
<1> DEFINE n == Len(c.points)
<1>1. /\ n \in Nat /\ DOMAIN c.points = 1 .. n /\ (c.points = <<>> <=> n = 0)
      /\ \A i \in 1 .. n : c.points[i] \in TrackPoint
  BY DEF Config
<1> HIDE DEF n
<1>2. \A i \in 1 .. n : /\ c.points[i].place \in Int
                        /\ c.points[i].speed \in Nat \cup {None}
                        /\ c.points[i].time \in Nat \cup {None}
  BY <1>1 DEF TrackPoint
<1>3. ASSUME Timed(c)
      PROVE  /\ n >= 2
             /\ \A i \in 1 .. n : c.points[i].time \in Nat
             /\ \A i \in 1 .. n - 1 : c.points[i].time <= c.points[i + 1].time
  <2>1. /\ n >= 2
        /\ \A i \in 1 .. n : c.points[i].time # None
        /\ \A i \in 2 .. n : c.points[i - 1].time <= c.points[i].time
    BY <1>1, <1>3 DEF Timed, HasTimestamps, n
  <2>2. \A i \in 1 .. n : c.points[i].time \in Nat BY <1>2, <2>1
  <2>3. ASSUME NEW i \in 1 .. n - 1
        PROVE  c.points[i].time <= c.points[i + 1].time
    <3>1. i + 1 \in 2 .. n /\ (i + 1) - 1 = i BY <1>1
    <3> QED BY <2>1, <3>1
  <2> QED BY <2>1, <2>2, <2>3
<1> QED BY <1>1, <1>2, <1>3 DEF n

LEMMA DurationType ==
    ASSUME TrackAssumption, NEW c, Config(c), NEW i \in 1 .. Len(c.points) - 1
    PROVE  LegDuration(c, i) \in Nat /\ LegLength(c, i) \in Nat
<1>1. /\ Len(c.points) \in Nat /\ i \in 1 .. Len(c.points)
      /\ i + 1 \in 1 .. Len(c.points)
  BY PointFacts
<1>2. LegLength(c, i) \in Nat
  BY <1>1, PointFacts DEF LegLength, Distance, Higher
<1>3. CASE Timed(c)
  <2>1. /\ c.points[i].time \in Nat /\ c.points[i + 1].time \in Nat
        /\ c.points[i].time <= c.points[i + 1].time
    BY <1>1, <1>3, PointFacts
  <2> QED BY <1>2, <1>3, <2>1 DEF LegDuration
<1>4. CASE ~ Timed(c)
  <2>1. LegSailed(c, i) \in Nat \ {0}
    BY <1>1, PointFacts DEF LegSailed, Higher, Or, TrackAssumption, Config
  <2>2. LegLength(c, i) \div LegSailed(c, i) \in Nat BY <1>2, <2>1, DivMod
  <2> QED BY <1>2, <1>4, <2>2 DEF LegDuration
<1> QED BY <1>3, <1>4

LEMMA StartFacts ==
    ASSUME TrackAssumption, NEW c, Config(c)
    PROVE  \A i \in 1 .. Len(c.points) :
             /\ LegStarts(c)[i] = IF i = 1 THEN 0
                                  ELSE LegStarts(c)[i - 1] + LegDuration(c, i - 1)
             /\ LegStarts(c)[i] \in Nat
<1> DEFINE n == Len(c.points)
           D == [i \in 0 .. n |-> LegDuration(c, i)]
           s == LegStarts(c)
<1>0. n \in Nat BY PointFacts
<1>1. \E f : f = [i \in 1 .. n |-> IF i = 1 THEN 0 ELSE f[i - 1] + LegDuration(c, i - 1)]
  <2>1. PICK f : f = [i \in 1 .. n |-> IF i = 1 THEN 0 ELSE f[i - 1] + D[i - 1]]
    <3> HIDE DEF D, n
    <3> QED BY <1>0, SumsExist
  <2>2. \A i \in 1 .. n : D[i - 1] = LegDuration(c, i - 1) BY <1>0
  <2> HIDE DEF D, n
  <2> QED BY <2>1, <2>2
<1>2. s = [i \in 1 .. n |-> IF i = 1 THEN 0 ELSE s[i - 1] + LegDuration(c, i - 1)]
  BY <1>1 DEF LegStarts
<1> HIDE DEF s, n
<1>3. \A i \in 1 .. n : s[i] = IF i = 1 THEN 0 ELSE s[i - 1] + LegDuration(c, i - 1)
  BY <1>2
<1> DEFINE Bad == {i \in 1 .. n : s[i] \notin Nat}
<1>4. Bad = {}
  <2> SUFFICES ASSUME Bad # {} PROVE FALSE OBVIOUS
  <2>1. PICK i \in Bad : \A x \in Bad : i <= x
    <3>1. Bad \in SUBSET Nat OBVIOUS
    <3> HIDE DEF Bad
    <3> QED BY <3>1, LeastNat
  <2>2. i \in 1 .. n /\ i # 1 BY <1>3
  <2>3. i - 1 \in 1 .. n /\ i - 1 < i BY <1>0, <2>2
  <2>4. s[i - 1] \in Nat BY <2>1, <2>3
  <2>5. LegDuration(c, i - 1) \in Nat
    <3>1. i - 1 \in 1 .. Len(c.points) - 1 BY <1>0, <2>2 DEF n
    <3> QED BY <3>1, DurationType
  <2>6. s[i] \in Nat BY <1>3, <2>2, <2>4, <2>5
  <2> QED BY <2>6
<1> QED BY <1>3, <1>4 DEF s, n

LEMMA BearingFacts ==
    ASSUME NEW c, Config(c), NEW i \in 1 .. Len(c.points) - 1, LegLength(c, i) # 0
    PROVE  LegBearings(c)[i] = Bearing(c.points[i].place, c.points[i + 1].place)
<1> DEFINE n == Len(c.points) - 1
           z == Or(c.points[1].course, 0)
           K == {j \in 0 .. n : LegLength(c, j) = 0}
           B == [j \in 0 .. n |-> Bearing(c.points[j].place, c.points[j + 1].place)]
           b == LegBearings(c)
<1>0. n \in Int BY PointFacts
<1>1. \E f : f = [j \in 0 .. n |->
                    IF j = 0 THEN z ELSE IF LegLength(c, j) = 0 THEN f[j - 1]
                    ELSE Bearing(c.points[j].place, c.points[j + 1].place)]
  <2>1. PICK f : f = [j \in 0 .. n |-> IF j = 0 THEN z
                                       ELSE IF j \in K THEN f[j - 1] ELSE B[j]]
    <3> HIDE DEF K, B, n, z
    <3>1. PICK f : Carried(f, n, z, K, B) BY <1>0, LastsExist, Zenon
    <3> QED BY <3>1 DEF Carried
  <2>2. \A j \in 0 .. n :
          /\ j \in K <=> LegLength(c, j) = 0
          /\ B[j] = Bearing(c.points[j].place, c.points[j + 1].place)
    OBVIOUS
  <2> HIDE DEF K, B, n, z
  <2> QED BY <2>1, <2>2
<1>2. b = [j \in 0 .. n |->
             IF j = 0 THEN z ELSE IF LegLength(c, j) = 0 THEN b[j - 1]
             ELSE Bearing(c.points[j].place, c.points[j + 1].place)]
  BY <1>1 DEF LegBearings
<1>3. i \in 0 .. n /\ i # 0 BY <1>0
<1> HIDE DEF b, n
<1>4. b[i] = Bearing(c.points[i].place, c.points[i + 1].place) BY <1>2, <1>3
<1> QED BY <1>4 DEF b

(* build_legs makes such a table of every track.                           *)
LEMMA LegsTable ==
    ASSUME TrackAssumption, NEW c, Config(c)
    PROVE  LegTable(c, Legs(c))
<1> DEFINE n == Len(c.points) - 1
           ls == Legs(c)
           starts == LegStarts(c)
           times(i) == c.points[i].time
<1>1. /\ Len(c.points) \in Nat
      /\ c.points = <<>> <=> Len(c.points) = 0
      /\ \A i \in 1 .. Len(c.points) : c.points[i].place \in Int
      /\ Timed(c) => \A i \in 1 .. Len(c.points) : times(i) \in Nat
  BY PointFacts
<1>2. /\ ls = [i \in 1 .. n |-> ls[i]]
      /\ \A i \in 1 .. n :
           /\ ls[i].from = c.points[i].place /\ ls[i].to = c.points[i + 1].place
           /\ ls[i].length = LegLength(c, i) /\ ls[i].duration = LegDuration(c, i)
           /\ ls[i].start = starts[i] /\ ls[i].bearing = LegBearings(c)[i]
  BY DEF Legs
<1> HIDE DEF ls
<1>3. /\ Len(ls) = IF c.points = <<>> THEN 0 ELSE n
      /\ Len(ls) \in Nat /\ DOMAIN ls = 1 .. Len(ls)
      /\ ls = <<>> <=> Len(ls) = 0
      /\ 1 .. Len(ls) = 1 .. n
  <2>1. CASE c.points = <<>>
    <3>1. 1 .. n = 1 .. 0 BY <1>1, <2>1
    <3>2. ls = <<>> BY <1>2, <3>1
    <3> QED BY <2>1, <3>1, <3>2
  <2>2. CASE c.points # <<>>
    <3>1. n \in Nat BY <1>1, <2>2
    <3> HIDE DEF n
    <3>2. Len(ls) = n /\ DOMAIN ls = 1 .. n BY <1>2, <3>1
    <3>3. ls = <<>> <=> n = 0
      <4>1. n = 0 => ls = <<>> BY <1>2
      <4>2. ls = <<>> => n = 0 BY <3>2
      <4> QED BY <4>1, <4>2
    <3> QED BY <2>2, <3>1, <3>2, <3>3
  <2> QED BY <2>1, <2>2
<1>4. \A i \in 1 .. Len(c.points) :
        /\ starts[i] = IF i = 1 THEN 0 ELSE starts[i - 1] + LegDuration(c, i - 1)
        /\ starts[i] \in Nat
  BY StartFacts
<1> HIDE DEF starts
<1>5. Len(ls) > 0 => ls[1].start = 0
  <2> SUFFICES ASSUME Len(ls) > 0 PROVE ls[1].start = 0 OBVIOUS
  <2>1. 1 \in 1 .. n /\ 1 \in 1 .. Len(c.points) BY <1>1, <1>3
  <2> QED BY <1>2, <1>4, <2>1
<1>6. ASSUME NEW i \in 1 .. Len(ls) - 1
      PROVE  ls[i + 1].start = ls[i].start + ls[i].duration
  <2>1. i \in 1 .. n /\ i + 1 \in 1 .. n /\ i + 1 \in 1 .. Len(c.points)
        /\ i + 1 # 1 /\ (i + 1) - 1 = i
    BY <1>1, <1>3
  <2>2. starts[i + 1] = starts[i] + LegDuration(c, i)
    <3>1. starts[i + 1] = starts[(i + 1) - 1] + LegDuration(c, (i + 1) - 1)
      BY <1>4, <2>1
    <3>2. (i + 1) - 1 = i BY <2>1
    <3> QED BY <3>1, <3>2
  <2>3. /\ ls[i + 1].start = starts[i + 1] /\ ls[i].start = starts[i]
        /\ ls[i].duration = LegDuration(c, i)
    <3> HIDE DEF n
    <3> QED BY <1>2, <2>1
  <2> QED BY <2>2, <2>3
<1>7. Timed(c) => \A i \in 1 .. Len(c.points) : starts[i] = times(i) - times(1)
  <2> SUFFICES ASSUME Timed(c)
               PROVE  \A i \in 1 .. Len(c.points) : starts[i] = times(i) - times(1)
    OBVIOUS
  <2> DEFINE Bad == {i \in 1 .. Len(c.points) : starts[i] # times(i) - times(1)}
  <2> SUFFICES ASSUME Bad # {} PROVE FALSE OBVIOUS
  <2>1. PICK i \in Bad : \A x \in Bad : i <= x
    <3>1. Bad \in SUBSET Nat BY <1>1
    <3> HIDE DEF Bad
    <3> QED BY <3>1, LeastNat
  <2>t. \A j \in 1 .. Len(c.points) : times(j) \in Nat BY <1>1
  <2>2. i \in 1 .. Len(c.points) /\ i # 1
    <3>1. i \in 1 .. Len(c.points) /\ starts[i] # times(i) - times(1) OBVIOUS
    <3>2. ASSUME i = 1 PROVE FALSE
      <4>1. starts[1] = 0 /\ times(1) \in Nat BY <1>4, <2>t, <3>1, <3>2
      <4> HIDE DEF times
      <4> QED BY <3>1, <3>2, <4>1
    <3> QED BY <3>1, <3>2
  <2>3. i - 1 \in 1 .. Len(c.points) /\ i - 1 < i /\ (i - 1) + 1 = i
        /\ i - 1 \in 1 .. n
    BY <1>1, <2>2
  <2>4. starts[i - 1] = times(i - 1) - times(1)
    <3>1. i - 1 \notin Bad
      <4> HIDE DEF Bad
      <4> QED BY <2>1, <2>3
    <3> QED BY <2>3, <3>1
  <2>5. LegDuration(c, i - 1) = times(i) - times(i - 1)
    BY <2>3 DEF LegDuration
  <2>6. starts[i] = starts[i - 1] + LegDuration(c, i - 1) BY <1>4, <2>2
  <2>7. starts[i] # times(i) - times(1) OBVIOUS
  <2>8. times(i) \in Nat /\ times(i - 1) \in Nat /\ times(1) \in Nat
    <3>1. 1 \in 1 .. Len(c.points) BY <1>1, <2>2
    <3> QED BY <2>t, <2>2, <2>3, <3>1
  <2> HIDE DEF times, Bad
  <2> QED BY <2>4, <2>5, <2>6, <2>7, <2>8
<1>8. ASSUME NEW i \in 1 .. Len(ls) PROVE LegOf(c, ls[i], i)
  <2>1. /\ i \in 1 .. n /\ i \in 1 .. Len(c.points) /\ i + 1 \in 1 .. Len(c.points)
    BY <1>1, <1>3
  <2>2. /\ ls[i].from = c.points[i].place /\ ls[i].to = c.points[i + 1].place
        /\ ls[i].length = LegLength(c, i) /\ ls[i].duration = LegDuration(c, i)
        /\ ls[i].start = starts[i] /\ ls[i].bearing = LegBearings(c)[i]
    BY <1>2, <2>1
  <2>3. LegDuration(c, i) \in Nat /\ starts[i] \in Nat BY <1>4, <2>1, DurationType
  <2>4. LegLength(c, i) # 0 =>
          LegBearings(c)[i] = Bearing(c.points[i].place, c.points[i + 1].place)
    BY <2>1, BearingFacts
  <2>5. c.points[i].place \in Int /\ c.points[i + 1].place \in Int BY <1>1, <2>1
  <2>6. Timed(c) => /\ c.points[i].time \in Nat /\ c.points[i + 1].time \in Nat
                    /\ LegDuration(c, i) = c.points[i + 1].time - c.points[i].time
                    /\ starts[i] = c.points[i].time - c.points[1].time
    BY <1>1, <1>7, <2>1 DEF LegDuration
  <2> HIDE DEF n, times
  <2> QED BY <2>2, <2>3, <2>4, <2>5, <2>6 DEF LegOf, LegLength
<1> QED BY <1>3, <1>5, <1>6, <1>8 DEF LegTable, ls

(* The table does not depend on the destination.                           *)
LEMMA TableKept ==
    ASSUME NEW c, NEW d, NEW ls, LegTable(c, ls),
           d.points = c.points, d.use_timestamps = c.use_timestamps
    PROVE  LegTable(d, ls)
<1>1. Timed(d) <=> Timed(c) BY DEF Timed
<1>2. ASSUME NEW i \in 1 .. Len(ls) PROVE LegOf(d, ls[i], i)
  <2>1. LegOf(c, ls[i], i) BY DEF LegTable
  <2> QED BY <1>1, <2>1 DEF LegOf
<1> QED BY <1>2 DEF LegTable

(* Legs start in order and end within the track.                           *)
LEMMA TotalFacts ==
    ASSUME NEW c, NEW ls, LegTable(c, ls)
    PROVE  /\ TotalOf(ls) \in Nat
           /\ \A i \in 1 .. Len(ls) :
                /\ ls[i].start \in Nat /\ ls[i].duration \in Nat
                /\ ls[i].start + ls[i].duration <= TotalOf(ls)
           /\ Len(ls) > 0 =>
                TotalOf(ls) = ls[Len(ls)].start + ls[Len(ls)].duration
<1> DEFINE n == Len(ls)
           Ends(i) == ls[i].start + ls[i].duration
<1>1. /\ n \in Nat /\ (ls = <<>> <=> n = 0)
      /\ \A i \in 1 .. n : ls[i].start \in Nat /\ ls[i].duration \in Nat
      /\ \A i \in 1 .. n - 1 : ls[i + 1].start = Ends(i)
  BY DEF LegTable, LegOf
<1>2. TotalOf(ls) = IF n = 0 THEN 0 ELSE Ends(n) BY <1>1 DEF TotalOf
<1> HIDE DEF n
<1>3. \A i \in 1 .. n : Ends(i) \in Nat BY <1>1
<1>4. TotalOf(ls) \in Nat BY <1>1, <1>2, <1>3
<1> DEFINE Bad == {k \in 0 .. n - 1 : ~ (Ends(n - k) <= TotalOf(ls))}
<1>5. Bad = {}
  <2> SUFFICES ASSUME Bad # {} PROVE FALSE OBVIOUS
  <2>1. PICK k \in Bad : \A x \in Bad : k <= x
    <3>1. Bad \in SUBSET Nat BY <1>1
    <3> HIDE DEF Bad
    <3> QED BY <3>1, LeastNat
  <2>2. k \in 0 .. n - 1 /\ ~ (Ends(n - k) <= TotalOf(ls)) OBVIOUS
  <2>3. k # 0
    <3> SUFFICES ASSUME k = 0 PROVE FALSE OBVIOUS
    <3>1. n - k = n BY <1>1
    <3>2. TotalOf(ls) = Ends(n) BY <1>1, <1>2, <2>2
    <3> HIDE DEF Ends
    <3> QED BY <1>4, <2>2, <3>1, <3>2
  <2>4. k - 1 \in 0 .. n - 1 /\ k - 1 < k /\ n - k \in 1 .. n - 1
        /\ n - (k - 1) = (n - k) + 1 /\ n - k \in 1 .. n /\ (n - k) + 1 \in 1 .. n
    BY <1>1, <2>2, <2>3
  <2>5. Ends(n - (k - 1)) <= TotalOf(ls)
    <3>1. k - 1 \notin Bad
      <4> HIDE DEF Bad
      <4>1. k \in Nat BY <1>1, <2>2
      <4> QED BY <2>1, <2>4, <4>1
    <3> QED BY <2>4, <3>1
  <2>6. PICK i \in 1 .. n - 1 : i = n - k BY <2>4
  <2>7. i \in 1 .. n /\ i + 1 \in 1 .. n BY <1>1
  <2>8. Ends(i) <= Ends(i + 1)
    <3>1. ls[i + 1].start = Ends(i) BY <1>1
    <3>2. ls[i + 1].start \in Nat /\ ls[i + 1].duration \in Nat BY <1>1, <2>7
    <3> QED BY <3>1, <3>2
  <2>9. Ends(i + 1) <= TotalOf(ls) /\ ~ (Ends(i) <= TotalOf(ls))
    BY <2>2, <2>4, <2>5, <2>6
  <2>10. Ends(i) \in Nat /\ Ends(i + 1) \in Nat BY <1>3, <2>7
  <2> HIDE DEF Ends
  <2> QED BY <1>4, <2>8, <2>9, <2>10
<1>6. ASSUME NEW i \in 1 .. n PROVE Ends(i) <= TotalOf(ls)
  <2>1. n - i \in 0 .. n - 1 /\ n - (n - i) = i BY <1>1
  <2> HIDE DEF Ends
  <2> QED BY <1>5, <2>1
<1>7. \A i \in 1 .. n : ls[i].start + ls[i].duration <= TotalOf(ls) BY <1>6
<1>8. n > 0 => TotalOf(ls) = ls[n].start + ls[n].duration BY <1>1, <1>2
<1> HIDE DEF Ends
<1> QED BY <1>1, <1>4, <1>7, <1>8 DEF n

(* leg_at finds a leg, and the last one at the end of the track.           *)
LEMMA LegAtFacts ==
    ASSUME NEW c, NEW ls, LegTable(c, ls), Len(ls) > 0,
           NEW t \in 0 .. TotalOf(ls)
    PROVE  /\ LegAt(ls, t) \in 1 .. Len(ls)
           /\ ls[LegAt(ls, t)].start <= t
           /\ t <= ls[LegAt(ls, t)].start + ls[LegAt(ls, t)].duration
           /\ t = TotalOf(ls) => LegAt(ls, t) = Len(ls)
<1> DEFINE n == Len(ls)
           Fits(i) == /\ i > 1 => ls[i].start <= t
                      /\ i < n => t < ls[i + 1].start
           i == LegAt(ls, t)
<1>1. /\ n \in Nat \ {0} /\ DOMAIN ls = 1 .. n /\ ls[1].start = 0
      /\ \A j \in 1 .. n : ls[j].start \in Nat /\ ls[j].duration \in Nat
      /\ \A j \in 1 .. n - 1 : ls[j + 1].start = ls[j].start + ls[j].duration
  BY DEF LegTable, LegOf
<1>2. /\ TotalOf(ls) \in Nat /\ t \in Nat
      /\ \A j \in 1 .. n : ls[j].start + ls[j].duration <= TotalOf(ls)
      /\ TotalOf(ls) = ls[n].start + ls[n].duration
  <2>1. /\ TotalOf(ls) \in Nat
        /\ \A j \in 1 .. n : ls[j].start + ls[j].duration <= TotalOf(ls)
        /\ TotalOf(ls) = ls[n].start + ls[n].duration
    BY <1>1, TotalFacts
  <2> QED BY <2>1
<1>3. \E j \in 1 .. n : Fits(j)
  <2> DEFINE Late == {j \in 1 .. n : j < n => t < ls[j + 1].start}
  <2>1. PICK j \in Late : \A x \in Late : j <= x
    <3>1. Late \in SUBSET Nat /\ n \in Late BY <1>1
    <3> HIDE DEF Late
    <3> QED BY <3>1, LeastNat
  <2>2. j \in 1 .. n /\ (j < n => t < ls[j + 1].start) OBVIOUS
  <2>3. j > 1 => ls[j].start <= t
    <3> SUFFICES ASSUME j > 1 PROVE ls[j].start <= t OBVIOUS
    <3>1. j - 1 \in 1 .. n /\ j - 1 < j /\ j - 1 < n /\ (j - 1) + 1 = j
      BY <1>1, <2>2
    <3>2. j - 1 \notin Late
      <4> HIDE DEF Late
      <4> QED BY <2>1, <3>1
    <3>3. ~ (t < ls[j].start) BY <3>1, <3>2
    <3> QED BY <1>1, <1>2, <2>2, <3>3
  <2> QED BY <2>2, <2>3
<1>4. i \in 1 .. n /\ Fits(i) BY <1>1, <1>3 DEF LegAt
<1> HIDE DEF i, n
<1>5. ls[i].start <= t BY <1>1, <1>2, <1>4
<1>6. t <= ls[i].start + ls[i].duration
  <2>1. CASE i = n BY <1>2, <2>1
  <2>2. CASE i # n
    <3>1. i \in 1 .. n - 1 /\ i < n BY <1>1, <1>4, <2>2
    <3>2. ls[i + 1].start = ls[i].start + ls[i].duration BY <1>1, <3>1
    <3>3. ls[i].start \in Nat /\ ls[i].duration \in Nat BY <1>1, <1>4
    <3> QED BY <1>2, <1>4, <3>1, <3>2, <3>3
  <2> QED BY <2>1, <2>2
<1>7. ASSUME t = TotalOf(ls) PROVE i = n
  <2> SUFFICES ASSUME i # n PROVE FALSE OBVIOUS
  <2>1. i \in 1 .. n - 1 /\ i < n /\ i + 1 \in 1 .. n BY <1>1, <1>4
  <2>2. t < ls[i + 1].start BY <1>4, <2>1
  <2>3. /\ ls[i + 1].start + ls[i + 1].duration <= TotalOf(ls)
        /\ ls[i + 1].start \in Nat /\ ls[i + 1].duration \in Nat
    BY <1>1, <1>2, <2>1
  <2> QED BY <1>2, <1>7, <2>2, <2>3
<1> QED BY <1>4, <1>5, <1>6, <1>7 DEF i, n
-----------------------------------------------------------------------------
(* The place on a leg.                                                     *)
LEMMA ShareBound ==
    ASSUME NEW d \in Nat \ {0}, NEW s \in 0 .. d, NEW len \in Nat
    PROVE  /\ (s * len) \div d \in 0 .. len
           /\ s = d => (s * len) \div d = len
           /\ s = 0 => (s * len) \div d = 0
<1>1. s * len \in Nat OBVIOUS
<1>2. PICK p \in Nat : p = s * len BY <1>1
<1> DEFINE q == p \div d
           r == p % d
<1>3. p = d * q + r /\ r \in 0 .. d - 1 /\ q \in Nat BY DivMod
<1> HIDE DEF q, r
<1>4. p <= d * len
  <2>1. PICK e \in Nat : d = s + e
    <3>1. d - s \in Nat /\ d = s + (d - s) OBVIOUS
    <3> QED BY <3>1
  <2>2. d * len = s * len + e * len BY <2>1
  <2>3. e * len \in Nat BY <2>1
  <2> QED BY <1>2, <2>2, <2>3
<1>5. q <= len
  <2> SUFFICES ASSUME ~ (q <= len) PROVE FALSE OBVIOUS
  <2>1. PICK e \in Nat : q = len + 1 + e
    <3>1. q - (len + 1) \in Nat /\ q = len + 1 + (q - (len + 1)) BY <1>3
    <3> QED BY <3>1
  <2>2. d * q = d * len + d + d * e BY <2>1
  <2>3. d * e \in Nat /\ d * len \in Nat BY <2>1
  <2> QED BY <1>3, <1>4, <2>2, <2>3
<1>6. ASSUME s = d PROVE q = len
  <2>1. p = d * len + 0 BY <1>2, <1>6
  <2>2. 0 \in 0 .. d - 1 OBVIOUS
  <2> QED BY <2>1, <2>2, ModUnique DEF q
<1>7. ASSUME s = 0 PROVE q = 0
  <2>1. p = d * 0 + 0 BY <1>2, <1>7
  <2>2. 0 \in 0 .. d - 1 OBVIOUS
  <2> QED BY <2>1, <2>2, ModUnique DEF q
<1> QED BY <1>2, <1>3, <1>5, <1>6, <1>7 DEF q

(* What update_state makes of a leg.                                       *)
PlaceOnLeg(leg, at) ==
    LET sailed == Clamped(at - leg.start, 0, leg.duration)
    IN  IF leg.length = 0 \/ (sailed = 0 /\ leg.duration > 0) THEN leg.from
        ELSE IF sailed = leg.duration THEN leg.to
        ELSE Direct(leg.from, leg.bearing,
                    IF leg.duration = 0 THEN leg.length
                    ELSE (sailed * leg.length) \div leg.duration)

LEMMA CosineFacts ==
    ASSUME TrackAssumption
    PROVE  Cosine(North) = 1 /\ Cosine(South) = -1
<1>1. Circle \in Nat \ {0} /\ Circle % 4 = 0
  BY DEF TrackAssumption, PhysicsAssumption
<1>2. PICK k \in Nat : Circle = 4 * k
  <2>1. Circle = 4 * (Circle \div 4) + (Circle % 4) /\ Circle \div 4 \in Nat
    BY <1>1, DivMod
  <2> DEFINE k == Circle \div 4
  <2>2. k \in Nat /\ Circle = 4 * k BY <1>1, <2>1
  <2> HIDE DEF k
  <2> QED BY <2>2
<1>3. Circle \div 2 = 2 * k
  <2>1. Circle = 2 * (2 * k) + 0 /\ 2 * k \in Nat /\ 0 \in 0 .. 2 - 1 BY <1>2
  <2> QED BY <1>1, <2>1, ModUnique
<1>4. k > 0 BY <1>1, <1>2
<1> QED BY <1>2, <1>3, <1>4 DEF Cosine, North, South

LEMMA OnLeg ==
    ASSUME TrackAssumption, NEW c, NEW leg, NEW i, LegOf(c, leg, i),
           NEW at \in Nat, leg.start <= at, at <= leg.start + leg.duration
    PROVE  LET place == PlaceOnLeg(leg, at)
           IN  /\ place \in Int
               /\ Between(place, leg.from, leg.to)
               /\ at = leg.start + leg.duration => place = leg.to
               /\ leg.duration = 0 => place = leg.to
               /\ leg.duration # 0 =>
                    place - leg.from =
                      (IF leg.to < leg.from THEN -1 ELSE 1)
                      * (((at - leg.start) * leg.length) \div leg.duration)
<1> DEFINE place == PlaceOnLeg(leg, at)
           d == leg.duration
           len == leg.length
           s == at - leg.start
           share == (s * len) \div d
           sign == IF leg.to < leg.from THEN -1 ELSE 1
<1>1. /\ leg.from \in Int /\ leg.to \in Int /\ d \in Nat /\ leg.start \in Nat
      /\ len = Distance(leg.from, leg.to)
      /\ len # 0 => leg.bearing = Bearing(leg.from, leg.to)
  BY DEF LegOf
<1>2. len \in Nat /\ leg.to - leg.from = sign * len /\ (len = 0 => leg.to = leg.from)
  BY <1>1 DEF Distance, Higher
<1>3. s \in 0 .. d /\ Clamped(s, 0, d) = s BY <1>1 DEF Clamped, Higher, Lower
<1>4. len # 0 => Cosine(leg.bearing) = sign
  BY <1>1, CosineFacts DEF Bearing
<1>5. d # 0 => /\ share \in 0 .. len
               /\ s = d => share = len
               /\ s = 0 => share = 0
  <2> HIDE DEF s, len, d
  <2> SUFFICES ASSUME d # 0
               PROVE  /\ share \in 0 .. len
                      /\ s = d => share = len
                      /\ s = 0 => share = 0
    OBVIOUS
  <2>1. d \in Nat \ {0} /\ s \in 0 .. d /\ len \in Nat BY <1>1, <1>2, <1>3
  <2> QED BY <2>1, ShareBound
<1>6. place = IF len = 0 \/ (s = 0 /\ d > 0) THEN leg.from
              ELSE IF s = d THEN leg.to
              ELSE leg.from + sign * share
  <2>1. place = IF len = 0 \/ (s = 0 /\ d > 0) THEN leg.from
                ELSE IF s = d THEN leg.to
                ELSE Direct(leg.from, leg.bearing, IF d = 0 THEN len ELSE share)
    BY <1>3 DEF PlaceOnLeg
  <2>2. CASE len = 0 BY <2>1, <2>2
  <2>3. CASE len # 0 /\ d = 0
    <3>1. s = d BY <1>3, <2>3
    <3> HIDE DEF s, d, len, place, share
    <3> QED BY <2>1, <2>3, <3>1
  <2>4. CASE len # 0 /\ d # 0
    <3>1. Cosine(leg.bearing) = sign BY <1>4, <2>4
    <3> HIDE DEF s, d, len, place, share, sign
    <3> QED BY <2>1, <2>4, <3>1 DEF Direct
  <2> QED BY <2>2, <2>3, <2>4
<1>7. sign \in {-1, 1} /\ (sign = -1 <=> leg.to < leg.from) OBVIOUS
<1> HIDE DEF place, share, sign, d, len, s
<1>8. d # 0 => place - leg.from = sign * share
  <2> SUFFICES ASSUME d # 0 PROVE place - leg.from = sign * share OBVIOUS
  <2>1. CASE len = 0
    <3>1. share = 0 BY <1>5, <2>1
    <3> QED BY <1>1, <1>6, <1>7, <2>1, <3>1
  <2>2. CASE len # 0 /\ s = 0
    <3>1. share = 0 /\ place = leg.from BY <1>1, <1>5, <1>6, <2>2
    <3> QED BY <1>1, <1>7, <3>1
  <2>3. CASE len # 0 /\ s # 0 /\ s = d
    <3>1. share = len /\ place = leg.to BY <1>5, <1>6, <2>3
    <3> QED BY <1>2, <3>1
  <2>4. CASE len # 0 /\ s # 0 /\ s # d
    <3>1. place = leg.from + sign * share BY <1>6, <2>4
    <3>2. sign * share \in Int BY <1>2, <1>5, <1>7
    <3> QED BY <1>1, <3>1, <3>2
  <2> QED BY <2>1, <2>2, <2>3, <2>4
<1>9. s = d => place = leg.to
  <2>1. CASE len = 0 BY <1>2, <1>6, <2>1
  <2>2. CASE len # 0 /\ ~ (s = 0 /\ d > 0) BY <1>6, <2>2
  <2>3. CASE s = 0 /\ d > 0 BY <2>3
  <2> QED BY <2>1, <2>2, <2>3
<1>10. place \in Int /\ Between(place, leg.from, leg.to)
  <2>1. CASE d = 0
    <3>1. place = leg.to BY <1>3, <1>9, <2>1
    <3> QED BY <1>1, <3>1 DEF Between, Lower, Higher
  <2>2. CASE d # 0
    <3>1. share \in 0 .. len /\ place - leg.from = sign * share BY <1>5, <1>8, <2>2
    <3>2. place \in Int BY <1>1, <1>2, <1>6, <1>7, <3>1
    <3>3. CASE sign = -1
      <4>1. leg.to - leg.from = - len /\ place - leg.from = - share
        BY <1>2, <3>1, <3>3
      <4> QED BY <1>1, <1>2, <3>1, <3>2, <4>1 DEF Between, Lower, Higher
    <3>4. CASE sign = 1
      <4>1. leg.to - leg.from = len /\ place - leg.from = share
        BY <1>2, <3>1, <3>4
      <4> QED BY <1>1, <1>2, <3>1, <3>2, <4>1 DEF Between, Lower, Higher
    <3> QED BY <1>7, <3>3, <3>4
  <2> QED BY <2>1, <2>2
<1>11. at = leg.start + leg.duration => s = d BY <1>1 DEF s, d
<1>12. d = 0 => s = d BY <1>3
<1> QED BY <1>8, <1>9, <1>10, <1>11, <1>12 DEF place, sign, share, s, d, len
-----------------------------------------------------------------------------
(* The vessel that update_state leaves.                                    *)
StateFields == {"place", "course", "heading", "speed", "altitude", "turn",
                "time", "fix", "destination"}

Lies(c, ls, at, stopped, v) ==
    c.points # <<>> =>
        /\ v.heading = v.course
        /\ IF ls = <<>> \/ (stopped /\ c.end = "Stop")
           THEN v.place = c.points[Len(c.points)].place /\ v.speed = 0
           ELSE v.place = PlaceOnLeg(ls[LegAt(ls, at)], at)

LEMMA MooredFacts ==
    ASSUME NEW c, NEW ls, NEW v, DOMAIN v = StateFields
    PROVE  LET u == Moored(c, ls, v)
           IN  /\ DOMAIN u = StateFields
               /\ u.place = c.points[Len(c.points)].place
               /\ u.speed = 0
               /\ u.destination = v.destination
  BY DEF Moored, StateFields

LEMMA UnderwayFacts ==
    ASSUME NEW c, NEW ls, NEW v, NEW at, DOMAIN v = StateFields
    PROVE  LET u == Underway(c, ls, v, at)
           IN  /\ DOMAIN u = StateFields
               /\ u.place = PlaceOnLeg(ls[LegAt(ls, at)], at)
               /\ u.destination = v.destination
  BY DEF Underway, PlaceOnLeg, StateFields

LEMMA UpdatedFacts ==
    ASSUME NEW c, NEW ls, NEW v, NEW dt, NEW at, NEW time, NEW stopped,
           DOMAIN v = StateFields
    PROVE  LET u == Updated(c, ls, v, dt, at, time, stopped)
           IN  /\ DOMAIN u = StateFields
               /\ u.destination = v.destination
               /\ Lies(c, ls, at, stopped, u)
<1> DEFINE u == Updated(c, ls, v, dt, at, time, stopped)
           moored == ls = <<>> \/ (stopped /\ c.end = "Stop")
           moved == IF moored THEN Moored(c, ls, v) ELSE Underway(c, ls, v, at)
<1>1. CASE c.points = <<>>
  <2>1. u = v BY <1>1 DEF Updated
  <2> HIDE DEF u
  <2> QED BY <1>1, <2>1 DEF Lies, u
<1>2. CASE c.points # <<>>
  <2>1. /\ DOMAIN moved = StateFields /\ moved.destination = v.destination
        /\ IF moored
           THEN moved.place = c.points[Len(c.points)].place /\ moved.speed = 0
           ELSE moved.place = PlaceOnLeg(ls[LegAt(ls, at)], at)
    <3>1. CASE moored
      <4>1. moved = Moored(c, ls, v) BY <3>1
      <4> HIDE DEF moved, moored
      <4> QED BY <3>1, <4>1, MooredFacts
    <3>2. CASE ~ moored
      <4>1. moved = Underway(c, ls, v, at) BY <3>2
      <4> HIDE DEF moved, moored
      <4> QED BY <3>2, <4>1, UnderwayFacts
    <3> QED BY <3>1, <3>2
  <2>2. PICK turn, watch :
          u = [moved EXCEPT !.heading = moved.course, !.turn = turn, !.time = watch]
    BY <1>2, Zenon DEF Updated
  <2> HIDE DEF moved, u, moored
  <2>3. /\ DOMAIN u = StateFields /\ u.destination = moved.destination
        /\ u.heading = moved.course /\ u.course = moved.course
        /\ u.place = moved.place /\ u.speed = moved.speed
    BY <2>1, <2>2 DEF StateFields
  <2>4. Lies(c, ls, at, stopped, u) BY <2>1, <2>3 DEF Lies, moored
  <2> QED BY <2>1, <2>3, <2>4 DEF u
<1> QED BY <1>1, <1>2

-----------------------------------------------------------------------------
(* The inductive invariant of the track source: the leg table is the one   *)
(* of the track, the progress is where the time sailed leads and inside    *)
(* the track, and the vessel is as update_state leaves it there.           *)
Ideal(c, total, from, sailed) ==
    IF sailed = 0 THEN from
    ELSE IF c.end = "Stop" THEN Lower(from + sailed, total)
    ELSE IF total = 0 THEN 0
    ELSE (from + sailed) % total

Pace(c, total, at, p) == at = Ideal(c, total, p.from, p.sailed)

Within(c, total, at, stopped) ==
    /\ at \in 0 .. total
    /\ stopped => c.end = "Stop" /\ at = total
    /\ c.end = "Stop" /\ total > 0 /\ at = total => stopped

TrackInv(c, ls, at, stopped, v, p) ==
    /\ Config(c)
    /\ DOMAIN c = {"points", "use_timestamps", "speed", "end", "destination"}
    /\ LegTable(c, ls)
    /\ p.from \in 0 .. TotalOf(ls) /\ p.sailed \in Nat
    /\ DOMAIN p = {"from", "sailed"}
    /\ Pace(c, TotalOf(ls), at, p)
    /\ Within(c, TotalOf(ls), at, stopped)
    /\ DOMAIN v = StateFields
    /\ v.destination = c.destination
    /\ Lies(c, ls, at, stopped, v)

TrackIInv == TrackInv(track, legs, progress, arrived, vessel, placed)

LEMMA SeedFacts ==
    ASSUME NEW c
    PROVE  DOMAIN Seed(c) = StateFields /\ Seed(c).destination = c.destination
  BY DEF Seed, StateFields

(* A placement: the start of a run, a seek, a jump or a reset.             *)
LEMMA PlacementKeeps ==
    ASSUME NEW c, NEW ls, NEW v, NEW dt, NEW at, NEW time, NEW stopped,
           Config(c), LegTable(c, ls),
           DOMAIN c = {"points", "use_timestamps", "speed", "end", "destination"},
           DOMAIN v = StateFields, v.destination = c.destination,
           Within(c, TotalOf(ls), at, stopped)
    PROVE  TrackInv(c, ls, at, stopped,
                    Updated(c, ls, v, dt, at, time, stopped), PlacedAt(at))
<1> DEFINE u == Updated(c, ls, v, dt, at, time, stopped)
<1>1. /\ DOMAIN u = StateFields /\ u.destination = v.destination
      /\ Lies(c, ls, at, stopped, u)
  BY UpdatedFacts
<1> HIDE DEF u
<1>2. /\ PlacedAt(at).from = at /\ PlacedAt(at).sailed = 0
      /\ DOMAIN PlacedAt(at) = {"from", "sailed"}
  BY DEF PlacedAt
<1>3. Pace(c, TotalOf(ls), at, PlacedAt(at)) BY <1>2 DEF Pace, Ideal
<1>4. at \in 0 .. TotalOf(ls) BY DEF Within
<1>5. TrackInv(c, ls, at, stopped, u, PlacedAt(at))
  BY <1>1, <1>2, <1>3, <1>4 DEF TrackInv
<1> QED BY <1>5 DEF u

LEMMA TrackInitKeeps ==
    ASSUME TrackAssumption, TrackInit
    PROVE  TrackIInv
<1>1. /\ Config(track)
      /\ DOMAIN track = {"points", "use_timestamps", "speed", "end", "destination"}
  BY DEF TrackAssumption, TrackInit, Config
<1>2. LegTable(track, legs) BY <1>1, LegsTable DEF TrackInit
<1>3. Within(track, TotalOf(legs), 0, FALSE)
  BY <1>2, TotalFacts DEF Within
<1>4. TrackInv(track, legs, 0, FALSE,
               Updated(track, legs, Seed(track), 0, 0, 0, FALSE), PlacedAt(0))
  BY <1>1, <1>2, <1>3, SeedFacts, PlacementKeeps
<1> QED BY <1>4 DEF TrackInit, TrackIInv
(* The arithmetic of an advance.                                           *)
Past(c, total, ahead) ==
    IF ~ (ahead >= total) THEN ahead
    ELSE IF c.end = "Stop" THEN total
    ELSE IF total > 0 THEN ahead % total ELSE 0

LEMMA AdvancePace ==
    ASSUME NEW c, c.end \in {"Stop", "Loop"}, NEW total \in Nat,
           NEW f \in 0 .. total, NEW s \in Nat, NEW d \in Nat \ {0},
           NEW at \in 0 .. total, at = Ideal(c, total, f, s),
           c.end = "Stop" /\ total > 0 => at # total
    PROVE  /\ Past(c, total, at + d) = Ideal(c, total, f, s + d)
           /\ Past(c, total, at + d) \in 0 .. total
           /\ c.end = "Stop" =>
                /\ at + d >= total => Past(c, total, at + d) = total
                /\ total > 0 /\ Past(c, total, at + d) = total => at + d >= total
<1> DEFINE next == Past(c, total, at + d)
<1>1. /\ at \in 0 .. total
      /\ (c.end = "Stop" /\ total > 0 => at # total)
  OBVIOUS
<1>2. at = IF s = 0 THEN f
           ELSE IF c.end = "Stop" THEN Lower(f + s, total)
           ELSE IF total = 0 THEN 0 ELSE (f + s) % total
  BY DEF Ideal
<1>3. Ideal(c, total, f, s + d) =
        IF c.end = "Stop" THEN Lower(f + s + d, total)
        ELSE IF total = 0 THEN 0 ELSE (f + s + d) % total
  <2>1. s + d # 0 /\ f + (s + d) = f + s + d OBVIOUS
  <2> QED BY <2>1 DEF Ideal
<1>4. next = IF ~ (at + d >= total) THEN at + d
             ELSE IF c.end = "Stop" THEN total
             ELSE IF total > 0 THEN (at + d) % total ELSE 0
  BY DEF Past
<1> HIDE DEF next
<1>5. CASE c.end = "Stop"
  <2>1. at = IF s = 0 THEN f ELSE Lower(f + s, total) BY <1>2, <1>5
  <2>2. next = IF ~ (at + d >= total) THEN at + d ELSE total BY <1>4, <1>5
  <2>3. next = Lower(f + s + d, total) BY <1>1, <2>1, <2>2 DEF Lower
  <2>4. /\ next \in 0 .. total
        /\ at + d >= total => next = total
        /\ total > 0 /\ next = total => at + d >= total
    BY <1>1, <2>2
  <2> QED BY <1>3, <1>5, <2>3, <2>4 DEF next
<1>6. CASE c.end # "Stop" /\ total = 0
  <2>1. next = 0 BY <1>1, <1>4, <1>6
  <2> QED BY <1>3, <1>6, <2>1 DEF next
<1>7. CASE c.end # "Stop" /\ total # 0
  <2>1. next = (at + d) % total
    <3>1. CASE at + d >= total BY <1>4, <1>7, <3>1
    <3>2. CASE ~ (at + d >= total)
      <4>1. at + d \in 0 .. total - 1 BY <1>1, <3>2
      <4>2. (at + d) % total = at + d BY <1>7, <4>1, ModSmall
      <4> QED BY <1>4, <3>2, <4>2
    <3> QED BY <3>1, <3>2
  <2>2. (at + d) % total = (f + s + d) % total
    <3>1. CASE s = 0
      <4>1. at + d = f + s + d BY <1>1, <1>2, <3>1
      <4> QED BY <4>1
    <3>2. CASE s # 0
      <4>1. at = (f + s) % total BY <1>2, <1>7, <3>2
      <4>2. f + s \in Nat /\ total \in Nat \ {0} BY <1>1, <1>7
      <4>3. (((f + s) % total) + d) % total = ((f + s) + d) % total
        BY <4>2, ModAdd
      <4> QED BY <4>1, <4>3
    <3> QED BY <3>1, <3>2
  <2>3. next \in 0 .. total
    <3>1. at + d \in Nat /\ total \in Nat \ {0} BY <1>1, <1>7
    <3>2. (at + d) % total \in 0 .. total - 1 BY <3>1, DivMod
    <3> QED BY <2>1, <3>1, <3>2
  <2> QED BY <1>3, <1>7, <2>1, <2>2, <2>3 DEF next
<1> QED BY <1>5, <1>6, <1>7

LEMMA TrackAdvanceKeeps ==
    ASSUME TrackAssumption, TrackIInv, NEW dt \in TrackSteps, TrackAdvance(dt)
    PROVE  TrackIInv'
<1> DEFINE d == dt * Ms
           total == TotalOf(legs)
           at == Past(track, total, progress + d)
           stop == progress + d >= total /\ track.end = "Stop"
           p == [placed EXCEPT !.sailed = @ + d]
           v == Updated(track, legs, vessel, dt, at, elapsed + d, stop)
<1>1. TrackInv(track, legs, progress, arrived, vessel, placed) BY DEF TrackIInv
<1>2. d \in Nat \ {0}
  <2>1. dt \in Nat \ {0} /\ Ms \in Nat \ {0} BY DEF TrackAssumption
  <2> QED BY <2>1
<1>3. /\ track' = track /\ legs' = legs /\ ~ arrived
      /\ progress' = at /\ arrived' = stop /\ vessel' = v /\ placed' = p
  BY Zenon DEF TrackAdvance, Ahead, Total, Past
<1>4. total \in Nat BY <1>1, TotalFacts DEF TrackInv
<1> HIDE DEF d, total
<1>5. /\ p.from = placed.from /\ p.sailed = placed.sailed + d
      /\ DOMAIN p = {"from", "sailed"}
  BY <1>1 DEF TrackInv
<1>6. Pace(track, total, progress, placed) /\ Within(track, total, progress, FALSE)
  BY <1>1, <1>3 DEF TrackInv, Within, total
<1>7. /\ placed.from \in 0 .. total /\ placed.sailed \in Nat
      /\ track.end \in {"Stop", "Loop"}
  BY <1>1 DEF TrackInv, Config, total
<1> HIDE DEF p
<1>8. Pace(track, total, at, p) /\ Within(track, total, at, stop)
  <2>1. progress = Ideal(track, total, placed.from, placed.sailed)
    BY <1>6 DEF Pace
  <2>2. /\ progress \in 0 .. total
        /\ track.end = "Stop" /\ total > 0 => progress # total
    BY <1>6 DEF Within
  <2> HIDE DEF at
  <2>3. /\ at = Ideal(track, total, placed.from, placed.sailed + d)
        /\ at \in 0 .. total
        /\ track.end = "Stop" =>
             /\ progress + d >= total => at = total
             /\ total > 0 /\ at = total => progress + d >= total
    BY <1>2, <1>4, <1>7, <2>1, <2>2, AdvancePace DEF at
  <2>4. Pace(track, total, at, p) BY <1>5, <2>3 DEF Pace
  <2>5. Within(track, total, at, stop) BY <2>3 DEF Within
  <2> QED BY <2>4, <2>5
<1> HIDE DEF at, stop
<1>9. /\ DOMAIN v = StateFields /\ v.destination = vessel.destination
      /\ Lies(track, legs, at, stop, v)
  BY <1>1, UpdatedFacts DEF TrackInv
<1> HIDE DEF v
<1>10. TrackInv(track, legs, at, stop, v, p)
  <2>1. p.from \in 0 .. total /\ p.sailed \in Nat BY <1>2, <1>5, <1>7
  <2> QED BY <1>1, <1>5, <1>8, <1>9, <2>1 DEF TrackInv, total
<1> QED BY <1>3, <1>10 DEF TrackIInv

LEMMA SeekKeeps ==
    ASSUME TrackIInv, NEW t \in Int, SeekTime(t)
    PROVE  TrackIInv'
<1> DEFINE total == TotalOf(legs)
           at == Clamped(t, 0, total)
           stop == at >= total /\ track.end = "Stop"
           v == Updated(track, legs, vessel, 0, at, elapsed, stop)
<1>1. TrackInv(track, legs, progress, arrived, vessel, placed) BY DEF TrackIInv
<1>2. /\ track' = track /\ legs' = legs
      /\ progress' = at /\ arrived' = stop /\ vessel' = v /\ placed' = PlacedAt(at)
  BY Zenon DEF SeekTime, Total
<1>3. total \in Nat BY <1>1, TotalFacts DEF TrackInv
<1> HIDE DEF total
<1>4. Within(track, total, at, stop)
  BY <1>3 DEF Within, Clamped, Higher, Lower
<1> HIDE DEF at, stop
<1>5. TrackInv(track, legs, at, stop, v, PlacedAt(at))
  BY <1>1, <1>4, PlacementKeeps DEF TrackInv, total
<1> HIDE DEF v
<1> QED BY <1>2, <1>5 DEF TrackIInv

LEMMA TrackResetKeeps ==
    ASSUME TrackIInv, TrackReset
    PROVE  TrackIInv'
<1> DEFINE v == Updated(track, legs, Seed(track), 0, 0, 0, FALSE)
<1>1. TrackInv(track, legs, progress, arrived, vessel, placed) BY DEF TrackIInv
<1>2. /\ track' = track /\ legs' = legs
      /\ progress' = 0 /\ arrived' = FALSE /\ vessel' = v /\ placed' = PlacedAt(0)
  BY Zenon DEF TrackReset
<1>3. Within(track, TotalOf(legs), 0, FALSE)
  BY <1>1, TotalFacts DEF TrackInv, Within
<1>4. TrackInv(track, legs, 0, FALSE, v, PlacedAt(0))
  BY <1>1, <1>3, SeedFacts, PlacementKeeps DEF TrackInv
<1> HIDE DEF v
<1> QED BY <1>2, <1>4 DEF TrackIInv

LEMMA TrackSetFixKeeps ==
    ASSUME TrackIInv, NEW has_fix, TrackSetFix(has_fix)
    PROVE  TrackIInv'
<1> DEFINE v == [vessel EXCEPT !.fix = has_fix]
<1>1. TrackInv(track, legs, progress, arrived, vessel, placed) BY DEF TrackIInv
<1>2. /\ track' = track /\ legs' = legs /\ progress' = progress
      /\ arrived' = arrived /\ vessel' = v /\ placed' = placed
  BY Zenon DEF TrackSetFix
<1>3. /\ DOMAIN v = StateFields /\ v.destination = vessel.destination
      /\ v.heading = vessel.heading /\ v.course = vessel.course
      /\ v.place = vessel.place /\ v.speed = vessel.speed
  BY <1>1 DEF TrackInv, StateFields
<1> HIDE DEF v
<1>4. TrackInv(track, legs, progress, arrived, v, placed)
  BY <1>1, <1>3 DEF TrackInv, Lies
<1> QED BY <1>2, <1>4 DEF TrackIInv

LEMMA TrackSetDestinationKeeps ==
    ASSUME TrackIInv, NEW place, TrackSetDestination(place)
    PROVE  TrackIInv'
<1> DEFINE v == [vessel EXCEPT !.destination = place]
           c == [track EXCEPT !.destination = place]
<1>1. TrackInv(track, legs, progress, arrived, vessel, placed) BY DEF TrackIInv
<1>2. /\ track' = c /\ legs' = legs /\ progress' = progress
      /\ arrived' = arrived /\ vessel' = v /\ placed' = placed
  BY Zenon DEF TrackSetDestination
<1>3. /\ DOMAIN v = StateFields /\ v.destination = place
      /\ v.heading = vessel.heading /\ v.course = vessel.course
      /\ v.place = vessel.place /\ v.speed = vessel.speed
  BY <1>1 DEF TrackInv, StateFields
<1>4. /\ DOMAIN c = {"points", "use_timestamps", "speed", "end", "destination"}
      /\ c.destination = place /\ c.points = track.points
      /\ c.use_timestamps = track.use_timestamps
      /\ c.speed = track.speed /\ c.end = track.end
  BY <1>1 DEF TrackInv
<1> HIDE DEF v, c
<1>5. LegTable(c, legs) BY <1>1, <1>4, TableKept DEF TrackInv
<1>6. Config(c) /\ Lies(c, legs, progress, arrived, v)
  BY <1>1, <1>3, <1>4 DEF TrackInv, Config, Lies
<1>7. /\ Pace(c, TotalOf(legs), progress, placed)
      /\ Within(c, TotalOf(legs), progress, arrived)
  BY <1>1, <1>4 DEF TrackInv, Pace, Ideal, Within
<1>8. TrackInv(c, legs, progress, arrived, v, placed)
  BY <1>1, <1>3, <1>4, <1>5, <1>6, <1>7 DEF TrackInv
<1> QED BY <1>2, <1>8 DEF TrackIInv

LEMMA TrackNextKeeps ==
    ASSUME TrackAssumption, TrackIInv, [TrackNext]_trackVars
    PROVE  TrackIInv'
<1>0. LegTable(track, legs) /\ TotalOf(legs) \in Nat /\ Len(legs) \in Nat
  BY TotalFacts DEF TrackIInv, TrackInv, LegTable
<1>1. ASSUME NEW dt \in TrackSteps, TrackAdvance(dt) PROVE TrackIInv'
  BY <1>1, TrackAdvanceKeeps
<1>2. ASSUME NEW position \in TrackSeeks, TrackSeek(position) PROVE TrackIInv'
  <2>1. position * Ms \in Int BY DEF TrackAssumption
  <2> QED BY <1>2, <2>1, SeekKeeps DEF TrackSeek
<1>3. ASSUME NEW index \in 0 .. Len(legs) + 1, JumpToPoint(index)
      PROVE  TrackIInv'
  <2> DEFINE t == IF legs = <<>> \/ index = 0 THEN 0
                  ELSE IF index >= Len(legs) THEN Total
                  ELSE legs[index + 1].start
  <2>1. t \in Int
    <3>1. CASE legs = <<>> \/ index = 0 \/ index >= Len(legs)
      BY <1>0, <3>1 DEF Total
    <3>2. CASE ~ (legs = <<>> \/ index = 0 \/ index >= Len(legs))
      <4>1. index + 1 \in 1 .. Len(legs) BY <1>0, <3>2
      <4>2. legs[index + 1].start \in Nat BY <1>0, <4>1, TotalFacts
      <4> QED BY <3>2, <4>2
    <3> QED BY <3>1, <3>2
  <2>2. SeekTime(t) BY <1>3 DEF JumpToPoint
  <2> HIDE DEF t
  <2> QED BY <2>1, <2>2, SeekKeeps
<1>4. ASSUME TrackReset PROVE TrackIInv'
  BY <1>4, TrackResetKeeps
<1>5. ASSUME NEW has_fix, TrackSetFix(has_fix) PROVE TrackIInv'
  BY <1>5, TrackSetFixKeeps
<1>6. ASSUME NEW destination, TrackSetDestination(destination) PROVE TrackIInv'
  BY <1>6, TrackSetDestinationKeeps
<1>7. ASSUME UNCHANGED trackVars PROVE TrackIInv'
  BY <1>7 DEF TrackIInv, trackVars
<1>8. ASSUME TrackAdvanceIgnored PROVE TrackIInv'
  BY <1>7, <1>8 DEF TrackAdvanceIgnored
<1> QED BY <1>1, <1>2, <1>3, <1>4, <1>5, <1>6, <1>7, <1>8 DEF TrackNext

THEOREM TrackInductive ==
    ASSUME TrackAssumption
    PROVE  TrackSpec => []TrackIInv
<1>1. TrackInit => TrackIInv BY TrackInitKeeps
<1>2. TrackIInv /\ [TrackNext]_trackVars => TrackIInv' BY TrackNextKeeps
<1> QED BY <1>1, <1>2, PTL DEF TrackSpec
(* However the time is cut into steps, the progress is where all the time  *)
(* sailed since the last placement leads: the end of a stopping track at   *)
(* most, the rest of a whole number of laps of a looping one               *)
(* (TrackSource::advance), for any track.                                  *)
THEOREM PaceKept ==
    ASSUME TrackAssumption
    PROVE  TrackSpec => []KeepsItsPace
<1>1. TrackIInv => KeepsItsPace
  BY DEF TrackIInv, TrackInv, Pace, Ideal, KeepsItsPace, Total
<1> QED BY <1>1, TrackInductive, PTL

-----------------------------------------------------------------------------
(* On a track of more than one point the vessel is where its leg says,     *)
(* also when it is moored at the end of the last one.                      *)
LEMMA OnItsLeg ==
    ASSUME TrackAssumption, TrackIInv, legs # <<>>
    PROVE  LET i == LegAt(legs, progress)
           IN  /\ i \in 1 .. Len(legs)
               /\ LegOf(track, legs[i], i)
               /\ progress \in Nat
               /\ legs[i].start <= progress
               /\ progress <= legs[i].start + legs[i].duration
               /\ progress = Total =>
                    i = Len(legs) /\ progress = legs[i].start + legs[i].duration
               /\ vessel.place = PlaceOnLeg(legs[i], progress)
<1> DEFINE i == LegAt(legs, progress)
           n == Len(legs)
<1>1. TrackInv(track, legs, progress, arrived, vessel, placed) BY DEF TrackIInv
<1>2. LegTable(track, legs) /\ n \in Nat /\ n > 0 BY <1>1 DEF TrackInv, LegTable
<1>3. progress \in 0 .. TotalOf(legs) BY <1>1 DEF TrackInv, Within
<1>4. /\ i \in 1 .. n /\ legs[i].start <= progress
      /\ progress <= legs[i].start + legs[i].duration
      /\ progress = TotalOf(legs) => i = n
  BY <1>2, <1>3, LegAtFacts
<1>5. TotalOf(legs) = legs[n].start + legs[n].duration /\ TotalOf(legs) \in Nat
  BY <1>2, TotalFacts
<1>6. LegOf(track, legs[i], i) BY <1>2, <1>4 DEF LegTable
<1>7. Len(track.points) \in Nat /\ track.points # <<>> /\ n = Len(track.points) - 1
  <2>1. track.points # <<>> BY <1>2 DEF LegTable
  <2>2. Len(track.points) \in Nat BY <1>1, PointFacts DEF TrackInv
  <2> QED BY <1>2, <2>1, <2>2 DEF LegTable
<1>8. progress \in Nat BY <1>3, <1>5
<1> HIDE DEF i, n
<1>9. vessel.place = PlaceOnLeg(legs[i], progress)
  <2>1. CASE arrived /\ track.end = "Stop"
    <3>1. progress = TotalOf(legs) BY <1>1, <2>1 DEF TrackInv, Within
    <3>2. i = n /\ progress = legs[i].start + legs[i].duration BY <1>4, <1>5, <3>1
    <3>3. PlaceOnLeg(legs[i], progress) = legs[i].to
      BY <1>4, <1>6, <1>8, <3>2, OnLeg
    <3>4. legs[i].to = track.points[n + 1].place BY <1>6, <3>2 DEF LegOf
    <3>5. vessel.place = track.points[Len(track.points)].place
      BY <1>1, <1>7, <2>1 DEF TrackInv, Lies
    <3>6. n + 1 = Len(track.points) BY <1>7
    <3> QED BY <3>3, <3>4, <3>5, <3>6
  <2>2. CASE ~ (arrived /\ track.end = "Stop")
    BY <1>1, <1>7, <2>2 DEF TrackInv, Lies, i
  <2> QED BY <2>1, <2>2
<1>10. progress = Total =>
         i = n /\ progress = legs[i].start + legs[i].duration
  BY <1>4, <1>5 DEF Total
<1> QED BY <1>4, <1>6, <1>8, <1>9, <1>10 DEF i, n

(* At its clock the vessel is where the timestamps say.                    *)
LEMMA PassesInTime ==
    ASSUME TrackAssumption, TrackIInv, Timed(track)
    PROVE  PassesByTheClock
<1> DEFINE i == LegAt(legs, progress)
           leg == legs[i]
           from == track.points[i]
           to == track.points[i + 1]
           now == track.points[1].time + progress
<1>1. /\ Config(track) /\ LegTable(track, legs) BY DEF TrackIInv, TrackInv
<1>2. /\ Len(track.points) \in Nat /\ Len(track.points) >= 2
      /\ track.points # <<>> /\ track.points[1].time \in Nat
  BY <1>1, PointFacts
<1>3. legs # <<>> /\ Len(legs) = Len(track.points) - 1 BY <1>1, <1>2 DEF LegTable
<1>4. /\ i \in 1 .. Len(legs) /\ LegOf(track, leg, i)
      /\ progress \in Nat /\ leg.start <= progress
      /\ progress <= leg.start + leg.duration
      /\ vessel.place = PlaceOnLeg(leg, progress)
  BY <1>3, OnItsLeg
<1> HIDE DEF i, leg
<1>5. /\ leg.from = from.place /\ leg.to = to.place
      /\ leg.length = Distance(from.place, to.place)
      /\ leg.duration \in Nat /\ leg.start \in Nat
      /\ from.time \in Nat /\ to.time \in Nat
      /\ leg.duration = to.time - from.time
      /\ leg.start = from.time - track.points[1].time
  BY <1>4 DEF LegOf
<1>6. /\ leg.duration = 0 => vessel.place = leg.to
      /\ leg.duration # 0 =>
           vessel.place - leg.from =
             (IF leg.to < leg.from THEN -1 ELSE 1)
             * (((progress - leg.start) * leg.length) \div leg.duration)
  BY <1>4, OnLeg
<1> HIDE DEF from, to, now
<1>7. now = track.points[1].time + progress BY DEF now
<1>8. /\ from.time <= now /\ now <= to.time /\ now - from.time = progress - leg.start
      /\ (from.time = to.time <=> leg.duration = 0)
  <2> DEFINE a == from.time
             b == to.time
             f == track.points[1].time
             s == leg.start
             d == leg.duration
  <2>1. a \in Nat /\ b \in Nat /\ f \in Nat /\ s \in Nat /\ d \in Nat
    BY <1>2, <1>5
  <2>2. d = b - a /\ s = a - f BY <1>5
  <2>3. progress \in Nat /\ s <= progress /\ progress <= s + d BY <1>4
  <2>4. now = f + progress BY <1>7
  <2> HIDE DEF a, b, f, s, d
  <2>5. a <= now /\ now <= b /\ now - a = progress - s /\ (a = b <=> d = 0)
    BY <2>1, <2>2, <2>3, <2>4
  <2> QED BY <2>5 DEF a, b, s, d
<1>9. IF from.time = to.time
      THEN vessel.place = to.place
      ELSE vessel.place - from.place =
             (IF to.place < from.place THEN -1 ELSE 1) *
             (((now - from.time) * Distance(from.place, to.place))
                 \div (to.time - from.time))
  <2>1. CASE from.time = to.time BY <1>5, <1>6, <1>8, <2>1
  <2>2. CASE from.time # to.time
    <3>1. vessel.place - leg.from =
            (IF leg.to < leg.from THEN -1 ELSE 1)
            * (((progress - leg.start) * leg.length) \div leg.duration)
      BY <1>6, <1>8, <2>2
    <3> QED BY <1>5, <1>8, <2>2, <3>1, Zenon
  <2> QED BY <2>1, <2>2
<1>10. i \in 1 .. Len(track.points) - 1 BY <1>3, <1>4
<1> QED BY <1>8, <1>9, <1>10, Zenon DEF PassesByTheClock, from, to, now

(* The vessel is between the point it passed last and the next one.        *)
LEMMA BetweenItsPoints ==
    ASSUME TrackAssumption, TrackIInv, track.points # <<>>
    PROVE  LET points == track.points
               last == Len(points)
           IN  /\ PointIndex \in 0 .. last - 1
               /\ Between(vessel.place, points[PointIndex + 1].place,
                          points[Lower(PointIndex + 2, last)].place)
<1> DEFINE points == track.points
           n == Len(points)
           i == LegAt(legs, progress)
           place == vessel.place
<1>1. TrackInv(track, legs, progress, arrived, vessel, placed) BY DEF TrackIInv
<1>2. /\ Config(track) /\ LegTable(track, legs) BY <1>1 DEF TrackInv
<1>3. /\ n \in Nat /\ n > 0
      /\ \A j \in 1 .. n : points[j].place \in Int
  BY <1>2, PointFacts
<1>4. Len(legs) = n - 1 /\ (legs = <<>> <=> n = 1) BY <1>2, <1>3 DEF LegTable
<1>5. CASE legs = <<>>
  <2>1. PointIndex = 0 /\ n = 1 BY <1>4, <1>5 DEF PointIndex
  <2>2. place = points[1].place /\ points[1].place \in Int
    BY <1>1, <1>3, <1>5, <2>1 DEF TrackInv, Lies
  <2>3. Lower(PointIndex + 2, n) = 1 /\ PointIndex + 1 = 1 BY <2>1 DEF Lower
  <2> QED BY <2>1, <2>2, <2>3 DEF Between, Lower, Higher
<1>6. CASE legs # <<>>
  <2>1. /\ i \in 1 .. n - 1 /\ LegOf(track, legs[i], i)
        /\ progress \in Nat /\ legs[i].start <= progress
        /\ progress <= legs[i].start + legs[i].duration
        /\ progress = Total =>
             i = n - 1 /\ progress = legs[i].start + legs[i].duration
        /\ place = PlaceOnLeg(legs[i], progress)
    BY <1>4, <1>6, OnItsLeg
  <2>2. progress \in 0 .. Total /\ Total \in Nat
    BY <1>1, <1>2, TotalFacts DEF TrackInv, Within, Total
  <2> HIDE DEF i
  <2>3. /\ legs[i].from = points[i].place /\ legs[i].to = points[i + 1].place
    BY <2>1 DEF LegOf
  <2> HIDE DEF n
  <2>4. CASE progress >= Total
    <3>1. progress = Total BY <2>2, <2>4
    <3>2. PointIndex = n - 1 BY <1>4, <1>6, <2>4 DEF PointIndex
    <3>3. i = n - 1 /\ place = legs[i].to BY <2>1, <3>1, OnLeg
    <3>4. i + 1 = n BY <1>3, <3>3
    <3>5. place = points[n].place BY <2>3, <3>3, <3>4
    <3>6. n \in 1 .. n /\ (n - 1) + 1 = n /\ Lower((n - 1) + 2, n) = n
      BY <1>3 DEF Lower
    <3>7. points[n].place \in Int BY <1>3, <3>6
    <3>8. Between(place, points[n].place, points[n].place)
      BY <3>5, <3>7 DEF Between, Lower, Higher
    <3>9. n - 1 \in 0 .. n - 1 BY <1>3
    <3> QED BY <3>2, <3>6, <3>8, <3>9 DEF n
  <2>5. CASE ~ (progress >= Total)
    <3>1. PointIndex = i - 1 BY <1>6, <2>5 DEF PointIndex, i
    <3>2. Between(place, legs[i].from, legs[i].to) BY <2>1, OnLeg
    <3>3. /\ i - 1 \in 0 .. n - 1 /\ (i - 1) + 1 = i
          /\ Lower((i - 1) + 2, n) = i + 1
      BY <1>3, <2>1 DEF Lower
    <3> QED BY <2>3, <3>1, <3>2, <3>3 DEF n
  <2> QED BY <2>4, <2>5
<1> QED BY <1>5, <1>6

(* The vessel is on the track, at the place the timestamps give for its    *)
(* clock, and lies at the last point when it has arrived                   *)
(* (TrackSource::update_state, leg_at, build_legs), for any track.         *)
THEOREM StaysOnTrack ==
    ASSUME TrackAssumption
    PROVE  TrackSpec => []OnTheTrack
<1>1. ASSUME TrackIInv PROVE OnTheTrack
  <2> SUFFICES ASSUME track.points # <<>> PROVE OnTheTrack BY DEF OnTheTrack
  <2>1. TrackInv(track, legs, progress, arrived, vessel, placed)
    BY <1>1 DEF TrackIInv
  <2>2. WithinTrack BY <2>1 DEF TrackInv, Within, WithinTrack, Total
  <2>3. arrived => track.end = "Stop" BY <2>2 DEF WithinTrack
  <2>4. /\ vessel.heading = vessel.course
        /\ arrived => /\ vessel.place = track.points[Len(track.points)].place
                      /\ vessel.speed = 0
    <3>1. Lies(track, legs, progress, arrived, vessel) BY <2>1 DEF TrackInv
    <3>2. vessel.heading = vessel.course BY <3>1 DEF Lies
    <3>3. ASSUME arrived
          PROVE  /\ vessel.place = track.points[Len(track.points)].place
                 /\ vessel.speed = 0
      BY <2>3, <3>1, <3>3 DEF Lies
    <3> QED BY <3>2, <3>3
  <2>5. vessel.destination = track.destination BY <2>1 DEF TrackInv
  <2>6. Timed(track) => PassesByTheClock BY <1>1, PassesInTime
  <2>7. LET points == track.points
            last == Len(points)
        IN  /\ PointIndex \in 0 .. last - 1
            /\ Between(vessel.place, points[PointIndex + 1].place,
                       points[Lower(PointIndex + 2, last)].place)
    BY <1>1, BetweenItsPoints
  <2> QED BY <2>2, <2>4, <2>5, <2>6, <2>7, Zenon DEF OnTheTrack
<1> QED BY <1>1, TrackInductive, PTL
-----------------------------------------------------------------------------
(* The drifting source: what the calls leave of the configuration and of   *)
(* the values.                                                             *)
DeltaConfigFields ==
    {"values", "variation", "gain", "max_rudder", "destination", "engines"}

DeltaIInv ==
    /\ DOMAIN config = DeltaConfigFields
    /\ config.values \in [Parameter -> Int]
    /\ config.variation \in [Drifting -> [amplitude : Int, step : Int]]
    /\ config.gain \in Int /\ config.max_rudder \in Nat
    /\ value \in [Parameter -> Int]
    /\ \A p \in Angular : value[p] \in Angles \/ value[p] = config.values[p]
    /\ pinned \subseteq Parameter
    /\ commands \in Nat

LEMMA CircleFacts ==
    ASSUME DeltaAssumption
    PROVE  /\ Circle \in Nat \ {0}
           /\ \A b \in Int : NormalizeBearing(b) \in Angles
<1>1. Circle \in Nat \ {0} BY DEF DeltaAssumption, PhysicsAssumption
<1>2. ASSUME NEW b \in Int PROVE b % Circle \in 0 .. Circle - 1
  BY <1>1
<1> QED BY <1>1, <1>2 DEF NormalizeBearing, Angles

LEMMA WrittenType ==
    ASSUME DeltaAssumption, DeltaIInv, NEW p \in Parameter, NEW v \in Int
    PROVE  Written(p, v) \in Int /\ (p \in Angular => Written(p, v) \in Angles)
<1>1. NormalizeBearing(v) \in Angles /\ Circle \in Nat BY CircleFacts
<1>2. NormalizeBearing(v) \in Int BY <1>1 DEF Angles
<1>3. config.max_rudder \in Nat BY DEF DeltaIInv
<1>4. Higher(0, v) \in Int /\ Clamped(v, -config.max_rudder, config.max_rudder) \in Int
  BY <1>3 DEF Higher, Lower, Clamped
<1> QED BY <1>1, <1>2, <1>4 DEF Written

LEMMA DriftType ==
    ASSUME NEW current \in Int, NEW seed \in Int, NEW dt \in Int,
           NEW v \in [amplitude : Int, step : Int]
    PROVE  Drift(current, seed, v, dt) \subseteq Int
<1>1. v.amplitude \in Int /\ v.step \in Int OBVIOUS
<1>2. PICK s \in Int : s = v.step * dt BY <1>1
<1>3. PICK low, high \in Int : low = seed - v.amplitude /\ high = seed + v.amplitude
  BY <1>1
<1> QED BY <1>1, <1>2, <1>3 DEF Drift, Higher, Lower, Clamped

LEMMA TimeSteps ==
    ASSUME DeltaAssumption, NEW dt \in DeltaSteps
    PROVE  dt \in Nat \ {0}
<1>1. DeltaSteps \subseteq Nat \ {0} BY DEF DeltaAssumption
<1> QED BY <1>1

LEMMA OffsetType ==
    ASSUME DeltaAssumption, DeltaIInv, NEW p \in Parameter
    PROVE  Offset(p) \in Int
<1>1. value[p] \in Int /\ config.values[p] \in Int BY DEF DeltaIInv
<1>2. Circle \in Nat BY CircleFacts
<1> QED BY <1>1, <1>2 DEF Offset, Remainder

LEMMA AfterType ==
    ASSUME DeltaAssumption, DeltaIInv, NEW p \in Parameter, NEW dt \in DeltaSteps,
           NEW x \in After(p, dt)
    PROVE  /\ x \in Int
           /\ p \in Angular => x \in Angles \/ x = value[p]
           /\ p \in pinned => x = value[p] \/ (steering /\ p = "HeadingTrue")
<1>1. dt \in Nat BY TimeSteps
<1>2. value[p] \in Int /\ config.values[p] \in Int BY DEF DeltaIInv
<1>3. CASE p = "HeadingTrue" /\ steering
  <2>1. Turn \in Int
    <3>1. value["RudderAngle"] \in Int /\ config.gain \in Int
      BY DEF DeltaIInv, Parameter
    <3> QED BY <3>1 DEF Turn
  <2>2. value[p] + Turn * dt \in Int BY <1>1, <1>2, <2>1
  <2>3. x = NormalizeBearing(value[p] + Turn * dt) BY <1>3 DEF After
  <2>4. x \in Angles BY <2>2, <2>3, CircleFacts
  <2>5. x \in Int BY <2>4, CircleFacts DEF Angles
  <2> QED BY <1>3, <2>4, <2>5
<1>4. CASE ~ (p = "HeadingTrue" /\ steering) /\ p \in Drifting \ pinned
  <2>1. x \in Drifted(p, dt) BY <1>4 DEF After
  <2>2. config.variation[p] \in [amplitude : Int, step : Int]
    BY <1>4 DEF DeltaIInv
  <2>3. CASE p \in Angular
    <3>1. PICK o \in Drift(Offset(p), 0, config.variation[p], dt) :
            x = NormalizeBearing(config.values[p] + o)
      BY <2>1, <2>3 DEF Drifted
    <3>2. o \in Int
      <4>1. Offset(p) \in Int /\ dt \in Int /\ 0 \in Int BY <1>1, OffsetType
      <4>2. Drift(Offset(p), 0, config.variation[p], dt) \subseteq Int
        BY <2>2, <4>1, DriftType
      <4> QED BY <4>2
    <3>3. x \in Angles BY <1>2, <3>1, <3>2, CircleFacts
    <3>4. x \in Int BY <3>3, CircleFacts DEF Angles
    <3> QED BY <1>4, <3>3, <3>4
  <2>4. CASE p \notin Angular
    <3>1. PICK y \in Drift(value[p], config.values[p], config.variation[p], dt) :
            x = Written(p, y)
      BY <2>1, <2>4 DEF Drifted
    <3>2. y \in Int BY <1>1, <1>2, <2>2, DriftType
    <3>3. x \in Int BY <3>1, <3>2, WrittenType
    <3> QED BY <1>4, <2>4, <3>3
  <2> QED BY <2>3, <2>4
<1>5. CASE ~ (p = "HeadingTrue" /\ steering) /\ p \notin Drifting \ pinned
  <2>1. x = value[p] BY <1>5 DEF After
  <2> QED BY <1>2, <2>1
<1> QED BY <1>3, <1>4, <1>5

(* An advance, one value at a time.                                        *)
LEMMA AdvanceValues ==
    ASSUME DeltaAssumption, DeltaIInv, NEW dt \in DeltaSteps, DeltaAdvance(dt)
    PROVE  /\ value' \in [Parameter -> Int]
           /\ \A p \in Drifting : value'[p] \in After(p, dt)
           /\ \A p \in Parameter \ (Drifting \cup {"SpeedThroughWater"}) :
                value'[p] = value[p]
           /\ "SpeedThroughWater" \in pinned =>
                value'["SpeedThroughWater"] = value["SpeedThroughWater"]
           /\ config' = config /\ pinned' = pinned /\ steering' = steering
           /\ commands' = commands
<1>1. PICK h \in After("HeadingTrue", dt), s \in After("SpeedOverGround", dt),
           d \in After("Depth", dt), t \in After("WaterTemperature", dt),
           w \in After("WindDirectionTrue", dt), f \in After("WindSpeedTrue", dt) :
        LET water == IF "SpeedThroughWater" \in pinned
                     THEN value["SpeedThroughWater"] ELSE s
            new == [value EXCEPT
                !["HeadingTrue"] = h, !["SpeedOverGround"] = s,
                !["SpeedThroughWater"] = water,
                !["Depth"] = d, !["WaterTemperature"] = t,
                !["WindDirectionTrue"] = w, !["WindSpeedTrue"] = f]
            turn == IF steering THEN Turn
                    ELSE IF "HeadingTrue" \in pinned THEN 0
                    ELSE Remainder(h - value["HeadingTrue"])
        IN  /\ value' = new
            /\ derived' = Derived(new, turn, dt)
            /\ UNCHANGED <<config, pinned, steering, commands>>
  BY DEF DeltaAdvance
<1>2. /\ "HeadingTrue" \in Parameter /\ "SpeedOverGround" \in Parameter
      /\ "Depth" \in Parameter /\ "WaterTemperature" \in Parameter
      /\ "WindDirectionTrue" \in Parameter /\ "WindSpeedTrue" \in Parameter
      /\ "SpeedThroughWater" \in Parameter
  BY DEF Parameter, Angular, NotNegative, Plain
<1>3. /\ h \in Int /\ s \in Int /\ d \in Int /\ t \in Int /\ w \in Int /\ f \in Int
  BY <1>2, AfterType
<1>4. value \in [Parameter -> Int] /\ value["SpeedThroughWater"] \in Int
  BY <1>2 DEF DeltaIInv
<1> DEFINE water == IF "SpeedThroughWater" \in pinned
                    THEN value["SpeedThroughWater"] ELSE s
           new == [value EXCEPT
                !["HeadingTrue"] = h, !["SpeedOverGround"] = s,
                !["SpeedThroughWater"] = water,
                !["Depth"] = d, !["WaterTemperature"] = t,
                !["WindDirectionTrue"] = w, !["WindSpeedTrue"] = f]
<1>5. water \in Int BY <1>3, <1>4
<1> HIDE DEF water
<1>6. new \in [Parameter -> Int] BY <1>3, <1>4, <1>5
<1>7. /\ new["HeadingTrue"] = h /\ new["SpeedOverGround"] = s /\ new["Depth"] = d
      /\ new["WaterTemperature"] = t /\ new["WindDirectionTrue"] = w
      /\ new["WindSpeedTrue"] = f /\ new["SpeedThroughWater"] = water
      /\ \A p \in Parameter \ (Drifting \cup {"SpeedThroughWater"}) : new[p] = value[p]
  BY <1>2, <1>4 DEF Drifting
<1>8. value' = new /\ UNCHANGED <<config, pinned, steering, commands>>
  BY <1>1 DEF water
<1> HIDE DEF new
<1>9. \A p \in Drifting : new[p] \in After(p, dt)
  <2> TAKE p \in Drifting
  <2>1. CASE p = "HeadingTrue" BY <1>7, <2>1
  <2>2. CASE p = "SpeedOverGround" BY <1>7, <2>2
  <2>3. CASE p = "Depth" BY <1>7, <2>3
  <2>4. CASE p = "WaterTemperature" BY <1>7, <2>4
  <2>5. CASE p = "WindDirectionTrue" BY <1>7, <2>5
  <2>6. CASE p = "WindSpeedTrue" BY <1>7, <2>6
  <2> QED BY <2>1, <2>2, <2>3, <2>4, <2>5, <2>6 DEF Drifting
<1> QED BY <1>6, <1>7, <1>8, <1>9 DEF water
LEMMA DeltaInitKeeps ==
    ASSUME DeltaAssumption, DeltaInit
    PROVE  DeltaIInv
<1>1. config \in DeltaConfigs /\ value = config.values /\ pinned = {} /\ commands = 0
  BY DEF DeltaInit
<1>2. /\ DOMAIN config = DeltaConfigFields
      /\ config.values \in [Parameter -> Int]
      /\ config.variation \in [Drifting -> [amplitude : Int, step : Int]]
      /\ config.gain \in Int /\ config.max_rudder \in Nat
  BY <1>1 DEF DeltaAssumption, DeltaConfigFields
<1> QED BY <1>1, <1>2 DEF DeltaIInv

LEMMA DeltaAdvanceKeeps ==
    ASSUME DeltaAssumption, DeltaIInv, NEW dt \in DeltaSteps, DeltaAdvance(dt)
    PROVE  DeltaIInv'
<1>1. /\ value' \in [Parameter -> Int]
      /\ \A p \in Drifting : value'[p] \in After(p, dt)
      /\ config' = config /\ pinned' = pinned /\ commands' = commands
  BY AdvanceValues
<1>2. ASSUME NEW p \in Angular
      PROVE  value'[p] \in Angles \/ value'[p] = config'.values[p]
  <2>1. p \in Drifting /\ p \in Parameter BY DEF Angular, Drifting, Parameter
  <2>2. value'[p] \in Angles \/ value'[p] = value[p] BY <1>1, <2>1, AfterType
  <2>3. value[p] \in Angles \/ value[p] = config.values[p] BY DEF DeltaIInv
  <2> QED BY <1>1, <2>2, <2>3
<1> QED BY <1>1, <1>2 DEF DeltaIInv

LEMMA SetOverrideKeeps ==
    ASSUME DeltaAssumption, DeltaIInv, NEW p \in Parameter, NEW v \in Int,
           SetOverride(p, v)
    PROVE  DeltaIInv'
<1> DEFINE new == [value EXCEPT ![p] = Written(p, v)]
<1>1. /\ commands' = commands + 1 /\ pinned' = pinned \cup {p}
      /\ value' = new /\ config' = config
  BY DEF SetOverride, Command
<1>2. Written(p, v) \in Int /\ (p \in Angular => Written(p, v) \in Angles)
  BY WrittenType
<1>3. /\ new \in [Parameter -> Int] /\ new[p] = Written(p, v)
      /\ \A q \in Parameter : q # p => new[q] = value[q]
  BY <1>2 DEF DeltaIInv
<1> HIDE DEF new
<1>4. ASSUME NEW q \in Angular PROVE new[q] \in Angles \/ new[q] = config.values[q]
  <2>1. q \in Parameter BY DEF Parameter
  <2>2. value[q] \in Angles \/ value[q] = config.values[q] BY DEF DeltaIInv
  <2> QED BY <1>2, <1>3, <2>1, <2>2
<1> QED BY <1>1, <1>3, <1>4 DEF DeltaIInv

(* The calls that leave the values alone.                                  *)
LEMMA EditKeeps ==
    ASSUME DeltaIInv, commands' = commands + 1, pinned' \subseteq pinned,
           value' = value,
           DOMAIN config' = DOMAIN config, config'.values = config.values,
           config'.variation = config.variation, config'.gain = config.gain,
           config'.max_rudder = config.max_rudder
    PROVE  DeltaIInv'
<1>1. /\ commands' \in Nat /\ pinned' \subseteq Parameter
      /\ value' \in [Parameter -> Int] /\ DOMAIN config' = DeltaConfigFields
      /\ config'.values \in [Parameter -> Int]
      /\ config'.variation \in [Drifting -> [amplitude : Int, step : Int]]
      /\ config'.gain \in Int /\ config'.max_rudder \in Nat
  BY Zenon, SMT DEF DeltaIInv
<1>2. \A p \in Angular : value'[p] \in Angles \/ value'[p] = config'.values[p]
  BY DEF DeltaIInv
<1> QED BY <1>1, <1>2 DEF DeltaIInv

(* Every step is an advance, another step that keeps the values, or one    *)
(* that is counted.                                                        *)
LEMMA CallKeeps ==
    ASSUME DeltaAssumption, DeltaIInv, DeltaNext,
           ~ \E dt \in DeltaSteps : DeltaAdvance(dt)
    PROVE  DeltaIInv' /\ commands' # commands
<1>c. ASSUME Command PROVE commands' = commands + 1 /\ commands' # commands
  BY <1>c DEF Command, DeltaIInv
<1>d. DOMAIN config = DeltaConfigFields BY DEF DeltaIInv
<1>1. ASSUME NEW p \in Pinnable, NEW v \in Values, SetOverride(p, v)
      PROVE  DeltaIInv' /\ commands' # commands
  <2>1. p \in Parameter /\ v \in Int BY DEF DeltaAssumption
  <2>2. DeltaIInv' BY <1>1, <2>1, SetOverrideKeeps
  <2> QED BY <1>1, <1>c, <2>2 DEF SetOverride
<1>2. ASSUME NEW p \in Pinnable, NEW delta \in Nudges, Nudge(p, delta)
      PROVE  DeltaIInv' /\ commands' # commands
  <2>1. p \in Parameter /\ delta \in Int BY DEF DeltaAssumption
  <2>2. value[p] + delta \in Int BY <2>1 DEF DeltaIInv
  <2>3. SetOverride(p, value[p] + delta) BY <1>2 DEF Nudge
  <2>4. DeltaIInv' BY <2>1, <2>2, <2>3, SetOverrideKeeps
  <2> QED BY <1>c, <2>3, <2>4 DEF SetOverride
<1>3. ASSUME NEW p \in pinned, ClearOverride(p)
      PROVE  DeltaIInv' /\ commands' # commands
  BY <1>3, <1>c, EditKeeps DEF ClearOverride
<1>4. ASSUME NEW enabled, SetSteeringMode(enabled)
      PROVE  DeltaIInv' /\ commands' # commands
  BY <1>4, <1>c, EditKeeps DEF SetSteeringMode
<1>5. ASSUME NEW place, SetPosition(place)
      PROVE  DeltaIInv' /\ commands' # commands
  BY <1>5, <1>c, EditKeeps DEF SetPosition
<1>6. ASSUME NEW has_fix, DeltaSetFix(has_fix)
      PROVE  DeltaIInv' /\ commands' # commands
  BY <1>6, <1>c, EditKeeps DEF DeltaSetFix
<1>7. ASSUME NEW in_use, NEW in_view, SetSatellites(in_use, in_view)
      PROVE  DeltaIInv' /\ commands' # commands
  BY <1>7, <1>c, EditKeeps DEF SetSatellites
<1>8. ASSUME NEW place, DeltaSetDestination(place)
      PROVE  DeltaIInv' /\ commands' # commands
  <2> DEFINE new == [config EXCEPT !.destination = place]
  <2>1. /\ DOMAIN new = DOMAIN config /\ new.values = config.values
        /\ new.variation = config.variation /\ new.gain = config.gain
        /\ new.max_rudder = config.max_rudder
    BY <1>d DEF DeltaConfigFields
  <2>2. config' = new /\ Command /\ value' = value /\ pinned' = pinned
    BY <1>8 DEF DeltaSetDestination
  <2> HIDE DEF new
  <2> QED BY <1>c, <2>1, <2>2, EditKeeps
<1>9. ASSUME NEW index, NEW engine, SetEngine(index, engine)
      PROVE  DeltaIInv' /\ commands' # commands
  <2> DEFINE new == [config EXCEPT !.engines = WithEngine(@, index, engine)]
  <2>1. /\ DOMAIN new = DOMAIN config /\ new.values = config.values
        /\ new.variation = config.variation /\ new.gain = config.gain
        /\ new.max_rudder = config.max_rudder
    BY <1>d DEF DeltaConfigFields
  <2>2. config' = new /\ Command /\ value' = value /\ pinned' = pinned
    BY <1>9 DEF SetEngine
  <2> HIDE DEF new
  <2> QED BY <1>c, <2>1, <2>2, EditKeeps
<1>10. ASSUME NEW index, RemoveEngine(index)
       PROVE  DeltaIInv' /\ commands' # commands
  <2> DEFINE new == [config EXCEPT !.engines = WithoutEngine(@, index)]
  <2>1. /\ DOMAIN new = DOMAIN config /\ new.values = config.values
        /\ new.variation = config.variation /\ new.gain = config.gain
        /\ new.max_rudder = config.max_rudder
    BY <1>d DEF DeltaConfigFields
  <2>2. config' = new /\ Command /\ value' = value /\ pinned' = pinned
    BY <1>10 DEF RemoveEngine
  <2> HIDE DEF new
  <2> QED BY <1>c, <2>1, <2>2, EditKeeps
<1>11. ASSUME DeltaReset
       PROVE  DeltaIInv' /\ commands' # commands
  <2>1. /\ value' = config.values /\ config' = config /\ pinned' = {} /\ Command
    BY <1>11 DEF DeltaReset
  <2>2. commands' \in Nat BY <1>c, <2>1 DEF DeltaIInv
  <2> QED BY <1>c, <2>1, <2>2 DEF DeltaIInv
<1> QED BY <1>1, <1>2, <1>3, <1>4, <1>5, <1>6, <1>7, <1>8, <1>9, <1>10, <1>11
        DEF DeltaNext

LEMMA DeltaNextKeeps ==
    ASSUME DeltaAssumption, DeltaIInv, [DeltaNext]_deltaVars
    PROVE  DeltaIInv'
<1>1. ASSUME UNCHANGED deltaVars PROVE DeltaIInv'
  BY <1>1 DEF DeltaIInv, deltaVars
<1>2. ASSUME NEW dt \in DeltaSteps, DeltaAdvance(dt) PROVE DeltaIInv'
  BY <1>2, DeltaAdvanceKeeps
<1> QED BY <1>1, <1>2, CallKeeps

THEOREM DeltaInductive ==
    ASSUME DeltaAssumption
    PROVE  DeltaSpec => []DeltaIInv
<1>1. DeltaInit => DeltaIInv BY DeltaInitKeeps
<1>2. DeltaIInv /\ [DeltaNext]_deltaVars => DeltaIInv' BY DeltaNextKeeps
<1> QED BY <1>1, <1>2, PTL DEF DeltaSpec

(* A pinned value stays where its override put it as long as no call is    *)
(* made, however the others wander; only the rudder moves a pinned heading *)
(* (DeltaSource::override_value, advance), for any configuration and any   *)
(* lengths of the ticks.                                                   *)
THEOREM PinsHold ==
    ASSUME DeltaAssumption
    PROVE  DeltaSpec => HoldsWhatIsPinned
<1>1. ASSUME DeltaIInv, [DeltaNext]_deltaVars, commands' = commands
      PROVE  /\ pinned' = pinned
             /\ \A p \in pinned :
                  value'[p] = value[p] \/ (steering /\ p = "HeadingTrue")
  <2>1. CASE UNCHANGED deltaVars BY <2>1 DEF deltaVars
  <2>2. ASSUME NEW dt \in DeltaSteps, DeltaAdvance(dt)
        PROVE  /\ pinned' = pinned
               /\ \A p \in pinned :
                    value'[p] = value[p] \/ (steering /\ p = "HeadingTrue")
    <3>1. /\ \A p \in Drifting : value'[p] \in After(p, dt)
          /\ \A p \in Parameter \ (Drifting \cup {"SpeedThroughWater"}) :
               value'[p] = value[p]
          /\ "SpeedThroughWater" \in pinned =>
               value'["SpeedThroughWater"] = value["SpeedThroughWater"]
          /\ pinned' = pinned
      BY <1>1, <2>2, AdvanceValues
    <3>2. ASSUME NEW p \in pinned
          PROVE  value'[p] = value[p] \/ (steering /\ p = "HeadingTrue")
      <4>1. p \in Parameter BY <1>1 DEF DeltaIInv
      <4>2. CASE p \in Drifting
        <5>1. value'[p] \in After(p, dt) BY <3>1, <4>2
        <5> QED BY <1>1, <4>1, <5>1, AfterType
      <4>3. CASE p \notin Drifting BY <3>1, <4>1, <4>3
      <4> QED BY <4>2, <4>3
    <3> QED BY <3>1, <3>2
  <2> QED BY <1>1, <2>1, <2>2, CallKeeps
<1>2. DeltaIInv /\ [DeltaNext]_deltaVars
      => [commands' = commands =>
            /\ pinned' = pinned
            /\ \A p \in pinned :
                 value'[p] = value[p] \/ (steering /\ p = "HeadingTrue")]_deltaVars
  BY <1>1
<1> QED BY <1>2, DeltaInductive, PTL DEF DeltaSpec, HoldsWhatIsPinned
-----------------------------------------------------------------------------
(* The band of a value that drifts.                                        *)
LEMMA DriftBand ==
    ASSUME NEW seed \in Int, NEW current \in Int, NEW dt \in Nat,
           NEW v \in [amplitude : Int, step : Int],
           -v.amplitude <= current - seed, current - seed <= v.amplitude,
           NEW x \in Drift(current, seed, v, dt)
    PROVE  x \in Int /\ -v.amplitude <= x - seed /\ x - seed <= v.amplitude
<1> DEFINE low == seed - v.amplitude
           high == seed + v.amplitude
           step == v.step * dt
<1>1. v.amplitude \in Int /\ v.step \in Int /\ step \in Int OBVIOUS
<1>2. ~ (current > high) /\ ~ (current < low) BY <1>1
<1>3. \/ x = current
      \/ \E r \in -step .. step : x = Clamped(current + r, low, high)
  BY <1>2 DEF Drift
<1> HIDE DEF step
<1>4. ASSUME NEW r \in -step .. step, x = Clamped(current + r, low, high)
      PROVE  x \in Int /\ -v.amplitude <= x - seed /\ x - seed <= v.amplitude
  <2>1. r \in Int BY <1>1
  <2> QED BY <1>1, <1>4, <2>1 DEF Clamped, Higher, Lower
<1> QED BY <1>1, <1>3, <1>4

LEMMA WrapOnce ==
    ASSUME NEW d \in Nat \ {0}, NEW b \in Int, -d <= b, b < 2 * d
    PROVE  b % d = IF b < 0 THEN b + d ELSE IF b >= d THEN b - d ELSE b
<1>1. /\ b = d * (b \div d) + (b % d)
      /\ b % d \in 0 .. d - 1 /\ b \div d \in Int
  OBVIOUS
<1>2. PICK q, r \in Int : q = b \div d /\ r = b % d BY <1>1
<1>3. b = d * q + r /\ 0 <= r /\ r < d BY <1>1, <1>2
<1>4. q < 2
  <2> SUFFICES ASSUME q >= 2 PROVE FALSE BY <1>2
  <2>1. d * q = 2 * d + d * (q - 2) /\ d * (q - 2) \in Nat OBVIOUS
  <2> QED BY <1>3, <2>1
<1>5. q > -2
  <2> SUFFICES ASSUME q <= -2 PROVE FALSE BY <1>2
  <2>1. d * q = -(2 * d) - d * (-2 - q) /\ d * (-2 - q) \in Nat OBVIOUS
  <2> QED BY <1>3, <2>1
<1>6. CASE q = 0 BY <1>2, <1>3, <1>6
<1>7. CASE q = 1 BY <1>2, <1>3, <1>7
<1>8. CASE q = -1 BY <1>2, <1>3, <1>8
<1> QED BY <1>4, <1>5, <1>6, <1>7, <1>8

(* An angle less than the amplitude off its seed, across north or not.     *)
LEMMA AngleBand ==
    ASSUME DeltaAssumption, NEW seed \in Angles, NEW a \in Int, NEW o \in Int,
           -a <= o, o <= a
    PROVE  LET away == Remainder(NormalizeBearing(seed + o) - seed)
           IN  -a <= away /\ away <= a
<1>1. Circle \in Nat \ {0} /\ seed \in 0 .. Circle - 1
  BY CircleFacts DEF Angles
<1>2. PICK b \in Int : b = seed + o BY <1>1
<1>3. PICK x \in 0 .. Circle - 1 : x = b % Circle
  BY <1>2, CircleFacts DEF NormalizeBearing, Angles
<1>4. CASE 2 * a >= Circle
  BY <1>1, <1>2, <1>3, <1>4 DEF NormalizeBearing, Remainder
<1>5. CASE 2 * a < Circle
  <2>1. -Circle <= b /\ b < 2 * Circle BY <1>1, <1>2, <1>5
  <2>2. x = IF b < 0 THEN b + Circle ELSE IF b >= Circle THEN b - Circle ELSE b
    BY <1>1, <1>3, <2>1, WrapOnce
  <2>3. Remainder(x - seed) = o
    BY <1>1, <1>2, <1>3, <1>5, <2>2 DEF Remainder
  <2> QED BY <1>2, <1>3, <2>3 DEF NormalizeBearing
<1> QED BY <1>1, <1>4, <1>5

(* A seed as the settings dialog gives it; one written into a profile by   *)
(* hand may be anything.                                                   *)
ProperSeed(p) ==
    /\ p \in Angular => config.values[p] \in Angles
    /\ p \in NotNegative => config.values[p] >= 0

Wanders(p) == p \notin pinned /\ ~ (steering /\ p = "HeadingTrue")

(* The random walk never leaves its band, also across north and at zero:   *)
(* a value that drifts, and is in its band, is there after an advance      *)
(* (DeltaSource::drift), whatever the amplitude, the rate and the tick.    *)
BandKept ==
    [][commands' = commands =>
        \A p \in Drifting :
            Wanders(p) /\ ProperSeed(p) /\ InBand(p) => InBand(p)']_deltaVars

LEMMA AdvanceStaysInBand ==
    ASSUME DeltaAssumption, DeltaIInv, NEW dt \in DeltaSteps, NEW p \in Drifting,
           Wanders(p), ProperSeed(p), InBand(p), NEW x \in After(p, dt)
    PROVE  LET a == config.variation[p].amplitude
               seed == config.values[p]
               away == IF p \in Angular THEN Remainder(x - seed) ELSE x - seed
           IN  -a <= away /\ away <= a
<1> DEFINE v == config.variation[p]
           seed == config.values[p]
<1>1. dt \in Nat /\ 0 \in Int BY TimeSteps
<1>2. p \in Parameter BY DEF Drifting, Parameter, Angular, NotNegative, Plain
<1>3. v \in [amplitude : Int, step : Int] BY DEF DeltaIInv
<1>4. seed \in Int /\ value[p] \in Int BY <1>2 DEF DeltaIInv
<1>5. x \in Drifted(p, dt) BY DEF Wanders, After
<1> HIDE DEF v, seed
<1>6. CASE p \in Angular
  <2>1. PICK o \in Drift(Offset(p), 0, v, dt) : x = NormalizeBearing(seed + o)
    BY <1>5, <1>6 DEF Drifted, v, seed
  <2>2. Offset(p) \in Int BY <1>2, OffsetType
  <2>3. -v.amplitude <= Offset(p) - 0 /\ Offset(p) - 0 <= v.amplitude
    BY <1>6, <2>2 DEF InBand, v
  <2>4. o \in Int /\ -v.amplitude <= o - 0 /\ o - 0 <= v.amplitude
    BY <1>1, <1>3, <2>2, <2>3, DriftBand
  <2>5. -v.amplitude <= o /\ o <= v.amplitude BY <2>4
  <2>6. seed \in Angles BY <1>6 DEF ProperSeed, seed
  <2>7. v.amplitude \in Int BY <1>3
  <2>8. /\ -v.amplitude <= Remainder(NormalizeBearing(seed + o) - seed)
        /\ Remainder(NormalizeBearing(seed + o) - seed) <= v.amplitude
    BY <2>4, <2>5, <2>6, <2>7, AngleBand
  <2> QED BY <1>6, <2>1, <2>8 DEF v, seed
<1>7. CASE p \notin Angular
  <2>1. PICK y \in Drift(value[p], seed, v, dt) : x = Written(p, y)
    BY <1>5, <1>7 DEF Drifted, v, seed
  <2>2. -v.amplitude <= value[p] - seed /\ value[p] - seed <= v.amplitude
    BY <1>7 DEF InBand, v, seed
  <2>3. y \in Int /\ -v.amplitude <= y - seed /\ y - seed <= v.amplitude
    BY <1>1, <1>3, <1>4, <2>2, DriftBand
  <2>4. x = IF p \in NotNegative THEN Higher(0, y) ELSE y
    BY <1>7, <2>1 DEF Written, Drifting
  <2>5. p \in NotNegative => seed >= 0 BY DEF ProperSeed, seed
  <2>6. v.amplitude \in Int BY <1>3
  <2>7. -v.amplitude <= x - seed /\ x - seed <= v.amplitude
    BY <1>4, <2>3, <2>4, <2>5, <2>6 DEF Higher
  <2> QED BY <1>7, <2>7 DEF v, seed
<1> QED BY <1>6, <1>7

(* No value wanders out of its band.                                       *)
THEOREM BandsHold ==
    ASSUME DeltaAssumption
    PROVE  DeltaSpec => BandKept
<1> DEFINE Kept == \A p \in Drifting :
             Wanders(p) /\ ProperSeed(p) /\ InBand(p) => InBand(p)'
<1>1. ASSUME DeltaIInv, [DeltaNext]_deltaVars, commands' = commands PROVE Kept
  <2>1. ASSUME UNCHANGED deltaVars PROVE Kept
    BY <2>1 DEF deltaVars, InBand, Offset
  <2>2. ASSUME NEW dt \in DeltaSteps, DeltaAdvance(dt) PROVE Kept
    <3> SUFFICES ASSUME NEW p \in Drifting, Wanders(p), ProperSeed(p), InBand(p)
                 PROVE  InBand(p)'
      OBVIOUS
    <3>1. value'[p] \in After(p, dt) /\ config' = config
      BY <1>1, <2>2, AdvanceValues
    <3>2. LET a == config.variation[p].amplitude
              seed == config.values[p]
              away == IF p \in Angular THEN Remainder(value'[p] - seed)
                      ELSE value'[p] - seed
          IN  -a <= away /\ away <= a
      BY <1>1, <3>1, AdvanceStaysInBand
    <3> QED BY <3>1, <3>2 DEF InBand, Offset
  <2> QED BY <1>1, <2>1, <2>2, CallKeeps
<1>2. DeltaIInv /\ [DeltaNext]_deltaVars => [commands' = commands => Kept]_deltaVars
  BY <1>1
<1> QED BY <1>2, DeltaInductive, PTL DEF DeltaSpec, BandKept

-----------------------------------------------------------------------------
(* The inductive invariant of the replay: nothing was skipped, so the      *)
(* cursor is where the clock says, and the state is what decoding every    *)
(* entry up to the cursor gives.                                           *)
ReplayIInv == TypeOK /\ NothingSkipped /\ StateIsDecoded /\ FinishedAtEnd

(* A log as the assumption on the logs has it.                             *)
LEMMA LogFacts ==
    ASSUME log \in Logs
    PROVE  /\ Size \in Nat
           /\ DOMAIN log = 1 .. Size
           /\ \A i \in 1 .. Size : /\ log[i].offset \in Nat
                                   /\ log[i].offset <= Duration
           /\ \A i, j \in 1 .. Size : i <= j => log[i].offset <= log[j].offset
           /\ Duration \in Nat
<1>1. /\ log \in Seq(LogEntry)
      /\ \A i, j \in DOMAIN log : i <= j => log[i].offset <= log[j].offset
  BY LogsAssumption
<1>2. Size \in Nat /\ DOMAIN log = 1 .. Size BY <1>1 DEF Size
<1>3. \A i \in 1 .. Size : log[i].offset \in Nat
  <2> TAKE i \in 1 .. Size
  <2>1. log[i] \in LogEntry BY <1>1, <1>2
  <2> QED BY <2>1 DEF LogEntry
<1>4. Duration \in Nat /\ \A i \in 1 .. Size : log[i].offset <= Duration
  BY <1>1, <1>2, <1>3 DEF Duration
<1> QED BY <1>1, <1>2, <1>3, <1>4

(* The loop that plays due entries stops somewhere, and what it leaves is  *)
(* not due yet.                                                            *)
LEMMA PlayedToFacts ==
    ASSUME log \in Logs, NEW from \in 0 .. Size, NEW now \in Nat
    PROVE  /\ PlayedTo(from, now) \in from .. Size
           /\ \A i \in from + 1 .. PlayedTo(from, now) : log[i].offset <= now
           /\ \A i \in PlayedTo(from, now) + 1 .. Size : now < log[i].offset
<1> DEFINE Late == {i \in from + 1 .. Size : log[i].offset > now}
           Stops(k) == /\ \A i \in from + 1 .. k : log[i].offset <= now
                       /\ k < Size => log[k + 1].offset > now
<1>1. \E k \in from .. Size : Stops(k)
  <2>1. CASE Late = {}
    <3>1. Size \in from .. Size /\ Stops(Size) BY <2>1, LogFacts
    <3> QED BY <3>1
  <2>2. CASE Late # {}
    <3>1. Late \in SUBSET Nat BY LogFacts
    <3>2. PICK m \in Late : \A x \in Late : m <= x BY <2>2, <3>1, LeastNat
    <3>3. /\ m \in Nat /\ m \in from + 1 .. Size /\ log[m].offset > now
      BY <3>1, <3>2
    <3>4. m - 1 \in from .. Size BY <3>3, LogFacts
    <3>5. \A i \in from + 1 .. m - 1 : log[i].offset <= now
      <4> TAKE i \in from + 1 .. m - 1
      <4>1. i \in from + 1 .. Size /\ i < m BY <3>3, LogFacts
      <4>2. i \notin Late BY <3>2, <3>3, <4>1
      <4>3. log[i].offset \in Nat BY <4>1, LogFacts
      <4> QED BY <4>1, <4>2, <4>3
    <3>6. (m - 1) + 1 = m BY <3>3
    <3> QED BY <3>3, <3>4, <3>5, <3>6
  <2> QED BY <2>1, <2>2
<1> DEFINE k == PlayedTo(from, now)
<1>2. k \in from .. Size /\ Stops(k)
  BY <1>1 DEF PlayedTo
<1> HIDE DEF k
<1>3. \A i \in k + 1 .. Size : now < log[i].offset
  <2> TAKE i \in k + 1 .. Size
  <2>1. /\ k \in Nat /\ k + 1 \in 1 .. Size /\ i \in 1 .. Size /\ k + 1 <= i
    BY <1>2, LogFacts
  <2>2. log[k + 1].offset <= log[i].offset /\ log[k + 1].offset \in Nat
        /\ log[i].offset \in Nat
    BY <2>1, LogFacts
  <2>3. log[k + 1].offset > now BY <1>2, <2>1, LogFacts
  <2> QED BY <2>2, <2>3
<1> QED BY <1>2, <1>3 DEF k

-----------------------------------------------------------------------------
(* Decoding entries: the last entry that sets a field decides it.          *)
LEMMA DecodeOne ==
    ASSUME NEW s, NEW first \in Nat, NEW last \in Nat, NEW f \in Fields
    PROVE  LET d == Decode(s, first, last)[f]
           IN  \/ /\ \A i \in first .. last : f \notin log[i].sets
                  /\ d = s[f]
               \/ /\ d \in first .. last
                  /\ f \in log[d].sets
                  /\ \A i \in first .. last : f \in log[i].sets => i <= d
<1> DEFINE setters == {i \in first .. last : f \in log[i].sets}
           Top(i) == \A j \in setters : j <= i
<1>1. Decode(s, first, last)[f] = IF setters = {} THEN s[f]
                                  ELSE CHOOSE i \in setters : Top(i)
  BY DEF Decode
<1>2. CASE setters = {} BY <1>1, <1>2
<1>3. CASE setters # {}
  <2>1. setters \in SUBSET (0 .. last) OBVIOUS
  <2>2. \E i \in setters : Top(i) BY <1>3, <2>1, GreatestIn
  <2>3. LET d == CHOOSE i \in setters : Top(i) IN d \in setters /\ Top(d)
    BY <2>2
  <2> QED BY <1>1, <1>3, <2>3
<1> QED BY <1>2, <1>3

LEMMA DecodeType ==
    ASSUME log \in Logs, NEW s \in [Fields -> 0 .. Size],
           NEW first \in Nat, NEW last \in 0 .. Size
    PROVE  Decode(s, first, last) \in [Fields -> 0 .. Size]
<1>1. Size \in Nat BY LogFacts
<1>2. \A f \in Fields : Decode(s, first, last)[f] \in 0 .. Size
  BY <1>1, DecodeOne
<1>3. Decode(s, first, last) = [f \in Fields |-> Decode(s, first, last)[f]]
  BY DEF Decode
<1> QED BY <1>2, <1>3

(* Decoding 1..k and then k+1..m is decoding 1..m.                         *)
LEMMA DecodeOn ==
    ASSUME NEW s, NEW k \in Nat, NEW m \in Nat, k <= m
    PROVE  Decode(Decode(s, 1, k), k + 1, m) = Decode(s, 1, m)
<1> DEFINE u == Decode(s, 1, k)
           a == Decode(u, k + 1, m)
           b == Decode(s, 1, m)
<1>1. ASSUME NEW f \in Fields PROVE a[f] = b[f]
  <2>1. \/ /\ \A i \in 1 .. k : f \notin log[i].sets
           /\ u[f] = s[f]
        \/ /\ u[f] \in 1 .. k /\ f \in log[u[f]].sets
           /\ \A i \in 1 .. k : f \in log[i].sets => i <= u[f]
    BY DecodeOne
  <2>2. \/ /\ \A i \in k + 1 .. m : f \notin log[i].sets
           /\ a[f] = u[f]
        \/ /\ a[f] \in k + 1 .. m /\ f \in log[a[f]].sets
           /\ \A i \in k + 1 .. m : f \in log[i].sets => i <= a[f]
    <3>1. k + 1 \in Nat OBVIOUS
    <3> HIDE DEF u
    <3> QED BY <3>1, DecodeOne
  <2>3. \/ /\ \A i \in 1 .. m : f \notin log[i].sets
           /\ b[f] = s[f]
        \/ /\ b[f] \in 1 .. m /\ f \in log[b[f]].sets
           /\ \A i \in 1 .. m : f \in log[i].sets => i <= b[f]
    BY DecodeOne
  <2>4. 1 .. m = (1 .. k) \cup (k + 1 .. m) OBVIOUS
  <2> HIDE DEF a, b, u
  <2> QED BY <2>1, <2>2, <2>3, <2>4
<1>2. a = [f \in Fields |-> a[f]] /\ b = [f \in Fields |-> b[f]]
  BY DEF Decode
<1> HIDE DEF a, b
<1>3. a = b BY <1>1, <1>2
<1> QED BY <1>3 DEF a, b

LEMMA DecodeNone ==
    Decode(SeedState, 1, 0) = SeedState
<1>1. 1 .. 0 = {} OBVIOUS
<1> QED BY <1>1 DEF Decode, SeedState

LEMMA SeedType == Size \in Nat => SeedState \in [Fields -> 0 .. Size]
  BY DEF SeedState

-----------------------------------------------------------------------------
(* A run of consecutive entries is a sequence of them.                     *)
LEMMA RunType ==
    ASSUME Size \in Nat, NEW first \in Nat \ {0}, NEW last \in 0 .. Size,
           first <= last + 1
    PROVE  /\ Run(first, last) \in Seq(1 .. Size)
           /\ Len(Run(first, last)) = last - first + 1
           /\ \A i \in 1 .. last - first + 1 : Run(first, last)[i] = first + i - 1
<1> DEFINE n == last - first + 1
<1>1. n \in Nat OBVIOUS
<1>2. \A i \in 1 .. n : first + i - 1 \in 1 .. Size OBVIOUS
<1> QED BY <1>1, <1>2 DEF Run

LEMMA PassesType ==
    ASSUME Size \in Nat \ {0}, NEW n \in Nat
    PROVE  /\ Passes(n) \in Seq(1 .. Size)
           /\ Len(Passes(n)) = n * Size
           /\ \A i \in 1 .. n * Size : Passes(n)[i] = ((i - 1) % Size) + 1
<1> DEFINE m == n * Size
<1>1. m \in Nat OBVIOUS
<1> HIDE DEF m
<1>2. \A i \in 1 .. m : ((i - 1) % Size) + 1 \in 1 .. Size BY <1>1
<1>3. Passes(n) = [i \in 1 .. m |-> ((i - 1) % Size) + 1] BY DEF Passes, m
<1>4. /\ Passes(n) \in Seq(1 .. Size) /\ Len(Passes(n)) = m
      /\ \A i \in 1 .. m : Passes(n)[i] = ((i - 1) % Size) + 1
  BY <1>1, <1>2, <1>3
<1> QED BY <1>4 DEF m

LEMMA Division ==
    ASSUME NEW a \in Nat, NEW d \in Nat \ {0}
    PROVE  /\ a % d \in 0 .. d - 1
           /\ a >= d => (a \div d) - 1 \in Nat
  OBVIOUS

LEMMA InitInv == Init => ReplayIInv
<1> SUFFICES ASSUME Init PROVE ReplayIInv OBVIOUS
<1>1. log \in Logs BY DEF Init
<1>2. Size \in Nat /\ Duration \in Nat BY <1>1, LogFacts
<1>3. TypeOK
  BY <1>1, <1>2, SeedType DEF Init, TypeOK, Placed
<1>4. NothingSkipped
  BY <1>1, <1>2, LogFacts DEF Init, NothingSkipped
<1>5. StateIsDecoded BY DecodeNone DEF Init, StateIsDecoded
<1>6. FinishedAtEnd BY <1>2 DEF Init, FinishedAtEnd
<1> QED BY <1>3, <1>4, <1>5, <1>6 DEF ReplayIInv

(* An advance puts the clock, the cursor and the state where they belong.  *)
LEMMA AdvanceInv ==
    ASSUME ReplayIInv, NEW dt \in Steps, Advance(dt), UNCHANGED replayConfig
    PROVE  /\ NothingSkipped' /\ StateIsDecoded' /\ FinishedAtEnd'
           /\ clock' \in Nat /\ cursor' \in 0 .. Size
           /\ state' \in [Fields -> 0 .. Size] /\ finished' \in BOOLEAN
           /\ out' \in Seq(1 .. Size)
<1>0. /\ log' = log /\ end' = end /\ log \in Logs
      /\ clock \in Nat /\ cursor \in 0 .. Size /\ dt \in Nat \ {0}
      /\ state \in [Fields -> 0 .. Size] /\ finished \in BOOLEAN
      /\ end \in {"Stop", "Loop"}
  BY InputAssumption DEF ReplayIInv, TypeOK, replayConfig
<1>1. /\ Size \in Nat /\ Duration \in Nat
      /\ \A i \in 1 .. Size : /\ log[i].offset \in Nat
                              /\ log[i].offset <= Duration
      /\ Size' = Size /\ Duration' = Duration
  BY <1>0, LogFacts DEF Size, Duration
<1> DEFINE now == Now(dt)
           r == Reached(dt)
<1>2. now \in Nat /\ now >= clock BY <1>0 DEF Now
<1>3. /\ r \in cursor .. Size /\ r \in 0 .. Size
      /\ \A i \in cursor + 1 .. r : log[i].offset <= now
      /\ \A i \in r + 1 .. Size : now < log[i].offset
  <2>1. r = PlayedTo(cursor, now) BY DEF Reached
  <2> HIDE DEF now, r
  <2>2. /\ PlayedTo(cursor, now) \in cursor .. Size
        /\ \A i \in cursor + 1 .. PlayedTo(cursor, now) : log[i].offset <= now
        /\ \A i \in PlayedTo(cursor, now) + 1 .. Size : now < log[i].offset
    BY <1>0, <1>2, PlayedToFacts
  <2> QED BY <1>0, <1>1, <2>1, <2>2
<1> HIDE DEF now, r
<1>4. \A i \in 1 .. r : log[i].offset <= now
  <2> TAKE i \in 1 .. r
  <2>1. i \in 1 .. cursor \/ i \in cursor + 1 .. r BY <1>0, <1>1, <1>3
  <2>2. i \in 1 .. Size BY <1>1, <1>3
  <2> QED BY <1>0, <1>1, <1>2, <1>3, <2>1, <2>2 DEF ReplayIInv, NothingSkipped
<1>5. Decode(state, cursor + 1, r) = Decode(SeedState, 1, r)
  BY <1>0, <1>1, <1>3, DecodeOn DEF ReplayIInv, StateIsDecoded
<1>6. Run(cursor + 1, r) \in Seq(1 .. Size)
  <2>1. cursor + 1 \in Nat \ {0} /\ cursor + 1 <= r + 1 BY <1>0, <1>1, <1>3
  <2> QED BY <1>1, <1>3, <2>1, RunType
<1>7. Decode(state, cursor + 1, r) \in [Fields -> 0 .. Size]
  <2>1. cursor + 1 \in Nat BY <1>0, <1>1
  <2> QED BY <1>0, <1>3, <2>1, DecodeType
<1>8. ~ Ignored => finished = FALSE /\ Size # 0
  BY <1>0 DEF Ignored
<1>9. StateIsDecoded' <=> state' = Decode(SeedState, 1, cursor')
  BY <1>0 DEF StateIsDecoded, Decode, SeedState
<1>10. CASE PlayOn(dt)
  <2>1. /\ r < Size /\ clock' = now /\ cursor' = r /\ finished' = finished
        /\ state' = Decode(state, cursor + 1, r) /\ out' = Run(cursor + 1, r)
        /\ finished = FALSE /\ Size # 0
    BY <1>8, <1>10 DEF PlayOn, now, r
  <2>2. now <= Duration
    <3>1. r + 1 \in 1 .. Size /\ r + 1 \in r + 1 .. Size BY <1>1, <1>3, <2>1
    <3>2. now < log[r + 1].offset BY <1>3, <3>1
    <3> QED BY <1>1, <1>2, <3>1, <3>2
  <2>3. NothingSkipped'
    BY <1>0, <1>1, <1>2, <1>3, <1>4, <2>1, <2>2 DEF NothingSkipped
  <2>4. StateIsDecoded'
    BY <1>5, <1>9, <2>1
  <2>5. FinishedAtEnd'
    BY <1>1, <1>3, <2>1 DEF FinishedAtEnd
  <2> QED BY <1>2, <1>3, <1>6, <1>7, <1>0, <2>1, <2>3, <2>4, <2>5
<1>11. CASE WrapAround(dt)
  <2> DEFINE rest == now % Duration
             k == PlayedTo(0, rest)
  <2>1. /\ r = Size /\ end = "Loop" /\ Duration > 0
        /\ clock' = rest /\ cursor' = k /\ finished' = finished
        /\ state' = Decode(SeedState, 1, k)
        /\ out' = Run(cursor + 1, Size) \o Passes((now \div Duration) - 1) \o Run(1, k)
        /\ finished = FALSE /\ Size # 0
    BY <1>8, <1>11 DEF WrapAround, now, r
  <2>2. rest \in Nat /\ rest <= Duration BY <1>1, <1>2, <2>1, Division
  <2> HIDE DEF rest
  <2>3. /\ k \in 0 .. Size
        /\ \A i \in 1 .. k : log[i].offset <= rest
        /\ \A i \in k + 1 .. Size : rest < log[i].offset
    BY <1>0, <1>1, <2>2, PlayedToFacts
  <2> HIDE DEF k
  <2>4. NothingSkipped'
    BY <1>0, <1>1, <2>1, <2>2, <2>3 DEF NothingSkipped
  <2>5. StateIsDecoded'
    BY <1>9, <2>1
  <2>6. FinishedAtEnd'
    BY <1>0, <1>1, <2>1 DEF FinishedAtEnd
  <2>7. now >= Duration
    <3>1. Size \in 1 .. Size /\ Duration = log[Size].offset
      BY <1>1, <2>1 DEF Duration
    <3> QED BY <1>1, <1>2, <1>4, <2>1, <3>1
  <2>8. Passes((now \div Duration) - 1) \in Seq(1 .. Size)
    <3>0. Duration \in Nat \ {0} BY <1>1, <2>1
    <3>1. (now \div Duration) - 1 \in Nat BY <1>2, <2>7, <3>0, Division
    <3> QED BY <1>1, <2>1, <3>1, PassesType
  <2>9. Run(1, k) \in Seq(1 .. Size) /\ Run(cursor + 1, Size) \in Seq(1 .. Size)
    BY <1>0, <1>1, <1>6, <2>1, <2>3, RunType
  <2>10. state' \in [Fields -> 0 .. Size]
    BY <1>0, <1>1, <2>1, <2>3, SeedType, DecodeType
  <2> QED BY <1>0, <2>1, <2>2, <2>3, <2>4, <2>5, <2>6, <2>8, <2>9, <2>10
<1>12. CASE StartOver(dt)
  <2>1. /\ r = Size /\ end = "Loop" /\ Duration = 0
        /\ clock' = 0 /\ cursor' = 0 /\ finished' = finished /\ state' = SeedState
        /\ out' = Run(cursor + 1, Size) /\ finished = FALSE /\ Size # 0
    BY <1>8, <1>12 DEF StartOver, r
  <2>2. NothingSkipped' BY <1>0, <1>1, <2>1 DEF NothingSkipped
  <2>3. StateIsDecoded'
    BY <1>9, <2>1, DecodeNone
  <2>4. FinishedAtEnd' BY <1>0, <1>1, <2>1 DEF FinishedAtEnd
  <2> QED BY <1>0, <1>1, <1>6, <2>1, <2>2, <2>3, <2>4, SeedType
<1>13. CASE RunOut(dt)
  <2>1. /\ r = Size /\ end = "Stop"
        /\ clock' = Duration /\ cursor' = Size /\ finished' = TRUE
        /\ state' = Decode(state, cursor + 1, Size)
        /\ out' = Run(cursor + 1, Size)
    BY <1>13 DEF RunOut, r
  <2>2. NothingSkipped' BY <1>0, <1>1, <2>1 DEF NothingSkipped
  <2>3. StateIsDecoded'
    BY <1>5, <1>9, <2>1
  <2>4. FinishedAtEnd' BY <1>0, <1>1, <2>1 DEF FinishedAtEnd
  <2> QED BY <1>0, <1>1, <1>6, <1>7, <2>1, <2>2, <2>3, <2>4
<1>14. CASE Stay
  <2>1. UNCHANGED source /\ out' = <<>> BY <1>14 DEF Stay
  <2>2. /\ clock' = clock /\ cursor' = cursor /\ state' = state
        /\ finished' = finished
    BY <2>1 DEF source
  <2>3. NothingSkipped' /\ FinishedAtEnd'
    BY <1>0, <1>1, <2>2 DEF ReplayIInv, NothingSkipped, FinishedAtEnd
  <2>4. StateIsDecoded'
    BY <1>9, <2>2 DEF ReplayIInv, StateIsDecoded
  <2> QED BY <1>0, <2>1, <2>2, <2>3, <2>4
<1> QED BY <1>10, <1>11, <1>12, <1>13, <1>14 DEF Advance

(* What a call that places the replay at entry k and time c has to show.   *)
LEMMA PlaceInv ==
    ASSUME ReplayIInv, UNCHANGED replayConfig,
           NEW c \in Nat, NEW k \in 0 .. Size,
           clock' = c, cursor' = k, c <= Duration,
           state' = Decode(SeedState, 1, k),
           finished' = (Size = 0 \/ (k = Size /\ end = "Stop")),
           \A i \in 1 .. k : log[i].offset <= c,
           \A i \in k + 1 .. Size : c <= log[i].offset,
           out' \in Seq(1 .. Size),
           since' \in [clock : Nat, cursor : 0 .. Size, time : Nat, sent : Nat]
    PROVE  ReplayIInv'
<1>0. log' = log /\ end' = end /\ log \in Logs /\ Size \in Nat
      /\ end \in {"Stop", "Loop"} /\ k \in Nat
  BY LogFacts DEF ReplayIInv, TypeOK, replayConfig
<1>1. Size' = Size /\ Duration' = Duration BY <1>0 DEF Size, Duration
<1>2. StateIsDecoded' BY <1>0 DEF StateIsDecoded, Decode, SeedState
<1>3. NothingSkipped' BY <1>0, <1>1 DEF NothingSkipped
<1>4. FinishedAtEnd' BY <1>0, <1>1 DEF FinishedAtEnd
<1>5. state' \in [Fields -> 0 .. Size] BY <1>0, SeedType, DecodeType
<1>6. finished' \in BOOLEAN BY <1>0
<1>7. TypeOK' BY <1>0, <1>1, <1>5, <1>6 DEF TypeOK
<1> QED BY <1>2, <1>3, <1>4, <1>7 DEF ReplayIInv

LEMMA PlacedType ==
    ASSUME NEW c \in Nat, NEW k \in 0 .. Size
    PROVE  Placed(c, k) \in
             [clock : Nat, cursor : 0 .. Size, time : Nat, sent : Nat]
  BY DEF Placed

LEMMA StepInv ==
    ASSUME ReplayIInv, NEW dt \in Steps, Step(dt)
    PROVE  ReplayIInv'
<1>0. Advance(dt) /\ UNCHANGED replayConfig /\ dt \in Nat
  BY InputAssumption DEF Step
<1>1. /\ log' = log /\ end' = end /\ log \in Logs /\ Size' = Size
      /\ end \in {"Stop", "Loop"} /\ Size \in Nat
      /\ since \in [clock : Nat, cursor : 0 .. Size, time : Nat, sent : Nat]
  BY <1>0, LogFacts DEF ReplayIInv, TypeOK, replayConfig, Size
<1>2. /\ NothingSkipped' /\ StateIsDecoded' /\ FinishedAtEnd'
      /\ clock' \in Nat /\ cursor' \in 0 .. Size
      /\ state' \in [Fields -> 0 .. Size] /\ finished' \in BOOLEAN
      /\ out' \in Seq(1 .. Size)
  BY <1>0, AdvanceInv
<1>3. since' \in [clock : Nat, cursor : 0 .. Size, time : Nat, sent : Nat]
  <2>1. Len(out') \in Nat BY <1>2
  <2>2. Played(dt, out') \in
          [clock : Nat, cursor : 0 .. Size, time : Nat, sent : Nat]
    BY <1>0, <1>1, <2>1 DEF Played
  <2> QED BY <1>1, <2>2 DEF Step
<1>4. TypeOK' BY <1>1, <1>2, <1>3 DEF TypeOK
<1> QED BY <1>2, <1>4 DEF ReplayIInv

LEMMA StepOnceInv ==
    ASSUME ReplayIInv, StepOnce
    PROVE  ReplayIInv'
<1>0. /\ UNCHANGED replayConfig /\ log' = log /\ end' = end /\ log \in Logs
      /\ clock \in Nat /\ cursor \in 0 .. Size /\ end \in {"Stop", "Loop"}
      /\ state = Decode(SeedState, 1, cursor) /\ clock <= Duration
      /\ finished = (Size = 0 \/ (cursor = Size /\ end = "Stop"))
      /\ since \in [clock : Nat, cursor : 0 .. Size, time : Nat, sent : Nat]
      /\ \A i \in 1 .. cursor : log[i].offset <= clock
      /\ \A i \in cursor + 1 .. Size : clock <= log[i].offset
  BY DEF StepOnce, ReplayIInv, TypeOK, NothingSkipped, StateIsDecoded,
         FinishedAtEnd, replayConfig
<1>1. /\ Size \in Nat /\ Duration \in Nat /\ cursor \in Nat
      /\ \A i \in 1 .. Size : /\ log[i].offset \in Nat
                              /\ log[i].offset <= Duration
      /\ \A i, j \in 1 .. Size : i <= j => log[i].offset <= log[j].offset
  <2>1. log \in Logs BY <1>0
  <2>2. Size \in Nat BY <2>1, LogFacts
  <2>3. cursor \in Nat BY <1>0, <2>2
  <2> QED BY <2>1, <2>3, LogFacts
<1>2. ASSUME NEW first \in 1 .. Size, NEW s, PlayNext(first, s),
             Decode(s, first, first) = Decode(SeedState, 1, first)
      PROVE  ReplayIInv'
  <2>1. /\ clock' = log[first].offset /\ cursor' = first
        /\ state' = Decode(SeedState, 1, first)
        /\ finished' = (Size = 0 \/ (first = Size /\ end = "Stop"))
        /\ out' = <<first>> /\ since' = Placed(log[first].offset, first)
    BY <1>1, <1>2 DEF PlayNext
  <2>2. /\ log[first].offset \in Nat /\ log[first].offset <= Duration
        /\ first \in 0 .. Size
    BY <1>1
  <2>3. /\ \A i \in 1 .. first : log[i].offset <= log[first].offset
        /\ \A i \in first + 1 .. Size : log[first].offset <= log[i].offset
    BY <1>1
  <2>4. out' \in Seq(1 .. Size) BY <2>1
  <2>5. since' \in [clock : Nat, cursor : 0 .. Size, time : Nat, sent : Nat]
    BY <2>1, <2>2, PlacedType
  <2> QED BY <1>0, <2>1, <2>2, <2>3, <2>4, <2>5, PlaceInv
<1>3. CASE Size = 0 /\ out' = <<>> /\ UNCHANGED <<source, since>>
  <2>1. out' \in Seq(1 .. Size) BY <1>3
  <2> QED BY <1>0, <1>3, <2>1, PlaceInv DEF source
<1>4. CASE Size > 0 /\ cursor < Size /\ PlayNext(cursor + 1, state)
  <2>1. cursor + 1 \in 1 .. Size BY <1>1, <1>4
  <2>2. Decode(state, cursor + 1, cursor + 1) = Decode(SeedState, 1, cursor + 1)
    BY <1>0, <1>1, DecodeOn
  <2> QED BY <1>2, <1>4, <2>1, <2>2
<1>5. CASE Size > 0 /\ cursor = Size /\ end = "Loop" /\ PlayNext(1, SeedState)
  <2>1. 1 \in 1 .. Size BY <1>1, <1>5
  <2> QED BY <1>2, <1>5, <2>1
<1>6. CASE /\ Size > 0 /\ cursor = Size /\ end = "Stop"
           /\ finished' = TRUE /\ out' = <<>>
           /\ UNCHANGED <<clock, cursor, state, since>>
  <2>1. out' \in Seq(1 .. Size) BY <1>6
  <2> QED BY <1>0, <1>6, <2>1, PlaceInv
<1> QED BY <1>3, <1>4, <1>5, <1>6 DEF StepOnce

LEMMA SeekInv ==
    ASSUME ReplayIInv, NEW p \in Positions, Seek(p)
    PROVE  ReplayIInv'
<1> DEFINE c == WithinLog(p)
           k == PlayedTo(0, c)
<1>0. UNCHANGED replayConfig /\ log \in Logs /\ Size \in Nat /\ Duration \in Nat
      /\ \A i \in 1 .. Size : log[i].offset \in Nat
  BY LogFacts DEF Seek, ReplayIInv, TypeOK
<1>1. c \in Nat /\ c <= Duration
  BY <1>0, InputAssumption DEF WithinLog
<1>2. /\ clock' = c /\ cursor' = k /\ state' = Decode(SeedState, 1, k)
      /\ finished' = (Size = 0 \/ (k = Size /\ end = "Stop"))
      /\ out' = <<>> /\ since' = Placed(c, k)
  BY DEF Seek
<1> HIDE DEF c
<1>3. /\ k \in 0 .. Size
      /\ \A i \in 1 .. k : log[i].offset <= c
      /\ \A i \in k + 1 .. Size : c < log[i].offset
  <2>1. 0 \in 0 .. Size BY <1>0
  <2>2. \A i \in 0 + 1 .. k : log[i].offset <= c
    BY <1>0, <1>1, <2>1, PlayedToFacts
  <2> QED BY <1>0, <1>1, <2>1, <2>2, PlayedToFacts
<1> HIDE DEF k
<1>4. \A i \in k + 1 .. Size : c <= log[i].offset
  BY <1>0, <1>1, <1>3
<1>5. out' \in Seq(1 .. Size) BY <1>2
<1>6. since' \in [clock : Nat, cursor : 0 .. Size, time : Nat, sent : Nat]
  BY <1>1, <1>2, <1>3, PlacedType
<1> QED BY <1>0, <1>1, <1>2, <1>3, <1>4, <1>5, <1>6, PlaceInv

LEMMA ResetInv ==
    ASSUME ReplayIInv, Reset
    PROVE  ReplayIInv'
<1>0. UNCHANGED replayConfig /\ log \in Logs /\ Size \in Nat /\ Duration \in Nat
      /\ \A i \in 1 .. Size : log[i].offset \in Nat
  BY LogFacts DEF Reset, ReplayIInv, TypeOK
<1>1. /\ clock' = 0 /\ cursor' = 0 /\ state' = Decode(SeedState, 1, 0)
      /\ finished' = (Size = 0 \/ (0 = Size /\ end = "Stop"))
      /\ out' = <<>> /\ since' = Placed(0, 0)
  BY DecodeNone DEF Reset
<1>2. 0 \in Nat /\ 0 \in 0 .. Size /\ 0 <= Duration BY <1>0
<1>3. /\ \A i \in 1 .. 0 : log[i].offset <= 0
      /\ \A i \in 0 + 1 .. Size : 0 <= log[i].offset
  BY <1>0
<1>4. out' \in Seq(1 .. Size) BY <1>1
<1>5. since' \in [clock : Nat, cursor : 0 .. Size, time : Nat, sent : Nat]
  BY <1>1, <1>2, PlacedType
<1> QED BY <1>0, <1>1, <1>2, <1>3, <1>4, <1>5, PlaceInv

LEMMA NextInv == ReplayIInv /\ [Next]_vars => ReplayIInv'
<1> SUFFICES ASSUME ReplayIInv, [Next]_vars PROVE ReplayIInv' OBVIOUS
<1>1. ASSUME NEW dt \in Steps, Step(dt) PROVE ReplayIInv'
  BY <1>1, StepInv
<1>2. CASE StepOnce BY <1>2, StepOnceInv
<1>3. ASSUME NEW p \in Positions, Seek(p) PROVE ReplayIInv'
  BY <1>3, SeekInv
<1>4. CASE Reset BY <1>4, ResetInv
<1>5. CASE UNCHANGED vars
  <2>1. /\ log' = log /\ end' = end /\ clock' = clock /\ cursor' = cursor
        /\ state' = state /\ finished' = finished /\ out' = out
        /\ since' = since /\ Size' = Size /\ Duration' = Duration
    BY <1>5 DEF vars, Size, Duration
  <2>2. TypeOK' BY <2>1 DEF ReplayIInv, TypeOK
  <2>3. NothingSkipped' BY <2>1 DEF ReplayIInv, NothingSkipped
  <2>4. StateIsDecoded' BY <2>1 DEF ReplayIInv, StateIsDecoded, Decode, SeedState
  <2>5. FinishedAtEnd' BY <2>1 DEF ReplayIInv, FinishedAtEnd
  <2> QED BY <2>2, <2>3, <2>4, <2>5 DEF ReplayIInv
<1> QED BY <1>1, <1>2, <1>3, <1>4, <1>5 DEF Next

LEMMA SpecInv == Spec => []ReplayIInv
  BY InitInv, NextInv, PTL DEF Spec

-----------------------------------------------------------------------------
(* The clock, the cursor and the decoded state stay within the log.        *)
THEOREM TypeCorrect == Spec => []TypeOK
<1>1. ReplayIInv => TypeOK BY DEF ReplayIInv
<1> QED BY <1>1, SpecInv, PTL

(* For every log, every mix of advances, single steps, seeks and resets:   *)
(* no entry behind the clock is left unplayed and none ahead is played.    *)
THEOREM NothingIsSkipped == Spec => []NothingSkipped
<1>1. ReplayIInv => NothingSkipped BY DEF ReplayIInv
<1> QED BY <1>1, SpecInv, PTL

(* The decoded state depends only on where the replay is, not on how it    *)
(* got there.                                                              *)
THEOREM SeekingEqualsPlaying == Spec => []StateIsDecoded
<1>1. ReplayIInv => StateIsDecoded BY DEF ReplayIInv
<1> QED BY <1>1, SpecInv, PTL

(* A replay is finished exactly when a stopping one has nothing left.      *)
THEOREM FinishedIsTheEnd == Spec => []FinishedAtEnd
<1>1. ReplayIInv => FinishedAtEnd BY DEF ReplayIInv
<1> QED BY <1>1, SpecInv, PTL

-----------------------------------------------------------------------------
(* Laps: quotient and remainder of a time by the duration of a lap.        *)
LEMMA ModLaps ==
    ASSUME NEW a \in Nat, NEW d \in Nat \ {0}, NEW q \in Nat
    PROVE  (d * q + a) % d = a % d
<1> DEFINE r == a % d
           p == a \div d
<1>1. a = d * p + r /\ r \in 0 .. d - 1 /\ p \in Nat BY DivMod
<1> HIDE DEF r, p
<1>2. d * q + a = d * (q + p) + r BY <1>1
<1>3. d * q + a \in Nat /\ q + p \in Nat BY <1>1
<1>4. (d * q + a) % d = r BY <1>1, <1>2, <1>3, ModUnique
<1> QED BY <1>4 DEF r

-----------------------------------------------------------------------------
(* What an advance sends, wherever it stops: the entries that follow the   *)
(* cursor, round and round, up to the new cursor.                          *)
Sent(o) ==
    /\ o \in Seq(1 .. Size)
    /\ \A i \in 1 .. Len(o) : o[i] = ((cursor + i - 1) % Size) + 1
    /\ o # <<>> => cursor' \in {o[Len(o)], 0}

Joins(S, s, t, n, m) ==
    /\ s \o t \in Seq(S)
    /\ Len(s \o t) = n + m
    /\ \A i \in 1 .. n : (s \o t)[i] = s[i]
    /\ \A i \in 1 .. m : (s \o t)[n + i] = t[i]

LEMMA Joined ==
    ASSUME NEW S, NEW s \in Seq(S), NEW t \in Seq(S),
           NEW n \in Nat, NEW m \in Nat, Len(s) = n, Len(t) = m
    PROVE  Joins(S, s, t, n, m)
<1>1. s \o t \in Seq(S) OBVIOUS
<1>2. Len(s \o t) = n + m OBVIOUS
<1>3. \A i \in 1 .. n : (s \o t)[i] = s[i] OBVIOUS
<1>4. \A i \in 1 .. m : (s \o t)[n + i] = t[i] OBVIOUS
<1> QED BY <1>1, <1>2, <1>3, <1>4 DEF Joins

(* Three stretches of a replay that wraps: what is left of this pass, the  *)
(* whole passes, and the start of the last one.                            *)
LEMMA WrapSent ==
    ASSUME Size \in Nat \ {0}, NEW c \in 0 .. Size, NEW n \in Nat,
           NEW k \in 0 .. Size
    PROVE  LET o == Run(c + 1, Size) \o Passes(n) \o Run(1, k)
           IN  /\ o \in Seq(1 .. Size)
               /\ Len(o) = (Size - c) + n * Size + k
               /\ \A i \in 1 .. Len(o) : o[i] = ((c + i - 1) % Size) + 1
               /\ k > 0 => o[Len(o)] = k
<1> DEFINE a == Run(c + 1, Size)
           b == Passes(n)
           e == Run(1, k)
           o == a \o b \o e
           m == n * Size
<1>1. /\ a \in Seq(1 .. Size) /\ Len(a) = Size - c
      /\ \A i \in 1 .. Size - c : a[i] = c + i
  <2>1. c + 1 \in Nat \ {0} /\ Size \in 0 .. Size /\ c + 1 <= Size + 1 OBVIOUS
  <2>2. /\ a \in Seq(1 .. Size) /\ Len(a) = Size - (c + 1) + 1
        /\ \A i \in 1 .. Size - (c + 1) + 1 : a[i] = (c + 1) + i - 1
    BY <2>1, RunType
  <2> HIDE DEF a
  <2> QED BY <2>2
<1>2. /\ b \in Seq(1 .. Size) /\ Len(b) = m /\ m \in Nat
      /\ \A i \in 1 .. m : b[i] = ((i - 1) % Size) + 1
  BY PassesType
<1>3. /\ e \in Seq(1 .. Size) /\ Len(e) = k
      /\ \A i \in 1 .. k : e[i] = i
  <2>0. 1 \in Nat \ {0} /\ Size \in Nat /\ 1 <= k + 1 OBVIOUS
  <2>1. /\ e \in Seq(1 .. Size) /\ Len(e) = k - 1 + 1
        /\ \A i \in 1 .. k - 1 + 1 : e[i] = 1 + i - 1
    BY <2>0, RunType, Zenon
  <2> HIDE DEF e
  <2> QED BY <2>1
<1>m. m = Size * n BY DEF m
<1> HIDE DEF a, b, e, m
<1>4. /\ o \in Seq(1 .. Size) /\ Len(o) = (Size - c) + m + k
      /\ \A i \in 1 .. Size - c : o[i] = a[i]
      /\ \A i \in 1 .. m : o[(Size - c) + i] = b[i]
      /\ \A i \in 1 .. k : o[(Size - c) + m + i] = e[i]
  <2> DEFINE p == a \o b
             l == Size - c
             lm == l + m
  <2>0. l \in Nat /\ lm \in Nat BY <1>2
  <2>1. Len(a) = l BY <1>1
  <2>l. l = Size - c OBVIOUS
  <2> HIDE DEF l
  <2>2. /\ p \in Seq(1 .. Size) /\ Len(p) = lm
        /\ \A i \in 1 .. l : p[i] = a[i]
        /\ \A i \in 1 .. m : p[l + i] = b[i]
    <3>1. m \in Nat /\ Len(b) = m BY <1>2
    <3>2. a \in Seq(1 .. Size) /\ b \in Seq(1 .. Size) BY <1>1, <1>2
    <3>3. Joins(1 .. Size, a, b, l, m) BY <2>0, <2>1, <3>1, <3>2, Joined, Zenon
    <3> QED BY <3>3 DEF Joins
  <2>m. lm = l + m OBVIOUS
  <2> HIDE DEF p, lm
  <2>3. /\ p \o e \in Seq(1 .. Size) /\ Len(p \o e) = lm + k
        /\ \A i \in 1 .. lm : (p \o e)[i] = p[i]
        /\ \A i \in 1 .. k : (p \o e)[lm + i] = e[i]
    <3>1. k \in Nat OBVIOUS
    <3>2. e \in Seq(1 .. Size) /\ Len(e) = k BY <1>3
    <3>3. Joins(1 .. Size, p, e, lm, k) BY <2>0, <2>2, <3>1, <3>2, Joined, Zenon
    <3> QED BY <3>3 DEF Joins
  <2>4. o = p \o e BY DEF p
  <2> HIDE DEF o
  <2>5. \A i \in 1 .. l : i \in 1 .. lm BY <1>2, <2>0, <2>m
  <2>6. \A i \in 1 .. m : l + i \in 1 .. lm BY <1>2, <2>0, <2>m
  <2> QED BY <2>2, <2>3, <2>4, <2>5, <2>6, <2>l, <2>m
<1> HIDE DEF o
<1>5. ASSUME NEW i \in 1 .. Len(o) PROVE o[i] = ((c + i - 1) % Size) + 1
  <2>1. CASE i <= Size - c
    <3>1. o[i] = c + i BY <1>1, <1>4, <2>1
    <3>2. c + i - 1 \in 0 .. Size - 1 /\ c + i - 1 = Size * 0 + (c + i - 1)
      BY <1>4, <2>1
    <3>3. (c + i - 1) % Size = c + i - 1
      <4> DEFINE x == c + i - 1
      <4>1. x \in 0 .. Size - 1 /\ x = Size * 0 + x /\ x \in Nat BY <3>2
      <4> HIDE DEF x
      <4>2. x % Size = x BY <4>1, ModUnique
      <4> QED BY <4>2 DEF x
    <3> QED BY <3>1, <3>3, <1>4
  <2>2. CASE i > Size - c /\ i <= (Size - c) + m
    <3> DEFINE j == i - (Size - c)
               x == j - 1
    <3>1. j \in 1 .. m /\ i = (Size - c) + j /\ x \in Nat /\ c + i - 1 = Size * 1 + x
      BY <1>2, <1>4, <2>2
    <3>2. o[i] = (x % Size) + 1 BY <1>2, <1>4, <3>1
    <3> HIDE DEF x, j
    <3>3. (Size * 1 + x) % Size = x % Size BY <3>1, ModLaps
    <3> QED BY <3>1, <3>2, <3>3
  <2>3. CASE i > (Size - c) + m
    <3> DEFINE j == i - ((Size - c) + m)
               x == j - 1
    <3>1. /\ j \in 1 .. k /\ i = (Size - c) + m + j /\ x \in 0 .. Size - 1
          /\ x \in Nat /\ c + i - 1 = Size + m + x /\ x + 1 = j
      BY <1>2, <1>4, <2>3
    <3>2. o[i] = j BY <1>3, <1>4, <3>1
    <3> HIDE DEF x, j
    <3>3. n + 1 \in Nat /\ c + i - 1 = Size * (n + 1) + x BY <1>m, <3>1
    <3>4. (Size * (n + 1) + x) % Size = x
      <4>1. Size * (n + 1) + x \in Nat BY <1>m, <1>2, <3>1, <3>3
      <4> QED BY <3>1, <3>3, <4>1, ModUnique
    <3> QED BY <3>1, <3>2, <3>3, <3>4
  <2> QED BY <1>2, <1>4, <2>1, <2>2, <2>3
<1>6. k > 0 => o[Len(o)] = k
  <2> SUFFICES ASSUME k > 0 PROVE o[Len(o)] = k OBVIOUS
  <2>1. k \in 1 .. k /\ Len(o) = (Size - c) + m + k BY <1>4
  <2> QED BY <1>3, <1>4, <2>1
<1> QED BY <1>4, <1>5, <1>6 DEF o, a, b, e, m

(* One stretch of the pass.                                                *)
LEMMA RunSent ==
    ASSUME Size \in Nat \ {0}, NEW c \in 0 .. Size, NEW k \in c .. Size
    PROVE  LET o == Run(c + 1, k)
           IN  /\ o \in Seq(1 .. Size)
               /\ Len(o) = k - c
               /\ \A i \in 1 .. Len(o) : o[i] = ((c + i - 1) % Size) + 1
               /\ o # <<>> => o[Len(o)] = k
<1> DEFINE o == Run(c + 1, k)
<1>1. c + 1 \in Nat \ {0} /\ k \in 0 .. Size /\ c + 1 <= k + 1 OBVIOUS
<1>2. /\ o \in Seq(1 .. Size) /\ Len(o) = k - (c + 1) + 1
      /\ \A i \in 1 .. k - (c + 1) + 1 : o[i] = (c + 1) + i - 1
  BY <1>1, RunType
<1> HIDE DEF o
<1>3. Len(o) = k - c /\ \A i \in 1 .. k - c : o[i] = c + i BY <1>2
<1>4. ASSUME NEW i \in 1 .. Len(o) PROVE o[i] = ((c + i - 1) % Size) + 1
  <2> DEFINE x == c + i - 1
  <2>1. x \in 0 .. Size - 1 /\ x = Size * 0 + x /\ x \in Nat /\ o[i] = x + 1
    BY <1>3
  <2> HIDE DEF x
  <2>2. x % Size = x BY <2>1, ModUnique
  <2> QED BY <2>1, <2>2 DEF x
<1>5. o # <<>> => o[Len(o)] = k
  <2> SUFFICES ASSUME o # <<>> PROVE o[Len(o)] = k OBVIOUS
  <2>1. Len(o) # 0 /\ Len(o) \in Nat BY <1>2
  <2> QED BY <1>3, <2>1
<1> QED BY <1>2, <1>3, <1>4, <1>5 DEF o

(* What one call hands over follows the cursor; where the cursor is then.  *)
LEMMA AdvanceSends ==
    ASSUME ReplayIInv, NEW dt \in Steps, Advance(dt), Size # 0
    PROVE  /\ Sent(out')
           /\ PlayOn(dt) => Len(out') = cursor' - cursor
           /\ RunOut(dt) => Len(out') = Size - cursor
           /\ WrapAround(dt) =>
                Len(out') = (Size - cursor)
                              + ((Now(dt) \div Duration) - 1) * Size + cursor'
<1>0. /\ log \in Logs /\ clock \in Nat /\ cursor \in 0 .. Size
      /\ dt \in Nat \ {0} /\ Size \in Nat \ {0} /\ Duration \in Nat
      /\ \A i \in 1 .. Size : log[i].offset \in Nat
  BY InputAssumption, LogFacts DEF ReplayIInv, TypeOK
<1> DEFINE now == Now(dt)
           r == Reached(dt)
<1>1. now \in Nat /\ now >= clock BY <1>0 DEF Now
<1>2. r \in cursor .. Size /\ \A i \in cursor + 1 .. r : log[i].offset <= now
  <2>1. r = PlayedTo(cursor, now) BY DEF Reached
  <2> HIDE DEF now, r
  <2> QED BY <1>0, <1>1, <2>1, PlayedToFacts
<1> HIDE DEF now, r
<1>3. /\ Run(cursor + 1, r) \in Seq(1 .. Size)
      /\ Len(Run(cursor + 1, r)) = r - cursor
      /\ \A i \in 1 .. Len(Run(cursor + 1, r)) :
            Run(cursor + 1, r)[i] = ((cursor + i - 1) % Size) + 1
      /\ Run(cursor + 1, r) # <<>> =>
            Run(cursor + 1, r)[Len(Run(cursor + 1, r))] = r
  BY <1>0, <1>2, RunSent
<1>4. CASE PlayOn(dt)
  <2>1. cursor' = r /\ out' = Run(cursor + 1, r) /\ r < Size
    BY <1>4 DEF PlayOn, r
  <2>2. r # Size BY <1>0, <1>2, <2>1
  <2>3. ~ WrapAround(dt) /\ ~ RunOut(dt) BY <2>2 DEF WrapAround, RunOut, r
  <2>4. Sent(out') BY <1>3, <2>1 DEF Sent
  <2> QED BY <1>3, <2>1, <2>3, <2>4
<1>5. CASE WrapAround(dt)
  <2> DEFINE k == PlayedTo(0, now % Duration)
             n == (now \div Duration) - 1
  <2>1. /\ r = Size /\ Duration > 0 /\ end = "Loop" /\ cursor' = k
        /\ out' = Run(cursor + 1, Size) \o Passes(n) \o Run(1, k)
    BY <1>5 DEF WrapAround, now, r
  <2>2. Duration \in Nat \ {0} /\ now % Duration \in Nat
    <3>1. Duration \in Nat \ {0} BY <1>0, <2>1
    <3>2. now % Duration \in 0 .. Duration - 1 BY <1>1, <3>1, DivMod
    <3> QED BY <3>1, <3>2
  <2>3. k \in 0 .. Size
    <3>1. 0 \in 0 .. Size BY <1>0
    <3> QED BY <1>0, <2>2, <3>1, PlayedToFacts
  <2>4. now >= Duration
    <3>1. Size \in 1 .. Size /\ Duration = log[Size].offset
      BY <1>0 DEF Duration
    <3>2. Size \in 1 .. cursor \/ Size \in cursor + 1 .. Size BY <1>0
    <3>3. CASE Size \in 1 .. cursor
      <4>1. log[Size].offset <= clock
        BY <3>3 DEF ReplayIInv, NothingSkipped
      <4> QED BY <1>0, <1>1, <3>1, <4>1
    <3>4. CASE Size \in cursor + 1 .. Size
      BY <1>2, <2>1, <3>1, <3>4
    <3> QED BY <3>2, <3>3, <3>4
  <2>5. n \in Nat BY <1>1, <2>2, <2>4, Division
  <2> HIDE DEF k, n
  <2>6. /\ out' \in Seq(1 .. Size)
        /\ Len(out') = (Size - cursor) + n * Size + k
        /\ \A i \in 1 .. Len(out') : out'[i] = ((cursor + i - 1) % Size) + 1
        /\ k > 0 => out'[Len(out')] = k
    <3> DEFINE o == Run(cursor + 1, Size) \o Passes(n) \o Run(1, k)
    <3>1. /\ o \in Seq(1 .. Size)
          /\ Len(o) = (Size - cursor) + n * Size + k
          /\ \A i \in 1 .. Len(o) : o[i] = ((cursor + i - 1) % Size) + 1
          /\ k > 0 => o[Len(o)] = k
      BY <1>0, <2>3, <2>5, WrapSent, Zenon
    <3>2. out' = o BY <2>1
    <3> HIDE DEF o
    <3> QED BY <3>1, <3>2
  <2>7. Sent(out')
    <3>1. cursor' \in {out'[Len(out')], 0}
      <4>1. k > 0 \/ k = 0 BY <1>0, <2>3
      <4> QED BY <2>1, <2>6, <4>1
    <3> QED BY <2>6, <3>1 DEF Sent
  <2>8. ~ PlayOn(dt) /\ ~ RunOut(dt)
    BY <1>0, <2>1 DEF PlayOn, RunOut, r
  <2> QED BY <2>1, <2>6, <2>7, <2>8 DEF n, now
<1>6. CASE StartOver(dt)
  <2>1. /\ r = Size /\ end = "Loop" /\ Duration = 0 /\ cursor' = 0
        /\ out' = Run(cursor + 1, r)
    BY <1>6 DEF StartOver, r
  <2>2. ~ PlayOn(dt) /\ ~ RunOut(dt) /\ ~ WrapAround(dt)
    BY <1>0, <2>1 DEF PlayOn, RunOut, WrapAround, r
  <2> QED BY <1>3, <2>1, <2>2 DEF Sent
<1>7. CASE RunOut(dt)
  <2>1. /\ r = Size /\ end = "Stop" /\ cursor' = r
        /\ out' = Run(cursor + 1, r)
    BY <1>7 DEF RunOut, r
  <2>2. ~ PlayOn(dt) /\ ~ WrapAround(dt)
    BY <1>0, <2>1 DEF PlayOn, WrapAround, r
  <2> QED BY <1>0, <1>3, <2>1, <2>2 DEF Sent
<1>8. CASE Stay
  <2>1. out' = <<>> BY <1>8 DEF Stay
  <2>2. ~ PlayOn(dt) /\ ~ WrapAround(dt) /\ ~ RunOut(dt)
    BY <1>8 DEF Stay, PlayOn, WrapAround, RunOut
  <2> QED BY <2>1, <2>2 DEF Sent
<1> QED BY <1>4, <1>5, <1>6, <1>7, <1>8 DEF Advance

LEMMA NextSends ==
    ASSUME ReplayIInv, Next, out' # <<>>
    PROVE  Size # 0 /\ Sent(out')
<1>0. log \in Logs /\ cursor \in 0 .. Size /\ Size \in Nat
  BY LogFacts DEF ReplayIInv, TypeOK
<1>1. ASSUME NEW dt \in Steps, Step(dt) PROVE Size # 0 /\ Sent(out')
  <2>1. Advance(dt) BY <1>1 DEF Step
  <2>2. Size # 0
    BY <2>1 DEF Advance, PlayOn, WrapAround, StartOver, RunOut, Stay, Ignored
  <2> QED BY <2>1, <2>2, AdvanceSends
<1>2. CASE StepOnce
  <2>1. ASSUME NEW first \in 1 .. Size, NEW s, PlayNext(first, s),
               first = (cursor % Size) + 1, Size # 0
        PROVE  Size # 0 /\ Sent(out')
    <3>1. out' = <<first>> /\ cursor' = first BY <2>1 DEF PlayNext
    <3>2. /\ Len(out') = 1 /\ out'[1] = first /\ out' \in Seq(1 .. Size)
          /\ cursor + 1 - 1 = cursor
      BY <1>0, <2>1, <3>1
    <3> QED BY <2>1, <3>1, <3>2 DEF Sent
  <2>2. CASE Size > 0 /\ cursor < Size /\ PlayNext(cursor + 1, state)
    <3>1. cursor \in 0 .. Size - 1 /\ cursor = Size * 0 + cursor
          /\ cursor \in Nat /\ Size \in Nat \ {0} /\ cursor + 1 \in 1 .. Size
      BY <1>0, <2>2
    <3>2. cursor % Size = cursor BY <3>1, ModUnique
    <3> QED BY <2>1, <2>2, <3>1, <3>2
  <2>3. CASE Size > 0 /\ cursor = Size /\ end = "Loop" /\ PlayNext(1, SeedState)
    <3>1. 0 \in 0 .. Size - 1 /\ cursor = Size * 1 + 0
          /\ cursor \in Nat /\ Size \in Nat \ {0} /\ 1 \in 1 .. Size
      BY <1>0, <2>3
    <3>2. cursor % Size = 0 BY <3>1, ModUnique
    <3>3. 1 = (cursor % Size) + 1 BY <3>2
    <3> QED BY <2>1, <2>3, <3>1, <3>3
  <2> QED BY <1>2, <2>2, <2>3 DEF StepOnce
<1>3. ASSUME NEW p \in Positions, Seek(p) PROVE FALSE BY <1>3 DEF Seek
<1>4. ~ Reset BY DEF Reset
<1> QED BY <1>1, <1>2, <1>3, <1>4 DEF Next

InOrder ==
    out' # <<>> =>
        /\ out'[1] = Following(cursor)
        /\ \A i \in 1 .. Len(out') - 1 : out'[i + 1] = Following(out'[i])
        /\ cursor' \in {out'[Len(out')], 0}

LEMMA NextInOrder == ReplayIInv /\ [Next]_vars => [InOrder]_vars
<1> SUFFICES ASSUME ReplayIInv, Next, out' # <<>> PROVE InOrder BY DEF InOrder
<1>1. Size # 0 /\ Sent(out') BY NextSends
<1>2. /\ cursor \in 0 .. Size /\ cursor \in Nat /\ Size \in Nat \ {0}
  BY <1>1, LogFacts DEF ReplayIInv, TypeOK
<1>3. /\ out' \in Seq(1 .. Size) /\ Len(out') \in Nat /\ Len(out') > 0
      /\ \A i \in 1 .. Len(out') : out'[i] = ((cursor + i - 1) % Size) + 1
      /\ cursor' \in {out'[Len(out')], 0}
  BY <1>1 DEF Sent
<1>4. out'[1] = Following(cursor)
  <2>1. 1 \in 1 .. Len(out') /\ cursor + 1 - 1 = cursor BY <1>2, <1>3
  <2>2. out'[1] = ((cursor + 1 - 1) % Size) + 1 BY <1>3, <2>1
  <2> QED BY <2>1, <2>2 DEF Following
<1>5. ASSUME NEW i \in 1 .. Len(out') - 1
      PROVE  out'[i + 1] = Following(out'[i])
  <2> DEFINE x == cursor + i - 1
  <2>1. x \in Nat /\ cursor + (i + 1) - 1 = x + 1 /\ 1 \in Nat
        /\ i \in 1 .. Len(out') /\ i + 1 \in 1 .. Len(out')
    BY <1>2, <1>3
  <2>2. out'[i] = (x % Size) + 1 BY <1>3, <2>1
  <2>3. out'[i + 1] = ((x + 1) % Size) + 1
    <3>1. out'[i + 1] = ((cursor + (i + 1) - 1) % Size) + 1 BY <1>3, <2>1
    <3> QED BY <2>1, <3>1
  <2> HIDE DEF x
  <2>4. ((x % Size) + 1) % Size = (x + 1) % Size BY <1>2, <2>1, ModAdd
  <2> QED BY <2>2, <2>3, <2>4 DEF Following
<1> QED BY <1>3, <1>4, <1>5 DEF InOrder

-----------------------------------------------------------------------------
(* NoHiccup, for a log with a duration, with its two kinds of end apart.   *)
Laps(n) ==
    /\ since.clock + since.time = n * Duration + clock
    /\ since.cursor + since.sent = n * Size + cursor

OnePass ==
    /\ clock = IF since.clock + since.time < Duration
               THEN since.clock + since.time ELSE Duration
    /\ since.cursor + since.sent = cursor

LEMMA TimeFacts ==
    TypeOK => /\ Size \in Nat /\ Duration \in Nat
              /\ clock \in Nat /\ cursor \in Nat /\ cursor <= Size
              /\ since.clock \in Nat /\ since.time \in Nat
              /\ since.cursor \in Nat /\ since.sent \in Nat
  BY LogFacts DEF TypeOK

LEMMA HiccupParts ==
    TypeOK /\ Duration > 0 =>
      (NoHiccup <=> IF end = "Loop" THEN \E n \in Nat : Laps(n) ELSE OnePass)
<1> SUFFICES ASSUME TypeOK, Duration > 0
             PROVE  NoHiccup <=> IF end = "Loop" THEN \E n \in Nat : Laps(n)
                                 ELSE OnePass
  OBVIOUS
<1>1. /\ Duration \in Nat \ {0} /\ Size \in Nat /\ clock \in Nat
      /\ since.clock \in Nat /\ since.time \in Nat
  BY TimeFacts
<1>2. ASSUME NEW n \in Nat, Laps(n)
      PROVE  n \in 0 .. since.clock + since.time
  <2>1. since.clock + since.time = n * Duration + clock BY <1>2 DEF Laps
  <2>2. n * Duration >= n /\ n * Duration \in Nat BY <1>1
  <2> QED BY <1>1, <2>1, <2>2
<1>3. 0 .. since.clock + since.time \subseteq Nat BY <1>1
<1>4. CASE end = "Loop"
  <2>1. NoHiccup <=> \E n \in 0 .. since.clock + since.time : Laps(n)
    BY <1>4 DEF NoHiccup, Laps
  <2> QED BY <1>2, <1>3, <1>4, <2>1
<1>5. CASE end # "Loop" BY <1>5 DEF NoHiccup, OnePass
<1> QED BY <1>4, <1>5

LEMMA TimeFactsAfter ==
    TypeOK' => /\ Size' \in Nat /\ Duration' \in Nat
               /\ clock' \in Nat /\ cursor' \in Nat /\ cursor' <= Size'
               /\ since'.clock \in Nat /\ since'.time \in Nat
               /\ since'.cursor \in Nat /\ since'.sent \in Nat
<1>1. (TypeOK => /\ Size \in Nat /\ Duration \in Nat
                 /\ clock \in Nat /\ cursor \in Nat /\ cursor <= Size
                 /\ since.clock \in Nat /\ since.time \in Nat
                 /\ since.cursor \in Nat /\ since.sent \in Nat)'
  BY TimeFacts, PTL
<1> QED BY <1>1

LEMMA HiccupPartsAfter ==
    ASSUME TypeOK',
           Duration' > 0 => IF end' = "Loop" THEN \E n \in Nat : Laps(n)'
                            ELSE OnePass'
    PROVE  NoHiccup'
<1>1. (TypeOK /\ Duration > 0 =>
        (NoHiccup <=> IF end = "Loop" THEN \E n \in Nat : Laps(n) ELSE OnePass))'
  BY HiccupParts, PTL
<1>2. CASE Duration' > 0 BY <1>1, <1>2
<1>3. CASE ~ (Duration' > 0) BY <1>3 DEF NoHiccup
<1> QED BY <1>2, <1>3

(* A placement starts anew.                                                *)
LEMMA PlacedNoHiccup ==
    ASSUME TypeOK', since' = Placed(clock', cursor'), clock' <= Duration'
    PROVE  NoHiccup'
<1>1. /\ since'.clock = clock' /\ since'.time = 0
      /\ since'.cursor = cursor' /\ since'.sent = 0
  BY DEF Placed
<1>2. /\ clock' \in Nat /\ cursor' \in Nat /\ Size' \in Nat /\ Duration' \in Nat
      /\ since'.clock \in Nat /\ since'.time \in Nat
      /\ since'.cursor \in Nat /\ since'.sent \in Nat
  BY TimeFactsAfter
<1>3. Laps(0)' BY <1>1, <1>2 DEF Laps
<1>4. OnePass'
  <2>1. clock' = since'.clock /\ cursor' = since'.cursor BY <1>1
  <2>2. clock' = IF since'.clock + since'.time < Duration'
                 THEN since'.clock + since'.time ELSE Duration'
    <3>1. since'.time = 0 BY <1>1
    <3> QED BY <1>2, <2>1, <3>1
  <2>3. since'.cursor + since'.sent = cursor'
    <3>1. since'.sent = 0 BY <1>1
    <3> QED BY <1>2, <2>1, <3>1
  <2> QED BY <2>2, <2>3 DEF OnePass
<1> QED BY <1>3, <1>4, HiccupPartsAfter

LEMMA StepNoHiccup ==
    ASSUME ReplayIInv, ReplayIInv', NoHiccup, NEW dt \in Steps, Step(dt)
    PROVE  NoHiccup'
<1> SUFFICES ASSUME Duration > 0
             PROVE  IF end = "Loop" THEN \E n \in Nat : Laps(n)' ELSE OnePass'
  <2>1. Duration' = Duration /\ end' = end
    BY DEF Step, replayConfig, Duration, Size
  <2> QED BY <2>1, HiccupPartsAfter DEF ReplayIInv
<1>0. /\ dt \in Nat
      /\ log' = log /\ end' = end /\ end \in {"Stop", "Loop"}
      /\ Duration' = Duration /\ Size' = Size
  BY InputAssumption DEF Step, replayConfig, Duration, Size, ReplayIInv, TypeOK
<1>a. Advance(dt) /\ since' = IF Ignored THEN since ELSE Played(dt, out')
  BY DEF Step
<1>1. /\ Size \in Nat /\ Duration \in Nat
      /\ clock \in Nat /\ cursor \in Nat /\ cursor <= Size
      /\ since.clock \in Nat /\ since.time \in Nat
      /\ since.cursor \in Nat /\ since.sent \in Nat
      /\ cursor' \in Nat /\ clock' \in Nat
      /\ since'.clock \in Nat /\ since'.time \in Nat
      /\ since'.cursor \in Nat /\ since'.sent \in Nat
  BY TimeFacts, TimeFactsAfter DEF ReplayIInv
<1>2. Size # 0 BY DEF Duration
<1>3. IF end = "Loop" THEN \E n \in Nat : Laps(n) ELSE OnePass
  BY HiccupParts DEF ReplayIInv
<1>4. /\ PlayOn(dt) => Len(out') = cursor' - cursor
      /\ RunOut(dt) => Len(out') = Size - cursor
      /\ WrapAround(dt) =>
            Len(out') = (Size - cursor)
                          + ((Now(dt) \div Duration) - 1) * Size + cursor'
  BY <1>a, <1>2, AdvanceSends
<1>5. ~ Ignored => /\ since'.clock = since.clock
                   /\ since'.time = since.time + dt
                   /\ since'.cursor = since.cursor
                   /\ since'.sent = since.sent + Len(out')
  BY <1>a DEF Played
<1>6. CASE PlayOn(dt)
  <2>1. /\ clock' = clock + dt /\ ~ Ignored /\ Reached(dt) < Size
        /\ cursor' = Reached(dt) /\ Len(out') = cursor' - cursor
    BY <1>4, <1>6 DEF PlayOn, Now
  <2>2. CASE end = "Loop"
    <3>1. PICK n \in Nat : Laps(n) BY <1>3, <2>2
    <3>2. Laps(n)'
      <4>1. /\ since.clock + since.time = n * Duration + clock
            /\ since.cursor + since.sent = n * Size + cursor
        BY <3>1 DEF Laps
      <4>2. PICK x \in Nat : x = n * Duration BY <1>1
      <4>3. PICK y \in Nat : y = n * Size BY <1>1
      <4>4. since.clock + (since.time + dt) = x + (clock + dt)
        <5>1. since.clock + since.time = x + clock BY <4>1, <4>2
        <5> QED BY <1>0, <1>1, <5>1
      <4>5. since.cursor + (since.sent + (cursor' - cursor)) = y + cursor'
        <5>1. since.cursor + since.sent = y + cursor BY <4>1, <4>3
        <5> QED BY <1>1, <5>1
      <4>6. /\ since'.clock + since'.time = n * Duration + clock'
            /\ since'.cursor + since'.sent = n * Size + cursor'
        BY <1>5, <2>1, <4>2, <4>3, <4>4, <4>5, Zenon
      <4> QED BY <1>0, <4>6 DEF Laps
    <3> QED BY <2>2, <3>2
  <2>3. CASE end = "Stop"
    <3>1. clock' < Duration
      <4>1. NothingSkipped' BY DEF ReplayIInv
      <4>2. clock' <= Duration BY <1>0, <4>1 DEF NothingSkipped
      <4>3. clock' # Duration
        <5> SUFFICES ASSUME clock' = Duration PROVE FALSE OBVIOUS
        <5>1. /\ log \in Logs /\ cursor \in 0 .. Size /\ clock + dt \in Nat
              /\ Reached(dt) = PlayedTo(cursor, clock + dt)
          BY <1>0, <1>1 DEF ReplayIInv, TypeOK, Reached, Now
        <5>2. \A i \in Reached(dt) + 1 .. Size : clock + dt < log[i].offset
          BY <5>1, PlayedToFacts
        <5>3. Size \in Reached(dt) + 1 .. Size /\ Size \in 1 .. Size
          BY <1>1, <1>2, <2>1
        <5>4. log[Size].offset = Duration BY <1>2 DEF Duration
        <5> QED BY <1>0, <1>1, <2>1, <5>2, <5>3, <5>4
      <4> QED BY <1>0, <1>1, <2>1, <4>2, <4>3
    <3>2. OnePass BY <1>3, <2>3
    <3>3. clock < Duration BY <1>0, <1>1, <2>1, <3>1
    <3>4. clock = since.clock + since.time /\ since.cursor + since.sent = cursor
      BY <1>1, <3>2, <3>3 DEF OnePass
    <3>5. clock' = since'.clock + since'.time /\ since'.cursor + since'.sent = cursor'
      <4>1. clock + dt = since.clock + (since.time + dt)
        BY <1>0, <1>1, <3>4
      <4>2. since.cursor + (since.sent + (cursor' - cursor)) = cursor'
        BY <1>1, <3>4
      <4> QED BY <1>5, <2>1, <4>1, <4>2, Zenon
    <3>6. OnePass' BY <1>0, <3>1, <3>5 DEF OnePass
    <3> QED BY <2>3, <3>6
  <2> QED BY <1>0, <2>2, <2>3
<1>7. CASE WrapAround(dt)
  <2> DEFINE now == Now(dt)
             q == now \div Duration
             m == q - 1
  <2>1. /\ ~ Ignored /\ end = "Loop" /\ clock' = now % Duration
        /\ Len(out') = (Size - cursor) + m * Size + cursor'
        /\ now = clock + dt
    BY <1>4, <1>7 DEF WrapAround, Now
  <2>2. /\ now = Duration * q + (now % Duration) /\ q \in Nat
        /\ now % Duration \in Nat
    <3>1. now \in Nat /\ Duration \in Nat \ {0} BY <1>0, <1>1, <2>1
    <3> HIDE DEF now
    <3> QED BY <3>1, DivMod
  <2>3. m = q - 1 OBVIOUS
  <2> HIDE DEF m, q, now
  <2>4. PICK n \in Nat : Laps(n) BY <1>3, <2>1
  <2>5. PICK z \in Nat : z = n + q BY <2>2
  <2>6. Laps(z)'
    <3>1. /\ since.clock + since.time = n * Duration + clock
          /\ since.cursor + since.sent = n * Size + cursor
      BY <2>4 DEF Laps
    <3>2. q \in Nat /\ m \in Int /\ q = m + 1 BY <2>2, <2>3
    <3>3. PICK x \in Nat : x = n * Duration BY <1>1
    <3>4. PICK y \in Nat : y = n * Size BY <1>1
    <3>5. PICK v \in Nat : v = Duration * q BY <1>1, <2>2
    <3>6. PICK w \in Int : w = m * Size BY <1>1, <3>2
    <3>7. PICK rest \in Nat : rest = now % Duration BY <2>2
    <3>8. z * Duration = x + v BY <1>1, <2>5, <3>2, <3>3, <3>5
    <3>9. z * Size = y + w + Size BY <1>1, <2>5, <3>2, <3>4, <3>6
    <3>10. since.clock + (since.time + dt) = z * Duration + rest
      <4>1. clock + dt = v + rest BY <2>1, <2>2, <3>5, <3>7
      <4>2. since.clock + since.time = x + clock BY <3>1, <3>3
      <4>3. since.clock + (since.time + dt) = (x + v) + rest
        BY <1>0, <1>1, <4>1, <4>2
      <4> QED BY <3>8, <4>3, Zenon
    <3>11. since.cursor + (since.sent + ((Size - cursor) + w + cursor'))
             = z * Size + cursor'
      <4>1. since.cursor + since.sent = y + cursor BY <3>1, <3>4
      <4>2. since.cursor + (since.sent + ((Size - cursor) + w + cursor'))
              = (y + w + Size) + cursor'
        BY <1>1, <4>1
      <4> QED BY <3>9, <4>2, Zenon
    <3>12. /\ since'.clock + since'.time = z * Duration + clock'
           /\ since'.cursor + since'.sent = z * Size + cursor'
      BY <1>5, <2>1, <3>6, <3>7, <3>10, <3>11, Zenon
    <3> QED BY <1>0, <3>12 DEF Laps
  <2> QED BY <2>1, <2>6
<1>8. CASE StartOver(dt) BY <1>1, <1>8 DEF StartOver
<1>9. CASE RunOut(dt)
  <2>1. /\ ~ Ignored /\ end = "Stop" /\ clock' = Duration /\ cursor' = Size
        /\ Reached(dt) = Size /\ Len(out') = Size - cursor
    BY <1>4, <1>9 DEF RunOut
  <2>2. OnePass BY <1>3, <2>1
  <2>3. clock + dt >= Duration
    <3>1. log \in Logs /\ cursor \in 0 .. Size /\ clock + dt \in Nat
          /\ Reached(dt) = PlayedTo(cursor, clock + dt)
      BY <1>0, <1>1 DEF ReplayIInv, TypeOK, Reached, Now
    <3>2. \A i \in cursor + 1 .. Size : log[i].offset <= clock + dt
      BY <2>1, <3>1, PlayedToFacts
    <3>3. log[Size].offset = Duration BY <1>2 DEF Duration
    <3>4. CASE cursor = Size
      <4>1. Size \in 1 .. cursor BY <1>1, <1>2, <3>4
      <4>2. log[Size].offset <= clock BY <4>1 DEF ReplayIInv, NothingSkipped
      <4> QED BY <1>0, <1>1, <3>3, <4>2
    <3>5. CASE cursor # Size
      <4>1. Size \in cursor + 1 .. Size BY <1>1, <3>5
      <4> QED BY <3>2, <3>3, <4>1
    <3> QED BY <3>4, <3>5
  <2>4. since.clock + since.time + dt >= Duration
    BY <1>0, <1>1, <2>2, <2>3 DEF OnePass
  <2>5. /\ clock' = Duration
        /\ ~ (since'.clock + since'.time < Duration)
        /\ since'.cursor + since'.sent = cursor'
    <3>1. ~ (since.clock + (since.time + dt) < Duration) BY <1>0, <1>1, <2>4
    <3>2. since.cursor + (since.sent + (Size - cursor)) = Size
      BY <1>1, <2>2 DEF OnePass
    <3> QED BY <1>5, <2>1, <3>1, <3>2, Zenon
  <2>6. OnePass' BY <1>0, <2>5 DEF OnePass
  <2> QED BY <2>1, <2>6
<1>10. CASE Stay
  <2>1. since' = since /\ clock' = clock /\ cursor' = cursor
    BY <1>a, <1>10 DEF Stay, source
  <2>2. \A n \in Nat : Laps(n) => Laps(n)' BY <1>0, <2>1 DEF Laps
  <2>3. OnePass => OnePass' BY <1>0, <2>1 DEF OnePass
  <2> QED BY <1>3, <2>2, <2>3
<1> QED BY <1>a, <1>6, <1>7, <1>8, <1>9, <1>10 DEF Advance

LEMMA NextNoHiccup == ReplayIInv /\ ReplayIInv' /\ NoHiccup /\ [Next]_vars => NoHiccup'
<1> SUFFICES ASSUME ReplayIInv, ReplayIInv', NoHiccup, [Next]_vars PROVE NoHiccup'
  OBVIOUS
<1>0. TypeOK' /\ clock' <= Duration' BY DEF ReplayIInv, NothingSkipped
<1>1. ASSUME NEW dt \in Steps, Step(dt) PROVE NoHiccup'
  BY <1>1, StepNoHiccup
<1>2. CASE since' = Placed(clock', cursor')
  BY <1>0, <1>2, PlacedNoHiccup
<1>3. CASE UNCHANGED <<replayConfig, clock, cursor, since>>
  BY <1>3 DEF replayConfig, NoHiccup, Size, Duration
<1>4. CASE StepOnce
  BY <1>2, <1>3, <1>4 DEF StepOnce, PlayNext, source
<1>5. ASSUME NEW p \in Positions, Seek(p) PROVE NoHiccup'
  BY <1>2, <1>5 DEF Seek
<1>6. CASE Reset BY <1>2, <1>6 DEF Reset
<1>7. CASE UNCHANGED vars BY <1>3, <1>7 DEF vars, replayConfig
<1> QED BY <1>1, <1>4, <1>5, <1>6, <1>7 DEF Next

LEMMA InitNoHiccup == Init => NoHiccup
<1> SUFFICES ASSUME Init, Duration > 0 PROVE NoHiccup BY DEF NoHiccup
<1>1. TypeOK BY InitInv DEF ReplayIInv
<1>2. /\ clock = 0 /\ cursor = 0 /\ since.clock = 0 /\ since.time = 0
      /\ since.cursor = 0 /\ since.sent = 0
  BY DEF Init, Placed
<1>3. Size \in Nat /\ Duration \in Nat BY <1>1, TimeFacts
<1>4. Laps(0) BY <1>2, <1>3 DEF Laps
<1>5. OnePass BY <1>2 DEF OnePass
<1> QED BY <1>1, <1>4, <1>5, HiccupParts

-----------------------------------------------------------------------------
(* Every sentence is followed by the one after it in the log, the last by  *)
(* the first, whatever the log, the step and the number of passes a step   *)
(* spans.                                                                  *)
THEOREM SentencesInOrder == Spec => PlaysInOrder
  BY SpecInv, NextInOrder, PTL DEF Spec, PlaysInOrder, InOrder

(* A looping replay of any log keeps its pace over any number of laps: no  *)
(* time and no sentence is lost or counted twice where a pass ends.        *)
THEOREM LoopsWithoutHiccup == Spec => []NoHiccup
  BY SpecInv, InitNoHiccup, NextNoHiccup, PTL DEF Spec
=============================================================================
