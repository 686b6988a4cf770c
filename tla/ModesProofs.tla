------------------------------ MODULE ModesProofs ------------------------------
(***************************************************************************)
(* What DisplayModes promises for any iPads, rates and roundings: the      *)
(* driver takes each list that modes() has let pass, the list fits the     *)
(* screen, the EDID tells Windows the driver's modes and adds up to zero.  *)
(***************************************************************************)
EXTENDS DisplayModes, WireProofs

-----------------------------------------------------------------------------
(* The sizes that modes() offers.                                          *)

\* Products.
LEMMA Grows ==
  ASSUME NEW a \in Nat, NEW b \in Nat, NEW c \in Nat, a <= b
  PROVE  a * c <= b * c /\ a * c \in Nat /\ b * c \in Nat
<1>1. PICK d \in Nat : b = a + d
  <2>1. b - a \in Nat /\ b = a + (b - a)
    OBVIOUS
  <2> QED BY <2>1
<1>2. b * c = a * c + d * c /\ d * c \in Nat /\ a * c \in Nat
  BY <1>1
<1> QED BY <1>2

\* A common factor cancels.
LEMMA Cancels ==
  ASSUME NEW a \in Nat, NEW b \in Nat, NEW c \in Nat \ {0}, a * c <= b * c
  PROVE  a <= b
<1> SUFFICES ASSUME b + 1 <= a PROVE FALSE
  OBVIOUS
<1>1. (b + 1) * c <= a * c
  BY Grows
<1>2. (b + 1) * c = b * c + c /\ b * c \in Nat /\ a * c \in Nat
  OBVIOUS
<1> QED BY <1>1, <1>2

\* An edge made even.
LEMMA EvenIs ==
  ASSUME NEW n \in Nat
  PROVE  /\ Even(n) \in Nat /\ Even(n) % 2 = 0 /\ Even(n) <= n /\ n <= Even(n) + 1
         /\ n >= 320 => Even(n) >= 320
BY DEF Even

\* An edge n of a screen whose longest is long, where that is to be the given edge: at most
\* one pixel less than exact.
LEMMA ScaledIs ==
  ASSUME NEW n \in Nat \ {0}, NEW edge \in Nat \ {0}, NEW long \in Nat, n <= long,
         NEW s, s = Scaled(n, edge, long), NEW e, e = Least(edge, long)
  PROVE  s \in 0..n /\ s * long <= n * e /\ n * e <= s * long + long
<1> DEFINE exact == (n * edge) \div long
<1>0. long \in Nat \ {0} /\ n * edge \in Nat
  OBVIOUS
<1>1. CASE edge >= long
  <2>1. s = n
    BY <1>1 DEF Scaled
  <2>2. e = long
    BY <1>1 DEF Least
  <2>3. n * long \in Nat
    OBVIOUS
  <2> QED BY <2>1, <2>2, <2>3
<1>2. CASE ~(edge >= long)
  <2>1. e = edge
    BY <1>2 DEF Least
  <2>2. exact \in Nat /\ exact * long <= n * edge /\ n * edge < exact * long + long
    BY <1>0, Division, Zenon
  <2>3. s = exact \/ (s = exact - 1 /\ (n * edge) % long = 0)
    BY <1>2 DEF Scaled
  <2>4. n * edge <= n * long
    <3>1. edge * n <= long * n
      BY <1>2, Grows
    <3> QED BY <3>1
  <2>5. ASSUME NEW x \in Nat, x * long <= n * edge PROVE x <= n
    <3>1. x * long <= n * long
      <4>1. x * long \in Nat /\ n * long \in Nat
        OBVIOUS
      <4> QED BY <1>0, <2>4, <2>5, <4>1
    <3> QED BY <1>0, <3>1, Cancels
  <2>6. CASE s = exact
    <3>1. s \in Nat /\ s * long <= n * edge /\ n * edge < s * long + long
      BY <2>2, <2>6, Zenon
    <3>2. s <= n
      BY <2>5, <3>1
    <3>3. s * long \in Nat
      BY <3>1
    <3> DEFINE sl == s * long
               ne == n * edge
    <3> HIDE DEF sl, ne
    <3>4. sl <= ne /\ ne <= sl + long
      BY <1>0, <3>1, <3>3 DEF sl, ne
    <3> QED BY <2>1, <3>1, <3>2, <3>4 DEF sl, ne
  <2>7. CASE s = exact - 1 /\ (n * edge) % long = 0
    <3>1. n * edge = exact * long
      <4>1. \A a \in Nat, c \in Nat \ {0} : a % c = 0 => a = (a \div c) * c
        OBVIOUS
      <4> QED BY <1>0, <2>7, <4>1
    <3>2. exact # 0
      <4>1. n * edge # 0
        OBVIOUS
      <4>2. 0 * long = 0
        OBVIOUS
      <4> HIDE DEF exact
      <4> QED BY <3>1, <4>1, <4>2
    <3> HIDE DEF exact
    <3>3. s \in Nat
      BY <2>2, <2>7, <3>2
    <3>4. exact * long = s * long + long
      <4>1. exact = s + 1
        BY <2>2, <2>7
      <4>2. (s + 1) * long = s * long + long
        BY <3>3
      <4> QED BY <4>1, <4>2
    <3>5. s * long \in Nat
      BY <3>3
    <3>6. s * long <= n * edge
      BY <1>0, <3>1, <3>4, <3>5
    <3>7. s <= n
      BY <2>5, <3>3, <3>6
    <3>8. n * edge <= s * long + long
      BY <1>0, <3>1, <3>4
    <3> QED BY <2>1, <3>3, <3>6, <3>7, <3>8
  <2> QED BY <2>3, <2>6, <2>7
<1> QED BY <1>1, <1>2

\* The lengths modes() accepts for an edge, and those it scales the longest to.
Edges       == 320..4094
LargeEdges  == {edge \in Nat : edge >= 1280}
Fits(x, n)  == x \in 320..n /\ x % 2 = 0

\* The same when it has been made even, by two pixels.
LEMMA ScaledEven ==
  ASSUME NEW n \in Edges, NEW edge \in LargeEdges, NEW long \in Edges, n <= long,
         long < 4 * n, NEW x, x = Even(Scaled(n, edge, long)), NEW e, e = Least(edge, long)
  PROVE  x \in Nat /\ Fits(x, n) /\ x * long <= n * e /\ n * e <= x * long + 2 * long
<1> DEFINE s == Scaled(n, edge, long)
<1>0. /\ n \in Nat \ {0} /\ edge \in Nat \ {0} /\ long \in Nat \ {0}
      /\ n \in 320..4094 /\ long \in 320..4094 /\ edge >= 1280
  BY DEF Edges, LargeEdges
<1>1. s \in 0..n /\ s * long <= n * e /\ n * e <= s * long + long
  BY <1>0, ScaledIs
<1>2. e \in Nat /\ (edge >= long => s = n) /\ (~(edge >= long) => e = edge)
  BY <1>0 DEF Least, Scaled
<1>3. x \in Nat /\ x % 2 = 0 /\ x <= s /\ s <= x + 1 /\ (s >= 320 => x >= 320)
  <2>1. s \in Nat
    BY <1>1
  <2>2. x = Even(s)
    OBVIOUS
  <2> HIDE DEF s
  <2>3. /\ Even(s) \in Nat /\ Even(s) % 2 = 0 /\ Even(s) <= s /\ s <= Even(s) + 1
        /\ s >= 320 => Even(s) >= 320
    BY <2>1 DEF Even
  <2> QED BY <2>2, <2>3
<1> HIDE DEF s
<1>4. s >= 320
  <2>1. CASE edge >= long
    BY <1>0, <1>2, <2>1
  <2>2. CASE ~(edge >= long)
    <3>1. (long + 1) * e <= (4 * n) * e
      <4> DEFINE a == long + 1
                 b == 4 * n
      <4>1. a \in Nat /\ b \in Nat /\ a <= b /\ e \in Nat
        BY <1>0, <1>2
      <4> HIDE DEF a, b
      <4>2. a * e <= b * e
        BY <4>1, Grows
      <4> QED BY <4>2 DEF a, b
    <3>2. /\ (4 * n) * e = 4 * (n * e) /\ n * e \in Nat /\ s * long \in Nat
          /\ (long + 1) * e = e * long + e /\ e * long \in Nat
          /\ (4 * s + 4) * long = 4 * (s * long) + 4 * long
      BY <1>0, <1>1, <1>2
    <3>3. 1280 * long <= e * long
      BY <1>0, <1>2, <2>2, Grows
    <3>4. 1280 * long + e <= (4 * s + 4) * long
      <4> DEFINE el == e * long
                 sl == s * long
                 ne == n * e
      <4>1. /\ el \in Nat /\ sl \in Nat /\ ne \in Nat /\ el + e <= 4 * ne /\ 1280 * long <= el
            /\ ne <= sl + long /\ (4 * s + 4) * long = 4 * sl + 4 * long
        BY <1>1, <3>1, <3>2, <3>3
      <4> HIDE DEF el, sl, ne
      <4> QED BY <1>0, <1>2, <4>1
    <3>5. ASSUME 4 * s + 4 <= 1280 PROVE FALSE
      <4>1. (4 * s + 4) * long <= 1280 * long
        BY <1>0, <1>1, <3>5, Grows
      <4>2. e > 0
        BY <1>0, <1>2, <2>2
      <4> DEFINE most == (4 * s + 4) * long
      <4>3. 1280 * long + e <= most /\ most <= 1280 * long /\ most \in Nat
        BY <1>0, <1>1, <3>4, <4>1
      <4> HIDE DEF most
      <4> QED BY <1>0, <1>2, <4>2, <4>3
    <3> QED BY <1>1, <3>5
  <2> QED BY <2>1, <2>2
<1>5. s * long \in Nat /\ x * long \in Nat /\ x * long <= s * long /\ s * long <= x * long + long
  <2>1. s * long <= (x + 1) * long /\ x * long <= s * long
    <3> DEFINE b == x + 1
    <3>1. s \in Nat /\ x \in Nat /\ b \in Nat /\ s <= b /\ x <= s /\ long \in Nat
      BY <1>0, <1>1, <1>3
    <3> HIDE DEF b
    <3>2. s * long <= b * long /\ x * long <= s * long
      BY <3>1, Grows
    <3> QED BY <3>2 DEF b
  <2>2. (x + 1) * long = x * long + long
    BY <1>0, <1>3
  <2> QED BY <1>0, <1>1, <1>3, <2>1, <2>2
<1>6. x * long <= n * e /\ n * e <= x * long + 2 * long
  <2> DEFINE xl == x * long
             sl == s * long
             ne == n * e
  <2>1. /\ xl \in Nat /\ sl \in Nat /\ ne \in Nat /\ xl <= sl /\ sl <= xl + long
        /\ sl <= ne /\ ne <= sl + long
    BY <1>0, <1>1, <1>2, <1>5
  <2> HIDE DEF xl, sl, ne
  <2>2. xl <= ne /\ ne <= xl + 2 * long
    BY <1>0, <2>1
  <2> QED BY <2>2 DEF xl, ne
<1>7. Fits(x, n) /\ x \in Nat
  BY <1>0, <1>1, <1>3, <1>4 DEF Fits
<1> QED BY <1>6, <1>7, Zenon

\* Two edges that were scaled alike keep the screen's shape, but for the rounding.
LEMMA ShapeKept ==
  ASSUME NEW w \in Nat, NEW h \in Nat, NEW x \in Nat, NEW y \in Nat, NEW e \in Nat,
         NEW long \in Nat \ {0}, w <= long, h <= long,
         x * long <= w * e, w * e <= x * long + 2 * long,
         y * long <= h * e, h * e <= y * long + 2 * long
  PROVE  Distance(x * h, y * w) <= 2 * long
<1>1. ASSUME NEW a \in Nat, NEW b \in Nat, NEW v \in Nat, NEW u \in Nat, v <= long,
             a * long <= v * e, u * e <= b * long + 2 * long
      PROVE  a * u <= b * v + 2 * long
  <2>1. a * long * u <= v * e * u
    <3>1. a * long \in Nat /\ v * e \in Nat
      OBVIOUS
    <3> QED BY <1>1, <3>1, Grows
  <2>2. u * e * v <= (b * long + 2 * long) * v
    <3>1. u * e \in Nat /\ b * long + 2 * long \in Nat
      OBVIOUS
    <3> QED BY <1>1, <3>1, Grows
  <2>3. v * (2 * long) <= long * (2 * long)
    <3>1. 2 * long \in Nat
      OBVIOUS
    <3> QED BY <1>1, <3>1, Grows
  <2>4. (a * u) * long <= (b * v + 2 * long) * long
    <3> DEFINE p == a * u * long
               q == v * e * u
               r == b * v * long
               t == v * long
               z == long * long
    <3>1. /\ p \in Nat /\ q \in Nat /\ r \in Nat /\ t \in Nat /\ z \in Nat
          /\ p <= q /\ q <= r + 2 * t /\ 2 * t <= 2 * z
      <4>1. a * long * u = p /\ u * e * v = q /\ (b * long + 2 * long) * v = r + 2 * t
        OBVIOUS
      <4>2. v * (2 * long) = 2 * t /\ long * (2 * long) = 2 * z
        OBVIOUS
      <4>3. p \in Nat /\ q \in Nat /\ r \in Nat /\ t \in Nat /\ z \in Nat
        OBVIOUS
      <4> HIDE DEF p, q, r, t, z
      <4> QED BY <2>1, <2>2, <2>3, <4>1, <4>2, <4>3
    <3>2. (b * v + 2 * long) * long = r + 2 * z
      OBVIOUS
    <3>3. (a * u) * long = p
      OBVIOUS
    <3> HIDE DEF p, q, r, t, z
    <3> QED BY <3>1, <3>2, <3>3
  <2> DEFINE c == a * u
             d == b * v + 2 * long
  <2>5. c \in Nat /\ d \in Nat /\ c * long <= d * long
    BY <2>4
  <2> HIDE DEF c, d
  <2>6. c <= d
    BY <2>5, Cancels
  <2> QED BY <2>6 DEF c, d
<1>2. x * h <= y * w + 2 * long
  BY <1>1
<1>3. y * w <= x * h + 2 * long
  BY <1>1
<1>4. x * h \in Nat /\ y * w \in Nat
  OBVIOUS
<1> DEFINE a == x * h
           b == y * w
<1> HIDE DEF a, b
<1>5. Distance(a, b) <= 2 * long
  BY <1>2, <1>3, <1>4 DEF Distance, a, b
<1> QED BY <1>5 DEF a, b

\* A screen that modes() does not refuse for its size.
IsScreen(w, h) ==
  /\ w \in 320..4094 /\ h \in 320..4094
  /\ Most(w, h) < 4 * Least(w, h)

\* A size that may be offered for it.
Offer(s, w, h) ==
  /\ s \in (320..w) \X (320..h) /\ s[1] % 2 = 0 /\ s[2] % 2 = 0
  /\ s # FullHd(w, h) => Distance(s[1] * h, s[2] * w) <= 2 * Most(w, h)
Offers(w, h) == {s \in (320..w) \X (320..h) : Offer(s, w, h)}

\* A size with the screen's shape may be offered.
LEMMA ShrunkIs ==
  ASSUME NEW w, NEW h, IsScreen(w, h), NEW edge \in LargeEdges
  PROVE  Shrunk(w, h, edge) \in Offers(w, h)
<1>1. PICK long : long = Most(w, h)
  OBVIOUS
<1>2. PICK short : short = Least(w, h)
  OBVIOUS
<1>3. /\ w \in Edges /\ h \in Edges /\ long \in Edges /\ w <= long /\ h <= long
      /\ long < 4 * w /\ long < 4 * h
  BY <1>1, <1>2 DEF IsScreen, Most, Least, Edges
<1>4. PICK e : e = Least(edge, long)
  OBVIOUS
<1>5. PICK x : x = Even(Scaled(w, edge, long))
  OBVIOUS
<1>6. PICK y : y = Even(Scaled(h, edge, long))
  OBVIOUS
<1>7. x \in Nat /\ Fits(x, w) /\ x * long <= w * e /\ w * e <= x * long + 2 * long
  BY <1>3, <1>4, <1>5, ScaledEven, Zenon
<1>8. y \in Nat /\ Fits(y, h) /\ y * long <= h * e /\ h * e <= y * long + 2 * long
  BY <1>3, <1>4, <1>6, ScaledEven, Zenon
<1>9. Distance(x * h, y * w) <= 2 * long
  <2>1. w \in Nat /\ h \in Nat /\ e \in Nat /\ long \in Nat \ {0}
    BY <1>3, <1>4 DEF Least, Edges, LargeEdges
  <2> QED BY <1>3, <1>7, <1>8, <2>1, ShapeKept, Zenon
<1>10. Shrunk(w, h, edge) = <<x, y>>
  BY <1>1, <1>5, <1>6 DEF Shrunk
<1>11. Offer(<<x, y>>, w, h)
  BY <1>1, <1>7, <1>8, <1>9 DEF Offer, Fits
<1> QED BY <1>7, <1>8, <1>10, <1>11 DEF Offers, Fits

\* So may full HD, upright or not, where it fits.
LEMMA FullHdIs ==
  ASSUME NEW w, NEW h, IsScreen(w, h), FullHdFits(w, h)
  PROVE  FullHd(w, h) \in Offers(w, h)
<1>1. CASE w >= h
  <2>1. FullHd(w, h) = <<1920, 1080>> /\ 1920 <= w /\ 1080 <= h
    BY <1>1 DEF FullHd, FullHdFits
  <2> QED BY <2>1 DEF Offers, Offer, IsScreen
<1>2. CASE ~(w >= h)
  <2>1. FullHd(w, h) = <<1080, 1920>> /\ 1080 <= w /\ 1920 <= h
    BY <1>2 DEF FullHd, FullHdFits
  <2> QED BY <2>1 DEF Offers, Offer, IsScreen
<1> QED BY <1>1, <1>2

\* sizes.contains() and push().
LEMMA AddSizeIs ==
  ASSUME NEW S, NEW list \in Seq(S), NEW s \in S
  PROVE  /\ AddSize(list, s) \in Seq(S)
         /\ Len(AddSize(list, s)) \in Len(list)..(Len(list) + 1)
         /\ ToSet(AddSize(list, s)) = ToSet(list) \cup {s}
<1>1. CASE s \in ToSet(list)
  BY <1>1 DEF AddSize
<1>2. CASE s \notin ToSet(list)
  <2>1. AddSize(list, s) = Append(list, s)
    BY <1>2 DEF AddSize
  <2>2. ToSet(Append(list, s)) = ToSet(list) \cup {s}
    <3> DEFINE n == Len(list)
    <3>1. /\ n \in Nat /\ DOMAIN list = 1..n /\ DOMAIN Append(list, s) = 1..(n + 1)
          /\ Append(list, s)[n + 1] = s /\ \A i \in 1..n : Append(list, s)[i] = list[i]
      OBVIOUS
    <3> HIDE DEF n
    <3>2. 1..(n + 1) = (1..n) \cup {n + 1}
      BY <3>1
    <3> QED BY <3>1, <3>2 DEF ToSet
  <2>3. Append(list, s) \in Seq(S) /\ Len(Append(list, s)) = Len(list) + 1 /\ Len(list) \in Nat
    OBVIOUS
  <2> QED BY <2>1, <2>2, <2>3
<1> QED BY <1>1, <1>2

\* modes(): one to four sizes that may be offered, full HD among them where it fits.
LEMMA SizesIs ==
  ASSUME NEW w, NEW h, IsScreen(w, h)
  PROVE  /\ Sizes(w, h) \in Seq(Offers(w, h)) /\ Len(Sizes(w, h)) \in 1..4
         /\ FullHdFits(w, h) => FullHd(w, h) \in ToSet(Sizes(w, h))
<1> DEFINE S  == Offers(w, h)
           s1 == Shrunk(w, h, 1280)
           s2 == Shrunk(w, h, 1920)
           s3 == Shrunk(w, h, Most(w, h))
           l1 == <<s1>>
           l2 == AddSize(l1, s2)
           l3 == AddSize(l2, s3)
           l4 == AddSize(l3, FullHd(w, h))
<1>1. s1 \in S /\ s2 \in S
  <2>1. 1280 \in LargeEdges /\ 1920 \in LargeEdges
    BY DEF LargeEdges
  <2> QED BY <2>1, ShrunkIs
<1>2. s3 \in S
  <2>1. PICK long : long = Most(w, h)
    OBVIOUS
  \* Where the screen is smaller than 1280, the size is its own as with 1280.
  <2>2. CASE long >= 1280
    <3>1. long \in LargeEdges
      BY <2>1, <2>2 DEF IsScreen, Most, LargeEdges
    <3> QED BY <2>1, <3>1, ShrunkIs
  <2>3. CASE ~(long >= 1280)
    <3>1. \A n : Scaled(n, long, long) = Scaled(n, 1280, long)
      BY <2>1, <2>3 DEF Scaled, IsScreen, Most
    <3>2. Shrunk(w, h, long) = Shrunk(w, h, 1280)
      BY <2>1, <3>1 DEF Shrunk
    <3> QED BY <1>1, <2>1, <3>2
  <2> QED BY <2>2, <2>3
<1>3. Sizes(w, h) = IF FullHdFits(w, h) THEN l4 ELSE l3
  BY DEF Sizes
<1>4. FullHdFits(w, h) => FullHd(w, h) \in S
  BY FullHdIs DEF S
<1> HIDE DEF S, s1, s2, s3
<1>5. l1 \in Seq(S) /\ Len(l1) = 1
  BY <1>1
<1> HIDE DEF l1
<1>6. l2 \in Seq(S) /\ Len(l2) \in 1..2
  <2>1. l2 \in Seq(S) /\ Len(l2) \in Len(l1)..(Len(l1) + 1)
    BY <1>1, <1>5, AddSizeIs, Zenon
  <2> HIDE DEF l2
  <2> QED BY <1>5, <2>1
<1> HIDE DEF l2
<1>7. l3 \in Seq(S) /\ Len(l3) \in 1..3
  <2>1. l3 \in Seq(S) /\ Len(l3) \in Len(l2)..(Len(l2) + 1)
    BY <1>2, <1>6, AddSizeIs, Zenon
  <2> DEFINE m == Len(l2)
             n == Len(l3)
  <2>2. m \in 1..2 /\ n \in m..(m + 1)
    BY <1>6, <2>1, Zenon
  <2> HIDE DEF m, n
  <2>3. n \in 1..3
    BY <2>2
  <2> QED BY <2>1, <2>3 DEF n
<1> HIDE DEF l3
<1>8. FullHdFits(w, h) => /\ l4 \in Seq(S) /\ Len(l4) \in 1..4 /\ FullHd(w, h) \in ToSet(l4)
  <2> SUFFICES ASSUME FullHdFits(w, h)
               PROVE  l4 \in Seq(S) /\ Len(l4) \in 1..4 /\ FullHd(w, h) \in ToSet(l4)
    OBVIOUS
  <2> DEFINE s4 == FullHd(w, h)
             m  == Len(l3)
             n  == Len(l4)
  <2>1. s4 \in S /\ m \in 1..3
    BY <1>4, <1>7, Zenon
  <2> HIDE DEF s4
  <2>2. l4 \in Seq(S) /\ n \in m..(m + 1)
    BY <1>7, <2>1, AddSizeIs, Zenon DEF s4
  <2>3. ToSet(l4) = ToSet(l3) \cup {s4}
    <3>1. l4 = AddSize(l3, s4)
      BY DEF s4
    <3> HIDE DEF l4
    <3> QED BY <1>7, <2>1, <3>1, AddSizeIs
  <2> HIDE DEF l4, m, n
  <2>4. n \in 1..4
    BY <2>1, <2>2
  <2> QED BY <2>2, <2>3, <2>4 DEF n, s4
<1> HIDE DEF l4
<1> QED BY <1>3, <1>7, <1>8 DEF S

-----------------------------------------------------------------------------
(* The list as session() orders it.                                        *)

\* Modes, whatever their size and rate.
ModeSet == [width : Nat, height : Nat, fps : Nat]

\* How far a mode is from full HD, as preferred() sees it.
Off(m) == Distance(Pixels(m), 1920 * 1080)

\* It is a number.
LEMMA OffIs == \A m \in ModeSet : Off(m) \in Nat
<1> TAKE m \in ModeSet
<1>1. Pixels(m) \in Nat
  <2>1. m.width \in Nat /\ m.height \in Nat
    BY DEF ModeSet
  <2> QED BY <2>1 DEF Pixels
<1> DEFINE a == Pixels(m)
           b == 1920 * 1080
<1>2. a \in Nat /\ b \in Nat
  BY <1>1
<1> HIDE DEF a, b
<1>3. Distance(a, b) \in Nat
  BY <1>2 DEF Distance
<1> QED BY <1>3 DEF a, b, Off

\* preferred(): the first of the nearest.
LEMMA PreferredIs ==
  ASSUME NEW list \in Seq(ModeSet), Len(list) # 0
  PROVE  /\ Preferred(list) \in 1..Len(list)
         /\ \A j \in 1..Len(list) : Off(list[Preferred(list)]) <= Off(list[j])
<1> DEFINE n == Len(list)
           Best(i) == \A j \in DOMAIN list :
                        Off(list[i]) < Off(list[j]) \/ (Off(list[i]) = Off(list[j]) /\ i <= j)
<1>0. n \in Nat \ {0} /\ DOMAIN list = 1..n /\ \A j \in 1..n : list[j] \in ModeSet
  OBVIOUS
<1>1. Preferred(list) = CHOOSE i \in DOMAIN list : Best(i)
  BY DEF Preferred, Off
<1> HIDE DEF n
<1>2. \A j \in 1..n : Off(list[j]) \in Nat
  BY <1>0, OffIs
<1> DEFINE Values == {Off(list[j]) : j \in 1..n}
<1>3. PICK v \in Values : \A x \in Values : v <= x
  <2>1. Values \in SUBSET Nat
    BY <1>2
  <2>2. Values # {}
    BY <1>0
  <2> HIDE DEF Values
  <2> QED BY <2>1, <2>2, LeastOf
<1> DEFINE Places == {j \in 1..n : Off(list[j]) = v}
<1>4. PICK i \in Places : \A j \in Places : i <= j
  <2>1. Places \in SUBSET Nat
    BY <1>0
  <2>2. Places # {}
    OBVIOUS
  <2> HIDE DEF Places
  <2> QED BY <2>1, <2>2, LeastOf
<1>5. i \in DOMAIN list /\ Best(i)
  <2>1. i \in 1..n /\ Off(list[i]) = v
    BY <1>4
  <2>2. ASSUME NEW j \in 1..n
        PROVE  Off(list[i]) < Off(list[j]) \/ (Off(list[i]) = Off(list[j]) /\ i <= j)
    <3>1. v <= Off(list[j]) /\ Off(list[j]) \in Nat /\ v \in Nat
      BY <1>2, <1>3, <2>1
    <3>2. Off(list[j]) = v => i <= j
      BY <1>4
    <3> QED BY <2>1, <3>1, <3>2
  <2> QED BY <1>0, <2>1, <2>2
<1> HIDE DEF Best
<1>6. Preferred(list) \in DOMAIN list /\ Best(Preferred(list))
  BY <1>1, <1>5
<1> QED BY <1>0, <1>2, <1>6 DEF Best, n

\* session(): the same modes, the nearest first.
LEMMA PreferredFirstIs ==
  ASSUME NEW list \in Seq(ModeSet), Len(list) # 0
  PROVE  /\ PreferredFirst(list) \in Seq(ModeSet) /\ Len(PreferredFirst(list)) = Len(list)
         /\ ToSet(PreferredFirst(list)) = ToSet(list)
         /\ \A m \in ToSet(list) : Off(PreferredFirst(list)[1]) <= Off(m)
<1> DEFINE n == Len(list)
           p == Preferred(list)
           r == PreferredFirst(list)
<1>0. n \in Nat \ {0} /\ DOMAIN list = 1..n /\ \A j \in 1..n : list[j] \in ModeSet
  OBVIOUS
<1>1. p \in 1..n /\ \A j \in 1..n : Off(list[p]) <= Off(list[j])
  BY PreferredIs, Zenon
<1> DEFINE before == SubSeq(list, 1, p - 1)
           after  == SubSeq(list, p + 1, n)
<1>2. r = <<list[p]>> \o (before \o after)
  BY DEF PreferredFirst, RemoveAt
<1> HIDE DEF n, p, r
<1>3. /\ before \in Seq(ModeSet) /\ Len(before) = p - 1
      /\ \A j \in 1..(p - 1) : before[j] = list[j]
  <2>1. p - 1 \in Int /\ 1 \in Int /\ \A j \in 1..(p - 1) : list[j] \in ModeSet
    BY <1>0, <1>1
  <2>2. /\ before \in Seq(ModeSet) /\ Len(before) = IF 1 <= p - 1 THEN p - 1 - 1 + 1 ELSE 0
        /\ \A j \in 1..(p - 1 - 1 + 1) : before[j] = list[1 + j - 1]
    BY <2>1, SubSeqProperties
  <2> HIDE DEF before
  <2> QED BY <1>0, <1>1, <2>2
<1>4. /\ after \in Seq(ModeSet) /\ Len(after) = n - p
      /\ \A j \in 1..(n - p) : after[j] = list[p + j]
  <2>1. p + 1 \in Int /\ n \in Int /\ \A j \in (p + 1)..n : list[j] \in ModeSet
    BY <1>0, <1>1
  <2>2. /\ after \in Seq(ModeSet) /\ Len(after) = IF p + 1 <= n THEN n - (p + 1) + 1 ELSE 0
        /\ \A j \in 1..(n - (p + 1) + 1) : after[j] = list[p + 1 + j - 1]
    BY <2>1, SubSeqProperties
  <2> HIDE DEF after
  <2> QED BY <1>0, <1>1, <2>2
<1> HIDE DEF before, after
<1> DEFINE rest == before \o after
<1>5. /\ rest \in Seq(ModeSet) /\ Len(rest) = n - 1
      /\ \A j \in 1..(n - 1) : rest[j] = IF j < p THEN list[j] ELSE list[j + 1]
  <2>1. /\ rest \in Seq(ModeSet) /\ Len(rest) = Len(before) + Len(after)
        /\ \A j \in 1..(Len(before) + Len(after)) :
             rest[j] = IF j <= Len(before) THEN before[j] ELSE after[j - Len(before)]
    BY <1>3, <1>4, ConcatProperties, Zenon
  <2> HIDE DEF rest
  <2>2. Len(before) + Len(after) = n - 1
    BY <1>0, <1>1, <1>3, <1>4
  <2>3. ASSUME NEW j \in 1..(n - 1)
        PROVE  rest[j] = IF j < p THEN list[j] ELSE list[j + 1]
    <3>1. rest[j] = IF j <= p - 1 THEN before[j] ELSE after[j - (p - 1)]
      BY <1>3, <2>1, <2>2
    <3>2. CASE j < p
      <4>1. j \in 1..(p - 1)
        BY <1>0, <1>1, <3>2
      <4> QED BY <1>0, <1>1, <1>3, <3>1, <3>2, <4>1
    <3>3. CASE ~(j < p)
      <4>1. j - (p - 1) \in 1..(n - p) /\ p + (j - (p - 1)) = j + 1 /\ ~(j <= p - 1)
        BY <1>0, <1>1, <3>3
      <4>2. after[j - (p - 1)] = list[p + (j - (p - 1))]
        BY <1>4, <4>1
      <4> QED BY <3>1, <3>3, <4>1, <4>2
    <3> QED BY <3>2, <3>3
  <2> QED BY <2>1, <2>2, <2>3
<1> HIDE DEF rest
<1>6. /\ r \in Seq(ModeSet) /\ Len(r) = n
      /\ \A j \in 1..n : r[j] = IF j = 1 THEN list[p] ELSE rest[j - 1]
  <2> DEFINE first == <<list[p]>>
  <2>1. first \in Seq(ModeSet) /\ Len(first) = 1 /\ first[1] = list[p]
    BY <1>0, <1>1
  <2>2. r = first \o rest
    BY <1>2 DEF rest
  <2> HIDE DEF first
  <2>3. /\ r \in Seq(ModeSet) /\ Len(r) = 1 + (n - 1)
        /\ \A j \in 1..(1 + (n - 1)) : r[j] = IF j <= 1 THEN first[j] ELSE rest[j - 1]
    <3>a. first \in Seq(ModeSet) /\ rest \in Seq(ModeSet)
      BY <1>5, <2>1
    <3>1. /\ first \o rest \in Seq(ModeSet) /\ Len(first \o rest) = Len(first) + Len(rest)
          /\ \A j \in 1..(Len(first) + Len(rest)) :
               (first \o rest)[j] = IF j <= Len(first) THEN first[j] ELSE rest[j - Len(first)]
      BY <3>a, ConcatProperties, Zenon
    <3>2. /\ r \in Seq(ModeSet) /\ Len(r) = Len(first) + Len(rest)
          /\ \A j \in 1..(Len(first) + Len(rest)) :
               r[j] = IF j <= Len(first) THEN first[j] ELSE rest[j - Len(first)]
      BY <2>2, <3>1, Zenon
    <3>3. Len(first) = 1 /\ Len(rest) = n - 1
      BY <1>5, <2>1
    <3> QED BY <3>2, <3>3
  <2>4. 1 + (n - 1) = n
    BY <1>0
  <2>5. \A j \in 1..n : (j <= 1 <=> j = 1)
    BY <1>0
  <2> QED BY <2>1, <2>3, <2>4, <2>5
<1>7. \A j \in 1..n : r[j] = IF j = 1 THEN list[p] ELSE IF j - 1 < p THEN list[j - 1] ELSE list[j]
  <2> TAKE j \in 1..n
  <2>1. CASE j = 1
    BY <1>6, <2>1
  <2>2. CASE j # 1
    <3>1. j - 1 \in 1..(n - 1) /\ j - 1 + 1 = j
      BY <1>0, <2>2
    <3>2. rest[j - 1] = IF j - 1 < p THEN list[j - 1] ELSE list[j - 1 + 1]
      BY <1>5, <3>1
    <3> QED BY <1>6, <2>2, <3>1, <3>2
  <2> QED BY <2>1, <2>2
<1>8. ToSet(r) = ToSet(list)
  <2>1. DOMAIN r = 1..n
    BY <1>6
  <2>2. ASSUME NEW j \in 1..n PROVE \E k \in 1..n : r[j] = list[k]
    <3>1. CASE j = 1
      BY <1>1, <1>7, <3>1
    <3>2. CASE j # 1 /\ j - 1 < p
      <4>1. j - 1 \in 1..n /\ r[j] = list[j - 1]
        BY <1>0, <1>7, <3>2
      <4> QED BY <4>1
    <3>3. CASE j # 1 /\ ~(j - 1 < p)
      BY <1>7, <3>3
    <3> QED BY <3>1, <3>2, <3>3
  <2>3. ASSUME NEW j \in 1..n PROVE \E k \in 1..n : list[j] = r[k]
    <3>1. CASE j = p
      <4>1. 1 \in 1..n /\ r[1] = list[j]
        BY <1>0, <1>7, <3>1
      <4> QED BY <4>1
    <3>2. CASE j < p
      <4>1. j + 1 \in 1..n /\ j + 1 # 1 /\ j + 1 - 1 = j
        BY <1>0, <1>1, <3>2
      <4>2. r[j + 1] = list[j]
        BY <1>7, <3>2, <4>1
      <4> QED BY <4>1, <4>2
    <3>3. CASE p < j
      <4>1. j # 1 /\ ~(j - 1 < p)
        BY <1>0, <1>1, <3>3
      <4>2. r[j] = list[j]
        BY <1>7, <4>1
      <4> QED BY <4>2
    <3> QED BY <1>0, <1>1, <3>1, <3>2, <3>3
  <2>4. ToSet(r) = {r[j] : j \in 1..n} /\ ToSet(list) = {list[j] : j \in 1..n}
    BY <1>0, <2>1, Zenon DEF ToSet
  <2>5. {r[j] : j \in 1..n} \subseteq {list[j] : j \in 1..n}
    BY <2>2
  <2>6. {list[j] : j \in 1..n} \subseteq {r[j] : j \in 1..n}
    BY <2>3
  <2> QED BY <2>4, <2>5, <2>6
<1>9. \A m \in ToSet(list) : Off(r[1]) <= Off(m)
  <2>1. r[1] = list[p]
    BY <1>0, <1>7
  <2> QED BY <1>0, <1>1, <2>1 DEF ToSet
<1> QED BY <1>6, <1>8, <1>9, Zenon DEF n, r

-----------------------------------------------------------------------------
(* The list as a whole.                                                    *)

\* A list as modes() makes it for a screen and a rate.
LEMMA DerivedIs ==
  ASSUME NEW w, NEW h, IsScreen(w, h), NEW f \in 30..60, NEW list, list = Derived(w, h, f)
  PROVE  /\ list \in Seq(ModeSet) /\ Len(list) \in 1..4
         /\ \A m \in ToSet(list) : Size(m) \in Offers(w, h) /\ m.fps = f
         /\ FullHdFits(w, h) => \E m \in ToSet(list) : Size(m) = FullHd(w, h)
<1> DEFINE sizes == Sizes(w, h)
           n == Len(sizes)
<1>1. /\ sizes \in Seq(Offers(w, h)) /\ n \in 1..4
      /\ FullHdFits(w, h) => FullHd(w, h) \in ToSet(sizes)
  BY SizesIs
<1>2. n \in Nat /\ DOMAIN sizes = 1..n /\ \A i \in 1..n : sizes[i] \in Offers(w, h)
  BY <1>1
<1>3. list = [i \in DOMAIN sizes |-> Mode(sizes[i][1], sizes[i][2], f)]
  BY DEF Derived
<1> HIDE DEF sizes, n
<1>4. DOMAIN list = 1..n /\ \A i \in 1..n : list[i] = Mode(sizes[i][1], sizes[i][2], f)
  BY <1>2, <1>3
<1>5. ASSUME NEW i \in 1..n
      PROVE  list[i] \in ModeSet /\ Size(list[i]) = sizes[i] /\ list[i].fps = f
  <2>1. sizes[i] \in (320..w) \X (320..h) /\ w \in 320..4094 /\ h \in 320..4094
    BY <1>2 DEF Offers, IsScreen
  <2>2. sizes[i] = <<sizes[i][1], sizes[i][2]>> /\ sizes[i][1] \in Nat /\ sizes[i][2] \in Nat
    BY <2>1
  <2>3. f \in Nat
    OBVIOUS
  <2>4. list[i] = Mode(sizes[i][1], sizes[i][2], f)
    BY <1>4
  <2> QED BY <2>2, <2>3, <2>4 DEF Mode, ModeSet, Size
<1>6. list \in Seq(ModeSet) /\ Len(list) = n
  <2>1. list = [i \in 1..n |-> list[i]]
    BY <1>2, <1>3
  <2> QED BY <1>2, <1>5, <2>1
<1>7. \A m \in ToSet(list) : Size(m) \in Offers(w, h) /\ m.fps = f
  BY <1>2, <1>4, <1>5 DEF ToSet
<1>8. ASSUME FullHdFits(w, h) PROVE \E m \in ToSet(list) : Size(m) = FullHd(w, h)
  <2>1. PICK i \in 1..n : sizes[i] = FullHd(w, h)
    BY <1>1, <1>2, <1>8 DEF ToSet
  <2>2. list[i] \in ToSet(list)
    BY <1>4 DEF ToSet
  <2> QED BY <1>5, <2>1, <2>2
<1> QED BY <1>1, <1>6, <1>7, <1>8

\* The list that session() hands to the worker: the driver takes it, and it fits.
LEMMA OfferedFits ==
  ASSUME NEW w, NEW h, IsScreen(w, h), NEW f \in 30..60, NEW derived, derived = Derived(w, h, f),
         Derivable(w, h, derived), NEW list, list = PreferredFirst(derived)
  PROVE  /\ list \in Seq(ModeSet) /\ AcceptableModes(list) /\ FitsScreen(list, w, h)
         /\ \A m \in ToSet(list) : IsMode(m)
<1>1. /\ derived \in Seq(ModeSet) /\ Len(derived) \in 1..4
      /\ \A m \in ToSet(derived) : Size(m) \in Offers(w, h) /\ m.fps = f
      /\ FullHdFits(w, h) => \E m \in ToSet(derived) : Size(m) = FullHd(w, h)
  BY DerivedIs
<1>2. /\ list \in Seq(ModeSet) /\ Len(list) = Len(derived) /\ ToSet(list) = ToSet(derived)
      /\ \A m \in ToSet(derived) : Off(list[1]) <= Off(m)
  <2>1. Len(derived) # 0
    <3>1. Len(derived) \in 1..4
      BY <1>1, Zenon
    <3> QED BY <3>1
  <2> QED BY <1>1, <2>1, PreferredFirstIs, Zenon
<1>3. ASSUME NEW m \in ToSet(list)
      PROVE  /\ m \in ModeSet /\ Clock(m) <= MaxClock
             /\ m.width \in 320..w /\ m.height \in 320..h
             /\ m.width % 2 = 0 /\ m.height % 2 = 0 /\ m.fps = f
             /\ Size(m) # FullHd(w, h) => Distance(m.width * h, m.height * w) <= 2 * Most(w, h)
  <2>1. PICK i \in DOMAIN derived : m = derived[i]
    BY <1>2 DEF ToSet
  <2>2. Clock(m) <= MaxClock /\ m \in ModeSet
    BY <1>1, <2>1 DEF Derivable
  <2>3. Size(m) \in Offers(w, h) /\ m.fps = f
    BY <1>1, <1>2
  <2>4. Size(m)[1] = m.width /\ Size(m)[2] = m.height
    BY DEF Size
  <2>5. Offer(Size(m), w, h)
    BY <2>3 DEF Offers
  <2> QED BY <2>2, <2>3, <2>4, <2>5 DEF Offer
<1>4. w \in 320..4094 /\ h \in 320..4094
  BY DEF IsScreen
<1>5. \A m \in ToSet(list) : IsMode(m)
  <2> TAKE m \in ToSet(list)
  <2>1. m.width \in 320..w /\ m.height \in 320..h /\ m.fps = f
    BY <1>3
  <2>2. /\ w \in Int /\ w <= 4094 /\ h \in Int /\ h <= 4094
        /\ m.width \in Int /\ 320 <= m.width /\ m.width <= w
        /\ m.height \in Int /\ 320 <= m.height /\ m.height <= h
    BY <1>4, <2>1
  <2> DEFINE x == m.width
             y == m.height
  <2> HIDE DEF x, y
  <2>3. x \in 320..4094 /\ y \in 320..4094
    <3>1. x \in Int /\ 320 <= x /\ x <= 4094 /\ y \in Int /\ 320 <= y /\ y <= 4094
      BY <2>2 DEF x, y
    <3> QED BY <3>1
  <2>4. m.fps \in 30..60
    BY <2>1
  <2> QED BY <2>3, <2>4 DEF IsMode, x, y
<1>6. AcceptableModes(list)
  <2>1. ASSUME NEW i \in DOMAIN list
        PROVE  /\ list[i].width \in 320..4094 /\ list[i].height \in 320..4094
               /\ list[i].width % 2 = 0 /\ list[i].height % 2 = 0
               /\ list[i].fps \in 30..60 /\ Clock(list[i]) <= MaxClock
    <3>1. list[i] \in ToSet(list)
      BY DEF ToSet
    <3>2. IsMode(list[i])
      BY <1>5, <3>1
    <3>3. list[i].width % 2 = 0 /\ list[i].height % 2 = 0 /\ Clock(list[i]) <= MaxClock
      BY <1>3, <3>1
    <3> QED BY <3>2, <3>3 DEF IsMode
  <2>2. Len(list) \in 1..4
    BY <1>1, <1>2
  <2> QED BY <2>1, <2>2 DEF AcceptableModes
<1>7. FitsScreen(list, w, h)
  <2>1. ASSUME NEW m \in ToSet(list)
        PROVE  /\ m.width <= w /\ m.height <= h /\ m.width % 2 = 0 /\ m.height % 2 = 0
               /\ Size(m) # FullHd(w, h) => Distance(m.width * h, m.height * w) <= 2 * Most(w, h)
               /\ Off(list[1]) <= Off(m)
    <3>1. Off(list[1]) <= Off(m)
      BY <1>2
    <3>2. m.width <= w /\ m.height <= h
      BY <1>3, <1>4
    <3>3. /\ m.width % 2 = 0 /\ m.height % 2 = 0
          /\ Size(m) # FullHd(w, h) => Distance(m.width * h, m.height * w) <= 2 * Most(w, h)
      BY <1>3
    <3> QED BY <3>1, <3>2, <3>3, Zenon
  <2>2. FullHdFits(w, h) => \E m \in ToSet(list) : Size(m) = FullHd(w, h)
    BY <1>1, <1>2
  <2> QED BY <2>1, <2>2, SMT DEF FitsScreen, Off
<1> QED BY <1>2, <1>5, <1>6, <1>7

\* A rate for all the modes of a list: their sizes fit as before.
AtRate(list, f) == [j \in DOMAIN list |-> [list[j] EXCEPT !.fps = f]]

\* The list at another rate.
LEMMA RateKept ==
  ASSUME NEW list \in Seq(ModeSet), Len(list) # 0, NEW f \in 30..60, NEW new, new = AtRate(list, f)
  PROVE  /\ new \in Seq(ModeSet) /\ Len(new) = Len(list)
         /\ (\A m \in ToSet(list) : IsMode(m)) => \A m \in ToSet(new) : IsMode(m)
         /\ \A w, h : FitsScreen(list, w, h) => FitsScreen(new, w, h)
<1> DEFINE n == Len(list)
<1>0. n \in Nat \ {0} /\ DOMAIN list = 1..n /\ \A i \in 1..n : list[i] \in ModeSet
  OBVIOUS
<1>1. DOMAIN new = 1..n /\ \A i \in 1..n : new[i] = [list[i] EXCEPT !.fps = f]
  BY <1>0 DEF AtRate
<1> HIDE DEF n
<1>2. ASSUME NEW i \in 1..n
      PROVE  /\ new[i] \in ModeSet /\ new[i].width = list[i].width /\ new[i].height = list[i].height
             /\ new[i].fps = f
  <2>1. list[i] \in ModeSet /\ new[i] = [list[i] EXCEPT !.fps = f] /\ f \in Nat
    <3>1. f \in Nat
      OBVIOUS
    <3> QED BY <1>0, <1>1, <3>1, Zenon
  <2> QED BY <2>1 DEF ModeSet
<1>3. new \in Seq(ModeSet) /\ Len(new) = n
  <2>1. new = [i \in 1..n |-> new[i]]
    BY <1>0, <1>1 DEF AtRate
  <2> QED BY <1>0, <1>2, <2>1
<1>4. ASSUME NEW m \in ToSet(new)
      PROVE  \E o \in ToSet(list) : m.width = o.width /\ m.height = o.height /\ m.fps = f
  <2>1. PICK i \in 1..n : m = new[i]
    BY <1>1 DEF ToSet
  <2>2. list[i] \in ToSet(list)
    BY <1>0 DEF ToSet
  <2> QED BY <1>2, <2>1, <2>2
<1>5. ASSUME NEW o \in ToSet(list)
      PROVE  \E m \in ToSet(new) : m.width = o.width /\ m.height = o.height
  <2>1. PICK i \in 1..n : o = list[i]
    BY <1>0 DEF ToSet
  <2>2. new[i] \in ToSet(new)
    BY <1>1 DEF ToSet
  <2> QED BY <1>2, <2>1, <2>2
<1>6. ASSUME \A m \in ToSet(list) : IsMode(m), NEW m \in ToSet(new) PROVE IsMode(m)
  <2>1. PICK o \in ToSet(list) : m.width = o.width /\ m.height = o.height /\ m.fps = f
    BY <1>4
  <2> QED BY <1>6, <2>1 DEF IsMode
<1>7. ASSUME NEW w, NEW h, FitsScreen(list, w, h) PROVE FitsScreen(new, w, h)
  <2>0. new[1].width = list[1].width /\ new[1].height = list[1].height
    BY <1>0, <1>2
  <2>1. ASSUME NEW m \in ToSet(new)
        PROVE  /\ m.width <= w /\ m.height <= h /\ m.width % 2 = 0 /\ m.height % 2 = 0
               /\ Size(m) # FullHd(w, h) => Distance(m.width * h, m.height * w) <= 2 * Most(w, h)
               /\ Distance(Pixels(new[1]), 1920 * 1080) <= Distance(Pixels(m), 1920 * 1080)
    <3>1. PICK o \in ToSet(list) : m.width = o.width /\ m.height = o.height
      BY <1>4
    <3>2. Size(m) = Size(o) /\ Pixels(m) = Pixels(o) /\ Pixels(new[1]) = Pixels(list[1])
      BY <2>0, <3>1 DEF Size, Pixels
    <3>3. /\ o.width <= w /\ o.height <= h /\ o.width % 2 = 0 /\ o.height % 2 = 0
          /\ Size(o) # FullHd(w, h) => Distance(o.width * h, o.height * w) <= 2 * Most(w, h)
          /\ Distance(Pixels(list[1]), 1920 * 1080) <= Distance(Pixels(o), 1920 * 1080)
      BY <1>7 DEF FitsScreen
    <3> QED BY <3>1, <3>2, <3>3
  <2>2. ASSUME FullHdFits(w, h) PROVE \E m \in ToSet(new) : Size(m) = FullHd(w, h)
    <3>1. PICK o \in ToSet(list) : Size(o) = FullHd(w, h)
      BY <1>7, <2>2 DEF FitsScreen
    <3>2. PICK m \in ToSet(new) : m.width = o.width /\ m.height = o.height
      BY <1>5
    <3> QED BY <3>1, <3>2 DEF Size
  <2> QED BY <2>1, <2>2 DEF FitsScreen
<1> QED BY <1>3, <1>6, <1>7 DEF n

-----------------------------------------------------------------------------
(* A mode in eighteen bytes: the arithmetic.                               *)

\* Bytes.
Octets == 0..255

\* A quotient is the number that fits.
LEMMA QuotientIs ==
  ASSUME NEW a \in Nat, NEW c \in Nat \ {0}, NEW q \in Nat, q * c <= a, a < q * c + c
  PROVE  a \div c = q
<1> DEFINE d == a \div c
<1>1. d \in Nat /\ d * c <= a /\ a < d * c + c
  BY Division, Zenon
<1> HIDE DEF d
<1>2. d <= q
  <2> SUFFICES ASSUME q + 1 <= d PROVE FALSE
    BY <1>1
  <2>1. (q + 1) * c <= d * c
    BY <1>1, Grows
  <2>2. (q + 1) * c = q * c + c /\ q * c \in Nat /\ d * c \in Nat
    BY <1>1
  <2> QED BY <1>1, <2>1, <2>2
<1>3. q <= d
  <2> SUFFICES ASSUME d + 1 <= q PROVE FALSE
    BY <1>1
  <2>1. (d + 1) * c <= q * c
    BY <1>1, Grows
  <2>2. (d + 1) * c = d * c + c /\ q * c \in Nat /\ d * c \in Nat
    BY <1>1
  <2> QED BY <1>1, <2>1, <2>2
<1> QED BY <1>1, <1>2, <1>3 DEF d

\* The low byte and the rest of a number.
LEMMA LowByte ==
  ASSUME NEW n \in Nat
  PROVE  /\ Byte(n) \in Octets /\ n \div 256 \in Nat /\ Byte(n) + 256 * (n \div 256) = n
         /\ (n <= 255 => Byte(n) = n) /\ (n <= 65535 => n \div 256 <= 255)
BY SMT DEF Byte, Octets

\* A size in twelve bits: the low byte, and four bits in the upper half of another one.
LEMMA TwelveBits ==
  ASSUME NEW n \in Nat, n <= 4094, NEW lo, lo = Byte(n), NEW hi, hi = Byte((n \div 256) * 16)
  PROVE  /\ lo \in Octets /\ hi \in Octets
         /\ lo + (hi \div 16) * 256 = n /\ hi % 16 = 0
<1>1. PICK q : q = n \div 256
  BY SMT
<1>2. q \in Nat /\ lo \in Octets /\ lo + 256 * q = n /\ q <= 15
  BY SMT, <1>1 DEF Byte, Octets
<1>3. hi = Byte(q * 16)
  BY SMT, <1>1
<1>4. hi = q * 16
  BY SMT, <1>2, <1>3 DEF Byte
<1>5. hi \div 16 = q /\ hi % 16 = 0
  BY SMT, <1>2, <1>4
<1>6. hi \in Octets
  BY SMT, <1>2, <1>4 DEF Octets
<1> QED BY SMT, <1>2, <1>5, <1>6

\* The clock's unit, and the numbers that two bytes have room for.
Unit       == 10000              \* 10 kHz
InUnits(k) == k \div 10000
Word       == {n \in Nat : 1 <= n /\ n <= 65535}

\* A rate that was divided away comes back.
LEMMA RateComesBack ==
  ASSUME NEW total \in Nat, total > 2 * Unit, NEW f \in Nat,
         NEW clock, clock = InUnits(total * f)
  PROVE  clock \in Nat /\ RateRounded(clock, total) = f
<1>1. total * f \in Nat
  BY SMT
<1>2. clock \in Nat /\ clock * 10000 <= total * f /\ total * f < clock * 10000 + 10000
  BY SMT, <1>1 DEF InUnits
<1> DEFINE a == 2 * clock * 10000 + total
           c == 2 * total
           t == total * f
<1>3. f * c = 2 * t
  BY SMT
<1>4. t \in Nat /\ clock * 10000 <= t /\ t < clock * 10000 + 10000
  BY SMT, <1>1, <1>2
<1> HIDE DEF t
<1>5. a \in Nat /\ c \in Nat \ {0} /\ 2 * t <= a /\ a < 2 * t + c
  BY SMT, <1>2, <1>4 DEF Unit
<1> HIDE DEF a, c
<1>6. a \div c = f
  <2>1. f * c <= a /\ a < f * c + c
    BY SMT, <1>3, <1>5
  <2> QED BY <1>5, <2>1, QuotientIs, Zenon
<1> QED BY SMT, <1>2, <1>6 DEF RateRounded, a, c

\* A mode's fields are numbers of that range.
LEMMA ModeFields ==
  ASSUME NEW m \in ModeSet, IsMode(m)
  PROVE  /\ m.width \in Nat /\ m.height \in Nat /\ m.fps \in Nat
         /\ m.width >= 320 /\ m.height >= 320 /\ m.fps >= 30
         /\ m.width <= 4094 /\ m.height <= 4094
<1> DEFINE x == m.width
           y == m.height
           f == m.fps
<1>1. x \in Nat /\ y \in Nat /\ f \in Nat
  BY SMT DEF ModeSet
<1>2. x \in 320..4094 /\ y \in 320..4094 /\ f \in 30..60
  BY SMT DEF IsMode
<1> HIDE DEF x, y, f
<1>3. 320 <= x /\ x <= 4094
  BY SMT, <1>1, <1>2
<1>4. 320 <= y /\ y <= 4094
  BY SMT, <1>1, <1>2
<1>5. 30 <= f
  BY SMT, <1>1, <1>2
<1>6. x >= 320 /\ y >= 320 /\ f >= 30
  BY SMT, <1>1, <1>3, <1>4, <1>5
<1> QED BY SMT, <1>1, <1>3, <1>4, <1>6 DEF x, y, f

\* The greatest clock there may be fits two bytes.
LEMMA ClockFits ==
  ASSUME NEW k \in Nat, Unit <= k, k <= MaxClock
  PROVE  InUnits(k) \in Word
<1>1. PICK q : q = InUnits(k)
  OBVIOUS
<1>2. q \in Nat /\ q * 10000 <= k /\ k < q * 10000 + 10000
  BY SMTT(30), <1>1 DEF InUnits
<1>3. 10000 <= k /\ k <= 655350000
  BY SMT DEF MaxClock, Unit
<1>4. 1 <= q /\ q <= 65535
  BY SMTT(30), <1>2, <1>3
<1>5. q \in Word
  BY SMT, <1>2, <1>4 DEF Word
<1> QED BY <1>1, <1>5, Zenon

\* A picture of at least 480 by 350 with its blanking.
LEMMA PictureIs ==
  ASSUME NEW a \in Nat, NEW b \in Nat, a >= 480, b >= 350, NEW f \in Nat, f >= 30
  PROVE  /\ a * b \in Nat /\ a * b > 2 * Unit
         /\ a * b * f \in Nat /\ Unit <= a * b * f
<1> DEFINE t == a * b
<1>1. t \in Nat /\ t >= 168000
  <2>1. 480 * b <= a * b
    BY SMT, Grows
  <2> QED BY SMT, <2>1
<1> HIDE DEF t
<1>2. t * f \in Nat /\ t * f >= 10000
  <2>1. 30 * t <= f * t
    BY SMT, <1>1, Grows
  <2>2. f * t = t * f /\ t * f \in Nat
    BY SMT, <1>1
  <2> QED BY SMT, <1>1, <2>1, <2>2
<1> QED BY SMT, <1>1, <1>2 DEF Unit, t

\* The clock of a mode as the descriptor has it.
LEMMA ClockIs ==
  ASSUME NEW m \in ModeSet, IsMode(m), Clock(m) <= MaxClock,
         NEW total, total = (m.width + 160) * (m.height + 30)
  PROVE  /\ total \in Nat /\ total > 2 * Unit
         /\ Clock(m) = total * m.fps /\ InUnits(Clock(m)) \in Word
<1> DEFINE a == m.width + 160
           b == m.height + 30
           f == m.fps
<1>1. a \in Nat /\ b \in Nat /\ a >= 480 /\ b >= 350 /\ f \in Nat /\ f >= 30
  BY SMT, ModeFields
<1>2. total = a * b /\ Clock(m) = a * b * f
  BY SMT DEF Clock
<1> HIDE DEF a, b, f
<1>3. total \in Nat /\ total > 2 * Unit /\ total * f \in Nat /\ Unit <= total * f
  BY SMT, <1>1, <1>2, PictureIs
<1>4. Clock(m) = total * f
  BY <1>2, Zenon
<1>5. InUnits(Clock(m)) \in Word
  BY <1>3, <1>4, ClockFits, Zenon
<1> QED BY <1>3, <1>4, <1>5, Zenon DEF f

-----------------------------------------------------------------------------
(* The bytes that makeEdid() writes.                                       *)

\* The same byte many times.
LEMMA RepeatedIs ==
  ASSUME NEW n \in Octets, NEW count \in Nat
  PROVE  Repeated(n, count) \in Seq(Octets) /\ Len(Repeated(n, count)) = count
BY DEF Repeated

\* One sequence of bytes after another.
LEMMA After ==
  ASSUME NEW s \in Seq(Octets), NEW t \in Seq(Octets)
  PROVE  /\ s \o t \in Seq(Octets) /\ Len(s \o t) = Len(s) + Len(t)
         /\ \A i \in 1..Len(s) : (s \o t)[i] = s[i]
<1>1. /\ s \o t \in Seq(Octets) /\ Len(s \o t) = Len(s) + Len(t)
      /\ \A i \in 1..(Len(s) + Len(t)) : (s \o t)[i] = IF i <= Len(s) THEN s[i] ELSE t[i - Len(s)]
  BY ConcatProperties
<1>2. Len(s) \in Nat /\ Len(t) \in Nat
  OBVIOUS
<1>3. \A i \in 1..Len(s) : i \in 1..(Len(s) + Len(t)) /\ i <= Len(s)
  BY <1>2
<1> QED BY <1>1, <1>3

\* Descriptor(): eighteen bytes, and those that Parse() looks at.
LEMMA DescriptorBytes ==
  ASSUME NEW m \in ModeSet, IsMode(m), Clock(m) <= MaxClock, NEW d, d = Descriptor(m)
  PROVE  /\ d \in Seq(Octets) /\ Len(d) = 18
         /\ d[1] = Byte(InUnits(Clock(m))) /\ d[2] = Byte(InUnits(Clock(m)) \div 256)
         /\ d[3] = Byte(m.width) /\ d[4] = 160 /\ d[5] = Byte((m.width \div 256) * 16)
         /\ d[6] = Byte(m.height) /\ d[7] = 30 /\ d[8] = Byte((m.height \div 256) * 16)
<1> DEFINE c == InUnits(Clock(m))
           c1 == Byte(c)
           c2 == Byte(c \div 256)
           w1 == Byte(m.width)
           w2 == Byte((m.width \div 256) * 16)
           h1 == Byte(m.height)
           h2 == Byte((m.height \div 256) * 16)
           first == <<c1, c2, w1, 160, w2, h1, 30, h2, 48, 32, 53>>
<1>1. d = first \o Repeated(0, 6) \o <<30>>
  BY SMT DEF Descriptor, InUnits
<1>a. c \in Word
  BY ClockIs
<1>2. /\ c1 \in Octets /\ c2 \in Octets /\ w1 \in Octets /\ w2 \in Octets
      /\ h1 \in Octets /\ h2 \in Octets
  <2>1. \A n \in Nat : Byte(n) \in Octets
    BY LowByte
  <2> HIDE DEF c
  <2>2. c \in Nat
    BY <1>a DEF Word
  <2>3. c \div 256 \in Nat
    BY <2>2
  <2>4. m.width \in Nat /\ m.height \in Nat
    BY ModeFields
  <2>5. (m.width \div 256) * 16 \in Nat /\ (m.height \div 256) * 16 \in Nat
    BY <2>4
  <2> QED BY <2>1, <2>2, <2>3, <2>4, <2>5
<1> HIDE DEF c1, c2, w1, w2, h1, h2, c
<1>3. first \in Seq(Octets) /\ Len(first) = 11
  <2>1. 160 \in Octets /\ 30 \in Octets /\ 48 \in Octets /\ 32 \in Octets /\ 53 \in Octets
    BY DEF Octets
  <2> QED BY <1>2, <2>1
<1>4. /\ first[1] = c1 /\ first[2] = c2 /\ first[3] = w1 /\ first[4] = 160 /\ first[5] = w2
      /\ first[6] = h1 /\ first[7] = 30 /\ first[8] = h2
  OBVIOUS
<1> HIDE DEF first
<1> DEFINE zeros == Repeated(0, 6)
           last  == <<30>>
           front == first \o zeros
<1>5. zeros \in Seq(Octets) /\ Len(zeros) = 6 /\ last \in Seq(Octets) /\ Len(last) = 1
  BY DEF Octets, Repeated
<1>6. d = front \o last
  BY <1>1
<1> HIDE DEF zeros, last
<1>7. /\ front \in Seq(Octets) /\ Len(front) = Len(first) + Len(zeros)
      /\ \A i \in 1..Len(first) : front[i] = first[i]
  BY <1>3, <1>5, After, Zenon
<1> HIDE DEF front
<1>8. /\ d \in Seq(Octets) /\ Len(d) = Len(front) + Len(last)
      /\ \A i \in 1..Len(front) : d[i] = front[i]
  <2>1. /\ front \o last \in Seq(Octets) /\ Len(front \o last) = Len(front) + Len(last)
        /\ \A i \in 1..Len(front) : (front \o last)[i] = front[i]
    BY <1>5, <1>7, After, Zenon
  <2> QED BY <1>6, <2>1, Zenon
<1>9. Len(front) = 17 /\ Len(d) = 18
  BY <1>3, <1>5, <1>7, <1>8
<1>10. \A i \in 1..8 : d[i] = first[i]
  <2>1. \A i \in 1..8 : i \in 1..11 /\ i \in 1..17
    OBVIOUS
  <2> QED BY <1>3, <1>7, <1>8, <1>9, <2>1
<1>11. /\ d[1] = c1 /\ d[2] = c2 /\ d[3] = w1 /\ d[4] = 160 /\ d[5] = w2
       /\ d[6] = h1 /\ d[7] = 30 /\ d[8] = h2
  BY <1>4, <1>10
<1> QED BY <1>8, <1>9, <1>11 DEF c1, c2, w1, w2, h1, h2, c

\* Parse() gets back what makeEdid() has put into a descriptor.
LEMMA DescriptorTells ==
  ASSUME NEW m \in ModeSet, IsMode(m), Clock(m) <= MaxClock, NEW d, d = Descriptor(m)
  PROVE  d[1] + 256 * d[2] # 0 /\ ParsedMode(d) = m
<1> DEFINE c == InUnits(Clock(m))
           w == m.width
           h == m.height
<1>1. /\ d[1] = Byte(c) /\ d[2] = Byte(c \div 256)
      /\ d[3] = Byte(w) /\ d[4] = 160 /\ d[5] = Byte((w \div 256) * 16)
      /\ d[6] = Byte(h) /\ d[7] = 30 /\ d[8] = Byte((h \div 256) * 16)
  BY DescriptorBytes
<1>2. PICK total : total = (w + 160) * (h + 30)
  OBVIOUS
<1>3. total \in Nat /\ total > 2 * Unit /\ Clock(m) = total * m.fps /\ c \in Word
  BY <1>2, ClockIs
<1>4. w \in Nat /\ h \in Nat /\ w <= 4094 /\ h <= 4094 /\ m.fps \in Nat
  BY ModeFields
<1>5. RateRounded(c, total) = m.fps
  BY <1>3, <1>4, RateComesBack
<1> HIDE DEF c, w, h
<1>6. d[1] + 256 * d[2] = c
  <2>1. c \in Nat /\ c <= 65535
    BY <1>3 DEF Word
  <2>2. PICK q : q = c \div 256
    OBVIOUS
  <2>3. q \in Nat /\ q <= 255 /\ Byte(c) + 256 * q = c
    BY <2>1, <2>2, LowByte
  <2>4. Byte(q) = q
    BY <2>3, LowByte
  <2> QED BY <1>1, <2>2, <2>3, <2>4
<1>7. d[3] + (d[5] \div 16) * 256 = w /\ d[5] % 16 = 0
  BY <1>1, <1>4, TwelveBits
<1>8. d[6] + (d[8] \div 16) * 256 = h /\ d[8] % 16 = 0
  BY <1>1, <1>4, TwelveBits
<1>9. (w + d[4] + (d[5] % 16) * 256) * (h + d[7] + (d[8] % 16) * 256) = total
  <2>1. w + d[4] + (d[5] % 16) * 256 = w + 160 /\ h + d[7] + (d[8] % 16) * 256 = h + 30
    BY <1>1, <1>4, <1>7, <1>8
  <2> QED BY <1>2, <2>1
<1>10. ParsedMode(d) = Mode(w, h, m.fps)
  BY <1>5, <1>6, <1>7, <1>8, <1>9 DEF ParsedMode
<1>11. Mode(w, h, m.fps) = m
  BY DEF Mode, ModeSet, w, h
<1>12. c # 0
  BY <1>3 DEF Word
<1> QED BY <1>6, <1>10, <1>11, <1>12

\* makeEdid() in parts: the head, four descriptors, empty where there is no mode, and
\* what is put together before the checksum.
EdidHead(id) ==
  <<0, 255, 255, 255, 255, 255, 255, 0, 76, 131, 1, 0>> \o id
  \o <<1, 36, 1, 4, 128, 28, 21, 120, 6>> \o Repeated(0, 13) \o Repeated(1, 16)
DescriptorAt(list, i) == IF i \in DOMAIN list THEN Descriptor(list[i]) ELSE Repeated(0, 18)
Body(list, id) ==
  EdidHead(id) \o DescriptorAt(list, 1) \o DescriptorAt(list, 2) \o DescriptorAt(list, 3)
  \o DescriptorAt(list, 4) \o <<0>>

\* It is put together from these.
LEMMA EdidIs ==
  ASSUME NEW list, NEW id
  PROVE  Edid(list, id) = Append(Body(list, id), Byte(256 - Byte(Total(Body(list, id)))))
BY SMT DEF Edid, Body, EdidHead, DescriptorAt

\* The head has 54 bytes.
LEMMA HeadIs ==
  ASSUME NEW id \in [1..4 -> Octets]
  PROVE  EdidHead(id) \in Seq(Octets) /\ Len(EdidHead(id)) = 54
<1> DEFINE a == <<0, 255, 255, 255, 255, 255, 255, 0, 76, 131, 1, 0>>
           b == <<1, 36, 1, 4, 128, 28, 21, 120, 6>>
           c == Repeated(0, 13)
           d == Repeated(1, 16)
<1>1. a \in Seq(Octets) /\ Len(a) = 12
  BY SMT DEF Octets
<1>2. b \in Seq(Octets) /\ Len(b) = 9
  BY SMT DEF Octets
<1>3. c \in Seq(Octets) /\ Len(c) = 13 /\ d \in Seq(Octets) /\ Len(d) = 16
  BY SMT DEF Octets, Repeated
<1>4. id \in Seq(Octets) /\ Len(id) = 4
  <2>1. id = [i \in 1..4 |-> id[i]] /\ \A i \in 1..4 : id[i] \in Octets
    OBVIOUS
  <2> QED BY <2>1
<1>5. EdidHead(id) = a \o id \o b \o c \o d
  BY SMT DEF EdidHead
<1> HIDE DEF a, b, c, d
<1>6. a \o id \in Seq(Octets) /\ Len(a \o id) = Len(a) + Len(id)
  BY <1>1, <1>4, After, Zenon
<1>7. a \o id \o b \in Seq(Octets) /\ Len(a \o id \o b) = Len(a \o id) + Len(b)
  BY <1>2, <1>6, After, Zenon
<1>8. a \o id \o b \o c \in Seq(Octets) /\ Len(a \o id \o b \o c) = Len(a \o id \o b) + Len(c)
  BY <1>3, <1>7, After, Zenon
<1>9. /\ a \o id \o b \o c \o d \in Seq(Octets)
      /\ Len(a \o id \o b \o c \o d) = Len(a \o id \o b \o c) + Len(d)
  BY <1>3, <1>8, After, Zenon
<1>10. Len(a \o id \o b \o c \o d) = 54
  BY <1>1, <1>2, <1>3, <1>4, <1>6, <1>7, <1>8, <1>9
<1> QED BY <1>5, <1>9, <1>10

\* A descriptor has 18 bytes, with a mode or without.
LEMMA BlockIs ==
  ASSUME NEW list \in Seq(ModeSet), \A m \in ToSet(list) : IsMode(m), AcceptableModes(list),
         NEW i
  PROVE  DescriptorAt(list, i) \in Seq(Octets) /\ Len(DescriptorAt(list, i)) = 18
<1>1. CASE i \in DOMAIN list
  <2>1. list[i] \in ModeSet /\ IsMode(list[i]) /\ Clock(list[i]) <= MaxClock
    BY <1>1 DEF ToSet, AcceptableModes
  <2> QED BY <1>1, <2>1, DescriptorBytes DEF DescriptorAt
<1>2. CASE i \notin DOMAIN list
  <2>1. DescriptorAt(list, i) = [j \in 1..18 |-> 0]
    BY <1>2 DEF DescriptorAt, Repeated
  <2> QED BY <2>1 DEF Octets
<1> QED BY <1>1, <1>2

\* What is read back from a sequence that has been put together.
LEMMA Middle ==
  ASSUME NEW s \in Seq(Octets), NEW t \in Seq(Octets)
  PROVE  /\ SubSeq(s \o t, Len(s) + 1, Len(s) + Len(t)) = t
         /\ \A m \in Nat \ {0}, n \in 0..Len(s) : SubSeq(s \o t, m, n) = SubSeq(s, m, n)
<1> DEFINE k == Len(s)
           l == Len(t)
           u == s \o t
<1>1. /\ u \in Seq(Octets) /\ Len(u) = k + l
      /\ \A i \in 1..(k + l) : u[i] = IF i <= k THEN s[i] ELSE t[i - k]
  BY ConcatProperties
<1>2. k \in Nat /\ l \in Nat /\ (\A i \in 1..k : s[i] \in Octets) /\ \A i \in 1..l : t[i] \in Octets
  OBVIOUS
<1>3. \A i \in 1..(k + l) : u[i] \in Octets
  BY <1>1, <1>2
<1> HIDE DEF u, k, l
<1>4. SubSeq(u, k + 1, k + l) = t
  <2> DEFINE p == k + 1
             q == k + l
             v == SubSeq(u, p, q)
  <2>1. p \in Int /\ q \in Int /\ \A i \in p..q : u[i] \in Octets
    BY <1>2, <1>3
  <2>2. p = k + 1 /\ q = k + l
    OBVIOUS
  <2> HIDE DEF p, q
  <2>3. /\ v \in Seq(Octets) /\ Len(v) = IF p <= q THEN q - p + 1 ELSE 0
        /\ \A i \in 1..(q - p + 1) : v[i] = u[p + i - 1]
    BY <2>1, SubSeqProperties
  <2> HIDE DEF v
  <2>4. Len(v) = l
    BY <1>2, <2>2, <2>3
  <2>5. ASSUME NEW i \in 1..l PROVE v[i] = t[i]
    <3> DEFINE j == k + i
    <3>1. p + i - 1 = j /\ j \in 1..(k + l) /\ ~(j <= k) /\ j - k = i /\ i \in 1..(q - p + 1)
      BY <1>2, <2>2
    <3> HIDE DEF j
    <3>2. v[i] = u[j]
      BY <2>3, <3>1
    <3>3. u[j] = t[j - k]
      BY <1>1, <3>1
    <3> QED BY <3>1, <3>2, <3>3
  <2>6. v = t
    BY <2>3, <2>4, <2>5, SeqEqual DEF l
  <2> QED BY <2>2, <2>6 DEF v
<1>5. ASSUME NEW m \in Nat \ {0}, NEW n \in 0..k PROVE SubSeq(u, m, n) = SubSeq(s, m, n)
  <2>1. \A i \in m..n : u[i] = s[i]
    BY <1>1, <1>2
  <2> QED BY <1>2, <2>1
<1> QED BY <1>4, <1>5 DEF u, k, l

-----------------------------------------------------------------------------
(* What Parse() reads.                                                     *)

\* A total is the last of its partial sums.
LEMMA TotalSums ==
  ASSUME NEW n \in Nat, NEW s, Len(s) = n, s \in [1..n -> Nat]
  PROVE  \E p \in [0..n -> Nat] : /\ p[0] = 0 /\ \A k \in 1..n : p[k] = p[k - 1] + s[k]
                                  /\ Total(s) = p[n]
<1>1. PICK p \in [0..n -> Nat] : p[0] = 0 /\ \A k \in 1..n : p[k] = p[k - 1] + s[k]
  BY PartialSums
<1> DEFINE sum == CHOOSE f : f = [i \in 0..Len(s) |-> IF i = 0 THEN 0 ELSE f[i - 1] + s[i]]
<1>2. Total(s) = sum[n]
  BY DEF Total
<1>3. sum = [i \in 0..n |-> IF i = 0 THEN 0 ELSE sum[i - 1] + s[i]]
  <2>1. p = [i \in 0..n |-> IF i = 0 THEN 0 ELSE p[i - 1] + s[i]]
    <3>1. \A i \in 0..n : p[i] = IF i = 0 THEN 0 ELSE p[i - 1] + s[i]
      <4> TAKE i \in 0..n
      <4>1. i # 0 => i \in 1..n
        OBVIOUS
      <4> QED BY <1>1, <4>1
    <3> QED BY <3>1
  <2>2. \E f : f = [i \in 0..Len(s) |-> IF i = 0 THEN 0 ELSE f[i - 1] + s[i]]
    BY <2>1
  <2> QED BY <2>2
<1> HIDE DEF sum
<1> DEFINE Bad == {k \in 0..n : sum[k] # p[k]}
<1>4. Bad = {}
  <2> SUFFICES ASSUME Bad # {} PROVE FALSE
    OBVIOUS
  <2>0. Bad \in SUBSET Nat
    OBVIOUS
  <2>1. PICK k \in Bad : \A i \in Bad : k <= i
    BY <2>0, LeastOf
  <2>2. sum[k] = IF k = 0 THEN 0 ELSE sum[k - 1] + s[k]
    BY <1>3
  <2>3. k # 0 => k - 1 \in 0..n /\ k - 1 \notin Bad /\ k \in 1..n
    BY <2>1
  <2> QED BY <1>1, <2>2, <2>3
<1>5. Total(s) = p[n]
  BY <1>2, <1>4
<1> QED BY <1>1, <1>5

\* Bytes are numbers.
LEMMA OctetsAreNumbers ==
  ASSUME NEW s \in Seq(Octets)
  PROVE  s \in [1..Len(s) -> Nat]
<1>1. s \in [1..Len(s) -> Octets]
  OBVIOUS
<1>2. Octets \subseteq Nat
  BY DEF Octets
<1> HIDE DEF Octets
<1> QED BY <1>1, <1>2

\* One byte more.
LEMMA TotalAppend ==
  ASSUME NEW s \in Seq(Octets), NEW x \in Octets
  PROVE  Total(Append(s, x)) = Total(s) + x /\ Total(s) \in Nat
<1> DEFINE n == Len(s)
           t == Append(s, x)
<1>1. /\ n \in Nat /\ Len(t) = n + 1 /\ t[n + 1] = x /\ \A i \in 1..n : t[i] = s[i]
      /\ \A i \in 1..n : s[i] \in Octets
  OBVIOUS
<1>2. s \in [1..n -> Nat]
  BY OctetsAreNumbers
<1>3. t \in [1..(n + 1) -> Nat]
  <2>1. t \in Seq(Octets)
    OBVIOUS
  <2> HIDE DEF t
  <2> QED BY <1>1, <2>1, OctetsAreNumbers
<1> HIDE DEF t
<1>4. PICK p \in [0..n -> Nat] : /\ p[0] = 0 /\ \A k \in 1..n : p[k] = p[k - 1] + s[k]
                                 /\ Total(s) = p[n]
  BY <1>1, <1>2, TotalSums
<1> HIDE DEF n
<1> DEFINE m == n + 1
<1>5. PICK q \in [0..m -> Nat] : /\ q[0] = 0 /\ \A k \in 1..m : q[k] = q[k - 1] + t[k]
                                 /\ Total(t) = q[m]
  <2>1. m \in Nat /\ Len(t) = m /\ t \in [1..m -> Nat]
    BY <1>1, <1>3
  <2> HIDE DEF m
  <2> QED BY <2>1, TotalSums
<1> DEFINE Bad == {k \in 0..n : q[k] # p[k]}
<1>6. Bad = {}
  <2> SUFFICES ASSUME Bad # {} PROVE FALSE
    OBVIOUS
  <2>0. Bad \in SUBSET Nat
    BY <1>1
  <2>1. PICK k \in Bad : \A i \in Bad : k <= i
    BY <2>0, LeastOf
  <2>2. k # 0 => k - 1 \in 0..n /\ k - 1 \notin Bad /\ k \in 1..n /\ k \in 1..m
    BY <1>1, <2>1
  <2>3. k # 0 => /\ q[k] = q[k - 1] + t[k] /\ p[k] = p[k - 1] + s[k]
                 /\ t[k] = s[k] /\ q[k - 1] = p[k - 1]
    BY <1>1, <1>4, <1>5, <2>2
  <2> QED BY <1>4, <1>5, <2>3
<1>7. q[n] = p[n] /\ q[m] = q[n] + x
  <2>1. n \in 0..n /\ m \in 1..m /\ m - 1 = n
    BY <1>1
  <2>2. q[n] = p[n]
    BY <1>6, <2>1
  <2>3. q[m] = q[n] + t[m]
    BY <1>5, <2>1
  <2> QED BY <1>1, <2>2, <2>3
<1>8. Total(s) \in Nat
  <2>1. n \in 0..n
    BY <1>1
  <2> QED BY <1>4, <2>1
<1> QED BY <1>4, <1>5, <1>7, <1>8 DEF t

\* The first k modes of a list have been read.
Agrees(l, list, k) ==
  /\ l \in Seq(ModeSet) /\ Len(l) = Least(k, Len(list))
  /\ \A j \in 1..Len(l) : l[j] = list[j]

\* One descriptor: the mode that was put there, or none.
LEMMA ParseOne ==
  ASSUME NEW list \in Seq(ModeSet), \A m \in ToSet(list) : IsMode(m), AcceptableModes(list),
         NEW k \in Nat, NEW l, Agrees(l, list, k), NEW i, i = k + 1
  PROVE  Agrees(AddParsed(l, DescriptorAt(list, i)), list, i)
<1> DEFINE d == DescriptorAt(list, i)
           n == Len(list)
<1>1. n \in Nat /\ DOMAIN list = 1..n /\ l \in Seq(ModeSet) /\ Len(l) = Least(k, n)
  BY DEF Agrees
<1>2. \A j \in 1..Len(l) : l[j] = list[j]
  BY DEF Agrees
<1> HIDE DEF n
<1>3. CASE i \in 1..n
  <2>1. /\ list[i] \in ModeSet /\ IsMode(list[i]) /\ Clock(list[i]) <= MaxClock
        /\ d = Descriptor(list[i])
    <3>1. list[i] \in ModeSet /\ i \in DOMAIN list
      BY <1>1, <1>3
    <3>2. IsMode(list[i])
      BY <3>1 DEF ToSet
    <3>3. Clock(list[i]) <= MaxClock
      BY SMT, <3>1 DEF AcceptableModes
    <3>4. d = Descriptor(list[i])
      BY <3>1 DEF DescriptorAt
    <3> QED BY <3>1, <3>2, <3>3, <3>4
  <2>2. d[1] + 256 * d[2] # 0 /\ ParsedMode(d) = list[i]
    BY <2>1, DescriptorTells, Zenon
  <2> HIDE DEF d
  <2> DEFINE a == Append(l, list[i])
  <2>3. AddParsed(l, d) = a
    BY <2>2 DEF AddParsed
  <2>4. Len(l) = k
    BY <1>1, <1>3 DEF Least
  <2>5. /\ a \in Seq(ModeSet) /\ Len(a) = k + 1 /\ a[k + 1] = list[i]
        /\ \A j \in 1..k : a[j] = l[j]
    BY <1>1, <2>1, <2>4
  <2> HIDE DEF a
  <2>6. Least(i, n) = i
    BY <1>1, <1>3 DEF Least
  <2>7. ASSUME NEW j \in 1..i PROVE a[j] = list[j]
    <3>1. j \in 1..k \/ j = k + 1
      OBVIOUS
    <3>2. CASE j \in 1..k
      BY <1>2, <2>4, <2>5, <3>2
    <3>3. CASE j = k + 1
      BY <2>5, <3>3
    <3> QED BY <3>1, <3>2, <3>3
  <2>8. Len(a) = i
    BY <2>5
  <2>9. Agrees(a, list, i)
    BY <2>5, <2>6, <2>7, <2>8 DEF Agrees, n
  <2> QED BY <2>3, <2>9 DEF d
<1>4. CASE i \notin 1..n
  <2>1. d = Repeated(0, 18)
    BY <1>1, <1>4 DEF DescriptorAt
  <2>2. d[1] + 256 * d[2] = 0
    BY <2>1 DEF Repeated
  <2> HIDE DEF d
  <2>3. AddParsed(l, d) = l
    BY <2>2 DEF AddParsed
  <2>4. Least(i, n) = Least(k, n)
    BY <1>1, <1>4 DEF Least
  <2>5. Agrees(l, list, i)
    BY <1>1, <1>2, <2>4 DEF Agrees, n
  <2> QED BY <2>3, <2>5 DEF d
<1> QED BY <1>3, <1>4

\* Bytes a to b, a name that the provers do not look into.
Part(s, a, b) == SubSeq(s, a, b)

\* u is s and then t, with k bytes before and n after it.
Lengthened(s, k, t, u, n) ==
  /\ u \in Seq(Octets) /\ Len(u) = n /\ n \in Nat
  /\ Part(u, k + 1, n) = t
  /\ \A a \in Nat \ {0}, b \in 0..k : Part(u, a, b) = Part(s, a, b)

\* One part more of the block of 128 bytes; the parts before it are read as before.
LEMMA PartIs ==
  ASSUME NEW s \in Seq(Octets), NEW k \in Nat, Len(s) = k,
         NEW t \in Seq(Octets), NEW l \in Nat, Len(t) = l, NEW n, n = k + l,
         NEW u, u = s \o t
  PROVE  Lengthened(s, k, t, u, n)
<1>1. u \in Seq(Octets) /\ Len(u) = Len(s) + Len(t)
  BY After, Zenon
<1>2. Part(u, Len(s) + 1, Len(s) + Len(t)) = t
  BY Middle, Zenon DEF Part
<1>3. \A a \in Nat \ {0}, b \in 0..Len(s) : Part(u, a, b) = Part(s, a, b)
  BY Middle, Zenon DEF Part
<1> QED BY <1>1, <1>2, <1>3 DEF Lengthened

\* The places of the parts: after the head and each descriptor.
Place(i) == 54 + 18 * i

\* They follow each other by 18 bytes.
LEMMA PlacesAre ==
  /\ \A i \in 0..4 : Place(i) \in Nat
  /\ Place(0) = 54 /\ Place(1) = Place(0) + 18 /\ Place(2) = Place(1) + 18
  /\ Place(3) = Place(2) + 18 /\ Place(4) = Place(3) + 18 /\ Place(4) + 2 = 128
  /\ 18 \in Nat
BY DEF Place

\* A block of 128 bytes that adds up to zero and tells of a list.
Tells(E, list) ==
  E \in Seq(Octets) /\ Len(E) = 128 /\ Byte(Total(E)) = 0 /\ Parsed(E) = list

\* makeEdid() and Parse(): 128 bytes that add up to zero, and the modes they tell.
LEMMA EdidTells ==
  ASSUME NEW list \in Seq(ModeSet), \A m \in ToSet(list) : IsMode(m), AcceptableModes(list),
         NEW id \in [1..4 -> Octets], NEW E, E = Edid(list, id)
  PROVE  Tells(E, list)
<1>1. PICK s0 : s0 = EdidHead(id)
  OBVIOUS
<1> DEFINE size == 18
           p0 == Place(0)
           p1 == Place(1)
           p2 == Place(2)
           p3 == Place(3)
           p4 == Place(4)
<1>p. /\ p0 \in Nat /\ p1 \in Nat /\ p2 \in Nat /\ p3 \in Nat /\ p4 \in Nat /\ size \in Nat
      /\ p1 = p0 + size /\ p2 = p1 + size /\ p3 = p2 + size /\ p4 = p3 + size
  BY PlacesAre
<1>h. p0 = 54 /\ p4 + 2 = 128
  BY PlacesAre
<1> HIDE DEF size, p0, p1, p2, p3, p4
<1>2. s0 \in Seq(Octets) /\ Len(s0) = p0
  BY <1>1, <1>h, HeadIs
<1>3. PICK b1, b2, b3, b4 :
        /\ b1 = DescriptorAt(list, 1) /\ b2 = DescriptorAt(list, 2)
        /\ b3 = DescriptorAt(list, 3) /\ b4 = DescriptorAt(list, 4)
  OBVIOUS
<1>4. /\ b1 \in Seq(Octets) /\ Len(b1) = size /\ b2 \in Seq(Octets) /\ Len(b2) = size
      /\ b3 \in Seq(Octets) /\ Len(b3) = size /\ b4 \in Seq(Octets) /\ Len(b4) = size
  <2>1. \A i : DescriptorAt(list, i) \in Seq(Octets) /\ Len(DescriptorAt(list, i)) = size
    BY BlockIs DEF size
  <2> QED BY <1>3, <2>1, Zenon
<1>5. PICK s1, s2, s3, s4, body, z :
        s1 = s0 \o b1 /\ s2 = s1 \o b2 /\ s3 = s2 \o b3 /\ s4 = s3 \o b4 /\ body = s4 \o z
        /\ z = <<0>>
  OBVIOUS
<1>6. body = Body(list, id)
  BY <1>1, <1>3, <1>5, Zenon DEF Body
<1>7. PICK x : x = Byte(256 - Byte(Total(body)))
  OBVIOUS
<1>8. E = Append(body, x)
  BY <1>6, <1>7, EdidIs, Zenon
<1>9. Lengthened(s0, p0, b1, s1, p1)
  BY <1>p, <1>2, <1>4, <1>5, PartIs, Zenon
<1>10. Lengthened(s1, p1, b2, s2, p2)
  <2>1. s1 \in Seq(Octets) /\ Len(s1) = p1
    BY <1>9, Zenon DEF Lengthened
  <2> QED BY <1>p, <1>4, <1>5, <2>1, PartIs, Zenon
<1>11. Lengthened(s2, p2, b3, s3, p3)
  <2>1. s2 \in Seq(Octets) /\ Len(s2) = p2
    BY <1>10, Zenon DEF Lengthened
  <2> QED BY <1>p, <1>4, <1>5, <2>1, PartIs, Zenon
<1>12. Lengthened(s3, p3, b4, s4, p4)
  <2>1. s3 \in Seq(Octets) /\ Len(s3) = p3
    BY <1>11, Zenon DEF Lengthened
  <2> QED BY <1>p, <1>4, <1>5, <2>1, PartIs, Zenon
<1> DEFINE one == 1
           p5 == p4 + one
           p6 == p5 + one
<1>q. one \in Nat /\ p5 \in Nat /\ p5 = p4 + one /\ p6 = p5 + one /\ p6 = 128
  BY <1>p, <1>h
<1>13. Lengthened(s4, p4, z, body, p5)
  <2>1. s4 \in Seq(Octets) /\ Len(s4) = p4
    BY <1>12, Zenon DEF Lengthened
  <2>2. z \in Seq(Octets) /\ Len(z) = one
    BY <1>5 DEF Octets
  <2> HIDE DEF one, p5, p6
  <2> QED BY <1>p, <1>q, <1>5, <2>1, <2>2, PartIs, Zenon
<1>b. body \in Seq(Octets) /\ Len(body) = p5
  BY <1>13, Zenon DEF Lengthened
<1>t. Total(body) \in Nat
  <2>1. 0 \in Octets
    BY DEF Octets
  <2> QED BY <1>b, <2>1, TotalAppend
<1>14. x \in Octets
  <2>1. PICK t : t = Total(body)
    OBVIOUS
  <2>2. t \in Nat /\ x = Byte(256 - Byte(t))
    BY <1>7, <1>t, <2>1, Zenon
  <2> QED BY SMT, <2>2 DEF Byte, Octets
<1>15. Lengthened(body, p5, <<x>>, E, p6)
  <2>1. <<x>> \in Seq(Octets) /\ Len(<<x>>) = one
    BY <1>14
  <2>2. E = body \o <<x>>
    BY <1>8, <1>b, <1>14, AppendIsConcat
  <2> HIDE DEF one, p5, p6
  <2> QED BY <1>q, <1>b, <2>1, <2>2, PartIs, Zenon
<1>16. Byte(Total(E)) = 0
  <2>1. PICK t : t = Total(body)
    OBVIOUS
  <2>2. t \in Nat /\ Total(E) = t + x
    BY <1>8, <1>b, <1>14, <1>t, <2>1, TotalAppend, Zenon
  <2>3. x = Byte(256 - Byte(t))
    BY <1>7, <2>1
  <2> QED BY SMT, <2>2, <2>3 DEF Byte
<1>e. E \in Seq(Octets) /\ Len(E) = 128
  BY <1>15, <1>q, Zenon DEF Lengthened
<1>n. /\ p1 = 72 /\ p2 = 90 /\ p3 = 108 /\ p4 = 126 /\ p5 = 127
  BY <1>p, <1>h DEF size
<1> HIDE DEF one, p5, p6
<1>17. Part(E, 55, 72) = b1
  BY <1>h, <1>n, <1>9, <1>10, <1>11, <1>12, <1>13, <1>15 DEF Lengthened
<1>18. Part(E, 73, 90) = b2
  BY <1>n, <1>10, <1>11, <1>12, <1>13, <1>15 DEF Lengthened
<1>19. Part(E, 91, 108) = b3
  BY <1>n, <1>11, <1>12, <1>13, <1>15 DEF Lengthened
<1>20. Part(E, 109, 126) = b4
  BY <1>n, <1>12, <1>13, <1>15 DEF Lengthened
<1>21. PICK l1, l2, l3, l4 : /\ l1 = AddParsed(<<>>, b1) /\ l2 = AddParsed(l1, b2)
                             /\ l3 = AddParsed(l2, b3) /\ l4 = AddParsed(l3, b4)
  OBVIOUS
<1>22. Parsed(E) = l4
  <2>1. /\ 55 + 18 * 0 = 55 /\ 72 + 18 * 0 = 72 /\ 55 + 18 * 1 = 73 /\ 72 + 18 * 1 = 90
        /\ 55 + 18 * 2 = 91 /\ 72 + 18 * 2 = 108 /\ 55 + 18 * 3 = 109 /\ 72 + 18 * 3 = 126
    OBVIOUS
  <2>2. Parsed(E) = AddParsed(AddParsed(AddParsed(AddParsed(<<>>, b1), b2), b3), b4)
    BY <1>17, <1>18, <1>19, <1>20, <2>1 DEF Parsed, Part
  <2> QED BY <1>21, <2>2, Zenon
<1>23. Agrees(<<>>, list, 0)
  BY DEF Agrees, Least
<1>24. Agrees(l1, list, 1)
  <2>1. 0 \in Nat /\ 1 = 0 + 1
    OBVIOUS
  <2> QED BY <1>3, <1>21, <1>23, <2>1, ParseOne, Zenon
<1>25. Agrees(l2, list, 2)
  <2>1. 1 \in Nat /\ 2 = 1 + 1
    OBVIOUS
  <2> QED BY <1>3, <1>21, <1>24, <2>1, ParseOne, Zenon
<1>26. Agrees(l3, list, 3)
  <2>1. 2 \in Nat /\ 3 = 2 + 1
    OBVIOUS
  <2> QED BY <1>3, <1>21, <1>25, <2>1, ParseOne, Zenon
<1>27. Agrees(l4, list, 4)
  <2>1. 3 \in Nat /\ 4 = 3 + 1
    OBVIOUS
  <2> QED BY <1>3, <1>21, <1>26, <2>1, ParseOne, Zenon
<1>28. l4 = list
  <2>1. Len(list) \in 1..4
    BY DEF AcceptableModes
  <2>2. l4 \in Seq(ModeSet) /\ Len(l4) = Len(list) /\ \A j \in 1..Len(l4) : l4[j] = list[j]
    BY <1>27, <2>1 DEF Agrees, Least
  <2> QED BY <2>2, SeqEqual
<1> QED BY <1>e, <1>16, <1>22, <1>28, Zenon DEF Tells

-----------------------------------------------------------------------------
(* The worker and the driver: the invariant.                               *)

\* Pixels of a screen's edge, a short list, and a list of modes in range.
Pixel == 0..4094
UpToFour(list) == Len(list) <= 4
Known(list) == list \in Seq(ModeSet) /\ UpToFour(list) /\ \A m \in ToSet(list) : IsMode(m)

\* The lists and what is asked for are of the kinds they should be, and no list was refused.
WorkerKnows ==
  /\ fps \in FrameRates /\ falls \in FallSets /\ lease \in {"idle", "streaming", "grace"}
  /\ ipad \in Ipads \cup {NoIpad} /\ width \in Pixel /\ height \in Pixel
  /\ Known(previous) /\ (request = NoMode \/ IsMode(request)) /\ rejected = FALSE

\* While there is a lease there is a monitor: it has the worker's list, which the driver
\* has checked, and the EDID made from it; without a lease there is none.
MonitorShows ==
  IF lease = "idle" THEN modes = <<>> /\ edid = <<>>
  ELSE /\ ipad \in Ipads /\ modes = previous /\ AcceptableModes(modes)
       /\ request \in ToSet(modes) \cup {NoMode}
       /\ edid = Edid(modes, ipad.id) /\ FitsScreen(modes, width, height)

ModesIInv == WorkerKnows /\ MonitorShows

\* A list the driver takes is not empty.
LEMMA CountIs ==
  ASSUME NEW list, AcceptableModes(list)
  PROVE  Len(list) \in 1..4
BY Zenon DEF AcceptableModes

\* Nothing is connected.
LEMMA ModesStart == ModesInit => ModesIInv
<1> SUFFICES ASSUME ModesInit PROVE ModesIInv
  OBVIOUS
<1>1. Known(<<>>)
  BY DEF Known, ToSet, UpToFour
<1>2. WorkerKnows
  BY <1>1 DEF ModesInit, WorkerKnows, Pixel
<1>3. MonitorShows
  BY DEF ModesInit, MonitorShows
<1> QED BY <1>2, <1>3 DEF ModesIInv

\* The rate of a list is one the driver takes.
LEMMA RefreshIs ==
  ASSUME WorkerKnows, NEW p \in Ipads, p.fps >= 30
  PROVE  Refresh(p) \in 30..60
<1>1. p.fps \in Nat
  BY ModesAssumption
<1>2. fps \in 30..60
  BY ModesAssumption DEF WorkerKnows
<1> QED BY <1>1, <1>2 DEF Refresh, Least

\* The display is made, or kept with the list it has.
LEMMA ConnectStep ==
  ASSUME ModesIInv, NEW p \in Ipads, NEW landscape \in BOOLEAN, Connect(p, landscape)
  PROVE  ModesIInv'
<1>1. PICK w, h : /\ w = IF landscape THEN p.long ELSE p.short
                  /\ h = IF landscape THEN p.short ELSE p.long
  OBVIOUS
<1>a. PICK f : f = Refresh(p)
  OBVIOUS
<1>2. PICK derived, list : derived = Derived(w, h, f) /\ list = PreferredFirst(derived)
  OBVIOUS
<1>3. /\ lease = "idle" \/ (lease = "grace" /\ ipad = p)
      /\ p.fps >= 30 /\ Derivable(w, h, derived)
      /\ \/ /\ Replaced(list) /\ AcceptableModes(list)
            /\ Arrive(list, p.id) /\ request' = list[1] /\ lease' = "streaming"
            /\ previous' = list /\ ipad' = p /\ width' = w /\ height' = h
            /\ UNCHANGED rejected
         \/ /\ Replaced(list) /\ ~AcceptableModes(list)
            /\ rejected' = TRUE /\ Depart /\ lease' = "idle"
            /\ UNCHANGED <<screenVars, previous, request>>
         \/ /\ ~Replaced(list)
            /\ lease' = "streaming" /\ previous' = list /\ request' = NoMode
            /\ width' = w /\ height' = h
            /\ UNCHANGED <<driverModes, ipad, rejected>>
      /\ UNCHANGED <<fps, falls>>
  BY <1>1, <1>a, <1>2 DEF Connect
<1>4. WorkerKnows /\ MonitorShows
  BY DEF ModesIInv
<1>5. IsScreen(w, h) /\ w \in Pixel /\ h \in Pixel
  <2>1. w \in 320..4094 /\ h \in 320..4094
    BY <1>3 DEF Derivable
  <2>2. p.short <= p.long /\ p.long < 4 * p.short /\ p.short \in Nat /\ p.long \in Nat
    BY ModesAssumption
  <2>3. Most(w, h) < 4 * Least(w, h)
    BY <1>1, <2>2 DEF Most, Least
  <2> QED BY <2>1, <2>3 DEF IsScreen, Pixel
<1>6. Derivable(w, h, derived) /\ p.fps >= 30
  BY <1>3
<1>7. f \in 30..60
  BY <1>a, <1>4, <1>6, RefreshIs
<1>8. /\ list \in Seq(ModeSet) /\ AcceptableModes(list) /\ FitsScreen(list, w, h)
      /\ \A m \in ToSet(list) : IsMode(m)
  BY <1>2, <1>5, <1>6, <1>7, OfferedFits, Zenon
<1>9. Known(list) /\ list[1] \in ToSet(list)
  <2>1. Len(list) <= 4 /\ 1 \in DOMAIN list
    <3>1. Len(list) \in 1..4
      BY <1>8, CountIs, Zenon
    <3>2. list \in Seq(ModeSet)
      BY <1>8, Zenon
    <3>3. DOMAIN list = 1..Len(list)
      BY <3>2
    <3> QED BY <3>1, <3>3
  <2> QED BY <1>8, <2>1 DEF Known, ToSet, UpToFour
<1>10. CASE Replaced(list)
  <2>1. /\ Arrive(list, p.id) /\ request' = list[1] /\ lease' = "streaming"
        /\ previous' = list /\ ipad' = p /\ width' = w /\ height' = h
        /\ UNCHANGED <<rejected, fps, falls>>
    BY <1>3, <1>8, <1>10
  <2>2. WorkerKnows'
    BY <1>4, <1>5, <1>8, <1>9, <2>1, Zenon DEF WorkerKnows
  <2>3. MonitorShows'
    BY <1>8, <1>9, <2>1 DEF MonitorShows, Arrive
  <2> QED BY <2>2, <2>3 DEF ModesIInv
<1>11. CASE ~Replaced(list)
  <2>1. /\ lease' = "streaming" /\ previous' = list /\ request' = NoMode
        /\ width' = w /\ height' = h
        /\ UNCHANGED <<driverModes, ipad, rejected, fps, falls>>
    BY <1>3, <1>11
  <2>2. lease # "idle" /\ previous = list
    BY <1>11 DEF Replaced
  <2>3. WorkerKnows'
    BY <1>4, <1>5, <1>9, <2>1, Zenon DEF WorkerKnows
  <2>4. modes' = list /\ edid' = Edid(list, ipad.id) /\ ipad' = ipad /\ ipad \in Ipads
    BY <1>4, <2>1, <2>2 DEF MonitorShows, driverModes
  <2>5. MonitorShows'
    BY <1>8, <2>1, <2>4 DEF MonitorShows
  <2> QED BY <2>3, <2>5 DEF ModesIInv
<1> QED BY <1>10, <1>11

\* DisplayModeChange: the monitor is told the list at another rate, or departs.
LEMMA ChangeStep ==
  ASSUME ModesIInv, NEW i \in 1..4, NEW f \in FrameRates, Change(i, f)
  PROVE  ModesIInv'
<1>1. PICK list : list = AtRate(previous, f)
  OBVIOUS
<1>2. /\ lease = "streaming" /\ i \in DOMAIN previous
      /\ \/ /\ f = previous[i].fps /\ request' = previous[i]
            /\ UNCHANGED <<lease, previous, driverModes>>
         \/ /\ f # previous[i].fps /\ AcceptableModes(list)
            /\ Arrive(list, ipad.id) /\ previous' = list /\ request' = list[i]
            /\ UNCHANGED lease
         \/ /\ f # previous[i].fps /\ ~AcceptableModes(list)
            /\ Depart /\ lease' = "idle" /\ previous' = list /\ UNCHANGED request
      /\ UNCHANGED <<fps, falls, screenVars, rejected>>
  BY <1>1 DEF Change, AtRate
<1>3. WorkerKnows /\ MonitorShows
  BY DEF ModesIInv
<1>4. /\ ipad \in Ipads /\ modes = previous /\ AcceptableModes(previous)
      /\ edid = Edid(previous, ipad.id) /\ FitsScreen(previous, width, height)
      /\ Known(previous) /\ ipad' = ipad /\ width' = width /\ height' = height
  BY <1>2, <1>3 DEF MonitorShows, WorkerKnows, screenVars
<1>5. /\ list \in Seq(ModeSet) /\ Len(list) = Len(previous)
      /\ \A m \in ToSet(list) : IsMode(m)
      /\ FitsScreen(list, width, height)
  <2>1. f \in 30..60
    BY ModesAssumption
  <2>2. previous \in Seq(ModeSet) /\ Len(previous) # 0 /\ \A m \in ToSet(previous) : IsMode(m)
    <3>1. Len(previous) \in 1..4
      BY <1>4, CountIs, Zenon
    <3>2. previous \in Seq(ModeSet) /\ \A m \in ToSet(previous) : IsMode(m)
      BY <1>4, Zenon DEF Known
    <3>3. Len(previous) # 0
      BY <3>1
    <3> QED BY <3>2, <3>3, Zenon
  <2> QED BY <1>1, <1>4, <2>1, <2>2, RateKept, Zenon
<1>6. Known(list) /\ list[i] \in ToSet(list) /\ IsMode(list[i])
      /\ previous[i] \in ToSet(previous) /\ IsMode(previous[i])
  <2>1. i \in DOMAIN list
    BY <1>2, <1>4, <1>5 DEF Known
  <2>2. list[i] \in ToSet(list) /\ previous[i] \in ToSet(previous)
    BY <1>2, <2>1 DEF ToSet
  <2>3. Known(list)
    BY <1>4, <1>5 DEF Known, UpToFour
  <2> QED BY <1>4, <1>5, <2>2, <2>3 DEF Known
<1>7. CASE request' = previous[i] /\ UNCHANGED <<lease, previous, driverModes>>
  <2>1. /\ request' = previous[i] /\ lease' = lease /\ previous' = previous /\ modes' = modes
        /\ edid' = edid
    BY <1>7 DEF driverModes
  <2>2. WorkerKnows'
    BY <1>2, <1>3, <1>4, <1>6, <2>1, Zenon DEF WorkerKnows
  <2>3. MonitorShows'
    BY <1>2, <1>4, <1>6, <2>1 DEF MonitorShows
  <2> QED BY <2>2, <2>3 DEF ModesIInv
<1>8. CASE /\ AcceptableModes(list) /\ Arrive(list, ipad.id) /\ previous' = list
           /\ request' = list[i] /\ UNCHANGED lease
  <2>1. WorkerKnows'
    BY <1>2, <1>3, <1>4, <1>6, <1>8, Zenon DEF WorkerKnows
  <2>2. MonitorShows'
    BY <1>2, <1>4, <1>5, <1>6, <1>8 DEF MonitorShows, Arrive
  <2> QED BY <2>1, <2>2 DEF ModesIInv
<1>9. CASE Depart /\ lease' = "idle" /\ previous' = list /\ UNCHANGED request
  <2>1. WorkerKnows'
    BY <1>2, <1>3, <1>4, <1>6, <1>9, Zenon DEF WorkerKnows
  <2>2. MonitorShows'
    BY <1>9 DEF MonitorShows, Depart
  <2> QED BY <2>1, <2>2 DEF ModesIInv
<1> QED BY <1>2, <1>7, <1>8, <1>9

\* Every step of the worker keeps the invariant.
LEMMA ModesStep == ModesIInv /\ [ModesNext]_modesVars => ModesIInv'
<1> SUFFICES ASSUME ModesIInv, [ModesNext]_modesVars PROVE ModesIInv'
  OBVIOUS
<1>1. ASSUME NEW p \in Ipads, NEW landscape \in BOOLEAN, Connect(p, landscape) PROVE ModesIInv'
  BY <1>1, ConnectStep
<1>2. ASSUME NEW i \in 1..4, NEW f \in FrameRates, Change(i, f) PROVE ModesIInv'
  BY <1>2, ChangeStep
<1>3. CASE Disconnect
  BY <1>3 DEF ModesIInv, WorkerKnows, MonitorShows, Disconnect, screenVars, driverModes
<1>4. CASE Stop
  BY <1>4 DEF ModesIInv, WorkerKnows, MonitorShows, Stop, Depart, screenVars
<1>5. CASE UNCHANGED modesVars
  BY <1>5 DEF ModesIInv, WorkerKnows, MonitorShows, modesVars, screenVars, driverModes
<1> QED BY <1>1, <1>2, <1>3, <1>4, <1>5 DEF ModesNext

\* It holds in every state.
LEMMA ModesInvariant == ModesSpec => []ModesIInv
<1> QED BY ModesStart, ModesStep, PTL DEF ModesSpec

\* What a monitor has been told.
LEMMA ShownIs ==
  ASSUME ModesIInv, lease # "idle"
  PROVE  /\ Known(modes) /\ AcceptableModes(modes)
         /\ Tells(edid, modes)
<1>1. /\ ipad \in Ipads /\ modes = previous /\ AcceptableModes(modes)
      /\ edid = Edid(modes, ipad.id) /\ Known(modes)
  BY DEF ModesIInv, WorkerKnows, MonitorShows
<1>2. ipad.id \in [1..4 -> Octets]
  BY <1>1, ModesAssumption DEF Octets
<1>3. modes \in Seq(ModeSet) /\ \A m \in ToSet(modes) : IsMode(m)
  BY <1>1 DEF Known
<1>4. PICK id : id = ipad.id
  OBVIOUS
<1>5. edid = Edid(modes, id) /\ id \in [1..4 -> Octets]
  BY <1>1, <1>2, <1>4
<1>6. Tells(edid, modes)
  BY <1>1, <1>3, <1>5, EdidTells, Zenon
<1> QED BY <1>1, <1>6

\* The EDID tells the monitor's modes.
LEMMA ModesIInvTold == ModesIInv => EdidTellsModes
<1> SUFFICES ASSUME ModesIInv, modes # <<>>
             PROVE  Parsed(edid) = modes /\ Len(edid) = 128 /\ Byte(Total(edid)) = 0
  BY DEF EdidTellsModes
<1>1. lease # "idle"
  BY DEF ModesIInv, MonitorShows
<1> QED BY <1>1, ShownIs, Zenon DEF Tells

\* Types and bounds, and host and driver of one mind.
LEMMA ModesIInvTyped == ModesIInv => ModesInv
<1> SUFFICES ASSUME ModesIInv PROVE ModesInv
  OBVIOUS
<1>1. WorkerKnows /\ MonitorShows
  BY DEF ModesIInv
<1>2. Len(modes) <= 4 /\ \A m \in ToSet(modes) : IsMode(m)
  <2>1. CASE lease = "idle"
    BY <1>1, <2>1 DEF MonitorShows, ToSet
  <2>2. CASE lease # "idle"
    BY <1>1, <2>2 DEF MonitorShows, WorkerKnows, Known, UpToFour
  <2> QED BY <2>1, <2>2
<1>3. \A i \in DOMAIN edid : edid[i] \in 0..255
  <2>1. CASE lease = "idle"
    BY <1>1, <2>1 DEF MonitorShows
  <2>2. CASE lease # "idle"
    <3>1. edid \in Seq(Octets)
      BY <2>2, ShownIs, Zenon DEF Tells
    <3>2. \A i \in DOMAIN edid : edid[i] \in Octets
      BY <3>1
    <3> QED BY <3>2 DEF Octets
  <2> QED BY <2>1, <2>2
<1>4. Len(previous) <= 4 /\ \A m \in ToSet(previous) : IsMode(m)
  BY <1>1 DEF WorkerKnows, Known, UpToFour
<1>5. {width, height} \subseteq 0..4094
  BY <1>1 DEF WorkerKnows, Pixel
<1>6. \A list \in {previous, modes} : Len(list) <= 4 /\ \A m \in ToSet(list) : IsMode(m)
  BY <1>2, <1>4, Zenon
<1>7. ModesTypeOK
  <2>1. /\ fps \in FrameRates /\ falls \in FallSets /\ lease \in {"idle", "streaming", "grace"}
        /\ ipad \in Ipads \cup {NoIpad} /\ (request = NoMode \/ IsMode(request))
    BY <1>1, Zenon DEF WorkerKnows
  <2>2. rejected \in BOOLEAN
    BY <1>1 DEF WorkerKnows
  <2> QED BY <1>3, <1>5, <1>6, <2>1, <2>2 DEF ModesTypeOK
<1>8. MonitorHasModes
  BY <1>1 DEF MonitorHasModes, MonitorShows
<1> QED BY <1>7, <1>8 DEF ModesInv

\* The lists, what is asked for and the EDID's bytes are in range, and the host's list is the
\* monitor's, over reconnects, rotations and changes of rate.
THEOREM ModesAgree == ModesSpec => []ModesInv
<1> QED BY ModesInvariant, ModesIInvTyped, PTL

\* What Windows reads from the EDID is the driver's list, mode by mode, and the block adds
\* up to zero: no size or rate is lost in packing and rounding.
THEOREM EdidIsRead == ModesSpec => []EdidTellsModes
<1> QED BY ModesInvariant, ModesIInvTold, PTL

\* A list that modes() has let pass is never refused by the driver, and none of its modes
\* exceeds the screen, for all screens and whatever floating point rounds down.
THEOREM OffersAreTaken == ModesSpec => []OffersFit
<1>1. ModesIInv => OffersFit
  BY DEF ModesIInv, WorkerKnows, MonitorShows, OffersFit, ModesFitScreen
<1> QED BY <1>1, ModesInvariant, PTL
=============================================================================
