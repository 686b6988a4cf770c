------------------------------ MODULE WireProofs ------------------------------
(***************************************************************************)
(* What WireFormat's sums and reader compute, and with that what Datagrams *)
(* promises for all datagram sizes and frames, and ControlStream for all   *)
(* queues, encoders and pieces in which the bytes come.                    *)
(***************************************************************************)
EXTENDS ControlStream, Datagrams, SequenceTheorems, WellFoundedInduction, TLAPS

-----------------------------------------------------------------------------
(* Sums.                                                                   *)

\* A set of numbers has a least one: induction, as the provers can use it.
LEMMA LeastOf ==
  ASSUME NEW S \in SUBSET Nat, S # {}
  PROVE  \E x \in S : \A y \in S : x <= y
<1>1. PICK x \in S : \A y \in S : ~(<<y, x>> \in OpToRel(<, Nat))
  BY NatLessThanWellFounded, WFMin, Zenon
<1>2. \A y \in S : x <= y
  <2> TAKE y \in S
  <2>1. x \in Nat /\ y \in Nat
    OBVIOUS
  <2>2. ~(y < x)
    BY <1>1, <2>1 DEF OpToRel
  <2> QED BY <2>1, <2>2
<1> QED BY <1>2

\* A set of numbers up to n that is not empty has its maximum; it is n if n is in it.
LEMMA GreatestOf ==
  ASSUME NEW n \in Nat, NEW t \in SUBSET (1..n), t # {}
  PROVE  Max(t) \in t /\ (\A y \in t : y <= Max(t)) /\ (n \in t => Max(t) = n)
<1> DEFINE U == {u \in Nat : \A y \in t : y <= u}
<1>1. U \in SUBSET Nat /\ n \in U
  OBVIOUS
<1>2. PICK m \in U : \A u \in U : m <= u
  BY <1>1, LeastOf
<1>3. m \in t
  <2> SUFFICES ASSUME m \notin t PROVE FALSE
    OBVIOUS
  <2>1. \A y \in t : y \in Nat /\ y <= m /\ y # m /\ 1 <= y
    OBVIOUS
  <2>2. m \in Nat /\ \E y \in t : y <= m - 1
    <3>1. m \in Nat
      OBVIOUS
    <3>2. PICK y \in t : TRUE
      OBVIOUS
    <3> QED BY <2>1, <3>1, <3>2
  <2>3. m - 1 \in Nat /\ \A y \in t : y <= m - 1
    BY <2>1, <2>2
  <2>4. m - 1 \in U
    BY <2>3
  <2> QED BY <1>2, <2>4
<1>4. \A y \in t : m >= y
  OBVIOUS
<1>5. \A x \in t : (\A y \in t : x >= y) => x = m
  BY <1>3, <1>4
<1> HIDE DEF U
<1>6. Max(t) = m
  BY <1>3, <1>4, <1>5 DEF Max
<1> QED BY <1>3, <1>4, <1>6

\* The function that FoldLeft computes sums with, of the numbers at the places 1..n.
IsSum(g, s, n) ==
  g = [t \in SUBSET (1..n) |-> IF t = {} THEN 0 ELSE g[t \ {Max(t)}] + s[Max(t)]]

\* There is such a function, for as many numbers as one likes.
LEMMA SumExists ==
  ASSUME NEW s, NEW n \in Nat
  PROVE  \E g : IsSum(g, s, n)
<1> DEFINE Bad == {k \in Nat : ~ \E g : IsSum(g, s, k)}
<1> SUFFICES ASSUME Bad # {} PROVE FALSE
  OBVIOUS
<1>1. PICK k \in Bad : \A j \in Bad : k <= j
  BY LeastOf
<1>2. CASE k = 0
  <2>1. IsSum([t \in SUBSET (1..k) |-> 0], s, k)
    <3>1. \A t \in SUBSET (1..k) : t = {}
      BY <1>2
    <3> QED BY <3>1 DEF IsSum
  <2> QED BY <2>1
<1>3. CASE k # 0
  <2>1. k - 1 \in Nat /\ k - 1 \notin Bad
    BY <1>1, <1>3
  <2>2. PICK h : IsSum(h, s, k - 1)
    BY <2>1
  <2> DEFINE g == [t \in SUBSET (1..k) |-> IF k \in t THEN h[t \ {k}] + s[k] ELSE h[t]]
  <2>3. ASSUME NEW t \in SUBSET (1..k)
        PROVE  g[t] = IF t = {} THEN 0 ELSE g[t \ {Max(t)}] + s[Max(t)]
    <3>1. CASE k \in t
      <4>1. Max(t) = k
        BY <3>1, GreatestOf
      <4>2. t \ {k} \in SUBSET (1..k) /\ k \notin t \ {k}
        OBVIOUS
      <4>3. g[t \ {k}] = h[t \ {k}]
        BY <4>2
      <4> QED BY <3>1, <4>1, <4>3
    <3>2. CASE k \notin t
      <4>1. t \in SUBSET (1..(k - 1))
        BY <2>1, <3>2
      <4>2. h[t] = IF t = {} THEN 0 ELSE h[t \ {Max(t)}] + s[Max(t)]
        BY <2>2, <4>1, Zenon DEF IsSum
      <4>3. t # {} => t \ {Max(t)} \in SUBSET (1..k) /\ k \notin t \ {Max(t)}
        BY <3>2
      <4>4. g[t] = h[t] /\ (t # {} => g[t \ {Max(t)}] = h[t \ {Max(t)}])
        BY <3>2, <4>3
      <4> QED BY <4>2, <4>4
    <3> QED BY <3>1, <3>2
  <2>4. IsSum(g, s, k)
    BY <2>3, Zenon DEF IsSum
  <2> QED BY <2>4
<1> QED BY <1>2, <1>3

\* What it says of the first k numbers.
LEMMA SumSegment ==
  ASSUME NEW g, NEW s, NEW n \in Nat, IsSum(g, s, n), NEW k \in 0..n
  PROVE  g[1..k] = IF k = 0 THEN 0 ELSE g[1..(k - 1)] + s[k]
<1>1. 1..k \in SUBSET (1..n) /\ 1..k \in SUBSET (1..k)
  OBVIOUS
<1>2. g[1..k] = IF 1..k = {} THEN 0 ELSE g[(1..k) \ {Max(1..k)}] + s[Max(1..k)]
  BY <1>1, Zenon DEF IsSum
<1>3. CASE k = 0
  BY <1>2, <1>3
<1>4. CASE k # 0
  <2>1. k \in 1..k /\ k \in Nat
    BY <1>4
  <2>2. Max(1..k) = k
    BY <1>1, <2>1, GreatestOf
  <2>3. (1..k) \ {k} = 1..(k - 1)
    BY <1>4
  <2>4. g[1..k] = g[(1..k) \ {Max(1..k)}] + s[Max(1..k)]
    BY <1>2, <2>1
  <2>5. g[1..k] = g[1..(k - 1)] + s[k]
    BY <2>2, <2>3, <2>4, Zenon
  <2> QED BY <1>4, <2>5
<1> QED BY <1>3, <1>4

\* Sums of equal numbers are equal, whatever follows them.
LEMMA SumUnique ==
  ASSUME NEW g, NEW h, NEW s, NEW r, NEW n \in Nat, NEW m \in Nat, IsSum(g, s, n), IsSum(h, r, m),
         NEW k \in Nat, k <= n, k <= m, \A i \in 1..k : s[i] = r[i]
  PROVE  g[1..k] = h[1..k]
<1> DEFINE Bad == {j \in 0..k : g[1..j] # h[1..j]}
<1> SUFFICES ASSUME Bad # {} PROVE FALSE
  OBVIOUS
<1>0. Bad \in SUBSET Nat
  OBVIOUS
<1>1. PICK j \in Bad : \A i \in Bad : j <= i
  BY <1>0, LeastOf
<1>2. j \in 0..n /\ j \in 0..m
  OBVIOUS
<1>3. /\ g[1..j] = IF j = 0 THEN 0 ELSE g[1..(j - 1)] + s[j]
      /\ h[1..j] = IF j = 0 THEN 0 ELSE h[1..(j - 1)] + r[j]
  BY <1>2, SumSegment
<1>4. j # 0 => j - 1 \in 0..k /\ j - 1 \notin Bad /\ s[j] = r[j]
  BY <1>1
<1> QED BY <1>3, <1>4

\* The fold is such a function at the whole sequence.
LEMMA SumIs ==
  ASSUME NEW n \in Nat, NEW s, DOMAIN s = 1..n
  PROVE  \E g : IsSum(g, s, n) /\ SumOf(s) = g[1..n]
<1> DEFINE g == CHOOSE it : it = [t \in SUBSET DOMAIN s |->
                                    IF t = {} THEN 0 ELSE it[t \ {Max(t)}] + s[Max(t)]]
<1>1. SumOf(s) = g[1..n]
  BY DEF SumOf, FoldLeft, MapThenFoldSet
<1>2. \E it : it = [t \in SUBSET DOMAIN s |->
                      IF t = {} THEN 0 ELSE it[t \ {Max(t)}] + s[Max(t)]]
  <2>1. PICK h : IsSum(h, s, n)
    BY SumExists
  <2>2. h = [t \in SUBSET DOMAIN s |->
                      IF t = {} THEN 0 ELSE h[t \ {Max(t)}] + s[Max(t)]]
    BY <2>1, Zenon DEF IsSum
  <2> QED BY <2>2
<1>3. IsSum(g, s, n)
  BY <1>2 DEF IsSum
<1> QED BY <1>1, <1>3

\* A sum is the last of the partial sums, each of which adds a number to the one before.
LEMMA PartialSums ==
  ASSUME NEW n \in Nat, NEW s \in [1..n -> Nat]
  PROVE  \E p \in [0..n -> Nat] : /\ p[0] = 0 /\ \A k \in 1..n : p[k] = p[k - 1] + s[k]
                                  /\ SumOf(s) = p[n]
<1>1. PICK g : IsSum(g, s, n) /\ SumOf(s) = g[1..n]
  <2>1. DOMAIN s = 1..n
    OBVIOUS
  <2> QED BY <2>1, SumIs
<1>2. \A k \in 0..n : g[1..k] = IF k = 0 THEN 0 ELSE g[1..(k - 1)] + s[k]
  <2>1. IsSum(g, s, n)
    BY <1>1
  <2> QED BY <2>1, SumSegment
<1> DEFINE Bad == {k \in 0..n : g[1..k] \notin Nat}
<1>3. Bad = {}
  <2> SUFFICES ASSUME Bad # {} PROVE FALSE
    OBVIOUS
  <2>0. Bad \in SUBSET Nat
    OBVIOUS
  <2>1. PICK k \in Bad : \A i \in Bad : k <= i
    BY <2>0, LeastOf
  <2>2. k # 0 => g[1..(k - 1)] \in Nat /\ s[k] \in Nat
    BY <2>1
  <2> QED BY <1>2, <2>2
<1> DEFINE p == [k \in 0..n |-> g[1..k]]
<1>4. p \in [0..n -> Nat]
  BY <1>3
<1>5. p[0] = 0 /\ \A k \in 1..n : p[k] = p[k - 1] + s[k]
  BY <1>2
<1>6. SumOf(s) = p[n]
  BY <1>1
<1> QED BY <1>4, <1>5, <1>6

\* HEADER, 36 bytes.
LEMMA HeaderIs == Header = 36
<1> DEFINE s == HeaderFields
<1>1. s \in [1..7 -> Nat] /\ s[1] = 4 /\ s[2] = 1 /\ s[3] = 1 /\ s[4] = 2 /\ s[5] = 4 /\ s[6] = 8
      /\ s[7] = 16
  BY DEF HeaderFields
<1> HIDE DEF s
<1>2. PICK p \in [0..7 -> Nat] : /\ p[0] = 0 /\ \A k \in 1..7 : p[k] = p[k - 1] + s[k]
                               /\ SumOf(s) = p[7]
  BY <1>1, PartialSums
<1>3. /\ p[1] = p[0] + 4 /\ p[2] = p[1] + 1 /\ p[3] = p[2] + 1 /\ p[4] = p[3] + 2 /\ p[5] = p[4] + 4
      /\ p[6] = p[5] + 8 /\ p[7] = p[6] + 16
  BY <1>1, <1>2
<1> QED BY <1>2, <1>3 DEF Header, s

\* Which kinds each of the four tables has, and that no kind is in two.
LEMMA Kinds ==
  /\ DOMAIN PairingMessages = {"Handshake", "ProtocolVersion", "HostInfo", "ClientInfo", "Pairing",
                               "SessionStart", "SessionStop"}
  /\ DOMAIN DisplayMessages = {"DisplayCapabilities", "DisplayMode", "DisplayModeChange",
                               "EncoderCapabilities", "EncoderConfig", "VideoConfig"}
  /\ DOMAIN VideoMessages = {"VideoFrame", "VideoFragment", "KeyframeRequest"}
  /\ DOMAIN SessionMessages = {"InputEvent", "Ping", "Pong", "Statistics", "ProtocolError"}
  BY DEF PairingMessages, DisplayMessages, VideoMessages, SessionMessages

\* The table a kind's fields are in.
LEMMA FieldsOf ==
  ASSUME NEW kind
  PROVE  /\ kind \in DOMAIN PairingMessages => Fields(kind) = PairingMessages[kind]
         /\ kind \in DOMAIN DisplayMessages => Fields(kind) = DisplayMessages[kind]
         /\ kind \in DOMAIN VideoMessages => Fields(kind) = VideoMessages[kind]
         /\ kind \in DOMAIN SessionMessages => Fields(kind) = SessionMessages[kind]
  BY Kinds DEF Fields

\* A sum of one number.
LEMMA SumOfOne ==
  ASSUME NEW d \in Nat
  PROVE  SumOf(<<d>>) = d
<1> DEFINE s == <<d>>
<1>1. s \in [1..1 -> Nat] /\ s[1] = d
  OBVIOUS
<1> HIDE DEF s
<1>2. PICK p \in [0..1 -> Nat] : /\ p[0] = 0 /\ \A k \in 1..1 : p[k] = p[k - 1] + s[k]
                                 /\ SumOf(s) = p[1]
  BY <1>1, PartialSums
<1>3. p[1] = p[0] + s[1]
  BY <1>2
<1>4. SumOf(s) = d
  BY <1>1, <1>2, <1>3
<1> QED BY <1>4 DEF s

\* A fragment takes 85 bytes besides its data: header, nine fields and the length.
LEMMA FragmentSize ==
  ASSUME NEW d \in Nat
  PROVE  PacketSize("VideoFragment", <<d>>) = 85 + d
<1>1. Fields("VideoFragment") =
        <<"u32", "u64", "u64", "u64", "u64", "u8", "u16", "u16", "u32", "bytes">>
  <2>1. Fields("VideoFragment") = VideoMessages["VideoFragment"]
    BY Kinds, FieldsOf
  <2> QED BY <2>1 DEF VideoMessages
<1> DEFINE w == Widths("VideoFragment")
<1>2. /\ w \in [1..10 -> Nat] /\ w[1] = 4 /\ w[2] = 8 /\ w[3] = 8 /\ w[4] = 8 /\ w[5] = 8
      /\ w[6] = 1 /\ w[7] = 2 /\ w[8] = 2 /\ w[9] = 4 /\ w[10] = 4
  <2> DEFINE f == Fields("VideoFragment")
  <2>1. /\ DOMAIN f = 1..10 /\ f[1] = "u32" /\ f[2] = "u64" /\ f[3] = "u64" /\ f[4] = "u64"
        /\ f[5] = "u64" /\ f[6] = "u8" /\ f[7] = "u16" /\ f[8] = "u16" /\ f[9] = "u32"
        /\ f[10] = "bytes"
    BY <1>1
  <2>2. /\ Width["u8"] = 1 /\ Width["u16"] = 2 /\ Width["u32"] = 4 /\ Width["u64"] = 8
        /\ Width["bytes"] = 4
    BY DEF Width
  <2>3. w = [i \in 1..10 |-> Width[f[i]]]
    BY <2>1 DEF Widths
  <2> HIDE DEF f, w
  <2>4. /\ w[1] = 4 /\ w[2] = 8 /\ w[3] = 8 /\ w[4] = 8 /\ w[5] = 8
        /\ w[6] = 1 /\ w[7] = 2 /\ w[8] = 2 /\ w[9] = 4 /\ w[10] = 4
    BY <2>1, <2>2, <2>3
  <2>5. \A i \in 1..10 : w[i] \in Nat
    <3>1. \A i \in 1..10 : i \in {1, 2, 3, 4, 5, 6, 7, 8, 9, 10}
      OBVIOUS
    <3> QED BY <2>4, <3>1
  <2>6. w \in [1..10 -> Nat]
    BY <2>3, <2>5
  <2> QED BY <2>4, <2>6
<1> HIDE DEF w
<1>3. PICK p \in [0..10 -> Nat] : /\ p[0] = 0 /\ \A k \in 1..10 : p[k] = p[k - 1] + w[k]
                                  /\ SumOf(w) = p[10]
  BY <1>2, PartialSums
<1>4. /\ p[1] = p[0] + 4 /\ p[2] = p[1] + 8 /\ p[3] = p[2] + 8 /\ p[4] = p[3] + 8 /\ p[5] = p[4] + 8
      /\ p[6] = p[5] + 1 /\ p[7] = p[6] + 2 /\ p[8] = p[7] + 2 /\ p[9] = p[8] + 4
      /\ p[10] = p[9] + 4
  BY <1>2, <1>3
<1>5. SumOf(w) = 49
  BY <1>3, <1>4
<1>6. SumOf(<<d>>) = d
  BY SumOfOne
<1> QED BY <1>5, <1>6, HeaderIs DEF PacketSize, Write, w
-----------------------------------------------------------------------------
(* Datagrams.                                                              *)

\* The smaller of two numbers.
LEMMA MinOfTwo ==
  ASSUME NEW a \in Int, NEW b \in Int
  PROVE  Min({a, b}) = IF a <= b THEN a ELSE b
<1> DEFINE m == IF a <= b THEN a ELSE b
<1>1. m \in {a, b} /\ \A y \in {a, b} : m <= y
  OBVIOUS
<1>2. \A x \in {a, b} : (\A y \in {a, b} : x <= y) => x = m
  OBVIOUS
<1> HIDE DEF m
<1>3. Min({a, b}) = m
  BY <1>1, <1>2 DEF Min
<1> QED BY <1>3 DEF m

\* MAX_FRAME, as far as most proofs need it.
LEMMA MaxBytesIsNat == MaxBytes \in Nat
  BY SMT DEF MaxBytes

\* What a quotient rounded down is.
LEMMA Division ==
  ASSUME NEW a \in Nat, NEW c \in Nat \ {0}
  PROVE  /\ a \div c \in Nat
         /\ (a \div c) * c <= a /\ a < (a \div c) * c + c
  OBVIOUS

\* A datagram with room for data gives pieces that are not empty and fit it.
LEMMA ChunkBounds ==
  ASSUME NEW mtu \in Nat, Limit(mtu) > Overhead
  PROVE  Chunk(mtu) \in 1..1100 /\ Overhead + Chunk(mtu) <= Limit(mtu) /\ Overhead = 85
         /\ Limit(mtu) \in Nat
<1>1. Overhead = 85
  BY HeaderIs DEF Overhead
<1>2. Limit(mtu) \in Nat
  <2>1. Limit(mtu) = IF mtu <= 1200 THEN mtu ELSE 1200
    BY MinOfTwo DEF Limit, MaxDatagram
  <2> QED BY <2>1
<1>3. Chunk(mtu) = IF Limit(mtu) - 85 <= 1100 THEN Limit(mtu) - 85 ELSE 1100
  BY <1>1, <1>2, MinOfTwo DEF Chunk
<1> QED BY <1>1, <1>2, <1>3

\* What send_frame() has checked of a frame it sends.
LEMMA SendableIs ==
  ASSUME NEW mtu, NEW len, Sendable(mtu, len)
  PROVE  len <= MaxBytes /\ Limit(mtu) > Overhead /\ Count(mtu, len) \in 1..4096
  BY SMTT(30) DEF Sendable

\* So for every frame that may be sent.
LEMMA SendableChunk ==
  ASSUME NEW mtu \in Nat, NEW len, Sendable(mtu, len)
  PROVE  Chunk(mtu) \in 1..1100 /\ 85 + Chunk(mtu) <= Limit(mtu) /\ Limit(mtu) \in Nat
<1>1. Limit(mtu) > Overhead
  BY SendableIs
<1>2. /\ Chunk(mtu) \in 1..1100 /\ Overhead + Chunk(mtu) <= Limit(mtu) /\ Overhead = 85
      /\ Limit(mtu) \in Nat
  BY <1>1, ChunkBounds, Zenon
<1> QED BY <1>2, Zenon

\* A frame that may be sent is not empty; its pieces cover it, and each begins within it.
LEMMA Cut ==
  ASSUME NEW mtu \in Nat, NEW len \in Nat, Sendable(mtu, len)
  PROVE  /\ len \in 1..MaxBytes
         /\ Count(mtu, len) \in Nat
         /\ Count(mtu, len) * Chunk(mtu) >= len
         /\ \A i \in Nat : i < Count(mtu, len) =>
              i * Chunk(mtu) \in Nat /\ i * Chunk(mtu) < len
<1> DEFINE c == Chunk(mtu)
           n == Count(mtu, len)
<1>1. c \in 1..1100
  BY SendableChunk, Zenon
<1>a. n = (len + c - 1) \div c
  BY Zenon DEF Count
<1>b. n \in 1..4096 /\ len <= MaxBytes
  BY SendableIs
<1> HIDE DEF c, n
<1>2. n = (len + c - 1) \div c /\ n \in 1..4096 /\ len <= MaxBytes
  BY <1>a, <1>b
<1>3. n * c <= len + c - 1 /\ len + c - 1 < n * c + c
  <2>1. len + c - 1 \in Nat /\ c \in Nat \ {0}
    BY <1>1
  <2>2. (len + c - 1) \div c \in Nat
    BY <2>1, Division, Zenon
  <2>3. /\ ((len + c - 1) \div c) * c <= len + c - 1
        /\ len + c - 1 < ((len + c - 1) \div c) * c + c
    BY <2>1, Division, Zenon
  <2>4. n = (len + c - 1) \div c
    BY <1>2
  <2> QED BY <2>3, <2>4, Zenon
<1>4. n * c >= len /\ n * c \in Nat
  BY <1>1, <1>2, <1>3
<1>5. ASSUME NEW i \in Nat, i < n
      PROVE  i * c \in Nat /\ i * c < len
  <2>1. i * c \in Nat /\ (i + 1) * c = i * c + c
    BY <1>1
  <2>2. (i + 1) * c <= n * c
    <3>1. i + 1 <= n /\ i + 1 \in Nat /\ n \in Nat /\ c \in Nat
      BY <1>1, <1>2, <1>5
    <3>2. \A x, y, z \in Nat : x <= y => x * z <= y * z
      OBVIOUS
    <3> QED BY <3>1, <3>2
  <2> QED BY <1>1, <1>3, <1>4, <2>1, <2>2
<1>6. len \in 1..MaxBytes
  <2>1. 0 * c = 0 /\ 0 < n /\ 0 \in Nat
    BY <1>1, <1>2
  <2>2. 0 < len
    BY <1>5, <2>1
  <2> QED BY <1>2, <2>2, MaxBytesIsNat
<1>7. n \in Nat
  <2>1. n \in 1..4096
    BY <1>2, Zenon
  <2> QED BY <2>1
<1>8. \A i \in Nat : i < n => i * c \in Nat /\ i * c < len
  BY <1>5
<1> QED BY <1>4, <1>6, <1>7, <1>8, Zenon DEF c, n

Lesser(a, b) == IF a <= b THEN a ELSE b

\* The assembler holds what the fragments so far have covered.
DatagramIInv ==
  /\ refusals = 0
  /\ frame \in [mtu : Nat, len : Nat, index : Nat]
  /\ frame # NoVideo =>
       /\ Sendable(frame.mtu, frame.len)
       /\ frame.index <= Count(frame.mtu, frame.len)
       /\ bytes = Lesser(frame.index * Chunk(frame.mtu), frame.len)

\* The next fragment: it has data, continues what was covered, and is taken.
LEMMA FragmentFits ==
  ASSUME DatagramIInv, frame # NoVideo, frame.index < Count(frame.mtu, frame.len)
  PROVE  /\ Data(frame) \in 1..Chunk(frame.mtu)
         /\ bytes = frame.index * Chunk(frame.mtu) /\ bytes \in Nat
         /\ bytes + Data(frame) = Lesser((frame.index + 1) * Chunk(frame.mtu), frame.len)
         /\ Ingestible(frame)
<1> DEFINE c == Chunk(frame.mtu)
           at == frame.index * c
<1>0. /\ frame.mtu \in Nat /\ frame.len \in Nat /\ frame.index \in Nat
      /\ Sendable(frame.mtu, frame.len) /\ bytes = Lesser(at, frame.len)
  BY DEF DatagramIInv
<1>1. c \in 1..1100
  BY <1>0, SendableChunk, Zenon
<1>2. at \in Nat /\ at < frame.len /\ frame.len \in 1..MaxBytes
  BY <1>0, Cut
<1>3. Count(frame.mtu, frame.len) \in 1..4096
  BY <1>0, SendableIs
<1>4. (frame.index + 1) * c = at + c
  <2>1. c \in Nat /\ \A i, k \in Nat : (i + 1) * k = i * k + k
    BY <1>1
  <2> HIDE DEF c
  <2> QED BY <1>0, <2>1
<1>5. Data(frame) = IF c <= frame.len - at THEN c ELSE frame.len - at
  <2> HIDE DEF c
  <2>1. frame.len - at \in Int /\ c \in Int
    BY <1>0, <1>1, <1>2
  <2>2. Data(frame) = Min({c, frame.len - at})
    BY DEF Data, c
  <2> QED BY <2>1, <2>2, MinOfTwo
<1> HIDE DEF c, at
<1> USE MaxBytesIsNat
<1>6. Data(frame) \in 1..c /\ Data(frame) \in 1..1100
  <2>1. frame.len - at \in Nat /\ frame.len - at >= 1 /\ c \in 1..1100
    BY <1>0, <1>1, <1>2
  <2> DEFINE left == frame.len - at
  <2> HIDE DEF left
  <2>2. left \in Nat /\ left >= 1 /\ Data(frame) = IF c <= left THEN c ELSE left
    BY <1>5, <2>1 DEF left
  <2>3. CASE c <= left
    BY <2>1, <2>2, <2>3
  <2>4. CASE ~(c <= left)
    <3>1. Data(frame) = left /\ left < c
      BY <2>1, <2>2, <2>4
    <3> QED BY <2>1, <2>2, <3>1
  <2> QED BY <2>3, <2>4
<1>7. bytes = at
  BY <1>0, <1>2 DEF Lesser
<1>8. bytes + Data(frame) = Lesser(at + c, frame.len) /\ bytes + Data(frame) <= frame.len
  BY <1>0, <1>1, <1>2, <1>5, <1>7 DEF Lesser
<1>9. Ingestible(frame)
  <2>1. Count(frame.mtu, frame.len) \in 1..4096 /\ frame.index < Count(frame.mtu, frame.len)
    BY <1>3
  <2>2. Data(frame) \in 1..1100 /\ frame.len \in 1..MaxBytes /\ bytes + Data(frame) <= frame.len
    BY <1>2, <1>6, <1>8
  <2> QED BY <2>1, <2>2, SMTT(30) DEF Ingestible
<1> QED BY <1>2, <1>4, <1>6, <1>7, <1>8, <1>9 DEF c, at

\* Every step of the frame keeps the invariant.
LEMMA DatagramStep == DatagramIInv /\ [DatagramNext]_datagramVars => DatagramIInv'
<1> SUFFICES ASSUME DatagramIInv, [DatagramNext]_datagramVars PROVE DatagramIInv'
  OBVIOUS
<1>0. frame \in [mtu : Nat, len : Nat, index : Nat] /\ refusals = 0
  BY DEF DatagramIInv
<1>1. CASE SendFragment
  <2>1. frame # NoVideo /\ frame.index < Count(frame.mtu, frame.len)
    BY <1>1 DEF SendFragment
  <2>2. /\ Ingestible(frame)
        /\ bytes + Data(frame) = Lesser((frame.index + 1) * Chunk(frame.mtu), frame.len)
    BY <2>1, FragmentFits
  <2>3. bytes' = bytes + Data(frame) /\ refusals' = refusals
    BY <1>1, <2>2 DEF SendFragment
  <2>4. /\ frame'.mtu = frame.mtu /\ frame'.len = frame.len /\ frame'.index = frame.index + 1
        /\ frame' \in [mtu : Nat, len : Nat, index : Nat]
    BY <1>0, <1>1 DEF SendFragment
  <2>5. /\ Sendable(frame.mtu, frame.len) /\ Count(frame.mtu, frame.len) \in Nat
    <3>1. Sendable(frame.mtu, frame.len)
      BY <2>1 DEF DatagramIInv
    <3> QED BY <1>0, <3>1, Cut
  <2>6. frame.index + 1 <= Count(frame.mtu, frame.len)
    BY <1>0, <2>1, <2>5
  <2> QED BY <1>0, <2>2, <2>3, <2>4, <2>5, <2>6 DEF DatagramIInv
<1>2. CASE EndFrame
  BY <1>0, <1>2 DEF EndFrame, DatagramIInv, NoVideo
<1>3. ASSUME NEW mtu \in Mtus, NEW len \in FrameLengths, SendFrame(mtu, len)
      PROVE  DatagramIInv'
  <2>1. mtu \in Nat /\ len \in Nat
    BY DatagramAssumption
  <2>2. Sendable(mtu, len) /\ bytes' = 0 /\ refusals' = 0
    BY <1>0, <1>3 DEF SendFrame
  <2>3. /\ frame' = [mtu |-> mtu, len |-> len, index |-> 0]
        /\ frame'.mtu = mtu /\ frame'.len = len /\ frame'.index = 0
    BY <1>3 DEF SendFrame
  <2>4. frame' \in [mtu : Nat, len : Nat, index : Nat]
    BY <2>1, <2>3
  <2>5. 0 <= Count(mtu, len) /\ 0 * Chunk(mtu) = 0
    <3>1. Chunk(mtu) \in 1..1100
      BY <2>1, <2>2, SendableChunk, Zenon
    <3>2. Count(mtu, len) \in Nat
      BY <2>1, <2>2, Cut
    <3> QED BY <3>1, <3>2
  <2>6. bytes' = Lesser(0 * Chunk(mtu), len)
    BY <2>1, <2>2, <2>5 DEF Lesser
  <2> QED BY <2>2, <2>3, <2>4, <2>5, <2>6 DEF DatagramIInv
<1>4. CASE UNCHANGED datagramVars
  BY <1>4 DEF datagramVars, DatagramIInv
<1> QED BY <1>1, <1>2, <1>3, <1>4 DEF DatagramNext

\* A frame cut as the invariant says has fragments that fit.
LEMMA DatagramIInvFits == DatagramIInv => FragmentsFit
<1> SUFFICES ASSUME DatagramIInv PROVE FragmentsFit
  OBVIOUS
<1>0. /\ frame.mtu \in Nat /\ frame.len \in Nat /\ frame.index \in Nat /\ refusals = 0
      /\ frame # NoVideo => Sendable(frame.mtu, frame.len)
  BY DEF DatagramIInv
<1>1. ASSUME frame # NoVideo, frame.index < Count(frame.mtu, frame.len)
      PROVE  PacketSize("VideoFragment", <<Data(frame)>>) <= Limit(frame.mtu)
  <2>1. /\ Chunk(frame.mtu) \in 1..1100 /\ 85 + Chunk(frame.mtu) <= Limit(frame.mtu)
        /\ Limit(frame.mtu) \in Nat
    BY <1>0, <1>1, SendableChunk, Zenon
  <2>2. Data(frame) \in 1..Chunk(frame.mtu)
    BY <1>1, FragmentFits
  <2>3. Data(frame) \in Nat
    BY <2>1, <2>2
  <2>4. PacketSize("VideoFragment", <<Data(frame)>>) = 85 + Data(frame)
    BY <2>3, FragmentSize
  <2> QED BY <2>1, <2>2, <2>3, <2>4
<1>2. ASSUME frame # NoVideo, frame.index = Count(frame.mtu, frame.len)
      PROVE  bytes = frame.len
  <2>1. bytes = Lesser(frame.index * Chunk(frame.mtu), frame.len)
    BY <1>2 DEF DatagramIInv
  <2>2. frame.index * Chunk(frame.mtu) >= frame.len
    BY <1>0, <1>2, Cut
  <2>3. frame.index * Chunk(frame.mtu) \in Nat
    <3>1. Chunk(frame.mtu) \in 1..1100
      BY <1>0, <1>2, SendableChunk, Zenon
    <3> QED BY <1>0, <3>1
  <2> QED BY <1>0, <2>1, <2>2, <2>3 DEF Lesser
<1> QED BY <1>0, <1>1, <1>2 DEF FragmentsFit

\* send_frame() and ingest(): for every datagram size QUIC may report and every length of
\* a frame, no fragment exceeds the datagram, none is refused, and all of them together
\* are the frame; also where the size changes between two frames.
THEOREM FragmentsFitTheDatagram == DatagramSafety => []FragmentsFit
<1>1. DatagramInit => DatagramIInv
  BY DEF DatagramInit, DatagramIInv, NoVideo
<1>2. DatagramIInv /\ [DatagramNext]_datagramVars => DatagramIInv'
  BY DatagramStep
<1> QED BY <1>1, <1>2, DatagramIInvFits, PTL DEF DatagramSafety

-----------------------------------------------------------------------------
(* More of sums.                                                           *)

\* Numbers that rise by at least d from each to the next.
LEMMA Rising ==
  ASSUME NEW n \in Nat, NEW p \in [0..n -> Nat], NEW d \in Nat,
         \A k \in 1..n : p[k] >= p[k - 1] + d
  PROVE  \A i, j \in 0..n : i < j => p[j] >= p[i] + d
<1> SUFFICES ASSUME NEW i \in 0..n PROVE \A j \in 0..n : i < j => p[j] >= p[i] + d
  OBVIOUS
<1> DEFINE Bad == {j \in 0..n : i < j /\ ~(p[j] >= p[i] + d)}
<1> SUFFICES ASSUME Bad # {} PROVE FALSE
  OBVIOUS
<1>0. Bad \in SUBSET Nat
  OBVIOUS
<1>1. PICK j \in Bad : \A k \in Bad : j <= k
  BY <1>0, LeastOf
<1>2. j \in 1..n /\ j - 1 \in 0..n /\ i <= j - 1 /\ p[j] \in Nat /\ p[j - 1] \in Nat /\ p[i] \in Nat
  OBVIOUS
<1>3. p[j] >= p[j - 1] + d
  BY <1>2
<1>4. CASE i = j - 1
  BY <1>2, <1>3, <1>4
<1>5. CASE i # j - 1
  <2>1. j - 1 \notin Bad
    BY <1>1, <1>2
  <2>2. p[j - 1] >= p[i] + d
    BY <1>2, <1>5, <2>1
  <2> QED BY <1>2, <1>3, <2>2
<1> QED BY <1>4, <1>5

\* A sum of n numbers of at most m each.
LEMMA SumBounds ==
  ASSUME NEW n \in Nat, NEW m \in Nat, NEW s \in [1..n -> 0..m]
  PROVE  SumOf(s) \in 0..(n * m)
<1>1. PICK p \in [0..n -> Nat] : /\ p[0] = 0 /\ \A k \in 1..n : p[k] = p[k - 1] + s[k]
                                /\ SumOf(s) = p[n]
  <2>1. s \in [1..n -> Nat]
    OBVIOUS
  <2> QED BY <2>1, PartialSums
<1> DEFINE Bad == {k \in 0..n : ~(p[k] <= k * m)}
<1>2. Bad = {}
  <2> SUFFICES ASSUME Bad # {} PROVE FALSE
    OBVIOUS
  <2>0. Bad \in SUBSET Nat
    OBVIOUS
  <2>1. PICK k \in Bad : \A i \in Bad : k <= i
    BY <2>0, LeastOf
  <2>2. k # 0
    BY <1>1
  <2>3. k - 1 \in 0..n /\ k \in 1..n /\ k - 1 \notin Bad
    BY <2>1, <2>2
  <2>4. p[k - 1] <= (k - 1) * m
    BY <2>3
  <2>5. p[k] = p[k - 1] + s[k] /\ s[k] <= m /\ s[k] \in Nat /\ p[k - 1] \in Nat
    BY <1>1, <2>3
  <2>6. k * m = (k - 1) * m + m /\ (k - 1) * m \in Nat
    BY <2>3
  <2>8. p[k] \in Nat /\ k * m \in Nat
    BY <2>3, <2>6
  <2>9. p[k] <= k * m
    BY <2>3, <2>4, <2>5, <2>6, <2>8
  <2> QED BY <2>1, <2>9
<1>3. n \in 0..n /\ p[n] \in Nat
  OBVIOUS
<1>4. p[n] <= n * m
  BY <1>2, <1>3
<1> QED BY <1>1, <1>3, <1>4

-----------------------------------------------------------------------------
(* Reading.                                                                *)

IsRead(g, body, s, n) ==
  g = [t \in SUBSET (1..n) |->
         IF t = {} THEN AtStart ELSE Take(body, s[Max(t)], g[t \ {Max(t)}])]

\* The function that FoldLeft chooses is there to be chosen.
LEMMA ReadExists ==
  ASSUME NEW body, NEW s, NEW n \in Nat
  PROVE  \E g : IsRead(g, body, s, n)
<1> DEFINE Bad == {k \in Nat : ~ \E g : IsRead(g, body, s, k)}
<1> SUFFICES ASSUME Bad # {} PROVE FALSE
  OBVIOUS
<1>1. PICK k \in Bad : \A j \in Bad : k <= j
  BY LeastOf
<1>2. CASE k = 0
  <2>1. IsRead([t \in SUBSET (1..k) |-> AtStart], body, s, k)
    <3>1. \A t \in SUBSET (1..k) : t = {}
      BY <1>2
    <3> QED BY <3>1 DEF IsRead
  <2> QED BY <2>1
<1>3. CASE k # 0
  <2>1. k - 1 \in Nat /\ k - 1 \notin Bad
    BY <1>1, <1>3
  <2>2. PICK h : IsRead(h, body, s, k - 1)
    BY <2>1
  <2> DEFINE g == [t \in SUBSET (1..k) |->
                     IF k \in t THEN Take(body, s[k], h[t \ {k}]) ELSE h[t]]
  <2>3. ASSUME NEW t \in SUBSET (1..k)
        PROVE  g[t] = IF t = {} THEN AtStart ELSE Take(body, s[Max(t)], g[t \ {Max(t)}])
    <3>1. CASE k \in t
      <4>1. Max(t) = k
        BY <3>1, GreatestOf
      <4>2. t \ {k} \in SUBSET (1..k) /\ k \notin t \ {k}
        OBVIOUS
      <4>3. g[t \ {k}] = h[t \ {k}]
        BY <4>2
      <4> QED BY <3>1, <4>1, <4>3
    <3>2. CASE k \notin t
      <4>1. t \in SUBSET (1..(k - 1))
        BY <2>1, <3>2
      <4>2. h[t] = IF t = {} THEN AtStart ELSE Take(body, s[Max(t)], h[t \ {Max(t)}])
        BY <2>2, <4>1, Zenon DEF IsRead
      <4>3. t # {} => t \ {Max(t)} \in SUBSET (1..k) /\ k \notin t \ {Max(t)}
        BY <3>2
      <4>4. g[t] = h[t] /\ (t # {} => g[t \ {Max(t)}] = h[t \ {Max(t)}])
        BY <3>2, <4>3
      <4> QED BY <4>2, <4>4
    <3> QED BY <3>1, <3>2
  <2>4. IsRead(g, body, s, k)
    BY <2>3, Zenon DEF IsRead
  <2> QED BY <2>4
<1> QED BY <1>2, <1>3

\* The reader's states, one after each field.
LEMMA ReadStates ==
  ASSUME NEW body, NEW n \in Nat, NEW s, DOMAIN s = 1..n
  PROVE  \E r : /\ r[0] = AtStart /\ \A k \in 1..n : r[k] = Take(body, s[k], r[k - 1])
                /\ Read(body, s) = r[n]
<1> DEFINE g == CHOOSE it : it = [t \in SUBSET DOMAIN s |->
                  IF t = {} THEN AtStart ELSE Take(body, s[Max(t)], it[t \ {Max(t)}])]
<1>1. Read(body, s) = g[1..n]
  BY DEF Read, FoldLeft, MapThenFoldSet
<1>2. \E it : it = [t \in SUBSET DOMAIN s |->
                  IF t = {} THEN AtStart ELSE Take(body, s[Max(t)], it[t \ {Max(t)}])]
  <2>1. PICK h : IsRead(h, body, s, n)
    BY ReadExists
  <2>2. h = [t \in SUBSET DOMAIN s |->
               IF t = {} THEN AtStart ELSE Take(body, s[Max(t)], h[t \ {Max(t)}])]
    BY <2>1, Zenon DEF IsRead
  <2> QED BY <2>2
<1>3. IsRead(g, body, s, n)
  BY <1>2 DEF IsRead
<1> HIDE DEF g
<1>4. ASSUME NEW k \in 0..n
      PROVE  g[1..k] = IF k = 0 THEN AtStart ELSE Take(body, s[k], g[1..(k - 1)])
  <2>1. 1..k \in SUBSET (1..n) /\ 1..k \in SUBSET (1..k)
    OBVIOUS
  <2>2. g[1..k] = IF 1..k = {} THEN AtStart
                  ELSE Take(body, s[Max(1..k)], g[(1..k) \ {Max(1..k)}])
    BY <1>3, <2>1, Zenon DEF IsRead
  <2>3. CASE k = 0
    BY <2>2, <2>3
  <2>4. CASE k # 0
    <3>1. k \in 1..k /\ k \in Nat
      BY <2>4
    <3>2. Max(1..k) = k
      BY <2>1, <3>1, GreatestOf
    <3>3. (1..k) \ {k} = 1..(k - 1)
      BY <2>4
    <3>4. g[1..k] = Take(body, s[Max(1..k)], g[(1..k) \ {Max(1..k)}])
      BY <2>2, <3>1
    <3>5. g[1..k] = Take(body, s[k], g[1..(k - 1)])
      BY <3>2, <3>3, <3>4, Zenon
    <3> QED BY <2>4, <3>5
  <2> QED BY <2>3, <2>4
<1> DEFINE r == [k \in 0..n |-> g[1..k]]
<1>5. r[0] = AtStart /\ \A k \in 1..n : r[k] = Take(body, s[k], r[k - 1])
  <2>1. r[0] = AtStart
    BY <1>4
  <2>2. ASSUME NEW k \in 1..n PROVE r[k] = Take(body, s[k], r[k - 1])
    <3>1. k \in 0..n /\ k - 1 \in 0..n /\ k # 0
      OBVIOUS
    <3>2. g[1..k] = Take(body, s[k], g[1..(k - 1)])
      BY <1>4, <3>1
    <3> QED BY <3>1, <3>2
  <2> QED BY <2>1, <2>2
<1>6. Read(body, s) = r[n]
  BY <1>1 DEF g
<1> QED BY <1>5, <1>6

\* Numbers that never fall are at most the last one.
LEMMA Rises ==
  ASSUME NEW n \in Nat, NEW p \in [0..n -> Nat], \A k \in 1..n : p[k] >= p[k - 1]
  PROVE  \A i \in 0..n : p[i] <= p[n]
<1>1. \A k \in 1..n : p[k] >= p[k - 1] + 0
  OBVIOUS
<1>2. \A i, j \in 0..n : i < j => p[j] >= p[i] + 0
  BY <1>1, Rising
<1>3. ASSUME NEW i \in 0..n PROVE p[i] <= p[n]
  <2>1. n \in 0..n /\ p[i] \in Nat /\ p[n] \in Nat
    OBVIOUS
  <2> QED BY <1>2, <2>1
<1> QED BY <1>3

\* The limits of the protocol, as far as the proofs need them.
LEMMA Maxima ==
  /\ MaxString \in Nat /\ MaxBytes \in Nat /\ MaxString <= MaxBytes /\ 32 <= MaxString
  /\ MaxControl \in Nat /\ 1000 <= MaxControl
  BY SMT DEF MaxString, MaxBytes, MaxControl

Types == {"u8", "u16", "u32", "u64", "f32", "bytes", "string"}

\* Every field takes at least a byte, and at most eight, by itself.
LEMMA WidthOfTypes == \A type \in Types : Width[type] \in 1..8
  BY DEF Types, Width

\* One field: the reader moves past it, and its length if it has one.
LEMMA TakeOne ==
  ASSUME NEW body, Len(body.lengths) \in Nat, NEW type, Width[type] \in 1..8,
         NEW at \in Nat, NEW met \in Nat, NEW next, NEW long \in Nat, long <= MaxString,
         type \in Variable => next = met + 1 /\ long = body.lengths[next],
         type \notin Variable => next = met /\ long = 0,
         next <= Len(body.lengths),
         at + Width[type] + long <= body.size
  PROVE  Take(body, type, [ok |-> TRUE, at |-> at, met |-> met]) =
           [ok |-> TRUE, at |-> at + Width[type] + long, met |-> next]
<1> DEFINE r == [ok |-> TRUE, at |-> at, met |-> met]
           size == IF type \in Variable /\ r.met < Len(body.lengths) THEN body.lengths[r.met + 1]
                   ELSE 0
<1>1. r.ok = TRUE /\ r.at = at /\ r.met = met
  OBVIOUS
<1> HIDE DEF r
<1>2. size = long /\ (IF type \in Variable THEN r.met + 1 ELSE r.met) = next
  BY <1>1
<1>3. Take(body, type, r) =
        [ok  |-> r.ok /\ r.at + Width[type] + size <= body.size
                 /\ size <= (IF type = "string" THEN MaxString ELSE MaxBytes),
         at  |-> r.at + Width[type] + size,
         met |-> IF type \in Variable THEN r.met + 1 ELSE r.met]
  BY DEF Take
<1> HIDE DEF size
<1>4. size <= (IF type = "string" THEN MaxString ELSE MaxBytes)
  BY <1>2, Maxima
<1>5. (r.ok /\ r.at + Width[type] + size <= body.size
       /\ size <= (IF type = "string" THEN MaxString ELSE MaxBytes)) = TRUE
  BY <1>1, <1>2, <1>4
<1>6. Take(body, type, r) = [ok |-> TRUE, at |-> at + Width[type] + long, met |-> next]
  BY <1>1, <1>2, <1>3, <1>5
<1> QED BY <1>6 DEF r

\* Four numbers added in another order.
LEMMA Regroup == \A a, b, c, d \in Nat : a + b + c + d = a + c + (b + d) /\ a + b \in Nat
  OBVIOUS

\* m[k] of the first k of n fields are variable.
Met(m, fields, n) ==
  /\ m \in [0..n -> Nat] /\ m[0] = 0
  /\ \A k \in 1..n : m[k] = m[k - 1] + (IF fields[k] \in Variable THEN 1 ELSE 0)

\* s holds the partial sums of the n numbers.
Adds(s, numbers, n) ==
  /\ s \in [0..n -> Nat] /\ s[0] = 0
  /\ \A k \in 1..n : s[k] = s[k - 1] + numbers[k]

\* What write() puts down is what message() reads.
LEMMA WrittenIsRead ==
  ASSUME NEW kind, NEW n \in Nat, Fields(kind) \in [1..n -> Types],
         NEW lengths \in Seq(0..MaxString),
         NEW m, Met(m, Fields(kind), n), m[n] = Len(lengths)
  PROVE  Accepts(kind, Write(kind, lengths))
<1> DEFINE f    == Fields(kind)
           w    == Widths(kind)
           l    == Len(lengths)
           body == Write(kind, lengths)
<1>1. w \in [1..n -> Nat] /\ \A k \in 1..n : w[k] = Width[f[k]]
  BY WidthOfTypes DEF Widths
<1>2. lengths \in [1..l -> Nat] /\ l \in Nat /\ \A j \in 1..l : lengths[j] \in 0..MaxString
  BY Maxima
<1>3. PICK p : Adds(p, w, n) /\ SumOf(w) = p[n]
  BY <1>1, PartialSums DEF Adds
<1>4. PICK q : Adds(q, lengths, l) /\ SumOf(lengths) = q[l]
  BY <1>2, PartialSums DEF Adds
<1>5. body.size = p[n] + q[l] /\ body.lengths = lengths
  BY <1>3, <1>4 DEF Write
<1>6. PICK r : /\ r[0] = AtStart /\ \A k \in 1..n : r[k] = Take(body, f[k], r[k - 1])
               /\ Read(body, f) = r[n]
  <2>1. DOMAIN f = 1..n
    OBVIOUS
  <2> QED BY <2>1, ReadStates
<1>0. f \in [1..n -> Types] /\ Met(m, f, n) /\ m[n] = l
  OBVIOUS
<1> HIDE DEF f, w, l, body
<1>7. p \in [0..n -> Nat] /\ \A i \in 0..n : p[i] <= p[n]
  <2>1. p \in [0..n -> Nat] /\ \A k \in 1..n : p[k] >= p[k - 1]
    <3>1. p \in [0..n -> Nat] /\ \A k \in 1..n : p[k] = p[k - 1] + w[k]
      BY <1>3 DEF Adds
    <3>2. ASSUME NEW k \in 1..n PROVE p[k] >= p[k - 1]
      <4>1. p[k] = p[k - 1] + w[k] /\ w[k] \in Nat /\ p[k - 1] \in Nat /\ p[k] \in Nat
        BY <1>1, <3>1
      <4> QED BY <4>1
    <3> QED BY <3>1, <3>2
  <2> QED BY <2>1, Rises
<1>8. q \in [0..l -> Nat] /\ \A i \in 0..l : q[i] <= q[l]
  <2>1. q \in [0..l -> Nat] /\ \A k \in 1..l : q[k] >= q[k - 1]
    <3>1. q \in [0..l -> Nat] /\ \A k \in 1..l : q[k] = q[k - 1] + lengths[k]
      BY <1>4 DEF Adds
    <3>2. ASSUME NEW k \in 1..l PROVE q[k] >= q[k - 1]
      <4>1. q[k] = q[k - 1] + lengths[k] /\ lengths[k] \in Nat
        BY <1>2, <3>1
      <4>2. q[k - 1] \in Nat /\ q[k] \in Nat
        BY <1>2, <3>1
      <4> QED BY <4>1, <4>2
    <3> QED BY <3>1, <3>2
  <2> QED BY <1>2, <2>1, Rises
<1>9. m \in [0..n -> Nat] /\ \A i \in 0..n : m[i] <= l
  <2>1. m \in [0..n -> Nat] /\ \A k \in 1..n : m[k] >= m[k - 1]
    <3>1. m \in [0..n -> Nat]
      BY <1>0 DEF Met
    <3>2. ASSUME NEW k \in 1..n PROVE m[k] >= m[k - 1]
      <4>1. m[k] = m[k - 1] + (IF f[k] \in Variable THEN 1 ELSE 0)
        BY <1>0 DEF Met
      <4>2. m[k] \in Nat /\ m[k - 1] \in Nat
        BY <3>1
      <4> QED BY <4>1, <4>2
    <3> QED BY <3>1, <3>2
  <2>2. \A i \in 0..n : m[i] <= m[n]
    BY <2>1, Rises
  <2> QED BY <1>0, <2>1, <2>2
<1> DEFINE Good(k) == r[k] = [ok |-> TRUE, at |-> p[k] + q[m[k]], met |-> m[k]]
           Bad == {k \in 0..n : ~Good(k)}
<1>10. Bad = {}
  <2> SUFFICES ASSUME Bad # {} PROVE FALSE
    OBVIOUS
  <2>0. Bad \in SUBSET Nat
    OBVIOUS
  <2>1. PICK k \in Bad : \A i \in Bad : k <= i
    BY <2>0, LeastOf
  <2>2. k # 0
    <3>1. p[0] = 0 /\ q[0] = 0 /\ m[0] = 0
      BY <1>0, <1>3, <1>4 DEF Adds, Met
    <3>2. r[0] = [ok |-> TRUE, at |-> 0, met |-> 0]
      BY <1>6 DEF AtStart
    <3>3. Good(0)
      <4>1. p[0] + q[m[0]] = 0
        BY <3>1
      <4> QED BY <3>1, <3>2, <4>1, Zenon
    <3> QED BY <2>1, <3>3
  <2>3. k \in 1..n /\ k - 1 \in 0..n /\ k - 1 \notin Bad /\ k \in 0..n
    BY <2>1, <2>2
  <2>4. r[k - 1] = [ok |-> TRUE, at |-> p[k - 1] + q[m[k - 1]], met |-> m[k - 1]]
    BY <2>3
  <2>5. r[k] = Take(body, f[k], r[k - 1])
    BY <1>6, <2>3
  <2>6. f[k] \in Types /\ Width[f[k]] \in 1..8 /\ p[k] = p[k - 1] + Width[f[k]]
    BY <1>0, <1>1, <1>3, <2>3, WidthOfTypes DEF Adds
  <2>7. m[k] = m[k - 1] + (IF f[k] \in Variable THEN 1 ELSE 0)
    BY <1>0, <2>3 DEF Met
  <2>8. p[k - 1] \in Nat /\ p[k] \in Nat /\ p[n] \in Nat /\ p[k] <= p[n]
    BY <1>7, <2>3
  <2>9. m[k - 1] \in 0..l /\ m[k] \in 0..l
    BY <1>2, <1>9, <2>3
  <2> DEFINE here == m[k - 1]
             next == m[k]
  <2> HIDE DEF here, next
  <2>10. here \in 0..l /\ next \in 0..l /\ next = here + (IF f[k] \in Variable THEN 1 ELSE 0)
    BY <2>7, <2>9, Zenon DEF here, next
  <2> DEFINE long == IF f[k] \in Variable THEN lengths[next] ELSE 0
             at   == p[k - 1] + q[here]
  <2>11. q[here] \in Nat /\ q[next] \in Nat /\ q[l] \in Nat /\ q[next] <= q[l]
    BY <1>2, <1>8, <2>10
  <2>12. long \in Nat /\ long <= MaxString /\ q[next] = q[here] + long
    <3>1. CASE f[k] \in Variable
      <4>1. next \in 1..l /\ next - 1 = here
        BY <1>2, <2>10, <3>1
      <4>2. q[next] = q[next - 1] + lengths[next]
        BY <1>4, <4>1 DEF Adds
      <4>3. lengths[next] \in Nat /\ lengths[next] <= MaxString /\ q[next] = q[here] + lengths[next]
        BY <1>2, <4>1, <4>2, Maxima
      <4> QED BY <3>1, <4>3
    <3>2. CASE f[k] \notin Variable
      <4>1. long = 0 /\ q[next] = q[here]
        BY <1>2, <2>10, <3>2
      <4> QED BY <2>11, <4>1, Maxima
    <3> QED BY <3>1, <3>2
  <2>13. /\ f[k] \in Variable => next = here + 1 /\ long = body.lengths[next]
         /\ f[k] \notin Variable => next = here /\ long = 0
    BY <1>2, <1>5, <2>10
  <2>14. Len(body.lengths) \in Nat /\ next <= Len(body.lengths) /\ here \in Nat
    <3>1. Len(body.lengths) = l
      BY <1>5 DEF l
    <3>2. next <= l /\ l \in Nat /\ here \in Nat
      BY <1>2, <2>10
    <3> QED BY <3>1, <3>2
  <2> HIDE DEF long
  <2>15. at \in Nat /\ at + Width[f[k]] + long = p[k] + q[next]
    <3>1. Width[f[k]] \in Nat
      BY <2>6
    <3>2. /\ p[k - 1] + q[here] + Width[f[k]] + long = p[k - 1] + Width[f[k]] + (q[here] + long)
          /\ p[k - 1] + q[here] \in Nat
      <4>1. p[k - 1] \in Nat /\ q[here] \in Nat /\ Width[f[k]] \in Nat /\ long \in Nat
        BY <2>8, <2>11, <2>12, <3>1
      <4> HIDE DEF at
      <4>2. p[k - 1] + q[here] + Width[f[k]] + long = p[k - 1] + Width[f[k]] + (q[here] + long)
        BY <4>1, Regroup
      <4>3. p[k - 1] + q[here] \in Nat
        BY <4>1
      <4> QED BY <4>2, <4>3
    <3>3. p[k - 1] + Width[f[k]] + (q[here] + long) = p[k] + q[next]
      BY <2>6, <2>12, Zenon
    <3> QED BY <3>2, <3>3, Zenon DEF at
  <2>16. p[k] + q[next] <= body.size
    BY <1>5, <2>8, <2>11
  <2> HIDE DEF at
  <2>17. at + Width[f[k]] + long <= body.size
    BY <2>15, <2>16, Zenon
  <2>18. Take(body, f[k], [ok |-> TRUE, at |-> at, met |-> here]) =
           [ok |-> TRUE, at |-> at + Width[f[k]] + long, met |-> next]
    <3>1. /\ Width[f[k]] \in 1..8 /\ at \in Nat /\ long \in Nat /\ long <= MaxString
          /\ Len(body.lengths) \in Nat /\ here \in Nat /\ next <= Len(body.lengths)
          /\ at + Width[f[k]] + long <= body.size
          /\ f[k] \in Variable => next = here + 1 /\ long = body.lengths[next]
          /\ f[k] \notin Variable => next = here /\ long = 0
      BY <2>6, <2>12, <2>13, <2>14, <2>15, <2>17, Zenon
    <3> QED BY <3>1, TakeOne
  <2>19. Take(body, f[k], [ok |-> TRUE, at |-> at, met |-> here]) =
           [ok |-> TRUE, at |-> p[k] + q[next], met |-> next]
    BY <2>15, <2>18, Zenon
  <2>20. Good(k)
    BY <2>4, <2>5, <2>19, Zenon DEF here, next, at
  <2> QED BY <2>1, <2>20
<1>11. n \in 0..n
  OBVIOUS
<1>12. Good(n)
  BY <1>10, <1>11
<1>13. Read(body, f).ok /\ Read(body, f).at = body.size
  BY <1>0, <1>5, <1>6, <1>12
<1> QED BY <1>13 DEF Accepts, f, body

-----------------------------------------------------------------------------
(* The packets of the control stream.                                      *)

\* Kinds without a variable field.
Plain == {"ProtocolVersion", "SessionStart", "SessionStop", "DisplayCapabilities",
          "EncoderCapabilities", "KeyframeRequest", "Ping", "Pong", "Statistics"}

\* Kinds without a variable field have at most 12 fields.
LEMMA PlainFields ==
  ASSUME NEW kind \in Plain
  PROVE  Fields(kind) \in Seq(Types \ Variable) /\ Len(Fields(kind)) \in 0..12
<1> DEFINE U == Types \ Variable
<1>0. "u8" \in U /\ "u16" \in U /\ "u32" \in U /\ "u64" \in U /\ "f32" \in U
  BY DEF Types, Variable
<1> HIDE DEF U
<1>1. CASE kind = "ProtocolVersion"
  <2>1. Fields(kind) = <<"u8", "u8">>
    BY <1>1, Kinds, FieldsOf DEF PairingMessages
  <2> QED BY <1>0, <2>1 DEF U
<1>2. CASE kind = "SessionStart"
  <2>1. Fields(kind) = <<"u32", "u32", "u32">>
    BY <1>2, Kinds, FieldsOf DEF PairingMessages
  <2> QED BY <1>0, <2>1 DEF U
<1>3. CASE kind = "SessionStop"
  <2>1. Fields(kind) = <<"u8">>
    BY <1>3, Kinds, FieldsOf DEF PairingMessages
  <2> QED BY <1>0, <2>1 DEF U
<1>4. CASE kind = "DisplayCapabilities"
  <2>1. Fields(kind) = <<"u32", "u32", "u32", "u32", "u32", "f32", "f32", "f32", "f32", "f32", "u8">>
    BY <1>4, Kinds, FieldsOf DEF DisplayMessages
  <2> QED BY <1>0, <2>1 DEF U
<1>5. CASE kind = "EncoderCapabilities"
  <2>1. Fields(kind) = <<"u32", "u8", "u32", "u32">>
    BY <1>5, Kinds, FieldsOf DEF DisplayMessages
  <2> QED BY <1>0, <2>1 DEF U
<1>6. CASE kind = "KeyframeRequest"
  <2>1. Fields(kind) = <<"u8">>
    BY <1>6, Kinds, FieldsOf DEF VideoMessages
  <2> QED BY <1>0, <2>1 DEF U
<1>7. CASE kind = "Ping"
  <2>1. Fields(kind) = <<"u64">>
    BY <1>7, Kinds, FieldsOf DEF SessionMessages
  <2> QED BY <1>0, <2>1 DEF U
<1>8. CASE kind = "Pong"
  <2>1. Fields(kind) = <<"u64", "u64", "u64">>
    BY <1>8, Kinds, FieldsOf DEF SessionMessages
  <2> QED BY <1>0, <2>1 DEF U
<1>9. CASE kind = "Statistics"
  <2>1. Fields(kind) = <<"f32", "u32", "u32", "u32", "u16", "u32", "u64", "u32", "u32", "u32">>
    BY <1>9, Kinds, FieldsOf DEF SessionMessages
  <2> QED BY <1>0, <2>1 DEF U
<1> QED BY <1>1, <1>2, <1>3, <1>4, <1>5, <1>6, <1>7, <1>8, <1>9 DEF Plain

\* The kinds with variable fields that the control stream carries.
LEMMA VariableFields ==
  /\ Fields("Handshake") = <<"u8", "u8", "u8", "bytes", "string", "u8">>
  /\ Fields("HostInfo") = <<"bytes", "string">>
  /\ Fields("Pairing") = <<"u8", "bytes", "bytes", "bytes">>
  /\ Fields("VideoConfig") = <<"u32", "u8", "u32", "u32", "u32", "u8", "u8", "bytes">>
<1>1. /\ Fields("Handshake") = PairingMessages["Handshake"]
      /\ Fields("HostInfo") = PairingMessages["HostInfo"]
      /\ Fields("Pairing") = PairingMessages["Pairing"]
      /\ Fields("VideoConfig") = DisplayMessages["VideoConfig"]
  BY Kinds, FieldsOf
<1> QED BY <1>1 DEF PairingMessages, DisplayMessages

\* How long a packet may be here: at least a header, and far below MaxControl.
PacketSizes == {n \in Nat : n >= 36 /\ n <= 1000}

\* The fields of the kind are known, at most 12, and these are the lengths of the variable
\* ones.
Written(kind, lengths) ==
  /\ lengths \in Seq(0..32) /\ Len(lengths) \in 0..3
  /\ \E n \in 0..12 : \E m : /\ Fields(kind) \in [1..n -> Types] /\ Met(m, Fields(kind), n)
                            /\ m[n] = Len(lengths)

\* A packet that the other side takes, and how long it may be.
LEMMA SoundPacket ==
  ASSUME NEW kind, NEW lengths, Written(kind, lengths)
  PROVE  Accepts(kind, Write(kind, lengths)) /\ PacketSize(kind, lengths) \in PacketSizes
<1>0. lengths \in Seq(0..32) /\ Len(lengths) \in 0..3
  BY DEF Written
<1>1. PICK n \in 0..12 : \E m : /\ Fields(kind) \in [1..n -> Types] /\ Met(m, Fields(kind), n)
                               /\ m[n] = Len(lengths)
  BY DEF Written
<1>2. PICK m : /\ Fields(kind) \in [1..n -> Types] /\ Met(m, Fields(kind), n)
               /\ m[n] = Len(lengths)
  BY <1>1
<1>3. Accepts(kind, Write(kind, lengths))
  <2>1. n \in Nat
    OBVIOUS
  <2>2. lengths \in Seq(0..MaxString)
    <3>1. 0..32 \subseteq 0..MaxString
      BY Maxima
    <3> QED BY <1>0, <3>1, SeqMonotonic
  <2> QED BY <1>2, <2>1, <2>2, WrittenIsRead
<1>4. SumOf(Widths(kind)) \in 0..(n * 8)
  <2>1. Widths(kind) \in [1..n -> 0..8] /\ n \in Nat /\ 8 \in Nat
    BY <1>2, WidthOfTypes DEF Widths
  <2> QED BY <2>1, SumBounds
<1>5. SumOf(lengths) \in 0..(Len(lengths) * 32)
  <2>1. lengths \in [1..Len(lengths) -> 0..32] /\ Len(lengths) \in Nat
    BY <1>0, LenProperties, Zenon
  <2>2. 32 \in Nat
    OBVIOUS
  <2> QED BY <2>1, <2>2, SumBounds
<1> DEFINE a == SumOf(Widths(kind))
           b == SumOf(lengths)
           l == Len(lengths)
<1>6. PacketSize(kind, lengths) = 36 + (a + b)
  BY HeaderIs DEF PacketSize, Write
<1>7. a \in 0..(n * 8) /\ b \in 0..(l * 32) /\ l \in 0..3
  BY <1>0, <1>4, <1>5
<1> HIDE DEF a, b, l
<1>8. a \in Nat /\ a <= 96 /\ b \in Nat /\ b <= 96
  BY <1>7
<1> QED BY <1>3, <1>6, <1>8 DEF PacketSizes

\* A packet without variable fields is taken.
LEMMA PlainPacket ==
  ASSUME NEW kind \in Plain
  PROVE  Accepts(kind, Write(kind, <<>>)) /\ PacketSize(kind, <<>>) \in PacketSizes
<1> DEFINE n == Len(Fields(kind))
           m == [k \in 0..n |-> 0]
<1>1. n \in 0..12 /\ Fields(kind) \in [1..n -> Types]
  BY PlainFields
<1>2. Met(m, Fields(kind), n)
  BY PlainFields DEF Met
<1>3. m[n] = Len(<<>>) /\ <<>> \in Seq(0..32) /\ Len(<<>>) \in 0..3
  BY <1>1
<1> HIDE DEF m, n
<1>4. Written(kind, <<>>)
  BY <1>1, <1>2, <1>3 DEF Written
<1> QED BY <1>4, SoundPacket

\* A Pairing packet is taken, whichever of its fields are empty.
LEMMA PairingPacket ==
  ASSUME NEW a \in {0, 32}, NEW b \in {0, 32}, NEW c \in {0, 32}
  PROVE  /\ Accepts("Pairing", Write("Pairing", <<a, b, c>>))
         /\ PacketSize("Pairing", <<a, b, c>>) \in PacketSizes
<1> DEFINE f == Fields("Pairing")
           m == [k \in 0..4 |-> IF k = 0 THEN 0 ELSE k - 1]
           s == <<a, b, c>>
<1>1. f = <<"u8", "bytes", "bytes", "bytes">>
  BY VariableFields
<1>2. f \in [1..4 -> Types] /\ f[1] \notin Variable /\ \A k \in 2..4 : f[k] \in Variable
  BY <1>1 DEF Types, Variable
<1> HIDE DEF f
<1>3. Met(m, f, 4)
  BY <1>2 DEF Met
<1>4. m[4] = Len(s) /\ s \in Seq(0..32) /\ Len(s) \in 0..3
  OBVIOUS
<1> HIDE DEF m, s
<1>5. Written("Pairing", s)
  <2>1. 4 \in 0..12
    OBVIOUS
  <2> QED BY <1>2, <1>3, <1>4, <2>1 DEF Written, f
<1> QED BY <1>5, SoundPacket DEF s

\* The packets with which both sides introduce themselves are taken.
LEMMA IdentityPackets ==
  /\ Accepts("Handshake", Write("Handshake", <<16, 4>>))
  /\ PacketSize("Handshake", <<16, 4>>) \in PacketSizes
  /\ Accepts("HostInfo", Write("HostInfo", <<16, 4>>))
  /\ PacketSize("HostInfo", <<16, 4>>) \in PacketSizes
<1> DEFINE s == <<16, 4>>
<1>1. Len(s) = 2 /\ s \in Seq(0..32) /\ Len(s) \in 0..3
  OBVIOUS
<1> HIDE DEF s
<1>2. Accepts("Handshake", Write("Handshake", s)) /\ PacketSize("Handshake", s) \in PacketSizes
  <2> DEFINE f == Fields("Handshake")
             m == [k \in 0..6 |-> IF k <= 3 THEN 0 ELSE IF k = 4 THEN 1 ELSE 2]
  <2>1. f = <<"u8", "u8", "u8", "bytes", "string", "u8">>
    BY VariableFields
  <2>2. /\ f \in [1..6 -> Types] /\ \A k \in {1, 2, 3, 6} : f[k] \notin Variable
        /\ f[4] \in Variable /\ f[5] \in Variable
    BY <2>1 DEF Types, Variable
  <2> HIDE DEF f
  <2>3. Met(m, f, 6)
    BY <2>2 DEF Met
  <2>4. m[6] = 2 /\ 6 \in 0..12
    OBVIOUS
  <2> HIDE DEF m
  <2>5. Written("Handshake", s)
    BY <1>1, <2>2, <2>3, <2>4 DEF Written, f
  <2> QED BY <2>5, SoundPacket
<1>3. Accepts("HostInfo", Write("HostInfo", s)) /\ PacketSize("HostInfo", s) \in PacketSizes
  <2> DEFINE f == Fields("HostInfo")
             m == [k \in 0..2 |-> k]
  <2>1. f = <<"bytes", "string">>
    BY VariableFields
  <2>2. f \in [1..2 -> Types] /\ \A k \in 1..2 : f[k] \in Variable
    BY <2>1 DEF Types, Variable
  <2> HIDE DEF f
  <2>3. Met(m, f, 2)
    BY <2>2 DEF Met
  <2>4. m[2] = 2 /\ 2 \in 0..12
    OBVIOUS
  <2> HIDE DEF m
  <2>5. Written("HostInfo", s)
    BY <1>1, <2>2, <2>3, <2>4 DEF Written, f
  <2> QED BY <2>5, SoundPacket
<1> QED BY <1>2, <1>3 DEF s

\* VideoConfig is taken, with the empty list the host sends.
LEMMA ConfigPacket ==
  /\ Accepts("VideoConfig", Write("VideoConfig", <<0>>))
  /\ PacketSize("VideoConfig", <<0>>) \in PacketSizes
<1> DEFINE f == Fields("VideoConfig")
           m == [k \in 0..8 |-> IF k = 8 THEN 1 ELSE 0]
           s == <<0>>
<1>1. f = <<"u32", "u8", "u32", "u32", "u32", "u8", "u8", "bytes">>
  BY VariableFields
<1>2. f \in [1..8 -> Types] /\ f[8] \in Variable /\ \A k \in 1..7 : f[k] \notin Variable
  BY <1>1 DEF Types, Variable
<1> HIDE DEF f
<1>3. Met(m, f, 8)
  BY <1>2 DEF Met
<1>4. m[8] = Len(s) /\ s \in Seq(0..32) /\ Len(s) \in 0..3 /\ 8 \in 0..12
  OBVIOUS
<1> HIDE DEF m, s
<1>5. Written("VideoConfig", s)
  BY <1>2, <1>3, <1>4 DEF Written, f
<1> QED BY <1>5, SoundPacket DEF s

\* The sum of the first k numbers is the k-th partial sum.
LEMMA PrefixSum ==
  ASSUME NEW n \in Nat, NEW s \in [1..n -> Nat], NEW p, Adds(p, s, n), NEW k \in 0..n
  PROVE  SumOf([j \in 1..k |-> s[j]]) = p[k]
<1> DEFINE r == [j \in 1..k |-> s[j]]
<1>1. r \in [1..k -> Nat] /\ k \in Nat
  OBVIOUS
<1>2. PICK q : Adds(q, r, k) /\ SumOf(r) = q[k]
  BY <1>1, PartialSums DEF Adds
<1> DEFINE Bad == {i \in 0..k : q[i] # p[i]}
<1>3. Bad = {}
  <2> SUFFICES ASSUME Bad # {} PROVE FALSE
    OBVIOUS
  <2>0. Bad \in SUBSET Nat
    OBVIOUS
  <2>1. PICK i \in Bad : \A j \in Bad : i <= j
    BY <2>0, LeastOf
  <2>2. q[0] = 0 /\ p[0] = 0
    BY <1>2 DEF Adds
  <2>3. i # 0
    BY <2>1, <2>2
  <2>4. i \in 1..k /\ i \in 1..n /\ i - 1 \in 0..k /\ i - 1 \notin Bad
    BY <2>1, <2>3
  <2>5. q[i] = q[i - 1] + r[i] /\ p[i] = p[i - 1] + s[i] /\ r[i] = s[i]
    BY <1>2, <2>4 DEF Adds
  <2>6. q[i - 1] = p[i - 1]
    BY <2>4
  <2>7. q[i] = p[i]
    BY <2>5, <2>6, Zenon
  <2> QED BY <2>1, <2>7
<1>4. k \in 0..k
  OBVIOUS
<1>5. q[k] = p[k]
  BY <1>3, <1>4
<1> QED BY <1>2, <1>5

-----------------------------------------------------------------------------
(* Packets in a row.                                                       *)

IsSequence(s) == s \in Seq({s[i] : i \in 1..Len(s)})

\* A sequence of anything is a sequence of its own elements.
LEMMA SequenceIs ==
  ASSUME NEW S, NEW s \in Seq(S)
  PROVE  IsSequence(s)
<1>1. Len(s) \in Nat /\ s \in [1..Len(s) -> S]
  BY LenProperties
<1> DEFINE R == {s[i] : i \in 1..Len(s)}
<1>2. s \in [1..Len(s) -> R]
  BY <1>1
<1>3. s \in Seq(R)
  BY <1>1, <1>2
<1> QED BY <1>3 DEF IsSequence

\* Its length and domain.
LEMMA SequenceHas ==
  ASSUME NEW s, IsSequence(s)
  PROVE  Len(s) \in Nat /\ DOMAIN s = 1..Len(s)
  BY LenProperties DEF IsSequence

\* Two sequences after one another.
LEMMA Joined ==
  ASSUME NEW s, NEW t, IsSequence(s), IsSequence(t)
  PROVE  /\ IsSequence(s \o t) /\ Len(s \o t) = Len(s) + Len(t)
         /\ \A i \in 1..Len(s) : (s \o t)[i] = s[i]
         /\ \A i \in 1..Len(t) : (s \o t)[Len(s) + i] = t[i]
<1> DEFINE R == {s[i] : i \in 1..Len(s)} \cup {t[i] : i \in 1..Len(t)}
<1>1. s \in Seq(R) /\ t \in Seq(R)
  BY SeqMonotonic DEF IsSequence
<1> HIDE DEF R
<1>2. /\ s \o t \in Seq(R) /\ Len(s \o t) = Len(s) + Len(t)
      /\ \A i \in 1..Len(s) + Len(t) : (s \o t)[i] = IF i <= Len(s) THEN s[i] ELSE t[i - Len(s)]
  BY <1>1, ConcatProperties
<1>3. Len(s) \in Nat /\ Len(t) \in Nat
  BY SequenceHas
<1>4. IsSequence(s \o t)
  BY <1>2, SequenceIs
<1>5. \A i \in 1..Len(s) : (s \o t)[i] = s[i]
  BY <1>2, <1>3
<1>6. ASSUME NEW i \in 1..Len(t) PROVE (s \o t)[Len(s) + i] = t[i]
  <2>1. Len(s) + i \in 1..Len(s) + Len(t) /\ ~(Len(s) + i <= Len(s)) /\ Len(s) + i - Len(s) = i
    BY <1>3
  <2> QED BY <1>2, <2>1
<1> QED BY <1>2, <1>4, <1>5, <1>6

\* Packets with lengths that packets can have.
Sized(packets) == /\ IsSequence(packets)
                  /\ \A i \in 1..Len(packets) : packets[i].size \in PacketSizes

\* Where packets begin: one after the other, no two at the same byte.
LEMMA Offsets ==
  ASSUME NEW packets, Sized(packets)
  PROVE  /\ \A i \in 1..Len(packets) + 1 : Begin(packets, i) \in Nat
         /\ Begin(packets, 1) = 0
         /\ \A i \in 1..Len(packets) : Begin(packets, i + 1) = Begin(packets, i) + packets[i].size
         /\ \A i, j \in 1..Len(packets) + 1 :
              i < j => Begin(packets, j) >= Begin(packets, i) + 36
<1> DEFINE n == Len(packets)
           s == [j \in 1..n |-> packets[j].size]
<1>0. n \in Nat /\ \A i \in 1..n : packets[i].size \in PacketSizes
  BY SequenceHas DEF Sized
<1> HIDE DEF n
<1>1. n \in Nat /\ \A i \in 1..n : s[i] \in PacketSizes /\ s[i] = packets[i].size
  BY <1>0
<1>2. s \in [1..n -> Nat]
  <2>1. \A i \in 1..n : packets[i].size \in Nat
    BY <1>0 DEF PacketSizes
  <2> QED BY <2>1
<1> HIDE DEF s
<1>3. PICK p : Adds(p, s, n)
  <2>1. PICK p \in [0..n -> Nat] : p[0] = 0 /\ \A k \in 1..n : p[k] = p[k - 1] + s[k]
    BY <1>0, <1>2, PartialSums
  <2> QED BY <2>1 DEF Adds
<1>4. \A i \in 1..n + 1 : Begin(packets, i) = p[i - 1]
  <2> SUFFICES ASSUME NEW i \in 1..n + 1 PROVE Begin(packets, i) = p[i - 1]
    OBVIOUS
  <2>1. i - 1 \in 0..n /\ i \in Nat
    BY <1>1
  <2>2. SumOf([j \in 1..(i - 1) |-> s[j]]) = p[i - 1]
    <3> DEFINE k == i - 1
    <3>1. k \in 0..n
      BY <2>1
    <3> HIDE DEF k
    <3>2. SumOf([j \in 1..k |-> s[j]]) = p[k]
      BY <1>0, <1>2, <1>3, <3>1, PrefixSum, Zenon
    <3> QED BY <3>2 DEF k
  <2>3. [j \in 1..(i - 1) |-> s[j]] = [j \in 1..(i - 1) |-> packets[j].size]
    BY <1>1, <2>1 DEF s
  <2> QED BY <2>2, <2>3 DEF Begin
<1>5. p \in [0..n -> Nat] /\ p[0] = 0 /\ \A k \in 1..n : p[k] = p[k - 1] + s[k]
  BY <1>3 DEF Adds
<1>6. \A i \in 1..n + 1 : Begin(packets, i) \in Nat
  <2> SUFFICES ASSUME NEW i \in 1..n + 1 PROVE Begin(packets, i) \in Nat
    OBVIOUS
  <2>1. i - 1 \in 0..n
    BY <1>1
  <2> QED BY <1>4, <1>5, <2>1
<1>7. Begin(packets, 1) = 0
  BY <1>1, <1>4, <1>5
<1>8. \A i \in 1..n : Begin(packets, i + 1) = Begin(packets, i) + packets[i].size
  <2> SUFFICES ASSUME NEW i \in 1..n
               PROVE  Begin(packets, i + 1) = Begin(packets, i) + packets[i].size
    OBVIOUS
  <2>1. i \in 1..n + 1 /\ i + 1 \in 1..n + 1 /\ i + 1 - 1 = i
    BY <1>1
  <2>2. Begin(packets, i + 1) = p[i] /\ Begin(packets, i) = p[i - 1]
    BY <1>4, <2>1
  <2>3. p[i] = p[i - 1] + packets[i].size
    BY <1>1, <1>5
  <2> QED BY <2>2, <2>3, Zenon
<1>9. \A k \in 1..n : p[k] >= p[k - 1] + 36
  <2> SUFFICES ASSUME NEW k \in 1..n PROVE p[k] >= p[k - 1] + 36
    OBVIOUS
  <2>1. p[k] = p[k - 1] + s[k] /\ s[k] \in PacketSizes /\ p[k - 1] \in Nat
    BY <1>1, <1>5
  <2> QED BY <2>1 DEF PacketSizes
<1>10. \A i, j \in 0..n : i < j => p[j] >= p[i] + 36
  <2>1. 36 \in Nat
    OBVIOUS
  <2> QED BY <1>1, <1>5, <1>9, <2>1, Rising
<1>11. ASSUME NEW i \in 1..n + 1, NEW j \in 1..n + 1, i < j
       PROVE  Begin(packets, j) >= Begin(packets, i) + 36
  <2>1. i - 1 \in 0..n /\ j - 1 \in 0..n /\ i - 1 < j - 1
    BY <1>1, <1>11
  <2>2. Begin(packets, j) = p[j - 1] /\ Begin(packets, i) = p[i - 1]
    BY <1>4
  <2> QED BY <1>10, <2>1, <2>2
<1> QED BY <1>6, <1>7, <1>8, <1>11 DEF n

\* A packet is found where it begins.
LEMMA Found ==
  ASSUME NEW packets, Sized(packets), NEW i \in 1..Len(packets)
  PROVE  /\ PacketAt(packets, Begin(packets, i)) = {i}
         /\ (CHOOSE j \in PacketAt(packets, Begin(packets, i)) : TRUE) = i
<1>1. Len(packets) \in Nat /\ DOMAIN packets = 1..Len(packets)
  BY SequenceHas DEF Sized
<1>2. ASSUME NEW j \in 1..Len(packets), Begin(packets, j) = Begin(packets, i)
      PROVE  j = i
  <2>1. /\ Begin(packets, i) \in Nat
        /\ i < j => Begin(packets, j) >= Begin(packets, i) + 36
        /\ j < i => Begin(packets, i) >= Begin(packets, j) + 36
    <3>1. i \in 1..Len(packets) + 1 /\ j \in 1..Len(packets) + 1
      BY <1>1
    <3> QED BY <3>1, Offsets
  <2>2. i \in Nat /\ j \in Nat
    BY <1>1
  <2> QED BY <1>2, <2>1, <2>2
<1>3. PacketAt(packets, Begin(packets, i)) = {i}
  BY <1>1, <1>2 DEF PacketAt
<1> QED BY <1>3

\* Nothing before the end moves when packets are added.
LEMMA Added ==
  ASSUME NEW s, NEW t, Sized(s), Sized(t)
  PROVE  /\ Sized(s \o t)
         /\ \A i \in 1..Len(s) + 1 : Begin(s \o t, i) = Begin(s, i)
         /\ Bytes(s) \in Nat /\ Bytes(s \o t) \in Nat /\ Bytes(s) <= Bytes(s \o t)
<1>1. /\ IsSequence(s \o t) /\ Len(s \o t) = Len(s) + Len(t)
      /\ \A i \in 1..Len(s) : (s \o t)[i] = s[i]
      /\ \A i \in 1..Len(t) : (s \o t)[Len(s) + i] = t[i]
  BY Joined DEF Sized
<1>2. Len(s) \in Nat /\ Len(t) \in Nat
  BY SequenceHas DEF Sized
<1>3. ASSUME NEW i \in 1..Len(s \o t) PROVE (s \o t)[i].size \in PacketSizes
  <2>1. CASE i <= Len(s)
    <3>1. i \in 1..Len(s)
      BY <1>1, <1>2, <2>1
    <3> QED BY <1>1, <3>1 DEF Sized
  <2>2. CASE ~(i <= Len(s))
    <3>1. i - Len(s) \in 1..Len(t) /\ Len(s) + (i - Len(s)) = i
      BY <1>1, <1>2, <2>2
    <3>2. (s \o t)[i] = t[i - Len(s)]
      BY <1>1, <3>1
    <3> QED BY <3>1, <3>2 DEF Sized
  <2> QED BY <2>1, <2>2
<1>4. Sized(s \o t)
  BY <1>1, <1>3 DEF Sized
<1>5. ASSUME NEW i \in 1..Len(s) + 1 PROVE Begin(s \o t, i) = Begin(s, i)
  <2>1. \A j \in 1..(i - 1) : (s \o t)[j] = s[j]
    BY <1>1, <1>2
  <2>2. [j \in 1..(i - 1) |-> (s \o t)[j].size] = [j \in 1..(i - 1) |-> s[j].size]
    BY <2>1
  <2> QED BY <2>2 DEF Begin
<1>6. Bytes(s) \in Nat /\ Bytes(s \o t) \in Nat /\ Bytes(s) <= Bytes(s \o t)
  <2>1. Len(s) + 1 \in 1..Len(s) + 1
    BY <1>2
  <2>2. Len(s) + 1 \in 1..Len(s \o t) + 1 /\ Len(s \o t) + 1 \in 1..Len(s \o t) + 1
    BY <1>1, <1>2
  <2>3. Bytes(s) = Begin(s \o t, Len(s) + 1) /\ Bytes(s) \in Nat
    BY <1>5, <2>1, Offsets DEF Bytes
  <2>4. Bytes(s \o t) \in Nat
    BY <1>4, <2>2, Offsets DEF Bytes
  <2>5. Len(s) + 1 < Len(s \o t) + 1 => Bytes(s \o t) >= Begin(s \o t, Len(s) + 1) + 36
    BY <1>4, <2>2, Offsets DEF Bytes
  <2>6. Len(s) + 1 < Len(s \o t) + 1 \/ Len(s) = Len(s \o t)
    BY <1>1, <1>2
  <2>7. CASE Len(s) = Len(s \o t)
    BY <2>3, <2>4, <2>7 DEF Bytes
  <2>8. CASE Len(s) + 1 < Len(s \o t) + 1
    BY <2>3, <2>4, <2>5, <2>8
  <2> QED BY <2>3, <2>4, <2>6, <2>7, <2>8
<1> QED BY <1>4, <1>5, <1>6

\* A piece ends within what was written.
LEMMA PiecesEnd ==
  ASSUME NEW packets, Sized(packets), NEW n \in PieceEnds(packets)
  PROVE  n \in Nat /\ n <= Bytes(packets)
<1>1. Len(packets) \in Nat /\ DOMAIN packets = 1..Len(packets)
  BY SequenceHas DEF Sized
<1>2. PICK i \in 1..Len(packets) :
        n \in {Begin(packets, i) + 1, Begin(packets, i) + 36, Begin(packets, i + 1)}
  BY <1>1, HeaderIs DEF PieceEnds
<1>3. i \in 1..Len(packets) + 1 /\ i + 1 \in 1..Len(packets) + 1
      /\ Len(packets) + 1 \in 1..Len(packets) + 1
  BY <1>1
<1>4. /\ Begin(packets, i) \in Nat /\ Begin(packets, i + 1) \in Nat /\ Bytes(packets) \in Nat
      /\ Begin(packets, i + 1) >= Begin(packets, i) + 36
      /\ i + 1 < Len(packets) + 1 => Bytes(packets) >= Begin(packets, i + 1) + 36
  <2>1. i < i + 1
    BY <1>1
  <2> QED BY <1>3, <2>1, Offsets DEF Bytes
<1>5. i + 1 = Len(packets) + 1 \/ i + 1 < Len(packets) + 1
  BY <1>1
<1>6. Bytes(packets) >= Begin(packets, i + 1)
  <2>1. CASE i + 1 = Len(packets) + 1
    BY <1>4, <2>1 DEF Bytes
  <2>2. CASE i + 1 < Len(packets) + 1
    BY <1>4, <2>2
  <2> QED BY <1>5, <2>1, <2>2
<1> QED BY <1>2, <1>4, <1>6

-----------------------------------------------------------------------------
(* What holds of the control stream.                                       *)

\* The numbers the host gives its packets: session() leaves a gap after the sixth.
Number(i) == IF i <= 6 THEN i ELSE i + 4

\* What the i-th packet of the iPad is, ...
FromClient(i, p) ==
  /\ p.sequence = i /\ p.session = (IF i <= 3 THEN 0 ELSE 1)
  /\ p.size \in PacketSizes /\ Accepts(p.kind, p.body)
  /\ i = 1 => p.kind = "Handshake"
  /\ i = 2 => p.kind = "Pairing"
  /\ i = 3 => p.kind = "DisplayCapabilities"
  /\ i >= 4 => p.kind \in SessionKinds

\* ... and of the host.
FromHost(i, p) ==
  /\ p.sequence = Number(i) /\ p.session = (IF i <= 4 THEN 0 ELSE 1)
  /\ p.size \in PacketSizes /\ Accepts(p.kind, p.body)
  /\ i = 1 => p.kind = "ProtocolVersion"
  /\ i = 2 => p.kind = "HostInfo"
  /\ i = 3 => p.kind = "Pairing" /\ p.body.lengths[2] = 0
  /\ i = 4 => p.kind = "Pairing" /\ p.body.lengths[2] # 0
  /\ i = 5 => p.kind = "SessionStart"
  /\ i = 6 => p.kind = "EncoderCapabilities"
  /\ i >= 7 => p.kind \in {"VideoConfig", "Pong"}

\* What was written so far, and how far the handshake is for it.
ClientWrote ==
  /\ Sized(toHost) /\ \A i \in 1..Len(toHost) : FromClient(i, toHost[i])
  /\ clientSequence = Len(toHost)

HostWrote ==
  /\ Sized(toClient) /\ \A i \in 1..Len(toClient) : FromHost(i, toClient[i])
  /\ stage = "hello" => Len(toClient) = 0 /\ hostSequence = 0
  /\ stage = "proof" => Len(toClient) = 3 /\ hostSequence = 3
  /\ stage = "capabilities" => Len(toClient) = 4 /\ hostSequence = 4
  /\ stage \in {"session", "stopped"} => Len(toClient) >= 6 /\ hostSequence = Len(toClient) + 4

Arrived ==
  /\ atHost \in Nat /\ atHost <= Bytes(toHost)
  /\ atClient \in Nat /\ atClient <= Bytes(toClient)

\* The reader is at packet h, ...
ReaderAt(h) ==
  /\ h \in 1..Len(toHost) + 1 /\ start = Begin(toHost, h)
  /\ got \in Nat /\ start + got <= atHost
  /\ h <= Len(toHost) => got <= toHost[h].size

\* ... and those before it are handled, or wait in the queue.
Handled(h) ==
  /\ IsSequence(queue) /\ Len(queue) <= QueueCap /\ hostGuard \in Nat
  /\ stage = "hello" => h = 1 /\ hostGuard = 0 /\ queue = <<>>
  /\ stage = "proof" => h = 2 /\ hostGuard = 1 /\ queue = <<>>
  /\ stage = "capabilities" => h = 3 /\ hostGuard = 2 /\ queue = <<>>
  /\ stage \in {"session", "stopped"} =>
       /\ Len(queue) <= h - 4 /\ hostGuard <= h - 1 - Len(queue)
       /\ \A k \in 1..Len(queue) : queue[k] = toHost[h - 1 - Len(queue) + k]

HostAt(h) == ReaderAt(h) /\ Handled(h)

\* The parser is at packet c: the iPad has handled those before it, and has answered.
ClientAt(c) ==
  /\ c \in 1..Len(toClient) + 1 /\ parsed = Begin(toClient, c) /\ parsed <= atClient
  /\ lastSequence = Number(c - 1)
  /\ clientToken = (IF c <= 5 THEN 0 ELSE 1)
  /\ configured \in BOOLEAN /\ (configured <=> c >= 5)
  /\ streaming \in BOOLEAN /\ (streaming => c >= 8)
  /\ c <= 3 => Len(toHost) = 1
  /\ c = 4 => Len(toHost) = 2
  /\ c \in 5..7 => Len(toHost) = 3
  /\ c >= 8 => Len(toHost) >= 3

Counted ==
  /\ refused = {}
  /\ stage \in {"hello", "proof", "capabilities", "session", "stopped"}
  /\ token = (IF stage \in {"session", "stopped"} THEN 1 ELSE 0)
  /\ configs \in 0..MaxConfigs /\ ticks \in 0..MaxTicks

ControlIInv ==
  /\ Counted /\ ClientWrote /\ HostWrote /\ Arrived
  /\ \E h \in Nat : HostAt(h)
  /\ \E c \in Nat : ClientAt(c)

\* The iPad writes a packet: it is the next in number, and the reader stays where it is.
LEMMA ClientAppends ==
  ASSUME ClientWrote, Arrived, NEW t, Sized(t),
         \A i \in 1..Len(t) : FromClient(Len(toHost) + i, t[i]),
         toHost' = toHost \o t, clientSequence' = clientSequence + Len(t),
         UNCHANGED <<toClient, atHost, atClient, start, got, queue, stage, hostGuard>>
  PROVE  /\ ClientWrote' /\ Arrived' /\ Len(toHost') = Len(toHost) + Len(t)
         /\ \A h \in Nat : HostAt(h) => HostAt(h)'
<1>1. /\ IsSequence(toHost \o t) /\ Len(toHost \o t) = Len(toHost) + Len(t)
      /\ \A i \in 1..Len(toHost) : (toHost \o t)[i] = toHost[i]
      /\ \A i \in 1..Len(t) : (toHost \o t)[Len(toHost) + i] = t[i]
  BY Joined DEF Sized, ClientWrote
<1>2. Len(toHost) \in Nat /\ Len(t) \in Nat
  BY SequenceHas DEF Sized, ClientWrote
<1>3. /\ Sized(toHost \o t)
      /\ \A i \in 1..Len(toHost) + 1 : Begin(toHost \o t, i) = Begin(toHost, i)
      /\ Bytes(toHost) \in Nat /\ Bytes(toHost \o t) \in Nat /\ Bytes(toHost) <= Bytes(toHost \o t)
  BY Added DEF ClientWrote
<1>4. ASSUME NEW i \in 1..Len(toHost \o t) PROVE FromClient(i, (toHost \o t)[i])
  <2>1. CASE i <= Len(toHost)
    <3>1. i \in 1..Len(toHost)
      BY <1>1, <1>2, <2>1
    <3> QED BY <1>1, <3>1 DEF ClientWrote
  <2>2. CASE ~(i <= Len(toHost))
    <3>1. i - Len(toHost) \in 1..Len(t) /\ Len(toHost) + (i - Len(toHost)) = i
      BY <1>1, <1>2, <2>2
    <3> DEFINE k == i - Len(toHost)
    <3> HIDE DEF k
    <3>2. k \in 1..Len(t) /\ Len(toHost) + k = i
      BY <3>1 DEF k
    <3>3. (toHost \o t)[Len(toHost) + k] = t[k] /\ FromClient(Len(toHost) + k, t[k])
      BY <1>1, <3>2
    <3> QED BY <3>2, <3>3
  <2> QED BY <2>1, <2>2
<1>5. ClientWrote'
  <2>1. clientSequence' = Len(toHost \o t)
    BY <1>1 DEF ClientWrote
  <2> QED BY <1>3, <1>4, <2>1 DEF ClientWrote
<1>6. Arrived'
  <2>1. Bytes(toClient)' = Bytes(toClient) /\ Bytes(toHost)' = Bytes(toHost \o t)
    BY DEF Bytes, Begin
  <2>2. atHost <= Bytes(toHost \o t)
    BY <1>3 DEF Arrived
  <2> QED BY <2>1, <2>2 DEF Arrived
<1>7. ASSUME NEW h \in Nat, HostAt(h) PROVE HostAt(h)'
  <2>1. h \in 1..Len(toHost) + 1 /\ h \in 1..Len(toHost \o t) + 1
    BY <1>1, <1>2, <1>7 DEF HostAt, ReaderAt, Handled
  <2>2. start = Begin(toHost \o t, h)
    BY <1>3, <1>7, <2>1 DEF HostAt, ReaderAt, Handled
  <2>3. ASSUME h <= Len(toHost \o t) PROVE got <= (toHost \o t)[h].size
    <3>1. CASE h <= Len(toHost)
      <4>1. h \in 1..Len(toHost)
        BY <2>1, <3>1
      <4> QED BY <1>1, <1>7, <4>1 DEF HostAt, ReaderAt, Handled
    <3>2. CASE h = Len(toHost) + 1
      <4>1. start = Bytes(toHost) /\ start + got <= atHost /\ atHost <= Bytes(toHost) /\ got \in Nat
        BY <1>7, <3>2 DEF HostAt, ReaderAt, Handled, Bytes, Arrived
      <4>2. got = 0
        BY <1>3, <4>1 DEF Arrived
      <4>3. (toHost \o t)[h].size \in PacketSizes
        <5>1. h \in 1..Len(toHost \o t)
          BY <2>1, <2>3
        <5> QED BY <1>3, <5>1 DEF Sized
      <4>4. \A n \in PacketSizes : 0 <= n
        BY DEF PacketSizes
      <4> QED BY <4>2, <4>3, <4>4
    <3>3. h <= Len(toHost) \/ h = Len(toHost) + 1
      BY <1>2, <2>1
    <3> QED BY <3>1, <3>2, <3>3
  <2>4. stage \in {"session", "stopped"} =>
          \A k \in 1..Len(queue) : queue[k] = (toHost \o t)[h - 1 - Len(queue) + k]
    <3> SUFFICES ASSUME stage \in {"session", "stopped"}, NEW k \in 1..Len(queue)
                 PROVE  queue[k] = (toHost \o t)[h - 1 - Len(queue) + k]
      OBVIOUS
    <3>1. /\ queue[k] = toHost[h - 1 - Len(queue) + k] /\ Len(queue) <= h - 4
          /\ Len(queue) \in Nat
      BY <1>7, SequenceHas DEF HostAt, ReaderAt, Handled
    <3>2. h - 1 - Len(queue) + k \in 1..Len(toHost)
      BY <1>2, <2>1, <3>1
    <3> QED BY <1>1, <3>1, <3>2
  <2> QED BY <1>7, <2>1, <2>2, <2>3, <2>4 DEF HostAt, ReaderAt, Handled
<1> QED BY <1>1, <1>5, <1>6, <1>7

\* The host writes packets: the iPad's place among those before does not change.
LEMMA HostAppends ==
  ASSUME HostWrote, Arrived, NEW t, Sized(t),
         \A i \in 1..Len(t) : FromHost(Len(toClient) + i, t[i]),
         toClient' = toClient \o t,
         UNCHANGED <<toHost, atHost, atClient, clientVars>>
  PROVE  /\ Sized(toClient)' /\ (\A i \in 1..Len(toClient) : FromHost(i, toClient[i]))'
         /\ Arrived' /\ Len(toClient') = Len(toClient) + Len(t)
         /\ \A c \in Nat : ClientAt(c) => ClientAt(c)'
<1>1. /\ IsSequence(toClient \o t) /\ Len(toClient \o t) = Len(toClient) + Len(t)
      /\ \A i \in 1..Len(toClient) : (toClient \o t)[i] = toClient[i]
      /\ \A i \in 1..Len(t) : (toClient \o t)[Len(toClient) + i] = t[i]
  BY Joined DEF Sized, HostWrote
<1>2. Len(toClient) \in Nat /\ Len(t) \in Nat
  BY SequenceHas DEF Sized, HostWrote
<1>3. /\ Sized(toClient \o t)
      /\ \A i \in 1..Len(toClient) + 1 : Begin(toClient \o t, i) = Begin(toClient, i)
      /\ Bytes(toClient) \in Nat /\ Bytes(toClient \o t) \in Nat
      /\ Bytes(toClient) <= Bytes(toClient \o t)
  BY Added DEF HostWrote
<1>4. ASSUME NEW i \in 1..Len(toClient \o t) PROVE FromHost(i, (toClient \o t)[i])
  <2>1. CASE i <= Len(toClient)
    <3>1. i \in 1..Len(toClient)
      BY <1>1, <1>2, <2>1
    <3> QED BY <1>1, <3>1 DEF HostWrote
  <2>2. CASE ~(i <= Len(toClient))
    <3>1. i - Len(toClient) \in 1..Len(t) /\ Len(toClient) + (i - Len(toClient)) = i
      BY <1>1, <1>2, <2>2
    <3> DEFINE k == i - Len(toClient)
    <3> HIDE DEF k
    <3>2. k \in 1..Len(t) /\ Len(toClient) + k = i
      BY <3>1 DEF k
    <3>3. (toClient \o t)[Len(toClient) + k] = t[k] /\ FromHost(Len(toClient) + k, t[k])
      BY <1>1, <3>2
    <3> QED BY <3>2, <3>3
  <2> QED BY <2>1, <2>2
<1>5. Arrived'
  <2>1. Bytes(toHost)' = Bytes(toHost) /\ Bytes(toClient)' = Bytes(toClient \o t)
    BY DEF Bytes, Begin
  <2>2. atClient <= Bytes(toClient \o t)
    BY <1>3 DEF Arrived
  <2> QED BY <2>1, <2>2 DEF Arrived
<1>6. ASSUME NEW c \in Nat, ClientAt(c) PROVE ClientAt(c)'
  <2>1. c \in 1..Len(toClient) + 1 /\ c \in 1..Len(toClient \o t) + 1
    BY <1>1, <1>2, <1>6 DEF ClientAt
  <2>2. parsed = Begin(toClient \o t, c)
    BY <1>3, <1>6, <2>1 DEF ClientAt
  <2> QED BY <1>6, <2>1, <2>2 DEF ClientAt, clientVars
<1> QED BY <1>1, <1>3, <1>4, <1>5, <1>6

\* The parts of a packet.
LEMMA PacketFields ==
  ASSUME NEW kind, NEW lengths, NEW sequence, NEW session
  PROVE  LET p == PacketOf(kind, lengths, sequence, session) IN
         /\ p.kind = kind /\ p.sequence = sequence /\ p.session = session
         /\ p.size = PacketSize(kind, lengths) /\ p.body = Write(kind, lengths)
         /\ p.body.lengths = lengths
  BY DEF PacketOf, Write

\* One packet is a row of packets.
LEMMA OnePacket ==
  ASSUME NEW p, p.size \in PacketSizes
  PROVE  Sized(<<p>>) /\ Len(<<p>>) = 1 /\ <<p>>[1] = p
<1>1. <<p>> \in Seq({p}) /\ Len(<<p>>) = 1 /\ <<p>>[1] = p
  OBVIOUS
<1>2. IsSequence(<<p>>)
  BY <1>1, SequenceIs
<1> QED BY <1>1, <1>2 DEF Sized

\* The invariant holds when the stream is open.
LEMMA ControlStart == ControlInit => ControlIInv
<1> SUFFICES ASSUME ControlInit PROVE ControlIInv
  OBVIOUS
<1> DEFINE p == PacketOf("Handshake", <<16, 4>>, 1, 0)
<1>1. /\ p.kind = "Handshake" /\ p.sequence = 1 /\ p.session = 0 /\ p.size \in PacketSizes
      /\ Accepts(p.kind, p.body)
  BY PacketFields, IdentityPackets
<1> HIDE DEF p
<1>2. toHost = <<p>> /\ toClient = <<>>
  BY DEF ControlInit, p
<1>3. Sized(toHost) /\ Len(toHost) = 1 /\ toHost[1] = p
  BY <1>1, <1>2, OnePacket
<1>4. FromClient(1, p)
  BY <1>1 DEF FromClient
<1>5. ClientWrote
  <2>1. \A i \in 1..Len(toHost) : FromClient(i, toHost[i])
    <3>1. \A i \in 1..Len(toHost) : i = 1
      BY <1>3
    <3> QED BY <1>3, <1>4, <3>1
  <2> QED BY <1>3, <2>1 DEF ClientWrote, ControlInit
<1>6. Sized(toClient) /\ Len(toClient) = 0
  <2>1. <<>> \in Seq({}) /\ Len(<<>>) = 0
    OBVIOUS
  <2>2. IsSequence(<<>>)
    BY <2>1, SequenceIs
  <2>3. Sized(<<>>)
    BY <2>1, <2>2 DEF Sized
  <2> QED BY <1>2, <2>1, <2>3
<1>7. HostWrote
  BY <1>6 DEF HostWrote, ControlInit
<1>8. /\ Begin(toHost, 1) = 0 /\ Bytes(toHost) \in Nat
      /\ Begin(toClient, 1) = 0 /\ Bytes(toClient) \in Nat
  <2>1. Len(toHost) + 1 \in 1..Len(toHost) + 1 /\ Len(toClient) + 1 \in 1..Len(toClient) + 1
    BY <1>3, <1>6
  <2> QED BY <1>3, <1>6, <2>1, Offsets DEF Bytes
<1>9. Arrived
  BY <1>8 DEF Arrived, ControlInit
<1>10. HostAt(1)
  <2>1. <<>> \in Seq({}) /\ Len(<<>>) = 0
    OBVIOUS
  <2>2. IsSequence(<<>>)
    BY <2>1, SequenceIs
  <2>3. Handled(1)
    BY <2>1, <2>2, ControlAssumption DEF Handled, ControlInit
  <2>4. \A n \in PacketSizes : 0 <= n
    BY DEF PacketSizes
  <2>5. ReaderAt(1)
    BY <1>1, <1>3, <1>8, <2>4 DEF ReaderAt, ControlInit
  <2> QED BY <2>3, <2>5 DEF HostAt
<1>11. ClientAt(1)
  <2>1. Number(1 - 1) = 0 /\ 1 \in 1..Len(toClient) + 1
    BY <1>6 DEF Number
  <2>2. parsed = Begin(toClient, 1) /\ parsed <= atClient
    BY <1>8 DEF ControlInit
  <2>3. configured = FALSE /\ streaming = FALSE /\ lastSequence = 0 /\ clientToken = 0
    BY DEF ControlInit
  <2>4. configured \in BOOLEAN /\ (configured <=> 1 >= 5) /\ streaming \in BOOLEAN
        /\ (streaming => 1 >= 8)
    <3>1. ~(1 >= 5)
      OBVIOUS
    <3> QED BY <2>3, <3>1, Zenon
  <2>5. /\ 1 <= 3 => Len(toHost) = 1
        /\ 1 = 4 => Len(toHost) = 2
        /\ 1 \in 5..7 => Len(toHost) = 3
        /\ 1 >= 8 => Len(toHost) >= 3
    BY <1>3
  <2>6. clientToken = (IF 1 <= 5 THEN 0 ELSE 1)
    BY <2>3
  <2> QED BY <2>1, <2>2, <2>3, <2>4, <2>5, <2>6, Zenon DEF ClientAt
<1>12. Counted
  BY ControlAssumption DEF Counted, ControlInit
<1>13. 1 \in Nat
  OBVIOUS
<1> QED BY <1>5, <1>7, <1>9, <1>10, <1>11, <1>12, <1>13 DEF ControlIInv

\* What arrives was written, and moves nobody.
LEMMA ArriveStep ==
  ASSUME ControlIInv, ArriveAtHost \/ ArriveAtClient
  PROVE  ControlIInv'
<1>0. Counted /\ ClientWrote /\ HostWrote /\ Arrived
  BY DEF ControlIInv
<1>1. PICK h \in Nat : HostAt(h)
  BY DEF ControlIInv
<1>2. PICK c \in Nat : ClientAt(c)
  BY DEF ControlIInv
<1>3. UNCHANGED <<toHost, toClient, readerVars, hostVars, clientVars, configs, ticks, refused>>
  BY DEF ArriveAtHost, ArriveAtClient
<1>4. /\ atHost' \in Nat /\ atHost <= atHost' /\ atHost' <= Bytes(toHost)
      /\ atClient' \in Nat /\ atClient <= atClient' /\ atClient' <= Bytes(toClient)
  <2>1. CASE ArriveAtHost
    <3>1. atHost' \in PieceEnds(toHost) /\ atHost' > atHost /\ atClient' = atClient
      BY <2>1 DEF ArriveAtHost
    <3>2. atHost' \in Nat /\ atHost' <= Bytes(toHost)
      BY <1>0, <3>1, PiecesEnd DEF ClientWrote
    <3> QED BY <1>0, <3>1, <3>2 DEF Arrived
  <2>2. CASE ArriveAtClient
    <3>1. atClient' \in PieceEnds(toClient) /\ atClient' > atClient /\ atHost' = atHost
      BY <2>2 DEF ArriveAtClient
    <3>2. atClient' \in Nat /\ atClient' <= Bytes(toClient)
      BY <1>0, <3>1, PiecesEnd DEF HostWrote
    <3> QED BY <1>0, <3>1, <3>2 DEF Arrived
  <2> QED BY <2>1, <2>2
<1>5. Counted' /\ ClientWrote' /\ HostWrote'
  BY <1>0, <1>3 DEF Counted, ClientWrote, HostWrote, hostVars, clientVars
<1>6. Arrived'
  <2>1. Bytes(toHost)' = Bytes(toHost) /\ Bytes(toClient)' = Bytes(toClient)
    BY <1>3 DEF Bytes, Begin
  <2> QED BY <1>4, <2>1 DEF Arrived
<1>7. HostAt(h)'
  <2>1. Begin(toHost, h)' = Begin(toHost, h)
    BY <1>3 DEF Begin
  <2>2. start \in Nat
    BY <1>0, <1>1, Offsets DEF HostAt, ReaderAt, ClientWrote
  <2>3. start + got <= atHost'
    BY <1>0, <1>1, <1>4, <2>2 DEF HostAt, ReaderAt, Arrived
  <2>4. ReaderAt(h)'
    BY <1>1, <1>3, <2>1, <2>3 DEF HostAt, ReaderAt, readerVars
  <2>5. Handled(h)'
    BY <1>1, <1>3 DEF HostAt, Handled, hostVars
  <2> QED BY <2>4, <2>5 DEF HostAt
<1>8. ClientAt(c)'
  <2>1. Begin(toClient, c)' = Begin(toClient, c)
    BY <1>3 DEF Begin
  <2>2. parsed \in Nat
    BY <1>0, <1>2, Offsets DEF ClientAt, HostWrote
  <2>3. parsed <= atClient'
    BY <1>0, <1>2, <1>4, <2>2 DEF ClientAt, Arrived
  <2> QED BY <1>2, <1>3, <2>1, <2>3 DEF ClientAt, clientVars
<1> QED BY <1>5, <1>6, <1>7, <1>8 DEF ControlIInv

\* There is a packet to read wherever bytes have arrived.
LEMMA SomethingToRead ==
  ASSUME ClientWrote, Arrived, NEW h \in Nat, ReaderAt(h), start + got < atHost \/ got > 0
  PROVE  /\ h \in 1..Len(toHost) /\ Framed /\ (CHOOSE i \in PacketAt(toHost, start) : TRUE) = h
         /\ start \in Nat /\ Begin(toHost, h + 1) = start + toHost[h].size
         /\ toHost[h].size \in PacketSizes /\ toHost[h].size \in Nat
<1>1. Len(toHost) \in Nat
  BY SequenceHas DEF Sized, ClientWrote
<1>2. h \in 1..Len(toHost) + 1 /\ start = Begin(toHost, h) /\ got \in Nat /\ start + got <= atHost
  BY DEF ReaderAt
<1>3. start \in Nat
  BY <1>2, Offsets DEF ClientWrote
<1>4. h # Len(toHost) + 1
  <2> SUFFICES ASSUME h = Len(toHost) + 1 PROVE FALSE
    OBVIOUS
  <2>1. start = Bytes(toHost)
    BY <1>2 DEF Bytes
  <2> QED BY <1>2, <1>3, <2>1 DEF Arrived
<1>5. h \in 1..Len(toHost)
  BY <1>1, <1>2, <1>4
<1>6. /\ PacketAt(toHost, start) = {h}
      /\ (CHOOSE i \in PacketAt(toHost, start) : TRUE) = h
  BY <1>2, <1>5, Found DEF ClientWrote
<1>7. Framed
  BY <1>6 DEF Framed
<1>8. Begin(toHost, h + 1) = start + toHost[h].size
  BY <1>2, <1>5, Offsets DEF ClientWrote
<1>9. toHost[h].size \in PacketSizes
  BY <1>5 DEF ClientWrote, Sized
<1>10. toHost[h].size \in Nat
  BY <1>9 DEF PacketSizes
<1> QED BY <1>3, <1>5, <1>6, <1>7, <1>8, <1>9, <1>10

\* The reader takes what has arrived of its packet, and never gives up.
LEMMA ReadStepKeeps ==
  ASSUME ControlIInv, ReadSome
  PROVE  ControlIInv'
<1>0. Counted /\ ClientWrote /\ HostWrote /\ Arrived
  BY DEF ControlIInv
<1>1. PICK h \in Nat : HostAt(h)
  BY DEF ControlIInv
<1>2. PICK c \in Nat : ClientAt(c)
  BY DEF ControlIInv
<1>3. ReaderAt(h) /\ got \in Nat
  BY <1>1 DEF HostAt, ReaderAt
<1>4. start + got < atHost
  BY DEF ReadSome
<1>5. /\ h \in 1..Len(toHost) /\ Framed /\ (CHOOSE i \in PacketAt(toHost, start) : TRUE) = h
      /\ start \in Nat /\ toHost[h].size \in PacketSizes /\ toHost[h].size \in Nat
  BY <1>0, <1>3, <1>4, SomethingToRead
<1>6. /\ got' = Min({Wanted, atHost - start})
      /\ UNCHANGED <<stage, refused, wire, start, hostSequence, hostGuard, token, queue, clientVars,
                     configs, ticks>>
  BY <1>5 DEF ReadSome
<1>7. Wanted \in Nat /\ Wanted <= toHost[h].size
  <2>1. 36 <= toHost[h].size
    BY <1>5 DEF PacketSizes
  <2>2. Wanted = IF got < 36 THEN 36 ELSE toHost[h].size
    <3>1. Wanted = IF got < Header THEN Header ELSE toHost[h].size
      <4>1. (CHOOSE i \in PacketAt(toHost, start) : TRUE) = h
        BY <1>5
      <4> DEFINE at == CHOOSE i \in PacketAt(toHost, start) : TRUE
      <4>2. Wanted = IF got < Header THEN Header ELSE toHost[at].size
        BY DEF Wanted
      <4> HIDE DEF at
      <4>3. at = h
        BY <4>1 DEF at
      <4> QED BY <4>2, <4>3
    <3> QED BY <3>1, HeaderIs
  <2> QED BY <1>5, <2>1, <2>2
<1>8. atHost - start \in Nat
  BY <1>0, <1>3, <1>4, <1>5 DEF Arrived
<1>9. got' \in Nat /\ got' <= toHost[h].size /\ start + got' <= atHost
  <2>1. got' = IF Wanted <= atHost - start THEN Wanted ELSE atHost - start
    BY <1>6, <1>7, <1>8, MinOfTwo
  <2>2. atHost \in Nat
    BY <1>0 DEF Arrived
  <2> QED BY <1>5, <1>7, <1>8, <2>1, <2>2
<1>10. UNCHANGED <<toHost, toClient, atHost, atClient>>
  BY <1>6 DEF wire
<1>11. Counted' /\ ClientWrote' /\ HostWrote'
  BY <1>0, <1>6, <1>10 DEF Counted, ClientWrote, HostWrote, clientVars
<1>12. Arrived'
  <2>1. Bytes(toHost)' = Bytes(toHost) /\ Bytes(toClient)' = Bytes(toClient)
    BY <1>10 DEF Bytes, Begin
  <2> QED BY <1>0, <1>10, <2>1 DEF Arrived
<1>13. HostAt(h)'
  <2>1. Begin(toHost, h)' = Begin(toHost, h)
    BY <1>10 DEF Begin
  <2>2. ReaderAt(h)'
    BY <1>3, <1>6, <1>9, <1>10, <2>1 DEF ReaderAt
  <2>3. Handled(h)'
    BY <1>1, <1>6, <1>10 DEF HostAt, Handled
  <2> QED BY <2>2, <2>3 DEF HostAt
<1>14. ClientAt(c)'
  <2>1. Begin(toClient, c)' = Begin(toClient, c)
    BY <1>10 DEF Begin
  <2> QED BY <1>2, <1>6, <1>10, <2>1 DEF ClientAt, clientVars
<1> QED BY <1>11, <1>12, <1>13, <1>14 DEF ControlIInv

-----------------------------------------------------------------------------
(* The host's steps.                                                       *)

\* A packet that was read is the next of the iPad's, and the reader moves on to the one
\* after it.
LEMMA ReadNext ==
  ASSUME ClientWrote, Arrived, NEW h \in Nat, ReaderAt(h), PacketRead, NextPacket,
         UNCHANGED <<toHost, atHost>>
  PROVE  h \in 1..Len(toHost) /\ Incoming = toHost[h] /\ FromClient(h, Incoming) /\ ReaderAt(h + 1)'
<1>1. got >= 36 /\ got = Wanted /\ got \in Nat /\ start + got <= atHost
  BY HeaderIs DEF PacketRead, ReaderAt
<1>2. /\ h \in 1..Len(toHost) /\ (CHOOSE i \in PacketAt(toHost, start) : TRUE) = h
      /\ start \in Nat /\ Begin(toHost, h + 1) = start + toHost[h].size
      /\ toHost[h].size \in Nat
  <2>1. got > 0
    BY <1>1
  <2> QED BY <2>1, SomethingToRead
<1>3. Incoming = toHost[h] /\ Wanted = (IF got < Header THEN Header ELSE toHost[h].size)
  <2> DEFINE at == CHOOSE i \in PacketAt(toHost, start) : TRUE
  <2>1. Incoming = toHost[at] /\ Wanted = IF got < Header THEN Header ELSE toHost[at].size
    BY DEF Incoming, Wanted
  <2>2. at = h
    BY <1>2
  <2> HIDE DEF at
  <2> QED BY <2>1, <2>2
<1>4. got = toHost[h].size
  BY <1>1, <1>3, HeaderIs
<1>5. FromClient(h, Incoming)
  BY <1>2, <1>3 DEF ClientWrote
<1>6. Len(toHost) \in Nat
  BY SequenceHas DEF Sized, ClientWrote
<1>7. ReaderAt(h + 1)'
  <2>1. start' = Begin(toHost, h + 1) /\ got' = 0 /\ start' + got' <= atHost
    <3>1. start' = start + got /\ got' = 0
      BY DEF NextPacket
    <3> QED BY <1>1, <1>2, <1>4, <3>1
  <2>2. Begin(toHost, h + 1)' = Begin(toHost, h + 1)
    BY DEF Begin
  <2>3. h + 1 \in 1..Len(toHost) + 1
    BY <1>2, <1>6
  <2>4. h + 1 <= Len(toHost) => 0 <= toHost[h + 1].size
    <3>1. h + 1 <= Len(toHost) => h + 1 \in 1..Len(toHost)
      BY <1>2, <1>6
    <3>2. h + 1 <= Len(toHost) => toHost[h + 1].size \in PacketSizes
      BY <3>1 DEF ClientWrote, Sized
    <3>3. \A n \in PacketSizes : 0 <= n
      BY DEF PacketSizes
    <3> QED BY <3>2, <3>3
  <2> QED BY <2>1, <2>2, <2>3, <2>4 DEF ReaderAt
<1> QED BY <1>2, <1>3, <1>5, <1>7

\* Packets made for a list of messages.
LEMMA Row ==
  ASSUME NEW n \in Nat, NEW kinds, DOMAIN kinds = 1..n, NEW lengths, NEW base, NEW session,
         \A i \in 1..n : PacketSize(kinds[i], lengths[i]) \in PacketSizes
  PROVE  LET t == [i \in DOMAIN kinds |-> PacketOf(kinds[i], lengths[i], base + i, session)] IN
         /\ Sized(t) /\ Len(t) = n
         /\ \A i \in 1..n : t[i] = PacketOf(kinds[i], lengths[i], base + i, session)
<1> DEFINE t == [i \in DOMAIN kinds |-> PacketOf(kinds[i], lengths[i], base + i, session)]
           R == {t[i] : i \in 1..n}
<1>1. DOMAIN t = 1..n /\ \A i \in 1..n : t[i] = PacketOf(kinds[i], lengths[i], base + i, session)
  OBVIOUS
<1>2. t \in [1..n -> R]
  BY <1>1
<1>3. t \in Seq(R) /\ Len(t) = n
  BY <1>1, <1>2
<1>4. IsSequence(t)
  BY <1>3, SequenceIs
<1> HIDE DEF t
<1>5. \A i \in 1..n : t[i].size \in PacketSizes
  BY <1>1, PacketFields
<1>6. Sized(t)
  BY <1>3, <1>4, <1>5 DEF Sized
<1> QED BY <1>1, <1>3, <1>6 DEF t

\* The Handshake is received, and answered with packets 1 to 3.
LEMMA GreetStep ==
  ASSUME ControlIInv, Greet
  PROVE  ControlIInv'
<1>0. Counted /\ ClientWrote /\ HostWrote /\ Arrived
  BY DEF ControlIInv
<1>1. PICK h \in Nat : HostAt(h)
  BY DEF ControlIInv
<1>2. PICK c \in Nat : ClientAt(c)
  BY DEF ControlIInv
<1>3. stage = "hello" /\ PacketRead /\ NextPacket
      /\ UNCHANGED <<toHost, atHost, atClient, token, queue, clientVars, configs, ticks>>
  BY DEF Greet
<1>4. h = 1 /\ hostGuard = 0 /\ queue = <<>> /\ ReaderAt(h)
  BY <1>1, <1>3 DEF HostAt, Handled
<1>5. FromClient(1, Incoming) /\ ReaderAt(2)'
  <2>1. FromClient(h, Incoming) /\ ReaderAt(h + 1)'
    BY <1>0, <1>3, <1>4, ReadNext
  <2>2. h + 1 = 2
    BY <1>4
  <2> QED BY <1>4, <2>1, <2>2
<1>6. Incoming.sequence = 1 /\ Receivable(Incoming, 0, "Handshake")
  BY <1>4, <1>5 DEF FromClient, Receivable
<1> DEFINE kinds   == <<"ProtocolVersion", "HostInfo", "Pairing">>
           lengths == <<<<>>, <<16, 4>>, <<32, 0, 0>>>>
           t       == Reply(kinds, lengths, 0)
<1>7. /\ HostWrites(t) /\ hostGuard' = 1 /\ stage' = "proof" /\ refused' = refused
  BY <1>6 DEF Greet
<1>8. Len(toClient) = 0 /\ hostSequence = 0
  BY <1>0, <1>3 DEF HostWrote
<1>9. Sized(t) /\ Len(t) = 3 /\ \A i \in 1..3 : t[i] = PacketOf(kinds[i], lengths[i], i, 0)
  <2>1. DOMAIN kinds = 1..3 /\ 3 \in Nat
    OBVIOUS
  <2>2. /\ PacketSize("ProtocolVersion", <<>>) \in PacketSizes
        /\ PacketSize("HostInfo", <<16, 4>>) \in PacketSizes
        /\ PacketSize("Pairing", <<32, 0, 0>>) \in PacketSizes
    BY PlainPacket, IdentityPackets, PairingPacket DEF Plain
  <2>3. \A i \in 1..3 : PacketSize(kinds[i], lengths[i]) \in PacketSizes
    <3>1. \A i \in 1..3 : i \in {1, 2, 3}
      OBVIOUS
    <3> QED BY <2>2, <3>1
  <2> HIDE DEF kinds, lengths
  <2>4. /\ Sized(t) /\ Len(t) = 3
        /\ \A i \in 1..3 : t[i] = PacketOf(kinds[i], lengths[i], hostSequence + i, 0)
    BY <2>1, <2>3, Row, Zenon DEF Reply
  <2>5. \A i \in 1..3 : hostSequence + i = i
    BY <1>8
  <2> QED BY <2>4, <2>5
<1>10. \A i \in 1..Len(t) : FromHost(Len(toClient) + i, t[i])
  <2>1. /\ t[1] = PacketOf("ProtocolVersion", <<>>, 1, 0)
        /\ t[2] = PacketOf("HostInfo", <<16, 4>>, 2, 0)
        /\ t[3] = PacketOf("Pairing", <<32, 0, 0>>, 3, 0)
    BY <1>9
  <2> HIDE DEF t
  <2>2. FromHost(1, t[1])
    BY <2>1, PacketFields, PlainPacket DEF FromHost, Plain, Number
  <2>3. FromHost(2, t[2])
    BY <2>1, PacketFields, IdentityPackets DEF FromHost, Number
  <2>4. FromHost(3, t[3])
    <3>1. /\ t[3].kind = "Pairing" /\ t[3].sequence = 3 /\ t[3].session = 0
          /\ t[3].size = PacketSize("Pairing", <<32, 0, 0>>)
          /\ t[3].body = Write("Pairing", <<32, 0, 0>>) /\ t[3].body.lengths = <<32, 0, 0>>
      BY <2>1, PacketFields
    <3>2. t[3].size \in PacketSizes /\ Accepts(t[3].kind, t[3].body)
      BY <3>1, PairingPacket
    <3>3. t[3].body.lengths[2] = 0
      BY <3>1
    <3> QED BY <3>1, <3>2, <3>3 DEF FromHost, Number
  <2>5. \A i \in 1..Len(t) : i \in {1, 2, 3} /\ Len(toClient) + i = i
    BY <1>8, <1>9
  <2> QED BY <2>2, <2>3, <2>4, <2>5
<1> HIDE DEF t
<1>11. /\ Sized(toClient)' /\ (\A i \in 1..Len(toClient) : FromHost(i, toClient[i]))'
       /\ Arrived' /\ Len(toClient') = Len(toClient) + Len(t) /\ ClientAt(c)'
  <2>1. toClient' = toClient \o t
    BY <1>7 DEF HostWrites
  <2> QED BY <1>0, <1>2, <1>3, <1>9, <1>10, <2>1, HostAppends
<1>12. HostWrote'
  <2>1. Len(toClient') = 3 /\ hostSequence' = 3
    BY <1>7, <1>8, <1>9, <1>11 DEF HostWrites
  <2> QED BY <1>7, <1>11, <2>1 DEF HostWrote
<1>13. ClientWrote'
  BY <1>0, <1>3 DEF ClientWrote, clientVars
<1>14. Counted'
  BY <1>0, <1>3, <1>7 DEF Counted
<1>15. HostAt(2)'
  BY <1>1, <1>3, <1>4, <1>5, <1>7 DEF HostAt, Handled
<1>16. 2 \in Nat
  OBVIOUS
<1> QED BY <1>11, <1>12, <1>13, <1>14, <1>15, <1>16 DEF ControlIInv

\* The proof is received, and answered with packet 4.
LEMMA ProveStep ==
  ASSUME ControlIInv, Prove
  PROVE  ControlIInv'
<1>0. Counted /\ ClientWrote /\ HostWrote /\ Arrived
  BY DEF ControlIInv
<1>1. PICK h \in Nat : HostAt(h)
  BY DEF ControlIInv
<1>2. PICK c \in Nat : ClientAt(c)
  BY DEF ControlIInv
<1>3. stage = "proof" /\ PacketRead /\ NextPacket
      /\ UNCHANGED <<toHost, atHost, atClient, token, queue, clientVars, configs, ticks>>
  BY DEF Prove
<1>4. h = 2 /\ hostGuard = 1 /\ queue = <<>> /\ ReaderAt(h)
  BY <1>1, <1>3 DEF HostAt, Handled
<1>5. FromClient(2, Incoming) /\ ReaderAt(3)'
  <2>1. FromClient(h, Incoming) /\ ReaderAt(h + 1)'
    BY <1>0, <1>3, <1>4, ReadNext
  <2>2. h + 1 = 3
    BY <1>4
  <2> QED BY <1>4, <2>1, <2>2
<1>6. Incoming.sequence = 2 /\ Receivable(Incoming, 0, "Pairing")
  BY <1>4, <1>5 DEF FromClient, Receivable
<1>7. PICK secret \in {0, 32} : HostWrites(Reply(<<"Pairing">>, <<<<32, 32, secret>>>>, 0))
  BY <1>6 DEF Prove
<1>8. hostGuard' = 2 /\ stage' = "capabilities" /\ refused' = refused
  BY <1>6 DEF Prove
<1>9. Len(toClient) = 3 /\ hostSequence = 3
  BY <1>0, <1>3 DEF HostWrote
<1> DEFINE s == <<32, 32, secret>>
           p == PacketOf("Pairing", s, 4, 0)
           t == <<p>>
<1>10. Reply(<<"Pairing">>, <<<<32, 32, secret>>>>, 0) = t
  <2>1. hostSequence + 1 = 4
    BY <1>9
  <2> QED BY <2>1 DEF Reply
<1>11. FromHost(4, p) /\ p.size \in PacketSizes
  <2>1. /\ p.kind = "Pairing" /\ p.sequence = 4 /\ p.session = 0
        /\ p.size = PacketSize("Pairing", s) /\ p.body = Write("Pairing", s)
        /\ p.body.lengths = <<32, 32, secret>>
    BY PacketFields
  <2>2. p.size \in PacketSizes /\ Accepts(p.kind, p.body)
    <3>1. 32 \in {0, 32}
      OBVIOUS
    <3> QED BY <2>1, <3>1, PairingPacket
  <2> HIDE DEF p
  <2>3. p.body.lengths[2] # 0
    BY <2>1
  <2> QED BY <2>1, <2>2, <2>3 DEF FromHost, Number
<1> HIDE DEF p
<1>12. Sized(t) /\ Len(t) = 1 /\ \A i \in 1..Len(t) : FromHost(Len(toClient) + i, t[i])
  <2>1. Sized(t) /\ Len(t) = 1 /\ t[1] = p
    BY <1>11, OnePacket
  <2> HIDE DEF t
  <2>2. \A i \in 1..Len(t) : i = 1 /\ Len(toClient) + i = 4
    BY <1>9, <2>1
  <2> QED BY <1>11, <2>1, <2>2
<1> HIDE DEF t
<1>13. toClient' = toClient \o t /\ hostSequence' = hostSequence + Len(t)
  BY <1>7, <1>10 DEF HostWrites
<1>14. /\ Sized(toClient)' /\ (\A i \in 1..Len(toClient) : FromHost(i, toClient[i]))'
       /\ Arrived' /\ Len(toClient') = Len(toClient) + Len(t) /\ ClientAt(c)'
  BY <1>0, <1>2, <1>3, <1>12, <1>13, HostAppends
<1>15. HostWrote'
  <2>1. Len(toClient') = 4 /\ hostSequence' = 4
    BY <1>9, <1>12, <1>13, <1>14
  <2> QED BY <1>8, <1>14, <2>1 DEF HostWrote
<1>16. ClientWrote'
  BY <1>0, <1>3 DEF ClientWrote, clientVars
<1>17. Counted'
  BY <1>0, <1>3, <1>8 DEF Counted
<1>18. HostAt(3)'
  BY <1>1, <1>3, <1>4, <1>5, <1>8 DEF HostAt, Handled
<1>19. 3 \in Nat
  OBVIOUS
<1> QED BY <1>14, <1>15, <1>16, <1>17, <1>18, <1>19 DEF ControlIInv

\* The capabilities are received; the session starts with packets 5 and 6.
LEMMA StartSessionStep ==
  ASSUME ControlIInv, StartSession
  PROVE  ControlIInv'
<1>0. Counted /\ ClientWrote /\ HostWrote /\ Arrived
  BY DEF ControlIInv
<1>1. PICK h \in Nat : HostAt(h)
  BY DEF ControlIInv
<1>2. PICK c \in Nat : ClientAt(c)
  BY DEF ControlIInv
<1>3. stage = "capabilities" /\ PacketRead /\ NextPacket
      /\ UNCHANGED <<toHost, atHost, atClient, queue, clientVars, configs, ticks>>
  BY DEF StartSession
<1>4. h = 3 /\ hostGuard = 2 /\ queue = <<>> /\ ReaderAt(h)
  BY <1>1, <1>3 DEF HostAt, Handled
<1>5. FromClient(3, Incoming) /\ ReaderAt(4)'
  <2>1. FromClient(h, Incoming) /\ ReaderAt(h + 1)'
    BY <1>0, <1>3, <1>4, ReadNext
  <2>2. h + 1 = 4
    BY <1>4
  <2> QED BY <1>4, <2>1, <2>2
<1>6. Receivable(Incoming, 0, "DisplayCapabilities")
  BY <1>4, <1>5 DEF FromClient, Receivable
<1> DEFINE kinds   == <<"SessionStart", "EncoderCapabilities">>
           lengths == <<<<>>, <<>>>>
           t       == Reply(kinds, lengths, 1)
<1>7. /\ toClient' = toClient \o t /\ token' = 1 /\ hostSequence' = 10 /\ hostGuard' = 0
      /\ stage' = "session" /\ refused' = refused
  BY <1>6 DEF StartSession, SessionSequence
<1>8. Len(toClient) = 4 /\ hostSequence = 4
  BY <1>0, <1>3 DEF HostWrote
<1>9. Sized(t) /\ Len(t) = 2 /\ \A i \in 1..2 : t[i] = PacketOf(kinds[i], lengths[i], 4 + i, 1)
  <2>1. DOMAIN kinds = 1..2 /\ 2 \in Nat
    OBVIOUS
  <2>2. /\ PacketSize("SessionStart", <<>>) \in PacketSizes
        /\ PacketSize("EncoderCapabilities", <<>>) \in PacketSizes
    BY PlainPacket DEF Plain
  <2>3. \A i \in 1..2 : PacketSize(kinds[i], lengths[i]) \in PacketSizes
    <3>1. \A i \in 1..2 : i \in {1, 2}
      OBVIOUS
    <3> QED BY <2>2, <3>1
  <2> HIDE DEF kinds, lengths
  <2>4. /\ Sized(t) /\ Len(t) = 2
        /\ \A i \in 1..2 : t[i] = PacketOf(kinds[i], lengths[i], hostSequence + i, 1)
    <3> DEFINE n == 2
               session == 1
               u == Reply(kinds, lengths, session)
    <3> HIDE DEF n, session
    <3>1. DOMAIN kinds = 1..n /\ n \in Nat
          /\ \A i \in 1..n : PacketSize(kinds[i], lengths[i]) \in PacketSizes
      BY <2>1, <2>3 DEF n
    <3>2. /\ Sized(u) /\ Len(u) = n
          /\ \A i \in 1..n : u[i] = PacketOf(kinds[i], lengths[i], hostSequence + i, session)
      BY <3>1, Row, Zenon DEF Reply
    <3> QED BY <3>2 DEF n, session
  <2> QED BY <1>8, <2>4
<1>10. \A i \in 1..Len(t) : FromHost(Len(toClient) + i, t[i])
  <2>1. /\ t[1] = PacketOf("SessionStart", <<>>, 5, 1)
        /\ t[2] = PacketOf("EncoderCapabilities", <<>>, 6, 1)
    BY <1>9
  <2> HIDE DEF t
  <2>2. FromHost(5, t[1])
    BY <2>1, PacketFields, PlainPacket DEF FromHost, Plain, Number
  <2>3. FromHost(6, t[2])
    BY <2>1, PacketFields, PlainPacket DEF FromHost, Plain, Number
  <2>4. \A i \in 1..Len(t) : (i = 1 /\ Len(toClient) + i = 5) \/ (i = 2 /\ Len(toClient) + i = 6)
    BY <1>8, <1>9
  <2> QED BY <2>2, <2>3, <2>4
<1> HIDE DEF t
<1>11. /\ Sized(toClient)' /\ (\A i \in 1..Len(toClient) : FromHost(i, toClient[i]))'
       /\ Arrived' /\ Len(toClient') = Len(toClient) + Len(t) /\ ClientAt(c)'
  BY <1>0, <1>2, <1>3, <1>7, <1>9, <1>10, HostAppends
<1>12. HostWrote'
  <2>1. Len(toClient') = 6 /\ hostSequence' = 10
    BY <1>7, <1>8, <1>9, <1>11
  <2> QED BY <1>7, <1>11, <2>1 DEF HostWrote
<1>13. ClientWrote'
  BY <1>0, <1>3 DEF ClientWrote, clientVars
<1>14. Counted'
  BY <1>0, <1>3, <1>7 DEF Counted
<1>15. HostAt(4)'
  <2>1. Len(queue) = 0
    BY <1>4
  <2>2. Handled(4)'
    BY <1>1, <1>3, <1>7, <2>1 DEF HostAt, Handled
  <2> QED BY <1>5, <2>2 DEF HostAt
<1>16. 4 \in Nat
  OBVIOUS
<1> QED BY <1>11, <1>12, <1>13, <1>14, <1>15, <1>16 DEF ControlIInv

\* A packet goes to the end of the queue.
LEMMA EnqueueStep ==
  ASSUME ControlIInv, Enqueue
  PROVE  ControlIInv'
<1>0. Counted /\ ClientWrote /\ HostWrote /\ Arrived
  BY DEF ControlIInv
<1>1. PICK h \in Nat : HostAt(h)
  BY DEF ControlIInv
<1>2. PICK c \in Nat : ClientAt(c)
  BY DEF ControlIInv
<1>3. /\ stage = "session" /\ PacketRead /\ Len(queue) < QueueCap
      /\ queue' = Append(queue, Incoming) /\ NextPacket
      /\ UNCHANGED <<toHost, toClient, atHost, atClient, stage, hostSequence, hostGuard, token,
                     clientVars, configs, ticks, refused>>
  BY DEF Enqueue, wire
<1>4. h \in 1..Len(toHost) /\ Incoming = toHost[h] /\ ReaderAt(h + 1)'
  BY <1>0, <1>1, <1>3, ReadNext DEF HostAt
<1>5. /\ IsSequence(queue) /\ Len(queue) \in Nat /\ hostGuard \in Nat
      /\ Len(queue) <= h - 4 /\ hostGuard <= h - 1 - Len(queue)
      /\ \A k \in 1..Len(queue) : queue[k] = toHost[h - 1 - Len(queue) + k]
  BY <1>1, <1>3, SequenceHas DEF HostAt, Handled
<1>6. /\ IsSequence(queue') /\ Len(queue') = Len(queue) + 1
      /\ \A k \in 1..Len(queue) : queue'[k] = queue[k]
      /\ queue'[Len(queue) + 1] = toHost[h]
  <2> DEFINE R == {queue[i] : i \in 1..Len(queue)} \cup {Incoming}
  <2>1. queue \in Seq(R) /\ Incoming \in R
    BY <1>5, SeqMonotonic DEF IsSequence
  <2> HIDE DEF R
  <2>2. /\ Append(queue, Incoming) \in Seq(R)
        /\ Len(Append(queue, Incoming)) = Len(queue) + 1
        /\ \A k \in 1..Len(queue) : Append(queue, Incoming)[k] = queue[k]
        /\ Append(queue, Incoming)[Len(queue) + 1] = Incoming
    BY <2>1, AppendProperties
  <2> QED BY <1>3, <1>4, <2>2, SequenceIs
<1>7. \A k \in 1..Len(queue') : queue'[k] = toHost[h + 1 - 1 - Len(queue') + k]
  <2> SUFFICES ASSUME NEW k \in 1..Len(queue')
               PROVE  queue'[k] = toHost[h + 1 - 1 - Len(queue') + k]
    OBVIOUS
  <2>1. CASE k = Len(queue) + 1
    <3>1. h + 1 - 1 - Len(queue') + k = h
      BY <1>4, <1>5, <1>6, <2>1
    <3> QED BY <1>6, <2>1, <3>1
  <2>2. CASE k # Len(queue) + 1
    <3>1. k \in 1..Len(queue) /\ h + 1 - 1 - Len(queue') + k = h - 1 - Len(queue) + k
      BY <1>5, <1>6, <2>2
    <3> QED BY <1>5, <1>6, <3>1
  <2> QED BY <2>1, <2>2
<1>8. Handled(h + 1)'
  <2>1. /\ Len(queue') <= QueueCap /\ Len(queue') <= h + 1 - 4
        /\ hostGuard <= h + 1 - 1 - Len(queue')
    BY <1>3, <1>5, <1>6, ControlAssumption
  <2> QED BY <1>3, <1>5, <1>6, <1>7, <2>1 DEF Handled
<1>9. Counted' /\ ClientWrote' /\ HostWrote'
  BY <1>0, <1>3 DEF Counted, ClientWrote, HostWrote, clientVars
<1>10. Arrived'
  <2>1. Bytes(toHost)' = Bytes(toHost) /\ Bytes(toClient)' = Bytes(toClient)
    BY <1>3 DEF Bytes, Begin
  <2> QED BY <1>0, <1>3, <2>1 DEF Arrived
<1>11. ClientAt(c)'
  <2>1. Begin(toClient, c)' = Begin(toClient, c)
    BY <1>3 DEF Begin
  <2> QED BY <1>2, <1>3, <2>1 DEF ClientAt, clientVars
<1>12. HostAt(h + 1)' /\ h + 1 \in Nat
  BY <1>4, <1>8 DEF HostAt
<1> QED BY <1>9, <1>10, <1>11, <1>12 DEF ControlIInv

\* The host in its session writes one packet more.
LEMMA HostWritesOne ==
  ASSUME ControlIInv, stage = "session", NEW p, p.kind \in {"VideoConfig", "Pong"},
         p.sequence = hostSequence + 1, p.session = token, p.size \in PacketSizes,
         Accepts(p.kind, p.body), HostWrites(<<p>>), stage' \in {"session", "stopped"},
         UNCHANGED <<toHost, atHost, atClient, clientVars>>
  PROVE  HostWrote' /\ Arrived' /\ \A c \in Nat : ClientAt(c) => ClientAt(c)'
<1>0. HostWrote /\ Arrived /\ Counted
  BY DEF ControlIInv
<1> DEFINE t == <<p>>
<1>1. Sized(t) /\ Len(t) = 1 /\ t[1] = p
  BY OnePacket
<1> HIDE DEF t
<1>2. Len(toClient) \in Nat /\ Len(toClient) >= 6 /\ hostSequence = Len(toClient) + 4 /\ token = 1
  BY <1>0, SequenceHas DEF HostWrote, Sized, Counted
<1>3. \A i \in 1..Len(t) : FromHost(Len(toClient) + i, t[i])
  <2>1. FromHost(Len(toClient) + 1, p)
    <3> DEFINE n == Len(toClient) + 1
    <3>1. n >= 7 /\ Number(n) = p.sequence /\ n \in Nat /\ p.session = 1
      BY <1>2 DEF Number
    <3> HIDE DEF n
    <3>2. FromHost(n, p)
      BY <3>1 DEF FromHost
    <3> QED BY <3>2 DEF n
  <2>2. \A i \in 1..Len(t) : i = 1
    BY <1>1
  <2> QED BY <1>1, <2>1, <2>2
<1>4. toClient' = toClient \o t /\ hostSequence' = hostSequence + Len(t)
  BY DEF HostWrites, t
<1>5. /\ Sized(toClient)' /\ (\A i \in 1..Len(toClient) : FromHost(i, toClient[i]))'
      /\ Arrived' /\ Len(toClient') = Len(toClient) + Len(t)
      /\ \A c \in Nat : ClientAt(c) => ClientAt(c)'
  BY <1>0, <1>1, <1>3, <1>4, HostAppends
<1>6. HostWrote'
  <2>1. Len(toClient') >= 6 /\ hostSequence' = Len(toClient') + 4
    BY <1>1, <1>2, <1>4, <1>5
  <2> QED BY <1>5, <2>1 DEF HostWrote
<1> QED BY <1>5, <1>6

\* An encoder is ready while the reader is wherever it is.
LEMMA SendConfigStep ==
  ASSUME ControlIInv, SendConfig
  PROVE  ControlIInv'
<1>0. Counted /\ ClientWrote /\ HostWrote /\ Arrived
  BY DEF ControlIInv
<1>1. PICK h \in Nat : HostAt(h)
  BY DEF ControlIInv
<1>2. PICK c \in Nat : ClientAt(c)
  BY DEF ControlIInv
<1> DEFINE p == PacketOf("VideoConfig", <<0>>, hostSequence + 1, token)
<1>3. /\ stage = "session" /\ configs < MaxConfigs /\ configs' = configs + 1
      /\ UNCHANGED <<toHost, atHost, atClient, start, got, stage, hostGuard, token, queue,
                     clientVars, ticks, refused>>
  BY DEF SendConfig, ReaderKept
<1>4. HostWrites(<<p>>)
  BY DEF SendConfig, Reply
<1>5. /\ p.kind = "VideoConfig" /\ p.sequence = hostSequence + 1 /\ p.session = token
      /\ p.size \in PacketSizes /\ Accepts(p.kind, p.body)
  BY PacketFields, ConfigPacket
<1> HIDE DEF p
<1>6. HostWrote' /\ Arrived' /\ ClientAt(c)'
  BY <1>2, <1>3, <1>4, <1>5, HostWritesOne
<1>7. ClientWrote'
  BY <1>0, <1>3 DEF ClientWrote, clientVars
<1>8. Counted'
  BY <1>0, <1>3, ControlAssumption DEF Counted
<1>9. HostAt(h)'
  <2>1. Begin(toHost, h)' = Begin(toHost, h)
    BY <1>3 DEF Begin
  <2> QED BY <1>1, <1>3, <2>1 DEF HostAt, ReaderAt, Handled
<1> QED BY <1>6, <1>7, <1>8, <1>9 DEF ControlIInv

\* The first packet of the queue is the next in number, and is handled.
LEMMA HandlePacketStep ==
  ASSUME ControlIInv, HandlePacket
  PROVE  ControlIInv'
<1>0. Counted /\ ClientWrote /\ HostWrote /\ Arrived
  BY DEF ControlIInv
<1>1. PICK h \in Nat : HostAt(h)
  BY DEF ControlIInv
<1>2. PICK c \in Nat : ClientAt(c)
  BY DEF ControlIInv
<1>3. /\ stage = "session" /\ queue # <<>> /\ queue' = Tail(queue)
      /\ UNCHANGED <<toHost, atHost, atClient, start, got, token, clientVars, configs, ticks>>
  BY DEF HandlePacket, readerVars
<1>4. /\ IsSequence(queue) /\ Len(queue) \in Nat /\ hostGuard \in Nat /\ Len(queue) <= QueueCap
      /\ Len(queue) <= h - 4 /\ hostGuard <= h - 1 - Len(queue)
      /\ \A k \in 1..Len(queue) : queue[k] = toHost[h - 1 - Len(queue) + k]
  BY <1>1, <1>3, SequenceHas DEF HostAt, Handled
<1>5. /\ Len(queue) >= 1 /\ Head(queue) = queue[1]
      /\ IsSequence(Tail(queue)) /\ Len(Tail(queue)) = Len(queue) - 1
      /\ \A k \in 1..Len(queue) - 1 : Tail(queue)[k] = queue[k + 1]
  <2> DEFINE R == {queue[i] : i \in 1..Len(queue)}
  <2>1. queue \in Seq(R)
    BY <1>4 DEF IsSequence
  <2> HIDE DEF R
  <2>2. Head(queue) = queue[1] /\ Len(queue) # 0
    BY <1>3, <2>1, EmptySeq, HeadTailProperties
  <2>3. Tail(queue) \in Seq(R) /\ Len(Tail(queue)) = Len(queue) - 1
        /\ \A k \in 1..Len(Tail(queue)) : Tail(queue)[k] = queue[k + 1]
    BY <1>3, <2>1, HeadTailProperties
  <2>4. Len(queue) >= 1
    BY <1>4, <2>2
  <2>5. IsSequence(Tail(queue))
    BY <2>3, SequenceIs
  <2> QED BY <2>2, <2>3, <2>4, <2>5
<1> DEFINE i == h - Len(queue)
           p == Head(queue)
<1>6. Len(toHost) \in Nat /\ h \in 1..Len(toHost) + 1
  BY <1>0, <1>1, SequenceHas DEF ClientWrote, Sized, HostAt, ReaderAt
<1>7. i \in 1..Len(toHost) /\ i >= 4 /\ hostGuard < i /\ i \in Nat /\ p = toHost[i]
  <2>1. h - 1 - Len(queue) + 1 = i /\ 1 \in 1..Len(queue)
    BY <1>4, <1>5
  <2>2. queue[1] = toHost[i]
    BY <1>4, <2>1
  <2> QED BY <1>4, <1>5, <1>6, <2>2
<1>8. i = h - Len(queue)
  OBVIOUS
<1> HIDE DEF i, p
<1>9. p.sequence = i /\ p.session = token /\ p.kind \in SessionKinds /\ Accepts(p.kind, p.body)
  <2>1. FromClient(i, p)
    BY <1>0, <1>7 DEF ClientWrote
  <2>2. token = 1 /\ ~(i <= 3)
    BY <1>0, <1>3, <1>7 DEF Counted
  <2> QED BY <1>7, <2>1, <2>2 DEF FromClient
<1>10. /\ hostGuard' = i /\ refused' = refused
       /\ IF p.kind = "Ping" THEN HostWrites(Reply(<<"Pong">>, <<<<>>>>, token))
          ELSE UNCHANGED <<toClient, hostSequence>>
       /\ stage' = (IF p.kind = "SessionStop" THEN "stopped" ELSE stage)
  <2>1. p.sequence > hostGuard
    BY <1>4, <1>7, <1>9
  <2> QED BY <1>9, <2>1 DEF HandlePacket, p
<1>11. stage' \in {"session", "stopped"}
  BY <1>3, <1>10
<1>12. HostWrote' /\ Arrived' /\ ClientAt(c)'
  <2>1. CASE p.kind = "Ping"
    <3> DEFINE q == PacketOf("Pong", <<>>, hostSequence + 1, token)
    <3>1. HostWrites(<<q>>)
      BY <1>10, <2>1 DEF Reply
    <3>2. /\ q.kind = "Pong" /\ q.sequence = hostSequence + 1 /\ q.session = token
          /\ q.size \in PacketSizes /\ Accepts(q.kind, q.body)
      BY PacketFields, PlainPacket DEF Plain
    <3> HIDE DEF q
    <3> QED BY <1>2, <1>3, <1>11, <3>1, <3>2, HostWritesOne
  <2>2. CASE p.kind # "Ping"
    <3>1. toClient' = toClient /\ hostSequence' = hostSequence
      BY <1>10, <2>2
    <3>2. HostWrote'
      BY <1>0, <1>3, <1>11, <3>1 DEF HostWrote
    <3>3. Bytes(toHost)' = Bytes(toHost) /\ Bytes(toClient)' = Bytes(toClient)
          /\ Begin(toClient, c)' = Begin(toClient, c)
      BY <1>3, <3>1 DEF Bytes, Begin
    <3>4. Arrived'
      BY <1>0, <1>3, <3>3 DEF Arrived
    <3>5. ClientAt(c)'
      BY <1>2, <1>3, <3>1, <3>3 DEF ClientAt, clientVars
    <3> QED BY <3>2, <3>4, <3>5
  <2> QED BY <2>1, <2>2
<1>13. ClientWrote'
  BY <1>0, <1>3 DEF ClientWrote, clientVars
<1>14. Counted'
  BY <1>0, <1>3, <1>10, <1>11 DEF Counted
<1>15. Handled(h)'
  <2>1. /\ IsSequence(queue') /\ Len(queue') <= QueueCap /\ hostGuard' \in Nat
        /\ Len(queue') <= h - 4 /\ hostGuard' <= h - 1 - Len(queue')
    BY <1>3, <1>4, <1>5, <1>7, <1>8, <1>10, ControlAssumption
  <2>2. ASSUME NEW k \in 1..Len(queue') PROVE queue'[k] = toHost[h - 1 - Len(queue') + k]
    <3>1. k \in 1..Len(queue) - 1 /\ k + 1 \in 1..Len(queue)
          /\ h - 1 - Len(queue) + (k + 1) = h - 1 - Len(queue') + k
      BY <1>3, <1>4, <1>5
    <3> QED BY <1>3, <1>4, <1>5, <3>1
  <2> QED BY <1>3, <1>11, <2>1, <2>2 DEF Handled
<1>16. HostAt(h)'
  <2>1. Begin(toHost, h)' = Begin(toHost, h)
    BY <1>3 DEF Begin
  <2>2. ReaderAt(h)'
    BY <1>1, <1>3, <2>1 DEF HostAt, ReaderAt
  <2> QED BY <1>15, <2>2 DEF HostAt
<1> QED BY <1>12, <1>13, <1>14, <1>16 DEF ControlIInv

-----------------------------------------------------------------------------
(* The iPad's steps.                                                       *)

\* What the iPad may write next, with the token it then has.
Due(kind, session) ==
  \/ Len(toHost) = 1 /\ kind = "Pairing" /\ session = 0
  \/ Len(toHost) = 2 /\ kind = "DisplayCapabilities" /\ session = 0
  \/ Len(toHost) >= 3 /\ kind \in SessionKinds /\ session = 1

\* The iPad answers with one packet.
LEMMA ClientWritesOne ==
  ASSUME ClientWrote, Arrived, NEW h \in Nat, HostAt(h), NEW kind, NEW lengths,
         PacketSize(kind, lengths) \in PacketSizes, Accepts(kind, Write(kind, lengths)),
         Due(kind, clientToken'), ClientWrites(<<kind>>, <<lengths>>),
         UNCHANGED <<toClient, atHost, atClient, start, got, queue, stage, hostGuard>>
  PROVE  ClientWrote' /\ Arrived' /\ HostAt(h)' /\ Len(toHost') = Len(toHost) + 1
<1> DEFINE p == PacketOf(kind, lengths, clientSequence + 1, clientToken')
           t == <<p>>
<1>1. toHost' = toHost \o t /\ clientSequence' = clientSequence + Len(t)
  <2>1. [i \in DOMAIN <<kind>> |->
           PacketOf(<<kind>>[i], <<lengths>>[i], clientSequence + i, clientToken')] = t
    OBVIOUS
  <2>2. Len(<<kind>>) = 1 /\ Len(t) = 1
    OBVIOUS
  <2> QED BY <2>1, <2>2 DEF ClientWrites
<1>2. Len(toHost) \in Nat /\ clientSequence = Len(toHost)
  BY SequenceHas DEF ClientWrote, Sized
<1>3. p.kind = kind /\ p.sequence = Len(toHost) + 1 /\ p.session = clientToken'
      /\ p.size \in PacketSizes /\ Accepts(p.kind, p.body)
  BY <1>2, PacketFields
<1> HIDE DEF p
<1>4. FromClient(Len(toHost) + 1, p)
  <2>1. CASE Len(toHost) = 1 /\ kind = "Pairing" /\ clientToken' = 0
    <3>1. Len(toHost) + 1 = 2
      BY <2>1
    <3> QED BY <1>3, <2>1, <3>1 DEF FromClient
  <2>2. CASE Len(toHost) = 2 /\ kind = "DisplayCapabilities" /\ clientToken' = 0
    <3>1. Len(toHost) + 1 = 3
      BY <2>2
    <3> QED BY <1>3, <2>2, <3>1 DEF FromClient
  <2>3. CASE Len(toHost) >= 3 /\ kind \in SessionKinds /\ clientToken' = 1
    <3> DEFINE n == Len(toHost) + 1
    <3>1. n \in Nat /\ n >= 4 /\ p.sequence = n
      BY <1>2, <1>3, <2>3
    <3> HIDE DEF n
    <3>2. FromClient(n, p)
      BY <1>3, <2>3, <3>1 DEF FromClient
    <3> QED BY <3>2 DEF n
  <2> QED BY <2>1, <2>2, <2>3 DEF Due
<1>5. Sized(t) /\ Len(t) = 1 /\ t[1] = p
  BY <1>3, OnePacket
<1> HIDE DEF t
<1>6. \A i \in 1..Len(t) : FromClient(Len(toHost) + i, t[i])
  <2>1. \A i \in 1..Len(t) : i = 1
    BY <1>5
  <2> QED BY <1>4, <1>5, <2>1
<1>7. /\ ClientWrote' /\ Arrived' /\ Len(toHost') = Len(toHost) + Len(t)
      /\ \A n \in Nat : HostAt(n) => HostAt(n)'
  BY <1>1, <1>5, <1>6, ClientAppends
<1> QED BY <1>5, <1>7

\* The iPad answers with none.
LEMMA ClientWritesNone ==
  ASSUME ClientWrote, Arrived, NEW h \in Nat, HostAt(h), ClientSilent,
         UNCHANGED <<toClient, atHost, atClient, start, got, queue, stage, hostGuard>>
  PROVE  ClientWrote' /\ Arrived' /\ HostAt(h)' /\ Len(toHost') = Len(toHost)
<1>1. toHost' = toHost /\ clientSequence' = clientSequence
  BY DEF ClientSilent
<1>2. Bytes(toHost)' = Bytes(toHost) /\ Bytes(toClient)' = Bytes(toClient)
      /\ Begin(toHost, h)' = Begin(toHost, h)
  BY <1>1 DEF Bytes, Begin
<1>3. ClientWrote' /\ Arrived'
  BY <1>1, <1>2 DEF ClientWrote, Arrived
<1>4. HostAt(h)'
  BY <1>1, <1>2 DEF HostAt, ReaderAt, Handled
<1> QED BY <1>1, <1>3, <1>4

\* With a header's bytes to read, the parser is at a packet.
LEMMA PacketToParse ==
  ASSUME HostWrote, Arrived, NEW c \in Nat, ClientAt(c), parsed + Header <= atClient
  PROVE  /\ c \in 1..Len(toClient) /\ PacketAt(toClient, parsed) = {c}
         /\ (CHOOSE i \in PacketAt(toClient, parsed) : TRUE) = c
         /\ parsed \in Nat /\ toClient[c].size \in Nat
         /\ Begin(toClient, c + 1) = parsed + toClient[c].size /\ FromHost(c, toClient[c])
<1>1. Len(toClient) \in Nat
  BY SequenceHas DEF Sized, HostWrote
<1>2. c \in 1..Len(toClient) + 1 /\ parsed = Begin(toClient, c)
  BY DEF ClientAt
<1>3. parsed \in Nat
  BY <1>2, Offsets DEF HostWrote
<1>4. c # Len(toClient) + 1
  <2> SUFFICES ASSUME c = Len(toClient) + 1 PROVE FALSE
    OBVIOUS
  <2>1. parsed = Bytes(toClient)
    BY <1>2 DEF Bytes
  <2> QED BY <1>3, <2>1, HeaderIs DEF Arrived
<1>5. c \in 1..Len(toClient)
  BY <1>1, <1>2, <1>4
<1>6. /\ PacketAt(toClient, parsed) = {c}
      /\ (CHOOSE i \in PacketAt(toClient, parsed) : TRUE) = c
  BY <1>2, <1>5, Found DEF HostWrote
<1>7. Begin(toClient, c + 1) = parsed + toClient[c].size
  BY <1>2, <1>5, Offsets DEF HostWrote
<1>8. toClient[c].size \in Nat
  BY <1>5 DEF HostWrote, Sized, PacketSizes
<1> QED BY <1>3, <1>5, <1>6, <1>7, <1>8 DEF HostWrote

\* The iPad takes every packet of the host.
LEMMA HostIsAccepted ==
  ASSUME HostWrote, NEW c \in Nat, ClientAt(c), NEW p, FromHost(c, p), c >= 1
  PROVE  Acceptable(p) /\ (IF p.kind = "SessionStart" THEN p.session ELSE clientToken)
                            = (IF c + 1 <= 5 THEN 0 ELSE 1)
<1>1. p.sequence > lastSequence
  BY DEF ClientAt, FromHost, Number
<1>2. p.kind = "SessionStart" <=> c = 5
  <2>1. c = 1 \/ c = 2 \/ c = 3 \/ c = 4 \/ c = 5 \/ c = 6 \/ c >= 7
    OBVIOUS
  <2> QED BY <2>1 DEF FromHost
<1>3. p.kind = "VideoConfig" => c >= 7
  <2>1. c = 1 \/ c = 2 \/ c = 3 \/ c = 4 \/ c = 5 \/ c = 6 \/ c >= 7
    OBVIOUS
  <2> QED BY <2>1 DEF FromHost
<1>4. p.session = (IF c <= 4 THEN 0 ELSE 1) /\ clientToken = (IF c <= 5 THEN 0 ELSE 1)
  BY DEF FromHost, ClientAt
<1>5. p.kind = "SessionStart" => p.session # 0
  BY <1>2, <1>4
<1>6. p.kind # "SessionStart" => p.session = clientToken
  BY <1>2, <1>4
<1>7. configured <=> c >= 5
  BY DEF ClientAt
<1>8. (p.kind = "SessionStart" => configured) /\ (p.kind \in {"VideoConfig"} => configured)
  <2>1. (c = 5 => c >= 5) /\ (c >= 7 => c >= 5)
    OBVIOUS
  <2> QED BY <1>2, <1>3, <1>7, <2>1, Zenon
<1>9. Accepts(p.kind, p.body)
  BY DEF FromHost
<1>10. Acceptable(p)
  BY <1>1, <1>5, <1>6, <1>8, <1>9 DEF Acceptable
<1>11. (IF p.kind = "SessionStart" THEN p.session ELSE clientToken) = (IF c + 1 <= 5 THEN 0 ELSE 1)
  BY <1>2, <1>4
<1> QED BY <1>10, <1>11

\* The next packet of the host is parsed, accepted and handled.
LEMMA ClientParsesStep ==
  ASSUME ControlIInv, ClientParses
  PROVE  ControlIInv'
<1>0. Counted /\ ClientWrote /\ HostWrote /\ Arrived
  BY DEF ControlIInv
<1>1. PICK h \in Nat : HostAt(h)
  BY DEF ControlIInv
<1>2. PICK c \in Nat : ClientAt(c)
  BY DEF ControlIInv
<1>3. /\ UNCHANGED <<toClient, atHost, atClient, start, got, stage, hostSequence, hostGuard, token,
                     queue, configs, ticks>>
      /\ parsed + Header <= atClient
  BY DEF ClientParses, readerVars, hostVars
<1>4. /\ c \in 1..Len(toClient) /\ PacketAt(toClient, parsed) = {c}
      /\ (CHOOSE i \in PacketAt(toClient, parsed) : TRUE) = c
      /\ parsed \in Nat /\ toClient[c].size \in Nat
      /\ Begin(toClient, c + 1) = parsed + toClient[c].size /\ FromHost(c, toClient[c])
  BY <1>0, <1>2, <1>3, PacketToParse
<1> DEFINE p == toClient[c]
<1>5. /\ Acceptable(p)
      /\ (IF p.kind = "SessionStart" THEN p.session ELSE clientToken)
           = (IF c + 1 <= 5 THEN 0 ELSE 1)
  <2>1. c >= 1
    BY <1>4
  <2> QED BY <1>0, <1>2, <1>4, <2>1, HostIsAccepted
<1>6. /\ Whole(p) /\ parsed' = parsed + p.size /\ lastSequence' = p.sequence
      /\ clientToken' = (IF p.kind = "SessionStart" THEN p.session ELSE clientToken)
      /\ ClientHandles(p) /\ refused' = refused
  <2> DEFINE at == CHOOSE i \in PacketAt(toClient, parsed) : TRUE
             q == toClient[at]
  <2>1. PacketAt(toClient, parsed) # {}
    BY <1>4
  <2>2. at = c
    BY <1>4
  <2>3. Whole(q) /\ parsed' = parsed + q.size
        /\ IF Acceptable(q)
           THEN /\ lastSequence' = q.sequence
                /\ clientToken' = (IF q.kind = "SessionStart" THEN q.session ELSE clientToken)
                /\ ClientHandles(q) /\ UNCHANGED refused
           ELSE /\ refused' = refused \cup {"client"}
                /\ ClientSilent
                /\ UNCHANGED <<lastSequence, clientToken, configured, streaming>>
    BY <2>1, Zenon DEF ClientParses
  <2> HIDE DEF at
  <2>4. q = p
    BY <2>2
  <2> HIDE DEF q, p
  <2> QED BY <1>5, <2>3, <2>4, Zenon
<1>7. FromHost(c, p) /\ clientToken' = (IF c + 1 <= 5 THEN 0 ELSE 1)
  BY <1>4, <1>5, <1>6
<1>8. p.sequence = Number(c) /\ p.size \in Nat
  BY <1>4 DEF FromHost
<1> DEFINE Kept(n) == ClientWrote' /\ Arrived' /\ HostAt(h)' /\ Len(toHost') = Len(toHost) + n
<1>9. ClientSilent => Kept(0)
  <2>1. Len(toHost) \in Nat
    BY <1>0, SequenceHas DEF ClientWrote, Sized
  <2> QED BY <1>0, <1>1, <1>3, <2>1, ClientWritesNone
<1>10. ASSUME NEW kind, NEW lengths, PacketSize(kind, lengths) \in PacketSizes,
              Accepts(kind, Write(kind, lengths)), Due(kind, clientToken'),
              ClientWrites(<<kind>>, <<lengths>>)
       PROVE  Kept(1)
  BY <1>0, <1>1, <1>3, <1>10, ClientWritesOne
<1> HIDE DEF Kept, p
<1>11. /\ c <= 3 => Len(toHost) = 1
       /\ c = 4 => Len(toHost) = 2
       /\ c \in 5..7 => Len(toHost) = 3
       /\ c >= 8 => Len(toHost) >= 3
       /\ Len(toHost) \in Nat
  BY <1>0, <1>2, SequenceHas DEF ClientAt, ClientWrote, Sized
<1>12. /\ configured \in BOOLEAN /\ (configured <=> c >= 5)
       /\ streaming \in BOOLEAN /\ (streaming => c >= 8)
  BY <1>2, Zenon DEF ClientAt
<1>13. \/ ClientHandles(p) /\ ClientSilent /\ UNCHANGED <<configured, streaming>> /\ c # 3 /\ c # 4
       \/ /\ c = 3 /\ ClientWrites(<<"Pairing">>, <<<<32, 32, 0>>>>)
          /\ UNCHANGED <<configured, streaming>>
       \/ /\ c = 4 /\ ClientWrites(<<"DisplayCapabilities">>, <<<<>>>>)
          /\ configured' = TRUE /\ UNCHANGED streaming
       \/ /\ c >= 7 /\ ClientWrites(<<"KeyframeRequest">>, <<<<>>>>)
          /\ streaming' = TRUE /\ UNCHANGED configured
  <2>1. /\ p.kind = "Pairing" /\ p.body.lengths[2] = 0 => c = 3
        /\ p.kind = "Pairing" /\ p.body.lengths[2] # 0 => c = 4
        /\ p.kind = "VideoConfig" => c >= 7
        /\ p.kind # "Pairing" => c # 3 /\ c # 4
    <3>1. c = 1 \/ c = 2 \/ c = 3 \/ c = 4 \/ c = 5 \/ c = 6 \/ c >= 7
      BY <1>4
    <3> QED BY <1>7, <3>1 DEF FromHost
  <2>2. CASE /\ p.kind \in {"ProtocolVersion", "HostInfo", "EncoderCapabilities", "Pong"}
             /\ ClientSilent /\ UNCHANGED <<configured, streaming>>
    BY <1>6, <2>1, <2>2
  <2>3. CASE /\ p.kind = "Pairing" /\ p.body.lengths[2] = 0
             /\ ClientWrites(<<"Pairing">>, <<<<32, 32, 0>>>>)
             /\ UNCHANGED <<configured, streaming>>
    BY <2>1, <2>3
  <2>4. CASE /\ p.kind = "Pairing" /\ p.body.lengths[2] # 0
             /\ ClientWrites(<<"DisplayCapabilities">>, <<<<>>>>)
             /\ configured' = TRUE /\ UNCHANGED streaming
    BY <2>1, <2>4
  <2>5. CASE /\ p.kind = "SessionStart" /\ configured
             /\ ClientSilent /\ UNCHANGED <<configured, streaming>>
    BY <1>6, <2>1, <2>5
  <2>6. CASE /\ p.kind = "VideoConfig" /\ configured
             /\ ClientWrites(<<"KeyframeRequest">>, <<<<>>>>)
             /\ streaming' = TRUE /\ UNCHANGED configured
    BY <2>1, <2>6
  <2> QED BY <1>6, <2>2, <2>3, <2>4, <2>5, <2>6 DEF ClientHandles
<1> DEFINE Answered == /\ configured' \in BOOLEAN /\ (configured' <=> c + 1 >= 5)
                       /\ streaming' \in BOOLEAN /\ (streaming' => c + 1 >= 8)
                       /\ ClientWrote' /\ Arrived' /\ HostAt(h)'
                       /\ c + 1 <= 3 => Len(toHost') = 1
                       /\ c + 1 = 4 => Len(toHost') = 2
                       /\ c + 1 \in 5..7 => Len(toHost') = 3
                       /\ c + 1 >= 8 => Len(toHost') >= 3
<1>14. Answered
  <2>1. CASE ClientSilent /\ UNCHANGED <<configured, streaming>> /\ c # 3 /\ c # 4
    <3>1. Kept(0)
      BY <1>9, <2>1
    <3>2. ClientWrote' /\ Arrived' /\ HostAt(h)' /\ Len(toHost') = Len(toHost)
      BY <1>11, <3>1 DEF Kept
    <3>3. /\ c + 1 <= 3 => Len(toHost') = 1
          /\ c + 1 = 4 => Len(toHost') = 2
          /\ c + 1 \in 5..7 => Len(toHost') = 3
          /\ c + 1 >= 8 => Len(toHost') >= 3
      <4>1. c \in Nat /\ c >= 1
        BY <1>4
      <4>2. CASE c <= 2
        BY <1>11, <3>2, <4>1, <4>2
      <4>3. CASE c \in 5..6
        BY <1>11, <3>2, <4>3
      <4>4. CASE c >= 7
        <5>1. Len(toHost) >= 3
          <6>1. c \in 5..7 \/ c >= 8
            BY <4>1, <4>4
          <6> QED BY <1>11, <6>1
        <5> QED BY <3>2, <4>1, <4>4, <5>1
      <4> QED BY <2>1, <4>1, <4>2, <4>3, <4>4
    <3>4. (c + 1 >= 5 <=> c >= 5) /\ (c >= 8 => c + 1 >= 8)
      BY <1>4, <2>1
    <3>5. /\ configured' \in BOOLEAN /\ (configured' <=> c + 1 >= 5)
          /\ streaming' \in BOOLEAN /\ (streaming' => c + 1 >= 8)
      BY <1>12, <2>1, <3>4, Zenon
    <3> QED BY <3>2, <3>3, <3>5, Zenon
  <2>2. CASE /\ c = 3 /\ ClientWrites(<<"Pairing">>, <<<<32, 32, 0>>>>)
             /\ UNCHANGED <<configured, streaming>>
    <3>1. Kept(1)
      <4> DEFINE s == <<32, 32, 0>>
      <4>1. PacketSize("Pairing", s) \in PacketSizes /\ Accepts("Pairing", Write("Pairing", s))
        <5>1. 32 \in {0, 32} /\ 0 \in {0, 32}
          OBVIOUS
        <5> QED BY <5>1, PairingPacket
      <4>2. Due("Pairing", clientToken')
        BY <1>7, <1>11, <2>2 DEF Due
      <4>3. ClientWrites(<<"Pairing">>, <<s>>)
        BY <2>2
      <4> HIDE DEF s
      <4> QED BY <1>10, <4>1, <4>2, <4>3
    <3>2. ClientWrote' /\ Arrived' /\ HostAt(h)' /\ Len(toHost') = 2
      <4>1. Len(toHost) = 1
        BY <1>11, <2>2
      <4>2. ClientWrote' /\ Arrived' /\ HostAt(h)' /\ Len(toHost') = Len(toHost) + 1
        BY <3>1, Zenon DEF Kept
      <4> QED BY <4>1, <4>2
    <3>3. /\ c + 1 <= 3 => Len(toHost') = 1
          /\ c + 1 = 4 => Len(toHost') = 2
          /\ c + 1 \in 5..7 => Len(toHost') = 3
          /\ c + 1 >= 8 => Len(toHost') >= 3
      BY <2>2, <3>2
    <3>4. ~(c + 1 >= 5) /\ ~(c >= 5) /\ (c >= 8 => c + 1 >= 8)
      BY <2>2
    <3>5. /\ configured' \in BOOLEAN /\ (configured' <=> c + 1 >= 5)
          /\ streaming' \in BOOLEAN /\ (streaming' => c + 1 >= 8)
      BY <1>12, <2>2, <3>4, Zenon
    <3> QED BY <3>2, <3>3, <3>5, Zenon
  <2>3. CASE /\ c = 4 /\ ClientWrites(<<"DisplayCapabilities">>, <<<<>>>>)
             /\ configured' = TRUE /\ UNCHANGED streaming
    <3>1. Kept(1)
      <4>1. PacketSize("DisplayCapabilities", <<>>) \in PacketSizes
            /\ Accepts("DisplayCapabilities", Write("DisplayCapabilities", <<>>))
        BY PlainPacket DEF Plain
      <4>2. Due("DisplayCapabilities", clientToken')
        BY <1>7, <1>11, <2>3 DEF Due
      <4> QED BY <1>10, <2>3, <4>1, <4>2
    <3>2. ClientWrote' /\ Arrived' /\ HostAt(h)' /\ Len(toHost') = 3
      <4>1. Len(toHost) = 2
        BY <1>11, <2>3
      <4>2. ClientWrote' /\ Arrived' /\ HostAt(h)' /\ Len(toHost') = Len(toHost) + 1
        BY <3>1, Zenon DEF Kept
      <4> QED BY <4>1, <4>2
    <3>3. /\ c + 1 <= 3 => Len(toHost') = 1
          /\ c + 1 = 4 => Len(toHost') = 2
          /\ c + 1 \in 5..7 => Len(toHost') = 3
          /\ c + 1 >= 8 => Len(toHost') >= 3
      BY <2>3, <3>2
    <3>4. c + 1 >= 5 /\ (c >= 8 => c + 1 >= 8)
      BY <2>3
    <3>5. /\ configured' \in BOOLEAN /\ (configured' <=> c + 1 >= 5)
          /\ streaming' \in BOOLEAN /\ (streaming' => c + 1 >= 8)
      BY <1>12, <2>3, <3>4, Zenon
    <3> QED BY <3>2, <3>3, <3>5, Zenon
  <2>4. CASE /\ c >= 7 /\ ClientWrites(<<"KeyframeRequest">>, <<<<>>>>)
             /\ streaming' = TRUE /\ UNCHANGED configured
    <3>0. Len(toHost) >= 3
      <4>1. (c = 7 /\ c \in 5..7) \/ c >= 8
        BY <1>4, <2>4
      <4> QED BY <1>11, <4>1
    <3>1. Kept(1)
      <4>1. PacketSize("KeyframeRequest", <<>>) \in PacketSizes
            /\ Accepts("KeyframeRequest", Write("KeyframeRequest", <<>>))
        BY PlainPacket DEF Plain
      <4>2. Due("KeyframeRequest", clientToken')
        <5>1. clientToken' = 1
          BY <1>4, <1>7, <2>4
        <5> QED BY <3>0, <5>1 DEF Due, SessionKinds
      <4> QED BY <1>10, <2>4, <4>1, <4>2
    <3>2. ClientWrote' /\ Arrived' /\ HostAt(h)' /\ Len(toHost') >= 3
      <4>1. ClientWrote' /\ Arrived' /\ HostAt(h)' /\ Len(toHost') = Len(toHost) + 1
        BY <3>1, Zenon DEF Kept
      <4> QED BY <1>11, <3>0, <4>1
    <3>3. /\ c + 1 <= 3 => Len(toHost') = 1
          /\ c + 1 = 4 => Len(toHost') = 2
          /\ c + 1 \in 5..7 => Len(toHost') = 3
          /\ c + 1 >= 8 => Len(toHost') >= 3
      BY <1>4, <2>4, <3>2
    <3>4. c + 1 >= 5 /\ c + 1 >= 8 /\ c >= 5
      BY <1>4, <2>4
    <3>5. /\ configured' \in BOOLEAN /\ (configured' <=> c + 1 >= 5)
          /\ streaming' \in BOOLEAN /\ (streaming' => c + 1 >= 8)
      BY <1>12, <2>4, <3>4, Zenon
    <3> QED BY <3>2, <3>3, <3>5, Zenon
  <2> QED BY <1>13, <2>1, <2>2, <2>3, <2>4
<1>15. ClientAt(c + 1)' /\ c + 1 \in Nat
  <2>1. parsed' = Begin(toClient, c + 1) /\ parsed' <= atClient
    BY <1>4, <1>6 DEF Whole, p
  <2>2. Begin(toClient, c + 1)' = Begin(toClient, c + 1)
    BY <1>3 DEF Begin
  <2>3. c + 1 \in 1..Len(toClient) + 1 /\ c + 1 - 1 = c /\ c + 1 \in Nat
    <3>1. Len(toClient) \in Nat
      BY <1>0, SequenceHas DEF HostWrote, Sized
    <3> QED BY <1>4, <3>1
  <2>4. lastSequence' = Number(c + 1 - 1)
    BY <1>6, <1>8, <2>3
  <2> HIDE DEF p
  <2> DEFINE n == c + 1
  <2>5. /\ n \in 1..Len(toClient') + 1 /\ parsed' = Begin(toClient, n)' /\ parsed' <= atClient'
        /\ lastSequence' = Number(n - 1) /\ clientToken' = (IF n <= 5 THEN 0 ELSE 1)
        /\ n \in Nat
    BY <1>3, <1>7, <2>1, <2>2, <2>3, <2>4
  <2>6. /\ configured' \in BOOLEAN /\ (configured' <=> n >= 5)
        /\ streaming' \in BOOLEAN /\ (streaming' => n >= 8)
        /\ n <= 3 => Len(toHost') = 1
        /\ n = 4 => Len(toHost') = 2
        /\ n \in 5..7 => Len(toHost') = 3
        /\ n >= 8 => Len(toHost') >= 3
    BY <1>14, Zenon
  <2> HIDE DEF n
  <2>7. ClientAt(n)' /\ n \in Nat
    BY <2>5, <2>6, Zenon DEF ClientAt
  <2> QED BY <2>7 DEF n
<1>16. HostWrote'
  BY <1>0, <1>3 DEF HostWrote
<1>17. Counted'
  BY <1>0, <1>3, <1>6 DEF Counted
<1> QED BY <1>14, <1>15, <1>16, <1>17 DEF ControlIInv

\* What the iPad writes while it streams.
LEMMA ClientStreams ==
  ASSUME ControlIInv, streaming, NEW kinds, NEW n \in Nat, DOMAIN kinds = 1..n, Len(kinds) = n,
         \A i \in 1..n : kinds[i] \in SessionKinds \cap Plain,
         NEW lengths, \A i \in 1..n : lengths[i] = <<>>,
         ClientWrites(kinds, lengths), streaming' \in BOOLEAN, ticks' \in 0..MaxTicks,
         UNCHANGED <<parsed, lastSequence, clientToken, configured, toClient, atHost, atClient,
                     start, got, stage, hostSequence, hostGuard, token, queue, configs, refused>>
  PROVE  ControlIInv'
<1>0. Counted /\ ClientWrote /\ HostWrote /\ Arrived
  BY DEF ControlIInv
<1>1. PICK h \in Nat : HostAt(h)
  BY DEF ControlIInv
<1>2. PICK c \in Nat : ClientAt(c)
  BY DEF ControlIInv
<1>3. c >= 8 /\ clientToken = 1 /\ Len(toHost) >= 3 /\ Len(toHost) \in Nat
      /\ clientSequence = Len(toHost)
  <2>1. c >= 8
    BY <1>2, Zenon DEF ClientAt
  <2> QED BY <1>0, <1>2, <2>1, SequenceHas DEF ClientAt, ClientWrote, Sized
<1> DEFINE t == [i \in DOMAIN kinds |->
                   PacketOf(kinds[i], lengths[i], clientSequence + i, clientToken')]
<1>4. toHost' = toHost \o t /\ clientSequence' = clientSequence + Len(kinds)
  BY DEF ClientWrites
<1>5. \A i \in 1..n : /\ PacketSize(kinds[i], lengths[i]) \in PacketSizes
                      /\ Accepts(kinds[i], Write(kinds[i], lengths[i]))
  BY PlainPacket
<1>6. /\ Sized(t) /\ Len(t) = n
      /\ \A i \in 1..n : t[i] = PacketOf(kinds[i], lengths[i], clientSequence + i, clientToken')
  <2> DEFINE session == clientToken'
             base == clientSequence
             u == [i \in DOMAIN kinds |-> PacketOf(kinds[i], lengths[i], base + i, session)]
  <2> HIDE DEF session, base
  <2>1. DOMAIN kinds = 1..n /\ n \in Nat
        /\ \A i \in 1..n : PacketSize(kinds[i], lengths[i]) \in PacketSizes
    BY <1>5
  <2>2. /\ Sized(u) /\ Len(u) = n
        /\ \A i \in 1..n : u[i] = PacketOf(kinds[i], lengths[i], base + i, session)
    BY <2>1, Row, Zenon
  <2> QED BY <2>2 DEF session, base
<1> HIDE DEF t
<1>7. \A i \in 1..Len(t) : FromClient(Len(toHost) + i, t[i])
  <2> SUFFICES ASSUME NEW i \in 1..n PROVE FromClient(Len(toHost) + i, t[i])
    BY <1>6
  <2> DEFINE k == Len(toHost) + i
  <2>1. /\ t[i].kind = kinds[i] /\ t[i].sequence = clientSequence + i
        /\ t[i].session = clientToken' /\ t[i].size = PacketSize(kinds[i], lengths[i])
        /\ t[i].body = Write(kinds[i], lengths[i])
    BY <1>6, PacketFields
  <2>2. t[i].kind \in SessionKinds /\ t[i].size \in PacketSizes /\ Accepts(t[i].kind, t[i].body)
    BY <1>5, <2>1
  <2>3. k \in Nat /\ k >= 4 /\ t[i].sequence = k /\ t[i].session = 1
    BY <1>3, <2>1
  <2> HIDE DEF k
  <2>4. FromClient(k, t[i])
    BY <2>2, <2>3 DEF FromClient
  <2> QED BY <2>4 DEF k
<1>8. /\ ClientWrote' /\ Arrived' /\ Len(toHost') = Len(toHost) + Len(t)
      /\ \A k \in Nat : HostAt(k) => HostAt(k)'
  BY <1>0, <1>4, <1>6, <1>7, ClientAppends
<1>9. HostWrote' /\ Counted'
  BY <1>0 DEF HostWrote, Counted
<1>10. ClientAt(c)'
  <2>1. Begin(toClient, c)' = Begin(toClient, c)
    BY DEF Begin
  <2>2. Len(toHost') >= 3
    BY <1>3, <1>6, <1>8
  <2>3. ~(c <= 3) /\ c # 4 /\ c \notin 5..7
    BY <1>3
  <2>4. c \in 1..Len(toClient) + 1 /\ parsed = Begin(toClient, c) /\ parsed <= atClient
        /\ lastSequence = Number(c - 1) /\ clientToken = (IF c <= 5 THEN 0 ELSE 1)
        /\ configured \in BOOLEAN /\ (configured <=> c >= 5)
    BY <1>2, Zenon DEF ClientAt
  <2> QED BY <1>3, <2>1, <2>2, <2>3, <2>4, Zenon DEF ClientAt
<1> QED BY <1>1, <1>8, <1>9, <1>10 DEF ControlIInv

\* tick().
LEMMA ClientTicksStep ==
  ASSUME ControlIInv, ClientTicks
  PROVE  ControlIInv'
<1> DEFINE kinds == <<"Ping", "Statistics">>
           lengths == <<<<>>, <<>>>>
<1>1. /\ streaming /\ streaming' = streaming /\ ClientWrites(kinds, lengths)
      /\ UNCHANGED <<parsed, lastSequence, clientToken, configured, toClient, atHost, atClient,
                     start, got, stage, hostSequence, hostGuard, token, queue, configs, refused>>
  BY DEF ClientTicks, readerVars, hostVars
<1>2. ticks' \in 0..MaxTicks
  BY ControlAssumption DEF ClientTicks, ControlIInv, Counted
<1>3. streaming' \in BOOLEAN
  BY <1>1, Zenon DEF ControlIInv, ClientAt
<1> DEFINE n == 2
<1>4. DOMAIN kinds = 1..n /\ Len(kinds) = n /\ n \in Nat
  OBVIOUS
<1>5. /\ \A i \in 1..n : kinds[i] \in SessionKinds \cap Plain
      /\ \A i \in 1..n : lengths[i] = <<>>
  BY DEF SessionKinds, Plain
<1> HIDE DEF kinds, lengths, n
<1> QED BY <1>1, <1>2, <1>3, <1>4, <1>5, ClientStreams

\* disconnect().
LEMMA ClientStopsStep ==
  ASSUME ControlIInv, ClientStops
  PROVE  ControlIInv'
<1> DEFINE kinds == <<"SessionStop">>
           lengths == <<<<>>>>
<1>1. /\ streaming /\ streaming' = FALSE /\ ClientWrites(kinds, lengths) /\ ticks' = ticks
      /\ UNCHANGED <<parsed, lastSequence, clientToken, configured, toClient, atHost, atClient,
                     start, got, stage, hostSequence, hostGuard, token, queue, configs, refused>>
  BY DEF ClientStops, readerVars, hostVars
<1>2. ticks' \in 0..MaxTicks /\ streaming' \in BOOLEAN
  BY <1>1 DEF ControlIInv, Counted
<1> DEFINE n == 1
<1>3. DOMAIN kinds = 1..n /\ Len(kinds) = n /\ n \in Nat
  OBVIOUS
<1>4. /\ \A i \in 1..n : kinds[i] \in SessionKinds \cap Plain
      /\ \A i \in 1..n : lengths[i] = <<>>
  BY DEF SessionKinds, Plain
<1> HIDE DEF kinds, lengths, n
<1> QED BY <1>1, <1>2, <1>3, <1>4, ClientStreams

\* Every step of the stream keeps the invariant.
LEMMA ControlStep == ControlIInv /\ [ControlNext]_controlVars => ControlIInv'
<1> SUFFICES ASSUME ControlIInv, [ControlNext]_controlVars PROVE ControlIInv'
  OBVIOUS
<1>1. CASE ArriveAtHost \/ ArriveAtClient
  BY <1>1, ArriveStep
<1>2. CASE ReadSome
  BY <1>2, ReadStepKeeps
<1>3. CASE Greet
  BY <1>3, GreetStep
<1>4. CASE Prove
  BY <1>4, ProveStep
<1>5. CASE StartSession
  BY <1>5, StartSessionStep
<1>6. CASE Enqueue
  BY <1>6, EnqueueStep
<1>7. CASE SendConfig
  BY <1>7, SendConfigStep
<1>8. CASE HandlePacket
  BY <1>8, HandlePacketStep
<1>9. CASE ClientParses
  BY <1>9, ClientParsesStep
<1>10. CASE ClientTicks
  BY <1>10, ClientTicksStep
<1>11. CASE ClientStops
  BY <1>11, ClientStopsStep
<1>12. CASE UNCHANGED controlVars
  <2>1. UNCHANGED <<toHost, toClient, atHost, atClient, start, got, stage, hostSequence, hostGuard,
                    token, queue, parsed, clientSequence, lastSequence, clientToken, configured,
                    streaming, configs, ticks, refused>>
    BY <1>12 DEF controlVars, wire, readerVars, hostVars, clientVars
  <2>2. Counted' /\ ClientWrote' /\ HostWrote'
    BY <2>1 DEF Counted, ClientWrote, HostWrote, ControlIInv
  <2>3. Bytes(toHost)' = Bytes(toHost) /\ Bytes(toClient)' = Bytes(toClient)
    BY <2>1 DEF Bytes, Begin
  <2>4. Arrived'
    BY <2>1, <2>3 DEF Arrived, ControlIInv
  <2>5. PICK h \in Nat : HostAt(h)
    BY DEF ControlIInv
  <2>6. PICK c \in Nat : ClientAt(c)
    BY DEF ControlIInv
  <2>7. Begin(toHost, h)' = Begin(toHost, h) /\ Begin(toClient, c)' = Begin(toClient, c)
    BY <2>1 DEF Begin
  <2>8. HostAt(h)'
    BY <2>1, <2>5, <2>7 DEF HostAt, ReaderAt, Handled
  <2>9. ClientAt(c)'
    BY <2>1, <2>6, <2>7 DEF ClientAt
  <2> QED BY <2>2, <2>4, <2>8, <2>9 DEF ControlIInv
<1> QED BY <1>1, <1>2, <1>3, <1>4, <1>5, <1>6, <1>7, <1>8, <1>9, <1>10, <1>11, <1>12
        DEF ControlNext

\* The invariant holds all the time.
LEMMA ControlInvariant == ControlSafety => []ControlIInv
<1> QED BY ControlStart, ControlStep, PTL DEF ControlSafety

\* It has the types in it.
LEMMA ControlIInvTyped == ControlIInv => ControlTypeOK
<1> SUFFICES ASSUME ControlIInv PROVE ControlTypeOK
  OBVIOUS
<1>0. Counted /\ ClientWrote /\ HostWrote /\ Arrived
  BY DEF ControlIInv
<1>1. PICK h \in Nat : HostAt(h)
  BY DEF ControlIInv
<1>2. PICK c \in Nat : ClientAt(c)
  BY DEF ControlIInv
<1>3. 0 <= atHost /\ atHost <= Bytes(toHost) /\ 0 <= atClient /\ atClient <= Bytes(toClient)
  BY <1>0 DEF Arrived
<1>4. start + got <= atHost /\ Len(queue) <= QueueCap
  BY <1>1 DEF HostAt, ReaderAt, Handled
<1>5. parsed <= atClient /\ clientToken \in 0..1
  BY <1>2 DEF ClientAt
<1>6. configured \in BOOLEAN /\ streaming \in BOOLEAN
  BY <1>2, Zenon DEF ClientAt
<1>7. \A i \in DOMAIN toHost : toHost[i].size <= MaxControl
  <2> SUFFICES ASSUME NEW i \in DOMAIN toHost PROVE toHost[i].size <= MaxControl
    OBVIOUS
  <2>1. toHost[i].size \in PacketSizes
    BY <1>0, SequenceHas DEF ClientWrote, Sized
  <2> QED BY <2>1, SMT DEF PacketSizes, MaxControl
<1>8. /\ stage \in {"hello", "proof", "capabilities", "session", "stopped"} /\ token \in 0..1
      /\ configs \in 0..MaxConfigs /\ ticks \in 0..MaxTicks
  BY <1>0 DEF Counted
<1> QED BY <1>3, <1>4, <1>5, <1>6, <1>7, <1>8, Zenon DEF ControlTypeOK

\* The bytes each side has are bytes that were written, the queue and the packets are no
\* larger than the code allows, whatever the pieces and the order in which tasks run.
THEOREM ControlTyped == ControlSafety => []ControlTypeOK
<1> QED BY ControlInvariant, ControlIInvTyped, PTL

\* Two honest sides never refuse each other's packets: neither the framing, the sequence
\* number, the session token nor the length of any packet is wrong for its reader, for any
\* queue, any number of encoders and any pieces the bytes come in.
THEOREM HonestSidesAgree == ControlSafety => []NothingRefused
<1>1. ControlIInv => NothingRefused
  BY DEF ControlIInv, Counted, NothingRefused
<1> QED BY <1>1, ControlInvariant, PTL
=============================================================================
