----------------------------- MODULE FileProofs -----------------------------
(***************************************************************************)
(* The files of the storage network: how they are cut for the upload, for  *)
(* every size and every chunk, segment and fragment size, and downloads,   *)
(* for every number of callers, roots, segments and nodes.                 *)
(***************************************************************************)
EXTENDS Downloader, StorageFile, SequenceLemmas, FiniteSetTheorems


----------------------------------------------------------------------------
(* Files as they are cut.  How often a unit fits, begun units counted.     *)
LEMMA SplitsAre ==
    ASSUME NEW total \in Nat, NEW unit \in Nat \ {0}
    PROVE  /\ NumSplits(total, unit) \in Nat
           /\ total = 0 => NumSplits(total, unit) = 0
           /\ total # 0 => NumSplits(total, unit) # 0
           /\ total <= NumSplits(total, unit) * unit
           /\ total # 0 => (NumSplits(total, unit) - 1) * unit < total
<1>1. CASE total = 0
  <2>1. (0 - 1) \div unit = -1
    OBVIOUS
  <2>2. NumSplits(total, unit) = 0
    BY <1>1, <2>1 DEF NumSplits
  <2>3. QED
    BY <1>1, <2>2
<1>2. CASE total # 0
  <2>1. PICK x \in Nat : x = total - 1
    BY <1>2
  <2>2. PICK q, r : /\ q = x \div unit /\ r = x % unit /\ q \in Nat
                    /\ r \in 0 .. unit - 1 /\ x = unit * q + r
    <3>1. x % unit \in 0 .. unit - 1 /\ x \div unit \in Nat
          /\ x = unit * (x \div unit) + (x % unit)
      BY ModRange, Zenon
    <3>2. QED
      BY <3>1
  <2>3. NumSplits(total, unit) = q + 1
    BY <2>1, <2>2 DEF NumSplits
  <2>4. unit * q \in Nat /\ q * unit = unit * q /\ (q + 1) * unit = unit * q + unit
    BY <2>2
  <2>5. total = unit * q + r + 1
    <3>1. total = x + 1
      BY <2>1
    <3>2. QED
      BY <2>2, <3>1
  <2>6. total <= (q + 1) * unit /\ q * unit < total
    BY <2>2, <2>4, <2>5
  <2>7. QED
    BY <1>2, <2>2, <2>3, <2>6
<1>3. QED
  BY <1>1, <1>2

(* Multiples are ordered as what is multiplied.                            *)
LEMMA TimesOrders ==
    ASSUME NEW u \in Nat \ {0}, NEW a \in Int, NEW b \in Int
    PROVE  a * u < b * u <=> a < b
<1>1. CASE a < b
  <2>1. u * (b - a) >= u
    BY <1>1, TimesGrows
  <2>2. u * (b - a) = u * b - u * a
    BY Distributes
  <2>3. u * b \in Int /\ u * a \in Int /\ u * b = b * u /\ u * a = a * u
    OBVIOUS
  <2>4. QED
    BY <1>1, <2>1, <2>2, <2>3
<1>2. CASE a = b
  BY <1>2
<1>3. CASE b < a
  <2>1. u * (a - b) >= u
    BY <1>3, TimesGrows
  <2>2. u * (a - b) = u * a - u * b
    BY Distributes
  <2>3. u * b \in Int /\ u * a \in Int /\ u * b = b * u /\ u * a = a * u
    OBVIOUS
  <2>4. QED
    BY <1>3, <2>1, <2>2, <2>3
<1>4. QED
  BY <1>1, <1>2, <1>3

(* How many units there are of what is a number of units.                  *)
LEMMA UnitsAre ==
    ASSUME NEW u \in Nat \ {0}, NEW a \in Nat
    PROVE  (a * u) \div u = a
<1>1. PICK x : x = a * u /\ x \in Nat
  OBVIOUS
<1>2. PICK q, r : /\ q = x \div u /\ r = x % u /\ q \in Nat
                  /\ r \in 0 .. u - 1 /\ x = u * q + r
  <2>1. x % u \in 0 .. u - 1 /\ x \div u \in Nat /\ x = u * (x \div u) + (x % u)
    BY <1>1, ModRange, Zenon
  <2>2. QED
    BY <2>1
<1>3. q * u = u * q /\ q * u \in Nat /\ (q + 1) * u = q * u + u
  BY <1>2
<1>4. q * u <= a * u /\ a * u < (q + 1) * u
  BY <1>1, <1>2, <1>3
<1>5. a < q + 1
  BY <1>2, <1>4, TimesOrders
<1>6. ~(a < q)
  <2>1. a < q => a * u < q * u
    BY <1>2, TimesOrders
  <2>2. a * u \in Nat
    OBVIOUS
  <2>3. QED
    BY <1>3, <1>4, <2>1, <2>2
<1>7. QED
  BY <1>1, <1>2, <1>5, <1>6

(* The powers of two by their exponents.                                   *)
Two == [k \in 0 .. 30 |-> 2 ^ k]

LEMMA TwoIs ==
    /\ Two \in [0 .. 30 -> Nat \ {0}] /\ Two[0] = 1
    /\ \A k \in 0 .. 29 : Two[k + 1] = 2 * Two[k]
    /\ Powers = {Two[k] : k \in 0 .. 30}
<1>1. /\ 2 ^ 0 = 1 /\ 2 ^ 1 = 2 /\ 2 ^ 2 = 4 /\ 2 ^ 3 = 8
      /\ 2 ^ 4 = 16 /\ 2 ^ 5 = 32 /\ 2 ^ 6 = 64 /\ 2 ^ 7 = 128
      /\ 2 ^ 8 = 256 /\ 2 ^ 9 = 512 /\ 2 ^ 10 = 1024 /\ 2 ^ 11 = 2048
      /\ 2 ^ 12 = 4096 /\ 2 ^ 13 = 8192 /\ 2 ^ 14 = 16384 /\ 2 ^ 15 = 32768
      /\ 2 ^ 16 = 65536 /\ 2 ^ 17 = 131072 /\ 2 ^ 18 = 262144 /\ 2 ^ 19 = 524288
      /\ 2 ^ 20 = 1048576 /\ 2 ^ 21 = 2097152 /\ 2 ^ 22 = 4194304 /\ 2 ^ 23 = 8388608
      /\ 2 ^ 24 = 16777216 /\ 2 ^ 25 = 33554432 /\ 2 ^ 26 = 67108864 /\ 2 ^ 27 = 134217728
      /\ 2 ^ 28 = 268435456 /\ 2 ^ 29 = 536870912 /\ 2 ^ 30 = 1073741824
  OBVIOUS
<1>2. \A k \in 0 .. 30 : Two[k] = 2 ^ k
  BY DEF Two
<1>3. /\ Two[0] = 1 /\ Two[1] = 2 /\ Two[2] = 4 /\ Two[3] = 8
      /\ Two[4] = 16 /\ Two[5] = 32 /\ Two[6] = 64 /\ Two[7] = 128
      /\ Two[8] = 256 /\ Two[9] = 512 /\ Two[10] = 1024 /\ Two[11] = 2048
      /\ Two[12] = 4096 /\ Two[13] = 8192 /\ Two[14] = 16384 /\ Two[15] = 32768
      /\ Two[16] = 65536 /\ Two[17] = 131072 /\ Two[18] = 262144 /\ Two[19] = 524288
      /\ Two[20] = 1048576 /\ Two[21] = 2097152 /\ Two[22] = 4194304 /\ Two[23] = 8388608
      /\ Two[24] = 16777216 /\ Two[25] = 33554432 /\ Two[26] = 67108864 /\ Two[27] = 134217728
      /\ Two[28] = 268435456 /\ Two[29] = 536870912 /\ Two[30] = 1073741824
  BY <1>1, <1>2
<1>4. \A k \in 0 .. 29 : Two[k + 1] = 2 * Two[k]
  <2>1. ASSUME NEW k \in 0 .. 29 PROVE Two[k + 1] = 2 * Two[k]
    <3>1. \/ k = 0 \/ k = 1 \/ k = 2 \/ k = 3 \/ k = 4 \/ k = 5 \/ k = 6 \/ k = 7
          \/ k = 8 \/ k = 9 \/ k = 10 \/ k = 11 \/ k = 12 \/ k = 13 \/ k = 14
          \/ k = 15 \/ k = 16 \/ k = 17 \/ k = 18 \/ k = 19 \/ k = 20 \/ k = 21
          \/ k = 22 \/ k = 23 \/ k = 24 \/ k = 25 \/ k = 26 \/ k = 27 \/ k = 28
          \/ k = 29
      OBVIOUS
    <3>2. QED
      BY <1>3, <3>1
  <2>2. QED
    BY <2>1
<1>5. \A k \in 0 .. 30 : Two[k] \in Nat \ {0}
  <2>1. ASSUME NEW k \in 0 .. 30 PROVE Two[k] \in Nat \ {0}
    <3>1. \/ k = 0 \/ k = 1 \/ k = 2 \/ k = 3 \/ k = 4 \/ k = 5 \/ k = 6 \/ k = 7
          \/ k = 8 \/ k = 9 \/ k = 10 \/ k = 11 \/ k = 12 \/ k = 13 \/ k = 14
          \/ k = 15 \/ k = 16 \/ k = 17 \/ k = 18 \/ k = 19 \/ k = 20 \/ k = 21
          \/ k = 22 \/ k = 23 \/ k = 24 \/ k = 25 \/ k = 26 \/ k = 27 \/ k = 28
          \/ k = 29 \/ k = 30
      OBVIOUS
    <3>2. QED
      BY <1>3, <3>1
  <2>2. QED
    BY <2>1
<1>6. Two \in [0 .. 30 -> Nat \ {0}]
  BY <1>5 DEF Two
<1>7. Powers = {Two[k] : k \in 0 .. 30}
  BY <1>2 DEF Powers
<1>8. QED
  BY <1>3, <1>4, <1>6, <1>7

LEMMA TwoGrows ==
    \A j, k \in 0 .. 30 : j < k => Two[j] < Two[k]
<1> SUFFICES ASSUME NEW j \in 0 .. 30, NEW k \in 0 .. 30, j < k
             PROVE  Two[j] < Two[k]
  OBVIOUS
<1> DEFINE Fails == {m \in Nat : m \in 0 .. 30 /\ j < m /\ ~(Two[j] < Two[m])}
<1>1. ASSUME Fails # {} PROVE FALSE
  <2>1. PICK m \in Fails : \A x \in Fails : m <= x
    BY <1>1, Least
  <2>2. PICK l : l = m - 1 /\ l \in 0 .. 29 /\ m = l + 1
    OBVIOUS
  <2>3. l = j \/ (j < l /\ Two[j] < Two[l])
    <3>1. l \notin Fails
      BY <2>1, <2>2
    <3>2. QED
      BY <2>2, <3>1
  <2>4. Two[m] = 2 * Two[l] /\ Two[l] \in Nat \ {0} /\ Two[j] \in Nat \ {0}
    <3>1. Two[l + 1] = 2 * Two[l] /\ l \in 0 .. 30
      BY <2>2, TwoIs
    <3>2. QED
      BY <2>2, <3>1, TwoIs
  <2>5. Two[j] < Two[m]
    BY <2>3, <2>4
  <2>6. QED
    BY <2>5
<1>2. QED
  BY <1>1

LEMMA PowersAreNumbers ==
    /\ \A k \in 0 .. 30 : 2 ^ k \in Nat \ {0}
    /\ Powers \subseteq Nat \ {0} /\ 2 ^ 30 \in Powers
<1>1. \A k \in 0 .. 30 : Two[k] = 2 ^ k /\ Two[k] \in Nat \ {0}
  BY TwoIs DEF Two
<1>2. \A k \in 0 .. 30 : 2 ^ k \in Nat \ {0}
  BY <1>1
<1>3. QED
  BY <1>2 DEF Powers

(* The next power of two is at least as much, and so is a padded number.   *)
LEMMA NextPow2Is ==
    ASSUME NEW n \in Nat, n <= 2 ^ 30
    PROVE  /\ NextPow2(n) \in Nat /\ NextPow2(n) >= n
           /\ n # 0 => NextPow2(n) \in Powers
<1>1. CASE n = 0
  BY <1>1 DEF NextPow2
<1>2. CASE n # 0
  <2>1. PICK P : P = {p \in Powers : p >= n}
    OBVIOUS
  <2>2. P \in SUBSET Nat /\ P # {}
    <3>1. 2 ^ 30 \in Powers /\ Powers \subseteq Nat
      BY PowersAreNumbers
    <3>2. 2 ^ 30 \in P
      BY <2>1, <3>1
    <3>3. QED
      BY <2>1, <3>1, <3>2
  <2>3. PICK d \in P : \A e \in P : d <= e
    BY <2>2, Least
  <2>4. Min(P) \in P
    BY <2>3 DEF Min
  <2>5. NextPow2(n) = Min(P)
    BY <1>2, <2>1 DEF NextPow2
  <2>6. QED
    BY <2>1, <2>2, <2>4, <2>5
<1>3. QED
  BY <1>1, <1>2

LEMMA PaddedIs ==
    ASSUME NEW n \in Nat, n <= 2 ^ 30
    PROVE  PaddedChunks(n) \in Nat /\ n <= PaddedChunks(n)
<1>1. PICK p \in Nat : p = NextPow2(n) /\ p >= n
  BY NextPow2Is
<1>2. CASE p = n
  BY <1>1, <1>2 DEF PaddedChunks
<1>3. CASE p # n
  <2>1. PICK m : m = IF p >= 16 THEN p \div 16 ELSE 1
    OBVIOUS
  <2>2. m \in Nat \ {0}
    BY <1>1, <2>1
  <2>3. PaddedChunks(n) = NumSplits(n, m) * m
    BY <1>1, <1>3, <2>1 DEF PaddedChunks
  <2>4. NumSplits(n, m) \in Nat /\ n <= NumSplits(n, m) * m
    BY <2>2, SplitsAre
  <2>5. QED
    BY <2>2, <2>3, <2>4
<1>4. QED
  BY <1>2, <1>3

(* It is at most the next power of two.                                    *)
LEMMA PaddedUpTo ==
    ASSUME NEW n \in Nat, n <= 2 ^ 30
    PROVE  PaddedChunks(n) <= 2 ^ 30
<1>1. PICK p \in Nat : p = NextPow2(n) /\ p >= n /\ (n # 0 => p \in Powers)
  BY NextPow2Is
<1>2. PICK top : top = 2 ^ 30 /\ top = Two[30] /\ top \in Nat /\ n <= top
  BY TwoIs DEF Two
<1>3. CASE p = n
  BY <1>1, <1>2, <1>3 DEF PaddedChunks
<1>4. CASE p # n
  <2>1. PICK q : q = IF p >= 16 THEN p \div 16 ELSE 1
    OBVIOUS
  <2>2. n # 0
    <3>1. n = 0 => NextPow2(n) = 0
      BY DEF NextPow2
    <3>2. QED
      BY <1>1, <1>4, <3>1
  <2>3. PICK k \in 0 .. 30 : p = Two[k]
    BY <1>1, <2>2, TwoIs
  <2>4. p <= top
    <3>1. k = 30 \/ Two[k] < Two[30]
      BY TwoGrows
    <3>2. QED
      BY <1>1, <1>2, <2>3, <3>1
  <2>5. q \in Nat \ {0} /\ n <= q * 16 /\ q * NumSplits(n, q) = NumSplits(n, q) * q
        /\ (p >= 16 => p = q * 16) /\ (p < 16 => q = 1)
    <3>1. Two[4] = 16
      BY TwoIs
    <3>2. p >= 16 => p = (p \div 16) * 16
      <4>1. CASE k < 4
        <5>1. Two[k] < Two[4]
          BY <4>1, TwoGrows
        <5>2. QED
          BY <1>1, <2>3, <3>1, <5>1
      <4>2. CASE k >= 4
        <5>1. PICK j \in 0 .. 26 : k = j + 4
          <6>1. k - 4 \in 0 .. 26 /\ k = (k - 4) + 4
            BY <4>2
          <6>2. QED
            BY <6>1
        <5>2. PICK x : x = Two[j] /\ x \in Nat
          BY TwoIs
        <5>3. Two[j + 4] = x * 16
          <6>1. /\ j \in 0 .. 29 /\ j + 1 \in 0 .. 29 /\ j + 2 \in 0 .. 29
                /\ j + 3 \in 0 .. 29
                /\ (j + 1) + 1 = j + 2 /\ (j + 2) + 1 = j + 3 /\ (j + 3) + 1 = j + 4
            OBVIOUS
          <6>2. \A i \in 0 .. 29 : Two[i + 1] = 2 * Two[i]
            BY TwoIs
          <6>3. Two[j + 1] = 2 * x
            BY <5>2, <6>1, <6>2
          <6>4. Two[j + 2] = 2 * Two[j + 1] /\ Two[j + 3] = 2 * Two[j + 2]
                /\ Two[j + 4] = 2 * Two[j + 3]
            BY <6>1, <6>2
          <6>5. QED
            BY <5>2, <6>3, <6>4
        <5>4. p = x * 16
          BY <2>3, <5>1, <5>3
        <5>5. (x * 16) \div 16 = x
          BY <5>2, UnitsAre
        <5>6. QED
          BY <5>4, <5>5
      <4>3. QED
        BY <4>1, <4>2
    <3>3. CASE p >= 16
      <4>1. p = q * 16
        BY <2>1, <3>2, <3>3
      <4>2. q \in Nat
        BY <1>1, <2>1
      <4>3. q # 0
        BY <3>3, <4>1
      <4>4. NumSplits(n, q) \in Nat
        BY <4>2, <4>3, SplitsAre
      <4>5. QED
        BY <1>1, <3>3, <4>1, <4>2, <4>3, <4>4
    <3>4. CASE p < 16
      <4>1. q = 1
        BY <1>1, <2>1, <3>4
      <4>2. NumSplits(n, q) \in Nat
        BY <4>1, SplitsAre
      <4>3. QED
        BY <1>1, <3>4, <4>1, <4>2
    <3>5. QED
      BY <1>1, <3>3, <3>4
  <2>6. PICK s : s = NumSplits(n, q) /\ s \in Nat \ {0} /\ (s - 1) * q < n
    BY <2>2, <2>5, SplitsAre
  <2>7. s * q <= top
    <3>1. PICK y : y = (s - 1) * q /\ y \in Int /\ y < n /\ s * q = y + q
      BY <2>5, <2>6
    <3>2. CASE p >= 16
      <4>1. s - 1 < 16
        <5>1. (s - 1) * q < 16 * q
          BY <1>1, <2>5, <3>1, <3>2
        <5>2. s - 1 \in Int /\ 16 \in Int
          BY <2>6
        <5>3. QED
          BY <2>5, <5>1, <5>2, TimesOrders
      <4>2. s * q <= 16 * q
        <5>1. s = 16 \/ s < 16
          BY <2>6, <4>1
        <5>2. s < 16 => s * q < 16 * q
          BY <2>5, <2>6, TimesOrders
        <5>3. s * q \in Int /\ 16 * q \in Int
          BY <2>5, <2>6
        <5>4. QED
          BY <5>1, <5>2, <5>3
      <4>3. 16 * q = p
        BY <2>5, <3>2
      <4>4. s * q \in Int
        BY <2>5, <2>6
      <4>5. QED
        BY <1>1, <1>2, <2>4, <4>2, <4>3, <4>4
    <3>3. CASE p < 16
      BY <1>1, <1>2, <2>4, <2>5, <3>1, <3>3
    <3>4. QED
      BY <1>1, <3>2, <3>3
  <2>8. PaddedChunks(n) = s * q
    BY <1>1, <1>4, <2>1, <2>6 DEF PaddedChunks
  <2>9. QED
    BY <1>2, <2>7, <2>8
<1>5. QED
  BY <1>3, <1>4

(* The numbers of a file's chunks, segments and chunks with the padding.   *)
Cut(c, n, p) ==
    /\ c = NumChunks /\ n = NumSegments /\ p = PaddedChunks(NumChunks)
    /\ c \in Nat /\ n \in Nat /\ p \in Nat /\ c <= p
    /\ c <= n * SEGMENT /\ (n # 0 => (n - 1) * SEGMENT < c)
    /\ \A k \in Nat : k * CHUNK < size <=> k < c

LEMMA FileIsCut ==
    ASSUME size \in Sizes PROVE \E c, n, p : Cut(c, n, p)
<1>1. size \in Nat /\ CHUNK \in Nat \ {0} /\ SEGMENT \in Nat \ {0}
      /\ NumSplits(size, CHUNK) <= 2 ^ 30
  BY StorageFileAssumption
<1>2. PICK c : c = NumChunks
  OBVIOUS
<1>3. /\ c \in Nat /\ c <= 2 ^ 30 /\ size <= c * CHUNK
      /\ (size = 0 => c = 0)
      /\ (size # 0 => c # 0 /\ (c - 1) * CHUNK < size)
  BY <1>1, <1>2, SplitsAre DEF NumChunks
<1>4. PICK p \in Nat : p = PaddedChunks(NumChunks) /\ c <= p
  BY <1>2, <1>3, PaddedIs
<1>5. PICK n : n = NumSegments
  OBVIOUS
<1>6. PICK u : u = CHUNK * SEGMENT /\ u \in Nat \ {0}
  BY <1>1
<1>7. /\ n \in Nat /\ size <= n * u
      /\ (size = 0 => n = 0)
      /\ (size # 0 => n # 0 /\ (n - 1) * u < size)
  BY <1>1, <1>5, <1>6, SplitsAre DEF NumSegments
<1>8. \A k \in Nat : k * CHUNK < size <=> k < c
  <2>1. ASSUME NEW k \in Nat, k < c PROVE k * CHUNK < size
    <3>1. size # 0 /\ k <= c - 1
      BY <1>3, <2>1
    <3>2. (c - 1) * CHUNK < size
      BY <1>3, <3>1
    <3>3. k = c - 1 \/ k * CHUNK < (c - 1) * CHUNK
      <4>1. c - 1 \in Int
        BY <1>3
      <4>2. k < c - 1 => k * CHUNK < (c - 1) * CHUNK
        BY <1>1, <4>1, TimesOrders
      <4>3. QED
        BY <1>3, <3>1, <4>2
    <3>4. k * CHUNK \in Int /\ (c - 1) * CHUNK \in Int
      BY <1>1, <1>3
    <3>5. QED
      BY <1>1, <3>2, <3>3, <3>4
  <2>2. ASSUME NEW k \in Nat, k * CHUNK < size PROVE k < c
    <3>1. k * CHUNK < c * CHUNK
      <4>1. k * CHUNK \in Int /\ c * CHUNK \in Int
        BY <1>1, <1>3
      <4>2. QED
        BY <1>1, <1>3, <2>2, <4>1
    <3>2. QED
      BY <1>1, <1>3, <3>1, TimesOrders
  <2>3. QED
    BY <2>1, <2>2
<1>9. \A k \in Int : k * u = (k * SEGMENT) * CHUNK
  BY <1>1, <1>6
<1>10. c <= n * SEGMENT
  <2>1. n * SEGMENT \in Nat /\ n * u = (n * SEGMENT) * CHUNK
    BY <1>1, <1>7, <1>9
  <2>2. ~((n * SEGMENT) * CHUNK < size)
    <3>1. (n * SEGMENT) * CHUNK \in Int
      BY <1>1, <2>1
    <3>2. QED
      BY <1>1, <1>7, <2>1, <3>1
  <2>3. ~(n * SEGMENT < c)
    BY <1>8, <2>1, <2>2
  <2>4. QED
    BY <1>3, <2>1, <2>3
<1>11. ASSUME n # 0 PROVE (n - 1) * SEGMENT < c
  <2>1. size # 0
    BY <1>7, <1>11
  <2>2. (n - 1) * u < size
    BY <1>7, <2>1
  <2>3. n - 1 \in Nat /\ (n - 1) * SEGMENT \in Nat
    BY <1>1, <1>7, <1>11
  <2>4. ((n - 1) * SEGMENT) * CHUNK < size
    BY <1>9, <2>2, <2>3
  <2>5. QED
    BY <1>8, <2>3, <2>4
<1>12. Cut(c, n, p)
  BY <1>2, <1>3, <1>4, <1>5, <1>7, <1>8, <1>10, <1>11 DEF Cut
<1>13. QED
  BY <1>12

LEMMA MinOfTwo ==
    \A x, y \in Int : Min({x, y}) = IF x <= y THEN x ELSE y
<1>1. ASSUME NEW x \in Int, NEW y \in Int
      PROVE  Min({x, y}) = IF x <= y THEN x ELSE y
  <2>1. PICK m : /\ m = IF x <= y THEN x ELSE y
                 /\ m \in {x, y} /\ \A z \in {x, y} : m <= z
    BY <1>1
  <2>2. Min({x, y}) \in {x, y} /\ \A z \in {x, y} : Min({x, y}) <= z
    BY <2>1 DEF Min
  <2>3. QED
    BY <1>1, <2>1, <2>2
<1>2. QED
  BY <1>1

(* What the iterator reads, from chunk a on and b chunks at once.          *)
Batched(a, b, p) == IF b <= p - a THEN b ELSE p - a

LEMMA BatchEnds ==
    ASSUME NEW a \in Nat, NEW b \in Nat, NEW p \in Nat
    PROVE  IF a + b <= p THEN a + Batched(a, b, p) = a + b ELSE a + Batched(a, b, p) = p
  BY DEF Batched

LEMMA ReadIs ==
    ASSUME NEW c, NEW n, NEW p, Cut(c, n, p), NEW a \in 0 .. p, NEW b \in Nat \ {0}
    PROVE  Read(a * CHUNK, b * CHUNK)
               = [j \in 1 .. Batched(a, b, p) |-> IF a + j <= c THEN <<a + j>> ELSE <<0>>]
<1>1. /\ c \in Nat /\ p \in Nat /\ a \in Nat /\ p - a \in Nat /\ b \in Nat
      /\ CHUNK \in Nat \ {0}
  BY StorageFileAssumption DEF Cut
<1>2. PICK l : l = Batched(a, b, p) /\ l \in Nat
  BY <1>1 DEF Batched
<1>3. PICK x, y : /\ x = b * CHUNK /\ y = (p - a) * CHUNK /\ x \in Int /\ y \in Int
  BY <1>1
<1>4. PaddedSize - a * CHUNK = y
  <2>1. PaddedSize = p * CHUNK
    BY DEF PaddedSize, Cut
  <2>2. CHUNK * (p - a) = CHUNK * p - CHUNK * a
    BY <1>1, Distributes
  <2>3. /\ CHUNK * (p - a) = (p - a) * CHUNK /\ CHUNK * p = p * CHUNK
        /\ CHUNK * a = a * CHUNK
    BY <1>1
  <2>4. QED
    BY <1>3, <2>1, <2>2, <2>3
<1>5. Min({x, y}) = l * CHUNK
  <2>1. Min({x, y}) = IF x <= y THEN x ELSE y
    BY <1>3, MinOfTwo
  <2>2. y < x <=> p - a < b
    BY <1>1, <1>3, TimesOrders
  <2>3. CASE b <= p - a
    <3>1. x <= y
      BY <1>1, <1>3, <2>2, <2>3
    <3>2. QED
      BY <1>2, <1>3, <2>1, <2>3, <3>1 DEF Batched
  <2>4. CASE ~(b <= p - a)
    <3>1. ~(x <= y)
      BY <1>1, <1>3, <2>2, <2>4
    <3>2. QED
      BY <1>2, <1>3, <2>1, <2>4, <3>1 DEF Batched
  <2>5. QED
    BY <2>3, <2>4
<1>6. (l * CHUNK) \div CHUNK = l /\ (a * CHUNK) \div CHUNK = a
  BY <1>1, <1>2, UnitsAre
<1>7. Read(a * CHUNK, b * CHUNK)
          = [j \in 1 .. l |-> IF a * CHUNK + (j - 1) * CHUNK < size
                              THEN <<a + j>> ELSE <<0>>]
  BY <1>3, <1>4, <1>5, <1>6 DEF Read
<1>8. \A j \in 1 .. l : a * CHUNK + (j - 1) * CHUNK < size <=> a + j <= c
  <2>1. ASSUME NEW j \in 1 .. l
        PROVE  a * CHUNK + (j - 1) * CHUNK < size <=> a + j <= c
    <3>1. PICK i : i = j - 1 /\ i \in Nat /\ a + i \in Nat
      BY <1>1
    <3>2. a * CHUNK + i * CHUNK = (a + i) * CHUNK
      <4>1. CHUNK * (a + i) = CHUNK * a + CHUNK * i
        BY <1>1, <3>1, Distributes
      <4>2. /\ CHUNK * (a + i) = (a + i) * CHUNK /\ CHUNK * a = a * CHUNK
            /\ CHUNK * i = i * CHUNK
        BY <1>1, <3>1
      <4>3. QED
        BY <4>1, <4>2
    <3>3. (a + i) * CHUNK < size <=> a + i < c
      BY <3>1 DEF Cut
    <3>4. a + i < c <=> a + j <= c
      BY <1>1, <3>1
    <3>5. QED
      BY <3>1, <3>2, <3>3, <3>4
  <2>2. QED
    BY <2>1
<1>9. QED
  BY <1>2, <1>7, <1>8

(* The segments that are uploaded: all of them but the last are full.      *)
Held(k, c, n) == IF k = n - 1 THEN c - k * SEGMENT ELSE SEGMENT

LEMMA SegmentIs ==
    ASSUME NEW c, NEW n, NEW p, Cut(c, n, p), NEW k \in 0 .. n - 1
    PROVE  /\ GetSegment(k).data = [j \in 1 .. Held(k, c, n) |-> <<k * SEGMENT + j>>]
           /\ GetSegment(k).last <=> k = n - 1
<1>1. /\ c \in Nat /\ n \in Nat \ {0} /\ p \in Nat /\ c <= p /\ SEGMENT \in Nat \ {0}
      /\ k \in Nat /\ c = NumChunks
      /\ c <= n * SEGMENT /\ (n - 1) * SEGMENT < c
  BY StorageFileAssumption DEF Cut
<1>2. PICK a : a = k * SEGMENT /\ a \in Nat
  BY <1>1
<1>3. a < c
  <2>1. k = n - 1 \/ k * SEGMENT < (n - 1) * SEGMENT
    <3>1. k < n - 1 => k * SEGMENT < (n - 1) * SEGMENT
      BY <1>1, TimesOrders
    <3>2. QED
      BY <1>1, <3>1
  <2>2. k * SEGMENT \in Int /\ (n - 1) * SEGMENT \in Int
    BY <1>1
  <2>3. QED
    BY <1>1, <1>2, <2>1, <2>2
<1>4. k = n - 1 <=> c <= a + SEGMENT
  <2>1. (k + 1) * SEGMENT = a + SEGMENT
    BY <1>1, <1>2
  <2>2. CASE k = n - 1
    BY <1>1, <2>1, <2>2
  <2>3. CASE k # n - 1
    <3>1. k + 1 = n - 1 \/ (k + 1) * SEGMENT < (n - 1) * SEGMENT
      <4>1. k + 1 < n - 1 => (k + 1) * SEGMENT < (n - 1) * SEGMENT
        BY <1>1, TimesOrders
      <4>2. QED
        BY <1>1, <2>3, <4>1
    <3>2. (n - 1) * SEGMENT \in Int
      BY <1>1
    <3>3. a + SEGMENT < c
      BY <1>1, <1>2, <2>1, <3>1, <3>2
    <3>4. QED
      BY <1>1, <1>2, <2>3, <3>3
  <2>4. QED
    BY <2>2, <2>3
<1>5. PICK l : /\ l = Batched(a, SEGMENT, p) /\ l \in Nat /\ a + l <= p
               /\ (l = SEGMENT \/ a + l = p) /\ l <= SEGMENT
  BY <1>1, <1>2, <1>3 DEF Batched
<1>6. PICK read : /\ read = Read(a * CHUNK, SEGMENT * CHUNK)
                  /\ read = [j \in 1 .. l |-> IF a + j <= c THEN <<a + j>> ELSE <<0>>]
  <2>1. a \in 0 .. p /\ SEGMENT \in Nat \ {0}
    BY <1>1, <1>2, <1>3
  <2>2. Read(a * CHUNK, SEGMENT * CHUNK)
            = [j \in 1 .. Batched(a, SEGMENT, p) |-> IF a + j <= c THEN <<a + j>> ELSE <<0>>]
    BY <2>1, ReadIs
  <2>3. QED
    BY <1>5, <2>2, Zenon
<1>7. Len(read) = l
  BY <1>5, <1>6
<1>8. PICK last \in BOOLEAN : last <=> a + l >= c
  OBVIOUS
<1>9. /\ GetSegment(k).last <=> a + l >= c
      /\ GetSegment(k).data = IF a + l >= c THEN SubSeq(read, 1, c - a) ELSE read
  BY <1>1, <1>2, <1>6, <1>7 DEF GetSegment
<1>10. a + l >= c <=> k = n - 1
  BY <1>1, <1>2, <1>4, <1>5
<1>11. CASE k = n - 1
  <2>1. PICK w : w = c - a /\ w \in Nat /\ w <= l
    BY <1>1, <1>2, <1>3, <1>4, <1>5, <1>11
  <2>2. SubSeq(read, 1, w) = [j \in 1 .. w |-> <<a + j>>]
    <3>1. \A j \in 1 .. w : a + j <= c /\ j \in 1 .. l
      BY <1>1, <1>2, <1>5, <2>1
    <3>2. SubSeq(read, 1, w) = [j \in 1 .. w |-> read[j]]
      BY <2>1 DEF SubSeq
    <3>3. \A j \in 1 .. w : read[j] = <<a + j>>
      BY <1>6, <3>1
    <3>4. QED
      BY <3>2, <3>3
  <2>3. Held(k, c, n) = w
    BY <1>2, <1>11, <2>1 DEF Held
  <2>4. QED
    BY <1>2, <1>9, <1>10, <1>11, <2>1, <2>2, <2>3
<1>12. CASE k # n - 1
  <2>1. l = SEGMENT /\ \A j \in 1 .. l : a + j <= c
    BY <1>1, <1>2, <1>5, <1>10, <1>12
  <2>2. read = [j \in 1 .. l |-> <<a + j>>]
    BY <1>6, <2>1
  <2>3. Held(k, c, n) = l
    BY <1>12, <2>1 DEF Held
  <2>4. QED
    BY <1>2, <1>9, <1>10, <1>12, <2>2, <2>3
<1>13. QED
  BY <1>11, <1>12

(* A segment's length, and where the file's segments start.                *)
LEMMA HeldIs ==
    ASSUME NEW c, NEW n, NEW p, Cut(c, n, p), NEW k \in 0 .. n - 1
    PROVE  /\ k \in Nat /\ k * SEGMENT \in Nat /\ Held(k, c, n) \in Nat
           /\ k * SEGMENT + Held(k, c, n) = IF k + 1 = n THEN c ELSE (k + 1) * SEGMENT
<1>1. /\ c \in Nat /\ n \in Nat /\ k \in Nat /\ SEGMENT \in Nat \ {0} /\ n # 0
      /\ (n - 1) * SEGMENT < c
  BY StorageFileAssumption DEF Cut
<1>2. PICK a : a = k * SEGMENT /\ a \in Nat /\ (k + 1) * SEGMENT = a + SEGMENT
  BY <1>1
<1>3. CASE k = n - 1
  BY <1>1, <1>2, <1>3 DEF Held
<1>4. CASE k # n - 1
  BY <1>1, <1>2, <1>4 DEF Held
<1>5. QED
  BY <1>3, <1>4

(* The segment that holds a position, and its place in it.                 *)
LEMMA SegmentOf ==
    ASSUME NEW c, NEW n, NEW p, Cut(c, n, p), NEW j \in 1 .. c
    PROVE  \E k \in 0 .. n - 1 : \E i \in 1 .. Held(k, c, n) : j = k * SEGMENT + i
<1>1. /\ c \in Nat /\ n \in Nat /\ SEGMENT \in Nat \ {0} /\ c <= n * SEGMENT
      /\ j \in Nat
  BY StorageFileAssumption DEF Cut
<1>2. PICK x \in Nat : x = j - 1
  BY <1>1
<1>3. PICK k, r : /\ k \in Nat /\ r \in 0 .. SEGMENT - 1 /\ x = SEGMENT * k + r
  <2>1. x % SEGMENT \in 0 .. SEGMENT - 1 /\ x \div SEGMENT \in Nat
        /\ x = SEGMENT * (x \div SEGMENT) + (x % SEGMENT)
    BY <1>1, ModRange, Zenon
  <2>2. QED
    BY <2>1
<1>4. PICK a : a = k * SEGMENT /\ a \in Nat /\ SEGMENT * k = a
  BY <1>1, <1>3
<1>5. x = a + r /\ j = a + (r + 1) /\ a < c
  BY <1>1, <1>2, <1>3, <1>4
<1>6. k < n
  <2>1. k * SEGMENT < n * SEGMENT
    <3>1. n * SEGMENT \in Int
      BY <1>1
    <3>2. QED
      BY <1>1, <1>4, <1>5, <3>1
  <2>2. QED
    BY <1>1, <1>3, <2>1, TimesOrders
<1>7. k \in 0 .. n - 1
  BY <1>1, <1>3, <1>6
<1>8. r + 1 \in 1 .. Held(k, c, n)
  BY <1>1, <1>3, <1>4, <1>5, <1>7 DEF Held
<1>9. QED
  BY <1>4, <1>5, <1>7, <1>8

(* The segments one after the other are the file's chunks.                 *)
LEMMA SegmentsHold ==
    ASSUME size \in Sizes PROVE SegmentsHoldFile
<1>1. PICK c, n, p : Cut(c, n, p)
  BY FileIsCut
<1>2. /\ c \in Nat /\ n \in Nat /\ c = NumChunks /\ n = NumSegments
      /\ SEGMENT \in Nat \ {0} /\ c <= n * SEGMENT
  BY <1>1, StorageFileAssumption DEF Cut
<1>3. PICK q : q = [k \in 1 .. n |-> GetSegment(k - 1).data]
  OBVIOUS
<1>4. \A k \in 0 .. n - 1 :
          /\ GetSegment(k).data = [j \in 1 .. Held(k, c, n) |-> <<k * SEGMENT + j>>]
          /\ GetSegment(k).last <=> k = n - 1
  BY <1>1, SegmentIs
<1>5. FlattenSeq(q) = [j \in 1 .. c |-> <<j>>]
  <2>1. CASE n = 0
    <3>1. c = 0
      BY <1>2, <2>1
    <3>2. q = << >> /\ [j \in 1 .. c |-> <<j>>] = << >>
      BY <1>3, <2>1, <3>1
    <3>3. QED
      BY <3>2, FlattenNone
  <2>2. CASE n # 0
    <3>1. PICK S : S = Seq(Nat)
      OBVIOUS
    <3>2. Len(q) = n /\ \A i \in 1 .. n : i - 1 \in 0 .. n - 1
      BY <1>2, <1>3
    <3>3. \A i \in 1 .. n :
              q[i] = [j \in 1 .. Held(i - 1, c, n) |-> <<(i - 1) * SEGMENT + j>>]
      BY <1>3, <1>4, <3>2
    <3>4. \A i \in 1 .. n :
              /\ i - 1 \in Nat /\ (i - 1) * SEGMENT \in Nat /\ Held(i - 1, c, n) \in Nat
              /\ (i - 1) * SEGMENT + Held(i - 1, c, n)
                     = IF i = n THEN c ELSE i * SEGMENT
      <4>1. ASSUME NEW i \in 1 .. n
            PROVE  /\ i - 1 \in Nat /\ (i - 1) * SEGMENT \in Nat /\ Held(i - 1, c, n) \in Nat
                   /\ (i - 1) * SEGMENT + Held(i - 1, c, n)
                          = IF i = n THEN c ELSE i * SEGMENT
        <5>1. PICK k \in 0 .. n - 1 : k = i - 1 /\ k + 1 = i
          BY <1>2
        <5>2. /\ k \in Nat /\ k * SEGMENT \in Nat /\ Held(k, c, n) \in Nat
              /\ k * SEGMENT + Held(k, c, n) = IF k + 1 = n THEN c ELSE (k + 1) * SEGMENT
          BY <1>1, HeldIs
        <5>3. QED
          BY <5>1, <5>2
      <4>2. QED
        BY <4>1
    <3>5. \A i \in 1 .. n : q[i] \in Seq(S) /\ Len(q[i]) = Held(i - 1, c, n)
      <4>1. ASSUME NEW i \in 1 .. n
            PROVE  q[i] \in Seq(S) /\ Len(q[i]) = Held(i - 1, c, n)
        <5>1. PICK h, a : /\ h = Held(i - 1, c, n) /\ a = (i - 1) * SEGMENT
                          /\ h \in Nat /\ a \in Nat
          BY <3>4
        <5>2. q[i] = [j \in 1 .. h |-> <<a + j>>]
          BY <3>3, <5>1
        <5>3. \A j \in 1 .. h : <<a + j>> \in S
          BY <3>1, <5>1
        <5>4. QED
          BY <5>1, <5>2, <5>3
      <4>2. QED
        BY <4>1
    <3>6. q \in Seq(Seq(S))
      <4>1. q = [i \in 1 .. n |-> q[i]]
        BY <1>3
      <4>2. PICK T : T = Seq(S) /\ \A i \in 1 .. n : q[i] \in T
        BY <3>5
      <4>3. q \in Seq(T)
        BY <1>2, <4>1, <4>2
      <4>4. QED
        BY <4>2, <4>3
    <3>7. PICK e : e = [i \in 0 .. n |-> IF i = n THEN c ELSE i * SEGMENT]
      OBVIOUS
    <3>8. Offsets(e, q)
      <4>1. e \in [0 .. n -> Nat] /\ e[0] = 0 /\ e[n] = c
        BY <1>2, <2>2, <3>7
      <4>2. \A i \in 1 .. n : e[i - 1] = (i - 1) * SEGMENT
        BY <1>2, <3>7
      <4>3. \A i \in 1 .. n : e[i] = e[i - 1] + Len(q[i])
        <5>1. \A i \in 1 .. n : e[i] = IF i = n THEN c ELSE i * SEGMENT
          BY <1>2, <3>7
        <5>2. QED
          BY <3>4, <3>5, <4>2, <5>1, Zenon
      <4>4. QED
        BY <3>2, <4>1, <4>3 DEF Offsets
    <3>9. PICK flat : flat = FlattenSeq(q)
      OBVIOUS
    <3>10. /\ flat \in Seq(S) /\ Len(flat) = e[n]
           /\ \A i \in 1 .. n : \A k \in 1 .. Len(q[i]) :
                  flat[e[i - 1] + k] = q[i][k]
      <4>1. /\ FlattenSeq(q) \in Seq(S) /\ Len(FlattenSeq(q)) = e[Len(q)]
            /\ \A i \in 1 .. Len(q) : \A k \in 1 .. Len(q[i]) :
                  FlattenSeq(q)[e[i - 1] + k] = q[i][k]
        BY <3>6, <3>8, FlattenParts
      <4>2. QED
        BY <3>2, <3>9, <4>1, Zenon
    <3>11. Len(flat) = c
      BY <1>2, <3>7, <3>10
    <3>12. \A j \in 1 .. c : flat[j] = <<j>>
      <4>1. ASSUME NEW j \in 1 .. c PROVE flat[j] = <<j>>
        <5>1. PICK k \in 0 .. n - 1 : \E i \in 1 .. Held(k, c, n) : j = k * SEGMENT + i
          BY <1>1, SegmentOf
        <5>2. PICK i \in 1 .. Held(k, c, n) : j = k * SEGMENT + i
          BY <5>1
        <5>3. PICK m \in 1 .. n : m - 1 = k
          <6>1. k + 1 \in 1 .. n /\ (k + 1) - 1 = k
            BY <1>2
          <6>2. QED
            BY <6>1
        <5>4. e[m - 1] = k * SEGMENT
          BY <1>2, <3>7, <5>3
        <5>5. i \in 1 .. Len(q[m])
          BY <3>5, <5>2, <5>3
        <5>6. flat[e[m - 1] + i] = q[m][i]
          BY <3>10, <5>5
        <5>7. q[m][i] = <<k * SEGMENT + i>>
          BY <3>3, <5>2, <5>3
        <5>8. QED
          BY <5>2, <5>4, <5>6, <5>7
      <4>2. QED
        BY <4>1
    <3>13. flat = [j \in 1 .. c |-> <<j>>]
      <4>1. DOMAIN flat = 1 .. c /\ flat = [j \in 1 .. c |-> flat[j]]
        BY <3>10, <3>11, LenProperties
      <4>2. QED
        BY <3>12, <4>1, Zenon
    <3>14. QED
      BY <3>9, <3>13
  <2>3. QED
    BY <2>1, <2>2
<1>6. QED
  <2>1. FlattenSeq([k \in 1 .. NumSegments |-> GetSegment(k - 1).data])
            = [k \in 1 .. NumChunks |-> <<k>>]
    BY <1>2, <1>3, <1>5
  <2>2. \A k \in 0 .. NumSegments - 1 : GetSegment(k).last <=> k = NumSegments - 1
    BY <1>2, <1>4
  <2>3. QED
    BY <2>1, <2>2 DEF SegmentsHoldFile

(* One of m fragments of a file of size bytes: it is as large as the       *)
(* others or ends the file.                                                *)
IsPart(part, f, m, k) ==
    /\ part.size > 0
    /\ part.from = (k - 1) * f
    /\ k < m => part.from + part.size = k * f
    /\ k = m => part.from + part.size = size

LEMMA FragmentIs ==
    ASSUME size \in Nat
    PROVE  \A f \in Nat \ {0} : \A k \in 1 .. NumSplits(size, f) :
               IsPart(Split(f)[k], f, NumSplits(size, f), k)
<1> SUFFICES ASSUME NEW f \in Nat \ {0}, NEW k \in 1 .. NumSplits(size, f)
             PROVE  IsPart(Split(f)[k], f, NumSplits(size, f), k)
  OBVIOUS
<1>m. PICK m : m = NumSplits(size, f) /\ k \in 1 .. m
  OBVIOUS
<1>1. /\ m \in Nat /\ (size = 0 => m = 0) /\ size <= m * f
      /\ (size # 0 => (m - 1) * f < size)
  BY <1>m, SplitsAre
<1>2. k \in Nat /\ size # 0 /\ (m - 1) * f < size /\ k - 1 \in Int /\ m - 1 \in Int
  BY <1>m, <1>1
<1>3. PICK a : a = (k - 1) * f /\ a \in Int /\ k * f = a + f
  BY <1>2
<1>4. PICK b : b = (m - 1) * f /\ b \in Int /\ m * f = b + f
  BY <1>1, <1>2
<1>5. a <= b /\ (k < m => a + f <= b) /\ (k = m => a = b)
  <2>1. ~(m - 1 < k - 1)
    BY <1>m, <1>1, <1>2
  <2>2. ~(b < a)
    BY <1>2, <1>3, <1>4, <2>1, TimesOrders
  <2>3. k < m => ~(m - 1 < k)
    BY <1>m, <1>1, <1>2
  <2>4. b < k * f <=> m - 1 < k
    BY <1>2, <1>4, TimesOrders
  <2>5. QED
    BY <1>3, <1>4, <2>2, <2>3, <2>4
<1>6. PICK l : l = IF size - a <= f THEN size - a ELSE f
  OBVIOUS
<1>7. Split(f)[k] = [from |-> a, size |-> l]
  <2>1. Split(f)[k] = [from |-> (k - 1) * f, size |-> Min({size - (k - 1) * f, f})]
    BY DEF Split
  <2>2. Min({size - a, f}) = l
    BY <1>3, <1>6, MinOfTwo
  <2>3. QED
    BY <1>3, <2>1, <2>2
<1>8. /\ l > 0 /\ (k < m => a + l = k * f) /\ (k = m => a + l = size)
  BY <1>1, <1>2, <1>3, <1>4, <1>5, <1>6
<1>9. QED
  BY <1>m, <1>3, <1>7, <1>8 DEF IsPart

LEMMA FragmentsHold ==
    ASSUME size \in Sizes PROVE FragmentsHoldFile
<1>1. Sizes \subseteq Nat /\ size \in Nat
  BY StorageFileAssumption
<1>2. ASSUME NEW f \in Sizes \ {0}
      PROVE  /\ \A k \in 1 .. Len(Split(f)) :
                   Split(f)[k].size > 0 /\ (k < Len(Split(f)) =>
                       Split(f)[k].from + Split(f)[k].size = Split(f)[k + 1].from)
             /\ Split(f) # << >> =>
                    Last(Split(f)).from + Last(Split(f)).size = size
  <2>1. f \in Nat \ {0}
    BY <1>1
  <2>2. PICK m : m = NumSplits(size, f) /\ m \in Nat
    BY <1>1, <2>1, SplitsAre
  <2>3. Len(Split(f)) = m
    BY <2>2 DEF Split
  <2>4. \A k \in 1 .. m :
            /\ Split(f)[k].size > 0
            /\ Split(f)[k].from = (k - 1) * f
            /\ k < m => Split(f)[k].from + Split(f)[k].size = k * f
            /\ k = m => Split(f)[k].from + Split(f)[k].size = size
    <3>1. \A k \in 1 .. m : IsPart(Split(f)[k], f, m, k)
      BY <1>1, <2>1, <2>2, FragmentIs
    <3>2. QED
      BY <3>1 DEF IsPart
  <2>5. ASSUME NEW k \in 1 .. m, k < m
        PROVE  Split(f)[k].from + Split(f)[k].size = Split(f)[k + 1].from
    <3>1. k + 1 \in 1 .. m /\ (k + 1) - 1 = k
      BY <2>2, <2>5
    <3>2. Split(f)[k + 1].from = k * f
      BY <2>4, <3>1
    <3>3. QED
      BY <2>4, <2>5, <3>2
  <2>6. ASSUME Split(f) # << >>
        PROVE  Last(Split(f)).from + Last(Split(f)).size = size
    <3>1. m # 0
      <4>1. m = 0 => Split(f) = << >>
        BY <2>2 DEF Split
      <4>2. QED
        BY <2>6, <4>1
    <3>2. m \in 1 .. m
      BY <2>2, <3>1
    <3>3. Last(Split(f)) = Split(f)[m]
      BY <2>3 DEF Last
    <3>4. QED
      BY <2>4, <3>2, <3>3
  <2>7. QED
    BY <2>3, <2>4, <2>5, <2>6
<1>3. QED
  BY <1>2 DEF FragmentsHoldFile

----------------------------------------------------------------------------
(* What is left of p chunks, and the powers of two taken from them so far. *)
TakeState(p) == [left : 0 .. p, taken : Seq(1 .. p)]

LEMMA TakeSound ==
    ASSUME NEW p \in Nat, NEW s \in TakeState(p), NEW b \in Nat \ {0}
    PROVE  Take(s, b) \in TakeState(p)
<1>1. s.left \in 0 .. p /\ s.taken \in Seq(1 .. p)
  BY DEF TakeState
<1>2. CASE s.left >= b
  <2>1. b \in 1 .. p /\ s.left - b \in 0 .. p
    BY <1>1, <1>2
  <2>2. Append(s.taken, b) \in Seq(1 .. p)
    BY <1>1, <2>1
  <2>3. QED
    BY <1>2, <2>1, <2>2 DEF Take, TakeState
<1>3. CASE ~(s.left >= b)
  BY <1>3 DEF Take
<1>4. QED
  BY <1>2, <1>3

(* The steps of the loop that takes the nodes.                             *)
Takes(v, p) ==
    /\ v[0] = [left |-> p, taken |-> << >>]
    /\ \A k \in 1 .. 31 : v[k] = Take(v[k - 1], 2 ^ (31 - k))
    /\ \A k \in 0 .. 31 : v[k] \in TakeState(p)
    /\ SplitNodes = v[31].taken

LEMMA SplitTakes ==
    ASSUME NEW c, NEW n, NEW p, Cut(c, n, p) PROVE \E v : Takes(v, p)
<1> DEFINE T == TakeState(p)
           base == [left |-> p, taken |-> << >>]
           powers == [k \in 1 .. 31 |-> 2 ^ (31 - k)]
           g == [x \in T \X (1 .. 31) |-> Take(x[1], powers[x[2]])]
           Is(it) == it = [s \in SUBSET (1 .. 31) |->
                              IF s = {} THEN base
                              ELSE Take(it[s \ {Max(s)}], powers[Max(s)])]
<1>1. p \in Nat /\ p = PaddedChunks(NumChunks)
  BY DEF Cut
<1>2. base \in T
  BY <1>1, EmptySeq DEF TakeState
<1>3. \A k \in 1 .. 31 : powers[k] \in Nat \ {0}
  <2>1. ASSUME NEW k \in 1 .. 31 PROVE powers[k] \in Nat \ {0}
    <3>1. 31 - k \in 0 .. 30
      OBVIOUS
    <3>2. 2 ^ (31 - k) \in Nat \ {0}
      BY <3>1, PowersAreNumbers, Zenon
    <3>3. QED
      BY <3>2
  <2>2. QED
    BY <2>1
<1>4. DOMAIN powers = 1 .. 31
  OBVIOUS
<1> HIDE DEF powers
<1>5. g \in [T \X (1 .. 31) -> T]
  <2>1. \A s \in T : \A k \in 1 .. 31 : Take(s, powers[k]) \in T
    BY <1>1, <1>3, TakeSound
  <2>2. \A x \in T \X (1 .. 31) : x[1] \in T /\ x[2] \in 1 .. 31
    OBVIOUS
  <2> HIDE DEF T
  <2>3. QED
    BY <2>1, <2>2
<1>6. PICK it \in [SUBSET (1 .. 31) -> T] : Folds(it, g, base, 31)
  <2> HIDE DEF g, T, base
  <2>1. QED
    BY <1>2, <1>5, FoldsExist
<1>7. Is(it)
  <2>1. ASSUME NEW s \in SUBSET (1 .. 31), s # {}
        PROVE  g[<<it[s \ {Max(s)}], Max(s)>>] = Take(it[s \ {Max(s)}], powers[Max(s)])
    <3>1. Max(s) \in 1 .. 31
      BY <2>1, LastOne
    <3>2. it[s \ {Max(s)}] \in T
      OBVIOUS
    <3> HIDE DEF T
    <3>3. QED
      BY <3>1, <3>2
  <2>2. it = [s \in SUBSET (1 .. 31) |->
                 IF s = {} THEN base ELSE g[<<it[s \ {Max(s)}], Max(s)>>]]
    BY <1>6 DEF Folds
  <2> HIDE DEF g, base, T
  <2>3. QED
    BY <2>1, <2>2
<1> DEFINE F == CHOOSE h : Is(h)
<1>8. Is(F)
  <2> HIDE DEF Is
  <2>1. QED
    BY <1>7
<1>9. SplitNodes = F[1 .. 31].taken
  BY <1>1, <1>4 DEF SplitNodes, FoldLeft, MapThenFoldSet, powers
<1> HIDE DEF F, T, base
<1>10. \A k \in 0 .. 31 : F[1 .. k] \in T
  <2> DEFINE Fails == {k \in 0 .. 31 : F[1 .. k] \notin T}
  <2> SUFFICES ASSUME Fails # {} PROVE FALSE
    OBVIOUS
  <2>0. Fails \in SUBSET Nat
    <3>1. 0 .. 31 \in SUBSET Nat
      OBVIOUS
    <3>2. QED
      BY <3>1, Zenon
  <2>1. PICK k \in Fails : \A j \in Fails : k <= j
    BY <2>0, Least
  <2>2. CASE k = 0
    <3>1. 1 .. k = {}
      BY <2>2
    <3>2. F[{}] = base
      BY <1>8
    <3>3. QED
      BY <1>2, <3>1, <3>2
  <2>3. CASE k # 0
    <3>1. /\ k \in 1 .. 31 /\ k \in Nat \ {0} /\ 1 .. k \in SUBSET (1 .. 31)
          /\ k - 1 \in 0 .. 31 /\ ~(k <= k - 1)
      BY <2>3
    <3>2. 1 .. k # {} /\ Max(1 .. k) = k /\ (1 .. k) \ {Max(1 .. k)} = 1 .. (k - 1)
      BY <3>1, FirstPositions
    <3>3. F[1 .. k] = Take(F[(1 .. k) \ {Max(1 .. k)}], powers[Max(1 .. k)])
      BY <1>8, <3>1, <3>2
    <3>4. F[1 .. (k - 1)] \in T
      BY <2>1, <3>1
    <3>5. Take(F[1 .. (k - 1)], powers[k]) \in T
      <4>1. \A s \in T : Take(s, powers[k]) \in T
        BY <1>1, <1>3, <3>1, TakeSound DEF T
      <4>2. QED
        BY <3>4, <4>1
    <3>6. F[1 .. k] \in T
      BY <3>2, <3>3, <3>5
    <3>7. QED
      BY <3>6
  <2>4. QED
    BY <2>2, <2>3
<1> DEFINE v == [k \in 0 .. 31 |-> F[1 .. k]]
<1>11. v[0] = base
  <2>1. 1 .. 0 = {} /\ 0 \in 0 .. 31
    OBVIOUS
  <2>2. F[{}] = base
    BY <1>8
  <2>3. QED
    BY <2>1, <2>2
<1>12. ASSUME NEW k \in 1 .. 31 PROVE v[k] = Take(v[k - 1], 2 ^ (31 - k))
  <2>1. /\ 1 .. k \in SUBSET (1 .. 31) /\ k \in Nat \ {0} /\ k \in 0 .. 31
        /\ k - 1 \in 0 .. 31
    OBVIOUS
  <2>2. 1 .. k # {} /\ Max(1 .. k) = k /\ (1 .. k) \ {Max(1 .. k)} = 1 .. (k - 1)
    BY <2>1, FirstPositions
  <2>3. F[1 .. k] = Take(F[(1 .. k) \ {Max(1 .. k)}], powers[Max(1 .. k)])
    BY <1>8, <2>1, <2>2
  <2>4. powers[k] = 2 ^ (31 - k)
    BY DEF powers
  <2>5. F[1 .. k] = Take(F[1 .. (k - 1)], 2 ^ (31 - k))
    BY <2>2, <2>3, <2>4
  <2>6. QED
    BY <2>1, <2>5
<1>13. \A k \in 0 .. 31 : v[k] \in TakeState(p)
  BY <1>10 DEF T
<1>14. SplitNodes = v[31].taken
  BY <1>9
<1> HIDE DEF v
<1>15. Takes(v, p)
  BY <1>11, <1>12, <1>13, <1>14 DEF Takes, base
<1>16. QED
  BY <1>15

(* The nodes of a submission are not empty and fit in the padded file.     *)
LEMMA NodesFit ==
    ASSUME NEW c, NEW n, NEW p, Cut(c, n, p) PROVE SplitNodes \in Seq(1 .. p)
<1>1. PICK v : Takes(v, p)
  BY SplitTakes
<1>2. v[31] \in TakeState(p) /\ SplitNodes = v[31].taken
  BY <1>1 DEF Takes
<1>3. QED
  BY <1>2 DEF TakeState

----------------------------------------------------------------------------
(* A sequence, whatever is in it.                                          *)
IsSeq(s) == s \in Seq({s[i] : i \in DOMAIN s})

LEMMA SeqIs ==
    ASSUME NEW S, NEW s \in Seq(S) PROVE IsSeq(s) /\ Len(s) \in Nat
<1>1. Len(s) \in Nat /\ DOMAIN s = 1 .. Len(s) /\ s = [i \in 1 .. Len(s) |-> s[i]]
  BY LenProperties
<1>2. PICK R : R = {s[i] : i \in DOMAIN s}
  OBVIOUS
<1>3. \A i \in 1 .. Len(s) : s[i] \in R
  BY <1>1, <1>2
<1>4. s \in Seq(R)
  BY <1>1, <1>3
<1>5. QED
  BY <1>1, <1>2, <1>4 DEF IsSeq

LEMMA SeqGrows ==
    ASSUME NEW s, IsSeq(s), NEW x
    PROVE  /\ IsSeq(Append(s, x)) /\ Len(s) \in Nat /\ Len(Append(s, x)) = Len(s) + 1
<1>1. PICK S : S = {s[i] : i \in DOMAIN s} \cup {x}
  OBVIOUS
<1>2. s \in Seq(S)
  <2>1. PICK R : R = {s[i] : i \in DOMAIN s} /\ s \in Seq(R) /\ R \subseteq S
    BY <1>1 DEF IsSeq
  <2>2. Len(s) \in Nat /\ s \in [1 .. Len(s) -> R]
    BY <2>1, LenProperties
  <2>3. s = [i \in 1 .. Len(s) |-> s[i]] /\ \A i \in 1 .. Len(s) : s[i] \in S
    BY <2>1, <2>2
  <2>4. QED
    BY <2>2, <2>3
<1>3. x \in S
  BY <1>1
<1>4. Append(s, x) \in Seq(S) /\ Len(s) \in Nat /\ Len(Append(s, x)) = Len(s) + 1
  BY <1>2, <1>3
<1>5. QED
  BY <1>4, SeqIs

----------------------------------------------------------------------------
(* The trees over the segments, and the proofs of their leaves.            *)
(* The largest power of two below x.                                       *)
LEMMA LeftSideIs ==
    ASSUME NEW r \in 0 .. 29, NEW x \in Int, Two[r] < x, x <= Two[r + 1]
    PROVE  LeftSide(x) = Two[r]
<1>1. PICK S : S = {0} \cup {p \in Powers : p < x}
  OBVIOUS
<1>2. r \in 0 .. 30 /\ r + 1 \in 0 .. 30
  OBVIOUS
<1>3. Two[r] \in S /\ Two[r] \in Nat \ {0}
  BY <1>1, <1>2, TwoIs
<1>4. ASSUME NEW y \in S PROVE y \in Int /\ Two[r] >= y
  <2>1. CASE y = 0
    BY <1>3, <2>1
  <2>2. CASE y # 0
    <3>1. PICK k \in 0 .. 30 : y = Two[k] /\ Two[k] < x
      BY <1>1, <2>2, TwoIs
    <3>2. /\ Two[k] \in Nat \ {0} /\ Two[r + 1] \in Nat \ {0}
      BY <1>2, TwoIs
    <3>3. k <= r
      <4>1. r + 1 < k => Two[r + 1] < Two[k]
        BY <1>2, TwoGrows
      <4>2. ~(r + 1 < k) /\ k # r + 1
        BY <3>1, <3>2, <4>1
      <4>3. QED
        BY <4>2
    <3>4. k = r \/ Two[k] < Two[r]
      BY <1>2, <3>3, TwoGrows
    <3>5. QED
      BY <1>3, <3>1, <3>2, <3>4
  <2>3. QED
    BY <2>1, <2>2
<1>5. Max(S) = Two[r]
  <2>1. Max(S) \in S /\ \A y \in S : Max(S) >= y
    BY <1>3, <1>4 DEF Max
  <2>2. QED
    BY <1>3, <1>4, <2>1
<1>6. QED
  BY <1>1, <1>5 DEF LeftSide

(* As many rounds as it takes until one node is left.                      *)
LEMMA RoundsAre ==
    ASSUME NEW n \in Nat \ {0}, n <= Two[30]
    PROVE  \E r \in 0 .. 30 : /\ Rounds(n) = [k \in 1 .. r |-> k]
                              /\ n <= Two[r] /\ (r # 0 => Two[r - 1] < n)
<1> DEFINE Enough == {k \in Nat : k \in 0 .. 30 /\ n <= Two[k]}
<1>1. 30 \in Enough
  OBVIOUS
<1>2. PICK r \in Enough : \A k \in Enough : r <= k
  BY <1>1, Least
<1>3. r \in 0 .. 30 /\ n <= Two[r]
  OBVIOUS
<1>4. \A k \in 0 .. 30 : Two[k] \in Nat /\ (Two[k] < n <=> k < r)
  <2>1. ASSUME NEW k \in 0 .. 30 PROVE Two[k] \in Nat /\ (Two[k] < n <=> k < r)
    <3>1. Two[k] \in Nat /\ Two[r] \in Nat
      BY <1>3, TwoIs
    <3>2. k < r => k \notin Enough
      BY <1>2, <1>3
    <3>3. k < r => Two[k] < n
      BY <3>1, <3>2
    <3>4. r < k => Two[r] < Two[k]
      BY <1>3, TwoGrows
    <3>5. k >= r => ~(Two[k] < n)
      BY <1>3, <3>1, <3>4
    <3>6. QED
      BY <1>3, <3>1, <3>3, <3>5
  <2>2. QED
    BY <2>1
<1>5. r # 0 => Two[r - 1] < n
  BY <1>3, <1>4
<1>6. Cardinality({p \in Powers : p < n}) = r
  <2> DEFINE f == [k \in 0 .. r - 1 |-> Two[k]]
             T == {p \in Powers : p < n}
  <2>1. f \in Bijection(0 .. r - 1, T)
    <3>1. \A k \in 0 .. r - 1 : k \in 0 .. 30 /\ Two[k] \in T
      <4>1. \A k \in 0 .. r - 1 : k \in 0 .. 30 /\ k < r
        BY <1>3
      <4>2. \A k \in 0 .. 30 : Two[k] \in Powers
        BY TwoIs
      <4>3. QED
        BY <1>4, <4>1, <4>2, Zenon
    <3>2. f \in [0 .. r - 1 -> T]
      BY <3>1
    <3>3. \A j, k \in 0 .. r - 1 : f[j] = f[k] => j = k
      <4>1. ASSUME NEW j \in 0 .. r - 1, NEW k \in 0 .. r - 1, f[j] = f[k] PROVE j = k
        <5>1. Two[j] = Two[k] /\ Two[j] \in Nat /\ j \in 0 .. 30 /\ k \in 0 .. 30
          BY <1>4, <3>1, <4>1
        <5>2. ~(j < k) /\ ~(k < j)
          BY <5>1, TwoGrows
        <5>3. QED
          BY <5>1, <5>2
      <4>2. QED
        BY <4>1
    <3>4. \A t \in T : \E k \in 0 .. r - 1 : f[k] = t
      <4>1. ASSUME NEW t \in T PROVE \E k \in 0 .. r - 1 : f[k] = t
        <5>1. PICK k \in 0 .. 30 : t = Two[k] /\ Two[k] < n
          BY TwoIs
        <5>2. k \in 0 .. r - 1
          BY <1>3, <1>4, <5>1
        <5>3. QED
          BY <5>1, <5>2
      <4>2. QED
        BY <4>1
    <3> HIDE DEF f, T
    <3>5. QED
      BY <3>2, <3>3, <3>4 DEF Bijection, Injection, Surjection, IsInjective
  <2>2. IsFiniteSet(0 .. r - 1) /\ Cardinality(0 .. r - 1) = r
    <3>1. 0 \in Int /\ r - 1 \in Int
      BY <1>3
    <3>2. IsFiniteSet(0 .. r - 1)
          /\ Cardinality(0 .. r - 1) = IF 0 > r - 1 THEN 0 ELSE (r - 1) - 0 + 1
      BY <3>1, FS_Interval
    <3>3. QED
      BY <1>3, <3>2
  <2> HIDE DEF f, T
  <2>3. ExistsBijection(0 .. r - 1, T)
    BY <2>1 DEF ExistsBijection
  <2>4. Cardinality(T) = Cardinality(0 .. r - 1)
    BY <2>2, <2>3, FS_Bijection
  <2>5. QED
    BY <2>2, <2>4 DEF T
<1>7. Rounds(n) = [k \in 1 .. r |-> k]
  BY <1>6 DEF Rounds
<1>8. QED
  BY <1>3, <1>5, <1>7

----------------------------------------------------------------------------
(* The folds over a tree's levels and over a proof's path, whose steps     *)
(* have no set of values that they stay in.                                *)
FoldStep(how, x, k) ==
    CASE how.kind = "level" -> Level(x)
      [] how.kind = "climb" -> Climb(x)
      [] how.kind = "descend" -> Descend(x, how.path[k])
      [] how.kind = "join" -> Join(how.proof, x, k)
      [] how.kind = "nodes" -> Combine(how.nodes[k].root, x)

Goes(f, how, base, n) ==
    f = [s \in SUBSET (1 .. n) |->
            IF s = {} THEN base ELSE FoldStep(how, f[s \ {Max(s)}], Max(s))]

(* There is such a function, by the same argument as for FoldsExist.       *)
LEMMA GoesExists ==
    ASSUME NEW how, NEW base, NEW n \in Nat PROVE \E f : Goes(f, how, base, n)
<1> DEFINE Found(m) == \E f : Goes(f, how, base, m)
           Without == {m \in Nat : ~Found(m)}
<1>1. Without = {}
  <2> SUFFICES ASSUME Without # {} PROVE FALSE
    OBVIOUS
  <2> HIDE DEF Found
  <2>1. Without \in SUBSET Nat
    OBVIOUS
  <2>2. PICK m \in Without : \A k \in Without : m <= k
    BY <2>1, Least
  <2>3. CASE m = 0
    <3> DEFINE f == [s \in SUBSET (1 .. 0) |-> base]
    <3>1. 1 .. 0 = {}
      OBVIOUS
    <3>2. f = [s \in SUBSET (1 .. 0) |->
                  IF s = {} THEN base ELSE FoldStep(how, f[s \ {Max(s)}], Max(s))]
      BY <3>1
    <3>3. Found(0)
      BY <3>2 DEF Found, Goes
    <3>4. QED
      BY <2>2, <2>3, <3>3
  <2>4. CASE m # 0
    <3>1. m \in Nat \ {0} /\ m - 1 \in Nat
      BY <2>2, <2>4
    <3>2. m - 1 \notin Without
      BY <2>2, <3>1
    <3>3. PICK f : Goes(f, how, base, m - 1)
      BY <3>1, <3>2 DEF Found
    <3> DEFINE h == [s \in SUBSET (1 .. m) |->
                        IF m \in s THEN FoldStep(how, f[s \ {m}], m) ELSE f[s]]
               rest(s) == s \ {Max(s)}
    <3>4. ASSUME NEW s \in SUBSET (1 .. m)
          PROVE  h[s] = IF s = {} THEN base ELSE FoldStep(how, h[rest(s)], Max(s))
      <4>1. CASE m \in s
        <5>1. Max(s) = m
          <6>1. m \in Nat /\ s # {}
            BY <3>1, <4>1
          <6> HIDE DEF h, rest
          <6>2. Max(s) \in s /\ \A x \in s : x <= Max(s)
            BY <6>1, LastOne
          <6>3. Max(s) \in 1 .. m /\ m <= Max(s)
            BY <4>1, <6>2
          <6>4. QED
            BY <6>1, <6>3
        <5>2. s \ {m} \in SUBSET (1 .. (m - 1)) /\ s \ {m} \in SUBSET (1 .. m)
          BY <3>1
        <5>3. h[s] = FoldStep(how, f[s \ {m}], m)
          BY <4>1
        <5>4. h[s \ {m}] = f[s \ {m}]
          BY <5>2
        <5> HIDE DEF h
        <5>5. QED
          BY <4>1, <5>1, <5>3, <5>4
      <4>2. CASE m \notin s
        <5>1. s \in SUBSET (1 .. (m - 1))
          BY <3>1, <4>2
        <5>2. h[s] = f[s]
          BY <4>2, <5>1
        <5>3. f[s] = IF s = {} THEN base ELSE FoldStep(how, f[rest(s)], Max(s))
          <6>1. f = [u \in SUBSET (1 .. (m - 1)) |->
                        IF u = {} THEN base ELSE FoldStep(how, f[rest(u)], Max(u))]
            BY <3>3 DEF Goes
          <6> HIDE DEF rest
          <6>2. QED
            BY <5>1, <6>1, Zenon
        <5>4. h[rest(s)] = f[rest(s)]
          BY <4>2, <5>1
        <5> HIDE DEF h, rest
        <5>5. QED
          BY <5>2, <5>3, <5>4
      <4>3. QED
        BY <4>1, <4>2
    <3>5. Goes(h, how, base, m)
      <4>1. h = [s \in SUBSET (1 .. m) |-> h[s]]
        OBVIOUS
      <4> HIDE DEF h
      <4>2. h = [s \in SUBSET (1 .. m) |->
                    IF s = {} THEN base ELSE FoldStep(how, h[rest(s)], Max(s))]
        BY <3>4, <4>1
      <4>3. QED
        BY <4>2 DEF Goes
    <3>6. Found(m)
      BY <3>5 DEF Found
    <3>7. QED
      BY <2>2, <3>6
  <2>5. QED
    BY <2>3, <2>4
<1>2. Found(n)
  <2> HIDE DEF Found
  <2>1. QED
    BY <1>1
<1>3. QED
  BY <1>2

(* The steps of a fold one after the other.                                *)
Steps(v, how, base, n) ==
    v[0] = base /\ \A k \in 1 .. n : v[k] = FoldStep(how, v[k - 1], k)

LEMMA GoesSteps ==
    ASSUME NEW how, NEW base, NEW n \in Nat, NEW f, Goes(f, how, base, n)
    PROVE  \E v : Steps(v, how, base, n) /\ f[1 .. n] = v[n]
<1> DEFINE v == [k \in 0 .. n |-> f[1 .. k]]
<1>0. f = [s \in SUBSET (1 .. n) |->
            IF s = {} THEN base ELSE FoldStep(how, f[s \ {Max(s)}], Max(s))]
  BY DEF Goes
<1>1. v[0] = base
  <2>1. 1 .. 0 = {} /\ 0 \in 0 .. n
    OBVIOUS
  <2>2. f[{}] = base
    BY <1>0
  <2>3. QED
    BY <2>1, <2>2
<1>2. ASSUME NEW k \in 1 .. n PROVE v[k] = FoldStep(how, v[k - 1], k)
  <2>1. 1 .. k \in SUBSET (1 .. n) /\ k \in Nat \ {0} /\ k \in 0 .. n /\ k - 1 \in 0 .. n
    OBVIOUS
  <2>2. 1 .. k # {} /\ Max(1 .. k) = k /\ (1 .. k) \ {Max(1 .. k)} = 1 .. (k - 1)
    BY <2>1, FirstPositions
  <2>3. f[1 .. k] = FoldStep(how, f[(1 .. k) \ {Max(1 .. k)}], Max(1 .. k))
    BY <1>0, <2>1, <2>2
  <2>4. QED
    BY <2>1, <2>2, <2>3
<1>3. v[n] = f[1 .. n]
  OBVIOUS
<1> HIDE DEF v
<1>4. Steps(v, how, base, n)
  BY <1>1, <1>2 DEF Steps
<1>5. QED
  BY <1>3, <1>4


(* The ways of Merkle's folds.                                             *)
WayFrom(hashes, i) ==
    [nodes |-> hashes, at |-> i, lemma |-> <<hashes[i]>>, path |-> << >>]

WayUp(hashes, i) ==
    FoldLeft(LAMBDA w, round : Climb(w), WayFrom(hashes, i), Rounds(Len(hashes)))

Descended(path, leafCount) ==
    FoldLeft(Descend, [position |-> 0, count |-> leafCount], Reverse(path))

JoinedUp(proof) ==
    FoldLeft(LAMBDA hash, k : Join(proof, hash, k), Head(proof.lemma),
             [k \in DOMAIN proof.path |-> k])

LEMMA RootIs ==
    ASSUME NEW hashes, NEW r \in Nat, Rounds(Len(hashes)) = [k \in 1 .. r |-> k]
    PROVE  \E v : Steps(v, [kind |-> "level"], hashes, r) /\ RootHash(hashes) = v[r][1]
<1> DEFINE how == [kind |-> "level"]
           base == hashes
           Is(h) == h = [s \in SUBSET (1 .. r) |->
                            IF s = {} THEN base ELSE Level(h[s \ {Max(s)}])]
<1>1. \A x, k : FoldStep(how, x, k) = Level(x)
  BY DEF FoldStep
<1> HIDE DEF how, base
<1>2. PICK f : Goes(f, how, base, r)
  BY GoesExists
<1>3. Is(f)
  <2>1. f = [s \in SUBSET (1 .. r) |->
                IF s = {} THEN base ELSE FoldStep(how, f[s \ {Max(s)}], Max(s))]
    BY <1>2 DEF Goes
  <2>2. QED
    BY <1>1, <2>1
<1> DEFINE F == CHOOSE h : Is(h)
<1>4. Is(F)
  <2> HIDE DEF Is
  <2>1. QED
    BY <1>3
<1>5. RootHash(hashes) = F[1 .. r][1]
  <2>1. DOMAIN Rounds(Len(hashes)) = 1 .. r
    OBVIOUS
  <2>2. QED
    BY <2>1 DEF RootHash, FoldLeft, MapThenFoldSet, base
<1> HIDE DEF F
<1>6. Goes(F, how, base, r)
  <2>1. F = [s \in SUBSET (1 .. r) |->
                IF s = {} THEN base ELSE FoldStep(how, F[s \ {Max(s)}], Max(s))]
    BY <1>1, <1>4
  <2>2. QED
    BY <2>1 DEF Goes
<1>7. PICK v : Steps(v, how, base, r) /\ F[1 .. r] = v[r]
  BY <1>6, GoesSteps
<1>8. QED
  BY <1>5, <1>7 DEF how, base

ClimbsTo(hashes, i, r) ==
    \E v : Steps(v, [kind |-> "climb"], WayFrom(hashes, i), r) /\ WayUp(hashes, i) = v[r]

LEMMA WayUpIs ==
    ASSUME NEW hashes, NEW i, NEW r \in Nat, Rounds(Len(hashes)) = [k \in 1 .. r |-> k]
    PROVE  ClimbsTo(hashes, i, r)
<1> DEFINE how == [kind |-> "climb"]
           base == WayFrom(hashes, i)
           Is(h) == h = [s \in SUBSET (1 .. r) |->
                            IF s = {} THEN base ELSE Climb(h[s \ {Max(s)}])]
<1>1. \A x, k : FoldStep(how, x, k) = Climb(x)
  BY DEF FoldStep
<1> HIDE DEF how, base
<1>2. PICK f : Goes(f, how, base, r)
  BY GoesExists
<1>3. Is(f)
  <2>1. f = [s \in SUBSET (1 .. r) |->
                IF s = {} THEN base ELSE FoldStep(how, f[s \ {Max(s)}], Max(s))]
    BY <1>2 DEF Goes
  <2>2. QED
    BY <1>1, <2>1
<1> DEFINE F == CHOOSE h : Is(h)
<1>4. Is(F)
  <2> HIDE DEF Is
  <2>1. QED
    BY <1>3
<1>5. WayUp(hashes, i) = F[1 .. r]
  <2>1. DOMAIN Rounds(Len(hashes)) = 1 .. r
    OBVIOUS
  <2>2. QED
    BY <2>1 DEF WayUp, FoldLeft, MapThenFoldSet, base
<1> HIDE DEF F
<1>6. Goes(F, how, base, r)
  <2>1. F = [s \in SUBSET (1 .. r) |->
                IF s = {} THEN base ELSE FoldStep(how, F[s \ {Max(s)}], Max(s))]
    BY <1>1, <1>4
  <2>2. QED
    BY <2>1 DEF Goes
<1>7. PICK v : Steps(v, how, base, r) /\ F[1 .. r] = v[r]
  BY <1>6, GoesSteps
<1>8. QED
  BY <1>5, <1>7 DEF how, base, ClimbsTo

LEMMA PositionIs ==
    ASSUME NEW path, NEW d \in Nat, DOMAIN Reverse(path) = 1 .. d, NEW leafCount
    PROVE  \E v : /\ Steps(v, [kind |-> "descend", path |-> Reverse(path)],
                            [position |-> 0, count |-> leafCount], d)
                  /\ Descended(path, leafCount) = v[d]
<1> DEFINE how == [kind |-> "descend", path |-> Reverse(path)]
           base == [position |-> 0, count |-> leafCount]
           Is(h) == h = [s \in SUBSET (1 .. d) |->
                            IF s = {} THEN base
                            ELSE Descend(h[s \ {Max(s)}], Reverse(path)[Max(s)])]
<1>1. \A x, k : FoldStep(how, x, k) = Descend(x, Reverse(path)[k])
  BY DEF FoldStep
<1> HIDE DEF how, base
<1>2. PICK f : Goes(f, how, base, d)
  BY GoesExists
<1>3. Is(f)
  <2>1. f = [s \in SUBSET (1 .. d) |->
                IF s = {} THEN base ELSE FoldStep(how, f[s \ {Max(s)}], Max(s))]
    BY <1>2 DEF Goes
  <2>2. QED
    BY <1>1, <2>1
<1> DEFINE F == CHOOSE h : Is(h)
<1>4. Is(F)
  <2> HIDE DEF Is
  <2>1. QED
    BY <1>3
<1>5. Descended(path, leafCount) = F[1 .. d]
  BY DEF Descended, FoldLeft, MapThenFoldSet, base
<1> HIDE DEF F
<1>6. Goes(F, how, base, d)
  <2>1. F = [s \in SUBSET (1 .. d) |->
                IF s = {} THEN base ELSE FoldStep(how, F[s \ {Max(s)}], Max(s))]
    BY <1>1, <1>4
  <2>2. QED
    BY <2>1 DEF Goes
<1>7. PICK v : Steps(v, how, base, d) /\ F[1 .. d] = v[d]
  BY <1>6, GoesSteps
<1>8. QED
  BY <1>5, <1>7 DEF how, base

LEMMA JoinedIs ==
    ASSUME NEW proof, NEW d \in Nat, DOMAIN proof.path = 1 .. d
    PROVE  \E v : /\ Steps(v, [kind |-> "join", proof |-> proof], Head(proof.lemma), d)
                  /\ JoinedUp(proof) = v[d]
<1> DEFINE how == [kind |-> "join", proof |-> proof]
           base == Head(proof.lemma)
           each == [k \in 1 .. d |-> k]
           Is(h) == h = [s \in SUBSET (1 .. d) |->
                            IF s = {} THEN base
                            ELSE Join(proof, h[s \ {Max(s)}], each[Max(s)])]
<1>1. \A x, k : FoldStep(how, x, k) = Join(proof, x, k)
  BY DEF FoldStep
<1>2. ASSUME NEW s \in SUBSET (1 .. d), s # {} PROVE each[Max(s)] = Max(s)
  <2>1. Max(s) \in 1 .. d
    BY <1>2, LastOne
  <2>2. QED
    BY <2>1
<1>3. DOMAIN each = 1 .. d
  OBVIOUS
<1> HIDE DEF how, base, each
<1>e. ASSUME NEW h, NEW s \in SUBSET (1 .. d)
      PROVE  (IF s = {} THEN base ELSE Join(proof, h[s \ {Max(s)}], each[Max(s)]))
                 = (IF s = {} THEN base ELSE FoldStep(how, h[s \ {Max(s)}], Max(s)))
  <2>1. CASE s = {}
    BY <2>1
  <2>2. CASE s # {}
    BY <1>1, <1>2, <2>2
  <2>3. QED
    BY <2>1, <2>2
<1>4. PICK f : Goes(f, how, base, d)
  BY GoesExists
<1>5. Is(f)
  <2>1. f = [s \in SUBSET (1 .. d) |->
                IF s = {} THEN base ELSE FoldStep(how, f[s \ {Max(s)}], Max(s))]
    BY <1>4 DEF Goes
  <2>2. QED
    BY <1>e, <2>1
<1> DEFINE F == CHOOSE h : Is(h)
<1>6. Is(F)
  <2> HIDE DEF Is
  <2>1. QED
    BY <1>5
<1>7. JoinedUp(proof) = F[1 .. d]
  <2>1. [k \in DOMAIN proof.path |-> k] = each
    BY DEF each
  <2>2. JoinedUp(proof) = FoldLeft(LAMBDA hash, k : Join(proof, hash, k), base, each)
    BY <2>1 DEF JoinedUp, base
  <2>3. QED
    BY <1>3, <2>2 DEF FoldLeft, MapThenFoldSet
<1> HIDE DEF F
<1>8. Goes(F, how, base, d)
  <2>1. F = [s \in SUBSET (1 .. d) |->
                IF s = {} THEN base ELSE FoldStep(how, F[s \ {Max(s)}], Max(s))]
    BY <1>e, <1>6
  <2>2. QED
    BY <2>1 DEF Goes
<1>9. PICK v : Steps(v, how, base, d) /\ F[1 .. d] = v[d]
  BY <1>8, GoesSteps
<1>10. QED
  BY <1>7, <1>9 DEF how, base

----------------------------------------------------------------------------
(* The leaves before those of the a-th node of a level whose nodes have w  *)
(* leaves, and how many it has, when there are m in all.                   *)
Before(a, w) == (a - 1) * w
Under(a, w, m) == IF w <= m - (a - 1) * w THEN w ELSE m - (a - 1) * w

(* A node of the next level is one node alone, or has a left and a right   *)
(* one, of which the left one is full.                                     *)
Pairs(a, c, w, m) ==
    LET b == (a + 1) \div 2
        d == (c + 1) \div 2
    IN  /\ d \in Nat \ {0} /\ b \in 1 .. d
        /\ (d - 1) * (2 * w) < m /\ m <= d * (2 * w)
        /\ \/ /\ a % 2 = 1 /\ a + 1 > c /\ a = c /\ 2 * b > c /\ 2 * b - 1 = a
              /\ Before(b, 2 * w) = Before(a, w) /\ Under(b, 2 * w, m) = Under(a, w, m)
           \/ /\ a % 2 = 1 /\ a + 1 <= c /\ 2 * b <= c /\ 2 * b - 1 = a /\ 2 * b = a + 1
              /\ Before(b, 2 * w) = Before(a, w) /\ Under(a, w, m) = w
              /\ w < Under(b, 2 * w, m) /\ Under(b, 2 * w, m) <= 2 * w
           \/ /\ a % 2 # 1 /\ a - 1 >= 1 /\ a - 1 <= c /\ 2 * b <= c /\ 2 * b = a
              /\ Before(a, w) = Before(b, 2 * w) + w
              /\ w < Under(b, 2 * w, m) /\ Under(b, 2 * w, m) <= 2 * w
              /\ Under(a, w, m) = Under(b, 2 * w, m) - w

LEMMA Pairing ==
    ASSUME NEW c \in Nat \ {0}, NEW a \in 1 .. c, NEW w \in Nat \ {0}, NEW m \in Nat,
           (c - 1) * w < m, m <= c * w
    PROVE  Pairs(a, c, w, m)
<1>1. PICK b \in Nat \ {0} : b = (a + 1) \div 2 /\ (a = 2 * b - 1 \/ a = 2 * b)
  OBVIOUS
<1>2. PICK d \in Nat \ {0} : d = (c + 1) \div 2 /\ (c = 2 * d - 1 \/ c = 2 * d)
  OBVIOUS
<1>3. (a % 2 = 1 <=> a = 2 * b - 1)
  BY <1>1
<1>4. PICK x, y, z : /\ x = (b - 1) * w /\ y = (c - 1) * w /\ z = (d - 1) * w
                     /\ x \in Int /\ y \in Int /\ z \in Int
  BY <1>1, <1>2
<1>5. /\ (b - 1) * (2 * w) = 2 * x /\ (d - 1) * (2 * w) = 2 * z
      /\ d * (2 * w) = 2 * z + 2 * w /\ c * w = y + w
  BY <1>1, <1>2, <1>4
<1>6. /\ c = 2 * d - 1 => y = 2 * z
      /\ c = 2 * d => y = 2 * z + w
  BY <1>1, <1>2, <1>4
<1>7. /\ a = 2 * b - 1 => (a - 1) * w = 2 * x
      /\ a = 2 * b => (a - 1) * w = 2 * x + w
  BY <1>1, <1>4
<1>8. PICK v : v = (a - 1) * w /\ v \in Int
  BY <1>1
<1>9. (a < c => v + w <= y) /\ v <= y
  <2>1. a * w = v + w /\ c - 1 \in Int /\ a * w \in Int
    BY <1>8
  <2>2. c - 1 < a <=> y < a * w
    BY <1>4, <2>1, TimesOrders
  <2>3. c - 1 < a - 1 <=> y < v
    BY <1>4, <1>8, TimesOrders
  <2>4. QED
    BY <1>4, <1>8, <2>1, <2>2, <2>3
<1>10. y < m /\ m <= y + w
  BY <1>4, <1>5
<1>11. b \in 1 .. d /\ 2 * z < m /\ m <= 2 * z + 2 * w
  BY <1>1, <1>2, <1>4, <1>6, <1>10
<1>12. /\ Before(a, w) = v /\ Before(b, 2 * w) = 2 * x
       /\ Under(a, w, m) = IF w <= m - v THEN w ELSE m - v
       /\ Under(b, 2 * w, m) = IF 2 * w <= m - 2 * x THEN 2 * w ELSE m - 2 * x
  BY <1>5, <1>8 DEF Before, Under
<1>13. CASE a = 2 * b - 1 /\ a = c
  <2>1. v = 2 * x /\ v = y
    BY <1>4, <1>7, <1>8, <1>13
  <2>2. 2 * b > c /\ a + 1 > c /\ 2 * b - 1 = a
    <3>1. a = 2 * b - 1 /\ a = c
      BY <1>13
    <3>2. a \in Int /\ c \in Int
      OBVIOUS
    <3>3. b \in Int
      BY <1>1
    <3>4. QED
      BY <3>1, <3>2, <3>3
  <2>3. Under(b, 2 * w, m) = Under(a, w, m)
    BY <1>10, <1>12, <1>4, <2>1
  <2>4. QED
    BY <1>1, <1>2, <1>3, <1>5, <1>11, <1>12, <1>13, <2>1, <2>2, <2>3 DEF Pairs
<1>14. CASE a = 2 * b - 1 /\ a # c
  <2>1. v = 2 * x /\ v + w <= y /\ v + w < m
    BY <1>4, <1>7, <1>8, <1>9, <1>10, <1>14
  <2>2. a + 1 <= c /\ 2 * b <= c /\ 2 * b - 1 = a /\ 2 * b = a + 1
    BY <1>1, <1>14
  <2>3. /\ Under(a, w, m) = w /\ w < Under(b, 2 * w, m)
        /\ Under(b, 2 * w, m) <= 2 * w
    BY <1>4, <1>12, <2>1
  <2>4. QED
    BY <1>1, <1>2, <1>3, <1>5, <1>11, <1>12, <1>14, <2>1, <2>2, <2>3 DEF Pairs
<1>15. CASE a = 2 * b
  <2>1. v = 2 * x + w /\ v < m
    BY <1>4, <1>7, <1>8, <1>9, <1>10, <1>15
  <2>2. a - 1 >= 1 /\ a - 1 <= c /\ 2 * b <= c
    BY <1>1, <1>15
  <2>3. /\ w < Under(b, 2 * w, m) /\ Under(b, 2 * w, m) <= 2 * w
        /\ Under(a, w, m) = Under(b, 2 * w, m) - w
    BY <1>4, <1>12, <2>1
  <2>4. a % 2 # 1
    BY <1>1, <1>3, <1>15
  <2>5. QED
    BY <1>1, <1>2, <1>5, <1>11, <1>12, <1>15, <2>1, <2>2, <2>3, <2>4 DEF Pairs
<1>16. QED
  BY <1>1, <1>13, <1>14, <1>15

(* A level of the way up from one leaf of m, and the level above it.       *)
OnLevel(way, k, m) ==
    /\ way = [nodes |-> way.nodes, at |-> way.at, lemma |-> way.lemma, path |-> way.path]
    /\ Len(way.nodes) \in Nat \ {0} /\ way.at \in 1 .. Len(way.nodes)
    /\ (Len(way.nodes) - 1) * Two[k] < m /\ m <= Len(way.nodes) * Two[k]
    /\ way.path \in Seq(BOOLEAN) /\ IsSeq(way.lemma)
    /\ Len(way.lemma) = Len(way.path) + 1

Hash(way) == way.nodes[way.at]
Above(way, k) == Before(way.at, Two[k])
Below(way, k, m) == Under(way.at, Two[k], m)

(* Extends(u, s, x): u is s and x.                                         *)
Extends(u, s, x) ==
    /\ Len(s) \in Nat /\ Len(u) = Len(s) + 1
    /\ \A j \in 1 .. Len(s) : u[j] = s[j]
    /\ u[Len(s) + 1] = x

Rises(way, up, k, m) ==
    \/ /\ up.path = way.path /\ up.lemma = way.lemma /\ Hash(up) = Hash(way)
       /\ Above(up, k + 1) = Above(way, k) /\ Below(up, k + 1, m) = Below(way, k, m)
    \/ \E sibling :
          /\ Extends(up.path, way.path, TRUE) /\ Extends(up.lemma, way.lemma, sibling)
          /\ Hash(up) = Combine(Hash(way), sibling)
          /\ Above(way, k) = Above(up, k + 1)
          /\ Below(way, k, m) = LeftSide(Below(up, k + 1, m))
    \/ \E sibling :
          /\ Extends(up.path, way.path, FALSE) /\ Extends(up.lemma, way.lemma, sibling)
          /\ Hash(up) = Combine(sibling, Hash(way))
          /\ Above(way, k) = Above(up, k + 1) + LeftSide(Below(up, k + 1, m))
          /\ Below(way, k, m) = Below(up, k + 1, m) - LeftSide(Below(up, k + 1, m))

LEMMA SeqExtends ==
    ASSUME NEW s, IsSeq(s), NEW x PROVE IsSeq(Append(s, x)) /\ Extends(Append(s, x), s, x)
<1>1. PICK S : S = {s[i] : i \in DOMAIN s} \cup {x}
  OBVIOUS
<1>2. s \in Seq(S)
  <2>1. PICK R : R = {s[i] : i \in DOMAIN s} /\ s \in Seq(R) /\ R \subseteq S
    BY <1>1 DEF IsSeq
  <2>2. Len(s) \in Nat /\ s \in [1 .. Len(s) -> R]
    BY <2>1, LenProperties
  <2>3. s = [i \in 1 .. Len(s) |-> s[i]] /\ \A i \in 1 .. Len(s) : s[i] \in S
    BY <2>1, <2>2
  <2>4. QED
    BY <2>2, <2>3
<1>3. x \in S
  BY <1>1
<1>4. Append(s, x) \in Seq(S) /\ Len(s) \in Nat /\ Len(Append(s, x)) = Len(s) + 1
  BY <1>2, <1>3
<1>5. /\ \A j \in 1 .. Len(s) : Append(s, x)[j] = s[j]
      /\ Append(s, x)[Len(s) + 1] = x
  BY <1>2, <1>3, <1>4
<1>6. IsSeq(Append(s, x))
  BY <1>4, SeqIs
<1>7. QED
  BY <1>4, <1>5, <1>6 DEF Extends

LEMMA LevelIs ==
    ASSUME NEW x, Len(x) \in Nat
    PROVE  /\ Len(Level(x)) = (Len(x) + 1) \div 2
           /\ \A k \in 1 .. (Len(x) + 1) \div 2 :
                  /\ 2 * k <= Len(x) => Level(x)[k] = Combine(x[2 * k - 1], x[2 * k])
                  /\ 2 * k > Len(x) => Level(x)[k] = x[2 * k - 1]
<1>1. PICK c : c = (Len(x) + 1) \div 2 /\ c \in Nat
  OBVIOUS
<1>2. Level(x) = [k \in 1 .. c |->
                     IF 2 * k <= Len(x) THEN Combine(x[2 * k - 1], x[2 * k]) ELSE x[2 * k - 1]]
  BY <1>1 DEF Level
<1>3. PICK y : y = Level(x)
  OBVIOUS
<1>4. Len(y) = c
  BY <1>1, <1>2, <1>3
<1>5. \A k \in 1 .. c : y[k] = IF 2 * k <= Len(x) THEN Combine(x[2 * k - 1], x[2 * k])
                                                 ELSE x[2 * k - 1]
  BY <1>2, <1>3
<1>6. \A k \in 1 .. c : 2 * k > Len(x) <=> ~(2 * k <= Len(x))
  BY <1>1
<1>7. QED
  BY <1>1, <1>3, <1>4, <1>5, <1>6

(* One round up.                                                           *)
LEMMA ClimbRises ==
    ASSUME NEW m \in Nat, NEW k \in 0 .. 29, NEW way, OnLevel(way, k, m)
    PROVE  /\ OnLevel(Climb(way), k + 1, m) /\ Climb(way).nodes = Level(way.nodes)
           /\ Rises(way, Climb(way), k, m)
<1>1. PICK x, a, l, p, c, w :
          /\ x = way.nodes /\ a = way.at /\ l = way.lemma /\ p = way.path /\ c = Len(x)
          /\ w = Two[k]
  OBVIOUS
<1>2. /\ c \in Nat \ {0} /\ a \in 1 .. c
      /\ (c - 1) * w < m /\ m <= c * w
      /\ p \in Seq(BOOLEAN) /\ IsSeq(l) /\ Len(l) = Len(p) + 1
  BY <1>1 DEF OnLevel
<1>3. w \in Nat \ {0} /\ Two[k + 1] = 2 * w
  <2>1. k \in 0 .. 30
    OBVIOUS
  <2>2. QED
    BY <1>1, <2>1, TwoIs
<1>4. Pairs(a, c, w, m)
  BY <1>2, <1>3, Pairing
<1>5. PICK b, d : /\ b = (a + 1) \div 2 /\ d = (c + 1) \div 2
                  /\ d \in Nat \ {0} /\ b \in 1 .. d
                  /\ (d - 1) * (2 * w) < m /\ m <= d * (2 * w)
  BY <1>4 DEF Pairs
<1>6. PICK sibling, up, alone : /\ sibling = IF a % 2 = 1 THEN a + 1 ELSE a - 1
                                /\ alone = (sibling > c)
                                /\ up = Climb(way)
  OBVIOUS
<1>7. up = [nodes |-> Level(x), at |-> b,
            lemma |-> IF sibling > c THEN l ELSE Append(l, x[sibling]),
            path |-> IF sibling > c THEN p ELSE Append(p, a % 2 = 1)]
  BY <1>1, <1>5, <1>6 DEF Climb
<1>8. /\ up.nodes = Level(x) /\ up.at = b
      /\ up.lemma = IF sibling > c THEN l ELSE Append(l, x[sibling])
      /\ up.path = IF sibling > c THEN p ELSE Append(p, a % 2 = 1)
  BY <1>7
<1>9. /\ Len(Level(x)) = d
      /\ 2 * b <= c => Level(x)[b] = Combine(x[2 * b - 1], x[2 * b])
      /\ 2 * b > c => Level(x)[b] = x[2 * b - 1]
  BY <1>1, <1>2, <1>5, LevelIs
<1>10. /\ IsSeq(Append(l, x[sibling])) /\ Extends(Append(l, x[sibling]), l, x[sibling])
       /\ Append(p, a % 2 = 1) \in Seq(BOOLEAN)
       /\ Extends(Append(p, a % 2 = 1), p, a % 2 = 1)
  <2>1. IsSeq(p)
    BY <1>2, SeqIs
  <2>2. PICK left \in BOOLEAN : left = (a % 2 = 1)
    OBVIOUS
  <2>3. Append(p, left) \in Seq(BOOLEAN)
    BY <1>2, <2>2
  <2>4. Extends(Append(p, left), p, left)
    BY <2>1, SeqExtends
  <2>5. QED
    BY <1>2, <2>2, <2>3, <2>4, SeqExtends
<1>11. OnLevel(up, k + 1, m)
  <2>1. /\ up = [nodes |-> up.nodes, at |-> up.at, lemma |-> up.lemma, path |-> up.path]
    BY <1>7, <1>8
  <2>2. /\ up.path \in Seq(BOOLEAN) /\ IsSeq(up.lemma)
        /\ Len(up.lemma) = Len(up.path) + 1
    BY <1>2, <1>8, <1>10 DEF Extends
  <2>3. QED
    BY <1>3, <1>5, <1>8, <1>9, <2>1, <2>2 DEF OnLevel
<1>12. /\ Above(up, k + 1) = Before(b, 2 * w) /\ Below(up, k + 1, m) = Under(b, 2 * w, m)
       /\ Above(way, k) = Before(a, w) /\ Below(way, k, m) = Under(a, w, m)
       /\ Hash(up) = Level(x)[b] /\ Hash(way) = x[a]
  BY <1>1, <1>3, <1>8 DEF Above, Below, Hash
<1>13. w < Under(b, 2 * w, m) /\ Under(b, 2 * w, m) <= 2 * w
           => LeftSide(Under(b, 2 * w, m)) = w
  <2>1. Under(b, 2 * w, m) \in Int
    <3>1. (b - 1) * (2 * w) \in Int
      BY <1>3, <1>5
    <3>2. QED
      BY <1>3, <3>1 DEF Under
  <2>2. QED
    BY <1>1, <1>3, <2>1, LeftSideIs
<1>14. Rises(way, up, k, m)
  <2>1. CASE /\ a % 2 = 1 /\ a + 1 > c /\ a = c /\ 2 * b > c /\ 2 * b - 1 = a
             /\ Before(b, 2 * w) = Before(a, w) /\ Under(b, 2 * w, m) = Under(a, w, m)
    <3>1. sibling > c
      BY <1>6, <2>1
    <3>2. QED
      BY <1>1, <1>8, <1>9, <1>12, <2>1, <3>1 DEF Rises
  <2>2. CASE /\ a % 2 = 1 /\ a + 1 <= c /\ 2 * b <= c /\ 2 * b - 1 = a /\ 2 * b = a + 1
             /\ Before(b, 2 * w) = Before(a, w) /\ Under(a, w, m) = w
             /\ w < Under(b, 2 * w, m) /\ Under(b, 2 * w, m) <= 2 * w
    <3>1. sibling = a + 1 /\ ~(sibling > c) /\ (a % 2 = 1) = TRUE
      BY <1>2, <1>6, <2>2
    <3>2. /\ Extends(up.path, p, TRUE) /\ Extends(up.lemma, l, x[sibling])
      BY <1>8, <1>10, <3>1
    <3>3. Hash(up) = Combine(Hash(way), x[sibling])
      BY <1>9, <1>12, <2>2, <3>1
    <3>4. QED
      BY <1>1, <1>12, <1>13, <2>2, <3>2, <3>3 DEF Rises
  <2>3. CASE /\ a % 2 # 1 /\ a - 1 >= 1 /\ a - 1 <= c /\ 2 * b <= c /\ 2 * b = a
             /\ Before(a, w) = Before(b, 2 * w) + w
             /\ w < Under(b, 2 * w, m) /\ Under(b, 2 * w, m) <= 2 * w
             /\ Under(a, w, m) = Under(b, 2 * w, m) - w
    <3>1. sibling = a - 1 /\ ~(sibling > c) /\ (a % 2 = 1) = FALSE
      BY <1>2, <1>6, <2>3
    <3>2. /\ Extends(up.path, p, FALSE) /\ Extends(up.lemma, l, x[sibling])
      BY <1>8, <1>10, <3>1
    <3>3. Hash(up) = Combine(x[sibling], Hash(way))
      BY <1>9, <1>12, <2>3, <3>1
    <3>4. QED
      BY <1>1, <1>12, <1>13, <2>3, <3>2, <3>3 DEF Rises
  <2>4. QED
    BY <1>4, <1>5, <2>1, <2>2, <2>3 DEF Pairs
<1>15. QED
  BY <1>1, <1>6, <1>8, <1>11, <1>14

(* The whole way up, of r rounds, from leaf i.                             *)
Way(w, hashes, i, m, r) ==
    /\ w[0] = WayFrom(hashes, i)
    /\ \A k \in 0 .. r : OnLevel(w[k], k, m)
    /\ \A k \in 0 .. r - 1 : /\ w[k + 1].nodes = Level(w[k].nodes)
                             /\ Rises(w[k], w[k + 1], k, m)

LEMMA WayIs ==
    ASSUME NEW hashes, NEW m \in Nat \ {0}, IsSeq(hashes), Len(hashes) = m, NEW i \in 1 .. m,
           NEW r \in 0 .. 30, NEW w, Steps(w, [kind |-> "climb"], WayFrom(hashes, i), r)
    PROVE  Way(w, hashes, i, m, r)
<1>1. w[0] = WayFrom(hashes, i) /\ \A k \in 1 .. r : w[k] = Climb(w[k - 1])
  BY DEF Steps, FoldStep
<1>2. OnLevel(w[0], 0, m)
  <2>1. PICK l, p : l = <<hashes[i]>> /\ p = << >>
    OBVIOUS
  <2>2. w[0] = [nodes |-> hashes, at |-> i, lemma |-> l, path |-> p]
    BY <1>1, <2>1 DEF WayFrom
  <2>3. p \in Seq(BOOLEAN) /\ Len(p) = 0
    BY <2>1, EmptySeq
  <2>4. IsSeq(l) /\ Len(l) = 1
    <3>1. PICK S : S = {hashes[i]}
      OBVIOUS
    <3>2. l \in Seq(S) /\ Len(l) = 1
      BY <2>1, <3>1
    <3>3. QED
      BY <3>2, SeqIs
  <2>5. (m - 1) * Two[0] < m /\ m <= m * Two[0]
    <3>1. Two[0] = 1
      BY TwoIs
    <3>2. QED
      BY <3>1
  <2>6. /\ w[0].nodes = hashes /\ w[0].at = i /\ w[0].lemma = l /\ w[0].path = p
    BY <2>2
  <2>7. QED
    BY <2>2, <2>3, <2>4, <2>5, <2>6 DEF OnLevel
<1>3. \A k \in 0 .. r : OnLevel(w[k], k, m)
  <2> DEFINE Fails == {k \in Nat : k \in 0 .. r /\ ~OnLevel(w[k], k, m)}
  <2>1. ASSUME Fails # {} PROVE FALSE
    <3>1. PICK k \in Fails : \A x \in Fails : k <= x
      BY <2>1, Least
    <3>2. CASE k = 0
      BY <1>2, <3>2
    <3>3. CASE k # 0
      <4>1. PICK j \in 0 .. 29 : j = k - 1 /\ j + 1 = k /\ j \in 0 .. r
        BY <3>3
      <4>2. j \notin Fails
        BY <3>1, <4>1
      <4>3. OnLevel(w[j], j, m)
        BY <4>1, <4>2
      <4>4. OnLevel(Climb(w[j]), j + 1, m)
        BY <4>3, ClimbRises
      <4>5. w[k] = Climb(w[j])
        BY <1>1, <3>3, <4>1
      <4>6. QED
        BY <4>1, <4>4, <4>5
    <3>4. QED
      BY <3>2, <3>3
  <2>2. QED
    BY <2>1
<1>4. ASSUME NEW k \in 0 .. r - 1
      PROVE  /\ w[k + 1].nodes = Level(w[k].nodes)
             /\ Rises(w[k], w[k + 1], k, m)
  <2>1. k \in 0 .. 29 /\ k \in 0 .. r /\ k + 1 \in 1 .. r /\ (k + 1) - 1 = k
    OBVIOUS
  <2>2. w[k + 1] = Climb(w[k])
    BY <1>1, <2>1
  <2>3. OnLevel(w[k], k, m)
    BY <1>3, <2>1
  <2>4. Climb(w[k]).nodes = Level(w[k].nodes) /\ Rises(w[k], Climb(w[k]), k, m)
    BY <2>1, <2>3, ClimbRises
  <2>5. QED
    BY <2>2, <2>4
<1>5. QED
  BY <1>1, <1>3, <1>4 DEF Way

(* Its end is the root, with all the leaves below it.                      *)
AtRoot(way, r, m) == way.at = 1 /\ Above(way, r) = 0 /\ Below(way, r, m) = m

LEMMA WayEnds ==
    ASSUME NEW hashes, NEW m \in Nat \ {0}, NEW i \in 1 .. m, NEW r \in 0 .. 30, m <= Two[r],
           NEW w, Way(w, hashes, i, m, r)
    PROVE  AtRoot(w[r], r, m)
<1>1. OnLevel(w[r], r, m)
  BY DEF Way
<1>2. PICK c, a, t : c = Len(w[r].nodes) /\ a = w[r].at /\ t = Two[r]
  OBVIOUS
<1>3. /\ c \in Nat \ {0} /\ a \in 1 .. c /\ (c - 1) * t < m /\ t \in Nat \ {0}
  BY <1>1, <1>2, TwoIs DEF OnLevel
<1>4. c = 1
  <2>1. (c - 1) * t < 1 * t
    <3>1. (c - 1) * t \in Int /\ 1 * t = t
      BY <1>3
    <3>2. QED
      BY <1>2, <1>3, <3>1
  <2>2. c - 1 < 1
    BY <1>3, <2>1, TimesOrders
  <2>3. QED
    BY <1>3, <2>2
<1>5. a = 1 /\ (a - 1) * t = 0
  BY <1>3, <1>4
<1>6. QED
  BY <1>2, <1>3, <1>5 DEF AtRoot, Above, Below, Before, Under

(* What the way has gathered on a level stays at its place.                *)
Starts(u, s) == Len(s) <= Len(u) /\ \A j \in 1 .. Len(s) : u[j] = s[j]

LEMMA WayStarts ==
    ASSUME NEW hashes, NEW m \in Nat \ {0}, NEW i \in 1 .. m, NEW r \in 0 .. 30,
           NEW w, Way(w, hashes, i, m, r)
    PROVE  \A k \in 0 .. r : Starts(w[r].path, w[k].path) /\ Starts(w[r].lemma, w[k].lemma)
<1>1. \A k \in 0 .. r : Len(w[k].path) \in Nat /\ Len(w[k].lemma) \in Nat
  <2>1. ASSUME NEW k \in 0 .. r PROVE Len(w[k].path) \in Nat /\ Len(w[k].lemma) \in Nat
    <3>1. OnLevel(w[k], k, m)
      BY DEF Way
    <3>2. w[k].path \in Seq(BOOLEAN) /\ Len(w[k].lemma) = Len(w[k].path) + 1
      BY <3>1 DEF OnLevel
    <3>3. Len(w[k].path) \in Nat
      BY <3>2, LenProperties
    <3>4. QED
      BY <3>2, <3>3
  <2>2. QED
    BY <2>1
<1>2. ASSUME NEW k \in 0 .. r - 1
      PROVE  Starts(w[k + 1].path, w[k].path) /\ Starts(w[k + 1].lemma, w[k].lemma)
  <2>1. Rises(w[k], w[k + 1], k, m) /\ k \in 0 .. r
    BY DEF Way
  <2>2. Len(w[k].path) \in Nat /\ Len(w[k].lemma) \in Nat
    BY <1>1, <2>1
  <2>3. \A u, s, x : Extends(u, s, x) => Starts(u, s)
    BY DEF Extends, Starts
  <2>4. \A s : Len(s) \in Nat => Starts(s, s)
    BY DEF Starts
  <2>5. QED
    BY <2>1, <2>2, <2>3, <2>4 DEF Rises
<1> DEFINE Holds(k) == Starts(w[r].path, w[k].path) /\ Starts(w[r].lemma, w[k].lemma)
           Fails == {x \in Nat : x \in 0 .. r /\ ~Holds(r - x)}
<1>3. Fails = {}
  <2> SUFFICES ASSUME Fails # {} PROVE FALSE
    OBVIOUS
  <2> HIDE DEF Holds
  <2>1. PICK x \in Fails : \A y \in Fails : x <= y
    BY Least
  <2>2. CASE x = 0
    <3>1. r - x = r /\ r \in 0 .. r
      BY <2>2
    <3>2. Holds(r)
      BY <1>1, <3>1 DEF Holds, Starts
    <3>3. QED
      BY <3>1, <3>2
  <2>3. CASE x # 0
    <3>1. PICK k \in 0 .. r - 1 : k = r - x /\ k + 1 = r - (x - 1) /\ x - 1 \in 0 .. r
      BY <2>3
    <3>2. x - 1 \notin Fails
      BY <2>1, <2>3, <3>1
    <3>3. Holds(k + 1)
      BY <3>1, <3>2
    <3>4. Starts(w[k + 1].path, w[k].path) /\ Starts(w[k + 1].lemma, w[k].lemma)
      BY <1>2
    <3>5. ASSUME NEW a, NEW b, NEW c, Len(a) \in Nat, Len(b) \in Nat, Len(c) \in Nat,
                 Starts(a, b), Starts(b, c)
          PROVE  Starts(a, c)
      <4>1. Len(c) <= Len(b) /\ Len(b) <= Len(a)
        BY <3>5 DEF Starts
      <4>2. ASSUME NEW j \in 1 .. Len(c) PROVE a[j] = c[j]
        <5>1. j \in 1 .. Len(b)
          BY <3>5, <4>1
        <5>2. a[j] = b[j] /\ b[j] = c[j]
          BY <3>5, <5>1 DEF Starts
        <5>3. QED
          BY <5>2
      <4>3. QED
        BY <3>5, <4>1, <4>2 DEF Starts
    <3>6. k \in 0 .. r /\ k + 1 \in 0 .. r /\ r \in 0 .. r
      OBVIOUS
    <3>7. Holds(k)
      BY <1>1, <3>3, <3>4, <3>5, <3>6 DEF Holds
    <3>8. QED
      BY <3>1, <3>7
  <2>4. QED
    BY <2>2, <2>3
<1>4. ASSUME NEW k \in 0 .. r PROVE Holds(k)
  <2>1. r - k \in Nat /\ r - k \in 0 .. r /\ r - (r - k) = k
    OBVIOUS
  <2> HIDE DEF Holds
  <2>2. QED
    BY <1>3, <2>1
<1>5. QED
  BY <1>4

(* The root the proof ends in is the root of the tree.                     *)
EndsInRoot(w, v, r) == Hash(w[r]) = v[r][1]

LEMMA WayEndsInRoot ==
    ASSUME NEW hashes, NEW m \in Nat \ {0}, NEW i \in 1 .. m, NEW r \in 0 .. 30, m <= Two[r],
           NEW w, Way(w, hashes, i, m, r),
           NEW v, Steps(v, [kind |-> "level"], hashes, r)
    PROVE  EndsInRoot(w, v, r)
<1>1. v[0] = hashes /\ \A k \in 1 .. r : v[k] = Level(v[k - 1])
  BY DEF Steps, FoldStep
<1>2. /\ w[0].nodes = hashes
      /\ \A k \in 0 .. r - 1 : w[k + 1].nodes = Level(w[k].nodes)
  BY DEF Way, WayFrom
<1>3. w[r].nodes = v[r]
  <2> DEFINE Same(k) == w[k].nodes = v[k]
             Fails == {x \in Nat : x \in 0 .. r /\ ~Same(x)}
  <2> HIDE DEF Same
  <2>1. ASSUME Fails # {} PROVE FALSE
    <3>1. PICK k \in Fails : \A x \in Fails : k <= x
      BY <2>1, Least
    <3>2. CASE k = 0
      BY <1>1, <1>2, <3>2 DEF Same
    <3>3. CASE k # 0
      <4>1. PICK j \in 0 .. r - 1 : j = k - 1 /\ j + 1 = k /\ j \in 0 .. r
        BY <3>3
      <4>2. j \notin Fails
        BY <3>1, <4>1
      <4>3. Same(j)
        BY <4>1, <4>2
      <4>4. k \in 1 .. r
        BY <3>3
      <4>5. v[k] = Level(v[j])
        BY <1>1, <4>1, <4>4
      <4>6. w[k].nodes = Level(w[j].nodes)
        BY <1>2, <4>1
      <4>7. Same(k)
        BY <4>3, <4>5, <4>6 DEF Same
      <4>8. QED
        BY <4>7
    <3>4. QED
      BY <3>2, <3>3
  <2>2. r \in Nat /\ r \in 0 .. r
    OBVIOUS
  <2>3. Same(r)
    BY <2>1, <2>2
  <2>4. QED
    BY <2>3 DEF Same
<1>4. AtRoot(w[r], r, m)
  BY WayEnds
<1>5. QED
  BY <1>3, <1>4 DEF Hash, AtRoot, EndsInRoot

(* Going down the same path finds the leaves before each of its nodes and  *)
(* those below it.                                                         *)
LEMMA DescendIs ==
    ASSUME NEW p, NEW c
    PROVE  /\ Descend([position |-> p, count |-> c], TRUE)
                  = [position |-> p, count |-> LeftSide(c)]
           /\ Descend([position |-> p, count |-> c], FALSE)
                  = [position |-> p + LeftSide(c), count |-> c - LeftSide(c)]
<1>1. PICK s, l : s = [position |-> p, count |-> c] /\ l = LeftSide(c)
  OBVIOUS
<1>2. s.position = p /\ s.count = c
  BY <1>1
<1>3. [s EXCEPT !.count = l] = [position |-> p, count |-> l]
  BY <1>1
<1>4. Descend(s, TRUE) = [s EXCEPT !.count = l]
  BY <1>1, <1>2 DEF Descend
<1>5. Descend(s, FALSE) = [position |-> p + l, count |-> c - l]
  BY <1>1, <1>2 DEF Descend
<1>6. QED
  BY <1>1, <1>3, <1>4, <1>5

DescendsTo(s, w, k, d, m) ==
    s[d - Len(w[k].path)] = [position |-> Above(w[k], k), count |-> Below(w[k], k, m)]

LEMMA DescendPasses ==
    ASSUME NEW hashes, NEW m \in Nat \ {0}, NEW i \in 1 .. m, NEW r \in 0 .. 30, m <= Two[r],
           NEW w, Way(w, hashes, i, m, r),
           NEW d, d = Len(w[r].path),
           NEW s, Steps(s, [kind |-> "descend", path |-> Reverse(w[r].path)],
                        [position |-> 0, count |-> m], d)
    PROVE  DescendsTo(s, w, 0, d, m)
<1>0. Above(w[r], r) = 0 /\ Below(w[r], r, m) = m
  <2>1. AtRoot(w[r], r, m)
    BY WayEnds
  <2>2. QED
    BY <2>1 DEF AtRoot
<1>1. /\ d \in Nat
      /\ \A k \in 0 .. r : Len(w[k].path) \in Nat /\ Starts(w[r].path, w[k].path)
  <2>1. ASSUME NEW k \in 0 .. r PROVE Len(w[k].path) \in Nat
    <3>1. OnLevel(w[k], k, m)
      BY DEF Way
    <3>2. QED
      BY <3>1, LenProperties DEF OnLevel
  <2>2. \A k \in 0 .. r : Starts(w[r].path, w[k].path)
    BY WayStarts
  <2>3. r \in 0 .. r
    OBVIOUS
  <2>4. QED
    BY <2>1, <2>2, <2>3
<1>2. PICK path : path = w[r].path /\ path \in Seq(BOOLEAN) /\ Len(path) = d
  <2>1. OnLevel(w[r], r, m)
    BY DEF Way
  <2>2. QED
    BY <2>1 DEF OnLevel
<1>3. \A j \in 1 .. d : Reverse(path)[j] = path[(d - j) + 1]
  BY <1>1, <1>2 DEF Reverse
<1>4. /\ s[0] = [position |-> 0, count |-> m]
      /\ \A j \in 1 .. d : s[j] = Descend(s[j - 1], path[(d - j) + 1])
  <2>1. PICK how : how = [kind |-> "descend", path |-> Reverse(path)]
    OBVIOUS
  <2>2. \A x, j : FoldStep(how, x, j) = Descend(x, Reverse(path)[j])
    BY <2>1 DEF FoldStep
  <2>3. /\ s[0] = [position |-> 0, count |-> m]
        /\ \A j \in 1 .. d : s[j] = FoldStep(how, s[j - 1], j)
    BY <1>2, <2>1 DEF Steps
  <2>4. ASSUME NEW j \in 1 .. d PROVE s[j] = Descend(s[j - 1], path[(d - j) + 1])
    BY <1>3, <2>2, <2>3
  <2>5. QED
    BY <2>3, <2>4
<1>5. DescendsTo(s, w, r, d, m)
  <2>1. d - Len(w[r].path) = 0
    BY <1>1, <1>2
  <2>2. QED
    BY <1>0, <1>4, <2>1 DEF DescendsTo
<1>6. ASSUME NEW k \in 0 .. r - 1, DescendsTo(s, w, k + 1, d, m) PROVE DescendsTo(s, w, k, d, m)
  <2>1. k \in 0 .. r /\ k + 1 \in 0 .. r
    OBVIOUS
  <2>2. Rises(w[k], w[k + 1], k, m)
    BY DEF Way
  <2>3. PICK low, high, n : low = w[k].path /\ high = w[k + 1].path /\ n = Len(low)
    OBVIOUS
  <2>4. PICK p, c : p = Above(w[k + 1], k + 1) /\ c = Below(w[k + 1], k + 1, m)
    OBVIOUS
  <2>5. s[d - Len(high)] = [position |-> p, count |-> c]
    BY <1>6, <2>3, <2>4 DEF DescendsTo
  <2>6. ASSUME NEW left \in BOOLEAN, Extends(high, low, left)
        PROVE  s[d - n] = Descend([position |-> p, count |-> c], left)
    <3>1. n \in Nat /\ Len(high) = n + 1 /\ high[n + 1] = left
      BY <2>3, <2>6 DEF Extends
    <3>2. Len(high) <= d /\ path[n + 1] = high[n + 1]
      <4>1. Starts(path, high)
        BY <1>1, <1>2, <2>1, <2>3
      <4>2. n + 1 \in 1 .. Len(high)
        BY <3>1
      <4>3. QED
        BY <1>2, <4>1, <4>2 DEF Starts
    <3>3. PICK j \in 1 .. d : j = d - n /\ (d - j) + 1 = n + 1 /\ j - 1 = d - Len(high)
      <4>1. d \in Nat /\ n \in Nat /\ Len(high) = n + 1 /\ n + 1 <= d
        BY <1>1, <3>1, <3>2
      <4>2. d - n \in 1 .. d
        BY <4>1
      <4>3. (d - (d - n)) + 1 = n + 1 /\ (d - n) - 1 = d - Len(high)
        BY <4>1
      <4>4. QED
        BY <4>2, <4>3
    <3>4. s[j] = Descend(s[j - 1], path[(d - j) + 1])
      BY <1>4, <3>3
    <3>5. QED
      BY <2>5, <3>1, <3>2, <3>3, <3>4
  <2>7. DescendsTo(s, w, k, d, m) <=>
            s[d - n] = [position |-> Above(w[k], k), count |-> Below(w[k], k, m)]
    BY <2>3 DEF DescendsTo
  <2>8. CASE /\ high = low /\ Above(w[k + 1], k + 1) = Above(w[k], k)
             /\ Below(w[k + 1], k + 1, m) = Below(w[k], k, m)
    BY <2>3, <2>4, <2>5, <2>7, <2>8
  <2>9. CASE /\ Extends(high, low, TRUE) /\ Above(w[k], k) = Above(w[k + 1], k + 1)
             /\ Below(w[k], k, m) = LeftSide(Below(w[k + 1], k + 1, m))
    <3>1. s[d - n] = Descend([position |-> p, count |-> c], TRUE)
      BY <2>6, <2>9
    <3>2. Descend([position |-> p, count |-> c], TRUE) = [position |-> p, count |-> LeftSide(c)]
      BY DescendIs
    <3>3. Above(w[k], k) = p /\ Below(w[k], k, m) = LeftSide(c)
      BY <2>4, <2>9
    <3>4. QED
      BY <2>7, <3>1, <3>2, <3>3
  <2>10. CASE /\ Extends(high, low, FALSE)
              /\ Above(w[k], k) = Above(w[k + 1], k + 1) + LeftSide(Below(w[k + 1], k + 1, m))
              /\ Below(w[k], k, m)
                     = Below(w[k + 1], k + 1, m) - LeftSide(Below(w[k + 1], k + 1, m))
    <3>1. s[d - n] = Descend([position |-> p, count |-> c], FALSE)
      BY <2>6, <2>10
    <3>2. PICK l : l = LeftSide(c)
      OBVIOUS
    <3>3. Descend([position |-> p, count |-> c], FALSE) = [position |-> p + l, count |-> c - l]
      BY <3>2, DescendIs
    <3>4. Above(w[k], k) = p + l /\ Below(w[k], k, m) = c - l
      BY <2>4, <2>10, <3>2
    <3>5. QED
      BY <2>7, <3>1, <3>3, <3>4
  <2>11. QED
    BY <2>2, <2>3, <2>8, <2>9, <2>10 DEF Rises
<1> DEFINE Fails == {x \in Nat : x \in 0 .. r /\ ~DescendsTo(s, w, r - x, d, m)}
<1>7. Fails = {}
  <2> SUFFICES ASSUME Fails # {} PROVE FALSE
    OBVIOUS
  <2>1. PICK x \in Fails : \A y \in Fails : x <= y
    BY Least
  <2>2. CASE x = 0
    <3>1. r - x = r
      BY <2>2
    <3>2. QED
      BY <1>5, <3>1
  <2>3. CASE x # 0
    <3>1. PICK k \in 0 .. r - 1 : k = r - x /\ k + 1 = r - (x - 1) /\ x - 1 \in 0 .. r
      BY <2>3
    <3>2. x - 1 \notin Fails
      <4>1. x \in Nat /\ ~(x <= x - 1)
        OBVIOUS
      <4>2. QED
        BY <2>1, <4>1
    <3>3. DescendsTo(s, w, k + 1, d, m)
      BY <3>1, <3>2
    <3>4. QED
      BY <1>6, <3>1, <3>3
  <2>4. QED
    BY <2>2, <2>3
<1>8. QED
  <2>1. r \in Nat /\ r \in 0 .. r /\ r - r = 0
    OBVIOUS
  <2>2. QED
    BY <1>7, <2>1

LEMMA OneLong == ASSUME NEW x PROVE Len(<<x>>) = 1 /\ <<x>>[1] = x
  OBVIOUS

LEMMA RoundsUpTo ==
    ASSUME NEW r \in 0 .. 30
    PROVE  r \in 0 .. r /\ \A k \in 0 .. r - 1 : k \in 0 .. r /\ k + 1 \in 0 .. r
  OBVIOUS

(* Going up from the leaf with the proof's hashes meets the hashes of the  *)
(* way's nodes.                                                            *)
Meets(h, w, k) == h[Len(w[k].path)] = Hash(w[k])

LEMMA JoinMeets ==
    ASSUME NEW hashes, NEW m \in Nat \ {0}, NEW i \in 1 .. m, NEW r \in 0 .. 30,
           NEW w, Way(w, hashes, i, m, r),
           NEW d, d = Len(w[r].path),
           NEW proof, proof.path = w[r].path, Starts(proof.lemma, w[r].lemma),
           NEW h, Steps(h, [kind |-> "join", proof |-> proof], hashes[i], d)
    PROVE  Meets(h, w, r)
<1>1. \A k \in 0 .. r : /\ Len(w[k].path) \in Nat /\ Len(w[k].lemma) = Len(w[k].path) + 1
                        /\ Starts(w[r].path, w[k].path) /\ Starts(w[r].lemma, w[k].lemma)
  <2>1. ASSUME NEW k \in 0 .. r
        PROVE  Len(w[k].path) \in Nat /\ Len(w[k].lemma) = Len(w[k].path) + 1
    <3>1. OnLevel(w[k], k, m)
      BY DEF Way
    <3>2. QED
      BY <3>1, LenProperties DEF OnLevel
  <2>2. \A k \in 0 .. r : Starts(w[r].path, w[k].path) /\ Starts(w[r].lemma, w[k].lemma)
    BY WayStarts
  <2>3. QED
    BY <2>1, <2>2
<1>2. r \in 0 .. r /\ d \in Nat
  <2>1. r \in 0 .. r
    BY RoundsUpTo
  <2>2. QED
    BY <1>1, <2>1
<1>3. PICK path, lemma, siblings : /\ path = w[r].path /\ lemma = w[r].lemma
                                   /\ siblings = proof.lemma
  OBVIOUS
<1>4. /\ h[0] = hashes[i]
      /\ \A j \in 1 .. d :
            h[j] = IF path[j] THEN Combine(h[j - 1], siblings[j + 1])
                              ELSE Combine(siblings[j + 1], h[j - 1])
  <2>1. PICK how : how = [kind |-> "join", proof |-> proof]
    OBVIOUS
  <2>2. \A x, j : FoldStep(how, x, j) = Join(proof, x, j)
    BY <2>1 DEF FoldStep
  <2>3. /\ h[0] = hashes[i]
        /\ \A j \in 1 .. d : h[j] = FoldStep(how, h[j - 1], j)
    BY <2>1 DEF Steps
  <2>4. ASSUME NEW j \in 1 .. d
        PROVE  h[j] = IF path[j] THEN Combine(h[j - 1], siblings[j + 1])
                                 ELSE Combine(siblings[j + 1], h[j - 1])
    <3>1. h[j] = Join(proof, h[j - 1], j)
      BY <2>2, <2>3
    <3>2. QED
      BY <1>3, <3>1 DEF Join
  <2>5. QED
    BY <2>3, <2>4
<1>5. Meets(h, w, 0)
  <2>1. w[0] = WayFrom(hashes, i)
    BY DEF Way
  <2>2. PICK p : p = << >> /\ Len(p) = 0
    BY EmptySeq
  <2>3. w[0].path = p /\ w[0].nodes = hashes /\ w[0].at = i
    BY <2>1, <2>2 DEF WayFrom
  <2>4. QED
    BY <1>4, <2>2, <2>3 DEF Meets, Hash
<1>6. ASSUME NEW k \in 0 .. r - 1, Meets(h, w, k) PROVE Meets(h, w, k + 1)
  <2>1. k \in 0 .. r /\ k + 1 \in 0 .. r
    BY RoundsUpTo
  <2>2. Rises(w[k], w[k + 1], k, m)
    BY DEF Way
  <2>3. PICK low, high, n, under, over :
            /\ low = w[k].path /\ high = w[k + 1].path /\ n = Len(low)
            /\ under = w[k].lemma /\ over = w[k + 1].lemma
    OBVIOUS
  <2>4. n \in Nat /\ Len(under) = n + 1 /\ h[n] = Hash(w[k])
    BY <1>1, <1>6, <2>1, <2>3 DEF Meets
  <2>5. Starts(path, high) /\ Starts(lemma, over) /\ Starts(siblings, lemma)
    BY <1>1, <1>3, <2>1, <2>3
  <2>6. ASSUME NEW left \in BOOLEAN, NEW sibling,
               Extends(high, low, left), Extends(over, under, sibling)
        PROVE  h[Len(high)] = IF left THEN Combine(Hash(w[k]), sibling)
                                      ELSE Combine(sibling, Hash(w[k]))
    <3>1. Len(high) = n + 1 /\ high[n + 1] = left
      BY <2>3, <2>6 DEF Extends
    <3>2. Len(over) = n + 2 /\ over[n + 2] = sibling
      <4>1. Len(over) = (n + 1) + 1 /\ over[(n + 1) + 1] = sibling
        BY <2>4, <2>6 DEF Extends
      <4>2. (n + 1) + 1 = n + 2
        BY <2>4
      <4>3. QED
        BY <4>1, <4>2
    <3>3. n + 1 <= d /\ path[n + 1] = left
      <4>1. n + 1 \in 1 .. Len(high)
        BY <2>4, <3>1
      <4>2. QED
        BY <1>3, <2>5, <3>1, <4>1 DEF Starts
    <3>4. siblings[n + 2] = sibling
      <4>1. n + 2 \in 1 .. Len(over)
        BY <2>4, <3>2
      <4>2. lemma[n + 2] = sibling /\ Len(over) <= Len(lemma)
        BY <2>5, <3>2, <4>1 DEF Starts
      <4>3. Len(lemma) = d + 1
        BY <1>1, <1>2, <1>3
      <4>4. n + 2 \in 1 .. Len(lemma)
        BY <1>2, <2>4, <3>2, <4>2, <4>3
      <4>5. siblings[n + 2] = lemma[n + 2]
        BY <2>5, <4>4 DEF Starts
      <4>6. QED
        BY <4>2, <4>5
    <3>5. PICK j \in 1 .. d : j = n + 1 /\ j - 1 = n /\ j + 1 = n + 2
      <4>1. n + 1 \in 1 .. d /\ (n + 1) - 1 = n /\ (n + 1) + 1 = n + 2
        BY <1>2, <2>4, <3>3
      <4>2. QED
        BY <4>1
    <3>6. h[j] = IF left THEN Combine(h[n], sibling) ELSE Combine(sibling, h[n])
      BY <1>4, <3>3, <3>4, <3>5
    <3>7. QED
      BY <2>4, <3>1, <3>5, <3>6
  <2>7. Meets(h, w, k + 1) <=> h[Len(high)] = Hash(w[k + 1])
    BY <2>3 DEF Meets
  <2>8. CASE high = low /\ Hash(w[k + 1]) = Hash(w[k])
    BY <2>3, <2>4, <2>7, <2>8
  <2>9. ASSUME NEW sibling, Extends(high, low, TRUE), Extends(over, under, sibling),
               Hash(w[k + 1]) = Combine(Hash(w[k]), sibling)
        PROVE  Meets(h, w, k + 1)
    <3>1. h[Len(high)] = IF TRUE THEN Combine(Hash(w[k]), sibling)
                                 ELSE Combine(sibling, Hash(w[k]))
      BY <2>6, <2>9
    <3>2. QED
      BY <2>7, <2>9, <3>1
  <2>10. ASSUME NEW sibling, Extends(high, low, FALSE), Extends(over, under, sibling),
                Hash(w[k + 1]) = Combine(sibling, Hash(w[k]))
         PROVE  Meets(h, w, k + 1)
    <3>1. h[Len(high)] = IF FALSE THEN Combine(Hash(w[k]), sibling)
                                  ELSE Combine(sibling, Hash(w[k]))
      BY <2>6, <2>10
    <3>2. QED
      BY <2>7, <2>10, <3>1
  <2>11. QED
    BY <2>2, <2>3, <2>8, <2>9, <2>10 DEF Rises
<1> DEFINE Fails == {x \in Nat : x \in 0 .. r /\ ~Meets(h, w, x)}
<1>7. ASSUME Fails # {} PROVE FALSE
  <2>1. PICK k \in Fails : \A x \in Fails : k <= x
    BY <1>7, Least
  <2>2. CASE k = 0
    BY <1>5, <2>2
  <2>3. CASE k # 0
    <3>1. PICK j \in 0 .. r - 1 : j = k - 1 /\ j + 1 = k /\ j \in 0 .. r
      BY <2>3
    <3>2. j \notin Fails
      BY <2>1, <3>1
    <3>3. Meets(h, w, j)
      BY <3>1, <3>2
    <3>4. QED
      BY <1>6, <3>1, <3>3
  <2>4. QED
    BY <2>2, <2>3
<1>8. QED
  BY <1>2, <1>7

(* A proof whose parts fit is judged by the position alone.                *)
Fits(proof, root, hash, p, m) ==
    /\ WellFormed(proof) /\ hash = Head(proof.lemma)
    /\ Len(proof.lemma) > 1 => root = Last(proof.lemma)
    /\ CalculateProofPosition(proof.path, m) = p /\ ValidRoot(proof)

Verdict(index, p) == IF index = p THEN "valid" ELSE "position mismatch"

LEMMA FitsIsJudged ==
    ASSUME NEW proof, NEW root, NEW hash, NEW p, NEW m, NEW index, Fits(proof, root, hash, p, m)
    PROVE  Validate(proof, root, hash, index, m) = Verdict(index, p)
<1>1. PICK formed, content, ended, valid, position :
          /\ formed = WellFormed(proof) /\ content = (hash # Head(proof.lemma))
          /\ ended = (Len(proof.lemma) > 1 /\ root # Last(proof.lemma))
          /\ valid = ValidRoot(proof) /\ position = CalculateProofPosition(proof.path, m)
  OBVIOUS
<1>2. formed /\ ~content /\ ~ended /\ valid /\ position = p
  BY <1>1 DEF Fits
<1>3. /\ WellFormed(proof) /\ ~(~WellFormed(proof))
      /\ ~(WellFormed(proof) /\ hash # Head(proof.lemma))
      /\ ~(WellFormed(proof) /\ hash = Head(proof.lemma)
               /\ Len(proof.lemma) > 1 /\ root # Last(proof.lemma))
      /\ ValidRoot(proof) /\ CalculateProofPosition(proof.path, m) = p
  BY DEF Fits
<1>4. Validate(proof, root, hash, index, m)
          = IF CalculateProofPosition(proof.path, m) # index THEN "position mismatch"
            ELSE IF ValidRoot(proof) THEN "valid" ELSE "validation failure"
  BY <1>3 DEF Validate
<1>5. QED
  BY <1>3, <1>4 DEF Verdict

(* The proof of the only leaf.                                             *)
LEMMA OneFits ==
    ASSUME NEW hashes, IsSeq(hashes), Len(hashes) = 1
    PROVE  Fits(ProofAt(hashes, 1), RootHash(hashes), hashes[1], 0, 1)
<1>1. PICK path, proof : path = << >> /\ proof = [lemma |-> hashes, path |-> path]
  OBVIOUS
<1>2. ProofAt(hashes, 1) = proof
  BY <1>1 DEF ProofAt
<1>3. proof.path = path /\ proof.lemma = hashes /\ Len(path) = 0 /\ DOMAIN path = 1 .. 0
  BY <1>1, EmptySeq
<1>4. WellFormed(proof) /\ hashes[1] = Head(proof.lemma) /\ ~(Len(proof.lemma) > 1)
  <2>1. Head(hashes) = hashes[1]
    <3>1. PICK R : hashes \in Seq(R)
      BY DEF IsSeq
    <3>2. QED
      BY <3>1
  <2>2. proof.path = << >> /\ Len(proof.lemma) = 1
    BY <1>1, <1>3
  <2>3. WellFormed(proof)
    BY <2>2 DEF WellFormed
  <2>4. ~(Len(proof.lemma) > 1)
    BY <2>2
  <2>5. QED
    BY <1>3, <2>1, <2>3, <2>4
<1>5. CalculateProofPosition(path, 1) = 0
  <2>1. DOMAIN Reverse(path) = 1 .. 0
    BY <1>3 DEF Reverse
  <2>2. PICK s : /\ Steps(s, [kind |-> "descend", path |-> Reverse(path)],
                          [position |-> 0, count |-> 1], 0)
                 /\ Descended(path, 1) = s[0]
    <3>1. 0 \in Nat
      OBVIOUS
    <3>2. QED
      BY <2>1, <3>1, PositionIs
  <2>3. Descended(path, 1) = [position |-> 0, count |-> 1]
    BY <2>2 DEF Steps
  <2>4. CalculateProofPosition(path, 1) = Descended(path, 1).position
    BY DEF CalculateProofPosition, Descended
  <2>5. QED
    BY <2>3, <2>4
<1>6. ValidRoot(proof)
  <2>1. PICK h : /\ Steps(h, [kind |-> "join", proof |-> proof], Head(proof.lemma), 0)
                 /\ JoinedUp(proof) = h[0]
    <3>1. 0 \in Nat /\ DOMAIN proof.path = 1 .. 0
      BY <1>3
    <3>2. QED
      BY <3>1, JoinedIs
  <2>2. JoinedUp(proof) = Head(proof.lemma)
    BY <2>1 DEF Steps
  <2>3. Last(proof.lemma) = hashes[1]
    BY <1>3 DEF Last
  <2>4. ValidRoot(proof) <=> JoinedUp(proof) = Last(proof.lemma)
    BY DEF ValidRoot, JoinedUp, FoldLeftDomain
  <2>5. QED
    BY <1>4, <2>2, <2>3, <2>4
<1>7. QED
  BY <1>2, <1>3, <1>4, <1>5, <1>6 DEF Fits

(* The proof of one leaf of several.                                       *)
LEMMA OneOfManyFits ==
    ASSUME NEW hashes, NEW m \in Nat \ {0}, IsSeq(hashes), Len(hashes) = m, m # 1,
           m <= Two[30], NEW i \in 1 .. m
    PROVE  Fits(ProofAt(hashes, i), RootHash(hashes), hashes[i], i - 1, m)
<1>1. PICK r \in 0 .. 30 : Rounds(m) = [k \in 1 .. r |-> k] /\ m <= Two[r]
  BY RoundsAre
<1>2. r \in Nat
  OBVIOUS
<1>3. PICK w : /\ Steps(w, [kind |-> "climb"], WayFrom(hashes, i), r)
               /\ WayUp(hashes, i) = w[r]
  <2>1. Rounds(Len(hashes)) = [k \in 1 .. r |-> k]
    BY <1>1
  <2>2. ClimbsTo(hashes, i, r)
    BY <1>2, <2>1, WayUpIs
  <2>3. QED
    BY <2>2 DEF ClimbsTo
<1>4. Way(w, hashes, i, m, r)
  BY <1>3, WayIs
<1>5. PICK v : Steps(v, [kind |-> "level"], hashes, r) /\ RootHash(hashes) = v[r][1]
  BY <1>1, <1>2, RootIs
<1>6. PICK root : root = RootHash(hashes) /\ root = Hash(w[r])
  <2>1. Hash(w[r]) = v[r][1]
    <3>1. m <= Two[r]
      BY <1>1
    <3>2. Steps(v, [kind |-> "level"], hashes, r)
      BY <1>5
    <3>3. EndsInRoot(w, v, r)
      BY <1>4, <3>1, <3>2, WayEndsInRoot
    <3>4. QED
      BY <3>3 DEF EndsInRoot
  <2>2. QED
    BY <1>5, <2>1
<1>7. PICK path, lemma, d : /\ path = w[r].path /\ lemma = w[r].lemma /\ d = Len(path)
                            /\ path \in Seq(BOOLEAN) /\ IsSeq(lemma) /\ d \in Nat
                            /\ Len(lemma) = d + 1
  <2>1. OnLevel(w[r], r, m)
    BY <1>4, RoundsUpTo DEF Way
  <2>2. PICK path : path = w[r].path /\ path \in Seq(BOOLEAN)
    BY <2>1 DEF OnLevel
  <2>3. Len(path) \in Nat
    BY <2>2, LenProperties
  <2>4. QED
    BY <2>1, <2>2, <2>3 DEF OnLevel
<1>8. PICK proof : proof = [lemma |-> Append(lemma, root), path |-> path]
  OBVIOUS
<1>9. proof.path = path /\ proof.lemma = Append(lemma, root)
  BY <1>8
<1>10. ProofAt(hashes, i) = proof
  <2>1. WayUp(hashes, i) = FoldLeft(LAMBDA x, round : Climb(x),
                        [nodes |-> hashes, at |-> i,
                         lemma |-> <<hashes[i]>>, path |-> << >>],
                        Rounds(Len(hashes)))
    BY DEF WayUp, WayFrom
  <2>2. ProofAt(hashes, i) = [lemma |-> Append(WayUp(hashes, i).lemma, RootHash(hashes)),
                              path |-> WayUp(hashes, i).path]
    BY <2>1 DEF ProofAt
  <2>3. QED
    BY <1>3, <1>6, <1>7, <1>8, <2>2
<1>11. /\ Len(proof.lemma) = d + 2 /\ proof.lemma[d + 2] = root
       /\ Starts(proof.lemma, lemma) /\ IsSeq(proof.lemma)
  <2>1. IsSeq(proof.lemma) /\ Extends(proof.lemma, lemma, root)
    BY <1>7, <1>9, SeqExtends
  <2>2. /\ Len(proof.lemma) = (d + 1) + 1 /\ proof.lemma[(d + 1) + 1] = root
        /\ \A j \in 1 .. Len(lemma) : proof.lemma[j] = lemma[j]
    BY <1>7, <2>1 DEF Extends
  <2>3. (d + 1) + 1 = d + 2 /\ d + 1 <= d + 2
    BY <1>7
  <2>4. Starts(proof.lemma, lemma)
    BY <1>7, <2>2, <2>3 DEF Starts
  <2>5. QED
    BY <2>1, <2>2, <2>3, <2>4
<1>12. Head(proof.lemma) = hashes[i]
  <2>1. w[0] = WayFrom(hashes, i) /\ Starts(w[r].lemma, w[0].lemma)
    <3>1. 0 \in 0 .. r
      BY <1>2
    <3>2. QED
      BY <1>4, <3>1, WayStarts DEF Way
  <2>2. w[0].lemma = <<hashes[i]>>
    BY <2>1 DEF WayFrom
  <2>3. lemma[1] = hashes[i]
    <3>1. PICK l : l = w[0].lemma /\ Len(l) = 1 /\ l[1] = hashes[i]
      <4>1. PICK x : x = hashes[i]
        OBVIOUS
      <4>2. PICK l : l = <<x>> /\ Len(l) = 1 /\ l[1] = x
        BY OneLong
      <4>3. QED
        BY <2>2, <4>1, <4>2
    <3>2. 1 \in 1 .. Len(l)
      BY <3>1
    <3>3. QED
      BY <1>7, <2>1, <3>1, <3>2 DEF Starts
  <2>4. proof.lemma[1] = lemma[1]
    <3>1. 1 \in 1 .. Len(lemma)
      BY <1>7
    <3>2. QED
      BY <1>11, <3>1 DEF Starts
  <2>5. Head(proof.lemma) = proof.lemma[1]
    <3>1. PICK R : proof.lemma \in Seq(R)
      BY <1>11 DEF IsSeq
    <3>2. proof.lemma # << >>
      BY <1>7, <1>11
    <3>3. QED
      BY <3>1, <3>2
  <2>6. QED
    BY <2>3, <2>4, <2>5
<1>13. Last(proof.lemma) = root
  BY <1>11 DEF Last
<1>14. ValidRoot(proof)
  <2>1. DOMAIN proof.path = 1 .. d
    BY <1>7, <1>9
  <2>2. PICK h : /\ Steps(h, [kind |-> "join", proof |-> proof], Head(proof.lemma), d)
                 /\ JoinedUp(proof) = h[d]
    BY <1>7, <2>1, JoinedIs
  <2>3. Steps(h, [kind |-> "join", proof |-> proof], hashes[i], d)
    BY <1>12, <2>2
  <2>4. Meets(h, w, r)
    BY <1>4, <1>7, <1>9, <1>11, <2>3, JoinMeets
  <2>5. JoinedUp(proof) = root
    BY <1>6, <1>7, <2>2, <2>4 DEF Meets
  <2>6. ValidRoot(proof) <=> JoinedUp(proof) = Last(proof.lemma)
    BY DEF ValidRoot, JoinedUp, FoldLeftDomain
  <2>7. QED
    BY <1>13, <2>5, <2>6
<1>15. PICK s : /\ Steps(s, [kind |-> "descend", path |-> Reverse(path)],
                         [position |-> 0, count |-> m], d)
                /\ Descended(path, m) = s[d]
  <2>1. DOMAIN Reverse(path) = 1 .. d
    BY <1>7 DEF Reverse
  <2>2. QED
    BY <1>7, <2>1, PositionIs
<1>16. s[d] = [position |-> i - 1, count |-> 1]
  <2>1. DescendsTo(s, w, 0, d, m)
    BY <1>1, <1>4, <1>7, <1>15, DescendPasses
  <2>2. w[0] = WayFrom(hashes, i)
    BY <1>4 DEF Way
  <2>3. PICK p : p = << >> /\ Len(p) = 0
    BY EmptySeq
  <2>4. w[0].path = p /\ w[0].at = i
    BY <2>2, <2>3 DEF WayFrom
  <2>5. Above(w[0], 0) = i - 1 /\ Below(w[0], 0, m) = 1
    <3>1. Two[0] = 1 /\ (i - 1) * 1 = i - 1 /\ 1 <= m - (i - 1)
      BY TwoIs
    <3>2. QED
      BY <2>4, <3>1 DEF Above, Below, Before, Under
  <2>6. d - Len(w[0].path) = d
    BY <1>7, <2>3, <2>4
  <2>7. QED
    BY <2>1, <2>5, <2>6 DEF DescendsTo
<1>17. CalculateProofPosition(path, m) = i - 1
  <2>1. CalculateProofPosition(path, m) = Descended(path, m).position
    BY DEF CalculateProofPosition, Descended
  <2>2. QED
    BY <1>15, <1>16, <2>1
<1>18. d # 0
  <2>1. ASSUME d = 0 PROVE FALSE
    <3>1. s[0] = [position |-> 0, count |-> m]
      BY <1>15 DEF Steps
    <3>2. m = 1
      BY <1>16, <2>1, <3>1
    <3>3. QED
      BY <3>2
  <2>2. QED
    BY <2>1
<1>19. WellFormed(proof)
  <2>1. Len(<< >>) = 0
    BY EmptySeq
  <2>2. path # << >>
    BY <1>7, <1>18, <2>1
  <2>3. QED
    BY <1>7, <1>9, <1>11, <2>2 DEF WellFormed
<1>20. QED
  <2>1. hashes[i] = Head(proof.lemma) /\ root = Last(proof.lemma)
    BY <1>12, <1>13
  <2>2. Fits(proof, root, hashes[i], i - 1, m)
    BY <1>9, <1>14, <1>17, <1>19, <2>1 DEF Fits
  <2>3. QED
    BY <1>6, <1>10, <2>2

LEMMA ProofFits ==
    ASSUME NEW hashes, NEW m \in Nat \ {0}, IsSeq(hashes), Len(hashes) = m,
           m <= Two[30], NEW i \in 1 .. m
    PROVE  Fits(ProofAt(hashes, i), RootHash(hashes), hashes[i], i - 1, m)
<1>1. CASE m = 1
  <2>1. i = 1 /\ i - 1 = 0
    BY <1>1
  <2>2. QED
    BY <1>1, <2>1, OneFits
<1>2. CASE m # 1
  BY <1>2, OneOfManyFits
<1>3. QED
  BY <1>1, <1>2

----------------------------------------------------------------------------
(* Arithmetic that the provers find only by itself.                        *)
LEMMA NatTimes == \A a, b \in Nat : a * b \in Nat
  OBVIOUS

LEMMA StillBelow ==
    ASSUME NEW p \in Nat, NEW x \in 0 .. p, NEW z \in Nat, z <= p - x,
           NEW t \in Nat, p <= t
    PROVE  z <= t
  OBVIOUS

LEMMA TakenFromLeft ==
    ASSUME NEW p \in Nat, NEW l \in 0 .. p, NEW b \in Nat, b <= l, l < 2 * b
    PROVE  /\ p - l \in 0 .. p /\ p - (l - b) = (p - l) + b
           /\ b <= p - (p - l) /\ p - (p - l) < 2 * b
  OBVIOUS

(* Counting up, of any set of numbers.                                     *)
LEMMA UpFromZero ==
    ASSUME NEW S, NEW n \in Nat, 0 \in S, \A k \in 0 .. n - 1 : k \in S => k + 1 \in S
    PROVE  \A k \in 0 .. n : k \in S
<1> DEFINE Fails == {k \in Nat : k \in 0 .. n /\ k \notin S}
<1> SUFFICES ASSUME Fails # {} PROVE FALSE
  OBVIOUS
<1>1. PICK k \in Fails : \A j \in Fails : k <= j
  BY Least
<1>2. k # 0
  OBVIOUS
<1>3. PICK j \in 0 .. n - 1 : j = k - 1 /\ j + 1 = k /\ j \in Nat /\ j \in 0 .. n
  BY <1>2
<1>4. j \notin Fails
  BY <1>1, <1>3
<1>5. QED
  BY <1>3, <1>4

(* A later power of two is no smaller.                                     *)
LEMMA TwoUp == \A j, k \in 0 .. 30 : j <= k => Two[j] <= Two[k]
<1> SUFFICES ASSUME NEW j \in 0 .. 30, NEW k \in 0 .. 30, j <= k PROVE Two[j] <= Two[k]
  OBVIOUS
<1>1. Two[j] \in Nat /\ Two[k] \in Nat
  BY TwoIs
<1>2. j = k \/ Two[j] < Two[k]
  BY TwoGrows
<1>3. QED
  BY <1>1, <1>2

(* The levels over a sequence, one after the other.                        *)
Levels(v, x) == Steps(v, [kind |-> "level"], x, 30)

LEMMA LevelsExist == ASSUME NEW x PROVE \E v : Levels(v, x)
<1>0. 30 \in Nat
  OBVIOUS
<1>1. PICK f : Goes(f, [kind |-> "level"], x, 30)
  BY <1>0, GoesExists
<1>2. PICK v : Steps(v, [kind |-> "level"], x, 30)
  BY <1>0, <1>1, GoesSteps
<1>3. QED
  BY <1>2 DEF Levels

LevelsOf(v, x) == v[0] = x /\ \A k \in 0 .. 29 : v[k + 1] = Level(v[k])

LEMMA LevelsAre == ASSUME NEW v, NEW x, Levels(v, x) PROVE LevelsOf(v, x)
<1>1. v[0] = x /\ \A k \in 1 .. 30 : v[k] = Level(v[k - 1])
  BY DEF Levels, Steps, FoldStep
<1>2. ASSUME NEW k \in 0 .. 29 PROVE v[k + 1] = Level(v[k])
  <2>1. PICK j \in 1 .. 30 : j = k + 1 /\ j - 1 = k
    OBVIOUS
  <2>2. QED
    BY <1>1, <2>1
<1>3. QED
  BY <1>1, <1>2 DEF LevelsOf

(* How many nodes the k-th level over n leaves has.                        *)
Wide(c, k, n) == c \in Nat \ {0} /\ (c - 1) * Two[k] < n /\ n <= c * Two[k]

LEMMA LevelsWide ==
    ASSUME NEW x, NEW n \in Nat \ {0}, Len(x) = n, NEW v, Levels(v, x)
    PROVE  \A k \in 0 .. 30 : Wide(Len(v[k]), k, n)
<1>1. v[0] = x /\ \A k \in 0 .. 29 : v[k + 1] = Level(v[k])
  BY LevelsAre DEF LevelsOf
<1> DEFINE S == {k \in Nat : Wide(Len(v[k]), k, n)}
<1>2. 0 \in S
  <2>1. Two[0] = 1 /\ (n - 1) * 1 < n /\ n <= n * 1
    BY TwoIs
  <2>2. Wide(n, 0, n)
    BY <2>1 DEF Wide
  <2>3. Len(v[0]) = n
    BY <1>1
  <2>4. QED
    BY <2>2, <2>3
<1>3. ASSUME NEW k \in 0 .. 30 - 1, k \in S PROVE k + 1 \in S
  <2>1. PICK c, w : c = Len(v[k]) /\ w = Two[k] /\ c \in Nat \ {0} /\ (c - 1) * w < n /\ n <= c * w
    BY <1>3 DEF Wide
  <2>2. w \in Nat \ {0} /\ Two[k + 1] = 2 * w /\ k \in 0 .. 29
    <3>1. k \in 0 .. 29 /\ k \in 0 .. 30
      OBVIOUS
    <3>2. QED
      BY <2>1, <3>1, TwoIs
  <2>3. 1 \in 1 .. c
    BY <2>1
  <2>4. Pairs(1, c, w, n)
    BY <2>1, <2>2, <2>3, Pairing
  <2>5. PICK d : /\ d = (c + 1) \div 2 /\ d \in Nat \ {0}
                 /\ (d - 1) * (2 * w) < n /\ n <= d * (2 * w)
    BY <2>4 DEF Pairs
  <2>6. Len(v[k + 1]) = d
    <3>1. Len(Level(v[k])) = (c + 1) \div 2
      BY <2>1, LevelIs
    <3>2. QED
      BY <1>1, <2>2, <2>5, <3>1
  <2>7. Wide(Len(v[k + 1]), k + 1, n)
    BY <2>2, <2>5, <2>6 DEF Wide
  <2>8. QED
    BY <2>7
<1>4. \A k \in 0 .. 30 : k \in S
  <2> HIDE DEF S
  <2>1. 30 \in Nat
    OBVIOUS
  <2>2. QED
    BY <1>2, <1>3, <2>1, UpFromZero
<1>5. QED
  BY <1>4

LEMMA WideOnce ==
    ASSUME NEW k \in 0 .. 30, NEW n \in Nat, NEW c, NEW d, Wide(c, k, n), Wide(d, k, n)
    PROVE  c = d
<1>1. PICK w : w = Two[k] /\ w \in Nat \ {0}
  BY TwoIs
<1>2. /\ c \in Nat \ {0} /\ (c - 1) * w < n /\ n <= c * w
      /\ d \in Nat \ {0} /\ (d - 1) * w < n /\ n <= d * w
  BY <1>1 DEF Wide
<1>3. c - 1 < d /\ d - 1 < c
  <2>1. c - 1 \in Int /\ d - 1 \in Int
    BY <1>2
  <2>2. PICK a, b, e, f : /\ a = (c - 1) * w /\ b = d * w /\ e = (d - 1) * w /\ f = c * w
                          /\ a \in Int /\ b \in Int /\ e \in Int /\ f \in Int
    BY <1>1, <1>2
  <2>3. a < b /\ e < f
    BY <1>2, <2>2
  <2>4. QED
    BY <1>1, <1>2, <2>1, <2>2, <2>3, TimesOrders
<1>4. QED
  BY <1>2, <1>3

LEMMA WideOne ==
    ASSUME NEW k \in 0 .. 30, NEW n \in Nat \ {0}, n <= Two[k] PROVE Wide(1, k, n)
<1>1. PICK w : w = Two[k] /\ w \in Nat \ {0}
  BY TwoIs
<1>2. (1 - 1) * w = 0 /\ 1 * w = w
  BY <1>1
<1>3. QED
  BY <1>1, <1>2 DEF Wide

(* The root is the first node of every level that is one node wide.        *)
RootOf(x, v, k) == RootHash(x) = v[k][1]

LEMMA RootAt ==
    ASSUME NEW x, NEW n \in Nat \ {0}, Len(x) = n, NEW v, Levels(v, x),
           NEW k \in 0 .. 30, n <= Two[k]
    PROVE  RootOf(x, v, k)
<1>1. v[0] = x /\ \A i \in 0 .. 29 : v[i + 1] = Level(v[i])
  BY LevelsAre DEF LevelsOf
<1>2. n <= Two[30]
  <2>1. 30 \in 0 .. 30 /\ k <= 30
    OBVIOUS
  <2>3. Two[k] \in Nat /\ Two[30] \in Nat
    BY <2>1, TwoIs
  <2>2. Two[k] <= Two[30]
    BY <2>1, TwoUp
  <2>4. QED
    BY <2>2, <2>3
<1>3. PICK r \in 0 .. 30 : /\ Rounds(n) = [i \in 1 .. r |-> i]
                           /\ n <= Two[r] /\ (r # 0 => Two[r - 1] < n)
  BY <1>2, RoundsAre
<1>4. r <= k
  <2>1. SUFFICES ASSUME k < r PROVE FALSE
    OBVIOUS
  <2>2. r # 0 /\ r - 1 \in 0 .. 30 /\ k <= r - 1
    BY <2>1
  <2>3. Two[k] <= Two[r - 1] /\ Two[k] \in Nat /\ Two[r - 1] \in Nat
    BY <2>2, TwoUp, TwoIs
  <2>4. QED
    BY <1>3, <2>2, <2>3
<1>5. PICK u : Steps(u, [kind |-> "level"], x, r) /\ RootHash(x) = u[r][1]
  <2>1. r \in Nat /\ Rounds(Len(x)) = [i \in 1 .. r |-> i]
    BY <1>3
  <2>2. QED
    BY <2>1, RootIs
<1>6. u[0] = x /\ \A i \in 1 .. r : u[i] = Level(u[i - 1])
  BY <1>5 DEF Steps, FoldStep
<1> DEFINE S == {i \in Nat : i <= r => u[i] = v[i]}
<1>7. r \in S
  <2>1. 0 \in S
    BY <1>1, <1>6
  <2>2. ASSUME NEW i \in 0 .. r - 1, i \in S PROVE i + 1 \in S
    <3>1. u[i] = v[i] /\ i \in 0 .. 29 /\ i + 1 \in 1 .. r /\ (i + 1) - 1 = i
      BY <2>2
    <3>2. u[i + 1] = Level(u[i])
      BY <1>6, <3>1
    <3>3. v[i + 1] = Level(v[i])
      BY <1>1, <3>1
    <3>4. QED
      BY <3>1, <3>2, <3>3
  <2> HIDE DEF S
  <2>3. r \in Nat /\ r \in 0 .. r
    BY RoundsUpTo
  <2>4. \A i \in 0 .. r : i \in S
    BY <2>1, <2>2, <2>3, UpFromZero
  <2>5. QED
    BY <2>3, <2>4
<1>8. u[r] = v[r]
  BY <1>7
<1> HIDE DEF S
<1> DEFINE T == {i \in Nat : r <= i => v[i][1] = v[r][1]}
<1>9. k \in T
  <2>1. 0 \in T
    OBVIOUS
  <2>2. ASSUME NEW i \in 0 .. k - 1, i \in T PROVE i + 1 \in T
    <3>0. i \in 0 .. 29 /\ i \in 0 .. 30 /\ i \in Nat /\ i + 1 \in Nat
      OBVIOUS
    <3>1. CASE i + 1 <= r
      BY <3>0, <3>1
    <3>2. CASE r <= i
      <4>1. Two[r] <= Two[i] /\ Two[r] \in Nat /\ Two[i] \in Nat
        BY <3>0, <3>2, TwoUp, TwoIs
      <4>2. n <= Two[i]
        BY <1>3, <4>1
      <4>3. Wide(1, i, n)
        BY <3>0, <4>2, WideOne
      <4>4. Wide(Len(v[i]), i, n)
        BY <3>0, LevelsWide
      <4>5. Len(v[i]) = 1
        BY <3>0, <4>3, <4>4, WideOnce
      <4>6. PICK y : y = v[i] /\ Len(y) = 1
        BY <4>5
      <4>7. Level(y)[1] = y[1]
        <5>1. 1 \in 1 .. (Len(y) + 1) \div 2 /\ 2 * 1 > Len(y) /\ 2 * 1 - 1 = 1
          BY <4>6
        <5>2. Len(y) \in Nat
          BY <4>6
        <5>3. QED
          BY <5>1, <5>2, LevelIs
      <4>8. v[i + 1] = Level(y)
        BY <1>1, <3>0, <4>6
      <4>9. v[i][1] = v[r][1]
        BY <2>2, <3>2
      <4>10. QED
        BY <3>0, <4>6, <4>7, <4>8, <4>9
    <3>3. QED
      BY <3>0, <3>1, <3>2
  <2> HIDE DEF T
  <2>3. k \in Nat /\ k \in 0 .. k
    BY RoundsUpTo
  <2>4. \A i \in 0 .. k : i \in T
    BY <2>1, <2>2, <2>3, UpFromZero
  <2>5. QED
    BY <2>3, <2>4
<1>10. v[k][1] = v[r][1]
  BY <1>4, <1>9
<1>11. QED
  BY <1>5, <1>8, <1>10 DEF RootOf

(* u is y and z, one after the other.                                      *)
Beside(u, y, z) ==
    /\ Len(y) \in Nat /\ Len(z) \in Nat /\ Len(u) = Len(y) + Len(z)
    /\ \A j \in 1 .. Len(y) : u[j] = y[j]
    /\ \A j \in 1 .. Len(z) : u[Len(y) + j] = z[j]

(* And so is the next level, if the first part has pairs only.             *)
LEMMA BesideLevel ==
    ASSUME NEW u, NEW y, NEW z, Beside(u, y, z), NEW a \in Nat, Len(y) = 2 * a
    PROVE  Beside(Level(u), Level(y), Level(z)) /\ Len(Level(y)) = a
<1>1. PICK m, b : m = Len(z) /\ m \in Nat /\ b = (m + 1) \div 2 /\ b \in Nat
  <2>1. PICK m : m = Len(z) /\ m \in Nat
    BY DEF Beside
  <2>2. (m + 1) \div 2 \in Nat
    BY <2>1
  <2>3. QED
    BY <2>1, <2>2
<1>2. /\ Len(u) = 2 * a + m /\ (2 * a + m + 1) \div 2 = a + b /\ (2 * a + 1) \div 2 = a
      /\ (m = 2 * b \/ m = 2 * b - 1)
  <2>1. Len(u) = 2 * a + m
    BY <1>1 DEF Beside
  <2>2. m = 2 * b \/ m = 2 * b - 1
    BY <1>1
  <2>3. (2 * a + 1) \div 2 = a
    OBVIOUS
  <2>4. (2 * a + m + 1) \div 2 = a + b
    BY <1>1, <2>2
  <2>5. QED
    BY <2>1, <2>2, <2>3, <2>4
<1>3. /\ \A j \in 1 .. 2 * a : u[j] = y[j]
      /\ \A j \in 1 .. m : u[2 * a + j] = z[j]
  BY <1>1 DEF Beside
<1>4. PICK lu : /\ lu = Level(u) /\ Len(lu) = a + b
                /\ \A k \in 1 .. a + b :
                       /\ 2 * k <= 2 * a + m => lu[k] = Combine(u[2 * k - 1], u[2 * k])
                       /\ 2 * k > 2 * a + m => lu[k] = u[2 * k - 1]
  <2>1. Len(u) \in Nat
    BY <1>1, <1>2
  <2>2. /\ Len(Level(u)) = a + b
        /\ \A k \in 1 .. a + b :
               /\ 2 * k <= 2 * a + m => Level(u)[k] = Combine(u[2 * k - 1], u[2 * k])
               /\ 2 * k > 2 * a + m => Level(u)[k] = u[2 * k - 1]
    BY <1>2, <2>1, LevelIs
  <2>3. QED
    BY <2>2
<1>5. PICK ly : /\ ly = Level(y) /\ Len(ly) = a
                /\ \A k \in 1 .. a : ly[k] = Combine(y[2 * k - 1], y[2 * k])
  <2>1. Len(y) \in Nat
    OBVIOUS
  <2>2. /\ Len(Level(y)) = a
        /\ \A k \in 1 .. a : 2 * k <= 2 * a => Level(y)[k] = Combine(y[2 * k - 1], y[2 * k])
    BY <1>2, <2>1, LevelIs
  <2>3. QED
    BY <2>2
<1>6. PICK lz : /\ lz = Level(z) /\ Len(lz) = b
                /\ \A k \in 1 .. b :
                       /\ 2 * k <= m => lz[k] = Combine(z[2 * k - 1], z[2 * k])
                       /\ 2 * k > m => lz[k] = z[2 * k - 1]
  <2>1. /\ Len(Level(z)) = b
        /\ \A k \in 1 .. b :
               /\ 2 * k <= m => Level(z)[k] = Combine(z[2 * k - 1], z[2 * k])
               /\ 2 * k > m => Level(z)[k] = z[2 * k - 1]
    BY <1>1, LevelIs
  <2>2. QED
    BY <2>1
<1>7. ASSUME NEW k \in 1 .. a PROVE lu[k] = ly[k]
  <2>1. /\ k \in 1 .. a + b /\ 2 * k <= 2 * a + m /\ 2 * k - 1 \in 1 .. 2 * a
        /\ 2 * k \in 1 .. 2 * a
    BY <1>1
  <2>2. QED
    BY <1>3, <1>4, <1>5, <2>1
<1>8. ASSUME NEW k \in 1 .. b PROVE lu[a + k] = lz[k]
  <2>1. PICK i : i = a + k /\ i \in 1 .. a + b /\ 2 * i = 2 * a + 2 * k
                 /\ 2 * i - 1 = 2 * a + (2 * k - 1)
    BY <1>1
  <2>2. 2 * k - 1 \in 1 .. m
    BY <1>1, <1>2
  <2>3. u[2 * i - 1] = z[2 * k - 1]
    BY <1>3, <2>1, <2>2
  <2>4. CASE 2 * k <= m
    <3>1. 2 * k \in 1 .. m /\ 2 * i <= 2 * a + m
      BY <1>1, <2>1, <2>4
    <3>2. u[2 * i] = z[2 * k]
      BY <1>3, <2>1, <3>1
    <3>3. QED
      BY <1>4, <1>6, <2>1, <2>3, <2>4, <3>1, <3>2
  <2>5. CASE 2 * k > m
    <3>1. 2 * i > 2 * a + m
      BY <1>1, <2>1, <2>5
    <3>2. QED
      BY <1>4, <1>6, <2>1, <2>3, <2>5, <3>1
  <2>6. QED
    BY <1>1, <2>4, <2>5
<1>9. Beside(lu, ly, lz)
  BY <1>1, <1>4, <1>5, <1>6, <1>7, <1>8 DEF Beside
<1>10. QED
  BY <1>4, <1>5, <1>6, <1>9

(* The hashes of n chunks from number a + 1 on, and the root over them.    *)
Cutout(h, a, n) == [j \in 1 .. n |-> h[a + j]]
Tree(h, a, n) == RootHash(Cutout(h, a, n))

LEMMA CutoutIs ==
    ASSUME NEW h, NEW a, NEW n \in Nat
    PROVE  Len(Cutout(h, a, n)) = n /\ \A j \in 1 .. n : Cutout(h, a, n)[j] = h[a + j]
BY DEF Cutout

(* A tree over more than one chunk is the tree over its left side, which   *)
(* is full, and the tree over the rest.                                    *)
TreeSplit(h, a, n, w) ==
    Tree(h, a, n) = Combine(Tree(h, a, w), Tree(h, a + w, n - w))

LEMMA TreeSplits ==
    ASSUME NEW h, NEW a \in Nat, NEW k \in 0 .. 29, NEW n \in Nat,
           Two[k] < n, n <= Two[k + 1]
    PROVE  TreeSplit(h, a, n, Two[k])
<1>1. PICK w : w = Two[k] /\ w \in Nat \ {0} /\ Two[k + 1] = 2 * w
  <2>1. k \in 0 .. 30
    OBVIOUS
  <2>2. QED
    BY <2>1, TwoIs
<1>2. PICK m : m = n - w /\ m \in Nat \ {0} /\ m <= w /\ n = w + m
  <2>1. w < n /\ n <= 2 * w
    BY <1>1
  <2>2. w \in Nat
    BY <1>1
  <2>3. n - w \in Nat \ {0} /\ n - w <= w /\ n = w + (n - w)
    BY <2>1, <2>2
  <2>4. QED
    BY <2>3
<1>3. PICK x : x = Cutout(h, a, n) /\ Len(x) = n /\ \A j \in 1 .. n : x[j] = h[a + j]
  BY CutoutIs
<1>4. PICK y : y = Cutout(h, a, w) /\ Len(y) = w /\ \A j \in 1 .. w : y[j] = h[a + j]
  <2>1. w \in Nat
    BY <1>1
  <2>2. Len(Cutout(h, a, w)) = w /\ \A j \in 1 .. w : Cutout(h, a, w)[j] = h[a + j]
    BY <2>1, CutoutIs
  <2>3. QED
    BY <2>2
<1>5. PICK z : z = Cutout(h, a + w, m) /\ Len(z) = m
               /\ \A j \in 1 .. m : z[j] = h[(a + w) + j]
  BY <1>2, CutoutIs
<1>6. Beside(x, y, z)
  <2>1. \A j \in 1 .. w : j \in 1 .. n
    BY <1>1, <1>2
  <2>2. \A j \in 1 .. m : w + j \in 1 .. n /\ a + (w + j) = (a + w) + j
    BY <1>1, <1>2
  <2>3. \A j \in 1 .. w : x[j] = y[j]
    BY <1>3, <1>4, <2>1
  <2>4. ASSUME NEW j \in 1 .. m PROVE x[w + j] = z[j]
    <3>1. x[w + j] = h[a + (w + j)]
      BY <1>3, <2>2
    <3>2. h[a + (w + j)] = h[(a + w) + j]
      BY <2>2
    <3>3. QED
      BY <1>5, <3>1, <3>2
  <2>5. Len(y) = w /\ Len(z) = m /\ Len(x) = w + m /\ w \in Nat /\ m \in Nat
    BY <1>1, <1>2, <1>3, <1>4, <1>5
  <2>6. QED
    BY <2>3, <2>4, <2>5 DEF Beside
<1>7. PICK u : Levels(u, x)
  BY LevelsExist
<1>8. PICK v : Levels(v, y)
  BY LevelsExist
<1>9. PICK q : Levels(q, z)
  BY LevelsExist
<1>10. /\ u[0] = x /\ v[0] = y /\ q[0] = z
       /\ \A i \in 0 .. 29 : /\ u[i + 1] = Level(u[i]) /\ v[i + 1] = Level(v[i])
                             /\ q[i + 1] = Level(q[i])
  BY <1>7, <1>8, <1>9, LevelsAre DEF LevelsOf
<1> DEFINE S == {i \in Nat : Beside(u[i], v[i], q[i]) /\ Len(v[i]) = Two[k - i]}
<1>11. k \in S
  <2>1. 0 \in S
    <3>1. k - 0 = k /\ 0 \in Nat
      OBVIOUS
    <3>2. Beside(u[0], v[0], q[0])
      BY <1>6, <1>10
    <3>3. Len(v[0]) = Two[k - 0]
      BY <1>1, <1>4, <1>10, <3>1
    <3>4. QED
      BY <3>1, <3>2, <3>3
  <2>2. ASSUME NEW i \in 0 .. k - 1, i \in S PROVE i + 1 \in S
    <3>1. i \in 0 .. 29 /\ k - (i + 1) \in 0 .. 29 /\ (k - (i + 1)) + 1 = k - i
      OBVIOUS
    <3>2. PICK b \in Nat : b = Two[k - (i + 1)] /\ Two[k - i] = 2 * b
      <4>1. k - (i + 1) \in 0 .. 30
        BY <3>1
      <4>2. QED
        BY <3>1, <4>1, TwoIs
    <3>3. Beside(u[i], v[i], q[i]) /\ Len(v[i]) = 2 * b
      BY <2>2, <3>2
    <3>4. Beside(Level(u[i]), Level(v[i]), Level(q[i])) /\ Len(Level(v[i])) = b
      BY <3>3, BesideLevel
    <3>5. Beside(u[i + 1], v[i + 1], q[i + 1]) /\ Len(v[i + 1]) = Two[k - (i + 1)]
      BY <1>10, <3>1, <3>2, <3>4
    <3>6. i + 1 \in Nat
      OBVIOUS
    <3>7. QED
      BY <3>5, <3>6
  <2> HIDE DEF S
  <2>3. k \in Nat /\ k \in 0 .. k
    OBVIOUS
  <2>4. \A i \in 0 .. k : i \in S
    BY <2>1, <2>2, <2>3, UpFromZero
  <2>5. QED
    BY <2>3, <2>4
<1>12. Beside(u[k], v[k], q[k]) /\ Len(v[k]) = 1
  <2>1. k - k = 0 /\ Two[0] = 1
    BY TwoIs
  <2>2. QED
    BY <1>11, <2>1
<1> HIDE DEF S
<1>13. Len(q[k]) = 1
  <2>1. k \in 0 .. 30 /\ m <= Two[k]
    BY <1>1, <1>2
  <2>2. Wide(Len(q[k]), k, m)
    BY <1>2, <1>5, <1>9, <2>1, LevelsWide
  <2>3. Wide(1, k, m)
    BY <1>2, <2>1, WideOne
  <2>4. QED
    BY <1>2, <2>1, <2>2, <2>3, WideOnce
<1>14. u[k + 1][1] = Combine(v[k][1], q[k][1])
  <2>1. Len(u[k]) = 2 /\ u[k][1] = v[k][1] /\ u[k][2] = q[k][1]
    <3>1. /\ Len(u[k]) = 1 + 1 /\ \A j \in 1 .. 1 : u[k][j] = v[k][j]
          /\ \A j \in 1 .. 1 : u[k][1 + j] = q[k][j]
      BY <1>12, <1>13 DEF Beside
    <3>2. QED
      BY <3>1
  <2>2. PICK l : l = u[k] /\ Len(l) = 2 /\ Len(l) \in Nat
    BY <2>1
  <2>3. 1 \in 1 .. (Len(l) + 1) \div 2 /\ 2 * 1 <= Len(l) /\ 2 * 1 - 1 = 1 /\ 2 * 1 = 2
    BY <2>2
  <2>4. Level(l)[1] = Combine(l[1], l[2])
    BY <2>2, <2>3, LevelIs
  <2>5. QED
    BY <1>10, <2>1, <2>2, <2>4
<1>15. RootHash(x) = u[k + 1][1]
  <2>1. k + 1 \in 0 .. 30 /\ n \in Nat \ {0} /\ n <= Two[k + 1]
    BY <1>1, <1>2
  <2>2. RootOf(x, u, k + 1)
    BY <1>3, <1>7, <2>1, RootAt
  <2>3. QED
    BY <2>2 DEF RootOf
<1>16. RootHash(y) = v[k][1]
  <2>1. k \in 0 .. 30 /\ w <= Two[k]
    BY <1>1
  <2>2. RootOf(y, v, k)
    BY <1>1, <1>4, <1>8, <2>1, RootAt
  <2>3. QED
    BY <2>2 DEF RootOf
<1>17. RootHash(z) = q[k][1]
  <2>1. k \in 0 .. 30 /\ m <= Two[k]
    BY <1>1, <1>2
  <2>2. RootOf(z, q, k)
    BY <1>2, <1>5, <1>9, <2>1, RootAt
  <2>3. QED
    BY <2>2 DEF RootOf
<1>18. Tree(h, a, n) = Combine(Tree(h, a, w), Tree(h, a + w, m))
  BY <1>3, <1>4, <1>5, <1>14, <1>15, <1>16, <1>17 DEF Tree
<1>19. QED
  BY <1>1, <1>2, <1>18 DEF TreeSplit

(* Exponents are added.                                                    *)
LEMMA TwoAdds ==
    ASSUME NEW s \in 0 .. 30, NEW t \in 0 .. 30 - s PROVE Two[t] * Two[s] = Two[s + t]
<1>1. PICK w : w = Two[s] /\ w \in Nat \ {0}
  BY TwoIs
<1> DEFINE S == {k \in Nat : Two[k] * w = Two[s + k]}
<1>2. 0 \in S
  <2>1. s + 0 = s /\ Two[0] = 1 /\ 1 * w = w
    BY <1>1, TwoIs
  <2>2. QED
    BY <1>1, <2>1
<1>3. ASSUME NEW k \in 0 .. t - 1, k \in S PROVE k + 1 \in S
  <2>1. k \in 0 .. 29 /\ k \in 0 .. 30 /\ s + k \in 0 .. 29 /\ s + (k + 1) = (s + k) + 1
    OBVIOUS
  <2>2. PICK a : a = Two[k] /\ a \in Nat
    BY <2>1, TwoIs
  <2>3. Two[k + 1] = 2 * a /\ Two[s + (k + 1)] = 2 * Two[s + k]
    BY <2>1, <2>2, TwoIs
  <2>4. a * w = Two[s + k]
    BY <1>3, <2>2
  <2>5. (2 * a) * w = 2 * (a * w)
    BY <1>1, <2>2
  <2>6. QED
    BY <2>1, <2>3, <2>4, <2>5
<1>4. t \in S
  <2> HIDE DEF S
  <2>1. t \in Nat /\ t \in 0 .. t
    OBVIOUS
  <2>2. \A k \in 0 .. t : k \in S
    BY <1>2, <1>3, <2>1, UpFromZero
  <2>3. QED
    BY <2>1, <2>2
<1>5. QED
  BY <1>1, <1>4

(* Every number between the powers has one that is its left side.          *)
LEMMA BetweenPowers ==
    ASSUME NEW n \in Nat, 1 < n, n <= Two[30]
    PROVE  \E k \in 0 .. 29 : Two[k] < n /\ n <= Two[k + 1]
<1>1. PICK r \in 0 .. 30 : n <= Two[r] /\ (r # 0 => Two[r - 1] < n)
  <2>1. n \in Nat \ {0}
    OBVIOUS
  <2>2. QED
    BY <2>1, RoundsAre
<1>2. r # 0
  BY <1>1, TwoIs
<1>3. PICK k \in 0 .. 29 : k = r - 1 /\ k + 1 = r
  BY <1>2
<1>4. QED
  BY <1>1, <1>2, <1>3

(* g are the roots over the chunks of h in m blocks of w, of which the     *)
(* last one may be shorter.                                                *)
Blocks(g, b, h, a, w, m, n) ==
    /\ m \in Nat \ {0} /\ n \in Nat /\ (m - 1) * w < n /\ n <= m * w
    /\ \A i \in 1 .. m - 1 : g[b + i] = Tree(h, a + (i - 1) * w, w)
    /\ g[b + m] = Tree(h, a + (m - 1) * w, n - (m - 1) * w)

(* The left side of the blocks are blocks, and so is the rest.             *)
LEMMA BlocksSplit ==
    ASSUME NEW g, NEW b \in Nat, NEW h, NEW a \in Nat, NEW w \in Nat \ {0}, NEW m, NEW n,
           Blocks(g, b, h, a, w, m, n), NEW l \in Nat \ {0}, l < m
    PROVE  /\ Blocks(g, b, h, a, w, l, l * w)
           /\ Blocks(g, b + l, h, a + l * w, w, m - l, n - l * w)
<1>1. /\ m \in Nat \ {0} /\ n \in Nat /\ (m - 1) * w < n /\ n <= m * w
      /\ \A i \in 1 .. m - 1 : g[b + i] = Tree(h, a + (i - 1) * w, w)
      /\ g[b + m] = Tree(h, a + (m - 1) * w, n - (m - 1) * w)
  BY DEF Blocks
<1>2. PICK x : x = l * w /\ x \in Nat
  OBVIOUS
<1>3. Blocks(g, b, h, a, w, l, l * w)
  <2>1. PICK y : y = (l - 1) * w /\ y \in Int /\ x = y + w
    BY <1>2
  <2>2. y < x /\ x <= x /\ x - y = w
    BY <2>1, <1>2
  <2>3. \A i \in 1 .. l : i \in 1 .. m - 1
    BY <1>1
  <2>4. \A i \in 1 .. l : g[b + i] = Tree(h, a + (i - 1) * w, w)
    BY <1>1, <2>3
  <2>5. \A i \in 1 .. l - 1 : g[b + i] = Tree(h, a + (i - 1) * w, w)
    BY <2>4
  <2>6. l \in 1 .. l
    OBVIOUS
  <2>7. g[b + l] = Tree(h, a + (l - 1) * w, w)
    BY <2>4, <2>6
  <2>8. g[b + l] = Tree(h, a + (l - 1) * w, l * w - (l - 1) * w)
    BY <1>2, <2>1, <2>2, <2>7
  <2>9. (l - 1) * w < l * w /\ l * w <= l * w /\ l * w \in Nat
    BY <1>2, <2>1, <2>2
  <2>10. QED
    BY <2>5, <2>8, <2>9 DEF Blocks
<1>4. Blocks(g, b + l, h, a + x, w, m - l, n - x)
  <2>1. PICK y : y = (m - 1) * w /\ y \in Nat
    BY <1>1
  <2>2. (m - l - 1) * w = y - x /\ (m - l) * w = m * w - x
    BY <1>1, <1>2, <2>1
  <2>3. m - l \in Nat \ {0} /\ x <= y
    <3>1. l <= m - 1
      BY <1>1
    <3>2. (m - 1) * w = l * w + (m - 1 - l) * w /\ m - 1 - l \in Nat
      BY <1>1, <3>1
    <3>3. (m - 1 - l) * w \in Nat
      BY <3>2
    <3>4. QED
      BY <1>1, <1>2, <2>1, <3>2, <3>3
  <2>4. n - x \in Nat /\ (m - l - 1) * w < n - x /\ n - x <= (m - l) * w
    <3>1. PICK e : e = m * w /\ e \in Nat
      BY <1>1
    <3>2. QED
      BY <1>1, <1>2, <2>1, <2>2, <2>3, <3>1
  <2>5. ASSUME NEW i \in 1 .. m - l - 1
        PROVE  g[(b + l) + i] = Tree(h, (a + x) + (i - 1) * w, w)
    <3>1. PICK j \in 1 .. m - 1 : j = l + i /\ b + j = (b + l) + i /\ j - 1 = l + (i - 1)
      BY <1>1
    <3>2. a + (j - 1) * w = (a + x) + (i - 1) * w
      <4>1. (l + (i - 1)) * w = l * w + (i - 1) * w
        OBVIOUS
      <4>2. (i - 1) * w \in Int
        OBVIOUS
      <4>3. QED
        BY <1>2, <3>1, <4>1, <4>2
    <3>3. g[b + j] = Tree(h, a + (j - 1) * w, w)
      BY <1>1
    <3>4. QED
      BY <3>1, <3>2, <3>3
  <2>6. g[(b + l) + (m - l)]
            = Tree(h, (a + x) + (m - l - 1) * w, (n - x) - (m - l - 1) * w)
    <3>1. /\ (b + l) + (m - l) = b + m /\ (a + x) + (y - x) = a + y
          /\ (n - x) - (y - x) = n - y
      BY <1>1, <1>2, <2>1
    <3>2. QED
      BY <1>1, <2>1, <2>2, <3>1
  <2>7. QED
    BY <2>3, <2>4, <2>5, <2>6 DEF Blocks
<1>5. QED
  BY <1>2, <1>3, <1>4

LEMMA TreeOfOne == ASSUME NEW g, NEW b \in Nat PROVE Tree(g, b, 1) = g[b + 1]
<1>1. PICK x : x = Cutout(g, b, 1) /\ Len(x) = 1 /\ x[1] = g[b + 1]
  <2>1. 1 \in Nat /\ 1 \in 1 .. 1
    OBVIOUS
  <2>2. Len(Cutout(g, b, 1)) = 1 /\ \A j \in 1 .. 1 : Cutout(g, b, 1)[j] = g[b + j]
    BY <2>1, CutoutIs, Zenon
  <2>3. QED
    BY <2>1, <2>2
<1>2. PICK v : Levels(v, x)
  BY LevelsExist
<1>3. v[0] = x
  BY <1>2, LevelsAre DEF LevelsOf
<1>4. RootOf(x, v, 0)
  <2>1. 1 \in Nat \ {0} /\ 0 \in 0 .. 30 /\ 1 <= Two[0]
    BY TwoIs
  <2>2. QED
    BY <1>1, <1>2, <2>1, RootAt
<1>5. QED
  BY <1>1, <1>3, <1>4 DEF RootOf, Tree

(* The root over the blocks' roots is the root over the chunks.            *)
BlocksAgree(g, b, h, a, m, n) == Tree(g, b, m) = Tree(h, a, n)

LEMMA BlocksTree ==
    ASSUME NEW s \in 0 .. 30, NEW m, NEW g, NEW b \in Nat, NEW h, NEW a \in Nat, NEW n,
           n <= Two[30], Blocks(g, b, h, a, Two[s], m, n)
    PROVE  BlocksAgree(g, b, h, a, m, n)
<1>1. PICK w : w = Two[s] /\ w \in Nat \ {0}
  BY TwoIs
<1> DEFINE Same1(f, i, c, k, e, d) ==
               i \in Nat /\ k \in Nat /\ d <= Two[30] /\ Blocks(f, i, c, k, w, e, d)
                   => Tree(f, i, e) = Tree(c, k, d)
           Fails == {e \in Nat : \E f, i, c, k, d : ~Same1(f, i, c, k, e, d)}
<1>2. Fails = {}
  <2> SUFFICES ASSUME Fails # {} PROVE FALSE
    OBVIOUS
  <2>1. PICK e \in Fails : \A j \in Fails : e <= j
    BY Least
  <2>2. PICK f, i, c, k, d : ~Same1(f, i, c, k, e, d)
    OBVIOUS
  <2>3. /\ i \in Nat /\ k \in Nat /\ d <= Two[30] /\ Blocks(f, i, c, k, w, e, d)
        /\ Tree(f, i, e) # Tree(c, k, d) /\ e \in Nat
    BY <2>2
  <2>4. ASSUME NEW j \in Nat, j < e, NEW ff, NEW ii, NEW cc, NEW kk, NEW dd
        PROVE  Same1(ff, ii, cc, kk, j, dd)
    <3>1. j \notin Fails
      BY <2>1, <2>3, <2>4
    <3>2. QED
      BY <3>1
  <2> HIDE DEF Fails
  <2>5. /\ e \in Nat \ {0} /\ d \in Nat /\ (e - 1) * w < d /\ d <= e * w
        /\ f[i + e] = Tree(c, k + (e - 1) * w, d - (e - 1) * w)
    BY <2>3 DEF Blocks
  <2>6. CASE e = 1
    <3>1. (1 - 1) * w = 0 /\ k + 0 = k /\ d - 0 = d
      BY <1>1, <2>3, <2>5
    <3>2. f[i + 1] = Tree(c, k, d)
      BY <2>5, <2>6, <3>1
    <3>3. Tree(f, i, 1) = f[i + 1]
      BY <2>3, TreeOfOne
    <3>4. QED
      BY <2>3, <2>6, <3>2, <3>3
  <2>7. CASE e # 1
    <3>1. PICK top : top = Two[30] /\ top \in Nat
      <4>1. 30 \in 0 .. 30
        OBVIOUS
      <4>2. QED
        BY <4>1, TwoIs
    <3>2. e <= top /\ 1 < e
      <4>1. PICK y : y = (e - 1) * w /\ y \in Nat
        BY <1>1, <2>5
      <4>2. e - 1 <= y
        <5>1. (e - 1) * w = (e - 1) * (w - 1) + (e - 1)
          BY <1>1, <2>5
        <5>2. e - 1 \in Nat /\ w - 1 \in Nat
          BY <1>1, <2>5
        <5>3. (e - 1) * (w - 1) \in Nat
          BY <5>2
        <5>4. QED
          BY <4>1, <5>1, <5>2, <5>3
      <4>3. QED
        BY <2>3, <2>5, <2>7, <3>1, <4>1, <4>2
    <3>3. PICK t \in 0 .. 29 : Two[t] < e /\ e <= Two[t + 1]
      BY <2>5, <3>1, <3>2, BetweenPowers
    <3>4. PICK l : l = Two[t] /\ l \in Nat \ {0} /\ Two[t + 1] = 2 * l /\ l < e
      <4>1. t \in 0 .. 30
        OBVIOUS
      <4>2. QED
        BY <3>3, <4>1, TwoIs
    <3>5. PICK x : x = l * w /\ x \in Nat \ {0} /\ x < d /\ d <= 2 * x
      <4>0. e \in Nat /\ l \in Nat /\ w \in Nat
        BY <1>1, <2>5, <3>4
      <4>1. (e - 1) * w = l * w + (e - 1 - l) * w /\ e - 1 - l \in Nat
        <5>1. e - 1 - l \in Nat /\ e - 1 = l + (e - 1 - l)
          BY <3>4, <4>0
        <5>2. \A y, y1, y2 \in Nat : y = y1 + y2 => y * w = y1 * w + y2 * w
          BY <4>0
        <5>3. e - 1 \in Nat
          BY <2>5
        <5>4. QED
          BY <4>0, <5>1, <5>2, <5>3
      <4>2. (e - 1 - l) * w \in Nat /\ l * w \in Nat \ {0}
        <5>1. (e - 1 - l) * w \in Nat
          BY <4>0, <4>1, NatTimes
        <5>2. l * w \in Nat \ {0}
          BY <1>1, <3>4
        <5>3. QED
          BY <5>1, <5>2
      <4>3. (2 * l) * w = e * w + (2 * l - e) * w /\ 2 * l - e \in Nat
        BY <1>1, <2>5, <3>3, <3>4
      <4>4. (2 * l - e) * w \in Nat /\ e * w \in Nat
        BY <1>1, <2>5, <4>3
      <4>5. (2 * l) * w = 2 * (l * w)
        BY <1>1, <3>4
      <4>6. l * w < d
        BY <2>5, <4>1, <4>2
      <4>7. d <= 2 * (l * w)
        BY <2>5, <4>3, <4>4, <4>5
      <4>8. QED
        BY <4>2, <4>6, <4>7
    <3>6. t + s < 30
      <4>1. SUFFICES ASSUME 30 <= t + s PROVE FALSE
        OBVIOUS
      <4>2. PICK q : q = 30 - s /\ q \in 0 .. 30 /\ q \in 0 .. 30 - s /\ s + q = 30 /\ q <= t
        BY <4>1
      <4>3. Two[q] * w = top
        BY <1>1, <3>1, <4>2, TwoAdds
      <4>4. PICK y : y = Two[q] /\ y \in Nat /\ y <= l
        <5>1. t \in 0 .. 30
          OBVIOUS
        <5>2. Two[q] <= Two[t]
          BY <4>2, <5>1, TwoUp
        <5>3. Two[q] \in Nat
          BY <4>2, TwoIs
        <5>4. QED
          BY <3>4, <5>2, <5>3
      <4>5. l * w = y * w + (l - y) * w /\ l - y \in Nat
        BY <1>1, <3>4, <4>4
      <4>6. (l - y) * w \in Nat /\ y * w \in Nat
        BY <1>1, <4>4, <4>5
      <4>7. top <= x
        BY <3>5, <4>3, <4>4, <4>5, <4>6
      <4>8. QED
        BY <2>3, <2>5, <3>1, <3>5, <4>7
    <3>7. Two[s + t] = x /\ Two[(s + t) + 1] = 2 * x /\ s + t \in 0 .. 29
      <4>1. t \in 0 .. 30 - s /\ s + t \in 0 .. 29
        BY <3>6
      <4>2. Two[t] * Two[s] = Two[s + t]
        BY <4>1, TwoAdds
      <4>3. Two[(s + t) + 1] = 2 * Two[s + t]
        BY <4>1, TwoIs
      <4>4. QED
        BY <1>1, <3>4, <3>5, <4>1, <4>2, <4>3
    <3>8. /\ Blocks(f, i, c, k, w, l, x)
          /\ Blocks(f, i + l, c, k + x, w, e - l, d - x)
      BY <1>1, <2>3, <3>4, <3>5, BlocksSplit
    <3>9. Tree(f, i, l) = Tree(c, k, x)
      <4>1. Same1(f, i, c, k, l, x)
        BY <2>4, <3>4
      <4>2. x <= Two[30]
        BY <2>3, <2>5, <3>1, <3>5
      <4>3. QED
        BY <2>3, <3>8, <4>1, <4>2
    <3>10. Tree(f, i + l, e - l) = Tree(c, k + x, d - x)
      <4>1. e - l \in Nat /\ e - l < e
        BY <2>5, <3>4
      <4>2. Same1(f, i + l, c, k + x, e - l, d - x)
        BY <2>4, <4>1
      <4>3. d - x <= Two[30] /\ i + l \in Nat /\ k + x \in Nat
        BY <2>3, <2>5, <3>1, <3>4, <3>5
      <4>4. QED
        BY <3>8, <4>2, <4>3
    <3>11. Tree(f, i, e) = Combine(Tree(f, i, l), Tree(f, i + l, e - l))
      <4>1. TreeSplit(f, i, e, Two[t])
        BY <2>3, <3>3, TreeSplits
      <4>2. QED
        BY <3>4, <4>1 DEF TreeSplit
    <3>12. Tree(c, k, d) = Combine(Tree(c, k, x), Tree(c, k + x, d - x))
      <4>1. Two[s + t] < d /\ d <= Two[(s + t) + 1]
        BY <3>5, <3>7
      <4>2. TreeSplit(c, k, d, Two[s + t])
        BY <2>3, <2>5, <3>7, <4>1, TreeSplits
      <4>3. QED
        BY <3>7, <4>2 DEF TreeSplit
    <3>13. QED
      BY <2>3, <3>9, <3>10, <3>11, <3>12
  <2>8. QED
    BY <2>6, <2>7
<1>3. m \in Nat
  BY DEF Blocks
<1>4. Same1(g, b, h, a, m, n)
  BY <1>2, <1>3
<1>5. Tree(g, b, m) = Tree(h, a, n)
  BY <1>1, <1>4
<1>6. QED
  BY <1>5 DEF BlocksAgree

(* o: where the nodes z of a file of p chunks start, the first x of which  *)
(* they hold.  Each is the largest power of two in what is left.           *)
Starting(o, z, x, p) ==
    /\ o[1] = 0 /\ o[Len(z) + 1] = x
    /\ \A j \in 1 .. Len(z) :
           /\ o[j] \in 0 .. p /\ z[j] \in Powers /\ o[j + 1] = o[j] + z[j]
           /\ z[j] <= p - o[j] /\ p - o[j] < 2 * z[j]

StartsExist(z, x, p) == \E o : Starting(o, z, x, p)

LEMMA TakeStarts ==
    ASSUME NEW p \in Nat, NEW s \in TakeState(p), StartsExist(s.taken, p - s.left, p),
           NEW b \in Powers, s.left < 2 * b
    PROVE  /\ StartsExist(Take(s, b).taken, p - Take(s, b).left, p)
           /\ Take(s, b).left < b
<1>1. s.left \in 0 .. p /\ s.taken \in Seq(1 .. p)
  BY DEF TakeState
<1>2. b \in Nat \ {0}
  BY PowersAreNumbers
<1>3. CASE s.left >= b
  <2>1. PICK o : Starting(o, s.taken, p - s.left, p)
    BY DEF StartsExist
  <2>2. PICK z, m, l : z = s.taken /\ m = Len(z) /\ m \in Nat /\ l = s.left /\ l \in 0 .. p
    BY <1>1
  <2>3. /\ o[1] = 0 /\ o[m + 1] = p - l
        /\ \A j \in 1 .. m :
               /\ o[j] \in 0 .. p /\ z[j] \in Powers /\ o[j + 1] = o[j] + z[j]
               /\ z[j] <= p - o[j] /\ p - o[j] < 2 * z[j]
    BY <2>1, <2>2 DEF Starting
  <2>4. PICK y : /\ y = Append(z, b) /\ Len(y) = m + 1
                 /\ \A j \in 1 .. m : y[j] = z[j]
                 /\ y[m + 1] = b
    <3>1. b \in 1 .. p
      BY <1>1, <1>2, <1>3
    <3>2. z \in Seq(1 .. p)
      BY <1>1, <2>2
    <3>3. /\ Len(Append(z, b)) = m + 1 /\ \A j \in 1 .. m : Append(z, b)[j] = z[j]
          /\ Append(z, b)[m + 1] = b
      BY <2>2, <3>1, <3>2
    <3>4. QED
      BY <3>3
  <2> DEFINE u == [j \in 1 .. m + 2 |-> IF j <= m + 1 THEN o[j] ELSE p - (l - b)]
  <2>5. /\ \A j \in 1 .. m + 1 : u[j] = o[j]
        /\ u[m + 2] = p - (l - b)
    <3>1. \A j \in 1 .. m + 1 : j \in 1 .. m + 2 /\ j <= m + 1
      BY <2>2
    <3>2. m + 2 \in 1 .. m + 2 /\ ~(m + 2 <= m + 1)
      BY <2>2
    <3>3. QED
      BY <3>1, <3>2
  <2> HIDE DEF u
  <2>6. ASSUME NEW j \in 1 .. m + 1
        PROVE  /\ u[j] \in 0 .. p /\ y[j] \in Powers /\ u[j + 1] = u[j] + y[j]
               /\ y[j] <= p - u[j] /\ p - u[j] < 2 * y[j]
    <3>1. CASE j <= m
      <4>1. j \in 1 .. m /\ j + 1 \in 1 .. m + 1
        BY <2>2, <3>1
      <4>2. u[j] = o[j] /\ u[j + 1] = o[j + 1] /\ y[j] = z[j]
        BY <2>4, <2>5, <4>1
      <4>3. QED
        BY <2>3, <4>1, <4>2
    <3>2. CASE j = m + 1
      <4>1. u[j] = p - l /\ u[j + 1] = p - (l - b) /\ y[j] = b
        <5>1. j + 1 = m + 2
          BY <2>2, <3>2
        <5>2. QED
          BY <2>3, <2>4, <2>5, <3>2, <5>1
      <4>2. /\ p - l \in 0 .. p /\ p - (l - b) = (p - l) + b
            /\ b <= p - (p - l) /\ p - (p - l) < 2 * b
        <5>1. l \in 0 .. p /\ b \in Nat /\ b <= l /\ l < 2 * b
          BY <1>2, <1>3, <2>2
        <5>2. QED
          BY <5>1, TakenFromLeft
      <4>3. QED
        BY <4>1, <4>2
    <3>3. QED
      BY <2>2, <3>1, <3>2
  <2>7. 1 \in 1 .. m + 1 /\ (m + 1) + 1 = m + 2
    BY <2>2
  <2>8. Starting(u, y, p - (l - b), p)
    BY <2>3, <2>4, <2>5, <2>6, <2>7 DEF Starting
  <2>9. StartsExist(y, p - (l - b), p)
    BY <2>8 DEF StartsExist
  <2>10. Take(s, b).left = l - b /\ Take(s, b).taken = y
    BY <1>3, <2>2, <2>4 DEF Take
  <2>11. l - b < b
    BY <1>2, <2>2
  <2>12. QED
    BY <2>9, <2>10, <2>11
<1>4. CASE ~(s.left >= b)
  <2>1. Take(s, b) = s
    BY <1>4 DEF Take
  <2>2. s.left < b
    BY <1>1, <1>2, <1>4
  <2>3. QED
    BY <2>1, <2>2
<1>5. QED
  BY <1>3, <1>4

(* The nodes of a submission hold the padded file.                         *)
LEMMA NodesStart ==
    ASSUME NEW c, NEW n, NEW p, Cut(c, n, p), p <= Two[30]
    PROVE  StartsExist(SplitNodes, p, p)
<1>0. p \in Nat
  BY DEF Cut
<1>1. PICK v : Takes(v, p)
  BY SplitTakes
<1>2. /\ v[0] = [left |-> p, taken |-> << >>]
      /\ \A k \in 1 .. 31 : v[k] = Take(v[k - 1], 2 ^ (31 - k))
      /\ \A k \in 0 .. 31 : v[k] \in TakeState(p)
      /\ SplitNodes = v[31].taken
  BY <1>1 DEF Takes
<1> DEFINE Fine(k) == StartsExist(v[k].taken, p - v[k].left, p)
           S == {k \in Nat : Fine(k) /\ v[k].left < 2 * Two[30 - k]}
<1>3. 0 \in S
  <2>0. p - p = 0
    BY <1>0
  <2>1. v[0].left = p /\ v[0].taken = << >> /\ p - p = 0
    <3>1. v[0].left = p
      BY <1>2
    <3>2. v[0].taken = << >>
      BY <1>2
    <3>3. QED
      BY <2>0, <3>1, <3>2
  <2>2. Starting([j \in {1} |-> 0], << >>, 0, p)
    BY DEF Starting
  <2>3. Fine(0)
    BY <2>1, <2>2 DEF StartsExist
  <2>4. p < 2 * Two[30 - 0]
    <3>1. 30 - 0 = 30 /\ 30 \in 0 .. 30
      OBVIOUS
    <3>2. Two[30] \in Nat \ {0}
      BY <3>1, TwoIs
    <3>3. QED
      BY <1>0, <3>1, <3>2
  <2> HIDE DEF Fine
  <2>5. QED
    BY <2>1, <2>3, <2>4
<1>4. ASSUME NEW k \in 0 .. 30, Fine(k), v[k].left < 2 * Two[30 - k]
      PROVE  Fine(k + 1) /\ v[k + 1].left < Two[30 - k]
  <2>1. /\ k + 1 \in 1 .. 31 /\ (k + 1) - 1 = k /\ 31 - (k + 1) = 30 - k
        /\ 30 - k \in 0 .. 30 /\ k \in 0 .. 31
    OBVIOUS
  <2>2. v[k + 1] = Take(v[k], Two[30 - k])
    <3>1. v[k + 1] = Take(v[(k + 1) - 1], 2 ^ (31 - (k + 1)))
      BY <1>2, <2>1
    <3>2. Two[30 - k] = 2 ^ (30 - k)
      BY <2>1 DEF Two
    <3>3. QED
      BY <2>1, <3>1, <3>2
  <2>3. Two[30 - k] \in Powers
    BY <2>1, TwoIs
  <2>4. v[k] \in TakeState(p)
    BY <1>2, <2>1
  <2>5. QED
    BY <1>0, <1>4, <2>2, <2>3, <2>4, TakeStarts
<1>5. 30 \in S
  <2>1. ASSUME NEW k \in 0 .. 30 - 1, k \in S PROVE k + 1 \in S
    <3>1. Fine(k) /\ v[k].left < 2 * Two[30 - k] /\ k \in 0 .. 30 /\ k + 1 \in Nat
      BY <2>1
    <3>2. Fine(k + 1) /\ v[k + 1].left < Two[30 - k]
      BY <1>4, <3>1
    <3>3. 30 - (k + 1) \in 0 .. 29 /\ (30 - (k + 1)) + 1 = 30 - k
      OBVIOUS
    <3>4. Two[30 - k] = 2 * Two[30 - (k + 1)]
      BY <3>3, TwoIs
    <3> HIDE DEF Fine
    <3>5. QED
      BY <3>1, <3>2, <3>4
  <2> HIDE DEF S
  <2>2. 30 \in Nat /\ 30 \in 0 .. 30
    OBVIOUS
  <2>3. \A k \in 0 .. 30 : k \in S
    BY <1>3, <2>1, <2>2, UpFromZero
  <2>4. QED
    BY <2>2, <2>3
<1>6. Fine(31) /\ v[31].left < 1
  <2>1. 30 \in 0 .. 30 /\ 30 + 1 = 31 /\ 30 - 30 = 0 /\ Two[0] = 1
    BY TwoIs
  <2>2. Fine(30) /\ v[30].left < 2 * Two[30 - 30]
    BY <1>5
  <2>3. Fine(30 + 1) /\ v[30 + 1].left < Two[30 - 30]
    BY <1>4, <2>1, <2>2
  <2>4. QED
    BY <2>1, <2>3
<1>7. v[31].left = 0
  <2>1. 31 \in 0 .. 31
    OBVIOUS
  <2>2. v[31].left \in 0 .. p
    BY <1>2, <2>1 DEF TakeState
  <2>3. QED
    BY <1>0, <1>6, <2>2
<1>8. p - 0 = p
  BY <1>0
<1>9. QED
  BY <1>2, <1>6, <1>7, <1>8

----------------------------------------------------------------------------
(* Folding from the right.                                                 *)
RightGoes(f, base, row, n) ==
    f = [s \in SUBSET (1 .. n) |->
            IF s = {} THEN base ELSE Combine(row[Min(s)].root, f[s \ {Min(s)}])]

LEMMA FirstOne ==
    ASSUME NEW s \in SUBSET Nat, s # {} PROVE Min(s) \in s /\ \A x \in s : Min(s) <= x
<1>1. \E x \in s : \A y \in s : x <= y
  BY Least
<1>2. QED
  BY <1>1 DEF Min

(* There is such a function, by the mirror image of GoesExists.            *)
LEMMA RightGoesExists ==
    ASSUME NEW base, NEW row, NEW n \in Nat PROVE \E f : RightGoes(f, base, row, n)
<1> DEFINE how == [kind |-> "nodes", nodes |-> [k \in 1 .. n |-> row[n + 1 - k]]]
           Mirror(s) == {n + 1 - i : i \in s}
<1>1. PICK f : Goes(f, how, base, n)
  <2> HIDE DEF how
  <2>1. QED
    BY GoesExists
<1>2. f = [s \in SUBSET (1 .. n) |->
              IF s = {} THEN base ELSE FoldStep(how, f[s \ {Max(s)}], Max(s))]
  BY <1>1 DEF Goes
<1>3. \A x : \A k \in 1 .. n : FoldStep(how, x, k) = Combine(row[n + 1 - k].root, x)
  BY DEF FoldStep
<1> HIDE DEF how
<1> DEFINE g == [s \in SUBSET (1 .. n) |-> f[Mirror(s)]]
<1>4. ASSUME NEW s \in SUBSET (1 .. n)
      PROVE  g[s] = IF s = {} THEN base ELSE Combine(row[Min(s)].root, g[s \ {Min(s)}])
  <2>1. Mirror(s) \in SUBSET (1 .. n) /\ (Mirror(s) = {} <=> s = {}) /\ g[s] = f[Mirror(s)]
    OBVIOUS
  <2>2. CASE s = {}
    <3>1. f[{}] = base
      BY <1>2
    <3>2. QED
      BY <2>1, <2>2, <3>1
  <2>3. CASE s # {}
    <3> HIDE DEF g
    <3>1. Min(s) \in s /\ \A x \in s : Min(s) <= x
      BY <2>3, FirstOne
    <3>2. PICK m \in 1 .. n : m = Min(s) /\ m \in s /\ \A x \in s : m <= x
      BY <3>1
    <3>3. Max(Mirror(s)) \in Mirror(s) /\ \A x \in Mirror(s) : x <= Max(Mirror(s))
      <4>1. n \in Nat /\ Mirror(s) # {}
        BY <2>1, <2>3
      <4> HIDE DEF Mirror
      <4>2. QED
        BY <2>1, <4>1, LastOne
    <3>4. PICK i \in s : Max(Mirror(s)) = n + 1 - i
      BY <3>3
    <3>5. n + 1 - m \in Mirror(s)
      BY <3>2
    <3>6. n + 1 - m <= n + 1 - i
      BY <3>3, <3>4, <3>5
    <3>7. i = m /\ n + 1 - m \in 1 .. n /\ n + 1 - (n + 1 - m) = m
      BY <3>2, <3>6
    <3>8. Mirror(s) \ {n + 1 - m} = Mirror(s \ {m})
      BY <3>2
    <3>9. f[Mirror(s)] = FoldStep(how, f[Mirror(s \ {m})], n + 1 - m)
      <4>1. Mirror(s) # {} /\ Max(Mirror(s)) = n + 1 - m
        BY <2>1, <2>3, <3>4, <3>7
      <4> HIDE DEF Mirror
      <4>2. f[Mirror(s)]
                = FoldStep(how, f[Mirror(s) \ {Max(Mirror(s))}], Max(Mirror(s)))
        BY <1>2, <2>1, <4>1
      <4>3. QED
        BY <3>8, <4>1, <4>2
    <3>10. g[s \ {m}] = f[Mirror(s \ {m})]
      BY DEF g
    <3>11. FoldStep(how, f[Mirror(s \ {m})], n + 1 - m)
               = Combine(row[m].root, f[Mirror(s \ {m})])
      <4> HIDE DEF Mirror
      <4>1. QED
        BY <1>3, <3>7
    <3> HIDE DEF Mirror
    <3>12. QED
      BY <2>1, <2>3, <3>2, <3>9, <3>10, <3>11
  <2>4. QED
    BY <2>2, <2>3
<1>5. g = [s \in SUBSET (1 .. n) |-> g[s]]
  OBVIOUS
<1> HIDE DEF g
<1>6. g = [s \in SUBSET (1 .. n) |->
              IF s = {} THEN base ELSE Combine(row[Min(s)].root, g[s \ {Min(s)}])]
  BY <1>4, <1>5
<1>7. RightGoes(g, base, row, n)
  BY <1>6 DEF RightGoes
<1>8. QED
  BY <1>7

LEMMA LaterPositions ==
    ASSUME NEW n \in Nat, NEW m \in 1 .. n
    PROVE  /\ m .. n \in SUBSET (1 .. n) /\ m \in m .. n /\ m .. n # {}
           /\ (m .. n) \ {m} = (m + 1) .. n
<1>1. m .. n \in SUBSET (1 .. n) /\ m \in m .. n
  OBVIOUS
<1>2. \A x : x \in (m .. n) \ {m} <=> x \in (m + 1) .. n
  OBVIOUS
<1>3. QED
  BY <1>1, <1>2

(* What the Flow contract makes of a submission.                           *)
FlowRoot(row) ==
    LET join(node, rest) == Combine(node.root, rest)
    IN  FoldRight(join, Front(row), Last(row).root)

JoinsTo(row, n) ==
    \E v : /\ v[0] = row[n + 1].root
           /\ \A k \in 1 .. n : v[k] = Combine(row[n + 1 - k].root, v[k - 1])
           /\ FlowRoot(row) = v[n]

LEMMA JoinedRight ==
    ASSUME NEW row, IsSeq(row), NEW n \in Nat, Len(row) = n + 1
    PROVE  JoinsTo(row, n)
<1> DEFINE front == Front(row)
           base == Last(row).root
           Is(f) == f = [s \in SUBSET (1 .. n) |->
                            IF s = {} THEN base
                            ELSE Combine(front[Min(s)].root, f[s \ {Min(s)}])]
<1>1. /\ front = [i \in 1 .. n |-> row[i]] /\ DOMAIN front = 1 .. n
      /\ base = row[n + 1].root
  <2>1. Len(row) - 1 = n
    OBVIOUS
  <2>2. SubSeq(row, 1, n) = [i \in 1 .. n |-> row[i]]
    <3>1. PICK S : row \in Seq(S)
      BY DEF IsSeq
    <3>2. \A i \in 1 .. n : 1 <= i /\ i <= Len(row)
      OBVIOUS
    <3>3. QED
      BY <3>1, <3>2
  <2>3. QED
    BY <2>1, <2>2 DEF Front, Last
<1> HIDE DEF front, base
<1>2. PICK f : RightGoes(f, base, front, n)
  BY RightGoesExists
<1>3. Is(f)
  BY <1>2 DEF RightGoes
<1> DEFINE F == CHOOSE it : Is(it)
<1>4. Is(F)
  <2> HIDE DEF Is
  <2>1. QED
    BY <1>3
<1>5. FlowRoot(row) = F[1 .. n]
  BY <1>1 DEF FlowRoot, FoldRight, MapThenFoldSet, front, base
<1> HIDE DEF F
<1> DEFINE v == [k \in 0 .. n |-> F[(n + 1 - k) .. n]]
<1>6. v[0] = base
  <2>1. (n + 1 - 0) .. n = {} /\ 0 \in 0 .. n
    OBVIOUS
  <2>2. F[{}] = base
    BY <1>4
  <2>3. QED
    BY <2>1, <2>2
<1>7. ASSUME NEW k \in 1 .. n PROVE v[k] = Combine(row[n + 1 - k].root, v[k - 1])
  <2>1. PICK m \in 1 .. n : m = n + 1 - k /\ n + 1 - (k - 1) = m + 1
    OBVIOUS
  <2>2. /\ m .. n \in SUBSET (1 .. n) /\ m \in m .. n /\ m .. n # {}
        /\ (m .. n) \ {m} = (m + 1) .. n
    BY LaterPositions
  <2>3. Min(m .. n) = m
    <3>1. m .. n \in SUBSET Nat /\ m .. n # {}
      BY <2>2
    <3>2. PICK x : x = Min(m .. n)
      OBVIOUS
    <3>3. x \in m .. n /\ x <= m
      BY <2>2, <3>1, <3>2, FirstOne
    <3>4. QED
      BY <3>2, <3>3
  <2>4. F[m .. n] = Combine(front[m].root, F[(m + 1) .. n])
    BY <1>4, <2>2, <2>3
  <2>5. front[m] = row[m]
    BY <1>1
  <2>6. k \in 0 .. n /\ k - 1 \in 0 .. n
    OBVIOUS
  <2>7. v[k] = F[m .. n] /\ v[k - 1] = F[(m + 1) .. n]
    BY <2>1, <2>6
  <2> HIDE DEF v
  <2>8. QED
    BY <2>1, <2>4, <2>5, <2>7
<1>8. v[n] = F[1 .. n]
  <2>1. n \in 0 .. n /\ n + 1 - n = 1
    OBVIOUS
  <2>2. QED
    BY <2>1
<1> HIDE DEF v
<1>9. QED
  BY <1>1, <1>5, <1>6, <1>7, <1>8 DEF JoinsTo

(* Joining the roots of the nodes of a file gives the root of the file.    *)
LEMMA NodesJoin ==
    ASSUME NEW h, NEW p \in Nat \ {0}, p <= Two[30], NEW z, Len(z) \in Nat, NEW o,
           Starting(o, z, p, p),
           NEW row, IsSeq(row), Len(row) = Len(z),
           \A j \in 1 .. Len(z) : row[j].root = Tree(h, o[j], z[j])
    PROVE  FlowRoot(row) = Tree(h, 0, p)
<1>1. PICK q : q = Len(z) /\ q \in Nat
  OBVIOUS
<1>2. /\ o[1] = 0 /\ o[q + 1] = p
      /\ \A j \in 1 .. q :
             /\ o[j] \in 0 .. p /\ z[j] \in Powers /\ o[j + 1] = o[j] + z[j]
             /\ z[j] <= p - o[j] /\ p - o[j] < 2 * z[j]
  BY <1>1 DEF Starting
<1>3. q # 0
  BY <1>2
<1>4. PICK n \in Nat : n + 1 = q
  <2>1. q - 1 \in Nat /\ (q - 1) + 1 = q
    BY <1>1, <1>3
  <2>2. QED
    BY <2>1
<1>5. PICK v : /\ v[0] = row[n + 1].root
               /\ \A k \in 1 .. n : v[k] = Combine(row[n + 1 - k].root, v[k - 1])
               /\ FlowRoot(row) = v[n]
  <2>1. JoinsTo(row, n)
    BY <1>1, <1>4, JoinedRight
  <2>2. QED
    BY <2>1 DEF JoinsTo
<1>6. \A j \in 1 .. q : row[j].root = Tree(h, o[j], z[j]) /\ z[j] \in Nat \ {0}
  BY <1>1, <1>2, PowersAreNumbers
<1> DEFINE S == {k \in Nat : v[k] = Tree(h, o[q - k], p - o[q - k])}
<1>7. 0 \in S
  <2>1. q \in 1 .. q /\ q - 0 = q
    BY <1>1, <1>3
  <2>2. o[q] \in 0 .. p /\ p = o[q] + z[q] /\ z[q] \in Nat
    BY <1>2, <1>6, <2>1
  <2>3. p - o[q] = z[q]
    BY <2>2
  <2>4. v[0] = Tree(h, o[q], z[q])
    BY <1>4, <1>5, <1>6, <2>1
  <2>5. QED
    BY <2>1, <2>3, <2>4
<1>8. ASSUME NEW k \in 0 .. n - 1, k \in S PROVE k + 1 \in S
  <2>1. PICK j \in 1 .. n : j = q - (k + 1) /\ j + 1 = q - k /\ n + 1 - (k + 1) = j
    BY <1>4
  <2>2. j \in 1 .. q /\ j + 1 \in 1 .. q /\ k + 1 \in 1 .. n /\ (k + 1) - 1 = k
    BY <1>4, <2>1
  <2>3. PICK x, y, e : /\ x = o[j] /\ x \in 0 .. p /\ y = z[j] /\ y \in Nat \ {0}
                       /\ e = p - x /\ e \in Nat
                       /\ o[j + 1] = x + y /\ y <= e /\ e < 2 * y
    <3>1. PICK x, y : /\ x = o[j] /\ x \in 0 .. p /\ y = z[j] /\ y \in Nat \ {0}
                      /\ o[j + 1] = x + y /\ y <= p - x /\ p - x < 2 * y
      BY <1>2, <1>6, <2>2
    <3>2. p - x \in Nat
      <4>1. \A r \in 0 .. p : p - r \in Nat
        OBVIOUS
      <4>2. QED
        BY <3>1, <4>1
    <3>3. QED
      BY <3>1, <3>2
  <2>4. y < e /\ p - (x + y) = e - y
    <3>1. PICK a, b : /\ a = o[j + 1] /\ a \in 0 .. p /\ b = z[j + 1] /\ b \in Nat \ {0}
                      /\ b <= p - a
      BY <1>2, <1>6, <2>2
    <3>2. a = x + y
      BY <2>3, <3>1
    <3>0. p \in Int /\ \A i \in 0 .. p : i \in Int
      OBVIOUS
    <3>3. x \in Int /\ y \in Int /\ e \in Int /\ b \in Int /\ p \in Int
      <4>1. x \in 0 .. p /\ y \in Nat /\ e \in Nat /\ b \in Nat
        BY <2>3, <3>1
      <4>2. QED
        BY <3>0, <4>1
    <3>4. b <= p - (x + y) /\ b >= 1 /\ e = p - x
      BY <2>3, <3>1, <3>2
    <3>5. y < e
      BY <3>3, <3>4
    <3>6. p - (x + y) = e - y
      BY <3>3, <3>4
    <3>7. QED
      BY <3>5, <3>6
  <2>5. PICK t \in 0 .. 29 : y = Two[t] /\ Two[t + 1] = 2 * y
    <3>1. PICK t \in 0 .. 30 : y = Two[t]
      BY <1>2, <2>2, <2>3, TwoIs
    <3>2. t # 30
      <4>1. SUFFICES ASSUME t = 30 PROVE FALSE
        OBVIOUS
      <4>2. y = Two[30]
        BY <3>1, <4>1
      <4>3. QED
        BY <2>3, <2>4, <4>2
    <3>3. t \in 0 .. 29
      BY <3>2
    <3>4. QED
      BY <3>1, <3>3, TwoIs
  <2>6. Tree(h, x, e) = Combine(Tree(h, x, y), Tree(h, x + y, e - y))
    <3>0. x \in Nat
      BY <2>3
    <3>1. Two[t] < e /\ e <= Two[t + 1] /\ x \in Nat
      <4>1. Two[t] < e
        BY <2>4, <2>5
      <4>2. e <= 2 * y
        <5>1. e \in Nat /\ y \in Nat /\ e < 2 * y
          BY <2>3
        <5>2. QED
          BY <5>1
      <4>3. QED
        BY <2>5, <3>0, <4>1, <4>2
    <3>2. TreeSplit(h, x, e, Two[t])
      BY <2>3, <3>1, TreeSplits
    <3>3. QED
      BY <2>5, <3>2 DEF TreeSplit
  <2>7. v[k + 1] = Combine(row[j].root, v[k])
    BY <1>5, <2>1, <2>2
  <2>8. row[j].root = Tree(h, x, y)
    BY <1>6, <2>2, <2>3
  <2>9. v[k] = Tree(h, x + y, e - y)
    BY <1>8, <2>1, <2>3, <2>4
  <2>10. v[k + 1] = Tree(h, x, e)
    BY <2>6, <2>7, <2>8, <2>9
  <2>11. k + 1 \in Nat /\ x = o[q - (k + 1)] /\ e = p - o[q - (k + 1)]
    BY <2>1, <2>3
  <2>12. QED
    BY <2>10, <2>11
<1>9. n \in S
  <2> HIDE DEF S
  <2>1. n \in 0 .. n
    OBVIOUS
  <2>2. \A k \in 0 .. n : k \in S
    BY <1>7, <1>8, UpFromZero
  <2>3. QED
    BY <2>1, <2>2
<1>10. q - n = 1 /\ p - 0 = p
  BY <1>4
<1>11. QED
  BY <1>2, <1>5, <1>9, <1>10

----------------------------------------------------------------------------
(* The trees over a file's chunks, the padding included.                   *)
Hashes ==
    [k \in 1 .. PaddedChunks(NumChunks) |-> IF k <= NumChunks THEN <<k>> ELSE <<0>>]

LEMMA ReadTree ==
    ASSUME NEW c, NEW n, NEW p, Cut(c, n, p), NEW a \in 0 .. p, NEW b \in Nat \ {0},
           NEW m, m = Batched(a, b, p)
    PROVE  /\ RootHash(Read(a * CHUNK, b * CHUNK)) = Tree(Hashes, a, m)
           /\ Len(Read(a * CHUNK, b * CHUNK)) = m
<1>1. c = NumChunks /\ p = PaddedChunks(NumChunks) /\ p \in Nat /\ c \in Nat
  BY DEF Cut
<1>2. m \in Nat /\ a + m <= p
  BY <1>1 DEF Batched
<1>3. PICK h : h = Hashes /\ h = [k \in 1 .. p |-> IF k <= c THEN <<k>> ELSE <<0>>]
  BY <1>1 DEF Hashes
<1>4. PICK read : /\ read = Read(a * CHUNK, b * CHUNK)
                  /\ read = [j \in 1 .. m |-> IF a + j <= c THEN <<a + j>> ELSE <<0>>]
  <2>1. Read(a * CHUNK, b * CHUNK)
            = [j \in 1 .. Batched(a, b, p) |-> IF a + j <= c THEN <<a + j>> ELSE <<0>>]
    BY ReadIs
  <2>2. QED
    BY <2>1, Zenon
<1>5. Cutout(h, a, m) = read
  <2>1. \A j \in 1 .. m : a + j \in 1 .. p
    BY <1>1, <1>2
  <2>2. \A j \in 1 .. m : h[a + j] = IF a + j <= c THEN <<a + j>> ELSE <<0>>
    BY <1>3, <2>1
  <2>3. QED
    BY <1>4, <2>2 DEF Cutout
<1>6. Len(read) = m
  BY <1>2, <1>4
<1>7. QED
  BY <1>3, <1>4, <1>5, <1>6 DEF Tree

LEMMA WholeCutout == ASSUME NEW s, IsSeq(s) PROVE Cutout(s, 0, Len(s)) = s
<1>1. PICK S : s \in Seq(S)
  BY DEF IsSeq
<1>2. Len(s) \in Nat /\ s = [j \in 1 .. Len(s) |-> s[j]]
  BY <1>1, LenProperties
<1>3. \A j \in 1 .. Len(s) : 0 + j = j
  BY <1>2
<1>4. QED
  BY <1>2, <1>3 DEF Cutout

LEMMA SumParts ==
    ASSUME NEW e \in Int, NEW w \in Nat \ {0}
    PROVE  e < e + w /\ e + w <= e + w /\ (e + w) - e = w
  OBVIOUS

(* The root over the roots of d full blocks.                               *)
RootOver(roots, h, x, y) == RootHash(roots) = Tree(h, x, y)

LEMMA FullBlocks ==
    ASSUME NEW s \in 0 .. 30, NEW d \in Nat \ {0}, NEW w, w = Two[s], NEW y, y = d * w,
           y <= Two[30], NEW h, NEW x \in Nat, NEW roots, IsSeq(roots), Len(roots) = d,
           \A i \in 1 .. d : roots[i] = Tree(h, x + (i - 1) * w, w)
    PROVE  RootOver(roots, h, x, y)
<1>1. w \in Nat \ {0}
  BY TwoIs
<1>2. PICK e : e = (d - 1) * w /\ y \in Nat /\ e \in Int /\ y = e + w
  <2>0. \A a, b \in Nat : a * b \in Nat /\ (a - 1) * b \in Int /\ a * b = (a - 1) * b + b
    OBVIOUS
  <2>1. y = d * w /\ y \in Nat
    <3>1. d \in Nat /\ w \in Nat
      BY <1>1
    <3>2. d * w \in Nat
      BY <2>0, <3>1, Zenon
    <3>3. QED
      BY <3>2
  <2>2. PICK e : e = (d - 1) * w /\ e \in Int /\ y = e + w
    <3>1. d \in Nat /\ w \in Nat
      BY <1>1
    <3>2. (d - 1) * w \in Int /\ d * w = (d - 1) * w + w
      BY <2>0, <3>1, Zenon
    <3>3. QED
      BY <3>2
  <2>3. QED
    BY <2>1, <2>2
<1>3. e < y /\ y <= y /\ y - e = w
  <2>1. e \in Int /\ w \in Nat \ {0} /\ y = e + w
    BY <1>1, <1>2
  <2>2. QED
    BY <2>1, SumParts
<1>4. ASSUME NEW i \in 1 .. d PROVE roots[0 + i] = Tree(h, x + (i - 1) * w, w)
  <2>1. 0 + i = i
    OBVIOUS
  <2>2. QED
    BY <2>1
<1>5. d \in 1 .. d /\ \A i \in 1 .. d - 1 : i \in 1 .. d
  OBVIOUS
<1>6. Blocks(roots, 0, h, x, w, d, y)
  <2>1. roots[0 + d] = Tree(h, x + (d - 1) * w, y - (d - 1) * w)
    BY <1>2, <1>3, <1>4, <1>5
  <2>2. QED
    BY <1>2, <1>3, <1>4, <1>5, <2>1 DEF Blocks
<1>7. Tree(roots, 0, d) = Tree(h, x, y)
  <2>1. 0 \in Nat /\ y <= Two[30]
    BY <1>2
  <2>2. Blocks(roots, 0, h, x, Two[s], d, y)
    BY <1>6
  <2>3. BlocksAgree(roots, 0, h, x, d, y)
    BY <2>1, <2>2, BlocksTree
  <2>4. QED
    BY <2>3 DEF BlocksAgree
<1>8. Tree(roots, 0, d) = RootHash(roots)
  BY WholeCutout DEF Tree
<1>9. QED
  BY <1>7, <1>8 DEF RootOver

(* A node is read at once or in full segments.                             *)
LEMMA BatchDivides ==
    ASSUME NEW z \in Powers
    PROVE  \E s \in 0 .. 30, d \in Nat \ {0} :
               Min({z, SEGMENT}) = Two[s] /\ z = d * Two[s]
<1>1. PICK t \in 0 .. 30 : z = Two[t]
  BY TwoIs
<1>2. PICK r \in 0 .. 30 : SEGMENT = Two[r]
  BY SegmentAssumption, TwoIs
<1>3. z \in Nat \ {0} /\ SEGMENT \in Nat \ {0}
  BY <1>1, <1>2, TwoIs
<1>4. Min({z, SEGMENT}) = IF z <= SEGMENT THEN z ELSE SEGMENT
  BY <1>3, MinOfTwo
<1>5. CASE z <= SEGMENT
  <2>1. Min({z, SEGMENT}) = Two[t] /\ z = 1 * Two[t] /\ 1 \in Nat \ {0}
    BY <1>1, <1>3, <1>4, <1>5
  <2>2. QED
    BY <2>1
<1>6. CASE ~(z <= SEGMENT)
  <2>1. r < t
    <3>1. t <= r => Two[t] <= Two[r]
      BY TwoUp
    <3>2. QED
      BY <1>1, <1>2, <1>3, <1>6, <3>1
  <2>2. PICK u : u = t - r /\ u \in 0 .. 30 /\ u \in 0 .. 30 - r /\ r + u = t
    BY <2>1
  <2>3. Two[u] * Two[r] = Two[r + u] /\ Two[u] \in Nat \ {0}
    BY <2>2, TwoAdds, TwoIs
  <2>4. Min({z, SEGMENT}) = Two[r] /\ z = Two[u] * Two[r]
    BY <1>1, <1>2, <1>4, <1>6, <2>2, <2>3
  <2>5. QED
    BY <2>3, <2>4
<1>7. QED
  BY <1>5, <1>6

----------------------------------------------------------------------------
(* The inductive invariant: while the segments are read, no more leaves    *)
(* have been made than chunks were read.                                   *)
FileIInv ==
    /\ size \in Sizes
    /\ phase \in {"merkle_tree", "create_submission", "ready", "error"}
    /\ IsSeq(leaves) /\ IsSeq(submission) /\ IsSeq(inner)
    /\ \E k \in 0 .. PaddedChunks(NumChunks) :
           offset = k * CHUNK /\ (phase = "merkle_tree" => Len(leaves) <= k)
    /\ Len(leaves) <= PaddedChunks(NumChunks)
    /\ Len(submission) <= Len(SplitNodes)
    /\ Len(inner) <= PaddedChunks(NumChunks)

(* The size does not change, and so neither does what follows from it.     *)
LEMMA SameSize ==
    ASSUME size' = size PROVE NumChunks' = NumChunks /\ SplitNodes' = SplitNodes
<1>1. NumChunks' = NumChunks
  BY DEF NumChunks
<1>2. SplitNodes' = SplitNodes
  BY <1>1 DEF SplitNodes
<1>3. QED
  BY <1>1, <1>2

(* How far a read moves the offset.                                        *)
LEMMA ReadMoves ==
    ASSUME NEW c, NEW n, NEW p, Cut(c, n, p), NEW k \in 0 .. p, NEW b \in Nat \ {0}
    PROVE  \E j \in 0 .. p :
               /\ k * CHUNK + Len(Read(k * CHUNK, b * CHUNK)) * CHUNK = j * CHUNK
               /\ k <= j /\ (k # p => k < j)
<1>1. p \in Nat /\ k \in Nat /\ CHUNK \in Nat \ {0}
  BY StorageFileAssumption DEF Cut
<1>2. PICK l : /\ l = Batched(k, b, p) /\ l \in Nat /\ k + l \in 0 .. p
               /\ (k # p => l # 0)
  BY <1>1 DEF Batched
<1>3. Read(k * CHUNK, b * CHUNK)
          = [j \in 1 .. Batched(k, b, p) |-> IF k + j <= c THEN <<k + j>> ELSE <<0>>]
  BY ReadIs
<1>4. PICK read : /\ read = Read(k * CHUNK, b * CHUNK)
                  /\ read = [j \in 1 .. l |-> IF k + j <= c THEN <<k + j>> ELSE <<0>>]
  BY <1>2, <1>3, Zenon
<1>5. Len(read) = l
  BY <1>2, <1>4
<1>6. k * CHUNK + l * CHUNK = (k + l) * CHUNK
  <2>1. CHUNK * (k + l) = CHUNK * k + CHUNK * l
    BY <1>1, <1>2, Distributes
  <2>2. /\ CHUNK * (k + l) = (k + l) * CHUNK /\ CHUNK * k = k * CHUNK
        /\ CHUNK * l = l * CHUNK
    BY <1>1, <1>2
  <2>3. QED
    BY <2>1, <2>2
<1>7. k <= k + l /\ (k # p => k < k + l)
  BY <1>1, <1>2
<1>8. QED
  BY <1>2, <1>4, <1>5, <1>6, <1>7

LEMMA FileInitHolds == FileInit => FileIInv
<1> SUFFICES ASSUME FileInit PROVE FileIInv
  OBVIOUS
<1>1. /\ size \in Sizes /\ phase = "merkle_tree" /\ offset = 0
      /\ leaves = << >> /\ submission = << >> /\ inner = << >>
  BY DEF FileInit
<1>2. PICK c, n, p : Cut(c, n, p)
  BY <1>1, FileIsCut
<1>3. p \in Nat /\ p = PaddedChunks(NumChunks) /\ CHUNK \in Nat \ {0}
  BY <1>2, StorageFileAssumption DEF Cut
<1>4. Len(SplitNodes) \in Nat
  BY <1>2, NodesFit, LenProperties
<1>5. IsSeq(<< >>) /\ Len(<< >>) = 0
  <2>1. << >> \in Seq(Nat) /\ Len(<< >>) = 0
    BY EmptySeq
  <2>2. QED
    BY <2>1, SeqIs, Zenon
<1>6. 0 \in 0 .. p /\ 0 * CHUNK = 0
  BY <1>3
<1>7. QED
  BY <1>1, <1>3, <1>4, <1>5, <1>6 DEF FileIInv

(* What a step uses of the invariant.                                      *)
LEMMA FileIInvGives ==
    ASSUME FileIInv
    PROVE  \E c, n, p : /\ Cut(c, n, p) /\ p \in Nat /\ p = PaddedChunks(NumChunks)
                        /\ PaddedSize = p * CHUNK
                        /\ SplitNodes \in Seq(1 .. p)
                        /\ Len(leaves) \in Nat /\ Len(submission) \in Nat
                        /\ Len(inner) \in Nat /\ Len(SplitNodes) \in Nat
<1>1. size \in Sizes /\ IsSeq(leaves) /\ IsSeq(submission) /\ IsSeq(inner)
  BY DEF FileIInv
<1>2. PICK c, n, p : Cut(c, n, p)
  BY <1>1, FileIsCut
<1>3. p \in Nat /\ p = PaddedChunks(NumChunks)
  BY <1>2 DEF Cut
<1>4. SplitNodes \in Seq(1 .. p)
  BY <1>2, NodesFit
<1>5. Len(leaves) \in Nat /\ Len(submission) \in Nat /\ Len(inner) \in Nat
  BY <1>1, SeqGrows
<1>6. Len(SplitNodes) \in Nat
  BY <1>4, LenProperties
<1>7. PaddedSize = p * CHUNK
  BY <1>3 DEF PaddedSize
<1>8. QED
  BY <1>2, <1>3, <1>4, <1>5, <1>6, <1>7

LEMMA FileStep == FileIInv /\ [FileNext]_fileVars => FileIInv'
<1> SUFFICES ASSUME FileIInv, [FileNext]_fileVars PROVE FileIInv'
  OBVIOUS
<1>1. PICK c, n, p : /\ Cut(c, n, p) /\ p \in Nat /\ p = PaddedChunks(NumChunks)
                     /\ PaddedSize = p * CHUNK
                     /\ SplitNodes \in Seq(1 .. p)
                     /\ Len(leaves) \in Nat /\ Len(submission) \in Nat
                     /\ Len(inner) \in Nat /\ Len(SplitNodes) \in Nat
  BY FileIInvGives
<1>2. CHUNK \in Nat \ {0} /\ SEGMENT \in Nat \ {0}
  BY StorageFileAssumption
<1>3. /\ size \in Sizes
      /\ phase \in {"merkle_tree", "create_submission", "ready", "error"}
      /\ IsSeq(leaves) /\ IsSeq(submission) /\ IsSeq(inner)
      /\ Len(leaves) <= p /\ Len(submission) <= Len(SplitNodes) /\ Len(inner) <= p
  BY <1>1 DEF FileIInv
<1>4. PICK k \in 0 .. p : offset = k * CHUNK /\ (phase = "merkle_tree" => Len(leaves) <= k)
  BY <1>1 DEF FileIInv
<1>5. CASE UNCHANGED fileVars
  <2>1. /\ size' = size /\ phase' = phase /\ offset' = offset /\ leaves' = leaves
        /\ submission' = submission /\ inner' = inner
    BY <1>5 DEF fileVars
  <2>2. p = PaddedChunks(NumChunks)' /\ SplitNodes' = SplitNodes
    BY <1>1, <2>1, SameSize
  <2>3. QED
    BY <1>1, <1>3, <1>4, <2>1, <2>2 DEF FileIInv
<1>6. CASE MerkleTree
  <2>1. /\ phase = "merkle_tree"
        /\ size' = size /\ submission' = submission /\ inner' = inner
    BY <1>6 DEF MerkleTree
  <2>2. p = PaddedChunks(NumChunks)' /\ SplitNodes' = SplitNodes
    BY <1>1, <2>1, SameSize
  <2>3. CASE /\ offset < PaddedSize
             /\ leaves' = Append(leaves, RootHash(Read(offset, SEGMENT * CHUNK)))
             /\ offset' = offset + Len(Read(offset, SEGMENT * CHUNK)) * CHUNK
             /\ UNCHANGED phase
    <3>1. PICK j \in 0 .. p :
              /\ k * CHUNK + Len(Read(k * CHUNK, SEGMENT * CHUNK)) * CHUNK = j * CHUNK
              /\ k <= j /\ (k # p => k < j)
      BY <1>1, <1>2, ReadMoves
    <3>2. offset' = j * CHUNK
      BY <1>4, <2>3, <3>1, Zenon
    <3>3. k # p
      <4>1. k * CHUNK < p * CHUNK
        BY <1>1, <1>4, <2>3, Zenon
      <4>2. k < p
        BY <1>1, <1>2, <4>1, TimesOrders
      <4>3. QED
        BY <4>2
    <3>4. IsSeq(leaves') /\ Len(leaves') = Len(leaves) + 1
      BY <1>3, <2>3, SeqGrows, Zenon
    <3>5. Len(leaves') <= j /\ Len(leaves') <= p
      BY <1>1, <1>4, <2>1, <3>1, <3>3, <3>4
    <3>6. QED
      BY <1>1, <1>3, <2>1, <2>2, <2>3, <3>2, <3>4, <3>5 DEF FileIInv
  <2>4. CASE /\ offset = PaddedSize
             /\ phase' = IF leaves = << >> THEN "error" ELSE "create_submission"
             /\ offset' = 0
             /\ UNCHANGED leaves
    <3>1. 0 \in 0 .. p /\ 0 * CHUNK = 0
      BY <1>1, <1>2
    <3>2. phase' \in {"create_submission", "error"} /\ phase' # "merkle_tree"
      BY <2>4
    <3>3. QED
      BY <1>1, <1>3, <2>1, <2>2, <2>4, <3>1, <3>2 DEF FileIInv
  <2>5. QED
    BY <1>6, <2>3, <2>4 DEF MerkleTree
<1>7. CASE CreateNode
  <2>1. /\ phase = "create_submission" /\ Len(submission) < Len(SplitNodes)
        /\ size' = size /\ phase' = phase /\ leaves' = leaves
    BY <1>7 DEF CreateNode
  <2>2. p = PaddedChunks(NumChunks)' /\ SplitNodes' = SplitNodes
    BY <1>1, <2>1, SameSize
  <2>3. Chunks \in 1 .. p
    <3>1. Len(submission) + 1 \in 1 .. Len(SplitNodes)
      BY <1>1, <2>1
    <3>2. SplitNodes[Len(submission) + 1] \in 1 .. p
      BY <1>1, <3>1, ElementOfSeq
    <3>3. QED
      BY <3>2 DEF Chunks
  <2>4. PICK b \in Nat \ {0} : b = Batch
    <3>1. Min({Chunks, SEGMENT}) = IF Chunks <= SEGMENT THEN Chunks ELSE SEGMENT
      BY <1>2, <2>3, MinOfTwo
    <3>2. QED
      BY <1>2, <2>3, <3>1 DEF Batch
  <2>5. PICK roots : roots = Append(inner, RootHash(Read(offset, Batch * CHUNK)))
    OBVIOUS
  <2>6. /\ offset' = offset + Len(Read(offset, b * CHUNK)) * CHUNK
        /\ \/ Len(roots) * b < Chunks /\ inner' = roots /\ submission' = submission
           \/ /\ submission' = Append(submission,
                                      [chunks |-> Chunks, root |-> RootHash(roots)])
              /\ inner' = << >>
    BY <1>7, <2>4, <2>5 DEF CreateNode
  <2>7. PICK j \in 0 .. p : offset' = j * CHUNK
    <3>1. PICK j \in 0 .. p :
              /\ k * CHUNK + Len(Read(k * CHUNK, b * CHUNK)) * CHUNK = j * CHUNK
              /\ k <= j /\ (k # p => k < j)
      BY <1>1, ReadMoves
    <3>2. offset' = j * CHUNK
      BY <1>4, <2>6, <3>1, Zenon
    <3>3. QED
      BY <3>2
  <2>8. CASE Len(roots) * b < Chunks /\ inner' = roots /\ submission' = submission
    <3>1. IsSeq(roots) /\ Len(roots) = Len(inner) + 1
      BY <1>3, <2>5, SeqGrows, Zenon
    <3>2. PICK l \in Nat \ {0} : l = Len(roots)
      BY <1>1, <3>1
    <3>3. l * b >= l
      BY TimesGrows
    <3>4. l <= p
      <4>1. PICK z : z = l * b /\ z \in Nat
        OBVIOUS
      <4>2. z < Chunks /\ l <= z
        BY <2>8, <3>2, <3>3, <4>1, Zenon
      <4>3. QED
        BY <1>1, <2>3, <3>2, <4>1, <4>2
    <3>5. QED
      BY <1>1, <1>3, <2>1, <2>2, <2>7, <2>8, <3>1, <3>2, <3>4 DEF FileIInv
  <2>9. CASE /\ submission' = Append(submission,
                                     [chunks |-> Chunks, root |-> RootHash(roots)])
             /\ inner' = << >>
    <3>1. IsSeq(submission') /\ Len(submission') = Len(submission) + 1
      BY <1>3, <2>9, SeqGrows, Zenon
    <3>2. Len(submission') <= Len(SplitNodes)
      BY <1>1, <2>1, <3>1
    <3>3. IsSeq(inner') /\ Len(inner') = 0
      <4>1. << >> \in Seq(Nat) /\ Len(<< >>) = 0
        BY EmptySeq
      <4>2. IsSeq(<< >>)
        BY <4>1, SeqIs, Zenon
      <4>3. QED
        BY <2>9, <4>1, <4>2
    <3>4. QED
      BY <1>1, <1>3, <2>1, <2>2, <2>7, <3>1, <3>2, <3>3 DEF FileIInv
  <2>10. QED
    BY <2>6, <2>8, <2>9
<1>8. CASE CreateSubmission
  <2>1. /\ phase' = "ready" /\ size' = size /\ offset' = offset /\ leaves' = leaves
        /\ submission' = submission /\ inner' = inner
    BY <1>8 DEF CreateSubmission
  <2>2. p = PaddedChunks(NumChunks)' /\ SplitNodes' = SplitNodes
    BY <1>1, <2>1, SameSize
  <2>3. QED
    BY <1>1, <1>3, <1>4, <2>1, <2>2 DEF FileIInv
<1>9. QED
  BY <1>5, <1>6, <1>7, <1>8 DEF FileNext

(* The second half of the invariant: each leaf is the root of the segment  *)
(* at its place, the iterator stands where the last of them ended, and the *)
(* tree is not built before they reach the end of the padded file.         *)
SegmentRoot(k) == RootHash(Read(k * SEGMENT * CHUNK, SEGMENT * CHUNK))

LeavesIInv ==
    /\ \A j \in 1 .. Len(leaves) : leaves[j] = SegmentRoot(j - 1)
    /\ phase = "merkle_tree" =>
           \/ /\ Len(leaves) * SEGMENT <= PaddedChunks(NumChunks)
              /\ offset = Len(leaves) * SEGMENT * CHUNK
           \/ /\ Len(leaves) * SEGMENT > PaddedChunks(NumChunks)
              /\ offset = PaddedSize
    /\ phase \in {"create_submission", "ready"} =>
           /\ Len(leaves) # 0
           /\ PaddedChunks(NumChunks) <= Len(leaves) * SEGMENT

LEMMA SameRoots ==
    ASSUME size' = size, NEW k PROVE SegmentRoot(k)' = SegmentRoot(k)
<1>1. NumChunks' = NumChunks
  BY SameSize
<1>2. PaddedSize' = PaddedSize
  BY <1>1 DEF PaddedSize
<1>3. \A a, b : Read(a, b)' = Read(a, b)
  BY <1>2 DEF Read
<1>4. QED
  BY <1>3 DEF SegmentRoot

LEMMA LeavesInit == FileInit => LeavesIInv
<1> SUFFICES ASSUME FileInit PROVE LeavesIInv
  OBVIOUS
<1>1. /\ size \in Sizes /\ phase = "merkle_tree" /\ offset = 0 /\ Len(leaves) = 0
  BY EmptySeq DEF FileInit
<1>2. PICK c, n, p : Cut(c, n, p)
  BY <1>1, FileIsCut
<1>3. /\ p \in Nat /\ p = PaddedChunks(NumChunks) /\ CHUNK \in Nat /\ SEGMENT \in Nat
  BY <1>2, StorageFileAssumption DEF Cut
<1>4. Len(leaves) * SEGMENT = 0 /\ Len(leaves) * SEGMENT * CHUNK = 0
  BY <1>1, <1>3
<1>5. QED
  BY <1>1, <1>3, <1>4 DEF LeavesIInv

(* A step that reads no leaf.                                              *)
LEMMA LeavesStay ==
    ASSUME LeavesIInv, size' = size, leaves' = leaves,
           phase' = "merkle_tree" => phase = "merkle_tree" /\ offset' = offset,
           phase' \in {"create_submission", "ready"} =>
               /\ Len(leaves) # 0
               /\ PaddedChunks(NumChunks) <= Len(leaves) * SEGMENT
    PROVE  LeavesIInv'
<1>1. NumChunks' = NumChunks
  BY SameSize
<1>2. PaddedSize' = PaddedSize /\ PaddedChunks(NumChunks)' = PaddedChunks(NumChunks)
  BY <1>1 DEF PaddedSize
<1>3. ASSUME NEW j \in 1 .. Len(leaves) PROVE leaves'[j] = SegmentRoot(j - 1)'
  <2>1. PICK k : k = j - 1
    OBVIOUS
  <2>2. SegmentRoot(k)' = SegmentRoot(k)
    BY SameRoots
  <2>3. leaves[j] = SegmentRoot(j - 1)
    BY DEF LeavesIInv
  <2>4. QED
    BY <2>1, <2>2, <2>3
<1>4. QED
  BY <1>2, <1>3 DEF LeavesIInv

LEMMA LeavesStep == FileIInv /\ LeavesIInv /\ [FileNext]_fileVars => LeavesIInv'
<1> SUFFICES ASSUME FileIInv, LeavesIInv, [FileNext]_fileVars PROVE LeavesIInv'
  OBVIOUS
<1>1. PICK c, n, p : /\ Cut(c, n, p) /\ p \in Nat /\ p = PaddedChunks(NumChunks)
                     /\ PaddedSize = p * CHUNK /\ Len(leaves) \in Nat
  BY FileIInvGives
<1>2. CHUNK \in Nat \ {0} /\ SEGMENT \in Nat \ {0} /\ IsSeq(leaves)
  BY StorageFileAssumption DEF FileIInv
<1>3. PICK l, a : l = Len(leaves) /\ l \in Nat /\ a = l * SEGMENT /\ a \in Nat
  BY <1>1, <1>2
<1>4. CASE UNCHANGED fileVars
  <2>1. size' = size /\ phase' = phase /\ offset' = offset /\ leaves' = leaves
    BY <1>4 DEF fileVars
  <2>2. phase \in {"create_submission", "ready"} =>
            Len(leaves) # 0 /\ PaddedChunks(NumChunks) <= Len(leaves) * SEGMENT
    BY DEF LeavesIInv
  <2>3. QED
    BY <2>1, <2>2, LeavesStay
<1>5. CASE CreateNode \/ CreateSubmission
  <2>1. /\ size' = size /\ leaves' = leaves /\ phase = "create_submission"
        /\ phase' \in {"create_submission", "ready"}
    BY <1>5 DEF CreateNode, CreateSubmission
  <2>2. Len(leaves) # 0 /\ PaddedChunks(NumChunks) <= Len(leaves) * SEGMENT
    BY <2>1 DEF LeavesIInv
  <2>3. phase' # "merkle_tree"
    BY <2>1
  <2>4. QED
    BY <2>1, <2>2, <2>3, LeavesStay
<1>6. CASE MerkleTree
  <2>1. phase = "merkle_tree" /\ size' = size
    BY <1>6 DEF MerkleTree
  <2>2. \/ a <= p /\ offset = a * CHUNK
        \/ a > p /\ offset = p * CHUNK
    BY <1>1, <1>3, <2>1 DEF LeavesIInv
  <2>3. CASE /\ offset < PaddedSize
             /\ leaves' = Append(leaves, RootHash(Read(offset, SEGMENT * CHUNK)))
             /\ offset' = offset + Len(Read(offset, SEGMENT * CHUNK)) * CHUNK
             /\ UNCHANGED phase
    <3>1. a < p /\ offset = a * CHUNK
      <4>1. PICK x, y : x = a * CHUNK /\ y = p * CHUNK /\ x \in Int /\ y \in Int
        BY <1>1, <1>2, <1>3
      <4>2. offset < y
        BY <1>1, <2>3, <4>1, Zenon
      <4>3. offset = x /\ x < y
        BY <2>2, <4>1, <4>2
      <4>4. a < p
        BY <1>1, <1>2, <1>3, <4>1, <4>3, TimesOrders
      <4>5. QED
        BY <4>1, <4>3, <4>4
    <3>2. PICK read : /\ read = Read(a * CHUNK, SEGMENT * CHUNK)
                      /\ Len(read) = Batched(a, SEGMENT, p)
      <4>1. a \in 0 .. p
        BY <1>1, <1>3, <3>1
      <4>2. Read(a * CHUNK, SEGMENT * CHUNK)
                = [j \in 1 .. Batched(a, SEGMENT, p) |-> IF a + j <= c THEN <<a + j>> ELSE <<0>>]
        BY <1>1, <1>2, <4>1, ReadIs
      <4>3. PICK b : b = Batched(a, SEGMENT, p) /\ b \in Nat
        BY <1>1, <1>2, <1>3, <3>1 DEF Batched
      <4>4. Len([j \in 1 .. b |-> IF a + j <= c THEN <<a + j>> ELSE <<0>>]) = b
        BY <4>3
      <4>5. QED
        BY <4>2, <4>3, <4>4, Zenon
    <3>3. /\ leaves' = Append(leaves, RootHash(read))
          /\ offset' = a * CHUNK + Len(read) * CHUNK
      BY <2>3, <3>1, <3>2, Zenon
    <3>4. /\ Len(leaves') = l + 1 /\ leaves'[l + 1] = RootHash(read)
          /\ \A j \in 1 .. l : leaves'[j] = leaves[j]
      BY <1>2, <1>3, <3>3, SeqExtends DEF Extends
    <3>5. RootHash(read) = SegmentRoot(l)
      BY <1>3, <3>2 DEF SegmentRoot
    <3>6. ASSUME NEW j \in 1 .. Len(leaves') PROVE leaves'[j] = SegmentRoot(j - 1)'
      <4>1. PICK k : k = j - 1
        OBVIOUS
      <4>2. SegmentRoot(k)' = SegmentRoot(k)
        BY <2>1, SameRoots
      <4>3. CASE j = l + 1
        <5>1. k = l
          BY <1>3, <4>1, <4>3
        <5>2. QED
          BY <3>4, <3>5, <4>1, <4>2, <4>3, <5>1
      <4>4. CASE j # l + 1
        <5>1. j \in 1 .. l
          BY <1>3, <3>4, <4>4
        <5>2. leaves[j] = SegmentRoot(j - 1)
          BY <1>3, <5>1 DEF LeavesIInv
        <5>3. QED
          BY <3>4, <4>1, <4>2, <5>1, <5>2
      <4>5. QED
        BY <4>3, <4>4
    <3>7. (l + 1) * SEGMENT = a + SEGMENT
      BY <1>2, <1>3
    <3>8. PICK b : b = Batched(a, SEGMENT, p) /\ b \in Nat
      BY <1>1, <1>2, <1>3, <3>1 DEF Batched
    <3>9. a * CHUNK + b * CHUNK = (a + b) * CHUNK
      <4>1. CHUNK * (a + b) = CHUNK * a + CHUNK * b
        BY <1>2, <1>3, <3>8, Distributes
      <4>2. /\ CHUNK * (a + b) = (a + b) * CHUNK /\ CHUNK * a = a * CHUNK
            /\ CHUNK * b = b * CHUNK
        BY <1>2, <1>3, <3>8
      <4>3. QED
        BY <4>1, <4>2
    <3>10. offset' = (a + b) * CHUNK
      BY <3>2, <3>3, <3>8, <3>9
    <3>11. \/ a + SEGMENT <= p /\ a + b = a + SEGMENT
           \/ a + SEGMENT > p /\ a + b = p
      <4>1. IF a + SEGMENT <= p THEN a + Batched(a, SEGMENT, p) = a + SEGMENT
                                ELSE a + Batched(a, SEGMENT, p) = p
        BY <1>1, <1>2, <1>3, BatchEnds
      <4>2. PICK y : y = a + SEGMENT /\ y \in Nat
        BY <1>2, <1>3
      <4>3. IF y <= p THEN a + b = y ELSE a + b = p
        BY <3>8, <4>1, <4>2
      <4>4. y <= p \/ y > p
        BY <1>1, <4>2
      <4>5. QED
        BY <1>1, <4>2, <4>3, <4>4
    <3>12. PaddedChunks(NumChunks)' = p /\ PaddedSize' = p * CHUNK
      BY <1>1, <2>1, SameSize DEF PaddedSize
    <3>13. \/ /\ Len(leaves') * SEGMENT <= PaddedChunks(NumChunks)'
              /\ offset' = Len(leaves') * SEGMENT * CHUNK
           \/ /\ Len(leaves') * SEGMENT > PaddedChunks(NumChunks)'
              /\ offset' = PaddedSize'
      <4>1. PICK x : x = a + b /\ offset' = x * CHUNK
        BY <3>10
      <4>2. PICK y : y = a + SEGMENT /\ y = Len(leaves') * SEGMENT
        BY <3>4, <3>7
      <4>3. \/ y <= p /\ x = y
            \/ y > p /\ x = p
        BY <3>11, <4>1, <4>2
      <4>4. QED
        BY <3>12, <4>1, <4>2, <4>3
    <3>14. phase' = "merkle_tree"
      BY <2>1, <2>3
    <3>15. QED
      BY <3>6, <3>13, <3>14 DEF LeavesIInv
  <2>4. CASE /\ offset = PaddedSize
             /\ phase' = IF leaves = << >> THEN "error" ELSE "create_submission"
             /\ offset' = 0
             /\ UNCHANGED leaves
    <3>1. p <= a
      <4>1. a <= p /\ offset = a * CHUNK => a = p
        <5>1. PICK x, y : x = a * CHUNK /\ y = p * CHUNK /\ x \in Int /\ y \in Int
          BY <1>1, <1>2, <1>3
        <5>2. a < p => x < y
          BY <1>1, <1>2, <1>3, <5>1, TimesOrders
        <5>3. QED
          BY <1>1, <1>3, <2>4, <5>1, <5>2
      <4>2. QED
        BY <1>1, <1>3, <2>2, <4>1
    <3>2. leaves # << >> => Len(leaves) # 0
      <4>1. PICK R : leaves \in Seq(R)
        BY <1>2 DEF IsSeq
      <4>2. QED
        BY <4>1
    <3>3. phase' # "merkle_tree" /\ phase' # "ready"
          /\ (phase' = "create_submission" => leaves # << >>)
      BY <2>4
    <3>4. phase' \in {"create_submission", "ready"} =>
              /\ Len(leaves) # 0 /\ PaddedChunks(NumChunks) <= Len(leaves) * SEGMENT
      BY <1>1, <1>3, <3>1, <3>2, <3>3
    <3>5. QED
      BY <2>1, <2>4, <3>3, <3>4, LeavesStay
  <2>5. QED
    BY <1>6, <2>3, <2>4 DEF MerkleTree
<1>7. QED
  BY <1>4, <1>5, <1>6 DEF FileNext

(* In a file that is ready, every leaf's proof fits its place.             *)
LEMMA ProofsLocate ==
    ASSUME FileIInv, LeavesIInv PROVE ProofsLocateSegments
<1> SUFFICES ASSUME Ready PROVE ProofsLocateSegments
  BY DEF ProofsLocateSegments
<1>1. PICK c, n, p : /\ Cut(c, n, p) /\ p \in Nat /\ p = PaddedChunks(NumChunks)
                     /\ Len(leaves) \in Nat
  BY FileIInvGives
<1>2. /\ c \in Nat /\ n \in Nat /\ n = NumSegments /\ c = NumChunks /\ c <= p
      /\ (n # 0 => (n - 1) * SEGMENT < c) /\ SEGMENT \in Nat \ {0} /\ size \in Sizes
  BY <1>1, StorageFileAssumption DEF Cut, FileIInv
<1>3. PICK m : m = Len(leaves) /\ m \in Nat \ {0} /\ p <= m * SEGMENT /\ m <= p
  <2>1. phase = "ready"
    BY DEF Ready
  <2>2. Len(leaves) # 0 /\ PaddedChunks(NumChunks) <= Len(leaves) * SEGMENT
    BY <2>1 DEF LeavesIInv
  <2>3. Len(leaves) <= PaddedChunks(NumChunks)
    BY DEF FileIInv
  <2>4. QED
    BY <1>1, <2>2, <2>3
<1>4. m <= Two[30]
  <2>1. c <= 2 ^ 30
    BY <1>2, StorageFileAssumption DEF NumChunks
  <2>2. p <= 2 ^ 30
    BY <1>1, <1>2, <2>1, PaddedUpTo
  <2>3. Two[30] = 2 ^ 30 /\ Two[30] \in Nat
    BY TwoIs DEF Two
  <2>4. QED
    BY <1>1, <1>3, <2>2, <2>3
<1>5. IsSeq(leaves)
  BY DEF FileIInv
<1>6. ASSUME NEW k \in 0 .. NumSegments - 1, NEW index \in 0 .. Len(leaves) - 1
      PROVE  Validate(GetSegment(k).proof, RootHash(leaves), SegmentRoot(k), index, Len(leaves))
                 = IF index = k THEN "valid" ELSE "position mismatch"
  <2>1. k \in Nat /\ n # 0 /\ k <= n - 1
    BY <1>2, <1>6
  <2>2. k < m
    <3>1. PICK x, y, z : /\ x = k * SEGMENT /\ y = (n - 1) * SEGMENT /\ z = m * SEGMENT
                         /\ x \in Int /\ y \in Int /\ z \in Int
      BY <1>2, <1>3, <2>1
    <3>2. x <= y
      <4>1. n - 1 \in Int /\ (k = n - 1 \/ k < n - 1)
        BY <1>2, <2>1
      <4>2. k < n - 1 => x < y
        BY <1>2, <2>1, <3>1, <4>1, TimesOrders
      <4>3. QED
        BY <3>1, <4>1, <4>2
    <3>3. x < z
      BY <1>1, <1>2, <1>3, <2>1, <3>1, <3>2
    <3>4. QED
      BY <1>2, <1>3, <2>1, <3>1, <3>3, TimesOrders
  <2>3. PICK i \in 1 .. m : i = k + 1 /\ i - 1 = k
    <3>1. k + 1 \in 1 .. m /\ (k + 1) - 1 = k
      BY <1>3, <2>1, <2>2
    <3>2. QED
      BY <3>1
  <2>4. Fits(ProofAt(leaves, i), RootHash(leaves), leaves[i], i - 1, m)
    BY <1>3, <1>4, <1>5, ProofFits
  <2>5. leaves[i] = SegmentRoot(k)
    BY <1>3, <2>3 DEF LeavesIInv
  <2>6. GetSegment(k).proof = ProofAt(leaves, i)
    BY <2>3 DEF GetSegment
  <2>7. Fits(GetSegment(k).proof, RootHash(leaves), SegmentRoot(k), k, Len(leaves))
    BY <1>3, <2>3, <2>4, <2>5, <2>6
  <2>8. Validate(GetSegment(k).proof, RootHash(leaves), SegmentRoot(k), index, Len(leaves))
            = Verdict(index, k)
    <3>1. PICK proof, root, hash, total :
              /\ proof = GetSegment(k).proof /\ root = RootHash(leaves)
              /\ hash = SegmentRoot(k) /\ total = Len(leaves)
      OBVIOUS
    <3>2. Fits(proof, root, hash, k, total)
      BY <2>7, <3>1
    <3>3. Validate(proof, root, hash, index, total) = Verdict(index, k)
      BY <3>2, FitsIsJudged
    <3>4. QED
      BY <3>1, <3>3
  <2>9. QED
    BY <2>8, Zenon DEF Verdict
<1>7. QED
  BY <1>6 DEF ProofsLocateSegments, SegmentRoot

(* A file's padded chunks are few enough for the powers of two.            *)
LEMMA PaddedBound ==
    ASSUME size \in Sizes, NEW c, NEW n, NEW p, Cut(c, n, p) PROVE p <= Two[30]
<1>1. c \in Nat /\ p \in Nat /\ c = NumChunks /\ p = PaddedChunks(NumChunks)
  BY DEF Cut
<1>2. c <= 2 ^ 30
  BY <1>1, StorageFileAssumption DEF NumChunks
<1>3. p <= 2 ^ 30
  BY <1>1, <1>2, PaddedUpTo
<1>4. Two[30] = 2 ^ 30 /\ Two[30] \in Nat
  BY TwoIs DEF Two
<1>5. QED
  BY <1>1, <1>3, <1>4

(* The last part of the invariant: no leaf is made of nothing, and the     *)
(* nodes that are made, one or in the making a segment at a time, have the *)
(* roots over the chunks at their place in the file, from o on.            *)
LeavesNeeded ==
    Len(leaves) # 0 => (Len(leaves) - 1) * SEGMENT < PaddedChunks(NumChunks)

NodesMade(o) ==
    /\ \A j \in 1 .. Len(submission) : submission[j].root = Tree(Hashes, o[j], SplitNodes[j])
    /\ phase = "ready" => Len(submission) = Len(SplitNodes)
    /\ phase = "merkle_tree" => Len(submission) = 0 /\ Len(inner) = 0

NodeInMaking(o) ==
    phase = "create_submission" /\ Len(submission) # Len(SplitNodes) =>
        /\ offset = (o[Len(submission) + 1] + Len(inner) * Batch) * CHUNK
        /\ Len(inner) * Batch < Chunks
        /\ \A i \in 1 .. Len(inner) :
               inner[i] = Tree(Hashes, o[Len(submission) + 1] + (i - 1) * Batch, Batch)

NodesFrom(o) ==
    /\ Starting(o, SplitNodes, PaddedChunks(NumChunks), PaddedChunks(NumChunks))
    /\ NodesMade(o) /\ NodeInMaking(o)

NodesIInv == LeavesNeeded /\ \E o : NodesFrom(o)

(* The trees over the chunks do not change.                                *)
LEMMA SameTrees ==
    ASSUME size' = size
    PROVE  /\ \A a, n : Tree(Hashes, a, n)' = Tree(Hashes, a, n)
           /\ NumChunks' = NumChunks /\ SplitNodes' = SplitNodes
<1>1. NumChunks' = NumChunks /\ SplitNodes' = SplitNodes
  BY SameSize
<1>2. Hashes' = Hashes
  BY <1>1 DEF Hashes
<1>3. QED
  BY <1>1, <1>2 DEF Tree, Cutout

(* A step that makes no leaf.                                              *)
LEMMA LeavesNeededStay ==
    ASSUME LeavesNeeded, size' = size, leaves' = leaves PROVE LeavesNeeded'
<1>1. NumChunks' = NumChunks
  BY SameSize
<1>2. QED
  BY <1>1 DEF LeavesNeeded

LEMMA LeavesNeededStep ==
    FileIInv /\ LeavesIInv /\ LeavesNeeded /\ [FileNext]_fileVars => LeavesNeeded'
<1> SUFFICES ASSUME FileIInv, LeavesIInv, LeavesNeeded, [FileNext]_fileVars
             PROVE  LeavesNeeded'
  OBVIOUS
<1>1. PICK c, n, p : /\ Cut(c, n, p) /\ p \in Nat /\ p = PaddedChunks(NumChunks)
                     /\ PaddedSize = p * CHUNK /\ Len(leaves) \in Nat
  BY FileIInvGives
<1>2. CHUNK \in Nat \ {0} /\ SEGMENT \in Nat \ {0} /\ IsSeq(leaves)
  BY StorageFileAssumption DEF FileIInv
<1>3. PICK l, a : l = Len(leaves) /\ l \in Nat /\ a = l * SEGMENT /\ a \in Nat
  BY <1>1, <1>2
<1>4. CASE leaves' = leaves /\ size' = size
  BY <1>4, LeavesNeededStay
<1>5. CASE /\ phase = "merkle_tree" /\ size' = size /\ offset < PaddedSize
           /\ leaves' = Append(leaves, RootHash(Read(offset, SEGMENT * CHUNK)))
  <2>1. \/ a <= p /\ offset = a * CHUNK
        \/ a > p /\ offset = p * CHUNK
    BY <1>1, <1>3, <1>5 DEF LeavesIInv
  <2>2. a < p
    <3>1. PICK x, y : x = a * CHUNK /\ y = p * CHUNK /\ x \in Int /\ y \in Int
      BY <1>1, <1>2, <1>3
    <3>2. offset < y
      BY <1>1, <1>5, <3>1, Zenon
    <3>3. offset = x /\ x < y
      BY <2>1, <3>1, <3>2
    <3>4. QED
      BY <1>1, <1>2, <1>3, <3>1, <3>3, TimesOrders
  <2>3. Len(leaves') = l + 1
    BY <1>2, <1>3, <1>5, SeqGrows, Zenon
  <2>4. (Len(leaves') - 1) * SEGMENT = a
    <3>1. Len(leaves') - 1 = l
      BY <1>3, <2>3
    <3>2. QED
      BY <1>3, <3>1
  <2>5. NumChunks' = NumChunks
    BY <1>5, SameSize
  <2>6. QED
    BY <1>1, <2>2, <2>4, <2>5 DEF LeavesNeeded
<1>6. CASE UNCHANGED fileVars \/ CreateNode \/ CreateSubmission
  BY <1>4, <1>6 DEF fileVars, CreateNode, CreateSubmission
<1>7. CASE MerkleTree
  BY <1>4, <1>5, <1>7 DEF MerkleTree
<1>8. QED
  BY <1>6, <1>7 DEF FileNext

LEMMA NodesInit == FileInit => NodesIInv
<1> SUFFICES ASSUME FileInit PROVE NodesIInv
  OBVIOUS
<1>1. /\ size \in Sizes /\ phase = "merkle_tree" /\ Len(leaves) = 0
      /\ Len(submission) = 0 /\ Len(inner) = 0
  BY EmptySeq DEF FileInit
<1>2. PICK c, n, p : Cut(c, n, p)
  BY <1>1, FileIsCut
<1>3. p = PaddedChunks(NumChunks) /\ p <= Two[30]
  BY <1>1, <1>2, PaddedBound DEF Cut
<1>4. StartsExist(SplitNodes, p, p)
  BY <1>2, <1>3, NodesStart
<1>5. PICK o : Starting(o, SplitNodes, p, p)
  BY <1>4 DEF StartsExist
<1>6. NodesMade(o)
  BY <1>1 DEF NodesMade
<1>7. NodeInMaking(o)
  BY <1>1 DEF NodeInMaking
<1>8. LeavesNeeded
  BY <1>1 DEF LeavesNeeded
<1>9. NodesFrom(o)
  BY <1>3, <1>5, <1>6, <1>7 DEF NodesFrom
<1>10. QED
  BY <1>8, <1>9 DEF NodesIInv

(* A step that makes no node.                                              *)
NoNodeMade ==
    /\ size' = size /\ submission' = submission /\ inner' = inner
    /\ \/ phase' = phase /\ offset' = offset
       \/ phase' = "error"
       \/ phase' = "ready" /\ Len(submission) = Len(SplitNodes)

LEMMA NodesStay ==
    ASSUME NEW o, NodesFrom(o), NoNodeMade PROVE  NodesFrom(o)'
<1>0. /\ size' = size /\ submission' = submission /\ inner' = inner
      /\ \/ phase' = phase /\ offset' = offset
         \/ phase' = "error"
         \/ phase' = "ready" /\ Len(submission) = Len(SplitNodes)
  BY DEF NoNodeMade
<1>1. /\ \A a, n : Tree(Hashes, a, n)' = Tree(Hashes, a, n)
      /\ NumChunks' = NumChunks /\ SplitNodes' = SplitNodes
  BY <1>0, SameTrees
<1>2. Starting(o, SplitNodes, PaddedChunks(NumChunks), PaddedChunks(NumChunks))'
  BY <1>1 DEF NodesFrom, Starting
<1>3. Chunks' = Chunks /\ Batch' = Batch
  <2>1. Chunks' = Chunks
    BY <1>0, <1>1 DEF Chunks
  <2>2. QED
    BY <2>1 DEF Batch
<1>4. phase' = "ready" => Len(submission) = Len(SplitNodes)
  BY <1>0 DEF NodesFrom, NodesMade
<1>5. phase' = "merkle_tree" => Len(submission) = 0 /\ Len(inner) = 0
  BY <1>0 DEF NodesFrom, NodesMade
<1>6. NodesMade(o)'
  <2>1. ASSUME NEW j \in 1 .. Len(submission)
        PROVE  submission[j].root = Tree(Hashes, o[j], SplitNodes[j])'
    <3>1. submission[j].root = Tree(Hashes, o[j], SplitNodes[j])
      BY DEF NodesFrom, NodesMade
    <3>2. PICK a, m : a = o[j] /\ m = SplitNodes[j]
      OBVIOUS
    <3>3. Tree(Hashes, a, m)' = Tree(Hashes, a, m)
      BY <1>1
    <3>4. QED
      BY <1>1, <3>1, <3>2, <3>3
  <2>2. QED
    BY <1>0, <1>1, <1>4, <1>5, <2>1 DEF NodesMade
<1>7. NodeInMaking(o)'
  <2>1. SUFFICES ASSUME (phase = "create_submission" /\ Len(submission) # Len(SplitNodes))'
                 PROVE  (/\ offset = (o[Len(submission) + 1] + Len(inner) * Batch) * CHUNK
                         /\ Len(inner) * Batch < Chunks
                         /\ \A i \in 1 .. Len(inner) :
                               inner[i] = Tree(Hashes, o[Len(submission) + 1]
                                                            + (i - 1) * Batch, Batch))'
    BY DEF NodeInMaking
  <2>2. phase = "create_submission" /\ Len(submission) # Len(SplitNodes) /\ offset' = offset
    BY <1>0, <1>1, <2>1
  <2>3. /\ offset = (o[Len(submission) + 1] + Len(inner) * Batch) * CHUNK
        /\ Len(inner) * Batch < Chunks
        /\ \A i \in 1 .. Len(inner) :
               inner[i] = Tree(Hashes, o[Len(submission) + 1] + (i - 1) * Batch, Batch)
    BY <2>2 DEF NodesFrom, NodeInMaking
  <2>4. ASSUME NEW i \in 1 .. Len(inner)
        PROVE  inner[i] = Tree(Hashes, o[Len(submission) + 1] + (i - 1) * Batch, Batch)'
    <3>1. inner[i] = Tree(Hashes, o[Len(submission) + 1] + (i - 1) * Batch, Batch)
      BY <2>3
    <3>2. PICK a, m : a = o[Len(submission) + 1] + (i - 1) * Batch /\ m = Batch
      OBVIOUS
    <3>3. Tree(Hashes, a, m)' = Tree(Hashes, a, m)
      BY <1>1
    <3>4. QED
      BY <1>0, <1>3, <3>1, <3>2, <3>3
  <2>5. QED
    BY <1>0, <1>3, <2>2, <2>3, <2>4
<1>8. QED
  BY <1>2, <1>6, <1>7 DEF NodesFrom

(* The tree over the leaves is built: the first node starts at chunk 0.    *)
LEMMA NodesBegin ==
    ASSUME NEW c, NEW n, NEW p, Cut(c, n, p), NEW o, NodesFrom(o),
           phase = "merkle_tree", phase' = "create_submission", offset' = 0,
           size' = size, submission' = submission, inner' = inner
    PROVE  NodesFrom(o)'
<1>1. /\ \A a, m : Tree(Hashes, a, m)' = Tree(Hashes, a, m)
      /\ NumChunks' = NumChunks /\ SplitNodes' = SplitNodes
  BY SameTrees
<1>2. Starting(o, SplitNodes, PaddedChunks(NumChunks), PaddedChunks(NumChunks))'
  BY <1>1 DEF NodesFrom, Starting
<1>3. Len(submission) = 0 /\ Len(inner) = 0
  BY DEF NodesFrom, NodesMade
<1>4. NodesMade(o)'
  BY <1>3 DEF NodesMade
<1>5. ASSUME Len(SplitNodes) # 0
      PROVE  /\ 0 = (o[Len(submission) + 1] + Len(inner) * Batch) * CHUNK
             /\ Len(inner) * Batch < Chunks
  <2>1. o[1] = 0
    BY DEF NodesFrom, Starting
  <2>2. SplitNodes \in Seq(1 .. p) /\ CHUNK \in Nat \ {0} /\ SEGMENT \in Nat \ {0}
    BY NodesFit, StorageFileAssumption
  <2>3. p \in Nat
    BY DEF Cut
  <2>4. Len(SplitNodes) \in Nat /\ 0 + 1 \in 1 .. Len(SplitNodes) /\ 0 + 1 = 1
    <3>1. Len(SplitNodes) \in Nat
      BY <2>2, LenProperties
    <3>2. QED
      BY <1>5, <3>1
  <2>5. SplitNodes[1] \in 1 .. p
    BY <2>2, <2>4, ElementOfSeq
  <2>6. Chunks \in Nat \ {0}
    BY <1>3, <2>3, <2>4, <2>5 DEF Chunks
  <2>7. Batch \in Nat
    <3>1. Min({Chunks, SEGMENT}) = IF Chunks <= SEGMENT THEN Chunks ELSE SEGMENT
      BY <2>2, <2>6, MinOfTwo
    <3>2. QED
      BY <2>2, <2>6, <3>1 DEF Batch
  <2>8. Len(inner) * Batch = 0
    BY <1>3, <2>7
  <2>9. o[Len(submission) + 1] = 0
    BY <1>3, <2>1, <2>4
  <2>10. (o[Len(submission) + 1] + Len(inner) * Batch) * CHUNK = 0
    BY <2>2, <2>8, <2>9
  <2>11. QED
    BY <2>6, <2>8, <2>10
<1>6. Chunks' = Chunks /\ Batch' = Batch
  <2>1. Chunks' = Chunks
    BY <1>1 DEF Chunks
  <2>2. QED
    BY <2>1 DEF Batch
<1>7. NodeInMaking(o)'
  BY <1>1, <1>3, <1>5, <1>6 DEF NodeInMaking
<1>8. QED
  BY <1>2, <1>4, <1>7 DEF NodesFrom

(* The node that is made next is d batches of w chunks, from chunk x on;   *)
(* l of them have been read.                                               *)
Making(o, p, x, d, w, s, l) ==
    /\ s \in 0 .. 30 /\ w = Two[s] /\ w \in Nat \ {0} /\ d \in Nat \ {0}
    /\ Batch = w /\ Chunks = d * w /\ d * w <= p - x
    /\ x \in 0 .. p /\ o[Len(submission) + 1] = x /\ o[Len(submission) + 2] = x + d * w
    /\ l \in Nat /\ l = Len(inner) /\ l < d
    /\ offset = (x + l * w) * CHUNK
    /\ \A i \in 1 .. l : inner[i] = Tree(Hashes, x + (i - 1) * w, w)

LEMMA MakingIs ==
    ASSUME FileIInv, NEW c, NEW n, NEW p, Cut(c, n, p), NEW o, NodesFrom(o),
           phase = "create_submission", Len(submission) < Len(SplitNodes)
    PROVE  \E x, d, w, s, l : Making(o, p, x, d, w, s, l)
<1>1. p \in Nat /\ p = PaddedChunks(NumChunks)
  BY DEF Cut
<1>2. SplitNodes \in Seq(1 .. p) /\ Len(SplitNodes) \in Nat
  BY NodesFit, LenProperties
<1>3. Len(submission) \in Nat /\ Len(inner) \in Nat
  BY SeqGrows DEF FileIInv
<1>4. PICK j : /\ j = Len(submission) + 1 /\ j \in 1 .. Len(SplitNodes)
               /\ j + 1 = Len(submission) + 2
  BY <1>2, <1>3
<1>5. PICK x, z : /\ x = o[j] /\ z = SplitNodes[j] /\ x \in 0 .. p /\ z \in Powers
                  /\ o[j + 1] = x + z /\ z <= p - x
  <2>1. /\ o[j] \in 0 .. p /\ SplitNodes[j] \in Powers
        /\ o[j + 1] = o[j] + SplitNodes[j] /\ SplitNodes[j] <= p - o[j]
    BY <1>1, <1>4 DEF NodesFrom, Starting
  <2>2. QED
    BY <2>1
<1>6. PICK s \in 0 .. 30, d \in Nat \ {0} : Min({z, SEGMENT}) = Two[s] /\ z = d * Two[s]
  BY <1>5, BatchDivides
<1>7. PICK w : w = Two[s] /\ w \in Nat \ {0}
  BY <1>6, TwoIs
<1>8. Chunks = z /\ Batch = w /\ z = d * w
  <2>1. Chunks = z
    BY <1>4, <1>5 DEF Chunks
  <2>2. QED
    BY <1>6, <1>7, <2>1 DEF Batch
<1>9. PICK l : l = Len(inner) /\ l \in Nat
  BY <1>3
<1>10. /\ offset = (x + l * w) * CHUNK /\ l * w < d * w
       /\ \A i \in 1 .. l : inner[i] = Tree(Hashes, x + (i - 1) * w, w)
  <2>1. Len(submission) # Len(SplitNodes)
    BY <1>2, <1>3
  <2>2. /\ offset = (o[Len(submission) + 1] + Len(inner) * Batch) * CHUNK
        /\ Len(inner) * Batch < Chunks
        /\ \A i \in 1 .. Len(inner) :
               inner[i] = Tree(Hashes, o[Len(submission) + 1] + (i - 1) * Batch, Batch)
    BY <2>1 DEF NodesFrom, NodeInMaking
  <2>3. o[Len(submission) + 1] = x
    BY <1>4, <1>5
  <2>4. QED
    BY <1>8, <1>9, <2>2, <2>3
<1>11. l < d
  BY <1>6, <1>7, <1>9, <1>10, TimesOrders
<1>12. o[Len(submission) + 1] = x /\ o[Len(submission) + 2] = x + d * w
  BY <1>4, <1>5, <1>8
<1>13. d * w <= p - x
  BY <1>5, <1>8
<1>14. Chunks = d * w
  BY <1>8
<1>15. Making(o, p, x, d, w, s, l)
  BY <1>5, <1>6, <1>7, <1>8, <1>9, <1>10, <1>11, <1>12, <1>13, <1>14 DEF Making
<1>16. QED
  BY <1>15

(* What a read of the node's next batch gives.                             *)
NextBatch(p, x, w, l, roots) ==
    /\ IsSeq(roots) /\ Len(roots) = l + 1
    /\ \A i \in 1 .. l + 1 : roots[i] = Tree(Hashes, x + (i - 1) * w, w)
    /\ offset' = (x + (l + 1) * w) * CHUNK

LEMMA BatchIsRead ==
    ASSUME FileIInv, NEW c, NEW n, NEW p, Cut(c, n, p), NEW o, NEW x, NEW d, NEW w, NEW s,
           NEW l, Making(o, p, x, d, w, s, l), CreateNode
    PROVE  NextBatch(p, x, w, l, Append(inner, RootHash(Read(offset, Batch * CHUNK))))
<1>1. p \in Nat /\ CHUNK \in Nat \ {0} /\ IsSeq(inner)
  BY StorageFileAssumption DEF Cut, FileIInv
<1>2. /\ w \in Nat \ {0} /\ d \in Nat \ {0} /\ Batch = w /\ x \in 0 .. p
      /\ l \in Nat /\ l = Len(inner) /\ l < d /\ offset = (x + l * w) * CHUNK
      /\ d * w <= p - x
      /\ \A i \in 1 .. l : inner[i] = Tree(Hashes, x + (i - 1) * w, w)
  BY DEF Making
<1>3. PICK y, e : y = l * w /\ y \in Nat /\ e = (l + 1) * w /\ e \in Nat /\ e = y + w
  <2>1. PICK y : y = l * w /\ y \in Nat
    BY <1>2
  <2>2. (l + 1) * w = y + w
    BY <1>2, <2>1
  <2>3. QED
    BY <1>2, <2>1, <2>2
<1>4. e <= p - x
  <2>1. PICK z : z = d * w /\ z \in Nat /\ z <= p - x
    BY <1>2
  <2>2. l + 1 = d \/ l + 1 < d
    BY <1>2
  <2>3. l + 1 < d => e < z
    BY <1>2, <1>3, <2>1, TimesOrders
  <2>4. e <= z
    BY <1>3, <2>1, <2>2, <2>3
  <2>5. p - x \in Int
    BY <1>1, <1>2
  <2>6. QED
    BY <1>3, <2>1, <2>4, <2>5
<1>5. PICK a : a = x + y /\ a \in 0 .. p /\ w <= p - a
  <2>1. x + y \in 0 .. p /\ w <= p - (x + y)
    BY <1>1, <1>2, <1>3, <1>4
  <2>2. QED
    BY <2>1
<1>6. w = Batched(a, w, p)
  BY <1>5 DEF Batched
<1>7. offset = a * CHUNK
  BY <1>2, <1>3, <1>5
<1>8. PICK read : read = Read(offset, Batch * CHUNK)
  OBVIOUS
<1>9. RootHash(read) = Tree(Hashes, a, w) /\ Len(read) = w
  <2>1. read = Read(a * CHUNK, w * CHUNK)
    BY <1>2, <1>7, <1>8
  <2>2. /\ RootHash(Read(a * CHUNK, w * CHUNK)) = Tree(Hashes, a, w)
        /\ Len(Read(a * CHUNK, w * CHUNK)) = w
    BY <1>2, <1>5, <1>6, ReadTree
  <2>3. QED
    BY <2>1, <2>2
<1>10. offset' = offset + Len(read) * CHUNK
  BY <1>8 DEF CreateNode
<1>11. offset' = (x + (l + 1) * w) * CHUNK
  <2>1. CHUNK * (a + w) = CHUNK * a + CHUNK * w
    BY <1>1, <1>2, <1>5, Distributes
  <2>2. CHUNK * (a + w) = (a + w) * CHUNK /\ CHUNK * a = a * CHUNK /\ CHUNK * w = w * CHUNK
    BY <1>1, <1>2, <1>5
  <2>3. a + w = x + e
    BY <1>1, <1>2, <1>3, <1>5
  <2>4. QED
    BY <1>3, <1>7, <1>9, <1>10, <2>1, <2>2, <2>3
<1>12. PICK roots : roots = Append(inner, RootHash(read))
  OBVIOUS
<1>13. /\ IsSeq(roots) /\ Len(roots) = l + 1 /\ roots[l + 1] = RootHash(read)
       /\ \A i \in 1 .. l : roots[i] = inner[i]
  <2>1. IsSeq(roots) /\ Extends(roots, inner, RootHash(read))
    BY <1>1, <1>12, SeqExtends
  <2>2. QED
    BY <1>2, <2>1 DEF Extends
<1>14. ASSUME NEW i \in 1 .. l + 1 PROVE roots[i] = Tree(Hashes, x + (i - 1) * w, w)
  <2>1. CASE i = l + 1
    <3>1. i - 1 = l
      BY <1>2, <2>1
    <3>2. QED
      BY <1>3, <1>5, <1>9, <1>13, <2>1, <3>1
  <2>2. CASE i # l + 1
    <3>1. i \in 1 .. l
      BY <1>2, <2>2
    <3>2. QED
      BY <1>2, <1>13, <3>1
  <2>3. QED
    BY <2>1, <2>2
<1>15. QED
  BY <1>8, <1>11, <1>12, <1>13, <1>14 DEF NextBatch

LEMMA NodesCreate ==
    ASSUME FileIInv, NEW c, NEW n, NEW p, Cut(c, n, p), NEW o, NodesFrom(o), CreateNode
    PROVE  NodesFrom(o)'
<1>1. /\ phase = "create_submission" /\ Len(submission) < Len(SplitNodes)
      /\ size' = size /\ phase' = phase
  BY DEF CreateNode
<1>2. PICK x, d, w, s, l : Making(o, p, x, d, w, s, l)
  BY <1>1, MakingIs
<1>3. PICK roots : roots = Append(inner, RootHash(Read(offset, Batch * CHUNK)))
  OBVIOUS
<1>4. NextBatch(p, x, w, l, roots)
  BY <1>2, <1>3, BatchIsRead
<1>5. /\ \A a, m : Tree(Hashes, a, m)' = Tree(Hashes, a, m)
      /\ NumChunks' = NumChunks /\ SplitNodes' = SplitNodes
  BY <1>1, SameTrees
<1>6. Starting(o, SplitNodes, PaddedChunks(NumChunks), PaddedChunks(NumChunks))'
  BY <1>5 DEF NodesFrom, Starting
<1>7. /\ s \in 0 .. 30 /\ w = Two[s] /\ w \in Nat \ {0} /\ d \in Nat \ {0}
      /\ Batch = w /\ Chunks = d * w /\ x \in 0 .. p /\ d * w <= p - x
      /\ o[Len(submission) + 1] = x /\ o[Len(submission) + 2] = x + d * w
      /\ l \in Nat /\ l < d
  BY <1>2 DEF Making
<1>8. /\ IsSeq(roots) /\ Len(roots) = l + 1
      /\ \A i \in 1 .. l + 1 : roots[i] = Tree(Hashes, x + (i - 1) * w, w)
      /\ offset' = (x + (l + 1) * w) * CHUNK
  BY <1>4 DEF NextBatch
<1>9. /\ p \in Nat /\ CHUNK \in Nat \ {0} /\ SEGMENT \in Nat \ {0} /\ IsSeq(submission)
      /\ Len(submission) \in Nat /\ SplitNodes \in Seq(1 .. p) /\ Len(SplitNodes) \in Nat
      /\ size \in Sizes
  <2>1. SplitNodes \in Seq(1 .. p)
    BY NodesFit
  <2>2. Len(SplitNodes) \in Nat
    BY <2>1, LenProperties
  <2>3. QED
    BY <2>1, <2>2, StorageFileAssumption, SeqGrows DEF Cut, FileIInv
<1>10. \A j \in 1 .. Len(submission) : submission[j].root = Tree(Hashes, o[j], SplitNodes[j])
  BY DEF NodesFrom, NodesMade
<1>11. CASE Len(roots) * Batch < Chunks /\ inner' = roots /\ submission' = submission
  <2>1. Chunks' = Chunks /\ Batch' = Batch
    <3>1. Chunks' = Chunks
      BY <1>5, <1>11 DEF Chunks
    <3>2. QED
      BY <3>1 DEF Batch
  <2>2. NodesMade(o)'
    <3>1. ASSUME NEW j \in 1 .. Len(submission)
          PROVE  submission[j].root = Tree(Hashes, o[j], SplitNodes[j])'
      <4>1. PICK a, m : a = o[j] /\ m = SplitNodes[j]
        OBVIOUS
      <4>2. Tree(Hashes, a, m)' = Tree(Hashes, a, m)
        BY <1>5
      <4>3. submission[j].root = Tree(Hashes, a, m)
        BY <1>10, <4>1
      <4>4. QED
        BY <1>5, <4>1, <4>2, <4>3
    <3>2. phase' # "ready" /\ phase' # "merkle_tree"
      BY <1>1
    <3>3. QED
      BY <1>5, <1>11, <3>1, <3>2 DEF NodesMade
  <2>3. (l + 1) * w < d * w
    BY <1>7, <1>8, <1>11
  <2>4. ASSUME NEW i \in 1 .. l + 1
        PROVE  roots[i] = Tree(Hashes, x + (i - 1) * w, w)'
    <3>1. PICK a : a = x + (i - 1) * w
      OBVIOUS
    <3>2. Tree(Hashes, a, w)' = Tree(Hashes, a, w)
      BY <1>5
    <3>3. roots[i] = Tree(Hashes, a, w)
      BY <1>8, <3>1
    <3>4. QED
      BY <3>1, <3>2, <3>3
  <2>5. NodeInMaking(o)'
    BY <1>7, <1>8, <1>11, <2>1, <2>3, <2>4 DEF NodeInMaking
  <2>6. QED
    BY <1>6, <2>2, <2>5 DEF NodesFrom
<1>12. CASE /\ ~(Len(roots) * Batch < Chunks) /\ inner' = << >>
            /\ submission' = Append(submission,
                                    [chunks |-> Chunks, root |-> RootHash(roots)])
  <2>1. l + 1 = d
    <3>1. ~((l + 1) * w < d * w)
      BY <1>7, <1>8, <1>12
    <3>2. ~(l + 1 < d)
      <4>1. l + 1 \in Int /\ d \in Int /\ w \in Nat \ {0}
        BY <1>7
      <4>2. QED
        BY <3>1, <4>1, TimesOrders
    <3>3. QED
      BY <1>7, <3>2
  <2>2. RootHash(roots) = Tree(Hashes, x, d * w)
    <3>1. p <= Two[30]
      BY <1>9, PaddedBound
    <3>2. PICK z : z = d * w /\ z \in Nat /\ z <= p - x
      <4>1. d \in Nat /\ w \in Nat /\ d * w <= p - x
        BY <1>7
      <4>2. d * w \in Nat
        BY <4>1, NatTimes
      <4>3. QED
        BY <4>1, <4>2
    <3>3. Two[30] \in Nat
      BY TwoIs
    <3>4. z <= Two[30]
      <4>1. p \in Nat /\ x \in 0 .. p
        BY <1>7, <1>9
      <4>2. QED
        BY <3>1, <3>2, <3>3, <4>1, StillBelow
    <3>5. PICK h : h = Hashes /\ \A i \in 1 .. d : roots[i] = Tree(h, x + (i - 1) * w, w)
      BY <1>8, <2>1
    <3>6. s \in 0 .. 30 /\ d \in Nat \ {0} /\ w = Two[s] /\ IsSeq(roots) /\ Len(roots) = d
      BY <1>7, <1>8, <2>1
    <3>7. x \in Nat
      BY <1>7
    <3>8. RootOver(roots, h, x, z)
      BY <3>2, <3>4, <3>5, <3>6, <3>7, FullBlocks
    <3>9. QED
      BY <3>2, <3>5, <3>8 DEF RootOver
  <2>3. PICK m : /\ m = Len(submission) + 1 /\ m \in 1 .. Len(SplitNodes)
                 /\ m + 1 = Len(submission) + 2
    BY <1>1, <1>9
  <2>4. PICK node : node = [chunks |-> Chunks, root |-> RootHash(roots)]
    OBVIOUS
  <2>5. /\ Len(submission') = m /\ submission'[m] = node
        /\ \A j \in 1 .. Len(submission) : submission'[j] = submission[j]
    BY <1>9, <1>12, <2>3, <2>4, SeqExtends DEF Extends
  <2>6. ASSUME NEW j \in 1 .. m
        PROVE  submission'[j].root = Tree(Hashes, o[j], SplitNodes[j])'
    <3>1. PICK a, k : a = o[j] /\ k = SplitNodes[j]
      OBVIOUS
    <3>2. Tree(Hashes, a, k)' = Tree(Hashes, a, k)
      BY <1>5
    <3>3. submission'[j].root = Tree(Hashes, a, k)
      <4>1. CASE j = m
        <5>1. a = x /\ k = d * w
          BY <1>7, <2>3, <3>1, <4>1 DEF Chunks
        <5>2. node.root = RootHash(roots)
          BY <2>4
        <5>3. QED
          BY <2>2, <2>5, <4>1, <5>1, <5>2
      <4>2. CASE j # m
        <5>1. j \in 1 .. Len(submission)
          BY <1>9, <2>3, <4>2
        <5>2. QED
          BY <1>10, <2>5, <3>1, <5>1
      <4>3. QED
        BY <4>1, <4>2
    <3>4. QED
      BY <1>5, <3>1, <3>2, <3>3
  <2>7. NodesMade(o)'
    <3>1. phase' # "ready" /\ phase' # "merkle_tree"
      BY <1>1
    <3>2. QED
      BY <1>5, <2>5, <2>6, <3>1 DEF NodesMade
  <2>8. offset' = o[m + 1] * CHUNK /\ o[m + 1] \in Int
    <3>1. o[m + 1] = x + d * w
      BY <1>7, <2>3
    <3>2. offset' = (x + d * w) * CHUNK
      BY <1>8, <2>1
    <3>3. x + d * w \in Int
      BY <1>7
    <3>4. QED
      BY <3>1, <3>2, <3>3
  <2>9. Len(inner') = 0
    BY <1>12, EmptySeq
  <2>10. ASSUME m # Len(SplitNodes)
         PROVE  /\ offset' = (o[m + 1] + Len(inner') * Batch') * CHUNK
                /\ Len(inner') * Batch' < Chunks'
    <3>1. m + 1 \in 1 .. Len(SplitNodes)
      BY <1>9, <2>3, <2>10
    <3>2. Chunks' = SplitNodes[m + 1]
      BY <1>5, <2>5 DEF Chunks
    <3>3. SplitNodes[m + 1] \in 1 .. p
      BY <1>9, <3>1, ElementOfSeq
    <3>4. Chunks' \in Nat \ {0}
      BY <1>9, <3>2, <3>3
    <3>5. Batch' \in Nat
      <4>1. \A z \in Nat : Min({z, SEGMENT}) \in Nat
        BY <1>9, MinOfTwo
      <4>2. Batch' = Min({Chunks', SEGMENT})
        BY DEF Batch
      <4>3. QED
        BY <3>4, <4>1, <4>2
    <3>6. Len(inner') * Batch' = 0
      <4>1. PICK b \in Nat : b = Batch'
        BY <3>5
      <4>2. 0 * b = 0
        OBVIOUS
      <4>3. QED
        BY <2>9, <4>1, <4>2
    <3>7. o[m + 1] + Len(inner') * Batch' = o[m + 1]
      BY <2>8, <3>6
    <3>8. QED
      BY <2>8, <3>4, <3>6, <3>7
  <2>11. NodeInMaking(o)'
    BY <1>5, <2>5, <2>9, <2>10 DEF NodeInMaking
  <2>12. QED
    BY <1>6, <2>7, <2>11 DEF NodesFrom
<1>13. QED
  BY <1>3, <1>11, <1>12 DEF CreateNode

LEMMA NodesStep ==
    FileIInv /\ LeavesIInv /\ NodesIInv /\ [FileNext]_fileVars => NodesIInv'
<1> SUFFICES ASSUME FileIInv, LeavesIInv, NodesIInv, [FileNext]_fileVars PROVE NodesIInv'
  OBVIOUS
<1>1. LeavesNeeded'
  BY LeavesNeededStep DEF NodesIInv
<1>2. PICK o : NodesFrom(o)
  BY DEF NodesIInv
<1>3. PICK c, n, p : /\ Cut(c, n, p) /\ p \in Nat /\ p = PaddedChunks(NumChunks)
                     /\ Len(submission) \in Nat
  BY FileIInvGives
<1>5. CASE MerkleTree
  <2>1. /\ phase = "merkle_tree" /\ size' = size
        /\ submission' = submission /\ inner' = inner
    BY <1>5 DEF MerkleTree
  <2>2. \/ phase' = phase
        \/ phase' = "error"
        \/ phase' = "create_submission" /\ offset' = 0
    BY <1>5 DEF MerkleTree
  <2>3. CASE phase' = phase
    <3>1. /\ \A a, m : Tree(Hashes, a, m)' = Tree(Hashes, a, m)
          /\ NumChunks' = NumChunks /\ SplitNodes' = SplitNodes
      BY <2>1, SameTrees
    <3>2. Starting(o, SplitNodes, PaddedChunks(NumChunks), PaddedChunks(NumChunks))'
      BY <1>2, <3>1 DEF NodesFrom, Starting
    <3>3. Len(submission) = 0 /\ Len(inner) = 0
      BY <1>2, <2>1 DEF NodesFrom, NodesMade
    <3>4. phase' # "ready" /\ phase' # "create_submission"
      BY <2>1, <2>3
    <3>5. NodesMade(o)'
      BY <2>1, <3>3, <3>4 DEF NodesMade
    <3>6. NodeInMaking(o)'
      BY <3>4 DEF NodeInMaking
    <3>7. NodesFrom(o)'
      BY <3>2, <3>5, <3>6 DEF NodesFrom
    <3>8. QED
      BY <1>1, <3>7 DEF NodesIInv
  <2>4. CASE phase' = "error"
    <3>1. NoNodeMade
      BY <2>1, <2>4 DEF NoNodeMade
    <3>2. NodesFrom(o)'
      BY <1>2, <3>1, NodesStay
    <3>3. QED
      BY <1>1, <3>2 DEF NodesIInv
  <2>5. CASE phase' = "create_submission" /\ offset' = 0
    <3>1. NodesFrom(o)'
      BY <1>2, <1>3, <2>1, <2>5, NodesBegin
    <3>2. QED
      BY <1>1, <3>1 DEF NodesIInv
  <2>6. QED
    BY <2>2, <2>3, <2>4, <2>5
<1>6. CASE CreateNode
  <2>1. NodesFrom(o)'
    BY <1>2, <1>3, <1>6, NodesCreate
  <2>2. QED
    BY <1>1, <2>1 DEF NodesIInv
<1>7. CASE CreateSubmission
  <2>1. /\ phase' = "ready" /\ Len(submission) = Len(SplitNodes)
        /\ size' = size /\ submission' = submission /\ inner' = inner
    BY <1>7 DEF CreateSubmission
  <2>2. NoNodeMade
    BY <2>1 DEF NoNodeMade
  <2>3. NodesFrom(o)'
    BY <1>2, <2>2, NodesStay
  <2>4. QED
    BY <1>1, <2>3 DEF NodesIInv
<1>8. CASE UNCHANGED fileVars
  <2>1. /\ size' = size /\ phase' = phase /\ offset' = offset
        /\ submission' = submission /\ inner' = inner
    BY <1>8 DEF fileVars
  <2>2. NoNodeMade
    BY <2>1 DEF NoNodeMade
  <2>3. NodesFrom(o)'
    BY <1>2, <2>2, NodesStay
  <2>4. QED
    BY <1>1, <2>3 DEF NodesIInv
<1>9. QED
  BY <1>5, <1>6, <1>7, <1>8 DEF FileNext

(* The leaves are the roots over the file's chunks in segments.            *)
LEMMA LeavesTree ==
    ASSUME FileIInv, LeavesIInv, LeavesNeeded, Ready,
           NEW c, NEW n, NEW p, Cut(c, n, p), p <= Two[30]
    PROVE  RootOver(leaves, Hashes, 0, p) /\ p # 0
<1>1. p \in Nat /\ p = PaddedChunks(NumChunks) /\ IsSeq(leaves)
  BY DEF Cut, FileIInv
<1>2. PICK m : m = Len(leaves) /\ m \in Nat
  BY <1>1, SeqGrows
<1>3. PICK s \in 0 .. 30 : SEGMENT = Two[s] /\ SEGMENT \in Nat \ {0}
  BY SegmentAssumption, TwoIs
<1>4. m \in Nat \ {0} /\ p <= m * SEGMENT /\ (m - 1) * SEGMENT < p /\ m <= p
  <2>1. phase = "ready"
    BY DEF Ready
  <2>2. Len(leaves) # 0 /\ PaddedChunks(NumChunks) <= Len(leaves) * SEGMENT
    BY <2>1 DEF LeavesIInv
  <2>3. Len(leaves) <= PaddedChunks(NumChunks)
    BY DEF FileIInv
  <2>4. (m - 1) * SEGMENT < p
    BY <1>1, <1>2, <2>2 DEF LeavesNeeded
  <2>5. QED
    BY <1>1, <1>2, <2>2, <2>3, <2>4
<1>5. ASSUME NEW i \in 1 .. m
      PROVE  leaves[i] = Tree(Hashes, (i - 1) * SEGMENT, Batched((i - 1) * SEGMENT, SEGMENT, p))
             /\ (i - 1) * SEGMENT \in 0 .. p
             /\ (i < m => i * SEGMENT <= (m - 1) * SEGMENT)
  <2>1. PICK k : k = i - 1 /\ k \in Nat /\ k <= m - 1 /\ k + 1 = i
    BY <1>4
  <2>2. PICK x, y : x = k * SEGMENT /\ y = (m - 1) * SEGMENT /\ x \in Nat /\ y \in Nat
    BY <1>3, <1>4, <2>1
  <2>3. x <= y
    <3>1. k = m - 1 \/ k < m - 1
      BY <1>4, <2>1
    <3>2. k < m - 1 => x < y
      BY <1>3, <1>4, <2>1, <2>2, TimesOrders
    <3>3. QED
      BY <2>2, <3>1, <3>2
  <2>4. x \in 0 .. p
    BY <1>1, <1>4, <2>2, <2>3
  <2>5. leaves[i] = SegmentRoot(k)
    BY <1>2, <2>1 DEF LeavesIInv
  <2>6. PICK b : b = Batched(x, SEGMENT, p)
    OBVIOUS
  <2>7. RootHash(Read(x * CHUNK, SEGMENT * CHUNK)) = Tree(Hashes, x, b)
    BY <1>3, <2>4, <2>6, ReadTree
  <2>8. SegmentRoot(k) = Tree(Hashes, x, b)
    BY <2>2, <2>7 DEF SegmentRoot
  <2>9. i < m => i * SEGMENT <= y
    <3>1. i = m - 1 \/ i < m - 1 \/ i = m
      BY <1>4
    <3>2. PICK z : z = i * SEGMENT /\ z \in Int
      BY <1>3
    <3>3. i < m - 1 => z < y
      BY <1>3, <1>4, <2>2, <3>2, TimesOrders
    <3>4. i = m - 1 => z = y
      BY <2>2, <3>2
    <3>5. QED
      BY <1>4, <2>2, <3>1, <3>2, <3>3, <3>4
  <2>10. QED
    BY <2>1, <2>2, <2>4, <2>5, <2>6, <2>8, <2>9
<1>6. PICK h : h = Hashes
  OBVIOUS
<1>7. ASSUME NEW i \in 1 .. m - 1
      PROVE  leaves[0 + i] = Tree(h, 0 + (i - 1) * SEGMENT, SEGMENT)
  <2>1. i \in 1 .. m /\ i < m /\ 0 + i = i
    BY <1>4
  <2>2. PICK x : x = (i - 1) * SEGMENT /\ x \in 0 .. p /\ 0 + x = x
    BY <1>5, <2>1
  <2>3. i * SEGMENT = x + SEGMENT
    BY <1>3, <2>1, <2>2
  <2>4. PICK y : y = (m - 1) * SEGMENT /\ y \in Nat /\ y < p
    BY <1>3, <1>4
  <2>5. x + SEGMENT <= y
    BY <1>5, <2>1, <2>3, <2>4
  <2>6. SEGMENT <= p - x
    BY <1>1, <1>3, <2>2, <2>4, <2>5
  <2>7. Batched(x, SEGMENT, p) = SEGMENT
    BY <2>6 DEF Batched
  <2>8. leaves[i] = Tree(h, x, SEGMENT)
    BY <1>5, <1>6, <2>1, <2>2, <2>7
  <2>9. QED
    BY <2>1, <2>2, <2>8
<1>8. leaves[0 + m] = Tree(h, 0 + (m - 1) * SEGMENT, p - (m - 1) * SEGMENT)
  <2>1. m \in 1 .. m /\ 0 + m = m
    BY <1>4
  <2>2. PICK x : x = (m - 1) * SEGMENT /\ x \in 0 .. p /\ 0 + x = x
    BY <1>5, <2>1
  <2>3. m * SEGMENT = x + SEGMENT
    BY <1>3, <1>4, <2>2
  <2>4. p <= x + SEGMENT
    BY <1>4, <2>3
  <2>5. Batched(x, SEGMENT, p) = p - x
    BY <1>1, <1>3, <2>2, <2>4 DEF Batched
  <2>6. leaves[m] = Tree(h, x, p - x)
    BY <1>5, <1>6, <2>1, <2>2, <2>5
  <2>7. QED
    BY <2>1, <2>2, <2>6
<1>9. Blocks(leaves, 0, h, 0, SEGMENT, m, p)
  BY <1>1, <1>4, <1>7, <1>8 DEF Blocks
<1>10. BlocksAgree(leaves, 0, h, 0, m, p)
  <2>1. 0 \in Nat
    OBVIOUS
  <2>2. Blocks(leaves, 0, h, 0, Two[s], m, p)
    BY <1>3, <1>9
  <2>3. QED
    BY <2>1, <2>2, BlocksTree
<1>11. Cutout(leaves, 0, Len(leaves)) = leaves
  BY <1>1, WholeCutout
<1>12. RootHash(leaves) = Tree(h, 0, p)
  BY <1>2, <1>10, <1>11 DEF BlocksAgree, Tree
<1>13. p # 0
  BY <1>1, <1>4
<1>14. QED
  BY <1>6, <1>12, <1>13 DEF RootOver

(* The two roots are the root over the file's chunks.                      *)
LEMMA RootsAgree ==
    ASSUME FileIInv, LeavesIInv, NodesIInv PROVE SubmissionHasFileRoot
<1> SUFFICES ASSUME Ready PROVE RootHash(leaves) = FlowRoot(submission)
  BY DEF SubmissionHasFileRoot, FlowRoot
<1>1. PICK c, n, p : /\ Cut(c, n, p) /\ p \in Nat /\ p = PaddedChunks(NumChunks)
                     /\ Len(SplitNodes) \in Nat
  BY FileIInvGives
<1>2. p <= Two[30]
  BY <1>1, PaddedBound DEF FileIInv
<1>3. RootOver(leaves, Hashes, 0, p) /\ p # 0
  BY <1>1, <1>2, LeavesTree DEF NodesIInv
<1>4. PICK o : NodesFrom(o)
  BY DEF NodesIInv
<1>5. PICK z, h : z = SplitNodes /\ h = Hashes
  OBVIOUS
<1>6. Starting(o, z, p, p)
  BY <1>1, <1>4, <1>5 DEF NodesFrom
<1>7. /\ IsSeq(submission) /\ Len(submission) = Len(z)
      /\ \A j \in 1 .. Len(z) : submission[j].root = Tree(h, o[j], z[j])
  <2>1. Len(submission) = Len(SplitNodes)
    BY <1>4 DEF NodesFrom, NodesMade, Ready
  <2>2. \A j \in 1 .. Len(submission) :
            submission[j].root = Tree(Hashes, o[j], SplitNodes[j])
    BY <1>4 DEF NodesFrom, NodesMade
  <2>3. QED
    BY <1>5, <2>1, <2>2 DEF FileIInv
<1>8. p \in Nat \ {0} /\ Len(z) \in Nat
  BY <1>1, <1>3, <1>5
<1>9. FlowRoot(submission) = Tree(h, 0, p)
  BY <1>2, <1>6, <1>7, <1>8, NodesJoin
<1>10. QED
  BY <1>3, <1>5, <1>9 DEF RootOver

(* The state keeps its shape, and no iterator reads past the padded file.  *)
THEOREM FileTypeCorrect == FileSpec => []FileTypeOK
<1>1. FileIInv => FileTypeOK
  BY DEF FileIInv, FileTypeOK
<1>2. QED
  BY <1>1, FileInitHolds, FileStep, PTL DEF FileSpec

(* For every size, chunk and segment: the segments that the uploader cuts  *)
(* out hold every chunk of the file once, in order, without the padding,   *)
(* and only the last one is said to be the last.                           *)
THEOREM SegmentsCorrect == FileSpec => []SegmentsHoldFile
<1>1. FileIInv => SegmentsHoldFile
  BY SegmentsHold DEF FileIInv
<1>2. QED
  BY <1>1, FileInitHolds, FileStep, PTL DEF FileSpec

(* For every size, chunk and segment: the proof that goes with a segment   *)
(* convinces the node that validates it of the segment's index in the file *)
(* and of no other one.                                                    *)
THEOREM ProofsCorrect == FileSpec => []ProofsLocateSegments
<1>1. FileIInv /\ LeavesIInv => ProofsLocateSegments
  BY ProofsLocate
<1>2. FileInit => FileIInv /\ LeavesIInv
  BY FileInitHolds, LeavesInit
<1>3. FileIInv /\ LeavesIInv /\ [FileNext]_fileVars => (FileIInv /\ LeavesIInv)'
  BY FileStep, LeavesStep
<1>4. QED
  BY <1>1, <1>2, <1>3, PTL DEF FileSpec

(* For every size and chunk, and every segment that is a power of two: the *)
(* root that the Flow contract gets from the submission is the root that   *)
(* the uploader looks the file up under.                                   *)
THEOREM SubmissionCorrect == FileSpec => []SubmissionHasFileRoot
<1>1. FileIInv /\ LeavesIInv /\ NodesIInv => SubmissionHasFileRoot
  BY RootsAgree
<1>2. FileInit => FileIInv /\ LeavesIInv /\ NodesIInv
  BY FileInitHolds, LeavesInit, NodesInit
<1>3. FileIInv /\ LeavesIInv /\ NodesIInv /\ [FileNext]_fileVars
          => (FileIInv /\ LeavesIInv /\ NodesIInv)'
  BY FileStep, LeavesStep, NodesStep
<1>4. QED
  BY <1>1, <1>2, <1>3, PTL DEF FileSpec

(* Fragments of any size, of a file of any size, follow each other without *)
(* a gap, are not empty and end where the file ends.                       *)
THEOREM FragmentsCorrect == FileSpec => []FragmentsHoldFile
<1>1. FileIInv => FragmentsHoldFile
  BY FragmentsHold DEF FileIInv
<1>2. QED
  BY <1>1, FileInitHolds, FileStep, PTL DEF FileSpec

----------------------------------------------------------------------------
(* The remainder of a sum from the remainder of one part.                  *)
LEMMA ModSum ==
    ASSUME NEW x \in Nat, NEW y \in Nat, NEW n \in Nat \ {0}
    PROVE  (x + y) % n = ((x % n) + y) % n
<1> DEFINE s == x \div n
           v == x % n
           z == v + y
           u == z \div n
           w == z % n
<1>1. s \in Nat /\ v \in 0 .. n - 1 /\ x = n * s + v
  BY ModRange
<1>2. z \in Nat
  BY <1>1
<1> HIDE DEF s, v, z
<1>3. u \in Nat /\ w \in 0 .. n - 1 /\ z = n * u + w
  BY <1>2, ModRange
<1> HIDE DEF u, w
<1>4. /\ n * (s + u) = n * s + n * u
      /\ n * s \in Int /\ n * u \in Int /\ s + u \in Nat /\ x + y \in Nat
  BY <1>1, <1>3, Distributes
<1>5. x + y = n * (s + u) + w
  BY <1>1, <1>3, <1>4 DEF z
<1> DEFINE sum == x + y
           q == s + u
<1>6. sum \in Nat /\ q \in Nat /\ sum = n * q + w
  BY <1>4, <1>5
<1> HIDE DEF sum, q
<1>7. sum % n = w
  BY <1>3, <1>6, ModUnique
<1>8. QED
  BY <1>7 DEF w, z, v, sum

(* Each number below n is reached within n turns, wherever they begin.     *)
LEMMA TurnsReachAll ==
    ASSUME NEW t \in Nat, NEW n \in Nat \ {0}, NEW j \in 0 .. n - 1
    PROVE  \E k \in 0 .. n - 1 : (t + k) % n = j
<1>1. t % n \in 0 .. n - 1
  BY ModRange
<1>2. ASSUME NEW k \in 0 .. n - 1, NEW q \in Nat, (t % n) + k = n * q + j
      PROVE  (t + k) % n = j
  <2>1. (t + k) % n = ((t % n) + k) % n
    BY ModSum
  <2> DEFINE sum == (t % n) + k
  <2>2. sum \in Nat /\ sum = n * q + j
    BY <1>1, <1>2
  <2> HIDE DEF sum
  <2>3. sum % n = j
    BY <2>2, ModUnique
  <2>4. QED
    BY <2>1, <2>3 DEF sum
<1>3. CASE j >= t % n
  <2> DEFINE k == j - (t % n)
  <2>1. k \in 0 .. n - 1 /\ (t % n) + k = n * 0 + j
    BY <1>1, <1>3
  <2> HIDE DEF k
  <2>2. QED
    BY <1>2, <2>1
<1>4. CASE j < t % n
  <2> DEFINE k == j + n - (t % n)
  <2>1. k \in 0 .. n - 1 /\ (t % n) + k = n * 1 + j
    BY <1>1, <1>4
  <2> HIDE DEF k
  <2>2. QED
    BY <1>2, <2>1
<1>5. QED
  BY <1>1, <1>3, <1>4

----------------------------------------------------------------------------
(* The inductive invariant.                                                *)
Piece == [root : Root, segment : Nat, cut : BOOLEAN]

Shape ==
    /\ request \in [Caller -> [roots : Seq(Root) \ {<< >>}, fragments : BOOLEAN]]
    /\ \A c \in Caller : ~request[c].fragments => Len(Roots(c)) = 1
    /\ config \in [Node -> Configs] /\ holds \in [Node -> SUBSET Root]
    /\ data \in [Paths -> Seq(Piece)]
    /\ pc \in [Caller -> {"idle", "query", "segments", "copy", "unlink",
                          "cleanup", "returned"}]
    /\ at \in [Caller -> Nat \ {0}]
    /\ taskInd \in [Caller -> Nat] /\ tried \in [Caller -> Nat]
    /\ tempFiles \in [Caller -> SUBSET Paths]
    /\ result \in [Caller -> {"none", "ok", "error"}]
    /\ calls \in [Caller -> Nat] /\ crashes \in Nat
    /\ exists \subseteq Paths

(* A call knows the temporary file it is at; one for a single root has     *)
(* none.  The output that a call for fragments has opened stays.           *)
Stage(c) ==
    /\ ~request[c].fragments => /\ pc[c] \notin {"copy", "unlink", "cleanup"}
                                /\ tempFiles[c] = {}
    /\ ~Running(c) => tempFiles[c] = {}
    /\ request[c].fragments /\ pc[c] \in {"segments", "copy", "unlink"} =>
           Target(c) \in tempFiles[c]
    /\ request[c].fragments /\ Running(c) => Out(c) \in exists
    /\ pc[c] = "segments" /\ taskInd[c] > 0 /\ ~request[c].fragments =>
           Out(c) \in exists
    /\ pc[c] = "returned" /\ result[c] = "ok" => Out(c) \in exists

Stages == \A c \in Caller : Stage(c)

(* While no process has ended within a call, each temporary file is one    *)
(* that a running call will clean up.                                      *)
TemporariesTracked ==
    crashes = 0 =>
        \A r \in Root : Temp(r) \in exists =>
            \E c \in Caller : Running(c) /\ Temp(r) \in tempFiles[c]

(* The nodes that were asked for the segment do not have it.               *)
Turn(c, k) == nodes[1 + ((taskInd[c] + k) % Len(nodes))]

AskedInVain ==
    \A c \in Caller : Asking(c) =>
        \A k \in 0 .. tried[c] - 1 : Passes(Turn(c, k), c)

(* A call that is not marked shares its temporary files with none that     *)
(* runs.                                                                   *)
SharingIsMarked ==
    \A c \in Caller : Running(c) /\ c \notin overlapped => Sharing(c) = {}

(* The first k segments of a file, and the first k files of a call.        *)
Part(r, k) == [i \in 1 .. k |-> Whole(r)[i]]
Files(c, k) == FlattenSeq([i \in 1 .. k |-> Whole(Roots(c)[i])])

(* What a call has written before it is done, unless another process used  *)
(* its temporary files.                                                    *)
Written(c) ==
    /\ request[c].fragments /\ pc[c] \in {"query", "segments", "copy"} =>
           data[Out(c)] = Files(c, at[c] - 1)
    /\ pc[c] = "segments" => data[Target(c)] = Part(Current(c), taskInd[c])
    /\ pc[c] = "copy" => data[Target(c)] = Whole(Current(c))
    /\ pc[c] = "unlink" => data[Out(c)] = Files(c, at[c])
    /\ pc[c] \in {"cleanup", "returned"} /\ result[c] = "ok" =>
           data[Out(c)] = Files(c, Len(Roots(c)))

WrittenSoFar == \A c \in Caller : c \notin overlapped => Written(c)

IInv ==
    /\ Shape /\ TypeOK /\ Stages /\ TemporariesTracked
    /\ AskedInVain /\ SharingIsMarked /\ WrittenSoFar

----------------------------------------------------------------------------
(* Outputs and temporary files are different paths.                        *)
LEMMA PathsApart ==
    /\ \A c, d \in Caller : Out(c) \in Paths /\ (Out(c) = Out(d) => c = d)
    /\ \A r, s \in Root : Temp(r) \in Paths /\ (Temp(r) = Temp(s) => r = s)
    /\ \A c \in Caller, r \in Root : Out(c) # Temp(r)
  BY DEF Paths, Out, Temp

(* The root that a caller is at.                                           *)
LEMMA CurrentIs ==
    ASSUME Shape, TypeOK, NEW c \in Caller
    PROVE  /\ Roots(c) \in Seq(Root) /\ Len(Roots(c)) \in Nat \ {0}
           /\ at[c] \in 1 .. Len(Roots(c)) /\ at[c] \in Nat \ {0}
           /\ Current(c) \in Root /\ Current(c) \in Range(Roots(c))
           /\ Segments[Current(c)] \in Nat \ {0}
           /\ StartSegment[Current(c)] \in Nat
           /\ Target(c) \in Paths
           /\ request[c].fragments => Target(c) = Temp(Current(c))
           /\ ~request[c].fragments => Target(c) = Out(c)
<1>1. Roots(c) \in Seq(Root) /\ Roots(c) # << >>
  BY DEF Shape, Roots
<1>2. Len(Roots(c)) \in Nat \ {0}
  BY <1>1, EmptySeq, LenProperties
<1>3. at[c] \in 1 .. Len(Roots(c)) /\ at[c] \in Nat \ {0}
  BY DEF Shape, TypeOK
<1>4. Current(c) \in Root /\ Current(c) \in Range(Roots(c))
  <2>1. Roots(c)[at[c]] \in Root
    BY <1>1, <1>3, ElementOfSeq
  <2>2. at[c] \in DOMAIN Roots(c)
    BY <1>1, <1>3, LenProperties
  <2>3. QED
    BY <2>1, <2>2 DEF Current, Range
<1>5. Segments[Current(c)] \in Nat \ {0} /\ StartSegment[Current(c)] \in Nat
  BY <1>4, DownloaderAssumption
<1>6. QED
  BY <1>1, <1>2, <1>3, <1>4, <1>5, PathsApart DEF Target

(* What a step of one caller leaves alone.                                 *)
Acts(c) == Download(c) \/ Step(c) \/ Crash(c) \/ RemoveOutput(c)

Same(d) ==
    /\ pc'[d] = pc[d] /\ at'[d] = at[d] /\ taskInd'[d] = taskInd[d]
    /\ tried'[d] = tried[d] /\ tempFiles'[d] = tempFiles[d]
    /\ result'[d] = result[d] /\ calls'[d] = calls[d]

(* A step of one caller changes nothing of what another caller is at.      *)
LEMMA OthersStay ==
    ASSUME Shape, NEW c \in Caller, Acts(c)
    PROVE  /\ request' = request /\ config' = config /\ holds' = holds
           /\ \A d \in Caller : d # c => Same(d)
<1>1. request' = request /\ config' = config /\ holds' = holds
  BY DEF Acts, Step, Download, QueryFile, SegmentArrives, NextNode, SegmentFails,
         FileEnds, CopyFragment, UnlinkFragment, Cleanup, Crash, RemoveOutput,
         network
<1>2. ASSUME NEW d \in Caller, d # c PROVE Same(d)
  <2> USE DEF Shape, Same, Goto, Return, count, disk
  <2>1. CASE Download(c)
    BY <1>2, <2>1 DEF Download
  <2>2. CASE QueryFile(c)
    BY <1>2, <2>2 DEF QueryFile
  <2>3. CASE SegmentArrives(c)
    BY <1>2, <2>3 DEF SegmentArrives
  <2>4. CASE NextNode(c)
    BY <1>2, <2>4 DEF NextNode
  <2>5. CASE SegmentFails(c)
    BY <1>2, <2>5 DEF SegmentFails
  <2>6. CASE FileEnds(c)
    BY <1>2, <2>6 DEF FileEnds
  <2>7. CASE CopyFragment(c)
    BY <1>2, <2>7 DEF CopyFragment
  <2>8. CASE UnlinkFragment(c)
    BY <1>2, <2>8 DEF UnlinkFragment
  <2>9. CASE Cleanup(c)
    BY <1>2, <2>9 DEF Cleanup
  <2>10. CASE Crash(c)
    BY <1>2, <2>10 DEF Crash
  <2>11. CASE RemoveOutput(c)
    BY <1>2, <2>11 DEF RemoveOutput
  <2>12. QED
    BY <2>1, <2>2, <2>3, <2>4, <2>5, <2>6, <2>7, <2>8, <2>9, <2>10, <2>11
       DEF Acts, Step
<1>3. QED
  BY <1>1, <1>2

----------------------------------------------------------------------------
(* What arrives is a piece of a file.                                      *)
LEMMA FetchedIs ==
    ASSUME Shape, TypeOK, NEW c \in Caller PROVE Fetched(c) \in Piece
<1>1. Current(c) \in Root /\ taskInd[c] + 1 \in Nat
  BY CurrentIs DEF Shape
<1>2. (taskInd[c] + 1 = Segments[Current(c)]) \in BOOLEAN
  OBVIOUS
<1>3. QED
  BY <1>1, <1>2 DEF Fetched, Piece

(* Deleting paths empties them and leaves all others.                      *)
LEMMA DeleteKeeps ==
    ASSUME data \in [Paths -> Seq(Piece)], NEW paths, Delete(paths)
    PROVE  /\ data' \in [Paths -> Seq(Piece)]
           /\ exists' = exists \ paths
           /\ \A p \in Paths : data'[p] = IF p \in paths THEN << >> ELSE data[p]
<1>1. << >> \in Seq(Piece)
  BY EmptySeq
<1>2. QED
  BY <1>1 DEF Delete

(* Each step keeps the variables in their types.                           *)
LEMMA ShapeStep ==
    ASSUME Shape, TypeOK, NEW c \in Caller, Acts(c)
    PROVE  Shape'
<1> USE DEF Goto, Return, network, disk, count
<1>1. /\ request' = request /\ config' = config /\ holds' = holds
      /\ request' \in [Caller -> [roots : Seq(Root) \ {<< >>}, fragments : BOOLEAN]]
      /\ \A d \in Caller : ~request'[d].fragments => Len(request'[d].roots) = 1
      /\ config' \in [Node -> Configs] /\ holds' \in [Node -> SUBSET Root]
  BY OthersStay DEF Shape, Roots
<1>2. Target(c) \in Paths /\ Out(c) \in Paths
  BY CurrentIs, PathsApart
<1> DEFINE Moved ==
             /\ pc' \in [Caller -> {"idle", "query", "segments", "copy", "unlink",
                                    "cleanup", "returned"}]
             /\ at' \in [Caller -> Nat \ {0}]
             /\ taskInd' \in [Caller -> Nat] /\ tried' \in [Caller -> Nat]
             /\ tempFiles' \in [Caller -> SUBSET Paths]
             /\ result' \in [Caller -> {"none", "ok", "error"}]
             /\ calls' \in [Caller -> Nat] /\ crashes' \in Nat
           Stored == data' \in [Paths -> Seq(Piece)] /\ exists' \subseteq Paths
<1>3. CASE Download(c)
  <2>1. Moved
    <3>1. pc' \in [Caller -> {"idle", "query", "segments", "copy", "unlink",
                              "cleanup", "returned"}]
      BY <1>3 DEF Download, Shape
    <3>2. result' \in [Caller -> {"none", "ok", "error"}]
      BY <1>3 DEF Download, Shape
    <3>3. /\ at' \in [Caller -> Nat \ {0}]
          /\ taskInd' \in [Caller -> Nat] /\ tried' \in [Caller -> Nat]
      BY <1>3 DEF Download, Shape
    <3>4. tempFiles' \in [Caller -> SUBSET Paths]
      BY <1>2, <1>3 DEF Download, Shape
    <3>5. calls' \in [Caller -> Nat] /\ crashes' \in Nat
      BY <1>3 DEF Download, Shape
    <3>6. QED
      BY <3>1, <3>2, <3>3, <3>4, <3>5
  <2>2. Stored
    BY <1>2, <1>3 DEF Download, Shape
  <2>3. QED
    BY <1>1, <2>1, <2>2 DEF Shape, Roots
<1>4. CASE QueryFile(c)
  <2>1. Moved
    <3>1. pc' \in [Caller -> {"idle", "query", "segments", "copy", "unlink",
                              "cleanup", "returned"}]
      <4>1. pc' = pc \/ \E where \in {"query", "segments", "copy", "cleanup", "returned"} :
                           pc' = [pc EXCEPT ![c] = where]
        BY <1>4 DEF QueryFile
      <4>2. pc \in [Caller -> {"idle", "query", "segments", "copy", "unlink",
                               "cleanup", "returned"}]
        BY DEF Shape
      <4>3. QED
        BY <4>1, <4>2
    <3>2. result' \in [Caller -> {"none", "ok", "error"}]
      BY <1>4 DEF QueryFile, Shape
    <3>3. at' \in [Caller -> Nat \ {0}]
      <4>1. at \in [Caller -> Nat \ {0}] /\ at[c] + 1 \in Nat \ {0}
        BY DEF Shape
      <4>2. QED
        BY <4>1, <1>4 DEF QueryFile
    <3>a. taskInd' \in [Caller -> Nat]
      <4>1. taskInd \in [Caller -> Nat]
        BY DEF Shape
      <4>2. QED
        BY <4>1, <1>4 DEF QueryFile
    <3>b. tried' \in [Caller -> Nat]
      <4>1. tried \in [Caller -> Nat] /\ tried[c] + 1 \in Nat
        BY DEF Shape
      <4>2. QED
        BY <4>1, <1>4 DEF QueryFile
    <3>4. tempFiles' \in [Caller -> SUBSET Paths]
      BY <1>2, <1>4 DEF QueryFile, Shape
    <3>5. calls' \in [Caller -> Nat] /\ crashes' \in Nat
      BY <1>4 DEF QueryFile, Shape
    <3>6. QED
      BY <3>1, <3>2, <3>3, <3>a, <3>b, <3>4, <3>5
  <2>2. Stored
    BY <1>4 DEF QueryFile, Shape
  <2>3. QED
    BY <1>1, <2>1, <2>2 DEF Shape, Roots
<1>5. CASE SegmentArrives(c)
  <2>1. Moved
    BY <1>5 DEF SegmentArrives, Shape
  <2>2. data[Target(c)] \in Seq(Piece)
    BY <1>2 DEF Shape
  <2>3. Append(data[Target(c)], Fetched(c)) \in Seq(Piece)
    BY <2>2, FetchedIs, AppendProperties
  <2>a. /\ data' = [data EXCEPT ![Target(c)] = Append(@, Fetched(c))]
        /\ exists' = exists \cup {Target(c)}
    BY <1>5 DEF SegmentArrives
  <2>b. exists \subseteq Paths /\ data \in [Paths -> Seq(Piece)] /\ Target(c) \in Paths
    BY <1>2 DEF Shape
  <2>c. data' \in [Paths -> Seq(Piece)]
    BY <2>3, <2>a, <2>b
  <2>4. Stored
    BY <2>a, <2>b, <2>c
  <2>5. QED
    BY <1>1, <2>1, <2>4 DEF Shape, Roots
<1>6. CASE NextNode(c) \/ SegmentFails(c) \/ FileEnds(c)
  <2>1. Moved
    <3>1. pc' \in [Caller -> {"idle", "query", "segments", "copy", "unlink",
                              "cleanup", "returned"}]
      <4>1. pc' = pc \/ \E where \in {"query", "segments", "copy", "cleanup", "returned"} :
                           pc' = [pc EXCEPT ![c] = where]
        BY <1>6 DEF NextNode, SegmentFails, FileEnds
      <4>2. pc \in [Caller -> {"idle", "query", "segments", "copy", "unlink",
                               "cleanup", "returned"}]
        BY DEF Shape
      <4>3. QED
        BY <4>1, <4>2
    <3>2. result' \in [Caller -> {"none", "ok", "error"}]
      BY <1>6 DEF NextNode, SegmentFails, FileEnds, Shape
    <3>3. at' \in [Caller -> Nat \ {0}]
      <4>1. at \in [Caller -> Nat \ {0}] /\ at[c] + 1 \in Nat \ {0}
        BY DEF Shape
      <4>2. QED
        BY <4>1, <1>6 DEF NextNode, SegmentFails, FileEnds
    <3>a. taskInd' \in [Caller -> Nat]
      <4>1. taskInd \in [Caller -> Nat]
        BY DEF Shape
      <4>2. QED
        BY <4>1, <1>6 DEF NextNode, SegmentFails, FileEnds
    <3>b. tried' \in [Caller -> Nat]
      <4>1. tried \in [Caller -> Nat] /\ tried[c] + 1 \in Nat
        BY DEF Shape
      <4>2. QED
        BY <4>1, <1>6 DEF NextNode, SegmentFails, FileEnds
    <3>4. tempFiles' \in [Caller -> SUBSET Paths]
      BY <1>2, <1>6 DEF NextNode, SegmentFails, FileEnds, Shape
    <3>5. calls' \in [Caller -> Nat] /\ crashes' \in Nat
      BY <1>6 DEF NextNode, SegmentFails, FileEnds, Shape
    <3>6. QED
      BY <3>1, <3>2, <3>3, <3>a, <3>b, <3>4, <3>5
  <2>2. Stored
    BY <1>6 DEF NextNode, SegmentFails, FileEnds, Shape
  <2>3. QED
    BY <1>1, <2>1, <2>2 DEF Shape, Roots
<1>7. CASE CopyFragment(c)
  <2>1. Moved
    BY <1>7 DEF CopyFragment, Shape
  <2>2. data[Out(c)] \in Seq(Piece) /\ data[Target(c)] \in Seq(Piece)
    BY <1>2 DEF Shape
  <2>3. data[Out(c)] \o data[Target(c)] \in Seq(Piece)
    BY <2>2, ConcatProperties
  <2>a. data' = [data EXCEPT ![Out(c)] = @ \o data[Target(c)]] \/ data' = data
    BY <1>7 DEF CopyFragment
  <2>b. exists' = exists /\ exists \subseteq Paths /\ data \in [Paths -> Seq(Piece)]
    BY <1>7 DEF CopyFragment, Shape
  <2>c. data' \in [Paths -> Seq(Piece)]
    BY <2>3, <2>a, <2>b
  <2>4. Stored
    BY <2>b, <2>c
  <2>5. QED
    BY <1>1, <2>1, <2>4 DEF Shape, Roots
<1>8. CASE UnlinkFragment(c)
  <2>1. Moved
    <3>1. pc' \in [Caller -> {"idle", "query", "segments", "copy", "unlink",
                              "cleanup", "returned"}]
      <4>1. pc' = pc \/ \E where \in {"query", "segments", "copy", "cleanup", "returned"} :
                           pc' = [pc EXCEPT ![c] = where]
        BY <1>8 DEF UnlinkFragment
      <4>2. pc \in [Caller -> {"idle", "query", "segments", "copy", "unlink",
                               "cleanup", "returned"}]
        BY DEF Shape
      <4>3. QED
        BY <4>1, <4>2
    <3>2. result' \in [Caller -> {"none", "ok", "error"}]
      BY <1>8 DEF UnlinkFragment, Shape
    <3>3. at' \in [Caller -> Nat \ {0}]
      <4>1. at \in [Caller -> Nat \ {0}] /\ at[c] + 1 \in Nat \ {0}
        BY DEF Shape
      <4>2. QED
        BY <4>1, <1>8 DEF UnlinkFragment
    <3>a. taskInd' \in [Caller -> Nat]
      <4>1. taskInd \in [Caller -> Nat]
        BY DEF Shape
      <4>2. QED
        BY <4>1, <1>8 DEF UnlinkFragment
    <3>b. tried' \in [Caller -> Nat]
      <4>1. tried \in [Caller -> Nat] /\ tried[c] + 1 \in Nat
        BY DEF Shape
      <4>2. QED
        BY <4>1, <1>8 DEF UnlinkFragment
    <3>4. tempFiles' \in [Caller -> SUBSET Paths]
      BY <1>2, <1>8 DEF UnlinkFragment, Shape
    <3>5. calls' \in [Caller -> Nat] /\ crashes' \in Nat
      BY <1>8 DEF UnlinkFragment, Shape
    <3>6. QED
      BY <3>1, <3>2, <3>3, <3>a, <3>b, <3>4, <3>5
  <2>2. Delete({Target(c)})
    BY <1>8 DEF UnlinkFragment
  <2>3. Stored
    BY <2>2, DeleteKeeps DEF Shape
  <2>4. QED
    BY <1>1, <2>1, <2>3 DEF Shape, Roots
<1>9. CASE Cleanup(c)
  <2>1. Moved
    BY <1>9 DEF Cleanup, Shape
  <2>2. Delete(tempFiles[c])
    BY <1>9 DEF Cleanup
  <2>3. Stored
    BY <2>2, DeleteKeeps DEF Shape
  <2>4. QED
    BY <1>1, <2>1, <2>3 DEF Shape, Roots
<1>10. CASE Crash(c)
  <2>1. Moved
    BY <1>10 DEF Crash, Shape
  <2>2. Stored
    BY <1>10 DEF Crash, Shape
  <2>3. QED
    BY <1>1, <2>1, <2>2 DEF Shape, Roots
<1>11. CASE RemoveOutput(c)
  <2>1. Moved
    BY <1>11 DEF RemoveOutput, Shape
  <2>2. Delete({Out(c)})
    BY <1>11 DEF RemoveOutput
  <2>3. Stored
    BY <2>2, DeleteKeeps DEF Shape
  <2>4. QED
    BY <1>1, <2>1, <2>3 DEF Shape, Roots
<1>12. QED
  BY <1>3, <1>4, <1>5, <1>6, <1>7, <1>8, <1>9, <1>10, <1>11 DEF Acts, Step

----------------------------------------------------------------------------
(* A caller writes and deletes its own output and, in a call for           *)
(* fragments, temporary files of its own roots.                            *)
LEMMA Writes ==
    ASSUME Shape, TypeOK, Stages, NEW c \in Caller, Acts(c), NEW p \in Paths,
           p # Out(c),
           ~(request[c].fragments /\ Running(c)
               /\ \E r \in Range(Roots(c)) : p = Temp(r))
    PROVE  data'[p] = data[p] /\ (p \in exists' <=> p \in exists)
<1> USE DEF disk, Return, Goto
<1>1. Target(c) # p \/ ~Running(c)
  BY CurrentIs
<1>2. p \notin tempFiles[c]
  BY DEF TypeOK, Stages, Stage
<1>3. data \in [Paths -> Seq(Piece)]
  BY DEF Shape
<1>4. CASE Download(c)
  BY <1>4 DEF Download
<1>5. CASE QueryFile(c)
  BY <1>5 DEF QueryFile
<1>6. CASE SegmentArrives(c)
  BY <1>1, <1>3, <1>6 DEF SegmentArrives, Asking, Running
<1>7. CASE NextNode(c) \/ SegmentFails(c) \/ FileEnds(c)
  BY <1>7 DEF NextNode, SegmentFails, FileEnds
<1>8. CASE CopyFragment(c)
  BY <1>3, <1>8 DEF CopyFragment
<1>9. CASE UnlinkFragment(c)
  <2>1. Delete({Target(c)}) /\ Target(c) # p
    BY <1>1, <1>9 DEF UnlinkFragment, Running
  <2>2. QED
    BY <1>3, <2>1, DeleteKeeps
<1>10. CASE Cleanup(c)
  <2>1. Delete(tempFiles[c])
    BY <1>10 DEF Cleanup
  <2>2. QED
    BY <1>2, <1>3, <2>1, DeleteKeeps
<1>11. CASE Crash(c)
  BY <1>11 DEF Crash
<1>12. CASE RemoveOutput(c)
  <2>1. Delete({Out(c)})
    BY <1>12 DEF RemoveOutput
  <2>2. QED
    BY <1>3, <2>1, DeleteKeeps
<1>13. QED
  BY <1>4, <1>5, <1>6, <1>7, <1>8, <1>9, <1>10, <1>11, <1>12 DEF Acts, Step

(* A path that does not exist has no contents.                             *)
LEMMA NothingThereStep ==
    ASSUME Shape, TypeOK, Stages, NEW c \in Caller, Acts(c)
    PROVE  \A p \in Paths \ exists' : data'[p] = << >>
<1> SUFFICES ASSUME NEW p \in Paths, p \notin exists'
             PROVE  data'[p] = << >>
  OBVIOUS
<1> USE DEF disk, Return, Goto
<1>1. p \notin exists => data[p] = << >>
  BY DEF TypeOK
<1>2. data \in [Paths -> Seq(Piece)]
  BY DEF Shape
<1>3. CASE Download(c)
  BY <1>1, <1>3 DEF Download
<1>4. CASE QueryFile(c)
  BY <1>1, <1>4 DEF QueryFile
<1>5. CASE SegmentArrives(c)
  BY <1>1, <1>2, <1>5 DEF SegmentArrives
<1>6. CASE NextNode(c) \/ SegmentFails(c) \/ FileEnds(c)
  BY <1>1, <1>6 DEF NextNode, SegmentFails, FileEnds
<1>7. CASE CopyFragment(c)
  <2>1. Out(c) \in exists
    BY <1>7 DEF CopyFragment, Stages, Stage, Running
  <2>2. QED
    BY <1>1, <1>2, <1>7, <2>1 DEF CopyFragment
<1>8. CASE UnlinkFragment(c)
  BY <1>1, <1>2, <1>8, DeleteKeeps DEF UnlinkFragment
<1>9. CASE Cleanup(c)
  BY <1>1, <1>2, <1>9, DeleteKeeps DEF Cleanup
<1>10. CASE Crash(c)
  BY <1>1, <1>10 DEF Crash
<1>11. CASE RemoveOutput(c)
  BY <1>1, <1>2, <1>11, DeleteKeeps DEF RemoveOutput
<1>12. QED
  BY <1>3, <1>4, <1>5, <1>6, <1>7, <1>8, <1>9, <1>10, <1>11 DEF Acts, Step

(* The limits of one caller's state.                                       *)
Limits(c) ==
    /\ at[c] \in 1 .. Len(Roots(c))
    /\ taskInd[c] \in 0 .. Segments[Current(c)]
    /\ tried[c] \in 0 .. Len(nodes)
    /\ tempFiles[c] \subseteq {Temp(r) : r \in Range(Roots(c))}
    /\ calls[c] \in 0 .. MaxCalls[c]

(* A caller stays within its roots, segments and nodes.                    *)
LEMMA LimitsStep ==
    ASSUME Shape, TypeOK, NEW c \in Caller, Acts(c)
    PROVE  Limits(c)'
<1> USE DEF disk, count, Return, Goto
<1>1. request' = request
  BY OthersStay
<1>2. /\ Roots(c) \in Seq(Root) /\ Len(Roots(c)) \in Nat \ {0}
      /\ Roots(c)' = Roots(c) /\ Len(nodes) \in Nat \ {0}
      /\ MaxCalls[c] \in Nat
  BY <1>1, CurrentIs, DownloaderAssumption, EmptySeq, LenProperties DEF Roots
<1>3. Limits(c)
  BY DEF TypeOK, Limits
<1>4. \A i \in 1 .. Len(Roots(c)) : Segments[Roots(c)[i]] \in Nat \ {0}
  BY <1>2, ElementOfSeq, DownloaderAssumption
<1>5. /\ at \in [Caller -> Nat \ {0}] /\ taskInd \in [Caller -> Nat]
      /\ tried \in [Caller -> Nat] /\ calls \in [Caller -> Nat]
      /\ tempFiles \in [Caller -> SUBSET Paths]
  BY DEF Shape
<1>6. Current(c)' = Roots(c)[at'[c]]
  BY <1>2 DEF Current
<1>7. CASE Download(c)
  <2>1. /\ at'[c] = 1 /\ taskInd'[c] = 0 /\ calls'[c] = calls[c] + 1
        /\ calls[c] < MaxCalls[c]
        /\ tried' = tried /\ tempFiles' = tempFiles
    BY <1>5, <1>7 DEF Download
  <2>2. at'[c] \in 1 .. Len(Roots(c)) /\ taskInd'[c] \in 0 .. Segments[Current(c)']
    BY <1>2, <1>4, <1>6, <2>1
  <2>3. calls'[c] \in 0 .. MaxCalls[c]
    BY <1>2, <1>3, <2>1 DEF Limits
  <2>4. tried'[c] \in 0 .. Len(nodes) /\ tempFiles'[c] \subseteq {Temp(r) : r \in Range(Roots(c))}
    BY <1>3, <2>1 DEF Limits
  <2>5. QED
    BY <1>2, <2>2, <2>3, <2>4, Zenon DEF Limits
<1>8. CASE QueryFile(c)
  <2>1. /\ at' = at /\ calls' = calls
        /\ taskInd'[c] \in {0, taskInd[c]} /\ tried'[c] \in {0, tried[c]}
    BY <1>5, <1>8 DEF QueryFile
  <2>2. tempFiles'[c] \subseteq {Temp(r) : r \in Range(Roots(c))}
    <3>1. tempFiles'[c] \subseteq tempFiles[c] \cup {Temp(Current(c))}
      BY <1>5, <1>8, CurrentIs DEF QueryFile
    <3>2. QED
      BY <1>3, <3>1, CurrentIs DEF Limits
  <2>3. QED
    BY <1>2, <1>3, <1>4, <1>6, <2>1, <2>2 DEF Limits, Current
<1>9. CASE SegmentArrives(c)
  <2>1. /\ at' = at /\ calls' = calls /\ tempFiles' = tempFiles
        /\ taskInd'[c] = taskInd[c] + 1 /\ tried'[c] = 0
        /\ taskInd[c] < Segments[Current(c)]
    BY <1>5, <1>9 DEF SegmentArrives, Asking
  <2>2. QED
    BY <1>2, <1>3, <1>4, <1>5, <1>6, <2>1 DEF Limits, Current
<1>10. CASE NextNode(c)
  <2>1. /\ at' = at /\ calls' = calls /\ tempFiles' = tempFiles
        /\ taskInd' = taskInd /\ tried'[c] = tried[c] + 1
        /\ tried[c] < Len(nodes)
    BY <1>5, <1>10 DEF NextNode
  <2>2. QED
    BY <1>2, <1>3, <1>5, <1>6, <2>1 DEF Limits, Current
<1>11. CASE SegmentFails(c) \/ FileEnds(c) \/ CopyFragment(c) \/ RemoveOutput(c)
  <2>1. /\ at' = at /\ calls' = calls /\ tempFiles' = tempFiles
        /\ taskInd' = taskInd /\ tried' = tried
    BY <1>11 DEF SegmentFails, FileEnds, CopyFragment, RemoveOutput
  <2>2. QED
    BY <1>2, <1>3, <1>6, <2>1 DEF Limits, Current
<1>12. CASE UnlinkFragment(c)
  <2>1. /\ calls' = calls /\ tried' = tried /\ tempFiles'[c] \subseteq tempFiles[c]
    BY <1>5, <1>12 DEF UnlinkFragment
  <2>2. CASE at[c] = Len(Roots(c))
    <3>1. at' = at /\ taskInd' = taskInd
      BY <1>12, <2>2 DEF UnlinkFragment
    <3>2. QED
      BY <1>2, <1>3, <1>6, <2>1, <3>1 DEF Limits, Current
  <2>3. CASE at[c] # Len(Roots(c))
    <3>1. at'[c] = at[c] + 1 /\ taskInd'[c] = 0
      BY <1>5, <1>12, <2>3 DEF UnlinkFragment
    <3>2. at'[c] \in 1 .. Len(Roots(c))
      BY <1>2, <1>3, <2>3, <3>1 DEF Limits
    <3>3. taskInd'[c] \in 0 .. Segments[Current(c)']
      BY <1>4, <1>6, <3>1, <3>2
    <3>4. QED
      BY <1>2, <1>3, <2>1, <3>2, <3>3 DEF Limits
  <2>4. QED
    BY <2>2, <2>3
<1>13. CASE Cleanup(c) \/ Crash(c)
  <2>1. /\ at' = at /\ calls' = calls /\ tempFiles'[c] = {}
        /\ taskInd' = taskInd /\ tried' = tried
    BY <1>5, <1>13 DEF Cleanup, Crash
  <2>2. QED
    BY <1>2, <1>3, <1>6, <2>1 DEF Limits, Current
<1>14. QED
  BY <1>7, <1>8, <1>9, <1>10, <1>11, <1>12, <1>13 DEF Acts, Step

(* Each step keeps the type invariant.                                     *)
LEMMA TypeStep ==
    ASSUME Shape, TypeOK, Stages, NEW c \in Caller, Acts(c), Shape'
    PROVE  TypeOK'
<1>1. exists' \subseteq Paths /\ \A p \in Paths \ exists' : data'[p] = << >>
  BY NothingThereStep DEF Shape
<1>2. ASSUME NEW d \in Caller PROVE Limits(d)'
  <2>1. CASE d = c
    BY <2>1, LimitsStep
  <2>2. CASE d # c
    <3>1. Same(d) /\ request' = request
      BY <2>2, OthersStay
    <3>2. Limits(d)
      BY DEF TypeOK, Limits
    <3>3. QED
      BY <3>1, <3>2 DEF Same, Limits, Roots, Current
  <2>3. QED
    BY <2>1, <2>2
<1>3. crashes' \in 0 .. MaxCrashes /\ overlapped' \subseteq Caller
  <2>1. crashes \in 0 .. MaxCrashes /\ overlapped \subseteq Caller
        /\ Sharing(c) \subseteq Caller /\ MaxCrashes \in Nat
    BY DownloaderAssumption DEF TypeOK, Sharing
  <2>2. CASE Crash(c)
    BY <2>1, <2>2 DEF Crash
  <2>3. CASE Download(c)
    BY <2>1, <2>3 DEF Download
  <2>4. CASE Step(c) \/ RemoveOutput(c)
    BY <2>1, <2>4 DEF Step, RemoveOutput, QueryFile, SegmentArrives, NextNode,
       SegmentFails, FileEnds, CopyFragment, UnlinkFragment, Cleanup, count
  <2>5. QED
    BY <2>2, <2>3, <2>4 DEF Acts
<1>4. QED
  BY <1>1, <1>2, <1>3 DEF TypeOK, Limits, Shape

----------------------------------------------------------------------------
(* Nobody writes, makes or removes the output of another caller.           *)
LEMMA OutputsOfOthers ==
    ASSUME Shape, TypeOK, Stages, NEW c \in Caller, Acts(c),
           NEW d \in Caller, d # c
    PROVE  data'[Out(d)] = data[Out(d)] /\ (Out(d) \in exists' <=> Out(d) \in exists)
<1>1. \A r \in Range(Roots(c)) : r \in Root
  <2>1. Roots(c) \in Seq(Root)
    BY CurrentIs
  <2>2. QED
    BY <2>1, ElementOfSeq, LenProperties DEF Range
<1>2. Out(d) \in Paths /\ Out(d) # Out(c)
      /\ \A r \in Range(Roots(c)) : Out(d) # Temp(r)
  BY <1>1, PathsApart
<1>3. QED
  BY <1>2, Writes

(* Each step leaves every call with the files of its stage.                *)
LEMMA StageStep ==
    ASSUME Shape, TypeOK, Stages, NEW c \in Caller, Acts(c), Shape'
    PROVE  Stages'
<1> USE DEF disk, count, Return, Goto
<1> SUFFICES ASSUME NEW d \in Caller PROVE Stage(d)'
  BY DEF Stages
<1>1. request' = request
  BY OthersStay
<1>2. Stage(d) /\ Stage(c)
  BY DEF Stages
<1>3. CASE d # c
  <2>1. Same(d) /\ (Out(d) \in exists' <=> Out(d) \in exists)
    BY <1>3, OthersStay, OutputsOfOthers
  <2>2. QED
    BY <1>1, <1>2, <2>1 DEF Same, Stage, Target, Current, Roots, Running
<1>4. CASE d = c
  <2>1. /\ pc \in [Caller -> {"idle", "query", "segments", "copy", "unlink",
                              "cleanup", "returned"}]
        /\ at \in [Caller -> Nat \ {0}] /\ taskInd \in [Caller -> Nat]
        /\ tempFiles \in [Caller -> SUBSET Paths]
        /\ result \in [Caller -> {"none", "ok", "error"}]
        /\ exists \subseteq Paths
        /\ data \in [Paths -> Seq(Piece)]
    BY DEF Shape
  <2>2. /\ request[c].fragments => Target(c) = Temp(Current(c))
        /\ ~request[c].fragments => Target(c) = Out(c)
        /\ Out(c) # Temp(Current(c)) /\ Segments[Current(c)] \in Nat \ {0}
    BY CurrentIs, PathsApart
  <2>3. CASE Download(c)
    <3>1. CASE request[c].fragments /\ Out(c) \in exists
      <4>1. /\ pc'[c] = "returned" /\ result'[c] = "error"
            /\ tempFiles' = tempFiles /\ ~Running(c)
        BY <2>1, <2>3, <3>1 DEF Download
      <4>2. QED
        BY <1>1, <1>2, <4>1, <1>4 DEF Stage, Running
    <3>2. CASE ~(request[c].fragments /\ Out(c) \in exists)
      <4>1. /\ pc'[c] = "query" /\ result'[c] = "none"
            /\ tempFiles' = tempFiles /\ ~Running(c)
            /\ request[c].fragments => Out(c) \in exists'
        BY <2>1, <2>3, <3>2 DEF Download
      <4>2. QED
        BY <1>1, <1>2, <4>1, <1>4 DEF Stage, Running
    <3>3. QED
      BY <3>1, <3>2
  <2>4. CASE QueryFile(c)
    <3>1. /\ pc[c] = "query" /\ at' = at /\ exists' = exists
          /\ request[c].fragments => tempFiles'[c] = tempFiles[c] \cup {Target(c)}
          /\ ~request[c].fragments => tempFiles' = tempFiles
      BY <2>1, <2>4 DEF QueryFile
    <3>2. Target(c)' = Target(c)
      BY <1>1, <3>1 DEF Target, Current, Roots
    <3>3. CASE pc'[c] = "segments" /\ taskInd'[c] = 0
      BY <1>1, <1>2, <1>4, <3>1, <3>2, <3>3 DEF Stage, Running
    <3>4. CASE result'[c] = "error"
               /\ pc'[c] = IF request[c].fragments THEN "cleanup" ELSE "returned"
      BY <1>1, <1>2, <1>4, <3>1, <3>2, <3>4 DEF Stage, Running
    <3>5. QED
      BY <2>1, <2>4, <3>3, <3>4 DEF QueryFile
  <2>5. CASE SegmentArrives(c)
    <3>1. /\ pc' = pc /\ at' = at /\ tempFiles' = tempFiles /\ result' = result
          /\ pc[c] = "segments" /\ exists' = exists \cup {Target(c)}
      BY <2>5 DEF SegmentArrives, Asking
    <3>2. Target(c)' = Target(c)
      BY <1>1, <3>1 DEF Target, Current, Roots
    <3>3. QED
      BY <1>1, <1>2, <1>4, <2>2, <3>1, <3>2 DEF Stage, Running
  <2>6. CASE NextNode(c)
    <3>1. /\ pc' = pc /\ at' = at /\ tempFiles' = tempFiles /\ result' = result
          /\ exists' = exists /\ taskInd' = taskInd
      BY <2>6 DEF NextNode
    <3>2. QED
      BY <1>1, <1>2, <1>4, <3>1 DEF Stage, Running, Target, Current, Roots
  <2>7. CASE SegmentFails(c)
    <3>1. /\ pc[c] = "segments" /\ tempFiles' = tempFiles
          /\ exists' = exists /\ result'[c] = "error"
          /\ pc'[c] = IF request[c].fragments THEN "cleanup" ELSE "returned"
      BY <2>1, <2>7 DEF SegmentFails, Asking
    <3>2. QED
      BY <1>1, <1>2, <1>4, <3>1 DEF Stage, Running
  <2>8. CASE FileEnds(c)
    <3>1. /\ pc[c] = "segments" /\ tempFiles' = tempFiles /\ at' = at
          /\ exists' = exists /\ taskInd' = taskInd
          /\ taskInd[c] = Segments[Current(c)]
          /\ pc'[c] = IF request[c].fragments THEN "copy" ELSE "returned"
      BY <2>1, <2>8 DEF FileEnds
    <3>2. QED
      BY <1>1, <1>2, <1>4, <2>2, <3>1 DEF Stage, Running, Target, Current, Roots
  <2>9. CASE CopyFragment(c)
    <3>1. /\ pc[c] = "copy" /\ tempFiles' = tempFiles /\ at' = at
          /\ exists' = exists
      BY <2>9 DEF CopyFragment
    <3>2. /\ request[c].fragments
          /\ pc'[c] \in {"unlink", "cleanup"}
      BY <1>2, <2>1, <2>9, <3>1 DEF CopyFragment, Stage
    <3>3. QED
      BY <1>1, <1>2, <1>4, <3>1, <3>2 DEF Stage, Running, Target, Current, Roots
  <2>10. CASE UnlinkFragment(c)
    <3>1. pc[c] = "unlink" /\ request[c].fragments /\ exists' = exists \ {Target(c)}
      BY <1>2, <2>10 DEF UnlinkFragment, Delete, Stage
    <3>2. pc'[c] \in {"query", "cleanup"}
      BY <2>1, <2>10, <3>1 DEF UnlinkFragment
    <3>3. QED
      BY <1>1, <1>2, <1>4, <2>2, <3>1, <3>2 DEF Stage, Running
  <2>11. CASE Cleanup(c)
    <3>1. /\ pc[c] = "cleanup" /\ pc'[c] = "returned" /\ tempFiles'[c] = {}
          /\ result' = result /\ exists' = exists \ tempFiles[c]
      BY <2>1, <2>11 DEF Cleanup, Delete
    <3>2. Out(c) \notin tempFiles[c]
      <4>1. tempFiles[c] \subseteq {Temp(r) : r \in Range(Roots(c))}
            /\ Roots(c) \in Seq(Root)
        BY CurrentIs DEF TypeOK
      <4>2. \A r \in Range(Roots(c)) : r \in Root
        BY <4>1, ElementOfSeq, LenProperties DEF Range
      <4>3. QED
        BY <4>1, <4>2, PathsApart
    <3>3. request[c].fragments /\ Out(c) \in exists
      BY <1>2, <3>1 DEF Stage, Running
    <3>4. QED
      BY <1>1, <1>2, <1>4, <3>1, <3>2, <3>3 DEF Stage, Running
  <2>12. CASE Crash(c)
    <3>1. pc'[c] = "idle" /\ tempFiles'[c] = {}
      BY <2>1, <2>12 DEF Crash
    <3>2. QED
      BY <1>1, <1>4, <3>1 DEF Stage, Running
  <2>13. CASE RemoveOutput(c)
    <3>1. /\ ~Running(c) /\ result[c] # "ok" /\ pc' = pc /\ result' = result
          /\ tempFiles' = tempFiles
      BY <2>13 DEF RemoveOutput
    <3>2. QED
      BY <1>1, <1>2, <1>4, <3>1 DEF Stage, Running
  <2>14. QED
    BY <2>3, <2>4, <2>5, <2>6, <2>7, <2>8, <2>9, <2>10, <2>11, <2>12, <2>13
       DEF Acts, Step
<1>5. QED
  BY <1>3, <1>4

----------------------------------------------------------------------------
(* A temporary file that is made is tracked; one no longer tracked is gone.*)
LEMMA TemporariesStep ==
    ASSUME Shape, TypeOK, Stages, TemporariesTracked, NEW c \in Caller, Acts(c)
    PROVE  TemporariesTracked'
<1> USE DEF disk, count, Return, Goto
<1> SUFFICES ASSUME crashes' = 0, NEW r \in Root, Temp(r) \in exists'
             PROVE  \E d \in Caller : Running(d)' /\ Temp(r) \in tempFiles'[d]
  BY DEF TemporariesTracked
<1>1. Stage(c) /\ Temp(r) # Out(c) /\ Temp(r) \in Paths
  BY PathsApart DEF Stages
<1>2. /\ pc \in [Caller -> {"idle", "query", "segments", "copy", "unlink",
                            "cleanup", "returned"}]
      /\ tempFiles \in [Caller -> SUBSET Paths]
      /\ data \in [Paths -> Seq(Piece)] /\ crashes \in Nat
  BY DEF Shape
<1>3. /\ request[c].fragments => Target(c) = Temp(Current(c))
      /\ ~request[c].fragments => Target(c) = Out(c)
  BY CurrentIs
(* The caller that acts still tracks what it tracked and is still there.   *)
<1> DEFINE Tracks == Running(c)' /\ Temp(r) \in tempFiles'[c]
           Tracked == Running(c) /\ Temp(r) \in tempFiles[c]
<1>4. crashes = 0 /\ (Temp(r) \in exists /\ Tracked => Tracks)
                  /\ (Temp(r) \notin exists => Tracks)
  <2>1. CASE Download(c)
    BY <1>1, <2>1 DEF Download, Stage
  <2>2. CASE QueryFile(c)
    <3>1. tempFiles[c] \subseteq tempFiles'[c] /\ exists' = exists /\ crashes' = crashes
      BY <1>2, <2>2 DEF QueryFile
    <3>2. request[c].fragments => Running(c)'
      BY <1>2, <2>2 DEF QueryFile, Running
    <3>3. QED
      BY <1>1, <3>1, <3>2 DEF Stage
  <2>3. CASE SegmentArrives(c)
    <3>1. /\ pc' = pc /\ tempFiles' = tempFiles /\ crashes' = crashes
          /\ pc[c] = "segments" /\ exists' = exists \cup {Target(c)}
      BY <2>3 DEF SegmentArrives, Asking
    <3>2. Target(c) = Temp(r) => Temp(r) \in tempFiles[c]
      BY <1>1, <1>3, <3>1 DEF Stage
    <3>3. QED
      BY <3>1, <3>2 DEF Running
  <2>4. CASE NextNode(c)
    BY <2>4 DEF NextNode, Running
  <2>5. CASE SegmentFails(c) \/ FileEnds(c) \/ CopyFragment(c)
    <3>1. tempFiles' = tempFiles /\ exists' = exists /\ crashes' = crashes
      BY <2>5 DEF SegmentFails, FileEnds, CopyFragment
    <3>2. request[c].fragments => Running(c)'
      BY <1>2, <2>5 DEF SegmentFails, FileEnds, CopyFragment, Running
    <3>3. QED
      BY <1>1, <3>1, <3>2 DEF Stage
  <2>6. CASE UnlinkFragment(c)
    <3>1. /\ exists' = exists \ {Target(c)} /\ crashes' = crashes
          /\ tempFiles[c] \ {Target(c)} \subseteq tempFiles'[c]
          /\ pc[c] = "unlink"
      BY <1>2, <2>6 DEF UnlinkFragment, Delete
    <3>2. request[c].fragments
      BY <1>1, <3>1 DEF Stage
    <3>3. Running(c)'
      BY <1>2, <2>6, <3>2 DEF UnlinkFragment, Running
    <3>4. QED
      BY <3>1, <3>3
  <2>7. CASE Cleanup(c)
    <3>1. exists' = exists \ tempFiles[c] /\ crashes' = crashes
      BY <2>7 DEF Cleanup, Delete
    <3>2. QED
      BY <3>1
  <2>8. CASE Crash(c)
    BY <1>2, <2>8 DEF Crash
  <2>9. CASE RemoveOutput(c)
    <3>1. /\ pc' = pc /\ tempFiles' = tempFiles /\ crashes' = crashes
          /\ exists' = exists \ {Out(c)}
      BY <2>9 DEF RemoveOutput, Delete
    <3>2. QED
      BY <3>1 DEF Running
  <2>10. QED
    BY <2>1, <2>2, <2>3, <2>4, <2>5, <2>6, <2>7, <2>8, <2>9 DEF Acts, Step
<1>5. CASE Temp(r) \notin exists
  BY <1>4, <1>5
<1>6. CASE Temp(r) \in exists
  <2>1. PICK d \in Caller : Running(d) /\ Temp(r) \in tempFiles[d]
    BY <1>4, <1>6 DEF TemporariesTracked
  <2>2. CASE d = c
    BY <1>4, <1>6, <2>1, <2>2
  <2>3. CASE d # c
    BY <2>1, <2>3, OthersStay DEF Same, Running
  <2>4. QED
    BY <2>2, <2>3
<1>7. QED
  BY <1>5, <1>6

----------------------------------------------------------------------------
(* A node is passed over only if it does not have the segment.             *)
LEMMA AskedStep ==
    ASSUME Shape, TypeOK, AskedInVain, NEW c \in Caller, Acts(c)
    PROVE  AskedInVain'
<1> USE DEF disk, count, Return, Goto
<1> SUFFICES ASSUME NEW d \in Caller, Asking(d)', NEW k \in 0 .. tried'[d] - 1
             PROVE  Passes(Turn(d, k), d)'
  BY DEF AskedInVain
<1>1. request' = request /\ config' = config /\ holds' = holds
  BY OthersStay
<1>2. /\ pc \in [Caller -> {"idle", "query", "segments", "copy", "unlink",
                            "cleanup", "returned"}]
      /\ taskInd \in [Caller -> Nat] /\ tried \in [Caller -> Nat]
  BY DEF Shape
(* What has been asked before stays as it was.                             *)
<1>3. ASSUME at'[d] = at[d], taskInd'[d] = taskInd[d], pc'[d] = pc[d],
             k \in 0 .. tried[d] - 1
      PROVE  Passes(Turn(d, k), d)'
  <2>1. Asking(d)
    BY <1>1, <1>3 DEF Asking, Current, Roots
  <2>2. Passes(Turn(d, k), d)
    BY <1>3, <2>1 DEF AskedInVain
  <2>3. QED
    BY <1>1, <1>3, <2>2 DEF Passes, Turn, Keeps, Has, Current, Roots
<1>4. CASE d # c
  BY <1>3, <1>4, OthersStay DEF Same
<1>5. CASE d = c
  <2>1. pc'[c] = "segments"
    BY <1>5 DEF Asking
  <2>2. CASE QueryFile(c)
    <3>1. tried'[c] = 0
      BY <1>2, <2>1, <2>2 DEF QueryFile
    <3>2. QED
      BY <1>5, <3>1
  <2>3. CASE SegmentArrives(c)
    <3>1. tried'[c] = 0
      BY <1>2, <2>3 DEF SegmentArrives
    <3>2. QED
      BY <1>5, <3>1
  <2>4. CASE NextNode(c)
    <3>1. /\ at' = at /\ taskInd' = taskInd /\ pc' = pc
          /\ tried'[c] = tried[c] + 1 /\ tried[c] \in Nat
          /\ Passes(AskedNode(c), c)
      BY <1>2, <2>4 DEF NextNode
    <3>2. CASE k \in 0 .. tried[c] - 1
      BY <1>3, <1>5, <3>1, <3>2
    <3>3. CASE k = tried[c]
      <4>1. Turn(c, k) = AskedNode(c)
        BY <3>3 DEF Turn, AskedNode
      <4>2. Passes(Turn(c, k), c)
        BY <3>1, <4>1
      <4>3. QED
        BY <1>1, <1>5, <3>1, <4>2 DEF Passes, Turn, Keeps, Has, Current, Roots
    <3>4. QED
      BY <1>5, <3>1, <3>2, <3>3
  <2>5. CASE RemoveOutput(c)
    BY <1>3, <1>5, <2>5 DEF RemoveOutput
  <2>6. CASE \/ Download(c) \/ SegmentFails(c) \/ FileEnds(c) \/ CopyFragment(c)
             \/ UnlinkFragment(c) \/ Cleanup(c) \/ Crash(c)
    <3>1. pc'[c] # "segments"
      BY <1>2, <2>6 DEF Download, SegmentFails, FileEnds, CopyFragment,
         UnlinkFragment, Cleanup, Crash
    <3>2. QED
      BY <2>1, <3>1
  <2>7. QED
    BY <2>2, <2>3, <2>4, <2>5, <2>6 DEF Acts, Step
<1>6. QED
  BY <1>4, <1>5

(* After as many turns as there are nodes each of them was passed over.    *)
LEMMA GivenUpOnlyIfMissing ==
    ASSUME Shape, TypeOK, AskedInVain PROVE GivenUpIsMissing
<1> SUFFICES ASSUME NEW c \in Caller, Asking(c), tried[c] = Len(nodes),
                    NEW n \in Range(nodes)
             PROVE  ~Has(n, c)
  BY DEF GivenUpIsMissing
<1>1. nodes \in Seq(Node) /\ Len(nodes) \in Nat \ {0}
  BY DownloaderAssumption, EmptySeq, LenProperties
<1>2. PICK i \in 1 .. Len(nodes) : n = nodes[i]
  BY <1>1, LenProperties DEF Range
<1>3. taskInd[c] \in Nat /\ i - 1 \in 0 .. Len(nodes) - 1
  BY <1>1 DEF Shape
<1>4. PICK k \in 0 .. Len(nodes) - 1 : (taskInd[c] + k) % Len(nodes) = i - 1
  <2> DEFINE m == Len(nodes)
             t == taskInd[c]
             j == i - 1
  <2>1. t \in Nat /\ m \in Nat \ {0} /\ j \in 0 .. m - 1
    BY <1>1, <1>3
  <2> HIDE DEF m, t, j
  <2>2. \E k \in 0 .. m - 1 : (t + k) % m = j
    BY <2>1, TurnsReachAll
  <2>3. QED
    BY <2>2 DEF m, t, j
<1>5. Turn(c, k) = n
  <2>1. 1 + (i - 1) = i
    OBVIOUS
  <2>2. QED
    BY <1>2, <1>4, <2>1 DEF Turn
<1>6. Passes(n, c)
  BY <1>5 DEF AskedInVain
<1>7. QED
  BY <1>6 DEF Passes, Keeps, Has

(* A caller that begins to share temporary files is marked.                *)
LEMMA SharingStep ==
    ASSUME Shape, TypeOK, SharingIsMarked, NEW c \in Caller, Acts(c)
    PROVE  SharingIsMarked'
<1> USE DEF disk, count, Return, Goto
<1> SUFFICES ASSUME NEW d \in Caller, Running(d)', d \notin overlapped'
             PROVE  Sharing(d)' = {}
  BY DEF SharingIsMarked
<1>1. request' = request
  BY OthersStay
<1>2. pc \in [Caller -> {"idle", "query", "segments", "copy", "unlink",
                         "cleanup", "returned"}]
  BY DEF Shape
<1>3. CASE Download(c) /\ ~(request[c].fragments /\ Out(c) \in exists)
  <2>1. /\ ~Running(c) /\ pc' = [pc EXCEPT ![c] = "query"]
        /\ overlapped' = IF Sharing(c) = {} THEN overlapped \ {c}
                         ELSE overlapped \cup {c} \cup Sharing(c)
    BY <1>3 DEF Download
  <2>2. CASE d = c
    <3>1. Sharing(c) = {}
      BY <2>1, <2>2
    <3>2. \A e \in Caller \ {c} : pc'[e] = pc[e]
      BY <1>2, <2>1
    <3>3. QED
      BY <1>1, <2>2, <3>1, <3>2 DEF Sharing, Running, Roots
  <2>3. CASE d # c
    <3>1. d \notin overlapped /\ d \notin Sharing(c) /\ pc'[d] = pc[d]
      BY <1>2, <2>1, <2>3
    <3>2. Running(d) /\ Sharing(d) = {}
      BY <3>1 DEF SharingIsMarked, Running
    <3>3. ~(/\ request[d].fragments /\ request[c].fragments
            /\ Range(Roots(d)) \cap Range(Roots(c)) # {})
      BY <2>3, <3>1, <3>2 DEF Sharing
    <3>4. \A e \in Caller \ {c} : pc'[e] = pc[e]
      BY <1>2, <2>1
    <3>5. QED
      BY <1>1, <3>2, <3>3, <3>4 DEF Sharing, Running, Roots
  <2>4. QED
    BY <2>2, <2>3
<1>4. CASE ~Download(c) \/ (request[c].fragments /\ Out(c) \in exists)
  <2>1. overlapped' = overlapped /\ (Running(c)' => Running(c))
    <3>1. CASE Download(c)
      BY <1>2, <1>4, <3>1 DEF Download, Running
    <3>2. CASE Step(c)
      <4>1. Running(c)
        BY <3>2 DEF Step, QueryFile, SegmentArrives, NextNode, SegmentFails,
           FileEnds, CopyFragment, UnlinkFragment, Cleanup, Asking, Running
      <4>2. overlapped' = overlapped
        BY <3>2 DEF Step, QueryFile, SegmentArrives, NextNode, SegmentFails,
           FileEnds, CopyFragment, UnlinkFragment, Cleanup
      <4>3. QED
        BY <4>1, <4>2
    <3>3. CASE Crash(c) \/ RemoveOutput(c)
      BY <1>2, <3>3 DEF Crash, RemoveOutput, Running
    <3>4. QED
      BY <3>1, <3>2, <3>3 DEF Acts
  <2>2. \A e \in Caller : Running(e)' => Running(e)
    BY <2>1, OthersStay DEF Same, Running
  <2>3. Sharing(d) = {}
    BY <2>1, <2>2 DEF SharingIsMarked
  <2>4. QED
    BY <1>1, <2>2, <2>3 DEF Sharing, Roots
<1>5. QED
  BY <1>3, <1>4

----------------------------------------------------------------------------
(* The whole file is its first segments, of which it has some.             *)
LEMMA WholeIs ==
    ASSUME NEW r \in Root
    PROVE  /\ Whole(r) \in Seq(Piece) /\ Whole(r) # << >>
           /\ Part(r, 0) = << >> /\ Part(r, Segments[r]) = Whole(r)
<1>1. Segments[r] \in Nat \ {0}
  BY DownloaderAssumption
<1>2. ASSUME NEW k \in 1 .. Segments[r]
      PROVE  [root |-> r, segment |-> k, cut |-> k = Segments[r]] \in Piece
  <2>1. (k = Segments[r]) \in BOOLEAN /\ k \in Nat
    BY <1>1
  <2>2. QED
    BY <2>1 DEF Piece
<1>3. Whole(r) \in Seq(Piece) /\ Len(Whole(r)) = Segments[r]
  BY <1>1, <1>2 DEF Whole
<1>4. Whole(r) # << >>
  BY <1>1, <1>3, EmptySeq
<1>5. Part(r, Segments[r]) = Whole(r)
  BY DEF Part, Whole
<1>6. Part(r, 0) = << >>
  BY DEF Part
<1>7. QED
  BY <1>3, <1>4, <1>5, <1>6

(* One segment more.                                                       *)
LEMMA PartGrows ==
    ASSUME NEW r \in Root, NEW k \in Nat, k < Segments[r]
    PROVE  Append(Part(r, k), [root |-> r, segment |-> k + 1,
                               cut |-> k + 1 = Segments[r]])
               = Part(r, k + 1)
<1> DEFINE e == [root |-> r, segment |-> k + 1, cut |-> k + 1 = Segments[r]]
           w == Whole(r)
<1>1. Segments[r] \in Nat \ {0}
  BY DownloaderAssumption
<1>2. w[k + 1] = e
  BY <1>1 DEF Whole
<1>3. w \in Seq(Piece) /\ \A i \in 1 .. k + 1 : w[i] \in Piece
  <2>1. w \in Seq(Piece) /\ Len(w) = Segments[r]
    BY <1>1, WholeIs DEF Whole
  <2> HIDE DEF w
  <2>2. QED
    BY <1>1, <2>1, ElementOfSeq
<1> HIDE DEF e, w
<1>4. Part(r, k) = [i \in 1 .. k |-> w[i]] /\ Part(r, k + 1) = [i \in 1 .. k + 1 |-> w[i]]
  BY DEF Part, w
<1>5. Part(r, k) \in Seq(Piece) /\ Len(Part(r, k)) = k
      /\ Part(r, k + 1) \in Seq(Piece) /\ Len(Part(r, k + 1)) = k + 1
  BY <1>3, <1>4
<1> DEFINE longer == Append(Part(r, k), e)
<1>6. /\ longer \in Seq(Piece) /\ Len(longer) = k + 1
      /\ \A i \in 1 .. k : longer[i] = Part(r, k)[i]
      /\ longer[k + 1] = e
  BY <1>2, <1>3, <1>5, AppendProperties
<1> HIDE DEF longer
<1>7. \A i \in 1 .. k + 1 : longer[i] = Part(r, k + 1)[i]
  BY <1>2, <1>4, <1>6
<1>8. longer = Part(r, k + 1)
  BY <1>5, <1>6, <1>7, SeqEqual
<1>9. QED
  BY <1>8 DEF longer, e

(* No files are nothing.                                                   *)
LEMMA FilesNone == \A c : Files(c, 0) = << >>
<1> SUFFICES ASSUME NEW c PROVE Files(c, 0) = << >>
  OBVIOUS
<1>1. [i \in 1 .. 0 |-> Whole(Roots(c)[i])] = << >>
  OBVIOUS
<1>2. QED
  BY <1>1, FlattenNone DEF Files

(* One file more.                                                          *)
LEMMA FilesGrow ==
    ASSUME Shape, NEW c \in Caller, NEW k \in 1 .. Len(Roots(c))
    PROVE  Files(c, k) = Files(c, k - 1) \o Whole(Roots(c)[k])
<1>1. Roots(c) \in Seq(Root) /\ Len(Roots(c)) \in Nat
  BY LenProperties DEF Shape, Roots
<1>2. \A i \in 1 .. Len(Roots(c)) : Whole(Roots(c)[i]) \in Seq(Piece)
  BY <1>1, ElementOfSeq, WholeIs
<1> DEFINE w(i) == Whole(Roots(c)[i])
           q == [i \in 1 .. k |-> w(i)]
           p == [i \in 1 .. k - 1 |-> w(i)]
<1>3. Files(c, k) = FlattenSeq(q) /\ Files(c, k - 1) = FlattenSeq(p)
  BY DEF Files
<1>4. \A i \in 1 .. k : w(i) \in Seq(Piece)
  BY <1>1, <1>2
<1> HIDE DEF w
<1>5. q \in Seq(Seq(Piece)) /\ Len(q) = k /\ q[k] = w(k)
  BY <1>1, <1>4
<1>6. p \in Seq(Seq(Piece)) /\ Len(p) = k - 1
  BY <1>1, <1>4
<1>7. CASE k = 1
  <2>1. FlattenSeq(q) = q[1]
    <3> HIDE DEF q
    <3>1. QED
      BY <1>5, <1>7, FlattenOne
  <2>2. Files(c, k - 1) = << >>
    BY <1>7, FilesNone
  <2>3. w(k) \in Seq(Piece)
    BY <1>1, <1>4
  <2>4. << >> \o w(k) = w(k)
    BY <2>3
  <2>5. QED
    BY <1>3, <1>5, <1>7, <2>1, <2>2, <2>4 DEF w
<1>8. CASE k # 1
  <2>1. \A i \in 1 .. Len(p) : q[i] = p[i]
    BY <1>1, <1>6
  <2>2. p # << >>
    BY <1>6, <1>8, EmptySeq
  <2>3. Len(q) = Len(p) + 1
    BY <1>5, <1>6
  <2> HIDE DEF p, q
  <2>4. FlattenSeq(q) = FlattenSeq(p) \o q[Len(q)]
    BY <1>5, <1>6, <2>1, <2>2, <2>3, FlattenGrows
  <2>5. QED
    BY <1>3, <1>5, <2>4 DEF w
<1>9. QED
  BY <1>7, <1>8

----------------------------------------------------------------------------
(* A step of one caller leaves what another, unmarked one has written.     *)
LEMMA WrittenByOthers ==
    ASSUME Shape, TypeOK, Stages, SharingIsMarked, WrittenSoFar,
           NEW c \in Caller, Acts(c), NEW d \in Caller, d # c, d \notin overlapped'
    PROVE  Written(d)'
<1>1. request' = request /\ Same(d)
  BY OthersStay
<1>2. d \notin overlapped
  <2>1. CASE Download(c)
    BY <2>1 DEF Download
  <2>2. CASE Step(c) \/ Crash(c) \/ RemoveOutput(c)
    BY <2>2 DEF Step, QueryFile, SegmentArrives, NextNode, SegmentFails,
       FileEnds, CopyFragment, UnlinkFragment, Cleanup, Crash, RemoveOutput, count
  <2>3. QED
    BY <2>1, <2>2 DEF Acts
<1>3. Written(d)
  BY <1>2 DEF WrittenSoFar
<1>4. data'[Out(d)] = data[Out(d)]
  BY OutputsOfOthers
<1>5. pc[d] \in {"segments", "copy"} => data'[Target(d)] = data[Target(d)]
  <2> SUFFICES ASSUME pc[d] \in {"segments", "copy"}
               PROVE  data'[Target(d)] = data[Target(d)]
    OBVIOUS
  <2>1. CASE ~request[d].fragments
    BY <1>4, <2>1, CurrentIs
  <2>2. CASE request[d].fragments
    <3>1. Sharing(d) = {}
      BY <1>2 DEF SharingIsMarked, Running
    <3>2. /\ Target(d) = Temp(Current(d)) /\ Target(d) \in Paths
          /\ Current(d) \in Root /\ Current(d) \in Range(Roots(d))
      BY <2>2, CurrentIs
    <3>3. \A r \in Range(Roots(c)) : r \in Root
      <4>1. Roots(c) \in Seq(Root)
        BY CurrentIs
      <4>2. QED
        BY <4>1, ElementOfSeq, LenProperties DEF Range
    <3>4. request[c].fragments /\ Running(c) => Current(d) \notin Range(Roots(c))
      BY <2>2, <3>1, <3>2 DEF Sharing
    <3>5. ~(request[c].fragments /\ Running(c)
              /\ \E r \in Range(Roots(c)) : Target(d) = Temp(r))
      BY <3>2, <3>3, <3>4, PathsApart
    <3>6. Target(d) # Out(c)
      BY <3>2, PathsApart
    <3>7. QED
      BY <3>2, <3>5, <3>6, Writes
  <2>3. QED
    BY <2>1, <2>2
<1>6. /\ Roots(d)' = Roots(d) /\ Current(d)' = Current(d) /\ Target(d)' = Target(d)
      /\ \A k : Files(d, k)' = Files(d, k)
  BY <1>1 DEF Same, Roots, Current, Target, Files
<1>7. QED
  BY <1>1, <1>3, <1>4, <1>5, <1>6 DEF Written, Same

(* What a caller writes itself is what comes next.                         *)
LEMMA WrittenByCaller ==
    ASSUME Shape, TypeOK, Stages, WrittenSoFar,
           NEW c \in Caller, Acts(c), c \notin overlapped'
    PROVE  Written(c)'
<1> USE DEF disk, count, Return, Goto
<1>1. request' = request /\ Roots(c)' = Roots(c) /\ \A k : Files(c, k)' = Files(c, k)
  BY OthersStay DEF Roots, Files
<1>2. /\ pc \in [Caller -> {"idle", "query", "segments", "copy", "unlink",
                            "cleanup", "returned"}]
      /\ at \in [Caller -> Nat \ {0}] /\ taskInd \in [Caller -> Nat]
      /\ result \in [Caller -> {"none", "ok", "error"}]
      /\ data \in [Paths -> Seq(Piece)]
  BY DEF Shape
<1>3. /\ Len(Roots(c)) \in Nat \ {0} /\ at[c] \in 1 .. Len(Roots(c))
      /\ Current(c) \in Root /\ Segments[Current(c)] \in Nat \ {0}
      /\ Target(c) \in Paths /\ Out(c) \in Paths
      /\ request[c].fragments => Target(c) # Out(c)
      /\ ~request[c].fragments => Target(c) = Out(c)
  BY CurrentIs, PathsApart
<1>4. Stage(c) /\ (c \notin overlapped => Written(c))
  BY DEF Stages, WrittenSoFar
<1>5. CASE Download(c)
  <2>1. CASE request[c].fragments /\ Out(c) \in exists
    <3>1. pc'[c] = "returned" /\ result'[c] = "error"
      BY <1>2, <1>5, <2>1 DEF Download
    <3>2. QED
      BY <3>1 DEF Written
  <2>2. CASE ~(request[c].fragments /\ Out(c) \in exists)
    <3>1. pc'[c] = "query" /\ at'[c] = 1 /\ data' = data
      BY <1>2, <1>5, <2>2 DEF Download
    <3>2. request[c].fragments => data[Out(c)] = << >>
      BY <1>3, <2>2 DEF TypeOK
    <3>3. Files(c, at'[c] - 1) = << >>
      BY <3>1, FilesNone
    <3>4. QED
      BY <1>1, <3>1, <3>2, <3>3 DEF Written
  <2>3. QED
    BY <2>1, <2>2
<1> SUFFICES ASSUME Step(c) \/ Crash(c) \/ RemoveOutput(c)
             PROVE  Written(c)'
  BY <1>5 DEF Acts
<1>6. Written(c)
  <2>1. overlapped' = overlapped
    BY DEF Step, QueryFile, SegmentArrives, NextNode, SegmentFails, FileEnds,
       CopyFragment, UnlinkFragment, Cleanup, Crash, RemoveOutput
  <2>2. QED
    BY <1>4, <2>1
<1>7. CASE QueryFile(c)
  <2>1. pc[c] = "query" /\ at' = at /\ data' = data
    BY <1>7 DEF QueryFile
  <2>2. Target(c)' = Target(c) /\ Current(c)' = Current(c)
    BY <1>1, <2>1 DEF Target, Current
  <2>3. CASE pc'[c] = "segments" /\ taskInd'[c] = 0 /\ Target(c) \notin exists
    <3>1. data[Target(c)] = << >>
      BY <1>3, <2>3 DEF TypeOK
    <3>2. QED
      BY <1>1, <1>3, <1>6, <2>1, <2>2, <2>3, <3>1, WholeIs DEF Written
  <2>4. CASE result'[c] = "error" /\ pc'[c] \in {"cleanup", "returned"}
    BY <2>4 DEF Written
  <2>5. QED
    BY <1>2, <1>7, <2>3, <2>4 DEF QueryFile
<1>8. CASE SegmentArrives(c)
  <2>1. /\ pc' = pc /\ pc[c] = "segments" /\ at' = at
        /\ taskInd'[c] = taskInd[c] + 1 /\ taskInd[c] < Segments[Current(c)]
        /\ data' = [data EXCEPT ![Target(c)] = Append(@, Fetched(c))]
    BY <1>2, <1>8 DEF SegmentArrives, Asking
  <2>2. Target(c)' = Target(c) /\ Current(c)' = Current(c)
    BY <1>1, <2>1 DEF Target, Current
  <2>3. data'[Target(c)] = Append(data[Target(c)], Fetched(c))
    BY <1>2, <1>3, <2>1
  <2>4. data[Target(c)] = Part(Current(c), taskInd[c])
    BY <1>6, <2>1 DEF Written
  <2>5. data'[Target(c)] = Part(Current(c), taskInd[c] + 1)
    <3>1. taskInd[c] \in Nat
      BY <1>2
    <3>2. Append(Part(Current(c), taskInd[c]), Fetched(c))
              = Part(Current(c), taskInd[c] + 1)
      BY <1>3, <2>1, <3>1, PartGrows DEF Fetched
    <3>3. QED
      BY <2>3, <2>4, <3>2
  <2>6. request[c].fragments => data'[Out(c)] = data[Out(c)]
    BY <1>2, <1>3, <2>1
  <2>7. QED
    BY <1>1, <1>6, <2>1, <2>2, <2>5, <2>6 DEF Written
<1>9. CASE NextNode(c)
  <2>1. /\ pc' = pc /\ at' = at /\ taskInd' = taskInd /\ data' = data
        /\ result' = result
    BY <1>9 DEF NextNode
  <2>2. Target(c)' = Target(c) /\ Current(c)' = Current(c)
    BY <1>1, <2>1 DEF Target, Current
  <2>3. QED
    BY <1>1, <1>6, <2>1, <2>2 DEF Written
<1>10. CASE SegmentFails(c)
  <2>1. pc'[c] \in {"cleanup", "returned"} /\ result'[c] = "error"
    BY <1>2, <1>10 DEF SegmentFails
  <2>2. QED
    BY <2>1 DEF Written
<1>11. CASE FileEnds(c)
  <2>1. /\ pc[c] = "segments" /\ taskInd[c] = Segments[Current(c)]
        /\ data' = data /\ at' = at
    BY <1>11 DEF FileEnds
  <2>2. Target(c)' = Target(c) /\ Current(c)' = Current(c)
    BY <1>1, <2>1 DEF Target, Current
  <2>3. data[Target(c)] = Whole(Current(c))
    BY <1>3, <1>6, <2>1, WholeIs DEF Written
  <2>4. CASE request[c].fragments
    <3>1. pc'[c] = "copy"
      BY <1>2, <1>11, <2>4 DEF FileEnds
    <3>2. QED
      BY <1>1, <1>6, <2>1, <2>2, <2>3, <3>1 DEF Written
  <2>5. CASE ~request[c].fragments
    <3>1. pc'[c] = "returned"
      BY <1>2, <1>11, <2>5 DEF FileEnds
    <3>2. Len(Roots(c)) = 1 /\ at[c] = 1
      <4>1. Len(Roots(c)) = 1
        BY <2>5 DEF Shape
      <4>2. QED
        BY <1>3, <4>1
    <3>3. Files(c, 1) = Files(c, 0) \o Whole(Roots(c)[1])
      <4>1. 1 \in 1 .. Len(Roots(c)) /\ 1 - 1 = 0
        BY <3>2
      <4>2. QED
        BY <4>1, FilesGrow
    <3>4. << >> \o Whole(Current(c)) = Whole(Current(c))
      <4>1. Whole(Current(c)) \in Seq(Piece)
        BY <1>3, WholeIs
      <4>2. QED
        BY <4>1
    <3>5. Files(c, Len(Roots(c))) = Whole(Current(c))
      BY <3>2, <3>3, <3>4, FilesNone DEF Current
    <3>6. QED
      BY <1>1, <1>3, <2>1, <2>3, <2>5, <3>1, <3>5 DEF Written
  <2>6. QED
    BY <2>4, <2>5
<1>12. CASE CopyFragment(c)
  <2>1. pc[c] = "copy" /\ at' = at /\ request[c].fragments
    BY <1>4, <1>12 DEF CopyFragment, Stage
  <2>2. CASE Target(c) \in exists
    <3>1. pc'[c] = "unlink" /\ data'[Out(c)] = data[Out(c)] \o data[Target(c)]
      BY <1>2, <1>3, <1>12, <2>2 DEF CopyFragment
    <3>2. Files(c, at[c]) = Files(c, at[c] - 1) \o Whole(Current(c))
      BY <1>3, FilesGrow DEF Current
    <3>3. QED
      BY <1>1, <1>6, <2>1, <3>1, <3>2 DEF Written
  <2>3. CASE Target(c) \notin exists
    <3>1. pc'[c] = "cleanup" /\ result'[c] = "error"
      BY <1>2, <1>12, <2>1, <2>3 DEF CopyFragment
    <3>2. QED
      BY <3>1 DEF Written
  <2>4. QED
    BY <2>2, <2>3
<1>13. CASE UnlinkFragment(c)
  <2>1. pc[c] = "unlink" /\ request[c].fragments /\ Delete({Target(c)})
    BY <1>4, <1>13 DEF UnlinkFragment, Stage
  <2>2. data'[Out(c)] = data[Out(c)]
    BY <1>2, <1>3, <2>1, DeleteKeeps
  <2>3. data[Out(c)] = Files(c, at[c])
    BY <1>6, <2>1 DEF Written
  <2>4. CASE at[c] = Len(Roots(c))
    <3>1. pc'[c] = "cleanup"
      BY <1>2, <1>13, <2>1, <2>4 DEF UnlinkFragment
    <3>2. QED
      BY <1>1, <2>2, <2>3, <2>4, <3>1 DEF Written
  <2>5. CASE at[c] # Len(Roots(c))
    <3>1. pc'[c] = "query" /\ at'[c] = at[c] + 1
      BY <1>2, <1>13, <2>5 DEF UnlinkFragment
    <3>2. at'[c] - 1 = at[c]
      BY <1>2, <3>1
    <3>3. QED
      BY <1>1, <2>2, <2>3, <3>1, <3>2 DEF Written
  <2>6. QED
    BY <2>4, <2>5
<1>14. CASE Cleanup(c)
  <2>1. /\ pc[c] = "cleanup" /\ pc'[c] = "returned" /\ result' = result
        /\ Delete(tempFiles[c])
    BY <1>2, <1>14 DEF Cleanup
  <2>2. Out(c) \notin tempFiles[c]
    <3>1. tempFiles[c] \subseteq {Temp(r) : r \in Range(Roots(c))}
          /\ Roots(c) \in Seq(Root)
      BY CurrentIs DEF TypeOK
    <3>2. \A r \in Range(Roots(c)) : r \in Root
      BY <3>1, ElementOfSeq, LenProperties DEF Range
    <3>3. QED
      BY <3>1, <3>2, PathsApart
  <2>3. data'[Out(c)] = data[Out(c)]
    BY <1>2, <1>3, <2>1, <2>2, DeleteKeeps
  <2>4. QED
    BY <1>1, <1>6, <2>1, <2>3 DEF Written
<1>15. CASE Crash(c)
  <2>1. pc'[c] = "idle"
    BY <1>2, <1>15 DEF Crash
  <2>2. QED
    BY <2>1 DEF Written
<1>16. CASE RemoveOutput(c)
  <2>1. pc' = pc /\ result' = result /\ ~Running(c) /\ result[c] # "ok"
    BY <1>16 DEF RemoveOutput
  <2>2. QED
    BY <2>1 DEF Written, Running
<1>17. QED
  BY <1>7, <1>8, <1>9, <1>10, <1>11, <1>12, <1>13, <1>14, <1>15, <1>16 DEF Step

(* What each call has written is in order after each step.                 *)
LEMMA WrittenStep ==
    ASSUME Shape, TypeOK, Stages, SharingIsMarked, WrittenSoFar,
           NEW c \in Caller, Acts(c)
    PROVE  WrittenSoFar'
<1> SUFFICES ASSUME NEW d \in Caller, d \notin overlapped' PROVE Written(d)'
  BY DEF WrittenSoFar
<1>1. CASE d = c
  BY <1>1, WrittenByCaller
<1>2. CASE d # c
  BY <1>2, WrittenByOthers
<1>3. QED
  BY <1>1, <1>2

----------------------------------------------------------------------------
(* The invariant holds at first.                                           *)
LEMMA InitInvariant == ASSUME Init PROVE IInv
<1>1. /\ request \in [Caller -> [roots : Seq(Root) \ {<< >>}, fragments : BOOLEAN]]
      /\ \A c \in Caller : ~request[c].fragments => Len(Roots(c)) = 1
  <2>1. \A c \in Caller :
            /\ request[c] \in [roots : Seq(Root) \ {<< >>}, fragments : BOOLEAN]
            /\ ~request[c].fragments => Len(request[c].roots) = 1
    BY DownloaderAssumption DEF Init
  <2>2. request = [c \in Caller |-> request[c]]
    BY DEF Init
  <2>3. QED
    BY <2>1, <2>2 DEF Roots
<1>2. data = [p \in Paths |-> << >>] /\ << >> \in Seq(Piece)
  BY EmptySeq DEF Init
<1>3. Shape
  BY <1>1, <1>2 DEF Init, Shape
<1>4. TypeOK
  <2>1. ASSUME NEW c \in Caller
        PROVE  /\ at[c] \in 1 .. Len(Roots(c)) /\ Current(c) \in Root
               /\ Segments[Current(c)] \in Nat \ {0}
    <3>1. Roots(c) \in Seq(Root) /\ Roots(c) # << >>
      BY <1>1 DEF Roots
    <3>2. at[c] = 1 /\ 1 \in 1 .. Len(Roots(c))
      BY <3>1, EmptySeq, LenProperties DEF Init
    <3>3. Roots(c)[1] \in Root
      BY <3>1, <3>2, ElementOfSeq
    <3>4. QED
      BY <3>2, <3>3, DownloaderAssumption DEF Current
  <2>2. Len(nodes) \in Nat /\ \A c \in Caller : MaxCalls[c] \in Nat
    BY DownloaderAssumption, LenProperties
  <2>3. QED
    BY <1>2, <2>1, <2>2, DownloaderAssumption DEF Init, TypeOK
<1>5. Stages
  BY DEF Init, Stages, Stage, Running
<1>6. TemporariesTracked
  BY DEF Init, TemporariesTracked
<1>7. AskedInVain
  BY DEF Init, AskedInVain, Asking
<1>8. SharingIsMarked
  BY DEF Init, SharingIsMarked, Running
<1>9. WrittenSoFar
  BY DEF Init, WrittenSoFar, Written
<1>10. QED
  BY <1>3, <1>4, <1>5, <1>6, <1>7, <1>8, <1>9 DEF IInv

(* Every step keeps the invariant.                                         *)
LEMMA StepInvariant == ASSUME IInv, [Next]_vars PROVE IInv'
<1>1. CASE UNCHANGED vars
  <2>1. /\ request' = request /\ config' = config /\ holds' = holds
        /\ exists' = exists /\ data' = data /\ pc' = pc /\ at' = at
        /\ taskInd' = taskInd /\ tried' = tried /\ tempFiles' = tempFiles
        /\ result' = result /\ calls' = calls /\ crashes' = crashes
        /\ overlapped' = overlapped
    BY <1>1 DEF vars, network, disk, count
  <2>2. ASSUME NEW c \in Caller
        PROVE  /\ Roots(c)' = Roots(c) /\ Current(c)' = Current(c)
               /\ Target(c)' = Target(c) /\ (Running(c)' <=> Running(c))
               /\ \A k : Files(c, k)' = Files(c, k)
    BY <2>1 DEF Roots, Current, Target, Running, Files
  <2>3. Shape' /\ TypeOK'
    BY <2>1, <2>2 DEF IInv, Shape, TypeOK
  <2>4. Stages' /\ TemporariesTracked'
    BY <2>1, <2>2 DEF IInv, Stages, Stage, TemporariesTracked
  <2>5. AskedInVain'
    BY <2>1, <2>2 DEF IInv, AskedInVain, Asking, Passes, Turn, Keeps, Has
  <2>6. SharingIsMarked'
    BY <2>1, <2>2 DEF IInv, SharingIsMarked, Sharing
  <2>7. WrittenSoFar'
    BY <2>1, <2>2 DEF IInv, WrittenSoFar, Written
  <2>8. QED
    BY <2>3, <2>4, <2>5, <2>6, <2>7 DEF IInv
<1>2. ASSUME NEW c \in Caller, Acts(c) PROVE IInv'
  <2>1. Shape'
    BY <1>2, ShapeStep DEF IInv
  <2>2. TypeOK'
    BY <1>2, <2>1, TypeStep DEF IInv
  <2>3. Stages'
    BY <1>2, <2>1, StageStep DEF IInv
  <2>4. TemporariesTracked'
    BY <1>2, TemporariesStep DEF IInv
  <2>5. AskedInVain'
    BY <1>2, AskedStep DEF IInv
  <2>6. SharingIsMarked'
    BY <1>2, SharingStep DEF IInv
  <2>7. WrittenSoFar'
    BY <1>2, WrittenStep DEF IInv
  <2>8. QED
    BY <2>1, <2>2, <2>3, <2>4, <2>5, <2>6, <2>7 DEF IInv
<1>3. QED
  BY <1>1, <1>2 DEF Next, Acts

(* The inductive invariant holds in every state of every behaviour.        *)
THEOREM Invariance == Spec => []IInv
<1>1. Init => IInv
  BY InitInvariant
<1>2. IInv /\ [Next]_vars => IInv'
  BY StepInvariant
<1>3. QED
  BY <1>1, <1>2, PTL DEF Spec

(* The state has its types, and no call is ever beyond its roots, its      *)
(* segments or the nodes; what is not on the disk has no contents.         *)
THEOREM TypeCorrect == Spec => []TypeOK
<1>1. IInv => TypeOK
  BY DEF IInv
<1>2. QED
  BY Invariance, <1>1, PTL

(* download_fragments returning without an error leaves, whatever crashes  *)
(* and earlier calls left behind, the files of its roots in their order,   *)
(* unless two calls used the same temporary files at once.                 *)
THEOREM SuccessLeavesWholeFiles == Spec => []SuccessIsWhole
<1>1. ASSUME IInv PROVE SuccessIsWhole
  <2> SUFFICES ASSUME NEW c \in Caller, pc[c] = "returned", result[c] = "ok",
                      c \notin overlapped
               PROVE  /\ Out(c) \in exists
                      /\ data[Out(c)] = FlattenSeq(
                             [k \in DOMAIN Roots(c) |-> Whole(Roots(c)[k])])
    BY DEF SuccessIsWhole
  <2>1. Stage(c) /\ Written(c)
    BY <1>1 DEF IInv, Stages, WrittenSoFar
  <2>2. DOMAIN Roots(c) = 1 .. Len(Roots(c))
    BY <1>1, CurrentIs, LenProperties DEF IInv
  <2>3. QED
    BY <2>1, <2>2 DEF Stage, Written, Files
<1>2. QED
  BY Invariance, <1>1, PTL

(* The finally clause of download_fragments leaves no temporary file, as   *)
(* long as every process lives until its call returns.                     *)
THEOREM TemporariesAreCleanedUp == Spec => []NoTemporaryLeft
<1>1. ASSUME IInv PROVE NoTemporaryLeft
  BY <1>1 DEF IInv, TemporariesTracked, NoTemporaryLeft
<1>2. QED
  BY Invariance, <1>1, PTL

(* download_task gives a segment up only when each node of the downloader  *)
(* was asked or keeps another shard: the rotation of the nodes reaches all *)
(* of them, for every number of nodes and every start.                     *)
THEOREM GivenUpOnlyIfNoneHasIt == Spec => []GivenUpIsMissing
<1>1. IInv => GivenUpIsMissing
  BY GivenUpOnlyIfMissing DEF IInv
<1>2. QED
  BY Invariance, <1>1, PTL

=============================================================================
