--------------------------- MODULE SequenceLemmas ---------------------------
(***************************************************************************)
(* Lemmas about numbers and sequences that the proofs about the storage    *)
(* SDK's models share.  What FlattenSeq computes is shown without an       *)
(* induction rule: of the lengths at which a claim fails there would be a  *)
(* least, and the function that FlattenSeq recurs on takes that one step.  *)
(***************************************************************************)
EXTENDS Integers, SequencesExt, SequenceTheorems, WellFoundedInduction, TLAPS

----------------------------------------------------------------------------
(* Every set of naturals has a least element.                              *)
LEMMA LeastBy ==
    ASSUME NEW R, NEW S \in SUBSET Nat, S # {}, IsWellFoundedOn(R, Nat),
           \A x, y \in Nat : y < x => <<y, x>> \in R
    PROVE  \E n \in S : \A m \in S : n <= m
<1>1. \E x \in S : \A y \in S : ~(<<y, x>> \in R)
  BY WFMin
<1>2. PICK x \in S : \A y \in S : ~(<<y, x>> \in R)
  BY <1>1
<1>3. \A m \in S : m \in Nat /\ x \in Nat /\ ~(m < x)
  BY <1>2, Zenon
<1>4. \A m \in S : x <= m
  BY <1>3
<1>5. QED
  BY <1>4

(* The same for the numbers themselves.                                    *)
LEMMA Least ==
    ASSUME NEW S \in SUBSET Nat, S # {}
    PROVE  \E n \in S : \A m \in S : n <= m
<1>1. \A x, y \in Nat : y < x => <<y, x>> \in OpToRel(<, Nat)
  BY Zenon DEF OpToRel
<1>2. QED
  BY LeastBy, <1>1, NatLessThanWellFounded, Zenon

----------------------------------------------------------------------------
(* Quotients and remainders.                                               *)
LEMMA ModRange ==
    \A x \in Nat, n \in Nat \ {0} :
        x % n \in 0 .. n - 1 /\ x \div n \in Nat /\ x = n * (x \div n) + (x % n)
  OBVIOUS

(* A multiple is no smaller.                                               *)
LEMMA TimesGrows == \A n, d \in Nat \ {0} : n * d >= n
  OBVIOUS

(* Products of sums and differences.                                       *)
LEMMA Distributes ==
    \A n, d, e \in Int : /\ n * (d - e) = n * d - n * e
                         /\ n * (d + e) = n * d + n * e
  OBVIOUS

(* The remainder is the only number below n that differs by a multiple.    *)
LEMMA ModUnique ==
    ASSUME NEW n \in Nat \ {0}, NEW q \in Nat, NEW r \in 0 .. n - 1,
           NEW x \in Nat, x = n * q + r
    PROVE  x % n = r
<1> DEFINE s == x \div n
           v == x % n
<1>1. s \in Nat /\ v \in 0 .. n - 1 /\ x = n * s + v
  BY ModRange
<1> HIDE DEF s, v
<1>2. n * q \in Int /\ n * s \in Int
  BY <1>1
<1>3. CASE q > s
  <2>1. n * (q - s) >= n
    BY <1>1, <1>3, TimesGrows
  <2>2. n * (q - s) = n * q - n * s
    BY <1>1, Distributes
  <2>3. QED
    BY <1>1, <1>2, <2>1, <2>2
<1>4. CASE s > q
  <2>1. n * (s - q) >= n
    BY <1>1, <1>4, TimesGrows
  <2>2. n * (s - q) = n * s - n * q
    BY <1>1, Distributes
  <2>3. QED
    BY <1>1, <1>2, <2>1, <2>2
<1>5. CASE s = q
  BY <1>1, <1>2, <1>5 DEF v
<1>6. QED
  BY <1>1, <1>3, <1>4, <1>5

(* A number of multiples that fit.                                         *)
LEMMA FitsOften ==
    ASSUME NEW n \in Nat \ {0}, NEW q \in Nat, NEW x \in Nat, n * q <= x
    PROVE  q <= x \div n
<1> DEFINE s == x \div n
           v == x % n
<1>1. s \in Nat /\ v \in 0 .. n - 1 /\ x = n * s + v
  BY ModRange
<1> HIDE DEF s, v
<1>2. n * q \in Int /\ n * s \in Int
  BY <1>1
<1>3. CASE s < q
  <2>1. n * (q - s) >= n
    BY <1>1, <1>3, TimesGrows
  <2>2. n * (q - s) = n * q - n * s
    BY <1>1, Distributes
  <2>3. QED
    BY <1>1, <1>2, <2>1, <2>2
<1>4. QED
  BY <1>1, <1>3 DEF s

----------------------------------------------------------------------------
(* An element before a sequence.                                           *)
LEMMA Prepend ==
    ASSUME NEW S, NEW x \in S, NEW q \in Seq(S)
    PROVE  /\ <<x>> \o q \in Seq(S) /\ Len(<<x>> \o q) = Len(q) + 1
           /\ Len(q) \in Nat
           /\ \A i \in 1 .. Len(<<x>> \o q) :
                  /\ (<<x>> \o q)[i] = IF i = 1 THEN x ELSE q[i - 1]
                  /\ i # 1 => i - 1 \in 1 .. Len(q)
<1> DEFINE l == Len(q)
           r == <<x>> \o q
<1>1. l \in Nat
  BY LenProperties
<1>2. <<x>> \in Seq(S) /\ Len(<<x>>) = 1 /\ <<x>>[1] = x
  OBVIOUS
<1>3. /\ r \in Seq(S) /\ Len(r) = 1 + l
      /\ \A i \in 1 .. 1 + l : r[i] = IF i <= 1 THEN <<x>>[i] ELSE q[i - 1]
  BY <1>2, ConcatProperties
<1> HIDE DEF l, r
<1>4. Len(r) = l + 1
  BY <1>1, <1>3
<1>5. ASSUME NEW i \in 1 .. l + 1
      PROVE  r[i] = (IF i = 1 THEN x ELSE q[i - 1]) /\ (i # 1 => i - 1 \in 1 .. l)
  <2>1. i \in 1 .. 1 + l /\ (i <= 1 <=> i = 1)
    BY <1>1
  <2>2. i # 1 => i - 1 \in 1 .. l
    BY <1>1
  <2>3. CASE i = 1
    BY <1>2, <1>3, <2>1, <2>3
  <2>4. CASE i # 1
    BY <1>3, <2>1, <2>2, <2>4
  <2>5. QED
    BY <2>3, <2>4
<1>6. QED
  BY <1>1, <1>3, <1>4, <1>5 DEF l, r

----------------------------------------------------------------------------
(* Folds from the left: of a sequence of length n they take one step more  *)
(* for the positions 1 .. k than for 1 .. k - 1.                           *)

(* A bounded set of positions has a last one.                              *)
LEMMA LastOne ==
    ASSUME NEW n \in Nat, NEW s \in SUBSET (1 .. n), s # {}
    PROVE  Max(s) \in s /\ \A x \in s : x <= Max(s)
<1> DEFINE Gaps == {n - x : x \in s}
<1>1. Gaps \in SUBSET Nat /\ Gaps # {}
  <2>1. \A x \in s : n - x \in Nat
    OBVIOUS
  <2>2. QED
    BY <2>1
<1>2. PICK d \in Gaps : \A e \in Gaps : d <= e
  BY <1>1, Least
<1>3. PICK x \in s : d = n - x
  OBVIOUS
<1>4. ASSUME NEW y \in s PROVE x >= y
  <2>1. n - y \in Gaps /\ x \in Int /\ y \in Int /\ n \in Int
    OBVIOUS
  <2>2. n - x <= n - y
    BY <1>2, <1>3, <2>1
  <2> HIDE DEF Gaps
  <2>3. QED
    BY <2>1, <2>2
<1>5. \E m \in s : \A y \in s : m >= y
  BY <1>4
<1>6. Max(s) \in s /\ \A y \in s : Max(s) >= y
  BY <1>5 DEF Max
<1>7. QED
  BY <1>6

(* The last of the first k positions is k.                                 *)
LEMMA FirstPositions ==
    ASSUME NEW k \in Nat \ {0}
    PROVE  1 .. k # {} /\ Max(1 .. k) = k /\ (1 .. k) \ {Max(1 .. k)} = 1 .. (k - 1)
<1>1. k \in 1 .. k
  OBVIOUS
<1>2. Max(1 .. k) \in 1 .. k /\ \A x \in 1 .. k : x <= Max(1 .. k)
  BY <1>1, LastOne
<1>3. Max(1 .. k) = k
  BY <1>1, <1>2
<1>4. QED
  BY <1>1, <1>3

(* The function that a fold over n positions recurs on, of a step g.       *)
Folds(f, g, base, n) ==
    f = [s \in SUBSET (1 .. n) |->
            IF s = {} THEN base ELSE g[<<f[s \ {Max(s)}], Max(s)>>]]

(* There is such a function, for a step within a set T.                    *)
LEMMA FoldsExist ==
    ASSUME NEW T, NEW base \in T, NEW n \in Nat, NEW g \in [T \X (1 .. n) -> T]
    PROVE  \E f \in [SUBSET (1 .. n) -> T] : Folds(f, g, base, n)
<1> DEFINE Has(m) == \E f \in [SUBSET (1 .. m) -> T] : Folds(f, g, base, m)
           Without == {m \in 0 .. n : ~Has(m)}
<1>1. Without = {}
  <2> SUFFICES ASSUME Without # {} PROVE FALSE
    OBVIOUS
  <2> HIDE DEF Has
  <2>1. Without \in SUBSET Nat
    OBVIOUS
  <2>2. PICK m \in Without : \A k \in Without : m <= k
    BY <2>1, Least
  <2>3. CASE m = 0
    <3> DEFINE f == [s \in SUBSET (1 .. 0) |-> base]
    <3>1. 1 .. 0 = {}
      OBVIOUS
    <3>2. f = [s \in SUBSET (1 .. 0) |->
                  IF s = {} THEN base ELSE g[<<f[s \ {Max(s)}], Max(s)>>]]
      BY <3>1
    <3>3. f \in [SUBSET (1 .. 0) -> T]
      OBVIOUS
    <3>4. Has(0)
      BY <3>2, <3>3 DEF Has, Folds
    <3>5. QED
      BY <2>2, <2>3, <3>4
  <2>4. CASE m # 0
    <3>1. m \in 1 .. n /\ m - 1 \in 0 .. n /\ m - 1 \in Nat
      BY <2>2, <2>4
    <3>2. m - 1 \notin Without
      BY <2>2, <3>1
    <3>3. PICK f \in [SUBSET (1 .. (m - 1)) -> T] : Folds(f, g, base, m - 1)
      BY <3>1, <3>2 DEF Has
    <3> DEFINE h == [s \in SUBSET (1 .. m) |->
                        IF m \in s THEN g[<<f[s \ {m}], m>>] ELSE f[s]]
               rest(s) == s \ {Max(s)}
    <3>4. ASSUME NEW s \in SUBSET (1 .. m)
          PROVE  /\ h[s] \in T
                 /\ h[s] = IF s = {} THEN base ELSE g[<<h[rest(s)], Max(s)>>]
      <4>1. CASE m \in s
        <5>1. Max(s) = m
          <6>1. m \in Nat /\ s # {}
            BY <3>1, <4>1
          <6> HIDE DEF h, rest
          <6>2. Max(s) \in s /\ \A x \in s : x <= Max(s)
            BY <6>1, LastOne
          <6>3. Max(s) \in 1 .. m /\ m <= Max(s)
            BY <4>1, <6>2
          <6>4. QED
            BY <6>1, <6>3
        <5>2. s \ {m} \in SUBSET (1 .. (m - 1)) /\ s \ {m} \in SUBSET (1 .. m)
          BY <3>1
        <5>3. h[s] = g[<<f[s \ {m}], m>>] /\ f[s \ {m}] \in T
          BY <4>1, <5>2, <3>3
        <5>4. h[s \ {m}] = f[s \ {m}]
          BY <5>2
        <5>5. h[s] \in T
          BY <3>1, <5>3
        <5> HIDE DEF h
        <5>6. QED
          BY <4>1, <5>1, <5>3, <5>4, <5>5
      <4>2. CASE m \notin s
        <5>1. s \in SUBSET (1 .. (m - 1))
          BY <3>1, <4>2
        <5>2. h[s] = f[s] /\ h[s] \in T
          BY <3>3, <4>2, <5>1
        <5>3. f[s] = IF s = {} THEN base ELSE g[<<f[rest(s)], Max(s)>>]
          <6>1. f = [u \in SUBSET (1 .. (m - 1)) |->
                        IF u = {} THEN base ELSE g[<<f[rest(u)], Max(u)>>]]
            BY <3>3 DEF Folds
          <6> HIDE DEF rest
          <6>2. QED
            BY <5>1, <6>1, Zenon
        <5>4. h[rest(s)] = f[rest(s)]
          BY <4>2, <5>1
        <5> HIDE DEF h, rest
        <5>5. QED
          BY <5>2, <5>3, <5>4
      <4>3. QED
        BY <4>1, <4>2
    <3>5. h \in [SUBSET (1 .. m) -> T]
      <4>1. h = [s \in SUBSET (1 .. m) |-> h[s]]
        OBVIOUS
      <4> HIDE DEF h
      <4>2. QED
        BY <3>4, <4>1
    <3>6. Folds(h, g, base, m)
      <4>1. h = [s \in SUBSET (1 .. m) |-> h[s]]
        OBVIOUS
      <4> HIDE DEF h
      <4>2. h = [s \in SUBSET (1 .. m) |->
                    IF s = {} THEN base ELSE g[<<h[rest(s)], Max(s)>>]]
        BY <3>4, <4>1
      <4>3. QED
        BY <4>2 DEF Folds
    <3>7. Has(m)
      BY <3>5, <3>6 DEF Has
    <3>8. QED
      BY <2>2, <3>7
  <2>5. QED
    BY <2>3, <2>4
<1>2. Has(n)
  <2> HIDE DEF Has
  <2>1. n \in 0 .. n
    OBVIOUS
  <2>2. QED
    BY <1>1, <2>1
<1>3. QED
  BY <1>2

----------------------------------------------------------------------------
(* FlattenSeq, whose recursive function is of a sequence of sequences q.   *)
Flattens(f, q, n) ==
    f = [i \in 1 .. n |-> IF i = 1 THEN q[i] ELSE f[i - 1] \o q[i]]

(* There is such a function: of the least length that had none it is one   *)
(* step from the one before.                                               *)
LEMMA FlattensExists ==
    ASSUME NEW q, NEW n \in Nat \ {0} PROVE \E f : Flattens(f, q, n)
<1> DEFINE Without == {m \in Nat \ {0} : ~\E f : Flattens(f, q, m)}
<1> SUFFICES ASSUME Without # {} PROVE FALSE
  OBVIOUS
<1>1. PICK m \in Without : \A k \in Without : m <= k
  BY Least
<1>2. CASE m = 1
  <2> DEFINE f == [i \in 1 .. 1 |-> q[i]]
  <2>1. Flattens(f, q, 1)
    BY DEF Flattens
  <2>2. QED
    BY <1>2, <2>1
<1>3. CASE m # 1
  <2>1. m - 1 \in Nat \ {0} /\ m - 1 \notin Without
    BY <1>1, <1>3
  <2>2. PICK f : Flattens(f, q, m - 1)
    BY <2>1
  <2> DEFINE g == [i \in 1 .. m |-> IF i = m THEN f[m - 1] \o q[m] ELSE f[i]]
  <2>3. ASSUME NEW i \in 1 .. m
        PROVE  g[i] = IF i = 1 THEN q[i] ELSE g[i - 1] \o q[i]
    <3>1. CASE i = m
      <4>1. m \in 1 .. m /\ m - 1 \in 1 .. m /\ m - 1 # m
        BY <2>1
      <4>2. g[m] = f[m - 1] \o q[m]
        BY <4>1
      <4>3. g[m - 1] = f[m - 1]
        BY <4>1
      <4> HIDE DEF g
      <4>4. QED
        BY <1>3, <3>1, <4>2, <4>3
    <3>2. CASE i # m
      <4>1. i \in 1 .. m - 1 /\ g[i] = f[i]
        BY <3>2, <2>1
      <4>2. f[i] = IF i = 1 THEN q[i] ELSE f[i - 1] \o q[i]
        BY <2>2, <4>1 DEF Flattens
      <4>3. i # 1 => g[i - 1] = f[i - 1]
        BY <2>1, <4>1
      <4>4. QED
        BY <4>1, <4>2, <4>3
    <3>3. QED
      BY <3>1, <3>2
  <2>4. g = [i \in 1 .. m |-> IF i = 1 THEN q[i] ELSE g[i - 1] \o q[i]]
    <3>1. g = [i \in 1 .. m |-> g[i]]
      OBVIOUS
    <3> HIDE DEF g
    <3>2. QED
      BY <2>3, <3>1
  <2>5. QED
    BY <2>4 DEF Flattens
<1>4. QED
  BY <1>2, <1>3

(* Two of them agree where their sequences do.                             *)
LEMMA FlattensAgree ==
    \A m, n \in Nat \ {0} : \A p, q, f, g :
        /\ m <= n /\ \A i \in 1 .. m : p[i] = q[i]
        /\ Flattens(f, p, m) /\ Flattens(g, q, n)
        => \A i \in 1 .. m : f[i] = g[i]
<1> SUFFICES ASSUME NEW m \in Nat \ {0}, NEW n \in Nat \ {0},
                    NEW p, NEW q, NEW f, NEW g,
                    m <= n, \A i \in 1 .. m : p[i] = q[i],
                    Flattens(f, p, m), Flattens(g, q, n)
             PROVE  \A i \in 1 .. m : f[i] = g[i]
  OBVIOUS
<1> DEFINE Apart == {i \in 1 .. m : f[i] # g[i]}
<1> SUFFICES ASSUME Apart # {} PROVE FALSE
  OBVIOUS
<1>1. Apart \in SUBSET Nat
  OBVIOUS
<1>2. PICK i \in Apart : \A k \in Apart : i <= k
  BY <1>1, Least
<1>a. i \in 1 .. m /\ i \in 1 .. n
  BY <1>2
<1>b. f[i] = IF i = 1 THEN p[i] ELSE f[i - 1] \o p[i]
  <2>1. f = [j \in 1 .. m |-> IF j = 1 THEN p[j] ELSE f[j - 1] \o p[j]]
    BY DEF Flattens
  <2>2. QED
    BY <1>a, <2>1, Zenon
<1>c. g[i] = IF i = 1 THEN q[i] ELSE g[i - 1] \o q[i]
  <2>1. g = [j \in 1 .. n |-> IF j = 1 THEN q[j] ELSE g[j - 1] \o q[j]]
    BY DEF Flattens
  <2>2. QED
    BY <1>a, <2>1, Zenon
<1>4. i # 1 => i - 1 \in 1 .. m /\ i - 1 \notin Apart
  BY <1>2
<1>5. QED
  BY <1>2, <1>a, <1>b, <1>c, <1>4

(* FlattenSeq is what such a function has at the length of q.              *)
LEMMA FlattenIs ==
    ASSUME NEW S, NEW q \in Seq(S), q # << >>
    PROVE  \E f : Flattens(f, q, Len(q)) /\ FlattenSeq(q) = f[Len(q)]
<1>1. Len(q) \in Nat \ {0}
  BY EmptySeq, LenProperties
<1>2. \E f : Flattens(f, q, Len(q))
  BY <1>1, FlattensExists
<1> DEFINE f == CHOOSE f : Flattens(f, q, Len(q))
<1>3. Flattens(f, q, Len(q))
  BY <1>2
<1>4. FlattenSeq(q) = f[Len(q)]
  BY <1>1 DEF FlattenSeq, Flattens
<1>5. QED
  BY <1>3, <1>4

(* The files of a list of roots are those of all but the last, and then    *)
(* the last.                                                               *)
LEMMA FlattenGrows ==
    ASSUME NEW S, NEW p \in Seq(S), p # << >>, NEW q \in Seq(S),
           Len(q) = Len(p) + 1, \A i \in 1 .. Len(p) : q[i] = p[i]
    PROVE  FlattenSeq(q) = FlattenSeq(p) \o q[Len(q)]
<1>1. Len(p) \in Nat \ {0} /\ Len(q) \in Nat \ {0} /\ q # << >>
  BY EmptySeq, LenProperties
<1>2. PICK f : Flattens(f, p, Len(p)) /\ FlattenSeq(p) = f[Len(p)]
  BY FlattenIs
<1>3. PICK g : Flattens(g, q, Len(q)) /\ FlattenSeq(q) = g[Len(q)]
  BY <1>1, FlattenIs
<1>4. \A i \in 1 .. Len(p) : f[i] = g[i]
  <2> DEFINE m == Len(p)
             n == Len(q)
  <2>1. /\ m \in Nat \ {0} /\ n \in Nat \ {0} /\ m <= n
        /\ \A i \in 1 .. m : p[i] = q[i]
        /\ Flattens(f, p, m) /\ Flattens(g, q, n)
    BY <1>1, <1>2, <1>3
  <2> HIDE DEF m, n
  <2>2. \A i \in 1 .. m : f[i] = g[i]
    BY <2>1, FlattensAgree
  <2>3. QED
    BY <2>2 DEF m
<1>5. g[Len(q)] = g[Len(q) - 1] \o q[Len(q)]
  <2> DEFINE n == Len(q)
  <2>1. g = [j \in 1 .. n |-> IF j = 1 THEN q[j] ELSE g[j - 1] \o q[j]]
    BY <1>3 DEF Flattens
  <2>2. n \in 1 .. n /\ n # 1
    BY <1>1
  <2> HIDE DEF n
  <2>3. g[n] = g[n - 1] \o q[n]
    BY <2>1, <2>2, Zenon
  <2>4. QED
    BY <2>3 DEF n
<1>6. Len(q) - 1 = Len(p) /\ Len(p) \in 1 .. Len(p)
  BY <1>1
<1>7. f[Len(p)] = g[Len(p)]
  BY <1>4, <1>6
<1>8. QED
  BY <1>2, <1>3, <1>5, <1>6, <1>7, Zenon

(* One part is itself.                                                     *)
LEMMA FlattenOne ==
    ASSUME NEW S, NEW q \in Seq(S), Len(q) = 1 PROVE FlattenSeq(q) = q[1]
<1>1. q # << >>
  BY EmptySeq
<1>2. PICK f : Flattens(f, q, 1) /\ FlattenSeq(q) = f[1]
  BY <1>1, FlattenIs
<1>3. QED
  BY <1>2 DEF Flattens

(* No parts are nothing.                                                   *)
LEMMA FlattenNone == FlattenSeq(<< >>) = << >>
  BY DEF FlattenSeq

----------------------------------------------------------------------------
(* Where the parts of q end when they are laid one after the other.        *)
Offsets(e, q) ==
    /\ e \in [0 .. Len(q) -> Nat] /\ e[0] = 0
    /\ \A i \in 1 .. Len(q) : e[i] = e[i - 1] + Len(q[i])

(* Where the elements of two parts are when the second follows the first:  *)
(* x and y are where they end.                                             *)
Joined(S, u, v, x, y) ==
    /\ u \o v \in Seq(S) /\ Len(u \o v) = y /\ x <= y
    /\ \A j \in 1 .. x : j \in 1 .. y /\ (u \o v)[j] = u[j]
    /\ \A k \in 1 .. Len(v) : (u \o v)[x + k] = v[k]
    /\ \A j \in 1 .. y : j \in 1 .. x \/ \E k \in 1 .. Len(v) : j = x + k

(* One part more after those that are joined.                              *)
LEMMA AppendPart ==
    ASSUME NEW S
    PROVE  \A u, v \in Seq(S) : \A x, y :
               x = Len(u) /\ y = x + Len(v) => Joined(S, u, v, x, y)
<1> SUFFICES ASSUME NEW u \in Seq(S), NEW v \in Seq(S), NEW x, NEW y,
                    x = Len(u), y = x + Len(v)
             PROVE  Joined(S, u, v, x, y)
  OBVIOUS
<1>1. Len(u) \in Nat /\ Len(v) \in Nat
  BY LenProperties
<1>2. /\ u \o v \in Seq(S) /\ Len(u \o v) = Len(u) + Len(v)
      /\ \A j \in 1 .. Len(u) + Len(v) :
             (u \o v)[j] = IF j <= Len(u) THEN u[j] ELSE v[j - Len(u)]
  BY ConcatProperties
<1> DEFINE f == u \o v
           l == Len(v)
<1>3. /\ f \in Seq(S) /\ Len(f) = y /\ x \in Nat /\ l \in Nat /\ y = x + l
      /\ \A j \in 1 .. y : f[j] = IF j <= x THEN u[j] ELSE v[j - x]
  BY <1>1, <1>2
<1> HIDE DEF f, l
<1>4. \A j \in 1 .. x : j \in 1 .. y /\ f[j] = u[j]
  BY <1>3
<1>5. ASSUME NEW k \in 1 .. l PROVE f[x + k] = v[k]
  <2>1. x + k \in 1 .. y /\ ~(x + k <= x) /\ (x + k) - x = k
    BY <1>3
  <2>2. QED
    BY <1>3, <2>1
<1>6. ASSUME NEW j \in 1 .. y PROVE j \in 1 .. x \/ \E k \in 1 .. l : j = x + k
  <2>1. j \in 1 .. x \/ (j - x \in 1 .. l /\ j = x + (j - x))
    BY <1>3
  <2>2. QED
    BY <2>1
<1>7. QED
  BY <1>3, <1>4, <1>5, <1>6 DEF f, l, Joined

(* A position in a part is a position of the whole.                        *)
LEMMA Inside ==
    \A x, y, l, a \in Nat : \A k \in 1 .. l :
        y = x + l /\ y <= a => x + k \in 1 .. a
OBVIOUS

(* FlattenSeq has each part where its offset says.                         *)
LEMMA FlattenParts ==
    ASSUME NEW S, NEW q \in Seq(Seq(S)), NEW e, Offsets(e, q)
    PROVE  /\ FlattenSeq(q) \in Seq(S) /\ Len(FlattenSeq(q)) = e[Len(q)]
           /\ \A i \in 1 .. Len(q) : e[i] <= e[Len(q)]
           /\ \A i \in 1 .. Len(q) : \A k \in 1 .. Len(q[i]) :
                  FlattenSeq(q)[e[i - 1] + k] = q[i][k]
           /\ \A j \in 1 .. Len(FlattenSeq(q)) :
                  \E i \in 1 .. Len(q) : \E k \in 1 .. Len(q[i]) :
                      FlattenSeq(q)[j] = q[i][k]
<1> DEFINE n == Len(q)
<1>1. n \in Nat /\ \A i \in 1 .. n : q[i] \in Seq(S) /\ Len(q[i]) \in Nat
  BY LenProperties, ElementOfSeq
<1>2. CASE q = << >>
  <2>1. n = 0 /\ FlattenSeq(q) = << >>
    BY <1>2, EmptySeq, FlattenNone
  <2>2. QED
    BY <2>1, EmptySeq DEF Offsets
<1>3. CASE q # << >>
  <2>1. n \in Nat \ {0}
    BY <1>3, EmptySeq
  <2>2. PICK f : Flattens(f, q, n) /\ FlattenSeq(q) = f[n]
    BY <1>3, FlattenIs
  <2> HIDE DEF n
  <2>3. \A i \in 1 .. n : f[i] = IF i = 1 THEN q[i] ELSE f[i - 1] \o q[i]
    <3>1. f = [i \in 1 .. n |-> IF i = 1 THEN q[i] ELSE f[i - 1] \o q[i]]
      BY <2>2 DEF Flattens
    <3>2. QED
      BY <3>1, Zenon
  <2>4. /\ e \in [0 .. n -> Nat] /\ e[0] = 0
        /\ \A i \in 1 .. n : e[i] = e[i - 1] + Len(q[i])
    BY DEF Offsets, n
  <2> DEFINE Holds(m) ==
               /\ f[m] \in Seq(S) /\ Len(f[m]) = e[m]
               /\ \A i \in 1 .. m : e[i] <= e[m]
               /\ \A i \in 1 .. m : \A k \in 1 .. Len(q[i]) :
                      f[m][e[i - 1] + k] = q[i][k]
               /\ \A j \in 1 .. e[m] :
                      \E i \in 1 .. m : \E k \in 1 .. Len(q[i]) : f[m][j] = q[i][k]
             Fails == {m \in 1 .. n : ~Holds(m)}
  <2>5. Fails = {}
    <3> SUFFICES ASSUME Fails # {} PROVE FALSE
      OBVIOUS
    <3> HIDE DEF Holds
    <3>1. Fails \in SUBSET Nat
      OBVIOUS
    <3>2. PICK m \in Fails : \A k \in Fails : m <= k
      BY <3>1, Least
    <3>3. m \in 1 .. n /\ m \in Nat \ {0} /\ ~Holds(m) /\ q[m] \in Seq(S) /\ Len(q[m]) \in Nat
          /\ e[m] = e[m - 1] + Len(q[m]) /\ e[m] \in Nat /\ e[m - 1] \in Nat
      BY <2>1, <2>4, <3>2, <1>1
    <3>4. CASE m = 1
      <4>1. f[1] = q[1]
        BY <2>3, <3>3, <3>4
      <4>2. e[1] = Len(q[1]) /\ e[0] = 0
        BY <2>4, <3>3, <3>4
      <4>3. Holds(1)
        BY <3>3, <3>4, <4>1, <4>2 DEF Holds
      <4>4. QED
        BY <3>3, <3>4, <4>3
    <3>5. CASE m # 1
      <4>1. m - 1 \in 1 .. n /\ m - 1 \notin Fails
        BY <2>1, <3>2, <3>3, <3>5
      <4>2. Holds(m - 1)
        BY <4>1
      <4>3. f[m] = f[m - 1] \o q[m]
        BY <2>3, <3>3, <3>5
      <4>p. PICK p, w, a, b : p = f[m - 1] /\ w = q[m] /\ a = e[m - 1] /\ b = e[m]
        OBVIOUS
      <4>4. /\ p \in Seq(S) /\ a = Len(p)
            /\ \A i \in 1 .. m - 1 : e[i] <= a
            /\ \A i \in 1 .. m - 1 : \A k \in 1 .. Len(q[i]) : p[e[i - 1] + k] = q[i][k]
            /\ \A j \in 1 .. a :
                   \E i \in 1 .. m - 1 : \E k \in 1 .. Len(q[i]) : p[j] = q[i][k]
        BY <4>2, <4>p DEF Holds
      <4>5. f[m] = p \o w /\ w \in Seq(S) /\ b = a + Len(w) /\ a \in Nat /\ b \in Nat
        BY <3>3, <4>3, <4>p
      <4>6. /\ f[m] \in Seq(S) /\ Len(f[m]) = b /\ a <= b
            /\ \A j \in 1 .. a : j \in 1 .. b /\ f[m][j] = p[j]
            /\ \A k \in 1 .. Len(w) : f[m][a + k] = w[k]
            /\ \A j \in 1 .. b : j \in 1 .. a \/ \E k \in 1 .. Len(w) : j = a + k
        <5>1. Joined(S, p, w, a, b)
          <6>1. p \in Seq(S) /\ w \in Seq(S) /\ a = Len(p) /\ b = a + Len(w)
            BY <4>4, <4>5
          <6>2. QED
            BY <6>1, AppendPart, Zenon
        <5>2. f[m] = p \o w
          BY <4>5
        <5>3. QED
          BY <5>1, <5>2, Zenon DEF Joined
      <4>a. \A i \in 1 .. m : i = m \/ i \in 1 .. m - 1
        BY <3>3
      <4>b. m \in 1 .. m /\ \A i \in 1 .. m - 1 : i \in 1 .. m
        BY <3>3
      <4>7. \A i \in 1 .. m : e[i] <= b
        <5>1. ASSUME NEW i \in 1 .. m PROVE e[i] <= b
          <6>1. CASE i = m
            BY <4>5, <4>p, <6>1
          <6>2. CASE i # m
            <7>1. i \in 1 .. m - 1
              BY <4>a, <6>2
            <7>2. e[i] <= a
              BY <4>4, <7>1
            <7>3. e[i] \in Nat
              <8>1. i \in 0 .. n
                BY <3>3, <2>1
              <8>2. QED
                BY <8>1, <2>4
            <7> DEFINE x == e[i]
            <7>4. x <= a /\ x \in Nat
              BY <7>2, <7>3
            <7> HIDE DEF x
            <7>5. x <= b
              BY <4>5, <4>6, <7>4
            <7>6. QED
              BY <7>5 DEF x
          <6>3. QED
            BY <6>1, <6>2
        <5>2. QED
          BY <5>1
      <4>8. ASSUME NEW i \in 1 .. m, NEW k \in 1 .. Len(q[i])
            PROVE  f[m][e[i - 1] + k] = q[i][k]
        <5>1. CASE i = m
          BY <4>6, <4>p, <5>1
        <5>2. CASE i # m
          <6>1. i \in 1 .. m - 1
            BY <4>a, <5>2
          <6>2. i \in 1 .. n /\ i \in 0 .. n /\ i - 1 \in 0 .. n
            BY <3>3, <2>1, SMTT(30)
          <6>3. /\ e[i - 1] \in Nat /\ e[i] \in Nat /\ Len(q[i]) \in Nat
                /\ e[i] = e[i - 1] + Len(q[i]) /\ e[i] <= a
            BY <6>1, <6>2, <2>4, <1>1, <4>4
          <6>4. e[i - 1] + k \in 1 .. a
            BY <6>3, <4>5, Inside
          <6>5. f[m][e[i - 1] + k] = p[e[i - 1] + k]
            BY <6>4, <4>6
          <6>6. p[e[i - 1] + k] = q[i][k]
            BY <6>1, <4>4
          <6>7. QED
            BY <6>5, <6>6
        <5>3. QED
          BY <5>1, <5>2
      <4>9. ASSUME NEW j \in 1 .. b
            PROVE  \E i \in 1 .. m : \E k \in 1 .. Len(q[i]) : f[m][j] = q[i][k]
        <5>1. CASE j \in 1 .. a
          <6>1. f[m][j] = p[j]
            BY <4>6, <5>1
          <6>2. \E i \in 1 .. m - 1 : \E k \in 1 .. Len(q[i]) : p[j] = q[i][k]
            BY <4>4, <5>1
          <6>3. QED
            BY <6>1, <6>2, <4>b
        <5>2. CASE \E k \in 1 .. Len(w) : j = a + k
          <6>1. PICK k \in 1 .. Len(w) : j = a + k
            BY <5>2
          <6>2. f[m][j] = w[k]
            BY <4>6, <6>1
          <6>3. \E k1 \in 1 .. Len(q[m]) : f[m][j] = q[m][k1]
            BY <6>2, <4>p
          <6>4. QED
            BY <6>3, <4>b
        <5>3. QED
          BY <5>1, <5>2, <4>6
      <4>10. Holds(m)
        BY <4>6, <4>7, <4>8, <4>9, <4>p DEF Holds
      <4>11. QED
        BY <3>3, <4>10
    <3>6. QED
      BY <3>4, <3>5
  <2>6. Holds(n)
    <3> HIDE DEF Holds
    <3>1. n \in 1 .. n
      BY <2>1
    <3>2. QED
      BY <2>5, <3>1
  <2>7. QED
    BY <2>2, <2>6 DEF n
<1>4. QED
  BY <1>2, <1>3

(* The part between two offsets is the one that was put there.             *)
LEMMA PartIs ==
    ASSUME NEW S, NEW q \in Seq(Seq(S)), NEW e, Offsets(e, q), NEW i \in 1 .. Len(q)
    PROVE  SubSeq(FlattenSeq(q), e[i - 1] + 1, e[i]) = q[i]
<1> DEFINE v == FlattenSeq(q)
           n == Len(q)
           w == q[i]
<1>1. n \in Nat /\ w \in Seq(S) /\ Len(w) \in Nat
  BY LenProperties, ElementOfSeq
<1>2. /\ v \in Seq(S) /\ Len(v) = e[n] /\ e[i] <= e[n]
      /\ \A k \in 1 .. Len(w) : v[e[i - 1] + k] = w[k]
  BY FlattenParts
<1>3. PICK a, b : /\ a = e[i - 1] /\ b = e[i] /\ a \in Nat /\ b \in Nat /\ b = a + Len(w)
                  /\ e[n] \in Nat
  <2>1. i \in 0 .. n /\ i - 1 \in 0 .. n /\ n \in 0 .. n
    BY <1>1
  <2>2. e \in [0 .. n -> Nat] /\ e[i] = e[i - 1] + Len(w)
    BY DEF Offsets
  <2>3. QED
    BY <2>1, <2>2
<1> HIDE DEF v, n, w
<1>4. PICK l, m : /\ l = Len(w) /\ l \in Nat /\ m = Len(v) /\ m \in Nat
                  /\ a \in Nat /\ b \in Nat /\ b = a + l /\ b <= m
  BY <1>1, <1>2, <1>3
<1>5. /\ \A k \in a + 1 .. b : k \in 1 .. m
      /\ b - (a + 1) + 1 = l /\ (IF a + 1 <= b THEN b - (a + 1) + 1 ELSE 0) = l
      /\ \A k \in 1 .. l : (a + 1) + k - 1 = a + k
  BY <1>4
<1> DEFINE u == SubSeq(v, a + 1, b)
<1>6. \A k \in a + 1 .. b : v[k] \in S
  BY <1>2, <1>4, <1>5, ElementOfSeq
<1>7. /\ u \in Seq(S) /\ Len(u) = IF a + 1 <= b THEN b - (a + 1) + 1 ELSE 0
      /\ \A k \in 1 .. b - (a + 1) + 1 : u[k] = v[(a + 1) + k - 1]
  <2>1. PICK x : x = a + 1 /\ x \in Int /\ b \in Int
    BY <1>4
  <2>2. \A k \in x .. b : v[k] \in S
    BY <1>6, <2>1
  <2>3. /\ SubSeq(v, x, b) \in Seq(S)
        /\ Len(SubSeq(v, x, b)) = IF x <= b THEN b - x + 1 ELSE 0
        /\ \A k \in 1 .. b - x + 1 : SubSeq(v, x, b)[k] = v[x + k - 1]
    BY <2>1, <2>2, SubSeqProperties
  <2>4. QED
    BY <2>1, <2>3, Zenon
<1> HIDE DEF u
<1>8. u = w
  <2>1. u \in Seq(S) /\ Len(u) = l
    BY <1>5, <1>7, Zenon
  <2>2. \A k \in 1 .. l : u[k] = v[(a + 1) + k - 1]
    BY <1>5, <1>7, Zenon
  <2>3. \A k \in 1 .. l : v[a + k] = w[k]
    BY <1>2, <1>3, <1>4
  <2>4. \A k \in 1 .. Len(u) : u[k] = w[k]
    BY <1>5, <2>1, <2>2, <2>3
  <2>5. QED
    BY <1>1, <1>4, <2>1, <2>4, SeqEqual
<1>9. QED
  BY <1>3, <1>8 DEF u, v, w
=============================================================================
