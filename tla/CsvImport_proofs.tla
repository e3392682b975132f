-------------------------- MODULE CsvImport_proofs --------------------------
(***************************************************************************)
(* Theorems about CsvImport, for any tables, vaults and number of imports. *)
(* Its loops are recursive functions.  What they compute is proved by      *)
(* induction over their steps, of which well-foundedness (WFMin) is the    *)
(* form the provers can use: it takes a set, not an operator.              *)
(***************************************************************************)
EXTENDS CsvImport, WellFoundedInduction, SequenceTheorems, FiniteSetTheorems, TLAPS

-----------------------------------------------------------------------------
(* Loops *)

\* Induction up to n: the least number that is not in S is no step's result.
LEMMA Induction ==
  ASSUME NEW n \in Nat, NEW S, 0 \in S, \A k \in 0..n : k \in S /\ k < n => k + 1 \in S
  PROVE  0..n \subseteq S
<1> DEFINE T == (0..n) \ S
<1> SUFFICES ASSUME T # {} PROVE FALSE
  OBVIOUS
<1>1. IsWellFoundedOn(OpToRel(<, Nat), Nat)
  BY NatLessThanWellFounded
<1>2. T \subseteq Nat
  OBVIOUS
<1>3. PICK m \in T : \A y \in T : ~ (<<y, m>> \in OpToRel(<, Nat))
  <2> HIDE DEF T
  <2> QED
  BY <1>1, <1>2, WFMin
<1>4. \A y \in T : ~ (y < m)
  BY <1>2, <1>3 DEF OpToRel
<1>5. m # 0 /\ m - 1 \in 0..n /\ m - 1 < n /\ m - 1 \notin T
  BY <1>4
<1> QED
  BY <1>5

\* Two loops that start alike and go on alike end alike.
LEMMA Determined ==
  ASSUME NEW n \in Nat, NEW f, NEW g, f[0] = g[0],
         \A k \in 1..n : f[k - 1] = g[k - 1] => f[k] = g[k]
  PROVE  f[n] = g[n]
<1> DEFINE S == {k \in 0..n : f[k] = g[k]}
<1>1. 0 \in S
  OBVIOUS
<1>2. ASSUME NEW k \in 0..n, k \in S, k < n PROVE k + 1 \in S
  <2>1. k + 1 \in 1..n /\ (k + 1) - 1 = k /\ f[k] = g[k]
    BY <1>2
  <2>2. f[k + 1] = g[k + 1]
    BY <2>1
  <2> QED
    BY <2>1, <2>2
<1>3. 0..n \subseteq S
  <2> HIDE DEF S
  <2> QED
    BY <1>1, <1>2, Induction
<1> QED
  BY <1>3

\* The values of a loop of n steps F that starts with b.
Steps(n, D) == [1..n -> [D -> D]]
Runs(n, D, b, F) ==
  {g \in [0..n -> D] : g[0] = b /\ \A k \in 1..n : g[k] = F[k][g[k - 1]]}

\* A loop whose every step stays in D runs to its end.
LEMMA Loop ==
  ASSUME NEW n \in Nat, NEW D, NEW b \in D, NEW F \in Steps(n, D)
  PROVE  Runs(n, D, b, F) # {}
<1> USE DEF Steps
<1> DEFINE Upto(m) == \E g \in [0..m -> D] :
                        g[0] = b /\ \A k \in 1..m : g[k] = F[k][g[k - 1]]
           S == {m \in 0..n : Upto(m)}
<1>1. 0 \in S
  <2>1. PICK g : g = [k \in 0..0 |-> b]
    OBVIOUS
  <2>2. g \in [0..0 -> D] /\ g[0] = b /\ \A k \in 1..0 : g[k] = F[k][g[k - 1]]
    BY <2>1
  <2>3. Upto(0)
    BY <2>2
  <2> HIDE DEF Upto
  <2> QED
    BY <2>3
<1>2. ASSUME NEW m \in 0..n, m \in S, m < n PROVE m + 1 \in S
  <2>1. PICK g \in [0..m -> D] : g[0] = b /\ \A k \in 1..m : g[k] = F[k][g[k - 1]]
    BY <1>2
  <2>2. m + 1 \in 1..n /\ m + 1 \in 0..n /\ m \in 0..m
    BY <1>2
  <2>3. PICK next \in D : next = F[m + 1][g[m]]
    BY <2>2
  <2>4. PICK h : h = [k \in 0..m + 1 |-> IF k <= m THEN g[k] ELSE next]
    OBVIOUS
  <2>5. h \in [0..m + 1 -> D] /\ h[0] = b /\ \A k \in 0..m : h[k] = g[k]
    BY <2>1, <2>2, <2>4
  <2>6. ASSUME NEW k \in 1..m + 1 PROVE h[k] = F[k][h[k - 1]]
    <3>1. CASE k <= m
      <4>1. k \in 1..m /\ k \in 0..m /\ k - 1 \in 0..m
        BY <3>1
      <4> QED
        BY <2>1, <2>5, <4>1
    <3>2. CASE ~(k <= m)
      <4>1. k = m + 1 /\ k - 1 = m
        BY <3>2
      <4>2. h[m + 1] = next /\ h[m] = g[m]
        BY <2>2, <2>4, <2>5
      <4> QED
        BY <2>3, <4>1, <4>2
    <3> QED
      BY <3>1, <3>2
  <2>7. Upto(m + 1)
    BY <2>5, <2>6
  <2> HIDE DEF Upto
  <2> QED
    BY <2>2, <2>7
<1>3. 0..n \subseteq S
  <2> HIDE DEF S
  <2> QED
    BY <1>1, <1>2, Induction
<1>4. n \in S
  BY <1>3
<1> QED
  BY <1>4 DEF Runs

\* How a sequence is filtered.
Filterings(T, s, keep) ==
  {g \in [0..Len(s) -> Seq(T)] :
     /\ g[0] = <<>> /\ g[Len(s)] = Filtered(s, keep)
     /\ \A k \in 1..Len(s) :
          g[k] = IF k \in keep THEN Append(g[k - 1], s[k]) ELSE g[k - 1]}

\* Filtered goes through the sequence place by place.
LEMMA FilteredLoop ==
  ASSUME NEW T, NEW s \in Seq(T), NEW keep
  PROVE  Filterings(T, s, keep) # {}
<1>1. PICK n \in Nat : n = Len(s)
  BY LenProperties
<1>2. \A k \in 1..n : s[k] \in T
  BY <1>1, ElementOfSeq
<1>3. PICK g \in [0..n -> Seq(T)] :
        /\ g[0] = <<>>
        /\ \A k \in 1..n : g[k] = IF k \in keep THEN Append(g[k - 1], s[k]) ELSE g[k - 1]
  <2>1. PICK F : F = [k \in 1..n |-> [q \in Seq(T) |-> IF k \in keep THEN Append(q, s[k]) ELSE q]]
    OBVIOUS
  <2>2. F \in [1..n -> [Seq(T) -> Seq(T)]] /\ <<>> \in Seq(T)
    BY <1>2, <2>1, AppendProperties
  <2>3. PICK g \in [0..n -> Seq(T)] : g[0] = <<>> /\ \A k \in 1..n : g[k] = F[k][g[k - 1]]
    <3>1. F \in Steps(n, Seq(T))
      BY <2>2 DEF Steps
    <3>2. Runs(n, Seq(T), <<>>, F) # {}
      BY <2>2, <3>1, Loop
    <3> QED
      BY <3>2 DEF Runs
  <2>4. ASSUME NEW k \in 1..n
        PROVE  g[k] = IF k \in keep THEN Append(g[k - 1], s[k]) ELSE g[k - 1]
    <3>1. k - 1 \in 0..n
      OBVIOUS
    <3>2. g[k - 1] \in Seq(T)
      BY <3>1
    <3> QED
      BY <2>1, <2>3, <3>2
  <2> QED
    BY <2>3, <2>4
<1> DEFINE body(f) == [k \in 0..n |-> IF k = 0 THEN <<>>
                                      ELSE IF k \in keep THEN Append(f[k - 1], s[k]) ELSE f[k - 1]]
<1>4. g = body(g)
  <2>1. ASSUME NEW k \in 0..n PROVE g[k] = body(g)[k]
    <3>1. CASE k = 0
      BY <1>3, <3>1
    <3>2. CASE k # 0
      <4>1. k \in 1..n
        BY <3>2
      <4> QED
        BY <1>3, <3>2, <4>1
    <3> QED
      BY <3>1, <3>2
  <2> QED
    BY <2>1
<1>5. PICK f : f = CHOOSE h : h = body(h)
  OBVIOUS
<1>6. f = body(f)
  BY <1>4, <1>5
<1>7. Filtered(s, keep) = f[n]
  BY <1>1, <1>5 DEF Filtered
<1>8. f[n] = g[n]
  <2>1. f[0] = g[0]
    BY <1>3, <1>6
  <2>2. ASSUME NEW k \in 1..n, f[k - 1] = g[k - 1] PROVE f[k] = g[k]
    <3>1. k \in 0..n /\ k # 0
      OBVIOUS
    <3>2. f[k] = IF k \in keep THEN Append(f[k - 1], s[k]) ELSE f[k - 1]
      BY <1>6, <3>1
    <3> QED
      BY <1>3, <2>2, <3>2
  <2> HIDE DEF body
  <2> QED
    BY <2>1, <2>2, Determined
<1> QED
  BY <1>1, <1>3, <1>7, <1>8 DEF Filterings

\* A set of places that is not empty has a least and a greatest member.
LEMMA MinMax ==
  ASSUME NEW n \in Nat, NEW S \in SUBSET (1..n), S # {}
  PROVE  /\ Min(S) \in S /\ \A x \in S : Min(S) <= x
         /\ Max(S) \in S /\ \A x \in S : Max(S) >= x
<1>1. IsWellFoundedOn(OpToRel(<, Nat), Nat)
  BY NatLessThanWellFounded
<1>2. \E x \in S : \A y \in S : x <= y
  <2>1. PICK x \in S : \A y \in S : ~ (<<y, x>> \in OpToRel(<, Nat))
    <3>1. S \subseteq Nat
      OBVIOUS
    <3> QED
      BY <1>1, <3>1, WFMin
  <2>2. \A y \in S : ~ (y < x)
    <3>1. \A y \in S : y \in Nat
      OBVIOUS
    <3> QED
      BY <2>1, <3>1 DEF OpToRel
  <2>3. \A y \in S : y \in Nat
    OBVIOUS
  <2> QED
    BY <2>2, <2>3
<1>3. \E x \in S : \A y \in S : x >= y
  <2> DEFINE T == {n - x : x \in S}
  <2>1. T \subseteq Nat /\ T # {}
    <3>1. \A x \in S : x \in 1..n /\ n - x \in Nat
      OBVIOUS
    <3> QED
      BY <3>1
  <2>2. PICK t \in T : \A y \in T : ~ (<<y, t>> \in OpToRel(<, Nat))
    <3> HIDE DEF T
    <3> QED
      BY <1>1, <2>1, WFMin
  <2>3. \A y \in T : ~ (y < t)
    BY <2>1, <2>2 DEF OpToRel
  <2>4. PICK x \in S : t = n - x
    OBVIOUS
  <2>5. \A y \in S : n - y \in T /\ ~ (n - y < n - x)
    BY <2>3, <2>4
  <2>6. \A y \in S : y \in Int
    <3>1. \A y \in S : y \in 1..n
      OBVIOUS
    <3> QED
      BY <3>1
  <2> HIDE DEF T
  <2> QED
    BY <2>5, <2>6
<1> QED
  BY <1>2, <1>3 DEF Min, Max

\* A filtered sequence has the elements kept, in their order.
LEMMA FilteredFacts ==
  ASSUME NEW T, NEW s \in Seq(T), NEW keep
  PROVE  Filtered(s, keep) \in Seq(T)
BY FilteredLoop, LenProperties DEF Filterings

\* Filtering the places themselves gives those kept, ascending.
LEMMA FilteredSorted ==
  ASSUME NEW n \in Nat, NEW keep \in SUBSET (1..n), NEW p,
         p = Filtered([i \in 1..n |-> i], keep)
  PROVE  /\ p \in Seq(keep)
         /\ \A i \in keep : \E k \in DOMAIN p : p[k] = i
         /\ \A j, k \in DOMAIN p : j < k => p[j] < p[k]
<1>1. PICK s : s = [i \in 1..n |-> i]
  OBVIOUS
<1>2. s \in Seq(Nat) /\ Len(s) = n
  BY <1>1
<1>3. PICK g \in [0..n -> Seq(Nat)] :
        /\ g[0] = <<>> /\ g[n] = p
        /\ \A k \in 1..n : g[k] = IF k \in keep THEN Append(g[k - 1], s[k]) ELSE g[k - 1]
  <2>1. p = Filtered(s, keep)
    BY <1>1
  <2>2. Filterings(Nat, s, keep) # {}
    BY <1>2, FilteredLoop
  <2> QED
    BY <1>2, <2>1, <2>2 DEF Filterings
<1>0. \A i \in keep : i \in Int /\ 1 <= i /\ i <= n
  OBVIOUS
<1> DEFINE Good(q, m) == /\ q \in Seq({i \in keep : i <= m})
                         /\ \A i \in keep : i <= m => \E k \in DOMAIN q : q[k] = i
                         /\ \A j, k \in DOMAIN q : j < k => q[j] < q[k]
           S == {m \in 0..n : Good(g[m], m)}
<1>4. 0 \in S
  <2>1. Good(<<>>, 0)
    OBVIOUS
  <2> HIDE DEF Good
  <2> QED
    BY <1>3, <2>1
<1>5. ASSUME NEW m \in 0..n, m \in S, m < n PROVE m + 1 \in S
  <2>1. m + 1 \in 1..n /\ (m + 1) - 1 = m /\ m + 1 \in 0..n
    BY <1>5
  <2>2. g[m + 1] = IF m + 1 \in keep THEN Append(g[m], m + 1) ELSE g[m]
    BY <1>1, <1>3, <2>1
  <2>3. PICK q : q = g[m]
    OBVIOUS
  <2>4. Good(q, m)
    BY <1>5, <2>3
  <2>5. CASE m + 1 \in keep
    <3>1. PICK r : r = Append(q, m + 1)
      OBVIOUS
    <3>2. q \in Seq({i \in keep : i <= m + 1}) /\ m + 1 \in {i \in keep : i <= m + 1}
      <4>1. {i \in keep : i <= m} \subseteq {i \in keep : i <= m + 1}
        <5> SUFFICES ASSUME NEW i \in keep, i <= m PROVE i <= m + 1
          OBVIOUS
        <5> QED
          BY <1>0
      <4> QED
        BY <2>4, <2>5, <4>1
    <3>3. /\ r \in Seq({i \in keep : i <= m + 1})
          /\ Len(q) \in Nat /\ DOMAIN q = 1..Len(q) /\ DOMAIN r = 1..Len(q) + 1
          /\ \A k \in 1..Len(q) : r[k] = q[k]
          /\ r[Len(q) + 1] = m + 1
      BY <3>1, <3>2, AppendProperties, LenProperties
    <3>4. \A k \in 1..Len(q) : q[k] \in keep /\ q[k] <= m
      BY <2>4, <3>3, ElementOfSeq
    <3>5. \A i \in keep : i <= m + 1 => \E k \in DOMAIN r : r[k] = i
      <4> SUFFICES ASSUME NEW i \in keep, i <= m + 1 PROVE \E k \in DOMAIN r : r[k] = i
        OBVIOUS
      <4>1. CASE i <= m
        BY <2>4, <3>3, <4>1
      <4>2. CASE i = m + 1
        <5>1. Len(q) + 1 \in DOMAIN r
          BY <3>3
        <5> QED
          BY <3>3, <4>2, <5>1
      <4> QED
        BY <1>0, <4>1, <4>2
    <3>6. \A j, k \in DOMAIN r : j < k => r[j] < r[k]
      <4> SUFFICES ASSUME NEW j \in DOMAIN r, NEW k \in DOMAIN r, j < k PROVE r[j] < r[k]
        OBVIOUS
      <4>1. j \in 1..Len(q)
        BY <3>3
      <4>2. CASE k \in 1..Len(q)
        BY <2>4, <3>3, <4>1, <4>2
      <4>3. CASE k = Len(q) + 1
        <5>1. r[j] \in 1..n /\ r[j] <= m
          BY <1>0, <3>3, <3>4, <4>1
        <5>2. r[k] = m + 1
          BY <3>3, <4>3
        <5> QED
          BY <5>1, <5>2
      <4> QED
        BY <3>3, <4>2, <4>3
    <3>7. Good(r, m + 1)
      BY <3>3, <3>5, <3>6
    <3> HIDE DEF Good
    <3> QED
      BY <2>1, <2>2, <2>3, <2>5, <3>1, <3>7
  <2>6. CASE m + 1 \notin keep
    <3>1. ASSUME NEW i \in keep PROVE i <= m <=> i <= m + 1
      <4>1. i # m + 1 /\ i \in Int
        BY <1>0, <2>6
      <4> QED
        BY <4>1
    <3>2. {i \in keep : i <= m} = {i \in keep : i <= m + 1}
      BY <3>1
    <3>3. Good(q, m + 1)
      BY <2>4, <3>1, <3>2
    <3> HIDE DEF Good
    <3> QED
      BY <2>1, <2>2, <2>3, <2>6, <3>3
  <2> QED
    BY <2>5, <2>6
<1>6. 0..n \subseteq S
  <2> HIDE DEF S
  <2> QED
    BY <1>4, <1>5, Induction
<1>7. Good(p, n)
  <2> HIDE DEF Good
  <2> QED
    BY <1>3, <1>6
<1>8. \A i \in keep : i <= n
  BY <1>0
<1>9. {i \in keep : i <= n} = keep
  BY <1>8
<1> QED
  BY <1>7, <1>8, <1>9

-----------------------------------------------------------------------------
(* Texts and paths *)

\* The characters the code looks at are tokens.
LEMMA SpecialTokens ==
  /\ Quote \in Tokens /\ LF \in Tokens /\ CR \in Tokens /\ BOM \in Tokens
  /\ "CustomFields" \in Tokens /\ "site" \in Tokens /\ "Account" \in Tokens
  /\ "ImportedPasswords" \in Tokens /\ Delimiters \subseteq Tokens
<1> HIDE DEF Quote, LF, CR, BOM, Delimiters
<1> QED
  BY ImportAssumption

\* A trimmed text is a text.
LEMMA TrimType ==
  ASSUME NEW s \in Text
  PROVE  Trim(s) \in Text
<1>1. PICK n \in Nat : n = Len(s) /\ DOMAIN s = 1..n
  BY LenProperties DEF Text
<1>2. PICK kept \in SUBSET (1..n) : kept = {i \in DOMAIN s : s[i] \notin Space}
  BY <1>1
<1>3. CASE kept = {}
  <2>1. Trim(s) = <<>>
    BY <1>2, <1>3 DEF Trim
  <2> QED
    BY <2>1 DEF Text
<1>4. CASE kept # {}
  <2>1. PICK a, b \in 1..n : a = Min(kept) /\ b = Max(kept)
    BY <1>4, MinMax
  <2>2. SubSeq(s, a, b) \in Text
    <3>1. \A i \in a..b : s[i] \in Tokens
      BY <1>1, <2>1, ElementOfSeq DEF Text
    <3> QED
      BY <2>1, <3>1, SubSeqProperties DEF Text
  <2> QED
    BY <1>2, <1>4, <2>1, <2>2 DEF Trim
<1> QED
  BY <1>3, <1>4

\* Trimming a trimmed text changes nothing.
LEMMA TrimTwice ==
  ASSUME NEW s \in Text
  PROVE  Trim(Trim(s)) = Trim(s)
<1>1. PICK n \in Nat : n = Len(s) /\ DOMAIN s = 1..n
  BY LenProperties DEF Text
<1>2. PICK kept \in SUBSET (1..n) : kept = {i \in DOMAIN s : s[i] \notin Space}
  BY <1>1
<1>3. CASE kept = {}
  <2>1. Trim(s) = <<>>
    BY <1>2, <1>3 DEF Trim
  <2>2. Trim(<<>>) = <<>>
    BY DEF Trim
  <2> QED
    BY <2>1, <2>2
<1>4. CASE kept # {}
  <2>1. PICK a, b \in 1..n : /\ a = Min(kept) /\ b = Max(kept) /\ a \in kept /\ b \in kept
                             /\ a <= b
    BY <1>4, MinMax
  <2>2. PICK t : t = SubSeq(s, a, b)
    OBVIOUS
  <2>3. Trim(s) = t
    BY <1>2, <1>4, <2>1, <2>2 DEF Trim
  <2>4. PICK m \in Nat : m = b - a + 1 /\ m >= 1
    BY <2>1
  <2>5. /\ t \in Seq(Tokens) /\ Len(t) = m /\ DOMAIN t = 1..m
        /\ \A i \in 1..m : t[i] = s[a + i - 1]
    <3>1. a \in Int /\ b \in Int /\ a <= b /\ b - a + 1 = m
      BY <2>1, <2>4
    <3>2. \A i \in a..b : s[i] \in Tokens
      BY <1>1, <2>1, ElementOfSeq DEF Text
    <3>3. /\ t \in Seq(Tokens)
          /\ Len(t) = IF a <= b THEN b - a + 1 ELSE 0
          /\ \A i \in 1..(b - a + 1) : t[i] = s[a + i - 1]
      BY <2>2, <3>1, <3>2, SubSeqProperties
    <3>4. Len(t) = m /\ \A i \in 1..m : t[i] = s[a + i - 1]
      BY <3>1, <3>3
    <3> QED
      BY <3>3, <3>4, LenProperties
  <2>6. PICK trimmed \in SUBSET (1..m) : trimmed = {i \in DOMAIN t : t[i] \notin Space}
    BY <2>5
  <2>7. 1 \in trimmed /\ m \in trimmed
    <3>1. 1 \in 1..m /\ m \in 1..m /\ a + 1 - 1 = a /\ a + m - 1 = b
      BY <2>1, <2>4
    <3>2. t[1] = s[a] /\ t[m] = s[b]
      BY <2>5, <3>1
    <3>3. s[a] \notin Space /\ s[b] \notin Space
      BY <1>2, <2>1
    <3> HIDE DEF Space
    <3> QED
      BY <2>5, <2>6, <3>1, <3>2, <3>3
  <2>8. Min(trimmed) = 1 /\ Max(trimmed) = m
    <3>1. /\ Min(trimmed) \in trimmed /\ \A x \in trimmed : Min(trimmed) <= x
          /\ Max(trimmed) \in trimmed /\ \A x \in trimmed : Max(trimmed) >= x
      BY <2>7, MinMax
    <3>2. Min(trimmed) \in 1..m /\ Max(trimmed) \in 1..m
      BY <3>1
    <3>3. Min(trimmed) <= 1 /\ Max(trimmed) >= m
      BY <2>7, <3>1
    <3> QED
      BY <3>2, <3>3
  <2>9. SubSeq(t, 1, m) = t
    <3>1. PICK u : u = SubSeq(t, 1, m)
      OBVIOUS
    <3>2. u \in Seq(Tokens) /\ Len(u) = m /\ DOMAIN u = 1..m /\ \A i \in 1..m : u[i] = t[i]
      BY <2>4, <2>5, <3>1, SubSeqProperties
    <3> QED
      BY <2>5, <3>1, <3>2, SeqEqual
  <2>10. Trim(t) = SubSeq(t, 1, m)
    BY <2>6, <2>7, <2>8 DEF Trim
  <2> QED
    BY <2>3, <2>9, <2>10
<1> QED
  BY <1>3, <1>4

\* How sequences are joined.
Flattenings(T, ss) ==
  {g \in [0..Len(ss) -> Seq(T)] :
     /\ g[0] = <<>> /\ g[Len(ss)] = FlattenSeq(ss)
     /\ \A k \in 1..Len(ss) : g[k] = g[k - 1] \o ss[k]}

\* FlattenSeq appends one sequence after the other.
LEMMA FlattenLoop ==
  ASSUME NEW T, NEW ss \in Seq(Seq(T))
  PROVE  Flattenings(T, ss) # {}
<1>1. PICK n \in Nat : n = Len(ss)
  BY LenProperties
<1>2. \A k \in 1..n : ss[k] \in Seq(T)
  BY <1>1, ElementOfSeq
<1>3. PICK g \in [0..n -> Seq(T)] : g[0] = <<>> /\ \A k \in 1..n : g[k] = g[k - 1] \o ss[k]
  <2>1. PICK F : F = [k \in 1..n |-> [q \in Seq(T) |-> q \o ss[k]]]
    OBVIOUS
  <2>2. F \in Steps(n, Seq(T)) /\ <<>> \in Seq(T)
    BY <1>2, <2>1, ConcatProperties DEF Steps
  <2>3. Runs(n, Seq(T), <<>>, F) # {}
    BY <2>2, Loop
  <2>4. PICK g \in [0..n -> Seq(T)] : g[0] = <<>> /\ \A k \in 1..n : g[k] = F[k][g[k - 1]]
    BY <2>3 DEF Runs
  <2>5. ASSUME NEW k \in 1..n PROVE g[k] = g[k - 1] \o ss[k]
    <3>1. k - 1 \in 0..n
      OBVIOUS
    <3>2. g[k - 1] \in Seq(T)
      BY <3>1
    <3> QED
      BY <2>1, <2>4, <3>2
  <2> QED
    BY <2>4, <2>5
<1>4. CASE n = 0
  <2>1. ss = <<>>
    BY <1>1, <1>4, EmptySeq
  <2>2. FlattenSeq(ss) = <<>>
    BY <1>1, <1>4, <2>1 DEF FlattenSeq
  <2> QED
    BY <1>1, <1>3, <1>4, <2>2 DEF Flattenings
<1>5. CASE n # 0
  <2> DEFINE body(f) == [i \in 1..n |-> IF i = 1 THEN ss[i] ELSE f[i - 1] \o ss[i]]
  <2>1. PICK h : h = [i \in 1..n |-> g[i]]
    OBVIOUS
  <2>2. h = body(h)
    <3>1. ASSUME NEW i \in 1..n PROVE h[i] = body(h)[i]
      <4>1. CASE i = 1
        <5>1. g[1] = g[0] \o ss[1] /\ ss[1] \in Seq(T) /\ g[0] = <<>>
          <6>1. 1 \in 1..n /\ 1 - 1 = 0
            BY <4>1
          <6> QED
            BY <1>2, <1>3, <6>1
        <5>2. g[1] = ss[1]
          BY <5>1, ConcatEmptySeq
        <5> QED
          BY <2>1, <4>1, <5>2
      <4>2. CASE i # 1
        <5>1. i - 1 \in 1..n
          BY <4>2
        <5>2. h[i] = g[i] /\ h[i - 1] = g[i - 1]
          BY <2>1, <5>1
        <5> QED
          BY <1>3, <4>2, <5>2
      <4> QED
        BY <4>1, <4>2
    <3> QED
      BY <2>1, <3>1
  <2>3. PICK f : f = CHOOSE x : x = body(x)
    OBVIOUS
  <2>4. f = body(f)
    BY <2>2, <2>3
  <2>5. FlattenSeq(ss) = f[n]
    BY <1>1, <1>5, <2>3 DEF FlattenSeq
  <2>6. f[n] = h[n]
    <3>0. PICK m \in Nat : m = n - 1
      BY <1>5
    <3>1. PICK a, b : /\ a = [k \in 0..m |-> f[k + 1]]
                      /\ b = [k \in 0..m |-> h[k + 1]]
      OBVIOUS
    <3>2. a[0] = b[0]
      <4>1. f[1] = ss[1] /\ h[1] = ss[1]
        BY <1>5, <2>2, <2>4
      <4> QED
        BY <3>0, <3>1, <4>1
    <3>3. ASSUME NEW k \in 1..m, a[k - 1] = b[k - 1] PROVE a[k] = b[k]
      <4>1. k + 1 \in 1..n /\ k + 1 # 1 /\ (k + 1) - 1 = k /\ k - 1 \in 0..m /\ (k - 1) + 1 = k
              /\ k \in 0..m
        BY <3>0
      <4>2. f[k + 1] = f[k] \o ss[k + 1] /\ h[k + 1] = h[k] \o ss[k + 1]
        BY <2>2, <2>4, <4>1
      <4>3. f[k] = h[k]
        BY <3>1, <3>3, <4>1
      <4> QED
        BY <3>1, <4>1, <4>2, <4>3
    <3>4. a[m] = b[m]
      BY <3>2, <3>3, Determined
    <3> QED
      BY <3>0, <3>1, <3>4
  <2>7. FlattenSeq(ss) = g[n]
    BY <1>5, <2>1, <2>5, <2>6
  <2> QED
    BY <1>1, <1>3, <2>7 DEF Flattenings
<1> QED
  BY <1>4, <1>5

\* What it joins has the elements of what is joined.
LEMMA FlattenType ==
  ASSUME NEW T, NEW ss \in Seq(Seq(T))
  PROVE  FlattenSeq(ss) \in Seq(T)
<1>1. PICK g : g \in Flattenings(T, ss)
  BY FlattenLoop
<1>2. Len(ss) \in 0..Len(ss)
  BY LenProperties
<1> QED
  BY <1>1, <1>2 DEF Flattenings

\* A path is a sequence of trimmed names.
Names == {t \in Text : Trim(t) = t}

\* A folder value splits into names.
LEMMA PathType ==
  ASSUME NEW s \in Text
  PROVE  SplitFolderPath(s) \in Seq(Names)
<1>1. PICK n \in Nat : n = Len(s)
  BY LenProperties DEF Text
<1>2. \A k \in 1..n : s[k] \in Tokens
  BY <1>1, ElementOfSeq DEF Text
<1> DEFINE D == Seq(Text) \ {<<>>}
<1>3. ASSUME NEW k \in 1..n, NEW q \in D PROVE SplitAt(q, s[k]) \in D
  <2>1. Len(q) \in Nat /\ Len(q) # 0 /\ DOMAIN q = 1..Len(q)
    BY LenProperties, EmptySeq
  <2>2. CASE s[k] \in PathSeparators
    <3>1. <<>> \in Text
      BY DEF Text
    <3> QED
      BY <2>2, <3>1, AppendProperties DEF SplitAt
  <2>3. CASE s[k] \notin PathSeparators
    <3>1. q[Len(q)] \in Text
      BY <2>1, ElementOfSeq
    <3>2. PICK x \in Text : x = Append(q[Len(q)], s[k])
      BY <1>2, <3>1, AppendProperties DEF Text
    <3>3. [q EXCEPT ![Len(q)] = x] \in Seq(Text) /\ Len([q EXCEPT ![Len(q)] = x]) = Len(q)
      BY <2>1, ExceptSeq
    <3>4. [q EXCEPT ![Len(q)] = x] # <<>>
      BY <2>1, <3>3
    <3>5. SplitAt(q, s[k]) = [q EXCEPT ![Len(q)] = x]
      BY <2>3, <3>2 DEF SplitAt
    <3> QED
      BY <3>3, <3>4, <3>5
  <2> QED
    BY <2>2, <2>3
<1>4. PICK g \in [0..n -> D] : g[0] = <<<<>>>> /\ \A k \in 1..n : g[k] = SplitAt(g[k - 1], s[k])
  <2>1. PICK F : F = [k \in 1..n |-> [q \in D |-> SplitAt(q, s[k])]]
    OBVIOUS
  <2>2. F \in Steps(n, D)
    BY <1>3, <2>1 DEF Steps
  <2>3. <<<<>>>> \in D
    BY DEF Text
  <2>4. Runs(n, D, <<<<>>>>, F) # {}
    <3> HIDE DEF D
    <3> QED
      BY <2>2, <2>3, Loop
  <2>5. PICK g \in [0..n -> D] : g[0] = <<<<>>>> /\ \A k \in 1..n : g[k] = F[k][g[k - 1]]
    BY <2>4 DEF Runs
  <2>6. ASSUME NEW k \in 1..n PROVE g[k] = SplitAt(g[k - 1], s[k])
    <3>1. k - 1 \in 0..n
      OBVIOUS
    <3>2. g[k - 1] \in D
      BY <3>1
    <3> QED
      BY <2>1, <2>5, <3>2
  <2> QED
    BY <2>5, <2>6
<1> DEFINE body(f) == [k \in 0..n |-> IF k = 0 THEN <<<<>>>> ELSE SplitAt(f[k - 1], s[k])]
<1>5. g = body(g)
  <2>1. ASSUME NEW k \in 0..n PROVE g[k] = body(g)[k]
    <3>1. CASE k = 0
      BY <1>4, <3>1
    <3>2. CASE k # 0
      <4>1. k \in 1..n
        BY <3>2
      <4> QED
        BY <1>4, <3>2, <4>1
    <3> QED
      BY <3>1, <3>2
  <2> QED
    BY <2>1
<1>6. PICK f : f = CHOOSE h : h = body(h)
  OBVIOUS
<1>7. f = body(f)
  BY <1>5, <1>6
<1>8. f[n] = g[n]
  <2>1. f[0] = g[0]
    BY <1>4, <1>7
  <2>2. ASSUME NEW k \in 1..n, f[k - 1] = g[k - 1] PROVE f[k] = g[k]
    <3>1. k \in 0..n /\ k # 0
      OBVIOUS
    <3>2. f[k] = SplitAt(f[k - 1], s[k])
      BY <1>7, <3>1
    <3> QED
      BY <1>4, <2>2, <3>2
  <2> HIDE DEF body
  <2> QED
    BY <2>1, <2>2, Determined
<1>9. PICK q \in Seq(Text) : q = f[n]
  BY <1>8
<1>10. PICK trimmed : trimmed = [i \in DOMAIN q |-> Trim(q[i])]
  OBVIOUS
<1>11. SplitFolderPath(s) = Filtered(trimmed, {i \in DOMAIN trimmed : trimmed[i] # <<>>})
  BY <1>1, <1>6, <1>9, <1>10 DEF SplitFolderPath
<1>12. trimmed \in Seq(Names)
  <2>1. Len(q) \in Nat /\ DOMAIN q = 1..Len(q)
    BY LenProperties
  <2>2. \A i \in 1..Len(q) : Trim(q[i]) \in Names
    BY ElementOfSeq, TrimType, TrimTwice DEF Names
  <2> QED
    BY <1>10, <2>1, <2>2
<1> QED
  BY <1>11, <1>12, FilteredFacts

-----------------------------------------------------------------------------
(* What is read *)

Groups == [name : Text, parent : Nat, live : BOOLEAN]
Entries == [content : Contents, group : Nat]
Previews == [id : Nat, folder : Text, selected : BOOLEAN, content : Contents]

\* Joined texts are a text.
LEMMA JoinType ==
  ASSUME NEW s \in Seq(Text), NEW sep \in Text
  PROVE  Join(s, sep) \in Text
<1>1. PICK ss : ss = [i \in DOMAIN s |-> IF i = 1 THEN s[i] ELSE sep \o s[i]]
  OBVIOUS
<1>2. ss \in Seq(Seq(Tokens))
  <2>1. Len(s) \in Nat /\ DOMAIN s = 1..Len(s)
    BY LenProperties
  <2>2. ASSUME NEW i \in 1..Len(s) PROVE ss[i] \in Seq(Tokens)
    <3>1. s[i] \in Seq(Tokens) /\ sep \in Seq(Tokens)
      BY ElementOfSeq DEF Text
    <3>2. sep \o s[i] \in Seq(Tokens)
      BY <3>1, ConcatProperties
    <3> QED
      BY <1>1, <2>1, <3>1, <3>2
  <2> QED
    BY <1>1, <2>1, <2>2
<1> QED
  BY <1>1, <1>2, FlattenType DEF Join, Text

\* Doubling the quotes of a text gives a text.
LEMMA EscapedType ==
  ASSUME NEW s \in Text
  PROVE  Escaped(s) \in Text
<1>1. PICK ss : ss = [i \in DOMAIN s |-> IF s[i] = Quote THEN <<Quote, Quote>> ELSE <<s[i]>>]
  OBVIOUS
<1>2. ss \in Seq(Seq(Tokens))
  <2>1. Len(s) \in Nat /\ DOMAIN s = 1..Len(s)
    BY LenProperties DEF Text
  <2>2. ASSUME NEW i \in 1..Len(s) PROVE ss[i] \in Seq(Tokens)
    <3>1. s[i] \in Tokens /\ Quote \in Tokens
      BY ElementOfSeq, SpecialTokens DEF Text
    <3>2. <<Quote, Quote>> \in Seq(Tokens) /\ <<s[i]>> \in Seq(Tokens)
      BY <3>1
    <3> QED
      BY <1>1, <2>1, <3>2
  <2> QED
    BY <1>1, <2>1, <2>2
<1> QED
  BY <1>1, <1>2, FlattenType DEF Escaped, Text

\* What an exporting program writes for a field is a text.
LEMMA FieldType ==
  ASSUME NEW s \in Text, NEW delimiter, NEW always
  PROVE  WriteField(s, delimiter, always) \in Text
<1>1. PICK e \in Seq(Tokens) : e = Escaped(s)
  BY EscapedType DEF Text
<1>2. PICK q \in Seq(Tokens) : q = <<Quote>>
  <2>1. <<Quote>> \in Seq(Tokens)
    <3> HIDE DEF Quote
    <3> QED
      BY SpecialTokens
  <2> QED
    BY <2>1
<1>3. (q \o e) \o q \in Seq(Tokens)
  BY ConcatProperties
<1> QED
  BY <1>1, <1>2, <1>3 DEF WriteField, Text

\* So is what it writes for a table.
LEMMA TableType ==
  ASSUME NEW t \in Seq(Seq(Text)), NEW delimiter \in Delimiters, NEW always,
         NEW eol \in Text, NEW lastEol \in BOOLEAN
  PROVE  WriteTable(t, delimiter, always, eol, lastEol) \in Text
<1> DEFINE fields(r) == [i \in DOMAIN r |-> WriteField(r[i], delimiter, always)]
           line(r) == Join(fields(r), <<delimiter>>)
<1>1. ASSUME NEW r \in Seq(Text) PROVE line(r) \in Text
  <2>1. <<delimiter>> \in Text
    BY SpecialTokens DEF Text
  <2>2. fields(r) \in Seq(Text)
    <3>1. Len(r) \in Nat /\ DOMAIN r = 1..Len(r)
      BY LenProperties
    <3>2. \A i \in 1..Len(r) : WriteField(r[i], delimiter, always) \in Text
      BY ElementOfSeq, FieldType
    <3> QED
      BY <3>1, <3>2
  <2> HIDE DEF fields
  <2> QED
    BY <2>1, <2>2, JoinType
<1>2. PICK lines : lines = [i \in DOMAIN t |-> line(t[i])]
  OBVIOUS
<1>3. lines \in Seq(Text)
  <2>1. Len(t) \in Nat /\ DOMAIN t = 1..Len(t)
    BY LenProperties
  <2>2. \A i \in 1..Len(t) : line(t[i]) \in Text
    BY <1>1, ElementOfSeq
  <2> HIDE DEF line
  <2> QED
    BY <1>2, <2>1, <2>2
<1>4. PICK j \in Seq(Tokens) : j = Join(lines, eol)
  BY <1>3, JoinType DEF Text
<1>5. PICK e \in Seq(Tokens) : e = IF lastEol THEN eol ELSE <<>>
  <2>1. (IF lastEol THEN eol ELSE <<>>) \in Seq(Tokens)
    BY DEF Text
  <2> QED
    BY <2>1
<1>6. j \o e \in Seq(Tokens)
  BY ConcatProperties
<1>7. WriteTable(t, delimiter, always, eol, lastEol) = j \o e
  BY <1>2, <1>4, <1>5 DEF WriteTable
<1> QED
  BY <1>6, <1>7 DEF Text

\* So is the whole file.
LEMMA WrittenType ==
  ASSUME NEW t \in Seq(Seq(Text)), NEW w, Writes(w, t)
  PROVE  w \in Text
<1>1. PICK bom \in {<<>>, <<BOM>>}, delimiter \in Delimiters,
           always \in BOOLEAN, lastEol \in BOOLEAN,
           eol \in {<<LF>>, <<CR>>, <<CR, LF>>} :
        w = bom \o WriteTable(t, delimiter, always, eol, lastEol)
  BY DEF Writes
<1>2. eol \in Text /\ bom \in Seq(Tokens)
  <2> HIDE DEF LF, CR, BOM
  <2>1. <<LF>> \in Text /\ <<CR>> \in Text /\ <<CR, LF>> \in Text
    BY SpecialTokens DEF Text
  <2>2. <<BOM>> \in Seq(Tokens) /\ <<>> \in Seq(Tokens)
    BY SpecialTokens
  <2> QED
    BY <2>1, <2>2
<1>3. PICK x \in Seq(Tokens) : x = WriteTable(t, delimiter, always, eol, lastEol)
  BY <1>2, TableType DEF Text
<1> QED
  BY <1>1, <1>2, <1>3, ConcatProperties DEF Text

\* The first column that has something holds a text.
LEMMA GetFieldType ==
  ASSUME NEW r \in Seq(Text), NEW header, NEW keys, NEW trim
  PROVE  GetField(r, header, keys, trim) \in Text
<1> DEFINE names == Words(header)
           at(key) == {i \in DOMAIN names : names[i] = <<key>>}
           value(key) ==
             LET i == Min(at(key)) IN
             IF at(key) = {} \/ i \notin DOMAIN r THEN <<>>
             ELSE IF trim THEN Trim(r[i]) ELSE r[i]
           found == {k \in DOMAIN keys : value(keys[k]) # <<>>}
<1>1. ASSUME NEW key PROVE value(key) \in Text
  <2>1. PICK i : i = Min(at(key))
    OBVIOUS
  <2>2. CASE at(key) = {} \/ i \notin DOMAIN r
    <3>1. value(key) = <<>>
      BY <2>1, <2>2
    <3> HIDE DEF value
    <3> QED
      BY <3>1 DEF Text
  <2>3. CASE ~(at(key) = {} \/ i \notin DOMAIN r)
    <3>1. i \in 1..Len(r)
      BY <2>3, LenProperties
    <3>2. r[i] \in Text
      BY <3>1, ElementOfSeq
    <3>3. value(key) = IF trim THEN Trim(r[i]) ELSE r[i]
      BY <2>1, <2>3
    <3> HIDE DEF value
    <3> QED
      BY <3>2, <3>3, TrimType
  <2> QED
    BY <2>2, <2>3
<1>2. GetField(r, header, keys, trim) =
        IF found = {} THEN <<>> ELSE value(keys[Min(found)])
  BY DEF GetField
<1>3. <<>> \in Text
  BY DEF Text
<1> HIDE DEF value, found
<1> QED
  BY <1>1, <1>2, <1>3

\* A row becomes an entry to preview.
LEMMA MapType ==
  ASSUME NEW r \in Seq(Text), NEW header, NEW provider, NEW index \in Nat
  PROVE  MapRowToEntry(r, header, provider, index) \in Previews
<1> DEFINE columns == Columns(provider)
           part(name) == GetField(r, header, columns[name], name # "password")
<1>1. PICK url \in Text : url = IF provider = "lastpass" /\ part("url") = <<"snURL">>
                                THEN <<>> ELSE part("url")
  <2>1. <<>> \in Text
    BY DEF Text
  <2> QED
    BY <2>1, GetFieldType
<1>2. PICK fields \in Text : fields = GetField(r, header, <<"fields">>, TRUE)
  BY GetFieldType
<1>3. PICK plain \in Text : plain = part("notes")
  BY GetFieldType
<1>4. PICK notes \in Text : notes = IF provider = "bitwarden" /\ fields # <<>>
                                    THEN plain \o <<"CustomFields">> \o fields ELSE plain
  <2>1. PICK q \in Seq(Tokens) : q = <<"CustomFields">>
    <3>1. <<"CustomFields">> \in Seq(Tokens)
      BY SpecialTokens
    <3> QED
      BY <3>1
  <2>2. plain \o q \in Seq(Tokens)
    BY ConcatProperties DEF Text
  <2>3. (plain \o q) \o fields \in Text
    BY <2>2, ConcatProperties DEF Text
  <2> QED
    BY <2>1, <2>3
<1>5. PICK username, password, totp, folder \in Text :
        /\ username = part("username") /\ password = part("password")
        /\ totp = part("totpSeed") /\ folder = part("folder")
  BY GetFieldType
<1>6. PICK named \in Text : named = part("title")
  BY GetFieldType
<1> HIDE DEF part, columns
<1>7. PICK title : title =
        CASE named # <<>> -> named
          [] url # <<>> -> Host(url)
          [] username # <<>> -> username
          [] password # <<>> \/ notes # <<>> -> <<"Account", index>>
          [] OTHER -> NoTitle
  OBVIOUS
<1>8. title \in Seq(Tokens \cup Nat)
  <2>1. \A s \in Text : s \in Seq(Tokens \cup Nat)
    BY DEF Text
  <2>2. Host(url) \in Text
    BY SpecialTokens DEF Host, Text
  <2>3. <<"Account", index>> \in Seq(Tokens \cup Nat)
    BY SpecialTokens
  <2>4. NoTitle \in Text
    BY DEF NoTitle, Text
  <2>5. title \in {named, Host(url), username, <<"Account", index>>, NoTitle}
    BY <1>7
  <2> QED
    BY <2>1, <2>2, <2>3, <2>4, <2>5
<1>9. MapRowToEntry(r, header, provider, index) =
        [id |-> index, folder |-> folder, selected |-> TRUE,
         content |-> [title |-> title, username |-> username, password |-> password,
                      url |-> url, notes |-> notes, totpSeed |-> totp]]
  BY <1>1, <1>2, <1>3, <1>4, <1>5, <1>6, <1>7 DEF MapRowToEntry, part, columns
<1> QED
  BY <1>8, <1>9 DEF Previews, Contents

\* The rows below the first become the entries to preview.
LEMMA PreviewType ==
  ASSUME NEW found \in Seq(Seq(Text)), NEW provider
  PROVE  ParseAndPreview(found, provider) \in Seq(Previews)
<1>1. CASE found = <<>>
  BY <1>1 DEF ParseAndPreview
<1>2. CASE found # <<>>
  <2>1. PICK n \in Nat : n = Len(found) /\ n # 0
    BY <1>2, LenProperties, EmptySeq
  <2>2. PICK effective : effective = IF provider = "auto" THEN Detect(found[1]) ELSE provider
    OBVIOUS
  <2>3. PICK mapped : mapped = [i \in 1..n - 1 |-> MapRowToEntry(found[i + 1], found[1], effective, i)]
    OBVIOUS
  <2>4. \A i \in 1..n - 1 : i \in Nat /\ found[i + 1] \in Seq(Text)
    BY <2>1, ElementOfSeq
  <2>5. \A i \in 1..n - 1 : mapped[i] \in Previews
    BY <2>3, <2>4, MapType
  <2>6. mapped \in Seq(Previews)
    BY <2>1, <2>3, <2>5
  <2>7. ParseAndPreview(found, provider) =
          Filtered(mapped, {i \in DOMAIN mapped : mapped[i].content.title # NoTitle})
    BY <1>2, <2>1, <2>2, <2>3 DEF ParseAndPreview
  <2> QED
    BY <2>6, <2>7, FilteredFacts
<1> QED
  BY <1>1, <1>2

-----------------------------------------------------------------------------
(* Types *)

Rows == Seq(Seq(Text))

\* Folders in the order in which they were created: parents come first, and
\* the vault's own, above all, is live.
Trees ==
  {gs \in Seq(Groups) :
     /\ gs # <<>> /\ gs[1].live
     /\ \A g \in DOMAIN gs \ {1} : gs[g].parent \in 1..g - 1}

Scanned ==
  /\ table \in Rows /\ text \in Text /\ pos \in Nat \ {0}
  /\ rows \in Rows /\ row \in Seq(Text) /\ field \in Text
  /\ records \in Rows

Typed ==
  /\ Scanned
  /\ previewEntries \in Seq(Previews)
  /\ groups \in Trees
  /\ entries \in Seq(Entries)
  /\ \A i \in DOMAIN entries : entries[i].group \in DOMAIN groups
  /\ imports \in Nat /\ failed \in BOOLEAN

\* At the start everything has its type.
LEMMA TypedInit == Init => Typed
<1> SUFFICES ASSUME Init PROVE Typed
  OBVIOUS
<1> HIDE DEF Writes, Start
<1>1. table \in Rows
  BY ImportAssumption DEF Init, Rows
<1>2. text \in Text
  BY <1>1, WrittenType DEF Init, Rows
<1>3. pos \in Nat \ {0}
  BY DEF Init, Start
<1>4. rows \in Rows /\ row \in Seq(Text) /\ field \in Text /\ records \in Rows
  BY DEF Init, Rows, Text
<1>5. previewEntries \in Seq(Previews) /\ imports \in Nat /\ failed \in BOOLEAN
  <2>1. <<>> \in Seq(Previews)
    OBVIOUS
  <2> QED
    BY <2>1 DEF Init
<1>6. groups \in Trees
  <2>1. FirstGroups \in Seq(Groups)
    BY ImportAssumption DEF Groups
  <2> QED
    BY <2>1, ImportAssumption DEF Init, Trees
<1>7. entries \in Seq(Entries) /\ \A i \in DOMAIN entries : entries[i].group \in DOMAIN groups
  <2>1. PICK N \in Nat : N = Len(FirstGroups) /\ DOMAIN FirstGroups = 1..N
    BY ImportAssumption, LenProperties
  <2>2. FirstEntries \in Seq([content : Contents, group : 1..N])
    BY <2>1, ImportAssumption
  <2>3. Len(FirstEntries) \in Nat /\ DOMAIN FirstEntries = 1..Len(FirstEntries)
    BY <2>2, LenProperties
  <2>4. \A i \in 1..Len(FirstEntries) : FirstEntries[i] \in [content : Contents, group : 1..N]
    BY <2>2, ElementOfSeq
  <2>5. \A i \in 1..Len(FirstEntries) : FirstEntries[i] \in Entries
    BY <2>4 DEF Entries
  <2>6. FirstEntries \in Seq(Entries)
    BY <2>2, <2>3, <2>5
  <2> QED
    BY <2>1, <2>3, <2>4, <2>6 DEF Init
<1> QED
  BY <1>1, <1>2, <1>3, <1>4, <1>5, <1>6, <1>7 DEF Typed, Scanned

\* A row is kept or left out, and the rows stay rows.
LEMMA KeptType ==
  ASSUME Scanned
  PROVE  Kept(Append(row, field)) \in Rows
<1>1. Append(row, field) \in Seq(Text)
  BY AppendProperties DEF Scanned
<1>2. \A r \in Seq(Text) : Append(rows, r) \in Seq(Seq(Text))
  BY AppendProperties DEF Scanned, Rows
<1> QED
  BY <1>1, <1>2 DEF Scanned, Rows, Kept

\* A step of the parser keeps its variables what they are.
LEMMA ScannedKept ==
  ASSUME Scanned, ScanQuoted \/ ScanField \/ ScanLineEnd \/ ScanEnd
  PROVE  Scanned'
<1>1. <<>> \in Text /\ <<>> \in Seq(Text) /\ <<>> \in Rows
  BY DEF Text, Rows
<1>2. Scanning => Char \in Tokens
  <2> SUFFICES ASSUME Scanning PROVE Char \in Tokens
    OBVIOUS
  <2>1. Len(text) \in Nat /\ pos \in 1..Len(text)
    BY LenProperties DEF Scanning, AtEnd, Scanned, Text
  <2> QED
    BY <2>1, ElementOfSeq DEF Scanned, Text, Char
<1>3. \A x \in Tokens : Append(field, x) \in Text
  BY AppendProperties DEF Scanned, Text
<1>4. \A x \in Text : Append(row, x) \in Seq(Text)
  BY AppendProperties DEF Scanned
<1>5. pos \in Nat \ {0} => pos + 1 \in Nat \ {0} /\ pos + 2 \in Nat \ {0}
  OBVIOUS
<1>6. CASE ScanQuoted
  <2>1. field' \in Text /\ pos' \in Nat \ {0}
    <3> HIDE DEF Quote, Text
    <3> QED
      BY <1>2, <1>3, <1>5, <1>6, SpecialTokens DEF ScanQuoted, Read, Scanned
  <2> QED
    BY <1>6, <2>1 DEF ScanQuoted, Scanned
<1>7. CASE ScanField
  <2> HIDE DEF Text, Quote, Delimiter, Char
  <2>1. field' \in Text /\ pos' \in Nat \ {0} /\ row' \in Seq(Text)
    BY <1>1, <1>2, <1>3, <1>4, <1>5, <1>7 DEF ScanField, Read, Scanned
  <2> QED
    BY <1>7, <2>1 DEF ScanField, Scanned
<1>8. CASE ScanLineEnd
  <2> HIDE DEF Text
  <2>1. pos' \in Nat \ {0}
    BY <1>5, <1>8 DEF ScanLineEnd, Read, LineEndWidth, Scanned
  <2> QED
    BY <1>1, <1>8, <2>1, KeptType DEF ScanLineEnd, Read, Scanned
<1>9. CASE ScanEnd
  <2> HIDE DEF Text
  <2>1. records' \in Rows
    BY <1>9, KeptType DEF ScanEnd, Scanned
  <2> QED
    BY <1>1, <1>9, <2>1 DEF ScanEnd, Scanned
<1> QED
  BY <1>6, <1>7, <1>8, <1>9

\* The dialog keeps its entries what they are.
LEMMA PreviewsKept ==
  ASSUME Typed,
         \/ \E p \in Preferred : HandleProcessCsv(p)
         \/ \E i \in DOMAIN previewEntries : ToggleSelectEntry(i)
         \/ \E checked \in BOOLEAN : ToggleSelectAll(checked)
         \/ Reopen
  PROVE  previewEntries' \in Seq(Previews)
<1>1. PICK n \in Nat : n = Len(previewEntries) /\ DOMAIN previewEntries = 1..n
  BY LenProperties DEF Typed
<1>2. \A i \in 1..n : previewEntries[i] \in Previews
  BY <1>1, ElementOfSeq DEF Typed
<1>3. CASE \E p \in Preferred : HandleProcessCsv(p)
  BY <1>3, PreviewType DEF HandleProcessCsv, Typed, Scanned, Rows
<1>4. CASE \E i \in DOMAIN previewEntries : ToggleSelectEntry(i)
  <2>1. PICK i \in 1..n : previewEntries' = [previewEntries EXCEPT ![i].selected = ~@]
    BY <1>1, <1>4 DEF ToggleSelectEntry
  <2>2. [previewEntries[i] EXCEPT !.selected = ~@] \in Previews
    BY <1>2 DEF Previews
  <2>3. \A j \in 1..n : previewEntries'[j] \in Previews
    BY <1>1, <1>2, <2>1, <2>2
  <2>4. previewEntries' = [j \in 1..n |-> previewEntries'[j]]
    BY <1>1, <2>1
  <2> QED
    BY <2>3, <2>4
<1>5. CASE \E checked \in BOOLEAN : ToggleSelectAll(checked)
  <2>1. PICK checked \in BOOLEAN :
          previewEntries' = [i \in 1..n |-> [previewEntries[i] EXCEPT !.selected = checked]]
    BY <1>1, <1>5 DEF ToggleSelectAll
  <2>2. \A j \in 1..n : previewEntries'[j] \in Previews
    BY <1>2, <2>1 DEF Previews
  <2> QED
    BY <2>1, <2>2
<1>6. CASE Reopen
  BY <1>6 DEF Reopen
<1> QED
  BY <1>3, <1>4, <1>5, <1>6

-----------------------------------------------------------------------------
(* Folders *)

\* A text in lower case.
LEMMA LowerType ==
  ASSUME NEW s \in Text
  PROVE  LowerCase(s) \in Seq(Tokens \cup {"work", "title"})
<1>1. Len(s) \in Nat /\ DOMAIN s = 1..Len(s)
  BY LenProperties DEF Text
<1>2. \A i \in 1..Len(s) : s[i] \in Tokens
  BY ElementOfSeq DEF Text
<1>3. \A t \in Tokens : Lower(t) \in Tokens \cup {"work", "title"}
  BY DEF Lower
<1> QED
  BY <1>1, <1>2, <1>3 DEF LowerCase

Paths == Seq(Seq(Tokens \cup {"work", "title"}))

Step(gs, g) == LowerCase(Trim(gs[g].name))

\* f gives every one of the first n folders its path.
PathsOf(f, gs, n) ==
  \A g \in 1..n : f[g] = IF g = 1 THEN <<>>
                         ELSE Append(f[gs[g].parent], Step(gs, g))

\* What being a tree says of each folder.
LEMMA TreeFacts ==
  ASSUME NEW gs \in Trees
  PROVE  /\ Len(gs) \in Nat \ {0} /\ DOMAIN gs = 1..Len(gs)
         /\ gs \in Seq(Groups)
         /\ \A g \in 1..Len(gs) :
              /\ gs[g].name \in Text /\ gs[g].live \in BOOLEAN
              /\ Step(gs, g) \in Seq(Tokens \cup {"work", "title"})
              /\ g # 1 => gs[g].parent \in 1..g - 1
         /\ gs[1].live
<1>1. gs \in Seq(Groups) /\ gs # <<>> /\ gs[1].live
  BY DEF Trees
<1>2. Len(gs) \in Nat \ {0} /\ DOMAIN gs = 1..Len(gs)
  BY <1>1, LenProperties, EmptySeq
<1>3. \A g \in 1..Len(gs) : gs[g].name \in Text /\ gs[g].live \in BOOLEAN
  <2>1. \A g \in 1..Len(gs) : gs[g] \in Groups
    BY <1>1, ElementOfSeq
  <2> QED
    BY <2>1 DEF Groups
<1>4. \A g \in 1..Len(gs) : Step(gs, g) \in Seq(Tokens \cup {"work", "title"})
  BY <1>3, TrimType, LowerType DEF Step
<1>5. \A g \in 1..Len(gs) : g # 1 => gs[g].parent \in 1..g - 1
  BY <1>2 DEF Trees
<1> QED
  BY <1>1, <1>2, <1>3, <1>4, <1>5

\* Every folder of a tree has a path.
LEMMA PathsExist ==
  ASSUME NEW gs \in Trees
  PROVE  \E f \in [1..Len(gs) -> Paths] : PathsOf(f, gs, Len(gs))
<1>1. PICK n \in Nat : n = Len(gs) /\ n # 0
  BY TreeFacts
<1> DEFINE Upto(m) == \E f \in [1..m -> Paths] : PathsOf(f, gs, m)
           S == {m \in 0..n : Upto(m)}
<1>2. 0 \in S
  <2>1. PICK f : f = [k \in 1..0 |-> <<>>]
    OBVIOUS
  <2>2. f \in [1..0 -> Paths] /\ PathsOf(f, gs, 0)
    BY <2>1 DEF PathsOf
  <2>3. Upto(0)
    BY <2>2
  <2> HIDE DEF Upto
  <2> QED
    BY <2>3
<1>3. ASSUME NEW m \in 0..n, m \in S, m < n PROVE m + 1 \in S
  <2>1. PICK f \in [1..m -> Paths] : PathsOf(f, gs, m)
    BY <1>3
  <2>2. m + 1 \in 1..n /\ m + 1 \in 0..n
    BY <1>3
  <2>3. PICK last : last = IF m + 1 = 1 THEN <<>>
                           ELSE Append(f[gs[m + 1].parent], Step(gs, m + 1))
    OBVIOUS
  <2>4. last \in Paths
    <3>1. CASE m + 1 = 1
      BY <2>3, <3>1 DEF Paths
    <3>2. CASE m + 1 # 1
      <4>1. gs[m + 1].parent \in 1..m
        BY <1>1, <2>2, <3>2, TreeFacts
      <4>2. f[gs[m + 1].parent] \in Paths
        BY <4>1
      <4>3. Step(gs, m + 1) \in Seq(Tokens \cup {"work", "title"})
        BY <1>1, <2>2, TreeFacts
      <4> QED
        BY <2>3, <3>2, <4>2, <4>3, AppendProperties DEF Paths
    <3> QED
      BY <3>1, <3>2
  <2>5. PICK h : h = [k \in 1..m + 1 |-> IF k <= m THEN f[k] ELSE last]
    OBVIOUS
  <2>6. h \in [1..m + 1 -> Paths] /\ h[m + 1] = last /\ \A k \in 1..m : h[k] = f[k]
    BY <2>1, <2>2, <2>4, <2>5
  <2>7. ASSUME NEW g \in 1..m + 1
        PROVE  h[g] = IF g = 1 THEN <<>> ELSE Append(h[gs[g].parent], Step(gs, g))
    <3>1. CASE g = 1
      <4>1. CASE m = 0
        BY <2>3, <2>6, <3>1, <4>1
      <4>2. CASE m # 0
        <5>1. 1 \in 1..m
          BY <4>2
        <5> QED
          BY <2>1, <2>6, <3>1, <5>1 DEF PathsOf
      <4> QED
        BY <4>1, <4>2
    <3>2. CASE g # 1
      <4>1. gs[g].parent \in 1..g - 1 /\ gs[g].parent \in 1..m
        <5>1. g \in 1..n
          BY <2>2
        <5> QED
          BY <1>1, <3>2, <5>1, TreeFacts
      <4>2. h[gs[g].parent] = f[gs[g].parent]
        BY <2>6, <4>1
      <4>3. CASE g = m + 1
        BY <2>3, <2>6, <3>2, <4>2, <4>3
      <4>4. CASE g # m + 1
        <5>1. g \in 1..m
          BY <4>4
        <5>2. f[g] = Append(f[gs[g].parent], Step(gs, g))
          BY <2>1, <3>2, <5>1 DEF PathsOf
        <5> QED
          BY <2>6, <3>2, <4>2, <5>1, <5>2
      <4> QED
        BY <4>3, <4>4
    <3> QED
      BY <3>1, <3>2
  <2>8. Upto(m + 1)
    BY <2>6, <2>7 DEF PathsOf
  <2> HIDE DEF Upto
  <2> QED
    BY <2>2, <2>8
<1>4. 0..n \subseteq S
  <2> HIDE DEF S
  <2> QED
    BY <1>2, <1>3, Induction
<1>5. n \in S
  BY <1>4
<1> QED
  BY <1>1, <1>5

\* Folders that are the same have the same paths.
LEMMA PathsAgree ==
  ASSUME NEW gs \in Trees, NEW n \in Nat, n <= Len(gs), NEW hs,
         \A g \in 1..n : hs[g] = gs[g],
         NEW f, PathsOf(f, gs, n), NEW h, PathsOf(h, hs, n)
  PROVE  \A g \in 1..n : f[g] = h[g]
<1> DEFINE S == {m \in 0..n : \A g \in 1..m : f[g] = h[g]}
<1>1. 0 \in S
  OBVIOUS
<1>2. ASSUME NEW m \in 0..n, m \in S, m < n PROVE m + 1 \in S
  <2>1. m + 1 \in 1..n /\ \A g \in 1..m : f[g] = h[g]
    BY <1>2
  <2>2. m + 1 \in 1..Len(gs)
    BY <2>1, TreeFacts
  <2>3. f[m + 1] = h[m + 1]
    <3>1. CASE m + 1 = 1
      BY <2>1, <3>1 DEF PathsOf
    <3>2. CASE m + 1 # 1
      <4>1. gs[m + 1].parent \in 1..m /\ hs[m + 1] = gs[m + 1]
        BY <2>1, <2>2, <3>2, TreeFacts
      <4>2. Step(hs, m + 1) = Step(gs, m + 1)
        BY <4>1 DEF Step
      <4>3. f[gs[m + 1].parent] = h[gs[m + 1].parent]
        BY <2>1, <4>1
      <4> QED
        BY <2>1, <3>2, <4>1, <4>2, <4>3 DEF PathsOf
    <3> QED
      BY <3>1, <3>2
  <2>4. \A g \in 1..m + 1 : g \in 1..m \/ g = m + 1
    OBVIOUS
  <2> QED
    BY <2>1, <2>3, <2>4
<1>3. 0..n \subseteq S
  <2> HIDE DEF S
  <2> QED
    BY <1>1, <1>2, Induction
<1>4. n \in S
  BY <1>3
<1> QED
  BY <1>4

\* FoldedPaths gives every folder its path.
LEMMA PathsFacts ==
  ASSUME NEW gs \in Trees
  PROVE  /\ FoldedPaths(gs) \in [1..Len(gs) -> Paths]
         /\ PathsOf(FoldedPaths(gs), gs, Len(gs))
<1>1. PICK n \in Nat : n = Len(gs) /\ DOMAIN gs = 1..n
  BY TreeFacts
<1>2. PICK f \in [1..n -> Paths] : PathsOf(f, gs, n)
  BY <1>1, PathsExist
<1> DEFINE body(h) == [g \in 1..n |-> IF g = RootGroup THEN <<>>
                         ELSE Append(h[gs[g].parent], LowerCase(Trim(gs[g].name)))]
<1>3. f = body(f)
  <2>1. \A g \in 1..n : f[g] = body(f)[g]
    BY <1>2 DEF PathsOf, Step, RootGroup
  <2> QED
    BY <2>1
<1>4. PICK h : h = CHOOSE x : x = body(x)
  OBVIOUS
<1>5. h = body(h)
  BY <1>3, <1>4
<1>6. FoldedPaths(gs) = h
  BY <1>1, <1>4 DEF FoldedPaths
<1>7. PathsOf(h, gs, n)
  BY <1>5 DEF PathsOf, Step, RootGroup
<1>8. \A g \in 1..n : h[g] = f[g]
  BY <1>1, <1>2, <1>7, PathsAgree
<1>9. h \in [1..n -> Paths]
  BY <1>2, <1>5, <1>8
<1> QED
  BY <1>1, <1>6, <1>7, <1>9

\* hs has the folders of gs and perhaps more.
Grown(gs, hs) ==
  /\ Len(gs) <= Len(hs)
  /\ \A g \in 1..Len(gs) : hs[g] = gs[g]

\* Folders that are added leave the paths of the others alone.
LEMMA GrownPaths ==
  ASSUME NEW gs \in Trees, NEW hs \in Trees, Grown(gs, hs)
  PROVE  \A g \in 1..Len(gs) : FoldedPaths(hs)[g] = FoldedPaths(gs)[g]
<1>1. PICK n \in Nat : n = Len(gs)
  BY TreeFacts
<1>2. PICK f : f = FoldedPaths(gs)
  OBVIOUS
<1>3. PICK h : h = FoldedPaths(hs)
  OBVIOUS
<1>4. PathsOf(f, gs, n)
  BY <1>1, <1>2, PathsFacts
<1>5. PathsOf(h, hs, n)
  <2>1. PathsOf(h, hs, Len(hs)) /\ Len(hs) \in Nat
    BY <1>3, PathsFacts, TreeFacts
  <2> QED
    BY <1>1, <2>1 DEF PathsOf, Grown
<1>6. \A g \in 1..n : f[g] = h[g]
  <2>1. n <= Len(gs) /\ \A g \in 1..n : hs[g] = gs[g]
    BY <1>1 DEF Grown
  <2> QED
    BY <1>4, <1>5, <2>1, PathsAgree
<1> QED
  BY <1>1, <1>2, <1>3, <1>6

-----------------------------------------------------------------------------
(* Importing into the folders the file names *)

\* The values of a loop that is in D[k] after its k-th step.
Chains(n, D, b, F) ==
  {g \in [0..n -> UNION {D[k] : k \in 0..n}] :
     /\ g[0] = b /\ \A k \in 0..n : g[k] \in D[k]
     /\ \A k \in 1..n : g[k] = F[k][g[k - 1]]}

\* A loop whose k-th step leads from D[k - 1] to D[k] runs to its end.
LEMMA Chain ==
  ASSUME NEW n \in Nat, NEW D, NEW b \in D[0], NEW F,
         \A k \in 1..n : \A x \in D[k - 1] : F[k][x] \in D[k]
  PROVE  Chains(n, D, b, F) # {}
<1>1. PICK U : U = UNION {D[k] : k \in 0..n}
  OBVIOUS
<1>2. \A k \in 0..n : D[k] \subseteq U
  BY <1>1
<1>3. b \in U
  <2>1. 0 \in 0..n
    OBVIOUS
  <2> QED
    BY <1>2, <2>1
<1>4. PICK G : G = [k \in 1..n |-> [x \in U |-> IF x \in D[k - 1] THEN F[k][x] ELSE b]]
  OBVIOUS
<1>5. G \in Steps(n, U)
  <2>1. ASSUME NEW k \in 1..n, NEW x \in U
        PROVE  (IF x \in D[k - 1] THEN F[k][x] ELSE b) \in U
    <3>1. k \in 0..n
      OBVIOUS
    <3> QED
      BY <1>2, <1>3, <3>1
  <2> QED
    BY <1>4, <2>1 DEF Steps
<1>6. PICK g : g \in Runs(n, U, b, G)
  BY <1>3, <1>5, Loop
<1>7. g \in [0..n -> U] /\ g[0] = b /\ \A k \in 1..n : g[k] = G[k][g[k - 1]]
  BY <1>6 DEF Runs
<1> DEFINE S == {m \in 0..n : g[m] \in D[m]}
<1>8. 0 \in S
  BY <1>7
<1>9. ASSUME NEW m \in 0..n, m \in S, m < n PROVE m + 1 \in S
  <2>1. m + 1 \in 1..n /\ (m + 1) - 1 = m /\ m + 1 \in 0..n /\ g[m] \in D[m] /\ g[m] \in U
    BY <1>7, <1>9
  <2>2. g[m + 1] = F[m + 1][g[m]]
    BY <1>4, <1>7, <2>1
  <2>3. F[m + 1][g[m]] \in D[m + 1]
    BY <2>1
  <2> QED
    BY <2>1, <2>2, <2>3
<1>10. 0..n \subseteq S
  <2> HIDE DEF S
  <2> QED
    BY <1>8, <1>9, Induction
<1>11. \A k \in 0..n : g[k] \in D[k]
  BY <1>10
<1>12. ASSUME NEW k \in 1..n PROVE g[k] = F[k][g[k - 1]]
  <2>1. k - 1 \in 0..n
    OBVIOUS
  <2>2. g[k - 1] \in D[k - 1] /\ g[k - 1] \in U
    BY <1>7, <1>11, <2>1
  <2>3. G[k][g[k - 1]] = F[k][g[k - 1]]
    BY <1>4, <2>2
  <2> QED
    BY <1>7, <2>3
<1> QED
  BY <1>1, <1>7, <1>11, <1>12 DEF Chains

\* What the import works on.  groupMap has a live folder for every path it
\* knows, and knows the path of every live folder; the folder it is in is live
\* and has the path it has walked; no folder it made shares a live one's path.
Maps == UNION {[P -> Nat] : P \in SUBSET Paths}

Works ==
  [groups : Trees, entries : Seq(Entries), map : Maps, path : Paths,
   parent : Nat, error : {FALSE}]

MapKnows(gs, map) ==
  /\ \A p \in DOMAIN map :
       /\ map[p] \in 1..Len(gs) /\ gs[map[p]].live
       /\ FoldedPaths(gs)[map[p]] = p
  /\ \A g \in 1..Len(gs) : gs[g].live /\ g # 1 => FoldedPaths(gs)[g] \in DOMAIN map

Fresh(gs) ==
  \A g \in 1..Len(gs) :
    g > Len(groups) =>
      /\ gs[g].live
      /\ \A h \in 1..Len(gs) :
           gs[h].live /\ h # g => FoldedPaths(gs)[h] # FoldedPaths(gs)[g]

Sound(at) ==
  /\ at \in Works
  /\ Grown(groups, at.groups)
  /\ MapKnows(at.groups, at.map)
  /\ Fresh(at.groups)

At(at, path) ==
  /\ at.path = path
  /\ at.parent \in 1..Len(at.groups) /\ at.groups[at.parent].live
  /\ FoldedPaths(at.groups)[at.parent] = path

\* What entering a folder does to groupMap.
LEMMA MapsFacts ==
  ASSUME NEW map \in Maps, NEW p \in Paths, NEW g \in Nat
  PROVE  /\ Entered(map, p, g) \in Maps
         /\ DOMAIN Entered(map, p, g) = {p} \cup DOMAIN map
         /\ Entered(map, p, g)[p] = g
         /\ \A q \in DOMAIN map : q # p => Entered(map, p, g)[q] = map[q]
         /\ DOMAIN map \subseteq Paths
<1>1. PICK P \in SUBSET Paths : map \in [P -> Nat]
  BY DEF Maps
<1>2. PICK new : new = Entered(map, p, g)
  OBVIOUS
<1>3. new = [q \in {p} \cup P |-> IF q = p THEN g ELSE map[q]]
  BY <1>1, <1>2 DEF Entered
<1>4. new \in [{p} \cup P -> Nat] /\ {p} \cup P \in SUBSET Paths
  BY <1>1, <1>3
<1>5. new \in Maps
  BY <1>4 DEF Maps
<1> QED
  BY <1>1, <1>2, <1>3, <1>5

\* A new folder under a live one.
LEMMA Created ==
  ASSUME NEW gs \in Trees, NEW name \in Text, Trim(name) = name,
         NEW parent \in 1..Len(gs), NEW hs, hs = CreateGroup(gs, name, parent),
         NEW n, n = Len(gs) + 1
  PROVE  /\ hs \in Trees /\ Grown(gs, hs) /\ Len(hs) = n
         /\ hs[n].live = gs[parent].live
         /\ FoldedPaths(hs)[n] = Append(FoldedPaths(gs)[parent], LowerCase(name))
<1>1. PICK new : new = [name |-> Trim(name), parent |-> parent, live |-> gs[parent].live]
  OBVIOUS
<1>2. new \in Groups
  <2>1. gs[parent].live \in BOOLEAN /\ parent \in Nat
    BY TreeFacts
  <2> QED
    BY <1>1, <2>1 DEF Groups
<1>3. /\ hs \in Seq(Groups) /\ Len(hs) = n /\ hs[n] = new
      /\ \A g \in 1..Len(gs) : hs[g] = gs[g]
      /\ DOMAIN hs = 1..n /\ n \in Nat /\ n # 1
  BY <1>1, <1>2, TreeFacts, AppendProperties, LenProperties DEF CreateGroup
<1>4. hs \in Trees
  <2>1. 1 \in 1..Len(gs)
    BY TreeFacts
  <2>2. hs # <<>> /\ hs[1].live
    BY <1>3, <2>1, TreeFacts, EmptySeq
  <2>3. ASSUME NEW g \in 1..n \ {1} PROVE hs[g].parent \in 1..g - 1
    <3>1. CASE g = n
      BY <1>1, <1>3, <3>1, TreeFacts
    <3>2. CASE g # n
      <4>1. g \in 1..Len(gs) /\ g # 1
        BY <2>3, <3>2, TreeFacts
      <4> QED
        BY <1>3, <4>1, TreeFacts
    <3> QED
      BY <3>1, <3>2
  <2> QED
    BY <1>3, <2>2, <2>3 DEF Trees
<1>5. Grown(gs, hs)
  BY <1>3, TreeFacts DEF Grown
<1>6. FoldedPaths(hs)[n] = Append(FoldedPaths(hs)[parent], Step(hs, n))
  <2>1. n \in 1..Len(hs) /\ hs[n].parent = parent
    BY <1>1, <1>3, TreeFacts
  <2> QED
    BY <1>3, <1>4, <2>1, PathsFacts DEF PathsOf
<1>7. FoldedPaths(hs)[parent] = FoldedPaths(gs)[parent]
  BY <1>4, <1>5, GrownPaths
<1>8. Step(hs, n) = LowerCase(name)
  BY <1>1, <1>3 DEF Step
<1> QED
  BY <1>1, <1>3, <1>4, <1>5, <1>6, <1>7, <1>8

\* What grows and grows again has grown.
LEMMA GrownFurther ==
  ASSUME NEW gs, NEW hs, NEW is, Len(gs) \in Nat, Len(hs) \in Nat, Len(is) \in Nat,
         Grown(gs, hs), Grown(hs, is)
  PROVE  Grown(gs, is)
BY DEF Grown

\* One segment of getOrCreateGroup: the folder of that name is found or made.
LEMMA Descended ==
  ASSUME groups \in Trees, NEW at, Sound(at), NEW p, At(at, p),
         NEW seg \in Names, ValidName(seg), NEW to, to = Descend(at, seg)
  PROVE  /\ Sound(to) /\ At(to, Append(p, LowerCase(seg)))
         /\ to.entries = at.entries /\ Grown(at.groups, to.groups)
<1>1. /\ at \in Works /\ at.groups \in Trees /\ at.map \in Maps /\ at.path \in Paths
      /\ at.error = FALSE /\ at.path = p /\ at.entries \in Seq(Entries)
  BY DEF Sound, At, Works
<1>2. PICK path : path = Append(at.path, LowerCase(seg))
  OBVIOUS
<1>3. path \in Paths /\ path # <<>>
  <2>1. LowerCase(seg) \in Seq(Tokens \cup {"work", "title"})
    BY LowerType DEF Names
  <2>2. path \in Paths /\ Len(path) = Len(at.path) + 1 /\ Len(at.path) \in Nat
    BY <1>1, <1>2, <2>1, AppendProperties, LenProperties DEF Paths
  <2> QED
    BY <2>2, EmptySeq
<1>4. /\ Len(at.groups) \in Nat /\ Len(groups) \in Nat \ {0}
      /\ at.parent \in 1..Len(at.groups) /\ at.groups[at.parent].live
  BY <1>1, TreeFacts DEF At
<1>5. CASE path \in DOMAIN at.map
  <2>1. PICK g : g = at.map[path]
    OBVIOUS
  <2>2. to = [at EXCEPT !.path = path, !.parent = g]
    BY <1>1, <1>2, <1>5, <2>1 DEF Descend
  <2>3. g \in 1..Len(at.groups) /\ at.groups[g].live /\ FoldedPaths(at.groups)[g] = path
    BY <1>5, <2>1 DEF Sound, MapKnows
  <2>4. /\ to.groups = at.groups /\ to.entries = at.entries /\ to.map = at.map
        /\ to.path = path /\ to.parent = g /\ to \in Works
    <3>1. g \in Nat
      BY <1>4, <2>3
    <3>2. PICK one : one = [at EXCEPT !.path = path]
      OBVIOUS
    <3>3. /\ one \in Works /\ one.groups = at.groups /\ one.entries = at.entries
          /\ one.map = at.map /\ one.path = path
      BY <1>1, <1>3, <3>2 DEF Works
    <3>4. to = [one EXCEPT !.parent = g]
      BY <2>2, <3>2
    <3> QED
      BY <3>1, <3>3, <3>4 DEF Works
  <2>5. Sound(to)
    BY <2>4 DEF Sound
  <2>6. At(to, path)
    BY <2>3, <2>4 DEF At
  <2>7. Grown(at.groups, to.groups)
    BY <1>4, <2>4 DEF Grown
  <2> QED
    BY <1>1, <1>2, <2>4, <2>5, <2>6, <2>7
<1>6. CASE path \notin DOMAIN at.map
  <2>1. PICK n, gs, map : /\ n = Len(at.groups) + 1
                          /\ gs = CreateGroup(at.groups, seg, at.parent)
                          /\ map = Entered(at.map, path, n)
    OBVIOUS
  <2>2. to = [at EXCEPT !.groups = gs, !.map = map, !.path = path, !.parent = n]
    BY <1>1, <1>2, <1>6, <2>1 DEF Descend
  <2>3. /\ gs \in Trees /\ Grown(at.groups, gs) /\ Len(gs) = n /\ gs[n].live
        /\ FoldedPaths(gs)[n] = path /\ n \in Nat
    <3>1. seg \in Text /\ Trim(seg) = seg
      BY DEF Names
    <3>2. FoldedPaths(at.groups)[at.parent] = at.path
      BY DEF At
    <3>3. n \in Nat
      BY <1>4, <2>1
    <3>4. PICK os \in Trees : os = at.groups
      BY <1>1
    <3>5. PICK parent \in 1..Len(os) : parent = at.parent
      BY <1>4, <3>4
    <3>6. gs = CreateGroup(os, seg, parent) /\ n = Len(os) + 1
      BY <2>1, <3>4, <3>5
    <3>7. /\ gs \in Trees /\ Grown(os, gs) /\ Len(gs) = n
          /\ gs[n].live = os[parent].live
          /\ FoldedPaths(gs)[n] = Append(FoldedPaths(os)[parent], LowerCase(seg))
      BY <3>1, <3>6, Created
    <3> QED
      BY <1>2, <1>4, <3>2, <3>3, <3>4, <3>5, <3>7
  <2>4. \A g \in 1..n - 1 : /\ gs[g] = at.groups[g]
                            /\ FoldedPaths(gs)[g] = FoldedPaths(at.groups)[g]
    <3>1. Len(at.groups) = n - 1
      BY <1>4, <2>1
    <3> QED
      BY <1>1, <2>3, <3>1, GrownPaths DEF Grown
  <2>5. /\ map \in Maps /\ DOMAIN map = {path} \cup DOMAIN at.map /\ map[path] = n
        /\ \A q \in DOMAIN at.map : q # path => map[q] = at.map[q]
    <3>1. PICK old \in Maps : old = at.map
      BY <1>1
    <3>2. map = Entered(old, path, n)
      BY <2>1, <3>1
    <3>3. n \in Nat
      BY <2>3
    <3>4. /\ Entered(old, path, n) \in Maps
          /\ DOMAIN Entered(old, path, n) = {path} \cup DOMAIN old
          /\ Entered(old, path, n)[path] = n
          /\ \A q \in DOMAIN old : q # path => Entered(old, path, n)[q] = old[q]
      BY <1>3, <3>3, MapsFacts
    <3> QED
      BY <3>1, <3>2, <3>4
  <2>6. /\ to.groups = gs /\ to.entries = at.entries /\ to.map = map
        /\ to.path = path /\ to.parent = n /\ to \in Works
    BY <1>1, <1>3, <2>2, <2>3, <2>5 DEF Works
  <2>7. MapKnows(gs, map)
    <3>1. ASSUME NEW q \in DOMAIN map
          PROVE  map[q] \in 1..n /\ gs[map[q]].live /\ FoldedPaths(gs)[map[q]] = q
      <4>1. CASE q = path
        BY <1>4, <2>1, <2>3, <2>5, <4>1
      <4>2. CASE q # path
        <5>1. q \in DOMAIN at.map /\ map[q] = at.map[q]
          BY <2>5, <4>2
        <5>2. /\ map[q] \in 1..n - 1 /\ at.groups[map[q]].live
              /\ FoldedPaths(at.groups)[map[q]] = q
          BY <1>4, <2>1, <5>1 DEF Sound, MapKnows
        <5> QED
          BY <2>3, <2>4, <5>2
      <4> QED
        BY <4>1, <4>2
    <3>2. ASSUME NEW g \in 1..n, gs[g].live, g # 1 PROVE FoldedPaths(gs)[g] \in DOMAIN map
      <4>1. CASE g = n
        BY <2>3, <2>5, <4>1
      <4>2. CASE g # n
        <5>1. g \in 1..n - 1 /\ g \in 1..Len(at.groups)
          BY <1>4, <2>1, <4>2
        <5>2. FoldedPaths(at.groups)[g] \in DOMAIN at.map
          BY <2>4, <3>2, <5>1 DEF Sound, MapKnows
        <5> QED
          BY <2>4, <2>5, <5>1, <5>2
      <4> QED
        BY <4>1, <4>2
    <3> QED
      BY <2>3, <3>1, <3>2 DEF MapKnows
  <2>8. Fresh(gs)
    <3>1. ASSUME NEW g \in 1..n, g > Len(groups)
          PROVE  /\ gs[g].live
                 /\ \A h \in 1..n : gs[h].live /\ h # g => FoldedPaths(gs)[h] # FoldedPaths(gs)[g]
      <4>1. ASSUME NEW h \in 1..n - 1, gs[h].live PROVE FoldedPaths(gs)[h] # path
        <5>1. CASE h = 1
          <6>1. FoldedPaths(gs)[1] = <<>>
            BY <2>3, PathsFacts, TreeFacts DEF PathsOf
          <6> QED
            BY <1>3, <5>1, <6>1
        <5>2. CASE h # 1
          <6>1. h \in 1..Len(at.groups)
            BY <1>4, <2>1
          <6>2. FoldedPaths(at.groups)[h] \in DOMAIN at.map
            BY <2>4, <4>1, <5>2, <6>1 DEF Sound, MapKnows
          <6> QED
            BY <1>6, <2>4, <6>2
        <5> QED
          BY <5>1, <5>2
      <4>2. CASE g = n
        <5>1. \A h \in 1..n : h # n => h \in 1..n - 1
          BY <2>3
        <5> QED
          BY <2>3, <4>1, <4>2, <5>1
      <4>3. CASE g # n
        <5>1. g \in 1..n - 1 /\ g \in 1..Len(at.groups)
          BY <1>4, <2>1, <4>3
        <5>2. /\ at.groups[g].live
              /\ \A h \in 1..n - 1 : at.groups[h].live /\ h # g =>
                   FoldedPaths(at.groups)[h] # FoldedPaths(at.groups)[g]
          <6>1. \A h \in 1..n - 1 : h \in 1..Len(at.groups)
            BY <1>4, <2>1
          <6> QED
            BY <3>1, <5>1, <6>1 DEF Sound, Fresh
        <5>3. gs[g].live
          BY <2>4, <5>1, <5>2
        <5>4. ASSUME NEW h \in 1..n, gs[h].live, h # g PROVE FoldedPaths(gs)[h] # FoldedPaths(gs)[g]
          <6>1. CASE h = n
            BY <2>3, <4>1, <5>1, <5>3, <6>1
          <6>2. CASE h # n
            <7>1. h \in 1..n - 1
              BY <2>3, <6>2
            <7> QED
              BY <2>4, <5>1, <5>2, <5>4, <7>1
          <6> QED
            BY <6>1, <6>2
        <5> QED
          BY <5>3, <5>4
      <4> QED
        BY <4>2, <4>3
    <3> QED
      BY <2>3, <3>1 DEF Fresh
  <2>9. Grown(groups, gs)
    BY <1>4, <2>3, GrownFurther DEF Sound
  <2>10. Sound(to)
    BY <2>6, <2>7, <2>8, <2>9 DEF Sound
  <2>11. At(to, path)
    <3>1. n \in 1..Len(gs)
      BY <1>4, <2>1, <2>3
    <3> QED
      BY <2>3, <2>6, <3>1 DEF At
  <2> QED
    BY <1>1, <1>2, <2>3, <2>6, <2>10, <2>11
<1> QED
  BY <1>5, <1>6

\* The names of a path up to the k-th, as the map has them.
Folded(path, k) == [i \in 1..k |-> LowerCase(path[i])]

\* A path is lowered segment by segment.
LEMMA FoldedStep ==
  ASSUME NEW path \in Seq(Names), NEW k \in 1..Len(path)
  PROVE  Folded(path, k) = Append(Folded(path, k - 1), LowerCase(path[k]))
<1>1. k - 1 \in Nat /\ (k - 1) + 1 = k /\ 1..k - 1 \subseteq 1..Len(path)
  BY LenProperties
<1>2. PICK a, b : a = Folded(path, k - 1) /\ b = LowerCase(path[k])
  OBVIOUS
<1>3. \A i \in 1..Len(path) : LowerCase(path[i]) \in Seq(Tokens \cup {"work", "title"})
  <2>1. \A i \in 1..Len(path) : path[i] \in Text
    BY ElementOfSeq DEF Names
  <2> QED
    BY <2>1, LowerType
<1>4. a \in Seq(Seq(Tokens \cup {"work", "title"})) /\ Len(a) = k - 1
  <2>1. a = [i \in 1..k - 1 |-> LowerCase(path[i])]
    BY <1>2 DEF Folded
  <2>2. \A i \in 1..k - 1 : a[i] \in Seq(Tokens \cup {"work", "title"})
    BY <1>1, <1>3, <2>1
  <2> QED
    BY <1>1, <2>1, <2>2
<1>5. PICK c : c = Append(a, b)
  OBVIOUS
<1>6. /\ c \in Seq(Seq(Tokens \cup {"work", "title"})) /\ Len(c) = k /\ c[k] = b
      /\ \A i \in 1..k - 1 : c[i] = a[i]
  BY <1>1, <1>2, <1>3, <1>4, <1>5, AppendProperties
<1>7. c = [i \in 1..k |-> c[i]]
  BY <1>6, LenProperties
<1>8. \A i \in 1..k : c[i] = LowerCase(path[i])
  <2> SUFFICES ASSUME NEW i \in 1..k PROVE c[i] = LowerCase(path[i])
    OBVIOUS
  <2>1. CASE i = k
    BY <1>2, <1>6, <2>1
  <2>2. CASE i # k
    <3>1. i \in 1..k - 1
      BY <2>2
    <3> QED
      BY <1>2, <1>6, <3>1 DEF Folded
  <2> QED
    BY <2>1, <2>2
<1> QED
  BY <1>2, <1>5, <1>7, <1>8 DEF Folded

\* getOrCreateGroup finds or makes the live folder with the path, if the names
\* are valid.
LEMMA Walked ==
  ASSUME groups \in Trees, NEW at, Sound(at), NEW path \in Seq(Names),
         \A i \in DOMAIN path : ValidName(path[i]),
         NEW to, to = GetOrCreateGroup(at, path)
  PROVE  /\ Sound(to) /\ At(to, Folded(path, Len(path)))
         /\ to.entries = at.entries /\ Grown(at.groups, to.groups)
<1>1. PICK n \in Nat : n = Len(path) /\ DOMAIN path = 1..n
  BY LenProperties
<1>2. \A k \in 1..n : path[k] \in Names /\ ValidName(path[k])
  BY <1>1, ElementOfSeq
<1>3. PICK start : start = [at EXCEPT !.path = <<>>, !.parent = RootGroup]
  OBVIOUS
<1> DEFINE Good(k, x) == /\ Sound(x) /\ At(x, Folded(path, k))
                         /\ x.entries = at.entries /\ Grown(at.groups, x.groups)
<1>4. PICK D : D = [k \in 0..n |-> {x \in Works : Good(k, x)}]
  OBVIOUS
<1>5. PICK F : F = [k \in 1..n |-> [x \in Works |-> Descend(x, path[k])]]
  OBVIOUS
<1>6. start \in D[0]
  <2>1. at \in Works /\ at.groups \in Trees
    BY DEF Sound, Works
  <2>2. <<>> \in Paths
    BY DEF Paths
  <2>3. /\ start \in Works /\ start.groups = at.groups /\ start.entries = at.entries
        /\ start.map = at.map /\ start.path = <<>> /\ start.parent = 1
    <3>1. PICK one : one = [at EXCEPT !.path = <<>>]
      OBVIOUS
    <3>2. /\ one \in Works /\ one.groups = at.groups /\ one.entries = at.entries
          /\ one.map = at.map /\ one.path = <<>>
      BY <2>1, <2>2, <3>1 DEF Works
    <3>3. start = [one EXCEPT !.parent = 1]
      BY <1>3, <3>1 DEF RootGroup
    <3> QED
      BY <3>2, <3>3 DEF Works
  <2>4. Sound(start)
    BY <2>3 DEF Sound
  <2>5. 1 \in 1..Len(at.groups) /\ at.groups[1].live /\ Len(at.groups) \in Nat
    BY <2>1, TreeFacts
  <2>6. FoldedPaths(at.groups)[1] = <<>>
    BY <2>1, <2>5, PathsFacts DEF PathsOf
  <2>7. Folded(path, 0) = <<>>
    BY DEF Folded
  <2>8. At(start, Folded(path, 0))
    BY <2>3, <2>5, <2>6, <2>7 DEF At
  <2>9. Grown(at.groups, start.groups)
    BY <2>3, <2>5 DEF Grown
  <2>10. Good(0, start)
    BY <2>3, <2>4, <2>8, <2>9
  <2> HIDE DEF Good
  <2> QED
    BY <1>4, <2>3, <2>10
<1>7. ASSUME NEW k \in 1..n, NEW x \in D[k - 1]
      PROVE  x \in Works /\ F[k][x] = Descend(x, path[k]) /\ F[k][x] \in D[k]
  <2>1. k - 1 \in 0..n /\ k \in 0..n
    OBVIOUS
  <2>2. x \in Works /\ Good(k - 1, x)
    BY <1>4, <2>1
  <2>3. PICK y : y = Descend(x, path[k])
    OBVIOUS
  <2>4. /\ Sound(y) /\ At(y, Append(Folded(path, k - 1), LowerCase(path[k])))
        /\ y.entries = x.entries /\ Grown(x.groups, y.groups)
    BY <1>2, <2>2, <2>3, Descended
  <2>5. Grown(at.groups, y.groups)
    <3>1. Len(at.groups) \in Nat /\ Len(x.groups) \in Nat /\ Len(y.groups) \in Nat
      BY <2>2, <2>4, TreeFacts DEF Sound, Works
    <3> QED
      BY <2>2, <2>4, <3>1, GrownFurther
  <2>6. Good(k, y) /\ y \in Works
    BY <1>1, <2>2, <2>4, <2>5, FoldedStep DEF Sound
  <2> HIDE DEF Good
  <2> QED
    BY <1>4, <1>5, <2>1, <2>2, <2>3, <2>6
<1>8. PICK g : /\ g[0] = start /\ g = [k \in 0..n |-> g[k]]
               /\ \A k \in 0..n : g[k] \in D[k]
               /\ \A k \in 1..n : g[k] = Descend(g[k - 1], path[k])
  <2>1. PICK g : g \in Chains(n, D, start, F)
    BY <1>6, <1>7, Chain
  <2>2. /\ g[0] = start /\ g = [k \in 0..n |-> g[k]] /\ \A k \in 0..n : g[k] \in D[k]
        /\ \A k \in 1..n : g[k] = F[k][g[k - 1]]
    BY <2>1 DEF Chains
  <2>3. ASSUME NEW k \in 1..n PROVE g[k] = Descend(g[k - 1], path[k])
    <3>1. k - 1 \in 0..n
      OBVIOUS
    <3> QED
      BY <1>7, <2>2, <3>1
  <2> QED
    BY <2>2, <2>3
<1> DEFINE body(f) == [k \in 0..n |-> IF k = 0 THEN start ELSE Descend(f[k - 1], path[k])]
<1>9. g = body(g)
  <2>1. ASSUME NEW k \in 0..n PROVE g[k] = body(g)[k]
    <3>1. CASE k = 0
      BY <1>8, <3>1
    <3>2. CASE k # 0
      <4>1. k \in 1..n
        BY <3>2
      <4> QED
        BY <1>8, <3>2, <4>1
    <3> QED
      BY <3>1, <3>2
  <2> HIDE DEF Good
  <2> QED
    BY <1>8, <2>1
<1>10. PICK f : f = CHOOSE h : h = body(h)
  OBVIOUS
<1>11. f = body(f)
  BY <1>9, <1>10
<1>12. to = f[n]
  BY <1>1, <1>3, <1>10 DEF GetOrCreateGroup
<1>13. f[n] = g[n]
  <2>1. f[0] = g[0]
    BY <1>8, <1>11
  <2>2. ASSUME NEW k \in 1..n, f[k - 1] = g[k - 1] PROVE f[k] = g[k]
    <3>1. k \in 0..n /\ k # 0
      OBVIOUS
    <3>2. f[k] = Descend(f[k - 1], path[k])
      BY <1>11, <3>1
    <3> QED
      BY <1>8, <2>2, <3>2
  <2> HIDE DEF body
  <2> QED
    BY <2>1, <2>2, Determined
<1>14. Good(n, to)
  <2>1. to \in D[n] /\ n \in 0..n
    BY <1>8, <1>12, <1>13
  <2> HIDE DEF Good
  <2> QED
    BY <1>4, <2>1
<1> QED
  BY <1>1, <1>14

\* The entries of the first n chosen rows are in the vault, in live folders.
Made(at, k) == at.entries[Len(entries) + k]

Done(at, pending, n) ==
  /\ at.entries \in Seq(Entries)
  /\ Len(at.entries) = Len(entries) + n
  /\ \A i \in 1..Len(entries) : at.entries[i] = entries[i]
  /\ \A k \in 1..n :
       /\ Made(at, k).content = previewEntries[pending[k]].content
       /\ Made(at, k).group \in 1..Len(at.groups)
       /\ at.groups[Made(at, k).group].live

\* They are in the folders their rows name.
FoldedPathOf(entry) == Folded(PathOf(entry), Len(PathOf(entry)))

Placed(at, pending, n) ==
  \A k \in 1..n :
    FoldedPaths(at.groups)[Made(at, k).group] = FoldedPathOf(previewEntries[pending[k]])

\* The path of an entry is a sequence of names.
LEMMA PathOfType ==
  ASSUME NEW entry \in Previews
  PROVE  PathOf(entry) \in Seq(Names)
<1>1. entry.folder \in Text
  BY DEF Previews
<1>2. DefaultFolder \in Text
  BY SpecialTokens DEF DefaultFolder, Text
<1> QED
  BY <1>1, <1>2, PathType DEF PathOf

\* Another entry in a live folder.
Appended(at, to, n, parent) ==
  /\ \A k \in 1..n : Made(to, k) = Made(at, k)
  /\ Made(to, n + 1).group = parent

\* createEntry keeps the entries that are there and adds one more.
LEMMA EntryAdded ==
  ASSUME Typed, NEW at, NEW pending, NEW n \in Nat,
         at.groups \in Trees, Done(at, pending, n), pending[n + 1] \in DOMAIN previewEntries,
         NEW gs \in Trees, Grown(at.groups, gs),
         NEW parent \in 1..Len(gs), gs[parent].live,
         NEW to, to.groups = gs,
         to.entries = CreateEntry(at.entries, previewEntries[pending[n + 1]].content, parent)
  PROVE  Done(to, pending, n + 1) /\ Appended(at, to, n, parent)
<1>1. previewEntries[pending[n + 1]] \in Previews
  BY ElementOfSeq, LenProperties DEF Typed
<1>2. PICK new : new = [content |-> previewEntries[pending[n + 1]].content, group |-> parent]
  OBVIOUS
<1>3. Len(gs) \in Nat /\ Len(at.groups) \in Nat
  BY TreeFacts
<1>4. new \in Entries
  BY <1>1, <1>2, <1>3 DEF Previews, Entries
<1>5. PICK m \in Nat : m = Len(entries)
  BY LenProperties DEF Typed
<1>6. /\ to.entries \in Seq(Entries) /\ Len(to.entries) = m + n + 1
      /\ to.entries[m + n + 1] = new
      /\ \A i \in 1..m + n : to.entries[i] = at.entries[i]
  <2>1. at.entries \in Seq(Entries) /\ Len(at.entries) = m + n
    BY <1>5 DEF Done
  <2>2. to.entries = Append(at.entries, new)
    BY <1>2 DEF CreateEntry
  <2> QED
    BY <1>4, <2>1, <2>2, AppendProperties
<1>7. \A k \in 1..n : Made(to, k) = Made(at, k)
  BY <1>5, <1>6 DEF Made
<1>8. Made(to, n + 1) = new
  BY <1>5, <1>6 DEF Made
<1>9. ASSUME NEW k \in 1..n + 1
      PROVE  /\ Made(to, k).content = previewEntries[pending[k]].content
             /\ Made(to, k).group \in 1..Len(to.groups)
             /\ to.groups[Made(to, k).group].live
  <2>1. CASE k = n + 1
    BY <1>2, <1>8, <2>1
  <2>2. CASE k # n + 1
    <3>1. k \in 1..n
      BY <2>2
    <3>2. /\ Made(at, k).content = previewEntries[pending[k]].content
          /\ Made(at, k).group \in 1..Len(at.groups)
          /\ at.groups[Made(at, k).group].live
      BY <3>1 DEF Done
    <3> QED
      BY <1>3, <1>7, <3>1, <3>2 DEF Grown
  <2> QED
    BY <2>1, <2>2
<1>10. \A i \in 1..m : to.entries[i] = entries[i]
  BY <1>5, <1>6 DEF Done
<1>11. Done(to, pending, n + 1)
  BY <1>5, <1>6, <1>9, <1>10 DEF Done
<1> QED
  BY <1>2, <1>7, <1>8, <1>11 DEF Appended

\* What an import starts from.
ImportStart(single, target, newName) ==
  LET named == single /\ Trim(newName) # <<>> IN
  [groups |-> IF named THEN CreateGroup(groups, newName, RootGroup) ELSE groups,
   entries |-> entries, map |-> GroupMap(groups), path |-> <<>>,
   parent |-> IF named THEN Len(groups) + 1 ELSE target, error |-> FALSE]

\* applyImportToVault goes through the chosen rows one after the other, and no
\* step throws.
LEMMA ApplyLoop ==
  ASSUME NEW pending, NEW single, NEW target, NEW newName,
         NEW n \in Nat, n = Len(pending), NEW D,
         \A k \in 0..n : D[k] \subseteq Works,
         ImportStart(single, target, newName) \in D[0],
         \A k \in 1..n : \A x \in D[k - 1] :
           ImportRow(x, previewEntries[pending[k]], single) \in D[k]
  PROVE  ApplyImport(pending, single, target, newName) \in D[n]
<1>1. PICK start : start = ImportStart(single, target, newName)
  OBVIOUS
<1>2. PICK F : F = [k \in 1..n |-> [x \in D[k - 1] |->
                      ImportRow(x, previewEntries[pending[k]], single)]]
  OBVIOUS
<1>3. ASSUME NEW k \in 1..n, NEW x \in D[k - 1]
      PROVE  /\ F[k][x] = ImportRow(x, previewEntries[pending[k]], single)
             /\ F[k][x] \in D[k] /\ x.error = FALSE
  <2>1. k - 1 \in 0..n
    OBVIOUS
  <2>2. x \in Works
    BY <2>1
  <2> QED
    BY <1>2, <2>2 DEF Works
<1>4. PICK g : /\ g[0] = start /\ g = [k \in 0..n |-> g[k]]
               /\ \A k \in 0..n : g[k] \in D[k]
               /\ \A k \in 1..n : /\ g[k] = ImportRow(g[k - 1], previewEntries[pending[k]], single)
                                  /\ g[k - 1].error = FALSE
  <2>1. PICK g : g \in Chains(n, D, start, F)
    BY <1>1, <1>3, Chain
  <2>2. /\ g[0] = start /\ g = [k \in 0..n |-> g[k]] /\ \A k \in 0..n : g[k] \in D[k]
        /\ \A k \in 1..n : g[k] = F[k][g[k - 1]]
    BY <2>1 DEF Chains
  <2>3. ASSUME NEW k \in 1..n
        PROVE  /\ g[k] = ImportRow(g[k - 1], previewEntries[pending[k]], single)
               /\ g[k - 1].error = FALSE
    <3>1. k - 1 \in 0..n
      OBVIOUS
    <3> QED
      BY <1>3, <2>2, <3>1
  <2> QED
    BY <2>2, <2>3
<1> DEFINE oneRow(x, k) == IF x.error THEN x
                        ELSE ImportRow(x, previewEntries[pending[k]], single)
           body(f) == [k \in 0..n |-> IF k = 0 THEN start ELSE oneRow(f[k - 1], k)]
<1>5. g = body(g)
  <2>1. ASSUME NEW k \in 0..n PROVE g[k] = body(g)[k]
    <3>1. CASE k = 0
      BY <1>4, <3>1
    <3>2. CASE k # 0
      <4>1. k \in 1..n
        BY <3>2
      <4> QED
        BY <1>4, <3>2, <4>1
    <3> QED
      BY <3>1, <3>2
  <2> QED
    BY <1>4, <2>1
<1>6. PICK f : f = CHOOSE h : h = body(h)
  OBVIOUS
<1>7. f = body(f)
  BY <1>5, <1>6
<1>8. ApplyImport(pending, single, target, newName) = f[n]
  BY <1>1, <1>6 DEF ApplyImport, ImportStart
<1>9. f[n] = g[n]
  <2>1. f[0] = g[0]
    BY <1>4, <1>7
  <2>2. ASSUME NEW k \in 1..n, f[k - 1] = g[k - 1] PROVE f[k] = g[k]
    <3>1. k \in 0..n /\ k # 0
      OBVIOUS
    <3>2. f[k] = oneRow(f[k - 1], k) /\ g[k] = oneRow(g[k - 1], k)
      BY <1>5, <1>7, <3>1
    <3> HIDE DEF oneRow
    <3> QED
      BY <2>2, <3>2
  <2> HIDE DEF body
  <2> QED
    BY <2>1, <2>2, Determined
<1>10. n \in 0..n
  OBVIOUS
<1> QED
  BY <1>4, <1>8, <1>9, <1>10

\* groupMap knows the live folders of the vault, and no others.
LEMMA FirstMap ==
  ASSUME groups \in Trees
  PROVE  GroupMap(groups) \in Maps /\ MapKnows(groups, GroupMap(groups))
<1>1. PICK n \in Nat : n = Len(groups) /\ DOMAIN groups = 1..n
  BY TreeFacts
<1>2. PICK paths : paths = FoldedPaths(groups)
  OBVIOUS
<1>3. PICK live \in SUBSET (1..n) : live = {g \in DOMAIN groups : groups[g].live /\ g # RootGroup}
  BY <1>1
<1>4. PICK known : known = {paths[g] : g \in live}
  OBVIOUS
<1>5. \A g \in 1..n : paths[g] \in Paths
  BY <1>1, <1>2, PathsFacts
<1>6. known \in SUBSET Paths
  BY <1>3, <1>4, <1>5
<1>7. PICK map : map = [p \in known |-> Max({g \in live : paths[g] = p})]
  OBVIOUS
<1>8. GroupMap(groups) = map
  BY <1>2, <1>3, <1>4, <1>7 DEF GroupMap
<1>9. ASSUME NEW p \in known PROVE map[p] \in live /\ paths[map[p]] = p
  <2>1. PICK same \in SUBSET (1..n) : same = {g \in live : paths[g] = p}
    <3>1. {g \in live : paths[g] = p} \subseteq 1..n
      OBVIOUS
    <3> QED
      BY <3>1
  <2>2. same # {}
    BY <1>4, <2>1
  <2>3. Max(same) \in same
    BY <2>2, MinMax
  <2> QED
    BY <1>7, <2>1, <2>3
<1>10. map \in [known -> Nat]
  <2>1. \A g \in live : g \in 1..n
    OBVIOUS
  <2>2. \A p \in known : map[p] \in 1..n
    BY <1>9, <2>1
  <2>3. \A p \in known : map[p] \in Nat
    BY <2>2
  <2> QED
    BY <1>7, <2>3
<1>11. map \in Maps
  BY <1>6, <1>10 DEF Maps
<1>12. MapKnows(groups, map)
  <2>1. DOMAIN map = known
    BY <1>7
  <2>2. \A g \in live : g \in 1..n /\ groups[g].live
    BY <1>3
  <2>3. \A g \in 1..n : groups[g].live /\ g # 1 => paths[g] \in known
    BY <1>1, <1>3, <1>4 DEF RootGroup
  <2> QED
    BY <1>1, <1>2, <1>9, <2>1, <2>2, <2>3 DEF MapKnows
<1> QED
  BY <1>8, <1>11, <1>12

\* A row is imported into the folder it names.
LEMMA RowPlaced ==
  ASSUME Typed, NEW at, Sound(at), NEW pending, NEW n \in Nat,
         Done(at, pending, n), Placed(at, pending, n),
         pending[n + 1] \in DOMAIN previewEntries,
         ValidPath(PathOf(previewEntries[pending[n + 1]])),
         NEW to, to = ImportRow(at, previewEntries[pending[n + 1]], FALSE)
  PROVE  Sound(to) /\ Done(to, pending, n + 1) /\ Placed(to, pending, n + 1)
<1>1. PICK entry \in Previews : entry = previewEntries[pending[n + 1]]
  BY ElementOfSeq, LenProperties DEF Typed
<1>2. PICK path \in Seq(Names) : path = PathOf(entry)
  BY <1>1, PathOfType
<1>3. \A i \in DOMAIN path : ValidName(path[i])
  BY <1>1, <1>2 DEF ValidPath
<1>4. PICK there : there = GetOrCreateGroup(at, path)
  OBVIOUS
<1>5. groups \in Trees
  BY DEF Typed
<1>6. /\ Sound(there) /\ At(there, Folded(path, Len(path)))
      /\ there.entries = at.entries /\ Grown(at.groups, there.groups)
  BY <1>3, <1>4, <1>5, Walked
<1>7. there \in Works /\ there.groups \in Trees /\ there.error = FALSE
  BY <1>6 DEF Sound, Works
<1>8. to = [there EXCEPT !.entries = CreateEntry(there.entries, entry.content, there.parent)]
  BY <1>1, <1>2, <1>4, <1>7 DEF ImportRow
<1>9. /\ to.groups = there.groups /\ to.map = there.map
      /\ to.entries = CreateEntry(there.entries, entry.content, there.parent)
  BY <1>7, <1>8 DEF Works
<1>10. at.groups \in Trees
  BY DEF Sound, Works
<1>11. there.parent \in 1..Len(there.groups) /\ there.groups[there.parent].live
  BY <1>6 DEF At
<1>12. /\ Done(to, pending, n + 1)
       /\ \A k \in 1..n : Made(to, k) = Made(at, k)
       /\ Made(to, n + 1).group = there.parent
  <2>1. PICK gs \in Trees : gs = there.groups
    BY <1>7
  <2>2. PICK parent \in 1..Len(gs) : parent = there.parent
    BY <1>11, <2>1
  <2>3. Grown(at.groups, gs) /\ gs[parent].live /\ to.groups = gs
    BY <1>6, <1>9, <1>11, <2>1, <2>2
  <2>4. to.entries = CreateEntry(at.entries, previewEntries[pending[n + 1]].content, parent)
    BY <1>1, <1>6, <1>9, <2>2
  <2>5. Done(to, pending, n + 1)
    BY <1>10, <2>3, <2>4, EntryAdded
  <2>6. Appended(at, to, n, parent)
    BY <1>10, <2>3, <2>4, EntryAdded
  <2> QED
    BY <2>2, <2>5, <2>6 DEF Appended
<1>13. to \in Works
  <2>1. to.entries \in Seq(Entries)
    BY <1>12 DEF Done
  <2> QED
    BY <1>7, <1>8, <2>1 DEF Works
<1>14. Sound(to)
  BY <1>6, <1>9, <1>13 DEF Sound
<1>15. ASSUME NEW k \in 1..n + 1
       PROVE  FoldedPaths(to.groups)[Made(to, k).group] =
                FoldedPathOf(previewEntries[pending[k]])
  <2>1. CASE k = n + 1
    BY <1>1, <1>2, <1>6, <1>9, <1>12, <2>1 DEF At, FoldedPathOf
  <2>2. CASE k # n + 1
    <3>1. k \in 1..n
      BY <2>2
    <3>2. PICK g \in 1..Len(at.groups) : g = Made(at, k).group
      BY <3>1 DEF Done
    <3>3. FoldedPaths(there.groups)[g] = FoldedPaths(at.groups)[g]
      BY <1>6, <1>7, <1>10, GrownPaths
    <3> QED
      BY <1>9, <1>12, <3>1, <3>2, <3>3 DEF Placed
  <2> QED
    BY <2>1, <2>2
<1> QED
  BY <1>12, <1>14, <1>15 DEF Placed

\* Before the first row nothing is imported.
LEMMA NothingDone ==
  ASSUME Typed, NEW at, at.entries = entries, NEW pending
  PROVE  Done(at, pending, 0) /\ Placed(at, pending, 0)
<1>1. entries \in Seq(Entries) /\ Len(entries) \in Nat
  BY LenProperties DEF Typed
<1> QED
  BY <1>1 DEF Done, Placed

\* With valid paths the import into named folders goes through to its end.
LEMMA FoldersImported ==
  ASSUME Typed, NEW pending \in Seq(DOMAIN previewEntries),
         \A k \in DOMAIN pending : ValidPath(PathOf(previewEntries[pending[k]])),
         NEW target \in DOMAIN groups, NEW newName,
         NEW to, to = ApplyImport(pending, FALSE, target, newName)
  PROVE  Sound(to) /\ Done(to, pending, Len(pending)) /\ Placed(to, pending, Len(pending))
<1>1. PICK n \in Nat : n = Len(pending) /\ DOMAIN pending = 1..n
  BY LenProperties
<1> DEFINE Good(x, k) == Sound(x) /\ Done(x, pending, k) /\ Placed(x, pending, k)
<1>2. PICK D : D = [k \in 0..n |-> {x \in Works : Good(x, k)}]
  OBVIOUS
<1>3. PICK start : start = ImportStart(FALSE, target, newName)
  OBVIOUS
<1>4. groups \in Trees /\ target \in Nat /\ Len(groups) \in Nat
  BY TreeFacts DEF Typed
<1>5. start = [groups |-> groups, entries |-> entries, map |-> GroupMap(groups),
               path |-> <<>>, parent |-> target, error |-> FALSE]
  BY <1>3 DEF ImportStart
<1>6. start \in Works
  <2>1. <<>> \in Paths
    BY DEF Paths
  <2>2. entries \in Seq(Entries)
    BY DEF Typed
  <2> QED
    BY <1>4, <1>5, <2>1, <2>2, FirstMap DEF Works
<1>7. Sound(start)
  <2>1. Grown(groups, groups)
    BY <1>4 DEF Grown
  <2>2. Fresh(groups)
    BY <1>4 DEF Fresh
  <2> QED
    BY <1>4, <1>5, <1>6, <2>1, <2>2, FirstMap DEF Sound
<1>8. start \in D[0]
  <2>1. Good(start, 0)
    BY <1>5, <1>7, NothingDone
  <2> HIDE DEF Good
  <2> QED
    BY <1>2, <1>6, <2>1
<1>9. ASSUME NEW k \in 1..n, NEW x \in D[k - 1]
      PROVE  ImportRow(x, previewEntries[pending[k]], FALSE) \in D[k]
  <2>1. k - 1 \in 0..n /\ k - 1 \in Nat /\ (k - 1) + 1 = k /\ k \in 0..n
    OBVIOUS
  <2>2. Good(x, k - 1)
    BY <1>2, <2>1
  <2>3. pending[k] \in DOMAIN previewEntries
    BY <1>1, ElementOfSeq
  <2>4. PICK y : y = ImportRow(x, previewEntries[pending[k]], FALSE)
    OBVIOUS
  <2>5. Sound(y) /\ Done(y, pending, (k - 1) + 1) /\ Placed(y, pending, (k - 1) + 1)
    <3>1. PICK m \in Nat : m = k - 1 /\ m + 1 = k
      BY <2>1
    <3>2. ValidPath(PathOf(previewEntries[pending[m + 1]]))
      BY <1>1, <3>1
    <3>3. y = ImportRow(x, previewEntries[pending[m + 1]], FALSE)
      BY <2>4, <3>1
    <3>4. Sound(x) /\ Done(x, pending, m) /\ Placed(x, pending, m)
      BY <2>2, <3>1
    <3>5. Sound(y) /\ Done(y, pending, m + 1) /\ Placed(y, pending, m + 1)
      BY <2>3, <3>1, <3>2, <3>3, <3>4, RowPlaced
    <3> QED
      BY <3>1, <3>5
  <2>6. y \in Works /\ Good(y, k)
    BY <2>1, <2>5 DEF Sound
  <2> HIDE DEF Good
  <2> QED
    BY <1>2, <2>1, <2>4, <2>6
<1>10. to \in D[n]
  <2>1. \A k \in 0..n : D[k] \subseteq Works
    BY <1>2
  <2> HIDE DEF Good
  <2> QED
    BY <1>1, <1>3, <1>8, <1>9, <2>1, ApplyLoop
<1>11. Good(to, n)
  <2>1. n \in 0..n
    OBVIOUS
  <2> HIDE DEF Good
  <2> QED
    BY <1>2, <1>10, <2>1
<1> QED
  BY <1>1, <1>11

\* So does the import into one folder.
LEMMA SingleImported ==
  ASSUME Typed, NEW pending \in Seq(DOMAIN previewEntries),
         NEW target \in DOMAIN groups, groups[target].live, NEW newName \in Text,
         NEW to, to = ApplyImport(pending, TRUE, target, newName)
  PROVE  /\ to \in Works /\ Grown(groups, to.groups)
         /\ Done(to, pending, Len(pending))
<1>1. PICK n \in Nat : n = Len(pending) /\ DOMAIN pending = 1..n
  BY LenProperties
<1>2. PICK start : start = ImportStart(TRUE, target, newName)
  OBVIOUS
<1>3. /\ groups \in Trees /\ Len(groups) \in Nat \ {0} /\ DOMAIN groups = 1..Len(groups)
      /\ groups[1].live
  BY TreeFacts DEF Typed
<1>4. PICK gs, parent : /\ gs = (IF Trim(newName) # <<>>
                                 THEN CreateGroup(groups, newName, RootGroup) ELSE groups)
                        /\ parent = (IF Trim(newName) # <<>> THEN Len(groups) + 1 ELSE target)
  OBVIOUS
<1>5. start = [groups |-> gs, entries |-> entries, map |-> GroupMap(groups),
               path |-> <<>>, parent |-> parent, error |-> FALSE]
  BY <1>2, <1>4 DEF ImportStart
<1>6. /\ gs \in Trees /\ Grown(groups, gs) /\ parent \in 1..Len(gs) /\ gs[parent].live
      /\ Len(gs) \in Nat
  <2>1. CASE Trim(newName) # <<>>
    <3>1. PICK name \in Text : name = Trim(newName) /\ Trim(name) = name
      BY TrimType, TrimTwice
    <3>2. gs = CreateGroup(groups, name, 1)
      BY <1>4, <2>1, <3>1 DEF CreateGroup, RootGroup
    <3>3. 1 \in 1..Len(groups) /\ Len(groups) + 1 \in 1..Len(groups) + 1
      BY <1>3
    <3>4. PICK m \in Nat : m = Len(groups) + 1
      BY <1>3
    <3>5. PICK os \in Trees : os = groups
      BY <1>3
    <3>6. gs = CreateGroup(os, name, 1) /\ m = Len(os) + 1 /\ 1 \in 1..Len(os)
      BY <3>2, <3>3, <3>4, <3>5
    <3>7. gs \in Trees /\ Grown(os, gs) /\ Len(gs) = m /\ gs[m].live = os[1].live
      BY <3>1, <3>6, Created
    <3> QED
      BY <1>3, <1>4, <2>1, <3>3, <3>4, <3>5, <3>7
  <2>2. CASE Trim(newName) = <<>>
    <3>1. gs = groups /\ parent = target
      BY <1>4, <2>2
    <3> QED
      BY <1>3, <3>1 DEF Grown
  <2> QED
    BY <2>1, <2>2
<1>7. start \in Works
  <2>1. <<>> \in Paths
    BY DEF Paths
  <2>2. entries \in Seq(Entries)
    BY DEF Typed
  <2> QED
    BY <1>3, <1>5, <1>6, <2>1, <2>2, FirstMap DEF Works
<1> DEFINE Good(x, k) == x.groups = gs /\ x.parent = parent /\ Done(x, pending, k)
<1>8. PICK D : D = [k \in 0..n |-> {x \in Works : Good(x, k)}]
  OBVIOUS
<1>9. start \in D[0]
  <2>1. Good(start, 0)
    BY <1>5, NothingDone
  <2> HIDE DEF Good
  <2> QED
    BY <1>7, <1>8, <2>1
<1>10. ASSUME NEW k \in 1..n, NEW x \in D[k - 1]
       PROVE  ImportRow(x, previewEntries[pending[k]], TRUE) \in D[k]
  <2>1. PICK m \in Nat : m = k - 1 /\ m + 1 = k /\ m \in 0..n /\ k \in 0..n
    OBVIOUS
  <2>2. x \in Works /\ Good(x, m)
    BY <1>8, <2>1
  <2>3. pending[m + 1] \in DOMAIN previewEntries
    BY <1>1, <2>1, ElementOfSeq
  <2>4. PICK y : y = ImportRow(x, previewEntries[pending[m + 1]], TRUE)
    OBVIOUS
  <2>5. y = [x EXCEPT !.entries = CreateEntry(x.entries, previewEntries[pending[m + 1]].content,
                                              x.parent)]
    BY <2>2, <2>4 DEF ImportRow, Works
  <2>6. /\ y.groups = gs /\ y.parent = parent
        /\ y.entries = CreateEntry(x.entries, previewEntries[pending[m + 1]].content, x.parent)
    BY <2>2, <2>5 DEF Works
  <2>7. /\ Grown(x.groups, gs) /\ x.groups \in Trees
        /\ y.entries = CreateEntry(x.entries, previewEntries[pending[m + 1]].content, parent)
    BY <1>6, <2>2, <2>6 DEF Grown
  <2>8. Done(y, pending, m + 1)
    BY <1>6, <2>2, <2>3, <2>6, <2>7, EntryAdded
  <2>9. y \in Works
    <3>1. y.entries \in Seq(Entries)
      BY <2>8 DEF Done
    <3> QED
      BY <2>2, <2>5, <3>1 DEF Works
  <2>10. Good(y, k)
    BY <2>1, <2>6, <2>8
  <2> HIDE DEF Good
  <2> QED
    BY <1>8, <2>1, <2>4, <2>9, <2>10
<1>11. to \in D[n]
  <2>1. \A k \in 0..n : D[k] \subseteq Works
    BY <1>8
  <2> HIDE DEF Good
  <2> QED
    BY <1>1, <1>2, <1>9, <1>10, <2>1, ApplyLoop
<1>12. to \in Works /\ Good(to, n)
  <2>1. n \in 0..n
    OBVIOUS
  <2> HIDE DEF Good
  <2> QED
    BY <1>8, <1>11, <2>1
<1> QED
  BY <1>1, <1>6, <1>12

-----------------------------------------------------------------------------
(* What an import does *)

Wanted(skip) ==
  LET chosen == {i \in DOMAIN previewEntries : previewEntries[i].selected} IN
  IF skip THEN chosen \ FindDuplicates ELSE chosen

\* What is pending: the wanted rows, each once, in their order.
LEMMA PendingFacts ==
  ASSUME Typed, NEW skip, NEW p, p = Pending(skip)
  PROVE  /\ p \in Seq(DOMAIN previewEntries)
         /\ \A k \in DOMAIN p : p[k] \in Wanted(skip)
         /\ \A i \in Wanted(skip) : \E k \in DOMAIN p : p[k] = i
         /\ \A j, k \in DOMAIN p : j < k => p[j] < p[k]
<1>1. PICK n \in Nat : n = Len(previewEntries) /\ DOMAIN previewEntries = 1..n
  BY LenProperties DEF Typed
<1>2. PICK keep \in SUBSET (1..n) : keep = Wanted(skip)
  <2>1. Wanted(skip) \subseteq 1..n
    BY <1>1 DEF Wanted
  <2> QED
    BY <2>1
<1>3. p = Filtered([i \in 1..n |-> i], keep)
  BY <1>1, <1>2 DEF Pending, Wanted
<1>4. /\ p \in Seq(keep)
      /\ \A i \in keep : \E k \in DOMAIN p : p[k] = i
      /\ \A j, k \in DOMAIN p : j < k => p[j] < p[k]
  BY <1>3, FilteredSorted
<1>5. Len(p) \in Nat /\ DOMAIN p = 1..Len(p) /\ \A k \in 1..Len(p) : p[k] \in keep
  BY <1>4, LenProperties, ElementOfSeq
<1>6. p \in Seq(1..n)
  <2>1. \A k \in 1..Len(p) : p[k] \in 1..n
    BY <1>5
  <2> QED
    BY <1>4, <1>5, <2>1
<1> QED
  BY <1>1, <1>2, <1>4, <1>5, <1>6

\* An import either is refused before it starts or does all it was asked to.
Refused == failed' = TRUE /\ groups' = groups /\ entries' = entries

Completed(at, skip) ==
  /\ failed' = FALSE /\ groups' = at.groups /\ entries' = at.entries
  /\ at \in Works /\ Grown(groups, at.groups)
  /\ Done(at, Pending(skip), Len(Pending(skip)))

\* The two ways an import can end.
LEMMA Imported ==
  ASSUME Typed, NEW single \in BOOLEAN, NEW target \in DOMAIN groups,
         NEW newName \in Text, NEW skip,
         HandleExecuteImport(single, target, newName, skip)
  PROVE  Refused \/ \E at : /\ Completed(at, skip)
                            /\ single = FALSE => Sound(at) /\ Placed(at, Pending(skip), Len(Pending(skip)))
<1>1. PICK p \in Seq(DOMAIN previewEntries) : p = Pending(skip)
  BY PendingFacts
<1>2. PICK at : at = ApplyImport(p, single, target, newName)
  OBVIOUS
<1>3. CASE ~ValidBefore(p, single, newName)
  BY <1>1, <1>3 DEF HandleExecuteImport, Refused, vault
<1>4. CASE ValidBefore(p, single, newName)
  <2>1. groups' = at.groups /\ entries' = at.entries /\ failed' = at.error
    BY <1>1, <1>2, <1>4 DEF HandleExecuteImport
  <2>2. CASE single = TRUE
    <3>1. groups[target].live
      BY DEF HandleExecuteImport
    <3>2. /\ at \in Works /\ Grown(groups, at.groups) /\ Done(at, p, Len(p))
      BY <1>2, <2>2, <3>1, SingleImported
    <3>3. at.error = FALSE
      BY <3>2 DEF Works
    <3> QED
      BY <1>1, <2>1, <2>2, <3>2, <3>3 DEF Completed
  <2>3. CASE single = FALSE
    <3>1. \A k \in DOMAIN p : ValidPath(PathOf(previewEntries[p[k]]))
      BY <1>4, <2>3 DEF ValidBefore
    <3>2. Sound(at) /\ Done(at, p, Len(p)) /\ Placed(at, p, Len(p))
      BY <1>2, <2>3, <3>1, FoldersImported
    <3>3. at \in Works /\ Grown(groups, at.groups) /\ at.error = FALSE
      BY <3>2 DEF Sound, Works
    <3> QED
      BY <1>1, <2>1, <2>3, <3>2, <3>3 DEF Completed
  <2> QED
    BY <2>2, <2>3
<1> QED
  BY <1>3, <1>4

\* What the user types is a text.
LEMMA NamesAreText == NewNames \subseteq Text /\ <<>> \in Text
BY ImportAssumption DEF Text

\* Whatever the mode, an import is a run of handleExecuteImport.
LEMMA AnImport ==
  ASSUME Typed, NEW skip, Import(skip)
  PROVE  \E single \in BOOLEAN, target \in DOMAIN groups, newName \in Text :
           HandleExecuteImport(single, target, newName, skip)
<1>1. RootGroup \in DOMAIN groups
  BY TreeFacts DEF Typed, RootGroup
<1>2. CASE HandleExecuteImport(FALSE, RootGroup, <<>>, skip)
  BY <1>1, <1>2, NamesAreText
<1>3. CASE \E target \in DOMAIN groups, newName \in NewNames :
             HandleExecuteImport(TRUE, target, newName, skip)
  BY <1>3, NamesAreText
<1> QED
  BY <1>2, <1>3 DEF Import

\* Every step keeps the types.
LEMMA TypedStep == Typed /\ [Next]_vars => Typed'
<1> SUFFICES ASSUME Typed, [Next]_vars PROVE Typed'
  OBVIOUS
<1>1. CASE ScanQuoted \/ ScanField \/ ScanLineEnd \/ ScanEnd
  <2>1. Scanned'
    <3>1. Scanned
      BY DEF Typed
    <3> QED
      BY <1>1, <3>1, ScannedKept
  <2>2. UNCHANGED <<previewEntries, groups, entries, imports, failed>>
    BY <1>1 DEF ScanQuoted, ScanField, ScanLineEnd, ScanEnd, vault
  <2> QED
    BY <2>1, <2>2 DEF Typed
<1>2. CASE \/ \E p \in Preferred : HandleProcessCsv(p)
           \/ \E i \in DOMAIN previewEntries : ToggleSelectEntry(i)
           \/ \E checked \in BOOLEAN : ToggleSelectAll(checked)
           \/ Reopen
  <2>1. previewEntries' \in Seq(Previews)
    BY <1>2, PreviewsKept
  <2>2. Scanned'
    <3>1. UNCHANGED <<text, pos, rows, row, field, records>>
      BY <1>2 DEF HandleProcessCsv, ToggleSelectEntry, ToggleSelectAll, Reopen, scanner
    <3>2. table' = table \/ table' = <<>>
      BY <1>2 DEF HandleProcessCsv, ToggleSelectEntry, ToggleSelectAll, Reopen, scanner
    <3>3. table' \in Rows
      <4>1. <<>> \in Rows
        BY DEF Rows
      <4> QED
        BY <3>2, <4>1 DEF Typed, Scanned
    <3> QED
      BY <3>1, <3>3 DEF Typed, Scanned
  <2>3. UNCHANGED <<groups, entries, imports>> /\ (failed' = failed \/ failed' = FALSE)
    BY <1>2 DEF HandleProcessCsv, ToggleSelectEntry, ToggleSelectAll, Reopen, vault
  <2> QED
    BY <2>1, <2>2, <2>3 DEF Typed
<1>3. ASSUME NEW skip \in BOOLEAN, Import(skip) PROVE Typed'
  <2>1. PICK single \in BOOLEAN, target \in DOMAIN groups, newName \in Text :
          HandleExecuteImport(single, target, newName, skip)
    BY <1>3, AnImport
  <2>2. UNCHANGED <<scanner, records, previewEntries>> /\ imports' = imports + 1
    BY <2>1 DEF HandleExecuteImport
  <2>3. Scanned' /\ previewEntries' \in Seq(Previews) /\ imports' \in Nat
    BY <2>2 DEF Typed, Scanned, scanner
  <2>4. CASE Refused
    BY <2>3, <2>4 DEF Typed, Refused
  <2>5. ASSUME NEW at, Completed(at, skip) PROVE Typed'
    <3>1. /\ groups' \in Trees /\ entries' \in Seq(Entries) /\ failed' \in BOOLEAN
      BY <2>5 DEF Completed, Works
    <3>2. ASSUME NEW i \in DOMAIN entries' PROVE entries'[i].group \in DOMAIN groups'
      <4>1. PICK m, k \in Nat : m = Len(entries) /\ k = Len(Pending(skip))
        BY PendingFacts, LenProperties DEF Typed
      <4>2. i \in 1..m + k /\ DOMAIN groups' = 1..Len(groups') /\ DOMAIN groups = 1..Len(groups)
              /\ DOMAIN entries = 1..m /\ Len(groups) \in Nat /\ Len(groups') \in Nat
        <5>1. DOMAIN entries' = 1..Len(entries') /\ DOMAIN entries = 1..m
          BY <3>1, <4>1, LenProperties DEF Typed
        <5>2. Len(entries') = m + k
          BY <2>5, <4>1 DEF Completed, Done
        <5> QED
          BY <3>1, <5>1, <5>2, TreeFacts DEF Typed
      <4>3. CASE i \in 1..m
        <5>1. entries'[i] = entries[i] /\ entries[i].group \in 1..Len(groups)
          BY <2>5, <4>1, <4>2, <4>3 DEF Completed, Done, Typed
        <5> QED
          BY <2>5, <4>2, <5>1 DEF Completed, Grown
      <4>4. CASE i \notin 1..m
        <5>1. PICK j \in 1..k : i = m + j
          <6>1. i - m \in 1..k /\ i = m + (i - m)
            BY <4>1, <4>2, <4>4
          <6> QED
            BY <6>1
        <5>2. entries'[i] = Made(at, j)
          BY <2>5, <4>1, <5>1 DEF Completed, Made
        <5> QED
          BY <2>5, <4>1, <4>2, <5>1, <5>2 DEF Completed, Done
      <4> QED
        BY <4>3, <4>4
    <3> QED
      BY <2>3, <3>1, <3>2 DEF Typed
  <2> QED
    BY <2>1, <2>4, <2>5, Imported
<1>4. CASE UNCHANGED vars
  BY <1>4 DEF vars, scanner, vault, Typed, Scanned
<1> QED
  BY <1>1, <1>2, <1>3, <1>4 DEF Next

\* Whatever is read and imported, the rows found, the entries offered and the
\* vault keep their shape: the folders stay a tree, parents first, and every
\* entry is in one of them.
THEOREM ImportTyped == Spec => []Typed
<1>1. Init => Typed
  BY TypedInit
<1>2. Typed /\ [Next]_vars => Typed'
  BY TypedStep
<1> QED
  BY <1>1, <1>2, PTL DEF Spec

\* A step that reports an error leaves the vault as it was.
LEMMA FailsWholeStep == Typed /\ [Next]_vars => [failed' => UNCHANGED vault]_vars
<1> SUFFICES ASSUME Typed, Next, failed' = TRUE PROVE UNCHANGED vault
  <2>1. Typed /\ Next => failed' \in BOOLEAN
    <3>1. Typed /\ Next => Typed'
      BY TypedStep
    <3> QED
      BY <3>1 DEF Typed
  <2> QED
    BY <2>1
<1>1. CASE ScanQuoted \/ ScanField \/ ScanLineEnd \/ ScanEnd
  BY <1>1 DEF ScanQuoted, ScanField, ScanLineEnd, ScanEnd
<1>2. CASE \/ \E p \in Preferred : HandleProcessCsv(p)
           \/ \E i \in DOMAIN previewEntries : ToggleSelectEntry(i)
           \/ \E checked \in BOOLEAN : ToggleSelectAll(checked)
           \/ Reopen
  BY <1>2 DEF HandleProcessCsv, ToggleSelectEntry, ToggleSelectAll, Reopen
<1>3. ASSUME NEW skip \in BOOLEAN, Import(skip) PROVE UNCHANGED vault
  <2>1. PICK single \in BOOLEAN, target \in DOMAIN groups, newName \in Text :
          HandleExecuteImport(single, target, newName, skip)
    BY <1>3, AnImport
  <2>2. Refused
    BY <2>1, Imported DEF Completed
  <2> QED
    BY <2>2 DEF Refused, vault
<1> QED
  BY <1>1, <1>2, <1>3 DEF Next

\* An import that reports an error has changed nothing in the vault.
THEOREM ImportFailsWhole == Spec => FailsWhole
<1>1. Typed /\ [Next]_vars => [failed' => UNCHANGED vault]_vars
  BY FailsWholeStep
<1> QED
  BY <1>1, ImportTyped, PTL DEF Spec, FailsWhole

\* A completed import leaves what was live in the vault there.
LEMMA StillLive ==
  ASSUME Typed, NEW at, NEW skip, Completed(at, skip)
  PROVE  LiveContents \subseteq LiveContents'
<1>1. /\ at.groups \in Trees /\ at.entries \in Seq(Entries)
      /\ DOMAIN at.groups = 1..Len(at.groups) /\ DOMAIN groups = 1..Len(groups)
      /\ Len(groups) \in Nat /\ Len(at.groups) \in Nat
  BY TreeFacts DEF Completed, Works, Typed
<1>2. PICK m, k \in Nat : /\ m = Len(entries) /\ k = Len(Pending(skip))
                          /\ DOMAIN entries = 1..m
  BY PendingFacts, LenProperties DEF Typed
<1>3. Len(at.entries) = m + k /\ DOMAIN at.entries = 1..m + k
  BY <1>1, <1>2, LenProperties DEF Completed, Done
<1>4. ASSUME NEW i \in DOMAIN entries, groups[entries[i].group].live
      PROVE  /\ i \in DOMAIN entries' /\ entries'[i] = entries[i]
             /\ groups'[entries'[i].group].live
  <2>1. i \in 1..m /\ i \in 1..m + k
    BY <1>2
  <2>2. entries'[i] = entries[i] /\ entries[i].group \in 1..Len(groups)
    BY <1>1, <1>2, <2>1 DEF Completed, Done, Typed
  <2>3. groups'[entries[i].group] = groups[entries[i].group]
    BY <2>2 DEF Completed, Grown
  <2> QED
    BY <1>3, <1>4, <2>1, <2>2, <2>3 DEF Completed
<1> QED
  BY <1>4 DEF LiveContents

\* What was pending is in the live vault after it.
LEMMA MadeLive ==
  ASSUME Typed, NEW at, NEW skip, Completed(at, skip), NEW k \in DOMAIN Pending(skip)
  PROVE  previewEntries[Pending(skip)[k]].content \in LiveContents'
<1>1. at.entries \in Seq(Entries)
  BY DEF Completed, Works
<1>2. PICK m, n \in Nat : /\ m = Len(entries) /\ n = Len(Pending(skip))
                          /\ DOMAIN Pending(skip) = 1..n
  BY PendingFacts, LenProperties DEF Typed
<1>3. PICK i : i = m + k
  OBVIOUS
<1>4. i \in DOMAIN at.entries
  <2>1. DOMAIN at.entries = 1..m + n
    BY <1>1, <1>2, LenProperties DEF Completed, Done
  <2>2. k \in 1..n
    BY <1>2
  <2> QED
    BY <1>2, <1>3, <2>1, <2>2
<1>5. /\ at.entries[i].content = previewEntries[Pending(skip)[k]].content
      /\ at.groups[at.entries[i].group].live
  BY <1>2, <1>3 DEF Completed, Done, Made
<1> QED
  BY <1>4, <1>5 DEF LiveContents, Completed

\* Of the chosen rows with some content the first is imported, unless that
\* content is in the live vault already.
LEMMA ChosenKept ==
  ASSUME Typed, NEW at, NEW skip, Completed(at, skip)
  PROVE  Chosen \subseteq LiveContents'
<1>1. SUFFICES ASSUME NEW i \in DOMAIN previewEntries, previewEntries[i].selected
               PROVE  previewEntries[i].content \in LiveContents'
  BY DEF Chosen
<1>2. PICK n \in Nat : n = Len(previewEntries) /\ DOMAIN previewEntries = 1..n
  BY LenProperties DEF Typed
<1>3. PICK same \in SUBSET (1..n) :
        same = {j \in 1..n : /\ previewEntries[j].selected
                             /\ previewEntries[j].content = previewEntries[i].content}
  OBVIOUS
<1>4. same # {}
  BY <1>1, <1>2, <1>3
<1>5. PICK j \in 1..n : j \in same /\ \A x \in same : j <= x
  BY <1>4, MinMax
<1>6. previewEntries[j].selected /\ previewEntries[j].content = previewEntries[i].content
  BY <1>3, <1>5
<1>7. previewEntries[j].content \notin Earlier(j)
  <2> SUFFICES ASSUME NEW x \in 1..j - 1, previewEntries[x].selected,
                      previewEntries[x].content = previewEntries[j].content
               PROVE  FALSE
    BY DEF Earlier
  <2>1. x \in 1..n /\ ~ (j <= x)
    BY <1>5
  <2>2. x \in same
    BY <1>3, <1>6, <2>1
  <2> QED
    BY <1>5, <2>1, <2>2
<1>8. CASE j \in Wanted(skip)
  <2>1. PICK k \in DOMAIN Pending(skip) : Pending(skip)[k] = j
    BY <1>8, PendingFacts
  <2> QED
    BY <1>6, <2>1, MadeLive
<1>9. CASE j \notin Wanted(skip)
  <2>1. j \in FindDuplicates
    BY <1>2, <1>6, <1>9 DEF Wanted
  <2>2. previewEntries[j].content \in LiveContents
    BY <1>7, <2>1 DEF FindDuplicates
  <2> QED
    BY <1>6, <2>2, StillLive
<1> QED
  BY <1>8, <1>9

\* Skipping duplicates adds nothing twice, nor what was there.
AddsOnce ==
  /\ \A i \in Added : entries'[i].content \notin LiveContents
  /\ \A i, j \in Added : entries'[i].content = entries'[j].content => i = j

\* Skipping duplicates, it adds no content twice and none that was live.
LEMMA NoneTwice ==
  ASSUME Typed, NEW at, Completed(at, TRUE)
  PROVE  AddsOnce
<1>1. PICK p \in Seq(DOMAIN previewEntries) : p = Pending(TRUE)
  BY PendingFacts
<1>2. PICK m, n \in Nat : m = Len(entries) /\ n = Len(p) /\ DOMAIN p = 1..n
  BY LenProperties DEF Typed
<1>3. /\ \A k \in 1..n : p[k] \in Wanted(TRUE)
      /\ \A j, k \in 1..n : j < k => p[j] < p[k]
  BY <1>1, <1>2, PendingFacts
<1>4. DOMAIN entries' = 1..m + n
  <2>1. at.entries \in Seq(Entries) /\ Len(at.entries) = m + n
    BY <1>1, <1>2 DEF Completed, Works, Done
  <2> QED
    BY <2>1, LenProperties DEF Completed
<1>5. ASSUME NEW i \in Added
      PROVE  \E k \in 1..n : i = m + k /\ entries'[i].content = previewEntries[p[k]].content
  <2>1. i \in 1..m + n /\ i > m
    BY <1>2, <1>4 DEF Added
  <2>2. PICK k \in 1..n : k = i - m /\ i = m + k
    BY <2>1
  <2>3. entries'[i].content = previewEntries[p[k]].content
    BY <1>1, <1>2, <2>2 DEF Completed, Done, Made
  <2> QED
    BY <2>2, <2>3
<1>6. ASSUME NEW k \in 1..n
      PROVE  /\ previewEntries[p[k]].content \notin LiveContents
             /\ previewEntries[p[k]].content \notin Earlier(p[k])
             /\ previewEntries[p[k]].selected
             /\ p[k] \in Nat \ {0}
  <2>1. p[k] \in DOMAIN previewEntries /\ previewEntries[p[k]].selected /\ p[k] \notin FindDuplicates
    BY <1>3 DEF Wanted
  <2>2. DOMAIN previewEntries = 1..Len(previewEntries) /\ Len(previewEntries) \in Nat
    BY LenProperties DEF Typed
  <2> QED
    BY <2>1, <2>2 DEF FindDuplicates
<1>7. ASSUME NEW j \in 1..n, NEW k \in 1..n, j < k
      PROVE  previewEntries[p[j]].content # previewEntries[p[k]].content
  <2>1. p[j] \in 1..p[k] - 1
    BY <1>3, <1>6, <1>7
  <2>2. previewEntries[p[j]].content \in Earlier(p[k])
    BY <1>6, <2>1 DEF Earlier
  <2> QED
    BY <1>6, <2>2
<1>8. \A i \in Added : entries'[i].content \notin LiveContents
  BY <1>5, <1>6
<1>9. ASSUME NEW i \in Added, NEW j \in Added, entries'[i].content = entries'[j].content
      PROVE  i = j
  <2>1. PICK a \in 1..n : i = m + a /\ entries'[i].content = previewEntries[p[a]].content
    BY <1>5
  <2>2. PICK b \in 1..n : j = m + b /\ entries'[j].content = previewEntries[p[b]].content
    BY <1>5
  <2>3. ~ (a < b) /\ ~ (b < a)
    BY <1>7, <1>9, <2>1, <2>2
  <2> QED
    BY <2>1, <2>2, <2>3
<1> QED
  BY <1>8, <1>9 DEF AddsOnce

\* SelectedImportedOnce holds of every step.
LEMMA ImportedOnceStep ==
  Typed /\ [Next]_vars =>
    [/\ phase = "preview" /\ phase' = "closed" => Chosen \subseteq LiveContents'
     /\ Import(TRUE) => AddsOnce]_vars
<1> SUFFICES ASSUME Typed, Next
             PROVE  /\ phase = "preview" /\ phase' = "closed" => Chosen \subseteq LiveContents'
                    /\ Import(TRUE) => AddsOnce
  OBVIOUS
<1>1. ASSUME phase = "preview", phase' = "closed" PROVE Chosen \subseteq LiveContents'
  <2>1. PICK skip \in BOOLEAN : Import(skip)
    BY <1>1 DEF Next, ScanQuoted, ScanField, ScanLineEnd, ScanEnd, Scanning, HandleProcessCsv,
                ToggleSelectEntry, ToggleSelectAll, Reopen
  <2>2. PICK single \in BOOLEAN, target \in DOMAIN groups, newName \in Text :
          HandleExecuteImport(single, target, newName, skip)
    BY <2>1, AnImport
  <2>3. failed' # TRUE
    BY <1>1, <2>2 DEF HandleExecuteImport
  <2>4. PICK at : Completed(at, skip)
    BY <2>2, <2>3, Imported DEF Refused
  <2> QED
    BY <2>4, ChosenKept
<1>2. ASSUME Import(TRUE) PROVE AddsOnce
  <2>1. CASE Refused
    <3>1. Len(entries) \in Nat /\ DOMAIN entries = 1..Len(entries)
      BY LenProperties DEF Typed
    <3>2. Added = {}
      BY <2>1, <3>1 DEF Added, Refused
    <3> QED
      BY <3>2 DEF AddsOnce
  <2>2. ASSUME NEW at, Completed(at, TRUE) PROVE AddsOnce
    BY <2>2, NoneTwice
  <2> QED
    BY <1>2, <2>1, <2>2, AnImport, Imported
<1> QED
  BY <1>1, <1>2

\* After an import everything selected is in the live vault, and one that
\* skips duplicates has added nothing twice, nor what was there already.
THEOREM ImportedOnce == Spec => SelectedImportedOnce
<1>1. Typed /\ [Next]_vars =>
        [/\ phase = "preview" /\ phase' = "closed" => Chosen \subseteq LiveContents'
         /\ Import(TRUE) =>
              /\ \A i \in Added : entries'[i].content \notin LiveContents
              /\ \A i, j \in Added :
                   entries'[i].content = entries'[j].content => i = j]_vars
  <2> HIDE DEF Added, LiveContents, Chosen, Typed, Next, Import
  <2> QED
    BY ImportedOnceStep DEF AddsOnce
<1> QED
  BY <1>1, ImportTyped, PTL DEF Spec, SelectedImportedOnce

\* The rows of p are in the folders they name, and no path is there twice.
Lands(p, paths) ==
  /\ \A k \in DOMAIN p :
       LET made == entries'[Len(entries) + k] IN
       /\ groups'[made.group].live
       /\ paths[made.group] = FoldedPathOf(previewEntries[p[k]])
  /\ \A g \in DOMAIN groups' \ DOMAIN groups, h \in DOMAIN groups' :
       g # h /\ groups'[h].live => paths[g] # paths[h]

\* An import into named folders puts every row where it belongs.
LEMMA LandsStep ==
  ASSUME Typed, NEW skip \in BOOLEAN,
         HandleExecuteImport(FALSE, RootGroup, <<>>, skip) /\ ~failed',
         NEW paths, paths = FoldedPaths(groups'), NEW p, p = Pending(skip)
  PROVE  Lands(p, paths)
<1>1. RootGroup \in DOMAIN groups
  BY TreeFacts DEF Typed, RootGroup
<1>2. PICK at : Completed(at, skip) /\ Sound(at) /\ Placed(at, p, Len(p))
  <2>1. <<>> \in Text /\ FALSE \in BOOLEAN
    BY NamesAreText
  <2> QED
    BY <1>1, <2>1, Imported DEF Refused
<1>3. PICK n \in Nat : n = Len(p) /\ DOMAIN p = 1..n
  BY PendingFacts, LenProperties
<1>4. groups' = at.groups /\ entries' = at.entries /\ Done(at, p, n)
  BY <1>2, <1>3 DEF Completed
<1>5. ASSUME NEW k \in 1..n
      PROVE  /\ groups'[Made(at, k).group].live
             /\ paths[Made(at, k).group] = FoldedPathOf(previewEntries[p[k]])
  BY <1>2, <1>3, <1>4, <1>5 DEF Done, Placed
<1>6. ASSUME NEW g \in DOMAIN groups' \ DOMAIN groups, NEW h \in DOMAIN groups',
             g # h, groups'[h].live
      PROVE  paths[g] # paths[h]
  <2>1. at.groups \in Trees /\ groups \in Trees
    BY <1>2 DEF Sound, Works, Typed
  <2>2. /\ g \in 1..Len(at.groups) /\ h \in 1..Len(at.groups) /\ ~ (g \in 1..Len(groups))
        /\ Len(groups) \in Nat /\ Len(at.groups) \in Nat
    BY <1>4, <1>6, <2>1, TreeFacts
  <2>3. g > Len(groups)
    BY <2>2
  <2> QED
    BY <1>2, <1>4, <1>6, <2>2, <2>3 DEF Sound, Fresh
<1> QED
  BY <1>3, <1>4, <1>5, <1>6 DEF Made, Lands

\* Importing into the folders the file names puts every entry into a live
\* folder with that path, and makes no second folder for a path.
THEOREM ImportLands == Spec => LandsInItsFolder
<1>1. ASSUME Typed, NEW skip \in BOOLEAN,
             HandleExecuteImport(FALSE, RootGroup, <<>>, skip) /\ ~failed'
      PROVE  LET paths == FoldedPaths(groups')
                 new == DOMAIN groups' \ DOMAIN groups
                 pending == Pending(skip)
             IN  /\ \A k \in DOMAIN pending :
                      LET made == entries'[Len(entries) + k] IN
                      /\ groups'[made.group].live
                      /\ paths[made.group] =
                           [i \in DOMAIN PathOf(previewEntries[pending[k]]) |->
                              LowerCase(PathOf(previewEntries[pending[k]])[i])]
                 /\ \A g \in new, h \in DOMAIN groups' :
                      g # h /\ groups'[h].live => paths[g] # paths[h]
  <2>1. PICK p, paths : p = Pending(skip) /\ paths = FoldedPaths(groups')
    OBVIOUS
  <2>2. Lands(p, paths)
    BY <1>1, <2>1, LandsStep
  <2>3. ASSUME NEW k \in DOMAIN p
        PROVE  FoldedPathOf(previewEntries[p[k]]) =
                 [i \in DOMAIN PathOf(previewEntries[p[k]]) |->
                    LowerCase(PathOf(previewEntries[p[k]])[i])]
    <3>1. p[k] \in DOMAIN previewEntries
      <4>1. p \in Seq(DOMAIN previewEntries)
        BY <1>1, <2>1, PendingFacts
      <4> QED
        BY <4>1, LenProperties, ElementOfSeq
    <3>2. PICK entry \in Previews : entry = previewEntries[p[k]]
      <4>1. Len(previewEntries) \in Nat /\ DOMAIN previewEntries = 1..Len(previewEntries)
        BY <1>1, LenProperties DEF Typed
      <4> QED
        BY <1>1, <3>1, <4>1, ElementOfSeq DEF Typed
    <3>3. DOMAIN PathOf(entry) = 1..Len(PathOf(entry))
      BY PathOfType, LenProperties
    <3> QED
      BY <3>2, <3>3 DEF FoldedPathOf, Folded
  <2> HIDE DEF FoldedPathOf
  <2> QED
    BY <2>1, <2>2, <2>3 DEF Lands
<1>2. Typed /\ [Next]_vars =>
        [\A skip \in BOOLEAN :
           HandleExecuteImport(FALSE, RootGroup, <<>>, skip) /\ ~failed' =>
             LET paths == FoldedPaths(groups')
                 new == DOMAIN groups' \ DOMAIN groups
                 pending == Pending(skip)
             IN  /\ \A k \in DOMAIN pending :
                      LET made == entries'[Len(entries) + k] IN
                      /\ groups'[made.group].live
                      /\ paths[made.group] =
                           [i \in DOMAIN PathOf(previewEntries[pending[k]]) |->
                              LowerCase(PathOf(previewEntries[pending[k]])[i])]
                 /\ \A g \in new, h \in DOMAIN groups' :
                      g # h /\ groups'[h].live => paths[g] # paths[h]]_vars
  BY <1>1
<1> QED
  BY <1>2, ImportTyped, PTL DEF Spec, LandsInItsFolder
-----------------------------------------------------------------------------
(* Places in a text *)

\* s stands in w after the place o.
Occurs(w, s, o) ==
  /\ o + Len(s) <= Len(w)
  /\ \A k \in 1..Len(s) : w[o + k] = s[k]

\* The parts of what stands in a text stand there, one after the other.
LEMMA OccursConcat ==
  ASSUME NEW T, NEW s \in Seq(T), NEW t \in Seq(T), NEW w, Len(w) \in Nat,
         NEW o \in Nat, Occurs(w, s \o t, o)
  PROVE  /\ Occurs(w, s, o) /\ Occurs(w, t, o + Len(s))
         /\ Len(s \o t) = Len(s) + Len(t)
<1>1. PICK m, n \in Nat : m = Len(s) /\ n = Len(t)
  BY LenProperties
<1>2. PICK st : st = s \o t
  OBVIOUS
<1>3. /\ Len(st) = m + n
      /\ \A k \in 1..m + n : st[k] = IF k <= m THEN s[k] ELSE t[k - m]
  BY <1>1, <1>2, ConcatProperties
<1>4. o + m + n <= Len(w) /\ \A k \in 1..m + n : w[o + k] = st[k]
  BY <1>2, <1>3 DEF Occurs
<1>5. ASSUME NEW k \in 1..m PROVE w[o + k] = s[k]
  BY <1>3, <1>4
<1>6. ASSUME NEW k \in 1..n PROVE w[o + m + k] = t[k]
  <2>1. m + k \in 1..m + n /\ ~(m + k <= m) /\ (m + k) - m = k /\ o + (m + k) = o + m + k
    OBVIOUS
  <2> QED
    BY <1>3, <1>4, <2>1
<1>7. o + m <= Len(w) /\ (o + m) + n <= Len(w)
  BY <1>4
<1> QED
  BY <1>1, <1>2, <1>3, <1>5, <1>6, <1>7 DEF Occurs

\* The places of the parts ss, which stand in w after o.
Placings(w, ss, o) ==
  {at \in [0..Len(ss) -> Nat] :
     /\ at[0] = o /\ at[Len(ss)] = o + Len(FlattenSeq(ss))
     /\ \A k \in 1..Len(ss) : /\ at[k] = at[k - 1] + Len(ss[k])
                              /\ Occurs(w, ss[k], at[k - 1])}

\* Where a joined text stands its parts do.
LEMMA OccursFlatten ==
  ASSUME NEW T, NEW ss \in Seq(Seq(T)), NEW w, Len(w) \in Nat, NEW o \in Nat,
         Occurs(w, FlattenSeq(ss), o)
  PROVE  Placings(w, ss, o) # {}
<1>1. PICK n \in Nat : n = Len(ss)
  BY LenProperties
<1>2. \A k \in 1..n : ss[k] \in Seq(T)
  BY <1>1, ElementOfSeq
<1>3. PICK g \in [0..n -> Seq(T)] :
        g[0] = <<>> /\ g[n] = FlattenSeq(ss) /\ \A k \in 1..n : g[k] = g[k - 1] \o ss[k]
  BY <1>1, FlattenLoop DEF Flattenings
<1>4. ASSUME NEW k \in 1..n PROVE k - 1 \in 0..n /\ k \in 0..n /\ g[k - 1] \in Seq(T)
  <2>1. k - 1 \in 0..n /\ k \in 0..n
    OBVIOUS
  <2> QED
    BY <2>1
<1>5. ASSUME NEW k \in 1..n, Occurs(w, g[k], o)
      PROVE  /\ Occurs(w, g[k - 1], o) /\ Occurs(w, ss[k], o + Len(g[k - 1]))
             /\ Len(g[k]) = Len(g[k - 1]) + Len(ss[k])
  <2>1. PICK a, b \in Seq(T) : a = g[k - 1] /\ b = ss[k]
    BY <1>2, <1>4
  <2>2. g[k] = a \o b /\ Occurs(w, a \o b, o)
    BY <1>3, <1>5, <2>1
  <2>3. Occurs(w, a, o) /\ Occurs(w, b, o + Len(a)) /\ Len(a \o b) = Len(a) + Len(b)
    BY <2>2, OccursConcat
  <2> QED
    BY <2>1, <2>2, <2>3
<1> DEFINE S == {m \in 0..n : Occurs(w, g[n - m], o)}
<1>6. 0 \in S
  BY <1>3
<1>7. ASSUME NEW m \in 0..n, m \in S, m < n PROVE m + 1 \in S
  <2>1. n - m \in 1..n /\ (n - m) - 1 = n - (m + 1) /\ m + 1 \in 0..n
    BY <1>7
  <2>2. Occurs(w, g[n - (m + 1)], o)
    BY <1>5, <1>7, <2>1
  <2> QED
    BY <2>1, <2>2
<1>8. 0..n \subseteq S
  <2> HIDE DEF S
  <2> QED
    BY <1>6, <1>7, Induction
<1>9. \A k \in 0..n : Occurs(w, g[k], o)
  <2> SUFFICES ASSUME NEW k \in 0..n PROVE Occurs(w, g[k], o)
    OBVIOUS
  <2>1. n - k \in 0..n /\ n - (n - k) = k
    OBVIOUS
  <2> QED
    BY <1>8, <2>1
<1>10. PICK at : at = [k \in 0..n |-> o + Len(g[k])]
  OBVIOUS
<1>11. at \in [0..n -> Nat]
  <2>1. \A k \in 0..n : Len(g[k]) \in Nat
    BY LenProperties
  <2> QED
    BY <1>10, <2>1
<1>12. at[0] = o /\ at[n] = o + Len(FlattenSeq(ss))
  <2>1. Len(g[0]) = 0 /\ 0 \in 0..n /\ n \in 0..n
    BY <1>3, EmptySeq
  <2>2. at[0] = o + Len(g[0]) /\ at[n] = o + Len(g[n])
    BY <1>10, <2>1
  <2> QED
    BY <1>3, <2>1, <2>2
<1>13. ASSUME NEW k \in 1..n PROVE at[k] = at[k - 1] + Len(ss[k]) /\ Occurs(w, ss[k], at[k - 1])
  <2>1. Occurs(w, g[k], o)
    BY <1>4, <1>9
  <2>2. at[k] = o + Len(g[k]) /\ at[k - 1] = o + Len(g[k - 1])
    BY <1>4, <1>10
  <2>3. PICK x, y \in Nat : x = Len(ss[k]) /\ y = Len(g[k - 1])
    BY <1>2, <1>4, LenProperties
  <2>4. Len(g[k]) = y + x /\ Occurs(w, ss[k], o + y)
    BY <1>5, <2>1, <2>3
  <2>5. PICK z \in Nat : z = o + y
    OBVIOUS
  <2>6. PICK v \in Nat : v = Len(g[k])
    BY <1>4, LenProperties
  <2>7. v = y + x
    BY <2>4, <2>6
  <2>8. at[k] = o + v /\ at[k - 1] = o + y
    BY <2>2, <2>3, <2>6
  <2>9. o + v = z + x
    BY <2>5, <2>7
  <2>10. at[k - 1] = z /\ at[k] = z + x
    BY <2>5, <2>8, <2>9
  <2>11. Occurs(w, ss[k], z)
    BY <2>4, <2>5
  <2> QED
    BY <2>3, <2>10, <2>11
<1> QED
  BY <1>1, <1>11, <1>12, <1>13 DEF Placings

\* The places of the texts s, joined by sep, where they stand in w after o.
Joinings(w, s, sep, o) ==
  {at \in [1..Len(s) -> Nat] :
     /\ at[1] = o /\ at[Len(s)] + Len(s[Len(s)]) = o + Len(Join(s, sep))
     /\ \A k \in 1..Len(s) : Occurs(w, s[k], at[k])
     /\ \A k \in 1..Len(s) - 1 :
          /\ Occurs(w, sep, at[k] + Len(s[k]))
          /\ at[k + 1] = at[k] + Len(s[k]) + Len(sep)}

\* Where joined texts stand there are they, and sep between them.
LEMMA OccursJoin ==
  ASSUME NEW T, NEW s \in Seq(Seq(T)), s # <<>>, NEW sep \in Seq(T),
         NEW w, Len(w) \in Nat, NEW o \in Nat, Occurs(w, Join(s, sep), o)
  PROVE  Joinings(w, s, sep, o) # {}
<1>1. PICK n \in Nat \ {0} : n = Len(s) /\ DOMAIN s = 1..n
  BY LenProperties, EmptySeq
<1>2. PICK ss : ss = [i \in 1..n |-> IF i = 1 THEN s[i] ELSE sep \o s[i]]
  OBVIOUS
<1>3. \A i \in 1..n : s[i] \in Seq(T)
  BY <1>1, ElementOfSeq
<1>4. ss \in Seq(Seq(T)) /\ Len(ss) = n
  <2>1. \A i \in 1..n : ss[i] \in Seq(T)
    BY <1>2, <1>3, ConcatProperties
  <2> QED
    BY <1>2, <2>1
<1>5. Join(s, sep) = FlattenSeq(ss)
  BY <1>1, <1>2 DEF Join
<1>6. PICK at \in [0..n -> Nat] :
        /\ at[0] = o /\ at[n] = o + Len(Join(s, sep))
        /\ \A k \in 1..n : at[k] = at[k - 1] + Len(ss[k]) /\ Occurs(w, ss[k], at[k - 1])
  <2>1. Placings(w, ss, o) # {}
    BY <1>4, <1>5, OccursFlatten
  <2> QED
    BY <1>4, <1>5, <2>1 DEF Placings
<1>7. PICK m \in Nat : m = Len(sep)
  BY LenProperties
<1>8. PICK b : b = [k \in 1..n |-> IF k = 1 THEN o ELSE at[k - 1] + m]
  OBVIOUS
<1>9. ASSUME NEW k \in 1..n
      PROVE  /\ k - 1 \in 0..n /\ k \in 0..n /\ at[k - 1] \in Nat /\ Len(s[k]) \in Nat
             /\ b[k] \in Nat
  <2>1. k - 1 \in 0..n /\ k \in 0..n
    OBVIOUS
  <2>2. at[k - 1] \in Nat /\ Len(s[k]) \in Nat
    BY <1>3, <2>1, LenProperties
  <2>3. b[k] \in Nat
    <3>1. PICK x \in Nat : x = at[k - 1]
      BY <2>2
    <3>2. b[k] = IF k = 1 THEN o ELSE x + m
      BY <1>8, <3>1
    <3> QED
      BY <3>2
  <2> QED
    BY <2>1, <2>2, <2>3
<1>10. ASSUME NEW k \in 1..n
       PROVE  /\ Occurs(w, s[k], b[k]) /\ at[k] = b[k] + Len(s[k])
              /\ k # 1 => Occurs(w, sep, at[k - 1]) /\ b[k] = at[k - 1] + m
  <2>1. CASE k = 1
    BY <1>2, <1>6, <1>8, <2>1
  <2>2. CASE k # 1
    <3>1. ss[k] = sep \o s[k] /\ Occurs(w, ss[k], at[k - 1]) /\ b[k] = at[k - 1] + m
      BY <1>2, <1>6, <1>8, <2>2
    <3>2. PICK x \in Nat, t \in Seq(T) : x = at[k - 1] /\ t = s[k]
      BY <1>3, <1>9
    <3>3. Occurs(w, sep \o t, x)
      BY <3>1, <3>2
    <3>4. Occurs(w, sep, x) /\ Occurs(w, t, x + m) /\ Len(sep \o t) = m + Len(t)
      BY <1>7, <3>3, OccursConcat
    <3>5. at[k] = x + (m + Len(t)) /\ b[k] = x + m
      BY <1>6, <3>1, <3>2, <3>4
    <3>6. Len(t) \in Nat
      BY LenProperties
    <3>7. at[k] = b[k] + Len(s[k])
      BY <3>2, <3>5, <3>6
    <3>8. Occurs(w, s[k], b[k]) /\ Occurs(w, sep, at[k - 1])
      BY <3>2, <3>4, <3>5
    <3> QED
      BY <3>1, <3>7, <3>8
  <2> QED
    BY <2>1, <2>2
<1>11. b \in [1..n -> Nat]
  BY <1>8, <1>9
<1>12. b[1] = o /\ b[n] + Len(s[n]) = o + Len(Join(s, sep))
  <2>1. 1 \in 1..n /\ n \in 1..n
    OBVIOUS
  <2> QED
    BY <1>6, <1>8, <1>10, <2>1
<1>13. ASSUME NEW k \in 1..n - 1
       PROVE  /\ Occurs(w, sep, b[k] + Len(s[k])) /\ b[k + 1] = b[k] + Len(s[k]) + m
  <2>1. k \in 1..n /\ k + 1 \in 1..n /\ k + 1 # 1 /\ (k + 1) - 1 = k
    OBVIOUS
  <2> QED
    BY <1>10, <2>1
<1> QED
  BY <1>1, <1>7, <1>10, <1>11, <1>12, <1>13 DEF Joinings

-----------------------------------------------------------------------------
(* How a table stands in the text written from it *)

\* How an exporting program writes.
Eols == {<<LF>>, <<CR>>, <<CR, LF>>}
Styles == [bom : {<<>>, <<BOM>>}, delimiter : Delimiters, always : BOOLEAN,
           lastEol : BOOLEAN, eol : Eols]

Written(f, m) == WriteField(f, m.delimiter, m.always)
CellsOf(r, m) == [j \in DOMAIN r |-> Written(r[j], m)]
LineOf(r, m) == Join(CellsOf(r, m), <<m.delimiter>>)

\* Where the cell f ends that stands after the place o.
EndOf(f, m, o) == o + Len(Written(f, m))

\* Field j of row i stands at its place, and what follows it is a delimiter
\* and the next one or, at the end of the row, a line end and the next row.
CellLaid(w, t, m, at, i, j) ==
  LET end == EndOf(t[i][j], m, at[i][j]) IN
  /\ at[i][j] \in Nat
  /\ Occurs(w, Written(t[i][j], m), at[i][j])
  /\ j # Len(t[i]) => Occurs(w, <<m.delimiter>>, end) /\ at[i][j + 1] = end + 1
  /\ j = Len(t[i]) /\ (i # Len(t) \/ m.lastEol) => Occurs(w, m.eol, end)
  /\ j = Len(t[i]) /\ i # Len(t) => at[i + 1][1] = end + Len(m.eol)
  /\ j = Len(t[i]) /\ i = Len(t) =>
       Len(w) = end + (IF m.lastEol THEN Len(m.eol) ELSE 0)

\* The places of the fields of the table t in the text w.
Layouts(w, t, m) ==
  {at \in [1..Len(t) -> Seq(Nat)] :
     /\ Occurs(w, m.bom, 0) /\ at[1][1] = Len(m.bom)
     /\ Occurs(w, LineOf(t[1], m), Len(m.bom))
     /\ EndOf(t[1][Len(t[1])], m, at[1][Len(t[1])]) = Len(m.bom) + Len(LineOf(t[1], m))
     /\ \A i \in 1..Len(t) : \A j \in 1..Len(t[i]) : CellLaid(w, t, m, at, i, j)}

\* The fields and the line of a row are texts.
LEMMA LineFacts ==
  ASSUME NEW r \in Seq(Text), NEW m, m.delimiter \in Delimiters
  PROVE  /\ CellsOf(r, m) \in Seq(Text) /\ Len(CellsOf(r, m)) = Len(r)
         /\ \A j \in 1..Len(r) : CellsOf(r, m)[j] = Written(r[j], m) /\ Written(r[j], m) \in Text
         /\ LineOf(r, m) \in Text /\ <<m.delimiter>> \in Text
<1>1. PICK n \in Nat : n = Len(r) /\ DOMAIN r = 1..n
  BY LenProperties
<1>2. ASSUME NEW j \in 1..n PROVE Written(r[j], m) \in Text
  BY <1>1, ElementOfSeq, FieldType DEF Written
<1>3. PICK c : c = CellsOf(r, m)
  OBVIOUS
<1>4. c = [j \in 1..n |-> Written(r[j], m)]
  BY <1>1, <1>3 DEF CellsOf
<1>5. c \in Seq(Text) /\ Len(c) = n /\ \A j \in 1..n : c[j] = Written(r[j], m)
  BY <1>2, <1>4
<1>6. <<m.delimiter>> \in Text
  BY SpecialTokens DEF Text
<1>7. Join(c, <<m.delimiter>>) \in Text
  BY <1>5, <1>6, JoinType
<1> QED
  BY <1>1, <1>2, <1>3, <1>5, <1>6, <1>7 DEF LineOf

\* A line end and a byte order mark are texts.
LEMMA EolFacts ==
  ASSUME NEW m \in Styles
  PROVE  /\ m.eol \in Text /\ m.bom \in Text /\ m.delimiter \in Delimiters
         /\ m.lastEol \in BOOLEAN
         /\ Len(m.eol) \in Nat \ {0} /\ m.eol[1] \in {CR, LF}
         /\ Len(m.bom) \in Nat
<1> HIDE DEF LF, CR, BOM, Delimiters
<1>1. <<LF>> \in Text /\ <<CR>> \in Text /\ <<CR, LF>> \in Text
  BY SpecialTokens DEF Text
<1>2. <<BOM>> \in Text /\ <<>> \in Text
  BY SpecialTokens DEF Text
<1>3. m.eol \in Eols /\ m.bom \in {<<>>, <<BOM>>} /\ m.delimiter \in Delimiters /\ m.lastEol \in BOOLEAN
  BY DEF Styles
<1>4. m.eol \in Text /\ m.bom \in Text
  BY <1>1, <1>2, <1>3 DEF Eols
<1>5. Len(m.eol) \in Nat \ {0} /\ m.eol[1] \in {CR, LF}
  <2>1. \A x, y : Len(<<x>>) = 1 /\ <<x>>[1] = x /\ Len(<<x, y>>) = 2 /\ <<x, y>>[1] = x
    OBVIOUS
  <2>2. CASE m.eol = <<LF>>
    BY <2>1, <2>2
  <2>3. CASE m.eol = <<CR>>
    BY <2>1, <2>3
  <2>4. CASE m.eol = <<CR, LF>>
    BY <2>1, <2>4
  <2> QED
    BY <1>3, <2>2, <2>3, <2>4 DEF Eols
<1>6. Len(m.bom) \in Nat
  BY <1>4, LenProperties DEF Text
<1> QED
  BY <1>3, <1>4, <1>5, <1>6

\* A text written from a table has a layout.
LEMMA LaidOut ==
  ASSUME NEW t \in Rows, t # <<>>, \A i \in DOMAIN t : t[i] # <<>>, NEW m \in Styles,
         NEW w, w = m.bom \o WriteTable(t, m.delimiter, m.always, m.eol, m.lastEol)
  PROVE  Layouts(w, t, m) # {}
<1> HIDE DEF LF, CR, BOM, Quote, Delimiters
<1>1. PICK n \in Nat \ {0} : n = Len(t) /\ DOMAIN t = 1..n
  BY LenProperties, EmptySeq DEF Rows
<1>2. ASSUME NEW i \in 1..n
      PROVE  /\ t[i] \in Seq(Text) /\ Len(t[i]) \in Nat \ {0}
             /\ CellsOf(t[i], m) \in Seq(Text) /\ CellsOf(t[i], m) # <<>>
             /\ LineOf(t[i], m) \in Text
  <2>1. t[i] \in Seq(Text) /\ t[i] # <<>>
    BY <1>1, ElementOfSeq DEF Rows
  <2>2. Len(t[i]) \in Nat \ {0}
    BY <2>1, LenProperties, EmptySeq
  <2>3. CellsOf(t[i], m) \in Seq(Text) /\ Len(CellsOf(t[i], m)) = Len(t[i]) /\ LineOf(t[i], m) \in Text
    BY <2>1, EolFacts, LineFacts
  <2>4. CellsOf(t[i], m) # <<>>
    BY <2>2, <2>3, EmptySeq
  <2> QED
    BY <2>1, <2>2, <2>3, <2>4
<1>3. PICK lines : lines = [i \in 1..n |-> LineOf(t[i], m)]
  OBVIOUS
<1>4. lines \in Seq(Text) /\ Len(lines) = n /\ lines # <<>> /\ \A i \in 1..n : lines[i] = LineOf(t[i], m)
  <2>1. lines \in Seq(Text) /\ Len(lines) = n
    BY <1>2, <1>3
  <2> QED
    BY <1>1, <1>3, <2>1, EmptySeq
<1>5. PICK j \in Text : j = Join(lines, m.eol)
  BY <1>4, EolFacts, JoinType
<1>6. PICK e \in Text : e = IF m.lastEol THEN m.eol ELSE <<>>
  <2>1. m.eol \in Text /\ <<>> \in Text
    BY EolFacts DEF Text
  <2> QED
    BY <2>1
<1>7. WriteTable(t, m.delimiter, m.always, m.eol, m.lastEol) = j \o e
  BY <1>1, <1>3, <1>5, <1>6 DEF WriteTable, LineOf, CellsOf, Written
<1>8. PICK b \in Text : b = m.bom
  BY EolFacts
<1>9. w = b \o (j \o e)
  BY <1>7, <1>8
<1>10. b \in Seq(Tokens) /\ j \in Seq(Tokens) /\ e \in Seq(Tokens) /\ j \o e \in Seq(Tokens) /\ w \in Seq(Tokens)
  BY <1>9, ConcatProperties DEF Text
<1>11. PICK x, y, z \in Nat : x = Len(b) /\ y = Len(j) /\ z = Len(e)
  BY <1>10, LenProperties
<1>12. Len(w) \in Nat
  BY <1>10, LenProperties
<1>13. Occurs(w, b, 0) /\ Occurs(w, j, x) /\ Occurs(w, e, x + y) /\ Len(w) = x + (y + z)
  <2>1. Occurs(w, w, 0)
    BY <1>12 DEF Occurs
  <2>2. PICK je \in Seq(Tokens) : je = j \o e
    BY <1>10
  <2>3. Occurs(w, b \o je, 0)
    BY <1>9, <2>1, <2>2
  <2>4. Occurs(w, b, 0) /\ Occurs(w, je, 0 + Len(b)) /\ Len(b \o je) = Len(b) + Len(je)
    BY <1>10, <1>12, <2>3, OccursConcat
  <2>5. Occurs(w, j \o e, x)
    BY <1>11, <2>2, <2>4
  <2>6. Occurs(w, j, x) /\ Occurs(w, e, x + Len(j)) /\ Len(j \o e) = Len(j) + Len(e)
    BY <1>10, <1>12, <2>5, OccursConcat
  <2> QED
    BY <1>9, <1>11, <2>2, <2>4, <2>6
<1>14. PICK A \in [1..n -> Nat] :
         /\ A[1] = x /\ A[n] + Len(lines[n]) = x + y
         /\ \A k \in 1..n : Occurs(w, lines[k], A[k])
         /\ \A k \in 1..n - 1 : /\ Occurs(w, m.eol, A[k] + Len(lines[k]))
                                /\ A[k + 1] = A[k] + Len(lines[k]) + Len(m.eol)
  <2>1. lines \in Seq(Seq(Tokens)) /\ m.eol \in Seq(Tokens)
    BY <1>4, EolFacts DEF Text
  <2>2. Joinings(w, lines, m.eol, x) # {}
    BY <1>4, <1>5, <1>12, <1>13, <2>1, OccursJoin
  <2> QED
    BY <1>4, <1>5, <1>11, <2>2 DEF Joinings
<1>15. ASSUME NEW i \in 1..n PROVE Joinings(w, CellsOf(t[i], m), <<m.delimiter>>, A[i]) # {}
  <2>1. Occurs(w, Join(CellsOf(t[i], m), <<m.delimiter>>), A[i])
    BY <1>4, <1>14 DEF LineOf
  <2>2. CellsOf(t[i], m) \in Seq(Seq(Tokens)) /\ <<m.delimiter>> \in Seq(Tokens)
    BY <1>2, EolFacts, SpecialTokens DEF Text
  <2>3. A[i] \in Nat
    BY <1>14
  <2> QED
    BY <1>2, <1>12, <2>1, <2>2, <2>3, OccursJoin
<1>16. PICK at : at = [i \in 1..n |-> CHOOSE c : c \in Joinings(w, CellsOf(t[i], m), <<m.delimiter>>, A[i])]
  OBVIOUS
<1>17. ASSUME NEW i \in 1..n
       PROVE  /\ at[i] \in [1..Len(t[i]) -> Nat]
              /\ at[i][1] = A[i]
              /\ EndOf(t[i][Len(t[i])], m, at[i][Len(t[i])]) = A[i] + Len(LineOf(t[i], m))
              /\ \A k \in 1..Len(t[i]) : Occurs(w, Written(t[i][k], m), at[i][k])
              /\ \A k \in 1..Len(t[i]) - 1 :
                   /\ Occurs(w, <<m.delimiter>>, EndOf(t[i][k], m, at[i][k]))
                   /\ at[i][k + 1] = EndOf(t[i][k], m, at[i][k]) + 1
  <2>1. at[i] \in Joinings(w, CellsOf(t[i], m), <<m.delimiter>>, A[i])
    BY <1>15, <1>16
  <2>2. PICK r \in Seq(Text), l \in Nat \ {0}, a \in Nat, p \in {at[i]} : r = t[i] /\ l = Len(r) /\ a = A[i] /\ p = at[i]
    BY <1>2, <1>14
  <2>3. Len(CellsOf(r, m)) = l /\ \A k \in 1..l : CellsOf(r, m)[k] = Written(r[k], m)
    BY <2>2, EolFacts, LineFacts
  <2>4. Len(<<m.delimiter>>) = 1
    OBVIOUS
  <2>5. p \in Joinings(w, CellsOf(r, m), <<m.delimiter>>, a)
    BY <2>1, <2>2
  <2>6. /\ p \in [1..l -> Nat] /\ p[1] = a
        /\ p[l] + Len(CellsOf(r, m)[l]) = a + Len(LineOf(r, m))
        /\ \A k \in 1..l : Occurs(w, CellsOf(r, m)[k], p[k])
        /\ \A k \in 1..l - 1 : /\ Occurs(w, <<m.delimiter>>, p[k] + Len(CellsOf(r, m)[k]))
                               /\ p[k + 1] = p[k] + Len(CellsOf(r, m)[k]) + 1
    BY <2>3, <2>4, <2>5 DEF Joinings, LineOf
  <2>7. p[l] + Len(Written(r[l], m)) = a + Len(LineOf(r, m))
    BY <2>3, <2>6
  <2>8. \A k \in 1..l : Occurs(w, Written(r[k], m), p[k])
    BY <2>3, <2>6
  <2>9. ASSUME NEW k \in 1..l - 1
        PROVE  /\ Occurs(w, <<m.delimiter>>, EndOf(r[k], m, p[k]))
               /\ p[k + 1] = EndOf(r[k], m, p[k]) + 1
    <3>1. k \in 1..l
      OBVIOUS
    <3> QED
      BY <2>3, <2>6, <3>1 DEF EndOf
  <2>10. EndOf(r[l], m, p[l]) = a + Len(LineOf(r, m))
    BY <2>7 DEF EndOf
  <2> QED
    BY <2>2, <2>6, <2>8, <2>9, <2>10
<1>18. at \in [1..n -> Seq(Nat)]
  <2>1. ASSUME NEW i \in 1..n PROVE at[i] \in Seq(Nat)
    <3>1. PICK l \in Nat : l = Len(t[i])
      BY <1>2
    <3>2. PICK f \in [1..l -> Nat] : f = at[i]
      BY <1>17, <3>1
    <3>3. f \in Seq(Nat)
      OBVIOUS
    <3> QED
      BY <3>2, <3>3
  <2> QED
    BY <1>16, <2>1
<1>19. 1 \in 1..n /\ n \in 1..n
  OBVIOUS
<1>20. /\ Occurs(w, m.bom, 0) /\ at[1][1] = Len(m.bom)
       /\ Occurs(w, LineOf(t[1], m), Len(m.bom))
       /\ EndOf(t[1][Len(t[1])], m, at[1][Len(t[1])]) = Len(m.bom) + Len(LineOf(t[1], m))
  <2>1. at[1][1] = x /\ Occurs(w, lines[1], x)
    BY <1>14, <1>17, <1>19
  <2>2. lines[1] = LineOf(t[1], m)
    BY <1>4, <1>19
  <2>3. EndOf(t[1][Len(t[1])], m, at[1][Len(t[1])]) = x + Len(LineOf(t[1], m))
    BY <1>14, <1>17, <1>19
  <2> QED
    BY <1>8, <1>11, <1>13, <2>1, <2>2, <2>3
<1>21. ASSUME NEW i \in 1..n, NEW k \in 1..Len(t[i])
       PROVE  /\ at[i][k] \in Nat
              /\ Occurs(w, Written(t[i][k], m), at[i][k])
              /\ k # Len(t[i]) => /\ Occurs(w, <<m.delimiter>>, EndOf(t[i][k], m, at[i][k]))
                                  /\ at[i][k + 1] = EndOf(t[i][k], m, at[i][k]) + 1
  <2>1. k # Len(t[i]) => k \in 1..Len(t[i]) - 1
    BY <1>2
  <2> QED
    BY <1>17, <2>1
<1>22. ASSUME NEW i \in 1..n, NEW q, q = EndOf(t[i][Len(t[i])], m, at[i][Len(t[i])])
       PROVE  /\ i # n \/ m.lastEol => Occurs(w, m.eol, q)
              /\ i # n => at[i + 1][1] = q + Len(m.eol)
              /\ i = n => Len(w) = q + (IF m.lastEol THEN Len(m.eol) ELSE 0)
  <2>1. q = A[i] + Len(lines[i])
    BY <1>4, <1>17, <1>22
  <2>2. CASE i # n
    <3>1. i \in 1..n - 1 /\ i + 1 \in 1..n
      BY <2>2
    <3> QED
      BY <1>14, <1>17, <2>1, <2>2, <3>1
  <2>3. CASE i = n
    <3>1. q = x + y
      BY <1>14, <2>1, <2>3
    <3>2. z = IF m.lastEol THEN Len(m.eol) ELSE 0
      BY <1>6, <1>11, EmptySeq, EolFacts
    <3>3. m.lastEol => Occurs(w, m.eol, q)
      BY <1>6, <1>13, <3>1
    <3>4. Len(w) = q + z
      BY <1>13, <3>1
    <3> QED
      BY <2>3, <3>2, <3>3, <3>4
  <2> QED
    BY <2>2, <2>3
<1>23. ASSUME NEW i \in 1..n, NEW k \in 1..Len(t[i]) PROVE CellLaid(w, t, m, at, i, k)
  <2>1. CASE k # Len(t[i])
    BY <1>1, <1>21, <2>1 DEF CellLaid
  <2>2. CASE k = Len(t[i])
    BY <1>1, <1>21, <1>22, <2>2 DEF CellLaid
  <2> QED
    BY <2>1, <2>2
<1> HIDE DEF CellLaid
<1>24. at \in Layouts(w, t, m)
  BY <1>1, <1>18, <1>20, <1>23 DEF Layouts
<1> QED
  BY <1>24

\* The characters the parser looks at are different tokens.
LEMMA DistinctTokens ==
  /\ Quote \notin {LF, CR, BOM} \cup Delimiters
  /\ LF \notin {CR, BOM} \cup Delimiters
  /\ CR \notin {LF, BOM} \cup Delimiters
  /\ BOM \notin {LF, CR} \cup Delimiters
BY DEF Quote, LF, CR, BOM, Delimiters

\* The tokens of a line are those of its fields, the quote and the delimiter.
LEMMA LineTokens ==
  ASSUME NEW T, Quote \in T, NEW m, m.delimiter \in T, NEW r \in Seq(Seq(T))
  PROVE  /\ CellsOf(r, m) \in Seq(Seq(T)) /\ Len(CellsOf(r, m)) = Len(r)
         /\ LineOf(r, m) \in Seq(T) /\ <<m.delimiter>> \in Seq(T)
<1> HIDE DEF Quote
<1>1. PICK n \in Nat : n = Len(r) /\ DOMAIN r = 1..n
  BY LenProperties
<1>2. ASSUME NEW f \in Seq(T) PROVE Escaped(f) \in Seq(T)
  <2>1. PICK l \in Nat : l = Len(f) /\ DOMAIN f = 1..l
    BY LenProperties
  <2>2. PICK ss : ss = [i \in DOMAIN f |-> IF f[i] = Quote THEN <<Quote, Quote>> ELSE <<f[i]>>]
    OBVIOUS
  <2>3. ASSUME NEW i \in 1..l PROVE ss[i] \in Seq(T)
    <3>1. f[i] \in T
      BY <2>1, ElementOfSeq
    <3>2. <<Quote, Quote>> \in Seq(T) /\ <<f[i]>> \in Seq(T)
      BY <3>1
    <3> QED
      BY <2>1, <2>2, <3>2
  <2>4. ss \in Seq(Seq(T))
    BY <2>1, <2>2, <2>3
  <2> QED
    BY <2>2, <2>4, FlattenType DEF Escaped
<1>3. PICK q \in Seq(T) : q = <<Quote>>
  <2>1. <<Quote>> \in Seq(T)
    OBVIOUS
  <2> QED
    BY <2>1
<1>4. ASSUME NEW f \in Seq(T) PROVE Written(f, m) \in Seq(T)
  <2>1. PICK e \in Seq(T) : e = Escaped(f)
    BY <1>2
  <2>2. (q \o e) \o q \in Seq(T)
    BY ConcatProperties
  <2> QED
    BY <1>3, <2>1, <2>2 DEF Written, WriteField
<1>5. PICK c : c = CellsOf(r, m)
  OBVIOUS
<1>6. c \in Seq(Seq(T)) /\ Len(c) = n /\ DOMAIN c = 1..n
  <2>1. \A j \in 1..n : Written(r[j], m) \in Seq(T)
    BY <1>1, <1>4, ElementOfSeq
  <2>2. c = [j \in 1..n |-> Written(r[j], m)]
    BY <1>1, <1>5 DEF CellsOf
  <2> QED
    BY <2>1, <2>2
<1>7. PICK d \in Seq(T) : d = <<m.delimiter>>
  <2>1. <<m.delimiter>> \in Seq(T)
    OBVIOUS
  <2> QED
    BY <2>1
<1>8. PICK ss : ss = [i \in DOMAIN c |-> IF i = 1 THEN c[i] ELSE d \o c[i]]
  OBVIOUS
<1>9. ss \in Seq(Seq(T))
  <2>1. ASSUME NEW i \in 1..n PROVE ss[i] \in Seq(T)
    <3>1. c[i] \in Seq(T)
      BY <1>6, ElementOfSeq
    <3>2. d \o c[i] \in Seq(T)
      BY <3>1, ConcatProperties
    <3> QED
      BY <1>6, <1>8, <3>1, <3>2
  <2> QED
    BY <1>6, <1>8, <2>1
<1>10. Join(c, d) = FlattenSeq(ss)
  BY <1>8 DEF Join
<1>11. Join(c, d) \in Seq(T)
  BY <1>9, <1>10, FlattenType
<1> QED
  BY <1>1, <1>5, <1>6, <1>7, <1>11 DEF LineOf

\* A table whose columns the parser can tell: two or more of them, with names
\* that have no delimiter, line end or byte order mark in them.  Of tables with
\* one column it could not know the delimiter, and in names it finds others.
NameTokens == Tokens \ ({LF, CR, BOM} \cup Delimiters)

Readable(t) ==
  /\ t # <<>> /\ \A i \in DOMAIN t : t[i] # <<>>
  /\ Len(t[1]) >= 2 /\ t[1] \in Seq(Seq(NameTokens))

\* A sequence is one of whatever its members are.
LEMMA SequenceOf ==
  ASSUME NEW S, NEW n \in Nat, NEW r, r = [i \in 1..n |-> r[i]], \A i \in 1..n : r[i] \in S
  PROVE  r \in Seq(S)
<1>1. PICK f : f = [i \in 1..n |-> r[i]]
  OBVIOUS
<1>2. f \in Seq(S)
  BY <1>1
<1> QED
  BY <1>1, <1>2

\* A table that can be read has rows, and every row a field.
LEMMA RowFacts ==
  ASSUME table \in Rows, Readable(table)
  PROVE  /\ Len(table) \in Nat \ {0} /\ DOMAIN table = 1..Len(table)
         /\ \A i \in 1..Len(table) :
              /\ table[i] \in Seq(Text) /\ Len(table[i]) \in Nat \ {0}
              /\ \A j \in 1..Len(table[i]) : table[i][j] \in Text
<1>1. PICK n \in Nat \ {0} : n = Len(table) /\ DOMAIN table = 1..n
  BY LenProperties, EmptySeq DEF Rows, Readable
<1>2. ASSUME NEW i \in 1..n
      PROVE  /\ table[i] \in Seq(Text) /\ Len(table[i]) \in Nat \ {0}
             /\ \A j \in 1..Len(table[i]) : table[i][j] \in Text
  <2>1. PICK r \in Seq(Text) : r = table[i] /\ r # <<>>
    BY <1>1, ElementOfSeq DEF Rows, Readable
  <2>2. Len(r) \in Nat \ {0} /\ \A j \in 1..Len(r) : r[j] \in Text
    BY <2>1, LenProperties, EmptySeq, ElementOfSeq
  <2> QED
    BY <2>1, <2>2
<1> QED
  BY <1>1, <1>2

\* In the line of the names there is their delimiter and no other.
LEMMA HeaderTokens ==
  ASSUME NEW t, Readable(t), NEW m \in Styles, NEW h, h = LineOf(t[1], m)
  PROVE  /\ h \in Seq(NameTokens \cup {m.delimiter})
         /\ \E k \in 1..Len(h) : h[k] = m.delimiter
<1> HIDE DEF Quote, LF, CR, BOM, Delimiters
<1>1. PICK d, T : d = m.delimiter /\ T = NameTokens \cup {d}
  OBVIOUS
<1>2. d \in T /\ Quote \in T
  BY <1>1, SpecialTokens, DistinctTokens DEF NameTokens
<1>3. PICK n \in Nat : n = Len(t[1]) /\ DOMAIN t[1] = 1..n /\ n >= 2
  BY LenProperties DEF Readable
<1>4. t[1] \in Seq(Seq(T))
  <2>1. ASSUME NEW i \in 1..n PROVE t[1][i] \in Seq(T)
    <3>1. t[1][i] \in Seq(NameTokens)
      BY <1>3, ElementOfSeq DEF Readable
    <3>2. PICK f \in Seq(NameTokens), l \in Nat : f = t[1][i] /\ l = Len(f) /\ DOMAIN f = 1..l
      BY <3>1, LenProperties
    <3>3. \A k \in 1..l : f[k] \in T
      BY <1>1, <3>2, ElementOfSeq
    <3>4. f = [k \in 1..l |-> f[k]]
      BY <3>2, LenProperties
    <3> HIDE DEF NameTokens
    <3> QED
      BY <3>2, <3>3, <3>4
  <2>2. PICK r \in Seq(Seq(NameTokens)) : r = t[1]
    BY DEF Readable
  <2>3. r = [i \in 1..n |-> r[i]]
    BY <1>3, <2>2, LenProperties
  <2>4. \A i \in 1..n : r[i] \in Seq(T)
    BY <2>1, <2>2
  <2>5. r \in Seq(Seq(T))
    BY <2>3, <2>4, SequenceOf
  <2> QED
    BY <2>2, <2>5
<1>5. PICK c : c = CellsOf(t[1], m)
  OBVIOUS
<1>6. c \in Seq(Seq(T)) /\ Len(c) = n /\ h \in Seq(T) /\ <<d>> \in Seq(T) /\ h = Join(c, <<d>>)
  <2>1. m.delimiter \in T
    BY <1>1, <1>2
  <2> HIDE DEF NameTokens
  <2>2. PICK r \in Seq(Seq(T)) : r = t[1] /\ Len(r) = n
    BY <1>3, <1>4
  <2>3. /\ CellsOf(r, m) \in Seq(Seq(T)) /\ Len(CellsOf(r, m)) = n
        /\ LineOf(r, m) \in Seq(T) /\ <<m.delimiter>> \in Seq(T)
    BY <1>2, <2>1, <2>2, LineTokens
  <2>4. LineOf(r, m) = Join(CellsOf(r, m), <<m.delimiter>>)
    BY DEF LineOf
  <2> QED
    BY <1>1, <1>5, <2>2, <2>3, <2>4
<1>7. Len(h) \in Nat
  BY <1>6, LenProperties
<1>8. Occurs(h, Join(c, <<d>>), 0)
  BY <1>6, <1>7 DEF Occurs
<1>9. Joinings(h, c, <<d>>, 0) # {}
  <2>1. c # <<>>
    BY <1>3, <1>6, EmptySeq
  <2> QED
    BY <1>6, <1>7, <1>8, <2>1, OccursJoin
<1>10. PICK at \in [1..n -> Nat] : \A k \in 1..n - 1 : Occurs(h, <<d>>, at[k] + Len(c[k]))
  BY <1>6, <1>9 DEF Joinings
<1>11. PICK x \in Nat : x = at[1] + Len(c[1])
  <2>1. 1 \in 1..n
    BY <1>3
  <2>2. Len(c[1]) \in Nat /\ at[1] \in Nat
    BY <1>6, <1>10, <2>1, ElementOfSeq, LenProperties
  <2> QED
    BY <2>2
<1>12. Occurs(h, <<d>>, x)
  <2>1. 1 \in 1..n - 1
    BY <1>3
  <2> QED
    BY <1>10, <1>11, <2>1
<1>13. x + 1 <= Len(h) /\ h[x + 1] = d
  BY <1>12 DEF Occurs
<1>14. x + 1 \in 1..Len(h)
  BY <1>7, <1>13
<1> QED
  BY <1>1, <1>6, <1>13, <1>14

\* What Delimiter counts in the first line.
CountIn(first, x) == Cardinality({i \in DOMAIN first : first[i] = x})

\* The only delimiter in a line is counted more often than the others.
LEMMA MostCounted ==
  ASSUME NEW T, NEW first \in Seq(T), NEW d, \E k \in 1..Len(first) : first[k] = d
  PROVE  /\ CountIn(first, d) \in Nat \ {0}
         /\ \A x : x \notin T => CountIn(first, x) = 0
<1>1. PICK n \in Nat : n = Len(first) /\ DOMAIN first = 1..n
  BY LenProperties
<1>2. \A k \in 1..n : first[k] \in T
  BY <1>1, ElementOfSeq
<1>3. PICK S : S = {i \in DOMAIN first : first[i] = d}
  OBVIOUS
<1>4. S # {} /\ S \subseteq 1..n
  BY <1>1, <1>3
<1>5. IsFiniteSet(S)
  <2>1. IsFiniteSet(1..n)
    BY FS_Interval
  <2> QED
    BY <1>4, <2>1, FS_Subset
<1>6. Cardinality(S) \in Nat /\ Cardinality(S) # 0
  BY <1>4, <1>5, FS_CardinalityType, FS_EmptySet
<1>7. ASSUME NEW x, x \notin T PROVE CountIn(first, x) = 0
  <2>1. {i \in DOMAIN first : first[i] = x} = {}
    BY <1>1, <1>2, <1>7
  <2> QED
    BY <2>1, FS_EmptySet DEF CountIn
<1> QED
  BY <1>3, <1>6, <1>7 DEF CountIn

\* The parser starts behind the byte order mark and finds the delimiter.
LEMMA DelimiterFound ==
  ASSUME text \in Text, table \in Rows, Readable(table),
         NEW m \in Styles, NEW at \in Layouts(text, table, m)
  PROVE  Start = Len(m.bom) + 1 /\ Delimiter = m.delimiter
<1> HIDE DEF Quote, LF, CR, BOM, Delimiters
<1>1. PICK d, T, h : d = m.delimiter /\ T = NameTokens \cup {d} /\ h = LineOf(table[1], m)
  OBVIOUS
<1>2. h \in Seq(T) /\ \E k \in 1..Len(h) : h[k] = d
  BY <1>1, HeaderTokens
<1>3. PICK l \in Nat : l = Len(h) /\ l # 0 /\ \A k \in 1..l : h[k] \in T
  <2>1. PICK l \in Nat : l = Len(h)
    BY <1>2, LenProperties
  <2>2. l # 0
    BY <1>2, <2>1
  <2> QED
    BY <1>2, <2>1, <2>2, ElementOfSeq
<1>4. d \in Delimiters /\ T \cap {LF, CR, BOM} = {} /\ T \cap Delimiters = {d}
  BY <1>1, EolFacts, DistinctTokens DEF NameTokens
<1>5. PICK o, n \in Nat : o = Len(m.bom) /\ n = Len(text) /\ DOMAIN text = 1..n
  BY EolFacts, LenProperties DEF Text
<1>6. Occurs(text, m.bom, 0) /\ Occurs(text, h, o)
  BY <1>1, <1>5 DEF Layouts
<1>7. o + l <= n /\ \A k \in 1..l : text[o + k] = h[k]
  BY <1>3, <1>5, <1>6 DEF Occurs
<1>8. \/ o = 0
      \/ o = 1 /\ text[1] = BOM
  <2>1. m.bom \in {<<>>, <<BOM>>}
    BY DEF Styles
  <2>2. CASE m.bom = <<>>
    BY <1>5, <2>2
  <2>3. CASE m.bom = <<BOM>>
    <3>1. o = 1 /\ m.bom[1] = BOM
      BY <1>5, <2>3
    <3>2. text[0 + 1] = m.bom[1]
      BY <1>5, <1>6, <3>1 DEF Occurs
    <3> QED
      BY <3>1, <3>2
  <2> QED
    BY <2>1, <2>2, <2>3
<1>9. Start = o + 1
  <2>1. text # <<>>
    BY <1>3, <1>5, <1>7, EmptySeq
  <2>2. CASE o = 0
    <3>1. text[1] = h[1] /\ h[1] \in T
      BY <1>3, <1>7, <2>2
    <3> QED
      BY <1>4, <2>2, <3>1 DEF Start
  <2>3. CASE o = 1 /\ text[1] = BOM
    BY <2>1, <2>3 DEF Start
  <2> QED
    BY <1>8, <2>2, <2>3
<1>10. \/ n = o + l
       \/ o + l < n /\ text[o + l + 1] \in {CR, LF}
  <2>1. PICK N, c \in Nat \ {0} : N = Len(table) /\ c = Len(table[1])
    <3>1. Len(table) \in Nat \ {0} /\ 1 \in 1..Len(table)
      BY RowFacts
    <3> QED
      BY <3>1, RowFacts
  <2>2. CellLaid(text, table, m, at, 1, c) /\ EndOf(table[1][c], m, at[1][c]) = o + l
    <3>1. 1 \in 1..Len(table) /\ c \in 1..Len(table[1])
      BY <2>1
    <3>2. CellLaid(text, table, m, at, 1, c)
      <4> HIDE DEF CellLaid
      <4> QED
        BY <3>1 DEF Layouts
    <3>3. EndOf(table[1][c], m, at[1][c]) = Len(m.bom) + Len(LineOf(table[1], m))
      BY <2>1 DEF Layouts
    <3> QED
      BY <1>1, <1>3, <1>5, <3>2, <3>3
  <2>3. CASE 1 # N \/ m.lastEol
    <3>1. Occurs(text, m.eol, o + l)
      BY <2>1, <2>2, <2>3 DEF CellLaid
    <3>2. PICK w \in Nat \ {0} : w = Len(m.eol)
      BY EolFacts
    <3>3. o + l + w <= n /\ text[o + l + 1] = m.eol[1]
      <4>1. 1 \in 1..w /\ (o + l) + 1 = o + l + 1
        OBVIOUS
      <4>2. (o + l) + w <= n /\ \A k \in 1..w : text[(o + l) + k] = m.eol[k]
        BY <1>5, <3>1, <3>2 DEF Occurs
      <4> QED
        BY <4>1, <4>2
    <3>4. m.eol[1] \in {CR, LF}
      BY EolFacts
    <3> QED
      BY <3>3, <3>4
  <2>4. CASE ~ (1 # N \/ m.lastEol)
    <3>1. 1 = Len(table) /\ ~m.lastEol
      BY <2>1, <2>4, EolFacts
    <3>2. Len(text) = EndOf(table[1][c], m, at[1][c]) + 0
      BY <2>1, <2>2, <3>1 DEF CellLaid
    <3> QED
      BY <1>5, <2>2, <3>2
  <2> QED
    BY <2>3, <2>4
<1>11. PICK ends : ends = {i \in DOMAIN text : text[i] \in {CR, LF}}
  OBVIOUS
<1>12. \A i \in 1..o + l : i \notin ends
  <2> SUFFICES ASSUME NEW i \in 1..o + l PROVE text[i] \notin {CR, LF}
    BY <1>11
  <2>1. CASE i <= o
    BY <1>8, <2>1, DistinctTokens
  <2>2. CASE i > o
    <3>1. i - o \in 1..l /\ o + (i - o) = i
      BY <2>2
    <3>2. text[i] = h[i - o] /\ h[i - o] \in T
      BY <1>3, <1>7, <3>1
    <3> QED
      BY <1>4, <3>2
  <2> QED
    BY <2>1, <2>2
<1>13. (IF ends = {} THEN n ELSE Min(ends) - 1) = o + l
  <2>1. ends \in SUBSET (1..n)
    BY <1>5, <1>11
  <2>2. CASE n = o + l
    <3>1. ends = {}
      BY <1>12, <2>1, <2>2
    <3> QED
      BY <2>2, <3>1
  <2>3. CASE o + l < n /\ text[o + l + 1] \in {CR, LF}
    <3>1. o + l + 1 \in ends
      BY <1>5, <1>11, <2>3
    <3>2. PICK x \in 1..n : x = Min(ends)
      BY <2>1, <3>1, MinMax
    <3>3. x \in ends /\ x <= o + l + 1
      BY <2>1, <3>1, <3>2, MinMax
    <3>4. x \notin 1..o + l
      BY <1>12, <3>3
    <3> QED
      BY <3>1, <3>2, <3>3, <3>4
  <2> QED
    BY <1>10, <2>2, <2>3
<1>14. PICK first : first = SubSeq(text, Start, IF ends = {} THEN Len(text) ELSE Min(ends) - 1)
  OBVIOUS
<1>15. first = SubSeq(text, o + 1, o + l)
  BY <1>5, <1>9, <1>13, <1>14
<1>16. first \in Seq(T) /\ \E k \in 1..Len(first) : first[k] = d
  <2>1. o + 1 \in Int /\ o + l \in Int /\ o + 1 <= o + l /\ (o + l) - (o + 1) + 1 = l
    BY <1>3
  <2>6. \A i \in o + 1..o + l : text[i] \in Tokens
    <3>1. \A i \in o + 1..o + l : i \in 1..n
      BY <1>7
    <3> QED
      BY <1>5, <3>1, ElementOfSeq DEF Text
  <2>2. Len(first) = l /\ \A k \in 1..l : first[k] = text[o + k]
    <3>1. first \in Seq(Tokens)
      BY <1>15, <2>1, <2>6, SubSeqProperties
    <3>2. Len(first) = l
      BY <1>15, <2>1, <2>6, SubSeqProperties
    <3>3. \A k \in 1..l : first[k] = text[(o + 1) + k - 1]
      BY <1>15, <2>1, <2>6, SubSeqProperties
    <3>4. \A k \in 1..l : (o + 1) + k - 1 = o + k
      OBVIOUS
    <3> QED
      BY <3>2, <3>3, <3>4
  <2>3. first \in Seq(Tokens)
    BY <1>15, <2>1, <2>6, SubSeqProperties
  <2>4. first = [k \in 1..l |-> h[k]]
    BY <1>7, <2>2, <2>3
  <2>5. first \in Seq(T)
    BY <1>3, <2>4
  <2> QED
    BY <1>2, <1>3, <2>2, <2>4, <2>5
<1>17. CountIn(first, d) \in Nat \ {0} /\ \A x \in Delimiters \ {d} : CountIn(first, x) = 0
  BY <1>4, <1>16, MostCounted
<1> DEFINE most(x) == \A other \in Delimiters \ {x} : CountIn(first, x) > CountIn(first, other)
<1>18. Delimiter = IF most("semicolon") THEN "semicolon" ELSE IF most("tab") THEN "tab" ELSE "comma"
  BY <1>11, <1>14 DEF Delimiter, CountIn
<1>19. most(d) /\ \A x \in Delimiters \ {d} : ~most(x)
  BY <1>4, <1>17
<1> HIDE DEF most
<1> QED
  BY <1>1, <1>4, <1>5, <1>9, <1>18, <1>19 DEF Delimiters

-----------------------------------------------------------------------------
(* Reading a field *)

\* q is what s starts with, up to its place k.
First(q, s, k) == Len(q) = k /\ \A x \in 1..k : q[x] = s[x]

\* The whole of it is it, and the next of s makes one more.
LEMMA FirstFacts ==
  ASSUME NEW T, NEW q \in Seq(T), NEW s \in Seq(T), NEW k \in 0..Len(s), First(q, s, k)
  PROVE  /\ k = Len(s) => q = s
         /\ k # Len(s) => k + 1 \in 1..Len(s) /\ First(Append(q, s[k + 1]), s, k + 1)
<1>1. PICK n \in Nat : n = Len(s) /\ DOMAIN s = 1..n
  BY LenProperties
<1>2. Len(q) = k /\ \A x \in 1..k : q[x] = s[x]
  BY DEF First
<1>3. CASE k = n
  <2>1. q = [x \in 1..n |-> q[x]] /\ s = [x \in 1..n |-> s[x]]
    BY <1>1, <1>2, <1>3, LenProperties
  <2>2. q = s
    BY <1>2, <1>3, <2>1
  <2> QED
    BY <1>1, <1>3, <2>2
<1>4. CASE k # n
  <2>1. k + 1 \in 1..n
    BY <1>1, <1>4
  <2>2. PICK x \in T : x = s[k + 1]
    BY <1>1, <2>1, ElementOfSeq
  <2>3. /\ Len(Append(q, x)) = k + 1 /\ Append(q, x)[k + 1] = x
        /\ \A i \in 1..k : Append(q, x)[i] = q[i]
    BY <1>2, AppendProperties
  <2>4. ASSUME NEW i \in 1..k + 1 PROVE Append(q, x)[i] = s[i]
    BY <1>2, <2>2, <2>3
  <2> QED
    BY <1>1, <1>4, <2>1, <2>2, <2>3, <2>4 DEF First
<1> QED
  BY <1>3, <1>4

Pieces(f) == [i \in DOMAIN f |-> IF f[i] = Quote THEN <<Quote, Quote>> ELSE <<f[i]>>]

InQuotation(f, m) == m.always \/ \E i \in DOMAIN f : f[i] \in {Quote, LF, CR, m.delimiter}

\* The parser is in the field f, which stands after the place o: at the
\* token after the first k of one that is not quoted; before the quotation of
\* one that is, at the token after its first k pieces, or behind it.
InPlain(f, o) ==
  ~inQuotes /\ \E k \in 0..Len(f) : First(field, f, k) /\ pos = o + k + 1

InQuoted(f, m, o) ==
  \/ ~inQuotes /\ field = <<>> /\ pos = o + 1
  \/ /\ inQuotes
     /\ \E at \in Placings(text, Pieces(f), o + 1), k \in 0..Len(f) :
          First(field, f, k) /\ pos = at[k] + 1
  \/ ~inQuotes /\ field = f /\ pos = EndOf(f, m, o) + 1

InCell(f, m, o) ==
  IF InQuotation(f, m) THEN InQuoted(f, m, o) ELSE InPlain(f, o)

\* It has read it.
CellRead(f, m, o) == ~inQuotes /\ field = f /\ pos = EndOf(f, m, o) + 1

\* The parser enters a field at its place.
LEMMA EnterCell ==
  ASSUME ~inQuotes, field = <<>>, NEW f \in Text, NEW m, NEW o \in Nat, pos = o + 1
  PROVE  InCell(f, m, o)
<1>1. Len(f) \in Nat
  BY LenProperties DEF Text
<1>2. 0 \in 0..Len(f) /\ First(field, f, 0) /\ pos = o + 0 + 1
  BY <1>1 DEF First
<1>3. InPlain(f, o)
  <2> HIDE DEF First
  <2> QED
    BY <1>2 DEF InPlain
<1>4. InQuoted(f, m, o)
  BY DEF InQuoted
<1> QED
  BY <1>3, <1>4 DEF InCell

\* A quotation: its quotes, and the pieces between them.
LEMMA QuotationFacts ==
  ASSUME text \in Text, NEW f \in Text, NEW m, InQuotation(f, m), NEW o \in Nat,
         Occurs(text, Written(f, m), o)
  PROVE  /\ text[o + 1] = Quote /\ o + 1 <= Len(text)
         /\ Placings(text, Pieces(f), o + 1) # {}
         /\ Len(Pieces(f)) = Len(f)
         /\ \E e \in Nat : /\ Len(FlattenSeq(Pieces(f))) = e
                           /\ EndOf(f, m, o) = o + e + 2
                           /\ o + e + 2 <= Len(text) /\ text[o + e + 2] = Quote
<1> HIDE DEF Quote, LF, CR, BOM, Delimiters
<1>1. PICK e \in Seq(Tokens) : e = Escaped(f)
  BY EscapedType DEF Text
<1>2. PICK q \in Seq(Tokens) : q = <<Quote>>
  <2>1. <<Quote>> \in Seq(Tokens)
    BY SpecialTokens
  <2> QED
    BY <2>1
<1>3. Written(f, m) = (q \o e) \o q
  BY <1>1, <1>2 DEF Written, WriteField, InQuotation
<1>4. Len(text) \in Nat
  BY LenProperties DEF Text
<1>5. PICK l \in Nat : l = Len(e)
  BY LenProperties
<1>6. PICK qe \in Seq(Tokens) : qe = q \o e
  BY ConcatProperties
<1>7. Len(q) = 1 /\ q[1] = Quote
  BY <1>2
<1>8. Occurs(text, qe, o) /\ Occurs(text, q, o + Len(qe)) /\ Len(qe \o q) = Len(qe) + 1
  <2>1. Occurs(text, qe \o q, o)
    BY <1>3, <1>6
  <2>2. Occurs(text, qe, o) /\ Occurs(text, q, o + Len(qe)) /\ Len(qe \o q) = Len(qe) + Len(q)
    BY <1>4, <2>1, OccursConcat
  <2> QED
    BY <1>7, <2>2
<1>9. Occurs(text, q, o) /\ Occurs(text, e, o + 1) /\ Len(qe) = 1 + l
  BY <1>4, <1>5, <1>6, <1>7, <1>8, OccursConcat
<1>10. EndOf(f, m, o) = o + l + 2
  BY <1>3, <1>6, <1>8, <1>9 DEF EndOf
<1>11. o + 1 <= Len(text) /\ text[o + 1] = Quote
  BY <1>7, <1>9 DEF Occurs
<1>12. o + l + 2 <= Len(text) /\ text[o + l + 2] = Quote
  <2>1. Occurs(text, q, o + l + 1)
    BY <1>8, <1>9
  <2> QED
    BY <1>7, <2>1 DEF Occurs
<1>13. PICK n \in Nat : n = Len(f) /\ DOMAIN f = 1..n
  BY LenProperties DEF Text
<1>14. PICK p : p = Pieces(f)
  OBVIOUS
<1>15. p \in Seq(Seq(Tokens)) /\ Len(p) = n
  <2>1. ASSUME NEW i \in 1..n PROVE p[i] \in Seq(Tokens)
    <3>1. f[i] \in Tokens /\ Quote \in Tokens
      BY <1>13, ElementOfSeq, SpecialTokens DEF Text
    <3>2. <<Quote, Quote>> \in Seq(Tokens) /\ <<f[i]>> \in Seq(Tokens)
      BY <3>1
    <3> QED
      BY <1>13, <1>14, <3>2 DEF Pieces
  <2>2. p = [i \in 1..n |-> IF f[i] = Quote THEN <<Quote, Quote>> ELSE <<f[i]>>]
    BY <1>13, <1>14 DEF Pieces
  <2> QED
    BY <2>1, <2>2
<1>16. e = FlattenSeq(p)
  BY <1>1, <1>14 DEF Escaped, Pieces
<1>17. Placings(text, p, o + 1) # {}
  BY <1>4, <1>9, <1>15, <1>16, OccursFlatten
<1> QED
  BY <1>5, <1>10, <1>11, <1>12, <1>13, <1>14, <1>15, <1>16, <1>17

\* A step of the parser, and what it leaves alone in a field.
Scans == ScanQuoted \/ ScanField \/ ScanLineEnd \/ ScanEnd

SameRow == UNCHANGED <<phase, table, text, rows, row, records>>

\* The token at the parser's place says which step it takes.
LEMMA WhichStep ==
  ASSUME Scanned, Scans
  PROVE  /\ pos > Len(text) => ScanEnd
         /\ pos <= Len(text) /\ inQuotes => ScanQuoted
         /\ pos <= Len(text) /\ ~inQuotes /\ Char \notin {CR, LF} => ScanField
         /\ pos <= Len(text) /\ ~inQuotes /\ Char \in {CR, LF} => ScanLineEnd
<1>1. PICK p, l \in Nat : p = pos /\ l = Len(text)
  BY LenProperties DEF Scanned, Text
<1>2. ~(p > l /\ p <= l)
  OBVIOUS
<1>3. ScanQuoted => ~(p > l) /\ inQuotes
  BY <1>1 DEF ScanQuoted, Scanning, AtEnd
<1>4. ScanField => ~(p > l) /\ ~inQuotes /\ Char \notin {CR, LF}
  BY <1>1 DEF ScanField, Scanning, AtEnd
<1>5. ScanLineEnd => ~(p > l) /\ ~inQuotes /\ Char \in {CR, LF}
  BY <1>1 DEF ScanLineEnd, Scanning, AtEnd
<1>6. ScanEnd => p > l
  BY <1>1 DEF ScanEnd, AtEnd
<1> HIDE DEF ScanQuoted, ScanField, ScanLineEnd, ScanEnd, Char, CR, LF
<1> QED
  BY <1>1, <1>2, <1>3, <1>4, <1>5, <1>6 DEF Scans

\* A step in a field that is not quoted reads the next of its tokens.
LEMMA PlainStep ==
  ASSUME Scanned, NEW m, Delimiter = m.delimiter, NEW f \in Text, ~InQuotation(f, m),
         NEW o \in Nat, Occurs(text, Written(f, m), o),
         InPlain(f, o), ~CellRead(f, m, o), Scans
  PROVE  InPlain(f, o)' /\ SameRow
<1> HIDE DEF Quote, LF, CR, BOM, Delimiter
<1>1. PICK n, l \in Nat : n = Len(f) /\ DOMAIN f = 1..n /\ l = Len(text)
  BY LenProperties DEF Scanned, Text
<1>2. Written(f, m) = f
  BY DEF Written, WriteField, InQuotation
<1>3. PICK k \in 0..n : First(field, f, k) /\ pos = o + k + 1 /\ ~inQuotes
  BY <1>1 DEF InPlain
<1>4. /\ k = n => field = f
      /\ k # n => k + 1 \in 1..n /\ First(Append(field, f[k + 1]), f, k + 1)
  BY <1>1, <1>3, FirstFacts DEF Scanned, Text
<1>5. k # n
  <2>1. k = n => CellRead(f, m, o)
    BY <1>1, <1>2, <1>3, <1>4 DEF CellRead, EndOf
  <2> QED
    BY <2>1
<1>6. pos <= l /\ Char = f[k + 1]
  BY <1>1, <1>2, <1>3, <1>4, <1>5 DEF Occurs, Char
<1>7. f[k + 1] \notin {Quote, LF, CR, m.delimiter}
  BY <1>1, <1>4, <1>5 DEF InQuotation
<1>8. ScanField
  <2>1. Char \notin {CR, LF}
    BY <1>6, <1>7
  <2> HIDE DEF Char
  <2> QED
    BY <1>1, <1>3, <1>6, <2>1, WhichStep
<1>9. pos' = pos + 1 /\ field' = Append(field, f[k + 1]) /\ ~inQuotes' /\ SameRow
  <2> HIDE DEF Char
  <2> QED
    BY <1>6, <1>7, <1>8 DEF ScanField, Read, SameRow
<1>10. First(field', f, k + 1) /\ pos' = o + (k + 1) + 1 /\ k + 1 \in 0..Len(f)
  BY <1>1, <1>3, <1>4, <1>5, <1>9
<1> HIDE DEF First
<1> QED
  BY <1>9, <1>10 DEF InPlain

\* The parser's place and the piece that stands there.
LEMMA PieceFacts ==
  ASSUME text \in Text, NEW f \in Text, NEW o \in Nat,
         NEW at \in Placings(text, Pieces(f), o), Len(Pieces(f)) = Len(f),
         NEW k \in Nat, k + 1 \in 1..Len(f), pos = at[k] + 1
  PROVE  /\ Char = f[k + 1] /\ pos <= Len(text)
         /\ f[k + 1] = Quote => NextIs(Quote) /\ at[k + 1] + 1 = pos + 2
         /\ f[k + 1] # Quote => at[k + 1] + 1 = pos + 1
<1> HIDE DEF Quote
<1>1. PICK n, l \in Nat : n = Len(f) /\ DOMAIN f = 1..n /\ l = Len(text)
  BY LenProperties DEF Text
<1>2. k \in 0..n /\ k + 1 \in 0..n /\ k + 1 \in 1..n /\ (k + 1) - 1 = k
  BY <1>1
<1>3. PICK p : p = Pieces(f)[k + 1]
  OBVIOUS
<1>4. /\ at \in [0..n -> Nat]
      /\ at[k + 1] = at[k] + Len(p) /\ Occurs(text, p, at[k])
  <2>1. at \in Placings(text, Pieces(f), o) /\ Len(Pieces(f)) = n
    BY <1>1
  <2>2. at \in [0..n -> Nat] /\ \A x \in 1..n : /\ at[x] = at[x - 1] + Len(Pieces(f)[x])
                                                /\ Occurs(text, Pieces(f)[x], at[x - 1])
    <3> HIDE DEF Occurs, Pieces
    <3> QED
      BY <2>1 DEF Placings
  <2> QED
    BY <1>2, <1>3, <2>2
<1>5. PICK a, b \in Nat : a = at[k] /\ b = at[k + 1]
  BY <1>2, <1>4
<1>6. p = IF f[k + 1] = Quote THEN <<Quote, Quote>> ELSE <<f[k + 1]>>
  BY <1>1, <1>2, <1>3 DEF Pieces
<1>7. a + Len(p) <= l /\ b = a + Len(p) /\ \A i \in 1..Len(p) : text[a + i] = p[i]
  BY <1>1, <1>4, <1>5 DEF Occurs
<1>8. CASE f[k + 1] = Quote
  <2>1. Len(p) = 2 /\ p[1] = Quote /\ p[2] = Quote
    BY <1>6, <1>8
  <2>2. a + 2 <= l /\ b = a + 2 /\ text[a + 1] = Quote /\ text[a + 2] = Quote
    BY <1>7, <2>1
  <2>3. pos = a + 1 /\ at[k + 1] + 1 = b + 1
    BY <1>5
  <2>4. l \in Nat /\ pos + 1 = a + 2 /\ pos <= l /\ pos < l /\ at[k + 1] + 1 = pos + 2
    BY <2>2, <2>3
  <2>5. Char = Quote /\ NextIs(Quote)
    BY <1>1, <2>2, <2>3, <2>4 DEF Char, NextIs
  <2> HIDE DEF Char, NextIs
  <2> QED
    BY <1>1, <1>8, <2>4, <2>5
<1>9. CASE f[k + 1] # Quote
  <2>1. Len(p) = 1 /\ p[1] = f[k + 1]
    BY <1>6, <1>9
  <2>2. a + 1 <= l /\ b = a + 1 /\ text[a + 1] = f[k + 1]
    BY <1>7, <2>1
  <2> QED
    BY <1>1, <1>5, <1>9, <2>2 DEF Char
<1> QED
  BY <1>8, <1>9

\* A step in a quoted field reads a quote or the next of its pieces.
LEMMA QuotedStep ==
  ASSUME Scanned, NEW m, NEW f \in Text, InQuotation(f, m),
         NEW o \in Nat, Occurs(text, Written(f, m), o),
         EndOf(f, m, o) < Len(text) => text[EndOf(f, m, o) + 1] # Quote,
         InQuoted(f, m, o), ~CellRead(f, m, o), Scans
  PROVE  InQuoted(f, m, o)' /\ SameRow
<1> HIDE DEF Quote, LF, CR, BOM, Delimiter
<1>1. PICK n, l \in Nat : n = Len(f) /\ DOMAIN f = 1..n /\ l = Len(text)
  BY LenProperties DEF Scanned, Text
<1>2. text \in Text /\ field \in Text /\ pos \in Nat
  BY DEF Scanned
<1>3. /\ text[o + 1] = Quote /\ o + 1 <= l
      /\ Placings(text, Pieces(f), o + 1) # {} /\ Len(Pieces(f)) = n
  BY <1>1, <1>2, QuotationFacts
<1>4. PICK e \in Nat : /\ Len(FlattenSeq(Pieces(f))) = e
                       /\ EndOf(f, m, o) = o + e + 2
                       /\ o + e + 2 <= l /\ text[o + e + 2] = Quote
  BY <1>1, <1>2, QuotationFacts
<1>5. CASE ~inQuotes /\ field = <<>> /\ pos = o + 1
  <2>1. Char = Quote /\ pos <= l
    BY <1>3, <1>5 DEF Char
  <2>2. ScanField
    <3>1. Char \notin {CR, LF}
      BY <2>1, DistinctTokens
    <3> HIDE DEF Char
    <3> QED
      BY <1>1, <1>5, <2>1, <3>1, WhichStep
  <2>3. pos' = pos + 1 /\ field' = field /\ inQuotes' /\ SameRow
    <3> HIDE DEF Char
    <3> QED
      BY <2>1, <2>2 DEF ScanField, Read, SameRow
  <2>4. PICK at : at \in Placings(text, Pieces(f), o + 1) /\ at[0] = o + 1
    BY <1>3 DEF Placings
  <2>5. First(field', f, 0) /\ 0 \in 0..Len(f) /\ pos' = at[0] + 1
    BY <1>1, <1>5, <2>3, <2>4, EmptySeq DEF First
  <2>6. text' = text
    BY <2>3 DEF SameRow
  <2> HIDE DEF First, Placings, Pieces
  <2> QED
    BY <2>3, <2>4, <2>5, <2>6 DEF InQuoted
<1>6. ASSUME inQuotes, NEW at \in Placings(text, Pieces(f), o + 1), NEW k \in 0..n,
             First(field, f, k), pos = at[k] + 1
      PROVE  InQuoted(f, m, o)' /\ SameRow
  <2>1. /\ k = n => field = f
        /\ k # n => k + 1 \in 1..n /\ First(Append(field, f[k + 1]), f, k + 1)
    BY <1>1, <1>2, <1>6, FirstFacts DEF Text
  <2>2. CASE k # n
    <3>1. /\ Char = f[k + 1] /\ pos <= l
          /\ f[k + 1] = Quote => NextIs(Quote) /\ at[k + 1] + 1 = pos + 2
          /\ f[k + 1] # Quote => at[k + 1] + 1 = pos + 1
      BY <1>1, <1>2, <1>3, <1>6, <2>1, <2>2, PieceFacts
    <3> HIDE DEF Char, NextIs
    <3>2. ScanQuoted
      BY <1>1, <1>6, <3>1, WhichStep
    <3>3. pos' = at[k + 1] + 1 /\ field' = Append(field, f[k + 1]) /\ inQuotes' /\ SameRow
      BY <3>1, <3>2 DEF ScanQuoted, Read, SameRow
    <3>4. First(field', f, k + 1) /\ k + 1 \in 0..Len(f)
      BY <1>1, <2>1, <2>2, <3>3
    <3>5. text' = text
      BY <3>3 DEF SameRow
    <3> HIDE DEF First, Placings, Pieces
    <3> QED
      BY <1>6, <3>3, <3>4, <3>5 DEF InQuoted
  <2>3. CASE k = n
    <3>1. at[n] = o + 1 + e
      BY <1>3, <1>4, <1>6 DEF Placings
    <3>2. pos = o + e + 2
      BY <1>6, <2>3, <3>1
    <3>3. Char = Quote /\ pos <= l /\ ~NextIs(Quote)
      BY <1>1, <1>4, <3>2 DEF Char, NextIs
    <3> HIDE DEF Char, NextIs
    <3>4. ScanQuoted
      BY <1>1, <1>6, <3>3, WhichStep
    <3>5. pos' = pos + 1 /\ field' = field /\ ~inQuotes' /\ SameRow
      BY <3>3, <3>4 DEF ScanQuoted, Read, SameRow
    <3>6. field' = f /\ pos' = EndOf(f, m, o) + 1
      BY <1>4, <2>1, <2>3, <3>2, <3>5
    <3> QED
      BY <3>5, <3>6 DEF InQuoted, EndOf
  <2> QED
    BY <2>2, <2>3
<1>7. ~(~inQuotes /\ field = f /\ pos = EndOf(f, m, o) + 1)
  BY DEF CellRead
<1> HIDE DEF Placings, Pieces, First, EndOf
<1> QED
  BY <1>1, <1>5, <1>6, <1>7 DEF InQuoted

\* The next step in a field reads on in it, until it is read.
LEMMA CellStep ==
  ASSUME Scanned, NEW m, Delimiter = m.delimiter, NEW f \in Text,
         NEW o \in Nat, Occurs(text, Written(f, m), o),
         EndOf(f, m, o) < Len(text) => text[EndOf(f, m, o) + 1] # Quote,
         InCell(f, m, o), ~CellRead(f, m, o), Scans
  PROVE  InCell(f, m, o)' /\ SameRow
<1> HIDE DEF Delimiter
<1>1. CASE InQuotation(f, m)
  <2>1. InQuoted(f, m, o)
    BY <1>1 DEF InCell
  <2>2. InQuoted(f, m, o)' /\ SameRow
    BY <1>1, <2>1, QuotedStep
  <2> QED
    BY <1>1, <2>2 DEF InCell, InQuotation
<1>2. CASE ~InQuotation(f, m)
  <2>1. InPlain(f, o)
    BY <1>2 DEF InCell
  <2>2. InPlain(f, o)' /\ SameRow
    BY <1>2, <2>1, PlainStep
  <2> QED
    BY <1>2, <2>2 DEF InCell, InQuotation
<1> QED
  BY <1>1, <1>2

-----------------------------------------------------------------------------
(* Reading a table *)

NonBlank(t) == {i \in DOMAIN t : ~IsBlank(t[i])}

\* Within row i the parser has the rows before it that are kept, and the
\* fields before the one that it reads.
InRow(m, at, g, i, j) ==
  /\ rows = g[i - 1] /\ First(row, table[i], j - 1)
  /\ InCell(table[i][j], m, at[i][j])

\* Behind the last line end it has them all, and nothing else.
ReadAll(g) ==
  /\ rows = g[Len(table)] /\ row = <<>> /\ field = <<>> /\ ~inQuotes
  /\ pos = Len(text) + 1

ReadsIn(m, at, g) ==
  \/ ReadAll(g)
  \/ \E i \in 1..Len(table) : \E j \in 1..Len(table[i]) : InRow(m, at, g, i, j)

Reading ==
  /\ Readable(table)
  /\ \E m \in Styles : \E at \in Layouts(text, table, m) :
       \E g \in Filterings(Seq(Text), table, NonBlank(table)) : ReadsIn(m, at, g)

\* While it scans the parser is at some place of the table; once it has
\* finished it has found what was written.
AsWritten ==
  /\ phase = "scan" => Reading
  /\ phase = "rows" => ParsesWritten
  /\ phase \notin {"scan", "rows"} => table = <<>>

\* What stands behind field j of row i, which ends at the place q.
Behind(m, at, i, j, q) ==
  /\ j # Len(table[i]) => /\ q < Len(text) /\ text[q + 1] = m.delimiter
                          /\ at[i][j + 1] = q + 1
  /\ j = Len(table[i]) /\ (i # Len(table) \/ m.lastEol) =>
       q < Len(text) /\ text[q + 1] = m.eol[1] /\ Occurs(text, m.eol, q)
  /\ j = Len(table[i]) /\ i # Len(table) => at[i + 1][1] = q + Len(m.eol)
  /\ j = Len(table[i]) /\ i = Len(table) =>
       Len(text) = q + (IF m.lastEol THEN Len(m.eol) ELSE 0)
  /\ q < Len(text) => text[q + 1] # Quote

\* Behind a field there is a delimiter, a line end or nothing, never a quote.
LEMMA BehindCell ==
  ASSUME text \in Text, table \in Rows, Readable(table),
         NEW m \in Styles, NEW at \in Layouts(text, table, m),
         NEW i \in 1..Len(table), NEW j \in 1..Len(table[i]),
         NEW f, f = table[i][j], NEW o, o = at[i][j], NEW q, q = EndOf(f, m, o)
  PROVE  /\ f \in Text /\ o \in Nat /\ q \in Nat /\ Occurs(text, Written(f, m), o)
         /\ Behind(m, at, i, j, q)
<1> HIDE DEF Quote, LF, CR, BOM, Delimiters
<1>1. CellLaid(text, table, m, at, i, j)
  <2> HIDE DEF CellLaid
  <2> QED
    BY DEF Layouts
<1>2. f \in Text
  BY RowFacts
<1>3. PICK l, w \in Nat : l = Len(text) /\ w = Len(Written(f, m))
  <2>1. Written(f, m) \in Text
    BY <1>2, FieldType DEF Written
  <2> QED
    BY <2>1, LenProperties DEF Text
<1>4. o \in Nat /\ q = o + w /\ q \in Nat /\ Occurs(text, Written(f, m), o)
  BY <1>1, <1>3 DEF CellLaid, EndOf
<1>5. CASE j # Len(table[i])
  <2>1. Occurs(text, <<m.delimiter>>, q) /\ at[i][j + 1] = q + 1
    BY <1>1, <1>5 DEF CellLaid
  <2>2. PICK d : d = m.delimiter
    OBVIOUS
  <2>3. Len(<<d>>) = 1 /\ <<d>>[1] = d
    OBVIOUS
  <2>4. q + 1 <= l /\ text[q + 1] = d
    BY <1>3, <2>1, <2>2, <2>3 DEF Occurs
  <2>5. text[q + 1] # Quote /\ q < l
    BY <1>3, <1>4, <2>2, <2>4, EolFacts, DistinctTokens
  <2> QED
    BY <1>2, <1>3, <1>4, <1>5, <2>1, <2>2, <2>4, <2>5 DEF Behind
<1>6. CASE j = Len(table[i])
  <2>1. /\ i # Len(table) \/ m.lastEol => Occurs(text, m.eol, q)
        /\ i # Len(table) => at[i + 1][1] = q + Len(m.eol)
        /\ i = Len(table) => Len(text) = q + (IF m.lastEol THEN Len(m.eol) ELSE 0)
    BY <1>1, <1>6 DEF CellLaid
  <2>2. CASE i # Len(table) \/ m.lastEol
    <3>1. PICK e \in Nat \ {0} : e = Len(m.eol)
      BY EolFacts
    <3>2. q + e <= l /\ text[q + 1] = m.eol[1]
      BY <1>3, <2>1, <2>2, <3>1 DEF Occurs
    <3>3. text[q + 1] # Quote
      BY <3>2, EolFacts, DistinctTokens
    <3>4. q < l
      BY <1>3, <1>4, <3>1, <3>2
    <3> QED
      BY <1>2, <1>3, <1>4, <1>6, <2>1, <2>2, <3>2, <3>3, <3>4 DEF Behind
  <2>3. CASE i = Len(table) /\ ~m.lastEol
    <3>1. l = q + 0
      BY <1>3, <2>1, <2>3, EolFacts
    <3>2. ~(q < l)
      BY <1>3, <1>4, <3>1
    <3> QED
      BY <1>2, <1>3, <1>4, <1>6, <2>1, <2>3, <3>2 DEF Behind
  <2> QED
    BY <2>2, <2>3
<1> QED
  BY <1>5, <1>6

\* No row begins with a line feed, which would be taken for part of the
\* carriage return before it.
LEMMA FirstOfLine ==
  ASSUME text \in Text, table \in Rows, Readable(table),
         NEW m \in Styles, NEW at \in Layouts(text, table, m),
         NEW i \in 1..Len(table)
  PROVE  m.eol = <<CR>> /\ at[i][1] < Len(text) => text[at[i][1] + 1] # LF
<1> HIDE DEF Quote, LF, CR, BOM, Delimiters
<1>1. PICK N, n \in Nat \ {0} : N = Len(table) /\ n = Len(table[i])
  BY RowFacts
<1>2. PICK j \in 1..Len(table[i]) : j = 1
  BY <1>1
<1>3. PICK f, o, q : f = table[i][j] /\ o = at[i][j] /\ q = EndOf(f, m, o)
  OBVIOUS
<1>4. /\ f \in Text /\ o \in Nat /\ q \in Nat /\ Occurs(text, Written(f, m), o)
      /\ 1 # n => text[q + 1] = m.delimiter
      /\ 1 = n /\ (i # N \/ m.lastEol) => text[q + 1] = m.eol[1]
      /\ 1 = n /\ i = N => Len(text) = q + (IF m.lastEol THEN Len(m.eol) ELSE 0)
  <2>1. /\ f \in Text /\ o \in Nat /\ q \in Nat /\ Occurs(text, Written(f, m), o)
        /\ j # Len(table[i]) => text[q + 1] = m.delimiter
        /\ j = Len(table[i]) /\ (i # Len(table) \/ m.lastEol) => text[q + 1] = m.eol[1]
        /\ j = Len(table[i]) /\ i = Len(table) =>
             Len(text) = q + (IF m.lastEol THEN Len(m.eol) ELSE 0)
    BY <1>3, BehindCell DEF Behind
  <2> QED
    BY <1>1, <1>2, <2>1
<1> SUFFICES ASSUME m.eol = <<CR>>, at[i][1] < Len(text)
             PROVE  text[at[i][1] + 1] # LF
  OBVIOUS
<1>5. CASE InQuotation(f, m)
  <2>1. text[o + 1] = Quote
    BY <1>4, <1>5, QuotationFacts
  <2> QED
    BY <1>2, <1>3, <2>1, DistinctTokens
<1>6. CASE ~InQuotation(f, m)
  <2>1. Written(f, m) = f
    BY <1>6 DEF Written, WriteField, InQuotation
  <2>2. PICK k \in Nat : k = Len(f) /\ DOMAIN f = 1..k
    BY <1>4, LenProperties DEF Text
  <2>3. CASE k = 0
    <3>1. q = o
      BY <1>2, <1>3, <1>4, <2>1, <2>2, <2>3 DEF EndOf
    <3>2. CASE 1 # n
      BY <1>2, <1>3, <1>4, <3>1, <3>2, EolFacts, DistinctTokens
    <3>3. CASE 1 = n /\ (i # N \/ m.lastEol)
      <4>1. m.eol[1] = CR
        OBVIOUS
      <4> QED
        BY <1>2, <1>3, <1>4, <3>1, <3>3, <4>1, DistinctTokens
    <3>4. CASE 1 = n /\ i = N /\ ~m.lastEol
      <4>1. Len(text) = o + 0
        BY <1>4, <3>1, <3>4, EolFacts
      <4> QED
        BY <1>2, <1>3, <1>4, <4>1
    <3> QED
      BY <3>2, <3>3, <3>4
  <2>4. CASE k # 0
    <3>1. 1 \in 1..k
      BY <2>4
    <3>2. text[o + 1] = f[1] /\ f[1] # LF
      BY <1>4, <1>6, <2>1, <2>2, <3>1 DEF Occurs, InQuotation
    <3> QED
      BY <1>2, <1>3, <3>2
  <2> QED
    BY <2>3, <2>4
<1> QED
  BY <1>5, <1>6

\* The parser sees how wide a line end is.
LEMMA WidthFound ==
  ASSUME text \in Text, table \in Rows, Readable(table),
         NEW m \in Styles, NEW at \in Layouts(text, table, m),
         NEW i \in 1..Len(table), i # Len(table) \/ m.lastEol,
         NEW j, j = Len(table[i]), pos = EndOf(table[i][j], m, at[i][j]) + 1
  PROVE  pos <= Len(text) /\ Char \in {CR, LF} /\ LineEndWidth = Len(m.eol)
<1> HIDE DEF Quote, LF, CR, BOM, Delimiters
<1>1. Len(table) \in Nat \ {0} /\ j \in Nat \ {0}
  BY RowFacts
<1>2. PICK f, o, q : f = table[i][j] /\ o = at[i][j] /\ q = EndOf(f, m, o)
  OBVIOUS
<1>3. j \in 1..Len(table[i])
  BY <1>1
<1>4. /\ q \in Nat /\ q < Len(text) /\ text[q + 1] = m.eol[1] /\ Occurs(text, m.eol, q)
      /\ i # Len(table) => at[i + 1][1] = q + Len(m.eol)
      /\ i = Len(table) => Len(text) = q + (IF m.lastEol THEN Len(m.eol) ELSE 0)
  <2>1. q \in Nat /\ Behind(m, at, i, j, q)
    BY <1>2, <1>3, BehindCell
  <2> QED
    BY <2>1 DEF Behind
<1>5. PICK l \in Nat : l = Len(text)
  BY LenProperties DEF Text
<1>6. pos = q + 1 /\ pos <= l /\ Char = m.eol[1]
  BY <1>2, <1>4, <1>5 DEF Char
<1>7. m.eol \in Eols /\ Char \in {CR, LF}
  BY <1>6, EolFacts DEF Styles
<1>8. CASE m.eol = <<LF>>
  <2>1. Len(m.eol) = 1 /\ Char = LF
    BY <1>6, <1>8
  <2>2. Char # CR
    BY <2>1, DistinctTokens
  <2> HIDE DEF Char, NextIs
  <2> QED
    BY <1>5, <1>6, <1>7, <2>1, <2>2 DEF LineEndWidth
<1>9. CASE m.eol = <<CR, LF>>
  <2>1. Len(m.eol) = 2 /\ m.eol[1] = CR /\ m.eol[2] = LF
    BY <1>9
  <2>2. q + 2 <= l /\ text[q + 2] = LF
    BY <1>4, <1>5, <2>1 DEF Occurs
  <2>3. NextIs(LF)
    BY <1>4, <1>5, <1>6, <2>2 DEF NextIs
  <2> HIDE DEF Char, NextIs
  <2> QED
    BY <1>5, <1>6, <1>7, <2>1, <2>3 DEF LineEndWidth
<1>10. CASE m.eol = <<CR>>
  <2>1. Len(m.eol) = 1
    BY <1>10
  <2>2. CASE i # Len(table)
    <3>1. i + 1 \in 1..Len(table) /\ at[i + 1][1] = q + 1
      BY <1>1, <1>4, <2>1, <2>2
    <3>2. q + 1 < l => text[q + 1 + 1] # LF
      BY <1>5, <1>10, <3>1, FirstOfLine
    <3>3. ~NextIs(LF)
      BY <1>5, <1>6, <3>2 DEF NextIs
    <3> HIDE DEF Char, NextIs
    <3> QED
      BY <1>5, <1>6, <1>7, <2>1, <3>3 DEF LineEndWidth
  <2>3. CASE i = Len(table)
    <3>1. l = q + 1
      BY <1>1, <1>4, <1>5, <2>1, <2>3
    <3>2. ~NextIs(LF)
      BY <1>4, <1>5, <1>6, <3>1 DEF NextIs
    <3> HIDE DEF Char, NextIs
    <3> QED
      BY <1>5, <1>6, <1>7, <2>1, <3>2 DEF LineEndWidth
  <2> QED
    BY <2>2, <2>3
<1> QED
  BY <1>7, <1>8, <1>9, <1>10 DEF Eols

\* The rows kept of a table are found one after the other.
LEMMA KeptRows ==
  ASSUME table \in Rows, NEW g \in Filterings(Seq(Text), table, NonBlank(table))
  PROVE  /\ g[0] = <<>> /\ g[Len(table)] = Filtered(table, NonBlank(table))
         /\ \A i \in 1..Len(table) :
              g[i] = IF IsBlank(table[i]) THEN g[i - 1] ELSE Append(g[i - 1], table[i])
<1>1. DOMAIN table = 1..Len(table)
  BY LenProperties DEF Rows
<1>2. \A i \in 1..Len(table) : i \in NonBlank(table) <=> ~IsBlank(table[i])
  BY <1>1 DEF NonBlank
<1> HIDE DEF NonBlank, IsBlank
<1> QED
  BY <1>2 DEF Filterings

\* The parser begins at the first field.
LEMMA ReadingInit ==
  ASSUME Typed, Init, \A t \in Tables : Readable(t)
  PROVE  Reading
<1> HIDE DEF Quote, LF, CR, BOM, Delimiters, Delimiter, Start
<1>1. text \in Text /\ table \in Rows /\ Readable(table)
  BY DEF Typed, Scanned, Init
<1>2. PICK m \in Styles : text = m.bom \o WriteTable(table, m.delimiter, m.always, m.eol, m.lastEol)
  <2>1. PICK bom \in {<<>>, <<BOM>>}, delimiter \in Delimiters,
             always \in BOOLEAN, lastEol \in BOOLEAN, eol \in Eols :
          text = bom \o WriteTable(table, delimiter, always, eol, lastEol)
    BY DEF Init, Writes, Eols
  <2>2. PICK m : m = [bom |-> bom, delimiter |-> delimiter, always |-> always,
                      lastEol |-> lastEol, eol |-> eol]
    OBVIOUS
  <2>3. m \in Styles
    <3> HIDE DEF Eols
    <3> QED
      BY <2>2 DEF Styles
  <2>4. /\ m.bom = bom /\ m.delimiter = delimiter /\ m.always = always
        /\ m.lastEol = lastEol /\ m.eol = eol
    BY <2>2
  <2> QED
    BY <2>1, <2>3, <2>4
<1>3. PICK at : at \in Layouts(text, table, m)
  <2>1. table # <<>> /\ \A i \in DOMAIN table : table[i] # <<>>
    BY <1>1 DEF Readable
  <2>2. Layouts(text, table, m) # {}
    BY <1>1, <1>2, <2>1, LaidOut
  <2> QED
    BY <2>2
<1>4. PICK g : g \in Filterings(Seq(Text), table, NonBlank(table))
  <2>1. table \in Seq(Seq(Text))
    BY <1>1 DEF Rows
  <2>2. Filterings(Seq(Text), table, NonBlank(table)) # {}
    BY <2>1, FilteredLoop
  <2> QED
    BY <2>2
<1>5. 1 \in 1..Len(table) /\ 1 \in 1..Len(table[1]) /\ table[1][1] \in Text
  BY <1>1, RowFacts
<1>6. PICK f, o : f = table[1][1] /\ o = at[1][1]
  OBVIOUS
<1>7. o = Len(m.bom) /\ o \in Nat /\ pos = o + 1
  <2>1. Start = Len(m.bom) + 1
    BY <1>1, <1>3, DelimiterFound
  <2> QED
    BY <1>3, <1>6, <2>1, EolFacts DEF Init, Layouts
<1>8. InCell(f, m, o)
  <2>1. ~inQuotes /\ field = <<>>
    BY DEF Init
  <2> QED
    BY <1>5, <1>6, <1>7, <2>1, EnterCell
<1>9. rows = g[1 - 1] /\ First(row, table[1], 1 - 1)
  <2>1. g[0] = <<>>
    BY <1>1, <1>4, KeptRows
  <2>2. rows = <<>> /\ Len(row) = 0
    BY EmptySeq DEF Init
  <2> QED
    BY <2>1, <2>2 DEF First
<1>10. InRow(m, at, g, 1, 1)
  BY <1>6, <1>8, <1>9 DEF InRow
<1>11. ReadsIn(m, at, g)
  <2> HIDE DEF InRow
  <2> QED
    BY <1>5, <1>10 DEF ReadsIn
<1> HIDE DEF ReadsIn, Layouts, Filterings, Styles
<1> QED
  BY <1>1, <1>3, <1>4, <1>11 DEF Reading

\* Where the parser's step leads from a place of the table.
Leads(m, at, g) ==
  \/ phase' = "scan" /\ text' = text /\ table' = table /\ ReadsIn(m, at, g)'
  \/ phase' = "rows" /\ table' = table /\ records' = g[Len(table)]

\* Within a field the parser stays in it.
LEMMA ReadOn ==
  ASSUME Scanned, Readable(table), phase = "scan", Scans,
         NEW m \in Styles, NEW at \in Layouts(text, table, m), NEW g,
         NEW i \in 1..Len(table), NEW j \in 1..Len(table[i]), InRow(m, at, g, i, j),
         ~CellRead(table[i][j], m, at[i][j])
  PROVE  Leads(m, at, g)
<1> HIDE DEF Quote, LF, CR, BOM, Delimiters, Delimiter
<1>1. PICK f, o, q : f = table[i][j] /\ o = at[i][j] /\ q = EndOf(f, m, o)
  OBVIOUS
<1>2. text \in Text /\ table \in Rows
  BY DEF Scanned
<1>3. /\ f \in Text /\ o \in Nat /\ Occurs(text, Written(f, m), o)
      /\ EndOf(f, m, o) < Len(text) => text[EndOf(f, m, o) + 1] # Quote
  BY <1>1, <1>2, BehindCell DEF Behind
<1>4. Delimiter = m.delimiter
  BY <1>2, DelimiterFound
<1>5. InCell(f, m, o) /\ ~CellRead(f, m, o)
  BY <1>1 DEF InRow
<1>6. InCell(f, m, o)' /\ SameRow
  BY <1>3, <1>4, <1>5, CellStep
<1>7. InCell(table[i][j], m, at[i][j])'
  BY <1>1, <1>6 DEF SameRow
<1>8. InRow(m, at, g, i, j)'
  <2> HIDE DEF InCell, First
  <2> QED
    BY <1>6, <1>7 DEF InRow, SameRow
<1>9. ReadsIn(m, at, g)'
  <2> HIDE DEF InRow
  <2> QED
    BY <1>6, <1>8 DEF ReadsIn, SameRow
<1> HIDE DEF ReadsIn
<1> QED
  BY <1>6, <1>9 DEF Leads, SameRow

\* At a delimiter it goes on with the row's next field.
LEMMA NextCell ==
  ASSUME Scanned, Readable(table), phase = "scan", Scans,
         NEW m \in Styles, NEW at \in Layouts(text, table, m), NEW g,
         NEW i \in 1..Len(table), NEW j \in 1..Len(table[i]), InRow(m, at, g, i, j),
         CellRead(table[i][j], m, at[i][j]), j # Len(table[i])
  PROVE  Leads(m, at, g)
<1> HIDE DEF Quote, LF, CR, BOM, Delimiters, Delimiter
<1>1. PICK f, o, q : f = table[i][j] /\ o = at[i][j] /\ q = EndOf(f, m, o)
  OBVIOUS
<1>2. text \in Text /\ table \in Rows
  BY DEF Scanned
<1>3. PICK l, n \in Nat : l = Len(text) /\ n = Len(table[i]) /\ table[i] \in Seq(Text) /\ DOMAIN table[i] = 1..n
  BY <1>2, RowFacts, LenProperties DEF Text
<1>4. q \in Nat /\ q < l /\ text[q + 1] = m.delimiter /\ at[i][j + 1] = q + 1
  BY <1>1, <1>2, <1>3, BehindCell DEF Behind
<1>5. Delimiter = m.delimiter
  BY <1>2, DelimiterFound
<1>6. ~inQuotes /\ field = f /\ pos = q + 1
  BY <1>1 DEF CellRead
<1>7. Char = m.delimiter /\ pos <= l
  BY <1>4, <1>6 DEF Char
<1>8. Char \notin {CR, LF, Quote}
  BY <1>7, EolFacts, DistinctTokens
<1>9. ScanField
  <2> HIDE DEF Char
  <2> QED
    BY <1>3, <1>6, <1>7, <1>8, WhichStep
<1>10. /\ pos' = q + 1 + 1 /\ field' = <<>> /\ ~inQuotes' /\ row' = Append(row, f)
       /\ UNCHANGED <<phase, table, text, rows>>
  <2> HIDE DEF Char
  <2> QED
    BY <1>5, <1>6, <1>7, <1>8, <1>9 DEF ScanField, Read
<1>11. j + 1 \in 1..n /\ j - 1 \in 0..n /\ j - 1 # n /\ (j - 1) + 1 = j /\ (j + 1) - 1 = j
  BY <1>3
<1>12. First(row', table[i], (j + 1) - 1)
  <2>1. row \in Seq(Text) /\ First(row, table[i], j - 1)
    BY DEF Scanned, InRow
  <2>2. PICK r \in Seq(Text), k \in 0..n : r = table[i] /\ k = j - 1
    BY <1>3, <1>11
  <2>3. First(Append(row, r[k + 1]), r, k + 1)
    BY <1>3, <1>11, <2>1, <2>2, FirstFacts
  <2> HIDE DEF First
  <2> QED
    BY <1>1, <1>10, <1>11, <2>2, <2>3
<1>13. InCell(table[i][j + 1], m, at[i][j + 1])'
  <2>1. PICK h \in Text, p \in Nat : h = table[i][j + 1] /\ p = q + 1
    BY <1>2, <1>3, <1>4, <1>11, RowFacts
  <2>2. InCell(h, m, p)'
    <3>1. 0 \in 0..Len(h) /\ Len(field') = 0 /\ pos' = p + 0 + 1
      BY <1>10, <2>1, EmptySeq, LenProperties DEF Text
    <3>2. InPlain(h, p)'
      BY <1>10, <3>1 DEF InPlain, First
    <3>3. InQuoted(h, m, p)'
      BY <1>10, <2>1 DEF InQuoted
    <3> QED
      BY <3>2, <3>3 DEF InCell, InQuotation
  <2> QED
    BY <1>4, <1>10, <2>1, <2>2
<1>14. InRow(m, at, g, i, j + 1)'
  <2>1. rows = g[i - 1]
    BY DEF InRow
  <2> HIDE DEF First, InCell
  <2> QED
    BY <1>10, <1>12, <1>13, <2>1 DEF InRow
<1>15. ReadsIn(m, at, g)'
  <2> HIDE DEF InRow
  <2> QED
    BY <1>3, <1>10, <1>11, <1>14 DEF ReadsIn
<1> HIDE DEF ReadsIn
<1> QED
  BY <1>10, <1>15 DEF Leads

\* Behind the last field of a row the parser has the whole of it.
LEMMA WholeRow ==
  ASSUME Scanned, Readable(table),
         NEW m \in Styles, NEW at \in Layouts(text, table, m),
         NEW g \in Filterings(Seq(Text), table, NonBlank(table)),
         NEW i \in 1..Len(table), NEW j, j = Len(table[i]), InRow(m, at, g, i, j),
         CellRead(table[i][j], m, at[i][j])
  PROVE  Append(row, field) = table[i] /\ Kept(Append(row, field)) = g[i]
<1>1. table \in Rows
  BY DEF Scanned
<1>2. PICK n \in Nat \ {0}, r \in Seq(Text) : r = table[i] /\ n = Len(r)
  BY <1>1, RowFacts
<1>3. PICK k \in 0..n : k = n - 1 /\ k + 1 = n
  <2>1. n - 1 \in 0..n /\ (n - 1) + 1 = n
    OBVIOUS
  <2> QED
    BY <2>1
<1>4. row \in Seq(Text) /\ First(row, r, k)
  BY <1>2, <1>3 DEF Scanned, InRow
<1>5. First(Append(row, r[n]), r, n) /\ n \in 0..n
  <2>1. First(Append(row, r[k + 1]), r, k + 1)
    BY <1>2, <1>3, <1>4, FirstFacts
  <2> HIDE DEF First
  <2> QED
    BY <1>3, <2>1
<1>6. r[n] \in Text /\ r[n] = field
  BY <1>1, <1>2, RowFacts DEF CellRead
<1>7. Append(row, field) \in Seq(Text)
  BY <1>4, <1>6, AppendProperties
<1>8. Append(row, field) = r
  <2>1. PICK a \in Seq(Text) : a = Append(row, field)
    BY <1>7
  <2> HIDE DEF First
  <2>2. First(a, r, n) /\ n \in 0..Len(r)
    BY <1>2, <1>5, <1>6, <2>1
  <2>3. n = Len(r) => a = r
    BY <2>2, FirstFacts
  <2> QED
    BY <1>2, <2>1, <2>3
<1>9. g[i] = IF IsBlank(r) THEN g[i - 1] ELSE Append(g[i - 1], r)
  BY <1>1, <1>2, KeptRows
<1>10. rows = g[i - 1]
  BY DEF InRow
<1>11. Kept(r) = g[i]
  <2> HIDE DEF IsBlank
  <2> QED
    BY <1>9, <1>10 DEF Kept
<1> QED
  BY <1>2, <1>8, <1>11

\* At a line end it takes the row, and goes on with the next one if there is.
LEMMA NextLine ==
  ASSUME Scanned, Readable(table), phase = "scan", Scans,
         NEW m \in Styles, NEW at \in Layouts(text, table, m),
         NEW g \in Filterings(Seq(Text), table, NonBlank(table)),
         NEW i \in 1..Len(table), i # Len(table) \/ m.lastEol,
         NEW j, j = Len(table[i]), InRow(m, at, g, i, j),
         CellRead(table[i][j], m, at[i][j])
  PROVE  Leads(m, at, g)
<1> HIDE DEF Quote, LF, CR, BOM, Delimiters, Delimiter
<1>1. PICK f, o, q : f = table[i][j] /\ o = at[i][j] /\ q = EndOf(f, m, o)
  OBVIOUS
<1>2. text \in Text /\ table \in Rows
  BY DEF Scanned
<1>3. PICK l, N, e \in Nat : l = Len(text) /\ N = Len(table) /\ e = Len(m.eol)
  BY <1>2, RowFacts, EolFacts, LenProperties DEF Text
<1>4. /\ q \in Nat
      /\ i # N => at[i + 1][1] = q + e
      /\ i = N /\ m.lastEol => l = q + e
  <2>1. j \in 1..Len(table[i])
    BY <1>2, RowFacts
  <2> QED
    BY <1>1, <1>2, <1>3, <2>1, BehindCell DEF Behind
<1>5. ~inQuotes /\ field = f /\ pos = q + 1
  BY <1>1 DEF CellRead
<1>6. pos <= l /\ Char \in {CR, LF} /\ LineEndWidth = e
  BY <1>1, <1>2, <1>3, <1>5, WidthFound
<1> HIDE DEF Char, LineEndWidth
<1>7. ScanLineEnd
  BY <1>3, <1>5, <1>6, WhichStep
<1>8. Kept(Append(row, field)) = g[i]
  BY WholeRow
<1>9. /\ pos' = q + 1 + e /\ field' = <<>> /\ ~inQuotes' /\ row' = <<>> /\ rows' = g[i]
      /\ UNCHANGED <<phase, table, text>>
  <2> HIDE DEF Kept
  <2> QED
    BY <1>5, <1>6, <1>7, <1>8 DEF ScanLineEnd, Read
<1>10. CASE i = N
  <2>1. pos' = l + 1
    <3>1. l = q + e
      BY <1>3, <1>4, <1>10
    <3>2. q + 1 + e = l + 1
      BY <1>4, <3>1
    <3> QED
      BY <1>9, <3>2
  <2>2. ReadAll(g)'
    BY <1>3, <1>9, <1>10, <2>1 DEF ReadAll
  <2>3. ReadsIn(m, at, g)'
    <3> HIDE DEF ReadAll
    <3> QED
      BY <2>2 DEF ReadsIn
  <2> HIDE DEF ReadsIn
  <2> QED
    BY <1>9, <2>3 DEF Leads
<1>11. CASE i # N
  <2>1. i + 1 \in 1..N /\ (i + 1) - 1 = i
    BY <1>3, <1>11
  <2>2. 1 \in 1..Len(table[i + 1]) /\ table[i + 1][1] \in Text
    BY <1>2, <1>3, <2>1, RowFacts
  <2>3. PICK h \in Text, p \in Nat : h = table[i + 1][1] /\ p = q + e /\ pos' = p + 1
    <3>1. q + e \in Nat /\ q + 1 + e = (q + e) + 1
      BY <1>4
    <3>2. pos' = (q + e) + 1
      BY <1>9, <3>1
    <3> QED
      BY <2>2, <3>1, <3>2
  <2>4. InCell(h, m, p)'
    <3>1. 0 \in 0..Len(h) /\ Len(field') = 0 /\ pos' = p + 0 + 1
      BY <1>9, <2>3, EmptySeq, LenProperties DEF Text
    <3>2. InPlain(h, p)'
      BY <1>9, <3>1 DEF InPlain, First
    <3>3. InQuoted(h, m, p)'
      BY <1>9, <2>3 DEF InQuoted
    <3> QED
      BY <3>2, <3>3 DEF InCell, InQuotation
  <2>5. InCell(table[i + 1][1], m, at[i + 1][1])'
    BY <1>4, <1>9, <1>11, <2>3, <2>4
  <2>6. First(row', table[i + 1], 1 - 1)
    BY <1>9, EmptySeq DEF First
  <2>7. InRow(m, at, g, i + 1, 1)'
    <3> HIDE DEF First, InCell
    <3> QED
      BY <1>9, <2>1, <2>5, <2>6 DEF InRow
  <2>8. ReadsIn(m, at, g)'
    <3> HIDE DEF InRow
    <3> QED
      BY <1>3, <1>9, <2>1, <2>2, <2>7 DEF ReadsIn
  <2> HIDE DEF ReadsIn
  <2> QED
    BY <1>9, <2>8 DEF Leads
<1> QED
  BY <1>10, <1>11

\* A row of one empty field is blank.
LEMMA NothingIsBlank ==
  ASSUME NEW r, r = Append(<<>>, <<>>)
  PROVE  IsBlank(r)
<1>1. DOMAIN r = 1..1 /\ r[1] = <<>>
  OBVIOUS
<1>2. Trim(<<>>) = <<>>
  <2>1. DOMAIN <<>> = {}
    OBVIOUS
  <2> QED
    BY <2>1 DEF Trim
<1> HIDE DEF Trim
<1> QED
  BY <1>1, <1>2 DEF IsBlank

\* At the end of the text it has all rows, whether a line end closed the last
\* or not.
LEMMA TextEnds ==
  ASSUME Scanned, Readable(table), phase = "scan", Scans,
         NEW m \in Styles, NEW at \in Layouts(text, table, m),
         NEW g \in Filterings(Seq(Text), table, NonBlank(table)),
         \/ ReadAll(g)
         \/ /\ ~m.lastEol
            /\ \E i \in 1..Len(table) : \E j \in 1..Len(table[i]) :
                 /\ i = Len(table) /\ j = Len(table[i]) /\ InRow(m, at, g, i, j)
                 /\ CellRead(table[i][j], m, at[i][j])
  PROVE  Leads(m, at, g)
<1> HIDE DEF Quote, LF, CR, BOM, Delimiters, Delimiter
<1>1. text \in Text /\ table \in Rows
  BY DEF Scanned
<1>2. PICK l, N \in Nat : l = Len(text) /\ N = Len(table)
  BY <1>1, RowFacts, LenProperties DEF Text
<1>3. CASE ReadAll(g)
  <2>1. pos > l /\ field = <<>> /\ row = <<>> /\ rows = g[N]
    BY <1>2, <1>3 DEF ReadAll
  <2>2. ScanEnd
    BY <1>2, <2>1, WhichStep
  <2> QED
    BY <1>2, <2>1, <2>2 DEF ScanEnd, Leads
<1>4. ASSUME ~m.lastEol, NEW i \in 1..Len(table), NEW j \in 1..Len(table[i]),
             i = Len(table), j = Len(table[i]), InRow(m, at, g, i, j),
             CellRead(table[i][j], m, at[i][j])
      PROVE  Leads(m, at, g)
  <2>1. PICK f, o, q : f = table[i][j] /\ o = at[i][j] /\ q = EndOf(f, m, o)
    OBVIOUS
  <2>2. q \in Nat /\ Len(text) = q + (IF m.lastEol THEN Len(m.eol) ELSE 0)
    BY <1>1, <1>4, <2>1, BehindCell DEF Behind
  <2>3. l = q + 0
    BY <1>2, <1>4, <2>2, EolFacts
  <2>4. pos = q + 1
    BY <1>4, <2>1 DEF CellRead
  <2>5. ScanEnd
    BY <1>2, <2>2, <2>3, <2>4, WhichStep
  <2>6. Append(row, field) = table[i] /\ Kept(Append(row, field)) = g[i]
    BY <1>4, WholeRow
  <2>7. g[i] = IF IsBlank(table[i]) THEN g[i - 1] ELSE Append(g[i - 1], table[i])
    BY <1>1, <1>4, KeptRows
  <2>8. field = <<>> /\ row = <<>> => rows = g[i]
    <3> SUFFICES ASSUME field = <<>>, row = <<>> PROVE rows = g[i]
      OBVIOUS
    <3>1. IsBlank(table[i])
      BY <2>6, NothingIsBlank
    <3> HIDE DEF IsBlank
    <3> QED
      BY <1>4, <2>7, <3>1 DEF InRow
  <2>9. phase' = "rows" /\ table' = table /\ records' = g[i]
    <3> HIDE DEF Kept
    <3> QED
      BY <2>5, <2>6, <2>8 DEF ScanEnd
  <2> QED
    BY <1>4, <2>9 DEF Leads
<1> QED
  BY <1>3, <1>4

\* Every step of the parser leads on through the table or to its end.
LEMMA ScanLeads ==
  ASSUME Scanned, Readable(table), phase = "scan", Scans,
         NEW m \in Styles, NEW at \in Layouts(text, table, m),
         NEW g \in Filterings(Seq(Text), table, NonBlank(table)), ReadsIn(m, at, g)
  PROVE  Leads(m, at, g)
<1> HIDE DEF InRow, ReadAll, Leads, CellRead, Layouts, Styles
<1>1. CASE ReadAll(g)
  BY <1>1, TextEnds
<1>2. ASSUME NEW i \in 1..Len(table), NEW j \in 1..Len(table[i]), InRow(m, at, g, i, j)
      PROVE  Leads(m, at, g)
  <2>1. CASE ~CellRead(table[i][j], m, at[i][j])
    BY <1>2, <2>1, ReadOn
  <2>2. CASE CellRead(table[i][j], m, at[i][j]) /\ j # Len(table[i])
    BY <1>2, <2>2, NextCell
  <2>3. CASE CellRead(table[i][j], m, at[i][j]) /\ j = Len(table[i]) /\ (i # Len(table) \/ m.lastEol)
    BY <1>2, <2>3, NextLine
  <2>4. CASE CellRead(table[i][j], m, at[i][j]) /\ j = Len(table[i]) /\ i = Len(table) /\ ~m.lastEol
    BY <1>2, <2>4, TextEnds
  <2> QED
    BY <2>1, <2>2, <2>3, <2>4
<1> QED
  BY <1>1, <1>2 DEF ReadsIn

\* A step keeps what is found as it was written.
LEMMA AsWrittenStep == Typed /\ AsWritten /\ [Next]_vars => AsWritten'
<1> SUFFICES ASSUME Typed, AsWritten, [Next]_vars PROVE AsWritten'
  OBVIOUS
<1> HIDE DEF Reading, ParsesWritten
<1>1. CASE Scans
  <2>1. phase = "scan"
    BY <1>1 DEF Scans, ScanQuoted, ScanField, ScanLineEnd, ScanEnd, Scanning
  <2>2. Scanned /\ Readable(table)
    BY <2>1 DEF Typed, AsWritten, Reading
  <2>3. PICK m \in Styles : \E at \in Layouts(text, table, m) :
          \E g \in Filterings(Seq(Text), table, NonBlank(table)) : ReadsIn(m, at, g)
    BY <2>1 DEF AsWritten, Reading
  <2>4. PICK at \in Layouts(text, table, m) :
          \E g \in Filterings(Seq(Text), table, NonBlank(table)) : ReadsIn(m, at, g)
    BY <2>3
  <2>5. PICK g \in Filterings(Seq(Text), table, NonBlank(table)) : ReadsIn(m, at, g)
    BY <2>4
  <2>6. Leads(m, at, g)
    BY <1>1, <2>1, <2>2, <2>5, ScanLeads
  <2>7. CASE phase' = "scan" /\ text' = text /\ table' = table /\ ReadsIn(m, at, g)'
    <3> HIDE DEF Styles, Layouts, Filterings, NonBlank, Readable, ReadsIn
    <3>1. Reading'
      BY <2>2, <2>7 DEF Reading
    <3> QED
      BY <2>7, <3>1 DEF AsWritten
  <2>8. CASE phase' = "rows" /\ table' = table /\ records' = g[Len(table)]
    <3>1. g[Len(table)] = Filtered(table, NonBlank(table))
      <4>1. table \in Rows
        BY <2>2 DEF Scanned
      <4> QED
        BY <4>1, KeptRows
    <3>2. ParsesWritten'
      <4> HIDE DEF Filtered, IsBlank
      <4> QED
        BY <2>8, <3>1 DEF ParsesWritten, NonBlank
    <3> QED
      BY <2>8, <3>2 DEF AsWritten
  <2> HIDE DEF ReadsIn
  <2> QED
    BY <2>6, <2>7, <2>8 DEF Leads
<1>2. ASSUME phase # "scan" => table = <<>> \/ phase = "rows", phase' \notin {"scan", "rows"}, table' = <<>>
      PROVE  AsWritten'
  BY <1>2 DEF AsWritten
<1>3. CASE \E p \in Preferred : HandleProcessCsv(p)
  BY <1>3 DEF HandleProcessCsv, AsWritten
<1>4. CASE \/ \E i \in DOMAIN previewEntries : ToggleSelectEntry(i)
           \/ \E checked \in BOOLEAN : ToggleSelectAll(checked)
  BY <1>4 DEF ToggleSelectEntry, ToggleSelectAll, AsWritten, scanner
<1>5. ASSUME NEW skip \in BOOLEAN, Import(skip) PROVE AsWritten'
  <2>1. PICK single \in BOOLEAN, target \in DOMAIN groups, newName \in Text :
          HandleExecuteImport(single, target, newName, skip)
    BY <1>5, AnImport
  <2>2. phase = "preview" /\ phase' \in {"preview", "closed"} /\ table' = table
    BY <2>1 DEF HandleExecuteImport, scanner
  <2> QED
    BY <2>2 DEF AsWritten
<1>6. CASE Reopen
  <2>1. phase = "closed" /\ phase' = "rows" /\ table' = table
    BY <1>6 DEF Reopen, scanner
  <2>2. table' = <<>>
    BY <2>1 DEF AsWritten
  <2> QED
    BY <2>1, <2>2 DEF AsWritten, ParsesWritten
<1>7. CASE UNCHANGED vars
  <2>1. UNCHANGED <<phase, table, text, pos, rows, row, field, inQuotes, records>>
    BY <1>7 DEF vars, scanner
  <2>2. Reading => Reading'
    <3>1. ASSUME NEW m, NEW f, NEW o, InCell(f, m, o) PROVE InCell(f, m, o)'
      BY <2>1, <3>1 DEF InCell, InPlain, InQuoted, InQuotation
    <3>2. ASSUME NEW m, NEW at, NEW g, NEW i, NEW j, InRow(m, at, g, i, j)
          PROVE  InRow(m, at, g, i, j)'
      <4>1. PICK f, o : f = table[i][j] /\ o = at[i][j]
        OBVIOUS
      <4> HIDE DEF InCell, First
      <4>2. InCell(f, m, o)'
        BY <3>1, <3>2, <4>1 DEF InRow
      <4> QED
        BY <2>1, <3>2, <4>1, <4>2 DEF InRow
    <3>3. ASSUME NEW m, NEW at, NEW g, ReadsIn(m, at, g) PROVE ReadsIn(m, at, g)'
      <4> HIDE DEF InRow
      <4> QED
        BY <2>1, <3>2, <3>3 DEF ReadsIn, ReadAll
    <3> HIDE DEF ReadsIn, Layouts, Filterings, NonBlank, Styles, Readable
    <3>4. ASSUME Reading PROVE Reading'
      <4>1. PICK m \in Styles : \E at \in Layouts(text, table, m) :
              \E g \in Filterings(Seq(Text), table, NonBlank(table)) : ReadsIn(m, at, g)
        BY <3>4 DEF Reading
      <4>2. PICK at \in Layouts(text, table, m) :
              \E g \in Filterings(Seq(Text), table, NonBlank(table)) : ReadsIn(m, at, g)
        BY <4>1
      <4>3. PICK g \in Filterings(Seq(Text), table, NonBlank(table)) : ReadsIn(m, at, g)
        BY <4>2
      <4>4. ReadsIn(m, at, g)'
        BY <3>3, <4>3
      <4>5. Readable(table)'
        BY <2>1, <3>4 DEF Reading
      <4> QED
        BY <2>1, <4>4, <4>5 DEF Reading
    <3> QED
      BY <3>4
  <2>3. ParsesWritten => ParsesWritten'
    BY <2>1 DEF ParsesWritten
  <2> QED
    BY <2>1, <2>2, <2>3 DEF AsWritten
<1> QED
  BY <1>1, <1>3, <1>4, <1>5, <1>6, <1>7 DEF Next, Scans

\* The parser finds the rows that a program wrote by RFC 4180, whatever the
\* delimiter, the line ends and the quoting and whatever is in their fields,
\* when it can tell the columns by their names.
THEOREM RowsReadAsWritten ==
  ASSUME \A t \in Tables : Readable(t)
  PROVE  Spec => []ParsesWritten
<1>1. Init /\ Typed => AsWritten
  <2> SUFFICES ASSUME Init, Typed PROVE AsWritten
    OBVIOUS
  <2>1. Reading
    BY ReadingInit
  <2> HIDE DEF Reading
  <2> QED
    BY <2>1 DEF AsWritten, Init
<1>2. Typed /\ AsWritten /\ [Next]_vars => AsWritten'
  BY AsWrittenStep
<1>3. AsWritten => ParsesWritten
  BY DEF AsWritten, ParsesWritten
<1> QED
  BY <1>1, <1>2, <1>3, ImportTyped, PTL DEF Spec
=============================================================================
