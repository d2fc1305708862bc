------------------------------ MODULE ListFacts ------------------------------
(***************************************************************************)
(* Facts about the operators on lists and numbers the models are built     *)
(* from, cited by the proofs about them.                                   *)
(***************************************************************************)
EXTENDS ListOps, TLAPS, WellFoundedInduction, NaturalsInduction, FiniteSetTheorems

\* A set of naturals that is not empty has a least element: induction over the
\* naturals is by the least counterexample.
LEMMA LeastNat ==
    ASSUME NEW S, S \subseteq Nat, S # {}
    PROVE  \E n \in S : \A m \in S : n <= m
<1> DEFINE Less == {p \in Nat \X Nat : p[1] < p[2]}
<1>1. IsWellFoundedOn(Less, Nat)
  BY NatLessThanWellFounded, Zenon DEF OpToRel
<1> HIDE DEF Less
<1>2. PICK n \in S : \A m \in S : ~(<<m, n>> \in Less)
  BY <1>1, WFMin
<1>3. ASSUME NEW m \in S PROVE n <= m
  <2>1. m \in Nat /\ n \in Nat
    OBVIOUS
  <2>2. ASSUME m < n PROVE <<m, n>> \in Less
    BY <2>1, <2>2 DEF Less
  <2> QED
    BY <1>2, <2>1, <2>2
<1> QED
  BY <1>3

LEMMA GreatestNat ==
    ASSUME NEW n \in Nat, NEW S, S \subseteq 0 .. n, S # {}
    PROVE  Max(S) \in S /\ \A m \in S : m <= Max(S)
<1> DEFINE D == {d \in Nat : n - d \in S}
<1>1. D \subseteq Nat /\ D # {}
  <2>1. PICK m \in S : TRUE
    OBVIOUS
  <2>2. n - m \in D
    BY <2>1
  <2> QED
    BY <2>2
<1>2. PICK d \in D : \A e \in D : d <= e
  BY <1>1, LeastNat
<1>3. n - d \in S /\ \A m \in S : m <= n - d
  <2>1. \A m \in S : n - m \in D
    OBVIOUS
  <2> QED
    BY <1>2, <2>1
<1> QED
  BY <1>3 DEF Max

LEMMA MinNat ==
    ASSUME NEW S, S \subseteq Nat, S # {}
    PROVE  Min(S) \in S /\ \A m \in S : Min(S) <= m
BY LeastNat DEF Min

\* A new entry at the head of a list.
LEMMA PushFacts ==
    ASSUME NEW S, NEW seq \in Seq(S), NEW e \in S
    PROVE  /\ <<e>> \o seq \in Seq(S)
           /\ Len(<<e>> \o seq) = Len(seq) + 1
           /\ (<<e>> \o seq)[1] = e
           /\ \A i \in 2 .. Len(seq) + 1 : (<<e>> \o seq)[i] = seq[i - 1]
           /\ Range(<<e>> \o seq) = Range(seq) \cup {e}
<1> DEFINE l == <<e>> \o seq
<1>1. /\ l \in Seq(S) /\ Len(l) = Len(seq) + 1 /\ l[1] = e
      /\ \A i \in 2 .. Len(seq) + 1 : l[i] = seq[i - 1]
  OBVIOUS
<1> HIDE DEF l
<1>2. DOMAIN l = 1 .. Len(seq) + 1 /\ DOMAIN seq = 1 .. Len(seq)
  BY <1>1
<1>3. Range(l) \subseteq Range(seq) \cup {e}
  BY <1>1, <1>2 DEF Range
<1>4. ASSUME NEW x \in Range(seq) PROVE x \in Range(l)
  <2>1. PICK i \in 1 .. Len(seq) : x = seq[i]
    BY <1>2 DEF Range
  <2>2. i + 1 \in DOMAIN l /\ l[i + 1] = x
    BY <2>1, <1>1, <1>2
  <2> QED
    BY <2>2 DEF Range
<1>5. e \in Range(l)
  BY <1>1, <1>2 DEF Range
<1>6. Range(l) = Range(seq) \cup {e}
  BY <1>3, <1>4, <1>5
<1> QED
  BY <1>1, <1>6 DEF l

\* A new entry at its end.
LEMMA AppendRange ==
    ASSUME NEW S, NEW seq \in Seq(S), NEW e \in S
    PROVE  Range(Append(seq, e)) = Range(seq) \cup {e}
<1> DEFINE l == Append(seq, e)
<1>1. /\ DOMAIN l = 1 .. Len(seq) + 1 /\ l[Len(seq) + 1] = e
      /\ \A i \in 1 .. Len(seq) : l[i] = seq[i]
  OBVIOUS
<1> HIDE DEF l
<1>2. DOMAIN seq = 1 .. Len(seq) /\ Len(seq) \in Nat
  OBVIOUS
<1>3. \A i \in DOMAIN l : i = Len(seq) + 1 \/ i \in DOMAIN seq
  BY <1>1, <1>2
<1>4. DOMAIN seq \subseteq DOMAIN l /\ Len(seq) + 1 \in DOMAIN l
  BY <1>1, <1>2
<1>5. Range(l) = Range(seq) \cup {e}
  BY <1>1, <1>2, <1>3, <1>4 DEF Range
<1> QED
  BY <1>5 DEF l

\* Taking place i out of a list (txUnlink) leaves the others, in their order.
LEMMA RemoveAtFacts ==
    ASSUME NEW S, NEW seq \in Seq(S), NEW i \in 1 .. Len(seq)
    PROVE  /\ RemoveAt(seq, i) \in Seq(S)
           /\ Len(RemoveAt(seq, i)) = Len(seq) - 1
           /\ \A j \in 1 .. Len(seq) - 1 :
                 RemoveAt(seq, i)[j] = seq[IF j < i THEN j ELSE j + 1]
<1> DEFINE before == SubSeq(seq, 1, i - 1)
           after  == SubSeq(seq, i + 1, Len(seq))
<1>1. /\ before \in Seq(S)
      /\ Len(before) = i - 1
      /\ \A j \in 1 .. i - 1 : before[j] = seq[j]
  OBVIOUS
<1>2. /\ after \in Seq(S)
      /\ Len(after) = Len(seq) - i
      /\ \A j \in 1 .. Len(seq) - i : after[j] = seq[j + i]
  OBVIOUS
<1>3. RemoveAt(seq, i) = before \o after
  BY DEF RemoveAt
<1> HIDE DEF before, after
<1>4. /\ before \o after \in Seq(S)
      /\ Len(before \o after) = Len(seq) - 1
  BY <1>1, <1>2
<1>5. ASSUME NEW j \in 1 .. Len(seq) - 1
      PROVE  (before \o after)[j] = seq[IF j < i THEN j ELSE j + 1]
  <2>1. (before \o after)[j] = IF j <= Len(before) THEN before[j]
                               ELSE after[j - Len(before)]
    BY <1>1, <1>2
  <2>2. CASE j < i
    BY <2>1, <2>2, <1>1
  <2>3. CASE ~(j < i)
    <3>1. j - (i - 1) \in 1 .. Len(seq) - i
      BY <2>3
    <3>2. after[j - (i - 1)] = seq[j + 1]
      BY <3>1, <1>2
    <3> QED
      BY <2>1, <2>3, <3>2, <1>1
  <2> QED
    BY <2>2, <2>3
<1> QED
  BY <1>3, <1>4, <1>5

\* In a list without repetitions that takes out just that entry.
LEMMA RemoveAtRange ==
    ASSUME NEW S, NEW seq \in Seq(S), NEW i \in 1 .. Len(seq),
           \A j, k \in DOMAIN seq : seq[j] = seq[k] => j = k
    PROVE  /\ Range(RemoveAt(seq, i)) = Range(seq) \ {seq[i]}
           /\ \A j, k \in DOMAIN RemoveAt(seq, i) :
                 RemoveAt(seq, i)[j] = RemoveAt(seq, i)[k] => j = k
<1> DEFINE r == RemoveAt(seq, i)
<1>1. /\ r \in Seq(S) /\ Len(r) = Len(seq) - 1
      /\ \A j \in 1 .. Len(seq) - 1 : r[j] = seq[IF j < i THEN j ELSE j + 1]
  BY RemoveAtFacts
<1> HIDE DEF r
<1>2. DOMAIN r = 1 .. Len(seq) - 1 /\ DOMAIN seq = 1 .. Len(seq)
  BY <1>1
<1>3. ASSUME NEW j \in DOMAIN r PROVE r[j] \in Range(seq) /\ r[j] # seq[i]
  <2> DEFINE at == IF j < i THEN j ELSE j + 1
  <2>1. at \in DOMAIN seq /\ at # i /\ r[j] = seq[at]
    BY <1>1, <1>2
  <2> QED
    BY <2>1, <1>2 DEF Range
<1>4. ASSUME NEW k \in DOMAIN seq, k # i PROVE seq[k] \in Range(r)
  <2> DEFINE at == IF k < i THEN k ELSE k - 1
  <2>1. at \in DOMAIN r /\ r[at] = seq[k]
    BY <1>1, <1>2, <1>4
  <2> QED
    BY <2>1 DEF Range
<1>5. Range(r) = Range(seq) \ {seq[i]}
  BY <1>3, <1>4 DEF Range
<1>6. ASSUME NEW j \in DOMAIN r, NEW k \in DOMAIN r, r[j] = r[k] PROVE j = k
  BY <1>1, <1>2, <1>6
<1> QED
  BY <1>5, <1>6 DEF r

-----------------------------------------------------------------------------
(* Without. *)

\* f[i] is what the loop has left after place i, up to place n.
IsRest(f, n, seq, out) ==
    f = [i \in 0 .. n |-> IF i = 0 THEN <<>>
                          ELSE IF seq[i] \in out THEN f[i - 1]
                          ELSE Append(f[i - 1], seq[i])]

\* The recursion defines a function: else there is a least place it does not reach.
LEMMA RestExists ==
    ASSUME NEW S, NEW seq \in Seq(S), NEW out, NEW len \in Nat
    PROVE  \E f : IsRest(f, len, seq, out)
<1> DEFINE Bad == {n \in Nat : ~ \E f : IsRest(f, n, seq, out)}
<1>1. SUFFICES Bad = {}
  OBVIOUS
<1>2. SUFFICES ASSUME Bad # {} PROVE FALSE
  OBVIOUS
<1>3. PICK n \in Bad : \A m \in Bad : n <= m
  BY <1>2, LeastNat
<1>4. n # 0
  <2>1. IsRest([i \in 0 .. 0 |-> <<>>], 0, seq, out)
    BY DEF IsRest
  <2> QED
    BY <2>1
<1>5. n - 1 \in Nat /\ n - 1 \notin Bad
  BY <1>3, <1>4
<1>6. PICK g : IsRest(g, n - 1, seq, out)
  BY <1>5
<1> DEFINE last == IF seq[n] \in out THEN g[n - 1] ELSE Append(g[n - 1], seq[n])
           f == [i \in 0 .. n |-> IF i < n THEN g[i] ELSE last]
<1>7. \A i \in 0 .. n - 1 : g[i] = IF i = 0 THEN <<>>
                                   ELSE IF seq[i] \in out THEN g[i - 1]
                                   ELSE Append(g[i - 1], seq[i])
  BY <1>6 DEF IsRest
<1>8. \A i \in 0 .. n - 1 : f[i] = g[i]
  BY <1>5
<1>9. f[n] = last
  BY <1>5
<1>10. ASSUME NEW i \in 0 .. n
       PROVE  f[i] = IF i = 0 THEN <<>>
                     ELSE IF seq[i] \in out THEN f[i - 1]
                     ELSE Append(f[i - 1], seq[i])
  <2> HIDE DEF f
  <2>1. CASE i = n
    BY <1>4, <1>5, <1>8, <1>9, <2>1
  <2>2. CASE i # n
    <3>1. i \in 0 .. n - 1 /\ (i # 0 => i - 1 \in 0 .. n - 1)
      BY <1>5, <2>2
    <3>2. f[i] = g[i] /\ (i # 0 => f[i - 1] = g[i - 1])
      BY <1>8, <3>1
    <3> QED
      BY <1>7, <3>1, <3>2
  <2> QED
    BY <2>1, <2>2
<1>11. IsRest(f, n, seq, out)
  BY <1>10 DEF IsRest
<1> QED
  BY <1>3, <1>11

\* What the loop leaves: the entries not in the set, and no others.
LEMMA WithoutFacts ==
    ASSUME NEW S, NEW seq \in Seq(S), NEW out
    PROVE  /\ Without(seq, out) \in Seq(S)
           /\ Range(Without(seq, out)) = Range(seq) \ out
           /\ Len(Without(seq, out)) <= Len(seq)
<1>1. \E f : IsRest(f, Len(seq), seq, out)
  BY RestExists
<1>2. PICK f : IsRest(f, Len(seq), seq, out) /\ Without(seq, out) = f[Len(seq)]
  BY <1>1, Zenon DEF Without, IsRest
<1>3. \A i \in 0 .. Len(seq) : f[i] = IF i = 0 THEN <<>>
                                      ELSE IF seq[i] \in out THEN f[i - 1]
                                      ELSE Append(f[i - 1], seq[i])
  BY <1>2 DEF IsRest
<1> DEFINE Good(i) == /\ f[i] \in Seq(S) /\ Len(f[i]) <= i
                      /\ Range(f[i]) = {seq[j] : j \in 1 .. i} \ out
           Bad == {i \in 0 .. Len(seq) : ~Good(i)}
<1>4. Bad = {}
  <2>1. SUFFICES ASSUME Bad # {} PROVE FALSE
    OBVIOUS
  <2> HIDE DEF Good
  <2>2. PICK n \in Bad : \A m \in Bad : n <= m
    <3>1. Bad \subseteq Nat
      OBVIOUS
    <3> QED
      BY <2>1, <3>1, LeastNat
  <2>3. n # 0
    <3>1. f[0] = <<>>
      BY <1>3
    <3>2. Good(0)
      BY <3>1 DEF Range, Good
    <3> QED
      BY <3>2
  <2>4. n - 1 \in 0 .. Len(seq) /\ Good(n - 1)
    <3>1. n - 1 \in 0 .. Len(seq) /\ n - 1 \notin Bad
      BY <2>2, <2>3
    <3> QED
      BY <3>1
  <2>5. seq[n] \in S /\ n \in 1 .. Len(seq)
    BY <2>3
  <2>6. {seq[j] : j \in 1 .. n} = {seq[j] : j \in 1 .. n - 1} \cup {seq[n]}
    BY <2>5
  <2>7. CASE seq[n] \in out
    BY <1>3, <2>3, <2>4, <2>5, <2>6, <2>7 DEF Good
  <2>8. CASE seq[n] \notin out
    <3> DEFINE g == f[n - 1]
    <3>1. f[n] = Append(g, seq[n]) /\ g \in Seq(S)
      BY <1>3, <2>3, <2>4, <2>8 DEF Good
    <3> HIDE DEF g
    <3>2. f[n] \in Seq(S) /\ Len(f[n]) = Len(g) + 1
      BY <2>5, <3>1
    <3>3. Range(f[n]) = Range(g) \cup {seq[n]}
      BY <3>1, <2>5, AppendRange
    <3> QED
      BY <2>4, <2>5, <2>6, <2>8, <3>2, <3>3 DEF g, Good
  <2> QED
    BY <2>7, <2>8
<1>5. Good(Len(seq))
  <2> HIDE DEF Good
  <2>1. Len(seq) \in 0 .. Len(seq)
    OBVIOUS
  <2> QED
    BY <1>4, <2>1
<1>6. Range(seq) = {seq[j] : j \in 1 .. Len(seq)}
  BY DEF Range
<1> QED
  BY <1>2, <1>5, <1>6

-----------------------------------------------------------------------------
(* How often an entry is on a list. *)

LEMMA TimesFacts ==
    ASSUME NEW E, NEW list \in Seq(E), NEW b
    PROVE  Times(list, b) \in Nat /\ (Times(list, b) = 0 <=> b \notin ToSet(list))
<1> DEFINE places == {i \in DOMAIN list : list[i] = b}
<1>1. IsFiniteSet(1 .. Len(list)) /\ DOMAIN list = 1 .. Len(list)
  BY FS_Interval
<1>2. IsFiniteSet(places)
  BY <1>1, FS_Subset
<1>3. Cardinality(places) \in Nat /\ (Cardinality(places) = 0 <=> places = {})
  BY <1>2, FS_CardinalityType, FS_EmptySet
<1>4. places = {} <=> b \notin ToSet(list)
  BY DEF ToSet
<1> QED
  BY <1>3, <1>4 DEF Times

LEMMA TimesEmpty == \A b : Times(<<>>, b) = 0
BY FS_EmptySet DEF Times

LEMMA TimesAppend ==
    ASSUME NEW E, NEW list \in Seq(E), NEW a \in E, NEW b
    PROVE  Times(Append(list, a), b) = Times(list, b) + (IF a = b THEN 1 ELSE 0)
<1> DEFINE n == Len(list) + 1
           longer == Append(list, a)
           was == {i \in DOMAIN list : list[i] = b}
           is  == {i \in DOMAIN longer : longer[i] = b}
<1>1. /\ n \in Nat \ {0} /\ DOMAIN list = 1 .. n - 1 /\ DOMAIN longer = 1 .. n
      /\ longer[n] = a /\ \A i \in 1 .. n - 1 : longer[i] = list[i]
  OBVIOUS
<1>2. n - 1 \in Int /\ 1 \in Int
  BY <1>1
<1>3. IsFiniteSet(was)
  <2>1. IsFiniteSet(1 .. n - 1)
    BY <1>2, FS_Interval
  <2>2. was \subseteq 1 .. n - 1
    BY <1>1
  <2> QED
    BY <2>1, <2>2, FS_Subset
<1>4. Times(longer, b) = Cardinality(is) /\ Times(list, b) = Cardinality(was)
  BY DEF Times
<1>5. Cardinality(was) \in Nat
  BY <1>3, FS_CardinalityType
<1>6. \A i \in 1 .. n : i \in is <=> (i \in was \/ (i = n /\ a = b))
  <2> HIDE DEF n, longer
  <2> TAKE i \in 1 .. n
  <2>1. CASE i = n
    <3>1. i \in DOMAIN longer /\ i \notin DOMAIN list
      BY <1>1, <2>1
    <3> QED
      BY <1>1, <2>1, <3>1
  <2>2. CASE i # n
    <3>1. i \in 1 .. n - 1
      BY <1>1, <2>2
    <3> QED
      BY <1>1, <2>2, <3>1
  <2> QED
    BY <2>1, <2>2
<1>7. was \subseteq 1 .. n /\ is \subseteq 1 .. n /\ n \notin was /\ n \in 1 .. n
  <2>1. was \subseteq DOMAIN list /\ is \subseteq DOMAIN longer
    OBVIOUS
  <2> HIDE DEF n, longer, was, is
  <2> QED
    BY <1>1, <2>1
<1> HIDE DEF n, longer, was, is
<1>8. CASE a = b
  <2>1. is = was \cup {n}
    BY <1>6, <1>7, <1>8
  <2>2. Cardinality(is) = Cardinality(was) + 1
    BY <1>3, <1>7, <2>1, FS_AddElement
  <2> QED
    BY <1>4, <1>8, <2>2 DEF longer
<1>9. CASE a # b
  <2>1. is = was
    BY <1>6, <1>7, <1>9
  <2> QED
    BY <1>4, <1>5, <1>9, <2>1 DEF longer
<1> QED
  BY <1>8, <1>9

\* A list without repetitions, of entries that are not in set S, joins it.
LEMMA TimesJoin ==
    ASSUME NEW E, NEW list \in Seq(E), NEW b, NEW S,
           (IF b \in S THEN 1 ELSE 0) + Times(list, b) <= 1
    PROVE  (IF b \in S \cup ToSet(list) THEN 1 ELSE 0)
              = (IF b \in S THEN 1 ELSE 0) + Times(list, b)
BY TimesFacts

=============================================================================
