---------------------------- MODULE CodecsProofs ----------------------------
(***************************************************************************)
(* What every behavior of FrameStream satisfies, for any stream, however   *)
(* its bytes are cut into pieces, and for any bound on a frame and on the  *)
(* lines of stderr that are kept; and what the conversions of Codecs do    *)
(* with everything they can be given, for any set of samples.              *)
(***************************************************************************)
EXTENDS Codecs, FiniteSetTheorems, SequenceTheorems, WellFoundedInduction, TLAPS

Bytes == Seq(STRING)

(***************************************************************************)
(* Counting the lines of a stream                                          *)
(***************************************************************************)
LEMMA UptoOrder ==
  ASSUME NEW I \in SUBSET Nat, IsFiniteSet(I)
  PROVE  /\ \A i : Upto(I, i) \in Nat /\ IsFiniteSet({k \in I : k <= i})
         /\ \A i, j \in I : i < j => Upto(I, i) < Upto(I, j)
         /\ \A i, j \in I : Upto(I, i) = Upto(I, j) => i = j
PROOF
<1> DEFINE low(i) == {k \in I : k <= i}
<1>1. \A i : IsFiniteSet(low(i)) /\ Cardinality(low(i)) \in Nat
  BY FS_Subset, FS_CardinalityType
<1>2. ASSUME NEW i \in I, NEW j \in I, i < j PROVE Upto(I, i) < Upto(I, j)
  <2>1. i \in Nat /\ j \in Nat
    OBVIOUS
  <2>2. \A k \in I : k <= i => k <= j
    BY <1>2, <2>1
  <2>3. low(i) \in SUBSET low(j)
    BY <2>2
  <2>4. j \in low(j) /\ j \notin low(i)
    BY <1>2, <2>1
  <2>5. Cardinality(low(i)) <= Cardinality(low(j)) /\ Cardinality(low(i)) # Cardinality(low(j))
    BY <1>1, <2>3, <2>4, FS_Subset
  <2> QED BY <1>1, <2>5 DEF Upto
<1>3. \A i, j \in I : Upto(I, i) = Upto(I, j) => i = j
  <2> TAKE i, j \in I
  <2>1. i \in Nat /\ j \in Nat /\ Upto(I, i) \in Nat /\ Upto(I, j) \in Nat
    BY <1>1 DEF Upto
  <2> QED BY <1>2, <2>1
<1> QED BY <1>1, <1>2, <1>3 DEF Upto

LEMMA LatestIs ==
  ASSUME NEW I \in SUBSET Nat, NEW x \in Nat,
         (x = 0 /\ I = {}) \/ (x \in I /\ \A j \in I : j <= x)
  PROVE  Latest(I) = x
PROOF
<1>1. CASE I = {}
  BY <1>1 DEF Latest
<1>2. CASE I # {}
  <2>1. \A k \in I : (\A j \in I : j <= k) => k = x
    BY <1>2
  <2> QED BY <1>2, <2>1 DEF Latest
<1> QED BY <1>1, <1>2

LEMMA EndsType ==
  ASSUME NEW s \in Bytes
  PROVE  /\ Ends(s) \in SUBSET (1..Len(s)) /\ Ends(s) \in SUBSET Nat /\ IsFiniteSet(Ends(s))
         /\ Len(s) \in Nat /\ Cardinality(Ends(s)) \in Nat
PROOF
<1>1. Len(s) \in Nat /\ DOMAIN s = 1..Len(s)
  BY DEF Bytes
<1>2. IsFiniteSet(1..Len(s))
  BY <1>1, FS_Interval
<1> QED BY <1>1, <1>2, FS_Subset, FS_CardinalityType DEF Ends

\* The line between the end b of one line, or the start, and the next end e.
LEMMA LineIs ==
  ASSUME NEW s \in Bytes, NEW b \in Nat, NEW e \in Ends(s), b < e, b = 0 \/ b \in Ends(s),
         \A k \in Ends(s) : k <= b \/ k >= e
  PROVE  /\ Upto(Ends(s), e) = Upto(Ends(s), b) + 1
         /\ LineAt(s, Upto(Ends(s), b) + 1) = SubSeq(s, b + 1, e - 1)
PROOF
<1> DEFINE E    == Ends(s)
           n    == Upto(E, b)
           old  == {k \in E : k <= b}
           end  == CHOOSE i \in E : Upto(E, i) = n + 1
           prev == {k \in E : k < end}
<1>1. E \in SUBSET Nat /\ IsFiniteSet(E)
  BY EndsType
<1>2. IsFiniteSet(old) /\ n = Cardinality(old) /\ n \in Nat
  BY <1>1, UptoOrder DEF Upto
<1>3. {k \in E : k <= e} = old \cup {e} /\ e \notin old
  BY <1>1
<1>4. Upto(E, e) = n + 1
  BY <1>2, <1>3, FS_AddElement DEF Upto
<1>5. end = e
  <2>1. \A i \in E : Upto(E, i) = n + 1 => i = e
    BY <1>1, <1>4, UptoOrder
  <2> QED BY <1>4, <2>1
<1>6. prev = old
  <2> HIDE DEF end
  <2> QED BY <1>1, <1>5
<1>7. Latest(old) = b
  <2>1. (b = 0 /\ old = {}) \/ (b \in old /\ \A j \in old : j <= b)
    <3>1. CASE b \in E
      BY <1>1, <3>1
    <3>2. CASE b = 0 /\ b \notin E
      BY <1>1, <3>2
    <3> QED BY <3>1, <3>2
  <2>2. old \in SUBSET Nat
    BY <1>1
  <2> QED BY <2>1, <2>2, LatestIs
<1>8. LineAt(s, n + 1) = SubSeq(s, Latest(prev) + 1, end - 1)
  BY DEF LineAt
<1> QED BY <1>4, <1>5, <1>6, <1>7, <1>8

LEMMA LeastNumber ==
  ASSUME NEW T \in SUBSET Nat, T # {}
  PROVE  \E n \in T : \A m \in T : n <= m
PROOF
<1> DEFINE R == OpToRel(<, Nat)
<1>1. \A x, y \in Nat : <<x, y>> \in R <=> x < y
  BY DEF OpToRel
<1>2. IsWellFoundedOn(R, Nat)
  BY NatLessThanWellFounded
<1> HIDE DEF R
<1>3. \E n \in T : \A m \in T : <<m, n>> \notin R
  BY <1>2, WFMin
<1>4. PICK n \in T : \A m \in T : <<m, n>> \notin R
  BY <1>3
<1>5. ASSUME NEW m \in T PROVE n <= m
  <2>1. m \in Nat /\ n \in Nat /\ <<m, n>> \notin R
    BY <1>4
  <2>2. ~ (m < n)
    BY <1>1, <2>1
  <2> QED BY <2>1, <2>2
<1> QED BY <1>5

(***************************************************************************)
(* Lines and frames                                                        *)
(***************************************************************************)
Frames == [tag : Bytes, value : Bytes]
\* What decode_line looks at, with its carriage return gone.
BodyOfLine(l) == IF l # <<>> /\ Last(l) = CR THEN Front(l) ELSE l

LEMMA BodyOfFrame ==
  ASSUME NEW l \in Bytes
  PROVE  /\ BodyOfLine(l) \in Bytes /\ Len(BodyOfLine(l)) \in Nat /\ Len(l) \in Nat
         /\ l = BodyOfLine(l) \o <<CR>> \/ (l = BodyOfLine(l) /\ (l # <<>> => Last(l) # CR))
PROOF
<1>1. CASE l # <<>> /\ Last(l) = CR
  <2>1. Len(l) \in 1..Len(l) /\ 1 \in 1..Len(l) /\ Len(l) \in Nat
    BY <1>1 DEF Bytes
  <2>2. SubSeq(l, 1, Len(l)) = SubSeq(l, 1, Len(l) - 1) \o <<l[Len(l)]>>
    BY <2>1, SubSeqRecursiveSecond DEF Bytes
  <2>3. SubSeq(l, 1, Len(l)) = l
    BY SubSeqFull DEF Bytes
  <2>4. BodyOfLine(l) = SubSeq(l, 1, Len(l) - 1) /\ l[Len(l)] = CR
    BY <1>1 DEF BodyOfLine, Front, Last
  <2>5. SubSeq(l, 1, Len(l) - 1) \in Bytes
    BY <2>1 DEF Bytes
  <2>6. l = BodyOfLine(l) \o <<CR>>
    BY <2>2, <2>3, <2>4
  <2>7. BodyOfLine(l) \in Bytes /\ Len(BodyOfLine(l)) \in Nat
    BY <2>4, <2>5 DEF Bytes
  <2> QED BY <2>1, <2>6, <2>7
<1>2. CASE ~ (l # <<>> /\ Last(l) = CR)
  BY <1>2 DEF BodyOfLine, Bytes
<1> QED BY <1>1, <1>2

LEMMA Halves ==
  ASSUME NEW m \in Bytes, Len(m) >= 2
  PROVE  /\ SubSeq(m, 1, 2) \in Bytes /\ SubSeq(m, 3, Len(m)) \in Bytes
         /\ Len(SubSeq(m, 1, 2)) = 2 /\ Len(SubSeq(m, 3, Len(m))) = Len(m) - 2
         /\ SubSeq(m, 1, 2) \o SubSeq(m, 3, Len(m)) = m
PROOF
<1>1. Len(m) \in Nat
  BY DEF Bytes
<1>2. 1 \in 1..(Len(m) + 1) /\ 2 \in (1 - 1)..Len(m) /\ Len(m) \in 2..Len(m)
  BY <1>1
<1>3. SubSeq(m, 1, 2) \o SubSeq(m, 2 + 1, Len(m)) = SubSeq(m, 1, Len(m))
  BY <1>2, ConcatAdjacentSubSeq DEF Bytes
<1>4. SubSeq(m, 1, Len(m)) = m
  BY SubSeqFull DEF Bytes
<1>5. SubSeq(m, 1, 2) \in Bytes /\ Len(SubSeq(m, 1, 2)) = 2
  <2>1. \A i \in 1..2 : m[i] \in STRING
    BY <1>1 DEF Bytes
  <2> QED BY <2>1, SubSeqProperties DEF Bytes
<1>6. SubSeq(m, 3, Len(m)) \in Bytes /\ Len(SubSeq(m, 3, Len(m))) = Len(m) - 2
  <2> DEFINE n == Len(m)
  <2>1. \A i \in 3..n : m[i] \in STRING
    BY <1>1 DEF Bytes
  <2>2. n \in Nat /\ n >= 2
    BY <1>1
  <2> HIDE DEF n
  <2>3. SubSeq(m, 3, n) \in Seq(STRING) /\ Len(SubSeq(m, 3, n)) = IF 3 <= n THEN n - 3 + 1 ELSE 0
    BY <2>1, <2>2, SubSeqProperties
  <2>4. Len(SubSeq(m, 3, n)) = n - 2
    BY <2>2, <2>3
  <2> QED BY <2>3, <2>4 DEF Bytes, n
<1> QED BY <1>3, <1>4, <1>5, <1>6

LEMMA DecodeBody ==
  ASSUME NEW l \in Bytes
  PROVE  DecodeLine(l) =
           LET m == BodyOfLine(l)
               rest == SubSeq(m, 3, Len(m))
           IN  IF Len(m) >= 2 /\ IsTag(SubSeq(m, 1, 2)) /\ BadUTF8 \notin ToSet(rest) /\ IsValue(rest)
               THEN [tag |-> SubSeq(m, 1, 2), value |-> rest]
               ELSE Malformed
PROOF BY DEF DecodeLine, BodyOfLine

\* decode_line gives the frame that the line carries ...
LEMMA FrameDecoded ==
  ASSUME NEW l \in Bytes, DecodeLine(l) # Malformed, Len(l) + 1 <= MaxFrame
  PROVE  DecodeLine(l) \in Frames /\ Carries(l, DecodeLine(l))
PROOF
<1> DEFINE m == BodyOfLine(l)
           rest == SubSeq(m, 3, Len(m))
           tag == SubSeq(m, 1, 2)
<1>1. /\ DecodeLine(l) = [tag |-> tag, value |-> rest]
      /\ Len(m) >= 2 /\ IsTag(tag) /\ BadUTF8 \notin ToSet(rest) /\ IsValue(rest)
  BY DecodeBody
<1>2. /\ m \in Bytes /\ Len(l) \in Nat
      /\ l = m \o <<CR>> \/ (l = m /\ (l # <<>> => Last(l) # CR))
  BY BodyOfFrame
<1>3. tag \in Bytes /\ rest \in Bytes /\ tag \o rest = m
  BY <1>1, <1>2, Halves
<1>4. l = tag \o rest \o <<CR>> \/ (l = tag \o rest /\ Last(l) # CR)
  <2>1. m # <<>>
    BY <1>1, <1>2
  <2> HIDE DEF m, tag, rest
  <2> QED BY <1>2, <1>3, <2>1
<1> HIDE DEF m, tag, rest
<1> QED BY <1>1, <1>3, <1>4 DEF Carries, Frames

\* ... and refuses a line that carries none.
LEMMA Refused ==
  ASSUME NEW l \in Bytes, DecodeLine(l) = Malformed, NEW f \in Candidates(l)
  PROVE  ~Carries(l, f)
PROOF
<1> SUFFICES ASSUME Carries(l, f) PROVE FALSE
  OBVIOUS
<1>1. PICK n \in {Len(l) - 1, Len(l)} :
        n >= 2 /\ f = [tag |-> SubSeq(l, 1, 2), value |-> SubSeq(l, 3, n)]
  BY DEF Candidates
<1>2. Len(l) \in Nat /\ n \in Nat /\ n <= Len(l)
  BY <1>1 DEF Bytes
<1> DEFINE tag == SubSeq(l, 1, 2)
           value == SubSeq(l, 3, n)
           m == BodyOfLine(l)
<1>3. tag \in Bytes /\ Len(tag) = 2 /\ value \in Bytes /\ Len(value) = n - 2
  BY <1>1, <1>2 DEF Bytes
<1>4. /\ l = tag \o value \o <<CR>> \/ (l = tag \o value /\ Last(l) # CR)
      /\ IsTag(tag) /\ IsValue(value) /\ BadUTF8 \notin ToSet(value)
  BY <1>1 DEF Carries
<1>5. m = tag \o value
  <2>1. tag \o value \in Bytes
    BY <1>3 DEF Bytes
  <2> DEFINE t == tag \o value
  <2>2. CASE l = t \o <<CR>>
    <3>1. /\ Len(l) = Len(t) + 1 /\ Last(l) = CR /\ l # <<>>
          /\ SubSeq(l, 1, Len(l) - 1) = SubSeq(t \o <<CR>>, 1, Len(t))
      <4> HIDE DEF t
      <4> QED BY <2>1, <2>2 DEF Bytes, Last, t
    <3>2. SubSeq(t \o <<CR>>, 1, Len(t)) = t
      <4>1. SubSeq(t, 1, Len(t)) = t
        BY <2>1, SubSeqFull DEF Bytes
      <4>2. 1 \in 1..Len(t) /\ Len(t) \in 1..Len(t)
        BY <1>2, <1>3, <1>1 DEF Bytes
      <4> DEFINE S == STRING \cup {CR}
      <4>3. <<CR>> \in Seq(S) /\ t \in Seq(S)
        <5>1. t \in Seq(S)
          BY <2>1, SeqMonotonic DEF Bytes
        <5>2. CR \in S
          OBVIOUS
        <5> HIDE DEF S, t
        <5> QED BY <5>1, <5>2
      <4> HIDE DEF S, t
      <4> QED BY <4>1, <4>2, <4>3, SubSeqOfConcat1
    <3> QED BY <3>1, <3>2 DEF BodyOfLine, Front
  <2>3. CASE l = t /\ Last(l) # CR
    BY <2>3 DEF BodyOfLine
  <2> QED BY <1>4, <2>2, <2>3
<1>6. /\ Len(m) >= 2 /\ SubSeq(m, 1, 2) = tag /\ SubSeq(m, 3, Len(m)) = value
  <2>1. m \in Bytes /\ Len(m) = n
    BY <1>1, <1>2, <1>3, <1>5 DEF Bytes
  <2> HIDE DEF tag, value, m
  <2>2. /\ \A i \in 1..2 : m[i] = tag[i]
        /\ \A i \in 1..(n - 2) : m[i + 2] = value[i]
    BY <1>3, <1>5, <2>1 DEF Bytes
  <2>3. SubSeq(m, 1, 2) \in Bytes /\ Len(SubSeq(m, 1, 2)) = 2 /\ \A i \in 1..2 : SubSeq(m, 1, 2)[i] = m[i]
    BY <1>1, <1>2, <2>1 DEF Bytes
  <2>4. SubSeq(m, 1, 2) = tag
    BY <1>3, <2>2, <2>3, SeqEqual DEF Bytes
  <2>5. /\ SubSeq(m, 3, n) \in Bytes /\ Len(SubSeq(m, 3, n)) = n - 2
        /\ \A i \in 1..(n - 2) : SubSeq(m, 3, n)[i] = m[i + 2]
    BY <1>1, <1>2, <2>1 DEF Bytes
  <2>6. SubSeq(m, 3, n) = value
    BY <1>3, <2>2, <2>5, SeqEqual DEF Bytes
  <2> QED BY <1>1, <2>1, <2>4, <2>6
<1>7. DecodeLine(l) = [tag |-> tag, value |-> value]
  BY <1>4, <1>6, DecodeBody
<1>8. DecodeLine(l).tag = tag /\ Malformed.tag = <<>>
  BY <1>7 DEF Malformed
<1> QED BY <1>3, <1>8

LEMMA LastEnd ==
  ASSUME NEW s \in Bytes, NEW b \in Nat
  PROVE  /\ Upto(Ends(s), b) \in Nat /\ Upto(Ends(s), b) <= Cardinality(Ends(s))
         /\ (\A k \in Ends(s) : k <= b) <=> Upto(Ends(s), b) = Cardinality(Ends(s))
PROOF
<1> DEFINE E   == Ends(s)
           old == {k \in E : k <= b}
<1>1. E \in SUBSET Nat /\ IsFiniteSet(E)
  BY EndsType
<1>2. old \in SUBSET E
  OBVIOUS
<1>3. /\ IsFiniteSet(old) /\ Cardinality(old) <= Cardinality(E)
      /\ Cardinality(old) = Cardinality(E) => old = E
  BY <1>1, <1>2, FS_Subset
<1>4. Cardinality(old) \in Nat
  BY <1>3, FS_CardinalityType
<1>5. (\A k \in E : k <= b) <=> old = E
  OBVIOUS
<1> QED BY <1>3, <1>4, <1>5 DEF Upto

\* The first end after b, if there is one.
LEMMA NextEnd ==
  ASSUME NEW s \in Bytes, NEW b \in Nat, Upto(Ends(s), b) # Cardinality(Ends(s))
  PROVE  \E e \in Ends(s) : b < e /\ \A k \in Ends(s) : k <= b \/ k >= e
PROOF
<1> DEFINE T == {k \in Ends(s) : b < k}
<1>1. Ends(s) \in SUBSET Nat
  BY EndsType
<1>2. T # {}
  <2>1. PICK k \in Ends(s) : ~ (k <= b)
    BY LastEnd
  <2> QED BY <1>1, <2>1
<1>3. PICK e \in T : \A m \in T : e <= m
  BY <1>1, <1>2, LeastNumber
<1>4. ASSUME NEW k \in Ends(s) PROVE k <= b \/ k >= e
  BY <1>1, <1>3, <1>4
<1> QED BY <1>3, <1>4

(***************************************************************************)
(* Pieces of a stream                                                      *)
(***************************************************************************)
\* t is what stands in s after the place p.
Piece(s, p, t) ==
  p \in Nat /\ p + Len(t) <= Len(s) /\ \A i \in 1..Len(t) : t[i] = s[p + i]

LEMMA PieceIs ==
  ASSUME NEW s \in Bytes, NEW t \in Bytes, NEW p, Piece(s, p, t)
  PROVE  t = SubSeq(s, p + 1, p + Len(t))
PROOF
<1> DEFINE n == Len(t)
           m == Len(s)
<1>1. n \in Nat /\ m \in Nat /\ p \in Nat /\ p + n <= m /\ \A i \in 1..n : t[i] = s[p + i]
  BY DEF Bytes, Piece
<1>2. \A i \in 1..m : s[i] \in STRING
  BY DEF Bytes
<1> HIDE DEF n, m
<1>3. \A i \in (p + 1)..(p + n) : s[i] \in STRING
  BY <1>1, <1>2
<1> DEFINE u == SubSeq(s, p + 1, p + n)
<1>4. /\ u \in Seq(STRING)
      /\ Len(u) = IF p + 1 <= p + n THEN (p + n) - (p + 1) + 1 ELSE 0
      /\ \A i \in 1..((p + n) - (p + 1) + 1) : u[i] = s[(p + 1) + i - 1]
  BY <1>1, <1>3, SubSeqProperties
<1> HIDE DEF u
<1>5. Len(u) = n /\ \A i \in 1..n : u[i] = t[i]
  BY <1>1, <1>4
<1>6. u = t
  BY <1>4, <1>5, SeqEqual DEF Bytes, n
<1> QED BY <1>6 DEF u, n

LEMMA Cut ==
  ASSUME NEW s \in Bytes, NEW t \in Bytes, NEW p, Piece(s, p, t), NEW n \in 0..Len(t)
  PROVE  /\ SubSeq(t, 1, n) \in Bytes /\ Len(SubSeq(t, 1, n)) = n /\ Piece(s, p, SubSeq(t, 1, n))
         /\ \A i \in 1..n : SubSeq(t, 1, n)[i] = t[i]
         /\ SubSeq(t, n + 1, Len(t)) \in Bytes /\ Len(SubSeq(t, n + 1, Len(t))) = Len(t) - n
         /\ Piece(s, p + n, SubSeq(t, n + 1, Len(t)))
PROOF
<1> DEFINE k == Len(t)
           m == Len(s)
<1>1. /\ n \in Nat /\ k \in Nat /\ n <= k /\ m \in Nat /\ p \in Nat /\ p + k <= m
      /\ \A i \in 1..k : t[i] = s[p + i] /\ t[i] \in STRING
  BY DEF Bytes, Piece
<1> HIDE DEF k, m
<1> DEFINE a == SubSeq(t, 1, n)
           b == SubSeq(t, n + 1, k)
<1>2. /\ a \in Seq(STRING) /\ Len(a) = IF 1 <= n THEN n - 1 + 1 ELSE 0
      /\ \A i \in 1..(n - 1 + 1) : a[i] = t[1 + i - 1]
  <2>1. \A i \in 1..n : t[i] \in STRING
    BY <1>1
  <2> QED BY <1>1, <2>1, SubSeqProperties
<1>3. /\ b \in Seq(STRING) /\ Len(b) = IF n + 1 <= k THEN k - (n + 1) + 1 ELSE 0
      /\ \A i \in 1..(k - (n + 1) + 1) : b[i] = t[(n + 1) + i - 1]
  <2>1. \A i \in (n + 1)..k : t[i] \in STRING
    BY <1>1
  <2> QED BY <1>1, <2>1, SubSeqProperties
<1> HIDE DEF a, b
<1>4. Len(a) = n /\ Len(b) = k - n
  BY <1>1, <1>2, <1>3
<1>5. \A i \in 1..n : a[i] = t[i] /\ a[i] = s[p + i]
  BY <1>1, <1>2
<1>6. \A i \in 1..(k - n) : b[i] = s[(p + n) + i]
  <2> TAKE i \in 1..(k - n)
  <2>1. n + i \in 1..k /\ b[i] = t[n + i] /\ p + (n + i) = (p + n) + i
    BY <1>1, <1>3
  <2> QED BY <1>1, <2>1
<1>7. Piece(s, p, a) /\ Piece(s, p + n, b)
  BY <1>1, <1>4, <1>5, <1>6 DEF Piece, m
<1> QED BY <1>2, <1>3, <1>4, <1>5, <1>7 DEF Bytes, a, b, k

LEMMA CutJoined ==
  ASSUME NEW s \in Bytes, NEW t \in Bytes, NEW u \in Bytes, NEW p,
         Piece(s, p, t), Piece(s, p + Len(t), u),
         \A i \in 1..Len(t) : t[i] # LF, \A i \in 1..Len(u) : u[i] # LF
  PROVE  /\ t \o u \in Bytes /\ Len(t \o u) = Len(t) + Len(u) /\ Piece(s, p, t \o u)
         /\ \A i \in 1..Len(t \o u) : (t \o u)[i] # LF
PROOF
<1> DEFINE n == Len(t)
           k == Len(u)
           v == t \o u
<1>1. v \in Bytes /\ Len(v) = n + k /\ n \in Nat /\ k \in Nat /\ p \in Nat /\ Len(s) \in Nat
  BY DEF Bytes, Piece
<1>2. \A i \in 1..(n + k) : v[i] = IF i <= n THEN t[i] ELSE u[i - n]
  BY DEF Bytes
<1>3. /\ \A i \in 1..n : t[i] = s[p + i] /\ t[i] # LF
      /\ \A i \in 1..k : u[i] = s[(p + n) + i] /\ u[i] # LF
      /\ (p + n) + k <= Len(s)
  BY DEF Piece
<1> HIDE DEF n, k, v
<1>4. \A i \in 1..(n + k) : v[i] = s[p + i] /\ v[i] # LF
  <2> TAKE i \in 1..(n + k)
  <2>1. CASE i <= n
    BY <1>1, <1>2, <1>3, <2>1
  <2>2. CASE ~ (i <= n)
    <3>1. i - n \in 1..k /\ (p + n) + (i - n) = p + i /\ v[i] = u[i - n]
      BY <1>1, <1>2, <2>2
    <3> QED BY <1>3, <3>1
  <2> QED BY <2>1, <2>2
<1>5. Piece(s, p, v)
  BY <1>1, <1>3, <1>4 DEF Piece
<1> QED BY <1>1, <1>4, <1>5 DEF n, k, v

(***************************************************************************)
(* What the window was told                                                *)
(***************************************************************************)
Endings == [on : {"core-status"}, why : {"closed", "ReadError", "ConnectionClosed"},
            quote : {None} \cup Range(Complaints), more : Nat]
Events == {EventOf(f) : f \in Frames} \cup Endings

ShownIn(ev) == {i \in DOMAIN ev : ev[i].on # "core-status"}
StatusesIn(ev) == DOMAIN ev \ ShownIn(ev)

\* An event says which frame it is about: dispatch_frame loses nothing.
LEMMA EventIsFrame ==
  ASSUME NEW f \in Frames, IsTag(f.tag), IsValue(f.value)
  PROVE  EventOf(f).on # "core-status" /\ FrameOf(EventOf(f)) = f
PROOF
<1> DEFINE j == Json(f.value)
           Whole(e) == e.on = "tlv-frame" /\ e.tag = f.tag /\ e.value = f.value
<1>1. f = [tag |-> f.tag, value |-> f.value] /\ f.value \in Bytes
  BY DEF Frames
<1>2. \A e : Whole(e) => e.on # "core-status" /\ FrameOf(e) = f
  BY <1>1 DEF FrameOf
<1>3. Whole(Raw(f)) /\ Whole(Call(f)) /\ Whole(Output(f)) /\ Whole(System(f)) /\ Whole(Content(f))
  BY DEF Raw, Call, Output, System, Content, Event
<1>4. Delta(f).on # "core-status" /\ FrameOf(Delta(f)) = f
  <2>1. CASE TypeOf(j) \notin {None, NoText}
    <3>1. j # None
      BY <2>1 DEF TypeOf, None, NoText
    <3>2. Len(f.value) = 2 /\ f.value[2] = j
      BY <3>1 DEF Json
    <3> DEFINE v == f.value
    <3>3. v # <<>> /\ v \in Seq(STRING) /\ Len(v) = 2
      BY <1>1, <3>2 DEF Bytes
    <3>a. v[1] = "{" /\ v[2] = j
      BY <3>2, <3>3 DEF IsValue
    <3>4. <<"{", j>> = v
      <4> HIDE DEF j, v
      <4>1. v = <<v[1], v[2]>>
        BY <3>3
      <4> QED BY <3>a, <4>1
    <3>5. Delta(f) = Event("tlv-delta", [f EXCEPT !.value = <<>>], None, j, IdOf(j), TypeOf(j))
      BY <2>1 DEF Delta
    <3>6. /\ Delta(f).on = "tlv-delta" /\ Delta(f).content = j
          /\ Delta(f).tag = f.tag
      <4> HIDE DEF j
      <4> QED BY <1>1, <3>5 DEF Event
    <3> QED BY <1>1, <3>4, <3>6 DEF FrameOf
  <2>2. CASE ~ (TypeOf(j) \notin {None, NoText})
    <3>1. Delta(f) = Raw(f)
      BY <2>2 DEF Delta
    <3> QED BY <1>2, <1>3, <3>1
  <2> QED BY <2>1, <2>2
<1> QED BY <1>2, <1>3, <1>4 DEF EventOf

LEMMA AppendShown ==
  ASSUME NEW ev \in Seq(Events), NEW e \in Events
  PROVE  LET new == Append(ev, e)
             at  == Len(ev) + 1
         IN  /\ new \in Seq(Events) /\ at \in Nat /\ new[at] = e
             /\ \A i \in DOMAIN ev : i # at /\ new[i] = ev[i] /\ i \in DOMAIN new
             /\ e.on # "core-status" =>
                  /\ ShownIn(new) = ShownIn(ev) \cup {at} /\ StatusesIn(new) = StatusesIn(ev)
                  /\ Cardinality(ShownIn(new)) = Cardinality(ShownIn(ev)) + 1
                  /\ Upto(ShownIn(new), at) = Cardinality(ShownIn(ev)) + 1
                  /\ \A i \in ShownIn(ev) : Upto(ShownIn(new), i) = Upto(ShownIn(ev), i)
             /\ e.on = "core-status" =>
                  /\ ShownIn(new) = ShownIn(ev) /\ StatusesIn(new) = StatusesIn(ev) \cup {at}
PROOF
<1> DEFINE new == Append(ev, e)
           at  == Len(ev) + 1
           I   == ShownIn(ev)
           J   == ShownIn(new)
<1>1. new \in Seq(Events) /\ at \in Nat /\ new[at] = e /\ Len(new) = at /\ Len(ev) \in Nat
  OBVIOUS
<1>2. \A i \in 1..Len(ev) : new[i] = ev[i]
  OBVIOUS
<1>3. DOMAIN ev = 1..Len(ev) /\ DOMAIN new = 1..at
  BY <1>1
<1> HIDE DEF new
<1>4. DOMAIN new = DOMAIN ev \cup {at} /\ \A i \in DOMAIN ev : i \in Nat /\ i < at
  BY <1>1, <1>3
<1>5. \A i \in DOMAIN ev : i # at /\ new[i] = ev[i] /\ i \in DOMAIN new
  BY <1>1, <1>2, <1>3, <1>4
<1> HIDE DEF at
<1>6. ASSUME e.on = "core-status"
      PROVE  J = I /\ StatusesIn(new) = StatusesIn(ev) \cup {at}
  <2>1. J = I
    BY <1>1, <1>4, <1>5, <1>6 DEF ShownIn
  <2>2. at \notin I
    BY <1>5 DEF ShownIn
  <2> HIDE DEF I, J
  <2> QED BY <1>4, <2>1, <2>2 DEF StatusesIn, I, J
<1>7. ASSUME e.on # "core-status"
      PROVE  /\ J = I \cup {at} /\ StatusesIn(new) = StatusesIn(ev)
             /\ Cardinality(J) = Cardinality(I) + 1
             /\ Upto(J, at) = Cardinality(I) + 1
             /\ \A i \in I : Upto(J, i) = Upto(I, i)
  <2>1. J = I \cup {at}
    BY <1>1, <1>4, <1>5, <1>7 DEF ShownIn
  <2>2. at \notin DOMAIN ev /\ I \in SUBSET DOMAIN ev
    BY <1>5 DEF ShownIn
  <2>3. IsFiniteSet(I)
    <3>1. IsFiniteSet(DOMAIN ev)
      BY <1>1, <1>3, FS_Interval
    <3> QED BY <2>2, <3>1, FS_Subset
  <2> HIDE DEF I, J
  <2>4. StatusesIn(new) = StatusesIn(ev)
    BY <1>4, <2>1, <2>2 DEF StatusesIn, I, J
  <2>5. Cardinality(J) = Cardinality(I) + 1
    BY <2>1, <2>2, <2>3, FS_AddElement
  <2>6. {k \in J : k <= at} = J
    BY <1>1, <1>4, <2>1, <2>2
  <2>7. ASSUME NEW i \in I PROVE {k \in J : k <= i} = {k \in I : k <= i}
    <3>1. ~ (at <= i)
      BY <1>1, <1>4, <2>2
    <3> QED BY <2>1, <3>1
  <2> QED BY <2>1, <2>4, <2>5, <2>6, <2>7 DEF Upto
<1> QED BY <1>1, <1>5, <1>6, <1>7 DEF new, at

\* The frames shown so far are the first lines of s.
Carried(s, ev) ==
  /\ Cardinality(ShownIn(ev)) <= Cardinality(Ends(s))
  /\ \A i \in ShownIn(ev) : Carries(LineAt(s, Upto(ShownIn(ev), i)), FrameOf(ev[i]))

\* An event that says why: the core closed the session, or else the stream
\* ended, or could not be read, with what stderr said last.
TellsWhy(e, o, a, p) ==
  /\ e.why = "closed" <=> a
  /\ e.why # "closed" => (e.why = "ConnectionClosed" <=> o = "eof")
  /\ e.quote # NoText /\ e.more < TailLines
  /\ e.quote # None => \E k \in 1..p : e.quote = Complaints[k]

\* What the window was told of the end, if the reader stopped for o, a says
\* whether the core closed the session, and p lines of stderr were read.
Told(ev, o, a, p) ==
  /\ a <=> \E k \in ShownIn(ev) : EndsTheSession(FrameOf(ev[k]))
  /\ StatusesIn(ev) = {} <=> (o = None /\ ~a)
  /\ \A i, j \in StatusesIn(ev) : i = j
  /\ \A i \in StatusesIn(ev) : TellsWhy(ev[i], o, a, p)

\* The lines of stderr that are kept, of the first p.
TailIs(t, p) ==
  /\ Len(t) <= TailLines
  /\ \A i \in 1..Len(t) : t[i] # NoText /\ \E k \in 1..p : t[i] = Complaints[k]
  /\ t # <<>> => \E i \in 1..p :
       /\ Complaints[i] = Last(t)
       /\ \A k \in (i + 1)..p : Complaints[k] = NoText

LEMMA CarriedMore ==
  ASSUME NEW s \in Bytes, NEW ev \in Seq(Events), NEW e \in Events, Carried(s, ev),
         e.on # "core-status" =>
           /\ Cardinality(ShownIn(ev)) # Cardinality(Ends(s))
           /\ Carries(LineAt(s, Cardinality(ShownIn(ev)) + 1), FrameOf(e))
  PROVE  Carried(s, Append(ev, e))
PROOF
<1> DEFINE new == Append(ev, e)
           at  == Len(ev) + 1
           n   == Cardinality(ShownIn(ev))
           Shows(x, i) == Carries(LineAt(s, Upto(ShownIn(x), i)), FrameOf(x[i]))
<1>1. ShownIn(ev) \in SUBSET DOMAIN ev /\ IsFiniteSet(ShownIn(ev))
  <2>1. ShownIn(ev) \in SUBSET DOMAIN ev
    BY DEF ShownIn
  <2>2. DOMAIN ev = 1..Len(ev) /\ Len(ev) \in Nat
    OBVIOUS
  <2>3. IsFiniteSet(DOMAIN ev)
    BY <2>2, FS_Interval
  <2> QED BY <2>1, <2>3, FS_Subset
<1>2. n \in Nat /\ Cardinality(Ends(s)) \in Nat /\ n <= Cardinality(Ends(s))
  BY <1>1, FS_CardinalityType, EndsType DEF Carried
<1>3. new[at] = e /\ \A i \in DOMAIN ev : new[i] = ev[i]
  BY AppendShown
<1>4. \A i \in ShownIn(ev) : Shows(ev, i)
  BY DEF Carried
<1>5. CASE e.on = "core-status"
  <2>1. ShownIn(new) = ShownIn(ev)
    BY <1>5, AppendShown
  <2> HIDE DEF new
  <2>2. \A i \in ShownIn(ev) : Shows(new, i)
    <3> TAKE i \in ShownIn(ev)
    <3>1. new[i] = ev[i] /\ Shows(ev, i)
      BY <1>1, <1>3, <1>4
    <3> QED BY <2>1, <3>1
  <2>3. Carried(s, new)
    BY <1>2, <2>1, <2>2 DEF Carried
  <2> QED BY <2>3 DEF new
<1>6. CASE e.on # "core-status"
  <2>1. /\ ShownIn(new) = ShownIn(ev) \cup {at} /\ Cardinality(ShownIn(new)) = n + 1
        /\ Upto(ShownIn(new), at) = n + 1
        /\ \A i \in ShownIn(ev) : Upto(ShownIn(new), i) = Upto(ShownIn(ev), i)
    BY <1>6, AppendShown
  <2> HIDE DEF new
  <2>2. Shows(new, at)
    BY <1>3, <1>6, <2>1
  <2>3. \A i \in ShownIn(ev) : Shows(new, i)
    <3> TAKE i \in ShownIn(ev)
    <3>1. new[i] = ev[i] /\ Upto(ShownIn(new), i) = Upto(ShownIn(ev), i) /\ Shows(ev, i)
      BY <1>1, <1>3, <1>4, <2>1
    <3> QED BY <3>1
  <2>4. Cardinality(ShownIn(new)) <= Cardinality(Ends(s))
    BY <1>2, <1>6, <2>1
  <2>5. Carried(s, new)
    BY <2>1, <2>2, <2>3, <2>4 DEF Carried
  <2> QED BY <2>5 DEF new
<1> QED BY <1>5, <1>6

\* A frame that does not end the session, or ends it again.
LEMMA ToldFrame ==
  ASSUME NEW ev \in Seq(Events), NEW e \in Events, NEW a \in BOOLEAN, NEW p \in Nat,
         Told(ev, None, a, p), e.on # "core-status", EndsTheSession(FrameOf(e)) => a
  PROVE  Told(Append(ev, e), None, a, p)
PROOF
<1> DEFINE new == Append(ev, e)
           at  == Len(ev) + 1
<1>1. /\ new[at] = e
      /\ \A i \in DOMAIN ev : new[i] = ev[i]
      /\ ShownIn(new) = ShownIn(ev) \cup {at} /\ StatusesIn(new) = StatusesIn(ev)
  BY AppendShown
<1>2. ShownIn(ev) \in SUBSET DOMAIN ev /\ StatusesIn(ev) \in SUBSET DOMAIN ev
  BY DEF ShownIn, StatusesIn
<1> HIDE DEF new, at
<1>3. a <=> \E k \in ShownIn(new) : EndsTheSession(FrameOf(new[k]))
  <2>1. a <=> \E k \in ShownIn(ev) : EndsTheSession(FrameOf(ev[k]))
    BY DEF Told
  <2> QED BY <1>1, <1>2, <2>1
<1>4. \A i \in StatusesIn(ev) : new[i] = ev[i]
  BY <1>1, <1>2
<1>5. StatusesIn(new) = {} <=> (None = None /\ ~a)
  BY <1>1 DEF Told
<1>6. \A i, j \in StatusesIn(new) : i = j
  BY <1>1 DEF Told
<1>7. \A i \in StatusesIn(new) : TellsWhy(new[i], None, a, p)
  BY <1>1, <1>4 DEF Told
<1>8. Told(new, None, a, p)
  BY <1>3, <1>5, <1>6, <1>7 DEF Told
<1> QED BY <1>8 DEF new

\* An end that is said: by a frame of the core if a, and for o if not.
LEMMA ToldEnd ==
  ASSUME NEW ev \in Seq(Events), NEW e \in Events, NEW a \in BOOLEAN, NEW p \in Nat, NEW o,
         StatusesIn(ev) = {}, a <=> \E k \in ShownIn(ev) : EndsTheSession(FrameOf(ev[k])),
         o # None \/ a, e.on = "core-status", TellsWhy(e, o, a, p)
  PROVE  Told(Append(ev, e), o, a, p)
PROOF
<1> DEFINE new == Append(ev, e)
           at  == Len(ev) + 1
<1>1. /\ new[at] = e
      /\ \A i \in DOMAIN ev : new[i] = ev[i]
      /\ ShownIn(new) = ShownIn(ev) /\ StatusesIn(new) = {at}
  BY AppendShown
<1>2. ShownIn(ev) \in SUBSET DOMAIN ev
  BY DEF ShownIn
<1> HIDE DEF new, at
<1>3. a <=> \E k \in ShownIn(new) : EndsTheSession(FrameOf(new[k]))
  BY <1>1, <1>2
<1>4. StatusesIn(new) # {} /\ ~ (o = None /\ ~a)
  BY <1>1
<1>5. \A i, j \in StatusesIn(new) : i = j
  BY <1>1
<1>6. \A i \in StatusesIn(new) : TellsWhy(new[i], o, a, p)
  BY <1>1
<1>7. Told(new, o, a, p)
  BY <1>3, <1>4, <1>5, <1>6 DEF Told
<1> QED BY <1>7 DEF new

(***************************************************************************)
(* The invariant                                                           *)
(***************************************************************************)
Stops == {"eof", "cut", "malformed", "failed"}

TypeInv ==
  /\ sent \in Bytes /\ wire \in Bytes /\ buf \in Bytes /\ line \in Bytes
  /\ over \in Stops \cup {None} /\ announced \in BOOLEAN
  /\ events \in Seq(Events)
  /\ pumped \in 0..Len(Complaints) /\ tail \in Seq(STRING)

\* l, t and w are what follows the line that ends at b, and l has no end.
Reading(s, l, t, w, b) ==
  /\ b = 0 \/ b \in Ends(s)
  /\ Piece(s, b, l) /\ \A i \in 1..Len(l) : l[i] # LF
  /\ Piece(s, b + Len(l), t)
  /\ Piece(s, b + Len(l) + Len(t), w)
  /\ b + Len(l) + Len(t) + Len(w) = Len(s)

\* A reader that goes on has shown all the lines it has read, no byte is lost
\* and none is read twice.
Placed(s, l, t, w, ev) ==
  \E b \in Nat : Reading(s, l, t, w, b) /\ Cardinality(ShownIn(ev)) = Upto(Ends(s), b)

\* What a reader that stopped for o after n frames may say of the stream.
Stopped(s, n, o) ==
  LET lines == Cardinality(Ends(s))
  IN  /\ o = "eof" => n = lines /\ (s # <<>> => Last(s) = LF)
      /\ o = "cut" => n = lines /\ Last(s) # LF
      /\ o = "malformed" =>
           IF n = lines
           THEN Len(s) - Latest(Ends(s)) > MaxFrame
           ELSE \A f \in Candidates(LineAt(s, n + 1)) : ~Carries(LineAt(s, n + 1), f)

IInv ==
  /\ TypeInv
  /\ over = None => Placed(sent, line, buf, wire, events)
  /\ Carried(sent, events)
  /\ Stopped(sent, Cardinality(ShownIn(events)), over)
  /\ Told(events, over, announced, pumped)
  /\ TailIs(tail, pumped)

LEMMA InitInv == Init => IInv
PROOF
<1> SUFFICES ASSUME Init PROVE IInv
  OBVIOUS
<1>1. sent \in Bytes /\ Complaints \in Seq(STRING) /\ TailLines \in Nat
  BY StreamAssumption DEF Init, Bytes
<1>2. TypeInv
  <2>1. 0 \in 0..Len(Complaints)
    BY <1>1
  <2>2. sent \in Bytes /\ wire \in Bytes /\ buf \in Bytes /\ line \in Bytes
    BY <1>1 DEF Init, Bytes
  <2>3. events \in Seq(Events) /\ tail \in Seq(STRING)
    BY DEF Init
  <2> QED BY <2>1, <2>2, <2>3 DEF Init, TypeInv
<1>3. ShownIn(events) = {} /\ StatusesIn(events) = {}
  BY DEF Init, ShownIn, StatusesIn
<1>4. Cardinality(ShownIn(events)) = 0
  BY <1>3, FS_EmptySet
<1>5. Placed(sent, line, buf, wire, events)
  <2>1. Reading(sent, <<>>, <<>>, sent, 0)
    BY <1>1 DEF Reading, Piece, Bytes
  <2>2. {k \in Ends(sent) : k <= 0} = {}
    BY <1>1, EndsType
  <2>3. Upto(Ends(sent), 0) = 0
    BY <2>2, FS_EmptySet DEF Upto
  <2>4. line = <<>> /\ buf = <<>> /\ wire = sent
    BY DEF Init
  <2> QED BY <1>4, <2>1, <2>3, <2>4 DEF Placed
<1>6. Carried(sent, events)
  BY <1>1, <1>3, <1>4, EndsType DEF Carried
<1>7. Stopped(sent, Cardinality(ShownIn(events)), over)
  BY DEF Init, None, Stopped
<1>8. Told(events, over, announced, pumped)
  BY <1>3 DEF Init, Told
<1>9. TailIs(tail, pumped)
  BY <1>1 DEF Init, TailIs
<1> QED BY <1>2, <1>5, <1>6, <1>7, <1>8, <1>9 DEF IInv

(***************************************************************************)
(* The steps                                                               *)
(***************************************************************************)
LEMMA ArriveStep ==
  ASSUME IInv, Arrive
  PROVE  IInv'
PROOF
<1>1. TypeInv /\ Placed(sent, line, buf, wire, events)
  BY DEF IInv, Arrive
<1>2. PICK n \in 1..Len(wire) :
        buf' = SubSeq(wire, 1, n) /\ wire' = SubSeq(wire, n + 1, Len(wire))
  BY DEF Arrive
<1>3. /\ buf = <<>> /\ over = None
      /\ UNCHANGED <<sent, line, over, events, announced, pumped, tail>>
  BY DEF Arrive
<1>4. PICK b \in Nat : Reading(sent, line, buf, wire, b) /\ Cardinality(ShownIn(events)) = Upto(Ends(sent), b)
  BY <1>1 DEF Placed
<1>5. Len(wire) \in Nat /\ Len(line) \in Nat /\ n \in 0..Len(wire) /\ Len(buf) = 0
  BY <1>1, <1>2, <1>3 DEF TypeInv, Bytes
<1>6. Piece(sent, b + Len(line), wire)
  BY <1>4, <1>5 DEF Reading
<1>7. /\ buf' \in Bytes /\ wire' \in Bytes /\ Len(buf') = n /\ Len(wire') = Len(wire) - n
      /\ Piece(sent, b + Len(line), buf') /\ Piece(sent, b + Len(line) + n, wire')
  <2> DEFINE first == SubSeq(wire, 1, n)
             rest  == SubSeq(wire, n + 1, Len(wire))
  <2>1. sent \in Bytes /\ wire \in Bytes
    BY <1>1 DEF TypeInv
  <2>2. /\ first \in Bytes /\ rest \in Bytes /\ Len(first) = n /\ Len(rest) = Len(wire) - n
        /\ Piece(sent, b + Len(line), first) /\ Piece(sent, b + Len(line) + n, rest)
    BY <1>5, <1>6, <2>1, Cut
  <2> QED BY <1>2, <2>2
<1>8. Reading(sent, line, buf', wire', b)
  BY <1>4, <1>5, <1>7 DEF Reading
<1>9. Placed(sent', line', buf', wire', events')
  BY <1>3, <1>4, <1>8 DEF Placed
<1>10. TypeInv'
  BY <1>1, <1>3, <1>7 DEF TypeInv
<1>11. /\ Carried(sent', events') /\ Stopped(sent', Cardinality(ShownIn(events')), over')
       /\ Told(events', over', announced', pumped') /\ TailIs(tail', pumped')
  BY <1>3 DEF IInv
<1> QED BY <1>9, <1>10, <1>11 DEF IInv

LEMMA Counted ==
  ASSUME TypeInv
  PROVE  /\ Complaints \in Seq(STRING) /\ Len(Complaints) \in Nat /\ TailLines \in Nat /\ TailLines # 0
         /\ pumped \in Nat /\ pumped <= Len(Complaints) /\ MaxFrame \in Nat
PROOF
<1>1. Complaints \in Seq(STRING) /\ TailLines \in Nat /\ TailLines # 0 /\ MaxFrame \in Nat
  BY StreamAssumption
<1>2. Len(Complaints) \in Nat
  BY <1>1
<1>3. pumped \in 0..Len(Complaints)
  BY DEF TypeInv
<1> QED BY <1>1, <1>2, <1>3

\* disconnect_message: what stderr said last, and why.
LEMMA QuoteTells ==
  ASSUME TypeInv, TailIs(tail, pumped), NEW base \in {"ReadError", "ConnectionClosed"}
  PROVE  /\ Quote(base) \in Events /\ Quote(base).on = "core-status" /\ Quote(base).why = base
         /\ Quote(base).quote # NoText /\ Quote(base).more < TailLines
         /\ Quote(base).quote # None => \E k \in 1..pumped : Quote(base).quote = Complaints[k]
PROOF
<1> DEFINE q == IF tail = <<>> THEN None ELSE Last(tail)
           m == IF tail = <<>> THEN 0 ELSE Len(tail) - 1
           C == Range(Complaints)
<1>1. Quote(base) = [on |-> "core-status", why |-> base, quote |-> q, more |-> m]
  BY DEF Quote
<1>2. tail \in Seq(STRING)
  BY DEF TypeInv
<1>3. q \in {None} \cup C /\ m \in Nat /\ q # NoText /\ m < TailLines
      /\ (q # None => \E k \in 1..pumped : q = Complaints[k])
  <2>1. CASE tail = <<>>
    BY <2>1, Counted DEF None, NoText
  <2>2. CASE tail # <<>>
    <3> DEFINE n == Len(tail)
    <3>1. n \in Nat /\ n # 0
      BY <1>2, <2>2
    <3>2. q = tail[n] /\ m = n - 1
      BY <2>2 DEF Last
    <3>3. n <= TailLines /\ \A i \in 1..n : tail[i] # NoText /\ \E k \in 1..pumped : tail[i] = Complaints[k]
      BY DEF TailIs
    <3> HIDE DEF n, q, m
    <3>4. n \in 1..n
      BY <3>1
    <3>5. q # NoText /\ \E k \in 1..pumped : q = Complaints[k]
      BY <3>2, <3>3, <3>4
    <3>6. q \in C
      <4>1. PICK k \in 1..pumped : q = Complaints[k]
        BY <3>5
      <4>2. k \in DOMAIN Complaints
        BY Counted
      <4> QED BY <4>1, <4>2 DEF Range
    <3> QED BY <3>1, <3>2, <3>3, <3>5, <3>6, Counted
  <2> QED BY <2>1, <2>2
<1> HIDE DEF q, m, C
<1>4. [on |-> "core-status", why |-> base, quote |-> q, more |-> m] \in Endings
  BY <1>3 DEF Endings, C
<1>5. Quote(base) \in Events
  BY <1>1, <1>4 DEF Events
<1> QED BY <1>1, <1>3, <1>5

LEMMA EndTold ==
  ASSUME TypeInv, TailIs(tail, pumped), Told(events, None, announced, pumped), Carried(sent, events),
         NEW o \in Stops, NEW base \in {"ReadError", "ConnectionClosed"},
         base = "ConnectionClosed" <=> o = "eof"
  PROVE  LET ev == IF announced THEN events ELSE Append(events, Quote(base))
         IN  /\ ev \in Seq(Events) /\ Carried(sent, ev) /\ Told(ev, o, announced, pumped)
             /\ Cardinality(ShownIn(ev)) = Cardinality(ShownIn(events))
PROOF
<1>1. /\ events \in Seq(Events) /\ announced \in BOOLEAN /\ pumped \in Nat /\ sent \in Bytes
      /\ o # None
  <2>1. pumped \in Nat
    BY Counted
  <2> QED BY <2>1 DEF TypeInv, Stops, None
<1>2. ASSUME announced
      PROVE  Told(events, o, announced, pumped)
  <2>1. StatusesIn(events) # {}
    BY <1>2 DEF Told
  <2>2. \A i \in StatusesIn(events) : TellsWhy(events[i], o, announced, pumped)
    BY <1>2 DEF Told, TellsWhy
  <2> QED BY <1>2, <2>1, <2>2 DEF Told
<1>3. ASSUME ~announced
      PROVE  LET ev == Append(events, Quote(base))
             IN  /\ ev \in Seq(Events) /\ Carried(sent, ev) /\ Told(ev, o, announced, pumped)
                 /\ Cardinality(ShownIn(ev)) = Cardinality(ShownIn(events))
  <2> DEFINE e == Quote(base)
  <2>1. /\ e \in Events /\ e.on = "core-status" /\ e.why = base
        /\ e.quote # NoText /\ e.more < TailLines
        /\ e.quote # None => \E k \in 1..pumped : e.quote = Complaints[k]
    BY QuoteTells
  <2> HIDE DEF e
  <2>2. TellsWhy(e, o, announced, pumped)
    BY <1>3, <2>1 DEF TellsWhy
  <2>3. StatusesIn(events) = {} /\ (announced <=> \E k \in ShownIn(events) : EndsTheSession(FrameOf(events[k])))
    BY <1>3 DEF Told
  <2>4. Told(Append(events, e), o, announced, pumped)
    BY <1>1, <2>1, <2>2, <2>3, ToldEnd
  <2>5. Carried(sent, Append(events, e))
    BY <1>1, <2>1, CarriedMore
  <2>6. Append(events, e) \in Seq(Events) /\ ShownIn(Append(events, e)) = ShownIn(events)
    BY <1>1, <2>1, AppendShown
  <2> QED BY <2>4, <2>5, <2>6 DEF e
<1> QED BY <1>1, <1>2, <1>3

\* The reader ends, for a reason that is true of the stream.
LEMMA Ended ==
  ASSUME IInv, over = None, NEW o \in Stops, NEW base \in {"ReadError", "ConnectionClosed"},
         base = "ConnectionClosed" <=> o = "eof", EndOver(o, base),
         Stopped(sent, Cardinality(ShownIn(events)), o),
         UNCHANGED <<sent, wire, pumped, tail>>, line' \in Bytes, buf' \in Bytes
  PROVE  IInv'
PROOF
<1> DEFINE ev == IF announced THEN events ELSE Append(events, Quote(base))
<1>1. /\ TypeInv /\ TailIs(tail, pumped) /\ Told(events, None, announced, pumped)
      /\ Carried(sent, events)
  BY DEF IInv
<1>2. /\ ev \in Seq(Events) /\ Carried(sent, ev) /\ Told(ev, o, announced, pumped)
      /\ Cardinality(ShownIn(ev)) = Cardinality(ShownIn(events))
  BY <1>1, EndTold
<1>3. events' = ev /\ over' = o /\ announced' = announced
  BY DEF EndOver
<1> HIDE DEF ev
<1>4. TypeInv'
  BY <1>1, <1>2, <1>3 DEF TypeInv
<1>5. over' # None
  BY <1>3 DEF Stops, None
<1>6. Stopped(sent', Cardinality(ShownIn(events')), over')
  BY <1>2, <1>3
<1>7. Carried(sent', events') /\ Told(events', over', announced', pumped') /\ TailIs(tail', pumped')
  BY <1>1, <1>2, <1>3
<1> QED BY <1>4, <1>5, <1>6, <1>7 DEF IInv

\* No line ends in the first n places after b.
LEMMA NoEnd ==
  ASSUME NEW s \in Bytes, NEW b \in Nat, NEW t \in Bytes, Piece(s, b, t),
         \A i \in 1..Len(t) : t[i] # LF
  PROVE  \A k \in Ends(s) : k <= b \/ k > b + Len(t)
PROOF
<1>1. Len(t) \in Nat /\ \A k \in Ends(s) : k \in Nat /\ s[k] = LF
  BY EndsType DEF Ends, Bytes
<1> TAKE k \in Ends(s)
<1> SUFFICES ASSUME ~ (k <= b), ~ (k > b + Len(t)) PROVE FALSE
  OBVIOUS
<1>2. k - b \in 1..Len(t) /\ b + (k - b) = k
  BY <1>1
<1>3. t[k - b] = s[k]
  BY <1>2 DEF Piece
<1> QED BY <1>1, <1>2, <1>3

LEMMA TakePartStep ==
  ASSUME IInv, TakePart
  PROVE  IInv'
PROOF
<1>1. TypeInv /\ over = None /\ Placed(sent, line, buf, wire, events)
  BY DEF IInv, TakePart
<1>2. /\ line' = line \o buf /\ buf' = <<>> /\ UNCHANGED <<sent, wire, pumped, tail>>
      /\ LF \notin ToSet(buf)
  BY DEF TakePart
<1>3. PICK b \in Nat : Reading(sent, line, buf, wire, b) /\ Cardinality(ShownIn(events)) = Upto(Ends(sent), b)
  BY <1>1 DEF Placed
<1>4. /\ sent \in Bytes /\ line \in Bytes /\ buf \in Bytes /\ wire \in Bytes
      /\ Len(line) \in Nat /\ Len(buf) \in Nat /\ Len(wire) \in Nat /\ Len(sent) \in Nat
  BY <1>1 DEF TypeInv, Bytes
<1>5. \A i \in 1..Len(buf) : buf[i] # LF
  BY <1>2, <1>4 DEF ToSet, Bytes
<1> DEFINE l == line \o buf
<1>6. /\ l \in Bytes /\ Len(l) = Len(line) + Len(buf) /\ Piece(sent, b, l)
      /\ \A i \in 1..Len(l) : l[i] # LF
  <2>1. Piece(sent, b, line) /\ Piece(sent, b + Len(line), buf) /\ \A i \in 1..Len(line) : line[i] # LF
    BY <1>3 DEF Reading
  <2> QED BY <1>4, <1>5, <2>1, CutJoined
<1> HIDE DEF l
<1>7. Reading(sent, l, <<>>, wire, b)
  <2>1. /\ Piece(sent, b + Len(line) + Len(buf), wire)
        /\ b = 0 \/ b \in Ends(sent)
        /\ b + Len(line) + Len(buf) + Len(wire) = Len(sent)
    BY <1>3 DEF Reading
  <2>2. b + Len(line) + Len(buf) = b + Len(l) /\ Len(<<>>) = 0
    BY <1>4, <1>6
  <2>3. Piece(sent, b + Len(l), <<>>)
    BY <1>4, <1>6, <2>1, <2>2 DEF Piece
  <2>4. b + Len(l) + Len(<<>>) = b + Len(line) + Len(buf)
    BY <1>4, <1>6, <2>2
  <2>5. Piece(sent, b + Len(l) + Len(<<>>), wire)
    <3> DEFINE from == b + Len(l) + Len(<<>>)
               to   == b + Len(line) + Len(buf)
    <3>1. from = to /\ Piece(sent, to, wire)
      BY <2>1, <2>4
    <3> HIDE DEF from, to
    <3>2. Piece(sent, from, wire)
      BY <3>1
    <3> QED BY <3>2 DEF from
  <2> QED BY <1>6, <2>1, <2>3, <2>4, <2>5 DEF Reading
<1>8. line' = l /\ line' \in Bytes /\ buf' \in Bytes
  BY <1>2, <1>6 DEF l, Bytes
<1>9. CASE Len(line') > MaxFrame
  <2> DEFINE n == Upto(Ends(sent), b)
             E == Ends(sent)
  <2>1. EndOver("malformed", "ReadError")
    BY <1>9 DEF TakePart
  <2>2. /\ n \in Nat /\ n <= Cardinality(E) /\ (\A k \in E : k <= b) <=> n = Cardinality(E)
        /\ E \in SUBSET Nat
    BY <1>4, LastEnd, EndsType
  <2>3. \A k \in E : k <= b \/ k > b + Len(l)
    BY <1>4, <1>6, NoEnd
  <2>4. b + Len(l) <= Len(sent) /\ Len(l) \in Nat /\ Len(l) > MaxFrame /\ MaxFrame \in Nat
    BY <1>1, <1>6, <1>8, <1>9, Counted DEF Piece, Bytes
  <2>5. b = 0 \/ b \in E
    BY <1>3 DEF Reading
  <2>6. ASSUME n = Cardinality(E) PROVE Len(sent) - Latest(E) > MaxFrame
    <3>1. Latest(E) = b
      <4>1. (b = 0 /\ E = {}) \/ (b \in E /\ \A k \in E : k <= b)
        <5>1. E \in SUBSET (1..Len(sent)) /\ \A k \in E : k <= b
          BY <1>4, <2>2, <2>6, EndsType
        <5> HIDE DEF E, n
        <5>2. CASE b \in E
          BY <5>1, <5>2
        <5>3. CASE b = 0 /\ b \notin E
          BY <1>4, <5>1, <5>3
        <5> QED BY <2>5, <5>2, <5>3
      <4> QED BY <2>2, <4>1, LatestIs
    <3> QED BY <1>4, <2>4, <3>1
  <2>7. ASSUME n # Cardinality(E)
        PROVE  \A f \in Candidates(LineAt(sent, n + 1)) : ~Carries(LineAt(sent, n + 1), f)
    <3>1. PICK e \in E : b < e /\ \A k \in E : k <= b \/ k >= e
      BY <1>4, <2>7, NextEnd
    <3>2. LineAt(sent, n + 1) = SubSeq(sent, b + 1, e - 1)
      BY <1>4, <2>5, <3>1, LineIs
    <3>3. e \in 1..Len(sent) /\ e > b + Len(l)
      BY <1>4, <2>3, <3>1, EndsType
    <3>4. Len(SubSeq(sent, b + 1, e - 1)) + 1 > MaxFrame
      <4> DEFINE m == Len(sent)
                 k == Len(l)
      <4>1. m \in Nat /\ e \in 1..m /\ e > b + k /\ k \in Nat /\ k > MaxFrame /\ MaxFrame \in Nat
        BY <1>4, <2>4, <3>3
      <4>2. \A i \in 1..m : sent[i] \in STRING
        BY <1>4 DEF Bytes
      <4> HIDE DEF m, k
      <4>3. \A i \in (b + 1)..(e - 1) : sent[i] \in STRING
        BY <4>1, <4>2
      <4>4. b + 1 \in Nat /\ e - 1 \in Nat /\ b + 1 <= e - 1
        BY <4>1
      <4>5. Len(SubSeq(sent, b + 1, e - 1)) = (e - 1) - (b + 1) + 1
        BY <4>3, <4>4, SubSeqProperties
      <4> QED BY <4>1, <4>5
    <3>5. Len(SubSeq(sent, b + 1, e - 1)) \in Nat /\ MaxFrame \in Nat
      <4>1. \A i \in (b + 1)..(e - 1) : sent[i] \in STRING
        BY <1>4, <3>3 DEF Bytes
      <4> QED BY <1>4, <2>4, <3>3, <4>1, SubSeqProperties
    <3> DEFINE x == LineAt(sent, n + 1)
    <3>6. Len(x) + 1 > MaxFrame /\ Len(x) \in Nat /\ MaxFrame \in Nat
      BY <3>2, <3>4, <3>5
    <3> HIDE DEF x
    <3>7. \A f : Carries(x, f) => Len(x) + 1 <= MaxFrame
      BY DEF Carries
    <3>8. \A f \in Candidates(x) : ~Carries(x, f)
      BY <3>6, <3>7
    <3> QED BY <3>8 DEF x
  <2>8. Stopped(sent, Cardinality(ShownIn(events)), "malformed")
    BY <1>3, <2>6, <2>7 DEF Stopped
  <2>9. "malformed" \in Stops /\ "ReadError" \in {"ReadError", "ConnectionClosed"}
    BY DEF Stops
  <2> QED BY <1>1, <1>2, <1>8, <2>1, <2>8, <2>9, Ended
<1>10. CASE ~ (Len(line') > MaxFrame)
  <2>1. UNCHANGED <<over, events, announced>>
    BY <1>10 DEF TakePart
  <2>2. Placed(sent', line', buf', wire', events')
    BY <1>2, <1>3, <1>7, <1>8, <2>1 DEF Placed
  <2>3. TypeInv'
    BY <1>1, <1>2, <1>8, <2>1 DEF TypeInv
  <2>4. /\ Carried(sent', events') /\ Stopped(sent', Cardinality(ShownIn(events')), over')
        /\ Told(events', over', announced', pumped') /\ TailIs(tail', pumped')
    BY <1>2, <2>1 DEF IInv
  <2> QED BY <2>2, <2>3, <2>4 DEF IInv
<1> QED BY <1>9, <1>10

\* The line that ends in the buffer, at its first end p.
LEMMA TakenLine ==
  ASSUME TypeInv, LF \in ToSet(buf), NEW b \in Nat, Reading(sent, line, buf, wire, b)
  PROVE  LET p == CHOOSE i \in DOMAIN buf : buf[i] = LF /\ \A k \in 1..(i - 1) : buf[k] # LF
             l == line \o SubSeq(buf, 1, p - 1)
             rest == SubSeq(buf, p + 1, Len(buf))
         IN  /\ l \in Bytes /\ rest \in Bytes
             /\ Reading(sent, <<>>, rest, wire, b + Len(l) + 1)
             /\ b + Len(l) + 1 \in Nat
             /\ Upto(Ends(sent), b + Len(l) + 1) = Upto(Ends(sent), b) + 1
             /\ LineAt(sent, Upto(Ends(sent), b) + 1) = l
             /\ Upto(Ends(sent), b) # Cardinality(Ends(sent))
PROOF
<1> DEFINE p    == CHOOSE i \in DOMAIN buf : buf[i] = LF /\ \A k \in 1..(i - 1) : buf[k] # LF
           pre  == SubSeq(buf, 1, p - 1)
           l    == line \o pre
           rest == SubSeq(buf, p + 1, Len(buf))
           e    == b + Len(l) + 1
<1>1. /\ sent \in Bytes /\ line \in Bytes /\ buf \in Bytes /\ wire \in Bytes
      /\ Len(line) \in Nat /\ Len(buf) \in Nat /\ Len(wire) \in Nat /\ Len(sent) \in Nat
  BY DEF TypeInv, Bytes
<1>2. /\ b = 0 \/ b \in Ends(sent)
      /\ Piece(sent, b, line) /\ \A i \in 1..Len(line) : line[i] # LF
      /\ Piece(sent, b + Len(line), buf)
      /\ Piece(sent, b + Len(line) + Len(buf), wire)
      /\ b + Len(line) + Len(buf) + Len(wire) = Len(sent)
  BY DEF Reading
<1>3. p \in 1..Len(buf) /\ buf[p] = LF /\ \A k \in 1..(p - 1) : buf[k] # LF
  <2> DEFINE T == {i \in 1..Len(buf) : buf[i] = LF}
  <2>1. DOMAIN buf = 1..Len(buf)
    BY <1>1 DEF Bytes
  <2>2. T # {} /\ T \in SUBSET Nat
    BY <1>1, <2>1 DEF ToSet
  <2>3. PICK i \in T : \A k \in T : i <= k
    BY <2>2, LeastNumber
  <2>4. \A k \in 1..(i - 1) : buf[k] # LF
    BY <1>1, <2>3
  <2>5. \E x \in DOMAIN buf : buf[x] = LF /\ \A k \in 1..(x - 1) : buf[k] # LF
    BY <2>1, <2>3, <2>4
  <2>6. p \in DOMAIN buf /\ buf[p] = LF /\ \A k \in 1..(p - 1) : buf[k] # LF
    BY <2>5
  <2> HIDE DEF p
  <2> QED BY <2>1, <2>6
<1> HIDE DEF p
<1>4. p \in Nat /\ p - 1 \in 0..Len(buf) /\ p \in 0..Len(buf)
  BY <1>1, <1>3
<1>5. /\ pre \in Bytes /\ Len(pre) = p - 1 /\ Piece(sent, b + Len(line), pre)
      /\ \A i \in 1..(p - 1) : pre[i] = buf[i]
  BY <1>1, <1>2, <1>4, Cut
<1>6. /\ rest \in Bytes /\ Len(rest) = Len(buf) - p /\ Piece(sent, b + Len(line) + p, rest)
  BY <1>1, <1>2, <1>4, Cut
<1> HIDE DEF pre, rest
<1>7. /\ l \in Bytes /\ Len(l) = Len(line) + Len(pre) /\ Piece(sent, b, l)
      /\ \A i \in 1..Len(l) : l[i] # LF
  <2>1. \A i \in 1..Len(pre) : pre[i] # LF
    BY <1>3, <1>5
  <2> QED BY <1>1, <1>2, <1>5, <2>1, CutJoined
<1> HIDE DEF l
<1>8. e = b + Len(line) + p /\ e \in Nat /\ b < e /\ e - 1 = b + Len(l) /\ Len(l) \in Nat
  BY <1>1, <1>4, <1>5, <1>7
<1>9. e \in Ends(sent)
  <2>1. buf[p] = sent[b + Len(line) + p]
    BY <1>2, <1>3 DEF Piece
  <2>2. e \in 1..Len(sent)
    BY <1>1, <1>2, <1>3, <1>8
  <2>3. DOMAIN sent = 1..Len(sent)
    BY <1>1 DEF Bytes
  <2> HIDE DEF e
  <2> QED BY <1>3, <1>8, <2>1, <2>2, <2>3 DEF Ends
<1>10. \A k \in Ends(sent) : k <= b \/ k >= e
  <2>1. \A k \in Ends(sent) : k <= b \/ k > b + Len(l)
    BY <1>1, <1>7, NoEnd
  <2>2. \A k \in Ends(sent) : k \in Nat
    BY <1>1, EndsType
  <2> QED BY <1>8, <2>1, <2>2
<1> HIDE DEF e
<1>11. /\ Upto(Ends(sent), e) = Upto(Ends(sent), b) + 1
       /\ LineAt(sent, Upto(Ends(sent), b) + 1) = SubSeq(sent, b + 1, e - 1)
  BY <1>1, <1>2, <1>8, <1>9, <1>10, LineIs
<1>12. SubSeq(sent, b + 1, e - 1) = l
  BY <1>1, <1>7, <1>8, PieceIs
<1>13. Upto(Ends(sent), b) # Cardinality(Ends(sent))
  <2>1. Upto(Ends(sent), e) \in Nat /\ Upto(Ends(sent), e) <= Cardinality(Ends(sent))
    BY <1>1, <1>8, LastEnd
  <2>2. Upto(Ends(sent), b) \in Nat /\ Cardinality(Ends(sent)) \in Nat
    BY <1>1, LastEnd, EndsType
  <2> QED BY <1>11, <2>1, <2>2
<1>14. Reading(sent, <<>>, rest, wire, e)
  <2>1. Piece(sent, e, rest)
    BY <1>6, <1>8
  <2>2. e + Len(rest) = b + Len(line) + Len(buf)
    BY <1>1, <1>4, <1>6, <1>8
  <2>3. Piece(sent, e + Len(rest), wire)
    <3> DEFINE from == e + Len(rest)
               to   == b + Len(line) + Len(buf)
    <3>1. from = to /\ Piece(sent, to, wire)
      BY <1>2, <2>2
    <3> HIDE DEF from, to
    <3>2. Piece(sent, from, wire)
      BY <3>1
    <3> QED BY <3>2 DEF from
  <2>4. e + Len(rest) + Len(wire) = Len(sent)
    BY <1>2, <2>2
  <2>5. e <= Len(sent)
    BY <1>1, <1>9, EndsType
  <2>6. e + Len(<<>>) = e /\ Len(<<>>) = 0
    BY <1>8
  <2>7. Piece(sent, e, <<>>) /\ \A i \in 1..Len(<<>>) : <<>>[i] # LF
    BY <1>8, <2>5, <2>6 DEF Piece
  <2> QED BY <1>9, <2>1, <2>3, <2>4, <2>6, <2>7 DEF Reading
<1> QED BY <1>6, <1>7, <1>8, <1>11, <1>12, <1>13, <1>14 DEF e, l, rest, pre, p

LEMMA EofStep ==
  ASSUME IInv, Eof
  PROVE  IInv'
PROOF
<1>1. TypeInv /\ over = None /\ Placed(sent, line, buf, wire, events)
  BY DEF IInv, Eof
<1>2. buf = <<>> /\ wire = <<>> /\ UNCHANGED <<sent, wire, buf, line, pumped, tail>>
  BY DEF Eof
<1>3. PICK b \in Nat : Reading(sent, line, buf, wire, b) /\ Cardinality(ShownIn(events)) = Upto(Ends(sent), b)
  BY <1>1 DEF Placed
<1>4. /\ sent \in Bytes /\ line \in Bytes /\ Len(line) \in Nat /\ Len(sent) \in Nat
      /\ line' \in Bytes /\ buf' \in Bytes
  BY <1>1, <1>2 DEF TypeInv, Bytes
<1>5. /\ b = 0 \/ b \in Ends(sent)
      /\ Piece(sent, b, line) /\ \A i \in 1..Len(line) : line[i] # LF
      /\ b + Len(line) = Len(sent)
  BY <1>2, <1>3, <1>4 DEF Reading
<1>6. Upto(Ends(sent), b) = Cardinality(Ends(sent))
  <2>1. \A k \in Ends(sent) : k <= b \/ k > b + Len(line)
    BY <1>4, <1>5, NoEnd
  <2>2. \A k \in Ends(sent) : k <= b
    BY <1>4, <1>5, <2>1, EndsType
  <2> QED BY <1>4, <2>2, LastEnd
<1>7. CASE line = <<>>
  <2>1. EndOver("eof", "ConnectionClosed")
    BY <1>7 DEF Eof
  <2>2. sent # <<>> => Last(sent) = LF
    <3>1. b = Len(sent)
      BY <1>4, <1>5, <1>7
    <3> SUFFICES ASSUME sent # <<>> PROVE Last(sent) = LF
      OBVIOUS
    <3>2. b # 0
      BY <1>4, <3>1 DEF Bytes
    <3> QED BY <1>5, <3>1, <3>2 DEF Ends, Last
  <2>3. Stopped(sent, Cardinality(ShownIn(events)), "eof")
    BY <1>3, <1>6, <2>2 DEF Stopped
  <2>4. "eof" \in Stops /\ "ConnectionClosed" \in {"ReadError", "ConnectionClosed"}
    BY DEF Stops
  <2> QED BY <1>1, <1>2, <1>4, <2>1, <2>3, <2>4, Ended
<1>8. CASE line # <<>>
  <2>1. EndOver("cut", "ReadError")
    BY <1>8 DEF Eof
  <2>2. Last(sent) # LF
    <3> DEFINE n == Len(line)
    <3>1. n \in Nat /\ n # 0
      BY <1>4, <1>8 DEF Bytes
    <3>2. line[n] = sent[b + n] /\ line[n] # LF
      BY <1>5, <3>1 DEF Piece
    <3> QED BY <1>5, <3>2 DEF Last
  <2>3. Stopped(sent, Cardinality(ShownIn(events)), "cut")
    BY <1>3, <1>6, <2>2 DEF Stopped
  <2>4. "cut" \in Stops /\ "ReadError" \in {"ReadError", "ConnectionClosed"}
    BY DEF Stops
  <2> QED BY <1>1, <1>2, <1>4, <2>1, <2>3, <2>4, Ended
<1> QED BY <1>7, <1>8

LEMMA ReadFailsStep ==
  ASSUME IInv, ReadFails
  PROVE  IInv'
PROOF
<1>1. /\ over = None /\ EndOver("failed", "ReadError")
      /\ UNCHANGED <<sent, wire, buf, line, pumped, tail>>
  BY DEF ReadFails
<1>2. line' \in Bytes /\ buf' \in Bytes
  BY <1>1 DEF IInv, TypeInv
<1>3. Stopped(sent, Cardinality(ShownIn(events)), "failed")
  BY DEF Stopped
<1>4. "failed" \in Stops /\ "ReadError" \in {"ReadError", "ConnectionClosed"}
  BY DEF Stops
<1> QED BY <1>1, <1>2, <1>3, <1>4, Ended

\* A line that carries a frame: the window gets its event and, if the frame
\* is the first that ends the session, the end.
LEMMA Dispatched ==
  ASSUME TypeInv, Carried(sent, events), Told(events, None, announced, pumped), NEW f \in Frames,
         Carries(LineAt(sent, Cardinality(ShownIn(events)) + 1), f),
         Cardinality(ShownIn(events)) # Cardinality(Ends(sent))
  PROVE  LET said == EndsTheSession(f) /\ ~announced
             ev == Append(events, EventOf(f)) \o IF said THEN <<Said>> ELSE <<>>
         IN  /\ ev \in Seq(Events) /\ Carried(sent, ev)
             /\ Told(ev, None, announced \/ EndsTheSession(f), pumped)
             /\ Cardinality(ShownIn(ev)) = Cardinality(ShownIn(events)) + 1
PROOF
<1> DEFINE e   == EventOf(f)
           ev1 == Append(events, e)
           ev2 == Append(ev1, Said)
<1>1. /\ events \in Seq(Events) /\ sent \in Bytes /\ announced \in BOOLEAN /\ pumped \in Nat
      /\ TailLines \in Nat /\ TailLines # 0
  BY Counted DEF TypeInv
<1>2. e \in Events /\ e.on # "core-status" /\ FrameOf(e) = f
  <2>1. IsTag(f.tag) /\ IsValue(f.value)
    BY DEF Carries
  <2> QED BY <2>1, EventIsFrame DEF Events
<1> HIDE DEF e
<1>3. Carried(sent, ev1)
  BY <1>1, <1>2, CarriedMore
<1>4. /\ ev1 \in Seq(Events) /\ StatusesIn(ev1) = StatusesIn(events)
      /\ Cardinality(ShownIn(ev1)) = Cardinality(ShownIn(events)) + 1
      /\ Len(events) + 1 \in ShownIn(ev1) /\ ev1[Len(events) + 1] = e
  BY <1>1, <1>2, AppendShown
<1>5. CASE EndsTheSession(f) /\ ~announced
  <2>1. Said \in Events /\ Said.on = "core-status"
    BY DEF Said, Events, Endings
  <2>2. TellsWhy(Said, None, TRUE, pumped)
    BY <1>1 DEF TellsWhy, Said, None, NoText
  <2>3. \E k \in ShownIn(ev1) : EndsTheSession(FrameOf(ev1[k]))
    BY <1>2, <1>4, <1>5
  <2>4. StatusesIn(ev1) = {}
    BY <1>4, <1>5 DEF Told
  <2> HIDE DEF ev1
  <2>5. Told(ev2, None, TRUE, pumped)
    BY <1>1, <1>4, <2>1, <2>2, <2>3, <2>4, ToldEnd
  <2>6. Carried(sent, ev2)
    BY <1>1, <1>3, <1>4, <2>1, CarriedMore
  <2>7. ev2 \in Seq(Events) /\ ShownIn(ev2) = ShownIn(ev1)
    BY <1>4, <2>1, AppendShown
  <2>8. ev1 \o <<Said>> = ev2
    BY <1>4, <2>1
  <2>9. (announced \/ EndsTheSession(f)) = TRUE
    BY <1>5
  <2> HIDE DEF ev2
  <2> QED BY <1>4, <1>5, <2>5, <2>6, <2>7, <2>8, <2>9 DEF ev1, e
<1>6. CASE ~ (EndsTheSession(f) /\ ~announced)
  <2>1. Told(ev1, None, announced, pumped)
    BY <1>1, <1>2, <1>6, ToldFrame
  <2>2. (announced \/ EndsTheSession(f)) = announced
    BY <1>1, <1>6
  <2> HIDE DEF ev1
  <2>3. ev1 \o <<>> = ev1
    BY <1>4
  <2> QED BY <1>3, <1>4, <1>6, <2>1, <2>2, <2>3 DEF ev1, e
<1> QED BY <1>5, <1>6

LEMMA TakeLineStep ==
  ASSUME IInv, TakeLine
  PROVE  IInv'
PROOF
<1> DEFINE p    == CHOOSE i \in DOMAIN buf : buf[i] = LF /\ \A k \in 1..(i - 1) : buf[k] # LF
           l    == line \o SubSeq(buf, 1, p - 1)
           rest == SubSeq(buf, p + 1, Len(buf))
           f    == DecodeLine(l)
           n    == Cardinality(ShownIn(events))
<1>1. /\ TypeInv /\ over = None /\ Placed(sent, line, buf, wire, events)
      /\ Carried(sent, events) /\ Told(events, None, announced, pumped)
  BY DEF IInv, TakeLine
<1>2. LF \in ToSet(buf) /\ line' = <<>> /\ buf' = rest /\ UNCHANGED <<sent, wire, pumped, tail>>
  BY DEF TakeLine
<1>3. PICK b \in Nat : Reading(sent, line, buf, wire, b) /\ n = Upto(Ends(sent), b)
  BY <1>1 DEF Placed
<1>4. /\ l \in Bytes /\ rest \in Bytes
      /\ Reading(sent, <<>>, rest, wire, b + Len(l) + 1)
      /\ b + Len(l) + 1 \in Nat
      /\ Upto(Ends(sent), b + Len(l) + 1) = n + 1
      /\ LineAt(sent, n + 1) = l
      /\ n # Cardinality(Ends(sent))
  BY <1>1, <1>2, <1>3, TakenLine
<1>5. line' \in Bytes /\ buf' \in Bytes /\ Len(l) \in Nat /\ MaxFrame \in Nat
  <2>1. line' \in Bytes
    BY <1>2 DEF Bytes
  <2> HIDE DEF l, rest
  <2>2. Len(l) \in Nat
    BY <1>4 DEF Bytes
  <2> QED BY <1>1, <1>2, <1>4, <2>1, <2>2, Counted
<1>6. CASE Len(l) + 1 > MaxFrame \/ f = Malformed
  <2>1. EndOver("malformed", "ReadError")
    BY <1>6 DEF TakeLine
  <2> HIDE DEF l
  <2>2. \A g \in Candidates(l) : ~Carries(l, g)
    <3>1. \A g : Carries(l, g) => Len(l) + 1 <= MaxFrame
      BY DEF Carries
    <3>2. CASE Len(l) + 1 > MaxFrame
      BY <1>5, <3>1, <3>2
    <3>3. CASE f = Malformed
      BY <1>4, <3>3, Refused
    <3> QED BY <1>6, <3>2, <3>3
  <2> HIDE DEF n
  <2>3. Stopped(sent, n, "malformed")
    BY <1>4, <2>2 DEF Stopped
  <2>4. "malformed" \in Stops /\ "ReadError" \in {"ReadError", "ConnectionClosed"}
    BY DEF Stops
  <2>5. Stopped(sent, Cardinality(ShownIn(events)), "malformed")
    BY <2>3 DEF n
  <2> QED BY <1>1, <1>2, <1>5, <2>1, <2>4, <2>5, Ended
<1>7. CASE ~ (Len(l) + 1 > MaxFrame \/ f = Malformed)
  <2> DEFINE ev == Append(events, EventOf(f)) \o IF EndsTheSession(f) /\ ~announced THEN <<Said>> ELSE <<>>
  <2>1. events' = ev /\ announced' = (announced \/ EndsTheSession(f)) /\ over' = over
    BY <1>7 DEF TakeLine
  <2>2. f \in Frames /\ Carries(l, f)
    <3> HIDE DEF l
    <3>1. Len(l) + 1 <= MaxFrame /\ DecodeLine(l) # Malformed
      BY <1>5, <1>7
    <3> QED BY <1>4, <3>1, FrameDecoded
  <2> HIDE DEF f, l
  <2>3. /\ ev \in Seq(Events) /\ Carried(sent, ev)
        /\ Told(ev, None, announced \/ EndsTheSession(f), pumped)
        /\ Cardinality(ShownIn(ev)) = n + 1
    BY <1>1, <1>4, <2>2, Dispatched
  <2> HIDE DEF ev, n, rest
  <2>4. Placed(sent', line', buf', wire', events')
    <3>1. Reading(sent', line', buf', wire', b + Len(l) + 1)
      BY <1>2, <1>4
    <3>2. Cardinality(ShownIn(events')) = Upto(Ends(sent'), b + Len(l) + 1)
      BY <1>2, <1>4, <2>1, <2>3
    <3> QED BY <1>4, <3>1, <3>2 DEF Placed
  <2>5. (announced \/ EndsTheSession(f)) \in BOOLEAN
    OBVIOUS
  <2>6. TypeInv'
    BY <1>1, <1>2, <1>5, <2>1, <2>3, <2>5 DEF TypeInv
  <2>7. Stopped(sent', Cardinality(ShownIn(events')), over')
    BY <1>1, <2>1 DEF Stopped, None
  <2>8. Carried(sent', events') /\ Told(events', over', announced', pumped')
    BY <1>1, <1>2, <2>1, <2>3
  <2>9. TailIs(tail', pumped')
    BY <1>2 DEF IInv
  <2> QED BY <2>4, <2>6, <2>7, <2>8, <2>9 DEF IInv
<1> QED BY <1>6, <1>7

\* StderrTail::push: the tail keeps the last lines, and its last line is the
\* last of stderr that is not blank.
LEMMA Pushed ==
  ASSUME TypeInv, TailIs(tail, pumped), pumped + 1 \in 1..Len(Complaints),
         NEW l \in STRING, l = Complaints[pumped + 1], l # NoText
  PROVE  LET t == Append(IF Len(tail) >= TailLines THEN Tail(tail) ELSE tail, l)
         IN  t \in Seq(STRING) /\ TailIs(t, pumped + 1)
PROOF
<1> DEFINE kept == IF Len(tail) >= TailLines THEN Tail(tail) ELSE tail
           t    == Append(kept, l)
           n    == Len(kept)
           p    == pumped + 1
<1>1. /\ tail \in Seq(STRING) /\ Len(tail) \in Nat /\ Len(tail) <= TailLines
      /\ pumped \in Nat /\ TailLines \in Nat /\ TailLines # 0
  BY Counted DEF TypeInv, TailIs
<1>2. /\ kept \in Seq(STRING) /\ n \in Nat /\ n + 1 <= TailLines
      /\ \A i \in 1..n : \E j \in 1..Len(tail) : kept[i] = tail[j]
  <2>1. CASE Len(tail) >= TailLines
    <3>1. tail # <<>>
      BY <1>1, <2>1
    <3>2. kept = Tail(tail)
      BY <2>1
    <3>3. /\ Tail(tail) \in Seq(STRING) /\ Len(Tail(tail)) = Len(tail) - 1
          /\ \A i \in 1..(Len(tail) - 1) : Tail(tail)[i] = tail[i + 1]
      BY <1>1, <3>1
    <3> DEFINE m == Len(tail)
    <3>4. m \in Nat /\ m <= TailLines /\ m # 0
      BY <1>1, <3>1
    <3>5. kept \in Seq(STRING) /\ n = m - 1 /\ \A i \in 1..(m - 1) : kept[i] = tail[i + 1]
      BY <3>2, <3>3
    <3> HIDE DEF kept, n, m
    <3>6. \A i \in 1..n : i + 1 \in 1..m
      BY <3>4, <3>5
    <3> QED BY <1>1, <3>4, <3>5, <3>6 DEF m
  <2>2. CASE ~ (Len(tail) >= TailLines)
    <3>1. kept = tail
      BY <2>2
    <3> QED BY <1>1, <2>2, <3>1
  <2> QED BY <2>1, <2>2
<1>3. \A i \in 1..Len(tail) : tail[i] # NoText /\ \E k \in 1..pumped : tail[i] = Complaints[k]
  BY DEF TailIs
<1> HIDE DEF kept, n
<1>4. \A i \in 1..n : kept[i] # NoText /\ \E k \in 1..p : kept[i] = Complaints[k]
  <2> TAKE i \in 1..n
  <2>1. PICK j \in 1..Len(tail) : kept[i] = tail[j]
    BY <1>2
  <2>2. PICK k \in 1..pumped : tail[j] = Complaints[k]
    BY <1>3
  <2>3. k \in 1..p
    BY <1>1
  <2> QED BY <1>3, <2>1, <2>2, <2>3
<1>5. /\ t \in Seq(STRING) /\ Len(t) = n + 1 /\ t[n + 1] = l
      /\ \A i \in 1..n : t[i] = kept[i]
  BY <1>2 DEF n
<1> HIDE DEF t
<1>6. p \in Nat /\ p \in 1..p /\ l = Complaints[p]
  BY <1>1
<1> HIDE DEF p
<1>7. \A i \in 1..Len(t) : t[i] # NoText /\ \E k \in 1..p : t[i] = Complaints[k]
  <2> TAKE i \in 1..Len(t)
  <2>1. i \in 1..n \/ i = n + 1
    BY <1>2, <1>5
  <2> QED BY <1>4, <1>5, <1>6, <2>1
<1>8. Last(t) = Complaints[p] /\ \A k \in (p + 1)..p : Complaints[k] = NoText
  BY <1>5, <1>6 DEF Last
<1>9. Len(t) <= TailLines
  BY <1>2, <1>5
<1>10. TailIs(t, p)
  BY <1>6, <1>7, <1>8, <1>9 DEF TailIs
<1> QED BY <1>5, <1>10 DEF t, kept, p

LEMMA PumpStep ==
  ASSUME IInv, Pump
  PROVE  IInv'
PROOF
<1> DEFINE l == Complaints[pumped + 1]
           p == pumped + 1
<1>1. /\ UNCHANGED <<sent, wire, buf, line, over, events, announced>>
      /\ pumped < Len(Complaints) /\ pumped' = p
      /\ l = NoText => tail' = tail
      /\ l # NoText => tail' = Append(IF Len(tail) >= TailLines THEN Tail(tail) ELSE tail, l)
  BY DEF Pump
<1>2. TypeInv /\ TailIs(tail, pumped) /\ Told(events, over, announced, pumped)
  BY DEF IInv
<1>3. pumped \in Nat /\ Len(Complaints) \in Nat /\ Complaints \in Seq(STRING)
  BY <1>2, Counted
<1>4. p \in 1..Len(Complaints) /\ p \in 0..Len(Complaints) /\ l \in STRING /\ p \in Nat
      /\ \A k \in 1..pumped : k \in 1..p
  BY <1>1, <1>3
<1>5. tail' \in Seq(STRING) /\ TailIs(tail', p)
  <2>1. CASE l = NoText
    <3>1. tail' = tail
      BY <1>1, <2>1
    <3>2. tail \in Seq(STRING)
      BY <1>2 DEF TypeInv
    <3>3. Len(tail) <= TailLines /\ \A i \in 1..Len(tail) : tail[i] # NoText /\ \E k \in 1..p : tail[i] = Complaints[k]
      BY <1>2, <1>4 DEF TailIs
    <3>4. ASSUME tail # <<>>
          PROVE  \E i \in 1..p : Complaints[i] = Last(tail) /\ \A k \in (i + 1)..p : Complaints[k] = NoText
      <4>1. PICK i \in 1..pumped : Complaints[i] = Last(tail) /\ \A k \in (i + 1)..pumped : Complaints[k] = NoText
        BY <1>2, <3>4 DEF TailIs
      <4>2. \A k \in (i + 1)..p : k \in (i + 1)..pumped \/ k = p
        BY <1>3
      <4>3. \A k \in (i + 1)..p : Complaints[k] = NoText
        BY <2>1, <4>1, <4>2
      <4> QED BY <1>4, <4>1, <4>3
    <3> HIDE DEF p
    <3>5. TailIs(tail, p)
      BY <3>3, <3>4 DEF TailIs
    <3> QED BY <3>1, <3>2, <3>5
  <2>2. CASE l # NoText
    BY <1>1, <1>2, <1>4, <2>2, Pushed
  <2> QED BY <2>1, <2>2
<1> HIDE DEF p
<1>6. Told(events', over', announced', pumped')
  <2>1. ASSUME NEW i \in StatusesIn(events), TellsWhy(events[i], over, announced, pumped)
        PROVE  TellsWhy(events[i], over, announced, p)
    BY <1>4, <2>1 DEF TellsWhy
  <2>2. \A i \in StatusesIn(events) : TellsWhy(events[i], over, announced, p)
    BY <1>2, <2>1 DEF Told
  <2>3. Told(events, over, announced, p)
    BY <1>2, <2>2 DEF Told
  <2> QED BY <1>1, <2>3
<1>7. TypeInv'
  BY <1>1, <1>2, <1>4, <1>5 DEF TypeInv
<1>8. TailIs(tail', pumped')
  BY <1>1, <1>5
<1>9. /\ over' = None => Placed(sent', line', buf', wire', events')
      /\ Carried(sent', events') /\ Stopped(sent', Cardinality(ShownIn(events')), over')
  BY <1>1 DEF IInv
<1> QED BY <1>6, <1>7, <1>8, <1>9 DEF IInv

THEOREM Invariant == Spec => []IInv
PROOF
<1>1. Init => IInv
  BY InitInv
<1>2. IInv /\ [Next]_vars => IInv'
  <2> SUFFICES ASSUME IInv, [Next]_vars PROVE IInv'
    OBVIOUS
  <2>1. CASE Arrive
    BY <2>1, ArriveStep
  <2>2. CASE TakePart
    BY <2>2, TakePartStep
  <2>3. CASE TakeLine
    BY <2>3, TakeLineStep
  <2>4. CASE Eof
    BY <2>4, EofStep
  <2>5. CASE ReadFails
    BY <2>5, ReadFailsStep
  <2>6. CASE Pump
    BY <2>6, PumpStep
  <2>7. CASE UNCHANGED vars
    BY <2>7 DEF vars, IInv, TypeInv
  <2> QED BY <2>1, <2>2, <2>3, <2>4, <2>5, <2>6, <2>7 DEF Next
<1> QED BY <1>1, <1>2, PTL DEF Spec

(***************************************************************************)
(* What the runs check                                                     *)
(***************************************************************************)
LEMMA NamesOfParts ==
  Shown = ShownIn(events) /\ Statuses = StatusesIn(events)
PROOF BY DEF Shown, Statuses, ShownIn, StatusesIn

\* reader.rs and wire.rs, read_frame and decode_line: however the bytes of a
\* core are cut into pieces, the window is told of every frame once, in order,
\* up to the first line that carries none; nothing of what follows it, and no
\* end in the middle of a frame passes for the end of the stream.
THEOREM FramesArrive == Spec => []FramesAsSent
PROOF
<1>1. ASSUME IInv PROVE FramesAsSent
  <2>1. Carried(sent, events) /\ Stopped(sent, Cardinality(ShownIn(events)), over)
    BY <1>1 DEF IInv
  <2> QED BY <2>1, NamesOfParts DEF FramesAsSent, Carried, Stopped
<1> QED BY <1>1, Invariant, PTL

\* reader.rs, the reader thread and disconnect_message: a window hears of the
\* end once, with the cause the stream gives, and what it quotes of stderr is
\* the last line that says something, of a tail that never outgrows its bound.
THEOREM EndToldOnce == Spec => []EndSaid
PROOF
<1>1. ASSUME IInv PROVE EndSaid
  <2>1. Told(events, over, announced, pumped) /\ TailIs(tail, pumped)
    BY <1>1 DEF IInv
  <2>2. announced \in BOOLEAN
    BY <1>1 DEF IInv, TypeInv
  <2>3. \A i \in StatusesIn(events) : TellsWhy(events[i], over, announced, pumped)
    BY <2>1 DEF Told
  <2>4. (Statuses = {}) = (over = None /\ ~announced)
    BY <2>1, NamesOfParts DEF Told
  <2>5. \A i, j \in Statuses : i = j
    BY <2>1, NamesOfParts DEF Told
  <2>6. ASSUME NEW i \in Statuses
        PROVE  /\ (events[i].why = "closed") = (\E k \in Shown : EndsTheSession(FrameOf(events[k])))
               /\ events[i].why # "closed" => (events[i].why = "ConnectionClosed") = (over = "eof")
               /\ events[i].quote # NoText /\ events[i].more < TailLines
               /\ events[i].quote # None => \E k \in 1..pumped : events[i].quote = Complaints[k]
    <3>1. TellsWhy(events[i], over, announced, pumped)
      BY <2>3, NamesOfParts
    <3>2. announced <=> \E k \in Shown : EndsTheSession(FrameOf(events[k]))
      BY <2>1, NamesOfParts DEF Told
    <3> QED BY <3>1, <3>2 DEF TellsWhy
  <2>7. /\ Len(tail) <= TailLines
        /\ tail # <<>> => \E i \in 1..pumped :
             /\ Complaints[i] = Last(tail)
             /\ \A k \in (i + 1)..pumped : Complaints[k] = NoText
    BY <2>1 DEF TailIs
  <2> QED BY <2>4, <2>5, <2>6, <2>7 DEF EndSaid
<1> QED BY <1>1, Invariant, PTL

\* Induction up to n, with a set of numbers for the predicate.
LEMMA Climb ==
  ASSUME NEW n \in Nat, NEW P, 0 \in P, \A i \in 1..n : i - 1 \in P => i \in P
  PROVE  \A i \in 0..n : i \in P
PROOF
<1> DEFINE bad == {i \in 0..n : i \notin P}
<1> SUFFICES ASSUME bad # {} PROVE FALSE
  OBVIOUS
<1>1. PICK i \in bad : \A k \in bad : i <= k
  <2>1. bad \in SUBSET Nat
    OBVIOUS
  <2> QED BY <2>1, LeastNumber
<1>2. i \in 0..n /\ i \notin P
  OBVIOUS
<1>3. i \in 1..n /\ i - 1 \in 0..n /\ ~ (i <= i - 1)
  BY <1>2
<1>4. i - 1 \notin bad
  <2> HIDE DEF bad
  <2> QED BY <1>1, <1>3
<1> QED BY <1>2, <1>3, <1>4

\* A fold of values of S over the places 1..n: what it starts from, and what
\* it does at each place.
Foldable(S, n, base, g) == n \in Nat /\ base \in S /\ g \in [1..n -> [S -> S]]
FoldOf(f, S, n, base, g) == f \in [0..n -> S] /\ f[0] = base /\ \A i \in 1..n : f[i] = g[i][f[i - 1]]

LEMMA FoldExists ==
  ASSUME NEW S, NEW n, NEW base, NEW g, Foldable(S, n, base, g)
  PROVE  \E f : FoldOf(f, S, n, base, g)
PROOF
<1> USE DEF Foldable, FoldOf
<1> DEFINE Fits(f, m) == f \in [0..n -> S] /\ f[0] = base /\ \A i \in 1..m : f[i] = g[i][f[i - 1]]
           P == {m \in 0..n : \E f : Fits(f, m)}
<1>1. 0 \in P
  <2> DEFINE f == [i \in 0..n |-> base]
  <2>1. Fits(f, 0)
    OBVIOUS
  <2>2. 0 \in 0..n
    OBVIOUS
  <2> HIDE DEF Fits
  <2> QED BY <2>1, <2>2
<1>2. ASSUME NEW m \in 1..n, m - 1 \in P PROVE m \in P
  <2>1. PICK f : Fits(f, m - 1)
    BY <1>2
  <2> DEFINE h == [f EXCEPT ![m] = g[m][f[m - 1]]]
  <2>2. m - 1 \in 0..n /\ f[m - 1] \in S /\ g[m][f[m - 1]] \in S /\ m \in 0..n
    BY <2>1
  <2>3. h \in [0..n -> S] /\ h[0] = base
    BY <2>1, <2>2
  <2>4. ASSUME NEW i \in 1..m PROVE h[i] = g[i][h[i - 1]]
    <3>1. i \in 0..n /\ i - 1 \in 0..n /\ i - 1 # m
      OBVIOUS
    <3>2. h[i - 1] = f[i - 1]
      BY <2>1, <3>1
    <3>3. CASE i = m
      BY <2>1, <2>2, <3>2, <3>3
    <3>4. CASE i # m
      <4>1. i \in 1..(m - 1)
        BY <3>4
      <4> QED BY <2>1, <3>1, <3>2, <3>4, <4>1
    <3> QED BY <3>3, <3>4
  <2>5. Fits(h, m)
    BY <2>3, <2>4
  <2> HIDE DEF Fits, h
  <2> QED BY <2>2, <2>5
<1>3. n \in P
  <2> HIDE DEF P
  <2>1. \A i \in 0..n : i \in P
    BY <1>1, <1>2, Climb
  <2> QED BY <2>1
<1>4. PICK f : Fits(f, n)
  BY <1>3
<1> QED BY <1>4

(***************************************************************************)
(* Starting a core                                                         *)
(***************************************************************************)
\* What a build leaves, place by place.
LEMMA BuildFields ==
  ASSUME NEW m \in Machine
  PROVE  /\ Build(m) \in Machine
         /\ Build(m).dest = BundleAlayacore(m) /\ Build(m).dir = TRUE
         /\ Build(m).rgDest = IF m.rgDest = "real" \/ m.rgOnPath THEN "real" ELSE "stub"
         /\ Build(m).env = m.env /\ Build(m).which = m.which /\ Build(m).candidate = m.candidate
         /\ Build(m).installed = m.installed /\ Build(m).rgOnPath = m.rgOnPath
PROOF
<1> DEFINE n == [m EXCEPT !.dest = BundleAlayacore(m), !.dir = TRUE]
           R == [dest : File, dir : BOOLEAN, env : File \cup {"directory"}, which : {"absent", "real"},
                 candidate : {"absent", "real"}, installed : BOOLEAN, rgDest : File, rgOnPath : BOOLEAN]
<1>1. m \in R /\ BundleAlayacore(m) \in File
  BY DEF Machine, BundleAlayacore, File
<1>2. /\ n \in R /\ n.dest = BundleAlayacore(m) /\ n.dir = TRUE /\ n.rgDest = m.rgDest
      /\ n.env = m.env /\ n.which = m.which /\ n.candidate = m.candidate
      /\ n.installed = m.installed /\ n.rgOnPath = m.rgOnPath
  BY <1>1
<1> HIDE DEF n
<1>3. Build(m) = [n EXCEPT !.rgDest = BundleRipgrep(n)]
  BY DEF Build, n
<1>4. BundleRipgrep(n) = (IF m.rgDest = "real" \/ m.rgOnPath THEN "real" ELSE "stub") /\ BundleRipgrep(n) \in File
  BY <1>2 DEF BundleRipgrep, File
<1>5. Build(m) \in R /\ Build(m).dir
  BY <1>2, <1>3, <1>4
<1>6. Build(m) \in Machine
  BY <1>5 DEF Machine
<1> QED BY <1>2, <1>3, <1>4, <1>6

LEMMA FindsSound ==
  ASSUME NEW n \in Machine
  PROVE  LET where == FindBinary(n)
         IN  /\ where = "bundled" => Found(n, where) = "real"
             /\ n.env \in {"absent", "real"} /\ "real" \in {Bundled(n), n.env, n.which, n.candidate}
                  => Runs(Found(n, where))
             /\ "bundle" \in ToSet(PathOf(n)) => n.rgDest = "real" /\ n.installed
PROOF
<1>1. n.env \in File \cup {"directory"} /\ n.which \in {"absent", "real"} /\ n.candidate \in {"absent", "real"}
  BY DEF Machine
<1>2. FindBinary(n) = "bundled" => Bundled(n) = "real"
  BY DEF FindBinary
<1>3. Bundled(n) = "real" => n.installed
  BY DEF Bundled
<1>4. ASSUME "bundle" \in ToSet(PathOf(n)) PROVE FindBinary(n) = "bundled" /\ n.rgDest = "real"
  BY <1>4 DEF PathOf, ToSet
<1>5. ASSUME n.env \in {"absent", "real"}, "real" \in {Bundled(n), n.env, n.which, n.candidate}
      PROVE  Runs(Found(n, FindBinary(n)))
  BY <1>1, <1>5 DEF FindBinary, Found, Runs
<1>6. FindBinary(n) = "bundled" => Found(n, FindBinary(n)) = "real"
  BY <1>2 DEF Found
<1> QED BY <1>2, <1>3, <1>4, <1>5, <1>6

LEMMA LaunchAlwaysSound ==
  ASSUME NEW m \in Machine
  PROVE  LaunchSound(m)
PROOF
<1> DEFINE once == Build(m)
           twice == Build(once)
           again == Build(twice)
<1> HIDE DEF once, twice, again
<1>1. once \in Machine /\ twice \in Machine /\ again \in Machine
  BY BuildFields DEF once, twice, again
<1>2. /\ once.dest = BundleAlayacore(m) /\ once.dir = TRUE
      /\ once.rgDest = IF m.rgDest = "real" \/ m.rgOnPath THEN "real" ELSE "stub"
      /\ once.env = m.env /\ once.which = m.which /\ once.candidate = m.candidate
      /\ once.installed = m.installed /\ once.rgOnPath = m.rgOnPath
  BY BuildFields DEF once
<1>3. /\ twice.dest = BundleAlayacore(once) /\ twice.dir = TRUE
      /\ twice.rgDest = IF once.rgDest = "real" \/ once.rgOnPath THEN "real" ELSE "stub"
      /\ twice.env = once.env /\ twice.which = once.which /\ twice.candidate = once.candidate
      /\ twice.installed = once.installed /\ twice.rgOnPath = once.rgOnPath
  BY <1>1, BuildFields DEF twice
<1>4. /\ again.dest = BundleAlayacore(twice) /\ again.dir = TRUE
      /\ again.rgDest = IF twice.rgDest = "real" \/ twice.rgOnPath THEN "real" ELSE "stub"
      /\ again.env = twice.env /\ again.which = twice.which /\ again.candidate = twice.candidate
      /\ again.installed = twice.installed /\ again.rgOnPath = twice.rgOnPath
  BY <1>1, BuildFields DEF again
<1>5. once.dest # "absent" /\ once.rgDest # "absent"
  BY <1>2 DEF BundleAlayacore
<1>6. ASSUME FindAlayacore(m), m.env # "stub" PROVE twice.dest = "real"
  BY <1>2, <1>3, <1>6 DEF BundleAlayacore, FindAlayacore
<1>7. m.rgOnPath => once.rgDest = "real"
  BY <1>2
<1>8. again = twice
  <2>1. again.dest = twice.dest
    BY <1>2, <1>3, <1>4 DEF BundleAlayacore, FindAlayacore
  <2>2. again.rgDest = twice.rgDest
    BY <1>2, <1>3, <1>4
  <2> QED BY <1>1, <1>3, <1>4, <2>1, <2>2 DEF Machine
<1> QED BY <1>1, <1>5, <1>6, <1>7, <1>8, FindsSound DEF LaunchSound, once, twice, again

\* Flags are put one after the other, each of them once: these are those given.
Once(argv, given) ==
  /\ argv \in Seq(given)
  /\ \A g \in given : \E i \in DOMAIN argv : argv[i] = g
  /\ \A i, j \in DOMAIN argv : argv[i].flag = argv[j].flag => i = j

LEMMA OncePut ==
  ASSUME NEW argv, NEW given, Once(argv, given), NEW f, NEW v, \A g \in given : g.flag # f
  PROVE  Once(argv \o Flag(f, v), given \cup {[flag |-> f, value |-> v]})
PROOF
<1> DEFINE new == [flag |-> f, value |-> v]
           all == argv \o <<new>>
           more == given \cup {new}
           n == Len(argv)
<1>1. argv \in Seq(given) /\ n \in Nat /\ DOMAIN argv = 1..n
  BY DEF Once
<1>2. new.flag = f
  OBVIOUS
<1> HIDE DEF new
<1>3. /\ argv \in Seq(more) /\ new \in more
      /\ DOMAIN all = 1..(n + 1) /\ \A i \in 1..n : all[i] = argv[i]
      /\ all[n + 1] = new
  BY <1>1
<1>4. all \in Seq(more)
  BY <1>3
<1> HIDE DEF n, all
<1>5. \A i \in 1..n : argv[i] \in given
  BY <1>1
<1>6. \A g \in more : \E i \in DOMAIN all : all[i] = g
  <2>1. ASSUME NEW g \in given PROVE \E i \in DOMAIN all : all[i] = g
    <3>1. PICK i \in DOMAIN argv : argv[i] = g
      BY DEF Once
    <3> QED BY <1>1, <1>3, <3>1
  <2>2. n + 1 \in DOMAIN all
    BY <1>1, <1>3
  <2> QED BY <1>3, <2>1, <2>2
<1>7. ASSUME NEW i \in DOMAIN all, NEW j \in DOMAIN all, all[i].flag = all[j].flag PROVE i = j
  <2>1. i \in Nat /\ j \in Nat /\ (i \in 1..n \/ i = n + 1) /\ (j \in 1..n \/ j = n + 1)
    BY <1>1, <1>3
  <2>2. CASE i \in 1..n /\ j \in 1..n
    BY <1>1, <1>3, <1>7, <2>2 DEF Once
  <2>3. CASE i \in 1..n /\ j = n + 1
    BY <1>1, <1>2, <1>3, <1>5, <1>7, <2>3
  <2>4. CASE i = n + 1 /\ j \in 1..n
    BY <1>1, <1>2, <1>3, <1>5, <1>7, <2>4
  <2> QED BY <2>1, <2>2, <2>3, <2>4
<1>8. Once(all, more)
  BY <1>4, <1>6, <1>7 DEF Once
<1> QED BY <1>8 DEF Flag, all, new

LEMMA OnceNot ==
  ASSUME NEW argv, NEW given, Once(argv, given)
  PROVE  Once(argv \o <<>>, given)
PROOF
<1>1. argv \o <<>> = argv
  BY DEF Once
<1> QED BY <1>1

\* The options that are set, with the value of each.
GivenOptions(o) ==
  {[flag |-> "rawio", value |-> NoValue]}
  \cup (IF o.config # NoValue THEN {[flag |-> "config-path", value |-> o.config]} ELSE {})
  \cup (IF o.session # NoValue THEN {[flag |-> "session", value |-> o.session]} ELSE {})
  \cup (IF o.confirm # NoValue THEN {[flag |-> "tool-confirm", value |-> o.confirm]} ELSE {})
  \cup (IF o.tools # {} THEN {[flag |-> "builtin-tools", value |-> CHOOSE t \in o.tools : TRUE]} ELSE {})
  \cup (IF o.system # NoValue THEN {[flag |-> "system", value |-> o.system]} ELSE {})
  \cup (IF o.reasoning \in 0..2 THEN {[flag |-> "reasoning-level", value |-> o.reasoning]} ELSE {})

LEMMA ArgvIsGiven ==
  ASSUME NEW o \in Options
  PROVE  Once(Argv(o), GivenOptions(o))
PROOF
<1> DEFINE tool == CHOOSE t \in o.tools : TRUE
           g1 == {[flag |-> "rawio", value |-> NoValue]}
           g2 == g1 \cup (IF o.config # NoValue THEN {[flag |-> "config-path", value |-> o.config]} ELSE {})
           g3 == g2 \cup (IF o.session # NoValue THEN {[flag |-> "session", value |-> o.session]} ELSE {})
           g4 == g3 \cup (IF o.confirm # NoValue THEN {[flag |-> "tool-confirm", value |-> o.confirm]} ELSE {})
           g5 == g4 \cup (IF o.tools # {} THEN {[flag |-> "builtin-tools", value |-> tool]} ELSE {})
           g6 == g5 \cup (IF o.system # NoValue THEN {[flag |-> "system", value |-> o.system]} ELSE {})
           g7 == g6 \cup (IF o.reasoning \in 0..2 THEN {[flag |-> "reasoning-level", value |-> o.reasoning]} ELSE {})
           a1 == Flag("rawio", NoValue)
           a2 == a1 \o (IF o.config # NoValue THEN Flag("config-path", o.config) ELSE <<>>)
           a3 == a2 \o (IF o.session # NoValue THEN Flag("session", o.session) ELSE <<>>)
           a4 == a3 \o (IF o.confirm # NoValue THEN Flag("tool-confirm", o.confirm) ELSE <<>>)
           a5 == a4 \o (IF o.tools # {} THEN Flag("builtin-tools", tool) ELSE <<>>)
           a6 == a5 \o (IF o.system # NoValue THEN Flag("system", o.system) ELSE <<>>)
           a7 == a6 \o (IF o.reasoning \in 0..2 THEN Flag("reasoning-level", o.reasoning) ELSE <<>>)
<1>1. Argv(o) = a7
  BY DEF Argv
<1>2. GivenOptions(o) = g7
  BY DEF GivenOptions
<1> HIDE DEF tool
<1>3. Once(a1, g1) /\ \A g \in g1 : g.flag = "rawio"
  BY DEF Once, Flag
<1> HIDE DEF a1, g1
<1>4. Once(a2, g2) /\ \A g \in g2 : g.flag \in {"rawio", "config-path"}
  <2>1. \A g \in g1 : g.flag # "config-path"
    BY <1>3
  <2>2. CASE o.config # NoValue
    <3>1. a2 = a1 \o Flag("config-path", o.config) /\ g2 = g1 \cup {[flag |-> "config-path", value |-> o.config]}
      BY <2>2
    <3> HIDE DEF a2, g2
    <3>2. Once(a2, g2)
      BY <1>3, <2>1, <3>1, OncePut
    <3> QED BY <1>3, <3>1, <3>2
  <2>3. CASE ~ (o.config # NoValue)
    <3>1. a2 = a1 \o <<>> /\ g2 = g1
      BY <2>3
    <3> HIDE DEF a2, g2
    <3>2. Once(a2, g2)
      BY <1>3, <3>1, OnceNot
    <3> QED BY <1>3, <3>1, <3>2
  <2> QED BY <2>2, <2>3
<1> HIDE DEF a2, g2
<1>5. Once(a3, g3) /\ \A g \in g3 : g.flag \in {"rawio", "config-path", "session"}
  <2>1. \A g \in g2 : g.flag # "session"
    BY <1>4
  <2>2. CASE o.session # NoValue
    <3>1. a3 = a2 \o Flag("session", o.session) /\ g3 = g2 \cup {[flag |-> "session", value |-> o.session]}
      BY <2>2
    <3> HIDE DEF a3, g3
    <3>2. Once(a3, g3)
      BY <1>4, <2>1, <3>1, OncePut
    <3> QED BY <1>4, <3>1, <3>2
  <2>3. CASE ~ (o.session # NoValue)
    <3>1. a3 = a2 \o <<>> /\ g3 = g2
      BY <2>3
    <3> HIDE DEF a3, g3
    <3>2. Once(a3, g3)
      BY <1>4, <3>1, OnceNot
    <3> QED BY <1>4, <3>1, <3>2
  <2> QED BY <2>2, <2>3
<1> HIDE DEF a3, g3
<1>6. Once(a4, g4) /\ \A g \in g4 : g.flag \in {"rawio", "config-path", "session", "tool-confirm"}
  <2>1. \A g \in g3 : g.flag # "tool-confirm"
    BY <1>5
  <2>2. CASE o.confirm # NoValue
    <3>1. a4 = a3 \o Flag("tool-confirm", o.confirm) /\ g4 = g3 \cup {[flag |-> "tool-confirm", value |-> o.confirm]}
      BY <2>2
    <3> HIDE DEF a4, g4
    <3>2. Once(a4, g4)
      BY <1>5, <2>1, <3>1, OncePut
    <3> QED BY <1>5, <3>1, <3>2
  <2>3. CASE ~ (o.confirm # NoValue)
    <3>1. a4 = a3 \o <<>> /\ g4 = g3
      BY <2>3
    <3> HIDE DEF a4, g4
    <3>2. Once(a4, g4)
      BY <1>5, <3>1, OnceNot
    <3> QED BY <1>5, <3>1, <3>2
  <2> QED BY <2>2, <2>3
<1> HIDE DEF a4, g4
<1>7. Once(a5, g5) /\ \A g \in g5 : g.flag \in {"rawio", "config-path", "session", "tool-confirm", "builtin-tools"}
  <2>1. \A g \in g4 : g.flag # "builtin-tools"
    BY <1>6
  <2>2. CASE o.tools # {}
    <3>1. a5 = a4 \o Flag("builtin-tools", tool) /\ g5 = g4 \cup {[flag |-> "builtin-tools", value |-> tool]}
      BY <2>2
    <3> HIDE DEF a5, g5
    <3>2. Once(a5, g5)
      BY <1>6, <2>1, <3>1, OncePut
    <3> QED BY <1>6, <3>1, <3>2
  <2>3. CASE ~ (o.tools # {})
    <3>1. a5 = a4 \o <<>> /\ g5 = g4
      BY <2>3
    <3> HIDE DEF a5, g5
    <3>2. Once(a5, g5)
      BY <1>6, <3>1, OnceNot
    <3> QED BY <1>6, <3>1, <3>2
  <2> QED BY <2>2, <2>3
<1> HIDE DEF a5, g5
<1>8. Once(a6, g6) /\ \A g \in g6 : g.flag \in {"rawio", "config-path", "session", "tool-confirm", "builtin-tools", "system"}
  <2>1. \A g \in g5 : g.flag # "system"
    BY <1>7
  <2>2. CASE o.system # NoValue
    <3>1. a6 = a5 \o Flag("system", o.system) /\ g6 = g5 \cup {[flag |-> "system", value |-> o.system]}
      BY <2>2
    <3> HIDE DEF a6, g6
    <3>2. Once(a6, g6)
      BY <1>7, <2>1, <3>1, OncePut
    <3> QED BY <1>7, <3>1, <3>2
  <2>3. CASE ~ (o.system # NoValue)
    <3>1. a6 = a5 \o <<>> /\ g6 = g5
      BY <2>3
    <3> HIDE DEF a6, g6
    <3>2. Once(a6, g6)
      BY <1>7, <3>1, OnceNot
    <3> QED BY <1>7, <3>1, <3>2
  <2> QED BY <2>2, <2>3
<1> HIDE DEF a6, g6
<1>9. Once(a7, g7) /\ \A g \in g7 : g.flag \in {"rawio", "config-path", "session", "tool-confirm", "builtin-tools", "system", "reasoning-level"}
  <2>1. \A g \in g6 : g.flag # "reasoning-level"
    BY <1>8
  <2>2. CASE o.reasoning \in 0..2
    <3>1. a7 = a6 \o Flag("reasoning-level", o.reasoning) /\ g7 = g6 \cup {[flag |-> "reasoning-level", value |-> o.reasoning]}
      BY <2>2
    <3> HIDE DEF a7, g7
    <3>2. Once(a7, g7)
      BY <1>8, <2>1, <3>1, OncePut
    <3> QED BY <1>8, <3>1, <3>2
  <2>3. CASE ~ (o.reasoning \in 0..2)
    <3>1. a7 = a6 \o <<>> /\ g7 = g6
      BY <2>3
    <3> HIDE DEF a7, g7
    <3>2. Once(a7, g7)
      BY <1>8, <3>1, OnceNot
    <3> QED BY <1>8, <3>1, <3>2
  <2> QED BY <2>2, <2>3
<1> HIDE DEF a7, g7
<1> QED BY <1>1, <1>2, <1>9

\* The values given under a flag.
LEMMA ValuesGiven ==
  ASSUME NEW given, NEW f, NEW v, \A g \in given : g.flag = f => g = [flag |-> f, value |-> v]
  PROVE  {g.value : g \in {h \in given : h.flag = f}} =
           IF [flag |-> f, value |-> v] \in given THEN {v} ELSE {}
PROOF OBVIOUS

LEMMA ArgvAlwaysFaithful ==
  ASSUME NEW o \in Options
  PROVE  ArgvFaithful(o)
PROOF
<1> DEFINE argv == Argv(o)
           given == GivenOptions(o)
           Values(f) == {argv[i].value : i \in {k \in DOMAIN argv : argv[k].flag = f}}
           Want(f) == {g.value : g \in {h \in given : h.flag = f}}
<1>1. Once(argv, given)
  BY ArgvIsGiven
<1> HIDE DEF argv, given
<1>2. \A f : Values(f) = Want(f)
  <2> TAKE f
  <2>1. ASSUME NEW v \in Values(f) PROVE v \in Want(f)
    <3>1. PICK i \in DOMAIN argv : argv[i].flag = f /\ v = argv[i].value
      OBVIOUS
    <3>2. argv[i] \in given
      BY <1>1 DEF Once
    <3> QED BY <3>1, <3>2
  <2>2. ASSUME NEW v \in Want(f) PROVE v \in Values(f)
    <3>1. PICK g \in given : g.flag = f /\ v = g.value
      OBVIOUS
    <3>2. PICK i \in DOMAIN argv : argv[i] = g
      BY <1>1 DEF Once
    <3> QED BY <3>1, <3>2
  <2> QED BY <2>1, <2>2
<1>3. o.tools = {} \/ o.tools = {CHOOSE t \in o.tools : TRUE}
  BY DEF Options
<1> DEFINE tool == CHOOSE t \in o.tools : TRUE
<1> HIDE DEF tool
<1>4. \A g : g \in given <=>
        \/ g = [flag |-> "rawio", value |-> NoValue]
        \/ o.config # NoValue /\ g = [flag |-> "config-path", value |-> o.config]
        \/ o.session # NoValue /\ g = [flag |-> "session", value |-> o.session]
        \/ o.confirm # NoValue /\ g = [flag |-> "tool-confirm", value |-> o.confirm]
        \/ o.tools # {} /\ g = [flag |-> "builtin-tools", value |-> tool]
        \/ o.system # NoValue /\ g = [flag |-> "system", value |-> o.system]
        \/ o.reasoning \in 0..2 /\ g = [flag |-> "reasoning-level", value |-> o.reasoning]
  BY DEF given, GivenOptions, tool
<1>5. Want("builtin-tools") = IF o.tools # {} THEN {tool} ELSE {}
  <2>1. \A g \in given : g.flag = "builtin-tools" => g = [flag |-> "builtin-tools", value |-> tool]
    BY <1>4
  <2>2. [flag |-> "builtin-tools", value |-> tool] \in given <=> o.tools # {}
    BY <1>4
  <2>3. Want("builtin-tools") = IF [flag |-> "builtin-tools", value |-> tool] \in given THEN {tool} ELSE {}
    BY <2>1, ValuesGiven
  <2> QED BY <2>2, <2>3
<1>6. Want("system") = {o.system} \ {NoValue}
  <2>1. \A g \in given : g.flag = "system" => g = [flag |-> "system", value |-> o.system]
    BY <1>4
  <2>2. [flag |-> "system", value |-> o.system] \in given <=> o.system # NoValue
    BY <1>4
  <2>3. Want("system") = IF [flag |-> "system", value |-> o.system] \in given THEN {o.system} ELSE {}
    BY <2>1, ValuesGiven
  <2> QED BY <2>2, <2>3
<1>7. Want("tool-confirm") = {o.confirm} \ {NoValue}
  <2>1. \A g \in given : g.flag = "tool-confirm" => g = [flag |-> "tool-confirm", value |-> o.confirm]
    BY <1>4
  <2>2. [flag |-> "tool-confirm", value |-> o.confirm] \in given <=> o.confirm # NoValue
    BY <1>4
  <2>3. Want("tool-confirm") = IF [flag |-> "tool-confirm", value |-> o.confirm] \in given THEN {o.confirm} ELSE {}
    BY <2>1, ValuesGiven
  <2> QED BY <2>2, <2>3
<1>8. Want("config-path") = {o.config} \ {NoValue}
  <2>1. \A g \in given : g.flag = "config-path" => g = [flag |-> "config-path", value |-> o.config]
    BY <1>4
  <2>2. [flag |-> "config-path", value |-> o.config] \in given <=> o.config # NoValue
    BY <1>4
  <2>3. Want("config-path") = IF [flag |-> "config-path", value |-> o.config] \in given THEN {o.config} ELSE {}
    BY <2>1, ValuesGiven
  <2> QED BY <2>2, <2>3
<1>9. Want("session") = {o.session} \ {NoValue}
  <2>1. \A g \in given : g.flag = "session" => g = [flag |-> "session", value |-> o.session]
    BY <1>4
  <2>2. [flag |-> "session", value |-> o.session] \in given <=> o.session # NoValue
    BY <1>4
  <2>3. Want("session") = IF [flag |-> "session", value |-> o.session] \in given THEN {o.session} ELSE {}
    BY <2>1, ValuesGiven
  <2> QED BY <2>2, <2>3
<1>10. Want("reasoning-level") = {o.reasoning} \cap 0..2
  <2>1. \A g \in given : g.flag = "reasoning-level" => g = [flag |-> "reasoning-level", value |-> o.reasoning]
    BY <1>4
  <2>2. [flag |-> "reasoning-level", value |-> o.reasoning] \in given <=> o.reasoning \in 0..2
    BY <1>4
  <2>3. Want("reasoning-level") = IF [flag |-> "reasoning-level", value |-> o.reasoning] \in given THEN {o.reasoning} ELSE {}
    BY <2>1, ValuesGiven
  <2> QED BY <2>2, <2>3
<1>11. Want("builtin-tools") = o.tools
  BY <1>3, <1>5 DEF tool
<1>12. \A i, j \in DOMAIN argv : argv[i].flag = argv[j].flag => i = j
  BY <1>1 DEF Once
<1> HIDE DEF Want
<1> QED BY <1>2, <1>6, <1>7, <1>8, <1>9, <1>10, <1>11, <1>12 DEF ArgvFaithful, argv

\* What one argument does to the directory given so far.
OverrideStep(r, a) ==
  CASE r.next -> [r EXCEPT !.path = {a.value}, !.next = FALSE]
    [] ~r.next /\ a.is = "flag" -> [r EXCEPT !.next = TRUE]
    [] ~r.next /\ a.is = "joined" -> [r EXCEPT !.path = {a.value}]
    [] OTHER -> r

LEMMA OverrideSteps ==
  ASSUME NEW args \in Seq(Argument)
  PROVE  \E w : LET V == {args[i].value : i \in DOMAIN args}
                    S == [path : SUBSET V, next : BOOLEAN]
                IN  /\ w \in [0..Len(args) -> S]
                    /\ w[0] = [path |-> {}, next |-> FALSE]
                    /\ \A i \in 1..Len(args) : w[i] = OverrideStep(w[i - 1], args[i])
                    /\ Override(args).path = w[Len(args)].path
                    /\ Override(args).runs <=> ~ w[Len(args)].next
PROOF
<1> DEFINE V == {args[i].value : i \in DOMAIN args}
           S == [path : SUBSET V, next : BOOLEAN]
           n == Len(args)
           base == [path |-> {}, next |-> FALSE]
           g == [i \in 1..n |-> [r \in S |-> OverrideStep(r, args[i])]]
           is(f) == f = [i \in 0..n |-> IF i = 0 THEN base ELSE OverrideStep(f[i - 1], args[i])]
           w == CHOOSE f : is(f)
<1>1. n \in Nat /\ DOMAIN args = 1..n /\ \A i \in 1..n : args[i] \in Argument
  OBVIOUS
<1>2. base \in S
  OBVIOUS
<1> HIDE DEF n
<1>3. ASSUME NEW i \in 1..n, NEW r \in S PROVE OverrideStep(r, args[i]) \in S
  <2>1. args[i].value \in V
    BY <1>1
  <2> HIDE DEF V
  <2>2. {args[i].value} \in SUBSET V
    BY <2>1
  <2>3. r.path \in SUBSET V /\ r.next \in BOOLEAN
    OBVIOUS
  <2>4. OverrideStep(r, args[i]) \in {[r EXCEPT !.path = {args[i].value}, !.next = FALSE],
                                     [r EXCEPT !.next = TRUE], [r EXCEPT !.path = {args[i].value}], r}
    BY DEF OverrideStep
  <2> QED BY <2>2, <2>3, <2>4
<1> HIDE DEF S, base
<1>4. g \in [1..n -> [S -> S]]
  BY <1>3
<1>5. \E f : FoldOf(f, S, n, base, g)
  <2> HIDE DEF g
  <2>1. Foldable(S, n, base, g)
    BY <1>1, <1>2, <1>4 DEF Foldable
  <2> QED BY <2>1, FoldExists
<1>51. PICK f : f \in [0..n -> S] /\ f[0] = base /\ \A i \in 1..n : f[i] = g[i][f[i - 1]]
  <2> HIDE DEF g
  <2> QED BY <1>5 DEF FoldOf
<1>6. is(f)
  <2>1. ASSUME NEW i \in 1..n PROVE f[i] = OverrideStep(f[i - 1], args[i])
    <3>1. i - 1 \in 0..n
      BY <1>1
    <3>2. f[i - 1] \in S
      BY <1>51, <3>1
    <3>3. g[i][f[i - 1]] = OverrideStep(f[i - 1], args[i])
      BY <3>2
    <3> HIDE DEF g
    <3> QED BY <1>51, <3>3
  <2>2. f = [i \in 0..n |-> f[i]]
    BY <1>51
  <2>3. \A i \in 0..n : i # 0 => i \in 1..n
    BY <1>1
  <2> HIDE DEF g
  <2> QED BY <1>51, <2>1, <2>2, <2>3
<1>7. is(w)
  <2> HIDE DEF is
  <2> QED BY <1>6
<1>8. Override(args).path = w[n].path /\ (Override(args).runs <=> ~ w[n].next)
  <2> DEFINE ended == ~ w[n].next
  <2>1. Override(args) = [runs |-> ended, path |-> w[n].path]
    BY DEF Override, OverrideStep, n, base
  <2> HIDE DEF ended, w
  <2>2. Override(args).path = w[n].path /\ Override(args).runs = ended
    BY <2>1
  <2> QED BY <2>2 DEF ended
<1> HIDE DEF w
<1>9. w[0] = base /\ \A i \in 1..n : w[i] = OverrideStep(w[i - 1], args[i])
  BY <1>1, <1>7
<1> DEFINE P == {i \in 0..n : w[i] \in S}
<1>10. 0 \in P /\ \A i \in 1..n : i - 1 \in P => i \in P
  BY <1>1, <1>2, <1>3, <1>9
<1>11. \A i \in 0..n : i \in P
  <2> HIDE DEF P
  <2> QED BY <1>1, <1>10, Climb
<1>12. w \in [0..n -> S]
  BY <1>7, <1>11
<1> QED BY <1>8, <1>9, <1>12 DEF n, S, base

LEMMA OverrideAlwaysLast ==
  ASSUME NEW args \in Seq(Argument)
  PROVE  LastOverride(args)
PROOF
<1> DEFINE V == {args[i].value : i \in DOMAIN args}
           S == [path : SUBSET V, next : BOOLEAN]
           n == Len(args)
<1>1. PICK w : /\ w \in [0..n -> S]
               /\ w[0] = [path |-> {}, next |-> FALSE]
               /\ \A i \in 1..n : w[i] = OverrideStep(w[i - 1], args[i])
               /\ Override(args).path = w[n].path
               /\ Override(args).runs <=> ~ w[n].next
  BY OverrideSteps
<1>2. n \in Nat /\ DOMAIN args = 1..n /\ (args # <<>> => n \in 1..n) /\ Last(args) = args[n]
  BY DEF Last
<1> HIDE DEF n
<1>3. w[n] \in S
  BY <1>1, <1>2
<1>4. Override(args).path \subseteq V
  BY <1>1, <1>3
<1>5. ASSUME \A i \in 1..n : args[i].is = "joined", args # <<>> PROVE Override(args).path = {args[n].value}
  <2> DEFINE P == {i \in 0..n : ~ w[i].next}
  <2>1. 0 \in P
    BY <1>1, <1>2
  <2>2. ASSUME NEW i \in 1..n, i - 1 \in P PROVE w[i] = [w[i - 1] EXCEPT !.path = {args[i].value}]
    BY <1>1, <1>5, <2>2 DEF OverrideStep
  <2>3. ASSUME NEW i \in 1..n, i - 1 \in P PROVE i \in P
    <3>1. i - 1 \in 0..n /\ w[i - 1] \in S
      BY <1>1, <1>2
    <3>2. w[i] = [w[i - 1] EXCEPT !.path = {args[i].value}] /\ ~ w[i - 1].next
      BY <2>2, <2>3
    <3> HIDE DEF V
    <3>3. ~ w[i].next
      BY <3>1, <3>2
    <3> QED BY <1>2, <3>3
  <2>4. \A i \in 0..n : i \in P
    <3> HIDE DEF P
    <3> QED BY <1>2, <2>1, <2>3, Climb
  <2>5. n \in 1..n /\ n - 1 \in 0..n
    BY <1>2, <1>5
  <2>6. w[n - 1] \in S /\ w[n] = [w[n - 1] EXCEPT !.path = {args[n].value}]
    BY <1>1, <2>2, <2>4, <2>5
  <2>7. w[n].path = {args[n].value}
    BY <2>6
  <2> QED BY <1>1, <2>7
<1>6. ASSUME args # <<>>, args[n].is = "flag", \A i \in 1..(n - 1) : args[i].is # "flag"
      PROVE  ~ Override(args).runs
  <2> DEFINE P == {i \in 0..(n - 1) : ~ w[i].next}
  <2>0. n \in 1..n /\ n - 1 \in Nat
    BY <1>2, <1>6
  <2>1. 0 \in P
    BY <1>1, <2>0
  <2>2. ASSUME NEW i \in 1..(n - 1), i - 1 \in P PROVE i \in P
    <3>1. i \in 1..n /\ i \in 0..(n - 1) /\ i - 1 \in 0..n /\ w[i - 1] \in S /\ ~ w[i - 1].next
      BY <1>1, <1>2, <2>0, <2>2
    <3>2. w[i] = OverrideStep(w[i - 1], args[i]) /\ args[i].is # "flag"
      BY <1>1, <1>6, <3>1
    <3>3. ~ w[i].next
      BY <3>1, <3>2 DEF OverrideStep
    <3> QED BY <3>1, <3>3
  <2>3. \A i \in 0..(n - 1) : i \in P
    <3> HIDE DEF P
    <3> QED BY <2>0, <2>1, <2>2, Climb
  <2>4. n - 1 \in 0..(n - 1) /\ n - 1 \in 0..n
    BY <1>2, <2>0
  <2>5. ~ w[n - 1].next /\ w[n - 1] \in S
    BY <1>1, <2>3, <2>4
  <2>6. w[n] = OverrideStep(w[n - 1], args[n])
    BY <1>1, <2>0
  <2>7. w[n].next
    BY <1>6, <2>5, <2>6 DEF OverrideStep
  <2> QED BY <1>1, <2>7
<1> HIDE DEF V, S
<1> QED BY <1>2, <1>4, <1>5, <1>6 DEF LastOverride, V

(***************************************************************************)
(* Every behavior                                                          *)
(***************************************************************************)
\* The sample is the one the behavior began with.
LEMMA SampleGiven ==
  CodecsSpec => [](sample \in Samples \cup {Stream})
PROOF
<1>1. CodecsInit => sample \in Samples \cup {Stream}
  BY DEF CodecsInit
<1>2. sample \in Samples \cup {Stream} /\ [CodecsNext]_codecVars => (sample \in Samples \cup {Stream})'
  BY DEF CodecsNext, codecVars
<1> QED BY <1>1, <1>2, PTL DEF CodecsSpec

\* However often the application is built, and whatever is beside it, in the
\* variable, on PATH or in the usual places, it starts no stub, puts none on
\* PATH, and starts a core where there is one; every option of a session is on
\* the command line exactly when it is set; and of any number of directories
\* on the command line the last one is used.
THEOREM CoreLaunched == CodecsSpec => []LaunchesCore
PROOF
<1>1. ASSUME sample \in Samples \cup {Stream} PROVE LaunchesCore
  <2>1. CASE sample = Stream
    BY <2>1 DEF LaunchesCore, Stream
  <2>2. CASE sample \in Samples
    <3>1. sample.is = "launch" => LaunchSound(sample.machine)
      BY <2>2, SamplesAssumption, LaunchAlwaysSound
    <3>2. sample.is = "argv" => ArgvFaithful(sample.options)
      BY <2>2, SamplesAssumption, ArgvAlwaysFaithful
    <3>3. sample.is = "args" => LastOverride(sample.args)
      BY <2>2, SamplesAssumption, OverrideAlwaysLast
    <3> QED BY <3>1, <3>2, <3>3 DEF LaunchesCore
  <2> QED BY <1>1, <2>1, <2>2
<1> QED BY <1>1, SampleGiven, PTL

(***************************************************************************)
(* Names and paths                                                         *)
(***************************************************************************)
\* Two sequences, one after the other.
LEMMA TwoParts ==
  ASSUME NEW S, NEW a \in Seq(S), NEW b \in Seq(S)
  PROVE  /\ a \o b \in Seq(S) /\ Len(a) \in Nat /\ Len(b) \in Nat
         /\ Len(a \o b) = Len(a) + Len(b) /\ DOMAIN (a \o b) = 1..(Len(a) + Len(b))
         /\ \A i \in 1..Len(a) : (a \o b)[i] = a[i]
         /\ \A i \in 1..Len(b) : (a \o b)[Len(a) + i] = b[i]
PROOF
<1> DEFINE c == a \o b
<1>1. c \in Seq(S) /\ Len(c) = Len(a) + Len(b)
  BY ConcatProperties
<1>2. \A i \in 1..(Len(a) + Len(b)) : c[i] = IF i <= Len(a) THEN a[i] ELSE b[i - Len(a)]
  BY ConcatProperties
<1>3. Len(a) \in Nat /\ Len(b) \in Nat
  OBVIOUS
<1> HIDE DEF c
<1>4. DOMAIN c = 1..(Len(a) + Len(b))
  BY <1>1
<1>5. \A i \in 1..Len(a) : c[i] = a[i]
  BY <1>2, <1>3
<1>6. \A i \in 1..Len(b) : c[Len(a) + i] = b[i]
  <2> TAKE i \in 1..Len(b)
  <2>1. Len(a) + i \in 1..(Len(a) + Len(b)) /\ ~ (Len(a) + i <= Len(a)) /\ (Len(a) + i) - Len(a) = i
    BY <1>3
  <2> QED BY <1>2, <2>1
<1> QED BY <1>1, <1>3, <1>4, <1>5, <1>6 DEF c

\* A path as it is normalized, one component after the other.
Normalizing(p, w) == w[0] = <<>> /\ \A i \in 1..Len(p) : w[i] = Entered(w[i - 1], p[i])

LEMMA NormalSteps ==
  ASSUME NEW N, NEW p \in Seq(N)
  PROVE  \E w : /\ Normalizing(p, w) /\ Normalized(p) = w[Len(p)]
                /\ \A i \in 0..Len(p) : w[i] \in Seq(N \ Dots)
PROOF
<1> DEFINE C == N \ Dots
           S == Seq(C)
           n == Len(p)
           base == <<>>
           g == [i \in 1..n |-> [out \in S |-> Entered(out, p[i])]]
           is(f) == f = [i \in 0..n |-> IF i = 0 THEN base ELSE Entered(f[i - 1], p[i])]
           w == CHOOSE f : is(f)
<1>1. n \in Nat /\ DOMAIN p = 1..n /\ \A i \in 1..n : p[i] \in N
  OBVIOUS
<1>2. base \in S
  OBVIOUS
<1>3. ASSUME NEW i \in 1..n, NEW out \in S PROVE Entered(out, p[i]) \in S
  <2>1. CASE p[i] = <<".", ".">>
    <3>1. CASE out = <<>>
      BY <2>1, <3>1 DEF Entered
    <3>2. CASE out # <<>>
      <4> HIDE DEF C
      <4>1. Front(out) \in Seq(C)
        BY <3>2 DEF Front
      <4> QED BY <2>1, <3>2, <4>1 DEF Entered
    <3> QED BY <3>1, <3>2
  <2>2. CASE p[i] = <<".">>
    BY <2>2 DEF Entered
  <2>3. CASE p[i] # <<".", ".">> /\ p[i] # <<".">>
    <3>1. p[i] \in C
      BY <1>1, <2>3 DEF Dots
    <3>2. Entered(out, p[i]) = Append(out, p[i])
      BY <2>3 DEF Entered
    <3> HIDE DEF C
    <3> QED BY <3>1, <3>2
  <2> QED BY <2>1, <2>2, <2>3
<1> HIDE DEF S, base, n
<1>4. g \in [1..n -> [S -> S]]
  BY <1>3
<1>5. PICK f : f \in [0..n -> S] /\ f[0] = base /\ \A i \in 1..n : f[i] = g[i][f[i - 1]]
  <2> HIDE DEF g
  <2>1. Foldable(S, n, base, g)
    BY <1>1, <1>2, <1>4 DEF Foldable
  <2>2. \E f : FoldOf(f, S, n, base, g)
    BY <2>1, FoldExists
  <2> QED BY <2>2 DEF FoldOf
<1>6. is(f)
  <2>1. ASSUME NEW i \in 1..n PROVE f[i] = Entered(f[i - 1], p[i])
    <3>1. i - 1 \in 0..n
      BY <1>1
    <3>2. f[i - 1] \in S
      BY <1>5, <3>1
    <3>3. g[i][f[i - 1]] = Entered(f[i - 1], p[i])
      BY <3>2
    <3> HIDE DEF g
    <3> QED BY <1>5, <3>3
  <2>2. f = [i \in 0..n |-> f[i]]
    BY <1>5
  <2>3. \A i \in 0..n : i # 0 => i \in 1..n
    BY <1>1
  <2> HIDE DEF g
  <2> QED BY <1>5, <2>1, <2>2, <2>3
<1>7. is(w)
  <2> HIDE DEF is
  <2> QED BY <1>6
<1>8. Normalized(p) = w[n]
  BY DEF Normalized, base, n
<1> HIDE DEF w
<1>9. w[0] = base /\ \A i \in 1..n : w[i] = Entered(w[i - 1], p[i])
  BY <1>1, <1>7
<1> DEFINE P == {k \in 0..n : w[k] \in S}
<1>10. \A i \in 0..n : i \in P
  <2>1. 0 \in P /\ \A i \in 1..n : i - 1 \in P => i \in P
    BY <1>1, <1>2, <1>3, <1>9
  <2> HIDE DEF P
  <2> QED BY <1>1, <2>1, Climb
<1>11. \A i \in 0..n : w[i] \in S
  BY <1>10
<1> QED BY <1>8, <1>9, <1>11 DEF Normalizing, base, n, S

\* Where a path leads from which a path without dots goes on.
LEMMA NormalizedOver ==
  ASSUME NEW N, NEW p \in Seq(N), NEW q \in Seq(N), ToSet(q) \cap Dots = {}
  PROVE  Normalized(p \o q) = Normalized(p) \o q
PROOF
<1> DEFINE c == p \o q
           m == Len(p)
           n == Len(q)
<1>1. /\ c \in Seq(N) /\ m \in Nat /\ n \in Nat /\ Len(c) = m + n
      /\ (\A i \in 1..m : c[i] = p[i]) /\ \A i \in 1..n : c[m + i] = q[i]
  BY TwoParts
<1>2. PICK w : /\ Normalizing(c, w) /\ Normalized(c) = w[Len(c)]
               /\ \A i \in 0..Len(c) : w[i] \in Seq(N \ Dots)
  BY <1>1, NormalSteps
<1>3. PICK v : Normalizing(p, v) /\ Normalized(p) = v[m] /\ \A i \in 0..m : v[i] \in Seq(N \ Dots)
  BY NormalSteps
<1>4. \A i \in 1..n : q[i] \in ToSet(q) /\ q[i] \in N
  <2>1. DOMAIN q = 1..n
    OBVIOUS
  <2> QED BY <2>1 DEF ToSet
<1> HIDE DEF c, m, n
<1>5. w[m] = v[m]
  <2> DEFINE P == {i \in 0..m : w[i] = v[i]}
  <2>1. 0 \in P
    BY <1>1, <1>2, <1>3 DEF Normalizing
  <2>2. ASSUME NEW i \in 1..m, i - 1 \in P PROVE i \in P
    <3>1. i \in 1..Len(c) /\ i \in 0..m
      BY <1>1
    <3>2. w[i] = Entered(w[i - 1], p[i])
      BY <1>1, <1>2, <3>1 DEF Normalizing
    <3>3. v[i] = Entered(v[i - 1], p[i])
      BY <1>3 DEF Normalizing, m
    <3> QED BY <2>2, <3>1, <3>2, <3>3
  <2>3. \A i \in 0..m : i \in P
    <3> HIDE DEF P
    <3> QED BY <1>1, <2>1, <2>2, Climb
  <2> QED BY <1>1, <2>3
<1> DEFINE base == v[m]
<1>6. base \in Seq(N \ Dots)
  <2>1. m \in 0..m
    BY <1>1
  <2> QED BY <1>3, <2>1, Zenon
<1> HIDE DEF base
<1>7. base \in Seq(N)
  <2>1. \A L, M : L \subseteq M => Seq(L) \subseteq Seq(M)
    OBVIOUS
  <2>2. N \ Dots \subseteq N
    OBVIOUS
  <2> QED BY <1>6, <2>1, <2>2, Zenon
<1> DEFINE Q == {i \in 0..n : w[m + i] = base \o SubSeq(q, 1, i)}
<1>8. 0 \in Q
  <2>1. SubSeq(q, 1, 0) = <<>>
    BY SubSeqEmpty
  <2>2. base \o <<>> = base
    BY <1>7, ConcatEmptySeq
  <2>3. m + 0 = m /\ 0 \in 0..n
    BY <1>1
  <2>4. w[m + 0] = base \o SubSeq(q, 1, 0)
    BY <1>5, <2>1, <2>2, <2>3, Zenon DEF base
  <2> QED BY <2>3, <2>4
<1>9. ASSUME NEW i \in 1..n, i - 1 \in Q PROVE i \in Q
  <2>1. m + i \in 1..Len(c) /\ (m + i) - 1 = m + (i - 1) /\ i \in 0..n /\ i - 1 \in 0..n
    BY <1>1
  <2>2. w[m + i] = Entered(w[m + (i - 1)], q[i])
    BY <1>1, <1>2, <2>1 DEF Normalizing
  <2>3. w[m + i] = Append(w[m + (i - 1)], q[i])
    BY <1>4, <2>2 DEF Entered, Dots
  <2> DEFINE part == SubSeq(q, 1, i - 1)
  <2>4. part \in Seq(N) /\ SubSeq(q, 1, i) = part \o <<q[i]>>
    <3>1. 1 \in 1..Len(q) /\ i \in 1..Len(q)
      BY <1>1 DEF n
    <3>2. SubSeq(q, 1, i) = part \o <<q[i]>>
      BY <3>1, SubSeqRecursiveSecond
    <3>3. 1 \in Int /\ i - 1 \in Int /\ \A j \in 1..(i - 1) : q[j] \in N
      BY <1>1, <1>4
    <3> QED BY <3>2, <3>3, SubSeqProperties
  <2>5. w[m + (i - 1)] = base \o part
    BY <1>9
  <2> HIDE DEF part
  <2>6. Append(base \o part, q[i]) = base \o (part \o <<q[i]>>)
    <3> DEFINE one == <<q[i]>>
    <3>1. one \in Seq(N) /\ q[i] \in N
      BY <1>4
    <3>2. base \o part \in Seq(N)
      BY <1>7, <2>4, ConcatProperties
    <3>3. Append(base \o part, q[i]) = (base \o part) \o one
      BY <3>1, <3>2, AppendIsConcat
    <3> HIDE DEF one
    <3>4. (base \o part) \o one = base \o (part \o one)
      <4>1. base \in Seq(N) /\ part \in Seq(N) /\ one \in Seq(N)
        BY <1>7, <2>4, <3>1
      <4> QED BY <4>1, ConcatAssociative
    <3> QED BY <3>3, <3>4 DEF one
  <2> QED BY <2>1, <2>3, <2>4, <2>5, <2>6
<1>10. \A i \in 0..n : i \in Q
  <2> HIDE DEF Q
  <2> QED BY <1>1, <1>8, <1>9, Climb
<1>11. w[m + n] = base \o SubSeq(q, 1, n)
  <2>1. n \in 0..n
    BY <1>1
  <2>2. n \in Q
    BY <1>10, <2>1
  <2> QED BY <2>2
<1>12. SubSeq(q, 1, n) = q
  BY SubSeqFull DEF n
<1> QED BY <1>1, <1>2, <1>3, <1>11, <1>12 DEF c, base

\* No dots are left, and a path without dots stays as it is.
LEMMA NormalizedSettles ==
  ASSUME NEW N, NEW p \in Seq(N)
  PROVE  /\ Normalized(p) \in Seq(N) /\ ToSet(Normalized(p)) \cap Dots = {}
         /\ ToSet(p) \cap Dots = {} => Normalized(p) = p
PROOF
<1> DEFINE r == Normalized(p)
<1>1. r \in Seq(N \ Dots)
  <2>1. PICK w : Normalized(p) = w[Len(p)] /\ \A i \in 0..Len(p) : w[i] \in Seq(N \ Dots)
    BY NormalSteps
  <2>2. Len(p) \in 0..Len(p)
    OBVIOUS
  <2> QED BY <2>1, <2>2
<1> HIDE DEF r
<1>2. \A i \in DOMAIN r : r[i] \in N \ Dots
  BY <1>1
<1>3. r \in Seq(N)
  BY <1>1
<1>4. ASSUME ToSet(p) \cap Dots = {} PROVE r = p
  <2>1. <<>> \in Seq(N) /\ <<>> \o p = p
    BY ConcatEmptySeq
  <2>2. Normalized(<<>> \o p) = Normalized(<<>>) \o p
    BY <1>4, <2>1, NormalizedOver
  <2>3. Normalized(<<>>) = <<>>
    <3>1. PICK w : Normalizing(<<>>, w) /\ Normalized(<<>>) = w[Len(<<>>)]
      BY <2>1, NormalSteps
    <3> QED BY <3>1 DEF Normalizing
  <2> QED BY <2>1, <2>2, <2>3 DEF r
<1> QED BY <1>2, <1>3, <1>4 DEF r, ToSet

LEMMA AlwaysSettles ==
  ASSUME NEW p \in Written
  PROVE  ResolveSettles(p)
PROOF
<1> DEFINE resolved == Located(p)
           canonical == Normalized(resolved)
           r == FsResolvePath(p)
<1>1. p.from \in {"home", "root", "here"} /\ p.rest \in Path
  BY DEF Written
<1>2. resolved \in Path
  BY <1>1, PlacesAssumption DEF Located, Path, Join
<1>3. r = IF p.from = "here" /\ ~Walked(resolved) THEN Cwd \o canonical ELSE canonical
  BY DEF FsResolvePath, Join
<1>4. p.from = "here" => resolved = Cwd \o p.rest
  BY DEF Located, Join
<1>5. p.from = "root" => resolved = p.rest
  BY DEF Located
<1> HIDE DEF resolved, r
<1>6. /\ canonical \in Path /\ ToSet(canonical) \cap Dots = {}
      /\ ToSet(resolved) \cap Dots = {} => canonical = resolved
  BY <1>2, NormalizedSettles DEF Path
<1>7. p.from = "here" => canonical = Normalized(Cwd \o p.rest)
  BY <1>4
<1>11. Walked(resolved) => canonical \in {<<>>} \cup Existing
  <2>1. CASE resolved = <<>>
    BY <1>6, <2>1 DEF ToSet
  <2>2. CASE resolved # <<>>
    <3>1. Len(resolved) \in DOMAIN resolved
      BY <1>2, <2>2 DEF Path
    <3>2. SubSeq(resolved, 1, Len(resolved)) = resolved
      BY <1>2, SubSeqFull DEF Path
    <3> QED BY <3>1, <3>2 DEF Walked
  <2> QED BY <2>1, <2>2
<1> HIDE DEF canonical
<1>8. r \in Path /\ Dots \cap ToSet(r) = {}
  <2>1. CASE r = canonical
    BY <1>6, <2>1
  <2>2. CASE r = Cwd \o canonical
    <3>1. Cwd \in Path /\ ToSet(Cwd) \cap Dots = {}
      BY PlacesAssumption
    <3>2. r \in Path
      BY <1>6, <2>2, <3>1 DEF Path
    <3>3. ASSUME NEW i \in DOMAIN r PROVE r[i] \in ToSet(Cwd) \cup ToSet(canonical)
      <4>1. /\ Len(Cwd) \in Nat /\ Len(canonical) \in Nat /\ DOMAIN Cwd = 1..Len(Cwd)
            /\ DOMAIN canonical = 1..Len(canonical) /\ i \in 1..(Len(Cwd) + Len(canonical))
        BY <1>6, <2>2, <3>1, <3>3 DEF Path
      <4>2. CASE i <= Len(Cwd)
        BY <1>6, <2>2, <3>1, <4>1, <4>2 DEF Path, ToSet
      <4>3. CASE i > Len(Cwd)
        <5>1. i - Len(Cwd) \in DOMAIN canonical /\ r[i] = canonical[i - Len(Cwd)]
          BY <1>6, <2>2, <3>1, <4>1, <4>3 DEF Path
        <5> QED BY <5>1 DEF ToSet
      <4> QED BY <4>1, <4>2, <4>3
    <3>4. ToSet(r) \subseteq ToSet(Cwd) \cup ToSet(canonical)
      BY <3>3 DEF ToSet
    <3> QED BY <1>6, <3>1, <3>2, <3>4
  <2> QED BY <1>3, <2>1, <2>2
<1>9. FsResolvePath([from |-> "root", rest |-> r]) = r
  <2>1. Normalized(r) = r
    BY <1>8, NormalizedSettles DEF Path
  <2> QED BY <2>1 DEF FsResolvePath, Located
<1>10. p.from = "root" /\ Dots \cap ToSet(p.rest) = {} => r = p.rest
  BY <1>3, <1>5, <1>6
<1>12. Walked(resolved) => r = canonical
  BY <1>3
<1> QED BY <1>7, <1>8, <1>9, <1>10, <1>11, <1>12 DEF ResolveSettles, r, resolved

\* The names and the paths there are, with those the program makes.
Signs == STRING \cup {"p", "_", "base", "sessions", "plans"}
Names == Seq(Signs)

LEMMA NamesMade ==
  /\ Name \subseteq Names /\ Path \subseteq Seq(Names)
  /\ <<"p">> \in Names /\ <<"base">> \in Names /\ <<"sessions">> \in Names /\ <<"plans">> \in Names
PROOF
<1>1. \A L, M : L \subseteq M => Seq(L) \subseteq Seq(M)
  OBVIOUS
<1>2. STRING \subseteq Signs
  BY DEF Signs
<1>3. Name \subseteq Names
  BY <1>1, <1>2, Zenon DEF Name, Names
<1>4. Path \subseteq Seq(Names)
  BY <1>1, <1>3, Zenon DEF Path
<1>5. \A L : \A x \in L : <<x>> \in Seq(L)
  OBVIOUS
<1>6. "p" \in Signs /\ "base" \in Signs /\ "sessions" \in Signs /\ "plans" \in Signs
  BY DEF Signs
<1> QED BY <1>3, <1>4, <1>5, <1>6, Zenon DEF Names

LEMMA SanitizedName ==
  ASSUME NEW n \in Name
  PROVE  SanitizeDirComponent(n) \in Names
PROOF
<1>1. CASE n = <<>>
  <2>1. SanitizeDirComponent(n) = <<"p">>
    BY <1>1 DEF SanitizeDirComponent
  <2> QED BY <2>1, NamesMade
<1>2. CASE n # <<>>
  <2>1. SanitizeDirComponent(n) = [i \in DOMAIN n |-> IF n[i] \in Plain THEN n[i] ELSE "_"]
    BY <1>2 DEF SanitizeDirComponent
  <2>2. "_" \in Signs
    BY DEF Signs
  <2>3. n \in Seq(Signs)
    BY NamesMade DEF Names
  <2> HIDE DEF Signs
  <2>4. DOMAIN n = 1..Len(n) /\ Len(n) \in Nat /\ \A i \in 1..Len(n) : n[i] \in Signs
    BY <2>3
  <2>5. SanitizeDirComponent(n) \in [1..Len(n) -> Signs]
    BY <2>1, <2>2, <2>4
  <2> QED BY <2>4, <2>5 DEF Names
<1> QED BY <1>1, <1>2

\* A name that is made safe is safe, and a preset's name is safe as it is.
LEMMA SanitizedSafe ==
  ASSUME NEW n \in Name
  PROVE  /\ SafePathComponent(SanitizeDirComponent(n))
         /\ ValidPresetName(n) => SafePathComponent(n) /\ SanitizeDirComponent(n) = n
PROOF
<1>1. ASSUME NEW m \in Names, m # <<>>, \A i \in DOMAIN m : m[i] \in Plain
      PROVE  SafePathComponent(m)
  <2>1. 1 \in DOMAIN m
    BY <1>1 DEF Names
  <2>2. m[1] # "."
    BY <1>1, <2>1 DEF Plain
  <2>3. m \notin Dots
    BY <2>2 DEF Dots
  <2>4. ToSet(m) \cap Separators = {}
    BY <1>1 DEF ToSet, Plain, Separators
  <2> QED BY <1>1, <2>3, <2>4 DEF SafePathComponent
<1>2. SafePathComponent(SanitizeDirComponent(n))
  <2>1. CASE n = <<>>
    <3>1. SanitizeDirComponent(n) = <<"p">>
      BY <2>1 DEF SanitizeDirComponent
    <3> QED BY <3>1 DEF SafePathComponent, Dots, Separators, ToSet
  <2>2. CASE n # <<>>
    <3> DEFINE m == SanitizeDirComponent(n)
    <3>1. m = [i \in DOMAIN n |-> IF n[i] \in Plain THEN n[i] ELSE "_"]
      BY <2>2 DEF SanitizeDirComponent
    <3> HIDE DEF m
    <3>2. DOMAIN m = DOMAIN n /\ m \in Names
      BY <3>1, SanitizedName DEF m
    <3>3. m # <<>>
      BY <2>2, <3>2 DEF Name, Names
    <3>4. \A i \in DOMAIN m : m[i] \in Plain
      BY <3>1, <3>2 DEF Plain
    <3> QED BY <1>1, <3>2, <3>3, <3>4 DEF m
  <2> QED BY <2>1, <2>2
<1>3. ASSUME ValidPresetName(n) PROVE SafePathComponent(n) /\ SanitizeDirComponent(n) = n
  <2>1. n # <<>> /\ \A i \in DOMAIN n : n[i] \in Plain
    BY <1>3 DEF ValidPresetName, ToSet
  <2>2. SanitizeDirComponent(n) = n
    <3>1. n = [i \in DOMAIN n |-> n[i]]
      BY DEF Name
    <3>2. SanitizeDirComponent(n) = [i \in DOMAIN n |-> IF n[i] \in Plain THEN n[i] ELSE "_"]
      BY <2>1 DEF SanitizeDirComponent
    <3> QED BY <2>1, <3>1, <3>2
  <2> QED BY <1>1, <2>1, <2>2, NamesMade
<1> QED BY <1>2, <1>3

\* How many elements of S come before e, by their keys.
RankBy(S, key, e) == Cardinality({x \in S : key[x] < key[e]})
IsKey(S, key) == key \in [S -> Nat] /\ \A x, y \in S : key[x] = key[y] => x = y
InOrder(S, key, l) == l = [k \in 1..Cardinality(S) |-> CHOOSE e \in S : RankBy(S, key, e) = k - 1]

\* In a finite set every rank from 0 on is taken, once, and in the order of the keys.
LEMMA Ranks ==
  ASSUME NEW S, IsFiniteSet(S), NEW key, IsKey(S, key)
  PROVE  /\ Cardinality(S) \in Nat
         /\ \A e \in S : RankBy(S, key, e) \in 0..(Cardinality(S) - 1)
         /\ \A e, f \in S : RankBy(S, key, e) = RankBy(S, key, f) => e = f
         /\ \A e, f \in S : RankBy(S, key, e) < RankBy(S, key, f) => key[e] < key[f]
         /\ \A k \in 0..(Cardinality(S) - 1) : \E e \in S : RankBy(S, key, e) = k
PROOF
<1> DEFINE card   == Cardinality(S)
           low(e) == {x \in S : key[x] < key[e]}
           rank   == [e \in S |-> RankBy(S, key, e)]
<1>0. /\ \A e \in S : key[e] \in Nat
      /\ \A x, y \in S : key[x] = key[y] => x = y
  BY DEF IsKey
<1>1. card \in Nat
  BY FS_CardinalityType
<1>2. \A e : IsFiniteSet(low(e)) /\ Cardinality(low(e)) \in Nat
  BY FS_Subset, FS_CardinalityType
<1>3. \A e \in S : RankBy(S, key, e) \in 0..(card - 1)
  <2> TAKE e \in S
  <2>1. e \notin low(e)
    BY <1>0
  <2>2. low(e) \in SUBSET S /\ low(e) # S
    BY <2>1
  <2>3. Cardinality(low(e)) <= card /\ Cardinality(low(e)) # card
    BY <2>2, FS_Subset
  <2> QED BY <1>1, <1>2, <2>3 DEF RankBy
<1>4. \A e, f \in S : key[e] < key[f] => RankBy(S, key, e) < RankBy(S, key, f)
  <2> TAKE e, f \in S
  <2> HAVE key[e] < key[f]
  <2>1. low(e) \in SUBSET low(f)
    BY <1>0
  <2>2. e \in low(f) /\ e \notin low(e)
    BY <1>0
  <2>3. Cardinality(low(e)) <= Cardinality(low(f)) /\ Cardinality(low(e)) # Cardinality(low(f))
    BY <1>2, <2>1, <2>2, FS_Subset
  <2> QED BY <1>2, <2>3 DEF RankBy
<1>5. ASSUME NEW e \in S, NEW f \in S
      PROVE  /\ RankBy(S, key, e) = RankBy(S, key, f) => e = f
             /\ RankBy(S, key, e) < RankBy(S, key, f) => key[e] < key[f]
  <2>1. key[e] \in Nat /\ key[f] \in Nat /\ RankBy(S, key, e) \in Nat /\ RankBy(S, key, f) \in Nat
    BY <1>0, <1>1, <1>3
  <2>2. key[e] = key[f] => e = f
    BY <1>0
  <2> QED BY <1>4, <2>1, <2>2
<1>6. rank \in Injection(S, 0..(card - 1))
  BY <1>3, <1>5 DEF Injection, IsInjective
<1>7. IsFiniteSet(0..(card - 1)) /\ Cardinality(0..(card - 1)) = card
  <2>1. 0 \in Int /\ card - 1 \in Int
    BY <1>1
  <2> QED BY <1>1, <2>1, FS_Interval
<1>8. rank \in Surjection(S, 0..(card - 1))
  BY <1>6, <1>7, FS_Injection
<1>9. \A k \in 0..(card - 1) : \E e \in S : RankBy(S, key, e) = k
  BY <1>8 DEF Surjection
<1> QED BY <1>1, <1>3, <1>5, <1>9

\* A sequence that is sorted by its keys has every element once, in order.
LEMMA RankedIsWhole ==
  ASSUME NEW S, IsFiniteSet(S), NEW key, IsKey(S, key), NEW l, InOrder(S, key, l)
  PROVE  /\ l \in Seq(S) /\ Len(l) = Cardinality(S) /\ Cardinality(S) \in Nat
         /\ \A e \in S : \E k \in DOMAIN l : l[k] = e
         /\ \A i, j \in DOMAIN l : i < j => key[l[i]] < key[l[j]]
         /\ \A k \in 1..Cardinality(S) : l[k] \in S /\ RankBy(S, key, l[k]) = k - 1
PROOF
<1> DEFINE n == Cardinality(S)
<1>1. /\ n \in Nat
      /\ \A e \in S : RankBy(S, key, e) \in 0..(n - 1)
      /\ \A e, f \in S : RankBy(S, key, e) = RankBy(S, key, f) => e = f
      /\ \A e, f \in S : RankBy(S, key, e) < RankBy(S, key, f) => key[e] < key[f]
      /\ \A k \in 0..(n - 1) : \E e \in S : RankBy(S, key, e) = k
  BY Ranks
<1>2. l = [k \in 1..n |-> CHOOSE e \in S : RankBy(S, key, e) = k - 1]
  BY DEF InOrder
<1> HIDE DEF n
<1>3. ASSUME NEW k \in 1..n PROVE l[k] \in S /\ RankBy(S, key, l[k]) = k - 1
  <2>1. k - 1 \in 0..(n - 1)
    BY <1>1
  <2>2. \E e \in S : RankBy(S, key, e) = k - 1
    BY <1>1, <2>1
  <2> QED BY <1>2, <2>2
<1>4. l \in [1..n -> S]
  <2>1. DOMAIN l = 1..n /\ l = [k \in DOMAIN l |-> l[k]]
    BY <1>2
  <2> QED BY <1>3, <2>1
<1>5. l \in Seq(S) /\ DOMAIN l = 1..n /\ Len(l) = n
  <2>1. DOMAIN l = 1..n /\ l \in Seq(S)
    BY <1>1, <1>4
  <2>2. Len(l) = n
    BY <1>1, <2>1
  <2> QED BY <2>1, <2>2
<1>6. ASSUME NEW e \in S PROVE \E k \in DOMAIN l : l[k] = e
  <2> DEFINE k == RankBy(S, key, e) + 1
  <2>1. k \in 1..n /\ k - 1 = RankBy(S, key, e)
    <3>1. RankBy(S, key, e) \in 0..(n - 1)
      BY <1>1
    <3> QED BY <1>1, <3>1
  <2> HIDE DEF k
  <2>2. l[k] \in S /\ RankBy(S, key, l[k]) = RankBy(S, key, e)
    BY <1>3, <2>1
  <2>3. l[k] = e
    BY <1>1, <2>2
  <2> QED BY <1>5, <2>1, <2>3
<1>7. ASSUME NEW i \in DOMAIN l, NEW j \in DOMAIN l, i < j PROVE key[l[i]] < key[l[j]]
  <2>1. l[i] \in S /\ l[j] \in S /\ RankBy(S, key, l[i]) = i - 1 /\ RankBy(S, key, l[j]) = j - 1
    BY <1>3, <1>5
  <2>2. i - 1 < j - 1
    BY <1>1, <1>5, <1>7
  <2> QED BY <1>1, <2>1, <2>2
<1> QED BY <1>1, <1>3, <1>5, <1>6, <1>7 DEF n

\* The entries of one kind, in order of their names.
LEMMA SortedWhole ==
  ASSUME NEW S, IsListing(S)
  PROVE  /\ Sorted(S) \in Seq(S) /\ Len(Sorted(S)) = Cardinality(S) /\ Cardinality(S) \in Nat
         /\ \A e \in S : \E k \in DOMAIN Sorted(S) : Sorted(S)[k] = e
         /\ \A i, j \in DOMAIN Sorted(S) : i < j => Sorted(S)[i].name < Sorted(S)[j].name
PROOF
<1> DEFINE key == [e \in S |-> e.name]
           l == Sorted(S)
<1>1. IsFiniteSet(S) /\ IsKey(S, key)
  BY DEF IsListing, IsKey
<1>2. InOrder(S, key, l)
  <2> DEFINE before(e) == Cardinality({x \in S : x.name < e.name})
             at(k) == CHOOSE e \in S : before(e) = k - 1
             ranked(k) == CHOOSE e \in S : RankBy(S, key, e) = k - 1
  <2>1. l = [k \in 1..Cardinality(S) |-> at(k)]
    BY DEF Sorted
  <2>2. ASSUME NEW e \in S PROVE RankBy(S, key, e) = before(e)
    <3>1. {x \in S : x.name < e.name} = {x \in S : key[x] < key[e]}
      OBVIOUS
    <3> QED BY <3>1, Zenon DEF RankBy
  <2> HIDE DEF key, l, before
  <2>3. \A k : at(k) = ranked(k)
    BY <2>2
  <2>4. InOrder(S, key, l) <=> l = [k \in 1..Cardinality(S) |-> ranked(k)]
    BY DEF InOrder
  <2> HIDE DEF at, ranked
  <2> QED BY <2>1, <2>3, <2>4
<1> HIDE DEF l
<1>3. /\ l \in Seq(S) /\ Len(l) = Cardinality(S) /\ Cardinality(S) \in Nat
      /\ \A e \in S : \E k \in DOMAIN l : l[k] = e
      /\ \A i, j \in DOMAIN l : i < j => key[l[i]] < key[l[j]]
  <2> HIDE DEF key
  <2> QED BY <1>1, <1>2, RankedIsWhole
<1>4. \A i \in DOMAIN l : l[i] \in S
  BY <1>3
<1>5. \A i, j \in DOMAIN l : i < j => l[i].name < l[j].name
  BY <1>3, <1>4
<1> HIDE DEF key
<1> QED BY <1>3, <1>5 DEF l

LEMMA ListAlwaysWhole ==
  ASSUME NEW root \in BOOLEAN, NEW S, IsListing(S)
  PROVE  ListWhole(root, S)
PROOF
<1> DEFINE D == {e \in S : e.isDir}
           F == {e \in S : ~e.isDir}
           d == Sorted(D)
           f == Sorted(F)
           l == FsListDir(root, S)
           shown == IF root THEN l ELSE Tail(l)
           up == Entry(0, TRUE)
<1>1. /\ IsFiniteSet(S) /\ S \subseteq [name : Nat \ {0}, isDir : BOOLEAN]
      /\ \A x, y \in S : x.name = y.name => x = y
  BY DEF IsListing
<1>2. IsListing(D) /\ IsListing(F)
  <2>1. IsFiniteSet(D) /\ IsFiniteSet(F)
    BY <1>1, FS_Subset
  <2> QED BY <1>1, <2>1 DEF IsListing
<1>3. D \cup F = S /\ D \cap F = {} /\ D \subseteq S /\ F \subseteq S
  OBVIOUS
<1>4. \A e \in D : e.isDir = TRUE
  BY <1>1
<1>5. \A e \in F : e.isDir = FALSE
  BY <1>1
<1>6. l = (IF root THEN <<>> ELSE <<up>>) \o d \o f
  BY DEF FsListDir
<1> HIDE DEF D, F, d, f, l, up
<1>7. /\ d \in Seq(D) /\ Len(d) = Cardinality(D) /\ Cardinality(D) \in Nat
      /\ \A e \in D : \E k \in DOMAIN d : d[k] = e
      /\ \A i, j \in DOMAIN d : i < j => d[i].name < d[j].name
  BY <1>2, SortedWhole DEF d
<1>8. /\ f \in Seq(F) /\ Len(f) = Cardinality(F) /\ Cardinality(F) \in Nat
      /\ \A e \in F : \E k \in DOMAIN f : f[k] = e
      /\ \A i, j \in DOMAIN f : i < j => f[i].name < f[j].name
  BY <1>2, SortedWhole DEF f
<1>9. d \in Seq(S) /\ f \in Seq(S)
  BY <1>3, <1>7, <1>8
<1> DEFINE A == S \cup {up}
<1>10. d \in Seq(A) /\ f \in Seq(A) /\ up \in A
  BY <1>9
<1> HIDE DEF A
<1>11. shown = d \o f /\ (~root => l # <<>> /\ l[1] = up)
  <2>1. CASE root
    <3>1. l = <<>> \o d \o f
      BY <1>6, <2>1
    <3>2. <<>> \o d = d
      BY <1>9
    <3> QED BY <2>1, <3>1, <3>2
  <2>2. CASE ~root
    <3>1. l = (<<up>> \o d) \o f
      BY <1>6, <2>2
    <3> DEFINE t == d \o f
               one == <<up>>
    <3>2. one \in Seq(A) /\ Len(one) = 1 /\ one[1] = up
      BY <1>10
    <3> HIDE DEF one
    <3>3. l = one \o t
      BY <1>10, <3>1, <3>2 DEF one
    <3>4. t \in Seq(A)
      BY <1>10
    <3> HIDE DEF t
    <3>5. l \in Seq(A) /\ Len(l) = 1 + Len(t) /\ Len(t) \in Nat
      <4>1. l \in Seq(A) /\ Len(t) \in Nat
        BY <3>2, <3>3, <3>4
      <4>2. Len(l) = Len(one) + Len(t)
        BY <3>2, <3>3, <3>4, ConcatProperties
      <4> QED BY <3>2, <4>1, <4>2
    <3>6. l[1] = up /\ \A i \in 1..Len(t) : l[i + 1] = t[i]
      BY <3>2, <3>3, <3>4, <3>5, ConcatProperties
    <3>7. l # <<>>
      BY <3>5
    <3>8. Tail(l) \in Seq(A) /\ Len(Tail(l)) = Len(t) /\ \A i \in 1..Len(t) : Tail(l)[i] = l[i + 1]
      BY <3>5, <3>7
    <3>9. Tail(l) = t
      BY <3>4, <3>6, <3>8, SeqEqual
    <3> QED BY <2>2, <3>6, <3>7, <3>9 DEF t
  <2> QED BY <2>1, <2>2
<1> HIDE DEF shown
<1> DEFINE m == Len(d)
           n == Len(f)
<1>12. m \in Nat /\ n \in Nat /\ DOMAIN d = 1..m /\ DOMAIN f = 1..n
  BY <1>7, <1>8
<1>13. DOMAIN shown = 1..(m + n) /\ Len(shown) = m + n
  BY <1>9, <1>11, ConcatProperties
<1> HIDE DEF m, n
<1>14. \A i \in 1..m : shown[i] = d[i] /\ shown[i] \in D
  <2>1. \A i \in 1..m : i \in 1..(m + n) /\ i <= m
    BY <1>12
  <2>2. \A i \in 1..m : shown[i] = d[i]
    BY <1>9, <1>11, <2>1, ConcatProperties DEF m, n
  <2> QED BY <1>7, <1>12, <2>2
<1>15. \A i \in 1..n : shown[m + i] = f[i] /\ shown[m + i] \in F
  <2>1. \A i \in 1..n : m + i \in 1..(m + n) /\ ~ (m + i <= m) /\ (m + i) - m = i
    BY <1>12
  <2>2. \A i \in 1..n : shown[m + i] = f[i]
    BY <1>9, <1>11, <2>1, ConcatProperties DEF m, n
  <2> QED BY <1>8, <1>12, <2>2
<1>16. Len(shown) = Cardinality(S)
  <2>1. IsFiniteSet(D) /\ IsFiniteSet(F)
    BY <1>1, <1>3, FS_Subset
  <2>2. Cardinality(D \cup F) = Cardinality(D) + Cardinality(F) - Cardinality(D \cap F)
    BY <2>1, FS_Union
  <2>3. Cardinality(D \cap F) = 0
    BY <1>3, FS_EmptySet
  <2>4. Cardinality(D \cup F) = Cardinality(D) + Cardinality(F)
    BY <1>7, <1>8, <2>2, <2>3
  <2>5. Cardinality(S) = Cardinality(D) + Cardinality(F)
    BY <1>3, <2>4, Zenon
  <2> QED BY <1>7, <1>8, <1>13, <2>5 DEF m, n
<1>17. ASSUME NEW i \in DOMAIN shown
       PROVE  \/ i \in 1..m /\ shown[i] = d[i] /\ shown[i] \in D
              \/ i - m \in 1..n /\ shown[i] = f[i - m] /\ shown[i] \in F
  <2>1. CASE i <= m
    <3>1. i \in 1..m
      BY <1>12, <1>13, <2>1
    <3> QED BY <1>14, <3>1
  <2>2. CASE i > m
    <3>1. i - m \in 1..n /\ m + (i - m) = i
      BY <1>12, <1>13, <2>2
    <3> QED BY <1>15, <3>1
  <2> QED BY <1>12, <1>13, <2>1, <2>2
<1>18. ToSet(shown) = S
  <2>1. ToSet(shown) \subseteq S
    BY <1>3, <1>17 DEF ToSet
  <2>2. ASSUME NEW e \in D PROVE e \in ToSet(shown)
    <3>1. PICK k \in 1..m : d[k] = e
      BY <1>7, <1>12
    <3>2. k \in DOMAIN shown /\ shown[k] = e
      BY <1>12, <1>13, <1>14, <3>1
    <3> QED BY <3>2 DEF ToSet
  <2>3. ASSUME NEW e \in F PROVE e \in ToSet(shown)
    <3>1. PICK k \in 1..n : f[k] = e
      BY <1>8, <1>12
    <3>2. m + k \in DOMAIN shown /\ shown[m + k] = e
      BY <1>12, <1>13, <1>15, <3>1
    <3> QED BY <3>2 DEF ToSet
  <2> QED BY <1>3, <2>1, <2>2, <2>3
<1>19. ASSUME NEW i \in DOMAIN shown, NEW j \in DOMAIN shown, i < j
       PROVE  \/ shown[i].isDir /\ ~shown[j].isDir
              \/ shown[i].isDir = shown[j].isDir /\ shown[i].name < shown[j].name
  <2>1. i \in Nat /\ j \in Nat
    BY <1>12, <1>13
  <2>2. CASE i <= m /\ j <= m
    <3>1. i \in DOMAIN d /\ j \in DOMAIN d /\ shown[i] = d[i] /\ shown[j] = d[j] /\ shown[i] \in D /\ shown[j] \in D
      BY <1>12, <1>13, <1>14, <2>2
    <3>2. d[i].name < d[j].name
      BY <1>7, <1>19, <3>1
    <3> QED BY <1>4, <3>1, <3>2
  <2>3. CASE i <= m /\ j > m
    <3>1. shown[i] \in D /\ shown[j] \in F
      BY <1>12, <1>13, <1>17, <2>1, <2>3
    <3> QED BY <1>4, <1>5, <3>1
  <2>4. CASE i > m
    <3> DEFINE a == i - m
               b == j - m
    <3>1. a \in 1..n /\ b \in 1..n /\ a < b /\ m + a = i /\ m + b = j
      BY <1>12, <1>13, <1>19, <2>1, <2>4
    <3> HIDE DEF a, b
    <3>2. shown[i] = f[a] /\ shown[j] = f[b] /\ shown[i] \in F /\ shown[j] \in F
      BY <1>15, <3>1
    <3>3. f[a].name < f[b].name
      BY <1>8, <1>12, <3>1
    <3> QED BY <1>5, <3>2, <3>3
  <2> QED BY <1>12, <2>1, <2>2, <2>3, <2>4
<1>20. ~root => l # <<>> /\ l[1].name = 0
  BY <1>11 DEF up, Entry
<1> QED BY <1>16, <1>18, <1>19, <1>20 DEF ListWhole, l, shown

LEMMA FileAlwaysRead ==
  ASSUME NEW f \in FileSeen
  PROVE  /\ FsReadFileText(f) # {} => FsReadFileDataUri(f) # {}
         /\ \A n \in FsReadFileDataUri(f) : n <= MaxDataUri
PROOF
<1>1. f.size \in Nat
  BY DEF FileSeen
<1>2. ASSUME FsReadFileText(f) # {} PROVE f.size \in ReadFile(f, MaxDataUri)
  <2>1. f.there /\ f.size <= 16
    BY <1>2 DEF FsReadFileText, ReadFile, MaxText
  <2> QED BY <1>1, <2>1 DEF ReadFile, MaxDataUri
<1>3. ASSUME NEW n \in FsReadFileDataUri(f) PROVE n <= MaxDataUri
  BY <1>1 DEF FsReadFileDataUri, ReadFile
<1> QED BY <1>2, <1>3 DEF FsReadFileDataUri

LEMMA HashNoPath ==
  ASSUME NEW h, NEW p \in ObjectPath(h)
  PROVE  ToSet(h) \cap Separators = {}
PROOF
<1>1. ToSet(h) \subseteq {"a", "b", "0"}
  BY DEF ObjectPath, ValidObjectHash
<1> QED BY <1>1 DEF Separators

\* The items that are picked, by their places.
PlacesPicked(s, I, l) ==
  /\ l \in Seq(I) /\ Len(l) = Cardinality(I) /\ Cardinality(I) \in Nat
  /\ Picked(s, I) = [k \in 1..Cardinality(I) |-> s[l[k]]]
  /\ \A i \in I : \E k \in DOMAIN l : l[k] = i
  /\ \A k \in 1..Cardinality(I) : l[k] \in I /\ Cardinality({j \in I : j < l[k]}) = k - 1

LEMMA PickedBy ==
  ASSUME NEW s, NEW I \in SUBSET Nat, IsFiniteSet(I)
  PROVE  \E l : PlacesPicked(s, I, l)
PROOF
<1> DEFINE key == [i \in I |-> i]
           at(k) == CHOOSE i \in I : RankBy(I, key, i) = k - 1
           l == [k \in 1..Cardinality(I) |-> at(k)]
<1>1. IsKey(I, key)
  BY DEF IsKey
<1>2. InOrder(I, key, l)
  BY DEF InOrder
<1>3. ASSUME NEW i \in I PROVE RankBy(I, key, i) = Cardinality({j \in I : j < i})
  <2>1. {j \in I : j < i} = {j \in I : key[j] < key[i]}
    OBVIOUS
  <2> QED BY <2>1, Zenon DEF RankBy
<1>4. Picked(s, I) = [k \in 1..Cardinality(I) |-> s[l[k]]]
  <2> DEFINE before(i) == Cardinality({j \in I : j < i})
             choice(k) == CHOOSE i \in I : before(i) = k - 1
  <2>1. Picked(s, I) = [k \in 1..Cardinality(I) |-> s[choice(k)]]
    BY DEF Picked
  <2>2. \A i \in I : RankBy(I, key, i) = before(i)
    BY <1>3
  <2> HIDE DEF key, before
  <2>3. \A k : choice(k) = at(k)
    BY <2>2
  <2> HIDE DEF choice, at
  <2>4. \A k \in 1..Cardinality(I) : l[k] = choice(k)
    BY <2>3
  <2> HIDE DEF l
  <2> QED BY <2>1, <2>4
<1> HIDE DEF l
<1>5. /\ l \in Seq(I) /\ Len(l) = Cardinality(I) /\ Cardinality(I) \in Nat
      /\ \A i \in I : \E k \in DOMAIN l : l[k] = i
      /\ \A k \in 1..Cardinality(I) : l[k] \in I /\ RankBy(I, key, l[k]) = k - 1
  <2> HIDE DEF key
  <2> QED BY <1>1, <1>2, RankedIsWhole
<1>6. \A k \in 1..Cardinality(I) : Cardinality({j \in I : j < l[k]}) = k - 1
  <2> HIDE DEF key
  <2> QED BY <1>3, <1>5
<1> QED BY <1>4, <1>5, <1>6 DEF PlacesPicked

LEMMA PickedItems ==
  ASSUME NEW X, NEW s \in Seq(X), NEW I \in SUBSET DOMAIN s
  PROVE  /\ Picked(s, I) \in Seq(X)
         /\ ToSet(Picked(s, I)) = {s[i] : i \in I}
         /\ I = DOMAIN s => Picked(s, I) = s
PROOF
<1> DEFINE n == Cardinality(I)
<1>1. Len(s) \in Nat /\ DOMAIN s = 1..Len(s)
  OBVIOUS
<1>2. IsFiniteSet(1..Len(s)) /\ Cardinality(1..Len(s)) = Len(s)
  <2>1. 1 \in Int /\ Len(s) \in Int /\ Len(s) - 1 + 1 = Len(s)
    BY <1>1
  <2>2. Cardinality(1..Len(s)) = IF 1 > Len(s) THEN 0 ELSE Len(s) - 1 + 1
    BY <2>1, FS_Interval
  <2>3. IsFiniteSet(1..Len(s))
    BY <2>1, FS_Interval
  <2> QED BY <1>1, <2>1, <2>2, <2>3
<1>3. I \in SUBSET Nat /\ IsFiniteSet(I)
  BY <1>1, <1>2, FS_Subset
<1>4. PICK l : /\ l \in Seq(I) /\ Len(l) = n /\ n \in Nat
               /\ Picked(s, I) = [k \in 1..n |-> s[l[k]]]
               /\ \A i \in I : \E k \in DOMAIN l : l[k] = i
               /\ \A k \in 1..n : l[k] \in I /\ Cardinality({j \in I : j < l[k]}) = k - 1
  <2>1. \E l : PlacesPicked(s, I, l)
    BY <1>3, PickedBy
  <2> QED BY <2>1 DEF PlacesPicked
<1> DEFINE p == Picked(s, I)
<1> HIDE DEF n, p
<1>5. \A k \in 1..n : l[k] \in I /\ l[k] \in 1..Len(s)
  BY <1>1, <1>4
<1>6. p = [k \in 1..n |-> s[l[k]]] /\ DOMAIN l = 1..n
  BY <1>4 DEF p
<1>7. p \in [1..n -> X]
  <2>1. \A k \in 1..n : s[l[k]] \in X
    BY <1>1, <1>5
  <2> QED BY <1>6, <2>1
<1>8. p \in Seq(X) /\ DOMAIN p = 1..n
  BY <1>4, <1>7
<1>9. ToSet(p) = {s[i] : i \in I}
  <2>1. ASSUME NEW k \in 1..n PROVE p[k] \in {s[i] : i \in I}
    BY <1>5, <1>6
  <2>2. ASSUME NEW i \in I PROVE \E k \in 1..n : p[k] = s[i]
    BY <1>4, <1>6
  <2> QED BY <1>8, <2>1, <2>2 DEF ToSet
<1>10. ASSUME I = DOMAIN s PROVE p = s
  <2>1. n = Len(s)
    BY <1>1, <1>2, <1>10 DEF n
  <2>2. ASSUME NEW k \in 1..n PROVE l[k] = k
    <3> DEFINE i == l[k]
    <3>1. i \in 1..Len(s) /\ i \in Nat
      BY <1>1, <1>5
    <3>2. Cardinality({j \in I : j < i}) = k - 1
      BY <1>4
    <3> HIDE DEF i
    <3>3. {j \in I : j < i} = 1..(i - 1)
      BY <1>1, <1>10, <3>1
    <3>4. Cardinality(1..(i - 1)) = i - 1
      <4>1. 1 \in Int /\ i - 1 \in Int
        BY <3>1
      <4>2. Cardinality(1..(i - 1)) = IF 1 > i - 1 THEN 0 ELSE (i - 1) - 1 + 1
        BY <4>1, FS_Interval
      <4> QED BY <3>1, <4>2
    <3>5. Cardinality({j \in I : j < i}) = i - 1
      BY <3>3, <3>4, Zenon
    <3>6. i - 1 = k - 1 /\ k \in Nat
      BY <1>4, <3>2, <3>5
    <3> QED BY <3>1, <3>6 DEF i
  <2>3. Len(p) = n
    BY <1>4, <1>8
  <2>4. \A k \in 1..n : p[k] = s[k]
    BY <1>6, <2>2
  <2> QED BY <1>8, <2>1, <2>3, <2>4, SeqEqual
<1> QED BY <1>8, <1>9, <1>10 DEF p

\* The parts of a list that are not empty; there is nothing more to leave out.
LEMMA FilledSettles ==
  ASSUME NEW t \in Seq(STRING)
  PROVE  /\ Filled(t) \in Seq(STRING) /\ Empty \notin ToSet(Filled(t))
         /\ Empty \notin ToSet(t) => Filled(t) = t
PROOF
<1> DEFINE I == {i \in DOMAIN t : t[i] # Empty}
<1>1. Filled(t) = Picked(t, I)
  BY DEF Filled
<1>2. I \in SUBSET DOMAIN t
  OBVIOUS
<1>3. \A x \in {t[i] : i \in I} : x # Empty
  OBVIOUS
<1>4. Empty \notin ToSet(t) => I = DOMAIN t
  BY DEF ToSet
<1> HIDE DEF I
<1> QED BY <1>1, <1>2, <1>3, <1>4, PickedItems

LEMMA ConfirmSettles ==
  ASSUME NEW t \in Seq(STRING), NEW ids \in NormalizeToolConfirm(t)
  PROVE  ids = Filled(t) /\ ids \in Seq(STRING) /\ NormalizeToolConfirm(ids) = {ids} /\ NormalizeToolConfirm(t) = {ids}
PROOF
<1>1. ids = Filled(t) /\ NormalizeToolConfirm(t) = {ids}
  BY DEF NormalizeToolConfirm
<1>2. ~ (Spaced \in ToSet(ids) \/ Cardinality(ToSet(ids)) < Len(ids))
  BY <1>1 DEF NormalizeToolConfirm
<1>3. ids \in Seq(STRING) /\ Filled(ids) = ids
  BY <1>1, FilledSettles
<1> QED BY <1>1, <1>2, <1>3 DEF NormalizeToolConfirm

\* The level a session is started with.
LevelOf(s) == IF s.level = {} THEN 1 ELSE EffectiveReasoningLevel(CHOOSE n \in s.level : TRUE)

LEMMA SettingsRead ==
  ASSUME NEW s \in SettingsFile
  PROVE  /\ GetSettings(s) = {[tools |-> t, level |-> LevelOf(s)] : t \in NormalizeToolConfirm(s.tools)}
         /\ GetSettings(s) = {} <=> NormalizeToolConfirm(s.tools) = {}
         /\ LevelOf(s) \in 0..2
         /\ \A n \in s.level : LevelOf(s) = EffectiveReasoningLevel(n)
PROOF
<1>1. s.level \in SUBSET Int /\ \A a, b \in s.level : a = b
  BY DEF SettingsFile, AtMostOne
<1>2. \A n : EffectiveReasoningLevel(n) \in 0..2
  BY DEF EffectiveReasoningLevel
<1>3. LevelOf(s) \in 0..2
  BY <1>2 DEF LevelOf
<1>4. \A n \in s.level : LevelOf(s) = EffectiveReasoningLevel(n)
  BY <1>1 DEF LevelOf
<1>5. GetSettings(s) = {[tools |-> t, level |-> LevelOf(s)] : t \in NormalizeToolConfirm(s.tools)}
  BY DEF GetSettings, LevelOf
<1>7. GetSettings(s) = {} <=> NormalizeToolConfirm(s.tools) = {}
  <2> DEFINE N == NormalizeToolConfirm(s.tools)
             l == LevelOf(s)
  <2> HIDE DEF N, l
  <2>1. GetSettings(s) = {[tools |-> t, level |-> l] : t \in N}
    BY <1>5 DEF N, l
  <2>2. GetSettings(s) = {} <=> N = {}
    BY <2>1
  <2> QED BY <2>2 DEF N
<1> QED BY <1>3, <1>4, <1>5, <1>7

LEMMA SettingsMerged ==
  ASSUME NEW cur \in SettingsFile, NEW new \in SettingsGiven, NEW m \in MergeSettings(cur, new)
  PROVE  /\ m \in SettingsFile
         /\ \A t \in new.tools : m.tools = Filled(t) /\ NormalizeToolConfirm(m.tools) = {m.tools}
         /\ new.tools = {} => m.tools = cur.tools
         /\ \A n \in new.level : n \in 0..2 /\ m.level = {n}
         /\ new.level = {} => m.level = cur.level
PROOF
<1> DEFINE T == IF new.tools = {} THEN {cur.tools} ELSE UNION {NormalizeToolConfirm(x) : x \in new.tools}
           L == IF new.level = {} THEN {cur.level} ELSE {NormalizeReasoningLevel(x) : x \in new.level} \ {{}}
<1>1. PICK t \in T, l \in L : m = [tools |-> t, level |-> l]
  BY DEF MergeSettings
<1>2. m.tools = t /\ m.level = l
  BY <1>1
<1>3. /\ new.tools \in SUBSET Seq(STRING) /\ \A a, b \in new.tools : a = b
      /\ new.level \in SUBSET Int /\ \A a, b \in new.level : a = b
      /\ cur.tools \in Seq(STRING) /\ cur.level \in AtMostOne(Int)
  BY DEF SettingsFile, SettingsGiven, AtMostOne
<1>4. ASSUME NEW x \in new.tools PROVE t = Filled(x) /\ NormalizeToolConfirm(t) = {t} /\ t \in Seq(STRING)
  <2>1. x \in Seq(STRING) /\ new.tools = {x}
    BY <1>3
  <2>2. t \in NormalizeToolConfirm(x)
    BY <1>1, <2>1
  <2> QED BY <2>1, <2>2, ConfirmSettles
<1>5. new.tools = {} => t = cur.tools
  BY <1>1
<1>6. ASSUME NEW n \in new.level PROVE n \in 0..2 /\ l = {n}
  <2>1. new.level = {n}
    BY <1>3
  <2>2. l = NormalizeReasoningLevel(n) /\ l # {}
    BY <1>1, <2>1
  <2> QED BY <2>2 DEF NormalizeReasoningLevel
<1>7. new.level = {} => l = cur.level
  BY <1>1
<1>8. t \in Seq(STRING)
  BY <1>3, <1>4, <1>5
<1>9. l \in AtMostOne(Int)
  <2>1. CASE new.level = {}
    BY <1>3, <1>7, <2>1
  <2>2. CASE new.level # {}
    <3>1. PICK n \in new.level : TRUE
      BY <2>2
    <3>2. n \in Int /\ l = {n}
      BY <1>3, <1>6, <3>1
    <3> QED BY <3>2 DEF AtMostOne
  <2> QED BY <2>1, <2>2
<1>10. m \in SettingsFile
  BY <1>1, <1>8, <1>9 DEF SettingsFile
<1> QED BY <1>2, <1>4, <1>5, <1>6, <1>7, <1>10

LEMMA SettingsAlwaysKept ==
  ASSUME NEW cur \in SettingsFile, NEW new \in SettingsGiven
  PROVE  SettingsKept(cur, new)
PROOF
<1> SUFFICES ASSUME NEW m \in MergeSettings(cur, new)
             PROVE  /\ new.tools # {} =>
                         /\ GetSettings(m) # {}
                         /\ \A g \in GetSettings(m) : \A t \in new.tools : g.tools = Filled(t)
                    /\ new.tools = {} => (GetSettings(m) = {}) = (GetSettings(cur) = {})
                    /\ \A g \in GetSettings(m) :
                         /\ \A n \in new.level : g.level = n
                         /\ new.level = {} => \A h \in GetSettings([cur EXCEPT !.tools = <<>>]) : g.level = h.level
                         /\ MergeSettings(m, [tools |-> {g.tools}, level |-> {g.level}]) =
                              {[tools |-> g.tools, level |-> {g.level}]}
  BY DEF SettingsKept
<1>1. /\ m \in SettingsFile
      /\ \A t \in new.tools : m.tools = Filled(t) /\ NormalizeToolConfirm(m.tools) = {m.tools}
      /\ new.tools = {} => m.tools = cur.tools
      /\ \A n \in new.level : n \in 0..2 /\ m.level = {n}
      /\ new.level = {} => m.level = cur.level
  BY SettingsMerged
<1>2. \A s \in SettingsFile :
         /\ GetSettings(s) = {} <=> NormalizeToolConfirm(s.tools) = {}
         /\ GetSettings(s) = {[tools |-> t, level |-> LevelOf(s)] : t \in NormalizeToolConfirm(s.tools)}
         /\ LevelOf(s) \in 0..2
         /\ \A n \in s.level : LevelOf(s) = EffectiveReasoningLevel(n)
  BY SettingsRead
<1>3. ASSUME NEW g \in GetSettings(m)
      PROVE  g.level = LevelOf(m) /\ g.tools \in NormalizeToolConfirm(m.tools)
  BY <1>1, <1>2
<1>4. ASSUME new.tools # {}
      PROVE  GetSettings(m) # {} /\ \A g \in GetSettings(m) : \A t \in new.tools : g.tools = Filled(t)
  <2>1. PICK x \in new.tools : TRUE
    BY <1>4
  <2>2. NormalizeToolConfirm(m.tools) = {m.tools}
    BY <1>1, <2>1
  <2>3. GetSettings(m) # {}
    BY <1>1, <1>2, <2>2
  <2>4. \A g \in GetSettings(m) : g.tools = m.tools
    BY <1>3, <2>2
  <2> QED BY <1>1, <2>3, <2>4
<1>5. ASSUME new.tools = {} PROVE (GetSettings(m) = {}) = (GetSettings(cur) = {})
  <2>1. GetSettings(m) = {} <=> NormalizeToolConfirm(cur.tools) = {}
    BY <1>1, <1>2, <1>5
  <2>2. GetSettings(cur) = {} <=> NormalizeToolConfirm(cur.tools) = {}
    BY <1>2
  <2> QED BY <2>1, <2>2
<1>6. ASSUME NEW g \in GetSettings(m), NEW n \in new.level PROVE g.level = n
  <2>1. LevelOf(m) = EffectiveReasoningLevel(n) /\ n \in 0..2
    BY <1>1, <1>2
  <2> QED BY <1>3, <2>1 DEF EffectiveReasoningLevel
<1>7. ASSUME NEW g \in GetSettings(m), new.level = {}, NEW h \in GetSettings([cur EXCEPT !.tools = <<>>])
      PROVE  g.level = h.level
  <2> DEFINE bare == [cur EXCEPT !.tools = <<>>]
  <2>1. bare \in SettingsFile /\ bare.level = cur.level
    <3> DEFINE W == Seq(STRING)
               A == AtMostOne(Int)
    <3>1. cur \in [tools : W, level : A] /\ <<>> \in W
      BY DEF SettingsFile
    <3> HIDE DEF W, A
    <3>2. bare \in [tools : W, level : A] /\ bare.level = cur.level
      BY <3>1
    <3> QED BY <3>2 DEF W, A, SettingsFile
  <2> HIDE DEF bare
  <2>2. h \in GetSettings(bare)
    BY <1>7 DEF bare
  <2>3. h.level = LevelOf(bare)
    BY <1>2, <2>1, <2>2
  <2>4. LevelOf(bare) = LevelOf(m)
    <3>1. bare.level = m.level
      <4>1. m.level = cur.level
        BY <1>1, <1>7, Zenon
      <4> QED BY <2>1, <4>1
    <3> DEFINE started(x) == IF x = {} THEN 1 ELSE EffectiveReasoningLevel(CHOOSE n \in x : TRUE)
    <3>2. LevelOf(bare) = started(bare.level) /\ LevelOf(m) = started(m.level)
      BY DEF LevelOf
    <3> HIDE DEF started
    <3> QED BY <3>1, <3>2
  <2> QED BY <1>3, <2>3, <2>4
<1>8. ASSUME NEW g \in GetSettings(m)
      PROVE  MergeSettings(m, [tools |-> {g.tools}, level |-> {g.level}]) = {[tools |-> g.tools, level |-> {g.level}]}
  <2> DEFINE again == [tools |-> {g.tools}, level |-> {g.level}]
             t == g.tools
             l == g.level
  <2>1. l \in 0..2
    BY <1>1, <1>2, <1>3
  <2>2. m.tools \in Seq(STRING)
    BY <1>1 DEF SettingsFile
  <2>3. NormalizeToolConfirm(t) = {t}
    BY <1>3, <2>2, ConfirmSettles
  <2> HIDE DEF t, l
  <2>4. again = [tools |-> {t}, level |-> {l}]
    BY DEF t, l
  <2>5. again.tools = {t} /\ again.level = {l}
    BY <2>4
  <2> HIDE DEF again
  <2>6. UNION {NormalizeToolConfirm(x) : x \in again.tools} = {t}
    BY <2>3, <2>5
  <2>7. {NormalizeReasoningLevel(x) : x \in again.level} \ {{}} = {{l}}
    <3>1. NormalizeReasoningLevel(l) = {l}
      BY <2>1 DEF NormalizeReasoningLevel
    <3> QED BY <2>5, <3>1
  <2>8. MergeSettings(m, again) = {[tools |-> x, level |-> n] : x \in {t}, n \in {{l}}}
    BY <2>5, <2>6, <2>7 DEF MergeSettings
  <2>9. MergeSettings(m, again) = {[tools |-> t, level |-> {l}]}
    BY <2>8
  <2> QED BY <2>9 DEF again, t, l
<1> QED BY <1>4, <1>5, <1>6, <1>7, <1>8

(***************************************************************************)
(* The smaller documents                                                   *)
(***************************************************************************)
LEMMA UiAlwaysKept ==
  ASSUME NEW d \in UiDocument
  PROVE  UiKept(d)
PROOF
<1> SUFFICES ASSUME ~UiRejects(d)
             PROVE  /\ GetUi(d).config = {d} /\ GetUi(d).version >= 1
                    /\ \A v \in d.version : ~v.float => 2 * GetUi(d).version = v.halves
  BY DEF UiKept
<1>1. d.object /\ \A v \in d.version : ~v.other /\ v.halves % 2 = 0 /\ v.halves \div 2 >= 1
  <2>1. ASSUME NEW v \in d.version PROVE v.halves \in Int
    BY DEF UiDocument, AtMostOne
  <2> QED BY <2>1 DEF UiRejects
<1>2. GetUi(d) = [version |-> UiVersion(d), config |-> {d}]
  BY <1>1 DEF GetUi
<1>3. \A v, w \in d.version : v = w
  BY DEF UiDocument, AtMostOne
<1>4. CASE \E v \in d.version : ~v.float
  <2>1. PICK v \in d.version : ~v.float
    BY <1>4
  <2>2. UiVersion(d) = v.halves \div 2
    BY <1>1, <1>3, <2>1 DEF UiVersion
  <2>3. v.halves \in Int
    BY DEF UiDocument, AtMostOne
  <2>4. v.halves % 2 = 0 => 2 * (v.halves \div 2) = v.halves
    BY <2>3
  <2>5. 2 * UiVersion(d) = v.halves /\ UiVersion(d) >= 1
    BY <1>1, <2>2, <2>4
  <2> QED BY <1>2, <1>3, <2>5
<1>5. CASE \A v \in d.version : v.float
  <2>1. UiVersion(d) = 1
    BY <1>5 DEF UiVersion
  <2> QED BY <1>2, <1>5, <2>1
<1> QED BY <1>4, <1>5

LEMMA LabelAlwaysKept ==
  ASSUME NEW d \in LabelDocument
  PROVE  LabelKept(d)
PROOF
<1>1. \A k, l \in d.label : k = l
  BY DEF LabelDocument, AtMostOne
<1>2. \A l \in d.label : l.chars \in Nat
  BY DEF LabelDocument, AtMostOne
<1>3. ASSUME ReadLabel(d) # {} PROVE ~LabelRejects(d)
  <2>1. PICK l \in d.label : ~l.other /\ ~l.blank /\ l.chars <= MaxLabel
    BY <1>3 DEF ReadLabel
  <2> QED BY <1>1, <1>2, <2>1, DocumentsAssumption DEF LabelRejects
<1>4. ASSUME ~LabelRejects(d) PROVE ReadLabel(d) = IF LabelRemoves(d) THEN {} ELSE d.label
  <2>1. d.label # {} /\ \A l \in d.label : ~l.other /\ l.chars <= MaxLabel
    BY <1>2, <1>4, DocumentsAssumption DEF LabelRejects
  <2>2. CASE LabelRemoves(d)
    BY <2>2 DEF LabelRemoves, ReadLabel
  <2>3. CASE ~LabelRemoves(d)
    BY <1>1, <2>1, <2>3 DEF LabelRemoves, ReadLabel
  <2> QED BY <2>2, <2>3
<1> QED BY <1>3, <1>4 DEF LabelKept

LEMMA LimitAlwaysKept ==
  ASSUME NEW n \in Int
  PROVE  LimitKept(n)
PROOF BY DEF LimitKept, NormalizeRecursionLimit, DefaultRecursionLimit

Protocols == {"chat_completions", "step_audio", "transcriptions"}

(***************************************************************************)
(* The header of a session file                                            *)
(***************************************************************************)
\* The first of the keys decides.
LEMMA VersionRejected ==
  ASSUME NEW lines, NEW keys \in SUBSET Nat
  PROVE  Version(lines, keys) \ {Supported} # {} <=> \E i \in keys : lines[i] = "v16" /\ \A j \in keys : i <= j
PROOF
<1> DEFINE k == CHOOSE i \in keys : \A j \in keys : i <= j
<1>1. CASE keys = {}
  BY <1>1 DEF Version
<1>2. CASE keys # {}
  <2>1. \E i \in keys : \A j \in keys : i <= j
    BY <1>2, LeastNumber
  <2>2. k \in keys /\ \A j \in keys : k <= j
    BY <2>1
  <2>4. Version(lines, keys) = CASE lines[k] = "v17" -> {17} [] lines[k] = "v16" -> {16} [] OTHER -> {}
    BY <1>2 DEF Version
  <2> HIDE DEF k
  <2>3. \A i \in keys : (\A j \in keys : i <= j) => i = k
    <3> TAKE i \in keys
    <3> HAVE \A j \in keys : i <= j
    <3>1. i <= k /\ k <= i /\ i \in Nat /\ k \in Nat
      BY <2>2
    <3> QED BY <3>1
  <2>5. Version(lines, keys) \ {Supported} # {} <=> lines[k] = "v16"
    BY <2>4 DEF Supported
  <2> QED BY <2>2, <2>3, <2>5
<1> QED BY <1>1, <1>2

\* What a file's lines are, and where the rules and the keys stand in them.
Line == STRING \cup {"---", "v16", "v17", "vjunk", "key"}
HeaderShape(h, lines) ==
  LET n == Len(h.keys)
  IN  /\ n \in Nat /\ DOMAIN h.keys = 1..n /\ n + 2 <= Len(lines)
      /\ lines[1] = "---" /\ lines[n + 2] = "---"
      /\ \A i \in 1..n : lines[i + 1] = h.keys[i] /\ h.keys[i] \in {"v16", "v17", "vjunk", "key"}

LEMMA HeadIs ==
  ASSUME NEW h \in HeadOfFile
  PROVE  /\ h.fenced \in BOOLEAN /\ h.body \in Seq(Line) /\ h.keys \in Seq(Line)
         /\ \A i \in DOMAIN h.keys : h.keys[i] \in {"v16", "v17", "vjunk", "key"}
         /\ ~h.fenced => h.body = <<>> \/ h.body[1] # "---"
PROOF
<1> DEFINE K == {"v16", "v17", "vjunk", "key"}
<1>1. \A L, M : L \subseteq M => Seq(L) \subseteq Seq(M)
  OBVIOUS
<1>2. STRING \subseteq Line /\ K \subseteq Line
  BY DEF Line
<1>3. Seq(STRING) \subseteq Seq(Line)
  BY <1>1, <1>2, Zenon
<1>4. Seq(K) \subseteq Seq(Line)
  <2> HIDE DEF K
  <2> QED BY <1>1, <1>2, Zenon
<1>5. CASE h \in [fenced : {TRUE}, keys : Seq(K), body : Seq(STRING)]
  <2>1. h.fenced = TRUE /\ h.keys \in Seq(K) /\ h.body \in Seq(STRING)
    <3> HIDE DEF K
    <3> QED BY <1>5
  <2>2. \A i \in DOMAIN h.keys : h.keys[i] \in K
    <3> HIDE DEF K
    <3> QED BY <2>1
  <2>3. h.body \in Seq(Line) /\ h.keys \in Seq(Line)
    <3> HIDE DEF K
    <3> QED BY <1>3, <1>4, <2>1, Zenon
  <2> QED BY <2>1, <2>2, <2>3
<1>6. CASE h \in [fenced : {FALSE}, keys : {<<>>}, body : {b \in Seq(STRING) : b = <<>> \/ b[1] # "---"}]
  <2> DEFINE B == {b \in Seq(STRING) : b = <<>> \/ b[1] # "---"}
  <2>1. h.fenced = FALSE /\ h.keys = <<>> /\ h.body \in B
    <3>1. h \in [fenced : {FALSE}, keys : {<<>>}, body : B]
      BY <1>6
    <3> HIDE DEF B
    <3>2. h.body \in B
      BY <3>1
    <3>3. h.fenced = FALSE
      BY <3>1
    <3>4. h.keys = <<>>
      BY <3>1
    <3> QED BY <3>2, <3>3, <3>4
  <2>2. h.body \in Seq(STRING) /\ (h.body = <<>> \/ h.body[1] # "---")
    BY <2>1
  <2>3. h.body \in Seq(Line)
    BY <1>3, <2>2, Zenon
  <2>4. <<>> \in Seq(Line) /\ DOMAIN <<>> = {}
    OBVIOUS
  <2> QED BY <2>1, <2>2, <2>3, <2>4
<1> QED BY <1>5, <1>6 DEF HeadOfFile

LEMMA HeaderIs ==
  ASSUME NEW h \in HeadOfFile, h.fenced
  PROVE  LET lines == (<<"---">> \o h.keys \o <<"---">>) \o h.body
         IN  lines \in Seq(Line) /\ HeaderShape(h, lines)
PROOF
<1> DEFINE rule == <<"---">>
           front == rule \o h.keys
           head == front \o rule
           lines == head \o h.body
           n == Len(h.keys)
<1>1. rule \in Seq(Line) /\ Len(rule) = 1 /\ rule[1] = "---"
  BY DEF Line
<1>2. /\ h.body \in Seq(Line) /\ h.keys \in Seq(Line)
      /\ \A i \in DOMAIN h.keys : h.keys[i] \in {"v16", "v17", "vjunk", "key"}
  BY HeadIs
<1>3. n \in Nat /\ DOMAIN h.keys = 1..n
  BY <1>2
<1> HIDE DEF rule
<1>4. /\ front \in Seq(Line) /\ Len(front) = 1 + n
      /\ \A i \in 1..1 : front[i] = rule[i]
      /\ \A i \in 1..n : front[1 + i] = h.keys[i]
  BY <1>1, <1>2, TwoParts
<1> HIDE DEF front, n
<1>5. /\ head \in Seq(Line) /\ Len(head) = (1 + n) + 1
      /\ \A i \in 1..(1 + n) : head[i] = front[i]
      /\ \A i \in 1..1 : head[(1 + n) + i] = rule[i]
  <2>1. /\ head \in Seq(Line) /\ Len(head) = Len(front) + Len(rule)
        /\ \A i \in 1..Len(front) : head[i] = front[i]
        /\ \A i \in 1..Len(rule) : head[Len(front) + i] = rule[i]
    <3>1. front \in Seq(Line) /\ rule \in Seq(Line)
      BY <1>1, <1>4
    <3> QED BY <3>1, TwoParts
  <2> HIDE DEF head
  <2> QED BY <1>1, <1>4, <2>1
<1> HIDE DEF head
<1>6. /\ lines \in Seq(Line) /\ Len(lines) = ((1 + n) + 1) + Len(h.body) /\ Len(h.body) \in Nat
      /\ \A i \in 1..((1 + n) + 1) : lines[i] = head[i]
  <2>1. /\ lines \in Seq(Line) /\ Len(lines) = Len(head) + Len(h.body) /\ Len(h.body) \in Nat
        /\ \A i \in 1..Len(head) : lines[i] = head[i]
    <3>1. head \in Seq(Line) /\ h.body \in Seq(Line)
      BY <1>2, <1>5
    <3> QED BY <3>1, TwoParts
  <2> HIDE DEF lines
  <2> QED BY <1>5, <2>1
<1> HIDE DEF lines
<1>7. n + 2 <= Len(lines)
  <2>1. n \in Nat
    BY <1>3
  <2>2. \E m \in Nat : Len(lines) = ((1 + n) + 1) + m
    BY <1>6
  <2>3. PICK m \in Nat : Len(lines) = ((1 + n) + 1) + m
    BY <2>2
  <2>4. n + 2 <= ((1 + n) + 1) + m
    BY <2>1
  <2> QED BY <2>3, <2>4
<1>8. lines[1] = "---"
  <2>1. 1 \in 1..1 /\ 1 \in 1..(1 + n) /\ 1 \in 1..((1 + n) + 1)
    BY <1>3
  <2> QED BY <1>1, <1>4, <1>5, <1>6, <2>1
<1>9. lines[n + 2] = "---"
  <2>1. 1 \in 1..1 /\ (1 + n) + 1 \in 1..((1 + n) + 1) /\ n + 2 = (1 + n) + 1
    BY <1>3
  <2> QED BY <1>1, <1>5, <1>6, <2>1
<1>10. ASSUME NEW i \in 1..n PROVE lines[i + 1] = h.keys[i]
  <2>1. 1 + i \in 1..(1 + n) /\ 1 + i \in 1..((1 + n) + 1) /\ i + 1 = 1 + i
    BY <1>3
  <2> QED BY <1>4, <1>5, <1>6, <2>1
<1>11. HeaderShape(h, lines)
  BY <1>2, <1>3, <1>7, <1>8, <1>9, <1>10 DEF HeaderShape, n
<1> QED BY <1>6, <1>11 DEF lines, head, front, rule

\* The keys between the rules are the header's.
HeaderOf(lines) ==
  {k \in Keys(lines) : lines[1] = "---" /\ \A i \in {i \in DOMAIN lines : i > 1 /\ lines[i] = "---"} : k < i}
NamedIn(h) == {i \in DOMAIN h.keys : h.keys[i] \in {"v16", "v17", "vjunk"}}

LEMMA RejectedBy ==
  ASSUME NEW lines \in Seq(Line)
  PROVE  FileRejected(lines) <=> \E i \in HeaderOf(lines) : lines[i] = "v16" /\ \A j \in HeaderOf(lines) : i <= j
PROOF
<1>1. HeaderOf(lines) \in SUBSET Nat
  <2>1. DOMAIN lines \subseteq Nat
    OBVIOUS
  <2> QED BY <2>1 DEF HeaderOf, Keys
<1>2. FileRejected(lines) <=> Version(lines, HeaderOf(lines)) \ {Supported} # {}
  BY DEF FileRejected, FileVersion, HeaderOf
<1> QED BY <1>1, <1>2, VersionRejected

LEMMA HeaderFound ==
  ASSUME NEW h, NEW lines \in Seq(Line), HeaderShape(h, lines)
  PROVE  /\ \A k \in HeaderOf(lines) : k - 1 \in NamedIn(h) /\ (k - 1) + 1 = k
         /\ \A i \in NamedIn(h) : i \in Nat /\ i + 1 \in HeaderOf(lines) /\ lines[i + 1] = h.keys[i]
PROOF
<1> DEFINE n == Len(h.keys)
           closing == {i \in DOMAIN lines : i > 1 /\ lines[i] = "---"}
<1>1. /\ n \in Nat /\ DOMAIN h.keys = 1..n /\ n + 2 <= Len(lines)
      /\ lines[1] = "---" /\ lines[n + 2] = "---"
      /\ \A i \in 1..n : lines[i + 1] = h.keys[i] /\ h.keys[i] \in {"v16", "v17", "vjunk", "key"}
  BY DEF HeaderShape
<1>2. DOMAIN lines = 1..Len(lines) /\ Len(lines) \in Nat
  OBVIOUS
<1> HIDE DEF n
<1>3. n + 2 \in closing
  <2>1. n + 2 \in 1..Len(lines) /\ n + 2 > 1
    BY <1>1, <1>2
  <2> QED BY <1>1, <1>2, <2>1
<1>4. ASSUME NEW i \in closing PROVE n + 2 <= i
  <2>1. i \in Nat /\ i > 1 /\ lines[i] = "---"
    BY <1>2
  <2>2. CASE i < n + 2
    <3>1. i - 1 \in 1..n /\ (i - 1) + 1 = i
      BY <1>1, <2>1, <2>2
    <3>2. lines[i] = h.keys[i - 1] /\ h.keys[i - 1] \in {"v16", "v17", "vjunk", "key"}
      BY <1>1, <3>1
    <3> QED BY <2>1, <3>2
  <2> QED BY <1>1, <2>1, <2>2
<1>5. \A i \in closing : i \in Nat
  BY <1>2
<1>6. \A k : k \in HeaderOf(lines) <=> k \in DOMAIN lines /\ lines[k] \in {"v16", "v17", "vjunk"} /\ \A i \in closing : k < i
  BY <1>1 DEF HeaderOf, Keys
<1> HIDE DEF closing
<1>7. ASSUME NEW k \in HeaderOf(lines) PROVE k - 1 \in NamedIn(h) /\ (k - 1) + 1 = k
  <2>1. k \in DOMAIN lines /\ lines[k] \in {"v16", "v17", "vjunk"} /\ k < n + 2
    BY <1>3, <1>6
  <2>2. k \in Nat /\ k >= 1 /\ k # 1
    BY <1>1, <1>2, <2>1
  <2>3. k - 1 \in 1..n /\ (k - 1) + 1 = k
    BY <1>1, <2>1, <2>2
  <2>4. h.keys[k - 1] = lines[k]
    BY <1>1, <2>3
  <2> QED BY <1>1, <2>1, <2>3, <2>4 DEF NamedIn
<1>8. ASSUME NEW i \in NamedIn(h) PROVE i \in Nat /\ i + 1 \in HeaderOf(lines) /\ lines[i + 1] = h.keys[i]
  <2>1. i \in 1..n /\ h.keys[i] \in {"v16", "v17", "vjunk"}
    BY <1>1 DEF NamedIn
  <2>2. i \in Nat /\ i + 1 \in 1..Len(lines) /\ i + 1 < n + 2
    BY <1>1, <1>2, <2>1
  <2>3. lines[i + 1] = h.keys[i]
    BY <1>1, <2>1
  <2>4. \A j \in closing : i + 1 < j
    <3> TAKE j \in closing
    <3>1. n + 2 <= j /\ j \in Nat
      BY <1>4, <1>5
    <3> QED BY <1>1, <2>2, <3>1
  <2> QED BY <1>2, <1>6, <2>1, <2>2, <2>3, <2>4
<1> QED BY <1>7, <1>8

\* A header is refused for the version it names first, and a body never.
LEMMA HeaderAlwaysRead ==
  ASSUME NEW h \in HeadOfFile
  PROVE  HeaderRead(h)
PROOF
<1> DEFINE lines == (IF h.fenced THEN <<"---">> \o h.keys \o <<"---">> ELSE <<>>) \o h.body
           old == \E i \in NamedIn(h) : h.keys[i] = "v16" /\ \A j \in NamedIn(h) : i <= j
<1>1. h.fenced \in BOOLEAN /\ h.body \in Seq(Line) /\ (~h.fenced => h.body = <<>> \/ h.body[1] # "---")
  BY HeadIs
<1>2. HeaderRead(h) <=> (FileRejected(lines) = (h.fenced /\ old))
  BY DEF HeaderRead, NamedIn
<1>3. FileRejected(lines) <=> h.fenced /\ old
  <2>1. CASE ~h.fenced
    <3>1. lines = h.body
      <4>1. lines = <<>> \o h.body
        BY <2>1
      <4>2. <<>> \o h.body = h.body
        BY <1>1, ConcatEmptySeq
      <4> QED BY <4>1, <4>2
    <3> HIDE DEF lines
    <3>2. HeaderOf(lines) = {}
      <4>1. CASE lines = <<>>
        <5>1. Keys(lines) = {}
          BY <4>1 DEF Keys
        <5> QED BY <5>1 DEF HeaderOf
      <4>2. CASE lines # <<>>
        <5>1. lines[1] # "---"
          BY <1>1, <2>1, <3>1, <4>2
        <5> QED BY <5>1 DEF HeaderOf
      <4> QED BY <4>1, <4>2
    <3> QED BY <1>1, <2>1, <3>1, <3>2, RejectedBy
  <2>2. CASE h.fenced
    <3>1. lines = (<<"---">> \o h.keys \o <<"---">>) \o h.body
      BY <2>2
    <3>2. lines \in Seq(Line) /\ HeaderShape(h, lines)
      BY <2>2, <3>1, HeaderIs
    <3> HIDE DEF lines
    <3>3. /\ \A k \in HeaderOf(lines) : k - 1 \in NamedIn(h) /\ (k - 1) + 1 = k
          /\ \A i \in NamedIn(h) : i \in Nat /\ i + 1 \in HeaderOf(lines) /\ lines[i + 1] = h.keys[i]
      BY <3>2, HeaderFound
    <3>4. (\E i \in HeaderOf(lines) : lines[i] = "v16" /\ \A j \in HeaderOf(lines) : i <= j) => old
      <4> SUFFICES ASSUME NEW i \in HeaderOf(lines), lines[i] = "v16", \A j \in HeaderOf(lines) : i <= j
                   PROVE  old
        OBVIOUS
      <4>1. i - 1 \in NamedIn(h) /\ (i - 1) + 1 = i /\ i - 1 \in Nat
        BY <3>3
      <4>2. h.keys[i - 1] = "v16"
        BY <3>3, <4>1
      <4>3. ASSUME NEW b \in NamedIn(h) PROVE i - 1 <= b
        <5>1. b \in Nat /\ b + 1 \in HeaderOf(lines)
          BY <3>3
        <5>2. i <= b + 1
          BY <5>1
        <5>3. i \in Nat
          BY <4>1
        <5> QED BY <5>1, <5>2, <5>3
      <4> QED BY <4>1, <4>2, <4>3
    <3>5. old => \E i \in HeaderOf(lines) : lines[i] = "v16" /\ \A j \in HeaderOf(lines) : i <= j
      <4> SUFFICES ASSUME NEW a \in NamedIn(h), h.keys[a] = "v16", \A b \in NamedIn(h) : a <= b
                   PROVE  \E i \in HeaderOf(lines) : lines[i] = "v16" /\ \A j \in HeaderOf(lines) : i <= j
        OBVIOUS
      <4>1. a \in Nat /\ a + 1 \in HeaderOf(lines) /\ lines[a + 1] = "v16"
        BY <3>3
      <4>2. ASSUME NEW j \in HeaderOf(lines) PROVE a + 1 <= j
        <5>1. j - 1 \in NamedIn(h) /\ (j - 1) + 1 = j /\ j - 1 \in Nat
          BY <3>3
        <5>2. a <= j - 1
          BY <5>1
        <5> QED BY <4>1, <5>1, <5>2
      <4> QED BY <4>1, <4>2
    <3> HIDE DEF old
    <3> QED BY <2>2, <3>2, <3>4, <3>5, RejectedBy
  <2> QED BY <2>1, <2>2
<1> HIDE DEF lines, old
<1>4. FileRejected(lines) \in BOOLEAN /\ (h.fenced /\ old) \in BOOLEAN
  BY DEF FileRejected
<1> QED BY <1>2, <1>3, <1>4

(***************************************************************************)
(* Sequences, one item after the other                                     *)
(***************************************************************************)
\* What holds of no items and of one item more holds of all sequences.
LEMMA SeqClimb ==
  ASSUME NEW S, NEW P, <<>> \in P,
         \A s \in Seq(S) : \A e \in S : s \in P => Append(s, e) \in P
  PROVE  Seq(S) \subseteq P
PROOF
<1> SUFFICES ASSUME NEW t \in Seq(S) PROVE t \in P
  OBVIOUS
<1> DEFINE n == Len(t)
           Q == {i \in 0..n : SubSeq(t, 1, i) \in P}
<1>1. n \in Nat /\ DOMAIN t = 1..n /\ \A i \in 1..n : t[i] \in S
  OBVIOUS
<1>2. 0 \in Q
  <2>1. SubSeq(t, 1, 0) = <<>>
    BY SubSeqEmpty
  <2>2. SubSeq(t, 1, 0) \in P
    BY <2>1
  <2>3. 0 \in 0..n
    BY <1>1
  <2> QED BY <2>2, <2>3
<1>3. ASSUME NEW i \in 1..n, i - 1 \in Q PROVE i \in Q
  <2>1. SubSeq(t, 1, i) = Append(SubSeq(t, 1, i - 1), t[i])
    <3>1. 1 \in 1..n /\ i \in 1..n
      BY <1>1
    <3>2. SubSeq(t, 1, i) = SubSeq(t, 1, i - 1) \o <<t[i]>>
      BY <3>1, SubSeqRecursiveSecond
    <3>3. SubSeq(t, 1, i - 1) \in Seq(S)
      <4>1. 1 \in Int /\ i - 1 \in Int /\ \A j \in 1..(i - 1) : t[j] \in S
        BY <1>1
      <4> QED BY <4>1, SubSeqProperties
    <3>4. Append(SubSeq(t, 1, i - 1), t[i]) = SubSeq(t, 1, i - 1) \o <<t[i]>>
      BY <1>1, <3>3, AppendIsConcat
    <3> QED BY <3>2, <3>4
  <2>2. SubSeq(t, 1, i - 1) \in Seq(S)
    <4>1. 1 \in Int /\ i - 1 \in Int /\ \A j \in 1..(i - 1) : t[j] \in S
      BY <1>1
    <4> QED BY <4>1, SubSeqProperties
  <2>3. SubSeq(t, 1, i - 1) \in P
    BY <1>3
  <2>4. SubSeq(t, 1, i) \in P
    BY <1>1, <2>1, <2>2, <2>3
  <2> QED BY <1>1, <2>4
<1>4. n \in Q
  <2> HIDE DEF Q, n
  <2>1. \A i \in 0..n : i \in Q
    BY <1>1, <1>2, <1>3, Climb
  <2> QED BY <1>1, <2>1
<1>5. SubSeq(t, 1, n) = t
  BY SubSeqFull
<1> QED BY <1>4, <1>5

\* The same from the other end.
LEMMA SeqClimbBack ==
  ASSUME NEW S, NEW P, <<>> \in P,
         \A s \in Seq(S) : \A e \in S : s \in P => <<e>> \o s \in P
  PROVE  Seq(S) \subseteq P
PROOF
<1> SUFFICES ASSUME NEW t \in Seq(S) PROVE t \in P
  OBVIOUS
<1> DEFINE n == Len(t)
           part(i) == SubSeq(t, n - i + 1, n)
           Q == {i \in 0..n : part(i) \in P}
<1>1. n \in Nat /\ DOMAIN t = 1..n /\ \A i \in 1..n : t[i] \in S
  OBVIOUS
<1>2. 0 \in Q
  <2>1. part(0) = <<>>
    <3>1. n - 0 + 1 \in Int /\ n \in Int /\ n < n - 0 + 1
      BY <1>1
    <3> QED BY <3>1, SubSeqEmpty
  <2>2. part(0) \in P
    BY <2>1
  <2>3. 0 \in 0..n
    BY <1>1
  <2> HIDE DEF part
  <2> QED BY <2>2, <2>3
<1>3. ASSUME NEW i \in 1..n, i - 1 \in Q PROVE i \in Q
  <2> DEFINE m == n - i + 1
  <2>1. m \in 1..n /\ n \in m..n /\ n - (i - 1) + 1 = m + 1
    BY <1>1
  <2>2. part(i) = <<t[m]>> \o part(i - 1)
    <3>1. SubSeq(t, m, n) = <<t[m]>> \o SubSeq(t, m + 1, n)
      <4> HIDE DEF m
      <4> QED BY <2>1, SubSeqRecursiveFirst
    <3> QED BY <2>1, <3>1
  <2>3. part(i - 1) \in Seq(S)
    <3>1. m + 1 \in Int /\ n \in Int /\ \A j \in (m + 1)..n : t[j] \in S
      BY <1>1, <2>1
    <3>2. SubSeq(t, m + 1, n) \in Seq(S)
      <4> HIDE DEF m, n
      <4> QED BY <3>1, SubSeqProperties
    <3> QED BY <2>1, <3>2
  <2>4. part(i - 1) \in P /\ t[m] \in S
    BY <1>1, <1>3, <2>1
  <2>5. part(i) \in P
    <3> HIDE DEF part, m
    <3> QED BY <2>2, <2>3, <2>4
  <2> HIDE DEF part
  <2> QED BY <1>1, <2>5
<1>4. n \in Q
  <2> HIDE DEF Q, n
  <2>1. \A i \in 0..n : i \in Q
    BY <1>1, <1>2, <1>3, Climb
  <2> QED BY <1>1, <2>1
<1>5. part(n) = t
  <2>1. n - n + 1 = 1
    BY <1>1
  <2> QED BY <2>1, SubSeqFull
<1> QED BY <1>4, <1>5

\* Sequences put together are the fold of what they are put together of.
LEMMA Flattened ==
  ASSUME NEW X, NEW ss \in Seq(Seq(X))
  PROVE  \E f : /\ f \in [0..Len(ss) -> Seq(X)] /\ f[0] = <<>>
                /\ \A i \in 1..Len(ss) : f[i] = f[i - 1] \o ss[i]
                /\ FlattenSeq(ss) = f[Len(ss)]
PROOF
<1> DEFINE S == Seq(X)
           n == Len(ss)
           base == <<>>
           g == [i \in 1..n |-> [out \in S |-> out \o ss[i]]]
           is(h) == h = [i \in 1..n |-> IF i = 1 THEN ss[i] ELSE h[i - 1] \o ss[i]]
           w == CHOOSE h : is(h)
<1>1. n \in Nat /\ DOMAIN ss = 1..n /\ \A i \in 1..n : ss[i] \in S
  OBVIOUS
<1>2. base \in S
  OBVIOUS
<1>3. \A out \in S : \A i \in 1..n : out \o ss[i] \in S
  BY <1>1
<1>4. \A out \in S : <<>> \o out = out
  BY ConcatEmptySeq
<1> HIDE DEF S, n
<1>5. g \in [1..n -> [S -> S]]
  BY <1>3
<1>6. PICK f : f \in [0..n -> S] /\ f[0] = base /\ \A i \in 1..n : f[i] = g[i][f[i - 1]]
  <2> HIDE DEF g, base
  <2>1. Foldable(S, n, base, g)
    BY <1>1, <1>2, <1>5 DEF Foldable
  <2>2. \E f : FoldOf(f, S, n, base, g)
    BY <2>1, FoldExists
  <2> QED BY <2>2 DEF FoldOf
<1>7. \A i \in 1..n : f[i] = f[i - 1] \o ss[i]
  <2> TAKE i \in 1..n
  <2>1. i - 1 \in 0..n
    BY <1>1
  <2>2. f[i - 1] \in S
    BY <1>6, <2>1
  <2>3. g[i][f[i - 1]] = f[i - 1] \o ss[i]
    BY <2>2
  <2> HIDE DEF g
  <2> QED BY <1>6, <2>3
<1>8. \E h : is(h)
  <2> DEFINE h == [i \in 1..n |-> f[i]]
  <2>1. is(h)
    <3>1. ASSUME NEW i \in 1..n PROVE h[i] = IF i = 1 THEN ss[i] ELSE h[i - 1] \o ss[i]
      <4>1. CASE i = 1
        <5>1. f[i] = <<>> \o ss[i]
          <6>1. i - 1 = 0
            BY <4>1
          <6>2. f[i - 1] = <<>>
            BY <1>6, <6>1
          <6> QED BY <1>7, <6>2
        <5> QED BY <1>1, <1>4, <4>1, <5>1
      <4>2. CASE i # 1
        <5>1. i - 1 \in 1..n
          BY <1>1, <4>2
        <5> QED BY <1>7, <4>2, <5>1
      <4> QED BY <4>1, <4>2
    <3>2. h = [i \in 1..n |-> h[i]]
      OBVIOUS
    <3> HIDE DEF h
    <3> QED BY <3>1, <3>2
  <2> HIDE DEF is
  <2> QED BY <2>1
<1>9. is(w)
  <2> HIDE DEF is
  <2> QED BY <1>8
<1>10. \A i \in 0..n : i \in {j \in 0..n : j = 0 \/ w[j] = f[j]}
  <2> DEFINE P == {j \in 0..n : j = 0 \/ w[j] = f[j]}
  <2>1. 0 \in P
    BY <1>1
  <2>2. ASSUME NEW i \in 1..n, i - 1 \in P PROVE i \in P
    <3>1. w[i] = IF i = 1 THEN ss[i] ELSE w[i - 1] \o ss[i]
      <4> HIDE DEF w
      <4> QED BY <1>9
    <3>2. CASE i = 1
      <4>1. f[i] = <<>> \o ss[i]
        <5>1. i - 1 = 0
          BY <3>2
        <5>2. f[i - 1] = <<>>
          BY <1>6, <5>1
        <5> QED BY <1>7, <5>2
      <4> HIDE DEF w
      <4> QED BY <1>1, <1>4, <3>1, <3>2, <4>1
    <3>3. CASE i # 1
      <4> HIDE DEF w
      <4>1. w[i - 1] = f[i - 1]
        BY <2>2, <3>3
      <4>2. w[i] = f[i]
        BY <1>7, <3>1, <3>3, <4>1
      <4> QED BY <1>1, <4>2
    <3> QED BY <3>2, <3>3
  <2> HIDE DEF P
  <2>3. \A i \in 0..n : i \in P
    BY <1>1, <2>1, <2>2, Climb
  <2> QED BY <2>3 DEF P
<1>11. FlattenSeq(ss) = f[n]
  <2>1. CASE n = 0
    <3>1. ss = <<>>
      BY <1>1, <2>1 DEF n
    <3>2. FlattenSeq(ss) = ss
      BY <2>1 DEF FlattenSeq, n
    <3> QED BY <1>6, <2>1, <3>1, <3>2
  <2>2. CASE n # 0
    <3>1. FlattenSeq(ss) = w[n]
      BY <2>2 DEF FlattenSeq, n
    <3> HIDE DEF w
    <3> QED BY <1>1, <1>10, <2>2, <3>1
  <2> QED BY <2>1, <2>2
<1> QED BY <1>6, <1>7, <1>11 DEF S, n

\* One sequence more goes to the end.
LEMMA FlattenMore ==
  ASSUME NEW X, NEW ss \in Seq(Seq(X)), NEW s \in Seq(X)
  PROVE  /\ FlattenSeq(ss) \in Seq(X)
         /\ FlattenSeq(Append(ss, s)) = FlattenSeq(ss) \o s
PROOF
<1> DEFINE n == Len(ss)
           tt == Append(ss, s)
<1>1. n \in Nat
  OBVIOUS
<1>2. tt \in Seq(Seq(X)) /\ Len(tt) = n + 1 /\ (\A i \in 1..n : tt[i] = ss[i]) /\ tt[n + 1] = s
  <2> DEFINE S == Seq(X)
  <2>1. ss \in Seq(S) /\ s \in S
    OBVIOUS
  <2> HIDE DEF S
  <2>2. tt \in Seq(S) /\ Len(tt) = n + 1 /\ (\A i \in 1..n : tt[i] = ss[i]) /\ tt[n + 1] = s
    BY <2>1, AppendProperties
  <2> QED BY <2>2 DEF S
<1>3. PICK f : /\ f \in [0..n -> Seq(X)] /\ f[0] = <<>>
               /\ \A i \in 1..n : f[i] = f[i - 1] \o ss[i]
               /\ FlattenSeq(ss) = f[n]
  BY Flattened
<1> HIDE DEF tt, n
<1>4. PICK h : /\ h \in [0..(n + 1) -> Seq(X)] /\ h[0] = <<>>
               /\ \A i \in 1..(n + 1) : h[i] = h[i - 1] \o tt[i]
               /\ FlattenSeq(tt) = h[n + 1]
  <2>1. \E h : /\ h \in [0..Len(tt) -> Seq(X)] /\ h[0] = <<>>
               /\ \A i \in 1..Len(tt) : h[i] = h[i - 1] \o tt[i]
               /\ FlattenSeq(tt) = h[Len(tt)]
    BY <1>2, Flattened
  <2>2. Len(tt) = n + 1
    BY <1>2
  <2> QED BY <2>1, <2>2
<1>5. h[n] = f[n]
  <2> DEFINE P == {i \in 0..n : h[i] = f[i]}
  <2>1. 0 \in P
    BY <1>1, <1>3, <1>4
  <2>2. ASSUME NEW i \in 1..n, i - 1 \in P PROVE i \in P
    <3>1. i \in 1..(n + 1) /\ i \in 0..n
      BY <1>1
    <3>2. h[i - 1] = f[i - 1]
      BY <2>2
    <3> QED BY <1>2, <1>3, <1>4, <3>1, <3>2
  <2>3. \A i \in 0..n : i \in P
    <3> HIDE DEF P
    <3> QED BY <1>1, <2>1, <2>2, Climb
  <2>4. n \in 0..n
    BY <1>1
  <2> QED BY <2>3, <2>4
<1>6. FlattenSeq(tt) = FlattenSeq(ss) \o s
  <2>1. n + 1 \in 1..(n + 1) /\ (n + 1) - 1 = n
    BY <1>1
  <2> QED BY <1>2, <1>3, <1>4, <1>5, <2>1
<1>7. FlattenSeq(ss) \in Seq(X)
  <2>1. n \in 0..n
    BY <1>1
  <2> QED BY <1>3, <2>1
<1> QED BY <1>6, <1>7 DEF tt

(***************************************************************************)
(* Texts, trimmed                                                          *)
(***************************************************************************)
LEMMA SetOfBoth ==
  ASSUME NEW S, NEW a \in Seq(S), NEW b \in Seq(S)
  PROVE  ToSet(a \o b) = ToSet(a) \cup ToSet(b)
PROOF
<1> DEFINE c == a \o b
<1>1. /\ c \in Seq(S) /\ Len(a) \in Nat /\ Len(b) \in Nat /\ DOMAIN c = 1..(Len(a) + Len(b))
      /\ \A i \in 1..Len(a) : c[i] = a[i]
      /\ \A i \in 1..Len(b) : c[Len(a) + i] = b[i]
  BY TwoParts
<1>2. DOMAIN a = 1..Len(a) /\ DOMAIN b = 1..Len(b)
  OBVIOUS
<1> HIDE DEF c
<1>3. ASSUME NEW x \in ToSet(c) PROVE x \in ToSet(a) \cup ToSet(b)
  <2>1. PICK i \in 1..(Len(a) + Len(b)) : x = c[i]
    BY <1>1 DEF ToSet
  <2>2. CASE i <= Len(a)
    <3>1. i \in 1..Len(a)
      BY <1>1, <2>2
    <3> QED BY <1>1, <1>2, <2>1, <3>1 DEF ToSet
  <2>3. CASE ~ (i <= Len(a))
    <3>1. i - Len(a) \in 1..Len(b) /\ Len(a) + (i - Len(a)) = i
      BY <1>1, <2>3
    <3>2. c[i] = b[i - Len(a)]
      BY <1>1, <3>1
    <3> QED BY <1>2, <2>1, <3>1, <3>2 DEF ToSet
  <2> QED BY <2>2, <2>3
<1>4. ASSUME NEW i \in 1..Len(a) PROVE a[i] \in ToSet(c)
  <2>1. i \in DOMAIN c
    BY <1>1
  <2>2. c[i] \in ToSet(c)
    BY <2>1 DEF ToSet
  <2>3. c[i] = a[i]
    BY <1>1
  <2> QED BY <2>2, <2>3
<1>5. ASSUME NEW i \in 1..Len(b) PROVE b[i] \in ToSet(c)
  <2>1. Len(a) + i \in DOMAIN c
    BY <1>1
  <2>2. c[Len(a) + i] \in ToSet(c)
    BY <2>1 DEF ToSet
  <2>3. c[Len(a) + i] = b[i]
    BY <1>1
  <2> QED BY <2>2, <2>3
<1>6. ToSet(a) \subseteq ToSet(c) /\ ToSet(b) \subseteq ToSet(c)
  BY <1>2, <1>4, <1>5 DEF ToSet
<1> QED BY <1>3, <1>6 DEF c

LEMMA SetOfOne == ToSet(<<>>) = {} /\ \A c : ToSet(<<c>>) = {c}
PROOF
<1>1. DOMAIN <<>> = {} /\ \A c : DOMAIN <<c>> = {1} /\ <<c>>[1] = c
  OBVIOUS
<1>2. ToSet(<<>>) = {}
  BY <1>1 DEF ToSet
<1>3. ASSUME NEW c PROVE ToSet(<<c>>) = {c}
  <2> DEFINE d == <<c>>
  <2>1. DOMAIN d = {1} /\ d[1] = c
    OBVIOUS
  <2> HIDE DEF d
  <2>2. ToSet(d) = {c}
    BY <2>1 DEF ToSet
  <2> QED BY <2>2 DEF d
<1> QED BY <1>2, <1>3

\* The white space there is, and the places that are not.
Blanks == {SPACE, NEWLINE}
Bounds(t, lo, hi) ==
  /\ lo \in DOMAIN t /\ hi \in DOMAIN t /\ lo <= hi /\ t[lo] \notin Blanks /\ t[hi] \notin Blanks
  /\ \A i \in DOMAIN t : t[i] \notin Blanks => lo <= i /\ i <= hi

LEMMA BlankIs ==
  ASSUME NEW t
  PROVE  IsBlank(t) <=> \A i \in DOMAIN t : t[i] \in Blanks
BY DEF IsBlank, ToSet, Blanks

LEMMA TrimNothing ==
  ASSUME NEW t, IsBlank(t)
  PROVE  Trim(t) = <<>>
PROOF
<1>1. {i \in DOMAIN t : t[i] \notin {SPACE, NEWLINE}} = {}
  BY BlankIs DEF Blanks
<1> QED BY <1>1 DEF Trim

LEMMA TrimBounds ==
  ASSUME NEW S, NEW t \in Seq(S), NEW lo, NEW hi, Bounds(t, lo, hi)
  PROVE  Trim(t) = SubSeq(t, lo, hi)
PROOF
<1> DEFINE solid == {i \in DOMAIN t : t[i] \notin {SPACE, NEWLINE}}
           a == CHOOSE i \in solid : \A j \in solid : i <= j
           b == CHOOSE i \in solid : \A j \in solid : j <= i
<1>1. lo \in solid /\ hi \in solid /\ (\A j \in solid : lo <= j /\ j <= hi)
  BY DEF Bounds, Blanks
<1>2. solid \subseteq Nat
  OBVIOUS
<1>3. Trim(t) = SubSeq(t, a, b)
  BY <1>1 DEF Trim
<1> HIDE DEF solid
<1>4. a \in solid /\ \A j \in solid : a <= j
  BY <1>1
<1>5. b \in solid /\ \A j \in solid : j <= b
  BY <1>1
<1>6. a = lo
  <2>1. a <= lo /\ lo <= a /\ a \in Nat /\ lo \in Nat
    BY <1>1, <1>2, <1>4
  <2> QED BY <2>1
<1>7. b = hi
  <2>1. b <= hi /\ hi <= b /\ b \in Nat /\ hi \in Nat
    BY <1>1, <1>2, <1>5
  <2> QED BY <2>1
<1> QED BY <1>3, <1>6, <1>7

LEMMA BoundsExist ==
  ASSUME NEW S, NEW t \in Seq(S), ~IsBlank(t)
  PROVE  \E lo, hi : Bounds(t, lo, hi)
PROOF
<1> DEFINE solid == {i \in DOMAIN t : t[i] \notin Blanks}
           n == Len(t)
           back == {k \in 0..n : n - k \in solid}
<1>1. n \in Nat /\ DOMAIN t = 1..n
  OBVIOUS
<1>2. solid # {} /\ solid \in SUBSET Nat
  BY BlankIs
<1>3. PICK lo \in solid : \A j \in solid : lo <= j
  BY <1>2, LeastNumber
<1>4. back # {} /\ back \in SUBSET Nat
  <2>1. PICK i \in solid : TRUE
    BY <1>2
  <2>2. i \in 1..n
    BY <1>1
  <2>3. n - i \in 0..n /\ n - (n - i) = i
    BY <1>1, <2>2
  <2> HIDE DEF solid
  <2> QED BY <1>1, <2>1, <2>3
<1>5. PICK k \in back : \A j \in back : k <= j
  <2> HIDE DEF back
  <2> QED BY <1>4, LeastNumber
<1>6. n - k \in solid /\ k \in Nat
  BY <1>1, <1>5
<1>7. ASSUME NEW i \in solid PROVE i <= n - k
  <2>1. i \in 1..n
    BY <1>1
  <2>2. n - i \in 0..n /\ n - (n - i) = i
    BY <1>1, <2>1
  <2>3. n - i \in back
    <3> HIDE DEF solid
    <3> QED BY <2>2
  <2>4. k <= n - i
    <3> HIDE DEF back
    <3> QED BY <1>5, <2>3
  <2> QED BY <1>1, <1>6, <2>1, <2>4
<1>8. Bounds(t, lo, n - k)
  <2>1. lo \in DOMAIN t /\ n - k \in DOMAIN t /\ t[lo] \notin Blanks /\ t[n - k] \notin Blanks
    BY <1>3, <1>6
  <2>2. lo <= n - k
    BY <1>3, <1>6
  <2> QED BY <1>3, <1>7, <2>1, <2>2 DEF Bounds
<1> QED BY <1>8

\* White space before a text, or behind it, does not matter.
LEMMA TrimFirst ==
  ASSUME NEW S, NEW t \in Seq(S), NEW c \in S, c \in Blanks
  PROVE  Trim(<<c>> \o t) = Trim(t)
PROOF
<1> DEFINE u == <<c>> \o t
           n == Len(t)
<1>1. <<c>> \in Seq(S) /\ Len(<<c>>) = 1 /\ <<c>>[1] = c
  OBVIOUS
<1>2. /\ u \in Seq(S) /\ n \in Nat /\ DOMAIN u = 1..(1 + n) /\ u[1] = c
      /\ \A i \in 1..n : u[1 + i] = t[i]
  <2> DEFINE d == <<c>>
  <2>1. d \in Seq(S) /\ Len(d) = 1 /\ d[1] = c
    BY <1>1
  <2> HIDE DEF d
  <2>2. /\ d \o t \in Seq(S) /\ n \in Nat /\ DOMAIN (d \o t) = 1..(Len(d) + n)
        /\ \A i \in 1..Len(d) : (d \o t)[i] = d[i]
        /\ \A i \in 1..n : (d \o t)[Len(d) + i] = t[i]
    <3>1. d \in Seq(S) /\ t \in Seq(S)
      BY <2>1
    <3> QED BY <3>1, TwoParts
  <2>3. (d \o t)[1] = c
    <3>1. 1 \in 1..Len(d)
      BY <2>1
    <3> QED BY <2>1, <2>2, <3>1
  <2> QED BY <2>1, <2>2, <2>3 DEF d
<1>3. DOMAIN t = 1..n
  OBVIOUS
<1>4. CASE IsBlank(t)
  <2>1. IsBlank(u)
    <3>1. ASSUME NEW i \in DOMAIN u PROVE u[i] \in Blanks
      <4>1. CASE i = 1
        BY <1>2, <4>1
      <4>2. CASE i # 1
        <5>1. i - 1 \in 1..n /\ 1 + (i - 1) = i
          BY <1>2, <4>2
        <5>2. t[i - 1] \in Blanks
          BY <1>3, <1>4, <5>1, BlankIs
        <5> QED BY <1>2, <5>1, <5>2
      <4> QED BY <4>1, <4>2
    <3> QED BY <3>1, BlankIs
  <2> QED BY <1>4, <2>1, TrimNothing
<1>5. CASE ~IsBlank(t)
  <2>1. PICK lo, hi : Bounds(t, lo, hi)
    BY <1>5, BoundsExist
  <2>2. lo \in 1..n /\ hi \in 1..n /\ lo <= hi
    BY <1>3, <2>1 DEF Bounds
  <2> HIDE DEF u, n
  <2>3. Bounds(u, 1 + lo, 1 + hi)
    <3>1. 1 + lo \in DOMAIN u /\ 1 + hi \in DOMAIN u /\ 1 + lo <= 1 + hi
      BY <1>2, <2>2
    <3>2. u[1 + lo] = t[lo] /\ u[1 + hi] = t[hi]
      BY <1>2, <2>2
    <3>3. ASSUME NEW i \in DOMAIN u, u[i] \notin Blanks PROVE 1 + lo <= i /\ i <= 1 + hi
      <4>1. i # 1
        BY <1>2, <3>3
      <4>2. i - 1 \in 1..n /\ 1 + (i - 1) = i
        BY <1>2, <4>1
      <4>3. t[i - 1] \notin Blanks
        BY <1>2, <3>3, <4>2
      <4>4. lo <= i - 1 /\ i - 1 <= hi
        BY <1>3, <2>1, <4>2, <4>3 DEF Bounds
      <4> QED BY <1>2, <2>2, <4>2, <4>4
    <3> QED BY <2>1, <3>1, <3>2, <3>3 DEF Bounds
  <2>4. Trim(t) = SubSeq(t, lo, hi)
    BY <2>1, TrimBounds
  <2>5. Trim(u) = SubSeq(u, 1 + lo, 1 + hi)
    BY <1>2, <2>3, TrimBounds
  <2>6. SubSeq(u, 1 + lo, 1 + hi) = SubSeq(t, lo, hi)
    <3> DEFINE d == <<c>>
    <3>1. d \in Seq(S) /\ Len(d) = 1
      BY <1>1
    <3> HIDE DEF d
    <3>2. 1 + lo \in (Len(d) + 1)..(Len(d) + Len(t)) /\ 1 + hi \in (Len(d) + 1)..(Len(d) + Len(t))
      BY <1>2, <2>2, <3>1 DEF n
    <3>3. SubSeq(d \o t, 1 + lo, 1 + hi) = SubSeq(t, (1 + lo) - Len(d), (1 + hi) - Len(d))
      BY <3>1, <3>2, SubSeqOfConcat2
    <3>4. (1 + lo) - Len(d) = lo /\ (1 + hi) - Len(d) = hi
      BY <1>2, <2>2, <3>1
    <3> QED BY <3>3, <3>4 DEF d, u
  <2> QED BY <2>4, <2>5, <2>6 DEF u
<1> QED BY <1>4, <1>5

LEMMA TrimLast ==
  ASSUME NEW S, NEW t \in Seq(S), NEW c \in S, c \in Blanks
  PROVE  Trim(Append(t, c)) = Trim(t)
PROOF
<1> DEFINE u == Append(t, c)
           n == Len(t)
<1>1. u \in Seq(S) /\ n \in Nat /\ DOMAIN u = 1..(n + 1) /\ u[n + 1] = c /\ \A i \in 1..n : u[i] = t[i]
  BY AppendProperties
<1>2. DOMAIN t = 1..n
  OBVIOUS
<1>3. CASE IsBlank(t)
  <2>1. IsBlank(u)
    <3> HIDE DEF u, n
    <3>1. ASSUME NEW i \in DOMAIN u PROVE u[i] \in Blanks
      <4>1. CASE i = n + 1
        BY <1>1, <4>1
      <4>2. CASE i # n + 1
        <5>1. i \in 1..n
          BY <1>1, <4>2
        <5>2. t[i] \in Blanks
          BY <1>2, <1>3, <5>1, BlankIs
        <5> QED BY <1>1, <5>1, <5>2
      <4> QED BY <4>1, <4>2
    <3> QED BY <3>1, BlankIs
  <2> QED BY <1>3, <2>1, TrimNothing
<1>4. CASE ~IsBlank(t)
  <2>1. PICK lo, hi : Bounds(t, lo, hi)
    BY <1>4, BoundsExist
  <2>2. lo \in 1..n /\ hi \in 1..n /\ lo <= hi
    BY <1>2, <2>1 DEF Bounds
  <2>3. SubSeq(u, lo, hi) = SubSeq(t, lo, hi)
    <3> DEFINE d == <<c>>
    <3>1. d \in Seq(S)
      OBVIOUS
    <3>2. u = t \o d
      BY AppendIsConcat
    <3> HIDE DEF d, u
    <3>3. SubSeq(t \o d, lo, hi) = SubSeq(t, lo, hi)
      BY <2>2, <3>1, SubSeqOfConcat1
    <3> QED BY <3>2, <3>3
  <2> HIDE DEF u, n
  <2>4. Bounds(u, lo, hi)
    <3>1. lo \in DOMAIN u /\ hi \in DOMAIN u
      BY <1>1, <2>2
    <3>2. u[lo] = t[lo] /\ u[hi] = t[hi]
      BY <1>1, <2>2
    <3>3. ASSUME NEW i \in DOMAIN u, u[i] \notin Blanks PROVE lo <= i /\ i <= hi
      <4>1. i # n + 1
        BY <1>1, <3>3
      <4>2. i \in 1..n
        BY <1>1, <4>1
      <4>3. t[i] \notin Blanks
        BY <1>1, <3>3, <4>2
      <4> QED BY <1>2, <2>1, <4>2, <4>3 DEF Bounds
    <3> QED BY <2>1, <2>2, <3>1, <3>2, <3>3 DEF Bounds
  <2>5. Trim(t) = SubSeq(t, lo, hi)
    BY <2>1, TrimBounds
  <2>6. Trim(u) = SubSeq(u, lo, hi)
    BY <1>1, <2>4, TrimBounds
  <2> QED BY <2>3, <2>5, <2>6 DEF u
<1> QED BY <1>3, <1>4

\* A text without white space at its ends stays as it is.
LEMMA TrimSolid ==
  ASSUME NEW S, NEW t \in Seq(S), t # <<>>, t[1] \notin Blanks, t[Len(t)] \notin Blanks
  PROVE  Trim(t) = t
PROOF
<1>1. DOMAIN t = 1..Len(t) /\ Len(t) \in Nat /\ 1 <= Len(t)
  <2>1. Len(t) \in Nat \ {0}
    BY EmptySeq
  <2> QED BY <2>1
<1>2. Bounds(t, 1, Len(t))
  BY <1>1 DEF Bounds
<1>3. Trim(t) = SubSeq(t, 1, Len(t))
  BY <1>2, TrimBounds
<1> QED BY <1>3, SubSeqFull

LEMMA TrimTyped ==
  ASSUME NEW S, NEW t \in Seq(S)
  PROVE  Trim(t) \in Seq(S)
PROOF
<1>1. CASE IsBlank(t)
  <2>1. Trim(t) = <<>>
    BY <1>1, TrimNothing
  <2>2. <<>> \in Seq(S)
    OBVIOUS
  <2> QED BY <2>1, <2>2, Zenon
<1>2. CASE ~IsBlank(t)
  <2>1. PICK lo, hi : Bounds(t, lo, hi)
    BY <1>2, BoundsExist
  <2>2. Trim(t) = SubSeq(t, lo, hi)
    BY <2>1, TrimBounds
  <2>3. lo \in Int /\ hi \in Int /\ \A j \in lo..hi : t[j] \in S
    BY <2>1 DEF Bounds
  <2> QED BY <2>2, <2>3, SubSeqProperties
<1> QED BY <1>1, <1>2

(***************************************************************************)
(* Where a session is                                                      *)
(***************************************************************************)
LEMMA RootIs == SessionsRoot \in Seq(Names) /\ ToSet(SessionsRoot) \cap Dots = {}
PROOF
<1> DEFINE base == <<"base">>
           sessions == <<"sessions">>
           below == <<base, sessions>>
<1>1. base \in Names /\ sessions \in Names
  BY NamesMade
<1>2. SessionsRoot = Home \o below
  BY DEF SessionsRoot
<1>3. base \notin Dots /\ sessions \notin Dots
  BY DEF Dots
<1> HIDE DEF base, sessions
<1>4. below \in Seq(Names) /\ Home \in Seq(Names)
  BY <1>1, NamesMade, PlacesAssumption
<1>5. ToSet(below) \cap Dots = {}
  BY <1>3 DEF ToSet
<1> HIDE DEF below
<1> QED BY <1>2, <1>4, <1>5, ConcatProperties, SetOfBoth, PlacesAssumption

LEMMA OriginIs ==
  ASSUME NEW origin \in Origin
  PROVE  ResolveOriginSessionDir(origin) \in Seq(Names)
PROOF
<1>1. CASE ~ origin.bare
  <2>1. origin.path \in Seq(Name \ {<<".">>}) /\ ResolveOriginSessionDir(origin) = origin.path
    BY <1>1 DEF Origin, ResolveOriginSessionDir
  <2>2. \A L, M : L \subseteq M => Seq(L) \subseteq Seq(M)
    OBVIOUS
  <2>3. Name \ {<<".">>} \subseteq Names
    BY NamesMade
  <2> QED BY <2>1, <2>2, <2>3, Zenon
<1>2. CASE origin.bare
  <2> DEFINE bare == Trim(origin.name)
  <2>1. origin.name \in Seq(STRING)
    BY <1>2 DEF Origin, Name
  <2>2. bare \in Seq(STRING)
    BY <2>1, TrimTyped
  <2>3. bare \in Names
    BY <2>2, NamesMade DEF Name
  <2>4. ResolveOriginSessionDir(origin) \in {SessionsRoot \o <<>>, SessionsRoot \o <<bare>>}
    BY <1>2 DEF ResolveOriginSessionDir
  <2> HIDE DEF bare
  <2> QED BY <2>3, <2>4, RootIs
<1> QED BY <1>1, <1>2

LEMMA SessionAlwaysKept ==
  ASSUME NEW s, s.origin \in Origin, s.plan \in Name, s.node \in Name, s.id \in Name
  PROVE  SessionKept(s)
PROOF
<1> DEFINE from == ResolveOriginSessionDir(s.origin)
           plan == SanitizeDirComponent(s.plan)
           node == SanitizeDirComponent(s.node)
           below == << <<"plans">>, plan, node, s.id>>
           bare == Trim(s.origin.name)
<1>1. SessionsRoot \in Seq(Names) /\ from \in Seq(Names) /\ s.id \in Names
  BY RootIs, OriginIs, NamesMade
<1>2. /\ below \in Seq(Names) /\ Len(below) = 4 /\ below[4] = s.id
      /\ SafePathComponent(s.id) => ToSet(below) \cap Dots = {}
  <2> DEFINE plans == <<"plans">>
  <2>1. plans \in Names /\ plan \in Names /\ node \in Names /\ s.id \in Names
    BY NamesMade, SanitizedName
  <2>2. plans \notin Dots /\ plan \notin Dots /\ node \notin Dots /\ (SafePathComponent(s.id) => s.id \notin Dots)
    <3>1. plans \notin Dots
      BY DEF Dots
    <3>2. SafePathComponent(plan) /\ SafePathComponent(node)
      BY SanitizedSafe
    <3> HIDE DEF plans, plan, node
    <3> QED BY <3>1, <3>2 DEF SafePathComponent
  <2>3. below = <<plans, plan, node, s.id>>
    OBVIOUS
  <2> HIDE DEF plans, plan, node, below
  <2>4. ToSet(below) = {plans, plan, node, s.id}
    BY <2>3 DEF ToSet
  <2>5. below \in Seq(Names) /\ Len(below) = 4 /\ below[4] = s.id
    BY <2>1, <2>3
  <2> QED BY <2>2, <2>4, <2>5
<1> HIDE DEF from, below, plan, node
<1>3. \A t \in Seq(Names) : Len(t) \in Nat
  OBVIOUS
<1>4. ASSUME NEW p \in SessionPath(s.origin, s.plan, s.node, s.id)
      PROVE  /\ Normalized(p) # <<>> /\ Last(Normalized(p)) = s.id
             /\ IsBlank(s.plan) => Front(Normalized(p)) = SessionsRoot
             /\ ~IsBlank(s.plan) =>
                  /\ Len(Normalized(p)) = Len(Normalized(from)) + 4
                  /\ IsPrefix(Normalized(from), Normalized(p))
                  /\ ToSet(from) \cap Dots = {} => ContainedUnder(SessionsRoot, Normalized(p))
  <2>1. SafePathComponent(s.id)
    BY DEF SessionPath
  <2>2. CASE IsBlank(s.plan)
    <3> DEFINE one == <<s.id>>
    <3>1. p = SessionsRoot \o one
      BY <2>1, <2>2 DEF SessionPath
    <3>2. one \in Seq(Names) /\ Len(one) = 1 /\ one[1] = s.id
      BY <1>1
    <3>3. ToSet(one) \cap Dots = {}
      BY <2>1, SetOfOne DEF SafePathComponent
    <3> HIDE DEF one
    <3>4. p \in Seq(Names) /\ Normalized(p) = p
      <4>1. p \in Seq(Names)
        BY <1>1, <3>1, <3>2, ConcatProperties
      <4>2. ToSet(p) = ToSet(SessionsRoot) \cup ToSet(one)
        BY <1>1, <3>1, <3>2, SetOfBoth
      <4>3. ToSet(p) \cap Dots = {}
        BY <3>3, <4>2, RootIs
      <4> QED BY <4>1, <4>3, NormalizedSettles
    <3> DEFINE m == Len(SessionsRoot)
    <3>5. m \in Nat /\ Len(p) = m + 1 /\ p[m + 1] = s.id
      <4>1. /\ Len(SessionsRoot) \in Nat /\ Len(p) = Len(SessionsRoot) + Len(one)
            /\ \A i \in 1..Len(one) : p[Len(SessionsRoot) + i] = one[i]
        <5>1. SessionsRoot \in Seq(Names) /\ one \in Seq(Names)
          BY <1>1, <3>2
        <5>2. /\ Len(SessionsRoot) \in Nat /\ Len(SessionsRoot \o one) = Len(SessionsRoot) + Len(one)
              /\ \A i \in 1..Len(one) : (SessionsRoot \o one)[Len(SessionsRoot) + i] = one[i]
          BY <5>1, TwoParts
        <5> QED BY <3>1, <5>2, Zenon
      <4>2. 1 \in 1..Len(one)
        BY <3>2
      <4> QED BY <3>2, <4>1, <4>2
    <3>6. SubSeq(p, 1, m) = SessionsRoot
      BY <1>1, <3>1, <3>2
    <3> HIDE DEF m
    <3>7. p # <<>> /\ Last(p) = s.id /\ Front(p) = SessionsRoot
      <4>1. (m + 1) - 1 = m /\ m + 1 # 0
        BY <3>5
      <4>2. Len(p) # 0
        BY <3>5, <4>1
      <4>3. p # <<>>
        BY <4>2
      <4> QED BY <3>5, <3>6, <4>1, <4>3 DEF Last, Front
    <3> QED BY <2>2, <3>4, <3>7
  <2>3. CASE ~IsBlank(s.plan)
    <3>1. p = from \o below /\ ContainedUnder(SessionsRoot, p)
      BY <2>1, <2>3 DEF SessionPath, from, below, plan, node
    <3> DEFINE at == Normalized(p)
               lead == Normalized(from)
    <3>2. ToSet(below) \cap Dots = {}
      BY <1>2, <2>1
    <3>3. at = lead \o below /\ lead \in Seq(Names)
      <4>1. from \in Seq(Names) /\ below \in Seq(Names)
        BY <1>1, <1>2
      <4>2. Normalized(from \o below) = Normalized(from) \o below
        BY <3>2, <4>1, NormalizedOver
      <4>3. Normalized(from) \in Seq(Names)
        BY <4>1, NormalizedSettles
      <4> QED BY <3>1, <4>2, <4>3, Zenon
    <3>4. ASSUME ToSet(from) \cap Dots = {} PROVE ContainedUnder(SessionsRoot, at)
      <4>1. ToSet(p) = ToSet(from) \cup ToSet(below) /\ p \in Seq(Names)
        BY <1>1, <1>2, <3>1, SetOfBoth, ConcatProperties
      <4>2. ToSet(p) \cap Dots = {}
        BY <3>2, <3>4, <4>1
      <4>3. at = p
        BY <4>1, <4>2, NormalizedSettles
      <4> QED BY <3>1, <4>3
    <3> HIDE DEF at, lead
    <3> DEFINE m == Len(lead)
    <3>5. m \in Nat /\ Len(at) = m + 4 /\ at[m + 4] = s.id
      <4>1. /\ Len(lead) \in Nat /\ Len(at) = Len(lead) + Len(below)
            /\ \A i \in 1..Len(below) : at[Len(lead) + i] = below[i]
        <5>1. lead \in Seq(Names) /\ below \in Seq(Names)
          BY <1>2, <3>3
        <5>2. /\ Len(lead) \in Nat /\ Len(lead \o below) = Len(lead) + Len(below)
              /\ \A i \in 1..Len(below) : (lead \o below)[Len(lead) + i] = below[i]
          BY <5>1, TwoParts
        <5> QED BY <3>3, <5>2, Zenon
      <4>2. 4 \in 1..Len(below)
        BY <1>2
      <4> QED BY <1>2, <4>1, <4>2
    <3>6. SubSeq(at, 1, m) = lead /\ SubSeq(lead, 1, m) = lead
      BY <1>2, <3>3
    <3>7. at # <<>> /\ Last(at) = s.id
      <4>1. Len(at) # 0
        BY <3>5
      <4>2. at # <<>>
        BY <4>1
      <4> QED BY <3>5, <4>2 DEF Last
    <3>8. IsPrefix(lead, at)
      <4>1. m <= Len(at)
        BY <3>5
      <4> QED BY <3>6, <4>1 DEF IsPrefix
    <3> QED BY <2>3, <3>4, <3>5, <3>7, <3>8 DEF at, lead
  <2> QED BY <2>2, <2>3
<1>5. ASSUME s.origin.bare, bare \notin {<<>>, <<".">>}
      PROVE  SessionPath([bare |-> FALSE, path |-> SessionsRoot \o <<bare>>], s.plan, s.node, s.id)
               = SessionPath(s.origin, s.plan, s.node, s.id)
  <2>1. ResolveOriginSessionDir([bare |-> FALSE, path |-> SessionsRoot \o <<bare>>])
          = ResolveOriginSessionDir(s.origin)
    BY <1>5 DEF ResolveOriginSessionDir
  <2> QED BY <2>1 DEF SessionPath
<1> QED BY <1>4, <1>5, SanitizedSafe DEF SessionKept, from

\* A session's path leads to where its origin's leads and four levels down, and
\* stays in the sessions directory if the origin has no ".."; a resolved path
\* has no dots and stays resolved; whatever is in a directory, the list has all
\* of it once, in order; a file that can be read as text can be read as data,
\* within its bound; and no object's path comes of a hash with a separator in it.
THEOREM PathsAlwaysKept == CodecsSpec => []PathsKept
PROOF
<1>1. ASSUME sample \in Samples \cup {Stream} PROVE PathsKept
  <2>1. CASE sample = Stream
    BY <2>1 DEF PathsKept, Stream
  <2>2. CASE sample \in Samples
    <3>1. sample.is = "session" => SessionKept(sample)
      BY <2>2, SamplesAssumption, SessionAlwaysKept
    <3>2. sample.is = "resolve" => ResolveSettles(sample.path)
      BY <2>2, SamplesAssumption, AlwaysSettles
    <3>3. sample.is = "list" => ListWhole(sample.root, sample.entries)
      BY <2>2, SamplesAssumption, ListAlwaysWhole
    <3>4. sample.is = "file" => /\ FsReadFileText(sample.file) # {} => FsReadFileDataUri(sample.file) # {}
                                /\ \A n \in FsReadFileDataUri(sample.file) : n <= MaxDataUri
      BY <2>2, SamplesAssumption, FileAlwaysRead
    <3>5. \A p \in ObjectPath(sample.hash) : ToSet(sample.hash) \cap Separators = {}
      BY HashNoPath
    <3> QED BY <3>1, <3>2, <3>3, <3>4, <3>5 DEF PathsKept
  <2> QED BY <1>1, <2>1, <2>2
<1> QED BY <1>1, SampleGiven, PTL

(***************************************************************************)
(* The profiles of voice input                                             *)
(***************************************************************************)
LEMMA TrimBlank ==
  ASSUME NEW S, NEW t \in Seq(S), ~IsBlank(t)
  PROVE  ~IsBlank(Trim(t)) /\ Trim(t) # <<>>
PROOF
<1>1. PICK lo, hi : Bounds(t, lo, hi)
  BY BoundsExist
<1>2. Trim(t) = SubSeq(t, lo, hi)
  BY <1>1, TrimBounds
<1>3. lo \in Nat /\ hi \in Nat /\ lo <= hi /\ t[lo] \notin Blanks
  BY <1>1 DEF Bounds
<1> DEFINE u == SubSeq(t, lo, hi)
<1>4. 1 \in DOMAIN u /\ u[1] = t[lo]
  BY <1>1, <1>3 DEF Bounds
<1> HIDE DEF u
<1>5. ~IsBlank(u)
  BY <1>3, <1>4, BlankIs
<1>6. u # <<>>
  BY <1>4
<1> QED BY <1>2, <1>5, <1>6 DEF u

LEMMA NothingBlank == IsBlank(<<>>)
BY BlankIs

\* The models the code names.
LEMMA ModelsNamed ==
  /\ ~IsBlank(StepAudioModel) /\ ~IsBlank(WhisperModel) /\ StepAudioModel # WhisperModel
  /\ Trim(StepAudioModel) = StepAudioModel /\ Trim(WhisperModel) = WhisperModel
PROOF
<1>1. "stepaudio-2.5-asr" \notin Blanks
  <2>1. "stepaudio-2.5-asr" # " "
    BY Zenon
  <2>2. "stepaudio-2.5-asr" # "newline"
    BY Zenon
  <2> QED BY <2>1, <2>2 DEF Blanks, SPACE, NEWLINE
<1>2. "whisper-1" \notin Blanks
  <2>1. "whisper-1" # " "
    BY Zenon
  <2>2. "whisper-1" # "newline"
    BY Zenon
  <2> QED BY <2>1, <2>2 DEF Blanks, SPACE, NEWLINE
<1>3. ASSUME NEW x, x \notin Blanks PROVE ~IsBlank(<<x>>) /\ Trim(<<x>>) = <<x>>
  <2> DEFINE u == <<x>>
  <2>1. u \in Seq({x}) /\ Len(u) = 1 /\ 1 \in DOMAIN u /\ u[1] = x /\ u # <<>>
    OBVIOUS
  <2> HIDE DEF u
  <2>2. ~IsBlank(u)
    BY <1>3, <2>1, BlankIs
  <2>3. Trim(u) = u
    BY <1>3, <2>1, TrimSolid
  <2> QED BY <2>2, <2>3 DEF u
<1>4. <<"stepaudio-2.5-asr">> # <<"whisper-1">>
  OBVIOUS
<1> QED BY <1>1, <1>2, <1>3, <1>4 DEF StepAudioModel, WhisperModel

\* A profile with its defaults has them for good.
LEMMA ProfileNormalized ==
  ASSUME NEW p \in Profile, NEW i \in Nat \ {0}
  PROVE  LET q == NormalizeProfile(p, i)
         IN  /\ ~IsBlank(q.id) /\ q.protocol \in Protocols /\ ~IsBlank(q.model)
             /\ NormalizeProfile(q, i) = q
             /\ ~IsBlank(p.id) => q.id = p.id
             /\ ~IsBlank(p.model) => q.model = p.model
             /\ IsBlank(p.model) => q.model = DefaultAsrModel(q.protocol)
             /\ q.url = p.url
PROOF
<1> DEFINE protocol == IF p.protocol \in {"chat_completions", "step_audio"} THEN p.protocol ELSE "transcriptions"
           id == IF IsBlank(p.id) THEN FreshId(i) ELSE p.id
           model == IF IsBlank(p.model) THEN DefaultAsrModel(protocol) ELSE p.model
           q == NormalizeProfile(p, i)
<1>1. q = [p EXCEPT !.id = id, !.protocol = protocol, !.model = model]
  BY DEF NormalizeProfile
<1>2. protocol \in Protocols
  BY DEF Protocols
<1>3. ~IsBlank(FreshId(i))
  <2>1. 1 \in DOMAIN FreshId(i) /\ FreshId(i)[1] = "uuid"
    BY DEF FreshId
  <2>2. "uuid" # " "
    BY Zenon
  <2>3. "uuid" # "newline"
    BY Zenon
  <2>4. "uuid" \notin Blanks
    BY <2>2, <2>3 DEF Blanks, SPACE, NEWLINE
  <2> QED BY <2>1, <2>4, BlankIs
<1>4. ~IsBlank(DefaultAsrModel(protocol))
  BY ModelsNamed DEF DefaultAsrModel
<1>5. ~IsBlank(id) /\ ~IsBlank(model)
  BY <1>3, <1>4
<1>6. /\ ~IsBlank(p.id) => id = p.id
      /\ ~IsBlank(p.model) => model = p.model
      /\ IsBlank(p.model) => model = DefaultAsrModel(protocol)
  OBVIOUS
<1> HIDE DEF id, protocol, model, q
<1>7. /\ q.id = id /\ q.protocol = protocol /\ q.model = model
      /\ q = [id |-> id, protocol |-> protocol, model |-> model, url |-> p.url] /\ q.url = p.url
  <2> DEFINE S == STRING
             T == Text
  <2>1. p \in [id : T, protocol : S, model : T, url : T]
    BY DEF Profile
  <2> HIDE DEF S, T
  <2> QED BY <1>1, <2>1
<1>8. NormalizeProfile(q, i) = q
  <2>1. NormalizeProfile(q, i) = [q EXCEPT !.id = id, !.protocol = protocol, !.model = model]
    BY <1>2, <1>5, <1>7 DEF NormalizeProfile, Protocols
  <2> QED BY <1>7, <2>1
<1> QED BY <1>2, <1>5, <1>6, <1>7, <1>8 DEF q

LEMMA AsrAlwaysKept ==
  ASSUME NEW c \in AsrFile
  PROVE  AsrKept(c)
PROOF
<1> DEFINE n == NormalizeAsrConfig(c)
           cp == c.profiles
           ps == [i \in DOMAIN cp |-> NormalizeProfile(cp[i], i)]
           ids == {ps[i].id : i \in DOMAIN ps}
           Kept(x) == ~IsBlank(x) /\ Trim(x) \in ids
           first == IF ps = <<>> THEN <<>> ELSE ps[1].id
           active == IF Kept(c.active) THEN c.active ELSE first
<1>1. cp \in Seq(Profile) /\ Len(cp) \in Nat /\ DOMAIN cp = 1..Len(cp) /\ \A i \in DOMAIN cp : cp[i] \in Profile
  BY DEF AsrFile
<1>2. n = [profiles |-> ps, active |-> active]
  BY DEF NormalizeAsrConfig
<1>3. \A i \in DOMAIN cp : ps[i] = NormalizeProfile(cp[i], i)
  OBVIOUS
<1>4. DOMAIN ps = 1..Len(cp) /\ Len(ps) = Len(cp)
  BY <1>1
<1>5. ps # <<>> => 1 \in DOMAIN ps
  BY <1>1, <1>4
<1>13. c.active \in Seq(STRING)
  BY DEF AsrFile, Text
<1> HIDE DEF n, cp, ps, active, first
<1>6. n.profiles = ps /\ n.active = active
  BY <1>2
<1>7. ASSUME NEW i \in DOMAIN ps
      PROVE  /\ ~IsBlank(ps[i].id) /\ ps[i].protocol \in Protocols /\ ~IsBlank(ps[i].model)
             /\ NormalizeProfile(ps[i], i) = ps[i]
             /\ ~IsBlank(cp[i].id) => ps[i].id = cp[i].id
             /\ ~IsBlank(cp[i].model) => ps[i].model = cp[i].model
             /\ IsBlank(cp[i].model) => ps[i].model = DefaultAsrModel(ps[i].protocol)
  <2>1. cp[i] \in Profile /\ ps[i] = NormalizeProfile(cp[i], i) /\ i \in Nat \ {0}
    BY <1>1, <1>3, <1>4
  <2> QED BY <2>1, ProfileNormalized
<1>8. \/ active = c.active /\ Kept(c.active)
      \/ active = first /\ ~Kept(c.active)
  BY DEF active
<1>14. ps # <<>> => first \in ids /\ 1 \in DOMAIN ps /\ first = ps[1].id
  BY <1>5 DEF first
<1> HIDE DEF Kept
<1>9. NormalizeAsrConfig(n) = n
  <2>1. [i \in DOMAIN ps |-> NormalizeProfile(ps[i], i)] = ps
    <3>1. ps = [i \in DOMAIN ps |-> ps[i]]
      BY DEF ps
    <3> QED BY <1>7, <3>1
  <2> DEFINE again == [i \in DOMAIN n.profiles |-> NormalizeProfile(n.profiles[i], i)]
             known == {again[i].id : i \in DOMAIN again}
  <2>2. again = ps
    BY <1>6, <2>1
  <2> HIDE DEF again
  <2>3. NormalizeAsrConfig(n) =
          [profiles |-> again,
           active |-> IF ~IsBlank(n.active) /\ Trim(n.active) \in known THEN n.active
                      ELSE IF again = <<>> THEN <<>> ELSE again[1].id]
    BY DEF NormalizeAsrConfig, again
  <2>4. known = ids
    BY <2>2
  <2> HIDE DEF known, ids
  <2>5. (IF ~IsBlank(n.active) /\ Trim(n.active) \in known THEN n.active
         ELSE IF again = <<>> THEN <<>> ELSE again[1].id) = IF Kept(active) THEN active ELSE first
    BY <1>6, <2>2, <2>4 DEF Kept, first
  <2>6. (IF Kept(active) THEN active ELSE first) = active
    BY <1>8
  <2> QED BY <1>2, <2>2, <2>3, <2>5, <2>6
<1>10. /\ (ActiveProfile(n) = {}) = (n.profiles = <<>>)
       /\ \A p \in ActiveProfile(n) :
            p.id = n.active \/ (p = n.profiles[1] /\ n.active = c.active /\ Trim(n.active) # n.active)
  <2>1. CASE ps = <<>>
    <3>1. ActiveProfile(n) = {}
      BY <1>6, <2>1 DEF ActiveProfile
    <3> QED BY <1>6, <2>1, <3>1
  <2>2. CASE ps # <<>>
    <3> DEFINE found == {i \in DOMAIN ps : ps[i].id = active}
               least == CHOOSE i \in found : \A j \in found : i <= j
    <3>1. found \in SUBSET Nat
      BY <1>1, <1>4
    <3>2. found # {} => \E i \in found : \A j \in found : i <= j
      <4> HIDE DEF found
      <4> QED BY <3>1, LeastNumber
    <3>3. found # {} => least \in found
      <4> HIDE DEF found
      <4> QED BY <3>2
    <3>4. found # {} => ps[least].id = active
      <4> HIDE DEF least
      <4> QED BY <3>3
    <3>5. ActiveProfile(n) = {ps[IF found = {} THEN 1 ELSE least]}
      BY <1>6, <2>2 DEF ActiveProfile
    <3>6. found = {} => active \notin ids
      OBVIOUS
    <3> HIDE DEF found, least, ids
    <3>7. CASE found # {}
      <4>1. ActiveProfile(n) = {ps[least]}
        BY <3>5, <3>7
      <4> QED BY <1>6, <2>2, <3>4, <3>7, <4>1
    <3>8. CASE found = {}
      <4>1. ActiveProfile(n) = {ps[1]}
        BY <3>5, <3>8
      <4>2. active = c.active /\ Kept(c.active)
        BY <1>8, <1>14, <2>2, <3>6, <3>8
      <4>3. Trim(active) # active
        BY <3>6, <3>8, <4>2 DEF Kept
      <4> QED BY <1>6, <2>2, <4>1, <4>2, <4>3
    <3> QED BY <3>7, <3>8
  <2> QED BY <2>1, <2>2
<1>11. ASSUME \E i \in DOMAIN cp : cp[i].id = Trim(c.active) /\ ~IsBlank(c.active) PROVE n.active = c.active
  <2>1. PICK i \in DOMAIN cp : cp[i].id = Trim(c.active) /\ ~IsBlank(c.active)
    BY <1>11
  <2>2. ~IsBlank(cp[i].id)
    BY <1>13, <2>1, TrimBlank
  <2>3. i \in DOMAIN ps /\ ps[i].id = Trim(c.active)
    BY <1>1, <1>4, <1>7, <2>1, <2>2
  <2>4. Trim(c.active) \in ids
    BY <2>3
  <2> HIDE DEF ids
  <2> QED BY <1>6, <1>8, <2>1, <2>4 DEF Kept
<1>12. ASSUME NEW i \in DOMAIN ps
       PROVE  /\ ~IsBlank(cp[i].model) => ps[i].model = cp[i].model
              /\ IsBlank(cp[i].model) => (ps[i].model = WhisperModel) = (ps[i].protocol # "step_audio")
  BY <1>7, ModelsNamed DEF DefaultAsrModel
<1> QED BY <1>4, <1>6, <1>9, <1>10, <1>11, <1>12 DEF AsrKept, n, cp

(***************************************************************************)
(* Texts, escaped                                                          *)
(***************************************************************************)
Char == STRING \cup {QUOTE, BACKSLASH, NEWLINE, SPACE, "n", "code", "static", "json", "open", "rest"}
Special == {QUOTE, BACKSLASH, NEWLINE}
Code(c) == IF c = NEWLINE THEN "n" ELSE c

LEMMA CharsDiffer ==
  /\ QUOTE # BACKSLASH /\ QUOTE # NEWLINE /\ BACKSLASH # NEWLINE
  /\ QUOTE # SPACE /\ BACKSLASH # SPACE /\ NEWLINE # SPACE /\ "n" # SPACE
  /\ "n" # QUOTE /\ "n" # BACKSLASH /\ "n" # NEWLINE
PROOF
<1>1. QUOTE # BACKSLASH /\ QUOTE # NEWLINE /\ BACKSLASH # NEWLINE
  BY DEF QUOTE, BACKSLASH, NEWLINE
<1>2. "n" # QUOTE /\ "n" # BACKSLASH /\ "n" # NEWLINE
  BY DEF QUOTE, BACKSLASH, NEWLINE
<1>3. QUOTE # SPACE
  BY Zenon DEF QUOTE, SPACE
<1>4. BACKSLASH # SPACE
  BY Zenon DEF BACKSLASH, SPACE
<1>5. NEWLINE # SPACE
  BY Zenon DEF NEWLINE, SPACE
<1>6. "n" # SPACE
  BY Zenon DEF SPACE
<1> QED BY <1>1, <1>2, <1>3, <1>4, <1>5, <1>6

LEMMA EscapeIs ==
  ASSUME NEW c \in Char
  PROVE  /\ Escape(c) = IF c \in Special THEN <<BACKSLASH, Code(c)>> ELSE <<c>>
         /\ Escape(c) \in Seq(Char) /\ Code(c) \in Char
PROOF
<1>1. BACKSLASH \in Char /\ "n" \in Char
  BY DEF Char
<1>2. Code(c) \in Char
  BY <1>1 DEF Code
<1>3. CASE c \in {QUOTE, BACKSLASH}
  <2>1. c # NEWLINE
    BY <1>3, CharsDiffer
  <2>2. Escape(c) = <<BACKSLASH, Code(c)>>
    BY <1>3, <2>1 DEF Escape, Code
  <2> QED BY <1>1, <1>2, <1>3, <2>2 DEF Special
<1>4. CASE c = NEWLINE
  <2>1. c \notin {QUOTE, BACKSLASH}
    BY <1>4, CharsDiffer
  <2>2. Escape(c) = <<BACKSLASH, "n">>
    BY <1>4, <2>1 DEF Escape
  <2> QED BY <1>1, <1>2, <1>4, <2>2 DEF Special, Code
<1>5. CASE c \notin Special
  <2>1. Escape(c) = <<c>>
    BY <1>5 DEF Escape, Special
  <2> QED BY <1>2, <1>5, <2>1
<1> QED BY <1>3, <1>4, <1>5 DEF Special

\* One character after the other.
LEMMA EscapedMore ==
  /\ Escaped(<<>>) = <<>>
  /\ \A t \in Seq(Char) : \A c \in Char :
       Escaped(t) \in Seq(Char) /\ Escaped(Append(t, c)) = Escaped(t) \o Escape(c)
PROOF
<1> DEFINE T == Seq(Char)
           each(t) == [i \in DOMAIN t |-> Escape(t[i])]
<1>1. \A t : Escaped(t) = FlattenSeq(each(t))
  BY DEF Escaped
<1>2. Escaped(<<>>) = <<>>
  <2>1. each(<<>>) = <<>>
    OBVIOUS
  <2>2. FlattenSeq(<<>>) = <<>>
    BY DEF FlattenSeq
  <2> HIDE DEF each
  <2> QED BY <1>1, <2>1, <2>2
<1>3. ASSUME NEW t \in T PROVE each(t) \in Seq(T) /\ Len(each(t)) = Len(t)
  <2>1. DOMAIN t = 1..Len(t) /\ Len(t) \in Nat /\ \A i \in DOMAIN t : t[i] \in Char
    OBVIOUS
  <2>2. \A i \in 1..Len(t) : Escape(t[i]) \in T
    BY <2>1, EscapeIs
  <2> HIDE DEF T
  <2>3. [i \in 1..Len(t) |-> Escape(t[i])] \in Seq(T)
    BY <2>1, <2>2
  <2>4. Len([i \in 1..Len(t) |-> Escape(t[i])]) = Len(t)
    BY <2>1
  <2> QED BY <2>1, <2>3, <2>4
<1>4. ASSUME NEW t \in T, NEW c \in Char
      PROVE  Escaped(t) \in T /\ Escaped(Append(t, c)) = Escaped(t) \o Escape(c)
  <2> DEFINE u == Append(t, c)
             a == each(t)
             b == each(u)
             d == Append(a, Escape(c))
  <2>1. u \in T /\ Len(u) = Len(t) + 1 /\ u[Len(t) + 1] = c /\ \A i \in 1..Len(t) : u[i] = t[i]
    BY AppendProperties
  <2>2. Len(t) \in Nat /\ DOMAIN t = 1..Len(t)
    OBVIOUS
  <2>3. DOMAIN u = 1..(Len(t) + 1)
    <3> HIDE DEF u
    <3> QED BY <2>1
  <2>4. a \in Seq(T) /\ Len(a) = Len(t) /\ b \in Seq(T) /\ Len(b) = Len(t) + 1
    <3>1. b \in Seq(T) /\ Len(b) = Len(u)
      <4> HIDE DEF u, each
      <4> QED BY <1>3, <2>1
    <3>2. a \in Seq(T) /\ Len(a) = Len(t)
      <4> HIDE DEF each
      <4> QED BY <1>3
    <3> HIDE DEF a, b
    <3> QED BY <2>1, <3>1, <3>2
  <2>5. \A i \in 1..Len(t) : a[i] = Escape(t[i]) /\ b[i] = Escape(t[i])
    <3> HIDE DEF u
    <3> QED BY <2>1, <2>2, <2>3
  <2>6. b[Len(t) + 1] = Escape(c)
    <3> HIDE DEF u
    <3>1. Len(t) + 1 \in DOMAIN u
      BY <2>2, <2>3
    <3> QED BY <2>1, <3>1
  <2>7. Escape(c) \in T
    BY EscapeIs
  <2>8. b = d
    <3> HIDE DEF a, b, u, T
    <3>1. d \in Seq(T) /\ Len(d) = Len(t) + 1 /\ (\A i \in 1..Len(t) : d[i] = a[i]) /\ d[Len(t) + 1] = Escape(c)
      <4>1. d \in Seq(T) /\ Len(d) = Len(a) + 1 /\ (\A i \in 1..Len(a) : d[i] = a[i]) /\ d[Len(a) + 1] = Escape(c)
        <5>1. a \in Seq(T) /\ Escape(c) \in T
          BY <2>4, <2>7
        <5> QED BY <5>1, AppendProperties
      <4> HIDE DEF d
      <4> QED BY <2>4, <4>1
    <3> HIDE DEF d
    <3>2. \A i \in 1..(Len(t) + 1) : b[i] = d[i]
      <4> TAKE i \in 1..(Len(t) + 1)
      <4>1. CASE i = Len(t) + 1
        BY <2>6, <3>1, <4>1
      <4>2. CASE i # Len(t) + 1
        <5>1. i \in 1..Len(t)
          BY <2>2, <4>2
        <5> QED BY <2>5, <3>1, <5>1
      <4> QED BY <4>1, <4>2
    <3>3. Len(b) = Len(d) /\ \A i \in 1..Len(b) : b[i] = d[i]
      BY <2>4, <3>1, <3>2
    <3> QED BY <2>4, <3>1, <3>3, SeqEqual
  <2>9. FlattenSeq(a) \in T /\ FlattenSeq(d) = FlattenSeq(a) \o Escape(c)
    <3> HIDE DEF a
    <3>1. a \in Seq(Seq(Char)) /\ Escape(c) \in Seq(Char)
      BY <2>4, <2>7
    <3> QED BY <3>1, FlattenMore
  <2> HIDE DEF each, T
  <2> QED BY <1>1, <2>8, <2>9
<1> QED BY <1>2, <1>4

LEMMA SetOfMore ==
  ASSUME NEW S, NEW s \in Seq(S), NEW c \in S
  PROVE  ToSet(Append(s, c)) = ToSet(s) \cup {c}
PROOF
<1> DEFINE d == <<c>>
<1>1. d \in Seq(S)
  OBVIOUS
<1>2. Append(s, c) = s \o d
  BY AppendIsConcat
<1>3. ToSet(d) = {c}
  BY SetOfOne
<1> HIDE DEF d
<1>4. ToSet(s \o d) = ToSet(s) \cup ToSet(d)
  BY <1>1, SetOfBoth
<1> QED BY <1>2, <1>3, <1>4

\* All that can be said of every text, character by character.
LEMMA EscapedTyped == \A t \in Seq(Char) : Escaped(t) \in Seq(Char)
PROOF
<1>1. QUOTE \in Char
  BY DEF Char
<1> QED BY <1>1, EscapedMore

LEMMA EscapedBoth ==
  ASSUME NEW a \in Seq(Char), NEW b \in Seq(Char)
  PROVE  Escaped(a \o b) = Escaped(a) \o Escaped(b)
PROOF
<1> DEFINE P == {t \in Seq(Char) : Escaped(a \o t) = Escaped(a) \o Escaped(t)}
<1>1. <<>> \in P
  <2>1. a \o <<>> = a
    BY ConcatEmptySeq
  <2>2. Escaped(a) \o <<>> = Escaped(a)
    BY EscapedTyped, ConcatEmptySeq
  <2>3. <<>> \in Seq(Char)
    OBVIOUS
  <2> QED BY <2>1, <2>2, <2>3, EscapedMore
<1>2. ASSUME NEW t \in Seq(Char), NEW c \in Char, t \in P PROVE Append(t, c) \in P
  <2>1. a \o Append(t, c) = Append(a \o t, c)
    <3>1. <<c>> \in Seq(Char) /\ a \o t \in Seq(Char)
      OBVIOUS
    <3>2. Append(t, c) = t \o <<c>> /\ Append(a \o t, c) = (a \o t) \o <<c>>
      BY <3>1, AppendIsConcat
    <3>3. (a \o t) \o <<c>> = a \o (t \o <<c>>)
      BY <3>1, ConcatAssociative
    <3> QED BY <3>2, <3>3
  <2>2. a \o t \in Seq(Char) /\ Append(t, c) \in Seq(Char)
    OBVIOUS
  <2>3. Escaped(Append(a \o t, c)) = Escaped(a \o t) \o Escape(c)
    BY <2>2, EscapedMore
  <2>4. Escaped(Append(t, c)) = Escaped(t) \o Escape(c)
    BY EscapedMore
  <2>5. Escaped(a \o t) = Escaped(a) \o Escaped(t)
    BY <1>2
  <2>6. (Escaped(a) \o Escaped(t)) \o Escape(c) = Escaped(a) \o (Escaped(t) \o Escape(c))
    <3>1. Escaped(a) \in Seq(Char) /\ Escaped(t) \in Seq(Char) /\ Escape(c) \in Seq(Char)
      BY EscapedTyped, EscapeIs
    <3> QED BY <3>1, ConcatAssociative
  <2> QED BY <2>1, <2>2, <2>3, <2>4, <2>5, <2>6
<1>3. Seq(Char) \subseteq P
  <2> HIDE DEF P
  <2> QED BY <1>1, <1>2, SeqClimb
<1> QED BY <1>3

LEMMA EscapedOne ==
  ASSUME NEW t \in Seq(Char), NEW c \in Char
  PROVE  Escaped(<<c>>) = Escape(c) /\ Escaped(<<c>> \o t) = Escape(c) \o Escaped(t)
PROOF
<1>1. <<c>> \in Seq(Char) /\ <<>> \in Seq(Char) /\ <<c>> = Append(<<>>, c)
  OBVIOUS
<1>2. Escaped(<<c>>) = <<>> \o Escape(c)
  BY <1>1, EscapedMore
<1>3. <<>> \o Escape(c) = Escape(c)
  BY EscapeIs, ConcatEmptySeq
<1>4. Escaped(<<c>>) = Escape(c)
  BY <1>2, <1>3
<1> QED BY <1>1, <1>4, EscapedBoth

\* Texts without quotes, backslashes and line ends stay as they are.
LEMMA EscapedSimple ==
  ASSUME NEW t \in Seq(Char), ToSet(t) \cap Special = {}
  PROVE  Escaped(t) = t
PROOF
<1> DEFINE P == {s \in Seq(Char) : ToSet(s) \cap Special = {} => Escaped(s) = s}
<1>1. <<>> \in P
  <2>1. <<>> \in Seq(Char)
    OBVIOUS
  <2> QED BY <2>1, EscapedMore
<1>2. ASSUME NEW s \in Seq(Char), NEW c \in Char, s \in P PROVE Append(s, c) \in P
  <2>1. <<c>> \in Seq(Char) /\ Append(s, c) \in Seq(Char)
    OBVIOUS
  <2>2. Append(s, c) = s \o <<c>>
    BY AppendIsConcat
  <2>3. ToSet(Append(s, c)) = ToSet(s) \cup {c}
    BY SetOfMore
  <2>4. ASSUME ToSet(Append(s, c)) \cap Special = {} PROVE Escaped(Append(s, c)) = Append(s, c)
    <3>1. ToSet(s) \cap Special = {} /\ c \notin Special
      BY <2>3, <2>4
    <3>2. Escape(c) = <<c>>
      BY <3>1, EscapeIs
    <3>3. Escaped(s) = s
      BY <1>2, <3>1
    <3>4. Escaped(Append(s, c)) = Escaped(s) \o Escape(c)
      BY EscapedMore
    <3> QED BY <2>2, <3>2, <3>3, <3>4
  <2> QED BY <2>1, <2>4
<1>3. Seq(Char) \subseteq P
  <2> HIDE DEF P
  <2> QED BY <1>1, <1>2, SeqClimb
<1> QED BY <1>3

\* No line ends are left, and no text becomes blank.
LEMMA EscapedLine ==
  ASSUME NEW t \in Seq(Char)
  PROVE  NEWLINE \notin ToSet(Escaped(t)) /\ (IsBlank(Escaped(t)) => IsBlank(t))
PROOF
<1> DEFINE P == {s \in Seq(Char) : NEWLINE \notin ToSet(Escaped(s)) /\ (IsBlank(Escaped(s)) => IsBlank(s))}
<1>1. <<>> \in P
  <2>1. <<>> \in Seq(Char)
    OBVIOUS
  <2>2. NEWLINE \notin ToSet(<<>>)
    BY SetOfOne
  <2> QED BY <2>1, <2>2, EscapedMore
<1>2. ASSUME NEW s \in Seq(Char), NEW c \in Char, s \in P PROVE Append(s, c) \in P
  <2>1. <<c>> \in Seq(Char) /\ Append(s, c) \in Seq(Char) /\ Escaped(s) \in Seq(Char) /\ Escape(c) \in Seq(Char)
    BY EscapedTyped, EscapeIs
  <2>2. ToSet(Append(s, c)) = ToSet(s) \cup {c}
    BY SetOfMore
  <2>3. ToSet(Escaped(Append(s, c))) = ToSet(Escaped(s)) \cup ToSet(Escape(c))
    <3>1. ToSet(Escaped(s) \o Escape(c)) = ToSet(Escaped(s)) \cup ToSet(Escape(c))
      BY <2>1, SetOfBoth
    <3>2. Escaped(Append(s, c)) = Escaped(s) \o Escape(c)
      BY EscapedMore
    <3> QED BY <3>1, <3>2
  <2>4. ToSet(Escape(c)) = IF c \in Special THEN {BACKSLASH, Code(c)} ELSE {c}
    <3>1. CASE c \in Special
      <4>1. Escape(c) = <<BACKSLASH, Code(c)>>
        BY <3>1, EscapeIs
      <4>2. DOMAIN Escape(c) = {1, 2} /\ Escape(c)[1] = BACKSLASH /\ Escape(c)[2] = Code(c)
        BY <4>1
      <4>3. ToSet(Escape(c)) = {BACKSLASH, Code(c)}
        BY <4>2 DEF ToSet
      <4> QED BY <3>1, <4>3
    <3>2. CASE c \notin Special
      <4>1. Escape(c) = <<c>>
        BY <3>2, EscapeIs
      <4> QED BY <3>2, <4>1, SetOfOne
    <3> QED BY <3>1, <3>2
  <2>5. NEWLINE \notin ToSet(Escape(c))
    <3>1. NEWLINE # BACKSLASH /\ Code(c) # NEWLINE /\ NEWLINE \in Special
      BY CharsDiffer DEF Code, Special
    <3> QED BY <2>4, <3>1
  <2>6. ToSet(Escape(c)) \subseteq {SPACE, NEWLINE} => c \in {SPACE, NEWLINE}
    <3>1. BACKSLASH \notin {SPACE, NEWLINE}
      BY CharsDiffer
    <3> QED BY <2>4, <3>1
  <2> QED BY <1>2, <2>1, <2>2, <2>3, <2>5, <2>6 DEF IsBlank
<1>3. Seq(Char) \subseteq P
  <2> HIDE DEF P
  <2> QED BY <1>1, <1>2, SeqClimb
<1> QED BY <1>3

LEMMA FirstAndRest ==
  ASSUME NEW S, NEW t \in Seq(S), t # <<>>
  PROVE  t[1] \in S /\ \E r \in Seq(S) : t = <<t[1]>> \o r
PROOF
<1> DEFINE n == Len(t)
           r == SubSeq(t, 2, n)
<1>1. n \in Nat /\ 1 <= n /\ \A i \in 1..n : t[i] \in S
  <2>1. n \in Nat \ {0}
    BY EmptySeq
  <2> QED BY <2>1
<1>2. t[1] \in S
  BY <1>1
<1>3. r \in Seq(S)
  <2>1. 2 \in Int /\ n \in Int /\ \A j \in 2..n : t[j] \in S
    BY <1>1
  <2> QED BY <2>1, SubSeqProperties
<1>4. t = <<t[1]>> \o r
  <2>1. SubSeq(t, 1, n) = t
    BY SubSeqFull
  <2>2. 1 \in 1..n /\ n \in 1..n
    BY <1>1
  <2>3. SubSeq(t, 1, n) = <<t[1]>> \o SubSeq(t, 1 + 1, n)
    BY <2>2, SubSeqRecursiveFirst
  <2> QED BY <2>1, <2>3
<1> QED BY <1>2, <1>3, <1>4

\* What an escaped text begins with.
LEMMA EscapeFront ==
  ASSUME NEW c \in Char, NEW x \in Seq(Char)
  PROVE  LET y == Escape(c) \o x
         IN  /\ y # <<>> /\ y[1] = IF c \in Special THEN BACKSLASH ELSE c
             /\ c \in Special => y[2] = Code(c)
PROOF
<1> DEFINE e == Escape(c)
           y == e \o x
<1>1. e \in Seq(Char) /\ e = IF c \in Special THEN <<BACKSLASH, Code(c)>> ELSE <<c>>
  BY EscapeIs
<1>2. c \in Special => Len(e) = 2 /\ e[1] = BACKSLASH /\ e[2] = Code(c)
  BY <1>1
<1>3. c \notin Special => Len(e) = 1 /\ e[1] = c
  BY <1>1
<1> HIDE DEF e
<1>4. y \in Seq(Char) /\ Len(y) = Len(e) + Len(x) /\ Len(x) \in Nat /\ Len(e) \in Nat /\ \A i \in 1..Len(e) : y[i] = e[i]
  BY <1>1, TwoParts
<1> HIDE DEF y
<1>5. Len(e) \in 1..2 /\ 1 \in 1..Len(e) /\ (c \in Special => 2 \in 1..Len(e))
  BY <1>2, <1>3
<1>6. Len(y) # 0
  BY <1>4, <1>5
<1>7. y # <<>>
  BY <1>6
<1>8. y[1] = IF c \in Special THEN BACKSLASH ELSE c
  BY <1>2, <1>3, <1>4, <1>5
<1>9. c \in Special => y[2] = Code(c)
  BY <1>2, <1>4, <1>5
<1> QED BY <1>7, <1>8, <1>9 DEF y, e

LEMMA CodeApart ==
  ASSUME NEW c \in Special, NEW d \in Special, Code(c) = Code(d)
  PROVE  c = d
BY CharsDiffer DEF Special, Code

\* No two texts are escaped to the same one.
LEMMA EscapedApart ==
  ASSUME NEW a \in Seq(Char), NEW b \in Seq(Char), Escaped(a) = Escaped(b)
  PROVE  a = b
PROOF
<1> DEFINE P == {s \in Seq(Char) : \A t \in Seq(Char) : Escaped(s) = Escaped(t) => s = t}
<1>1. ASSUME NEW t \in Seq(Char), t # <<>>
      PROVE  \E d \in Char : \E r \in Seq(Char) :
               t = <<d>> \o r /\ Escaped(t) = Escape(d) \o Escaped(r) /\ Escaped(r) \in Seq(Char)
  <2>1. t[1] \in Char /\ \E r \in Seq(Char) : t = <<t[1]>> \o r
    BY <1>1, FirstAndRest
  <2>2. PICK r \in Seq(Char) : t = <<t[1]>> \o r
    BY <2>1
  <2>3. Escaped(<<t[1]>> \o r) = Escape(t[1]) \o Escaped(r)
    BY <2>1, EscapedOne
  <2>4. Escaped(r) \in Seq(Char)
    BY EscapedTyped
  <2> QED BY <2>1, <2>2, <2>3, <2>4
<1>2. <<>> \in P
  <2>1. <<>> \in Seq(Char)
    OBVIOUS
  <2>2. ASSUME NEW t \in Seq(Char), Escaped(<<>>) = Escaped(t) PROVE <<>> = t
    <3>2. SUFFICES ASSUME t # <<>> PROVE FALSE
      OBVIOUS
    <3>1. PICK d \in Char, r \in Seq(Char) : Escaped(t) = Escape(d) \o Escaped(r) /\ Escaped(r) \in Seq(Char)
      <4>1. t \in Seq(Char) /\ t # <<>>
        BY <2>2, <3>2
      <4>2. \E d \in Char : \E r \in Seq(Char) :
               t = <<d>> \o r /\ Escaped(t) = Escape(d) \o Escaped(r) /\ Escaped(r) \in Seq(Char)
        BY <1>1, <4>1
      <4> QED BY <4>2
    <3>3. Escape(d) \o Escaped(r) # <<>>
      BY <3>1, EscapeFront
    <3> QED BY <2>2, <3>1, <3>3, EscapedMore
  <2> QED BY <2>1, <2>2
<1>3. ASSUME NEW s \in Seq(Char), NEW c \in Char, s \in P PROVE <<c>> \o s \in P
  <2>1. <<c>> \o s \in Seq(Char)
    OBVIOUS
  <2>2. Escaped(<<c>> \o s) = Escape(c) \o Escaped(s) /\ Escaped(s) \in Seq(Char)
    BY EscapedOne, EscapedTyped
  <2>3. ASSUME NEW t \in Seq(Char), Escaped(<<c>> \o s) = Escaped(t) PROVE <<c>> \o s = t
    <3>1. t # <<>>
      <4>1. Escape(c) \o Escaped(s) # <<>>
        BY <2>2, EscapeFront
      <4> QED BY <2>2, <2>3, <4>1, EscapedMore
    <3>2. PICK d \in Char, r \in Seq(Char) :
            t = <<d>> \o r /\ Escaped(t) = Escape(d) \o Escaped(r) /\ Escaped(r) \in Seq(Char)
      BY <1>1, <3>1
    <3> DEFINE y == Escape(c) \o Escaped(s)
               z == Escape(d) \o Escaped(r)
    <3>3. y = z
      BY <2>2, <2>3, <3>2
    <3>4. /\ y[1] = IF c \in Special THEN BACKSLASH ELSE c
          /\ c \in Special => y[2] = Code(c)
      BY <2>2, EscapeFront
    <3>5. /\ z[1] = IF d \in Special THEN BACKSLASH ELSE d
          /\ d \in Special => z[2] = Code(d)
      BY <3>2, EscapeFront
    <3>6. c = d
      <4> HIDE DEF y, z
      <4>1. BACKSLASH \in Special
        BY DEF Special
      <4>2. CASE c \in Special /\ d \in Special
        BY <3>3, <3>4, <3>5, <4>2, CodeApart
      <4>3. CASE c \notin Special /\ d \notin Special
        BY <3>3, <3>4, <3>5, <4>3
      <4>4. CASE c \in Special /\ d \notin Special
        BY <3>3, <3>4, <3>5, <4>1, <4>4
      <4>5. CASE c \notin Special /\ d \in Special
        BY <3>3, <3>4, <3>5, <4>1, <4>5
      <4> QED BY <4>2, <4>3, <4>4, <4>5
    <3>7. Escaped(s) = Escaped(r)
      <4>1. Escape(c) \in Seq(Char)
        BY EscapeIs
      <4>2. Escape(c) \o Escaped(s) = Escape(c) \o Escaped(r)
        BY <3>3, <3>6
      <4> HIDE DEF y, z
      <4> QED BY <2>2, <3>2, <4>1, <4>2, ConcatSimplifications
    <3>8. s = r
      BY <1>3, <3>7
    <3> QED BY <3>2, <3>6, <3>8
  <2> QED BY <2>1, <2>3
<1>4. Seq(Char) \subseteq P
  <2> HIDE DEF P
  <2> QED BY <1>2, <1>3, SeqClimbBack
<1> QED BY <1>4

\* A text without blanks at its ends is escaped to one without white space there.
Unspaced(m) == m = <<>> \/ (m[1] # SPACE /\ m[Len(m)] # SPACE)

LEMMA EscapedEnds ==
  ASSUME NEW m \in Seq(Char), Unspaced(m)
  PROVE  Trim(Escaped(m)) = Escaped(m)
PROOF
<1> DEFINE e == Escaped(m)
<1>1. CASE m = <<>>
  <2>1. IsBlank(<<>>)
    BY SetOfOne DEF IsBlank
  <2> QED BY <1>1, <2>1, EscapedMore, TrimNothing
<1>2. CASE m # <<>>
  <2>1. m[1] # SPACE /\ m[Len(m)] # SPACE
    BY <1>2 DEF Unspaced
  <2>2. e # <<>> /\ e[1] \notin Blanks
    <3>1. PICK r \in Seq(Char) : m = <<m[1]>> \o r
      BY <1>2, FirstAndRest
    <3>2. m[1] \in Char
      BY <1>2, FirstAndRest
    <3>3. e = Escape(m[1]) \o Escaped(r) /\ Escaped(r) \in Seq(Char)
      BY <3>1, <3>2, EscapedOne, EscapedTyped
    <3> HIDE DEF e
    <3>4. e # <<>> /\ e[1] = IF m[1] \in Special THEN BACKSLASH ELSE m[1]
      BY <3>2, <3>3, EscapeFront
    <3>5. BACKSLASH \notin Blanks
      BY CharsDiffer DEF Blanks
    <3>6. m[1] \notin Special => m[1] \notin Blanks
      BY <2>1 DEF Blanks, Special
    <3> QED BY <3>4, <3>5, <3>6
  <2>3. e[Len(e)] \notin Blanks
    <3>1. PICK s \in Seq(Char), c \in Char : m = Append(s, c)
      BY <1>2, SequenceEmptyOrAppend
    <3>2. c # SPACE
      <4>1. Len(Append(s, c)) = Len(s) + 1 /\ Append(s, c)[Len(s) + 1] = c
        BY AppendProperties
      <4> QED BY <2>1, <3>1, <4>1
    <3> DEFINE x == Escaped(s)
               y == Escape(c)
    <3>3. e = x \o y /\ x \in Seq(Char) /\ y \in Seq(Char)
      BY <3>1, EscapedMore, EscapeIs
    <3>4. y = IF c \in Special THEN <<BACKSLASH, Code(c)>> ELSE <<c>>
      BY EscapeIs
    <3>5. Len(y) \in 1..2 /\ y[Len(y)] = IF c \in Special THEN Code(c) ELSE c
      <4> HIDE DEF y
      <4>1. CASE c \in Special
        <5>1. y = <<BACKSLASH, Code(c)>>
          BY <3>4, <4>1
        <5>2. Len(y) = 2 /\ y[2] = Code(c)
          BY <5>1
        <5> QED BY <4>1, <5>2
      <4>2. CASE c \notin Special
        <5>1. y = <<c>>
          BY <3>4, <4>2
        <5>2. Len(y) = 1 /\ y[1] = c
          BY <5>1
        <5> QED BY <4>2, <5>2
      <4> QED BY <4>1, <4>2
    <3> HIDE DEF x, y, e
    <3>6. Len(x \o y) = Len(x) + Len(y) /\ \A i \in 1..Len(y) : (x \o y)[Len(x) + i] = y[i]
      BY <3>3, TwoParts
    <3>7. e[Len(e)] = y[Len(y)]
      <4> DEFINE k == Len(y)
      <4>2. k \in 1..2
        BY <3>5
      <4>3. k \in 1..k
        <5> HIDE DEF k
        <5> QED BY <4>2
      <4>1. Len(y) \in 1..Len(y)
        BY <4>3
      <4> QED BY <3>3, <3>6, <4>1
    <3>8. Code(c) \notin Blanks \/ c \notin Special
      BY CharsDiffer DEF Code, Blanks, Special
    <3>9. c \notin Special => c \notin Blanks
      BY <3>2 DEF Blanks, Special
    <3> QED BY <3>5, <3>7, <3>8, <3>9
  <2>4. e \in Seq(Char)
    BY EscapedTyped
  <2> HIDE DEF e
  <2>5. Trim(e) = e
    BY <2>2, <2>3, <2>4, TrimSolid
  <2> QED BY <2>5 DEF e
<1> QED BY <1>1, <1>2

\* Without the blanks at its ends, which are escaped as what they are, a text
\* is trimmed to the same, escaped or not.
Core(m, t) == m \in Seq(Char) /\ Trim(m) = Trim(t) /\ Trim(Escaped(m)) = Trim(Escaped(t))

LEMMA StrippedFront ==
  ASSUME NEW t \in Seq(Char)
  PROVE  \E m : Core(m, t) /\ (m = <<>> \/ m[1] # SPACE)
PROOF
<1> DEFINE P == {s \in Seq(Char) : \E m : Core(m, s) /\ (m = <<>> \/ m[1] # SPACE)}
<1>1. <<>> \in P
  <2>1. <<>> \in Seq(Char)
    OBVIOUS
  <2>2. Core(<<>>, <<>>)
    BY <2>1 DEF Core
  <2> QED BY <2>1, <2>2
<1>2. ASSUME NEW s \in Seq(Char), NEW c \in Char, s \in P PROVE <<c>> \o s \in P
  <2>1. <<c>> \in Seq(Char)
    OBVIOUS
  <2>2. <<c>> \o s \in Seq(Char)
    BY <2>1
  <2>3. CASE c = SPACE
    <3>1. c \in Blanks /\ c \notin Special
      BY <2>3, CharsDiffer DEF Blanks, Special
    <3>2. Trim(<<c>> \o s) = Trim(s)
      BY <3>1, TrimFirst
    <3>3. Escaped(<<c>> \o s) = <<c>> \o Escaped(s)
      BY <3>1, EscapeIs, EscapedOne
    <3>4. Trim(<<c>> \o Escaped(s)) = Trim(Escaped(s))
      BY <3>1, EscapedTyped, TrimFirst
    <3>5. PICK m : Core(m, s) /\ (m = <<>> \/ m[1] # SPACE)
      BY <1>2
    <3>6. Core(m, <<c>> \o s)
      BY <3>2, <3>3, <3>4, <3>5 DEF Core
    <3> QED BY <2>2, <3>5, <3>6
  <2>4. CASE c # SPACE
    <3> DEFINE m == <<c>> \o s
    <3>1. m[1] # SPACE
      <4>1. (<<c>> \o s)[1] = c
        BY <2>1
      <4> QED BY <2>4, <4>1
    <3>2. Core(m, m)
      BY <2>2 DEF Core
    <3> HIDE DEF m
    <3>3. \E k : Core(k, m) /\ (k = <<>> \/ k[1] # SPACE)
      BY <3>1, <3>2
    <3> QED BY <2>2, <3>3 DEF m
  <2> QED BY <2>3, <2>4
<1>3. Seq(Char) \subseteq P
  <2> HIDE DEF P
  <2> QED BY <1>1, <1>2, SeqClimbBack
<1> QED BY <1>3

LEMMA StrippedBack ==
  ASSUME NEW t \in Seq(Char), t = <<>> \/ t[1] # SPACE
  PROVE  \E m : Core(m, t) /\ Unspaced(m)
PROOF
<1> DEFINE P == {s \in Seq(Char) : s = <<>> \/ s[1] # SPACE => \E m : Core(m, s) /\ Unspaced(m)}
<1>1. <<>> \in P
  <2>1. <<>> \in Seq(Char)
    OBVIOUS
  <2>2. Core(<<>>, <<>>) /\ Unspaced(<<>>)
    BY <2>1 DEF Core, Unspaced
  <2> QED BY <2>1, <2>2
<1>2. ASSUME NEW s \in Seq(Char), NEW c \in Char, s \in P PROVE Append(s, c) \in P
  <2> DEFINE u == Append(s, c)
  <2>1. /\ u \in Seq(Char) /\ u # <<>> /\ Len(u) = Len(s) + 1 /\ Len(s) \in Nat
        /\ u[Len(s) + 1] = c /\ \A i \in 1..Len(s) : u[i] = s[i]
    BY AppendProperties
  <2>2. ASSUME u[1] # SPACE PROVE \E m : Core(m, u) /\ Unspaced(m)
    <3>1. CASE c = SPACE
      <4>1. c \in Blanks /\ c \notin Special
        BY <3>1, CharsDiffer DEF Blanks, Special
      <4>2. Trim(u) = Trim(s)
        BY <4>1, TrimLast
      <4>3. Escape(c) = <<c>> /\ Escaped(s) \in Seq(Char)
        BY <4>1, EscapeIs, EscapedTyped
      <4>4. Escaped(u) = Append(Escaped(s), c)
        <5>1. Escaped(u) = Escaped(s) \o Escape(c)
          BY EscapedMore
        <5>2. Append(Escaped(s), c) = Escaped(s) \o <<c>>
          BY <4>3, AppendIsConcat
        <5> QED BY <4>3, <5>1, <5>2
      <4>5. Trim(Append(Escaped(s), c)) = Trim(Escaped(s))
        BY <4>1, <4>3, TrimLast
      <4> HIDE DEF u
      <4>6. s = <<>> \/ s[1] # SPACE
        <5> SUFFICES ASSUME s # <<>> PROVE s[1] # SPACE
          OBVIOUS
        <5>1. Len(s) \in Nat \ {0}
          BY EmptySeq
        <5>2. 1 \in 1..Len(s)
          BY <5>1
        <5> QED BY <2>1, <2>2, <5>2
      <4>7. PICK m : Core(m, s) /\ Unspaced(m)
        BY <1>2, <4>6
      <4>8. Core(m, u)
        BY <4>2, <4>4, <4>5, <4>7 DEF Core
      <4> QED BY <4>7, <4>8
    <3>2. CASE c # SPACE
      <4> HIDE DEF u
      <4>1. Unspaced(u)
        BY <2>1, <2>2, <3>2 DEF Unspaced
      <4>2. Core(u, u)
        BY <2>1 DEF Core
      <4> QED BY <4>1, <4>2
    <3> QED BY <3>1, <3>2
  <2> HIDE DEF u
  <2>3. u \in P
    BY <2>1, <2>2
  <2> QED BY <2>3 DEF u
<1>3. Seq(Char) \subseteq P
  <2> HIDE DEF P
  <2> QED BY <1>1, <1>2, SeqClimb
<1> QED BY <1>3

LEMMA Stripped ==
  ASSUME NEW t \in Seq(Char)
  PROVE  \E m : Core(m, t) /\ Unspaced(m)
PROOF
<1>1. PICK k : Core(k, t) /\ (k = <<>> \/ k[1] # SPACE)
  BY StrippedFront
<1>2. PICK m : Core(m, k) /\ Unspaced(m)
  <2>1. k \in Seq(Char)
    BY <1>1 DEF Core
  <2> QED BY <1>1, <2>1, StrippedBack
<1>3. Core(m, t)
  BY <1>1, <1>2 DEF Core
<1> QED BY <1>2, <1>3

\* Names that differ when trimmed differ when escaped and trimmed.
LEMMA EscapedTrimmed ==
  ASSUME NEW a \in Seq(Char), NEW b \in Seq(Char), Trim(Escaped(a)) = Trim(Escaped(b))
  PROVE  Trim(a) = Trim(b)
PROOF
<1>1. PICK m : Core(m, a) /\ Unspaced(m)
  BY Stripped
<1>2. PICK k : Core(k, b) /\ Unspaced(k)
  BY Stripped
<1>3. m \in Seq(Char) /\ k \in Seq(Char)
  BY <1>1, <1>2 DEF Core
<1>4. Escaped(m) = Escaped(k)
  <2>1. Trim(Escaped(m)) = Escaped(m) /\ Trim(Escaped(k)) = Escaped(k)
    BY <1>1, <1>2, <1>3, EscapedEnds
  <2> QED BY <1>1, <1>2, <2>1 DEF Core
<1>5. m = k
  BY <1>3, <1>4, EscapedApart
<1> QED BY <1>1, <1>2, <1>5 DEF Core

\* A word is what is left of a text when it is what is left of the escaped one.
LEMMA EscapedWord ==
  ASSUME NEW t \in Seq(Char), NEW w \in Char, w \notin Special, w # SPACE, Trim(Escaped(t)) = <<w>>
  PROVE  Trim(t) = <<w>>
PROOF
<1> DEFINE d == <<w>>
<1>1. d \in Seq(Char) /\ d # <<>> /\ Len(d) = 1 /\ d[1] = w
  OBVIOUS
<1>2. Escaped(d) = d
  BY EscapeIs, EscapedOne
<1>3. Trim(d) = d
  <2>1. w \notin Blanks
    BY DEF Blanks, Special
  <2> HIDE DEF d
  <2> QED BY <1>1, <2>1, TrimSolid
<1> HIDE DEF d
<1>4. Trim(Escaped(t)) = Trim(Escaped(d))
  BY <1>2, <1>3 DEF d
<1>5. Trim(t) = Trim(d)
  BY <1>1, <1>4, EscapedTrimmed
<1> QED BY <1>3, <1>5 DEF d

(***************************************************************************)
(* mcp.conf and runtime.conf                                               *)
(***************************************************************************)
\* A text between quotes.
LEMMA JsonOf ==
  ASSUME NEW t \in Seq(Char)
  PROVE  LET J == JsonString(t)
             n == Len(J)
         IN  /\ J \in Seq(Char) /\ J # <<>> /\ n \in Nat /\ n >= 2
             /\ J[1] = QUOTE /\ Last(J) = QUOTE /\ Trim(J) = J
             /\ SubSeq(J, 2, n - 1) = Escaped(t)
             /\ NEWLINE \notin ToSet(J)
PROOF
<1> DEFINE q == <<QUOTE>>
           e == Escaped(t)
           f == q \o e
           J == f \o q
           n == Len(J)
<1>1. JsonString(t) = J
  BY DEF JsonString
<1>2. q \in Seq(Char) /\ Len(q) = 1 /\ q[1] = QUOTE /\ ToSet(q) = {QUOTE}
  <2>1. QUOTE \in Char
    BY DEF Char
  <2>2. ToSet(q) = {QUOTE}
    BY SetOfOne
  <2> QED BY <2>1, <2>2
<1>3. e \in Seq(Char) /\ NEWLINE \notin ToSet(e)
  BY EscapedTyped, EscapedLine
<1> HIDE DEF q, e
<1>4. /\ f \in Seq(Char) /\ Len(e) \in Nat /\ Len(f) = 1 + Len(e)
      /\ \A i \in 1..1 : f[i] = q[i]
      /\ ToSet(f) = ToSet(q) \cup ToSet(e)
  <2>1. f \in Seq(Char) /\ Len(e) \in Nat /\ Len(f) = Len(q) + Len(e) /\ \A i \in 1..Len(q) : f[i] = q[i]
    BY <1>2, <1>3, TwoParts
  <2>2. ToSet(f) = ToSet(q) \cup ToSet(e)
    BY <1>2, <1>3, SetOfBoth
  <2> HIDE DEF f
  <2> QED BY <1>2, <2>1, <2>2
<1>5. SubSeq(J, 2, Len(f)) = e
  <2>1. CASE e = <<>>
    <3>1. 2 \in Int /\ Len(f) \in Int /\ Len(f) < 2
      <4>1. Len(e) = 0
        BY <2>1
      <4> QED BY <1>4, <4>1
    <3>2. SubSeq(J, 2, Len(f)) = <<>>
      BY <3>1, SubSeqEmpty
    <3> QED BY <2>1, <3>2
  <2>2. CASE e # <<>>
    <3>0. Len(e) \in Nat /\ 1 <= Len(e)
      <4>1. Len(e) \in Nat \ {0}
        BY <1>3, <2>2, EmptySeq
      <4> QED BY <4>1
    <3>1. 2 \in 1..Len(f) /\ Len(f) \in 1..Len(f)
      BY <1>4, <3>0
    <3>2. SubSeq(J, 2, Len(f)) = SubSeq(f, 2, Len(f))
      <4> HIDE DEF f
      <4> QED BY <1>2, <1>4, <3>1, SubSeqOfConcat1
    <3>3. 2 \in (Len(q) + 1)..(Len(q) + Len(e)) /\ Len(f) \in (Len(q) + 1)..(Len(q) + Len(e))
      BY <1>2, <1>4, <3>0
    <3>4. SubSeq(q \o e, 2, Len(f)) = SubSeq(e, 2 - Len(q), Len(f) - Len(q))
      <4> DEFINE k == Len(f)
      <4>1. k \in (Len(q) + 1)..(Len(q) + Len(e))
        BY <3>3
      <4> HIDE DEF k
      <4>2. SubSeq(q \o e, 2, k) = SubSeq(e, 2 - Len(q), k - Len(q))
        BY <1>2, <1>3, <3>3, <4>1, SubSeqOfConcat2
      <4> QED BY <4>2 DEF k
    <3>5. 2 - Len(q) = 1 /\ Len(f) - Len(q) = Len(e)
      BY <1>2, <1>4
    <3>6. SubSeq(e, 1, Len(e)) = e
      BY <1>3, SubSeqFull
    <3> QED BY <3>2, <3>4, <3>5, <3>6
  <2> QED BY <2>1, <2>2
<1>6. f[1] = QUOTE
  BY <1>2, <1>4
<1> HIDE DEF f
<1>7. /\ J \in Seq(Char) /\ n = Len(f) + 1
      /\ \A i \in 1..Len(f) : J[i] = f[i]
      /\ \A i \in 1..1 : J[Len(f) + i] = q[i]
      /\ ToSet(J) = ToSet(f) \cup ToSet(q)
  <2>1. /\ J \in Seq(Char) /\ n = Len(f) + Len(q)
        /\ \A i \in 1..Len(f) : J[i] = f[i]
        /\ \A i \in 1..Len(q) : J[Len(f) + i] = q[i]
    <3>1. f \in Seq(Char) /\ q \in Seq(Char)
      BY <1>2, <1>4
    <3> QED BY <3>1, TwoParts
  <2>2. ToSet(J) = ToSet(f) \cup ToSet(q)
    BY <1>2, <1>4, SetOfBoth
  <2> HIDE DEF J
  <2> QED BY <1>2, <2>1, <2>2
<1> HIDE DEF J
<1>8. n \in Nat /\ n >= 2 /\ n - 1 = Len(f)
  BY <1>4, <1>7
<1>9. J[1] = QUOTE /\ J[n] = QUOTE
  <2>1. 1 \in 1..Len(f) /\ 1 \in 1..1
    BY <1>4
  <2> QED BY <1>2, <1>6, <1>7, <2>1
<1>10. J # <<>> /\ Last(J) = QUOTE
  <2>1. J # <<>>
    BY <1>8
  <2> QED BY <1>9, <2>1 DEF Last
<1>11. Trim(J) = J
  <2>1. QUOTE \notin Blanks
    BY CharsDiffer DEF Blanks
  <2> QED BY <1>7, <1>9, <1>10, <2>1, TrimSolid
<1>12. NEWLINE \notin ToSet(J)
  BY <1>2, <1>3, <1>4, <1>7, CharsDiffer
<1>13. SubSeq(J, 2, n - 1) = Escaped(t)
  BY <1>5, <1>8 DEF e
<1> HIDE DEF n
<1>14. J \in Seq(Char)
  BY <1>7
<1> QED BY <1>1, <1>8, <1>9, <1>10, <1>11, <1>12, <1>13, <1>14 DEF n

LEMMA TextsOf == Seq(STRING) \subseteq Seq(Char) /\ <<>> \in Seq(Char)
PROOF
<1>1. \A L, M : L \subseteq M => Seq(L) \subseteq Seq(M)
  OBVIOUS
<1>2. STRING \subseteq Char
  BY DEF Char
<1>3. Seq(STRING) \subseteq Seq(Char)
  BY <1>1, <1>2, Zenon
<1> QED BY <1>3

LEMMA JsonApart ==
  ASSUME NEW a \in Seq(Char), NEW b \in Seq(Char), JsonString(a) = JsonString(b)
  PROVE  a = b
PROOF
<1> DEFINE J == JsonString(a)
<1>1. SubSeq(J, 2, Len(J) - 1) = Escaped(a)
  BY JsonOf
<1>2. SubSeq(J, 2, Len(J) - 1) = Escaped(b)
  BY JsonOf
<1> HIDE DEF J
<1>3. Escaped(a) = Escaped(b)
  BY <1>1, <1>2
<1> QED BY <1>3, EscapedApart

\* The name of the active model is read as it was written.
LEMMA ModelAlwaysNamed ==
  ASSUME NEW t \in Texts
  PROVE  ActiveModelName(JsonString(t)) = t
PROOF
<1> DEFINE J == JsonString(t)
<1>1. Texts \subseteq Seq(Char)
  BY DocumentsAssumption, TextsOf
<1>2. Trim(J) = J /\ J # <<>> /\ J[1] = QUOTE /\ Last(J) = QUOTE
  BY <1>1, JsonOf
<1>3. Decoded(J) = {t}
  <2>1. ASSUME NEW v \in Texts, JsonString(v) = J PROVE v = t
    BY <1>1, <2>1, JsonApart
  <2> QED BY <2>1 DEF Decoded
<1> HIDE DEF J
<1>4. ActiveModelName(J) = CHOOSE v \in Decoded(J) : TRUE
  BY <1>2, <1>3 DEF ActiveModelName
<1>5. (CHOOSE v \in {t} : TRUE) = t
  OBVIOUS
<1> QED BY <1>3, <1>4, <1>5 DEF J

LEMMA UnquotedJson ==
  ASSUME NEW t \in Seq(Char)
  PROVE  Unquote(JsonString(t)) = Escaped(t)
PROOF
<1> DEFINE J == JsonString(t)
<1>1. /\ Trim(J) = J /\ J[1] = QUOTE /\ Last(J) = QUOTE /\ Len(J) >= 2
      /\ SubSeq(J, 2, Len(J) - 1) = Escaped(t)
  BY JsonOf
<1> HIDE DEF J
<1>2. Unquote(J) = Escaped(t)
  BY <1>1 DEF Unquote, Quoted
<1> QED BY <1>2 DEF J

\* Sequences of one item, put together.
LEMMA FlattenOnes ==
  ASSUME NEW X, NEW s \in Seq(X)
  PROVE  FlattenSeq([i \in DOMAIN s |-> <<s[i]>>]) = s
PROOF
<1> DEFINE ones(t) == [i \in DOMAIN t |-> <<t[i]>>]
           P == {t \in Seq(X) : FlattenSeq(ones(t)) = t}
<1>1. <<>> \in P
  <2>1. ones(<<>>) = <<>> /\ <<>> \in Seq(X)
    OBVIOUS
  <2>2. FlattenSeq(<<>>) = <<>>
    BY DEF FlattenSeq
  <2> HIDE DEF ones
  <2> QED BY <2>1, <2>2
<1>2. ASSUME NEW t \in Seq(X), NEW c \in X, t \in P PROVE Append(t, c) \in P
  <2> DEFINE u == Append(t, c)
             a == ones(t)
             b == ones(u)
             d == Append(a, <<c>>)
             T == Seq(X)
  <2>1. u \in Seq(X) /\ Len(u) = Len(t) + 1 /\ u[Len(t) + 1] = c /\ \A i \in 1..Len(t) : u[i] = t[i]
    BY AppendProperties
  <2>2. Len(t) \in Nat /\ DOMAIN t = 1..Len(t) /\ \A i \in 1..Len(t) : t[i] \in X
    OBVIOUS
  <2>3. DOMAIN u = 1..(Len(t) + 1)
    <3> HIDE DEF u
    <3> QED BY <2>1
  <2>4. a \in Seq(T) /\ Len(a) = Len(t) /\ \A i \in 1..Len(t) : a[i] = <<t[i]>>
    <3>1. \A i \in 1..Len(t) : <<t[i]>> \in T
      BY <2>2
    <3> HIDE DEF T
    <3> QED BY <2>2, <3>1
  <2>5. /\ DOMAIN b = 1..(Len(t) + 1) /\ b[Len(t) + 1] = <<c>>
        /\ \A i \in 1..Len(t) : b[i] = <<t[i]>>
    <3> HIDE DEF u
    <3>1. \A i \in 1..(Len(t) + 1) : b[i] = <<u[i]>>
      BY <2>3
    <3> QED BY <2>1, <2>2, <2>3, <3>1
  <2>6. <<c>> \in T
    OBVIOUS
  <2>7. /\ d \in Seq(T) /\ Len(d) = Len(t) + 1 /\ (\A i \in 1..Len(t) : d[i] = <<t[i]>>)
        /\ d[Len(t) + 1] = <<c>>
    <3> DEFINE e == <<c>>
    <3>1. e \in T
      BY <2>6
    <3> HIDE DEF a, T, e
    <3>2. Append(a, e) \in Seq(T) /\ Len(Append(a, e)) = Len(a) + 1 /\ Append(a, e)[Len(a) + 1] = e
      BY <2>4, <3>1, AppendProperties
    <3>3. \A i \in 1..Len(a) : Append(a, e)[i] = a[i]
      BY <2>4, <3>1, AppendProperties
    <3> QED BY <2>4, <3>2, <3>3 DEF e
  <2>8. b = d
    <3>1. b = [i \in 1..(Len(t) + 1) |-> b[i]]
      <4> HIDE DEF u
      <4> QED BY <2>3
    <3>2. d = [i \in 1..(Len(t) + 1) |-> d[i]]
      <4> HIDE DEF d
      <4> QED BY <2>7
    <3> HIDE DEF b, d, u, a
    <3>3. \A i \in 1..(Len(t) + 1) : b[i] = d[i]
      <4> TAKE i \in 1..(Len(t) + 1)
      <4>1. CASE i = Len(t) + 1
        BY <2>5, <2>7, <4>1
      <4>2. CASE i # Len(t) + 1
        <5>1. i \in 1..Len(t)
          BY <2>2, <4>2
        <5> QED BY <2>5, <2>7, <5>1
      <4> QED BY <4>1, <4>2
    <3> QED BY <3>1, <3>2, <3>3
  <2>9. FlattenSeq(d) = FlattenSeq(a) \o <<c>>
    <3> DEFINE e == <<c>>
    <3>1. a \in Seq(Seq(X)) /\ e \in Seq(X)
      BY <2>4
    <3> HIDE DEF a, e
    <3>2. FlattenSeq(Append(a, e)) = FlattenSeq(a) \o e
      BY <3>1, FlattenMore
    <3> QED BY <3>2 DEF e
  <2>10. FlattenSeq(a) = t
    BY <1>2
  <2>11. t \o <<c>> = u
    BY AppendIsConcat
  <2>12. FlattenSeq(ones(u)) = u
    <3> HIDE DEF a, u, ones, d
    <3>1. FlattenSeq(b) = t \o <<c>>
      BY <2>8, <2>9, <2>10
    <3> QED BY <2>11, <3>1
  <2> QED BY <2>1, <2>12
<1>3. Seq(X) \subseteq P
  <2> HIDE DEF P
  <2> QED BY <1>1, <1>2, SeqClimb
<1> QED BY <1>3

\* The last of some places.
LEMMA GreatestNumber ==
  ASSUME NEW n \in Nat, NEW S \in SUBSET (1..n), S # {}
  PROVE  \E i \in S : \A j \in S : j <= i
PROOF
<1> DEFINE R == {n - i : i \in S}
<1>1. R \in SUBSET Nat /\ R # {}
  <2>1. \A i \in S : i \in 1..n /\ n - i \in Nat
    OBVIOUS
  <2> QED BY <2>1
<1>2. PICK r \in R : \A q \in R : r <= q
  <2> HIDE DEF R
  <2> QED BY <1>1, LeastNumber
<1>3. PICK i \in S : r = n - i
  OBVIOUS
<1>4. \A j \in S : n - i <= n - j
  BY <1>2, <1>3
<1> QED BY <1>4

\* The keys, a line of the file as it is read, those of a server, and what is
\* read of them.
ConfKeys == ToSet(ConfOrder)
TextOf(s, k) == IF k \in RawKeys THEN s[k] ELSE JsonString(s[k])
BlockOf(s) == [n \in DOMAIN KeysOf(s) |-> [key |-> KeysOf(s)[n], text |-> TextOf(s, KeysOf(s)[n])]]
ReadLine(l) == [key |-> l.key, text |-> FirstLine(l)]
LinesRead(s) == [n \in DOMAIN KeysOf(s) |-> ReadLine(BlockOf(s)[n])]
BackOf(s) ==
  [k \in {k \in ConfKeys : HasLine(s, k)} |-> IF k \in RawKeys THEN SubSeq(s[k], 1, 1) ELSE Escaped(s[k])]

\* A server whose args and env are JSON.
Tame(s) ==
  /\ \A k \in DOMAIN s : s[k] \in Seq(Char)
  /\ \A k \in DOMAIN s \cap RawKeys : s[k] \in {Unset, OneLine, TwoLines}
  /\ Has(s, "server")

LEMMA FieldNames ==
  /\ ConfKeys = {"server", "url", "command", "auth_type", "auth_token", "auth_client_id",
                 "auth_client_secret", "proto_version"} \cup RawKeys
  /\ RawKeys = {"args", "env"}
  /\ RULE \notin ConfKeys /\ "rest" \notin {RULE} \cup ConfKeys
PROOF
<1>1. DOMAIN ConfOrder = 1..10
  BY DEF ConfOrder
<1>2. /\ ConfOrder[1] = "server" /\ ConfOrder[2] = "url" /\ ConfOrder[3] = "command"
      /\ ConfOrder[4] = "args" /\ ConfOrder[5] = "env" /\ ConfOrder[6] = "auth_type"
      /\ ConfOrder[7] = "auth_token" /\ ConfOrder[8] = "auth_client_id" /\ ConfOrder[9] = "auth_client_secret"
      /\ ConfOrder[10] = "proto_version"
  BY DEF ConfOrder
<1>3. ConfKeys = {ConfOrder[n] : n \in 1..10}
  BY <1>1 DEF ConfKeys, ToSet
<1> HIDE DEF ConfKeys
<1>4. 1..10 = {1, 2, 3, 4, 5, 6, 7, 8, 9, 10}
  OBVIOUS
<1>5. ConfKeys = {ConfOrder[n] : n \in {1, 2, 3, 4, 5, 6, 7, 8, 9, 10}}
  BY <1>3, <1>4
<1>6. ConfKeys = {"server", "url", "command", "args", "env", "auth_type", "auth_token", "auth_client_id",
                  "auth_client_secret", "proto_version"}
  BY <1>2, <1>5
<1>7. \A k \in ConfKeys : k # "---"
  BY <1>6
<1>8. \A k \in ConfKeys : k # "rest"
  BY <1>6
<1>9. "rest" # "---"
  BY Zenon
<1> QED BY <1>6, <1>7, <1>8, <1>9 DEF RawKeys, RULE

LEMMA KeysKept ==
  ASSUME NEW s
  PROVE  /\ {KeysOf(s)[n] : n \in DOMAIN KeysOf(s)} = {k \in ConfKeys : HasLine(s, k)}
         /\ KeysOf(s) \in Seq(ConfKeys)
PROOF
<1> DEFINE I == {n \in DOMAIN ConfOrder : HasLine(s, ConfOrder[n])}
<1>1. ConfOrder \in Seq(ConfKeys)
  <2>1. \A n \in DOMAIN ConfOrder : ConfOrder[n] \in ConfKeys
    BY DEF ConfKeys, ToSet
  <2>2. DOMAIN ConfOrder = 1..10 /\ Len(ConfOrder) = 10
    BY DEF ConfOrder
  <2>3. ConfOrder = [n \in 1..10 |-> ConfOrder[n]]
    BY DEF ConfOrder
  <2>4. [n \in 1..10 |-> ConfOrder[n]] \in Seq(ConfKeys)
    BY <2>1, <2>2
  <2> QED BY <2>3, <2>4
<1>2. KeysOf(s) = Picked(ConfOrder, I)
  BY DEF KeysOf
<1>3. Picked(ConfOrder, I) \in Seq(ConfKeys) /\ ToSet(Picked(ConfOrder, I)) = {ConfOrder[i] : i \in I}
  BY <1>1, PickedItems
<1>4. {ConfOrder[i] : i \in I} = {k \in ConfKeys : HasLine(s, k)}
  BY DEF ConfKeys, ToSet
<1> QED BY <1>2, <1>3, <1>4 DEF ToSet

\* A line of the file is read as what was written, escaped, or cut to its
\* first line.
LEMMA LineBack ==
  ASSUME NEW k, NEW t \in Seq(Char), NEW l,
         l = [key |-> k, text |-> IF k \in RawKeys THEN t ELSE JsonString(t)]
  PROVE  (IF k \in RawKeys THEN FirstLine(l) ELSE Unquote(FirstLine(l)))
           = IF k \in RawKeys THEN SubSeq(t, 1, 1) ELSE Escaped(t)
PROOF
<1>1. l.key = k /\ l.text = IF k \in RawKeys THEN t ELSE JsonString(t)
  OBVIOUS
<1>2. CASE k \in RawKeys
  BY <1>1, <1>2 DEF FirstLine
<1>3. CASE k \notin RawKeys
  <2>1. NEWLINE \notin ToSet(l.text)
    BY <1>1, <1>3, JsonOf
  <2>2. FirstLine(l) = JsonString(t)
    BY <1>1, <1>3, <2>1 DEF FirstLine
  <2> QED BY <1>3, <2>2, UnquotedJson
<1> QED BY <1>2, <1>3

\* Nothing is picked of no places.
LEMMA PickedNothing == \A s : Picked(s, {}) = <<>>
PROOF
<1> TAKE s
<1>1. Cardinality({}) = 0 /\ 1..0 = {}
  BY FS_EmptySet
<1>2. Picked(s, {}) = [k \in 1..0 |-> s[CHOOSE i \in {} : Cardinality({j \in {} : j < i}) = k - 1]]
  BY <1>1 DEF Picked
<1> QED BY <1>1, <1>2

\* JSON adds no lines to the file that mean anything.
LEMMA LineAlone ==
  ASSUME NEW l, l.key \in RawKeys => l.text \in {Unset, OneLine, TwoLines}
  PROVE  LinesOf(l) = <<ReadLine(l)>>
PROOF
<1> DEFINE r == <<ReadLine(l)>>
           I == {n \in DOMAIN l.text : n > 1 /\ l.text[n] \in {RULE} \cup ToSet(ConfOrder)}
           strays == Picked(l.text, I)
           more == [n \in DOMAIN strays |-> Stray(strays[n])]
<1>1. r \in Seq({ReadLine(l)})
  OBVIOUS
<1>2. r \o <<>> = r
  <2> HIDE DEF r
  <2> QED BY <1>1, ConcatEmptySeq
<1>3. CASE l.key \notin RawKeys
  BY <1>2, <1>3 DEF LinesOf, ReadLine
<1>4. CASE l.key \in RawKeys
  <2>1. I = {}
    <3>1. l.text \in {Unset, OneLine, TwoLines}
      BY <1>4
    <3>2. \A n \in DOMAIN l.text : n > 1 => l.text[n] = "rest"
      BY <3>1 DEF Unset, OneLine, TwoLines
    <3> QED BY <3>2, FieldNames DEF ConfKeys
  <2>2. strays = <<>>
    <3> HIDE DEF I
    <3> QED BY <2>1, PickedNothing
  <2>3. more = <<>>
    <3> HIDE DEF strays
    <3> QED BY <2>2
  <2>4. LinesOf(l) = r \o more
    BY <1>4 DEF LinesOf, ReadLine
  <2> HIDE DEF more, r
  <2>5. LinesOf(l) = r
    BY <1>2, <2>3, <2>4
  <2> QED BY <2>5 DEF r
<1> QED BY <1>3, <1>4

\* Lines without a rule are one piece.
LEMMA PiecesWhole ==
  ASSUME NEW X, NEW lines \in Seq(X), \A n \in DOMAIN lines : lines[n].key # RULE
  PROVE  Pieces(lines) = <<lines>>
PROOF
<1> DEFINE rules == {n \in DOMAIN lines : lines[n].key = RULE}
           Before(n) == Cardinality({m \in rules : m < n})
           I(j) == {n \in DOMAIN lines \ rules : Before(n) = j - 1}
<1>1. rules = {}
  OBVIOUS
<1>2. Cardinality({}) = 0
  BY FS_EmptySet
<1>3. Pieces(lines) = [j \in 1..(Cardinality(rules) + 1) |-> Picked(lines, I(j))]
  BY DEF Pieces
<1>4. \A n : Before(n) = 0
  <2> TAKE n
  <2>1. {m \in rules : m < n} = {}
    <3> HIDE DEF rules
    <3> QED BY <1>1
  <2> QED BY <1>2, <2>1
<1>5. I(1) = DOMAIN lines
  <2>1. DOMAIN lines \ rules = DOMAIN lines
    BY <1>1
  <2>2. \A n : Before(n) = 1 - 1
    BY <1>4
  <2> HIDE DEF rules, Before
  <2> QED BY <2>1, <2>2
<1>6. Picked(lines, DOMAIN lines) = lines
  BY PickedItems
<1>7. 1..(Cardinality(rules) + 1) = {1}
  <2> HIDE DEF rules
  <2>1. Cardinality(rules) = 0
    BY <1>1, <1>2
  <2> QED BY <2>1
<1> HIDE DEF rules, I
<1>8. Pieces(lines) = [j \in {1} |-> Picked(lines, I(j))]
  BY <1>3, <1>7
<1>9. Pieces(lines) = [j \in {1} |-> lines]
  BY <1>5, <1>6, <1>8
<1> QED BY <1>9

\* The lines of a server, and the server they are read as.
LEMMA BlockBack ==
  ASSUME NEW s, Tame(s)
  PROVE  /\ FlattenSeq([n \in DOMAIN BlockOf(s) |-> LinesOf(BlockOf(s)[n])]) = LinesRead(s)
         /\ Pieces(LinesRead(s)) = <<LinesRead(s)>>
         /\ \E n \in DOMAIN LinesRead(s) : LinesRead(s)[n].key = "server"
PROOF
<1> DEFINE keys == KeysOf(s)
           b == BlockOf(s)
           lines == LinesRead(s)
<1>1. DOMAIN b = DOMAIN keys /\ \A n \in DOMAIN keys : b[n] = [key |-> keys[n], text |-> TextOf(s, keys[n])]
  BY DEF BlockOf
<1>2. {keys[n] : n \in DOMAIN keys} = {k \in ConfKeys : HasLine(s, k)} /\ keys \in Seq(ConfKeys)
  BY KeysKept
<1>3. DOMAIN lines = DOMAIN keys /\ \A n \in DOMAIN keys : lines[n] = ReadLine(b[n])
  BY DEF LinesRead
<1>4. lines = [n \in DOMAIN keys |-> lines[n]]
  BY DEF LinesRead
<1>5. [n \in DOMAIN b |-> LinesOf(b[n])] = [n \in DOMAIN b |-> LinesOf(b[n])] /\ DOMAIN keys = 1..Len(keys) /\ Len(keys) \in Nat
  BY <1>2
<1> HIDE DEF keys, b, lines
<1>6. ASSUME NEW n \in DOMAIN keys
      PROVE  LinesOf(b[n]) = <<lines[n]>> /\ lines[n].key = keys[n] /\ lines[n].key # RULE
  <2>1. keys[n] \in ConfKeys /\ HasLine(s, keys[n])
    <3>1. keys[n] \in {k \in ConfKeys : HasLine(s, k)}
      BY <1>2
    <3> QED BY <3>1
  <2>2. b[n] = [key |-> keys[n], text |-> TextOf(s, keys[n])]
    BY <1>1
  <2>3. b[n].key = keys[n] /\ b[n].text = TextOf(s, keys[n])
    BY <2>2
  <2>4. b[n].key \in RawKeys => b[n].text \in {Unset, OneLine, TwoLines}
    BY <2>1, <2>3 DEF TextOf, Tame, HasLine, Has
  <2>5. LinesOf(b[n]) = <<ReadLine(b[n])>>
    BY <2>4, LineAlone
  <2>6. lines[n].key = keys[n]
    BY <1>3, <2>3 DEF ReadLine
  <2> QED BY <1>3, <2>1, <2>5, <2>6, FieldNames
<1>7. lines \in Seq(ToSet(lines))
  <2>1. \A n \in DOMAIN keys : lines[n] \in ToSet(lines)
    BY <1>3 DEF ToSet
  <2>2. lines \in [1..Len(keys) -> ToSet(lines)]
    BY <1>4, <1>5, <2>1
  <2> QED BY <1>5, <2>2
<1>8. [n \in DOMAIN b |-> LinesOf(b[n])] = [n \in DOMAIN lines |-> <<lines[n]>>]
  BY <1>1, <1>3, <1>6
<1>9. FlattenSeq([n \in DOMAIN lines |-> <<lines[n]>>]) = lines
  BY <1>7, FlattenOnes
<1>10. Pieces(lines) = <<lines>>
  BY <1>3, <1>6, <1>7, PiecesWhole
<1>11. \E n \in DOMAIN lines : lines[n].key = "server"
  <2>1. "server" \in ConfKeys /\ HasLine(s, "server")
    BY FieldNames DEF Tame, HasLine
  <2>2. PICK n \in DOMAIN keys : keys[n] = "server"
    <3>1. "server" \in {keys[n] : n \in DOMAIN keys}
      BY <1>2, <2>1
    <3> QED BY <3>1
  <2> QED BY <1>3, <1>6, <2>2
<1> QED BY <1>8, <1>9, <1>10, <1>11 DEF b, lines

LEMMA BackIs ==
  ASSUME NEW s, Tame(s)
  PROVE  ServerIn(LinesRead(s)) = BackOf(s)
PROOF
<1> DEFINE keys == KeysOf(s)
           lines == LinesRead(s)
           W == {k \in ConfKeys : HasLine(s, k)}
           places(k) == {n \in DOMAIN lines : lines[n].key = k}
           at(k) == CHOOSE n \in places(k) : \A m \in places(k) : m <= n
           read(k) == IF k \in RawKeys THEN lines[at(k)].text ELSE Unquote(lines[at(k)].text)
           back(k) == IF k \in RawKeys THEN SubSeq(s[k], 1, 1) ELSE Escaped(s[k])
<1>1. DOMAIN lines = DOMAIN keys /\ \A n \in DOMAIN keys : lines[n] = ReadLine([key |-> keys[n], text |-> TextOf(s, keys[n])])
  BY DEF LinesRead, BlockOf
<1>2. {keys[n] : n \in DOMAIN keys} = W /\ keys \in Seq(ConfKeys)
  BY KeysKept
<1>3. DOMAIN keys = 1..Len(keys) /\ Len(keys) \in Nat
  BY <1>2
<1> HIDE DEF keys, lines
<1>4. \A n \in DOMAIN keys : lines[n].key = keys[n]
  <2> TAKE n \in DOMAIN keys
  <2> DEFINE l == [key |-> keys[n], text |-> TextOf(s, keys[n])]
  <2>1. l.key = keys[n]
    OBVIOUS
  <2>2. lines[n] = ReadLine(l)
    BY <1>1
  <2> HIDE DEF l
  <2> QED BY <2>1, <2>2 DEF ReadLine
<1>5. {lines[n].key : n \in DOMAIN lines} = W
  <2> HIDE DEF W
  <2> QED BY <1>1, <1>2, <1>4
<1>6. ASSUME NEW k \in W PROVE read(k) = back(k)
  <2> DEFINE m == at(k)
  <2>1. places(k) # {} /\ places(k) \in SUBSET (1..Len(keys))
    <3>1. \E n \in DOMAIN lines : lines[n].key = k
      BY <1>5
    <3> QED BY <1>1, <1>3, <3>1
  <2>2. m \in places(k)
    <3> HIDE DEF places
    <3>1. \E n \in places(k) : \A j \in places(k) : j <= n
      BY <1>3, <2>1, GreatestNumber
    <3> QED BY <3>1
  <2> HIDE DEF m
  <2>3. m \in DOMAIN keys /\ keys[m] = k
    BY <1>1, <1>4, <2>2
  <2> DEFINE l == [key |-> k, text |-> TextOf(s, k)]
  <2>4. lines[m].text = FirstLine(l)
    BY <1>1, <2>3 DEF ReadLine
  <2>5. s[k] \in Seq(Char)
    BY DEF HasLine, Has, Tame
  <2>6. l = [key |-> k, text |-> IF k \in RawKeys THEN s[k] ELSE JsonString(s[k])]
    BY DEF TextOf
  <2> HIDE DEF l
  <2>7. (IF k \in RawKeys THEN FirstLine(l) ELSE Unquote(FirstLine(l))) = back(k)
    BY <2>5, <2>6, LineBack
  <2>8. read(k) = IF k \in RawKeys THEN FirstLine(l) ELSE Unquote(FirstLine(l))
    BY <2>4 DEF m
  <2> QED BY <2>7, <2>8
<1>7. ServerIn(lines) = [k \in {lines[n].key : n \in DOMAIN lines} |-> read(k)]
  BY DEF ServerIn
<1> HIDE DEF read, back, W
<1>8. ServerIn(lines) = [k \in W |-> back(k)]
  BY <1>5, <1>6, <1>7
<1> QED BY <1>8 DEF BackOf, back, W, lines

\* The whole file.
LEMMA ServersBack ==
  ASSUME NEW servers, servers \in Seq(ToSet(servers)), \A i \in DOMAIN servers : Tame(servers[i])
  PROVE  ParseMcpConf(WriteMcpConf(servers)) = [i \in DOMAIN servers |-> BackOf(servers[i])]
PROOF
<1> DEFINE blocks == WriteMcpConf(servers)
           PiecesOf(b) == Pieces(FlattenSeq([n \in DOMAIN b |-> LinesOf(b[n])]))
           read == FlattenSeq([i \in DOMAIN blocks |-> PiecesOf(blocks[i])])
           all == [i \in DOMAIN servers |-> LinesRead(servers[i])]
           I == {i \in DOMAIN read : \E n \in DOMAIN read[i] : read[i][n].key = "server"}
           named == Picked(read, I)
<1>1. blocks = [i \in DOMAIN servers |-> BlockOf(servers[i])]
  BY DEF WriteMcpConf, BlockOf, TextOf
<1>2. ParseMcpConf(blocks) = [i \in DOMAIN named |-> ServerIn(named[i])]
  BY DEF ParseMcpConf
<1> HIDE DEF blocks
<1>3. DOMAIN servers = 1..Len(servers) /\ Len(servers) \in Nat
  OBVIOUS
<1>4. all \in Seq(ToSet(all)) /\ DOMAIN all = DOMAIN servers
  <2>1. DOMAIN all = DOMAIN servers
    OBVIOUS
  <2>2. \A i \in DOMAIN servers : all[i] \in ToSet(all)
    BY <2>1 DEF ToSet
  <2>3. all = [i \in 1..Len(servers) |-> all[i]]
    BY <1>3
  <2> HIDE DEF all
  <2>4. all \in [1..Len(servers) -> ToSet(all)]
    BY <1>3, <2>2, <2>3
  <2> QED BY <1>3, <2>1, <2>4
<1>5. \A i \in DOMAIN servers : PiecesOf(blocks[i]) = <<all[i]>>
  <2> TAKE i \in DOMAIN servers
  <2>1. blocks[i] = BlockOf(servers[i])
    BY <1>1
  <2>2. /\ FlattenSeq([n \in DOMAIN BlockOf(servers[i]) |-> LinesOf(BlockOf(servers[i])[n])]) = LinesRead(servers[i])
        /\ Pieces(LinesRead(servers[i])) = <<LinesRead(servers[i])>>
    BY BlockBack
  <2>3. PiecesOf(BlockOf(servers[i])) = <<LinesRead(servers[i])>>
    BY <2>2
  <2>4. all[i] = LinesRead(servers[i])
    OBVIOUS
  <2> HIDE DEF PiecesOf, all
  <2> QED BY <2>1, <2>3, <2>4
<1>6. read = all
  <2>1. [i \in DOMAIN blocks |-> PiecesOf(blocks[i])] = [i \in DOMAIN all |-> <<all[i]>>]
    <3>1. DOMAIN blocks = DOMAIN servers
      BY <1>1
    <3> HIDE DEF PiecesOf, all
    <3> QED BY <1>4, <1>5, <3>1
  <2>2. FlattenSeq([i \in DOMAIN all |-> <<all[i]>>]) = all
    <3> HIDE DEF all
    <3> QED BY <1>4, FlattenOnes
  <2> HIDE DEF PiecesOf, all
  <2> QED BY <2>1, <2>2
<1>7. \A i \in DOMAIN all : \E n \in DOMAIN all[i] : all[i][n].key = "server"
  <2> TAKE i \in DOMAIN all
  <2>1. all[i] = LinesRead(servers[i]) /\ Tame(servers[i])
    OBVIOUS
  <2> HIDE DEF all
  <2> QED BY <2>1, BlockBack
<1> HIDE DEF read, all
<1>8. I = DOMAIN read
  BY <1>6, <1>7
<1>9. named = all
  <2>1. Picked(all, DOMAIN all) = all
    BY <1>4, PickedItems
  <2> HIDE DEF I
  <2> QED BY <1>6, <1>8, <2>1
<1> HIDE DEF named
<1>10. \A i \in DOMAIN servers : ServerIn(all[i]) = BackOf(servers[i])
  BY BackIs DEF all
<1>11. ParseMcpConf(blocks) = [i \in DOMAIN servers |-> BackOf(servers[i])]
  BY <1>2, <1>4, <1>9, <1>10
<1> QED BY <1>11 DEF blocks

\* What is written of a server, and comes back.
LEMMA ServerTexts ==
  ASSUME NEW s, IsServer(s)
  PROVE  /\ DOMAIN s \subseteq ConfKeys
         /\ \A k \in DOMAIN s : s[k] \in Seq(Char)
         /\ \A k : FieldOf(s, k) \in Seq(Char)
PROOF
<1>1. s \in [DOMAIN s -> Text] /\ Text \subseteq Seq(Char)
  BY TextsOf DEF IsServer, Text
<1>2. \A k \in DOMAIN s : s[k] \in Seq(Char)
  <2>1. \A k \in DOMAIN s : s[k] \in Text
    BY <1>1
  <2> QED BY <1>1, <2>1
<1>3. \A k : FieldOf(s, k) \in Seq(Char)
  BY <1>2, TextsOf DEF FieldOf, Has
<1> QED BY <1>2, <1>3 DEF IsServer, ConfKeys

LEMMA BackFields ==
  ASSUME NEW s, IsServer(s), NEW k \in ConfKeys
  PROVE  LET b == BackOf(s)
         IN  /\ k \notin RawKeys => FieldOf(b, k) = Escaped(FieldOf(s, k))
             /\ k \in RawKeys /\ FieldOf(s, k) = Unset => FieldOf(b, k) = Unset
             /\ k \in RawKeys /\ FieldOf(s, k) = OneLine => FieldOf(b, k) = OneLine
             /\ Has(b, k) <=> HasLine(s, k)
             /\ Has(b, k) => b[k] = FieldOf(b, k)
PROOF
<1> DEFINE b == BackOf(s)
           W == {j \in ConfKeys : HasLine(s, j)}
<1>1. b = [j \in W |-> IF j \in RawKeys THEN SubSeq(s[j], 1, 1) ELSE Escaped(s[j])]
  BY DEF BackOf
<1> HIDE DEF b
<1>2. Has(b, k) <=> HasLine(s, k)
  <2>1. DOMAIN b = W
    <3> HIDE DEF W
    <3> QED BY <1>1
  <2> QED BY <2>1 DEF Has
<1>3. CASE HasLine(s, k)
  <2>1. FieldOf(b, k) = (IF k \in RawKeys THEN SubSeq(s[k], 1, 1) ELSE Escaped(s[k])) /\ b[k] = FieldOf(b, k)
    <3>1. k \in W
      BY <1>3
    <3>2. b[k] = IF k \in RawKeys THEN SubSeq(s[k], 1, 1) ELSE Escaped(s[k])
      <4> HIDE DEF W
      <4> QED BY <1>1, <3>1
    <3>3. FieldOf(b, k) = b[k]
      BY <1>2, <1>3 DEF FieldOf
    <3> QED BY <3>2, <3>3
  <2>2. FieldOf(s, k) = s[k] /\ (s[k] # <<>> \/ k = "server")
    BY <1>3 DEF HasLine, FieldOf
  <2>3. "server" \notin RawKeys
    BY DEF RawKeys
  <2>4. SubSeq(OneLine, 1, 1) = OneLine
    <3>1. OneLine \in Seq(Char) /\ Len(OneLine) = 1
      <4>1. "json" \in Char
        BY DEF Char
      <4> QED BY <4>1 DEF OneLine
    <3>2. SubSeq(OneLine, 1, Len(OneLine)) = OneLine
      BY <3>1, SubSeqFull
    <3> QED BY <3>1, <3>2
  <2> QED BY <1>2, <1>3, <2>1, <2>2, <2>3, <2>4 DEF Unset, b
<1>4. CASE ~HasLine(s, k)
  <2>1. FieldOf(b, k) = <<>>
    BY <1>2, <1>4 DEF FieldOf
  <2>2. FieldOf(s, k) = <<>>
    BY <1>4 DEF HasLine, FieldOf
  <2>3. <<>> # OneLine
    BY DEF OneLine
  <2> QED BY <1>2, <1>4, <2>1, <2>2, <2>3, EscapedMore DEF Unset, b
<1> QED BY <1>3, <1>4

\* Fields: where they are blank, and what words they are.
LEMMA BackBlank ==
  ASSUME NEW t \in Seq(Char)
  PROVE  /\ ~IsBlank(t) => ~IsBlank(Escaped(t))
         /\ IsBlank(t) /\ NEWLINE \notin ToSet(t) => IsBlank(Escaped(t))
PROOF
<1>1. ~IsBlank(t) => ~IsBlank(Escaped(t))
  BY EscapedLine
<1>2. ASSUME IsBlank(t), NEWLINE \notin ToSet(t) PROVE IsBlank(Escaped(t))
  <2>1. ToSet(t) \cap Special = {}
    BY <1>2, CharsDiffer DEF IsBlank, Special
  <2> QED BY <1>2, <2>1, EscapedSimple
<1> QED BY <1>1, <1>2

LEMMA HttpBack ==
  ASSUME NEW s, IsServer(s), KindSettled(s)
  PROVE  IsHttp(BackOf(s)) = IsHttp(s)
PROOF
<1>1. FieldOf(BackOf(s), "url") = Escaped(FieldOf(s, "url"))
  BY FieldNames, BackFields
<1>2. FieldOf(s, "url") \in Seq(Char)
  BY ServerTexts
<1>3. IsBlank(Escaped(FieldOf(s, "url"))) = IsBlank(FieldOf(s, "url"))
  <2>1. IsBlank(Escaped(FieldOf(s, "url"))) <=> IsBlank(FieldOf(s, "url"))
    BY <1>2, BackBlank DEF KindSettled
  <2> QED BY <2>1 DEF IsBlank
<1> QED BY <1>1, <1>3 DEF IsHttp

LEMMA SimpleBack ==
  ASSUME NEW s, IsServer(s), Tame(s), NEW k \in DOMAIN s, IsSimple(s, k)
  PROVE  FieldOf(BackOf(s), k) = s[k]
PROOF
<1>1. k \in ConfKeys /\ FieldOf(s, k) = s[k] /\ s[k] \in Seq(Char)
  BY ServerTexts DEF FieldOf, Has
<1>2. CASE k \in RawKeys
  <2>1. s[k] \in {Unset, OneLine}
    BY <1>2 DEF IsSimple, Tame
  <2> QED BY <1>1, <1>2, <2>1, BackFields
<1>3. CASE k \notin RawKeys
  <2>1. ToSet(s[k]) \cap Special = {}
    BY <1>3 DEF IsSimple, Special
  <2> QED BY <1>1, <1>3, <2>1, BackFields, EscapedSimple
<1> QED BY <1>2, <1>3

\* What is accepted of a server, without the cases.
Accepted(s) ==
  /\ ~IsBlank(FieldOf(s, "server"))
  /\ IsHttp(s) /\ Trim(FieldOf(s, "auth_type")) = <<"code">> =>
       ~IsBlank(FieldOf(s, "auth_client_id")) /\ ~IsBlank(FieldOf(s, "auth_client_secret"))
  /\ IsHttp(s) /\ Trim(FieldOf(s, "auth_type")) = <<"static">> => ~IsBlank(FieldOf(s, "auth_token"))
  /\ ~IsHttp(s) => ~IsBlank(FieldOf(s, "command")) /\ JsonField(s, "args") /\ JsonField(s, "env")

LEMMA AcceptedIs ==
  ASSUME NEW s
  PROVE  AcceptsServer(s) <=> Accepted(s)
PROOF
<1>1. <<"code">> # <<"static">>
  OBVIOUS
<1>2. CASE ~IsHttp(s)
  BY <1>2 DEF AcceptsServer, Accepted
<1>3. CASE IsHttp(s) /\ Trim(FieldOf(s, "auth_type")) = <<"code">>
  <2> DEFINE w == Trim(FieldOf(s, "auth_type"))
  <2>1. w = <<"code">> /\ w # <<"static">>
    BY <1>1, <1>3
  <2> HIDE DEF w
  <2> QED BY <1>3, <2>1 DEF AcceptsServer, Accepted, w
<1>4. CASE IsHttp(s) /\ Trim(FieldOf(s, "auth_type")) = <<"static">>
  <2> DEFINE w == Trim(FieldOf(s, "auth_type"))
  <2>1. w = <<"static">> /\ w # <<"code">>
    BY <1>1, <1>4
  <2> HIDE DEF w
  <2> QED BY <1>4, <2>1 DEF AcceptsServer, Accepted, w
<1>5. CASE /\ IsHttp(s)
           /\ Trim(FieldOf(s, "auth_type")) # <<"code">> /\ Trim(FieldOf(s, "auth_type")) # <<"static">>
  BY <1>5 DEF AcceptsServer, Accepted
<1> QED BY <1>2, <1>3, <1>4, <1>5

LEMMA AcceptedBack ==
  ASSUME NEW s, IsServer(s), Tame(s), KindSettled(s), AcceptsServer(s),
         \A k \in DOMAIN s \cap RawKeys : s[k] # TwoLines
  PROVE  AcceptsServer(BackOf(s))
PROOF
<1> DEFINE b == BackOf(s)
<1>1. Accepted(s)
  BY AcceptedIs
<1>2. IsHttp(b) = IsHttp(s)
  BY HttpBack
<1>3. \A k \in ConfKeys \ RawKeys : FieldOf(b, k) = Escaped(FieldOf(s, k)) /\ FieldOf(s, k) \in Seq(Char)
  BY BackFields, ServerTexts
<1>4. \A k \in ConfKeys \ RawKeys : ~IsBlank(FieldOf(s, k)) => ~IsBlank(FieldOf(b, k))
  BY <1>3, BackBlank
<1>5. \A w \in {"code", "static"} : Trim(FieldOf(b, "auth_type")) = <<w>> => Trim(FieldOf(s, "auth_type")) = <<w>>
  <2> TAKE w \in {"code", "static"}
  <2> HAVE Trim(FieldOf(b, "auth_type")) = <<w>>
  <2>1. w \in Char
    BY DEF Char
  <2>2. w \notin Special
    BY DEF Special, QUOTE, BACKSLASH, NEWLINE
  <2>3. w # SPACE
    <3>1. "code" # SPACE
      BY Zenon DEF SPACE
    <3>2. "static" # SPACE
      BY Zenon DEF SPACE
    <3> QED BY <3>1, <3>2
  <2>4. FieldOf(b, "auth_type") = Escaped(FieldOf(s, "auth_type")) /\ FieldOf(s, "auth_type") \in Seq(Char)
    BY <1>3, FieldNames
  <2> QED BY <2>1, <2>2, <2>3, <2>4, EscapedWord
<1>6. \A k \in RawKeys : JsonField(b, k)
  <2> TAKE k \in RawKeys
  <2>1. FieldOf(s, k) \in {Unset, OneLine}
    <3>1. CASE k \in DOMAIN s
      <4>1. s[k] \in {Unset, OneLine}
        BY <3>1 DEF Tame
      <4> QED BY <3>1, <4>1 DEF FieldOf, Has
    <3>2. CASE k \notin DOMAIN s
      BY <3>2 DEF FieldOf, Has, Unset
    <3> QED BY <3>1, <3>2
  <2>2. k \in ConfKeys
    BY FieldNames
  <2>3. FieldOf(b, k) \in {Unset, OneLine}
    BY <2>1, <2>2, BackFields
  <2> QED BY <2>3 DEF JsonField
<1> HIDE DEF b
<1>7. Accepted(b)
  BY <1>1, <1>2, <1>4, <1>5, <1>6, FieldNames DEF Accepted
<1>8. AcceptsServer(b)
  BY <1>7, AcceptedIs
<1> QED BY <1>8 DEF b

LEMMA AcceptedTame ==
  ASSUME NEW s, IsServer(s), AcceptsServer(s), IsHttp(s) => RawsAreJson(s)
  PROVE  Tame(s)
PROOF
<1>1. Accepted(s)
  BY AcceptedIs
<1>2. RawsAreJson(s)
  BY <1>1 DEF Accepted, RawsAreJson, RawKeys
<1>3. \A k \in DOMAIN s \cap RawKeys : s[k] \in {Unset, OneLine, TwoLines}
  BY <1>2 DEF RawsAreJson, JsonField, FieldOf, Has
<1>4. Has(s, "server")
  BY <1>1, NothingBlank DEF Accepted, FieldOf
<1> QED BY <1>3, <1>4, ServerTexts DEF Tame

\* No server is lost or turned into another.
LEMMA ServersAlwaysKept ==
  ASSUME NEW servers, IsServerList(servers)
  PROVE  ServersKept(servers)
PROOF
<1> DEFINE back == ParseMcpConf(WriteMcpConf(servers))
           n == Len(servers)
<1> SUFFICES ASSUME AcceptsServers(servers), \A i \in DOMAIN servers : IsHttp(servers[i]) => RawsAreJson(servers[i])
             PROVE  /\ Len(back) = Len(servers)
                    /\ \A i \in DOMAIN servers :
                         /\ KindSettled(servers[i]) => IsHttp(back[i]) = IsHttp(servers[i])
                         /\ \A k \in DOMAIN servers[i] :
                              /\ k \notin RawKeys => FieldOf(back[i], k) = Escaped(servers[i][k])
                              /\ IsSimple(servers[i], k) => FieldOf(back[i], k) = servers[i][k]
                    /\ (\A i \in DOMAIN servers :
                          /\ KindSettled(servers[i])
                          /\ \A k \in DOMAIN servers[i] \cap RawKeys : servers[i][k] # TwoLines)
                         => AcceptsServers(back)
  BY DEF ServersKept
<1>1. n \in Nat /\ DOMAIN servers = 1..n /\ \A i \in 1..n : IsServer(servers[i])
  BY DEF IsServerList, ToSet
<1>2. \A i \in 1..n : Tame(servers[i])
  BY <1>1, AcceptedTame DEF AcceptsServers
<1>3. back = [i \in 1..n |-> BackOf(servers[i])]
  <2>1. servers \in Seq(ToSet(servers))
    BY DEF IsServerList
  <2> QED BY <1>1, <1>2, <2>1, ServersBack
<1> HIDE DEF back, n
<1>4. Len(back) = n /\ DOMAIN back = 1..n /\ \A i \in 1..n : back[i] = BackOf(servers[i])
  BY <1>1, <1>3
<1>5. ASSUME NEW i \in 1..n, KindSettled(servers[i]) PROVE IsHttp(back[i]) = IsHttp(servers[i])
  BY <1>1, <1>4, <1>5, HttpBack
<1>6. ASSUME NEW i \in 1..n, NEW k \in DOMAIN servers[i], IsSimple(servers[i], k)
      PROVE  FieldOf(back[i], k) = servers[i][k]
  BY <1>1, <1>4, <1>6, <1>2, SimpleBack
<1>7. ASSUME NEW i \in 1..n, NEW k \in DOMAIN servers[i], k \notin RawKeys
      PROVE  FieldOf(back[i], k) = Escaped(servers[i][k])
  <2>1. k \in ConfKeys /\ FieldOf(servers[i], k) = servers[i][k]
    BY <1>1, ServerTexts DEF FieldOf, Has
  <2> QED BY <1>1, <1>4, <1>7, <2>1, BackFields
<1>8. ASSUME \A i \in 1..n : /\ KindSettled(servers[i])
                             /\ \A k \in DOMAIN servers[i] \cap RawKeys : servers[i][k] # TwoLines
      PROVE  AcceptsServers(back)
  <2>1. \A i \in 1..n : AcceptsServer(servers[i])
    BY <1>1 DEF AcceptsServers
  <2>2. \A i \in 1..n : AcceptsServer(back[i])
    BY <1>1, <1>4, <1>8, <1>2, <2>1, AcceptedBack
  <2>3. ASSUME NEW i \in 1..n
        PROVE  /\ back[i]["server"] = Escaped(servers[i]["server"])
               /\ servers[i]["server"] \in Seq(Char)
    <3> DEFINE s == servers[i]
    <3>1. IsServer(s) /\ ~IsBlank(FieldOf(s, "server"))
      BY <1>1, <2>1 DEF AcceptsServer
    <3>2. "server" \in DOMAIN s
      <4>1. IsBlank(<<>>)
        BY SetOfOne DEF IsBlank
      <4> QED BY <3>1, <4>1 DEF FieldOf, Has
    <3> HIDE DEF s
    <3>3. FieldOf(s, "server") = s["server"] /\ s["server"] \in Seq(Char) /\ HasLine(s, "server")
      BY <3>1, <3>2, ServerTexts DEF FieldOf, Has, HasLine
    <3>4. BackOf(s)["server"] = Escaped(s["server"])
      BY <3>1, <3>3, FieldNames, BackFields
    <3> QED BY <1>4, <3>3, <3>4 DEF s
  <2>4. ASSUME NEW i \in 1..n, NEW j \in 1..n, i # j
        PROVE  Trim(back[i]["server"]) # Trim(back[j]["server"])
    <3>1. Trim(servers[i]["server"]) # Trim(servers[j]["server"])
      BY <1>1, <2>4 DEF AcceptsServers
    <3>2. /\ back[i]["server"] = Escaped(servers[i]["server"]) /\ servers[i]["server"] \in Seq(Char)
          /\ back[j]["server"] = Escaped(servers[j]["server"]) /\ servers[j]["server"] \in Seq(Char)
      BY <2>3
    <3> QED BY <3>1, <3>2, EscapedTrimmed
  <2> QED BY <1>4, <2>2, <2>4 DEF AcceptsServers
<1> QED BY <1>1, <1>4, <1>5, <1>6, <1>7, <1>8 DEF n

(***************************************************************************)
(* Every document                                                          *)
(***************************************************************************)
\* Settings are read as they were synced, field by field.  Of servers whose args
\* and env are JSON as many are read as were accepted, each in its place and,
\* but for a URL of white space, of its kind; a text has the escapes it was
\* written with.  The name of a model is decoded.  The defaults of a profile
\* settle at once, and the active profile is the one that is named, but for a
\* name with white space around it.  What is edited by hand is refused or read
\* within its bounds.
THEOREM DocumentsAlwaysSurvive == CodecsSpec => []DocumentsSurvive
PROOF
<1>1. ASSUME sample \in Samples \cup {Stream} PROVE DocumentsSurvive
  <2>1. CASE sample = Stream
    BY <2>1 DEF DocumentsSurvive, Stream
  <2>2. CASE sample \in Samples
    <3>1. sample.is = "settings" => SettingsKept(sample.cur, sample.new)
      BY <2>2, SamplesAssumption, SettingsAlwaysKept
    <3>2. sample.is = "mcp" => ServersKept(sample.servers)
      BY <2>2, SamplesAssumption, ServersAlwaysKept
    <3>3. sample.is = "model" => ActiveModelName(JsonString(sample.text)) = sample.text
      BY <2>2, SamplesAssumption, ModelAlwaysNamed
    <3>4. sample.is = "asr" => AsrKept(sample.config)
      BY <2>2, SamplesAssumption, AsrAlwaysKept
    <3>5. sample.is = "ui" => UiKept(sample.doc)
      BY <2>2, SamplesAssumption, UiAlwaysKept
    <3>6. sample.is = "label" => LabelKept(sample.doc)
      BY <2>2, SamplesAssumption, LabelAlwaysKept
    <3>7. sample.is = "limit" => LimitKept(sample.n)
      BY <2>2, SamplesAssumption, LimitAlwaysKept
    <3>8. sample.is = "header" => HeaderRead(sample.head)
      BY <2>2, SamplesAssumption, HeaderAlwaysRead
    <3> QED BY <3>1, <3>2, <3>3, <3>4, <3>5, <3>6, <3>7, <3>8 DEF DocumentsSurvive
  <2> QED BY <1>1, <2>1, <2>2
<1> QED BY <1>1, SampleGiven, PTL

(***************************************************************************)
(* The texts of an answer, one line after the other                        *)
(***************************************************************************)
\* The lines of a body, those with a word in them too.
BodyLine == [is : STRING \cup {"delta"}, text : Text]

\* What a line adds to the text so far.
LineAdds(t, l, kinds) == IF l.is \in kinds THEN t \o l.text ELSE t

Joins(w, lines, kinds, m) ==
  w \in [0..m -> Text] /\ w[0] = <<>> /\ \A i \in 1..m : w[i] = LineAdds(w[i - 1], lines[i], kinds)

\* The texts of the lines before a line are the fold of them.
LEMMA JoinedSteps ==
  ASSUME NEW lines \in Seq(BodyLine), NEW kinds, NEW m \in 0..Len(lines)
  PROVE  \E w : Joins(w, lines, kinds, m) /\ Joined(lines, kinds, m + 1) = w[m]
PROOF
<1> DEFINE S == Text
           base == <<>>
           g == [i \in 1..m |-> [t \in S |-> LineAdds(t, lines[i], kinds)]]
           is(h) == h = [i \in 0..m |-> IF i = 0 THEN base ELSE LineAdds(h[i - 1], lines[i], kinds)]
           w == CHOOSE h : is(h)
<1>1. m \in Nat /\ \A i \in 1..m : lines[i] \in BodyLine
  OBVIOUS
<1>2. base \in S
  BY DEF Text
<1>3. ASSUME NEW i \in 1..m, NEW t \in S PROVE LineAdds(t, lines[i], kinds) \in S
  <2>1. lines[i].text \in Seq(STRING)
    BY <1>1 DEF BodyLine, Text
  <2>2. t \o lines[i].text \in Seq(STRING)
    BY <2>1 DEF Text
  <2> QED BY <2>2 DEF LineAdds, Text
<1> HIDE DEF S
<1>4. g \in [1..m -> [S -> S]]
  BY <1>3
<1>5. PICK f : f \in [0..m -> S] /\ f[0] = base /\ \A i \in 1..m : f[i] = g[i][f[i - 1]]
  <2> HIDE DEF g, base
  <2>1. Foldable(S, m, base, g)
    BY <1>1, <1>2, <1>4 DEF Foldable
  <2>2. \E f : FoldOf(f, S, m, base, g)
    BY <2>1, FoldExists
  <2> QED BY <2>2 DEF FoldOf
<1>6. is(f)
  <2>1. ASSUME NEW i \in 1..m PROVE f[i] = LineAdds(f[i - 1], lines[i], kinds)
    <3>1. i - 1 \in 0..m
      BY <1>1
    <3>2. f[i - 1] \in S
      BY <1>5, <3>1
    <3>3. g[i][f[i - 1]] = LineAdds(f[i - 1], lines[i], kinds)
      BY <3>2
    <3> HIDE DEF g
    <3> QED BY <1>5, <3>3
  <2>2. f = [i \in 0..m |-> f[i]]
    BY <1>5
  <2>3. \A i \in 0..m : i # 0 => i \in 1..m
    BY <1>1
  <2> HIDE DEF g
  <2> QED BY <1>5, <2>1, <2>2, <2>3
<1>7. is(w)
  <2> HIDE DEF is
  <2> QED BY <1>6
<1>8. Joined(lines, kinds, m + 1) = w[m]
  <2>1. m + 1 - 1 = m
    BY <1>1
  <2> QED BY <2>1 DEF Joined, LineAdds
<1> HIDE DEF w
<1>9. w[0] = base /\ \A i \in 1..m : w[i] = LineAdds(w[i - 1], lines[i], kinds)
  BY <1>1, <1>7
<1> DEFINE P == {i \in 0..m : w[i] \in S}
<1>10. 0 \in P /\ \A i \in 1..m : i - 1 \in P => i \in P
  BY <1>1, <1>2, <1>3, <1>9
<1>11. \A i \in 0..m : i \in P
  <2> HIDE DEF P
  <2> QED BY <1>1, <1>10, Climb
<1>12. w \in [0..m -> S]
  BY <1>7, <1>11
<1> QED BY <1>8, <1>9, <1>12 DEF S, Joins

\* They are those of any lines that begin in the same way, each adding its own.
LEMMA JoinedSame ==
  ASSUME NEW lines \in Seq(BodyLine), NEW other \in Seq(BodyLine), NEW kinds,
         NEW m \in 0..Len(lines), NEW k \in m..Len(other), \A i \in 1..m : lines[i] = other[i],
         NEW v, Joins(v, other, kinds, k)
  PROVE  Joined(lines, kinds, m + 1) = v[m]
PROOF
<1>1. v[0] = <<>> /\ \A i \in 1..k : v[i] = LineAdds(v[i - 1], other[i], kinds)
  BY DEF Joins
<1>2. PICK w : /\ w \in [0..m -> Text] /\ w[0] = <<>>
               /\ \A i \in 1..m : w[i] = LineAdds(w[i - 1], lines[i], kinds)
               /\ Joined(lines, kinds, m + 1) = w[m]
  <2>1. \E w : Joins(w, lines, kinds, m) /\ Joined(lines, kinds, m + 1) = w[m]
    BY JoinedSteps
  <2> QED BY <2>1 DEF Joins
<1> DEFINE P == {i \in 0..m : w[i] = v[i]}
<1>3. m \in Nat /\ k \in Nat /\ m <= k
  OBVIOUS
<1>4. 0 \in P
  BY <1>1, <1>2, <1>3
<1>5. ASSUME NEW i \in 1..m, i - 1 \in P PROVE i \in P
  <2>1. i \in 1..k
    BY <1>3
  <2>2. w[i - 1] = v[i - 1]
    BY <1>5
  <2> QED BY <1>1, <1>2, <2>1, <2>2
<1>6. \A i \in 0..m : i \in P
  <2> HIDE DEF P
  <2> QED BY <1>3, <1>4, <1>5, Climb
<1> QED BY <1>2, <1>3, <1>6

\* Before the first line there is nothing; a line adds what it says.
LEMMA JoinedMore ==
  ASSUME NEW lines \in Seq(BodyLine), NEW kinds
  PROVE  /\ Joined(lines, kinds, 1) = <<>>
         /\ \A m \in 0..Len(lines) : Joined(lines, kinds, m + 1) \in Text
         /\ \A m \in 1..Len(lines) : Joined(lines, kinds, m + 1) = LineAdds(Joined(lines, kinds, m), lines[m], kinds)
PROOF
<1> DEFINE n == Len(lines)
<1>1. n \in Nat /\ n \in 0..Len(lines)
  OBVIOUS
<1>2. PICK v : Joins(v, lines, kinds, n)
  BY <1>1, JoinedSteps
<1>3. \A m \in 0..n : Joined(lines, kinds, m + 1) = v[m]
  <2> TAKE m \in 0..n
  <2>1. n \in m..Len(lines) /\ m \in 0..Len(lines)
    BY <1>1
  <2>2. \A i \in 1..m : lines[i] = lines[i]
    OBVIOUS
  <2> HIDE DEF n
  <2> QED BY <1>2, <2>1, <2>2, JoinedSame
<1> HIDE DEF n
<1>21. v \in [0..n -> Text] /\ v[0] = <<>> /\ \A i \in 1..n : v[i] = LineAdds(v[i - 1], lines[i], kinds)
  BY <1>2 DEF Joins
<1>4. ASSUME NEW m \in 1..n PROVE Joined(lines, kinds, m + 1) = LineAdds(Joined(lines, kinds, m), lines[m], kinds)
  <2>1. m \in 0..n /\ m - 1 \in 0..n /\ (m - 1) + 1 = m
    BY <1>1
  <2>2. Joined(lines, kinds, m + 1) = v[m]
    BY <1>3, <2>1
  <2>3. Joined(lines, kinds, (m - 1) + 1) = v[m - 1]
    BY <1>3, <2>1
  <2> QED BY <1>21, <2>1, <2>2, <2>3
<1>5. Joined(lines, kinds, 1) = <<>>
  <2>1. 0 \in 0..n /\ 0 + 1 = 1
    BY <1>1
  <2>2. Joined(lines, kinds, 0 + 1) = v[0]
    BY <1>3, <2>1
  <2> QED BY <1>21, <2>1, <2>2
<1>6. \A m \in 0..n : Joined(lines, kinds, m + 1) \in Text
  BY <1>21, <1>3
<1> QED BY <1>4, <1>5, <1>6 DEF n

\* Lines of no such kind add nothing.
LEMMA JoinedQuiet ==
  ASSUME NEW lines \in Seq(BodyLine), NEW kinds, NEW a \in 0..Len(lines), NEW b \in a..Len(lines),
         \A i \in (a + 1)..b : lines[i].is \notin kinds
  PROVE  Joined(lines, kinds, b + 1) = Joined(lines, kinds, a + 1)
PROOF
<1> DEFINE J(i) == Joined(lines, kinds, i)
           d == b - a
           P == {j \in 0..d : J(a + j + 1) = J(a + 1)}
<1>1. a \in Nat /\ b \in Nat /\ a <= b /\ b <= Len(lines) /\ Len(lines) \in Nat /\ d \in Nat /\ a + d = b
  OBVIOUS
<1>2. 0 \in P
  <2>1. 0 \in 0..d /\ a + 0 + 1 = a + 1
    BY <1>1
  <2> HIDE DEF d, J
  <2> QED BY <2>1
<1> HIDE DEF d
<1>3. ASSUME NEW j \in 1..d, j - 1 \in P PROVE j \in P
  <2>1. a + j \in 1..Len(lines) /\ a + j \in (a + 1)..b /\ a + (j - 1) + 1 = a + j /\ j \in 0..d
    BY <1>1
  <2>2. J((a + j) + 1) = LineAdds(J(a + j), lines[a + j], kinds)
    BY <2>1, JoinedMore
  <2>3. lines[a + j].is \notin kinds
    BY <2>1
  <2> HIDE DEF J
  <2>4. J(a + (j - 1) + 1) = J(a + 1)
    BY <1>3
  <2>5. J(a + j + 1) = J(a + j)
    BY <2>2, <2>3 DEF LineAdds
  <2>6. J(a + j) = J(a + 1)
    BY <2>1, <2>4
  <2> QED BY <2>1, <2>5, <2>6
<1>4. \A j \in 0..d : j \in P
  <2> HIDE DEF P
  <2> QED BY <1>1, <1>2, <1>3, Climb
<1>5. d \in 0..d
  BY <1>1
<1>6. J(a + d + 1) = J(a + 1)
  <2> HIDE DEF J
  <2> QED BY <1>4, <1>5
<1> HIDE DEF J
<1>7. J(b + 1) = J(a + 1)
  BY <1>1, <1>6
<1> QED BY <1>7 DEF J

\* What comes after does not matter.
LEMMA JoinedPrefix ==
  ASSUME NEW s \in Seq(BodyLine), NEW x \in Seq(BodyLine), NEW kinds, NEW m \in 0..Len(s)
  PROVE  Joined(s \o x, kinds, m + 1) = Joined(s, kinds, m + 1)
PROOF
<1> DEFINE all == s \o x
<1>1. all \in Seq(BodyLine) /\ Len(s) \in Nat /\ Len(all) \in Nat /\ Len(s) <= Len(all) /\ \A i \in 1..Len(s) : s[i] = all[i]
  BY ConcatProperties
<1> HIDE DEF all
<1>2. m \in Nat /\ m <= Len(s) /\ m \in 0..Len(all)
  BY <1>1
<1>3. PICK v : Joins(v, all, kinds, m) /\ Joined(all, kinds, m + 1) = v[m]
  BY <1>1, <1>2, JoinedSteps
<1>4. m \in m..Len(all) /\ \A i \in 1..m : s[i] = all[i]
  BY <1>1, <1>2
<1>6. Joined(s, kinds, m + 1) = v[m]
  BY <1>1, <1>3, <1>4, JoinedSame
<1>7. Joined(s, kinds, m + 1) = Joined(all, kinds, m + 1)
  BY <1>3, <1>6
<1> QED BY <1>7 DEF all

\* Lines of other kinds at the end add nothing; one line at the end adds its own.
LEMMA JoinedAfter ==
  ASSUME NEW s \in Seq(BodyLine), NEW kinds
  PROVE  /\ \A x \in Seq(BodyLine) :
              (\A i \in DOMAIN x : x[i].is \notin kinds)
              => Joined(s \o x, kinds, Len(s \o x) + 1) = Joined(s, kinds, Len(s) + 1)
         /\ \A l \in BodyLine :
              Joined(Append(s, l), kinds, Len(Append(s, l)) + 1) = LineAdds(Joined(s, kinds, Len(s) + 1), l, kinds)
PROOF
<1>1. ASSUME NEW x \in Seq(BodyLine), \A i \in DOMAIN x : x[i].is \notin kinds
      PROVE  Joined(s \o x, kinds, Len(s \o x) + 1) = Joined(s, kinds, Len(s) + 1)
  <2> DEFINE all == s \o x
             a == Len(s)
             b == Len(all)
  <2>1. all \in Seq(BodyLine) /\ a \in Nat /\ b \in Nat /\ Len(x) \in Nat /\ DOMAIN x = 1..Len(x) /\ b = a + Len(x)
    BY ConcatProperties
  <2>2. \A i \in (a + 1)..b : all[i] = x[i - a] /\ i - a \in 1..Len(x)
    BY <2>1, ConcatProperties
  <2>3. \A i \in (a + 1)..b : all[i].is \notin kinds
    BY <1>1, <2>1, <2>2
  <2>4. a \in 0..Len(s) /\ a \in 0..Len(all) /\ b \in a..Len(all)
    BY <2>1
  <2>5. Joined(all, kinds, a + 1) = Joined(s, kinds, a + 1)
    BY <2>4, JoinedPrefix
  <2> HIDE DEF all
  <2>6. Joined(all, kinds, b + 1) = Joined(all, kinds, a + 1)
    <3> HIDE DEF a, b
    <3> QED BY <2>1, <2>3, <2>4, JoinedQuiet
  <2>7. Joined(all, kinds, b + 1) = Joined(s, kinds, a + 1)
    BY <2>5, <2>6
  <2> QED BY <2>7 DEF all
<1>2. ASSUME NEW l \in BodyLine
      PROVE  Joined(Append(s, l), kinds, Len(Append(s, l)) + 1) = LineAdds(Joined(s, kinds, Len(s) + 1), l, kinds)
  <2> DEFINE all == Append(s, l)
             a == Len(s)
  <2>1. all \in Seq(BodyLine) /\ a \in Nat /\ Len(all) = a + 1 /\ all[a + 1] = l /\ all = s \o <<l>> /\ <<l>> \in Seq(BodyLine)
    BY AppendProperties, AppendIsConcat
  <2>2. a \in 0..Len(s) /\ a + 1 \in 1..Len(all)
    BY <2>1
  <2>3. Joined(s \o <<l>>, kinds, a + 1) = Joined(s, kinds, a + 1)
    BY <2>1, <2>2, JoinedPrefix
  <2> HIDE DEF all, a
  <2>4. Joined(all, kinds, (a + 1) + 1) = LineAdds(Joined(all, kinds, a + 1), all[a + 1], kinds)
    BY <2>1, <2>2, JoinedMore
  <2>5. Joined(all, kinds, Len(all) + 1) = LineAdds(Joined(s, kinds, a + 1), l, kinds)
    BY <2>1, <2>3, <2>4
  <2> QED BY <2>5 DEF all, a
<1> QED BY <1>1, <1>2

(***************************************************************************)
(* A stream of words                                                       *)
(***************************************************************************)
\* A word as it is sent, and the words before the end of the stream.
Sent(noise, t) == noise \o <<[is |-> "delta", text |-> t]>>
Streamed(r, noise) == FlattenSeq([i \in DOMAIN r |-> noise \o <<[is |-> "delta", text |-> r[i]]>>])
Quiet(l) == l \in Seq(BodyLine) /\ \A i \in DOMAIN l : l[i].is \notin {"delta", "message", "done", "error", "[DONE]"}

LEMMA WordSent ==
  ASSUME NEW noise, Quiet(noise), NEW t \in Text
  PROVE  /\ Sent(noise, t) \in Seq(BodyLine)
         /\ [is |-> "delta", text |-> t] \in BodyLine
         /\ Sent(noise, t) = Append(noise, [is |-> "delta", text |-> t])
PROOF
<1>1. [is |-> "delta", text |-> t] \in BodyLine
  BY DEF BodyLine
<1>2. noise \in Seq(BodyLine)
  BY DEF Quiet
<1> QED BY <1>1, <1>2, AppendIsConcat, AppendProperties DEF Sent

LEMMA StreamedMore ==
  ASSUME NEW noise, Quiet(noise), NEW r \in Seq(Text), NEW t \in Text
  PROVE  /\ Streamed(r, noise) \in Seq(BodyLine)
         /\ Streamed(Append(r, t), noise) = Streamed(r, noise) \o Sent(noise, t)
         /\ Streamed(<<>>, noise) = <<>>
PROOF
<1> DEFINE rr == Append(r, t)
           n == Len(r)
           Chunks(q) == [i \in DOMAIN q |-> Sent(noise, q[i])]
           S == Seq(BodyLine)
<1>1. n \in Nat /\ DOMAIN r = 1..n /\ \A i \in 1..n : r[i] \in Text
  OBVIOUS
<1>2. rr \in Seq(Text) /\ DOMAIN rr = 1..(n + 1) /\ (\A i \in 1..n : rr[i] = r[i]) /\ rr[n + 1] = t
  <2>1. rr \in Seq(Text) /\ Len(rr) = n + 1 /\ (\A i \in 1..n : rr[i] = r[i]) /\ rr[n + 1] = t
    BY AppendProperties
  <2> QED BY <2>1
<1>3. \A q : Streamed(q, noise) = FlattenSeq(Chunks(q))
  BY DEF Streamed, Sent
<1> HIDE DEF n, rr, S
<1>4. \A i \in 1..n : Sent(noise, r[i]) \in S
  BY <1>1, WordSent DEF S
<1>5. Chunks(r) \in Seq(S) /\ Sent(noise, t) \in S
  <2>1. Chunks(r) = [i \in 1..n |-> Sent(noise, r[i])]
    BY <1>1
  <2>2. [i \in 1..n |-> Sent(noise, r[i])] \in Seq(S)
    BY <1>1, <1>4
  <2> QED BY <2>1, <2>2, WordSent DEF S
<1>6. Chunks(rr) = Append(Chunks(r), Sent(noise, t))
  <2>1. Len(Chunks(r)) = n
    BY <1>1
  <2> DEFINE more == Append(Chunks(r), Sent(noise, t))
  <2>2. more \in Seq(S) /\ Len(more) = n + 1 /\ more[n + 1] = Sent(noise, t)
        /\ \A i \in 1..n : more[i] = Chunks(r)[i]
    <3> HIDE DEF Chunks
    <3> QED BY <1>1, <1>5, <2>1, AppendProperties
  <2>3. DOMAIN more = 1..(n + 1)
    <3> HIDE DEF more
    <3> QED BY <1>1, <2>2
  <2>4. \A i \in 1..n : Chunks(r)[i] = Sent(noise, r[i])
    BY <1>1
  <2>5. more = [i \in 1..(n + 1) |-> more[i]]
    <3> HIDE DEF more
    <3> QED BY <2>2, <2>3
  <2> HIDE DEF more
  <2>6. ASSUME NEW i \in 1..(n + 1) PROVE more[i] = Sent(noise, rr[i])
    <3>1. i = n + 1 \/ i \in 1..n
      BY <1>1
    <3> HIDE DEF Chunks
    <3> QED BY <1>2, <2>2, <2>4, <3>1
  <2>7. Chunks(rr) = [i \in 1..(n + 1) |-> Sent(noise, rr[i])]
    BY <1>2
  <2> HIDE DEF Chunks
  <2>8. Chunks(rr) = more
    BY <2>5, <2>6, <2>7
  <2> QED BY <2>8 DEF more
<1> HIDE DEF Chunks
<1>7. FlattenSeq(Chunks(r)) \in S /\ FlattenSeq(Append(Chunks(r), Sent(noise, t))) = FlattenSeq(Chunks(r)) \o Sent(noise, t)
  BY <1>5, FlattenMore DEF S
<1>8. Streamed(<<>>, noise) = <<>>
  <2> DEFINE none == [i \in DOMAIN <<>> |-> noise \o <<[is |-> "delta", text |-> (<<>>)[i]]>>]
  <2>1. none = <<>>
    OBVIOUS
  <2>2. Len(none) = 0
    BY <2>1
  <2>3. FlattenSeq(none) = none
    <3> HIDE DEF none
    <3> QED BY <2>2 DEF FlattenSeq
  <2> QED BY <2>1, <2>3 DEF Streamed
<1> QED BY <1>3, <1>6, <1>7, <1>8 DEF rr, S

\* What is streamed is said by lines of one kind, and is all of the words.
LEMMA StreamedWords ==
  ASSUME NEW noise, Quiet(noise), NEW kinds, kinds \in {{"delta"}, {"delta", "message"}}
  PROVE  \A r \in Seq(Text) :
           /\ Streamed(r, noise) \in Seq(BodyLine)
           /\ \A i \in DOMAIN Streamed(r, noise) : Streamed(r, noise)[i].is \notin {"done", "error", "[DONE]"}
           /\ FlattenSeq(r) \in Text
           /\ Joined(Streamed(r, noise), kinds, Len(Streamed(r, noise)) + 1) = FlattenSeq(r)
PROOF
<1> DEFINE Closers == {"done", "error", "[DONE]"}
           Silent(s) == s \in Seq(BodyLine) /\ \A i \in DOMAIN s : s[i].is \notin Closers
           Whole(r) == /\ Silent(Streamed(r, noise)) /\ FlattenSeq(r) \in Text
                       /\ Joined(Streamed(r, noise), kinds, Len(Streamed(r, noise)) + 1) = FlattenSeq(r)
           P == {r \in Seq(Text) : Whole(r)}
<1>1. noise \in Seq(BodyLine) /\ (\A i \in DOMAIN noise : noise[i].is \notin kinds) /\ Silent(noise)
  BY DEF Quiet
<1>2. <<>> \in P
  <2>1. Streamed(<<>>, noise) = <<>>
    <3>1. <<>> \in Seq(Text) /\ <<>> \in Text
      BY DEF Text
    <3> QED BY <3>1, StreamedMore
  <2>2. <<>> \in Seq(BodyLine) /\ <<>> \in Seq(Text) /\ <<>> \in Text /\ Len(<<>>) + 1 = 1
    BY DEF Text
  <2>3. FlattenSeq(<<>>) = <<>>
    <3>1. Len(<<>>) = 0
      OBVIOUS
    <3> QED BY <3>1 DEF FlattenSeq
  <2>4. Joined(<<>>, kinds, 1) = <<>>
    BY <2>2, JoinedMore
  <2>5. Silent(<<>>)
    BY <2>2
  <2> HIDE DEF Silent
  <2> QED BY <2>1, <2>2, <2>3, <2>4, <2>5
<1>3. ASSUME NEW r \in Seq(Text), NEW t \in Text, r \in P PROVE Append(r, t) \in P
  <2> DEFINE rr == Append(r, t)
             s == Streamed(r, noise)
             d == [is |-> "delta", text |-> t]
             J(q) == Joined(q, kinds, Len(q) + 1)
  <2>1. Silent(s) /\ FlattenSeq(r) \in Text /\ J(s) = FlattenSeq(r)
    BY <1>3
  <2>2. d \in BodyLine /\ d.is = "delta" /\ d.text = t
    BY WordSent
  <2>3. Streamed(rr, noise) = s \o Append(noise, d)
    BY StreamedMore, WordSent
  <2>4. rr \in Seq(Text)
    BY AppendProperties
  <2>5. FlattenSeq(rr) = FlattenSeq(r) \o t /\ FlattenSeq(rr) \in Text
    <3>1. r \in Seq(Seq(STRING)) /\ t \in Seq(STRING)
      BY DEF Text
    <3>2. FlattenSeq(rr) = FlattenSeq(r) \o t
      BY <3>1, FlattenMore
    <3>3. FlattenSeq(r) \o t \in Seq(STRING)
      BY <2>1, <3>1 DEF Text
    <3> QED BY <3>2, <3>3 DEF Text
  <2> HIDE DEF s, d, rr
  <2>6. s \o Append(noise, d) = Append(s \o noise, d) /\ s \o noise \in Seq(BodyLine)
    <3>1. s \in Seq(BodyLine)
      BY <2>1
    <3>2. Append(noise, d) = noise \o <<d>> /\ <<d>> \in Seq(BodyLine)
      BY <1>1, <2>2, AppendIsConcat
    <3>3. s \o noise \in Seq(BodyLine)
      BY <1>1, <3>1, ConcatProperties
    <3>4. Append(s \o noise, d) = (s \o noise) \o <<d>>
      BY <2>2, <3>3, AppendIsConcat
    <3>5. s \o (noise \o <<d>>) = (s \o noise) \o <<d>>
      BY <1>1, <3>1, <3>2, ConcatAssociative
    <3> QED BY <3>2, <3>3, <3>4, <3>5
  <2>7. J(s \o noise) = J(s)
    BY <1>1, <2>1, JoinedAfter
  <2>8. J(Append(s \o noise, d)) = LineAdds(J(s \o noise), d, kinds)
    BY <2>2, <2>6, JoinedAfter
  <2>9. J(Append(s \o noise, d)) = FlattenSeq(r) \o t
    <3>1. d.is \in kinds
      BY <2>2
    <3> HIDE DEF J
    <3> QED BY <2>1, <2>2, <2>7, <2>8, <3>1 DEF LineAdds
  <2>10. Silent(Append(s \o noise, d))
    <3> DEFINE u == s \o noise
    <3>1. u \in Seq(BodyLine) /\ Len(s) \in Nat /\ Len(noise) \in Nat /\ Len(u) = Len(s) + Len(noise)
          /\ (\A i \in 1..Len(s) : u[i] = s[i])
          /\ \A i \in 1..Len(noise) : u[Len(s) + i] = noise[i]
      BY <1>1, <2>1, ConcatProperties
    <3>2. ASSUME NEW i \in 1..Len(u) PROVE u[i].is \notin Closers
      <4>1. CASE i \in 1..Len(s)
        <5>1. u[i] = s[i]
          BY <3>1, <4>1
        <5> QED BY <2>1, <4>1, <5>1
      <4>2. CASE i \notin 1..Len(s)
        <5>1. i - Len(s) \in 1..Len(noise) /\ Len(s) + (i - Len(s)) = i
          BY <3>1, <4>2
        <5>2. u[i] = noise[i - Len(s)]
          BY <3>1, <5>1
        <5> QED BY <1>1, <5>1, <5>2
      <4> QED BY <4>1, <4>2
    <3> HIDE DEF u
    <3> DEFINE v == Append(u, d)
    <3>3. v \in Seq(BodyLine) /\ Len(v) = Len(u) + 1 /\ (\A i \in 1..Len(u) : v[i] = u[i]) /\ v[Len(u) + 1] = d
      BY <2>2, <3>1, AppendProperties
    <3> HIDE DEF v
    <3>4. ASSUME NEW i \in DOMAIN v PROVE v[i].is \notin Closers
      <4>0. Len(u) \in Nat /\ DOMAIN v = 1..(Len(u) + 1)
        BY <3>1, <3>3
      <4>1. i \in 1..Len(u) \/ i = Len(u) + 1
        BY <4>0
      <4> QED BY <2>2, <3>2, <3>3, <4>1
    <3>5. Silent(v)
      BY <3>3, <3>4
    <3> HIDE DEF Silent
    <3> QED BY <3>5 DEF u, v
  <2> HIDE DEF J, Silent
  <2>11. Whole(rr)
    <3>1. Streamed(rr, noise) = Append(s \o noise, d)
      BY <2>3, <2>6
    <3>2. J(Streamed(rr, noise)) = FlattenSeq(rr)
      BY <2>5, <2>9, <3>1
    <3> QED BY <2>5, <2>10, <3>1, <3>2 DEF J
  <2> HIDE DEF Whole
  <2> QED BY <2>4, <2>11 DEF rr
<1>4. Seq(Text) \subseteq P
  <2> HIDE DEF P
  <2> QED BY <1>2, <1>3, SeqClimb
<1> TAKE r \in Seq(Text)
<1>5. Whole(r)
  <2> HIDE DEF Whole
  <2> QED BY <1>4
<1> QED BY <1>5

LEMMA FirstIs == \A n \in Nat : FirstOf({}, n) = n /\ \A x \in Nat : FirstOf({x}, n) = x
PROOF
<1> TAKE n \in Nat
<1>1. ASSUME NEW x \in Nat PROVE FirstOf({x}, n) = x
  <2>1. \E i \in {x} : \A j \in {x} : i <= j
    OBVIOUS
  <2> DEFINE i == CHOOSE i \in {x} : \A j \in {x} : i <= j
  <2>2. i \in {x}
    BY <2>1
  <2>3. FirstOf({x}, n) = i
    BY DEF FirstOf
  <2> HIDE DEF i
  <2> QED BY <2>2, <2>3
<1> QED BY <1>1 DEF FirstOf

\* The lines of a body: before the end nothing ends it, and all of the words
\* are there.
LEMMA BodyIs ==
  ASSUME NEW r \in Seq(Text), NEW noise, IsNoise(noise), NEW end, IsEnd(end, r)
  PROVE  \E s : /\ s \in Seq(BodyLine) /\ end \in Seq(BodyLine)
                /\ Body(r, noise, end) = s \o end
                /\ \A i \in DOMAIN s : s[i].is \notin {"done", "error", "[DONE]"}
                /\ FlattenSeq(r) \in Text
                /\ Joined(s, {"delta"}, Len(s) + 1) = FlattenSeq(r)
                /\ Joined(s, {"delta", "message"}, Len(s) + 1) = FlattenSeq(r)
PROOF
<1> DEFINE t == Streamed(r, noise)
           s == t \o noise
           Closers == {"done", "error", "[DONE]"}
<1>1. \A l \in Seq(AnswerLine) : l \in Seq(BodyLine)
  <2>1. AnswerLine \subseteq BodyLine
    BY DEF AnswerLine, BodyLine
  <2>2. Seq(AnswerLine) \subseteq Seq(BodyLine)
    <3> HIDE DEF t
    <3> QED BY <2>1
  <2> QED BY <2>2
<1>2. Quiet(noise) /\ noise \in Seq(BodyLine) /\ end \in Seq(BodyLine)
  BY <1>1 DEF IsNoise, IsEnd, Quiet
<1>3. Body(r, noise, end) = s \o end
  BY DEF Body, Streamed
<1>4. /\ t \in Seq(BodyLine) /\ FlattenSeq(r) \in Text
      /\ \A i \in DOMAIN t : t[i].is \notin Closers
      /\ Joined(t, {"delta"}, Len(t) + 1) = FlattenSeq(r)
      /\ Joined(t, {"delta", "message"}, Len(t) + 1) = FlattenSeq(r)
  <2>1. {"delta"} \in {{"delta"}, {"delta", "message"}} /\ {"delta", "message"} \in {{"delta"}, {"delta", "message"}}
    OBVIOUS
  <2> QED BY <1>2, <2>1, StreamedWords
<1> HIDE DEF t
<1>5. /\ s \in Seq(BodyLine) /\ Len(t) \in Nat /\ Len(noise) \in Nat /\ Len(s) = Len(t) + Len(noise)
      /\ (\A i \in 1..Len(t) : s[i] = t[i])
      /\ \A i \in 1..Len(noise) : s[Len(t) + i] = noise[i]
  BY <1>2, <1>4, ConcatProperties
<1> HIDE DEF s
<1>6. ASSUME NEW i \in DOMAIN s PROVE s[i].is \notin Closers
  <2>1. i \in 1..(Len(t) + Len(noise))
    BY <1>5
  <2>2. CASE i \in 1..Len(t)
    <3>1. s[i] = t[i]
      BY <1>5, <2>2
    <3> QED BY <1>4, <2>2, <3>1
  <2>3. CASE i \notin 1..Len(t)
    <3>1. i - Len(t) \in 1..Len(noise) /\ Len(t) + (i - Len(t)) = i
      BY <1>5, <2>1, <2>3
    <3>2. s[i] = noise[i - Len(t)]
      BY <1>5, <3>1
    <3> QED BY <1>2, <3>1, <3>2 DEF Quiet
  <2> QED BY <2>2, <2>3
<1>7. /\ Joined(s, {"delta"}, Len(s) + 1) = FlattenSeq(r)
      /\ Joined(s, {"delta", "message"}, Len(s) + 1) = FlattenSeq(r)
  <2>1. (\A i \in DOMAIN noise : noise[i].is \notin {"delta"}) /\ \A i \in DOMAIN noise : noise[i].is \notin {"delta", "message"}
    BY <1>2 DEF Quiet
  <2> QED BY <1>2, <1>4, <2>1, JoinedAfter DEF s
<1> HIDE DEF Closers
<1>8. \A i \in DOMAIN s : s[i].is \notin Closers
  BY <1>6
<1> QED BY <1>2, <1>3, <1>4, <1>5, <1>7, <1>8 DEF Closers

\* A stream is read to its end: all of the words, or the error.
LEMMA StreamAlwaysRead ==
  ASSUME NEW r \in Seq(Text), NEW noise, IsNoise(noise), NEW end, IsEnd(end, r)
  PROVE  StreamRead(r, noise, end)
PROOF
<1> DEFINE words == FlattenSeq(r)
           lines == Body(r, noise, end)
           Closers == {"done", "error", "[DONE]"}
           D == {"delta"}
           M == {"delta", "message"}
<1>1. PICK s : /\ s \in Seq(BodyLine) /\ end \in Seq(BodyLine)
               /\ lines = s \o end
               /\ \A i \in DOMAIN s : s[i].is \notin Closers
               /\ words \in Text
               /\ Joined(s, D, Len(s) + 1) = words
               /\ Joined(s, M, Len(s) + 1) = words
  BY BodyIs
<1> DEFINE n == Len(s)
<1>2. n \in Nat /\ n \in 0..n /\ DOMAIN s = 1..n
  BY <1>1
<1>3. Len(end) = 0 \/ Len(end) = 1
  <2>1. Len(end) \in Nat /\ Len(end) <= 1
    BY <1>1 DEF IsEnd
  <2>2. \A k \in Nat : k <= 1 => k = 0 \/ k = 1
    OBVIOUS
  <2> QED BY ONLY <2>1, <2>2, Zenon
<1> HIDE DEF words, lines
<1>4. lines \in Seq(BodyLine) /\ Len(lines) = n + Len(end) /\ (\A i \in 1..n : lines[i] = s[i])
      /\ \A i \in 1..Len(end) : lines[n + i] = end[i]
  BY <1>1, ConcatProperties
<1>5. Joined(lines, D, n + 1) = words /\ Joined(lines, M, n + 1) = words
  BY <1>1, <1>2, JoinedPrefix
<1>6. ASSUME NEW K \in {D, M}, \A i \in DOMAIN end : end[i].is \notin K
      PROVE  Joined(lines, K, Len(lines) + 1) = words
  <2>1. Joined(lines, K, Len(lines) + 1) = Joined(s, K, n + 1)
    BY <1>1, <1>6, JoinedAfter
  <2> QED BY <1>1, <1>6, <2>1
<1> HIDE DEF n
<1>7. \A i \in DOMAIN end : end[i].is \notin D /\ end[i].is \notin M
  BY DEF IsEnd
<1>8. Joined(lines, D, Len(lines) + 1) = words /\ Joined(lines, M, Len(lines) + 1) = words
  BY <1>6, <1>7
<1> HIDE DEF D, M
<1> DEFINE Step == ExtractStepAudioText(lines)
           stops == Says(lines, "done") \cup Says(lines, "error")
           e == FirstOf(stops, Len(lines) + 1)
<1>9. CASE Len(end) = 0
  <2>1. \A k \in Closers : Says(lines, k) = {}
    <3>1. DOMAIN lines = 1..n
      BY <1>2, <1>4, <1>9
    <3> QED BY <1>1, <1>2, <1>4, <3>1 DEF Says
  <2>2. stops = {} /\ Says(lines, "[DONE]") = {} /\ Says(lines, "error") = {} /\ Says(lines, "done") = {}
    BY <2>1
  <2>3. FirstOf({}, Len(lines) + 1) = Len(lines) + 1
    BY <1>2, <1>4, <1>9, FirstIs
  <2>4. Step = [ok |-> TRUE, text |-> Trim(words)]
    BY <1>8, <2>2, <2>3 DEF ExtractStepAudioText, D
  <2>5. words # <<>> => ExtractChatText(lines) = Trim(words)
    BY <1>8, <2>2, <2>3 DEF ExtractChatText, M
  <2>6. ~ \E i \in DOMAIN end : end[i].is = "error"
    BY <1>1, <1>9
  <2> QED BY <2>4, <2>5, <2>6 DEF StreamRead, words, lines
<1>10. CASE Len(end) = 1
  <2> DEFINE l == end[1]
  <2>1. 1 \in DOMAIN end /\ DOMAIN end = {1} /\ l.is \in Closers /\ lines[n + 1] = l /\ Len(lines) = n + 1 /\ DOMAIN lines = 1..(n + 1)
        /\ (l.is = "done" => IsBlank(l.text) \/ l.text = words)
    <3>1. DOMAIN end = {1}
      BY <1>1, <1>10
    <3>2. l.is \in Closers /\ (l.is = "done" => IsBlank(l.text) \/ l.text = words)
      BY <3>1 DEF IsEnd, words
    <3>3. Len(lines) = n + 1 /\ lines[n + 1] = l
      BY <1>2, <1>4, <1>10
    <3>4. DOMAIN lines = 1..(n + 1)
      BY <1>4, <3>3
    <3> QED BY <3>1, <3>2, <3>3, <3>4
  <2> HIDE DEF l
  <2>2. \A k \in Closers : Says(lines, k) = IF l.is = k THEN {n + 1} ELSE {}
    <3> TAKE k \in Closers
    <3>1. \A i \in 1..(n + 1) : i = n + 1 \/ i \in 1..n
      BY <1>2
    <3>2. \A i \in 1..n : lines[i].is # k
      BY <1>1, <1>2, <1>4
    <3>3. n + 1 \in 1..(n + 1)
      BY <1>2
    <3> QED BY <2>1, <3>1, <3>2, <3>3 DEF Says
  <2>3. FirstOf({}, Len(lines) + 1) = n + 2 /\ FirstOf({n + 1}, Len(lines) + 1) = n + 1
    <3>1. Len(lines) + 1 = n + 2 /\ n + 1 \in Nat /\ n + 2 \in Nat
      BY <1>2, <2>1
    <3> QED BY <3>1, FirstIs
  <2>4. n + 2 # n + 1 /\ Len(lines) + 1 = n + 2
    BY <1>2, <2>1
  <2>5. "done" \in Closers /\ "error" \in Closers /\ "[DONE]" \in Closers
    OBVIOUS
  <2>6. Says(lines, "done") = (IF l.is = "done" THEN {n + 1} ELSE {}) /\ Says(lines, "error") = (IF l.is = "error" THEN {n + 1} ELSE {})
        /\ Says(lines, "[DONE]") = IF l.is = "[DONE]" THEN {n + 1} ELSE {}
    BY <2>2, <2>5
  <2>7. l.is = "error" => Step = [ok |-> FALSE, text |-> l.text]
    <3>1. HAVE l.is = "error"
    <3>2. Says(lines, "error") = {n + 1} /\ stops = {n + 1}
      BY <2>6, <3>1
    <3> QED BY <2>1, <2>3, <3>2 DEF ExtractStepAudioText
  <2>8. l.is # "error" => Step = [ok |-> TRUE, text |-> Trim(words)]
    <3>1. HAVE l.is # "error"
    <3>2. Says(lines, "error") = {}
      BY <2>6, <3>1
    <3>3. CASE l.is = "done"
      <4>1. stops = {n + 1} /\ Says(lines, "done") = {n + 1}
        BY <2>6, <3>2, <3>3
      <4>2. CASE IsBlank(l.text)
        BY <1>5, <2>1, <2>3, <3>2, <4>1, <4>2 DEF ExtractStepAudioText, D
      <4>3. CASE ~ IsBlank(l.text) /\ l.text = words
        BY <2>1, <2>3, <3>2, <4>1, <4>3 DEF ExtractStepAudioText
      <4> QED BY <2>1, <3>3, <4>2, <4>3
    <3>4. CASE l.is = "[DONE]"
      <4>1. stops = {} /\ Says(lines, "done") = {}
        BY <2>6, <3>2, <3>4
      <4> QED BY <1>8, <2>3, <2>4, <3>2, <4>1 DEF ExtractStepAudioText, D
    <3> QED BY <2>1, <3>1, <3>3, <3>4
  <2>9. words # <<>> => ExtractChatText(lines) = Trim(words)
    <3>1. CASE l.is = "[DONE]"
      <4>1. Says(lines, "[DONE]") = {n + 1}
        BY <2>6, <3>1
      <4> QED BY <1>5, <2>3, <4>1 DEF ExtractChatText, M
    <3>2. CASE l.is # "[DONE]"
      <4>1. Says(lines, "[DONE]") = {}
        BY <2>6, <3>2
      <4> QED BY <1>8, <2>3, <2>4, <4>1 DEF ExtractChatText, M
    <3> QED BY <3>1, <3>2
  <2>10. (\A i \in DOMAIN end : end[i].is # "error") <=> l.is # "error"
    BY <2>1 DEF l
  <2> HIDE DEF Step
  <2>11. (\A i \in DOMAIN end : end[i].is # "error") => Step = [ok |-> TRUE, text |-> Trim(words)]
    BY <2>8, <2>10
  <2>12. (\E i \in DOMAIN end : end[i].is = "error") => ~ Step.ok
    BY <2>7, <2>10
  <2> QED BY <2>9, <2>11, <2>12 DEF StreamRead, words, lines, Step
<1> QED BY <1>3, <1>9, <1>10

(***************************************************************************)
(* A recording                                                             *)
(***************************************************************************)
LEMMA PaddedIs == \A n \in Nat : Padded(n) \in Nat /\ n <= Padded(n)
BY DEF Padded

\* Where the chunks start is a sum.
LEMMA StartSteps ==
  ASSUME NEW chunks \in Seq(RiffChunk)
  PROVE  \E f : /\ f \in [0..Len(chunks) -> Nat] /\ f[0] = 12
                /\ \A i \in 1..Len(chunks) : f[i] = f[i - 1] + 8 + Padded(chunks[i].size)
                /\ \A k \in 1..Len(chunks) : StartOf(chunks, k) = f[k - 1]
PROOF
<1> DEFINE n == Len(chunks)
           S == Nat
           base == 12
           Takes(i) == 8 + Padded(chunks[i].size)
           g == [i \in 1..n |-> [t \in S |-> t + Takes(i)]]
<1>1. n \in Nat /\ \A i \in 1..n : chunks[i] \in RiffChunk
  OBVIOUS
<1> HIDE DEF n
<1>2. \A i \in 1..n : Padded(chunks[i].size) \in Nat /\ Takes(i) \in Nat
  <2> TAKE i \in 1..n
  <2>1. chunks[i].size \in Nat
    BY <1>1 DEF RiffChunk
  <2>2. Padded(chunks[i].size) \in Nat
    BY <2>1, PaddedIs
  <2> QED BY <2>2
<1>3. g \in [1..n -> [S -> S]]
  <2> HIDE DEF Takes
  <2> QED BY <1>2
<1>4. PICK f : f \in [0..n -> S] /\ f[0] = base /\ \A i \in 1..n : f[i] = g[i][f[i - 1]]
  <2>1. base \in S
    OBVIOUS
  <2> HIDE DEF g, base, S
  <2>2. Foldable(S, n, base, g)
    BY <1>1, <1>3, <2>1 DEF Foldable
  <2>3. \E f : FoldOf(f, S, n, base, g)
    BY <2>2, FoldExists
  <2> QED BY <2>3 DEF FoldOf
<1>5. \A i \in 1..n : f[i] = f[i - 1] + 8 + Padded(chunks[i].size)
  <2> TAKE i \in 1..n
  <2>1. i - 1 \in 0..n
    BY <1>1
  <2>2. f[i - 1] \in S
    BY <1>4, <2>1
  <2>3. g[i][f[i - 1]] = f[i - 1] + Takes(i)
    <3> HIDE DEF Takes
    <3> QED BY <2>2
  <2>4. f[i] = f[i - 1] + Takes(i)
    <3> HIDE DEF g, Takes
    <3> QED BY <1>4, <2>3
  <2>5. Padded(chunks[i].size) \in Nat
    BY <1>2
  <2>6. \A a, b \in Nat : a + (8 + b) = a + 8 + b
    OBVIOUS
  <2>7. f[i - 1] + Takes(i) = f[i - 1] + 8 + Padded(chunks[i].size)
    BY <2>2, <2>5, <2>6
  <2> HIDE DEF Takes
  <2> QED BY <2>4, <2>7
<1>6. ASSUME NEW k \in 1..n PROVE StartOf(chunks, k) = f[k - 1]
  <2> DEFINE is(h) == h = [i \in 1..k |-> IF i = 1 THEN 12 ELSE h[i - 1] + 8 + Padded(chunks[i - 1].size)]
             w == CHOOSE h : is(h)
             h == [i \in 1..k |-> f[i - 1]]
  <2>1. is(h)
    <3>1. ASSUME NEW i \in 1..k PROVE h[i] = IF i = 1 THEN 12 ELSE h[i - 1] + 8 + Padded(chunks[i - 1].size)
      <4>1. CASE i = 1
        BY <1>4, <4>1
      <4>2. CASE i # 1
        <5>1. i - 1 \in 1..k /\ i - 1 \in 1..n
          BY <1>1, <4>2
        <5>2. f[i - 1] = f[(i - 1) - 1] + 8 + Padded(chunks[i - 1].size)
          BY <1>5, <5>1
        <5> QED BY <4>2, <5>1, <5>2
      <4> QED BY <4>1, <4>2
    <3>2. h = [i \in 1..k |-> h[i]]
      OBVIOUS
    <3> HIDE DEF h
    <3> QED BY <3>1, <3>2
  <2> HIDE DEF h
  <2>2. is(w)
    <3> HIDE DEF is
    <3> QED BY <2>1
  <2>3. StartOf(chunks, k) = w[k]
    BY DEF StartOf
  <2> HIDE DEF w
  <2>4. \A i \in 1..k : w[i] = IF i = 1 THEN 12 ELSE w[i - 1] + 8 + Padded(chunks[i - 1].size)
    BY <2>2
  <2> DEFINE P == {i \in 0..k : i = 0 \/ w[i] = f[i - 1]}
  <2>5. 0 \in P
    BY <1>1
  <2>6. ASSUME NEW i \in 1..k, i - 1 \in P PROVE i \in P
    <3>1. CASE i = 1
      <4>1. w[i] = 12 /\ f[i - 1] = 12
        BY <1>4, <2>4, <3>1
      <4> QED BY <4>1
    <3>2. CASE i # 1
      <4>1. i - 1 \in 1..n /\ i - 1 # 0
        BY <1>1, <3>2
      <4>2. w[i - 1] = f[(i - 1) - 1]
        BY <2>6, <4>1
      <4>3. w[i] = w[i - 1] + 8 + Padded(chunks[i - 1].size)
        BY <2>4, <3>2
      <4>4. f[i - 1] = f[(i - 1) - 1] + 8 + Padded(chunks[i - 1].size)
        BY <1>5, <4>1
      <4>5. w[i] = f[i - 1]
        BY <4>2, <4>3, <4>4
      <4> QED BY <4>5
    <3> QED BY <3>1, <3>2
  <2>7. \A i \in 0..k : i \in P
    <3>1. k \in Nat
      BY <1>1
    <3> HIDE DEF P
    <3> QED BY <2>5, <2>6, <3>1, Climb
  <2>8. k \in 0..k /\ k # 0
    BY <1>1
  <2>9. k \in P
    <3> HIDE DEF P
    <3> QED BY <2>7, <2>8
  <2>10. w[k] = f[k - 1]
    BY <2>8, <2>9
  <2> QED BY <2>3, <2>10
<1> QED BY <1>4, <1>5, <1>6 DEF n

\* A chunk starts after all of those before it.
LEMMA StartOrder ==
  ASSUME NEW chunks \in Seq(RiffChunk)
  PROVE  /\ \A k \in 1..Len(chunks) : StartOf(chunks, k) \in Nat
         /\ \A j, k \in 1..Len(chunks) : j < k => StartOf(chunks, j) + 8 + chunks[j].size <= StartOf(chunks, k)
PROOF
<1> DEFINE n == Len(chunks)
<1>1. n \in Nat /\ \A i \in 1..n : chunks[i].size \in Nat
  <2>1. n \in Nat /\ \A i \in 1..n : chunks[i] \in RiffChunk
    OBVIOUS
  <2> QED BY <2>1 DEF RiffChunk
<1>2. PICK f : /\ f \in [0..n -> Nat] /\ f[0] = 12
               /\ \A i \in 1..n : f[i] = f[i - 1] + 8 + Padded(chunks[i].size)
               /\ \A k \in 1..n : StartOf(chunks, k) = f[k - 1]
  BY StartSteps
<1> HIDE DEF n
<1>3. \A k \in 1..n : StartOf(chunks, k) \in Nat
  <2> TAKE k \in 1..n
  <2>1. k - 1 \in 0..n
    BY <1>1
  <2> QED BY <1>2, <2>1
<1>4. \A i \in 1..n : f[i - 1] + 8 + chunks[i].size <= f[i]
  <2> TAKE i \in 1..n
  <2>1. i - 1 \in 0..n /\ i \in 0..n
    BY <1>1
  <2>2. f[i - 1] \in Nat /\ f[i] \in Nat /\ chunks[i].size \in Nat /\ Padded(chunks[i].size) \in Nat
        /\ chunks[i].size <= Padded(chunks[i].size)
    BY <1>1, <1>2, <2>1, PaddedIs
  <2>3. f[i] = f[i - 1] + 8 + Padded(chunks[i].size)
    BY <1>2
  <2> QED BY <2>2, <2>3
<1>5. ASSUME NEW j \in 1..n, NEW k \in 1..n, j < k
      PROVE  StartOf(chunks, j) + 8 + chunks[j].size <= StartOf(chunks, k)
  <2> DEFINE P == {i \in 0..n : j <= i => f[j] <= f[i]}
  <2>1. 0 \in P
    BY <1>1
  <2>2. ASSUME NEW i \in 1..n, i - 1 \in P PROVE i \in P
    <3>1. i \in 0..n /\ i - 1 \in 0..n /\ j \in 0..n
      BY <1>1
    <3>2. f[i] \in Nat /\ f[i - 1] \in Nat /\ f[j] \in Nat /\ chunks[i].size \in Nat /\ f[i - 1] + 8 + chunks[i].size <= f[i]
      BY <1>1, <1>2, <1>4, <3>1
    <3>3. f[i - 1] <= f[i]
      BY <3>2
    <3>4. CASE j <= i - 1
      <4>1. f[j] <= f[i - 1]
        BY <2>2, <3>4
      <4>2. f[j] <= f[i]
        BY <3>2, <3>3, <4>1
      <4> QED BY <3>1, <4>2
    <3>5. CASE ~ (j <= i - 1)
      <4>1. j <= i => j = i
        BY <1>1, <3>5
      <4>2. j <= i => f[j] <= f[i]
        BY <3>2, <4>1
      <4> QED BY <3>1, <4>2
    <3> QED BY <3>4, <3>5
  <2>3. \A i \in 0..n : i \in P
    <3> HIDE DEF P
    <3> QED BY <1>1, <2>1, <2>2, Climb
  <2>4. k - 1 \in 0..n /\ j <= k - 1 /\ j \in 0..n /\ j - 1 \in 0..n
    BY <1>1, <1>5
  <2>5. f[j] <= f[k - 1]
    <3>1. k - 1 \in P
      <4> HIDE DEF P
      <4> QED BY <2>3, <2>4
    <3> QED BY <2>4, <3>1
  <2>6. f[j - 1] + 8 + chunks[j].size <= f[j]
    BY <1>4
  <2>7. f[j] \in Nat /\ f[j - 1] \in Nat /\ f[k - 1] \in Nat /\ chunks[j].size \in Nat
    BY <1>1, <1>2, <2>4
  <2>8. f[j - 1] + 8 + chunks[j].size <= f[k - 1]
    BY <2>5, <2>6, <2>7
  <2>9. StartOf(chunks, j) = f[j - 1] /\ StartOf(chunks, k) = f[k - 1]
    BY <1>2
  <2> QED BY <2>8, <2>9
<1> QED BY <1>3, <1>5 DEF n

LEMMA LengthIs ==
  ASSUME NEW wav, IsRecording(wav)
  PROVE  Length(wav) \in Nat /\ Length(wav) > 0
PROOF
<1> DEFINE cs == wav.chunks
           n == Len(cs)
<1>1. cs \in Seq(RiffChunk)
  BY DEF IsRecording
<1>2. CASE cs = <<>>
  BY <1>2 DEF Length
<1>3. CASE cs # <<>>
  <2>1. n \in Nat /\ n \in 1..n /\ cs[n] \in RiffChunk
    BY <1>1, <1>3
  <2>2. StartOf(cs, n) \in Nat /\ cs[n].there \in Nat
    BY <1>1, <2>1, StartOrder DEF RiffChunk
  <2>3. Length(wav) = StartOf(cs, n) + 8 + cs[n].there
    BY <1>3 DEF Length, Last
  <2> HIDE DEF cs, n
  <2> QED BY <2>2, <2>3
<1> QED BY <1>2, <1>3

\* The samples that are sent are those of the first data chunk, as far as the
\* file has them.
LEMMA PayloadIs ==
  ASSUME NEW wav, IsRecording(wav), NEW w \in WavParams(wav)
  PROVE  \E k \in DOMAIN wav.chunks :
           LET c == wav.chunks[k]
           IN  /\ c.id = "data" /\ \A i \in 1..(k - 1) : wav.chunks[i].id # "data"
               /\ c.size \in Nat /\ c.there \in Nat
               /\ w.from \in Nat /\ w.from > 0 /\ w.from = StartOf(wav.chunks, k) + 8
               /\ w.to = w.from + IF c.there < c.size THEN c.there ELSE c.size
               /\ w.to <= Length(wav)
PROOF
<1> DEFINE cs == wav.chunks
           n == Len(cs)
           data == {i \in DOMAIN cs : cs[i].id = "data"}
           k == CHOOSE i \in data : \A j \in data : i <= j
           start == StartOf(cs, k) + 8
           end == IF start + cs[k].size < Length(wav) THEN start + cs[k].size ELSE Length(wav)
<1>1. cs \in Seq(RiffChunk) /\ n \in Nat /\ DOMAIN cs = 1..n /\ \A i \in 1..(n - 1) : cs[i].size <= cs[i].there
  BY DEF IsRecording
<1>2. data # {} /\ \E format : w = [format |-> format, from |-> start, to |-> end]
  BY DEF WavParams
<1>3. w.from = start /\ w.to = end
  <2> HIDE DEF start, end
  <2> QED BY <1>2
<1>4. k \in data /\ \A j \in data : k <= j
  <2>1. data \in SUBSET Nat
    BY <1>1
  <2>2. \E i \in data : \A j \in data : i <= j
    <3> HIDE DEF data
    <3> QED BY <1>2, <2>1, LeastNumber
  <2> HIDE DEF data
  <2> QED BY <2>2
<1> HIDE DEF k, n
<1>5. k \in 1..n /\ cs[k].id = "data"
  BY <1>1, <1>4
<1>6. \A i \in 1..(k - 1) : cs[i].id # "data"
  <2> TAKE i \in 1..(k - 1)
  <2>1. i \in DOMAIN cs /\ ~ (k <= i)
    BY <1>1, <1>5
  <2> QED BY <1>4, <2>1
<1> DEFINE size == cs[k].size
           there == cs[k].there
           at == StartOf(cs, k)
<1>61. \A i \in 1..n : cs[i].size \in Nat /\ cs[i].there \in Nat
  <2>1. \A i \in 1..n : cs[i] \in RiffChunk
    BY <1>1 DEF n
  <2> QED BY <2>1 DEF RiffChunk
<1>7. size \in Nat /\ there \in Nat
  BY <1>5, <1>61
<1>8. at \in Nat
  BY <1>1, <1>5, StartOrder DEF n
<1>9. Length(wav) \in Nat
  BY LengthIs
<1>10. ASSUME k = n PROVE end = (at + 8) + (IF there < size THEN there ELSE size) /\ end <= Length(wav)
  <2>1. Length(wav) = StartOf(cs, n) + 8 + cs[n].there
    <3>1. cs # <<>>
      BY <1>1, <1>5 DEF n
    <3> QED BY <3>1 DEF Length, Last, n
  <2> HIDE DEF cs
  <2>2. Length(wav) = at + 8 + there
    BY <1>10, <2>1
  <2>3. end = (at + 8) + (IF there < size THEN there ELSE size) /\ end <= Length(wav)
    <3> HIDE DEF size, there, at
    <3>1. end = IF at + 8 + size < Length(wav) THEN at + 8 + size ELSE Length(wav)
      BY DEF size, at
    <3> HIDE DEF end
    <3> QED BY <1>7, <1>8, <1>9, <2>2, <3>1
  <2> QED BY <2>3
<1>11. ASSUME k # n PROVE end = (at + 8) + (IF there < size THEN there ELSE size) /\ end <= Length(wav)
  <2>1. n \in 1..n /\ k < n /\ k \in 1..(n - 1)
    BY <1>1, <1>5, <1>11
  <2>2. Length(wav) = StartOf(cs, n) + 8 + cs[n].there
    <3>1. cs # <<>>
      BY <1>1, <1>5 DEF n
    <3> QED BY <3>1 DEF Length, Last, n
  <2>3. at + 8 + size <= StartOf(cs, n) /\ StartOf(cs, n) \in Nat
    BY <1>1, <1>5, <2>1, StartOrder DEF n
  <2>4. size <= there /\ cs[n].there \in Nat
    BY <1>1, <1>61, <2>1
  <2> HIDE DEF cs
  <2>5. end = (at + 8) + (IF there < size THEN there ELSE size) /\ end <= Length(wav)
    <3> HIDE DEF size, there, at
    <3>1. end = IF at + 8 + size < Length(wav) THEN at + 8 + size ELSE Length(wav)
      BY DEF size, at
    <3> HIDE DEF end
    <3>2. at + 8 + size < Length(wav)
      BY <1>7, <1>8, <2>2, <2>3, <2>4
    <3>3. ~ (there < size)
      BY <1>7, <2>4
    <3> QED BY <1>7, <1>8, <1>9, <3>1, <3>2, <3>3
  <2> QED BY <2>5
<1>12. end = start + (IF there < size THEN there ELSE size) /\ end <= Length(wav) /\ start \in Nat /\ start > 0
  <2>1. start = at + 8
    OBVIOUS
  <2> HIDE DEF end, at, size, there, start
  <2> QED BY <1>8, <1>10, <1>11, <2>1
<1> HIDE DEF end, start
<1>13. k \in DOMAIN cs
  BY <1>1, <1>5
<1>14. w.to = w.from + (IF there < size THEN there ELSE size) /\ w.from \in Nat /\ w.from > 0 /\ w.to <= Length(wav)
  BY <1>3, <1>12
<1> QED BY <1>3, <1>5, <1>6, <1>7, <1>13, <1>14 DEF start

LEMMA PayloadAlwaysExact ==
  ASSUME NEW wav, IsRecording(wav)
  PROVE  PayloadExact(wav)
PROOF
<1> SUFFICES ASSUME NEW w \in WavParams(wav)
             PROVE  \E k \in DOMAIN wav.chunks :
                      /\ wav.chunks[k].id = "data" /\ \A i \in 1..(k - 1) : wav.chunks[i].id # "data"
                      /\ w.from = StartOf(wav.chunks, k) + 8
                      /\ w.to - w.from = IF wav.chunks[k].there < wav.chunks[k].size
                                         THEN wav.chunks[k].there ELSE wav.chunks[k].size
  BY DEF PayloadExact
<1>1. PICK k \in DOMAIN wav.chunks :
             LET c == wav.chunks[k]
             IN  /\ c.id = "data" /\ \A i \in 1..(k - 1) : wav.chunks[i].id # "data"
                 /\ c.size \in Nat /\ c.there \in Nat
                 /\ w.from \in Nat /\ w.from > 0 /\ w.from = StartOf(wav.chunks, k) + 8
                 /\ w.to = w.from + IF c.there < c.size THEN c.there ELSE c.size
                 /\ w.to <= Length(wav)
  BY PayloadIs
<1> DEFINE m == IF wav.chunks[k].there < wav.chunks[k].size THEN wav.chunks[k].there ELSE wav.chunks[k].size
<1>2. m \in Nat /\ w.to = w.from + m /\ w.from \in Nat
  BY <1>1
<1>3. w.to - w.from = m
  <2> HIDE DEF m
  <2> QED BY <1>2
<1> QED BY <1>1, <1>3

(***************************************************************************)
(* A call                                                                  *)
(***************************************************************************)
\* The profile that is asked is one of the file, with its defaults.
LEMMA ActiveIs ==
  ASSUME NEW c \in AsrFile, NEW p \in ActiveProfile(NormalizeAsrConfig(c))
  PROVE  \E i \in DOMAIN c.profiles :
           i \in Nat \ {0} /\ c.profiles[i] \in Profile /\ p = NormalizeProfile(c.profiles[i], i)
PROOF
<1> DEFINE cp == c.profiles
           ps == [i \in DOMAIN cp |-> NormalizeProfile(cp[i], i)]
           ids == {ps[i].id : i \in DOMAIN ps}
           active == IF ~IsBlank(c.active) /\ Trim(c.active) \in ids THEN c.active
                     ELSE IF ps = <<>> THEN <<>> ELSE ps[1].id
           found == {i \in DOMAIN ps : ps[i].id = active}
           first == CHOOSE i \in found : \A j \in found : i <= j
           k == IF found = {} THEN 1 ELSE first
<1>1. cp \in Seq(Profile) /\ Len(cp) \in Nat /\ DOMAIN cp = 1..Len(cp) /\ \A i \in DOMAIN cp : cp[i] \in Profile
  BY DEF AsrFile
<1>2. NormalizeAsrConfig(c) = [profiles |-> ps, active |-> active]
  BY DEF NormalizeAsrConfig
<1>3. DOMAIN ps = 1..Len(cp)
  BY <1>1
<1>4. ps # <<>> => 1 \in DOMAIN ps
  BY <1>1, <1>3
<1>5. \A i \in DOMAIN ps : ps[i] = NormalizeProfile(cp[i], i) /\ i \in DOMAIN cp
  OBVIOUS
<1> HIDE DEF active, ps, cp
<1>6. ps # <<>> /\ p = ps[k]
  BY <1>2 DEF ActiveProfile
<1>7. k \in DOMAIN ps
  <2>1. CASE found = {}
    BY <1>4, <1>6, <2>1
  <2>2. CASE found # {}
    <3>1. found \in SUBSET Nat
      BY <1>3, <1>1
    <3>2. \E i \in found : \A j \in found : i <= j
      <4> HIDE DEF found
      <4> QED BY <2>2, <3>1, LeastNumber
    <3>3. first \in found
      <4> HIDE DEF found
      <4> QED BY <3>2
    <3>4. first \in DOMAIN ps
      <4> HIDE DEF first
      <4> QED BY <3>3
    <3> HIDE DEF found, first
    <3> QED BY <2>2, <3>4
  <2> QED BY <2>1, <2>2
<1> HIDE DEF k
<1>8. k \in DOMAIN cp /\ k \in Nat \ {0} /\ cp[k] \in Profile /\ p = NormalizeProfile(cp[k], k)
  BY <1>1, <1>5, <1>6, <1>7
<1> QED BY <1>8 DEF cp

\* What is sent to an endpoint: all of the file, or the samples alone.
LEMMA RequestIs ==
  ASSUME NEW wav, IsRecording(wav), NEW p, NEW r,
         r \in IF p.protocol = "step_audio" THEN Samples16(p, wav) ELSE WholeFile(p, wav)
  PROVE  /\ r.endpoint = AsrEndpoint(p)
         /\ r.from <= r.to /\ r.to <= Length(wav)
         /\ (\A k \in DOMAIN wav.chunks : wav.chunks[k].size > 0 /\ wav.chunks[k].there > 0) => r.from < r.to
         /\ r.from > 0 <=> p.protocol = "step_audio"
PROOF
<1>1. CASE p.protocol = "step_audio"
  <2>1. PICK w \in WavParams(wav) : r = [endpoint |-> AsrEndpoint(p), from |-> w.from, to |-> w.to]
    BY <1>1 DEF Samples16
  <2>2. r.endpoint = AsrEndpoint(p) /\ r.from = w.from /\ r.to = w.to
    BY <2>1
  <2>3. PICK k \in DOMAIN wav.chunks :
             LET c == wav.chunks[k]
             IN  /\ c.id = "data" /\ \A i \in 1..(k - 1) : wav.chunks[i].id # "data"
                 /\ c.size \in Nat /\ c.there \in Nat
                 /\ w.from \in Nat /\ w.from > 0 /\ w.from = StartOf(wav.chunks, k) + 8
                 /\ w.to = w.from + IF c.there < c.size THEN c.there ELSE c.size
                 /\ w.to <= Length(wav)
    BY PayloadIs
  <2> DEFINE size == wav.chunks[k].size
             there == wav.chunks[k].there
             m == IF there < size THEN there ELSE size
  <2>4. size \in Nat /\ there \in Nat /\ w.from \in Nat /\ w.from > 0 /\ w.to = w.from + m /\ w.to <= Length(wav)
    BY <2>3
  <2> HIDE DEF size, there
  <2>5. m \in Nat /\ (size > 0 /\ there > 0 => m > 0)
    BY <2>4
  <2> HIDE DEF m
  <2>6. w.from <= w.to /\ (size > 0 /\ there > 0 => w.from < w.to)
    BY <2>4, <2>5
  <2>7. (\A i \in DOMAIN wav.chunks : wav.chunks[i].size > 0 /\ wav.chunks[i].there > 0) => size > 0 /\ there > 0
    BY <2>3 DEF size, there
  <2> QED BY <1>1, <2>2, <2>4, <2>6, <2>7
<1>2. CASE p.protocol # "step_audio"
  <2>1. r = [endpoint |-> AsrEndpoint(p), from |-> 0, to |-> Length(wav)]
    BY <1>2 DEF WholeFile
  <2>2. r.endpoint = AsrEndpoint(p) /\ r.from = 0 /\ r.to = Length(wav)
    BY <2>1
  <2>3. Length(wav) \in Nat /\ Length(wav) > 0
    BY LengthIs
  <2> QED BY <1>2, <2>2, <2>3
<1> QED BY <1>1, <1>2

\* A call asks an endpoint that is there, of a model of its protocol, and
\* what comes of a call is what the endpoint said.
LEMMA CallAlwaysFaithful ==
  ASSUME NEW c \in AsrFile, NEW wav, IsRecording(wav),
         NEW response \in [success : BOOLEAN, lines : Seq(AnswerLine)]
  PROVE  CallFaithful(c, wav, response)
PROOF
<1> DEFINE asked == Request(NormalizeAsrConfig(c), wav)
           answer == Transcribe(c, wav, response)
           given == \A i \in DOMAIN c.profiles : Trim(c.profiles[i].model) \notin {StepAudioModel, WhisperModel}
           whole == \A k \in DOMAIN wav.chunks : wav.chunks[k].size > 0 /\ wav.chunks[k].there > 0
<1>1. ~ NoAnswer.ok
  BY DEF NoAnswer
<1>2. answer.ok => asked # {} /\ response.success
  <2>1. CASE asked = {}
    <3>1. answer = NoAnswer
      BY <2>1 DEF Transcribe
    <3> HIDE DEF answer
    <3> QED BY <1>1, <3>1
  <2>2. CASE ~ response.success
    <3>1. /\ TranscribeStepAudio(response) = NoAnswer /\ TranscribeChat(response) = NoAnswer
          /\ TranscribeMultipart(response) = NoAnswer
      BY <2>2 DEF TranscribeStepAudio, TranscribeChat, TranscribeMultipart
    <3> HIDE DEF asked
    <3>2. answer = NoAnswer
      <4> DEFINE protocol == (CHOOSE r \in asked : TRUE).endpoint.protocol
      <4>1. answer = IF asked = {} THEN NoAnswer
                     ELSE CASE protocol = "step_audio" -> TranscribeStepAudio(response)
                            [] protocol = "chat_completions" -> TranscribeChat(response)
                            [] OTHER -> TranscribeMultipart(response)
        BY DEF Transcribe, asked
      <4> HIDE DEF protocol, answer
      <4> QED BY <3>1, <4>1
    <3> HIDE DEF answer
    <3> QED BY <1>1, <3>2
  <2> QED BY <2>1, <2>2
<1>3. ASSUME NEW r \in asked
      PROVE  /\ r.endpoint.url # <<>>
             /\ given /\ r.endpoint.model = StepAudioModel => r.endpoint.protocol = "step_audio"
             /\ given /\ r.endpoint.model = WhisperModel => r.endpoint.protocol # "step_audio"
             /\ r.from <= r.to /\ (whole => r.from < r.to) /\ r.to <= Length(wav)
             /\ (r.from > 0) = (r.endpoint.protocol = "step_audio")
  <2>1. PICK p \in ActiveProfile(NormalizeAsrConfig(c)) :
               ~IsBlank(p.url) /\ r \in IF p.protocol = "step_audio" THEN Samples16(p, wav) ELSE WholeFile(p, wav)
    <3> DEFINE AP == ActiveProfile(NormalizeAsrConfig(c))
               Asks(p) == IF p.protocol = "step_audio" THEN Samples16(p, wav) ELSE WholeFile(p, wav)
    <3>1. asked = UNION {Asks(p) : p \in {q \in AP : ~IsBlank(q.url)}}
      BY DEF Request
    <3> HIDE DEF asked, AP, Asks
    <3>2. \E p \in AP : ~IsBlank(p.url) /\ r \in Asks(p)
      BY <1>3, <3>1
    <3> QED BY <3>2 DEF AP, Asks
  <2> HIDE DEF asked, answer
  <2>2. PICK i \in DOMAIN c.profiles :
               i \in Nat \ {0} /\ c.profiles[i] \in Profile /\ p = NormalizeProfile(c.profiles[i], i)
    BY <2>1, ActiveIs
  <2> DEFINE q == c.profiles[i]
  <2>3. /\ ~IsBlank(p.model) /\ p.url = q.url /\ q.url \in Seq(STRING)
        /\ ~IsBlank(q.model) => p.model = q.model
        /\ IsBlank(q.model) => p.model = DefaultAsrModel(p.protocol)
    BY <2>2, ProfileNormalized DEF Profile, Text
  <2>4. given => Trim(q.model) \notin {StepAudioModel, WhisperModel}
    BY <2>2
  <2> HIDE DEF q
  <2>5. /\ r.endpoint = AsrEndpoint(p)
        /\ r.from <= r.to /\ r.to <= Length(wav)
        /\ whole => r.from < r.to
        /\ r.from > 0 <=> p.protocol = "step_audio"
    BY <2>1, RequestIs
  <2> DEFINE m == Trim(p.model)
  <2>6. r.endpoint.url = Trim(p.url) /\ r.endpoint.protocol = p.protocol /\ r.endpoint.model = m
    <3>1. AsrEndpoint(p) = [url |-> Trim(p.url), protocol |-> p.protocol, model |-> m]
      BY <2>3 DEF AsrEndpoint
    <3> QED BY <2>5, <3>1
  <2>11. Trim(p.url) # <<>>
    BY <2>1, <2>3, TrimBlank
  <2>7. m = Trim(q.model) \/ m = DefaultAsrModel(p.protocol)
    <3>1. Trim(DefaultAsrModel(p.protocol)) = DefaultAsrModel(p.protocol)
      BY ModelsNamed DEF DefaultAsrModel
    <3> QED BY <2>3, <3>1
  <2> HIDE DEF m
  <2>8. given /\ m = StepAudioModel => p.protocol = "step_audio"
    BY <2>4, <2>7, ModelsNamed DEF DefaultAsrModel
  <2>9. given /\ m = WhisperModel => p.protocol # "step_audio"
    BY <2>4, <2>7, ModelsNamed DEF DefaultAsrModel
  <2> HIDE DEF given, whole
  <2>10. (r.from > 0) = (r.endpoint.protocol = "step_audio")
    BY <2>5, <2>6
  <2> QED BY <2>5, <2>6, <2>8, <2>9, <2>10, <2>11
<1> HIDE DEF asked, answer
<1> QED BY <1>2, <1>3 DEF CallFaithful, asked, answer

(***************************************************************************)
(* Every transcript                                                        *)
(***************************************************************************)
\* However the endpoint cuts the words, the transcript is all of them, and a
\* StepAudio stream that reports an error has none; what is sent is the recording, or its
\* samples and no byte beside them; and no text comes of what was not asked.
THEOREM TranscriptsWhole == CodecsSpec => []TranscriptWhole
PROOF
<1>1. ASSUME sample \in Samples \cup {Stream} PROVE TranscriptWhole
  <2>1. CASE sample = Stream
    BY <2>1 DEF TranscriptWhole, Stream
  <2>2. CASE sample \in Samples
    <3>1. sample.is = "stream-text" => StreamRead(sample.words, sample.noise, sample.end)
      BY <2>2, SamplesAssumption, StreamAlwaysRead
    <3>2. sample.is = "wav" => PayloadExact(sample.wav)
      BY <2>2, SamplesAssumption, PayloadAlwaysExact
    <3>3. sample.is = "call" => CallFaithful(sample.config, sample.wav, sample.response)
      BY <2>2, SamplesAssumption, CallAlwaysFaithful
    <3> QED BY <3>1, <3>2, <3>3 DEF TranscriptWhole
  <2> QED BY <1>1, <2>1, <2>2
<1> QED BY <1>1, SampleGiven, PTL
=============================================================================
