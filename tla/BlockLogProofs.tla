--------------------------- MODULE BlockLogProofs ---------------------------
(***************************************************************************)
(* Proofs about the block log, for records of any size and number, any     *)
(* number of calls, crashes, I/O errors and power failures.                *)
(***************************************************************************)
EXTENDS BlockLog, TLAPS

----------------------------------------------------------------------------
(* Sequences.                                                              *)

(* Concatenation, under a name of its own: the provers then use the lemmas *)
(* about it instead of its elements.                                       *)
Cat(a, b) == a \o b

(* The elements of a concatenation.                                        *)
LEMMA CatFacts ==
    ASSUME NEW a \in Seq(Nat), NEW b \in Seq(Nat)
    PROVE  /\ Cat(a, b) \in Seq(Nat) /\ Len(Cat(a, b)) = Len(a) + Len(b)
           /\ \A i \in 1..Len(a) : Cat(a, b)[i] = a[i]
           /\ \A i \in 1..Len(b) : Cat(a, b)[Len(a) + i] = b[i]
BY DEF Cat

(* The elements of a part.                                                 *)
LEMMA SubSeqFacts ==
    ASSUME NEW T, NEW s \in Seq(T), NEW i \in Nat \ {0}, NEW j \in Nat, j <= Len(s), i <= j + 1
    PROVE  /\ SubSeq(s, i, j) \in Seq(T) /\ Len(SubSeq(s, i, j)) = j - i + 1
           /\ \A k \in 1..(j - i + 1) : SubSeq(s, i, j)[k] = s[i + k - 1]
<1>1. Len(SubSeq(s, i, j)) = j - i + 1 /\ SubSeq(s, i, j) \in Seq(T)
  OBVIOUS
<1>2. \A k \in 1..(j - i + 1) : SubSeq(s, i, j)[k] = s[i + k - 1]
  OBVIOUS
<1> QED
  BY <1>1, <1>2

(* Sequences with the same elements.                                       *)
LEMMA SameElements ==
    ASSUME NEW T, NEW s \in Seq(T), NEW t \in Seq(T), Len(s) = Len(t),
           \A i \in 1..Len(s) : s[i] = t[i]
    PROVE  s = t
OBVIOUS

(* Concatenation is associative, and has a neutral element.                *)
LEMMA CatAssoc ==
    ASSUME NEW a \in Seq(Nat), NEW b \in Seq(Nat), NEW c \in Seq(Nat)
    PROVE  Cat(Cat(a, b), c) = Cat(a, Cat(b, c)) /\ Cat(a, <<>>) = a
<1> DEFINE s == (a \o b) \o c
           t == a \o (b \o c)
<1>1. s \in Seq(Nat) /\ t \in Seq(Nat) /\ Len(s) = Len(t) /\ Len(s) = Len(a) + Len(b) + Len(c)
  OBVIOUS
<1>2. ASSUME NEW i \in 1..Len(s) PROVE s[i] = t[i]
  OBVIOUS
<1> HIDE DEF s, t
<1>3. s = t
  BY <1>1, <1>2, SameElements
<1>4. a \o <<>> = a
  OBVIOUS
<1> QED
  BY <1>3, <1>4 DEF s, t, Cat

(* A prefix that reaches into the second of two.                           *)
LEMMA LongPrefix ==
    ASSUME NEW a \in Seq(Nat), NEW b \in Seq(Nat), NEW n \in 0..Len(b)
    PROVE  SubSeq(a \o b, 1, Len(a) + n) = a \o SubSeq(b, 1, n)
<1> DEFINE s == SubSeq(a \o b, 1, Len(a) + n)
           t == a \o SubSeq(b, 1, n)
<1>1. s \in Seq(Nat) /\ t \in Seq(Nat) /\ Len(s) = Len(t) /\ Len(s) = Len(a) + n
  OBVIOUS
<1>2. ASSUME NEW i \in 1..Len(s) PROVE s[i] = t[i]
  <2>1. CASE i <= Len(a)
    BY <2>1
  <2>2. CASE ~(i <= Len(a))
    <3> DEFINE c == SubSeq(b, 1, n)
               j == i - Len(a)
    <3>1. c \in Seq(Nat) /\ Len(c) = n /\ j \in 1..n /\ i = Len(a) + j
      BY <1>1, <2>2
    <3>2. c[j] = b[j] /\ j \in 1..Len(b)
      BY <3>1
    <3>3. s[i] = (a \o b)[i]
      BY <1>1
    <3>4. (a \o b)[i] = b[j]
      BY <3>1, <3>2
    <3> HIDE DEF c, j
    <3>5. (a \o c)[i] = c[j]
      BY <3>1
    <3> QED
      BY <3>2, <3>3, <3>4, <3>5 DEF c
  <2> QED
    BY <2>1, <2>2
<1> HIDE DEF s, t
<1>3. s = t
  BY <1>1, <1>2, SameElements
<1> QED
  BY <1>3 DEF s, t

(* A prefix that ends in the first of two, and one that reaches into the   *)
(* second.                                                                 *)
LEMMA CatPrefix ==
    ASSUME NEW a \in Seq(Nat), NEW b \in Seq(Nat)
    PROVE  /\ \A n \in 0..Len(a) : SubSeq(Cat(a, b), 1, n) = SubSeq(a, 1, n)
           /\ \A n \in 0..Len(b) :
                SubSeq(Cat(a, b), 1, Len(a) + n) = Cat(a, SubSeq(b, 1, n))
<1>1. ASSUME NEW n \in 0..Len(a) PROVE SubSeq(a \o b, 1, n) = SubSeq(a, 1, n)
  OBVIOUS
<1> QED
  BY <1>1, LongPrefix DEF Cat

(* A prefix of a prefix.                                                   *)
LEMMA SubSeqTwice ==
    ASSUME NEW T, NEW s \in Seq(T), NEW n \in 0..Len(s), NEW m \in 0..n
    PROVE  SubSeq(SubSeq(s, 1, n), 1, m) = SubSeq(s, 1, m)
OBVIOUS

----------------------------------------------------------------------------
(* Framing.                                                                *)

(* Payloads are not empty.                                                 *)
LEMMA RecordFacts ==
    ASSUME NEW r \in Record
    PROVE  r \in Seq(Nat) /\ Len(r) \in Nat \ {0} /\ Base \in Nat \ {0}
<1>1. r \in Seq(0..(Base - 1)) /\ r # <<>> /\ Base \in Nat \ {0}
  BY LogAssumption
<1>2. r \in Seq(Nat)
  BY <1>1
<1> QED
  BY <1>1, <1>2

(* A length is read back from its two digits.                              *)
LEMMA DivMod ==
    ASSUME NEW n \in Nat, NEW b \in Nat \ {0}
    PROVE  n \div b \in Nat /\ n % b \in Nat /\ (n \div b) * b + (n % b) = n
OBVIOUS

(* What two digits say.                                                    *)
LEMMA SizeType == \A x, y, z \in Nat : x * y + z \in Nat
OBVIOUS

(* A frame.                                                                *)
LEMMA FrameFacts ==
    ASSUME NEW r \in Record
    PROVE  /\ Header(r) \in Seq(Nat) /\ Len(Header(r)) = 2
           /\ Frame(r) \in Seq(Nat) /\ Len(Frame(r)) = Len(r) + 2
           /\ Frame(r)[1] * Base + Frame(r)[2] = Len(r)
           /\ \A i \in 1..Len(r) : Frame(r)[i + 2] = r[i]
<1>1. r \in Seq(Nat) /\ Len(r) \in Nat /\ Base \in Nat \ {0}
  BY RecordFacts
<1>2. /\ Len(r) \div Base \in Nat /\ Len(r) % Base \in Nat
      /\ (Len(r) \div Base) * Base + (Len(r) % Base) = Len(r)
  BY <1>1, DivMod
<1> DEFINE h == Header(r)
<1>3. h \in Seq(Nat) /\ Len(h) = 2 /\ h[1] = Len(r) \div Base /\ h[2] = Len(r) % Base
  BY <1>2 DEF Header
<1> HIDE DEF h
<1>4. /\ h \o r \in Seq(Nat) /\ Len(h \o r) = 2 + Len(r)
      /\ (h \o r)[1] = h[1] /\ (h \o r)[2] = h[2]
      /\ \A i \in 1..Len(r) : (h \o r)[2 + i] = r[i]
  <2>1. /\ h \o r \in Seq(Nat) /\ Len(h \o r) = Len(h) + Len(r)
        /\ \A i \in 1..Len(h) : (h \o r)[i] = h[i]
        /\ \A i \in 1..Len(r) : (h \o r)[Len(h) + i] = r[i]
    <3>1. h \in Seq(Nat) /\ r \in Seq(Nat)
      BY <1>1, <1>3
    <3> QED
      BY <3>1
  <2>2. 1 \in 1..Len(h) /\ 2 \in 1..Len(h)
    BY <1>3
  <2> QED
    BY <1>3, <2>1, <2>2
<1> DEFINE f == h \o r
<1>5. Frame(r) = f /\ Header(r) = h
  BY DEF Frame, h
<1>6. /\ f \in Seq(Nat) /\ Len(f) = Len(r) + 2 /\ f[1] = h[1] /\ f[2] = h[2]
      /\ \A i \in 1..Len(r) : f[i + 2] = r[i]
  <2> HIDE DEF f
  <2>1. \A i \in 1..Len(r) : 2 + i = i + 2
    BY <1>1
  <2> QED
    BY <1>1, <1>4, <2>1 DEF f
<1> HIDE DEF f
<1>7. f[1] * Base + f[2] = Len(r)
  BY <1>2, <1>3, <1>6
<1> QED
  BY <1>3, <1>5, <1>6, <1>7

ReadDef(bytes, f, i) ==
    LET n == Len(bytes)
        len == bytes[i] * Base + bytes[i + 1]
    IN  IF i + 1 > n THEN [ok |-> TRUE, records |-> <<>>]
        ELSE IF i + 1 + len > n THEN [ok |-> FALSE, records |-> <<>>]
        ELSE [f[i + 2 + len] EXCEPT !.records = <<SubSeq(bytes, i + 2, i + 1 + len)>> \o @]

Reading == INSTANCE Recursion WITH Def <- ReadDef

(* The encoding as an instance of Folding, without parameter and sum.      *)
EncodeStep(p, bytes, r) == EncodeNext(bytes, r)

NoSum(p, x) == 0

Encoding == INSTANCE Folding WITH op <- EncodeStep, val <- NoSum

(* The encoding grows by one frame at a time.                              *)
LEMMA EncodeFacts ==
    /\ Encode(<<>>) = <<>>
    /\ \A rs \in Seq(Record), r \in Record : Encode(Append(rs, r)) = Cat(Encode(rs), Frame(r))
<1>1. \A rs : Encode(rs) = Encoding!Fold(0, <<>>, rs)
  BY DEF Encode, Encoding!Fold, EncodeStep, FoldLeft, MapThenFoldSet, Encoding!FoldLeft,
         Encoding!MapThenFoldSet, Encoding!Max, Max
<1>2. Encoding!Fold(0, <<>>, <<>>) = <<>>
  BY Encoding!FoldEmpty
<1>3. ASSUME NEW rs \in Seq(Record), NEW r \in Record
      PROVE  Encoding!Fold(0, <<>>, Append(rs, r)) = Cat(Encoding!Fold(0, <<>>, rs), Frame(r))
  <2>1. Encoding!Fold(0, <<>>, Append(rs, r)) = EncodeNext(Encoding!Fold(0, <<>>, rs), r)
    BY Encoding!FoldAppend DEF EncodeStep
  <2> QED
    BY <2>1 DEF EncodeNext, Cat
<1> QED
  BY <1>1, <1>2, <1>3

(* The bytes of the first k records.                                       *)
First(rs, k) == Encode(SubSeq(rs, 1, k))

(* One record after the other.                                             *)
LEMMA FirstFacts ==
    ASSUME NEW rs \in Seq(Record)
    PROVE  /\ First(rs, 0) = <<>> /\ First(rs, Len(rs)) = Encode(rs)
           /\ \A k \in 0..(Len(rs) - 1) :
                First(rs, k + 1) = Cat(First(rs, k), Frame(rs[k + 1])) /\ rs[k + 1] \in Record
           /\ \A k \in 0..Len(rs) : First(rs, k) \in Seq(Nat)
<1> DEFINE n == Len(rs)
           T == {k \in Nat : k <= n => First(rs, k) \in Seq(Nat)}
<1>1. SubSeq(rs, 1, 0) = <<>> /\ SubSeq(rs, 1, n) = rs /\ n \in Nat
  OBVIOUS
<1>2. First(rs, 0) = <<>> /\ First(rs, n) = Encode(rs)
  BY <1>1, EncodeFacts DEF First
<1>3. ASSUME NEW k \in 0..(n - 1)
      PROVE  First(rs, k + 1) = Cat(First(rs, k), Frame(rs[k + 1])) /\ rs[k + 1] \in Record
  <2>1. SubSeq(rs, 1, k + 1) = Append(SubSeq(rs, 1, k), rs[k + 1])
    OBVIOUS
  <2>2. SubSeq(rs, 1, k) \in Seq(Record) /\ rs[k + 1] \in Record
    OBVIOUS
  <2> QED
    BY <2>1, <2>2, EncodeFacts DEF First
<1>4. 0 \in T
  <2>1. <<>> \in Seq(Nat)
    OBVIOUS
  <2> QED
    BY <1>2, <2>1
<1>5. ASSUME NEW k \in Nat, k \in T PROVE k + 1 \in T
  <2> SUFFICES ASSUME k + 1 <= n PROVE First(rs, k + 1) \in Seq(Nat)
    OBVIOUS
  <2>1. k \in 0..(n - 1) /\ First(rs, k) \in Seq(Nat)
    BY <1>5
  <2>2. Frame(rs[k + 1]) \in Seq(Nat)
    BY <1>3, <2>1, FrameFacts
  <2> QED
    BY <1>3, <2>1, <2>2, CatFacts
<1>6. \A k \in Nat : k \in T
  <2> HIDE DEF T
  <2> QED
    BY <1>4, <1>5, Reading!NatInSet
<1> QED
  BY <1>2, <1>3, <1>6

(* f is the function read of read_all.                                     *)
Reads(f, bytes) == \A i \in 1..(Len(bytes) + 1) : f[i] = ReadDef(bytes, f, i)

Result(ok, rs) == [ok |-> ok, records |-> rs]

(* read_all, as an equation.                                               *)
LEMMA ReadEquation ==
    ASSUME NEW bytes \in Seq(Nat)
    PROVE  \E f : ReadAll(bytes) = f[1] /\ Reads(f, bytes)
<1> DEFINE n == Len(bytes)
           S == 1..(n + 1)
           rank == [i \in S |-> n + 1 - i]
           f == Reading!Rec(bytes, S)
<1>1. n \in Nat /\ Base \in Nat /\ \A i \in 1..n : bytes[i] \in Nat
  BY LogAssumption
<1>2. rank \in [S -> Nat]
  BY <1>1
<1>3. Reading!Descends(bytes, S, rank)
  <2> SUFFICES ASSUME NEW g, NEW h, NEW i \in S,
                      \A y \in S : rank[y] < rank[i] => g[y] = h[y]
               PROVE  ReadDef(bytes, g, i) = ReadDef(bytes, h, i)
    BY DEF Reading!Descends
  <2> DEFINE len == bytes[i] * Base + bytes[i + 1]
  <2>1. ASSUME ~(i + 1 > n), ~(i + 1 + len > n) PROVE g[i + 2 + len] = h[i + 2 + len]
    <3>1. bytes[i] \in Nat /\ bytes[i + 1] \in Nat /\ i \in Nat
      BY <1>1, <2>1
    <3>2. len \in Nat
      BY <1>1, <3>1
    <3> HIDE DEF len
    <3>3. i + 2 + len \in S /\ rank[i + 2 + len] < rank[i]
      BY <1>1, <2>1, <3>1, <3>2
    <3> QED
      BY <3>3
  <2> HIDE DEF rank, S
  <2> QED
    BY <2>1 DEF ReadDef
<1>4. PICK r \in [S -> Nat] : Reading!Descends(bytes, S, r)
  <2> HIDE DEF rank, S
  <2> QED
    BY <1>2, <1>3
<1>5. \A i \in S : f[i] = ReadDef(bytes, f, i)
  <2> HIDE DEF rank, S
  <2> QED
    BY <1>4, Reading!RecEquation
<1>6. ReadAll(bytes) = f[1]
  BY DEF ReadAll, Reading!Rec, ReadDef
<1> HIDE DEF f
<1> QED
  BY <1>5, <1>6 DEF Reads

(* The beginning of a frame, cut short.                                    *)
IsPart(part) ==
    \/ part = <<>>
    \/ \E r \in Record : \E m \in 0..(Len(r) + 1) : part = SubSeq(Frame(r), 1, m)

(* A part is shorter than its frame, and a part of a part is one.          *)
LEMMA PartFacts ==
    ASSUME NEW part, IsPart(part)
    PROVE  /\ part \in Seq(Nat)
           /\ \A n \in 0..Len(part) : IsPart(SubSeq(part, 1, n))
           /\ Len(part) >= 2 => part[1] * Base + part[2] + 2 > Len(part)
<1>1. CASE part = <<>>
  <2>1. part \in Seq(Nat) /\ Len(part) = 0
    BY <1>1
  <2>2. \A n \in 0..Len(part) : SubSeq(part, 1, n) = <<>>
    BY <1>1
  <2> QED
    BY <2>1, <2>2 DEF IsPart
<1>2. CASE part # <<>>
  <2>0. PICK r \in Record : \E m \in 0..(Len(r) + 1) : part = SubSeq(Frame(r), 1, m)
    BY <1>2 DEF IsPart
  <2>1. PICK m \in 0..(Len(r) + 1) : part = SubSeq(Frame(r), 1, m)
    BY <2>0
  <2> DEFINE f == Frame(r)
  <2>2. /\ f \in Seq(Nat) /\ Len(f) = Len(r) + 2 /\ Len(r) \in Nat
        /\ f[1] * Base + f[2] = Len(r)
    BY FrameFacts, RecordFacts
  <2>3. part = SubSeq(f, 1, m)
    BY <2>1
  <2> HIDE DEF f
  <2>4. part \in Seq(Nat) /\ Len(part) = m /\ \A i \in 1..m : part[i] = f[i]
    BY <2>2, <2>3
  <2>5. ASSUME NEW n \in 0..Len(part) PROVE IsPart(SubSeq(part, 1, n))
    <3>1. SubSeq(part, 1, n) = SubSeq(f, 1, n) /\ n \in 0..(Len(r) + 1)
      BY <2>2, <2>3, <2>4
    <3> QED
      BY <3>1 DEF IsPart, f
  <2>6. ASSUME Len(part) >= 2 PROVE part[1] * Base + part[2] + 2 > Len(part)
    <3>1. part[1] = f[1] /\ part[2] = f[2]
      BY <2>4, <2>6
    <3> QED
      BY <2>2, <2>4, <3>1
  <2> QED
    BY <2>4, <2>5, <2>6
<1> QED
  BY <1>1, <1>2

(* Reading ends at a record cut short, with an error or not.               *)
LEMMA ReadEnds ==
    ASSUME NEW e \in Seq(Nat), NEW part, IsPart(part), NEW f, Reads(f, Cat(e, part))
    PROVE  \E o : f[Len(e) + 1] = [ok |-> o, records |-> <<>>] /\ (part = <<>> => o = TRUE)
<1> DEFINE b == Cat(e, part)
           n == Len(b)
           i == Len(e) + 1
<1>1. part \in Seq(Nat) /\ Len(part) \in Nat /\ Len(e) \in Nat
  BY PartFacts
<1>2. /\ n = Len(e) + Len(part) /\ i \in 1..(n + 1) /\ n \in Nat
      /\ \A k \in 1..Len(part) : b[Len(e) + k] = part[k]
  <2>1. /\ Len(b) = Len(e) + Len(part)
        /\ \A k \in 1..Len(part) : b[Len(e) + k] = part[k]
    BY <1>1, CatFacts
  <2> HIDE DEF b
  <2> QED
    BY <1>1, <2>1
<1>3. f[i] = ReadDef(b, f, i)
  BY <1>2 DEF Reads
<1> HIDE DEF b, n
<1>4. CASE Len(part) < 2
  <2>1. i + 1 > n
    BY <1>1, <1>2, <1>4
  <2>2. f[i] = [ok |-> TRUE, records |-> <<>>]
    BY <1>3, <2>1 DEF ReadDef, n
  <2> QED
    BY <2>2
<1>5. CASE Len(part) >= 2
  <2>1. b[i] = part[1] /\ b[i + 1] = part[2]
    BY <1>1, <1>2, <1>5
  <2>2. part[1] * Base + part[2] + 2 > Len(part)
    BY <1>5, PartFacts
  <2>3. part[1] * Base + part[2] \in Nat
    <3>1. part[1] \in Nat /\ part[2] \in Nat
      BY <1>1, <1>5
    <3>2. Base \in Nat
      BY LogAssumption
    <3> QED
      BY <3>1, <3>2, SizeType
  <2> DEFINE len == part[1] * Base + part[2]
  <2>4. len = b[i] * Base + b[i + 1]
    BY <2>1
  <2> HIDE DEF len
  <2>5. ~(i + 1 > n) /\ i + 1 + len > n
    <3>1. len \in Nat /\ len + 2 > Len(part)
      BY <2>2, <2>3 DEF len
    <3> QED
      BY <1>1, <1>2, <1>5, <3>1
  <2>6. f[i] = [ok |-> FALSE, records |-> <<>>]
    BY <1>3, <2>4, <2>5 DEF ReadDef, n
  <2>7. part # <<>>
    BY <1>5
  <2> QED
    BY <2>6, <2>7
<1>6. Len(part) < 2 \/ Len(part) >= 2
  BY <1>1
<1> QED
  BY <1>4, <1>5, <1>6

(* A frame is in b behind its first n bytes.                               *)
HasFrame(b, n, r) ==
    /\ n + Len(Frame(r)) <= Len(b)
    /\ \A m \in 1..Len(Frame(r)) : b[n + m] = Frame(r)[m]

(* Where it was put.                                                       *)
LEMMA FrameIsThere ==
    ASSUME NEW e \in Seq(Nat), NEW g \in Seq(Nat), NEW rest \in Seq(Nat)
    PROVE  /\ Len(Cat(e, g)) = Len(e) + Len(g)
           /\ Len(e) + Len(g) <= Len(Cat(Cat(e, g), rest))
           /\ \A m \in 1..Len(g) : Cat(Cat(e, g), rest)[Len(e) + m] = g[m]
BY DEF Cat

(* f says that reading from i returns o and rs.                            *)
From(f, i, o, rs) == f[i] = Result(o, rs)

(* A complete record is in b from i until before j.                        *)
Between(b, i, j, r) ==
    r \in Record /\ \E n \in Nat : HasFrame(b, n, r) /\ i = n + 1 /\ j = n + Len(Frame(r)) + 1

(* Reading a complete record.                                              *)
LEMMA ReadsFrame ==
    ASSUME NEW b \in Seq(Nat), NEW i, NEW j, NEW r, Between(b, i, j, r),
           NEW f, Reads(f, b), NEW o, NEW rest, From(f, j, o, rest)
    PROVE  From(f, i, o, Cat(<<r>>, rest))
<1>0. PICK n \in Nat : HasFrame(b, n, r) /\ i = n + 1 /\ j = n + Len(Frame(r)) + 1
  BY DEF Between
<1> r \in Record
  BY DEF Between
<1> DEFINE g == Frame(r)
           k == Len(r)
<1>1. /\ g \in Seq(Nat) /\ Len(g) = k + 2 /\ k \in Nat /\ r \in Seq(Nat)
      /\ g[1] * Base + g[2] = k
      /\ \A m \in 1..k : g[m + 2] = r[m]
  BY FrameFacts, RecordFacts
<1>2. n + (k + 2) <= Len(b) /\ \A m \in 1..(k + 2) : b[n + m] = g[m]
  BY <1>0, <1>1 DEF HasFrame
<1> HIDE DEF g, k
<1>3. b[i] = g[1] /\ b[i + 1] = g[2]
  <2>1. 1 \in 1..(k + 2) /\ 2 \in 1..(k + 2) /\ i + 1 = n + 2 /\ i = n + 1
    BY <1>0, <1>1
  <2> QED
    BY <1>2, <2>1
<1>4. b[i] * Base + b[i + 1] = k
  BY <1>1, <1>3
<1>5. SubSeq(b, i + 2, i + 1 + k) = r
  <2> DEFINE lo == i + 2
             hi == i + 1 + k
             s == SubSeq(b, lo, hi)
  <2>1. hi - lo + 1 = k /\ lo \in Nat \ {0} /\ hi \in Nat /\ hi <= Len(b) /\ lo <= hi + 1
    <3>1. k \in Nat /\ n + (k + 2) <= Len(b) /\ Len(b) \in Nat
      BY <1>1, <1>2
    <3> QED
      BY <1>0, <3>1
  <2>2. \A m \in 1..k : lo + m - 1 = n + (m + 2) /\ m + 2 \in 1..(k + 2)
    BY <1>0, <1>1
  <2> HIDE DEF lo, hi
  <2>3. s \in Seq(Nat) /\ Len(s) = k /\ \A m \in 1..k : s[m] = b[lo + m - 1]
    BY <2>1, SubSeqFacts
  <2> HIDE DEF s
  <2>4. ASSUME NEW m \in 1..k PROVE s[m] = r[m]
    BY <1>1, <1>2, <2>2, <2>3
  <2>5. Len(r) = k
    BY DEF k
  <2>6. s = r
    BY <1>1, <2>3, <2>4, <2>5, SameElements
  <2> QED
    BY <2>6 DEF s, lo, hi
<1>6. /\ ~(i + 1 > Len(b)) /\ ~(i + 1 + k > Len(b)) /\ i \in 1..(Len(b) + 1)
      /\ i + 2 + k = j
  <2> DEFINE size == Len(b)
             l == Len(g)
  <2>1. size \in Nat /\ l = k + 2 /\ k \in Nat /\ n + (k + 2) <= size
    BY <1>1, <1>2
  <2> HIDE DEF size, l
  <2>2. ~(i + 1 > size) /\ ~(i + 1 + k > size) /\ i \in 1..(size + 1) /\ i + 2 + k = n + l + 1
    BY <1>0, <2>1
  <2> QED
    BY <1>0, <2>2 DEF size, l, g
<1>7. f[i] = ReadDef(b, f, i)
  BY <1>6 DEF Reads
<1>8. f[i] = [f[i + 2 + k] EXCEPT !.records = <<SubSeq(b, i + 2, i + 1 + k)>> \o @]
  BY <1>4, <1>6, <1>7 DEF ReadDef
<1>9. f[i + 2 + k] = [ok |-> o, records |-> rest]
  BY <1>6 DEF From, Result
<1>10. f[i] = [ok |-> o, records |-> <<r>> \o rest]
  <2> DEFINE x == [ok |-> o, records |-> rest]
             u == <<r>> \o rest
  <2>1. x.records = rest
    OBVIOUS
  <2>2. f[i] = [x EXCEPT !.records = u]
    <3> HIDE DEF x
    <3> QED
      BY <1>5, <1>8, <1>9, <2>1 DEF x
  <2> HIDE DEF u
  <2> QED
    BY <2>2 DEF u
<1> QED
  BY <1>10 DEF Cat, Result, From

(* A log: the records and what a record cut short left.                    *)
IsLog(bytes, rs, part) ==
    rs \in Seq(Record) /\ IsPart(part) /\ bytes = Cat(Encode(rs), part)

(* A log begins with each number of its records.                           *)
LEMMA LogBegins ==
    ASSUME NEW bytes, NEW rs, NEW part, IsLog(bytes, rs, part)
    PROVE  /\ bytes \in Seq(Nat)
           /\ \A k \in 0..Len(rs) : \E rest \in Seq(Nat) : bytes = Cat(First(rs, k), rest)
<1> DEFINE n == Len(rs)
           T == {j \in Nat : j <= n => \E rest \in Seq(Nat) : bytes = Cat(First(rs, n - j), rest)}
<1>1. rs \in Seq(Record) /\ part \in Seq(Nat) /\ n \in Nat /\ bytes = Cat(Encode(rs), part)
  BY PartFacts DEF IsLog
<1>2. /\ First(rs, n) = Encode(rs)
      /\ \A k \in 0..(n - 1) :
           First(rs, k + 1) = Cat(First(rs, k), Frame(rs[k + 1])) /\ rs[k + 1] \in Record
      /\ \A k \in 0..n : First(rs, k) \in Seq(Nat)
  BY <1>1, FirstFacts
<1> HIDE DEF n
<1>3. 0 \in T
  <2>1. bytes = Cat(First(rs, n - 0), part)
    BY <1>1, <1>2
  <2> QED
    BY <1>1, <2>1
<1>4. ASSUME NEW j \in Nat, j \in T PROVE j + 1 \in T
  <2> SUFFICES ASSUME j + 1 <= n
               PROVE  \E rest \in Seq(Nat) : bytes = Cat(First(rs, n - (j + 1)), rest)
    OBVIOUS
  <2> DEFINE k == n - (j + 1)
             e == First(rs, k)
             g == Frame(rs[k + 1])
  <2>1. k \in 0..(n - 1) /\ k + 1 = n - j /\ k \in 0..n
    BY <1>1
  <2>2. PICK rest \in Seq(Nat) : bytes = Cat(First(rs, k + 1), rest)
    <3>1. \E rest \in Seq(Nat) : bytes = Cat(First(rs, n - j), rest)
      BY <1>1, <1>4
    <3> HIDE DEF k
    <3> QED
      BY <2>1, <3>1
  <2>3. e \in Seq(Nat) /\ First(rs, k + 1) = Cat(e, g) /\ rs[k + 1] \in Record
    BY <1>2, <2>1
  <2>4. g \in Seq(Nat)
    BY <2>3, FrameFacts
  <2> HIDE DEF e, g
  <2>5. bytes = Cat(e, Cat(g, rest)) /\ Cat(g, rest) \in Seq(Nat)
    <3>1. Cat(Cat(e, g), rest) = Cat(e, Cat(g, rest))
      BY <2>3, <2>4, CatAssoc
    <3>2. Cat(g, rest) \in Seq(Nat)
      BY <2>4, CatFacts
    <3> QED
      BY <2>2, <2>3, <3>1, <3>2
  <2> QED
    BY <2>5 DEF e
<1>5. \A j \in Nat : j \in T
  <2> HIDE DEF T
  <2> QED
    BY <1>3, <1>4, Reading!NatInSet
<1>6. ASSUME NEW k \in 0..n PROVE \E rest \in Seq(Nat) : bytes = Cat(First(rs, k), rest)
  <2>1. n - k \in Nat /\ n - k <= n /\ n - (n - k) = k
    BY <1>1
  <2>2. n - k \in T
    BY <1>5, <2>1
  <2> QED
    BY <2>1, <2>2
<1>7. bytes \in Seq(Nat)
  <2> DEFINE e == Encode(rs)
  <2>1. e \in Seq(Nat)
    <3>1. n \in 0..n
      BY <1>1
    <3> QED
      BY <1>2, <3>1
  <2> HIDE DEF e
  <2>2. Cat(e, part) \in Seq(Nat)
    BY <1>1, <2>1, CatFacts
  <2> QED
    BY <1>1, <2>2 DEF e
<1> QED
  BY <1>6, <1>7 DEF n

(* Where the frames are.                                                   *)
LEMMA LogFrames ==
    ASSUME NEW bytes, NEW rs, NEW part, IsLog(bytes, rs, part), NEW k \in 0..(Len(rs) - 1)
    PROVE  /\ First(rs, k) \in Seq(Nat) /\ Len(First(rs, k)) \in Nat
           /\ HasFrame(bytes, Len(First(rs, k)), rs[k + 1])
           /\ Len(First(rs, k + 1)) = Len(First(rs, k)) + Len(Frame(rs[k + 1]))
<1> DEFINE e == First(rs, k)
           g == Frame(rs[k + 1])
<1>1. rs \in Seq(Record) /\ Len(rs) \in Nat
  BY DEF IsLog
<1>2. k \in 0..Len(rs) /\ k + 1 \in 0..Len(rs)
  BY <1>1
<1>3. e \in Seq(Nat) /\ First(rs, k + 1) = Cat(e, g) /\ rs[k + 1] \in Record
  BY <1>1, <1>2, FirstFacts
<1>4. g \in Seq(Nat)
  BY <1>3, FrameFacts
<1>5. PICK rest \in Seq(Nat) : bytes = Cat(First(rs, k + 1), rest)
  <2> DEFINE j == k + 1
  <2>1. j \in 0..Len(rs)
    BY <1>2
  <2> HIDE DEF j
  <2>2. \E rest \in Seq(Nat) : bytes = Cat(First(rs, j), rest)
    BY <2>1, LogBegins
  <2> QED
    BY <2>2 DEF j
<1>6. bytes = Cat(Cat(e, g), rest)
  BY <1>3, <1>5
<1> HIDE DEF e, g
<1>7. /\ Len(Cat(e, g)) = Len(e) + Len(g) /\ Len(e) + Len(g) <= Len(bytes)
      /\ \A m \in 1..Len(g) : bytes[Len(e) + m] = g[m]
  BY <1>3, <1>4, <1>6, FrameIsThere
<1> QED
  BY <1>3, <1>7 DEF HasFrame, e, g

(* read_all of a log returns its records, and fails only when the last was *)
(* cut short.                                                              *)
LEMMA ReadsLog ==
    ASSUME NEW bytes, NEW rs, NEW part, IsLog(bytes, rs, part)
    PROVE  ReadAll(bytes).records = rs /\ (part = <<>> => ReadAll(bytes).ok = TRUE)
<1> DEFINE n == Len(rs)
           pos(k) == Len(First(rs, k)) + 1
           Rest(k) == SubSeq(rs, k + 1, n)
<1>1. rs \in Seq(Record) /\ IsPart(part) /\ n \in Nat /\ bytes = Cat(Encode(rs), part)
  BY DEF IsLog
<1>2. bytes \in Seq(Nat)
  BY LogBegins
<1>3. PICK f : ReadAll(bytes) = f[1] /\ Reads(f, bytes)
  BY <1>2, ReadEquation
<1>4. First(rs, 0) = <<>> /\ First(rs, n) = Encode(rs) /\ Encode(rs) \in Seq(Nat)
  <2>1. n \in 0..n
    BY <1>1
  <2> QED
    BY <1>1, <2>1, FirstFacts
<1>5. PICK o : f[pos(n)] = Result(o, <<>>) /\ (part = <<>> => o = TRUE)
  <2> DEFINE e == Encode(rs)
  <2>1. e \in Seq(Nat) /\ Reads(f, Cat(e, part))
    BY <1>1, <1>3, <1>4
  <2> HIDE DEF e
  <2>2. \E o : f[Len(e) + 1] = [ok |-> o, records |-> <<>>] /\ (part = <<>> => o = TRUE)
    BY <1>1, <2>1, ReadEnds
  <2> QED
    BY <1>4, <2>2 DEF e, Result
<1> DEFINE T == {j \in Nat : j <= n => f[pos(n - j)] = Result(o, Rest(n - j))}
<1>6. 0 \in T
  <2>1. Rest(n - 0) = <<>> /\ n - 0 = n
    BY <1>1
  <2> HIDE DEF Rest, pos
  <2> QED
    BY <1>5, <2>1
<1>7. ASSUME NEW j \in Nat, j \in T PROVE j + 1 \in T
  <2> DEFINE k == n - (j + 1)
             r == rs[k + 1]
             m == Len(First(rs, k))
             l == Len(First(rs, k + 1))
  <2> SUFFICES ASSUME j + 1 <= n PROVE f[m + 1] = Result(o, Rest(k))
    <3> HIDE DEF Rest
    <3> QED
      OBVIOUS
  <2>1. k \in 0..(n - 1) /\ k + 1 = n - j /\ r \in Record /\ j <= n
    BY <1>1
  <2>2. f[l + 1] = Result(o, Rest(k + 1))
    <3> HIDE DEF Rest, k
    <3> QED
      BY <1>7, <2>1
  <2>3. m \in Nat /\ HasFrame(bytes, m, r) /\ l = m + Len(Frame(r))
    BY <2>1, LogFrames
  <2>4. Rest(k) = Cat(<<r>>, Rest(k + 1))
    BY <1>1, <2>1 DEF Cat
  <2> DEFINE t == Rest(k + 1)
  <2> HIDE DEF Rest, k, r, m, l, t
  <2>5. f[m + 1] = Result(o, Cat(<<r>>, t))
    <3> DEFINE y == l + 1
               z == m + 1
    <3>1. Between(bytes, z, y, r)
      <4>1. y = m + Len(Frame(r)) + 1
        BY <2>3
      <4> QED
        BY <2>1, <2>3, <4>1 DEF Between
    <3>2. From(f, y, o, t)
      BY <2>2 DEF t, From
    <3> HIDE DEF y, z
    <3>3. From(f, z, o, Cat(<<r>>, t))
      BY <1>2, <1>3, <3>1, <3>2, ReadsFrame
    <3> QED
      BY <3>3 DEF z, From
  <2> QED
    BY <2>4, <2>5 DEF t
<1>8. n \in T
  <2> HIDE DEF T
  <2> QED
    BY <1>1, <1>6, <1>7, Reading!NatInSet
<1>9. f[pos(0)] = Result(o, Rest(0))
  <2>1. n - n = 0 /\ n <= n
    BY <1>1
  <2> HIDE DEF pos, Rest
  <2> QED
    BY <1>8, <2>1
<1>10. pos(0) = 1 /\ Rest(0) = rs
  BY <1>1, <1>4
<1>11. ReadAll(bytes) = [ok |-> o, records |-> rs]
  <2> HIDE DEF pos, Rest
  <2> QED
    BY <1>3, <1>9, <1>10 DEF Result
<1> QED
  BY <1>5, <1>11

(* A prefix of a concatenation ends in its first or in its second part.    *)
LEMMA CatCut ==
    ASSUME NEW a \in Seq(Nat), NEW b \in Seq(Nat), NEW n \in 0..Len(Cat(a, b))
    PROVE  \/ n \in 0..Len(a) /\ SubSeq(Cat(a, b), 1, n) = SubSeq(a, 1, n)
           \/ \E j \in 0..Len(b) : SubSeq(Cat(a, b), 1, n) = Cat(a, SubSeq(b, 1, j))
<1>0. Len(a) \in Nat /\ Len(b) \in Nat
  OBVIOUS
<1>1. Len(Cat(a, b)) = Len(a) + Len(b) /\ Len(a) \in Nat /\ Len(b) \in Nat
  BY <1>0, CatFacts
<1>2. CASE n <= Len(a)
  <2>1. n \in 0..Len(a)
    BY <1>1, <1>2
  <2> QED
    BY <2>1, CatPrefix
<1>3. CASE ~(n <= Len(a))
  <2> DEFINE j == n - Len(a)
  <2>1. j \in 0..Len(b) /\ n = Len(a) + j
    BY <1>1, <1>3
  <2> HIDE DEF j
  <2>2. SubSeq(Cat(a, b), 1, Len(a) + j) = Cat(a, SubSeq(b, 1, j))
    BY <2>1, CatPrefix
  <2> QED
    BY <2>1, <2>2
<1> QED
  BY <1>2, <1>3

(* The whole of a sequence, and nothing of it.                             *)
LEMMA SubSeqEnds ==
    ASSUME NEW T, NEW s \in Seq(T)
    PROVE  SubSeq(s, 1, Len(s)) = s /\ SubSeq(s, 1, 0) = <<>> /\ <<>> \in Seq(T)
OBVIOUS

(* The records of a log, and those of its beginnings, are a log.           *)
LEMMA FirstIsLog ==
    ASSUME NEW rs \in Seq(Record), NEW k \in 0..Len(rs), NEW part, IsPart(part)
    PROVE  IsLog(Cat(First(rs, k), part), SubSeq(rs, 1, k), part)
<1>1. SubSeq(rs, 1, k) \in Seq(Record)
  OBVIOUS
<1> QED
  BY <1>1 DEF IsLog, First

(* Whatever is cut off a complete log leaves a log.                        *)
LEMMA EncodingCut ==
    ASSUME NEW rs \in Seq(Record), NEW n \in 0..Len(Encode(rs))
    PROVE  \E m \in 0..Len(rs) : \E p : IsLog(SubSeq(Encode(rs), 1, n), SubSeq(rs, 1, m), p)
<1> DEFINE Cuts(k) == \A i \in 0..Len(First(rs, k)) : \E m \in 0..Len(rs) : \E p :
                        IsLog(SubSeq(First(rs, k), 1, i), SubSeq(rs, 1, m), p)
           T == {k \in Nat : k <= Len(rs) => Cuts(k)}
<1>0. IsPart(<<>>) /\ Len(rs) \in Nat
  BY DEF IsPart
<1>1. /\ First(rs, 0) = <<>> /\ First(rs, Len(rs)) = Encode(rs)
      /\ \A k \in 0..Len(rs) : First(rs, k) \in Seq(Nat)
  BY FirstFacts
<1>2. \A k \in 0..Len(rs) : Cat(First(rs, k), <<>>) = First(rs, k)
  BY <1>1, CatAssoc
<1>3. \A k \in 0..Len(rs) : IsLog(First(rs, k), SubSeq(rs, 1, k), <<>>)
  BY <1>0, <1>2, FirstIsLog
<1>4. 0 \in T
  <2> SUFFICES ASSUME NEW i \in 0..Len(First(rs, 0))
               PROVE  \E m \in 0..Len(rs) : \E p :
                        IsLog(SubSeq(First(rs, 0), 1, i), SubSeq(rs, 1, m), p)
    OBVIOUS
  <2>1. SubSeq(First(rs, 0), 1, i) = First(rs, 0)
    BY <1>1
  <2>2. 0 \in 0..Len(rs)
    BY <1>0
  <2>3. IsLog(SubSeq(First(rs, 0), 1, i), SubSeq(rs, 1, 0), <<>>)
    BY <1>3, <2>1, <2>2
  <2> QED
    BY <2>2, <2>3
<1>5. ASSUME NEW k \in Nat, k \in T PROVE k + 1 \in T
  <2> DEFINE e == First(rs, k)
             l == k + 1
             g == Frame(rs[l])
  <2> SUFFICES ASSUME l <= Len(rs), NEW i \in 0..Len(First(rs, l))
               PROVE  \E m \in 0..Len(rs) : \E p :
                        IsLog(SubSeq(First(rs, l), 1, i), SubSeq(rs, 1, m), p)
    OBVIOUS
  <2>1. k \in 0..(Len(rs) - 1) /\ k \in 0..Len(rs) /\ l \in 0..Len(rs) /\ k <= Len(rs)
    BY <1>0
  <2>2. e \in Seq(Nat) /\ First(rs, l) = Cat(e, g) /\ rs[l] \in Record
    BY <2>1, FirstFacts
  <2>3. g \in Seq(Nat) /\ Len(g) = Len(rs[l]) + 2 /\ Len(rs[l]) \in Nat
    BY <2>2, FrameFacts, RecordFacts
  <2>4. Cuts(k)
    BY <1>5, <2>1
  <2> DEFINE c == SubSeq(First(rs, l), 1, i)
  <2>5. CASE i \in 0..Len(e) /\ c = SubSeq(e, 1, i)
    <3>1. \E m \in 0..Len(rs) : \E p : IsLog(SubSeq(e, 1, i), SubSeq(rs, 1, m), p)
      BY <2>4, <2>5
    <3> QED
      BY <2>5, <3>1
  <2>6. ASSUME NEW j \in 0..Len(g), c = Cat(e, SubSeq(g, 1, j))
        PROVE  \E m \in 0..Len(rs) : \E p : IsLog(c, SubSeq(rs, 1, m), p)
    <3>1. CASE j = Len(g)
      <4>1. SubSeq(g, 1, j) = g
        BY <2>3, <3>1, SubSeqEnds
      <4>2. c = First(rs, l)
        BY <2>2, <2>6, <4>1
      <4>3. IsLog(c, SubSeq(rs, 1, l), <<>>)
        <5> HIDE DEF l, c
        <5> QED
          BY <1>3, <2>1, <4>2
      <4> QED
        BY <2>1, <4>3
    <3>2. CASE j # Len(g)
      <4>1. j \in 0..(Len(rs[l]) + 1)
        BY <2>3, <3>2
      <4>2. IsPart(SubSeq(g, 1, j))
        BY <2>2, <4>1 DEF IsPart
      <4>3. IsLog(Cat(e, SubSeq(g, 1, j)), SubSeq(rs, 1, k), SubSeq(g, 1, j))
        <5> DEFINE p == SubSeq(g, 1, j)
        <5> HIDE DEF p
        <5> QED
          BY <2>1, <4>2, FirstIsLog DEF p
      <4> QED
        BY <2>1, <2>6, <4>3
    <3> QED
      BY <3>1, <3>2
  <2>7. \/ i \in 0..Len(e) /\ c = SubSeq(e, 1, i)
        \/ \E j \in 0..Len(g) : c = Cat(e, SubSeq(g, 1, j))
    <3>1. i \in 0..Len(Cat(e, g)) /\ c = SubSeq(Cat(e, g), 1, i)
      BY <2>2
    <3> HIDE DEF c, e, g
    <3> QED
      BY <2>2, <2>3, <3>1, CatCut
  <2> QED
    BY <2>5, <2>6, <2>7
<1>6. Len(rs) \in T
  <2> HIDE DEF T
  <2> QED
    BY <1>0, <1>4, <1>5, Reading!NatInSet
<1>7. Cuts(Len(rs))
  BY <1>0, <1>6
<1> QED
  BY <1>1, <1>7

(* Whatever is cut off a log leaves a log of the first of its records.     *)
LEMMA LogCut ==
    ASSUME NEW bytes, NEW rs, NEW part, IsLog(bytes, rs, part), NEW n \in 0..Len(bytes)
    PROVE  \E m \in 0..Len(rs) : \E p : IsLog(SubSeq(bytes, 1, n), SubSeq(rs, 1, m), p)
<1> DEFINE e == Encode(rs)
           c == SubSeq(bytes, 1, n)
<1>1. rs \in Seq(Record) /\ IsPart(part) /\ bytes = Cat(e, part) /\ Len(rs) \in Nat
  BY DEF IsLog
<1>2. e \in Seq(Nat) /\ First(rs, Len(rs)) = e /\ Len(rs) \in 0..Len(rs)
  BY <1>1, FirstFacts
<1>3. part \in Seq(Nat) /\ \A j \in 0..Len(part) : IsPart(SubSeq(part, 1, j))
  BY <1>1, PartFacts
<1>4. \/ n \in 0..Len(e) /\ c = SubSeq(e, 1, n)
      \/ \E j \in 0..Len(part) : c = Cat(e, SubSeq(part, 1, j))
  <2>1. n \in 0..Len(Cat(e, part)) /\ c = SubSeq(Cat(e, part), 1, n)
    BY <1>1
  <2> HIDE DEF c, e
  <2> QED
    BY <1>2, <1>3, <2>1, CatCut
<1>5. CASE n \in 0..Len(e) /\ c = SubSeq(e, 1, n)
  BY <1>1, <1>5, EncodingCut
<1>6. ASSUME NEW j \in 0..Len(part), c = Cat(e, SubSeq(part, 1, j))
      PROVE  \E m \in 0..Len(rs) : \E p : IsLog(c, SubSeq(rs, 1, m), p)
  <2>1. IsPart(SubSeq(part, 1, j))
    BY <1>3
  <2>2. IsLog(Cat(First(rs, Len(rs)), SubSeq(part, 1, j)), SubSeq(rs, 1, Len(rs)),
              SubSeq(part, 1, j))
    BY <1>1, <1>2, <2>1, FirstIsLog
  <2> QED
    BY <1>2, <1>6, <2>2
<1> QED
  BY <1>4, <1>5, <1>6

(* Only a log without a record cut short is the encoding of its records.   *)
LEMMA Complete ==
    ASSUME NEW bytes, NEW rs, NEW part, IsLog(bytes, rs, part)
    PROVE  Encode(rs) = bytes => part = <<>>
<1> DEFINE e == Encode(rs)
<1>1. rs \in Seq(Record) /\ IsPart(part) /\ bytes = Cat(e, part) /\ Len(rs) \in 0..Len(rs)
  BY DEF IsLog
<1>2. e \in Seq(Nat) /\ part \in Seq(Nat)
  BY <1>1, FirstFacts, PartFacts
<1> HIDE DEF e
<1>3. Len(Cat(e, part)) = Len(e) + Len(part)
  BY <1>2, CatFacts
<1> SUFFICES ASSUME e = bytes PROVE part = <<>>
  BY DEF e
<1>4. Len(e) = Len(e) + Len(part) /\ Len(e) \in Nat /\ Len(part) \in Nat
  <2>1. Cat(e, part) = e
    BY <1>1
  <2>2. Len(e) \in Nat /\ Len(part) \in Nat
    BY <1>2
  <2> QED
    BY <1>3, <2>1, <2>2
<1>5. Len(part) = 0
  BY <1>4
<1> QED
  BY <1>2, <1>5

(* The parts of a frame.                                                   *)
LEMMA FrameParts ==
    ASSUME NEW r \in Record
    PROVE  /\ Frame(r) = Cat(Header(r), r) /\ IsPart(Header(r)) /\ Header(r) # <<>>
           /\ \A m \in 0..1 : IsPart(SubSeq(Header(r), 1, m))
           /\ \A m \in 0..(Len(r) - 1) : IsPart(Cat(Header(r), SubSeq(r, 1, m)))
<1> DEFINE h == Header(r)
<1>1. h \in Seq(Nat) /\ Len(h) = 2 /\ r \in Seq(Nat) /\ Len(r) \in Nat \ {0}
  BY FrameFacts, RecordFacts
<1>2. Frame(r) = Cat(h, r)
  BY DEF Frame, Cat
<1> HIDE DEF h
<1>3. ASSUME NEW m \in 0..2 PROVE IsPart(SubSeq(h, 1, m))
  <2>0. m \in 0..Len(h) /\ m \in 0..(Len(r) + 1)
    BY <1>1
  <2>1. SubSeq(Cat(h, r), 1, m) = SubSeq(h, 1, m) /\ m \in 0..(Len(r) + 1)
    BY <1>1, <2>0, CatPrefix
  <2> QED
    BY <1>2, <2>1 DEF IsPart
<1>4. IsPart(h) /\ h # <<>>
  <2>1. SubSeq(h, 1, Len(h)) = h
    BY <1>1, SubSeqEnds
  <2>2. h # <<>> /\ 2 \in 0..2
    <3>1. ASSUME h = <<>> PROVE FALSE
      <4>1. Len(h) = 0
        BY <3>1
      <4> QED
        BY <1>1, <4>1
    <3>2. 2 \in 0..2
      OBVIOUS
    <3> QED
      BY <3>1, <3>2
  <2>3. IsPart(SubSeq(h, 1, 2))
    BY <1>3, <2>2
  <2> QED
    BY <1>1, <2>1, <2>2, <2>3
<1>5. ASSUME NEW m \in 0..(Len(r) - 1) PROVE IsPart(Cat(h, SubSeq(r, 1, m)))
  <2>1. m \in 0..Len(r) /\ 2 + m \in 0..(Len(r) + 1)
    BY <1>1
  <2>2. SubSeq(Cat(h, r), 1, 2 + m) = Cat(h, SubSeq(r, 1, m))
    BY <1>1, <2>1, CatPrefix
  <2> QED
    BY <1>2, <2>1, <2>2 DEF IsPart
<1> QED
  BY <1>2, <1>3, <1>4, <1>5 DEF h

(* The part of a write that is done before a fault.                        *)
LEMMA PartsFacts ==
    ASSUME NEW s \in Seq(Nat), s # <<>>, NEW part \in Parts(s)
    PROVE  \E m \in 0..(Len(s) - 1) : part = SubSeq(s, 1, m) /\ part \in Seq(Nat)
<1>1. PICK m \in 0..(Len(s) - 1) : part = SubSeq(s, 1, m)
  BY DEF Parts
<1>2. SubSeq(s, 1, m) \in Seq(Nat)
  OBVIOUS
<1> QED
  BY <1>1, <1>2

(* A log without a record cut short: what the first write of append, or a  *)
(* part of it, makes of it.                                                *)
LEMMA HeaderWritten ==
    ASSUME NEW bytes, NEW rs, IsLog(bytes, rs, <<>>), NEW r \in Record
    PROVE  /\ IsLog(Cat(bytes, Header(r)), rs, Header(r))
           /\ \A part \in Parts(Header(r)) : IsLog(Cat(bytes, part), rs, part)
<1> DEFINE e == Encode(rs)
<1>1. rs \in Seq(Record) /\ bytes = Cat(e, <<>>) /\ Len(rs) \in 0..Len(rs)
  BY DEF IsLog
<1>2. e \in Seq(Nat)
  BY <1>1, FirstFacts
<1>3. bytes = e
  <2> HIDE DEF e
  <2> QED
    BY <1>1, <1>2, CatAssoc
<1>4. Header(r) \in Seq(Nat) /\ Len(Header(r)) = 2 /\ Header(r) # <<>> /\ IsPart(Header(r))
  BY FrameFacts, FrameParts
<1>5. ASSUME NEW part \in Parts(Header(r)) PROVE IsPart(part)
  <2>0. PICK m \in 0..(Len(Header(r)) - 1) : part = SubSeq(Header(r), 1, m)
    BY <1>4, PartsFacts
  <2>1. m \in 0..1
    BY <1>4
  <2> QED
    BY <2>0, <2>1, FrameParts
<1> QED
  BY <1>1, <1>3, <1>4, <1>5 DEF IsLog

(* What its second write, or a part of it, makes of it.                    *)
LEMMA PayloadWritten ==
    ASSUME NEW r \in Record, NEW bytes, NEW rs, IsLog(bytes, rs, Header(r))
    PROVE  /\ IsLog(Cat(bytes, r), Append(rs, r), <<>>)
           /\ \A part \in Parts(r) : \E p : IsLog(Cat(bytes, part), rs, p)
<1> DEFINE e == Encode(rs)
           h == Header(r)
<1>1. rs \in Seq(Record) /\ bytes = Cat(e, h) /\ Len(rs) \in 0..Len(rs)
  BY DEF IsLog
<1>2. e \in Seq(Nat) /\ h \in Seq(Nat) /\ r \in Seq(Nat) /\ r # <<>> /\ Frame(r) \in Seq(Nat)
  <2>1. r \in Seq(Nat) /\ Len(r) \in Nat \ {0}
    BY RecordFacts
  <2> QED
    BY <1>1, <2>1, FirstFacts, FrameFacts
<1>3. Cat(bytes, r) = Cat(e, Frame(r))
  <2> HIDE DEF e
  <2>1. Cat(Cat(e, h), r) = Cat(e, Cat(h, r))
    <3> HIDE DEF h
    <3> QED
      BY <1>2, CatAssoc
  <2> QED
    BY <1>1, <2>1, FrameParts
<1>4. IsLog(Cat(bytes, r), Append(rs, r), <<>>)
  <2> DEFINE t == Encode(Append(rs, r))
  <2>1. Append(rs, r) \in Seq(Record) /\ IsPart(<<>>)
    BY <1>1 DEF IsPart
  <2>2. t = Cat(e, Frame(r))
    BY <1>1, EncodeFacts
  <2>3. t \in Seq(Nat)
    <3> HIDE DEF e, t
    <3> QED
      BY <1>2, <2>2, CatFacts
  <2>4. Cat(t, <<>>) = t
    <3> HIDE DEF t
    <3> QED
      BY <2>3, CatAssoc
  <2> QED
    BY <1>3, <2>1, <2>2, <2>4 DEF IsLog
<1>5. ASSUME NEW part \in Parts(r) PROVE IsLog(Cat(bytes, part), rs, Cat(h, part))
  <2>1. PICK m \in 0..(Len(r) - 1) : part = SubSeq(r, 1, m) /\ part \in Seq(Nat)
    BY <1>2, PartsFacts
  <2>2. IsPart(Cat(h, part))
    BY <2>1, FrameParts
  <2>3. Cat(Cat(e, h), part) = Cat(e, Cat(h, part))
    <3>1. part \in Seq(Nat)
      BY <2>1
    <3> HIDE DEF e, h
    <3> QED
      BY <1>2, <3>1, CatAssoc
  <2> QED
    BY <1>1, <2>2, <2>3 DEF IsLog
<1> QED
  BY <1>4, <1>5

(* replace_all writes a log.                                               *)
LEMMA EncodeIsLog ==
    ASSUME NEW rs \in Seq(Record)
    PROVE  IsLog(Encode(rs), rs, <<>>) /\ Encode(rs) \in Seq(Nat)
<1>1. Encode(rs) \in Seq(Nat) /\ IsPart(<<>>)
  <2>1. Len(rs) \in 0..Len(rs)
    OBVIOUS
  <2> QED
    BY <2>1, FirstFacts DEF IsPart
<1>2. Cat(Encode(rs), <<>>) = Encode(rs)
  BY <1>1, CatAssoc
<1> QED
  BY <1>1, <1>2 DEF IsLog

----------------------------------------------------------------------------
(* The inductive invariant.                                                *)

Files == [bytes : Seq(Nat), synced : Nat, torn : {"no", "tail", "inside"}]

(* A file holds a log unless an append went behind a record cut short; the *)
(* tail is the last part of it, and there is none when it is not torn, but *)
(* for what the append in progress has written.                            *)
Holds(f, rs, part, mid) == IsLog(f.bytes, rs, part) /\ (f.torn = "no" => part = mid)

FileOK(f, mid) ==
    /\ f \in Files
    /\ f.synced <= Len(f.bytes)
    /\ f.torn # "inside" => \E rs, part : Holds(f, rs, part, mid)

(* What the append in progress has written of its frame.                   *)
Begun(c) == IF c.op = "append" /\ Len(c.writes) = 1 THEN Header(c.record) ELSE <<>>

Mid == Begun(call)

FilesOK ==
    /\ FileOK(file, IF attached THEN Mid ELSE <<>>)
    /\ old # NONE => FileOK(old, IF attached THEN <<>> ELSE Mid)

(* The calls there are, with the steps they may be at.                     *)
Appending(r, writes) == [op |-> "append", record |-> r, writes |-> writes]

Replacing(rs, step) == [op |-> "replace", records |-> rs, step |-> step]

Steps == {"write", "sync", "rename", "sync dir", "repoint"}

CallOK ==
    \/ call = Idle
    \/ \E r \in Record : call = Appending(r, <<Header(r), r>>) \/ call = Appending(r, <<r>>)
    \/ \E rs \in Compaction : \E step \in Steps : call = Replacing(rs, step)

(* The rename is done, and the writer is not on the new file yet.          *)
Replaced == At("sync dir") \/ At("repoint")

Written(rs, n) == [bytes |-> Encode(rs), synced |-> n, torn |-> "no"]

ReplaceOK ==
    /\ At("write") => temp = EmptyFile
    /\ At("sync") => temp = Written(call.records, 0)
    /\ At("rename") => temp = Written(call.records, Len(Encode(call.records)))
    /\ Replaced => ~attached /\ file = Written(call.records, Len(Encode(call.records)))

ProcessOK ==
    /\ {open, attached, unsure} \subseteq BOOLEAN
    /\ ~open => call = Idle /\ attached
    /\ ~attached => unsure \/ Replaced

AckedOK ==
    ~unsure /\ file.torn # "inside" /\ ~Replaced => ReadAll(file.bytes).records = acked

LogInv == FilesOK /\ CallOK /\ ReplaceOK /\ ProcessOK /\ AckedOK

----------------------------------------------------------------------------
(* What a write, a write cut short and a power failure do to a file.       *)

Recs(f) == ReadAll(f.bytes).records

Kept(f) == Len(ReadAll(SubSeq(f.bytes, 1, f.synced)).records)

(* g is f with more bytes.                                                 *)
Grown(f, s, torn) == [bytes |-> Cat(f.bytes, s), synced |-> f.synced, torn |-> torn]

(* A replay of g returns what one of f does, or g is torn inside.          *)
Same(f, g) == g.torn # "inside" => f.torn # "inside" /\ Recs(g) = Recs(f) /\ Kept(g) = Kept(f)

(* The fields of a file that has grown.                                    *)
LEMMA GrownFields ==
    ASSUME NEW f, NEW s, NEW torn
    PROVE  /\ Grown(f, s, torn).bytes = Cat(f.bytes, s)
           /\ Grown(f, s, torn).synced = f.synced
           /\ Grown(f, s, torn).torn = torn
BY DEF Grown

(* It holds what was synced.                                               *)
LEMMA GrownFacts ==
    ASSUME NEW f \in Files, f.synced <= Len(f.bytes), NEW s \in Seq(Nat),
           NEW torn \in {"no", "tail", "inside"}
    PROVE  /\ Grown(f, s, torn) \in Files
           /\ Grown(f, s, torn).synced <= Len(Grown(f, s, torn).bytes)
           /\ Kept(Grown(f, s, torn)) = Kept(f)
<1> DEFINE b == f.bytes
           k == f.synced
           c == Cat(b, s)
<1>1. b \in Seq(Nat) /\ k \in Nat /\ k <= Len(b) /\ Len(b) \in Nat /\ Len(s) \in Nat
  BY DEF Files
<1> HIDE DEF b, k
<1>2. c \in Seq(Nat) /\ Len(c) = Len(b) + Len(s)
  BY <1>1, CatFacts
<1>3. SubSeq(c, 1, k) = SubSeq(b, 1, k)
  <2>1. k \in 0..Len(b)
    BY <1>1
  <2> QED
    BY <1>1, <2>1, CatPrefix
<1> HIDE DEF c
<1>4. k <= Len(c)
  BY <1>1, <1>2
<1>5. Grown(f, s, torn) = [bytes |-> c, synced |-> k, torn |-> torn]
  BY DEF Grown, b, k, c
<1>6. [bytes |-> c, synced |-> k, torn |-> torn] \in Files
  BY <1>1, <1>2 DEF Files
<1> DEFINE g == Grown(f, s, torn)
<1>7. g.bytes = c /\ g.synced = k
  BY <1>5
<1> HIDE DEF g
<1>8. Kept(g) = Kept(f)
  BY <1>3, <1>7 DEF Kept, b, k
<1>9. g \in Files
  BY <1>5, <1>6 DEF g
<1> QED
  BY <1>4, <1>7, <1>8, <1>9 DEF g

(* What append makes of a file, with its fields written out.               *)
LEMMA AppendedIs ==
    ASSUME NEW f \in Files, NEW s
    PROVE  Appended(f, s)
             = Grown(f, s, IF f.torn = "no" \/ s = <<>> THEN f.torn ELSE "inside")
<1>1. f = [bytes |-> f.bytes, synced |-> f.synced, torn |-> f.torn]
  BY DEF Files
<1> DEFINE b == f.bytes
           k == f.synced
           t == f.torn
<1> HIDE DEF b, k, t
<1>2. f = [bytes |-> b, synced |-> k, torn |-> t]
  BY <1>1 DEF b, k, t
<1> DEFINE c == b \o s
           u == IF t = "no" \/ s = <<>> THEN t ELSE "inside"
           x == [bytes |-> c, synced |-> k, torn |-> t]
<1>3. Write(f, s) = x
  <2>1. f.bytes \o s = c
    BY DEF b
  <2> HIDE DEF c
  <2>2. Write(f, s) = [f EXCEPT !.bytes = c]
    BY <2>1 DEF Write
  <2> QED
    BY <1>2, <2>2
<1>4. Appended(f, s) = [bytes |-> c, synced |-> k, torn |-> u]
  <2>1. x.torn = t
    OBVIOUS
  <2>2. Appended(f, s) = [x EXCEPT !.torn = u]
    <3> HIDE DEF x
    <3> QED
      BY <1>3, <2>1 DEF Appended
  <2> HIDE DEF c, u
  <2> QED
    BY <2>2
<1> HIDE DEF c, u
<1>5. Grown(f, s, u) = [bytes |-> c, synced |-> k, torn |-> u]
  BY DEF Grown, Cat, b, k, c
<1> QED
  BY <1>4, <1>5 DEF u, t

(* The same for an append that is cut short.                               *)
LEMMA CutShortIs ==
    ASSUME NEW f \in Files, NEW s
    PROVE  LET t == IF f.torn = "no" \/ s = <<>> THEN f.torn ELSE "inside"
           IN  CutShort(f, s)
                 = Grown(f, s, IF t = "no" /\ (s # <<>> \/ Len(call.writes) = 1)
                               THEN "tail" ELSE t)
<1> DEFINE t == IF f.torn = "no" \/ s = <<>> THEN f.torn ELSE "inside"
<1>1. Appended(f, s) = Grown(f, s, t)
  BY AppendedIs
<1> HIDE DEF t
<1> DEFINE b == Cat(f.bytes, s)
           k == f.synced
<1>2. Appended(f, s) = [bytes |-> b, synced |-> k, torn |-> t]
  BY <1>1 DEF Grown
<1> HIDE DEF b, k
<1>3. CutShort(f, s) = [bytes |-> b, synced |-> k,
                        torn |-> IF t = "no" /\ (s # <<>> \/ Len(call.writes) = 1)
                                 THEN "tail" ELSE t]
  BY <1>2 DEF CutShort
<1> QED
  BY <1>3 DEF Grown, b, k, t

(* What FileOK says of a file that is not torn inside.                     *)
LEMMA FileHolds ==
    ASSUME NEW f, NEW mid, FileOK(f, mid), f.torn # "inside"
    PROVE  \E part : IsLog(f.bytes, Recs(f), part) /\ (f.torn = "no" => part = mid)
<1>1. PICK rs, part : Holds(f, rs, part, mid)
  BY DEF FileOK
<1>2. ReadAll(f.bytes).records = rs
  BY <1>1, ReadsLog DEF Holds
<1> QED
  BY <1>1, <1>2 DEF Holds, Recs

(* A file that has grown into a log.                                       *)
LEMMA GrownOK ==
    ASSUME NEW f, NEW mid, FileOK(f, mid), NEW s \in Seq(Nat), NEW torn \in {"no", "tail"},
           NEW rs, NEW part, IsLog(Cat(f.bytes, s), rs, part), NEW end,
           torn = "no" => part = end
    PROVE  /\ FileOK(Grown(f, s, torn), end)
           /\ Recs(Grown(f, s, torn)) = rs /\ Kept(Grown(f, s, torn)) = Kept(f)
<1> DEFINE g == Grown(f, s, torn)
<1>1. g \in Files /\ g.synced <= Len(g.bytes) /\ Kept(g) = Kept(f)
  BY GrownFacts DEF FileOK
<1>2. g.bytes = Cat(f.bytes, s) /\ g.torn = torn
  BY GrownFields
<1> HIDE DEF g
<1>3. Holds(g, rs, part, end)
  BY <1>2 DEF Holds
<1>4. Recs(g) = rs
  <2>1. IsLog(g.bytes, rs, part)
    BY <1>2
  <2> QED
    BY <2>1, ReadsLog DEF Recs
<1> QED
  BY <1>1, <1>3, <1>4 DEF FileOK, g

(* A file that has grown behind a record cut short.                        *)
LEMMA GrownTorn ==
    ASSUME NEW f, NEW mid, FileOK(f, mid), NEW s \in Seq(Nat), NEW end
    PROVE  FileOK(Grown(f, s, "inside"), end) /\ Grown(f, s, "inside").torn = "inside"
<1> DEFINE g == Grown(f, s, "inside")
<1>1. g \in Files /\ g.synced <= Len(g.bytes)
  BY GrownFacts DEF FileOK
<1>2. g.torn = "inside"
  BY GrownFields
<1> HIDE DEF g
<1> QED
  BY <1>1, <1>2 DEF FileOK, g

(* The first write of append.                                              *)
LEMMA HeaderAppended ==
    ASSUME NEW f, FileOK(f, <<>>), NEW r \in Record
    PROVE  FileOK(Appended(f, Header(r)), Header(r)) /\ Same(f, Appended(f, Header(r)))
<1> DEFINE h == Header(r)
           g == Appended(f, h)
<1>1. h \in Seq(Nat) /\ h # <<>> /\ f \in Files
  BY FrameFacts, FrameParts DEF FileOK
<1>2. g = Grown(f, h, IF f.torn = "no" \/ h = <<>> THEN f.torn ELSE "inside")
  BY <1>1, AppendedIs
<1>3. CASE f.torn = "no"
  <2>1. g = Grown(f, h, "no")
    BY <1>2, <1>3
  <2>2. IsLog(f.bytes, Recs(f), <<>>)
    BY <1>3, FileHolds
  <2>3. IsLog(Cat(f.bytes, h), Recs(f), h)
    BY <2>2, HeaderWritten
  <2> HIDE DEF h
  <2>4. FileOK(g, h) /\ Recs(g) = Recs(f) /\ Kept(g) = Kept(f)
    BY <1>1, <2>1, <2>3, GrownOK
  <2> QED
    BY <1>3, <2>4 DEF Same, h
<1>4. CASE f.torn # "no"
  <2>1. g = Grown(f, h, "inside")
    BY <1>1, <1>2, <1>4
  <2>2. FileOK(g, h) /\ g.torn = "inside"
    BY <1>1, <2>1, GrownTorn
  <2> QED
    BY <2>2 DEF Same
<1> QED
  BY <1>3, <1>4

(* The second write of append.                                             *)
LEMMA PayloadAppended ==
    ASSUME NEW r \in Record, NEW f, FileOK(f, Header(r))
    PROVE  /\ FileOK(Appended(f, r), <<>>)
           /\ Appended(f, r).torn # "inside"
                => /\ f.torn # "inside" /\ Kept(Appended(f, r)) = Kept(f)
                   /\ Recs(Appended(f, r)) = Append(Recs(f), r)
<1> DEFINE g == Appended(f, r)
<1>1. r \in Seq(Nat) /\ r # <<>> /\ f \in Files
  BY LogAssumption, RecordFacts DEF FileOK
<1>2. g = Grown(f, r, IF f.torn = "no" \/ r = <<>> THEN f.torn ELSE "inside")
  BY <1>1, AppendedIs
<1>3. CASE f.torn = "no"
  <2>1. g = Grown(f, r, "no")
    BY <1>2, <1>3
  <2>2. IsLog(f.bytes, Recs(f), Header(r))
    BY <1>3, FileHolds
  <2>3. IsLog(Cat(f.bytes, r), Append(Recs(f), r), <<>>)
    BY <2>2, PayloadWritten
  <2>4. FileOK(g, <<>>) /\ Recs(g) = Append(Recs(f), r) /\ Kept(g) = Kept(f)
    BY <1>1, <2>1, <2>3, GrownOK
  <2> QED
    BY <1>3, <2>4
<1>4. CASE f.torn # "no"
  <2>1. g = Grown(f, r, "inside")
    BY <1>1, <1>2, <1>4
  <2>2. FileOK(g, <<>>) /\ g.torn = "inside"
    BY <1>1, <2>1, GrownTorn
  <2> QED
    BY <2>2
<1> QED
  BY <1>3, <1>4

(* An append that ends in the middle of a write: the record it leaves is   *)
(* not one of the log, which is torn at its tail, or inside if it was torn *)
(* before.                                                                 *)
LEMMA CutIsOK ==
    ASSUME NEW f, NEW mid, FileOK(f, mid), NEW s \in Seq(Nat),
           f.torn = "no" /\ s # <<>> => \E p : IsLog(Cat(f.bytes, s), Recs(f), p),
           mid = <<>> \/ Len(call.writes) = 1
    PROVE  FileOK(CutShort(f, s), <<>>) /\ Same(f, CutShort(f, s))
<1> DEFINE g == CutShort(f, s)
           t == IF f.torn = "no" \/ s = <<>> THEN f.torn ELSE "inside"
           u == IF t = "no" /\ (s # <<>> \/ Len(call.writes) = 1) THEN "tail" ELSE t
<1>1. f \in Files /\ f.bytes \in Seq(Nat) /\ f.torn \in {"no", "tail", "inside"}
  BY DEF FileOK, Files
<1>2. g = Grown(f, s, u)
  BY <1>1, CutShortIs
<1>3. CASE u = "inside"
  BY <1>2, <1>3, GrownTorn DEF Same
<1>4. CASE u # "inside"
  <2>1. u \in {"no", "tail"} /\ f.torn # "inside"
    BY <1>1, <1>4
  <2>2. PICK part : IsLog(f.bytes, Recs(f), part) /\ (f.torn = "no" => part = mid)
    BY <2>1, FileHolds
  <2>3. \E p : IsLog(Cat(f.bytes, s), Recs(f), p) /\ (u = "no" => p = <<>>)
    <3>1. CASE s # <<>>
      <4>1. u # "no" /\ f.torn = "no"
        BY <1>4, <3>1
      <4> QED
        BY <2>1, <3>1, <4>1
    <3>2. CASE s = <<>>
      <4>1. Cat(f.bytes, s) = f.bytes
        BY <1>1, <3>2, CatAssoc
      <4>2. u = "no" => f.torn = "no" /\ Len(call.writes) # 1
        BY <3>2
      <4> QED
        BY <2>2, <4>1, <4>2
    <3> QED
      BY <3>1, <3>2
  <2> HIDE DEF u, g
  <2>4. PICK p : IsLog(Cat(f.bytes, s), Recs(f), p) /\ (u = "no" => p = <<>>)
    BY <2>3
  <2>5. FileOK(g, <<>>) /\ Recs(g) = Recs(f) /\ Kept(g) = Kept(f)
    BY <1>2, <2>1, <2>4, GrownOK
  <2> QED
    BY <2>1, <2>5 DEF Same, g
<1> QED
  BY <1>3, <1>4
(* During the first write.                                                 *)
LEMMA HeaderCut ==
    ASSUME NEW f, FileOK(f, <<>>), NEW r \in Record, NEW part \in Parts(Header(r))
    PROVE  FileOK(CutShort(f, part), <<>>) /\ Same(f, CutShort(f, part))
<1>1. Header(r) \in Seq(Nat) /\ Header(r) # <<>>
  BY FrameFacts, FrameParts
<1>2. part \in Seq(Nat)
  BY <1>1, PartsFacts
<1>3. ASSUME f.torn = "no" PROVE \E p : IsLog(Cat(f.bytes, part), Recs(f), p)
  <2>1. IsLog(f.bytes, Recs(f), <<>>)
    BY <1>3, FileHolds
  <2> QED
    BY <2>1, HeaderWritten
<1> QED
  BY <1>2, <1>3, CutIsOK

(* During the second write.                                                *)
LEMMA PayloadCut ==
    ASSUME NEW r \in Record, NEW f, FileOK(f, Header(r)), NEW part \in Parts(r),
           Len(call.writes) = 1
    PROVE  FileOK(CutShort(f, part), <<>>) /\ Same(f, CutShort(f, part))
<1>1. r \in Seq(Nat) /\ r # <<>>
  BY LogAssumption, RecordFacts
<1>2. part \in Seq(Nat)
  BY <1>1, PartsFacts
<1>3. ASSUME f.torn = "no" PROVE \E p : IsLog(Cat(f.bytes, part), Recs(f), p)
  <2>1. IsLog(f.bytes, Recs(f), Header(r))
    BY <1>3, FileHolds
  <2> QED
    BY <2>1, PayloadWritten
<1> QED
  BY <1>2, <1>3, CutIsOK

(* A power failure leaves the records that were synced, and some of the    *)
(* others that came first.                                                 *)
LEMMA PowerCut ==
    ASSUME NEW f, NEW mid, FileOK(f, mid), NEW g \in AfterPowerFailure(f)
    PROVE  /\ FileOK(g, <<>>)
           /\ f.torn = "inside" => g.torn = "inside"
           /\ f.torn # "inside"
                => /\ g.torn # "inside"
                   /\ Recs(f) \in Seq(Record) /\ Kept(f) \in Nat
                   /\ Kept(g) \in Kept(f)..Len(Recs(f))
                   /\ Recs(g) = SubSeq(Recs(f), 1, Kept(g))
<1> DEFINE b == f.bytes
           k == f.synced
           Left(n) == SubSeq(b, 1, n)
           Torn(n) == IF f.torn = "inside" THEN "inside"
                      ELSE IF Encode(ReadAll(Left(n)).records) = Left(n) THEN "no" ELSE "tail"
<1>1. /\ b \in Seq(Nat) /\ k \in Nat /\ k <= Len(b) /\ f.torn \in {"no", "tail", "inside"}
      /\ Len(b) \in Nat
  BY DEF FileOK, Files
<1>2. PICK n \in k..Len(b) : g = [bytes |-> Left(n), synced |-> n, torn |-> Torn(n)]
  BY DEF AfterPowerFailure
<1>3. n \in Nat /\ n <= Len(b) /\ n \in 0..Len(b) /\ k <= n /\ k \in 0..n
  BY <1>1
<1> DEFINE c == Left(n)
           t == Torn(n)
<1>4. c \in Seq(Nat) /\ Len(c) = n /\ SubSeq(c, 1, k) = SubSeq(b, 1, k) /\ SubSeq(c, 1, n) = c
  <2> HIDE DEF b, k
  <2>1. c \in Seq(Nat) /\ Len(c) = n
    BY <1>1, <1>3
  <2>2. SubSeq(c, 1, k) = SubSeq(b, 1, k)
    BY <1>1, <1>3, SubSeqTwice
  <2>3. SubSeq(c, 1, n) = c
    BY <1>1, <1>3, SubSeqTwice
  <2> QED
    BY <2>1, <2>2, <2>3
<1>5. t \in {"no", "tail", "inside"} /\ (f.torn = "inside" <=> t = "inside")
  BY <1>1
<1> HIDE DEF b, k, c, t
<1>6. g \in Files /\ g.synced <= Len(g.bytes) /\ g.bytes = c /\ g.torn = t /\ g.synced = n
  <2>1. g = [bytes |-> c, synced |-> n, torn |-> t]
    BY <1>2 DEF c, t
  <2> QED
    BY <1>3, <1>4, <1>5, <2>1 DEF Files
<1>7. CASE f.torn = "inside"
  BY <1>5, <1>6, <1>7 DEF FileOK
<1>8. CASE f.torn # "inside"
  <2> DEFINE rs == Recs(f)
  <2>1. PICK part : IsLog(b, rs, part)
    BY <1>8, FileHolds DEF b
  <2>2. PICK m \in 0..Len(rs) : \E p : IsLog(c, SubSeq(rs, 1, m), p)
    BY <1>3, <2>1, LogCut DEF c
  <2> DEFINE us == SubSeq(rs, 1, m)
  <2>3. PICK p : IsLog(c, us, p)
    BY <2>2
  <2>4. rs \in Seq(Record) /\ us \in Seq(Record) /\ Len(us) = m /\ m \in Nat /\ Len(rs) \in Nat
    <3>1. rs \in Seq(Record) /\ us \in Seq(Record)
      BY <2>1, <2>3 DEF IsLog
    <3> HIDE DEF rs
    <3> QED
      BY <3>1
  <2> HIDE DEF rs, us
  <2>5. ReadAll(c).records = us
    BY <2>3, ReadsLog
  <2>6. Recs(g) = us /\ Kept(g) = m
    BY <1>4, <1>6, <2>4, <2>5 DEF Recs, Kept
  <2>7. t = "no" => p = <<>>
    <3>1. t = "no" => Encode(us) = c
      BY <1>8, <2>5 DEF t, c
    <3> QED
      BY <2>3, <3>1, Complete
  <2>8. FileOK(g, <<>>)
    <3>1. Holds(g, us, p, <<>>)
      BY <1>6, <2>3, <2>7 DEF Holds
    <3> QED
      BY <1>6, <3>1 DEF FileOK
  <2>9. Kept(f) \in 0..m
    <3>1. k \in 0..Len(c)
      BY <1>3, <1>4
    <3>2. PICK j \in 0..Len(us) : \E q : IsLog(SubSeq(c, 1, k), SubSeq(us, 1, j), q)
      BY <2>3, <3>1, LogCut
    <3>3. ReadAll(SubSeq(c, 1, k)).records = SubSeq(us, 1, j)
      BY <3>2, ReadsLog
    <3>4. Kept(f) = Len(SubSeq(us, 1, j))
      BY <1>4, <3>3 DEF Kept, b, k
    <3>5. Len(SubSeq(us, 1, j)) = j
      BY <2>4
    <3> QED
      BY <2>4, <3>4, <3>5
  <2>10. Kept(f) \in Nat /\ m \in Kept(f)..Len(rs)
    BY <2>2, <2>4, <2>9
  <2>11. g.torn # "inside"
    BY <1>5, <1>6, <1>8
  <2> QED
    BY <1>8, <2>4, <2>6, <2>8, <2>10, <2>11 DEF rs, us
<1> QED
  BY <1>7, <1>8

(* What replace_all leaves.                                                *)
LEMMA WrittenOK ==
    ASSUME NEW rs \in Seq(Record)
    PROVE  LET f == Written(rs, Len(Encode(rs)))
           IN  FileOK(f, <<>>) /\ Recs(f) = rs /\ Kept(f) = Len(rs) /\ f.torn = "no"
<1> DEFINE e == Encode(rs)
           f == Written(rs, Len(e))
<1>1. IsLog(e, rs, <<>>) /\ e \in Seq(Nat)
  BY EncodeIsLog
<1>2. ReadAll(e).records = rs
  BY <1>1, ReadsLog
<1>3. f = [bytes |-> e, synced |-> Len(e), torn |-> "no"]
  BY DEF Written
<1> HIDE DEF e, f
<1>4. f \in Files /\ f.bytes = e /\ f.synced = Len(e) /\ f.torn = "no" /\ Len(e) \in Nat
  BY <1>1, <1>3 DEF Files
<1>5. SubSeq(e, 1, Len(e)) = e
  BY <1>1, SubSeqEnds
<1>6. FileOK(f, <<>>)
  BY <1>1, <1>4 DEF FileOK, Holds
<1>7. Recs(f) = rs /\ Kept(f) = Len(rs)
  BY <1>2, <1>4, <1>5 DEF Recs, Kept
<1> QED
  BY <1>4, <1>6, <1>7 DEF f, e

----------------------------------------------------------------------------
(* The invariant is inductive: the calls first.                            *)

(* What a call says.                                                       *)
LEMMA CallFields ==
    /\ Idle.op = "none"
    /\ \A r, w : /\ Appending(r, w).op = "append"
                 /\ Appending(r, w).record = r /\ Appending(r, w).writes = w
    /\ \A rs, step : /\ Replacing(rs, step).op = "replace"
                     /\ Replacing(rs, step).records = rs /\ Replacing(rs, step).step = step
BY DEF Idle, Appending, Replacing

(* The two writes of append, and what is begun before each.                *)
LEMMA WritesFacts ==
    ASSUME NEW r
    PROVE  /\ Len(<<Header(r), r>>) = 2 /\ Head(<<Header(r), r>>) = Header(r)
           /\ Tail(<<Header(r), r>>) = <<r>>
           /\ Len(<<r>>) = 1 /\ Head(<<r>>) = r
           /\ Begun(Appending(r, <<Header(r), r>>)) = <<>>
           /\ Begun(Appending(r, <<r>>)) = Header(r)
<1> DEFINE h == Header(r)
<1> HIDE DEF h
<1>1. Len(<<h, r>>) = 2 /\ Head(<<h, r>>) = h /\ Tail(<<h, r>>) = <<r>>
  OBVIOUS
<1>2. Len(<<r>>) = 1 /\ Head(<<r>>) = r
  OBVIOUS
<1> DEFINE v == <<h, r>>
           w == <<r>>
<1> HIDE DEF v, w
<1>3. Len(v) # 1 /\ Len(w) = 1
  BY <1>1, <1>2 DEF v, w
<1>4. Begun(Appending(r, v)) = <<>> /\ Begun(Appending(r, w)) = h
  BY <1>3, CallFields DEF Begun, h
<1> QED
  BY <1>1, <1>2, <1>4 DEF h, v, w

(* An append before its first, and before its second write.                *)
LEMMA AppendingFacts ==
    ASSUME NEW r
    PROVE  /\ call = Appending(r, <<Header(r), r>>)
                => /\ Head(call.writes) = Header(r) /\ Tail(call.writes) = <<r>>
                   /\ Len(call.writes) = 2 /\ Mid = <<>>
           /\ call = Appending(r, <<r>>)
                => /\ Head(call.writes) = r /\ Len(call.writes) = 1
                   /\ call.record = r /\ Mid = Header(r)
<1> DEFINE v == <<Header(r), r>>
           w == <<r>>
<1>1. /\ Head(v) = Header(r) /\ Tail(v) = w /\ Len(v) = 2 /\ Begun(Appending(r, v)) = <<>>
      /\ Head(w) = r /\ Len(w) = 1 /\ Begun(Appending(r, w)) = Header(r)
  BY WritesFacts
<1> HIDE DEF v, w
<1>2. /\ Appending(r, v).writes = v
      /\ Appending(r, w).writes = w /\ Appending(r, w).record = r
  BY CallFields
<1>3. /\ call = Appending(r, v)
           => /\ Head(call.writes) = Header(r) /\ Tail(call.writes) = w
              /\ Len(call.writes) = 2 /\ Mid = <<>>
      /\ call = Appending(r, w)
           => /\ Head(call.writes) = r /\ Len(call.writes) = 1
              /\ call.record = r /\ Mid = Header(r)
  BY <1>1, <1>2 DEF Mid
<1> QED
  BY <1>3 DEF v, w

(* Nothing is begun in another call.                                       *)
LEMMA NothingBegun == \A c : c.op # "append" => Begun(c) = <<>>
BY DEF Begun

(* The calls, by their op.                                                 *)
LEMMA CallCases ==
    ASSUME CallOK
    PROVE  /\ call.op = "append"
                => \E r \in Record : \/ call = Appending(r, <<Header(r), r>>)
                                     \/ call = Appending(r, <<r>>)
           /\ call.op = "replace"
                => /\ call.records \in Compaction /\ call.step \in Steps
                   /\ call = Replacing(call.records, call.step)
           /\ call.op \notin {"append", "replace"} => call = Idle
<1>1. CASE call = Idle
  BY <1>1, CallFields
<1>2. ASSUME NEW r \in Record, call = Appending(r, <<Header(r), r>>) \/ call = Appending(r, <<r>>)
      PROVE  call.op = "append"
  BY <1>2, CallFields
<1>3. ASSUME NEW rs \in Compaction, NEW step \in Steps, call = Replacing(rs, step)
      PROVE  call.op = "replace" /\ call.records = rs /\ call.step = step
  BY <1>3, CallFields
<1> QED
  BY <1>1, <1>2, <1>3 DEF CallOK

(* Going from one step of replace_all to another.                          *)
LEMMA GotoIs ==
    ASSUME NEW rs, NEW step, NEW next, call = Replacing(rs, step), Goto(next)
    PROVE  call' = Replacing(rs, next)
BY DEF Goto, Replacing

(* Compactions are sequences of records.                                   *)
LEMMA CompactionType == \A rs \in Compaction : rs \in Seq(Record)
BY LogAssumption

(* The log is opened on an empty file.                                     *)
LEMMA InitInv == Init => LogInv
<1> SUFFICES ASSUME Init PROVE LogInv
  OBVIOUS
<1>1. <<>> \in Seq(Record) /\ Encode(<<>>) = <<>> /\ Len(<<>>) = 0
  BY EncodeFacts
<1>2. file = Written(<<>>, Len(Encode(<<>>)))
  BY <1>1 DEF Init, EmptyFile, Written
<1>3. FileOK(file, <<>>) /\ Recs(file) = <<>>
  BY <1>1, <1>2, WrittenOK
<1>4. call = Idle /\ call.op = "none" /\ Mid = <<>>
  BY CallFields, NothingBegun DEF Init, Mid
<1>5. FilesOK
  BY <1>3, <1>4 DEF FilesOK, Init
<1>6. CallOK /\ ReplaceOK /\ ProcessOK
  BY <1>4 DEF CallOK, ReplaceOK, ProcessOK, At, Replaced, Init
<1>7. AckedOK
  BY <1>3 DEF AckedOK, Recs, Init
<1> QED
  BY <1>5, <1>6, <1>7 DEF LogInv

(* open: the caller expects what the replay returned.                      *)
LEMMA OpenLogKeeps ==
    ASSUME LogInv, OpenLog
    PROVE  LogInv'
<1>1. /\ call = Idle /\ attached = TRUE /\ call' = call /\ attached' = TRUE /\ open' = TRUE
      /\ file' = file /\ old' = old /\ temp' = temp /\ unsure' = FALSE
      /\ acked' = ReadAll(file.bytes).records /\ call.op = "none"
  BY CallFields DEF OpenLog, LogInv, ProcessOK
<1>2. FilesOK'
  BY <1>1 DEF LogInv, FilesOK, Mid
<1>3. CallOK' /\ ReplaceOK' /\ ProcessOK'
  BY <1>1 DEF CallOK, ReplaceOK, ProcessOK, At, Replaced
<1>4. AckedOK'
  BY <1>1 DEF AckedOK
<1> QED
  BY <1>2, <1>3, <1>4 DEF LogInv

(* append, before its first write.                                         *)
LEMMA BeginAppendKeeps ==
    ASSUME LogInv, NEW r \in Record, BeginAppend(r)
    PROVE  LogInv'
<1>1. /\ call = Idle /\ call.op = "none" /\ call' = Appending(r, <<Header(r), r>>)
      /\ call'.op = "append" /\ open
      /\ file' = file /\ old' = old /\ open' = open /\ attached' = attached
      /\ acked' = acked /\ unsure' = unsure
  BY CallFields DEF BeginAppend, Appending
<1>2. Mid = <<>> /\ Mid' = <<>>
  BY <1>1, NothingBegun, WritesFacts DEF Mid
<1>3. FilesOK'
  BY <1>1, <1>2 DEF LogInv, FilesOK
<1>4. CallOK'
  BY <1>1 DEF CallOK
<1>5. ReplaceOK' /\ ProcessOK' /\ AckedOK'
  BY <1>1 DEF LogInv, ReplaceOK, ProcessOK, At, Replaced, AckedOK
<1> QED
  BY <1>3, <1>4, <1>5 DEF LogInv

(* replace_all creates the compaction file.                                *)
LEMMA BeginReplaceKeeps ==
    ASSUME LogInv, NEW rs \in Compaction, BeginReplace(rs)
    PROVE  LogInv'
<1>1. /\ call = Idle /\ call.op = "none" /\ call' = Replacing(rs, "write")
      /\ call'.op = "replace" /\ call'.step = "write" /\ open /\ temp' = EmptyFile
      /\ file' = file /\ old' = old /\ open' = open /\ attached' = attached
      /\ acked' = acked /\ unsure' = unsure
  BY CallFields DEF BeginReplace, Replacing
<1>2. Mid = <<>> /\ Mid' = <<>>
  BY <1>1, NothingBegun DEF Mid
<1>3. FilesOK'
  BY <1>1, <1>2 DEF LogInv, FilesOK
<1>4. CallOK'
  BY <1>1 DEF CallOK, Steps
<1>5. ReplaceOK' /\ ProcessOK' /\ AckedOK'
  BY <1>1 DEF LogInv, ReplaceOK, ProcessOK, At, Replaced, AckedOK
<1> QED
  BY <1>3, <1>4, <1>5 DEF LogInv

(* What an action of append does to the writer's file, done or cut short,  *)
(* does to the files.                                                      *)
LEMMA PutKeeps ==
    ASSUME FilesOK, NEW f, NEW g, Put(f, g), attached' = attached \/ attached' = TRUE,
           FileOK(file, Mid) => FileOK(f, Mid'),
           FileOK(old, Mid) => FileOK(g, Mid'),
           attached' = attached \/ Mid' = <<>>
    PROVE  FilesOK'
<1>1. CASE attached
  <2>1. file' = f /\ old' = old /\ attached'
    BY <1>1 DEF Put
  <2> QED
    BY <1>1, <2>1 DEF FilesOK
<1>2. CASE ~attached
  <2>1. file' = file /\ old' = (IF old = NONE THEN NONE ELSE g)
    BY <1>2 DEF Put
  <2>2. FileOK(file', <<>>)
    BY <1>2, <2>1 DEF FilesOK
  <2>3. old' # NONE => FileOK(old', Mid')
    BY <1>2, <2>1 DEF FilesOK
  <2> QED
    BY <1>2, <2>2, <2>3 DEF FilesOK
<1> QED
  BY <1>1, <1>2

(* A write of append: to the file at path, or to the one replaced.         *)
LEMMA AppendWritesKeeps ==
    ASSUME LogInv, AppendWrites
    PROVE  LogInv'
<1>1. PICK r \in Record : \/ call = Appending(r, <<Header(r), r>>)
                          \/ call = Appending(r, <<r>>)
  BY CallCases DEF LogInv, AppendWrites
<1>2. /\ call.op = "append" /\ open' = open /\ attached' = attached /\ unsure' = unsure
      /\ Put(Appended(file, Head(call.writes)), Appended(old, Head(call.writes)))
  BY DEF AppendWrites
<1>3. open /\ (~unsure => attached)
  BY <1>2, CallFields DEF LogInv, ProcessOK, At, Replaced
<1>4. CASE call = Appending(r, <<Header(r), r>>)
  <2>1. /\ Len(call.writes) = 2 /\ Mid = <<>>
        /\ Head(call.writes) = Header(r) /\ Tail(call.writes) = <<r>>
    BY <1>4, AppendingFacts
  <2>2. call' = [call EXCEPT !.writes = <<r>>] /\ acked' = acked
    <3> DEFINE w == <<r>>
    <3>1. Tail(call.writes) = w /\ Len(call.writes) # 1
      BY <2>1
    <3> HIDE DEF w
    <3>2. call' = [call EXCEPT !.writes = w] /\ acked' = acked
      BY <3>1 DEF AppendWrites
    <3> QED
      BY <3>2 DEF w
  <2>3. call' = Appending(r, <<r>>) /\ call'.op = "append"
    BY <1>4, <2>2, CallFields DEF Appending
  <2>4. Mid' = Header(r)
    BY <2>3, WritesFacts DEF Mid
  <2>5. FilesOK'
    BY <1>2, <2>1, <2>4, HeaderAppended, PutKeeps DEF LogInv
  <2>6. CallOK' /\ ReplaceOK' /\ ProcessOK'
    BY <1>2, <1>3, <2>3 DEF CallOK, ReplaceOK, ProcessOK, LogInv, At, Replaced
  <2>7. AckedOK'
    <3> SUFFICES ASSUME ~unsure, file'.torn # "inside" PROVE Recs(file') = acked
      BY <1>2, <2>2 DEF AckedOK, Recs
    <3>1. file' = Appended(file, Header(r)) /\ FileOK(file, <<>>)
      BY <1>2, <1>3, <2>1 DEF Put, LogInv, FilesOK
    <3>2. file.torn # "inside" /\ Recs(file') = Recs(file)
      BY <3>1, HeaderAppended DEF Same
    <3> QED
      BY <1>2, <3>2 DEF LogInv, AckedOK, Recs, At, Replaced
  <2> QED
    BY <2>5, <2>6, <2>7 DEF LogInv
<1>5. CASE call = Appending(r, <<r>>)
  <2>1. /\ Len(call.writes) = 1 /\ Mid = Header(r)
        /\ Head(call.writes) = r /\ call.record = r
    BY <1>5, AppendingFacts
  <2>2. call' = Idle /\ acked' = Append(acked, r) /\ call'.op = "none"
    BY <2>1, CallFields DEF AppendWrites
  <2>3. Mid' = <<>>
    BY <2>2, NothingBegun DEF Mid
  <2>4. FilesOK'
    BY <1>2, <2>1, <2>3, PayloadAppended, PutKeeps DEF LogInv
  <2>5. CallOK' /\ ReplaceOK' /\ ProcessOK'
    BY <1>2, <1>3, <2>2 DEF CallOK, ReplaceOK, ProcessOK, LogInv, At, Replaced
  <2>6. AckedOK'
    <3> SUFFICES ASSUME ~unsure, file'.torn # "inside" PROVE Recs(file') = Append(acked, r)
      BY <1>2, <2>2 DEF AckedOK, Recs
    <3>1. file' = Appended(file, r) /\ FileOK(file, Header(r))
      BY <1>2, <1>3, <2>1 DEF Put, LogInv, FilesOK
    <3>2. file.torn # "inside" /\ Recs(file') = Append(Recs(file), r)
      BY <3>1, PayloadAppended
    <3>3. Recs(file) = acked
      BY <1>2, <3>2 DEF LogInv, AckedOK, Recs, At, Replaced
    <3> QED
      BY <3>2, <3>3
  <2> QED
    BY <2>4, <2>5, <2>6 DEF LogInv
<1> QED
  BY <1>1, <1>4, <1>5

(* An append that is cut short, by an I/O error or the death of the        *)
(* process.                                                                *)
LEMMA CutKeeps ==
    ASSUME LogInv, call.op = "append", NEW part \in Parts(Head(call.writes)),
           NEW f, NEW mid, FileOK(f, mid), mid = Mid
    PROVE  FileOK(CutShort(f, part), <<>>) /\ Same(f, CutShort(f, part))
<1>1. PICK r \in Record : \/ call = Appending(r, <<Header(r), r>>)
                          \/ call = Appending(r, <<r>>)
  BY CallCases DEF LogInv
<1>2. CASE call = Appending(r, <<Header(r), r>>)
  <2>1. Mid = <<>> /\ Head(call.writes) = Header(r)
    BY <1>2, AppendingFacts
  <2> QED
    BY <2>1, HeaderCut
<1>3. CASE call = Appending(r, <<r>>)
  <2>1. Mid = Header(r) /\ Head(call.writes) = r /\ Len(call.writes) = 1
    BY <1>3, AppendingFacts
  <2> QED
    BY <2>1, PayloadCut
<1> QED
  BY <1>1, <1>2, <1>3

(* append fails with an I/O error.                                         *)
LEMMA AppendFailsKeeps ==
    ASSUME LogInv, AppendFails
    PROVE  LogInv'
<1>1. /\ call.op = "append" /\ open' = open /\ attached' = attached /\ unsure' = unsure
      /\ call' = Idle /\ call'.op = "none" /\ acked' = acked
  BY CallFields DEF AppendFails
<1>2. PICK part \in Parts(Head(call.writes)) : Put(CutShort(file, part), CutShort(old, part))
  BY DEF AppendFails
<1>3. open /\ (~unsure => attached)
  BY <1>1, CallFields DEF LogInv, ProcessOK, At, Replaced
<1>4. Mid' = <<>>
  BY <1>1, NothingBegun DEF Mid
<1>5. FilesOK'
  BY <1>1, <1>2, <1>4, CutKeeps, PutKeeps DEF LogInv
<1>6. CallOK' /\ ReplaceOK' /\ ProcessOK'
  BY <1>1, <1>3 DEF CallOK, ReplaceOK, ProcessOK, LogInv, At, Replaced
<1>7. AckedOK'
  <2> SUFFICES ASSUME ~unsure, file'.torn # "inside" PROVE Recs(file') = acked
    BY <1>1 DEF AckedOK, Recs
  <2>1. file' = CutShort(file, part) /\ FileOK(file, Mid)
    BY <1>2, <1>3 DEF Put, LogInv, FilesOK
  <2>2. file.torn # "inside" /\ Recs(file') = Recs(file)
    BY <1>1, <2>1, CutKeeps DEF Same
  <2> QED
    BY <1>1, <2>2 DEF LogInv, AckedOK, Recs, At, Replaced
<1> QED
  BY <1>5, <1>6, <1>7 DEF LogInv

(* The process dies, in the middle of an append or not.                    *)
LEMMA DieKeeps ==
    ASSUME LogInv, Die
    PROVE  LogInv'
<1>1. /\ open' = FALSE /\ attached' = TRUE /\ unsure' = (unsure \/ call.op = "replace")
      /\ call' = Idle /\ call'.op = "none" /\ acked' = acked
  BY CallFields DEF Die
<1>2. Mid' = <<>>
  BY <1>1, NothingBegun DEF Mid
<1>3. CallOK' /\ ReplaceOK' /\ ProcessOK'
  BY <1>1 DEF CallOK, ReplaceOK, ProcessOK, LogInv, At, Replaced
<1>4. CASE call.op = "append"
  <2>1. PICK part \in Parts(Head(call.writes)) : Put(CutShort(file, part), CutShort(old, part))
    BY <1>4 DEF Die
  <2>2. FilesOK'
    BY <1>1, <1>2, <1>4, <2>1, CutKeeps, PutKeeps DEF LogInv
  <2>3. AckedOK'
    <3> SUFFICES ASSUME ~unsure, file'.torn # "inside" PROVE Recs(file') = acked
      BY <1>1, <1>4 DEF AckedOK, Recs
    <3>1. attached
      BY <1>4 DEF LogInv, ProcessOK, At, Replaced
    <3>2. file' = CutShort(file, part) /\ FileOK(file, Mid)
      BY <2>1, <3>1 DEF Put, LogInv, FilesOK
    <3>3. file.torn # "inside" /\ Recs(file') = Recs(file)
      BY <1>4, <3>2, CutKeeps DEF Same
    <3> QED
      BY <1>4, <3>3 DEF LogInv, AckedOK, Recs, At, Replaced
  <2> QED
    BY <1>3, <2>2, <2>3 DEF LogInv
<1>5. CASE call.op # "append"
  <2>1. file' = file /\ old' = old /\ Mid = <<>>
    BY <1>5, NothingBegun DEF Die, Mid
  <2>2. FilesOK'
    BY <1>1, <1>2, <2>1 DEF LogInv, FilesOK
  <2>3. AckedOK'
    BY <1>1, <2>1 DEF LogInv, AckedOK, At, Replaced
  <2> QED
    BY <1>3, <2>2, <2>3 DEF LogInv
<1> QED
  BY <1>4, <1>5

(* replace_all writes the records to the compaction file.                  *)
LEMMA WriteTempKeeps ==
    ASSUME LogInv, WriteTemp
    PROVE  LogInv'
<1> DEFINE rs == call.records
<1>1. call = Replacing(rs, "write") /\ rs \in Compaction /\ call.op = "replace" /\ open
  BY CallCases, CallFields DEF LogInv, WriteTemp, At, ProcessOK
<1>2. call' = Replacing(rs, "sync")
  BY <1>1, GotoIs DEF WriteTemp
<1>3. call'.op = "replace" /\ call'.step = "sync" /\ call'.records = rs
  <2> HIDE DEF rs
  <2> QED
    BY <1>2, SMT DEF Replacing
<1>4. /\ file' = file /\ old' = old /\ open' = open /\ attached' = attached
      /\ acked' = acked /\ unsure' = unsure
  BY DEF WriteTemp
<1>5. temp' = Written(rs, 0)
  <2>1. temp = EmptyFile /\ temp' = [temp EXCEPT !.bytes = @ \o Encode(rs)]
    BY DEF WriteTemp, LogInv, ReplaceOK, Write
  <2> DEFINE e == Encode(rs)
  <2>2. e \in Seq(Nat)
    BY <1>1, CompactionType, EncodeIsLog
  <2> HIDE DEF e
  <2>3. <<>> \o e = e
    BY <2>2
  <2>4. temp.bytes = <<>>
    BY <2>1 DEF EmptyFile
  <2>5. temp' = [temp EXCEPT !.bytes = e]
    BY <2>1, <2>3, <2>4 DEF e
  <2>6. temp' = [bytes |-> e, synced |-> 0, torn |-> "no"]
    BY <2>1, <2>5 DEF EmptyFile
  <2> QED
    BY <2>6 DEF Written, e
<1>6. Mid = <<>> /\ Mid' = <<>>
  BY <1>1, <1>3, NothingBegun DEF Mid
<1>7. FilesOK'
  BY <1>4, <1>6 DEF LogInv, FilesOK
<1>8. CallOK'
  BY <1>1, <1>2 DEF CallOK, Steps
<1>9. At("write") /\ ~Replaced /\ ~Replaced'
  BY <1>3 DEF WriteTemp, At, Replaced
<1>10. ReplaceOK' /\ ProcessOK' /\ AckedOK'
  BY <1>1, <1>3, <1>4, <1>5, <1>9 DEF LogInv, ReplaceOK, ProcessOK, At, AckedOK
<1> QED
  BY <1>7, <1>8, <1>10 DEF LogInv

(* sync_all: nothing of the compaction file can be lost from here on.      *)
LEMMA SyncTempKeeps ==
    ASSUME LogInv, SyncTemp
    PROVE  LogInv'
<1> DEFINE rs == call.records
<1>1. call = Replacing(rs, "sync") /\ rs \in Compaction /\ call.op = "replace" /\ open
  BY CallCases, CallFields DEF LogInv, SyncTemp, At, ProcessOK
<1>2. call' = Replacing(rs, "rename")
  BY <1>1, GotoIs DEF SyncTemp
<1>3. call'.op = "replace" /\ call'.step = "rename" /\ call'.records = rs
  <2> HIDE DEF rs
  <2> QED
    BY <1>2, SMT DEF Replacing
<1>4. /\ file' = file /\ old' = old /\ open' = open /\ attached' = attached
      /\ acked' = acked /\ unsure' = unsure
  BY DEF SyncTemp
<1>5. temp' = Written(rs, Len(Encode(rs)))
  <2> DEFINE e == Encode(rs)
  <2>1. temp = [bytes |-> e, synced |-> 0, torn |-> "no"]
    BY DEF SyncTemp, LogInv, ReplaceOK, Written
  <2>2. temp' = [temp EXCEPT !.synced = Len(temp.bytes)]
    BY DEF SyncTemp, Sync
  <2> HIDE DEF e
  <2>3. temp.bytes = e
    BY <2>1
  <2>4. temp' = [bytes |-> e, synced |-> Len(e), torn |-> "no"]
    <3> DEFINE l == Len(e)
    <3>1. temp' = [temp EXCEPT !.synced = l]
      BY <2>2, <2>3
    <3> HIDE DEF l
    <3>2. temp' = [bytes |-> e, synced |-> l, torn |-> "no"]
      BY <2>1, <3>1
    <3> QED
      BY <3>2 DEF l
  <2> QED
    BY <2>4 DEF Written, e
<1>6. Mid = <<>> /\ Mid' = <<>>
  BY <1>1, <1>3, NothingBegun DEF Mid
<1>7. FilesOK'
  BY <1>4, <1>6 DEF LogInv, FilesOK
<1>8. CallOK'
  BY <1>1, <1>2 DEF CallOK, Steps
<1>9. At("sync") /\ ~Replaced /\ ~Replaced'
  BY <1>3 DEF SyncTemp, At, Replaced
<1>10. ReplaceOK' /\ ProcessOK' /\ AckedOK'
  BY <1>1, <1>3, <1>4, <1>5, <1>9 DEF LogInv, ReplaceOK, ProcessOK, At, AckedOK
<1> QED
  BY <1>7, <1>8, <1>10 DEF LogInv

(* rename: the compaction file is the log, all of it synced.               *)
LEMMA RenameKeeps ==
    ASSUME LogInv, Rename
    PROVE  LogInv'
<1> DEFINE rs == call.records
<1>1. call = Replacing(rs, "rename") /\ rs \in Compaction /\ call.op = "replace" /\ open
  BY CallCases, CallFields DEF LogInv, Rename, At, ProcessOK
<1>2. call' = Replacing(rs, "sync dir")
  BY <1>1, GotoIs DEF Rename
<1>3. call'.op = "replace" /\ call'.step = "sync dir" /\ call'.records = rs
  <2> DEFINE step == "sync dir"
  <2>1. call' = Replacing(rs, step)
    BY <1>2
  <2> SUFFICES call'.op = "replace" /\ call'.step = step /\ call'.records = rs
    OBVIOUS
  <2> HIDE DEF rs, step
  <2> QED
    BY <2>1, SMT DEF Replacing
<1>4. /\ file' = temp /\ old' = file /\ open' = open /\ attached' = FALSE
      /\ acked' = acked /\ unsure' = unsure
  BY DEF Rename
<1>5. file' = Written(rs, Len(Encode(rs)))
  BY <1>4 DEF Rename, LogInv, ReplaceOK
<1>6. FileOK(file', <<>>)
  BY <1>1, <1>5, CompactionType, WrittenOK
<1>7. Mid = <<>> /\ Mid' = <<>>
  BY <1>1, <1>3, NothingBegun DEF Mid
<1>8. FilesOK'
  BY <1>4, <1>6, <1>7 DEF LogInv, FilesOK
<1>9. CallOK'
  BY <1>1, <1>2 DEF CallOK, Steps
<1>10. ReplaceOK' /\ ProcessOK' /\ AckedOK'
  BY <1>1, <1>3, <1>4, <1>5 DEF LogInv, ReplaceOK, ProcessOK, At, AckedOK, Replaced
<1> QED
  BY <1>8, <1>9, <1>10 DEF LogInv

(* The directory is synced: the old file cannot come back.                 *)
LEMMA SyncDirKeeps ==
    ASSUME LogInv, SyncDir
    PROVE  LogInv'
<1> DEFINE rs == call.records
<1>1. call = Replacing(rs, "sync dir") /\ rs \in Compaction /\ call.op = "replace" /\ open
  BY CallCases, CallFields DEF LogInv, SyncDir, At, ProcessOK
<1>2. call' = Replacing(rs, "repoint")
  BY <1>1, GotoIs DEF SyncDir
<1>3. call'.op = "replace" /\ call'.step = "repoint" /\ call'.records = rs
  <2> HIDE DEF rs
  <2> QED
    BY <1>2, SMT DEF Replacing
<1>4. /\ file' = file /\ old' = NONE /\ open' = open /\ attached' = attached
      /\ acked' = acked /\ unsure' = unsure
  BY DEF SyncDir
<1>5. file' = Written(rs, Len(Encode(rs))) /\ ~attached
  BY <1>4 DEF SyncDir, LogInv, ReplaceOK, Replaced
<1>6. Mid = <<>> /\ Mid' = <<>>
  BY <1>1, <1>3, NothingBegun DEF Mid
<1>7. FilesOK'
  BY <1>4, <1>6 DEF LogInv, FilesOK
<1>8. CallOK'
  BY <1>1, <1>2 DEF CallOK, Steps
<1>9. ReplaceOK' /\ ProcessOK' /\ AckedOK'
  BY <1>1, <1>3, <1>4, <1>5 DEF LogInv, ReplaceOK, ProcessOK, At, AckedOK, Replaced
<1> QED
  BY <1>7, <1>8, <1>9 DEF LogInv

(* The writer moves to the new file.                                       *)
LEMMA RepointKeeps ==
    ASSUME LogInv, Repoint
    PROVE  LogInv'
<1> DEFINE rs == call.records
<1>1. rs \in Compaction /\ call.op = "replace" /\ open
  BY CallCases, CallFields DEF LogInv, Repoint, At, ProcessOK
<1>2. /\ call' = Idle /\ call'.op = "none" /\ file' = file /\ old' = old /\ open' = open
      /\ attached' = TRUE /\ acked' = rs /\ unsure' = FALSE
  BY CallFields DEF Repoint
<1>3. file = Written(rs, Len(Encode(rs))) /\ ~attached
  BY DEF Repoint, LogInv, ReplaceOK, Replaced
<1>4. Recs(file) = rs
  BY <1>1, <1>3, CompactionType, WrittenOK
<1>5. Mid = <<>> /\ Mid' = <<>>
  BY <1>1, <1>2, NothingBegun DEF Mid
<1>6. FilesOK'
  BY <1>2, <1>3, <1>5 DEF LogInv, FilesOK
<1>7. CallOK' /\ ReplaceOK' /\ ProcessOK'
  BY <1>1, <1>2 DEF CallOK, ReplaceOK, ProcessOK, At, Replaced
<1>8. AckedOK'
  BY <1>2, <1>4 DEF AckedOK, Recs
<1> QED
  BY <1>6, <1>7, <1>8 DEF LogInv

(* replace_all fails: the writer may be left on the file replaced.         *)
LEMMA ReplaceFailsKeeps ==
    ASSUME LogInv, ReplaceFails
    PROVE  LogInv'
<1>1. /\ call.op = "replace" /\ open
      /\ call' = Idle /\ call'.op = "none" /\ file' = file /\ old' = old /\ open' = open
      /\ attached' = attached /\ acked' = acked /\ unsure' = TRUE
  BY CallFields DEF ReplaceFails, LogInv, ProcessOK
<1>2. Mid = <<>> /\ Mid' = <<>>
  BY <1>1, NothingBegun DEF Mid
<1>3. FilesOK'
  BY <1>1, <1>2 DEF LogInv, FilesOK
<1>4. CallOK' /\ ReplaceOK' /\ ProcessOK' /\ AckedOK'
  BY <1>1 DEF LogInv, CallOK, ReplaceOK, ProcessOK, At, Replaced, AckedOK
<1> QED
  BY <1>3, <1>4 DEF LogInv

(* The file a power failure starts from.                                   *)
LEMMA Survivor ==
    ASSUME LogInv, PowerFails
    PROVE  \E f : /\ f \in {file, old} /\ f # NONE /\ file' \in AfterPowerFailure(f)
                  /\ \E mid : FileOK(f, mid)
BY DEF PowerFails, LogInv, FilesOK

(* The power fails.                                                        *)
LEMMA PowerFailsKeeps ==
    ASSUME LogInv, PowerFails
    PROVE  LogInv'
<1>1. /\ call' = Idle /\ call'.op = "none" /\ old' = NONE /\ open' = FALSE
      /\ attached' = TRUE /\ unsure' = TRUE
  BY CallFields DEF PowerFails
<1>2. Mid' = <<>>
  BY <1>1, NothingBegun DEF Mid
<1>3. FileOK(file', <<>>)
  BY Survivor, PowerCut
<1>4. FilesOK'
  BY <1>1, <1>2, <1>3 DEF FilesOK
<1>5. CallOK' /\ ReplaceOK' /\ ProcessOK' /\ AckedOK'
  BY <1>1 DEF CallOK, ReplaceOK, ProcessOK, At, Replaced, AckedOK
<1> QED
  BY <1>4, <1>5 DEF LogInv

(* Steps that change nothing.                                              *)
LEMMA StutterKeeps ==
    ASSUME LogInv, UNCHANGED vars
    PROVE  LogInv'
<1>1. /\ file' = file /\ old' = old /\ temp' = temp /\ open' = open /\ attached' = attached
      /\ call' = call /\ acked' = acked /\ unsure' = unsure
  BY DEF vars
<1> QED
  BY <1>1 DEF LogInv, FilesOK, Mid, CallOK, ReplaceOK, ProcessOK, AckedOK, At, Replaced

(* Every step of the log keeps the invariant.                              *)
LEMMA NextKeeps == LogInv /\ [Next]_vars => LogInv'
BY OpenLogKeeps, BeginAppendKeeps, AppendWritesKeeps, AppendFailsKeeps, BeginReplaceKeeps,
   WriteTempKeeps, SyncTempKeeps, RenameKeeps, SyncDirKeeps, RepointKeeps, ReplaceFailsKeeps,
   DieKeeps, PowerFailsKeeps, StutterKeeps DEF Next

(* In every reachable state the invariant holds.                           *)
THEOREM LogSound == Spec => []LogInv
BY InitInv, NextKeeps, PTL DEF Spec

(* A replay returns, in order, what was in the log when it was opened or   *)
(* replaced and what was appended since, unless an append went behind a    *)
(* record cut short (read_all of block_log.rs after append).               *)
THEOREM AckedAlwaysReadable == Spec => []AckedReadable
<1>1. ASSUME LogInv PROVE AckedReadable
  <2> SUFFICES ASSUME call = Idle, ~unsure, file.torn # "inside"
               PROVE  /\ ReadAll(file.bytes).records = acked
                      /\ file.torn = "no" => ReadAll(file.bytes).ok
    BY DEF AckedReadable
  <2>1. call.op = "none" /\ Mid = <<>> /\ ~Replaced
    BY CallFields, NothingBegun DEF Mid, Replaced, At
  <2>2. ReadAll(file.bytes).records = acked
    BY <1>1, <2>1 DEF LogInv, AckedOK
  <2>3. FileOK(file, <<>>)
    BY <1>1, <2>1 DEF LogInv, FilesOK
  <2>4. PICK part : IsLog(file.bytes, Recs(file), part) /\ (file.torn = "no" => part = <<>>)
    BY <2>3, FileHolds
  <2>5. file.torn = "no" => ReadAll(file.bytes).ok
    BY <2>4, ReadsLog
  <2> QED
    BY <2>2, <2>5
<1> QED
  BY LogSound, <1>1, PTL

----------------------------------------------------------------------------
(* The log implements AtomicLog.                                           *)

Broken == file.torn = "inside" \/ (~attached /\ call.op # "replace")

(* Records with a truth value.                                             *)
LEMMA Views ==
    ASSUME NEW r, NEW k, NEW b \in BOOLEAN, NEW c \in BOOLEAN
    PROVE  /\ [[records |-> r, kept |-> k, broken |-> b] EXCEPT !.broken = @ \/ c]
                = [records |-> r, kept |-> k, broken |-> b \/ c]
           /\ ~b => [records |-> r, kept |-> k, broken |-> b]
                     = [records |-> r, kept |-> k, broken |-> FALSE]
<1>1. [[records |-> r, kept |-> k, broken |-> b] EXCEPT !.broken = @ \/ c]
        = [records |-> r, kept |-> k, broken |-> b \/ c]
  <2>1. CASE b = TRUE
    BY <2>1
  <2>2. CASE b = FALSE /\ c = TRUE
    BY <2>2
  <2>3. CASE b = FALSE /\ c = FALSE
    BY <2>3
  <2> QED
    BY <2>1, <2>2, <2>3
<1>2. ~b => b = FALSE
  OBVIOUS
<1>3. ~b => [records |-> r, kept |-> k, broken |-> b]
            = [records |-> r, kept |-> k, broken |-> FALSE]
  BY <1>2
<1> QED
  BY <1>1, <1>3

(* Changing another field of such a record.                                *)
LEMMA ViewExcept ==
    ASSUME NEW x, NEW r, NEW k, NEW b, x = [records |-> r, kept |-> k, broken |-> b], NEW u
    PROVE  [x EXCEPT !.records = u] = [records |-> u, kept |-> k, broken |-> b]
OBVIOUS

(* A version, field by field.                                              *)
LEMMA VersionIs ==
    ASSUME NEW f
    PROVE  Version(f) = [records |-> Recs(f), kept |-> Kept(f), broken |-> f.torn = "inside"]
BY DEF Version, Recs, Kept

(* The abstract state, field by field.                                     *)
LEMMA CurrentIs ==
    /\ Current = [records |-> Recs(file), kept |-> Kept(file), broken |-> Broken]
    /\ Current' = [records |-> Recs(file'), kept |-> Kept(file'), broken |-> Broken']
    /\ ~Broken => Current = [records |-> Recs(file), kept |-> Kept(file), broken |-> FALSE]
    /\ ~Broken'
         => Current' = [records |-> Recs(file'), kept |-> Kept(file'), broken |-> FALSE]
<1> DEFINE r == Recs(file)
           k == Kept(file)
           b == file.torn = "inside"
           c == ~attached /\ call.op # "replace"
           r1 == Recs(file')
           k1 == Kept(file')
           b1 == file'.torn = "inside"
           c1 == ~attached' /\ call'.op # "replace"
<1>1. b \in BOOLEAN /\ c \in BOOLEAN /\ b1 \in BOOLEAN /\ c1 \in BOOLEAN
  OBVIOUS
<1>2. /\ Version(file) = [records |-> r, kept |-> k, broken |-> b]
      /\ Version(file') = [records |-> r1, kept |-> k1, broken |-> b1]
  BY VersionIs
<1>3. /\ Current = [Version(file) EXCEPT !.broken = @ \/ c]
      /\ Current' = [Version(file') EXCEPT !.broken = @ \/ c1]
      /\ Broken = (b \/ c) /\ Broken' = (b1 \/ c1)
  BY DEF Current, Version, Broken
<1> HIDE DEF r, k, b, c, r1, k1, b1, c1
<1>4. /\ [[records |-> r, kept |-> k, broken |-> b] EXCEPT !.broken = @ \/ c]
           = [records |-> r, kept |-> k, broken |-> b \/ c]
      /\ [[records |-> r1, kept |-> k1, broken |-> b1] EXCEPT !.broken = @ \/ c1]
           = [records |-> r1, kept |-> k1, broken |-> b1 \/ c1]
  BY <1>1, Views
<1>5. /\ Current = [records |-> r, kept |-> k, broken |-> b \/ c]
      /\ Current' = [records |-> r1, kept |-> k1, broken |-> b1 \/ c1]
  BY <1>2, <1>3, <1>4
<1>6. Broken \in BOOLEAN /\ Broken' \in BOOLEAN
  BY DEF Broken
<1>7. /\ Current = [records |-> r, kept |-> k, broken |-> Broken]
      /\ Current' = [records |-> r1, kept |-> k1, broken |-> Broken']
  BY <1>3, <1>5
<1>8. ~Broken => Current = [records |-> r, kept |-> k, broken |-> FALSE]
  BY <1>6, <1>7, Views
<1>9. ~Broken' => Current' = [records |-> r1, kept |-> k1, broken |-> FALSE]
  BY <1>6, <1>7, Views
<1> QED
  BY <1>7, <1>8, <1>9 DEF r, k, r1, k1

(* Its fields.                                                             *)
LEMMA CurrentFields ==
    /\ Current.records = Recs(file) /\ Current.kept = Kept(file) /\ (Current.broken <=> Broken)
    /\ Current'.records = Recs(file') /\ Current'.kept = Kept(file')
    /\ (Current'.broken <=> Broken')
BY CurrentIs

(* The version that may come back, field by field.                         *)
LEMMA PreviousIs ==
    ASSUME old # NONE
    PROVE  Previous = [records |-> Recs(old), kept |-> Kept(old), broken |-> old.torn = "inside"]
BY VersionIs DEF Previous

(* Steps AtomicLog does not see.                                           *)
LEMMA Unseen ==
    ASSUME Recs(file') = Recs(file), Kept(file') = Kept(file), Broken' <=> Broken, old' = old
    PROVE  UNCHANGED Atomic!vars
<1>1. Current' = Current
  BY CurrentIs
<1>2. Previous' = Previous
  BY DEF Previous, Version
<1> QED
  BY <1>1, <1>2 DEF Atomic!vars

(* Steps that end its promise, and steps after its end.                    *)
LEMMA Promise == (Broken \/ Broken') => Atomic!Next
BY CurrentFields DEF Atomic!Next, Atomic!Break

(* Where the promise holds, an append goes to the file at path.            *)
LEMMA AppendsToFile ==
    ASSUME ~Broken, call.op = "append", NEW f, NEW g, Put(f, g)
    PROVE  attached /\ file.torn # "inside" /\ file' = f /\ old' = old
BY DEF Broken, Put

(* An append cut short is not seen, or ends the promise.                   *)
LEMMA CutRefines ==
    ASSUME LogInv, call.op = "append", NEW part \in Parts(Head(call.writes)),
           Put(CutShort(file, part), CutShort(old, part)), attached' = attached \/ attached' = TRUE
    PROVE  Atomic!Next \/ UNCHANGED Atomic!vars
<1> SUFFICES ASSUME ~Broken, ~Broken' PROVE UNCHANGED Atomic!vars
  BY Promise
<1>1. attached /\ file' = CutShort(file, part) /\ old' = old
  BY AppendsToFile
<1>2. Same(file, file') /\ file'.torn # "inside"
  BY <1>1, CutKeeps DEF Broken, LogInv, FilesOK
<1> QED
  BY <1>1, <1>2, Unseen DEF Same

(* The first write of append is not seen, the second adds the record.      *)
LEMMA AppendWritesRefines ==
    ASSUME LogInv, AppendWrites
    PROVE  Atomic!Next \/ UNCHANGED Atomic!vars
<1> SUFFICES ASSUME ~Broken, ~Broken' PROVE Atomic!Next \/ UNCHANGED Atomic!vars
  BY Promise
<1>1. PICK r \in Record : \/ call = Appending(r, <<Header(r), r>>)
                          \/ call = Appending(r, <<r>>)
  BY CallCases DEF LogInv, AppendWrites
<1>2. /\ attached /\ file' = Appended(file, Head(call.writes)) /\ old' = old
      /\ FileOK(file, Mid) /\ file'.torn # "inside"
  BY AppendsToFile DEF AppendWrites, LogInv, FilesOK, Broken
<1>3. CASE call = Appending(r, <<Header(r), r>>)
  <2>1. Mid = <<>> /\ Head(call.writes) = Header(r)
    BY <1>3, AppendingFacts
  <2>2. Same(file, file')
    BY <1>2, <2>1, HeaderAppended
  <2> QED
    BY <1>2, <2>2, Unseen DEF Same
<1>4. CASE call = Appending(r, <<r>>)
  <2>1. Mid = Header(r) /\ Head(call.writes) = r
    BY <1>4, AppendingFacts
  <2>2. Kept(file') = Kept(file) /\ Recs(file') = Append(Recs(file), r)
    BY <1>2, <2>1, PayloadAppended
  <2>3. Current' = [Current EXCEPT !.records = Append(@, r)]
    <3> DEFINE cur == Current
               b == cur.broken
               us == Append(cur.records, r)
               k == cur.kept
    <3>1. /\ cur = [records |-> Recs(file), kept |-> Kept(file), broken |-> FALSE]
          /\ Current' = [records |-> Recs(file'), kept |-> Kept(file'), broken |-> FALSE]
      BY CurrentIs
    <3>2. cur.records = Recs(file) /\ cur.kept = Kept(file) /\ cur.broken = FALSE
      BY <3>1
    <3>3. cur = [records |-> cur.records, kept |-> k, broken |-> b]
      BY <3>1, <3>2
    <3>4. Current' = [records |-> us, kept |-> k, broken |-> b]
      BY <2>2, <3>1, <3>2
    <3> HIDE DEF b, us, k, cur
    <3>5. [cur EXCEPT !.records = us] = [records |-> us, kept |-> k, broken |-> b]
      BY <3>3, ViewExcept
    <3> QED
      BY <3>4, <3>5 DEF cur, us
  <2>4. Previous' = Previous
    BY <1>2 DEF Previous, Version
  <2> QED
    BY <2>3, <2>4 DEF Atomic!Next, Atomic!AppendRecord
<1> QED
  BY <1>1, <1>3, <1>4

(* The rename replaces the log as a whole.                                 *)
LEMMA RenameRefines ==
    ASSUME LogInv, Rename
    PROVE  Atomic!Next
<1> DEFINE rs == call.records
<1>1. rs \in Compaction /\ call.op = "replace"
  BY CallCases DEF LogInv, Rename, At
<1>2. call'.op = "replace"
  <2>1. call = Replacing(rs, call.step) /\ Goto("sync dir")
    BY CallCases DEF LogInv, Rename, At
  <2>2. call' = Replacing(rs, "sync dir")
    BY <2>1, GotoIs
  <2> QED
    BY <2>2, CallFields
<1>3. file' = Written(rs, Len(Encode(rs))) /\ old' = file
  BY DEF Rename, LogInv, ReplaceOK
<1>4. Recs(file') = rs /\ Kept(file') = Len(rs) /\ file'.torn = "no"
  BY <1>1, <1>3, CompactionType, WrittenOK
<1>5. Current' = [records |-> rs, kept |-> Len(rs), broken |-> FALSE]
  <2>1. ~Broken'
    BY <1>2, <1>4 DEF Broken
  <2> QED
    BY <1>4, <2>1, CurrentIs
<1>6. Previous' = Current
  <2>1. file # NONE
    BY LogAssumption DEF LogInv, FilesOK, FileOK, Files
  <2>2. Previous' = Version(file)
    BY <1>3, <2>1 DEF Previous, Version
  <2>3. Version(file) = [records |-> Recs(file), kept |-> Kept(file),
                         broken |-> file.torn = "inside"]
    BY VersionIs
  <2>4. Broken <=> file.torn = "inside"
    BY <1>1 DEF Broken
  <2> QED
    BY <2>2, <2>3, <2>4, CurrentIs
<1> QED
  BY <1>1, <1>5, <1>6 DEF Atomic!Next, Atomic!Replace

(* Syncing the directory settles the replacement.                          *)
LEMMA SyncDirRefines ==
    ASSUME LogInv, SyncDir
    PROVE  Atomic!Next
<1>1. /\ call.op = "replace" /\ call'.op = "replace" /\ file' = file /\ attached' = attached
      /\ old' = NONE
  <2>1. call = Replacing(call.records, call.step) /\ Goto("repoint") /\ call.op = "replace"
    BY CallCases DEF LogInv, SyncDir, At
  <2>2. call' = Replacing(call.records, "repoint")
    BY <2>1, GotoIs
  <2>3. call'.op = "replace"
    BY <2>2, SMT DEF Replacing
  <2>4. file' = file /\ attached' = attached /\ old' = NONE
    BY DEF SyncDir
  <2> QED
    BY <2>1, <2>3, <2>4
<1>2. Current' = Current
  BY <1>1, CurrentIs DEF Broken
<1>3. Previous' = NONE
  BY <1>1 DEF Previous
<1> QED
  BY <1>2, <1>3 DEF Atomic!Next, Atomic!Settle

(* A power failure takes records off the end, none that was synced.        *)
LEMMA PowerFailsRefines ==
    ASSUME LogInv, PowerFails
    PROVE  Atomic!Next
<1> SUFFICES ASSUME ~Broken, ~Broken' PROVE Atomic!PowerFailure
  BY Promise DEF Atomic!Next
<1>1. file'.torn # "inside" /\ old' = NONE
  BY DEF Broken, PowerFails
<1>2. PICK f : /\ f \in {file, old} /\ f # NONE /\ file' \in AfterPowerFailure(f)
               /\ \E mid : FileOK(f, mid)
  BY Survivor
<1>3. /\ f.torn # "inside" /\ Recs(f) \in Seq(Record) /\ Kept(f) \in Nat
      /\ Kept(file') \in Kept(f)..Len(Recs(f))
      /\ Recs(file') = SubSeq(Recs(f), 1, Kept(file'))
  BY <1>1, <1>2, PowerCut
<1> DEFINE v == [records |-> Recs(f), kept |-> Kept(f), broken |-> FALSE]
<1>4. v \in {Current, Previous}
  <2>1. CASE f = file
    BY <2>1, CurrentIs
  <2>2. CASE f = old
    BY <1>2, <1>3, <2>2, PreviousIs
  <2> QED
    BY <1>2, <2>1, <2>2
<1>5. v # NONE
  <2>1. v \in [records : Seq(Record), kept : Nat, broken : BOOLEAN]
    BY <1>3
  <2> QED
    BY <2>1, LogAssumption
<1>6. v.records = Recs(f) /\ v.kept = Kept(f)
  OBVIOUS
<1>7. Current' = [records |-> Recs(file'), kept |-> Kept(file'), broken |-> FALSE]
  BY CurrentIs
<1>8. Previous' = NONE
  BY <1>1 DEF Previous
<1> HIDE DEF v
<1>9. Current' = [records |-> SubSeq(v.records, 1, Kept(file')), kept |-> Kept(file'),
                  broken |-> FALSE]
  BY <1>3, <1>6, <1>7
<1>10. Kept(file') \in v.kept..Len(v.records)
  BY <1>3, <1>6
<1>11. \E n \in v.kept..Len(v.records) :
          \/ v.broken
          \/ Current' = [records |-> SubSeq(v.records, 1, n), kept |-> n, broken |-> FALSE]
  <2> WITNESS Kept(file') \in v.kept..Len(v.records)
  <2> QED
    BY <1>9
<1>12. v \in {Current, Previous} \ {NONE}
  BY <1>4, <1>5
<1> QED
  BY <1>8, <1>11, <1>12, Zenon DEF Atomic!PowerFailure

(* Every step of the log is a step of AtomicLog or none.                   *)
LEMMA StepRefines ==
    ASSUME LogInv, [Next]_vars
    PROVE  [Atomic!Next]_(Atomic!vars)
<1> SUFFICES ASSUME ~Broken, ~Broken' PROVE Atomic!Next \/ UNCHANGED Atomic!vars
  BY Promise
<1>1. ASSUME file' = file, old' = old PROVE UNCHANGED Atomic!vars
  BY <1>1, Unseen
<1>2. CASE \/ OpenLog \/ \E r \in Record : BeginAppend(r)
           \/ \E rs \in Compaction : BeginReplace(rs)
  BY <1>1, <1>2 DEF OpenLog, BeginAppend, BeginReplace
<1>3. CASE AppendWrites
  BY <1>3, AppendWritesRefines
<1>4. CASE AppendFails
  BY <1>4, CutRefines DEF AppendFails
<1>5. CASE WriteTemp \/ SyncTemp \/ Repoint \/ ReplaceFails
  BY <1>1, <1>5 DEF WriteTemp, SyncTemp, Repoint, ReplaceFails
<1>6. CASE Rename \/ SyncDir \/ PowerFails
  BY <1>6, RenameRefines, SyncDirRefines, PowerFailsRefines
<1>7. CASE Die
  <2>1. CASE call.op = "append"
    BY <1>7, <2>1, CutRefines DEF Die
  <2>2. CASE call.op # "append"
    BY <1>1, <1>7, <2>2 DEF Die
  <2> QED
    BY <2>1, <2>2
<1>8. CASE UNCHANGED vars
  BY <1>1, <1>8 DEF vars
<1> QED
  BY <1>2, <1>3, <1>4, <1>5, <1>6, <1>7, <1>8 DEF Next

(* The empty file is the empty log.                                        *)
LEMMA InitRefines == Init => Atomic!Init
<1> SUFFICES ASSUME Init PROVE Atomic!Init
  OBVIOUS
<1>1. <<>> \in Seq(Record) /\ Encode(<<>>) = <<>> /\ Len(<<>>) = 0
  BY EncodeFacts
<1>2. file = Written(<<>>, Len(Encode(<<>>)))
  BY <1>1 DEF Init, EmptyFile, Written
<1>3. Recs(file) = <<>> /\ Kept(file) = 0 /\ file.torn = "no"
  BY <1>1, <1>2, WrittenOK
<1>4. ~Broken
  BY <1>3 DEF Broken, Init
<1>5. Current = [records |-> <<>>, kept |-> 0, broken |-> FALSE]
  BY <1>3, <1>4, CurrentIs
<1>6. Previous = NONE
  BY DEF Previous, Init
<1> QED
  BY <1>5, <1>6 DEF Atomic!Init

(* A crash or an I/O error at any system call of append and replace_all,   *)
(* or a power failure, leaves the old or the new log, or a log that is one *)
(* record longer, and takes nothing away that was synced (block_log.rs).   *)
THEOREM LogAlwaysAtomic == Spec => LogIsAtomic
<1>1. LogInv /\ [Next]_vars => [Atomic!Next]_(Atomic!vars)
  BY StepRefines
<1> QED
  BY InitRefines, LogSound, <1>1, PTL DEF Spec, LogIsAtomic, Atomic!Spec
=============================================================================
