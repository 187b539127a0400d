---------------------------- MODULE UploadProofs ----------------------------
(***************************************************************************)
(* Proofs about Upload for every boundary, every limit, every cutting of a *)
(* body into messages and of a file into reads, and every chunk and block  *)
(* size: type correctness, ClosedIffReceived, VerdictIsJustified,          *)
(* DecisionDependsOnFile and StoredIsTheFile.                              *)
(*                                                                         *)
(* The body's invariant is that the tail kept is the end of what has been  *)
(* received (IsTail): BoundaryIsNotMissed says that then a boundary in the *)
(* whole is in the part before, in the message, or across the two where    *)
(* the tail shows it.  The file's invariant says for each place in         *)
(* ValidatedFileStream what the bytes read so far have shown of the file.  *)
(* The blocks' invariant is that the replay so far is in full blocks and a *)
(* buffer shorter than one, which division with remainder preserves.  Stage *)
(* and Left are a file's variant.                                          *)
(***************************************************************************)
EXTENDS Upload, Integers, TLAPS

\* t is the last n bytes of s, or all of it.
IsTail(t, s, n) ==
  /\ Len(t) = SmallerOf(n, Len(s))
  /\ \A j \in 1..Len(t) : t[j] = s[Len(s) - Len(t) + j]

BodyInv ==
  /\ BodyTypeOK
  /\ form /\ outcome # "413" => IsTail(tail, body, Overlap)
  /\ outcome = "new" => body = <<>>
  /\ ClosedIffReceived
  /\ VerdictIsJustified
  /\ outcome \in {"new", "reading"} => Len(body) <= Limit

-----------------------------------------------------------------------------
(* Sequences *)

\* Concatenation by index.
LEMMA ConcatByIndex ==
  ASSUME NEW S, NEW s \in Seq(S), NEW t \in Seq(S)
  PROVE  /\ s \o t \in Seq(S)
         /\ Len(s \o t) = Len(s) + Len(t)
         /\ \A i \in 1..Len(s) : (s \o t)[i] = s[i]
         /\ \A i \in 1..Len(t) : (s \o t)[Len(s) + i] = t[i]
  OBVIOUS

\* Append by index.
LEMMA AppendByIndex ==
  ASSUME NEW S, NEW s \in Seq(S), NEW e \in S
  PROVE  /\ Append(s, e) \in Seq(S)
         /\ Len(Append(s, e)) = Len(s) + 1
         /\ Append(s, e)[Len(s) + 1] = e
         /\ \A i \in 1..Len(s) : Append(s, e)[i] = s[i]
  OBVIOUS

\* FirstBytes and LastBytes by index.
LEMMA FirstByIndex ==
  ASSUME NEW S, NEW s \in Seq(S), NEW n \in Nat
  PROVE  /\ FirstBytes(s, n) \in Seq(S)
         /\ Len(FirstBytes(s, n)) = SmallerOf(n, Len(s))
         /\ \A j \in 1..SmallerOf(n, Len(s)) : FirstBytes(s, n)[j] = s[j]
<1>1. SmallerOf(n, Len(s)) \in 0..Len(s)
  BY DEF SmallerOf
<1> QED
  BY <1>1 DEF FirstBytes

LEMMA LastByIndex ==
  ASSUME NEW S, NEW s \in Seq(S), NEW n \in Nat
  PROVE  LastBytes(s, n) \in Seq(S) /\ IsTail(LastBytes(s, n), s, n)
<1> DEFINE k == SmallerOf(n, Len(s))
<1>1. k \in 0..Len(s)
  BY DEF SmallerOf
<1> HIDE DEF k
<1>2. /\ SubSeq(s, Len(s) - k + 1, Len(s)) \in Seq(S)
      /\ Len(SubSeq(s, Len(s) - k + 1, Len(s))) = k
      /\ \A j \in 1..k : SubSeq(s, Len(s) - k + 1, Len(s))[j] = s[Len(s) - k + j]
  BY <1>1
<1> QED
  BY <1>2 DEF LastBytes, IsTail, k

\* What it takes to include a sequence.
LEMMA IncludesIntro ==
  ASSUME NEW s, NEW p, NEW k \in 0..Len(s), k + Len(p) <= Len(s),
         \A j \in 1..Len(p) : s[k + j] = p[j]
  PROVE  Includes(s, p)
  BY Zenon DEF Includes

\* A boundary in b \o c is in b, in c, or across the two, where the tail of b
\* and the beginning of c show it: nothing shorter than the boundary less one
\* byte would do (_BodyLimit's overlap).
LEMMA BoundaryIsNotMissed ==
  ASSUME NEW S, NEW b \in Seq(S), NEW c \in Seq(S), NEW p \in Seq(S), Len(p) > 1,
         NEW t \in Seq(S), IsTail(t, b, Len(p) - 1)
  PROVE  Includes(b \o c, p) <=> \/ Includes(b, p)
                                 \/ Includes(c, p)
                                 \/ Includes(t \o FirstBytes(c, Len(p) - 1), p)
<1> DEFINE o == Len(p) - 1
           f == FirstBytes(c, o)
           d == b \o c
           e == t \o f
<1>1. /\ Len(b) \in Nat /\ Len(c) \in Nat /\ Len(p) \in Nat /\ o \in Nat
      /\ Len(t) \in Nat
  OBVIOUS
<1>2. /\ f \in Seq(S) /\ Len(f) = SmallerOf(o, Len(c))
      /\ \A j \in 1..Len(f) : f[j] = c[j]
  BY <1>1, FirstByIndex
<1>3. /\ Len(d) = Len(b) + Len(c)
      /\ \A i \in 1..Len(b) : d[i] = b[i]
      /\ \A i \in 1..Len(c) : d[Len(b) + i] = c[i]
  BY ConcatByIndex
<1>4. /\ Len(e) = Len(t) + Len(f)
      /\ \A i \in 1..Len(t) : e[i] = t[i]
      /\ \A i \in 1..Len(f) : e[Len(t) + i] = f[i]
  BY <1>2, ConcatByIndex
<1>5. /\ Len(t) = SmallerOf(o, Len(b))
      /\ \A j \in 1..Len(t) : t[j] = b[Len(b) - Len(t) + j]
  BY DEF IsTail
<1> DEFINE shift == Len(b) - Len(t)
<1>6. shift \in Nat /\ Len(f) \in Nat /\ Len(f) <= Len(c)
  BY <1>1, <1>2, <1>5 DEF SmallerOf
<1>7. \A i \in 1..Len(e) : d[shift + i] = e[i]
  <2> SUFFICES ASSUME NEW i \in 1..Len(e)
               PROVE  d[shift + i] = e[i]
    OBVIOUS
  <2>1. CASE i <= Len(t)
    <3>1. i \in 1..Len(t) /\ shift + i \in 1..Len(b)
      BY <1>1, <1>6, <2>1
    <3> QED
      BY <1>3, <1>4, <1>5, <3>1
  <2>2. CASE i > Len(t)
    <3>1. PICK k \in 1..Len(f) : i = Len(t) + k
      <4>1. i - Len(t) \in 1..Len(f) /\ i = Len(t) + (i - Len(t))
        BY <1>1, <1>4, <1>6, <2>2
      <4> QED
        BY <4>1
    <3>2. k \in 1..Len(c) /\ shift + i = Len(b) + k
      BY <1>1, <1>6, <3>1
    <3> QED
      BY <1>2, <1>3, <1>4, <3>1, <3>2
  <2> QED
    BY <1>1, <1>4, <1>6, <2>1, <2>2
<1>b. /\ Len(t) = o \/ Len(t) = Len(b)
      /\ Len(t) <= o /\ Len(t) <= Len(b)
  BY <1>1, <1>5 DEF SmallerOf
<1>c. Len(f) = o \/ Len(f) = Len(c)
  BY <1>1, <1>2 DEF SmallerOf
<1>d. Len(p) = o + 1
  BY <1>1
<1> HIDE DEF d, e, f, o, shift
<1>a. Len(d) \in Nat /\ Len(e) \in Nat
  BY <1>1, <1>3, <1>4, <1>6
<1>8. Includes(b, p) => Includes(d, p)
  <2> SUFFICES ASSUME NEW i \in 0..Len(b), i + Len(p) <= Len(b),
                      \A j \in 1..Len(p) : b[i + j] = p[j]
               PROVE  Includes(d, p)
    BY DEF Includes
  <2>1. i \in 0..Len(d) /\ i + Len(p) <= Len(d)
    BY <1>1, <1>3
  <2>2. \A j \in 1..Len(p) : d[i + j] = p[j]
    <3> SUFFICES ASSUME NEW j \in 1..Len(p)
                 PROVE  d[i + j] = p[j]
      OBVIOUS
    <3>1. i + j \in 1..Len(b)
      BY <1>1
    <3> QED
      BY <1>3, <3>1
  <2> QED
    BY <2>1, <2>2, IncludesIntro
<1>9. Includes(c, p) => Includes(d, p)
  <2> SUFFICES ASSUME NEW i \in 0..Len(c), i + Len(p) <= Len(c),
                      \A j \in 1..Len(p) : c[i + j] = p[j]
               PROVE  Includes(d, p)
    BY DEF Includes
  <2>1. Len(b) + i \in 0..Len(d) /\ Len(b) + i + Len(p) <= Len(d)
    BY <1>1, <1>3
  <2>2. \A j \in 1..Len(p) : d[Len(b) + i + j] = p[j]
    <3> SUFFICES ASSUME NEW j \in 1..Len(p)
                 PROVE  d[Len(b) + i + j] = p[j]
      OBVIOUS
    <3>1. i + j \in 1..Len(c) /\ Len(b) + i + j = Len(b) + (i + j)
      BY <1>1
    <3> QED
      BY <1>3, <3>1
  <2> QED
    BY <2>1, <2>2, IncludesIntro
<1>10. Includes(e, p) => Includes(d, p)
  <2> SUFFICES ASSUME NEW i \in 0..Len(e), i + Len(p) <= Len(e),
                      \A j \in 1..Len(p) : e[i + j] = p[j]
               PROVE  Includes(d, p)
    BY DEF Includes
  <2>1. shift + i \in 0..Len(d) /\ shift + i + Len(p) <= Len(d)
    BY <1>1, <1>3, <1>4, <1>6 DEF shift
  <2>2. \A j \in 1..Len(p) : d[shift + i + j] = p[j]
    <3> SUFFICES ASSUME NEW j \in 1..Len(p)
                 PROVE  d[shift + i + j] = p[j]
      OBVIOUS
    <3>1. i + j \in 1..Len(e) /\ shift + i + j = shift + (i + j)
      BY <1>1, <1>4, <1>6
    <3> QED
      BY <1>7, <3>1
  <2> QED
    BY <2>1, <2>2, IncludesIntro
<1>11. Includes(d, p) => Includes(b, p) \/ Includes(c, p) \/ Includes(e, p)
  <2> SUFFICES ASSUME NEW i \in 0..Len(d), i + Len(p) <= Len(d),
                      \A j \in 1..Len(p) : d[i + j] = p[j]
               PROVE  Includes(b, p) \/ Includes(c, p) \/ Includes(e, p)
    BY DEF Includes
  <2>1. CASE i + Len(p) <= Len(b)
    <3>1. i \in 0..Len(b) /\ \A j \in 1..Len(p) : b[i + j] = p[j]
      BY <1>1, <1>3, <2>1
    <3> QED
      BY <2>1, <3>1, IncludesIntro
  <2>2. CASE i >= Len(b)
    <3> DEFINE k == i - Len(b)
    <3>1. k \in 0..Len(c) /\ k + Len(p) <= Len(c) /\ i = Len(b) + k
      BY <1>1, <1>3, <2>2
    <3> HIDE DEF k
    <3>2. \A j \in 1..Len(p) : c[k + j] = p[j]
      <4> SUFFICES ASSUME NEW j \in 1..Len(p)
                   PROVE  c[k + j] = p[j]
        OBVIOUS
      <4>1. k + j \in 1..Len(c) /\ i + j = Len(b) + (k + j)
        BY <1>1, <3>1
      <4> QED
        BY <1>3, <4>1
    <3> QED
      BY <3>1, <3>2, IncludesIntro
  <2>3. CASE i < Len(b) /\ i + Len(p) > Len(b)
    <3> DEFINE k == i - shift
    <3>1. k \in 0..Len(e) /\ k + Len(p) <= Len(e) /\ i = shift + k
      BY <1>1, <1>3, <1>4, <1>6, <1>b, <1>c, <1>d, <2>3 DEF shift
    <3> HIDE DEF k
    <3>2. \A j \in 1..Len(p) : e[k + j] = p[j]
      <4> SUFFICES ASSUME NEW j \in 1..Len(p)
                   PROVE  e[k + j] = p[j]
        OBVIOUS
      <4>1. k + j \in 1..Len(e) /\ i + j = shift + (k + j)
        BY <1>1, <1>a, <1>6, <3>1
      <4> QED
        BY <1>7, <4>1
    <3> QED
      BY <3>1, <3>2, IncludesIntro
  <2> QED
    BY <1>1, <1>3, <2>1, <2>2, <2>3
<1> QED
  BY <1>8, <1>9, <1>10, <1>11 DEF d, e, f, o

\* The smaller of two numbers is one of them, and no greater than either.
LEMMA SmallerOfBounds ==
  ASSUME NEW o \in Nat, NEW x \in Nat
  PROVE  /\ SmallerOf(o, x) \in Nat /\ SmallerOf(o, x) <= o /\ SmallerOf(o, x) <= x
         /\ SmallerOf(o, x) = o \/ SmallerOf(o, x) = x
  BY DEF SmallerOf

\* The smaller of o and a sum is not changed by cutting its terms at o.
LEMMA SmallerOfSum ==
  ASSUME NEW o \in Nat, NEW x \in Nat, NEW y \in Nat
  PROVE  SmallerOf(o, SmallerOf(o, x) + SmallerOf(o, y)) = SmallerOf(o, x + y)
<1>1. CASE o < x
  BY <1>1 DEF SmallerOf
<1>2. CASE o < y
  BY <1>2 DEF SmallerOf
<1>3. CASE ~(o < x) /\ ~(o < y)
  BY <1>3 DEF SmallerOf
<1> QED
  BY <1>1, <1>2, <1>3

\* The new tail is the tail of the new whole, whether the message is longer than
\* the overlap or shorter.
LEMMA TailIsKept ==
  ASSUME NEW S, NEW b \in Seq(S), NEW c \in Seq(S), NEW o \in Nat,
         NEW t \in Seq(S), IsTail(t, b, o)
  PROVE  /\ LastBytes(t \o LastBytes(c, o), o) \in Seq(S)
         /\ IsTail(LastBytes(t \o LastBytes(c, o), o), b \o c, o)
<1>0. PICK q, e, u, d :
        q = LastBytes(c, o) /\ e = t \o q /\ u = LastBytes(e, o) /\ d = b \o c
  OBVIOUS
<1>1. /\ Len(b) \in Nat /\ Len(c) \in Nat /\ Len(t) \in Nat
  OBVIOUS
<1>2. q \in Seq(S) /\ Len(q) = SmallerOf(o, Len(c))
      /\ \A j \in 1..Len(q) : q[j] = c[Len(c) - Len(q) + j]
  BY <1>0, LastByIndex DEF IsTail
<1>3. /\ d \in Seq(S) /\ Len(d) = Len(b) + Len(c)
      /\ \A i \in 1..Len(b) : d[i] = b[i]
      /\ \A i \in 1..Len(c) : d[Len(b) + i] = c[i]
  BY <1>0, ConcatByIndex
<1>4. /\ e \in Seq(S) /\ Len(e) = Len(t) + Len(q)
      /\ \A i \in 1..Len(t) : e[i] = t[i]
      /\ \A i \in 1..Len(q) : e[Len(t) + i] = q[i]
  BY <1>0, <1>2, ConcatByIndex
<1>5. u \in Seq(S) /\ Len(u) = SmallerOf(o, Len(e))
      /\ \A j \in 1..Len(u) : u[j] = e[Len(e) - Len(u) + j]
  <2>1. e \in Seq(S) /\ u = LastBytes(e, o)
    BY <1>0, <1>4
  <2> QED
    BY <2>1, LastByIndex DEF IsTail
<1>6. Len(t) = SmallerOf(o, Len(b)) /\ \A j \in 1..Len(t) : t[j] = b[Len(b) - Len(t) + j]
  BY DEF IsTail
<1>7. /\ Len(q) \in Nat /\ Len(e) \in Nat /\ Len(u) \in Nat /\ Len(d) \in Nat
  BY <1>2, <1>3, <1>4, <1>5
<1>a. /\ Len(q) = SmallerOf(o, Len(c)) /\ Len(d) = Len(b) + Len(c)
      /\ Len(e) = Len(t) + Len(q) /\ Len(u) = SmallerOf(o, Len(e))
      /\ Len(t) = SmallerOf(o, Len(b))
  BY <1>2, <1>3, <1>4, <1>5, <1>6
<1>b. /\ Len(q) <= Len(c) /\ Len(t) <= Len(b) /\ Len(u) <= Len(e) /\ Len(u) <= o
      /\ Len(q) = o \/ Len(q) = Len(c)
  BY <1>1, <1>7, <1>a, SmallerOfBounds
<1>c. Len(d) = Len(b) + Len(c) /\ Len(e) = Len(t) + Len(q)
  BY <1>a
<1>8. Len(u) = SmallerOf(o, Len(d))
  BY <1>1, <1>a, SmallerOfSum
<1>9. \A j \in 1..Len(u) : u[j] = d[Len(d) - Len(u) + j]
  <2> SUFFICES ASSUME NEW j \in 1..Len(u)
               PROVE  u[j] = d[Len(d) - Len(u) + j]
    OBVIOUS
  <2>j. j \in Nat /\ 1 <= j /\ j <= Len(u)
    BY <1>7
  <2>0. PICK m \in 1..Len(e) : m = Len(e) - Len(u) + j
    <3>1. Len(e) - Len(u) + j \in 1..Len(e)
      BY <1>7, <2>j, <1>b
    <3> QED
      BY <3>1
  <2>m. m \in Int /\ j \in Int
    BY <1>7, <2>j
  <2>n. Len(t) \in Int /\ Len(q) \in Int /\ Len(u) \in Int /\ Len(b) \in Int /\ Len(c) \in Int
    BY <1>1, <1>7
  <2>1. u[j] = e[m]
    BY <1>5, <2>0
  <2>2. CASE m > Len(t)
    <3>1. PICK k \in 1..Len(q) : m = Len(t) + k
      <4>1. m - Len(t) \in 1..Len(q) /\ m = Len(t) + (m - Len(t))
        BY <1>1, <1>7, <1>a, <2>2
      <4> QED
        BY <4>1
    <3>2. PICK l \in 1..Len(c) : l = Len(c) - Len(q) + k
      <4>1. Len(c) - Len(q) + k \in 1..Len(c)
        BY <1>1, <1>7, <1>b
      <4> QED
        BY <4>1
    <3>k. k \in Int /\ l \in Int
      BY <1>1, <1>7
    <3>3. Len(b) + l = Len(d) - Len(u) + j
      <4>1. Len(t) + k = Len(t) + Len(q) - Len(u) + j
        BY <1>c, <2>0, <3>1
      <4>2. k = Len(q) - Len(u) + j
        BY <2>m, <2>n, <3>k, <4>1
      <4>3. l = Len(c) - Len(q) + (Len(q) - Len(u) + j)
        BY <3>2, <4>2
      <4> QED
        BY <1>c, <2>m, <2>n, <4>3
    <3>4. e[m] = q[k]
      BY <1>4, <3>1
    <3>5. q[k] = c[l]
      BY <1>2, <3>2
    <3>6. d[Len(b) + l] = c[l]
      BY <1>3, <3>2
    <3> QED
      BY <2>1, <3>3, <3>4, <3>5, <3>6
  <2>3. CASE m <= Len(t)
    <3>1. m \in 1..Len(t)
      BY <1>1, <1>7, <2>3
    <3>a. Len(u) > Len(q)
      BY <1>1, <1>7, <1>a, <2>0, <2>j, <2>3
    <3>2. Len(q) = Len(c)
      BY <1>1, <1>7, <1>b, <3>a
    <3>3. PICK l \in 1..Len(b) : l = Len(b) - Len(t) + m
      <4>1. Len(b) - Len(t) + m \in 1..Len(b)
        BY <1>1, <3>1, <1>b
      <4> QED
        BY <4>1
    <3>k. l \in Int
      BY <1>1
    <3>4. l = Len(d) - Len(u) + j
      <4>1. m = Len(t) + Len(c) - Len(u) + j
        BY <1>c, <2>0, <3>2
      <4>2. m - Len(t) = Len(c) - Len(u) + j
        BY <2>m, <2>n, <4>1
      <4>3. l = Len(b) + (m - Len(t))
        BY <2>m, <2>n, <3>3
      <4>4. l = Len(b) + (Len(c) - Len(u) + j)
        BY <4>2, <4>3
      <4> QED
        BY <1>c, <2>m, <2>n, <4>4
    <3>5. e[m] = t[m] /\ t[m] = b[l]
      BY <1>4, <1>6, <3>1, <3>3
    <3> QED
      BY <1>3, <2>1, <3>3, <3>4, <3>5
  <2> QED
    BY <1>1, <1>7, <2>1, <2>2, <2>3
<1> QED
  BY <1>0, <1>5, <1>8, <1>9 DEF IsTail

-----------------------------------------------------------------------------
(* The body *)

\* A message is a sequence of bytes.
LEMMA ChunksAreSequences == \A chunk \in Chunks : chunk \in Seq(Bytes)
<1> SUFFICES ASSUME NEW n \in 0..MaxChunk, NEW chunk \in [1..n -> Bytes]
             PROVE  chunk \in Seq(Bytes)
  BY DEF Chunks
<1>1. n \in Nat
  BY NumbersAssumption
<1> QED
  BY <1>1

\* The overlap is a number and leaves the boundary one byte.
LEMMA OverlapIsANumber == Overlap \in Nat /\ Overlap = Len(Boundary) - 1
  BY BoundaryAssumption DEF Overlap

\* Nothing has been received at first.
LEMMA BodyBegins == BodyInit => BodyInv
<1> SUFFICES ASSUME BodyInit
             PROVE  BodyInv
  OBVIOUS
<1>1. body = <<>> /\ tail = <<>> /\ received = 0 /\ ~closed /\ outcome = "new"
  BY DEF BodyInit
<1>2. Len(<<>>) = 0 /\ <<>> \in Seq(Bytes)
  OBVIOUS
<1>3. ~Includes(body, Boundary)
  BY <1>1, <1>2, BoundaryAssumption DEF Includes
<1>4. SmallerOf(Overlap, 0) = 0 /\ Overlap \in Nat
  BY OverlapIsANumber DEF SmallerOf
<1>5. BodyTypeOK
  <2>1. Len(tail) <= Overlap /\ received = Len(body)
    BY <1>1, <1>2, <1>4
  <2> QED
    BY <1>1, <1>2, <2>1, Zenon DEF BodyInit, BodyTypeOK
<1>6. IsTail(tail, body, Overlap)
  BY <1>1, <1>2, <1>4 DEF IsTail
<1>7. Len(body) <= Limit
  BY <1>1, <1>2, NumbersAssumption
<1> QED
  BY <1>1, <1>3, <1>5, <1>6, <1>7 DEF BodyInv, ClosedIffReceived, VerdictIsJustified

\* A message within the limit keeps the tail and the flag right.
LEMMA ReceiveIsRight ==
  ASSUME BodyInv, NEW chunk \in Chunks, form, outcome = "reading"
  PROVE  /\ NextTail(chunk) \in Seq(Bytes)
         /\ IsTail(NextTail(chunk), body \o chunk, Overlap)
         /\ Len(NextTail(chunk)) <= Overlap
         /\ closed \/ Closes(chunk) <=> Includes(body \o chunk, Boundary)
<1>1. /\ chunk \in Seq(Bytes) /\ body \in Seq(Bytes) /\ tail \in Seq(Bytes)
      /\ IsTail(tail, body, Overlap)
      /\ closed <=> Includes(body, Boundary)
  BY ChunksAreSequences DEF BodyInv, BodyTypeOK, ClosedIffReceived
<1>2. /\ NextTail(chunk) \in Seq(Bytes)
      /\ IsTail(NextTail(chunk), body \o chunk, Overlap)
  BY <1>1, TailIsKept, OverlapIsANumber, Zenon DEF NextTail
<1>3. Len(NextTail(chunk)) <= Overlap
  <2>1. body \o chunk \in Seq(Bytes)
    BY <1>1
  <2>2. Len(NextTail(chunk)) = SmallerOf(Overlap, Len(body \o chunk))
    BY <1>2 DEF IsTail
  <2> QED
    BY <2>1, <2>2, OverlapIsANumber, SmallerOfBounds
<1>4. Includes(body \o chunk, Boundary) <=>
        \/ Includes(body, Boundary) \/ Includes(chunk, Boundary)
        \/ Includes(tail \o FirstBytes(chunk, Overlap), Boundary)
  <2>1. IsTail(tail, body, Len(Boundary) - 1)
    BY <1>1, Zenon DEF Overlap
  <2> QED
    BY <1>1, <2>1, BoundaryAssumption, BoundaryIsNotMissed, Zenon DEF Overlap
<1> QED
  BY <1>1, <1>2, <1>3, <1>4, Zenon DEF Closes

\* A message keeps the invariant, whatever its verdict.
LEMMA ReceiveKeepsBodyInv ==
  ASSUME BodyInv, NEW chunk \in Chunks, NEW more \in BOOLEAN, Receive(chunk, more)
  PROVE  BodyInv'
<1>1. /\ body \in Seq(Bytes) /\ chunk \in Seq(Bytes) /\ received = Len(body)
      /\ tail \in Seq(Bytes) /\ Len(tail) <= Overlap
  BY ChunksAreSequences DEF BodyInv, BodyTypeOK
<1>2. /\ body' \in Seq(Bytes) /\ body' = body \o chunk
      /\ Len(body') = Len(body) + Len(chunk)
      /\ received' = Len(body')
  BY <1>1 DEF Receive
<1>3. outcome = "reading" /\ UNCHANGED <<form, declared>>
  BY DEF Receive
<1>4. CASE TooLong(received')
  <2>1. outcome' = "413" /\ UNCHANGED <<tail, closed>> /\ Len(body') > Limit
    BY <1>2, <1>4 DEF Receive, TooLong
  <2> QED
    BY <1>1, <1>2, <1>3, <2>1
    DEF BodyInv, BodyTypeOK, ClosedIffReceived, VerdictIsJustified
<1>5. CASE ~TooLong(received')
  <2>1. Len(body') <= Limit
    BY <1>2, <1>5, NumbersAssumption DEF TooLong
  <2>2. outcome' = IF more THEN "reading" ELSE IF form /\ ~closed' THEN "400"
                                          ELSE "complete"
    BY <1>5 DEF Receive
  <2>3. CASE form
    <3>1. tail' = NextTail(chunk) /\ closed' = (closed \/ Closes(chunk))
      BY <1>5, <2>3 DEF Receive
    <3>2. /\ tail' \in Seq(Bytes) /\ Len(tail') <= Overlap
          /\ IsTail(tail', body', Overlap)
      BY <1>2, <1>3, <2>3, <3>1, ReceiveIsRight
    <3>3. closed' <=> Includes(body', Boundary)
      BY <1>2, <1>3, <2>3, <3>1, ReceiveIsRight
    <3>4. closed' \in BOOLEAN
      BY <3>1 DEF BodyInv, BodyTypeOK
    <3>5. BodyTypeOK'
      BY <1>2, <1>3, <2>2, <3>2, <3>4 DEF BodyInv, BodyTypeOK, Overlap
    <3> QED
      BY <1>3, <2>1, <2>2, <2>3, <3>2, <3>3, <3>5
      DEF BodyInv, ClosedIffReceived, VerdictIsJustified, Overlap
  <2>4. CASE ~form
    <3>1. UNCHANGED <<tail, closed>>
      BY <1>5, <2>4 DEF Receive
    <3>2. BodyTypeOK'
      BY <1>1, <1>2, <1>3, <2>2, <3>1 DEF BodyInv, BodyTypeOK, Overlap
    <3> QED
      BY <1>3, <2>1, <2>2, <2>4, <3>1, <3>2
      DEF BodyInv, ClosedIffReceived, VerdictIsJustified
  <2> QED
    BY <2>3, <2>4
<1> QED
  BY <1>4, <1>5

\* The invariant of the body is inductive.
LEMMA BodyInductive == BodyInv /\ [BodyNext]_bodyVars => BodyInv'
<1> SUFFICES ASSUME BodyInv, [BodyNext]_bodyVars
             PROVE  BodyInv'
  OBVIOUS
<1>1. CASE Start
  BY <1>1
  DEF Start, BodyInv, BodyTypeOK, ClosedIffReceived, VerdictIsJustified, Overlap
<1>2. CASE Disconnect
  BY <1>2
  DEF Disconnect, BodyInv, BodyTypeOK, ClosedIffReceived, VerdictIsJustified, Overlap
<1>3. CASE UNCHANGED bodyVars
  BY <1>3
  DEF bodyVars, BodyInv, BodyTypeOK, ClosedIffReceived, VerdictIsJustified, Overlap
<1> QED
  BY <1>1, <1>2, <1>3, ReceiveKeepsBodyInv DEF BodyNext

-----------------------------------------------------------------------------
(* The file *)

\* What the bytes read have shown of the file, at each place.
FileInv ==
  /\ size \in Nat /\ needs \in 0..Signature /\ needs <= size
  /\ pos \in Nat /\ pos <= size /\ header \in Nat /\ staged \in Nat
  /\ pc \in {"header", "detect", "body", "structure", "replay", "done"}
  /\ ~handed => pc = "header" /\ pos = 0 /\ header = 0
  /\ pc = "header" => header = pos /\ header <= Signature
  /\ pc = "detect" => header = pos /\ (header = size \/ header = Signature)
  /\ pc = "body" => staged = pos
  /\ pc \in {"structure", "replay"} => staged = size
  /\ pc \in {"body", "structure", "replay"} =>
       size > 0 /\ staged <= MaxSize /\ needs > 0 /\ named
  /\ pc = "replay" => sound
  /\ pc # "done" => result = "none"
  /\ DecisionDependsOnFile

\* A read hands on no more than the file has left, and nothing only at its end.
LEMMA ReadsAreHonest ==
  ASSUME FileInv, NEW n \in Nat, NEW k \in ReadSizes(n)
  PROVE  k \in Nat /\ k <= n /\ pos + k <= size /\ (k = 0 => pos = size)
  BY DEF FileInv, ReadSizes

\* The header is as long as the file or as the longest signature.
LEMMA HeaderKeepsFileInv ==
  ASSUME FileInv, handed, UNCHANGED handed, ReadHeader
  PROVE  FileInv'
<1>1. Signature - header \in Nat
  BY SizesAssumption DEF FileInv, ReadHeader
<1>2. PICK n \in ReadSizes(Signature - header) :
        /\ pos' = pos + n /\ header' = header + n
        /\ pc' = IF n = 0 \/ header' = Signature THEN "detect" ELSE "header"
  BY DEF ReadHeader
<1>3. n \in Nat /\ n <= Signature - header /\ pos + n <= size /\ (n = 0 => pos = size)
  BY <1>1, <1>2, ReadsAreHonest
<1> QED
  BY <1>1, <1>2, <1>3, SizesAssumption
  DEF ReadHeader, FileInv, file, DecisionDependsOnFile, Acceptable

\* An acceptable file is not refused for its header, and no other goes on.
LEMMA DetectKeepsFileInv ==
  ASSUME FileInv, handed, UNCHANGED handed, Detect
  PROVE  FileInv'
<1>1. header = pos /\ (header = size \/ header = Signature) /\ header <= size
  BY DEF FileInv, Detect
<1>2. CASE header = 0
  BY <1>1, <1>2, SizesAssumption
  DEF Detect, End, FileInv, file, DecisionDependsOnFile, Acceptable, Errors
<1>3. CASE header > 0 /\ ~Fits(header)
  BY <1>1, <1>3, SizesAssumption
  DEF Detect, End, Fits, FileInv, file, DecisionDependsOnFile, Acceptable, Errors
<1>4. CASE header > 0 /\ Fits(header) /\ (needs = 0 \/ header < needs \/ ~named)
  BY <1>1, <1>4, SizesAssumption
  DEF Detect, End, Fits, FileInv, file, DecisionDependsOnFile, Acceptable, Errors
<1>5. CASE header > 0 /\ Fits(header) /\ ~(needs = 0 \/ header < needs \/ ~named)
  <2>1. staged' = header /\ pc' = "body" /\ UNCHANGED <<open, result>>
    BY <1>5, <1>1 DEF Detect, FileInv
  <2> QED
    BY <1>1, <1>5, <2>1, SizesAssumption
    DEF Detect, Fits, FileInv, file, DecisionDependsOnFile, Acceptable, Errors
<1> QED
  BY <1>1, <1>2, <1>3, <1>4, <1>5 DEF FileInv

\* The size accounted chunk by chunk is the file's when a read returns nothing.
LEMMA StageKeepsFileInv ==
  ASSUME FileInv, handed, UNCHANGED handed, StageChunk
  PROVE  FileInv'
<1>1. PICK n \in ReadSizes(ChunkSize) :
        /\ pos' = pos + n
        /\ IF ~Fits(staged + n)
           THEN End("FileTooLarge") /\ UNCHANGED staged
           ELSE /\ staged' = staged + n
                /\ pc' = IF n = 0 THEN "structure" ELSE "body"
                /\ UNCHANGED <<open, result>>
  BY DEF StageChunk
<1>2. n \in Nat /\ pos + n <= size /\ (n = 0 => pos = size)
  BY <1>1, ReadsAreHonest, SizesAssumption
<1>3. CASE Fits(staged + n)
  BY <1>1, <1>2, <1>3, SizesAssumption
  DEF StageChunk, Fits, FileInv, file, DecisionDependsOnFile, Acceptable
<1>4. CASE ~Fits(staged + n)
  <2>1. size > MaxSize
    BY <1>2, <1>4, SizesAssumption DEF Fits, FileInv, StageChunk
  <2> QED
    BY <1>1, <1>2, <1>4, <2>1, SizesAssumption
    DEF StageChunk, End, FileInv, file, DecisionDependsOnFile, Acceptable, Errors
<1> QED
  BY <1>3, <1>4

\* The rest decides on the structure, and then only stores or fails.
LEMMA RestKeepsFileInv ==
  ASSUME FileInv, handed, UNCHANGED handed,
         CheckStructure \/ ReplayChunk \/ Flush \/ ReadOrStoreFails
  PROVE  FileInv'
<1>1. CASE CheckStructure
  BY <1>1 DEF CheckStructure, End, FileInv, file, DecisionDependsOnFile, Acceptable, Errors
<1>2. CASE ReplayChunk
  BY <1>2 DEF ReplayChunk, FileInv, file, DecisionDependsOnFile, Acceptable
<1>3. CASE Flush
  BY <1>3 DEF Flush, End, FileInv, file, DecisionDependsOnFile, Acceptable, Errors
<1>4. CASE ReadOrStoreFails
  BY <1>4
  DEF ReadOrStoreFails, End, FileInv, file, DecisionDependsOnFile, Acceptable, Errors
<1> QED
  BY <1>1, <1>2, <1>3, <1>4

\* No file has been handed over at first.
LEMMA FileBegins == UploadInit => FileInv
  BY SizesAssumption
  DEF UploadInit, FileInit, FileInv, DecisionDependsOnFile, Acceptable, Errors

\* The invariant of the file is inductive.
LEMMA FileInductive == FileInv /\ [UploadNext]_uploadVars => FileInv'
<1> SUFFICES ASSUME FileInv, [UploadNext]_uploadVars
             PROVE  FileInv'
  OBVIOUS
<1>1. CASE ReceiveBody \/ UNCHANGED uploadVars
  BY <1>1
  DEF ReceiveBody, uploadVars, fileVars, file, stream, FileInv, DecisionDependsOnFile,
      Acceptable
<1>2. CASE Hand
  <2>1. size' \in Nat /\ needs' \in 0..Signature /\ needs' <= size'
    BY <1>2, SizesAssumption DEF Hand
  <2> QED
    BY <1>2, <2>1
    DEF Hand, stream, FileInv, DecisionDependsOnFile, Acceptable, Errors
<1>3. CASE StoreFile
  BY <1>3, HeaderKeepsFileInv, DetectKeepsFileInv, StageKeepsFileInv, RestKeepsFileInv
  DEF StoreFile, FileNext, Progress
<1> QED
  BY <1>1, <1>2, <1>3 DEF UploadNext

-----------------------------------------------------------------------------
(* The blocks *)

\* While the temporary file is replayed every block staged is full, and what has
\* been replayed is in them or in the buffer, which is shorter than a block.
BlocksInv ==
  /\ FileTypeOK
  /\ pc \in {"header", "detect", "body", "structure"} =>
       buffer = 0 /\ replayed = 0 /\ blocks = <<>>
  /\ pc = "replay" =>
       /\ buffer < block
       /\ \A i \in 1..Len(blocks) : blocks[i] = block
       /\ Len(blocks) * block + buffer = replayed
  /\ StoredIsTheFile

\* The block size is positive.
LEMMA BlockIsPositive == ASSUME FileTypeOK PROVE block \in Nat \ {0}
  BY SizesAssumption DEF FileTypeOK

\* Division by a block size.
LEMMA DivisionByBlock ==
  ASSUME NEW a \in Nat, NEW b \in Nat \ {0}
  PROVE  /\ a \div b \in Nat /\ a % b \in 0..(b - 1)
         /\ a = (a \div b) * b + (a % b)
<1>1. a \div b \in Nat
  OBVIOUS
<1>2. a % b \in 0..(b - 1)
  OBVIOUS
<1>3. a = (a \div b) * b + (a % b)
  OBVIOUS
<1> QED
  BY <1>1, <1>2, <1>3

\* Staging the file keeps the counts in range.
LEMMA StagingKeepsTypes ==
  ASSUME FileInv, FileTypeOK, replayed = 0,
         ReadHeader \/ Detect \/ StageChunk \/ CheckStructure
  PROVE  FileTypeOK'
<1> USE SizesAssumption DEF FileTypeOK, file
<1>1. CASE ReadHeader
  <2>1. Signature - header \in Nat
    BY <1>1 DEF ReadHeader
  <2>2. PICK n \in ReadSizes(Signature - header) :
          /\ pos' = pos + n /\ header' = header + n
          /\ pc' \in {"header", "detect"}
    BY <1>1 DEF ReadHeader
  <2>3. n \in Nat /\ n <= Signature - header /\ pos + n <= size
    BY <2>1, <2>2, ReadsAreHonest
  <2>4. pos' \in 0..size /\ header' \in 0..Signature
    BY <2>1, <2>2, <2>3
  <2> QED
    BY <1>1, <2>2, <2>4 DEF ReadHeader
<1>2. CASE Detect
  <2>1. CASE UNCHANGED staged /\ \E outcome1 \in Errors : End(outcome1)
    BY <1>2, <2>1 DEF Detect, End, Errors
  <2>2. CASE Fits(header) /\ staged' = header /\ pc' = "body" /\ UNCHANGED <<open, result>>
    <3>1. staged' \in 0..MaxSize /\ replayed \in 0..staged'
      BY <2>2 DEF Fits
    <3> QED
      BY <1>2, <2>2, <3>1 DEF Detect
  <2>3. header = 0 \/ header > 0
    OBVIOUS
  <2> QED
    BY <1>2, <2>1, <2>2, <2>3 DEF Detect, Errors
<1>3. CASE StageChunk
  <2>1. PICK n \in ReadSizes(ChunkSize) :
          /\ pos' = pos + n
          /\ IF ~Fits(staged + n)
             THEN End("FileTooLarge") /\ UNCHANGED staged
             ELSE /\ staged' = staged + n
                  /\ pc' = IF n = 0 THEN "structure" ELSE "body"
                  /\ UNCHANGED <<open, result>>
    BY <1>3 DEF StageChunk
  <2>2. n \in Nat /\ pos + n <= size
    BY <2>1, ReadsAreHonest
  <2>3. pos' \in 0..size
    BY <2>1, <2>2
  <2>4. staged' \in 0..MaxSize /\ replayed \in 0..staged'
    BY <2>1, <2>2 DEF Fits
  <2>5. pc' \in {"body", "structure", "done"} /\ open' \in BOOLEAN
        /\ result' \in {result, "FileTooLarge"}
    BY <2>1 DEF End
  <2> QED
    BY <1>3, <2>3, <2>4, <2>5 DEF StageChunk, Errors
<1>4. CASE CheckStructure
  BY <1>4 DEF CheckStructure, End, Errors
<1> QED
  BY <1>1, <1>2, <1>3, <1>4

\* It touches neither buffer nor blocks, and stores nothing.
LEMMA StagingKeepsBlocksInv ==
  ASSUME FileInv, BlocksInv, handed,
         ReadHeader \/ Detect \/ StageChunk \/ CheckStructure
  PROVE  BlocksInv'
<1>1. /\ pc \in {"header", "detect", "body", "structure"}
      /\ UNCHANGED <<block, replayed, buffer, blocks>>
  BY DEF ReadHeader, Detect, StageChunk, CheckStructure, file
<1>2. buffer = 0 /\ replayed = 0 /\ blocks = <<>> /\ FileTypeOK
  BY <1>1 DEF BlocksInv
<1>3. FileTypeOK'
  BY <1>2, StagingKeepsTypes
<1>4. result = "none"
  BY <1>1 DEF FileInv
<1>5. result' # "stored"
  BY <1>4 DEF ReadHeader, Detect, StageChunk, CheckStructure, End
<1>6. block \in Nat \ {0} /\ Len(blocks) = 0 /\ Len(blocks) * block + buffer = replayed
  BY <1>2, BlockIsPositive
<1> QED
  BY <1>1, <1>2, <1>3, <1>5, <1>6 DEF BlocksInv, StoredIsTheFile

\* A chunk of the replay goes into full blocks and a rest.
LEMMA ReplayKeepsBlocksInv ==
  ASSUME FileInv, BlocksInv, handed, ReplayChunk
  PROVE  BlocksInv'
<1> DEFINE n == IF staged - replayed < ChunkSize THEN staged - replayed ELSE ChunkSize
           full == (buffer + n) \div block
           rest == (buffer + n) % block
<1>1. /\ block \in Nat \ {0} /\ buffer \in Nat /\ replayed \in Nat /\ staged \in Nat
      /\ replayed < staged /\ blocks \in Seq(1..block) /\ Len(blocks) \in Nat
      /\ pc = "replay" /\ result = "none"
  BY BlockIsPositive, SizesAssumption DEF ReplayChunk, BlocksInv, FileTypeOK, FileInv
<1>2. n \in Nat /\ n <= ChunkSize /\ replayed + n <= staged
  <2>1. ChunkSize \in Nat /\ staged - replayed \in Nat
    BY <1>1, SizesAssumption
  <2> QED
    BY <1>1, <2>1
<1>3. /\ replayed' = replayed + n
      /\ buffer' = rest
      /\ blocks' = blocks \o [i \in 1..full |-> block]
      /\ UNCHANGED <<file, pc, pos, header, staged, open, result>>
  BY DEF ReplayChunk, Cut
<1> HIDE DEF n
<1>4. full \in Nat /\ rest \in 0..(block - 1) /\ buffer + n = full * block + rest
  <2>1. buffer + n \in Nat
    BY <1>1, <1>2
  <2> QED
    BY <1>1, <2>1, DivisionByBlock
<1> HIDE DEF full, rest
<1> DEFINE more == [i \in 1..full |-> block]
<1>5. more \in Seq(1..block) /\ Len(more) = full /\ \A i \in 1..full : more[i] = block
  BY <1>1, <1>4
<1> HIDE DEF more
<1>6. /\ blocks' = blocks \o more
      /\ blocks' \in Seq(1..block) /\ Len(blocks') = Len(blocks) + full
      /\ \A i \in 1..Len(blocks) : blocks'[i] = blocks[i]
      /\ \A i \in 1..full : blocks'[Len(blocks) + i] = more[i]
  <2>1. blocks' = blocks \o more
    BY <1>3 DEF more
  <2>2. /\ blocks \o more \in Seq(1..block)
        /\ Len(blocks \o more) = Len(blocks) + Len(more)
        /\ \A i \in 1..Len(blocks) : (blocks \o more)[i] = blocks[i]
        /\ \A i \in 1..Len(more) : (blocks \o more)[Len(blocks) + i] = more[i]
    <3>1. blocks \in Seq(1..block) /\ more \in Seq(1..block)
      BY <1>1, <1>5
    <3> QED
      BY <3>1, ConcatByIndex
  <2> QED
    BY <1>5, <2>1, <2>2, Zenon
<1>7. \A i \in 1..Len(blocks') : blocks'[i] = block
  <2> SUFFICES ASSUME NEW i \in 1..Len(blocks')
               PROVE  blocks'[i] = block
    OBVIOUS
  <2>1. CASE i <= Len(blocks)
    <3>1. i \in 1..Len(blocks)
      BY <1>1, <2>1
    <3>2. blocks[i] = block
      BY <1>1, <3>1 DEF BlocksInv
    <3> QED
      BY <1>6, <3>1, <3>2
  <2>2. CASE i > Len(blocks)
    <3>1. i - Len(blocks) \in 1..full /\ i = Len(blocks) + (i - Len(blocks))
      BY <1>1, <1>4, <1>6, <2>2
    <3> QED
      BY <1>5, <1>6, <3>1
  <2> QED
    BY <1>1, <2>1, <2>2
<1>8. Len(blocks') * block + buffer' = replayed'
  <2> DEFINE before == Len(blocks) * block
             new == full * block
  <2>1. (Len(blocks) + full) * block = before + new /\ before \in Nat /\ new \in Nat
    BY <1>1, <1>4
  <2>2. before + buffer = replayed /\ buffer + n = new + rest
    BY <1>1, <1>4 DEF BlocksInv
  <2> HIDE DEF before, new
  <2>3. (before + new) + rest = replayed + n
    BY <1>1, <1>2, <1>4, <2>1, <2>2
  <2>4. Len(blocks') * block = before + new
    BY <1>6, <2>1, Zenon
  <2> QED
    BY <1>3, <2>3, <2>4, Zenon
<1>9. replayed' \in 0..staged /\ buffer' \in 0..(block + ChunkSize) /\ buffer' < block
  BY <1>1, <1>2, <1>3, <1>4, SizesAssumption
<1> QED
  BY <1>1, <1>3, <1>6, <1>7, <1>8, <1>9
  DEF BlocksInv, FileTypeOK, StoredIsTheFile, file

\* What is flushed last completes the file.
LEMMA FlushKeepsBlocksInv ==
  ASSUME FileInv, BlocksInv, handed, Flush
  PROVE  BlocksInv'
<1>1. /\ block \in Nat \ {0} /\ buffer \in Nat /\ buffer < block
      /\ blocks \in Seq(1..block) /\ Len(blocks) \in Nat
      /\ pc = "replay" /\ replayed = size /\ size \in Nat /\ size > 0
  BY BlockIsPositive, SizesAssumption DEF Flush, BlocksInv, FileTypeOK, FileInv
<1>2. /\ \A i \in 1..Len(blocks) : blocks[i] = block
      /\ Len(blocks) * block + buffer = size
  BY <1>1 DEF BlocksInv
<1>3. /\ blocks' = IF buffer > 0 THEN Append(blocks, buffer) ELSE blocks
      /\ buffer' = 0 /\ pc' = "done" /\ result' = "stored" /\ open' = FALSE
      /\ UNCHANGED <<file, pos, header, staged, replayed>>
  BY DEF Flush, End
<1>4. /\ blocks' \in Seq(1..block) /\ Len(blocks') > 0
      /\ \A i \in 1..Len(blocks') - 1 : blocks'[i] = block
      /\ blocks'[Len(blocks')] \in 1..block
      /\ (Len(blocks') - 1) * block + blocks'[Len(blocks')] = size
  <2>1. CASE buffer > 0
    <3>1. blocks' = Append(blocks, buffer) /\ buffer \in 1..block
      BY <1>1, <1>3, <2>1
    <3>2. /\ blocks' \in Seq(1..block) /\ Len(blocks') = Len(blocks) + 1
          /\ blocks'[Len(blocks) + 1] = buffer
          /\ \A i \in 1..Len(blocks) : blocks'[i] = blocks[i]
      BY <1>1, <3>1, AppendByIndex
    <3>3. Len(blocks') > 0 /\ Len(blocks') - 1 = Len(blocks)
      BY <1>1, <3>2
    <3> QED
      BY <1>2, <3>1, <3>2, <3>3
  <2>2. CASE buffer = 0
    <3>1. blocks' = blocks
      BY <1>3, <2>2
    <3>2. Len(blocks) > 0
      BY <1>1, <1>2, <2>2
    <3>3. (Len(blocks) - 1) * block + block = Len(blocks) * block
      BY <1>1
    <3>4. blocks[Len(blocks)] = block
      BY <1>1, <1>2, <3>2
    <3> QED
      BY <1>1, <1>2, <2>2, <3>1, <3>2, <3>3, <3>4
  <2> QED
    BY <1>1, <2>1, <2>2
<1>5. FileTypeOK'
  <2>1. 0 \in 0..(block + ChunkSize)
    BY <1>1, SizesAssumption
  <2> QED
    BY <1>3, <1>4, <2>1 DEF BlocksInv, FileTypeOK, file
<1>6. StoredIsTheFile'
  BY <1>3, <1>4 DEF StoredIsTheFile, file
<1> QED
  BY <1>3, <1>5, <1>6 DEF BlocksInv

\* The blocks are empty at first.
LEMMA BlocksBegin == UploadInit => BlocksInv
  BY SizesAssumption
  DEF UploadInit, FileInit, BlocksInv, FileTypeOK, StoredIsTheFile

\* The invariant of the blocks is inductive beside the file's.
LEMMA BlocksInductive ==
  FileInv /\ BlocksInv /\ [UploadNext]_uploadVars => BlocksInv'
<1> SUFFICES ASSUME FileInv, BlocksInv, [UploadNext]_uploadVars
             PROVE  BlocksInv'
  OBVIOUS
<1>1. CASE ReceiveBody \/ UNCHANGED uploadVars
  BY <1>1
  DEF ReceiveBody, uploadVars, fileVars, file, stream, BlocksInv, FileTypeOK,
      StoredIsTheFile
<1>2. CASE Hand
  <2>1. size' \in 0..MaxFile /\ needs' \in 0..Signature /\ ~handed
    BY <1>2, SizesAssumption DEF Hand
  <2>2. pc = "header" /\ pos = 0 /\ result = "none"
    BY <2>1 DEF FileInv
  <2>3. 0 \in 0..size'
    BY <2>1, SizesAssumption
  <2> QED
    BY <1>2, <2>1, <2>2, <2>3
    DEF Hand, stream, BlocksInv, FileTypeOK, StoredIsTheFile
<1>3. CASE StoreFile
  <2>1. CASE ReadOrStoreFails
    BY <1>3, <2>1
    DEF ReadOrStoreFails, StoreFile, End, file, BlocksInv, FileTypeOK, StoredIsTheFile
  <2> QED
    BY <1>3, <2>1, StagingKeepsBlocksInv, ReplayKeepsBlocksInv, FlushKeepsBlocksInv
    DEF StoreFile, FileNext, Progress
<1> QED
  BY <1>1, <1>2, <1>3 DEF UploadNext

\* Both invariants hold in every state.
LEMMA FileInvariant == UploadSpec => [](FileInv /\ BlocksInv)
  BY FileBegins, FileInductive, BlocksBegin, BlocksInductive, PTL DEF UploadSpec

-----------------------------------------------------------------------------
(* Progress of the file *)

\* Where a file is on its way, and what is left to read there.
Stage ==
  CASE pc = "header" -> 5
    [] pc = "detect" -> 4
    [] pc = "body" -> 3
    [] pc = "structure" -> 2
    [] pc = "replay" -> 1
    [] OTHER -> 0

Left == IF pc = "replay" THEN staged - replayed ELSE size - pos

\* The next stage, or less of this one.
Advances == Stage' < Stage \/ (Stage' = Stage /\ Left' < Left)

\* A read that returns nothing ends its stage; every other one leaves less.
LEMMA FileAdvances ==
  ASSUME FileInv, FileTypeOK, FileNext
  PROVE  Advances
<1> USE SizesAssumption DEF FileInv, FileTypeOK, Advances, Stage, Left, file, End
<1>1. CASE ReadHeader
  <2>1. Signature - header \in Nat
    BY <1>1 DEF ReadHeader
  <2>2. PICK n \in ReadSizes(Signature - header) :
          /\ pos' = pos + n
          /\ pc' = IF n = 0 \/ header' = Signature THEN "detect" ELSE "header"
    BY <1>1 DEF ReadHeader
  <2>3. n \in Nat
    BY <2>1, <2>2, ReadsAreHonest
  <2>4. CASE n = 0
    BY <1>1, <2>2, <2>4 DEF ReadHeader
  <2>5. CASE n > 0
    BY <1>1, <2>2, <2>3, <2>5 DEF ReadHeader
  <2> QED
    BY <2>3, <2>4, <2>5
<1>2. CASE Detect
  <2>1. pc = "detect" /\ pc' \in {"done", "body"}
    BY <1>2 DEF Detect
  <2> QED
    BY <2>1
<1>3. CASE StageChunk
  <2>1. PICK n \in ReadSizes(ChunkSize) :
          /\ pos' = pos + n
          /\ pc' \in {IF n = 0 THEN "structure" ELSE "body", "done"}
    BY <1>3 DEF StageChunk
  <2>2. n \in Nat /\ pc = "body" /\ size' = size
    BY <1>3, <2>1, ReadsAreHonest DEF StageChunk
  <2>3. CASE pc' # "body"
    BY <2>1, <2>2, <2>3
  <2>4. CASE pc' = "body"
    <3>1. n > 0
      BY <2>1, <2>2, <2>4
    <3> QED
      BY <2>1, <2>2, <2>4, <3>1
  <2> QED
    BY <2>3, <2>4
<1>4. CASE ReplayChunk
  <2> DEFINE n == IF staged - replayed < ChunkSize THEN staged - replayed ELSE ChunkSize
  <2>1. replayed' = replayed + n
    BY <1>4 DEF ReplayChunk
  <2>2. staged - replayed \in Nat \ {0} /\ ChunkSize \in Nat \ {0}
    BY <1>4 DEF ReplayChunk
  <2>3. n \in Nat \ {0}
    BY <2>2
  <2>4. pc = "replay" /\ pc' = pc /\ staged' = staged
    BY <1>4 DEF ReplayChunk
  <2>5. staged \in Nat /\ replayed \in Nat
    BY <1>4
  <2> HIDE DEF n, FileInv, FileTypeOK
  <2>6. Left' < Left
    BY <2>1, <2>3, <2>4, <2>5
  <2>7. Stage' = Stage
    BY <2>4
  <2> QED
    BY <2>6, <2>7
<1>5. CASE CheckStructure \/ Flush \/ ReadOrStoreFails
  BY <1>5 DEF CheckStructure, Flush, ReadOrStoreFails
<1> QED
  BY <1>1, <1>2, <1>3, <1>4, <1>5 DEF FileNext, Progress

-----------------------------------------------------------------------------
(* Theorems *)

\* An upload receives its body as BodyLimit says, so that what is proved of the
\* body limit holds of uploads.
THEOREM UploadImplementsBodyLimit == UploadSpec => BodySpec
<1>1. UploadInit => BodyInit
  BY DEF UploadInit
<1>2. [UploadNext]_uploadVars => [BodyNext]_bodyVars
  BY DEF UploadNext, ReceiveBody, Hand, StoreFile, uploadVars
<1> QED
  BY <1>1, <1>2, PTL DEF UploadSpec, BodySpec

\* The count, the tail and the verdict stay typed; the count is the number of
\* bytes received.
THEOREM BodyTypes == BodySpec => []BodyTypeOK
<1>1. BodyInv => BodyTypeOK
  BY DEF BodyInv
<1> QED
  BY <1>1, BodyBegins, BodyInductive, PTL DEF BodySpec

\* For every boundary and every cutting of every body into messages, the flag
\* says exactly whether the closing boundary has been received
\* (limited_receive).
THEOREM BoundaryIsSeen == BodySpec => []ClosedIffReceived
<1>1. BodyInv => ClosedIffReceived
  BY DEF BodyInv
<1> QED
  BY <1>1, BodyBegins, BodyInductive, PTL DEF BodySpec

\* The verdict on a body is about the whole of it, however it is cut
\* (DocumentBodyLimitRoute).
THEOREM BodyVerdict == BodySpec => []VerdictIsJustified
<1>1. BodyInv => VerdictIsJustified
  BY DEF BodyInv
<1> QED
  BY <1>1, BodyBegins, BodyInductive, PTL DEF BodySpec

\* For every file, every limit and every cutting of its reads, an acceptable file
\* is never refused and no other is ever stored (ValidatedFileStream).
THEOREM FileDecision == UploadSpec => []DecisionDependsOnFile
<1>1. FileInv => DecisionDependsOnFile
  BY DEF FileInv
<1> QED
  BY <1>1, FileBegins, FileInductive, PTL DEF UploadSpec

\* The counts of bytes read, staged, replayed and buffered stay in range, and
\* what is staged never exceeds the limit (ValidatedFileStream, _blocks).
THEOREM FileTypes == UploadSpec => []FileTypeOK
<1>1. BlocksInv => FileTypeOK
  BY DEF BlocksInv
<1> QED
  BY <1>1, FileInvariant, PTL

\* For every file, chunk size and block size, the blocks that are committed are
\* the file: all full but the last, none empty, no byte lost or added
\* (_replay, _blocks, _perform_upload).
THEOREM FileIsStoredWhole == UploadSpec => []StoredIsTheFile
<1>1. BlocksInv => StoredIsTheFile
  BY DEF BlocksInv
<1> QED
  BY <1>1, FileInvariant, PTL

\* Every step on a file brings it to a later stage or leaves less to read in this
\* one, however short the reads are; nothing else sets it back once it is handed
\* over: no file keeps a request for ever.
THEOREM FilesAreBounded ==
  UploadSpec => /\ [](Stage \in Nat /\ Left \in Nat)
                /\ [][handed => Advances \/ UNCHANGED <<Stage, Left>>]_uploadVars
                /\ [][StoreFile => Advances]_uploadVars
<1>1. FileInv /\ BlocksInv => Stage \in Nat /\ Left \in Nat
  <2> SUFFICES ASSUME FileInv, FileTypeOK
               PROVE  Stage \in Nat /\ Left \in Nat
    BY DEF BlocksInv
  <2>1. Stage \in Nat
    BY DEF Stage
  <2>2. size - pos \in Nat /\ staged - replayed \in Nat
    BY DEF FileInv, FileTypeOK
  <2> QED
    BY <2>1, <2>2 DEF Left
<1>2. FileInv /\ BlocksInv /\ [UploadNext]_uploadVars => [StoreFile => Advances]_uploadVars
  BY FileAdvances DEF BlocksInv, StoreFile
<1>3. FileInv /\ BlocksInv /\ [UploadNext]_uploadVars
        => [handed => Advances \/ UNCHANGED <<Stage, Left>>]_uploadVars
  <2> SUFFICES ASSUME FileInv, BlocksInv, UploadNext, handed
               PROVE  Advances \/ UNCHANGED <<Stage, Left>>
    OBVIOUS
  <2>1. CASE ReceiveBody
    BY <2>1 DEF ReceiveBody, fileVars, file, stream, Stage, Left
  <2>2. CASE Hand
    BY <2>2 DEF Hand
  <2>3. CASE StoreFile
    BY <2>3, FileAdvances DEF BlocksInv, StoreFile
  <2> QED
    BY <2>1, <2>2, <2>3 DEF UploadNext
<1> QED
  BY <1>1, <1>2, <1>3, FileInvariant, PTL DEF UploadSpec

=============================================================================
